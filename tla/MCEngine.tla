------------------------------ MODULE MCEngine ------------------------------
(***************************************************************************)
(* The compiled program against the source language: every unit of         *)
(* Programs is desugared, compiled and run by Engine, for every choice of  *)
(* what its awaits meet, and compared with what Semantics says of it.      *)
(***************************************************************************)
EXTENDS Engine

Ref == INSTANCE Semantics
Sugar == INSTANCE Desugar
Source == INSTANCE Programs

\* Meaning(unit, awaits): what a unit does, by the source language.
CONSTANT Meaning(_, _)
SourceMeaning(unit, aw) == LET r == Ref!Run(unit.ref, aw) IN r

\* A unit as it is loaded: desugared, then compiled.
Loaded(unit) ==
  LET r == CHOOSE l \in {Compiled(d.stats) : d \in {Sugar!DesugarUnit(unit.src)}} : TRUE IN r
MCUnits == Source!AllUnits
ChainUnits == Source!ChainUnits
FinallyUnits == Source!FinallyUnits
MCCollect(self, x, args) == LET r == Coll!Native(self, x, args) IN r
MCCollectOn(c, v) == LET r == Coll!Resume(c, v) IN r

-----------------------------------------------------------------------------
Finished == status.k \in {"done", "failed"}
Thrown == IF status.v[1] = "Obj" THEN <<"Err", heap.objs[status.v[2]].cls>> ELSE status.v

\* A finished run has emitted what the source says, in that order, and ended as
\* it says, whatever its awaits met: no slot, cell, capture, jump, handler range,
\* copied finally or resumed frame chain of the bytecode tells otherwise.
RunsAsWritten ==
  Finished => LET r == Meaning(Units[prog], awaits)
              IN  /\ out = r.s.out
                  /\ (status.k = "failed") = (r.t = "throw")
                  /\ status.k = "failed" => Thrown = Ref!Outcome(r)

\* The operand stack has at every instruction the depth the compiler recorded
\* for it, after an exception and after a resumption too, and stays within the
\* room that the module reserves for the frame.
StackAsCompiled ==
  Running => /\ Len(Frame.stack) = Ins.d
             /\ Len(Frame.stack) <= Mod(Frame.mod).max

\* Every program ends: no instruction is left without a step, no jump loops, and
\* a suspended turn is resumed once its future is settled.
Terminates == <>Finished
=============================================================================

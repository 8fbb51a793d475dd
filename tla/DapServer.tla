----------------------------- MODULE DapServer ------------------------------
(***************************************************************************)
(* The debug adapter (dap/DapServer.cpp) and the part of the interpreter's *)
(* hook (runtime/Debugger.cpp) that hands threads to it: the protocol      *)
(* thread, which serves one request at a time; the debuggee's threads,     *)
(* which register, stop, run the requests queued for them and go on; the   *)
(* launcher and the evaluator; and the shutdown.                           *)
(*                                                                         *)
(* What a frame shows, the step modes and the text of events are left out. *)
(***************************************************************************)
EXTENDS Integers, Sequences, FiniteSets

CONSTANTS
    Main,         \* the evaluator thread
    Workers,      \* the other debuggee threads
    NoThread,
    Depths,       \* how many source frames a stop may show
    MaxStops,     \* bound: stops of one thread
    MaxRequests,  \* bound: evaluate and variables requests
    Waits         \* threads an evaluated expression may wait for

Threads == {Main} \cup Workers

ASSUME ConstantsAssumption ==
    /\ Main \notin Workers /\ NoThread \notin Threads
    /\ Depths \subseteq Nat \ {0}
    /\ Waits \subseteq Threads

VARIABLES
    attached,     \* gAttached
    controller,   \* gController is set
    stopRequest,  \* gStopRequest: the first thread at a new line stops
    live,         \* Threads::live
    pause,        \* threads whose ThreadInfo::pause is set
    tableLock,    \* the holder of Threads::mu across a callback, or NoThread
    configDone, shuttingDown, finished,
    session,      \* session_ is set
    stopped,      \* the keys of stopped_
    frames,       \* the frame ids of a thread's StoppedThread, a set
    resumeReady,  \* stopped threads whose resumeReady is set
    work,         \* StoppedThread::work
    frameOwner, nextFrameId, lastStopped,
    stops,        \* stops of each thread so far: which StoppedThread is its current one
    tpc,          \* where a debuggee thread is
    serving,      \* the request a stopped thread runs
    inside,       \* threads inside a call of the controller
    epc,          \* where the launcher and the evaluator are
    spc,          \* where the protocol thread is
    req,          \* the request it serves
    done,         \* Work::done of that request
    requests,     \* how many there were
    told          \* the last thread event the client was sent for a thread

debugVars == <<attached, controller, stopRequest, live, pause, tableLock>>
stopVars == <<stopped, frames, resumeReady, work, frameOwner, nextFrameId, lastStopped, stops>>
flagVars == <<configDone, shuttingDown, finished, session>>
threadVars == <<tpc, serving, inside, told>>
serverVars == <<spc, req, done, requests>>
vars == <<debugVars, stopVars, flagVars, threadVars, serverVars, epc>>

NoRequest == [frame |-> 0, thread |-> NoThread, stop |-> 0, waits |-> NoThread]

Init ==
    /\ attached = FALSE /\ controller = FALSE /\ stopRequest = FALSE
    /\ live = {} /\ pause = {} /\ tableLock = NoThread
    /\ configDone = FALSE /\ shuttingDown = FALSE /\ finished = FALSE /\ session = FALSE
    /\ stopped = {} /\ resumeReady = {}
    /\ frames = [t \in Threads |-> {}]
    /\ work = [t \in Threads |-> <<>>]
    /\ frameOwner = <<>> /\ nextFrameId = 1 /\ lastStopped = NoThread
    /\ stops = [t \in Threads |-> 0]
    /\ tpc = [t \in Threads |-> "none"]
    /\ serving = [t \in Threads |-> NoRequest]
    /\ inside = {}
    /\ told = [t \in Threads |-> "nothing"]
    /\ epc = "none"
    /\ spc = "loop" /\ req = NoRequest /\ done = FALSE /\ requests = 0

Goto(t, l) == tpc' = [tpc EXCEPT ![t] = l]

-----------------------------------------------------------------------------
(* The debuggee's threads: the hook (Debugger.cpp).                        *)

\* A thread runs its first interpreted frame: the evaluator from the session's
\* construction on, a worker until the session has joined it.
Enter(t) ==
    /\ tpc[t] = "none"
    /\ IF t = Main THEN epc \in {"create", "script"} ELSE epc \in {"script", "closing"}
    /\ Goto(t, IF attached THEN "register" ELSE "plain")
    /\ UNCHANGED <<debugVars, stopVars, flagVars, serving, inside, told, serverVars, epc>>

\* registerThread: under Threads::mu until the controller has been told.
RegisterThread(t) ==
    /\ tpc[t] = "register"
    /\ tableLock = NoThread
    /\ tableLock' = t
    /\ live' = live \cup {t}
    /\ inside' = IF controller THEN inside \cup {t} ELSE inside
    /\ Goto(t, "start")
    /\ UNCHANGED <<attached, controller, stopRequest, pause, stopVars, flagVars, serving,
                   told, serverVars, epc>>

ThreadStarted(t) ==
    /\ tpc[t] = "start"
    /\ told' = IF t \in inside THEN [told EXCEPT ![t] = "started"] ELSE told
    /\ inside' = inside \ {t}
    /\ tableLock' = NoThread
    /\ Goto(t, "run")
    /\ UNCHANGED <<attached, controller, stopRequest, live, pause, stopVars, flagVars,
                   serving, serverVars, epc>>

\* newLine finds a reason to stop, or stopForException: the thread holds the
\* controller it loaded.
NewLine(t) ==
    /\ tpc[t] = "run"
    /\ controller
    /\ stops[t] < MaxStops
    /\ \/ t \in pause /\ pause' = pause \ {t} /\ UNCHANGED stopRequest
       \/ /\ t \notin pause /\ stopRequest
          /\ ~(t = Main /\ epc = "create")       \* a line of the prelude
          /\ stopRequest' = FALSE /\ UNCHANGED pause
       \/ UNCHANGED <<pause, stopRequest>>
    /\ inside' = inside \cup {t}
    /\ Goto(t, "stop")
    /\ UNCHANGED <<attached, controller, live, tableLock, stopVars, flagVars, serving, told,
                   serverVars, epc>>

\* A thread that is not inside the interpreter any more.
MayExit(t) ==
    /\ tpc[t] = "run"
    /\ t = Main => epc = "ended"

\* Mutant: ~ThreadSlot reports the exit of a thread that never registered.
ExitUnregistered(t) ==
    \/ /\ tpc[t] \in {"run", "plain"}
       /\ t = Main => epc = "ended"
       /\ tableLock = NoThread
       /\ tableLock' = t
       /\ live' = live \ {t}
       /\ inside' = IF controller THEN inside \cup {t} ELSE inside
       /\ Goto(t, "exit")
       /\ UNCHANGED <<attached, controller, stopRequest, pause, stopVars, flagVars, serving,
                      told, serverVars, epc>>

\* ~ThreadSlot at the end of the OS thread; one that ran detached has no info.
Exit(t) ==
    \/ /\ MayExit(t)
       /\ tableLock = NoThread
       /\ tableLock' = t
       /\ live' = live \ {t}
       /\ inside' = IF controller THEN inside \cup {t} ELSE inside
       /\ Goto(t, "exit")
       /\ UNCHANGED <<attached, controller, stopRequest, pause, stopVars, flagVars, serving,
                      told, serverVars, epc>>
    \/ /\ tpc[t] = "plain"
       /\ t = Main => epc = "ended"
       /\ Goto(t, "gone")
       /\ UNCHANGED <<debugVars, stopVars, flagVars, serving, inside, told, serverVars, epc>>

ThreadExited(t) ==
    /\ tpc[t] = "exit"
    /\ told' = IF t \in inside THEN [told EXCEPT ![t] = "exited"] ELSE told
    /\ inside' = inside \ {t}
    /\ tableLock' = NoThread
    /\ Goto(t, "gone")
    /\ UNCHANGED <<attached, controller, stopRequest, live, pause, stopVars, flagVars,
                   serving, serverVars, epc>>

-----------------------------------------------------------------------------
(* The debuggee's threads: DapServer::stopped.                             *)

\* The thread becomes a StoppedThread with fresh frame ids.
EnterStop(t) ==
    /\ \E n \in Depths :
        LET ids == nextFrameId..(nextFrameId + n - 1) IN
        /\ frames' = [frames EXCEPT ![t] = ids]
        /\ frameOwner' = [f \in DOMAIN frameOwner \cup ids |->
                             IF f \in ids THEN t ELSE frameOwner[f]]
        /\ nextFrameId' = nextFrameId + n
    /\ stopped' = stopped \cup {t}
    /\ resumeReady' = resumeReady \ {t}
    /\ work' = [work EXCEPT ![t] = <<>>]
    /\ lastStopped' = t
    /\ stops' = [stops EXCEPT ![t] = @ + 1]
    /\ Goto(t, "announce")
    /\ UNCHANGED <<debugVars, flagVars, serving, inside, told, serverVars, epc>>

\* Mutant: the stop does not look at shuttingDown_.
StopAlways(t) ==
    /\ tpc[t] = "stop"
    /\ EnterStop(t)

Stop(t) ==
    /\ tpc[t] = "stop"
    /\ \/ /\ shuttingDown
          /\ inside' = inside \ {t}
          /\ Goto(t, "run")
          /\ UNCHANGED <<debugVars, stopVars, flagVars, serving, told, serverVars, epc>>
       \/ /\ ~shuttingDown
          /\ EnterStop(t)

\* The stopped event goes out after mu_ is released.
Announce(t) ==
    /\ tpc[t] = "announce"
    /\ told' = [told EXCEPT ![t] = "stopped"]
    /\ Goto(t, "park")
    /\ UNCHANGED <<debugVars, stopVars, flagVars, serving, inside, serverVars, epc>>

\* A request is served before a resume is looked at.
TakeWork(t) ==
    /\ tpc[t] = "park"
    /\ work[t] # <<>>
    /\ serving' = [serving EXCEPT ![t] = Head(work[t])]
    /\ work' = [work EXCEPT ![t] = Tail(@)]
    /\ Goto(t, "serve")
    /\ UNCHANGED <<debugVars, stopped, frames, resumeReady, frameOwner, nextFrameId,
                   lastStopped, stops, flagVars, inside, told, serverVars, epc>>

\* Mutant: an exception of the evaluated expression skips done.
FinishWorkThrows(t) ==
    /\ tpc[t] = "serve"
    /\ serving[t].waits \notin stopped \ {t}
    /\ serving' = [serving EXCEPT ![t] = NoRequest]
    /\ Goto(t, "park")
    /\ UNCHANGED <<debugVars, stopVars, flagVars, inside, told, serverVars, epc>>

\* work->fn() returns or throws, either way the request is done. An
\* expression that waits for another, stopped thread returns once that one goes on.
FinishWork(t) ==
    /\ tpc[t] = "serve"
    /\ serving[t].waits \notin stopped \ {t}
    /\ serving' = [serving EXCEPT ![t] = NoRequest]
    /\ done' = TRUE
    /\ Goto(t, "park")
    /\ UNCHANGED <<debugVars, stopVars, flagVars, inside, told, spc, req, requests, epc>>

\* Mutant: the frame ids of the thread stay in frameOwner_.
ResumeKeepsFrames(t) ==
    /\ tpc[t] = "park"
    /\ work[t] = <<>> /\ t \in resumeReady
    /\ stopped' = stopped \ {t}
    /\ resumeReady' = resumeReady \ {t}
    /\ inside' = inside \ {t}
    /\ Goto(t, "run")
    /\ UNCHANGED <<debugVars, frames, work, frameOwner, nextFrameId, lastStopped, stops,
                   flagVars, serving, told, serverVars, epc>>

\* The thread goes on: its frames are no longer named by any id.
Resume(t) ==
    /\ tpc[t] = "park"
    /\ work[t] = <<>> /\ t \in resumeReady
    /\ frameOwner' = [f \in DOMAIN frameOwner \ frames[t] |-> frameOwner[f]]
    /\ stopped' = stopped \ {t}
    /\ resumeReady' = resumeReady \ {t}
    /\ inside' = inside \ {t}
    /\ Goto(t, "run")
    /\ UNCHANGED <<debugVars, frames, work, nextFrameId, lastStopped, stops, flagVars,
                   serving, told, serverVars, epc>>

-----------------------------------------------------------------------------
(* The launcher and the evaluator.                                         *)

\* evaluatorMain waits for configurationDone; it returns at once at shutdown.
Configured ==
    /\ epc = "config"
    /\ configDone \/ shuttingDown
    /\ epc' = IF shuttingDown THEN "ended" ELSE "create"
    /\ UNCHANGED <<debugVars, stopVars, flagVars, threadVars, serverVars>>

\* The Session is built, with the prelude's code run on this thread.
SessionOpens ==
    /\ epc = "create"
    /\ tpc[Main] \in {"none", "run", "plain"}
    /\ session' = TRUE
    /\ epc' = "script"
    /\ UNCHANGED <<debugVars, stopVars, configDone, shuttingDown, finished, threadVars,
                   serverVars>>

ScriptEnds ==
    /\ epc = "script"
    /\ tpc[Main] \in {"run", "plain"}
    /\ session' = FALSE
    /\ epc' = "closing"
    /\ UNCHANGED <<debugVars, stopVars, configDone, shuttingDown, finished, threadVars,
                   serverVars>>

\* ~Session joins the workers.
SessionCloses ==
    /\ epc = "closing"
    /\ \A w \in Workers : tpc[w] \in {"none", "gone"}
    /\ epc' = "ended"
    /\ UNCHANGED <<debugVars, stopVars, flagVars, threadVars, serverVars>>

\* launcherMain after the evaluator's OS thread has ended.
Finished ==
    /\ epc = "ended"
    /\ tpc[Main] \in {"none", "gone"}
    /\ finished' = TRUE
    /\ epc' = "finished"
    /\ UNCHANGED <<debugVars, stopVars, configDone, shuttingDown, session, threadVars,
                   serverVars>>

-----------------------------------------------------------------------------
(* The protocol thread: requests.                                          *)

\* launch, once; with noDebug nothing is attached.
HandleLaunch ==
    /\ spc = "loop"
    /\ epc = "none"
    /\ \/ UNCHANGED <<attached, controller, stopRequest>>
       \/ /\ attached' = TRUE
          /\ controller' = TRUE
          /\ \/ stopRequest' = TRUE
             \/ UNCHANGED stopRequest
    /\ epc' = "config"
    /\ UNCHANGED <<live, pause, tableLock, stopVars, flagVars, threadVars, serverVars>>

ConfigurationDone ==
    /\ spc = "loop"
    /\ configDone' = TRUE
    /\ UNCHANGED <<debugVars, stopVars, shuttingDown, finished, session, threadVars,
                   serverVars, epc>>

\* pause of thread t; of none, or of one that is not alive, of the first to
\* reach a new line.
HandlePause(t) ==
    /\ spc = "loop"
    /\ tableLock = NoThread
    /\ IF t \in live THEN pause' = pause \cup {t} /\ UNCHANGED stopRequest
       ELSE stopRequest' = TRUE /\ UNCHANGED pause
    /\ UNCHANGED <<attached, controller, live, tableLock, stopVars, flagVars, threadVars,
                   serverVars, epc>>

\* continue, next, stepIn, stepOut of thread t, or of all.
HandleResume(t) ==
    /\ spc = "loop"
    /\ resumeReady' = resumeReady \cup (IF t = NoThread THEN stopped ELSE stopped \cap {t})
    /\ UNCHANGED <<debugVars, stopped, frames, work, frameOwner, nextFrameId, lastStopped,
                   stops, flagVars, threadVars, serverVars, epc>>

\* evaluate or variables with a frame the client names (any id it was ever
\* given), or evaluate without one: the innermost frame of the thread that
\* stopped last, else of some stopped thread.
HandleInspect(f, w) ==
    /\ spc = "loop"
    /\ requests < MaxRequests
    /\ requests' = requests + 1
    /\ req' = [NoRequest EXCEPT !.frame = f, !.waits = w]
    /\ spc' = "lookup"
    /\ UNCHANGED <<debugVars, stopVars, flagVars, threadVars, done, epc>>

InnermostFrames ==
    IF stopped = {} THEN {0}
    ELSE {CHOOSE f \in frames[t] : \A g \in frames[t] : f <= g :
             t \in IF lastStopped \in stopped THEN {lastStopped} ELSE stopped}

\* ownerOf: the StoppedThread the frame belongs to; none is an error answer.
OwnerOf ==
    /\ spc = "lookup"
    /\ IF /\ req.frame \in DOMAIN frameOwner
          /\ frameOwner[req.frame] \in stopped
          /\ req.frame \in frames[frameOwner[req.frame]]
       THEN LET t == frameOwner[req.frame] IN
            /\ req' = [req EXCEPT !.thread = t, !.stop = stops[t]]
            /\ spc' = "found"
       ELSE req' = NoRequest /\ spc' = "loop"
    /\ UNCHANGED <<debugVars, stopVars, flagVars, threadVars, done, requests, epc>>

\* StoppedThread::gone of the one the request was found for.
Gone == ~(req.thread \in stopped /\ stops[req.thread] = req.stop)

\* Mutant: the request goes to whatever stop the thread is in now.
QueueWorkByThread ==
    /\ spc = "found"
    /\ IF req.thread \notin stopped \/ ~session
       THEN req' = NoRequest /\ spc' = "loop" /\ UNCHANGED <<work, done>>
       ELSE /\ work' = [work EXCEPT ![req.thread] = Append(@, req)]
            /\ done' = FALSE
            /\ spc' = "wait"
            /\ UNCHANGED req
    /\ UNCHANGED <<debugVars, stopped, frames, resumeReady, frameOwner, nextFrameId,
                   lastStopped, stops, flagVars, threadVars, requests, epc>>

\* onStoppedThread up to its wait.
QueueWork ==
    /\ spc = "found"
    /\ IF Gone \/ ~session
       THEN req' = NoRequest /\ spc' = "loop" /\ UNCHANGED <<work, done>>
       ELSE /\ work' = [work EXCEPT ![req.thread] = Append(@, req)]
            /\ done' = FALSE
            /\ spc' = "wait"
            /\ UNCHANGED req
    /\ UNCHANGED <<debugVars, stopped, frames, resumeReady, frameOwner, nextFrameId,
                   lastStopped, stops, flagVars, threadVars, requests, epc>>

\* onStoppedThread's wait ends and the response is sent.
Answer ==
    /\ spc = "wait"
    /\ done \/ Gone
    /\ req' = NoRequest
    /\ spc' = "loop"
    /\ UNCHANGED <<debugVars, stopVars, flagVars, threadVars, done, requests, epc>>

-----------------------------------------------------------------------------
(* The protocol thread: shutdown, on disconnect or end of input.           *)

\* detach, up to Threads::mu.
Disconnect ==
    /\ spc = "loop"
    /\ attached' = FALSE
    /\ stopRequest' = FALSE
    /\ spc' = "detach"
    /\ UNCHANGED <<controller, live, pause, tableLock, stopVars, flagVars, threadVars, req,
                   done, requests, epc>>

\* Mutant: detach does not take Threads::mu.
DetachUnlocked ==
    /\ spc = "detach"
    /\ controller' = FALSE
    /\ pause' = {}
    /\ spc' = "shutdown"
    /\ UNCHANGED <<attached, stopRequest, live, tableLock, stopVars, flagVars, threadVars,
                   req, done, requests, epc>>

Detach ==
    /\ spc = "detach"
    /\ tableLock = NoThread
    /\ controller' = FALSE
    /\ pause' = {}
    /\ spc' = "shutdown"
    /\ UNCHANGED <<attached, stopRequest, live, tableLock, stopVars, flagVars, threadVars,
                   req, done, requests, epc>>

Shutdown ==
    /\ spc = "shutdown"
    /\ shuttingDown' = TRUE
    /\ configDone' = TRUE
    /\ resumeReady' = stopped
    /\ spc' = IF epc = "none" THEN "returned" ELSE "ending"
    /\ UNCHANGED <<debugVars, stopped, frames, work, frameOwner, nextFrameId, lastStopped,
                   stops, finished, session, threadVars, req, done, requests, epc>>

\* The script ended within half a second ...
Leave ==
    /\ spc = "ending" /\ finished
    /\ spc' = "returned"
    /\ UNCHANGED <<debugVars, stopVars, flagVars, threadVars, req, done, requests, epc>>

\* ... or the process ends with it.
Kill ==
    /\ spc = "ending" /\ ~finished
    /\ spc' = "killed"
    /\ UNCHANGED <<debugVars, stopVars, flagVars, threadVars, req, done, requests, epc>>

-----------------------------------------------------------------------------
Requests ==
    \/ HandleLaunch
    \/ ConfigurationDone
    \/ \E t \in Threads \cup {NoThread} : HandlePause(t) \/ HandleResume(t)
    \/ \E f \in (1..(nextFrameId - 1)) \cup InnermostFrames, w \in Waits \cup {NoThread} :
           HandleInspect(f, w)
    \/ Disconnect

Serving == OwnerOf \/ QueueWork \/ Answer \/ Detach \/ Shutdown \/ Leave

Evaluator == Configured \/ SessionOpens \/ ScriptEnds \/ SessionCloses \/ Finished

\* What a thread does in the interpreter is the program's choice ...
Runs(t) == Enter(t) \/ NewLine(t) \/ Exit(t)

\* ... what it does in the hook and in the adapter is not.
Hooked(t) ==
    \/ RegisterThread(t) \/ ThreadStarted(t) \/ ThreadExited(t)
    \/ Stop(t) \/ Announce(t) \/ TakeWork(t) \/ FinishWork(t) \/ Resume(t)

Alive == spc # "killed"

Next ==
    /\ Alive
    /\ Requests \/ Serving \/ Kill \/ Evaluator \/ \E t \in Threads : Runs(t) \/ Hooked(t)

Spec == Init /\ [][Next]_vars

\* The protocol thread and the debuggee's threads are scheduled; nothing is
\* assumed of the client or of the script, except that an evaluated expression
\* ends. Kill is not fair: no property may rest on the process being ended.
FairSpec == Spec /\ WF_vars(Alive /\ Serving) /\ \A t \in Threads : WF_vars(Alive /\ Hooked(t))

\* A client that lets every stopped thread go on, sooner or later.
ClientSpec == FairSpec /\ WF_vars(Alive /\ HandleResume(NoThread))

-----------------------------------------------------------------------------
Parked == {"announce", "park", "serve"}

\* The adapter's fields keep their types; only a stopped thread has a resume
\* waiting for it, and only its own stop has work.
TypeOK ==
    /\ {attached, controller, stopRequest, configDone, shuttingDown, finished, session, done}
         \subseteq BOOLEAN
    /\ live \subseteq Threads /\ pause \subseteq Threads /\ inside \subseteq Threads
    /\ tableLock \in Threads \cup {NoThread} /\ lastStopped \in Threads \cup {NoThread}
    /\ stopped = {t \in Threads : tpc[t] \in Parked}
    /\ resumeReady \subseteq stopped
    /\ \A t \in Threads : work[t] # <<>> => t \in stopped
    /\ nextFrameId \in Nat \ {0}
    /\ frames \in [Threads -> SUBSET (1..(nextFrameId - 1))]
    /\ stops \in [Threads -> 0..MaxStops]
    /\ requests \in 0..MaxRequests

\* A frame id names a frame of a thread that is stopped now, and every frame
\* shown has its id (frameOwner_ against stopped_); a thread that is not stopped
\* has neither work nor a resume waiting for it (TypeOK).
FrameIdsLive ==
    /\ TypeOK
    /\ DOMAIN frameOwner = UNION {frames[t] : t \in stopped}
    /\ \A t \in stopped : \A f \in frames[t] : frameOwner[f] = t

\* Values are read only by the thread whose frames root them, while those
\* frames are stopped: a request runs in the very stop its frame id was given
\* out for, however late it arrives.
ReadsOwnFrames ==
    \A t \in Threads : tpc[t] = "serve" => t \in stopped /\ serving[t].frame \in frames[t]

\* The client hears of a thread in order: started, any number of stops, exited.
EventOrder ==
    [][\A t \in Threads : told'[t] # told[t] =>
          \/ told[t] = "nothing" /\ told'[t] = "started"
          \/ told[t] = "started" /\ told'[t] \in {"stopped", "exited"}
          \/ told[t] = "stopped" /\ told'[t] = "exited"]_vars

\* No thread is inside a threadStarted or threadExited call once detach has
\* returned, and none inside any call of the adapter once it is destroyed.
CallbacksEnd ==
    /\ spc \in {"shutdown", "ending", "returned"} =>
          \A t \in inside : tpc[t] \notin {"start", "exit"}
    /\ spc = "returned" => inside = {}

\* Stop means stop: once the adapter shuts down, no thread stays parked and
\* none parks again, also one that was on its way into a stop.
ShutdownReleases ==
    shuttingDown ~> [](stopped = {} \/ spc = "killed")

\* Every evaluate and variables request is answered, whether its thread goes
\* on first, exits or runs it.
RequestAnswered ==
    spc \in {"lookup", "found", "wait"} ~> spc = "loop"
=============================================================================

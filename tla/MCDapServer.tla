---------------------------- MODULE MCDapServer -----------------------------
EXTENDS DapServer

CONSTANTS main, w1
=============================================================================

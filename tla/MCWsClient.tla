----------------------------- MODULE MCWsClient -----------------------------
(***************************************************************************)
(* A WsClient from wsConnect() on: the set-up, and the client it returns.   *)
(* createConnection() shares the set-up and ends with it; a client from     *)
(* wrapAcceptedWs() begins connected.                                       *)
(***************************************************************************)
EXTENDS WsClient, ConnectionSetup

Accepted ==
    /\ ws = TRUE /\ tls = FALSE /\ phase = "connected" /\ todo = <<>>
    /\ now = 0 /\ limit = 0 /\ lost = FALSE
    /\ lookup = [result |-> "endpoints", done |-> TRUE]

AnyInit == Init /\ (SetupInit \/ Accepted)

AnyNext ==
    \/ SetupNext /\ UNCHANGED vars
    \/ ws /\ phase = "connected" /\ Next /\ UNCHANGED setupVars

AnySpec == AnyInit /\ [][AnyNext]_<<vars, setupVars>> /\ Fairness
=============================================================================

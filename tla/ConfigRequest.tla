--------------------------- MODULE ConfigRequest ---------------------------
(***************************************************************************)
(* What the remote modem promises of a configuration request: it ends      *)
(* once, as succeeded or as failed, and it has succeeded only if the       *)
(* module then holds the requested id.  RemoteModem implements this.       *)
(***************************************************************************)
CONSTANTS
  Ids,   \* registration ids a request may ask for
  NoId   \* what a module that was never configured holds

VARIABLES
  result,     \* remote_modem_config_result_t of the latest request
  requested,  \* its id
  stored      \* the id in the module's flash

requestVars == <<result, requested, stored>>

Init == result = "NONE" /\ requested = NoId /\ stored \in Ids \cup {NoId}

\* A request is taken up; only one runs at a time.
Start(id) == /\ result # "RUNNING"
             /\ result' = "RUNNING" /\ requested' = id /\ UNCHANGED stored

\* The module saves what it was last told.
Store(id) == stored' = id /\ UNCHANGED <<result, requested>>

Succeed == /\ result = "RUNNING" /\ stored = requested
           /\ result' = "SUCCEEDED" /\ UNCHANGED <<requested, stored>>

Fail == result = "RUNNING" /\ result' = "FAILED" /\ UNCHANGED <<requested, stored>>

Next == \/ \E id \in Ids : Start(id)
        \/ \E id \in Ids \cup {NoId} : Store(id)
        \/ Succeed \/ Fail

Spec == Init /\ [][Next]_requestVars
=============================================================================

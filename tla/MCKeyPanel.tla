----------------------------- MODULE MCKeyPanel -----------------------------
(* Instance of KeyPanel for TLC: two keys, a tick that wraps after seven.   *)
EXTENDS KeyPanel
=============================================================================

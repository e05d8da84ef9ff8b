--------------------------- MODULE MCRemoteModem ---------------------------
(* Instances of RemoteModem; its constants are model values and numbers. *)
EXTENDS RemoteModem, TLC
=============================================================================

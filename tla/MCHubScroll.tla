---------------------------- MODULE MCHubScroll ----------------------------
(* Instances of HubScroll; all its constants are numbers and switches.     *)
EXTENDS HubScroll, TLC
=============================================================================

------------------------ MODULE MCVoicePresentation ------------------------
(* Instances of VoicePresentation; its constants are numbers and a switch. *)
EXTENDS VoicePresentation, TLC
=============================================================================

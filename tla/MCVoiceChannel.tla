--------------------------- MODULE MCVoiceChannel ---------------------------
(* The runs of VoiceChannel; its constants are numbers and switches.       *)
EXTENDS VoiceChannel
=============================================================================

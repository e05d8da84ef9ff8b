-------------------------- MODULE MCAudioPlayback --------------------------
(* Model values for the runs of AudioPlayback.                             *)
EXTENDS AudioPlayback, TLC

CONSTANTS c1, c2

OneClient  == {c1}
TwoClients == {c1, c2}

OrderRequests   == RequestKinds \ {"EMERGENCY_OFF"}
StreamRequests  == RequestKinds \ {"PLAY_VOICE"}
ListenRequests  == {"PLAY_MP3", "PLAY_VOICE"}
StopRequests    == {"PLAY_MP3", "STOP"}
ShoutRequests   == {"PLAY_MP3", "EMERGENCY_ON"}
=============================================================================

---------------------------- MODULE VoiceChannel ----------------------------
(***************************************************************************)
(* The voice half of the audio player service, the VTX316 driver below it  *)
(* and the speech chip at the other end of the UART.                       *)
(*                                                                         *)
(* The player task (audio_playback_app.c) starts a text, polls every 10 ms *)
(* while the service is PLAYING_VOICE and stops it on a command, on an     *)
(* emergency or on a receive fault.  The chip answers when it likes, one   *)
(* byte at a time; the receive interrupt puts its bytes into the FIFO of   *)
(* the port whether anybody polls or not.  The chip is external: it is     *)
(* modelled from the protocol description 99_Doc/VTX316 (0x41 for a frame  *)
(* received, 0x45 for a bad one, 0x4F at the end of a text, 0x4A after     *)
(* power-up) and from the R/B pin the driver reads.                        *)
(***************************************************************************)
EXTENDS Naturals, Sequences, FiniteSets

CONSTANTS
  FifoSize,     (* bytes the receive FIFO holds; 64 in the code            *)
  ReadSize,     (* bytes one read of a poll takes at most; 16 in the code  *)
  TextLimit,    (* bound: texts the chip is asked to speak                 *)
  StopFails,    (* TRUE: a stop frame may time out in the transmitter      *)
  SpeakFails    (* TRUE: a speak frame may                                 *)

ASSUME VoiceChannelAssumption ==
  /\ FifoSize \in Nat \ {0}
  /\ ReadSize \in Nat \ {0}
  /\ TextLimit \in Nat \ {0}
  /\ {StopFails, SpeakFails} \subseteq BOOLEAN

VARIABLES
  service,        (* p_service->state, the states a voice meets            *)
  muted,          (* the MUTE pin of the amplifier                         *)
  active_command, (* vtx316_device.active_command                          *)
  device_state,   (* vtx316_device.state                                   *)
  fifo,           (* received bytes nobody has read                        *)
  poll,           (* the poll under way: bytes to read, events so far      *)
  wire,           (* frames sent that the chip has not taken yet           *)
  speaking,       (* the chip is speaking: the R/B pin                     *)
  outbox,         (* bytes the chip has still to send                      *)
  texts,          (* texts transmitted so far, for TextLimit               *)
  mishaps,        (* history: the transmissions that timed out             *)
  stale           (* history: an end byte of another text has been about   *)

driver == <<active_command, device_state>>
chip   == <<wire, speaking, outbox>>
vars   == <<service, muted, driver, fifo, poll, chip, texts, mishaps, stale>>

Services     == {"IDLE", "PLAYING_VOICE", "EMERGENCY", "ERROR"}
DeviceStates == {"UNKNOWN", "IDLE", "COMMAND_PENDING", "SPEAKING", "SLEEPING", "ERROR"}
Events       == {"INITIALIZED", "ACCEPTED", "REJECTED", "SPEAKING", "IDLE", "SLEEPING"}

(* The bytes of the protocol, by the event each of them stands for, and    *)
(* the frames: STOP, SPEAK and what is left of a frame cut by a timeout.   *)
Bytes  == Events
Frames == {"STOP", "SPEAK", "CUT"}

(* Between two polls; poll.pc is READ inside a read and NEXT after it,     *)
(* while the bytes that were read are gone through one after the other.    *)
Waiting == [pc |-> "WAIT", size |-> 0, discarded |-> FALSE, bytes |-> <<>>, events |-> {}]

-----------------------------------------------------------------------------
(* Instead: a rejection sets the state and leaves the command pending.     *)
ResponseKeepsCommand(d, byte) ==
  CASE byte = "ACCEPTED"                 -> d
    [] byte = "SPEAKING"                 -> [d EXCEPT !.state = "SPEAKING"]
    [] byte \in {"INITIALIZED", "IDLE"}  -> [command |-> "NONE", state |-> "IDLE"]
    [] byte = "REJECTED"                 -> [d EXCEPT !.state = "ERROR"]
    [] byte = "SLEEPING"                 -> [command |-> "NONE", state |-> "SLEEPING"]

(* vtx316_response_process: what one byte does to the driver's two fields. *)
(* No command but SPEAK is ever stored in active_command, so the branch of *)
(* ACCEPTED for a stored STOP does nothing here.                           *)
ResponseProcess(d, byte) ==
  CASE byte = "ACCEPTED"    -> d
    [] byte = "SPEAKING"    -> [d EXCEPT !.state = "SPEAKING"]
    [] byte = "INITIALIZED" -> [command |-> "NONE", state |-> "IDLE"]
    [] byte = "IDLE"        -> [command |-> "NONE", state |-> "IDLE"]
    [] byte = "REJECTED"    -> [command |-> "NONE", state |-> "ERROR"]
    [] byte = "SLEEPING"    -> [command |-> "NONE", state |-> "SLEEPING"]
-----------------------------------------------------------------------------
(* vtx316_stop over the UART: on success the driver forgets its command;   *)
(* when the send times out it does not, and the chip may have received     *)
(* the whole frame, a part of it or nothing.                               *)
StopSent ==
  /\ wire' = Append(wire, "STOP")
  /\ active_command' = "NONE"
  /\ device_state' = "IDLE"
  /\ mishaps' = mishaps

StopTimesOut ==
  /\ StopFails
  /\ \E rest \in {<<>>, <<"CUT">>, <<"STOP">>} : wire' = wire \o rest
  /\ mishaps' = mishaps \cup {"STOP_FAILED"}
  /\ UNCHANGED driver

DeviceStop == StopSent \/ StopTimesOut

(* The guards of bsp_voice_synthesis_speak and vtx316_speak: the R/B pin,  *)
(* then the driver's own record.                                           *)
DriverAccepts ==
  /\ active_command = "NONE"
  /\ device_state # "SPEAKING"

SpeakSent ==
  /\ wire' = Append(wire, "SPEAK")
  /\ active_command' = "SPEAK"
  /\ device_state' = "COMMAND_PENDING"
  /\ service' = "PLAYING_VOICE"
  /\ muted' = FALSE
  /\ mishaps' = mishaps

SpeakTimesOut ==
  /\ SpeakFails
  /\ \E rest \in {<<>>, <<"CUT">>, <<"SPEAK">>} : wire' = wire \o rest
  /\ muted' = TRUE
  /\ mishaps' = mishaps \cup {"SPEAK_FAILED"}
  /\ UNCHANGED <<service, driver>>

(* audio_player_service_voice_synthesis_start in IDLE, once the driver     *)
(* takes the text.  A refused request leaves everything as it was.         *)
VoiceStart ==
  /\ service = "IDLE"
  /\ ~speaking
  /\ DriverAccepts
  /\ texts < TextLimit
  /\ texts' = texts + 1
  /\ SpeakSent \/ SpeakTimesOut
  /\ UNCHANGED <<fifo, poll, speaking, outbox>>

(* audio_player_service_stop in any state but IDLE.                        *)
ServiceStop ==
  /\ service # "IDLE"
  /\ poll.pc = "WAIT"
  /\ muted' = TRUE
  /\ service' = "IDLE"
  /\ IF service = "PLAYING_VOICE" THEN DeviceStop
     ELSE UNCHANGED <<wire, driver, mishaps>>
  /\ UNCHANGED <<fifo, poll, speaking, outbox, texts>>

(* audio_player_service_emergency_set(1): an output that cannot be stopped *)
(* leaves the service in ERROR and the amplifier as it is.                 *)
EmergencyOn ==
  /\ poll.pc = "WAIT"
  /\ \/ /\ service # "PLAYING_VOICE"
        /\ service' = "EMERGENCY"
        /\ muted' = FALSE
        /\ UNCHANGED <<wire, driver, mishaps>>
     \/ /\ service = "PLAYING_VOICE"
        /\ StopSent
        /\ service' = "EMERGENCY"
        /\ muted' = FALSE
     \/ /\ service = "PLAYING_VOICE"
        /\ StopTimesOut
        /\ service' = "ERROR"
        /\ UNCHANGED muted
  /\ UNCHANGED <<fifo, poll, speaking, outbox, texts>>

(* audio_player_service_emergency_set(0).                                  *)
EmergencyOff ==
  /\ service = "EMERGENCY"
  /\ service' = "IDLE"
  /\ muted' = TRUE
  /\ UNCHANGED <<driver, fifo, poll, chip, texts, mishaps>>
-----------------------------------------------------------------------------
(* Instead: any answer of the chip ends the voice.                         *)
AnyAnswerEnds(events) ==
  IF events # {} THEN service' = "IDLE" /\ muted' = TRUE
  ELSE UNCHANGED <<service, muted>>

(* The rest of audio_player_service_voice_synthesis_process, on the events *)
(* of all the reads of a poll.                                             *)
VoiceProcess(events) ==
  IF events \cap {"REJECTED", "IDLE"} # {}
  THEN service' = "IDLE" /\ muted' = TRUE
  ELSE UNCHANGED <<service, muted>>

(* Instead: a poll waits for as many bytes as one read takes.              *)
PollHeadFullReads ==
  /\ \/ poll.pc = "WAIT" /\ service = "PLAYING_VOICE" /\ Len(fifo) >= ReadSize
     \/ poll.pc = "NEXT" /\ poll.bytes = <<>>
  /\ IF Len(fifo) >= ReadSize
     THEN /\ poll' = [poll EXCEPT !.pc = "READ", !.size = ReadSize]
          /\ UNCHANGED <<service, muted>>
     ELSE poll' = Waiting /\ VoiceProcess(poll.events)
  /\ UNCHANGED <<driver, fifo, chip, texts, mishaps>>

(* bsp_voice_synthesis_poll, one read at a time.  The head of its loop:    *)
(* with bytes in the FIFO the read begins, the number of bytes fixed and   *)
(* the overflow generation remembered; without, the poll is over.          *)
PollHead ==
  /\ \/ poll.pc = "WAIT" /\ service = "PLAYING_VOICE" /\ fifo # <<>>
     \/ poll.pc = "NEXT" /\ poll.bytes = <<>>
  /\ IF fifo # <<>>
     THEN /\ poll' = [poll EXCEPT !.pc = "READ",
                                  !.size = IF Len(fifo) < ReadSize THEN Len(fifo) ELSE ReadSize]
          /\ UNCHANGED <<service, muted>>
     ELSE poll' = Waiting /\ VoiceProcess(poll.events)
  /\ UNCHANGED <<driver, fifo, chip, texts, mishaps>>

(* A read that nobody disturbed.                                           *)
PollRead ==
  /\ poll.pc = "READ"
  /\ ~poll.discarded
  /\ fifo' = SubSeq(fifo, poll.size + 1, Len(fifo))
  /\ poll' = [poll EXCEPT !.pc = "NEXT", !.size = 0, !.bytes = SubSeq(fifo, 1, poll.size)]
  /\ UNCHANGED <<service, muted, driver, chip, texts, mishaps>>

(* The next of the bytes read goes to the driver.                          *)
PollByte ==
  LET byte == Head(poll.bytes)
      d    == ResponseProcess([command |-> active_command, state |-> device_state], byte)
  IN  /\ poll.pc = "NEXT"
      /\ poll.bytes # <<>>
      /\ active_command' = d.command
      /\ device_state' = d.state
      /\ poll' = [poll EXCEPT !.bytes = Tail(poll.bytes), !.events = poll.events \cup {byte}]
      /\ UNCHANGED <<service, muted, fifo, chip, texts, mishaps>>

(* An interrupt discarded the FIFO during the read: PLATFORM_ERR_HW, and   *)
(* the service stops the chip, mutes and gives itself free.                *)
PollFault ==
  /\ poll.pc = "READ"
  /\ poll.discarded
  /\ fifo' = <<>>
  /\ poll' = Waiting
  /\ DeviceStop
  /\ muted' = TRUE
  /\ service' = "IDLE"
  /\ UNCHANGED <<speaking, outbox, texts>>

Poll == PollHead \/ PollRead \/ PollByte \/ PollFault
-----------------------------------------------------------------------------
(* The chip takes a frame: it answers, a STOP silences it, a text silences *)
(* the one before it.  It answers a cut frame with a rejection.            *)
ChipReceive ==
  /\ wire # <<>>
  /\ wire' = Tail(wire)
  /\ LET frame == Head(wire)
     IN  /\ outbox' = Append(outbox, IF frame = "CUT" THEN "REJECTED" ELSE "ACCEPTED")
         /\ speaking' = IF frame = "CUT" THEN speaking ELSE frame = "SPEAK"
  /\ UNCHANGED <<service, muted, driver, fifo, poll, texts, mishaps>>

(* The text has been spoken to its end.  A text takes longer than the      *)
(* 10 ms of a poll, so what was received before it has been read by then;  *)
(* it may end while a frame is under way, but not while two are.           *)
ChipFinish ==
  /\ speaking
  /\ outbox = <<>>
  /\ Len(wire) <= 1
  /\ service = "PLAYING_VOICE" => fifo = <<>>
  /\ speaking' = FALSE
  /\ outbox' = Append(outbox, "IDLE")
  /\ UNCHANGED <<service, muted, driver, fifo, poll, wire, texts, mishaps>>

(* A byte arrives; the receive interrupt publishes it, or, with no room    *)
(* left, discards it together with everything unread.                      *)
ByteReceived ==
  /\ outbox # <<>>
  /\ outbox' = Tail(outbox)
  /\ IF Len(fifo) < FifoSize
     THEN fifo' = Append(fifo, Head(outbox)) /\ UNCHANGED poll
     ELSE /\ fifo' = <<>>
          /\ poll' = [poll EXCEPT !.discarded = (poll.pc = "READ")]
  /\ UNCHANGED <<service, muted, driver, wire, speaking, texts, mishaps>>
-----------------------------------------------------------------------------
(* End bytes on their way to the driver, and how many of them are due: the *)
(* one of the text the service plays, once the chip is through with it.    *)
EndsUnread ==
  LET bytes == fifo \o outbox
  IN  Cardinality({i \in DOMAIN bytes : bytes[i] \in {"REJECTED", "IDLE"}})

EndsDue == IF service = "PLAYING_VOICE" /\ ~speaking /\ wire = <<>> THEN 1 ELSE 0

(* bsp_voice_synthesis_init and audio_player_service_init; the chip has    *)
(* still to report its own power-up.                                       *)
Init ==
  /\ service = "IDLE"
  /\ muted = TRUE
  /\ active_command = "NONE"
  /\ device_state = "UNKNOWN"
  /\ fifo = <<>>
  /\ poll = Waiting
  /\ wire = <<>>
  /\ speaking = FALSE
  /\ outbox = <<"INITIALIZED">>
  /\ texts = 0
  /\ mishaps = {}
  /\ stale = FALSE

Commands == VoiceStart \/ ServiceStop \/ EmergencyOn \/ EmergencyOff

Chip == ChipReceive \/ ChipFinish \/ ByteReceived

(* What every step records.                                                *)
History == stale' = (stale \/ EndsUnread' > EndsDue')

Next == (Commands \/ Poll \/ Chip) /\ History

Spec == Init /\ [][Next]_vars

(* The player task polls while a voice plays, the chip works through its   *)
(* frames and its text, the UART delivers.                                 *)
FairSpec ==
  /\ Spec
  /\ WF_vars(Poll /\ History)
  /\ WF_vars(Chip /\ History)
-----------------------------------------------------------------------------
TypeOK ==
  /\ service \in Services
  /\ muted \in BOOLEAN
  /\ active_command \in {"NONE", "SPEAK"}
  /\ device_state \in DeviceStates
  /\ fifo \in Seq(Bytes) /\ Len(fifo) <= FifoSize
  /\ poll \in [pc : {"WAIT", "READ", "NEXT"}, size : 0 .. ReadSize,
               discarded : BOOLEAN, bytes : Seq(Bytes), events : SUBSET Events]
  /\ poll.pc # "WAIT" => service = "PLAYING_VOICE"
  /\ wire \in Seq(Frames)
  /\ speaking \in BOOLEAN
  /\ outbox \in Seq(Bytes)
  /\ texts \in 0 .. TextLimit
  /\ mishaps \subseteq {"STOP_FAILED", "SPEAK_FAILED"}
  /\ stale \in BOOLEAN

(* Every text is heard: as long as the chip speaks and no stop is on its   *)
(* way to it, the service is PLAYING_VOICE and the amplifier is open, so   *)
(* nothing has ended the text but its own end (project.md:162, :163).      *)
SpokenAloud ==
  speaking /\ (\A i \in DOMAIN wire : wire[i] # "STOP") => service = "PLAYING_VOICE" /\ ~muted

(* SpokenAloud as far as the code keeps it: it takes an end byte that was  *)
(* left over or came in between, or a transmission that timed out, to cut  *)
(* a text short.                                                           *)
SpokenAloudOnCleanLine == ~stale /\ mishaps = {} => SpokenAloud

(* The comment at audio_player_service.c:242: once the player is released, *)
(* a later request can retry.  With the service IDLE, the chip silent and  *)
(* nothing on its way to it, the driver does not refuse a text.            *)
RetryPossible ==
  service = "IDLE" /\ ~speaking /\ wire = <<>> => DriverAccepts

(* RetryPossible as far as the code keeps it: whatever is rejected, left   *)
(* over, discarded or cut, only a stop that was not sent makes the driver  *)
(* refuse for good.                                                        *)
RetryUnlessStopFailed == "STOP_FAILED" \notin mishaps => RetryPossible

(* The service leaves PLAYING_VOICE: by the end byte, a rejection, a       *)
(* receive fault or a command.  The bytes are not lost on the line.        *)
VoiceEnds == service = "PLAYING_VOICE" ~> service # "PLAYING_VOICE"
=============================================================================

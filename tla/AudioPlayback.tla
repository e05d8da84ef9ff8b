--------------------------- MODULE AudioPlayback ---------------------------
(***************************************************************************)
(* The playback application: the player task, the MP3 decoder task, the    *)
(* DMA interrupt and the client tasks that call the playback API           *)
(* (01_App/audio_playback_app.c), together with the player service that    *)
(* owns the output state (02_Service/audio_player_service.c) and the       *)
(* per-session behaviour of the decoder service                            *)
(* (02_Service/mp3_decoder_service.c).                                     *)
(*                                                                         *)
(* One core runs fixed-priority tasks: the player (priority 6) preempts    *)
(* the decoder (5), which preempts the clients (0).  A task therefore      *)
(* takes a step only while every task above it is blocked; an interrupt    *)
(* can come between any two steps.  MayRun below states this.              *)
(***************************************************************************)
EXTENDS Naturals, Sequences, FiniteSets

CONSTANTS
  BlockCount,    \* PCM blocks in the pool, also the number that starts playback
  CommandDepth,  \* capacity of the player's command queue
  Clients,       \* tasks that call the playback API
  Requests,      \* the requests they issue, a subset of RequestKinds
  SessionLimit,  \* largest session id, UINT32_MAX in the code
  SessionsWrap,  \* TRUE: ids wrap at SessionLimit; FALSE: a run ends with the ids,
                 \* so that no id of the 2^32 is used again in its lifetime
  FrameLimit,    \* PCM blocks the longest source decodes to
  Faults,        \* TRUE: amplifier, I2S, VTX316 or DMA may fail
  DecodeErrors,  \* TRUE: a source may fail to open, read or decode
  EmptySources,  \* TRUE: a source may end before its first frame
  MediaBlocks,   \* TRUE: reading a source may block the decoder task
  DmaOutruns     \* TRUE: a DMA half may end before the last one was refilled

RequestKinds == {"PLAY_MP3", "PLAY_VOICE", "STOP", "EMERGENCY_ON", "EMERGENCY_OFF"}

ASSUME PoolAssumption ==
  /\ BlockCount \in Nat \ {0, 1}
  /\ CommandDepth \in Nat \ {0}
  /\ SessionLimit \in Nat \ {0}
  /\ FrameLimit \in Nat

ASSUME RequestAssumption == Requests \subseteq RequestKinds

ASSUME ModeAssumption ==
  {SessionsWrap, Faults, DecodeErrors, EmptySources, MediaBlocks, DmaOutruns} \subseteq BOOLEAN

VARIABLES
  state,          \* audio_player_service.state
  svc_session,    \* audio_player_service.session_id
  half,           \* session whose audio each DMA half holds, 0 for silence
  stream,         \* audio_output_is_started: the DMA stream is running
  dma_half,       \* the half the DMA is transmitting, 0 while it is stopped
  muted,          \* level of the amplifier's mute pin
  session_id,     \* runtime.session_id of the player task
  decoder_eof,    \* runtime.decoder_eof of the player task
  written,        \* history: blocks of this session copied to the DMA buffer
  free_queue,     \* blocks the decoder may fill
  ready_queue,    \* filled blocks in decoding order
  command_queue,  \* requests waiting for the player
  decode_queue,   \* session waiting for the decoder, at most one
  notify,         \* the player task's notification bits
  bits,           \* notify_bits, the player's copy in a pass of its loop
  player_pc,      \* where the player task is
  decoder_pc,     \* where the decoder task is
  decoder_stop,   \* the decoder task's STOP notification bit
  decoding,       \* session the decoder works for and blocks decoded so far
  held,           \* the block the decoder holds between its queues, 0 for none
  pending,        \* audio_app_voice_request_pending
  voice_text,     \* client whose text audio_app_voice_text holds
  client_pc       \* where each client is in an API call

serviceVars == <<state, svc_session, half, stream, dma_half, muted, written>>
runtimeVars == <<session_id, decoder_eof>>
poolVars    == <<free_queue, ready_queue, held>>
commandVars == <<command_queue, pending, voice_text, client_pc>>
decoderVars == <<decoder_pc, decoding>>
vars == <<serviceVars, runtimeVars, poolVars, commandVars, decoderVars,
          decode_queue, decoder_stop, notify, bits, player_pc>>

-----------------------------------------------------------------------------
(* Values.                                                                 *)

Blocks   == 1 .. BlockCount
Sessions == 1 .. SessionLimit
Halves   == {0, 1}
NoAudio  == 0
NoBlock  == 0
Silent   == [h \in Halves |-> NoAudio]

\* AUDIO_APP_CS4344_WARMUP_SESSION_ID, the largest id.
WarmupSession == SessionLimit

States == {"IDLE", "PREPARING", "PLAYING_CS4344", "PLAYING_VOICE", "EMERGENCY", "ERROR"}

NotifyBits == {"COMMAND", "PCM_READY", "DECODE_EOF", "DECODE_ERROR",
               "DMA_HALF", "DMA_FULL", "DMA_ERROR"}

\* A filled block: the pool block, the session it was decoded for and its
\* position in that session's audio.
Filled == [block : Blocks, session : Sessions, frame : 1 .. FrameLimit]

Command == [kind : RequestKinds, client : Clients]

PlayerSteps  == {"START", "WARMUP", "WAIT", "COMMANDS", "VOICE", "EVENTS", "PREBUFFER",
                 "REFILL_HALF", "REFILL_FULL", "FINISH"}
DecoderSteps == {"RECEIVE", "OPEN", "CHECK", "TAKE", "PROCESS", "DELAY",
                 "POST_PCM", "POST_EOF", "POST_ERROR", "CLOSE"}
ClientSteps  == {"READY", "RESERVED", "SENT"}

\* The result of a driver call: success, or failure where Faults allows it.
Result == IF Faults THEN {TRUE, FALSE} ELSE {TRUE}

\* Variants called "... instead" are wrong on purpose: each is the code with a
\* plausible slip, and a run must tell it from the definition that follows it.

\* Instead: the id is not wrapped.
NextSessionUnwrapped(s) == s + 1
NextSession(s) == IF s = SessionLimit THEN 1 ELSE s + 1

-----------------------------------------------------------------------------
(* Scheduling.                                                             *)

\* The player is blocked, and nothing has made it ready again.
PlayerBlocked == \/ player_pc = "WAIT" /\ notify = {}
                 \/ player_pc = "WARMUP"

DecoderBlocked ==
  \/ decoder_pc = "RECEIVE" /\ decode_queue = <<>>
  \/ decoder_pc = "TAKE" /\ free_queue = <<>>
  \/ decoder_pc = "DELAY"
  \/ MediaBlocks /\ decoder_pc \in {"OPEN", "PROCESS"}

DecoderMayRun == PlayerBlocked
ClientMayRun  == PlayerBlocked /\ DecoderBlocked

-----------------------------------------------------------------------------
(* Helpers of the player task.                                             *)

BlocksOf(q) == [i \in 1 .. Len(q) |-> q[i].block]

\* bsp_audio_amplifier_mute_set: a failed write leaves the pin as it was.
MuteSet(level, ok) == muted' = IF ok THEN level ELSE muted

\* Instead: a flush that forgets to return the blocks.
FlushLosesBlocks == ready_queue' = <<>> /\ UNCHANGED <<free_queue, held>>

\* audio_app_ready_queue_flush
ReadyQueueFlush ==
  /\ free_queue' = free_queue \o BlocksOf(ready_queue)
  /\ ready_queue' = <<>>
  /\ UNCHANGED held

\* Instead: a block is taken whatever session it belongs to.
AnyBlock(i) == TRUE

\* audio_app_active_block_take finds the k-th entry: the entries before it
\* belong to other sessions and go back to the pool.
IsActive(i) == ready_queue[i].session = svc_session
Takes(k, from) ==
  /\ k \in from .. Len(ready_queue)
  /\ IsActive(k)
  /\ \A i \in from .. k - 1 : ~IsActive(i)
TakesNothing(from) == \A i \in from .. Len(ready_queue) : ~IsActive(i)

\* Instead: the block that was wanted stays in the queue.
ConsumeOneShort(k) ==
  /\ free_queue' = free_queue \o BlocksOf(SubSeq(ready_queue, 1, k - 1))
  /\ ready_queue' = SubSeq(ready_queue, k, Len(ready_queue))
  /\ UNCHANGED held

\* The first k entries leave the ready queue and their blocks return to the
\* pool, where one free block is as good as another.
ConsumeReady(k) ==
  /\ free_queue' = free_queue \o BlocksOf(SubSeq(ready_queue, 1, k))
  /\ ready_queue' = SubSeq(ready_queue, k + 1, Len(ready_queue))
  /\ UNCHANGED held

\* Instead: a stop that leaves the stream of a failed session running.
StreamLeftRunning == UNCHANGED <<stream, dma_half>>

\* bsp_audio_output_stream_stop
StreamStop == stream' = FALSE /\ dma_half' = 0

\* audio_player_service_stop: nothing in IDLE; otherwise mute, stop the source
\* that plays, and become IDLE whatever the drivers answered.
ServiceStop ==
  /\ state' = "IDLE"
  /\ IF state = "IDLE"
     THEN UNCHANGED <<half, stream, dma_half, muted, written>>
     ELSE /\ \E ok \in Result : MuteSet(TRUE, ok)
          /\ IF state = "PLAYING_VOICE" THEN UNCHANGED <<stream, dma_half>> ELSE StreamStop
          /\ half' = Silent
          /\ written' = 0
  /\ UNCHANGED svc_session

\* audio_app_player_stop
PlayerStop(decoder_stop_required) ==
  /\ decoder_stop' = (decoder_stop \/ decoder_stop_required)
  /\ ServiceStop
  /\ ReadyQueueFlush

-----------------------------------------------------------------------------
(* Player task: start-up.                                                  *)

\* audio_player_service_init followed by the first half of
\* audio_app_cs4344_warmup: the DMA plays silence for 500 ms, muted.
PlayerInit ==
  /\ player_pc = "START"
  /\ \/ /\ Faults                       \* service init failed, no warm-up
        /\ state' = "ERROR"
        /\ player_pc' = "WAIT"
        /\ UNCHANGED <<svc_session, stream>>
     \/ /\ svc_session' = WarmupSession
        /\ \/ /\ state' = "PLAYING_CS4344"
              /\ stream' = TRUE
              /\ player_pc' = "WARMUP"
           \/ /\ Faults                 \* the stream failed to start: stop
              /\ state' = "IDLE"
              /\ player_pc' = "WAIT"
              /\ UNCHANGED stream
  /\ UNCHANGED <<half, dma_half, muted, written, runtimeVars, poolVars, commandVars,
                 decoderVars, decode_queue, decoder_stop, notify, bits>>

\* The second half of audio_app_cs4344_warmup.
WarmupEnd ==
  /\ player_pc = "WARMUP"
  /\ ServiceStop
  /\ player_pc' = "WAIT"
  /\ UNCHANGED <<runtimeVars, poolVars, commandVars, decoderVars, decode_queue,
                 decoder_stop, notify, bits>>

-----------------------------------------------------------------------------
(* Player task: one pass of its loop, from the notification wait to the    *)
(* last event.  No other task runs during a pass.                          *)

\* A bit was set, or the 10 ms poll of a synthesized voice expired.
PlayerWake ==
  /\ player_pc = "WAIT"
  /\ notify # {} \/ state = "PLAYING_VOICE"
  /\ bits' = notify
  /\ notify' = {}
  /\ player_pc' = IF "COMMAND" \in notify THEN "COMMANDS" ELSE "VOICE"
  /\ UNCHANGED <<serviceVars, runtimeVars, poolVars, commandVars, decoderVars,
                 decode_queue, decoder_stop>>

\* audio_app_mp3_request_handle.  The request is refused unless the service is
\* IDLE and the voice presentation could be taken down.
Mp3RequestHandle ==
  \/ /\ state # "IDLE" \/ Faults
     /\ UNCHANGED <<serviceVars, runtimeVars, poolVars, decode_queue>>
  \/ /\ state = "IDLE"
     /\ SessionsWrap \/ session_id < SessionLimit        \* bound on the run
     /\ session_id' = NextSession(session_id)
     /\ decoder_eof' = FALSE
     /\ svc_session' = NextSession(session_id)
     /\ half' = Silent
     /\ written' = 0
     /\ \/ /\ decode_queue = <<>>
           /\ decode_queue' = <<NextSession(session_id)>>
           /\ state' = "PREPARING"
           /\ UNCHANGED <<stream, dma_half, muted, poolVars>>
        \/ /\ decode_queue # <<>>       \* busy: prepare, then stop again
           /\ state' = "IDLE"
           /\ \E ok \in Result : MuteSet(TRUE, ok)
           /\ StreamStop
           /\ ReadyQueueFlush
           /\ UNCHANGED decode_queue

\* Instead: a request refused while the player is busy keeps its reservation.
VoiceRefusalKeepsSlot ==
  IF state # "IDLE" THEN UNCHANGED <<state, muted, pending>>
  ELSE state' = "PLAYING_VOICE" /\ muted' = FALSE /\ UNCHANGED pending

\* audio_app_voice_synthesis_request_handle.  Speaking fails on a fault and
\* whenever the chip reports that it is busy; the request is then released.
VoiceRequestHandle ==
  \/ /\ state # "IDLE"
     /\ pending' = FALSE
     /\ UNCHANGED <<state, muted>>
  \/ /\ state = "IDLE"
     /\ \/ /\ state' = "PLAYING_VOICE"
           /\ muted' = FALSE
           /\ UNCHANGED pending
        \/ /\ \E ok \in Result : MuteSet(TRUE, ok)
           /\ pending' = FALSE
           /\ UNCHANGED state
        \/ /\ Faults                    \* unmuted, not speaking, mute failed
           /\ muted' = FALSE
           /\ pending' = FALSE
           /\ UNCHANGED state

\* Instead: a stop that never releases the voice request, and one that always does.
StopKeepsSlot     == PlayerStop(state \in {"PREPARING", "PLAYING_CS4344"}) /\ UNCHANGED pending
StopReleasesSlot  == PlayerStop(state \in {"PREPARING", "PLAYING_CS4344"}) /\ pending' = FALSE

\* audio_app_stop_handle
StopHandle ==
  /\ PlayerStop(state \in {"PREPARING", "PLAYING_CS4344"})
  /\ pending' = (pending /\ state # "PLAYING_VOICE")

\* audio_app_emergency_handle(1) and audio_player_service_emergency_set(1)
EmergencyEnter ==
  /\ decoder_stop' = (decoder_stop \/ state \in {"PREPARING", "PLAYING_CS4344"})
  /\ \E ok \in Result :
       /\ state' = IF ok THEN "EMERGENCY" ELSE "ERROR"
       /\ MuteSet(FALSE, ok)
  /\ IF state \in {"PREPARING", "PLAYING_CS4344"}
     THEN StreamStop ELSE UNCHANGED <<stream, dma_half>>
  /\ pending' = (pending /\ state # "PLAYING_VOICE")
  /\ written' = 0
  /\ ReadyQueueFlush
  /\ UNCHANGED <<svc_session, half>>

\* audio_app_emergency_handle(0) and audio_player_service_emergency_set(0).
\* The decoder is told to stop and the ready queue is flushed in every state.
EmergencyLeave ==
  /\ decoder_stop' = (decoder_stop \/ state \in {"PREPARING", "PLAYING_CS4344"})
  /\ IF state = "EMERGENCY"
     THEN \E ok \in Result :
            /\ state' = IF ok THEN "IDLE" ELSE "ERROR"
            /\ MuteSet(TRUE, ok)
     ELSE UNCHANGED <<state, muted>>
  /\ ReadyQueueFlush
  /\ UNCHANGED <<svc_session, half, stream, dma_half, written, pending>>

\* audio_app_player_commands_process takes one command...
CommandHandle ==
  /\ player_pc = "COMMANDS"
  /\ command_queue # <<>>
  /\ command_queue' = Tail(command_queue)
  /\ LET kind == Head(command_queue).kind
     IN \/ /\ kind = "PLAY_MP3"
           /\ Mp3RequestHandle
           /\ UNCHANGED <<pending, decoder_stop>>
        \/ /\ kind = "PLAY_VOICE"
           /\ VoiceRequestHandle
           /\ UNCHANGED <<svc_session, half, stream, dma_half, written, runtimeVars,
                          poolVars, decode_queue, decoder_stop>>
        \/ /\ \/ kind = "STOP" /\ StopHandle
              \/ kind = "EMERGENCY_ON" /\ EmergencyEnter
              \/ kind = "EMERGENCY_OFF" /\ EmergencyLeave
           /\ UNCHANGED <<runtimeVars, decode_queue>>
  /\ UNCHANGED <<voice_text, client_pc, decoderVars, notify, bits, player_pc>>

\* ... until the queue is empty.
CommandsDone ==
  /\ player_pc = "COMMANDS"
  /\ command_queue = <<>>
  /\ player_pc' = "VOICE"
  /\ UNCHANGED <<serviceVars, runtimeVars, poolVars, commandVars, decoderVars,
                 decode_queue, decoder_stop, notify, bits>>

\* audio_app_voice_synthesis_process and audio_player_service_voice_synthesis_process.
\* "quiet": no response that ends the voice; "ended": the chip reported IDLE or
\* rejected the command; "failed": reading the responses failed.  The request
\* is released on every path that leaves PLAYING_VOICE.
VoiceProcess ==
  /\ player_pc = "VOICE"
  /\ player_pc' = "EVENTS"
  /\ \/ UNCHANGED <<state, muted, pending>>                             \* quiet
     \/ /\ state = "PLAYING_VOICE"                                      \* ended
        /\ \E ok \in Result : /\ MuteSet(TRUE, ok)
                              /\ state' = IF ok THEN "IDLE" ELSE "ERROR"
        /\ pending' = FALSE
     \/ /\ state = "PLAYING_VOICE" /\ Faults                            \* failed
        /\ \E ok \in Result : MuteSet(TRUE, ok)
        /\ state' = "IDLE"
        /\ pending' = FALSE
  /\ UNCHANGED <<svc_session, half, stream, dma_half, written, runtimeVars, poolVars,
                 command_queue, voice_text, client_pc, decoderVars, decode_queue,
                 decoder_stop, notify, bits>>

-----------------------------------------------------------------------------
(* Player task: audio_app_mp3_events_process, in the order of its tests.   *)

\* DECODE_ERROR stops whatever the service is doing; DECODE_EOF is remembered.
DecodeEvents ==
  /\ player_pc = "EVENTS"
  /\ IF "DECODE_ERROR" \in bits
     THEN PlayerStop(FALSE)
     ELSE UNCHANGED <<serviceVars, poolVars, decoder_stop>>
  /\ decoder_eof' = (decoder_eof \/ "DECODE_EOF" \in bits)
  /\ player_pc' = "PREBUFFER"
  /\ UNCHANGED <<session_id, commandVars, decoderVars, decode_queue, notify, bits>>

\* audio_player_service_start with one block or two, after the unmute.  On a
\* failure the service passes through ERROR and is stopped at once.
Start(k1, k2) ==
  \/ /\ state' = "PLAYING_CS4344"
     /\ stream' = TRUE
     /\ dma_half' = 0
     /\ muted' = FALSE
     /\ half' = [h \in Halves |-> IF h = 0 THEN ready_queue[k1].session
                                  ELSE IF k2 # 0 THEN ready_queue[k2].session ELSE NoAudio]
     /\ written' = IF k2 # 0 THEN 2 ELSE 1
     /\ ConsumeReady(IF k2 # 0 THEN k2 ELSE Len(ready_queue))
     /\ UNCHANGED <<svc_session, decoder_stop>>
  \/ /\ Faults
     /\ state' = "IDLE"
     /\ muted' \in BOOLEAN
     /\ StreamStop
     /\ half' = Silent
     /\ written' = 0
     /\ decoder_stop' = TRUE
     /\ ReadyQueueFlush
     /\ UNCHANGED svc_session

\* audio_app_player_start_if_ready.  Stale blocks count towards the prebuffer;
\* they are dropped on the way to the two blocks that fill the DMA buffer.
StartIfReady ==
  \/ \E k1, k2 \in 1 .. Len(ready_queue) :
       Takes(k1, 1) /\ Takes(k2, k1 + 1) /\ Start(k1, k2)
  \/ \E k1 \in 1 .. Len(ready_queue) :
       /\ Takes(k1, 1) /\ TakesNothing(k1 + 1)
       /\ \/ decoder_eof /\ Start(k1, 0)
          \/ /\ ~decoder_eof            \* the only block goes back to the queue
             /\ free_queue' = free_queue \o BlocksOf(SubSeq(ready_queue, 1, k1 - 1))
                                \o BlocksOf(SubSeq(ready_queue, k1 + 1, Len(ready_queue)))
             /\ ready_queue' = <<ready_queue[k1]>>
             /\ UNCHANGED <<serviceVars, held, decoder_stop>>
  \/ /\ TakesNothing(1)
     /\ ReadyQueueFlush
     /\ UNCHANGED <<serviceVars, decoder_stop>>

\* Instead: the DMA events and the end of playback are looked at in every state.
PrebufferFallsThrough ==
  /\ player_pc = "PREBUFFER"
  /\ IF state = "PREPARING" /\ (decoder_eof \/ Len(ready_queue) >= BlockCount)
     THEN StartIfReady
     ELSE UNCHANGED <<serviceVars, poolVars, decoder_stop>>
  /\ player_pc' = "REFILL_HALF"
  /\ UNCHANGED <<runtimeVars, commandVars, decoderVars, decode_queue, notify, bits>>

\* PCM_READY, or EOF known while still PREPARING.  The code makes the call twice
\* when both hold; the second one then finds nothing left to do.
PrebufferCheck ==
  /\ player_pc = "PREBUFFER"
  /\ IF /\ state = "PREPARING"
        /\ "PCM_READY" \in bits \/ decoder_eof
        /\ decoder_eof \/ Len(ready_queue) >= BlockCount
     THEN StartIfReady
     ELSE UNCHANGED <<serviceVars, poolVars, decoder_stop>>
  /\ IF state' = "PLAYING_CS4344"
     THEN player_pc' = "REFILL_HALF" /\ UNCHANGED bits
     ELSE player_pc' = "WAIT" /\ bits' = {}
  /\ UNCHANGED <<runtimeVars, commandVars, decoderVars, decode_queue, notify>>

\* Instead: a half written with silence keeps its has-audio flag.
RefillKeepsFlag(h) ==
  \/ \E k \in 1 .. Len(ready_queue) :
       /\ Takes(k, 1)
       /\ half' = [half EXCEPT ![h] = ready_queue[k].session]
       /\ written' = written + 1
       /\ ConsumeReady(k)
  \/ TakesNothing(1) /\ ReadyQueueFlush /\ UNCHANGED <<half, written>>

\* audio_app_player_refill and audio_player_service_refill: the next block of
\* the session, or silence when there is none.  The service's own checks cannot
\* fail here: the block is of the session, and a session has one sample rate.
Refill(h) ==
  \/ \E k \in 1 .. Len(ready_queue) :
       /\ Takes(k, 1)
       /\ half' = [half EXCEPT ![h] = ready_queue[k].session]
       /\ written' = written + 1
       /\ ConsumeReady(k)
  \/ /\ TakesNothing(1)
     /\ half' = [half EXCEPT ![h] = NoAudio]
     /\ ReadyQueueFlush
     /\ UNCHANGED written

RefillStep(from, to, bit, h) ==
  /\ player_pc = from
  /\ player_pc' = to
  /\ IF bit \in bits THEN Refill(h) ELSE UNCHANGED <<half, written, poolVars>>
  /\ UNCHANGED <<state, svc_session, stream, dma_half, muted, runtimeVars, commandVars,
                 decoderVars, decode_queue, decoder_stop, notify, bits>>

\* Instead: the event of the first half refills the second.
RefillsOtherHalf == RefillStep("REFILL_HALF", "REFILL_FULL", "DMA_HALF", 1)

RefillHalf == RefillStep("REFILL_HALF", "REFILL_FULL", "DMA_HALF", 0)
RefillFull == RefillStep("REFILL_FULL", "FINISH", "DMA_FULL", 1)

\* Instead: an underrun is taken for the end.
CompleteOnUnderrun == ready_queue = <<>> /\ half = Silent

\* A DMA error stops playback and the decoder; otherwise playback is complete
\* once the decoder is done and nothing is left in the queue or in the buffer.
PlaybackComplete == decoder_eof /\ ready_queue = <<>> /\ half = Silent

FinishCheck ==
  /\ player_pc = "FINISH"
  /\ player_pc' = "WAIT" /\ bits' = {}
  /\ IF "DMA_ERROR" \in bits \/ PlaybackComplete
     THEN PlayerStop("DMA_ERROR" \in bits)
     ELSE UNCHANGED <<serviceVars, poolVars, decoder_stop>>
  /\ UNCHANGED <<runtimeVars, commandVars, decoderVars, decode_queue, notify>>

PlayerStep == \/ PlayerInit \/ WarmupEnd \/ PlayerWake \/ CommandHandle \/ CommandsDone
              \/ VoiceProcess \/ DecodeEvents \/ PrebufferCheck
              \/ RefillHalf \/ RefillFull \/ FinishCheck

-----------------------------------------------------------------------------
(* Decoder task: audio_app_decoder_task.                                   *)

DecoderFrame == UNCHANGED <<serviceVars, runtimeVars, commandVars, bits, player_pc>>

Notify(bit) == notify' = notify \cup {bit}

DecoderReceive ==
  /\ decoder_pc = "RECEIVE"
  /\ decode_queue # <<>>
  /\ decoding' = [session |-> Head(decode_queue), frame |-> 0]
  /\ decode_queue' = Tail(decode_queue)
  /\ decoder_pc' = "OPEN"
  /\ UNCHANGED <<poolVars, decoder_stop, notify>>

\* Instead: a source that does not open is dropped without telling the player.
OpenFailsSilently ==
  /\ decoder_pc = "OPEN"
  /\ decoder_pc' \in {"CHECK", "RECEIVE"}
  /\ UNCHANGED <<poolVars, decoding, decode_queue, decoder_stop, notify>>

\* mp3_decoder_service_start.  A source that does not open ends the session
\* without a look at the STOP bit.
DecoderOpen ==
  /\ decoder_pc = "OPEN"
  /\ \/ decoder_pc' = "CHECK" /\ UNCHANGED notify
     \/ DecodeErrors /\ decoder_pc' = "RECEIVE" /\ Notify("DECODE_ERROR")
  /\ UNCHANGED <<poolVars, decoding, decode_queue, decoder_stop>>

\* The notification is read, and cleared, only here.
DecoderCheckStop ==
  /\ decoder_pc = "CHECK"
  /\ decoder_stop' = FALSE
  /\ decoder_pc' = IF decoder_stop THEN "CLOSE" ELSE "TAKE"
  /\ UNCHANGED <<poolVars, decoding, decode_queue, notify>>

\* A free block, or a new look at STOP after 20 ms without one.
DecoderTake ==
  /\ decoder_pc = "TAKE"
  /\ \/ /\ free_queue # <<>>
        /\ held' = Head(free_queue)
        /\ free_queue' = Tail(free_queue)
        /\ decoder_pc' = "PROCESS"
     \/ /\ free_queue = <<>>
        /\ decoder_pc' = "CHECK"
        /\ UNCHANGED <<held, free_queue>>
  /\ UNCHANGED <<ready_queue, decoding, decode_queue, decoder_stop, notify>>

\* mp3_decoder_service_process fills the block with the next frame of the source...
DecodeFrame ==
  /\ decoder_pc = "PROCESS"
  /\ decoding.frame < FrameLimit
  /\ decoding' = [decoding EXCEPT !.frame = @ + 1]
  /\ ready_queue' = Append(ready_queue, [block |-> held, session |-> decoding.session,
                                         frame |-> decoding.frame + 1])
  /\ held' = NoBlock
  /\ decoder_pc' = "POST_PCM"
  /\ UNCHANGED <<free_queue, decode_queue, decoder_stop, notify>>

\* ... or there is none yet, none any more, or none that can be decoded.
DecodeNothing ==
  /\ decoder_pc = "PROCESS"
  /\ \/ decoder_pc' = "DELAY"
     \/ decoder_pc' = "POST_EOF" /\ (EmptySources \/ decoding.frame > 0)
     \/ decoder_pc' = "POST_ERROR" /\ DecodeErrors
  /\ free_queue' = Append(free_queue, held)
  /\ held' = NoBlock
  /\ UNCHANGED <<ready_queue, decoding, decode_queue, decoder_stop, notify>>

DecoderDelay ==
  /\ decoder_pc = "DELAY"
  /\ decoder_pc' = "CHECK"
  /\ UNCHANGED <<poolVars, decoding, decode_queue, decoder_stop, notify>>

\* The player is notified; after EOF or an error the loop is left at once.
DecoderPost ==
  /\ \/ decoder_pc = "POST_PCM"   /\ Notify("PCM_READY")    /\ decoder_pc' = "CHECK"
     \/ decoder_pc = "POST_EOF"   /\ Notify("DECODE_EOF")   /\ decoder_pc' = "CLOSE"
     \/ decoder_pc = "POST_ERROR" /\ Notify("DECODE_ERROR") /\ decoder_pc' = "CLOSE"
  /\ UNCHANGED <<poolVars, decoding, decode_queue, decoder_stop>>

\* mp3_decoder_service_stop
DecoderClose ==
  /\ decoder_pc = "CLOSE"
  /\ decoder_pc' = "RECEIVE"
  /\ UNCHANGED <<poolVars, decoding, decode_queue, decoder_stop, notify>>

DecoderStep ==
  /\ DecoderMayRun
  /\ \/ DecoderReceive \/ DecoderOpen \/ DecoderCheckStop \/ DecoderTake \/ DecodeFrame
     \/ DecodeNothing \/ DecoderDelay \/ DecoderPost \/ DecoderClose
  /\ DecoderFrame

-----------------------------------------------------------------------------
(* DMA interrupt: bsp_audio_output_i2s_callback and                        *)
(* audio_app_output_callback, which ignores the warm-up.                   *)

\* The player has refilled the half that was played before this one.
RefillDone == {"DMA_HALF", "DMA_FULL"} \cap (notify \cup IF player_pc = "WAIT" THEN {} ELSE bits) = {}

DmaHalfPlayed ==
  /\ stream /\ player_pc # "WARMUP"
  /\ DmaOutruns \/ RefillDone
  /\ dma_half' = 1 - dma_half
  /\ Notify(IF dma_half = 0 THEN "DMA_HALF" ELSE "DMA_FULL")

DmaFails ==
  /\ stream /\ player_pc # "WARMUP" /\ Faults
  /\ Notify("DMA_ERROR")
  /\ UNCHANGED dma_half

DmaInterrupt ==
  /\ DmaHalfPlayed \/ DmaFails
  /\ UNCHANGED <<state, svc_session, half, stream, muted, written, runtimeVars, poolVars,
                 commandVars, decoderVars, decode_queue, decoder_stop, bits, player_pc>>

-----------------------------------------------------------------------------
(* Clients: the playback API.  A call that finds the command queue full    *)
(* returns BUSY and changes nothing.                                       *)

QueueHasRoom == Len(command_queue) < CommandDepth

\* audio_playback_app_play, _stop and _emergency_set up to their xQueueSend.
ClientSend(c, kind) ==
  /\ client_pc[c] = "READY"
  /\ kind \in Requests \ {"PLAY_VOICE"}
  /\ QueueHasRoom
  /\ command_queue' = Append(command_queue, [kind |-> kind, client |-> c])
  /\ client_pc' = [client_pc EXCEPT ![c] = "SENT"]
  /\ UNCHANGED <<pending, voice_text, notify>>

\* audio_playback_app_voice_speak reserves the one text buffer...
ClientReserve(c) ==
  /\ client_pc[c] = "READY"
  /\ "PLAY_VOICE" \in Requests
  /\ ~pending
  /\ pending' = TRUE
  /\ client_pc' = [client_pc EXCEPT ![c] = "RESERVED"]
  /\ UNCHANGED <<command_queue, voice_text, notify>>

\* ... copies the text and queues the request, or gives the buffer back.
ClientSpeak(c) ==
  /\ client_pc[c] = "RESERVED"
  /\ voice_text' = c
  /\ IF QueueHasRoom
     THEN /\ command_queue' = Append(command_queue, [kind |-> "PLAY_VOICE", client |-> c])
          /\ client_pc' = [client_pc EXCEPT ![c] = "SENT"]
          /\ UNCHANGED pending
     ELSE /\ pending' = FALSE
          /\ client_pc' = [client_pc EXCEPT ![c] = "READY"]
          /\ UNCHANGED command_queue
  /\ UNCHANGED notify

ClientNotify(c) ==
  /\ client_pc[c] = "SENT"
  /\ Notify("COMMAND")
  /\ client_pc' = [client_pc EXCEPT ![c] = "READY"]
  /\ UNCHANGED <<command_queue, pending, voice_text>>

ClientStep ==
  /\ ClientMayRun
  /\ \E c \in Clients :
       \/ \E kind \in Requests : ClientSend(c, kind)
       \/ ClientReserve(c) \/ ClientSpeak(c) \/ ClientNotify(c)
  /\ UNCHANGED <<serviceVars, runtimeVars, poolVars, decoderVars, decode_queue,
                 decoder_stop, bits, player_pc>>

-----------------------------------------------------------------------------
(* Specification.                                                          *)

Init ==
  /\ state = "IDLE" /\ svc_session = 0 /\ half = Silent /\ stream = FALSE
  /\ dma_half = 0 /\ muted = TRUE /\ written = 0
  /\ session_id = 0 /\ decoder_eof = FALSE
  /\ free_queue = [i \in Blocks |-> i] /\ ready_queue = <<>> /\ held = NoBlock
  /\ command_queue = <<>> /\ decode_queue = <<>>
  /\ pending = FALSE /\ voice_text \in Clients
  /\ client_pc = [c \in Clients |-> "READY"]
  /\ notify = {} /\ bits = {} /\ player_pc = "START"
  /\ decoder_pc = "RECEIVE" /\ decoder_stop = FALSE
  /\ decoding = [session |-> 0, frame |-> 0]

Next == PlayerStep \/ DecoderStep \/ DmaInterrupt \/ ClientStep

Spec == Init /\ [][Next]_vars

(***************************************************************************)
(* Fairness.  The kernel runs every ready task in the end: the player has  *)
(* the highest priority; the decoder is interrupted by DMA events, but     *)
(* each is handled in far less than the time of a DMA half (26 ms); a      *)
(* client finishes a call it is in.  The DMA plays on while it is          *)
(* started, a source does not answer AGAIN for ever, and the voice chip    *)
(* reports the end of what it speaks.  Nobody has to issue a request.      *)
(***************************************************************************)
SourceProgress  == DecoderStep /\ decoder_pc = "PROCESS" /\ decoder_pc' # "DELAY"
VoiceEnds       == VoiceProcess /\ state = "PLAYING_VOICE" /\ state' # "PLAYING_VOICE"
CallProgress(c) == ClientStep /\ client_pc[c] # "READY" /\ client_pc'[c] # client_pc[c]

Fairness ==
  /\ WF_vars(PlayerStep)
  /\ SF_vars(DecoderStep)
  /\ SF_vars(SourceProgress)
  /\ SF_vars(VoiceEnds)
  /\ \A c \in Clients : SF_vars(CallProgress(c))
  /\ WF_vars(DmaInterrupt)

FairSpec == Spec /\ Fairness

-----------------------------------------------------------------------------
(* Properties.                                                             *)

\* Every variable keeps its type, component by component.
ServiceTypeOK ==
  /\ state \in States /\ svc_session \in 0 .. SessionLimit
  /\ half \in [Halves -> 0 .. SessionLimit] /\ stream \in BOOLEAN
  /\ dma_half \in Halves /\ muted \in BOOLEAN /\ written \in Nat

PoolTypeOK ==
  /\ free_queue \in Seq(Blocks) /\ ready_queue \in Seq(Filled)
  /\ held \in Blocks \cup {NoBlock}

PlayerTypeOK ==
  /\ session_id \in 0 .. SessionLimit /\ decoder_eof \in BOOLEAN
  /\ notify \subseteq NotifyBits /\ bits \subseteq NotifyBits
  /\ player_pc \in PlayerSteps

DecoderTypeOK ==
  /\ decode_queue \in Seq(Sessions) /\ decoder_stop \in BOOLEAN
  /\ decoder_pc \in DecoderSteps
  /\ decoding \in [session : 0 .. SessionLimit, frame : 0 .. FrameLimit]

RequestTypeOK ==
  /\ command_queue \in Seq(Command) /\ pending \in BOOLEAN /\ voice_text \in Clients
  /\ client_pc \in [Clients -> ClientSteps]

TypeOK == ServiceTypeOK /\ PoolTypeOK /\ PlayerTypeOK /\ DecoderTypeOK /\ RequestTypeOK

\* Every PCM block is in exactly one place: free, ready, or in the decoder's
\* hands.  No block is lost or handed out twice on any stop, flush or requeue
\* path, so no queue of blocks can overflow and no send can block.
Places == free_queue \o BlocksOf(ready_queue) \o (IF held = NoBlock THEN <<>> ELSE <<held>>)

PoolPartition ==
  /\ Len(Places) = BlockCount
  /\ \A i, j \in 1 .. Len(Places) : Places[i] = Places[j] => i = j

\* The one text buffer belongs to one request at a time: while a request is
\* being prepared, queued or spoken no other client holds the buffer, and the
\* text a queued request will speak is the one its client copied.
VoiceCommands == {i \in 1 .. Len(command_queue) : command_queue[i].kind = "PLAY_VOICE"}
Reserved      == {c \in Clients : client_pc[c] = "RESERVED"}

VoiceTextIntact ==
  /\ \A i \in VoiceCommands : voice_text = command_queue[i].client
  /\ \A i, j \in VoiceCommands : i = j
  /\ \A c, d \in Reserved : c = d
  /\ Reserved # {} => VoiceCommands = {} /\ state # "PLAYING_VOICE"
  /\ VoiceCommands # {} => state # "PLAYING_VOICE"

\* The reservation of the text buffer is never leaked: as long as it is set,
\* some request is being prepared, is queued or is spoken.
VoiceSlotHasOwner ==
  pending => Reserved # {} \/ VoiceCommands # {} \/ state = "PLAYING_VOICE"

\* The DMA stream runs exactly while the service is PLAYING_CS4344: no stop,
\* emergency, error or completion path leaves the DMA looping on old samples,
\* and no voice or emergency output starts beside a running stream.
StreamOwned == stream <=> state = "PLAYING_CS4344"

\* What the DMA plays is audio of the current session or silence, whatever the
\* decoder of an earlier session still put into the ready queue.
DmaHoldsCurrentSession ==
  state = "PLAYING_CS4344" => \A h \in Halves : half[h] \in {NoAudio, svc_session}

\* Between the decoder and the DMA buffer no block is lost, repeated or swapped:
\* the session's blocks in the queue continue what was written, without a gap,
\* up to what the decoder has decoded.
ActiveUpTo(n) == Cardinality({i \in 1 .. n : IsActive(i)})

AudioGapless ==
  state \in {"PREPARING", "PLAYING_CS4344"} /\ player_pc # "WARMUP" =>
    /\ \A i \in 1 .. Len(ready_queue) :
         IsActive(i) => ready_queue[i].frame = written + ActiveUpTo(i)
    /\ decoding.session = svc_session => decoding.frame = written + ActiveUpTo(Len(ready_queue))

\* Playback that ends by itself ends after the last block of its source: the
\* decoder of this session has finished, and all it decoded was written.
CompletesFully ==
  [][ player_pc = "FINISH" /\ "DMA_ERROR" \notin bits /\ state' # state
      => /\ decoding.session = svc_session /\ decoding.frame = written
         /\ decoder_pc \notin {"OPEN", "CHECK", "TAKE", "PROCESS", "DELAY"} ]_vars

\* A stream starts with no event of an earlier stream pending, and the player
\* never writes the half that the DMA is transmitting.
RefillsIdleHalf ==
  [][ /\ ~stream /\ stream' => {"DMA_HALF", "DMA_FULL"} \cap (bits \cup notify) = {}
      /\ stream /\ stream' => half'[dma_half] = half[dma_half] ]_vars

\* An emergency and a synthesized voice keep the output until they end it
\* themselves or a stop or emergency request ends it; nothing left over from
\* an MP3 session does.
StopsOutput == {"STOP", "EMERGENCY_ON", "EMERGENCY_OFF"}

OutputKeptByOwner ==
  [][ state' # state /\ state \in {"EMERGENCY", "PLAYING_VOICE"}
      => \/ player_pc = "COMMANDS" /\ Head(command_queue).kind \in StopsOutput
         \/ player_pc = "VOICE" /\ state = "PLAYING_VOICE" ]_vars

\* An accepted MP3 request gets past PREPARING: it starts, fails or is stopped.
PreparingEnds == state = "PREPARING" ~> state # "PREPARING"

\* Playback ends, and the voice reservation is given back.
PlayingEnds       == state = "PLAYING_CS4344" ~> state # "PLAYING_CS4344"
VoiceSlotReleased == pending ~> ~pending
=============================================================================

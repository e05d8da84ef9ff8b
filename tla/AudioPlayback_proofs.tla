----------------------- MODULE AudioPlayback_proofs -----------------------
(***************************************************************************)
(* Theorems about the playback application, for every size of the pool and *)
(* of the queues, every set of clients and every combination of faults.    *)
(***************************************************************************)
EXTENDS AudioPlayback, SequenceTheorems, FiniteSetTheorems, TLAPS

USE DEF Halves, NoAudio, NoBlock

-----------------------------------------------------------------------------
(* The pool's queues keep their types.                                     *)

\* The blocks of a queue of filled blocks are pool blocks, in the same order.
LEMMA BlocksOfTyped ==
  ASSUME NEW q \in Seq(Filled)
  PROVE  /\ BlocksOf(q) \in Seq(Blocks) /\ Len(BlocksOf(q)) = Len(q)
         /\ \A i \in 1 .. Len(q) : BlocksOf(q)[i] = q[i].block
<1>1. \A i \in 1 .. Len(q) : q[i] \in Filled
  BY ElementOfSeq
<1>2. \A i \in 1 .. Len(q) : q[i].block \in Blocks
  BY <1>1 DEF Filled
<1> QED
  BY <1>2 DEF BlocksOf

\* An entry of the ready queue is a filled block of some session.
LEMMA EntryTyped ==
  ASSUME PoolTypeOK, NEW k \in 1 .. Len(ready_queue)
  PROVE  /\ ready_queue[k] \in Filled /\ ready_queue[k].block \in Blocks
         /\ ready_queue[k].session \in 0 .. SessionLimit
<1>1. ready_queue[k] \in Filled
  BY ElementOfSeq DEF PoolTypeOK
<1>2. ready_queue[k].block \in Blocks /\ ready_queue[k].session \in Sessions
  BY <1>1 DEF Filled
<1> QED
  BY <1>1, <1>2, PoolAssumption DEF Sessions

\* A flush keeps the types of the pool.
LEMMA FlushTyped ==
  ASSUME PoolTypeOK, ReadyQueueFlush
  PROVE  PoolTypeOK'
<1>1. BlocksOf(ready_queue) \in Seq(Blocks)
  BY BlocksOfTyped DEF PoolTypeOK
<1> QED
  BY <1>1 DEF PoolTypeOK, ReadyQueueFlush

\* So does taking the first k entries of the ready queue.
LEMMA ConsumeTyped ==
  ASSUME PoolTypeOK, NEW k \in 0 .. Len(ready_queue), ConsumeReady(k)
  PROVE  PoolTypeOK'
<1>1. /\ SubSeq(ready_queue, 1, k) \in Seq(Filled)
      /\ SubSeq(ready_queue, k + 1, Len(ready_queue)) \in Seq(Filled)
  BY DEF PoolTypeOK
<1>2. BlocksOf(SubSeq(ready_queue, 1, k)) \in Seq(Blocks)
  BY <1>1, BlocksOfTyped
<1> QED
  BY <1>1, <1>2 DEF PoolTypeOK, ConsumeReady

-----------------------------------------------------------------------------
(* Stopping, from any state of the service.                                *)

LEMMA SilentTyped == Silent \in [Halves -> 0 .. SessionLimit]
  BY PoolAssumption DEF Silent

LEMMA StopTyped ==
  ASSUME ServiceTypeOK, ServiceStop
  PROVE  ServiceTypeOK'
<1>1. CASE state = "IDLE"
  BY <1>1 DEF ServiceTypeOK, ServiceStop, States
<1>2. CASE state # "IDLE"
  <2>1. muted' \in BOOLEAN
    BY <1>2 DEF ServiceTypeOK, ServiceStop, MuteSet
  <2>2. stream' \in BOOLEAN /\ dma_half' \in Halves
    BY <1>2 DEF ServiceTypeOK, ServiceStop, StreamStop
  <2> QED
    BY <1>2, <2>1, <2>2, SilentTyped DEF ServiceTypeOK, ServiceStop, States
<1> QED
  BY <1>1, <1>2

LEMMA PlayerStopTyped ==
  ASSUME TypeOK, NEW b \in BOOLEAN, PlayerStop(b)
  PROVE  ServiceTypeOK' /\ PoolTypeOK' /\ decoder_stop' \in BOOLEAN
<1>1. decoder_stop' \in BOOLEAN
  BY DEF TypeOK, DecoderTypeOK, PlayerStop
<1> QED
  BY <1>1, StopTyped, FlushTyped DEF TypeOK, PlayerStop

-----------------------------------------------------------------------------
(* The player task.                                                        *)

USE DEF TypeOK

LEMMA InitTyped == Init => TypeOK
  BY PoolAssumption, SMTT(30)
  DEF Init, ServiceTypeOK, PoolTypeOK, PlayerTypeOK, DecoderTypeOK, RequestTypeOK,
      States, Blocks, Sessions, Silent, PlayerSteps, DecoderSteps, ClientSteps

LEMMA PlayerInitTyped == TypeOK /\ PlayerInit => TypeOK'
<1> SUFFICES ASSUME TypeOK, PlayerInit
             PROVE  TypeOK'
  OBVIOUS
<1>1. state' \in States /\ player_pc' \in PlayerSteps
  BY DEF PlayerInit, States, PlayerSteps
<1>2. svc_session' \in 0 .. SessionLimit
  BY PoolAssumption DEF ServiceTypeOK, PlayerInit, WarmupSession
<1>3. stream' \in BOOLEAN
  BY DEF ServiceTypeOK, PlayerInit
<1>4. UNCHANGED <<half, dma_half, muted, written, runtimeVars, poolVars, commandVars,
                  decoderVars, decode_queue, decoder_stop, notify, bits>>
  BY DEF PlayerInit
<1> QED
  BY <1>1, <1>2, <1>3, <1>4 DEF ServiceTypeOK, PoolTypeOK, PlayerTypeOK, DecoderTypeOK,
     RequestTypeOK, runtimeVars, poolVars, commandVars, decoderVars

LEMMA WarmupEndTyped == TypeOK /\ WarmupEnd => TypeOK'
<1> SUFFICES ASSUME TypeOK, WarmupEnd
             PROVE  TypeOK'
  OBVIOUS
<1>1. ServiceTypeOK'
  BY StopTyped DEF WarmupEnd
<1> QED
  BY <1>1 DEF WarmupEnd, PoolTypeOK, PlayerTypeOK, DecoderTypeOK, RequestTypeOK, PlayerSteps,
     runtimeVars, poolVars, commandVars, decoderVars

LEMMA PlayerWakeTyped == TypeOK /\ PlayerWake => TypeOK'
  BY DEF PlayerWake, ServiceTypeOK, PoolTypeOK, PlayerTypeOK, DecoderTypeOK, RequestTypeOK,
     PlayerSteps, serviceVars, runtimeVars, poolVars, commandVars, decoderVars

LEMMA CommandsDoneTyped == TypeOK /\ CommandsDone => TypeOK'
  BY DEF CommandsDone, ServiceTypeOK, PoolTypeOK, PlayerTypeOK, DecoderTypeOK, RequestTypeOK,
     PlayerSteps, serviceVars, runtimeVars, poolVars, commandVars, decoderVars

LEMMA VoiceProcessTyped == TypeOK /\ VoiceProcess => TypeOK'
<1> SUFFICES ASSUME TypeOK, VoiceProcess
             PROVE  TypeOK'
  OBVIOUS
<1>1. state' \in States /\ muted' \in BOOLEAN /\ pending' \in BOOLEAN
  BY DEF VoiceProcess, ServiceTypeOK, RequestTypeOK, States, MuteSet
<1>2. player_pc' \in PlayerSteps
  BY DEF VoiceProcess, PlayerSteps
<1> QED
  BY <1>1, <1>2 DEF VoiceProcess, ServiceTypeOK, PoolTypeOK, PlayerTypeOK, DecoderTypeOK,
     RequestTypeOK, runtimeVars, poolVars, decoderVars

LEMMA NextSessionTyped ==
  ASSUME NEW s \in 0 .. SessionLimit
  PROVE  NextSession(s) \in Sessions
  BY PoolAssumption DEF NextSession, Sessions

LEMMA Mp3RequestTyped ==
  ASSUME TypeOK, Mp3RequestHandle
  PROVE  /\ ServiceTypeOK' /\ PoolTypeOK' /\ decode_queue' \in Seq(Sessions)
         /\ session_id' \in 0 .. SessionLimit /\ decoder_eof' \in BOOLEAN
<1>1. CASE UNCHANGED <<serviceVars, runtimeVars, poolVars, decode_queue>>
  BY <1>1 DEF ServiceTypeOK, PoolTypeOK, PlayerTypeOK, DecoderTypeOK,
     serviceVars, runtimeVars, poolVars
<1>2. CASE ~UNCHANGED <<serviceVars, runtimeVars, poolVars, decode_queue>>
  <2>1. /\ session_id' = NextSession(session_id) /\ svc_session' = NextSession(session_id)
        /\ decoder_eof' = FALSE /\ half' = Silent /\ written' = 0
    BY <1>2 DEF Mp3RequestHandle
  <2>2. NextSession(session_id) \in Sessions /\ Sessions \subseteq 0 .. SessionLimit
    BY NextSessionTyped DEF PlayerTypeOK, Sessions
  <2>3. state' \in States
    BY <1>2 DEF Mp3RequestHandle, States
  <2>4. muted' \in BOOLEAN /\ stream' \in BOOLEAN /\ dma_half' \in Halves
    BY <1>2 DEF Mp3RequestHandle, ServiceTypeOK, MuteSet, StreamStop
  <2>5. decode_queue' \in Seq(Sessions)
    <3>1. <<NextSession(session_id)>> \in Seq(Sessions)
      BY <2>2
    <3> QED
      BY <1>2, <3>1 DEF Mp3RequestHandle, DecoderTypeOK
  <2>6. PoolTypeOK'
    <3>1. UNCHANGED poolVars \/ ReadyQueueFlush
      BY <1>2 DEF Mp3RequestHandle
    <3> QED
      BY <3>1, FlushTyped DEF PoolTypeOK, poolVars
  <2> QED
    BY <2>1, <2>2, <2>3, <2>4, <2>5, <2>6, SilentTyped DEF ServiceTypeOK
<1> QED
  BY <1>1, <1>2

LEMMA CommandHandleTyped == TypeOK /\ CommandHandle => TypeOK'
<1> SUFFICES ASSUME TypeOK, CommandHandle
             PROVE  TypeOK'
  OBVIOUS
<1>1. /\ command_queue' \in Seq(Command)
      /\ UNCHANGED <<voice_text, client_pc, decoderVars, notify, bits, player_pc>>
  BY DEF CommandHandle, RequestTypeOK
<1>2. CASE Mp3RequestHandle /\ UNCHANGED <<pending, decoder_stop>>
  BY <1>1, <1>2, Mp3RequestTyped DEF PlayerTypeOK, DecoderTypeOK, RequestTypeOK, decoderVars
<1>3. CASE VoiceRequestHandle /\ UNCHANGED <<svc_session, half, stream, dma_half, written,
             runtimeVars, poolVars, decode_queue, decoder_stop>>
  <2>1. state' \in States /\ muted' \in BOOLEAN /\ pending' \in BOOLEAN
    BY <1>3 DEF VoiceRequestHandle, ServiceTypeOK, RequestTypeOK, States, MuteSet
  <2> QED
    BY <1>1, <1>3, <2>1 DEF ServiceTypeOK, PoolTypeOK, PlayerTypeOK, DecoderTypeOK,
       RequestTypeOK, runtimeVars, poolVars, decoderVars
<1>4. CASE StopHandle /\ UNCHANGED <<runtimeVars, decode_queue>>
  <2> DEFINE b == state \in {"PREPARING", "PLAYING_CS4344"}
  <2>1. b \in BOOLEAN /\ PlayerStop(b)
    BY <1>4 DEF StopHandle
  <2> HIDE DEF b
  <2>2. pending' \in BOOLEAN
    BY <1>4 DEF StopHandle, RequestTypeOK
  <2> QED
    BY <1>1, <1>4, <2>1, <2>2, PlayerStopTyped DEF PlayerTypeOK, DecoderTypeOK,
       RequestTypeOK, runtimeVars, decoderVars
<1>5. CASE EmergencyEnter /\ UNCHANGED <<runtimeVars, decode_queue>>
  <2>1. PoolTypeOK'
    BY <1>5, FlushTyped DEF EmergencyEnter
  <2>2. /\ state' \in States /\ muted' \in BOOLEAN
        /\ pending' \in BOOLEAN /\ decoder_stop' \in BOOLEAN
    BY <1>5 DEF EmergencyEnter, ServiceTypeOK, RequestTypeOK, DecoderTypeOK, States, MuteSet
  <2>3. stream' \in BOOLEAN /\ dma_half' \in Halves /\ written' \in Nat
    BY <1>5 DEF EmergencyEnter, ServiceTypeOK, StreamStop
  <2> QED
    BY <1>1, <1>5, <2>1, <2>2, <2>3 DEF EmergencyEnter, ServiceTypeOK, PlayerTypeOK,
       DecoderTypeOK, RequestTypeOK, runtimeVars, decoderVars
<1>6. CASE EmergencyLeave /\ UNCHANGED <<runtimeVars, decode_queue>>
  <2>1. PoolTypeOK'
    BY <1>6, FlushTyped DEF EmergencyLeave
  <2>2. state' \in States /\ muted' \in BOOLEAN /\ decoder_stop' \in BOOLEAN
    BY <1>6 DEF EmergencyLeave, ServiceTypeOK, DecoderTypeOK, States, MuteSet
  <2> QED
    BY <1>1, <1>6, <2>1, <2>2 DEF EmergencyLeave, ServiceTypeOK, PlayerTypeOK,
       DecoderTypeOK, RequestTypeOK, runtimeVars, decoderVars
<1> QED
  BY <1>2, <1>3, <1>4, <1>5, <1>6 DEF CommandHandle

LEMMA DecodeEventsTyped == TypeOK /\ DecodeEvents => TypeOK'
<1> SUFFICES ASSUME TypeOK, DecodeEvents
             PROVE  TypeOK'
  OBVIOUS
<1>1. ServiceTypeOK' /\ PoolTypeOK' /\ decoder_stop' \in BOOLEAN
  <2>1. CASE "DECODE_ERROR" \in bits
    BY <2>1, PlayerStopTyped DEF DecodeEvents
  <2>2. CASE "DECODE_ERROR" \notin bits
    BY <2>2 DEF DecodeEvents, ServiceTypeOK, PoolTypeOK, DecoderTypeOK, serviceVars, poolVars
  <2> QED
    BY <2>1, <2>2
<1>2. PlayerTypeOK'
  BY DEF DecodeEvents, PlayerTypeOK, PlayerSteps
<1> QED
  BY <1>1, <1>2 DEF DecodeEvents, DecoderTypeOK, RequestTypeOK, commandVars, decoderVars

LEMMA StartTyped ==
  ASSUME TypeOK, NEW k1 \in 1 .. Len(ready_queue), NEW k2 \in 0 .. Len(ready_queue),
         Start(k1, k2)
  PROVE  ServiceTypeOK' /\ PoolTypeOK' /\ decoder_stop' \in BOOLEAN
<1>1. CASE state' = "PLAYING_CS4344"
  <2>1. half' \in [Halves -> 0 .. SessionLimit]
    <3> DEFINE second == IF k2 # 0 THEN ready_queue[k2].session ELSE NoAudio
    <3>1. ready_queue[k1].session \in 0 .. SessionLimit
      BY EntryTyped
    <3>2. second \in 0 .. SessionLimit
      BY EntryTyped, PoolAssumption
    <3>3. half' = [h \in Halves |-> IF h = 0 THEN ready_queue[k1].session ELSE second]
      BY <1>1 DEF Start
    <3> HIDE DEF second
    <3> QED
      BY <3>1, <3>2, <3>3
  <2>2. PoolTypeOK'
    <3>1. PICK k \in 0 .. Len(ready_queue) : ConsumeReady(k)
      BY <1>1 DEF Start, PoolTypeOK
    <3> QED
      BY <3>1, ConsumeTyped
  <2>3. /\ stream' \in BOOLEAN /\ dma_half' \in Halves /\ muted' \in BOOLEAN
        /\ written' \in Nat /\ UNCHANGED <<svc_session, decoder_stop>>
    BY <1>1, SMTT(30) DEF Start
  <2> QED
    BY <1>1, <2>1, <2>2, <2>3 DEF ServiceTypeOK, DecoderTypeOK, States
<1>2. CASE state' = "IDLE"
  <2>1. half' = Silent /\ ReadyQueueFlush
    BY <1>2 DEF Start
  <2>2. /\ stream' = FALSE /\ dma_half' = 0 /\ muted' \in BOOLEAN /\ written' = 0
        /\ UNCHANGED svc_session /\ decoder_stop' = TRUE
    BY <1>2 DEF Start, StreamStop
  <2> QED
    BY <1>2, <2>1, <2>2, SilentTyped, FlushTyped DEF ServiceTypeOK, States
<1> QED
  BY <1>1, <1>2 DEF Start

LEMMA StartIfReadyTyped ==
  ASSUME TypeOK, StartIfReady
  PROVE  ServiceTypeOK' /\ PoolTypeOK' /\ decoder_stop' \in BOOLEAN
<1>1. CASE \E k1, k2 \in 1 .. Len(ready_queue) :
             Takes(k1, 1) /\ Takes(k2, k1 + 1) /\ Start(k1, k2)
  <2>1. PICK k1, k2 \in 1 .. Len(ready_queue) : Start(k1, k2)
    BY <1>1
  <2>2. k2 \in 0 .. Len(ready_queue)
    BY <2>1 DEF PoolTypeOK
  <2> QED
    BY <2>1, <2>2, StartTyped
<1>2. ASSUME NEW k1 \in 1 .. Len(ready_queue), Start(k1, 0)
      PROVE  ServiceTypeOK' /\ PoolTypeOK' /\ decoder_stop' \in BOOLEAN
  <2>1. 0 \in 0 .. Len(ready_queue)
    BY DEF PoolTypeOK
  <2> QED
    BY <1>2, <2>1, StartTyped
<1>3. ASSUME NEW k1 \in 1 .. Len(ready_queue),
             free_queue' = free_queue \o BlocksOf(SubSeq(ready_queue, 1, k1 - 1))
                             \o BlocksOf(SubSeq(ready_queue, k1 + 1, Len(ready_queue))),
             ready_queue' = <<ready_queue[k1]>>,
             UNCHANGED <<serviceVars, held, decoder_stop>>
      PROVE  ServiceTypeOK' /\ PoolTypeOK' /\ decoder_stop' \in BOOLEAN
  <2>1. /\ SubSeq(ready_queue, 1, k1 - 1) \in Seq(Filled)
        /\ SubSeq(ready_queue, k1 + 1, Len(ready_queue)) \in Seq(Filled)
        /\ ready_queue[k1] \in Filled
    BY DEF PoolTypeOK
  <2>2. /\ BlocksOf(SubSeq(ready_queue, 1, k1 - 1)) \in Seq(Blocks)
        /\ BlocksOf(SubSeq(ready_queue, k1 + 1, Len(ready_queue))) \in Seq(Blocks)
    BY <2>1, BlocksOfTyped
  <2>3. PoolTypeOK'
    BY <1>3, <2>1, <2>2 DEF PoolTypeOK
  <2> QED
    BY <1>3, <2>3 DEF ServiceTypeOK, DecoderTypeOK, serviceVars
<1>4. CASE ReadyQueueFlush /\ UNCHANGED <<serviceVars, decoder_stop>>
  BY <1>4, FlushTyped DEF ServiceTypeOK, DecoderTypeOK, serviceVars
<1> QED
  BY <1>1, <1>2, <1>3, <1>4 DEF StartIfReady

LEMMA PrebufferCheckTyped == TypeOK /\ PrebufferCheck => TypeOK'
<1> SUFFICES ASSUME TypeOK, PrebufferCheck
             PROVE  TypeOK'
  OBVIOUS
<1>1. StartIfReady \/ UNCHANGED <<serviceVars, poolVars, decoder_stop>>
  BY DEF PrebufferCheck
<1>2. ServiceTypeOK' /\ PoolTypeOK' /\ decoder_stop' \in BOOLEAN
  BY <1>1, StartIfReadyTyped DEF ServiceTypeOK, PoolTypeOK, DecoderTypeOK, serviceVars, poolVars
<1>3. bits' \subseteq NotifyBits /\ player_pc' \in PlayerSteps
  BY DEF PrebufferCheck, PlayerTypeOK, PlayerSteps
<1> QED
  BY <1>2, <1>3 DEF PrebufferCheck, PlayerTypeOK, DecoderTypeOK, RequestTypeOK,
     runtimeVars, commandVars, decoderVars

LEMMA RefillTyped ==
  ASSUME TypeOK, NEW h \in Halves, Refill(h)
  PROVE  /\ half' \in [Halves -> 0 .. SessionLimit] /\ written' \in Nat
         /\ PoolTypeOK'
<1>1. ASSUME NEW k \in 1 .. Len(ready_queue),
             half' = [half EXCEPT ![h] = ready_queue[k].session],
             written' = written + 1, ConsumeReady(k)
      PROVE  half' \in [Halves -> 0 .. SessionLimit] /\ written' \in Nat /\ PoolTypeOK'
  <2>1. ready_queue[k].session \in 0 .. SessionLimit
    BY EntryTyped
  <2>2. k \in 0 .. Len(ready_queue)
    BY DEF PoolTypeOK
  <2> QED
    BY <1>1, <2>1, <2>2, ConsumeTyped DEF ServiceTypeOK
<1>2. ASSUME half' = [half EXCEPT ![h] = NoAudio], ReadyQueueFlush, UNCHANGED written
      PROVE  half' \in [Halves -> 0 .. SessionLimit] /\ written' \in Nat /\ PoolTypeOK'
  BY <1>2, FlushTyped, PoolAssumption DEF ServiceTypeOK
<1> QED
  BY <1>1, <1>2 DEF Refill

LEMMA RefillStepTyped ==
  ASSUME TypeOK, NEW from, NEW to \in PlayerSteps, NEW bit, NEW h \in Halves,
         RefillStep(from, to, bit, h)
  PROVE  TypeOK'
<1>1. half' \in [Halves -> 0 .. SessionLimit] /\ written' \in Nat /\ PoolTypeOK'
  <2>1. Refill(h) \/ UNCHANGED <<half, written, poolVars>>
    BY DEF RefillStep
  <2> QED
    BY <2>1, RefillTyped DEF ServiceTypeOK, PoolTypeOK, poolVars
<1> QED
  BY <1>1 DEF RefillStep, ServiceTypeOK, PlayerTypeOK, DecoderTypeOK, RequestTypeOK,
     runtimeVars, commandVars, decoderVars

LEMMA FinishCheckTyped == TypeOK /\ FinishCheck => TypeOK'
<1> SUFFICES ASSUME TypeOK, FinishCheck
             PROVE  TypeOK'
  OBVIOUS
<1> DEFINE b == "DMA_ERROR" \in bits
<1>1. b \in BOOLEAN /\ (PlayerStop(b) \/ UNCHANGED <<serviceVars, poolVars, decoder_stop>>)
  BY DEF FinishCheck
<1> HIDE DEF b
<1>2. ServiceTypeOK' /\ PoolTypeOK' /\ decoder_stop' \in BOOLEAN
  BY <1>1, PlayerStopTyped DEF ServiceTypeOK, PoolTypeOK, DecoderTypeOK, serviceVars, poolVars
<1> QED
  BY <1>2 DEF FinishCheck, PlayerTypeOK, DecoderTypeOK, RequestTypeOK, PlayerSteps,
     runtimeVars, commandVars, decoderVars

LEMMA PlayerStepTyped == TypeOK /\ PlayerStep => TypeOK'
<1>1. TypeOK /\ (RefillHalf \/ RefillFull) => TypeOK'
  BY RefillStepTyped DEF RefillHalf, RefillFull, PlayerSteps
<1> QED
  BY <1>1, PlayerInitTyped, WarmupEndTyped, PlayerWakeTyped, CommandHandleTyped,
     CommandsDoneTyped, VoiceProcessTyped, DecodeEventsTyped, PrebufferCheckTyped,
     FinishCheckTyped
  DEF PlayerStep

-----------------------------------------------------------------------------
(* The decoder task, the DMA interrupt and the clients.  The types are     *)
(* inductive together with what the decoder's program counter says.        *)

\* The decoder holds a block exactly while it decodes into it, and outside
\* RECEIVE it works for a session.
DecoderInv ==
  /\ held # NoBlock <=> decoder_pc = "PROCESS"
  /\ decoder_pc # "RECEIVE" => decoding.session \in Sessions

LEMMA PlayerLeavesDecoder == PlayerStep => UNCHANGED <<held, decoderVars>>
<1>1. PlayerInit \/ WarmupEnd \/ PlayerWake \/ CommandsDone \/ VoiceProcess
        => UNCHANGED <<held, decoderVars>>
  BY DEF PlayerInit, WarmupEnd, PlayerWake, CommandsDone, VoiceProcess, poolVars
<1>2. CommandHandle => UNCHANGED <<held, decoderVars>>
  BY DEF CommandHandle, Mp3RequestHandle, StopHandle, EmergencyEnter, EmergencyLeave,
     PlayerStop, ReadyQueueFlush, poolVars
<1>3. DecodeEvents \/ FinishCheck => UNCHANGED <<held, decoderVars>>
  BY DEF DecodeEvents, FinishCheck, PlayerStop, ReadyQueueFlush, poolVars
<1>4. PrebufferCheck => UNCHANGED <<held, decoderVars>>
  BY DEF PrebufferCheck, StartIfReady, Start, ConsumeReady, ReadyQueueFlush, poolVars
<1>5. RefillHalf \/ RefillFull => UNCHANGED <<held, decoderVars>>
  BY DEF RefillHalf, RefillFull, RefillStep, Refill, ConsumeReady, ReadyQueueFlush, poolVars
<1> QED
  BY <1>1, <1>2, <1>3, <1>4, <1>5 DEF PlayerStep

LEMMA DecoderStepTyped ==
  TypeOK /\ DecoderInv /\ DecoderStep => TypeOK' /\ DecoderInv'
<1> SUFFICES ASSUME TypeOK, DecoderInv, DecoderStep
             PROVE  TypeOK' /\ DecoderInv'
  OBVIOUS
<1>1. ServiceTypeOK' /\ RequestTypeOK'
  BY DEF DecoderStep, DecoderFrame, ServiceTypeOK, RequestTypeOK, serviceVars, commandVars
<1>2. PlayerTypeOK'
  BY DEF DecoderStep, DecoderFrame, PlayerTypeOK, NotifyBits, Notify, runtimeVars,
     DecoderReceive, DecoderOpen, DecoderCheckStop, DecoderTake, DecodeFrame, DecodeNothing,
     DecoderDelay, DecoderPost, DecoderClose
<1>3. CASE DecoderReceive
  <2>1. Head(decode_queue) \in Sessions /\ decode_queue' \in Seq(Sessions)
    BY <1>3, HeadTailProperties DEF DecoderReceive, DecoderTypeOK
  <2>2. decoding' \in [session : 0 .. SessionLimit, frame : 0 .. FrameLimit]
    BY <1>3, <2>1, PoolAssumption DEF DecoderReceive, Sessions
  <2> QED
    BY <1>1, <1>2, <1>3, <2>1, <2>2 DEF DecoderReceive, DecoderTypeOK, DecoderInv, DecoderSteps,
       PoolTypeOK, poolVars
<1>4. CASE DecoderOpen \/ DecoderCheckStop \/ DecoderDelay \/ DecoderPost \/ DecoderClose
  BY <1>1, <1>2, <1>4 DEF DecoderOpen, DecoderCheckStop, DecoderDelay, DecoderPost, DecoderClose,
     DecoderTypeOK, DecoderInv, DecoderSteps, PoolTypeOK, poolVars
<1>5. CASE DecoderTake
  <2>1. PoolTypeOK' /\ (held' # NoBlock <=> decoder_pc' = "PROCESS")
    <3>1. CASE free_queue # <<>>
      <4>1. Head(free_queue) \in Blocks /\ Tail(free_queue) \in Seq(Blocks)
        BY <3>1, HeadTailProperties DEF PoolTypeOK
      <4>2. held' = Head(free_queue) /\ free_queue' = Tail(free_queue) /\ UNCHANGED ready_queue
            /\ decoder_pc' = "PROCESS"
        BY <1>5, <3>1 DEF DecoderTake
      <4>3. Head(free_queue) # NoBlock
        BY <4>1 DEF Blocks
      <4> QED
        BY <4>1, <4>2, <4>3 DEF PoolTypeOK
    <3>2. CASE free_queue = <<>>
      BY <1>5, <3>2 DEF DecoderTake, DecoderInv, PoolTypeOK
    <3> QED
      BY <3>1, <3>2
  <2> QED
    BY <1>1, <1>2, <1>5, <2>1 DEF DecoderTake, DecoderTypeOK, DecoderInv, DecoderSteps
<1>6. CASE DecodeFrame
  <2>1. /\ decoding.session \in Sessions /\ decoding.frame + 1 \in 1 .. FrameLimit
        /\ held \in Blocks
    BY <1>6, PoolAssumption DEF DecodeFrame, DecoderTypeOK, DecoderInv, PoolTypeOK
  <2>2. decoding' = [session |-> decoding.session, frame |-> decoding.frame + 1]
    BY <1>6 DEF DecodeFrame, DecoderTypeOK
  <2>4. decoding' \in [session : 0 .. SessionLimit, frame : 0 .. FrameLimit]
    BY <2>1, <2>2, PoolAssumption DEF Sessions
  <2>3. ready_queue' \in Seq(Filled)
    BY <1>6, <2>1 DEF DecodeFrame, PoolTypeOK, Filled
  <2> QED
    BY <1>1, <1>2, <1>6, <2>1, <2>2, <2>3, <2>4 DEF DecodeFrame, DecoderTypeOK, DecoderInv, DecoderSteps,
       PoolTypeOK
<1>7. CASE DecodeNothing
  <2>1. held \in Blocks
    BY <1>7 DEF DecodeNothing, DecoderInv, PoolTypeOK
  <2>2. free_queue' \in Seq(Blocks)
    BY <1>7, <2>1 DEF DecodeNothing, PoolTypeOK
  <2> QED
    BY <1>1, <1>2, <1>7, <2>2 DEF DecodeNothing, DecoderTypeOK, DecoderInv, DecoderSteps, PoolTypeOK
<1> QED
  BY <1>3, <1>4, <1>5, <1>6, <1>7 DEF DecoderStep

LEMMA DmaInterruptTyped == TypeOK /\ DmaInterrupt => TypeOK' /\ UNCHANGED <<held, decoderVars>>
<1> SUFFICES ASSUME TypeOK, DmaInterrupt
             PROVE  TypeOK' /\ UNCHANGED <<held, decoderVars>>
  OBVIOUS
<1>1. notify' \subseteq NotifyBits
  BY DEF DmaInterrupt, DmaHalfPlayed, DmaFails, Notify, NotifyBits, PlayerTypeOK
<1>2. dma_half' \in Halves
  BY DEF DmaInterrupt, DmaHalfPlayed, DmaFails, ServiceTypeOK
<1> QED
  BY <1>1, <1>2 DEF DmaInterrupt, ServiceTypeOK, PoolTypeOK, PlayerTypeOK, DecoderTypeOK,
     RequestTypeOK, runtimeVars, poolVars, commandVars, decoderVars

LEMMA ClientStepTyped == TypeOK /\ ClientStep => TypeOK' /\ UNCHANGED <<held, decoderVars>>
<1> SUFFICES ASSUME TypeOK, ClientStep
             PROVE  TypeOK' /\ UNCHANGED <<held, decoderVars>>
  OBVIOUS
<1>1. UNCHANGED <<serviceVars, runtimeVars, poolVars, decoderVars, decode_queue, decoder_stop,
                  bits, player_pc>>
  BY DEF ClientStep
<1>2. PICK c \in Clients : \/ \E kind \in Requests : ClientSend(c, kind)
                          \/ ClientReserve(c) \/ ClientSpeak(c) \/ ClientNotify(c)
  BY DEF ClientStep
<1>3. notify' \subseteq NotifyBits
  BY <1>2 DEF PlayerTypeOK, NotifyBits, ClientSend, ClientReserve, ClientSpeak, ClientNotify, Notify
<1>4. /\ pending' \in BOOLEAN /\ voice_text' \in Clients
      /\ client_pc' \in [Clients -> ClientSteps]
  BY <1>2 DEF RequestTypeOK, ClientSteps, ClientSend, ClientReserve, ClientSpeak, ClientNotify
<1>5. command_queue' \in Seq(Command)
  <2>1. \A kind \in Requests : [kind |-> kind, client |-> c] \in Command
    BY RequestAssumption DEF Command
  <2>2. [kind |-> "PLAY_VOICE", client |-> c] \in Command
    BY DEF Command, RequestKinds
  <2>3. UNCHANGED command_queue \/ \E m \in Command : command_queue' = Append(command_queue, m)
    BY <1>2, <2>1, <2>2 DEF ClientSend, ClientReserve, ClientSpeak, ClientNotify
  <2> QED
    BY <2>3 DEF RequestTypeOK
<1> QED
  BY <1>1, <1>3, <1>4, <1>5 DEF ServiceTypeOK, PoolTypeOK, PlayerTypeOK, DecoderTypeOK,
     RequestTypeOK, serviceVars, runtimeVars, poolVars, decoderVars

Typed == TypeOK /\ DecoderInv

LEMMA NextTyped == Typed /\ [Next]_vars => Typed'
<1>1. Typed /\ PlayerStep => Typed'
  BY PlayerStepTyped, PlayerLeavesDecoder DEF Typed, DecoderInv, decoderVars
<1>2. Typed /\ DecoderStep => Typed'
  BY DecoderStepTyped DEF Typed
<1>3. Typed /\ (DmaInterrupt \/ ClientStep) => Typed'
  BY DmaInterruptTyped, ClientStepTyped DEF Typed, DecoderInv, decoderVars
<1>4. Typed /\ UNCHANGED vars => Typed'
  BY DEF Typed, DecoderInv, vars, serviceVars, runtimeVars, poolVars, commandVars, decoderVars,
     ServiceTypeOK, PoolTypeOK, PlayerTypeOK, DecoderTypeOK, RequestTypeOK
<1> QED
  BY <1>1, <1>2, <1>3, <1>4 DEF Next

\* Every variable keeps its type, and the decoder holds a block exactly while
\* it decodes into it.
LEMMA AlwaysTyped == Spec => []Typed
<1>1. Init => Typed
  BY InitTyped DEF Init, Typed, DecoderInv
<1> QED
  BY <1>1, NextTyped, PTL DEF Spec

\* Every variable of the application keeps its type.
THEOREM TypeCorrect == Spec => []TypeOK
<1>1. Typed => TypeOK
  BY DEF Typed
<1> QED
  BY <1>1, AlwaysTyped, PTL

-----------------------------------------------------------------------------
(* No block of the pool is lost or handed out twice.                       *)

AllPlaces(f, r, h) == f \o BlocksOf(r) \o (IF h = NoBlock THEN <<>> ELSE <<h>>)
Holds(h) == IF h = NoBlock THEN 0 ELSE 1

Partition(s) == /\ Len(s) = BlockCount
                /\ \A i, j \in 1 .. Len(s) : s[i] = s[j] => i = j

\* The elements of a concatenation, counted from where each part begins.
LEMMA ConcatAt ==
  ASSUME NEW a \in Seq(Blocks), NEW b \in Seq(Blocks)
  PROVE  /\ a \o b \in Seq(Blocks) /\ Len(a \o b) = Len(a) + Len(b)
         /\ \A i \in 1 .. Len(a) : (a \o b)[i] = a[i]
         /\ \A i \in 1 .. Len(b) : (a \o b)[Len(a) + i] = b[i]
<1>1. Len(a) \in Nat /\ Len(b) \in Nat
  BY LenProperties
<1>2. \A i \in 1 .. Len(a) + Len(b) : (a \o b)[i] = IF i <= Len(a) THEN a[i] ELSE b[i - Len(a)]
  BY ConcatProperties
<1> QED
  BY <1>1, <1>2, ConcatProperties

\* Where the i-th place of a pool is found.
LEMMA PlacesAt ==
  ASSUME NEW f \in Seq(Blocks), NEW r \in Seq(Filled), NEW h \in Blocks \cup {NoBlock}
  PROVE  /\ AllPlaces(f, r, h) \in Seq(Blocks)
         /\ Len(AllPlaces(f, r, h)) = Len(f) + Len(r) + Holds(h)
         /\ \A i \in 1 .. Len(f) : AllPlaces(f, r, h)[i] = f[i]
         /\ \A i \in 1 .. Len(r) : AllPlaces(f, r, h)[Len(f) + i] = r[i].block
         /\ h # NoBlock => AllPlaces(f, r, h)[Len(f) + Len(r) + 1] = h
<1> DEFINE B == BlocksOf(r)
           H == IF h = NoBlock THEN <<>> ELSE <<h>>
<1>1. /\ B \in Seq(Blocks) /\ Len(B) = Len(r)
      /\ \A i \in 1 .. Len(r) : B[i] = r[i].block
  BY BlocksOfTyped
<1>2. /\ H \in Seq(Blocks) /\ Len(H) = Holds(h)
      /\ h # NoBlock => H[1] = h /\ Len(H) = 1
  BY DEF Holds
<1>3. AllPlaces(f, r, h) = (f \o B) \o H
  BY DEF AllPlaces
<1> HIDE DEF B, H
<1>4. /\ f \o B \in Seq(Blocks) /\ Len(f \o B) = Len(f) + Len(B)
      /\ \A i \in 1 .. Len(f) : (f \o B)[i] = f[i]
      /\ \A i \in 1 .. Len(B) : (f \o B)[Len(f) + i] = B[i]
  BY <1>1, ConcatAt
<1>5. /\ (f \o B) \o H \in Seq(Blocks)
      /\ Len((f \o B) \o H) = Len(f \o B) + Len(H)
      /\ \A i \in 1 .. Len(f \o B) : ((f \o B) \o H)[i] = (f \o B)[i]
      /\ \A i \in 1 .. Len(H) : ((f \o B) \o H)[Len(f \o B) + i] = H[i]
  BY <1>2, <1>4, ConcatAt
<1>6. Len(f) \in Nat /\ Len(r) \in Nat
  BY LenProperties
<1>7. ASSUME NEW i \in 1 .. Len(r)
      PROVE  AllPlaces(f, r, h)[Len(f) + i] = r[i].block
  <2>1. Len(f) + i \in 1 .. Len(f \o B)
    BY <1>1, <1>4, <1>6
  <2> QED
    BY <1>1, <1>3, <1>4, <1>5, <2>1
<1>8. \A i \in 1 .. Len(f) : AllPlaces(f, r, h)[i] = f[i]
  BY <1>3, <1>4, <1>5, <1>6, <1>1
<1> QED
  BY <1>1, <1>2, <1>3, <1>4, <1>5, <1>6, <1>7, <1>8

\* The two cases of it.
LEMMA PlacesNone ==
  ASSUME NEW f \in Seq(Blocks), NEW r \in Seq(Filled)
  PROVE  /\ Len(AllPlaces(f, r, NoBlock)) = Len(f) + Len(r)
         /\ \A i \in 1 .. Len(f) : AllPlaces(f, r, NoBlock)[i] = f[i]
         /\ \A i \in 1 .. Len(r) : AllPlaces(f, r, NoBlock)[Len(f) + i] = r[i].block
<1>1. NoBlock \in Blocks \cup {NoBlock} /\ Holds(NoBlock) = 0
  BY DEF Holds
<1>2. Len(f) \in Nat /\ Len(r) \in Nat
  BY LenProperties
<1> HIDE DEF NoBlock
<1> QED
  BY <1>1, <1>2, PlacesAt

LEMMA PlacesHeld ==
  ASSUME NEW f \in Seq(Blocks), NEW r \in Seq(Filled), NEW h \in Blocks
  PROVE  /\ Len(AllPlaces(f, r, h)) = Len(f) + Len(r) + 1
         /\ \A i \in 1 .. Len(f) : AllPlaces(f, r, h)[i] = f[i]
         /\ \A i \in 1 .. Len(r) : AllPlaces(f, r, h)[Len(f) + i] = r[i].block
         /\ AllPlaces(f, r, h)[Len(f) + Len(r) + 1] = h
<1>1. h \in Blocks \cup {NoBlock} /\ h # NoBlock /\ Holds(h) = 1
  BY DEF Holds, Blocks
<1> HIDE DEF NoBlock
<1> QED
  BY <1>1, PlacesAt, SMTT(30)

\* A sequence whose i-th element is the p[i]-th of a partition, for an
\* injective p, is a partition.
LEMMA Rearranged ==
  ASSUME NEW s, NEW t, NEW n \in Nat, Partition(s), Len(s) = n, Len(t) = n,
         NEW p, \A i \in 1 .. n : p[i] \in 1 .. n,
         \A i, j \in 1 .. n : p[i] = p[j] => i = j,
         \A i \in 1 .. n : t[i] = s[p[i]]
  PROVE  Partition(t)
  BY DEF Partition

\* Places that did not change are a partition still.
LEMMA SamePlaces ==
  ASSUME NEW s, NEW t, Partition(s), Len(t) = Len(s), \A i \in 1 .. Len(s) : t[i] = s[i]
  PROVE  Partition(t)
  BY DEF Partition

\* The first k entries of the ready queue go back to the pool.
LEMMA ConsumeKeepsPool ==
  ASSUME NEW f \in Seq(Blocks), NEW r \in Seq(Filled), NEW h \in Blocks \cup {NoBlock},
         NEW k \in 0 .. Len(r), Partition(AllPlaces(f, r, h))
  PROVE  Partition(AllPlaces(f \o BlocksOf(SubSeq(r, 1, k)), SubSeq(r, k + 1, Len(r)), h))
<1> DEFINE a == SubSeq(r, 1, k)
           b == SubSeq(r, k + 1, Len(r))
           g == f \o BlocksOf(a)
<1>1. Len(f) \in Nat /\ Len(r) \in Nat /\ k \in Nat /\ Holds(h) \in Nat
  BY LenProperties DEF Holds
<1>2. /\ a \in Seq(Filled) /\ Len(a) = k /\ \A i \in 1 .. k : a[i] = r[i]
  BY <1>1, SubSeqProperties, ElementOfSeq
<1>3. /\ b \in Seq(Filled) /\ Len(b) = Len(r) - k
      /\ \A i \in 1 .. Len(r) - k : b[i] = r[k + i]
  BY <1>1, SubSeqProperties, ElementOfSeq
<1> HIDE DEF a, b
<1>4. /\ BlocksOf(a) \in Seq(Blocks) /\ Len(BlocksOf(a)) = k
      /\ \A i \in 1 .. k : BlocksOf(a)[i] = r[i].block
  BY <1>2, BlocksOfTyped
<1>5. /\ g \in Seq(Blocks) /\ Len(g) = Len(f) + k
      /\ \A i \in 1 .. Len(f) : g[i] = f[i]
      /\ \A i \in 1 .. k : g[Len(f) + i] = r[i].block
  BY <1>4, ConcatAt
<1> HIDE DEF g
<1> DEFINE s == AllPlaces(f, r, h)
           t == AllPlaces(g, b, h)
<1>6. /\ Len(s) = Len(f) + Len(r) + Holds(h)
      /\ \A i \in 1 .. Len(f) : s[i] = f[i]
      /\ \A i \in 1 .. Len(r) : s[Len(f) + i] = r[i].block
      /\ h # NoBlock => s[Len(f) + Len(r) + 1] = h
  BY PlacesAt
<1>7. /\ Len(t) = Len(f) + k + (Len(r) - k) + Holds(h)
      /\ \A i \in 1 .. Len(f) + k : t[i] = g[i]
      /\ \A i \in 1 .. Len(r) - k : t[Len(f) + k + i] = b[i].block
      /\ h # NoBlock => t[Len(f) + k + (Len(r) - k) + 1] = h
  <2>1. /\ Len(t) = Len(g) + Len(b) + Holds(h)
        /\ \A i \in 1 .. Len(g) : t[i] = g[i]
        /\ \A i \in 1 .. Len(b) : t[Len(g) + i] = b[i].block
        /\ h # NoBlock => t[Len(g) + Len(b) + 1] = h
    BY <1>3, <1>5, PlacesAt, ZenonT(30)
  <2> QED
    BY <2>1, <1>3, <1>5
<1> HIDE DEF s, t
<1>8. ASSUME NEW i \in 1 .. Len(s)
      PROVE  t[i] = s[i]
  <2>1. CASE i <= Len(f)
    BY <2>1, <1>1, <1>5, <1>6, <1>7
  <2>2. CASE i > Len(f) /\ i <= Len(f) + k
    <3> DEFINE j == i - Len(f)
    <3>1. j \in 1 .. k /\ j \in 1 .. Len(r) /\ i = Len(f) + j /\ i \in 1 .. Len(f) + k
      BY <2>2, <1>1, <1>6
    <3> HIDE DEF j
    <3>2. s[i] = r[j].block
      BY <3>1, <1>6
    <3>3. t[i] = r[j].block
      BY <3>1, <1>5, <1>7
    <3> QED
      BY <3>2, <3>3
  <2>3. CASE i > Len(f) + k /\ i <= Len(f) + Len(r)
    <3> DEFINE j == i - (Len(f) + k)
    <3>1. /\ j \in 1 .. Len(r) - k /\ i = Len(f) + k + j
          /\ k + j \in 1 .. Len(r) /\ i = Len(f) + (k + j)
      BY <2>3, <1>1, <1>6
    <3> HIDE DEF j
    <3>2. s[i] = r[k + j].block
      BY <3>1, <1>6
    <3>3. t[i] = b[j].block /\ b[j] = r[k + j]
      BY <3>1, <1>3, <1>7
    <3> QED
      BY <3>2, <3>3
  <2>4. CASE i > Len(f) + Len(r)
    <3>1. h # NoBlock /\ i = Len(f) + Len(r) + 1
      BY <2>4, <1>1, <1>6 DEF Holds
    <3> QED
      BY <3>1, <1>1, <1>6, <1>7
  <2> QED
    BY <2>1, <2>2, <2>3, <2>4, <1>1, <1>6
<1>9. Len(t) = Len(s)
  BY <1>1, <1>6, <1>7
<1> QED
  BY <1>8, <1>9, SamePlaces DEF s, t, g, a, b

\* The decoder takes the first free block...
LEMMA TakeKeepsPool ==
  ASSUME NEW f \in Seq(Blocks), NEW r \in Seq(Filled), f # <<>>,
         Partition(AllPlaces(f, r, NoBlock))
  PROVE  Partition(AllPlaces(Tail(f), r, Head(f)))
<1> DEFINE s == AllPlaces(f, r, NoBlock)
           t == AllPlaces(Tail(f), r, Head(f))
           n == Len(f) + Len(r)
           p == [i \in 1 .. n |-> IF i = n THEN 1 ELSE i + 1]
<1>1. /\ Head(f) \in Blocks /\ Tail(f) \in Seq(Blocks) /\ Len(Tail(f)) = Len(f) - 1
      /\ \A i \in 1 .. Len(Tail(f)) : Tail(f)[i] = f[i + 1]
      /\ Head(f) = f[1]
  BY HeadTailProperties
<1>2. Len(f) \in Nat \ {0} /\ Len(r) \in Nat /\ Head(f) # NoBlock
  BY <1>1, LenProperties, EmptySeq DEF Blocks
<1>3. /\ Len(s) = n
      /\ \A i \in 1 .. Len(f) : s[i] = f[i]
      /\ \A i \in 1 .. Len(r) : s[Len(f) + i] = r[i].block
  BY PlacesNone
<1>4. /\ Len(t) = n
      /\ \A i \in 1 .. Len(f) - 1 : t[i] = f[i + 1]
      /\ \A i \in 1 .. Len(r) : t[Len(f) - 1 + i] = r[i].block
      /\ t[n] = f[1]
  <2>1. /\ Len(t) = Len(Tail(f)) + Len(r) + 1
        /\ \A i \in 1 .. Len(Tail(f)) : t[i] = Tail(f)[i]
        /\ \A i \in 1 .. Len(r) : t[Len(Tail(f)) + i] = r[i].block
        /\ t[Len(Tail(f)) + Len(r) + 1] = Head(f)
    BY <1>1, PlacesHeld
  <2> QED
    BY <2>1, <1>1, <1>2
<1> HIDE DEF s, t
<1>5. ASSUME NEW i \in 1 .. n
      PROVE  t[i] = s[p[i]]
  <2>1. CASE i < Len(f)
    <3>1. p[i] = i + 1 /\ i \in 1 .. Len(f) - 1 /\ i + 1 \in 1 .. Len(f)
      BY <2>1, <1>2
    <3> QED
      BY <3>1, <1>3, <1>4
  <2>2. CASE i >= Len(f) /\ i < n
    <3> DEFINE j == i - (Len(f) - 1)
    <3>1. j \in 1 .. Len(r) /\ i = Len(f) - 1 + j /\ p[i] = Len(f) + j
      BY <2>2, <1>2
    <3> HIDE DEF j
    <3> QED
      BY <3>1, <1>3, <1>4
  <2>3. CASE i = n
    <3>1. p[i] = 1 /\ 1 \in 1 .. Len(f)
      BY <2>3, <1>2
    <3> QED
      BY <3>1, <2>3, <1>3, <1>4
  <2> QED
    BY <2>1, <2>2, <2>3, <1>2
<1>6. /\ (\A i \in 1 .. n : p[i] \in 1 .. n) /\ n \in Nat
      /\ \A i, j \in 1 .. n : p[i] = p[j] => i = j
  BY <1>2
<1> QED
  <2>1. Len(s) = n /\ Len(t) = n /\ Partition(s)
    BY <1>3, <1>4 DEF s
  <2> HIDE DEF n, p
  <2>2. Partition(t)
    BY <2>1, <1>5, <1>6, Rearranged, SMTT(30)
  <2> QED
    BY <2>2 DEF t

\* ... fills it and appends it to the ready queue...
LEMMA FillKeepsPool ==
  ASSUME NEW f \in Seq(Blocks), NEW r \in Seq(Filled), NEW h \in Blocks,
         NEW e \in Filled, e.block = h, Partition(AllPlaces(f, r, h))
  PROVE  Partition(AllPlaces(f, Append(r, e), NoBlock))
<1> DEFINE s == AllPlaces(f, r, h)
           t == AllPlaces(f, Append(r, e), NoBlock)
<1>1. Len(f) \in Nat /\ Len(r) \in Nat /\ h # NoBlock
  BY LenProperties DEF Blocks
<1>2. /\ Append(r, e) \in Seq(Filled) /\ Len(Append(r, e)) = Len(r) + 1
      /\ \A i \in 1 .. Len(r) : Append(r, e)[i] = r[i]
      /\ Append(r, e)[Len(r) + 1] = e
  OBVIOUS
<1>3. /\ Len(s) = Len(f) + Len(r) + 1
      /\ \A i \in 1 .. Len(f) : s[i] = f[i]
      /\ \A i \in 1 .. Len(r) : s[Len(f) + i] = r[i].block
      /\ s[Len(f) + Len(r) + 1] = h
  BY PlacesHeld
<1>4. /\ Len(t) = Len(f) + (Len(r) + 1)
      /\ \A i \in 1 .. Len(f) : t[i] = f[i]
      /\ \A i \in 1 .. Len(r) + 1 : t[Len(f) + i] = Append(r, e)[i].block
  <2>1. /\ Len(t) = Len(f) + Len(Append(r, e))
        /\ \A i \in 1 .. Len(f) : t[i] = f[i]
        /\ \A i \in 1 .. Len(Append(r, e)) : t[Len(f) + i] = Append(r, e)[i].block
    BY <1>2, PlacesNone
  <2> QED
    BY <2>1, <1>1, <1>2
<1> HIDE DEF s, t
<1>5. ASSUME NEW i \in 1 .. Len(s)
      PROVE  t[i] = s[i]
  <2>1. CASE i <= Len(f)
    BY <2>1, <1>1, <1>3, <1>4
  <2>2. CASE i > Len(f)
    <3> DEFINE j == i - Len(f)
    <3>1. j \in 1 .. Len(r) + 1 /\ i = Len(f) + j
      BY <2>2, <1>1, <1>3
    <3> HIDE DEF j
    <3>2. t[i] = Append(r, e)[j].block
      BY <3>1, <1>4
    <3>3. CASE j = Len(r) + 1
      BY <3>1, <3>2, <3>3, <1>1, <1>2, <1>3
    <3>4. CASE j # Len(r) + 1
      <4>1. j \in 1 .. Len(r)
        BY <3>1, <3>4, <1>1
      <4> QED
        BY <4>1, <3>1, <3>2, <1>2, <1>3
    <3> QED
      BY <3>3, <3>4
  <2> QED
    BY <2>1, <2>2, <1>1, <1>3
<1> QED
  BY <1>1, <1>3, <1>4, <1>5, SamePlaces DEF s, t

\* ... or gives it back unused.
LEMMA ReturnKeepsPool ==
  ASSUME NEW f \in Seq(Blocks), NEW r \in Seq(Filled), NEW h \in Blocks,
         Partition(AllPlaces(f, r, h))
  PROVE  Partition(AllPlaces(Append(f, h), r, NoBlock))
<1> DEFINE s == AllPlaces(f, r, h)
           t == AllPlaces(Append(f, h), r, NoBlock)
           n == Len(f) + Len(r) + 1
           p == [i \in 1 .. n |-> IF i <= Len(f) THEN i ELSE IF i = Len(f) + 1 THEN n ELSE i - 1]
<1>1. Len(f) \in Nat /\ Len(r) \in Nat /\ h # NoBlock
  BY LenProperties DEF Blocks
<1>2. /\ Append(f, h) \in Seq(Blocks) /\ Len(Append(f, h)) = Len(f) + 1
      /\ \A i \in 1 .. Len(f) : Append(f, h)[i] = f[i]
      /\ Append(f, h)[Len(f) + 1] = h
  OBVIOUS
<1>3. /\ Len(s) = n
      /\ \A i \in 1 .. Len(f) : s[i] = f[i]
      /\ \A i \in 1 .. Len(r) : s[Len(f) + i] = r[i].block
      /\ s[n] = h
  BY PlacesHeld
<1>4. /\ Len(t) = n
      /\ \A i \in 1 .. Len(f) : t[i] = f[i]
      /\ t[Len(f) + 1] = h
      /\ \A i \in 1 .. Len(r) : t[Len(f) + 1 + i] = r[i].block
  <2>1. /\ Len(t) = Len(Append(f, h)) + Len(r)
        /\ \A i \in 1 .. Len(Append(f, h)) : t[i] = Append(f, h)[i]
        /\ \A i \in 1 .. Len(r) : t[Len(Append(f, h)) + i] = r[i].block
    BY <1>2, PlacesNone
  <2> HIDE DEF t
  <2>2. Len(f) + 1 \in 1 .. Len(Append(f, h)) /\ (\A i \in 1 .. Len(f) : i \in 1 .. Len(Append(f, h)))
    BY <1>1, <1>2
  <2>3. Len(t) = n /\ t[Len(f) + 1] = h /\ \A i \in 1 .. Len(f) : t[i] = f[i]
    BY <2>1, <2>2, <1>1, <1>2
  <2>4. \A i \in 1 .. Len(r) : t[Len(f) + 1 + i] = r[i].block
    BY <2>1, <1>2
  <2> QED
    BY <2>3, <2>4
<1> HIDE DEF s, t
<1>5. ASSUME NEW i \in 1 .. n
      PROVE  t[i] = s[p[i]]
  <2>1. CASE i <= Len(f)
    BY <2>1, <1>1, <1>3, <1>4
  <2>2. CASE i = Len(f) + 1
    BY <2>2, <1>1, <1>3, <1>4
  <2>3. CASE i > Len(f) + 1
    <3> DEFINE j == i - (Len(f) + 1)
    <3>1. j \in 1 .. Len(r) /\ i = Len(f) + 1 + j /\ p[i] = Len(f) + j
      BY <2>3, <1>1
    <3> HIDE DEF j
    <3> QED
      BY <3>1, <1>3, <1>4
  <2> QED
    BY <2>1, <2>2, <2>3, <1>1
<1>6. /\ (\A i \in 1 .. n : p[i] \in 1 .. n) /\ n \in Nat
      /\ \A i, j \in 1 .. n : p[i] = p[j] => i = j
  BY <1>1
<1> QED
  <2>1. Len(s) = n /\ Len(t) = n /\ Partition(s)
    BY <1>3, <1>4 DEF s
  <2> HIDE DEF n, p
  <2>2. Partition(t)
    BY <2>1, <1>5, <1>6, Rearranged, SMTT(30)
  <2> QED
    BY <2>2 DEF t

\* The player keeps the k-th entry, the only one of its session, and gives the
\* others back.
LEMMA PutBackKeepsPool ==
  ASSUME NEW f \in Seq(Blocks), NEW r \in Seq(Filled), NEW h \in Blocks \cup {NoBlock},
         NEW k \in 1 .. Len(r), Partition(AllPlaces(f, r, h))
  PROVE  Partition(AllPlaces(f \o BlocksOf(SubSeq(r, 1, k - 1))
                               \o BlocksOf(SubSeq(r, k + 1, Len(r))), <<r[k]>>, h))
<1> DEFINE a == SubSeq(r, 1, k - 1)
           b == SubSeq(r, k + 1, Len(r))
           g == (f \o BlocksOf(a)) \o BlocksOf(b)
           e == <<r[k]>>
<1>1. /\ Len(f) \in Nat /\ Len(r) \in Nat \ {0} /\ k \in Nat /\ k >= 1 /\ k <= Len(r)
      /\ Holds(h) \in {0, 1} /\ (h = NoBlock <=> Holds(h) = 0)
  BY LenProperties DEF Holds
<1>2. /\ a \in Seq(Filled) /\ Len(a) = k - 1 /\ \A i \in 1 .. k - 1 : a[i] = r[i]
  BY <1>1, SubSeqProperties, ElementOfSeq
<1>3. /\ b \in Seq(Filled) /\ Len(b) = Len(r) - k
      /\ \A i \in 1 .. Len(r) - k : b[i] = r[k + i]
  BY <1>1, SubSeqProperties, ElementOfSeq
<1>4. e \in Seq(Filled) /\ Len(e) = 1 /\ e[1] = r[k]
  BY <1>1, ElementOfSeq
<1> HIDE DEF a, b, e
<1>5. /\ BlocksOf(a) \in Seq(Blocks) /\ Len(BlocksOf(a)) = k - 1
      /\ \A i \in 1 .. k - 1 : BlocksOf(a)[i] = r[i].block
  BY <1>2, BlocksOfTyped
<1>6. /\ BlocksOf(b) \in Seq(Blocks) /\ Len(BlocksOf(b)) = Len(r) - k
      /\ \A i \in 1 .. Len(r) - k : BlocksOf(b)[i] = r[k + i].block
  BY <1>3, BlocksOfTyped
<1> DEFINE fa == f \o BlocksOf(a)
<1>7. /\ fa \in Seq(Blocks) /\ Len(fa) = Len(f) + (k - 1)
      /\ \A i \in 1 .. Len(f) : fa[i] = f[i]
      /\ \A i \in 1 .. k - 1 : fa[Len(f) + i] = r[i].block
  <2> DEFINE B == BlocksOf(a)
  <2>1. B \in Seq(Blocks) /\ Len(B) = k - 1 /\ \A i \in 1 .. k - 1 : B[i] = r[i].block
    BY <1>5
  <2> HIDE DEF B
  <2>2. /\ f \o B \in Seq(Blocks) /\ Len(f \o B) = Len(f) + Len(B)
        /\ \A i \in 1 .. Len(f) : (f \o B)[i] = f[i]
        /\ \A i \in 1 .. Len(B) : (f \o B)[Len(f) + i] = B[i]
    BY <2>1, ConcatAt
  <2>3. fa = f \o B
    BY DEF B
  <2> HIDE DEF fa
  <2> QED
    BY <2>1, <2>2, <2>3
<1> HIDE DEF fa
<1>8. /\ g \in Seq(Blocks) /\ Len(g) = Len(f) + (k - 1) + (Len(r) - k)
      /\ \A i \in 1 .. Len(f) + (k - 1) : g[i] = fa[i]
      /\ \A i \in 1 .. Len(r) - k : g[Len(f) + (k - 1) + i] = r[k + i].block
  <2>1. g = fa \o BlocksOf(b)
    BY DEF fa
  <2>2. /\ fa \o BlocksOf(b) \in Seq(Blocks)
        /\ Len(fa \o BlocksOf(b)) = Len(fa) + Len(BlocksOf(b))
        /\ \A i \in 1 .. Len(fa) : (fa \o BlocksOf(b))[i] = fa[i]
        /\ \A i \in 1 .. Len(BlocksOf(b)) : (fa \o BlocksOf(b))[Len(fa) + i] = BlocksOf(b)[i]
    BY <1>6, <1>7, ConcatAt
  <2> HIDE DEF g
  <2> QED
    BY <2>1, <2>2, <1>6, <1>7
<1> HIDE DEF g
<1> DEFINE s == AllPlaces(f, r, h)
           t == AllPlaces(g, e, h)
           n == Len(f) + Len(r) + Holds(h)
<1>9. /\ Len(s) = n
      /\ \A i \in 1 .. Len(f) : s[i] = f[i]
      /\ \A i \in 1 .. Len(r) : s[Len(f) + i] = r[i].block
      /\ h # NoBlock => s[Len(f) + Len(r) + 1] = h
  BY PlacesAt
<1>10. /\ Len(t) = Len(g) + 1 + Holds(h)
       /\ \A i \in 1 .. Len(g) : t[i] = g[i]
       /\ t[Len(g) + 1] = r[k].block
       /\ h # NoBlock => t[Len(g) + 1 + 1] = h
  <2>1. /\ Len(t) = Len(g) + Len(e) + Holds(h)
        /\ \A i \in 1 .. Len(g) : t[i] = g[i]
        /\ \A i \in 1 .. Len(e) : t[Len(g) + i] = e[i].block
        /\ h # NoBlock => t[Len(g) + Len(e) + 1] = h
    BY <1>4, <1>8, PlacesAt, ZenonT(30)
  <2>2. 1 \in 1 .. Len(e)
    BY <1>4
  <2> QED
    BY <2>1, <2>2, <1>4
<1>11. Len(g) + 1 = Len(f) + Len(r) /\ Len(t) = n
  BY <1>1, <1>8, <1>10
<1> HIDE DEF s, t
<1> DEFINE p == [i \in 1 .. n |-> IF i < Len(f) + k \/ i > Len(f) + Len(r) THEN i
                                  ELSE IF i = Len(f) + Len(r) THEN Len(f) + k ELSE i + 1]
<1>12. ASSUME NEW i \in 1 .. n
       PROVE  t[i] = s[p[i]]
  <2>1. CASE i <= Len(f)
    <3>1. p[i] = i /\ i \in 1 .. Len(f) /\ i \in 1 .. Len(f) + (k - 1) /\ i \in 1 .. Len(g)
      BY <2>1, <1>1, <1>8
    <3>2. t[i] = f[i]
      BY <3>1, <1>7, <1>8, <1>10
    <3> QED
      BY <3>1, <3>2, <1>9
  <2>2. CASE i > Len(f) /\ i < Len(f) + k
    <3> DEFINE j == i - Len(f)
    <3>1. /\ p[i] = i /\ i = Len(f) + j /\ j \in 1 .. k - 1 /\ j \in 1 .. Len(r)
          /\ i \in 1 .. Len(f) + (k - 1) /\ i \in 1 .. Len(g)
      BY <2>2, <1>1, <1>8
    <3> HIDE DEF j
    <3>2. t[i] = r[j].block
      BY <3>1, <1>7, <1>8, <1>10
    <3> QED
      BY <3>1, <3>2, <1>9
  <2>3. CASE i >= Len(f) + k /\ i < Len(f) + Len(r)
    <3> DEFINE j == i - (Len(f) + (k - 1))
    <3>1. /\ p[i] = Len(f) + (k + j) /\ i = Len(f) + (k - 1) + j
          /\ j \in 1 .. Len(r) - k /\ k + j \in 1 .. Len(r) /\ i \in 1 .. Len(g)
      BY <2>3, <1>1, <1>8
    <3> HIDE DEF j
    <3>2. t[i] = r[k + j].block
      BY <3>1, <1>8, <1>10
    <3> QED
      BY <3>1, <3>2, <1>9
  <2>4. CASE i = Len(f) + Len(r)
    <3>1. p[i] = Len(f) + k /\ k \in 1 .. Len(r) /\ i = Len(g) + 1
      BY <2>4, <1>1, <1>11
    <3> QED
      BY <3>1, <1>9, <1>10
  <2>5. CASE i > Len(f) + Len(r)
    <3>1. h # NoBlock /\ i = Len(f) + Len(r) + 1 /\ p[i] = i
      BY <2>5, <1>1
    <3>2. t[i] = h
      BY <3>1, <1>10, <1>11
    <3> QED
      BY <3>1, <3>2, <1>9
  <2> QED
    BY <2>1, <2>2, <2>3, <2>4, <2>5, <1>1
<1>13. /\ (\A i \in 1 .. n : p[i] \in 1 .. n) /\ n \in Nat
       /\ \A i, j \in 1 .. n : p[i] = p[j] => i = j
  <2>1. PICK lo \in Nat, up \in Nat : lo = Len(f) /\ up = Len(r)
    BY <1>1
  <2>2. PICK m \in Nat : m = n
    BY <1>1
  <2>3. lo + up <= m /\ k \in 1 .. up
    BY <1>1, <2>1, <2>2
  <2>4. \A i \in 1 .. m : p[i] = IF i < lo + k \/ i > lo + up THEN i
                               ELSE IF i = lo + up THEN lo + k ELSE i + 1
    BY <2>1, <2>2
  <2> HIDE DEF p, n
  <2>5. ASSUME NEW i \in 1 .. m
        PROVE  /\ p[i] \in 1 .. m
               /\ i < lo + k \/ i > lo + up => p[i] = i
               /\ i = lo + up => p[i] = lo + k
               /\ i >= lo + k /\ i < lo + up => p[i] = i + 1
    BY <2>3, <2>4
  <2>6. ASSUME NEW i \in 1 .. m, NEW j \in 1 .. m, p[i] = p[j]
        PROVE  i = j
    <3>1. PICK u \in Nat, v \in Nat : u = p[i] /\ v = p[j] /\ u = v
      BY <2>5, <2>6
    <3>2. /\ i < lo + k \/ i > lo + up => u = i
          /\ i = lo + up => u = lo + k
          /\ i >= lo + k /\ i < lo + up => u = i + 1
      BY <2>5, <3>1
    <3>3. /\ j < lo + k \/ j > lo + up => v = j
          /\ j = lo + up => v = lo + k
          /\ j >= lo + k /\ j < lo + up => v = j + 1
      BY <2>5, <3>1
    <3> QED
      <4>1. lo \in Nat /\ up \in Nat /\ k \in 1 .. up /\ i \in Nat /\ j \in Nat /\ u = v
        BY <2>1, <2>2, <2>3, <3>1
      <4> HIDE DEF p
      <4> QED
        BY <4>1, <3>2, <3>3, SMTT(30)
  <2> QED
    BY <2>2, <2>5, <2>6
<1> QED
  <2>1. Len(s) = n /\ Len(t) = n /\ Partition(s)
    BY <1>9, <1>11 DEF s
  <2> HIDE DEF n, p
  <2>2. Partition(t)
    BY <2>1, <1>12, <1>13, Rearranged, SMTT(30)
  <2> QED
    BY <2>2 DEF t, g, fa, a, b, e

-----------------------------------------------------------------------------
(* Every step moves blocks in one of these ways.                           *)

\* What the steps of the player do to the pool.
PoolMove ==
  \/ UNCHANGED poolVars
  \/ \E k \in 0 .. Len(ready_queue) : ConsumeReady(k)
  \/ \E k \in 1 .. Len(ready_queue) :
       /\ free_queue' = free_queue \o BlocksOf(SubSeq(ready_queue, 1, k - 1))
                           \o BlocksOf(SubSeq(ready_queue, k + 1, Len(ready_queue)))
       /\ ready_queue' = <<ready_queue[k]>>
       /\ UNCHANGED held

LEMMA FlushMoves == PoolTypeOK /\ ReadyQueueFlush => PoolMove
<1> SUFFICES ASSUME PoolTypeOK, ReadyQueueFlush
             PROVE  PoolMove
  OBVIOUS
<1>1. ready_queue \in Seq(Filled) /\ Len(ready_queue) \in Nat
  BY DEF PoolTypeOK
<1>2. SubSeq(ready_queue, 1, Len(ready_queue)) = ready_queue
  BY <1>1
<1>3. SubSeq(ready_queue, Len(ready_queue) + 1, Len(ready_queue)) = <<>>
  BY <1>1
<1>4. ConsumeReady(Len(ready_queue))
  BY <1>2, <1>3 DEF ConsumeReady, ReadyQueueFlush
<1> QED
  BY <1>1, <1>4 DEF PoolMove

LEMMA PoolMoveKeepsPool == PoolTypeOK /\ PoolPartition /\ PoolMove => PoolPartition'
<1> SUFFICES ASSUME PoolTypeOK, PoolPartition, PoolMove
             PROVE  PoolPartition'
  OBVIOUS
<1>1. Partition(AllPlaces(free_queue, ready_queue, held))
  BY DEF PoolPartition, Places, Partition, AllPlaces
<1>2. Partition(AllPlaces(free_queue', ready_queue', held'))
  <2>1. CASE UNCHANGED poolVars
    BY <1>1, <2>1 DEF poolVars
  <2>2. ASSUME NEW k \in 0 .. Len(ready_queue), ConsumeReady(k)
        PROVE  Partition(AllPlaces(free_queue', ready_queue', held'))
    BY <1>1, <2>2, ConsumeKeepsPool DEF PoolTypeOK, ConsumeReady
  <2>3. ASSUME NEW k \in 1 .. Len(ready_queue),
               free_queue' = free_queue \o BlocksOf(SubSeq(ready_queue, 1, k - 1))
                               \o BlocksOf(SubSeq(ready_queue, k + 1, Len(ready_queue))),
               ready_queue' = <<ready_queue[k]>>, UNCHANGED held
        PROVE  Partition(AllPlaces(free_queue', ready_queue', held'))
    BY <1>1, <2>3, PutBackKeepsPool DEF PoolTypeOK
  <2> QED
    BY <2>1, <2>2, <2>3 DEF PoolMove
<1> QED
  BY <1>2 DEF PoolPartition, Places, Partition, AllPlaces

LEMMA PlayerMoves == TypeOK /\ PlayerStep => PoolMove
<1> SUFFICES ASSUME TypeOK, PlayerStep
             PROVE  PoolMove
  OBVIOUS
<1>1. Len(ready_queue) \in Nat /\ (ReadyQueueFlush => PoolMove)
  BY FlushMoves DEF PoolTypeOK
<1>2. CASE PlayerInit \/ WarmupEnd \/ PlayerWake \/ CommandsDone \/ VoiceProcess
  BY <1>2 DEF PlayerInit, WarmupEnd, PlayerWake, CommandsDone, VoiceProcess, PoolMove
<1>3. CASE CommandHandle
  BY <1>1, <1>3 DEF CommandHandle, Mp3RequestHandle, StopHandle, EmergencyEnter, EmergencyLeave,
     PlayerStop, PoolMove
<1>4. CASE DecodeEvents \/ FinishCheck
  BY <1>1, <1>4 DEF DecodeEvents, FinishCheck, PlayerStop, PoolMove
<1>5. CASE PrebufferCheck
  <2>1. \A k1 \in 1 .. Len(ready_queue), k2 \in 0 .. Len(ready_queue) :
          Start(k1, k2) => PoolMove
    <3> TAKE k1 \in 1 .. Len(ready_queue), k2 \in 0 .. Len(ready_queue)
    <3> DEFINE k == IF k2 # 0 THEN k2 ELSE Len(ready_queue)
    <3>1. Start(k1, k2) => ConsumeReady(k) \/ ReadyQueueFlush
      BY DEF Start
    <3>2. k \in 0 .. Len(ready_queue)
      BY <1>1
    <3> HIDE DEF k
    <3> QED
      BY <1>1, <3>1, <3>2 DEF PoolMove
  <2>2. CASE StartIfReady
    <3>1. CASE \E k1, k2 \in 1 .. Len(ready_queue) :
                 Takes(k1, 1) /\ Takes(k2, k1 + 1) /\ Start(k1, k2)
      BY <1>1, <2>1, <3>1
    <3>2. CASE \E k1 \in 1 .. Len(ready_queue) : Start(k1, 0)
      BY <1>1, <2>1, <3>2
    <3>3. CASE ReadyQueueFlush
      BY <1>1, <3>3
    <3>4. CASE \E k \in 1 .. Len(ready_queue) :
                 /\ free_queue' = free_queue \o BlocksOf(SubSeq(ready_queue, 1, k - 1))
                                     \o BlocksOf(SubSeq(ready_queue, k + 1, Len(ready_queue)))
                 /\ ready_queue' = <<ready_queue[k]>>
                 /\ UNCHANGED held
      BY <3>4 DEF PoolMove
    <3> QED
      BY <2>2, <3>1, <3>2, <3>3, <3>4 DEF StartIfReady
  <2> QED
    BY <1>5, <2>2 DEF PrebufferCheck, PoolMove
<1>6. CASE RefillHalf \/ RefillFull
  <2>1. \A h : Refill(h) => PoolMove
    <3>1. \A k \in 1 .. Len(ready_queue) : k \in 0 .. Len(ready_queue)
      BY <1>1
    <3>2. \A h : Refill(h) => ReadyQueueFlush \/ \E k \in 1 .. Len(ready_queue) : ConsumeReady(k)
      BY DEF Refill
    <3> QED
      BY <1>1, <3>1, <3>2 DEF PoolMove
  <2> QED
    BY <1>6, <2>1 DEF RefillHalf, RefillFull, RefillStep, PoolMove
<1> QED
  BY <1>2, <1>3, <1>4, <1>5, <1>6 DEF PlayerStep

LEMMA DecoderKeepsPool == Typed /\ PoolPartition /\ DecoderStep => PoolPartition'
<1> SUFFICES ASSUME Typed, PoolPartition, DecoderStep
             PROVE  PoolPartition'
  OBVIOUS
<1>1. Partition(AllPlaces(free_queue, ready_queue, held)) /\ PoolTypeOK
  BY DEF PoolPartition, Places, Partition, AllPlaces, Typed
<1>2. Partition(AllPlaces(free_queue', ready_queue', held'))
  <2>1. CASE UNCHANGED poolVars
    BY <1>1, <2>1 DEF poolVars
  <2>2. CASE DecoderTake /\ free_queue # <<>>
    <3>1. held = NoBlock
      BY <2>2 DEF DecoderTake, Typed, DecoderInv
    <3> QED
      BY <1>1, <2>2, <3>1, TakeKeepsPool DEF DecoderTake, PoolTypeOK
  <2>3. CASE DecodeFrame
    <3> DEFINE e == [block |-> held, session |-> decoding.session, frame |-> decoding.frame + 1]
    <3>1. held \in Blocks
      BY <1>1, <2>3 DEF DecodeFrame, Typed, DecoderInv, PoolTypeOK
    <3>2. decoding.session \in Sessions /\ decoding.frame + 1 \in 1 .. FrameLimit
      BY <2>3, PoolAssumption DEF DecodeFrame, Typed, DecoderInv, DecoderTypeOK
    <3>3. e \in Filled /\ e.block = held
      BY <3>1, <3>2 DEF Filled
    <3>4. free_queue' = free_queue /\ ready_queue' = Append(ready_queue, e) /\ held' = NoBlock
      BY <2>3 DEF DecodeFrame
    <3> HIDE DEF e, NoBlock
    <3> QED
      BY <1>1, <3>1, <3>3, <3>4, FillKeepsPool DEF PoolTypeOK
  <2>4. CASE DecodeNothing
    <3>1. held \in Blocks
      BY <1>1, <2>4 DEF DecodeNothing, Typed, DecoderInv, PoolTypeOK
    <3>2. /\ free_queue' = Append(free_queue, held) /\ ready_queue' = ready_queue
          /\ held' = NoBlock
      BY <2>4 DEF DecodeNothing
    <3> HIDE DEF NoBlock
    <3> QED
      BY <1>1, <3>1, <3>2, ReturnKeepsPool DEF PoolTypeOK
  <2>5. \/ UNCHANGED poolVars
        \/ DecoderTake /\ free_queue # <<>>
        \/ DecodeFrame
        \/ DecodeNothing
    <3>1. DecoderTake => free_queue # <<>> \/ UNCHANGED poolVars
      BY DEF DecoderTake, poolVars
    <3>2. DecoderReceive \/ DecoderOpen \/ DecoderCheckStop \/ DecoderDelay \/ DecoderPost
            \/ DecoderClose => UNCHANGED poolVars
      BY DEF DecoderReceive, DecoderOpen, DecoderCheckStop, DecoderDelay, DecoderPost, DecoderClose
    <3> QED
      BY <3>1, <3>2 DEF DecoderStep
  <2> QED
    BY <2>1, <2>2, <2>3, <2>4, <2>5
<1> QED
  BY <1>2 DEF PoolPartition, Places, Partition, AllPlaces

LEMMA InitPartition == Init => PoolPartition
<1> SUFFICES ASSUME Init
             PROVE  PoolPartition
  OBVIOUS
<1> DEFINE f == [i \in Blocks |-> i]
<1>1. /\ free_queue = f /\ ready_queue = <<>> /\ held = NoBlock
      /\ f \in Seq(Blocks) /\ Len(f) = BlockCount /\ \A i \in 1 .. BlockCount : f[i] = i
  BY PoolAssumption DEF Init, Blocks
<1>2. <<>> \in Seq(Filled) /\ Len(<<>>) = 0
  OBVIOUS
<1> HIDE DEF f, NoBlock
<1>3. /\ Len(AllPlaces(f, <<>>, NoBlock)) = BlockCount
      /\ \A i \in 1 .. BlockCount : AllPlaces(f, <<>>, NoBlock)[i] = i
  <2>1. /\ Len(AllPlaces(f, <<>>, NoBlock)) = Len(f) + Len(<<>>)
        /\ \A i \in 1 .. Len(f) : AllPlaces(f, <<>>, NoBlock)[i] = f[i]
    BY <1>1, <1>2, PlacesNone
  <2> QED
    BY <1>1, <1>2, <2>1, PoolAssumption
<1>4. Places = AllPlaces(f, <<>>, NoBlock)
  BY <1>1 DEF Places, AllPlaces
<1> QED
  BY <1>3, <1>4 DEF PoolPartition

\* No block of the pool is lost or handed out twice, whichever of the two tasks
\* moves it and however often sessions are stopped, flushed or requeued.
THEOREM PoolSafe == Spec => []PoolPartition
<1>1. Typed /\ PoolPartition /\ PlayerStep => PoolPartition'
  BY PlayerMoves, PoolMoveKeepsPool DEF Typed
<1>2. Typed /\ PoolPartition /\ (DmaInterrupt \/ ClientStep \/ UNCHANGED vars) => PoolPartition'
  BY DEF DmaInterrupt, ClientStep, vars, poolVars, PoolPartition, Places
<1>3. Typed /\ PoolPartition /\ [Next]_vars => PoolPartition'
  BY <1>1, <1>2, DecoderKeepsPool DEF Next
<1> QED
  BY <1>3, InitPartition, AlwaysTyped, PTL DEF Spec

-----------------------------------------------------------------------------
(* The DMA stream runs exactly while the service plays, and plays nothing  *)
(* of another session.                                                     *)

\* Before the player task has started the service is idle and its buffer
\* silent; without this the warm-up could start beside old samples.
OutputInv ==
  /\ StreamOwned
  /\ DmaHoldsCurrentSession
  /\ player_pc = "START" => state = "IDLE" /\ half = Silent

LEMMA ServiceStopKeepsOutput ==
  ASSUME StreamOwned, ServiceStop
  PROVE  StreamOwned' /\ DmaHoldsCurrentSession'
<1>1. state' = "IDLE" /\ ~stream'
  BY DEF ServiceStop, StreamStop, StreamOwned
<1> QED
  BY <1>1 DEF StreamOwned, DmaHoldsCurrentSession

LEMMA CommandKeepsOutput ==
  ASSUME TypeOK, OutputInv, CommandHandle
  PROVE  StreamOwned' /\ DmaHoldsCurrentSession'
<1>1. CASE Mp3RequestHandle
  <2>1. CASE UNCHANGED serviceVars
    BY <2>1 DEF OutputInv, StreamOwned, DmaHoldsCurrentSession, serviceVars
  <2>2. CASE ~UNCHANGED serviceVars
    <3>1. state = "IDLE" /\ state' \in {"IDLE", "PREPARING"} /\ (UNCHANGED stream \/ StreamStop)
      BY <1>1, <2>2 DEF Mp3RequestHandle
    <3> QED
      BY <3>1 DEF OutputInv, StreamOwned, DmaHoldsCurrentSession, StreamStop, ServiceTypeOK
  <2> QED
    BY <2>1, <2>2
<1>2. CASE VoiceRequestHandle /\ UNCHANGED <<svc_session, half, stream>>
  <2>1. UNCHANGED state \/ (state = "IDLE" /\ state' = "PLAYING_VOICE")
    BY <1>2 DEF VoiceRequestHandle
  <2>2. stream' <=> state' = "PLAYING_CS4344"
    BY <1>2, <2>1 DEF OutputInv, StreamOwned
  <2>3. state' = "PLAYING_CS4344" => \A h \in Halves : half'[h] \in {NoAudio, svc_session'}
    BY <1>2, <2>1 DEF OutputInv, DmaHoldsCurrentSession
  <2> QED
    BY <2>2, <2>3 DEF StreamOwned, DmaHoldsCurrentSession
<1>3. CASE StopHandle
  <2>1. ServiceStop
    BY <1>3 DEF StopHandle, PlayerStop
  <2> QED
    BY <2>1, ServiceStopKeepsOutput DEF OutputInv
<1>4. CASE EmergencyEnter
  <2>1. state' \in {"EMERGENCY", "ERROR"} /\ ~stream'
    BY <1>4 DEF EmergencyEnter, StreamStop, OutputInv, StreamOwned
  <2> QED
    BY <2>1 DEF StreamOwned, DmaHoldsCurrentSession
<1>5. CASE EmergencyLeave
  BY <1>5 DEF EmergencyLeave, OutputInv, StreamOwned, DmaHoldsCurrentSession
<1> QED
  BY <1>1, <1>2, <1>3, <1>4, <1>5 DEF CommandHandle

LEMMA StartKeepsOutput ==
  ASSUME TypeOK, NEW k1 \in 1 .. Len(ready_queue), NEW k2 \in 0 .. Len(ready_queue),
         IsActive(k1), k2 # 0 => IsActive(k2), Start(k1, k2)
  PROVE  StreamOwned' /\ DmaHoldsCurrentSession'
<1>1. CASE state' = "PLAYING_CS4344"
  <2>1. stream' /\ svc_session' = svc_session
    BY <1>1 DEF Start
  <2>2. \A h \in Halves : half'[h] \in {NoAudio, svc_session}
    <3> DEFINE second == IF k2 # 0 THEN ready_queue[k2].session ELSE NoAudio
    <3>1. half' = [h \in Halves |-> IF h = 0 THEN ready_queue[k1].session ELSE second]
      BY <1>1 DEF Start
    <3>2. ready_queue[k1].session = svc_session /\ second \in {NoAudio, svc_session}
      BY DEF IsActive
    <3> HIDE DEF second
    <3> QED
      BY <3>1, <3>2
  <2> QED
    BY <1>1, <2>1, <2>2 DEF StreamOwned, DmaHoldsCurrentSession
<1>2. CASE state' = "IDLE"
  BY <1>2 DEF Start, StreamStop, StreamOwned, DmaHoldsCurrentSession
<1> QED
  BY <1>1, <1>2 DEF Start

LEMMA PrebufferKeepsOutput ==
  ASSUME TypeOK, OutputInv, PrebufferCheck
  PROVE  StreamOwned' /\ DmaHoldsCurrentSession'
<1>1. CASE UNCHANGED serviceVars
  BY <1>1 DEF OutputInv, StreamOwned, DmaHoldsCurrentSession, serviceVars
<1>2. CASE StartIfReady
  <2>1. CASE \E k1, k2 \in 1 .. Len(ready_queue) :
               Takes(k1, 1) /\ Takes(k2, k1 + 1) /\ Start(k1, k2)
    <3>1. PICK k1, k2 \in 1 .. Len(ready_queue) :
                 IsActive(k1) /\ IsActive(k2) /\ Start(k1, k2)
      BY <2>1 DEF Takes
    <3>2. k2 \in 0 .. Len(ready_queue)
      BY <3>1 DEF PoolTypeOK
    <3> QED
      BY <3>1, <3>2, StartKeepsOutput
  <2>2. CASE \E k1 \in 1 .. Len(ready_queue) : Takes(k1, 1) /\ Start(k1, 0)
    <3>1. PICK k1 \in 1 .. Len(ready_queue) : IsActive(k1) /\ Start(k1, 0)
      BY <2>2 DEF Takes
    <3>2. 0 \in 0 .. Len(ready_queue)
      BY DEF PoolTypeOK
    <3> QED
      BY <3>1, <3>2, StartKeepsOutput
  <2> QED
    BY <1>1, <1>2, <2>1, <2>2 DEF StartIfReady
<1> QED
  BY <1>1, <1>2 DEF PrebufferCheck

LEMMA RefillStepKeepsOutput ==
  ASSUME TypeOK, OutputInv, NEW from, NEW to, NEW bit, NEW h \in Halves,
         RefillStep(from, to, bit, h)
  PROVE  StreamOwned' /\ DmaHoldsCurrentSession'
<1>1. UNCHANGED <<state, svc_session, stream>>
  BY DEF RefillStep
<1>2. UNCHANGED half \/ half' = [half EXCEPT ![h] = svc_session]
        \/ half' = [half EXCEPT ![h] = NoAudio]
  BY DEF RefillStep, Refill, Takes, IsActive
<1>3. \A g \in Halves : half'[g] \in {half[g], svc_session, NoAudio}
  BY <1>2 DEF ServiceTypeOK
<1> QED
  BY <1>1, <1>3 DEF OutputInv, StreamOwned, DmaHoldsCurrentSession

LEMMA PlayerKeepsOutput == TypeOK /\ OutputInv /\ PlayerStep => OutputInv'
<1> SUFFICES ASSUME TypeOK, OutputInv, PlayerStep
             PROVE  OutputInv'
  OBVIOUS
<1>1. player_pc' # "START"
  <2>1. player_pc' = player_pc => player_pc # "START"
    BY DEF PlayerStep, PlayerInit, WarmupEnd, PlayerWake, CommandHandle, CommandsDone,
       VoiceProcess, DecodeEvents, PrebufferCheck, RefillHalf, RefillFull, RefillStep, FinishCheck
  <2>2. player_pc' # player_pc => player_pc' # "START"
    BY DEF PlayerStep, PlayerInit, WarmupEnd, PlayerWake, CommandHandle, CommandsDone,
       VoiceProcess, DecodeEvents, PrebufferCheck, RefillHalf, RefillFull, RefillStep, FinishCheck
  <2> QED
    BY <2>1, <2>2
<1>2. StreamOwned' /\ DmaHoldsCurrentSession'
  <2>1. CASE PlayerInit
    BY <2>1 DEF PlayerInit, OutputInv, StreamOwned, DmaHoldsCurrentSession, Silent
  <2>2. CASE WarmupEnd
    BY <2>2, ServiceStopKeepsOutput DEF WarmupEnd, OutputInv
  <2>3. CASE PlayerWake \/ CommandsDone
    BY <2>3 DEF PlayerWake, CommandsDone, OutputInv, StreamOwned, DmaHoldsCurrentSession, serviceVars
  <2>4. CASE CommandHandle
    BY <2>4, CommandKeepsOutput
  <2>5. CASE VoiceProcess
    BY <2>5 DEF VoiceProcess, OutputInv, StreamOwned, DmaHoldsCurrentSession
  <2>6. CASE DecodeEvents \/ FinishCheck
    <3>1. ServiceStop \/ UNCHANGED serviceVars
      BY <2>6 DEF DecodeEvents, FinishCheck, PlayerStop
    <3> QED
      BY <3>1, ServiceStopKeepsOutput DEF OutputInv, StreamOwned, DmaHoldsCurrentSession, serviceVars
  <2>7. CASE PrebufferCheck
    BY <2>7, PrebufferKeepsOutput
  <2>8. CASE RefillHalf \/ RefillFull
    BY <2>8, RefillStepKeepsOutput DEF RefillHalf, RefillFull
  <2> QED
    BY <2>1, <2>2, <2>3, <2>4, <2>5, <2>6, <2>7, <2>8 DEF PlayerStep
<1> QED
  BY <1>1, <1>2 DEF OutputInv

LEMMA AlwaysOutput == Spec => []OutputInv
<1>1. Init => OutputInv
  BY DEF Init, OutputInv, StreamOwned, DmaHoldsCurrentSession
<1>2. OutputInv /\ (DecoderStep \/ DmaInterrupt \/ ClientStep \/ UNCHANGED vars) => OutputInv'
  BY DEF OutputInv, StreamOwned, DmaHoldsCurrentSession, DecoderStep, DecoderFrame, DmaInterrupt,
     ClientStep, vars, serviceVars
<1>3. TypeOK /\ OutputInv /\ [Next]_vars => OutputInv'
  BY <1>2, PlayerKeepsOutput DEF Next
<1> QED
  BY <1>1, <1>3, TypeCorrect, PTL DEF Spec

\* No stop, emergency, error or completion path of the player leaves the DMA
\* looping on old samples, and nothing else plays beside a running stream.
THEOREM StreamSafe == Spec => []StreamOwned
<1>1. OutputInv => StreamOwned
  BY DEF OutputInv
<1> QED
  BY <1>1, AlwaysOutput, PTL

\* Whatever an earlier session's decoder left in the ready queue, what the DMA
\* plays is audio of the current session or silence.
THEOREM DmaSafe == Spec => []DmaHoldsCurrentSession
<1>1. OutputInv => DmaHoldsCurrentSession
  BY DEF OutputInv
<1> QED
  BY <1>1, AlwaysOutput, PTL

-----------------------------------------------------------------------------
(* The text buffer of the voice requests has one user at a time.           *)

\* The reservation flag covers every use of the buffer: without it no client
\* copies a text, no request is queued and none is spoken.
VoiceInv ==
  /\ VoiceTextIntact
  /\ ~pending => Reserved = {} /\ VoiceCommands = {} /\ state # "PLAYING_VOICE"

\* Taking the first command renumbers the others.
LEMMA TailCommands ==
  ASSUME command_queue \in Seq(Command), command_queue # <<>>,
         command_queue' = Tail(command_queue)
  PROVE  /\ Head(command_queue).kind = "PLAY_VOICE" => 1 \in VoiceCommands
         /\ \A i \in VoiceCommands' :
              /\ i + 1 \in VoiceCommands /\ i \in Nat \ {0}
              /\ command_queue'[i].client = command_queue[i + 1].client
<1>1. /\ Len(command_queue) \in Nat \ {0} /\ Len(command_queue') = Len(command_queue) - 1
      /\ \A i \in 1 .. Len(command_queue') : command_queue'[i] = command_queue[i + 1]
      /\ Head(command_queue) = command_queue[1]
  BY HeadTailProperties, EmptySeq, LenProperties
<1> QED
  BY <1>1 DEF VoiceCommands

\* Queueing a command adds its own index at most.
LEMMA AppendCommands ==
  ASSUME command_queue \in Seq(Command), NEW m \in Command,
         command_queue' = Append(command_queue, m)
  PROVE  /\ \A i \in VoiceCommands' \ VoiceCommands :
              m.kind = "PLAY_VOICE" /\ i = Len(command_queue) + 1 /\ command_queue'[i] = m
         /\ \A i \in VoiceCommands : command_queue'[i] = command_queue[i]
<1>1. /\ Len(command_queue) \in Nat /\ Len(command_queue') = Len(command_queue) + 1
      /\ \A i \in 1 .. Len(command_queue) : command_queue'[i] = command_queue[i]
      /\ command_queue'[Len(command_queue) + 1] = m
  BY LenProperties
<1> QED
  BY <1>1 DEF VoiceCommands

\* A step that leaves queue, buffer and clients alone, starts no voice and
\* releases the flag only after one.
LEMMA QuietVoice ==
  ASSUME VoiceInv, UNCHANGED <<command_queue, voice_text, client_pc>>,
         state' = "PLAYING_VOICE" => state = "PLAYING_VOICE",
         \/ UNCHANGED pending
         \/ state = "PLAYING_VOICE" /\ state' # "PLAYING_VOICE"
  PROVE  VoiceInv'
<1>1. UNCHANGED <<VoiceCommands, Reserved>>
  BY DEF VoiceCommands, Reserved
<1>2. VoiceTextIntact'
  BY <1>1 DEF VoiceInv, VoiceTextIntact
<1>3. ~pending' => Reserved' = {} /\ VoiceCommands' = {} /\ state' # "PLAYING_VOICE"
  BY <1>1 DEF VoiceInv, VoiceTextIntact
<1> QED
  BY <1>2, <1>3 DEF VoiceInv

LEMMA CommandKeepsVoice ==
  ASSUME TypeOK, VoiceInv, CommandHandle
  PROVE  VoiceInv'
<1>1. /\ command_queue # <<>> /\ command_queue' = Tail(command_queue)
      /\ UNCHANGED <<voice_text, client_pc, Reserved>>
      /\ command_queue \in Seq(Command)
  BY DEF CommandHandle, RequestTypeOK, Reserved
<1>2. /\ Head(command_queue).kind = "PLAY_VOICE" => 1 \in VoiceCommands
      /\ \A i \in VoiceCommands' :
           /\ i + 1 \in VoiceCommands /\ i \in Nat \ {0}
           /\ command_queue'[i].client = command_queue[i + 1].client
  BY <1>1, TailCommands
<1>3. \A i \in VoiceCommands' : voice_text' = command_queue'[i].client
  BY <1>1, <1>2 DEF VoiceInv, VoiceTextIntact
<1>4. \A i, j \in VoiceCommands' : i = j
  BY <1>2 DEF VoiceInv, VoiceTextIntact
<1>5. VoiceCommands = {} => VoiceCommands' = {}
  BY <1>2
<1>6. CASE Head(command_queue).kind = "PLAY_VOICE"
  <2>1. VoiceCommands' = {} /\ VoiceCommands # {}
    <3>1. \A i \in VoiceCommands' : i + 1 = 1 /\ i \in Nat \ {0}
      BY <1>2, <1>6 DEF VoiceInv, VoiceTextIntact
    <3> QED
      BY <1>2, <1>6, <3>1
  <2>2. Reserved = {} /\ state # "PLAYING_VOICE"
    BY <2>1 DEF VoiceInv, VoiceTextIntact
  <2>3. ~pending' => state' # "PLAYING_VOICE"
    <3>1. VoiceRequestHandle
      BY <1>6 DEF CommandHandle
    <3>2. pending
      BY <2>1 DEF VoiceInv
    <3>3. UNCHANGED pending \/ UNCHANGED state
      BY <3>1 DEF VoiceRequestHandle
    <3> QED
      BY <2>2, <3>2, <3>3
  <2> QED
    BY <1>1, <1>3, <1>4, <2>1, <2>2, <2>3 DEF VoiceInv, VoiceTextIntact
<1>7. CASE Head(command_queue).kind # "PLAY_VOICE"
  <2>1. \/ Mp3RequestHandle /\ UNCHANGED pending
        \/ StopHandle \/ EmergencyEnter \/ EmergencyLeave
    BY <1>7 DEF CommandHandle
  <2>2. state' = "PLAYING_VOICE" => state = "PLAYING_VOICE"
    BY <2>1 DEF Mp3RequestHandle, serviceVars, StopHandle, PlayerStop, ServiceStop,
       EmergencyEnter, EmergencyLeave
  <2>3. UNCHANGED pending \/ (state = "PLAYING_VOICE" /\ state' # "PLAYING_VOICE")
    BY <2>1 DEF StopHandle, PlayerStop, ServiceStop, EmergencyEnter, EmergencyLeave, RequestTypeOK
  <2>4. VoiceTextIntact'
    BY <1>1, <1>3, <1>4, <1>5, <2>2 DEF VoiceInv, VoiceTextIntact
  <2>5. ~pending' => Reserved' = {} /\ VoiceCommands' = {} /\ state' # "PLAYING_VOICE"
    BY <1>1, <1>5, <2>2, <2>3 DEF VoiceInv, VoiceTextIntact
  <2> QED
    BY <2>4, <2>5 DEF VoiceInv
<1> QED
  BY <1>6, <1>7

LEMMA PlayerKeepsVoice == TypeOK /\ VoiceInv /\ PlayerStep => VoiceInv'
<1> SUFFICES ASSUME TypeOK, VoiceInv, PlayerStep, ~CommandHandle
             PROVE  VoiceInv'
  BY CommandKeepsVoice
<1>1. UNCHANGED <<command_queue, voice_text, client_pc>>
  BY DEF PlayerStep, PlayerInit, WarmupEnd, PlayerWake, CommandsDone, VoiceProcess, DecodeEvents,
     PrebufferCheck, RefillHalf, RefillFull, RefillStep, FinishCheck, commandVars
<1>2. CASE VoiceProcess
  <2>1. \/ UNCHANGED <<state, pending>>
        \/ state = "PLAYING_VOICE" /\ state' \in {"IDLE", "ERROR"}
    BY <1>2 DEF VoiceProcess
  <2> QED
    BY <1>1, <2>1, QuietVoice
<1>3. CASE ~VoiceProcess
  <2>1. UNCHANGED pending
    BY <1>3 DEF PlayerStep, PlayerInit, WarmupEnd, PlayerWake, CommandsDone, DecodeEvents,
       PrebufferCheck, RefillHalf, RefillFull, RefillStep, FinishCheck, commandVars
  <2>2. state' # "PLAYING_VOICE" \/ UNCHANGED state
    <3>1. PlayerInit \/ WarmupEnd \/ PlayerWake \/ CommandsDone
            => state' # "PLAYING_VOICE" \/ UNCHANGED state
      BY DEF PlayerInit, WarmupEnd, ServiceStop, PlayerWake, CommandsDone, serviceVars
    <3>2. DecodeEvents \/ FinishCheck => state' # "PLAYING_VOICE" \/ UNCHANGED state
      BY DEF DecodeEvents, FinishCheck, PlayerStop, ServiceStop, serviceVars
    <3>3. PrebufferCheck => state' # "PLAYING_VOICE" \/ UNCHANGED state
      BY DEF PrebufferCheck, StartIfReady, Start, serviceVars
    <3>4. RefillHalf \/ RefillFull => UNCHANGED state
      BY DEF RefillHalf, RefillFull, RefillStep
    <3> QED
      BY <1>3, <3>1, <3>2, <3>3, <3>4 DEF PlayerStep
  <2> QED
    BY <1>1, <2>1, <2>2, QuietVoice
<1> QED
  BY <1>2, <1>3

LEMMA ClientKeepsVoice == TypeOK /\ VoiceInv /\ ClientStep => VoiceInv'
<1> SUFFICES ASSUME TypeOK, VoiceInv, ClientStep
             PROVE  VoiceInv'
  OBVIOUS
<1>1. UNCHANGED state /\ command_queue \in Seq(Command) /\ client_pc \in [Clients -> ClientSteps]
  BY DEF ClientStep, serviceVars, RequestTypeOK
<1>2. PICK c \in Clients : \/ \E kind \in Requests : ClientSend(c, kind)
                          \/ ClientReserve(c) \/ ClientSpeak(c) \/ ClientNotify(c)
  BY DEF ClientStep
<1>3. ASSUME NEW kind \in Requests, ClientSend(c, kind)
      PROVE  VoiceInv'
  <2> DEFINE m == [kind |-> kind, client |-> c]
  <2>1. m \in Command /\ m.kind # "PLAY_VOICE" /\ command_queue' = Append(command_queue, m)
    BY <1>3, RequestAssumption DEF ClientSend, Command
  <2> HIDE DEF m
  <2>2. /\ \A i \in VoiceCommands' : i \in VoiceCommands
        /\ \A i \in VoiceCommands : command_queue'[i] = command_queue[i]
    BY <1>1, <2>1, AppendCommands
  <2>3. Reserved' = Reserved /\ UNCHANGED <<pending, voice_text>>
    BY <1>1, <1>3 DEF ClientSend, Reserved
  <2> QED
    BY <1>1, <2>2, <2>3 DEF VoiceInv, VoiceTextIntact
<1>4. CASE ClientReserve(c)
  <2>1. Reserved' = Reserved \cup {c} /\ VoiceCommands' = VoiceCommands
    BY <1>1, <1>4 DEF ClientReserve, Reserved, VoiceCommands
  <2>2. Reserved = {} /\ VoiceCommands = {} /\ state # "PLAYING_VOICE" /\ pending'
    BY <1>4 DEF ClientReserve, VoiceInv
  <2> QED
    BY <1>1, <2>1, <2>2 DEF VoiceInv, VoiceTextIntact
<1>5. CASE ClientSpeak(c)
  <2>1. /\ c \in Reserved /\ VoiceCommands = {} /\ state # "PLAYING_VOICE"
        /\ \A d \in Reserved : d = c
    BY <1>5 DEF ClientSpeak, Reserved, VoiceInv, VoiceTextIntact
  <2>2. pending
    BY <2>1 DEF VoiceInv
  <2>3. Reserved' = {}
    BY <1>1, <1>5, <2>1 DEF ClientSpeak, Reserved
  <2>4. CASE QueueHasRoom
    <3> DEFINE m == [kind |-> "PLAY_VOICE", client |-> c]
    <3>1. /\ m \in Command /\ m.client = c /\ command_queue' = Append(command_queue, m)
          /\ voice_text' = c /\ UNCHANGED pending
      BY <1>5, <2>4 DEF ClientSpeak, Command, RequestKinds
    <3> HIDE DEF m
    <3>2. \A i \in VoiceCommands' : i = Len(command_queue) + 1 /\ command_queue'[i] = m
      BY <1>1, <2>1, <3>1, AppendCommands
    <3> QED
      BY <1>1, <2>1, <2>2, <2>3, <3>1, <3>2 DEF VoiceInv, VoiceTextIntact
  <2>5. CASE ~QueueHasRoom
    <3>1. VoiceCommands' = {}
      BY <1>5, <2>1, <2>5 DEF ClientSpeak, VoiceCommands
    <3> QED
      BY <1>1, <2>1, <2>3, <3>1 DEF VoiceInv, VoiceTextIntact
  <2> QED
    BY <2>4, <2>5
<1>6. CASE ClientNotify(c)
  <2>1. Reserved' = Reserved /\ UNCHANGED <<command_queue, pending, voice_text, VoiceCommands>>
    BY <1>1, <1>6 DEF ClientNotify, Reserved, VoiceCommands
  <2> QED
    BY <1>1, <2>1 DEF VoiceInv, VoiceTextIntact
<1> QED
  BY <1>2, <1>3, <1>4, <1>5, <1>6

LEMMA AlwaysVoice == Spec => []VoiceInv
<1>1. Init => VoiceInv
  BY DEF Init, VoiceInv, VoiceTextIntact, VoiceCommands, Reserved
<1>2. VoiceInv /\ (DecoderStep \/ DmaInterrupt \/ UNCHANGED vars) => VoiceInv'
  BY QuietVoice DEF DecoderStep, DecoderFrame, DmaInterrupt, vars, serviceVars, commandVars
<1>3. TypeOK /\ VoiceInv /\ [Next]_vars => VoiceInv'
  BY <1>2, PlayerKeepsVoice, ClientKeepsVoice DEF Next
<1> QED
  BY <1>1, <1>3, TypeCorrect, PTL DEF Spec

\* However the calls of several clients interleave with the player, and however
\* a voice ends, the text a request was made for is the one that is spoken.
THEOREM VoiceSafe == Spec => []VoiceTextIntact
<1>1. VoiceInv => VoiceTextIntact
  BY DEF VoiceInv
<1> QED
  BY <1>1, AlwaysVoice, PTL

-----------------------------------------------------------------------------
(* Who may end an emergency or a voice, and who releases its reservation.  *)

\* In the part of a pass that is for playing, and in the warm-up, the service
\* plays; between two passes the player has no events in hand; and where no
\* source fails, no decode error is ever reported.
PassInv ==
  /\ player_pc \in {"WARMUP", "REFILL_HALF", "REFILL_FULL", "FINISH"} => state = "PLAYING_CS4344"
  /\ player_pc = "START" => state = "IDLE"
  /\ player_pc \in {"START", "WARMUP", "WAIT"} => bits = {}

ErrorFree == /\ "DECODE_ERROR" \notin bits \cup notify
             /\ decoder_pc # "POST_ERROR"

LEMMA PlayerKeepsPass == PassInv /\ PlayerStep => PassInv'
<1> SUFFICES ASSUME PassInv, PlayerStep
             PROVE  PassInv'
  OBVIOUS
<1>1. CASE PlayerInit
  BY <1>1 DEF PlayerInit, PassInv
<1>2. CASE WarmupEnd \/ PlayerWake \/ CommandsDone \/ VoiceProcess
  BY <1>2 DEF WarmupEnd, PlayerWake, CommandsDone, VoiceProcess, PassInv
<1>3. CASE CommandHandle
  BY <1>3 DEF CommandHandle, PassInv
<1>4. CASE DecodeEvents \/ PrebufferCheck
  BY <1>4 DEF DecodeEvents, PrebufferCheck, PassInv
<1>5. CASE RefillHalf \/ RefillFull \/ FinishCheck
  BY <1>5 DEF RefillHalf, RefillFull, RefillStep, FinishCheck, PassInv
<1> QED
  BY <1>1, <1>2, <1>3, <1>4, <1>5 DEF PlayerStep

LEMMA AlwaysPass == Spec => []PassInv
<1>1. Init => PassInv
  BY DEF Init, PassInv
<1>2. PassInv /\ (DecoderStep \/ DmaInterrupt \/ ClientStep \/ UNCHANGED vars) => PassInv'
  BY DEF DecoderStep, DecoderFrame, DmaInterrupt, ClientStep, vars, serviceVars, PassInv
<1>3. PassInv /\ [Next]_vars => PassInv'
  BY <1>2, PlayerKeepsPass DEF Next
<1> QED
  BY <1>1, <1>3, PTL DEF Spec

\* The player adds nothing to its own notification bits.
LEMMA PlayerAddsNoBits == PlayerStep => bits' \cup notify' \subseteq bits \cup notify
<1>1. PlayerInit \/ WarmupEnd \/ PlayerWake \/ CommandHandle \/ CommandsDone \/ VoiceProcess
        => bits' \cup notify' \subseteq bits \cup notify
  BY DEF PlayerInit, WarmupEnd, PlayerWake, CommandHandle, CommandsDone, VoiceProcess
<1>2. DecodeEvents \/ PrebufferCheck \/ RefillHalf \/ RefillFull \/ FinishCheck
        => bits' \cup notify' \subseteq bits \cup notify
  BY DEF DecodeEvents, PrebufferCheck, RefillHalf, RefillFull, RefillStep, FinishCheck
<1> QED
  BY <1>1, <1>2 DEF PlayerStep

LEMMA AlwaysErrorFree ==
  ASSUME DecodeErrors = FALSE
  PROVE  Spec => []ErrorFree
<1>1. Init => ErrorFree
  BY DEF Init, ErrorFree
<1>2. ErrorFree /\ PlayerStep => ErrorFree'
  BY PlayerAddsNoBits, PlayerLeavesDecoder DEF ErrorFree, decoderVars
<1>3. ErrorFree /\ DecoderStep => ErrorFree'
  BY DEF ErrorFree, DecoderStep, DecoderFrame, DecoderReceive, DecoderOpen, DecoderCheckStop,
     DecoderTake, DecodeFrame, DecodeNothing, DecoderDelay, DecoderPost, DecoderClose, Notify
<1>4. ErrorFree /\ (DmaInterrupt \/ ClientStep \/ UNCHANGED vars) => ErrorFree'
  BY DEF ErrorFree, DmaInterrupt, DmaHalfPlayed, DmaFails, ClientStep, ClientSend, ClientReserve,
     ClientSpeak, ClientNotify, Notify, vars, decoderVars
<1>5. ErrorFree /\ [Next]_vars => ErrorFree'
  BY <1>2, <1>3, <1>4 DEF Next
<1> QED
  BY <1>1, <1>5, PTL DEF Spec

\* The player ends an emergency or a voice on a stop or emergency request, on the
\* end of the voice, or on a decode error, and on nothing else.
LEMMA PlayerKeepsOwner ==
  ASSUME PassInv, PlayerStep, state' # state, state \in {"EMERGENCY", "PLAYING_VOICE"}
  PROVE  \/ player_pc = "COMMANDS" /\ Head(command_queue).kind \in StopsOutput
         \/ player_pc = "VOICE" /\ state = "PLAYING_VOICE"
         \/ player_pc = "EVENTS" /\ "DECODE_ERROR" \in bits
<1>1. CASE PlayerInit \/ WarmupEnd \/ PlayerWake \/ CommandsDone
  BY <1>1 DEF PlayerInit, WarmupEnd, PlayerWake, CommandsDone, PassInv, serviceVars
<1>2. CASE CommandHandle
  <2>1. ~Mp3RequestHandle
    BY DEF Mp3RequestHandle, serviceVars
  <2>2. ~VoiceRequestHandle
    BY DEF VoiceRequestHandle
  <2> QED
    BY <1>2, <2>1, <2>2 DEF CommandHandle, StopsOutput
<1>3. CASE VoiceProcess
  BY <1>3 DEF VoiceProcess
<1>4. CASE DecodeEvents
  BY <1>4 DEF DecodeEvents, serviceVars
<1>5. CASE PrebufferCheck
  BY <1>5 DEF PrebufferCheck, serviceVars
<1>6. CASE RefillHalf \/ RefillFull \/ FinishCheck
  BY <1>6 DEF RefillHalf, RefillFull, RefillStep, FinishCheck, PassInv
<1> QED
  BY <1>1, <1>2, <1>3, <1>4, <1>5, <1>6 DEF PlayerStep

\* Where sources decode without errors, an emergency and a voice keep the output
\* until they end or are stopped, whatever an MP3 session has left in the
\* queues, in the notification bits or in the decoder.
THEOREM OutputKept ==
  ASSUME DecodeErrors = FALSE
  PROVE  Spec => OutputKeptByOwner
<1> DEFINE Keeps == state' # state /\ state \in {"EMERGENCY", "PLAYING_VOICE"}
                    => \/ player_pc = "COMMANDS" /\ Head(command_queue).kind \in StopsOutput
                       \/ player_pc = "VOICE" /\ state = "PLAYING_VOICE"
<1>1. PassInv /\ ErrorFree /\ PlayerStep => Keeps
  BY PlayerKeepsOwner DEF ErrorFree
<1>2. DecoderStep \/ DmaInterrupt \/ ClientStep => Keeps
  BY DEF DecoderStep, DecoderFrame, DmaInterrupt, ClientStep, serviceVars
<1>3. PassInv /\ ErrorFree /\ [Next]_vars => [Keeps]_vars
  BY <1>1, <1>2 DEF Next
<1> QED
  BY <1>3, AlwaysPass, AlwaysErrorFree, PTL DEF Spec, OutputKeptByOwner

-----------------------------------------------------------------------------
(* The reservation of the text buffer is not leaked.                       *)

\* Taking a command of another kind leaves the queued voice requests queued.
LEMMA TailKeepsVoice ==
  ASSUME command_queue \in Seq(Command), command_queue # <<>>,
         command_queue' = Tail(command_queue), Head(command_queue).kind # "PLAY_VOICE",
         VoiceCommands # {}
  PROVE  VoiceCommands' # {}
<1>1. /\ Len(command_queue) \in Nat \ {0} /\ Len(command_queue') = Len(command_queue) - 1
      /\ \A i \in 1 .. Len(command_queue') : command_queue'[i] = command_queue[i + 1]
      /\ Head(command_queue) = command_queue[1]
  BY HeadTailProperties, EmptySeq, LenProperties
<1>2. PICK i \in VoiceCommands : TRUE
  OBVIOUS
<1>3. i - 1 \in VoiceCommands'
  BY <1>1, <1>2 DEF VoiceCommands
<1> QED
  BY <1>3

\* Appending one leaves them too, and queues one more if it is of that kind.
LEMMA AppendKeepsVoice ==
  ASSUME command_queue \in Seq(Command), NEW m \in Command,
         command_queue' = Append(command_queue, m),
         VoiceCommands # {} \/ m.kind = "PLAY_VOICE"
  PROVE  VoiceCommands' # {}
<1>1. /\ Len(command_queue) \in Nat /\ Len(command_queue') = Len(command_queue) + 1
      /\ \A i \in 1 .. Len(command_queue) : command_queue'[i] = command_queue[i]
      /\ command_queue'[Len(command_queue) + 1] = m
  BY LenProperties
<1>2. CASE VoiceCommands # {}
  <2>1. PICK i \in VoiceCommands : TRUE
    BY <1>2
  <2> QED
    BY <1>1, <2>1 DEF VoiceCommands
<1>3. CASE m.kind = "PLAY_VOICE"
  <2>1. Len(command_queue) + 1 \in VoiceCommands'
    BY <1>1, <1>3 DEF VoiceCommands
  <2> QED
    BY <2>1
<1> QED
  BY <1>2, <1>3

LEMMA CommandKeepsSlot ==
  ASSUME TypeOK, VoiceInv, VoiceSlotHasOwner, CommandHandle
  PROVE  VoiceSlotHasOwner'
<1>1. /\ command_queue \in Seq(Command) /\ command_queue # <<>>
      /\ command_queue' = Tail(command_queue)
      /\ UNCHANGED Reserved
  BY DEF CommandHandle, RequestTypeOK, Reserved
<1>2. CASE Head(command_queue).kind = "PLAY_VOICE"
  <2>1. VoiceCommands # {}
    BY <1>1, <1>2, TailCommands
  <2>2. VoiceRequestHandle
    BY <1>2 DEF CommandHandle
  <2>3. ~pending' \/ state' = "PLAYING_VOICE"
    BY <2>2 DEF VoiceRequestHandle
  <2> QED
    BY <2>3 DEF VoiceSlotHasOwner
<1>3. CASE Head(command_queue).kind # "PLAY_VOICE"
  <2>1. \/ Mp3RequestHandle /\ UNCHANGED pending
        \/ StopHandle \/ EmergencyEnter \/ EmergencyLeave
    BY <1>3 DEF CommandHandle
  <2>2. pending' => pending /\ (state = "PLAYING_VOICE" => state' = "PLAYING_VOICE")
    <3>1. Mp3RequestHandle => state' = state \/ state = "IDLE"
      BY DEF Mp3RequestHandle, serviceVars
    <3>2. StopHandle \/ EmergencyEnter => (pending' => pending /\ state # "PLAYING_VOICE")
      BY DEF StopHandle, EmergencyEnter
    <3>3. EmergencyLeave => UNCHANGED pending /\ (state' = state \/ state = "EMERGENCY")
      BY DEF EmergencyLeave
    <3> QED
      BY <2>1, <3>1, <3>2, <3>3
  <2>3. VoiceCommands # {} => VoiceCommands' # {}
    BY <1>1, <1>3, TailKeepsVoice
  <2> QED
    BY <1>1, <2>2, <2>3 DEF VoiceSlotHasOwner
<1> QED
  BY <1>2, <1>3

\* A step that touches neither the queue nor the clients and ends no voice.
LEMMA QuietSlot ==
  ASSUME VoiceSlotHasOwner, UNCHANGED <<command_queue, client_pc>>, pending' => pending,
         pending' /\ state = "PLAYING_VOICE" => state' = "PLAYING_VOICE"
  PROVE  VoiceSlotHasOwner'
<1>1. UNCHANGED <<VoiceCommands, Reserved>>
  BY DEF VoiceCommands, Reserved
<1> QED
  BY <1>1 DEF VoiceSlotHasOwner

LEMMA PlayerKeepsSlot ==
  ASSUME TypeOK, PassInv, ErrorFree, VoiceInv, VoiceSlotHasOwner, PlayerStep
  PROVE  VoiceSlotHasOwner'
<1> SUFFICES ASSUME ~CommandHandle
             PROVE  VoiceSlotHasOwner'
  BY CommandKeepsSlot
<1>1. UNCHANGED <<command_queue, client_pc>> /\ (pending' => pending)
  <2>1. VoiceProcess => UNCHANGED <<command_queue, client_pc>> /\ (pending' => pending)
    <3>1. VoiceProcess => UNCHANGED <<command_queue, client_pc>> /\ pending' \in {pending, FALSE}
      BY DEF VoiceProcess
    <3> QED
      BY <3>1
  <2>2. ~VoiceProcess => UNCHANGED <<command_queue, client_pc, pending>>
    BY DEF PlayerStep, PlayerInit, WarmupEnd, PlayerWake, CommandsDone, DecodeEvents,
       PrebufferCheck, RefillHalf, RefillFull, RefillStep, FinishCheck, commandVars
  <2> QED
    BY <2>1, <2>2
<1>2. pending' /\ state = "PLAYING_VOICE" => state' = "PLAYING_VOICE"
  <2>1. CASE player_pc = "VOICE"
    <3>1. VoiceProcess
      BY <2>1 DEF PlayerStep, PlayerInit, WarmupEnd, PlayerWake, CommandsDone, DecodeEvents,
         PrebufferCheck, RefillHalf, RefillFull, RefillStep, FinishCheck
    <3> QED
      BY <3>1 DEF VoiceProcess
  <2>2. CASE player_pc = "COMMANDS"
    <3>1. CommandsDone
      BY <2>2 DEF PlayerStep, PlayerInit, WarmupEnd, PlayerWake, VoiceProcess, DecodeEvents,
         PrebufferCheck, RefillHalf, RefillFull, RefillStep, FinishCheck
    <3> QED
      BY <3>1 DEF CommandsDone, serviceVars
  <2> QED
    BY <2>1, <2>2, PlayerKeepsOwner DEF ErrorFree
<1> QED
  BY <1>1, <1>2, QuietSlot

LEMMA ClientKeepsSlot ==
  ASSUME TypeOK, VoiceInv, VoiceSlotHasOwner, ClientStep
  PROVE  VoiceSlotHasOwner'
<1>1. UNCHANGED state /\ command_queue \in Seq(Command) /\ client_pc \in [Clients -> ClientSteps]
  BY DEF ClientStep, serviceVars, RequestTypeOK
<1>2. PICK c \in Clients : \/ \E kind \in Requests : ClientSend(c, kind)
                          \/ ClientReserve(c) \/ ClientSpeak(c) \/ ClientNotify(c)
  BY DEF ClientStep
<1>3. ASSUME NEW kind \in Requests, ClientSend(c, kind)
      PROVE  VoiceSlotHasOwner'
  <2> DEFINE m == [kind |-> kind, client |-> c]
  <2>1. m \in Command /\ command_queue' = Append(command_queue, m)
    BY <1>3, RequestAssumption DEF ClientSend, Command
  <2> HIDE DEF m
  <2>2. VoiceCommands # {} => VoiceCommands' # {}
    BY <1>1, <2>1, AppendKeepsVoice
  <2>3. Reserved' = Reserved /\ UNCHANGED pending
    BY <1>1, <1>3 DEF ClientSend, Reserved
  <2> QED
    BY <1>1, <2>2, <2>3 DEF VoiceSlotHasOwner
<1>4. CASE ClientReserve(c)
  <2>1. c \in Reserved'
    BY <1>1, <1>4 DEF ClientReserve, Reserved
  <2> QED
    BY <2>1 DEF VoiceSlotHasOwner
<1>5. CASE ClientSpeak(c)
  <2>1. CASE QueueHasRoom
    <3> DEFINE m == [kind |-> "PLAY_VOICE", client |-> c]
    <3>1. m \in Command /\ m.kind = "PLAY_VOICE" /\ command_queue' = Append(command_queue, m)
      BY <1>5, <2>1 DEF ClientSpeak, Command, RequestKinds
    <3> HIDE DEF m
    <3> QED
      BY <1>1, <3>1, AppendKeepsVoice DEF VoiceSlotHasOwner
  <2>2. CASE ~QueueHasRoom
    BY <1>5, <2>2 DEF ClientSpeak, VoiceSlotHasOwner
  <2> QED
    BY <2>1, <2>2
<1>6. CASE ClientNotify(c)
  <2>1. Reserved' = Reserved /\ UNCHANGED <<command_queue, pending, VoiceCommands>>
    BY <1>1, <1>6 DEF ClientNotify, Reserved, VoiceCommands
  <2> QED
    BY <1>1, <2>1 DEF VoiceSlotHasOwner
<1> QED
  BY <1>2, <1>3, <1>4, <1>5, <1>6

\* Where sources decode without errors, the one reservation of the text buffer
\* always has an owner: no refusal, stop, emergency or end of a voice leaves it
\* set behind, so the next client's request can be taken again.
THEOREM VoiceSlotSafe ==
  ASSUME DecodeErrors = FALSE
  PROVE  Spec => []VoiceSlotHasOwner
<1>1. Init => VoiceSlotHasOwner
  BY DEF Init, VoiceSlotHasOwner
<1>2. VoiceSlotHasOwner /\ (DecoderStep \/ DmaInterrupt \/ UNCHANGED vars) => VoiceSlotHasOwner'
  BY QuietSlot DEF DecoderStep, DecoderFrame, DmaInterrupt, vars, serviceVars, commandVars
<1>3. TypeOK /\ PassInv /\ ErrorFree /\ VoiceInv /\ VoiceSlotHasOwner /\ [Next]_vars
        => VoiceSlotHasOwner'
  BY <1>2, PlayerKeepsSlot, ClientKeepsSlot DEF Next
<1> QED
  BY <1>1, <1>3, TypeCorrect, AlwaysPass, AlwaysErrorFree, AlwaysVoice, PTL DEF Spec

-----------------------------------------------------------------------------
(* The player writes the half that the DMA does not transmit.              *)

\* The DMA events the player has not finished with.
Heard == {"DMA_HALF", "DMA_FULL"} \cap (bits \cup notify)

\* An event that outlives its stream finds the ready queue empty, because every
\* stop flushes it and the decoder runs only when the player has no event left:
\* a stream cannot start before such an event is handled.
DmaInv ==
  /\ Heard # {} /\ ~stream => ready_queue = <<>>
  /\ player_pc \in {"START", "WARMUP"} => Heard = {}

\* While the player keeps up with the DMA, an unhandled event means that the DMA
\* has gone on to the other half.
InStep ==
  stream => /\ "DMA_HALF" \in Heard => dma_half = 1
            /\ "DMA_FULL" \in Heard => dma_half = 0

\* What a step of the player may do to the stream: nothing, stop it, start it,
\* or refill the half whose event it handles.
StreamMove ==
  \/ /\ UNCHANGED <<stream, dma_half>>
     /\ stream => UNCHANGED half
     /\ ready_queue = <<>> => ready_queue' = <<>>
  \/ ~stream' /\ (ready_queue' = <<>> \/ player_pc = "WARMUP")
  \/ ~stream /\ stream' /\ (player_pc = "START" \/ ready_queue # <<>>)
  \/ /\ stream /\ UNCHANGED <<stream, dma_half>>
     /\ half'[0] = half[0] \/ "DMA_HALF" \in bits
     /\ half'[1] = half[1] \/ "DMA_FULL" \in bits

LEMMA PlayerStopStream ==
  ASSUME OutputInv, ServiceStop, ReadyQueueFlush
  PROVE  StreamMove
<1>1. ~stream'
  BY DEF ServiceStop, StreamStop, OutputInv, StreamOwned
<1> QED
  BY <1>1 DEF ReadyQueueFlush, StreamMove

LEMMA CommandStream ==
  ASSUME TypeOK, OutputInv, CommandHandle
  PROVE  StreamMove
<1>1. CASE Mp3RequestHandle
  <2>1. CASE UNCHANGED serviceVars /\ UNCHANGED poolVars
    BY <2>1 DEF serviceVars, poolVars, StreamMove
  <2>2. CASE ~(UNCHANGED serviceVars /\ UNCHANGED poolVars)
    <3>1. /\ state = "IDLE"
          /\ \/ UNCHANGED <<stream, dma_half>> /\ UNCHANGED poolVars
             \/ StreamStop /\ ReadyQueueFlush
      BY <1>1, <2>2 DEF Mp3RequestHandle
    <3>2. ~stream
      BY <3>1 DEF OutputInv, StreamOwned
    <3> QED
      BY <3>1, <3>2 DEF StreamStop, ReadyQueueFlush, poolVars, StreamMove
  <2> QED
    BY <2>1, <2>2
<1>2. CASE UNCHANGED <<half, stream, dma_half, poolVars>>
  BY <1>2 DEF poolVars, StreamMove
<1>3. CASE StopHandle
  BY <1>3, PlayerStopStream DEF StopHandle, PlayerStop
<1>4. CASE EmergencyEnter
  <2>1. ~stream' /\ ready_queue' = <<>>
    BY <1>4 DEF EmergencyEnter, StreamStop, ReadyQueueFlush, OutputInv, StreamOwned
  <2> QED
    BY <2>1 DEF StreamMove
<1>5. CASE EmergencyLeave
  BY <1>5 DEF EmergencyLeave, ReadyQueueFlush, StreamMove
<1> QED
  BY <1>1, <1>2, <1>3, <1>4, <1>5 DEF CommandHandle

LEMMA PrebufferStream ==
  ASSUME TypeOK, OutputInv, PrebufferCheck
  PROVE  StreamMove
<1>1. CASE UNCHANGED <<serviceVars, poolVars, decoder_stop>>
  BY <1>1 DEF serviceVars, poolVars, StreamMove
<1>2. CASE StartIfReady /\ state = "PREPARING"
  <2>1. ~stream
    BY <1>2 DEF OutputInv, StreamOwned
  <2>2. ASSUME NEW k1 \in 1 .. Len(ready_queue), NEW k2, Start(k1, k2)
        PROVE  StreamMove
    <3>1. ready_queue # <<>>
      OBVIOUS
    <3>2. stream' \/ (~stream' /\ ready_queue' = <<>>)
      BY <2>2 DEF Start, StreamStop, ReadyQueueFlush
    <3> QED
      BY <2>1, <3>1, <3>2 DEF StreamMove
  <2>3. ASSUME NEW k1 \in 1 .. Len(ready_queue), UNCHANGED serviceVars
        PROVE  StreamMove
    <3>1. ready_queue # <<>>
      OBVIOUS
    <3> QED
      BY <2>1, <2>3, <3>1 DEF serviceVars, StreamMove
  <2>4. CASE ReadyQueueFlush /\ UNCHANGED serviceVars
    BY <2>4 DEF ReadyQueueFlush, serviceVars, StreamMove
  <2> QED
    BY <1>2, <2>2, <2>3, <2>4 DEF StartIfReady
<1> QED
  BY <1>1, <1>2 DEF PrebufferCheck

LEMMA RefillStream ==
  ASSUME TypeOK, stream, NEW from, NEW to, NEW bit, NEW h \in Halves,
         RefillStep(from, to, bit, h)
  PROVE  /\ stream' /\ UNCHANGED dma_half
         /\ \A g \in Halves : half'[g] = half[g] \/ (g = h /\ bit \in bits)
<1>1. stream' /\ UNCHANGED dma_half
  BY DEF RefillStep
<1>2. UNCHANGED half \/ (bit \in bits /\ \E v : half' = [half EXCEPT ![h] = v])
  BY DEF RefillStep, Refill
<1>3. \A g \in Halves : half'[g] = half[g] \/ (g = h /\ bit \in bits)
  BY <1>2 DEF ServiceTypeOK
<1> QED
  BY <1>1, <1>3

LEMMA PlayerStream ==
  ASSUME TypeOK, OutputInv, PassInv, PlayerStep
  PROVE  StreamMove
<1>1. CASE PlayerInit
  BY <1>1 DEF PlayerInit, poolVars, OutputInv, StreamOwned, PassInv, StreamMove
<1>2. CASE WarmupEnd
  <2>1. ~stream' /\ player_pc = "WARMUP"
    BY <1>2 DEF WarmupEnd, ServiceStop, StreamStop, PassInv
  <2> QED
    BY <2>1 DEF StreamMove
<1>3. CASE PlayerWake \/ CommandsDone \/ VoiceProcess
  BY <1>3 DEF PlayerWake, CommandsDone, VoiceProcess, serviceVars, poolVars, StreamMove
<1>4. CASE CommandHandle
  BY <1>4, CommandStream
<1>5. CASE DecodeEvents \/ FinishCheck
  <2>1. (ServiceStop /\ ReadyQueueFlush) \/ UNCHANGED <<serviceVars, poolVars>>
    BY <1>5 DEF DecodeEvents, FinishCheck, PlayerStop
  <2> QED
    BY <2>1, PlayerStopStream DEF serviceVars, poolVars, StreamMove
<1>6. CASE PrebufferCheck
  BY <1>6, PrebufferStream
<1>7. CASE RefillHalf \/ RefillFull
  <2>1. stream
    BY <1>7 DEF RefillHalf, RefillFull, RefillStep, PassInv, OutputInv, StreamOwned
  <2>2. CASE RefillHalf
    <3>1. /\ stream' /\ UNCHANGED dma_half
          /\ \A g \in Halves : half'[g] = half[g] \/ (g = 0 /\ "DMA_HALF" \in bits)
      BY <2>1, <2>2, RefillStream DEF RefillHalf
    <3> QED
      BY <2>1, <3>1 DEF StreamMove, ServiceTypeOK
  <2>3. CASE RefillFull
    <3>1. /\ stream' /\ UNCHANGED dma_half
          /\ \A g \in Halves : half'[g] = half[g] \/ (g = 1 /\ "DMA_FULL" \in bits)
      BY <2>1, <2>3, RefillStream DEF RefillFull
    <3> QED
      BY <2>1, <3>1 DEF StreamMove, ServiceTypeOK
  <2> QED
    BY <1>7, <2>2, <2>3
<1> QED
  BY <1>1, <1>2, <1>3, <1>4, <1>5, <1>6, <1>7 DEF PlayerStep

LEMMA PlayerKeepsDma ==
  ASSUME TypeOK, OutputInv, PassInv, DmaInv, PlayerStep
  PROVE  DmaInv'
<1>1. StreamMove /\ bits' \cup notify' \subseteq bits \cup notify
  BY PlayerStream, PlayerAddsNoBits
<1>2. Heard' \subseteq Heard
  BY <1>1 DEF Heard
<1>3. player_pc' \in {"START", "WARMUP"} => player_pc \in {"START", "WARMUP"}
  BY DEF PlayerStep, PlayerInit, WarmupEnd, PlayerWake, CommandHandle, CommandsDone, VoiceProcess,
     DecodeEvents, PrebufferCheck, RefillHalf, RefillFull, RefillStep, FinishCheck
<1>4. Heard' # {} /\ ~stream' => ready_queue' = <<>>
  <2> SUFFICES ASSUME Heard' # {}, ~stream'
               PROVE  ready_queue' = <<>>
    OBVIOUS
  <2>1. Heard # {} /\ player_pc # "WARMUP"
    BY <1>2 DEF DmaInv
  <2> QED
    BY <1>1, <2>1 DEF StreamMove, DmaInv
<1> QED
  BY <1>2, <1>3, <1>4 DEF DmaInv

\* The decoder and the clients run only when the player has no event left.
LEMMA NothingHeard ==
  ASSUME PassInv, DmaInv, PlayerBlocked
  PROVE  Heard = {}
  BY DEF PlayerBlocked, PassInv, DmaInv, Heard

\* They add no DMA event either.
LEMMA OthersHear ==
  ASSUME PassInv, DmaInv, DecoderStep \/ ClientStep
  PROVE  Heard' = {} /\ UNCHANGED <<player_pc, stream, dma_half, half>>
<1>1. Heard = {}
  BY NothingHeard DEF DecoderStep, DecoderMayRun, ClientStep, ClientMayRun
<1>2. CASE DecoderStep
  <2>1. notify' \subseteq notify \cup {"PCM_READY", "DECODE_EOF", "DECODE_ERROR"} /\ bits' = bits
    BY <1>2 DEF DecoderStep, DecoderFrame, DecoderReceive, DecoderOpen, DecoderCheckStop,
       DecoderTake, DecodeFrame, DecodeNothing, DecoderDelay, DecoderPost, DecoderClose, Notify
  <2> QED
    BY <1>1, <1>2, <2>1 DEF Heard, DecoderStep, DecoderFrame, serviceVars
<1>3. CASE ClientStep
  <2>1. notify' \subseteq notify \cup {"COMMAND"} /\ bits' = bits
    BY <1>3 DEF ClientStep, ClientSend, ClientReserve, ClientSpeak, ClientNotify, Notify
  <2> QED
    BY <1>1, <1>3, <2>1 DEF Heard, ClientStep, serviceVars
<1> QED
  BY <1>2, <1>3

LEMMA AlwaysDma == Spec => []DmaInv
<1>1. Init => DmaInv
  BY DEF Init, DmaInv, Heard
<1>2. PassInv /\ DmaInv /\ (DecoderStep \/ ClientStep) => DmaInv'
  BY OthersHear DEF DmaInv
<1>3. PassInv /\ OutputInv /\ DmaInv /\ DmaInterrupt => DmaInv'
  BY DEF DmaInterrupt, DmaHalfPlayed, DmaFails, DmaInv, PassInv, OutputInv, StreamOwned, poolVars
<1>4. DmaInv /\ UNCHANGED vars => DmaInv'
  BY DEF DmaInv, Heard, vars, serviceVars, poolVars
<1>5. TypeOK /\ OutputInv /\ PassInv /\ DmaInv /\ [Next]_vars => DmaInv'
  BY <1>2, <1>3, <1>4, PlayerKeepsDma DEF Next
<1> QED
  BY <1>1, <1>5, TypeCorrect, AlwaysOutput, AlwaysPass, PTL DEF Spec

LEMMA PlayerKeepsInStep ==
  ASSUME TypeOK, OutputInv, PassInv, DmaInv, InStep, PlayerStep
  PROVE  InStep'
<1>1. StreamMove /\ bits' \cup notify' \subseteq bits \cup notify
  BY PlayerStream, PlayerAddsNoBits
<1>2. Heard' \subseteq Heard
  BY <1>1 DEF Heard
<1>3. CASE ~stream
  BY <1>1, <1>2, <1>3 DEF StreamMove, DmaInv, InStep
<1>4. CASE stream
  BY <1>1, <1>2, <1>4 DEF StreamMove, InStep
<1> QED
  BY <1>3, <1>4

LEMMA DmaKeepsInStep ==
  ASSUME DmaOutruns = FALSE, TypeOK, PassInv, InStep, DmaInterrupt
  PROVE  InStep'
<1>1. CASE DmaHalfPlayed
  <2>1. Heard = {}
    BY <1>1 DEF DmaHalfPlayed, RefillDone, Heard, PassInv
  <2>2. UNCHANGED bits
    BY DEF DmaInterrupt
  <2>3. dma_half = 0 => Heard' \subseteq {"DMA_HALF"} /\ dma_half' = 1
    BY <1>1, <2>1, <2>2 DEF DmaHalfPlayed, Notify, Heard
  <2>4. dma_half = 1 => Heard' \subseteq {"DMA_FULL"} /\ dma_half' = 0
    BY <1>1, <2>1, <2>2 DEF DmaHalfPlayed, Notify, Heard
  <2> QED
    BY <2>3, <2>4 DEF InStep, ServiceTypeOK
<1>2. CASE DmaFails
  <2>1. UNCHANGED <<Heard, stream, dma_half>>
    BY <1>2 DEF DmaInterrupt, DmaFails, Notify, Heard
  <2> QED
    BY <2>1 DEF InStep
<1> QED
  BY <1>1, <1>2 DEF DmaInterrupt

LEMMA AlwaysInStep ==
  ASSUME DmaOutruns = FALSE
  PROVE  Spec => []InStep
<1>1. Init => InStep
  BY DEF Init, InStep
<1>2. PassInv /\ DmaInv /\ (DecoderStep \/ ClientStep) => InStep'
  BY OthersHear DEF InStep
<1>3. InStep /\ UNCHANGED vars => InStep'
  BY DEF InStep, Heard, vars, serviceVars
<1>4. TypeOK /\ OutputInv /\ PassInv /\ DmaInv /\ InStep /\ [Next]_vars => InStep'
  BY <1>2, <1>3, DmaKeepsInStep, PlayerKeepsInStep DEF Next
<1> QED
  BY <1>1, <1>4, TypeCorrect, AlwaysOutput, AlwaysPass, AlwaysDma, PTL DEF Spec

\* Whatever ended the last stream, and however far the DMA had got by then, the
\* next one starts with no DMA event of it pending, so that its first half is
\* not refilled before it was played.
THEOREM StreamStartsFresh ==
  Spec => [][~stream /\ stream' => {"DMA_HALF", "DMA_FULL"} \cap (bits \cup notify) = {}]_vars
<1> DEFINE Fresh == ~stream /\ stream' => {"DMA_HALF", "DMA_FULL"} \cap (bits \cup notify) = {}
<1>1. TypeOK /\ OutputInv /\ PassInv /\ DmaInv /\ PlayerStep => Fresh
  BY PlayerStream DEF StreamMove, DmaInv, Heard
<1>2. DecoderStep \/ DmaInterrupt \/ ClientStep => Fresh
  BY DEF DecoderStep, DecoderFrame, DmaInterrupt, ClientStep, serviceVars
<1>3. TypeOK /\ OutputInv /\ PassInv /\ DmaInv /\ [Next]_vars => [Fresh]_vars
  BY <1>1, <1>2 DEF Next
<1> QED
  BY <1>3, TypeCorrect, AlwaysOutput, AlwaysPass, AlwaysDma, PTL DEF Spec

\* While the player keeps up with the DMA it never writes the half that is being
\* transmitted, and no stream starts with an event of an earlier one pending.
THEOREM IdleHalfRefilled ==
  ASSUME DmaOutruns = FALSE
  PROVE  Spec => RefillsIdleHalf
<1> DEFINE Fresh == ~stream /\ stream' => {"DMA_HALF", "DMA_FULL"} \cap (bits \cup notify) = {}
           Idle  == stream /\ stream' => half'[dma_half] = half[dma_half]
<1>1. TypeOK /\ OutputInv /\ PassInv /\ DmaInv /\ InStep /\ PlayerStep => Fresh /\ Idle
  <2> SUFFICES ASSUME TypeOK, DmaInv, InStep, StreamMove
               PROVE  Fresh /\ Idle
    BY PlayerStream
  <2>1. Fresh
    BY DEF StreamMove, DmaInv, Heard
  <2>2. Idle
    <3>1. dma_half \in {0, 1}
      BY DEF ServiceTypeOK
    <3> QED
      BY <3>1 DEF StreamMove, InStep, Heard
  <2> QED
    BY <2>1, <2>2
<1>2. DecoderStep \/ DmaInterrupt \/ ClientStep => Fresh /\ Idle
  BY DEF DecoderStep, DecoderFrame, DmaInterrupt, ClientStep, serviceVars
<1>3. TypeOK /\ OutputInv /\ PassInv /\ DmaInv /\ InStep /\ [Next]_vars => [Fresh /\ Idle]_vars
  BY <1>1, <1>2 DEF Next
<1> QED
  BY <1>3, TypeCorrect, AlwaysOutput, AlwaysPass, AlwaysDma, AlwaysInStep, PTL
  DEF Spec, RefillsIdleHalf

-----------------------------------------------------------------------------
(* The blocks of a session reach the DMA buffer in order and without a gap. *)

\* Where the first p entries of a queue q are those of other sessions than s,
\* the rest continues the w blocks of s that were written, up to what the
\* decoder has decoded for it.
OrderedFrom(q, s, w, d, p) ==
  /\ p \in 0 .. Len(q)
  /\ \A i \in 1 .. p : q[i].session # s
  /\ \A i \in p + 1 .. Len(q) : q[i].session = s /\ q[i].frame + p = w + i
  /\ d.session = s => d.frame + p = w + Len(q)
  /\ d.session # s => p = Len(q) /\ w = 0

Ordered(q, s, w, d) == \E p \in Nat : OrderedFrom(q, s, w, d, p)

Decoding == [session : 0 .. SessionLimit, frame : 0 .. FrameLimit]

LEMMA DropAt ==
  ASSUME NEW q \in Seq(Filled), NEW k \in 0 .. Len(q)
  PROVE  /\ SubSeq(q, k + 1, Len(q)) \in Seq(Filled)
         /\ Len(SubSeq(q, k + 1, Len(q))) = Len(q) - k
         /\ \A i \in 1 .. Len(q) - k : SubSeq(q, k + 1, Len(q))[i] = q[k + i]
<1>1. Len(q) \in Nat /\ k \in Nat
  BY LenProperties
<1>2. \A i \in k + 1 .. Len(q) : q[i] \in Filled
  BY <1>1, ElementOfSeq
<1> QED
  BY <1>1, <1>2, SubSeqProperties

LEMMA EntryNumbers ==
  ASSUME NEW q \in Seq(Filled), NEW i \in 1 .. Len(q)
  PROVE  q[i].frame \in Nat /\ q[i].session \in Nat
<1>1. q[i] \in Filled
  BY ElementOfSeq
<1> QED
  BY <1>1 DEF Filled, Sessions

\* Writing the first active blocks, with the stale ones before them, keeps order.
LEMMA OrderedDrop ==
  ASSUME NEW q \in Seq(Filled), NEW s \in Nat, NEW w \in Nat, NEW d \in Decoding, NEW p \in Nat,
         OrderedFrom(q, s, w, d, p), NEW k \in p .. Len(q)
  PROVE  Ordered(SubSeq(q, k + 1, Len(q)), s, w + k - p, d)
<1> DEFINE r == SubSeq(q, k + 1, Len(q))
<1>1. /\ Len(q) \in Nat /\ k \in Nat /\ p <= k /\ k \in 0 .. Len(q) /\ d.frame \in Nat
  BY LenProperties, PoolAssumption DEF Decoding
<1>2. /\ Len(r) = Len(q) - k /\ Len(r) \in Nat
      /\ \A i \in 1 .. Len(q) - k : r[i] = q[k + i]
  <2>1. /\ Len(r) = Len(q) - k
        /\ \A i \in 1 .. Len(q) - k : r[i] = q[k + i]
    BY <1>1, DropAt
  <2> HIDE DEF r
  <2> QED
    BY <1>1, <2>1
<1> HIDE DEF r
<1>3. \A i \in 1 .. Len(r) : r[i].session = s /\ r[i].frame = w + k - p + i
  <2> SUFFICES ASSUME NEW i \in 1 .. Len(r)
               PROVE  r[i].session = s /\ r[i].frame = w + k - p + i
    OBVIOUS
  <2>1. k + i \in p + 1 .. Len(q) /\ r[i] = q[k + i]
    BY <1>1, <1>2
  <2>2. q[k + i].session = s /\ q[k + i].frame + p = w + (k + i)
    <3>1. \A j \in p + 1 .. Len(q) : q[j].session = s /\ q[j].frame + p = w + j
      BY DEF OrderedFrom
    <3> QED
      BY <2>1, <3>1
  <2>3. PICK f \in Nat : f = q[k + i].frame
    BY <1>1, <2>1, EntryNumbers, SMTT(30)
  <2>4. f + p = w + k + i /\ i \in Nat
    BY <1>2, <2>2, <2>3
  <2>5. f = w + k - p + i
    BY <1>1, <2>4
  <2> QED
    BY <2>1, <2>2, <2>3, <2>5
<1>4. /\ d.session = s => d.frame = w + k - p + Len(r)
      /\ d.session # s => Len(r) = 0 /\ w + k - p = 0
  <2>1. /\ d.session = s => d.frame + p = w + Len(q)
        /\ d.session # s => p = Len(q) /\ w = 0
    BY DEF OrderedFrom
  <2>2. PICK n \in Nat, m \in Nat, f \in Nat : n = Len(q) /\ m = Len(r) /\ f = d.frame
    BY <1>1, <1>2
  <2>3. m = n - k /\ k <= n /\ p <= k
    BY <1>1, <1>2, <2>2
  <2>4. CASE d.session = s
    <3>1. f + p = w + n
      BY <2>1, <2>2, <2>4
    <3>2. f = w + k - p + m
      BY <1>1, <2>3, <3>1
    <3> QED
      BY <2>2, <2>4, <3>2
  <2>5. CASE d.session # s
    BY <1>1, <2>1, <2>2, <2>3, <2>5
  <2> QED
    BY <2>4, <2>5
<1>5. OrderedFrom(r, s, w + k - p, d, 0)
  BY <1>1, <1>2, <1>3, <1>4 DEF OrderedFrom
<1> QED
  BY <1>5 DEF Ordered, r

\* Entries of other sessions only may all be dropped.
LEMMA OrderedNone ==
  ASSUME NEW q \in Seq(Filled), NEW s \in Nat, NEW w \in Nat, NEW d \in Decoding,
         Ordered(q, s, w, d), \A i \in 1 .. Len(q) : q[i].session # s
  PROVE  Ordered(<<>>, s, w, d)
<1>1. PICK p \in Nat : OrderedFrom(q, s, w, d, p)
  BY DEF Ordered
<1>2. Len(q) \in Nat /\ d.frame \in Nat
  BY LenProperties, PoolAssumption DEF Decoding
<1>3. p = Len(q)
  <2>1. p < Len(q) => p + 1 \in p + 1 .. Len(q) /\ p + 1 \in 1 .. Len(q)
    BY <1>2
  <2> QED
    BY <1>1, <1>2, <2>1 DEF OrderedFrom
<1>4. OrderedFrom(<<>>, s, w, d, 0)
  BY <1>1, <1>2, <1>3 DEF OrderedFrom
<1> QED
  BY <1>4 DEF Ordered

\* The first active entry follows the stale ones.
LEMMA OrderedFirst ==
  ASSUME NEW q \in Seq(Filled), NEW s \in Nat, NEW w \in Nat, NEW d \in Decoding, NEW p \in Nat,
         OrderedFrom(q, s, w, d, p), NEW k \in 1 .. Len(q), q[k].session = s,
         \A i \in 1 .. k - 1 : q[i].session # s
  PROVE  k = p + 1
<1>1. Len(q) \in Nat /\ k \in Nat /\ k >= 1 /\ k <= Len(q)
  BY LenProperties
<1>2. ~(k <= p)
  BY <1>1 DEF OrderedFrom
<1>3. ~(k > p + 1)
  <2>1. k > p + 1 => p + 1 \in 1 .. k - 1 /\ p + 1 \in p + 1 .. Len(q)
    BY <1>1
  <2> QED
    BY <2>1 DEF OrderedFrom
<1> QED
  BY <1>1, <1>2, <1>3

\* The decoder appends the next block of its session.
LEMMA OrderedAppend ==
  ASSUME NEW q \in Seq(Filled), NEW s \in Nat, NEW w \in Nat, NEW d \in Decoding,
         NEW e \in Filled, e.session = d.session, e.frame = d.frame + 1,
         NEW c \in Decoding, c.session = d.session, c.frame = d.frame + 1,
         Ordered(q, s, w, d)
  PROVE  Ordered(Append(q, e), s, w, c)
<1>1. PICK p \in Nat : OrderedFrom(q, s, w, d, p)
  BY DEF Ordered
<1>2. Len(q) \in Nat /\ d.frame \in Nat /\ p <= Len(q)
  BY <1>1, LenProperties, PoolAssumption DEF Decoding, OrderedFrom
<1> DEFINE r == Append(q, e)
<1>3. /\ Len(r) = Len(q) + 1 /\ Len(r) \in Nat /\ r[Len(q) + 1] = e
      /\ \A i \in 1 .. Len(q) : r[i] = q[i]
  OBVIOUS
<1> HIDE DEF r
<1>4. CASE d.session = s
  <2>0. d.frame + p = w + Len(q)
    BY <1>1, <1>4 DEF OrderedFrom
  <2>1. \A i \in p + 1 .. Len(r) : r[i].session = s /\ r[i].frame + p = w + i
    <3> SUFFICES ASSUME NEW i \in p + 1 .. Len(r)
                 PROVE  r[i].session = s /\ r[i].frame + p = w + i
      OBVIOUS
    <3>1. CASE i \in p + 1 .. Len(q)
      <4>1. i \in 1 .. Len(q)
        BY <1>2, <3>1
      <4>2. r[i] = q[i]
        BY <1>3, <4>1
      <4>3. q[i].session = s /\ q[i].frame + p = w + i
        BY <1>1, <3>1 DEF OrderedFrom
      <4> QED
        BY <4>2, <4>3
    <3>2. CASE i = Len(q) + 1
      <4>1. PICK n \in Nat, f \in Nat : n = Len(q) /\ f = d.frame
        BY <1>2
      <4>2. f + p = w + n
        BY <2>0, <4>1
      <4>3. f + 1 + p = w + (n + 1)
        BY <4>2
      <4> QED
        BY <1>3, <1>4, <3>2, <4>1, <4>3
    <3> QED
      BY <1>2, <1>3, <3>1, <3>2
  <2>2. \A i \in 1 .. p : r[i].session # s
    BY <1>1, <1>2, <1>3, SMTT(30) DEF OrderedFrom
  <2>3. c.frame + p = w + Len(r)
    BY <1>2, <1>3, <2>0, SMTT(30)
  <2>4. p \in 0 .. Len(r)
    BY <1>2, <1>3
  <2>5. OrderedFrom(r, s, w, c, p)
    BY <1>4, <2>1, <2>2, <2>3, <2>4 DEF OrderedFrom
  <2> QED
    BY <2>5 DEF Ordered, r
<1>5. CASE d.session # s
  <2>1. p = Len(q) /\ w = 0
    BY <1>1, <1>5 DEF OrderedFrom
  <2>2. \A i \in 1 .. Len(r) : r[i].session # s
    BY <1>1, <1>2, <1>3, <1>5, <2>1 DEF OrderedFrom
  <2>3. OrderedFrom(r, s, w, c, Len(r))
    BY <1>2, <1>3, <1>5, <2>1, <2>2 DEF OrderedFrom
  <2> QED
    BY <1>2, <1>3, <2>3 DEF Ordered, r
<1> QED
  BY <1>4, <1>5

\* The player task works for the session in hand: it is preparing or playing it.
Busy == state \in {"PREPARING", "PLAYING_CS4344"} /\ player_pc # "WARMUP"

\* No queue and no decoder knows a later session than the player's, and the
\* decoder's queue holds one session at most.
IdsInv ==
  /\ \A i \in 1 .. Len(ready_queue) : ready_queue[i].session <= session_id
  /\ decoding.session <= session_id
  /\ \A i \in 1 .. Len(decode_queue) : decode_queue[i] <= session_id
  /\ Len(decode_queue) <= 1

\* What is queued, or about to be, was requested.
RequestInv ==
  /\ \A i \in 1 .. Len(command_queue) : command_queue[i].kind \in Requests
  /\ Reserved # {} => "PLAY_VOICE" \in Requests

\* While the player is busy with a session, the queue is in order for it.  Once
\* the decoder has taken the session up, no other one waits for the decoder:
\* blocks of two sessions never mix behind the first block of the later one.
BusyInv ==
  Busy => /\ svc_session = session_id
          /\ decoding.session = svc_session => decode_queue = <<>>
          /\ state = "PREPARING" => written = 0
          /\ Ordered(ready_queue, svc_session, written, decoding)

LEMMA AlwaysRequested == Spec => []RequestInv
<1>1. Init => RequestInv
  BY DEF Init, RequestInv, Reserved
<1>2. TypeOK /\ RequestInv /\ CommandHandle => RequestInv'
  <2> SUFFICES ASSUME TypeOK, RequestInv, CommandHandle
               PROVE  RequestInv'
    OBVIOUS
  <2>1. /\ Len(command_queue) \in Nat \ {0} /\ Len(command_queue') = Len(command_queue) - 1
        /\ \A i \in 1 .. Len(command_queue') : command_queue'[i] = command_queue[i + 1]
    BY HeadTailProperties, EmptySeq, LenProperties DEF CommandHandle, RequestTypeOK
  <2>2. UNCHANGED Reserved
    BY DEF CommandHandle, Reserved
  <2> QED
    BY <2>1, <2>2 DEF RequestInv
<1>3. RequestInv /\ PlayerStep /\ ~CommandHandle => RequestInv'
  BY DEF RequestInv, Reserved, PlayerStep, PlayerInit, WarmupEnd, PlayerWake, CommandsDone, VoiceProcess,
     DecodeEvents, PrebufferCheck, RefillHalf, RefillFull, RefillStep, FinishCheck, commandVars
<1>4. TypeOK /\ RequestInv /\ ClientStep => RequestInv'
  <2> SUFFICES ASSUME TypeOK, RequestInv, ClientStep
               PROVE  RequestInv'
    OBVIOUS
  <2>1. \/ UNCHANGED command_queue
        \/ \E m \in Command : m.kind \in Requests /\ command_queue' = Append(command_queue, m)
    <3>1. PICK c \in Clients : \/ \E kind \in Requests : ClientSend(c, kind)
                              \/ ClientReserve(c) \/ ClientSpeak(c) \/ ClientNotify(c)
      BY DEF ClientStep
    <3>2. ASSUME NEW kind \in Requests, ClientSend(c, kind)
          PROVE  \E m \in Command : m.kind \in Requests /\ command_queue' = Append(command_queue, m)
      <4> DEFINE m == [kind |-> kind, client |-> c]
      <4>1. m \in Command /\ m.kind \in Requests /\ command_queue' = Append(command_queue, m)
        BY <3>2, RequestAssumption DEF ClientSend, Command
      <4> QED
        BY <4>1
    <3>3. CASE ClientSpeak(c) /\ QueueHasRoom /\ "PLAY_VOICE" \in Requests
      <4> DEFINE m == [kind |-> "PLAY_VOICE", client |-> c]
      <4>1. m \in Command /\ m.kind \in Requests /\ command_queue' = Append(command_queue, m)
        BY <3>3 DEF ClientSpeak, Command, RequestKinds
      <4> QED
        BY <4>1
    <3>4. CASE ClientReserve(c) \/ ClientNotify(c) \/ (ClientSpeak(c) /\ ~QueueHasRoom)
      BY <3>4 DEF ClientReserve, ClientNotify, ClientSpeak
    <3>5. ClientSpeak(c) => "PLAY_VOICE" \in Requests
      <4>1. ClientSpeak(c) => c \in Reserved
        BY DEF ClientSpeak, Reserved
      <4> QED
        BY <4>1 DEF RequestInv
    <3> QED
      BY <3>1, <3>2, <3>3, <3>4, <3>5
  <2>2. ASSUME NEW m \in Command, m.kind \in Requests, command_queue' = Append(command_queue, m)
        PROVE  \A i \in 1 .. Len(command_queue') : command_queue'[i].kind \in Requests
    <3>1. /\ Len(command_queue) \in Nat /\ Len(command_queue') = Len(command_queue) + 1
          /\ \A i \in 1 .. Len(command_queue) : command_queue'[i] = command_queue[i]
          /\ command_queue'[Len(command_queue) + 1] = m
      BY <2>2, LenProperties DEF RequestTypeOK
    <3> QED
      BY <2>2, <3>1 DEF RequestInv
  <2>3. Reserved' # {} => "PLAY_VOICE" \in Requests
    <3>1. PICK c \in Clients : \/ \E kind \in Requests : ClientSend(c, kind)
                              \/ ClientReserve(c) \/ ClientSpeak(c) \/ ClientNotify(c)
      BY DEF ClientStep
    <3>2. ClientReserve(c) => "PLAY_VOICE" \in Requests
      BY DEF ClientReserve
    <3>3. ~ClientReserve(c) => Reserved' \subseteq Reserved
      BY <3>1 DEF ClientSend, ClientSpeak, ClientNotify, Reserved, RequestTypeOK
    <3> QED
      BY <3>2, <3>3 DEF RequestInv
  <2> QED
    BY <2>1, <2>2, <2>3 DEF RequestInv
<1>5. RequestInv /\ (DecoderStep \/ DmaInterrupt \/ UNCHANGED vars) => RequestInv'
  BY DEF RequestInv, Reserved, DecoderStep, DecoderFrame, DmaInterrupt, vars, commandVars
<1>6. TypeOK /\ RequestInv /\ [Next]_vars => RequestInv'
  BY <1>2, <1>3, <1>4, <1>5 DEF Next
<1> QED
  BY <1>1, <1>6, TypeCorrect, PTL DEF Spec

\* Whatever the player does to the pool, it adds nothing to the ready queue.
LEMMA ReadyShrinks ==
  ASSUME PoolTypeOK, PoolMove
  PROVE  \A i \in 1 .. Len(ready_queue') :
           \E j \in 1 .. Len(ready_queue) : ready_queue'[i] = ready_queue[j]
<1>1. CASE UNCHANGED poolVars
  BY <1>1 DEF poolVars
<1>2. ASSUME NEW k \in 0 .. Len(ready_queue), ConsumeReady(k)
      PROVE  \A i \in 1 .. Len(ready_queue') :
               \E j \in 1 .. Len(ready_queue) : ready_queue'[i] = ready_queue[j]
  <2>1. /\ Len(ready_queue) \in Nat /\ Len(ready_queue') = Len(ready_queue) - k
        /\ \A i \in 1 .. Len(ready_queue) - k : ready_queue'[i] = ready_queue[k + i]
    BY <1>2, DropAt, LenProperties DEF PoolTypeOK, ConsumeReady
  <2>2. \A i \in 1 .. Len(ready_queue) - k : k + i \in 1 .. Len(ready_queue)
    BY <2>1
  <2> QED
    BY <2>1, <2>2
<1>3. ASSUME NEW k \in 1 .. Len(ready_queue), ready_queue' = <<ready_queue[k]>>
      PROVE  \A i \in 1 .. Len(ready_queue') :
               \E j \in 1 .. Len(ready_queue) : ready_queue'[i] = ready_queue[j]
  BY <1>3
<1> QED
  BY <1>1, <1>2, <1>3 DEF PoolMove

\* An accepted MP3 request takes the next id; nothing else changes it.
LEMMA PlayerIds ==
  ASSUME TypeOK, SessionsWrap = FALSE, PlayerStep
  PROVE  \/ UNCHANGED <<session_id, decode_queue>>
         \/ /\ session_id' = session_id + 1
            /\ UNCHANGED decode_queue \/ decode_queue' = <<session_id'>>
<1>1. CASE CommandHandle
  <2>1. CASE UNCHANGED <<session_id, decode_queue>>
    BY <2>1
  <2>2. CASE ~UNCHANGED <<session_id, decode_queue>>
    <3>1. Mp3RequestHandle
      BY <1>1, <2>2 DEF CommandHandle, VoiceRequestHandle, runtimeVars
    <3>2. /\ session_id < SessionLimit /\ session_id' = NextSession(session_id)
          /\ UNCHANGED decode_queue \/ decode_queue' = <<session_id'>>
      BY <2>2, <3>1 DEF Mp3RequestHandle, runtimeVars
    <3>3. NextSession(session_id) = session_id + 1
      BY <3>2, PoolAssumption DEF NextSession, PlayerTypeOK
    <3> QED
      BY <3>2, <3>3
  <2> QED
    BY <2>1, <2>2
<1>2. CASE ~CommandHandle
  BY <1>2 DEF PlayerStep, PlayerInit, WarmupEnd, PlayerWake, CommandsDone, VoiceProcess,
     DecodeEvents, PrebufferCheck, RefillHalf, RefillFull, RefillStep, FinishCheck, runtimeVars
<1> QED
  BY <1>1, <1>2

LEMMA PlayerKeepsIds ==
  ASSUME TypeOK, SessionsWrap = FALSE, IdsInv, PlayerStep
  PROVE  IdsInv'
<1>1. session_id \in Nat /\ session_id' \in Nat /\ session_id <= session_id'
  <2>1. session_id \in Nat
    BY PoolAssumption DEF PlayerTypeOK
  <2>2. session_id' = session_id \/ session_id' = session_id + 1
    BY PlayerIds
  <2> QED
    BY <2>1, <2>2
<1>2. \A i \in 1 .. Len(ready_queue') : ready_queue'[i].session <= session_id'
  <2>1. \A j \in 1 .. Len(ready_queue) :
           ready_queue[j].session \in Nat /\ ready_queue[j].session <= session_id
    BY EntryNumbers DEF PoolTypeOK, IdsInv
  <2>2. \A j \in 1 .. Len(ready_queue) : ready_queue[j].session <= session_id'
    BY <1>1, <2>1
  <2> QED
    BY <2>2, PlayerMoves, ReadyShrinks
<1>3. decoding'.session <= session_id'
  <2>1. decoding.session \in Nat /\ decoding.session <= session_id /\ decoding' = decoding
    BY PlayerLeavesDecoder, PoolAssumption DEF decoderVars, DecoderTypeOK, IdsInv
  <2> QED
    BY <1>1, <2>1
<1>4. (\A i \in 1 .. Len(decode_queue') : decode_queue'[i] <= session_id') /\ Len(decode_queue') <= 1
  <2>1. CASE UNCHANGED decode_queue
    <3>1. \A i \in 1 .. Len(decode_queue) :
            decode_queue[i] \in Nat /\ decode_queue[i] <= session_id
      <4>1. \A i \in 1 .. Len(decode_queue) : decode_queue[i] \in Sessions
        BY ElementOfSeq DEF DecoderTypeOK
      <4> QED
        BY <4>1 DEF Sessions, IdsInv
    <3> QED
      BY <1>1, <2>1, <3>1 DEF IdsInv
  <2>2. CASE decode_queue' = <<session_id'>>
    BY <1>1, <2>2
  <2> QED
    BY <2>1, <2>2, PlayerIds
<1> QED
  BY <1>2, <1>3, <1>4 DEF IdsInv

\* What a step of the decoder does to the queues and to the session it works for.
DecoderMove ==
  \/ UNCHANGED <<ready_queue, decoding, decode_queue>>
  \/ /\ decode_queue # <<>> /\ decode_queue' = Tail(decode_queue)
     /\ decoding' = [session |-> Head(decode_queue), frame |-> 0]
     /\ UNCHANGED ready_queue
  \/ /\ \E b \in Blocks :
          ready_queue' = Append(ready_queue, [block |-> b, session |-> decoding.session,
                                              frame |-> decoding.frame + 1])
     /\ decoding.session \in Sessions /\ decoding.frame < FrameLimit
     /\ decoding' = [decoding EXCEPT !.frame = @ + 1]
     /\ UNCHANGED decode_queue

LEMMA DecoderMoves == Typed /\ DecoderStep => DecoderMove
<1> SUFFICES ASSUME Typed, DecoderStep
             PROVE  DecoderMove
  OBVIOUS
<1>1. CASE DecoderReceive
  BY <1>1 DEF DecoderReceive, DecoderMove, poolVars
<1>2. CASE DecodeFrame
  <2>1. held \in Blocks /\ decoding.session \in Sessions
    BY <1>2 DEF DecodeFrame, Typed, DecoderInv, PoolTypeOK
  <2> QED
    BY <1>2, <2>1 DEF DecodeFrame, DecoderMove
<1>3. CASE DecoderOpen \/ DecoderCheckStop \/ DecoderTake \/ DecodeNothing \/ DecoderDelay
             \/ DecoderPost \/ DecoderClose
  BY <1>3 DEF DecoderOpen, DecoderCheckStop, DecoderTake, DecodeNothing, DecoderDelay, DecoderPost,
     DecoderClose, DecoderMove, poolVars
<1> QED
  BY <1>1, <1>2, <1>3 DEF DecoderStep

LEMMA DecoderKeepsIds ==
  ASSUME Typed, IdsInv, DecoderStep
  PROVE  IdsInv'
<1>1. UNCHANGED session_id /\ TypeOK
  BY DEF DecoderStep, DecoderFrame, runtimeVars, Typed
<1>2. CASE UNCHANGED <<ready_queue, decoding, decode_queue>>
  BY <1>1, <1>2 DEF IdsInv
<1>3. CASE /\ decode_queue # <<>> /\ decode_queue' = Tail(decode_queue)
           /\ decoding' = [session |-> Head(decode_queue), frame |-> 0]
           /\ UNCHANGED ready_queue
  <2>1. /\ Len(decode_queue) \in Nat \ {0} /\ Len(decode_queue') = Len(decode_queue) - 1
        /\ \A i \in 1 .. Len(decode_queue') : decode_queue'[i] = decode_queue[i + 1]
        /\ Head(decode_queue) = decode_queue[1]
    BY <1>1, <1>3, HeadTailProperties, EmptySeq, LenProperties DEF DecoderTypeOK
  <2>2. Len(decode_queue) = 1
    BY <2>1 DEF IdsInv
  <2>3. decoding'.session <= session_id'
    <3>1. decoding'.session = decode_queue[1] /\ 1 \in 1 .. Len(decode_queue)
      BY <1>3, <2>1
    <3> QED
      BY <1>1, <3>1 DEF IdsInv
  <2>4. 1 .. Len(decode_queue') = {} /\ Len(decode_queue') <= 1
    BY <2>1, <2>2
  <2> QED
    BY <1>1, <1>3, <2>3, <2>4 DEF IdsInv
<1>4. ASSUME NEW e, e.session = decoding.session, ready_queue' = Append(ready_queue, e),
             decoding'.session = decoding.session, UNCHANGED decode_queue
      PROVE  IdsInv'
  <2>1. /\ Len(ready_queue) \in Nat /\ Len(ready_queue') = Len(ready_queue) + 1
        /\ \A i \in 1 .. Len(ready_queue) : ready_queue'[i] = ready_queue[i]
        /\ ready_queue'[Len(ready_queue) + 1] = e
    BY <1>1, <1>4, LenProperties DEF PoolTypeOK
  <2> QED
    BY <1>1, <1>4, <2>1 DEF IdsInv
<1>5. ASSUME NEW b \in Blocks,
             ready_queue' = Append(ready_queue, [block |-> b, session |-> decoding.session,
                                                 frame |-> decoding.frame + 1]),
             decoding' = [decoding EXCEPT !.frame = @ + 1], UNCHANGED decode_queue
      PROVE  IdsInv'
  <2> DEFINE e == [block |-> b, session |-> decoding.session, frame |-> decoding.frame + 1]
  <2>1. /\ e.session = decoding.session /\ ready_queue' = Append(ready_queue, e)
        /\ decoding'.session = decoding.session
    BY <1>1, <1>5 DEF DecoderTypeOK
  <2> HIDE DEF e
  <2> QED
    BY <1>4, <1>5, <2>1
<1> QED
  BY <1>2, <1>3, <1>5, DecoderMoves DEF DecoderMove

LEMMA AlwaysIds ==
  ASSUME SessionsWrap = FALSE
  PROVE  Spec => []IdsInv
<1>1. Init => IdsInv
  BY DEF Init, IdsInv
<1>2. IdsInv /\ (DmaInterrupt \/ ClientStep \/ UNCHANGED vars) => IdsInv'
  BY DEF IdsInv, DmaInterrupt, ClientStep, vars, poolVars, runtimeVars, decoderVars
<1>3. Typed /\ IdsInv /\ [Next]_vars => IdsInv'
  BY <1>2, PlayerKeepsIds, DecoderKeepsIds DEF Next, Typed
<1> QED
  BY <1>1, <1>3, AlwaysTyped, PTL DEF Spec

LEMMA OrderTyped ==
  ASSUME TypeOK
  PROVE  /\ ready_queue \in Seq(Filled) /\ Len(ready_queue) \in Nat /\ svc_session \in Nat
         /\ written \in Nat /\ decoding \in Decoding /\ session_id \in Nat
  BY PoolAssumption, LenProperties
  DEF PoolTypeOK, ServiceTypeOK, DecoderTypeOK, PlayerTypeOK, Decoding

\* Writing the first active entry, or the first two, keeps what follows in order.
LEMMA OrderedTake ==
  ASSUME NEW q \in Seq(Filled), NEW s \in Nat, NEW w \in Nat, NEW d \in Decoding,
         Ordered(q, s, w, d), NEW k \in 1 .. Len(q), q[k].session = s,
         \A i \in 1 .. k - 1 : q[i].session # s
  PROVE  Ordered(SubSeq(q, k + 1, Len(q)), s, w + 1, d)
<1>1. PICK p \in Nat : OrderedFrom(q, s, w, d, p)
  BY DEF Ordered
<1>2. k = p + 1
  BY <1>1, OrderedFirst
<1>3. k \in p .. Len(q) /\ w + k - p = w + 1
  BY <1>2
<1> QED
  BY <1>1, <1>3, OrderedDrop

LEMMA OrderedSecond ==
  ASSUME NEW q \in Seq(Filled), NEW s \in Nat, NEW w \in Nat, NEW d \in Decoding,
         Ordered(q, s, w, d), NEW k \in 1 .. Len(q), q[k].session = s,
         \A i \in 1 .. k - 1 : q[i].session # s,
         NEW l \in k + 1 .. Len(q), q[l].session = s, \A i \in k + 1 .. l - 1 : q[i].session # s
  PROVE  Ordered(SubSeq(q, l + 1, Len(q)), s, w + 2, d)
<1>1. PICK p \in Nat : OrderedFrom(q, s, w, d, p)
  BY DEF Ordered
<1>2. k = p + 1 /\ Len(q) \in Nat
  BY <1>1, OrderedFirst, LenProperties
<1>3. l = p + 2
  <2>1. l > p + 2 => p + 2 \in k + 1 .. l - 1 /\ p + 2 \in p + 1 .. Len(q)
    BY <1>2
  <2>2. ~(l > p + 2)
    BY <1>1, <2>1 DEF OrderedFrom
  <2> QED
    BY <1>2, <2>2
<1>4. l \in p .. Len(q) /\ w + l - p = w + 2
  BY <1>2, <1>3
<1> QED
  BY <1>1, <1>4, OrderedDrop

\* An active entry that no other follows is the last of the queue.
LEMMA OrderedLast ==
  ASSUME NEW q \in Seq(Filled), NEW s \in Nat, NEW w \in Nat, NEW d \in Decoding,
         Ordered(q, s, w, d), NEW k \in 1 .. Len(q), q[k].session = s,
         \A i \in 1 .. k - 1 : q[i].session # s, \A i \in k + 1 .. Len(q) : q[i].session # s
  PROVE  /\ Ordered(SubSeq(q, Len(q) + 1, Len(q)), s, w + 1, d)
         /\ Ordered(<<q[k]>>, s, w, d)
<1>1. PICK p \in Nat : OrderedFrom(q, s, w, d, p)
  BY DEF Ordered
<1>2. k = p + 1 /\ Len(q) \in Nat
  BY <1>1, OrderedFirst, LenProperties
<1>3. Len(q) = p + 1
  <2>1. Len(q) > p + 1 => p + 2 \in k + 1 .. Len(q) /\ p + 2 \in p + 1 .. Len(q)
    BY <1>2
  <2>2. ~(Len(q) > p + 1)
    BY <1>1, <2>1 DEF OrderedFrom
  <2> QED
    BY <1>2, <2>2
<1>4. Ordered(SubSeq(q, Len(q) + 1, Len(q)), s, w + 1, d)
  BY <1>2, <1>3, OrderedTake
<1>5. Ordered(<<q[k]>>, s, w, d)
  <2>1. q[k].frame + p = w + k
    BY <1>1, <1>2 DEF OrderedFrom
  <2>2. d.session = s /\ d.frame + p = w + (p + 1)
    BY <1>1, <1>3 DEF OrderedFrom
  <2>3. PICK f \in Nat, g \in Nat : f = q[k].frame /\ g = d.frame
    BY EntryNumbers, PoolAssumption, SMTT(30) DEF Decoding
  <2>4. f + p = w + (p + 1) /\ g + p = w + (p + 1)
    BY <1>2, <2>1, <2>2, <2>3
  <2>5. f = w + 1 /\ g = w + 1
    BY <2>4
  <2> DEFINE r == <<q[k]>>
  <2>6. Len(r) = 1 /\ r[1] = q[k] /\ q[k].frame + 0 = w + 1 /\ d.frame + 0 = w + 1
    BY <2>3, <2>5
  <2> HIDE DEF r
  <2>7. \A i \in 0 + 1 .. Len(r) : r[i].session = s /\ r[i].frame + 0 = w + i
    BY <2>6
  <2>8. OrderedFrom(r, s, w, d, 0)
    BY <2>2, <2>6, <2>7 DEF OrderedFrom
  <2> QED
    BY <2>8 DEF Ordered, r
<1> QED
  BY <1>4, <1>5

\* A step that changes neither the session nor its queues.
LEMMA QuietOrder ==
  ASSUME BusyInv, Busy' => Busy, UNCHANGED <<state, svc_session, written, session_id>>,
         UNCHANGED <<ready_queue, decoding, decode_queue>>
  PROVE  BusyInv'
  BY DEF BusyInv

LEMMA RefillKeepsOrder ==
  ASSUME TypeOK, NEW h \in Halves, Refill(h), Ordered(ready_queue, svc_session, written, decoding)
  PROVE  Ordered(ready_queue', svc_session, written', decoding)
<1>1. ASSUME NEW k \in 1 .. Len(ready_queue), Takes(k, 1), written' = written + 1, ConsumeReady(k)
      PROVE  Ordered(ready_queue', svc_session, written', decoding)
  <2>1. ready_queue[k].session = svc_session /\ \A i \in 1 .. k - 1 : ready_queue[i].session # svc_session
    BY <1>1 DEF Takes, IsActive
  <2> QED
    BY <1>1, <2>1, OrderTyped, OrderedTake DEF ConsumeReady
<1>2. ASSUME TakesNothing(1), ready_queue' = <<>>, written' = written
      PROVE  Ordered(ready_queue', svc_session, written', decoding)
  <2>1. \A i \in 1 .. Len(ready_queue) : ready_queue[i].session # svc_session
    BY <1>2 DEF TakesNothing, IsActive
  <2> QED
    BY <1>2, <2>1, OrderTyped, OrderedNone
<1> QED
  BY <1>1, <1>2 DEF Refill, ReadyQueueFlush

LEMMA StartKeepsOrder ==
  ASSUME TypeOK, StartIfReady, written = 0, state = "PREPARING",
         Ordered(ready_queue, svc_session, written, decoding)
  PROVE  \/ state' = "IDLE"
         \/ /\ UNCHANGED svc_session /\ Ordered(ready_queue', svc_session, written', decoding)
            /\ state' = "PREPARING" => written' = 0
<1> DEFINE Goal == \/ state' = "IDLE"
                   \/ /\ UNCHANGED svc_session
                      /\ Ordered(ready_queue', svc_session, written', decoding)
                      /\ state' = "PREPARING" => written' = 0
<1>1. ASSUME NEW k1 \in 1 .. Len(ready_queue), NEW k2 \in 1 .. Len(ready_queue),
             Takes(k1, 1), Takes(k2, k1 + 1), Start(k1, k2)
      PROVE  Goal
  <2>1. /\ ready_queue[k1].session = svc_session /\ ready_queue[k2].session = svc_session
        /\ \A i \in 1 .. k1 - 1 : ready_queue[i].session # svc_session
        /\ \A i \in k1 + 1 .. k2 - 1 : ready_queue[i].session # svc_session
        /\ k2 \in k1 + 1 .. Len(ready_queue)
    BY <1>1 DEF Takes, IsActive
  <2>2. Ordered(SubSeq(ready_queue, k2 + 1, Len(ready_queue)), svc_session, 2, decoding)
    <3>1. written + 2 = 2
      OBVIOUS
    <3>2. Ordered(SubSeq(ready_queue, k2 + 1, Len(ready_queue)), svc_session, written + 2, decoding)
      BY <2>1, OrderTyped, OrderedSecond
    <3> QED
      BY <3>1, <3>2
  <2>3. \/ state' = "IDLE"
        \/ state' = "PLAYING_CS4344" /\ written' = 2 /\ ConsumeReady(k2) /\ UNCHANGED svc_session
    BY <1>1 DEF Start
  <2> QED
    BY <2>2, <2>3 DEF ConsumeReady
<1>2. ASSUME NEW k1 \in 1 .. Len(ready_queue), Takes(k1, 1), TakesNothing(k1 + 1)
      PROVE  /\ Ordered(SubSeq(ready_queue, Len(ready_queue) + 1, Len(ready_queue)), svc_session, 1,
                        decoding)
             /\ Ordered(<<ready_queue[k1]>>, svc_session, 0, decoding)
  <2>1. /\ ready_queue[k1].session = svc_session
        /\ \A i \in 1 .. k1 - 1 : ready_queue[i].session # svc_session
        /\ \A i \in k1 + 1 .. Len(ready_queue) : ready_queue[i].session # svc_session
    BY <1>2 DEF Takes, TakesNothing, IsActive
  <2> QED
    BY <2>1, OrderTyped, OrderedLast
<1>3. ASSUME NEW k1 \in 1 .. Len(ready_queue), Takes(k1, 1), TakesNothing(k1 + 1), Start(k1, 0)
      PROVE  Goal
  <2>1. \/ state' = "IDLE"
        \/ /\ state' = "PLAYING_CS4344" /\ written' = 1 /\ UNCHANGED svc_session
           /\ ConsumeReady(Len(ready_queue))
    BY <1>3 DEF Start
  <2> QED
    BY <1>2, <1>3, <2>1 DEF ConsumeReady
<1>4. ASSUME NEW k1 \in 1 .. Len(ready_queue), Takes(k1, 1), TakesNothing(k1 + 1),
             ready_queue' = <<ready_queue[k1]>>, UNCHANGED serviceVars
      PROVE  Goal
  BY <1>2, <1>4 DEF serviceVars
<1>5. ASSUME TakesNothing(1), ready_queue' = <<>>, UNCHANGED serviceVars
      PROVE  Goal
  <2>1. \A i \in 1 .. Len(ready_queue) : ready_queue[i].session # svc_session
    BY <1>5 DEF TakesNothing, IsActive
  <2>2. Ordered(<<>>, svc_session, 0, decoding)
    BY <2>1, OrderTyped, OrderedNone
  <2> QED
    BY <1>5, <2>2 DEF serviceVars
<1> QED
  BY <1>1, <1>3, <1>4, <1>5 DEF StartIfReady, ReadyQueueFlush

\* A request that is accepted finds blocks of earlier sessions only.
LEMMA AcceptKeepsOrder ==
  ASSUME TypeOK, SessionsWrap = FALSE, IdsInv, BusyInv, Mp3RequestHandle,
         UNCHANGED <<player_pc, decoderVars>>
  PROVE  BusyInv'
<1>1. CASE UNCHANGED <<serviceVars, runtimeVars, poolVars, decode_queue>>
  <2>1. UNCHANGED <<state, svc_session, written, session_id, ready_queue, decoding, decode_queue>>
    BY <1>1 DEF serviceVars, runtimeVars, poolVars, decoderVars
  <2> QED
    BY <2>1, QuietOrder DEF Busy
<1>2. CASE state' = "IDLE"
  BY <1>2 DEF BusyInv, Busy
<1>3. CASE /\ state' = "PREPARING" /\ written' = 0 /\ UNCHANGED poolVars
           /\ session_id < SessionLimit
           /\ svc_session' = NextSession(session_id) /\ session_id' = NextSession(session_id)
  <2>1. svc_session' = session_id + 1 /\ session_id' = session_id + 1
    BY <1>3, PoolAssumption DEF NextSession, PlayerTypeOK
  <2>2. UNCHANGED <<ready_queue, decoding>>
    BY <1>3 DEF poolVars, decoderVars
  <2>3. decoding.session # svc_session'
    <3>1. decoding.session \in Nat
      BY PoolAssumption DEF DecoderTypeOK
    <3> QED
      BY <2>1, <3>1, OrderTyped DEF IdsInv
  <2>4. \A i \in 1 .. Len(ready_queue) : ready_queue[i].session # svc_session'
    <3>1. \A i \in 1 .. Len(ready_queue) : ready_queue[i].session \in Nat
      BY EntryNumbers, OrderTyped
    <3> QED
      BY <2>1, <3>1, OrderTyped DEF IdsInv
  <2>5. OrderedFrom(ready_queue, svc_session', 0, decoding, Len(ready_queue))
    BY <2>3, <2>4, OrderTyped DEF OrderedFrom
  <2>6. Ordered(ready_queue, svc_session', 0, decoding)
    BY <2>5, OrderTyped DEF Ordered
  <2> QED
    BY <1>3, <2>1, <2>2, <2>3, <2>6 DEF BusyInv
<1> QED
  BY <1>1, <1>2, <1>3 DEF Mp3RequestHandle

LEMMA CommandKeepsOrder ==
  ASSUME TypeOK, SessionsWrap = FALSE, "EMERGENCY_OFF" \notin Requests,
         IdsInv, RequestInv, BusyInv, CommandHandle
  PROVE  BusyInv'
<1>1. UNCHANGED <<player_pc, decoderVars>>
  BY DEF CommandHandle
<1>2. CASE Mp3RequestHandle
  BY <1>1, <1>2, AcceptKeepsOrder
<1>3. CASE VoiceRequestHandle /\ UNCHANGED <<svc_session, half, stream, dma_half, written,
             runtimeVars, poolVars, decode_queue, decoder_stop>>
  <2>1. UNCHANGED <<svc_session, written, session_id, ready_queue, decoding, decode_queue>>
    BY <1>1, <1>3 DEF runtimeVars, poolVars, decoderVars
  <2>2. UNCHANGED state \/ state' \in {"IDLE", "PLAYING_VOICE"}
    BY <1>3 DEF VoiceRequestHandle
  <2> QED
    BY <1>1, <2>1, <2>2, QuietOrder DEF Busy, BusyInv
<1>4. CASE StopHandle \/ EmergencyEnter
  <2>1. state' \in {"IDLE", "EMERGENCY", "ERROR"}
    BY <1>4 DEF StopHandle, PlayerStop, ServiceStop, EmergencyEnter
  <2> QED
    BY <2>1 DEF BusyInv, Busy
<1>5. Head(command_queue).kind # "EMERGENCY_OFF"
  <2>1. Len(command_queue) \in Nat \ {0} /\ Head(command_queue) = command_queue[1]
    BY EmptySeq, LenProperties DEF CommandHandle, RequestTypeOK
  <2>2. command_queue[1].kind \in Requests
    BY <2>1 DEF RequestInv
  <2> QED
    BY <2>1, <2>2
<1> QED
  BY <1>2, <1>3, <1>4, <1>5 DEF CommandHandle

LEMMA PlayerKeepsOrder ==
  ASSUME TypeOK, SessionsWrap = FALSE, "EMERGENCY_OFF" \notin Requests,
         PassInv, IdsInv, RequestInv, BusyInv, PlayerStep
  PROVE  BusyInv'
<1> DEFINE Kept == UNCHANGED <<svc_session, written, session_id>>
                     /\ UNCHANGED <<ready_queue, decoding, decode_queue>>
<1>1. CASE PlayerInit \/ WarmupEnd
  <2>1. ~Busy'
    BY <1>1 DEF PlayerInit, WarmupEnd, ServiceStop, Busy
  <2> QED
    BY <2>1 DEF BusyInv
<1>2. CASE PlayerWake \/ CommandsDone \/ VoiceProcess
  <2>1. Kept /\ player_pc # "WARMUP"
    BY <1>2 DEF PlayerWake, CommandsDone, VoiceProcess, serviceVars, runtimeVars, poolVars,
       decoderVars
  <2>2. UNCHANGED state \/ state' \in {"IDLE", "ERROR"}
    BY <1>2 DEF PlayerWake, CommandsDone, VoiceProcess, serviceVars
  <2> QED
    BY <2>1, <2>2, QuietOrder DEF Busy, BusyInv
<1>3. CASE CommandHandle
  BY <1>3, CommandKeepsOrder
<1>4. CASE DecodeEvents \/ FinishCheck
  <2>1. player_pc # "WARMUP" /\ UNCHANGED <<session_id, decoding, decode_queue>>
    BY <1>4 DEF DecodeEvents, FinishCheck, runtimeVars, decoderVars
  <2>2. state' = "IDLE" \/ (UNCHANGED serviceVars /\ UNCHANGED poolVars)
    BY <1>4 DEF DecodeEvents, FinishCheck, PlayerStop, ServiceStop
  <2>3. state' = "IDLE" \/ UNCHANGED <<state, svc_session, written, ready_queue>>
    BY <2>2 DEF serviceVars, poolVars
  <2> QED
    BY <2>1, <2>3, QuietOrder DEF Busy, BusyInv
<1>5. CASE PrebufferCheck
  <2>1. player_pc # "WARMUP" /\ UNCHANGED <<session_id, decoding, decode_queue>>
    BY <1>5 DEF PrebufferCheck, runtimeVars, decoderVars
  <2>2. CASE UNCHANGED serviceVars /\ UNCHANGED poolVars
    <3>1. UNCHANGED <<state, svc_session, written, ready_queue>>
      BY <2>2 DEF serviceVars, poolVars
    <3> QED
      BY <2>1, <3>1, QuietOrder DEF Busy
  <2>3. CASE state = "PREPARING" /\ StartIfReady
    <3>1. Busy /\ written = 0
      BY <2>1, <2>3 DEF Busy, BusyInv
    <3>2. \/ state' = "IDLE"
          \/ /\ UNCHANGED svc_session /\ Ordered(ready_queue', svc_session, written', decoding)
             /\ state' = "PREPARING" => written' = 0
      BY <2>3, <3>1, StartKeepsOrder DEF BusyInv
    <3> QED
      BY <2>1, <3>1, <3>2 DEF BusyInv, Busy
  <2> QED
    BY <1>5, <2>2, <2>3 DEF PrebufferCheck
<1>6. CASE RefillHalf \/ RefillFull
  <2>1. /\ state = "PLAYING_CS4344" /\ Busy
        /\ UNCHANGED <<state, svc_session, session_id, decoding, decode_queue>>
    BY <1>6 DEF RefillHalf, RefillFull, RefillStep, PassInv, Busy, runtimeVars, decoderVars
  <2>2. (\E h \in Halves : Refill(h)) \/ UNCHANGED <<written, ready_queue>>
    BY <1>6 DEF RefillHalf, RefillFull, RefillStep, poolVars
  <2>3. Ordered(ready_queue', svc_session, written', decoding)
    BY <2>1, <2>2, RefillKeepsOrder DEF BusyInv
  <2> QED
    BY <2>1, <2>3 DEF BusyInv
<1> QED
  BY <1>1, <1>2, <1>3, <1>4, <1>5, <1>6 DEF PlayerStep

LEMMA DecoderKeepsOrder ==
  ASSUME Typed, IdsInv, BusyInv, DecoderStep
  PROVE  BusyInv'
<1>1. /\ TypeOK /\ UNCHANGED <<state, svc_session, written, session_id, player_pc>>
      /\ UNCHANGED Busy
  BY DEF DecoderStep, DecoderFrame, serviceVars, runtimeVars, Typed, Busy
<1>2. CASE UNCHANGED <<ready_queue, decoding, decode_queue>>
  BY <1>1, <1>2, QuietOrder
<1> SUFFICES ASSUME Busy
             PROVE  BusyInv'
  BY <1>1 DEF BusyInv
<1>3. Ordered(ready_queue, svc_session, written, decoding)
  BY DEF BusyInv
<1>4. CASE /\ decode_queue # <<>> /\ decode_queue' = Tail(decode_queue)
           /\ decoding' = [session |-> Head(decode_queue), frame |-> 0]
           /\ UNCHANGED ready_queue
  <2>1. decoding.session # svc_session
    BY <1>4 DEF BusyInv
  <2>2. PICK p \in Nat : OrderedFrom(ready_queue, svc_session, written, decoding, p)
    BY <1>3 DEF Ordered
  <2>3. p = Len(ready_queue) /\ written = 0
    BY <2>1, <2>2 DEF OrderedFrom
  <2>4. decoding'.frame = 0
    BY <1>4
  <2>5. OrderedFrom(ready_queue, svc_session, 0, decoding', p)
    BY <1>1, <2>2, <2>3, <2>4, OrderTyped DEF OrderedFrom
  <2>6. decode_queue' = <<>>
    <3>1. /\ Len(decode_queue) \in Nat \ {0} /\ Len(decode_queue') = Len(decode_queue) - 1
          /\ decode_queue' \in Seq(Sessions)
      BY <1>1, <1>4, HeadTailProperties, EmptySeq, LenProperties DEF DecoderTypeOK
    <3>2. Len(decode_queue') = 0
      BY <3>1 DEF IdsInv
    <3> QED
      BY <3>1, <3>2, EmptySeq
  <2> QED
    BY <1>1, <1>4, <2>3, <2>5, <2>6 DEF BusyInv, Ordered
<1>5. ASSUME NEW b \in Blocks, decoding.session \in Sessions, decoding.frame < FrameLimit,
             ready_queue' = Append(ready_queue, [block |-> b, session |-> decoding.session,
                                                 frame |-> decoding.frame + 1]),
             decoding' = [decoding EXCEPT !.frame = @ + 1], UNCHANGED decode_queue
      PROVE  BusyInv'
  <2> DEFINE e == [block |-> b, session |-> decoding.session, frame |-> decoding.frame + 1]
  <2>1. decoding.frame \in Nat /\ decoding.frame + 1 \in 1 .. FrameLimit
    BY <1>1, <1>5, PoolAssumption DEF DecoderTypeOK
  <2>2. e \in Filled /\ e.session = decoding.session /\ e.frame = decoding.frame + 1
    BY <1>5, <2>1 DEF Filled
  <2>3. /\ decoding' \in Decoding /\ decoding'.session = decoding.session
        /\ decoding'.frame = decoding.frame + 1
    BY <1>1, <1>5, <2>1, PoolAssumption DEF DecoderTypeOK, Decoding
  <2>4. ready_queue' = Append(ready_queue, e)
    BY <1>5
  <2> HIDE DEF e
  <2>5. Ordered(ready_queue', svc_session, written, decoding')
    BY <1>1, <1>3, <2>2, <2>3, <2>4, OrderTyped, OrderedAppend
  <2> QED
    BY <1>1, <1>5, <2>3, <2>5 DEF BusyInv
<1> QED
  BY <1>2, <1>4, <1>5, DecoderMoves DEF DecoderMove

LEMMA AlwaysOrdered ==
  ASSUME SessionsWrap = FALSE, "EMERGENCY_OFF" \notin Requests
  PROVE  Spec => []BusyInv
<1>1. Init => BusyInv
  BY DEF Init, BusyInv, Busy
<1>2. BusyInv /\ (DmaInterrupt \/ ClientStep \/ UNCHANGED vars) => BusyInv'
  BY QuietOrder DEF Busy, DmaInterrupt, ClientStep, vars, serviceVars, runtimeVars, poolVars,
     decoderVars
<1>3. Typed /\ PassInv /\ IdsInv /\ RequestInv /\ BusyInv /\ [Next]_vars => BusyInv'
  BY <1>2, PlayerKeepsOrder, DecoderKeepsOrder DEF Next, Typed
<1> QED
  BY <1>1, <1>3, AlwaysTyped, AlwaysPass, AlwaysIds, AlwaysRequested, PTL DEF Spec

\* In a queue that is in order, the n-th active entry is the n-th after the
\* stale ones.
LEMMA OrderedCount ==
  ASSUME TypeOK, NEW p \in Nat,
         OrderedFrom(ready_queue, svc_session, written, decoding, p),
         NEW n \in p .. Len(ready_queue)
  PROVE  ActiveUpTo(n) = n - p
<1>1. n \in Nat /\ p <= n
  BY OrderTyped
<1>2. {i \in 1 .. n : IsActive(i)} = p + 1 .. n
  BY <1>1, OrderTyped DEF OrderedFrom, IsActive
<1>3. Cardinality(p + 1 .. n) = n - p
  <2>1. Cardinality(p + 1 .. n) = IF p + 1 > n THEN 0 ELSE n - (p + 1) + 1
    BY <1>1, FS_Interval
  <2> QED
    BY <1>1, <2>1
<1> QED
  BY <1>2, <1>3 DEF ActiveUpTo

\* While session ids are not reused and no EMERGENCY_OFF is sent, no block of a
\* session is lost, repeated or overtaken between the decoder and the DMA
\* buffer, however far the decoder runs ahead and whatever an earlier session
\* left in the queue.
THEOREM AudioInOrder ==
  ASSUME SessionsWrap = FALSE, "EMERGENCY_OFF" \notin Requests
  PROVE  Spec => []AudioGapless
<1>1. TypeOK /\ BusyInv => AudioGapless
  <2> SUFFICES ASSUME TypeOK, BusyInv, Busy
               PROVE  /\ \A i \in 1 .. Len(ready_queue) :
                           IsActive(i) => ready_queue[i].frame = written + ActiveUpTo(i)
                      /\ decoding.session = svc_session
                           => decoding.frame = written + ActiveUpTo(Len(ready_queue))
    BY DEF AudioGapless, Busy
  <2>1. PICK p \in Nat : OrderedFrom(ready_queue, svc_session, written, decoding, p)
    BY DEF BusyInv, Ordered
  <2>2. ASSUME NEW i \in 1 .. Len(ready_queue), IsActive(i)
        PROVE  ready_queue[i].frame = written + ActiveUpTo(i)
    <3>1. i \in p + 1 .. Len(ready_queue)
      BY <2>1, <2>2, OrderTyped DEF OrderedFrom, IsActive
    <3>2. ready_queue[i].frame + p = written + i
      BY <2>1, <3>1 DEF OrderedFrom
    <3>3. i \in p .. Len(ready_queue)
      BY <3>1, OrderTyped
    <3>4. ActiveUpTo(i) = i - p
      BY <2>1, <3>3, OrderedCount
    <3>5. PICK f \in Nat : f = ready_queue[i].frame
      BY EntryNumbers, OrderTyped
    <3>6. f + p = written + i /\ written \in Nat /\ i \in Nat
      BY <3>2, <3>5, OrderTyped
    <3>7. f = written + (i - p)
      BY <3>6
    <3> QED
      BY <3>4, <3>5, <3>7
  <2>3. ASSUME decoding.session = svc_session
        PROVE  decoding.frame = written + ActiveUpTo(Len(ready_queue))
    <3>1. decoding.frame + p = written + Len(ready_queue) /\ Len(ready_queue) \in p .. Len(ready_queue)
      BY <2>1, <2>3, OrderTyped DEF OrderedFrom
    <3>2. ActiveUpTo(Len(ready_queue)) = Len(ready_queue) - p
      BY <2>1, <3>1, OrderedCount
    <3>3. PICK f \in Nat, n \in Nat : f = decoding.frame /\ n = Len(ready_queue)
      BY OrderTyped, PoolAssumption DEF Decoding
    <3>4. f + p = written + n /\ written \in Nat
      BY <3>1, <3>3, OrderTyped
    <3>5. f = written + (n - p)
      BY <3>4
    <3> QED
      BY <3>2, <3>3, <3>5
  <2> QED
    BY <2>2, <2>3
<1> QED
  BY <1>1, TypeCorrect, AlwaysOrdered, PTL

-----------------------------------------------------------------------------
(* A source is played to its end.                                          *)

Listening == /\ Requests \subseteq {"PLAY_MP3", "PLAY_VOICE"}
             /\ Faults = FALSE

\* The bits by which the decoder tells the player that it is done.
Posts == {"DECODE_EOF", "DECODE_ERROR"}

DecoderDone == decoder_pc \in {"CLOSE", "RECEIVE"} /\ decode_queue = <<>>

\* The session in hand waits for the decoder, or the decoder has taken it up and
\* the queue is in order for it.
SessionClean ==
  /\ state = "PREPARING" => written = 0
  /\ \/ /\ state = "PREPARING" /\ decode_queue = <<svc_session>>
        /\ decoder_pc \in {"CLOSE", "RECEIVE"} /\ ready_queue = <<>>
     \/ /\ decode_queue = <<>> /\ decoding.session = svc_session
        /\ Ordered(ready_queue, svc_session, written, decoding)

\* Where nothing stops a session from outside, one session is over, in the
\* decoder, in the queues and in the notification bits, before the next begins.
CleanInv ==
  /\ "DMA_ERROR" \notin bits \cup notify
  /\ player_pc # "WAIT" => Posts \cap notify = {}
  /\ Posts \cap (bits \cup notify) # {} \/ decoder_eof => DecoderDone
  /\ ~Busy => /\ DecoderDone /\ ready_queue = <<>> /\ Posts \cap notify = {}
              /\ player_pc \in {"COMMANDS", "VOICE", "EVENTS"} => Posts \cap bits = {}
  /\ Busy => SessionClean

\* The part of it that is about the bits, and the part about the session.
LEMMA CleanParts ==
  ASSUME "DMA_ERROR" \notin bits \cup notify,
         player_pc # "WAIT" => Posts \cap notify = {},
         Posts \cap (bits \cup notify) # {} \/ decoder_eof => DecoderDone,
         ~Busy => /\ DecoderDone /\ ready_queue = <<>> /\ Posts \cap notify = {}
                  /\ player_pc \in {"COMMANDS", "VOICE", "EVENTS"} => Posts \cap bits = {},
         Busy => SessionClean
  PROVE  CleanInv
  BY DEF CleanInv

LEMMA CommandKinds ==
  ASSUME Listening, TypeOK, RequestInv, CommandHandle
  PROVE  \/ Mp3RequestHandle
         \/ /\ UNCHANGED <<svc_session, written, decoder_eof, decode_queue>> /\ UNCHANGED poolVars
            /\ UNCHANGED state \/ (state = "IDLE" /\ state' = "PLAYING_VOICE")
<1>1. Head(command_queue).kind \in {"PLAY_MP3", "PLAY_VOICE"}
  <2>1. Len(command_queue) \in Nat \ {0} /\ Head(command_queue) = command_queue[1]
    BY EmptySeq, LenProperties DEF CommandHandle, RequestTypeOK
  <2>2. command_queue[1].kind \in Requests
    BY <2>1 DEF RequestInv
  <2> QED
    BY <2>1, <2>2 DEF Listening
<1>2. Mp3RequestHandle \/ (VoiceRequestHandle /\ UNCHANGED <<svc_session, half, stream, dma_half,
             written, runtimeVars, poolVars, decode_queue, decoder_stop>>)
  BY <1>1 DEF CommandHandle
<1>3. VoiceRequestHandle => UNCHANGED state \/ (state = "IDLE" /\ state' = "PLAYING_VOICE")
  BY DEF VoiceRequestHandle
<1> QED
  BY <1>2, <1>3 DEF runtimeVars

\* Where no driver fails, preparing ends only in playing.
LEMMA StartSucceeds ==
  ASSUME Listening, StartIfReady, state = "PREPARING"
  PROVE  state' \in {"PREPARING", "PLAYING_CS4344"}
  BY DEF Listening, StartIfReady, Start, serviceVars

\* A decoder that has posted stays done while the player is in a pass.
LEMMA PlayerKeepsPosts ==
  ASSUME CleanInv, PlayerStep
  PROVE  /\ "DMA_ERROR" \notin bits' \cup notify'
         /\ player_pc' # "WAIT" => Posts \cap notify' = {}
<1>1. bits' \cup notify' \subseteq bits \cup notify
  BY PlayerAddsNoBits
<1>2. player_pc' # "WAIT" => Posts \cap notify' = {}
  <2>1. CASE PlayerWake
    BY <2>1 DEF PlayerWake
  <2>2. CASE ~PlayerWake
    <3>1. UNCHANGED notify /\ (player_pc = "WAIT" => player_pc' = "WAIT")
      BY <2>2 DEF PlayerStep, PlayerInit, WarmupEnd, CommandHandle, CommandsDone, VoiceProcess,
         DecodeEvents, PrebufferCheck, RefillHalf, RefillFull, RefillStep, FinishCheck
    <3> QED
      BY <3>1 DEF CleanInv
  <2> QED
    BY <2>1, <2>2
<1> QED
  BY <1>1, <1>2 DEF CleanInv

\* A step of the player that leaves the session and its queues alone.
LEMMA QuietClean ==
  ASSUME CleanInv, PlayerStep, UNCHANGED <<svc_session, written, decode_queue, ready_queue>>,
         Busy' <=> Busy, state' = state \/ ~Busy,
         decoder_eof' = decoder_eof \/ Posts \cap bits # {},
         player_pc' \in {"COMMANDS", "VOICE", "EVENTS"} =>
           \/ bits' = notify
           \/ UNCHANGED bits /\ player_pc \in {"COMMANDS", "VOICE", "EVENTS"}
  PROVE  CleanInv'
<1>1. UNCHANGED decoderVars /\ bits' \cup notify' \subseteq bits \cup notify
  BY PlayerLeavesDecoder, PlayerAddsNoBits
<1>2. UNCHANGED DecoderDone
  BY <1>1 DEF DecoderDone, decoderVars
<1>3. Posts \cap (bits' \cup notify') # {} \/ decoder_eof' => DecoderDone'
  BY <1>1, <1>2 DEF CleanInv
<1>4. ~Busy' => /\ DecoderDone' /\ ready_queue' = <<>> /\ Posts \cap notify' = {}
                /\ player_pc' \in {"COMMANDS", "VOICE", "EVENTS"} => Posts \cap bits' = {}
  <2>1. notify' \subseteq notify
    BY DEF PlayerStep, PlayerInit, WarmupEnd, PlayerWake, CommandHandle, CommandsDone, VoiceProcess,
       DecodeEvents, PrebufferCheck, RefillHalf, RefillFull, RefillStep, FinishCheck
  <2> QED
    BY <1>2, <2>1 DEF CleanInv
<1>5. Busy' => SessionClean'
  BY <1>1 DEF CleanInv, SessionClean, decoderVars
<1> QED
  BY <1>3, <1>4, <1>5, PlayerKeepsPosts DEF CleanInv

LEMMA AcceptKeepsClean ==
  ASSUME TypeOK, CleanInv, PassInv, Mp3RequestHandle, CommandHandle
  PROVE  CleanInv'
<1>0. /\ PlayerStep /\ player_pc = "COMMANDS"
      /\ UNCHANGED decoderVars /\ UNCHANGED <<notify, bits, player_pc>>
  BY DEF CommandHandle, PlayerStep
<1>1. CASE UNCHANGED <<serviceVars, runtimeVars, poolVars, decode_queue>>
  <2>1. UNCHANGED <<state, svc_session, written, decoder_eof, decode_queue, ready_queue>>
    BY <1>1 DEF serviceVars, runtimeVars, poolVars
  <2> QED
    BY <1>0, <2>1, QuietClean DEF Busy
<1>2. CASE /\ state = "IDLE" /\ decode_queue # <<>>
  BY <1>2 DEF CleanInv, Busy, DecoderDone
<1>3. CASE /\ state = "IDLE" /\ state' = "PREPARING" /\ written' = 0 /\ decoder_eof' = FALSE
           /\ svc_session' = NextSession(session_id)
           /\ decode_queue' = <<NextSession(session_id)>> /\ UNCHANGED poolVars
  <2>1. /\ ~Busy /\ DecoderDone /\ ready_queue = <<>>
        /\ Posts \cap notify = {} /\ Posts \cap bits = {}
    BY <1>0, <1>3 DEF CleanInv, Busy
  <2>2. /\ Busy' /\ ready_queue' = <<>> /\ decode_queue' = <<svc_session'>>
        /\ decoder_pc' \in {"CLOSE", "RECEIVE"}
    BY <1>0, <1>3, <2>1 DEF Busy, poolVars, decoderVars, DecoderDone
  <2>3. SessionClean'
    BY <1>3, <2>2 DEF SessionClean
  <2>4. Posts \cap (bits' \cup notify') = {}
    BY <1>0, <2>1
  <2> QED
    BY <1>0, <1>3, <2>2, <2>3, <2>4, PlayerKeepsPosts DEF CleanInv
<1> QED
  BY <1>1, <1>2, <1>3 DEF Mp3RequestHandle

\* The player ends a session: everything that was left of it is flushed.
LEMMA EndKeepsClean ==
  ASSUME CleanInv, PlayerStep, DecoderDone, state' = "IDLE", ready_queue' = <<>>,
         UNCHANGED <<notify, decode_queue>>, player_pc # "WAIT",
         player_pc' \notin {"COMMANDS", "VOICE", "EVENTS"}
  PROVE  CleanInv'
<1>1. DecoderDone' /\ ~Busy'
  BY PlayerLeavesDecoder DEF DecoderDone, decoderVars, Busy
<1>2. Posts \cap notify' = {}
  BY DEF CleanInv
<1> QED
  BY <1>1, <1>2, PlayerKeepsPosts DEF CleanInv

\* The player writes blocks of the session in hand.
LEMMA WriteKeepsClean ==
  ASSUME CleanInv, PlayerStep, Busy, decode_queue = <<>>, decoding.session = svc_session,
         Busy', UNCHANGED <<svc_session, decoder_eof, decode_queue>>,
         state' = "PREPARING" => written' = 0,
         Ordered(ready_queue', svc_session, written', decoding)
  PROVE  CleanInv'
<1>1. UNCHANGED decoderVars /\ bits' \cup notify' \subseteq bits \cup notify
  BY PlayerLeavesDecoder, PlayerAddsNoBits
<1>2. Posts \cap (bits' \cup notify') # {} \/ decoder_eof' => DecoderDone'
  BY <1>1 DEF CleanInv, DecoderDone, decoderVars
<1>3. SessionClean'
  BY <1>1 DEF SessionClean, decoderVars
<1> QED
  BY <1>2, <1>3, PlayerKeepsPosts DEF CleanInv

LEMMA PrebufferKeepsClean ==
  ASSUME Listening, TypeOK, PassInv, CleanInv, PrebufferCheck
  PROVE  CleanInv'
<1>0. /\ PlayerStep /\ player_pc = "PREBUFFER" /\ player_pc' \in {"REFILL_HALF", "WAIT"}
      /\ UNCHANGED <<decoder_eof, decode_queue>>
  BY DEF PrebufferCheck, PlayerStep, runtimeVars
<1>1. CASE UNCHANGED serviceVars /\ UNCHANGED poolVars
  <2>1. UNCHANGED <<state, svc_session, written, ready_queue>>
    BY <1>1 DEF serviceVars, poolVars
  <2> QED
    BY <1>0, <2>1, QuietClean DEF Busy
<1>2. CASE /\ state = "PREPARING" /\ StartIfReady
           /\ decoder_eof \/ Len(ready_queue) >= BlockCount
  <2>1. Busy /\ written = 0
    BY <1>0, <1>2 DEF Busy, CleanInv, SessionClean
  <2>2. decode_queue = <<>>
    <3>1. decoder_eof => decode_queue = <<>>
      BY DEF CleanInv, DecoderDone
    <3>2. Len(ready_queue) >= BlockCount => ready_queue # <<>>
      BY PoolAssumption
    <3> QED
      BY <1>2, <2>1, <3>1, <3>2 DEF CleanInv, SessionClean
  <2>3. /\ decoding.session = svc_session
        /\ Ordered(ready_queue, svc_session, written, decoding)
    BY <2>1, <2>2 DEF CleanInv, SessionClean
  <2>4. state' \in {"PREPARING", "PLAYING_CS4344"}
    BY <1>2, StartSucceeds
  <2>5. /\ UNCHANGED svc_session /\ Ordered(ready_queue', svc_session, written', decoding)
        /\ state' = "PREPARING" => written' = 0
    BY <1>2, <2>1, <2>3, <2>4, StartKeepsOrder
  <2>6. Busy'
    BY <1>0, <2>4 DEF Busy
  <2> QED
    BY <1>0, <2>1, <2>2, <2>3, <2>5, <2>6, WriteKeepsClean
<1> QED
  BY <1>1, <1>2 DEF PrebufferCheck

LEMMA PlayerKeepsClean ==
  ASSUME Listening, TypeOK, OutputInv, PassInv, RequestInv, CleanInv, PlayerStep
  PROVE  CleanInv'
<1>1. CASE PlayerInit \/ WarmupEnd
  <2>1. ~Busy /\ ~Busy'
    BY <1>1 DEF PlayerInit, WarmupEnd, ServiceStop, PassInv, Busy
  <2>2. /\ UNCHANGED <<decoder_eof, decode_queue, ready_queue>> /\ UNCHANGED <<notify, bits>>
        /\ player_pc' \in {"WAIT", "WARMUP"} /\ player_pc # "WAIT" /\ bits = {}
    BY <1>1 DEF PlayerInit, WarmupEnd, runtimeVars, poolVars, PassInv
  <2>3. UNCHANGED DecoderDone
    BY <2>2, PlayerLeavesDecoder DEF DecoderDone, decoderVars
  <2> QED
    BY <2>1, <2>2, <2>3, PlayerKeepsPosts DEF CleanInv
<1>2. CASE PlayerWake \/ CommandsDone \/ VoiceProcess
  <2>1. /\ UNCHANGED <<svc_session, written, decoder_eof, decode_queue, ready_queue>>
        /\ player_pc # "WARMUP" /\ player_pc' # "WARMUP"
        /\ \/ bits' = notify
           \/ UNCHANGED bits /\ player_pc \in {"COMMANDS", "VOICE", "EVENTS"}
    BY <1>2 DEF PlayerWake, CommandsDone, VoiceProcess, serviceVars, runtimeVars, poolVars
  <2>2. \/ UNCHANGED state
        \/ state = "PLAYING_VOICE" /\ state' \in {"IDLE", "ERROR"}
    BY <1>2 DEF PlayerWake, CommandsDone, VoiceProcess, serviceVars
  <2> QED
    BY <2>1, <2>2, QuietClean DEF Busy
<1>3. CASE CommandHandle
  <2>1. CASE Mp3RequestHandle
    BY <1>3, <2>1, AcceptKeepsClean
  <2>2. CASE /\ UNCHANGED <<svc_session, written, decoder_eof, decode_queue>> /\ UNCHANGED poolVars
             /\ UNCHANGED state \/ (state = "IDLE" /\ state' = "PLAYING_VOICE")
    <3>1. UNCHANGED <<bits, player_pc, ready_queue>> /\ player_pc = "COMMANDS"
      BY <1>3, <2>2 DEF CommandHandle, poolVars
    <3> QED
      BY <2>2, <3>1, QuietClean DEF Busy
  <2> QED
    BY <1>3, <2>1, <2>2, CommandKinds
<1>4. CASE DecodeEvents
  <2>1. /\ player_pc = "EVENTS" /\ player_pc' = "PREBUFFER" /\ UNCHANGED <<notify, decode_queue>>
        /\ UNCHANGED bits
    BY <1>4 DEF DecodeEvents
  <2>2. CASE "DECODE_ERROR" \in bits
    <3>1. state' = "IDLE" /\ ready_queue' = <<>>
      BY <1>4, <2>2 DEF DecodeEvents, PlayerStop, ServiceStop, ReadyQueueFlush
    <3>2. DecoderDone
      BY <2>2 DEF CleanInv, Posts
    <3> QED
      BY <2>1, <3>1, <3>2, EndKeepsClean
  <2>3. CASE "DECODE_ERROR" \notin bits
    <3>1. UNCHANGED <<state, svc_session, written, ready_queue>>
      BY <1>4, <2>3 DEF DecodeEvents, serviceVars, poolVars
    <3>2. decoder_eof' = decoder_eof \/ Posts \cap bits # {}
      <4>1. CASE "DECODE_EOF" \in bits
        BY <4>1 DEF Posts
      <4>2. CASE "DECODE_EOF" \notin bits
        BY <1>4, <4>2 DEF DecodeEvents, PlayerTypeOK
      <4> QED
        BY <4>1, <4>2
    <3> QED
      BY <2>1, <3>1, <3>2, QuietClean DEF Busy
  <2> QED
    BY <2>2, <2>3
<1>5. CASE PrebufferCheck
  BY <1>5, PrebufferKeepsClean
<1>6. CASE RefillHalf \/ RefillFull
  <2>1. /\ state = "PLAYING_CS4344" /\ Busy /\ Busy'
        /\ UNCHANGED <<state, svc_session, decoder_eof, decode_queue>>
    BY <1>6 DEF RefillHalf, RefillFull, RefillStep, PassInv, Busy, runtimeVars
  <2>2. /\ decode_queue = <<>> /\ decoding.session = svc_session
        /\ Ordered(ready_queue, svc_session, written, decoding)
    BY <2>1 DEF CleanInv, SessionClean
  <2>3. (\E h \in Halves : Refill(h)) \/ UNCHANGED <<written, ready_queue>>
    BY <1>6 DEF RefillHalf, RefillFull, RefillStep, poolVars
  <2>4. Ordered(ready_queue', svc_session, written', decoding)
    BY <2>2, <2>3, RefillKeepsOrder
  <2> QED
    BY <2>1, <2>2, <2>4, WriteKeepsClean
<1>7. CASE FinishCheck
  <2>1. player_pc = "FINISH" /\ player_pc' = "WAIT" /\ UNCHANGED <<notify, decoder_eof, decode_queue>>
    BY <1>7 DEF FinishCheck, runtimeVars
  <2>2. CASE PlaybackComplete
    <3>1. state' = "IDLE" /\ ready_queue' = <<>>
      BY <1>7, <2>2 DEF FinishCheck, PlayerStop, ServiceStop, ReadyQueueFlush
    <3>2. DecoderDone
      BY <2>2 DEF CleanInv, PlaybackComplete
    <3> QED
      BY <2>1, <3>1, <3>2, EndKeepsClean
  <2>3. CASE ~PlaybackComplete
    <3>1. UNCHANGED <<state, svc_session, written, ready_queue>>
      BY <1>7, <2>3 DEF FinishCheck, serviceVars, poolVars, CleanInv
    <3> QED
      BY <2>1, <3>1, QuietClean DEF Busy
  <2> QED
    BY <2>2, <2>3
<1> QED
  BY <1>1, <1>2, <1>3, <1>4, <1>5, <1>6, <1>7 DEF PlayerStep

\* A done decoder can only close, and a step that posts makes it done.
LEMMA DecoderPostsLast ==
  ASSUME DecoderStep
  PROVE  /\ DecoderDone => DecoderDone' /\ UNCHANGED notify /\ UNCHANGED <<ready_queue, decoding>>
         /\ \/ notify' \subseteq notify \cup {"PCM_READY"}
            \/ /\ decoder_pc' \in {"CLOSE", "RECEIVE"} /\ notify' \subseteq notify \cup Posts
               /\ UNCHANGED decode_queue
<1>1. DecoderDone => DecoderDone' /\ UNCHANGED notify /\ UNCHANGED <<ready_queue, decoding>>
  <2> SUFFICES ASSUME DecoderDone
               PROVE  DecoderDone' /\ UNCHANGED notify /\ UNCHANGED <<ready_queue, decoding>>
    OBVIOUS
  <2>1. DecoderClose
    BY DEF DecoderDone, DecoderStep, DecoderReceive, DecoderOpen, DecoderCheckStop, DecoderTake,
       DecodeFrame, DecodeNothing, DecoderDelay, DecoderPost
  <2> QED
    BY <2>1 DEF DecoderClose, DecoderDone, poolVars
<1>2. \/ notify' \subseteq notify \cup {"PCM_READY"}
      \/ /\ decoder_pc' \in {"CLOSE", "RECEIVE"} /\ notify' \subseteq notify \cup Posts
         /\ UNCHANGED decode_queue
  BY DEF DecoderStep, DecoderReceive, DecoderOpen, DecoderCheckStop, DecoderTake, DecodeFrame,
     DecodeNothing, DecoderDelay, DecoderPost, DecoderClose, Notify, Posts
<1> QED
  BY <1>1, <1>2

LEMMA DecoderKeepsClean ==
  ASSUME Typed, PassInv, CleanInv, DecoderStep
  PROVE  CleanInv'
<1>1. /\ TypeOK /\ UNCHANGED <<state, svc_session, written, decoder_eof>>
      /\ UNCHANGED <<player_pc, bits, Busy>>
  BY DEF DecoderStep, DecoderFrame, serviceVars, runtimeVars, Typed, Busy
<1>2. "DMA_ERROR" \notin bits' \cup notify'
  BY <1>1, DecoderPostsLast DEF CleanInv, Posts
<1>3. CASE DecoderDone
  <2>1. DecoderDone' /\ UNCHANGED notify /\ UNCHANGED <<ready_queue, decoding>>
    BY <1>3, DecoderPostsLast
  <2>2. decode_queue = <<>> /\ decode_queue' = <<>>
    BY <1>3, <2>1 DEF DecoderDone
  <2>3. Busy => SessionClean'
    BY <1>1, <2>1, <2>2 DEF CleanInv, SessionClean
  <2> QED
    BY <1>1, <1>2, <2>1, <2>3 DEF CleanInv
<1>4. CASE ~DecoderDone
  <2>1. Busy /\ SessionClean /\ ~decoder_eof /\ Posts \cap (bits \cup notify) = {}
    BY <1>4 DEF CleanInv
  <2>2. player_pc = "WAIT"
    BY <2>1 DEF DecoderStep, DecoderMayRun, PlayerBlocked, Busy
  <2>3. SessionClean'
    <3>1. state = "PREPARING" => written = 0
      BY <2>1 DEF SessionClean
    <3>2. CASE /\ state = "PREPARING" /\ decode_queue = <<svc_session>>
               /\ decoder_pc \in {"CLOSE", "RECEIVE"} /\ ready_queue = <<>>
      <4>1. DecoderClose \/ DecoderReceive
        BY <3>2 DEF DecoderStep, DecoderOpen, DecoderCheckStop, DecoderTake, DecodeFrame,
           DecodeNothing, DecoderDelay, DecoderPost
      <4>2. CASE DecoderClose
        BY <1>1, <3>1, <3>2, <4>2 DEF DecoderClose, SessionClean, poolVars
      <4>3. CASE DecoderReceive
        <5>1. /\ decode_queue' = <<>> /\ decoding'.session = svc_session /\ decoding'.frame = 0
              /\ ready_queue' = <<>>
          BY <3>2, <4>3 DEF DecoderReceive, poolVars
        <5>2. OrderedFrom(<<>>, svc_session, 0, decoding', 0)
          BY <5>1 DEF OrderedFrom
        <5> QED
          BY <1>1, <3>1, <3>2, <5>1, <5>2 DEF SessionClean, Ordered
      <4> QED
        BY <4>1, <4>2, <4>3
    <3>3. CASE /\ decode_queue = <<>> /\ decoding.session = svc_session
               /\ Ordered(ready_queue, svc_session, written, decoding)
      <4>1. CASE UNCHANGED <<ready_queue, decoding, decode_queue>>
        BY <1>1, <3>1, <3>3, <4>1 DEF SessionClean
      <4>2. ASSUME NEW b \in Blocks, decoding.session \in Sessions, decoding.frame < FrameLimit,
                   ready_queue' = Append(ready_queue, [block |-> b, session |-> decoding.session,
                                                       frame |-> decoding.frame + 1]),
                   decoding' = [decoding EXCEPT !.frame = @ + 1], UNCHANGED decode_queue
            PROVE  SessionClean'
        <5> DEFINE e == [block |-> b, session |-> decoding.session, frame |-> decoding.frame + 1]
        <5>1. decoding.frame \in Nat /\ decoding.frame + 1 \in 1 .. FrameLimit
          BY <1>1, <4>2, PoolAssumption DEF DecoderTypeOK
        <5>2. e \in Filled /\ e.session = decoding.session /\ e.frame = decoding.frame + 1
          BY <4>2, <5>1 DEF Filled
        <5>3. /\ decoding' \in Decoding /\ decoding'.session = decoding.session
              /\ decoding'.frame = decoding.frame + 1
          BY <1>1, <4>2, <5>1, PoolAssumption DEF DecoderTypeOK, Decoding
        <5>4. ready_queue' = Append(ready_queue, e)
          BY <4>2
        <5> HIDE DEF e
        <5>5. Ordered(ready_queue', svc_session, written, decoding')
          BY <1>1, <3>3, <5>2, <5>3, <5>4, OrderTyped, OrderedAppend
        <5> QED
          BY <1>1, <3>1, <3>3, <4>2, <5>3, <5>5 DEF SessionClean
      <4> QED
        BY <3>3, <4>1, <4>2, DecoderMoves DEF DecoderMove
    <3> QED
      BY <2>1, <3>2, <3>3 DEF SessionClean
  <2>4. Posts \cap (bits' \cup notify') # {} => DecoderDone'
    <3>1. CASE notify' \subseteq notify \cup {"PCM_READY"}
      BY <1>1, <2>1, <3>1 DEF Posts
    <3>2. CASE decoder_pc' \in {"CLOSE", "RECEIVE"} /\ decoder_pc \notin {"CLOSE", "RECEIVE"}
               /\ UNCHANGED decode_queue
      BY <2>1, <3>2 DEF DecoderDone, SessionClean
    <3>3. CASE decoder_pc \in {"CLOSE", "RECEIVE"}
      <4>1. UNCHANGED notify
        BY <3>3 DEF DecoderStep, DecoderReceive, DecoderOpen, DecoderCheckStop, DecoderTake,
           DecodeFrame, DecodeNothing, DecoderDelay, DecoderPost, DecoderClose
      <4> QED
        BY <1>1, <2>1, <4>1
    <3> QED
      BY <3>1, <3>2, <3>3, DecoderPostsLast
  <2> QED
    BY <1>1, <1>2, <2>1, <2>2, <2>3, <2>4 DEF CleanInv
<1> QED
  BY <1>3, <1>4

LEMMA OthersKeepClean ==
  ASSUME Listening, CleanInv, DmaInterrupt \/ ClientStep
  PROVE  CleanInv'
<1>1. /\ UNCHANGED <<state, svc_session, written, decoder_eof, ready_queue, decoding, decoder_pc>>
      /\ UNCHANGED <<decode_queue, player_pc, bits>>
  BY DEF DmaInterrupt, ClientStep, serviceVars, runtimeVars, poolVars, decoderVars
<1>2. notify' \subseteq notify \cup {"COMMAND", "DMA_HALF", "DMA_FULL"}
  BY DEF Listening, DmaInterrupt, DmaHalfPlayed, DmaFails, ClientStep, ClientSend, ClientReserve,
     ClientSpeak, ClientNotify, Notify
<1>3. UNCHANGED <<Busy, DecoderDone, SessionClean>>
  BY <1>1 DEF Busy, DecoderDone, SessionClean
<1>4. Posts \cap notify' \subseteq Posts \cap notify /\ "DMA_ERROR" \notin bits' \cup notify'
  BY <1>1, <1>2 DEF Posts, CleanInv
<1> QED
  BY <1>1, <1>3, <1>4 DEF CleanInv

LEMMA AlwaysClean ==
  ASSUME Listening
  PROVE  Spec => []CleanInv
<1>1. Init => CleanInv
  BY DEF Init, CleanInv, Busy, DecoderDone
<1>2. CleanInv /\ UNCHANGED vars => CleanInv'
  BY DEF CleanInv, SessionClean, Busy, DecoderDone, vars, serviceVars, runtimeVars, poolVars,
     decoderVars
<1>3. Typed /\ OutputInv /\ PassInv /\ RequestInv /\ CleanInv /\ [Next]_vars => CleanInv'
  BY <1>2, PlayerKeepsClean, DecoderKeepsClean, OthersKeepClean DEF Next, Typed
<1> QED
  BY <1>1, <1>3, AlwaysTyped, AlwaysOutput, AlwaysPass, AlwaysRequested, PTL DEF Spec

\* Where sessions are not stopped from outside and no driver fails, a source that
\* ends by itself was played to its last block: the decoder had finished it, and
\* every block it decoded had been written to the DMA buffer.
THEOREM SourcePlayedOut ==
  ASSUME Requests \subseteq {"PLAY_MP3", "PLAY_VOICE"}, Faults = FALSE
  PROVE  Spec => CompletesFully
<1> DEFINE Full == player_pc = "FINISH" /\ "DMA_ERROR" \notin bits /\ state' # state
                   => /\ decoding.session = svc_session /\ decoding.frame = written
                      /\ decoder_pc \notin {"OPEN", "CHECK", "TAKE", "PROCESS", "DELAY"}
<1>1. TypeOK /\ PassInv /\ CleanInv /\ PlayerStep => Full
  <2> SUFFICES ASSUME TypeOK, PassInv, CleanInv, PlayerStep, player_pc = "FINISH",
                      "DMA_ERROR" \notin bits, state' # state
               PROVE  /\ decoding.session = svc_session /\ decoding.frame = written
                      /\ decoder_pc \notin {"OPEN", "CHECK", "TAKE", "PROCESS", "DELAY"}
    OBVIOUS
  <2>1. FinishCheck
    BY DEF PlayerStep, PlayerInit, WarmupEnd, PlayerWake, CommandHandle, CommandsDone, VoiceProcess,
       DecodeEvents, PrebufferCheck, RefillHalf, RefillFull, RefillStep
  <2>2. decoder_eof /\ ready_queue = <<>>
    BY <2>1 DEF FinishCheck, PlaybackComplete, serviceVars
  <2>3. DecoderDone /\ Busy /\ SessionClean
    BY <2>2 DEF CleanInv, PassInv, Busy
  <2>4. decoding.session = svc_session /\ Ordered(<<>>, svc_session, written, decoding)
    BY <2>2, <2>3 DEF SessionClean, DecoderDone
  <2>5. PICK p \in Nat : OrderedFrom(<<>>, svc_session, written, decoding, p)
    BY <2>4 DEF Ordered
  <2>6. p = 0 /\ decoding.frame + p = written + 0
    BY <2>4, <2>5 DEF OrderedFrom
  <2>7. decoding.frame \in Nat /\ written \in Nat
    BY PoolAssumption DEF DecoderTypeOK, ServiceTypeOK
  <2> QED
    BY <2>3, <2>4, <2>6, <2>7 DEF DecoderDone
<1>2. DecoderStep \/ DmaInterrupt \/ ClientStep => Full
  BY DEF DecoderStep, DecoderFrame, DmaInterrupt, ClientStep, serviceVars
<1>3. TypeOK /\ PassInv /\ CleanInv /\ [Next]_vars => [Full]_vars
  BY <1>1, <1>2 DEF Next
<1>4. Listening
  BY DEF Listening
<1> QED
  BY <1>3, <1>4, TypeCorrect, AlwaysPass, AlwaysClean, PTL DEF Spec, CompletesFully

=============================================================================

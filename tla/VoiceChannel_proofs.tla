------------------------ MODULE VoiceChannel_proofs ------------------------
(***************************************************************************)
(* Theorems about the voice channel, for every size of the FIFO and of a   *)
(* read, every number of texts and with or without transmissions that time *)
(* out.                                                                    *)
(***************************************************************************)
EXTENDS VoiceChannel, SequenceTheorems, FiniteSetTheorems, TLAPS

USE VoiceChannelAssumption DEF Waiting

-----------------------------------------------------------------------------
(* The types, with what a read relies on.                                  *)

\* A read nobody disturbed finds the bytes it was sized for; a poll that has
\* not begun has no bytes and no events.
ReadInv ==
  /\ poll.pc = "READ" /\ ~poll.discarded => poll.size <= Len(fifo)
  /\ poll.pc = "WAIT" => poll.bytes = <<>> /\ poll.events = {}

\* A byte read is gone from the FIFO and is one of its first bytes.
LEMMA ReadTyped ==
  ASSUME NEW S, NEW q \in Seq(S), NEW n \in 0 .. Len(q)
  PROVE  /\ SubSeq(q, 1, n) \in Seq(S) /\ SubSeq(q, n + 1, Len(q)) \in Seq(S)
         /\ Len(SubSeq(q, 1, n)) = n /\ Len(SubSeq(q, n + 1, Len(q))) = Len(q) - n
         /\ \A i \in 1 .. n : SubSeq(q, 1, n)[i] = q[i]
<1>1. Len(q) \in Nat /\ n \in Nat /\ \A i \in 1 .. Len(q) : q[i] \in S
  BY LenProperties, ElementOfSeq
<1>2. \A i \in 1 .. n : q[i] \in S
  BY <1>1
<1>3. \A i \in n + 1 .. Len(q) : q[i] \in S
  BY <1>1
<1>4. SubSeq(q, 1, n) \in Seq(S) /\ Len(SubSeq(q, 1, n)) = n
      /\ \A i \in 1 .. n : SubSeq(q, 1, n)[i] = q[i]
  BY <1>1, <1>2, SubSeqProperties
<1>5. SubSeq(q, n + 1, Len(q)) \in Seq(S) /\ Len(SubSeq(q, n + 1, Len(q))) = Len(q) - n
  BY <1>1, <1>3, SubSeqProperties
<1> QED
  BY <1>4, <1>5

LEMMA InitTyped == Init => TypeOK /\ ReadInv
<1> SUFFICES ASSUME Init
             PROVE  TypeOK /\ ReadInv
  OBVIOUS
<1>1. /\ <<>> \in Seq(Bytes) /\ <<>> \in Seq(Frames) /\ <<"INITIALIZED">> \in Seq(Bytes)
      /\ Len(<<>>) = 0
  BY EmptySeq DEF Bytes, Events
<1>2. poll \in [pc : {"WAIT", "READ", "NEXT"}, size : 0 .. ReadSize,
                discarded : BOOLEAN, bytes : Seq(Bytes), events : SUBSET Events]
  <2>1. poll = Waiting /\ 0 \in 0 .. ReadSize
    BY DEF Init
  <2> QED
    BY <1>1, <2>1
<1>3. muted \in BOOLEAN /\ speaking \in BOOLEAN /\ stale \in BOOLEAN
  BY DEF Init
<1>4. /\ service \in Services /\ device_state \in DeviceStates /\ active_command \in {"NONE", "SPEAK"}
      /\ texts \in 0 .. TextLimit /\ mishaps \subseteq {"STOP_FAILED", "SPEAK_FAILED"}
  BY DEF Init, Services, DeviceStates
<1>5. /\ fifo \in Seq(Bytes) /\ Len(fifo) <= FifoSize /\ wire \in Seq(Frames) /\ outbox \in Seq(Bytes)
      /\ poll.pc = "WAIT" /\ poll.bytes = <<>> /\ poll.events = {}
  BY <1>1 DEF Init
<1> QED
  BY <1>2, <1>3, <1>4, <1>5 DEF TypeOK, ReadInv

\* A stop, sent or not, keeps the types.
LEMMA StopTyped ==
  ASSUME TypeOK, DeviceStop
  PROVE  /\ wire' \in Seq(Frames) /\ active_command' \in {"NONE", "SPEAK"}
         /\ device_state' \in DeviceStates
         /\ mishaps' \subseteq {"STOP_FAILED", "SPEAK_FAILED"}
<1>1. CASE StopSent
  BY <1>1 DEF StopSent, TypeOK, Frames, DeviceStates
<1>2. CASE StopTimesOut
  <2>1. <<>> \in Seq(Frames) /\ <<"CUT">> \in Seq(Frames) /\ <<"STOP">> \in Seq(Frames)
    BY DEF Frames
  <2>2. PICK rest \in {<<>>, <<"CUT">>, <<"STOP">>} : wire' = wire \o rest
    BY <1>2 DEF StopTimesOut
  <2>3. rest \in Seq(Frames)
    BY <2>1, <2>2
  <2>4. wire' \in Seq(Frames)
    BY <2>2, <2>3, ConcatProperties DEF TypeOK
  <2> QED
    BY <1>2, <2>4 DEF StopTimesOut, TypeOK, driver
<1> QED
  BY <1>1, <1>2 DEF DeviceStop

LEMMA StartTyped ==
  ASSUME TypeOK, ReadInv, stale' \in BOOLEAN, VoiceStart
  PROVE  TypeOK' /\ ReadInv'
<1>1. /\ wire' \in Seq(Frames) /\ active_command' \in {"NONE", "SPEAK"}
      /\ device_state' \in DeviceStates /\ muted' \in BOOLEAN /\ service' \in Services
      /\ mishaps' \subseteq {"STOP_FAILED", "SPEAK_FAILED"}
  <2>1. CASE SpeakSent
    <3>1. muted' \in BOOLEAN
      BY <2>1 DEF SpeakSent
    <3>2. wire' \in Seq(Frames)
      BY <2>1, AppendProperties DEF SpeakSent, TypeOK, Frames
    <3> QED
      BY <2>1, <3>1, <3>2 DEF SpeakSent, TypeOK, DeviceStates, Services
  <2>2. CASE SpeakTimesOut
    <3>1. <<>> \in Seq(Frames) /\ <<"CUT">> \in Seq(Frames) /\ <<"SPEAK">> \in Seq(Frames)
      BY DEF Frames
    <3>2. PICK rest \in {<<>>, <<"CUT">>, <<"SPEAK">>} : wire' = wire \o rest
      BY <2>2 DEF SpeakTimesOut
    <3>3. rest \in Seq(Frames)
      BY <3>1, <3>2
    <3>4. wire' \in Seq(Frames)
      BY <3>2, <3>3, ConcatProperties DEF TypeOK
    <3>5. muted' \in BOOLEAN
      BY <2>2 DEF SpeakTimesOut
    <3> QED
      BY <2>2, <3>4, <3>5 DEF SpeakTimesOut, TypeOK, driver
  <2> QED
    BY <2>1, <2>2 DEF VoiceStart
<1>2. UNCHANGED <<fifo, poll, speaking, outbox>> /\ texts' \in 0 .. TextLimit /\ poll.pc = "WAIT"
  BY DEF VoiceStart, TypeOK
<1> QED
  <2>1. TypeOK'
    BY <1>1, <1>2 DEF TypeOK
  <2> QED
    BY <1>2, <2>1 DEF ReadInv

LEMMA CommandTyped ==
  ASSUME TypeOK, ReadInv, stale' \in BOOLEAN, ServiceStop \/ EmergencyOn \/ EmergencyOff
  PROVE  TypeOK' /\ ReadInv'
<1>1. UNCHANGED <<fifo, poll, speaking, outbox, texts>>
  BY DEF ServiceStop, EmergencyOn, EmergencyOff, chip
<1>2. /\ wire' \in Seq(Frames) /\ active_command' \in {"NONE", "SPEAK"}
      /\ device_state' \in DeviceStates
      /\ mishaps' \subseteq {"STOP_FAILED", "SPEAK_FAILED"}
  <2>1. DeviceStop \/ UNCHANGED <<wire, driver, mishaps>>
    BY DEF ServiceStop, EmergencyOn, EmergencyOff, DeviceStop, chip
  <2> QED
    BY <2>1, StopTyped DEF TypeOK, driver
<1>3. muted' \in BOOLEAN
  <2>1. muted' \in {TRUE, FALSE, muted}
    BY DEF ServiceStop, EmergencyOn, EmergencyOff
  <2> QED
    BY <2>1 DEF TypeOK
<1>4. service' \in Services /\ poll.pc = "WAIT"
  BY DEF ServiceStop, EmergencyOn, EmergencyOff, Services, TypeOK
<1>5. TypeOK'
  BY <1>1, <1>2, <1>3, <1>4 DEF TypeOK
<1> QED
  BY <1>1, <1>5 DEF ReadInv

LEMMA HeadTyped ==
  ASSUME TypeOK, ReadInv, stale' \in BOOLEAN, PollHead
  PROVE  TypeOK' /\ ReadInv'
<1>1. UNCHANGED <<active_command, device_state, fifo, wire, speaking, outbox, texts, mishaps>>
  BY DEF PollHead, driver, chip
<1>2. CASE fifo # <<>>
  <2>1. Len(fifo) \in Nat \ {0}
    BY <1>2, EmptySeq DEF TypeOK
  <2> DEFINE n == IF Len(fifo) < ReadSize THEN Len(fifo) ELSE ReadSize
  <2>2. n \in 0 .. ReadSize /\ n <= Len(fifo)
    BY <2>1
  <2>3. /\ poll' = [poll EXCEPT !.pc = "READ", !.size = n]
        /\ UNCHANGED <<service, muted>> /\ service = "PLAYING_VOICE"
    BY <1>2 DEF PollHead, TypeOK
  <2> HIDE DEF n
  <2>4. /\ poll' \in [pc : {"WAIT", "READ", "NEXT"}, size : 0 .. ReadSize,
                      discarded : BOOLEAN, bytes : Seq(Bytes), events : SUBSET Events]
        /\ poll'.pc = "READ" /\ poll'.size = n
    BY <2>2, <2>3 DEF TypeOK
  <2>5. TypeOK'
    BY <1>1, <2>3, <2>4 DEF TypeOK
  <2> QED
    BY <1>1, <2>2, <2>4, <2>5 DEF ReadInv
<1>3. CASE fifo = <<>>
  <2>1. poll' = Waiting /\ VoiceProcess(poll.events)
    BY <1>3 DEF PollHead
  <2>2. /\ poll' \in [pc : {"WAIT", "READ", "NEXT"}, size : 0 .. ReadSize,
                      discarded : BOOLEAN, bytes : Seq(Bytes), events : SUBSET Events]
        /\ poll'.pc = "WAIT" /\ poll'.bytes = <<>> /\ poll'.events = {}
    BY <2>1, EmptySeq
  <2>3. muted' \in {TRUE, muted} /\ service' \in {"IDLE", service}
    BY <2>1 DEF VoiceProcess
  <2>4. muted' \in BOOLEAN /\ service' \in Services
    BY <2>3 DEF TypeOK, Services
  <2>5. TypeOK'
    BY <1>1, <2>2, <2>4 DEF TypeOK
  <2> QED
    BY <2>2, <2>5 DEF ReadInv
<1> QED
  BY <1>2, <1>3

LEMMA ReadStepTyped ==
  ASSUME TypeOK, ReadInv, stale' \in BOOLEAN, PollRead
  PROVE  TypeOK' /\ ReadInv'
<1>1. /\ UNCHANGED <<service, muted, active_command, device_state, wire, speaking, outbox, texts, mishaps>>
      /\ fifo' = SubSeq(fifo, poll.size + 1, Len(fifo))
      /\ poll' = [poll EXCEPT !.pc = "NEXT", !.size = 0, !.bytes = SubSeq(fifo, 1, poll.size)]
  BY DEF PollRead, driver, chip
<1>2. poll.size \in 0 .. Len(fifo) /\ Len(fifo) \in Nat /\ service = "PLAYING_VOICE"
  BY LenProperties DEF PollRead, TypeOK, ReadInv
<1>3. /\ SubSeq(fifo, 1, poll.size) \in Seq(Bytes) /\ fifo' \in Seq(Bytes)
      /\ Len(fifo') = Len(fifo) - poll.size
  BY <1>1, <1>2, ReadTyped DEF TypeOK
<1>4. Len(fifo') <= FifoSize
  BY <1>2, <1>3 DEF TypeOK
<1>5. /\ poll' \in [pc : {"WAIT", "READ", "NEXT"}, size : 0 .. ReadSize,
                    discarded : BOOLEAN, bytes : Seq(Bytes), events : SUBSET Events]
      /\ poll'.pc = "NEXT"
  <2>1. 0 \in 0 .. ReadSize /\ ReadSize \in Nat
    OBVIOUS
  <2> DEFINE taken == SubSeq(fifo, 1, poll.size)
  <2>2. poll' = [poll EXCEPT !.pc = "NEXT", !.size = 0, !.bytes = taken] /\ taken \in Seq(Bytes)
    BY <1>1, <1>3
  <2> HIDE DEF taken
  <2> QED
    BY <2>1, <2>2 DEF TypeOK
<1>6. TypeOK'
  BY <1>1, <1>2, <1>3, <1>4, <1>5 DEF TypeOK
<1> QED
  BY <1>5, <1>6 DEF ReadInv

\* What a byte makes of the driver's two fields.
LEMMA ResponseTyped ==
  ASSUME NEW c \in {"NONE", "SPEAK"}, NEW s \in DeviceStates, NEW b \in Bytes
  PROVE  LET d == ResponseProcess([command |-> c, state |-> s], b)
         IN  /\ d.command \in {"NONE", c} /\ d.state \in DeviceStates
             /\ d.state = "SPEAKING" => b = "SPEAKING" \/ s = "SPEAKING"
             /\ b \notin {"ACCEPTED", "SPEAKING"} => d.command = "NONE"
BY DEF ResponseProcess, DeviceStates, Bytes, Events

LEMMA ByteTyped ==
  ASSUME TypeOK, ReadInv, stale' \in BOOLEAN, PollByte
  PROVE  TypeOK' /\ ReadInv'
<1>1. UNCHANGED <<service, muted, fifo, wire, speaking, outbox, texts, mishaps>>
  BY DEF PollByte, chip
<1>2. /\ Head(poll.bytes) \in Bytes /\ Tail(poll.bytes) \in Seq(Bytes)
      /\ poll.pc = "NEXT" /\ service = "PLAYING_VOICE"
  BY HeadTailProperties DEF PollByte, TypeOK
<1>3. active_command' \in {"NONE", "SPEAK"} /\ device_state' \in DeviceStates
  BY <1>2, ResponseTyped DEF PollByte, TypeOK
<1>4. /\ poll' \in [pc : {"WAIT", "READ", "NEXT"}, size : 0 .. ReadSize,
                    discarded : BOOLEAN, bytes : Seq(Bytes), events : SUBSET Events]
      /\ poll'.pc = "NEXT"
  BY <1>2 DEF PollByte, TypeOK, Bytes
<1>5. TypeOK'
  BY <1>1, <1>2, <1>3, <1>4 DEF TypeOK
<1> QED
  BY <1>4, <1>5 DEF ReadInv

LEMMA FaultTyped ==
  ASSUME TypeOK, ReadInv, stale' \in BOOLEAN, PollFault
  PROVE  TypeOK' /\ ReadInv'
<1>1. /\ UNCHANGED <<speaking, outbox, texts>> /\ fifo' = <<>> /\ poll' = Waiting
      /\ muted' = TRUE /\ service' = "IDLE"
  BY DEF PollFault
<1>2. /\ wire' \in Seq(Frames) /\ active_command' \in {"NONE", "SPEAK"}
      /\ device_state' \in DeviceStates
      /\ mishaps' \subseteq {"STOP_FAILED", "SPEAK_FAILED"}
  BY StopTyped DEF PollFault
<1>3. /\ fifo' \in Seq(Bytes) /\ Len(fifo') <= FifoSize /\ muted' \in BOOLEAN /\ service' \in Services
      /\ poll' \in [pc : {"WAIT", "READ", "NEXT"}, size : 0 .. ReadSize,
                    discarded : BOOLEAN, bytes : Seq(Bytes), events : SUBSET Events]
      /\ poll'.pc = "WAIT" /\ poll'.bytes = <<>> /\ poll'.events = {}
  <2>1. <<>> \in Seq(Bytes) /\ Len(<<>>) = 0
    BY EmptySeq
  <2>2. muted' \in BOOLEAN
    BY <1>1
  <2> QED
    BY <1>1, <2>1, <2>2 DEF Services
<1>4. TypeOK'
  BY <1>1, <1>2, <1>3 DEF TypeOK
<1> QED
  BY <1>3, <1>4 DEF ReadInv

LEMMA ChipTyped ==
  ASSUME TypeOK, ReadInv, stale' \in BOOLEAN, ChipReceive \/ ChipFinish
  PROVE  TypeOK' /\ ReadInv'
<1>1. UNCHANGED <<service, muted, active_command, device_state, fifo, poll, texts, mishaps>>
  BY DEF ChipReceive, ChipFinish, driver
<1>2. wire' \in Seq(Frames) /\ outbox' \in Seq(Bytes)
  <2>1. "REJECTED" \in Bytes /\ "ACCEPTED" \in Bytes /\ "IDLE" \in Bytes
    BY DEF Bytes, Events
  <2>2. CASE ChipReceive
    BY <2>1, <2>2, HeadTailProperties, AppendProperties DEF ChipReceive, TypeOK
  <2>3. CASE ChipFinish
    BY <2>1, <2>3, AppendProperties DEF ChipFinish, TypeOK
  <2> QED
    BY <2>2, <2>3
<1>3. speaking' \in BOOLEAN
  <2>1. CASE ChipReceive
    <3>1. CASE Head(wire) = "CUT"
      BY <2>1, <3>1 DEF ChipReceive, TypeOK
    <3>2. CASE Head(wire) # "CUT"
      BY <2>1, <3>2 DEF ChipReceive
    <3> QED
      BY <3>1, <3>2
  <2>2. CASE ChipFinish
    BY <2>2 DEF ChipFinish
  <2> QED
    BY <2>1, <2>2
<1>4. TypeOK'
  BY <1>1, <1>2, <1>3 DEF TypeOK
<1> QED
  BY <1>1, <1>4 DEF ReadInv

LEMMA ArrivalTyped ==
  ASSUME TypeOK, ReadInv, stale' \in BOOLEAN, ByteReceived
  PROVE  TypeOK' /\ ReadInv'
<1>1. UNCHANGED <<service, muted, active_command, device_state, wire, speaking, texts, mishaps>>
  BY DEF ByteReceived, driver
<1>2. Head(outbox) \in Bytes /\ outbox' \in Seq(Bytes)
  BY HeadTailProperties DEF ByteReceived, TypeOK
<1>3. CASE Len(fifo) < FifoSize
  <2>1. fifo' = Append(fifo, Head(outbox)) /\ poll' = poll
    BY <1>3 DEF ByteReceived
  <2>2. Len(fifo) \in Nat /\ fifo' \in Seq(Bytes) /\ Len(fifo') = Len(fifo) + 1
    BY <1>2, <2>1, LenProperties, AppendProperties DEF TypeOK
  <2>3. Len(fifo') <= FifoSize
    BY <1>3, <2>2
  <2>4. TypeOK'
    BY <1>1, <1>2, <2>1, <2>2, <2>3 DEF TypeOK
  <2> QED
    BY <2>1, <2>2, <2>4, SMTT(30) DEF ReadInv, TypeOK
<1>4. CASE ~(Len(fifo) < FifoSize)
  <2>1. fifo' = <<>> /\ poll' = [poll EXCEPT !.discarded = (poll.pc = "READ")]
    BY <1>4 DEF ByteReceived
  <2>2. fifo' \in Seq(Bytes) /\ Len(fifo') <= FifoSize
    BY <2>1, EmptySeq
  <2>3. (poll.pc = "READ") \in BOOLEAN
    OBVIOUS
  <2>4. /\ poll' \in [pc : {"WAIT", "READ", "NEXT"}, size : 0 .. ReadSize,
                      discarded : BOOLEAN, bytes : Seq(Bytes), events : SUBSET Events]
        /\ poll'.pc = poll.pc /\ poll'.bytes = poll.bytes /\ poll'.events = poll.events
    BY <2>1, <2>3 DEF TypeOK
  <2>5. TypeOK'
    BY <1>1, <1>2, <2>2, <2>4 DEF TypeOK
  <2>6. poll'.pc = "READ" => poll'.discarded
    BY <2>1, <2>4 DEF TypeOK
  <2> QED
    BY <2>4, <2>5, <2>6 DEF ReadInv
<1> QED
  BY <1>3, <1>4

LEMMA TypesKept == TypeOK /\ ReadInv /\ [Next]_vars => TypeOK' /\ ReadInv'
<1> SUFFICES ASSUME TypeOK, ReadInv, [Next]_vars
             PROVE  TypeOK' /\ ReadInv'
  OBVIOUS
<1>1. CASE UNCHANGED vars
  BY <1>1 DEF vars, driver, chip, TypeOK, ReadInv
<1>2. CASE Next
  <2>1. stale' \in BOOLEAN
    <3>1. stale' = (stale \/ EndsUnread' > EndsDue')
      BY <1>2 DEF Next, History
    <3> QED
      BY <3>1
  <2> QED
    BY <1>2, <2>1, StartTyped, CommandTyped, HeadTyped, ReadStepTyped, ByteTyped, FaultTyped,
       ChipTyped, ArrivalTyped DEF Next, Commands, Poll, Chip
<1> QED
  BY <1>1, <1>2

\* Every variable of the channel keeps its type.
THEOREM TypeCorrect == Spec => []TypeOK
BY InitTyped, TypesKept, PTL DEF Spec

LEMMA AlwaysTyped == Spec => [](TypeOK /\ ReadInv)
BY InitTyped, TypesKept, PTL DEF Spec

-----------------------------------------------------------------------------
(* Nothing but a stop that was not sent makes the driver refuse for good.  *)

\* The chip never tells that it is speaking (it is asked by its pin), so no byte
\* about is that one.
Answers == Bytes \ {"SPEAKING"}

AnswersInv ==
  /\ fifo \in Seq(Answers)
  /\ outbox \in Seq(Answers)
  /\ poll.bytes \in Seq(Answers)
  /\ device_state # "SPEAKING"

\* The driver holds a command only while the service plays it; a poll that
\* will end the voice has made it forget.
CommandInv ==
  /\ active_command = "SPEAK" => service = "PLAYING_VOICE" \/ "STOP_FAILED" \in mishaps
  /\ poll.events \cap {"REJECTED", "IDLE"} # {} => active_command = "NONE"

LEMMA AnswersInit == Init => AnswersInv /\ CommandInv
<1> SUFFICES ASSUME Init
             PROVE  AnswersInv /\ CommandInv
  OBVIOUS
<1>1. <<>> \in Seq(Answers) /\ <<"INITIALIZED">> \in Seq(Answers)
  BY EmptySeq DEF Answers, Bytes, Events
<1> QED
  BY <1>1 DEF Init, AnswersInv, CommandInv

\* The driver after a stop: silent and free, unless it was not sent.
LEMMA StopFrees ==
  ASSUME TypeOK, AnswersInv, DeviceStop
  PROVE  /\ device_state' # "SPEAKING" /\ active_command' \in {"NONE", active_command}
         /\ active_command' = "SPEAK" => "STOP_FAILED" \in mishaps'
<1>1. CASE StopSent
  BY <1>1 DEF StopSent
<1>2. CASE StopTimesOut
  BY <1>2 DEF StopTimesOut, driver, AnswersInv, TypeOK
<1> QED
  BY <1>1, <1>2 DEF DeviceStop

LEMMA StartFrees ==
  ASSUME TypeOK, ReadInv, AnswersInv, CommandInv, VoiceStart
  PROVE  AnswersInv' /\ CommandInv'
<1>1. UNCHANGED <<fifo, poll, outbox>> /\ poll.pc = "WAIT"
  BY DEF VoiceStart, TypeOK
<1>2. \/ device_state' # "SPEAKING" /\ service' = "PLAYING_VOICE"
      \/ UNCHANGED <<active_command, device_state, service>> /\ mishaps \subseteq mishaps'
  BY DEF VoiceStart, SpeakSent, SpeakTimesOut, driver
<1> QED
  BY <1>1, <1>2 DEF AnswersInv, CommandInv, ReadInv

LEMMA CommandFrees ==
  ASSUME TypeOK, ReadInv, AnswersInv, CommandInv, ServiceStop \/ EmergencyOn \/ EmergencyOff
  PROVE  AnswersInv' /\ CommandInv'
<1>1. UNCHANGED <<fifo, poll, outbox>> /\ poll.pc = "WAIT"
  BY DEF ServiceStop, EmergencyOn, EmergencyOff, chip, TypeOK
<1>2. \/ DeviceStop
      \/ service # "PLAYING_VOICE" /\ UNCHANGED <<active_command, device_state, mishaps>>
  <2>1. CASE ServiceStop
    <3>1. CASE service = "PLAYING_VOICE"
      BY <2>1, <3>1 DEF ServiceStop
    <3>2. CASE service # "PLAYING_VOICE"
      <4>1. UNCHANGED driver /\ UNCHANGED mishaps
        BY <2>1, <3>2 DEF ServiceStop
      <4> QED
        BY <3>2, <4>1 DEF driver
    <3> QED
      BY <3>1, <3>2
  <2>2. CASE EmergencyOn
    <3>1. \/ StopSent \/ StopTimesOut
          \/ service # "PLAYING_VOICE" /\ UNCHANGED <<wire, driver, mishaps>>
      BY <2>2 DEF EmergencyOn
    <3> QED
      BY <3>1 DEF DeviceStop, driver
  <2>3. CASE EmergencyOff
    BY <2>3 DEF EmergencyOff, driver
  <2> QED
    BY <2>1, <2>2, <2>3
<1>3. /\ device_state' # "SPEAKING"
      /\ active_command' = "SPEAK" => "STOP_FAILED" \in mishaps'
  BY <1>2, StopFrees DEF AnswersInv, CommandInv
<1> QED
  BY <1>1, <1>3 DEF AnswersInv, CommandInv, ReadInv

LEMMA PollFrees ==
  ASSUME TypeOK, ReadInv, AnswersInv, CommandInv, Poll
  PROVE  AnswersInv' /\ CommandInv'
<1>1. CASE PollHead
  <2>1. UNCHANGED <<active_command, device_state, fifo, outbox, mishaps>>
    BY <1>1 DEF PollHead, driver, chip
  <2>2. \/ /\ poll'.bytes = poll.bytes /\ poll'.events = poll.events
           /\ service' = service
        \/ poll' = Waiting /\ VoiceProcess(poll.events)
    BY <1>1 DEF PollHead, TypeOK
  <2>3. poll'.bytes \in Seq(Answers)
    <3>1. poll'.bytes = poll.bytes \/ poll'.bytes = <<>>
      BY <2>2
    <3> QED
      BY <3>1, EmptySeq DEF AnswersInv
  <2>4. CommandInv'
    BY <2>1, <2>2 DEF CommandInv, VoiceProcess, TypeOK
  <2> QED
    BY <2>1, <2>3, <2>4 DEF AnswersInv
<1>2. CASE PollRead
  <2>1. /\ UNCHANGED <<active_command, device_state, service, outbox, mishaps>>
        /\ fifo' = SubSeq(fifo, poll.size + 1, Len(fifo))
        /\ poll'.bytes = SubSeq(fifo, 1, poll.size) /\ poll'.events = poll.events
    BY <1>2 DEF PollRead, driver, chip, TypeOK
  <2>2. poll.size \in 0 .. Len(fifo)
    BY <1>2, LenProperties DEF PollRead, TypeOK, ReadInv
  <2>3. fifo' \in Seq(Answers) /\ poll'.bytes \in Seq(Answers)
    BY <2>1, <2>2, ReadTyped DEF AnswersInv
  <2> QED
    BY <2>1, <2>3 DEF AnswersInv, CommandInv
<1>3. CASE PollByte
  <2> DEFINE byte == Head(poll.bytes)
  <2>1. byte \in Answers /\ Tail(poll.bytes) \in Seq(Answers)
    BY <1>3, HeadTailProperties DEF PollByte, AnswersInv
  <2>2. /\ UNCHANGED <<service, fifo, outbox, mishaps>>
        /\ poll'.bytes = Tail(poll.bytes) /\ poll'.events = poll.events \cup {byte}
    BY <1>3 DEF PollByte, chip, TypeOK
  <2>3. /\ active_command' \in {"NONE", active_command} /\ device_state' # "SPEAKING"
        /\ byte \notin {"ACCEPTED", "SPEAKING"} => active_command' = "NONE"
    BY <1>3, <2>1, ResponseTyped DEF PollByte, Answers, AnswersInv, TypeOK
  <2> HIDE DEF byte
  <2> QED
    BY <2>1, <2>2, <2>3 DEF AnswersInv, CommandInv, TypeOK
<1>4. CASE PollFault
  <2>1. DeviceStop /\ fifo' = <<>> /\ poll' = Waiting /\ outbox' = outbox
    BY <1>4 DEF PollFault
  <2>2. <<>> \in Seq(Answers)
    BY EmptySeq
  <2> QED
    BY <2>1, <2>2, StopFrees DEF AnswersInv, CommandInv
<1> QED
  BY <1>1, <1>2, <1>3, <1>4 DEF Poll

LEMMA ChipFrees ==
  ASSUME TypeOK, AnswersInv, CommandInv, Chip
  PROVE  AnswersInv' /\ CommandInv'
<1>1. /\ UNCHANGED <<active_command, device_state, service, mishaps>>
      /\ poll'.bytes = poll.bytes /\ poll'.events = poll.events
  BY DEF Chip, ChipReceive, ChipFinish, ByteReceived, driver, TypeOK
<1>2. fifo' \in Seq(Answers) /\ outbox' \in Seq(Answers)
  <2>1. "REJECTED" \in Answers /\ "ACCEPTED" \in Answers /\ "IDLE" \in Answers
    BY DEF Answers, Bytes, Events
  <2>2. CASE ChipReceive
    BY <2>1, <2>2, AppendProperties DEF ChipReceive, AnswersInv
  <2>3. CASE ChipFinish
    BY <2>1, <2>3, AppendProperties DEF ChipFinish, AnswersInv
  <2>4. CASE ByteReceived
    <3>1. Head(outbox) \in Answers /\ outbox' \in Seq(Answers)
      BY <2>4, HeadTailProperties DEF ByteReceived, AnswersInv
    <3>2. fifo' = Append(fifo, Head(outbox)) \/ fifo' = <<>>
      BY <2>4 DEF ByteReceived
    <3> QED
      <4>1. <<>> \in Seq(Answers)
        BY EmptySeq
      <4>2. Append(fifo, Head(outbox)) \in Seq(Answers)
        BY <3>1, AppendProperties DEF AnswersInv
      <4> QED
        BY <3>1, <3>2, <4>1, <4>2
  <2> QED
    BY <2>2, <2>3, <2>4 DEF Chip
<1> QED
  BY <1>1, <1>2 DEF AnswersInv, CommandInv

LEMMA AnswersKept ==
  TypeOK /\ ReadInv /\ AnswersInv /\ CommandInv /\ [Next]_vars => AnswersInv' /\ CommandInv'
<1> SUFFICES ASSUME TypeOK, ReadInv, AnswersInv, CommandInv, [Next]_vars
             PROVE  AnswersInv' /\ CommandInv'
  OBVIOUS
<1>1. CASE UNCHANGED vars
  BY <1>1 DEF vars, driver, chip, AnswersInv, CommandInv
<1>2. CASE Next
  BY <1>2, StartFrees, CommandFrees, PollFrees, ChipFrees DEF Next, Commands
<1> QED
  BY <1>1, <1>2

\* Whatever the chip rejects, whatever is left over, discarded or cut: as long
\* as every stop frame went out, a driver with nothing to do takes a text.
THEOREM RetrySafe == Spec => []RetryUnlessStopFailed
<1>1. TypeOK /\ AnswersInv /\ CommandInv => RetryUnlessStopFailed
  BY DEF TypeOK, AnswersInv, CommandInv, RetryUnlessStopFailed, RetryPossible, DriverAccepts
<1> QED
  BY <1>1, AnswersInit, AnswersKept, AlwaysTyped, PTL DEF Spec

-----------------------------------------------------------------------------
(* On a clean line every text is heard to its own end.                     *)

Ends  == {"REJECTED", "IDLE"}
Clean == ~stale /\ mishaps = {}

\* An end byte has been read, or its event been noted, in this poll.
EndHeard ==
  \/ poll.events \cap Ends # {}
  \/ \E i \in 1 .. Len(poll.bytes) : poll.bytes[i] \in Ends

\* The last frame on the wire tells what the service is at: a voice has its
\* text there, or with the chip; anything else has sent a stop behind it.  An
\* end that was heard is the end of the text.
WireInv ==
  /\ wire \in Seq({"STOP", "SPEAK"})
  /\ service = "PLAYING_VOICE" => muted = FALSE
  /\ service = "PLAYING_VOICE" /\ wire # <<>> => wire[Len(wire)] = "SPEAK"
  /\ service # "PLAYING_VOICE" /\ wire # <<>> => wire[Len(wire)] = "STOP"
  /\ service # "PLAYING_VOICE" /\ wire = <<>> => speaking = FALSE
  /\ EndHeard => wire = <<>> /\ speaking = FALSE

EndsInv == ~stale => ~(EndsUnread > EndsDue)

LineInv == Clean => WireInv

LEMMA LineInit == Init => LineInv /\ EndsInv
<1> SUFFICES ASSUME Init
             PROVE  LineInv /\ EndsInv
  OBVIOUS
<1>1. <<>> \in Seq({"STOP", "SPEAK"}) /\ Len(<<>>) = 0
  BY EmptySeq
<1>2. ~EndHeard
  BY <1>1 DEF Init, EndHeard
<1>3. LineInv
  BY <1>1, <1>2 DEF Init, LineInv, WireInv
<1>4. ~(EndsUnread > EndsDue)
  <2> DEFINE bytes == fifo \o outbox
  <2>1. bytes = <<"INITIALIZED">>
    BY ConcatEmptySeq DEF Init
  <2>2. {i \in DOMAIN bytes : bytes[i] \in {"REJECTED", "IDLE"}} = {}
    BY <2>1
  <2>3. EndsUnread = 0
    BY <2>2, FS_EmptySet DEF EndsUnread
  <2> QED
    BY <2>3 DEF EndsDue
<1> QED
  BY <1>3, <1>4 DEF EndsInv

\* With no end byte too many about, one in the FIFO is that of the voice.
LEMMA EndIsDue ==
  ASSUME TypeOK, ~(EndsUnread > EndsDue), NEW k \in 1 .. Len(fifo), fifo[k] \in Ends
  PROVE  wire = <<>> /\ speaking = FALSE
<1> DEFINE bytes == fifo \o outbox
           S == {i \in DOMAIN bytes : bytes[i] \in {"REJECTED", "IDLE"}}
<1>1. /\ Len(fifo) \in Nat /\ Len(outbox) \in Nat
      /\ bytes \in Seq(Bytes) /\ Len(bytes) = Len(fifo) + Len(outbox)
      /\ \A i \in 1 .. Len(fifo) + Len(outbox) :
           bytes[i] = IF i <= Len(fifo) THEN fifo[i] ELSE outbox[i - Len(fifo)]
  BY LenProperties, ConcatProperties DEF TypeOK
<1>2. DOMAIN bytes = 1 .. Len(bytes) /\ Len(bytes) \in Nat
  BY <1>1, LenProperties
<1> HIDE DEF bytes
<1>3. k \in DOMAIN bytes /\ bytes[k] = fifo[k]
  BY <1>1, <1>2
<1>4. k \in S
  BY <1>3 DEF Ends
<1>5. IsFiniteSet(S) /\ Cardinality(S) \in Nat
  <2>1. IsFiniteSet(DOMAIN bytes)
    BY <1>2, FS_Interval
  <2>2. IsFiniteSet(S)
    BY <2>1, FS_Subset
  <2> QED
    BY <2>2, FS_CardinalityType
<1>6. Cardinality(S) # 0
  BY <1>4, <1>5, FS_EmptySet
<1>7. EndsUnread = Cardinality(S)
  BY DEF EndsUnread, bytes
<1> HIDE DEF S
<1>8. EndsDue # 0
  BY <1>5, <1>6, <1>7 DEF EndsDue
<1> QED
  BY <1>8 DEF EndsDue, TypeOK

\* A clean line was clean before, and every transmission has been sent.
LEMMA CleanBefore ==
  ASSUME TypeOK, Next, Clean'
  PROVE  Clean /\ mishaps' = mishaps
<1>1. mishaps \subseteq mishaps'
  BY DEF Next, Commands, VoiceStart, SpeakSent, SpeakTimesOut, ServiceStop, EmergencyOn, EmergencyOff,
     DeviceStop, StopSent, StopTimesOut, Poll, PollHead, PollRead, PollByte, PollFault,
     Chip, ChipReceive, ChipFinish, ByteReceived
<1>2. stale' = (stale \/ EndsUnread' > EndsDue')
  BY DEF Next, History
<1> QED
  BY <1>1, <1>2 DEF Clean

\* What a stop on a clean line leaves.
LEMMA StopOnWire ==
  ASSUME TypeOK, WireInv, DeviceStop, mishaps' = {}
  PROVE  /\ wire' \in Seq({"STOP", "SPEAK"}) /\ wire' # <<>> /\ wire'[Len(wire')] = "STOP"
<1>1. wire' = Append(wire, "STOP")
  BY DEF DeviceStop, StopSent, StopTimesOut
<1> QED
  BY <1>1, AppendProperties DEF WireInv

LEMMA StartOnWire ==
  ASSUME TypeOK, ReadInv, WireInv, VoiceStart, mishaps' = {}
  PROVE  WireInv'
<1>1. /\ wire' = Append(wire, "SPEAK") /\ service' = "PLAYING_VOICE" /\ muted' = FALSE
      /\ UNCHANGED <<poll, speaking>> /\ poll.pc = "WAIT"
  BY DEF VoiceStart, SpeakSent, SpeakTimesOut, TypeOK
<1>2. wire' \in Seq({"STOP", "SPEAK"}) /\ wire' # <<>> /\ wire'[Len(wire')] = "SPEAK"
  BY <1>1, AppendProperties DEF WireInv
<1>3. ~EndHeard'
  <2>1. poll'.bytes = <<>> /\ poll'.events = {}
    BY <1>1 DEF ReadInv
  <2> QED
    BY <2>1, EmptySeq DEF EndHeard
<1> QED
  BY <1>1, <1>2, <1>3 DEF WireInv

\* Nobody begins a poll and ends a voice at once.
LEMMA NothingHeard ==
  ASSUME ReadInv, poll.pc = "WAIT", poll' = poll
  PROVE  ~EndHeard'
<1>1. poll'.bytes = <<>> /\ poll'.events = {}
  BY DEF ReadInv
<1> QED
  BY <1>1, EmptySeq DEF EndHeard

LEMMA CommandOnWire ==
  ASSUME TypeOK, ReadInv, WireInv, mishaps' = {}, ServiceStop \/ EmergencyOn \/ EmergencyOff
  PROVE  WireInv'
<1>1. speaking' = speaking /\ poll' = poll /\ poll.pc = "WAIT" /\ service' # "PLAYING_VOICE"
  BY DEF ServiceStop, EmergencyOn, EmergencyOff, chip, TypeOK
<1>2. \/ DeviceStop
      \/ service # "PLAYING_VOICE" /\ wire' = wire
  <2>1. CASE ServiceStop
    <3>1. CASE service = "PLAYING_VOICE"
      BY <2>1, <3>1 DEF ServiceStop
    <3>2. CASE service # "PLAYING_VOICE"
      BY <2>1, <3>2 DEF ServiceStop
    <3> QED
      BY <3>1, <3>2
  <2>2. CASE EmergencyOn
    BY <2>2 DEF EmergencyOn, DeviceStop
  <2>3. CASE EmergencyOff
    BY <2>3 DEF EmergencyOff, chip
  <2> QED
    BY <2>1, <2>2, <2>3
<1>3. ~EndHeard'
  BY <1>1, NothingHeard
<1>4. CASE DeviceStop
  BY <1>1, <1>3, <1>4, StopOnWire DEF WireInv
<1>5. CASE service # "PLAYING_VOICE" /\ wire' = wire
  BY <1>1, <1>3, <1>5 DEF WireInv
<1> QED
  BY <1>2, <1>4, <1>5

LEMMA PollOnWire ==
  ASSUME TypeOK, ReadInv, WireInv, ~(EndsUnread > EndsDue), mishaps' = {}, Poll
  PROVE  WireInv'
<1>1. CASE PollHead
  <2>1. wire' = wire /\ speaking' = speaking
    BY <1>1 DEF PollHead, chip
  <2>2. CASE fifo # <<>>
    <3>1. service' = service /\ muted' = muted /\ poll'.bytes = poll.bytes /\ poll'.events = poll.events
      BY <1>1, <2>2 DEF PollHead, TypeOK
    <3> QED
      BY <2>1, <3>1 DEF WireInv, EndHeard
  <2>3. CASE fifo = <<>>
    <3>1. poll' = Waiting /\ VoiceProcess(poll.events)
      BY <1>1, <2>3 DEF PollHead
    <3>2. ~EndHeard'
      BY <3>1, EmptySeq DEF EndHeard
    <3>3. CASE poll.events \cap Ends # {}
      <4>1. service' = "IDLE" /\ wire = <<>> /\ speaking = FALSE
        BY <3>1, <3>3 DEF VoiceProcess, WireInv, EndHeard, Ends
      <4> QED
        BY <2>1, <3>2, <4>1 DEF WireInv
    <3>4. CASE poll.events \cap Ends = {}
      <4>1. service' = service /\ muted' = muted
        BY <3>1, <3>4 DEF VoiceProcess, Ends
      <4> QED
        BY <2>1, <3>2, <4>1 DEF WireInv
    <3> QED
      BY <3>3, <3>4
  <2> QED
    BY <2>2, <2>3
<1>2. CASE PollRead
  <2>1. /\ UNCHANGED <<service, muted, wire, speaking>>
        /\ poll'.bytes = SubSeq(fifo, 1, poll.size) /\ poll'.events = poll.events
    BY <1>2 DEF PollRead, chip, TypeOK
  <2>2. poll.size \in 0 .. Len(fifo) /\ Len(fifo) \in Nat
    BY <1>2, LenProperties DEF PollRead, TypeOK, ReadInv
  <2>3. Len(poll'.bytes) = poll.size /\ \A i \in 1 .. poll.size : poll'.bytes[i] = fifo[i]
    BY <2>1, <2>2, ReadTyped DEF TypeOK
  <2>4. EndHeard' => wire = <<>> /\ speaking = FALSE
    <3>1. CASE poll.events \cap Ends # {}
      BY <3>1 DEF WireInv, EndHeard
    <3>2. CASE poll.events \cap Ends = {}
      <4>1. SUFFICES ASSUME NEW i \in 1 .. poll.size, fifo[i] \in Ends
                     PROVE  wire = <<>> /\ speaking = FALSE
        BY <2>1, <2>3, <3>2 DEF EndHeard
      <4>2. i \in 1 .. Len(fifo)
        BY <2>2
      <4> QED
        BY <4>1, <4>2, EndIsDue
    <3> QED
      BY <3>1, <3>2
  <2> QED
    BY <2>1, <2>4 DEF WireInv
<1>3. CASE PollByte
  <2>1. /\ UNCHANGED <<service, muted, wire, speaking>> /\ poll.bytes # <<>>
        /\ poll'.bytes = Tail(poll.bytes) /\ poll'.events = poll.events \cup {Head(poll.bytes)}
    BY <1>3 DEF PollByte, chip, TypeOK
  <2>2. /\ Len(poll.bytes) \in Nat \ {0} /\ Len(poll'.bytes) = Len(poll.bytes) - 1
        /\ \A i \in 1 .. Len(poll.bytes) - 1 : poll'.bytes[i] = poll.bytes[i + 1]
    BY <2>1, EmptySeq, HeadTailProperties DEF TypeOK
  <2>3. Head(poll.bytes) = poll.bytes[1]
    OBVIOUS
  <2>4. EndHeard' => EndHeard
    BY <2>1, <2>2, <2>3 DEF EndHeard
  <2> QED
    BY <2>1, <2>4 DEF WireInv
<1>4. CASE PollFault
  <2>1. DeviceStop /\ poll' = Waiting /\ speaking' = speaking /\ service' = "IDLE"
    BY <1>4 DEF PollFault
  <2>2. ~EndHeard'
    BY <2>1, EmptySeq DEF EndHeard
  <2> QED
    BY <2>1, <2>2, StopOnWire DEF WireInv
<1> QED
  BY <1>1, <1>2, <1>3, <1>4 DEF Poll

LEMMA ChipOnWire ==
  ASSUME TypeOK, WireInv, Chip
  PROVE  WireInv'
<1>1. /\ UNCHANGED <<service, muted>>
      /\ poll'.bytes = poll.bytes /\ poll'.events = poll.events
  BY DEF Chip, ChipReceive, ChipFinish, ByteReceived, TypeOK
<1>2. EndHeard' => EndHeard
  BY <1>1 DEF EndHeard
<1>3. CASE ChipReceive
  <2>1. /\ wire # <<>> /\ wire' = Tail(wire)
        /\ speaking' = IF wire[1] = "CUT" THEN speaking ELSE wire[1] = "SPEAK"
    BY <1>3 DEF ChipReceive
  <2>2. /\ Len(wire) \in Nat \ {0} /\ wire' \in Seq({"STOP", "SPEAK"}) /\ Len(wire') = Len(wire) - 1
        /\ \A i \in 1 .. Len(wire) - 1 : wire'[i] = wire[i + 1]
    BY <2>1, EmptySeq, HeadTailProperties DEF WireInv
  <2>3. wire' # <<>> => Len(wire') \in 1 .. Len(wire) - 1 /\ wire'[Len(wire')] = wire[Len(wire)]
    <3>1. wire' # <<>> => Len(wire') # 0
      BY <2>2, EmptySeq
    <3> QED
      BY <2>2, <3>1
  <2>4. wire' = <<>> => Len(wire) = 1
    BY <2>2, EmptySeq
  <2>5. service # "PLAYING_VOICE" /\ wire' = <<>> => speaking' = FALSE
    BY <2>1, <2>4 DEF WireInv
  <2> QED
    BY <1>1, <1>2, <2>1, <2>2, <2>3, <2>5 DEF WireInv
<1>4. CASE ChipFinish
  <2>1. wire' = wire /\ speaking' = FALSE
    BY <1>4 DEF ChipFinish
  <2> QED
    BY <1>1, <1>2, <2>1 DEF WireInv
<1>5. CASE ByteReceived
  <2>1. wire' = wire /\ speaking' = speaking
    BY <1>5 DEF ByteReceived
  <2> QED
    BY <1>1, <1>2, <2>1 DEF WireInv
<1> QED
  BY <1>3, <1>4, <1>5 DEF Chip

LEMMA LineKept ==
  TypeOK /\ ReadInv /\ LineInv /\ EndsInv /\ [Next]_vars => LineInv' /\ EndsInv'
<1> SUFFICES ASSUME TypeOK, ReadInv, LineInv, EndsInv, [Next]_vars
             PROVE  LineInv' /\ EndsInv'
  OBVIOUS
<1>1. CASE UNCHANGED vars
  BY <1>1 DEF vars, driver, chip, LineInv, WireInv, EndHeard, Clean, EndsInv, EndsUnread, EndsDue
<1>2. CASE Next
  <2>1. EndsInv'
    <3>1. stale' = (stale \/ EndsUnread' > EndsDue')
      BY <1>2 DEF Next, History
    <3> QED
      BY <3>1 DEF EndsInv
  <2>2. ASSUME Clean'
        PROVE  WireInv'
    <3>1. WireInv /\ ~(EndsUnread > EndsDue) /\ mishaps' = {}
      BY <1>2, <2>2, CleanBefore DEF LineInv, EndsInv, Clean
    <3> QED
      BY <1>2, <3>1, StartOnWire, CommandOnWire, PollOnWire, ChipOnWire DEF Next, Commands
  <2> QED
    BY <2>1, <2>2 DEF LineInv
<1> QED
  BY <1>1, <1>2

\* As long as nothing was left over, came in between or timed out, the chip
\* speaks, with no stop on its way, only what the service plays aloud.
THEOREM SpokenSafe == Spec => []SpokenAloudOnCleanLine
<1>1. TypeOK /\ LineInv => SpokenAloudOnCleanLine
  <2> SUFFICES ASSUME TypeOK, LineInv, ~stale, mishaps = {}, speaking,
                      \A i \in DOMAIN wire : wire[i] # "STOP"
               PROVE  service = "PLAYING_VOICE" /\ ~muted
    BY DEF SpokenAloudOnCleanLine, SpokenAloud
  <2>1. WireInv
    BY DEF LineInv, Clean
  <2>2. wire # <<>> => wire[Len(wire)] # "STOP"
    <3>1. Len(wire) \in Nat /\ DOMAIN wire = 1 .. Len(wire) /\ (wire # <<>> => Len(wire) # 0)
      BY LenProperties, EmptySeq DEF TypeOK
    <3> QED
      BY <3>1
  <2> QED
    BY <2>1, <2>2 DEF WireInv
<1> QED
  BY <1>1, LineInit, LineKept, AlwaysTyped, PTL DEF Spec
=============================================================================

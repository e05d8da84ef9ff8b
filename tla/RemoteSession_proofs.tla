------------------------ MODULE RemoteSession_proofs ------------------------
(***************************************************************************)
(* Proofs about the command session of RemoteModem: what the service, the  *)
(* driver, the UART and the module may hold at one time, for any ids, any  *)
(* number of tasks, any flow time and any room in the receive buffer.      *)
(***************************************************************************)
EXTENDS RemoteModem_proofs, SequenceTheorems

-----------------------------------------------------------------------------
(* The service's transitions, field by field.                              *)

\* The session is over and no command is to be sent.
AtRest(s) ==
  /\ s \in Services /\ s.stage \in {"QUIET", "BOOT_WAIT", "FAULT"}
  /\ ~s.pending /\ s.device = FreshDevice /\ s.report = NoReport

LEMMA FreshTypes == FreshDevice \in Devices /\ NoReport \in Reports
  BY DEF FreshDevice, NoReport, Devices, Reports

LEMMA ServiceSet ==
  Services = [stage : Stages, step : 1 .. 6, target : {"WRITE", "READ", "RECOVER"},
              pending : BOOLEAN, attempted : BOOLEAN,
              result : {"NONE", "RUNNING", "SUCCEEDED", "FAILED"}, requested : Ids \cup {NoId},
              flow_age : 0 .. FlowLimit, device : Devices, report : Reports]
<1>1. Len(ConfigCommands) + 1 = 6
  BY DEF ConfigCommands
<1> QED  BY <1>1 DEF Services

LEMMA ServiceFields ==
  ASSUME NEW s \in Services
  PROVE  /\ s.stage \in Stages /\ s.step \in 1 .. 6 /\ s.target \in {"WRITE", "READ", "RECOVER"}
         /\ s.pending \in BOOLEAN /\ s.attempted \in BOOLEAN
         /\ s.result \in {"NONE", "RUNNING", "SUCCEEDED", "FAILED"}
         /\ s.requested \in Ids \cup {NoId} /\ s.flow_age \in 0 .. FlowLimit
         /\ s.device \in Devices /\ s.report \in Reports
  BY ServiceSet

LEMMA ResetFacts ==
  ASSUME NEW s \in Services
  PROVE  /\ SessionReset(s) \in Services
         /\ SessionReset(s).device = FreshDevice /\ SessionReset(s).report = NoReport
         /\ SessionReset(s).stage = s.stage /\ SessionReset(s).step = s.step
         /\ SessionReset(s).target = s.target /\ SessionReset(s).pending = s.pending
         /\ SessionReset(s).result = s.result /\ SessionReset(s).requested = s.requested
         /\ SessionReset(s).attempted = s.attempted /\ SessionReset(s).flow_age = s.flow_age
  BY FreshTypes, ServiceSet DEF SessionReset

LEMMA QuietStartFacts ==
  ASSUME NEW s \in Services, NEW target \in {"WRITE", "READ", "RECOVER"}
  PROVE  /\ AtRest(QuietStart(s, target))
         /\ QuietStart(s, target).stage = "QUIET" /\ QuietStart(s, target).target = target
         /\ QuietStart(s, target).result = s.result
         /\ QuietStart(s, target).requested = s.requested
<1>1. QuietStart(s, target) \in Services
  BY FreshTypes, ServiceSet DEF QuietStart, SessionReset, Stages
<1> QED  BY <1>1, ServiceSet DEF QuietStart, SessionReset, AtRest

LEMMA BootWaitFacts ==
  ASSUME NEW s \in Services
  PROVE  /\ AtRest(BootWait(s)) /\ BootWait(s).stage = "BOOT_WAIT"
         /\ BootWait(s).result = s.result /\ BootWait(s).requested = s.requested
<1>1. "BOOT_WAIT" \in Stages /\ 1 \in 1 .. 6
  BY DEF Stages
<1>2. BootWait(s) \in Services
  BY <1>1, FreshTypes, ServiceSet DEF BootWait, SessionReset
<1> QED  BY <1>2, ServiceSet DEF BootWait, SessionReset, AtRest

LEMMA FailFacts ==
  ASSUME NEW s \in Services
  PROVE  /\ AtRest(Fail(s))
         /\ Fail(s).stage = "FAULT" \/ (Fail(s).stage = "QUIET" /\ Fail(s).target = "RECOVER")
         /\ Fail(s).result = (IF s.result = "RUNNING" THEN "FAILED" ELSE s.result)
         /\ Fail(s).requested = s.requested
<1> DEFINE f == [s EXCEPT !.pending = FALSE, !.result = IF @ = "RUNNING" THEN "FAILED" ELSE @]
           g == [f EXCEPT !.attempted = TRUE, !.flow_age = 0]
<1>1. f \in Services /\ f.result = (IF s.result = "RUNNING" THEN "FAILED" ELSE s.result)
      /\ f.requested = s.requested /\ f.attempted = s.attempted /\ ~f.pending
  BY ServiceSet
<1>2. 0 \in 0 .. FlowLimit
  BY ModemAssumption
<1>5. g \in Services /\ g.result = f.result /\ g.requested = s.requested
  BY <1>1, <1>2, ServiceSet
<1>3. Fail(s) = IF s.attempted THEN [SessionReset(f) EXCEPT !.stage = "FAULT"]
                ELSE QuietStart(g, "RECOVER")
  BY <1>1 DEF Fail
<1> HIDE DEF f, g
<1>4. CASE s.attempted
  <2>1. Fail(s) = [SessionReset(f) EXCEPT !.stage = "FAULT"] /\ "FAULT" \in Stages
    BY <1>3, <1>4 DEF Stages
  <2>2. SessionReset(f) \in Services
    BY <1>1, ResetFacts
  <2>3. /\ Fail(s) \in Services /\ Fail(s).stage = "FAULT"
        /\ Fail(s).pending = SessionReset(f).pending
        /\ Fail(s).device = SessionReset(f).device
        /\ Fail(s).report = SessionReset(f).report
        /\ Fail(s).result = SessionReset(f).result
        /\ Fail(s).requested = SessionReset(f).requested
    BY <2>1, <2>2, ServiceSet
  <2> QED  BY <1>1, <2>3, ResetFacts DEF AtRest
<1>6. CASE ~ s.attempted
  <2>1. Fail(s) = QuietStart(g, "RECOVER")
    BY <1>3, <1>6
  <2> QED  BY <1>1, <1>5, <2>1, QuietStartFacts
<1> QED  BY <1>4, <1>6

\* Only the driver and the report are changed.
SameFlow(s, t) ==
  /\ t.stage = s.stage /\ t.step = s.step /\ t.target = s.target /\ t.pending = s.pending
  /\ t.result = s.result /\ t.requested = s.requested

Driven(s, d, r) == [s EXCEPT !.device = d, !.report = r]

LEMMA DriverFacts ==
  ASSUME NEW s \in Services, NEW d \in Devices, NEW r \in Reports
  PROVE  /\ Driven(s, d, r) \in Services /\ SameFlow(s, Driven(s, d, r))
         /\ Driven(s, d, r).device = d /\ Driven(s, d, r).report = r
  BY ServiceSet DEF Driven, SameFlow

LEMMA CompleteFacts ==
  ASSUME NEW s \in Services, NEW outcome \in {"OK", "FAILED"}
  PROVE  /\ Complete(s, outcome) \in Services /\ SameFlow(s, Complete(s, outcome))
         /\ Complete(s, outcome).device =
              [s.device EXCEPT !.pending = FALSE, !.mode = IF outcome = "OK" THEN @ ELSE "UNKNOWN"]
         /\ Complete(s, outcome).report = [s.report EXCEPT !.done = outcome]
<1> DEFINE d == [s.device EXCEPT !.pending = FALSE, !.mode = IF outcome = "OK" THEN @ ELSE "UNKNOWN"]
           r == [s.report EXCEPT !.done = outcome]
<1>1. d \in Devices /\ r \in Reports
  BY ServiceFields DEF Devices, Reports
<1>2. Complete(s, outcome) = Driven(s, d, r)
  BY ServiceSet DEF Complete, Driven, Devices
<1>3. Driven(s, d, r).device = d /\ Driven(s, d, r).report = r
  BY <1>1, DriverFacts
<1>4. Driven(s, d, r) \in Services /\ SameFlow(s, Driven(s, d, r))
  BY <1>1, DriverFacts
<1> QED  BY <1>2, <1>3, <1>4

LEMMA ReadyFacts ==
  ASSUME NEW s \in Services
  PROVE  /\ OnReady(s) \in Services /\ SameFlow(s, OnReady(s))
         /\ ~OnReady(s).device.pending /\ OnReady(s).device.mode = "TRANSPARENT"
         /\ OnReady(s).device.command = s.device.command
         /\ OnReady(s).report =
              [s.report EXCEPT !.ready = TRUE, !.done = IF s.device.pending THEN "FAILED" ELSE @]
<1> DEFINE c == IF s.device.pending THEN Complete(s, "FAILED") ELSE s
           d == [c.device EXCEPT !.mode = "TRANSPARENT"]
           r == [c.report EXCEPT !.ready = TRUE]
<1>1. /\ c \in Services /\ SameFlow(s, c) /\ ~c.device.pending
      /\ c.device.command = s.device.command
      /\ c.report = [s.report EXCEPT !.done = IF s.device.pending THEN "FAILED" ELSE @]
  <2>1. CASE s.device.pending
    <3>1. /\ c = Complete(s, "FAILED") /\ c \in Services /\ SameFlow(s, c)
          /\ c.device = [s.device EXCEPT !.pending = FALSE, !.mode = "UNKNOWN"]
          /\ c.report = [s.report EXCEPT !.done = "FAILED"]
      BY <2>1, CompleteFacts
    <3> QED  BY <2>1, <3>1, ServiceFields DEF Devices
  <2>2. CASE ~s.device.pending
    BY <2>2, ServiceFields DEF SameFlow, Reports
  <2> QED  BY <2>1, <2>2
<1>2. OnReady(s) = [c EXCEPT !.device.mode = "TRANSPARENT", !.report.ready = TRUE]
  BY DEF OnReady
<1> HIDE DEF c
<1>3. d \in Devices /\ r \in Reports
  BY <1>1, ServiceFields DEF Devices, Reports
<1>4. OnReady(s) = Driven(c, d, r)
  BY <1>1, <1>2, ServiceSet DEF Driven
<1>5. /\ d.mode = "TRANSPARENT" /\ d.pending = c.device.pending
      /\ d.command = s.device.command
      /\ r = [s.report EXCEPT !.ready = TRUE, !.done = IF s.device.pending THEN "FAILED" ELSE @]
  BY <1>1, ServiceFields DEF Devices, Reports
<1> HIDE DEF d, r
<1> QED  BY <1>1, <1>3, <1>4, <1>5, DriverFacts DEF SameFlow

LEMMA ReplyOkFacts ==
  ASSUME NEW s \in Services, NEW l \in Outcomes, s.device.pending, l.answer = "OK"
  PROVE  /\ OnReply(s, l) \in Services /\ SameFlow(s, OnReply(s, l))
         /\ ~OnReply(s, l).device.pending
         /\ OnReply(s, l).device.command = s.device.command
         /\ OnReply(s, l).device.mode = ModeAfter(s)
         /\ OnReply(s, l).report.done = "OK"
         /\ OnReply(s, l).report.ready = s.report.ready
         /\ OnReply(s, l).report.full => l.full /\ OnReply(s, l).report.id = l.id
<1> DEFINE m == [s EXCEPT !.device.mode = ModeAfter(s)]
           c == Complete(m, "OK")
           known == l.full /\ l.command = s.device.command
           r == [c.report EXCEPT !.full = known, !.id = IF known THEN l.id ELSE NoId]
<1>1. ModeAfter(s) \in {"UNKNOWN", "TRANSPARENT", "COMMAND", "REBOOTING"}
  BY ServiceFields DEF ModeAfter, Devices
<1>2. /\ m \in Services /\ m.device.mode = ModeAfter(s)
      /\ m.device.command = s.device.command /\ m.report = s.report /\ SameFlow(s, m)
  BY <1>1, ServiceSet, ServiceFields DEF Devices, SameFlow
<1>3. OnReply(s, l) = [c EXCEPT !.report.full = known, !.report.id = IF known THEN l.id ELSE NoId]
  BY DEF OnReply
<1> HIDE DEF m
<1>4. /\ c \in Services /\ SameFlow(s, c) /\ ~c.device.pending /\ c.device \in Devices
      /\ c.device.command = s.device.command /\ c.device.mode = ModeAfter(s)
      /\ c.report = [s.report EXCEPT !.done = "OK"]
  <2>1. /\ c \in Services /\ SameFlow(m, c) /\ c.report = [m.report EXCEPT !.done = "OK"]
        /\ c.device = [m.device EXCEPT !.pending = FALSE, !.mode = @]
    BY <1>2, CompleteFacts
  <2>2. m.device \in Devices /\ c.device \in Devices
    BY <1>2, <2>1, ServiceFields
  <2>3. /\ ~c.device.pending /\ c.device.command = s.device.command
        /\ c.device.mode = ModeAfter(s)
    <3> DEFINE d == m.device
    <3>1. d \in Devices /\ c.device = [d EXCEPT !.pending = FALSE, !.mode = @]
      BY <2>1, <2>2
    <3> HIDE DEF d
    <3>2. ~c.device.pending /\ c.device.command = d.command /\ c.device.mode = d.mode
      BY <3>1 DEF Devices
    <3> QED  BY <1>2, <3>2 DEF d
  <2>4. c \in Services /\ c.report = [s.report EXCEPT !.done = "OK"]
    BY <1>2, <2>1
  <2>5. SameFlow(s, c)
    <3>1. SameFlow(s, m) /\ SameFlow(m, c)
      BY <1>2, <2>1
    <3> HIDE DEF c
    <3> QED  BY <3>1 DEF SameFlow
  <2> QED  BY <2>2, <2>3, <2>4, <2>5
<1> HIDE DEF c
<1>5. known \in BOOLEAN /\ l.id \in Ids \cup {NoId} /\ (known => l.full)
  BY DEF Outcomes
<1> HIDE DEF known
<1>8. r \in Reports
  <2>1. c.report \in Reports /\ NoId \in Ids \cup {NoId}
    BY <1>4, ServiceFields
  <2>2. (IF known THEN l.id ELSE NoId) \in Ids \cup {NoId}
    BY <1>5
  <2> QED  BY <1>5, <2>1, <2>2 DEF Reports
<1>6. OnReply(s, l) = Driven(c, c.device, r)
  BY <1>3, <1>4, ServiceSet DEF Driven
<1>7. /\ r.done = "OK" /\ r.ready = s.report.ready
      /\ r.full => l.full /\ r.id = l.id
  BY <1>4, <1>5, ServiceFields DEF Reports
<1> HIDE DEF r
<1> QED  BY <1>4, <1>6, <1>7, <1>8, DriverFacts DEF SameFlow

LEMMA TableLengths == Len(ReadCommands) = 5 /\ Len(ConfigCommands) = 5
  BY DEF ReadCommands, ConfigCommands

\* The step of a command table is in the table.
InTable(s) == s.stage \in {"STARTUP_READ", "WRITE_CONFIG"} => s.step <= 5

LEMMA CommandOfType ==
  ASSUME NEW s \in Services, s.stage \in CommandStages, InTable(s)
  PROVE  CommandOf(s) \in AtCommands
<1>1. s.step \in 1 .. 6
  BY ServiceFields
<1>2. CASE s.stage \in {"STARTUP_READ", "WRITE_CONFIG"}
  <2>1. s.step \in {1, 2, 3, 4, 5}
    BY <1>1, <1>2 DEF InTable
  <2>2. /\ ReadCommands[1] = "ENTER" /\ ReadCommands[2] = "SIM_QUERY"
        /\ ReadCommands[3] = "REGISTRATION_QUERY" /\ ReadCommands[4] = "CONNECTION_QUERY"
        /\ ReadCommands[5] = "EXIT"
    BY DEF ReadCommands
  <2>3. /\ ConfigCommands[1] = "ENTER" /\ ConfigCommands[2] = "MODE_SET"
        /\ ConfigCommands[3] = "REGISTRATION_SET" /\ ConfigCommands[4] = "SAVE"
        /\ ConfigCommands[5] = "RESTART"
    BY DEF ConfigCommands
  <2>4. ReadCommands[s.step] \in AtCommands /\ ConfigCommands[s.step] \in AtCommands
    BY <2>1, <2>2, <2>3 DEF AtCommands
  <2> QED  BY <1>2, <2>4 DEF CommandOf
<1>3. CASE s.stage = "RECOVER_ENTER" \/ s.stage = "RECOVER_EXIT"
  BY <1>3 DEF CommandOf, AtCommands
<1> QED  BY <1>2, <1>3 DEF CommandStages

\* What a completed command leads to, one line for each case of Advance.
NextStep(s, t) == /\ s.stage \in {"STARTUP_READ", "WRITE_CONFIG"} /\ s.step < 5
                  /\ t.stage = s.stage /\ t.step = s.step + 1 /\ t.result = s.result
ReadDone(s, t) == /\ s.stage = "STARTUP_READ" /\ s.step = 5 /\ t.stage = "NORMAL"
                  /\ t.result = IF s.result = "RUNNING" THEN "SUCCEEDED" ELSE s.result
WriteDone(s, t) == /\ s.stage = "WRITE_CONFIG" /\ s.step = 5 /\ t.stage = "RESTART_WAIT"
                   /\ t.result = s.result
EnterDone(s, t) == s.stage = "RECOVER_ENTER" /\ t.stage = "RECOVER_EXIT" /\ t.result = s.result

LEMMA AdvanceFacts ==
  ASSUME NEW s \in Services, s.stage \in CommandStages, InTable(s), ~s.pending
  PROVE  /\ Advance(s) \in Services /\ ~Advance(s).pending
         /\ Advance(s).requested = s.requested
         /\ \/ /\ \/ NextStep(s, Advance(s)) \/ ReadDone(s, Advance(s))
                  \/ WriteDone(s, Advance(s)) \/ EnterDone(s, Advance(s))
               /\ Advance(s).device = s.device /\ Advance(s).report = s.report
            \/ /\ s.stage = "RECOVER_EXIT" /\ AtRest(Advance(s))
               /\ Advance(s).stage = "QUIET" /\ Advance(s).target = "READ"
               /\ Advance(s).result = s.result
<1>1. s.step \in 1 .. 6
  BY ServiceFields
<1>2. CASE s.stage \in {"STARTUP_READ", "WRITE_CONFIG"} /\ s.step < 5
  <2>1. Advance(s) = [s EXCEPT !.step = @ + 1]
    <3>1. CASE s.stage = "STARTUP_READ"
      BY <1>1, <1>2, <3>1, TableLengths DEF Advance
    <3>2. CASE s.stage = "WRITE_CONFIG"
      BY <1>1, <1>2, <3>2, TableLengths DEF Advance
    <3> QED  BY <1>2, <3>1, <3>2
  <2>2. s.step + 1 \in 1 .. 6
    BY <1>1, <1>2
  <2> QED  BY <1>2, <2>1, <2>2, ServiceSet DEF NextStep
<1>3. CASE s.stage = "STARTUP_READ" /\ s.step = 5
  <2>1. Advance(s) = [s EXCEPT !.step = @ + 1, !.stage = "NORMAL", !.attempted = FALSE,
                               !.result = IF @ = "RUNNING" THEN "SUCCEEDED" ELSE @]
    BY <1>3, TableLengths DEF Advance
  <2>2. s.step + 1 \in 1 .. 6 /\ "NORMAL" \in Stages
    BY <1>3 DEF Stages
  <2> QED  BY <1>3, <2>1, <2>2, ServiceSet DEF ReadDone
<1>4. CASE s.stage = "WRITE_CONFIG" /\ s.step = 5
  <2>1. Advance(s) = [s EXCEPT !.step = @ + 1, !.stage = "RESTART_WAIT"]
    BY <1>4, TableLengths DEF Advance
  <2>2. s.step + 1 \in 1 .. 6 /\ "RESTART_WAIT" \in Stages
    BY <1>4 DEF Stages
  <2> QED  BY <1>4, <2>1, <2>2, ServiceSet DEF WriteDone
<1>5. CASE s.stage = "RECOVER_ENTER"
  <2>1. Advance(s) = [s EXCEPT !.stage = "RECOVER_EXIT"]
    BY <1>5 DEF Advance
  <2>2. "RECOVER_EXIT" \in Stages
    BY DEF Stages, CommandStages
  <2> QED  BY <1>5, <2>1, <2>2, ServiceSet DEF EnterDone
<1>6. CASE s.stage = "RECOVER_EXIT"
  <2>1. Advance(s) = QuietStart(s, "READ")
    BY <1>6 DEF Advance
  <2> QED  BY <1>6, <2>1, QuietStartFacts DEF AtRest
<1> QED  BY <1>1, <1>2, <1>3, <1>4, <1>5, <1>6 DEF CommandStages, InTable

-----------------------------------------------------------------------------
(* The session of the service, the driver and the report.                  *)

\* Between two steps: a command is pending in the service exactly in the stages
\* that have commands, and it is pending in the driver or reported, not both.
SessionOf(s) ==
  /\ s \in Services /\ InTable(s)
  /\ s.pending <=> s.stage \in CommandStages
  /\ s.pending <=> (s.device.pending \/ s.report.done # "NO")
  /\ s.device.pending => s.report.done = "NO"
  /\ s.pending => s.device.command = CommandOf(s)

SessionInv ==
  /\ SessionOf(remote)
  /\ owner_pc # "READ" => remote.report.done = "NO" /\ ~remote.report.ready

\* Inside a pass: as above, but a stage may have its next command still to send.
MidPass(s) ==
  /\ s \in Services /\ InTable(s)
  /\ s.report.done = "NO" /\ ~s.report.ready
  /\ s.pending <=> s.device.pending
  /\ s.pending => s.stage \in CommandStages /\ s.device.command = CommandOf(s)

LEMMA RestIsMidPass == ASSUME NEW s, AtRest(s) PROVE MidPass(s)
  BY DEF AtRest, MidPass, FreshDevice, NoReport, InTable

LEMMA MidPassEnds == ASSUME NEW s, MidPass(s), ~Sends(s) PROVE SessionOf(s)
  BY ServiceFields DEF MidPass, SessionOf, Sends

LEMMA PolledFacts ==
  ASSUME remote \in Services
  PROVE  /\ Polled \in Services /\ SameFlow(remote, Polled)
         /\ Polled.device = remote.device
         /\ Polled.report.done = "NO" /\ ~Polled.report.ready
<1> DEFINE r == [remote.report EXCEPT !.done = "NO", !.ready = FALSE]
<1>1. r \in Reports /\ r.done = "NO" /\ ~r.ready /\ remote.device \in Devices
  BY ServiceFields DEF Reports
<1>2. Polled = Driven(remote, remote.device, r)
  BY ServiceSet DEF Polled, Driven
<1> HIDE DEF r
<1> QED  BY <1>1, <1>2, DriverFacts

\* The state the completed command is advanced from.
Completed == [Polled EXCEPT !.pending = FALSE]

LEMMA CompletedFacts ==
  ASSUME SessionInv, remote.pending, remote.report.done = "OK"
  PROVE  /\ Completed \in Services /\ ~Completed.pending /\ ~Completed.device.pending
         /\ Completed.stage \in CommandStages /\ InTable(Completed)
         /\ Completed.stage = remote.stage /\ Completed.step = remote.step
         /\ Completed.result = remote.result /\ Completed.requested = remote.requested
         /\ Completed.device = remote.device
         /\ Completed.report.done = "NO" /\ ~Completed.report.ready
<1>1. /\ Polled \in Services /\ SameFlow(remote, Polled)
      /\ Polled.device = remote.device /\ ~remote.device.pending
      /\ Polled.report.done = "NO" /\ ~Polled.report.ready
      /\ remote.stage \in CommandStages /\ InTable(remote)
  BY PolledFacts DEF SessionInv, SessionOf
<1>2. /\ Completed \in Services /\ ~Completed.pending
      /\ Completed.stage = Polled.stage /\ Completed.step = Polled.step
      /\ Completed.result = Polled.result /\ Completed.requested = Polled.requested
      /\ Completed.device = Polled.device /\ Completed.report = Polled.report
  BY <1>1, ServiceSet DEF Completed
<1> QED  BY <1>1, <1>2 DEF SameFlow, InTable

LEMMA CompletionIs ==
  Completion = IF remote.pending /\ remote.report.done = "OK" THEN Advance(Completed) ELSE Polled
  BY DEF Completion, Completed, Report

LEMMA CompletionMidPass ==
  ASSUME SessionInv, ~CompletionFails
  PROVE  MidPass(Completion)
<1>1. remote \in Services /\ InTable(remote)
  BY DEF SessionInv, SessionOf
<1>2. CASE remote.pending /\ remote.report.done = "OK"
  <2>1. Completion = Advance(Completed)
    BY <1>2, CompletionIs
  <2>2. Completed \in Services /\ Completed.stage \in CommandStages /\ InTable(Completed)
        /\ ~Completed.pending /\ ~Completed.device.pending
        /\ Completed.report.done = "NO" /\ ~Completed.report.ready
    BY <1>2, CompletedFacts
  <2>3. \/ /\ \/ NextStep(Completed, Completion) \/ ReadDone(Completed, Completion)
              \/ WriteDone(Completed, Completion) \/ EnterDone(Completed, Completion)
           /\ Completion.device = Completed.device /\ Completion.report = Completed.report
           /\ Completion \in Services /\ ~Completion.pending
        \/ AtRest(Completion)
    BY <2>1, <2>2, AdvanceFacts
  <2>4. Completed.step \in 1 .. 6
    BY <2>2, ServiceFields
  <2> QED  BY <2>2, <2>3, <2>4, RestIsMidPass
           DEF MidPass, NextStep, ReadDone, WriteDone, EnterDone, InTable
<1>3. CASE ~(remote.pending /\ remote.report.done = "OK")
  <2>1. Completion = Polled
    BY <1>3, CompletionIs
  <2>2. remote.pending => remote.report.done = "NO"
    <3>1. remote.report.done \in {"NO", "OK", "FAILED"}
      BY <1>1, ServiceFields DEF Reports
    <3> QED  BY <1>3, <3>1 DEF CompletionFails, Report
  <2>3. /\ Polled \in Services /\ SameFlow(remote, Polled)
        /\ Polled.device = remote.device
        /\ Polled.report.done = "NO" /\ ~Polled.report.ready
    BY <1>1, PolledFacts
  <2>4. CommandOf(Polled) = CommandOf(remote)
    BY <2>3 DEF SameFlow, CommandOf
  <2>5. /\ remote.pending <=> remote.stage \in CommandStages
        /\ remote.pending <=> remote.device.pending
        /\ remote.pending => remote.device.command = CommandOf(remote)
    BY <2>2 DEF SessionInv, SessionOf
  <2> QED  BY <1>1, <2>1, <2>3, <2>4, <2>5 DEF MidPass, SameFlow, InTable
<1> QED  BY <1>2, <1>3

LEMMA NotifiedMidPass ==
  ASSUME SessionInv, ServeGoesOn
  PROVE  /\ MidPass(Notified)
         /\ \/ Notified = Completion
            \/ /\ Report.ready /\ AtRest(Notified) /\ Notified.stage = "BOOT_WAIT"
               /\ Notified.result = Completion.result
               /\ Notified.requested = Completion.requested
<1>1. MidPass(Completion) /\ Completion \in Services
  BY CompletionMidPass DEF ServeGoesOn, MidPass
<1>2. CASE ~Report.ready
  BY <1>1, <1>2 DEF Notified
<1>3. CASE Report.ready
  <2>1. Notified = AfterReady(Completion)
    BY <1>3 DEF Notified
  <2>2. CASE ReadyRestarts(Completion)
    <3> DEFINE c == [Completion EXCEPT !.flow_age = 0, !.attempted = FALSE]
    <3>1. 0 \in 0 .. FlowLimit
      BY ModemAssumption
    <3>2. c \in Services /\ c.result = Completion.result /\ c.requested = Completion.requested
      BY <1>1, <3>1, ServiceSet
    <3>3. ~ReadyExpected(Completion)
      BY <2>2 DEF ReadyRestarts, ReadyExpected, Settled
    <3>4. Notified = BootWait(c)
      BY <2>1, <2>2, <3>3 DEF AfterReady
    <3> HIDE DEF c
    <3> QED  BY <1>3, <3>2, <3>4, BootWaitFacts, RestIsMidPass
  <2>3. CASE ReadyExpected(Completion)
    <3>1. ~ReadyRestarts(Completion)
      BY <2>3 DEF ReadyRestarts, ReadyExpected, Settled
    <3>2. Notified = BootWait(Completion)
      BY <2>1, <2>3, <3>1 DEF AfterReady
    <3> QED  BY <1>1, <1>3, <3>2, BootWaitFacts, RestIsMidPass
  <2>4. CASE ~ReadyRestarts(Completion) /\ ~ReadyExpected(Completion)
    <3>1. Notified = Completion
      BY <2>1, <2>4 DEF AfterReady
    <3> QED  BY <1>1, <3>1
  <2> QED  BY <2>2, <2>3, <2>4
<1> QED  BY <1>2, <1>3

\* The service after it has sent its next command.
Asked(s) == [s EXCEPT !.pending = TRUE, !.report = NoReport,
                      !.device.pending = TRUE, !.device.command = CommandOf(s)]

LEMMA AskedFacts ==
  ASSUME NEW s \in Services, s.stage \in CommandStages, InTable(s)
  PROVE  /\ SessionOf(Asked(s)) /\ Asked(s).report = NoReport
         /\ Asked(s).pending /\ Asked(s).device.pending
         /\ Asked(s).device.command = CommandOf(s)
         /\ Asked(s).stage = s.stage /\ Asked(s).step = s.step
         /\ Asked(s).result = s.result /\ Asked(s).requested = s.requested
<1> DEFINE d == [s.device EXCEPT !.pending = TRUE, !.command = CommandOf(s)]
<1>1. CommandOf(s) \in AtCommands /\ s.device \in Devices
  BY CommandOfType, ServiceFields
<1>2. d \in Devices /\ d.pending /\ d.command = CommandOf(s)
  BY <1>1 DEF Devices
<1>3. Asked(s) = [s EXCEPT !.pending = TRUE, !.report = NoReport, !.device = d]
  BY ServiceSet DEF Asked
<1> HIDE DEF d
<1>4. /\ Asked(s) \in Services /\ Asked(s).pending /\ Asked(s).report = NoReport
      /\ Asked(s).device = d /\ Asked(s).stage = s.stage /\ Asked(s).step = s.step
      /\ Asked(s).result = s.result /\ Asked(s).requested = s.requested
  BY <1>2, <1>3, FreshTypes, ServiceSet
<1>5. CommandOf(Asked(s)) = CommandOf(s)
  BY <1>4 DEF CommandOf
<1> QED  BY <1>2, <1>4, <1>5 DEF SessionOf, InTable, NoReport

-----------------------------------------------------------------------------
(* What a pass of the service comes to.                                    *)

Ended(result) == IF result = "RUNNING" THEN "FAILED" ELSE result

\* The UART is left alone, or a command is sent to it.
Sending == KeepUart \/ \E s \in Services : CommandOf(s) \in AtCommands /\ Transmit(s)

\* The flow has failed.
PassFails == /\ AtRest(remote') /\ Sending
             /\ \/ remote'.result = Ended(remote.result)
                \/ ~CompletionFails /\ remote'.result = Ended(Completion.result)
             /\ remote'.requested = remote.requested

\* The wait behind a boot is over.
PassSettles == /\ AtRest(remote') /\ remote.stage = "BOOT_WAIT"
               /\ remote'.stage = "QUIET" /\ remote'.target = "READ"
               /\ remote'.result = remote.result /\ remote'.requested = remote.requested
               /\ KeepUart

\* Nothing is sent.
PassWaits == ServeGoesOn /\ remote' = Notified /\ ~Sends(Notified) /\ KeepUart

\* The next command of the stage is sent, or the first of a stage.
NextAsked(s) == /\ s = Completion /\ ~CompletionFails /\ remote.pending /\ remote.report.done = "OK"
                /\ NextStep(Completed, s) \/ EnterDone(Completed, s)
FirstAsked(s) ==
  /\ remote.stage = "QUIET" /\ Waited(remote.target)
  /\ s.step = 1 /\ s.result = remote.result /\ s.requested = remote.requested
  /\ s.stage = CASE remote.target = "WRITE" -> "WRITE_CONFIG"
                 [] remote.target = "READ"  -> "STARTUP_READ"
                 [] OTHER                   -> "RECOVER_ENTER"

PassAsks(s) == /\ s \in Services /\ s.stage \in CommandStages /\ InTable(s)
               /\ NextAsked(s) \/ FirstAsked(s)
               /\ remote' = Asked(s) /\ Transmit(s)

LEMMA CompletionKeeps ==
  ASSUME SessionInv, ~CompletionFails
  PROVE  /\ Completion \in Services /\ Completion.requested = remote.requested
         /\ Completion.result \in {remote.result, "SUCCEEDED"}
<1>1. Completion \in Services /\ remote \in Services
  BY CompletionMidPass DEF MidPass, SessionInv, SessionOf
<1>2. CASE remote.pending /\ remote.report.done = "OK"
  <2>1. /\ Completion = Advance(Completed)
        /\ Completed.result = remote.result /\ Completed.requested = remote.requested
        /\ Completed \in Services /\ Completed.stage \in CommandStages /\ InTable(Completed)
        /\ ~Completed.pending
    BY <1>2, CompletionIs, CompletedFacts
  <2> QED  BY <1>1, <2>1, AdvanceFacts DEF NextStep, ReadDone, WriteDone, EnterDone
<1>3. CASE ~(remote.pending /\ remote.report.done = "OK")
  <2>1. Completion = Polled
    BY <1>3, CompletionIs
  <2> QED  BY <1>1, <2>1, PolledFacts DEF SameFlow
<1> QED  BY <1>2, <1>3

LEMMA NotifiedKeeps ==
  ASSUME SessionInv, ServeGoesOn
  PROVE  /\ Notified \in Services /\ Notified.requested = remote.requested
         /\ Notified.result = Completion.result
  BY NotifiedMidPass, CompletionKeeps DEF ServeGoesOn, MidPass

\* A failure of Notified, or of what it leads to.
LEMMA NotifiedFails ==
  ASSUME SessionInv, ServeGoesOn, NEW s \in Services, s.result = Notified.result,
         s.requested = Notified.requested, remote' = Fail(s), Sending
  PROVE  PassFails
  BY NotifiedKeeps, FailFacts DEF PassFails, Ended, ServeGoesOn

LEMMA StepSent ==
  ASSUME SessionInv, ServeGoesOn, NEW s \in Services, s.stage \in CommandStages, InTable(s),
         s.result = Notified.result, s.requested = Notified.requested,
         NextAsked(s) \/ FirstAsked(s), StepSend(s)
  PROVE  PassFails \/ PassAsks(s)
<1>1. \/ remote' = Fail(s) /\ (KeepUart \/ Transmit(s))
      \/ remote' = Asked(s) /\ Transmit(s)
  BY DEF StepSend, Serve, Asked
<1>2. KeepUart \/ Transmit(s) => Sending
  BY CommandOfType DEF Sending
<1> QED  BY <1>1, <1>2, NotifiedFails DEF PassAsks

LEMMA QuietEndsOutcome ==
  ASSUME SessionInv, QuietEnds
  PROVE  PassFails \/ \E s : PassAsks(s)
<1> DEFINE r == SessionReset(Notified)
           s == [r EXCEPT !.step = 1,
                   !.stage = CASE Notified.target = "WRITE" -> "WRITE_CONFIG"
                               [] Notified.target = "READ"  -> "STARTUP_READ"
                               [] OTHER                     -> "RECOVER_ENTER"]
<1>1. /\ ServeGoesOn /\ Notified = Polled /\ Notified.stage = "QUIET"
      /\ Waited(Notified.target) /\ StepSend(s)
  BY DEF QuietEnds, InFlow, Undisturbed, QuietWait
<1>2. Polled \in Services /\ SameFlow(remote, Polled)
  BY PolledFacts DEF SessionInv, SessionOf
<1>3. r \in Services /\ r.result = Notified.result /\ r.requested = Notified.requested
  BY <1>1, <1>2, ResetFacts
<1> DEFINE stage == CASE Notified.target = "WRITE" -> "WRITE_CONFIG"
                      [] Notified.target = "READ"  -> "STARTUP_READ"
                      [] OTHER                     -> "RECOVER_ENTER"
<1>4. stage \in CommandStages /\ stage \in Stages /\ 1 \in 1 .. 6
  BY DEF CommandStages, Stages
<1>5. s = [r EXCEPT !.step = 1, !.stage = stage]
  OBVIOUS
<1>6. stage = CASE remote.target = "WRITE" -> "WRITE_CONFIG"
                [] remote.target = "READ"  -> "STARTUP_READ"
                [] OTHER                   -> "RECOVER_ENTER"
  BY <1>1, <1>2 DEF SameFlow
<1> HIDE DEF r, s, stage
<1>7. /\ s \in Services /\ s.stage = stage /\ s.step = 1
      /\ s.result = r.result /\ s.requested = r.requested
  BY <1>3, <1>4, <1>5, ServiceSet
<1>8. FirstAsked(s)
  BY <1>1, <1>2, <1>3, <1>6, <1>7 DEF FirstAsked, SameFlow
<1>9. s.stage \in CommandStages /\ InTable(s)
  BY <1>4, <1>7 DEF InTable
<1> QED  BY <1>1, <1>3, <1>7, <1>8, <1>9, StepSent

LEMMA NextCommandOutcome ==
  ASSUME SessionInv, NextCommand
  PROVE  PassFails \/ \E s : PassAsks(s)
<1>1. ServeGoesOn /\ Sends(Notified) /\ StepSend(Notified)
  BY DEF NextCommand, InFlow
<1>2. /\ MidPass(Notified) /\ Notified.stage \in CommandStages /\ ~Notified.pending
  BY <1>1, NotifiedMidPass DEF Sends
<1>3. Notified = Completion
  BY <1>1, <1>2, NotifiedMidPass DEF CommandStages
<1>4. remote.pending /\ remote.report.done = "OK"
  <2> SUFFICES ASSUME ~(remote.pending /\ remote.report.done = "OK") PROVE FALSE
    OBVIOUS
  <2>1. Completion = Polled
    BY CompletionIs
  <2>2. SameFlow(remote, Polled) /\ (remote.pending <=> remote.stage \in CommandStages)
    BY PolledFacts DEF SessionInv, SessionOf
  <2> QED  BY <1>2, <1>3, <2>1, <2>2 DEF SameFlow
<1>5. NextStep(Completed, Notified) \/ EnterDone(Completed, Notified)
  <2>1. /\ Completion = Advance(Completed) /\ Completed \in Services
        /\ Completed.stage \in CommandStages /\ InTable(Completed) /\ ~Completed.pending
    BY <1>4, CompletionIs, CompletedFacts
  <2> QED  BY <1>2, <1>3, <2>1, AdvanceFacts
           DEF ReadDone, WriteDone, AtRest, CommandStages
<1>6. NextAsked(Notified)
  BY <1>1, <1>3, <1>4, <1>5 DEF NextAsked, ServeGoesOn
<1> QED  BY <1>1, <1>2, <1>6, StepSent DEF MidPass

LEMMA PassOutcome ==
  ASSUME SessionInv, ServePasses
  PROVE  PassFails \/ PassSettles \/ PassWaits \/ \E s : PassAsks(s)
<1>1. CASE ServeFailure
  <2>1. (remote' = BootWait(Fail(Polled)) \/ remote' = Fail(Polled)) /\ Sending
    BY <1>1 DEF ServeFailure, Serve, Sending
  <2>2. Polled \in Services /\ SameFlow(remote, Polled)
    BY PolledFacts DEF SessionInv, SessionOf
  <2>3. /\ AtRest(Fail(Polled)) /\ Fail(Polled).result = Ended(remote.result)
        /\ Fail(Polled).requested = remote.requested
    BY <2>2, FailFacts DEF SameFlow, Ended
  <2> QED  BY <2>1, <2>3, BootWaitFacts DEF PassFails, AtRest
<1>2. CASE ServeReboot
  <2>1. remote' = Fail(Completion) /\ ~CompletionFails /\ Sending
    BY <1>2 DEF ServeReboot, Serve, Sending
  <2> QED  BY <2>1, CompletionKeeps, FailFacts DEF PassFails, Ended
<1>3. CASE ServeSettled \/ Waits
  <2>1. ServeGoesOn /\ remote' = Notified /\ KeepUart
    BY <1>3 DEF ServeSettled, Waits, InFlow, Serve
  <2>2. ~Sends(Notified)
    BY <1>3 DEF ServeSettled, Waits, Sends, Settled, CommandStages
  <2> QED  BY <2>1, <2>2 DEF PassWaits
<1>4. CASE FlowTimeout \/ StageTimesOut
  <2>1. ServeGoesOn /\ remote' = Fail(Notified) /\ Sending
    BY <1>4 DEF FlowTimeout, StageTimesOut, InFlow, Serve, Sending
  <2> QED  BY <2>1, NotifiedKeeps, NotifiedFails
<1>5. CASE BootSettles
  <2>1. /\ ServeGoesOn /\ Notified = Polled /\ Notified.stage = "BOOT_WAIT"
        /\ remote' = QuietStart(Notified, "READ") /\ KeepUart
    BY <1>5 DEF BootSettles, InFlow, Undisturbed, Serve
  <2>2. Polled \in Services /\ SameFlow(remote, Polled)
    BY PolledFacts DEF SessionInv, SessionOf
  <2> QED  BY <2>1, <2>2, QuietStartFacts DEF PassSettles, SameFlow
<1>6. CASE QuietEnds
  BY <1>6, QuietEndsOutcome
<1>7. CASE NextCommand
  BY <1>7, NextCommandOutcome
<1> QED  BY <1>1, <1>2, <1>3, <1>4, <1>5, <1>6, <1>7 DEF ServePasses

-----------------------------------------------------------------------------
(* The session is kept by every step.                                      *)

\* Of a reading step, whatever line it reads.
LEMMA LineFacts ==
  ASSUME NEW s \in Services, NEW l \in Outcomes, SessionOf(s)
  PROVE  SessionOf(OnLine(s, l)) /\ SameFlow(s, OnLine(s, l))
         /\ OnLine(s, l).device.command = s.device.command
<1>1. CASE l.answer = "READY"
  <2>1. OnLine(s, l) = OnReady(s)
    BY <1>1 DEF OnLine
  <2>2. s.report \in Reports
    BY ServiceFields
  <2>3. /\ OnReady(s) \in Services /\ SameFlow(s, OnReady(s)) /\ ~OnReady(s).device.pending
        /\ OnReady(s).device.command = s.device.command
        /\ OnReady(s).report.done = IF s.device.pending THEN "FAILED" ELSE s.report.done
    BY <2>2, ReadyFacts DEF Reports
  <2>4. CommandOf(OnReady(s)) = CommandOf(s)
    BY <2>3 DEF SameFlow, CommandOf
  <2> QED  BY <2>1, <2>3, <2>4 DEF SessionOf, SameFlow, InTable
<1>2. CASE l.answer # "READY" /\ ~s.device.pending
  BY <1>2 DEF OnLine, OnReply, SameFlow
<1>3. CASE l.answer = "ERROR" /\ s.device.pending
  <2>1. OnLine(s, l) = Complete(s, "FAILED")
    BY <1>3 DEF OnLine, OnReply
  <2>2. s.report \in Reports /\ s.device \in Devices
    BY ServiceFields
  <2>3. /\ Complete(s, "FAILED") \in Services /\ SameFlow(s, Complete(s, "FAILED"))
        /\ Complete(s, "FAILED").device = [s.device EXCEPT !.pending = FALSE, !.mode = "UNKNOWN"]
        /\ Complete(s, "FAILED").report = [s.report EXCEPT !.done = "FAILED"]
    BY CompleteFacts
  <2>5. /\ ~OnLine(s, l).device.pending /\ OnLine(s, l).device.command = s.device.command
        /\ OnLine(s, l).report.done = "FAILED"
    BY <2>1, <2>2, <2>3 DEF Reports, Devices
  <2>4. CommandOf(OnLine(s, l)) = CommandOf(s)
    BY <2>1, <2>3 DEF SameFlow, CommandOf
  <2> QED  BY <1>3, <2>1, <2>3, <2>4, <2>5 DEF SessionOf, SameFlow, InTable
<1>4. CASE l.answer = "OK" /\ s.device.pending
  <2>1. OnLine(s, l) = OnReply(s, l)
    BY <1>4 DEF OnLine
  <2>3. /\ OnLine(s, l) \in Services /\ SameFlow(s, OnLine(s, l))
        /\ ~OnLine(s, l).device.pending /\ OnLine(s, l).device.command = s.device.command
        /\ OnLine(s, l).report.done = "OK"
    BY <1>4, <2>1, ReplyOkFacts
  <2>4. CommandOf(OnLine(s, l)) = CommandOf(s)
    BY <2>3 DEF SameFlow, CommandOf
  <2> QED  BY <1>4, <2>3, <2>4 DEF SessionOf, SameFlow, InTable
<1> QED  BY <1>1, <1>2, <1>3, <1>4 DEF Outcomes

\* What the UART holds, and what of the rest has a type of its own.
WireTypes ==
  /\ inbox \in Seq(Sent) /\ line \in Seq(Outcomes) /\ Len(line) <= LineLimit
  /\ owner_pc \in {"COMMAND", "RELEASE", "POLL", "READ", "PUBLISH"}
  /\ snapshot \in Stages /\ m_mode \in {"BOOT", "TRANSPARENT", "COMMAND"}
  /\ m_id \in Ids \cup {NoId} /\ m_saved \in Ids \cup {NoId}

LEMMA RestSession ==
  ASSUME NEW s, AtRest(s)
  PROVE  SessionOf(s) /\ s.report.done = "NO" /\ ~s.report.ready
  BY DEF AtRest, SessionOf, InTable, FreshDevice, NoReport, CommandStages

\* A request that is taken: the session ends, or nothing changes.
LEMMA TakeOutcome ==
  ASSUME SessionInv, SlotTypes, CommandTake
  PROVE  \/ remote' = remote
         \/ /\ AtRest(remote') /\ Settled(remote.stage)
            /\ \/ /\ remote'.stage = "QUIET" /\ remote'.target = "WRITE"
                  /\ remote'.result = "RUNNING" /\ remote'.requested \in Ids
               \/ /\ remote.stage = "NORMAL" /\ remote'.result = Ended(remote.result)
                  /\ remote'.requested = remote.requested
<1> DEFINE q == Head(queue)
<1>1. remote \in Services
  BY DEF SessionInv, SessionOf
<1>2. q \in Requests
  <2>1. queue \in Seq(Requests) /\ queue # <<>>
    BY DEF SlotTypes, CommandTake
  <2> QED  BY <2>1
<1>3. CASE q.type = "CONFIG" /\ Settled(remote.stage)
  <2> DEFINE s == [remote EXCEPT !.requested = q.id, !.result = "RUNNING", !.step = 1,
                                 !.attempted = FALSE, !.flow_age = 0]
  <2>1. q.id \in Ids /\ 0 \in 0 .. FlowLimit /\ 1 \in 1 .. 6
    BY <1>2, <1>3, ModemAssumption DEF Requests
  <2>2. s \in Services /\ s.result = "RUNNING" /\ s.requested = q.id
    BY <1>1, <2>1, ServiceSet
  <2>3. remote' = QuietStart(s, "WRITE")
    BY <1>3 DEF CommandTake, ConfigStart
  <2> HIDE DEF s
  <2> QED  BY <1>3, <2>1, <2>2, <2>3, QuietStartFacts
<1>4. CASE q.type = "CONFIG" /\ ~Settled(remote.stage)
  BY <1>4 DEF CommandTake, ConfigStart
<1>5. CASE q.type # "CONFIG"
  <2>1. remote' = remote \/ (remote.stage = "NORMAL" /\ remote' = Fail(remote))
    BY <1>5 DEF CommandTake
  <2> QED  BY <1>1, <2>1, FailFacts DEF Ended, Settled
<1> QED  BY <1>3, <1>4, <1>5

LEMMA LostOutcome ==
  ASSUME SessionInv, PollLost
  PROVE  \/ /\ remote.stage = "FAULT" /\ SameFlow(remote, remote')
            /\ remote'.device.pending = remote.device.pending
            /\ remote'.device.command = remote.device.command
            /\ remote'.report = remote.report /\ SessionOf(remote')
         \/ /\ AtRest(remote') /\ remote'.result = Ended(remote.result)
            /\ remote'.requested = remote.requested
<1>1. remote \in Services /\ SessionOf(remote)
  BY DEF SessionInv, SessionOf
<1>2. CASE remote.stage = "FAULT"
  <2> DEFINE d == [remote.device EXCEPT !.mode = "UNKNOWN"]
  <2>1. /\ d \in Devices /\ remote.report \in Reports
        /\ d.pending = remote.device.pending /\ d.command = remote.device.command
    BY <1>1, ServiceFields DEF Devices
  <2>2. remote' = Driven(remote, d, remote.report)
    BY <1>1, <1>2, ServiceSet DEF PollLost, Driven
  <2> HIDE DEF d
  <2>3. /\ remote' \in Services /\ SameFlow(remote, remote')
        /\ remote'.device = d /\ remote'.report = remote.report
    BY <1>1, <2>1, <2>2, DriverFacts
  <2>4. CommandOf(remote') = CommandOf(remote)
    BY <2>3 DEF SameFlow, CommandOf
  <2> QED  BY <1>1, <1>2, <2>1, <2>3, <2>4 DEF SessionOf, SameFlow, InTable
<1>3. CASE remote.stage # "FAULT"
  BY <1>1, <1>3, FailFacts DEF PollLost, Ended
<1> QED  BY <1>2, <1>3

LEMMA TickOutcome ==
  ASSUME SessionInv, Tick
  PROVE  /\ remote' \in Services /\ SameFlow(remote, remote') /\ SessionOf(remote')
         /\ remote'.device = remote.device /\ remote'.report = remote.report
<1>1. remote \in Services /\ SessionOf(remote)
  BY DEF SessionInv, SessionOf
<1>2. remote.flow_age \in 0 .. FlowLimit /\ remote.flow_age < FlowLimit
  BY <1>1, ServiceFields DEF Tick
<1>3. remote.flow_age + 1 \in 0 .. FlowLimit
  BY <1>2, ModemAssumption
<1>4. /\ remote' \in Services /\ SameFlow(remote, remote')
      /\ remote'.device = remote.device /\ remote'.report = remote.report
  BY <1>1, <1>3, ServiceSet DEF Tick, SameFlow
<1>5. CommandOf(remote') = CommandOf(remote)
  BY <1>4 DEF SameFlow, CommandOf
<1> QED  BY <1>1, <1>4, <1>5 DEF SessionOf, SameFlow, InTable

LEMMA PollTickOutcome ==
  ASSUME SessionInv, PollTick
  PROVE  \/ remote' = remote
         \/ /\ remote.device.pending /\ SessionOf(remote') /\ SameFlow(remote, remote')
            /\ ~remote'.device.pending /\ remote'.device.command = remote.device.command
            /\ remote'.report.done = "FAILED"
<1>1. remote \in Services /\ SessionOf(remote)
  BY DEF SessionInv, SessionOf
<1>2. ASSUME remote.device.pending, remote' = Complete(remote, "FAILED")
      PROVE  /\ SessionOf(remote') /\ SameFlow(remote, remote')
             /\ ~remote'.device.pending /\ remote'.device.command = remote.device.command
             /\ remote'.report.done = "FAILED"
  <2>1. remote.report \in Reports /\ remote.device \in Devices
    BY <1>1, ServiceFields
  <2>2. /\ remote' \in Services /\ SameFlow(remote, remote')
        /\ remote'.device = [remote.device EXCEPT !.pending = FALSE, !.mode = "UNKNOWN"]
        /\ remote'.report = [remote.report EXCEPT !.done = "FAILED"]
    BY <1>1, <1>2, CompleteFacts
  <2>3. /\ ~remote'.device.pending /\ remote'.device.command = remote.device.command
        /\ remote'.report.done = "FAILED"
    BY <2>1, <2>2 DEF Reports, Devices
  <2>4. CommandOf(remote') = CommandOf(remote)
    BY <2>2 DEF SameFlow, CommandOf
  <2> QED  BY <1>1, <1>2, <2>2, <2>3, <2>4 DEF SessionOf, SameFlow, InTable
<1> QED  BY <1>2 DEF PollTick

\* The steps that do not touch the service.
Elsewhere == \/ CommandRelease \/ Publish \/ ModuleNext
             \/ \E c \in Clients : Submit(c) \/ Enqueue(c)
             \/ UNCHANGED vars

LEMMA ElsewhereKeeps ==
  ASSUME Elsewhere
  PROVE  remote' = remote /\ (owner_pc' = owner_pc \/ owner_pc # "READ")
  BY DEF Elsewhere, CommandRelease, Publish, ModuleNext, ModuleObeys, ModuleRefuses,
         ModuleMisses, ModuleReboots, ModuleUp, Submit, Enqueue, vars

LEMMA NextCases ==
  [Next]_vars => \/ CommandTake \/ PollTick \/ PollLost \/ PollLine \/ ServePasses \/ Tick
                 \/ Elsewhere
  BY DEF Next, OwnerMoves, Elsewhere

LEMMA InitSession == Init => SessionInv /\ WireTypes
<1> SUFFICES ASSUME Init PROVE SessionInv /\ WireTypes
  OBVIOUS
<1>1. /\ "BOOT_WAIT" \in Stages /\ 0 \in 0 .. FlowLimit /\ 1 \in 1 .. 6
      /\ NoId \in Ids \cup {NoId}
  BY ModemAssumption DEF Stages
<1>2. remote \in Services
  BY <1>1, FreshTypes, ServiceSet DEF Init
<1>3. AtRest(remote) /\ owner_pc = "COMMAND"
  BY <1>2 DEF Init, AtRest
<1>4. inbox \in Seq(Sent) /\ line \in Seq(Outcomes) /\ Len(line) = 0
  BY DEF Init
<1>5. WireTypes
  BY <1>1, <1>3, <1>4, ModemAssumption DEF Init, WireTypes
<1> QED  BY <1>3, <1>5, RestSession DEF SessionInv

LEMMA NextSession ==
  ASSUME SessionInv, WireTypes, SlotTypes, [Next]_vars
  PROVE  SessionInv'
<1>1. remote \in Services /\ SessionOf(remote)
  BY DEF SessionInv, SessionOf
<1>2. CASE CommandTake
  <2>1. owner_pc = "COMMAND" /\ owner_pc' = "RELEASE"
    BY <1>2 DEF CommandTake
  <2> QED  BY <1>1, <1>2, <2>1, TakeOutcome, RestSession DEF SessionInv
<1>3. CASE PollTick
  <2>1. owner_pc' = "READ"
    BY <1>3 DEF PollTick
  <2> QED  BY <1>1, <1>3, <2>1, PollTickOutcome DEF SessionInv
<1>4. CASE PollLost
  <2>1. owner_pc # "READ" /\ owner_pc' = "PUBLISH"
    BY <1>4 DEF PollLost, PollBegins
  <2> QED  BY <1>1, <1>4, <2>1, LostOutcome, RestSession DEF SessionInv
<1>5. CASE PollLine
  <2>1. Head(line) \in Outcomes
    BY <1>5 DEF PollLine, WireTypes
  <2>2. owner_pc' = "READ" /\ remote' = OnLine(remote, Head(line))
    BY <1>5 DEF PollLine
  <2> QED  BY <1>1, <2>1, <2>2, LineFacts DEF SessionInv
<1>6. CASE ServePasses
  <2>1. owner_pc' = "PUBLISH"
    BY <1>6 DEF ServePasses, ServeFailure, ServeReboot, ServeSettled, FlowTimeout, BootSettles,
                StageTimesOut, QuietEnds, NextCommand, Waits, StepSend, Serve
  <2>2. CASE PassFails \/ PassSettles
    BY <2>1, <2>2, RestSession DEF PassFails, PassSettles, SessionInv
  <2>3. CASE PassWaits
    <3>1. MidPass(Notified) /\ remote' = Notified /\ ~Sends(Notified)
      BY <2>3, NotifiedMidPass DEF PassWaits
    <3> QED  BY <2>1, <3>1, MidPassEnds DEF SessionInv, MidPass
  <2>4. ASSUME NEW s, PassAsks(s) PROVE SessionInv'
    BY <2>1, <2>4, AskedFacts DEF PassAsks, SessionInv, NoReport
  <2> QED  BY <1>6, <2>2, <2>3, <2>4, PassOutcome
<1>7. CASE Tick
  <2>1. owner_pc' = owner_pc
    BY <1>7 DEF Tick
  <2> QED  BY <1>7, <2>1, TickOutcome DEF SessionInv
<1>8. CASE Elsewhere
  BY <1>8, ElsewhereKeeps DEF SessionInv
<1> QED  BY <1>2, <1>3, <1>4, <1>5, <1>6, <1>7, <1>8, NextCases

-----------------------------------------------------------------------------
(* The types of what the UART holds.                                       *)

LEMMA TailFacts ==
  ASSUME NEW S, NEW q \in Seq(S), q # <<>>
  PROVE  /\ Head(q) \in S /\ Head(q) = q[1] /\ Len(q) \in Nat \ {0}
         /\ Tail(q) \in Seq(S) /\ Len(Tail(q)) = Len(q) - 1
         /\ \A i \in 1 .. Len(q) - 1 : Tail(q)[i] = q[i + 1]
  BY HeadTailProperties

MarkedInbox == [i \in DOMAIN inbox |-> [inbox[i] EXCEPT !.own = FALSE]]
MarkedLine  == [i \in DOMAIN line |-> [line[i] EXCEPT !.own = i \notin Replies(line)]]

LEMMA MarkedFacts ==
  ASSUME inbox \in Seq(Sent), line \in Seq(Outcomes)
  PROVE  /\ MarkedInbox \in Seq(Sent) /\ Len(MarkedInbox) = Len(inbox)
         /\ MarkedLine \in Seq(Outcomes) /\ Len(MarkedLine) = Len(line)
         /\ Replies(MarkedLine) = Replies(line)
         /\ \A i \in DOMAIN line : i \notin Replies(line) => MarkedLine[i].own
<1>1. /\ DOMAIN inbox = 1 .. Len(inbox) /\ Len(inbox) \in Nat
      /\ \A i \in 1 .. Len(inbox) : inbox[i] \in Sent
  OBVIOUS
<1>2. \A i \in 1 .. Len(inbox) : [inbox[i] EXCEPT !.own = FALSE] \in Sent
  BY <1>1 DEF Sent
<1>3. MarkedInbox \in Seq(Sent) /\ Len(MarkedInbox) = Len(inbox)
  BY <1>1, <1>2 DEF MarkedInbox
<1>4. /\ DOMAIN line = 1 .. Len(line) /\ Len(line) \in Nat
      /\ \A i \in 1 .. Len(line) : line[i] \in Outcomes
  OBVIOUS
<1>5. \A i \in 1 .. Len(line) : \A b \in BOOLEAN : [line[i] EXCEPT !.own = b] \in Outcomes
  BY <1>4 DEF Outcomes
<1>6. MarkedLine \in Seq(Outcomes) /\ Len(MarkedLine) = Len(line)
  <2>1. \A i \in 1 .. Len(line) : (i \notin Replies(line)) \in BOOLEAN
    OBVIOUS
  <2>2. \A i \in 1 .. Len(line) : [line[i] EXCEPT !.own = i \notin Replies(line)] \in Outcomes
    BY <1>5, <2>1
  <2> QED  BY <1>4, <2>2 DEF MarkedLine
<1>7. \A i \in DOMAIN line : MarkedLine[i].own = (i \notin Replies(line))
                             /\ MarkedLine[i].answer = line[i].answer
  BY <1>4 DEF MarkedLine, Outcomes
<1>8. DOMAIN MarkedLine = DOMAIN line
  BY DEF MarkedLine
<1> QED  BY <1>3, <1>6, <1>7, <1>8 DEF Replies

\* A command that is sent goes behind the marked ones.
LEMMA TransmitFacts ==
  ASSUME WireTypes, NEW s \in Services, CommandOf(s) \in AtCommands, Transmit(s)
  PROVE  /\ inbox' \in Seq(Sent) /\ Len(inbox') = Len(inbox) + 1
         /\ inbox'[Len(inbox) + 1].own /\ inbox'[Len(inbox) + 1].command = CommandOf(s)
         /\ line' \in Seq(Outcomes) /\ Len(line') = Len(line) /\ Replies(line') = Replies(line)
         /\ \A i \in DOMAIN line : i \notin Replies(line) => line'[i].own
<1> DEFINE c == [command |-> CommandOf(s), id |-> s.requested, own |-> TRUE]
<1>1. inbox' = Append(MarkedInbox, c) /\ line' = MarkedLine
  BY DEF Transmit, MarkedInbox, MarkedLine
<1>2. c \in Sent /\ c.own /\ c.command = CommandOf(s)
  BY ServiceFields DEF Sent
<1> HIDE DEF c
<1>3. /\ MarkedInbox \in Seq(Sent) /\ Len(MarkedInbox) = Len(inbox)
      /\ MarkedLine \in Seq(Outcomes) /\ Len(MarkedLine) = Len(line)
      /\ Replies(MarkedLine) = Replies(line)
      /\ \A i \in DOMAIN line : i \notin Replies(line) => MarkedLine[i].own
  BY MarkedFacts DEF WireTypes
<1> QED  BY <1>1, <1>2, <1>3

\* What the module may do with the first command on its way to it.
Consumed == /\ inbox # <<>> /\ inbox' = Tail(inbox)
            /\ \/ line' = line
               \/ /\ Len(line) < LineLimit
                  /\ \E a \in Outcomes :
                       /\ line' = Append(line, a) /\ a.answer # "READY"
                       /\ a.own = Head(inbox).own /\ a.command = Head(inbox).command

\* Or without one.
Unprompted == /\ inbox' \in {inbox, <<>>}
              /\ \/ line' = line
                 \/ Len(line) < LineLimit /\ line' = Append(line, Ready)

LEMMA AnswerType ==
  ASSUME NEW c \in Sent, NEW answer \in {"OK", "ERROR"}
  PROVE  /\ Answer(c, answer) \in Outcomes /\ Answer(c, answer).answer = answer
         /\ Answer(c, answer).own = c.own /\ Answer(c, answer).command = c.command
         /\ ~Answer(c, answer).full
  BY DEF Answer, Sent, Outcomes

LEMMA ToldType ==
  ASSUME NEW c \in Sent, WireTypes, NEW a \in Told(c)
  PROVE  /\ a \in Outcomes /\ a.answer = "OK" /\ a.own = c.own /\ a.command = c.command
         /\ a.full /\ c.command = "REGISTRATION_QUERY" => a.id = m_id
<1>1. CASE a = Answer(c, "OK")
  BY <1>1, AnswerType
<1>2. CASE a # Answer(c, "OK")
  <2> DEFINE id == IF c.command = "REGISTRATION_QUERY" THEN m_id ELSE NoId
  <2>1. a = [Answer(c, "OK") EXCEPT !.full = TRUE, !.id = id]
    BY <1>2 DEF Told
  <2>2. id \in Ids \cup {NoId}
    BY DEF WireTypes
  <2>3. (c.command = "REGISTRATION_QUERY") => id = m_id
    OBVIOUS
  <2> DEFINE b == Answer(c, "OK")
  <2>4. b \in Outcomes /\ b.answer = "OK" /\ b.own = c.own /\ b.command = c.command
    BY AnswerType
  <2> HIDE DEF id, b
  <2>5. a = [b EXCEPT !.full = TRUE, !.id = id]
    BY <2>1 DEF b
  <2> QED  BY <2>2, <2>3, <2>4, <2>5 DEF Outcomes
<1> QED  BY <1>1, <1>2

LEMMA ModuleOutcome ==
  ASSUME WireTypes, ModuleNext
  PROVE  Consumed \/ Unprompted
<1>1. inbox # <<>> => Head(inbox) \in Sent
  BY DEF WireTypes
<1>2. CASE ModuleObeys
  <2>1. /\ inbox # <<>> /\ inbox' = Tail(inbox)
        /\ \/ line' = line
           \/ Len(line) < LineLimit /\ \E a \in Told(Head(inbox)) : line' = Append(line, a)
    BY <1>2 DEF ModuleObeys
  <2> QED  BY <1>1, <2>1, ToldType DEF Consumed
<1>3. CASE ModuleRefuses
  <2>1. /\ inbox # <<>> /\ inbox' = Tail(inbox) /\ Len(line) < LineLimit
        /\ \E answer \in {"OK", "ERROR"} : line' = Append(line, Answer(Head(inbox), answer))
    BY <1>3 DEF ModuleRefuses
  <2> QED  BY <1>1, <2>1, AnswerType DEF Consumed
<1>4. CASE ModuleMisses
  BY <1>4 DEF ModuleMisses, Consumed
<1>5. CASE ModuleReboots \/ ModuleUp
  BY <1>5 DEF ModuleReboots, ModuleUp, Unprompted
<1> QED  BY <1>2, <1>3, <1>4, <1>5 DEF ModuleNext

LEMMA ReadyType == Ready \in Outcomes /\ Ready.answer = "READY" /\ Ready.own /\ ~Ready.full
  BY DEF Ready, Outcomes

\* What the module is after a command, or on its own.
LEMMA ModuleTypes ==
  ASSUME WireTypes, ModuleNext
  PROVE  /\ m_mode' \in {"BOOT", "TRANSPARENT", "COMMAND"}
         /\ m_id' \in Ids \cup {NoId} /\ m_saved' \in Ids \cup {NoId}
<1>1. CASE ModuleObeys
  <2>1. Head(inbox) \in Sent
    BY <1>1 DEF ModuleObeys, WireTypes
  <2> QED  BY <1>1, <2>1 DEF ModuleObeys, WireTypes, Sent
<1>2. CASE ModuleRefuses \/ ModuleMisses \/ ModuleReboots \/ ModuleUp
  BY <1>2 DEF ModuleRefuses, ModuleMisses, ModuleReboots, ModuleUp, moduleVars, WireTypes
<1> QED  BY <1>1, <1>2 DEF ModuleNext

\* What a step may do with the UART and with the module.
LEMMA WireCases ==
  ASSUME SessionInv, WireTypes, [Next]_vars
  PROVE  \/ ModuleNext
         \/ /\ UNCHANGED moduleVars
            /\ \/ Sending
               \/ inbox' = inbox /\ line # <<>> /\ line' = Tail(line)
               \/ inbox' = inbox /\ line' = <<>>
<1>1. CASE CommandTake \/ PollTick \/ Tick
  BY <1>1 DEF CommandTake, PollTick, Tick, Sending, KeepUart
<1>2. CASE PollLost \/ PollLine
  BY <1>2 DEF PollLost, PollLine
<1>3. CASE ServePasses
  <2>1. UNCHANGED moduleVars
    BY <1>3 DEF ServePasses, ServeFailure, ServeReboot, ServeSettled, FlowTimeout, BootSettles,
                StageTimesOut, QuietEnds, NextCommand, Waits, StepSend, Serve
  <2>2. PassFails \/ PassSettles \/ PassWaits => Sending
    BY DEF PassFails, PassSettles, PassWaits, Sending
  <2>3. ASSUME NEW s, PassAsks(s) PROVE Sending
    BY <2>3, CommandOfType DEF PassAsks, Sending
  <2>4. Sending
    BY <1>3, <2>2, <2>3, PassOutcome
  <2> QED  BY <2>1, <2>4
<1>4. CASE Elsewhere /\ ~ModuleNext
  BY <1>4 DEF Elsewhere, CommandRelease, Publish, Submit, Enqueue, vars, Sending, KeepUart
<1> QED  BY <1>1, <1>2, <1>3, <1>4, NextCases DEF Elsewhere

LEMMA NextWireTypes ==
  ASSUME SessionInv, WireTypes, [Next]_vars
  PROVE  WireTypes'
<1>1. owner_pc' \in {"COMMAND", "RELEASE", "POLL", "READ", "PUBLISH"} /\ snapshot' \in Stages
  <2>1. remote.stage \in Stages
    BY ServiceFields DEF SessionInv, SessionOf
  <2>2. CASE ServePasses
    BY <2>2 DEF ServePasses, ServeFailure, ServeReboot, ServeSettled, FlowTimeout, BootSettles,
            StageTimesOut, QuietEnds, NextCommand, Waits, StepSend, Serve, slotVars, WireTypes
  <2>3. CASE CommandTake \/ PollTick \/ PollLost \/ PollLine \/ Tick
    BY <2>3 DEF CommandTake, PollTick, PollLost, PollLine, Tick, slotVars, WireTypes
  <2>4. CASE Elsewhere
    BY <2>1, <2>4 DEF Elsewhere, CommandRelease, Publish, ModuleNext, ModuleObeys, ModuleRefuses,
         ModuleMisses, ModuleReboots, ModuleUp, Submit, Enqueue, vars, slotVars, WireTypes
  <2> QED  BY <2>2, <2>3, <2>4, NextCases
<1>2. CASE ModuleNext
  <2>1. Consumed \/ Unprompted
    BY <1>2, ModuleOutcome
  <2>2. inbox' \in Seq(Sent)
    <3>1. inbox \in Seq(Sent) /\ <<>> \in Seq(Sent)
      BY DEF WireTypes
    <3>2. inbox # <<>> => Tail(inbox) \in Seq(Sent)
      BY <3>1, TailFacts
    <3> QED  BY <2>1, <3>1, <3>2 DEF Consumed, Unprompted
  <2>3. \/ line' = line
        \/ Len(line) < LineLimit /\ \E a \in Outcomes : line' = Append(line, a)
    BY <2>1, ReadyType DEF Consumed, Unprompted
  <2>4. line' \in Seq(Outcomes) /\ Len(line') <= LineLimit
    BY <2>3, ModemAssumption DEF WireTypes
  <2> QED  BY <1>1, <1>2, <2>2, <2>4, ModuleTypes DEF WireTypes
<1>3. CASE UNCHANGED moduleVars /\ Sending
  <2>1. CASE KeepUart
    BY <1>1, <1>3, <2>1 DEF KeepUart, WireTypes, moduleVars
  <2>2. ASSUME NEW s \in Services, CommandOf(s) \in AtCommands, Transmit(s) PROVE WireTypes'
    BY <1>1, <1>3, <2>2, TransmitFacts DEF WireTypes, moduleVars
  <2> QED  BY <1>3, <2>1, <2>2 DEF Sending
<1>4. CASE /\ UNCHANGED moduleVars /\ inbox' = inbox
           /\ (line # <<>> /\ line' = Tail(line)) \/ line' = <<>>
  <2>1. line' \in Seq(Outcomes) /\ Len(line') <= LineLimit
    <3>1. CASE line # <<>> /\ line' = Tail(line)
      BY <3>1, TailFacts, ModemAssumption DEF WireTypes
    <3>2. CASE line' = <<>>
      BY <3>2, ModemAssumption DEF WireTypes
    <3> QED  BY <1>4, <3>1, <3>2
  <2> QED  BY <1>1, <1>4, <2>1 DEF WireTypes, moduleVars
<1> QED  BY <1>2, <1>3, <1>4, WireCases

-----------------------------------------------------------------------------
(* Every variable has its type.                                            *)

ModemTypes == SlotInv /\ SessionInv /\ WireTypes

LEMMA InitTypes == Init => ModemTypes
  BY InitSlot, InitSession DEF ModemTypes

LEMMA NextTypes ==
  ASSUME ModemTypes, [Next]_vars
  PROVE  ModemTypes'
<1>1. SlotInv'
  BY NextSlot DEF ModemTypes
<1>2. SessionInv'
  BY NextSession DEF ModemTypes, SlotInv
<1>3. WireTypes'
  BY NextWireTypes DEF ModemTypes
<1> QED  BY <1>1, <1>2, <1>3 DEF ModemTypes

\* Every variable keeps its type: no step is looked for behind the end of its command
\* table (remote_modem_service.c:107, 115), and no flow outlives its time.
THEOREM ModemTypeCorrect == Spec => []TypeOK
<1>1. ModemTypes => TypeOK
  <2> SUFFICES ASSUME ModemTypes PROVE TypeOK
    OBVIOUS
  <2>1. remote \in Services
    BY DEF ModemTypes, SessionInv, SessionOf
  <2>2. /\ queue \in Seq(Requests) /\ reserved \in BOOLEAN
        /\ clients \in [Clients -> Requests \cup {Idle}]
    BY DEF ModemTypes, SlotInv, SlotTypes
  <2>3. Len(queue) <= 1
    BY DEF ModemTypes, SlotInv, WithClient, InQueue, WithOwner, Nowhere
  <2>4. /\ \A i \in DOMAIN queue : queue[i] \in Requests
        /\ \A i \in DOMAIN inbox : inbox[i] \in Sent
        /\ \A i \in DOMAIN line : line[i] \in Outcomes
    BY <2>2 DEF ModemTypes, WireTypes
  <2> QED  BY <2>1, <2>2, <2>3, <2>4 DEF TypeOK, ModemTypes, WireTypes
<1>2. ModemTypes /\ [Next]_vars => ModemTypes'
  BY NextTypes
<1> QED  BY InitTypes, <1>1, <1>2, PTL DEF Spec

-----------------------------------------------------------------------------
(* A reply is of the command that is pending.                              *)

\* The wire holds at most one command or one answer, of the command that is
\* pending; nothing once it is answered.
WireInv ==
  /\ remote.pending => /\ Len(inbox) <= 1
                       /\ \A i \in DOMAIN inbox : /\ inbox[i].own
                                                  /\ inbox[i].command = remote.device.command
  /\ remote.device.pending => /\ \A i \in DOMAIN line : line[i].own
                              /\ \A i, j \in Replies(line) : i = j
                              /\ inbox # <<>> => Replies(line) = {}
  /\ remote.report.done = "OK" => Drained

\* Every wait of the service outlasts the answer it waits out.
Patient == LateWaits = {}

LEMMA WiredRest ==
  ASSUME SessionInv', ~remote'.pending
  PROVE  WireInv'
  BY DEF SessionInv, SessionOf, WireInv

\* A step that moves nothing and asks nothing.
LEMMA WireKept ==
  ASSUME WireInv, inbox' = inbox, line' = line,
         remote'.pending = remote.pending, remote'.device.command = remote.device.command,
         remote'.device.pending => remote.device.pending,
         remote'.report.done = "OK" => remote.report.done = "OK"
  PROVE  WireInv'
  BY DEF WireInv, Drained, Replies

LEMMA WireConsumed ==
  ASSUME SessionInv, WireTypes, WireInv, Consumed, remote' = remote
  PROVE  WireInv'
<1>1. /\ inbox \in Seq(Sent) /\ inbox # <<>> /\ line \in Seq(Outcomes)
      /\ inbox' = Tail(inbox) /\ Len(inbox) \in Nat \ {0}
      /\ Head(inbox) = inbox[1] /\ 1 \in DOMAIN inbox
      /\ Len(inbox') = Len(inbox) - 1
  BY TailFacts DEF WireTypes, Consumed
<1>2. remote.pending => inbox' = <<>>
  BY <1>1 DEF WireInv
<1>3. remote.report.done # "OK"
  BY <1>1 DEF WireInv, Drained
<1>4. ASSUME remote.device.pending
      PROVE  /\ \A i \in DOMAIN line' : line'[i].own
             /\ \A i, j \in Replies(line') : i = j
  <2>1. remote.pending
    BY <1>4 DEF SessionInv, SessionOf
  <2>2. /\ Replies(line) = {} /\ inbox[1].own
        /\ \A i \in DOMAIN line : line[i].own
    BY <1>1, <1>4, <2>1 DEF WireInv
  <2>3. CASE line' = line
    BY <2>2, <2>3
  <2>4. ASSUME NEW a \in Outcomes, line' = Append(line, a), a.own PROVE <1>4!2
    <3>1. /\ DOMAIN line' = 1 .. Len(line) + 1 /\ line'[Len(line) + 1] = a
          /\ \A i \in DOMAIN line : line'[i] = line[i]
          /\ DOMAIN line = 1 .. Len(line) /\ Len(line) \in Nat
      BY <1>1, <2>4
    <3>2. Replies(line') \subseteq {Len(line) + 1}
      BY <2>2, <3>1 DEF Replies
    <3> QED  BY <2>2, <2>4, <3>1, <3>2
  <2> QED  BY <1>1, <2>2, <2>3, <2>4 DEF Consumed
<1>5. remote.device.pending => remote.pending
  BY DEF SessionInv, SessionOf
<1> QED  BY <1>2, <1>3, <1>4, <1>5 DEF WireInv

LEMMA WireUnprompted ==
  ASSUME SessionInv, WireTypes, WireInv, Unprompted, remote' = remote
  PROVE  WireInv'
<1>1. /\ inbox' # <<>> => inbox' = inbox
      /\ remote.pending => Len(inbox') <= 1
      /\ remote.pending => \A i \in DOMAIN inbox' : inbox'[i].own
                                                  /\ inbox'[i].command = remote.device.command
  BY DEF Unprompted, WireInv
<1>2. /\ Replies(line') = Replies(line)
      /\ (\A i \in DOMAIN line : line[i].own) => (\A i \in DOMAIN line' : line'[i].own)
  <2>1. CASE line' = line
    BY <2>1
  <2>2. CASE line' = Append(line, Ready)
    <3>1. /\ DOMAIN line' = 1 .. Len(line) + 1 /\ line'[Len(line) + 1] = Ready
          /\ \A i \in DOMAIN line : line'[i] = line[i]
          /\ DOMAIN line = 1 .. Len(line) /\ Len(line) \in Nat
      BY <2>2, ReadyType DEF WireTypes
    <3> QED  BY <3>1, ReadyType DEF Replies
  <2> QED  BY <2>1, <2>2 DEF Unprompted
<1> QED  BY <1>1, <1>2 DEF WireInv, Drained

\* A line is read: the reply ends what it answers.
LEMMA WireRead ==
  ASSUME SessionInv, WireTypes, WireInv, PollLine
  PROVE  WireInv'
<1> DEFINE l == Head(line)
<1>1. /\ line \in Seq(Outcomes) /\ line # <<>> /\ line' = Tail(line) /\ inbox' = inbox
      /\ remote' = OnLine(remote, l) /\ remote \in Services /\ SessionOf(remote)
  BY DEF PollLine, WireTypes, SessionInv, SessionOf
<1>2. /\ l \in Outcomes /\ l = line[1] /\ Len(line) \in Nat \ {0} /\ Len(line') = Len(line) - 1
      /\ \A i \in 1 .. Len(line) - 1 : line'[i] = line[i + 1]
      /\ line' \in Seq(Outcomes)
  BY <1>1, TailFacts
<1> HIDE DEF l
<1>3. \A i \in DOMAIN line' : i + 1 \in DOMAIN line /\ line'[i] = line[i + 1]
  BY <1>1, <1>2
<1>4. \A i \in Replies(line') : i + 1 \in Replies(line) /\ i \in Nat \ {0}
  BY <1>2, <1>3 DEF Replies
<1>5. /\ SessionOf(remote') /\ SameFlow(remote, remote')
      /\ remote'.device.command = remote.device.command
  BY <1>1, <1>2, LineFacts
<1>6. remote'.device.pending => remote'.pending
  BY <1>5 DEF SessionOf
<1>7. CASE l.answer = "READY"
  <2>1. remote' = OnReady(remote) /\ remote.report \in Reports
    BY <1>1, <1>7, ServiceFields DEF OnLine
  <2>2. /\ ~remote'.device.pending
        /\ remote'.report.done = "OK" => remote.report.done = "OK"
    BY <1>1, <2>1, ReadyFacts DEF Reports
  <2> QED  BY <1>1, <1>4, <1>5, <2>2 DEF WireInv, Drained, SameFlow
<1>8. CASE l.answer # "READY" /\ ~remote.device.pending
  <2>1. remote' = remote
    BY <1>1, <1>8 DEF OnLine, OnReply
  <2> QED  BY <1>1, <1>4, <1>8, <2>1 DEF WireInv, Drained
<1>9. CASE l.answer # "READY" /\ remote.device.pending
  <2>1. 1 \in Replies(line)
    BY <1>1, <1>2, <1>9 DEF Replies
  <2>2. inbox = <<>>
    BY <1>9, <2>1 DEF WireInv
  <2>3. Replies(line') = {}
    BY <1>4, <1>9, <2>1 DEF WireInv
  <2>4. ~remote'.device.pending
    <3>1. CASE l.answer = "ERROR"
      <4>1. remote' = Complete(remote, "FAILED") /\ remote.device \in Devices
        BY <1>1, <1>9, <3>1, ServiceFields DEF OnLine, OnReply
      <4>2. remote'.device = [remote.device EXCEPT !.pending = FALSE, !.mode = "UNKNOWN"]
        BY <1>1, <4>1, CompleteFacts
      <4> QED  BY <4>1, <4>2 DEF Devices
    <3>2. CASE l.answer = "OK"
      <4>1. remote' = OnReply(remote, l)
        BY <1>1, <1>9 DEF OnLine
      <4> QED  BY <1>1, <1>2, <1>9, <3>2, <4>1, ReplyOkFacts
    <3> QED  BY <1>2, <1>9, <3>1, <3>2 DEF Outcomes
  <2> QED  BY <1>1, <1>5, <2>2, <2>3, <2>4 DEF WireInv, Drained, SameFlow
<1> QED  BY <1>7, <1>8, <1>9

LEMMA WaitedLong ==
  ASSUME Patient, NEW wait, Waited(wait)
  PROVE  Drained
  BY DEF Patient, Waited

\* A command is sent when nothing is under way.
LEMMA AskedDrained ==
  ASSUME Patient, WireInv, NEW s, PassAsks(s)
  PROVE  Drained
<1>1. CASE NextAsked(s)
  BY <1>1 DEF NextAsked, WireInv
<1>2. CASE FirstAsked(s)
  BY <1>2, WaitedLong DEF FirstAsked
<1> QED  BY <1>1, <1>2 DEF PassAsks

LEMMA WireAsked ==
  ASSUME Patient, SessionInv, WireTypes, WireInv, NEW s, PassAsks(s)
  PROVE  /\ WireInv' /\ Len(inbox') = 1 /\ Replies(line') = {}
         /\ remote' = Asked(s) /\ s \in Services
<1>1. /\ s \in Services /\ s.stage \in CommandStages /\ InTable(s)
      /\ remote' = Asked(s) /\ Transmit(s) /\ CommandOf(s) \in AtCommands
  BY CommandOfType DEF PassAsks
<1>2. inbox = <<>> /\ Replies(line) = {} /\ Len(inbox) = 0
  BY AskedDrained DEF Drained
<1>3. /\ inbox' \in Seq(Sent) /\ Len(inbox') = 1
      /\ inbox'[1].own /\ inbox'[1].command = CommandOf(s)
      /\ line' \in Seq(Outcomes) /\ Len(line') = Len(line) /\ Replies(line') = {}
      /\ \A i \in DOMAIN line : line'[i].own
  BY <1>1, <1>2, TransmitFacts
<1>4. DOMAIN line' = DOMAIN line /\ DOMAIN inbox' = {1}
  BY <1>3 DEF WireTypes
<1>5. remote'.device.command = CommandOf(s) /\ remote'.report.done = "NO"
  BY <1>1, AskedFacts DEF NoReport
<1>6. WireInv'
  BY <1>3, <1>4, <1>5 DEF WireInv
<1> QED  BY <1>1, <1>3, <1>6

LEMMA WireWaits ==
  ASSUME SessionInv, PassWaits
  PROVE  /\ remote'.report.done = "NO"
         /\ \/ ~remote'.pending
            \/ /\ remote' = Polled /\ remote.pending
               /\ remote'.device = remote.device
<1>1. MidPass(Notified) /\ ServeGoesOn /\ remote' = Notified
  BY NotifiedMidPass DEF PassWaits
<1>2. CASE remote'.pending
  <2>1. Notified = Completion
    BY <1>1, <1>2, NotifiedMidPass DEF AtRest
  <2>2. ~(remote.pending /\ remote.report.done = "OK")
    <3> SUFFICES ASSUME remote.pending, remote.report.done = "OK" PROVE FALSE
      OBVIOUS
    <3>1. /\ Completion = Advance(Completed) /\ Completed \in Services
          /\ Completed.stage \in CommandStages /\ InTable(Completed) /\ ~Completed.pending
      BY CompletionIs, CompletedFacts
    <3>2. ~Completion.pending
      BY <3>1, AdvanceFacts
    <3> QED  BY <1>1, <1>2, <2>1, <3>2
  <2>3. remote' = Polled
    BY <1>1, <2>1, <2>2, CompletionIs
  <2> QED  BY <1>1, <1>2, <2>3, PolledFacts DEF SessionInv, SessionOf, SameFlow, MidPass
<1>3. CASE ~remote'.pending
  BY <1>1, <1>3 DEF MidPass
<1> QED  BY <1>2, <1>3

LEMMA NextWire ==
  ASSUME Patient, ModemTypes, WireInv, [Next]_vars
  PROVE  WireInv'
<1>1. SessionInv /\ WireTypes /\ SlotTypes /\ SessionInv'
  BY NextTypes DEF ModemTypes, SlotInv
<1>2. CASE CommandTake
  <2>1. inbox' = inbox /\ line' = line
    BY <1>2 DEF CommandTake
  <2> QED  BY <1>1, <1>2, <2>1, TakeOutcome, WireKept, WiredRest DEF AtRest
<1>3. CASE PollTick
  <2>1. inbox' = inbox /\ line' = line
    BY <1>3 DEF PollTick
  <2> QED  BY <1>1, <1>3, <2>1, PollTickOutcome, WireKept DEF SameFlow
<1>4. CASE PollLost
  <2>1. ~remote'.pending
    BY <1>1, <1>4, LostOutcome DEF AtRest, SameFlow, SessionInv, SessionOf, CommandStages
  <2> QED  BY <1>1, <2>1, WiredRest
<1>5. CASE PollLine
  BY <1>1, <1>5, WireRead
<1>6. CASE ServePasses
  <2>1. CASE PassFails \/ PassSettles
    BY <1>1, <2>1, WiredRest DEF PassFails, PassSettles, AtRest
  <2>2. CASE PassWaits
    BY <1>1, <2>2, WireWaits, WiredRest, WireKept DEF PassWaits, KeepUart
  <2>3. ASSUME NEW s, PassAsks(s) PROVE WireInv'
    BY <1>1, <2>3, WireAsked
  <2> QED  BY <1>1, <1>6, <2>1, <2>2, <2>3, PassOutcome
<1>7. CASE Tick
  <2>1. inbox' = inbox /\ line' = line
    BY <1>7 DEF Tick
  <2> QED  BY <1>1, <1>7, <2>1, TickOutcome, WireKept DEF SameFlow
<1>8. CASE ModuleNext
  <2>1. remote' = remote
    BY <1>8, ElsewhereKeeps DEF Elsewhere
  <2> QED  BY <1>1, <1>8, <2>1, ModuleOutcome, WireConsumed, WireUnprompted
<1>9. CASE Elsewhere /\ ~ModuleNext
  <2>1. remote' = remote /\ inbox' = inbox /\ line' = line
    BY <1>9 DEF Elsewhere, CommandRelease, Publish, Submit, Enqueue, vars
  <2> QED  BY <2>1, WireKept
<1> QED  BY <1>2, <1>3, <1>4, <1>5, <1>6, <1>7, <1>8, <1>9, NextCases

\* A late reply is never credited to a later command, provided that every wait of
\* the service outlasts it (06_Component/ExternalChip/E27_D/README.md:53).
THEOREM RepliesAreOwn ==
  ASSUME Patient
  PROVE  Spec => []OwnReply
<1>1. Init => WireInv
  <2> SUFFICES ASSUME Init PROVE WireInv
    OBVIOUS
  <2> QED  BY DEF Init, WireInv, FreshDevice, NoReport
<1>2. ModemTypes /\ WireInv /\ [Next]_vars => ModemTypes' /\ WireInv'
  BY NextTypes, NextWire
<1>3. ModemTypes /\ WireInv => OwnReply
  BY DEF ModemTypes, SessionInv, SessionOf, WireInv, OwnReply
<1> QED  BY InitTypes, <1>1, <1>2, <1>3, PTL DEF Spec

-----------------------------------------------------------------------------
(* In normal mode the module is transparent.                               *)

\* What is left of the exit from command mode: its answer tells that the module has
\* left it, and nothing brings it back.
ModeInv ==
  /\ remote.stage = "NORMAL" =>
       remote.device.mode = "TRANSPARENT" /\ m_mode # "COMMAND" /\ inbox = <<>>
  /\ remote.report.done = "OK" /\ remote.device.command = "EXIT" =>
       remote.device.mode = "TRANSPARENT" /\ m_mode # "COMMAND"
  /\ remote.device.pending /\ remote.device.command = "EXIT" =>
       \A i \in Replies(line) : line[i].answer = "OK" => m_mode # "COMMAND"

LEMMA RestMode ==
  ASSUME AtRest(remote')
  PROVE  ModeInv'
  BY DEF AtRest, ModeInv, FreshDevice, NoReport

\* The service keeps its stage, and the driver what it knows.
LEMMA ModeKept ==
  ASSUME ModeInv, UNCHANGED <<moduleVars, inbox, line>>,
         remote'.stage = remote.stage, remote'.device = remote.device,
         remote'.report.done = remote.report.done
  PROVE  ModeInv'
  BY DEF ModeInv, moduleVars, Replies

LEMMA ModeRead ==
  ASSUME SessionInv, WireTypes, ModeInv, PollLine
  PROVE  ModeInv'
<1> DEFINE l == Head(line)
<1>1. /\ line \in Seq(Outcomes) /\ line # <<>> /\ inbox' = inbox /\ m_mode' = m_mode
      /\ remote' = OnLine(remote, l) /\ remote \in Services /\ SessionOf(remote)
  BY DEF PollLine, WireTypes, SessionInv, SessionOf, moduleVars
<1>2. l \in Outcomes /\ l = line[1] /\ Len(line) \in Nat \ {0} /\ 1 \in DOMAIN line
  BY <1>1, TailFacts
<1> HIDE DEF l
<1>3. SameFlow(remote, remote') /\ remote'.device.command = remote.device.command
  BY <1>1, <1>2, LineFacts
<1>4. CASE l.answer = "READY"
  <2>1. remote' = OnReady(remote) /\ remote.report \in Reports
    BY <1>1, <1>4, ServiceFields DEF OnLine
  <2>2. /\ ~remote'.device.pending /\ remote'.device.mode = "TRANSPARENT"
        /\ remote'.report.done = "OK" => remote.report.done = "OK"
    BY <1>1, <2>1, ReadyFacts DEF Reports
  <2> QED  BY <1>1, <1>3, <2>2 DEF ModeInv, SameFlow
<1>5. CASE l.answer # "READY" /\ ~remote.device.pending
  <2>1. remote' = remote
    BY <1>1, <1>5 DEF OnLine, OnReply
  <2> QED  BY <1>1, <1>5, <2>1 DEF ModeInv
<1>6. CASE l.answer # "READY" /\ remote.device.pending
  <2>1. remote'.stage # "NORMAL"
    BY <1>1, <1>3, <1>6 DEF SameFlow, SessionOf, CommandStages
  <2>2. CASE l.answer = "ERROR"
    <3>1. remote' = Complete(remote, "FAILED") /\ remote.device \in Devices /\ remote.report \in Reports
      BY <1>1, <1>6, <2>2, ServiceFields DEF OnLine, OnReply
    <3>2. /\ remote'.device = [remote.device EXCEPT !.pending = FALSE, !.mode = "UNKNOWN"]
          /\ remote'.report = [remote.report EXCEPT !.done = "FAILED"]
      BY <1>1, <3>1, CompleteFacts
    <3> QED  BY <2>1, <3>1, <3>2 DEF ModeInv, Devices, Reports
  <2>3. CASE l.answer = "OK"
    <3>1. remote' = OnReply(remote, l)
      BY <1>1, <1>6 DEF OnLine
    <3>2. ~remote'.device.pending /\ remote'.device.mode = ModeAfter(remote)
      BY <1>1, <1>2, <1>6, <2>3, <3>1, ReplyOkFacts
    <3>3. ASSUME remote.device.command = "EXIT"
          PROVE  ModeAfter(remote) = "TRANSPARENT" /\ m_mode # "COMMAND"
      <4>1. 1 \in Replies(line) /\ line[1].answer = "OK"
        BY <1>2, <2>3 DEF Replies
      <4> QED  BY <1>6, <3>3, <4>1 DEF ModeInv, ModeAfter
    <3> QED  BY <1>1, <1>3, <2>1, <3>2, <3>3 DEF ModeInv
  <2> QED  BY <1>2, <1>6, <2>2, <2>3 DEF Outcomes
<1> QED  BY <1>4, <1>5, <1>6

\* The pass that ends the last command of a reading.
LEMMA WaitsNormal ==
  ASSUME SessionInv, PassWaits, remote'.stage = "NORMAL"
  PROVE  /\ remote'.device = remote.device
         /\ \/ remote.stage = "NORMAL" /\ remote'.result = remote.result
            \/ /\ remote.report.done = "OK" /\ remote.device.command = "EXIT"
               /\ remote.stage = "STARTUP_READ" /\ remote.step = 5 /\ remote.pending
               /\ remote'.result = (IF remote.result = "RUNNING" THEN "SUCCEEDED" ELSE remote.result)
<1>1. remote' = Notified /\ ServeGoesOn
  BY DEF PassWaits
<1>2. remote' = Completion
  BY <1>1, NotifiedMidPass
<1>3. CASE remote.pending /\ remote.report.done = "OK"
  <2>1. /\ Completion = Advance(Completed) /\ Completed \in Services
        /\ Completed.stage \in CommandStages /\ InTable(Completed) /\ ~Completed.pending
        /\ Completed.stage = remote.stage /\ Completed.step = remote.step
        /\ Completed.device = remote.device /\ Completed.result = remote.result
    BY <1>3, CompletionIs, CompletedFacts
  <2>2. ReadDone(Completed, Completion) /\ Completion.device = Completed.device
    BY <1>2, <2>1, AdvanceFacts DEF NextStep, WriteDone, EnterDone, AtRest, CommandStages
  <2>3. remote.stage = "STARTUP_READ" /\ remote.step = 5
    BY <2>1, <2>2 DEF ReadDone
  <2>4. remote.device.command = CommandOf(remote)
    BY <1>3 DEF SessionInv, SessionOf
  <2>5. CommandOf(remote) = "EXIT"
    BY <2>3 DEF CommandOf, ReadCommands
  <2> QED  BY <1>2, <1>3, <2>1, <2>2, <2>3, <2>4, <2>5 DEF ReadDone
<1>4. CASE ~(remote.pending /\ remote.report.done = "OK")
  <2>1. remote' = Polled
    BY <1>2, <1>4, CompletionIs
  <2> QED  BY <2>1, PolledFacts DEF SessionInv, SessionOf, SameFlow
<1> QED  BY <1>3, <1>4

LEMMA ModeModule ==
  ASSUME SessionInv, WireTypes, WireInv, ModeInv, ModuleNext
  PROVE  ModeInv'
<1>1. remote' = remote
  BY ElsewhereKeeps DEF Elsewhere
<1>2. CASE ModuleReboots \/ ModuleUp
  <2>1. m_mode' # "COMMAND" /\ inbox' \in {inbox, <<>>}
    BY <1>2 DEF ModuleReboots, ModuleUp
  <2> QED  BY <1>1, <2>1 DEF ModeInv
<1>3. CASE ModuleObeys \/ ModuleRefuses \/ ModuleMisses
  <2>1. inbox # <<>> /\ Head(inbox) = inbox[1] /\ 1 \in DOMAIN inbox
    <3>1. inbox # <<>> /\ inbox \in Seq(Sent)
      BY <1>3 DEF ModuleObeys, ModuleRefuses, ModuleMisses, WireTypes
    <3> QED  BY <3>1, TailFacts
  <2>2. remote.stage # "NORMAL" /\ remote.report.done # "OK"
    BY <2>1 DEF ModeInv, WireInv, Drained
  <2>3. ASSUME remote.device.pending, remote.device.command = "EXIT",
               NEW i \in Replies(line'), line'[i].answer = "OK"
        PROVE  m_mode' # "COMMAND"
    <3>1. Head(inbox).command = "EXIT" /\ Replies(line) = {}
      BY <2>1, <2>3 DEF WireInv, SessionInv, SessionOf
    <3>2. CASE ModuleObeys
      BY <3>1, <3>2 DEF ModuleObeys
    <3>3. CASE ModuleRefuses
      <4>1. line' = Append(line, Answer(Head(inbox), "ERROR"))
        BY <3>1, <3>3 DEF ModuleRefuses
      <4>2. Answer(Head(inbox), "ERROR") \in Outcomes
            /\ Answer(Head(inbox), "ERROR").answer = "ERROR"
        BY <2>1, AnswerType DEF WireTypes
      <4>3. i \in DOMAIN line \/ line'[i] = Answer(Head(inbox), "ERROR")
        BY <2>3, <4>1, <4>2 DEF WireTypes, Replies
      <4>4. i \in DOMAIN line => line'[i] = line[i]
        BY <4>1, <4>2 DEF WireTypes
      <4> QED  BY <2>3, <3>1, <4>2, <4>3, <4>4 DEF Replies
    <3>4. CASE ModuleMisses
      BY <2>3, <3>1, <3>4 DEF ModuleMisses
    <3> QED  BY <1>3, <3>2, <3>3, <3>4
  <2> QED  BY <1>1, <2>2, <2>3 DEF ModeInv
<1> QED  BY <1>2, <1>3 DEF ModuleNext

LEMMA NextMode ==
  ASSUME Patient, ModemTypes, WireInv, ModeInv, [Next]_vars
  PROVE  ModeInv'
<1>1. SessionInv /\ WireTypes /\ SlotTypes
  BY DEF ModemTypes, SlotInv
<1>2. CASE CommandTake
  <2>1. UNCHANGED <<moduleVars, inbox, line>>
    BY <1>2 DEF CommandTake
  <2> QED  BY <1>1, <1>2, <2>1, TakeOutcome, RestMode, ModeKept
<1>3. CASE PollTick
  <2>1. UNCHANGED <<moduleVars, inbox, line>>
    BY <1>3 DEF PollTick
  <2>2. CASE remote' = remote
    BY <2>1, <2>2, ModeKept
  <2>3. CASE /\ remote.device.pending /\ SameFlow(remote, remote')
             /\ ~remote'.device.pending /\ remote'.report.done = "FAILED"
    BY <1>1, <2>3 DEF ModeInv, SameFlow, SessionInv, SessionOf, CommandStages
  <2> QED  BY <1>1, <1>3, <2>2, <2>3, PollTickOutcome
<1>4. CASE PollLost
  <2>1. UNCHANGED moduleVars /\ owner_pc # "READ"
    BY <1>4 DEF PollLost, PollBegins
  <2>2. CASE /\ remote.stage = "FAULT" /\ SameFlow(remote, remote')
             /\ remote'.device.pending = remote.device.pending
             /\ remote'.report = remote.report
    BY <1>1, <2>1, <2>2 DEF ModeInv, SameFlow, SessionInv, SessionOf, CommandStages
  <2> QED  BY <1>1, <1>4, <2>2, LostOutcome, RestMode
<1>5. CASE PollLine
  BY <1>1, <1>5, ModeRead
<1>6. CASE ServePasses
  <2>0. UNCHANGED moduleVars
    BY <1>6 DEF ServePasses, ServeFailure, ServeReboot, ServeSettled, FlowTimeout, BootSettles,
                StageTimesOut, QuietEnds, NextCommand, Waits, StepSend, Serve
  <2>1. CASE PassFails \/ PassSettles
    BY <2>1, RestMode DEF PassFails, PassSettles
  <2>2. CASE PassWaits
    <3>1. UNCHANGED <<moduleVars, inbox, line>>
      BY <2>0, <2>2 DEF PassWaits, KeepUart
    <3>2. /\ remote'.report.done = "NO"
          /\ remote'.pending => remote'.device = remote.device
      BY <1>1, <2>2, WireWaits
    <3>3. remote'.device.pending => remote'.pending
      BY <1>1, NextTypes DEF ModemTypes, SessionInv, SessionOf
    <3>4. remote'.stage = "NORMAL" => /\ remote'.device.mode = "TRANSPARENT"
                                      /\ m_mode' # "COMMAND" /\ inbox' = <<>>
      BY <1>1, <2>2, <3>1, WaitsNormal DEF ModeInv, WireInv, Drained, moduleVars
    <3> QED  BY <3>1, <3>2, <3>3, <3>4 DEF ModeInv, Replies, moduleVars
  <2>3. ASSUME NEW s, PassAsks(s) PROVE ModeInv'
    <3>1. /\ s \in Services /\ s.stage \in CommandStages /\ InTable(s) /\ remote' = Asked(s)
      BY <2>3 DEF PassAsks
    <3>2. remote'.stage \in CommandStages /\ remote'.report.done = "NO"
      BY <3>1, AskedFacts DEF NoReport
    <3>3. Replies(line') = {}
      BY <1>1, <2>3, WireAsked
    <3> QED  BY <3>2, <3>3 DEF ModeInv, CommandStages
  <2> QED  BY <1>1, <1>6, <2>1, <2>2, <2>3, PassOutcome
<1>7. CASE Tick
  <2>1. UNCHANGED <<moduleVars, inbox, line>>
    BY <1>7 DEF Tick
  <2> QED  BY <1>1, <1>7, <2>1, TickOutcome, ModeKept DEF SameFlow
<1>8. CASE ModuleNext
  BY <1>1, <1>8, ModeModule
<1>9. CASE Elsewhere /\ ~ModuleNext
  <2>1. remote' = remote /\ UNCHANGED <<moduleVars, inbox, line>>
    BY <1>9 DEF Elsewhere, CommandRelease, Publish, Submit, Enqueue, vars
  <2> QED  BY <2>1, ModeKept
<1> QED  BY <1>2, <1>3, <1>4, <1>5, <1>6, <1>7, <1>8, <1>9, NextCases

\* Whenever the service is in normal mode, the driver and the module are transparent
\* and no command is left that could end it (remote_modem_service.c:276).
THEOREM NormalIsSafe ==
  ASSUME Patient
  PROVE  Spec => []NormalIsTransparent
<1>1. Init => WireInv /\ ModeInv
  <2> SUFFICES ASSUME Init PROVE WireInv /\ ModeInv
    OBVIOUS
  <2> QED  BY DEF Init, WireInv, ModeInv, FreshDevice, NoReport
<1>2. ModemTypes /\ WireInv /\ ModeInv /\ [Next]_vars => ModemTypes' /\ WireInv' /\ ModeInv'
  BY NextTypes, NextWire, NextMode
<1>3. ModemTypes /\ ModeInv => NormalIsTransparent
  BY DEF ModemTypes, SessionInv, SessionOf, CommandStages, ModeInv, NormalIsTransparent
<1> QED  BY InitTypes, <1>1, <1>2, <1>3, PTL DEF Spec

-----------------------------------------------------------------------------
(* A request succeeds only if the module has saved what it asked for.      *)

\* The configuration is written, the module has booted with what it has saved.
Rebooted(s) == /\ s.result = "RUNNING"
               /\ \/ s.stage \in {"RESTART_WAIT", "BOOT_WAIT", "STARTUP_READ"}
                  \/ s.stage = "QUIET" /\ s.target = "READ"

\* The service is where no request runs.
Unasked(s) == \/ s.stage \in {"NORMAL", "FAULT", "RECOVER_ENTER", "RECOVER_EXIT"}
              \/ s.stage = "QUIET" /\ s.target = "RECOVER"

\* What holds of the module's two ids in a stage of the service.
FlashOf(s) ==
  /\ Unasked(s) => s.result # "RUNNING"
  /\ Rebooted(s) => m_id = m_saved
  /\ Rebooted(s) /\ s.stage # "STARTUP_READ" => inbox = <<>>
  /\ Rebooted(s) /\ s.stage = "STARTUP_READ" /\ s.step > 3 => m_saved = s.requested

\* What the answer to the restart and to the query of the id tells.
ToldInv ==
  /\ remote.device.pending /\ remote.device.command = "RESTART" =>
       \A i \in Replies(line) : line[i].answer = "OK" => m_id = m_saved
  /\ remote.report.done = "OK" /\ remote.device.command = "RESTART" => m_id = m_saved
  /\ Rebooted(remote) /\ remote.device.pending
       /\ remote.device.command = "REGISTRATION_QUERY" =>
         \A i \in Replies(line) : line[i].full => line[i].id = m_saved
  /\ Rebooted(remote) /\ remote.report.done = "OK" /\ remote.report.full
       /\ remote.device.command = "REGISTRATION_QUERY" => remote.report.id = m_saved

FlashInv == FlashOf(remote) /\ ToldInv

LEMMA CommandOfRead ==
  ASSUME NEW s, s.stage = "STARTUP_READ", s.step \in 1 .. 5
  PROVE  /\ CommandOf(s) \notin {"REGISTRATION_SET", "SAVE", "RESTART"}
         /\ CommandOf(s) = ReadCommands[s.step]
         /\ s.step = 3 => CommandOf(s) = "REGISTRATION_QUERY"
<1>1. s.step \in {1, 2, 3, 4, 5}
  OBVIOUS
<1>2. /\ ReadCommands[1] = "ENTER" /\ ReadCommands[2] = "SIM_QUERY"
      /\ ReadCommands[3] = "REGISTRATION_QUERY" /\ ReadCommands[4] = "CONNECTION_QUERY"
      /\ ReadCommands[5] = "EXIT"
  BY DEF ReadCommands
<1>3. CommandOf(s) = ReadCommands[s.step]
  BY DEF CommandOf
<1> QED  BY <1>1, <1>2, <1>3

\* What the completed command leaves, in the middle of the pass.
LEMMA CompletionFlash ==
  ASSUME SessionInv, WireInv, FlashInv, ~CompletionFails
  PROVE  /\ FlashOf(Completion)
         /\ \/ Completion.result = remote.result
            \/ /\ remote.result = "RUNNING" /\ Completion.result = "SUCCEEDED"
               /\ m_saved = remote.requested
<1>1. remote \in Services /\ InTable(remote) /\ remote.step \in 1 .. 6
  BY ServiceFields DEF SessionInv, SessionOf
<1>2. CASE ~(remote.pending /\ remote.report.done = "OK")
  <2>1. Completion = Polled
    BY <1>2, CompletionIs
  <2> QED  BY <1>1, <2>1, PolledFacts DEF FlashInv, FlashOf, Rebooted, Unasked, SameFlow
<1>3. CASE remote.pending /\ remote.report.done = "OK"
  <2>1. /\ Completion = Advance(Completed) /\ Completed \in Services
        /\ Completed.stage \in CommandStages /\ InTable(Completed) /\ ~Completed.pending
        /\ Completed.stage = remote.stage /\ Completed.step = remote.step
        /\ Completed.result = remote.result /\ Completed.requested = remote.requested
    BY <1>3, CompletionIs, CompletedFacts
  <2>2. /\ Completion.requested = remote.requested
        /\ \/ NextStep(Completed, Completion) \/ ReadDone(Completed, Completion)
           \/ WriteDone(Completed, Completion) \/ EnterDone(Completed, Completion)
           \/ /\ remote.stage = "RECOVER_EXIT" /\ Completion.stage = "QUIET"
              /\ Completion.target = "READ" /\ Completion.result = remote.result
    BY <2>1, AdvanceFacts
  <2>3. inbox = <<>> /\ remote.device.command = CommandOf(remote)
    BY <1>3 DEF WireInv, Drained, SessionInv, SessionOf
  <2>4. CASE NextStep(Completed, Completion)
    <3>1. /\ remote.stage \in {"STARTUP_READ", "WRITE_CONFIG"} /\ remote.step < 5
          /\ Completion.stage = remote.stage /\ Completion.step = remote.step + 1
          /\ Completion.result = remote.result
      BY <2>1, <2>4 DEF NextStep
    <3>2. Rebooted(Completion) <=> Rebooted(remote)
      BY <3>1 DEF Rebooted
    <3>3. ASSUME Rebooted(remote), remote.stage = "STARTUP_READ", Completion.step > 3
          PROVE  m_saved = remote.requested
      <4>1. CASE remote.step > 3
        BY <3>3, <4>1 DEF FlashInv, FlashOf
      <4>2. CASE remote.step = 3
        <5>1. remote.device.command = "REGISTRATION_QUERY" /\ ReadCommands[remote.step] = "REGISTRATION_QUERY"
          BY <2>3, <3>3, <4>2, CommandOfRead
        <5>2. ~QueryMissing(remote, remote.report)
          BY <1>3 DEF CompletionFails, Report
        <5>3. remote.report.full /\ remote.report.id = remote.requested
          BY <3>3, <5>1, <5>2 DEF QueryMissing, Rebooted
        <5> QED  BY <1>3, <3>3, <5>1, <5>3 DEF FlashInv, ToldInv
      <4> QED  BY <1>1, <3>1, <3>3, <4>1, <4>2
    <3>4. Rebooted(remote) => m_id = m_saved
      BY DEF FlashInv, FlashOf
    <3> QED  BY <2>2, <2>3, <3>1, <3>2, <3>3, <3>4 DEF FlashOf, Unasked
  <2>5. CASE ReadDone(Completed, Completion)
    <3>1. /\ remote.stage = "STARTUP_READ" /\ remote.step = 5 /\ Completion.stage = "NORMAL"
          /\ Completion.result = IF remote.result = "RUNNING" THEN "SUCCEEDED" ELSE remote.result
      BY <2>1, <2>5 DEF ReadDone
    <3>2. remote.result = "RUNNING" => m_saved = remote.requested
      BY <3>1 DEF FlashInv, FlashOf, Rebooted
    <3> QED  BY <3>1, <3>2 DEF FlashOf, Unasked, Rebooted
  <2>6. CASE WriteDone(Completed, Completion)
    <3>1. /\ remote.stage = "WRITE_CONFIG" /\ remote.step = 5
          /\ Completion.stage = "RESTART_WAIT" /\ Completion.result = remote.result
      BY <2>1, <2>6 DEF WriteDone
    <3>2. CommandOf(remote) = "RESTART"
      BY <3>1 DEF CommandOf, ConfigCommands
    <3>3. m_id = m_saved
      BY <1>3, <2>3, <3>2 DEF FlashInv, ToldInv
    <3> QED  BY <2>3, <3>1, <3>3 DEF FlashOf, Unasked, Rebooted
  <2>7. CASE EnterDone(Completed, Completion)
    <3>1. /\ remote.stage = "RECOVER_ENTER" /\ Completion.stage = "RECOVER_EXIT"
          /\ Completion.result = remote.result
      BY <2>1, <2>7 DEF EnterDone
    <3> QED  BY <3>1 DEF FlashInv, FlashOf, Unasked, Rebooted
  <2>8. CASE /\ remote.stage = "RECOVER_EXIT" /\ Completion.stage = "QUIET"
             /\ Completion.target = "READ" /\ Completion.result = remote.result
    BY <2>8 DEF FlashInv, FlashOf, Unasked, Rebooted
  <2> QED  BY <2>2, <2>4, <2>5, <2>6, <2>7, <2>8
<1> QED  BY <1>2, <1>3

\* A boot that does not break the flow comes when the configuration is saved.
LEMMA NotifiedFlash ==
  ASSUME SessionInv, WireInv, FlashInv, ServeGoesOn
  PROVE  FlashOf(Notified)
<1>1. FlashOf(Completion) /\ MidPass(Completion)
  BY CompletionFlash, CompletionMidPass DEF ServeGoesOn
<1>2. CASE Notified = Completion
  BY <1>1, <1>2
<1>3. CASE /\ Report.ready /\ Notified.stage = "BOOT_WAIT"
           /\ Notified.result = Completion.result
  <2>1. ~ReadyBreaks(Completion)
    BY <1>3 DEF ServeGoesOn
  <2>2. Completion.stage \in Stages /\ Completion.target \in {"WRITE", "READ", "RECOVER"}
    BY <1>1, ServiceFields DEF MidPass
  <2>3. Unasked(Completion) \/ Rebooted(Completion) \/ Completion.result # "RUNNING"
    BY <2>1, <2>2 DEF ReadyBreaks, Stages, CommandStages, Unasked, Rebooted
  <2>4. Completion.stage # "STARTUP_READ"
    BY <2>1 DEF ReadyBreaks
  <2>5. Completion.result = "RUNNING" => m_id = m_saved /\ inbox = <<>>
    BY <1>1, <2>3, <2>4 DEF FlashOf
  <2> QED  BY <1>3, <2>5 DEF FlashOf, Unasked, Rebooted
<1> QED  BY <1>2, <1>3, NotifiedMidPass

\* Nobody runs a request after a failure.
LEMMA FlashRest ==
  ASSUME AtRest(remote'), remote'.result # "RUNNING"
  PROVE  FlashInv'
  BY DEF AtRest, FlashInv, FlashOf, ToldInv, Rebooted, Unasked, FreshDevice, NoReport

\* The service keeps its stage, and the driver what it has been told.
LEMMA FlashKept ==
  ASSUME FlashInv, UNCHANGED <<moduleVars, inbox, line>>, SameFlow(remote, remote'),
         remote'.device.pending = remote.device.pending,
         remote'.device.command = remote.device.command, remote'.report = remote.report
  PROVE  FlashInv'
  BY DEF FlashInv, FlashOf, ToldInv, Rebooted, Unasked, SameFlow, moduleVars, Replies

LEMMA FlashRead ==
  ASSUME SessionInv, WireTypes, FlashInv, PollLine
  PROVE  FlashInv'
<1> DEFINE l == Head(line)
<1>1. /\ line \in Seq(Outcomes) /\ line # <<>> /\ inbox' = inbox
      /\ m_id' = m_id /\ m_saved' = m_saved
      /\ remote' = OnLine(remote, l) /\ remote \in Services /\ SessionOf(remote)
  BY DEF PollLine, WireTypes, SessionInv, SessionOf, moduleVars
<1>2. l \in Outcomes /\ l = line[1] /\ Len(line) \in Nat \ {0} /\ 1 \in DOMAIN line
  BY <1>1, TailFacts
<1> HIDE DEF l
<1>3. SameFlow(remote, remote') /\ remote'.device.command = remote.device.command
  BY <1>1, <1>2, LineFacts
<1>4. FlashOf(remote)' /\ (Rebooted(remote)' <=> Rebooted(remote))
  BY <1>1, <1>3 DEF FlashInv, FlashOf, Rebooted, Unasked, SameFlow
<1>5. CASE l.answer = "READY"
  <2>1. remote' = OnReady(remote) /\ remote.report \in Reports
    BY <1>1, <1>5, ServiceFields DEF OnLine
  <2>2. /\ ~remote'.device.pending
        /\ remote'.report =
             [remote.report EXCEPT !.ready = TRUE, !.done = IF remote.device.pending THEN "FAILED" ELSE @]
    BY <1>1, <2>1, ReadyFacts
  <2>3. /\ remote'.report.done = "OK" => remote.report.done = "OK"
        /\ remote'.report.full = remote.report.full /\ remote'.report.id = remote.report.id
    BY <2>1, <2>2 DEF Reports
  <2> QED  BY <1>1, <1>3, <1>4, <2>2, <2>3 DEF FlashInv, ToldInv
<1>6. CASE l.answer # "READY" /\ ~remote.device.pending
  <2>1. remote' = remote
    BY <1>1, <1>6 DEF OnLine, OnReply
  <2> QED  BY <1>1, <1>4, <1>6, <2>1 DEF FlashInv, ToldInv
<1>7. CASE l.answer = "ERROR" /\ remote.device.pending
  <2>1. remote' = Complete(remote, "FAILED") /\ remote.device \in Devices /\ remote.report \in Reports
    BY <1>1, <1>7, ServiceFields DEF OnLine, OnReply
  <2>2. /\ remote'.device = [remote.device EXCEPT !.pending = FALSE, !.mode = "UNKNOWN"]
        /\ remote'.report = [remote.report EXCEPT !.done = "FAILED"]
    BY <1>1, <2>1, CompleteFacts
  <2>3. ~remote'.device.pending /\ remote'.report.done = "FAILED"
    BY <2>1, <2>2 DEF Devices, Reports
  <2> QED  BY <1>4, <2>3 DEF FlashInv, ToldInv
<1>8. CASE l.answer = "OK" /\ remote.device.pending
  <2>1. remote' = OnReply(remote, l)
    BY <1>1, <1>8 DEF OnLine
  <2>2. /\ ~remote'.device.pending
        /\ remote'.report.full => l.full /\ remote'.report.id = l.id
    BY <1>1, <1>2, <1>8, <2>1, ReplyOkFacts
  <2>3. 1 \in Replies(line) /\ line[1] = l
    BY <1>2, <1>8 DEF Replies
  <2>4. remote.device.command = "RESTART" => m_id = m_saved
    BY <1>8, <2>3 DEF FlashInv, ToldInv
  <2>5. Rebooted(remote) /\ remote.device.command = "REGISTRATION_QUERY" /\ l.full => l.id = m_saved
    BY <1>8, <2>3 DEF FlashInv, ToldInv
  <2> QED  BY <1>1, <1>3, <1>4, <2>2, <2>4, <2>5 DEF FlashInv, ToldInv
<1> QED  BY <1>2, <1>5, <1>6, <1>7, <1>8 DEF Outcomes

\* The commands a rebooted module may still get are those of the reading.
LEMMA RebootedAsks ==
  ASSUME SessionInv, WireTypes, WireInv, FlashInv, Rebooted(remote), inbox # <<>>
  PROVE  /\ remote.stage = "STARTUP_READ" /\ Head(inbox).command = remote.device.command
         /\ remote.device.command \notin {"REGISTRATION_SET", "SAVE", "RESTART"}
<1>1. remote.stage = "STARTUP_READ"
  BY DEF FlashInv, FlashOf
<1>2. remote.pending /\ remote.step \in 1 .. 5
  <2>1. remote.step \in 1 .. 6 /\ InTable(remote)
    BY ServiceFields DEF SessionInv, SessionOf
  <2> QED  BY <1>1, <2>1 DEF SessionInv, SessionOf, InTable, CommandStages
<1>3. Head(inbox) = inbox[1] /\ 1 \in DOMAIN inbox
  BY TailFacts DEF WireTypes
<1>4. Head(inbox).command = remote.device.command
  BY <1>2, <1>3 DEF WireInv
<1>5. remote.device.command = CommandOf(remote)
  BY <1>2 DEF SessionInv, SessionOf
<1> QED  BY <1>1, <1>2, <1>4, <1>5, CommandOfRead

\* A new line is behind the others.
LEMMA AppendedReply ==
  ASSUME WireTypes, NEW a \in Outcomes, line' = Append(line, a), Replies(line) = {},
         NEW i \in Replies(line')
  PROVE  line'[i] = a
<1>1. DOMAIN line' = 1 .. Len(line) + 1 /\ line'[Len(line) + 1] = a /\ Len(line) \in Nat
  BY DEF WireTypes
<1>2. \A j \in 1 .. Len(line) : j \in DOMAIN line /\ line'[j] = line[j]
  BY DEF WireTypes
<1>3. i \notin 1 .. Len(line)
  BY <1>2 DEF Replies
<1>4. i = Len(line) + 1
  BY <1>1, <1>3 DEF Replies
<1> QED  BY <1>1, <1>4

\* A command that is obeyed: what its answer tells is so.
LEMMA FlashObeyed ==
  ASSUME SessionInv, WireTypes, WireInv, FlashInv, ModuleObeys
  PROVE  FlashInv'
<1> DEFINE c == Head(inbox)
<1>1. /\ inbox # <<>> /\ c \in Sent /\ c = inbox[1] /\ 1 \in DOMAIN inbox /\ remote' = remote
      /\ inbox' = Tail(inbox)
  BY TailFacts DEF ModuleObeys, WireTypes
<1>2. /\ m_saved' = (IF c.command = "SAVE" THEN m_id ELSE m_saved)
      /\ c.command = "RESTART" => m_id' = m_saved
      /\ c.command \notin {"REGISTRATION_SET", "RESTART"} => m_id' = m_id
      /\ line' = line \/ \E a \in Told(c) : line' = Append(line, a)
  BY DEF ModuleObeys
<1> HIDE DEF c
<1>3. Rebooted(remote) => /\ remote.stage = "STARTUP_READ" /\ c.command = remote.device.command
                          /\ m_saved' = m_saved /\ m_id' = m_id
  BY <1>1, <1>2, RebootedAsks DEF c
<1>4. FlashOf(remote)'
  BY <1>1, <1>3 DEF FlashInv, FlashOf, Rebooted, Unasked
<1>5. remote.report.done # "OK"
  BY <1>1 DEF WireInv, Drained
<1>6. ASSUME remote.device.pending
      PROVE  /\ c.command = remote.device.command /\ Replies(line) = {}
             /\ \A i \in Replies(line') : /\ line'[i].answer = "OK"
                                          /\ line'[i].full /\ c.command = "REGISTRATION_QUERY"
                                               => line'[i].id = m_id
  <2>1. c.command = remote.device.command /\ Replies(line) = {}
    BY <1>1, <1>6 DEF WireInv, SessionInv, SessionOf
  <2>2. CASE line' = line
    BY <2>1, <2>2
  <2>3. ASSUME NEW a \in Told(c), line' = Append(line, a), NEW i \in Replies(line')
        PROVE  /\ line'[i].answer = "OK"
               /\ line'[i].full /\ c.command = "REGISTRATION_QUERY" => line'[i].id = m_id
    <3>1. /\ a \in Outcomes /\ a.answer = "OK"
          /\ a.full /\ c.command = "REGISTRATION_QUERY" => a.id = m_id
      BY <1>1, <2>3, ToldType
    <3>2. line'[i] = a
      BY <2>1, <2>3, <3>1, AppendedReply
    <3> QED  BY <3>1, <3>2
  <2> QED  BY <1>2, <2>1, <2>2, <2>3
<1>7. remote.device.pending /\ remote.device.command = "RESTART" => m_id' = m_saved'
  BY <1>2, <1>6
<1>8. ASSUME Rebooted(remote), remote.device.pending,
             remote.device.command = "REGISTRATION_QUERY",
             NEW i \in Replies(line'), line'[i].full
      PROVE  line'[i].id = m_saved'
  BY <1>3, <1>6, <1>8 DEF FlashInv, FlashOf
<1>9. Rebooted(remote)' <=> Rebooted(remote)
  BY <1>1 DEF Rebooted
<1> QED  BY <1>1, <1>4, <1>5, <1>7, <1>8, <1>9 DEF FlashInv, ToldInv

LEMMA FlashRefused ==
  ASSUME SessionInv, WireTypes, WireInv, FlashInv, ModuleRefuses \/ ModuleMisses
  PROVE  FlashInv'
<1>1. /\ inbox # <<>> /\ Head(inbox) \in Sent /\ Head(inbox) = inbox[1] /\ 1 \in DOMAIN inbox
      /\ remote' = remote /\ m_id' = m_id /\ m_saved' = m_saved
  BY TailFacts DEF ModuleRefuses, ModuleMisses, WireTypes, moduleVars
<1>2. Rebooted(remote) => remote.stage = "STARTUP_READ"
  BY <1>1, RebootedAsks
<1>3. FlashOf(remote)'
  BY <1>1, <1>2 DEF FlashInv, FlashOf, Rebooted, Unasked
<1>4. remote.report.done # "OK"
  BY <1>1 DEF WireInv, Drained
<1>5. ASSUME remote.device.pending, NEW i \in Replies(line')
      PROVE  ~line'[i].full
             /\ (line'[i].answer = "OK" => remote.device.command # "RESTART")
  <2>1. Head(inbox).command = remote.device.command /\ Replies(line) = {}
    BY <1>1, <1>5 DEF WireInv, SessionInv, SessionOf
  <2>2. CASE ModuleMisses
    BY <1>5, <2>1, <2>2 DEF ModuleMisses
  <2>3. CASE line' = Append(line, Answer(Head(inbox), "ERROR"))
    <3>1. line'[i] = Answer(Head(inbox), "ERROR")
      BY <1>1, <1>5, <2>1, <2>3, AnswerType, AppendedReply
    <3> QED  BY <1>1, <3>1, AnswerType
  <2>4. CASE /\ Head(inbox).command \in {"REGISTRATION_SET", "SAVE"}
             /\ line' = Append(line, Answer(Head(inbox), "OK"))
    <3>1. line'[i] = Answer(Head(inbox), "OK")
      BY <1>1, <1>5, <2>1, <2>4, AnswerType, AppendedReply
    <3> QED  BY <1>1, <2>1, <2>4, <3>1, AnswerType
  <2> QED  BY <2>2, <2>3, <2>4 DEF ModuleRefuses
<1>6. Rebooted(remote)' <=> Rebooted(remote)
  BY <1>1 DEF Rebooted
<1> QED  BY <1>1, <1>3, <1>4, <1>5, <1>6 DEF FlashInv, ToldInv

\* The module forgets what it has not saved; its notification is no reply.
LEMMA FlashBooted ==
  ASSUME WireTypes, FlashInv, ModuleReboots \/ ModuleUp
  PROVE  FlashInv'
<1>1. /\ remote' = remote /\ m_saved' = m_saved /\ m_id' \in {m_id, m_saved}
      /\ inbox' \in {inbox, <<>>} /\ (line' = line \/ line' = Append(line, Ready))
  BY DEF ModuleReboots, ModuleUp
<1>2. FlashOf(remote)' /\ (Rebooted(remote)' <=> Rebooted(remote))
  BY <1>1 DEF FlashInv, FlashOf, Rebooted, Unasked
<1>3. \A i \in Replies(line') : i \in Replies(line) /\ line'[i] = line[i]
  <2>1. CASE line' = line
    BY <2>1
  <2>2. CASE line' = Append(line, Ready)
    <3>1. /\ DOMAIN line' = 1 .. Len(line) + 1 /\ line'[Len(line) + 1] = Ready
          /\ \A i \in 1 .. Len(line) : i \in DOMAIN line /\ line'[i] = line[i]
          /\ Len(line) \in Nat
      BY <2>2, ReadyType DEF WireTypes
    <3> QED  BY <3>1, ReadyType DEF Replies
  <2> QED  BY <1>1, <2>1, <2>2
<1> QED  BY <1>1, <1>2, <1>3 DEF FlashInv, ToldInv

LEMMA FlashAsked ==
  ASSUME Patient, SessionInv, WireTypes, WireInv, FlashInv, NEW s, PassAsks(s),
         UNCHANGED moduleVars
  PROVE  FlashInv' /\ remote'.result = remote.result /\ remote'.requested = remote.requested
<1>1. /\ s \in Services /\ s.stage \in CommandStages /\ InTable(s) /\ remote' = Asked(s)
      /\ NextAsked(s) \/ FirstAsked(s)
  BY DEF PassAsks
<1>2. /\ remote'.stage = s.stage /\ remote'.step = s.step /\ remote'.result = s.result
      /\ remote'.requested = s.requested /\ remote'.report.done = "NO"
  BY <1>1, AskedFacts DEF NoReport
<1>3. Replies(line') = {}
  BY WireAsked
<1>4. FlashOf(s) /\ s.result = remote.result /\ s.requested = remote.requested
  <2>1. CASE NextAsked(s)
    <3>1. /\ Completed.result = remote.result /\ Completed.stage \in CommandStages
          /\ Completed.requested = remote.requested
      BY <2>1, CompletedFacts DEF NextAsked
    <3>2. s.result = remote.result
      BY <2>1, <3>1 DEF NextAsked, NextStep, EnterDone
    <3>3. ~CompletionFails
      BY <2>1 DEF NextAsked
    <3> QED  BY <2>1, <3>2, <3>3, CompletionFlash, CompletionKeeps DEF NextAsked
  <2>2. CASE FirstAsked(s)
    <3>1. /\ remote.stage = "QUIET" /\ s.step = 1 /\ s.result = remote.result
          /\ s.requested = remote.requested
      BY <2>2 DEF FirstAsked
    <3>2. remote.target \in {"WRITE", "READ", "RECOVER"}
      BY ServiceFields DEF SessionInv, SessionOf
    <3>3. CASE remote.target = "WRITE"
      <4>1. s.stage = "WRITE_CONFIG"
        BY <2>2, <3>3 DEF FirstAsked
      <4> QED  BY <3>1, <4>1 DEF FlashOf, Rebooted, Unasked
    <3>4. CASE remote.target = "READ"
      <4>1. s.stage = "STARTUP_READ"
        BY <2>2, <3>4 DEF FirstAsked
      <4> QED  BY <3>1, <3>4, <4>1 DEF FlashInv, FlashOf, Rebooted, Unasked
    <3>5. CASE remote.target = "RECOVER"
      <4>1. s.stage = "RECOVER_ENTER"
        BY <2>2, <3>5 DEF FirstAsked
      <4> QED  BY <3>1, <3>5, <4>1 DEF FlashInv, FlashOf, Rebooted, Unasked
    <3> QED  BY <3>2, <3>3, <3>4, <3>5
  <2> QED  BY <1>1, <2>1, <2>2
<1>5. Rebooted(s) /\ s.stage # "STARTUP_READ" => FALSE
  BY <1>1 DEF Rebooted, CommandStages
<1>6. FlashOf(remote)'
  BY <1>2, <1>4, <1>5, <1>1 DEF FlashOf, Rebooted, Unasked, moduleVars, CommandStages
<1>7. ToldInv'
  BY <1>2, <1>3 DEF ToldInv
<1> QED  BY <1>2, <1>4, <1>6, <1>7 DEF FlashInv

\* A pass of the service keeps what is known of the flash, and moves the request on
\* by at most one step of its specification.
LEMMA PassRequest ==
  ASSUME Patient, SessionInv, WireTypes, WireInv, FlashInv, ServePasses
  PROVE  /\ FlashInv' /\ m_saved' = m_saved /\ remote'.requested = remote.requested
         /\ \/ remote'.result = remote.result
            \/ remote.result = "RUNNING" /\ remote'.result = "FAILED"
            \/ /\ remote.result = "RUNNING" /\ remote'.result = "SUCCEEDED"
               /\ m_saved = remote.requested
<1>1. UNCHANGED moduleVars
  BY DEF ServePasses, ServeFailure, ServeReboot, ServeSettled, FlowTimeout, BootSettles,
         StageTimesOut, QuietEnds, NextCommand, Waits, StepSend, Serve
<1>2. CASE PassFails
  <2>1. AtRest(remote') /\ remote'.requested = remote.requested
    BY <1>2 DEF PassFails
  <2>2. \/ remote'.result = Ended(remote.result)
        \/ ~CompletionFails /\ remote'.result = Ended(Completion.result)
    BY <1>2 DEF PassFails
  <2>3. remote'.result # "RUNNING"
    BY <2>2 DEF Ended
  <2> QED  BY <1>1, <2>1, <2>2, <2>3, FlashRest, CompletionFlash DEF Ended, moduleVars
<1>3. CASE PassSettles
  <2>1. /\ AtRest(remote') /\ remote'.stage = "QUIET" /\ remote'.target = "READ"
        /\ remote.stage = "BOOT_WAIT" /\ inbox' = inbox
        /\ remote'.result = remote.result /\ remote'.requested = remote.requested
    BY <1>3 DEF PassSettles, KeepUart
  <2>2. FlashOf(remote)'
    BY <1>1, <2>1 DEF FlashInv, FlashOf, Rebooted, Unasked, moduleVars
  <2>3. ToldInv'
    BY <2>1 DEF AtRest, FreshDevice, NoReport, ToldInv
  <2> QED  BY <1>1, <2>1, <2>2, <2>3 DEF FlashInv, moduleVars
<1>4. CASE PassWaits
  <2>1. ServeGoesOn /\ remote' = Notified /\ inbox' = inbox /\ line' = line
    BY <1>4 DEF PassWaits, KeepUart
  <2>2. FlashOf(remote)'
    BY <1>1, <2>1, NotifiedFlash DEF FlashOf, Rebooted, Unasked, moduleVars
  <2>3. ToldInv'
    <3>1. remote'.report.done = "NO" /\ (remote'.pending => remote' = Polled /\ remote'.device = remote.device)
      BY <1>4, WireWaits
    <3>2. remote'.device.pending => remote'.pending
      BY <2>1, NotifiedMidPass DEF MidPass
    <3>3. remote' = Polled => (Rebooted(remote') <=> Rebooted(remote))
      BY PolledFacts DEF SessionInv, SessionOf, SameFlow, Rebooted
    <3>4. Rebooted(remote)' <=> Rebooted(remote')
      BY DEF Rebooted
    <3> QED  BY <1>1, <2>1, <3>1, <3>2, <3>3, <3>4 DEF FlashInv, ToldInv, moduleVars
  <2>4. remote'.result = Completion.result /\ remote'.requested = remote.requested
    BY <2>1, NotifiedKeeps
  <2>5. ~CompletionFails
    BY <2>1 DEF ServeGoesOn
  <2> QED  BY <1>1, <2>2, <2>3, <2>4, <2>5, CompletionFlash DEF FlashInv, moduleVars
<1>5. ASSUME NEW s, PassAsks(s)
      PROVE  /\ FlashInv' /\ remote'.result = remote.result
             /\ remote'.requested = remote.requested
  BY <1>1, <1>5, FlashAsked
<1>6. m_saved' = m_saved
  BY <1>1 DEF moduleVars
<1> QED  BY <1>2, <1>3, <1>4, <1>5, <1>6, PassOutcome

LEMMA NextFlash ==
  ASSUME Patient, ModemTypes, WireInv, FlashInv, [Next]_vars
  PROVE  FlashInv'
<1>1. SessionInv /\ WireTypes /\ SlotTypes
  BY DEF ModemTypes, SlotInv
<1>2. CASE CommandTake
  <2>1. UNCHANGED <<moduleVars, inbox, line>>
    BY <1>2 DEF CommandTake
  <2>2. CASE remote' = remote
    BY <2>1, <2>2, FlashKept DEF SameFlow
  <2>3. CASE AtRest(remote') /\ remote'.result = Ended(remote.result)
    BY <2>3, FlashRest DEF Ended
  <2>4. CASE AtRest(remote') /\ remote'.stage = "QUIET" /\ remote'.target = "WRITE"
    BY <2>4 DEF AtRest, FlashInv, FlashOf, ToldInv, Rebooted, Unasked, FreshDevice, NoReport
  <2> QED  BY <1>1, <1>2, <2>2, <2>3, <2>4, TakeOutcome
<1>3. CASE PollTick
  <2>1. UNCHANGED <<moduleVars, inbox, line>>
    BY <1>3 DEF PollTick
  <2>2. CASE remote' = remote
    BY <2>1, <2>2, FlashKept DEF SameFlow
  <2>3. CASE /\ SameFlow(remote, remote')
             /\ ~remote'.device.pending /\ remote'.report.done = "FAILED"
    BY <2>1, <2>3 DEF FlashInv, FlashOf, ToldInv, Rebooted, Unasked, SameFlow, moduleVars
  <2> QED  BY <1>1, <1>3, <2>2, <2>3, PollTickOutcome
<1>4. CASE PollLost
  <2>1. inbox' = inbox /\ UNCHANGED moduleVars
    BY <1>4 DEF PollLost
  <2>2. CASE /\ remote.stage = "FAULT" /\ SameFlow(remote, remote')
             /\ remote'.device.pending = remote.device.pending
             /\ remote'.device.command = remote.device.command
             /\ remote'.report = remote.report
    <3>1. ~remote'.device.pending /\ remote'.report.done # "OK"
      BY <1>1, <2>2 DEF SessionInv, SessionOf, CommandStages
    <3> QED  BY <2>1, <2>2, <3>1
             DEF FlashInv, FlashOf, ToldInv, Rebooted, Unasked, SameFlow, moduleVars
  <2>3. CASE AtRest(remote') /\ remote'.result = Ended(remote.result)
    BY <2>3, FlashRest DEF Ended
  <2> QED  BY <1>1, <1>4, <2>2, <2>3, LostOutcome
<1>5. CASE PollLine
  BY <1>1, <1>5, FlashRead
<1>6. CASE ServePasses
  BY <1>1, <1>6, PassRequest
<1>7. CASE Tick
  <2>1. UNCHANGED <<moduleVars, inbox, line>>
    BY <1>7 DEF Tick
  <2> QED  BY <1>1, <1>7, <2>1, TickOutcome, FlashKept
<1>8. CASE ModuleNext
  BY <1>1, <1>8, FlashObeyed, FlashRefused, FlashBooted DEF ModuleNext
<1>9. CASE Elsewhere /\ ~ModuleNext
  <2>1. remote' = remote /\ UNCHANGED <<moduleVars, inbox, line>>
    BY <1>9 DEF Elsewhere, CommandRelease, Publish, Submit, Enqueue, vars
  <2> QED  BY <2>1, FlashKept DEF SameFlow
<1> QED  BY <1>2, <1>3, <1>4, <1>5, <1>6, <1>7, <1>8, <1>9, NextCases

LEMMA InitRequest == Init => FlashInv /\ Request!Init
<1> SUFFICES ASSUME Init PROVE FlashInv /\ Request!Init
  OBVIOUS
<1> QED
  BY DEF Init, FlashInv, FlashOf, ToldInv, Rebooted, Unasked, FreshDevice, NoReport, Request!Init

LEMMA NextRequest ==
  ASSUME Patient, ModemTypes, WireInv, FlashInv, [Next]_vars
  PROVE  [Request!Next]_(Request!requestVars)
<1> USE DEF Request!Next, Request!Start, Request!Store, Request!Succeed, Request!Fail,
            Request!requestVars
<1>1. SessionInv /\ WireTypes /\ SlotTypes
  BY DEF ModemTypes, SlotInv
<1>2. CASE CommandTake
  <2>1. m_saved' = m_saved
    BY <1>2 DEF CommandTake, moduleVars
  <2>2. Settled(remote.stage) => remote.result # "RUNNING"
    BY DEF Settled, FlashInv, FlashOf, Unasked
  <2> QED  BY <1>1, <1>2, <2>1, <2>2, TakeOutcome DEF Ended
<1>3. CASE PollTick
  BY <1>1, <1>3, PollTickOutcome DEF PollTick, moduleVars, SameFlow
<1>4. CASE PollLost
  <2>1. m_saved' = m_saved
    BY <1>4 DEF PollLost, moduleVars
  <2> QED  BY <1>1, <1>4, <2>1, LostOutcome DEF Ended, SameFlow
<1>5. CASE PollLine
  <2>1. m_saved' = m_saved /\ remote' = OnLine(remote, Head(line)) /\ Head(line) \in Outcomes
    BY <1>1, <1>5, TailFacts DEF PollLine, moduleVars, WireTypes
  <2> QED  BY <1>1, <2>1, LineFacts DEF SameFlow, SessionInv, SessionOf
<1>6. CASE ServePasses
  BY <1>1, <1>6, PassRequest
<1>7. CASE Tick
  BY <1>1, <1>7, TickOutcome DEF Tick, moduleVars, SameFlow
<1>8. CASE ModuleNext
  <2>1. remote' = remote /\ m_saved' \in Ids \cup {NoId}
    BY <1>1, <1>8, ModuleTypes, ElsewhereKeeps DEF Elsewhere
  <2> QED  BY <2>1
<1>9. CASE Elsewhere /\ ~ModuleNext
  <2>1. remote' = remote /\ m_saved' = m_saved
    BY <1>9 DEF Elsewhere, CommandRelease, Publish, Submit, Enqueue, vars, moduleVars
  <2> QED  BY <2>1
<1> QED  BY <1>2, <1>3, <1>4, <1>5, <1>6, <1>7, <1>8, <1>9, NextCases

\* A configuration request runs alone, ends once, and has succeeded only if the module
\* then has the requested id in its flash (remote_modem_service.c:84, 221, 280).
THEOREM RequestIsKept ==
  ASSUME Patient
  PROVE  Spec => ImplementsConfigRequest
<1>1. Init => WireInv
  <2> SUFFICES ASSUME Init PROVE WireInv
    OBVIOUS
  <2> QED  BY DEF Init, WireInv, FreshDevice, NoReport
<1>2. ModemTypes /\ WireInv /\ FlashInv /\ [Next]_vars => ModemTypes' /\ WireInv' /\ FlashInv'
  BY NextTypes, NextWire, NextFlash
<1>3. ModemTypes /\ WireInv /\ FlashInv /\ [Next]_vars => [Request!Next]_(Request!requestVars)
  BY NextRequest
<1> QED  BY InitTypes, InitRequest, <1>1, <1>2, <1>3, PTL
         DEF Spec, ImplementsConfigRequest, Request!Spec
=============================================================================

---------------------------- MODULE RemoteModem ----------------------------
(***************************************************************************)
(* The 4G modem: remote_modem_app.c over remote_modem_service.c,           *)
(* bsp_remote_modem.c and e27_d.c, and the E27-D module behind the UART.   *)
(*                                                                         *)
(* One owner task polls the service every 10 ms; the other tasks hand it   *)
(* requests through one slot.  The service runs AT commands one by one to  *)
(* read the module at start-up, to configure it, and to recover; a reply   *)
(* carries no number, so a late one looks like the answer to the command   *)
(* that is pending now.  The module may be slow, refuse, lose a command or *)
(* its answer, and reboot at any time.                                     *)
(*                                                                         *)
(* The service's command tables are shortened: commands the code treats    *)
(* alike stand for each other.  Timers run out at any moment, but for the  *)
(* flow timer (flow_age), which bounds everything else.                    *)
(***************************************************************************)
EXTENDS Naturals, Sequences, FiniteSets

CONSTANTS
  Ids, NoId,   \* registration ids; NoId: none of 16 letters and digits
  Clients,     \* tasks that submit requests
  LateWaits,   \* waits of the service that an answer may outlast
  FlowLimit,   \* REMOTE_FLOW_TIMEOUT_MS, in ticks
  LineLimit    \* unread lines in the UART's receive buffer

ASSUME ModemAssumption ==
  /\ NoId \notin Ids /\ LateWaits \subseteq {"WRITE", "READ", "BOOT"}
  /\ FlowLimit \in Nat \ {0} /\ LineLimit \in Nat \ {0}

VARIABLES
  remote,    \* remote_service, with remote_device and remote_report below it
  owner_pc,  \* where the owner task is in its loop
  reserved,  \* remote_request_reserved
  snapshot,  \* remote_snapshot.modem.stage
  queue,     \* remote_queue, one slot
  clients,   \* the command a client has a reservation for and has not queued
  m_mode,    \* the module: BOOT, TRANSPARENT or COMMAND
  m_id,      \* the registration id it uses
  m_saved,   \* and the one in its flash
  inbox,     \* commands on their way to it
  line       \* lines it has sent that the owner has not read

slotVars   == <<reserved, snapshot, queue, clients>>
moduleVars == <<m_mode, m_id, m_saved>>
vars       == <<remote, owner_pc, slotVars, moduleVars, inbox, line>>

ConfigCommands == <<"ENTER", "MODE_SET", "REGISTRATION_SET", "SAVE", "RESTART">>
\* Instead: the exit is taken for granted.
ReadCommandsNoExit == <<"ENTER", "SIM_QUERY", "REGISTRATION_QUERY", "CONNECTION_QUERY">>
ReadCommands == <<"ENTER", "SIM_QUERY", "REGISTRATION_QUERY", "CONNECTION_QUERY", "EXIT">>
AtCommands == {"ENTER", "EXIT", "MODE_SET", "REGISTRATION_SET", "SAVE", "RESTART",
               "SIM_QUERY", "REGISTRATION_QUERY", "CONNECTION_QUERY"}
Queries    == {"SIM_QUERY", "REGISTRATION_QUERY", "CONNECTION_QUERY"}

CommandStages == {"STARTUP_READ", "WRITE_CONFIG", "RECOVER_ENTER", "RECOVER_EXIT"}
Stages == CommandStages \cup {"BOOT_WAIT", "QUIET", "RESTART_WAIT", "NORMAL", "FAULT"}
Settled(stage) == stage \in {"NORMAL", "FAULT"}

Idle == [type |-> "NONE", id |-> NoId]
Requests == [type : {"CONFIG"}, id : Ids] \cup [type : {"SEND"}, id : {NoId}]

-----------------------------------------------------------------------------
(* The driver (e27_d.c) and the report the BSP collects from its events.   *)

NoReport    == [done |-> "NO", ready |-> FALSE, full |-> FALSE, id |-> NoId]
FreshDevice == [mode |-> "UNKNOWN", pending |-> FALSE, command |-> "NONE"]

\* The parser session ends: nothing is pending and the mode is unknown.
SessionReset(s) == [s EXCEPT !.device = FreshDevice, !.report = NoReport]

\* The pending command ends; unless with OK, the module's mode is unknown.
Complete(s, outcome) ==
  [s EXCEPT !.device.pending = FALSE,
            !.device.mode = IF outcome = "OK" THEN @ ELSE "UNKNOWN",
            !.report.done = outcome]

ModeAfter(s) == CASE s.device.command = "ENTER"   -> "COMMAND"
                  [] s.device.command = "EXIT"    -> "TRANSPARENT"
                  [] s.device.command = "RESTART" -> "REBOOTING"
                  [] OTHER -> s.device.mode

\* "AT Ready" ends a pending command as failed, whatever it was.
OnReady(s) ==
  [(IF s.device.pending THEN Complete(s, "FAILED") ELSE s)
     EXCEPT !.device.mode = "TRANSPARENT", !.report.ready = TRUE]

\* A reply is for the pending command; its data count if they are of its kind.
OnReply(s, l) ==
  CASE ~s.device.pending                       -> s
    [] s.device.pending /\ l.answer = "ERROR"  -> Complete(s, "FAILED")
    [] OTHER ->
         [Complete([s EXCEPT !.device.mode = ModeAfter(s)], "OK")
            EXCEPT !.report.full = l.full /\ l.command = s.device.command,
                   !.report.id   = IF l.full /\ l.command = s.device.command
                                     THEN l.id ELSE NoId]

OnLine(s, l) == IF l.answer = "READY" THEN OnReady(s) ELSE OnReply(s, l)

-----------------------------------------------------------------------------
(* The service's transitions (remote_modem_service.c).                     *)

QuietStart(s, target) ==
  [SessionReset(s) EXCEPT !.stage = "QUIET", !.target = target, !.pending = FALSE]

\* The request has failed; one recovery, with a time of its own, then FAULT.
Fail(s) ==
  LET f == [s EXCEPT !.pending = FALSE, !.result = IF @ = "RUNNING" THEN "FAILED" ELSE @]
  IN  IF s.attempted
        THEN [SessionReset(f) EXCEPT !.stage = "FAULT"]
        ELSE QuietStart([f EXCEPT !.attempted = TRUE, !.flow_age = 0], "RECOVER")

\* Instead: each boot is given the time of a whole flow.
BootWaitAfresh(s) ==
  [SessionReset(s) EXCEPT !.stage = "BOOT_WAIT", !.step = 1, !.pending = FALSE, !.flow_age = 0]

BootWait(s) ==
  [SessionReset(s) EXCEPT !.stage = "BOOT_WAIT", !.step = 1, !.pending = FALSE]

\* Instead: any id that can be read back will do.
QueryMissingAnyId(s, r) ==
  s.stage = "STARTUP_READ" /\ ReadCommands[s.step] \in Queries /\ ~r.full

\* A query was answered by OK alone, or a configured module has another id.
QueryMissing(s, r) ==
  /\ s.stage = "STARTUP_READ"
  /\ \/ ReadCommands[s.step] \in {"SIM_QUERY", "CONNECTION_QUERY"} /\ ~r.full
     \/ /\ ReadCommands[s.step] = "REGISTRATION_QUERY" /\ s.result = "RUNNING"
        /\ ~r.full \/ r.id # s.requested

\* The pending command ended with OK: the next step, or the next stage.
Advance(s) ==
  CASE s.stage = "STARTUP_READ" /\ s.step < Len(ReadCommands)   -> [s EXCEPT !.step = @ + 1]
    [] s.stage = "STARTUP_READ" /\ s.step >= Len(ReadCommands)   ->
         [s EXCEPT !.step = @ + 1, !.stage = "NORMAL", !.attempted = FALSE,
                   !.result = IF @ = "RUNNING" THEN "SUCCEEDED" ELSE @]
    [] s.stage = "WRITE_CONFIG" /\ s.step < Len(ConfigCommands) -> [s EXCEPT !.step = @ + 1]
    [] s.stage = "WRITE_CONFIG" /\ s.step = Len(ConfigCommands) ->
         [s EXCEPT !.step = @ + 1, !.stage = "RESTART_WAIT"]
    [] s.stage = "RECOVER_ENTER" -> [s EXCEPT !.stage = "RECOVER_EXIT"]
    [] s.stage = "RECOVER_EXIT"  -> QuietStart(s, "READ")

CommandOf(s) == CASE s.stage = "WRITE_CONFIG"  -> ConfigCommands[s.step]
                  [] s.stage = "STARTUP_READ"  -> ReadCommands[s.step]
                  [] s.stage = "RECOVER_ENTER" -> "ENTER"
                  [] s.stage = "RECOVER_EXIT"  -> "EXIT"

ConfigStart(s, id) ==
  IF Settled(s.stage)
    THEN QuietStart([s EXCEPT !.requested = id, !.result = "RUNNING", !.step = 1,
                              !.attempted = FALSE, !.flow_age = 0], "WRITE")
    ELSE s
-----------------------------------------------------------------------------
(* The UART.                                                               *)

Replies(seq)  == {i \in DOMAIN seq : seq[i].answer # "READY"}

\* No answer to an earlier command is still to come.
Drained == inbox = <<>> /\ Replies(line) = {}

\* The service waits long enough for that, but for the waits of LateWaits.
Waited(wait) == wait \in LateWaits \/ Drained

\* A command leaves; `own` marks, for the properties only, the answers it gets.
Transmit(s) ==
  /\ inbox' = Append([i \in DOMAIN inbox |-> [inbox[i] EXCEPT !.own = FALSE]],
                     [command |-> CommandOf(s), id |-> s.requested, own |-> TRUE])
  /\ line' = [i \in DOMAIN line |-> [line[i] EXCEPT !.own = i \notin Replies(line)]]

\* The line holds what it held.
KeepUart == UNCHANGED <<inbox, line>>

-----------------------------------------------------------------------------
(* The owner task.                                                         *)

\* A request is taken from the slot and started; data may fail to be sent.
CommandTake ==
  /\ owner_pc = "COMMAND" /\ queue # <<>>
  /\ queue' = <<>> /\ owner_pc' = "RELEASE"
  /\ IF Head(queue).type = "CONFIG"
       THEN remote' = ConfigStart(remote, Head(queue).id)
       ELSE \/ remote' = remote
            \/ remote.stage = "NORMAL" /\ remote' = Fail(remote)
  /\ UNCHANGED <<reserved, snapshot, clients, moduleVars, inbox, line>>

\* remote_publish(1).
CommandRelease ==
  /\ owner_pc = "RELEASE" /\ owner_pc' = "POLL"
  /\ reserved' = FALSE /\ snapshot' = remote.stage
  /\ UNCHANGED <<remote, queue, clients, moduleVars, inbox, line>>

\* There is no command, or this pass has had its one.
PollBegins == owner_pc = "POLL" \/ (owner_pc = "COMMAND" /\ queue = <<>>)

\* e27_d_tick; a pending command may be out of time, or end by a garbled line.
PollTick ==
  /\ PollBegins /\ owner_pc' = "READ"
  /\ \/ remote' = remote
     \/ remote.device.pending /\ remote' = Complete(remote, "FAILED")
  /\ UNCHANGED <<slotVars, moduleVars, inbox, line>>

\* plat_uart_read gives some of the lines that have come in, one after the other.
PollLine ==
  /\ owner_pc = "READ" /\ line # <<>>
  /\ remote' = OnLine(remote, Head(line)) /\ line' = Tail(line)
  /\ UNCHANGED <<owner_pc, slotVars, moduleVars, inbox>>

\* plat_uart_read has lost bytes and gives none: the flow fails, a fault stays.
PollLost ==
  /\ PollBegins /\ owner_pc' = "PUBLISH" /\ line' = <<>>
  /\ remote' = IF remote.stage = "FAULT"
                 THEN [remote EXCEPT !.device.mode = "UNKNOWN"] ELSE Fail(remote)
  /\ UNCHANGED <<slotVars, moduleVars, inbox>>

-----------------------------------------------------------------------------
(* The rest of remote_modem_service_poll, with the report of this poll.    *)

Report == remote.report
Polled == [remote EXCEPT !.report.done = "NO", !.report.ready = FALSE]

CompletionFails ==
  /\ remote.pending /\ Report.done # "NO"
  /\ Report.done = "FAILED" \/ QueryMissing(remote, Report)

Completion == IF remote.pending /\ Report.done = "OK"
                THEN Advance([Polled EXCEPT !.pending = FALSE]) ELSE Polled

\* What a boot notification means where the service is.
ReadyRestarts(s) == Settled(s.stage)
ReadyExpected(s) == \/ s.stage \in {"RESTART_WAIT", "BOOT_WAIT"}
                    \/ s.stage = "QUIET" /\ s.target = "READ"
ReadyBreaks(s)   == \/ s.stage \in {"STARTUP_READ", "WRITE_CONFIG"}
                    \/ s.stage = "QUIET" /\ s.target = "WRITE"

AfterReady(s) ==
  CASE ReadyRestarts(s) -> BootWait([s EXCEPT !.flow_age = 0, !.attempted = FALSE])
    [] ReadyExpected(s) -> BootWait(s)
    [] OTHER            -> s

\* The state after completion and notification, if these did not fail.
Notified == IF Report.ready THEN AfterReady(Completion) ELSE Completion

\* Nothing happened in this poll that would restart a timer.
Undisturbed == ~Report.ready /\ Notified = Polled

Serve(s) == owner_pc = "READ" /\ owner_pc' = "PUBLISH" /\ remote' = s
            /\ UNCHANGED <<slotVars, moduleVars>>

\* A command failed; if a boot is why, the boot is what to go on from.
ServeFailure ==
  /\ CompletionFails
  /\ Serve(IF Report.ready THEN BootWait(Fail(Polled)) ELSE Fail(Polled))
  /\ KeepUart

\* The module has rebooted in the middle of a flow.
ServeReboot ==
  /\ ~CompletionFails /\ Report.ready /\ ReadyBreaks(Completion)
  /\ Serve(Fail(Completion)) /\ KeepUart

ServeGoesOn == ~CompletionFails /\ ~(Report.ready /\ ReadyBreaks(Completion))

ServeSettled == ServeGoesOn /\ Settled(Notified.stage) /\ Serve(Notified) /\ KeepUart

InFlow == ServeGoesOn /\ ~Settled(Notified.stage) /\ Notified.flow_age < FlowLimit

FlowTimeout ==
  /\ ServeGoesOn /\ ~Settled(Notified.stage) /\ Notified.flow_age = FlowLimit
  /\ Serve(Fail(Notified)) /\ KeepUart

BootSettles ==
  /\ InFlow /\ Undisturbed /\ Notified.stage = "BOOT_WAIT" /\ Waited("BOOT")
  /\ Serve(QuietStart(Notified, "READ")) /\ KeepUart

\* No boot after a restart, or no silence before a recovery.
StageTimesOut ==
  /\ InFlow
  /\ \/ Notified.stage = "RESTART_WAIT" /\ Undisturbed
     \/ Notified.stage = "QUIET" /\ Notified.target = "RECOVER" /\ Notified = Polled
  /\ Serve(Fail(Notified)) /\ KeepUart

\* The next command is sent; the driver refuses one outside command mode, and the
\* UART may fail, with the command lost or not.
StepSend(s) ==
  \/ /\ CommandOf(s) = "ENTER" \/ s.device.mode = "COMMAND"
     /\ \/ Serve([s EXCEPT !.pending = TRUE, !.report = NoReport,
                            !.device.pending = TRUE, !.device.command = CommandOf(s)])
        \/ Serve(Fail(s))
     /\ Transmit(s)
  \/ Serve(Fail(s)) /\ KeepUart

Sends(s) == s.stage \in CommandStages /\ ~s.pending

\* Instead: 100 ms also before a recovery.
QuietWaitShort(s) == s.target = "RECOVER" \/ Waited(s.target)

QuietWait(s) == Waited(s.target)

\* The silence is over: the stage that it was for, and its first command.
QuietEnds ==
  /\ InFlow /\ Undisturbed /\ Notified.stage = "QUIET" /\ QuietWait(Notified)
  /\ StepSend([SessionReset(Notified) EXCEPT !.step = 1,
                 !.stage = CASE Notified.target = "WRITE" -> "WRITE_CONFIG"
                             [] Notified.target = "READ"  -> "STARTUP_READ"
                             [] OTHER                     -> "RECOVER_ENTER"])

NextCommand == InFlow /\ Sends(Notified) /\ StepSend(Notified)

\* No timer is due and no command is to be sent.
Waits == InFlow /\ ~Sends(Notified) /\ Serve(Notified) /\ KeepUart

\* remote_publish(0).
Publish ==
  /\ owner_pc = "PUBLISH" /\ owner_pc' = "COMMAND" /\ snapshot' = remote.stage
  /\ UNCHANGED <<remote, reserved, queue, clients, moduleVars, inbox, line>>
-----------------------------------------------------------------------------
(* The other tasks (remote_request_submit), and the clock.                 *)

\* Instead: the snapshot alone decides.
SubmitUnreserved(c) ==
  /\ clients[c] = Idle
  /\ \E r \in Requests :
       /\ snapshot \in (IF r.type = "CONFIG" THEN {"NORMAL", "FAULT"} ELSE {"NORMAL"})
       /\ clients' = [clients EXCEPT ![c] = r]
  /\ reserved' = TRUE
  /\ UNCHANGED <<remote, owner_pc, snapshot, queue, moduleVars, inbox, line>>

\* A request is accepted if the slot is free and the service is settled; data, only
\* in normal mode.
Submit(c) ==
  /\ clients[c] = Idle /\ ~reserved
  /\ \E r \in Requests :
       /\ snapshot \in (IF r.type = "CONFIG" THEN {"NORMAL", "FAULT"} ELSE {"NORMAL"})
       /\ clients' = [clients EXCEPT ![c] = r]
  /\ reserved' = TRUE
  /\ UNCHANGED <<remote, owner_pc, snapshot, queue, moduleVars, inbox, line>>

\* It is queued behind the critical section; a full queue would give it back.
Enqueue(c) ==
  /\ clients[c] # Idle /\ clients' = [clients EXCEPT ![c] = Idle]
  /\ IF queue = <<>> THEN queue' = <<clients[c]>> /\ UNCHANGED reserved
                     ELSE reserved' = FALSE /\ UNCHANGED queue
  /\ UNCHANGED <<remote, owner_pc, snapshot, moduleVars, inbox, line>>

\* The flow's time passes; FlowLimit stands for any time from the limit on.
Tick == /\ ~Settled(remote.stage) /\ remote.flow_age < FlowLimit
        /\ remote' = [remote EXCEPT !.flow_age = @ + 1]
        /\ UNCHANGED <<owner_pc, slotVars, moduleVars, inbox, line>>

-----------------------------------------------------------------------------
(* The module, as the code expects it.                                     *)

Answer(c, answer) == [answer |-> answer, command |-> c.command, own |-> c.own,
                      full |-> FALSE, id |-> NoId]
Ready == [answer |-> "READY", command |-> "NONE", own |-> TRUE, full |-> FALSE, id |-> NoId]

\* What it tells of itself, if it does.
Told(c) == {Answer(c, "OK")} \cup
           (IF c.command \in Queries
              THEN {[Answer(c, "OK") EXCEPT !.full = TRUE, !.id = IF c.command = "REGISTRATION_QUERY"
                                                                     THEN m_id ELSE NoId]}
              ELSE {})

\* A command takes effect and is answered, or its answer is lost.
ModuleObeys ==
  /\ inbox # <<>> /\ inbox' = Tail(inbox)
  /\ LET c == Head(inbox) IN
     /\ m_mode \in (IF c.command = "ENTER" THEN {"COMMAND", "TRANSPARENT"} ELSE {"COMMAND"})
     /\ m_mode' = CASE c.command = "EXIT"    -> "TRANSPARENT"
                    [] c.command = "RESTART" -> "BOOT"
                    [] OTHER                 -> "COMMAND"
     /\ m_saved' = IF c.command = "SAVE" THEN m_id ELSE m_saved
     /\ m_id' = CASE c.command = "REGISTRATION_SET" -> c.id
                  [] c.command = "RESTART"          -> m_saved
                  [] OTHER                          -> m_id
     /\ \/ line' = line
        \/ Len(line) < LineLimit /\ \E a \in Told(c) : line' = Append(line, a)
  /\ UNCHANGED <<remote, owner_pc, slotVars>>

\* It refuses a command, or says OK to a setting that it does not keep.
ModuleRefuses ==
  /\ inbox # <<>> /\ inbox' = Tail(inbox)
  /\ m_mode = "COMMAND" /\ Len(line) < LineLimit
  /\ \/ line' = Append(line, Answer(Head(inbox), "ERROR"))
     \/ /\ Head(inbox).command \in {"REGISTRATION_SET", "SAVE"}
        /\ line' = Append(line, Answer(Head(inbox), "OK"))
  /\ UNCHANGED <<remote, owner_pc, slotVars, moduleVars>>

\* A command is lost, taken for data, or comes while the module boots.
ModuleMisses == /\ inbox # <<>> /\ inbox' = Tail(inbox)
                /\ UNCHANGED <<remote, owner_pc, slotVars, moduleVars, line>>

\* A reboot of its own.
ModuleReboots == /\ m_mode' = "BOOT" /\ m_id' = m_saved /\ inbox' = <<>>
                 /\ UNCHANGED <<remote, owner_pc, slotVars, m_saved, line>>

\* It is up; its notification may be lost.
ModuleUp ==
  /\ m_mode = "BOOT" /\ m_mode' = "TRANSPARENT"
  /\ \/ line' = line
     \/ Len(line) < LineLimit /\ line' = Append(line, Ready)
  /\ UNCHANGED <<remote, owner_pc, slotVars, m_id, m_saved, inbox>>

-----------------------------------------------------------------------------
\* The owner has initialised the service and published it.
Init ==
  /\ remote = [stage |-> "BOOT_WAIT", step |-> 1, target |-> "READ", pending |-> FALSE,
               attempted |-> FALSE, result |-> "NONE", requested |-> NoId, flow_age |-> 0,
               device |-> FreshDevice, report |-> NoReport]
  /\ owner_pc = "COMMAND" /\ reserved = FALSE /\ snapshot = "BOOT_WAIT"
  /\ queue = <<>> /\ clients = [c \in Clients |-> Idle]
  /\ m_mode \in {"BOOT", "TRANSPARENT", "COMMAND"}
  /\ m_saved \in Ids \cup {NoId} /\ m_id \in Ids \cup {NoId}
  /\ inbox = <<>> /\ line = <<>>

ServePasses == \/ ServeFailure \/ ServeReboot \/ ServeSettled \/ FlowTimeout
               \/ BootSettles \/ StageTimesOut \/ QuietEnds \/ NextCommand \/ Waits

\* What moves the owner on: all but reading one line more.
OwnerMoves == \/ CommandTake \/ CommandRelease \/ PollTick \/ PollLost
              \/ ServePasses \/ Publish

ModuleNext == ModuleObeys \/ ModuleRefuses \/ ModuleMisses \/ ModuleReboots \/ ModuleUp

Next == \/ OwnerMoves \/ PollLine \/ Tick \/ ModuleNext
        \/ \E c \in Clients : Submit(c) \/ Enqueue(c)

Spec == Init /\ [][Next]_vars

\* The owner task gets its turns, a read gives at most what the buffer holds, and
\* time passes.  The module owes nothing, and nobody has to ask for anything.
FairSpec == Spec /\ WF_vars(OwnerMoves) /\ WF_vars(Tick)

-----------------------------------------------------------------------------
(* Properties.                                                             *)

Devices == [mode : {"UNKNOWN", "TRANSPARENT", "COMMAND", "REBOOTING"},
            pending : BOOLEAN, command : AtCommands \cup {"NONE"}]
Reports == [done : {"NO", "OK", "FAILED"}, ready : BOOLEAN, full : BOOLEAN, id : Ids \cup {NoId}]
Services ==
  [stage : Stages, step : 1 .. Len(ConfigCommands) + 1, target : {"WRITE", "READ", "RECOVER"},
   pending : BOOLEAN, attempted : BOOLEAN,
   result : {"NONE", "RUNNING", "SUCCEEDED", "FAILED"}, requested : Ids \cup {NoId},
   flow_age : 0 .. FlowLimit, device : Devices, report : Reports]
Sent == [command : AtCommands, id : Ids \cup {NoId}, own : BOOLEAN]
Outcomes == [answer : {"OK", "ERROR", "READY"}, command : AtCommands \cup {"NONE"},
             own : BOOLEAN, full : BOOLEAN, id : Ids \cup {NoId}]

\* Every variable has its type; a flow's time stays in its bound and a step in its table.
TypeOK ==
  /\ remote \in Services
  /\ owner_pc \in {"COMMAND", "RELEASE", "POLL", "READ", "PUBLISH"}
  /\ reserved \in BOOLEAN /\ snapshot \in Stages
  /\ Len(queue) <= 1 /\ \A i \in DOMAIN queue : queue[i] \in Requests
  /\ clients \in [Clients -> Requests \cup {Idle}]
  /\ m_mode \in {"BOOT", "TRANSPARENT", "COMMAND"}
  /\ m_id \in Ids \cup {NoId} /\ m_saved \in Ids \cup {NoId}
  /\ \A i \in DOMAIN inbox : inbox[i] \in Sent
  /\ Len(line) <= LineLimit /\ \A i \in DOMAIN line : line[i] \in Outcomes

\* The slot is reserved exactly as long as one request is between its acceptance and
\* its release: a reservation is never lost, and no request finds the queue full
\* (remote_modem_app.c:372-400).
SlotAccounted ==
  LET underWay == Cardinality({c \in Clients : clients[c] # Idle}) + Len(queue)
                  + (IF owner_pc = "RELEASE" THEN 1 ELSE 0)
  IN  underWay = (IF reserved THEN 1 ELSE 0)

\* In normal mode data reach the server: the driver knows the module to be
\* transparent, the module is not in command mode, and no command is under way
\* (remote_modem_service.c:276, bsp_remote_modem.c:346).
NormalIsTransparent ==
  remote.stage = "NORMAL" =>
    /\ ~remote.pending /\ ~remote.device.pending /\ remote.device.mode = "TRANSPARENT"
    /\ m_mode # "COMMAND" /\ inbox = <<>>

\* While a command is pending, every answer still to come is its own: a late one is
\* never credited to a later command (06_Component/ExternalChip/E27_D/README.md:53).
OwnReply ==
  remote.device.pending =>
    /\ \A i \in DOMAIN inbox : inbox[i].own
    /\ \A i \in DOMAIN line : line[i].own

\* A configuration request ends once, as failed, or as succeeded with the module
\* holding the requested id in its flash (remote_modem_service.c:84, 221, 280).
Request == INSTANCE ConfigRequest
             WITH result <- remote.result, requested <- remote.requested, stored <- m_saved
ImplementsConfigRequest == Request!Spec

\* A flow is over, or this poll will find it so and may begin another at once: a
\* reboot may be reported together with the answer to the last command.
FlowOver == \/ Settled(remote.stage)
            \/ /\ owner_pc = "READ" /\ remote.stage = "STARTUP_READ"
               /\ remote.step = Len(ReadCommands) /\ remote.report.done = "OK"

\* Every flow ends, in normal mode or in the latched fault, whatever the module does:
\* one recovery, and no reboot buys more time (remote_modem_service.c:88, 418, 463).
FlowEnds == (~Settled(remote.stage)) ~> FlowOver
=============================================================================

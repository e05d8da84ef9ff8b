---------------------- MODULE VoicePresentation_proofs ----------------------
(***************************************************************************)
(* Proofs about the caption and the LEDs of a spoken text: what the player *)
(* and the timer task leave behind once both are at rest, with every       *)
(* fault, any modulus of the round counter and any length of the queue.    *)
(***************************************************************************)
EXTENDS VoicePresentation, SequenceTheorems, TLAPS

-----------------------------------------------------------------------------
(* The inductive invariant.                                                *)

\* What the scan timer will be once the timer task has handled all commands.
WillRun == IF timer_queue = <<>> THEN timer ELSE timer_queue[Len(timer_queue)] = "START"

\* The timer task has put the caption off and is about to report it.
Reporting == timer_pc \in {"GIVE_NOTIFY", "STOP_TIMER", "NOTIFY", "FINISHED"}

QueueTyped ==
  /\ timer_queue \in Seq({"START", "STOP"}) /\ timer \in BOOLEAN
  /\ timer_pc \in TimerSteps

\* A visible caption is scanned, by a presentation that is not over.
ShownIsKept ==
  visible => /\ active /\ WillRun /\ presentation # "IDLE"
             /\ ~Reporting /\ player_pc # "HIDE_LOCK"

\* What is left of a caption that is not visible is about to be stopped.
HiddenIsStopped ==
  ~visible => /\ active => player_pc = "HIDE_LOCK"
              /\ WillRun => timer_pc \in {"GIVE_NOTIFY", "STOP_TIMER"}

\* LEDs that outlive their presentation are about to be stopped.
BlinkIsStopped ==
  led_active /\ presentation = "IDLE"
    => player_pc = "HIDE_LOCK" \/ timer_pc = "LED_RED_OFF"

\* Both pins are on only between the two writes of a callback, whose second
\* write puts one of them off.
OnePin ==
  /\ red_is_on \in BOOLEAN
  /\ red /\ blue => timer_pc = "TOGGLE_BLUE"
  /\ timer_pc = "TOGGLE_BLUE" /\ red => red_is_on

\* LEDs of an ended presentation are dark, about to be put off, or were stopped under
\* a callback that still has its writes to make.
DarkOrOvertaken ==
  presentation = "IDLE"
    => \/ player_pc = "HIDE_LOCK" \/ timer_pc = "LED_RED_OFF" \/ overtaken
       \/ timer_pc = "LED_BLUE_OFF" /\ ~red
       \/ ~Toggling /\ ~red /\ ~blue

CaptionPart == QueueTyped /\ ShownIsKept /\ HiddenIsStopped
LedPart     == BlinkIsStopped /\ OnePin /\ DarkOrOvertaken

RestInv == CaptionPart /\ LedPart

-----------------------------------------------------------------------------
(* The command queue of the scan timer.                                    *)

LEMMA PostStop ==
  ASSUME QueueTyped, Post(<<"STOP">>)
  PROVE  timer_queue' \in Seq({"START", "STOP"}) /\ timer' \in BOOLEAN /\ ~WillRun'
<1>1. timer_queue' = Append(timer_queue, "STOP")
  BY DEF Post, QueueTyped
<1>2. /\ timer_queue' \in Seq({"START", "STOP"}) /\ timer_queue' # <<>>
      /\ timer_queue'[Len(timer_queue')] = "STOP"
  BY <1>1 DEF QueueTyped
<1> QED  BY <1>2 DEF WillRun, Post, QueueTyped

LEMMA PostShow ==
  ASSUME QueueTyped, Post(ShowCommands)
  PROVE  timer_queue' \in Seq({"START", "STOP"}) /\ timer' \in BOOLEAN /\ WillRun'
<1>1. /\ Hides \in Seq({"START", "STOP"}) /\ ShowCommands = Append(Hides, "START")
      /\ timer_queue' = timer_queue \o ShowCommands
  <2>1. Hides \in {<<>>, <<"STOP">>}
    BY DEF Hides
  <2>2. Hides \in Seq({"START", "STOP"})
    <3>1. CASE Hides = <<>>
      BY <3>1
    <3>2. CASE Hides = <<"STOP">>
      BY <3>2
    <3> QED  BY <2>1, <3>1, <3>2
  <2> QED  BY <2>1, <2>2 DEF ShowCommands, Post
<1>2. PICK q \in Seq({"START", "STOP"}) : timer_queue' = Append(q, "START")
  <2>1. /\ timer_queue \o Hides \in Seq({"START", "STOP"})
        /\ timer_queue' = Append(timer_queue \o Hides, "START")
    BY <1>1 DEF QueueTyped
  <2> QED  BY <2>1
<1>3. /\ timer_queue' \in Seq({"START", "STOP"}) /\ timer_queue' # <<>>
      /\ timer_queue'[Len(timer_queue')] = "START"
  BY <1>2
<1> QED  BY <1>3 DEF WillRun, Post, QueueTyped

LEMMA TailLast ==
  ASSUME NEW S, NEW q \in Seq(S), q # <<>>, Tail(q) # <<>>
  PROVE  Tail(q)[Len(Tail(q))] = q[Len(q)]
<1> DEFINE n == Len(q) - 1
<1>1. Tail(q) \in Seq(S) /\ n = Len(Tail(q))
  BY HeadTailProperties
<1>3. n \in Nat /\ n # 0
  BY <1>1, EmptySeq
<1>2. n \in 1 .. Len(Tail(q))
  BY <1>1, <1>3
<1> QED  BY <1>1, <1>2

LEMMA TailEmpty ==
  ASSUME NEW S, NEW q \in Seq(S), q # <<>>, Tail(q) = <<>>
  PROVE  Head(q) = q[Len(q)]
<1>1. Len(q) = 1
  <2>1. Len(Tail(q)) = Len(q) - 1 /\ Len(Tail(q)) = 0 /\ Len(q) \in Nat
    BY HeadTailProperties, EmptySeq
  <2> QED  BY <2>1
<1> QED  BY <1>1

\* Handling a command brings the timer to where the queue says, and no further.
LEMMA CommandKeepsWill ==
  ASSUME QueueTyped, TimerCommand
  PROVE  QueueTyped' /\ WillRun' = WillRun
<1> DEFINE last == timer_queue[Len(timer_queue)]
<1>1. /\ timer_queue \in Seq({"START", "STOP"}) /\ timer_queue # <<>>
      /\ timer' = (Head(timer_queue) = "START") /\ timer_queue' = Tail(timer_queue)
      /\ timer_pc' = timer_pc
  BY DEF TimerCommand, QueueTyped
<1>2. timer_queue' \in Seq({"START", "STOP"})
  BY <1>1
<1>3. WillRun = (last = "START")
  BY <1>1 DEF WillRun
<1>4. WillRun' = (last = "START")
  <2>1. CASE timer_queue' = <<>>
    <3>1. Head(timer_queue) = last
      BY <1>1, <2>1, TailEmpty
    <3> QED  BY <1>1, <2>1, <3>1 DEF WillRun
  <2>2. CASE timer_queue' # <<>>
    <3>1. timer_queue'[Len(timer_queue')] = last
      BY <1>1, <2>2, TailLast
    <3> QED  BY <2>2, <3>1 DEF WillRun
  <2> QED  BY <2>1, <2>2
<1>5. QueueTyped'
  BY <1>1, <1>2 DEF QueueTyped
<1> QED  BY <1>3, <1>4, <1>5

LEMMA UnpostedKeepsWill ==
  ASSUME UNCHANGED timerVars
  PROVE  WillRun' = WillRun
  BY DEF timerVars, WillRun

-----------------------------------------------------------------------------
(* The steps that put the caption off.                                     *)

\* hide and the LEDs' stop with the mutex free, from wherever they are called.
LEMMA HideKeeps ==
  ASSUME RestInv, HideAll, UNCHANGED timer_pc
  PROVE  RestInv'
<1>1. ~WillRun' /\ QueueTyped'
  BY PostStop DEF RestInv, CaptionPart, HideAll, QueueTyped
<1>2. CaptionPart'
  BY <1>1 DEF CaptionPart, ShownIsKept, HiddenIsStopped, HideAll, HideBegin, ServiceStop
<1>3. LedPart'
  BY DEF RestInv, LedPart, BlinkIsStopped, OnePin, DarkOrOvertaken, Toggling,
         HideAll, LedStop
<1> QED  BY <1>2, <1>3 DEF RestInv

\* A step that does not touch the display.
LEMMA CaptionUntouched ==
  ASSUME CaptionPart, UNCHANGED <<hubVars, serviceVars, timerVars>>,
         timer_pc' \in TimerSteps,
         visible => presentation' # "IDLE" /\ ~Reporting' /\ player_pc' # "HIDE_LOCK",
         active /\ ~visible => player_pc' = "HIDE_LOCK",
         ~visible /\ timer_pc \in {"GIVE_NOTIFY", "STOP_TIMER"}
           => timer_pc' \in {"GIVE_NOTIFY", "STOP_TIMER"}
  PROVE  CaptionPart'
<1>1. WillRun' = WillRun
  BY UnpostedKeepsWill
<1>2. QueueTyped' /\ visible' = visible /\ active' = active
  BY DEF CaptionPart, QueueTyped, hubVars, serviceVars, timerVars
<1> QED  BY <1>1, <1>2 DEF CaptionPart, ShownIsKept, HiddenIsStopped

-----------------------------------------------------------------------------
(* The player.                                                             *)

LEMMA VoiceStartKeeps ==
  ASSUME RestInv, VoiceStart
  PROVE  RestInv'
<1>1. timer_pc = "IDLE" /\ timer_pc' = "IDLE" /\ player_pc = "WAIT" /\ player_pc' = "WAIT"
  BY DEF VoiceStart, RequestMayCome, TimerIdle
<1>2. CASE /\ presentation' = "ACTIVE" /\ visible' = TRUE /\ active' = TRUE
           /\ Post(ShowCommands)
           /\ led_active' = TRUE /\ red_is_on' = TRUE /\ red' = TRUE /\ blue' = FALSE
           /\ overtaken' = FALSE
  <2>1. WillRun' /\ QueueTyped'
    BY <1>1, <1>2, PostShow DEF RestInv, CaptionPart, QueueTyped
  <2>2. CaptionPart'
    BY <1>1, <1>2, <2>1 DEF CaptionPart, ShownIsKept, HiddenIsStopped, Reporting
  <2>3. LedPart'
    BY <1>1, <1>2 DEF LedPart, BlinkIsStopped, OnePin, DarkOrOvertaken, Toggling
  <2> QED  BY <2>2, <2>3 DEF RestInv
<1>3. CASE /\ presentation' = "IDLE"
           /\ IF presentation # "IDLE" \/ visible
              THEN HideBegin /\ Post(<<"STOP">>) /\ ServiceStop
              ELSE UNCHANGED <<hubVars, serviceVars, timerVars>>
           /\ IF presentation # "IDLE" THEN LedStop ELSE UNCHANGED ledVars
  <2>1. CaptionPart'
    <3>1. CASE presentation # "IDLE" \/ visible
      <4>1. ~WillRun' /\ QueueTyped'
        BY <1>1, <1>3, <3>1, PostStop DEF RestInv, CaptionPart, QueueTyped
      <4> QED
        BY <1>3, <3>1, <4>1
        DEF CaptionPart, ShownIsKept, HiddenIsStopped, HideBegin, ServiceStop
    <3>2. CASE presentation = "IDLE" /\ ~visible
      <4>1. UNCHANGED <<hubVars, serviceVars, timerVars>>
        BY <1>3, <3>2
      <4>2. ~active
        BY <1>1, <3>2 DEF RestInv, CaptionPart, HiddenIsStopped
      <4> QED
        BY <1>1, <3>2, <4>1, <4>2, CaptionUntouched DEF RestInv, TimerSteps
    <3> QED  BY <3>1, <3>2
  <2>2. LedPart'
    <3>1. CASE presentation # "IDLE"
      BY <1>1, <1>3, <3>1
      DEF RestInv, LedPart, BlinkIsStopped, OnePin, DarkOrOvertaken, Toggling, LedStop
    <3>2. CASE presentation = "IDLE"
      BY <1>1, <1>3, <3>2
      DEF RestInv, LedPart, BlinkIsStopped, OnePin, DarkOrOvertaken, Toggling, ledVars
    <3> QED  BY <3>1, <3>2
  <2> QED  BY <2>1, <2>2 DEF RestInv
<1> QED  BY <1>2, <1>3 DEF VoiceStart

\* Steps of the player's pass that change at most the voice and where it is.
LEMMA PlayerMoves ==
  ASSUME RestInv, player_pc # "HIDE_LOCK", player_pc' # "HIDE_LOCK",
         UNCHANGED <<presentation, hubVars, serviceVars, timerVars, ledVars, timer_pc>>
  PROVE  RestInv'
<1>1. ~visible => ~active
  BY DEF RestInv, CaptionPart, HiddenIsStopped
<1>2. CaptionPart'
  BY <1>1, CaptionUntouched DEF RestInv, CaptionPart, QueueTyped, ShownIsKept, Reporting
<1>3. LedPart'
  BY DEF RestInv, LedPart, BlinkIsStopped, OnePin, DarkOrOvertaken, Toggling, ledVars
<1> QED  BY <1>2, <1>3 DEF RestInv

LEMMA VoiceEndedKeeps ==
  ASSUME RestInv, VoiceEnded
  PROVE  RestInv'
<1>1. /\ player_pc = "VOICE" /\ UNCHANGED <<hubVars, serviceVars, timerVars, timer_pc>>
      /\ player_pc' \in {"PROCESS", "FINISH_LOCK"}
  BY DEF VoiceEnded
<1>2. ~visible => ~active
  BY <1>1 DEF RestInv, CaptionPart, HiddenIsStopped
<1>3. visible => presentation' # "IDLE"
  BY DEF VoiceEnded, RestInv, CaptionPart, ShownIsKept
<1>4. CaptionPart'
  BY <1>1, <1>2, <1>3, CaptionUntouched
  DEF RestInv, CaptionPart, QueueTyped, ShownIsKept, Reporting
<1>5. LedPart'
  <2>1. CASE LedStop
    BY <1>1, <2>1
    DEF RestInv, LedPart, BlinkIsStopped, OnePin, DarkOrOvertaken, Toggling, LedStop
  <2>2. CASE UNCHANGED ledVars /\ (presentation' = "IDLE" => presentation = "IDLE")
    BY <1>1, <2>2
    DEF RestInv, LedPart, BlinkIsStopped, OnePin, DarkOrOvertaken, Toggling, ledVars
  <2> QED  BY <2>1, <2>2 DEF VoiceEnded
<1> QED  BY <1>4, <1>5 DEF RestInv

LEMMA VoiceFailedKeeps ==
  ASSUME RestInv, VoiceFailed
  PROVE  RestInv'
<1>1. ~WillRun' /\ QueueTyped'
  BY PostStop DEF VoiceFailed, RestInv, CaptionPart, QueueTyped
<1>2. CaptionPart'
  BY <1>1 DEF VoiceFailed, CaptionPart, ShownIsKept, HiddenIsStopped, HideBegin
<1>3. LedPart'
  BY DEF VoiceFailed,
         RestInv, LedPart, BlinkIsStopped, OnePin, DarkOrOvertaken, Toggling, ledVars
<1> QED  BY <1>2, <1>3 DEF RestInv

LEMMA HideLockedKeeps ==
  ASSUME RestInv, HideLocked
  PROVE  RestInv'
<1>1. UNCHANGED <<presentation, hubVars, timerVars, timer_pc>> /\ ~active'
  BY DEF HideLocked, ServiceStop
<1>2. WillRun' = WillRun /\ QueueTyped'
  BY <1>1, UnpostedKeepsWill DEF RestInv, CaptionPart, QueueTyped, timerVars
<1>3. ~visible
  BY DEF HideLocked, RestInv, CaptionPart, ShownIsKept
<1>4. CaptionPart'
  BY <1>1, <1>2, <1>3
  DEF RestInv, CaptionPart, ShownIsKept, HiddenIsStopped, hubVars
<1>5. LedPart'
  BY <1>1
  DEF HideLocked, RestInv, LedPart, BlinkIsStopped, OnePin, DarkOrOvertaken, Toggling, LedStop
<1> QED  BY <1>4, <1>5 DEF RestInv

LEMMA PlayerKeeps ==
  ASSUME RestInv, PlayerStep
  PROVE  RestInv'
<1>1. CASE VoiceStart
  BY <1>1, VoiceStartKeeps
<1>2. CASE Abort
  BY <1>2, HideKeeps DEF Abort
<1>3. CASE Poll \/ VoiceQuiet \/ VoiceCut \/ Process
  BY <1>3, PlayerMoves DEF Poll, VoiceQuiet, VoiceCut, Process
<1>4. CASE VoiceEnded \/ VoiceFailed \/ HideLocked
  BY <1>4, VoiceEndedKeeps, VoiceFailedKeeps, HideLockedKeeps
<1>5. CASE FinishLocked
  <2>1. CASE HideAll
    BY <1>5, <2>1, HideKeeps DEF FinishLocked
  <2>2. CASE UNCHANGED <<presentation, visible, serviceVars, timerVars, ledVars>>
    <3>1. UNCHANGED timer_pc /\ player_pc = "FINISH_LOCK" /\ player_pc' = "PROCESS"
      BY <1>5 DEF FinishLocked
    <3>2. WillRun' = WillRun /\ QueueTyped'
      BY <2>2, <3>1, UnpostedKeepsWill DEF RestInv, CaptionPart, QueueTyped, timerVars
    <3>3. CaptionPart'
      BY <2>2, <3>1, <3>2
      DEF RestInv, CaptionPart, ShownIsKept, HiddenIsStopped, Reporting, serviceVars
    <3>4. LedPart'
      BY <2>2, <3>1
      DEF RestInv, LedPart, BlinkIsStopped, OnePin, DarkOrOvertaken, Toggling, ledVars
    <3> QED  BY <3>3, <3>4 DEF RestInv
  <2> QED  BY <1>5, <2>1, <2>2 DEF FinishLocked
<1>6. CASE ProcessLocked
  BY <1>6, HideKeeps, PlayerMoves DEF ProcessLocked
<1> QED
  BY <1>1, <1>2, <1>3, <1>4, <1>5, <1>6 DEF PlayerStep, PlayerPass

-----------------------------------------------------------------------------
(* The timer task.                                                         *)

\* A step that leaves the display as it is and the timer task elsewhere.
LEMMA TimerMoves ==
  ASSUME CaptionPart, UNCHANGED <<presentation, visible, active, timerVars, player_pc>>,
         timer_pc' \in TimerSteps,
         Reporting' => Reporting,
         timer_pc \in {"GIVE_NOTIFY", "STOP_TIMER"}
           => timer_pc' \in {"GIVE_NOTIFY", "STOP_TIMER"}
  PROVE  CaptionPart'
<1>1. WillRun' = WillRun /\ QueueTyped'
  BY UnpostedKeepsWill DEF CaptionPart, QueueTyped, timerVars
<1> QED  BY <1>1 DEF CaptionPart, ShownIsKept, HiddenIsStopped

LEMMA CommandKeeps ==
  ASSUME RestInv, TimerCommand
  PROVE  RestInv'
<1>1. WillRun' = WillRun /\ QueueTyped'
  BY CommandKeepsWill DEF RestInv, CaptionPart
<1>2. CaptionPart'
  BY <1>1
  DEF TimerCommand, RestInv, CaptionPart, ShownIsKept, HiddenIsStopped, Reporting, hubVars,
      serviceVars
<1>3. LedPart'
  BY DEF TimerCommand,
         RestInv, LedPart, BlinkIsStopped, OnePin, DarkOrOvertaken, Toggling, ledVars
<1> QED  BY <1>2, <1>3 DEF RestInv

\* The scan's end: the caption is put off with the service, the timer is due.
LEMMA PutOffKeeps ==
  ASSUME CaptionPart, timer_pc' = "GIVE_NOTIFY", ~visible', ServiceStop, UNCHANGED timerVars
  PROVE  CaptionPart'
<1>1. QueueTyped'
  BY DEF CaptionPart, QueueTyped, timerVars, TimerSteps
<1> QED  BY <1>1 DEF CaptionPart, ShownIsKept, HiddenIsStopped, ServiceStop

LEMMA HubKeepsCaption ==
  ASSUME RestInv, HubCallback
  PROVE  CaptionPart'
<1> USE DEF RestInv
<1>1. CASE HubTake \/ HubRefresh \/ HubGive
  BY <1>1, TimerMoves
  DEF HubTake, HubRefresh, HubGive, TimerGoesTo, TimerSteps, Reporting, hubVars, serviceVars
<1>2. CASE HubRefreshFails
  BY <1>2, PutOffKeeps DEF HubRefreshFails, TimerGoesTo
<1>3. CASE HubCheck
  <2>1. CASE visible' = FALSE /\ ServiceStop /\ TimerGoesTo("GIVE_NOTIFY")
    BY <1>3, <2>1, PutOffKeeps DEF HubCheck, TimerGoesTo
  <2>2. CASE TimerGoesTo("GIVE") /\ UNCHANGED <<hubVars, serviceVars>>
    BY <1>3, <2>2, TimerMoves
    DEF HubCheck, TimerGoesTo, TimerSteps, Reporting, hubVars, serviceVars
  <2> QED  BY <1>3, <2>1, <2>2 DEF HubCheck
<1>4. CASE HubStopTimer
  <2>1. ~WillRun' /\ QueueTyped'
    BY <1>4, PostStop DEF HubStopTimer, TimerGoesTo, CaptionPart, QueueTyped, TimerSteps
  <2>2. ~visible /\ UNCHANGED <<visible, active, player_pc>>
    BY <1>4
    DEF HubStopTimer, TimerGoesTo, CaptionPart, ShownIsKept, Reporting, hubVars, serviceVars
  <2> QED  BY <2>1, <2>2 DEF CaptionPart, ShownIsKept, HiddenIsStopped
<1>5. CASE HubNotify
  BY <1>5, TimerMoves DEF HubNotify, TimerGoesTo, TimerSteps, Reporting, serviceVars
<1>6. CASE HubFinished
  <2>1. /\ ~visible /\ timer_pc = "FINISHED" /\ timer_pc' \in {"LED_RED_OFF", "IDLE"}
        /\ UNCHANGED <<visible, active, timerVars, player_pc>>
    BY <1>6
    DEF HubFinished, TimerGoesTo, CaptionPart, ShownIsKept, Reporting, hubVars, serviceVars
  <2>2. WillRun' = WillRun /\ QueueTyped'
    BY <2>1, UnpostedKeepsWill DEF CaptionPart, QueueTyped, timerVars, TimerSteps
  <2> QED  BY <2>1, <2>2 DEF CaptionPart, ShownIsKept, HiddenIsStopped
<1>7. CASE LedsOffInTurn
  BY <1>7, TimerMoves
  DEF LedsOffInTurn, TimerGoesTo, TimerSteps, Reporting, hubVars, serviceVars
<1> QED  BY <1>1, <1>2, <1>3, <1>4, <1>5, <1>6, <1>7 DEF HubCallback

LEMMA HubKeepsLeds ==
  ASSUME RestInv, HubCallback
  PROVE  LedPart'
<1> USE DEF RestInv, LedPart, BlinkIsStopped, OnePin, DarkOrOvertaken, Toggling
<1>1. CASE HubTake \/ HubRefresh \/ HubRefreshFails \/ HubCheck \/ HubGive
  BY <1>1 DEF HubTake, HubRefresh, HubRefreshFails, HubCheck, HubGive, TimerGoesTo, ledVars
<1>2. CASE HubStopTimer \/ HubNotify \/ HubFinished
  BY <1>2 DEF HubStopTimer, HubNotify, HubFinished, TimerGoesTo, ledVars
<1>3. CASE LedsOffInTurn
  BY <1>3 DEF LedsOffInTurn, TimerGoesTo
<1> QED  BY <1>1, <1>2, <1>3 DEF HubCallback

LEMMA ExpiryKeeps ==
  ASSUME RestInv, HubExpires \/ LedExpires \/ LedToggle
  PROVE  RestInv'
<1>1. CaptionPart'
  BY TimerMoves
  DEF HubExpires, LedExpires, LedToggle, TimerGoesTo, TimerSteps, Reporting, RestInv, hubVars,
      serviceVars
<1>2. LedPart'
  <2> USE DEF RestInv, LedPart, BlinkIsStopped, OnePin, DarkOrOvertaken, Toggling
  <2>1. CASE HubExpires
    BY <2>1 DEF HubExpires, TimerGoesTo, ledVars
  <2>2. CASE LedExpires
    BY <2>2 DEF LedExpires, TimerGoesTo
  <2>3. CASE LedToggle
    <3>1. CASE timer_pc = "TOGGLE_RED"
      <4>1. /\ timer_pc' = "TOGGLE_BLUE" /\ red' = red_is_on
            /\ UNCHANGED <<presentation, player_pc, led_active, red_is_on, overtaken>>
        BY <2>3, <3>1 DEF LedToggle, TimerGoesTo
      <4> QED  BY <3>1, <4>1
    <3>2. CASE timer_pc = "TOGGLE_BLUE"
      <4>1. /\ timer_pc' = "IDLE" /\ blue' = ~red_is_on /\ red' = red
            /\ UNCHANGED <<presentation, player_pc, led_active, red_is_on, overtaken>>
        BY <2>3, <3>2 DEF LedToggle, TimerGoesTo
      <4> QED  BY <3>2, <4>1
    <3> QED  BY <2>3, <3>1, <3>2 DEF LedToggle
  <2> QED  BY <2>1, <2>2, <2>3
<1> QED  BY <1>1, <1>2 DEF RestInv

-----------------------------------------------------------------------------
(* The results.                                                            *)

LEMMA InitRests == Init => RestInv
<1> SUFFICES ASSUME Init PROVE RestInv
  OBVIOUS
<1>1. QueueTyped /\ ~WillRun
  <2>1. <<>> \in Seq({"START", "STOP"})
    OBVIOUS
  <2>2. timer_queue = <<>> /\ timer = FALSE /\ timer_pc = "IDLE"
    BY DEF Init
  <2>3. ~WillRun
    BY <2>2 DEF WillRun
  <2>4. QueueTyped
    BY <2>1, <2>2 DEF QueueTyped, TimerSteps
  <2> QED  BY <2>3, <2>4
<1>2. CaptionPart
  BY <1>1 DEF Init, CaptionPart, ShownIsKept, HiddenIsStopped
<1>3. LedPart
  BY DEF Init, LedPart, BlinkIsStopped, OnePin, DarkOrOvertaken, Toggling
<1> QED  BY <1>2, <1>3 DEF RestInv

LEMMA StepRests == RestInv /\ [Next]_vars => RestInv'
<1> SUFFICES ASSUME RestInv, [Next]_vars PROVE RestInv'
  OBVIOUS
<1>1. CASE PlayerStep
  BY <1>1, PlayerKeeps
<1>2. CASE TimerStep
  BY <1>2, CommandKeeps, HubKeepsCaption, HubKeepsLeds, ExpiryKeeps DEF TimerStep, RestInv
<1>3. CASE UNCHANGED vars
  <2>1. CaptionPart'
    BY <1>3, TimerMoves
    DEF vars, RestInv, CaptionPart, QueueTyped, Reporting, hubVars, serviceVars
  <2>2. LedPart'
    BY <1>3
    DEF vars, RestInv, LedPart, BlinkIsStopped, OnePin, DarkOrOvertaken, Toggling, ledVars
  <2> QED  BY <2>1, <2>2 DEF RestInv
<1> QED  BY <1>1, <1>2, <1>3 DEF Next

\* With the timer task's queue empty the timer is what the queue made of it.
LEMMA RestFacts ==
  ASSUME RestInv, RequestMayCome
  PROVE  /\ visible => timer /\ active /\ presentation # "IDLE"
         /\ ~visible => ~timer /\ ~active
         /\ led_active => presentation # "IDLE"
         /\ ~(red /\ blue)
         /\ presentation = "IDLE" => (red \/ blue => overtaken)
<1>1. /\ player_pc = "WAIT" /\ timer_pc = "IDLE" /\ WillRun = timer
  BY DEF RequestMayCome, TimerIdle, WillRun
<1>2. CaptionPart /\ LedPart
  BY DEF RestInv
<1>3. presentation = "IDLE" => (red \/ blue => overtaken)
  BY <1>1, <1>2 DEF LedPart, DarkOrOvertaken
<1> QED
  BY <1>1, <1>2, <1>3
  DEF CaptionPart, LedPart, ShownIsKept, HiddenIsStopped, BlinkIsStopped, OnePin

\* Once both tasks are at rest a caption that is shown is scanned: the stop that a
\* hide or the timer's own callback posted never comes behind the start of the
\* caption that replaced it.
THEOREM CaptionStaysScanned == Spec => []CaptionIsScanned
<1>1. RestInv => CaptionIsScanned
  BY RestFacts DEF CaptionIsScanned
<1> QED  BY <1>1, InitRests, StepRests, PTL DEF Spec

\* Once both tasks are at rest an ended presentation has given the display back,
\* whichever task ended it and whatever failed on the way.
THEOREM DisplayGivenBack == Spec => []ScreenOff
<1>1. RestInv => ScreenOff
  BY RestFacts DEF ScreenOff
<1> QED  BY <1>1, InitRests, StepRests, PTL DEF Spec

\* Once both tasks are at rest an ended presentation no longer blinks and both its
\* LEDs are off, whichever task ended it and whatever failed on the way; only a
\* callback that was overtaken by the stop between its decision and its writes has
\* one of them on again.
THEOREM BlinkingEnds == Spec => []LedsStop
<1>1. RestInv => LedsStop
  BY RestFacts DEF LedsStop
<1> QED  BY <1>1, InitRests, StepRests, PTL DEF Spec

-----------------------------------------------------------------------------
(* The room in the queue.                                                  *)

\* The timer task will still stop the scan timer for this caption.
InCallback == timer_pc \in {"TAKE", "REFRESH", "CHECK", "GIVE", "GIVE_NOTIFY", "STOP_TIMER"}

\* The commands queued, and the ones that may follow before the queue is empty:
\* one for the voice, one for the presentation, one for the end of the scan.
OfVoice        == IF voice THEN 1 ELSE 0
OfPresentation == IF presentation # "IDLE" THEN 1 ELSE 0
OfScan         == IF visible \/ InCallback THEN 1 ELSE 0

CommandsDue == Len(timer_queue) + OfVoice + OfPresentation + OfScan

\* The player waits for the mutex only while the timer task scans, and keeps its
\* presentation meanwhile.
Locks ==
  /\ mutex => timer_pc \in {"REFRESH", "CHECK", "GIVE", "GIVE_NOTIFY"}
  /\ player_pc \in {"FINISH_LOCK", "PROCESS_LOCK"} => presentation # "IDLE"

RoomInv == RestInv /\ Locks /\ CommandsDue <= 5

LEMMA StopLength ==
  ASSUME RestInv, Post(<<"STOP">>)
  PROVE  Len(timer_queue) \in Nat /\ Len(timer_queue') = Len(timer_queue) + 1
<1>1. timer_queue \in Seq({"START", "STOP"}) /\ timer_queue' = Append(timer_queue, "STOP")
  BY DEF Post, RestInv, CaptionPart, QueueTyped
<1> QED  BY <1>1

LEMMA QueueLength ==
  ASSUME RestInv
  PROVE  Len(timer_queue) \in Nat
  BY DEF RestInv, CaptionPart, QueueTyped

LEMMA DueFacts ==
  /\ OfVoice \in {0, 1} /\ OfPresentation \in {0, 1} /\ OfScan \in {0, 1}
  /\ voice => OfVoice = 1
  /\ ~voice => OfVoice = 0
  /\ presentation # "IDLE" => OfPresentation = 1
  /\ presentation = "IDLE" => OfPresentation = 0
  /\ visible \/ InCallback => OfScan = 1
  /\ ~visible /\ ~InCallback => OfScan = 0
  BY DEF OfVoice, OfPresentation, OfScan

LEMMA DueFactsNext ==
  /\ OfVoice' \in {0, 1} /\ OfPresentation' \in {0, 1} /\ OfScan' \in {0, 1}
  /\ voice' => OfVoice' = 1
  /\ ~voice' => OfVoice' = 0
  /\ presentation' # "IDLE" => OfPresentation' = 1
  /\ presentation' = "IDLE" => OfPresentation' = 0
  /\ visible' \/ InCallback' => OfScan' = 1
  /\ ~visible' /\ ~InCallback' => OfScan' = 0
  BY DEF OfVoice, OfPresentation, OfScan

LEMMA DueRanges == OfVoice' \in 0 .. 1 /\ OfPresentation' \in 0 .. 1 /\ OfScan' \in 0 .. 1
  BY DEF OfVoice, OfPresentation, OfScan

LEMMA ShortQueueFits ==
  ASSUME Len(timer_queue') \in 0 .. 2
  PROVE  CommandsDue' <= 5
<1>1. \A n \in 0 .. 2, a \in 0 .. 1, b \in 0 .. 1, c \in 0 .. 1 : n + a + b + c <= 5
  OBVIOUS
<1>2. CommandsDue' = Len(timer_queue') + OfVoice' + OfPresentation' + OfScan'
  BY DEF CommandsDue
<1> QED  BY <1>1, <1>2, DueRanges

LEMMA ShowLength == ShowCommands \in Seq({"START", "STOP"}) /\ Len(ShowCommands) \in 0 .. 2
<1>1. Hides \in Seq({"START", "STOP"}) /\ Len(Hides) \in 0 .. 1
  <2>1. CASE Hides = <<>>
    BY <2>1, EmptySeq
  <2>2. CASE Hides = <<"STOP">>
    BY <2>2
  <2> QED  BY <2>1, <2>2 DEF Hides
<1>2. ShowCommands = Append(Hides, "START")
  BY <1>1 DEF ShowCommands
<1>3. Len(ShowCommands) = Len(Hides) + 1
  BY <1>1, <1>2, AppendProperties
<1> QED  BY <1>1, <1>2, <1>3

LEMMA InitHasRoom == Init => RoomInv
<1> SUFFICES ASSUME Init PROVE RoomInv
  OBVIOUS
<1>1. Len(timer_queue) = 0
  BY EmptySeq DEF Init
<1>2. CommandsDue <= 5
  BY <1>1 DEF Init, CommandsDue, OfVoice, OfPresentation, OfScan, InCallback
<1> QED  BY <1>2, InitRests DEF Init, RoomInv, Locks

LEMMA LocksKept ==
  ASSUME RoomInv, [Next]_vars
  PROVE  Locks'
<1> USE DEF RoomInv, Locks
<1>1. CASE VoiceStart \/ Abort \/ Poll \/ VoiceCut
  BY <1>1 DEF VoiceStart, Abort, Poll, VoiceCut, RequestMayCome
<1>2. CASE VoiceQuiet \/ VoiceEnded \/ VoiceFailed \/ HideLocked
  BY <1>2 DEF VoiceQuiet, VoiceEnded, VoiceFailed, HideLocked
<1>3. CASE FinishLocked \/ Process \/ ProcessLocked
  BY <1>3 DEF FinishLocked, Process, ProcessLocked
<1>4. CASE TimerCommand \/ HubExpires \/ LedExpires \/ LedToggle \/ LedsOffInTurn
  BY <1>4 DEF TimerCommand, HubExpires, LedExpires, LedToggle, LedsOffInTurn, TimerGoesTo
<1>5. CASE HubTake \/ HubRefresh \/ HubRefreshFails \/ HubCheck \/ HubGive
  BY <1>5 DEF HubTake, HubRefresh, HubRefreshFails, HubCheck, HubGive, TimerGoesTo
<1>6. CASE HubStopTimer \/ HubNotify
  BY <1>6 DEF HubStopTimer, HubNotify, TimerGoesTo
<1>7. CASE HubFinished
  \* the timer task runs without the mutex, so the player waits for its poll
  <2>1. ~mutex /\ player_pc = "WAIT" /\ player_pc' = "WAIT" /\ ~mutex'
    BY <1>7 DEF HubFinished, TimerGoesTo, TimerRuns, PlayerRuns
  <2> QED  BY <2>1
<1>8. CASE UNCHANGED vars
  BY <1>8 DEF vars
<1> QED
  BY <1>1, <1>2, <1>3, <1>4, <1>5, <1>6, <1>7, <1>8
  DEF Next, PlayerStep, PlayerPass, TimerStep, HubCallback

LEMMA PlayerHasRoom ==
  ASSUME RoomInv, PlayerStep
  PROVE  CommandsDue' <= 5
<1>1. Len(timer_queue) \in Nat /\ CommandsDue <= 5
  BY QueueLength DEF RoomInv
<1>2. CASE VoiceStart
  <2>1. timer_queue = <<>> /\ timer_pc' = "IDLE"
    BY <1>2 DEF VoiceStart, RequestMayCome, TimerIdle
  <2>2. Len(timer_queue') \in 0 .. 2
    <3>1. CASE timer_queue' = timer_queue \o ShowCommands
      BY <2>1, <3>1, ShowLength, ConcatEmptySeq
    <3>2. CASE timer_queue' = timer_queue \o <<"STOP">>
      <4>1. timer_queue' = Append(<<>>, "STOP")
        BY <2>1, <3>2
      <4> QED  BY <4>1
    <3>3. CASE timer_queue' = timer_queue
      BY <2>1, <3>3, EmptySeq
    <3> QED  BY <1>2, <3>1, <3>2, <3>3 DEF VoiceStart, Post, timerVars
  <2> QED  BY <2>2, ShortQueueFits
<1>3. CASE Abort
  <2>1. timer_queue = <<>> /\ timer_pc' = timer_pc /\ timer_pc = "IDLE" /\ ~visible' /\ ~voice'
    BY <1>3 DEF Abort, RequestMayCome, TimerIdle, HideAll, HideBegin
  <2>2. Len(timer_queue') \in 0 .. 2
    <3>1. timer_queue' = Append(<<>>, "STOP")
      BY <1>3, <2>1 DEF Abort, HideAll, Post
    <3> QED  BY <3>1
  <2> QED  BY <2>2, ShortQueueFits
<1>4. CASE Poll \/ VoiceQuiet \/ Process \/ HideLocked
  BY <1>1, <1>4, DueFacts, DueFactsNext
  DEF Poll, VoiceQuiet, Process, HideLocked, CommandsDue, InCallback, hubVars, timerVars
<1>5. CASE VoiceEnded \/ VoiceCut
  <2>1. voice /\ ~voice' /\ (presentation' # "IDLE" => presentation # "IDLE")
    BY <1>5 DEF VoiceEnded, VoiceCut
  <2>2. UNCHANGED <<timer_queue, visible, timer_pc>>
    BY <1>5 DEF VoiceEnded, VoiceCut, hubVars, timerVars
  <2> QED  BY <1>1, <2>1, <2>2, DueFacts, DueFactsNext DEF CommandsDue, InCallback
<1>6. CASE VoiceFailed
  <2>1. Len(timer_queue') = Len(timer_queue) + 1
    BY <1>6, StopLength DEF VoiceFailed, RoomInv
  <2>2. voice /\ ~voice' /\ presentation' = "IDLE" /\ ~visible' /\ timer_pc' = timer_pc
    BY <1>6 DEF VoiceFailed, HideBegin
  <2> QED  BY <1>1, <2>1, <2>2, DueFacts, DueFactsNext DEF CommandsDue, InCallback
<1>7. CASE FinishLocked \/ ProcessLocked
  <2>1. CASE presentation' = "IDLE" /\ HideAll
    <3>1. Len(timer_queue') = Len(timer_queue) + 1 /\ ~visible'
      BY <2>1, StopLength DEF HideAll, HideBegin, RoomInv
    <3>2. presentation # "IDLE" /\ voice' = voice /\ timer_pc' = timer_pc
      BY <1>7 DEF FinishLocked, ProcessLocked, RoomInv, Locks
    <3> QED  BY <1>1, <2>1, <3>1, <3>2, DueFacts, DueFactsNext DEF CommandsDue, InCallback
  <2>2. CASE UNCHANGED <<presentation, visible, timerVars>>
    BY <1>1, <1>7, <2>2, DueFacts, DueFactsNext
    DEF FinishLocked, ProcessLocked, CommandsDue, InCallback, timerVars
  <2> QED  BY <1>7, <2>1, <2>2 DEF FinishLocked, ProcessLocked, hubVars
<1> QED  BY <1>2, <1>3, <1>4, <1>5, <1>6, <1>7 DEF PlayerStep, PlayerPass

LEMMA TimerHasRoom ==
  ASSUME RoomInv, TimerStep
  PROVE  CommandsDue' <= 5
<1>1. Len(timer_queue) \in Nat /\ CommandsDue <= 5
  BY QueueLength DEF RoomInv
<1>2. CASE TimerCommand
  <2>1. /\ timer_queue \in Seq({"START", "STOP"}) /\ timer_queue # <<>>
        /\ timer_queue' = Tail(timer_queue)
    BY <1>2 DEF TimerCommand, RoomInv, RestInv, CaptionPart, QueueTyped
  <2>2. Len(timer_queue') = Len(timer_queue) - 1
    BY <2>1, HeadTailProperties
  <2>3. UNCHANGED <<voice, presentation, visible, timer_pc>>
    BY <1>2 DEF TimerCommand, hubVars
  <2> QED  BY <1>1, <2>2, <2>3, DueFacts, DueFactsNext DEF CommandsDue, InCallback
<1>3. CASE HubStopTimer
  <2>1. Len(timer_queue') = Len(timer_queue) + 1
    BY <1>3, StopLength DEF HubStopTimer, RoomInv
  <2>2. /\ InCallback /\ ~InCallback' /\ ~visible /\ ~visible'
        /\ UNCHANGED <<voice, presentation>>
    BY <1>3
    DEF HubStopTimer, TimerGoesTo, InCallback, hubVars, RoomInv, RestInv, CaptionPart,
        ShownIsKept, Reporting
  <2> QED  BY <1>1, <2>1, <2>2, DueFacts, DueFactsNext DEF CommandsDue
<1>4. CASE HubExpires \/ LedExpires \/ LedToggle \/ HubNotify \/ HubFinished \/ LedsOffInTurn
  <2>1. /\ UNCHANGED <<voice, visible, timer_queue>>
        /\ presentation' # "IDLE" => presentation # "IDLE"
        /\ InCallback' => visible \/ InCallback
    BY <1>4
    DEF HubExpires, LedExpires, LedToggle, HubNotify, HubFinished, LedsOffInTurn, TimerGoesTo,
        InCallback, hubVars, timerVars
  <2> QED  BY <1>1, <2>1, DueFacts, DueFactsNext DEF CommandsDue
<1>5. CASE HubTake \/ HubRefresh \/ HubRefreshFails \/ HubCheck \/ HubGive
  <2>1. UNCHANGED <<voice, presentation, timer_queue>> /\ InCallback
    BY <1>5
    DEF HubTake, HubRefresh, HubRefreshFails, HubCheck, HubGive, TimerGoesTo, InCallback,
        hubVars, timerVars
  <2> QED  BY <1>1, <2>1, DueFacts, DueFactsNext DEF CommandsDue
<1> QED  BY <1>2, <1>3, <1>4, <1>5 DEF TimerStep, HubCallback

LEMMA StepHasRoom == RoomInv /\ [Next]_vars => RoomInv'
<1> SUFFICES ASSUME RoomInv, [Next]_vars PROVE RoomInv'
  OBVIOUS
<1>1. RestInv' /\ Locks'
  BY StepRests, LocksKept DEF RoomInv
<1>3. CommandsDue <= 5 /\ Len(timer_queue) \in Nat
  BY QueueLength DEF RoomInv
<1>4. ASSUME UNCHANGED vars PROVE CommandsDue' <= 5
  BY <1>4, <1>3, DueFacts, DueFactsNext DEF vars, hubVars, timerVars, CommandsDue, InCallback
<1> QED  BY <1>1, <1>4, PlayerHasRoom, TimerHasRoom DEF RoomInv, Next

\* A queue of five never overflows, so a command that is posted without waiting is
\* never dropped: the voice, the presentation and the end of the scan can each add
\* one more command to the two of a show before the timer task has its turn.
THEOREM QueueHasRoom == TimerQueueLength >= 5 => (Spec => []TimerQueueHasRoom)
<1> SUFFICES ASSUME TimerQueueLength >= 5 PROVE Spec => []TimerQueueHasRoom
  OBVIOUS
<1>1. ASSUME RoomInv PROVE TimerQueueHasRoom
  <2>1. Len(timer_queue) \in Nat /\ CommandsDue <= 5 /\ TimerQueueLength \in Nat
    BY <1>1, QueueLength, PresentationAssumption DEF RoomInv
  <2>2. Len(timer_queue) <= CommandsDue
    BY <2>1, DueFacts, DueFactsNext DEF CommandsDue
  <2>3. CommandsDue \in Nat
    BY <2>1, DueFacts, DueFactsNext DEF CommandsDue
  <2> QED  BY <2>1, <2>2, <2>3 DEF TimerQueueHasRoom
<1>2. RoomInv => TimerQueueHasRoom
  BY <1>1
<1> QED  BY <1>2, InitHasRoom, StepHasRoom, PTL DEF Spec
=============================================================================

------------------------- MODULE VoicePresentation -------------------------
(***************************************************************************)
(* The caption and the two LEDs that accompany a spoken text:              *)
(* voice_presentation_app.c over hub_display_app.c and                     *)
(* led_indicator_app.c.                                                    *)
(*                                                                         *)
(* Two tasks meet here.  The player (priority 6) starts, polls, finishes   *)
(* and aborts the presentation; the kernel's timer task (priority 2) runs  *)
(* the scan timer's and the LED timer's callbacks.  The player preempts a  *)
(* callback at any point when its 10 ms poll expires, and lets it go on    *)
(* only when it waits again or blocks on the display's mutex.  A request   *)
(* comes from a client of priority 0, so it finds the timer task idle.     *)
(*                                                                         *)
(* The service below (HubScroll) is reduced to whether it is active and    *)
(* how many rounds the caption has scrolled.                               *)
(***************************************************************************)
EXTENDS Naturals, Sequences

CONSTANTS
  Faults,           \* TRUE: the voice, a glyph read or a scan may fail, and a late
                    \* decode error may stop the voice
  TimerQueueLength, \* configTIMER_QUEUE_LENGTH, 10
  CycleLimit        \* the round counter counts modulo this, 256 in the code

ASSUME PresentationAssumption ==
  Faults \in BOOLEAN /\ TimerQueueLength \in Nat \ {0} /\ CycleLimit \in Nat \ {0, 1}

VARIABLES
  voice,           \* the player service is PLAYING_VOICE_SYNTHESIS
  presentation,    \* voice_presentation_state
  visible,         \* hub_display_app_visible
  finish_pending,  \* hub_display_app_finish_pending
  callback,        \* hub_display_app_finish_callback is set
  start_cycle,     \* hub_display_app_finish_start_cycle
  active, cycle,   \* the display service: active, scroll_cycle_count
  timer,           \* the scan timer is running
  timer_queue,     \* commands to it that the timer task has not handled
  mutex,           \* the timer task holds hub_display_app_mutex
  led_active,      \* led_indicator_voice_is_active
  red_is_on,       \* led_indicator_voice_red_is_on
  red, blue,       \* the pins
  overtaken,       \* history: the LEDs were last stopped between a callback's decision
                   \* to toggle them and its two writes
  player_pc, timer_pc

hubVars     == <<visible, finish_pending, callback, start_cycle>>
serviceVars == <<active, cycle>>
timerVars   == <<timer, timer_queue>>
ledVars     == <<led_active, red_is_on, red, blue, overtaken>>
vars == <<voice, presentation, hubVars, serviceVars, timerVars, ledVars, mutex,
          player_pc, timer_pc>>

Presentations == {"IDLE", "ACTIVE", "FINISH_PENDING"}
Waits         == {"FINISH_LOCK", "HIDE_LOCK", "PROCESS_LOCK"}
PlayerSteps   == {"WAIT", "VOICE", "PROCESS"} \cup Waits
TimerSteps    == {"IDLE", "TAKE", "REFRESH", "CHECK", "GIVE", "GIVE_NOTIFY", "STOP_TIMER",
                  "NOTIFY", "FINISHED", "LED_RED_OFF", "LED_BLUE_OFF",
                  "TOGGLE_RED", "TOGGLE_BLUE"}

-----------------------------------------------------------------------------
(* Scheduling.                                                             *)

PlayerRuns  == player_pc # "WAIT" /\ ~(player_pc \in Waits /\ mutex)
TimerRuns   == ~PlayerRuns
TimerIdle   == timer_pc = "IDLE" /\ timer_queue = <<>>
RequestMayCome == player_pc = "WAIT" /\ TimerIdle

\* led_indicator_voice_process has left its critical section to write the pins.
Toggling == timer_pc \in {"TOGGLE_RED", "TOGGLE_BLUE"}

-----------------------------------------------------------------------------
(* Helpers of both tasks.                                                  *)

\* Instead: only the LED that is lit first is put off.
LedStopForgetsBlue ==
  led_active' = FALSE /\ red' = FALSE /\ overtaken' = Toggling /\ UNCHANGED <<blue, red_is_on>>

\* led_indicator_app_voice_stop, as the player runs it: nothing comes between.
LedStop ==
  /\ led_active' = FALSE /\ red' = FALSE /\ blue' = FALSE
  /\ overtaken' = Toggling
  /\ UNCHANGED red_is_on

\* hub_display_app_hide up to the mutex, but for xTimerStop...
HideBegin == visible' = FALSE /\ finish_pending' = FALSE /\ callback' = FALSE /\ start_cycle' = 0

\* Instead: the service is left running.
HideKeepsService == UNCHANGED serviceVars

\* ... and behind it: hub_display_service_stop.
ServiceStop == active' = FALSE /\ cycle' = 0

Post(commands) == timer_queue' = timer_queue \o commands /\ UNCHANGED timer

\* The whole of hide and of the LEDs' stop, with the mutex free.
HideAll == HideBegin /\ Post(<<"STOP">>) /\ ServiceStop /\ LedStop

-----------------------------------------------------------------------------
(* Player: requests.                                                       *)

Hides == IF presentation # "IDLE" \/ visible THEN <<"STOP">> ELSE <<>>

\* Instead: the timer is started first and stopped with the old caption.
StartBeforeHide == <<"START">> \o Hides
ShowCommands    == Hides \o <<"START">>

\* audio_app_voice_synthesis_request_handle once the chip speaks, and
\* voice_presentation_app_start: what is still shown is aborted first.  A caption
\* that cannot be read leaves the voice without a presentation.
VoiceStart ==
  /\ RequestMayCome /\ ~voice
  /\ voice' = TRUE
  /\ \/ /\ presentation' = "ACTIVE"
        /\ visible' = TRUE /\ finish_pending' = FALSE /\ callback' = FALSE /\ start_cycle' = 0
        /\ active' = TRUE /\ cycle' = 0
        /\ Post(ShowCommands)
        /\ led_active' = TRUE /\ red_is_on' = TRUE /\ red' = TRUE /\ blue' = FALSE
        /\ overtaken' = FALSE
     \/ /\ Faults
        /\ presentation' = "IDLE"
        /\ IF presentation # "IDLE" \/ visible
           THEN HideBegin /\ Post(<<"STOP">>) /\ ServiceStop
           ELSE UNCHANGED <<hubVars, serviceVars, timerVars>>
        /\ IF presentation # "IDLE" THEN LedStop ELSE UNCHANGED ledVars
  /\ UNCHANGED <<mutex, player_pc, timer_pc>>

\* A stop, an emergency or an MP3 request: voice_presentation_app_abort.
Abort ==
  /\ RequestMayCome
  /\ voice' = FALSE /\ presentation' = "IDLE"
  /\ HideAll
  /\ UNCHANGED <<mutex, player_pc, timer_pc>>

-----------------------------------------------------------------------------
(* Player: the 10 ms poll.                                                 *)

Poll ==
  /\ player_pc = "WAIT"
  /\ voice \/ presentation # "IDLE"
  /\ player_pc' = "VOICE"
  /\ UNCHANGED <<voice, presentation, hubVars, serviceVars, timerVars, ledVars, mutex, timer_pc>>

\* audio_app_voice_synthesis_process: nothing new...
VoiceQuiet ==
  /\ player_pc = "VOICE"
  /\ player_pc' = "PROCESS"
  /\ UNCHANGED <<voice, presentation, hubVars, serviceVars, timerVars, ledVars, mutex, timer_pc>>

\* ... the chip became idle (voice_presentation_app_audio_finished): a caption
\* that is gone completes the finish at once...
VoiceEnded ==
  /\ player_pc = "VOICE" /\ voice
  /\ voice' = FALSE
  /\ \/ /\ presentation # "ACTIVE"
        /\ player_pc' = "PROCESS"
        /\ UNCHANGED <<presentation, ledVars>>
     \/ /\ presentation = "ACTIVE" /\ ~visible
        /\ presentation' = "IDLE" /\ LedStop
        /\ player_pc' = "PROCESS"
     \/ /\ presentation = "ACTIVE" /\ visible
        /\ presentation' = "FINISH_PENDING"
        /\ player_pc' = "FINISH_LOCK"
        /\ UNCHANGED ledVars
  /\ UNCHANGED <<hubVars, serviceVars, timerVars, mutex, timer_pc>>

\* ... or the command was rejected or the poll failed: abort.
VoiceFailed ==
  /\ player_pc = "VOICE" /\ voice /\ Faults
  /\ voice' = FALSE /\ presentation' = "IDLE"
  /\ HideBegin /\ Post(<<"STOP">>)
  /\ player_pc' = "HIDE_LOCK"
  /\ UNCHANGED <<serviceVars, ledVars, mutex, timer_pc>>

HideLocked ==
  /\ player_pc = "HIDE_LOCK" /\ ~mutex
  /\ ServiceStop /\ LedStop
  /\ player_pc' = "WAIT"
  /\ UNCHANGED <<voice, presentation, hubVars, timerVars, mutex, timer_pc>>

\* Instead: the finish is requested without its callback.
FinishForgetsCallback ==
  /\ player_pc = "FINISH_LOCK" /\ ~mutex
  /\ player_pc' = "PROCESS"
  /\ start_cycle' = cycle /\ finish_pending' = TRUE
  /\ UNCHANGED <<voice, presentation, visible, callback, serviceVars, timerVars, ledVars,
                 mutex, timer_pc>>

\* hub_display_app_finish_scroll with the mutex.  The service may have been
\* stopped by a failed scan while the player waited for it: then all is closed.
FinishLocked ==
  /\ player_pc = "FINISH_LOCK" /\ ~mutex
  /\ player_pc' = "PROCESS"
  /\ \/ /\ active
        /\ start_cycle' = cycle /\ callback' = TRUE /\ finish_pending' = TRUE
        /\ UNCHANGED <<presentation, visible, serviceVars, timerVars, ledVars>>
     \/ /\ ~active
        /\ presentation' = "IDLE" /\ HideAll
  /\ UNCHANGED <<voice, mutex, timer_pc>>

\* voice_presentation_app_process
Process ==
  /\ player_pc = "PROCESS"
  /\ player_pc' = IF presentation # "IDLE" /\ visible THEN "PROCESS_LOCK" ELSE "WAIT"
  /\ UNCHANGED <<voice, presentation, hubVars, serviceVars, timerVars, ledVars, mutex, timer_pc>>

\* Instead: a failed poll hides the caption and forgets the state.
ProcessFailsOpen ==
  /\ player_pc = "PROCESS_LOCK" /\ ~mutex
  /\ player_pc' = "WAIT"
  /\ \/ active /\ UNCHANGED <<hubVars, serviceVars, timerVars, ledVars>>
     \/ (~active \/ Faults) /\ Post(<<"STOP">>) /\ ServiceStop /\ LedStop /\ UNCHANGED hubVars
  /\ UNCHANGED <<voice, presentation, mutex, timer_pc>>

\* hub_display_app_process with the mutex: a glyph may fail to be read, and a
\* service stopped by the scan timer answers BUSY.
ProcessLocked ==
  /\ player_pc = "PROCESS_LOCK" /\ ~mutex
  /\ player_pc' = "WAIT"
  /\ \/ active /\ UNCHANGED <<presentation, hubVars, serviceVars, timerVars, ledVars>>
     \/ (~active \/ Faults) /\ presentation' = "IDLE" /\ HideAll
  /\ UNCHANGED <<voice, mutex, timer_pc>>

\* audio_app_mp3_events_process on a late DECODE_ERROR, at the end of a pass: the
\* voice is stopped, its presentation is not.
VoiceCut ==
  /\ player_pc = "WAIT" /\ voice /\ Faults
  /\ voice' = FALSE
  /\ UNCHANGED <<presentation, hubVars, serviceVars, timerVars, ledVars, mutex,
                 player_pc, timer_pc>>

PlayerPass == VoiceQuiet \/ VoiceEnded \/ VoiceFailed \/ HideLocked \/ FinishLocked
              \/ Process \/ ProcessLocked

PlayerStep == VoiceStart \/ Abort \/ Poll \/ VoiceCut \/ PlayerPass


-----------------------------------------------------------------------------
(* Timer task: commands and the scan timer's callback.                     *)

TimerCommand ==
  /\ TimerRuns /\ timer_pc = "IDLE"
  /\ timer_queue # <<>>
  /\ timer' = (Head(timer_queue) = "START")
  /\ timer_queue' = Tail(timer_queue)
  /\ UNCHANGED <<voice, presentation, hubVars, serviceVars, ledVars, mutex, player_pc, timer_pc>>

TimerGoesTo(step) == TimerRuns /\ timer_pc' = step /\ UNCHANGED <<voice, player_pc>>

HubExpires ==
  /\ timer_pc = "IDLE" /\ timer /\ visible
  /\ TimerGoesTo("TAKE")
  /\ UNCHANGED <<presentation, hubVars, serviceVars, timerVars, ledVars, mutex>>

\* The player does not wait while it holds the mutex, so the timer task gets it.
HubTake ==
  /\ timer_pc = "TAKE"
  /\ TimerGoesTo("REFRESH")
  /\ mutex' = TRUE
  /\ UNCHANGED <<presentation, hubVars, serviceVars, timerVars, ledVars>>

NextRound(c) == (c + 1) % CycleLimit

\* hub_display_service_refresh scans a row; the last row of a round counts it.
HubRefresh ==
  /\ timer_pc = "REFRESH" /\ active
  /\ TimerGoesTo("CHECK")
  /\ cycle' \in {cycle, NextRound(cycle)}
  /\ UNCHANGED <<presentation, hubVars, active, timerVars, ledVars, mutex>>

\* A service that is stopped answers BUSY; a scan may fail.
HubRefreshFails ==
  /\ timer_pc = "REFRESH" /\ (~active \/ Faults)
  /\ TimerGoesTo("GIVE_NOTIFY")
  /\ visible' = FALSE /\ finish_pending' = FALSE
  /\ ServiceStop
  /\ UNCHANGED <<presentation, callback, start_cycle, timerVars, ledVars, mutex>>

ScrolledOut == finish_pending /\ cycle # start_cycle

HubCheck ==
  /\ timer_pc = "CHECK"
  /\ \/ /\ ScrolledOut
        /\ TimerGoesTo("GIVE_NOTIFY")
        /\ visible' = FALSE /\ finish_pending' = FALSE
        /\ ServiceStop
        /\ UNCHANGED <<callback, start_cycle>>
     \/ /\ ~ScrolledOut
        /\ TimerGoesTo("GIVE")
        /\ UNCHANGED <<hubVars, serviceVars>>
  /\ UNCHANGED <<presentation, timerVars, ledVars, mutex>>

HubGive ==
  /\ timer_pc \in {"GIVE", "GIVE_NOTIFY"}
  /\ TimerGoesTo(IF timer_pc = "GIVE" THEN "IDLE" ELSE "STOP_TIMER")
  /\ mutex' = FALSE
  /\ UNCHANGED <<presentation, hubVars, serviceVars, timerVars, ledVars>>

HubStopTimer ==
  /\ timer_pc = "STOP_TIMER"
  /\ TimerGoesTo("NOTIFY")
  /\ Post(<<"STOP">>)
  /\ UNCHANGED <<presentation, hubVars, serviceVars, ledVars, mutex>>

\* hub_display_app_finish_notify
HubNotify ==
  /\ timer_pc = "NOTIFY"
  /\ TimerGoesTo(IF callback THEN "FINISHED" ELSE "IDLE")
  /\ callback' = FALSE
  /\ UNCHANGED <<presentation, visible, finish_pending, start_cycle, serviceVars,
                 timerVars, ledVars, mutex>>

\* voice_presentation_scroll_finished, and led_indicator_app_voice_stop pin by pin.
HubFinished ==
  /\ timer_pc = "FINISHED"
  /\ LET ours == presentation = "FINISH_PENDING"
     IN  /\ presentation' = IF ours THEN "IDLE" ELSE presentation
         /\ TimerGoesTo(IF ours THEN "LED_RED_OFF" ELSE "IDLE")
  /\ UNCHANGED <<hubVars, serviceVars, timerVars, ledVars, mutex>>

LedsOffInTurn ==
  /\ \/ /\ timer_pc = "LED_RED_OFF" /\ TimerGoesTo("LED_BLUE_OFF")
        /\ led_active' = FALSE /\ red' = FALSE /\ UNCHANGED blue
     \/ /\ timer_pc = "LED_BLUE_OFF" /\ TimerGoesTo("IDLE")
        /\ blue' = FALSE /\ UNCHANGED <<led_active, red>>
  /\ UNCHANGED <<presentation, hubVars, serviceVars, timerVars, red_is_on, overtaken, mutex>>

-----------------------------------------------------------------------------
(* Timer task: the LED timer's callback, led_indicator_voice_process.      *)

LedExpires ==
  /\ timer_pc = "IDLE" /\ led_active
  /\ TimerGoesTo("TOGGLE_RED")
  /\ red_is_on' = ~red_is_on
  /\ UNCHANGED <<presentation, hubVars, serviceVars, timerVars, led_active, red, blue,
                 overtaken, mutex>>

\* The pins are written outside the critical section, from a copy.
LedToggle ==
  /\ \/ timer_pc = "TOGGLE_RED" /\ TimerGoesTo("TOGGLE_BLUE") /\ red' = red_is_on /\ UNCHANGED blue
     \/ timer_pc = "TOGGLE_BLUE" /\ TimerGoesTo("IDLE") /\ blue' = ~red_is_on /\ UNCHANGED red
  /\ UNCHANGED <<presentation, hubVars, serviceVars, timerVars, led_active, red_is_on,
                 overtaken, mutex>>

HubCallback == HubTake \/ HubRefresh \/ HubRefreshFails \/ HubCheck \/ HubGive
               \/ HubStopTimer \/ HubNotify \/ HubFinished \/ LedsOffInTurn

TimerStep == TimerCommand \/ HubExpires \/ HubCallback \/ LedExpires \/ LedToggle

-----------------------------------------------------------------------------
Init ==
  /\ voice = FALSE /\ presentation = "IDLE"
  /\ visible = FALSE /\ finish_pending = FALSE /\ callback = FALSE /\ start_cycle = 0
  /\ active = FALSE /\ cycle = 0
  /\ timer = FALSE /\ timer_queue = <<>>
  /\ led_active = FALSE /\ red_is_on = FALSE /\ red = FALSE /\ blue = FALSE
  /\ overtaken = FALSE
  /\ mutex = FALSE
  /\ player_pc = "WAIT" /\ timer_pc = "IDLE"

Next == PlayerStep \/ TimerStep

Spec == Init /\ [][Next]_vars

\* The player's pass ends.  The timer task has its turn again and again between
\* passes, so a step it can take over and over is taken, and a caption that is
\* scanned for long enough ends its round.
Fairness ==
  /\ WF_vars(PlayerPass)
  /\ SF_vars(TimerCommand)
  /\ SF_vars(HubExpires)
  /\ SF_vars(HubCallback)
  /\ SF_vars(HubRefresh /\ cycle' # cycle)
  /\ SF_vars(LedToggle)

FairSpec == Spec /\ Fairness

-----------------------------------------------------------------------------
(* Properties.                                                             *)

TypeOK ==
  /\ voice \in BOOLEAN /\ presentation \in Presentations
  /\ {visible, finish_pending, callback, active, timer, mutex,
      led_active, red_is_on, red, blue, overtaken} \subseteq BOOLEAN
  /\ {start_cycle, cycle} \subseteq 0..(CycleLimit - 1)
  /\ timer_queue \in Seq({"START", "STOP"})
  /\ player_pc \in PlayerSteps /\ timer_pc \in TimerSteps

\* The commands posted without waiting (timeout 0, their failure only logged) find
\* room: between two turns of the timer task the player posts only a few, however
\* long its polls keep failing.
TimerQueueHasRoom == Len(timer_queue) <= TimerQueueLength

\* Once both tasks are at rest a caption that is shown is scanned: neither the hide
\* before a new show nor a late stop from the timer's own callback leaves the new
\* caption with a stopped timer or a stopped service.
CaptionIsScanned == RequestMayCome /\ visible => timer /\ active

\* Once both tasks are at rest an ended presentation has given the display back:
\* nothing shown, service stopped and scan timer stopped, whichever task ended it.
ScreenOff ==
  RequestMayCome /\ presentation = "IDLE" => ~visible /\ ~active /\ ~timer

\* A presentation whose voice has ended does not linger: the round is completed and
\* reported, a failure on either side closes it, or a new voice takes its place.
PresentationEnds == presentation = "FINISH_PENDING" ~> presentation # "FINISH_PENDING"

\* Once both tasks are at rest an ended presentation no longer blinks and both its
\* LEDs are off, however it was ended.  The one exception is a stop that overtook a
\* callback between its decision and its writes: then the callback has put one of
\* the LEDs on again.
LedsStop ==
  RequestMayCome /\ presentation = "IDLE"
    => ~led_active /\ ~(red /\ blue) /\ (red \/ blue => overtaken)
=============================================================================

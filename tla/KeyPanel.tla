------------------------------ MODULE KeyPanel ------------------------------
(***************************************************************************)
(* The two volume keys: the loop of start_or_test_f that polls them, the   *)
(* debounce and gesture detector (button.c) of each, and the volume        *)
(* service with the CAT5171 potentiometer on I2C below it.                 *)
(*                                                                         *)
(* The loop takes the tick, visits the keys one after the other with that  *)
(* same tick, and sleeps.  The task has a low priority and does USB and    *)
(* I2C work in the same loop, so the polls are 1 to MaxGap ticks apart.    *)
(* A tick here is the code's poll period of 10 ms.  A contact bounces: a   *)
(* sample may be either level at any poll.  Only this task uses the I2C.   *)
(***************************************************************************)
EXTENDS Integers

CONSTANTS
  TickMod,      (* the tick counter wraps here; 2^32 ms in the code        *)
  Debounce,     (* START_TEST_KEY_DEBOUNCE_MS                              *)
  LongPress,    (* START_TEST_KEY_LONG_PRESS_MS                            *)
  DoubleClick,  (* START_TEST_KEY_DOUBLE_CLICK_MS                          *)
  MaxGap,       (* bound: the longest time between two polls               *)
  Step          (* START_TEST_VOLUME_STEP                                  *)

ASSUME KeyPanelAssumption ==
  /\ {TickMod, Debounce, LongPress, DoubleClick, MaxGap, Step} \subseteq Nat \ {0}
  /\ \A t \in {Debounce, LongPress, DoubleClick} : t + MaxGap < TickMod
  /\ Step <= 100

VARIABLES
  now,      (* now_ms, modulo TickMod                                      *)
  turn,     (* the key the loop visits next, "sleep" when it sleeps        *)
  button,   (* buttons[], with the event of the last update                *)
  volume,   (* the service's level and whether it is initialized, and the  *)
            (* wiper position of the chip                                  *)
  request,  (* what the last visit asked of the other applications         *)
  seen      (* history: for each key how long its samples have agreed, how *)
            (* long ago a release was accepted, and the presses and long   *)
            (* presses reported in the current hold                        *)

vars == <<now, turn, button, volume, request, seen>>

Keys     == {"down", "up"}      (* SW3 and SW4 *)
States   == {"IDLE", "PRESSED", "LONG_FIRED", "WAIT_SECOND", "SECOND_PRESSED"}
EventsOf == {"NONE", "PRESS", "RELEASE", "CLICK", "DOUBLE_CLICK", "LONG_PRESS"}
Ticks    == 0 .. TickMod - 1

(* button_t, and the volume: level and is_initialized of the service (the  *)
(* loop's volume_ready always agrees with the latter) and the wiper.       *)
Buttons == [raw : BOOLEAN, stable : BOOLEAN, state : States,
            edge : Ticks, press : Ticks, release : Ticks, event : EventsOf]
Volumes == [ready : BOOLEAN, level : 0 .. 100, wiper : 5 .. 245]

(* The history kept of a key.                                              *)
Histories == [agreed : 0 .. Debounce, released : 0 .. DoubleClick + MaxGap,
              presses : Nat, longs : Nat]

Least(a, b) == IF a < b THEN a ELSE b

-----------------------------------------------------------------------------
(* The button detector                                                     *)

Elapsed(from) == (now - from) % TickMod

(* A time the code writes again before it reads it is kept as 0.           *)
Forget(b) ==
  [b EXCEPT !.edge    = IF b.raw = b.stable THEN 0 ELSE @,
            !.press   = IF b.state \in {"PRESSED", "SECOND_PRESSED"} THEN @ ELSE 0,
            !.release = IF b.state = "WAIT_SECOND" THEN @ ELSE 0]

(* Instead: only the edge to pressed starts the debounce.                  *)
SampledStampsPresses(b, pressed) ==
  [b EXCEPT !.raw = pressed, !.edge = IF pressed /\ ~ b.raw THEN now ELSE @,
            !.event = "NONE"]

(* button_update: the sample is taken and an edge restarts the debounce.   *)
Sampled(b, pressed) ==
  [b EXCEPT !.raw = pressed, !.edge = IF pressed = b.raw THEN @ ELSE now,
            !.event = "NONE"]

(* button_on_press.  A press that is accepted by the first update after    *)
(* the double click window ends the click before it, and is not reported.  *)
OnPress(b) ==
  CASE b.state = "IDLE" ->
         [b EXCEPT !.state = "PRESSED", !.press = now, !.event = "PRESS"]
    [] b.state = "WAIT_SECOND" /\ Elapsed(b.release) <= DoubleClick ->
         [b EXCEPT !.state = "SECOND_PRESSED", !.press = now, !.event = "PRESS"]
    [] b.state = "WAIT_SECOND" /\ Elapsed(b.release) > DoubleClick ->
         [b EXCEPT !.state = "PRESSED", !.press = now, !.event = "CLICK"]
    [] OTHER -> b

(* button_on_release.                                                      *)
OnRelease(b) ==
  CASE b.state = "PRESSED" ->
         [b EXCEPT !.state = "WAIT_SECOND", !.release = now, !.event = "RELEASE"]
    [] b.state = "SECOND_PRESSED" ->
         [b EXCEPT !.state = "IDLE", !.event = "DOUBLE_CLICK"]
    [] b.state = "LONG_FIRED" ->
         [b EXCEPT !.state = "IDLE", !.event = "RELEASE"]
    [] OTHER -> b

(* Instead: the window is closed by the first update after its end.        *)
TimedEventLate(b) ==
  CASE b.state \in {"PRESSED", "SECOND_PRESSED"} /\ Elapsed(b.press) >= LongPress ->
         [b EXCEPT !.state = "LONG_FIRED", !.event = "LONG_PRESS"]
    [] b.state = "WAIT_SECOND" /\ Elapsed(b.release) > DoubleClick ->
         [b EXCEPT !.state = "IDLE", !.event = "CLICK"]
    [] OTHER -> b

(* button_check_timed_event: a long press fires while the key is held, a   *)
(* click when its double click window closes.                              *)
TimedEvent(b) ==
  CASE b.state \in {"PRESSED", "SECOND_PRESSED"} /\ Elapsed(b.press) >= LongPress ->
         [b EXCEPT !.state = "LONG_FIRED", !.event = "LONG_PRESS"]
    [] b.state = "WAIT_SECOND" /\ Elapsed(b.release) >= DoubleClick ->
         [b EXCEPT !.state = "IDLE", !.event = "CLICK"]
    [] OTHER -> b

Accepts(b) == b.raw # b.stable /\ Elapsed(b.edge) >= Debounce

Debounced(b) ==
  IF ~ Accepts(b) THEN b
  ELSE LET stable == [b EXCEPT !.stable = b.raw]
       IN IF b.raw THEN OnPress(stable) ELSE OnRelease(stable)

Update(b, pressed) ==
  LET accepted == Debounced(Sampled(b, pressed))
  IN Forget(IF accepted.event = "NONE" THEN TimedEvent(accepted) ELSE accepted)

-----------------------------------------------------------------------------
(* The volume service over the potentiometer                               *)

LevelMin        == 0
LevelMax        == 100
PositionMin     == 5
PositionMax     == 245
PositionPowerUp == 128       (* CAT5171: mid-scale after power-up *)

(* Instead: a middle volume to start from.                                 *)
PositionDefaultMiddle == 125

PositionDefault == PositionMin

LevelToPosition(level) ==
  PositionMin + (level * (PositionMax - PositionMin) + 50) \div 100

InRange(position) == PositionMin <= position /\ position <= PositionMax

PositionToLevel(position) ==
  ((position - PositionMin) * 100 + (PositionMax - PositionMin) \div 2)
    \div (PositionMax - PositionMin)

(* A write may reach the chip or not, whatever it returns: an acknowledge  *)
(* may be lost, and so may a byte that was acknowledged.                   *)
Written(v, position) ==
  {[ok |-> ok, wiper |-> w] : ok \in BOOLEAN, w \in {v.wiper, position}}

(* A read may fail; what it returns is the wiper.                          *)
Reads == BOOLEAN

(* bsp_audio_volume_init: write the default and read it back.              *)
Defaulted(v) ==
  {[ok |-> write.ok /\ read /\ write.wiper = PositionDefault, wiper |-> write.wiper] :
     write \in Written(v, PositionDefault), read \in Reads}

(* audio_volume_service_init: read it once more, as a level.               *)
Initialized(v) ==
  {[ready |-> chip.ok /\ read, wiper |-> chip.wiper,
    level |-> IF chip.ok /\ read THEN PositionToLevel(chip.wiper) ELSE LevelMin] :
     chip \in Defaulted(v), read \in Reads}

Requested(v, step) ==
  IF v.level + step < LevelMin THEN LevelMin ELSE Least(v.level + step, LevelMax)

(* Instead: a read that succeeds is enough.                                *)
ReadBackUnchecked(write, read, level) == write.ok /\ read

ReadBack(write, read, level) ==
  write.ok /\ read /\ InRange(write.wiper) /\ PositionToLevel(write.wiper) = level

(* audio_volume_service_step: nothing at the end of the scale; otherwise   *)
(* write, read back, and trust the level only when it was read back.       *)
Stepped(v, step) ==
  LET level == Requested(v, step)
  IN IF level = v.level THEN {v}
     ELSE {IF ReadBack(write, read, level)
             THEN [ready |-> TRUE, level |-> level, wiper |-> write.wiper]
             ELSE [ready |-> FALSE, level |-> v.level, wiper |-> write.wiper] :
             write \in Written(v, LevelToPosition(level)), read \in Reads}

(* The PRESS branch of the loop: initialize again after a failure, and     *)
(* step unless that fails too.                                             *)
Pressed(v, step) ==
  UNION {IF w.ready THEN Stepped(w, step) ELSE {w} :
           w \in IF v.ready THEN {v} ELSE Initialized(v)}

-----------------------------------------------------------------------------
(* The polling loop                                                        *)

(* button_init takes the first sample as it is: a key may be held at boot. *)
Init ==
  /\ now \in Ticks
  /\ turn = "sleep"
  /\ \E held \in [Keys -> BOOLEAN] :
       /\ button = [k \in Keys |->
            [raw |-> held[k], stable |-> held[k], state |-> "IDLE",
             edge |-> 0, press |-> 0, release |-> 0, event |-> "NONE"]]
       /\ seen = [k \in Keys |-> [agreed |-> 0, released |-> DoubleClick + MaxGap,
                                  presses |-> 0, longs |-> 0]]
  /\ volume \in Initialized([ready |-> FALSE, level |-> LevelMin,
                             wiper |-> PositionPowerUp])
  /\ request = "none"

(* History: b became u in a visit that sampled pressed.  A hold is over     *)
(* once the key was sampled released throughout the debounce time.         *)
Recorded(w, b, u, pressed) ==
  LET agreed == IF pressed = b.raw THEN w.agreed ELSE 0
      over   == ~ pressed /\ agreed >= Debounce
  IN [agreed   |-> agreed,
      released |-> IF b.stable /\ ~ u.stable THEN 0 ELSE w.released,
      presses  |-> IF over THEN 0 ELSE w.presses + IF u.event = "PRESS" THEN 1 ELSE 0,
      longs    |-> IF over THEN 0 ELSE w.longs + IF u.event = "LONG_PRESS" THEN 1 ELSE 0]

(* vTaskDelay and the rest of the loop, up to the next reading of the tick *)
Sleep ==
  /\ turn = "sleep"
  /\ \E gap \in 1 .. MaxGap :
       /\ now' = (now + gap) % TickMod
       /\ seen' = [k \in Keys |->
            [seen[k] EXCEPT !.agreed = Least(@ + gap, Debounce),
                            !.released = Least(@ + gap, DoubleClick + MaxGap)]]
  /\ turn' = "down"
  /\ UNCHANGED <<button, volume, request>>

Signed(k) == IF k = "down" THEN - Step ELSE Step

(* The prompt is asked for only after a step that succeeded.               *)
OnEvent(k) ==
  LET event == button'[k].event
  IN \/ /\ event = "PRESS"
        /\ volume' \in Pressed(volume, Signed(k))
        /\ request' = IF volume'.ready THEN "prompt" ELSE "none"
     \/ /\ event = "LONG_PRESS" /\ k = "up"
        /\ request' = "config"
        /\ UNCHANGED volume
     \/ /\ event # "PRESS" /\ ~ (event = "LONG_PRESS" /\ k = "up")
        /\ request' = "none"
        /\ UNCHANGED volume

(* One pass of the for loop: sample, update, act.                          *)
Visit(k) ==
  /\ turn = k
  /\ \E pressed \in BOOLEAN :
       /\ button' = [button EXCEPT ![k] = Update(@, pressed)]
       /\ seen' = [seen EXCEPT ![k] = Recorded(@, button[k], button'[k], pressed)]
  /\ OnEvent(k)
  /\ turn' = IF k = "down" THEN "up" ELSE "sleep"
  /\ UNCHANGED now

Next == Sleep \/ \E k \in Keys : Visit(k)

Spec == Init /\ [][Next]_vars

-----------------------------------------------------------------------------
(* Properties                                                              *)

(* Every variable keeps its type.                                          *)
TypeOK ==
  /\ now \in Ticks
  /\ turn \in Keys \cup {"sleep"}
  /\ button \in [Keys -> Buttons]
  /\ volume \in Volumes
  /\ request \in {"none", "prompt", "config"}
  /\ seen \in [Keys -> Histories]

(* Whatever a contact does and whenever it is sampled, across the wrap of  *)
(* the tick: between two times at which a key was found released for the   *)
(* whole debounce time it steps the volume at most once and asks for the   *)
(* modem configuration at most once.                                       *)
OncePerHold == \A k \in Keys : seen[k].presses <= 1 /\ seen[k].longs <= 1

(* The level the service goes on from is the level of the wiper: a failed, *)
(* lost or half-done transfer never leaves it believing another.           *)
LevelIsWiper ==
  volume.ready => volume.wiper = LevelToPosition(volume.level)

(* No visit makes the speaker louder by more than one step, and only a     *)
(* press of the key for louder does, also when the service starts again    *)
(* after failures.                                                         *)
NeverLeaps ==
  [][volume'.wiper > volume.wiper =>
       /\ turn = "up"
       /\ volume'.wiper <= LevelToPosition(Least(PositionToLevel(volume.wiper) + Step, LevelMax))]_vars

(* An accepted press is reported, unless it is accepted between the end of *)
(* the double click window and the time by which a poll has closed it.     *)
PressReported ==
  [][\A k \in Keys :
       ~ button[k].stable /\ button'[k].stable =>
         \/ button'[k].event = "PRESS"
         \/ /\ DoubleClick < seen[k].released
            /\ seen[k].released < DoubleClick + MaxGap]_vars
=============================================================================

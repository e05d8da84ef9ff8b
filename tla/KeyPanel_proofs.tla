--------------------------- MODULE KeyPanel_proofs ---------------------------
(***************************************************************************)
(* Proofs about KeyPanel, for every timing, poll jitter, tick modulus and  *)
(* step size that KeyPanelAssumption allows: the types, the volume         *)
(* (LevelIsWiper, NeverLeaps) and the keys (OncePerHold, PressReported).   *)
(***************************************************************************)
EXTENDS KeyPanel, TLAPS

-----------------------------------------------------------------------------
(* The scale of the potentiometer                                          *)

(* Every level has a position in range, a louder one is not lower, and the *)
(* position reads back as its level.                                       *)
LEMMA PositionOfLevel ==
  ASSUME NEW level \in 0 .. 100
  PROVE  /\ LevelToPosition(level) \in 5 .. 245
         /\ PositionToLevel(LevelToPosition(level)) = level
  BY DEF LevelToPosition, PositionToLevel, PositionMin, PositionMax

LEMMA LouderIsHigher ==
  ASSUME NEW a \in 0 .. 100, NEW b \in 0 .. 100, a <= b
  PROVE  LevelToPosition(a) <= LevelToPosition(b)
  BY DEF LevelToPosition, PositionMin, PositionMax

LEMMA LevelOfPosition ==
  ASSUME NEW position \in 5 .. 245
  PROVE  PositionToLevel(position) \in 0 .. 100
  BY DEF PositionToLevel, PositionMin, PositionMax

-----------------------------------------------------------------------------
(* The wrapping tick                                                       *)

Tick(x) == x % TickMod

(* The remainder of a number that is less than one lap off.                *)
LEMMA Wrapped ==
  ASSUME NEW x \in Int
  PROVE  /\ TickMod \in Nat \ {0}
         /\ Tick(x) \in Int /\ 0 <= Tick(x) /\ Tick(x) < TickMod
         /\ 0 <= x /\ x < TickMod => Tick(x) = x
         /\ TickMod <= x /\ x < TickMod + TickMod => Tick(x) = x - TickMod
         /\ - TickMod <= x /\ x < 0 => Tick(x) = x + TickMod
<1>1. TickMod \in Nat \ {0}
  BY KeyPanelAssumption
<1> QED  BY <1>1 DEF Tick

LEMMA TicksAre ==
  ASSUME NEW t
  PROVE  t \in Ticks <=> t \in Int /\ 0 <= t /\ t < TickMod
  BY KeyPanelAssumption DEF Ticks

LEMMA ElapsedTick ==
  ASSUME now \in Ticks, NEW from \in Ticks
  PROVE  Elapsed(from) \in Ticks /\ Elapsed(now) = 0
<1>1. /\ Elapsed(from) = Tick(now - from) /\ Elapsed(now) = Tick(now - now)
      /\ now \in Int /\ from \in Int
  BY TicksAre DEF Elapsed, Tick
<1>2. now - from \in Int /\ now - now = 0 /\ 0 \in Int
  BY <1>1
<1>3. Tick(0) = 0
  BY Wrapped
<1> QED  BY <1>1, <1>2, <1>3, Wrapped, TicksAre

(* While the tick advances by gap, so does the age of a time less than a   *)
(* lap old.                                                                *)
LEMMA Aging ==
  ASSUME now \in Ticks, NEW from \in Ticks, NEW gap \in Nat,
         Elapsed(from) + gap < TickMod
  PROVE  /\ (now + gap) % TickMod \in Ticks
         /\ (((now + gap) % TickMod) - from) % TickMod = Elapsed(from) + gap
<1> DEFINE next == Tick(now + gap)
<1>1. /\ TickMod \in Int /\ now \in Int /\ from \in Int /\ gap \in Int
      /\ 0 <= now /\ now < TickMod /\ 0 <= from /\ from < TickMod /\ 0 <= gap
  BY TicksAre, KeyPanelAssumption
<1>2. /\ Elapsed(from) \in Int /\ 0 <= Elapsed(from)
      /\ Elapsed(from) = Tick(now - from)
  BY ElapsedTick, TicksAre DEF Elapsed, Tick
<1>3. gap < TickMod
  BY <1>1, <1>2
<1>4. /\ next \in Int /\ 0 <= next /\ next < TickMod
      /\ now + gap < TickMod => next = now + gap
      /\ TickMod <= now + gap => next = now + gap - TickMod
  <2>1. PICK x \in Int : x = now + gap
    BY <1>1
  <2>2. x \in Int /\ 0 <= x /\ x < TickMod + TickMod
    BY <1>1, <1>3, <2>1
  <2>3. /\ Tick(x) \in Int /\ 0 <= Tick(x) /\ Tick(x) < TickMod
        /\ x < TickMod => Tick(x) = x
        /\ TickMod <= x => Tick(x) = x - TickMod
    BY <2>2, Wrapped
  <2>4. next = Tick(x)
    BY <2>1
  <2> HIDE DEF next
  <2> QED  BY <1>1, <2>1, <2>3, <2>4
<1>5. /\ from <= now => Elapsed(from) = now - from
      /\ now < from => Elapsed(from) = now - from + TickMod
  <2>1. /\ now - from \in Int /\ - TickMod <= now - from /\ now - from < TickMod
        /\ from <= now => 0 <= now - from
        /\ now < from => now - from < 0
    BY <1>1
  <2> QED  BY <1>2, <2>1, Wrapped
<1>6. Tick(next - from) = Elapsed(from) + gap
  <2> HIDE DEF next
  <2>1. /\ next - from \in Int /\ - TickMod <= next - from /\ next - from < TickMod
        /\ next - from = Elapsed(from) + gap \/ next - from + TickMod = Elapsed(from) + gap
    BY <1>1, <1>2, <1>3, <1>4, <1>5
  <2>2. CASE 0 <= next - from
    <3>1. Tick(next - from) = next - from
      BY <2>1, <2>2, Wrapped
    <3> QED  BY <1>1, <1>2, <1>4, <2>1, <2>2, <3>1
  <2>3. CASE next - from < 0
    <3>1. Tick(next - from) = next - from + TickMod
      BY <2>1, <2>3, Wrapped
    <3> QED  BY <1>1, <1>2, <1>4, <2>1, <2>3, <3>1
  <2> QED  BY <1>1, <1>4, <2>2, <2>3
<1> QED  BY <1>4, <1>6, TicksAre DEF Tick

-----------------------------------------------------------------------------
(* The volume                                                              *)

LEMMA StepIsAStep == Step \in 1 .. 100
  BY KeyPanelAssumption

LEMMA Constants ==
  /\ PositionMin = 5 /\ PositionMax = 245 /\ PositionDefault = 5
  /\ LevelMin = 0 /\ LevelMax = 100
  /\ LevelToPosition(0) = 5 /\ PositionToLevel(5) = 0
  BY DEF PositionMin, PositionMax, PositionDefault, LevelMin, LevelMax,
         LevelToPosition, PositionToLevel

Tracked(v) == v.ready => v.wiper = LevelToPosition(v.level)

(* An initialization leaves the wiper or puts it to the least position,    *)
(* and succeeds only with the latter.                                      *)
LEMMA InitializedVolume ==
  ASSUME NEW v \in Volumes, NEW w \in Initialized(v)
  PROVE  /\ w \in Volumes /\ w.wiper \in {v.wiper, 5}
         /\ w.ready => w.wiper = 5 /\ w.level = 0
<1>1. PICK chip \in Defaulted(v), read \in BOOLEAN :
        w = [ready |-> chip.ok /\ read, wiper |-> chip.wiper,
             level |-> IF chip.ok /\ read THEN PositionToLevel(chip.wiper) ELSE LevelMin]
  BY DEF Initialized, Reads
<1>2. PICK write \in Written(v, 5), verify \in BOOLEAN :
        chip = [ok |-> write.ok /\ verify /\ write.wiper = 5, wiper |-> write.wiper]
  BY Constants DEF Defaulted, Reads
<1>3. write.ok \in BOOLEAN /\ write.wiper \in {v.wiper, 5}
  BY DEF Written
<1>4. v.wiper \in 5 .. 245
  BY DEF Volumes
<1>5. chip.wiper = write.wiper /\ chip.ok \in BOOLEAN /\ (chip.ok => chip.wiper = 5)
  BY <1>2, <1>3
<1> QED  BY <1>1, <1>3, <1>4, <1>5, Constants DEF Volumes

LEMMA RequestedLevel ==
  ASSUME NEW v \in Volumes, NEW s \in {Step, - Step}
  PROVE  /\ Requested(v, s) \in 0 .. 100
         /\ s = Step => Requested(v, s) = Least(v.level + Step, 100)
         /\ s = - Step => Requested(v, s) <= v.level
  BY StepIsAStep, Constants DEF Requested, Least, Volumes

(* A step leaves the wiper or puts it where it was asked to, and a level   *)
(* that is believed is the wiper's.                                        *)
LEMMA SteppedVolume ==
  ASSUME NEW v \in Volumes, v.ready, Tracked(v),
         NEW s \in {Step, - Step}, NEW w \in Stepped(v, s)
  PROVE  /\ w \in Volumes /\ Tracked(w)
         /\ w.wiper \in {v.wiper, LevelToPosition(Requested(v, s))}
<1> DEFINE level == Requested(v, s)
<1>1. level \in 0 .. 100
  BY RequestedLevel
<1>2. v.level \in 0 .. 100 /\ v.wiper \in 5 .. 245
  BY DEF Volumes
<1>3. CASE level = v.level
  <2>1. w = v
    BY <1>3 DEF Stepped
  <2> QED  BY <2>1
<1>4. CASE level # v.level
  <2>1. PICK write \in Written(v, LevelToPosition(level)), read \in BOOLEAN :
          w = IF ReadBack(write, read, level)
                THEN [ready |-> TRUE, level |-> level, wiper |-> write.wiper]
                ELSE [ready |-> FALSE, level |-> v.level, wiper |-> write.wiper]
    BY <1>4 DEF Stepped, Reads
  <2>2. write.wiper \in {v.wiper, LevelToPosition(level)}
    BY DEF Written
  <2>3. LevelToPosition(level) \in 5 .. 245
    BY <1>1, PositionOfLevel
  <2>4. CASE ~ ReadBack(write, read, level)
    <3>1. w = [ready |-> FALSE, level |-> v.level, wiper |-> write.wiper]
      BY <2>1, <2>4
    <3>2. w \in Volumes /\ w.wiper = write.wiper /\ ~ w.ready
      BY <1>2, <2>2, <2>3, <3>1 DEF Volumes
    <3> QED  BY <2>2, <3>2 DEF Tracked
  <2>5. CASE ReadBack(write, read, level)
    <3>1. w = [ready |-> TRUE, level |-> level, wiper |-> write.wiper]
      BY <2>1, <2>5
    <3>2. PositionToLevel(v.wiper) = v.level
      BY <1>2, PositionOfLevel DEF Tracked
    <3>3. write.wiper = LevelToPosition(level)
      BY <1>4, <2>2, <2>5, <3>2 DEF ReadBack
    <3> QED  BY <1>1, <2>3, <3>1, <3>3 DEF Volumes, Tracked
  <2> QED  BY <2>4, <2>5
<1> QED  BY <1>3, <1>4

(* Where a press may put the wiper above where it was.                     *)
Louder(v, s, w) ==
  w.wiper > v.wiper =>
    /\ s = Step
    /\ w.wiper <= LevelToPosition(Least(PositionToLevel(v.wiper) + Step, LevelMax))

LEMMA PressedVolume ==
  ASSUME NEW v \in Volumes, Tracked(v), NEW s \in {Step, - Step},
         NEW w \in Pressed(v, s)
  PROVE  w \in Volumes /\ Tracked(w) /\ Louder(v, s, w)
<1> DEFINE target == Least(PositionToLevel(v.wiper) + Step, 100)
<1>1. v.level \in 0 .. 100 /\ v.wiper \in 5 .. 245 /\ v.ready \in BOOLEAN
  BY DEF Volumes
<1>2. PositionToLevel(v.wiper) \in 0 .. 100 /\ target \in 0 .. 100 /\ Step <= target
  <2>1. PositionToLevel(v.wiper) \in 0 .. 100
    BY <1>1, LevelOfPosition
  <2>2. \A a \in 0 .. 100 : Least(a + Step, 100) \in 0 .. 100 /\ Step <= Least(a + Step, 100)
    BY StepIsAStep DEF Least
  <2> QED  BY <2>1, <2>2
<1>3. CASE v.ready
  <2>1. w \in Stepped(v, s)
    BY <1>3 DEF Pressed
  <2>2. /\ w \in Volumes /\ Tracked(w)
        /\ w.wiper \in {v.wiper, LevelToPosition(Requested(v, s))}
    BY <1>3, <2>1, SteppedVolume
  <2>3. v.wiper = LevelToPosition(v.level) /\ PositionToLevel(v.wiper) = v.level
    BY <1>1, <1>3, PositionOfLevel DEF Tracked
  <2>4. CASE s = Step
    <3>1. Requested(v, s) = target
      BY <2>3, <2>4, RequestedLevel
    <3>2. LevelToPosition(target) \in 5 .. 245
      BY <1>2, PositionOfLevel
    <3> QED  BY <1>1, <2>2, <2>4, <3>1, <3>2, Constants DEF Louder
  <2>5. CASE s = - Step
    <3>1. Requested(v, s) \in 0 .. 100 /\ Requested(v, s) <= v.level
      BY <2>5, RequestedLevel
    <3>2. /\ LevelToPosition(Requested(v, s)) \in 5 .. 245
          /\ LevelToPosition(Requested(v, s)) <= v.wiper
      <4>1. PICK a \in 0 .. 100 : a = Requested(v, s)
        BY <3>1
      <4>2. LevelToPosition(a) \in 5 .. 245 /\ LevelToPosition(a) <= LevelToPosition(v.level)
        BY <1>1, <3>1, <4>1, LouderIsHigher, PositionOfLevel
      <4> QED  BY <2>3, <4>1, <4>2
    <3>3. /\ v.wiper \in Int /\ w.wiper \in Int
          /\ w.wiper = v.wiper \/ w.wiper = LevelToPosition(Requested(v, s))
      BY <1>1, <2>2, <3>2
    <3>4. ~ (w.wiper > v.wiper)
      BY <3>2, <3>3
    <3> QED  BY <2>2, <3>4 DEF Louder
  <2> QED  BY <2>4, <2>5
<1>4. CASE ~ v.ready
  <2>1. PICK i \in Initialized(v) : w \in IF i.ready THEN Stepped(i, s) ELSE {i}
    BY <1>4 DEF Pressed
  <2>2. /\ i \in Volumes /\ i.wiper \in {v.wiper, 5}
        /\ i.ready => i.wiper = 5 /\ i.level = 0
    BY InitializedVolume
  <2>3. CASE ~ i.ready
    <3>1. w = i
      BY <2>1, <2>3
    <3> QED  BY <1>1, <2>2, <2>3, <3>1 DEF Tracked, Louder
  <2>4. CASE i.ready
    <3>1. w \in Stepped(i, s) /\ Tracked(i)
      BY <2>1, <2>2, <2>4, Constants DEF Tracked
    <3>2. /\ w \in Volumes /\ Tracked(w)
          /\ w.wiper \in {5, LevelToPosition(Requested(i, s))}
      BY <2>2, <2>4, <3>1, SteppedVolume
    <3>3. CASE s = Step
      <4>1. Requested(i, s) = Step
        BY <2>2, <2>4, <3>3, RequestedLevel, StepIsAStep DEF Least
      <4>2. /\ LevelToPosition(Step) <= LevelToPosition(target)
            /\ LevelToPosition(Step) \in 5 .. 245
            /\ LevelToPosition(target) \in 5 .. 245
        <5>1. PICK a \in 0 .. 100 : a = Step
          BY StepIsAStep
        <5>2. PICK b \in 0 .. 100 : b = target
          BY <1>2
        <5>3. a <= b
          BY <1>2, <5>1, <5>2
        <5>4. /\ LevelToPosition(a) <= LevelToPosition(b)
              /\ LevelToPosition(a) \in 5 .. 245 /\ LevelToPosition(b) \in 5 .. 245
          BY <5>3, LouderIsHigher, PositionOfLevel
        <5> QED  BY <5>1, <5>2, <5>4
      <4> QED  BY <1>1, <3>2, <3>3, <4>1, <4>2, Constants DEF Louder
    <3>4. CASE s = - Step
      <4>1. Requested(i, s) = 0
        BY <2>2, <2>4, <3>4, RequestedLevel
      <4>2. w.wiper = 5
        BY <3>2, <4>1, Constants
      <4> QED  BY <1>1, <3>2, <4>2 DEF Louder
    <3> QED  BY <3>3, <3>4
  <2> QED  BY <2>3, <2>4
<1> QED  BY <1>1, <1>3, <1>4

VolumeInv == volume \in Volumes /\ Tracked(volume)

LEMMA InitVolume == Init => VolumeInv
<1> SUFFICES ASSUME Init PROVE VolumeInv
  OBVIOUS
<1> DEFINE v == [ready |-> FALSE, level |-> LevelMin, wiper |-> PositionPowerUp]
<1>1. v \in Volumes
  BY Constants DEF Volumes, PositionPowerUp
<1>2. volume \in Initialized(v)
  BY DEF Init
<1> QED  BY <1>1, <1>2, InitializedVolume, Constants DEF VolumeInv, Tracked

(* What any step does to the volume: nothing, or what a press does.        *)
LEMMA NextVolume ==
  ASSUME VolumeInv, [Next]_vars
  PROVE  /\ VolumeInv'
         /\ volume'.wiper > volume.wiper =>
              /\ turn = "up"
              /\ volume'.wiper <= LevelToPosition(Least(PositionToLevel(volume.wiper) + Step, LevelMax))
<1>1. volume.wiper \in 5 .. 245
  BY DEF VolumeInv, Volumes
<1>2. CASE UNCHANGED volume
  BY <1>1, <1>2 DEF VolumeInv, Tracked
<1>3. ASSUME NEW k \in Keys, turn = k, volume' \in Pressed(volume, Signed(k))
      PROVE  /\ VolumeInv'
             /\ volume'.wiper > volume.wiper =>
                  /\ turn = "up"
                  /\ volume'.wiper <= LevelToPosition(Least(PositionToLevel(volume.wiper) + Step, LevelMax))
  <2>1. Signed(k) \in {Step, - Step} /\ (Signed(k) = Step => k = "up")
    BY StepIsAStep DEF Signed, Keys
  <2>2. volume' \in Volumes /\ Tracked(volume') /\ Louder(volume, Signed(k), volume')
    BY <1>3, <2>1, PressedVolume DEF VolumeInv
  <2> QED  BY <1>3, <2>1, <2>2 DEF VolumeInv, Tracked, Louder
<1>4. ASSUME NEW k \in Keys, Visit(k)
      PROVE  turn = k /\ (UNCHANGED volume \/ volume' \in Pressed(volume, Signed(k)))
  BY <1>4 DEF Visit, OnEvent
<1>5. CASE Sleep
  BY <1>2, <1>5 DEF Sleep
<1>6. CASE \E k \in Keys : Visit(k)
  BY <1>2, <1>3, <1>4, <1>6
<1>7. CASE UNCHANGED vars
  BY <1>2, <1>7 DEF vars
<1> QED  BY <1>5, <1>6, <1>7 DEF Next

(* For every step size and under any faults of the bus, the level the      *)
(* service believes is that of the wiper (audio_volume_service.c:83-101).  *)
THEOREM VolumeTracked == Spec => []LevelIsWiper
<1>1. VolumeInv => LevelIsWiper
  BY DEF VolumeInv, Tracked, LevelIsWiper
<1>2. VolumeInv /\ [Next]_vars => VolumeInv'
  BY NextVolume
<1> QED  BY InitVolume, <1>1, <1>2, PTL DEF Spec

(* ... and no press makes the speaker louder by more than one step.        *)
THEOREM VolumeNeverLeaps == Spec => NeverLeaps
<1>1. VolumeInv /\ [Next]_vars => VolumeInv'
  BY NextVolume
<1>2. VolumeInv /\ [Next]_vars =>
        [volume'.wiper > volume.wiper =>
           /\ turn = "up"
           /\ volume'.wiper <= LevelToPosition(Least(PositionToLevel(volume.wiper) + Step, LevelMax))]_vars
  BY NextVolume
<1> QED  BY InitVolume, <1>1, <1>2, PTL DEF Spec, NeverLeaps

-----------------------------------------------------------------------------
(* The detector                                                            *)

(* The fields that an operation of the detector leaves alone.              *)
SameSample(a, b) == a.raw = b.raw /\ a.stable = b.stable /\ a.edge = b.edge

LEMMA SampledButton ==
  ASSUME NEW b \in Buttons, NEW pressed \in BOOLEAN, now \in Ticks
  PROVE  LET s == Sampled(b, pressed)
         IN /\ s \in Buttons
            /\ s.raw = pressed /\ s.stable = b.stable /\ s.state = b.state
            /\ s.edge = IF pressed = b.raw THEN b.edge ELSE now
            /\ s.release = b.release /\ s.press = b.press /\ s.event = "NONE"
  BY DEF Sampled, Buttons, EventsOf

LEMMA PressedButton ==
  ASSUME NEW b \in Buttons, now \in Ticks, b.event = "NONE"
  PROVE  LET o == OnPress(b)
         IN /\ o \in Buttons /\ SameSample(o, b)
            /\ b.state = "IDLE" => o.state = "PRESSED" /\ o.event = "PRESS"
            /\ b.state = "WAIT_SECOND" /\ Elapsed(b.release) <= DoubleClick =>
                 o.state = "SECOND_PRESSED" /\ o.event = "PRESS"
            /\ b.state = "WAIT_SECOND" /\ ~ (Elapsed(b.release) <= DoubleClick) =>
                 o.state = "PRESSED" /\ o.event = "CLICK"
<1>0. Elapsed(b.release) \in Int /\ DoubleClick \in Int
  <2>1. b.release \in Ticks /\ DoubleClick \in Nat
    BY KeyPanelAssumption DEF Buttons
  <2>2. Elapsed(b.release) \in Ticks
    BY <2>1, ElapsedTick
  <2> QED  BY <2>1, <2>2, TicksAre
<1>1. CASE b.state = "IDLE"
  <2>1. OnPress(b) = [b EXCEPT !.state = "PRESSED", !.press = now, !.event = "PRESS"]
    BY <1>1 DEF OnPress
  <2> QED  BY <1>1, <2>1 DEF Buttons, EventsOf, States, SameSample
<1>2. CASE b.state = "WAIT_SECOND" /\ Elapsed(b.release) <= DoubleClick
  <2>1. ~ (Elapsed(b.release) > DoubleClick)
    BY <1>0, <1>2
  <2>2. OnPress(b) = [b EXCEPT !.state = "SECOND_PRESSED", !.press = now, !.event = "PRESS"]
    BY <1>2, <2>1 DEF OnPress
  <2> QED  BY <1>2, <2>2 DEF Buttons, EventsOf, States, SameSample
<1>3. CASE b.state = "WAIT_SECOND" /\ ~ (Elapsed(b.release) <= DoubleClick)
  <2>1. Elapsed(b.release) > DoubleClick
    BY <1>0, <1>3
  <2>2. OnPress(b) = [b EXCEPT !.state = "PRESSED", !.press = now, !.event = "CLICK"]
    BY <1>3, <2>1 DEF OnPress
  <2> QED  BY <1>3, <2>2 DEF Buttons, EventsOf, States, SameSample
<1>4. CASE b.state \notin {"IDLE", "WAIT_SECOND"}
  <2>1. OnPress(b) = b
    BY <1>4 DEF OnPress
  <2> QED  BY <1>4, <2>1 DEF SameSample
<1> QED  BY <1>1, <1>2, <1>3, <1>4

LEMMA ReleasedButton ==
  ASSUME NEW b \in Buttons, now \in Ticks
  PROVE  LET o == OnRelease(b)
         IN /\ o \in Buttons /\ SameSample(o, b)
            /\ b.state = "PRESSED" =>
                 o.state = "WAIT_SECOND" /\ o.release = now /\ o.event = "RELEASE"
            /\ b.state = "SECOND_PRESSED" => o.state = "IDLE" /\ o.event = "DOUBLE_CLICK"
            /\ b.state = "LONG_FIRED" => o.state = "IDLE" /\ o.event = "RELEASE"
            /\ b.state \in {"IDLE", "WAIT_SECOND"} => o = b
<1>1. CASE b.state = "PRESSED"
  <2>1. OnRelease(b) = [b EXCEPT !.state = "WAIT_SECOND", !.release = now, !.event = "RELEASE"]
    BY <1>1 DEF OnRelease
  <2> QED  BY <1>1, <2>1 DEF Buttons, EventsOf, States, SameSample
<1>2. CASE b.state = "SECOND_PRESSED"
  <2>1. OnRelease(b) = [b EXCEPT !.state = "IDLE", !.event = "DOUBLE_CLICK"]
    BY <1>2 DEF OnRelease
  <2> QED  BY <1>2, <2>1 DEF Buttons, EventsOf, States, SameSample
<1>3. CASE b.state = "LONG_FIRED"
  <2>1. OnRelease(b) = [b EXCEPT !.state = "IDLE", !.event = "RELEASE"]
    BY <1>3 DEF OnRelease
  <2> QED  BY <1>3, <2>1 DEF Buttons, EventsOf, States, SameSample
<1>4. CASE b.state \in {"IDLE", "WAIT_SECOND"}
  <2>1. OnRelease(b) = b
    BY <1>4 DEF OnRelease
  <2> QED  BY <1>4, <2>1 DEF SameSample
<1> QED  BY <1>1, <1>2, <1>3, <1>4 DEF Buttons, States

LEMMA TimedButton ==
  ASSUME NEW b \in Buttons
  PROVE  LET o == TimedEvent(b)
         IN /\ o \in Buttons /\ SameSample(o, b) /\ o.release = b.release
            /\ \/ /\ b.state \in {"PRESSED", "SECOND_PRESSED"}
                  /\ o.state = "LONG_FIRED" /\ o.event = "LONG_PRESS"
               \/ b.state = "WAIT_SECOND" /\ o.state = "IDLE" /\ o.event = "CLICK"
               \/ /\ o.state = b.state /\ o.event = b.event
                  /\ b.state = "WAIT_SECOND" => ~ (Elapsed(b.release) >= DoubleClick)
<1>1. CASE b.state \in {"PRESSED", "SECOND_PRESSED"} /\ Elapsed(b.press) >= LongPress
  <2>1. TimedEvent(b) = [b EXCEPT !.state = "LONG_FIRED", !.event = "LONG_PRESS"]
    BY <1>1 DEF TimedEvent
  <2> QED  BY <1>1, <2>1 DEF Buttons, EventsOf, States, SameSample
<1>2. CASE b.state = "WAIT_SECOND" /\ Elapsed(b.release) >= DoubleClick
  <2>1. TimedEvent(b) = [b EXCEPT !.state = "IDLE", !.event = "CLICK"]
    BY <1>2 DEF TimedEvent
  <2> QED  BY <1>2, <2>1 DEF Buttons, EventsOf, States, SameSample
<1>3. CASE /\ ~ (b.state \in {"PRESSED", "SECOND_PRESSED"} /\ Elapsed(b.press) >= LongPress)
           /\ ~ (b.state = "WAIT_SECOND" /\ Elapsed(b.release) >= DoubleClick)
  <2>1. TimedEvent(b) = b
    BY <1>3 DEF TimedEvent
  <2> QED  BY <1>3, <2>1 DEF SameSample
<1> QED  BY <1>1, <1>2, <1>3

LEMMA ForgottenButton ==
  ASSUME NEW b \in Buttons, 0 \in Ticks
  PROVE  LET o == Forget(b)
         IN /\ o \in Buttons
            /\ o.raw = b.raw /\ o.stable = b.stable
            /\ o.state = b.state /\ o.event = b.event
            /\ b.raw # b.stable => o.edge = b.edge
            /\ b.state = "WAIT_SECOND" => o.release = b.release
  BY DEF Forget, Buttons

(* The edge that counts for a sample.                                      *)
EdgeOf(b, pressed) == IF pressed = b.raw THEN b.edge ELSE now

Accepted(b, pressed) == pressed # b.stable /\ Elapsed(EdgeOf(b, pressed)) >= Debounce

(* No level is accepted: the detector moves only with the time.            *)
LEMMA UpdateWithoutEdge ==
  ASSUME NEW b \in Buttons, NEW pressed \in BOOLEAN, now \in Ticks, 0 \in Ticks,
         ~ Accepted(b, pressed)
  PROVE  LET u == Update(b, pressed)
         IN /\ u \in Buttons
            /\ u.raw = pressed /\ u.stable = b.stable
            /\ u.raw # u.stable => u.edge = EdgeOf(b, pressed)
            /\ \/ /\ b.state \in {"PRESSED", "SECOND_PRESSED"}
                  /\ u.state = "LONG_FIRED" /\ u.event = "LONG_PRESS"
               \/ b.state = "WAIT_SECOND" /\ u.state = "IDLE" /\ u.event = "CLICK"
               \/ /\ u.state = b.state /\ u.event = "NONE"
                  /\ b.state = "WAIT_SECOND" =>
                       /\ u.release = b.release
                       /\ ~ (Elapsed(b.release) >= DoubleClick)
<1> DEFINE s == Sampled(b, pressed)
<1>1. /\ s \in Buttons
      /\ s.raw = pressed /\ s.stable = b.stable /\ s.state = b.state
      /\ s.edge = EdgeOf(b, pressed) /\ s.release = b.release /\ s.event = "NONE"
  BY SampledButton DEF EdgeOf
<1>2. ~ Accepts(s)
  BY <1>1 DEF Accepts, Accepted
<1>3. Update(b, pressed) = Forget(TimedEvent(s))
  BY <1>1, <1>2 DEF Update, Debounced
<1> HIDE DEF s
<1> DEFINE t == TimedEvent(s)
<1>4. /\ t \in Buttons /\ SameSample(t, s) /\ t.release = s.release
      /\ \/ /\ s.state \in {"PRESSED", "SECOND_PRESSED"}
            /\ t.state = "LONG_FIRED" /\ t.event = "LONG_PRESS"
         \/ s.state = "WAIT_SECOND" /\ t.state = "IDLE" /\ t.event = "CLICK"
         \/ /\ t.state = s.state /\ t.event = s.event
            /\ s.state = "WAIT_SECOND" => ~ (Elapsed(s.release) >= DoubleClick)
  BY <1>1, TimedButton
<1> HIDE DEF t
<1> DEFINE u == Forget(t)
<1>5. /\ u \in Buttons
      /\ u.raw = t.raw /\ u.stable = t.stable
      /\ u.state = t.state /\ u.event = t.event
      /\ t.raw # t.stable => u.edge = t.edge
      /\ t.state = "WAIT_SECOND" => u.release = t.release
  BY <1>4, ForgottenButton
<1>6. Update(b, pressed) = u
  BY <1>3 DEF t
<1> HIDE DEF u
<1> QED  BY <1>1, <1>4, <1>5, <1>6 DEF SameSample

(* A press is accepted.                                                    *)
LEMMA UpdateOnPress ==
  ASSUME NEW b \in Buttons, now \in Ticks, 0 \in Ticks, Accepted(b, TRUE),
         b.state \in {"IDLE", "WAIT_SECOND"}
  PROVE  LET u == Update(b, TRUE)
         IN /\ u \in Buttons /\ u.raw /\ u.stable
            /\ u.state \in {"PRESSED", "SECOND_PRESSED"}
            /\ u.event = "PRESS" \/ u.event = "CLICK"
            /\ u.event = "CLICK" =>
                 b.state = "WAIT_SECOND" /\ ~ (Elapsed(b.release) <= DoubleClick)
<1> DEFINE s == Sampled(b, TRUE)
<1>1. /\ s \in Buttons
      /\ s.raw /\ s.stable = b.stable /\ s.state = b.state
      /\ s.edge = EdgeOf(b, TRUE) /\ s.release = b.release /\ s.event = "NONE"
  BY SampledButton DEF EdgeOf
<1>2. Accepts(s)
  BY <1>1 DEF Accepts, Accepted
<1> HIDE DEF s
<1> DEFINE a == [s EXCEPT !.stable = s.raw]
<1>3. /\ a \in Buttons
      /\ a.raw /\ a.stable /\ a.state = b.state /\ a.release = b.release
      /\ a.event = "NONE"
  BY <1>1 DEF Buttons
<1>4. Debounced(s) = OnPress(a)
  BY <1>1, <1>2 DEF Debounced
<1> HIDE DEF a
<1> DEFINE o == OnPress(a)
<1>5. /\ o \in Buttons /\ SameSample(o, a)
      /\ a.state = "IDLE" => o.state = "PRESSED" /\ o.event = "PRESS"
      /\ a.state = "WAIT_SECOND" /\ Elapsed(a.release) <= DoubleClick =>
           o.state = "SECOND_PRESSED" /\ o.event = "PRESS"
      /\ a.state = "WAIT_SECOND" /\ ~ (Elapsed(a.release) <= DoubleClick) =>
           o.state = "PRESSED" /\ o.event = "CLICK"
  BY <1>3, PressedButton
<1> HIDE DEF o
<1>6. o.event # "NONE"
  BY <1>3, <1>5
<1>7. Update(b, TRUE) = Forget(o)
  BY <1>4, <1>6 DEF Update, s, o
<1> DEFINE u == Forget(o)
<1>8. /\ u \in Buttons
      /\ u.raw = o.raw /\ u.stable = o.stable
      /\ u.state = o.state /\ u.event = o.event
  BY <1>5, ForgottenButton
<1> HIDE DEF u
<1>9. Update(b, TRUE) = u
  BY <1>7 DEF u
<1> QED  BY <1>3, <1>5, <1>8, <1>9 DEF SameSample

(* A release is accepted.                                                  *)
LEMMA UpdateOnRelease ==
  ASSUME NEW b \in Buttons, now \in Ticks, 0 \in Ticks, Accepted(b, FALSE),
         b.state # "WAIT_SECOND"
  PROVE  LET u == Update(b, FALSE)
         IN /\ u \in Buttons /\ ~ u.raw /\ ~ u.stable
            /\ u.state \in {"IDLE", "WAIT_SECOND"}
            /\ u.event \notin {"PRESS", "LONG_PRESS"}
            /\ u.state = "WAIT_SECOND" => u.release = now
<1> DEFINE s == Sampled(b, FALSE)
<1>1. /\ s \in Buttons
      /\ s.raw = FALSE /\ s.stable = b.stable /\ s.state = b.state
      /\ s.edge = EdgeOf(b, FALSE) /\ s.release = b.release /\ s.event = "NONE"
  BY SampledButton DEF EdgeOf
<1>2. Accepts(s)
  BY <1>1 DEF Accepts, Accepted
<1> HIDE DEF s
<1> DEFINE a == [s EXCEPT !.stable = s.raw]
<1>3. /\ a \in Buttons
      /\ ~ a.raw /\ ~ a.stable /\ a.state = b.state /\ a.event = "NONE"
  BY <1>1 DEF Buttons
<1>4. Debounced(s) = OnRelease(a)
  BY <1>1, <1>2 DEF Debounced
<1> HIDE DEF a
<1> DEFINE o == OnRelease(a)
<1>5. /\ o \in Buttons /\ SameSample(o, a)
      /\ o.state = "WAIT_SECOND" => o.release = now /\ o.event = "RELEASE"
      /\ o.state \in {"IDLE", "WAIT_SECOND"}
      /\ o.event \in {"NONE", "RELEASE", "DOUBLE_CLICK"}
  <2>1. a.state \in {"IDLE", "PRESSED", "SECOND_PRESSED", "LONG_FIRED"}
    BY <1>3 DEF Buttons, States
  <2>2. /\ o \in Buttons /\ SameSample(o, a)
        /\ a.state = "PRESSED" =>
             o.state = "WAIT_SECOND" /\ o.release = now /\ o.event = "RELEASE"
        /\ a.state = "SECOND_PRESSED" => o.state = "IDLE" /\ o.event = "DOUBLE_CLICK"
        /\ a.state = "LONG_FIRED" => o.state = "IDLE" /\ o.event = "RELEASE"
        /\ a.state \in {"IDLE", "WAIT_SECOND"} => o = a
    BY <1>3, ReleasedButton
  <2> HIDE DEF o
  <2> QED  BY <1>3, <2>1, <2>2
<1> HIDE DEF o
<1> DEFINE t == IF o.event = "NONE" THEN TimedEvent(o) ELSE o
<1>6. t = o
  <2>1. CASE o.event = "NONE"
    <3>1. o.state = "IDLE"
      BY <1>5, <2>1
    <3>2. TimedEvent(o) = o
      BY <3>1 DEF TimedEvent
    <3> QED  BY <2>1, <3>2
  <2> QED  BY <2>1
<1>7. Update(b, FALSE) = Forget(t)
  BY <1>4 DEF Update, s, o
<1> HIDE DEF t
<1> DEFINE u == Forget(o)
<1>8. /\ u \in Buttons
      /\ u.raw = o.raw /\ u.stable = o.stable
      /\ u.state = o.state /\ u.event = o.event
      /\ o.state = "WAIT_SECOND" => u.release = o.release
  BY <1>5, ForgottenButton
<1> HIDE DEF u
<1>9. Update(b, FALSE) = u
  BY <1>6, <1>7 DEF u
<1> QED  BY <1>3, <1>5, <1>8, <1>9 DEF SameSample

-----------------------------------------------------------------------------
(* The keys                                                                *)

Age(t, from) == (t - from) % TickMod

(* The invariant of a key whose detector is b and whose history is w, when *)
(* the loop's tick is t and it has, or has not, visited the key with it.   *)
(*                                                                         *)
(* While a sample differs from the accepted level, the time since its edge *)
(* is the time the samples have agreed, and no visit lets it reach the     *)
(* debounce time.                                                          *)
EdgeAge(b, w, t, visited) ==
  b.raw # b.stable =>
    /\ Age(t, b.edge) < Debounce + MaxGap
    /\ w.agreed = Least(Age(t, b.edge), Debounce)
    /\ visited => Age(t, b.edge) < Debounce

(* The same for the double click window.                                   *)
ReleaseAge(b, w, t, visited) ==
  b.state = "WAIT_SECOND" =>
    /\ w.released = Age(t, b.release)
    /\ w.released < DoubleClick + MaxGap
    /\ visited => w.released < DoubleClick

(* What was reported in the hold, by the state of the detector.            *)
HoldCounts(b, w) ==
  /\ ~ b.stable =>
       /\ b.state \in {"IDLE", "WAIT_SECOND"}
       /\ w.presses = 0 /\ w.longs = 0
  /\ b.stable => b.state # "WAIT_SECOND"
  /\ b.state \in {"PRESSED", "SECOND_PRESSED"} => w.longs = 0
  /\ w.presses \in {0, 1} /\ w.longs \in {0, 1}

KeyOK(b, w, t, visited) ==
  EdgeAge(b, w, t, visited) /\ ReleaseAge(b, w, t, visited) /\ HoldCounts(b, w)

Visited(k) == turn = "sleep" \/ (turn = "up" /\ k = "down")

KeyTypes ==
  /\ now \in Ticks
  /\ turn \in Keys \cup {"sleep"}
  /\ button \in [Keys -> Buttons]
  /\ seen \in [Keys -> Histories]

KeyInv ==
  /\ KeyTypes
  /\ \A k \in Keys : KeyOK(button[k], seen[k], now, Visited(k))

LEMMA Timing ==
  /\ Debounce \in Nat \ {0} /\ DoubleClick \in Nat \ {0} /\ MaxGap \in Nat \ {0}
  /\ TickMod \in Nat \ {0} /\ 0 \in Ticks
  /\ Debounce + MaxGap < TickMod /\ DoubleClick + MaxGap < TickMod
  BY KeyPanelAssumption DEF Ticks

LEMMA AgeIs ==
  ASSUME now \in Ticks, NEW from \in Ticks
  PROVE  /\ Elapsed(from) = Age(now, from)
         /\ Age(now, from) \in Int /\ 0 <= Age(now, from)
         /\ Age(now, now) = 0
  BY ElapsedTick, TicksAre DEF Elapsed, Age

(* The visit of one key.                                                   *)
LEMMA VisitedKey ==
  ASSUME now \in Ticks, NEW b \in Buttons, NEW w \in Histories,
         NEW pressed \in BOOLEAN, KeyOK(b, w, now, FALSE)
  PROVE  LET u == Update(b, pressed)
             x == Recorded(w, b, u, pressed)
         IN /\ u \in Buttons /\ x \in Histories /\ KeyOK(u, x, now, TRUE)
            /\ ~ b.stable /\ u.stable =>
                 \/ u.event = "PRESS"
                 \/ DoubleClick < w.released /\ w.released < DoubleClick + MaxGap
<1> DEFINE u == Update(b, pressed)
           x == Recorded(w, b, u, pressed)
           edge == EdgeOf(b, pressed)
           agreed == IF pressed = b.raw THEN w.agreed ELSE 0
           over == ~ pressed /\ agreed >= Debounce
<1>1. /\ b.raw \in BOOLEAN /\ b.stable \in BOOLEAN /\ b.state \in States
      /\ b.edge \in Ticks /\ b.release \in Ticks
  BY DEF Buttons
<1>2. /\ w.agreed \in 0 .. Debounce /\ w.released \in 0 .. DoubleClick + MaxGap
      /\ w.presses \in {0, 1} /\ w.longs \in {0, 1}
  BY DEF Histories, KeyOK, HoldCounts
<1>3. /\ x.agreed = agreed
      /\ x.released = IF b.stable /\ ~ u.stable THEN 0 ELSE w.released
      /\ x.presses = IF over THEN 0 ELSE w.presses + IF u.event = "PRESS" THEN 1 ELSE 0
      /\ x.longs = IF over THEN 0 ELSE w.longs + IF u.event = "LONG_PRESS" THEN 1 ELSE 0
      /\ x \in Histories
  BY <1>2, Timing DEF Recorded, Histories
<1>4. /\ edge \in Ticks /\ Elapsed(edge) = Age(now, edge)
      /\ Age(now, edge) \in Int /\ 0 <= Age(now, edge) /\ Age(now, now) = 0
  <2>1. edge \in Ticks
    BY <1>1 DEF EdgeOf
  <2> QED  BY <2>1, AgeIs
<1>5. /\ Elapsed(b.release) = Age(now, b.release) /\ Age(now, b.release) \in Int
  BY <1>1, AgeIs
<1>6. pressed # b.stable => agreed = Least(Age(now, edge), Debounce)
  <2>1. CASE pressed = b.raw
    BY <2>1 DEF KeyOK, EdgeAge, EdgeOf
  <2>2. CASE pressed # b.raw
    BY <1>4, <2>2, Timing DEF EdgeOf, Least
  <2> QED  BY <2>1, <2>2
<1> HIDE DEF u, x, edge, agreed
<1>7. CASE ~ Accepted(b, pressed)
  <2>1. /\ u \in Buttons
        /\ u.raw = pressed /\ u.stable = b.stable
        /\ u.raw # u.stable => u.edge = edge
        /\ \/ /\ b.state \in {"PRESSED", "SECOND_PRESSED"}
              /\ u.state = "LONG_FIRED" /\ u.event = "LONG_PRESS"
           \/ b.state = "WAIT_SECOND" /\ u.state = "IDLE" /\ u.event = "CLICK"
           \/ /\ u.state = b.state /\ u.event = "NONE"
              /\ b.state = "WAIT_SECOND" =>
                   /\ u.release = b.release
                   /\ ~ (Elapsed(b.release) >= DoubleClick)
    BY <1>7, Timing, UpdateWithoutEdge DEF u, edge
  <2>2. EdgeAge(u, x, now, TRUE)
    <3>1. SUFFICES ASSUME pressed # b.stable
                   PROVE  /\ Age(now, edge) < Debounce + MaxGap
                          /\ agreed = Least(Age(now, edge), Debounce)
                          /\ Age(now, edge) < Debounce
      BY <1>3, <2>1 DEF EdgeAge
    <3>2. Age(now, edge) < Debounce
      BY <1>4, <1>7, <3>1, Timing DEF Accepted, edge
    <3> QED  BY <1>4, <1>6, <3>1, <3>2, Timing
  <2>3. ReleaseAge(u, x, now, TRUE)
    <3>1. SUFFICES ASSUME u.state = "WAIT_SECOND"
                   PROVE  /\ x.released = Age(now, u.release)
                          /\ x.released < DoubleClick + MaxGap
                          /\ x.released < DoubleClick
      BY DEF ReleaseAge
    <3>2. /\ b.state = "WAIT_SECOND" /\ u.release = b.release
          /\ ~ (Elapsed(b.release) >= DoubleClick)
      BY <2>1, <3>1
    <3>3. x.released = w.released /\ w.released = Age(now, b.release)
      BY <1>3, <2>1, <3>2 DEF KeyOK, ReleaseAge
    <3> QED  BY <1>5, <3>2, <3>3, Timing
  <2>4. HoldCounts(u, x)
    <3>1. HoldCounts(b, w)
      BY DEF KeyOK
    <3>2. u.event # "PRESS" /\ (u.event = "LONG_PRESS" => w.longs = 0 /\ b.stable)
      BY <1>1, <2>1, <3>1 DEF HoldCounts
    <3>3. /\ x.presses \in {0, w.presses}
          /\ x.longs \in {0, 1}
          /\ u.event # "LONG_PRESS" => x.longs \in {0, w.longs}
      BY <1>2, <1>3, <3>2
    <3> QED  BY <1>1, <1>2, <2>1, <3>1, <3>2, <3>3 DEF HoldCounts
  <2> QED  BY <1>1, <1>3, <2>1, <2>2, <2>3, <2>4 DEF KeyOK, u, x
<1>8. CASE Accepted(b, pressed) /\ pressed
  <2>1. pressed = TRUE /\ b.stable = FALSE
    BY <1>1, <1>8 DEF Accepted
  <2>2. /\ b.state \in {"IDLE", "WAIT_SECOND"} /\ w.presses = 0 /\ w.longs = 0
    BY <2>1 DEF KeyOK, HoldCounts
  <2>3. /\ u \in Buttons /\ u.raw /\ u.stable
        /\ u.state \in {"PRESSED", "SECOND_PRESSED"}
        /\ u.event = "PRESS" \/ u.event = "CLICK"
        /\ u.event = "CLICK" =>
             b.state = "WAIT_SECOND" /\ ~ (Elapsed(b.release) <= DoubleClick)
    BY <1>8, <2>1, <2>2, Timing, UpdateOnPress DEF u
  <2>4. u.raw = TRUE /\ u.stable = TRUE
    BY <2>3 DEF Buttons
  <2>5. EdgeAge(u, x, now, TRUE) /\ ReleaseAge(u, x, now, TRUE)
    BY <2>3, <2>4 DEF EdgeAge, ReleaseAge
  <2>6. x.presses \in {0, 1} /\ x.longs = 0
    BY <1>3, <2>2, <2>3
  <2>7. HoldCounts(u, x)
    BY <2>3, <2>4, <2>6 DEF HoldCounts
  <2>8. u.event # "PRESS" => DoubleClick < w.released /\ w.released < DoubleClick + MaxGap
    <3>1. SUFFICES ASSUME u.event = "CLICK"
                   PROVE  DoubleClick < w.released /\ w.released < DoubleClick + MaxGap
      BY <2>3
    <3>2. w.released = Age(now, b.release) /\ w.released < DoubleClick + MaxGap
      BY <2>3, <3>1 DEF KeyOK, ReleaseAge
    <3> QED  BY <1>5, <2>3, <3>1, <3>2, Timing
  <2> QED  BY <1>3, <2>3, <2>5, <2>7, <2>8 DEF KeyOK, u, x
<1>9. CASE Accepted(b, pressed) /\ ~ pressed
  <2>1. pressed = FALSE /\ b.stable = TRUE
    BY <1>1, <1>9 DEF Accepted
  <2>2. b.state # "WAIT_SECOND"
    BY <2>1 DEF KeyOK, HoldCounts
  <2>3. /\ u \in Buttons /\ ~ u.raw /\ ~ u.stable
        /\ u.state \in {"IDLE", "WAIT_SECOND"}
        /\ u.event \notin {"PRESS", "LONG_PRESS"}
        /\ u.state = "WAIT_SECOND" => u.release = now
    BY <1>9, <2>1, <2>2, Timing, UpdateOnRelease DEF u
  <2>4. u.raw = FALSE /\ u.stable = FALSE
    BY <2>3 DEF Buttons
  <2>5. Age(now, edge) >= Debounce
    BY <1>4, <1>9 DEF Accepted, edge
  <2>6. agreed = Debounce
    BY <1>4, <1>6, <2>1, <2>5, Timing DEF Least
  <2>7. x.presses = 0 /\ x.longs = 0 /\ x.released = 0
    BY <1>3, <2>1, <2>4, <2>6, Timing
  <2>8. EdgeAge(u, x, now, TRUE) /\ HoldCounts(u, x)
    BY <2>3, <2>4, <2>7 DEF EdgeAge, HoldCounts
  <2>9. ReleaseAge(u, x, now, TRUE)
    BY <1>4, <2>3, <2>7, Timing DEF ReleaseAge
  <2> QED  BY <1>3, <2>1, <2>3, <2>8, <2>9 DEF KeyOK, u, x
<1> QED  BY <1>7, <1>8, <1>9

LEMMA InitKeys == Init => KeyInv
<1> SUFFICES ASSUME Init PROVE KeyInv
  OBVIOUS
<1>1. KeyTypes
  BY Timing DEF Init, KeyTypes, Buttons, Histories, States, EventsOf
<1>2. ASSUME NEW k \in Keys PROVE KeyOK(button[k], seen[k], now, Visited(k))
  BY <1>2 DEF Init, KeyOK, EdgeAge, ReleaseAge, HoldCounts
<1> QED  BY <1>1, <1>2 DEF KeyInv

(* The time that passes makes edges and releases older, as it does the     *)
(* history.                                                                *)
LEMMA AgedKey ==
  ASSUME now \in Ticks, NEW b \in Buttons, NEW w \in Histories,
         NEW gap \in 1 .. MaxGap, KeyOK(b, w, now, TRUE)
  PROVE  LET x == [w EXCEPT !.agreed = Least(@ + gap, Debounce),
                            !.released = Least(@ + gap, DoubleClick + MaxGap)]
         IN x \in Histories /\ KeyOK(b, x, (now + gap) % TickMod, FALSE)
<1> DEFINE x == [w EXCEPT !.agreed = Least(@ + gap, Debounce),
                          !.released = Least(@ + gap, DoubleClick + MaxGap)]
           next == (now + gap) % TickMod
<1>1. gap \in Nat /\ gap <= MaxGap /\ b.edge \in Ticks /\ b.release \in Ticks
  BY Timing DEF Buttons
<1>2. /\ w.agreed \in 0 .. Debounce /\ w.released \in 0 .. DoubleClick + MaxGap
  BY DEF Histories
<1>3. /\ x.agreed = Least(w.agreed + gap, Debounce)
      /\ x.released = Least(w.released + gap, DoubleClick + MaxGap)
      /\ x.presses = w.presses /\ x.longs = w.longs
      /\ x \in Histories
  <2>1. /\ Least(w.agreed + gap, Debounce) \in 0 .. Debounce
        /\ Least(w.released + gap, DoubleClick + MaxGap) \in 0 .. DoubleClick + MaxGap
    BY <1>1, <1>2, Timing DEF Least
  <2> QED  BY <2>1 DEF Histories
<1>4. HoldCounts(b, x)
  BY <1>3 DEF KeyOK, HoldCounts
<1>5. ASSUME NEW from \in Ticks, Age(now, from) + gap < TickMod
      PROVE  Age(next, from) = Age(now, from) + gap
  BY <1>1, <1>5, AgeIs, Aging DEF Age
<1> HIDE DEF x, next
<1>6. EdgeAge(b, x, next, FALSE)
  <2>1. SUFFICES ASSUME b.raw # b.stable
                 PROVE  /\ Age(next, b.edge) < Debounce + MaxGap
                        /\ x.agreed = Least(Age(next, b.edge), Debounce)
    BY DEF EdgeAge
  <2>2. /\ Age(now, b.edge) \in Int /\ 0 <= Age(now, b.edge)
        /\ Age(now, b.edge) < Debounce
        /\ w.agreed = Least(Age(now, b.edge), Debounce)
    BY <1>1, <2>1, AgeIs DEF KeyOK, EdgeAge
  <2>3. Age(now, b.edge) + gap < TickMod
    BY <1>1, <2>2, Timing
  <2>4. Age(next, b.edge) = Age(now, b.edge) + gap
    BY <1>1, <1>5, <2>3
  <2> QED  BY <1>1, <1>3, <2>2, <2>4, Timing DEF Least
<1>7. ReleaseAge(b, x, next, FALSE)
  <2>1. SUFFICES ASSUME b.state = "WAIT_SECOND"
                 PROVE  /\ x.released = Age(next, b.release)
                        /\ x.released < DoubleClick + MaxGap
    BY DEF ReleaseAge
  <2>2. /\ w.released = Age(now, b.release) /\ w.released < DoubleClick
    BY <2>1 DEF KeyOK, ReleaseAge
  <2>3. Age(now, b.release) + gap < TickMod
    BY <1>1, <1>2, <2>2, Timing
  <2>4. Age(next, b.release) = Age(now, b.release) + gap
    BY <1>1, <1>5, <2>3
  <2> QED  BY <1>1, <1>2, <1>3, <2>2, <2>4, Timing DEF Least
<1> QED  BY <1>3, <1>4, <1>6, <1>7 DEF KeyOK, x, next

LEMMA SleepKeys ==
  ASSUME KeyInv, Sleep
  PROVE  KeyInv'
<1>1. PICK gap \in 1 .. MaxGap :
        /\ now' = (now + gap) % TickMod
        /\ seen' = [k \in Keys |->
             [seen[k] EXCEPT !.agreed = Least(@ + gap, Debounce),
                             !.released = Least(@ + gap, DoubleClick + MaxGap)]]
  BY DEF Sleep
<1>2. turn = "sleep" /\ turn' = "down" /\ button' = button
  BY DEF Sleep
<1>3. ASSUME NEW k \in Keys
      PROVE  seen'[k] \in Histories /\ KeyOK(button[k], seen'[k], now', FALSE)
  <2>1. button[k] \in Buttons /\ seen[k] \in Histories /\ now \in Ticks
    BY DEF KeyInv, KeyTypes
  <2>2. KeyOK(button[k], seen[k], now, TRUE)
    BY <1>2 DEF KeyInv, Visited
  <2> QED  BY <1>1, <2>1, <2>2, AgedKey
<1>4. now' \in Ticks
  <2>1. now \in Ticks
    BY DEF KeyInv, KeyTypes
  <2>2. now + gap \in Int
    BY <2>1, TicksAre
  <2> QED  BY <1>1, <2>2, Wrapped, TicksAre DEF Tick
<1>5. KeyTypes'
  BY <1>1, <1>2, <1>3, <1>4 DEF KeyInv, KeyTypes, Keys
<1>6. ASSUME NEW k \in Keys PROVE Visited(k)' = FALSE
  BY <1>2 DEF Visited
<1>7. ASSUME NEW k \in Keys PROVE KeyOK(button[k], seen[k], now, Visited(k))'
  BY <1>2, <1>3, <1>6
<1> QED  BY <1>5, <1>7 DEF KeyInv

(* A visit moves its own key only; the other one was visited before it or  *)
(* is still to be.                                                         *)
LEMMA VisitKeys ==
  ASSUME KeyInv, NEW k \in Keys, Visit(k)
  PROVE  /\ KeyInv'
         /\ \A j \in Keys : ~ button[j].stable /\ button'[j].stable =>
              \/ button'[j].event = "PRESS"
              \/ DoubleClick < seen[j].released /\ seen[j].released < DoubleClick + MaxGap
<1>1. PICK pressed \in BOOLEAN :
        /\ button' = [button EXCEPT ![k] = Update(button[k], pressed)]
        /\ seen' = [seen EXCEPT ![k] = Recorded(seen[k], button[k], button'[k], pressed)]
  BY DEF Visit
<1>2. /\ turn = k /\ now' = now
      /\ turn' = IF k = "down" THEN "up" ELSE "sleep"
  BY DEF Visit
<1>3. /\ now \in Ticks /\ button \in [Keys -> Buttons] /\ seen \in [Keys -> Histories]
  BY DEF KeyInv, KeyTypes
<1>4. KeyOK(button[k], seen[k], now, FALSE)
  <2>1. Visited(k) = FALSE
    BY <1>2 DEF Visited, Keys
  <2> QED  BY <2>1 DEF KeyInv
<1>5. /\ button'[k] = Update(button[k], pressed)
      /\ seen'[k] = Recorded(seen[k], button[k], button'[k], pressed)
      /\ \A j \in Keys : j # k => button'[j] = button[j] /\ seen'[j] = seen[j]
  BY <1>1, <1>3
<1>6. /\ button'[k] \in Buttons /\ seen'[k] \in Histories
      /\ KeyOK(button'[k], seen'[k], now, TRUE)
      /\ ~ button[k].stable /\ button'[k].stable =>
           \/ button'[k].event = "PRESS"
           \/ DoubleClick < seen[k].released /\ seen[k].released < DoubleClick + MaxGap
  <2>1. button[k] \in Buttons /\ seen[k] \in Histories
    BY <1>3
  <2>2. PICK b \in Buttons : b = button[k]
    BY <2>1
  <2>3. PICK w \in Histories : w = seen[k]
    BY <2>1
  <2> DEFINE u == Update(b, pressed)
             x == Recorded(w, b, u, pressed)
  <2>4. now \in Ticks /\ KeyOK(b, w, now, FALSE)
    BY <1>3, <1>4, <2>2, <2>3
  <2>5. /\ u \in Buttons /\ x \in Histories /\ KeyOK(u, x, now, TRUE)
        /\ ~ b.stable /\ u.stable =>
             \/ u.event = "PRESS"
             \/ DoubleClick < w.released /\ w.released < DoubleClick + MaxGap
    BY <2>4, VisitedKey
  <2>6. button'[k] = u /\ seen'[k] = x
    BY <1>5, <2>2, <2>3
  <2> HIDE DEF u, x
  <2> QED  BY <2>2, <2>3, <2>5, <2>6
<1>7. KeyTypes'
  BY <1>1, <1>2, <1>3, <1>6 DEF KeyTypes, Keys
<1>8. ASSUME NEW j \in Keys PROVE KeyOK(button[j], seen[j], now, Visited(j))'
  <2>1. CASE j = k
    <3>1. Visited(k)' = TRUE
      BY <1>2 DEF Visited, Keys
    <3> QED  BY <1>2, <1>6, <2>1, <3>1
  <2>2. CASE j # k
    <3>1. Visited(j)' = Visited(j)
      BY <1>2, <2>2 DEF Visited, Keys
    <3>2. KeyOK(button[j], seen[j], now, Visited(j))
      BY DEF KeyInv
    <3> QED  BY <1>2, <1>5, <2>2, <3>1, <3>2
  <2> QED  BY <2>1, <2>2
<1>9. ASSUME NEW j \in Keys, ~ button[j].stable, button'[j].stable
      PROVE  \/ button'[j].event = "PRESS"
             \/ DoubleClick < seen[j].released /\ seen[j].released < DoubleClick + MaxGap
  BY <1>5, <1>6, <1>9
<1> QED  BY <1>7, <1>8, <1>9 DEF KeyInv

LEMMA NextKeys ==
  ASSUME KeyInv, [Next]_vars
  PROVE  /\ KeyInv'
         /\ \A j \in Keys : ~ button[j].stable /\ button'[j].stable =>
              \/ button'[j].event = "PRESS"
              \/ DoubleClick < seen[j].released /\ seen[j].released < DoubleClick + MaxGap
<1>1. CASE Sleep
  <2>1. button' = button
    BY <1>1 DEF Sleep
  <2> QED  BY <1>1, <2>1, SleepKeys
<1>2. ASSUME NEW k \in Keys, Visit(k)
      PROVE  /\ KeyInv'
             /\ \A j \in Keys : ~ button[j].stable /\ button'[j].stable =>
                  \/ button'[j].event = "PRESS"
                  \/ DoubleClick < seen[j].released /\ seen[j].released < DoubleClick + MaxGap
  BY <1>2, VisitKeys
<1>3. CASE UNCHANGED vars
  BY <1>3 DEF vars, KeyInv, KeyTypes, Visited
<1> QED  BY <1>1, <1>2, <1>3 DEF Next

(* For every timing of the contacts and the polls, and across the wrap of  *)
(* the tick: a hold steps the volume and asks for the configuration at     *)
(* most once (button.c:47-132).                                            *)
THEOREM HoldReportsOnce == Spec => []OncePerHold
<1>1. KeyInv => OncePerHold
  BY DEF KeyInv, KeyOK, HoldCounts, OncePerHold
<1>2. KeyInv /\ [Next]_vars => KeyInv'
  BY NextKeys
<1> QED  BY InitKeys, <1>1, <1>2, PTL DEF Spec

(* ... and a press that is accepted is reported, but for the time between  *)
(* the end of the double click window and the poll that closes it          *)
(* (button.c:61-70).                                                       *)
THEOREM AcceptedPressReported == Spec => PressReported
<1>1. KeyInv /\ [Next]_vars => KeyInv'
  BY NextKeys
<1>2. KeyInv /\ [Next]_vars =>
        [\A k \in Keys :
           ~ button[k].stable /\ button'[k].stable =>
             \/ button'[k].event = "PRESS"
             \/ /\ DoubleClick < seen[k].released
                /\ seen[k].released < DoubleClick + MaxGap]_vars
  BY NextKeys
<1> QED  BY InitKeys, <1>1, <1>2, PTL DEF Spec, PressReported

(* Every variable keeps its type.                                          *)
THEOREM TypeCorrect == Spec => []TypeOK
<1> DEFINE Inv == KeyInv /\ VolumeInv /\ request \in {"none", "prompt", "config"}
<1>1. Init => Inv
  BY InitKeys, InitVolume DEF Init
<1>2. Inv /\ [Next]_vars => Inv'
  <2> SUFFICES ASSUME Inv, [Next]_vars PROVE Inv'
    OBVIOUS
  <2>1. KeyInv' /\ VolumeInv'
    BY NextKeys, NextVolume
  <2>2. request' \in {"none", "prompt", "config"}
    BY DEF Next, Sleep, Visit, OnEvent, vars
  <2> QED  BY <2>1, <2>2
<1>3. Inv => TypeOK
  BY DEF KeyInv, KeyTypes, VolumeInv, TypeOK
<1> QED  BY <1>1, <1>2, <1>3, PTL DEF Spec

=============================================================================

-------------------------- MODULE HubScroll_proofs --------------------------
(***************************************************************************)
(* Proofs about the caption: what its cells show, and when it is put off,  *)
(* for a caption of any length, any modulus of the round counter and with  *)
(* every fault; all but the last for any pace of the player's poll.        *)
(***************************************************************************)
EXTENDS HubScroll, TLAPS

-----------------------------------------------------------------------------
(* The inductive invariant.                                                *)

\* An index and the text position it was read at have not drifted apart.
Aligned == {[index |-> i, char |-> i] : i \in Int}

\* The ring and the two places of the reader.
RingAligned ==
  /\ phase \in Nat /\ count \in Nat
  /\ cache \in [Slots -> Aligned] /\ next \in Aligned /\ restart \in Aligned

\* A pending finish waits for the end of the round it was requested in.
FinishWaits == finish_pending => active /\ cycle = start_cycle

CaptionInv == RingAligned /\ RightCharacter /\ FinishWaits

-----------------------------------------------------------------------------
(* The ring and the picture.                                               *)

LEMMA AlignedFacts ==
  /\ Empty \in Aligned /\ Origin \in Aligned
  /\ \A at \in Aligned : at.char = at.index /\ at.index \in Int /\ After(at) \in Aligned
<1>1. Empty \in Aligned /\ Origin \in Aligned
  BY DEF Empty, Origin, NoGlyph, Aligned
<1>2. ASSUME NEW at \in Aligned
      PROVE  at.char = at.index /\ at.index \in Int /\ After(at) \in Aligned
  <2>1. PICK i \in Int : at = [index |-> i, char |-> i]
    BY DEF Aligned
  <2>2. After(at) = [index |-> i + 1, char |-> i + 1] /\ i + 1 \in Int
    BY <2>1 DEF After
  <2> QED  BY <2>1, <2>2 DEF Aligned
<1> QED  BY <1>1, <1>2

LEMMA ClearedAligned == Cleared \in [Slots -> Aligned]
  BY AlignedFacts DEF Cleared

\* Reading a glyph keeps the ring aligned, whichever slot it goes to.
LEMMA StoreAligned ==
  ASSUME cache \in [Slots -> Aligned], NEW at \in Aligned
  PROVE  Store(at) \in [Slots -> Aligned]
  BY DEF Store

LEMMA LoadAligned ==
  ASSUME NEW n \in Nat, Load(n)
  PROVE  /\ count' \in Nat /\ cache' \in [Slots -> Aligned]
         /\ next' \in Aligned /\ restart' \in Aligned
<1>1. AtMost(n, CacheCount) \in Int
  BY DEF AtMost, CacheCount
<1>2. \A i \in Int : [index |-> i, char |-> i] \in Aligned
  BY DEF Aligned
<1>3. Slots \subseteq Int
  BY DEF Slots, CacheCount
<1>4. cache' \in [Slots -> Aligned]
  BY <1>2, <1>3, AlignedFacts DEF Load
<1> QED  BY <1>1, <1>2, <1>4, AlignedFacts DEF Load

\* From an aligned ring a cell takes the character that is due in it, or none.
LEMMA PictureRight ==
  ASSUME NEW p \in Nat, NEW s, NEW n \in Nat, NEW ring \in [Slots -> Aligned], NEW k \in Cells
  PROVE  Picture(p, s, n, ring)[k] \in {NoGlyph, Due(k, p, n)}
<1> DEFINE g == Due(k, p, n)
<1>1. Picture(p, s, n, ring)[k] = Shown(k, p, s, n, ring)
  BY DEF Picture
<1>2. CASE OnScreen(k, s) /\ g # NoGlyph /\ ring[g % CacheCount].index = g
  <2>1. g \in Nat
    BY <1>2 DEF Due, Cells, CacheCount, VisibleCells, NoGlyph
  <2>2. g % CacheCount \in Slots
    BY <2>1 DEF Slots, CacheCount
  <2>3. ring[g % CacheCount] \in Aligned
    BY <2>2
  <2>4. ring[g % CacheCount].char = g
    BY <1>2, <2>3, AlignedFacts
  <2> QED  BY <1>1, <1>2, <2>4 DEF Shown
<1>3. CASE ~(OnScreen(k, s) /\ g # NoGlyph /\ ring[g % CacheCount].index = g)
  BY <1>1, <1>3 DEF Shown
<1> QED  BY <1>2, <1>3

-----------------------------------------------------------------------------
(* The steps.                                                              *)

LEMMA StopKeeps ==
  ASSUME Stop
  PROVE  CaptionInv'
<1>1. RingAligned'
  BY AlignedFacts, ClearedAligned DEF Stop, RingAligned, VisibleCells
<1>2. RightCharacter' /\ FinishWaits'
  BY DEF Stop, RightCharacter, FinishWaits
<1> QED  BY <1>1, <1>2 DEF CaptionInv

LEMMA ShowKeeps ==
  ASSUME CaptionInv, NEW n \in Nat, NEW scrolling \in BOOLEAN, Show(n, scrolling)
  PROVE  CaptionInv'
<1> USE DEF CaptionInv
<1>1. CASE Load(n) /\ Start(n, scrolling) /\ active' = TRUE /\ finish_pending' = FALSE
  <2>1. phase' \in Nat /\ screen' = Picture(phase', 0, n, cache')
    BY <1>1 DEF Start, VisibleCells
  <2>2. RingAligned'
    BY <1>1, <2>1, LoadAligned DEF RingAligned
  <2>3. count' = n
    BY <1>1 DEF Load
  <2>4. RightCharacter'
    BY <2>1, <2>2, <2>3, PictureRight DEF RingAligned, RightCharacter
  <2> QED  BY <1>1, <2>2, <2>4 DEF FinishWaits
<1>2. CASE Load(n) /\ Start(n, scrolling) /\ UNCHANGED <<active, finish_pending>>
  <2>1. ~active' /\ ~finish_pending'
    BY <1>2 DEF Show, FinishWaits
  <2>2. phase' \in Nat
    BY <1>2 DEF Start, VisibleCells
  <2>3. RingAligned'
    BY <1>2, <2>2, LoadAligned DEF RingAligned
  <2> QED  BY <2>1, <2>3 DEF RightCharacter, FinishWaits
<1>3. CASE /\ \E m \in 0 .. AtMost(n, CacheCount) - 1 : next' = [index |-> m, char |-> m]
           /\ count' = 0 /\ cache' = Cleared /\ restart' = Origin
           /\ UNCHANGED <<scrollVars, active, finish_pending>>
  <2>1. ~active' /\ ~finish_pending'
    BY <1>3 DEF Show, FinishWaits
  <2>2. next' \in Aligned
    BY <1>3 DEF Aligned
  <2>3. RingAligned'
    BY <1>3, <2>2, AlignedFacts, ClearedAligned DEF RingAligned, scrollVars
  <2> QED  BY <2>1, <2>3 DEF RightCharacter, FinishWaits
<1> QED  BY <1>1, <1>2, <1>3 DEF Show

LEMMA ProcessKeeps ==
  ASSUME CaptionInv, Process
  PROVE  CaptionInv'
<1> USE DEF CaptionInv
<1>1. CASE /\ IF next.index < count THEN ReadNext ELSE ReadRestart
           /\ UNCHANGED <<scrollVars, modeVars>>
  <2>1. cache' \in [Slots -> Aligned] /\ next' \in Aligned /\ restart' \in Aligned
    BY <1>1, StoreAligned, AlignedFacts DEF RingAligned, ReadNext, ReadRestart
  <2> QED
    BY <1>1, <2>1 DEF RingAligned, RightCharacter, FinishWaits, scrollVars, modeVars
<1>2. CASE UNCHANGED <<readVars, scrollVars, modeVars>>
  BY <1>2 DEF RingAligned, RightCharacter, FinishWaits, readVars, scrollVars, modeVars
<1>3. CASE Stop
  BY <1>3, StopKeeps
<1> QED  BY <1>1, <1>2, <1>3 DEF Process

LEMMA AdvanceKeeps ==
  ASSUME CaptionInv, Advance, UNCHANGED <<cache, count>>
  PROVE  RingAligned' /\ RightCharacter'
<1>1. /\ phase' \in Nat /\ next' \in Aligned /\ restart' \in Aligned
      /\ screen' = Picture(phase', step', count, cache)
  BY AlignedFacts DEF CaptionInv, RingAligned, Advance, Wrap
<1>2. RingAligned'
  BY <1>1 DEF CaptionInv, RingAligned
<1>3. \A k \in Cells : screen'[k] \in {NoGlyph, Due(k, phase', count')}
  BY <1>1, PictureRight DEF CaptionInv, RingAligned
<1> QED  BY <1>2, <1>3 DEF RightCharacter

LEMMA RefreshKeeps ==
  ASSUME CaptionInv, Refresh
  PROVE  CaptionInv'
<1>1. CASE StepIsDue
  <2>1. Advance /\ UNCHANGED <<cache, count, active, finish_pending, start_cycle>>
    BY <1>1 DEF Refresh, modeVars
  <2>2. cycle' = NextCycle /\ ~Finishes
    BY <2>1 DEF Refresh, Advance
  <2>3. FinishWaits'
    BY <2>1, <2>2 DEF CaptionInv, FinishWaits, Finishes
  <2> QED  BY <2>1, <2>3, AdvanceKeeps DEF CaptionInv
<1>2. CASE ~StepIsDue
  BY <1>2 DEF Refresh, scrollVars, modeVars, CaptionInv, RingAligned, RightCharacter, FinishWaits
<1> QED  BY <1>1, <1>2

LEMMA InitRight == Init => CaptionInv
<1> SUFFICES ASSUME Init PROVE CaptionInv
  OBVIOUS
<1>1. RingAligned
  BY AlignedFacts, ClearedAligned DEF Init, RingAligned, VisibleCells
<1> QED  BY <1>1 DEF Init, CaptionInv, RightCharacter, FinishWaits

LEMMA StepKeeps == CaptionInv /\ [Next]_vars => CaptionInv'
<1> SUFFICES ASSUME CaptionInv, [Next]_vars PROVE CaptionInv'
  OBVIOUS
<1>1. ASSUME NEW n \in 1 .. MaxGlyphs, NEW scrolling \in BOOLEAN, Show(n, scrolling)
      PROVE  CaptionInv'
  <2>1. n \in Nat
    BY CaptionAssumption
  <2> QED  BY <1>1, <2>1, ShowKeeps
<1>2. CASE FinishScroll
  BY <1>2 DEF FinishScroll, readVars, scrollVars, CaptionInv, RingAligned, RightCharacter,
              FinishWaits
<1>3. CASE Hide \/ RefreshAndFinish \/ RefreshFails
  BY <1>3, StopKeeps DEF Hide, RefreshAndFinish, RefreshFails
<1>4. CASE UNCHANGED vars
  BY <1>4 DEF vars, readVars, scrollVars, modeVars, CaptionInv, RingAligned, RightCharacter,
              FinishWaits
<1> QED
  BY <1>1, <1>2, <1>3, <1>4, ProcessKeeps, RefreshKeeps DEF Next, PlayerStep, TimerStep

-----------------------------------------------------------------------------
(* The results.                                                            *)

\* No cell of the screen ever shows another character than the one that belongs
\* there: whatever the poll reads late, fails to read or reads again for the next
\* round, the index in the ring and the position in the text stay together.
THEOREM CharacterIsRight == Spec => []RightCharacter
<1>1. CaptionInv => RightCharacter
  BY DEF CaptionInv
<1> QED  BY <1>1, InitRight, StepKeeps, PTL DEF Spec

\* A round that is over has shown its last character out of the window.
LEMMA RoundEndsBlank ==
  ASSUME CaptionInv, active, RoundEnds, NEW k \in Cells
  PROVE  screen[k] = NoGlyph
<1>1. phase >= count + VisibleCells
  BY DEF CaptionInv, RingAligned, RoundEnds, VisibleCells
<1>2. Due(k, phase, count) = NoGlyph
  BY <1>1 DEF CaptionInv, RingAligned, Due, Cells, CacheCount, VisibleCells
<1> QED  BY <1>2 DEF CaptionInv, RightCharacter

\* The finish of a caption puts the display off only behind the caption: the
\* comparison of the round counts is true at the end of a round and nowhere else.
THEOREM FinishIsBlank == Spec => FinishScrollsOut
<1>1. ASSUME CaptionInv, RefreshAndFinish, NEW k \in Cells
      PROVE  screen[k] = NoGlyph
  <2>1. active /\ finish_pending /\ NextCycle # cycle
    BY <1>1 DEF RefreshAndFinish, Finishes, CaptionInv, FinishWaits
  <2>2. RoundEnds
    BY <2>1 DEF NextCycle
  <2> QED  BY <1>1, <2>1, <2>2, RoundEndsBlank
<1>2. CaptionInv /\ [Next]_vars
        => [RefreshAndFinish => \A k \in Cells : screen[k] = NoGlyph]_vars
  BY <1>1
<1> QED  BY <1>2, InitRight, StepKeeps, PTL DEF Spec, FinishScrollsOut

-----------------------------------------------------------------------------
(* Prefetch in time: the reader against the scan.                          *)

\* Rows scanned in this phase at the least: the steps so far may have been the
\* faster ones of a finish.
Elapsed == ScanRows * (FinishFrames * step + AtMost(frames, FinishFrames - 1)) + row

Beat ==
  /\ step \in 0 .. GlyphSteps - 1 /\ row \in 0 .. ScanRows - 1 /\ frames \in Nat
  /\ step_frames \in {NormalFrames, FinishFrames} /\ rows_unpolled \in 0 .. PollRows
  /\ scroll \in BOOLEAN /\ (~scroll => phase = VisibleCells /\ step = 0)

\* The reader is past the glyph that enters, and the next round has its first
\* glyph when this one ends.
ReaderAhead ==
  /\ count \in Nat \ {0} /\ phase \in 0 .. count + VisibleCells
  /\ next.index \in AtMost(count, phase + 1) .. count
  /\ restart.index \in 0 .. AtMost(count, CacheCount)
  /\ restart.index > 0 => next.index = count /\ count <= phase
  /\ scroll /\ phase = count + VisibleCells => restart.index > 0

\* The ring keeps every glyph read that has not come to the last cell, and what
\* was read for the next round.
RingHolds ==
  /\ \A s \in Slots : cache[s].index \in -1 .. count - 1
  /\ \A g \in 0 .. next.index - 1 : phase < g + VisibleCells => cache[g % CacheCount].index = g
  /\ \A g \in 0 .. restart.index - 1 : cache[g % CacheCount].index = g

\* As long as the glyph of the next phase is not read, the player has not polled
\* in this one; the same for the first glyph of the next round.
ReadInTime ==
  scroll =>
    /\ next.index = phase + 1 /\ next.index < count => Elapsed <= rows_unpolled
    /\ phase = count + VisibleCells - 1 /\ restart.index = 0 => Elapsed <= rows_unpolled

PrefetchInv ==
  active => Beat /\ ReaderAhead /\ RingHolds /\ ReadInTime /\ EnteringGlyphShown

\* Two glyphs less than a ring apart have slots of their own.
LEMMA OwnSlots ==
  ASSUME NEW g \in Nat, NEW i \in Nat, g < i, i < g + CacheCount
  PROVE  g % CacheCount \in Slots /\ i % CacheCount \in Slots /\ g % CacheCount # i % CacheCount
BY DEF CacheCount, Slots

LEMMA LowSlots ==
  ASSUME NEW g \in 0 .. CacheCount - 1
  PROVE  g % CacheCount = g /\ g \in Slots
BY DEF CacheCount, Slots

\* A cell whose glyph is in the ring shows it.
LEMMA PictureShows ==
  ASSUME NEW p \in Nat, NEW s, NEW n \in Nat, NEW ring \in [Slots -> Aligned],
         \A g \in Nat : g < n /\ g <= p /\ p < g + VisibleCells => ring[g % CacheCount].index = g,
         NEW k \in Cells \ {0}, OnScreen(k, s)
  PROVE  Picture(p, s, n, ring)[k] = Due(k, p, n)
<1> DEFINE g == Due(k, p, n)
<1>1. Picture(p, s, n, ring)[k] = Shown(k, p, s, n, ring)
  BY DEF Picture
<1>2. CASE g = NoGlyph
  BY <1>1, <1>2 DEF Shown
<1>3. CASE g # NoGlyph
  <2>1. g = p + k - VisibleCells /\ k \in 1 .. 4 /\ p + k >= VisibleCells /\ p + k - VisibleCells < n
    BY <1>3 DEF Due, Cells, CacheCount
  <2>2. g \in Nat /\ g < n /\ g <= p /\ p < g + VisibleCells
    BY <2>1 DEF VisibleCells
  <2>3. ring[g % CacheCount].index = g
    BY <2>2
  <2>4. g % CacheCount \in Slots
    BY <2>2 DEF Slots, CacheCount
  <2>5. ring[g % CacheCount].char = g
    BY <2>3, <2>4, AlignedFacts
  <2> QED  BY <1>1, <1>3, <2>3, <2>5 DEF Shown
<1> QED  BY <1>2, <1>3

LEMMA AtMostReached ==
  ASSUME NEW a \in Nat, NEW b \in Nat, NEW i \in AtMost(a, b + 1) .. a
  PROVE  i >= a \/ i >= b + 1
BY DEF AtMost

\* What the ring holds is all that enters in the phase and the step after.
LEMMA EntersFromRing ==
  ASSUME RingAligned', ReaderAhead', RingHolds',
         screen' = Picture(phase', step', count', cache')
  PROVE  EnteringGlyphShown'
<1>1. phase' \in Nat /\ count' \in Nat /\ next'.index \in Int /\ cache' \in [Slots -> Aligned]
  BY AlignedFacts DEF RingAligned
<1>2. ASSUME NEW g \in Nat, g < count', g <= phase', phase' < g + VisibleCells
      PROVE  cache'[g % CacheCount].index = g
  <2>1. next'.index \in AtMost(count', phase' + 1) .. count'
    BY DEF ReaderAhead
  <2>2. next'.index >= count' \/ next'.index >= phase' + 1
    BY <1>1, <2>1, AtMostReached
  <2>3. g \in 0 .. next'.index - 1
    BY <1>1, <1>2, <2>2
  <2> QED  BY <1>2, <2>3 DEF RingHolds
<1>3. ASSUME NEW k \in Cells \ {0}, OnScreen(k, step')
      PROVE  screen'[k] = Due(k, phase', count')
  BY <1>1, <1>2, <1>3, PictureShows
<1> QED  BY <1>3 DEF EnteringGlyphShown

LEMMA ShowEnters ==
  ASSUME CaptionInv', PrefetchInv, NEW n \in 1 .. MaxGlyphs, NEW scrolling \in BOOLEAN,
         Show(n, scrolling)
  PROVE  PrefetchInv'
<1>1. CASE ~active'
  BY <1>1 DEF PrefetchInv
<1>2. CASE active'
  <2>1. n \in Nat \ {0}
    BY CaptionAssumption
  <2>2. Load(n) /\ Start(n, scrolling) /\ rows_unpolled' = 0
    BY <1>2 DEF Show
  <2>3. /\ count' = n /\ row' = 0 /\ frames' = 0 /\ step' = 0 /\ step_frames' = NormalFrames
        /\ scroll' = scrolling /\ restart' = Origin
        /\ phase' = IF scrolling THEN 0 ELSE VisibleCells
        /\ screen' = Picture(phase', step', count', cache')
    BY <2>2 DEF Load, Start
  <2>4. Beat'
    BY <2>2, <2>3, CaptionAssumption
       DEF Beat, GlyphSteps, ScanRows, NormalFrames, FinishFrames, VisibleCells
  <2> DEFINE m == AtMost(n, CacheCount)
  <2>5. /\ m \in 1 .. n /\ m <= 5 /\ next'.index = m /\ restart'.index = 0
        /\ cache' = [s \in Slots |-> IF s < m THEN [index |-> s, char |-> s] ELSE Empty]
    BY <2>1, <2>2 DEF Load, AtMost, CacheCount, Origin
  <2>6. ReaderAhead'
    BY <2>1, <2>3, <2>5 DEF ReaderAhead, AtMost, VisibleCells, CacheCount
  <2>7. RingHolds'
    <3>1. \A s \in Slots : cache'[s].index = IF s < m THEN s ELSE -1
      BY <2>5 DEF Empty, NoGlyph
    <3>2. \A g \in 0 .. m - 1 : g % CacheCount = g /\ g \in Slots
      BY <2>5 DEF CacheCount, Slots
    <3>3. \A s \in Slots : s \in Nat
      BY DEF Slots, CacheCount
    <3> QED  BY <2>1, <2>3, <2>5, <3>1, <3>2, <3>3 DEF RingHolds
  <2>8. ReadInTime'
    BY <2>1, <2>2, <2>3, <2>5
       DEF ReadInTime, Elapsed, AtMost, ScanRows, FinishFrames, VisibleCells
  <2> QED
    BY <2>3, <2>4, <2>6, <2>7, <2>8, EntersFromRing DEF PrefetchInv, CaptionInv
<1> QED  BY <1>1, <1>2

\* The slot a glyph is read into holds none that is still to be shown.
LEMMA ReadNextHolds ==
  ASSUME CaptionInv, Beat, ReaderAhead, RingHolds, next.index < count, RoomForNext, ReadNext,
         UNCHANGED <<phase, count>>
  PROVE  RingHolds' /\ next'.index = next.index + 1
<1>1. /\ phase \in Nat /\ count \in Nat /\ next.index \in Nat /\ next.index >= AtMost(count, phase + 1)
      /\ cache \in [Slots -> Aligned] /\ restart.index \in Nat
  BY AlignedFacts DEF CaptionInv, RingAligned, ReaderAhead, AtMost, CacheCount
<1> DEFINE i == next.index
<1>2. i % CacheCount \in Slots
  BY <1>1 DEF Slots, CacheCount
<1>3. /\ cache' = [cache EXCEPT ![i % CacheCount] = next] /\ next'.index = i + 1 /\ restart' = restart
  BY DEF ReadNext, Store, After
<1>4. \A s \in Slots : cache'[s].index = IF s = i % CacheCount THEN i ELSE cache[s].index
  BY <1>1, <1>2, <1>3
<1>5. restart.index = 0
  BY <1>1 DEF ReaderAhead
<1>6. \A s \in Slots : cache'[s].index \in -1 .. count - 1
  BY <1>1, <1>4 DEF RingHolds
<1>7. ASSUME NEW g \in 0 .. i, phase < g + VisibleCells
      PROVE  cache'[g % CacheCount].index = g
  <2>1. CASE g = i
    BY <1>2, <1>4, <2>1
  <2>2. CASE g < i
    <3>1. i < g + CacheCount
      BY <1>1, <1>7, <2>2 DEF RoomForNext, CacheCount, VisibleCells
    <3>2. g \in Nat /\ g \in 0 .. i - 1
      BY <1>1, <2>2
    <3>3. g % CacheCount \in Slots /\ g % CacheCount # i % CacheCount
      BY <1>1, <2>2, <3>1, <3>2, OwnSlots
    <3>4. cache[g % CacheCount].index = g
      BY <1>7, <3>2 DEF RingHolds
    <3> QED  BY <1>4, <3>3, <3>4
  <2> QED  BY <1>1, <2>1, <2>2
<1> QED
  BY <1>1, <1>3, <1>5, <1>6, <1>7 DEF RingHolds

\* The same for a glyph of the next round.
LEMMA ReadRestartHolds ==
  ASSUME CaptionInv, Beat, ReaderAhead, RingHolds, ~(next.index < count), RoomForRestart,
         ReadRestart, UNCHANGED <<phase, count>>
  PROVE  RingHolds' /\ restart'.index = restart.index + 1
<1>1. /\ phase \in Nat /\ count \in Nat /\ next.index = count /\ restart.index \in Nat
      /\ cache \in [Slots -> Aligned]
  BY AlignedFacts DEF CaptionInv, RingAligned, ReaderAhead, AtMost, CacheCount
<1> DEFINE r == restart.index
<1>2. r < count /\ r < 5 /\ r % CacheCount = r /\ r \in Slots
  BY <1>1 DEF RoomForRestart, AtMost, CacheCount, Slots
<1>3. /\ cache' = [cache EXCEPT ![r] = restart] /\ restart'.index = r + 1 /\ next' = next
  BY <1>2 DEF ReadRestart, Store, After
<1>4. \A s \in Slots : cache'[s].index = IF s = r THEN r ELSE cache[s].index
  BY <1>1, <1>2, <1>3
<1>5. cache[r].index = NoGlyph \/ cache[r].index + VisibleCells <= phase
  BY <1>2 DEF RoomForRestart
<1>6. \A s \in Slots : cache'[s].index \in -1 .. count - 1
  BY <1>1, <1>2, <1>4 DEF RingHolds
<1>7. ASSUME NEW g \in 0 .. count - 1, phase < g + VisibleCells
      PROVE  cache'[g % CacheCount].index = g
  <2>1. g % CacheCount \in Slots
    BY <1>1 DEF Slots, CacheCount
  <2>2. cache[g % CacheCount].index = g
    BY <1>1, <1>7 DEF RingHolds
  <2>3. g % CacheCount # r
    BY <1>1, <1>5, <1>7, <2>2 DEF NoGlyph, VisibleCells
  <2> QED  BY <1>4, <2>1, <2>2, <2>3
<1>8. ASSUME NEW g \in 0 .. r
      PROVE  cache'[g % CacheCount].index = g
  <2>1. g % CacheCount = g /\ g \in Slots
    BY <1>1, <1>2, LowSlots DEF CacheCount
  <2>2. g # r => cache[g].index = g
    BY <1>1, <2>1 DEF RingHolds
  <2> QED  BY <1>4, <2>1, <2>2
<1> QED
  BY <1>1, <1>3, <1>6, <1>7, <1>8 DEF RingHolds

\* With a read to make, a poll makes it.
LEMMA PollReads ==
  ASSUME CaptionInv, Beat, ReaderAhead, RingHolds, scroll,
         \/ next.index = phase + 1 /\ next.index < count
         \/ phase = count + VisibleCells - 1 /\ restart.index = 0
  PROVE  ReadWanted
<1>1. /\ phase \in Nat /\ count \in Nat \ {0} /\ next.index \in Nat
      /\ next.index >= AtMost(count, phase + 1) /\ next.index <= count
  BY AlignedFacts DEF CaptionInv, RingAligned, ReaderAhead, AtMost
<1>2. CASE next.index = phase + 1 /\ next.index < count
  BY <1>1, <1>2 DEF ReadWanted, RoomForNext
<1>3. CASE phase = count + VisibleCells - 1 /\ restart.index = 0
  <2>1. next.index = count
    BY <1>1, <1>3 DEF AtMost, VisibleCells
  <2>2. cache[restart.index % CacheCount].index \in -1 .. count - 1
    BY <1>3 DEF RingHolds, Slots, CacheCount
  <2>3. RoomForRestart
    BY <1>1, <1>3, <2>2 DEF RoomForRestart, AtMost, VisibleCells, CacheCount, NoGlyph
  <2> QED  BY <1>1, <2>1, <2>3 DEF ReadWanted
<1> QED  BY <1>2, <1>3

LEMMA ProcessEnters ==
  ASSUME CaptionInv, PrefetchInv, Process
  PROVE  PrefetchInv'
<1>1. CASE ~active'
  BY <1>1 DEF PrefetchInv
<1>2. CASE active'
  <2>1. active /\ Beat /\ ReaderAhead /\ RingHolds /\ ReadInTime /\ EnteringGlyphShown
    BY DEF Process, PrefetchInv
  <2>2. /\ rows_unpolled' = 0
        /\ UNCHANGED <<phase, step, cycle, screen, row, frames>>
        /\ UNCHANGED <<active, scroll, count, step_frames>>
    BY <1>2 DEF Process, Stop, scrollVars, scanVars, modeVars
  <2>3. Beat' /\ EnteringGlyphShown'
    BY <2>1, <2>2, CaptionAssumption DEF Beat, EnteringGlyphShown
  <2>4. /\ phase \in Nat /\ count \in Nat \ {0} /\ next.index \in Nat /\ restart.index \in Nat
        /\ next.index >= AtMost(count, phase + 1) /\ next.index <= count
    BY <2>1, AlignedFacts DEF CaptionInv, RingAligned, ReaderAhead, AtMost, CacheCount
  <2>5. CASE ReadWanted /\ next.index < count /\ ReadNext
    <3>1. RingHolds' /\ next'.index = next.index + 1 /\ restart' = restart
      BY <2>1, <2>2, <2>5, ReadNextHolds DEF ReadWanted, ReadNext
    <3>2. restart.index = 0 /\ phase < next.index + 1
      BY <2>1, <2>4, <2>5 DEF ReaderAhead, AtMost
    <3>3. ReaderAhead'
      BY <2>1, <2>2, <2>4, <2>5, <3>1, <3>2 DEF ReaderAhead, AtMost, VisibleCells
    <3>4. ReadInTime'
      BY <2>2, <2>4, <2>5, <3>1, <3>2 DEF ReadInTime, AtMost, VisibleCells
    <3> QED  BY <2>3, <3>1, <3>3, <3>4 DEF PrefetchInv
  <2>6. CASE ReadWanted /\ ~(next.index < count) /\ ReadRestart
    <3>1. RoomForRestart
      BY <2>6 DEF ReadWanted
    <3>2. RingHolds' /\ restart'.index = restart.index + 1 /\ next' = next
      BY <2>1, <2>2, <2>6, <3>1, ReadRestartHolds DEF ReadRestart
    <3>3. next.index = count /\ count <= phase /\ restart.index + 1 <= AtMost(count, CacheCount)
      BY <2>4, <2>6, <3>1 DEF RoomForRestart, AtMost, CacheCount
    <3>4. ReaderAhead'
      BY <2>1, <2>2, <2>4, <3>2, <3>3 DEF ReaderAhead
    <3>5. ReadInTime'
      BY <2>2, <2>4, <2>6, <3>2, <3>3 DEF ReadInTime
    <3> QED  BY <2>3, <3>2, <3>4, <3>5 DEF PrefetchInv
  <2>7. CASE ~ReadWanted /\ UNCHANGED readVars
    <3>1. UNCHANGED <<cache, next, restart>>
      BY <2>7 DEF readVars
    <3>2. ReaderAhead' /\ RingHolds'
      BY <2>1, <2>2, <3>1 DEF ReaderAhead, RingHolds
    <3>3. ReadInTime'
      BY <2>1, <2>2, <2>7, <3>1, PollReads DEF ReadInTime
    <3> QED  BY <2>3, <3>2, <3>3 DEF PrefetchInv
  <2> QED  BY <1>2, <2>5, <2>6, <2>7 DEF Process, Stop
<1> QED  BY <1>1, <1>2

\* A row is one row more.
LEMMA RowCounts ==
  ASSUME Beat, Refresh, ~StepIsDue, scroll
  PROVE  Elapsed' <= Elapsed + 1
<1>1. /\ step' = step /\ step \in Nat /\ frames \in Nat /\ row \in 0 .. 3
      /\ row' = (IF row + 1 >= 4 THEN 0 ELSE row + 1)
      /\ frames' = (IF row + 1 >= 4 THEN frames + 1 ELSE frames)
  BY DEF Beat, Refresh, LastRow, ScanRows, scrollVars, GlyphSteps
<1> QED  BY <1>1 DEF Elapsed, AtMost, ScanRows, FinishFrames

\* A step takes three frames at the least.
LEMMA StepCounts ==
  ASSUME Beat, StepIsDue
  PROVE  row = ScanRows - 1 /\ Elapsed = ScanRows * FinishFrames * (step + 1) - 1
<1>1. /\ step \in Nat /\ frames \in Nat /\ row \in 0 .. 3 /\ row + 1 >= 4 /\ step_frames >= 3
      /\ step_frames <= frames + 1 /\ step_frames \in Nat
  BY DEF Beat, StepIsDue, LastRow, ScanRows, GlyphSteps, NormalFrames, FinishFrames
<1> QED  BY <1>1 DEF Elapsed, AtMost, ScanRows, FinishFrames

LEMMA RowEnters ==
  ASSUME PrefetchInv, active, Refresh, ~StepIsDue
  PROVE  PrefetchInv'
<1>1. Beat /\ ReaderAhead /\ RingHolds /\ ReadInTime /\ EnteringGlyphShown
  BY DEF PrefetchInv
<1>2. /\ UNCHANGED <<phase, step, cycle, screen, next, restart, cache>>
      /\ UNCHANGED <<active, scroll, count, step_frames>>
      /\ row' = (IF LastRow THEN 0 ELSE row + 1)
      /\ frames' = (IF LastRow /\ scroll THEN frames + 1 ELSE frames)
      /\ rows_unpolled' = (IF scroll THEN rows_unpolled + 1 ELSE 0)
      /\ Polled
  BY DEF Refresh, scrollVars, modeVars
<1>3. Beat'
  BY <1>1, <1>2, CaptionAssumption DEF Beat, Polled, LastRow, ScanRows
<1>4. ReaderAhead' /\ RingHolds' /\ EnteringGlyphShown'
  BY <1>1, <1>2 DEF ReaderAhead, RingHolds, EnteringGlyphShown
<1>5. scroll => Elapsed \in Int /\ Elapsed' \in Int /\ Elapsed' <= Elapsed + 1
  <2>1. Elapsed \in Int /\ Elapsed' \in Int
    BY <1>1, <1>3 DEF Beat, Elapsed, AtMost, ScanRows, FinishFrames, GlyphSteps
  <2> QED  BY <1>1, <2>1, RowCounts
<1>6. ReadInTime'
  BY <1>1, <1>2, <1>5 DEF ReadInTime, Beat
<1> QED  BY <1>3, <1>4, <1>6 DEF PrefetchInv

\* A glyph takes so many rows to pass at the faster speed.
OnePass == ScanRows * FinishFrames * GlyphSteps

LEMMA StepEnters ==
  ASSUME PollRows < OnePass, CaptionInv, CaptionInv', PrefetchInv, active, Refresh, StepIsDue
  PROVE  PrefetchInv'
<1>1. Beat /\ ReaderAhead /\ RingHolds /\ ReadInTime
  BY DEF PrefetchInv
<1>2. /\ Advance /\ row' = 0 /\ frames' = 0 /\ scroll /\ Polled
      /\ rows_unpolled' = rows_unpolled + 1
      /\ UNCHANGED <<cache, active, scroll, count, step_frames>>
  BY DEF Refresh, StepIsDue, LastRow, modeVars
<1>3. /\ phase \in Nat /\ count \in Nat \ {0} /\ next.index \in Nat /\ restart.index \in Nat
      /\ next.index >= AtMost(count, phase + 1) /\ next.index <= count
      /\ step \in 0 .. 16 /\ rows_unpolled \in Nat /\ rows_unpolled < PollRows
  BY <1>1, <1>2, AlignedFacts
     DEF CaptionInv, RingAligned, ReaderAhead, AtMost, CacheCount, Beat, GlyphSteps, Polled
<1>4. Elapsed = 12 * (step + 1) - 1
  BY <1>1, <1>3, StepCounts DEF ScanRows, FinishFrames
<1>5. step' \in 0 .. 16 /\ Elapsed' = 12 * step'
  <2>1. step' \in 0 .. 16
    BY <1>2, <1>3 DEF Advance, Wrap, PhaseEnds, GlyphSteps
  <2> QED  BY <1>2, <2>1 DEF Elapsed, AtMost, ScanRows, FinishFrames
<1>6. Beat'
  BY <1>1, <1>2, <1>3, <1>5, CaptionAssumption DEF Beat, GlyphSteps, ScanRows
<1>7. step = 16 => ~(Elapsed <= rows_unpolled)
  BY <1>3, <1>4, CaptionAssumption DEF OnePass, ScanRows, FinishFrames, GlyphSteps
<1>8. ReaderAhead' /\ RingHolds' /\ ReadInTime'
  <2>1. CASE ~PhaseEnds
    <3>1. phase' = phase /\ step' = step + 1 /\ next' = next /\ restart' = restart
      BY <1>2, <2>1 DEF Advance, RoundEnds
    <3>2. ReaderAhead' /\ RingHolds'
      BY <1>1, <1>2, <3>1 DEF ReaderAhead, RingHolds
    <3>3. ReadInTime'
      BY <1>1, <1>2, <1>3, <1>4, <1>5, <3>1 DEF ReadInTime
    <3> QED  BY <3>2, <3>3
  <2>2. CASE PhaseEnds /\ ~RoundEnds
    <3>1. phase' = phase + 1 /\ step' = 0 /\ next' = next /\ restart' = restart /\ step = 16
      BY <1>2, <1>3, <2>2 DEF Advance, PhaseEnds, GlyphSteps
    <3>2. phase + 1 <= count + VisibleCells
      BY <1>3, <2>2 DEF RoundEnds, VisibleCells
    <3>3. /\ ~(next.index = phase + 1 /\ next.index < count)
          /\ ~(phase = count + VisibleCells - 1 /\ restart.index = 0)
      BY <1>1, <1>2, <1>7, <3>1 DEF ReadInTime
    <3>4. next.index >= AtMost(count, phase + 2)
      BY <1>3, <3>3 DEF AtMost
    <3>5. phase + 1 = count + VisibleCells => restart.index > 0
      BY <1>3, <3>3 DEF VisibleCells
    <3>6. ReaderAhead'
      BY <1>1, <1>2, <1>3, <3>1, <3>2, <3>4, <3>5 DEF ReaderAhead, AtMost, VisibleCells
    <3>7. RingHolds'
      BY <1>1, <1>2, <1>3, <3>1 DEF RingHolds, VisibleCells
    <3>8. ReadInTime'
      BY <1>2, <1>3, <1>5, <3>1 DEF ReadInTime
    <3> QED  BY <3>6, <3>7, <3>8
  <2>3. CASE RoundEnds
    <3>1. phase' = 0 /\ step' = 0 /\ next' = restart /\ restart' = Origin
      BY <1>2, <2>3 DEF Advance, Wrap
    <3>2. phase = count + VisibleCells
      BY <1>1, <1>3, <2>3 DEF RoundEnds, ReaderAhead, VisibleCells
    <3>3. restart.index > 0 /\ restart.index <= AtMost(count, CacheCount) /\ restart'.index = 0
      BY <1>1, <1>2, <1>3, <3>1, <3>2 DEF ReaderAhead, Origin, AtMost, CacheCount
    <3>4. ReaderAhead'
      BY <1>2, <1>3, <3>1, <3>3 DEF ReaderAhead, AtMost, VisibleCells, CacheCount
    <3>5. RingHolds'
      BY <1>1, <1>2, <1>3, <3>1, <3>3 DEF RingHolds
    <3>6. ReadInTime'
      BY <1>2, <1>3, <1>5, <3>1 DEF ReadInTime
    <3> QED  BY <3>4, <3>5, <3>6
  <2> QED  BY <2>1, <2>2, <2>3
<1>9. EnteringGlyphShown'
  <2>1. screen' = Picture(phase', step', count', cache')
    BY <1>2 DEF Advance
  <2> QED  BY <1>8, <2>1, EntersFromRing DEF CaptionInv
<1> QED  BY <1>6, <1>8, <1>9 DEF PrefetchInv

LEMMA PrefetchKept ==
  ASSUME PollRows < OnePass, CaptionInv, CaptionInv', PrefetchInv, [Next]_vars
  PROVE  PrefetchInv'
<1>1. CASE PlayerStep
  <2>1. CASE FinishScroll
    BY <2>1 DEF FinishScroll, readVars, scrollVars, scanVars, PrefetchInv, Beat, ReaderAhead,
                RingHolds, ReadInTime, Elapsed, EnteringGlyphShown
  <2>2. CASE Hide
    BY <2>2 DEF Hide, Stop, PrefetchInv
  <2> QED  BY <1>1, <2>1, <2>2, ShowEnters, ProcessEnters DEF PlayerStep
<1>2. CASE TimerStep
  <2>1. CASE Refresh
    BY <2>1, RowEnters, StepEnters DEF Refresh
  <2>2. CASE RefreshAndFinish \/ RefreshFails
    BY <2>2 DEF RefreshAndFinish, RefreshFails, Stop, PrefetchInv
  <2> QED  BY <1>2, <2>1, <2>2 DEF TimerStep
<1>3. CASE UNCHANGED vars
  BY <1>3 DEF vars, readVars, scrollVars, scanVars, modeVars, PrefetchInv, Beat, ReaderAhead,
              RingHolds, ReadInTime, Elapsed, EnteringGlyphShown
<1> QED  BY <1>1, <1>2, <1>3 DEF Next

\* Every glyph is in the ring when it enters the screen, in every round and for
\* captions of any length, as long as the player polls once while a glyph passes:
\* every 204 rows, which is one second.
THEOREM EnteringShown ==
  ASSUME PollRows < OnePass
  PROVE  Spec => []EnteringGlyphShown
<1>1. Init => PrefetchInv
  BY DEF Init, PrefetchInv
<1>2. CaptionInv /\ PrefetchInv /\ [Next]_vars => PrefetchInv'
  BY PrefetchKept, StepKeeps
<1>3. PrefetchInv => EnteringGlyphShown
  BY DEF PrefetchInv, EnteringGlyphShown
<1> QED  BY <1>1, <1>2, <1>3, InitRight, StepKeeps, PTL DEF Spec
=============================================================================

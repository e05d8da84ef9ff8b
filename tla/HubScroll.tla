----------------------------- MODULE HubScroll -----------------------------
(***************************************************************************)
(* The caption on the HUB12 screen: hub_display_app.c and                  *)
(* hub_display_service.c.  A caption of any length scrolls over four       *)
(* character cells.  Glyphs come from a slow font ROM and live in a ring   *)
(* of five; the player task refills the ring (Process) while the scan      *)
(* timer shows it and moves it on (Refresh).  Both hold the display's      *)
(* mutex, so each is one step here; how the tasks interleave around the    *)
(* mutex is not the subject of this module.                                *)
(*                                                                         *)
(* A glyph is the position of its character in the text; pixels are left   *)
(* out but for the row at which a cell enters or leaves the window.        *)
(***************************************************************************)
EXTENDS Integers

CONSTANTS
  MaxGlyphs,      \* longest caption, in characters
  CycleLimit,     \* scroll_cycle_count counts modulo this, 256 in the code
  PollRows,       \* the player polls at least once in so many scanned rows
  Faults          \* TRUE: the font ROM, a pin or the timer may fail

ASSUME CaptionAssumption ==
  /\ MaxGlyphs \in Nat \ {0} /\ CycleLimit \in Nat \ {0, 1}
  /\ PollRows \in Nat \ {0} /\ Faults \in BOOLEAN

CacheCount   == 5     \* HUB_DISPLAY_SERVICE_GLYPH_CACHE_COUNT
VisibleCells == 4     \* HUB_DISPLAY_VISIBLE_SLOT_COUNT
GlyphRows    == 16    \* HUB_DISPLAY_GLYPH_ROW_COUNT
GlyphSteps   == 17    \* HUB_DISPLAY_GLYPH_STEP_COUNT, one blank row between glyphs
ScanRows     == 4     \* BSP_HUB_DISPLAY_SCAN_ROW_COUNT
NormalFrames == 5     \* HUB_DISPLAY_SCROLL_STEP_FRAMES_NORMAL
FinishFrames == 3     \* HUB_DISPLAY_APP_FINISH_STEP_FRAMES

VARIABLES
  active,          \* the service is active and the app visible
  scroll,          \* scroll_enabled
  count,           \* glyph_count
  cache,           \* the ring: for each slot the glyph index and the character read
  next,            \* next_glyph_index, and the character next_text_index is at
  restart,         \* the same for the start of the next round
  phase, step,     \* glyph_phase, scroll_pixel_step
  row, frames,     \* current_row, animation_frame_count
  step_frames,     \* scroll_step_frames
  cycle,           \* scroll_cycle_count
  screen,          \* scan_data: the character each cell of the window shows
  finish_pending,  \* hub_display_app_finish_pending
  start_cycle,     \* hub_display_app_finish_start_cycle
  rows_unpolled    \* history: rows scanned since the player polled

readVars   == <<cache, next, restart>>
scrollVars == <<phase, step, cycle, screen>>
scanVars   == <<row, frames>>
modeVars   == <<active, scroll, count, step_frames, finish_pending, start_cycle>>
vars == <<readVars, scrollVars, scanVars, modeVars, rows_unpolled>>

Slots   == 0 .. CacheCount - 1
Cells   == 0 .. CacheCount - 1
NoGlyph == -1
Empty   == [index |-> NoGlyph, char |-> NoGlyph]
Cleared == [s \in Slots |-> Empty]
Origin  == [index |-> 0, char |-> 0]

AtMost(a, b) == IF a < b THEN a ELSE b

-----------------------------------------------------------------------------
(* The picture.                                                            *)

\* Cell k of the staging window holds rows 17k .. 17k+15 of the stream, of
\* which rows s .. s+63 are on the screen at pixel step s.
OnScreen(k, s) == \E r \in 0 .. GlyphRows - 1 :
  GlyphSteps * k + r \in s .. s + VisibleCells * GlyphRows - 1

\* The character that belongs into cell k at phase p of a text of n characters.
Due(k, p, n) == IF p + k >= VisibleCells /\ p + k - VisibleCells < n
                THEN p + k - VisibleCells ELSE NoGlyph

\* hub_display_service_stream_bit_get: a glyph that is not in its slot is blank.
Shown(k, p, s, n, ring) ==
  LET g == Due(k, p, n)
  IN IF OnScreen(k, s) /\ g # NoGlyph /\ ring[g % CacheCount].index = g
     THEN ring[g % CacheCount].char ELSE NoGlyph

\* hub_display_service_scan_data_prepare
Picture(p, s, n, ring) == [k \in Cells |-> Shown(k, p, s, n, ring)]

-----------------------------------------------------------------------------
(* Reading glyphs.                                                         *)

\* hub_display_service_glyph_read: the character at the text position goes to
\* the slot of its index.
Store(at) == [cache EXCEPT ![at.index % CacheCount] = at]

After(at) == [index |-> at.index + 1, char |-> at.char + 1]

\* hub_display_service_stop, which clears everything but the picture.
Stop ==
  /\ active' = FALSE /\ scroll' = FALSE /\ count' = 0
  /\ cache' = Cleared /\ next' = Origin /\ restart' = Origin
  /\ phase' = VisibleCells /\ step' = 0 /\ row' = 0 /\ frames' = 0
  /\ step_frames' = NormalFrames /\ cycle' = 0
  /\ finish_pending' = FALSE
  /\ rows_unpolled' = 0
  /\ UNCHANGED screen

\* hub_display_app_show_gbk with a valid text of n characters: preload the
\* ring, prepare the picture, start scanning.
Load(n) ==
  /\ count' = n /\ restart' = Origin
  /\ LET m == AtMost(n, CacheCount)
     IN /\ next' = [index |-> m, char |-> m]
        /\ cache' = [s \in Slots |-> IF s < m THEN [index |-> s, char |-> s] ELSE Empty]

Start(n, scrolling) ==
  /\ row' = 0 /\ frames' = 0 /\ step' = 0 /\ cycle' = 0
  /\ step_frames' = NormalFrames
  /\ phase' = IF scrolling THEN 0 ELSE VisibleCells
  /\ scroll' = scrolling
  /\ screen' = Picture(phase', 0, n, cache')

Show(n, scrolling) ==
  /\ ~active
  /\ \/ /\ Load(n) /\ Start(n, scrolling)
        /\ active' = TRUE
        /\ finish_pending' = FALSE /\ start_cycle' = 0
        /\ rows_unpolled' = 0
     \/ /\ Faults               \* the screen did not start: the text stays loaded
        /\ Load(n) /\ Start(n, scrolling)
        /\ UNCHANGED <<active, finish_pending, start_cycle, rows_unpolled>>
     \/ /\ Faults               \* a glyph could not be read
        /\ \E m \in 0 .. AtMost(n, CacheCount) - 1 : next' = [index |-> m, char |-> m]
        /\ count' = 0 /\ cache' = Cleared /\ restart' = Origin
        /\ UNCHANGED <<scrollVars, scanVars, active, scroll, step_frames,
                       finish_pending, start_cycle, rows_unpolled>>

-----------------------------------------------------------------------------
(* The player's poll: hub_display_service_stream_process.                  *)

\* Instead: the wait that makes room for the next glyph ends one phase late.
RoomForNextLate == next.index < CacheCount \/ phase >= next.index + 1

\* The ring has room for the next glyph: it is not full yet, or the phase has
\* come to the glyph before the next one.
RoomForNext == next.index < CacheCount \/ phase + 1 >= next.index

\* The first glyphs are read again, for the next round, once the caption has
\* begun to leave and the slot's old glyph has reached the last cell.
RoomForRestart ==
  /\ restart.index < AtMost(count, CacheCount)
  /\ phase >= count
  /\ LET old == cache[restart.index % CacheCount].index
     IN old = NoGlyph \/ old + VisibleCells <= phase

ReadNext    == cache' = Store(next) /\ next' = After(next) /\ UNCHANGED restart
ReadRestart == cache' = Store(restart) /\ restart' = After(restart) /\ UNCHANGED next

ReadWanted == scroll /\ IF next.index < count THEN RoomForNext ELSE RoomForRestart

Process ==
  /\ active
  /\ \/ /\ ReadWanted
        /\ IF next.index < count THEN ReadNext ELSE ReadRestart
        /\ rows_unpolled' = 0
        /\ UNCHANGED <<scrollVars, scanVars, modeVars>>
     \/ /\ ~ReadWanted
        /\ rows_unpolled' = 0
        /\ UNCHANGED <<readVars, scrollVars, scanVars, modeVars>>
     \/ /\ ReadWanted /\ Faults         \* voice_presentation_app_process hides
        /\ Stop /\ start_cycle' = 0

\* hub_display_app_finish_scroll, which the end of the voice calls.
FinishScroll ==
  /\ active /\ scroll /\ ~finish_pending
  /\ start_cycle' = cycle
  /\ step_frames' = FinishFrames
  /\ finish_pending' = TRUE
  /\ UNCHANGED <<readVars, scrollVars, scanVars, active, scroll, count, rows_unpolled>>

\* hub_display_app_hide, on a stop, an emergency or an MP3 request.
Hide == active /\ Stop /\ start_cycle' = 0

-----------------------------------------------------------------------------
(* The scan timer: hub_display_app_timer_callback.                         *)

LastRow   == row + 1 >= ScanRows
StepIsDue == LastRow /\ scroll /\ step_frames <= frames + 1
PhaseEnds == step + 1 >= GlyphSteps

\* Instead: the round ends when the last glyph has just come in.
RoundEndsEarly == PhaseEnds /\ count + 1 <= phase + 1
RoundEnds      == PhaseEnds /\ count + VisibleCells + 1 <= phase + 1

\* Instead: the round is not counted.
NextCycleUncounted == cycle
NextCycle == IF StepIsDue /\ RoundEnds THEN (cycle + 1) % CycleLimit ELSE cycle

\* Instead: the text position is not taken back to the start of the text.
WrapKeepsText ==
  /\ phase' = 0 /\ step' = 0
  /\ next' = [index |-> restart.index, char |-> next.char]
  /\ restart' = Origin

\* A round is over: the next one begins with the glyphs read for it.
Wrap ==
  /\ phase' = 0 /\ step' = 0
  /\ next' = restart
  /\ restart' = Origin

\* hub_display_service_animation_advance
Advance ==
  /\ IF RoundEnds THEN Wrap
     ELSE /\ phase' = IF PhaseEnds THEN phase + 1 ELSE phase
          /\ step' = IF PhaseEnds THEN 0 ELSE step + 1
          /\ UNCHANGED <<next, restart>>
  /\ cycle' = NextCycle
  /\ screen' = Picture(phase', step', count, cache)

\* The player polls at least once in every PollRows rows.
Polled == ~scroll \/ rows_unpolled < PollRows

\* The finish compares the cycle count with the one at the end of the voice.
Finishes == finish_pending /\ NextCycle # start_cycle

\* hub_display_service_refresh scans one row...
Refresh ==
  /\ active /\ Polled /\ ~Finishes
  /\ row' = IF LastRow THEN 0 ELSE row + 1
  /\ frames' = IF StepIsDue THEN 0
               ELSE IF LastRow /\ scroll THEN frames + 1 ELSE frames
  /\ IF StepIsDue THEN Advance ELSE UNCHANGED <<scrollVars, next, restart>>
  /\ rows_unpolled' = IF scroll THEN rows_unpolled + 1 ELSE 0
  /\ UNCHANGED <<cache, modeVars>>

\* ... and the callback stops the caption when that row ended the round.
RefreshAndFinish ==
  /\ active /\ Polled /\ Finishes
  /\ Stop
  /\ UNCHANGED start_cycle

\* A pin failed: the callback stops the caption.
RefreshFails == active /\ Polled /\ Faults /\ Stop /\ UNCHANGED start_cycle

-----------------------------------------------------------------------------
Init ==
  /\ active = FALSE /\ scroll = FALSE /\ count = 0
  /\ cache = Cleared /\ next = Origin /\ restart = Origin
  /\ phase = VisibleCells /\ step = 0 /\ row = 0 /\ frames = 0
  /\ step_frames = NormalFrames /\ cycle = 0
  /\ screen = [k \in Cells |-> NoGlyph]
  /\ finish_pending = FALSE /\ start_cycle = 0 /\ rows_unpolled = 0

PlayerStep ==
  \/ \E n \in 1 .. MaxGlyphs, scrolling \in BOOLEAN : Show(n, scrolling)
  \/ Process \/ FinishScroll \/ Hide

TimerStep == Refresh \/ RefreshAndFinish \/ RefreshFails

Next == PlayerStep \/ TimerStep

Spec == Init /\ [][Next]_vars

\* The timer runs on, and the player's loop polls while a caption is shown.
FairSpec == Spec /\ WF_vars(TimerStep) /\ WF_vars(Process)

-----------------------------------------------------------------------------
(* Properties.                                                             *)

\* Every variable keeps its type.
At == [index : -1 .. MaxGlyphs, char : -1 .. MaxGlyphs]

TypeOK ==
  /\ active \in BOOLEAN /\ scroll \in BOOLEAN /\ count \in 0 .. MaxGlyphs
  /\ cache \in [Slots -> At] /\ next \in At /\ restart \in At
  /\ phase \in 0 .. MaxGlyphs + VisibleCells /\ step \in 0 .. GlyphSteps - 1
  /\ row \in 0 .. ScanRows - 1 /\ frames \in 0 .. NormalFrames - 1
  /\ step_frames \in {NormalFrames, FinishFrames}
  /\ cycle \in 0 .. CycleLimit - 1 /\ start_cycle \in 0 .. CycleLimit - 1
  /\ screen \in [Cells -> -1 .. MaxGlyphs] /\ finish_pending \in BOOLEAN
  /\ rows_unpolled \in 0 .. PollRows

\* A cell never shows another character than the one that belongs there: the
\* index in the ring and the position in the text never drift apart, also when
\* a round wraps while the ring is only half refilled.
RightCharacter ==
  active => \A k \in Cells : screen[k] \in {NoGlyph, Due(k, phase, count)}

\* A glyph that enters the screen has been read in time, in the first round and
\* in every later one: no cell but the one it leaves by is blank for want of it.
EnteringGlyphShown ==
  active => \A k \in Cells \ {0} :
    OnScreen(k, step) => screen[k] = Due(k, phase, count)

\* The finish of a caption hides it only when the round has scrolled out.
FinishScrollsOut == [][RefreshAndFinish => \A k \in Cells : screen[k] = NoGlyph]_vars

\* After the voice has ended the caption ends, whatever the speed it ran at.
FinishEnds == finish_pending ~> ~active
=============================================================================

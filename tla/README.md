# Verification of the voice checkpoint firmware

This directory holds TLA+ models of the voice checkpoint firmware (AT32F435,
FreeRTOS), the TLC runs that check them on small instances, and TLAPS proofs of
what they promise for every instance. All paths below are relative to the
repository's root.

## 1. The system

```
 clients (start_or_test task: keys, test code)          remote modem owner task
        | audio_playback_app_play / voice_speak /              | polls every 10 ms
        | stop / emergency_set                                 v
        v  command queue (depth 4) + COMMAND bit        remote_modem_service
 +-------------------- player task, prio 6 -------------+      |
 |  audio_player_service (output state, DMA halves)     |  bsp_remote_modem / E27_D
 |     |-> bsp_audio_output (I2S + circular EDMA)       |      |
 |     |-> bsp_audio_amplifier (mute pin)               |  UART DMA ring + Kfifo
 |     '-> bsp_voice_synthesis / VTX316 (UART)          |
 |  voice_presentation_app -> hub_display_app (timer),  |
 |                            led_indicator_app (timer) |
 +---^--------------------------------------+-----------+
     | ready queue, PCM_READY/EOF/ERROR     | decode queue (depth 1), STOP bit
     |            free queue                v
 +--------------- decoder task, prio 5 -----------------+
 |  mp3_decoder_service over an audio_data_source       |
 +------------------------------------------------------+
        ^ DMA_HALF / DMA_FULL / DMA_ERROR from the EDMA interrupt
```

| component | state | operations | hard because | correct when |
|---|---|---|---|---|
| playback application (`01_App/audio_playback_app.c`) | session id, EOF flag, four PCM blocks in two queues, command and decode queues, notification bits, voice text buffer and its reservation | play, voice_speak, stop, emergency_set; the player's and the decoder's loops; the DMA callback | three contexts and the clients exchange bits and blocks without a session in most messages | no block is lost, audio is neither mixed nor reordered, each request ends, the text buffer has one owner |
| player service (`02_Service/audio_player_service.c`) | output state, halves that hold audio | init, prepare, unmute, start, refill, stop, voice start/process, emergency | a driver may fail in the middle of every transition | the stream runs exactly while PLAYING, emergencies keep the amplifier |
| MP3 decoder service (`02_Service/mp3_decoder_service.c`) | open source, input buffer | start, process, stop | the source may answer AGAIN, EOF or an error at any call | - |
| voice synthesis (`bsp_voice_synthesis.c`, `vtx316.c`) | chip state, active command, receive FIFO | speak, stop, poll | one-byte unsolicited answers, no identity, may be lost | a spoken text ends once, a failed one does not block the next |
| voice presentation (`voice_presentation_app.c`, `hub_display_app.c`, `led_indicator_app.c`) | IDLE / ACTIVE / FINISH_PENDING, caption visible, finish callback, LED phase | start, audio_finished, process, abort; two timer callbacks | player task preempts the timer task inside its callbacks | caption and LEDs end together, and they do end |
| HUB display service (`hub_display_service.c`) | scroll phase, ring of five glyphs, prefetch positions | text_set, start, stream_process, refresh, stop | the ring is refilled while it is shown | every glyph is there while it is on the screen |
| remote modem (`remote_modem_app.c`, `remote_modem_service.c`, `bsp_remote_modem.c`, `e27_d.c`) | stage, step, pending command, identity, result | poll, config_start, data_send | replies late, lost, or of an earlier command; reboots at any time | a failed configuration is reported as such, recovery is bounded |
| UART receive path (`at32f435_uart.c`, `kfifo.c`, `bsp_rs485.c`) | DMA ring positions, FIFO, overflow generation, news counters | interrupts, read, poll | the DMA runs on during its own interrupt; interrupt against reader | bytes in order, a gap is always reported, nothing is forgotten |
| volume keys (`button.c`, key loop of `freertos_app.c`) | debounced level, gesture state, three times | update | bouncing contacts, late polls, a wrapping tick | one action per hold, no press lost |
| audio volume (`audio_volume_service.c`, `bsp_audio_volume.c`, `cat5171.c`) | level, initialized flag; the wiper in the chip | init, step | an I2C transfer may fail, be lost, or fail after it took effect | the level believed is the wiper's, and it never leaps |
| file protocol, storage, font ROM, LEDs, drivers | small | - | - | see `PROJECT.json` |

`PROJECT.json` lists every component with its sources and status, and every
hazard at its line.

## 2. Plan

| order | module | of | with |
|---|---|---|---|
| 1 | `AudioPlayback` (+ `AudioPlayback_proofs`) | player task, decoder task, DMA, clients, player service | done: five runs, eleven theorems |
| 2 | `HubScroll` (+ `HubScroll_proofs`) | HUB display service: glyph ring and prefetch against the scrolling caption | done: one run, three theorems, section 4 |
| 3 | `VoicePresentation` (+ `VoicePresentation_proofs`) | presentation, caption timer and LED timer against the player task | done: one run, four theorems, section 5 |
| 4 | `RemoteModem`, `ConfigRequest` (+ `RemoteModem_proofs`, `RemoteSession_proofs`) | request slot, owner task, service, driver and module; the abstract request it implements | done: two runs, five theorems, section 6 |
| 5 | `VoiceChannel` (+ `VoiceChannel_proofs`) | player service's voice half, VTX316 driver, receive FIFO, speech chip | done: one run, three theorems, section 7 |
| 6 | `UartRx` (+ `UartRx_proofs`) | DMA ring, interrupts, FIFO, RS485 poll | done: one run, three theorems, section 8 |
| 7 | `KeyPanel` (+ `KeyPanel_proofs`) | key loop, button detector, volume service, potentiometer | done: one run, five theorems, section 9 |

`VoiceChannel` looks inside the answers that `AudioPlayback` takes from the
voice chip as given; `VoicePresentation` keeps of the player only whether a
voice is spoken. They share no variables.

Every safety invariant and every action property that a run checks is now also
proved; what TLC alone shows is liveness under fairness. Next: the types of
`HubScroll`, `VoicePresentation` and `UartRx`, and an abstract specification
with a proved refinement for a second component (`UartRx` as a stream that may
lose bytes but says so).

## 3. AudioPlayback

### State and actions

The variables are the code's own: the service record (`state`, `svc_session`,
`half`, `muted`, `stream`), the player's `runtime` (`session_id`,
`decoder_eof`), the queues, the notification words (`notify` of the player,
`decoder_stop` of the decoder), and one program counter per task. `written` is
a history variable: blocks of the session copied to the DMA buffer.

A PCM block in the ready queue carries the session it was decoded for and its
position (`frame`); samples are left out. `half[h]` is the session whose audio
a DMA half holds, or silence. A source is an unknown number of blocks up to
`FrameLimit`, after which it ends, fails or answers AGAIN.

One pass of the player's loop (`audio_app_player_task`) is cut where the code
calls its parts: `PlayerWake`, `CommandHandle` for each queued command,
`CommandsDone`, `VoiceProcess`, `DecodeEvents`, `PrebufferCheck`, `RefillHalf`,
`RefillFull`, `FinishCheck`. Each handler is one action with every call it
makes. The decoder's loop is cut at each queue operation, notification and
decoder call. A client call is cut at the critical section, the copy, the queue
send and the notification.

**Scheduling.** One core, fixed priorities: player 6, decoder 5, clients at 0
(the test task runs in the idle priority; see `project/inc/FreeRTOSConfig.h`).
`DecoderMayRun` and `ClientMayRun` say that a task takes a step only while those
above it are blocked, so the interleavings of the model are those the kernel
can produce, and the DMA interrupt can come between any two steps. With
`MediaBlocks` a source read may block the decoder, so clients run in the middle
of a decode.

Passes of the player that the 10 ms presentation poll causes while nothing else
happens change none of these variables and are left out: PREPARING is entered
only after the presentation was aborted. The presentation's failure is one of
the outcomes of a request under `Faults`.

### Runs

`BlockCount` is 2 or 3 (4 in the code). The stream starts when the whole pool is
ready, as in the code (`AUDIO_APP_START_PREBUFFER_BLOCKS`); two blocks fill the
two halves, and with two the pool runs empty, which is where the tasks block
each other.
`CommandDepth` is 1 or 2 (4 in the code): a full queue and a queue with two
requests both occur. `SessionLimit` is 2 or 3; with `SessionsWrap` ids are
reused at once, without it a run ends when they are used up, so that no id
stands for two sessions. `FrameLimit` is 2 to 4, so a source is shorter than,
equal to and longer than the DMA buffer.

| run | instance | shows |
|---|---|---|
| `playback_stream` | one client, all requests but voice, every failure mode, wrapping ids | `TypeOK`, `PoolPartition`: each PCM block is in exactly one place; `DmaHoldsCurrentSession`: no block of an earlier session is played |
| `playback_order` | two clients, queue of two, driver faults, no id reuse | `StreamOwned`, `AudioGapless`, `VoiceTextIntact`, `VoiceSlotHasOwner`, `OutputKeptByOwner`, `RefillsIdleHalf` |
| `playback_live` | MP3 and voice requests, decode errors, fairness | `PreparingEnds`, `PlayingEnds`, `VoiceSlotReleased`, `CompletesFully` |
| `playback_stale_stop` | finding: `PreparingEnds` fails once a stop may come | below |
| `playback_emergency_muted` | finding: `OutputKeptByOwner` fails with decode errors | below |

`playback_order` sets `CHECK_DEADLOCK FALSE` because its ids run out. It
excludes decode errors and DMA overruns, which are what
`playback_emergency_muted` and the assumption behind
`RefillsIdleHalf` (a half is refilled in the 26 ms it is not transmitted) are
about; `playback_stream` includes both.

**Fairness** (`FairSpec`). The kernel runs every ready task in the end, because
each task above it blocks after bounded work; hence weak fairness of the
player, which nothing preempts, and strong fairness of the decoder and of a
client inside a call, which are enabled again and again. The DMA plays while it
is started. Two assumptions are about the outside: a source does not answer
AGAIN for ever (`SourceProgress`), and the voice chip reports the end of what
it speaks (`VoiceEnds`; the repository lists the missing timeout in
`.agents/memory.md:134`). Nobody has to issue a request.

### What disagrees with the repository's own words

* **A stop can hang the next session.** `.agents/memory.md:128` says the
  leftover STOP notification that left the player in PREPARING is fixed. It is
  for emergencies and voice; but a stop while the last blocks of a source are
  playing, after the decoder left its loop at EOF, still leaves the bit, and
  the next session's decoder closes without telling the player.
* **A decode error ends an emergency.** `.agents/memory.md:120` says the
  amplifier stays unmuted until the key is pressed again; a DECODE_ERROR that
  the decoder raises after the emergency began stops the player service and
  mutes it.

Known and not stated as a property: the EOF of a superseded session marks the
current one as ended (`audio_playback_app.c:742`), which then starts with one
block and a half of silence although more of it is coming.

### Proofs (`AudioPlayback_proofs`)

For every pool size, queue depth, number of clients, session limit and, unless
the table says otherwise, every failure mode:

| theorem | states | argument |
|---|---|---|
| `TypeCorrect` | `Spec => []TypeOK` | `Typed` adds that a decoder past `RECEIVE` has a session, without which a filled block would carry id 0 |
| `PoolSafe` | `Spec => []PoolPartition` | the concatenation of the free queue, the ready queue and the held block is a permutation of the pool; `AllPlaces` gives each place an index, and each of take, fill, return, consume, flush and put-back is shown once to move a block and keep the index map injective |
| `StreamSafe` | `Spec => []StreamOwned` | `OutputInv`: the stream runs iff PLAYING_CS4344, and at start-up the service is idle and the halves silent |
| `DmaSafe` | `Spec => []DmaHoldsCurrentSession` | the same invariant with the halves; blocks are taken for the session of the service only |
| `VoiceSafe` | `Spec => []VoiceTextIntact` | `VoiceInv` adds that without a reservation nobody is reserved, no request is queued and nothing is spoken |
| `OutputKept` | `DecodeErrors = FALSE => (Spec => OutputKeptByOwner)` | `PassInv`: in the part of a pass that is for playing the service plays, so only commands and the voice's own end touch an emergency or a voice; `ErrorFree`: no decode error is ever reported |
| `VoiceSlotSafe` | `DecodeErrors = FALSE => (Spec => []VoiceSlotHasOwner)` | every action that ends the last owner's part releases the slot in the same step |
| `StreamStartsFresh` | `Spec =>` a stream starts with no DMA event pending or in hand | `DmaInv`: an event that outlives its stream finds the ready queue empty, since every stop flushes it and the decoder runs only when the player has nothing left to handle; and no stream starts with an empty queue |
| `IdleHalfRefilled` | `DmaOutruns = FALSE => (Spec => RefillsIdleHalf)` | `InStep`: an unhandled event of a half means that the DMA has gone on to the other one |
| `AudioInOrder` | `SessionsWrap = FALSE`, no EMERGENCY_OFF `=> (Spec => []AudioGapless)` | `BusyInv`: blocks of the session in the ready queue are its last entries, numbered on from what was written, and once the decoder works for it no other session waits; `IdsInv`: nobody knows a later session than the player |
| `SourcePlayedOut` | only play requests, `Faults = FALSE => (Spec => CompletesFully)` | `CleanInv`: a session is over in the decoder, the queues and the notification bits before the next begins |

Each hypothesis is one of the switches of the model, names a thing the code has
no defence against, and holds in the run that checks the property:

* `DecodeErrors = FALSE`: the finding above. A late DECODE_ERROR stops the
  player service whoever has the output, and leaves the reservation of a voice
  it has stopped with nobody.
* `DmaOutruns = FALSE`: the player handles an interrupt before the next one,
  26 ms later. No code checks it.
* `SessionsWrap = FALSE`: ids are 32 bits in the code. An id reused after
  2^32 sessions is out of scope; `playback_stream` reuses them at once to show
  that the pool and the DMA buffer do not depend on it.
* no EMERGENCY_OFF: outside an emergency it still stops the decoder and flushes
  the ready queue, so a session that is playing loses blocks
  (`audio_playback_app.c:628`, in the list of hazards).
* only play requests, no driver faults: a session that is stopped, or whose
  output fails, is not played to its end. Decode errors are allowed.

`AudioGapless` counts the session's blocks up to a place with `ActiveUpTo`, the
cardinality of a set of places, because facts about filtered sequences would
need induction over data. The proofs assume `PoolAssumption`,
`RequestAssumption` and `ModeAssumption`, which TLC evaluates in every run. The
invariants were checked by TLC on the instances of the runs before they were
proved. Checked only by TLC: what needs fairness (`PreparingEnds`,
`PlayingEnds`, `VoiceSlotReleased`).

## 4. HubScroll

### State and actions

The service's own fields for a scrolling caption: the ring of five glyph slots
(`cache`), the position of the next glyph to read (`next`) and of the next one
for the round after (`restart`), `phase` and `step` of the animation, the row
scan (`row`, `frames`), the round counter, and the app's `finish_pending` and
`start_cycle`. A glyph is the position of its character, so the model can tell
the slot index the code computes from the character it reads; pixels are left
out but for the rows at which a cell enters and leaves the window
(`OnScreen`). `screen` is what the last `scan_data_prepare` produced.

`Show`, `Process`, `FinishScroll` and `Hide` are the player's calls, `Refresh`,
`RefreshAndFinish` and `RefreshFails` the outcomes of one scan timer callback.
All of them hold the display's mutex in the code, so each is one step; the
interleavings around the mutex belong to `VoicePresentation`.

### Runs

`MaxGlyphs` is 7: captions shorter than, equal to and longer than the ring, and
long enough that two glyphs wait for room. All other numbers but two are the
code's: 17 steps a glyph, 5 or 3 frames a step, 4 rows a frame. `CycleLimit` is
2 (256 in the code), the hardest wrap. `PollRows` is 3: the player polls every
10 ms while a row takes 5 ms, and a pass may be late by a row.

| run | shows |
|---|---|
| `hub_scroll` | `RightCharacter`: no cell shows a wrong character in any round; `EnteringGlyphShown`: prefetch is in time; `FinishScrollsOut`, `FinishEnds`: a finish closes a screen that has scrolled out, and does |

**Fairness**: the auto-reload timer keeps firing and the player keeps polling.
`FinishEnds` is the only liveness property.

What the properties leave out: the *leaving* character.
`.agents/hub_display_summary.md:281` sizes the ring for the four characters
shown and the one to enter. The window of 64 rows over glyphs 17 rows apart
touches five glyphs from the first pixel step on, and the prefetch replaces the
leaving one at the start of its last phase: its remaining rows are blank from
the first pixel step. `RightCharacter` holds because blank is not wrong.

### Proofs (`HubScroll_proofs`)

For captions of any length, any modulus of the round counter and with every
fault; the first two for any pace of the poll.

| theorem | states | argument |
|---|---|---|
| `CharacterIsRight` | `Spec => []RightCharacter` | `RingAligned`: in the ring and at the reader's two places the glyph index equals the text position, also behind a wrap; a cell takes a glyph only if its slot holds the index that is due |
| `FinishIsBlank` | `Spec => FinishScrollsOut` | `FinishWaits`: while a finish is pending the round count is the one it noted, so the two differ only at the step that ends a round, and then nothing is due in any cell |
| `EnteringShown` | `PollRows < OnePass => (Spec => []EnteringGlyphShown)` | `PrefetchInv`: the reader is past the glyph that enters and the ring keeps what is still to be shown (`ReaderAhead`, `RingHolds`); as long as the glyph of the next phase, or the first one of the next round, is not read, no more rows were scanned in this phase than since the last poll (`ReadInTime`) |

`OnePass` is the 4 x 3 x 17 = 204 rows in which a glyph passes at the speed of a
finish, about one second: one poll in each is enough, for any text and also
where a round begins before all its first glyphs are read. The code polls every
two rows or three. TLC checked `PrefetchInv` with `PollRows` 203, on 14 million
states of captions of up to six characters, before it was proved.

## 5. VoicePresentation

### State and actions

The presentation's state, the app's `visible`, `finish_pending`, `callback` and
`start_cycle`, the scan timer and the commands queued for it, the mutex, the
voice LEDs' `led_active`, `red_is_on` and the two pins, and a program counter
for the player and for the timer task. A history variable, `overtaken`, which no
guard reads, remembers whether the last stop of the LEDs fell between the
decision of their callback and its writes. Of the display service only `active` and
the round counter are kept; of the player service only whether a voice is
spoken.

The player's pass is cut where it may have to wait for the mutex
(`FINISH_LOCK`, `HIDE_LOCK`, `PROCESS_LOCK`): the player (6) outranks the timer
task (2), so nothing else comes between two of its statements. The timer task
may be preempted between any two accesses to shared state, so its callbacks are
cut there: take, refresh, check, give, stop timer, notify, presentation state,
red pin, blue pin; and for the LED timer: decision, red, blue. The timer task
handles commands and callbacks in either order.

A request comes from a client in the idle priority, so it finds both tasks at
rest (`RequestMayCome`); that is why a new caption cannot meet the old one's
callback half-way. A decode error (`VoiceCut`) comes from the decoder (5) and
may preempt a callback. Pins, timers and the mutex do not fail; glyph reads,
scans, the chip and its line do.

### Runs

`TimerQueueLength` is the code's 10; the longest queue reached is five.
`CycleLimit` is 2.

| run | shows |
|---|---|
| `presentation` | `TimerQueueHasRoom`; `CaptionIsScanned`: a shown caption has its timer and its service; `ScreenOff`: an ended presentation has closed all three; `PresentationEnds`: FINISH_PENDING is always left; `LedsStop`: the LEDs of an ended presentation do not blink and are off, but for one that an overtaken callback has put on again |

**Fairness**: the player's pass is completed (weak); the timer task, which every
pass of the player interrupts, gets its turn again and again (strong); a
caption that is scanned for ever ends its round, which `HubScroll` checks as
`FinishEnds`. Neither voice nor LED timer has to end anything.

The exception in `LedsStop`: the LED callback takes its decision in a critical
section and writes the pins behind it (`led_indicator_app.c:72`). A stop in
between is overwritten, and one LED stays lit until the next presentation or
stop, although `.agents/hub_display_summary.md:23` has everything closed at
once. `LedsStop` says that this race is the only way to a lit LED, that it never
lights both, and that the timer itself always stops.

### Proofs (`VoicePresentation_proofs`)

With every fault and any modulus of the round counter; the first three for any
length of the queue.

| theorem | states | argument |
|---|---|---|
| `CaptionStaysScanned` | `Spec => []CaptionIsScanned` | `ShownIsKept`: a visible caption has an active service, and the last command queued for its timer, or the timer if none is queued, is a start |
| `DisplayGivenBack` | `Spec => []ScreenOff` | `HiddenIsStopped`: what is active or will run behind a hidden caption is about to be stopped, by a player that waits for the mutex or by the callback that hid it |
| `BlinkingEnds` | `Spec => []LedsStop` | `BlinkIsStopped`: LEDs that outlive their presentation are about to be stopped; `OnePin`: both pins are on only between the two writes of a callback; `DarkOrOvertaken`: what is lit behind an ended presentation is about to be put off, or was stopped under a callback |
| `QueueHasRoom` | `TimerQueueLength >= 5 => (Spec => []TimerQueueHasRoom)` | `RoomInv`: commands queued and commands still due, one each for the voice, the presentation and the end of the scan, are at most five; it needs `Locks`: a player waiting for the mutex still has its presentation |

Five is exact: TLC violates the property with a queue of four. It also checked
the invariants on the instance of `presentation`. Only `QueueHasRoom` uses who
may run when a task waits for the mutex; the others rest on requests finding
the timer task idle.

## 6. RemoteModem

### State and actions

`remote` is the service's record, with the driver's (`device`: mode, pending
command) and the BSP's `report` inside it, because every transition of the
service that resets the session resets those too. `reserved`, `snapshot`,
`queue` and `clients` are the app's request slot. The module is what the code
expects of an E27-D: a mode, the id it uses (`m_id`) and the id in its flash
(`m_saved`), with commands on the way to it (`inbox`) and lines on the way back
(`line`). `own` in both is a history mark: it is cleared from all that is under
way when a new command is sent.

The owner's pass is `CommandTake`, `CommandRelease`, `PollTick`, any number of
`PollLine` (or `PollLost`), one `Serve` action, `Publish`. The `Serve` actions
are the exits of `remote_modem_service_poll` in the order of the code: a failed
completion, a reboot in the middle of a flow, a settled stage, the flow's
timeout, the stage timers, the next command. Whole lines are read; a line that
arrives in two parts is one that arrives late, and a command refused because of
one is a send that fails.

The module may obey, refuse, acknowledge a setting it does not keep, lose a
command or its answer, and reboot at any time, with or without telling. It owes
nothing.

**Tables.** `ConfigCommands` and `ReadCommands` keep one command of each kind
the code tells apart: one setting for the eight others, the SIM query for the
queries that need data. **Times.** Each timer may run out at any poll, but the
flow timer, which `flow_age` counts. What the waits are for is stated as an
assumption about the module: an answer comes, if at all, before 3 s of silence
end behind a timed-out command (always), and before the waits not in
`LateWaits` end: 2 s after a boot, 100 ms before a configuration.

`ConfigRequest` states the promise: a request runs alone, ends once, and has
succeeded only if the flash then holds the id it asked for. `RemoteModem`
implements it with `result`, `requested` and `m_saved`.

### Runs

One id and the factory's: a right and a wrong one. Two clients, so that one may
submit at each step of the other. `FlowLimit` 1: a flow is in time or not.
`LineLimit` 2: an answer and a boot notification in one read.

| run | shows |
|---|---|
| `remote_config` | `SlotAccounted`: the slot is reserved as long as one request is under way; `NormalIsTransparent`; `OwnReply`: no late answer is credited to a later command; `ImplementsConfigRequest`; `FlowEnds`: no reboot, silence or lost byte keeps a flow running |
| `remote_stale_reply` | finding: `OwnReply` fails when an answer outlasts the 100 ms |

**Fairness**: the owner task, which shares its priority by time slices, goes on
with its pass (reading one line more does not count), and time passes. A flow
whose last answer comes together with a boot notification is over and begins
anew in one poll without NORMAL ever being published; `FlowOver` counts it.

**Finding: an old answer for a new command.** `E27_D/README.md:53` forbids a
command before old replies are ruled out. Recovery waits for 3 s of silence; a
request accepted in FAULT, the state after a recovery command failed, waits
100 ms whatever is received (`remote_modem_service.c:488`).

### Proofs (`RemoteModem_proofs`, `RemoteSession_proofs`)

For any ids, any number of submitting tasks, any flow time and any receive
buffer. The theorems marked P assume `Patient` (`LateWaits = {}`): the finding
above is what happens without it.

| theorem | states | argument |
|---|---|---|
| `SlotSafe` | `Spec => []SlotAccounted` | `SlotInv`: the one request is with a client, in the queue or with the owner, and nowhere when the slot is free |
| `ModemTypeCorrect` | `Spec => []TypeOK` | `SessionInv`: a command is pending in the service exactly in the stages that have commands, and then it is pending in the driver or reported, not both |
| `RepliesAreOwn` (P) | `Spec => []OwnReply` | `WireInv`: with a command pending the wire holds that command or one answer to it, and nothing once it is answered with OK |
| `NormalIsSafe` (P) | `Spec => []NormalIsTransparent` | `ModeInv`: the answer to the exit tells that the module has left command mode, and nothing that could bring it back is under way |
| `RequestIsKept` (P) | `Spec => ImplementsConfigRequest` | `FlashInv`: after the restart the module runs with what it has saved, so the id it tells is the one in its flash |

Each invariant builds on the one above it. A pass of the service has nine exits
in the code; `PassOutcome` brings them down to four (it fails, the boot settles,
it waits, it asks), and the later proofs use only these. TLC checked the four
invariants on the instance of `remote_config` before they were proved.

## 7. VoiceChannel

### State and actions

`service` and `muted` are the player service's state and the MUTE pin;
`active_command` and `device_state` the driver's record; `fifo` what the
receive interrupt has put into the port and nobody has read; `poll` the poll
under way. `wire`, `speaking` and `outbox` are the chip: frames on their way to
it, its R/B pin, and bytes it has still to send. A byte is named by the event it
stands for. Two details are left out: the poll samples the FIFO's size and its
overflow generation in one step, where the code takes them one after the other,
and a write to the MUTE pin succeeds. No property here depends on either; a
failing mute write is among the faults of `AudioPlayback`.

`VoiceStart`, `ServiceStop`, `EmergencyOn`, `EmergencyOff` are the player's
calls with the driver's and BSP's calls inside. A transmission that times out
may have sent the frame whole, in part or not at all. The poll is cut at every
read of the FIFO (`PollHead`, `PollRead`, `PollFault`), because the receive
interrupt may discard the FIFO in the middle of one, and then at every byte that
was read (`PollByte`): the chip may go on while the driver is given the bytes
one by one. Only a service in
PLAYING_VOICE polls, so the FIFO keeps what comes between two texts. The chip
answers each frame, ends a text with 0x4F, rejects a cut frame and silences a
text when it is stopped or another one begins. It tells that it is speaking
(0x4E) only when asked, and the application never asks.

### Run

`FifoSize` 4 (64 in the code) and `ReadSize` 2 (16): a FIFO that overflows and a
poll of more than one read both occur. `TextLimit` 4: the answers of one text
meet the next but one. `CHECK_DEADLOCK FALSE`: the texts run out.

| run | shows |
|---|---|
| `voice_channel` | `SpokenAloudOnCleanLine`: a text is heard to its end; `RetryUnlessStopFailed`: only a stop that was not transmitted makes the driver refuse for good; `VoiceEnds`: PLAYING_VOICE is always left |

Both conditions are needed, and name what the code does not guard against. With
a 0x4F left over from an earlier text (`stale`), the first poll of the next one
ends it and mutes the amplifier while the chip speaks (`vtx316.c:245`: the byte
carries no text). With a stop that timed out, `active_command` stays SPEAK while
the service is IDLE and no longer polls, so nothing ever clears it
(`vtx316.c:123`).

**Fairness**: the player polls while a voice plays, the chip works through its
frames and texts, and the UART delivers. A 0x4F lost on the wire is outside
`VoiceEnds`: nothing times it out (`.agents/memory.md:134`). Also outside: the
30 ms the chip wants between two frames (99_Doc, VTX316, note 3), which nothing
waits for, and a chip that resets in the middle of a text.

### Proofs (`VoiceChannel_proofs`)

For every size of the FIFO and of a read, any number of texts, and with or
without transmissions that time out.

| theorem | states | argument |
|---|---|---|
| `TypeCorrect` | `Spec => []TypeOK` | `ReadInv`: a read that no interrupt disturbed finds the bytes it was sized for, although more may have come |
| `RetrySafe` | `Spec => []RetryUnlessStopFailed` | `CommandInv`: the driver holds a command only while the service plays it, unless a stop was not sent, and a poll that will end the voice has made the driver forget its command; `AnswersInv`: nothing puts the driver into SPEAKING |
| `SpokenSafe` | `Spec => []SpokenAloudOnCleanLine` | `WireInv`: the last frame on the wire tells what the service is at, and an end that was heard in this poll is the end of the text the chip has finished; `EndsInv`: on a clean line no more end bytes are about than texts are over |

The theorems have no hypotheses; the conditions are in the properties, where
they name what the code does not guard against.

## 8. UartRx

### State and actions

`head` is the number of the next byte the DMA writes, `half`, `full` and `idle`
the flags, `last_pos`, `in`, `out` the driver's `dma_last_pos` and kfifo
indices, `idle_news` and `error_news` whether the sequence counters of
`bsp_rs485.c` differ from the handled ones, `reader` the poll with its locals.
Bytes are numbers modulo twice the ring, so a byte says where it belongs in the
stream.

The interrupts have one priority and no task runs while one is due, so an
interrupt is one action; but the DMA does not wait for it. `when` says between
which two of its six or seven steps a byte arrives, if one does. The task's poll
is cut at every access to state the interrupts write: news, size, the copy, the
load and the store of `out`, the generation check. Two merges: the check's
`fifo.out = fifo.in` (`at32f435_uart.c:332`) is one step with the comparison
before it, since an interrupt between the two only discards more of what is
being reported as lost; and the USART's handler is one step with the BSP's
callback.

### Run

`RingSize` 4 (1024 in the code), `Capacity` 3, `Backlog` 3: wraps, overflows, a
read smaller than what is there, and a missed half interrupt all occur. Byte
numbers are modulo 8.

| run | shows |
|---|---|
| `uart_rx` | `DeliversInOrder`: what a poll returns follows on what the last one returned, or that one had failed; `NoFalseAlarm`: bytes are discarded only after the DMA has overwritten an unread one; `NothingForgotten`: on a silent line with nothing to do, everything has been read or reported |

A copy of cells that the DMA had lapped before any interrupt noticed is
exempt (`overrun`): it takes a reader that is a whole ring behind, and the code
has no defence. Not modelled: line errors, which are looked at in the interrupt
but whose interrupts are not enabled (`at32f435_uart.c:397`), and ports without
a callback, whose caller learns of a discard only if it falls into its read.

### Proofs (`UartRx_proofs`)

For a ring of any size from two, any buffer, and any backlog shorter than the
ring. That the code's ring is a power of two is for the masks of kfifo; they are
remainders in the model, where nothing needs it, so it is not assumed.

| theorem | states | argument |
|---|---|---|
| `NothingLost` | `Spec => []NothingForgotten` | `LineInv`: what is not published has stirred the line or left a flag; `ReadInv`: what a poll does not know of has come with news; `LostInv`: a loss is known to the caller or will be |
| `InOrder` | `Spec => DeliversInOrder` | `OrderInv`: with nothing lost, the byte due is the one at `out` before the copy and the one the copy began with after it, and then `out` moves to just behind what was copied |
| `AlarmIsReal` | `Spec => NoFalseAlarm` | `IrqMoves`: wherever a byte falls among the steps of an interrupt, what it counts as received is exactly what has come since the last one, up to the moment it sampled the position |

`IrqMoves` brings both interrupts down to two outcomes: what came is published,
or it did not fit and everything was discarded. It rests on facts about
distances on a circle (`ModOver`, `ModUnder`, `DistanceOfPos`), because byte
numbers and ring positions are remainders of two different moduli. TLC checked
the invariants for four combinations of ring, buffer and backlog first.

## 9. KeyPanel

### State and actions

`button` is `buttons[]` with the event of the last update; `volume` the
service's level, its `is_initialized` (with which the loop's `volume_ready`
always agrees) and the chip's wiper; `request` what the visit asked of the
player or the modem; `now` the loop's tick. `seen` is a history per key: how
long the samples have agreed, how long ago a release was accepted, and what was
reported in the current hold, which is over when the key was sampled released
throughout the debounce time. Times the code writes before it reads them again
are kept as 0 (`Forget`).

`Sleep` is `vTaskDelay` and whatever else the loop does, `Visit` one pass of the
loop over the keys with `button_update` and its event. Both keys are visited
with the same tick. A sample may be either level at any poll. A write may reach
the chip or not whatever it returns; a read may fail.

### Run

One tick is the code's poll period. `Debounce` 2 (30 ms is 3 polls),
`DoubleClick` 3 and `LongPress` 4 (300 and 1000 ms), `TickMod` 7, the least
modulus longer than every time plus `MaxGap`; `MaxGap` 2, a poll that is late by
one; `Step` 60, so that two steps reach the end of the scale.

| run | shows |
|---|---|
| `key_panel` | `OncePerHold`: a hold steps the volume at most once and asks for the configuration at most once; `PressReported`: an accepted press does something, unless it falls between the end of the double click window and the poll that closes it, where the code reports the CLICK before it and nothing else (`button.c:64`); `LevelIsWiper`; `NeverLeaps`: no visit is louder by more than one step, and only the key for louder is louder |

A step that fails makes the next press initialize the volume at its least
position and step from there: the key for louder may make it quieter, and the
prompt then says louder. `NeverLeaps` bounds it from above.

### Proofs (`KeyPanel_proofs`)

For every debounce time, window, poll jitter, tick modulus and step that
`KeyPanelAssumption` allows; the assumption that matters is that every time plus
the longest gap is shorter than the tick's lap.

| theorem | states | argument |
|---|---|---|
| `VolumeTracked` | `Spec => []LevelIsWiper` | `PositionOfLevel`: the rounding of `bsp_audio_volume.c:27-61` maps a level to a position that reads back as that level, for all 101 levels; so a step that read back its level put the wiper there |
| `VolumeNeverLeaps` | `Spec => NeverLeaps` | `PressedVolume`: a step goes to the position of the level asked for, an initialization to the least one, and `LouderIsHigher` |
| `HoldReportsOnce` | `Spec => []OncePerHold` | `KeyInv`, below |
| `AcceptedPressReported` | `Spec => PressReported` | `KeyInv`: a click waiting for its window is never older than the window plus a gap |
| `TypeCorrect` | `Spec => []TypeOK` | both invariants together |

`OncePerHold` is not inductive. `KeyInv` adds to it, per key, `EdgeAge` (while a
sample differs from the accepted level, the time since the edge is the time the
samples have agreed, and is shorter than the debounce time once the key was
visited), `ReleaseAge` (the same for the double click window) and `HoldCounts`
(what the detector's state says about the reports of the hold). `Aging` carries
a time across the wrap of the tick. TLC checked `KeyInv` before it was proved.

## Not modelled

PCM data and gain, the MP3 bit stream, scan timing and pin-level I/O, the
register set-up of the drivers, logging. The file transfer parser, which the
application does not call; the storage service, a sequential wrapper over
littlefs with a single open file; the font ROM and the LED pins. What is left of
the modelled sources is argument checking, frame and text formatting, set-up
tables and logging.

Vendored code (littlefs, minimp3, EasyLog, FreeRTOS, FatFs, USB, the AT32
libraries) makes up about 95 % of the lines under the repository's root and is
not modelled. FreeRTOS is external: queues, notifications, critical sections,
timers and priorities are modelled by what the calls in the code rely on.

Type invariants are stated in every module; TLC checks that of `AudioPlayback`
in a run, those of `AudioPlayback`, `KeyPanel`, `RemoteModem` and `VoiceChannel`
are proved, and the others are documentation of the state.

Every safety invariant and every action property of a run is proved too. What
only TLC shows is what needs fairness: `PreparingEnds`, `PlayingEnds`,
`VoiceSlotReleased`, `FinishEnds`, `PresentationEnds`, `FlowEnds` and
`VoiceEnds`. They rest on ENABLED, which the prover does not take.

## Running

    tlc -workers 2 -config playback_stream.cfg MCAudioPlayback
    tlapm AudioPlayback_proofs.tla
    tlapm HubScroll_proofs.tla
    tlapm KeyPanel_proofs.tla
    tlapm RemoteModem_proofs.tla
    tlapm RemoteSession_proofs.tla
    tlapm UartRx_proofs.tla
    tlapm VoiceChannel_proofs.tla
    tlapm VoicePresentation_proofs.tla

Definitions commented "Instead" are wrong on purpose: each is a definition of
the code with a plausible slip, and a run must tell the two apart
(`PROJECT.json`, "mutants").

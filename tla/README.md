# Verification of mz800emu

mz800emu emulates the Sharp MZ-700, MZ-800 and MZ-1500.  This directory models
the parts of it whose correctness depends on order: threads that hand work to
each other, timeouts that race answers, and devices whose next step depends on
a long history.  Paths below are relative to the repository.

## 1. Inventory

One process runs these threads:

| thread | runs | talks to |
|---|---|---|
| GUI (main) | `src/ui-imgui`, `src/libs/sdlapp` | emulation thread: commands (`dbgapi`), device and snapshot requests |
| emulation | `src/emulator/mzarch/mzarch.c`: CPU, devices, debugger | everybody; emits events, feeds recordings |
| MCP transport | `mcp/main_pipe.c`, `mcp/tcp_server.c` | a worker per request |
| MCP workers | `mcp/dispatch_runner.c`, `mcp/dispatch.c` | emulation thread: commands; polls of the event bus |
| sampler of real time | `videorec/videorec.c` (`vr_rt_tick()`) | the recording, under its mutex |
| video writer | `videorec/videorec.c` | a queue of messages filled by the two above |
| audio | `audio.c` | ring buffer filled by the emulation thread |

| component | state | operations | hard part | correct when |
|---|---|---|---|---|
| Command queue (`debugger/dbgapi.c`) | ring of slots, status of each, waiting clients | submit, dequeue, dequeue out of order, dispatch, complete, cancel | timeouts against two drains, one nested in the other; slots outlive their turn | a command runs at most once, never after its client has left, and its status tells the truth |
| Dispatch runner (`mcp/dispatch_runner.c`) | job shared by transport and worker | request, finish, stall, abandon, wait for idle | "busy" answered while the worker finishes | one answer per request, response and job freed once |
| TCP server (`mcp/tcp_server.c`) | one client slot, two threads | accept, reject, stop | slot given back before its thread has ended | one client at a time, stop leaves no thread |
| Event bus (`mcp/event_bus.c`) | one subscriber, its topics and bounded queue | subscribe, emit, poll | slow subscribers; four sections of the lock in a poll; clients that share the subscriber | losses counted before they can be noticed, polls answered |
| Device requests (`device_request.c`) | queue, results, count, device state lock | submit, poll, take result, clear | the GUI holds the lock while it draws, the emulation thread tries it or waits for it | a waiting request is counted, nobody waits for ever |
| Main loop (`mzarch/mzarch.c`, `emulator.c`) | paused, step and reset requests, temporary breakpoint | run, pause, step, reset, quit, drain | flags written by three threads, read at several points of the loop | a step executes one instruction, a pause stops, a reset is not lost |
| Run log (`debugger/run_control`) | numbered runs, bounds, waiting clients | resume, stop, wait | waiting for a run somebody else ends | each run ends once, a wait tells the truth |
| Interrupts (`libs/cpu-z80`, `mzarch/interrupt.c`) | IFF1, IFF2, EI delay, request line, the next event | EI, DI, acknowledge, NMI, RETI, inject | the line is looked at only when an event is due | a request that EI lets in is taken at once |
| PIO Z80 (`hw-generic/pioz80`) | per port: mode, mask, pending, in service | port event, acknowledge, RETI, control words | two chained ports, delayed enabling | the chip's state is that of its ports |
| Counter 8253 (`hw-generic/ctc8253`) | mode, state, value, load, latch; time of the next event | control word, byte, read, latch, gate, clock, snapshot | CTC0 leaves its clocks out and works them out of the time | the same as if every clock were counted |
| Floppy controller (`hw-generic/fdc`) | registers, bytes left, script of status readings, stage of a format | commands, status, data, mount | one-shot states that survive a command cut short | DRQ, BUSY and the interrupt true, whole records, a format keeps the other tracks |
| Video recording (`videorec/`) | frames waiting for sound, segments, takes, requests, messages | start, stop, pause, snapshot, load, frame, tick, write | four threads; retakes cut a file that is being written | one piece where no cut is told, the sidecar true |
| Replay (`replay*.c`) | recorded inputs, position | record, play, seek | inputs applied at the drain point they were recorded at | playing repeats the recording |
| Trace logs (`debugger/trace`) | rings and segments | append, stop, read | reading while writing | segments complete |
| PIO 8255, quick disk, IDE, RAM disk, banking, tape | registers and their sequencers | port reads and writes | legal sequences of port accesses | see the data sheets |

`PROJECT.json` lists every component, the ones left out too, with the reason,
and the hazards each is exposed to, at the line where they bite.

## 2. Plan

1. **CmdQueue** with the abstract **CmdService**, their refinement
   (**CmdQueueRefines**) and **CmdQueueProofs**: everything else is driven
   through this queue.  *Done.*
2. **DispatchRunner** and **TcpServer**, each with its **...Proofs**,
   **DeviceRequest** and **EventBus** with **HandOverProofs** for both: the other
   hand-overs between threads.  *Done.*
3. **RunLoop** with **RunLoopProofs**: pause, step, reset, run bounds and run
   numbers, fed by the queue.  *Done but for the reasons kept in the records.*
4. **PioZ80** with **Interrupts** and **InterruptsProofs**, **Ctc8253** with
   **Ctc0**, **Wd279x** with **Wd279xProofs**: the devices with sequencers.
   *Done but for what section 6 lists.*
5. **Recording** with **VideoRec** and **VideoRecProofs**.  *Done but for sound
   and markers.*
6. Proofs about Ctc0, which need an induction over clocks and a load without
   `OrBits` (section 5).
7. Replay, TraceLog, banking, quick disk: state machines that could follow.

## 3. Modules

A module whose constants need more than a cfg can say has an `MC` module that
instantiates it for TLC; RunLoop, DeviceRequest, EventBus, VideoRec, Ctc0 and
Wd279x are checked directly.  Every run has a cfg of its own.

### CmdQueue - `debugger/dbgapi.c`, `dbgapi_cmdrq.h`, `debugger/breakpoints.c`

| variable | code |
|---|---|
| `head`, `tail`, `slot`, `reply_state` | `st_DBGAPI_CMDRQ_QUEUE` |
| `pc[c]`, `at[c]`, `ret[c]` | where client `c` stands in `dbgapi_ui_submit_impl()`, its local `slot`, its return value |
| `drain` | the command `mzarch_main_dbgapi_drain()` or `dbgapi_emu_drain_paused()` is working on |
| `bp` | the command `breakpoints_drain_control_plane_at_bp_boundary()` is working on; it may run inside the former |
| `alive` | FALSE once `emulator_quit()` jumped out of the main loop |
| `execs`, `verdict` | history: dispatches of the client's last submit, and their answer |

One action is one critical section.  A submit holds `queue_mutex`, then the
slot's mutex, and waits on the slot; a client that times out lets go of the
slot and takes both again, so `Expire` and `Cancel`/`KeepWaiting` are separate
actions.  `Dequeue` skips and takes in one critical section, as the code does.
Dispatch and completion are separate because bus accesses, breakpoints and
`emulator_quit()` happen between them.  A handler is abstracted to its answer
and to whether it accesses the bus (`Bus`); commands are abstracted to whether
they may be drained at a breakpoint (`Control`).

`CmdService` is what the queue promises: commands are withdrawn or served once,
in order except for control commands, and their status agrees with what was
served.  It knows no ring and no slot: `older` is the order in which the waiting
clients submitted, `serving` and `early` are the client served in its turn and
the one served before its turn.  `CmdQueueRefines` maps the offsets of the slots
from the head to `older`, the frames `drain` and `bp` to `serving` and `early`,
and the states of a slot to the phase of its client; `ImplementsService` is
checked as a property and proved.

### DispatchRunner - `mcp/dispatch_runner.c`, `mcp/dispatch.c`

| variable | code |
|---|---|
| `job` | `st_RUNNER_JOB` at an address: request, response, done, stalled, abandoned, reference count, and whether it is allocated |
| `queued`, `pool`, `inflight` | the GLib thread pool, whether it exists, `s_inflight` |
| `tpc`, `tjob`, `answer` | where a transport thread stands in `mcp_dispatch_runner_request()` |
| `wpc`, `wjob`, `made` | where a pool thread stands in `_worker()` and the dispatch it runs |
| `phase` | the main thread: running, joining the transports, waiting for idle, queue destroyed or leaked |

A critical section of the job's lock is one action; the dispatch of a request
is a sequence of synchronous submits, any of which may report a stall or never
return.  Freed memory keeps a `live` flag, so that a use after `g_free()` and a
leak are both visible (`JobAlive`, `NothingLeaks`).

### TcpServer - `mcp/tcp_server.c`

| variable | code |
|---|---|
| `is_running`, `stop_requested`, `client_sock`, `client_count`, `client_thread`, `listening` | `st_MCP_TCP_SERVER` |
| `fd` | what each descriptor stands for; a closed number may come back as somebody else's file |
| `m`, `lpc`, `cpc` and locals | the positions in `mcp_tcp_server_stop()`, `_listener_thread_func()`, `_client_thread_func()` |

Lines of a client and their requests are one action.  `missed` records that a
stop returned while a client thread ran; the properties of the run `tcp` hold
as long as it has not, the run `tcp_stop` shows that it can.
`g_thread_new()` does not return on failure, so there is no branch for it.
`accept()` may fail at any time, which ends the listener of a server that still
counts as running (`AcceptFails`).

### RunLoop - `mzarch/mzarch.c`, `emulator.c`, `debugger/dbgapi.c`, `debugger/run_control/`

| variable | code |
|---|---|
| `pos` | where the emulation thread stands in `mzarch_main()` and `mzzarch_main_do_emulator_paused()` |
| `paused`, `step`, `skip` | `g_emulator.paused`, `g_debugger.step_call`, `skip_bp_at_pc` = next address |
| `target` | the temporary breakpoint and `stop_at` |
| `frames`, `deadline` | frames the bounded run has left, `run_deadline_active` |
| `seq`, `running`, `stepRun` | `run_log`: number and state of the run; `s_rc.step` |
| `queue`, `at`, `cmd`, `ans` | the commands in CmdQueue's ring, and what clients were told |

The loop is followed from one test to the next: reset request, breakpoint
check, instruction, event block with the drain of a frame, run bounds, entry to
the paused loop, its drain, poll and exit.  A command is dispatched in one
action, wherever it is taken: the drain of a frame, of the paused loop, or a
breakpoint's.  The debugger's window clears `step` from the GUI thread at any
time.  Addresses are abstracted to whether a breakpoint stops, the emulated
time to a choice of which event comes next.  STEP_OUT is RUN_TO with another
source for the address; FORCE_PAUSE differs from PAUSE in the reason alone.
RUN_UNTIL given to a paused machine whose time has come already starts nothing
and is answered like a start, with the number of the last run
(`dbgapi.c:5872-5884`); `CmdReached` marks that answer `"REACHED"`, so that what a
client may conclude from it can be said.  A reset may stop at a breakpoint on it.

### DeviceRequest - `device_request.c`, `debugger/dbgapi.c`

| variable | code |
|---|---|
| `pending`, `results`, `count`, `seq` | `s_pending`, `s_done`, `s_pending_count`, `s_seq` |
| `holder` | who holds `s_state_lock` |
| `emu`, `current` | where the emulation thread stands: between instructions, in the poll's loop, in a tape command; the request it carries out |
| `gui`, `commands` | idle, drawing or waiting for a command of the debugger; whose commands wait |
| `outcome`, `clears` | history: what became of each request; a bound |

`s_lock` is never held across anything that blocks, so its sections are actions.
The state lock is a variable, because the poll tries it, the tape commands wait
for it, and the GUI holds it over a whole frame.

### EventBus - `mcp/event_bus.c`, the `event_*` handlers of `mcp/dispatch.c`

| variable | code |
|---|---|
| `attached`, `topics`, `queue`, `dropped` | the subscriber of connection 0 |
| `poll`, `limit`, `woken`, `reply` | where a poll stands between the sections of the lock, `max_events`, its condition variable, its answer |
| `session`, `online` | the client; clients follow one another (TcpServer) |
| `pushed`, `popped`, `subscribed` | history |

A poll waits, takes the events, reads how many are left and then how many were
dropped, each in a section of its own; events come between any two of them.

### PioZ80, Interrupts - `hw-generic/pioz80`, `mzarch/interrupt.c`, `mzarch/mzarch.c`

PioZ80 says what a write, a pin, an acknowledge or a RETI makes of the record
`hw`: the two ports, the chip's own state, CTC2's output and the line.
Interrupts applies it.

| variable | code |
|---|---|
| `hw` | `g_pioz80`, the output of CTC2, `g_mzarch_main.interrupt` |
| `iff1`, `iff2`, `eiDelay`, `intPending`, `nmiPending` | the fields of the CPU |
| `slot` | `g_mzarch_main.event`: the video circuit's, the delayed one of the PIO, or the "break" that asks for a look at the line |
| `at` | where the main loop stands |
| `lineHeld`, `injectHeld` | history: what EI let in and has not been taken |

Time is left out: the next event of the video circuit may be due at any
instruction, so every order of an event, an access and the end of an
instruction happens.  `slot` is the variable the hazard is about, as there is
one event only and each writer puts his own over the other's.  The
delayed enable of a write by OUT is due after its instruction, that of OUTI and
OTIR within it (`pioz80.c:955`); both happen.

### Ctc8253, Ctc0 - `hw-generic/ctc8253`, `snapshot/handlers/snap_ctc8253.c`

Ctc8253 is one counter as functions of its registers.  Ctc0 runs it twice on the
same bytes, readings, latches, gate and snapshots:

| variable | code |
|---|---|
| `exact` | a counter with `ctc8253_clkfall()` at every falling edge, as CTC1 and CTC2 are clocked |
| `fast` | CTC0 as the program has it: its registers, `clk1m1_event` and `clk1m1_last_event_total_ticks`, both relative to now |
| `phase` | ticks since the last falling edge |
| `span` | history: clocks since `exact` took its number, the number, whether another was given before the first of these clocks (`early`), and whether the counter has met one by chance (`chance`) |

So the exact counter is the specification of the fast one, and the comparison
is the property `FastAgrees`.  Bytes have `Byte` values instead of 256 and
unsigned differences wrap at `Word`; `Byte` is even, so that the halves of a
square wave are those of the full range.

Any number is written at any time, also to a running square wave, and there the
code does not simply keep it for the next half.  `ctc8253_mode3_step()` knows the
first clock of a half by the counter still standing at its number
(`ctc8253.c:189`), so an odd number replaced before that clock has its lower half
counted a clock longer; and in counting down from it the counter may stand at the
new number by chance, of which the fast path takes no notice
(`ctc8253.c:225-232`).  `PeriodTrue` states the first as what the code does,
`FastAgrees` speaks of counters that have met no number by chance, and
`MCCtc0Rewrite.cfg` shows both against what is said of the code.

### Wd279x - `hw-generic/fdc/wd279x*.c`, `fdc.c`, `libs/dsk/dsk.c`

| variable | code |
|---|---|
| `w` | `st_WD279X`: command, status, bytes left, readings without data, the three one-shot flags (`busyNext`, `drqNext`, `endNext` for `pending_busy_status`, `pending_drq`, `pending_rnf_end`), `waitForInt` and the interrupt, registers, position, stage of a format |
| `disk` | the drive and its image: the header's count and table of tracks, the count the drive's geometry remembers (`known`), and what stands at each place of the file, since a place is the sum of the sizes in front of it |
| `seen`, `over`, `asked` | the program: the status if its last access was to read it, whether it has been told the end, what it asked for |
| `moved`, `stream` | history: bytes moved; place in the stream of a format and what it has named |
| `eint` | the EINT port |

Each access to a port is one action with the look at the interrupt that follows
it (`fdc.c:697`); other devices bring more looks (`Look`), and disks are mounted
and removed between any two instructions.  The program polls or is interrupted,
moves a byte as soon as the status asks for one (or none at all, as the
verification of MZ-800 BASIC), gives Force Interrupt at any moment, and any other
command only when a status has told it that the last one is over.  With
`Loose = FALSE` it also ends a multi-sector transfer with Force Interrupt, as
the data sheet says.  It formats any track at any time.  Sectors may have any
number, that of a mark of the stream too: what a byte means is told by its place
(`After`), in the program as in the controller.

The index mark of track 0 has the first bytes of the header written anew
(`wd279x_write_track.c:434-438`): no tracks, an empty table, two sides.  The drive
still works with the tracks it remembers until the stream is over.  A format that
is cut there leaves such a header behind, and a format of another track then sums
sizes that `dsk_read_short_image_info()` has not filled
(`wd279x_write_track.c:157-197`, `dsk.c:142-154`): an uninitialised read, so the track
may land anywhere and over anything (`Placings`).

### Recording, VideoRec - `videorec/`

Recording is the glue under its mutex as functions of one record `g`: frames
that wait for their sound, segments of the sidecar, takes, requests, messages to
the writer.  VideoRec says which thread applies which, and when.

| variable | code |
|---|---|
| `g`, `held` | `g_vr`, `videorec_pipe.c`, `videorec_sidecar.c`; the frame whose end waits in `vr_writer_sync()` with the mutex held |
| `initialized`, `reqStart`, `want`, `turns` | the module is up; a start waits; `vr_rt_want()`; a bound |
| `clock`, `cur`, `snap` | the machine: frames emulated while recording, the frame it is in, a snapshot with its entry |
| `w`, `failedGen` | the writer: session, files and their frames, failure; `g_vr_failed_gen` |

A frame carries the number of the frame before it in the machine's own history,
so that "one piece" (`Continuous`) can be said of what is recorded, after any
pauses, loads and retakes.  Frames outside a recording have no number.
Pausing is nondeterministic, `want` stands for speed, time base and
configuration together, and a start opens its files in one action.

Glue operators that emit several frames say what the loop in the code leaves
behind (`EmitFirst`, `Ticks`: so many frames at the end of the recording, so many
messages at the end of the queue) rather than repeat it, so that they can be
reasoned about.  `LateLoad` is about the distance of two threads: a load in real
time moves the machine at once, the sampler learns of it at its next tick, and
the hook at the end of a frame does not look (`videorec.c:2805-2810`).  With
`LateLoad = FALSE` no frame ends in between; with TRUE one may, as happens at
speeds at which frames end more often than ticks come.

## 4. Runs

| run | shows | bounds |
|---|---|---|
| `cmdqueue` | types, `DataAlive`, `SlotKept`, `StatusHonest`, `RingSound`, `NoLateDispatch`, `ImplementsService`, and `SubmitReturns` under fairness | 2 clients, 3 slots (2 usable), a control command and one that accesses the bus, ENDING allowed |
| `runner` | types, `JobAlive`, `NothingLeaks`, `OneAnswer`, `TeardownSafe`, and `Answered`: a transport gets an answer though the emulation thread may hang | 1 transport, 2 workers, 2 jobs |
| `tcp` | types, `OneClient`, `SocketsClosed`, `StopReturns`, `Admitted` | 2 descriptors, 2 client threads, numbers not given out again |
| `tcp_stop` | expected violation: `StopJoinsBoth` | 1 descriptor, whose number is given out again, 1 client thread |
| `runloop` | types, `StepIsOne`, `TargetsEndAtPause`, `DoneIsTrue`, `Served`; no deadlock | 2 clients, 3 commands or resets, bound of 1 frame |
| `runloop_step` | expected violation: `StepFirst` | 3 commands |
| `device_request` | `CountTrue`, `NeverWhileDrawn`, `GuiReturns` | 4 requests, 2 clears, 2 results kept |
| `event_bus` | `GapsExplained`, `WakeUpKept`: no wake-up of a poll is lost | 2 topics, queue of 3, polls of up to 2, 6 events, 2 clients |
| `interrupts` | `ChipAgrees`, `LineTrue`, `EiTakesAtOnce` | 1 pin, 6 control words for both ports |
| `videorec` | `Continuous`, `SidecarTrue`, `KeepsDelay`, `Heard` | 1 recording of 3 emulated frames and 1 sampled, 2 turns, 2 files, delay 1, pipe 2, queue 1 |
| `ctc0` | `FastAgrees`, `PeriodTrue` | modes 0, 2 and 3, loads of one and two bytes of 4 values, 2 ticks a clock |
| `wd279x` | `StatusTrue`, `TransferWhole` | 2 tracks, 2 sectors of 2 bytes, 2 readings before a sector is passed over |

The type invariants of DeviceRequest, EventBus, Interrupts and VideoRec are
proved (`TypeCorrect`, `BusTypeCorrect`); that of Wd279x holds in the instance of
its run (`MCWd279xTypes.cfg`), that of Ctc0 in `MCCtc0OneShot.cfg`.

### Bounds

**CmdQueue.** Two usable slots and two clients are the smallest instance with a
full ring, a slot that is not collected when the tail comes round, a cancelled
slot in front of a live one and a control command overtaking another command.
The histories are reset by every submit, so the state space is finite without a
bound.  `MCCmdQueueThree.cfg` has three interchangeable clients.

**DispatchRunner.** Two jobs let an address be used again while a worker still
holds the other.  The pool is unlimited (`g_thread_pool_new` with -1), so there
is a worker per job; when a thread cannot be started GLib keeps the job for the
next one that is free; with all of them inside a hung command the transport
waits for one of them, which `Answered` does not cover.  Two transports, two
workers and three jobs are in `MCDispatchRunnerTwo.cfg` and in the proofs.

**TcpServer.** Two client threads are enough for one to be joined while the next
is served.  The run does not give closed numbers out again as files of somebody
else; `tcp_stop` does, and the proofs hold either way.

**RunLoop.** Three commands are enough for one of each client to meet in a
drain and one more to see what they left behind.  Commands, not positions of
the loop, are bounded, and with them the run numbers.

**DeviceRequest, EventBus.** A clear needs a request in work, one waiting and one
submitted behind it; the fourth evicts a result.  Six events fill the queue of
three, drop events in front of and behind a poll and leave some for the second
client.

**Interrupts.** One pin on each port shows every state of a port; the control
words are the smallest set with both enabling writes, both masks and the modes
with and without handshake.

**VideoRec.** Three frames are enough for a snapshot, a frame after it and a retake
of both; a second file begins within them.  `MaxTurns` bounds what may happen
against them: loads, changes of speed or time base, write errors.  Longer
recordings are left to the proofs, which bound none of it.  `LateLoad` is FALSE
in the run; what TRUE brings is in `MCVideoRecLate.cfg`.

**Ctc0.** With four values of a byte a count of one byte ends within a count of
two, an interrupted load meets an edge at each of its steps, and every parity
occurs.  `MCCtc0OneShot.cfg` has mode 1.  Two constants name what the runs leave
out because the code does otherwise there, and a configuration each shows it
(below): `GateModes` (mode 0 with a moving gate) and `AnySnapshot`.  Behind a number
met by chance `FastAgrees` claims nothing, and the run goes no further
(`BeforeChance`); without that constraint both properties hold as well, over 2.9
million states.

**Wd279x.** Two bytes have a first, a middle and a last access; two sectors have
a next one and an end of track; two tracks have one in front of the other.  The
limits keep their order (two readings at least belong to the start of a sector
of a multi-sector transfer, five bytes to an identification field).  Any track may
be formatted.  With a header that does not count the track, nor the one in front
of it, the place is arbitrary; `TransferWhole` says where a format stands for the
other tracks (`asked.sized`), and `MCWd279xBeyond.cfg` shows what becomes of these.
The counter of a format's bytes may pass its limit
by one, or reach the size of a sector and one (`TypeOK`).

### Fairness

CmdQueue: a client that may go on does (its wait has a timeout and the
operating system schedules it); the drain is strongly fair because a running
loop drains at every frame end and a paused one at every iteration, and an
instruction makes finitely many bus accesses; a command taken at a breakpoint
is finished.  `SubmitReturns` exempts a client whose command was in progress
when the emulation thread quit: nothing in the code wakes it.
DispatchRunner: transports and idle workers run, the emulation thread may never
answer.  TcpServer: threads run and a stopped server's `accept()`
returns; peers need not do anything.  RunLoop: the
emulation thread runs, and the end of a frame is strongly fair because each
event block advances the emulated time; nothing is assumed of clients or
breakpoints.  `Served` (commands and resets) excludes the behaviours that leave a
step set in a running emulation; the program has them (see `runloop_step`
below).  DeviceRequest: both threads go on, and as the GUI draws only part of
its time and the polls come much more often, the state lock is not kept from the
emulation thread for ever.  EventBus: the worker that runs a poll goes on once it is
signalled; its timeout is not counted on, so `WakeUpKept` fails if a push does not
signal.  Interrupts, Ctc0, Wd279x and VideoRec have safety
properties only: `EiTakesAtOnce`, `FastAgrees`, `StatusTrue` and `Heard` say in
one state what must not be late or left out.

### Findings

- `tcp_stop`: a client accepted while stop runs keeps its thread, although
  `tcp_server.h:157` says stop joins both threads.
- `runloop_step`: the drain of a frame goes on after a step was accepted; the
  step is then dropped and recorded as done.  A RUN behind such a step leaves
  the step set in a running emulation, and from then on no frame drains the
  queue.

Configurations kept beside the runs, each violated by what the code does:

| cfg | property | the code | what is said of it |
|---|---|---|---|
| `MCDispatchRunnerBusy` | `NothingAfterBusy` | whether the request was abandoned is tested before the submit (`dispatch.c:1576`) | nothing is executed after busy (`dispatch_runner.h:51`) |
| `MCTcpServerClose` | `ClosesOwn` | stop and the client thread both close the descriptor (`tcp_server.c:615`) | the teardown depends on nothing shared (`tcp_server.c:593-594`) |
| `MCRunLoopPause` | `PauseOnlyThatRun` | in the paused loop a pause for an old run takes back a start just accepted (`dbgapi.c:2862`) | a pause is for its run only (`dbgapi_cmdrq.h:3919-3921`) |
| `MCRunLoopBound` | `BoundEndsAtPause` | of RUN_FRAMES and PAUSE in one drain of the paused loop the bound remains (`dbgapi.c:2952`) | a bound ends with its run (`run_control.c:207-209`) |
| `MCEventBusNew` | `NothingUnsubscribed` | a new client gets what its predecessor subscribed to | a poll without a subscribe is empty (`dispatch.c:7114-7115`) |
| `MCInterruptsInject` | `InjectAfterEi` | an injected request is looked at only when an event is due (`dbgapi.c:5098`) | it is taken after the nearest EI (`dispatch.c:7431`) |
| `MCVideoRecLimit` | `StopExact` | a tick of real time writes several frames before it looks at the limit (`videorec.c:1726`, `:2856`) | never more frames than asked for (`videorec.h:339`, `tests/videorec/test_videorec_realtime.c:839`) |
| `MCVideoRecLate` | `Continuous` | after a load in real time a frame ends unnoticed (`videorec.c:2805-2810`); when real time ends before the next tick, the retake at the end of the next frame joins that frame without a cut | a retake joins smoothly, without a seam (`videorec.c:2331`) |
| `MCCtc0Early` | `NotEarly` | on the fast path a rise of the gate ends the count of mode 0 (`ctc8253.c:996`) | minus 1 for each edge (`ctc8253.c:674`) |
| `MCCtc0Blind` | `RunsOn` | CTC0 reads 0 after the end of mode 0 (`ctc8253.c:1142`) | counts on in 16 bits (`ctc8253.c:674-676`) |
| `MCCtc0Snapshot` | `SnapshotKeeps` | a load of 0 comes back as 0, not 65536 (`snap_ctc8253.c:48`) | the state is saved (`snap_ctc8253.c:3`) |
| `MCCtc0Gate` | `TakenWhateverGate` | the gate takes mode 0 out of a finished load (`ctc8253.c:926`) | the number is taken whatever the gate (`ctc8253.h:88`) |
| `MCCtc0Rewrite` | `PeriodKept` | an odd square wave given a number before the first clock of its lower half counts that half a clock longer (`ctc8253.c:189`) | a number given meanwhile is taken at the next change of the output (`ctc8253.c:449-450`) |
| `MCCtc0Rewrite` | `FastAlways` | the fast path looks for a counter at its number only where it begins to add up (`ctc8253.c:225-232`) | advances the counter by so many edges (`ctc8253.c:215`); a chance meeting is named for the step alone, unmeasured (`:184-186`) |
| `MCWd279xLoose` | `StatusTrue` | after a multi-sector READ of which only the status was read, further readings pass the last sector over again (`wd279x.c:892`) | all further readings see 0 (`wd279x.c:866-868`) |
| `MCWd279xLoose` | `TransferWhole` | a READ ADDRESS behind a multi-sector transfer goes on with a sector (`wd279x.c:531` leaves `multiblock_rw`) | `multiblock_rw` is the flag of the last type II command (`wd279x.h:164`) |
| `MCWd279xBeyond` | `FormatAnywhere` | sizes nobody has read decide the place of a track behind a cut format of track 0 (`wd279x_write_track.c:157-197`, `:434-438`) | with 0 tracks an empty table is returned, and the offset is always 0x100 (`wd279x_write_track.c:331-334`) |

(With two properties in a configuration, `-continue` shows both.)

The text of the floppy controller differs from its code in more places, which
need no run: reading the status never resets INTRQ (`wd279x.h:259`);
`data_counter` of READ TRACK exceeds the buffer (`wd279x.h:142`); the header of
an image is written at the index mark without a note for the input recorder
(`wd279x_write_track.c:427-445`); a format whose writing fails ends with status 0;
a breakpoint on the interrupt counts as a look at it (`fdc.c:705`).

## 5. Proofs

`CmdQueueProofs` proves, for any set of clients, any commands and any ring of at
least two slots, the five invariants and the action property of the run
`cmdqueue`.  The invariants are not inductive by themselves: `IInv` adds what a
slot inside and outside the ring may look like (`RingInv`), that a slot with a
pending or processed command has its owner inside the submit (`OwnerInv`), that
the two frames hold different taken slots (`FrameInv`) and that the history
counts the dispatches of the command in the slot (`RunInv`).  One lemma per
action, lemmas for what a release, a skip and a completion do to a slot, then
`NextIInv`; the properties follow from `IInv` by propositional temporal logic.
Assumptions: those named in `CmdQueue`.

`RunLoopProofs` proves, for any set of clients, any bound of a run and any
number of commands, the four invariants of the run `runloop`.  `IInv` adds that
a run ends exactly where the thread enters the paused loop and the next begins
where it leaves it (`PlaceInv`), that a bound that has come to 0 is seen before
the next instruction (`BoundInv`), that the paused loop is left with a step only
while still paused, so that the step passes the loop with both flags set and no
drain in between (`StepInv`), that the run a client waits for is going, or
yet to begin, until the emulation stops (`RunInv`), so that whoever is told it is
done has seen it stop (`DoneInv`), and that a client told its time had come was
told of a run that has begun (`ReachedInv`).  One lemma per property of a
command (`Carry...`), shared by the three places that take commands, then one
per conjunct with one step per action.  Assumptions: `FramesAssumption`,
`RequestsAssumption`.

`DispatchRunnerProofs` proves, for any number of transports, workers and jobs,
the five invariants of the run `runner`.  `IInv` adds that who is on its way
with a job is alone on its side and that a job held on both sides has two
references (`HolderInv`), that a request is in the pool or with the worker that
will free it (`RequestInv`), that a response is stored only while its own
transport waits for it, and that a job neither done nor abandoned is waited for
(`ResponseInv`), and that `s_inflight` is the number of jobs in the pool or not
yet counted out by a worker (`CountInv`, from the library's facts about finite
sets), which is what makes the destruction of the queue safe.  Assumptions:
`NullAssumption`, `AnswerAssumption` (an answer is not a client).

The queue implements its service (`RefinesService`): every action of the queue is
one of the service or leaves it alone (`NextRefines`).  The actions that take,
withdraw and answer a command come with lemmas on what they do to the ring's
order, seen as a relation between clients (`OrderStays`, `OrderLoses`,
`OrderGains`); that is why `CmdService` states the order as a relation rather than
as a sequence, about whose filters one would need induction.  A skip, a wait, an
expiry and the end of the loop are stutters.

`TcpServerProofs` proves, for any number of descriptors and threads, the three
invariants of the run `tcp` and that no handle of a thread is lost
(`NoThreadIsLost`).  While no stop has missed a thread (`missed`, see section 3),
`SlotInv` holds: `client_count` is 1 from the listener's taking of the slot to the
release by the one thread it spawned (`CountInv`), `client_sock` is that thread's
socket unless stop took it (`SockInv`), a stop that returned left nothing
(`QuietInv`), and each thread to be joined and connection to be closed is in a
variable of somebody who will (`KnownInv`, `OwnedInv`).  Numbers of descriptors may
be given out again.  Assumptions: `NoneAssumption`, `ReusedAssumption`.

`HandOverProofs` is about both queues between the emulation thread and others.
For DeviceRequest it proves, for any number of requests, results kept and clears,
the two invariants of the run `device_request` and that each request has exactly
one fate (`RequestsAccounted`).  `IInv` adds where the lock is (`HolderInv`), by how
much the count may differ inside the poll's loop (`CountInv`) and that a request is
in work just there (`CurrentInv`).  For EventBus, with names that begin with
`Bus`, it proves, for any capacity, limit of a poll, number of events and clients,
`GapsExplained`, and that every event was taken, dropped or waits, in order
(`EventsConserved`).  `BusIInv` adds that the events of an answer in the making lie
before those of the queue at each of the three sections of the poll.
Assumptions: `DRAssumption`, `EBAssumption`.

`InterruptsProofs` proves, for any pins, control words and data, the three
invariants of the run `interrupts`.  `Good(hw)` is the chip in agreement with its
ports; every write, pin, acknowledge and RETI is shown to lead from it to a looser
relation that the chip's interrupt manager brings back to it.  `EiInv` says that a
request that EI let in stays on the line, with interrupts enabled and an event
at the end of the instruction, until it is taken.  Assumptions: `PioAssumption`,
`ProgramAssumption` (the words are control words, the data are of the pins).

`Wd279xProofs` proves, for any sizes of sectors and tracks and any limits that
keep their order, `StatusTrue` and `TransferWhole`, under `~Loose`:
`MCWd279xLoose.cfg` shows that both need it.  `IInv` says, for each kind of
command under way, what the controller may be in: a transfer that asks for a
byte now or at the next reading and is not polled often enough to be passed over
(`MovesInv`), one that is only looked at (`LooksInv`), moved and left bytes that
add up to the record (`CountInv`, with a lemma on remainders for multi-sector
transfers), a format whose stage and count follow the place in the stream
(`Abreast`), and nothing at all when it is over (`Quiet`).  That a format of a
track whose place the header knows keeps the tracks before it rests on
`PlaceLemma`: tracks of which the size is known lie at strictly growing places.
Assumption: `Wd279xAssumption`.  `TypeCorrect` is stated
of the types without the bounds of the counters, which `TypeOK` has and TLC checks.

`VideoRecProofs` proves, for any delay, pipe, queue and limit, and for any number
of frames, recordings, turns and files, the four invariants of the run `videorec`
and more, in four layers.

1. `TypeInv`: the glue has its `Shape` whenever nobody holds the mutex.  It counts
   the frames it sent, keeps the pipe within its size, and in real time has an
   empty pipe and its full delay.  This gives `TypeCorrect`, `DelayKept`
   (`KeepsDelay`) and `RequestsHeard` (`Heard`).
2. `FilesInv`: the messages in the queue go on from each other (`Leads`) and from
   the files of the writer (`Fits`), and the last one is what the glue has
   counted (`Sent`).  A retake with a frame held waits for its message, the last of
   the queue (`SyncInv`), so the writer has come to its point before it cuts.  This
   gives `FilesComplete`: where nothing failed, the files that are saved hold the
   frames the glue counted, end to end.
3. `SegInv`: the segments begin at 0 and each ends where the next one begins, the
   last one is open exactly while the recording runs, and then `Pos`, the place of
   the picture, is not before its start, else its end.  With `FilesInv` this gives `SidecarSaved` (`SidecarTrue`).
4. `HistInv`: what has been recorded and what waits in the pipe is one piece
   between the cuts, the last frame is the one the machine was in or there is a
   cut (`Join`, `RtJoin`), and every snapshot still knows the frame it was made in
   as long as its take goes on (`SnapGood`), which is what a retake relies on.
   This gives `OnePiece` (`Continuous`).

One lemma says what each operator of Recording does to each part of the glue
(`...Fields`); per layer one lemma per action of the glue (`...Goes`, `...Tells`) and
one for the step (`TypeNext`, `FilesNext`, `SegNext`, `HistNext`).  Two theorems have
a hypothesis on a constant, because without it they are false:
`SidecarSaved` has `Limit = 0`, as with a limit of 1 and a delay of 2 the frames of
the delay pass the limit (as in `MCVideoRecLimit.cfg`) and the last segment ends
behind the last frame; `OnePiece` has `~LateLoad`, see `MCVideoRecLate.cfg`.
Assumptions: `RecordingAssumption`, `VideoRecAssumption`.

Only model-checked:

- every liveness property (`SubmitReturns`, `Answered`, `StopReturns`, `Admitted`,
  `Served`, `GuiReturns`, `WakeUpKept`): fairness and ENABLED are out of the
  prover's reach;
- Ctc0 (`FastAgrees`, `PeriodTrue`): the fast path divides and takes remainders of
  the time by the clock, the comparison with the counter is an induction over
  clocks, and a load of two bytes goes through the recursive `OrBits`;
- the properties that the code violates (section 4).

## 6. Not modelled

*Within the modelled components.*  CmdQueue: handlers beyond their answer, the
origin and revision options of a submit, the data of commands.  DispatchRunner:
what a request does between its submits.  TcpServer: the bytes on the wire.
RunLoop: the window's Pause key (`emulator.c:397-449`), which pauses from the GUI
thread, sets `paused` before it clears the temporary stops, and may end a pause
between a step's acceptance and the exit of the paused loop, so that the step
becomes a run; the input recorder, which pauses and resumes too, interrupts, device and
snapshot polls, the quit request (see CmdQueue), and the reasons and times in
the records.  DeviceRequest: what a request does to its device.  EventBus: the
data of events.  Interrupts: the vector, the printer on port A, the waiting of
HALT, the time between events.  Ctc0: the cascade of CTC1 into CTC2 (its clock
is the output of the other), modes 4 and 5 and BCD (stored, without effect in the
code), and the value a reading shows while the counter waits for its gate.
VideoRec: sound and the hold for it, markers, events of the sidecar, the retake
mode that always cuts, quitting after the last frame, a load that fails half
way, pixels and files.  Wd279x: the contents of sectors, the second side, drive
and controller, what is found where a table of sectors was overwritten by the
data of another track, the numbers in the registers beyond those used, saving a
changed image.

*Components without a module* are listed in `PROJECT.json` with the reason.  Of
the rest of the emulator, dispatch.c's handlers, the disassembler, the
expression parser, formats of snapshots and tapes and the sample mixing are
conversions of data, which tests reach and a state machine does not help with;
freeze bytes, coverage, profiler and look-up tables are sequential tables.
Banking, quick disk, replay and the trace logs have state worth a module (section 2,
7).  Most files of the repository are the vendored GUI and image libraries, the
windows drawn with them, and data.

# Verification of the uArm SDK

TLA+ models of the C++ SDK in `src/` (`uarm::Swift`, its timer, and the serial
library under it), the TLC runs that check them on small instances, and TLAPS
proofs of what holds for every instance. `PROJECT.json` lists components, runs,
the source lines behind each definition, the hazards and the theorems.

## 1. Inventory

### The system

An application links the SDK and creates one `Swift` object per arm. A `Swift`
owns a serial port (`serial::Serial`), one detached *receive thread*, and a
`Timer` that starts a detached thread for everything that must happen later or
elsewhere. Application threads call the command API; the arm answers over the
line.

    application threads           Swift                     serial::Serial
     set_*/get_*  ------> _send_cmd  -- "#<id> cmd\n" --> write  --> arm
                          cnt, result[], callbacks[],
                          cmd_pend_count, mutex, cmd_cond
     flush_cmd   ------>      ^                               |
     callbacks  <--- AsyncWait threads <--- recv_thread <-- readline
                    (timeouts, answers)     "$<id> ok ..", "@<n> .."

### Components

| component | state | operations | where it is hard |
|---|---|---|---|
| Command channel (`uarm.cc:26-165, 279-388, 940-945`) | `cnt`, `cmd_pend_count`, `result[]`, `callbacks[]`, `mutex`, `cmd_cond`, `connected` | `_send_cmd` (sync, callback, fire-and-forget), `flush_cmd`, `$` branch of the receive thread, `_timeout_callback` | callers, receiver and timers share two tables, mostly without the lock; ids are used again; timeouts race with answers |
| Session life cycle (`uarm.cc:167-277`) | `connected`, the port, the receive thread | constructor, `connect`, `disconnect`, destructor | detached threads of one session live into the next; the counter is reset under the feet of the callers; a dead port object is still "open" |
| Report dispatch (`uarm.cc:74-142, 390-453`) | five callback pointers, `power_status` | `@3` position, `@4` keys, `@5` power, `@6` limit switch; `register_*`, `release_*` | pointers tested and used in two statements; one thread per report, so reports overtake each other |
| Reply handlers and command API (`uarm.cc:455-938`) | `mode`, `power_status`, `device_info[]` | 13 setters, 12 getters, `reset`, `get_device_info` | parsing that throws in detached threads; callbacks never called; an error of the send dropped |
| Timer (`timer.h`) | `expired_`, `try_to_expire_` | `StartTimer`, `Expire`, `SyncWait`, `AsyncWait` | two flags, each tested in one step and set in another |
| Serial facade (`serial.cc`) | read lock, write lock | `readline`, `write`, `setPort`, `flush`, ... | which operations take which lock, and `close` that takes none |
| POSIX port (`unix.cc`) | `fd_`, `is_open_`, timeouts | `open`, `close`, `available`, `read`, `write`, `reconfigurePort` | descriptor tested and used in two steps; partial reads and writes; half-open ports |
| Line settings (`unix.cc:151-462`) | `baudrate_` .. `flowcontrol_`, termios attributes, custom divisor | five setters, `reconfigurePort` | bits left from an earlier setting; failures not looked at |
| Windows port (`win.cc`) | `fd_`, `is_open_` | the same | handle lost or kept after a failed configuration; `close` races with `available`, `read` and `write` |
| Text helpers (`utils.cc`) | none | `strip`, `split` | index arithmetic at the ends of the text |
| Port enumeration (`list_ports_*.cc`, `uarm.cc:204-232`) | `port` | `list_ports`, the scan of `connect` | three ways to write a hardware id, one way to read it; the found port is remembered |
| Wrappers (`lock.h`, `thread.*`) | none | thin layers over pthread and Win32 | not used by `Swift` |
| Example, MFC demo | | users of the API | how they call is what the models' environments are taken from |

### How they interact

* `_send_cmd` takes an id and a place in the window under `mutex`, prepares the
  tables and writes **outside** the lock. A synchronous caller polls
  `result[id]`; a callback call starts an `AsyncWait` thread that sleeps the
  whole timeout, whether or not an answer comes.
* The receive thread tests `callbacks[id]` without the lock. If it holds one it
  locks, takes it out, decrements the counter, notifies, and starts a thread
  that calls it; otherwise it stores the answer in `result[id]`.
* `connected` is a plain `bool` that every one of these threads reads and that
  `connect`, `disconnect`, a failing write and a failing read assign.
* The port is shared by the receive thread (`available`, `readline`), the
  callers (`write`) and whoever calls `connect` and `disconnect`.

### What makes each component correct

* **Command channel**: an answer reaches the call it belongs to and no other,
  although ids go round; the counter is the number of calls in the window; no
  sleeper in `cmd_cond` is forgotten; every call returns, every registered
  callback is called; `flush_cmd` returns when and only when the window is
  empty.
* **Session**: one receive thread serves each session; the counters of a new
  session do not depend on threads of the last; after a failure the application
  can connect again; threads end after `disconnect`.
* **Reports**: a callback is called only while it is registered;
  `power_status` is what the arm reported last.
* **Handlers**: return values and callback values are those `uarm.h` lists; a
  callback is called once for every command.
* **Timer**: the task runs while the timer is started; `Expire` returns.
* **Port**: no operation uses a descriptor that is not its own; no descriptor
  is lost; no two operations wait for each other's lock; a line read is a line
  sent or is recognisably not one.
* **Line**: after a setter the line has all the settings asked for so far.
* **Port choice**: a port that was found is the arm's.
* **Text**: `strip` and `split` agree with their definitions on every text.

## 2. Modules

The most important behaviour first:

| # | module | about | proofs |
|---|---|---|---|
| 1 | `SwiftCommand` | the command channel of one session: callers, receiver, timers, arm and line | `SwiftCommandProofs` |
| 2 | `CommandPromise` | what the channel promises; `SwiftCommand` implements it | `SwiftCommandProofs` |
| 3 | `SwiftSession` | `connect`, `disconnect`, failure and reconnection with the threads of earlier sessions still running | `SwiftSessionProofs` |
| 4 | `SerialPort` | facade and POSIX port: locks, descriptor, open/close/reconfigure against `available`/`readline`/`write` | `SerialPortProofs` |
|   | `LinePromise` | what the port promises to those who read lines and write commands; `SerialPort` implements it | `SerialPortProofs` |
| 5 | `SwiftReply` | the command API and its handlers: values, callbacks and caches | `SwiftReportProofs` |
| 6 | `SwiftReport` | the receive thread's work on lines, reports and their callbacks; composed with 5 | `SwiftReportProofs` |
| 7 | `TimerLoop` | `StartTimer` and `Expire` | `TimerLoopProofs` |
| 8 | `PortChoice` | which port `connect` opens, on three platforms | `WinPortProofs` |
| 9 | `WinPort` | the handle of the Windows port under `connect` and `disconnect`; composed with 8 | `WinPortProofs` |
| 10 | `LineSettings` | what a sequence of setters does to the line | `LineSettingsProofs` |
| 11 | `TextHelpers` | `strip` and `split` | `TextHelpersProofs` |

`MC*` modules hold instances for TLC. Compositions: `SwiftReply` sits on
`CommandPromise` instead of on the channel itself. Two theorems justify that:
`SwiftCommand` implements the promise (`ChannelKeepsPromise`), and the command
API with its receiver uses it as it is (`UsesPromise`). `SwiftReport` extends
`SwiftReply`, because the answers and the reports of the power write the same
member; `WinPort` extends `PortChoice`. `MCHost` checks 7 to 11 side by side: they share no state, so a
behaviour is about one of them (`part`) and leaves the others alone.

What could come next: a reader of lines over a byte stream with timeouts that
refines a channel of whole or cut lines (today `SwiftReply` takes the cuts as
given), and the destructor.

## 3. The command channel

### Model and code

`SwiftCommand.tla` models one session: `connect()` has returned 0, the link may
fail at any moment, nobody connects again. A call of `_send_cmd` is an element
of `SyncCalls`, `CallbackCalls` or `BareCalls` (no wait, no callback);
`Flushes` are calls of `flush_cmd`. The answer of the arm to call `c` is `c`:
of its text the properties only ask whose answer it is.

| state | code |
|---|---|
| `connected`, `cnt`, `cmd_pend_count`, `result`, `callbacks` | the members of `Swift` |
| `pc[t]`, `id[c]`, `returned[c]` | program counter, local `_cnt` and return value of a call |
| `timer[c]` | the `AsyncWait` thread that runs `_timeout_callback` |
| `recv`, `hand` | where the receive thread is, and the reply line it works on |
| `handlers` | the `AsyncWait(0, callback, result)` threads not yet run |
| `sent`, `answers`, `linkUp` | commands and replies on the line, and the link |
| `claimed`, `invoked`, `executed` | history: answers that took the receiver's locked section, what each callback was called with, what the arm executed |
| `aborted` | an exception left a detached thread (`std::terminate`) |

Every critical section of `mutex` is one action, and every access outside it is
an action of its own wherever another thread can see the difference. The
actions of a call follow `_send_cmd` from top to bottom: `Begin` (the unlocked
test of `connected`), `TakeId` (the id, and the window or the wait), `Reenter`
(a wake-up), `Prepare` (tables and timer), `ReleaseBare` (line 309-315),
`Write`, `WriteThrows`, `PollHit`, `PollReturn` (the read of `result[_cnt]`
*after* the unlock), `PollTimeout`. The timer is `TimerCheck`, `TimerRelease`,
`TimerCall`; the receiver `RecvRead`, `RecvDispatch`, `RecvClaim`,
`RecvThrows`; a thread it starts, `RunHandler`. `cmd_cond` is the pair of
program counters `waiting` and `woken`: `notify_all` wakes every waiter, and a
woken thread evaluates its predicate again.

Abstractions of data, and races:

* A command that `write` cuts short at its timeout (its count is ignored,
  line 319), a reply cut by the read timeout, and a line that does not parse
  are one event, `Lose`.
* `result[]` and `callbacks[]` are read and written by threads without a common
  lock. What the model keeps of these races is the order of the accesses: a
  read returns a value that was stored. Torn reads of a `std::string` or a
  `std::function` are not modelled.
* `connected` is read without synchronisation; the model lets a reader see the
  last value written.

**Assumption `NoOverrun`.** An id is used again after `MAX_CNT - 1` = 9999
commands. The model assumes that its previous holder is over by then: its call
has returned, its timer thread has ended, its messages are gone. The code does
not check this; a timer of a call with a very long timeout could break it. It is
a conjunct of the next-state relation of `Spec`, so the safety runs go round
ids after 2 calls and stay inside the assumption. With fewer than `MAX_CNT`
calls it is not needed: `FewCallsNeverOverrun` proves that the code alone keeps
it then, so every theorem about `Spec` holds of the unrestricted steps.
`LiveSpec`, which has fewer calls than ids, does without it.

Constants are otherwise free; `CmdPendSize` is at least 1 although the
constructor accepts any `int` (with 0 or less no command is ever sent).

### Runs

| run | instance | shows |
|---|---|---|
| `channel_ids` | a sync call, two callback calls, one that nobody waits for, window 2, 2 ids | the inductive invariant `CommandInv`, the exact counter (`PendAccounting`), the window bound, no lost callback and the refinement `KeepsPromise` |
| `channel_live` | one call of each kind, one flush, window 1, 3 ids, under fairness | no lost wake-up (`NoLostWakeup`), no sleeper beside a window that nobody will leave (`SleepersDepend`), `flush_cmd` on an empty window only; calls return, callbacks are called, `flush_cmd` returns |

Bounds. Four calls over two ids make the id wrap around, so that a call finds
the remains of an earlier one in both tables; a window of 1 makes every other
caller wait, and a window of 2 lets two be inside while a third waits. Two
callback calls are enough for the receiver and two timers to meet over one id
after a wrap. Every action fires, the failing write and the empty callback
included. Symmetry over interchangeable calls is used in safety runs only.
Deadlock is not checked: the program stops when every call is over, when a
caller is stranded by a failed write (a finding), and when the process dies.

Fairness (`LiveSpec`). The operating system schedules threads and clocks go on,
so each step of a running thread is weakly fair: taking the lock, waking,
writing (a write returns or throws within its timeout), leaving the polling
loop by answer or by clock, timers, the receiver, started handler threads.
Nothing is assumed of the arm, of the line, of the moment a call is made, or
that the link fails.

The liveness properties carry the conditions the code needs: `CallsReturn` a
link that holds (a failing write strands callers, as a violation run shows),
`FlushReturns` a link that holds and no double release: with one, timer and
receiver both decrement `cmd_pend_count` for one command, the counter settles at
-1 and `flush_cmd` never returns.

### What the code does that its comments do not say

| run | property | shows |
|---|---|---|
| `exception_strands_callers` | `CallsEnd` | a write that throws returns without leaving the window; with the window full, callers waiting in `cmd_cond` never return |
| `receiver_without_callback` | `ReceiverHasCallback` | the receiver copies a callback the timer has just cleared; the thread it starts throws `std::bad_function_call` |

Their causes are the early return at lines 332-346, and the test of
`callbacks[_cnt]` outside the lock (lines 50 and 298), which also releases a
place twice (`PendAccounting` counts it) and lets one callback be called with its
answer and with `TIMEOUT`; `CommandPromise` therefore allows both, each once.
`flush_cmd` does not cover fire-and-forget commands (they leave the window before they are written, line 309), so
`FlushCovers` speaks of the calls in the window only.

### Proofs

`SwiftCommandProofs.tla`, for every set of calls, every `MAX_CNT >= 2` and
every window:

* `CommandInvariant`: `Spec => []CommandInv`. `PendAccounting`, the fact that
  `cmd_pend_count` is the number of places held less the number of double
  releases, is not inductive: that `TimerRelease` gives up a place, and that
  `RecvClaim` does, depends on which callbacks the table holds. `CommandInv`
  adds what is needed: `TableInv` (the table holds exactly the callbacks whose
  timer has not ended and whose answer has not claimed them, each under its
  id), `IdsInv` (who has an id, and which kind of call can be where),
  `MessagesInv` (a message exists in one place, and only after the write),
  `ReceiverInv`, and `NoOverrun`.
* From it: `TypeCorrect`, `Accounting`, `WindowBound`, `NoWakeupIsLost`,
  `FlushIsCovered`.
* `NobodySleepsAlone` (`SleepersDepend`) is the safety half of "every call
  returns": who sleeps in `cmd_cond` waits for a call that still has the step
  ahead of it by which it leaves the window, or for a place that a failed write
  has stranded, or, in `flush_cmd`, for a count that a double release has spoilt.
  It follows from `PendAccounting`, `NoLostWakeup` and the fact that a place is
  held only by a call with such a step: a window that is full, or not empty, has
  somebody in it.
* `FewCallsNeverOverrun`: see `NoOverrun` above. While fewer calls have begun
  than there are ids, `cnt` is one more than their number, and the ids in use are
  below it and all different.

The same module proves `ChannelKeepsPromise`, that `Spec` implements
`CommandPromise`: a command is executed at most once, a call returns once, the
answer it returns or its callback is told is its own, a command that was
refused is not executed, and a call that found no connection tells its callback
nothing. On top of `CommandInv` it uses `PromiseInv`
(`PromiseInvariant`; `ResultInv`: under the id of a call that still waits
`result[]` holds nothing or its own answer; `ExecutedInv`; `ToldInv`).
`NoCallbackIsLost` follows there as well. `PromiseInv` is checked by no run: the
refinement, which is, needs all of it.

The proofs assume the constants' assumptions and `NoOverrun`, which is part of
`Spec`. Liveness, and the disagreements above, are model-checked only.

## 4. Sessions

### Model and code

`SwiftSession.tla` models what `connect` and `disconnect` do to an object that
is in use. One application thread calls them in any order (`ctl` is where it
is, `op` which of the two, `outcome` how the last one ended); the arm is
unplugged and plugged in; receive threads of all sessions (`recv[r]`) and
synchronous calls (`pc[c]`) go on meanwhile.

| state | code |
|---|---|
| `connected`, `cmd_pend_count` | the members of `Swift` |
| `isOpen`, `fd` | `SerialImpl::is_open_`, `fd_`: none, of the arm, or hung up |
| `recv[r]` | `sleep` (before `while (connected)`), `ioctl` (in `available`), `read`, `catch`, `exited` |
| `pc[c]` | a synchronous `_send_cmd`; `stranded` is the early return of a failed write, which keeps its place |
| `epoch`, `looked`, `left` | history: how often the counter was reset, and in which of these epochs a thread last evaluated its predicate and left the window |

`connect` is one action per effect another thread can see: `setPort` on an open
port closes (`CloseFd`, `CloseFlag`) and opens (`Reopen`, `Reopened`) under both
locks of the port (`PortLocked`), then `SetBaudrate`, then `Open`, which throws
on an open port, `Opened`, `SetLines` with `connected = true`, `ResetCount`,
`Spawn`. What fails before the `try` ends the call with an exception, what fails
inside it with -1 (`Fails`). `disconnect` takes no lock. `ResetCount` writes the
counter without the mutex; since another thread may be in the middle of its own
read-modify-write, the reset may be lost, and the model allows both.

What is left out: the choice of a port from `list_ports` (`PortChoice`), the
content of the lines, callback calls (`SwiftCommand` has them), the destructor.
A `readline` and a `write` are one step each: what they do when the port is
closed under them is what they do on a closed port, and a failing `write` is
one step with the `connected = false` of its handler.

### Runs

`session_reconnect` (two connections, two callers, a flush, one unplugging,
window 1) checks `SessionInv`, the inductive invariant of the proofs, and:

* `SessionAccounting`: after any number of resets the counter is the number of
  calls of the present epoch in the window less the number of calls of earlier
  epochs that have left since;
* `SleptBeforeReset`: a sleeper whose predicate is true went to sleep before a
  reset, so the reset is the one step that forgets to notify;
* `ReceiverServes`: outside `connect`, a connected object has a receive thread;
* `SessionState`: after `disconnect` the port is closed; after -1 the object is
  not connected; a connected object has an open port unless the last call threw.

`session_live` (two connections, one caller, one unplugging) checks
`FailureNoticed` and `ReceiversEnd` under weak fairness of the threads that are
inside a call and of the receive threads. `FailureNoticed` lets the receiver off
while somebody calls `connect` or `disconnect`: an application that hammers
`connect` can keep the port locked.

Two connections are what it takes for a thread of an earlier session to meet a
later one; one unplugging, at any moment, puts a dead descriptor under each
step.

The violation run `stale_receiver_disconnects` (`StaysConnected`) shows what
`uarm.h` does not say: the receive thread of the last session ends the present
one. More shows in the properties that hold:

* `connect` may end with an exception of `setPort` or `setBaudrate`, although
  `uarm.h` lists 0 and -1 (`SessionState` says what is left then);
* a call that was in the window at a reset takes the counter to -1 when it
  leaves (`LeftTwice` in `SessionAccounting`), and `flush_cmd` then waits for
  good;
* a caller that waited for room at a reset sleeps on beside an empty window
  (`SleptBeforeReset`) until another call notifies;
* after a link failure `connect` returns -1 for ever, because it reopens the
  port itself and then finds it open; only `disconnect` gets out of this, and
  the MFC demo calls it only when connected.

### Proofs

`SwiftSessionProofs.tla` proves the safety properties of `session_reconnect` for
any number of calls, flushes, connections, unpluggings and any window of at
least one. `SessionInv` is what makes them inductive: `PhaseInv` (which of the
two calls is where, what it finds in `is_open_`, and that it has a receive
thread left to start), `LeftInv` (a call leaves the window once) and
`ServedInv` (`ReceiverServes` between the returns, too: a receive thread leaves
its loop only when it reads `connected = false`). `CounterRange` follows from
`SessionAccounting`, because at most all calls can be of an earlier epoch (it
keeps the counter between minus the number of calls and `cmd_pend_size`);
`OnlyResetsStrand` rests on types alone: every other change of the counter is
followed by `notify_all`. The liveness properties are model-checked only.

## 5. The serial port

### Model and code

`SerialPort.tla` models one `serial::Serial` and its POSIX implementation under
the threads a `Swift` object gives it: receive threads (`Readers`: `available`,
then `readline`), callers (`Writers`: one `write` each), one application thread
that calls `connect` and `disconnect` in any order, and callers of `flush`
(`Drains`; the SDK has none, the facade offers it). Under them is the kernel's
descriptor table: a closed number is free, and the next `::open`, here or in the
rest of the process (`OtherFile`), gets the lowest free one.

| state | code |
|---|---|
| `isOpen`, `fd` | `is_open_`, `fd_` |
| `readLock`, `writeLock` | who holds `read_mutex`, `write_mutex` |
| `file[n]`, `opens` | what number `n` stands for: nothing, a file elsewhere, or the k-th opening of the port |
| `ctl`, `op` | where `connect` or `disconnect` is |
| `pc[t]`, `arg[t]`, `moved[t]` | where a transfer is, the value of `fd_` it has loaded for its system call, and `read_so_far` or `bytes_written` |
| `touched[t]`, `wire`, `lost`, `cut`, `botched` | history: the files behind a transfer, the order of the bytes on the line, openings with a failed configuration, transfers that `disconnect` closed under, a failing `::close` |

Locks are those of the code: `readline` the read lock, `write` the write lock,
`setPort` and `flush` both, `available`, `open`, `close` and `setBaudrate` none.
Every access to `is_open_` and `fd_` outside them is a step of its own, and so
is every system call; `Load` separates the load of `fd_` from the `::read` or
`::write` that uses it. Any system call may fail, because the arm may be gone.

Abstractions: bytes have no content (a byte ends the line or does not; a
`::write` takes any part of the rest); time is a wait that may end; a retry
after `EINTR` is a stutter; `reconfigurePort` succeeds or throws. Calls that use
`fd_` = -1 find nothing ready: `FD_SET(-1)` is undefined in C, and the builds
the Makefile makes are not modelled further there. `setRTS` and `setDTR` only
end `connect` with -1 when they fail, which `SwiftSession` has. `close` tests
`fd_ != -1`, which on an open port with one controlling thread is always true
(`PhaseInv`).

### Runs

`port_descriptors`: the receive threads of two sessions and a writer, two
openings, two descriptor numbers, lines and commands of two bytes. It checks

* `KeepsLine`: seen from its users the port is a `LinePromise`, whose actions are
  `Listen`, `Hear`, `EndLine` of a reader, `Speak`, `Say`, `EndCommand` of a
  writer, and `Open`. One reader and one writer are at work at a time, a writer
  once, bytes are moved only of a device that was opened, and it is not opened
  again while a line or a command has begun. The holders of the two locks are
  the listener and the speaker; a transfer has begun once it has touched a file
  of the port. The last point is not obvious from the code: `open` and `close`
  take no lock, and a writer that slept in `pselect` while the port was closed
  would go on in the next session. What prevents it is that `connect` always
  calls `setPort`, which waits for both locks, before it opens. (Bytes that go to
  a foreign file are not a step of the promise; `StraysExplained` is about them.);
* `DescriptorsAccounted`: a descriptor of the port that is still open is `fd_`
  or one whose configuration failed (that one is lost: `is_open_` stays false,
  so `close` does nothing and the next `open` overwrites `fd_`);
* `StraysExplained`: a transfer reaches a file that is not the port only if
  `disconnect` closed the port under it or a `::close` failed. Both do happen:
  between `::close` and the load of `fd_` the number may be given away.

`port_locks`: two writers, a receive thread, a `flush`, one opening, no limit on
disconnections. `CommandsApart`: bytes of two commands never mix. `NoCircle`:
of threads that wait for one another's locks in a row, the third is not
waiting; `setPort` and `flush` take the read lock first.
`LocksComeBack`: both locks are free again and again, under weak fairness of
each thread that is inside a call (every system call here has a timeout or is
not blocking, except `tcdrain`, which is taken to end); nothing is assumed about
who gets a lock.

Bounds. Two openings are what a transfer or a descriptor must not confuse; with
two numbers another file can take the closed one while the port gets the other,
or the port can get its old number back. Two bytes make a transfer with an
inside. Deadlock is checked in both runs.

### Proofs

`SerialPortProofs.tla` proves `PortInv` inductive (`PortInvariant`) for any
number of threads, numbers, openings and bytes, and from it `OneOpening` (the
bytes of a transfer belong to one opening, `TransfersKeepOneOpening`),
`DescriptorsAccounted` and `StraysExplained`. The heart of the argument is
`QuietInv`: from the end of `setPort` to the end of `open`, whoever holds a lock
has not passed the test of `is_open_` and has moved no byte, because both locks
were free in between and the port has been closed since. So when `OpenFd` makes
a new opening, nobody has a number of the old one in hand (`FileInv`), and a
transfer that passes the test finds the last opening behind `fd_`
(`SoundInv`), unless `disconnect` cut it. `CommandsStayApart` adds `WireInv`:
all bytes after the first one of a writer who has not finished are its own.

`PortKeepsLine` is the refinement of `LinePromise`, a step at a time: `PortInv`
holds before every step, `QuietInv` makes `OpenFd` an `Open` (nobody has begun),
`FileInv` makes a byte of the port a byte of its last opening, and `LockInv`
makes taking and giving back a lock the begin and the end of a line or a command.
`LocksInOrder` (`NoCircle`) needs only `LockInv`. `PortInv` and `OneOpening`
are checked by no run: `KeepsLine` and the other properties are, which need them.
`LocksComeBack` is model-checked only.

## 6. The command API and the reports

### Model and code

`SwiftReply.tla` models the 31 operations `set_*` and `get_*`, `reset` and
`get_device_info`. Each sends one command and gives the answer to one of the
handlers `_handle_set_int` (handler "set"), `_handle_get_float_vector`
("vector"), `_handle_get_int` ("int"; `get_mode` and `get_power_status` wrap it
with handlers of their own, "mode" and "power") and `_handle_get_string`
("info"). An application thread works through a program, a sequence of
operations. The channel below is `CommandPromise`: what a call may return and
what its callback may be told is what the promise allows, with one thing more
that the receiver decides, that an answer has arrived before anyone sees it.

`SwiftReport.tla` adds the receive thread: it reads lines in the order they come,
hands answers on, keeps `power_status` from reports of the power, and for each
report tests the pointer of its kind, loads it again and starts a thread with it.

| state | code |
|---|---|
| `todo[a]`, `cur[a]`, `op[c]`, `value[c]` | an application thread and its calls; what a call returned |
| `answer[c]`, `line`, `report[n]` | the texts of the arm and those not yet read |
| `arrived`, `outcome[c]`, `told[c]`, `executed` | the answers handed on, and the variables of `CommandPromise` |
| `handling`, `heard[c]` | handlers of asynchronous calls in threads of their own, and what the user's callbacks were called with |
| `mode`, `power_status`, `device_info` | the members of `Swift`; `mode` is 255 at first |
| `recv[r]`, `hand[r]`, `alive` | receive threads, of this and of earlier sessions |
| `callback[k]`, `threads`, `delivered` | the five callback pointers, the threads that call them, the calls made |
| `power_seen`, `raced` | history |

Abstractions: a text is its first word and the values of its fields; an answer
may be an error code, may lose its last field or that field's value, or its first
word (`Cuts`: the read timeout cuts a line anywhere), and any line may be lost.
Cuts between two digits are not modelled: a number that was shortened cannot be
told from a right one, by the code or by a property. `power_status` on the arm
is switched `MaxSwitches` times, so that "as of which switching" orders what
answers and reports say. A handler is one action: its assignments are to
different members, and what it reads is its own text.

### What the code does that its users might not expect

All of these are in the model, and the properties hold with them:

* an asynchronous `set_*` or `get_*` always returns -1 (or an empty vector),
  also when the command was accepted (`FinishAsync`);
* the callback of `get_position`, `get_polar` and `get_servo_angle` is not called
  after a timeout or an error (the exception in `CallbacksHear`);
* `uarm.h` says of several callbacks "only available if wait is true"; the code
  uses them only if `wait` is false;
* an answer with an empty field ends the process if its call was asynchronous,
  and throws `std::invalid_argument` at the caller if not (`Throws`);
* the limit switch callback is told `true` in both branches (line 125);
* reports are given to detached threads, so the application may hear them in any
  order: `ReportsTold` says how often, never when.

### Runs

| run | instance | shows |
|---|---|---|
| `arm_api` | one call of each kind, programs with each handler twice, one receiver, two switchings of the power, two lines, under fairness | `ArmInv`, `ValuesTruthful`, `CachesFaithful`, `PowerForward`, `CallbacksHear` |
| `arm_reports` | no calls; two receivers, power, limit switch and a key, three lines | `ReportsTold`, `AbortExplained` |

Bounds. Two operations in a program are what it takes to keep a value and then
ask again, or to have an answer of the first overtaken by a report; two lines
let a report and an answer cross. Two receivers with three lines let one of them
hold an older report while the other delivers two newer ones. The operations
of one handler differ only in their codes, so one or two of each stand for all
(the proofs are for every program). No run issues the calls of all 31
operations.

Fairness (`LiveSpec`): an accepted asynchronous call is told something, by the
timer if by nobody else, which is `CallbackRuns` of `SwiftCommand` (under its
condition that the process lives); and detached threads run. Nothing is assumed
of the arm.

Deadlock is not checked: programs end.

### Proofs

`SwiftReportProofs.tla` proves all the safety properties of the two runs, for any
calls, programs, application threads, receivers, kinds, values and lines.

* `ArmInvariant`: `IInv` is inductive. `ReplyInv` (types, and `CallsInv`: whatever
  was returned, told or kept belongs to an issued call, and an answer to one that
  was executed and has arrived) carries `ValuesTruthful`. `PlaceInv` says that a
  line that was sent is in one place at most: still to be read, in one receiver's
  hand, or, as a report, told once; without it `ReportsTold` is not inductive,
  for two receivers might hold the same line. `RaceInv` says that a receiver
  about to load a pointer that is NULL has been raced, which `AbortExplained`
  needs. From `IInv`: `ArmBookkeeping`, `AnswersAreTrue`, `ReportsToldOnce`,
  `AbortsAreExplained`.
* `CachesAreFaithful` adds `KeptInv`: what executed answers and reports say of mode
  and power was so when they were made.
* `PowerGoesForward` adds `OrderInv`: while one receive thread is alive, lines,
  the line in hand and the answers that have arrived are in the order of the
  switchings they are about, and `power_seen` is not past any line not yet
  dispatched. So a report cannot undo a later one; an answer that waits in a
  thread of its own can, which is the exception the property names.

* `ToldIsHeard` is the safety core of `CallbacksHear`: what a callback was told is
  in the hands of a thread, or has reached the user, or is a failure that the
  handler of float vectors keeps to itself, or the process has ended
  (`NothingUnheard`).
* `UsesPromise` closes the composition: every behaviour of the API, the receiver
  and the arm is, on `executed`, `outcome` and `told`, a behaviour of
  `CommandPromise`. The API relies on no call that the channel does not serve, and
  adds no answer of its own. What it adds is only when a call may happen.

That the threads do run, and so `CallbacksHear` itself, is model-checked only.

## 7. The parts that share nothing

Run `host_parts` (`MCHost`) checks these four, each alone. All are safety; no
fairness is assumed. Deadlock is not checked: a text is only looked at, and a
timer whose loop threads are used up stands still.

### Timer

`TimerLoop.tla`: `StartTimer` is `StartTest`, `StartSet`, `StartThread`; `Expire`
is `ExpireTest`, `ExpireTestTry`, `ExpireSet`, `ExpirePredicate`, `ExpireWait`,
`ExpireTestAgain`, `ExpireClear`; the thread is `LoopTest`, `LoopTask`, `LoopEnd`. `expired_` and
`try_to_expire_` are atomic, so each access is one step; `mutex_` guards only
what the code holds it for. `AsyncWait` is in `SwiftCommand`; `SyncWait` sleeps
and keeps no state.

`TurnsAreSafe` and `ExpireStops` hold as long as no two users are past the tests
of `StartTimer` or `Expire` at the same time (`overlapped`). This condition is
what the code needs and does not say: two `StartTimer` at once leave two loops
under one flag; a `StartTimer` between `expired_ = true` and the second test of
`Expire` leaves `try_to_expire_` set, so that the new loop ends at once and
nobody can stop a later one; two `Expire` share one `notify_one`; and `Expire`
called by the task itself waits for its own thread. Two users and three loop
threads are enough for each of these.

`TimerLoopProofs.tla`: `TimerInv` is inductive for any number of users and loops.
Its part `TurnInv` says, of a user between test and set, that the flag it has
seen is still what it was.

### Choice of the port and the Windows port

`PortChoice.tla` models the scan of `connect` and what the three `list_ports`
write into a hardware id. `Plug` moves devices at any time. `FoundIsArm`: a port
that was found had the arm in it, which is still so unless devices were moved
since - the object remembers the port for ever - and ports are found only on
Windows, because the other two lists write `VID:PID=` where `connect` looks for
`VID_`.

`WinPort.tla` models `connect`, `disconnect` and use of the port over `win.cc`.
`doing` is the step of `connect` (`After` is the order of the calls: `Lock` and
close, `setPort`, open, `setBaudrate`, `setTimeout`, and open inside the `try`), and
`at` where in `open` or `close` it is: `close` is `CloseHandle`, `CloseFd` and
`CloseFlag`, `open` is `Open` and `ConfigureNew`, and other threads see what is
between. Handle numbers are given out again, here or to the rest of the process
(`Other`).

The receive threads and callers (`Callers`) are in `available`, `read` or `write`:
`Begin` tests `is_open_`, `Load` loads `fd_` into `arg`, `SystemCall` uses it. `read`
and `write` hold the locks of the facade, which `setPort` takes before it closes a
port and keeps until it has opened it again (`Locked`); `available` takes none, and
the `close` of `disconnect` takes none. `under` remembers who has closed the port
under a call; nothing reads it.

What can go wrong, and how it differs from POSIX (`SwiftSession`, `SerialPort`):

* a failing `GetCommState` or `SetCommTimeouts` in `open` leaves the handle open
  and unowned, and the port busy (`HandlesAccounted`);
* a call reaches a file that is not the port, because its handle was closed and
  given away between test, load and system call. `StrayExplained` gives the three
  ways: `disconnect` closed the port under it; `connect` did, under an `available`;
  or a failing `SetCommState` on an open port has closed the handle and kept its
  number and `is_open_` (`rejected`), which POSIX does not do. Without the locks of
  `setPort` a `read` would stray in a `connect`, too: that is its mutant;
* `setTimeout` reconfigures as well, so `connect` on an open port configures
  three times and then fails to open it: on Windows, too, it ends with -1 or an
  exception (`ConnectOutcome`).

The run has one caller: callers change nothing that another one or `connect` reads,
except that `Lock` waits for them and that two do not `read`, or `write`, at once.

`WinPortProofs.tla` proves the four properties for any names, devices, handles,
platforms and number of callers. They are inductive with `CallInv`, where a call of
`connect`, `open` or `close` stands and what it has found; `SoundInv`, that a call
under which nobody has closed the port finds it open, and has loaded the handle in
`fd_` if any; and `LockInv`, that only `available` is under way while `setPort` holds
the locks. `SoundCallsDoNotStray` derives `StrayExplained` from the last two and
from `OwnHandle`, which says whose the handle of an open port is.

### Line settings

`LineSettings.tla` models the five setters and `open` over the termios attributes:
one operator for each paragraph of `reconfigurePort` (`WithStopbits`,
`WithParity`, `WithFlow`, `Configured`), and `ParityOf`, `FlowOf`, `LineRate` for
what the terminal makes of them. `tcsetattr` may fail unnoticed; an `ioctl` that
fails throws. `LineFollows` is the equivalence one would expect, with its four
exceptions: one and a half stop bits are two; `CMSPAR` is never cleared, so that
after mark or space parity (of this program or the last one) even is space and
odd is mark; `ASYNC_SPD_CUST` is never cleared, so that 38400 is the last custom
rate; and a custom rate takes effect only on a line that is at 38400.

`LineSettingsProofs.tla` proves it for any rates, sizes and terminals: attributes
that `Configured` has made have the settings whatever they were made from
(`FlagsFollow`), and `HistoryInv` ties the leftovers to what the port has been
through. Two theorems about `Configured` alone say how much of the past a setter
leaves: `OnlyTwoThingsSurvive`, `reconfigurePort` makes the same of two terminals
exactly if they agree on `CMSPAR` (or the parity asked for sets it) and on the
speed (or the rate asked for is a standard one); and `LastSetterDecides`, doing
it twice is doing it once, and of two configurations the second decides alone
with the same two exceptions.

### Texts

`TextHelpers.tla` has `strip`, `lstrip`, `rstrip` and `split` by the indices the
code computes, and compares them with definitions by position, on all texts of up
to five characters over three (one to strip, one to split at, one to keep).
`StripKeeps` has the one exception: `strip` and `rstrip` lose a text whose only
character to keep is its first, because the loop from the right stops at 0
without a test. `SplitJoins`: the pieces joined are the text. `split` is modelled
for separators of one character, the only ones the SDK uses; with longer ones the
code drops characters.

`TextHelpersProofs.tla` proves both for texts of any length over any characters
(`StripIsRight`, `SplitIsRight`); the run's properties, about the texts of
`MCHost`, follow (`StripHasKept`, `SplitHasJoined`). No induction over texts is
needed: the n-th end of a piece is the end with n ends up to it, and ranks in a
finite set grow by one from element to element (`RankGrows`, `RankTaken`); that
the joined pieces are the text compares `FlattenSeq` with the prefixes of the
text up to each end, by the least end at which they would differ (`FlattenIs`).

## 8. Not modelled

* **Reading a line from bytes**: `readline` collects bytes until its end of line or
  the timeout. `SerialPort` has its locks and descriptors, `SwiftReply` takes what
  a cut does to a text as given, and the search for the end of line in between is
  not modelled. `readlines` is not used.
* **Destructor of `Swift`**: it frees what detached threads still use, which is
  undefined; `ReceiversEnd` says that receive threads do end after `disconnect`.
* **Serial interface that the SDK does not use**: modem lines (`setRTS` and
  `setDTR` only as a step of `connect` that may fail), breaks, `waitForChange`,
  `waitByteTimes`, getters, and the values of the Windows `DCB`.
* **Time**: a wait ends some time. The negative remaining time of a `write`
  (`unix.cc:634`) makes a wait longer, which the models cannot tell.
* **Lock and thread wrappers** (thin, not used by `Swift`), the **example** and the
  **MFC demo** (users of the API: what they call is in the environments).
* The firmware of the arm, the operating system and the line are external: the
  arm executes commands in any order after any delay and answers with the id it
  was given; lines are lost and cut; handles and descriptors are given out anew.
* An id that is taken again while its previous holder lives (`NoOverrun`).

Liveness under fairness (`CallsReturn`, `CallbackRuns`, `FlushReturns`,
`FailureNoticed`, `ReceiversEnd`, `LocksComeBack`, `CallbacksHear`), and the
violations, stay with TLC, because TLAPS has no rules for `ENABLED` here.
`NobodySleepsAlone`, `LocksInOrder` and `ToldIsHeard` are the safety facts that
three of these rest on, and are proved.

----------------------------- MODULE SwiftSession -----------------------------
(***************************************************************************)
(* The sessions of one uarm::Swift object (src/src/uarm.cc): an application*)
(* thread calls connect() and disconnect(), the arm may be unplugged and   *)
(* plugged in again, and what an earlier session left behind goes on: its  *)
(* detached receive thread, and the synchronous calls of _send_cmd that    *)
(* hold or wait for a place in the window.  All of them read or assign     *)
(* connected and cmd_pend_count.  The port below is the POSIX one          *)
(* (src/src/serial/impl/unix.cc) with the locks of serial.cc.              *)
(*                                                                         *)
(* Only synchronous calls are modelled, from the test of connected to the  *)
(* exit from the window; what is special to callbacks is in SwiftCommand.  *)
(***************************************************************************)
EXTENDS Integers, FiniteSets

CONSTANTS
    Calls,          \* synchronous calls of _send_cmd
    Flushes,        \* calls of flush_cmd
    CmdPendSize,    \* cmd_pend_size
    MaxConnects,    \* bound: how often connect() is called
    MaxUnplugs      \* bound: how often the arm is unplugged

Threads   == Calls \cup Flushes
Receivers == 1 .. MaxConnects

ASSUME SessionAssumption ==
    /\ IsFiniteSet(Calls)
    /\ Calls \cap Flushes = {}
    /\ CmdPendSize \in Nat \ {0}
    /\ MaxConnects \in Nat /\ MaxUnplugs \in Nat

VARIABLES
    connected,      \* Swift::connected
    cmd_pend_count, \* Swift::cmd_pend_count
    isOpen,         \* SerialImpl::is_open_
    fd,             \* SerialImpl::fd_: "none", "live", or "dead" (hung up)
    plugged,        \* the arm is there
    unplugs,        \* how often it has been unplugged
    ctl,            \* where the thread in connect() or disconnect() is
    op,             \* which of the two it is in
    outcome,        \* how it ended
    recv,           \* where each receive thread is in its loop
    pc,             \* where each call of _send_cmd and flush_cmd is
    epoch,          \* how often connect() has set cmd_pend_count to 0, plus 1
    looked,         \* the epoch in which a thread last evaluated its predicate
    left            \* the epoch in which a call left the window

port    == <<isOpen, fd, plugged, unplugs>>
control == <<ctl, op, outcome>>
window  == <<cmd_pend_count, pc, epoch, looked, left>>
vars    == <<connected, port, control, recv, window>>

(* The constructor with do_not_open = true has run.                        *)
Init ==
    /\ connected = FALSE
    /\ cmd_pend_count = 0
    /\ isOpen = FALSE
    /\ fd = "none"
    /\ plugged = TRUE
    /\ unplugs = 0
    /\ ctl = "idle"
    /\ op = "none"
    /\ outcome = "none"
    /\ recv = [r \in Receivers |-> "none"]
    /\ pc = [t \in Threads |-> "idle"]
    /\ epoch = 1
    /\ looked = [t \in Threads |-> 0]
    /\ left = [c \in Calls |-> 0]

Started == {r \in Receivers : recv[r] # "none"}
Running == {r \in Receivers : recv[r] \notin {"none", "exited"}}

(* The predicates of the two waits, and a slip.                            *)
WindowAlmostOpen == cmd_pend_count <= CmdPendSize
WindowOpen  == cmd_pend_count < CmdPendSize
WindowEmpty == cmd_pend_count = 0

-----------------------------------------------------------------------------
(* connect() and disconnect().                                             *)

(* connect() ends with 0, with -1, or with an exception that leaves it.    *)
Ends(how) == ctl' = "idle" /\ outcome' = how /\ UNCHANGED op

GoOn(where) == ctl' = where /\ UNCHANGED <<op, outcome>>

(* connect() is entered; setPort closes a port it finds open.              *)
Connect ==
    /\ ctl = "idle"
    /\ Cardinality(Started) < MaxConnects
    /\ op' = "connect" /\ outcome' = "none"
    /\ ctl' = IF isOpen THEN "close" ELSE "open"
    /\ UNCHANGED <<connected, port, recv, window>>

(* disconnect() is entered; the slip closes the port only of a session that *)
(* is still connected.                                                     *)
DisconnectIfConnected ==
    /\ ctl = "idle"
    /\ op' = "disconnect" /\ outcome' = "none"
    /\ ctl' = IF isOpen /\ connected THEN "close" ELSE "cut"
    /\ UNCHANGED <<connected, port, recv, window>>
Disconnect ==
    /\ ctl = "idle"
    /\ op' = "disconnect" /\ outcome' = "none"
    /\ ctl' = IF isOpen THEN "close" ELSE "cut"
    /\ UNCHANGED <<connected, port, recv, window>>

(* The locks setPort holds from its close() to its open().  disconnect()   *)
(* closes without them.                                                    *)
PortLocked == op = "connect" /\ ctl \in {"close", "closing", "reopen",
                                         "reopened"}

(* SerialImpl::close: ::close(fd_), and fd_ = -1 if that succeeds; if not, *)
(* it throws, and whether the kernel has kept the descriptor is open ...   *)
CloseFd ==
    /\ ctl = "close"
    /\ \/ fd' = "none" /\ GoOn("closing")
       \/ fd' \in {fd, "dead"} /\ Ends("exception")
    /\ UNCHANGED <<connected, isOpen, plugged, unplugs, recv, window>>

(* ... and then is_open_ = false.                                          *)
CloseFlag ==
    /\ ctl = "closing"
    /\ isOpen' = FALSE
    /\ GoOn(IF op = "connect" THEN "reopen" ELSE "cut")
    /\ UNCHANGED <<connected, fd, plugged, unplugs, recv, window>>

(* disconnect() ends with connected = false.                               *)
Cut ==
    /\ ctl = "cut"
    /\ connected' = FALSE
    /\ Ends("disconnected")
    /\ UNCHANGED <<port, recv, window>>

(* SerialImpl::open: ::open fails when there is no device ...              *)
OpenFd == fd' = IF plugged THEN "live" ELSE "none"

(* setPort opens the port again; what fails here, or when setBaudrate      *)
(* configures the open port, leaves connect() as an exception.             *)
Reopen ==
    /\ ctl = "reopen"
    /\ OpenFd
    /\ IF plugged THEN GoOn("reopened") ELSE Ends("exception")
    /\ UNCHANGED <<connected, isOpen, plugged, unplugs, recv, window>>

(* ... and reconfigurePort fails when it has gone since.                   *)
Reopened ==
    /\ ctl = "reopened"
    /\ IF fd = "live" THEN isOpen' = TRUE /\ GoOn("baudrate")
                      ELSE UNCHANGED isOpen /\ Ends("exception")
    /\ UNCHANGED <<connected, fd, plugged, unplugs, recv, window>>

SetBaudrate ==
    /\ ctl = "baudrate"
    /\ IF fd = "live" THEN GoOn("open") ELSE Ends("exception")
    /\ UNCHANGED <<connected, port, recv, window>>

(* connect failed: connected = false, return -1.  The port stays as it is. *)
Fails ==
    /\ connected' = FALSE
    /\ Ends("-1")

(* ser.open(): "Serial port already open." if setPort has opened it.       *)
Open ==
    /\ ctl = "open"
    /\ \/ isOpen /\ Fails /\ UNCHANGED fd
       \/ ~isOpen /\ ~plugged /\ Fails /\ OpenFd
       \/ ~isOpen /\ plugged /\ GoOn("opened") /\ OpenFd /\ UNCHANGED connected
    /\ UNCHANGED <<isOpen, plugged, unplugs, recv, window>>

Opened ==
    /\ ctl = "opened"
    /\ \/ fd = "live" /\ isOpen' = TRUE /\ GoOn("lines") /\ UNCHANGED connected
       \/ fd = "dead" /\ UNCHANGED isOpen /\ Fails
    /\ UNCHANGED <<fd, plugged, unplugs, recv, window>>

(* setRTS and setDTR, and connected = true.                                *)
SetLines ==
    /\ ctl = "lines"
    /\ \/ fd = "live" /\ connected' = TRUE /\ GoOn("reset")
       \/ fd = "dead" /\ Fails
    /\ UNCHANGED <<port, recv, window>>

(* cmd_pend_count = 0, without the mutex and without notify_all.  If a     *)
(* thread is in the middle of its own += 1 or -= 1, that store may come    *)
(* last, and the 0 is lost.                                                *)
ResetCount ==
    /\ ctl = "reset"
    /\ GoOn("spawn")
    /\ \/ cmd_pend_count' = 0 /\ epoch' = epoch + 1
       \/ /\ \E c \in Calls :
               pc[c] \in {"inside"} \cup (IF WindowOpen THEN {"locking", "woken"}
                                                     ELSE {})
          /\ UNCHANGED <<cmd_pend_count, epoch>>
    /\ UNCHANGED <<connected, port, recv, pc, looked, left>>

(* A new receive thread, and 0 is returned.                                *)
Spawn ==
    /\ ctl = "spawn"
    /\ recv' = [recv EXCEPT ![Cardinality(Started) + 1] = "sleep"]
    /\ Ends("0")
    /\ UNCHANGED <<connected, port, window>>

-----------------------------------------------------------------------------
(* recv_thread_func, of which only the loop and its exceptions matter.     *)

RecvGo(r, where) == recv' = [recv EXCEPT ![r] = where]

(* while (connected), and the test of is_open_ in available(); the slip    *)
(* goes on while the port is open.                                         *)
RecvLoopWhileOpen(r) ==
    /\ recv[r] = "sleep"
    /\ RecvGo(r, IF ~connected /\ ~isOpen THEN "exited"
                 ELSE IF isOpen THEN "ioctl" ELSE "sleep")
    /\ UNCHANGED <<connected, port, control, window>>
RecvLoop(r) ==
    /\ recv[r] = "sleep"
    /\ RecvGo(r, IF ~connected THEN "exited"
                 ELSE IF isOpen THEN "ioctl" ELSE "sleep")
    /\ UNCHANGED <<connected, port, control, window>>

(* The ioctl of available(), on whatever fd_ is by now: it throws on a     *)
(* closed or hung-up descriptor.                                           *)
RecvAvailable(r) ==
    /\ recv[r] = "ioctl"
    /\ \/ fd = "live" /\ (RecvGo(r, "read") \/ RecvGo(r, "sleep"))
       \/ fd # "live" /\ RecvGo(r, "catch")
    /\ UNCHANGED <<connected, port, control, window>>

(* readline() under the read lock: a line, nothing, or an exception.       *)
RecvReadline(r) ==
    /\ recv[r] = "read"
    /\ ~PortLocked
    /\ \/ isOpen /\ fd # "dead" /\ RecvGo(r, "sleep")
       \/ (~isOpen \/ fd # "live") /\ RecvGo(r, "catch")
    /\ UNCHANGED <<connected, port, control, window>>

(* catch: connected = false, of whichever session this is by now; one slip *)
(* logs only, one leaves the loop.                                         *)
CatchLogs(r)  == RecvGo(r, "sleep") /\ UNCHANGED connected
CatchLeaves(r) == RecvGo(r, "exited") /\ UNCHANGED connected
Catch(r) == RecvGo(r, "sleep") /\ connected' = FALSE

RecvCatch(r) ==
    /\ recv[r] = "catch"
    /\ Catch(r)
    /\ UNCHANGED <<port, control, window>>

-----------------------------------------------------------------------------
(* A synchronous _send_cmd, as in SwiftCommand.                            *)

Go(t, p) == pc' = [pc EXCEPT ![t] = p]

NotifyAllAndGo(t, p) ==
    pc' = [u \in Threads |-> IF u = t THEN p
                             ELSE IF pc[u] = "waiting" THEN "woken" ELSE pc[u]]

Look(t) == looked' = [looked EXCEPT ![t] = epoch]

(* The unlocked test of connected.                                         *)
Begin(c) ==
    /\ pc[c] = "idle"
    /\ Go(c, IF connected THEN "locking" ELSE "done")
    /\ UNCHANGED <<connected, port, control, recv, cmd_pend_count, epoch, looked,
                   left>>

(* The locked section with the wait.                                       *)
Enter(c) ==
    /\ pc[c] \in {"locking", "woken"}
    /\ Look(c)
    /\ \/ WindowOpen /\ cmd_pend_count' = cmd_pend_count + 1
                      /\ NotifyAllAndGo(c, "write")
       \/ ~WindowOpen /\ Go(c, "waiting") /\ UNCHANGED cmd_pend_count
    /\ UNCHANGED <<connected, port, control, recv, epoch, left>>

(* ser.write under the write lock: it succeeds, or throws and leaves the   *)
(* call with its place in the window.                                      *)
Write(c) ==
    /\ pc[c] = "write"
    /\ ~PortLocked
    /\ \/ isOpen /\ fd # "dead" /\ Go(c, "inside") /\ UNCHANGED connected
       \/ (~isOpen \/ fd # "live") /\ Go(c, "stranded") /\ connected' = FALSE
    /\ UNCHANGED <<port, control, recv, cmd_pend_count, epoch, looked, left>>

(* The polling loop ends, with an answer or by the clock; the slip never   *)
(* lets the counter be negative.                                           *)
LeaveClamped == cmd_pend_count' = IF cmd_pend_count > 0 THEN cmd_pend_count - 1
                                  ELSE cmd_pend_count
LeaveWindow == cmd_pend_count' = cmd_pend_count - 1

Leave(c) ==
    /\ pc[c] = "inside"
    /\ LeaveWindow
    /\ left' = [left EXCEPT ![c] = epoch]
    /\ NotifyAllAndGo(c, "done")
    /\ UNCHANGED <<connected, port, control, recv, epoch, looked>>

(* flush_cmd, at the call and after each wake-up.                          *)
Flush(f) ==
    /\ pc[f] \in {"idle", "woken"}
    /\ Look(f)
    /\ Go(f, IF WindowEmpty THEN "done" ELSE "waiting")
    /\ UNCHANGED <<connected, port, control, recv, cmd_pend_count, epoch, left>>

-----------------------------------------------------------------------------
(* The arm is unplugged, which hangs up the open descriptor, and plugged   *)
(* in again.                                                               *)
Unplug ==
    /\ plugged /\ unplugs < MaxUnplugs
    /\ plugged' = FALSE
    /\ unplugs' = unplugs + 1
    /\ fd' = IF fd = "live" THEN "dead" ELSE fd
    /\ UNCHANGED <<connected, isOpen, control, recv, window>>

Plug ==
    /\ ~plugged
    /\ plugged' = TRUE
    /\ UNCHANGED <<connected, isOpen, fd, unplugs, control, recv, window>>

-----------------------------------------------------------------------------
InCall == \/ CloseFd \/ CloseFlag \/ Cut \/ Reopen \/ Reopened \/ SetBaudrate
          \/ Open \/ Opened \/ SetLines \/ ResetCount \/ Spawn
Receiver(r) == \/ RecvLoop(r) \/ RecvAvailable(r) \/ RecvReadline(r)
               \/ RecvCatch(r)
SendCmd(c)  == Enter(c) \/ Write(c) \/ Leave(c)

Next ==
    \/ Connect \/ Disconnect \/ InCall
    \/ \E r \in Receivers : Receiver(r)
    \/ \E c \in Calls : Begin(c) \/ SendCmd(c)
    \/ \E f \in Flushes : Flush(f)
    \/ Unplug \/ Plug

Spec == Init /\ [][Next]_vars

(* Threads that can run do run.  When connect() and disconnect() are       *)
(* called, when a call begins, and what becomes of the arm is open.        *)
Fairness ==
    /\ WF_vars(InCall)
    /\ \A r \in Receivers : WF_vars(Receiver(r))
    /\ \A c \in Calls : WF_vars(SendCmd(c))
    /\ \A f \in Flushes : WF_vars(pc[f] = "woken" /\ Flush(f))

LiveSpec == Spec /\ Fairness

-----------------------------------------------------------------------------
(* The properties.                                                         *)

(* Every variable has its type.                                            *)
TypeOK ==
    /\ connected \in BOOLEAN /\ isOpen \in BOOLEAN /\ plugged \in BOOLEAN
    /\ cmd_pend_count \in Int
    /\ fd \in {"none", "live", "dead"}
    /\ unplugs \in Nat
    /\ ctl \in {"idle", "close", "closing", "cut", "reopen", "reopened",
                "baudrate", "open", "opened", "lines", "reset", "spawn"}
    /\ op \in {"none", "connect", "disconnect"}
    /\ outcome \in {"none", "0", "-1", "exception", "disconnected"}
    /\ recv \in [Receivers -> {"none", "sleep", "ioctl", "read", "catch",
                               "exited"}]
    /\ pc \in [Threads -> {"idle", "locking", "waiting", "woken", "write",
                           "inside", "stranded", "done"}]
    /\ epoch \in Nat \ {0}
    /\ looked \in [Threads -> 0 .. epoch]
    /\ left \in [Calls -> 0 .. epoch]

(* The calls in the window that the counter knows of, and those that have  *)
(* left it since the last reset although they entered before.              *)
Counted   == {c \in Calls : /\ pc[c] \in {"write", "inside", "stranded"}
                            /\ looked[c] = epoch}
LeftTwice == {c \in Calls : left[c] = epoch /\ looked[c] < epoch}

(* After every reconnection the counter is the number of calls of the new  *)
(* session in the window, less one for every call of an earlier session    *)
(* that has left it since: this is all the damage the reset does.          *)
SessionAccounting ==
    cmd_pend_count = Cardinality(Counted) - Cardinality(LeftTwice)

(* The counter never exceeds cmd_pend_size, and is at most as far below 0  *)
(* as there are calls of earlier sessions, however often it is reset and   *)
(* whenever resets are lost.                                               *)
CounterBounded == cmd_pend_count \in -Cardinality(Calls) .. CmdPendSize

(* A thread that sleeps although its predicate is true went to sleep       *)
(* before a reset: no other step misses a notification.                    *)
SleptBeforeReset ==
    /\ \A c \in Calls : pc[c] = "waiting" /\ WindowOpen => looked[c] < epoch
    /\ \A f \in Flushes : pc[f] = "waiting" /\ WindowEmpty => looked[f] < epoch

(* While no connect() is under way, a connected object has a thread that   *)
(* reads, however stale threads and failures interleave with connections.  *)
ReceiverServes == connected /\ ctl = "idle" => Running # {}

(* What a return of connect() or disconnect() says still holds when the    *)
(* next one begins: disconnected is disconnected and closed, failed is not *)
(* connected, and a connected object has an open port unless a call ended  *)
(* with an exception.                                                      *)
SessionState ==
    ctl = "idle" =>
        /\ outcome = "disconnected" => ~connected /\ ~isOpen
        /\ outcome = "-1" => ~connected
        /\ connected /\ outcome # "exception" => isOpen

(* A link failure is noticed: unless somebody calls connect() or           *)
(* disconnect(), the receive thread takes the session down.                *)
FailureNoticed ==
    (connected /\ isOpen /\ fd = "dead") ~> (~connected \/ ctl # "idle")

(* When connections stop, the receive threads of all sessions end.         *)
ReceiversEnd ==
    <>[](ctl = "idle" /\ ~connected) => <>[](Running = {})

-----------------------------------------------------------------------------
(* What holds in every reachable state and makes the properties inductive. *)

(* Where connect() and disconnect() are tells which of the two it is and   *)
(* whether is_open_ is set; there is a receiver to start.                  *)
PhaseInv ==
    /\ ctl \in {"close", "closing"} => op # "none" /\ isOpen
    /\ ctl = "cut" => ~isOpen
    /\ ctl \in {"reopen", "reopened", "opened"} => op = "connect" /\ ~isOpen
    /\ ctl \in {"baudrate", "lines", "reset", "spawn"} =>
         op = "connect" /\ isOpen
    /\ ctl = "open" => op = "connect"
    /\ ctl # "idle" /\ op = "connect" => Cardinality(Started) < MaxConnects

(* A call that has not left the window has not left it.                    *)
LeftInv == \A c \in Calls : pc[c] # "done" => left[c] = 0

(* Outside the last steps of connect(), a connected object has a receiver. *)
ServedInv == connected /\ ctl \notin {"reset", "spawn"} => Running # {}

SessionInv ==
    /\ TypeOK
    /\ PhaseInv
    /\ LeftInv
    /\ ServedInv
    /\ SessionState
    /\ SessionAccounting
    /\ cmd_pend_count <= CmdPendSize

-----------------------------------------------------------------------------
(* What uarm.h says and this code does not do.                             *)

(* "0 if connect success": after a 0 the object stays connected until the  *)
(* link fails or somebody disconnects or connects again.                   *)
StaysConnected ==
    [][connected /\ ctl = "idle" /\ outcome = "0" /\ fd = "live"
         => connected']_vars
===============================================================================

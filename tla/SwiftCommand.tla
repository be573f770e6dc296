----------------------------- MODULE SwiftCommand -----------------------------
(***************************************************************************)
(* The command channel of uarm::Swift (src/src/uarm.cc): application       *)
(* threads call _send_cmd and flush_cmd, the detached receive thread hands *)
(* each reply to a sleeping caller or to a callback, and one detached      *)
(* timer thread per asynchronous command calls the callback with TIMEOUT   *)
(* when nothing came.  They share the tables result[] and callbacks[], the *)
(* id counter cnt, the window counter cmd_pend_count and one monitor       *)
(* (mutex, cmd_cond).                                                      *)
(*                                                                         *)
(* One session is modelled: connect() has returned 0, the link may fail,   *)
(* and nobody connects again.                                              *)
(*                                                                         *)
(* A call of _send_cmd is identified by an element of Calls.  The answer   *)
(* of the arm to call c is written c as well: it carries the id of c, and  *)
(* of its text the properties only need to know whose answer it is.        *)
(***************************************************************************)
EXTENDS Integers, FiniteSets

CONSTANTS
    SyncCalls,      \* calls with wait = true
    CallbackCalls,  \* calls with wait = false and a callback
    BareCalls,      \* calls with wait = false and callback = NULL
    Flushes,        \* calls of flush_cmd
    MaxCnt,         \* MAX_CNT: ids are 1 .. MaxCnt - 1
    CmdPendSize,    \* cmd_pend_size, the width of the window
    NULL            \* no callback, no result, nothing received

Calls   == SyncCalls \cup CallbackCalls \cup BareCalls
Threads == Calls \cup Flushes
Ids     == 1 .. (MaxCnt - 1)

(* What _send_cmd returns besides the answer itself.                       *)
Outcomes == {"ok", "TIMEOUT", "NotConnected", "Exception"}

ASSUME KindsAssumption ==
    /\ SyncCalls \cap CallbackCalls = {}
    /\ SyncCalls \cap BareCalls = {}
    /\ CallbackCalls \cap BareCalls = {}
    /\ Flushes \cap Calls = {}
    /\ IsFiniteSet(Calls)

ASSUME NullAssumption ==
    /\ NULL \notin Threads \cup Outcomes
    /\ Outcomes \cap Calls = {}

ASSUME SizeAssumption ==
    /\ MaxCnt \in Nat /\ MaxCnt >= 2
    /\ CmdPendSize \in Nat \ {0}

VARIABLES
    connected,      \* Swift::connected
    cnt,            \* Swift::cnt, the next id
    cmd_pend_count, \* Swift::cmd_pend_count
    result,         \* Swift::result, per id the answer stored there
    callbacks,      \* Swift::callbacks, per id the call whose callback it is
    pc,             \* where each application thread is
    id,             \* the local _cnt of each call, 0 before it has one
    returned,       \* what each call returned
    timer,          \* the AsyncWait thread that runs _timeout_callback
    recv,           \* where the receive thread is in its loop
    hand,           \* the answer in the reply line it is working on
    claimed,        \* the calls whose answer took the locked section of recv
    handlers,       \* the AsyncWait(0, callback, result) threads not yet run
    invoked,        \* with which results each callback has been called
    sent,           \* commands written to the port, not yet executed
    executed,       \* commands the arm has executed
    answers,        \* answers of the arm, not yet read
    linkUp,         \* the port is open and the arm is there
    aborted         \* a detached thread threw: std::terminate

locals == <<pc, id, returned>>
rx     == <<recv, hand, claimed, handlers>>
told   == <<invoked, aborted>>
arm    == <<sent, executed, answers, linkUp>>
vars   == <<connected, cnt, cmd_pend_count, result, callbacks, locals, timer,
            rx, told, arm>>

PcSet    == {"idle", "locking", "waiting", "woken", "admitted", "bare",
             "write", "poll", "returning", "done"}
TimerSet == {"none", "sleeping", "checked", "calling", "called", "skipped"}
RecvSet  == {"reading", "line", "claiming"}

(* The constructor has run and connect() has returned 0.                   *)
Init ==
    /\ connected = TRUE
    /\ cnt = 1
    /\ cmd_pend_count = 0
    /\ result = [i \in Ids |-> NULL]
    /\ callbacks = [i \in Ids |-> NULL]
    /\ pc = [t \in Threads |-> "idle"]
    /\ id = [c \in Calls |-> 0]
    /\ returned = [c \in Calls |-> NULL]
    /\ timer = [c \in CallbackCalls |-> "none"]
    /\ recv = "reading"
    /\ hand = NULL
    /\ claimed = {}
    /\ handlers = {}
    /\ invoked = [c \in CallbackCalls |-> {}]
    /\ sent = {}
    /\ executed = {}
    /\ answers = {}
    /\ linkUp = TRUE
    /\ aborted = FALSE

-----------------------------------------------------------------------------
(* The monitor.  A critical section of mutex is one action; a thread that  *)
(* finds its predicate false is "waiting" until notify_all makes it        *)
(* "woken", and a woken thread takes the lock again and re-evaluates.      *)

Go(t, p) == pc' = [pc EXCEPT ![t] = p]

(* notify_all by thread t, which goes on to p.                             *)
NotifyAllAndGo(t, p) ==
    pc' = [u \in Threads |-> IF u = t THEN p
                             ELSE IF pc[u] = "waiting" THEN "woken" ELSE pc[u]]

(* notify_all by a thread that is not in the application; forgotten in     *)
(* NotifyNobody.                                                           *)
NotifyNobody == UNCHANGED pc
NotifyAll ==
    pc' = [u \in Threads |-> IF pc[u] = "waiting" THEN "woken" ELSE pc[u]]

(* cmd_pend_count -= 1, and a form that never lets it be negative.         *)
LeaveClamped == cmd_pend_count' = IF cmd_pend_count > 0 THEN cmd_pend_count - 1
                                  ELSE cmd_pend_count
LeaveWindow == cmd_pend_count' = cmd_pend_count - 1

(* The predicates of the two waits, and two slips.                         *)
WindowAlmostOpen == cmd_pend_count <= CmdPendSize
WindowOpen  == cmd_pend_count < CmdPendSize
WindowEmpty == cmd_pend_count = 0

(* cmd_cond.wait(WindowOpen); cmd_pend_count += 1; notify_all.             *)
EnterWindow(c) ==
    \/ /\ WindowOpen
       /\ cmd_pend_count' = cmd_pend_count + 1
       /\ NotifyAllAndGo(c, "admitted")
    \/ /\ ~WindowOpen
       /\ Go(c, "waiting")
       /\ UNCHANGED cmd_pend_count

-----------------------------------------------------------------------------
(* The tables, and for each access a slip.                                 *)

(* if (cnt >= MAX_CNT) cnt = 1; int _cnt = cnt.                            *)
NextIdLate == IF cnt > MaxCnt THEN 1 ELSE cnt
NextId     == IF cnt >= MaxCnt THEN 1 ELSE cnt

KeepResult(c)  == UNCHANGED result
ClearResult(c) == result' = [result EXCEPT ![id[c]] = NULL]

(* The slip reads the shared counter in place of the local _cnt.           *)
StoreUnderCnt(c) ==
    callbacks' = [callbacks EXCEPT ![IF cnt = 1 THEN 1 ELSE cnt - 1] = c]
StoreCallback(c) == callbacks' = [callbacks EXCEPT ![id[c]] = c]

KeepCallback(c) == UNCHANGED callbacks
DropCallback(c) == callbacks' = [callbacks EXCEPT ![id[c]] = NULL]

-----------------------------------------------------------------------------
(* _send_cmd, in the calling thread.                                       *)

(* The unlocked test of connected.                                         *)
Begin(c) ==
    /\ pc[c] = "idle"
    /\ \/ /\ connected
          /\ Go(c, "locking")
          /\ UNCHANGED returned
       \/ /\ ~connected
          /\ Go(c, "done")
          /\ returned' = [returned EXCEPT ![c] = "NotConnected"]
    /\ UNCHANGED <<connected, cnt, cmd_pend_count, result, callbacks, id,
                   timer, rx, told, arm>>

(* The first locked section up to the wait: the id is taken before the     *)
(* window is entered.                                                      *)
TakeId(c) ==
    /\ pc[c] = "locking"
    /\ id' = [id EXCEPT ![c] = NextId]
    /\ cnt' = NextId + 1
    /\ EnterWindow(c)
    /\ UNCHANGED <<connected, result, callbacks, returned, timer, rx, told,
                   arm>>

(* A caller woken in cmd_cond.wait evaluates the predicate again.          *)
Reenter(c) ==
    /\ pc[c] = "woken"
    /\ EnterWindow(c)
    /\ UNCHANGED <<connected, cnt, result, callbacks, id, returned, timer, rx,
                   told, arm>>

(* result[_cnt] = "", and for an asynchronous call callbacks[_cnt] =       *)
(* callback and, when there is one, the timer thread is started; all       *)
(* outside the lock, and one step because nobody else touches the entries  *)
(* of a fresh id (NoOverrun).                                              *)
Prepare(c) ==
    /\ pc[c] = "admitted"
    /\ ClearResult(c)
    /\ \/ /\ c \in SyncCalls
          /\ Go(c, "write")
          /\ UNCHANGED <<callbacks, timer>>
       \/ /\ c \in CallbackCalls
          /\ StoreCallback(c)
          /\ timer' = [timer EXCEPT ![c] = "sleeping"]
          /\ Go(c, "write")
       \/ /\ c \in BareCalls
          /\ DropCallback(c)
          /\ Go(c, "bare")
          /\ UNCHANGED timer
    /\ UNCHANGED <<connected, cnt, cmd_pend_count, id, returned, rx, told,
                   arm>>

(* A call without callback leaves the window before it writes.             *)
ReleaseBare(c) ==
    /\ pc[c] = "bare"
    /\ DropCallback(c)
    /\ LeaveWindow
    /\ NotifyAllAndGo(c, "write")
    /\ UNCHANGED <<connected, cnt, result, id, returned, timer, rx, told, arm>>

(* ser.write succeeds (or writes only a part: the count is ignored, and    *)
(* Lose takes the command away).  An asynchronous call returns "ok".       *)
Write(c) ==
    /\ pc[c] = "write"
    /\ linkUp
    /\ sent' = sent \cup {c}
    /\ \/ /\ c \in SyncCalls
          /\ Go(c, "poll")
          /\ UNCHANGED returned
       \/ /\ c \notin SyncCalls
          /\ Go(c, "done")
          /\ returned' = [returned EXCEPT ![c] = "ok"]
    /\ UNCHANGED <<connected, cnt, cmd_pend_count, result, callbacks, id,
                   timer, rx, told, executed, answers, linkUp>>

(* ser.write throws: the call gives up and keeps its place in the window.  *)
WriteThrows(c) ==
    /\ pc[c] = "write"
    /\ ~linkUp
    /\ connected' = FALSE
    /\ Go(c, "done")
    /\ returned' = [returned EXCEPT ![c] = "Exception"]
    /\ UNCHANGED <<cnt, cmd_pend_count, result, callbacks, id, timer, rx, told,
                   arm>>

(* The polling loop of a synchronous call finds result[_cnt] non-empty and *)
(* leaves the window ...                                                   *)
PollHit(c) ==
    /\ pc[c] = "poll"
    /\ result[id[c]] # NULL
    /\ LeaveWindow
    /\ NotifyAllAndGo(c, "returning")
    /\ UNCHANGED <<connected, cnt, result, callbacks, id, returned, timer, rx,
                   told, arm>>

(* ... and only after the unlock reads result[_cnt] to return it.          *)
PollReturn(c) ==
    /\ pc[c] = "returning"
    /\ returned' = [returned EXCEPT ![c] = result[id[c]]]
    /\ Go(c, "done")
    /\ UNCHANGED <<connected, cnt, cmd_pend_count, result, callbacks, id,
                   timer, rx, told, arm>>

(* The loop ends by the clock, whatever result[_cnt] holds by then.        *)
PollTimeout(c) ==
    /\ pc[c] = "poll"
    /\ LeaveWindow
    /\ NotifyAllAndGo(c, "done")
    /\ returned' = [returned EXCEPT ![c] = "TIMEOUT"]
    /\ UNCHANGED <<connected, cnt, result, callbacks, id, timer, rx, told,
                   arm>>

-----------------------------------------------------------------------------
(* _timeout_callback, in the timer thread of a callback call.              *)

(* The time is over: the unlocked test of callbacks[_cnt].                 *)
TimerCheck(c) ==
    /\ timer[c] = "sleeping"
    /\ timer' = [timer EXCEPT
          ![c] = IF callbacks[id[c]] # NULL THEN "checked" ELSE "skipped"]
    /\ UNCHANGED <<connected, cnt, cmd_pend_count, result, callbacks, locals,
                   rx, told, arm>>

(* The locked section, which does not look at callbacks[_cnt] again.       *)
TimerRelease(c) ==
    /\ timer[c] = "checked"
    /\ timer' = [timer EXCEPT ![c] = "calling"]
    /\ DropCallback(c)
    /\ LeaveWindow
    /\ NotifyAll
    /\ UNCHANGED <<connected, cnt, result, id, returned, rx, told, arm>>

(* callback("TIMEOUT"), with the callback the lambda captured.             *)
TimerCall(c) ==
    /\ timer[c] = "calling"
    /\ timer' = [timer EXCEPT ![c] = "called"]
    /\ invoked' = [invoked EXCEPT ![c] = @ \cup {"TIMEOUT"}]
    /\ UNCHANGED <<connected, cnt, cmd_pend_count, result, callbacks, locals,
                   rx, aborted, arm>>

-----------------------------------------------------------------------------
(* recv_thread_func, the '$' branch, and the threads it starts.            *)

(* One reply line "$<id> <answer>" is read.                                *)
RecvRead(c) ==
    /\ recv = "reading"
    /\ connected /\ linkUp
    /\ c \in answers
    /\ answers' = answers \ {c}
    /\ hand' = c
    /\ recv' = "line"
    /\ UNCHANGED <<connected, cnt, cmd_pend_count, result, callbacks, locals,
                   timer, claimed, handlers, told, sent, executed, linkUp>>

(* The unlocked test of callbacks[cnt] decides between the callback and    *)
(* the sleeping caller.                                                    *)
RecvDispatch ==
    /\ recv = "line"
    /\ \/ /\ callbacks[id[hand]] # NULL
          /\ recv' = "claiming"
          /\ UNCHANGED <<result, hand>>
       \/ /\ callbacks[id[hand]] = NULL
          /\ result' = [result EXCEPT ![id[hand]] = hand]
          /\ recv' = "reading"
          /\ hand' = NULL
    /\ UNCHANGED <<connected, cnt, cmd_pend_count, callbacks, locals, timer,
                   claimed, handlers, told, arm>>

(* The locked section: take callbacks[cnt] out, leave the window, and let  *)
(* a new thread call what was taken out.                                   *)
RecvClaim ==
    /\ recv = "claiming"
    /\ handlers' = handlers \cup {[fn |-> callbacks[id[hand]], arg |-> hand]}
    /\ DropCallback(hand)
    /\ LeaveWindow
    /\ NotifyAll
    /\ claimed' = claimed \cup {hand}
    /\ recv' = "reading"
    /\ hand' = NULL
    /\ UNCHANGED <<connected, cnt, result, id, returned, timer, told, arm>>

(* available() or readline() throws: the thread gives the session up.      *)
RecvThrows ==
    /\ recv = "reading"
    /\ connected /\ ~linkUp
    /\ connected' = FALSE
    /\ UNCHANGED <<cnt, cmd_pend_count, result, callbacks, locals, timer, rx,
                   told, arm>>

(* A thread started by the receiver runs: an empty std::function throws    *)
(* std::bad_function_call, which nobody catches.                           *)
RunHandler(h) ==
    /\ handlers' = handlers \ {h}
    /\ \/ /\ h.fn # NULL
          /\ invoked' = [invoked EXCEPT ![h.fn] = @ \cup {h.arg}]
          /\ UNCHANGED aborted
       \/ /\ h.fn = NULL
          /\ aborted' = TRUE
          /\ UNCHANGED invoked
    /\ UNCHANGED <<connected, cnt, cmd_pend_count, result, callbacks, locals,
                   timer, recv, hand, claimed, arm>>

-----------------------------------------------------------------------------
(* flush_cmd.                                                              *)

(* cmd_cond.wait(cmd_pend_count == 0), at the call and after each wake-up. *)
Flush(f) ==
    /\ pc[f] \in {"idle", "woken"}
    /\ Go(f, IF WindowEmpty THEN "done" ELSE "waiting")
    /\ UNCHANGED <<connected, cnt, cmd_pend_count, result, callbacks, id,
                   returned, timer, rx, told, arm>>

-----------------------------------------------------------------------------
(* The arm and the line.                                                   *)

(* The arm executes a command and answers with the id it came with, in any *)
(* order and after any delay.                                              *)
Answer(c) ==
    /\ c \in sent
    /\ sent' = sent \ {c}
    /\ executed' = executed \cup {c}
    /\ answers' = answers \cup {c}
    /\ UNCHANGED <<connected, cnt, cmd_pend_count, result, callbacks, locals,
                   timer, rx, told, linkUp>>

(* A command is cut short by the write timeout, or a reply line is cut by  *)
(* the read timeout or does not parse: it is gone.                         *)
Lose(c) ==
    /\ c \in sent \cup answers
    /\ sent' = sent \ {c}
    /\ answers' = answers \ {c}
    /\ UNCHANGED <<connected, cnt, cmd_pend_count, result, callbacks, locals,
                   timer, rx, told, executed, linkUp>>

(* disconnect(), after it has closed the port (LinkFails).                 *)
Disconnect ==
    /\ connected /\ ~linkUp
    /\ connected' = FALSE
    /\ UNCHANGED <<cnt, cmd_pend_count, result, callbacks, locals, timer, rx,
                   told, arm>>

(* The arm is unplugged, or disconnect() closes the port.                  *)
LinkFails ==
    /\ linkUp
    /\ linkUp' = FALSE
    /\ UNCHANGED <<connected, cnt, cmd_pend_count, result, callbacks, locals,
                   timer, rx, told, sent, executed, answers>>

-----------------------------------------------------------------------------
SendCmd(c) == \/ Begin(c) \/ TakeId(c) \/ Reenter(c) \/ Prepare(c)
              \/ ReleaseBare(c) \/ Write(c) \/ WriteThrows(c)
              \/ PollHit(c) \/ PollReturn(c) \/ PollTimeout(c)
Timer(c)   == TimerCheck(c) \/ TimerRelease(c) \/ TimerCall(c)
Recv       == \/ \E c \in answers : RecvRead(c)
              \/ RecvDispatch \/ RecvClaim \/ RecvThrows
Device     == \/ \E c \in Calls : Answer(c) \/ Lose(c)
              \/ LinkFails \/ Disconnect

Next ==
    /\ ~aborted
    /\ \/ \E c \in Calls : SendCmd(c)
       \/ \E c \in CallbackCalls : Timer(c)
       \/ Recv
       \/ \E h \in handlers : RunHandler(h)
       \/ \E f \in Flushes : Flush(f)
       \/ Device

(* A call is over when its thread has returned, its timer thread has       *)
(* ended, and neither the command nor its answer is still on the way.      *)
Live(c) ==
    /\ id[c] # 0
    /\ \/ pc[c] # "done"
       \/ c \in sent \cup answers
       \/ hand = c
       \/ c \in CallbackCalls /\ timer[c] \in {"sleeping", "checked"}

(* The assumption on the environment: by the time the ids have gone round  *)
(* (9999 commands) the previous holder of an id is over.                   *)
NoOverrun ==
    \A c, d \in Calls : Live(c) /\ Live(d) /\ id[c] = id[d] => c = d

Spec == Init /\ [][Next /\ NoOverrun']_vars

(* The operating system runs every thread that can run, and clocks go on.  *)
(* The arm, the line and the start of a call owe nothing.                  *)
Fairness ==
    /\ \A c \in Calls :
         /\ WF_vars(~aborted /\ TakeId(c))
         /\ WF_vars(~aborted /\ Reenter(c))
         /\ WF_vars(~aborted /\ Prepare(c))
         /\ WF_vars(~aborted /\ ReleaseBare(c))
         /\ WF_vars(~aborted /\ (Write(c) \/ WriteThrows(c)))
         /\ WF_vars(~aborted /\ (PollHit(c) \/ PollTimeout(c)))
         /\ WF_vars(~aborted /\ PollReturn(c))
    /\ \A c \in CallbackCalls : WF_vars(~aborted /\ Timer(c))
    /\ WF_vars(~aborted /\ Recv)
    /\ WF_vars(~aborted /\ \E h \in handlers : RunHandler(h))
    /\ \A f \in Flushes : WF_vars(~aborted /\ pc[f] = "woken" /\ Flush(f))

LiveSpec == Init /\ [][Next]_vars /\ Fairness

-----------------------------------------------------------------------------
(* The properties.                                                         *)

(* Every variable has its type; the ids stay inside the two tables.        *)
TypeOK ==
    /\ connected \in BOOLEAN /\ linkUp \in BOOLEAN /\ aborted \in BOOLEAN
    /\ cnt \in 1 .. MaxCnt
    /\ cmd_pend_count \in Int
    /\ result \in [Ids -> Calls \cup {NULL}]
    /\ callbacks \in [Ids -> CallbackCalls \cup {NULL}]
    /\ pc \in [Threads -> PcSet]
    /\ id \in [Calls -> Ids \cup {0}]
    /\ returned \in [Calls -> Outcomes \cup Calls \cup {NULL}]
    /\ timer \in [CallbackCalls -> TimerSet]
    /\ recv \in RecvSet
    /\ hand \in Calls \cup {NULL}
    /\ claimed \subseteq Calls
    /\ handlers \subseteq [fn : CallbackCalls \cup {NULL}, arg : Calls]
    /\ invoked \in [CallbackCalls -> SUBSET (Calls \cup {"TIMEOUT"})]
    /\ sent \subseteq Calls
    /\ executed \subseteq Calls
    /\ answers \subseteq Calls

(* The calls that hold a place in the window: a synchronous call until it  *)
(* leaves its polling loop, and for ever if its write threw; a callback    *)
(* call until its timer or its answer takes the callback out.              *)
Holding ==
    {c \in SyncCalls : \/ pc[c] \in {"admitted", "write", "poll"}
                       \/ returned[c] = "Exception"}
    \cup {c \in BareCalls : pc[c] \in {"admitted", "bare"}}
    \cup {c \in CallbackCalls :
            \/ pc[c] = "admitted"
            \/ timer[c] \in {"sleeping", "checked"} /\ c \notin claimed}

(* The callback calls both their timer and their answer have released.     *)
DoublyReleased ==
    {c \in CallbackCalls : c \in claimed /\ timer[c] \in {"calling", "called"}}

(* The counter is the number of places held less one for every call that   *)
(* the check-then-lock race between timer and receiver released twice: no  *)
(* other interleaving of the five places that write it loses a decrement   *)
(* or does one too many.                                                   *)
PendAccounting ==
    cmd_pend_count = Cardinality(Holding) - Cardinality(DoublyReleased)

(* No more than cmd_pend_size calls are in the window, one more for every  *)
(* double release.                                                         *)
WindowHolds ==
    Cardinality(Holding) <= CmdPendSize + Cardinality(DoublyReleased)

(* A thread sleeps in cmd_cond only while its predicate is false: no exit  *)
(* from the window and no entry to it misses a notification.               *)
NoLostWakeup ==
    /\ \A c \in Calls : pc[c] = "waiting" => cmd_pend_count >= CmdPendSize
    /\ \A f \in Flushes : pc[f] = "waiting" => cmd_pend_count # 0

(* Nobody sleeps in cmd_cond for nothing: somebody who has a step to take  *)
(* will leave the window, unless a write has stranded a place in it or,    *)
(* for flush_cmd, a call was released twice.                               *)
WillLeave(c) ==
    \/ c \in SyncCalls /\ pc[c] \in {"admitted", "write", "poll"}
    \/ c \in BareCalls /\ pc[c] \in {"admitted", "bare"}
    \/ /\ c \in CallbackCalls
       /\ pc[c] = "admitted" \/ timer[c] \in {"sleeping", "checked"}

SleepersDepend ==
    \A t \in Threads : pc[t] = "waiting" =>
        \/ \E c \in Calls \ {t} : WillLeave(c) \/ returned[c] = "Exception"
        \/ t \in Flushes /\ DoublyReleased # {}

(* Each registered callback is accounted for: still in the table under the *)
(* id of its call, in the hands of its timer or of a handler thread, or    *)
(* called.                                                                 *)
CallbackNotLost ==
    \A c \in CallbackCalls : timer[c] # "none" =>
        \/ callbacks[id[c]] = c
        \/ timer[c] = "calling"
        \/ \E h \in handlers : h.fn = c
        \/ invoked[c] # {}

(* A flush_cmd that returns has seen every place in the window given up,   *)
(* provided no call was released twice.                                    *)
FlushCovers ==
    [][\A f \in Flushes :
         pc[f] # "done" /\ pc'[f] = "done" /\ DoublyReleased = {}
           => Holding = {}]_vars

(* What the application sees of the channel is a CommandPromise: ids that  *)
(* are used again and tables that keep old entries never hand one command  *)
(* the answer of another.                                                  *)
Promise == INSTANCE CommandPromise WITH outcome <- returned, told <- invoked

KeepsPromise == Promise!Spec

(* While the link holds, every call of _send_cmd that was begun returns:   *)
(* neither the window nor the condition variable strands a caller.         *)
CallsReturn ==
    [](linkUp) => \A c \in Calls :
        pc[c] = "locking" ~> (pc[c] = "done" \/ aborted)

(* Every registered callback is called, whatever the link, the arm, the    *)
(* timer and the receive thread do, unless the process has died.           *)
CallbackRuns ==
    \A c \in CallbackCalls :
        timer[c] = "sleeping" ~> (invoked[c] # {} \/ aborted)

(* While the link holds and no call is released twice, flush_cmd returns.  *)
FlushReturns ==
    [](linkUp /\ DoublyReleased = {}) =>
        \A f \in Flushes : pc[f] = "waiting" ~> pc[f] = "done"

-----------------------------------------------------------------------------
(* What the comments of uarm.h say and this code does not do.              *)

(* "return: the execute result or TIMEOUT or NotConnected or Exception":   *)
(* a call of _send_cmd returns, with or without the link.                  *)
CallsEnd == \A c \in Calls : pc[c] = "locking" ~> (pc[c] = "done" \/ aborted)

(* "callback: a function pointer to handle the execute result": the        *)
(* receiver hands every result it claims to a callback.                    *)
ReceiverHasCallback == \A h \in handlers : h.fn # NULL

-----------------------------------------------------------------------------
(* What holds in every reachable state and makes the properties inductive. *)

Unwritten == {"idle", "locking", "waiting", "woken", "admitted", "bare",
              "write"}

(* The message of call c, command or answer, is somewhere.                 *)
InFlight(c) == c \in sent \/ c \in answers \/ hand = c

(* A call has returned nothing before it is over; before its write there   *)
(* is no message of it, and its message is never in two places.            *)
MessagesInv ==
    \A c \in Calls :
        /\ pc[c] # "done" => returned[c] = NULL
        /\ pc[c] \in Unwritten => ~InFlight(c) /\ c \notin claimed
        /\ c \in sent => c \notin answers /\ hand # c
        /\ c \in answers => hand # c
        /\ InFlight(c) => c \notin claimed

(* Each kind of call keeps to its own branch; whoever can still touch the  *)
(* tables has an id; the timer starts after the window and before the      *)
(* write, and only then there is a message.                                *)
IdsInv ==
    /\ \A c \in Calls :
         /\ pc[c] = "bare" => c \in BareCalls
         /\ pc[c] \in {"poll", "returning"} => c \in SyncCalls
         /\ pc[c] \notin {"idle", "locking", "done"} => id[c] # 0
         /\ InFlight(c) => id[c] # 0
    /\ \A c \in CallbackCalls :
         /\ pc[c] \in {"idle", "locking", "waiting", "woken", "admitted"}
              => timer[c] = "none"
         /\ pc[c] = "write" => timer[c] # "none"
         /\ InFlight(c) \/ c \in claimed => timer[c] # "none"
         /\ timer[c] # "none" => id[c] # 0

(* callbacks[] holds exactly the callbacks of the calls whose timer has    *)
(* not ended and whose answer has not claimed it, each under its id.       *)
TableInv ==
    /\ \A i \in Ids : callbacks[i] # NULL =>
         /\ id[callbacks[i]] = i
         /\ timer[callbacks[i]] \in {"sleeping", "checked"}
    /\ \A c \in CallbackCalls :
         /\ timer[c] \in {"sleeping", "checked"} /\ c \notin claimed
              => callbacks[id[c]] = c
         /\ timer[c] = "skipped" => c \in claimed

(* Between its test of callbacks[] and its locked section the receiver     *)
(* works on the answer to a callback call.                                 *)
ReceiverInv ==
    /\ hand = NULL <=> recv = "reading"
    /\ recv = "claiming" => hand \in CallbackCalls

CommandInv ==
    /\ TypeOK
    /\ NoOverrun
    /\ MessagesInv
    /\ IdsInv
    /\ TableInv
    /\ ReceiverInv
    /\ PendAccounting

(* A command is executed after its write and once; answers are answers to  *)
(* executed commands; a refused command was not sent.                      *)
ExecutedInv ==
    \A c \in Calls :
        /\ pc[c] \in Unwritten \/ c \in sent => c \notin executed
        /\ c \in answers \/ hand = c \/ c \in claimed => c \in executed
        /\ c \in sent \cup executed
             => returned[c] \notin {"NotConnected", "Exception"}

(* result[] holds answers, and under the id of a call that waits for its   *)
(* answer no other.                                                        *)
ResultInv ==
    /\ \A i \in Ids : result[i] \in executed \cup {NULL}
    /\ \A c \in Calls :
         /\ pc[c] \in {"bare", "write", "poll"} => result[id[c]] \in {NULL, c}
         /\ pc[c] = "returning" => result[id[c]] = c

(* Handler threads and callbacks deal with the answer of their own call,   *)
(* once.                                                                   *)
ToldInv ==
    /\ claimed \subseteq CallbackCalls
    /\ \A c \in CallbackCalls :
         /\ returned[c] = "NotConnected" => timer[c] = "none"
         /\ invoked[c] \subseteq {"TIMEOUT", c}
         /\ "TIMEOUT" \in invoked[c] => timer[c] = "called"
         /\ c \in invoked[c] => c \in claimed
    /\ \A h \in handlers :
         /\ h.arg \in claimed
         /\ h.fn \in {NULL, h.arg}
         /\ h.arg \notin invoked[h.arg]
         /\ \A g \in handlers : g.arg = h.arg => g = h

PromiseInv == ExecutedInv /\ ResultInv /\ ToldInv
===============================================================================

-------------------------- MODULE SwiftCommandProofs --------------------------
(* Theorems about SwiftCommand for every number of calls, every MAX_CNT     *)
(* and every width of the window.                                           *)
EXTENDS SwiftCommand, FiniteSetTheorems, TLAPS

USE DEF Calls, Threads, Ids, Outcomes, PcSet, TimerSet, RecvSet

(* Every step keeps the types.  The ids are valid wherever a table is       *)
(* indexed, which is why IdsInv is among the hypotheses.                    *)
LEMMA TypeStep ==
    CommandInv /\ [Next /\ NoOverrun']_vars => TypeOK'
<1> SUFFICES ASSUME CommandInv, [Next /\ NoOverrun']_vars
             PROVE  TypeOK'
    OBVIOUS
<1>0. TypeOK /\ IdsInv /\ ReceiverInv
    BY DEF CommandInv
<1>1. ASSUME NEW c \in Calls, Begin(c) PROVE TypeOK'
    BY <1>0, <1>1 DEF TypeOK, Begin, Go, locals, rx, told, arm
<1>2. ASSUME NEW c \in Calls, TakeId(c) PROVE TypeOK'
    <2>1. NextId \in Ids /\ NextId + 1 \in 1 .. MaxCnt
        BY <1>0, SizeAssumption DEF TypeOK, NextId
    <2> QED
        BY <1>0, <1>2, <2>1
        DEF TypeOK, TakeId, EnterWindow, NotifyAllAndGo, Go, rx, told, arm
<1>3. ASSUME NEW c \in Calls, Reenter(c) PROVE TypeOK'
    BY <1>0, <1>3
    DEF TypeOK, Reenter, EnterWindow, NotifyAllAndGo, Go, rx, told, arm
<1>4. ASSUME NEW c \in Calls, Prepare(c) PROVE TypeOK'
    <2>1. result' \in [Ids -> Calls \cup {NULL}]
        BY <1>0, <1>4 DEF TypeOK, Prepare, ClearResult
    <2>2. callbacks' \in [Ids -> CallbackCalls \cup {NULL}]
        BY <1>0, <1>4 DEF TypeOK, Prepare, StoreCallback, DropCallback
    <2>3. pc' \in [Threads -> PcSet] /\ timer' \in [CallbackCalls -> TimerSet]
        BY <1>0, <1>4 DEF TypeOK, Prepare, Go
    <2> QED
        BY <1>0, <1>4, <2>1, <2>2, <2>3 DEF TypeOK, Prepare, rx, told, arm
<1>5. ASSUME NEW c \in Calls, ReleaseBare(c) PROVE TypeOK'
    <2>1. callbacks' \in [Ids -> CallbackCalls \cup {NULL}]
        BY <1>0, <1>5 DEF TypeOK, ReleaseBare, DropCallback
    <2>2. pc' \in [Threads -> PcSet] /\ cmd_pend_count' \in Int
        BY <1>0, <1>5 DEF TypeOK, ReleaseBare, NotifyAllAndGo, LeaveWindow
    <2> QED
        BY <1>0, <1>5, <2>1, <2>2 DEF TypeOK, ReleaseBare, rx, told, arm
<1>6. ASSUME NEW c \in Calls, Write(c) PROVE TypeOK'
    BY <1>0, <1>6 DEF TypeOK, Write, Go, rx, told, arm
<1>7. ASSUME NEW c \in Calls, WriteThrows(c) PROVE TypeOK'
    BY <1>0, <1>7 DEF TypeOK, WriteThrows, Go, rx, told, arm
<1>8. ASSUME NEW c \in Calls, PollHit(c) PROVE TypeOK'
    BY <1>0, <1>8
    DEF TypeOK, PollHit, LeaveWindow, NotifyAllAndGo, rx, told, arm
<1>9. ASSUME NEW c \in Calls, PollReturn(c) PROVE TypeOK'
    BY <1>0, <1>9 DEF TypeOK, IdsInv, PollReturn, Go, rx, told, arm
<1>10. ASSUME NEW c \in Calls, PollTimeout(c) PROVE TypeOK'
    BY <1>0, <1>10
    DEF TypeOK, PollTimeout, LeaveWindow, NotifyAllAndGo, rx, told, arm
<1>11. ASSUME NEW c \in CallbackCalls, TimerCheck(c) PROVE TypeOK'
    BY <1>0, <1>11 DEF TypeOK, TimerCheck, locals, rx, told, arm
<1>12. ASSUME NEW c \in CallbackCalls, TimerRelease(c) PROVE TypeOK'
    <2>1. callbacks' \in [Ids -> CallbackCalls \cup {NULL}]
        BY <1>0, <1>12 DEF TypeOK, TimerRelease, DropCallback
    <2>2. /\ pc' \in [Threads -> PcSet] /\ cmd_pend_count' \in Int
          /\ timer' \in [CallbackCalls -> TimerSet]
        BY <1>0, <1>12 DEF TypeOK, TimerRelease, NotifyAll, LeaveWindow
    <2> QED
        BY <1>0, <1>12, <2>1, <2>2 DEF TypeOK, TimerRelease, rx, told, arm
<1>13. ASSUME NEW c \in CallbackCalls, TimerCall(c) PROVE TypeOK'
    BY <1>0, <1>13 DEF TypeOK, TimerCall, locals, rx, arm
<1>14. ASSUME NEW c \in answers, RecvRead(c) PROVE TypeOK'
    BY <1>0, <1>14 DEF TypeOK, RecvRead, locals, told
<1>15. ASSUME RecvDispatch PROVE TypeOK'
    BY <1>0, <1>15 DEF TypeOK, RecvDispatch, ReceiverInv, locals, told, arm
<1>16. ASSUME RecvClaim PROVE TypeOK'
    BY <1>0, <1>16
    DEF TypeOK, RecvClaim, ReceiverInv, IdsInv, InFlight, DropCallback,
        LeaveWindow, NotifyAll, told, arm
<1>17. ASSUME RecvThrows PROVE TypeOK'
    BY <1>0, <1>17 DEF TypeOK, RecvThrows, locals, rx, told, arm
<1>18. ASSUME NEW h \in handlers, RunHandler(h) PROVE TypeOK'
    <2>1. h.fn \in CallbackCalls \cup {NULL} /\ h.arg \in Calls
        BY <1>0 DEF TypeOK
    <2>2. invoked' \in [CallbackCalls -> SUBSET (Calls \cup {"TIMEOUT"})]
        BY <1>0, <1>18, <2>1 DEF TypeOK, RunHandler
    <2> QED
        BY <1>0, <1>18, <2>2 DEF TypeOK, RunHandler, locals, arm
<1>19. ASSUME NEW f \in Flushes, Flush(f) PROVE TypeOK'
    BY <1>0, <1>19 DEF TypeOK, Flush, Go, rx, told, arm
<1>20. ASSUME NEW c \in Calls, Answer(c) PROVE TypeOK'
    BY <1>0, <1>20 DEF TypeOK, Answer, locals, rx, told
<1>21. ASSUME NEW c \in Calls, Lose(c) PROVE TypeOK'
    BY <1>0, <1>21 DEF TypeOK, Lose, locals, rx, told
<1>22. ASSUME LinkFails PROVE TypeOK'
    BY <1>0, <1>22 DEF TypeOK, LinkFails, locals, rx, told
<1>23. ASSUME Disconnect PROVE TypeOK'
    BY <1>0, <1>23 DEF TypeOK, Disconnect, locals, rx, told, arm
<1>24. ASSUME UNCHANGED vars PROVE TypeOK'
    BY <1>0, <1>24 DEF TypeOK, vars, locals, rx, told, arm
<1> QED
    BY <1>1, <1>2, <1>3, <1>4, <1>5, <1>6, <1>7, <1>8, <1>9, <1>10, <1>11,
       <1>12, <1>13, <1>14, <1>15, <1>16, <1>17, <1>18, <1>19, <1>20, <1>21,
       <1>22, <1>23, <1>24
    DEF Next, SendCmd, Timer, Recv, Device

(* The messages of a call follow its write, and none is in two places.     *)
LEMMA MessagesStep ==
    CommandInv /\ [Next /\ NoOverrun']_vars => MessagesInv'
<1> SUFFICES ASSUME CommandInv, [Next /\ NoOverrun']_vars
             PROVE  MessagesInv'
    OBVIOUS
<1>0. TypeOK /\ MessagesInv /\ ReceiverInv
    BY DEF CommandInv
<1>1. ASSUME NEW c \in Calls, Begin(c) PROVE MessagesInv'
    BY <1>0, <1>1
    DEF TypeOK, MessagesInv, InFlight, Unwritten, ReceiverInv, Begin, Go, rx,
        arm
<1>2. ASSUME NEW c \in Calls, TakeId(c) PROVE MessagesInv'
    BY <1>0, <1>2
    DEF TypeOK, MessagesInv, InFlight, Unwritten, ReceiverInv, TakeId,
        EnterWindow, NotifyAllAndGo, Go, rx, arm
<1>3. ASSUME NEW c \in Calls, Reenter(c) PROVE MessagesInv'
    BY <1>0, <1>3
    DEF TypeOK, MessagesInv, InFlight, Unwritten, ReceiverInv, Reenter,
        EnterWindow, NotifyAllAndGo, Go, rx, arm
<1>4. ASSUME NEW c \in Calls, Prepare(c) PROVE MessagesInv'
    BY <1>0, <1>4
    DEF TypeOK, MessagesInv, InFlight, Unwritten, ReceiverInv, Prepare, Go, rx,
        arm
<1>5. ASSUME NEW c \in Calls, ReleaseBare(c) PROVE MessagesInv'
    BY <1>0, <1>5
    DEF TypeOK, MessagesInv, InFlight, Unwritten, ReceiverInv, ReleaseBare,
        NotifyAllAndGo, rx, arm
<1>6. ASSUME NEW c \in Calls, Write(c) PROVE MessagesInv'
    BY <1>0, <1>6
    DEF TypeOK, MessagesInv, InFlight, Unwritten, ReceiverInv, Write, Go, rx
<1>7. ASSUME NEW c \in Calls, WriteThrows(c) PROVE MessagesInv'
    BY <1>0, <1>7
    DEF TypeOK, MessagesInv, InFlight, Unwritten, ReceiverInv, WriteThrows, Go,
        rx, arm
<1>8. ASSUME NEW c \in Calls, PollHit(c) PROVE MessagesInv'
    BY <1>0, <1>8
    DEF TypeOK, MessagesInv, InFlight, Unwritten, ReceiverInv, PollHit,
        NotifyAllAndGo, rx, arm
<1>9. ASSUME NEW c \in Calls, PollReturn(c) PROVE MessagesInv'
    BY <1>0, <1>9
    DEF TypeOK, MessagesInv, InFlight, Unwritten, ReceiverInv, PollReturn, Go,
        rx, arm
<1>10. ASSUME NEW c \in Calls, PollTimeout(c) PROVE MessagesInv'
    BY <1>0, <1>10
    DEF TypeOK, MessagesInv, InFlight, Unwritten, ReceiverInv, PollTimeout,
        NotifyAllAndGo, rx, arm
<1>11. ASSUME NEW c \in CallbackCalls, TimerCheck(c) PROVE MessagesInv'
    BY <1>0, <1>11
    DEF TypeOK, MessagesInv, InFlight, Unwritten, ReceiverInv, TimerCheck,
        locals, rx, arm
<1>12. ASSUME NEW c \in CallbackCalls, TimerRelease(c) PROVE MessagesInv'
    BY <1>0, <1>12
    DEF TypeOK, MessagesInv, InFlight, Unwritten, ReceiverInv, TimerRelease,
        NotifyAll, rx, arm
<1>13. ASSUME NEW c \in CallbackCalls, TimerCall(c) PROVE MessagesInv'
    BY <1>0, <1>13
    DEF TypeOK, MessagesInv, InFlight, Unwritten, ReceiverInv, TimerCall,
        locals, rx, arm
<1>14. ASSUME NEW c \in answers, RecvRead(c) PROVE MessagesInv'
    BY <1>0, <1>14
    DEF TypeOK, MessagesInv, InFlight, Unwritten, ReceiverInv, RecvRead, locals
<1>15. ASSUME RecvDispatch PROVE MessagesInv'
    BY <1>0, <1>15, NullAssumption
    DEF TypeOK, MessagesInv, InFlight, Unwritten, ReceiverInv, RecvDispatch,
        locals, arm
<1>16. ASSUME RecvClaim PROVE MessagesInv'
    BY <1>0, <1>16, NullAssumption
    DEF TypeOK, MessagesInv, InFlight, Unwritten, ReceiverInv, RecvClaim,
        NotifyAll, arm
<1>17. ASSUME RecvThrows PROVE MessagesInv'
    BY <1>0, <1>17
    DEF TypeOK, MessagesInv, InFlight, Unwritten, ReceiverInv, RecvThrows,
        locals, rx, arm
<1>18. ASSUME NEW h \in handlers, RunHandler(h) PROVE MessagesInv'
    BY <1>0, <1>18
    DEF TypeOK, MessagesInv, InFlight, Unwritten, ReceiverInv, RunHandler,
        locals, arm
<1>19. ASSUME NEW f \in Flushes, Flush(f) PROVE MessagesInv'
    BY <1>0, <1>19
    DEF TypeOK, MessagesInv, InFlight, Unwritten, ReceiverInv, Flush, Go, rx,
        arm
<1>20. ASSUME NEW c \in Calls, Answer(c) PROVE MessagesInv'
    BY <1>0, <1>20
    DEF TypeOK, MessagesInv, InFlight, Unwritten, ReceiverInv, Answer, locals,
        rx
<1>21. ASSUME NEW c \in Calls, Lose(c) PROVE MessagesInv'
    BY <1>0, <1>21
    DEF TypeOK, MessagesInv, InFlight, Unwritten, ReceiverInv, Lose, locals, rx
<1>22. ASSUME LinkFails PROVE MessagesInv'
    BY <1>0, <1>22
    DEF TypeOK, MessagesInv, InFlight, Unwritten, ReceiverInv, LinkFails,
        locals, rx
<1>23. ASSUME Disconnect PROVE MessagesInv'
    BY <1>0, <1>23
    DEF TypeOK, MessagesInv, InFlight, Unwritten, ReceiverInv, Disconnect,
        locals, rx, arm
<1>24. ASSUME UNCHANGED vars PROVE MessagesInv'
    BY <1>0, <1>24
    DEF TypeOK, MessagesInv, InFlight, Unwritten, ReceiverInv, vars, locals,
        rx, arm
<1> QED
    BY <1>1, <1>2, <1>3, <1>4, <1>5, <1>6, <1>7, <1>8, <1>9, <1>10, <1>11,
       <1>12, <1>13, <1>14, <1>15, <1>16, <1>17, <1>18, <1>19, <1>20, <1>21,
       <1>22, <1>23, <1>24
    DEF Next, SendCmd, Timer, Recv, Device

(* Whoever can touch the tables has an id.                                  *)
LEMMA IdsStep ==
    CommandInv /\ [Next /\ NoOverrun']_vars => IdsInv'
<1> SUFFICES ASSUME CommandInv, [Next /\ NoOverrun']_vars
             PROVE  IdsInv'
    OBVIOUS
<1>0. TypeOK /\ MessagesInv /\ IdsInv /\ ReceiverInv
    BY DEF CommandInv
<1>1. ASSUME NEW c \in Calls, Begin(c) PROVE IdsInv'
    BY <1>0, <1>1
    DEF TypeOK, MessagesInv, IdsInv, InFlight, Unwritten, Begin, Go, rx, arm
<1>2. ASSUME NEW c \in Calls, TakeId(c) PROVE IdsInv'
    <2>1. NextId # 0
        BY <1>0, SizeAssumption DEF TypeOK, NextId
    <2> QED
        BY <1>0, <1>2, <2>1
        DEF TypeOK, IdsInv, MessagesInv, InFlight, Unwritten, TakeId,
            EnterWindow, NotifyAllAndGo, Go, rx, arm
<1>3. ASSUME NEW c \in Calls, Reenter(c) PROVE IdsInv'
    BY <1>0, <1>3
    DEF TypeOK, MessagesInv, IdsInv, InFlight, Unwritten, Reenter, EnterWindow,
        NotifyAllAndGo, Go, rx, arm
<1>4. ASSUME NEW c \in Calls, Prepare(c) PROVE IdsInv'
    BY <1>0, <1>4, KindsAssumption
    DEF TypeOK, MessagesInv, IdsInv, InFlight, Unwritten, Prepare, Go, rx, arm
<1>5. ASSUME NEW c \in Calls, ReleaseBare(c) PROVE IdsInv'
    BY <1>0, <1>5, KindsAssumption
    DEF TypeOK, MessagesInv, IdsInv, InFlight, Unwritten, ReleaseBare,
        NotifyAllAndGo, rx, arm
<1>6. ASSUME NEW c \in Calls, Write(c) PROVE IdsInv'
    BY <1>0, <1>6
    DEF TypeOK, MessagesInv, IdsInv, InFlight, Unwritten, Write, Go, rx
<1>7. ASSUME NEW c \in Calls, WriteThrows(c) PROVE IdsInv'
    BY <1>0, <1>7
    DEF TypeOK, MessagesInv, IdsInv, InFlight, Unwritten, WriteThrows, Go, rx,
        arm
<1>8. ASSUME NEW c \in Calls, PollHit(c) PROVE IdsInv'
    BY <1>0, <1>8
    DEF TypeOK, MessagesInv, IdsInv, InFlight, Unwritten, PollHit,
        NotifyAllAndGo, rx, arm
<1>9. ASSUME NEW c \in Calls, PollReturn(c) PROVE IdsInv'
    BY <1>0, <1>9
    DEF TypeOK, MessagesInv, IdsInv, InFlight, Unwritten, PollReturn, Go, rx,
        arm
<1>10. ASSUME NEW c \in Calls, PollTimeout(c) PROVE IdsInv'
    BY <1>0, <1>10
    DEF TypeOK, MessagesInv, IdsInv, InFlight, Unwritten, PollTimeout,
        NotifyAllAndGo, rx, arm
<1>11. ASSUME NEW c \in CallbackCalls, TimerCheck(c) PROVE IdsInv'
    BY <1>0, <1>11
    DEF TypeOK, MessagesInv, IdsInv, InFlight, Unwritten, TimerCheck, locals,
        rx, arm
<1>12. ASSUME NEW c \in CallbackCalls, TimerRelease(c) PROVE IdsInv'
    BY <1>0, <1>12
    DEF TypeOK, MessagesInv, IdsInv, InFlight, Unwritten, TimerRelease,
        NotifyAll, rx, arm
<1>13. ASSUME NEW c \in CallbackCalls, TimerCall(c) PROVE IdsInv'
    BY <1>0, <1>13
    DEF TypeOK, MessagesInv, IdsInv, InFlight, Unwritten, TimerCall, locals,
        rx, arm
<1>14. ASSUME NEW c \in answers, RecvRead(c) PROVE IdsInv'
    BY <1>0, <1>14
    DEF TypeOK, MessagesInv, IdsInv, InFlight, Unwritten, RecvRead, locals
<1>15. ASSUME RecvDispatch PROVE IdsInv'
    BY <1>0, <1>15, NullAssumption
    DEF TypeOK, MessagesInv, IdsInv, InFlight, Unwritten, RecvDispatch, locals,
        arm
<1>16. ASSUME RecvClaim PROVE IdsInv'
    BY <1>0, <1>16, NullAssumption
    DEF TypeOK, MessagesInv, IdsInv, InFlight, Unwritten, RecvClaim, NotifyAll,
        arm
<1>17. ASSUME RecvThrows PROVE IdsInv'
    BY <1>0, <1>17
    DEF TypeOK, MessagesInv, IdsInv, InFlight, Unwritten, RecvThrows, locals,
        rx, arm
<1>18. ASSUME NEW h \in handlers, RunHandler(h) PROVE IdsInv'
    BY <1>0, <1>18
    DEF TypeOK, MessagesInv, IdsInv, InFlight, Unwritten, RunHandler, locals,
        arm
<1>19. ASSUME NEW f \in Flushes, Flush(f) PROVE IdsInv'
    BY <1>0, <1>19, KindsAssumption
    DEF TypeOK, MessagesInv, IdsInv, InFlight, Unwritten, Flush, Go, rx, arm
<1>20. ASSUME NEW c \in Calls, Answer(c) PROVE IdsInv'
    BY <1>0, <1>20
    DEF TypeOK, MessagesInv, IdsInv, InFlight, Unwritten, Answer, locals, rx
<1>21. ASSUME NEW c \in Calls, Lose(c) PROVE IdsInv'
    BY <1>0, <1>21
    DEF TypeOK, MessagesInv, IdsInv, InFlight, Unwritten, Lose, locals, rx
<1>22. ASSUME LinkFails PROVE IdsInv'
    BY <1>0, <1>22
    DEF TypeOK, MessagesInv, IdsInv, InFlight, Unwritten, LinkFails, locals, rx
<1>23. ASSUME Disconnect PROVE IdsInv'
    BY <1>0, <1>23
    DEF TypeOK, MessagesInv, IdsInv, InFlight, Unwritten, Disconnect, locals,
        rx, arm
<1>24. ASSUME UNCHANGED vars PROVE IdsInv'
    BY <1>0, <1>24
    DEF TypeOK, MessagesInv, IdsInv, InFlight, Unwritten, vars, locals, rx, arm
<1> QED
    BY <1>1, <1>2, <1>3, <1>4, <1>5, <1>6, <1>7, <1>8, <1>9, <1>10, <1>11,
       <1>12, <1>13, <1>14, <1>15, <1>16, <1>17, <1>18, <1>19, <1>20, <1>21,
       <1>22, <1>23, <1>24
    DEF Next, SendCmd, Timer, Recv, Device

(* A live call and the callback stored under its id belong together, since  *)
(* no other live call has that id.                                          *)
LEMMA TableOwner ==
    ASSUME TypeOK, NoOverrun, TableInv, NEW c \in Calls, Live(c),
           callbacks[id[c]] # NULL
    PROVE  c \in CallbackCalls /\ callbacks[id[c]] = c
<1> DEFINE d == callbacks[id[c]]
<1>1. id[c] \in Ids
    BY DEF TypeOK, Live
<1>2. d \in CallbackCalls /\ id[d] = id[c] /\ Live(d)
    BY <1>1 DEF TypeOK, TableInv, Live
<1> QED
    BY <1>2 DEF NoOverrun

(* What the receiver claims is the answer to a callback call.               *)
LEMMA ReceiverStep ==
    CommandInv /\ [Next /\ NoOverrun']_vars => ReceiverInv'
<1> SUFFICES ASSUME CommandInv, [Next /\ NoOverrun']_vars
             PROVE  ReceiverInv'
    OBVIOUS
<1>0. TypeOK /\ NoOverrun /\ IdsInv /\ TableInv /\ ReceiverInv
    BY DEF CommandInv
<1>1. ASSUME NEW c \in Calls, Begin(c) PROVE ReceiverInv'
    BY <1>0, <1>1 DEF ReceiverInv, Begin, rx
<1>2. ASSUME NEW c \in Calls, TakeId(c) PROVE ReceiverInv'
    BY <1>0, <1>2 DEF ReceiverInv, TakeId, rx
<1>3. ASSUME NEW c \in Calls, Reenter(c) PROVE ReceiverInv'
    BY <1>0, <1>3 DEF ReceiverInv, Reenter, rx
<1>4. ASSUME NEW c \in Calls, Prepare(c) PROVE ReceiverInv'
    BY <1>0, <1>4 DEF ReceiverInv, Prepare, rx
<1>5. ASSUME NEW c \in Calls, ReleaseBare(c) PROVE ReceiverInv'
    BY <1>0, <1>5 DEF ReceiverInv, ReleaseBare, rx
<1>6. ASSUME NEW c \in Calls, Write(c) PROVE ReceiverInv'
    BY <1>0, <1>6 DEF ReceiverInv, Write, rx
<1>7. ASSUME NEW c \in Calls, WriteThrows(c) PROVE ReceiverInv'
    BY <1>0, <1>7 DEF ReceiverInv, WriteThrows, rx
<1>8. ASSUME NEW c \in Calls, PollHit(c) PROVE ReceiverInv'
    BY <1>0, <1>8 DEF ReceiverInv, PollHit, rx
<1>9. ASSUME NEW c \in Calls, PollReturn(c) PROVE ReceiverInv'
    BY <1>0, <1>9 DEF ReceiverInv, PollReturn, rx
<1>10. ASSUME NEW c \in Calls, PollTimeout(c) PROVE ReceiverInv'
    BY <1>0, <1>10 DEF ReceiverInv, PollTimeout, rx
<1>11. ASSUME NEW c \in CallbackCalls, TimerCheck(c) PROVE ReceiverInv'
    BY <1>0, <1>11 DEF ReceiverInv, TimerCheck, rx
<1>12. ASSUME NEW c \in CallbackCalls, TimerRelease(c) PROVE ReceiverInv'
    BY <1>0, <1>12 DEF ReceiverInv, TimerRelease, rx
<1>13. ASSUME NEW c \in CallbackCalls, TimerCall(c) PROVE ReceiverInv'
    BY <1>0, <1>13 DEF ReceiverInv, TimerCall, rx
<1>14. ASSUME NEW c \in answers, RecvRead(c) PROVE ReceiverInv'
    BY <1>0, <1>14, NullAssumption DEF TypeOK, ReceiverInv, RecvRead
<1>15. ASSUME RecvDispatch PROVE ReceiverInv'
    <2>1. hand \in Calls /\ id[hand] \in Ids /\ Live(hand)
        BY <1>0, <1>15 DEF TypeOK, ReceiverInv, RecvDispatch, IdsInv, InFlight,
            Live
    <2>2. callbacks[id[hand]] # NULL => hand \in CallbackCalls
        BY <1>0, <2>1, TableOwner
    <2> QED
        BY <1>0, <1>15, <2>1, <2>2 DEF ReceiverInv, RecvDispatch
<1>16. ASSUME RecvClaim PROVE ReceiverInv'
    BY <1>0, <1>16 DEF ReceiverInv, RecvClaim
<1>17. ASSUME RecvThrows PROVE ReceiverInv'
    BY <1>0, <1>17 DEF ReceiverInv, RecvThrows, rx
<1>18. ASSUME NEW h \in handlers, RunHandler(h) PROVE ReceiverInv'
    BY <1>0, <1>18 DEF ReceiverInv, RunHandler
<1>19. ASSUME NEW f \in Flushes, Flush(f) PROVE ReceiverInv'
    BY <1>0, <1>19 DEF ReceiverInv, Flush, rx
<1>20. ASSUME NEW c \in Calls, Answer(c) PROVE ReceiverInv'
    BY <1>0, <1>20 DEF ReceiverInv, Answer, rx
<1>21. ASSUME NEW c \in Calls, Lose(c) PROVE ReceiverInv'
    BY <1>0, <1>21 DEF ReceiverInv, Lose, rx
<1>22. ASSUME LinkFails PROVE ReceiverInv'
    BY <1>0, <1>22 DEF ReceiverInv, LinkFails, rx
<1>23. ASSUME Disconnect PROVE ReceiverInv'
    BY <1>0, <1>23 DEF ReceiverInv, Disconnect, rx
<1>24. ASSUME UNCHANGED vars PROVE ReceiverInv'
    BY <1>0, <1>24 DEF ReceiverInv, vars, rx
<1> QED
    BY <1>1, <1>2, <1>3, <1>4, <1>5, <1>6, <1>7, <1>8, <1>9, <1>10, <1>11,
       <1>12, <1>13, <1>14, <1>15, <1>16, <1>17, <1>18, <1>19, <1>20, <1>21,
       <1>22, <1>23, <1>24
    DEF Next, SendCmd, Timer, Recv, Device

(* callbacks[] holds exactly the callbacks that are still to be called.      *)
LEMMA TableStep ==
    CommandInv /\ [Next /\ NoOverrun']_vars => TableInv'
<1> SUFFICES ASSUME CommandInv, [Next /\ NoOverrun']_vars
             PROVE  TableInv'
    OBVIOUS
<1>0. TypeOK /\ NoOverrun /\ MessagesInv /\ IdsInv /\ TableInv /\ ReceiverInv
    BY DEF CommandInv
<1>1. ASSUME NEW c \in Calls, Begin(c) PROVE TableInv'
    BY <1>0, <1>1 DEF TypeOK, TableInv, Begin, rx
<1>2. ASSUME NEW c \in Calls, TakeId(c) PROVE TableInv'
    BY <1>0, <1>2 DEF TypeOK, TableInv, IdsInv, TakeId, rx
<1>3. ASSUME NEW c \in Calls, Reenter(c) PROVE TableInv'
    BY <1>0, <1>3 DEF TypeOK, TableInv, Reenter, rx
<1>4. ASSUME NEW c \in Calls, Prepare(c) PROVE TableInv'
    <2>1. Live(c)
        BY <1>0, <1>4 DEF Prepare, Live, IdsInv
    <2>2. \A d \in CallbackCalls : timer[d] \in {"sleeping", "checked"}
             => Live(d) /\ (id[d] = id[c] => d = c)
        BY <1>0, <2>1 DEF IdsInv, Live, NoOverrun
    <2>3. CASE c \in SyncCalls
        BY <1>0, <1>4, <2>3, KindsAssumption
        DEF TypeOK, TableInv, Prepare, rx
    <2>4. CASE c \in CallbackCalls
        <3>1. /\ callbacks' = [callbacks EXCEPT ![id[c]] = c]
              /\ timer' = [timer EXCEPT ![c] = "sleeping"]
              /\ UNCHANGED <<id, claimed>>
            BY <1>4, <2>4, KindsAssumption DEF Prepare, StoreCallback, rx
        <3>2. id[c] \in Ids /\ timer[c] = "none"
            BY <1>0, <1>4, <2>1, <2>4 DEF TypeOK, Live, IdsInv, Prepare
        <3> QED
            BY <1>0, <2>2, <2>4, <3>1, <3>2 DEF TypeOK, TableInv
    <2>5. CASE c \in BareCalls
        <3>1. callbacks[id[c]] = NULL
            BY <1>0, <2>1, <2>5, TableOwner, KindsAssumption
        <3>2. callbacks' = callbacks /\ UNCHANGED <<id, timer, claimed>>
            BY <1>0, <1>4, <2>5, <3>1, KindsAssumption
            DEF TypeOK, Prepare, DropCallback, rx
        <3> QED
            BY <1>0, <3>2 DEF TableInv
    <2> QED
        BY <2>3, <2>4, <2>5
<1>5. ASSUME NEW c \in Calls, ReleaseBare(c) PROVE TableInv'
    <2>1. Live(c) /\ c \in BareCalls
        BY <1>0, <1>5 DEF ReleaseBare, Live, IdsInv
    <2>2. callbacks[id[c]] = NULL
        BY <1>0, <2>1, TableOwner, KindsAssumption
    <2> QED
        BY <1>0, <1>5, <2>2
        DEF TypeOK, TableInv, ReleaseBare, DropCallback, rx
<1>6. ASSUME NEW c \in Calls, Write(c) PROVE TableInv'
    BY <1>0, <1>6 DEF TypeOK, TableInv, Write, rx
<1>7. ASSUME NEW c \in Calls, WriteThrows(c) PROVE TableInv'
    BY <1>0, <1>7 DEF TypeOK, TableInv, WriteThrows, rx
<1>8. ASSUME NEW c \in Calls, PollHit(c) PROVE TableInv'
    BY <1>0, <1>8 DEF TypeOK, TableInv, PollHit, rx
<1>9. ASSUME NEW c \in Calls, PollReturn(c) PROVE TableInv'
    BY <1>0, <1>9 DEF TypeOK, TableInv, PollReturn, rx
<1>10. ASSUME NEW c \in Calls, PollTimeout(c) PROVE TableInv'
    BY <1>0, <1>10 DEF TypeOK, TableInv, PollTimeout, rx
<1>11. ASSUME NEW c \in CallbackCalls, TimerCheck(c) PROVE TableInv'
    BY <1>0, <1>11, NullAssumption
    DEF TypeOK, TableInv, TimerCheck, locals, rx
<1>12. ASSUME NEW c \in CallbackCalls, TimerRelease(c) PROVE TableInv'
    <2>1. \A d \in CallbackCalls : timer[d] \in {"sleeping", "checked"}
             => (id[d] = id[c] => d = c)
        BY <1>0, <1>12 DEF TimerRelease, IdsInv, Live, NoOverrun
    <2> QED
        BY <1>0, <1>12, <2>1
        DEF TypeOK, TableInv, TimerRelease, DropCallback, rx
<1>13. ASSUME NEW c \in CallbackCalls, TimerCall(c) PROVE TableInv'
    BY <1>0, <1>13 DEF TypeOK, TableInv, TimerCall, locals, rx
<1>14. ASSUME NEW c \in answers, RecvRead(c) PROVE TableInv'
    BY <1>0, <1>14 DEF TypeOK, TableInv, RecvRead, locals
<1>15. ASSUME RecvDispatch PROVE TableInv'
    BY <1>0, <1>15 DEF TypeOK, TableInv, RecvDispatch, locals
<1>16. ASSUME RecvClaim PROVE TableInv'
    <2>1. hand \in CallbackCalls /\ Live(hand)
        BY <1>0, <1>16 DEF RecvClaim, ReceiverInv, IdsInv, InFlight, Live
    <2>2. \A d \in CallbackCalls : timer[d] \in {"sleeping", "checked"}
             => (id[d] = id[hand] => d = hand)
        BY <1>0, <2>1 DEF IdsInv, Live, NoOverrun
    <2> QED
        BY <1>0, <1>16, <2>1, <2>2
        DEF TypeOK, TableInv, RecvClaim, DropCallback
<1>17. ASSUME RecvThrows PROVE TableInv'
    BY <1>0, <1>17 DEF TypeOK, TableInv, RecvThrows, locals, rx
<1>18. ASSUME NEW h \in handlers, RunHandler(h) PROVE TableInv'
    BY <1>0, <1>18 DEF TypeOK, TableInv, RunHandler, locals
<1>19. ASSUME NEW f \in Flushes, Flush(f) PROVE TableInv'
    BY <1>0, <1>19 DEF TypeOK, TableInv, Flush, rx
<1>20. ASSUME NEW c \in Calls, Answer(c) PROVE TableInv'
    BY <1>0, <1>20 DEF TypeOK, TableInv, Answer, locals, rx
<1>21. ASSUME NEW c \in Calls, Lose(c) PROVE TableInv'
    BY <1>0, <1>21 DEF TypeOK, TableInv, Lose, locals, rx
<1>22. ASSUME LinkFails PROVE TableInv'
    BY <1>0, <1>22 DEF TypeOK, TableInv, LinkFails, locals, rx
<1>23. ASSUME Disconnect PROVE TableInv'
    BY <1>0, <1>23 DEF TypeOK, TableInv, Disconnect, locals, rx
<1>24. ASSUME UNCHANGED vars PROVE TableInv'
    BY <1>0, <1>24 DEF TypeOK, TableInv, vars, locals, rx
<1> QED
    BY <1>1, <1>2, <1>3, <1>4, <1>5, <1>6, <1>7, <1>8, <1>9, <1>10, <1>11,
       <1>12, <1>13, <1>14, <1>15, <1>16, <1>17, <1>18, <1>19, <1>20, <1>21,
       <1>22, <1>23, <1>24
    DEF Next, SendCmd, Timer, Recv, Device

-----------------------------------------------------------------------------
(* The accounting.  A step leaves both sets as they are, or lets one call   *)
(* in, or one out, or out a second time.                                    *)

(* Both sets are sets of calls, and there are finitely many calls.          *)
LEMMA HeldFinite ==
    IsFiniteSet(Holding) /\ IsFiniteSet(DoublyReleased)
<1>1. Holding \in SUBSET Calls /\ DoublyReleased \in SUBSET Calls
    BY DEF Holding, DoublyReleased
<1> QED
    BY <1>1, FS_Subset, KindsAssumption

(* A step that changes neither set.                                         *)
LEMMA PendSame ==
    ASSUME PendAccounting, UNCHANGED cmd_pend_count,
           Holding' = Holding, DoublyReleased' = DoublyReleased
    PROVE  PendAccounting'
BY DEF PendAccounting

(* A step by which one more call holds a place.                             *)
LEMMA PendEnters ==
    ASSUME PendAccounting, cmd_pend_count' = cmd_pend_count + 1,
           NEW c, c \notin Holding, Holding' = Holding \cup {c},
           DoublyReleased' = DoublyReleased
    PROVE  PendAccounting'
<1>1. Cardinality(Holding \cup {c}) = Cardinality(Holding) + 1
    BY HeldFinite, FS_AddElement
<1>2. Cardinality(Holding) \in Nat /\ Cardinality(DoublyReleased) \in Nat
    BY HeldFinite, FS_CardinalityType
<1> QED
    BY <1>1, <1>2 DEF PendAccounting

(* A step by which a call gives up the place it holds.                      *)
LEMMA PendLeaves ==
    ASSUME PendAccounting, cmd_pend_count' = cmd_pend_count - 1,
           NEW c, c \in Holding, Holding' = Holding \ {c},
           DoublyReleased' = DoublyReleased
    PROVE  PendAccounting'
<1>1. Cardinality(Holding \ {c}) = Cardinality(Holding) - 1
    BY HeldFinite, FS_RemoveElement
<1>2. Cardinality(Holding) \in Nat /\ Cardinality(DoublyReleased) \in Nat
    BY HeldFinite, FS_CardinalityType
<1> QED
    BY <1>1, <1>2 DEF PendAccounting

(* A step that gives up a place a second time.                              *)
LEMMA PendTwice ==
    ASSUME PendAccounting, cmd_pend_count' = cmd_pend_count - 1,
           NEW c, c \notin DoublyReleased,
           DoublyReleased' = DoublyReleased \cup {c}, Holding' = Holding
    PROVE  PendAccounting'
<1>1. Cardinality(DoublyReleased \cup {c}) = Cardinality(DoublyReleased) + 1
    BY HeldFinite, FS_AddElement
<1>2. Cardinality(Holding) \in Nat /\ Cardinality(DoublyReleased) \in Nat
    BY HeldFinite, FS_CardinalityType
<1> QED
    BY <1>1, <1>2 DEF PendAccounting

(* The counter follows the sets.                                            *)
LEMMA PendStep ==
    CommandInv /\ [Next /\ NoOverrun']_vars => PendAccounting'
<1> SUFFICES ASSUME CommandInv, [Next /\ NoOverrun']_vars
             PROVE  PendAccounting'
    OBVIOUS
<1>0. /\ TypeOK /\ MessagesInv /\ IdsInv /\ TableInv /\ ReceiverInv
     /\ PendAccounting
    BY DEF CommandInv
<1>1. ASSUME NEW c \in Calls, Begin(c) PROVE PendAccounting'
    <2>1. Holding' = Holding /\ DoublyReleased' = DoublyReleased
        BY <1>0, <1>1, NullAssumption
        DEF TypeOK, MessagesInv, Holding, DoublyReleased, Begin, Go, rx
    <2> QED
        BY <1>0, <1>1, <2>1, PendSame DEF Begin
<1>2. ASSUME NEW c \in Calls, TakeId(c) PROVE PendAccounting'
    <2>1. CASE WindowOpen
        <3>1. c \notin Holding /\ Holding' = Holding \cup {c}
            BY <1>0, <1>2, <2>1, KindsAssumption, NullAssumption
            DEF TypeOK, IdsInv, MessagesInv, Holding, TakeId, EnterWindow,
                NotifyAllAndGo, rx
        <3>2. DoublyReleased' = DoublyReleased
            BY <1>2 DEF DoublyReleased, TakeId, rx
        <3> QED
            BY <1>0, <1>2, <2>1, <3>1, <3>2, PendEnters DEF TakeId, EnterWindow
    <2>2. CASE ~WindowOpen
        <3>1. Holding' = Holding /\ DoublyReleased' = DoublyReleased
            BY <1>0, <1>2, <2>2
            DEF TypeOK, Holding, DoublyReleased, TakeId, EnterWindow, Go, rx
        <3> QED
            BY <1>0, <1>2, <2>2, <3>1, PendSame DEF TakeId, EnterWindow
    <2> QED
        BY <2>1, <2>2
<1>3. ASSUME NEW c \in Calls, Reenter(c) PROVE PendAccounting'
    <2>1. CASE WindowOpen
        <3>1. c \notin Holding /\ Holding' = Holding \cup {c}
            BY <1>0, <1>3, <2>1, KindsAssumption, NullAssumption
            DEF TypeOK, IdsInv, MessagesInv, Holding, Reenter, EnterWindow,
                NotifyAllAndGo, rx
        <3>2. DoublyReleased' = DoublyReleased
            BY <1>3 DEF DoublyReleased, Reenter, rx
        <3> QED
            BY <1>0, <1>3, <2>1, <3>1, <3>2, PendEnters
            DEF Reenter, EnterWindow
    <2>2. CASE ~WindowOpen
        <3>1. Holding' = Holding /\ DoublyReleased' = DoublyReleased
            BY <1>0, <1>3, <2>2
            DEF TypeOK, Holding, DoublyReleased, Reenter, EnterWindow, Go, rx
        <3> QED
            BY <1>0, <1>3, <2>2, <3>1, PendSame DEF Reenter, EnterWindow
    <2> QED
        BY <2>1, <2>2
<1>4. ASSUME NEW c \in Calls, Prepare(c) PROVE PendAccounting'
    <2>1. Holding' = Holding /\ DoublyReleased' = DoublyReleased
        BY <1>0, <1>4, KindsAssumption
        DEF TypeOK, Holding, DoublyReleased, Prepare, Go, rx, MessagesInv,
            Unwritten, IdsInv
    <2> QED
        BY <1>0, <1>4, <2>1, PendSame DEF Prepare
<1>5. ASSUME NEW c \in Calls, ReleaseBare(c) PROVE PendAccounting'
    <2>1. c \in Holding /\ Holding' = Holding \ {c}
        BY <1>0, <1>5, KindsAssumption
        DEF TypeOK, IdsInv, MessagesInv, Holding, ReleaseBare,
            NotifyAllAndGo, rx
    <2>2. DoublyReleased' = DoublyReleased
        BY <1>5 DEF DoublyReleased, ReleaseBare, rx
    <2> QED
        BY <1>0, <1>5, <2>1, <2>2, PendLeaves DEF ReleaseBare, LeaveWindow
<1>6. ASSUME NEW c \in Calls, Write(c) PROVE PendAccounting'
    <2>1. Holding' = Holding /\ DoublyReleased' = DoublyReleased
        BY <1>0, <1>6, KindsAssumption
        DEF TypeOK, Holding, DoublyReleased, Write, Go, rx, IdsInv, MessagesInv
    <2> QED
        BY <1>0, <1>6, <2>1, PendSame DEF Write
<1>7. ASSUME NEW c \in Calls, WriteThrows(c) PROVE PendAccounting'
    <2>1. Holding' = Holding /\ DoublyReleased' = DoublyReleased
        BY <1>0, <1>7, KindsAssumption
        DEF TypeOK, Holding, DoublyReleased, WriteThrows, Go, rx, IdsInv,
            MessagesInv
    <2> QED
        BY <1>0, <1>7, <2>1, PendSame DEF WriteThrows
<1>8. ASSUME NEW c \in Calls, PollHit(c) PROVE PendAccounting'
    <2>1. c \in Holding /\ Holding' = Holding \ {c}
        BY <1>0, <1>8, KindsAssumption, NullAssumption
        DEF TypeOK, IdsInv, MessagesInv, Holding, PollHit, NotifyAllAndGo, rx
    <2>2. DoublyReleased' = DoublyReleased
        BY <1>8 DEF DoublyReleased, PollHit, rx
    <2> QED
        BY <1>0, <1>8, <2>1, <2>2, PendLeaves DEF PollHit, LeaveWindow
<1>9. ASSUME NEW c \in Calls, PollReturn(c) PROVE PendAccounting'
    <2>1. Holding' = Holding /\ DoublyReleased' = DoublyReleased
        BY <1>0, <1>9, KindsAssumption, NullAssumption
        DEF TypeOK, Holding, DoublyReleased, PollReturn, Go, rx, IdsInv,
            MessagesInv
    <2> QED
        BY <1>0, <1>9, <2>1, PendSame DEF PollReturn
<1>10. ASSUME NEW c \in Calls, PollTimeout(c) PROVE PendAccounting'
    <2>1. c \in Holding /\ Holding' = Holding \ {c}
        BY <1>0, <1>10, KindsAssumption
        DEF TypeOK, IdsInv, MessagesInv, Holding, PollTimeout,
            NotifyAllAndGo, rx
    <2>2. DoublyReleased' = DoublyReleased
        BY <1>10 DEF DoublyReleased, PollTimeout, rx
    <2> QED
        BY <1>0, <1>10, <2>1, <2>2, PendLeaves DEF PollTimeout, LeaveWindow
<1>11. ASSUME NEW c \in CallbackCalls, TimerCheck(c) PROVE PendAccounting'
    <2>1. Holding' = Holding /\ DoublyReleased' = DoublyReleased
        BY <1>0, <1>11, NullAssumption
        DEF TypeOK, Holding, DoublyReleased, TimerCheck, locals, rx, TableInv
    <2> QED
        BY <1>0, <1>11, <2>1, PendSame DEF TimerCheck
<1>12. ASSUME NEW c \in CallbackCalls, TimerRelease(c) PROVE PendAccounting'
    <2>1. CASE c \notin claimed
        <3>1. c \in Holding /\ Holding' = Holding \ {c}
            BY <1>0, <1>12, <2>1, KindsAssumption
            DEF TypeOK, IdsInv, Holding, TimerRelease, NotifyAll, rx
        <3>2. DoublyReleased' = DoublyReleased
            BY <1>0, <1>12, <2>1 DEF TypeOK, DoublyReleased, TimerRelease, rx
        <3> QED
            BY <1>0, <1>12, <3>1, <3>2, PendLeaves
            DEF TimerRelease, LeaveWindow
    <2>2. CASE c \in claimed
        <3>1. /\ c \notin DoublyReleased
              /\ DoublyReleased' = DoublyReleased \cup {c}
            BY <1>0, <1>12, <2>2 DEF TypeOK, DoublyReleased, TimerRelease, rx
        <3>2. Holding' = Holding
            BY <1>0, <1>12, <2>2, KindsAssumption
            DEF TypeOK, Holding, TimerRelease, NotifyAll, rx
        <3> QED
            BY <1>0, <1>12, <3>1, <3>2, PendTwice DEF TimerRelease, LeaveWindow
    <2> QED
        BY <2>1, <2>2
<1>13. ASSUME NEW c \in CallbackCalls, TimerCall(c) PROVE PendAccounting'
    <2>1. Holding' = Holding /\ DoublyReleased' = DoublyReleased
        BY <1>0, <1>13
        DEF TypeOK, Holding, DoublyReleased, TimerCall, locals, rx
    <2> QED
        BY <1>0, <1>13, <2>1, PendSame DEF TimerCall
<1>14. ASSUME NEW c \in answers, RecvRead(c) PROVE PendAccounting'
    <2>1. Holding' = Holding /\ DoublyReleased' = DoublyReleased
        BY <1>0, <1>14 DEF TypeOK, Holding, DoublyReleased, RecvRead, locals
    <2> QED
        BY <1>0, <1>14, <2>1, PendSame DEF RecvRead
<1>15. ASSUME RecvDispatch PROVE PendAccounting'
    <2>1. Holding' = Holding /\ DoublyReleased' = DoublyReleased
        BY <1>0, <1>15
        DEF TypeOK, Holding, DoublyReleased, RecvDispatch, locals
    <2> QED
        BY <1>0, <1>15, <2>1, PendSame DEF RecvDispatch
<1>16. ASSUME RecvClaim PROVE PendAccounting'
    <2>1. /\ hand \in CallbackCalls /\ hand \notin claimed
          /\ timer[hand] \in {"sleeping", "checked", "calling", "called"}
          /\ pc[hand] # "admitted"
        BY <1>0, <1>16
        DEF TypeOK, RecvClaim, ReceiverInv, MessagesInv, IdsInv, TableInv,
            InFlight, Unwritten
    <2>2. CASE timer[hand] \in {"sleeping", "checked"}
        <3>1. hand \in Holding /\ Holding' = Holding \ {hand}
            BY <1>0, <1>16, <2>1, <2>2, KindsAssumption
            DEF TypeOK, Holding, RecvClaim, NotifyAll
        <3>2. DoublyReleased' = DoublyReleased
            BY <1>0, <1>16, <2>2 DEF TypeOK, DoublyReleased, RecvClaim
        <3> QED
            BY <1>0, <1>16, <3>1, <3>2, PendLeaves DEF RecvClaim, LeaveWindow
    <2>3. CASE timer[hand] \in {"calling", "called"}
        <3>1. /\ hand \notin DoublyReleased
              /\ DoublyReleased' = DoublyReleased \cup {hand}
            BY <1>0, <1>16, <2>1, <2>3 DEF TypeOK, DoublyReleased, RecvClaim
        <3>2. Holding' = Holding
            BY <1>0, <1>16, <2>1, <2>3, KindsAssumption
            DEF TypeOK, Holding, RecvClaim, NotifyAll
        <3> QED
            BY <1>0, <1>16, <3>1, <3>2, PendTwice DEF RecvClaim, LeaveWindow
    <2> QED
        BY <2>1, <2>2, <2>3
<1>17. ASSUME RecvThrows PROVE PendAccounting'
    <2>1. Holding' = Holding /\ DoublyReleased' = DoublyReleased
        BY <1>0, <1>17
        DEF TypeOK, Holding, DoublyReleased, RecvThrows, locals, rx
    <2> QED
        BY <1>0, <1>17, <2>1, PendSame DEF RecvThrows
<1>18. ASSUME NEW h \in handlers, RunHandler(h) PROVE PendAccounting'
    <2>1. Holding' = Holding /\ DoublyReleased' = DoublyReleased
        BY <1>0, <1>18 DEF TypeOK, Holding, DoublyReleased, RunHandler, locals
    <2> QED
        BY <1>0, <1>18, <2>1, PendSame DEF RunHandler
<1>19. ASSUME NEW f \in Flushes, Flush(f) PROVE PendAccounting'
    <2>1. Holding' = Holding /\ DoublyReleased' = DoublyReleased
        BY <1>0, <1>19, KindsAssumption
        DEF TypeOK, Holding, DoublyReleased, Flush, Go, rx
    <2> QED
        BY <1>0, <1>19, <2>1, PendSame DEF Flush
<1>20. ASSUME NEW c \in Calls, Answer(c) PROVE PendAccounting'
    <2>1. Holding' = Holding /\ DoublyReleased' = DoublyReleased
        BY <1>0, <1>20 DEF TypeOK, Holding, DoublyReleased, Answer, locals, rx
    <2> QED
        BY <1>0, <1>20, <2>1, PendSame DEF Answer
<1>21. ASSUME NEW c \in Calls, Lose(c) PROVE PendAccounting'
    <2>1. Holding' = Holding /\ DoublyReleased' = DoublyReleased
        BY <1>0, <1>21 DEF TypeOK, Holding, DoublyReleased, Lose, locals, rx
    <2> QED
        BY <1>0, <1>21, <2>1, PendSame DEF Lose
<1>22. ASSUME LinkFails PROVE PendAccounting'
    <2>1. Holding' = Holding /\ DoublyReleased' = DoublyReleased
        BY <1>0, <1>22
        DEF TypeOK, Holding, DoublyReleased, LinkFails, locals, rx
    <2> QED
        BY <1>0, <1>22, <2>1, PendSame DEF LinkFails
<1>23. ASSUME Disconnect PROVE PendAccounting'
    <2>1. Holding' = Holding /\ DoublyReleased' = DoublyReleased
        BY <1>0, <1>23
        DEF TypeOK, Holding, DoublyReleased, Disconnect, locals, rx
    <2> QED
        BY <1>0, <1>23, <2>1, PendSame DEF Disconnect
<1>24. ASSUME UNCHANGED vars PROVE PendAccounting'
    <2>1. Holding' = Holding /\ DoublyReleased' = DoublyReleased
        BY <1>0, <1>24 DEF TypeOK, Holding, DoublyReleased, vars, locals, rx
    <2> QED
        BY <1>0, <1>24, <2>1, PendSame DEF vars
<1> QED
    BY <1>1, <1>2, <1>3, <1>4, <1>5, <1>6, <1>7, <1>8, <1>9, <1>10, <1>11,
       <1>12, <1>13, <1>14, <1>15, <1>16, <1>17, <1>18, <1>19, <1>20, <1>21,
       <1>22, <1>23, <1>24
    DEF Next, SendCmd, Timer, Recv, Device

-----------------------------------------------------------------------------
(* The theorems.                                                            *)

(* After connect() there is no call, no message and no callback.            *)
LEMMA CommandInvInit == Init => CommandInv
<1> SUFFICES ASSUME Init PROVE CommandInv
    OBVIOUS
<1>1. TypeOK
    <2>1. cnt \in 1 .. MaxCnt
        BY SizeAssumption DEF Init
    <2>2. /\ result \in [Ids -> Calls \cup {NULL}]
          /\ callbacks \in [Ids -> CallbackCalls \cup {NULL}]
          /\ invoked \in [CallbackCalls -> SUBSET (Calls \cup {"TIMEOUT"})]
        BY DEF Init
    <2>3. /\ pc \in [Threads -> PcSet]
          /\ id \in [Calls -> Ids \cup {0}]
          /\ returned \in [Calls -> Outcomes \cup Calls \cup {NULL}]
          /\ timer \in [CallbackCalls -> TimerSet]
        BY DEF Init
    <2>4. connected \in BOOLEAN /\ linkUp \in BOOLEAN /\ aborted \in BOOLEAN
        BY Zenon DEF Init
    <2>5. cmd_pend_count \in Int /\ recv \in RecvSet
        BY DEF Init
    <2>6. hand \in Calls \cup {NULL}
        BY DEF Init
    <2>7. /\ claimed \subseteq Calls /\ sent \subseteq Calls
          /\ executed \subseteq Calls /\ answers \subseteq Calls
          /\ handlers \subseteq [fn : CallbackCalls \cup {NULL}, arg : Calls]
        BY DEF Init
    <2> QED
        BY <2>1, <2>2, <2>3, <2>4, <2>5, <2>6, <2>7 DEF TypeOK
<1>2. NoOverrun
    BY DEF Init, NoOverrun, Live
<1>3. MessagesInv /\ IdsInv /\ ReceiverInv
    BY NullAssumption
    DEF Init, MessagesInv, IdsInv, ReceiverInv, InFlight, Unwritten
<1>4. TableInv
    BY DEF Init, TableInv
<1>5. PendAccounting
    <2>1. Holding = {} /\ DoublyReleased = {}
        BY NullAssumption DEF Init, Holding, DoublyReleased
    <2> QED
        BY <2>1, FS_EmptySet DEF Init, PendAccounting
<1> QED
    BY <1>1, <1>2, <1>3, <1>4, <1>5 DEF CommandInv

(* The inductive step.  That no id is taken while its previous holder is    *)
(* live is the assumption NoOverrun, here for the state after the step.     *)
LEMMA CommandInvStep ==
    CommandInv /\ [Next /\ NoOverrun']_vars => CommandInv'
<1> SUFFICES ASSUME CommandInv, [Next /\ NoOverrun']_vars
             PROVE  CommandInv'
    OBVIOUS
<1>1. NoOverrun'
    <2>1. CASE NoOverrun'
        BY <2>1
    <2>2. CASE UNCHANGED vars
        BY <2>2 DEF CommandInv, NoOverrun, Live, vars, locals, rx, arm
    <2> QED
        BY <2>1, <2>2
<1> QED
    BY <1>1, TypeStep, MessagesStep, IdsStep, TableStep, ReceiverStep, PendStep
    DEF CommandInv

(* The inductive invariant: messages, ids, the callback table and the       *)
(* window counter of _send_cmd, its timer and the receiver stay consistent. *)
THEOREM CommandInvariant == Spec => []CommandInv
BY CommandInvInit, CommandInvStep, PTL DEF Spec

(* Every table is only indexed by valid ids and every variable keeps its    *)
(* type, whatever number of calls, MAX_CNT and window.                      *)
THEOREM TypeCorrect == Spec => []TypeOK
<1>1. CommandInv => TypeOK
    BY DEF CommandInv
<1> QED
    BY <1>1, CommandInvariant, PTL

(* cmd_pend_count is the number of places held less the double releases of  *)
(* the race between _timeout_callback and the receiver, and nothing else    *)
(* ever makes it wrong.                                                     *)
THEOREM Accounting == Spec => []PendAccounting
<1>1. CommandInv => PendAccounting
    BY DEF CommandInv
<1> QED
    BY <1>1, CommandInvariant, PTL

(* A step that raises the counter is an entry through an open window, so    *)
(* the counter never exceeds cmd_pend_size.                                 *)
LEMMA CountBound == Spec => [](cmd_pend_count <= CmdPendSize)
<1> DEFINE Bound == cmd_pend_count <= CmdPendSize
<1>1. Init => Bound
    BY SizeAssumption DEF Init
<1>2. TypeOK /\ Bound /\ [Next]_vars => Bound'
    <2> SUFFICES ASSUME TypeOK, Bound, [Next]_vars PROVE Bound'
        OBVIOUS
    <2>1. \/ UNCHANGED cmd_pend_count
          \/ cmd_pend_count' = cmd_pend_count - 1
          \/ WindowOpen /\ cmd_pend_count' = cmd_pend_count + 1
        BY DEF Next, SendCmd, Timer, Recv, Device, Begin, TakeId, Reenter,
            Prepare, ReleaseBare, Write, WriteThrows, PollHit, PollReturn,
            PollTimeout, TimerCheck, TimerRelease, TimerCall, RecvRead,
            RecvDispatch, RecvClaim, RecvThrows, RunHandler, Flush, Answer,
            Lose, LinkFails, Disconnect, EnterWindow, LeaveWindow, vars
    <2> QED
        BY <2>1, SizeAssumption DEF TypeOK, WindowOpen
<1> QED
    BY <1>1, <1>2, TypeCorrect, PTL DEF Spec

(* No more than cmd_pend_size calls are inside the window, one more for     *)
(* every call that was released twice.                                      *)
THEOREM WindowBound == Spec => []WindowHolds
<1>1. PendAccounting /\ cmd_pend_count <= CmdPendSize => WindowHolds
    <2>1. Cardinality(Holding) \in Nat /\ Cardinality(DoublyReleased) \in Nat
        BY HeldFinite, FS_CardinalityType
    <2> QED
        BY <2>1, SizeAssumption DEF PendAccounting, WindowHolds
<1> QED
    BY <1>1, Accounting, CountBound, PTL

-----------------------------------------------------------------------------
(* The condition variable.                                                  *)

(* A step that makes a predicate of the two waits true wakes everybody up,  *)
(* and a thread goes to sleep only on a false predicate.                    *)
LEMMA WakeupStep ==
    TypeOK /\ NoLostWakeup /\ [Next]_vars => NoLostWakeup'
<1> SUFFICES ASSUME TypeOK, NoLostWakeup, [Next]_vars
             PROVE  NoLostWakeup'
    OBVIOUS
<1>1. ASSUME NEW c \in Calls, Begin(c) PROVE NoLostWakeup'
    BY KindsAssumption, <1>1
    DEF TypeOK, NoLostWakeup, WindowOpen, WindowEmpty, Begin, Go
<1>2. ASSUME NEW c \in Calls, TakeId(c) PROVE NoLostWakeup'
    <2>1. CASE WindowOpen
        BY KindsAssumption, <1>2, <2>1
        DEF TypeOK, NoLostWakeup, TakeId, EnterWindow, NotifyAllAndGo
    <2>2. CASE ~WindowOpen
        BY KindsAssumption, SizeAssumption, <1>2, <2>2
        DEF TypeOK, NoLostWakeup, WindowOpen, TakeId, EnterWindow, Go
    <2> QED
        BY <2>1, <2>2
<1>3. ASSUME NEW c \in Calls, Reenter(c) PROVE NoLostWakeup'
    <2>1. CASE WindowOpen
        BY KindsAssumption, <1>3, <2>1
        DEF TypeOK, NoLostWakeup, Reenter, EnterWindow, NotifyAllAndGo
    <2>2. CASE ~WindowOpen
        BY KindsAssumption, SizeAssumption, <1>3, <2>2
        DEF TypeOK, NoLostWakeup, WindowOpen, Reenter, EnterWindow, Go
    <2> QED
        BY <2>1, <2>2
<1>4. ASSUME NEW c \in Calls, Prepare(c) PROVE NoLostWakeup'
    BY KindsAssumption, <1>4
    DEF TypeOK, NoLostWakeup, WindowOpen, WindowEmpty, Prepare, Go
<1>5. ASSUME NEW c \in Calls, ReleaseBare(c) PROVE NoLostWakeup'
    BY KindsAssumption, <1>5
    DEF TypeOK, NoLostWakeup, WindowOpen, WindowEmpty, ReleaseBare,
        NotifyAllAndGo
<1>6. ASSUME NEW c \in Calls, Write(c) PROVE NoLostWakeup'
    BY KindsAssumption, <1>6
    DEF TypeOK, NoLostWakeup, WindowOpen, WindowEmpty, Write, Go
<1>7. ASSUME NEW c \in Calls, WriteThrows(c) PROVE NoLostWakeup'
    BY KindsAssumption, <1>7
    DEF TypeOK, NoLostWakeup, WindowOpen, WindowEmpty, WriteThrows, Go
<1>8. ASSUME NEW c \in Calls, PollHit(c) PROVE NoLostWakeup'
    BY KindsAssumption, <1>8
    DEF TypeOK, NoLostWakeup, WindowOpen, WindowEmpty, PollHit, NotifyAllAndGo
<1>9. ASSUME NEW c \in Calls, PollReturn(c) PROVE NoLostWakeup'
    BY KindsAssumption, <1>9
    DEF TypeOK, NoLostWakeup, WindowOpen, WindowEmpty, PollReturn, Go
<1>10. ASSUME NEW c \in Calls, PollTimeout(c) PROVE NoLostWakeup'
    BY KindsAssumption, <1>10
    DEF TypeOK, NoLostWakeup, WindowOpen, WindowEmpty, PollTimeout,
        NotifyAllAndGo
<1>11. ASSUME NEW c \in CallbackCalls, TimerCheck(c) PROVE NoLostWakeup'
    BY KindsAssumption, <1>11
    DEF TypeOK, NoLostWakeup, WindowOpen, WindowEmpty, TimerCheck, locals
<1>12. ASSUME NEW c \in CallbackCalls, TimerRelease(c) PROVE NoLostWakeup'
    BY KindsAssumption, <1>12
    DEF TypeOK, NoLostWakeup, WindowOpen, WindowEmpty, TimerRelease, NotifyAll
<1>13. ASSUME NEW c \in CallbackCalls, TimerCall(c) PROVE NoLostWakeup'
    BY KindsAssumption, <1>13
    DEF TypeOK, NoLostWakeup, WindowOpen, WindowEmpty, TimerCall, locals
<1>14. ASSUME NEW c \in answers, RecvRead(c) PROVE NoLostWakeup'
    BY KindsAssumption, <1>14
    DEF TypeOK, NoLostWakeup, WindowOpen, WindowEmpty, RecvRead, locals
<1>15. ASSUME RecvDispatch PROVE NoLostWakeup'
    BY KindsAssumption, <1>15
    DEF TypeOK, NoLostWakeup, WindowOpen, WindowEmpty, RecvDispatch, locals
<1>16. ASSUME RecvClaim PROVE NoLostWakeup'
    BY KindsAssumption, <1>16
    DEF TypeOK, NoLostWakeup, WindowOpen, WindowEmpty, RecvClaim, NotifyAll
<1>17. ASSUME RecvThrows PROVE NoLostWakeup'
    BY KindsAssumption, <1>17
    DEF TypeOK, NoLostWakeup, WindowOpen, WindowEmpty, RecvThrows, locals
<1>18. ASSUME NEW h \in handlers, RunHandler(h) PROVE NoLostWakeup'
    BY KindsAssumption, <1>18
    DEF TypeOK, NoLostWakeup, WindowOpen, WindowEmpty, RunHandler, locals
<1>19. ASSUME NEW f \in Flushes, Flush(f) PROVE NoLostWakeup'
    BY KindsAssumption, <1>19
    DEF TypeOK, NoLostWakeup, WindowOpen, WindowEmpty, Flush, Go
<1>20. ASSUME NEW c \in Calls, Answer(c) PROVE NoLostWakeup'
    BY KindsAssumption, <1>20
    DEF TypeOK, NoLostWakeup, WindowOpen, WindowEmpty, Answer, locals
<1>21. ASSUME NEW c \in Calls, Lose(c) PROVE NoLostWakeup'
    BY KindsAssumption, <1>21
    DEF TypeOK, NoLostWakeup, WindowOpen, WindowEmpty, Lose, locals
<1>22. ASSUME LinkFails PROVE NoLostWakeup'
    BY KindsAssumption, <1>22
    DEF TypeOK, NoLostWakeup, WindowOpen, WindowEmpty, LinkFails, locals
<1>23. ASSUME Disconnect PROVE NoLostWakeup'
    BY KindsAssumption, <1>23
    DEF TypeOK, NoLostWakeup, WindowOpen, WindowEmpty, Disconnect, locals
<1>24. ASSUME UNCHANGED vars PROVE NoLostWakeup'
    BY KindsAssumption, <1>24
    DEF TypeOK, NoLostWakeup, WindowOpen, WindowEmpty, vars, locals
<1> QED
    BY <1>1, <1>2, <1>3, <1>4, <1>5, <1>6, <1>7, <1>8, <1>9, <1>10, <1>11,
       <1>12, <1>13, <1>14, <1>15, <1>16, <1>17, <1>18, <1>19, <1>20, <1>21,
       <1>22, <1>23, <1>24
    DEF Next, SendCmd, Timer, Recv, Device

(* Nobody sleeps in cmd_cond while the predicate it waits for holds.        *)
THEOREM NoWakeupIsLost == Spec => []NoLostWakeup
<1>1. Init => NoLostWakeup
    BY DEF Init, NoLostWakeup
<1> QED
    BY <1>1, WakeupStep, TypeCorrect, PTL DEF Spec

(* A flush_cmd gets through only on an empty window.                        *)
LEMMA FlushStep ==
    ASSUME TypeOK, [Next]_vars, NEW f \in Flushes,
           pc[f] # "done", pc'[f] = "done"
    PROVE  WindowEmpty
<1>1. ASSUME NEW c \in Calls, Begin(c) PROVE WindowEmpty
    BY KindsAssumption, <1>1 DEF TypeOK, WindowEmpty, Begin, Go
<1>2. ASSUME NEW c \in Calls, TakeId(c) PROVE WindowEmpty
    BY KindsAssumption, <1>2
    DEF TypeOK, WindowEmpty, TakeId, EnterWindow, NotifyAllAndGo, Go
<1>3. ASSUME NEW c \in Calls, Reenter(c) PROVE WindowEmpty
    BY KindsAssumption, <1>3
    DEF TypeOK, WindowEmpty, Reenter, EnterWindow, NotifyAllAndGo, Go
<1>4. ASSUME NEW c \in Calls, Prepare(c) PROVE WindowEmpty
    BY KindsAssumption, <1>4 DEF TypeOK, WindowEmpty, Prepare, Go
<1>5. ASSUME NEW c \in Calls, ReleaseBare(c) PROVE WindowEmpty
    BY KindsAssumption, <1>5
    DEF TypeOK, WindowEmpty, ReleaseBare, NotifyAllAndGo
<1>6. ASSUME NEW c \in Calls, Write(c) PROVE WindowEmpty
    BY KindsAssumption, <1>6 DEF TypeOK, WindowEmpty, Write, Go
<1>7. ASSUME NEW c \in Calls, WriteThrows(c) PROVE WindowEmpty
    BY KindsAssumption, <1>7 DEF TypeOK, WindowEmpty, WriteThrows, Go
<1>8. ASSUME NEW c \in Calls, PollHit(c) PROVE WindowEmpty
    BY KindsAssumption, <1>8 DEF TypeOK, WindowEmpty, PollHit, NotifyAllAndGo
<1>9. ASSUME NEW c \in Calls, PollReturn(c) PROVE WindowEmpty
    BY KindsAssumption, <1>9 DEF TypeOK, WindowEmpty, PollReturn, Go
<1>10. ASSUME NEW c \in Calls, PollTimeout(c) PROVE WindowEmpty
    BY KindsAssumption, <1>10
    DEF TypeOK, WindowEmpty, PollTimeout, NotifyAllAndGo
<1>11. ASSUME NEW c \in CallbackCalls, TimerCheck(c) PROVE WindowEmpty
    BY KindsAssumption, <1>11 DEF TypeOK, WindowEmpty, TimerCheck, locals
<1>12. ASSUME NEW c \in CallbackCalls, TimerRelease(c) PROVE WindowEmpty
    BY KindsAssumption, <1>12 DEF TypeOK, WindowEmpty, TimerRelease, NotifyAll
<1>13. ASSUME NEW c \in CallbackCalls, TimerCall(c) PROVE WindowEmpty
    BY KindsAssumption, <1>13 DEF TypeOK, WindowEmpty, TimerCall, locals
<1>14. ASSUME NEW c \in answers, RecvRead(c) PROVE WindowEmpty
    BY KindsAssumption, <1>14 DEF TypeOK, WindowEmpty, RecvRead, locals
<1>15. ASSUME RecvDispatch PROVE WindowEmpty
    BY KindsAssumption, <1>15 DEF TypeOK, WindowEmpty, RecvDispatch, locals
<1>16. ASSUME RecvClaim PROVE WindowEmpty
    BY KindsAssumption, <1>16 DEF TypeOK, WindowEmpty, RecvClaim, NotifyAll
<1>17. ASSUME RecvThrows PROVE WindowEmpty
    BY KindsAssumption, <1>17 DEF TypeOK, WindowEmpty, RecvThrows, locals
<1>18. ASSUME NEW h \in handlers, RunHandler(h) PROVE WindowEmpty
    BY KindsAssumption, <1>18 DEF TypeOK, WindowEmpty, RunHandler, locals
<1>19. ASSUME NEW g \in Flushes, Flush(g) PROVE WindowEmpty
    BY KindsAssumption, <1>19 DEF TypeOK, WindowEmpty, Flush, Go
<1>20. ASSUME NEW c \in Calls, Answer(c) PROVE WindowEmpty
    BY KindsAssumption, <1>20 DEF TypeOK, WindowEmpty, Answer, locals
<1>21. ASSUME NEW c \in Calls, Lose(c) PROVE WindowEmpty
    BY KindsAssumption, <1>21 DEF TypeOK, WindowEmpty, Lose, locals
<1>22. ASSUME LinkFails PROVE WindowEmpty
    BY KindsAssumption, <1>22 DEF TypeOK, WindowEmpty, LinkFails, locals
<1>23. ASSUME Disconnect PROVE WindowEmpty
    BY KindsAssumption, <1>23 DEF TypeOK, WindowEmpty, Disconnect, locals
<1>24. ASSUME UNCHANGED vars PROVE WindowEmpty
    BY KindsAssumption, <1>24 DEF TypeOK, WindowEmpty, vars, locals
<1> QED
    BY <1>1, <1>2, <1>3, <1>4, <1>5, <1>6, <1>7, <1>8, <1>9, <1>10, <1>11,
       <1>12, <1>13, <1>14, <1>15, <1>16, <1>17, <1>18, <1>19, <1>20, <1>21,
       <1>22, <1>23, <1>24
    DEF Next, SendCmd, Timer, Recv, Device

(* A flush_cmd that returns while no call has been released twice returns   *)
(* on a window nobody is in.                                                *)
THEOREM FlushIsCovered == Spec => FlushCovers
<1>1. CommandInv /\ [Next]_vars =>
        \A f \in Flushes :
            pc[f] # "done" /\ pc'[f] = "done" /\ DoublyReleased = {}
              => Holding = {}
    <2> SUFFICES ASSUME CommandInv, [Next]_vars, NEW f \in Flushes,
                        pc[f] # "done", pc'[f] = "done", DoublyReleased = {}
                 PROVE  Holding = {}
        OBVIOUS
    <2>1. cmd_pend_count = 0
        BY FlushStep DEF CommandInv, WindowEmpty
    <2>2. Cardinality(Holding) \in Nat /\ Cardinality(DoublyReleased) = 0
        BY HeldFinite, FS_CardinalityType, FS_EmptySet
    <2>3. Cardinality(Holding) = 0
        BY <2>1, <2>2 DEF CommandInv, PendAccounting
    <2> QED
        BY <2>3, HeldFinite, FS_EmptySet
<1> QED
    BY <1>1, CommandInvariant, PTL DEF Spec, FlushCovers

(* Whoever sleeps in cmd_cond waits for somebody who is not asleep: the     *)
(* channel is never at a standstill with a place given up or no place       *)
(* taken.                                                                   *)
THEOREM NobodySleepsAlone == Spec => []SleepersDepend
<1>1. ASSUME CommandInv, NoLostWakeup PROVE SleepersDepend
    <2> SUFFICES ASSUME NEW t \in Threads, pc[t] = "waiting"
                 PROVE  \/ \E c \in Calls \ {t} :
                              WillLeave(c) \/ returned[c] = "Exception"
                        \/ t \in Flushes /\ DoublyReleased # {}
        BY DEF SleepersDepend
    <2>0. TypeOK /\ PendAccounting /\ IdsInv /\ MessagesInv
        BY <1>1 DEF CommandInv
    <2>1. /\ Cardinality(Holding) \in Nat /\ Cardinality(DoublyReleased) \in Nat
          /\ (Cardinality(Holding) = 0 <=> Holding = {})
          /\ (Cardinality(DoublyReleased) = 0 <=> DoublyReleased = {})
        BY HeldFinite, FS_CardinalityType, FS_EmptySet
    <2>2. ASSUME Holding # {}
          PROVE  \E c \in Calls \ {t} : WillLeave(c) \/ returned[c] = "Exception"
        <3>1. PICK c \in Holding : TRUE
            BY <2>2
        <3>2. c \in Calls /\ (WillLeave(c) \/ returned[c] = "Exception")
            BY <3>1 DEF Holding, WillLeave
        <3>3. c # t
            BY <2>0, <3>1, NullAssumption DEF Holding, MessagesInv, IdsInv
        <3> QED
            BY <3>2, <3>3
    <2>3. CASE t \in Calls
        <3>1. cmd_pend_count >= CmdPendSize
            BY <1>1, <2>3 DEF NoLostWakeup
        <3>2. Cardinality(Holding) # 0
            BY <2>0, <2>1, <3>1, SizeAssumption DEF PendAccounting
        <3> QED
            BY <2>1, <2>2, <3>2
    <2>4. CASE t \in Flushes
        <3>1. cmd_pend_count # 0
            BY <1>1, <2>4 DEF NoLostWakeup
        <3>2. Holding # {} \/ DoublyReleased # {}
            BY <2>0, <2>1, <3>1 DEF PendAccounting
        <3> QED
            BY <2>2, <2>4, <3>2
    <2> QED
        BY <2>3, <2>4
<1> QED
    BY <1>1, CommandInvariant, NoWakeupIsLost, PTL

-----------------------------------------------------------------------------
(* Without the assumption on ids.                                           *)

(* As long as no id has been used twice, the counter counts the calls that  *)
(* have one, and they have different ones.                                  *)
Begun == {c \in Calls : id[c] # 0}

FreshIds ==
    /\ pc \in [Threads -> PcSet]
    /\ id \in [Calls -> Nat]
    /\ cnt = Cardinality(Begun) + 1
    /\ \A c \in Calls : id[c] < cnt
    /\ \A c \in Begun : pc[c] \notin {"idle", "locking"}
    /\ \A c, d \in Begun : id[c] = id[d] => c = d

LEMMA BegunCount ==
    /\ IsFiniteSet(Begun) /\ Cardinality(Begun) \in Nat
    /\ \A c \in Calls \ Begun : Cardinality(Begun) < Cardinality(Calls)
<1>1. Begun \in SUBSET Calls
    BY DEF Begun
<1>2. /\ IsFiniteSet(Begun) /\ Cardinality(Begun) <= Cardinality(Calls)
      /\ Cardinality(Calls) = Cardinality(Begun) => Calls = Begun
    BY <1>1, FS_Subset, KindsAssumption
<1>3. Cardinality(Begun) \in Nat /\ Cardinality(Calls) \in Nat
    BY <1>2, FS_CardinalityType, KindsAssumption
<1> QED
    BY <1>2, <1>3

(* The first MaxCnt - 1 ids are all different.                              *)
LEMMA FreshStep ==
    ASSUME Cardinality(Calls) < MaxCnt, FreshIds, [Next]_vars
    PROVE  FreshIds'
<1>1. ASSUME NEW c \in Calls, TakeId(c) PROVE FreshIds'
    <2>1. c \notin Begun /\ c \in Calls
        BY <1>1 DEF TakeId, FreshIds
    <2>2. cnt \in Nat \ {0} /\ cnt < MaxCnt
        <3>1. Cardinality(Calls) \in Nat
            BY FS_CardinalityType, KindsAssumption
        <3>2. Cardinality(Begun) \in Nat /\ Cardinality(Begun) < Cardinality(Calls)
            BY <2>1, BegunCount
        <3>3. Cardinality(Calls) < MaxCnt /\ MaxCnt \in Nat
            BY SizeAssumption
        <3>4. cnt = Cardinality(Begun) + 1
            BY DEF FreshIds
        <3> HIDE DEF Calls
        <3> QED
            BY <3>1, <3>2, <3>3, <3>4
    <2>3. id' = [id EXCEPT ![c] = cnt] /\ cnt' = cnt + 1
        <3>1. NextId = cnt
            BY <2>2, SizeAssumption DEF NextId
        <3> QED
            BY <1>1, <3>1 DEF TakeId
    <2>4. Begun' = Begun \cup {c}
        BY <2>1, <2>2, <2>3 DEF Begun, FreshIds
    <2>5. Cardinality(Begun') = Cardinality(Begun) + 1
        BY <2>1, <2>4, BegunCount, FS_AddElement
    <2>6. pc' \in [Threads -> PcSet]
        BY <1>1 DEF TakeId, EnterWindow, NotifyAllAndGo, Go, FreshIds
    <2>7. \A d \in Begun' : pc'[d] \notin {"idle", "locking"}
        BY <1>1, <2>4 DEF TakeId, EnterWindow, NotifyAllAndGo, Go, FreshIds, Begun
    <2>8. id' \in [Calls -> Nat] /\ \A d \in Calls : id'[d] < cnt'
        BY <2>2, <2>3 DEF FreshIds
    <2>9. \A d, b \in Begun' : id'[d] = id'[b] => d = b
        BY <2>1, <2>2, <2>3, <2>4 DEF FreshIds, Begun
    <2> QED
        BY <2>3, <2>5, <2>6, <2>7, <2>8, <2>9 DEF FreshIds
<1>2. ASSUME UNCHANGED <<id, cnt>>, pc' \in [Threads -> PcSet],
             \A t \in Threads : pc'[t] \in {"idle", "locking"} =>
                 pc[t] \in {"idle", "locking"}
      PROVE  FreshIds'
    BY <1>2 DEF FreshIds, Begun
<1>3. ASSUME NEW c \in Calls, SendCmd(c), ~TakeId(c) PROVE FreshIds'
    BY <1>2, <1>3
    DEF FreshIds, SendCmd, Begin, Reenter, Prepare, ReleaseBare, Write,
        WriteThrows, PollHit, PollReturn, PollTimeout, EnterWindow, Go,
        NotifyAllAndGo
<1>4. ASSUME NEW c \in CallbackCalls, Timer(c) PROVE FreshIds'
    BY <1>2, <1>4
    DEF FreshIds, Timer, TimerCheck, TimerRelease, TimerCall, NotifyAll, locals
<1>5. ASSUME Recv PROVE FreshIds'
    BY <1>2, <1>5
    DEF FreshIds, Recv, RecvRead, RecvDispatch, RecvClaim, RecvThrows,
        NotifyAll, locals
<1>6. ASSUME NEW h \in handlers, RunHandler(h) PROVE FreshIds'
    BY <1>2, <1>6 DEF FreshIds, RunHandler, locals
<1>7. ASSUME NEW f \in Flushes, Flush(f) PROVE FreshIds'
    BY <1>2, <1>7 DEF FreshIds, Flush, Go
<1>8. ASSUME Device PROVE FreshIds'
    BY <1>2, <1>8
    DEF FreshIds, Device, Answer, Lose, LinkFails, Disconnect, locals
<1>9. ASSUME UNCHANGED vars PROVE FreshIds'
    BY <1>2, <1>9 DEF FreshIds, vars, locals
<1> QED
    BY <1>1, <1>3, <1>4, <1>5, <1>6, <1>7, <1>8, <1>9 DEF Next

(* With fewer than MAX_CNT calls nothing need be assumed about ids: the     *)
(* code alone keeps NoOverrun, and every theorem about Spec holds of it.    *)
THEOREM FewCallsNeverOverrun ==
    ASSUME Cardinality(Calls) < MaxCnt
    PROVE  Init /\ [][Next]_vars => Spec
<1>1. Init => FreshIds
    <2> SUFFICES ASSUME Init PROVE FreshIds
        OBVIOUS
    <2>1. Begun = {}
        BY DEF Init, Begun
    <2>2. Cardinality(Begun) = 0
        BY <2>1, FS_EmptySet
    <2> QED
        BY <2>1, <2>2 DEF Init, FreshIds
<1>2. FreshIds /\ [Next]_vars => FreshIds'
    BY FreshStep
<1>3. FreshIds => NoOverrun
    BY DEF FreshIds, NoOverrun, Live, Begun
<1> QED
    BY <1>1, <1>2, <1>3, PTL DEF Spec

-----------------------------------------------------------------------------
(* SwiftCommand implements CommandPromise, and no callback is lost.         *)

(* A refused command is never executed and an executed one only once.       *)
LEMMA ExecutedStep ==
    CommandInv /\ ExecutedInv /\ [Next /\ NoOverrun']_vars => ExecutedInv'
<1> SUFFICES ASSUME CommandInv, ExecutedInv, [Next /\ NoOverrun']_vars
             PROVE  ExecutedInv'
    OBVIOUS
<1>0. /\ TypeOK /\ NoOverrun /\ MessagesInv /\ IdsInv /\ TableInv
      /\ ReceiverInv /\ ExecutedInv
    BY DEF CommandInv
<1>1. ASSUME NEW c \in Calls, Begin(c) PROVE ExecutedInv'
    BY <1>0, <1>1
    DEF TypeOK, MessagesInv, InFlight, Unwritten, ExecutedInv, Begin, Go, rx,
        arm
<1>2. ASSUME NEW c \in Calls, TakeId(c) PROVE ExecutedInv'
    BY <1>0, <1>2
    DEF TypeOK, MessagesInv, InFlight, Unwritten, ExecutedInv, TakeId,
        EnterWindow, NotifyAllAndGo, Go, rx, arm
<1>3. ASSUME NEW c \in Calls, Reenter(c) PROVE ExecutedInv'
    BY <1>0, <1>3
    DEF TypeOK, MessagesInv, InFlight, Unwritten, ExecutedInv, Reenter,
        EnterWindow, NotifyAllAndGo, Go, rx, arm
<1>4. ASSUME NEW c \in Calls, Prepare(c) PROVE ExecutedInv'
    BY <1>0, <1>4
    DEF TypeOK, MessagesInv, InFlight, Unwritten, ExecutedInv, Prepare, Go, rx,
        arm
<1>5. ASSUME NEW c \in Calls, ReleaseBare(c) PROVE ExecutedInv'
    BY <1>0, <1>5
    DEF TypeOK, MessagesInv, InFlight, Unwritten, ExecutedInv, ReleaseBare,
        NotifyAllAndGo, rx, arm
<1>6. ASSUME NEW c \in Calls, Write(c) PROVE ExecutedInv'
    BY <1>0, <1>6, NullAssumption
    DEF TypeOK, MessagesInv, InFlight, Unwritten, ExecutedInv, Write, Go, rx
<1>7. ASSUME NEW c \in Calls, WriteThrows(c) PROVE ExecutedInv'
    BY <1>0, <1>7
    DEF TypeOK, MessagesInv, InFlight, Unwritten, ExecutedInv, WriteThrows, Go,
        rx, arm
<1>8. ASSUME NEW c \in Calls, PollHit(c) PROVE ExecutedInv'
    BY <1>0, <1>8
    DEF TypeOK, MessagesInv, InFlight, Unwritten, ExecutedInv, PollHit,
        NotifyAllAndGo, rx, arm
<1>9. ASSUME NEW c \in Calls, PollReturn(c) PROVE ExecutedInv'
    <2>1. returned'[c] \notin {"NotConnected", "Exception"}
        BY <1>0, <1>9, NullAssumption DEF TypeOK, IdsInv, PollReturn
    <2> QED
        BY <1>0, <1>9, <2>1
        DEF TypeOK, MessagesInv, InFlight, Unwritten, ExecutedInv, PollReturn,
            Go, rx, arm
<1>10. ASSUME NEW c \in Calls, PollTimeout(c) PROVE ExecutedInv'
    BY <1>0, <1>10
    DEF TypeOK, MessagesInv, InFlight, Unwritten, ExecutedInv, PollTimeout,
        NotifyAllAndGo, rx, arm
<1>11. ASSUME NEW c \in CallbackCalls, TimerCheck(c) PROVE ExecutedInv'
    BY <1>0, <1>11
    DEF TypeOK, MessagesInv, InFlight, Unwritten, ExecutedInv, TimerCheck,
        locals, rx, arm
<1>12. ASSUME NEW c \in CallbackCalls, TimerRelease(c) PROVE ExecutedInv'
    BY <1>0, <1>12
    DEF TypeOK, MessagesInv, InFlight, Unwritten, ExecutedInv, TimerRelease,
        NotifyAll, rx, arm
<1>13. ASSUME NEW c \in CallbackCalls, TimerCall(c) PROVE ExecutedInv'
    BY <1>0, <1>13
    DEF TypeOK, MessagesInv, InFlight, Unwritten, ExecutedInv, TimerCall,
        locals, rx, arm
<1>14. ASSUME NEW c \in answers, RecvRead(c) PROVE ExecutedInv'
    BY <1>0, <1>14
    DEF TypeOK, MessagesInv, InFlight, Unwritten, ExecutedInv, RecvRead, locals
<1>15. ASSUME RecvDispatch PROVE ExecutedInv'
    BY <1>0, <1>15, NullAssumption
    DEF TypeOK, MessagesInv, InFlight, Unwritten, ExecutedInv, RecvDispatch,
        locals, arm
<1>16. ASSUME RecvClaim PROVE ExecutedInv'
    BY <1>0, <1>16, NullAssumption
    DEF TypeOK, MessagesInv, InFlight, Unwritten, ExecutedInv, RecvClaim,
        NotifyAll, arm
<1>17. ASSUME RecvThrows PROVE ExecutedInv'
    BY <1>0, <1>17
    DEF TypeOK, MessagesInv, InFlight, Unwritten, ExecutedInv, RecvThrows,
        locals, rx, arm
<1>18. ASSUME NEW h \in handlers, RunHandler(h) PROVE ExecutedInv'
    BY <1>0, <1>18
    DEF TypeOK, MessagesInv, InFlight, Unwritten, ExecutedInv, RunHandler,
        locals, arm
<1>19. ASSUME NEW f \in Flushes, Flush(f) PROVE ExecutedInv'
    BY <1>0, <1>19
    DEF TypeOK, MessagesInv, InFlight, Unwritten, ExecutedInv, Flush, Go, rx,
        arm
<1>20. ASSUME NEW c \in Calls, Answer(c) PROVE ExecutedInv'
    BY <1>0, <1>20
    DEF TypeOK, MessagesInv, InFlight, Unwritten, ExecutedInv, Answer, locals,
        rx
<1>21. ASSUME NEW c \in Calls, Lose(c) PROVE ExecutedInv'
    BY <1>0, <1>21
    DEF TypeOK, MessagesInv, InFlight, Unwritten, ExecutedInv, Lose, locals, rx
<1>22. ASSUME LinkFails PROVE ExecutedInv'
    BY <1>0, <1>22
    DEF TypeOK, MessagesInv, InFlight, Unwritten, ExecutedInv, LinkFails,
        locals, rx
<1>23. ASSUME Disconnect PROVE ExecutedInv'
    BY <1>0, <1>23
    DEF TypeOK, MessagesInv, InFlight, Unwritten, ExecutedInv, Disconnect,
        locals, rx, arm
<1>24. ASSUME UNCHANGED vars PROVE ExecutedInv'
    BY <1>0, <1>24
    DEF TypeOK, MessagesInv, InFlight, Unwritten, ExecutedInv, vars, locals,
        rx, arm
<1> QED
    BY <1>1, <1>2, <1>3, <1>4, <1>5, <1>6, <1>7, <1>8, <1>9, <1>10, <1>11,
       <1>12, <1>13, <1>14, <1>15, <1>16, <1>17, <1>18, <1>19, <1>20, <1>21,
       <1>22, <1>23, <1>24
    DEF Next, SendCmd, Timer, Recv, Device

(* result[] never holds the answer of another call under a caller's id.     *)
LEMMA ResultStep ==
    CommandInv /\ ExecutedInv /\ ResultInv /\ [Next /\ NoOverrun']_vars
        => ResultInv'
<1> SUFFICES ASSUME CommandInv, ExecutedInv, ResultInv,
                    [Next /\ NoOverrun']_vars
             PROVE  ResultInv'
    OBVIOUS
<1>0. /\ TypeOK /\ NoOverrun /\ MessagesInv /\ IdsInv /\ TableInv
      /\ ReceiverInv /\ ExecutedInv /\ ResultInv
    BY DEF CommandInv
<1>1. ASSUME NEW c \in Calls, Begin(c) PROVE ResultInv'
    BY <1>0, <1>1 DEF TypeOK, IdsInv, ResultInv, Begin, Go, arm
<1>2. ASSUME NEW c \in Calls, TakeId(c) PROVE ResultInv'
    BY <1>0, <1>2
    DEF TypeOK, IdsInv, ResultInv, TakeId, EnterWindow, NotifyAllAndGo, Go, arm
<1>3. ASSUME NEW c \in Calls, Reenter(c) PROVE ResultInv'
    BY <1>0, <1>3
    DEF TypeOK, IdsInv, ResultInv, Reenter, EnterWindow, NotifyAllAndGo, Go,
        arm
<1>4. ASSUME NEW c \in Calls, Prepare(c) PROVE ResultInv'
    <2>1. Live(c) /\ id[c] \in Ids
        BY <1>0, <1>4 DEF TypeOK, Prepare, Live, IdsInv
    <2>2. \A d \in Calls :
             /\ pc[d] \in {"bare", "write", "poll", "returning"}
             /\ id[d] = id[c]
             => d = c
        BY <1>0, <2>1 DEF IdsInv, Live, NoOverrun
    <2>3. /\ result' = [result EXCEPT ![id[c]] = NULL]
          /\ UNCHANGED <<id, executed>>
          /\ \A d \in Calls : d # c => pc'[d] = pc[d]
          /\ pc'[c] # "returning"
        BY <1>0, <1>4 DEF TypeOK, Prepare, ClearResult, Go, arm
    <2> QED
        BY <1>0, <2>1, <2>2, <2>3 DEF TypeOK, IdsInv, ResultInv
<1>5. ASSUME NEW c \in Calls, ReleaseBare(c) PROVE ResultInv'
    BY <1>0, <1>5
    DEF TypeOK, IdsInv, ResultInv, ReleaseBare, NotifyAllAndGo, arm
<1>6. ASSUME NEW c \in Calls, Write(c) PROVE ResultInv'
    BY <1>0, <1>6 DEF TypeOK, IdsInv, ResultInv, Write, Go
<1>7. ASSUME NEW c \in Calls, WriteThrows(c) PROVE ResultInv'
    BY <1>0, <1>7 DEF TypeOK, IdsInv, ResultInv, WriteThrows, Go, arm
<1>8. ASSUME NEW c \in Calls, PollHit(c) PROVE ResultInv'
    BY <1>0, <1>8 DEF TypeOK, IdsInv, ResultInv, PollHit, NotifyAllAndGo, arm
<1>9. ASSUME NEW c \in Calls, PollReturn(c) PROVE ResultInv'
    BY <1>0, <1>9 DEF TypeOK, IdsInv, ResultInv, PollReturn, Go, arm
<1>10. ASSUME NEW c \in Calls, PollTimeout(c) PROVE ResultInv'
    BY <1>0, <1>10
    DEF TypeOK, IdsInv, ResultInv, PollTimeout, NotifyAllAndGo, arm
<1>11. ASSUME NEW c \in CallbackCalls, TimerCheck(c) PROVE ResultInv'
    BY <1>0, <1>11 DEF TypeOK, IdsInv, ResultInv, TimerCheck, locals, arm
<1>12. ASSUME NEW c \in CallbackCalls, TimerRelease(c) PROVE ResultInv'
    BY <1>0, <1>12 DEF TypeOK, IdsInv, ResultInv, TimerRelease, NotifyAll, arm
<1>13. ASSUME NEW c \in CallbackCalls, TimerCall(c) PROVE ResultInv'
    BY <1>0, <1>13 DEF TypeOK, IdsInv, ResultInv, TimerCall, locals, arm
<1>14. ASSUME NEW c \in answers, RecvRead(c) PROVE ResultInv'
    BY <1>0, <1>14 DEF TypeOK, IdsInv, ResultInv, RecvRead, locals
<1>15. ASSUME RecvDispatch PROVE ResultInv'
    <2>1. hand \in executed /\ hand \in Calls /\ Live(hand) /\ id[hand] \in Ids
        BY <1>0, <1>15
        DEF TypeOK, RecvDispatch, ReceiverInv, IdsInv, InFlight, Live,
            ExecutedInv
    <2>2. \A d \in Calls :
             /\ pc[d] \in {"bare", "write", "poll", "returning"}
             /\ id[d] = id[hand]
             => d = hand
        BY <1>0, <2>1 DEF IdsInv, Live, NoOverrun
    <2>3. /\ \/ UNCHANGED result
             \/ result' = [result EXCEPT ![id[hand]] = hand]
          /\ UNCHANGED <<id, pc, executed>>
        BY <1>15 DEF RecvDispatch, locals, arm
    <2> QED
        BY <1>0, <2>1, <2>2, <2>3 DEF TypeOK, IdsInv, ResultInv
<1>16. ASSUME RecvClaim PROVE ResultInv'
    BY <1>0, <1>16 DEF TypeOK, IdsInv, ResultInv, RecvClaim, NotifyAll, arm
<1>17. ASSUME RecvThrows PROVE ResultInv'
    BY <1>0, <1>17 DEF TypeOK, IdsInv, ResultInv, RecvThrows, locals, arm
<1>18. ASSUME NEW h \in handlers, RunHandler(h) PROVE ResultInv'
    BY <1>0, <1>18 DEF TypeOK, IdsInv, ResultInv, RunHandler, locals, arm
<1>19. ASSUME NEW f \in Flushes, Flush(f) PROVE ResultInv'
    BY <1>0, <1>19 DEF TypeOK, IdsInv, ResultInv, Flush, Go, arm
<1>20. ASSUME NEW c \in Calls, Answer(c) PROVE ResultInv'
    BY <1>0, <1>20 DEF TypeOK, IdsInv, ResultInv, Answer, locals
<1>21. ASSUME NEW c \in Calls, Lose(c) PROVE ResultInv'
    BY <1>0, <1>21 DEF TypeOK, IdsInv, ResultInv, Lose, locals
<1>22. ASSUME LinkFails PROVE ResultInv'
    BY <1>0, <1>22 DEF TypeOK, IdsInv, ResultInv, LinkFails, locals
<1>23. ASSUME Disconnect PROVE ResultInv'
    BY <1>0, <1>23 DEF TypeOK, IdsInv, ResultInv, Disconnect, locals, arm
<1>24. ASSUME UNCHANGED vars PROVE ResultInv'
    BY <1>0, <1>24 DEF TypeOK, IdsInv, ResultInv, vars, locals, arm
<1> QED
    BY <1>1, <1>2, <1>3, <1>4, <1>5, <1>6, <1>7, <1>8, <1>9, <1>10, <1>11,
       <1>12, <1>13, <1>14, <1>15, <1>16, <1>17, <1>18, <1>19, <1>20, <1>21,
       <1>22, <1>23, <1>24
    DEF Next, SendCmd, Timer, Recv, Device

(* Handler threads and callbacks deal with their own answer, once.          *)
LEMMA ToldStep ==
    CommandInv /\ ExecutedInv /\ ToldInv /\ [Next /\ NoOverrun']_vars
        => ToldInv'
<1> SUFFICES ASSUME CommandInv, ExecutedInv, ToldInv, [Next /\ NoOverrun']_vars
             PROVE  ToldInv'
    OBVIOUS
<1>0. /\ TypeOK /\ NoOverrun /\ MessagesInv /\ IdsInv /\ TableInv
      /\ ReceiverInv /\ ExecutedInv /\ ToldInv
    BY DEF CommandInv
<1>1. ASSUME NEW c \in Calls, Begin(c) PROVE ToldInv'
    BY <1>0, <1>1, KindsAssumption
    DEF TypeOK, IdsInv, ToldInv, Begin, Go, rx, told
<1>2. ASSUME NEW c \in Calls, TakeId(c) PROVE ToldInv'
    BY <1>0, <1>2 DEF TypeOK, ToldInv, TakeId, Go, rx, told
<1>3. ASSUME NEW c \in Calls, Reenter(c) PROVE ToldInv'
    BY <1>0, <1>3 DEF TypeOK, ToldInv, Reenter, Go, rx, told
<1>4. ASSUME NEW c \in Calls, Prepare(c) PROVE ToldInv'
    BY <1>0, <1>4, KindsAssumption, NullAssumption
    DEF TypeOK, MessagesInv, IdsInv, ToldInv, Prepare, rx, told
<1>5. ASSUME NEW c \in Calls, ReleaseBare(c) PROVE ToldInv'
    BY <1>0, <1>5 DEF TypeOK, ToldInv, ReleaseBare, rx, told
<1>6. ASSUME NEW c \in Calls, Write(c) PROVE ToldInv'
    BY <1>0, <1>6 DEF TypeOK, ToldInv, Write, Go, rx, told
<1>7. ASSUME NEW c \in Calls, WriteThrows(c) PROVE ToldInv'
    BY <1>0, <1>7 DEF TypeOK, ToldInv, WriteThrows, Go, rx, told
<1>8. ASSUME NEW c \in Calls, PollHit(c) PROVE ToldInv'
    BY <1>0, <1>8 DEF TypeOK, ToldInv, PollHit, rx, told
<1>9. ASSUME NEW c \in Calls, PollReturn(c) PROVE ToldInv'
    BY <1>0, <1>9, KindsAssumption
    DEF TypeOK, IdsInv, ToldInv, PollReturn, rx, told
<1>10. ASSUME NEW c \in Calls, PollTimeout(c) PROVE ToldInv'
    BY <1>0, <1>10 DEF TypeOK, ToldInv, PollTimeout, rx, told
<1>11. ASSUME NEW c \in CallbackCalls, TimerCheck(c) PROVE ToldInv'
    BY <1>0, <1>11 DEF TypeOK, ToldInv, TimerCheck, locals, rx, told
<1>12. ASSUME NEW c \in CallbackCalls, TimerRelease(c) PROVE ToldInv'
    BY <1>0, <1>12 DEF TypeOK, ToldInv, TimerRelease, rx, told
<1>13. ASSUME NEW c \in CallbackCalls, TimerCall(c) PROVE ToldInv'
    <2>1. \A d \in CallbackCalls :
             d # "TIMEOUT" /\ (d \in invoked'[d] <=> d \in invoked[d])
        BY <1>0, <1>13, NullAssumption DEF TypeOK, TimerCall
    <2>2. \A d \in CallbackCalls :
             /\ "TIMEOUT" \in invoked'[d] => timer'[d] = "called"
             /\ invoked'[d] \subseteq {"TIMEOUT", d}
        BY <1>0, <1>13 DEF TypeOK, ToldInv, TimerCall
    <2>3. UNCHANGED <<claimed, handlers, returned>>
        BY <1>13 DEF TimerCall, rx, locals
    <2>4. \A d \in CallbackCalls : timer[d] = "none" => timer'[d] = "none"
        BY <1>0, <1>13 DEF TypeOK, TimerCall
    <2> QED
        BY <1>0, <2>1, <2>2, <2>3, <2>4 DEF ToldInv
<1>14. ASSUME NEW c \in answers, RecvRead(c) PROVE ToldInv'
    BY <1>0, <1>14 DEF TypeOK, ToldInv, RecvRead, locals, told
<1>15. ASSUME RecvDispatch PROVE ToldInv'
    BY <1>0, <1>15 DEF TypeOK, ToldInv, RecvDispatch, locals, told
<1>16. ASSUME RecvClaim PROVE ToldInv'
    <2> DEFINE new == [fn |-> callbacks[id[hand]], arg |-> hand]
    <2>1. /\ hand \in CallbackCalls /\ hand \notin claimed
          /\ Live(hand)
        BY <1>0, <1>16
        DEF RecvClaim, ReceiverInv, IdsInv, MessagesInv, InFlight, Live
    <2>2. new.fn \in {NULL, hand} /\ new.arg = hand
        BY <1>0, <2>1, TableOwner
    <2>3. hand \notin invoked[hand] /\ \A h \in handlers : h.arg # hand
        BY <1>0, <2>1 DEF ToldInv
    <2>4. /\ handlers' = handlers \cup {new}
          /\ claimed' = claimed \cup {hand}
          /\ UNCHANGED <<returned, timer, invoked>>
        BY <1>16 DEF RecvClaim, told
    <2> HIDE DEF new
    <2> QED
        BY <1>0, <2>1, <2>2, <2>3, <2>4 DEF ToldInv
<1>17. ASSUME RecvThrows PROVE ToldInv'
    BY <1>0, <1>17 DEF TypeOK, ToldInv, RecvThrows, locals, rx, told
<1>18. ASSUME NEW h \in handlers, RunHandler(h) PROVE ToldInv'
    <2>1. h.arg \in CallbackCalls /\ h.fn \in {NULL, h.arg}
        BY <1>0 DEF ToldInv
    <2>2. /\ handlers' = handlers \ {h}
          /\ UNCHANGED <<claimed, returned, timer>>
          /\ \/ UNCHANGED invoked
             \/ invoked' = [invoked EXCEPT ![h.arg] = @ \cup {h.arg}]
        BY <1>18, <2>1 DEF RunHandler, locals
    <2>3. h.arg \in claimed /\ h.arg # "TIMEOUT"
        BY <1>0, <2>1, NullAssumption DEF ToldInv
    <2>4. \A d \in CallbackCalls :
             /\ d # h.arg => invoked'[d] = invoked[d]
             /\ "TIMEOUT" \in invoked'[d] <=> "TIMEOUT" \in invoked[d]
             /\ invoked'[d] \subseteq {"TIMEOUT", d}
        BY <1>0, <2>1, <2>2, <2>3 DEF TypeOK, ToldInv
    <2>5. \A g \in handlers' :
             g \in handlers /\ g.arg # h.arg /\ g.arg \in CallbackCalls
        BY <1>0, <2>2 DEF ToldInv
    <2> QED
        BY <1>0, <2>1, <2>2, <2>3, <2>4, <2>5 DEF ToldInv
<1>19. ASSUME NEW f \in Flushes, Flush(f) PROVE ToldInv'
    BY <1>0, <1>19 DEF TypeOK, ToldInv, Flush, Go, rx, told
<1>20. ASSUME NEW c \in Calls, Answer(c) PROVE ToldInv'
    BY <1>0, <1>20 DEF TypeOK, ToldInv, Answer, locals, rx, told
<1>21. ASSUME NEW c \in Calls, Lose(c) PROVE ToldInv'
    BY <1>0, <1>21 DEF TypeOK, ToldInv, Lose, locals, rx, told
<1>22. ASSUME LinkFails PROVE ToldInv'
    BY <1>0, <1>22 DEF TypeOK, ToldInv, LinkFails, locals, rx, told
<1>23. ASSUME Disconnect PROVE ToldInv'
    BY <1>0, <1>23 DEF TypeOK, ToldInv, Disconnect, locals, rx, told
<1>24. ASSUME UNCHANGED vars PROVE ToldInv'
    BY <1>0, <1>24 DEF TypeOK, ToldInv, vars, locals, rx, told
<1> QED
    BY <1>1, <1>2, <1>3, <1>4, <1>5, <1>6, <1>7, <1>8, <1>9, <1>10, <1>11,
       <1>12, <1>13, <1>14, <1>15, <1>16, <1>17, <1>18, <1>19, <1>20, <1>21,
       <1>22, <1>23, <1>24
    DEF Next, SendCmd, Timer, Recv, Device

(* Nothing has been executed, stored or told at the beginning.              *)
LEMMA PromiseInvInit == Init => PromiseInv
<1> SUFFICES ASSUME Init PROVE PromiseInv
    OBVIOUS
<1>1. ExecutedInv
    BY NullAssumption DEF Init, ExecutedInv, Unwritten
<1>2. ResultInv
    BY DEF Init, ResultInv
<1>3. ToldInv
    BY DEF Init, ToldInv
<1> QED
    BY <1>1, <1>2, <1>3 DEF PromiseInv

(* PromiseInv is inductive relative to CommandInv.                          *)
THEOREM PromiseInvariant == Spec => []PromiseInv
<1>1. CommandInv /\ PromiseInv /\ [Next /\ NoOverrun']_vars => PromiseInv'
    BY ExecutedStep, ResultStep, ToldStep DEF PromiseInv
<1> QED
    BY <1>1, PromiseInvInit, CommandInvariant, PTL DEF Spec

-----------------------------------------------------------------------------
(* Every step is a step of CommandPromise or leaves it alone.               *)

(* Each of the steps, under the mapping outcome <- returned, told <- invoked.*)
LEMMA PromiseMaps ==
    CommandInv /\ PromiseInv /\ [Next]_vars => [Promise!Next]_Promise!promise
<1> SUFFICES ASSUME CommandInv, PromiseInv, [Next]_vars
             PROVE  [Promise!Next]_Promise!promise
    OBVIOUS
<1>0. /\ TypeOK /\ MessagesInv /\ IdsInv /\ TableInv
      /\ ExecutedInv /\ ResultInv /\ ToldInv
    BY DEF CommandInv, PromiseInv
<1> DEFINE Stutters == UNCHANGED <<executed, returned, invoked>>
<1>s. Stutters => [Promise!Next]_Promise!promise
    BY DEF Promise!promise
<1>1. ASSUME NEW c \in Calls, Begin(c) PROVE [Promise!Next]_Promise!promise
    <2>1. CASE connected
        BY <1>s, <1>1, <2>1 DEF Begin, told, arm
    <2>2. CASE ~connected
        <3>1. c \in CallbackCalls => invoked[c] = {}
            BY <1>0, <1>1 DEF MessagesInv, IdsInv, ToldInv, Unwritten, Begin
        <3>2. Promise!Return(c, "NotConnected")
            BY <1>0, <1>1, <2>2, <3>1
            DEF TypeOK, MessagesInv, ExecutedInv, Unwritten, Begin, told, arm,
                Promise!Return
        <3> QED
            BY <3>2 DEF Promise!Next, Promise!Commands
    <2> QED
        BY <2>1, <2>2
<1>2. ASSUME NEW c \in Calls, TakeId(c) PROVE [Promise!Next]_Promise!promise
    BY <1>s, <1>2 DEF TakeId, told, arm
<1>3. ASSUME NEW c \in Calls, Reenter(c) PROVE [Promise!Next]_Promise!promise
    BY <1>s, <1>3 DEF Reenter, told, arm
<1>4. ASSUME NEW c \in Calls, Prepare(c) PROVE [Promise!Next]_Promise!promise
    BY <1>s, <1>4 DEF Prepare, told, arm
<1>5. ASSUME NEW c \in Calls, ReleaseBare(c)
      PROVE [Promise!Next]_Promise!promise
    BY <1>s, <1>5 DEF ReleaseBare, told, arm
<1>6. ASSUME NEW c \in Calls, Write(c) PROVE [Promise!Next]_Promise!promise
    <2>1. CASE c \in SyncCalls
        BY <1>s, <1>6, <2>1 DEF Write, told
    <2>2. CASE c \notin SyncCalls
        <3>1. Promise!Return(c, "ok")
            BY <1>0, <1>6, <2>2
            DEF TypeOK, MessagesInv, Write, told, Promise!Return
        <3> QED
            BY <3>1 DEF Promise!Next, Promise!Commands
    <2> QED
        BY <2>1, <2>2
<1>7. ASSUME NEW c \in Calls, WriteThrows(c)
      PROVE [Promise!Next]_Promise!promise
    <2>1. Promise!Return(c, "Exception")
        BY <1>0, <1>7
       
        DEF TypeOK, MessagesInv, ExecutedInv, Unwritten, WriteThrows, told,
            arm, Promise!Return
    <2> QED
        BY <2>1 DEF Promise!Next, Promise!Commands
<1>8. ASSUME NEW c \in Calls, PollHit(c) PROVE [Promise!Next]_Promise!promise
    BY <1>s, <1>8 DEF PollHit, told, arm
<1>9. ASSUME NEW c \in Calls, PollReturn(c)
      PROVE [Promise!Next]_Promise!promise
    <2>1. c \in SyncCalls /\ id[c] \in Ids /\ result[id[c]] = c
        BY <1>0, <1>9 DEF TypeOK, IdsInv, ResultInv, PollReturn
    <2>2. c \in executed
        BY <1>0, <2>1, NullAssumption DEF ResultInv
    <2>3. Promise!Return(c, c)
        BY <1>0, <1>9, <2>1, <2>2, KindsAssumption
        DEF TypeOK, MessagesInv, PollReturn, told, arm, Promise!Return,
            Promise!Answered
    <2> QED
        BY <2>3 DEF Promise!Next, Promise!Commands
<1>10. ASSUME NEW c \in Calls, PollTimeout(c)
      PROVE [Promise!Next]_Promise!promise
    <2>1. Promise!Return(c, "TIMEOUT")
        BY <1>0, <1>10
        DEF TypeOK, MessagesInv, IdsInv, PollTimeout, told, arm,
            Promise!Return
    <2> QED
        BY <2>1 DEF Promise!Next, Promise!Commands
<1>11. ASSUME NEW c \in CallbackCalls, TimerCheck(c)
      PROVE [Promise!Next]_Promise!promise
    BY <1>s, <1>11 DEF TimerCheck, locals, told, arm
<1>12. ASSUME NEW c \in CallbackCalls, TimerRelease(c)
      PROVE [Promise!Next]_Promise!promise
    BY <1>s, <1>12 DEF TimerRelease, told, arm
<1>13. ASSUME NEW c \in CallbackCalls, TimerCall(c)
      PROVE [Promise!Next]_Promise!promise
    <2>1. Promise!Tell(c, "TIMEOUT")
        BY <1>0, <1>13
        DEF TypeOK, ToldInv, TimerCall, locals, arm, Promise!Tell
    <2> QED
        BY <2>1 DEF Promise!Next
<1>14. ASSUME NEW c \in answers, RecvRead(c)
      PROVE [Promise!Next]_Promise!promise
    BY <1>s, <1>14 DEF RecvRead, locals, told
<1>15. ASSUME RecvDispatch PROVE [Promise!Next]_Promise!promise
    BY <1>s, <1>15 DEF RecvDispatch, locals, told, arm
<1>16. ASSUME RecvClaim PROVE [Promise!Next]_Promise!promise
    BY <1>s, <1>16 DEF RecvClaim, told, arm
<1>17. ASSUME RecvThrows PROVE [Promise!Next]_Promise!promise
    BY <1>s, <1>17 DEF RecvThrows, locals, told, arm
<1>18. ASSUME NEW h \in handlers, RunHandler(h)
      PROVE [Promise!Next]_Promise!promise
    <2>1. CASE h.fn = NULL
        BY <1>s, <1>18, <2>1 DEF RunHandler, locals, arm
    <2>2. CASE h.fn # NULL
        <3>1. /\ h.arg \in CallbackCalls /\ h.fn = h.arg
              /\ h.arg \in claimed /\ h.arg \notin invoked[h.arg]
            BY <1>0, <2>2 DEF ToldInv
        <3>2. h.arg \in executed /\ returned[h.arg] # "NotConnected"
            BY <1>0, <3>1 DEF ExecutedInv
        <3>3. Promise!Tell(h.arg, h.arg)
            BY <1>18, <2>2, <3>1, <3>2
            DEF RunHandler, locals, arm, Promise!Tell, Promise!Answered
        <3> QED
            BY <3>1, <3>3 DEF Promise!Next
    <2> QED
        BY <2>1, <2>2
<1>19. ASSUME NEW f \in Flushes, Flush(f) PROVE [Promise!Next]_Promise!promise
    BY <1>s, <1>19 DEF Flush, told, arm
<1>20. ASSUME NEW c \in Calls, Answer(c) PROVE [Promise!Next]_Promise!promise
    <2>1. Promise!Execute(c)
        BY <1>0, <1>20
        DEF ExecutedInv, Answer, locals, told, Promise!Execute, Promise!Refused
    <2> QED
        BY <2>1 DEF Promise!Next, Promise!Commands
<1>21. ASSUME NEW c \in Calls, Lose(c) PROVE [Promise!Next]_Promise!promise
    BY <1>s, <1>21 DEF Lose, locals, told
<1>22. ASSUME LinkFails PROVE [Promise!Next]_Promise!promise
    BY <1>s, <1>22 DEF LinkFails, locals, told
<1>23. ASSUME Disconnect PROVE [Promise!Next]_Promise!promise
    BY <1>s, <1>23 DEF Disconnect, locals, told, arm
<1>24. ASSUME UNCHANGED vars PROVE [Promise!Next]_Promise!promise
    BY <1>s, <1>24 DEF vars, locals, told, arm
<1> QED
    BY <1>1, <1>2, <1>3, <1>4, <1>5, <1>6, <1>7, <1>8, <1>9, <1>10, <1>11,
       <1>12, <1>13, <1>14, <1>15, <1>16, <1>17, <1>18, <1>19, <1>20, <1>21,
       <1>22, <1>23, <1>24
    DEF Next, SendCmd, Timer, Recv, Device

(* Whatever the interleaving of callers, timers, receiver and arm, and      *)
(* however often an id has been used, the command channel does only what    *)
(* CommandPromise allows: no answer of another command, no news of a        *)
(* command the arm has not executed, no execution of a refused one.         *)
THEOREM ChannelKeepsPromise == Spec => KeepsPromise
<1>1. Init => Promise!Init
    BY DEF Init, Promise!Init, Promise!Commands
<1> QED
    BY <1>1, PromiseMaps, PromiseInvariant, CommandInvariant, PTL
    DEF Spec, KeepsPromise, Promise!Spec

-----------------------------------------------------------------------------
(* No callback is lost.                                                     *)

(* What is stored under the id of a call stays there while another live     *)
(* call works on its own entry.                                             *)
LEMMA OtherEntry ==
    ASSUME TypeOK, NoOverrun, IdsInv, TableInv, NEW c \in Calls, Live(c),
           NEW x \in CallbackCalls \cup {NULL},
           callbacks' = [callbacks EXCEPT ![id[c]] = x],
           NEW d \in CallbackCalls, d # c, timer[d] # "none",
           callbacks[id[d]] = d
    PROVE  callbacks'[id[d]] = d
<1>1. id[c] \in Ids /\ id[d] \in Ids
    BY DEF TypeOK, IdsInv, Live
<1>2. Live(d)
    BY <1>1, NullAssumption DEF TableInv, Live
<1>3. id[d] # id[c]
    BY <1>2 DEF NoOverrun
<1> QED
    BY <1>1, <1>3 DEF TypeOK

(* A callback leaves the table only into the hands of a thread.             *)
LEMMA CallbackStep ==
    CommandInv /\ CallbackNotLost /\ [Next /\ NoOverrun']_vars
        => CallbackNotLost'
<1> SUFFICES ASSUME CommandInv, CallbackNotLost, [Next /\ NoOverrun']_vars
             PROVE  CallbackNotLost'
    OBVIOUS
<1>0. /\ TypeOK /\ NoOverrun /\ MessagesInv /\ IdsInv /\ TableInv
      /\ ReceiverInv /\ CallbackNotLost
    BY DEF CommandInv
<1>1. ASSUME NEW c \in Calls, Begin(c) PROVE CallbackNotLost'
    BY <1>0, <1>1 DEF TypeOK, CallbackNotLost, Begin, Go, rx, told
<1>2. ASSUME NEW c \in Calls, TakeId(c) PROVE CallbackNotLost'
    BY <1>0, <1>2 DEF TypeOK, IdsInv, CallbackNotLost, TakeId, rx, told
<1>3. ASSUME NEW c \in Calls, Reenter(c) PROVE CallbackNotLost'
    BY <1>0, <1>3 DEF TypeOK, CallbackNotLost, Reenter, Go, rx, told
<1>4. ASSUME NEW c \in Calls, Prepare(c) PROVE CallbackNotLost'
    <2>1. Live(c)
        BY <1>0, <1>4 DEF Prepare, Live, IdsInv
    <2>2. UNCHANGED <<id, handlers, invoked>>
        BY <1>4 DEF Prepare, rx, told
    <2>3. ASSUME NEW d \in CallbackCalls, d # c, timer[d] # "none",
                 callbacks[id[d]] = d
          PROVE  callbacks'[id[d]] = d
        BY <1>0, <1>4, <2>1, <2>3, OtherEntry
        DEF Prepare, StoreCallback, DropCallback
    <2>4. \A d \in CallbackCalls : d # c => timer'[d] = timer[d]
        BY <1>0, <1>4 DEF TypeOK, Prepare
    <2>5. c \in CallbackCalls => callbacks'[id[c]] = c
        BY <1>0, <1>4, <2>1, KindsAssumption
        DEF TypeOK, Live, Prepare, StoreCallback
    <2> QED
        BY <1>0, <2>2, <2>3, <2>4, <2>5 DEF CallbackNotLost
<1>5. ASSUME NEW c \in Calls, ReleaseBare(c) PROVE CallbackNotLost'
    <2>1. Live(c) /\ c \notin CallbackCalls
        BY <1>0, <1>5, KindsAssumption DEF ReleaseBare, Live, IdsInv
    <2>2. UNCHANGED <<id, timer, handlers, invoked>>
        BY <1>5 DEF ReleaseBare, rx, told
    <2>3. ASSUME NEW d \in CallbackCalls, timer[d] # "none",
                 callbacks[id[d]] = d
          PROVE  callbacks'[id[d]] = d
        BY <1>0, <1>5, <2>1, <2>3, OtherEntry DEF ReleaseBare, DropCallback
    <2> QED
        BY <1>0, <2>2, <2>3 DEF CallbackNotLost
<1>6. ASSUME NEW c \in Calls, Write(c) PROVE CallbackNotLost'
    BY <1>0, <1>6 DEF TypeOK, CallbackNotLost, Write, Go, rx, told
<1>7. ASSUME NEW c \in Calls, WriteThrows(c) PROVE CallbackNotLost'
    BY <1>0, <1>7 DEF TypeOK, CallbackNotLost, WriteThrows, Go, rx, told
<1>8. ASSUME NEW c \in Calls, PollHit(c) PROVE CallbackNotLost'
    BY <1>0, <1>8 DEF TypeOK, CallbackNotLost, PollHit, rx, told
<1>9. ASSUME NEW c \in Calls, PollReturn(c) PROVE CallbackNotLost'
    BY <1>0, <1>9 DEF TypeOK, CallbackNotLost, PollReturn, Go, rx, told
<1>10. ASSUME NEW c \in Calls, PollTimeout(c) PROVE CallbackNotLost'
    BY <1>0, <1>10 DEF TypeOK, CallbackNotLost, PollTimeout, rx, told
<1>11. ASSUME NEW c \in CallbackCalls, TimerCheck(c) PROVE CallbackNotLost'
    BY <1>0, <1>11 DEF TypeOK, CallbackNotLost, TimerCheck, locals, rx, told
<1>12. ASSUME NEW c \in CallbackCalls, TimerRelease(c) PROVE CallbackNotLost'
    <2>1. Live(c)
        BY <1>0, <1>12 DEF TimerRelease, Live, IdsInv
    <2>2. UNCHANGED <<id, handlers, invoked>>
        BY <1>12 DEF TimerRelease, rx, told
    <2>3. ASSUME NEW d \in CallbackCalls, d # c, timer[d] # "none",
                 callbacks[id[d]] = d
          PROVE  callbacks'[id[d]] = d
        BY <1>0, <1>12, <2>1, <2>3, OtherEntry DEF TimerRelease, DropCallback
    <2>4. timer' = [timer EXCEPT ![c] = "calling"]
        BY <1>12 DEF TimerRelease
    <2> QED
        BY <1>0, <2>2, <2>3, <2>4 DEF TypeOK, CallbackNotLost
<1>13. ASSUME NEW c \in CallbackCalls, TimerCall(c) PROVE CallbackNotLost'
    BY <1>0, <1>13 DEF TypeOK, CallbackNotLost, TimerCall, locals, rx
<1>14. ASSUME NEW c \in answers, RecvRead(c) PROVE CallbackNotLost'
    BY <1>0, <1>14 DEF TypeOK, CallbackNotLost, RecvRead, locals, told
<1>15. ASSUME RecvDispatch PROVE CallbackNotLost'
    BY <1>0, <1>15 DEF TypeOK, CallbackNotLost, RecvDispatch, locals, told
<1>16. ASSUME RecvClaim PROVE CallbackNotLost'
    <2>1. Live(hand) /\ hand \in CallbackCalls
        BY <1>0, <1>16 DEF RecvClaim, ReceiverInv, IdsInv, InFlight, Live
    <2>2. UNCHANGED <<id, timer, invoked>>
        BY <1>16 DEF RecvClaim, told
    <2>3. ASSUME NEW d \in CallbackCalls, d # hand, timer[d] # "none",
                 callbacks[id[d]] = d
          PROVE  callbacks'[id[d]] = d
        BY <1>0, <1>16, <2>1, <2>3, OtherEntry DEF RecvClaim, DropCallback
    <2> DEFINE new == [fn |-> callbacks[id[hand]], arg |-> hand]
    <2>4. handlers' = handlers \cup {new} /\ new.fn = callbacks[id[hand]]
        BY <1>16 DEF RecvClaim
    <2> HIDE DEF new
    <2> QED
        BY <1>0, <2>1, <2>2, <2>3, <2>4 DEF CallbackNotLost
<1>17. ASSUME RecvThrows PROVE CallbackNotLost'
    BY <1>0, <1>17 DEF TypeOK, CallbackNotLost, RecvThrows, locals, rx, told
<1>18. ASSUME NEW h \in handlers, RunHandler(h) PROVE CallbackNotLost'
    <2>1. UNCHANGED <<id, timer, callbacks>> /\ handlers' = handlers \ {h}
        BY <1>18 DEF RunHandler, locals
    <2>2. \A d \in CallbackCalls : invoked[d] # {} => invoked'[d] # {}
        BY <1>0, <1>18 DEF TypeOK, RunHandler
    <2>3. ASSUME h.fn \in CallbackCalls PROVE invoked'[h.fn] # {}
        <3>1. invoked' = [invoked EXCEPT ![h.fn] = invoked[h.fn] \cup {h.arg}]
            BY <1>18, <2>3, NullAssumption DEF RunHandler
        <3> QED
            BY <1>0, <2>3, <3>1 DEF TypeOK
    <2> QED
        BY <1>0, <2>1, <2>2, <2>3 DEF CallbackNotLost
<1>19. ASSUME NEW f \in Flushes, Flush(f) PROVE CallbackNotLost'
    BY <1>0, <1>19 DEF TypeOK, CallbackNotLost, Flush, Go, rx, told
<1>20. ASSUME NEW c \in Calls, Answer(c) PROVE CallbackNotLost'
    BY <1>0, <1>20 DEF TypeOK, CallbackNotLost, Answer, locals, rx, told
<1>21. ASSUME NEW c \in Calls, Lose(c) PROVE CallbackNotLost'
    BY <1>0, <1>21 DEF TypeOK, CallbackNotLost, Lose, locals, rx, told
<1>22. ASSUME LinkFails PROVE CallbackNotLost'
    BY <1>0, <1>22 DEF TypeOK, CallbackNotLost, LinkFails, locals, rx, told
<1>23. ASSUME Disconnect PROVE CallbackNotLost'
    BY <1>0, <1>23 DEF TypeOK, CallbackNotLost, Disconnect, locals, rx, told
<1>24. ASSUME UNCHANGED vars PROVE CallbackNotLost'
    BY <1>0, <1>24 DEF TypeOK, CallbackNotLost, vars, locals, rx, told
<1> QED
    BY <1>1, <1>2, <1>3, <1>4, <1>5, <1>6, <1>7, <1>8, <1>9, <1>10, <1>11,
       <1>12, <1>13, <1>14, <1>15, <1>16, <1>17, <1>18, <1>19, <1>20, <1>21,
       <1>22, <1>23, <1>24
    DEF Next, SendCmd, Timer, Recv, Device

(* The callback of every call is in callbacks[], in the hands of its timer  *)
(* or of a handler thread, or has been called, until the process dies.      *)
THEOREM NoCallbackIsLost == Spec => []CallbackNotLost
<1>1. Init => CallbackNotLost
    BY DEF Init, CallbackNotLost
<1> QED
    BY <1>1, CallbackStep, CommandInvariant, PTL DEF Spec
===============================================================================

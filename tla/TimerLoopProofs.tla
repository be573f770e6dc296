---------------------------- MODULE TimerLoopProofs ----------------------------
(* Theorems about TimerLoop for any number of users and loop threads.       *)
EXTENDS TimerLoop, TLAPS

(* Users past the tests of their function.                                  *)
Busy == {u \in Users : user[u] \notin {"idle", "asking"}}

(* Whoever sleeps towards its wait or clears the request has the mutex.     *)
MutexInv ==
    \A u \in Users : user[u] \in {"sleeping", "clearing", "resetting"} => mutex_ = u

(* What holds as long as no two users were past their tests at once: which  *)
(* flag a user has seen is still what it is, because only it could change   *)
(* the flag, or the thread, which ends once.                                *)
TurnInv ==
    /\ \A u, v \in Busy : u = v
    /\ \A k, l \in Running : k = l
    /\ expired_ <=> Running = {} /\ Starting = {}
    /\ try_to_expire_ <=> Stopping # {}
    /\ \A u \in Users :
         /\ user[u] \in {"starting", "clearing", "resetting"} => expired_
         /\ user[u] = "spawning" => Running = {}
         /\ user[u] \in {"sleeping", "waiting"} => Running # {}

TimerInv == TimerTypeOK /\ MutexInv /\ (~overlapped => TurnInv)

LEMMA TimerStart == TimerInit => TimerInv
    BY TimerAssumption
    DEF TimerInit, TimerInv, TimerTypeOK, MutexInv, TurnInv, Busy, Running,
        Starting, Stopping

LEMMA TimerTypeStep == TimerTypeOK /\ [TimerNext]_timer => TimerTypeOK'
<1> SUFFICES ASSUME TimerTypeOK, [TimerNext]_timer PROVE TimerTypeOK'
    OBVIOUS
<1> USE DEF TimerTypeOK
<1>1. ASSUME NEW u \in Users,
             \/ StartTest(u) \/ StartSet(u) \/ \E l \in Loops : StartThread(u, l)
             \/ ExpireTest(u) \/ ExpireTestTry(u) \/ ExpireSet(u)
             \/ ExpirePredicate(u) \/ ExpireWait(u) \/ Spurious(u)
             \/ ExpireTestAgain(u) \/ ExpireClear(u)
      PROVE  TimerTypeOK'
    BY <1>1
    DEF StartTest, StartSet, StartThread, ExpireTest, ExpireTestTry, ExpireSet,
        ExpirePredicate, ExpireWait, Spurious, ExpireTestAgain, ExpireClear,
        GoTo, Passes, Predicate
<1>2. ASSUME NEW l \in Loops, LoopTest(l) \/ LoopTask(l) \/ LoopEnd(l)
      PROVE  TimerTypeOK'
    BY <1>2 DEF LoopTest, LoopTask, LoopEnd, Waiting, GoTo
<1>3. CASE UNCHANGED timer
    BY <1>3 DEF timer
<1> QED
    BY <1>1, <1>2, <1>3 DEF TimerNext

LEMMA MutexStep ==
    TimerTypeOK /\ MutexInv /\ [TimerNext]_timer => MutexInv'
<1> SUFFICES ASSUME TimerTypeOK, MutexInv, [TimerNext]_timer PROVE MutexInv'
    OBVIOUS
<1> USE TimerAssumption DEF TimerTypeOK, MutexInv
<1>1. ASSUME NEW u \in Users,
             \/ StartTest(u) \/ StartSet(u) \/ \E l \in Loops : StartThread(u, l)
             \/ ExpireTest(u) \/ ExpireTestTry(u) \/ ExpireSet(u)
             \/ ExpirePredicate(u) \/ ExpireWait(u) \/ Spurious(u)
             \/ ExpireTestAgain(u) \/ ExpireClear(u)
      PROVE  MutexInv'
    BY <1>1
    DEF StartTest, StartSet, StartThread, ExpireTest, ExpireTestTry, ExpireSet,
        ExpirePredicate, ExpireWait, Spurious, ExpireTestAgain, ExpireClear, GoTo
<1>2. ASSUME NEW l \in Loops, LoopTest(l) \/ LoopTask(l) \/ LoopEnd(l)
      PROVE  MutexInv'
    BY <1>2 DEF LoopTest, LoopTask, LoopEnd, Waiting, GoTo
<1>3. CASE UNCHANGED timer
    BY <1>3 DEF timer
<1> QED
    BY <1>1, <1>2, <1>3 DEF TimerNext

(* One step of a user that does not touch the loop threads, or one of a     *)
(* loop thread that leaves the flags alone.                                 *)
LEMMA TurnStep ==
    TimerInv /\ [TimerNext]_timer /\ ~overlapped' => TurnInv'
<1> SUFFICES ASSUME TimerInv, [TimerNext]_timer, ~overlapped' PROVE TurnInv'
    OBVIOUS
<1>0. TimerTypeOK /\ MutexInv
    BY DEF TimerInv
<1>t. ~overlapped
    BY DEF TimerNext, timer, StartTest, StartSet, StartThread, ExpireTest,
           ExpireTestTry, ExpireSet, ExpirePredicate, ExpireWait, Spurious,
           ExpireTestAgain, ExpireClear, LoopTest, LoopTask, LoopEnd, Passes
<1>i. TurnInv
    BY <1>t DEF TimerInv
<1> USE <1>0, <1>t, <1>i
    DEF TimerTypeOK, TurnInv, Busy, Running, Starting, Stopping
<1>1. ASSUME NEW u \in Users, StartTest(u) PROVE TurnInv'
    BY <1>1 DEF StartTest, GoTo, Passes
<1>2. ASSUME NEW u \in Users, StartSet(u) PROVE TurnInv'
    BY <1>2 DEF StartSet, GoTo
<1>3. ASSUME NEW u \in Users, NEW l \in Loops, StartThread(u, l) PROVE TurnInv'
    BY <1>3 DEF StartThread, GoTo
<1>4. ASSUME NEW u \in Users, ExpireTest(u) PROVE TurnInv'
    BY <1>4 DEF ExpireTest, GoTo
<1>5. ASSUME NEW u \in Users, ExpireTestTry(u) PROVE TurnInv'
    <2>1. CASE try_to_expire_
        BY <1>5, <2>1 DEF ExpireTestTry, GoTo
    <2>2. CASE ~try_to_expire_
        <3>1. \A v \in Users \ {u} : user[v] \in {"idle", "asking"}
            BY <1>5, <2>2 DEF ExpireTestTry, Passes
        <3>2. user' = [user EXCEPT ![u] = "setting"]
              /\ UNCHANGED <<expired_, try_to_expire_, loop>>
            BY <1>5, <2>2 DEF ExpireTestTry, GoTo
        <3>3. \A v \in Users : v # u => user'[v] = user[v]
            BY <3>2
        <3>4. user[u] = "asking" /\ user'[u] = "setting"
            BY <1>5, <3>2 DEF ExpireTestTry
        <3>5. Running' = Running /\ Starting' = Starting /\ Stopping' = Stopping
            BY <3>2, <3>3, <3>4
        <3>6. \A v, w \in Busy' : v = w
            BY <3>1, <3>3
        <3> QED
            BY <3>2, <3>3, <3>4, <3>5, <3>6
    <2> QED
        BY <2>1, <2>2
<1>6. ASSUME NEW u \in Users, ExpireSet(u) PROVE TurnInv'
    BY <1>6 DEF ExpireSet, GoTo
<1>7. ASSUME NEW u \in Users, ExpirePredicate(u) PROVE TurnInv'
    BY <1>7 DEF ExpirePredicate, GoTo, Predicate
<1>8. ASSUME NEW u \in Users, ExpireWait(u) PROVE TurnInv'
    BY <1>8 DEF ExpireWait, GoTo
<1>9. ASSUME NEW u \in Users, Spurious(u) PROVE TurnInv'
    BY <1>9 DEF Spurious, GoTo
<1>10. ASSUME NEW u \in Users, ExpireClear(u) PROVE TurnInv'
    BY <1>10 DEF ExpireClear, GoTo
<1>11. ASSUME NEW l \in Loops, LoopTest(l) PROVE TurnInv'
    BY <1>11 DEF LoopTest
<1>12. ASSUME NEW l \in Loops, LoopTask(l) PROVE TurnInv'
    BY <1>12 DEF LoopTask
(* The thread ends while nobody has the mutex, so nobody is about to wait,  *)
(* and it wakes the one who does.                                           *)
<1>13. ASSUME NEW l \in Loops, LoopEnd(l) PROVE TurnInv'
    <2>1. Running = {l} /\ Running' = {}
        BY <1>13 DEF LoopEnd
    <2>2. mutex_ = Nobody
        BY <1>13 DEF LoopEnd, TakesMutex
    <2>3. \A u \in Users : user[u] # "sleeping"
        BY <2>2, TimerAssumption DEF MutexInv
    <2>4. CASE Waiting = {} /\ UNCHANGED user
        BY <1>13, <2>1, <2>3, <2>4 DEF LoopEnd, Waiting
    <2>5. ASSUME NEW u \in Waiting, GoTo(u, "locking") PROVE TurnInv'
        BY <1>13, <2>1, <2>3, <2>5 DEF LoopEnd, Waiting, GoTo
    <2> QED
        BY <1>13, <2>4, <2>5 DEF LoopEnd
<1>14. ASSUME NEW u \in Users, ExpireTestAgain(u) PROVE TurnInv'
    BY <1>14 DEF ExpireTestAgain, GoTo
<1>15. CASE UNCHANGED timer
    BY <1>15 DEF timer
<1> QED
    BY <1>1, <1>2, <1>3, <1>4, <1>5, <1>6, <1>7, <1>8, <1>9, <1>10, <1>11,
       <1>12, <1>13, <1>14, <1>15
    DEF TimerNext

(* The types of the flags, who has the mutex, and the turns of users and    *)
(* threads are inductive together.                                          *)
THEOREM TimerInvariant == TimerSpec => []TimerInv
<1>1. TimerInv /\ [TimerNext]_timer => TimerInv'
    BY TimerTypeStep, MutexStep, TurnStep DEF TimerInv
<1> QED
    BY <1>1, TimerStart, PTL DEF TimerSpec

(* StartTimer and Expire that take turns keep one loop thread, and whoever  *)
(* waits has a thread to be woken by.                                       *)
THEOREM TurnsStaySafe == TimerSpec => []TurnsAreSafe
<1>1. TimerInv => TurnsAreSafe
    BY DEF TimerInv, TurnInv, TurnsAreSafe
<1> QED
    BY <1>1, TimerInvariant, PTL

(* Expire returns only after the last task, and takes its request back.     *)
THEOREM ExpireHasStopped == TimerSpec => ExpireStops
<1>1. ASSUME TimerInv, [TimerNext]_timer, NEW u \in Users,
             user[u] \in {"clearing", "resetting"}, user'[u] = "idle", ~overlapped
      PROVE  Running' = {} /\ ~try_to_expire_'
    <2>1. TimerTypeOK /\ TurnInv /\ MutexInv
        BY <1>1 DEF TimerInv
    <2>2. expired_ /\ Running = {}
        BY <1>1, <2>1 DEF TurnInv
    <2>3. ExpireClear(u)
        <3>1. ASSUME NEW v \in Users,
                     \/ StartTest(v) \/ StartSet(v)
                     \/ \E l \in Loops : StartThread(v, l)
                     \/ ExpireTest(v) \/ ExpireTestTry(v) \/ ExpireSet(v)
                     \/ ExpirePredicate(v) \/ ExpireWait(v) \/ Spurious(v)
                     \/ ExpireTestAgain(v)
              PROVE  FALSE
            BY <1>1, <2>1, <2>2, <3>1
            DEF TimerTypeOK, StartTest, StartSet, StartThread, ExpireTest,
                ExpireTestTry, ExpireSet, ExpirePredicate, ExpireWait,
                Spurious, ExpireTestAgain, GoTo
        <3>2. ASSUME NEW v \in Users, ExpireClear(v) PROVE v = u
            BY <1>1, <2>1, <3>2 DEF TimerTypeOK, ExpireClear, GoTo
        <3>3. ASSUME NEW l \in Loops, LoopTest(l) \/ LoopTask(l) \/ LoopEnd(l)
              PROVE  FALSE
            BY <1>1, <2>1, <3>3
            DEF TimerTypeOK, LoopTest, LoopTask, LoopEnd, Waiting, GoTo
        <3>4. ~UNCHANGED timer
            BY <1>1 DEF timer
        <3> QED
            BY <1>1, <3>1, <3>2, <3>3, <3>4 DEF TimerNext
    <2> QED
        BY <2>2, <2>3 DEF ExpireClear, Running
<1>2. TimerInv /\ [TimerNext]_timer =>
        [\A u \in Users :
           user[u] \in {"clearing", "resetting"} /\ user'[u] = "idle" /\ ~overlapped
             => Running' = {} /\ ~try_to_expire_']_timer
    BY <1>1
<1> QED
    BY <1>2, TimerInvariant, PTL DEF TimerSpec, ExpireStops
===============================================================================

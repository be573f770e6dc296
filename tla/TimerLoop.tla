------------------------------- MODULE TimerLoop -------------------------------
(***************************************************************************)
(* Class Timer (src/include/uarm/timer.h): StartTimer starts a detached    *)
(* thread that runs a task again and again, Expire asks it to stop and     *)
(* waits until it has.  Two atomic flags carry the protocol: expired_, and *)
(* try_to_expire_; each is tested in one step and set in another.          *)
(***************************************************************************)
EXTENDS FiniteSets

CONSTANTS
    Users,      \* threads of the program that use the timer
    Loops,      \* threads StartTimer may start
    Nobody      \* the holder of a free mutex

ASSUME TimerAssumption ==
    /\ Nobody \notin Users \cup Loops
    /\ Users \cap Loops = {}

VARIABLES
    expired_, try_to_expire_,
    mutex_,         \* the thread that holds it
    user,           \* where each user is in StartTimer or Expire
    loop,           \* where each loop thread is, "none" if it does not run
    overlapped      \* two users were past the tests of StartTimer or Expire
                    \* at once; nothing reads it

timer == <<expired_, try_to_expire_, mutex_, user, loop, overlapped>>

TimerInit ==
    /\ expired_ = TRUE
    /\ try_to_expire_ = FALSE
    /\ mutex_ = Nobody
    /\ user = [u \in Users |-> "idle"]
    /\ loop = [l \in Loops |-> "none"]
    /\ overlapped = FALSE

GoTo(u, to) == user' = [user EXCEPT ![u] = to]

(* A user has passed the tests of its function, perhaps while another is   *)
(* past those of its own.                                                  *)
Passes(u, test) ==
    overlapped' = (overlapped \/ (test /\ \E v \in Users \ {u} :
                                            user[v] \notin {"idle", "asking"}))

-----------------------------------------------------------------------------
(* StartTimer.                                                             *)

StartTest(u) ==
    /\ user[u] = "idle"
    /\ Passes(u, expired_)
    /\ GoTo(u, IF expired_ THEN "starting" ELSE "idle")
    /\ UNCHANGED <<expired_, try_to_expire_, mutex_, loop>>

StartSet(u) ==
    /\ user[u] = "starting"
    /\ expired_' = FALSE
    /\ GoTo(u, "spawning")
    /\ UNCHANGED <<try_to_expire_, mutex_, loop, overlapped>>

StartThread(u, l) ==
    /\ user[u] = "spawning" /\ loop[l] = "none"
    /\ loop' = [loop EXCEPT ![l] = "testing"]
    /\ GoTo(u, "idle")
    /\ UNCHANGED <<expired_, try_to_expire_, mutex_, overlapped>>

(* The thread that was started: while (!try_to_expire_) sleep and task ... *)
LoopTest(l) ==
    /\ loop[l] = "testing"
    /\ loop' = [loop EXCEPT ![l] = IF try_to_expire_ THEN "ending" ELSE "sleeping"]
    /\ UNCHANGED <<expired_, try_to_expire_, mutex_, user, overlapped>>

LoopTask(l) ==
    /\ loop[l] = "sleeping"
    /\ loop' = [loop EXCEPT ![l] = "testing"]
    /\ UNCHANGED <<expired_, try_to_expire_, mutex_, user, overlapped>>

(* ... and at last, under the mutex, expired_ and notify_one, which wakes  *)
(* one of the waiters if there are any.  The slip does without the mutex.  *)
TakesNoMutex == TRUE
TakesMutex   == mutex_ = Nobody

Waiting == {u \in Users : user[u] = "waiting"}

LoopEnd(l) ==
    /\ loop[l] = "ending"
    /\ TakesMutex
    /\ expired_' = TRUE
    /\ loop' = [loop EXCEPT ![l] = "none"]
    /\ \/ Waiting = {} /\ UNCHANGED user
       \/ \E u \in Waiting : GoTo(u, "locking")
    /\ UNCHANGED <<try_to_expire_, mutex_, overlapped>>

-----------------------------------------------------------------------------
(* Expire.                                                                 *)

ExpireTest(u) ==
    /\ user[u] = "idle"
    /\ GoTo(u, IF expired_ THEN "idle" ELSE "asking")
    /\ UNCHANGED <<expired_, try_to_expire_, mutex_, loop, overlapped>>

ExpireTestTry(u) ==
    /\ user[u] = "asking"
    /\ Passes(u, ~try_to_expire_)
    /\ GoTo(u, IF try_to_expire_ THEN "idle" ELSE "setting")
    /\ UNCHANGED <<expired_, try_to_expire_, mutex_, loop>>

ExpireSet(u) ==
    /\ user[u] = "setting"
    /\ try_to_expire_' = TRUE
    /\ GoTo(u, "locking")
    /\ UNCHANGED <<expired_, mutex_, loop, overlapped>>

(* It locks the mutex and tests the predicate, before it waits and after   *)
(* it was woken up.  The slip tests the wrong flag.                        *)
PredicateTried == try_to_expire_
Predicate      == expired_

ExpirePredicate(u) ==
    /\ user[u] = "locking" /\ mutex_ = Nobody
    /\ mutex_' = u
    /\ GoTo(u, IF Predicate THEN "clearing" ELSE "sleeping")
    /\ UNCHANGED <<expired_, try_to_expire_, loop, overlapped>>

ExpireWait(u) ==
    /\ user[u] = "sleeping"
    /\ mutex_' = Nobody
    /\ GoTo(u, "waiting")
    /\ UNCHANGED <<expired_, try_to_expire_, loop, overlapped>>

Spurious(u) ==
    /\ user[u] = "waiting"
    /\ GoTo(u, "locking")
    /\ UNCHANGED <<expired_, try_to_expire_, mutex_, loop, overlapped>>

(* expired_ is tested again, and a StartTimer may come before the test and *)
(* after it.                                                               *)
ExpireTestAgain(u) ==
    /\ user[u] = "clearing"
    /\ GoTo(u, IF expired_ THEN "resetting" ELSE "idle")
    /\ mutex_' = IF expired_ THEN u ELSE Nobody
    /\ UNCHANGED <<expired_, try_to_expire_, loop, overlapped>>

ExpireClear(u) ==
    /\ user[u] = "resetting"
    /\ try_to_expire_' = FALSE
    /\ mutex_' = Nobody
    /\ GoTo(u, "idle")
    /\ UNCHANGED <<expired_, loop, overlapped>>

TimerNext ==
    \/ \E u \in Users :
         \/ StartTest(u) \/ StartSet(u) \/ \E l \in Loops : StartThread(u, l)
         \/ ExpireTest(u) \/ ExpireTestTry(u) \/ ExpireSet(u)
         \/ ExpirePredicate(u) \/ ExpireWait(u) \/ Spurious(u)
         \/ ExpireTestAgain(u) \/ ExpireClear(u)
    \/ \E l \in Loops : LoopTest(l) \/ LoopTask(l) \/ LoopEnd(l)

TimerSpec == TimerInit /\ [][TimerNext]_timer

-----------------------------------------------------------------------------
(* Properties.                                                             *)

Running == {l \in Loops : loop[l] # "none"}
Starting == {u \in Users : user[u] = "spawning"}
Stopping == {u \in Users :
               user[u] \in {"locking", "sleeping", "waiting", "clearing",
                           "resetting"}}

TimerTypeOK ==
    /\ expired_ \in BOOLEAN /\ try_to_expire_ \in BOOLEAN
    /\ overlapped \in BOOLEAN
    /\ mutex_ \in Users \cup {Nobody}
    /\ user \in [Users -> {"idle", "starting", "spawning", "asking", "setting",
                           "locking", "sleeping", "waiting", "clearing",
                           "resetting"}]
    /\ loop \in [Loops -> {"none", "testing", "sleeping", "ending"}]

(* While no two threads are past the tests of StartTimer and Expire at     *)
(* once: there is at most one loop thread, and expired_ says whether there *)
(* is one or will be; try_to_expire_ stands exactly while an Expire waits, *)
(* so that the timer can be started again; and whoever waits, or is about  *)
(* to, has a running thread to be woken by.                                *)
TurnsAreSafe ==
    ~overlapped =>
        /\ \A k, l \in Running : k = l
        /\ expired_ <=> Running = {} /\ Starting = {}
        /\ try_to_expire_ <=> Stopping # {}
        /\ \A u \in Users : user[u] \in {"sleeping", "waiting"} => Running # {}

(* ... and when Expire returns no task runs any more.                      *)
ExpireStops ==
    [][\A u \in Users :
         user[u] \in {"clearing", "resetting"} /\ user'[u] = "idle" /\ ~overlapped
            => Running' = {} /\ ~try_to_expire_']_timer
===============================================================================

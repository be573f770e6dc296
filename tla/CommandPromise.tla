---------------------------- MODULE CommandPromise ----------------------------
(***************************************************************************)
(* What the command channel of uarm::Swift promises its caller, without    *)
(* ids, tables, locks or threads: a command is executed at most once, what *)
(* a call returns or its callback is told is either true of that very      *)
(* command or an admission that nothing is known, and a command that was   *)
(* refused is never executed.  SwiftCommand implements it.                 *)
(***************************************************************************)
EXTENDS FiniteSets

CONSTANTS
    SyncCalls,      \* commands whose caller sleeps for the answer
    CallbackCalls,  \* commands whose answer goes to a callback
    BareCalls,      \* commands nobody wants the answer of
    NULL

Commands == SyncCalls \cup CallbackCalls \cup BareCalls

VARIABLES
    executed,       \* the commands the arm has executed
    outcome,        \* what each call has returned, NULL before it returns
    told            \* what each callback has been called with

promise == <<executed, outcome, told>>

Init ==
    /\ executed = {}
    /\ outcome = [c \in Commands |-> NULL]
    /\ told = [c \in CallbackCalls |-> {}]

Refused(c) == outcome[c] \in {"NotConnected", "Exception"}

(* The arm executes a command once, unless its caller was told that it was *)
(* not sent.                                                               *)
Execute(c) ==
    /\ c \notin executed
    /\ ~Refused(c)
    /\ executed' = executed \cup {c}
    /\ UNCHANGED <<outcome, told>>

Answered(c, r) ==
    /\ c \in executed
    /\ r = c

(* A call returns once: refused, and then the arm has not executed it;     *)
(* without news; or, to a caller that waited, the answer to this command.  *)
(* A call without a connection has told its callback nothing.              *)
Return(c, r) ==
    /\ outcome[c] = NULL
    /\ r = "NotConnected" /\ c \in CallbackCalls => told[c] = {}
    /\ \/ r \in {"NotConnected", "Exception"} /\ c \notin executed
       \/ c \in SyncCalls /\ (r = "TIMEOUT" \/ Answered(c, r))
       \/ c \notin SyncCalls /\ r = "ok"
    /\ outcome' = [outcome EXCEPT ![c] = r]
    /\ UNCHANGED <<executed, told>>

(* A callback is told TIMEOUT or the answer to its command, each once.     *)
Tell(c, r) ==
    /\ outcome[c] # "NotConnected"
    /\ r \notin told[c]
    /\ r = "TIMEOUT" \/ Answered(c, r)
    /\ told' = [told EXCEPT ![c] = @ \cup {r}]
    /\ UNCHANGED <<executed, outcome>>

Next ==
    \/ \E c \in Commands :
         \/ Execute(c)
         \/ \E r \in {"ok", "TIMEOUT", "NotConnected", "Exception", c} :
              Return(c, r)
    \/ \E c \in CallbackCalls : Tell(c, "TIMEOUT") \/ Tell(c, c)

Spec == Init /\ [][Next]_promise
===============================================================================

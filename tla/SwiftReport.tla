------------------------------ MODULE SwiftReport ------------------------------
(***************************************************************************)
(* The receive thread of uarm::Swift and the reports of the arm: the       *)
(* thread reads lines, hands replies on, and for a report tests the        *)
(* callback registered for its kind, then loads it again to start a thread *)
(* that calls it.  Meanwhile the application registers and releases        *)
(* callbacks.  Reports of the power also set power_status, which the       *)
(* answers to get_power_status set as well: hence SwiftReply is part of    *)
(* this specification.                                                     *)
(***************************************************************************)
EXTENDS SwiftReply

CONSTANTS
    Receivers,      \* receive threads, of this and of earlier sessions
    Kinds,          \* the kinds of reports, of AllKinds
    Values,         \* what the reports other than the power's carry
    MaxLines        \* bound: how many lines the arm sends

(* "@3", "@4 B0", "@4 B1", "@5" and "@6".                                  *)
AllKinds == {"position", "key0", "key1", "power", "limit"}

ASSUME ReportAssumption ==
    /\ Kinds \subseteq AllKinds /\ "power" \in Kinds
    /\ MaxLines \in Nat
    /\ Receivers # {} /\ IsFiniteSet(Receivers)
    /\ \A c \in Calls : c \notin Int
    /\ NULL \notin AllKinds /\ NULL \notin Int

VARIABLES
    report,         \* the reports sent: kind, value, and as of which switch
    alive,          \* the receive threads that have been started
    recv,           \* where each of them is
    hand,           \* the line it works on, a call or the number of a report
    callback,       \* per kind NULL or the function registered for it, which
                    \* is written like the kind
    threads,        \* AsyncWait(0, callback, value) threads not yet run
    delivered,      \* the calls of callbacks
    raced           \* a release came between test and load; nothing reads it

receiver == <<alive, recv, hand>>
reports  == <<report, receiver, callback, threads, delivered, raced>>
vars     == <<replies, reports>>

Init ==
    /\ ReplyInit
    /\ report = <<>>
    /\ \E r \in Receivers : alive = {r}
    /\ recv = [r \in Receivers |-> "reading"]
    /\ hand = [r \in Receivers |-> NULL]
    /\ callback = [k \in Kinds |-> NULL]
    /\ threads = {}
    /\ delivered = {}
    /\ raced = FALSE

-----------------------------------------------------------------------------
(* The receive thread.                                                     *)

(* available() and readline().                                             *)
ReadLine(r) ==
    /\ r \in alive /\ recv[r] = "reading" /\ line # <<>>
    /\ hand' = [hand EXCEPT ![r] = Head(line)]
    /\ recv' = [recv EXCEPT ![r] = "line"]
    /\ line' = Tail(line)
    /\ UNCHANGED <<executed, outcome, told, api, answer, arrived, handling,
                   heard, caches, armMode, switches, aborted, report, alive,
                   callback, threads, delivered, raced>>

(* It goes back to its loop; the slip does not drop the line.              *)
DoneKeeps(r) ==
    /\ recv' = [recv EXCEPT ![r] = "reading"]
    /\ UNCHANGED hand
Done(r) ==
    /\ recv' = [recv EXCEPT ![r] = "reading"]
    /\ hand' = [hand EXCEPT ![r] = NULL]

(* The '$' branch; see SwiftCommand for its steps.                         *)
DispatchReply(r) ==
    /\ recv[r] = "line" /\ hand[r] \in Calls
    /\ Arrive(hand[r])
    /\ Done(r)
    /\ UNCHANGED <<line, report, alive, callback, threads, delivered, raced>>

(* The test of the callback, and a slip that forgets it.                   *)
Registers(k)    == k \in Kinds
Registered(k)   == callback[k] # NULL

(* A report of the power is kept first.  A value that does not parse is    *)
(* not reported: stof and stoi throw, and the thread catches; a switch     *)
(* that is neither '0' nor '1' is passed over.                             *)
DispatchReport(r) ==
    /\ recv[r] = "line" /\ hand[r] \in 1 .. Len(report)
    /\ LET p == report[hand[r]]
       IN /\ power_status' = IF p.kind = "power" /\ p.value # Bare
                             THEN p.value = 1 ELSE power_status
          /\ power_seen' = IF p.kind = "power" /\ p.value # Bare
                           THEN p.asOf ELSE power_seen
          /\ \/ /\ Registered(p.kind) /\ p.value # Bare
                /\ recv' = [recv EXCEPT ![r] = "handing"]
                /\ UNCHANGED hand
             \/ /\ ~Registered(p.kind) \/ p.value = Bare
                /\ Done(r)
    /\ UNCHANGED <<executed, outcome, told, api, answer, arrived, handling,
                   heard, mode, device_info, armMode, switches, line, aborted,
                   report, alive, callback, threads, delivered, raced>>

(* The value passed on: for the limit switch the code passes true in both  *)
(* branches.                                                               *)
Passed(p) == IF p.kind = "limit" THEN 1 ELSE p.value

(* The callback the receiver loads for the thread it starts, and a slip    *)
(* of a copied branch.                                                     *)
LoadPower(k) == IF k = "limit" THEN callback["power"] ELSE callback[k]
Load(k)      == callback[k]

HandOff(r) ==
    /\ recv[r] = "handing"
    /\ LET p == report[hand[r]]
       IN threads' = threads \cup
            {[n |-> hand[r], fn |-> Load(p.kind), arg |-> Passed(p)]}
    /\ Done(r)
    /\ UNCHANGED <<replies, report, alive, callback, delivered, raced>>

(* Such a thread runs; a null pointer ends the process.                    *)
CallReport(t) ==
    /\ threads' = threads \ {t}
    /\ \/ /\ t.fn # NULL
          /\ delivered' = delivered \cup {t}
          /\ UNCHANGED aborted
       \/ /\ t.fn = NULL
          /\ aborted' = TRUE
          /\ UNCHANGED delivered
    /\ UNCHANGED <<executed, outcome, told, api, answer, arrived, handling,
                   heard, caches, armMode, switches, line, report, receiver,
                   callback, raced>>

-----------------------------------------------------------------------------
(* The application registers a function (NULL is refused) or releases it.  *)
Register(k) ==
    /\ callback' = [callback EXCEPT ![k] = k]
    /\ UNCHANGED <<replies, report, receiver, threads, delivered, raced>>

Release(k) ==
    /\ callback' = [callback EXCEPT ![k] = NULL]
    /\ raced' = (raced \/ \E r \in Receivers :
                            recv[r] = "handing" /\ report[hand[r]].kind = k)
    /\ UNCHANGED <<replies, report, receiver, threads, delivered>>

(* Another session begins while the receive thread of this one sleeps; see *)
(* SwiftSession.                                                           *)
NewSession(r) ==
    /\ r \notin alive
    /\ alive' = alive \cup {r}
    /\ UNCHANGED <<replies, report, recv, hand, callback, threads, delivered,
                   raced>>

-----------------------------------------------------------------------------
(* The arm sends a report, which may be cut.                               *)
Sent == Cardinality(executed) + Len(report)
Send(k, v) ==
    /\ Sent < MaxLines
    /\ report' = Append(report, [kind |-> k, value |-> v, asOf |-> switches'])
    /\ line' = Append(line, Len(report) + 1)

Emit(k, v) ==
    /\ k # "power"
    /\ UNCHANGED switches
    /\ Send(k, v)
    /\ UNCHANGED <<executed, outcome, told, api, answer, arrived, handling,
                   heard, caches, armMode, aborted, receiver, callback,
                   threads, delivered, raced>>

Switch ==
    /\ switches < MaxSwitches
    /\ switches' = switches + 1
    /\ \E v \in {IF PowerAt(switches + 1) THEN 1 ELSE 0, Bare} : Send("power", v)
    /\ UNCHANGED <<executed, outcome, told, api, answer, arrived, handling,
                   heard, caches, armMode, aborted, receiver, callback,
                   threads, delivered, raced>>

(* A line is lost.                                                         *)
Lose ==
    /\ line # <<>>
    /\ line' = Tail(line)
    /\ UNCHANGED <<executed, outcome, told, api, answer, arrived, handling,
                   heard, caches, armMode, switches, aborted, reports>>

Application ==
    \/ (\E a \in Apps : App(a)) /\ UNCHANGED reports
    \/ \E k \in Kinds : Register(k) \/ Release(k)
Channel ==
    /\ \E c \in CallbackCalls, r \in {"TIMEOUT"} \cup CallbackCalls :
         Tell(c, r) \/ Handle(c, r)
    /\ UNCHANGED reports
Receive ==
    \/ \E t \in threads : CallReport(t)
    \/ \E r \in Receivers : \/ ReadLine(r) \/ DispatchReply(r)
                            \/ DispatchReport(r) \/ HandOff(r) \/ NewSession(r)
Arm ==
    \/ Sent < MaxLines /\ (\E c \in Calls : Execute(c)) /\ UNCHANGED reports
    \/ \E k \in Kinds, v \in Values : Emit(k, v)
    \/ Switch \/ Lose

Next ==
    /\ ~aborted
    /\ Application \/ Channel \/ Receive \/ Arm

Spec == Init /\ [][Next]_vars

(* The timer of an accepted call or the receiver tells its handler         *)
(* something (SwiftCommand, CallbackRuns) and detached threads run.        *)
FirstTell(c) ==
    /\ ~aborted /\ outcome[c] = "ok" /\ told[c] = {}
    /\ \E r \in {"TIMEOUT", c} : Tell(c, r)
    /\ UNCHANGED reports
HandleNext(c) ==
    /\ ~aborted
    /\ \E r \in {"TIMEOUT", c} : Handle(c, r)
    /\ UNCHANGED reports
LiveSpec ==
    /\ Spec
    /\ \A c \in CallbackCalls : WF_vars(FirstTell(c)) /\ WF_vars(HandleNext(c))

-----------------------------------------------------------------------------
(* Properties.                                                             *)

Handler(c) == Op(op[c]).handler

(* The bookkeeping every other property leans on: what has been told,      *)
(* handled, returned or handed on belongs to a call that was issued and,   *)
(* if it is an answer, to a command that was executed and whose answer the *)
(* receiver has read; a receive thread has a line in hand exactly while it *)
(* works on one.                                                           *)
ArmInv ==
    /\ op \in [Calls -> Ops \cup {NULL}]
    /\ cur \in [Apps -> Calls \cup {NULL}]
    /\ executed \subseteq Calls /\ arrived \subseteq executed
    /\ \A c \in executed : op[c] # NULL /\ answer[c] \in Texts
    /\ \A c \in Calls : outcome[c] \in Calls => outcome[c] = c /\ c \in arrived
    /\ \A c \in CallbackCalls :
         /\ told[c] \subseteq {"TIMEOUT", c}
         /\ c \in told[c] => c \in arrived
    /\ \A p \in handling :
         p[1] \in CallbackCalls /\ p[2] \in told[p[1]] /\ op[p[1]] # NULL
    /\ \A n \in DOMAIN report : report[n].kind \in AllKinds
    /\ \A r \in Receivers :
         /\ recv[r] = "reading" => hand[r] = NULL
         /\ recv[r] = "line" => hand[r] \in executed \cup DOMAIN report
         /\ recv[r] = "handing" => hand[r] \in DOMAIN report
    /\ callback \in [Kinds -> AllKinds \cup {NULL}]
    /\ mode \in 0 .. 255 /\ power_status \in BOOLEAN

(* What the API says is true of the arm: 0 from set_* means that the arm   *)
(* has executed this very command and said ok, and a number or text from a *)
(* question is the arm's answer to this very question.  Returned values    *)
(* and those told to the user's callback alike.                            *)
Truthful(c, v) ==
    LET h == Handler(c)
    IN /\ h = "set" /\ v = <<0>> => c \in executed /\ answer[c].word = "ok"
       /\ h = "vector" /\ v # <<>> => c \in executed /\ answer[c].fields = v
       /\ h \in {"int", "mode", "power"} /\ v # <<-1>> =>
            c \in executed /\ answer[c].fields[1] = v[1]
       /\ h = "info" /\ v # <<0>> => c \in executed /\ answer[c].fields[1] = v[1]
ValuesTruthful ==
    /\ \A c \in Calls : value[c] # NULL => Truthful(c, value[c])
    /\ \A c \in CallbackCalls : \A v \in heard[c] : Truthful(c, v)

(* The values kept in the object are answers to the question they are      *)
(* about: mode is 255 until an answer to get_mode, an entry of device_info *)
(* the answer to its own command, and power_status the state of the power  *)
(* at some moment.                                                         *)
CachesFaithful ==
    /\ mode # 255 =>
         \E c \in arrived : op[c] = "get_mode" /\ GetInt(answer[c]) = mode
    /\ \A i \in Infos : device_info[i] # 0 =>
         \E c \in arrived : op[c] = i /\ GetString(answer[c]) = device_info[i]
    /\ power_seen \in 0 .. switches
    /\ power_status = PowerAt(power_seen)

(* power_status goes back to an older state of the arm only where two      *)
(* receive threads are alive or where an answer to get_power_status is     *)
(* kept after a later report was.                                          *)
PowerForward ==
    [][power_seen' < power_seen =>
         \/ Cardinality(alive) > 1
         \/ \E c \in arrived : /\ op[c] = "get_power_status"
                               /\ answer[c].asOf = power_seen']_vars

(* A registered function is called at most once for a report, the one of   *)
(* its kind, with the value that was sent - except for the limit switch,   *)
(* of which it is told true whatever was sent.                             *)
ReportsTold ==
    LET calls == threads \cup delivered
    IN /\ \A t \in calls :
            /\ t.n \in DOMAIN report
            /\ t.fn \in {report[t.n].kind, NULL}
            /\ report[t.n].kind # "limit" => t.arg = report[t.n].value
       /\ \A t, u \in calls : t.n = u.n => t = u

(* The process ends only where a callback was released between the test    *)
(* and the use of its pointer, or where the handler of an asynchronous     *)
(* call was given an answer with an empty field.                           *)
AbortExplained ==
    /\ \A t \in threads : t.fn = NULL => raced
    /\ aborted => \/ raced
                  \/ \E c \in CallbackCalls :
                       c \in told[c] /\ Throws(Handler(c), answer[c])

(* The user's callback of an accepted call is called, with an answer or    *)
(* with an error code, unless the process ends; that of get_position,      *)
(* get_polar and get_servo_angle only if the arm has answered in full.     *)
CallbacksHear ==
    \A c \in CallbackCalls :
        outcome[c] = "ok" ~>
            \/ heard[c] # {} \/ aborted
            \/ /\ told[c] # {}
               /\ Handler(c) = "vector"
               /\ \A r \in told[c] : ~Answers(TextOf(r), 3)

(* Each thing a callback was told is being handled, or the user has heard  *)
(* what the handler makes of it, or the process has ended, or it is an     *)
(* answer of less than three fields to a question for a vector: no handler *)
(* thread is forgotten, and none loses its answer to another.              *)
NothingUnheard ==
    \A c \in CallbackCalls : \A r \in told[c] :
        \/ <<c, r>> \in handling
        \/ Value(Handler(c), TextOf(r)) \in heard[c]
        \/ Handler(c) = "vector" /\ ~Answers(TextOf(r), 3)
        \/ aborted
===============================================================================

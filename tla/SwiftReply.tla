------------------------------ MODULE SwiftReply ------------------------------
(***************************************************************************)
(* The command API of uarm::Swift (src/src/uarm.cc): set_*, get_* and      *)
(* get_device_info send a command and hand the answer to one of four       *)
(* handlers, which turn its text into a value, keep some values in the     *)
(* object (mode, power_status, device_info) and return the value or call   *)
(* the user's callback with it.                                            *)
(*                                                                         *)
(* The command channel below is taken as what it promises (CommandPromise, *)
(* implemented by SwiftCommand).  The receive thread, which lets an answer *)
(* arrive, is in SwiftReport; that module composes the two.                *)
(***************************************************************************)
EXTENDS Integers, Sequences, FiniteSets

CONSTANTS
    SyncCalls,      \* uses of the channel with wait = true
    CallbackCalls,  \* with wait = false and a callback
    BareCalls,      \* with wait = false and no callback
    Apps,           \* application threads
    Programs,       \* what each may do: sequences of operations
    Modes,          \* the modes set_mode is called with
    ErrorWords,     \* error codes the arm answers with
    MaxSwitches,    \* bound: how often the arm's power is switched
    Bare,           \* a field of one letter, without a value
    NULL

Calls == SyncCalls \cup CallbackCalls \cup BareCalls

(* The operations, each with its handler and the command it sends.         *)
SetOps == [
    set_report_position   |-> [handler |-> "set", code |-> "M2120"],
    set_report_keys       |-> [handler |-> "set", code |-> "M2213"],
    set_servo_attach      |-> [handler |-> "set", code |-> "M2201"],
    set_servo_attach_all  |-> [handler |-> "set", code |-> "M17"],
    set_servo_detach      |-> [handler |-> "set", code |-> "M2202"],
    set_servo_detach_all  |-> [handler |-> "set", code |-> "M2019"],
    set_mode              |-> [handler |-> "set", code |-> "M2400"],
    set_position          |-> [handler |-> "set", code |-> "G0"],
    set_position_relative |-> [handler |-> "set", code |-> "G2204"],
    set_polar             |-> [handler |-> "set", code |-> "G2201"],
    set_polar_relative    |-> [handler |-> "set", code |-> "G2205"],
    set_servo_angle       |-> [handler |-> "set", code |-> "G2202"],
    set_wrist             |-> [handler |-> "set", code |-> "G2202"],
    set_buzzer            |-> [handler |-> "set", code |-> "M2210"],
    set_pump              |-> [handler |-> "set", code |-> "M2231"],
    set_gripper           |-> [handler |-> "set", code |-> "M2232"],
    set_digital_output    |-> [handler |-> "set", code |-> "M2240"],
    set_digital_direction |-> [handler |-> "set", code |-> "M2241"],
    set_acceleration      |-> [handler |-> "set", code |-> "M204"]]

GetOps == [
    get_position      |-> [handler |-> "vector", code |-> "P2220"],
    get_polar         |-> [handler |-> "vector", code |-> "P2221"],
    get_servo_angle   |-> [handler |-> "vector", code |-> "P2200"],
    get_mode          |-> [handler |-> "mode",   code |-> "P2400"],
    get_servo_attach  |-> [handler |-> "int",    code |-> "M2203"],
    get_limit_switch  |-> [handler |-> "int",    code |-> "P2233"],
    get_gripper_catch |-> [handler |-> "int",    code |-> "P2232"],
    get_pump_status   |-> [handler |-> "int",    code |-> "P2231"],
    get_power_status  |-> [handler |-> "power",  code |-> "P2234"],
    get_digital       |-> [handler |-> "int",    code |-> "P2240"],
    get_analog        |-> [handler |-> "int",    code |-> "P2241"],
    get_is_moving     |-> [handler |-> "int",    code |-> "M2200"]]

InfoOps == [
    device_type      |-> [handler |-> "info", code |-> "P2201"],
    hardware_version |-> [handler |-> "info", code |-> "P2202"],
    firmware_version |-> [handler |-> "info", code |-> "P2203"],
    api_version      |-> [handler |-> "info", code |-> "P2204"],
    device_unique    |-> [handler |-> "info", code |-> "P2205"]]

Infos == DOMAIN InfoOps
Ops   == DOMAIN SetOps \cup DOMAIN GetOps \cup Infos
Op(o) == IF o \in Infos THEN InfoOps[o]
         ELSE IF o \in DOMAIN GetOps THEN GetOps[o] ELSE SetOps[o]

(* get_device_info asks for its five entries one after the other, reset    *)
(* sends five commands and looks at none of the results.                   *)
get_device_info == <<"device_type", "hardware_version", "firmware_version",
                     "api_version", "device_unique">>
reset == <<"set_servo_attach_all", "set_wrist", "set_pump", "set_gripper",
           "set_position">>

(* What _send_cmd returns besides an answer.                               *)
Results == {"ok", "TIMEOUT", "NotConnected", "Exception"}

ASSUME ReplyAssumption ==
    /\ Programs \subseteq Seq(Ops)
    /\ Modes \subseteq 0 .. 3
    /\ MaxSwitches \in Nat
    /\ Bare \notin Int
    /\ SyncCalls \cap CallbackCalls = {} /\ SyncCalls \cap BareCalls = {}
    /\ CallbackCalls \cap BareCalls = {}
    /\ NULL \notin Calls \cup Ops \cup Results
    /\ Calls \cap Results = {}

VARIABLES
    executed, outcome, told,    \* the channel, see CommandPromise
    todo,           \* what is left of the program of each thread
    cur,            \* the call each thread is in
    op,             \* the operation of each call
    answer,         \* the answer of the arm as the receiver reads it
    arrived,        \* the calls whose answer the receiver has handed on
    value,          \* what a finished call returned, NULL after an exception
    handling,       \* handlers that run in threads of their own
    heard,          \* what the user's callback of a call was called with
    mode,           \* Swift::mode, a uint8_t
    power_status,   \* Swift::power_status
    device_info,    \* Swift::device_info, 0 for an empty string
    power_seen,     \* how often the power had been switched by the time that
                    \* power_status is about; nothing reads it
    armMode,        \* the mode of the arm
    switches,       \* how often the power of the arm has been switched
    line,           \* what the arm has sent and nobody has read
    aborted         \* the process has been terminated

Promise == INSTANCE CommandPromise

api    == <<todo, cur, op, value>>
caches == <<mode, power_status, device_info, power_seen>>
replies == <<executed, outcome, told, api, answer, arrived, handling, heard,
             caches, armMode, switches, line, aborted>>

(* The power is off at first.                                              *)
PowerAt(n) == n % 2 = 1

ReplyInit ==
    /\ Promise!Init
    /\ todo \in [Apps -> Programs]
    /\ cur = [a \in Apps |-> NULL]
    /\ op = [c \in Calls |-> NULL]
    /\ answer = [c \in Calls |-> NULL]
    /\ arrived = {}
    /\ value = [c \in Calls |-> NULL]
    /\ handling = {}
    /\ heard = [c \in CallbackCalls |-> {}]
    /\ mode = 255
    /\ power_status = FALSE
    /\ device_info = [i \in Infos |-> 0]
    /\ power_seen = 0
    /\ armMode = 0
    /\ switches = 0
    /\ line = <<>>
    /\ aborted = FALSE

-----------------------------------------------------------------------------
(* Texts and what the handlers make of them.  A text is its first word and *)
(* the values of the fields after it.                                      *)

Text(w, fs) == [word |-> w, fields |-> fs, asOf |-> switches]
TextOf(r)   == IF r \in Calls THEN answer[r]
               ELSE [word |-> r, fields |-> <<>>, asOf |-> 0]

Texts == [word : {"ok", "o"} \cup ErrorWords, fields : Seq(Int \cup {Bare}),
          asOf : Nat]

(* What the arm answers to a command.                                      *)
Reply(code) ==
    CASE code = "P2400" -> <<armMode>>
      [] code = "P2234" -> <<IF PowerAt(switches) THEN 1 ELSE 0>>
      [] code \in {"P2220", "P2221", "P2200"} -> <<1, 1, 1>>
      [] \E i \in Infos : InfoOps[i].code = code ->
           <<CHOOSE n \in 1 .. 5 : InfoOps[get_device_info[n]].code = code>>
      [] \E o \in DOMAIN GetOps : /\ GetOps[o].handler = "int"
                                 /\ GetOps[o].code = code -> <<2>>
      [] OTHER -> <<>>

(* A reply line cut by the read timeout: the last field is missing or has  *)
(* lost its value, or even the first word is not whole.                    *)
Cuts(t) ==
    {Text("o", <<>>)}
    \cup {[t EXCEPT !.fields = fs] :
            fs \in IF t.fields = <<>> THEN {}
                   ELSE LET front == SubSeq(t.fields, 1, Len(t.fields) - 1)
                        IN {front, Append(front, Bare)}}

(* What set_* return, and a slip that starts from 0.                       *)
Codes == [ok |-> 0, NotConnected |-> -1, TIMEOUT |-> -2, Exception |-> -3,
          E20 |-> -4, E21 |-> -5, E22 |-> -6, E23 |-> -7, E24 |-> -8,
          E25 |-> -9, E26 |-> -10]
SetIntZero(t) == IF t.word \in DOMAIN Codes THEN Codes[t.word] ELSE 0
SetInt(t)     == IF t.word \in DOMAIN Codes THEN Codes[t.word] ELSE -1

(* substr(1) of a field without a value makes stof and stoi throw.         *)
Answers(t, n)  == t.word = "ok" /\ Len(t.fields) >= n
Throws(h, t) ==
    \/ h = "vector" /\ Answers(t, 3) /\ \E n \in DOMAIN t.fields : t.fields[n] = Bare
    \/ h \in {"int", "mode", "power"} /\ Answers(t, 1) /\ t.fields[1] = Bare

GetInt(t)    == IF Answers(t, 1) THEN t.fields[1] ELSE -1
GetVector(t) == IF Answers(t, 3) THEN t.fields ELSE <<>>
GetString(t) == IF Answers(t, 1) /\ t.fields[1] # Bare THEN t.fields[1] ELSE 0

(* The value a handler makes of a text that it does not choke on.          *)
Value(h, t) ==
    CASE h = "set"    -> <<SetInt(t)>>
      [] h = "vector" -> GetVector(t)
      [] h = "info"   -> <<GetString(t)>>
      [] OTHER        -> <<GetInt(t)>>

(* What it keeps, and a slip that keeps the value of every question that   *)
(* has a number for an answer.                                             *)
KeepAny(c, h, t) ==
    LET kept == h \in {"int", "mode", "power"} /\ GetInt(t) # -1
    IN /\ mode' = IF kept THEN GetInt(t) % 256 ELSE mode
       /\ power_status' = IF kept THEN GetInt(t) > 0 ELSE power_status
       /\ power_seen' = IF kept THEN t.asOf ELSE power_seen
       /\ UNCHANGED device_info
Keep(c, h, t) ==
    /\ mode' = IF h = "mode" /\ GetInt(t) # -1
               THEN GetInt(t) % 256 ELSE mode
    /\ power_status' = IF h = "power" /\ GetInt(t) # -1
                       THEN GetInt(t) > 0 ELSE power_status
    /\ power_seen' = IF h = "power" /\ GetInt(t) # -1
                     THEN t.asOf ELSE power_seen
    /\ device_info' = IF h = "info" /\ Answers(t, 1)
                      THEN [device_info EXCEPT ![op[c]] = GetString(t)]
                      ELSE device_info

(* Whether the handler of an asynchronous call calls the user's callback,  *)
(* and a slip that treats every question like a vector.                    *)
TellsAnswers(h, t) == h = "set" \/ Answers(t, 1)
TellsUser(h, t)    == h # "vector" \/ Answers(t, 3)

-----------------------------------------------------------------------------
(* An application thread.                                                  *)

(* get_device_info does not ask for what it has.                           *)
Skip(a) ==
    /\ cur[a] = NULL /\ todo[a] # <<>>
    /\ Head(todo[a]) \in Infos /\ device_info[Head(todo[a])] # 0
    /\ todo' = [todo EXCEPT ![a] = Tail(@)]
    /\ UNCHANGED <<executed, outcome, told, cur, op, value, answer, arrived,
                   handling, heard, caches, armMode, switches, line, aborted>>

(* The call of _send_cmd; the entries of device_info are asked for with    *)
(* wait = true.                                                            *)
Issue(a, c) ==
    /\ cur[a] = NULL /\ todo[a] # <<>> /\ op[c] = NULL
    /\ Head(todo[a]) \in Infos => device_info[Head(todo[a])] = 0 /\ c \in SyncCalls
    /\ op' = [op EXCEPT ![c] = Head(todo[a])]
    /\ cur' = [cur EXCEPT ![a] = c]
    /\ todo' = [todo EXCEPT ![a] = Tail(@)]
    /\ UNCHANGED <<executed, outcome, told, value, answer, arrived, handling,
                   heard, caches, armMode, switches, line, aborted>>

(* _send_cmd returns, with the answer only after it has arrived.           *)
Return(a, r) ==
    /\ cur[a] # NULL
    /\ r = cur[a] => r \in arrived
    /\ Promise!Return(cur[a], r)
    /\ UNCHANGED <<api, answer, arrived, handling, heard, caches, armMode,
                   switches, line, aborted>>

(* The handler of a synchronous call works in the calling thread, where an *)
(* exception ends the program.                                             *)
Finish(a) ==
    /\ cur[a] \in SyncCalls /\ outcome[cur[a]] # NULL
    /\ LET c == cur[a]
           h == Op(op[c]).handler
           t == TextOf(outcome[c])
       IN \/ /\ ~Throws(h, t)
             /\ Keep(c, h, t)
             /\ value' = [value EXCEPT ![c] = Value(h, t)]
             /\ UNCHANGED todo
          \/ /\ Throws(h, t)
             /\ todo' = [todo EXCEPT ![a] = <<>>]
             /\ UNCHANGED <<caches, value>>
    /\ cur' = [cur EXCEPT ![a] = NULL]
    /\ UNCHANGED <<executed, outcome, told, op, answer, arrived, handling,
                   heard, armMode, switches, line, aborted>>

(* An asynchronous call returns -1, an empty vector or an empty string,    *)
(* whatever became of the command.                                         *)
FinishAsync(a) ==
    /\ cur[a] \in CallbackCalls \cup BareCalls /\ outcome[cur[a]] # NULL
    /\ value' = [value EXCEPT ![cur[a]] =
                   IF Op(op[cur[a]]).handler = "vector" THEN <<>> ELSE <<-1>>]
    /\ cur' = [cur EXCEPT ![a] = NULL]
    /\ UNCHANGED <<executed, outcome, told, todo, op, answer, arrived,
                   handling, heard, caches, armMode, switches, line, aborted>>

(* The channel calls the handler of an asynchronous call, in a detached    *)
(* thread ...                                                              *)
Tell(c, r) ==
    /\ op[c] # NULL
    /\ r = c => c \in arrived
    /\ Promise!Tell(c, r)
    /\ handling' = handling \cup {<<c, r>>}
    /\ UNCHANGED <<api, answer, arrived, heard, caches, armMode, switches,
                   line, aborted>>

(* ... where an exception terminates the process.                          *)
Handle(c, r) ==
    /\ <<c, r>> \in handling
    /\ handling' = handling \ {<<c, r>>}
    /\ LET h == Op(op[c]).handler
           t == TextOf(r)
       IN \/ /\ ~Throws(h, t)
             /\ Keep(c, h, t)
             /\ heard' = IF TellsUser(h, t)
                         THEN [heard EXCEPT ![c] = @ \cup {Value(h, t)}]
                         ELSE heard
             /\ UNCHANGED aborted
          \/ /\ Throws(h, t)
             /\ aborted' = TRUE
             /\ UNCHANGED <<caches, heard>>
    /\ UNCHANGED <<executed, outcome, told, api, answer, arrived, armMode,
                   switches, line>>

-----------------------------------------------------------------------------
(* The arm executes a command and sends its answer, or an error code, or   *)
(* what the line leaves of an answer.                                      *)
Execute(c) ==
    /\ op[c] # NULL
    /\ Promise!Execute(c)
    /\ \/ /\ armMode' \in IF Op(op[c]).code = "M2400" THEN Modes ELSE {armMode}
          /\ LET t == Text("ok", Reply(Op(op[c]).code))
             IN \E u \in {t} \cup Cuts(t) : answer' = [answer EXCEPT ![c] = u]
       \/ /\ \E w \in ErrorWords :
               answer' = [answer EXCEPT ![c] = Text(w, <<>>)]
          /\ UNCHANGED armMode
    /\ line' = Append(line, c)
    /\ UNCHANGED <<api, arrived, handling, heard, caches, switches, aborted>>

(* The receiver hands an answer on: result[] or the callback.              *)
Arrive(c) ==
    /\ arrived' = arrived \cup {c}
    /\ UNCHANGED <<executed, outcome, told, api, answer, handling, heard,
                   caches, armMode, switches, aborted>>

App(a) ==
    \/ Skip(a) \/ Finish(a) \/ FinishAsync(a)
    \/ \E c \in Calls : Issue(a, c)
    \/ \E r \in Results \cup SyncCalls : Return(a, r)
===============================================================================

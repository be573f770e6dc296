--------------------------- MODULE SwiftReportProofs ---------------------------
(* Theorems about SwiftReport for any calls, programs, threads and reports. *)
EXTENDS SwiftReport, SequenceTheorems, FiniteSetTheorems, TLAPS

Fields == Seq(Int \cup {Bare})

-----------------------------------------------------------------------------
(* The calls and their answers.                                             *)

ReplyTypes ==
    /\ todo \in [Apps -> Seq(Ops)]
    /\ cur \in [Apps -> Calls \cup {NULL}]
    /\ op \in [Calls -> Ops \cup {NULL}]
    /\ outcome \in [Calls -> Results \cup Calls \cup {NULL}]
    /\ told \in [CallbackCalls -> SUBSET (Calls \cup {"TIMEOUT"})]
    /\ answer \in [Calls -> Texts \cup {NULL}]
    /\ value \in [Calls -> Fields \cup {NULL}]
    /\ heard \in [CallbackCalls -> SUBSET Fields]
    /\ handling \subseteq CallbackCalls \X (Calls \cup {"TIMEOUT"})
    /\ mode \in 0 .. 255 /\ armMode \in 0 .. 3

(* What has been returned, told or kept belongs to an issued call, and an   *)
(* answer to an executed command whose answer has arrived.                  *)
CallsInv ==
    /\ executed \subseteq Calls /\ arrived \subseteq executed
    /\ \A c \in executed : op[c] # NULL /\ answer[c] \in Texts
    /\ \A a \in Apps : cur[a] # NULL => op[cur[a]] # NULL
    /\ \A c \in Calls : outcome[c] \in Calls => outcome[c] = c /\ c \in arrived
    /\ \A c \in SyncCalls : outcome[c] # "ok"
    /\ \A c \in CallbackCalls : \A r \in told[c] :
         r = "TIMEOUT" \/ (r = c /\ c \in arrived)
    /\ \A p \in handling : p[2] \in told[p[1]] /\ op[p[1]] # NULL
    /\ \A c \in Calls : value[c] # NULL => op[c] # NULL
    /\ \A c \in CallbackCalls : heard[c] # {} => op[c] # NULL
    /\ \A c \in Calls : op[c] \in Infos => c \in SyncCalls

ReplyInv == ReplyTypes /\ CallsInv /\ ValuesTruthful

LEMMA ReplyStart == Init => ReplyInv
<1> SUFFICES ASSUME Init PROVE ReplyInv
    OBVIOUS
<1> USE DEF Init, ReplyInit, Promise!Init, Promise!Commands, Calls
<1>1. ReplyTypes
    BY ReplyAssumption DEF ReplyTypes
<1>2. CallsInv
    BY ReplyAssumption DEF CallsInv, Results, Ops
<1>3. ValuesTruthful
    BY DEF ValuesTruthful
<1> QED
    BY <1>1, <1>2, <1>3 DEF ReplyInv

(* What the arm answers, whole or cut, is a text.                           *)
LEMMA InfoAsked ==
    ASSUME NEW i \in Infos PROVE \E n \in 1 .. 5 : get_device_info[n] = i
<1>1. i \in {"device_type", "hardware_version", "firmware_version",
             "api_version", "device_unique"}
    BY DEF Infos, InfoOps
<1>2. /\ get_device_info[1] = "device_type"
      /\ get_device_info[2] = "hardware_version"
      /\ get_device_info[3] = "firmware_version"
      /\ get_device_info[4] = "api_version"
      /\ get_device_info[5] = "device_unique"
    BY DEF get_device_info
<1> QED
    BY <1>1, <1>2

LEMMA ReplyIsText ==
    ASSUME armMode \in 0 .. 3, NEW code
    PROVE  Reply(code) \in Fields
<1> DEFINE isInfo == \E i \in Infos : InfoOps[i].code = code
           isInt  == \E o \in DOMAIN GetOps : /\ GetOps[o].handler = "int"
                                             /\ GetOps[o].code = code
           info   == CHOOSE n \in 1 .. 5 : InfoOps[get_device_info[n]].code = code
           power  == IF PowerAt(switches) THEN 1 ELSE 0
<1>1. Reply(code) = CASE code = "P2400" -> <<armMode>>
                      [] code = "P2234" -> <<power>>
                      [] code \in {"P2220", "P2221", "P2200"} -> <<1, 1, 1>>
                      [] isInfo -> <<info>>
                      [] isInt  -> <<2>>
                      [] OTHER  -> <<>>
    BY DEF Reply
<1>2. isInfo => info \in Int
    <2>1. isInfo => \E n \in 1 .. 5 : InfoOps[get_device_info[n]].code = code
        BY InfoAsked
    <2> QED
        BY <2>1
<1>3. <<armMode>> \in Fields /\ <<power>> \in Fields /\ <<1, 1, 1>> \in Fields
      /\ <<2>> \in Fields /\ <<>> \in Fields /\ (isInfo => <<info>> \in Fields)
    BY <1>2 DEF Fields
<1> HIDE DEF isInfo, isInt, info, power
<1> QED
    BY <1>1, <1>3

LEMMA CutsAreTexts ==
    ASSUME NEW t \in Texts, switches \in Nat, NEW u \in {t} \cup Cuts(t)
    PROVE  u \in Texts
<1>1. Text("o", <<>>) \in Texts
    BY DEF Text, Texts
<1>2. ASSUME t.fields # <<>>,
             NEW fs \in {SubSeq(t.fields, 1, Len(t.fields) - 1),
                         Append(SubSeq(t.fields, 1, Len(t.fields) - 1), Bare)}
      PROVE  [t EXCEPT !.fields = fs] \in Texts
    <2>1. t.fields \in Seq(Int \cup {Bare}) /\ Len(t.fields) \in Nat \ {0}
        BY <1>2, EmptySeq, LenProperties DEF Texts
    <2>2. SubSeq(t.fields, 1, Len(t.fields) - 1) \in Seq(Int \cup {Bare})
        BY <2>1, SubSeqProperties
    <2>3. fs \in Seq(Int \cup {Bare})
        BY <1>2, <2>2, AppendProperties
    <2> QED
        BY <2>3 DEF Texts
<1> QED
    BY <1>1, <1>2 DEF Cuts

(* set_* return 0 for "ok" only.                                            *)
LEMMA ZeroIsOk == ASSUME NEW t, SetInt(t) = 0 PROVE t.word = "ok"
<1>1. /\ Codes["NotConnected"] = -1 /\ Codes["TIMEOUT"] = -2
      /\ Codes["Exception"] = -3 /\ Codes["E20"] = -4 /\ Codes["E21"] = -5
      /\ Codes["E22"] = -6 /\ Codes["E23"] = -7 /\ Codes["E24"] = -8
      /\ Codes["E25"] = -9 /\ Codes["E26"] = -10
    BY DEF Codes
<1>2. DOMAIN Codes = {"ok", "NotConnected", "TIMEOUT", "Exception", "E20",
                      "E21", "E22", "E23", "E24", "E25", "E26"}
    BY DEF Codes
<1>3. t.word \in DOMAIN Codes /\ Codes[t.word] = 0
    BY DEF SetInt
<1> QED
    BY <1>1, <1>2, <1>3

LEMMA SetIntType == ASSUME NEW t PROVE SetInt(t) \in Int
<1>1. \A w \in DOMAIN Codes : Codes[w] \in Int
    BY DEF Codes
<1> QED
    BY <1>1 DEF SetInt

(* What the handlers make of a text with these fields.                      *)
LEMMA ValueType ==
    ASSUME NEW h, NEW t, t.fields \in Fields, ~Throws(h, t)
    PROVE  /\ Value(h, t) \in Fields
           /\ h = "mode" => GetInt(t) \in Int
<1>1. ASSUME Answers(t, 1) PROVE t.fields[1] \in Int \cup {Bare}
    BY <1>1 DEF Answers, Fields
<1>2. CASE h = "set"
    BY <1>2, SetIntType DEF Value, Fields
<1>3. CASE h = "vector"
    BY <1>3 DEF Value, GetVector, Fields
<1>4. CASE h = "info"
    <2>1. GetString(t) \in Int \cup {Bare}
        BY <1>1 DEF GetString
    <2> QED
        BY <1>4, <2>1 DEF Value, Fields
<1>5. CASE h \notin {"set", "vector", "info"}
    <2>1. GetInt(t) \in Int \cup {Bare}
        BY <1>1 DEF GetInt
    <2>2. h = "mode" => GetInt(t) \in Int
        BY <1>1 DEF GetInt, Throws
    <2>3. Value(h, t) = <<GetInt(t)>>
        BY <1>5 DEF Value
    <2> QED
        BY <1>5, <2>1, <2>2, <2>3 DEF Fields
<1> QED
    BY <1>2, <1>3, <1>4, <1>5

(* The value made of the answer to a call, or of an error, is truthful.     *)
LEMMA ValueTruth ==
    ASSUME NEW c \in Calls, NEW r,
           \/ r = c /\ c \in executed
           \/ r \notin Calls /\ r # "ok"
    PROVE  Truthful(c, Value(Handler(c), TextOf(r)))
<1> DEFINE h == Handler(c)
           t == TextOf(r)
<1>1. t.word = "ok" => c \in executed /\ t = answer[c]
    BY DEF TextOf
<1>2. CASE h = "set"
    <2>1. Value(h, t) = <<SetInt(t)>>
        BY <1>2 DEF Value
    <2>2. Value(h, t) = <<0>> => t.word = "ok"
        BY <2>1, ZeroIsOk
    <2> QED
        BY <1>1, <1>2, <2>2 DEF Truthful
<1>3. CASE h = "vector"
    BY <1>1, <1>3 DEF Value, GetVector, Answers, Truthful
<1>4. CASE h \in {"int", "mode", "power"}
    <2>1. Value(h, t) = <<GetInt(t)>>
        BY <1>4 DEF Value
    <2>2. GetInt(t) # -1 => t.word = "ok" /\ GetInt(t) = t.fields[1]
        BY DEF GetInt, Answers
    <2> QED
        BY <1>1, <1>4, <2>1, <2>2 DEF Truthful
<1>5. CASE h = "info"
    <2>1. Value(h, t) = <<GetString(t)>>
        BY <1>5 DEF Value
    <2>2. GetString(t) # 0 => t.word = "ok" /\ GetString(t) = t.fields[1]
        BY DEF GetString, Answers
    <2> QED
        BY <1>1, <1>5, <2>1, <2>2 DEF Truthful
<1>6. CASE h \notin {"set", "vector", "int", "mode", "power", "info"}
    BY <1>6 DEF Truthful
<1> QED
    BY <1>2, <1>3, <1>4, <1>5, <1>6

(* What a call has told stays true while the answers it is about stay.      *)
LEMMA TruthStays ==
    ASSUME NEW c \in Calls, NEW v, Truthful(c, v), op'[c] = op[c],
           executed \subseteq executed',
           c \in executed => answer'[c] = answer[c]
    PROVE  Truthful(c, v)'
    BY DEF Truthful, Handler

-----------------------------------------------------------------------------
(* The steps that change what ReplyInv is about.                            *)

LEMMA SkipStep ==
    ASSUME ReplyInv, NEW a \in Apps, Skip(a) PROVE ReplyInv'
<1>1. ReplyTypes'
    BY HeadTailProperties DEF ReplyInv, ReplyTypes, Skip, caches
<1>2. CallsInv'
    BY DEF ReplyInv, CallsInv, Skip
<1>3. ValuesTruthful'
    BY DEF ReplyInv, ValuesTruthful, Truthful, Handler, Skip
<1> QED
    BY <1>1, <1>2, <1>3 DEF ReplyInv

LEMMA IssueStep ==
    ASSUME ReplyInv, NEW a \in Apps, NEW c \in Calls, Issue(a, c)
    PROVE  ReplyInv'
<1>0. Head(todo[a]) \in Ops /\ Tail(todo[a]) \in Seq(Ops) /\ Head(todo[a]) # NULL
    BY HeadTailProperties, ReplyAssumption DEF ReplyInv, ReplyTypes, Issue
<1>1. ReplyTypes'
    BY <1>0 DEF ReplyInv, ReplyTypes, Issue, caches
<1>2. op'[c] # NULL /\ op[c] = NULL /\ \A d \in Calls \ {c} : op'[d] = op[d]
    BY <1>0 DEF ReplyInv, ReplyTypes, Issue
<1>3. CallsInv'
    <2>1. \A b \in Apps : cur'[b] # NULL => op'[cur'[b]] # NULL
        BY <1>2 DEF ReplyInv, ReplyTypes, CallsInv, Issue
    <2>2. \A d \in Calls : op[d] # NULL => op'[d] # NULL
        BY <1>2
    <2>3. UNCHANGED <<executed, outcome, told, value, answer, arrived, handling,
                      heard>>
        BY DEF Issue
    <2>4. \A p \in handling : p[1] \in Calls
        BY DEF ReplyInv, ReplyTypes, Calls
    <2>5. \A d \in Calls : op'[d] \in Infos => d \in SyncCalls
        BY <1>2 DEF ReplyInv, ReplyTypes, CallsInv, Issue
    <2> QED
        BY <2>1, <2>2, <2>3, <2>4, <2>5 DEF ReplyInv, CallsInv, Calls
<1>4. ValuesTruthful'
    <2>1. ASSUME NEW d \in Calls, NEW v, Truthful(d, v), op[d] # NULL
          PROVE  Truthful(d, v)'
        BY <1>2, <2>1, TruthStays DEF Issue
    <2>2. \A d \in Calls : value'[d] # NULL => Truthful(d, value[d])'
        BY <2>1 DEF ReplyInv, CallsInv, ValuesTruthful, Issue
    <2>3. \A d \in CallbackCalls : \A v \in heard'[d] : Truthful(d, v)'
        BY <2>1 DEF ReplyInv, CallsInv, ValuesTruthful, Issue, Calls
    <2> QED
        BY <2>2, <2>3 DEF ValuesTruthful, Issue
<1> QED
    BY <1>1, <1>3, <1>4 DEF ReplyInv

LEMMA ReturnStep ==
    ASSUME ReplyInv, NEW a \in Apps, NEW r \in Results \cup SyncCalls, Return(a, r)
    PROVE  ReplyInv'
<1>0. /\ outcome' = [outcome EXCEPT ![cur[a]] = r]
      /\ \/ r \in {"NotConnected", "Exception"}
         \/ cur[a] \in SyncCalls
              /\ (r = "TIMEOUT" \/ (r = cur[a] /\ r \in arrived))
         \/ cur[a] \notin SyncCalls /\ r = "ok"
      /\ cur[a] \in Calls
      /\ UNCHANGED <<executed, told, api, answer, arrived, handling, heard,
                     caches, armMode>>
    BY DEF ReplyInv, ReplyTypes, Return, Promise!Return, Promise!Answered
<1>1. ReplyTypes'
    BY <1>0 DEF ReplyInv, ReplyTypes, Calls, api, caches
<1>2. CallsInv'
    BY <1>0, ReplyAssumption DEF ReplyInv, ReplyTypes, CallsInv, Results, Calls, api
<1>3. ValuesTruthful'
    BY <1>0 DEF ReplyInv, ValuesTruthful, Truthful, Handler, api
<1> QED
    BY <1>1, <1>2, <1>3 DEF ReplyInv

(* What the handlers keep.                                                  *)
LEMMA KeepStep ==
    ASSUME mode \in 0 .. 255, NEW c, NEW h, NEW t,
           h = "mode" => GetInt(t) \in Int, Keep(c, h, t)
    PROVE  mode' \in 0 .. 255
    BY DEF Keep

LEMMA KeepPower ==
    ASSUME power_status \in BOOLEAN, NEW c, NEW h, NEW t, Keep(c, h, t)
    PROVE  power_status' \in BOOLEAN
<1>1. (GetInt(t) > 0) \in BOOLEAN
    OBVIOUS
<1>2. power_status' \in {GetInt(t) > 0, power_status}
    BY DEF Keep
<1> QED
    BY <1>1, <1>2

LEMMA TextOfFields ==
    ASSUME ReplyInv, NEW r, r \in Calls => r \in executed
    PROVE  TextOf(r).fields \in Fields
<1>1. <<>> \in Fields
    BY DEF Fields
<1> QED
    BY <1>1 DEF TextOf, ReplyInv, CallsInv, Texts, Fields

LEMMA FinishStep ==
    ASSUME ReplyInv, NEW a \in Apps, Finish(a)
    PROVE  ReplyInv'
<1> DEFINE c == cur[a]
           h == Op(op[c]).handler
           t == TextOf(outcome[c])
<1>0. /\ c \in SyncCalls /\ c \in Calls /\ outcome[c] # NULL
      /\ cur' = [cur EXCEPT ![a] = NULL]
      /\ UNCHANGED <<executed, outcome, told, op, answer, arrived, handling,
                     heard, armMode>>
    BY DEF Finish, Calls
<1>1. CASE /\ ~Throws(h, t) /\ Keep(c, h, t)
           /\ value' = [value EXCEPT ![c] = Value(h, t)] /\ UNCHANGED todo
    <2>1. \/ outcome[c] = c /\ c \in executed
          \/ outcome[c] \notin Calls /\ outcome[c] # "ok"
        BY <1>0 DEF ReplyInv, CallsInv
    <2>2. t.fields \in Fields
        BY <2>1, TextOfFields
    <2>3. Value(h, t) \in Fields /\ mode' \in 0 .. 255
        BY <1>1, <2>2, ValueType, KeepStep DEF ReplyInv, ReplyTypes
    <2>4. Truthful(c, Value(h, t))
        BY <1>0, <2>1, ValueTruth DEF Handler
    <2>5. ReplyTypes'
        BY <1>0, <1>1, <2>3 DEF ReplyInv, ReplyTypes
    <2>6. op[c] # NULL
        BY <1>0, ReplyAssumption DEF ReplyInv, CallsInv
    <2>7. CallsInv'
        BY <1>0, <1>1, <2>6 DEF ReplyInv, ReplyTypes, CallsInv
    <2>8. \A d \in Calls : value'[d] # NULL => Truthful(d, value'[d])
        BY <1>1, <2>4 DEF ReplyInv, ReplyTypes, ValuesTruthful
    <2>9. ValuesTruthful'
        BY <1>0, <2>8 DEF ReplyInv, ValuesTruthful, Truthful, Handler
    <2> QED
        BY <2>5, <2>7, <2>9 DEF ReplyInv
<1>2. CASE todo' = [todo EXCEPT ![a] = <<>>] /\ UNCHANGED <<caches, value>>
    <2>1. ReplyTypes'
        BY <1>0, <1>2 DEF ReplyInv, ReplyTypes, caches
    <2>2. CallsInv'
        BY <1>0, <1>2 DEF ReplyInv, ReplyTypes, CallsInv
    <2>3. ValuesTruthful'
        BY <1>0, <1>2 DEF ReplyInv, ValuesTruthful, Truthful, Handler
    <2> QED
        BY <2>1, <2>2, <2>3 DEF ReplyInv
<1> QED
    BY <1>1, <1>2 DEF Finish

(* Only the entries of device_info are strings.                             *)
LEMMA OnlyInfosAreInfo ==
    ASSUME NEW o \in Ops, o \notin Infos
    PROVE  Op(o).handler # "info"
<1>1. CASE o \in DOMAIN GetOps
    BY <1>1 DEF Op, GetOps
<1>2. CASE o \in DOMAIN SetOps /\ o \notin DOMAIN GetOps
    BY <1>2 DEF Op, SetOps
<1> QED
    BY <1>1, <1>2 DEF Ops

LEMMA FinishAsyncStep ==
    ASSUME ReplyInv, NEW a \in Apps, FinishAsync(a)
    PROVE  ReplyInv'
<1> DEFINE c == cur[a]
           v == IF Op(op[c]).handler = "vector" THEN <<>> ELSE <<-1>>
<1>0. /\ c \in Calls /\ c # NULL
      /\ value' = [value EXCEPT ![c] = v]
      /\ cur' = [cur EXCEPT ![a] = NULL]
      /\ UNCHANGED <<executed, outcome, told, todo, op, answer, arrived,
                     handling, heard, caches, armMode>>
    BY ReplyAssumption DEF FinishAsync, Calls
<1>1. v \in Fields
    <2>1. <<>> \in Fields /\ <<-1>> \in Fields
        BY DEF Fields
    <2> QED
        BY <2>1
<1>2. Truthful(c, v)
    <2>1. c \notin SyncCalls /\ op[c] # NULL /\ op[c] \in Ops
        BY ReplyAssumption DEF FinishAsync, ReplyInv, ReplyTypes, CallsInv, Calls
    <2>2. Op(op[c]).handler # "info"
        BY <1>0, <2>1, OnlyInfosAreInfo DEF ReplyInv, CallsInv
    <2> QED
        BY <2>2 DEF Truthful, Handler
<1>3. ReplyTypes'
    BY <1>0, <1>1 DEF ReplyInv, ReplyTypes, caches
<1>4. CallsInv'
    BY <1>0 DEF ReplyInv, ReplyTypes, CallsInv
<1>5. \A d \in Calls : value'[d] # NULL => Truthful(d, value'[d])
    BY <1>0, <1>2 DEF ReplyInv, ReplyTypes, ValuesTruthful
<1>6. ValuesTruthful'
    BY <1>0, <1>5 DEF ReplyInv, ValuesTruthful, Truthful, Handler
<1> QED
    BY <1>3, <1>4, <1>6 DEF ReplyInv

LEMMA TellStep ==
    ASSUME ReplyInv, NEW c \in CallbackCalls, NEW r, Tell(c, r)
    PROVE  ReplyInv'
<1>0. /\ told' = [told EXCEPT ![c] = @ \cup {r}]
      /\ r = "TIMEOUT" \/ (r = c /\ c \in arrived)
      /\ op[c] # NULL /\ handling' = handling \cup {<<c, r>>}
      /\ c \in Calls
      /\ UNCHANGED <<executed, outcome, api, answer, arrived, heard, caches,
                     armMode>>
    BY DEF Tell, Promise!Tell, Promise!Answered, Calls
<1>1. ReplyTypes'
    BY <1>0 DEF ReplyInv, ReplyTypes, api, caches
<1>2. CallsInv'
    <2>1. \A d \in CallbackCalls : \A x \in told'[d] :
            x = "TIMEOUT" \/ (x = d /\ d \in arrived)
        BY <1>0 DEF ReplyInv, ReplyTypes, CallsInv
    <2>2. \A p \in handling' : p[2] \in told'[p[1]] /\ op[p[1]] # NULL
        <3>1. \A p \in handling : p[2] \in told'[p[1]]
            BY <1>0 DEF ReplyInv, ReplyTypes, CallsInv
        <3>2. r \in told'[c]
            BY <1>0 DEF ReplyInv, ReplyTypes
        <3> QED
            BY <1>0, <3>1, <3>2 DEF ReplyInv, CallsInv
    <2> QED
        BY <1>0, <2>1, <2>2 DEF ReplyInv, CallsInv, api
<1>3. ValuesTruthful'
    BY <1>0 DEF ReplyInv, ValuesTruthful, Truthful, Handler, api
<1> QED
    BY <1>1, <1>2, <1>3 DEF ReplyInv

LEMMA HandleStep ==
    ASSUME ReplyInv, NEW c \in CallbackCalls, NEW r, Handle(c, r)
    PROVE  ReplyInv'
<1> DEFINE h == Op(op[c]).handler
           t == TextOf(r)
<1>0. /\ c \in Calls /\ <<c, r>> \in handling
      /\ handling' = handling \ {<<c, r>>}
      /\ UNCHANGED <<executed, outcome, told, api, answer, arrived, armMode>>
    BY DEF Handle, Calls
<1>1. op[c] # NULL /\ r \in told[c]
    BY <1>0 DEF ReplyInv, CallsInv
<1>2. \/ r = c /\ c \in executed
      \/ r \notin Calls /\ r # "ok"
    BY <1>1, ReplyAssumption DEF ReplyInv, CallsInv, Results
<1>3. CASE /\ ~Throws(h, t) /\ Keep(c, h, t)
           /\ heard' = IF TellsUser(h, t)
                       THEN [heard EXCEPT ![c] = @ \cup {Value(h, t)}]
                       ELSE heard
    <2>1. t.fields \in Fields
        BY <1>2, TextOfFields
    <2>2. Value(h, t) \in Fields /\ mode' \in 0 .. 255
        BY <1>3, <2>1, ValueType, KeepStep DEF ReplyInv, ReplyTypes
    <2>3. Truthful(c, Value(h, t))
        BY <1>0, <1>2, ValueTruth DEF Handler
    <2>4. ReplyTypes'
        BY <1>0, <1>3, <2>2 DEF ReplyInv, ReplyTypes, api
    <2>5. CallsInv'
        BY <1>0, <1>1, <1>3 DEF ReplyInv, ReplyTypes, CallsInv, api
    <2>6. \A d \in CallbackCalls : \A v \in heard'[d] : Truthful(d, v)
        BY <1>3, <2>3 DEF ReplyInv, ReplyTypes, ValuesTruthful
    <2>7. ValuesTruthful'
        BY <1>0, <2>6 DEF ReplyInv, ValuesTruthful, Truthful, Handler, api
    <2> QED
        BY <2>4, <2>5, <2>7 DEF ReplyInv
<1>4. CASE UNCHANGED <<caches, heard>>
    <2>1. ReplyTypes'
        BY <1>0, <1>4 DEF ReplyInv, ReplyTypes, api, caches
    <2>2. CallsInv'
        BY <1>0, <1>4 DEF ReplyInv, CallsInv, api
    <2>3. ValuesTruthful'
        BY <1>0, <1>4 DEF ReplyInv, ValuesTruthful, Truthful, Handler, api
    <2> QED
        BY <2>1, <2>2, <2>3 DEF ReplyInv
<1> QED
    BY <1>3, <1>4 DEF Handle

LEMMA ExecuteStep ==
    ASSUME ReplyInv, switches \in Nat, NEW c \in Calls, Execute(c)
    PROVE  /\ ReplyInv'
           /\ c \notin executed /\ executed' = executed \cup {c}
<1>0. /\ op[c] # NULL /\ c \notin executed /\ executed' = executed \cup {c}
      /\ UNCHANGED <<outcome, told, api, arrived, handling, heard, caches>>
    BY DEF Execute, Promise!Execute
<1>1. PICK u \in Texts : answer' = [answer EXCEPT ![c] = u]
    <2>1. CASE \E w \in ErrorWords : answer' = [answer EXCEPT ![c] = Text(w, <<>>)]
        <3>1. \A w \in ErrorWords : Text(w, <<>>) \in Texts
            BY DEF Text, Texts
        <3> QED
            BY <2>1, <3>1
    <2>2. ASSUME NEW t, t = Text("ok", Reply(Op(op[c]).code)),
                 NEW u \in {t} \cup Cuts(t), answer' = [answer EXCEPT ![c] = u]
          PROVE  \E x \in Texts : answer' = [answer EXCEPT ![c] = x]
        <3>1. t \in Texts
            BY <2>2, ReplyIsText DEF ReplyInv, ReplyTypes, Text, Texts, Fields
        <3> QED
            BY <2>2, <3>1, CutsAreTexts
    <2> QED
        BY <2>1, <2>2 DEF Execute
<1>2. armMode' \in 0 .. 3
    BY ReplyAssumption DEF Execute, ReplyInv, ReplyTypes
<1>3. ReplyTypes'
    BY <1>0, <1>1, <1>2 DEF ReplyInv, ReplyTypes, api, caches
<1>4. \A d \in executed : answer'[d] = answer[d]
    BY <1>0, <1>1 DEF ReplyInv, ReplyTypes
<1>5. CallsInv'
    BY <1>0, <1>1, <1>4 DEF ReplyInv, ReplyTypes, CallsInv, api
<1>6. ValuesTruthful'
    <2>1. \A d \in Calls : \A v : Truthful(d, v) => Truthful(d, v)'
        BY <1>0, <1>4, TruthStays DEF api
    <2> QED
        BY <1>0, <2>1 DEF ReplyInv, ValuesTruthful, api, Calls
<1> QED
    BY <1>0, <1>3, <1>5, <1>6 DEF ReplyInv

LEMMA ArriveStep ==
    ASSUME ReplyInv, NEW c \in executed, Arrive(c)
    PROVE  ReplyInv'
<1>1. ReplyTypes'
    BY DEF ReplyInv, ReplyTypes, Arrive, api, caches
<1>2. CallsInv'
    BY DEF ReplyInv, CallsInv, Arrive, api
<1>3. ValuesTruthful'
    BY DEF ReplyInv, ValuesTruthful, Truthful, Handler, Arrive, api
<1> QED
    BY <1>1, <1>2, <1>3 DEF ReplyInv

(* The other steps leave all of it alone.                                   *)
LEMMA QuietStep ==
    ASSUME ReplyInv,
           UNCHANGED <<executed, outcome, told, api, answer, arrived, handling,
                       heard, mode, armMode>>
    PROVE  ReplyInv'
<1>1. ReplyTypes'
    BY DEF ReplyInv, ReplyTypes, api
<1>2. CallsInv'
    BY DEF ReplyInv, CallsInv, api
<1>3. ValuesTruthful'
    BY DEF ReplyInv, ValuesTruthful, Truthful, Handler, api
<1> QED
    BY <1>1, <1>2, <1>3 DEF ReplyInv

-----------------------------------------------------------------------------
(* The lines and the reports.                                               *)

Reports == [kind : Kinds, value : Values \cup {0, 1, Bare}, asOf : Nat]

ReportTypes ==
    /\ report \in Seq(Reports) /\ line \in Seq(Calls \cup Nat)
    /\ recv \in [Receivers -> {"reading", "line", "handing"}]
    /\ hand \in [Receivers -> Calls \cup Nat \cup {NULL}]
    /\ callback \in [Kinds -> Kinds \cup {NULL}]
    /\ \A k \in Kinds : callback[k] \in {k, NULL}
    /\ power_status \in BOOLEAN /\ switches \in Nat

Known == executed \cup DOMAIN report

(* A line that was sent is in one place at most: still to be read, in one   *)
(* receiver's hand, or, as a report, told once.                             *)
PlaceInv ==
    /\ \A i \in 1 .. Len(line) : line[i] \in Known
    /\ \A i, j \in 1 .. Len(line) : line[i] = line[j] => i = j
    /\ \A r \in Receivers :
         /\ recv[r] = "reading" => hand[r] = NULL
         /\ recv[r] = "line" => hand[r] \in Known
         /\ recv[r] = "handing" => hand[r] \in DOMAIN report
         /\ \A i \in 1 .. Len(line) : hand[r] # line[i]
    /\ \A r, s \in Receivers : hand[r] = hand[s] /\ hand[r] # NULL => r = s
    /\ \A t \in threads \cup delivered :
         /\ t.n \in DOMAIN report
         /\ \A i \in 1 .. Len(line) : line[i] # t.n
         /\ \A r \in Receivers : hand[r] # t.n

(* A receiver about to use a pointer that is NULL has been raced.           *)
RaceInv ==
    \A r \in Receivers :
        recv[r] = "handing" /\ callback[report[hand[r]].kind] = NULL => raced

ReportInv == ReportTypes /\ PlaceInv /\ ReportsTold
IInv == ReplyInv /\ ReportInv /\ RaceInv /\ AbortExplained

LEMMA CallsAreNoNumbers ==
    /\ \A c \in Calls : c \notin Nat
    /\ NULL \notin Calls /\ NULL \notin Nat /\ NULL \notin Kinds
    BY ReplyAssumption, ReportAssumption

LEMMA HandedReport ==
    ASSUME ReportInv, NEW r \in Receivers, recv[r] = "handing"
    PROVE  /\ hand[r] \in DOMAIN report /\ report[hand[r]] \in Reports
           /\ report[hand[r]].kind \in Kinds
<1>1. hand[r] \in DOMAIN report
    BY DEF ReportInv, PlaceInv
<1>2. report[hand[r]] \in Reports
    BY <1>1 DEF ReportInv, ReportTypes
<1> QED
    BY <1>1, <1>2 DEF Reports

LEMMA ReportStart == Init => ReportInv /\ RaceInv /\ AbortExplained
<1> SUFFICES ASSUME Init PROVE ReportInv /\ RaceInv /\ AbortExplained
    OBVIOUS
<1>1. ReportTypes
    <2>1. report = <<>> /\ line = <<>> /\ \A S : <<>> \in Seq(S)
        BY EmptySeq DEF Init, ReplyInit
    <2> QED
        BY <2>1 DEF Init, ReplyInit, ReportTypes
<1>2. PlaceInv /\ ReportsTold
    BY DEF Init, ReplyInit, PlaceInv, ReportsTold
<1>3. RaceInv /\ AbortExplained
    BY DEF Init, ReplyInit, RaceInv, AbortExplained
<1> QED
    BY <1>1, <1>2, <1>3 DEF ReportInv

(* The arm adds a new line at the end, an answer or a report.               *)
LEMMA PlaceSent ==
    ASSUME PlaceInv, ReportsTold, line \in Seq(Calls \cup Nat),
           NEW n, n \in Calls \cup Nat, n \notin Known, n # NULL,
           line' = Append(line, n),
           Known' = Known \cup {n}, DOMAIN report \subseteq DOMAIN report',
           \A m \in DOMAIN report : report'[m] = report[m],
           hand \in [Receivers -> Calls \cup Nat \cup {NULL}],
           recv \in [Receivers -> {"reading", "line", "handing"}],
           UNCHANGED <<recv, hand, threads, delivered>>
    PROVE  PlaceInv' /\ ReportsTold'
<1>1. /\ Len(line') = Len(line) + 1 /\ line'[Len(line) + 1] = n
      /\ \A i \in 1 .. Len(line) : line'[i] = line[i]
      /\ Len(line) \in Nat
    BY AppendProperties, LenProperties
<1>2. \A i \in 1 .. Len(line) : line[i] # n
    BY DEF PlaceInv
<1>3. \A r \in Receivers : hand[r] # n
    BY DEF PlaceInv, Known
<1>4. \A t \in threads \cup delivered : t.n # n
    BY DEF PlaceInv, Known
<1>5. \A i \in 1 .. Len(line') : i = Len(line) + 1 \/ i \in 1 .. Len(line)
    BY <1>1
<1>6. \A i \in 1 .. Len(line') : line'[i] \in Known'
    BY <1>1, <1>5 DEF PlaceInv
<1>7. \A i, j \in 1 .. Len(line') : line'[i] = line'[j] => i = j
    BY <1>1, <1>2, <1>5 DEF PlaceInv
<1>8. PlaceInv'
    BY <1>1, <1>3, <1>4, <1>5, <1>6, <1>7 DEF PlaceInv
<1>9. ReportsTold'
    BY DEF ReportsTold, PlaceInv
<1> QED
    BY <1>8, <1>9

(* The first line goes, into the hand of a receiver or nowhere.             *)
LEMMA PlaceTail ==
    ASSUME line \in Seq(Calls \cup Nat), line # <<>>
    PROVE  /\ Head(line) = line[1] /\ Len(line) \in Nat \ {0}
           /\ Len(Tail(line)) = Len(line) - 1
           /\ \A i \in 1 .. Len(Tail(line)) :
                /\ Tail(line)[i] = line[i + 1]
                /\ i + 1 \in 1 .. Len(line) /\ i + 1 # 1
           /\ Tail(line) \in Seq(Calls \cup Nat)
    BY HeadTailProperties, EmptySeq, LenProperties

LEMMA PlaceLost ==
    ASSUME ReportInv, Lose
    PROVE  PlaceInv' /\ ReportsTold'
<1>1. /\ line # <<>> /\ line' = Tail(line)
      /\ UNCHANGED <<executed, report, recv, hand, threads, delivered>>
    BY DEF Lose, reports, receiver
<1>2. \A i \in 1 .. Len(line') : /\ line'[i] = line[i + 1]
                                 /\ i + 1 \in 1 .. Len(line)
    BY <1>1, PlaceTail DEF ReportInv, ReportTypes
<1>3. \A i, j \in 1 .. Len(line') : line'[i] = line'[j] => i = j
    BY <1>2 DEF ReportInv, PlaceInv
<1>4. PlaceInv'
    BY <1>1, <1>2, <1>3 DEF ReportInv, PlaceInv, Known
<1>5. ReportsTold'
    BY <1>1 DEF ReportInv, ReportsTold
<1> QED
    BY <1>4, <1>5

LEMMA PlaceRead ==
    ASSUME ReportInv, NEW r \in Receivers, ReadLine(r)
    PROVE  PlaceInv' /\ ReportsTold'
<1>1. /\ line # <<>> /\ line' = Tail(line) /\ recv[r] = "reading"
      /\ hand' = [hand EXCEPT ![r] = Head(line)]
      /\ recv' = [recv EXCEPT ![r] = "line"]
      /\ UNCHANGED <<executed, report, threads, delivered>>
    BY DEF ReadLine
<1>2. \A i \in 1 .. Len(line') : /\ line'[i] = line[i + 1]
                                 /\ i + 1 \in 1 .. Len(line) /\ i + 1 # 1
    BY <1>1, PlaceTail DEF ReportInv, ReportTypes
<1>3. Head(line) = line[1] /\ 1 \in 1 .. Len(line)
    BY <1>1, PlaceTail DEF ReportInv, ReportTypes
<1>4. \A i, j \in 1 .. Len(line') : line'[i] = line'[j] => i = j
    BY <1>2 DEF ReportInv, PlaceInv
<1>5. /\ hand'[r] = line[1] /\ line[1] \in Known
      /\ \A s \in Receivers \ {r} : hand'[s] = hand[s] /\ recv'[s] = recv[s]
      /\ recv'[r] = "line"
    BY <1>1, <1>3 DEF ReportInv, ReportTypes, PlaceInv
<1>6. \A i \in 1 .. Len(line') : line[1] # line'[i]
    BY <1>2, <1>3 DEF ReportInv, PlaceInv
<1>7. \A s \in Receivers : \A i \in 1 .. Len(line') : hand'[s] # line'[i]
    BY <1>2, <1>5, <1>6 DEF ReportInv, PlaceInv
<1>8. \A s, u \in Receivers : hand'[s] = hand'[u] /\ hand'[s] # NULL => s = u
    BY <1>3, <1>5 DEF ReportInv, PlaceInv
<1>9. \A t \in threads \cup delivered : \A s \in Receivers : hand'[s] # t.n
    BY <1>3, <1>5 DEF ReportInv, PlaceInv
<1>10. PlaceInv'
    BY <1>1, <1>2, <1>4, <1>5, <1>7, <1>8, <1>9 DEF ReportInv, PlaceInv, Known
<1>11. ReportsTold'
    BY <1>1 DEF ReportInv, ReportsTold
<1> QED
    BY <1>10, <1>11

(* A receiver is done with its line.                                        *)
LEMMA PlaceDone ==
    ASSUME ReportInv, NEW r \in Receivers, Done(r),
           UNCHANGED <<executed, line, report, threads, delivered>>
    PROVE  PlaceInv' /\ ReportsTold'
<1>1. /\ hand'[r] = NULL /\ recv'[r] = "reading"
      /\ \A s \in Receivers \ {r} : hand'[s] = hand[s] /\ recv'[s] = recv[s]
    BY DEF ReportInv, ReportTypes, Done
<1>2. \A i \in 1 .. Len(line) : line[i] # NULL
    BY CallsAreNoNumbers, ElementOfSeq DEF ReportInv, ReportTypes
<1>3. \A t \in threads \cup delivered : t.n # NULL
    BY CallsAreNoNumbers DEF ReportInv, ReportTypes, PlaceInv
<1>4. PlaceInv'
    BY <1>1, <1>2, <1>3 DEF ReportInv, PlaceInv, Known
<1>5. ReportsTold'
    BY DEF ReportInv, ReportsTold
<1> QED
    BY <1>4, <1>5

(* It hands a report on to a thread of its own.                             *)
LEMMA PlaceHanded ==
    ASSUME ReportInv, NEW r \in Receivers, HandOff(r)
    PROVE  PlaceInv' /\ ReportsTold'
<1> DEFINE n == hand[r]
           p == report[n]
           u == [n |-> n, fn |-> Load(p.kind), arg |-> Passed(p)]
<1>1. /\ recv[r] = "handing" /\ threads' = threads \cup {u} /\ Done(r)
      /\ UNCHANGED <<executed, line, report, callback, delivered>>
    BY DEF HandOff, replies
<1>2. n \in DOMAIN report /\ n # NULL /\ p \in Reports
    BY <1>1, CallsAreNoNumbers DEF ReportInv, ReportTypes, PlaceInv
<1>3. /\ hand'[r] = NULL /\ recv'[r] = "reading"
      /\ \A s \in Receivers \ {r} : hand'[s] = hand[s] /\ recv'[s] = recv[s]
    BY <1>1 DEF ReportInv, ReportTypes, Done
<1>4. \A i \in 1 .. Len(line) : line[i] # NULL /\ line[i] # n
    BY <1>2, CallsAreNoNumbers, ElementOfSeq DEF ReportInv, ReportTypes, PlaceInv
<1>5. \A s \in Receivers : hand'[s] # n
    BY <1>2, <1>3 DEF ReportInv, PlaceInv
<1>6. \A t \in threads \cup delivered : t.n # NULL /\ t.n # n
    BY CallsAreNoNumbers DEF ReportInv, ReportTypes, PlaceInv
<1>7. \A t \in threads' \cup delivered' : t = u \/ t \in threads \cup delivered
    BY <1>1
<1>8. PlaceInv'
    <2>1. \A t \in threads' \cup delivered' :
            /\ t.n \in DOMAIN report'
            /\ \A i \in 1 .. Len(line') : line'[i] # t.n
            /\ \A s \in Receivers : hand'[s] # t.n
        BY <1>1, <1>2, <1>3, <1>4, <1>5, <1>6, <1>7 DEF ReportInv, PlaceInv
    <2>2. \A s \in Receivers :
            /\ recv'[s] = "reading" => hand'[s] = NULL
            /\ recv'[s] = "line" => hand'[s] \in Known'
            /\ recv'[s] = "handing" => hand'[s] \in DOMAIN report'
            /\ \A i \in 1 .. Len(line') : hand'[s] # line'[i]
        BY <1>1, <1>3, <1>4 DEF ReportInv, PlaceInv, Known
    <2>3. \A s, v \in Receivers : hand'[s] = hand'[v] /\ hand'[s] # NULL => s = v
        BY <1>3 DEF ReportInv, PlaceInv
    <2> QED
        BY <1>1, <2>1, <2>2, <2>3 DEF ReportInv, PlaceInv, Known
<1>9. u.fn \in {p.kind, NULL} /\ (p.kind # "limit" => u.arg = p.value)
    BY <1>2 DEF ReportInv, ReportTypes, Load, Passed, Reports
<1>10. ReportsTold'
    BY <1>1, <1>2, <1>6, <1>7, <1>9 DEF ReportInv, ReportsTold
<1> QED
    BY <1>8, <1>10

(* Steps that leave the lines where they are, or move a report from the     *)
(* threads to the calls.                                                    *)
LEMMA PlaceKept ==
    ASSUME ReportInv, UNCHANGED <<executed, line, report, hand>>,
           threads' \cup delivered' \subseteq threads \cup delivered,
           \/ UNCHANGED recv
           \/ \E r \in Receivers : /\ hand[r] \in DOMAIN report
                                   /\ recv' = [recv EXCEPT ![r] = "handing"]
    PROVE  PlaceInv' /\ ReportsTold'
<1>1. \A r \in Receivers :
        \/ recv'[r] = recv[r]
        \/ recv'[r] = "handing" /\ hand[r] \in DOMAIN report
    BY DEF ReportInv, ReportTypes
<1>2. PlaceInv'
    BY <1>1 DEF ReportInv, PlaceInv, Known
<1>3. ReportsTold'
    BY DEF ReportInv, ReportsTold
<1> QED
    BY <1>2, <1>3

-----------------------------------------------------------------------------
(* Every step keeps IInv.                                                   *)

LEMMA AppStep ==
    ASSUME ReplyInv, NEW a \in Apps, App(a)
    PROVE  /\ ReplyInv'
           /\ UNCHANGED <<executed, line, switches, aborted>>
           /\ power_status \in BOOLEAN => power_status' \in BOOLEAN
<1>1. CASE Skip(a)
    BY <1>1, SkipStep DEF Skip, caches
<1>2. ASSUME NEW c \in Calls, Issue(a, c)
      PROVE  /\ ReplyInv'
             /\ UNCHANGED <<executed, line, switches, aborted, power_status>>
    BY <1>2, IssueStep DEF Issue, caches
<1>3. ASSUME NEW r \in Results \cup SyncCalls, Return(a, r)
      PROVE  /\ ReplyInv'
             /\ UNCHANGED <<executed, line, switches, aborted, power_status>>
    BY <1>3, ReturnStep DEF Return, Promise!Return, caches
<1>4. CASE Finish(a)
    <2>1. power_status \in BOOLEAN => power_status' \in BOOLEAN
        BY <1>4, KeepPower DEF Finish, caches
    <2> QED
        BY <1>4, <2>1, FinishStep DEF Finish
<1>5. CASE FinishAsync(a)
    BY <1>5, FinishAsyncStep DEF FinishAsync, caches
<1> QED
    BY <1>1, <1>2, <1>3, <1>4, <1>5 DEF App

(* Steps without effect on the receivers, the callbacks and the threads.    *)
LEMMA RaceKept ==
    ASSUME IInv, ~aborted, aborted' = aborted,
           UNCHANGED <<recv, hand, report, callback, threads, raced>>
    PROVE  RaceInv' /\ AbortExplained'
<1>1. RaceInv'
    BY DEF IInv, RaceInv
<1>2. AbortExplained'
    BY DEF IInv, AbortExplained
<1> QED
    BY <1>1, <1>2

LEMMA ApplicationStep == ASSUME IInv, ~aborted, Application PROVE IInv'
<1>1. ASSUME NEW a \in Apps, App(a), UNCHANGED reports PROVE IInv'
    <2>1. /\ ReplyInv' /\ UNCHANGED <<executed, line, switches, aborted>>
          /\ power_status' \in BOOLEAN
        BY <1>1, AppStep DEF IInv, ReportInv, ReportTypes
    <2>2. ReportTypes'
        BY <1>1, <2>1 DEF IInv, ReportInv, ReportTypes, reports, receiver
    <2>3. PlaceInv' /\ ReportsTold'
        BY <1>1, <2>1, PlaceKept DEF IInv, reports, receiver
    <2>4. RaceInv' /\ AbortExplained'
        BY <1>1, <2>1, RaceKept DEF reports, receiver
    <2> QED
        BY <2>1, <2>2, <2>3, <2>4 DEF IInv, ReportInv
<1>2. ASSUME NEW k \in Kinds, Register(k) \/ Release(k) PROVE IInv'
    <2>1. UNCHANGED <<replies, report, receiver, threads, delivered>>
        BY <1>2 DEF Register, Release
    <2>2. ReplyInv'
        BY <2>1, QuietStep DEF IInv, replies, caches
    <2>3. PlaceInv' /\ ReportsTold'
        BY <2>1, PlaceKept DEF IInv, replies, receiver
    <2>4. ReportTypes'
        BY <1>2, <2>1
        DEF IInv, ReportInv, ReportTypes, Register, Release, replies, receiver, caches
    <2>5. \/ callback' = [callback EXCEPT ![k] = k] /\ raced' = raced
          \/ /\ callback' = [callback EXCEPT ![k] = NULL]
             /\ raced' = (raced \/ \E r \in Receivers :
                                     recv[r] = "handing" /\ report[hand[r]].kind = k)
        BY <1>2 DEF Register, Release
    <2>6. RaceInv'
        <3> SUFFICES ASSUME NEW r \in Receivers, recv[r] = "handing",
                            callback'[report[hand[r]].kind] = NULL
                     PROVE  raced'
            BY <2>1 DEF RaceInv, receiver
        <3>1. report[hand[r]].kind \in Kinds
            BY HandedReport DEF IInv
        <3>2. CASE raced' = raced /\ callback' = [callback EXCEPT ![k] = k]
            <4>1. report[hand[r]].kind # k
                BY <3>1, <3>2, CallsAreNoNumbers DEF IInv, ReportInv, ReportTypes
            <4>2. callback[report[hand[r]].kind] = NULL
                BY <3>1, <3>2, <4>1 DEF IInv, ReportInv, ReportTypes
            <4> QED
                BY <3>2, <4>2 DEF IInv, RaceInv
        <3>3. CASE callback' = [callback EXCEPT ![k] = NULL]
            <4>1. CASE report[hand[r]].kind = k
                BY <2>5, <3>1, <3>3, <4>1, CallsAreNoNumbers
                DEF IInv, ReportInv, ReportTypes
            <4>2. CASE report[hand[r]].kind # k
                <5>1. callback[report[hand[r]].kind] = NULL
                    BY <3>1, <3>3, <4>2 DEF IInv, ReportInv, ReportTypes
                <5>2. raced
                    BY <5>1 DEF IInv, RaceInv
                <5>3. raced => raced'
                    BY <2>5
                <5> QED
                    BY <5>2, <5>3
            <4> QED
                BY <4>1, <4>2
        <3> QED
            BY <2>5, <3>2, <3>3
    <2>7. AbortExplained'
        <3>1. raced => raced'
            BY <2>5
        <3> QED
            BY <2>1, <3>1 DEF IInv, AbortExplained, replies
    <2> QED
        BY <2>2, <2>3, <2>4, <2>6, <2>7 DEF IInv, ReportInv
<1> QED
    BY <1>1, <1>2 DEF Application

LEMMA ChannelStep == ASSUME IInv, ~aborted, Channel PROVE IInv'
<1>0. PICK c \in CallbackCalls, r \in {"TIMEOUT"} \cup CallbackCalls :
        Tell(c, r) \/ Handle(c, r)
    BY DEF Channel
<1>1. UNCHANGED <<executed, line, switches, reports>>
    BY <1>0 DEF Channel, Tell, Promise!Tell, Handle
<1>2. ReplyInv'
    BY <1>0, TellStep, HandleStep DEF IInv
<1>3. power_status' \in BOOLEAN
    BY <1>0, KeepPower DEF Tell, Handle, caches, IInv, ReportInv, ReportTypes
<1>4. ReportTypes'
    BY <1>1, <1>3 DEF IInv, ReportInv, ReportTypes, reports, receiver
<1>5. PlaceInv' /\ ReportsTold'
    BY <1>1, PlaceKept DEF IInv, reports, receiver
<1>6. RaceInv'
    BY <1>1 DEF IInv, RaceInv, reports, receiver
<1>7. AbortExplained'
    <2>1. CASE aborted' = aborted
        BY <1>1, <2>1 DEF IInv, AbortExplained, reports
    <2>2. CASE aborted' # aborted
        <3>1. Handle(c, r) /\ Throws(Handler(c), TextOf(r)) /\ UNCHANGED told
            BY <1>0, <2>2 DEF Tell, Handle, Handler
        <3>2. TextOf(r).word = "ok"
            BY <3>1 DEF Throws, Answers
        <3>3. r \in told[c]
            BY <3>1 DEF Handle, IInv, ReplyInv, CallsInv
        <3>4. r \in Calls
            BY <1>0, <3>2 DEF TextOf, Calls
        <3>5. r = c
            BY <3>3, <3>4, ReplyAssumption DEF IInv, ReplyInv, CallsInv, Results
        <3>6. c \in told'[c] /\ Throws(Handler(c), answer[c])
            BY <3>1, <3>3, <3>4, <3>5 DEF TextOf
        <3>7. Throws(Handler(c), answer[c])'
            BY <3>1, <3>6 DEF Handle, api, Handler, Throws, Answers
        <3> QED
            BY <1>1, <3>6, <3>7 DEF IInv, AbortExplained, reports
    <2> QED
        BY <2>1, <2>2
<1> QED
    BY <1>2, <1>4, <1>5, <1>6, <1>7 DEF IInv, ReportInv

LEMMA ReceiveStep == ASSUME IInv, ~aborted, Receive PROVE IInv'
<1>1. ASSUME NEW t \in threads, CallReport(t) PROVE IInv'
    <2>1. /\ threads' = threads \ {t} /\ delivered' \subseteq delivered \cup {t}
          /\ t.fn # NULL => aborted' = aborted
          /\ UNCHANGED <<executed, outcome, told, api, answer, arrived,
                         handling, heard, caches, armMode, switches, line,
                         report, receiver, callback, raced>>
        BY <1>1 DEF CallReport
    <2>2. ReplyInv'
        BY <2>1, QuietStep DEF IInv, caches
    <2>3. PlaceInv' /\ ReportsTold'
        BY <1>1, <2>1, PlaceKept DEF IInv, receiver
    <2>4. ReportTypes'
        BY <2>1 DEF IInv, ReportInv, ReportTypes, receiver, caches
    <2>5. RaceInv'
        BY <2>1 DEF IInv, RaceInv, receiver
    <2>6. AbortExplained'
        BY <1>1, <2>1 DEF IInv, AbortExplained
    <2> QED
        BY <2>2, <2>3, <2>4, <2>5, <2>6 DEF IInv, ReportInv
<1>2. ASSUME NEW r \in Receivers, ReadLine(r) PROVE IInv'
    <2>1. /\ line # <<>> /\ line' = Tail(line) /\ recv[r] = "reading"
          /\ hand' = [hand EXCEPT ![r] = Head(line)]
          /\ recv' = [recv EXCEPT ![r] = "line"]
          /\ UNCHANGED <<executed, outcome, told, api, answer, arrived,
                         handling, heard, caches, armMode, switches, aborted,
                         report, callback, threads, raced>>
        BY <1>2 DEF ReadLine
    <2>2. ReplyInv'
        BY <2>1, QuietStep DEF IInv, caches
    <2>3. PlaceInv' /\ ReportsTold'
        BY <1>2, PlaceRead DEF IInv
    <2>4. ReportTypes'
        BY <2>1, HeadTailProperties DEF IInv, ReportInv, ReportTypes, caches
    <2>5. RaceInv'
        BY <2>1 DEF IInv, ReportInv, ReportTypes, RaceInv
    <2>6. AbortExplained'
        BY <2>1 DEF IInv, AbortExplained
    <2> QED
        BY <2>2, <2>3, <2>4, <2>5, <2>6 DEF IInv, ReportInv
<1>3. ASSUME NEW r \in Receivers, DispatchReply(r) PROVE IInv'
    <2>1. /\ recv[r] = "line" /\ hand[r] \in Calls /\ Done(r) /\ Arrive(hand[r])
          /\ UNCHANGED <<executed, caches, switches, aborted, line, report,
                         callback, threads, delivered, raced>>
        BY <1>3 DEF DispatchReply, Arrive
    <2>2. hand[r] \in executed
        <3>1. hand[r] \in Known /\ DOMAIN report \subseteq Nat
            BY <2>1 DEF IInv, ReportInv, ReportTypes, PlaceInv
        <3> QED
            BY <2>1, <3>1, CallsAreNoNumbers DEF Known
    <2>3. ReplyInv'
        BY <2>1, <2>2, ArriveStep DEF IInv
    <2>4. PlaceInv' /\ ReportsTold'
        BY <2>1, PlaceDone DEF IInv
    <2>5. ReportTypes'
        BY <2>1 DEF IInv, ReportInv, ReportTypes, Done, caches
    <2>6. RaceInv'
        BY <2>1 DEF IInv, ReportInv, ReportTypes, RaceInv, Done
    <2>7. AbortExplained'
        BY <2>1 DEF IInv, AbortExplained
    <2> QED
        BY <2>3, <2>4, <2>5, <2>6, <2>7 DEF IInv, ReportInv
<1>4. ASSUME NEW r \in Receivers, DispatchReport(r) PROVE IInv'
    <2> DEFINE p == report[hand[r]]
    <2>1. /\ hand[r] \in DOMAIN report /\ recv[r] = "line"
          /\ \/ /\ callback[p.kind] # NULL
                /\ recv' = [recv EXCEPT ![r] = "handing"]
                /\ UNCHANGED hand
             \/ Done(r)
          /\ UNCHANGED <<executed, outcome, told, api, answer, arrived,
                         handling, heard, mode, armMode, switches, line,
                         aborted, report, callback, threads, delivered, raced>>
        BY <1>4 DEF DispatchReport, Registered
    <2>2. ReplyInv'
        BY <2>1, QuietStep DEF IInv
    <2>3. PlaceInv' /\ ReportsTold'
        BY <2>1, PlaceDone, PlaceKept DEF IInv
    <2>4. power_status' \in BOOLEAN
        <3>1. (p.value = 1) \in BOOLEAN
            OBVIOUS
        <3>2. power_status' \in {p.value = 1, power_status}
            BY <1>4 DEF DispatchReport
        <3> QED
            BY <3>1, <3>2 DEF IInv, ReportInv, ReportTypes
    <2>5. ReportTypes'
        BY <2>1, <2>4 DEF IInv, ReportInv, ReportTypes, Done
    <2>6. RaceInv'
        BY <2>1 DEF IInv, ReportInv, ReportTypes, RaceInv, Done
    <2>7. AbortExplained'
        BY <2>1 DEF IInv, AbortExplained
    <2> QED
        BY <2>2, <2>3, <2>5, <2>6, <2>7 DEF IInv, ReportInv
<1>5. ASSUME NEW r \in Receivers, HandOff(r) PROVE IInv'
    <2> DEFINE p == report[hand[r]]
               u == [n |-> hand[r], fn |-> Load(p.kind), arg |-> Passed(p)]
    <2>1. /\ recv[r] = "handing" /\ Done(r) /\ threads' = threads \cup {u}
          /\ UNCHANGED <<replies, report, alive, callback, delivered, raced>>
        BY <1>5 DEF HandOff
    <2>2. ReplyInv'
        BY <2>1, QuietStep DEF IInv, replies, caches
    <2>3. PlaceInv' /\ ReportsTold'
        BY <1>5, PlaceHanded DEF IInv
    <2>4. ReportTypes'
        BY <2>1 DEF IInv, ReportInv, ReportTypes, Done, replies, caches
    <2>5. RaceInv'
        BY <2>1 DEF IInv, ReportInv, ReportTypes, RaceInv, Done
    <2>6. u.fn = NULL => raced
        BY <2>1 DEF IInv, RaceInv, Load
    <2>7. AbortExplained'
        BY <2>1, <2>6 DEF IInv, AbortExplained, replies
    <2> QED
        BY <2>2, <2>3, <2>4, <2>5, <2>7 DEF IInv, ReportInv
<1>6. ASSUME NEW r \in Receivers, NewSession(r) PROVE IInv'
    <2>1. UNCHANGED <<replies, report, recv, hand, callback, threads, delivered,
                      raced>>
        BY <1>6 DEF NewSession
    <2>2. ReplyInv'
        BY <2>1, QuietStep DEF IInv, replies, caches
    <2>3. PlaceInv' /\ ReportsTold'
        BY <2>1, PlaceKept DEF IInv, replies
    <2>4. ReportTypes'
        BY <2>1 DEF IInv, ReportInv, ReportTypes, replies, caches
    <2>5. RaceInv' /\ AbortExplained'
        BY <2>1, RaceKept DEF replies
    <2> QED
        BY <2>2, <2>3, <2>4, <2>5 DEF IInv, ReportInv
<1> QED
    BY <1>1, <1>2, <1>3, <1>4, <1>5, <1>6 DEF Receive

(* The arm sends one more report.                                           *)
LEMMA SendStep ==
    ASSUME IInv, ~aborted, NEW k \in Kinds, NEW v \in Values \cup {0, 1, Bare},
           switches' \in Nat, Send(k, v),
           UNCHANGED <<executed, outcome, told, api, answer, arrived, handling,
                       heard, caches, armMode, aborted, receiver, callback,
                       threads, delivered, raced>>
    PROVE  IInv'
<1> DEFINE n == Len(report) + 1
           p == [kind |-> k, value |-> v, asOf |-> switches']
<1>1. report' = Append(report, p) /\ line' = Append(line, n)
    BY DEF Send
<1>2. p \in Reports /\ report \in Seq(Reports)
    BY DEF Reports, IInv, ReportInv, ReportTypes
<1>3. /\ report' \in Seq(Reports) /\ DOMAIN report' = DOMAIN report \cup {n}
      /\ \A m \in DOMAIN report : report'[m] = report[m]
      /\ n \in Nat /\ n \notin DOMAIN report
    BY <1>1, <1>2, AppendProperties, LenProperties
<1>4. n \notin Known /\ n # NULL /\ Known' = Known \cup {n}
    BY <1>3, CallsAreNoNumbers DEF IInv, ReplyInv, CallsInv, Known
<1>5. line' \in Seq(Calls \cup Nat)
    BY <1>1, <1>3, AppendProperties DEF IInv, ReportInv, ReportTypes
<1>6. ReportTypes'
    BY <1>3, <1>5 DEF IInv, ReportInv, ReportTypes, receiver, caches
<1>7. PlaceInv' /\ ReportsTold'
    BY <1>1, <1>3, <1>4, PlaceSent DEF IInv, ReportInv, ReportTypes, receiver
<1>8. RaceInv'
    <2>1. \A r \in Receivers : recv[r] = "handing" =>
            report'[hand[r]] = report[hand[r]]
        BY <1>3, HandedReport DEF IInv
    <2> QED
        BY <2>1 DEF IInv, RaceInv, receiver
<1>9. AbortExplained'
    BY DEF IInv, AbortExplained
<1>10. ReplyInv'
    BY QuietStep DEF IInv, caches
<1> QED
    BY <1>6, <1>7, <1>8, <1>9, <1>10 DEF IInv, ReportInv

LEMMA ArmStep == ASSUME IInv, ~aborted, Arm PROVE IInv'
<1>1. ASSUME NEW c \in Calls, Execute(c), UNCHANGED reports PROVE IInv'
    <2>1. ReplyInv' /\ c \notin executed /\ executed' = executed \cup {c}
        BY <1>1, ExecuteStep DEF IInv, ReportInv, ReportTypes
    <2>2. /\ line' = Append(line, c)
          /\ UNCHANGED <<caches, switches, aborted>>
        BY <1>1 DEF Execute
    <2>3. c \notin Known /\ c # NULL /\ Known' = Known \cup {c}
        <3>1. DOMAIN report \subseteq Nat
            BY DEF IInv, ReportInv, ReportTypes
        <3> QED
            BY <1>1, <2>1, <3>1, CallsAreNoNumbers DEF Known, reports
    <2>4. line' \in Seq(Calls \cup Nat)
        BY <2>2, AppendProperties DEF IInv, ReportInv, ReportTypes
    <2>5. ReportTypes'
        BY <1>1, <2>2, <2>4 DEF IInv, ReportInv, ReportTypes, reports, receiver, caches
    <2>6. PlaceInv' /\ ReportsTold'
        BY <1>1, <2>2, <2>3, PlaceSent
        DEF IInv, ReportInv, ReportTypes, reports, receiver
    <2>7. RaceInv' /\ AbortExplained'
        BY <1>1, <2>2, RaceKept DEF reports, receiver
    <2> QED
        BY <2>1, <2>5, <2>6, <2>7 DEF IInv, ReportInv
<1>2. ASSUME NEW k \in Kinds, NEW v \in Values, Emit(k, v) PROVE IInv'
    BY <1>2, SendStep DEF Emit, IInv, ReportInv, ReportTypes
<1>3. CASE Switch
    <2>1. switches' \in Nat
        BY <1>3 DEF Switch, IInv, ReportInv, ReportTypes
    <2>2. PICK v \in {0, 1, Bare} : Send("power", v)
        BY <1>3 DEF Switch
    <2> QED
        BY <1>3, <2>1, <2>2, SendStep, ReportAssumption DEF Switch
<1>4. CASE Lose
    <2>1. /\ line # <<>> /\ line' = Tail(line)
          /\ UNCHANGED <<executed, outcome, told, api, answer, arrived,
                         handling, heard, caches, armMode, switches, aborted,
                         reports>>
        BY <1>4 DEF Lose
    <2>2. ReplyInv'
        BY <2>1, QuietStep DEF IInv, caches
    <2>3. PlaceInv' /\ ReportsTold'
        BY <1>4, PlaceLost DEF IInv
    <2>4. ReportTypes'
        BY <2>1, HeadTailProperties
        DEF IInv, ReportInv, ReportTypes, reports, receiver, caches
    <2>5. RaceInv' /\ AbortExplained'
        BY <2>1, RaceKept DEF reports, receiver
    <2> QED
        BY <2>2, <2>3, <2>4, <2>5 DEF IInv, ReportInv
<1> QED
    BY <1>1, <1>2, <1>3, <1>4 DEF Arm

LEMMA StutterStep == ASSUME IInv, UNCHANGED vars PROVE IInv'
<1>1. ReplyInv'
    BY QuietStep DEF IInv, vars, replies, caches
<1>2. PlaceInv' /\ ReportsTold'
    BY PlaceKept DEF IInv, vars, replies, reports, receiver
<1>3. ReportTypes'
    BY DEF IInv, ReportInv, ReportTypes, vars, replies, reports, receiver, caches
<1>4. RaceInv'
    BY DEF IInv, RaceInv, vars, reports, receiver
<1>5. AbortExplained'
    BY DEF IInv, AbortExplained, Handler, vars, replies, reports, api
<1> QED
    BY <1>1, <1>2, <1>3, <1>4, <1>5 DEF IInv, ReportInv

-----------------------------------------------------------------------------
(* IInv is inductive: where each line is, what each call has been told, and *)
(* whether a callback was released under a receiver depend on each other.   *)
THEOREM ArmInvariant == Spec => []IInv
<1>1. Init => IInv
    BY ReplyStart, ReportStart DEF IInv
<1>2. IInv /\ [Next]_vars => IInv'
    BY ApplicationStep, ChannelStep, ReceiveStep, ArmStep, StutterStep DEF Next
<1> QED
    BY <1>1, <1>2, PTL DEF Spec

(* The bookkeeping of calls, answers and lines is right.                    *)
THEOREM ArmBookkeeping == Spec => []ArmInv
<1>1. IInv => ArmInv
    <2> SUFFICES ASSUME IInv PROVE ArmInv
        OBVIOUS
    <2> USE DEF IInv, ReplyInv, ReportInv
    <2>1. /\ op \in [Calls -> Ops \cup {NULL}]
          /\ cur \in [Apps -> Calls \cup {NULL}]
          /\ mode \in 0 .. 255 /\ power_status \in BOOLEAN
        BY DEF ReplyTypes, ReportTypes
    <2>2. /\ executed \subseteq Calls /\ arrived \subseteq executed
          /\ \A c \in executed : op[c] # NULL /\ answer[c] \in Texts
          /\ \A c \in Calls : outcome[c] \in Calls => outcome[c] = c /\ c \in arrived
        BY DEF CallsInv
    <2>3. \A c \in CallbackCalls :
            /\ told[c] \subseteq {"TIMEOUT", c}
            /\ c \in told[c] => c \in arrived
        <3>1. \A c \in CallbackCalls : c # "TIMEOUT"
            BY ReplyAssumption DEF Calls, Results
        <3> QED
            BY <3>1 DEF CallsInv
    <2>4. \A p \in handling : /\ p[1] \in CallbackCalls /\ p[2] \in told[p[1]]
                             /\ op[p[1]] # NULL
        BY DEF ReplyTypes, CallsInv
    <2>5. \A n \in DOMAIN report : report[n].kind \in AllKinds
        <3>1. \A n \in DOMAIN report : report[n] \in Reports
            BY DEF ReportTypes
        <3> QED
            BY <3>1, ReportAssumption DEF Reports
    <2>6. \A r \in Receivers :
            /\ recv[r] = "reading" => hand[r] = NULL
            /\ recv[r] = "line" => hand[r] \in executed \cup DOMAIN report
            /\ recv[r] = "handing" => hand[r] \in DOMAIN report
        BY DEF PlaceInv, Known
    <2>7. callback \in [Kinds -> AllKinds \cup {NULL}]
        BY ReportAssumption DEF ReportTypes
    <2> QED
        BY <2>1, <2>2, <2>3, <2>4, <2>5, <2>6, <2>7 DEF ArmInv
<1> QED
    BY <1>1, ArmInvariant, PTL

(* 0 from set_* and every value of a question is the arm's own answer to    *)
(* this very call, for any programs, cuts, losses and timeouts.             *)
THEOREM AnswersAreTrue == Spec => []ValuesTruthful
    BY ArmInvariant, PTL DEF IInv, ReplyInv

(* No report is told twice, or to the callback of another kind, however     *)
(* many receive threads read the port.                                      *)
THEOREM ReportsToldOnce == Spec => []ReportsTold
    BY ArmInvariant, PTL DEF IInv, ReportInv

(* The process is ended by a release that races a receiver, or by an answer *)
(* with an empty field that a detached handler was given, and by nothing    *)
(* else.                                                                    *)
THEOREM AbortsAreExplained == Spec => []AbortExplained
    BY ArmInvariant, PTL DEF IInv

-----------------------------------------------------------------------------
(* The values kept in the object.                                           *)
Switched(n) == IF PowerAt(n) THEN 1 ELSE 0

(* What the answers and reports say that may be kept.                       *)
AnswerKept(o, t) ==
    Answers(t, 1) /\ t.fields[1] # Bare =>
        /\ o = "get_mode" => t.fields[1] \in 0 .. 3
        /\ o = "get_power_status" => t.fields[1] = Switched(t.asOf)

KeptInv ==
    /\ \A c \in executed : answer[c].asOf \in 0 .. switches
                           /\ AnswerKept(op[c], answer[c])
    /\ \A n \in DOMAIN report :
         /\ report[n].asOf \in 0 .. switches
         /\ report[n].kind = "power" /\ report[n].value # Bare =>
              report[n].value = Switched(report[n].asOf)

(* Which operations have which handler.                                     *)
LEMMA HandlerOps ==
    ASSUME NEW o \in Ops
    PROVE  /\ Op(o).handler = "mode" => o = "get_mode"
           /\ Op(o).handler = "power" => o = "get_power_status"
           /\ Op(o).handler = "info" => o \in Infos
<1>1. \A i \in Infos : InfoOps[i].handler = "info"
    BY DEF Infos, InfoOps
<1>2. \A g \in DOMAIN GetOps :
        /\ GetOps[g].handler = "mode" => g = "get_mode"
        /\ GetOps[g].handler = "power" => g = "get_power_status"
        /\ GetOps[g].handler # "info"
    BY DEF GetOps
<1>3. \A s \in DOMAIN SetOps : SetOps[s].handler = "set"
    BY DEF SetOps
<1> QED
    BY <1>1, <1>2, <1>3 DEF Ops, Op

LEMMA ReplyKept ==
    /\ Reply(Op("get_mode").code) = <<armMode>>
    /\ Reply(Op("get_power_status").code) = <<Switched(switches)>>
<1>1. "get_mode" \notin Infos /\ "get_power_status" \notin Infos
    BY DEF Infos, InfoOps
<1>2. /\ "get_mode" \in DOMAIN GetOps /\ GetOps["get_mode"].code = "P2400"
      /\ "get_power_status" \in DOMAIN GetOps
      /\ GetOps["get_power_status"].code = "P2234"
    BY DEF GetOps
<1>3. /\ Op("get_mode").code = "P2400"
      /\ Op("get_power_status").code = "P2234"
    BY <1>1, <1>2 DEF Op
<1>4. \A i \in Infos : InfoOps[i].code \notin {"P2400", "P2234"}
    BY DEF Infos, InfoOps
<1>5. \A o \in DOMAIN GetOps : GetOps[o].handler = "int" =>
        GetOps[o].code \notin {"P2400", "P2234"}
    BY DEF GetOps
<1> DEFINE isInfo(code) == \E i \in Infos : InfoOps[i].code = code
           isInt(code)  == \E o \in DOMAIN GetOps : /\ GetOps[o].handler = "int"
                                                    /\ GetOps[o].code = code
           info(code) == CHOOSE n \in 1 .. 5 : InfoOps[get_device_info[n]].code = code
<1>6. \A code : Reply(code) =
                 CASE code = "P2400" -> <<armMode>>
                   [] code = "P2234" -> <<Switched(switches)>>
                   [] code \in {"P2220", "P2221", "P2200"} -> <<1, 1, 1>>
                   [] isInfo(code) -> <<info(code)>>
                   [] isInt(code)  -> <<2>>
                   [] OTHER  -> <<>>
    BY DEF Reply, Switched
<1>7. ~isInfo("P2400") /\ ~isInfo("P2234") /\ ~isInt("P2400") /\ ~isInt("P2234")
    BY <1>4, <1>5
<1> HIDE DEF isInfo, isInt, info
<1> QED
    BY <1>3, <1>6, <1>7

(* An answer of one field keeps its value, or loses it.                     *)
LEMMA CutsKept ==
    ASSUME NEW t, NEW x \in Int, t = Text("ok", <<x>>), NEW u \in {t} \cup Cuts(t),
           Answers(u, 1), u.fields[1] # Bare
    PROVE  u.fields[1] = x
<1>1. CASE u = t
    BY <1>1 DEF Text
<1>2. CASE u = Text("o", <<>>)
    BY <1>2 DEF Text, Answers
<1>3. ASSUME NEW fs, u = [t EXCEPT !.fields = fs],
             LET front == SubSeq(t.fields, 1, Len(t.fields) - 1)
             IN  fs \in {front, Append(front, Bare)}
      PROVE  u.fields[1] = x
    <2>1. t.fields = <<x>> /\ u.fields = fs
        BY <1>3 DEF Text
    <2>2. SubSeq(<<x>>, 1, Len(<<x>>) - 1) = <<>>
        OBVIOUS
    <2>3. fs = <<>> \/ fs = Append(<<>>, Bare)
        BY <1>3, <2>1, <2>2
    <2>4. Append(<<>>, Bare)[1] = Bare
        OBVIOUS
    <2> QED
        BY <2>1, <2>3, <2>4 DEF Answers
<1> QED
    BY <1>1, <1>2, <1>3 DEF Cuts, Text

(* What no step changes, of commands that were executed and of reports.     *)
LEMMA PastStays ==
    ASSUME IInv, ~aborted, Next
    PROVE  /\ executed \subseteq executed' /\ arrived \subseteq arrived'
           /\ \A c \in executed : op'[c] = op[c] /\ answer'[c] = answer[c]
           /\ switches' \in {switches, switches + 1}
<1>0. \A c \in executed : op[c] # NULL /\ c \in Calls
    BY DEF IInv, ReplyInv, CallsInv
<1>1. ASSUME NEW a \in Apps, NEW c \in Calls, Issue(a, c)
      PROVE  /\ \A d \in executed : op'[d] = op[d] /\ answer'[d] = answer[d]
             /\ UNCHANGED <<executed, arrived, switches>>
    BY <1>0, <1>1 DEF Issue, IInv, ReplyInv, ReplyTypes
<1>2. ASSUME NEW a \in Apps, App(a), ~\E c \in Calls : Issue(a, c)
      PROVE  UNCHANGED <<executed, arrived, switches, op, answer>>
    BY <1>2 DEF App, Skip, Return, Promise!Return, Finish, FinishAsync, api
<1>3. CASE Channel
    BY <1>3 DEF Channel, Tell, Promise!Tell, Handle, api
<1>4. CASE Receive
    BY <1>4
    DEF Receive, CallReport, ReadLine, DispatchReply, Arrive, DispatchReport,
        HandOff, NewSession, replies, api
<1>5. ASSUME NEW c \in Calls, Execute(c)
      PROVE  /\ executed \subseteq executed'
             /\ \A d \in executed : op'[d] = op[d] /\ answer'[d] = answer[d]
             /\ UNCHANGED <<arrived, switches>>
    <2>1. /\ c \notin executed /\ executed' = executed \cup {c}
          /\ UNCHANGED <<op, arrived, switches>>
        BY <1>5 DEF Execute, Promise!Execute, api
    <2>2. \E u : answer' = [answer EXCEPT ![c] = u]
        BY <1>5 DEF Execute
    <2> QED
        BY <1>0, <2>1, <2>2 DEF IInv, ReplyInv, ReplyTypes
<1>6. ASSUME NEW k \in Kinds, Register(k) \/ Release(k)
      PROVE  UNCHANGED <<executed, arrived, switches, op, answer>>
    BY <1>6 DEF Register, Release, replies, api
<1>7. ASSUME NEW k \in Kinds, NEW v \in Values, Emit(k, v)
      PROVE  UNCHANGED <<executed, arrived, switches, op, answer>>
    BY <1>7 DEF Emit, api
<1>8. ASSUME Switch \/ Lose
      PROVE  /\ UNCHANGED <<executed, arrived, op, answer>>
             /\ switches' \in {switches, switches + 1}
    BY <1>8 DEF Switch, Lose, api
<1> QED
    BY <1>1, <1>2, <1>3, <1>4, <1>5, <1>6, <1>7, <1>8 DEF Next, Application, Arm

LEMMA KeptStart == Init => KeptInv /\ CachesFaithful
<1> SUFFICES ASSUME Init PROVE KeptInv /\ CachesFaithful
    OBVIOUS
<1>1. KeptInv
    BY DEF Init, ReplyInit, Promise!Init, KeptInv
<1>2. PowerAt(0) = FALSE
    BY DEF PowerAt
<1>3. CachesFaithful
    <2>1. mode = 255 /\ power_seen = 0 /\ switches = 0 /\ power_status = FALSE
        BY DEF Init, ReplyInit
    <2>2. \A i \in Infos : device_info[i] = 0
        BY DEF Init, ReplyInit
    <2>3. power_seen \in 0 .. switches
        BY <2>1
    <2>4. power_status = PowerAt(power_seen)
        BY <1>2, <2>1, Zenon
    <2> QED
        BY <2>1, <2>2, <2>3, <2>4 DEF CachesFaithful
<1> QED
    BY <1>1, <1>3

LEMMA KeptStep == ASSUME IInv, KeptInv, ~aborted, Next PROVE KeptInv'
<1>0. switches \in Nat
    BY DEF IInv, ReportInv, ReportTypes
<1>1. /\ \A c \in executed : /\ op'[c] = op[c] /\ answer'[c] = answer[c]
                            /\ answer[c].asOf \in 0 .. switches'
      /\ \A n \in DOMAIN report : report[n].asOf \in 0 .. switches'
    BY <1>0, PastStays DEF KeptInv
<1>2. ASSUME executed' = executed, report' = report PROVE KeptInv'
    BY <1>1, <1>2 DEF KeptInv
<1>3. ASSUME NEW c \in Calls, Execute(c), UNCHANGED reports PROVE KeptInv'
    <2>1. executed' = executed \cup {c} /\ UNCHANGED <<op, switches, report>>
        BY <1>3 DEF Execute, Promise!Execute, api, reports
    <2> DEFINE t == Text("ok", Reply(Op(op[c]).code))
    <2>2. PICK u : /\ answer' = [answer EXCEPT ![c] = u]
                   /\ \/ u \in {t} \cup Cuts(t)
                      \/ \E w \in ErrorWords : u = Text(w, <<>>)
        BY <1>3 DEF Execute
    <2>3. answer'[c] = u
        BY <2>2 DEF IInv, ReplyInv, ReplyTypes
    <2>4. u.asOf = switches
        BY <2>2 DEF Text, Cuts
    <2>5. AnswerKept(op[c], u)
        <3> SUFFICES ASSUME Answers(u, 1), u.fields[1] # Bare
                     PROVE  /\ op[c] = "get_mode" => u.fields[1] \in 0 .. 3
                            /\ op[c] = "get_power_status" =>
                                 u.fields[1] = Switched(u.asOf)
            BY DEF AnswerKept
        <3>1. u \in {t} \cup Cuts(t)
            BY <2>2 DEF Text, Answers
        <3>2. ASSUME op[c] = "get_mode" PROVE u.fields[1] \in 0 .. 3
            <4>1. t = Text("ok", <<armMode>>) /\ armMode \in 0 .. 3
                BY <3>2, ReplyKept DEF IInv, ReplyInv, ReplyTypes
            <4> QED
                BY <3>1, <4>1, CutsKept
        <3>3. ASSUME op[c] = "get_power_status"
              PROVE  u.fields[1] = Switched(u.asOf)
            <4>1. t = Text("ok", <<Switched(switches)>>) /\ Switched(switches) \in Int
                BY <3>3, ReplyKept DEF Switched
            <4> QED
                BY <2>4, <3>1, <4>1, CutsKept
        <3> QED
            BY <3>2, <3>3
    <2> QED
        BY <1>0, <1>1, <2>1, <2>3, <2>4, <2>5 DEF KeptInv
<1>4. ASSUME NEW k \in Kinds, NEW v \in Values \cup {0, 1, Bare}, Send(k, v),
             executed' = executed, switches' \in Nat,
             k = "power" /\ v # Bare => v = Switched(switches')
      PROVE  KeptInv'
    <2>1. /\ report' = Append(report, [kind |-> k, value |-> v, asOf |-> switches'])
          /\ report \in Seq(Reports)
        BY <1>4 DEF Send, IInv, ReportInv, ReportTypes
    <2>2. /\ DOMAIN report' = DOMAIN report \cup {Len(report) + 1}
          /\ \A n \in DOMAIN report : report'[n] = report[n]
          /\ report'[Len(report) + 1] = [kind |-> k, value |-> v, asOf |-> switches']
        BY <2>1, AppendProperties, LenProperties
    <2> QED
        BY <1>1, <1>4, <2>2 DEF KeptInv
<1>5. ASSUME NEW k \in Kinds, NEW v \in Values, Emit(k, v) PROVE KeptInv'
    BY <1>0, <1>4, <1>5 DEF Emit
<1>6. CASE Switch
    <2>1. /\ switches' = switches + 1 /\ executed' = executed
          /\ \E v \in {Switched(switches + 1), Bare} : Send("power", v)
        BY <1>6 DEF Switch, Switched
    <2>2. Switched(switches + 1) \in {0, 1}
        BY DEF Switched
    <2> QED
        BY <1>0, <1>4, <2>1, <2>2, ReportAssumption
<1>7. ASSUME NEW a \in Apps, App(a), UNCHANGED reports PROVE KeptInv'
    BY <1>2, <1>7, AppStep DEF reports, IInv
<1>8. CASE Channel
    BY <1>2, <1>8 DEF Channel, Tell, Promise!Tell, Handle, reports
<1>9. CASE Receive
    BY <1>2, <1>9
    DEF Receive, CallReport, ReadLine, DispatchReply, Arrive, DispatchReport,
        HandOff, NewSession, replies
<1>10. ASSUME NEW k \in Kinds, Register(k) \/ Release(k) PROVE KeptInv'
    BY <1>2, <1>10 DEF Register, Release, replies
<1>11. CASE Lose
    BY <1>2, <1>11 DEF Lose, reports
<1> QED
    BY <1>3, <1>5, <1>6, <1>7, <1>8, <1>9, <1>10, <1>11
    DEF Next, Application, Arm

(* The caches after a step that leaves them alone, ...                      *)
LEMMA CachesStay ==
    ASSUME IInv, ~aborted, Next, CachesFaithful, UNCHANGED caches
    PROVE  CachesFaithful'
<1>1. \A c \in arrived : /\ c \in arrived' /\ op'[c] = op[c]
                       /\ answer'[c] = answer[c]
    BY PastStays DEF IInv, ReplyInv, CallsInv
<1>2. power_seen \in 0 .. switches'
    BY PastStays DEF CachesFaithful, IInv, ReportInv, ReportTypes
<1>3. UNCHANGED <<mode, power_status, device_info, power_seen>>
    BY DEF caches
<1>4. \A i \in Infos : device_info[i] # 0 =>
        \E c \in arrived' : op'[c] = i /\ GetString(answer'[c]) = device_info[i]
    BY <1>1 DEF CachesFaithful
<1>5. mode # 255 => \E c \in arrived' : op'[c] = "get_mode" /\ GetInt(answer'[c]) = mode
    BY <1>1 DEF CachesFaithful
<1> QED
    BY <1>2, <1>3, <1>4, <1>5 DEF CachesFaithful

(* ... after a handler has kept a value ...                                 *)
LEMMA CachesKept ==
    ASSUME IInv, KeptInv, CachesFaithful, NEW c \in Calls, op[c] # NULL, NEW r,
           (r = c /\ c \in arrived) \/ (r \notin Calls /\ r # "ok"),
           ~Throws(Op(op[c]).handler, TextOf(r)),
           Keep(c, Op(op[c]).handler, TextOf(r)),
           UNCHANGED <<arrived, op, answer, switches>>
    PROVE  /\ CachesFaithful'
           /\ power_seen' # power_seen =>
                /\ op[c] = "get_power_status" /\ c \in arrived
                /\ answer[c].asOf = power_seen'
<1> DEFINE h == Op(op[c]).handler
           t == TextOf(r)
<1>0. /\ op[c] \in Ops /\ arrived \subseteq executed
      /\ op \in [Calls -> Ops \cup {NULL}]
    BY DEF IInv, ReplyInv, ReplyTypes, CallsInv
<1>1. Answers(t, 1) => /\ r = c /\ c \in arrived /\ t = answer[c]
                       /\ AnswerKept(op[c], t) /\ t.asOf \in 0 .. switches
    BY <1>0 DEF TextOf, Answers, KeptInv
<1>2. /\ h = "mode" => op[c] = "get_mode"
      /\ h = "power" => op[c] = "get_power_status"
      /\ h = "info" => op[c] \in Infos
    BY <1>0, HandlerOps
<1>3. Answers(t, 1) /\ h \in {"mode", "power"} => t.fields[1] # Bare
    BY DEF Throws
<1>4. mode' # 255 => \E d \in arrived' : op'[d] = "get_mode" /\ GetInt(answer'[d]) = mode'
    <2>1. CASE h = "mode" /\ GetInt(t) # -1
        <3>1. Answers(t, 1) /\ GetInt(t) = t.fields[1]
            BY <2>1 DEF GetInt
        <3>2. GetInt(t) \in 0 .. 3
            BY <1>1, <1>2, <1>3, <2>1, <3>1 DEF AnswerKept
        <3>3. mode' = GetInt(t)
            BY <2>1, <3>2 DEF Keep
        <3> QED
            BY <1>1, <1>2, <2>1, <3>1, <3>3
    <2>2. CASE ~(h = "mode" /\ GetInt(t) # -1)
        BY <2>2 DEF Keep, CachesFaithful
    <2> QED
        BY <2>1, <2>2
<1>5. \A i \in Infos : device_info'[i] # 0 =>
        \E d \in arrived' : op'[d] = i /\ GetString(answer'[d]) = device_info'[i]
    <2>1. CASE h = "info" /\ Answers(t, 1)
        <3>1. device_info' = [device_info EXCEPT ![op[c]] = GetString(t)]
            BY <2>1 DEF Keep
        <3>2. \A i \in Infos : \/ device_info'[i] = device_info[i]
                               \/ i = op[c] /\ device_info'[i] \in {device_info[i], GetString(t)}
            BY <3>1
        <3> QED
            BY <1>1, <2>1, <3>2 DEF CachesFaithful
    <2>2. CASE ~(h = "info" /\ Answers(t, 1))
        BY <2>2 DEF Keep, CachesFaithful
    <2> QED
        BY <2>1, <2>2
<1>6. /\ power_seen' \in 0 .. switches' /\ power_status' = PowerAt(power_seen')
      /\ power_seen' # power_seen =>
           /\ op[c] = "get_power_status" /\ c \in arrived
           /\ answer[c].asOf = power_seen'
    <2>1. CASE h = "power" /\ GetInt(t) # -1
        <3>1. Answers(t, 1) /\ GetInt(t) = t.fields[1]
            BY <2>1 DEF GetInt
        <3>2. GetInt(t) = Switched(t.asOf)
            BY <1>1, <1>2, <1>3, <2>1, <3>1 DEF AnswerKept
        <3>3. power_status' = (GetInt(t) > 0) /\ power_seen' = t.asOf
            BY <2>1 DEF Keep
        <3>4. PowerAt(t.asOf) \in BOOLEAN
            BY DEF PowerAt
        <3>5. (GetInt(t) > 0) = PowerAt(t.asOf)
            BY <3>2, <3>4 DEF Switched
        <3> QED
            BY <1>1, <1>2, <2>1, <3>1, <3>3, <3>5
    <2>2. CASE ~(h = "power" /\ GetInt(t) # -1)
        BY <2>2 DEF Keep, CachesFaithful
    <2> QED
        BY <2>1, <2>2
<1> QED
    BY <1>4, <1>5, <1>6 DEF CachesFaithful

(* ... and after a report of the power.                                     *)
LEMMA CachesReported ==
    ASSUME IInv, KeptInv, CachesFaithful, NEW r \in Receivers, DispatchReport(r)
    PROVE  /\ CachesFaithful'
           /\ power_seen' # power_seen => power_seen' = report[hand[r]].asOf
<1> DEFINE p == report[hand[r]]
<1>1. /\ hand[r] \in DOMAIN report
      /\ UNCHANGED <<op, answer, arrived, mode, device_info, switches>>
    BY DEF DispatchReport, api
<1>2. CASE p.kind = "power" /\ p.value # Bare
    <2>1. /\ power_status' = (p.value = 1) /\ power_seen' = p.asOf
        BY <1>2 DEF DispatchReport
    <2>2. p.asOf \in 0 .. switches /\ p.value = Switched(p.asOf)
        BY <1>1, <1>2 DEF KeptInv
    <2>3. (p.value = 1) = PowerAt(p.asOf)
        BY <2>2 DEF Switched, PowerAt
    <2> QED
        BY <1>1, <2>1, <2>2, <2>3 DEF CachesFaithful
<1>3. CASE ~(p.kind = "power" /\ p.value # Bare)
    BY <1>1, <1>3 DEF DispatchReport, CachesFaithful
<1> QED
    BY <1>2, <1>3

LEMMA CachesStep ==
    ASSUME IInv, KeptInv, CachesFaithful, ~aborted, Next
    PROVE  /\ CachesFaithful'
           /\ \/ power_seen' = power_seen
              \/ \E c \in arrived : /\ op[c] = "get_power_status"
                                   /\ answer[c].asOf = power_seen'
              \/ \E r \in Receivers : /\ recv[r] = "line" /\ hand[r] \in DOMAIN report
                                     /\ report[hand[r]].asOf = power_seen'
<1>1. CASE UNCHANGED caches
    BY <1>1, CachesStay DEF caches
<1>2. ASSUME NEW a \in Apps, Finish(a), ~UNCHANGED caches
      PROVE  /\ CachesFaithful'
             /\ power_seen' # power_seen =>
                  \E c \in arrived : /\ op[c] = "get_power_status"
                                    /\ answer[c].asOf = power_seen'
    <2>1. PICK c \in SyncCalls : c = cur[a]
        BY <1>2 DEF Finish
    <2>2. PICK r : r = outcome[c]
        OBVIOUS
    <2>3. /\ c \in Calls /\ r # NULL
          /\ ~Throws(Op(op[c]).handler, TextOf(r))
          /\ Keep(c, Op(op[c]).handler, TextOf(r))
          /\ UNCHANGED <<arrived, op, answer, switches>>
        BY <1>2, <2>1, <2>2 DEF Finish, Calls
    <2>4. op[c] # NULL
        BY <2>1, <2>3, ReplyAssumption DEF IInv, ReplyInv, CallsInv
    <2>5. (r = c /\ c \in arrived) \/ (r \notin Calls /\ r # "ok")
        BY <2>2, <2>3 DEF IInv, ReplyInv, CallsInv
    <2>6. /\ CachesFaithful'
          /\ power_seen' # power_seen =>
               /\ op[c] = "get_power_status" /\ c \in arrived
               /\ answer[c].asOf = power_seen'
        BY <2>3, <2>4, <2>5, CachesKept
    <2> QED
        BY <2>6
<1>3. ASSUME NEW c \in CallbackCalls, NEW r, Handle(c, r), ~UNCHANGED caches
      PROVE  /\ CachesFaithful'
             /\ power_seen' # power_seen =>
                  \E d \in arrived : /\ op[d] = "get_power_status"
                                    /\ answer[d].asOf = power_seen'
    <2>1. /\ c \in Calls /\ <<c, r>> \in handling
          /\ ~Throws(Op(op[c]).handler, TextOf(r))
          /\ Keep(c, Op(op[c]).handler, TextOf(r))
          /\ UNCHANGED <<arrived, op, answer, switches>>
        BY <1>3 DEF Handle, Calls, api
    <2>2. /\ op[c] # NULL
          /\ (r = c /\ c \in arrived) \/ (r \notin Calls /\ r # "ok")
        BY <2>1, ReplyAssumption DEF IInv, ReplyInv, CallsInv, Results
    <2>3. /\ CachesFaithful'
          /\ power_seen' # power_seen =>
               /\ op[c] = "get_power_status" /\ c \in arrived
               /\ answer[c].asOf = power_seen'
        BY <2>1, <2>2, CachesKept
    <2> QED
        BY <2>3
<1>4. ASSUME NEW r \in Receivers, DispatchReport(r)
      PROVE  /\ CachesFaithful'
             /\ recv[r] = "line" /\ hand[r] \in DOMAIN report
             /\ power_seen' # power_seen => power_seen' = report[hand[r]].asOf
    BY <1>4, CachesReported DEF DispatchReport
<1>5. \/ UNCHANGED caches \/ \E a \in Apps : Finish(a)
      \/ \E c \in CallbackCalls : \E r : Handle(c, r)
      \/ \E r \in Receivers : DispatchReport(r)
    <2>1. CASE Application
        BY <2>1
        DEF Application, App, Skip, Issue, Return, FinishAsync, Register, Release,
            replies
    <2>2. CASE Channel
        BY <2>2 DEF Channel, Tell
    <2>3. CASE Receive
        BY <2>3
        DEF Receive, CallReport, ReadLine, DispatchReply, Arrive, HandOff,
            NewSession, replies
    <2>4. CASE Arm
        BY <2>4 DEF Arm, Execute, Emit, Switch, Lose
    <2> QED
        BY <2>1, <2>2, <2>3, <2>4 DEF Next
<1> QED
    BY <1>1, <1>2, <1>3, <1>4, <1>5

(* The kept mode, device information and power state are answers to the     *)
(* question they are about, or reports, for any number of threads.          *)
THEOREM CachesAreFaithful == Spec => []CachesFaithful
<1>1. Init => IInv /\ KeptInv /\ CachesFaithful
    BY ReplyStart, ReportStart, KeptStart DEF IInv
<1>2. IInv /\ KeptInv /\ CachesFaithful /\ [Next]_vars
        => (IInv /\ KeptInv /\ CachesFaithful)'
    <2>1. CASE UNCHANGED vars
        BY <2>1, StutterStep
        DEF vars, replies, reports, caches, api, KeptInv, CachesFaithful
    <2>2. ASSUME IInv, KeptInv, CachesFaithful, Next
          PROVE  (IInv /\ KeptInv /\ CachesFaithful)'
        <3>1. ~aborted
            BY <2>2 DEF Next
        <3> QED
            BY <2>2, <3>1, ApplicationStep, ChannelStep, ReceiveStep, ArmStep,
               KeptStep, CachesStep DEF Next
    <2> QED
        BY <2>1, <2>2
<1> QED
    BY <1>1, <1>2, PTL DEF Spec

-----------------------------------------------------------------------------
(* With one receiver the lines are read in the order of what they say of    *)
(* the power.                                                               *)
AsOf(x) == IF x \in Calls THEN answer[x].asOf ELSE report[x].asOf

Order(r) ==
    /\ \A i, j \in 1 .. Len(line) : i <= j => AsOf(line[i]) <= AsOf(line[j])
    /\ \A s \in Receivers \ {r} : hand[s] = NULL
    /\ \A i \in 1 .. Len(line) :
         /\ hand[r] # NULL => AsOf(hand[r]) <= AsOf(line[i])
         /\ power_seen <= AsOf(line[i])
         /\ \A c \in arrived : AsOf(c) <= AsOf(line[i])
    /\ hand[r] # NULL =>
         /\ power_seen <= AsOf(hand[r])
         /\ \A c \in arrived : AsOf(c) <= AsOf(hand[r])
OrderInv == \A r \in Receivers : alive = {r} => Order(r)

AliveInv == alive \subseteq Receivers /\ alive # {}

SeenInv == IInv /\ KeptInv /\ CachesFaithful /\ AliveInv

LEMMA KnownAsOf ==
    ASSUME IInv, KeptInv
    PROVE  /\ \A x \in Known : AsOf(x) \in 0 .. switches
           /\ \A i \in 1 .. Len(line) : AsOf(line[i]) \in Nat
           /\ \A c \in arrived : AsOf(c) \in Nat
<1>1. executed \subseteq Calls /\ DOMAIN report \subseteq Nat /\ arrived \subseteq Known
    BY DEF IInv, ReplyInv, CallsInv, ReportInv, ReportTypes, Known
<1>2. \A x \in Known : AsOf(x) \in 0 .. switches
    BY <1>1, CallsAreNoNumbers DEF Known, AsOf, KeptInv
<1>3. switches \in Nat
    BY DEF IInv, ReportInv, ReportTypes
<1> QED
    BY <1>1, <1>2, <1>3 DEF IInv, ReportInv, PlaceInv

(* What a known line says does not change.                                  *)
LEMMA AsOfStays ==
    ASSUME IInv, ~aborted, Next
    PROVE  \A x \in Known : AsOf(x)' = AsOf(x)
<1>1. \A n \in DOMAIN report : report'[n] = report[n]
    <2>1. ASSUME NEW k, NEW v, Send(k, v) PROVE \A n \in DOMAIN report : report'[n] = report[n]
        BY <2>1, AppendProperties DEF Send, IInv, ReportInv, ReportTypes
    <2>2. report' = report \/ \E k, v : Send(k, v)
        BY DEF Next, Application, Channel, Receive, Arm, Emit, Switch, Lose,
               Register, Release, CallReport, ReadLine, DispatchReply,
               DispatchReport, HandOff, NewSession, reports
    <2> QED
        BY <2>1, <2>2
<1>2. \A c \in executed : answer'[c] = answer[c]
    BY PastStays
<1>3. executed \subseteq Calls /\ DOMAIN report \subseteq Nat
    BY DEF IInv, ReplyInv, CallsInv, ReportInv, ReportTypes
<1> QED
    BY <1>1, <1>2, <1>3, CallsAreNoNumbers DEF Known, AsOf

(* Steps that move no line.                                                 *)
LEMMA OrderKept ==
    ASSUME SeenInv, NEW r \in Receivers, Order(r), ~aborted, Next,
           UNCHANGED <<line, hand, arrived>>,
           \/ power_seen' = power_seen
           \/ \E c \in arrived : AsOf(c) = power_seen'
           \/ hand[r] # NULL /\ power_seen' = AsOf(hand[r])
    PROVE  Order(r)'
<1>1. /\ \A i \in 1 .. Len(line) : AsOf(line[i])' = AsOf(line[i])
      /\ \A c \in arrived : AsOf(c)' = AsOf(c)
      /\ hand[r] # NULL => AsOf(hand[r])' = AsOf(hand[r])
    <2>1. \A c \in arrived : c \in Known
        BY DEF SeenInv, IInv, ReplyInv, CallsInv, Known
    <2>2. \A i \in 1 .. Len(line) : line[i] \in Known
        BY DEF SeenInv, IInv, ReportInv, PlaceInv
    <2>3. hand[r] # NULL => hand[r] \in Known
        BY DEF SeenInv, IInv, ReportInv, ReportTypes, PlaceInv, Known
    <2> QED
        BY <2>1, <2>2, <2>3, AsOfStays DEF SeenInv
<1>2. /\ \A i, j \in 1 .. Len(line') : i <= j => AsOf(line[i])' <= AsOf(line[j])'
      /\ \A s \in Receivers \ {r} : hand'[s] = NULL
    BY <1>1 DEF Order
<1>3. \A i \in 1 .. Len(line) : power_seen' <= AsOf(line[i])
    BY DEF Order
<1>4. hand[r] # NULL => AsOf(hand[r]) \in Nat
    BY KnownAsOf DEF SeenInv, IInv, ReportInv, ReportTypes, PlaceInv, Known
<1>5. hand[r] # NULL => power_seen' <= AsOf(hand[r])
    BY <1>4 DEF Order
<1> QED
    BY <1>1, <1>2, <1>3, <1>5 DEF Order

(* A receiver is done with a line, whose answer may have arrived.           *)
LEMMA OrderDone ==
    ASSUME SeenInv, NEW r \in Receivers, Order(r), ~aborted, Next,
           line' = line, hand' = [hand EXCEPT ![r] = NULL], hand[r] # NULL,
           \A c \in arrived' : c \in arrived \/ c = hand[r],
           \/ power_seen' = power_seen
           \/ power_seen' = AsOf(hand[r])
    PROVE  Order(r)'
<1>1. /\ \A i \in 1 .. Len(line) : AsOf(line[i])' = AsOf(line[i])
      /\ \A c \in arrived' : AsOf(c)' = AsOf(c)
    <2>1. hand[r] \in Known
        BY DEF SeenInv, IInv, ReportInv, ReportTypes, PlaceInv, Known
    <2>2. \A c \in arrived' : c \in Known
        BY <2>1 DEF SeenInv, IInv, ReplyInv, CallsInv, Known
    <2>3. \A i \in 1 .. Len(line) : line[i] \in Known
        BY DEF SeenInv, IInv, ReportInv, PlaceInv
    <2> QED
        BY <2>2, <2>3, AsOfStays DEF SeenInv
<1>2. \A s \in Receivers : hand'[s] = NULL
    BY DEF Order, SeenInv, IInv, ReportInv, ReportTypes
<1>3. \A i \in 1 .. Len(line) : power_seen' <= AsOf(line[i])
    BY DEF Order
<1>4. \A i \in 1 .. Len(line) : \A c \in arrived' : AsOf(c) <= AsOf(line[i])
    BY DEF Order
<1> QED
    BY <1>1, <1>2, <1>3, <1>4 DEF Order

(* The receiver takes the first line.                                       *)
LEMMA OrderRead ==
    ASSUME SeenInv, NEW r \in Receivers, Order(r), ~aborted, Next, ReadLine(r)
    PROVE  Order(r)'
<1>1. /\ line # <<>> /\ line' = Tail(line)
      /\ hand' = [hand EXCEPT ![r] = Head(line)]
      /\ UNCHANGED <<arrived, power_seen>>
    BY DEF ReadLine, caches
<1>2. /\ Head(line) = line[1] /\ 1 \in 1 .. Len(line)
      /\ \A i \in 1 .. Len(line') : /\ line'[i] = line[i + 1]
                                    /\ i + 1 \in 1 .. Len(line)
    BY <1>1, PlaceTail DEF SeenInv, IInv, ReportInv, ReportTypes
<1>3. \A c \in arrived : AsOf(c)' = AsOf(c)
    BY AsOfStays DEF SeenInv, IInv, ReplyInv, CallsInv, Known
<1>4. \A i \in 1 .. Len(line) : line[i] \in Known
    BY DEF SeenInv, IInv, ReportInv, PlaceInv
<1>5. hand'[r] = line[1] /\ \A s \in Receivers \ {r} : hand'[s] = NULL
    BY <1>1, <1>2 DEF Order, SeenInv, IInv, ReportInv, ReportTypes
<1> DEFINE v(i) == AsOf(line[i])
<1>6. /\ \A i, j \in 1 .. Len(line) : i <= j => v(i) <= v(j)
      /\ \A i \in 1 .. Len(line) : /\ power_seen <= v(i)
                                   /\ \A c \in arrived : AsOf(c) <= v(i)
    BY DEF Order
<1>7. /\ \A i \in 1 .. Len(line') : (AsOf(line[i])' = v(i + 1))
      /\ (AsOf(hand[r])' = v(1))
    <2>1. \A x \in Known : AsOf(x)' = AsOf(x)
        BY AsOfStays DEF SeenInv
    <2> QED
        BY <1>2, <1>4, <1>5, <2>1 DEF AsOf
<1>8. Len(line') \in Nat /\ Len(line) \in Nat
    BY <1>1, PlaceTail DEF SeenInv, IInv, ReportInv, ReportTypes
<1> HIDE DEF v
<1>9. /\ \A i, j \in 1 .. Len(line') : i <= j => v(i + 1) <= v(j + 1)
      /\ \A i \in 1 .. Len(line') : /\ v(1) <= v(i + 1) /\ power_seen <= v(i + 1)
                                    /\ \A c \in arrived : AsOf(c) <= v(i + 1)
    BY <1>2, <1>6, <1>8
<1> QED
    BY <1>1, <1>2, <1>3, <1>5, <1>6, <1>7, <1>9 DEF Order

(* A line gets lost.                                                        *)
LEMMA OrderLost ==
    ASSUME SeenInv, NEW r \in Receivers, Order(r), ~aborted, Next, Lose
    PROVE  Order(r)'
<1>1. /\ line # <<>> /\ line' = Tail(line)
      /\ UNCHANGED <<hand, arrived, power_seen>>
    BY DEF Lose, caches, reports, receiver
<1>2. \A i \in 1 .. Len(line') : line'[i] = line[i + 1] /\ i + 1 \in 1 .. Len(line)
    BY <1>1, PlaceTail DEF SeenInv, IInv, ReportInv, ReportTypes
<1>3. /\ \A c \in arrived : AsOf(c)' = AsOf(c)
      /\ hand[r] # NULL => AsOf(hand[r])' = AsOf(hand[r])
    BY <1>1, AsOfStays
    DEF SeenInv, IInv, ReplyInv, CallsInv, ReportInv, ReportTypes, PlaceInv, Known
<1> DEFINE v(i) == AsOf(line[i])
<1>4. /\ \A i, j \in 1 .. Len(line) : i <= j => v(i) <= v(j)
      /\ \A i \in 1 .. Len(line) :
           /\ hand[r] # NULL => AsOf(hand[r]) <= v(i)
           /\ power_seen <= v(i)
           /\ \A c \in arrived : AsOf(c) <= v(i)
    BY DEF Order
<1>5. \A i \in 1 .. Len(line') : (AsOf(line[i])' = v(i + 1))
    <2>1. \A x \in Known : AsOf(x)' = AsOf(x)
        BY AsOfStays DEF SeenInv
    <2>2. \A i \in 1 .. Len(line) : line[i] \in Known
        BY DEF SeenInv, IInv, ReportInv, PlaceInv
    <2> QED
        BY <1>2, <2>1, <2>2 DEF AsOf
<1>6. Len(line') \in Nat /\ Len(line) \in Nat
    BY <1>1, PlaceTail DEF SeenInv, IInv, ReportInv, ReportTypes
<1> HIDE DEF v
<1>7. /\ \A i, j \in 1 .. Len(line') : i <= j => v(i + 1) <= v(j + 1)
      /\ \A i \in 1 .. Len(line') :
           /\ hand[r] # NULL => AsOf(hand[r]) <= v(i + 1)
           /\ power_seen <= v(i + 1)
           /\ \A c \in arrived : AsOf(c) <= v(i + 1)
    BY <1>2, <1>4, <1>6
<1> QED
    BY <1>1, <1>3, <1>4, <1>5, <1>7 DEF Order

(* The arm sends a line; it says what is so at present.                     *)
LEMMA OrderSent ==
    ASSUME SeenInv, NEW r \in Receivers, Order(r), ~aborted, Next,
           NEW n, line' = Append(line, n), AsOf(n)' = switches',
           UNCHANGED <<hand, arrived, power_seen>>
    PROVE  Order(r)'
<1>1. /\ Len(line') = Len(line) + 1 /\ line'[Len(line) + 1] = n
      /\ \A i \in 1 .. Len(line) : line'[i] = line[i]
      /\ Len(line) \in Nat
    BY AppendProperties, LenProperties DEF SeenInv, IInv, ReportInv, ReportTypes
<1>2. switches \in Nat /\ switches' \in Nat /\ switches <= switches'
    BY PastStays DEF SeenInv, IInv, ReportInv, ReportTypes
<1>3. /\ \A x \in Known : AsOf(x)' = AsOf(x) /\ AsOf(x) \in 0 .. switches
      /\ power_seen \in 0 .. switches
    BY AsOfStays, KnownAsOf DEF SeenInv, CachesFaithful
<1>4. /\ \A i \in 1 .. Len(line) : line[i] \in Known
      /\ \A c \in arrived : c \in Known
      /\ hand[r] # NULL => hand[r] \in Known
    BY DEF SeenInv, IInv, ReplyInv, CallsInv, ReportInv, ReportTypes, PlaceInv, Known
<1>5. /\ \A i \in 1 .. Len(line) : /\ AsOf(line[i])' = AsOf(line[i])
                                  /\ AsOf(line[i]) \in 0 .. switches
      /\ \A c \in arrived : AsOf(c)' = AsOf(c) /\ AsOf(c) \in 0 .. switches
      /\ hand[r] # NULL => /\ AsOf(hand[r])' = AsOf(hand[r])
                           /\ AsOf(hand[r]) \in 0 .. switches
    <2>1. \A i \in 1 .. Len(line) : AsOf(line[i])' = AsOf(line[i])
        BY <1>1, <1>3, <1>4 DEF AsOf
    <2> QED
        BY <1>3, <1>4, <2>1
<1> DEFINE v(i) == AsOf(line[i])
           w(i) == IF i \in 1 .. Len(line) THEN v(i) ELSE switches'
<1>6. \A i \in 1 .. Len(line') : (AsOf(line[i])' = w(i))
    <2>1. \A i \in 1 .. Len(line) : (AsOf(line[i])' = w(i))
        BY <1>5
    <2>2. ASSUME NEW i \in 1 .. Len(line'), i \notin 1 .. Len(line)
          PROVE  line'[i] = n
        BY <1>1, <2>2
    <2>3. ASSUME NEW i \in 1 .. Len(line'), i \notin 1 .. Len(line)
          PROVE  (AsOf(line[i])' = w(i))
        BY <2>2, <2>3 DEF AsOf
    <2> QED
        BY <2>1, <2>3
<1>7. /\ \A i, j \in 1 .. Len(line) : i <= j => v(i) <= v(j)
      /\ \A i \in 1 .. Len(line) : /\ v(i) \in 0 .. switches
                                   /\ hand[r] # NULL => AsOf(hand[r]) <= v(i)
                                   /\ power_seen <= v(i)
                                   /\ \A c \in arrived : AsOf(c) <= v(i)
    BY <1>5 DEF Order
<1> HIDE DEF v
<1>8. /\ \A i, j \in 1 .. Len(line') : i <= j => w(i) <= w(j)
      /\ \A i \in 1 .. Len(line') : /\ hand[r] # NULL => AsOf(hand[r]) <= w(i)
                                    /\ power_seen <= w(i)
                                    /\ \A c \in arrived : AsOf(c) <= w(i)
    BY <1>1, <1>2, <1>3, <1>5, <1>7
<1> HIDE DEF w
<1> QED
    BY <1>5, <1>6, <1>8 DEF Order

(* An answer says what is so when its command is executed.                  *)
LEMMA ExecutedNow ==
    ASSUME ReplyInv, NEW c \in Calls, Execute(c)
    PROVE  answer'[c].asOf = switches
<1>1. ASSUME NEW w, NEW fs, NEW u \in {Text(w, fs)} \cup Cuts(Text(w, fs))
      PROVE  u.asOf = switches
    BY <1>1 DEF Text, Cuts
<1>2. \E u : answer' = [answer EXCEPT ![c] = u] /\ u.asOf = switches
    BY <1>1 DEF Execute, Text
<1> QED
    BY <1>2 DEF ReplyInv, ReplyTypes

(* A step with one receive thread, r, keeps the order.                      *)
LEMMA OrderStep ==
    ASSUME SeenInv, NEW r \in Receivers, Order(r), ~aborted, Next, alive' = {r}
    PROVE  Order(r)'
<1>1. alive = {r}
    BY DEF SeenInv, AliveInv, Next, Application, Channel, Receive, Arm, Register,
           Release, CallReport, ReadLine, DispatchReply, DispatchReport, HandOff,
           NewSession, Emit, Switch, Lose, reports, receiver
<1>2. \/ power_seen' = power_seen
      \/ \E c \in arrived : AsOf(c) = power_seen'
      \/ hand[r] # NULL /\ power_seen' = AsOf(hand[r])
    <2>1. arrived \subseteq Calls /\ DOMAIN report \subseteq Nat
        BY DEF SeenInv, IInv, ReplyInv, CallsInv, ReportInv, ReportTypes
    <2>2. ASSUME NEW s \in Receivers, recv[s] = "line", hand[s] \in DOMAIN report
          PROVE  s = r /\ hand[r] # NULL /\ AsOf(hand[r]) = report[hand[s]].asOf
        BY <2>1, <2>2, CallsAreNoNumbers DEF Order, AsOf
    <2>3. \/ power_seen' = power_seen
          \/ \E c \in arrived : answer[c].asOf = power_seen'
          \/ \E s \in Receivers : /\ recv[s] = "line" /\ hand[s] \in DOMAIN report
                                 /\ report[hand[s]].asOf = power_seen'
        BY CachesStep DEF SeenInv
    <2> QED
        BY <2>1, <2>2, <2>3 DEF AsOf
<1>3. CASE Application
    <2>1. UNCHANGED <<line, hand, arrived>>
        BY <1>3 DEF Application, App, Skip, Issue, Return, Finish, FinishAsync,
               Register, Release, replies, reports, receiver
    <2> QED
        BY <1>2, <2>1, OrderKept
<1>4. CASE Channel
    <2>1. UNCHANGED <<line, hand, arrived>>
        BY <1>4 DEF Channel, Tell, Handle, reports, receiver
    <2> QED
        BY <1>2, <2>1, OrderKept
<1>5. CASE Receive
    <2>1. ASSUME NEW t \in threads, CallReport(t) PROVE Order(r)'
        <3>1. UNCHANGED <<line, hand, arrived>>
            BY <2>1 DEF CallReport, receiver
        <3> QED
            BY <1>2, <3>1, OrderKept
    <2>2. ASSUME NEW s \in Receivers, ReadLine(s) PROVE Order(r)'
        <3>1. s = r
            BY <1>1, <2>2 DEF ReadLine
        <3> QED
            BY <2>2, <3>1, OrderRead
    <2>3. ASSUME NEW s \in Receivers, DispatchReply(s) PROVE Order(r)'
        <3>1. hand[s] \in Calls /\ hand[s] # NULL
            BY <2>3, ReplyAssumption DEF DispatchReply
        <3>2. s = r
            BY <3>1 DEF Order
        <3>3. /\ line' = line /\ hand' = [hand EXCEPT ![r] = NULL]
              /\ arrived' = arrived \cup {hand[r]} /\ power_seen' = power_seen
            BY <2>3, <3>2 DEF DispatchReply, Arrive, Done, caches
        <3> QED
            BY <3>1, <3>2, <3>3, OrderDone
    <2>4. ASSUME NEW s \in Receivers, DispatchReport(s) PROVE Order(r)'
        <3>1. hand[s] \in 1 .. Len(report) /\ hand[s] # NULL
            BY <2>4, ReportAssumption DEF DispatchReport
        <3>2. s = r
            BY <3>1 DEF Order
        <3>3. /\ line' = line /\ arrived' = arrived
              /\ hand' = hand \/ hand' = [hand EXCEPT ![r] = NULL]
            BY <2>4, <3>2 DEF DispatchReport, Done
        <3>4. CASE hand' = hand
            BY <1>2, <3>3, <3>4, OrderKept
        <3>5. CASE hand' = [hand EXCEPT ![r] = NULL]
            <4>1. power_seen' = power_seen \/ power_seen' = AsOf(hand[r])
                BY <2>4, <3>2, CallsAreNoNumbers DEF DispatchReport, AsOf
            <4> QED
                BY <3>1, <3>2, <3>3, <3>5, <4>1, OrderDone
        <3> QED
            BY <3>3, <3>4, <3>5
    <2>5. ASSUME NEW s \in Receivers, HandOff(s) PROVE Order(r)'
        <3>1. hand[s] \in DOMAIN report
            BY <2>5 DEF HandOff, SeenInv, IInv, ReportInv, PlaceInv
        <3>2. hand[s] # NULL
            BY <3>1, LenProperties, ReportAssumption
            DEF SeenInv, IInv, ReportInv, ReportTypes
        <3>3. s = r
            BY <3>2 DEF Order
        <3>4. /\ line' = line /\ hand' = [hand EXCEPT ![r] = NULL]
              /\ arrived' = arrived /\ power_seen' = power_seen
            BY <2>5, <3>3 DEF HandOff, Done, replies, caches
        <3> QED
            BY <3>2, <3>3, <3>4, OrderDone
    <2>6. ASSUME NEW s \in Receivers, NewSession(s) PROVE Order(r)'
        BY <1>1, <2>6 DEF NewSession
    <2> QED
        BY <1>5, <2>1, <2>2, <2>3, <2>4, <2>5, <2>6 DEF Receive
<1>6. CASE Arm
    <2>1. ASSUME NEW c \in Calls, Execute(c), UNCHANGED reports PROVE Order(r)'
        <3>1. /\ line' = Append(line, c) /\ switches' = switches
              /\ UNCHANGED <<hand, arrived, power_seen>>
            BY <2>1 DEF Execute, reports, receiver, caches
        <3>2. AsOf(c)' = switches
            BY <2>1, ExecutedNow DEF SeenInv, IInv, AsOf
        <3> QED
            BY <3>1, <3>2, OrderSent
    <2>2. ASSUME NEW k, NEW x, Send(k, x),
                 UNCHANGED <<hand, arrived, power_seen>>
          PROVE  Order(r)'
        <3>1. PICK n : n = Len(report) + 1
            OBVIOUS
        <3>2. /\ line' = Append(line, n)
              /\ report' = Append(report, [kind |-> k, value |-> x, asOf |-> switches'])
              /\ n \in Nat
            BY <2>2, <3>1, LenProperties DEF Send, SeenInv, IInv, ReportInv, ReportTypes
        <3>3. report'[n].asOf = switches'
            BY <3>1, <3>2, AppendProperties DEF SeenInv, IInv, ReportInv, ReportTypes
        <3>4. AsOf(n)' = switches'
            BY <3>2, <3>3, CallsAreNoNumbers DEF AsOf
        <3> QED
            BY <2>2, <3>2, <3>4, OrderSent
    <2>3. ASSUME Lose PROVE Order(r)'
        BY <2>3, OrderLost
    <2>4. \/ \E c \in Calls : Execute(c) /\ UNCHANGED reports
          \/ \E k, x : Send(k, x) /\ UNCHANGED <<hand, arrived, power_seen>>
          \/ Lose
        BY <1>6 DEF Arm, Emit, Switch, receiver, caches
    <2> QED
        BY <2>1, <2>2, <2>3, <2>4
<1> QED
    BY <1>3, <1>4, <1>5, <1>6 DEF Next

LEMMA SeenStart == Init => SeenInv /\ OrderInv
<1> SUFFICES ASSUME Init PROVE SeenInv /\ OrderInv
    OBVIOUS
<1>1. SeenInv
    BY ReplyStart, ReportStart, KeptStart DEF SeenInv, IInv, AliveInv, Init
<1>2. line = <<>> /\ arrived = {} /\ \A r \in Receivers : hand[r] = NULL
    BY DEF Init, ReplyInit
<1> QED
    BY <1>1, <1>2 DEF OrderInv, Order

LEMMA SeenStep == SeenInv /\ OrderInv /\ [Next]_vars => (SeenInv /\ OrderInv)'
<1>1. ASSUME SeenInv, OrderInv, UNCHANGED vars PROVE (SeenInv /\ OrderInv)'
    <2>1. /\ UNCHANGED <<line, hand, arrived, alive, answer, report, executed,
                         switches, op, caches, power_seen>>
        BY <1>1 DEF vars, replies, reports, receiver, caches, api
    <2>2. IInv'
        BY <1>1, StutterStep DEF SeenInv
    <2>3. KeptInv'
        BY <1>1, <2>1 DEF SeenInv, KeptInv
    <2>4. CachesFaithful'
        BY <1>1, <2>1 DEF SeenInv, CachesFaithful, caches
    <2>5. AliveInv'
        BY <1>1, <2>1 DEF SeenInv, AliveInv
    <2>6. \A x : AsOf(x)' = AsOf(x)
        BY <2>1 DEF AsOf
    <2>7. OrderInv'
        BY <1>1, <2>1, <2>6 DEF OrderInv, Order
    <2> QED
        BY <2>2, <2>3, <2>4, <2>5, <2>7 DEF SeenInv
<1>2. ASSUME SeenInv, OrderInv, Next PROVE (SeenInv /\ OrderInv)'
    <2>1. ~aborted
        BY <1>2 DEF Next
    <2>2. IInv' /\ KeptInv' /\ CachesFaithful'
        BY <1>2, <2>1, ApplicationStep, ChannelStep, ReceiveStep, ArmStep,
           KeptStep, CachesStep DEF Next, SeenInv
    <2>3. alive' = alive \/ \E r \in Receivers : alive' = alive \cup {r}
        BY <1>2
        DEF Next, Application, Channel, Receive, Arm, Register, Release,
            CallReport, ReadLine, DispatchReply, DispatchReport, HandOff,
            NewSession, Emit, Switch, Lose, reports, receiver
    <2>4. AliveInv'
        BY <1>2, <2>3 DEF SeenInv, AliveInv
    <2>5. ASSUME NEW r \in Receivers, alive' = {r} PROVE Order(r)'
        <3>1. alive = {r}
            BY <1>2, <2>3, <2>5 DEF SeenInv, AliveInv
        <3> QED
            BY <1>2, <2>1, <2>5, <3>1, OrderStep DEF OrderInv
    <2> QED
        BY <2>2, <2>4, <2>5 DEF SeenInv, OrderInv
<1> QED
    BY <1>1, <1>2

(* The kept power state goes back only where two receive threads are alive  *)
(* or the late answer of get_power_status is kept: with one thread a report *)
(* cannot undo a later one, for any number of lines in flight.              *)
THEOREM PowerGoesForward == Spec => PowerForward
<1>1. ASSUME SeenInv, OrderInv, [Next]_vars, power_seen' < power_seen,
             Cardinality(alive) <= 1
      PROVE  \E c \in arrived : /\ op[c] = "get_power_status"
                               /\ answer[c].asOf = power_seen'
    <2>1. \E r \in Receivers : alive = {r}
        <3>1. IsFiniteSet(alive) /\ Cardinality(alive) \in Nat
            BY <1>1, ReportAssumption, FS_Subset, FS_CardinalityType
            DEF SeenInv, AliveInv
        <3>2. Cardinality(alive) # 0
            BY <1>1, <3>1, FS_EmptySet DEF SeenInv, AliveInv
        <3>3. Cardinality(alive) = 1
            BY <1>1, <3>1, <3>2
        <3>4. \E r : alive = {r}
            BY <3>1, <3>3, FS_Singleton
        <3> QED
            BY <1>1, <3>4 DEF SeenInv, AliveInv
    <2>2. PICK r \in Receivers : Order(r)
        BY <1>1, <2>1 DEF OrderInv
    <2>3. power_seen \in Nat
        BY <1>1 DEF SeenInv, CachesFaithful, IInv, ReportInv, ReportTypes
    <2>4. power_seen' # power_seen
        BY <1>1, <2>3
    <2>5. Next /\ ~aborted
        BY <1>1, <2>4 DEF vars, replies, caches, Next
    <2>6. ASSUME NEW s \in Receivers, hand[s] \in DOMAIN report, recv[s] = "line",
                 report[hand[s]].asOf = power_seen'
          PROVE  FALSE
        <3>1. DOMAIN report \subseteq Nat
            BY <1>1 DEF SeenInv, IInv, ReportInv, ReportTypes
        <3>2. hand[s] # NULL /\ AsOf(hand[s]) = power_seen' /\ s = r
            BY <2>2, <2>6, <3>1, CallsAreNoNumbers DEF AsOf, Order
        <3>3. power_seen <= power_seen'
            BY <2>2, <3>2 DEF Order
        <3>4. power_seen' \in Nat
            BY <1>1, <2>5, <2>6, KnownAsOf, <3>2 DEF SeenInv, Known
        <3> QED
            BY <1>1, <2>3, <3>3, <3>4
    <2> QED
        BY <1>1, <2>4, <2>5, <2>6, CachesStep DEF SeenInv
<1>2. SeenInv /\ OrderInv /\ [Next]_vars =>
        [power_seen' < power_seen =>
           \/ Cardinality(alive) > 1
           \/ \E c \in arrived : /\ op[c] = "get_power_status"
                                 /\ answer[c].asOf = power_seen']_vars
    <2>1. SeenInv => Cardinality(alive) \in Nat
        BY ReportAssumption, FS_Subset, FS_CardinalityType DEF SeenInv, AliveInv
    <2> QED
        BY <1>1, <2>1
<1> QED
    BY <1>2, SeenStart, SeenStep, PTL DEF Spec, PowerForward


-----------------------------------------------------------------------------
(* The API keeps to the channel it stands on.                               *)

(* Every step of this specification takes one step of CommandPromise or     *)
(* leaves the channel alone.                                                *)
LEMMA ChannelUsed ==
    IInv /\ [Next]_vars => [Promise!Next]_Promise!promise
<1> SUFFICES ASSUME IInv, [Next]_vars PROVE [Promise!Next]_Promise!promise
    OBVIOUS
<1>0. Promise!Commands = Calls /\ \A a \in Apps : cur[a] \in Calls \cup {NULL}
    BY DEF Promise!Commands, Calls, IInv, ReplyInv, ReplyTypes
<1>s. UNCHANGED <<executed, outcome, told>> => [Promise!Next]_Promise!promise
    BY DEF Promise!promise
<1>1. ASSUME NEW a \in Apps, App(a) PROVE [Promise!Next]_Promise!promise
    <2>1. ASSUME NEW r \in Results \cup SyncCalls, Return(a, r)
          PROVE  [Promise!Next]_Promise!promise
        <3>1. cur[a] \in Calls /\ Promise!Return(cur[a], r)
            BY <1>0, <2>1 DEF Return
        <3>2. r \in {"ok", "TIMEOUT", "NotConnected", "Exception", cur[a]}
            BY <2>1, <3>1 DEF Results, Promise!Return, Promise!Answered
        <3> QED
            BY <1>0, <3>1, <3>2 DEF Promise!Next
    <2>2. ASSUME Skip(a) \/ Finish(a) \/ FinishAsync(a)
                 \/ \E c \in Calls : Issue(a, c)
          PROVE  UNCHANGED <<executed, outcome, told>>
        BY <2>2 DEF Skip, Finish, FinishAsync, Issue
    <2> QED
        BY <1>1, <1>s, <2>1, <2>2 DEF App
<1>2. ASSUME NEW c \in CallbackCalls, NEW r, Tell(c, r)
      PROVE  [Promise!Next]_Promise!promise
    <2>1. Promise!Tell(c, r) /\ r \in {"TIMEOUT", c}
        BY <1>2 DEF Tell, Promise!Tell, Promise!Answered
    <2> QED
        BY <2>1 DEF Promise!Next
<1>3. ASSUME NEW c \in Calls, Execute(c) PROVE [Promise!Next]_Promise!promise
    BY <1>0, <1>3 DEF Execute, Promise!Next
<1>4. CASE Channel
    BY <1>4, <1>2, <1>s DEF Channel, Handle
<1>5. CASE Receive
    BY <1>5, <1>s
    DEF Receive, CallReport, ReadLine, DispatchReply, Arrive, DispatchReport,
        HandOff, NewSession, replies
<1>6. CASE Application
    BY <1>6, <1>1, <1>s DEF Application, Register, Release, replies
<1>7. CASE Arm
    BY <1>7, <1>3, <1>s DEF Arm, Emit, Switch, Lose
<1>8. CASE UNCHANGED vars
    BY <1>8, <1>s DEF vars, replies
<1> QED
    BY <1>4, <1>5, <1>6, <1>7, <1>8 DEF Next

(* The command API and the receive thread use the channel only as           *)
(* CommandPromise lets them, and SwiftCommand implements it (theorem        *)
(* ChannelKeepsPromise of SwiftCommandProofs): nothing assumed here about   *)
(* the channel is more than the threads of _send_cmd provide.               *)
THEOREM UsesPromise == Spec => Promise!Spec
<1>1. Init => Promise!Init
    BY DEF Init, ReplyInit
<1> QED
    BY <1>1, ArmInvariant, ChannelUsed, PTL DEF Spec, Promise!Spec

-----------------------------------------------------------------------------
(* What a callback was told reaches the user.                               *)

(* A callback that was told something belongs to a call that was issued.    *)
ToldIssued == \A c \in CallbackCalls : told[c] # {} => op[c] # NULL

(* The operation of an issued call and the texts it can be told stay.       *)
LEMMA IssuedStays ==
    ASSUME IInv, ToldIssued, ~aborted, Next
    PROVE  /\ \A c \in Calls : op[c] # NULL => op'[c] = op[c]
           /\ \A c \in CallbackCalls : \A r \in told[c] :
                op'[c] = op[c] /\ TextOf(r)' = TextOf(r)
<1>1. ASSUME NEW a \in Apps, NEW c \in Calls, Issue(a, c)
      PROVE  \A d \in Calls : op[d] # NULL => op'[d] = op[d]
    BY <1>1 DEF Issue, IInv, ReplyInv, ReplyTypes
<1>2. ASSUME ~\E a \in Apps, c \in Calls : Issue(a, c) PROVE UNCHANGED op
    <2>1. ASSUME NEW a \in Apps, App(a) PROVE UNCHANGED op
        BY <1>2, <2>1 DEF App, Skip, Return, Finish, FinishAsync, api
    <2>2. CASE Channel
        BY <2>2 DEF Channel, Tell, Handle, api
    <2>3. CASE Receive
        BY <2>3
        DEF Receive, CallReport, ReadLine, DispatchReply, Arrive,
            DispatchReport, HandOff, NewSession, replies, api
    <2>4. CASE Arm
        BY <2>4 DEF Arm, Execute, Emit, Switch, Lose, api
    <2>5. ASSUME NEW k \in Kinds, Register(k) \/ Release(k) PROVE UNCHANGED op
        BY <2>5 DEF Register, Release, replies, api
    <2> QED
        BY <2>1, <2>2, <2>3, <2>4, <2>5 DEF Next, Application
<1>3. \A c \in Calls : op[c] # NULL => op'[c] = op[c]
    BY <1>1, <1>2
<1>4. ASSUME NEW c \in CallbackCalls, NEW r \in told[c]
      PROVE  op'[c] = op[c] /\ TextOf(r)' = TextOf(r)
    <2>1. c \in Calls /\ op[c] # NULL
        BY <1>4 DEF ToldIssued, Calls
    <2>2. r \in executed \/ r \notin Calls
        <3>1. r = "TIMEOUT" \/ (r = c /\ c \in executed)
            BY <1>4 DEF IInv, ReplyInv, CallsInv
        <3> QED
            BY <3>1, ReplyAssumption DEF Results
    <2>3. r \in executed => answer'[r] = answer[r]
        BY PastStays
    <2>4. TextOf(r)' = TextOf(r)
        BY <2>2, <2>3 DEF TextOf, IInv, ReplyInv, CallsInv
    <2> QED
        BY <1>3, <2>1, <2>4
<1> QED
    BY <1>3, <1>4

LEMMA HeardStep ==
    ASSUME IInv, ToldIssued, NothingUnheard, ~aborted, Next
    PROVE  ToldIssued' /\ NothingUnheard'
<1> DEFINE Heard(c, r) == \/ <<c, r>> \in handling
                          \/ Value(Handler(c), TextOf(r)) \in heard[c]
                          \/ Handler(c) = "vector" /\ ~Answers(TextOf(r), 3)
                          \/ aborted
<1>0. \A c \in CallbackCalls : c \in Calls
    BY DEF Calls
<1>1. \A c \in CallbackCalls : \A r \in told[c] :
        /\ op[c] # NULL /\ op'[c] = op[c]
        /\ Handler(c)' = Handler(c) /\ TextOf(r)' = TextOf(r)
    BY IssuedStays DEF ToldIssued, Handler
<1>2. CASE UNCHANGED <<told, handling, heard>>
    <2>1. ToldIssued'
        BY <1>1, <1>2 DEF ToldIssued
    <2>2. ASSUME NEW c \in CallbackCalls, NEW r \in told[c] PROVE Heard(c, r)'
        <3>1. /\ handling' = handling /\ heard' = heard
              /\ Handler(c)' = Handler(c) /\ TextOf(r)' = TextOf(r)
            BY <1>1, <1>2
        <3>2. Heard(c, r) /\ ~aborted
            BY DEF NothingUnheard
        <3> QED
            BY <3>1, <3>2
    <2> QED
        BY <1>2, <2>1, <2>2 DEF NothingUnheard
<1>3. ASSUME NEW c \in CallbackCalls, NEW x, Tell(c, x)
      PROVE  ToldIssued' /\ NothingUnheard'
    <2>1. /\ told' = [told EXCEPT ![c] = @ \cup {x}] /\ op[c] # NULL
          /\ handling' = handling \cup {<<c, x>>} /\ UNCHANGED <<op, heard>>
        BY <1>3 DEF Tell, Promise!Tell, api
    <2>2. \A d \in CallbackCalls : \A r \in told'[d] :
            r \in told[d] \/ (d = c /\ r = x)
        BY <2>1 DEF IInv, ReplyInv, ReplyTypes
    <2>3. ToldIssued'
        BY <1>1, <2>1, <2>2 DEF ToldIssued
    <2>4. ASSUME NEW d \in CallbackCalls, NEW r \in told'[d]
          PROVE  Heard(d, r)'
        <3>1. CASE r \in told[d]
            <4>1. /\ handling \subseteq handling' /\ heard' = heard
                  /\ Handler(d)' = Handler(d) /\ TextOf(r)' = TextOf(r)
                BY <1>1, <2>1, <3>1
            <4>2. Heard(d, r) /\ ~aborted
                BY <3>1 DEF NothingUnheard
            <4> QED
                BY <4>1, <4>2
        <3>2. CASE d = c /\ r = x
            BY <2>1, <3>2
        <3> QED
            BY <2>2, <3>1, <3>2
    <2> QED
        BY <2>3, <2>4 DEF NothingUnheard
<1>4. ASSUME NEW c \in CallbackCalls, NEW x, Handle(c, x)
      PROVE  ToldIssued' /\ NothingUnheard'
    <2> DEFINE h == Op(op[c]).handler
               t == TextOf(x)
    <2>1. /\ UNCHANGED <<told, op>>
          /\ handling' = handling \ {<<c, x>>}
          /\ <<c, x>> \in handling
        BY <1>4 DEF Handle, api
    <2>2. ToldIssued'
        BY <2>1 DEF ToldIssued
    <2>3. \/ aborted'
          \/ heard' = IF TellsUser(h, t)
                      THEN [heard EXCEPT ![c] = @ \cup {Value(h, t)}]
                      ELSE heard
        BY <1>4 DEF Handle
    <2>4. ASSUME NEW d \in CallbackCalls, NEW r \in told[d] PROVE Heard(d, r)'
        <3>1. /\ Handler(d)' = Handler(d) /\ TextOf(r)' = TextOf(r)
              /\ Heard(d, r) /\ ~aborted
            BY <1>1 DEF NothingUnheard
        <3>2. aborted' \/ heard[d] \subseteq heard'[d]
            BY <2>3 DEF IInv, ReplyInv, ReplyTypes
        <3>3. CASE d = c /\ r = x
            <4>1. Handler(d) = h /\ TextOf(r) = t
                BY <3>3 DEF Handler
            <4>2. \/ aborted'
                  \/ Value(h, t) \in heard'[c]
                  \/ h = "vector" /\ ~Answers(t, 3)
                BY <2>3 DEF TellsUser, IInv, ReplyInv, ReplyTypes
            <4> HIDE DEF h, t
            <4> QED
                BY <3>1, <3>3, <4>1, <4>2
        <3>4. CASE <<d, r>> # <<c, x>>
            BY <2>1, <3>1, <3>2, <3>4
        <3> QED
            BY <3>3, <3>4
    <2> QED
        BY <2>1, <2>2, <2>4 DEF NothingUnheard
<1>5. ASSUME ~\E c \in CallbackCalls, x \in {"TIMEOUT"} \cup CallbackCalls :
                Tell(c, x) \/ Handle(c, x)
      PROVE  UNCHANGED <<told, handling, heard>>
    <2>1. ASSUME NEW a \in Apps, App(a) PROVE UNCHANGED <<told, handling, heard>>
        BY <2>1
        DEF App, Skip, Issue, Return, Promise!Return, Finish, FinishAsync
    <2>2. ~Channel
        BY <1>5 DEF Channel
    <2>3. CASE Receive
        BY <2>3
        DEF Receive, CallReport, ReadLine, DispatchReply, Arrive,
            DispatchReport, HandOff, NewSession, replies
    <2>4. CASE Arm
        BY <2>4 DEF Arm, Execute, Promise!Execute, Emit, Switch, Lose
    <2>5. ASSUME NEW k \in Kinds, Register(k) \/ Release(k)
          PROVE  UNCHANGED <<told, handling, heard>>
        BY <2>5 DEF Register, Release, replies
    <2> QED
        BY <2>1, <2>2, <2>3, <2>4, <2>5 DEF Next, Application
<1> QED
    BY <1>2, <1>3, <1>4, <1>5

(* Whatever the timer or the receiver tells the handler of an asynchronous  *)
(* call is on its way to the user's callback or has been heard there, but   *)
(* for incomplete vectors: together with the fairness of the threads, which *)
(* is all that CallbacksHear adds, no callback is forgotten.                *)
THEOREM ToldIsHeard == Spec => []NothingUnheard
<1>1. Init => ToldIssued /\ NothingUnheard
    BY DEF Init, ReplyInit, Promise!Init, ToldIssued, NothingUnheard
<1>2. IInv /\ ToldIssued /\ NothingUnheard /\ [Next]_vars
        => (ToldIssued /\ NothingUnheard)'
    <2>1. ASSUME IInv, ToldIssued, NothingUnheard, UNCHANGED vars
          PROVE  ToldIssued' /\ NothingUnheard'
        <3>1. UNCHANGED <<told, op, handling, heard, answer, aborted>>
            BY <2>1 DEF vars, replies, api
        <3> QED
            BY <2>1, <3>1 DEF ToldIssued, NothingUnheard, Handler, TextOf
    <2> QED
        BY <2>1, HeardStep DEF Next
<1> QED
    BY <1>1, <1>2, ArmInvariant, PTL DEF Spec
================================================================================

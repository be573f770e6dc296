--------------------------- MODULE LineSettingsProofs ---------------------------
(* Theorems about LineSettings for any baud rates, sizes and terminals.     *)
EXTENDS LineSettings, TLAPS

LineTypeOK ==
    /\ isOpen \in BOOLEAN /\ upToDate \in BOOLEAN
    /\ marked \in BOOLEAN /\ customed \in BOOLEAN
    /\ asked \in [baudrate : Baudrates, bytesize : Bytesizes \cup {8},
                  parity : Parities, stopbits : Stopbits,
                  flowcontrol : Flowcontrols]
    /\ line \in [speed : Standard, size : Bytesizes \cup {8},
                 flags : SUBSET Flags]
    /\ divisor \in Nat

(* What an open port has been through, and how the last configuration that  *)
(* was carried out has made its attributes.                                 *)
HistoryInv ==
    isOpen => /\ "CMSPAR" \in line.flags => marked
              /\ divisor # 0 => customed
MadeInv ==
    isOpen /\ upToDate =>
        /\ \E l \in [speed : Standard, size : Bytesizes \cup {8},
                     flags : SUBSET Flags] : line = Configured(l, asked)
        /\ asked.baudrate \in Custom => divisor = BaudBase \div asked.baudrate

LineInv == LineTypeOK /\ HistoryInv /\ MadeInv

LEMMA DivisorNat ==
    ASSUME NEW b \in Custom PROVE BaudBase \div b \in Nat /\ BaudBase \div b # 0
<1>1. b \in Nat /\ b > 0 /\ BaudBase \in Nat /\ b <= BaudBase
    BY LineAssumption
<1> QED
    BY <1>1

(* The attributes stay attributes.                                          *)
LEMMA ConfiguredType ==
    ASSUME NEW l \in [speed : Standard, size : Bytesizes \cup {8},
                      flags : SUBSET Flags],
           NEW a \in [baudrate : Baudrates, bytesize : Bytesizes \cup {8},
                      parity : Parities, stopbits : Stopbits,
                      flowcontrol : Flowcontrols]
    PROVE  Configured(l, a) \in [speed : Standard, size : Bytesizes \cup {8},
                                 flags : SUBSET Flags]
<1>1. \A fs \in SUBSET Flags : WithStopbits(fs, a.stopbits) \in SUBSET Flags
    BY DEF WithStopbits, Flags
<1>2. \A fs \in SUBSET Flags : WithParity(fs, a.parity) \in SUBSET Flags
    BY DEF WithParity, Flags, Parities
<1>3. \A fs \in SUBSET Flags : WithFlow(fs, a.flowcontrol) \in SUBSET Flags
    BY DEF WithFlow, Flags
<1>4. WithFlow(WithParity(WithStopbits(l.flags, a.stopbits), a.parity),
               a.flowcontrol) \in SUBSET Flags
    BY <1>1, <1>2, <1>3
<1> QED
    BY <1>4 DEF Configured

(* What the line makes of attributes that a configuration has left.         *)
LEMMA FlagsFollow ==
    ASSUME NEW fs \in SUBSET Flags, NEW s \in Stopbits, NEW p \in Parities,
           NEW f \in Flowcontrols, NEW gs,
           gs = WithFlow(WithParity(WithStopbits(fs, s), p), f)
    PROVE  /\ "CSTOPB" \in gs <=> s # "one"
           /\ FlowOf(gs) = f
           /\ \/ ParityOf(gs) = p
              \/ "CMSPAR" \in gs /\ p = "even" /\ ParityOf(gs) = "space"
              \/ "CMSPAR" \in gs /\ p = "odd" /\ ParityOf(gs) = "mark"
<1>1. "CSTOPB" \in gs <=> s # "one"
    BY DEF WithFlow, WithParity, WithStopbits, Parities
<1>2. /\ "CRTSCTS" \in gs <=> f = "hardware"
      /\ "IXON" \in gs <=> f = "software"
      /\ "IXOFF" \in gs <=> f = "software"
    BY DEF WithFlow
<1>3. FlowOf(gs) = f
    BY <1>2 DEF FlowOf, Flowcontrols
<1>4. /\ "PARENB" \in gs <=> p # "none"
      /\ "PARODD" \in gs <=> p \in {"odd", "mark"}
      /\ p \in {"mark", "space"} => "CMSPAR" \in gs
    BY DEF WithFlow, WithParity, WithStopbits, Parities
<1>5. \/ ParityOf(gs) = p
      \/ "CMSPAR" \in gs /\ p = "even" /\ ParityOf(gs) = "space"
      \/ "CMSPAR" \in gs /\ p = "odd" /\ ParityOf(gs) = "mark"
    BY <1>4 DEF ParityOf, Parities
<1> QED
    BY <1>1, <1>3, <1>5

LEMMA LineStart == LineInit => LineInv
<1> SUFFICES ASSUME LineInit PROVE LineInv
    OBVIOUS
<1>1. asked \in [baudrate : Baudrates, bytesize : {8}, parity : {"none"},
                stopbits : {"one"}, flowcontrol : {"none"}]
    BY DEF LineInit
<1>2. asked \in [baudrate : Baudrates, bytesize : Bytesizes \cup {8},
                parity : Parities, stopbits : Stopbits,
                flowcontrol : Flowcontrols]
    BY <1>1 DEF Parities, Stopbits, Flowcontrols
<1>3. line \in [speed : Standard, size : Bytesizes, flags : SUBSET Flags]
    BY LineAssumption DEF LineInit, Attributes
<1>4. line \in [speed : Standard, size : Bytesizes \cup {8},
               flags : SUBSET Flags]
    BY <1>3
<1>5. LineTypeOK
    BY <1>2, <1>4 DEF LineInit, LineTypeOK
<1>6. HistoryInv /\ MadeInv
    BY DEF LineInit, HistoryInv, MadeInv
<1> QED
    BY <1>5, <1>6 DEF LineInv

(* reconfigurePort() on attributes l leaves an open port as LineInv says.   *)
LEMMA ReconfigureStep ==
    ASSUME LineTypeOK,
           NEW l \in [speed : Standard, size : Bytesizes \cup {8},
                      flags : SUBSET Flags],
           NEW a \in [baudrate : Baudrates, bytesize : Bytesizes \cup {8},
                      parity : Parities, stopbits : Stopbits,
                      flowcontrol : Flowcontrols],
           NEW m \in BOOLEAN, NEW c \in BOOLEAN,
           asked' = a, isOpen' \in BOOLEAN,
           Thrown(l, divisor) \/ Done(a, l, divisor), Remember(m, c)
    PROVE  LineInv'
<1>1. Divided(a, divisor) \in Nat
    BY DivisorNat DEF Divided, LineTypeOK
<1>2. Configured(l, a) \in [speed : Standard, size : Bytesizes \cup {8},
                            flags : SUBSET Flags]
    BY ConfiguredType
<1>3. LineTypeOK'
    BY <1>1, <1>2 DEF LineTypeOK, Thrown, Done, Remember
<1>4. HistoryInv'
    BY DEF HistoryInv, Remember
<1>5. MadeInv'
    BY DEF MadeInv, Thrown, Done, Divided
<1> QED
    BY <1>3, <1>4, <1>5 DEF LineInv

LEMMA LineStep == LineInv /\ [LineNext]_settings => LineInv'
<1> SUFFICES ASSUME LineInv, [LineNext]_settings PROVE LineInv'
    OBVIOUS
<1>0. LineTypeOK /\ HistoryInv /\ MadeInv
    BY DEF LineInv
<1>1. CASE OpenLine
    <2>1. PICK l \in Terminals \cup {line} :
            /\ \/ Thrown(l, divisor) /\ UNCHANGED isOpen
               \/ Done(asked, l, divisor) /\ isOpen' = TRUE
            /\ Remember("CMSPAR" \in l.flags, divisor # 0)
        BY <1>1 DEF OpenLine
    <2>2. l \in [speed : Standard, size : Bytesizes \cup {8},
                 flags : SUBSET Flags]
        BY <1>0, LineAssumption DEF LineTypeOK, Attributes
    <2>3. asked' = asked /\ isOpen' \in BOOLEAN
        BY <1>0, <1>1, <2>1 DEF OpenLine, LineTypeOK
    <2>4. ("CMSPAR" \in l.flags) \in BOOLEAN /\ (divisor # 0) \in BOOLEAN
        OBVIOUS
    <2> QED
        BY <1>0, <2>1, <2>2, <2>3, <2>4, ReconfigureStep DEF LineTypeOK
<1>2. CASE CloseLine
    BY <1>0, <1>2
    DEF CloseLine, LineInv, LineTypeOK, HistoryInv, MadeInv
<1>3. ASSUME NEW a \in [baudrate : Baudrates, bytesize : Bytesizes \cup {8},
                        parity : Parities, stopbits : Stopbits,
                        flowcontrol : Flowcontrols],
             SetLine(a)
      PROVE  LineInv'
    <2>1. CASE isOpen
        BY <1>0, <1>3, <2>1, ReconfigureStep DEF SetLine, LineTypeOK
    <2>2. CASE ~isOpen
        BY <1>0, <1>3, <2>2
        DEF SetLine, LineInv, LineTypeOK, HistoryInv, MadeInv
    <2> QED
        BY <2>1, <2>2
<1>4. CASE UNCHANGED settings
    BY <1>0, <1>4
    DEF settings, LineInv, LineTypeOK, HistoryInv, MadeInv, Configured
<1> USE <1>0, <1>3 DEF LineTypeOK
<1>5. ASSUME NEW b \in Baudrates, SetLine([asked EXCEPT !.baudrate = b])
      PROVE  LineInv'
    BY <1>5
<1>6. ASSUME NEW b \in Bytesizes, SetLine([asked EXCEPT !.bytesize = b])
      PROVE  LineInv'
    BY <1>6
<1>7. ASSUME NEW p \in Parities, SetLine([asked EXCEPT !.parity = p])
      PROVE  LineInv'
    BY <1>7
<1>8. ASSUME NEW s \in Stopbits, SetLine([asked EXCEPT !.stopbits = s])
      PROVE  LineInv'
    BY <1>8
<1>9. ASSUME NEW f \in Flowcontrols, SetLine([asked EXCEPT !.flowcontrol = f])
      PROVE  LineInv'
    BY <1>9
<1> QED
    BY <1>1, <1>2, <1>4, <1>5, <1>6, <1>7, <1>8, <1>9 DEF LineNext

(* Of the rates only a custom one, and 38400 after a custom one, may be     *)
(* another than was asked for.                                              *)
LEMMA RateFollows ==
    ASSUME LineInv, isOpen, upToDate
    PROVE  \/ LineRate = asked.baudrate
           \/ customed /\ asked.baudrate = SpdBaud
           \/ asked.baudrate \in Custom /\ line.speed # SpdBaud
           \/ /\ asked.baudrate \in Custom
              /\ LineRate = BaudBase \div (BaudBase \div asked.baudrate)
<1>1. CASE asked.baudrate \in Standard
    <2>1. line.speed = asked.baudrate
        BY <1>1 DEF LineInv, MadeInv, Configured
    <2> QED
        BY <2>1 DEF LineRate, LineInv, HistoryInv
<1>2. CASE asked.baudrate \in Custom
    <2>1. divisor = BaudBase \div asked.baudrate /\ divisor # 0
        BY <1>2, DivisorNat DEF LineInv, MadeInv
    <2> QED
        BY <1>2, <2>1 DEF LineRate
<1> QED
    BY <1>1, <1>2 DEF LineInv, LineTypeOK, Baudrates

(* The line has the settings that were asked for, in whatever order they    *)
(* were set and whatever the terminal was like, but for the four exceptions *)
(* LineFollows names.                                                       *)
THEOREM LineHasFollowed == LineSpec => []LineFollows
<1>1. LineInv => LineFollows
    <2> SUFFICES ASSUME LineInv, isOpen, upToDate PROVE LineFollows
        BY DEF LineFollows
    <2>1. PICK l \in [speed : Standard, size : Bytesizes \cup {8},
                      flags : SUBSET Flags] : line = Configured(l, asked)
        BY DEF LineInv, MadeInv
    <2>2. line.size = asked.bytesize
        BY <2>1 DEF Configured
    <2>3. line.flags = WithFlow(WithParity(WithStopbits(l.flags, asked.stopbits),
                                           asked.parity), asked.flowcontrol)
        BY <2>1 DEF Configured
    <2>4. /\ "CSTOPB" \in line.flags <=> asked.stopbits # "one"
          /\ FlowOf(line.flags) = asked.flowcontrol
          /\ \/ ParityOf(line.flags) = asked.parity
             \/ /\ "CMSPAR" \in line.flags /\ asked.parity = "even"
                /\ ParityOf(line.flags) = "space"
             \/ /\ "CMSPAR" \in line.flags /\ asked.parity = "odd"
                /\ ParityOf(line.flags) = "mark"
        BY <2>3, FlagsFollow DEF LineInv, LineTypeOK
    <2>5. "CMSPAR" \in line.flags => marked
        BY DEF LineInv, HistoryInv
    <2> QED
        BY <2>2, <2>4, <2>5, RateFollows DEF LineFollows
<1> QED
    BY <1>1, LineStart, LineStep, PTL DEF LineSpec

-----------------------------------------------------------------------------
(* What a configuration keeps of the attributes it finds.                   *)

Found == [speed : Standard, size : Bytesizes \cup {8}, flags : SUBSET Flags]
Asked == [baudrate : Baudrates, bytesize : Bytesizes \cup {8},
          parity : Parities, stopbits : Stopbits, flowcontrol : Flowcontrols]

(* Every bit after a configuration: all but CMSPAR are what was asked for.  *)
Decided(a) ==
    {f \in Flags :
       \/ f = "CSTOPB" /\ a.stopbits # "one"
       \/ f = "PARENB" /\ a.parity # "none"
       \/ f = "PARODD" /\ a.parity \in {"odd", "mark"}
       \/ f = "CMSPAR" /\ a.parity \in {"mark", "space"}
       \/ f \in {"IXON", "IXOFF"} /\ a.flowcontrol = "software"
       \/ f = "CRTSCTS" /\ a.flowcontrol = "hardware"}

LEMMA FlagsDecided ==
    ASSUME NEW l \in Found, NEW a \in Asked
    PROVE  Configured(l, a).flags = Decided(a) \cup (l.flags \cap {"CMSPAR"})
<1> DEFINE gs == Configured(l, a).flags
<1>0. /\ l.flags \subseteq Flags
      /\ a.parity \in Parities
      /\ gs = WithFlow(WithParity(WithStopbits(l.flags, a.stopbits), a.parity),
                       a.flowcontrol)
    BY DEF Found, Asked, Configured
<1>1. gs \subseteq Flags
    BY ConfiguredType DEF Found, Asked
<1>2. "CSTOPB" \in gs <=> a.stopbits # "one"
    BY <1>0 DEF WithFlow, WithParity, WithStopbits, Parities
<1>3. /\ "PARENB" \in gs <=> a.parity # "none"
      /\ "PARODD" \in gs <=> a.parity \in {"odd", "mark"}
      /\ "CMSPAR" \in gs <=>
           a.parity \in {"mark", "space"} \/ "CMSPAR" \in l.flags
    BY <1>0 DEF WithFlow, WithParity, WithStopbits, Parities
<1>4. /\ "IXON" \in gs <=> a.flowcontrol = "software"
      /\ "IXOFF" \in gs <=> a.flowcontrol = "software"
      /\ "CRTSCTS" \in gs <=> a.flowcontrol = "hardware"
    BY <1>0 DEF WithFlow
<1> HIDE DEF gs
<1>5. gs = Decided(a) \cup (l.flags \cap {"CMSPAR"})
    BY <1>0, <1>1, <1>2, <1>3, <1>4 DEF Flags, Decided
<1> QED
    BY <1>5 DEF gs

(* reconfigurePort() makes the same of two terminals exactly if they agree  *)
(* on CMSPAR, or the parity asked for sets it, and on the speed, or the     *)
(* rate asked for has a constant: of what an earlier user or setter of the  *)
(* terminal has left, these two things and nothing else survive.            *)
THEOREM OnlyTwoThingsSurvive ==
    ASSUME NEW l \in Found, NEW m \in Found, NEW a \in Asked
    PROVE  Configured(l, a) = Configured(m, a) <=>
             /\ \/ a.parity \in {"mark", "space"}
                \/ "CMSPAR" \in l.flags <=> "CMSPAR" \in m.flags
             /\ a.baudrate \in Standard \/ l.speed = m.speed
<1>1. Configured(l, a) = Configured(m, a) <=>
        /\ Configured(l, a).speed = Configured(m, a).speed
        /\ Configured(l, a).flags = Configured(m, a).flags
    BY DEF Configured
<1>2. Configured(l, a).speed = Configured(m, a).speed <=>
        a.baudrate \in Standard \/ l.speed = m.speed
    BY DEF Configured
<1>3. Configured(l, a).flags = Configured(m, a).flags <=>
        \/ a.parity \in {"mark", "space"}
        \/ "CMSPAR" \in l.flags <=> "CMSPAR" \in m.flags
    <2>1. ASSUME \/ a.parity \in {"mark", "space"}
                 \/ "CMSPAR" \in l.flags <=> "CMSPAR" \in m.flags
          PROVE  Configured(l, a).flags = Configured(m, a).flags
        <3>1. CASE a.parity \in {"mark", "space"}
            <4>1. "CMSPAR" \in Decided(a)
                BY <3>1 DEF Decided, Flags
            <4>2. \A n \in {l, m} : Configured(n, a).flags =
                                     Decided(a) \cup (n.flags \cap {"CMSPAR"})
                BY FlagsDecided
            <4> QED
                BY <4>1, <4>2
        <3>2. CASE "CMSPAR" \in l.flags <=> "CMSPAR" \in m.flags
            <4>1. l.flags \cap {"CMSPAR"} = m.flags \cap {"CMSPAR"}
                BY <3>2
            <4> QED
                BY <4>1, FlagsDecided
        <3> QED
            BY <2>1, <3>1, <3>2
    <2>2. \A n \in {l, m} :
            "CMSPAR" \in Configured(n, a).flags <=>
              a.parity \in {"mark", "space"} \/ "CMSPAR" \in n.flags
        BY FlagsDecided DEF Flags, Decided
    <2> QED
        BY <2>1, <2>2
<1> QED
    BY <1>1, <1>2, <1>3

(* To configure twice is to configure once, and of two configurations the   *)
(* second decides alone, unless the first set mark or space parity or put   *)
(* the line at a rate that the second, with a custom one, leaves alone.     *)
THEOREM LastSetterDecides ==
    ASSUME NEW l \in Found, NEW a \in Asked, NEW b \in Asked
    PROVE  /\ Configured(Configured(l, a), a) = Configured(l, a)
           /\ a.parity \notin {"mark", "space"} \/ b.parity \in {"mark", "space"} =>
                (b.baudrate \in Standard \/ a.baudrate \in Custom =>
                   Configured(Configured(l, a), b) = Configured(l, b))
<1>1. Configured(l, a) \in Found
    BY ConfiguredType DEF Found, Asked
<1>2. /\ "CMSPAR" \in Configured(l, a).flags <=>
           a.parity \in {"mark", "space"} \/ "CMSPAR" \in l.flags
      /\ Configured(l, a).speed =
           IF a.baudrate \in Standard THEN a.baudrate ELSE l.speed
    <2>1. "CMSPAR" \in Configured(l, a).flags <=>
            a.parity \in {"mark", "space"} \/ "CMSPAR" \in l.flags
        BY FlagsDecided DEF Flags, Decided
    <2> QED
        BY <2>1 DEF Configured
<1>3. \A c \in {a, b} : c.baudrate \in Standard \cup Custom
    BY DEF Asked, Baudrates
<1>4. Configured(Configured(l, a), a) = Configured(l, a)
    BY <1>1, <1>2, OnlyTwoThingsSurvive
<1>5. ASSUME a.parity \notin {"mark", "space"} \/ b.parity \in {"mark", "space"},
             b.baudrate \in Standard \/ a.baudrate \in Custom
      PROVE  Configured(Configured(l, a), b) = Configured(l, b)
    <2>1. b.baudrate \in Standard \/ Configured(l, a).speed = l.speed
        BY <1>2, <1>5, LineAssumption
    <2> QED
        BY <1>1, <1>2, <1>5, <2>1, OnlyTwoThingsSurvive
<1> QED
    BY <1>4, <1>5
================================================================================

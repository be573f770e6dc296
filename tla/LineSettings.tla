------------------------------ MODULE LineSettings ------------------------------
(***************************************************************************)
(* The settings of a serial::Serial on its POSIX port                      *)
(* (src/src/serial/impl/unix.cc).  Each setter stores its value and, if    *)
(* the port is open, reconfigurePort() reads the terminal's attributes,    *)
(* sets and clears bits of them and writes them back: what the line does   *)
(* depends on every bit that was left as it was found, and the divisor of  *)
(* a baud rate without a termios constant is kept apart from them.         *)
(***************************************************************************)
EXTENDS Integers, FiniteSets

CONSTANTS
    Standard,   \* baud rates that termios has a constant for
    Custom,     \* others
    BaudBase,   \* of the UART, what a custom divisor divides
    Bytesizes,  \* of 5 to 8
    Terminals   \* attributes a terminal may have when it is opened

(* The baud rate at which Linux uses the custom divisor.                   *)
SpdBaud == 38400

Baudrates    == Standard \cup Custom
Parities     == {"none", "odd", "even", "mark", "space"}
Stopbits     == {"one", "two", "one_point_five"}
Flowcontrols == {"none", "software", "hardware"}
Flags == {"CSTOPB", "PARENB", "PARODD", "CMSPAR", "IXON", "IXOFF", "CRTSCTS"}

Attributes == [speed : Standard, size : Bytesizes, flags : SUBSET Flags]

ASSUME LineAssumption ==
    /\ SpdBaud \in Standard /\ Standard \subseteq Nat \ {0}
    /\ Custom \subseteq Nat \ {0} /\ Standard \cap Custom = {}
    /\ BaudBase \in Nat /\ \A b \in Custom : b <= BaudBase
    /\ Bytesizes \subseteq 5 .. 8
    /\ Terminals \subseteq Attributes

VARIABLES
    isOpen,     \* is_open_
    asked,      \* baudrate_, bytesize_, parity_, stopbits_, flowcontrol_
    line,       \* the attributes of the terminal
    divisor,    \* its custom divisor, 0 without ASYNC_SPD_CUST
    upToDate,   \* the last call of reconfigurePort has done all it should
    marked,     \* since the terminal was opened: it was found with mark or
                \* space parity, or was set to it,
    customed    \* and likewise with a custom baud rate; nothing reads these

settings == <<isOpen, asked, line, divisor, upToDate, marked, customed>>

(* A Serial on no port, with the default settings.                         *)
LineInit ==
    /\ isOpen = FALSE
    /\ asked \in [baudrate : Baudrates, bytesize : {8}, parity : {"none"},
                  stopbits : {"one"}, flowcontrol : {"none"}]
    /\ line \in Terminals /\ divisor = 0
    /\ upToDate = FALSE
    /\ marked = FALSE /\ customed = FALSE

-----------------------------------------------------------------------------
(* What the terminal makes of its attributes.                              *)

LineRate == IF line.speed = SpdBaud /\ divisor # 0
            THEN BaudBase \div divisor ELSE line.speed

ParityOf(fs) ==
    CASE "PARENB" \notin fs -> "none"
      [] fs \cap {"PARENB", "CMSPAR", "PARODD"} = {"PARENB"} -> "even"
      [] fs \cap {"PARENB", "CMSPAR", "PARODD"} = {"PARENB", "PARODD"} -> "odd"
      [] {"PARENB", "CMSPAR", "PARODD"} \subseteq fs -> "mark"
      [] OTHER -> "space"

FlowOf(fs) ==
    CASE "CRTSCTS" \in fs /\ fs \cap {"IXON", "IXOFF"} = {} -> "hardware"
      [] "CRTSCTS" \notin fs /\ {"IXON", "IXOFF"} \subseteq fs -> "software"
      [] fs \cap {"CRTSCTS", "IXON", "IXOFF"} = {} -> "none"
      [] OTHER -> "mixed"

-----------------------------------------------------------------------------
(* The bits that reconfigurePort sets and clears, one operator for each of *)
(* its paragraphs.                                                         *)

WithStopbits(fs, s) == IF s = "one" THEN fs \ {"CSTOPB"} ELSE fs \cup {"CSTOPB"}

(* none, even and odd leave CMSPAR as it is; the slip forgets PARODD.        *)
WithParityKept(fs, p) ==
    CASE p = "none"  -> fs \ {"PARENB"}
      [] p = "even"  -> fs \cup {"PARENB"}
      [] p = "odd"   -> fs \cup {"PARENB", "PARODD"}
      [] p = "mark"  -> fs \cup {"PARENB", "CMSPAR", "PARODD"}
      [] p = "space" -> fs \cup {"PARENB", "CMSPAR"}
WithParity(fs, p) ==
    CASE p = "none"  -> fs \ {"PARENB", "PARODD"}
      [] p = "even"  -> (fs \ {"PARODD"}) \cup {"PARENB"}
      [] p = "odd"   -> fs \cup {"PARENB", "PARODD"}
      [] p = "mark"  -> fs \cup {"PARENB", "CMSPAR", "PARODD"}
      [] p = "space" -> (fs \cup {"PARENB", "CMSPAR"}) \ {"PARODD"}

WithFlow(fs, f) ==
    LET x == IF f = "software" THEN fs \cup {"IXON", "IXOFF"}
             ELSE fs \ {"IXON", "IXOFF"}
    IN IF f = "hardware" THEN x \cup {"CRTSCTS"} ELSE x \ {"CRTSCTS"}

Configured(l, a) ==
    [speed |-> IF a.baudrate \in Standard THEN a.baudrate ELSE l.speed,
     size  |-> a.bytesize,
     flags |-> WithFlow(WithParity(WithStopbits(l.flags, a.stopbits), a.parity),
                        a.flowcontrol)]

(* What a divisor becomes, if it is set.                                   *)
Divided(a, d) == IF a.baudrate \in Custom THEN BaudBase \div a.baudrate ELSE d

(* reconfigurePort() on the settings a and attributes l: an ioctl fails,   *)
(* it throws and has done nothing else; or it does everything, but         *)
(* tcsetattr, whose result is not looked at, may have failed.              *)
Thrown(l, d) ==
    /\ upToDate' = FALSE
    /\ line' = l
    /\ divisor' = d
Done(a, l, d) ==
    /\ upToDate' \in BOOLEAN
    /\ line' = IF upToDate' THEN Configured(l, a) ELSE l
    /\ divisor' = Divided(a, d)

Remember(m, c) ==
    /\ marked' = (m \/ "CMSPAR" \in line'.flags)
    /\ customed' = (c \/ divisor' # 0)

(* open(): the terminal has the attributes that whoever used it last has   *)
(* left.                                                                   *)
OpenLine ==
    /\ ~isOpen
    /\ \E l \in Terminals \cup {line} :
         /\ \/ Thrown(l, divisor) /\ UNCHANGED isOpen
            \/ Done(asked, l, divisor) /\ isOpen' = TRUE
         /\ Remember("CMSPAR" \in l.flags, divisor # 0)
    /\ UNCHANGED asked

CloseLine ==
    /\ isOpen
    /\ isOpen' = FALSE
    /\ UNCHANGED <<asked, line, divisor, upToDate, marked, customed>>

(* setBaudrate, setBytesize, setParity, setStopbits and setFlowcontrol.    *)
SetLine(a) ==
    /\ asked' = a
    /\ \/ /\ isOpen
          /\ Thrown(line, divisor) \/ Done(a, line, divisor)
          /\ Remember(marked, customed)
       \/ ~isOpen /\ UNCHANGED <<line, divisor, upToDate, marked, customed>>
    /\ UNCHANGED isOpen

LineNext ==
    \/ OpenLine \/ CloseLine
    \/ \E b \in Baudrates : SetLine([asked EXCEPT !.baudrate = b])
    \/ \E b \in Bytesizes : SetLine([asked EXCEPT !.bytesize = b])
    \/ \E p \in Parities : SetLine([asked EXCEPT !.parity = p])
    \/ \E s \in Stopbits : SetLine([asked EXCEPT !.stopbits = s])
    \/ \E f \in Flowcontrols : SetLine([asked EXCEPT !.flowcontrol = f])

LineSpec == LineInit /\ [][LineNext]_settings

-----------------------------------------------------------------------------
(* Properties.                                                             *)

(* After a setter of an open port, or open(), has done its work the line   *)
(* has the settings that were asked for, in whatever order they were set   *)
(* and whatever the terminal was like before.  The exceptions: a stop bit  *)
(* and a half is two; CMSPAR, once set, turns even into space and odd into *)
(* mark parity; after a custom baud rate 38400 is taken for that rate; and *)
(* a custom rate does not reach the line at all unless it was at 38400.    *)
LineFollows ==
    isOpen /\ upToDate =>
        /\ line.size = asked.bytesize
        /\ "CSTOPB" \in line.flags <=> asked.stopbits # "one"
        /\ FlowOf(line.flags) = asked.flowcontrol
        /\ \/ ParityOf(line.flags) = asked.parity
           \/ marked /\ asked.parity = "even" /\ ParityOf(line.flags) = "space"
           \/ marked /\ asked.parity = "odd" /\ ParityOf(line.flags) = "mark"
        /\ \/ LineRate = asked.baudrate
           \/ customed /\ asked.baudrate = SpdBaud
           \/ asked.baudrate \in Custom /\ line.speed # SpdBaud
           \/ asked.baudrate \in Custom /\ LineRate = BaudBase \div (BaudBase \div asked.baudrate)
===============================================================================

--------------------------------- MODULE MCHost ---------------------------------
(* The parts of the library that share nothing with each other, each on    *)
(* its own: part says which of them a behaviour is about, and the others   *)
(* stay as they are.                                                       *)
EXTENDS TimerLoop, WinPort, LineSettings, TextHelpers

VARIABLES
    part,       \* "timer", "ports", "line" or "text"
    text        \* what the helpers are given

(* Two devices of one vendor and one without a USB id.                     *)
SomeDevices == [arm   |-> ArmId,
                board |-> [vid |-> "2341", pid |-> "0043"],
                modem |-> NULL]

(* A terminal as it comes, and one another program has used.               *)
SomeTerminals ==
    {[speed |-> 9600, size |-> 8, flags |-> {}],
     [speed |-> 38400, size |-> 7,
      flags |-> {"PARENB", "PARODD", "IXON", "IXOFF"}]}

(* Texts of up to five characters: one to strip, one to split at.          *)
Texts == UNION {[1 .. n -> {"a", " ", "n"}] : n \in 0 .. 5}

Init ==
    /\ part \in {"timer", "ports", "line", "text"}
    /\ TimerInit
    /\ WinInit /\ (part # "ports" =>
         /\ platform = "osx" /\ place = [n \in Names |-> NULL]
         /\ handle = [h \in Handles |-> "closed"])
    /\ LineInit /\ (part # "line" =>
         asked.baudrate = SpdBaud /\ line.speed = SpdBaud)
    /\ text \in Texts /\ (part # "text" => text = <<>>)

Next ==
    \/ part = "timer" /\ TimerNext /\ UNCHANGED <<ports, settings>>
    \/ part = "ports" /\ WinNext   /\ UNCHANGED <<timer, settings>>
    \/ part = "line"  /\ LineNext  /\ UNCHANGED <<timer, ports>>

Spec == Init /\ [][Next /\ UNCHANGED <<part, text>>]_<<part, text, timer, ports, settings>>

StripKeeps == StripOf(text, {" ", "n"})
SplitJoins == SplitOf(text, " ")
===============================================================================

------------------------------ MODULE LinePromise ------------------------------
(***************************************************************************)
(* What serial::Serial promises to those who read lines and write commands,*)
(* without locks, descriptors and system calls: one thread reads a line    *)
(* and one writes a command at a time, each writer once, and the device is *)
(* never opened again between two bytes of a line or of a command.         *)
(* SerialPort implements it.                                               *)
(***************************************************************************)
EXTENDS Naturals, Sequences

CONSTANTS
    Readers,    \* threads that read lines
    Writers,    \* threads that write one command each
    NULL

VARIABLES
    listener,   \* the reader whose line is under way, or NULL
    speaker,    \* the writer whose command is under way, or NULL
    begun,      \* of these two, who has moved bytes of the device
    over,       \* the writers whose call is over
    wire,       \* who has written each piece that the device was sent
    opens       \* how often the device has been opened

talk == <<listener, speaker, begun, over, wire, opens>>

Init ==
    /\ listener = NULL /\ speaker = NULL
    /\ begun = {} /\ over = {}
    /\ wire = <<>> /\ opens = 0

(* The device is opened where no line and no command has begun.            *)
Open ==
    /\ begun = {}
    /\ opens' = opens + 1
    /\ UNCHANGED <<listener, speaker, begun, over, wire>>

Listen(r) ==
    /\ listener = NULL
    /\ listener' = r
    /\ UNCHANGED <<speaker, begun, over, wire, opens>>

Hear(r) ==
    /\ listener = r /\ opens # 0
    /\ begun' = begun \cup {r}
    /\ UNCHANGED <<listener, speaker, over, wire, opens>>

(* The line ends, complete or not.                                         *)
EndLine(r) ==
    /\ listener = r
    /\ listener' = NULL
    /\ begun' = begun \ {r}
    /\ UNCHANGED <<speaker, over, wire, opens>>

Speak(w) ==
    /\ speaker = NULL /\ w \notin over
    /\ speaker' = w
    /\ UNCHANGED <<listener, begun, over, wire, opens>>

Say(w) ==
    /\ speaker = w /\ opens # 0
    /\ wire' = Append(wire, w)
    /\ begun' = begun \cup {w}
    /\ UNCHANGED <<listener, speaker, over, opens>>

(* The command ends, with its last piece or without.                       *)
EndCommand(w) ==
    /\ speaker = w
    /\ speaker' = NULL /\ over' = over \cup {w}
    /\ begun' = begun \ {w}
    /\ UNCHANGED wire \/ (opens # 0 /\ wire' = Append(wire, w))
    /\ UNCHANGED <<listener, opens>>

Next ==
    \/ Open
    \/ \E r \in Readers : Listen(r) \/ Hear(r) \/ EndLine(r)
    \/ \E w \in Writers : Speak(w) \/ Say(w) \/ EndCommand(w)

Spec == Init /\ [][Next]_talk
===============================================================================

------------------------------- MODULE PortChoice -------------------------------
(***************************************************************************)
(* Which port uarm::Swift::connect opens (src/src/uarm.cc): the one it is  *)
(* given, the one it remembers, or else the first of list_ports() whose    *)
(* hardware id holds "VID_" and names the USB device 2341:0042.  There is  *)
(* a list_ports for each platform (src/src/serial/impl/list_ports).        *)
(***************************************************************************)
CONSTANTS
    Names,      \* names of ports
    Devices,    \* what may be plugged in, with the USB id of each
    Platforms,  \* of {"windows", "linux", "osx"}
    NULL        \* nothing is plugged in, no USB id

ArmId == [vid |-> "2341", pid |-> "0042"]

ASSUME ChoiceAssumption ==
    /\ Platforms \subseteq {"windows", "linux", "osx"}
    /\ "" \notin Names
    /\ NULL \notin DOMAIN Devices

VARIABLES
    platform,
    kind,       \* the kind of each port, which its name tells
    place,      \* what is plugged into each port
    port,       \* Swift::port
    scanned,    \* it was found by a scan; nothing reads it
    moved       \* and what is plugged in there has changed since

choice == <<platform, kind, place, port, scanned, moved>>

KindsOf(p) ==
    CASE p = "windows" -> {"COM", "LPT"}
      [] p = "linux"   -> {"ttyACM", "ttyUSB", "ttyS"}
      [] p = "osx"     -> {"cu"}

ChoiceInit ==
    /\ platform \in Platforms
    /\ kind \in [Names -> KindsOf(platform)]
    /\ place \in [Names -> DOMAIN Devices \cup {NULL}]
    /\ port = ""
    /\ scanned = FALSE /\ moved = FALSE

(* The hardware id of an entry of the list: which USB id it gives, and how *)
(* it writes it.  Windows has it in the registry.  Linux reads it from     *)
(* sysfs, one directory up for an ACM port, two for a USB port; another    *)
(* port has the id of a PCI card or none.  OS X asks the parent device.    *)
NoId == [form |-> "n/a", id |-> NULL]
registry_id(usb) == [form |-> "VID_", id |-> usb]
usb_sysfs_hw_string(usb) == [form |-> "VID:PID=", id |-> usb]
get_sysfs_info(n, usb) ==
    IF kind[n] \in {"ttyACM", "ttyUSB"} THEN usb_sysfs_hw_string(usb) ELSE NoId
parent_iousb_id(usb) == [form |-> "VID:PID=", id |-> usb]

hardware_id(n) ==
    LET usb == Devices[place[n]]
    IN IF usb = NULL THEN NoId
       ELSE CASE platform = "windows" -> registry_id(usb)
              [] platform = "linux"   -> get_sysfs_info(n, usb)
              [] platform = "osx"     -> parent_iousb_id(usb)

(* Parallel ports are passed over, absent devices are not in the list.     *)
list_ports == {n \in Names : place[n] # NULL /\ kind[n] # "LPT"}

(* The test of the scan, and a slip that looks at the vendor alone.        *)
IsVendor(id) == id.form = "VID_" /\ id.id.vid = ArmId.vid
IsArm(id)    == id.form = "VID_" /\ id.id = ArmId

Found == {n \in list_ports : IsArm(hardware_id(n))}

(* connect(_port): the list comes in the order of the system, so that any  *)
(* of two arms may be the first.                                           *)
Choose(_port) ==
    LET known == IF _port # "" THEN _port ELSE port
        scan  == known = "" /\ Found # {}
    IN /\ port' \in IF scan THEN Found ELSE {known}
       /\ scanned' = (scan \/ (scanned /\ known = port))
       /\ moved' = (moved /\ known = port)
       /\ UNCHANGED <<platform, kind, place>>

(* Somebody plugs a device in, or pulls it out.                            *)
Plug(n, d) ==
    /\ place[n] # d
    /\ place' = [place EXCEPT ![n] = d]
    /\ moved' = (moved \/ n = port)
    /\ UNCHANGED <<platform, kind, port, scanned>>

(* A port that connect() found by itself is one an arm was plugged into at *)
(* that time; it is still there unless devices have been moved, for the    *)
(* object never looks again.  Only on Windows is a port ever found, since  *)
(* the other two write "VID:PID=" where the scan looks for "VID_".         *)
FoundIsArm ==
    scanned =>
        /\ platform = "windows"
        /\ port \in Names /\ kind[port] # "LPT"
        /\ ~moved => place[port] # NULL /\ Devices[place[port]] = ArmId
===============================================================================

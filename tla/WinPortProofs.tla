----------------------------- MODULE WinPortProofs -----------------------------
(* Theorems about WinPort for any ports, devices and handles.               *)
EXTENDS WinPort, TLAPS

WinTypeOK ==
    /\ platform \in Platforms
    /\ place \in [Names -> DOMAIN Devices \cup {NULL}]
    /\ port \in Names \cup {""} /\ port_ \in Names \cup {""}
    /\ fd_ \in Handles \cup {NULL}
    /\ handle \in [Handles -> Names \cup {"closed", "other"}]
    /\ is_open_ \in BOOLEAN /\ wasOpen \in BOOLEAN /\ rejected \in BOOLEAN
    /\ at \in {"entry", "configure", "fd_", "is_open_"}
    /\ call \in [Callers -> {"none", "available", "read", "write"}]
    /\ arg \in [Callers -> Handles \cup {NULL, "unread"}]
    /\ under \in [Callers -> {"none", "disconnect", "connect"}]

(* Where a call stands: on which platform, whether the port is open and was *)
(* open when it began, from when on it has its new name, and what it has    *)
(* opened or closed in the middle of open() and close().                    *)
CallInv ==
    /\ doing \in {"idle", "lock", "close", "setPort", "open", "setBaudrate",
                  "setTimeout", "try open", "disconnect"}
    /\ platform # "windows" => doing = "idle" /\ ~is_open_ /\ result = "-1"
    /\ doing # "idle" /\ is_open_ => wasOpen
    /\ InClose => is_open_
    /\ doing \in {"setPort", "open"} => ~is_open_
    /\ doing = "open" => wasOpen
    /\ doing \in {"open", "setBaudrate", "setTimeout", "try open"} => port_ = port
    /\ at \in {"fd_", "is_open_"} => InClose
    /\ at = "fd_" => fd_ \in Handles /\ handle[fd_] \notin Names
    /\ at = "is_open_" => fd_ = NULL
    /\ at = "configure" => /\ InOpen /\ ~is_open_
                           /\ fd_ \in Handles /\ port_ \in Names
                           /\ handle[fd_] = port_
    /\ is_open_ /\ ~Closing => fd_ \in Handles
    /\ rejected => is_open_

(* The handle of an open port whose settings were not rejected is open on   *)
(* it.                                                                      *)
OwnHandle == is_open_ /\ ~rejected /\ ~Closing => fd_ # NULL /\ handle[fd_] = port_

(* A call under which nobody has closed the port is on the handle in fd_.   *)
SoundInv ==
    \A u \in Callers :
        /\ arg[u] # "unread" => call[u] # "none"
        /\ call[u] # "none" /\ under[u] = "none" =>
                is_open_ /\ ~Closing /\ arg[u] \in {"unread", fd_}

(* The locks of setPort keep read and write away while it closes the port.  *)
LockInv ==
    \A u \in Callers :
        /\ Locked => call[u] \in {"none", "available"}
        /\ under[u] = "connect" => call[u] = "available"

(* The properties are inductive together with these.                        *)
WinInv ==
    /\ WinTypeOK /\ CallInv /\ SoundInv /\ LockInv
    /\ FoundIsArm /\ HandlesAccounted /\ StrayExplained /\ ConnectOutcome

LEMMA WinStart == WinInit => WinInv
<1> SUFFICES ASSUME WinInit PROVE WinInv
    OBVIOUS
<1>1. WinTypeOK
    BY DEF WinInit, ChoiceInit, WinTypeOK
<1>2. CallInv /\ FoundIsArm /\ ConnectOutcome
    BY DEF WinInit, ChoiceInit, CallInv, FoundIsArm, ConnectOutcome, InClose
<1>3. SoundInv /\ LockInv
    BY DEF WinInit, SoundInv, LockInv, Locked
<1>4. HandlesAccounted
    BY WinAssumption DEF WinInit, HandlesAccounted
<1>5. StrayExplained
    BY WinAssumption DEF WinInit, StrayExplained
<1> QED
    BY <1>1, <1>2, <1>3, <1>4, <1>5 DEF WinInv

(* A port is found by its hardware id only on Windows, and then it is that  *)
(* of the arm.                                                              *)
LEMMA FoundHasArm ==
    ASSUME platform \in Platforms, NEW n \in Found
    PROVE  /\ platform = "windows"
           /\ n \in Names /\ kind[n] # "LPT"
           /\ place[n] # NULL /\ Devices[place[n]] = ArmId
<1> DEFINE usb == Devices[place[n]]
<1>1. n \in Names /\ place[n] # NULL /\ kind[n] # "LPT"
    BY DEF Found, list_ports
<1>2. hardware_id(n).form = "VID_" /\ hardware_id(n).id = ArmId
    BY DEF Found, IsArm
<1>3. usb # NULL
    BY <1>2 DEF hardware_id, NoId
<1>4. platform = "windows"
    <2>1. platform = "linux" => hardware_id(n).form # "VID_"
        BY <1>3 DEF hardware_id, get_sysfs_info, NoId, usb_sysfs_hw_string
    <2>2. platform = "osx" => hardware_id(n).form # "VID_"
        BY <1>3 DEF hardware_id, parent_iousb_id
    <2> QED
        BY <1>2, <2>1, <2>2, ChoiceAssumption
<1>5. hardware_id(n).id = usb
    BY <1>3, <1>4 DEF hardware_id, registry_id
<1> QED
    BY <1>1, <1>2, <1>4, <1>5

(* Choosing a port and moving devices keep FoundIsArm.                      *)
LEMMA ChooseFinds ==
    ASSUME platform \in Platforms, FoundIsArm, NEW p \in Names \cup {""}, port \in Names \cup {""},
           Choose(p)
    PROVE  FoundIsArm' /\ port' \in Names \cup {""} /\ UNCHANGED platform
<1> DEFINE known == IF p # "" THEN p ELSE port
<1>1. CASE known = "" /\ Found # {}
    <2>1. port' \in Found /\ UNCHANGED <<platform, kind, place>>
        BY <1>1 DEF Choose
    <2> QED
        BY <2>1, FoundHasArm DEF FoundIsArm
<1>2. CASE ~(known = "" /\ Found # {})
    <2>1. port' = known /\ UNCHANGED <<platform, kind, place>>
        BY <1>2 DEF Choose
    <2>2. /\ scanned' => scanned /\ known = port
          /\ moved' = (moved /\ known = port)
        BY <1>2 DEF Choose
    <2> QED
        BY <2>1, <2>2 DEF FoundIsArm
<1> QED
    BY <1>1, <1>2

LEMMA ChoiceStep ==
    ASSUME WinInv, [WinNext]_ports
    PROVE  /\ FoundIsArm'
           /\ UNCHANGED platform
           /\ place' \in [Names -> DOMAIN Devices \cup {NULL}]
           /\ port' \in Names \cup {""}
<1>1. ASSUME NEW p \in Names \cup {""}, Choose(p)
      PROVE  /\ FoundIsArm' /\ UNCHANGED <<platform, place>>
             /\ port' \in Names \cup {""}
    BY <1>1, ChooseFinds DEF WinInv, WinTypeOK, Choose
<1>2. ASSUME NEW n \in Names, NEW d \in DOMAIN Devices \cup {NULL}, Devise(n, d)
      PROVE  /\ FoundIsArm' /\ UNCHANGED <<platform, port>>
             /\ place' \in [Names -> DOMAIN Devices \cup {NULL}]
    BY <1>2 DEF Devise, Plug, WinInv, WinTypeOK, FoundIsArm
<1>3. CASE UNCHANGED choice
    BY <1>3 DEF choice, WinInv, WinTypeOK, FoundIsArm
<1> QED
    BY <1>1, <1>2, <1>3
    DEF WinNext, ports, Connect, Lock, ConnectElsewhere, Disconnect, SetPort,
        CloseHandle, CloseFd, CloseFlag, Configure, Open, ConfigureNew,
        Begin, Load, SystemCall, Other, WinInv, WinTypeOK

-----------------------------------------------------------------------------
(* Every step keeps what is known of the port and of connect().             *)
PortTypeOK ==
    /\ port_ \in Names \cup {""} /\ fd_ \in Handles \cup {NULL}
    /\ handle \in [Handles -> Names \cup {"closed", "other"}]
    /\ is_open_ \in BOOLEAN /\ wasOpen \in BOOLEAN /\ rejected \in BOOLEAN
    /\ at \in {"entry", "configure", "fd_", "is_open_"}

MemberInv == PortTypeOK /\ CallInv /\ HandlesAccounted /\ OwnHandle /\ ConnectOutcome

LEMMA MemberStep ==
    ASSUME WinInv, [WinNext]_ports
    PROVE  MemberInv'
<1>0. MemberInv
    BY DEF WinInv, WinTypeOK, PortTypeOK, MemberInv, StrayExplained, OwnHandle
<1>00. UNCHANGED platform /\ port' \in Names \cup {""}
    BY ChoiceStep
<1> USE WinAssumption DEF PortTypeOK, CallInv, HandlesAccounted, OwnHandle,
        ConnectOutcome, MemberInv, InClose, Closing, InOpen
<1>1. ASSUME NEW p \in Names \cup {""}, Connect(p) PROVE MemberInv'
    BY <1>0, <1>00, <1>1 DEF Connect, member, ghosts
<1>2. ASSUME NEW p \in Names \cup {""}, ConnectElsewhere(p) PROVE MemberInv'
    BY <1>0, <1>00, <1>2 DEF ConnectElsewhere, win, control, member, ghosts
<1>3. CASE Lock
    BY <1>0, <1>3 DEF Lock, choice, member, ghosts
<1>4. CASE Disconnect
    BY <1>0, <1>4 DEF Disconnect, choice, member, ghosts
<1>5. CASE SetPort
    BY <1>0, <1>00, <1>5 DEF SetPort, NewName, Returns, After, choice, ghosts
<1>6. CASE CloseHandle
    <2>0. /\ InClose /\ at = "entry" /\ is_open_ /\ fd_ \in Handles
          /\ UNCHANGED <<choice, wasOpen, member, ghosts>>
        BY <1>0, <1>6 DEF CloseHandle
    <2>1. CASE handle' = [handle EXCEPT ![fd_] = "closed"] /\ at' = "fd_"
               /\ UNCHANGED <<doing, result>>
        BY <1>0, <2>0, <2>1 DEF choice, member, ghosts
    <2>2. CASE ~Live(fd_) /\ Throws("exception") /\ UNCHANGED <<at, handle>>
        BY <1>0, <2>0, <2>2 DEF Throws, choice, member, ghosts
    <2> QED
        BY <1>6, <2>1, <2>2 DEF CloseHandle
<1>7. CASE CloseFd
    BY <1>0, <1>7 DEF CloseFd, choice, ghosts
<1>8. CASE CloseFlag
    BY <1>0, <1>8 DEF CloseFlag, Returns, After, choice
<1>9. CASE Configure
    <2>0. /\ doing \in {"setBaudrate", "setTimeout"}
          /\ UNCHANGED <<choice, at, member, wasOpen, lost>>
        BY <1>9 DEF Configure
    <2>1. CASE ~is_open_ /\ Returns /\ UNCHANGED <<handle, rejected>>
        BY <1>0, <2>0, <2>1 DEF Returns, After, choice, member
    <2>2. ASSUME is_open_, fd_ # NULL, NEW o \in Outcomes(fd_),
                 IF o = "done" THEN Returns ELSE Throws("exception"),
                 handle' = IF o = "rejected"
                           THEN [handle EXCEPT ![fd_] = "closed"] ELSE handle,
                 rejected' = (rejected \/ o = "rejected")
          PROVE  MemberInv'
        <3>1. CASE o = "rejected"
            BY <1>0, <2>0, <2>2, <3>1 DEF Throws, choice, member
        <3>2. CASE o = "done"
            BY <1>0, <2>0, <2>2, <3>2 DEF Returns, After, choice, member
        <3>3. CASE o \notin {"done", "rejected"}
            BY <1>0, <2>0, <2>2, <3>3 DEF Throws, choice, member
        <3> QED
            BY <3>1, <3>2, <3>3
    <2> QED
        BY <1>9, <2>1, <2>2 DEF Configure
<1>10. CASE Open
    <2>0. /\ InOpen /\ at = "entry"
          /\ UNCHANGED <<choice, wasOpen, port_, is_open_, ghosts>>
        BY <1>10 DEF Open
    <2>1. CASE is_open_
        <3>1. doing = "try open" /\ Throws("-1") /\ UNCHANGED <<at, fd_, handle>>
            BY <1>0, <1>10, <2>1 DEF Open, IsOpen, Failure
        <3> QED
            BY <1>0, <2>0, <3>1 DEF Throws, choice, ghosts
    <2>2. ASSUME ~is_open_, port_ # "", MayOpen(port_),
                 NEW h \in Handles, handle[h] = "closed",
                 handle' = [handle EXCEPT ![h] = port_], fd_' = h,
                 at' = "configure", UNCHANGED <<doing, result>>
          PROVE  MemberInv'
        BY <1>0, <2>0, <2>2 DEF MayOpen, choice, ghosts
    <2>3. CASE ~is_open_ /\ fd_' \in {fd_, NULL} /\ Throws(Failure)
               /\ UNCHANGED <<at, handle>>
        BY <1>0, <2>0, <2>3 DEF Throws, Failure, choice, ghosts
    <2> QED
        BY <1>0, <1>10, <2>1, <2>2, <2>3 DEF Open, IsOpen, CreateFile
<1>11. CASE ConfigureNew
    <2>0. /\ InOpen /\ at = "configure" /\ at' = "entry"
          /\ ~is_open_ /\ fd_ \in Handles /\ handle[fd_] = port_ /\ port_ \in Names
          /\ UNCHANGED <<choice, wasOpen, port_, fd_, rejected>>
        BY <1>0, <1>11 DEF ConfigureNew
    <2>1. PICK o \in {"done", "no state", "rejected", "no timeouts"} :
             /\ handle' = IF o = "rejected"
                          THEN [handle EXCEPT ![fd_] = "closed"] ELSE handle
             /\ is_open_' = (o = "done")
             /\ lost' = IF o \in {"no state", "no timeouts"} THEN lost \cup {fd_}
                        ELSE lost
             /\ IF o = "done" THEN Returns ELSE Throws(Failure)
        BY <1>11, <2>0 DEF ConfigureNew, Outcomes
    <2>2. CASE o = "done"
        BY <1>0, <2>0, <2>1, <2>2 DEF Returns, After, choice
    <2>3. CASE o = "rejected"
        BY <1>0, <2>0, <2>1, <2>3 DEF Throws, Failure, choice
    <2>4. CASE o \in {"no state", "no timeouts"}
        BY <1>0, <2>0, <2>1, <2>4 DEF Throws, Failure, choice
    <2> QED
        BY <2>1, <2>2, <2>3, <2>4
<1>12. ASSUME NEW u \in Callers,
              (\E f \in {"available", "read", "write"} : Begin(u, f))
                  \/ Load(u) \/ SystemCall(u)
       PROVE  MemberInv'
    <2>1. UNCHANGED <<choice, control, member, handle, ghosts>>
        BY <1>12 DEF Begin, Load, SystemCall
    <2> QED
        BY <1>0, <2>1 DEF choice, control, member, ghosts
<1>13. ASSUME NEW h \in Handles, Other(h) PROVE MemberInv'
    <2>1. /\ handle[h] \notin Names /\ handle[h] \in {"closed", "other"}
          /\ \E s \in {"closed", "other"} : handle' = [handle EXCEPT ![h] = s]
          /\ UNCHANGED <<choice, control, member, ghosts>>
        BY <1>13 DEF Other
    <2>2. PICK s \in {"closed", "other"} : handle' = [handle EXCEPT ![h] = s]
        BY <2>1
    <2>3. \A g \in Handles : handle'[g] # handle[g] => handle[g] \notin Names
                                                   /\ handle'[g] \notin Names
        BY <1>0, <2>1, <2>2
    <2>4. PortTypeOK' /\ HandlesAccounted'
        BY <1>0, <2>1, <2>2, <2>3 DEF choice, control, member, ghosts
    <2>5. CallInv' /\ OwnHandle' /\ ConnectOutcome'
        BY <1>0, <1>00, <2>1, <2>2, <2>3 DEF choice, control, member, ghosts
    <2> QED
        BY <2>4, <2>5
<1>14. ASSUME NEW n \in Names, NEW d \in DOMAIN Devices \cup {NULL}, Devise(n, d)
       PROVE  MemberInv'
    BY <1>0, <1>00, <1>14 DEF Devise, Plug, win, control, member, ghosts
<1>15. CASE UNCHANGED ports
    BY <1>0, <1>15 DEF ports, choice, win, control, member, ghosts
<1> QED
    BY <1>1, <1>2, <1>3, <1>4, <1>5, <1>6, <1>7, <1>8, <1>9, <1>10, <1>11, <1>12,
       <1>13, <1>14, <1>15
    DEF WinNext

(* Every step keeps what is known of the callers: a step of connect or      *)
(* disconnect leaves their calls alone, and changes fd_ and is_open_ only   *)
(* after the CloseHandle that marks the calls it has cut.                   *)
CallerTypeOK ==
    /\ call \in [Callers -> {"none", "available", "read", "write"}]
    /\ arg \in [Callers -> Handles \cup {NULL, "unread"}]
    /\ under \in [Callers -> {"none", "disconnect", "connect"}]

CallerInv == CallerTypeOK /\ SoundInv /\ LockInv

LEMMA CallerStep ==
    ASSUME WinInv, [WinNext]_ports
    PROVE  CallerInv'
<1>0. CallerInv /\ CallInv /\ fd_ \in Handles \cup {NULL}
    BY DEF WinInv, WinTypeOK, CallerTypeOK, CallerInv
<1> USE DEF CallerTypeOK, SoundInv, LockInv, CallerInv, CallInv, Locked, InClose,
        Closing, InOpen
<1>1. ASSUME NEW p \in Names \cup {""}, Connect(p) PROVE CallerInv'
    BY <1>0, <1>1 DEF Connect, member, callers
<1>2. ASSUME NEW p \in Names \cup {""}, ConnectElsewhere(p) PROVE CallerInv'
    BY <1>0, <1>2 DEF ConnectElsewhere, win, control, member, callers
<1>3. CASE Lock
    BY <1>0, <1>3 DEF Lock, member, callers
<1>4. CASE Disconnect
    BY <1>0, <1>4 DEF Disconnect, member, callers
<1>5. CASE SetPort
    BY <1>0, <1>5 DEF SetPort, Returns, After, callers
<1>6. CASE CloseHandle
    <2>1. CASE Throws("exception") /\ UNCHANGED <<at, under>>
        BY <1>0, <1>6, <2>1 DEF CloseHandle, Throws, member
    <2>2. CASE /\ under' = [u \in Callers |->
                               IF call[u] # "none" /\ under[u] = "none"
                               THEN Closer ELSE under[u]]
               /\ at' = "fd_" /\ UNCHANGED doing
        BY <1>0, <1>6, <2>2 DEF CloseHandle, Closer, member
    <2> QED
        BY <1>6, <2>1, <2>2 DEF CloseHandle
<1>7. CASE CloseFd
    BY <1>0, <1>7 DEF CloseFd, callers
<1>8. CASE CloseFlag
    BY <1>0, <1>8 DEF CloseFlag, Returns, After, callers
<1>9. CASE Configure
    BY <1>0, <1>9 DEF Configure, Returns, After, Throws, member, callers
<1>10. CASE Open
    BY <1>0, <1>10 DEF Open, IsOpen, CreateFile, Throws, callers
<1>11. CASE ConfigureNew
    BY <1>0, <1>11 DEF ConfigureNew, Returns, After, Throws, callers
<1>12. ASSUME NEW u \in Callers, NEW f \in {"available", "read", "write"},
              Begin(u, f)
       PROVE  CallerInv'
    BY <1>0, <1>12 DEF Begin, Closer, control, member
<1>13. ASSUME NEW u \in Callers, Load(u) PROVE CallerInv'
    BY <1>0, <1>13 DEF Load, control, member
<1>14. ASSUME NEW u \in Callers, SystemCall(u) PROVE CallerInv'
    BY <1>0, <1>14 DEF SystemCall, control, member
<1>15. ASSUME NEW h \in Handles, Other(h) PROVE CallerInv'
    BY <1>0, <1>15 DEF Other, control, member, callers
<1>16. ASSUME NEW n \in Names, NEW d \in DOMAIN Devices \cup {NULL}, Devise(n, d)
       PROVE  CallerInv'
    BY <1>0, <1>16 DEF Devise, win, control, member, callers
<1>17. CASE UNCHANGED ports
    BY <1>0, <1>17 DEF ports, win, control, member, callers
<1> QED
    BY <1>1, <1>2, <1>3, <1>4, <1>5, <1>6, <1>7, <1>8, <1>9, <1>10, <1>11, <1>12,
       <1>13, <1>14, <1>15, <1>16, <1>17
    DEF WinNext

(* A call that nobody has closed the port under is on its handle, which is  *)
(* the port's own unless its settings were rejected; and the locks leave    *)
(* only available() for connect() to cut.                                   *)
LEMMA SoundCallsDoNotStray ==
    ASSUME SoundInv, LockInv, OwnHandle, CallerTypeOK, PortTypeOK
    PROVE  StrayExplained
<1>1. ASSUME NEW u \in Callers, arg[u] \in Handles, handle[arg[u]] = "other",
             ~rejected, under[u] = "none"
      PROVE  FALSE
    <2>1. call[u] # "none"
        BY <1>1, WinAssumption DEF SoundInv
    <2>2. is_open_ /\ ~Closing /\ arg[u] = fd_
        BY <1>1, <2>1, WinAssumption DEF SoundInv
    <2>3. handle[fd_] = port_
        BY <1>1, <2>2 DEF OwnHandle
    <2> QED
        BY <1>1, <2>2, <2>3, WinAssumption DEF PortTypeOK
<1>2. \A u \in Callers : under[u] \in {"none", "disconnect", "connect"}
    BY DEF CallerTypeOK
<1> QED
    BY <1>1, <1>2 DEF StrayExplained, LockInv, OwnHandle

(* The four properties lean on each other: that no call strays, on whose    *)
(* handle is open on what, and that on where connect() stands.              *)
THEOREM WinInvariant == WinSpec => []WinInv
<1>1. ASSUME WinInv, [WinNext]_ports PROVE WinInv'
    <2>1. MemberInv' /\ CallerInv'
        BY <1>1, MemberStep, CallerStep
    <2>2. StrayExplained'
        BY <2>1, SoundCallsDoNotStray, PTL DEF MemberInv, CallerInv
    <2>3. FoundIsArm' /\ UNCHANGED platform
          /\ place' \in [Names -> DOMAIN Devices \cup {NULL}]
          /\ port' \in Names \cup {""}
        BY <1>1, ChoiceStep
    <2>4. WinTypeOK'
        BY <1>1, <2>1, <2>3
        DEF WinInv, MemberInv, CallerInv, PortTypeOK, CallerTypeOK, WinTypeOK
    <2> QED
        BY <2>1, <2>2, <2>3, <2>4 DEF WinInv, MemberInv, CallerInv
<1> QED
    BY <1>1, WinStart, PTL DEF WinSpec

(* What connect() finds by itself is the arm, and on Windows only; for any  *)
(* devices, moved at any time.                                              *)
THEOREM FoundPortIsArm == WinSpec => []FoundIsArm
    BY WinInvariant, PTL DEF WinInv

(* A handle left open on a port that nobody can close is one whose          *)
(* configuration failed in open().                                          *)
THEOREM NoOtherHandleIsLost == WinSpec => []HandlesAccounted
    BY WinInvariant, PTL DEF WinInv

(* A call on an open port reaches a file that is not the port only if       *)
(* disconnect() closed the port under it, connect() did so under an         *)
(* available(), or the settings of the port were rejected.                  *)
THEOREM OnlyCutCallsStray == WinSpec => []StrayExplained
    BY WinInvariant, PTL DEF WinInv

(* What connect() returns says whether the port it chose is open.           *)
THEOREM ConnectTellsOutcome == WinSpec => []ConnectOutcome
    BY WinInvariant, PTL DEF WinInv
================================================================================

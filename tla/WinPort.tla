-------------------------------- MODULE WinPort --------------------------------
(***************************************************************************)
(* serial::Serial on its Windows port (src/src/serial/impl/win.cc), as     *)
(* Swift::connect and disconnect use it.  A handle is a number the system  *)
(* gives out again once it was closed, here or to another part of the      *)
(* process; a port can be opened only while no other handle is open on it. *)
(* Which port is opened is up to PortChoice, whose devices come and go.    *)
(* Receive threads and callers go on meanwhile: a call of theirs tests     *)
(* is_open_, loads fd_ and makes its system call in three steps, between   *)
(* which the port may be closed, opened and closed again.                  *)
(***************************************************************************)
EXTENDS PortChoice, Sequences

CONSTANTS
    Handles,    \* handles of the process
    Callers     \* receive threads, and threads that send commands

ASSUME WinAssumption ==
    /\ NULL \notin Handles /\ "unread" \notin Handles
    /\ "closed" \notin Names /\ "other" \notin Names

VARIABLES
    doing,      \* the step that connect or disconnect is in, or "idle"
    at,         \* and where in open() or close() it is: at the "entry", after
                \* CreateFile, or before the assignment to "fd_" or "is_open_"
    result,     \* of the last call: "0", "-1" or "exception", and "closed"
                \* after disconnect
    port_,      \* SerialImpl's members
    fd_,
    is_open_,
    handle,     \* what each handle is: "closed", "other" or a port
    call,       \* the function a caller has passed the test of, or "none",
    arg,        \* and the handle it has loaded for its system call
    wasOpen,    \* the port was open when the last call began
    lost,       \* handles that a failed open has left behind,
    rejected,   \* reconfigurePort has closed the handle of the open port,
    under       \* who has closed the port under a call, or "none";
                \* nothing reads these three

member  == <<port_, fd_, is_open_>>
callers == <<call, arg, under>>
control == <<doing, at, result, wasOpen>>
ghosts  == <<lost, rejected>>
win     == <<control, member, handle, callers, ghosts>>
ports   == <<choice, win>>

WinInit ==
    /\ ChoiceInit
    /\ doing = "idle" /\ at = "entry" /\ result = "-1"
    /\ port_ = "" /\ fd_ = NULL /\ is_open_ = FALSE
    /\ handle \in [Handles -> {"closed", "other"}]
    /\ call = [u \in Callers |-> "none"]
    /\ arg = [u \in Callers |-> "unread"]
    /\ under = [u \in Callers |-> "none"]
    /\ wasOpen = FALSE /\ lost = {} /\ rejected = FALSE

Live(h) == h # NULL /\ handle[h] # "closed"

-----------------------------------------------------------------------------
(* connect(): the port is chosen, then set.  Serial::setPort takes the     *)
(* locks of readline and write, and closes and opens a port that is open;  *)
(* setBaudrate and setTimeout configure it; at last, inside the try block, *)
(* open().  The two locks are taken in one step here, which only lets more *)
(* calls begin in between.                                                 *)
Connect(_port) ==
    /\ doing = "idle" /\ platform = "windows"
    /\ Choose(_port)
    /\ doing' = "lock"
    /\ wasOpen' = is_open_
    /\ UNCHANGED <<at, result, member, handle, callers, ghosts>>

Lock ==
    /\ doing = "lock"
    /\ \A u \in Callers : call[u] \in {"none", "available"}
    /\ doing' = IF is_open_ THEN "close" ELSE "setPort"
    /\ UNCHANGED <<choice, at, result, wasOpen, member, handle, callers, ghosts>>

(* Whether setPort holds the locks; the slip takes none.                   *)
NoLock == FALSE
Locked == doing \in {"close", "setPort", "open"}

(* Elsewhere connect() goes on with the POSIX port, see SwiftSession.      *)
ConnectElsewhere(_port) ==
    /\ platform # "windows"
    /\ Choose(_port)
    /\ UNCHANGED win

Disconnect ==
    /\ doing = "idle" /\ is_open_
    /\ doing' = "disconnect"
    /\ wasOpen' = TRUE
    /\ UNCHANGED <<choice, at, result, member, handle, callers, ghosts>>

After == CASE doing = "close"       -> "setPort"
           [] doing = "setPort"     -> IF wasOpen THEN "open" ELSE "setBaudrate"
           [] doing = "open"        -> "setBaudrate"
           [] doing = "setBaudrate" -> "setTimeout"
           [] doing = "setTimeout"  -> "try open"
           [] OTHER                 -> "idle"
Returns ==
    /\ doing' = After
    /\ result' = CASE doing = "disconnect" -> "closed"
                   [] doing = "try open"   -> "0"
                   [] OTHER                -> result
Throws(how) == doing' = "idle" /\ result' = how

(* The member functions, which leave the choice alone.  setPort takes the  *)
(* new name; the slip takes only the first one.                            *)
FirstName == IF port_ = "" THEN port ELSE port_
NewName   == port
SetPort ==
    /\ doing = "setPort"
    /\ port_' = NewName
    /\ Returns
    /\ UNCHANGED <<choice, at, wasOpen, fd_, is_open_, handle, callers, ghosts>>

(* close() on an open port, which has a handle in fd_ then: CloseHandle    *)
(* takes whatever that handle is by now, and fails if it is not open; fd_  *)
(* and is_open_ are assigned after it, and a call that begins in between   *)
(* finds the port open, too.                                               *)
InClose == doing \in {"close", "disconnect"}
Closing == InClose /\ at \in {"fd_", "is_open_"}
Closer  == IF doing = "disconnect" THEN "disconnect" ELSE "connect"

CloseHandle ==
    /\ InClose /\ at = "entry" /\ is_open_
    /\ \/ /\ Live(fd_)
          /\ handle' = [handle EXCEPT ![fd_] = "closed"]
          /\ under' = [u \in Callers |->
                          IF call[u] # "none" /\ under[u] = "none"
                          THEN Closer ELSE under[u]]
          /\ at' = "fd_"
          /\ UNCHANGED <<doing, result>>
       \/ /\ fd_ # NULL /\ ~Live(fd_)
          /\ Throws("exception")
          /\ UNCHANGED <<at, handle, under>>
    /\ UNCHANGED <<choice, wasOpen, member, call, arg, ghosts>>

CloseFd ==
    /\ InClose /\ at = "fd_"
    /\ fd_' = NULL
    /\ at' = "is_open_"
    /\ UNCHANGED <<choice, doing, result, wasOpen, port_, is_open_, handle,
                   callers, ghosts>>

CloseFlag ==
    /\ InClose /\ at = "is_open_"
    /\ is_open_' = FALSE /\ rejected' = FALSE
    /\ at' = "entry"
    /\ Returns
    /\ UNCHANGED <<choice, wasOpen, port_, fd_, handle, callers, lost>>

(* reconfigurePort() on handle h: done, or GetCommState, SetCommState or   *)
(* SetCommTimeouts fails, SetCommState after closing the handle.  Nothing  *)
(* but a port can be configured.                                           *)
Outcomes(h) ==
    IF handle[h] \in Names
    THEN {"done", "no state", "rejected", "no timeouts"} ELSE {"no state"}

(* setBaudrate and setTimeout store the value, and configure an open port. *)
Configure ==
    /\ doing \in {"setBaudrate", "setTimeout"}
    /\ \/ ~is_open_ /\ Returns /\ UNCHANGED <<handle, rejected>>
       \/ /\ is_open_ /\ fd_ # NULL
          /\ \E o \in Outcomes(fd_) :
               /\ IF o = "done" THEN Returns ELSE Throws("exception")
               /\ handle' = IF o = "rejected"
                            THEN [handle EXCEPT ![fd_] = "closed"] ELSE handle
               /\ rejected' = (rejected \/ o = "rejected")
    /\ UNCHANGED <<choice, at, wasOpen, member, callers, lost>>

(* open() on a closed port: CreateFile fails if nothing is plugged in or   *)
(* somebody has the port; afterwards the port is configured, and only then *)
(* is it open.                                                             *)
MayOpen(n) == n \in Names /\ place[n] # NULL /\ \A h \in Handles : handle[h] # n

CreateFile(how) ==
    \/ /\ port_ # "" /\ MayOpen(port_)
       /\ \E h \in Handles :
            /\ handle[h] = "closed"
            /\ handle' = [handle EXCEPT ![h] = port_]
            /\ fd_' = h
       /\ at' = "configure"
       /\ UNCHANGED <<doing, result>>
    \/ /\ port_ # ""
       /\ fd_' = NULL
       /\ Throws(how)
       /\ UNCHANGED <<at, handle>>
    \/ /\ port_ = ""
       /\ Throws(how)
       /\ UNCHANGED <<at, fd_, handle>>

(* open() throws if the port is open already; in connect() no exception    *)
(* leaves the try block.                                                   *)
NeverOpen == FALSE
IsOpen    == is_open_
InOpen    == doing \in {"open", "try open"}
Failure   == IF doing = "open" THEN "exception" ELSE "-1"

Open ==
    /\ InOpen /\ at = "entry"
    /\ \/ ~IsOpen /\ CreateFile(Failure)
       \/ IsOpen /\ Throws(Failure) /\ UNCHANGED <<at, fd_, handle>>
    /\ UNCHANGED <<choice, wasOpen, port_, is_open_, callers, ghosts>>

ConfigureNew ==
    /\ InOpen /\ at = "configure"
    /\ \E o \in Outcomes(fd_) :
         /\ handle' = IF o = "rejected"
                      THEN [handle EXCEPT ![fd_] = "closed"] ELSE handle
         /\ is_open_' = (o = "done")
         /\ lost' = IF o \in {"no state", "no timeouts"} THEN lost \cup {fd_}
                    ELSE lost
         /\ IF o = "done" THEN Returns ELSE Throws(Failure)
    /\ at' = "entry"
    /\ UNCHANGED <<choice, wasOpen, port_, fd_, callers, rejected>>

-----------------------------------------------------------------------------
(* The receive thread and the callers.  read() is called under the lock of *)
(* readline and write() under that of write, available() under none.       *)
Begin(u, f) ==
    /\ call[u] = "none" /\ is_open_
    /\ f \in {"read", "write"} => ~Locked /\ \A v \in Callers : call[v] # f
    /\ call' = [call EXCEPT ![u] = f]
    /\ under' = [under EXCEPT ![u] = IF Closing THEN Closer ELSE "none"]
    /\ UNCHANGED <<choice, control, member, handle, arg, ghosts>>

Load(u) ==
    /\ call[u] # "none" /\ arg[u] = "unread"
    /\ arg' = [arg EXCEPT ![u] = fd_]
    /\ UNCHANGED <<choice, control, member, handle, call, under, ghosts>>

(* ClearCommError, ReadFile or WriteFile on that handle: it succeeds or    *)
(* throws, and the call is over.  A system call that waits keeps what it   *)
(* has found behind the handle.                                            *)
SystemCall(u) ==
    /\ arg[u] # "unread"
    /\ call' = [call EXCEPT ![u] = "none"]
    /\ arg' = [arg EXCEPT ![u] = "unread"]
    /\ under' = [under EXCEPT ![u] = "none"]
    /\ UNCHANGED <<choice, control, member, handle, ghosts>>

(* Another part of the process opens a file, or closes one of its own.     *)
Other(h) ==
    /\ handle[h] \in {"closed", "other"}
    /\ handle' = [handle EXCEPT ![h] = IF @ = "other" THEN "closed" ELSE "other"]
    /\ UNCHANGED <<choice, control, member, callers, ghosts>>

Devise(n, d) == Plug(n, d) /\ UNCHANGED win

WinNext ==
    \/ \E p \in Names \cup {""} : Connect(p) \/ ConnectElsewhere(p)
    \/ Disconnect \/ Lock \/ SetPort \/ Configure \/ Open \/ ConfigureNew
    \/ CloseHandle \/ CloseFd \/ CloseFlag
    \/ \E u \in Callers :
         \/ \E f \in {"available", "read", "write"} : Begin(u, f)
         \/ Load(u) \/ SystemCall(u)
    \/ \E h \in Handles : Other(h)
    \/ \E n \in Names, d \in DOMAIN Devices \cup {NULL} : Devise(n, d)

WinSpec == WinInit /\ [][WinNext]_ports

-----------------------------------------------------------------------------
(* Properties.                                                             *)

(* A handle is open on a port only if it is the one in fd_ of the open     *)
(* port or of a port in open(), or if a failed open() has left it behind:  *)
(* then the port is busy for good, and every later open() of it fails.     *)
HandlesAccounted ==
    \A h \in Handles :
        handle[h] \in Names =>
            \/ h = fd_ /\ (is_open_ \/ at = "configure")
            \/ h \in lost

(* A system call goes to a file of another part of the process only if     *)
(* disconnect() has closed the port under it; or connect() has, under an   *)
(* available(), for the locks keep read and write away; or if the port is  *)
(* still open on a handle that was closed because its settings were        *)
(* rejected.  Otherwise an open port has a handle of its own, so that      *)
(* close() does not fail on it.                                            *)
StrayExplained ==
    /\ \A u \in Callers :
         arg[u] \in Handles /\ handle[arg[u]] = "other" =>
            \/ rejected
            \/ under[u] = "disconnect"
            \/ under[u] = "connect" /\ call[u] = "available"
    /\ is_open_ /\ ~rejected /\ ~Closing => fd_ # NULL /\ handle[fd_] = port_

(* connect() that returns 0 has the port open that was chosen, and it      *)
(* throws, instead of returning -1, only if the port was open before.      *)
ConnectOutcome ==
    doing = "idle" =>
        /\ result = "exception" => wasOpen
        /\ result = "0" => is_open_ /\ fd_ # NULL /\ handle[fd_] = port
===============================================================================

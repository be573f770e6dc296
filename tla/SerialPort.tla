------------------------------- MODULE SerialPort -------------------------------
(***************************************************************************)
(* One serial::Serial (src/src/serial/serial.cc) on its POSIX port         *)
(* (src/src/serial/impl/unix.cc), as a Swift object uses it: receive       *)
(* threads call available() and readline(), callers call write(), some     *)
(* thread may call flush(), and one application thread connects and        *)
(* disconnects.  The facade takes the read lock, the write lock, both or   *)
(* none; below it every system call uses whatever fd_ is at that moment.   *)
(*                                                                         *)
(* The kernel gives a closed descriptor's number to the next file that     *)
(* the process opens, here or elsewhere: the port itself is a sequence of  *)
(* openings 1, 2, ..., and all other files are one.  Any system call   *)
(* on the device may fail, because the arm may have gone.                  *)
(***************************************************************************)
EXTENDS Integers, Sequences, FiniteSets

CONSTANTS
    Readers,        \* receive threads, each of them in a loop
    Writers,        \* calls of write()
    Drains,         \* calls of flush()
    Numbers,        \* the descriptor numbers of the process
    Length,         \* bytes of a command
    MaxLine,        \* bound of a line, 65536 in the code
    MaxOpens        \* bound: how often the port is opened

Threads  == Readers \cup Writers \cup Drains
Openings == 1 .. MaxOpens
NULL     == "none"      \* the holder of a lock that is free
NoFd     == -1          \* what fd_ is when it is no descriptor
Unused   == 0           \* what a number stands for that is free,
Other    == -1          \* and one that is a file elsewhere in the process
Control  == "control"   \* the application thread as the holder of a lock

ASSUME PortAssumption ==
    /\ Readers \cap Writers = {} /\ Readers \cap Drains = {}
    /\ Writers \cap Drains = {}
    /\ NULL \notin Threads /\ Control \notin Threads
    /\ Numbers \subseteq Nat
    /\ Length \in Nat \ {0} /\ MaxLine \in Nat \ {0} /\ MaxOpens \in Nat

VARIABLES
    isOpen,         \* is_open_
    fd,             \* fd_
    readLock,       \* who holds read_mutex
    writeLock,      \* who holds write_mutex
    file,           \* what each descriptor number stands for in the kernel
    opens,          \* how many openings there have been
    ctl,            \* where the application thread is
    op,             \* in connect() or disconnect()
    pc,             \* where every other thread is
    arg,            \* the descriptor it has loaded for its system call
    moved,          \* the bytes it has read or written under its lock
    touched,        \* history: the files these bytes came from or went to
    wire,           \* history: who wrote each byte that the port has sent
    lost,           \* history: openings that could not be configured
    cut,            \* history: threads under whose lock disconnect() closed
    botched         \* history: a failing ::close has freed the number

control == <<ctl, op>>
kernel  == <<file, opens>>
thread  == <<pc, arg, moved, touched>>
traces  == <<wire, lost, cut, botched>>
vars    == <<isOpen, fd, readLock, writeLock, kernel, control, thread, traces>>

(* Serial() on an empty port name, and nobody has called anything.         *)
Init ==
    /\ isOpen = FALSE /\ fd = NoFd
    /\ readLock = NULL /\ writeLock = NULL
    /\ file \in [Numbers -> {Unused, Other}] /\ opens = 0
    /\ ctl = "idle" /\ op = "none"
    /\ pc = [t \in Threads |-> "idle"]
    /\ arg = [t \in Threads |-> NoFd]
    /\ moved = [t \in Threads |-> 0]
    /\ touched = [t \in Threads |-> {}]
    /\ wire = <<>> /\ lost = {} /\ cut = {} /\ botched = FALSE

Free(n) == file[n] = Unused

(* A descriptor on which a system call does not fail with EBADF.           *)
Valid(d) == d # NoFd /\ file[d] # Unused

-----------------------------------------------------------------------------
(* connect() and disconnect() on the port.                                 *)

Continue(where) == ctl' = where /\ UNCHANGED op

(* The call is over, by a return or an exception; ScopedReadLock and       *)
(* ScopedWriteLock give back what it holds.                                *)
LetGo == /\ readLock' = IF readLock = Control THEN NULL ELSE readLock
         /\ writeLock' = IF writeLock = Control THEN NULL ELSE writeLock
CallEnds == Continue("idle") /\ LetGo

Connect ==
    /\ ctl = "idle"
    /\ ctl' = "rlock" /\ op' = "connect"
    /\ UNCHANGED <<isOpen, fd, readLock, writeLock, kernel, thread, traces>>

(* setPort: the read lock, then the write lock; the slips take one only.   *)
NoReadLock  == UNCHANGED readLock
TakeReadLock == readLock = NULL /\ readLock' = Control
LockRead ==
    /\ ctl = "rlock"
    /\ TakeReadLock
    /\ Continue("wlock")
    /\ UNCHANGED <<isOpen, fd, writeLock, kernel, thread, traces>>

LockWrite ==
    /\ ctl = "wlock"
    /\ writeLock = NULL /\ writeLock' = Control
    /\ Continue("setport")
    /\ UNCHANGED <<isOpen, fd, readLock, kernel, thread, traces>>

(* ... was_open: close and open again, both inside the locks.              *)
SetPort ==
    /\ ctl = "setport"
    /\ \/ isOpen /\ Continue("close") /\ UNCHANGED <<readLock, writeLock>>
       \/ ~isOpen /\ Continue("baudrate") /\ LetGo
    /\ UNCHANGED <<isOpen, fd, kernel, thread, traces>>

(* disconnect() calls close(), which takes no lock, on an open port.       *)
Disconnect ==
    /\ ctl = "idle" /\ isOpen
    /\ ctl' = "close" /\ op' = "disconnect"
    /\ UNCHANGED <<isOpen, fd, readLock, writeLock, kernel, thread, traces>>

(* ::close(fd_).  If it fails, the kernel has the number free or not, and  *)
(* is_open_ and fd_ stay as they are.                                      *)
Close ==
    /\ ctl = "close"
    /\ \/ Valid(fd) /\ file' = [file EXCEPT ![fd] = Unused] /\ Continue("closed")
                    /\ UNCHANGED <<readLock, writeLock, botched>>
       \/ CallEnds /\ UNCHANGED <<file, botched>>
       \/ CallEnds /\ Valid(fd) /\ file' = [file EXCEPT ![fd] = Unused]
                   /\ botched' = TRUE
    /\ cut' = IF op = "disconnect"
              THEN cut \cup {t \in Threads : t \in {readLock, writeLock}}
              ELSE cut
    /\ UNCHANGED <<isOpen, fd, opens, thread, wire, lost>>

(* fd_ = -1, and then is_open_ = false.                                    *)
Forget ==
    /\ ctl = "closed"
    /\ fd' = NoFd
    /\ Continue("forgotten")
    /\ UNCHANGED <<isOpen, readLock, writeLock, kernel, thread, traces>>

Closed ==
    /\ ctl = "forgotten"
    /\ isOpen' = FALSE
    /\ Continue(IF op = "connect" THEN "open" ELSE "idle")
    /\ UNCHANGED <<fd, readLock, writeLock, kernel, thread, traces>>

(* setBaudrate configures an open port, without a lock.                    *)
SetBaudrate ==
    /\ ctl = "baudrate"
    /\ Continue("open") \/ (isOpen /\ Continue("idle"))
    /\ UNCHANGED <<isOpen, fd, readLock, writeLock, kernel, thread, traces>>

(* open() throws on an open port; the slip opens it again.                 *)
OpenAgain ==
    /\ ctl = "open"
    /\ Continue("opening") /\ UNCHANGED <<readLock, writeLock>>
    /\ UNCHANGED <<isOpen, fd, kernel, thread, traces>>
Open ==
    /\ ctl = "open"
    /\ \/ isOpen /\ CallEnds
       \/ ~isOpen /\ Continue("opening") /\ UNCHANGED <<readLock, writeLock>>
    /\ UNCHANGED <<isOpen, fd, kernel, thread, traces>>

(* ::open gives the lowest free number, or -1.                             *)
OpenFd ==
    /\ ctl = "opening"
    /\ \/ \E n \in Numbers :
            /\ opens < MaxOpens
            /\ Free(n) /\ \A m \in Numbers : Free(m) => n <= m
            /\ fd' = n
            /\ file' = [file EXCEPT ![n] = opens + 1]
            /\ opens' = opens + 1
            /\ Continue("configure") /\ UNCHANGED <<readLock, writeLock>>
       \/ fd' = NoFd /\ CallEnds /\ UNCHANGED kernel
    /\ UNCHANGED <<isOpen, thread, traces>>

(* reconfigurePort() succeeds, or throws: is_open_ is still false, so that *)
(* close() will not close fd_, and the next open() overwrites it.          *)
Configure ==
    /\ ctl = "configure"
    /\ \/ Continue("configured") /\ UNCHANGED <<readLock, writeLock, lost>>
       \/ CallEnds /\ lost' = lost \cup {opens}
    /\ UNCHANGED <<isOpen, fd, kernel, thread, wire, cut, botched>>

(* is_open_ = true; setPort goes on with setBaudrate, and connect() from   *)
(* its own open() to the end.                                              *)
Opened ==
    /\ ctl = "configured"
    /\ isOpen' = TRUE
    /\ Continue(IF writeLock = Control THEN "baudrate" ELSE "idle")
    /\ LetGo
    /\ UNCHANGED <<fd, kernel, thread, traces>>

-----------------------------------------------------------------------------
(* The other threads.                                                      *)

Go(t, where) == pc' = [pc EXCEPT ![t] = where]

(* disconnect() has closed the descriptor and not yet said so.             *)
Closing == op = "disconnect" /\ ctl \in {"closed", "forgotten"}

(* A new call has its lock; moved is 0 between calls.                      *)
Start(t, where) ==
    /\ Go(t, where)
    /\ touched' = [touched EXCEPT ![t] = {}]
    /\ cut' = IF Closing THEN cut \cup {t} ELSE cut \ {t}
    /\ UNCHANGED <<arg, moved>>

Moved(t, k) == moved' = [moved EXCEPT ![t] = k]

(* fd_ is loaded for a system call that comes in the next step.            *)
Load(t, from, to) ==
    /\ pc[t] = from
    /\ Go(t, to)
    /\ arg' = [arg EXCEPT ![t] = fd]
    /\ UNCHANGED <<isOpen, fd, readLock, writeLock, kernel, control, moved, touched,
                   traces>>

(* The call moves bytes from or to the file behind the number.             *)
Move(t) ==
    /\ Valid(arg[t])
    /\ touched' = [touched EXCEPT ![t] = touched[t] \cup {file[arg[t]]}]

(* available(): is_open_, and then the ioctl on fd_, without a lock.       *)
Available(r) ==
    /\ pc[r] = "idle" /\ isOpen
    /\ Go(r, "ioctl")
    /\ UNCHANGED <<isOpen, fd, readLock, writeLock, kernel, control, arg, moved,
                   touched, traces>>

Ioctl(r) ==
    /\ pc[r] = "ioctl"
    /\ Go(r, "idle") \/ (Valid(fd) /\ Go(r, "rlock"))
    /\ UNCHANGED <<isOpen, fd, readLock, writeLock, kernel, control, arg, moved,
                   touched, traces>>

(* readline() takes the read lock and reads byte by byte with read_().     *)
ReadLine(r) ==
    /\ pc[r] = "rlock"
    /\ readLock = NULL /\ readLock' = r
    /\ Start(r, "read")
    /\ UNCHANGED <<isOpen, fd, writeLock, kernel, control, wire, lost, botched>>

(* readline() is over; what it has read goes to the receive thread.        *)
EndLine(r) == Go(r, "idle") /\ readLock' = NULL /\ Moved(r, 0)

ReadTest(r) ==
    /\ pc[r] = "read"
    /\ \/ isOpen /\ Go(r, "prefill") /\ UNCHANGED <<readLock, moved>>
       \/ ~isOpen /\ EndLine(r)
    /\ UNCHANGED <<isOpen, fd, writeLock, kernel, control, arg, touched, traces>>

(* ::read.  One byte may end the line; then the next byte.  When nothing   *)
(* comes, the first ::read of read_() lets it wait, the second throws.     *)
ReadByte(r) ==
    /\ pc[r] \in {"prefilling", "reading"}
    /\ \/ /\ Move(r)
          /\ \/ EndLine(r)
             \/ /\ moved[r] + 1 < MaxLine /\ Moved(r, moved[r] + 1)
                /\ Go(r, "read") /\ UNCHANGED readLock
       \/ /\ pc[r] = "prefilling" /\ Go(r, "select")
          /\ UNCHANGED <<readLock, moved, touched>>
       \/ pc[r] = "reading" /\ EndLine(r) /\ UNCHANGED touched
    /\ arg' = [arg EXCEPT ![r] = NoFd]
    /\ UNCHANGED <<isOpen, fd, writeLock, kernel, control, traces>>

(* waitReadable() on fd_: ready, or an error, or the time is over, which   *)
(* ends the line where it is.  On -1 nothing ever is ready.                *)
SelectRead(r) ==
    /\ pc[r] = "select"
    /\ \/ Valid(fd) /\ Go(r, "ready") /\ UNCHANGED <<readLock, moved>>
       \/ EndLine(r)
    /\ UNCHANGED <<isOpen, fd, writeLock, kernel, control, arg, touched, traces>>

Reader(r) ==
    \/ Available(r) \/ Ioctl(r) \/ ReadLine(r) \/ ReadTest(r) \/ SelectRead(r)
    \/ Load(r, "prefill", "prefilling") \/ Load(r, "ready", "reading")
    \/ ReadByte(r)

(* write() takes the write lock; the slip does not wait for it.            *)
WriteUnlocked(w) ==
    /\ pc[w] = "idle"
    /\ writeLock' = w
    /\ Start(w, "write")
    /\ UNCHANGED <<isOpen, fd, readLock, kernel, control, wire, lost, botched>>
Write(w) ==
    /\ pc[w] = "idle"
    /\ writeLock = NULL /\ writeLock' = w
    /\ Start(w, "write")
    /\ UNCHANGED <<isOpen, fd, readLock, kernel, control, wire, lost, botched>>

EndWrite(w) == Go(w, "done") /\ writeLock' = NULL /\ Moved(w, 0)

WriteTest(w) ==
    /\ pc[w] = "write"
    /\ \/ isOpen /\ Go(w, "select") /\ UNCHANGED <<writeLock, moved>>
       \/ ~isOpen /\ EndWrite(w)
    /\ UNCHANGED <<isOpen, fd, readLock, kernel, control, arg, touched, traces>>

(* pselect on fd_: ready; or the time is over, which cuts the command; or  *)
(* an error.                                                               *)
SelectWrite(w) ==
    /\ pc[w] = "select"
    /\ \/ Valid(fd) /\ Go(w, "ready") /\ UNCHANGED <<writeLock, moved>>
       \/ EndWrite(w)
    /\ UNCHANGED <<isOpen, fd, readLock, kernel, control, arg, touched, traces>>

(* ::write of some of the remaining bytes, or an exception.                *)
WriteBytes(w) ==
    /\ pc[w] = "writing"
    /\ \/ \E k \in 1 .. Length - moved[w] :
            /\ Move(w)
            /\ wire' = IF file[arg[w]] = Other THEN wire ELSE Append(wire, w)
            /\ \/ moved[w] + k = Length /\ EndWrite(w)
               \/ /\ moved[w] + k < Length /\ Moved(w, moved[w] + k)
                  /\ Go(w, "select") /\ UNCHANGED writeLock
       \/ EndWrite(w) /\ UNCHANGED <<touched, wire>>
    /\ arg' = [arg EXCEPT ![w] = NoFd]
    /\ UNCHANGED <<isOpen, fd, readLock, kernel, control, lost, cut, botched>>

Writer(w) ==
    \/ WriteTest(w) \/ SelectWrite(w) \/ Load(w, "ready", "writing") \/ WriteBytes(w)

(* flush(): the read lock, the write lock, and tcdrain; the slip takes the *)
(* locks the other way round.                                              *)
DrainOtherWay(d) ==
    \/ /\ pc[d] = "idle" /\ writeLock = NULL
       /\ writeLock' = d /\ Go(d, "wlock") /\ UNCHANGED readLock
    \/ /\ pc[d] = "wlock" /\ readLock = NULL
       /\ readLock' = d /\ Go(d, "drain") /\ UNCHANGED writeLock
DrainLocks(d) ==
    \/ /\ pc[d] = "idle" /\ readLock = NULL
       /\ readLock' = d /\ Go(d, "wlock") /\ UNCHANGED writeLock
    \/ /\ pc[d] = "wlock" /\ writeLock = NULL
       /\ writeLock' = d /\ Go(d, "drain") /\ UNCHANGED readLock

Drained(d) == pc[d] = "drain" /\ Go(d, "done")
                              /\ readLock' = NULL /\ writeLock' = NULL

Drain(d) ==
    /\ DrainLocks(d) \/ Drained(d)
    /\ UNCHANGED <<isOpen, fd, kernel, control, arg, moved, touched, traces>>

-----------------------------------------------------------------------------
(* The rest of the process opens and closes files.                         *)
OtherFile(n) ==
    /\ \/ Free(n) /\ (\A m \in Numbers : Free(m) => n <= m)
                  /\ file' = [file EXCEPT ![n] = Other]
       \/ file[n] = Other /\ file' = [file EXCEPT ![n] = Unused]
    /\ UNCHANGED <<isOpen, fd, readLock, writeLock, opens, control, thread, traces>>

InCall == \/ LockRead \/ LockWrite \/ SetPort \/ Close \/ Forget \/ Closed
          \/ SetBaudrate \/ Open \/ OpenFd \/ Configure \/ Opened

Next ==
    \/ Connect \/ Disconnect \/ InCall
    \/ \E r \in Readers : Reader(r)
    \/ \E w \in Writers : Write(w) \/ Writer(w)
    \/ \E d \in Drains : Drain(d)
    \/ \E n \in Numbers : OtherFile(n)

Spec == Init /\ [][Next]_vars

(* Threads run on, and every system call comes back; who gets a lock that  *)
(* several wait for is open.                                               *)
Fairness ==
    /\ WF_vars(InCall)
    /\ \A r \in Readers : WF_vars(Reader(r))
    /\ \A w \in Writers : WF_vars(Writer(w))
    /\ \A d \in Drains : WF_vars(Drain(d))

LiveSpec == Spec /\ Fairness

-----------------------------------------------------------------------------
(* The properties.                                                         *)

TypeOK ==
    /\ isOpen \in BOOLEAN
    /\ fd \in Numbers \cup {NoFd}
    /\ readLock \in Threads \cup {NULL, Control}
    /\ writeLock \in Threads \cup {NULL, Control}
    /\ opens \in 0 .. MaxOpens
    /\ file \in [Numbers -> {Unused, Other} \cup (1 .. opens)]
    /\ ctl \in {"idle", "rlock", "wlock", "setport", "close", "closed",
                "forgotten", "baudrate", "open", "opening", "configure",
                "configured"}
    /\ op \in {"none", "connect", "disconnect"}
    /\ pc \in [Threads -> {"idle", "ioctl", "rlock", "read", "prefill",
                           "prefilling", "select", "ready", "reading", "write",
                           "writing", "wlock", "drain", "done"}]
    /\ arg \in [Threads -> Numbers \cup {NoFd}]
    /\ moved \in [Threads -> Nat]
    /\ touched \in [Threads -> SUBSET ({Other} \cup (1 .. opens))]
    /\ wire \in Seq(Writers)
    /\ lost \subseteq 1 .. opens
    /\ cut \subseteq Threads
    /\ botched \in BOOLEAN

(* All bytes that one readline() returns or one write() sends belong to    *)
(* one opening of the port: no line and no command spans a reconnection.   *)
(* Neither close() nor open() takes a lock; what holds this up is that     *)
(* connect() always calls setPort(), which waits for both locks.           *)
OneOpening ==
    \A t \in Threads : \A a, b \in touched[t] \ {Other} : a = b

(* The bytes of two commands never mix on the line, cut short or not.      *)
CommandsApart ==
    \A i, j, k \in 1 .. Len(wire) :
        i < j /\ j < k /\ wire[i] = wire[k] => wire[j] = wire[i]

(* A descriptor the process still holds for the port is fd_, or belongs to *)
(* an opening whose configuration failed: there is no other way to lose it.*)
DescriptorsAccounted ==
    \A n \in Numbers : file[n] \in Openings => n = fd \/ file[n] \in lost

(* A read or a write reaches a file that is not the port only if           *)
(* disconnect() closed the port under it, or a ::close failed: closing and *)
(* opening in setPort() never does that.                                   *)
StraysExplained ==
    \A t \in Threads : Other \in touched[t] => t \in cut \/ botched

(* Thread t can go on only when thread u gives back a lock.                *)
WaitsFor(t, u) ==
    \/ /\ readLock = u
       /\ \/ t = Control /\ ctl = "rlock"
          \/ t \in Readers /\ pc[t] = "rlock"
          \/ t \in Drains /\ pc[t] = "idle"
    \/ /\ writeLock = u
       /\ \/ t = Control /\ ctl = "wlock"
          \/ t \in Writers /\ pc[t] = "idle"
          \/ t \in Drains /\ pc[t] = "wlock"

(* Of threads that wait for one another in a row the third goes on: two    *)
(* locks that readline, write, flush and setPort take one, the other or    *)
(* both of, and a disconnect() in between, never close a circle.           *)
NoCircle ==
    LET all == Threads \cup {Control}
    IN \A t, u \in all : WaitsFor(t, u) =>
           \A v \in all : WaitsFor(u, v) =>
               \A w \in all : ~WaitsFor(v, w)

(* What the callers see of the port is a LinePromise.                      *)
Line == INSTANCE LinePromise WITH
    listener <- IF readLock \in Readers THEN readLock ELSE NULL,
    speaker  <- IF writeLock \in Writers THEN writeLock ELSE NULL,
    begun    <- {t \in (Readers \cup Writers) \cap {readLock, writeLock} :
                   touched[t] \ {Other} # {}},
    over     <- {w \in Writers : pc[w] = "done"}

KeepsLine == Line!Spec

(* Both locks are given back again and again: readline, write, flush and   *)
(* setPort never wait for each other in a circle.                          *)
LocksComeBack == []<>(readLock = NULL) /\ []<>(writeLock = NULL)

-----------------------------------------------------------------------------
(* What holds in every reachable state and makes the properties inductive. *)

Reading == {"read", "prefill", "prefilling", "select", "ready", "reading"}
Writing == {"write", "select", "ready", "writing"}
Called  == {"prefilling", "reading", "writing"}
Tested  == {"prefill", "select", "ready"} \cup Called

(* Who holds a lock is where it is needed, and nowhere else.               *)
LockInv ==
    /\ \A r \in Readers : /\ pc[r] \in {"idle", "ioctl", "rlock"} \cup Reading
                          /\ (readLock = r) <=> (pc[r] \in Reading)
                          /\ writeLock # r
    /\ \A w \in Writers : /\ pc[w] \in {"idle", "done"} \cup Writing
                          /\ (writeLock = w) <=> (pc[w] \in Writing)
                          /\ readLock # w
    /\ \A d \in Drains : /\ (readLock = d) <=> (pc[d] \in {"wlock", "drain"})
                         /\ (writeLock = d) <=> (pc[d] = "drain")
                         /\ pc[d] \in {"idle", "wlock", "drain", "done"}
                         /\ touched[d] = {}
    /\ writeLock = Control => readLock = Control
    /\ readLock = Control => writeLock = Control \/ ctl = "wlock"
    /\ readLock = Control => op = "connect"
    /\ ctl \in {"idle", "rlock", "baudrate"} => readLock # Control
    /\ ctl = "wlock" => readLock = Control /\ writeLock # Control
    /\ ctl = "setport" => writeLock = Control
    /\ ctl \in {"close", "closed", "forgotten"} /\ op = "connect"
         => writeLock = Control

(* The number stands for the last opening of the port.                     *)
Last(n) == file[n] = opens /\ opens # 0

(* What is_open_ and fd_ are where the application thread is.              *)
PhaseInv ==
    /\ ctl \in {"close", "closed", "forgotten"} => isOpen
    /\ ctl \in {"opening", "configure", "configured"} => ~isOpen
    /\ ctl = "open" /\ writeLock = Control => ~isOpen
    /\ ctl = "closed" => fd # NoFd /\ file[fd] \notin Openings
    /\ ctl = "forgotten" => fd = NoFd
    /\ ctl \in {"configure", "configured"} => fd # NoFd /\ Last(fd)
    /\ op = "disconnect" => ctl \in {"idle", "close", "closed", "forgotten"}
    /\ op = "none" => ctl = "idle"
    /\ isOpen /\ ctl \notin {"closed", "forgotten"} /\ ~botched
         => fd # NoFd /\ Last(fd)

(* While connect() is about to open the port, nobody is past the test of   *)
(* is_open_ in a read or a write.                                          *)
OpeningSoon == /\ ctl \in {"baudrate", "open", "opening", "configure",
                           "configured"}
               /\ ~isOpen
QuietInv ==
    OpeningSoon =>
        \A t \in Threads : t \in {readLock, writeLock} =>
            pc[t] \notin Tested /\ touched[t] = {}

(* A number that a thread has loaded, and fd_, stand for the last opening  *)
(* or for none; the files of a transfer are of the last opening or none.   *)
FileInv ==
    /\ fd # NoFd => file[fd] \in {Unused, Other, opens}
    /\ \A t \in Threads :
         /\ pc[t] \in Called /\ arg[t] # NoFd =>
              file[arg[t]] \in {Unused, Other, opens}
         /\ t \in {readLock, writeLock} => touched[t] \subseteq {Other, opens}

(* A half-open descriptor is one of a failed configuration.                *)
HalfOpenInv ==
    ~isOpen /\ fd # NoFd /\ ctl \notin {"configure", "configured"} =>
        (file[fd] \in Openings => file[fd] \in lost)

(* Unless disconnect() has closed under it, a transfer that has passed the *)
(* test finds the last opening behind fd_.                                 *)
SoundInv ==
    \A t \in Readers \cup Writers :
        t \in {readLock, writeLock} /\ t \notin cut /\ ~botched =>
            /\ ctl \notin {"closed", "forgotten"}
            /\ pc[t] \in Tested => fd # NoFd /\ Last(fd)
            /\ pc[t] \in Called => arg[t] = fd

PortInv ==
    /\ TypeOK
    /\ LockInv
    /\ PhaseInv
    /\ QuietInv
    /\ FileInv
    /\ HalfOpenInv
    /\ SoundInv
    /\ OneOpening
    /\ DescriptorsAccounted
    /\ StraysExplained
===============================================================================

---------------------------- MODULE SerialPortProofs ----------------------------
(* Theorems about SerialPort for every number of threads, descriptors,      *)
(* openings and bytes.                                                      *)
EXTENDS SerialPort, TLAPS

USE PortAssumption DEF Threads, Openings, NULL, Control, NoFd, Unused, Other

(* What the application thread does, and what the other threads do.         *)
ControlStep == Connect \/ Disconnect \/ InCall
ThreadStep  == \/ \E r \in Readers : Reader(r)
               \/ \E w \in Writers : Write(w) \/ Writer(w)
               \/ \E d \in Drains : Drain(d)

(* connect() and disconnect() move no bytes, and forget no cut transfer.    *)
LEMMA ControlFrame ==
    ControlStep => /\ UNCHANGED <<thread, wire>>
                   /\ cut \subseteq cut' /\ (botched => botched')
<1> USE DEF kernel, control, thread, traces, Continue, CallEnds, LetGo
<1>1. Connect \/ Disconnect \/ LockRead \/ LockWrite \/ SetPort =>
        UNCHANGED <<thread, traces>>
    BY DEF Connect, Disconnect, LockRead, LockWrite, SetPort
<1>2. Close => /\ UNCHANGED <<thread, wire>>
               /\ cut \subseteq cut' /\ (botched => botched')
    BY DEF Close
<1>3. Forget \/ Closed \/ SetBaudrate \/ Open \/ OpenFd \/ Opened =>
        UNCHANGED <<thread, traces>>
    BY DEF Forget, Closed, SetBaudrate, Open, OpenFd, Opened
<1>4. Configure => UNCHANGED <<thread, wire, cut, botched>>
    BY DEF Configure
<1> QED
    BY <1>1, <1>2, <1>3, <1>4 DEF ControlStep, InCall

(* Transfers leave the port and its files alone, and take no lock away from *)
(* the application thread.                                                  *)
LEMMA ThreadFrame ==
    LockInv /\ ThreadStep =>
        /\ UNCHANGED <<isOpen, fd, kernel, control, lost, botched>>
        /\ (readLock' = Control) <=> (readLock = Control)
        /\ (writeLock' = Control) <=> (writeLock = Control)
<1> SUFFICES ASSUME LockInv, ThreadStep
             PROVE  /\ UNCHANGED <<isOpen, fd, kernel, control, lost, botched>>
                    /\ (readLock' = Control) <=> (readLock = Control)
                    /\ (writeLock' = Control) <=> (writeLock = Control)
    OBVIOUS
<1> USE DEF LockInv, Reading, Writing, traces
<1>1. ASSUME NEW r \in Readers, Reader(r)
      PROVE  /\ UNCHANGED <<isOpen, fd, writeLock, kernel, control, lost, botched>>
             /\ (readLock' = Control) <=> (readLock = Control)
    BY <1>1 DEF Reader, Available, Ioctl, ReadLine, ReadTest, SelectRead, Load,
                ReadByte, EndLine
<1>2. ASSUME NEW w \in Writers, Write(w) \/ Writer(w)
      PROVE  /\ UNCHANGED <<isOpen, fd, readLock, kernel, control, lost, botched>>
             /\ (writeLock' = Control) <=> (writeLock = Control)
    BY <1>2 DEF Write, Writer, WriteTest, SelectWrite, Load, WriteBytes, EndWrite
<1>3. ASSUME NEW d \in Drains, Drain(d)
      PROVE  /\ UNCHANGED <<isOpen, fd, kernel, control, lost, botched>>
             /\ (readLock' = Control) <=> (readLock = Control)
             /\ (writeLock' = Control) <=> (writeLock = Control)
    BY <1>3 DEF Drain, DrainLocks, Drained
<1> QED
    BY <1>1, <1>2, <1>3 DEF ThreadStep

(* The type of a longer sequence.                                          *)
LEMMA AppendType ==
    ASSUME NEW S, NEW s \in Seq(S), NEW e \in S
    PROVE  Append(s, e) \in Seq(S)
OBVIOUS

(* Every variable keeps its type; descriptors of openings exist.           *)
LEMMA TypeStep == TypeOK /\ PhaseInv /\ [Next]_vars => TypeOK'
<1> SUFFICES ASSUME TypeOK, PhaseInv, [Next]_vars PROVE TypeOK'
    OBVIOUS
<1> USE DEF TypeOK, PhaseInv, Last, kernel, control, thread, traces
<1>1. CASE Connect
    BY <1>1 DEF Connect
<1>2. CASE Disconnect
    BY <1>2 DEF Disconnect
<1>3. CASE LockRead
    BY <1>3 DEF LockRead, TakeReadLock, Continue
<1>4. CASE LockWrite
    BY <1>4 DEF LockWrite, Continue
<1>5. CASE SetPort
    BY <1>5 DEF SetPort, Continue, LetGo
<1>6. CASE Close
    BY <1>6 DEF Close, Continue, CallEnds, LetGo, Valid
<1>7. CASE Forget
    BY <1>7 DEF Forget, Continue
<1>8. CASE Closed
    BY <1>8 DEF Closed, Continue
<1>9. CASE SetBaudrate
    BY <1>9 DEF SetBaudrate, Continue
<1>10. CASE Open
    BY <1>10 DEF Open, Continue, CallEnds, LetGo
<1>11. CASE OpenFd
    BY <1>11 DEF OpenFd, Continue, CallEnds, LetGo, Free
<1>12. CASE Configure
    <2>1. opens \in 1 .. opens
        BY <1>12 DEF PhaseInv, Last, Configure
    <2>2. lost' \subseteq 1 .. opens
        BY <1>12, <2>1 DEF Configure
    <2> QED
        BY <1>12, <2>2 DEF Configure, Continue, CallEnds, LetGo
<1>13. CASE Opened
    BY <1>13 DEF Opened, Continue, LetGo
<1>14. ASSUME NEW r \in Readers, Available(r)
      PROVE  TypeOK'
    BY <1>14 DEF Available, Go
<1>15. ASSUME NEW r \in Readers, Ioctl(r)
      PROVE  TypeOK'
    <2>1. pc' \in [Threads -> {"idle", "ioctl", "rlock", "read", "prefill",
                            "prefilling", "select", "ready", "reading",
                            "write", "writing", "wlock", "drain", "done"}]
        BY <1>15 DEF Ioctl, Go
    <2>2. UNCHANGED <<isOpen, fd, readLock, writeLock, kernel, control, arg, moved,
                     touched, traces>>
        BY <1>15 DEF Ioctl
    <2> QED
        BY <2>1, <2>2
<1>16. ASSUME NEW r \in Readers, ReadLine(r)
      PROVE  TypeOK'
    BY <1>16 DEF ReadLine, Start, Go, Closing
<1>17. ASSUME NEW r \in Readers, ReadTest(r)
      PROVE  TypeOK'
    BY <1>17 DEF ReadTest, Go, EndLine, Moved
<1>18. ASSUME NEW r \in Readers, SelectRead(r)
      PROVE  TypeOK'
    <2>1. pc' \in [Threads -> {"idle", "ioctl", "rlock", "read", "prefill",
                            "prefilling", "select", "ready", "reading",
                            "write", "writing", "wlock", "drain", "done"}]
        BY <1>18 DEF SelectRead, Go, EndLine
    <2>2. readLock' \in Threads \cup {NULL, Control}
        BY <1>18 DEF SelectRead, EndLine
    <2>3. moved' \in [Threads -> Nat]
        BY <1>18 DEF SelectRead, EndLine, Moved
    <2>4. UNCHANGED <<isOpen, fd, writeLock, kernel, control, arg, touched, traces>>
        BY <1>18 DEF SelectRead
    <2> QED
        BY <2>1, <2>2, <2>3, <2>4
<1>19. ASSUME NEW r \in Readers, Load(r, "prefill", "prefilling")
      PROVE  TypeOK'
    BY <1>19 DEF Load, Go
<1>20. ASSUME NEW r \in Readers, Load(r, "ready", "reading")
      PROVE  TypeOK'
    BY <1>20 DEF Load, Go
<1>21. ASSUME NEW r \in Readers, ReadByte(r)
      PROVE  TypeOK'
    <2>1. pc' \in [Threads -> {"idle", "ioctl", "rlock", "read", "prefill",
                            "prefilling", "select", "ready", "reading",
                            "write", "writing", "wlock", "drain", "done"}]
        BY <1>21 DEF ReadByte, Go, EndLine
    <2>2. readLock' \in Threads \cup {NULL, Control}
        BY <1>21 DEF ReadByte, EndLine
    <2>3. moved' \in [Threads -> Nat]
        BY <1>21 DEF ReadByte, EndLine, Moved
    <2>4. touched' \in [Threads -> SUBSET ({Other} \cup (1 .. opens))]
        <3>1. \/ touched' = touched
              \/ /\ arg[r] \in Numbers /\ file[arg[r]] # Unused
                 /\ touched' = [touched EXCEPT ![r] =
                                  touched[r] \cup {file[arg[r]]}]
            BY <1>21 DEF ReadByte, Move, Valid, EndLine
        <3>2. file[arg[r]] # Unused /\ arg[r] \in Numbers =>
                file[arg[r]] \in {Other} \cup (1 .. opens)
            OBVIOUS
        <3> QED
            BY <3>1, <3>2
    <2>5. arg' \in [Threads -> Numbers \cup {NoFd}]
        BY <1>21 DEF ReadByte
    <2>6. UNCHANGED <<isOpen, fd, writeLock, kernel, control, traces>>
        BY <1>21 DEF ReadByte
    <2> QED
        BY <2>1, <2>2, <2>3, <2>4, <2>5, <2>6
<1>22. ASSUME NEW w \in Writers, Write(w)
      PROVE  TypeOK'
    BY <1>22 DEF Write, Start, Go, Closing
<1>23. ASSUME NEW w \in Writers, WriteTest(w)
      PROVE  TypeOK'
    <2>1. pc' \in [Threads -> {"idle", "ioctl", "rlock", "read", "prefill",
                            "prefilling", "select", "ready", "reading",
                            "write", "writing", "wlock", "drain", "done"}]
        BY <1>23 DEF WriteTest, Go, EndWrite
    <2>2. writeLock' \in Threads \cup {NULL, Control}
        BY <1>23 DEF WriteTest, EndWrite
    <2>3. moved' \in [Threads -> Nat]
        BY <1>23 DEF WriteTest, EndWrite, Moved
    <2>4. UNCHANGED <<isOpen, fd, readLock, kernel, control, arg, touched, traces>>
        BY <1>23 DEF WriteTest
    <2> QED
        BY <2>1, <2>2, <2>3, <2>4
<1>24. ASSUME NEW w \in Writers, SelectWrite(w)
      PROVE  TypeOK'
    BY <1>24, SMTT(30) DEF SelectWrite, Go, Valid, EndWrite, Moved
<1>25. ASSUME NEW w \in Writers, Load(w, "ready", "writing")
      PROVE  TypeOK'
    BY <1>25 DEF Load, Go
<1>26. ASSUME NEW w \in Writers, WriteBytes(w)
      PROVE  TypeOK'
    <2>1. pc' \in [Threads -> {"idle", "ioctl", "rlock", "read", "prefill",
                            "prefilling", "select", "ready", "reading",
                            "write", "writing", "wlock", "drain", "done"}]
        BY <1>26 DEF WriteBytes, Go, EndWrite
    <2>2. writeLock' \in Threads \cup {NULL, Control}
        BY <1>26 DEF WriteBytes, EndWrite
    <2>3. moved' \in [Threads -> Nat]
        BY <1>26 DEF WriteBytes, EndWrite, Moved
    <2>4. touched' \in [Threads -> SUBSET ({Other} \cup (1 .. opens))]
        <3>1. \/ touched' = touched
              \/ /\ arg[w] \in Numbers /\ file[arg[w]] # Unused
                 /\ touched' = [touched EXCEPT ![w] =
                                  touched[w] \cup {file[arg[w]]}]
            BY <1>26 DEF WriteBytes, Move, Valid, EndWrite
        <3>2. file[arg[w]] # Unused /\ arg[w] \in Numbers =>
                file[arg[w]] \in {Other} \cup (1 .. opens)
            OBVIOUS
        <3>3. touched[w] \cup {file[arg[w]]} \in SUBSET ({Other} \cup (1 .. opens))
                \/ touched' = touched
            BY <3>1, <3>2
        <3> QED
            BY <3>1, <3>3
    <2>5. arg' \in [Threads -> Numbers \cup {NoFd}]
        BY <1>26 DEF WriteBytes
    <2>6. wire' \in Seq(Writers)
        <3>1. wire' = wire \/ wire' = Append(wire, w)
            BY <1>26 DEF WriteBytes
        <3>2. wire \in Seq(Writers)
            OBVIOUS
        <3>3. Append(wire, w) \in Seq(Writers)
            BY ONLY <3>2, AppendType, w \in Writers
        <3> QED
            BY ONLY <3>1, <3>2, <3>3
    <2>7. UNCHANGED <<isOpen, fd, readLock, kernel, control, lost, cut, botched>>
        BY <1>26 DEF WriteBytes
    <2> QED
        BY <2>1, <2>2, <2>3, <2>4, <2>5, <2>6, <2>7
<1>27. ASSUME NEW d \in Drains, Drain(d) PROVE TypeOK'
    BY <1>27 DEF Drain, DrainLocks, Drained, Go
<1>28. ASSUME NEW n \in Numbers, OtherFile(n) PROVE TypeOK'
    BY <1>28 DEF OtherFile, Free
<1>29. CASE UNCHANGED vars
    BY <1>29 DEF vars
<1> QED
    BY <1>1, <1>2, <1>3, <1>4, <1>5, <1>6, <1>7, <1>8, <1>9, <1>10, <1>11,
       <1>12, <1>13, <1>14, <1>15, <1>16, <1>17, <1>18, <1>19, <1>20, <1>21,
       <1>22, <1>23, <1>24, <1>25, <1>26, <1>27, <1>28, <1>29
    DEF Next, InCall, Reader, Writer

(* A thread holds a lock exactly where its program counter says so.        *)
LEMMA LockStep == TypeOK /\ LockInv /\ PhaseInv /\ [Next]_vars => LockInv'
<1> SUFFICES ASSUME TypeOK, LockInv, PhaseInv, [Next]_vars PROVE LockInv'
    OBVIOUS
<1> USE DEF TypeOK, LockInv, PhaseInv, Reading, Writing, kernel, control,
            thread, traces
<1>1. CASE Connect
    BY <1>1 DEF Connect
<1>2. CASE Disconnect
    BY <1>2 DEF Disconnect
<1>3. CASE LockRead
    BY <1>3 DEF LockRead, TakeReadLock, Continue
<1>4. CASE LockWrite
    BY <1>4 DEF LockWrite, Continue
<1>5. CASE SetPort
    BY <1>5 DEF SetPort, Continue, LetGo
<1>6. CASE Close
    BY <1>6 DEF Close, Continue, CallEnds, LetGo, Valid
<1>7. CASE Forget
    BY <1>7 DEF Forget, Continue
<1>8. CASE Closed
    BY <1>8 DEF Closed, Continue
<1>9. CASE SetBaudrate
    BY <1>9 DEF SetBaudrate, Continue
<1>10. CASE Open
    BY <1>10 DEF Open, Continue, CallEnds, LetGo
<1>11. CASE OpenFd
    BY <1>11 DEF OpenFd, Continue, CallEnds, LetGo, Free
<1>12. CASE Configure
    BY <1>12 DEF Configure, Continue, CallEnds, LetGo
<1>13. CASE Opened
    BY <1>13 DEF Opened, Continue, LetGo
<1>14. ASSUME NEW r \in Readers, Available(r)
      PROVE  LockInv'
    BY <1>14 DEF Available, Go
<1>15. ASSUME NEW r \in Readers, Ioctl(r)
      PROVE  LockInv'
    <2>1. UNCHANGED <<readLock, writeLock, control, touched>>
        BY <1>15 DEF Ioctl
    <2>2. pc[r] = "ioctl" /\ \E where \in {"idle", "rlock"} :
                                pc' = [pc EXCEPT ![r] = where]
        BY <1>15 DEF Ioctl, Go
    <2> QED
        BY <2>1, <2>2
<1>16. ASSUME NEW r \in Readers, ReadLine(r)
      PROVE  LockInv'
    BY <1>16 DEF ReadLine, Start, Go, Closing
<1>17. ASSUME NEW r \in Readers, ReadTest(r)
      PROVE  LockInv'
    BY <1>17 DEF ReadTest, Go, EndLine, Moved
<1>18. ASSUME NEW r \in Readers, SelectRead(r)
      PROVE  LockInv'
    BY <1>18 DEF SelectRead, Go, Valid, EndLine, Moved
<1>19. ASSUME NEW r \in Readers, Load(r, "prefill", "prefilling")
      PROVE  LockInv'
    BY <1>19 DEF Load, Go
<1>20. ASSUME NEW r \in Readers, Load(r, "ready", "reading")
      PROVE  LockInv'
    BY <1>20 DEF Load, Go
<1>21. ASSUME NEW r \in Readers, ReadByte(r)
      PROVE  LockInv'
    <2>1. readLock = r /\ pc[r] \in {"prefilling", "reading"}
        BY <1>21 DEF ReadByte
    <2>2. /\ UNCHANGED <<writeLock, control>>
          /\ \A d \in Drains : touched'[d] = touched[d]
        BY <1>21 DEF ReadByte, Move, EndLine
    <2>3. CASE pc' = [pc EXCEPT ![r] = "idle"] /\ readLock' = NULL
        BY <2>1, <2>2, <2>3
    <2>4. CASE \E where \in {"read", "select"} :
                 pc' = [pc EXCEPT ![r] = where] /\ readLock' = readLock
        BY <2>1, <2>2, <2>4
    <2> QED
        BY <1>21, <2>3, <2>4 DEF ReadByte, EndLine, Go
<1>22. ASSUME NEW w \in Writers, Write(w)
      PROVE  LockInv'
    BY <1>22 DEF Write, Start, Go, Closing
<1>23. ASSUME NEW w \in Writers, WriteTest(w)
      PROVE  LockInv'
    BY <1>23 DEF WriteTest, Go, EndWrite, Moved
<1>24. ASSUME NEW w \in Writers, SelectWrite(w)
      PROVE  LockInv'
    BY <1>24 DEF SelectWrite, Go, Valid, EndWrite, Moved
<1>25. ASSUME NEW w \in Writers, Load(w, "ready", "writing")
      PROVE  LockInv'
    BY <1>25 DEF Load, Go
<1>26. ASSUME NEW w \in Writers, WriteBytes(w)
      PROVE  LockInv'
    <2>1. writeLock = w /\ pc[w] \in {"writing"}
        BY <1>26 DEF WriteBytes
    <2>2. /\ UNCHANGED <<readLock, control>>
          /\ \A d \in Drains : touched'[d] = touched[d]
        BY <1>26 DEF WriteBytes, Move, EndWrite
    <2>3. CASE pc' = [pc EXCEPT ![w] = "done"] /\ writeLock' = NULL
        BY <2>1, <2>2, <2>3
    <2>4. CASE \E where \in {"select"} :
                 pc' = [pc EXCEPT ![w] = where] /\ writeLock' = writeLock
        BY <2>1, <2>2, <2>4
    <2> QED
        BY <1>26, <2>3, <2>4 DEF WriteBytes, EndWrite, Go
<1>27. ASSUME NEW d \in Drains, Drain(d) PROVE LockInv'
    <2>1. UNCHANGED <<control, moved, touched>>
        BY <1>27 DEF Drain
    <2>2. CASE pc[d] = "idle" /\ readLock = NULL /\ readLock' = d
               /\ pc' = [pc EXCEPT ![d] = "wlock"] /\ writeLock' = writeLock
        BY <2>1, <2>2
    <2>3. CASE pc[d] = "wlock" /\ writeLock = NULL /\ writeLock' = d
               /\ pc' = [pc EXCEPT ![d] = "drain"] /\ readLock' = readLock
        BY <2>1, <2>3
    <2>4. CASE pc[d] = "drain" /\ pc' = [pc EXCEPT ![d] = "done"]
               /\ readLock' = NULL /\ writeLock' = NULL
        BY <2>1, <2>4
    <2> QED
        BY <1>27, <2>2, <2>3, <2>4 DEF Drain, DrainLocks, Drained, Go
<1>28. ASSUME NEW n \in Numbers, OtherFile(n) PROVE LockInv'
    BY <1>28 DEF OtherFile, Free
<1>29. CASE UNCHANGED vars
    BY <1>29 DEF vars
<1> QED
    BY <1>1, <1>2, <1>3, <1>4, <1>5, <1>6, <1>7, <1>8, <1>9, <1>10, <1>11,
       <1>12, <1>13, <1>14, <1>15, <1>16, <1>17, <1>18, <1>19, <1>20, <1>21,
       <1>22, <1>23, <1>24, <1>25, <1>26, <1>27, <1>28, <1>29
    DEF Next, InCall, Reader, Writer

(* is_open_ and fd_ agree with the place of the application thread.        *)
LEMMA PhaseStep == TypeOK /\ LockInv /\ PhaseInv /\ [Next]_vars => PhaseInv'
<1> SUFFICES ASSUME TypeOK, LockInv, PhaseInv, [Next]_vars PROVE PhaseInv'
    OBVIOUS
<1> USE DEF TypeOK, LockInv, PhaseInv, Last, kernel, control, thread, traces
<1>1. CASE Connect
    BY <1>1 DEF Connect
<1>2. CASE Disconnect
    BY <1>2 DEF Disconnect
<1>3. CASE LockRead
    BY <1>3 DEF LockRead, TakeReadLock, Continue
<1>4. CASE LockWrite
    BY <1>4 DEF LockWrite, Continue
<1>5. CASE SetPort
    BY <1>5 DEF SetPort, Continue, LetGo
<1>6. CASE Close
    BY <1>6 DEF Close, Continue, CallEnds, LetGo, Valid
<1>7. CASE Forget
    BY <1>7 DEF Forget, Continue
<1>8. CASE Closed
    BY <1>8 DEF Closed, Continue
<1>9. CASE SetBaudrate
    BY <1>9 DEF SetBaudrate, Continue
<1>10. CASE Open
    BY <1>10 DEF Open, Continue, CallEnds, LetGo
<1>11. CASE OpenFd
    BY <1>11 DEF OpenFd, Continue, CallEnds, LetGo, Free
<1>12. CASE Configure
    BY <1>12 DEF Configure, Continue, CallEnds, LetGo
<1>13. CASE Opened
    BY <1>13 DEF Opened, Continue, LetGo
<1>14. CASE ThreadStep
    BY <1>14, ThreadFrame
<1>15. ASSUME NEW n \in Numbers, OtherFile(n) PROVE PhaseInv'
    BY <1>15 DEF OtherFile, Free
<1>16. CASE UNCHANGED vars
    BY <1>16 DEF vars
<1> QED
    BY <1>1, <1>2, <1>3, <1>4, <1>5, <1>6, <1>7, <1>8, <1>9, <1>10, <1>11,
       <1>12, <1>13, <1>14, <1>15, <1>16
    DEF Next, InCall, ThreadStep

(* On the way to open(), connect() finds nobody past the test of is_open_. *)
LEMMA QuietStep ==
    TypeOK /\ LockInv /\ PhaseInv /\ QuietInv /\ [Next]_vars =>
        QuietInv'
<1> SUFFICES ASSUME TypeOK, LockInv, PhaseInv, QuietInv, [Next]_vars
             PROVE  QuietInv'
    OBVIOUS
<1> USE DEF TypeOK, LockInv, PhaseInv, QuietInv, OpeningSoon, Reading,
            Writing, Tested, Called, kernel, control, thread, traces
<1>1. CASE Connect
    BY <1>1 DEF Connect
<1>2. CASE Disconnect
    BY <1>2 DEF Disconnect
<1>3. CASE LockRead
    BY <1>3 DEF LockRead, TakeReadLock, Continue
<1>4. CASE LockWrite
    BY <1>4 DEF LockWrite, Continue
<1>5. CASE SetPort
    BY <1>5 DEF SetPort, Continue, LetGo
<1>6. CASE Close
    BY <1>6 DEF Close, Continue, CallEnds, LetGo, Valid
<1>7. CASE Forget
    BY <1>7 DEF Forget, Continue
<1>8. CASE Closed
    BY <1>8 DEF Closed, Continue
<1>9. CASE SetBaudrate
    BY <1>9 DEF SetBaudrate, Continue
<1>10. CASE Open
    BY <1>10 DEF Open, Continue, CallEnds, LetGo
<1>11. CASE OpenFd
    BY <1>11 DEF OpenFd, Continue, CallEnds, LetGo, Free
<1>12. CASE Configure
    BY <1>12 DEF Configure, Continue, CallEnds, LetGo
<1>13. CASE Opened
    BY <1>13 DEF Opened, Continue, LetGo
<1>14. ASSUME NEW r \in Readers, Available(r)
      PROVE  QuietInv'
    BY <1>14 DEF Available, Go
<1>15. ASSUME NEW r \in Readers, Ioctl(r)
      PROVE  QuietInv'
    BY <1>15 DEF Ioctl, Go, Valid
<1>16. ASSUME NEW r \in Readers, ReadLine(r)
      PROVE  QuietInv'
    BY <1>16 DEF ReadLine, Start, Go, Closing
<1>17. ASSUME NEW r \in Readers, ReadTest(r)
      PROVE  QuietInv'
    BY <1>17 DEF ReadTest, Go, EndLine, Moved
<1>18. ASSUME NEW r \in Readers, SelectRead(r)
      PROVE  QuietInv'
    BY <1>18 DEF SelectRead, Go, Valid, EndLine, Moved
<1>19. ASSUME NEW r \in Readers, Load(r, "prefill", "prefilling")
      PROVE  QuietInv'
    BY <1>19 DEF Load, Go
<1>20. ASSUME NEW r \in Readers, Load(r, "ready", "reading")
      PROVE  QuietInv'
    BY <1>20 DEF Load, Go
<1>21. ASSUME NEW r \in Readers, ReadByte(r)
      PROVE  QuietInv'
    BY <1>21 DEF ReadByte, Move, Valid, Go, EndLine, Moved
<1>22. ASSUME NEW w \in Writers, Write(w)
      PROVE  QuietInv'
    BY <1>22 DEF Write, Start, Go, Closing
<1>23. ASSUME NEW w \in Writers, WriteTest(w)
      PROVE  QuietInv'
    BY <1>23 DEF WriteTest, Go, EndWrite, Moved
<1>24. ASSUME NEW w \in Writers, SelectWrite(w)
      PROVE  QuietInv'
    BY <1>24 DEF SelectWrite, Go, Valid, EndWrite, Moved
<1>25. ASSUME NEW w \in Writers, Load(w, "ready", "writing")
      PROVE  QuietInv'
    BY <1>25 DEF Load, Go
<1>26. ASSUME NEW w \in Writers, WriteBytes(w)
      PROVE  QuietInv'
    BY <1>26 DEF WriteBytes, Move, Valid, Go, EndWrite, Moved
<1>27. ASSUME NEW d \in Drains, Drain(d) PROVE QuietInv'
    BY <1>27 DEF Drain, DrainLocks, Drained, Go
<1>28. ASSUME NEW n \in Numbers, OtherFile(n) PROVE QuietInv'
    BY <1>28 DEF OtherFile, Free
<1>29. CASE UNCHANGED vars
    BY <1>29 DEF vars
<1> QED
    BY <1>1, <1>2, <1>3, <1>4, <1>5, <1>6, <1>7, <1>8, <1>9, <1>10, <1>11,
       <1>12, <1>13, <1>14, <1>15, <1>16, <1>17, <1>18, <1>19, <1>20, <1>21,
       <1>22, <1>23, <1>24, <1>25, <1>26, <1>27, <1>28, <1>29
    DEF Next, InCall, Reader, Writer

(* No number in use stands for an opening before the last one.             *)
LEMMA FileStep ==
    TypeOK /\ LockInv /\ PhaseInv /\ QuietInv /\ FileInv /\ [Next]_vars =>
        FileInv'
<1> SUFFICES ASSUME TypeOK, LockInv, PhaseInv, QuietInv, FileInv, [Next]_vars
             PROVE  FileInv'
    OBVIOUS
<1> USE DEF TypeOK, LockInv, PhaseInv, QuietInv, FileInv, Last, OpeningSoon,
            Reading, Writing, Tested, Called, kernel, control, thread, traces
<1>1. CASE Connect
    BY <1>1 DEF Connect
<1>2. CASE Disconnect
    BY <1>2 DEF Disconnect
<1>3. CASE LockRead
    BY <1>3 DEF LockRead, TakeReadLock, Continue
<1>4. CASE LockWrite
    BY <1>4 DEF LockWrite, Continue
<1>5. CASE SetPort
    BY <1>5 DEF SetPort, Continue, LetGo
<1>6. CASE Close
    <2>1. UNCHANGED <<fd, opens, thread>>
        BY <1>6 DEF Close
    <2>2. \A n \in Numbers : file'[n] \in {Unused, file[n]}
        BY <1>6 DEF Close, Valid
    <2>3. readLock' \in {NULL, readLock} /\ writeLock' \in {NULL, writeLock}
        BY <1>6 DEF Close, CallEnds, LetGo
    <2>4. ASSUME NEW t \in Threads, pc[t] \in Called, arg[t] # NoFd
          PROVE  file'[arg[t]] \in {Unused, Other, opens}
        <3>1. arg[t] \in Numbers /\ file[arg[t]] \in {Unused, Other, opens}
            BY <2>4
        <3> QED
            BY <2>2, <3>1
    <2>5. fd # NoFd => file'[fd] \in {Unused, Other, opens}
        BY <2>2
    <2> QED
        BY <2>1, <2>3, <2>4, <2>5
<1>7. CASE Forget
    BY <1>7 DEF Forget, Continue
<1>8. CASE Closed
    BY <1>8 DEF Closed, Continue
<1>9. CASE SetBaudrate
    BY <1>9 DEF SetBaudrate, Continue
<1>10. CASE Open
    BY <1>10 DEF Open, Continue, CallEnds, LetGo
<1>11. CASE OpenFd
    <2>1. \A t \in Threads : /\ pc[t] \notin Called
                             /\ t \in {readLock, writeLock} => touched[t] = {}
        BY <1>11 DEF OpenFd
    <2>2. UNCHANGED thread
        BY <1>11 DEF OpenFd
    <2>3. readLock' \in {NULL, readLock} /\ writeLock' \in {NULL, writeLock}
        BY <1>11 DEF OpenFd, CallEnds, LetGo
    <2>4. fd' # NoFd => file'[fd'] = opens'
        BY <1>11 DEF OpenFd
    <2> QED
        BY <2>1, <2>2, <2>3, <2>4
<1>12. CASE Configure
    BY <1>12 DEF Configure, Continue, CallEnds, LetGo
<1>13. CASE Opened
    BY <1>13 DEF Opened, Continue, LetGo
<1>14. ASSUME NEW r \in Readers, Available(r)
      PROVE  FileInv'
    BY <1>14 DEF Available, Go
<1>15. ASSUME NEW r \in Readers, Ioctl(r)
      PROVE  FileInv'
    BY <1>15 DEF Ioctl, Go, Valid
<1>16. ASSUME NEW r \in Readers, ReadLine(r)
      PROVE  FileInv'
    BY <1>16 DEF ReadLine, Start, Go, Closing
<1>17. ASSUME NEW r \in Readers, ReadTest(r)
      PROVE  FileInv'
    BY <1>17 DEF ReadTest, Go, EndLine, Moved
<1>18. ASSUME NEW r \in Readers, SelectRead(r)
      PROVE  FileInv'
    BY <1>18 DEF SelectRead, Go, Valid, EndLine, Moved
<1>19. ASSUME NEW r \in Readers, Load(r, "prefill", "prefilling")
      PROVE  FileInv'
    BY <1>19 DEF Load, Go
<1>20. ASSUME NEW r \in Readers, Load(r, "ready", "reading")
      PROVE  FileInv'
    BY <1>20 DEF Load, Go
<1>21. ASSUME NEW r \in Readers, ReadByte(r)
      PROVE  FileInv'
    BY <1>21, SMTT(30) DEF ReadByte, Move, Valid, Go, EndLine, Moved
<1>22. ASSUME NEW w \in Writers, Write(w)
      PROVE  FileInv'
    BY <1>22 DEF Write, Start, Go, Closing
<1>23. ASSUME NEW w \in Writers, WriteTest(w)
      PROVE  FileInv'
    BY <1>23 DEF WriteTest, Go, EndWrite, Moved
<1>24. ASSUME NEW w \in Writers, SelectWrite(w)
      PROVE  FileInv'
    BY <1>24 DEF SelectWrite, Go, Valid, EndWrite, Moved
<1>25. ASSUME NEW w \in Writers, Load(w, "ready", "writing")
      PROVE  FileInv'
    BY <1>25 DEF Load, Go
<1>26. ASSUME NEW w \in Writers, WriteBytes(w)
      PROVE  FileInv'
    BY <1>26 DEF WriteBytes, Move, Valid, Go, EndWrite, Moved
<1>27. ASSUME NEW d \in Drains, Drain(d) PROVE FileInv'
    BY <1>27 DEF Drain, DrainLocks, Drained, Go
<1>28. ASSUME NEW n \in Numbers, OtherFile(n) PROVE FileInv'
    <2>1. UNCHANGED <<fd, opens, thread, readLock, writeLock>>
        BY <1>28 DEF OtherFile
    <2>2. \A m \in Numbers : file'[m] \in {Unused, Other, file[m]}
        BY <1>28 DEF OtherFile
    <2>3. ASSUME NEW t \in Threads, pc[t] \in Called, arg[t] # NoFd
          PROVE  file'[arg[t]] \in {Unused, Other, opens}
        <3>1. arg[t] \in Numbers /\ file[arg[t]] \in {Unused, Other, opens}
            BY <2>3
        <3> QED
            BY <2>2, <3>1
    <2>4. fd # NoFd => file'[fd] \in {Unused, Other, opens}
        BY <2>2
    <2> QED
        BY <2>1, <2>3, <2>4
<1>29. CASE UNCHANGED vars
    BY <1>29 DEF vars
<1> QED
    BY <1>1, <1>2, <1>3, <1>4, <1>5, <1>6, <1>7, <1>8, <1>9, <1>10, <1>11,
       <1>12, <1>13, <1>14, <1>15, <1>16, <1>17, <1>18, <1>19, <1>20, <1>21,
       <1>22, <1>23, <1>24, <1>25, <1>26, <1>27, <1>28, <1>29
    DEF Next, InCall, Reader, Writer

(* A descriptor held on a closed port belongs to a failed configuration.   *)
LEMMA HalfOpenStep ==
    TypeOK /\ LockInv /\ PhaseInv /\ HalfOpenInv /\ [Next]_vars =>
        HalfOpenInv'
<1> SUFFICES ASSUME TypeOK, LockInv, PhaseInv, HalfOpenInv, [Next]_vars
             PROVE  HalfOpenInv'
    OBVIOUS
<1> USE DEF TypeOK, PhaseInv, HalfOpenInv, Last, kernel, control, thread,
            traces
<1>1. CASE Connect
    BY <1>1 DEF Connect
<1>2. CASE Disconnect
    BY <1>2 DEF Disconnect
<1>3. CASE LockRead
    BY <1>3 DEF LockRead, TakeReadLock, Continue
<1>4. CASE LockWrite
    BY <1>4 DEF LockWrite, Continue
<1>5. CASE SetPort
    BY <1>5 DEF SetPort, Continue, LetGo
<1>6. CASE Close
    BY <1>6 DEF Close, Continue, CallEnds, LetGo, Valid
<1>7. CASE Forget
    BY <1>7 DEF Forget, Continue
<1>8. CASE Closed
    BY <1>8 DEF Closed, Continue
<1>9. CASE SetBaudrate
    BY <1>9 DEF SetBaudrate, Continue
<1>10. CASE Open
    BY <1>10 DEF Open, Continue, CallEnds, LetGo
<1>11. CASE OpenFd
    BY <1>11 DEF OpenFd, Continue, CallEnds, LetGo, Free
<1>12. CASE Configure
    BY <1>12 DEF Configure, Continue, CallEnds, LetGo
<1>13. CASE Opened
    BY <1>13 DEF Opened, Continue, LetGo
<1>14. CASE ThreadStep
    BY <1>14, ThreadFrame
<1>15. ASSUME NEW n \in Numbers, OtherFile(n) PROVE HalfOpenInv'
    BY <1>15 DEF OtherFile, Free
<1>16. CASE UNCHANGED vars
    BY <1>16 DEF vars
<1> QED
    BY <1>1, <1>2, <1>3, <1>4, <1>5, <1>6, <1>7, <1>8, <1>9, <1>10, <1>11,
       <1>12, <1>13, <1>14, <1>15, <1>16
    DEF Next, InCall, ThreadStep

(* A transfer that disconnect() has not cut has the last opening behind it.*)
LEMMA SoundStep ==
    TypeOK /\ LockInv /\ PhaseInv /\ QuietInv /\ SoundInv /\ [Next]_vars =>
        SoundInv'
<1> SUFFICES ASSUME TypeOK, LockInv, PhaseInv, QuietInv, SoundInv, [Next]_vars
             PROVE  SoundInv'
    OBVIOUS
<1> USE DEF TypeOK, LockInv, PhaseInv, QuietInv, SoundInv, Last, OpeningSoon,
            Reading, Writing, Tested, Called, kernel, control, thread, traces
<1>1. CASE Connect
    BY <1>1 DEF Connect
<1>2. CASE Disconnect
    BY <1>2 DEF Disconnect
<1>3. CASE LockRead
    BY <1>3 DEF LockRead, TakeReadLock, Continue
<1>4. CASE LockWrite
    BY <1>4 DEF LockWrite, Continue
<1>5. CASE SetPort
    BY <1>5 DEF SetPort, Continue, LetGo
<1>6. CASE Close
    BY <1>6 DEF Close, Continue, CallEnds, LetGo, Valid
<1>7. CASE Forget
    BY <1>7 DEF Forget, Continue
<1>8. CASE Closed
    BY <1>8 DEF Closed, Continue
<1>9. CASE SetBaudrate
    BY <1>9 DEF SetBaudrate, Continue
<1>10. CASE Open
    BY <1>10 DEF Open, Continue, CallEnds, LetGo
<1>11. CASE OpenFd
    BY <1>11 DEF OpenFd, Continue, CallEnds, LetGo, Free
<1>12. CASE Configure
    BY <1>12 DEF Configure, Continue, CallEnds, LetGo
<1>13. CASE Opened
    BY <1>13 DEF Opened, Continue, LetGo
<1>14. ASSUME NEW r \in Readers, Available(r)
      PROVE  SoundInv'
    BY <1>14 DEF Available, Go
<1>15. ASSUME NEW r \in Readers, Ioctl(r)
      PROVE  SoundInv'
    BY <1>15 DEF Ioctl, Go, Valid
<1>16. ASSUME NEW r \in Readers, ReadLine(r)
      PROVE  SoundInv'
    BY <1>16 DEF ReadLine, Start, Go, Closing
<1>17. ASSUME NEW r \in Readers, ReadTest(r)
      PROVE  SoundInv'
    BY <1>17 DEF ReadTest, Go, EndLine, Moved
<1>18. ASSUME NEW r \in Readers, SelectRead(r)
      PROVE  SoundInv'
    BY <1>18 DEF SelectRead, Go, Valid, EndLine, Moved
<1>19. ASSUME NEW r \in Readers, Load(r, "prefill", "prefilling")
      PROVE  SoundInv'
    BY <1>19 DEF Load, Go
<1>20. ASSUME NEW r \in Readers, Load(r, "ready", "reading")
      PROVE  SoundInv'
    BY <1>20 DEF Load, Go
<1>21. ASSUME NEW r \in Readers, ReadByte(r)
      PROVE  SoundInv'
    BY <1>21 DEF ReadByte, Move, Valid, Go, EndLine, Moved
<1>22. ASSUME NEW w \in Writers, Write(w)
      PROVE  SoundInv'
    BY <1>22 DEF Write, Start, Go, Closing
<1>23. ASSUME NEW w \in Writers, WriteTest(w)
      PROVE  SoundInv'
    BY <1>23 DEF WriteTest, Go, EndWrite, Moved
<1>24. ASSUME NEW w \in Writers, SelectWrite(w)
      PROVE  SoundInv'
    BY <1>24 DEF SelectWrite, Go, Valid, EndWrite, Moved
<1>25. ASSUME NEW w \in Writers, Load(w, "ready", "writing")
      PROVE  SoundInv'
    BY <1>25 DEF Load, Go
<1>26. ASSUME NEW w \in Writers, WriteBytes(w)
      PROVE  SoundInv'
    BY <1>26 DEF WriteBytes, Move, Valid, Go, EndWrite, Moved
<1>27. ASSUME NEW d \in Drains, Drain(d) PROVE SoundInv'
    BY <1>27 DEF Drain, DrainLocks, Drained, Go
<1>28. ASSUME NEW n \in Numbers, OtherFile(n) PROVE SoundInv'
    BY <1>28 DEF OtherFile, Free
<1>29. CASE UNCHANGED vars
    BY <1>29 DEF vars
<1> QED
    BY <1>1, <1>2, <1>3, <1>4, <1>5, <1>6, <1>7, <1>8, <1>9, <1>10, <1>11,
       <1>12, <1>13, <1>14, <1>15, <1>16, <1>17, <1>18, <1>19, <1>20, <1>21,
       <1>22, <1>23, <1>24, <1>25, <1>26, <1>27, <1>28, <1>29
    DEF Next, InCall, Reader, Writer

(* A transfer adds only the last opening to what it has touched.           *)
LEMMA OneStep ==
    TypeOK /\ LockInv /\ FileInv /\ OneOpening /\ [Next]_vars =>
        OneOpening'
<1> SUFFICES ASSUME TypeOK, LockInv, FileInv, OneOpening, [Next]_vars
             PROVE  OneOpening'
    OBVIOUS
<1> USE DEF TypeOK, LockInv, FileInv, OneOpening, Reading, Writing, Called,
            kernel, control, thread, traces
<1>1. CASE ControlStep
    BY <1>1, ControlFrame
<1>2. ASSUME NEW r \in Readers, Available(r)
      PROVE  OneOpening'
    BY <1>2 DEF Available, Go
<1>3. ASSUME NEW r \in Readers, Ioctl(r)
      PROVE  OneOpening'
    BY <1>3 DEF Ioctl, Go, Valid
<1>4. ASSUME NEW r \in Readers, ReadLine(r)
      PROVE  OneOpening'
    BY <1>4 DEF ReadLine, Start, Go, Closing
<1>5. ASSUME NEW r \in Readers, ReadTest(r)
      PROVE  OneOpening'
    BY <1>5 DEF ReadTest, Go, EndLine, Moved
<1>6. ASSUME NEW r \in Readers, SelectRead(r)
      PROVE  OneOpening'
    BY <1>6 DEF SelectRead, Go, Valid, EndLine, Moved
<1>7. ASSUME NEW r \in Readers, Load(r, "prefill", "prefilling")
      PROVE  OneOpening'
    BY <1>7 DEF Load, Go
<1>8. ASSUME NEW r \in Readers, Load(r, "ready", "reading")
      PROVE  OneOpening'
    BY <1>8 DEF Load, Go
<1>9. ASSUME NEW r \in Readers, ReadByte(r)
      PROVE  OneOpening'
    <2>1. readLock = r /\ pc[r] \in Called
        BY <1>9 DEF ReadByte
    <2>2. touched[r] \subseteq {Other, opens}
        BY <2>1
    <2>3. arg[r] # NoFd => file[arg[r]] \in {Unused, Other, opens}
        BY <2>1
    <2>4. \/ touched' = touched
          \/ /\ arg[r] # NoFd /\ file[arg[r]] # Unused
             /\ touched' = [touched EXCEPT ![r] =
                              touched[r] \cup {file[arg[r]]}]
        BY <1>9 DEF ReadByte, Move, Valid, EndLine
    <2>5. /\ touched'[r] \subseteq {Other, opens}
          /\ \A t \in Threads : t # r => touched'[t] = touched[t]
        BY <2>2, <2>3, <2>4
    <2>6. ASSUME NEW t \in Threads, NEW a \in touched'[t] \ {Other},
                 NEW b \in touched'[t] \ {Other}
          PROVE  a = b
        <3>1. CASE t = r
            BY <2>5, <2>6, <3>1
        <3>2. CASE t # r
            BY <2>5, <2>6, <3>2
        <3> QED
            BY <3>1, <3>2
    <2> QED
        BY <2>6
<1>10. ASSUME NEW w \in Writers, Write(w)
      PROVE  OneOpening'
    BY <1>10 DEF Write, Start, Go, Closing
<1>11. ASSUME NEW w \in Writers, WriteTest(w)
      PROVE  OneOpening'
    BY <1>11 DEF WriteTest, Go, EndWrite, Moved
<1>12. ASSUME NEW w \in Writers, SelectWrite(w)
      PROVE  OneOpening'
    BY <1>12 DEF SelectWrite, Go, Valid, EndWrite, Moved
<1>13. ASSUME NEW w \in Writers, Load(w, "ready", "writing")
      PROVE  OneOpening'
    BY <1>13 DEF Load, Go
<1>14. ASSUME NEW w \in Writers, WriteBytes(w)
      PROVE  OneOpening'
    <2>1. writeLock = w /\ pc[w] \in Called
        BY <1>14 DEF WriteBytes
    <2>2. touched[w] \subseteq {Other, opens}
        BY <2>1
    <2>3. arg[w] # NoFd => file[arg[w]] \in {Unused, Other, opens}
        BY <2>1
    <2>4. \/ touched' = touched
          \/ /\ arg[w] # NoFd /\ file[arg[w]] # Unused
             /\ touched' = [touched EXCEPT ![w] =
                              touched[w] \cup {file[arg[w]]}]
        BY <1>14 DEF WriteBytes, Move, Valid, EndWrite
    <2>5. /\ touched'[w] \subseteq {Other, opens}
          /\ \A t \in Threads : t # w => touched'[t] = touched[t]
        BY <2>2, <2>3, <2>4
    <2>6. ASSUME NEW t \in Threads, NEW a \in touched'[t] \ {Other},
                 NEW b \in touched'[t] \ {Other}
          PROVE  a = b
        <3>1. CASE t = w
            BY <2>5, <2>6, <3>1
        <3>2. CASE t # w
            BY <2>5, <2>6, <3>2
        <3> QED
            BY <3>1, <3>2
    <2> QED
        BY <2>6
<1>15. ASSUME NEW d \in Drains, Drain(d) PROVE OneOpening'
    BY <1>15 DEF Drain, DrainLocks, Drained, Go
<1>16. ASSUME NEW n \in Numbers, OtherFile(n) PROVE OneOpening'
    BY <1>16 DEF OtherFile, Free
<1>17. CASE UNCHANGED vars
    BY <1>17 DEF vars
<1> QED
    BY <1>1, <1>2, <1>3, <1>4, <1>5, <1>6, <1>7, <1>8, <1>9, <1>10, <1>11,
       <1>12, <1>13, <1>14, <1>15, <1>16, <1>17
    DEF Next, ControlStep, Reader, Writer

(* open() never overwrites the descriptor of a good opening.               *)
LEMMA AccountStep ==
    TypeOK /\ LockInv /\ PhaseInv /\ HalfOpenInv /\ DescriptorsAccounted
        /\ [Next]_vars =>
        DescriptorsAccounted'
<1> SUFFICES ASSUME TypeOK, LockInv, PhaseInv, HalfOpenInv, DescriptorsAccounted,
                    [Next]_vars
             PROVE  DescriptorsAccounted'
    OBVIOUS
<1> USE DEF TypeOK, PhaseInv, HalfOpenInv, DescriptorsAccounted, Last, kernel,
            control, thread, traces
<1>1. CASE Connect
    BY <1>1 DEF Connect
<1>2. CASE Disconnect
    BY <1>2 DEF Disconnect
<1>3. CASE LockRead
    BY <1>3 DEF LockRead, TakeReadLock, Continue
<1>4. CASE LockWrite
    BY <1>4 DEF LockWrite, Continue
<1>5. CASE SetPort
    BY <1>5 DEF SetPort, Continue, LetGo
<1>6. CASE Close
    BY <1>6 DEF Close, Continue, CallEnds, LetGo, Valid
<1>7. CASE Forget
    BY <1>7 DEF Forget, Continue
<1>8. CASE Closed
    BY <1>8 DEF Closed, Continue
<1>9. CASE SetBaudrate
    BY <1>9 DEF SetBaudrate, Continue
<1>10. CASE Open
    BY <1>10 DEF Open, Continue, CallEnds, LetGo
<1>11. CASE OpenFd
    BY <1>11 DEF OpenFd, Continue, CallEnds, LetGo, Free
<1>12. CASE Configure
    BY <1>12 DEF Configure, Continue, CallEnds, LetGo
<1>13. CASE Opened
    BY <1>13 DEF Opened, Continue, LetGo
<1>14. CASE ThreadStep
    BY <1>14, ThreadFrame
<1>15. ASSUME NEW n \in Numbers, OtherFile(n) PROVE DescriptorsAccounted'
    BY <1>15 DEF OtherFile, Free
<1>16. CASE UNCHANGED vars
    BY <1>16 DEF vars
<1> QED
    BY <1>1, <1>2, <1>3, <1>4, <1>5, <1>6, <1>7, <1>8, <1>9, <1>10, <1>11,
       <1>12, <1>13, <1>14, <1>15, <1>16
    DEF Next, InCall, ThreadStep

(* A transfer that is neither cut nor on a botched port stays on the port. *)
LEMMA StrayStep ==
    TypeOK /\ LockInv /\ SoundInv /\ StraysExplained /\ [Next]_vars =>
        StraysExplained'
<1> SUFFICES ASSUME TypeOK, LockInv, SoundInv, StraysExplained, [Next]_vars
             PROVE  StraysExplained'
    OBVIOUS
<1> USE DEF TypeOK, LockInv, SoundInv, StraysExplained, Last, Reading,
            Writing, Tested, Called, kernel, control, thread, traces
<1>1. CASE ControlStep
    BY <1>1, ControlFrame
<1>2. ASSUME NEW r \in Readers, Available(r)
      PROVE  StraysExplained'
    BY <1>2 DEF Available, Go
<1>3. ASSUME NEW r \in Readers, Ioctl(r)
      PROVE  StraysExplained'
    BY <1>3 DEF Ioctl, Go, Valid
<1>4. ASSUME NEW r \in Readers, ReadLine(r)
      PROVE  StraysExplained'
    BY <1>4 DEF ReadLine, Start, Go, Closing
<1>5. ASSUME NEW r \in Readers, ReadTest(r)
      PROVE  StraysExplained'
    BY <1>5 DEF ReadTest, Go, EndLine, Moved
<1>6. ASSUME NEW r \in Readers, SelectRead(r)
      PROVE  StraysExplained'
    BY <1>6 DEF SelectRead, Go, Valid, EndLine, Moved
<1>7. ASSUME NEW r \in Readers, Load(r, "prefill", "prefilling")
      PROVE  StraysExplained'
    BY <1>7 DEF Load, Go
<1>8. ASSUME NEW r \in Readers, Load(r, "ready", "reading")
      PROVE  StraysExplained'
    BY <1>8 DEF Load, Go
<1>9. ASSUME NEW r \in Readers, ReadByte(r)
      PROVE  StraysExplained'
    BY <1>9 DEF ReadByte, Move, Valid, Go, EndLine, Moved
<1>10. ASSUME NEW w \in Writers, Write(w)
      PROVE  StraysExplained'
    BY <1>10 DEF Write, Start, Go, Closing
<1>11. ASSUME NEW w \in Writers, WriteTest(w)
      PROVE  StraysExplained'
    BY <1>11 DEF WriteTest, Go, EndWrite, Moved
<1>12. ASSUME NEW w \in Writers, SelectWrite(w)
      PROVE  StraysExplained'
    BY <1>12 DEF SelectWrite, Go, Valid, EndWrite, Moved
<1>13. ASSUME NEW w \in Writers, Load(w, "ready", "writing")
      PROVE  StraysExplained'
    BY <1>13 DEF Load, Go
<1>14. ASSUME NEW w \in Writers, WriteBytes(w)
      PROVE  StraysExplained'
    BY <1>14 DEF WriteBytes, Move, Valid, Go, EndWrite, Moved
<1>15. ASSUME NEW d \in Drains, Drain(d) PROVE StraysExplained'
    BY <1>15 DEF Drain, DrainLocks, Drained, Go
<1>16. ASSUME NEW n \in Numbers, OtherFile(n) PROVE StraysExplained'
    BY <1>16 DEF OtherFile, Free
<1>17. CASE UNCHANGED vars
    BY <1>17 DEF vars
<1> QED
    BY <1>1, <1>2, <1>3, <1>4, <1>5, <1>6, <1>7, <1>8, <1>9, <1>10, <1>11,
       <1>12, <1>13, <1>14, <1>15, <1>16, <1>17
    DEF Next, ControlStep, Reader, Writer

(* Nothing is open, nothing is held.                                        *)
LEMMA PortInit == Init => PortInv
<1> SUFFICES ASSUME Init PROVE PortInv
    OBVIOUS
<1> USE DEF Init
<1>1. TypeOK
    <2>1. file \in [Numbers -> {Unused, Other} \cup (1 .. opens)]
        OBVIOUS
    <2>2. wire \in Seq(Writers)
        OBVIOUS
    <2>3. touched \in [Threads -> SUBSET ({Other} \cup (1 .. opens))]
        OBVIOUS
    <2>4. arg \in [Threads -> Numbers \cup {NoFd}] /\ moved \in [Threads -> Nat]
        OBVIOUS
    <2>5. pc \in [Threads -> {"idle", "ioctl", "rlock", "read", "prefill",
                              "prefilling", "select", "ready", "reading",
                              "write", "writing", "wlock", "drain", "done"}]
        OBVIOUS
    <2>6. isOpen \in BOOLEAN /\ botched \in BOOLEAN
        OBVIOUS
    <2>7. opens \in 0 .. MaxOpens
        OBVIOUS
    <2>8. lost \subseteq 1 .. opens /\ cut \subseteq Threads
        OBVIOUS
    <2>9. /\ fd \in Numbers \cup {NoFd}
          /\ readLock \in Threads \cup {NULL, Control}
          /\ writeLock \in Threads \cup {NULL, Control}
        OBVIOUS
    <2>10. ctl = "idle" /\ op = "none"
        OBVIOUS
    <2> HIDE DEF Init
    <2> QED
        BY <2>1, <2>2, <2>3, <2>4, <2>5, <2>6, <2>7, <2>8, <2>9, <2>10 DEF TypeOK
<1>2. LockInv /\ PhaseInv
    BY DEF LockInv, PhaseInv, Reading, Writing
<1>3. QuietInv /\ FileInv /\ HalfOpenInv /\ SoundInv
    BY DEF QuietInv, FileInv, HalfOpenInv, SoundInv, OpeningSoon, Called
<1>4. OneOpening /\ DescriptorsAccounted /\ StraysExplained
    BY DEF OneOpening, DescriptorsAccounted, StraysExplained
<1> QED
    BY <1>1, <1>2, <1>3, <1>4 DEF PortInv

(* What connect(), disconnect(), the transfers and the rest of the process *)
(* can be between them: all parts of PortInv are inductive together.       *)
THEOREM PortInvariant == Spec => []PortInv
<1>1. PortInv /\ [Next]_vars => PortInv'
    BY TypeStep, LockStep, PhaseStep, QuietStep, FileStep, HalfOpenStep,
       SoundStep, OneStep, AccountStep, StrayStep
    DEF PortInv
<1> QED
    BY PortInit, <1>1, PTL DEF Spec

(* No line that readline() returns and no command that write() sends spans *)
(* two openings of the port, although open() and close() take no lock.     *)
THEOREM TransfersKeepOneOpening == Spec => []OneOpening
<1>1. PortInv => OneOpening
    BY DEF PortInv
<1> QED
    BY PortInvariant, <1>1, PTL

(* The only descriptor of the port that can be lost is one that            *)
(* reconfigurePort() has failed on.                                        *)
THEOREM NoOtherDescriptorIsLost == Spec => []DescriptorsAccounted
<1>1. PortInv => DescriptorsAccounted
    BY DEF PortInv
<1> QED
    BY PortInvariant, <1>1, PTL

(* readline() and write() reach a file that is not the port only if        *)
(* disconnect() closed the port under them, or a ::close failed.           *)
THEOREM OnlyCutTransfersStray == Spec => []StraysExplained
<1>1. PortInv => StraysExplained
    BY DEF PortInv
<1> QED
    BY PortInvariant, <1>1, PTL

-----------------------------------------------------------------------------
(* The bytes of a command stay together because from its first byte to its *)
(* last its writer is the one who holds the write lock.                    *)

(* Whose bytes have been sent has written; and whoever is still writing    *)
(* has sent all bytes after its first.                                     *)
WireInv ==
    \A i \in 1 .. Len(wire) :
        /\ pc[wire[i]] \in Writing \cup {"done"}
        /\ pc[wire[i]] \in Writing =>
              \A j \in i .. Len(wire) : wire[j] = wire[i]

LineInv == WireInv /\ CommandsApart

(* A byte is sent under the write lock, so nobody else has begun and not    *)
(* ended; all other steps leave the line alone.                             *)
LEMMA WireStep == TypeOK /\ LockInv /\ LineInv /\ [Next]_vars => LineInv'
<1> SUFFICES ASSUME TypeOK, LockInv, LineInv, [Next]_vars PROVE LineInv'
    OBVIOUS
<1>0. \A i \in 1 .. Len(wire) : wire[i] \in Writers
    BY DEF TypeOK
<1> DEFINE Kept(w) == /\ pc'[w] \in Writing <=> pc[w] \in Writing
                      /\ pc'[w] = "done" <=> pc[w] = "done"
<1>1. ASSUME UNCHANGED wire,
             \A w \in Writers : \/ Kept(w)
                                \/ pc[w] = "idle"
                                \/ pc'[w] = "done"
      PROVE  LineInv'
    BY <1>0, <1>1 DEF LineInv, WireInv, CommandsApart, Writing
<1>2. CASE ControlStep \/ UNCHANGED vars \/ \E n \in Numbers : OtherFile(n)
    BY <1>1, <1>2, ControlFrame DEF vars, thread, traces, OtherFile
<1>3. ASSUME NEW r \in Readers, Reader(r) PROVE LineInv'
    <2>1. UNCHANGED wire /\ \A w \in Writers : pc'[w] = pc[w]
        BY <1>3 DEF TypeOK, Reader, Available, Ioctl, ReadLine, ReadTest, SelectRead,
                    Load, ReadByte, EndLine, Start, Go, traces
    <2> QED
        BY <1>1, <2>1
<1>4. ASSUME NEW d \in Drains, Drain(d) PROVE LineInv'
    <2>1. UNCHANGED wire /\ \A w \in Writers : pc'[w] = pc[w]
        BY <1>4 DEF TypeOK, Drain, DrainLocks, Drained, Go, traces
    <2> QED
        BY <1>1, <2>1
<1>5. ASSUME NEW w \in Writers, Write(w) \/ WriteTest(w) \/ SelectWrite(w)
                                \/ Load(w, "ready", "writing")
      PROVE  LineInv'
    <2>1. UNCHANGED wire /\ \A x \in Writers : x # w => pc'[x] = pc[x]
        BY <1>5 DEF TypeOK, Write, WriteTest, SelectWrite, Load, Start, Go, EndWrite,
                    traces
    <2>2. \/ pc[w] = "idle"
          \/ pc'[w] = "done"
          \/ pc[w] \in Writing /\ pc'[w] \in Writing
        BY <1>5 DEF TypeOK, Write, WriteTest, SelectWrite, Load, Start, Go, EndWrite,
                    Writing
    <2> QED
        BY <1>1, <2>1, <2>2 DEF Writing
<1>6. ASSUME NEW w \in Writers, WriteBytes(w) PROVE LineInv'
    <2>1. pc[w] = "writing" /\ pc'[w] \in {"select", "done"}
        BY <1>6 DEF TypeOK, WriteBytes, Go, EndWrite
    <2>2. \A x \in Writers : x # w => pc'[x] = pc[x] /\ pc[x] \notin Writing
        BY <1>6, <2>1 DEF TypeOK, LockInv, WriteBytes, Go, EndWrite, Writing
    <2>3. CASE UNCHANGED wire
        BY <1>1, <2>1, <2>2, <2>3 DEF Writing
    <2>4. CASE wire' = Append(wire, w)
        <3>1. /\ Len(wire') = Len(wire) + 1 /\ wire'[Len(wire')] = w
              /\ \A i \in 1 .. Len(wire) : wire'[i] = wire[i]
            BY <2>4 DEF TypeOK
        <3>2. \A i \in 1 .. Len(wire) : wire[i] = w =>
                \A j \in i .. Len(wire') : wire'[j] = w
            BY <2>1, <3>1 DEF LineInv, WireInv, Writing
        <3>3. WireInv'
            BY <1>0, <2>1, <2>2, <3>1, <3>2 DEF LineInv, WireInv, Writing
        <3>4. CommandsApart'
            BY <1>0, <3>1, <3>2 DEF LineInv, CommandsApart
        <3> QED
            BY <3>3, <3>4 DEF LineInv
    <2> QED
        BY <1>6, <2>3, <2>4 DEF WriteBytes
<1> QED
    BY <1>2, <1>3, <1>4, <1>5, <1>6 DEF Next, ControlStep, Writer

(* However many callers write at once, cut short or not, the bytes of one  *)
(* command are never torn apart by those of another.                       *)
THEOREM CommandsStayApart == Spec => []CommandsApart
<1>1. Init => LineInv
    BY DEF Init, LineInv, WireInv, CommandsApart
<1>2. PortInv /\ LineInv /\ [Next]_vars => LineInv'
    BY WireStep DEF PortInv
<1>3. LineInv => CommandsApart
    BY DEF LineInv
<1> QED
    BY <1>1, <1>2, <1>3, PortInvariant, PTL DEF Spec

-----------------------------------------------------------------------------
(* The order of the locks.                                                  *)

(* Who holds the write lock waits for nothing, and who holds the read lock  *)
(* waits at most for the write lock: with any number of readers, writers    *)
(* and flushes no circle of waiting threads closes.                         *)
THEOREM LocksInOrder == Spec => []NoCircle
<1>1. ASSUME LockInv, NEW t \in Threads \cup {Control},
             NEW u \in Threads \cup {Control}, NEW v \in Threads \cup {Control},
             NEW w \in Threads \cup {Control},
             WaitsFor(t, u), WaitsFor(u, v), WaitsFor(v, w)
      PROVE  FALSE
    <2>1. u \in {readLock, writeLock} /\ v \in {readLock, writeLock}
        BY <1>1 DEF WaitsFor
    <2>2. v # writeLock
        BY <1>1, <2>1, PortAssumption DEF WaitsFor, LockInv, Threads, Reading,
            Writing
    <2>3. u # writeLock
        BY <1>1, <2>1, PortAssumption DEF WaitsFor, LockInv, Threads, Reading,
            Writing
    <2>4. u = readLock /\ v = readLock
        BY <2>1, <2>2, <2>3
    <2> QED
        BY <1>1, <2>2, <2>4, PortAssumption DEF WaitsFor, LockInv, Threads,
            Reading, Writing
<1>2. PortInv => NoCircle
    BY <1>1 DEF PortInv, NoCircle
<1> QED
    BY PortInvariant, <1>2, PTL

-----------------------------------------------------------------------------
(* SerialPort implements LinePromise.                                       *)

Listener == IF readLock \in Readers THEN readLock ELSE NULL
Speaker  == IF writeLock \in Writers THEN writeLock ELSE NULL
Begun == {t \in (Readers \cup Writers) \cap {readLock, writeLock} :
            touched[t] \ {Other} # {}}
Over  == {w \in Writers : pc[w] = "done"}

(* The steps of the application thread: only its open() shows, and there    *)
(* nobody has begun.                                                        *)
LEMMA ControlTalks ==
    ASSUME PortInv, ControlStep
    PROVE  [Line!Next]_Line!talk
<1>0. /\ TypeOK /\ LockInv /\ PhaseInv /\ QuietInv
      /\ UNCHANGED <<thread, wire>>
    BY ControlFrame DEF PortInv
<1>1. /\ UNCHANGED <<touched, pc>>
      /\ \A t \in Threads : /\ readLock' = t <=> readLock = t
                            /\ writeLock' = t <=> writeLock = t
    <2>1. \/ UNCHANGED readLock
          \/ {readLock, readLock'} \subseteq {NULL, Control}
        BY DEF ControlStep, InCall, Connect, Disconnect, LockRead, TakeReadLock,
            LockWrite, SetPort, Close, Forget, Closed, SetBaudrate, Open, OpenFd,
            Configure, Opened, LetGo, CallEnds
    <2>2. \/ UNCHANGED writeLock
          \/ {writeLock, writeLock'} \subseteq {NULL, Control}
        BY DEF ControlStep, InCall, Connect, Disconnect, LockRead, TakeReadLock,
            LockWrite, SetPort, Close, Forget, Closed, SetBaudrate, Open, OpenFd,
            Configure, Opened, LetGo, CallEnds
    <2> QED
        BY <1>0, <2>1, <2>2 DEF thread
<1>2. Listener' = Listener /\ Speaker' = Speaker /\ Begun' = Begun /\ Over' = Over
    BY <1>1 DEF Listener, Speaker, Begun, Over
<1>3. ASSUME UNCHANGED opens PROVE UNCHANGED Line!talk
    BY <1>0, <1>2, <1>3 DEF Line!talk, Listener, Speaker, Begun, Over
<1>4. ASSUME opens' # opens PROVE Line!Open
    <2>1. ctl = "opening" /\ opens' = opens + 1
        BY <1>4
        DEF ControlStep, InCall, Connect, Disconnect, LockRead, LockWrite, SetPort,
            Close, Forget, Closed, SetBaudrate, Open, OpenFd, Configure, Opened,
            kernel
    <2>2. \A t \in Threads : t \in {readLock, writeLock} => touched[t] = {}
        BY <1>0, <2>1 DEF PhaseInv, QuietInv, OpeningSoon
    <2>3. Begun = {}
        BY <2>2 DEF Begun
    <2> QED
        BY <1>0, <1>2, <2>1, <2>3
        DEF Line!Open, Listener, Speaker, Begun, Over
<1> QED
    BY <1>3, <1>4 DEF Line!Next

(* What a transfer reaches of the port is its last opening.                 *)
LEMMA TransfersReachLast ==
    ASSUME PortInv, NEW t \in Threads, pc[t] \in Called, Move(t)
    PROVE  /\ \/ file[arg[t]] = Other /\ touched'[t] \ {Other} = touched[t] \ {Other}
              \/ /\ file[arg[t]] # Other /\ opens # 0
                 /\ touched'[t] \ {Other} # {}
           /\ \A u \in Threads : u # t => touched'[u] = touched[u]
<1>1. /\ arg[t] # NoFd /\ file[arg[t]] # Unused
      /\ file[arg[t]] \in {Unused, Other, opens}
      /\ touched' = [touched EXCEPT ![t] = touched[t] \cup {file[arg[t]]}]
    BY DEF PortInv, FileInv, Move, Valid
<1>2. touched'[t] = touched[t] \cup {file[arg[t]]}
    BY <1>1 DEF PortInv, TypeOK
<1> QED
    BY <1>1, <1>2 DEF PortInv, TypeOK

(* The steps of a receive thread.                                           *)
LEMMA ReaderTalks ==
    ASSUME PortInv, NEW r \in Readers, Reader(r)
    PROVE  [Line!Next]_Line!talk
<1>0. /\ TypeOK /\ LockInv
      /\ UNCHANGED <<writeLock, opens, wire>>
      /\ \A w \in Writers : pc'[w] = pc[w]
    BY DEF PortInv, TypeOK, Reader, Available, Ioctl, ReadLine, ReadTest,
        SelectRead, Load, ReadByte, EndLine, Start, Go, traces, kernel
<1>1. Speaker' = Speaker /\ Over' = Over
    BY <1>0 DEF Speaker, Over
<1>2. r \notin Writers /\ writeLock # r /\ r \in Threads
    BY <1>0 DEF LockInv
<1>3. ASSUME UNCHANGED <<readLock, touched>> PROVE UNCHANGED Line!talk
    BY <1>0, <1>1, <1>3 DEF Line!talk, Speaker, Over
<1>4. ASSUME readLock = NULL, readLock' = r, touched' = [touched EXCEPT ![r] = {}]
      PROVE  Line!Listen(r)
    <2>1. Begun' = Begun
        BY <1>0, <1>2, <1>4 DEF Begun, TypeOK
    <2> QED
        BY <1>0, <1>1, <1>2, <1>4, <2>1 DEF Line!Listen, Speaker, Over, Begun
<1>5. ASSUME readLock = r, readLock' = NULL,
             \A u \in Threads : u # r => touched'[u] = touched[u]
      PROVE  Line!EndLine(r)
    <2>1. Begun' = Begun \ {r}
        BY <1>0, <1>2, <1>5 DEF Begun
    <2> QED
        BY <1>0, <1>1, <1>2, <1>5, <2>1 DEF Line!EndLine, Speaker, Over, Begun
<1>6. ASSUME readLock = r, UNCHANGED readLock, pc[r] \in Called, Move(r)
      PROVE  Line!Hear(r) \/ UNCHANGED Line!talk
    <2>1. CASE touched'[r] \ {Other} = touched[r] \ {Other}
        <3>1. Begun' = Begun
            BY <1>0, <1>2, <1>6, <2>1, TransfersReachLast DEF Begun
        <3> QED
            BY <1>0, <1>1, <1>6, <3>1 DEF Line!talk, Speaker, Over, Begun
    <2>2. CASE touched'[r] \ {Other} # {} /\ opens # 0
        <3>1. Begun' = Begun \cup {r}
            BY <1>0, <1>2, <1>6, <2>2, TransfersReachLast DEF Begun
        <3> QED
            BY <1>0, <1>1, <1>6, <2>2, <3>1 DEF Line!Hear, Speaker, Over, Begun
    <2> QED
        BY <1>2, <1>6, <2>1, <2>2, TransfersReachLast
<1>7. \/ UNCHANGED <<readLock, touched>>
      \/ readLock = NULL /\ readLock' = r /\ touched' = [touched EXCEPT ![r] = {}]
      \/ /\ readLock = r /\ readLock' = NULL
         /\ \A u \in Threads : u # r => touched'[u] = touched[u]
      \/ readLock = r /\ UNCHANGED readLock /\ pc[r] \in Called /\ Move(r)
    <2>1. CASE Available(r) \/ Ioctl(r) \/ Load(r, "prefill", "prefilling")
               \/ Load(r, "ready", "reading")
        BY <2>1 DEF Available, Ioctl, Load
    <2>2. CASE ReadLine(r)
        BY <2>2 DEF ReadLine, Start
    <2>3. CASE ReadTest(r) \/ SelectRead(r)
        BY <1>0, <1>2, <2>3 DEF ReadTest, SelectRead, EndLine, LockInv, Reading
    <2>4. CASE ReadByte(r)
        <3>1. readLock = r /\ pc[r] \in Called
            BY <1>0, <2>4 DEF ReadByte, LockInv, Reading, Called
        <3>2. UNCHANGED touched \/ Move(r)
            BY <2>4 DEF ReadByte
        <3>3. \A u \in Threads : u # r => touched'[u] = touched[u]
            BY <1>0, <3>2 DEF TypeOK, Move
        <3>4. UNCHANGED readLock \/ readLock' = NULL
            BY <2>4 DEF ReadByte, EndLine
        <3> QED
            BY <3>1, <3>2, <3>3, <3>4
    <2> QED
        BY <2>1, <2>2, <2>3, <2>4 DEF Reader
<1> QED
    BY <1>3, <1>4, <1>5, <1>6, <1>7 DEF Line!Next

(* The steps of a writer.                                                   *)
LEMMA WriterTalks ==
    ASSUME PortInv, NEW w \in Writers, Write(w) \/ Writer(w)
    PROVE  [Line!Next]_Line!talk
<1>0. /\ TypeOK /\ LockInv
      /\ UNCHANGED <<readLock, opens>>
      /\ \A x \in Threads : x # w => pc'[x] = pc[x]
    BY DEF PortInv, TypeOK, Write, Writer, WriteTest, SelectWrite, Load,
        WriteBytes, EndWrite, Start, Go, traces, kernel
<1>1. Listener' = Listener
    BY <1>0 DEF Listener
<1>2. w \notin Readers /\ readLock # w /\ w \in Threads
    BY <1>0 DEF LockInv
<1> DEFINE Others == \A u \in Threads : u # w => touched'[u] = touched[u]
           Reaches == /\ wire' = IF file[arg[w]] = Other THEN wire
                                 ELSE Append(wire, w)
                      /\ pc[w] \in Called /\ Move(w)
<1>3. ASSUME UNCHANGED <<writeLock, touched, wire>>, pc'[w] # "done",
             pc[w] # "done"
      PROVE  UNCHANGED Line!talk
    <2>1. Over' = Over
        BY <1>0, <1>3 DEF Over
    <2> QED
        BY <1>0, <1>1, <1>3, <2>1 DEF Line!talk, Listener, Over
<1>4. ASSUME writeLock = NULL, writeLock' = w, UNCHANGED wire,
             touched' = [touched EXCEPT ![w] = {}], pc[w] = "idle",
             pc'[w] # "done"
      PROVE  Line!Speak(w)
    <2>1. touched'[w] = {} /\ \A u \in Threads : u # w => touched'[u] = touched[u]
        BY <1>0, <1>2, <1>4 DEF TypeOK
    <2>2. ASSUME NEW u \in Readers \cup Writers PROVE u \in Begun' <=> u \in Begun
        <3>1. CASE u = w
            BY <1>2, <1>4, <2>1, <3>1, PortAssumption DEF Begun
        <3>2. CASE u # w
            BY <1>0, <1>4, <2>1, <3>2, PortAssumption DEF Begun, Threads
        <3> QED
            BY <3>1, <3>2
    <2>3. Begun' = Begun
        BY <2>2 DEF Begun
    <2>4. Over' = Over /\ w \notin Over
        BY <1>0, <1>4 DEF Over, Threads
    <2> QED
        BY <1>0, <1>1, <1>2, <1>4, <2>3, <2>4 DEF Line!Speak, Listener, Over, Begun
<1>5. ASSUME writeLock = w, writeLock' = NULL, pc'[w] = "done", Others,
             UNCHANGED wire \/ Reaches
      PROVE  Line!EndCommand(w)
    <2>1. Begun' = Begun \ {w} /\ Over' = Over \cup {w}
        BY <1>0, <1>2, <1>5 DEF Begun, Over
    <2>2. UNCHANGED wire \/ (opens # 0 /\ wire' = Append(wire, w))
        BY <1>2, <1>5, TransfersReachLast
    <2> QED
        BY <1>0, <1>1, <1>2, <1>5, <2>1, <2>2
        DEF Line!EndCommand, Listener, Over, Begun
<1>6. ASSUME writeLock = w, UNCHANGED writeLock, pc[w] # "done",
             pc'[w] # "done", Reaches
      PROVE  Line!Say(w) \/ UNCHANGED Line!talk
    <2>0. Over' = Over
        BY <1>0, <1>6 DEF Over
    <2>1. CASE file[arg[w]] = Other /\ touched'[w] \ {Other} = touched[w] \ {Other}
        <3>1. Begun' = Begun
            BY <1>0, <1>2, <1>6, <2>1, TransfersReachLast DEF Begun
        <3> QED
            BY <1>0, <1>1, <1>6, <2>0, <2>1, <3>1
            DEF Line!talk, Listener, Over, Begun
    <2>2. CASE file[arg[w]] # Other /\ touched'[w] \ {Other} # {} /\ opens # 0
        <3>1. Begun' = Begun \cup {w}
            BY <1>0, <1>2, <1>6, <2>2, TransfersReachLast DEF Begun
        <3> QED
            BY <1>0, <1>1, <1>6, <2>0, <2>2, <3>1
            DEF Line!Say, Listener, Over, Begun
    <2> QED
        BY <1>2, <1>6, <2>1, <2>2, TransfersReachLast
<1>7. CASE Write(w)
    <2>1. pc'[w] = "write"
        BY <1>0, <1>7 DEF TypeOK, Write, Start, Go
    <2>2. Line!Speak(w)
        BY <1>7, <2>1, <1>4 DEF Write, Start
    <2> QED
        BY <2>2 DEF Line!Next
<1>8. CASE Load(w, "ready", "writing")
    <2>1. pc[w] = "ready" /\ pc'[w] = "writing"
        BY <1>0, <1>8 DEF TypeOK, Load, Go
    <2> QED
        BY <1>3, <1>8, <2>1 DEF Load, traces
<1>9. CASE WriteTest(w) \/ SelectWrite(w)
    <2>1. /\ writeLock = w /\ UNCHANGED <<touched, wire>> /\ pc[w] # "done"
          /\ \/ UNCHANGED writeLock /\ pc'[w] \in {"select", "ready"}
             \/ writeLock' = NULL /\ pc'[w] = "done"
        BY <1>0, <1>9
        DEF TypeOK, LockInv, Writing, WriteTest, SelectWrite, EndWrite, Go, traces
    <2>2. Line!EndCommand(w) \/ UNCHANGED Line!talk
        BY <1>3, <1>5, <2>1
    <2> QED
        BY <2>2 DEF Line!Next
<1>10. CASE WriteBytes(w)
    <2>1. writeLock = w /\ pc[w] = "writing" /\ pc[w] \in Called
        BY <1>0, <1>10 DEF WriteBytes, LockInv, Writing, Called
    <2>2. UNCHANGED <<touched, wire>> \/ Reaches
        BY <1>10, <2>1 DEF WriteBytes
    <2>3. Others
        BY <1>0, <2>2 DEF TypeOK, Move
    <2>4. \/ writeLock' = NULL /\ pc'[w] = "done"
          \/ UNCHANGED writeLock /\ pc'[w] = "select" /\ Reaches
        BY <1>0, <1>10, <2>1 DEF TypeOK, WriteBytes, EndWrite, Go
    <2>5. Line!EndCommand(w) \/ Line!Say(w) \/ UNCHANGED Line!talk
        BY <1>5, <1>6, <2>1, <2>2, <2>3, <2>4
    <2> QED
        BY <2>5 DEF Line!Next
<1> QED
    BY <1>7, <1>8, <1>9, <1>10 DEF Writer

(* flush() and the files of the rest of the process do not show.            *)
LEMMA OthersTalkNot ==
    ASSUME PortInv,
           \/ \E d \in Drains : Drain(d)
           \/ \E n \in Numbers : OtherFile(n)
           \/ UNCHANGED vars
    PROVE  UNCHANGED Line!talk
<1>0. TypeOK /\ LockInv
    BY DEF PortInv
<1>1. ASSUME UNCHANGED <<touched, wire, opens>>,
             \A w \in Writers : pc'[w] = pc[w],
             \A t \in Readers \cup Writers : /\ readLock' = t <=> readLock = t
                                             /\ writeLock' = t <=> writeLock = t
      PROVE  UNCHANGED Line!talk
    <2>1. /\ Listener' = Listener /\ Speaker' = Speaker
          /\ Begun' = Begun /\ Over' = Over
        BY <1>1 DEF Listener, Speaker, Begun, Over
    <2> QED
        BY <1>1, <2>1 DEF Line!talk, Listener, Speaker, Begun, Over
<1>2. ASSUME NEW d \in Drains, Drain(d) PROVE UNCHANGED Line!talk
    <2>1. /\ UNCHANGED <<touched, wire, opens>>
          /\ \A w \in Writers : pc'[w] = pc[w]
        BY <1>0, <1>2 DEF TypeOK, Drain, DrainLocks, Drained, Go, traces, kernel
    <2>2. /\ {readLock, readLock'} \subseteq {NULL, d} \/ UNCHANGED readLock
          /\ {writeLock, writeLock'} \subseteq {NULL, d} \/ UNCHANGED writeLock
        BY <1>0, <1>2 DEF LockInv, Drain, DrainLocks, Drained
    <2> QED
        BY <1>1, <2>1, <2>2
<1>3. ASSUME NEW n \in Numbers, OtherFile(n) PROVE UNCHANGED Line!talk
    BY <1>1, <1>3 DEF OtherFile, thread, traces
<1>4. CASE UNCHANGED vars
    BY <1>1, <1>4 DEF vars, thread, traces, kernel
<1> QED
    BY <1>2, <1>3, <1>4

(* Whatever readers, writers, flush(), connect(), disconnect() and the rest *)
(* of the process do, the callers of the port see a LinePromise: one line   *)
(* and one command at a time, none across two openings of the device.       *)
THEOREM PortKeepsLine == Spec => KeepsLine
<1>1. Init => Line!Init
    <2> SUFFICES ASSUME Init PROVE Line!Init
        OBVIOUS
    <2>1. /\ readLock = NULL /\ writeLock = NULL /\ wire = <<>> /\ opens = 0
          /\ \A w \in Writers : pc[w] = "idle"
        BY DEF Init
    <2>2. \A t \in Readers \cup Writers : t \notin {readLock, writeLock}
        BY <2>1
    <2> QED
        BY <2>1, <2>2 DEF Line!Init
<1>2. PortInv /\ [Next]_vars => [Line!Next]_Line!talk
    BY ControlTalks, ReaderTalks, WriterTalks, OthersTalkNot
    DEF Next, ControlStep
<1> QED
    BY <1>1, <1>2, PortInvariant, PTL DEF Spec, KeepsLine, Line!Spec
=================================================================================

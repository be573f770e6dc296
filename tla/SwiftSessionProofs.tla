-------------------------- MODULE SwiftSessionProofs --------------------------
(* Theorems about SwiftSession for every number of calls, connections and   *)
(* unpluggings, and every width of the window.                              *)
EXTENDS SwiftSession, FiniteSetTheorems, TLAPS

USE DEF Threads, Receivers

(* What connect() and disconnect() assign outside their own control state.  *)
LEMMA SessionTypeStep == TypeOK /\ PhaseInv /\ [Next]_vars => TypeOK'
<1> SUFFICES ASSUME TypeOK, PhaseInv, [Next]_vars PROVE TypeOK'
    OBVIOUS
<1> USE DEF TypeOK, port, control, window, Ends, GoOn
<1>1. CASE Connect
    BY <1>1 DEF Connect
<1>2. CASE Disconnect
    BY <1>2 DEF Disconnect
<1>3. CASE CloseFd
    BY <1>3 DEF CloseFd
<1>4. CASE CloseFlag
    BY <1>4 DEF CloseFlag
<1>5. CASE Cut
    BY <1>5 DEF Cut
<1>6. CASE Reopen
    BY <1>6 DEF Reopen, OpenFd
<1>7. CASE Reopened
    BY <1>7 DEF Reopened
<1>8. CASE SetBaudrate
    BY <1>8 DEF SetBaudrate
<1>9. CASE Open
    BY <1>9 DEF Open, OpenFd, Fails
<1>10. CASE Opened
    BY <1>10 DEF Opened, Fails
<1>11. CASE SetLines
    BY <1>11 DEF SetLines, Fails
<1>12. CASE ResetCount
    BY <1>12 DEF ResetCount
<1>13. CASE Spawn
    BY <1>13 DEF Spawn
<1>14. ASSUME NEW r \in Receivers, Receiver(r) PROVE TypeOK'
    <2>1. /\ recv' \in [Receivers -> {"none", "sleep", "ioctl", "read", "catch",
                                      "exited"}]
          /\ connected' \in BOOLEAN
        <3> USE DEF RecvGo
        <3>1. CASE RecvLoop(r)
            BY <3>1 DEF RecvLoop
        <3>2. CASE RecvAvailable(r)
            BY <3>2 DEF RecvAvailable
        <3>3. CASE RecvReadline(r)
            BY <3>3 DEF RecvReadline
        <3>4. CASE RecvCatch(r)
            BY <3>4 DEF RecvCatch, Catch
        <3> QED
            BY <1>14, <3>1, <3>2, <3>3, <3>4 DEF Receiver
    <2>2. UNCHANGED <<port, control, window>>
        BY <1>14
        DEF Receiver, RecvLoop, RecvAvailable, RecvReadline, RecvCatch
    <2> QED
        BY <2>1, <2>2
<1>15. ASSUME NEW c \in Calls, Begin(c) PROVE TypeOK'
    BY <1>15 DEF Begin, Go
<1>16. ASSUME NEW c \in Calls, Enter(c) PROVE TypeOK'
    <2>1. pc' \in [Threads -> {"idle", "locking", "waiting", "woken", "write",
                               "inside", "stranded", "done"}]
        BY <1>16 DEF Enter, NotifyAllAndGo, Go
    <2>2. looked' \in [Threads -> 0 .. epoch] /\ cmd_pend_count' \in Int
        BY <1>16 DEF Enter, Look
    <2>3. UNCHANGED <<port, control, recv, connected, epoch, left>>
        BY <1>16 DEF Enter
    <2> QED
        BY <2>1, <2>2, <2>3
<1>17. ASSUME NEW c \in Calls, Write(c) PROVE TypeOK'
    <2>1. /\ pc' \in [Threads -> {"idle", "locking", "waiting", "woken", "write",
                                  "inside", "stranded", "done"}]
          /\ connected' \in BOOLEAN
        <3>1. CASE Go(c, "inside") /\ UNCHANGED connected
            BY <3>1 DEF Go
        <3>2. CASE Go(c, "stranded") /\ connected' = FALSE
            BY <3>2 DEF Go
        <3> QED
            BY <1>17, <3>1, <3>2 DEF Write
    <2>2. UNCHANGED <<port, control, recv, cmd_pend_count, epoch, looked, left>>
        BY <1>17 DEF Write
    <2> QED
        BY <2>1, <2>2
<1>18. ASSUME NEW c \in Calls, Leave(c) PROVE TypeOK'
    BY <1>18 DEF Leave, LeaveWindow, NotifyAllAndGo
<1>19. ASSUME NEW f \in Flushes, Flush(f) PROVE TypeOK'
    BY <1>19 DEF Flush, Look, Go
<1>20. CASE Unplug
    <2>1. unplugs + 1 \in Nat /\ fd' \in {"none", "live", "dead"}
        BY <1>20 DEF Unplug
    <2> QED
        BY <1>20, <2>1 DEF Unplug
<1>21. CASE Plug
    BY <1>21 DEF Plug
<1>22. CASE UNCHANGED vars
    BY <1>22 DEF vars
<1> QED
    BY <1>1, <1>2, <1>3, <1>4, <1>5, <1>6, <1>7, <1>8, <1>9, <1>10, <1>11,
       <1>12, <1>13, <1>14, <1>15, <1>16, <1>17, <1>18, <1>19, <1>20, <1>21,
       <1>22
    DEF Next, InCall, SendCmd

(* There are finitely many receive threads, whatever connect() has done.    *)
LEMMA StartedFinite ==
    TypeOK => IsFiniteSet(Started) /\ Cardinality(Started) \in Nat
<1> SUFFICES ASSUME TypeOK
             PROVE  IsFiniteSet(Started) /\ Cardinality(Started) \in Nat
    OBVIOUS
<1>1. IsFiniteSet(1 .. MaxConnects)
    BY FS_Interval, SessionAssumption
<1>2. Started \subseteq 1 .. MaxConnects
    BY DEF Started
<1> QED
    BY <1>1, <1>2, FS_Subset, FS_CardinalityType

(* A step of a receive thread starts no thread and leaves the port, the     *)
(* control and the window alone; it leaves its loop only when disconnected, *)
(* and makes the object connected never.                                    *)
LEMMA ReceiverStep ==
    ASSUME TypeOK, NEW r \in Receivers, Receiver(r)
    PROVE  /\ UNCHANGED <<port, control, window>>
           /\ Started' = Started
           /\ connected' => connected /\ Running' # {}
<1>1. UNCHANGED <<port, control, window>>
    BY DEF Receiver, RecvLoop, RecvAvailable, RecvReadline, RecvCatch
<1>2. /\ recv[r] # "none"
      /\ \E p \in {"sleep", "ioctl", "read", "catch", "exited"} :
           recv' = [recv EXCEPT ![r] = p] /\ (p = "exited" => ~connected)
      /\ connected' = connected \/ connected' = FALSE
    <2> USE DEF RecvGo
    <2>1. CASE RecvLoop(r)
        BY <2>1 DEF RecvLoop
    <2>2. CASE RecvAvailable(r)
        BY <2>2 DEF RecvAvailable
    <2>3. CASE RecvReadline(r)
        BY <2>3 DEF RecvReadline
    <2>4. CASE RecvCatch(r)
        BY <2>4 DEF RecvCatch, Catch
    <2> QED
        BY <2>1, <2>2, <2>3, <2>4 DEF Receiver
<1>3. Started' = Started
    BY <1>2 DEF Started, TypeOK
<1>4. connected' => connected /\ r \in Running'
    BY <1>2 DEF Running, TypeOK
<1> QED
    BY <1>1, <1>3, <1>4

(* Calls, flushes and the arm leave the port's flag, the control and the    *)
(* receivers alone, and nothing of it connects.                             *)
Bystander == UNCHANGED <<isOpen, control, recv>> /\ (connected' => connected)

LEMMA BystanderStep ==
    ASSUME \/ \E c \in Calls : Begin(c) \/ SendCmd(c)
           \/ \E f \in Flushes : Flush(f)
           \/ Unplug \/ Plug
           \/ UNCHANGED vars
    PROVE  Bystander
<1> USE DEF Bystander, port, control
<1>1. ASSUME NEW c \in Calls, Begin(c) \/ SendCmd(c) PROVE Bystander
    BY <1>1 DEF Begin, SendCmd, Enter, Write, Leave
<1>2. ASSUME NEW f \in Flushes, Flush(f) PROVE Bystander
    BY <1>2 DEF Flush
<1>3. CASE Unplug \/ Plug
    BY <1>3 DEF Unplug, Plug
<1>4. CASE UNCHANGED vars
    BY <1>4 DEF vars
<1> QED
    BY <1>1, <1>2, <1>3, <1>4

(* connect() and disconnect() keep to their phases: what each of them finds *)
(* in is_open_ where it reads it next, and that connect() has a receive     *)
(* thread to start.                                                         *)
LEMMA PhaseStep == TypeOK /\ PhaseInv /\ [Next]_vars => PhaseInv'
<1> SUFFICES ASSUME TypeOK, PhaseInv, [Next]_vars PROVE PhaseInv'
    OBVIOUS
<1> USE DEF PhaseInv, port, control, Ends, GoOn
<1>0. UNCHANGED recv => Started' = Started
    BY DEF Started
<1>1. CASE Connect
    BY <1>0, <1>1 DEF Connect
<1>2. CASE Disconnect
    BY <1>0, <1>2 DEF Disconnect
<1>3. CASE CloseFd
    BY <1>0, <1>3 DEF CloseFd
<1>4. CASE CloseFlag
    BY <1>0, <1>4 DEF CloseFlag, TypeOK
<1>5. CASE Cut
    BY <1>0, <1>5 DEF Cut
<1>6. CASE Reopen
    BY <1>0, <1>6 DEF Reopen
<1>7. CASE Reopened
    BY <1>0, <1>7 DEF Reopened
<1>8. CASE SetBaudrate
    BY <1>0, <1>8 DEF SetBaudrate
<1>9. CASE Open
    BY <1>0, <1>9 DEF Open, Fails
<1>10. CASE Opened
    BY <1>0, <1>10 DEF Opened, Fails
<1>11. CASE SetLines
    BY <1>0, <1>11 DEF SetLines, Fails
<1>12. CASE ResetCount
    BY <1>0, <1>12 DEF ResetCount
<1>13. CASE Spawn
    BY <1>13 DEF Spawn
<1>14. ASSUME NEW r \in Receivers, Receiver(r) PROVE PhaseInv'
    BY <1>14, ReceiverStep
<1>15. CASE Bystander
    BY <1>0, <1>15 DEF Bystander
<1> QED
    BY <1>1, <1>2, <1>3, <1>4, <1>5, <1>6, <1>7, <1>8, <1>9, <1>10, <1>11,
       <1>12, <1>13, <1>14, <1>15, BystanderStep
    DEF Next, InCall

(* connect() starts its receive thread before it ends, and a receive thread *)
(* ends only when the object is not connected.                              *)
LEMMA ServedStep ==
    TypeOK /\ PhaseInv /\ ServedInv /\ [Next]_vars => ServedInv'
<1> SUFFICES ASSUME TypeOK, PhaseInv, ServedInv, [Next]_vars PROVE ServedInv'
    OBVIOUS
<1> USE DEF ServedInv, port, control, Ends, GoOn
<1>0. UNCHANGED recv => Running' = Running
    BY DEF Running
<1>1. CASE Connect
    BY <1>0, <1>1 DEF Connect
<1>2. CASE Disconnect
    BY <1>0, <1>2 DEF Disconnect
<1>3. CASE CloseFd
    BY <1>0, <1>3 DEF CloseFd
<1>4. CASE CloseFlag
    BY <1>0, <1>4 DEF CloseFlag
<1>5. CASE Cut
    BY <1>5 DEF Cut
<1>6. CASE Reopen
    BY <1>0, <1>6 DEF Reopen
<1>7. CASE Reopened
    BY <1>0, <1>7 DEF Reopened
<1>8. CASE SetBaudrate
    BY <1>0, <1>8 DEF SetBaudrate
<1>9. CASE Open
    BY <1>0, <1>9 DEF Open, Fails
<1>10. CASE Opened
    BY <1>0, <1>10 DEF Opened, Fails
<1>11. CASE SetLines
    BY <1>11 DEF SetLines, Fails
<1>12. CASE ResetCount
    BY <1>12 DEF ResetCount
<1>13. CASE Spawn
    <2> DEFINE k == Cardinality(Started) + 1
    <2>1. k \in Receivers
        BY <1>13, StartedFinite, SessionAssumption DEF PhaseInv, Spawn
    <2>2. recv'[k] = "sleep"
        BY <1>13, <2>1 DEF Spawn, TypeOK
    <2> QED
        BY <2>1, <2>2 DEF Running
<1>14. ASSUME NEW r \in Receivers, Receiver(r) PROVE ServedInv'
    BY <1>14, ReceiverStep
<1>15. CASE Bystander
    BY <1>0, <1>15 DEF Bystander
<1> QED
    BY <1>1, <1>2, <1>3, <1>4, <1>5, <1>6, <1>7, <1>8, <1>9, <1>10, <1>11,
       <1>12, <1>13, <1>14, <1>15, BystanderStep
    DEF Next, InCall

(* How connect() or disconnect() ended goes on to say whether the object is *)
(* connected and its port open.                                             *)
LEMMA StateStep ==
    TypeOK /\ PhaseInv /\ SessionState /\ [Next]_vars => SessionState'
<1> SUFFICES ASSUME TypeOK, PhaseInv, SessionState, [Next]_vars
             PROVE  SessionState'
    OBVIOUS
<1> USE DEF SessionState, PhaseInv, port, control, Ends, GoOn
<1>1. CASE Connect
    BY <1>1 DEF Connect
<1>2. CASE Disconnect
    BY <1>2 DEF Disconnect
<1>3. CASE CloseFd
    BY <1>3 DEF CloseFd
<1>4. CASE CloseFlag
    BY <1>4 DEF CloseFlag
<1>5. CASE Cut
    BY <1>5 DEF Cut
<1>6. CASE Reopen
    BY <1>6 DEF Reopen
<1>7. CASE Reopened
    BY <1>7 DEF Reopened
<1>8. CASE SetBaudrate
    BY <1>8 DEF SetBaudrate
<1>9. CASE Open
    BY <1>9 DEF Open, Fails
<1>10. CASE Opened
    BY <1>10 DEF Opened, Fails
<1>11. CASE SetLines
    BY <1>11 DEF SetLines, Fails
<1>12. CASE ResetCount
    BY <1>12 DEF ResetCount
<1>13. CASE Spawn
    BY <1>13 DEF Spawn
<1>14. ASSUME NEW r \in Receivers, Receiver(r) PROVE SessionState'
    BY <1>14, ReceiverStep
<1>15. CASE Bystander
    BY <1>15 DEF Bystander
<1> QED
    BY <1>1, <1>2, <1>3, <1>4, <1>5, <1>6, <1>7, <1>8, <1>9, <1>10, <1>11,
       <1>12, <1>13, <1>14, <1>15, BystanderStep
    DEF Next, InCall

-----------------------------------------------------------------------------
(* Whatever is not a step of the window leaves the window alone; only the   *)
(* reset, the calls and the flushes touch it.                               *)
LEMMA WindowStep ==
    ASSUME TypeOK, [Next]_vars
    PROVE  \/ ResetCount
           \/ \E c \in Calls : Begin(c) \/ Enter(c) \/ Write(c) \/ Leave(c)
           \/ \E f \in Flushes : Flush(f)
           \/ UNCHANGED window
<1>1. Connect \/ Disconnect => UNCHANGED window
    BY DEF Connect, Disconnect
<1>2. CloseFd \/ CloseFlag \/ Cut \/ Reopen \/ Reopened \/ SetBaudrate
        => UNCHANGED window
    BY DEF CloseFd, CloseFlag, Cut, Reopen, Reopened, SetBaudrate
<1>3. Open \/ Opened \/ SetLines \/ Spawn => UNCHANGED window
    BY DEF Open, Opened, SetLines, Spawn
<1>4. ASSUME NEW r \in Receivers, Receiver(r) PROVE UNCHANGED window
    BY <1>4, ReceiverStep
<1>5. Unplug \/ Plug \/ UNCHANGED vars => UNCHANGED window
    BY DEF Unplug, Plug, vars
<1> QED
    BY <1>1, <1>2, <1>3, <1>4, <1>5 DEF Next, InCall, SendCmd

(* No call leaves the window twice.                                         *)
LEMMA LeftStep == TypeOK /\ LeftInv /\ [Next]_vars => LeftInv'
<1> SUFFICES ASSUME TypeOK, LeftInv, [Next]_vars PROVE LeftInv'
    OBVIOUS
<1> USE DEF LeftInv, TypeOK
<1>1. CASE ResetCount
    BY <1>1 DEF ResetCount
<1>2. ASSUME NEW c \in Calls, Begin(c) PROVE LeftInv'
    BY <1>2 DEF Begin, Go
<1>3. ASSUME NEW c \in Calls, Enter(c) PROVE LeftInv'
    BY <1>3 DEF Enter, NotifyAllAndGo, Go
<1>4. ASSUME NEW c \in Calls, Write(c) PROVE LeftInv'
    BY <1>4 DEF Write, Go
<1>5. ASSUME NEW c \in Calls, Leave(c) PROVE LeftInv'
    BY <1>5 DEF Leave, NotifyAllAndGo
<1>6. ASSUME NEW f \in Flushes, Flush(f) PROVE LeftInv'
    BY <1>6, SessionAssumption DEF Flush, Go
<1>7. CASE UNCHANGED window
    BY <1>7 DEF window
<1> QED
    BY <1>1, <1>2, <1>3, <1>4, <1>5, <1>6, <1>7, WindowStep

(* A call enters only an open window, and a reset makes the counter 0.      *)
LEMMA WidthStep ==
    ASSUME TypeOK, cmd_pend_count <= CmdPendSize, [Next]_vars
    PROVE  cmd_pend_count' <= CmdPendSize
<1> USE SessionAssumption DEF TypeOK
<1>1. CASE ResetCount
    BY <1>1 DEF ResetCount
<1>2. ASSUME NEW c \in Calls, Begin(c) \/ Write(c)
      PROVE  cmd_pend_count' <= CmdPendSize
    BY <1>2 DEF Begin, Write
<1>3. ASSUME NEW c \in Calls, Enter(c)
      PROVE  cmd_pend_count' <= CmdPendSize
    BY <1>3 DEF Enter, WindowOpen
<1>4. ASSUME NEW c \in Calls, Leave(c)
      PROVE  cmd_pend_count' <= CmdPendSize
    BY <1>4 DEF Leave, LeaveWindow
<1>5. ASSUME NEW f \in Flushes, Flush(f)
      PROVE  cmd_pend_count' <= CmdPendSize
    BY <1>5 DEF Flush
<1>6. CASE UNCHANGED window
    BY <1>6 DEF window
<1> QED
    BY <1>1, <1>2, <1>3, <1>4, <1>5, <1>6, WindowStep

(* The two sets of SessionAccounting are finite.                            *)
LEMMA CountedFinite ==
    /\ IsFiniteSet(Counted) /\ IsFiniteSet(LeftTwice)
    /\ Cardinality(Counted) \in Nat /\ Cardinality(LeftTwice) \in Nat
    /\ Cardinality(LeftTwice) <= Cardinality(Calls)
    /\ Cardinality(Calls) \in Nat
<1>1. Counted \subseteq Calls /\ LeftTwice \subseteq Calls
    BY DEF Counted, LeftTwice
<1> QED
    BY <1>1, SessionAssumption, FS_Subset, FS_CardinalityType

(* Every step of the window changes the counter by what it changes in the   *)
(* two sets.                                                                *)
LEMMA AccountingStep ==
    TypeOK /\ LeftInv /\ SessionAccounting /\ [Next]_vars
      => SessionAccounting'
<1> SUFFICES ASSUME TypeOK, LeftInv, SessionAccounting, [Next]_vars
             PROVE  SessionAccounting'
    OBVIOUS
<1> USE DEF SessionAccounting, TypeOK
<1>0. Counted' = Counted /\ LeftTwice' = LeftTwice
        /\ cmd_pend_count' = cmd_pend_count => SessionAccounting'
    OBVIOUS
<1>1. CASE ResetCount
    <2>1. CASE UNCHANGED <<cmd_pend_count, pc, epoch, looked, left>>
        BY <1>0, <2>1 DEF Counted, LeftTwice
    <2>2. CASE cmd_pend_count' = 0 /\ epoch' = epoch + 1
        <3>1. Counted' = {}
            BY <1>1, <2>2, SessionAssumption DEF ResetCount, Counted
        <3>2. LeftTwice' = {}
            BY <1>1, <2>2, SessionAssumption DEF ResetCount, LeftTwice
        <3> QED
            BY <2>2, <3>1, <3>2, FS_EmptySet
    <2> QED
        BY <1>1, <2>1, <2>2 DEF ResetCount
<1>2. ASSUME NEW c \in Calls, Begin(c) PROVE SessionAccounting'
    <2>1. Counted' = Counted /\ LeftTwice' = LeftTwice
        BY <1>2 DEF Begin, Go, Counted, LeftTwice
    <2> QED
        BY <1>0, <1>2, <2>1 DEF Begin
<1>3. ASSUME NEW c \in Calls, Enter(c) PROVE SessionAccounting'
    <2>1. LeftTwice' = LeftTwice
        <3>1. left' = left /\ epoch' = epoch /\ left[c] = 0
              /\ \A d \in Calls : d # c => looked'[d] = looked[d]
            BY <1>3 DEF Enter, Look, LeftInv
        <3>2. looked'[c] = epoch
            BY <1>3 DEF Enter, Look
        <3>3. c \notin LeftTwice /\ c \notin LeftTwice'
            BY <3>1, <3>2 DEF LeftTwice
        <3> QED
            BY <3>1, <3>3 DEF LeftTwice
    <2>2. CASE WindowOpen /\ cmd_pend_count' = cmd_pend_count + 1
                 /\ NotifyAllAndGo(c, "write")
        <3>1. Counted' = Counted \cup {c} /\ c \notin Counted
            BY <1>3, <2>2 DEF Enter, Look, NotifyAllAndGo, Counted
        <3>2. Cardinality(Counted') = Cardinality(Counted) + 1
            BY <3>1, CountedFinite, FS_AddElement
        <3> HIDE DEF TypeOK
        <3> QED
            BY <2>1, <2>2, <3>2, CountedFinite
    <2>3. CASE Go(c, "waiting") /\ UNCHANGED cmd_pend_count
        <3>1. Counted' = Counted
            BY <1>3, <2>3 DEF Enter, Look, Go, Counted
        <3> QED
            BY <1>0, <2>1, <2>3, <3>1
    <2> QED
        BY <1>3, <2>2, <2>3 DEF Enter
<1>4. ASSUME NEW c \in Calls, Write(c) PROVE SessionAccounting'
    <2>1. Counted' = Counted /\ LeftTwice' = LeftTwice
        BY <1>4 DEF Write, Go, Counted, LeftTwice
    <2> QED
        BY <1>0, <1>4, <2>1 DEF Write
<1>5. ASSUME NEW c \in Calls, Leave(c) PROVE SessionAccounting'
    <2> USE <1>5 DEF Leave, LeaveWindow, NotifyAllAndGo
    <2>1. CASE looked[c] = epoch
        <3>1. Counted' = Counted \ {c} /\ c \in Counted
            BY <2>1 DEF Counted
        <3>2. LeftTwice' = LeftTwice
            BY <2>1 DEF LeftTwice, LeftInv
        <3>3. Cardinality(Counted') = Cardinality(Counted) - 1
            BY <3>1, CountedFinite, FS_RemoveElement
        <3>4. cmd_pend_count' = cmd_pend_count - 1
            OBVIOUS
        <3> HIDE DEF TypeOK
        <3> QED
            BY <3>2, <3>3, <3>4, CountedFinite
    <2>2. CASE looked[c] < epoch
        <3>1. Counted' = Counted
            BY <2>2 DEF Counted
        <3>2. LeftTwice' = LeftTwice \cup {c} /\ c \notin LeftTwice
            BY <2>2 DEF LeftTwice, LeftInv
        <3>3. Cardinality(LeftTwice') = Cardinality(LeftTwice) + 1
            BY <3>2, CountedFinite, FS_AddElement
        <3>4. cmd_pend_count' = cmd_pend_count - 1
            OBVIOUS
        <3> HIDE DEF TypeOK
        <3> QED
            BY <3>1, <3>3, <3>4, CountedFinite
    <2> QED
        BY <2>1, <2>2
<1>6. ASSUME NEW f \in Flushes, Flush(f) PROVE SessionAccounting'
    <2>1. Counted' = Counted /\ LeftTwice' = LeftTwice
        BY <1>6, SessionAssumption DEF Flush, Look, Go, Counted, LeftTwice
    <2> QED
        BY <1>0, <1>6, <2>1 DEF Flush
<1>7. CASE UNCHANGED window
    BY <1>0, <1>7 DEF window, Counted, LeftTwice
<1> QED
    BY <1>1, <1>2, <1>3, <1>4, <1>5, <1>6, <1>7, WindowStep

(* Every change of the counter except the reset is followed by notify_all,  *)
(* and a reset opens a new epoch.                                           *)
LEMMA SleptStep ==
    TypeOK /\ SleptBeforeReset /\ [Next]_vars => SleptBeforeReset'
<1> SUFFICES ASSUME TypeOK, SleptBeforeReset, [Next]_vars
             PROVE  SleptBeforeReset'
    OBVIOUS
<1> USE DEF SleptBeforeReset, TypeOK, WindowOpen, WindowEmpty
<1>1. CASE ResetCount
    BY <1>1 DEF ResetCount
<1>2. ASSUME NEW c \in Calls, Begin(c) PROVE SleptBeforeReset'
    BY <1>2 DEF Begin, Go
<1>3. ASSUME NEW c \in Calls, Enter(c) PROVE SleptBeforeReset'
    <2>1. CASE NotifyAllAndGo(c, "write")
        BY <2>1 DEF NotifyAllAndGo
    <2>2. CASE ~WindowOpen /\ Go(c, "waiting") /\ UNCHANGED cmd_pend_count
        <3>1. /\ UNCHANGED <<cmd_pend_count, epoch>>
              /\ \A d \in Threads : d # c => /\ pc'[d] = pc[d]
                                            /\ looked'[d] = looked[d]
            BY <1>3, <2>2 DEF Enter, Look, Go
        <3>2. ~(WindowOpen') /\ c \notin Flushes
            BY <2>2, SessionAssumption
        <3> QED
            BY <3>1, <3>2
    <2> QED
        BY <1>3, <2>1, <2>2 DEF Enter
<1>4. ASSUME NEW c \in Calls, Write(c) PROVE SleptBeforeReset'
    BY <1>4 DEF Write, Go
<1>5. ASSUME NEW c \in Calls, Leave(c) PROVE SleptBeforeReset'
    BY <1>5 DEF Leave, NotifyAllAndGo
<1>6. ASSUME NEW f \in Flushes, Flush(f) PROVE SleptBeforeReset'
    <2>1. /\ UNCHANGED <<cmd_pend_count, epoch>>
          /\ \A d \in Threads : d # f => /\ pc'[d] = pc[d]
                                        /\ looked'[d] = looked[d]
        BY <1>6 DEF Flush, Look, Go
    <2>2. pc'[f] = "waiting" => ~(WindowEmpty')
        BY <1>6, <2>1 DEF Flush, Go
    <2>3. f \notin Calls
        BY SessionAssumption
    <2> QED
        BY <2>1, <2>2, <2>3
<1>7. CASE UNCHANGED window
    BY <1>7 DEF window
<1> QED
    BY <1>1, <1>2, <1>3, <1>4, <1>5, <1>6, <1>7, WindowStep

-----------------------------------------------------------------------------
(* Before the first connect() the invariant holds.                          *)
LEMMA SessionInit == Init => SessionInv /\ SleptBeforeReset
<1> SUFFICES ASSUME Init PROVE SessionInv /\ SleptBeforeReset
    OBVIOUS
<1> USE SessionAssumption DEF Init
<1>1. TypeOK
    <2>1. epoch \in Nat \ {0} /\ unplugs \in Nat /\ cmd_pend_count \in Int
        OBVIOUS
    <2>2. recv \in [Receivers -> {"none", "sleep", "ioctl", "read", "catch",
                                  "exited"}]
        OBVIOUS
    <2>3. /\ pc \in [Threads -> {"idle", "locking", "waiting", "woken",
                                  "write", "inside", "stranded", "done"}]
          /\ looked \in [Threads -> 0 .. epoch]
          /\ left \in [Calls -> 0 .. epoch]
        OBVIOUS
    <2> QED
        BY <2>1, <2>2, <2>3 DEF TypeOK
<1>2. PhaseInv /\ LeftInv /\ ServedInv /\ SessionState
    BY DEF PhaseInv, LeftInv, ServedInv, SessionState
<1>3. SessionAccounting
    <2>1. Counted = {} /\ LeftTwice = {}
        BY DEF Counted, LeftTwice
    <2> QED
        BY <2>1, FS_EmptySet DEF SessionAccounting
<1>4. cmd_pend_count <= CmdPendSize /\ SleptBeforeReset
    BY DEF SleptBeforeReset
<1> QED
    BY <1>1, <1>2, <1>3, <1>4 DEF SessionInv

(* SessionInv is inductive.                                                 *)
LEMMA SessionStep == SessionInv /\ [Next]_vars => SessionInv'
BY SessionTypeStep, PhaseStep, LeftStep, ServedStep, StateStep,
   AccountingStep, WidthStep
DEF SessionInv

(* What the properties need of every reachable state: types, phases of      *)
(* connect() and disconnect(), and the account of the counter.              *)
THEOREM SessionInvariant == Spec => []SessionInv
BY SessionInit, SessionStep, PTL DEF Spec

(* After any number of reconnections the counter is the calls of the new    *)
(* session in the window less the old ones that left since.                 *)
THEOREM SessionCounter == Spec => []SessionAccounting
<1>1. SessionInv => SessionAccounting
    BY DEF SessionInv
<1> QED
    BY <1>1, SessionInvariant, PTL

(* cmd_pend_count stays between minus the number of calls and the size of   *)
(* the window, for any number of lost and successful resets.                *)
THEOREM CounterRange == Spec => []CounterBounded
<1>1. SessionInv => CounterBounded
    <2> SUFFICES ASSUME SessionInv PROVE CounterBounded
        OBVIOUS
    <2>1. /\ cmd_pend_count \in Int /\ cmd_pend_count <= CmdPendSize
          /\ cmd_pend_count = Cardinality(Counted) - Cardinality(LeftTwice)
        BY DEF SessionInv, SessionAccounting, TypeOK
    <2>2. cmd_pend_count >= -Cardinality(Calls)
        BY <2>1, CountedFinite
    <2> QED
        BY <2>1, <2>2, CountedFinite, SessionAssumption DEF CounterBounded
<1> QED
    BY <1>1, SessionInvariant, PTL

(* A connected object has a thread that reads, whatever the receivers of    *)
(* earlier sessions do.                                                     *)
THEOREM AlwaysServed == Spec => []ReceiverServes
<1>1. SessionInv => ReceiverServes
    BY DEF SessionInv, ServedInv, ReceiverServes
<1> QED
    BY <1>1, SessionInvariant, PTL

(* What connect() or disconnect() ended with still describes the object     *)
(* when the next of them is called.                                         *)
THEOREM SessionStates == Spec => []SessionState
<1>1. SessionInv => SessionState
    BY DEF SessionInv
<1> QED
    BY <1>1, SessionInvariant, PTL

(* A thread asleep before an open window, or a flush asleep before an empty *)
(* one, went to sleep before connect() reset the counter without notifying. *)
THEOREM OnlyResetsStrand == Spec => []SleptBeforeReset
<1>1. TypeOK /\ SleptBeforeReset /\ [Next]_vars => SleptBeforeReset'
    BY SleptStep
<1>2. SessionInv => TypeOK
    BY DEF SessionInv
<1>3. Init => SleptBeforeReset
    BY SessionInit
<1> QED
    BY <1>1, <1>2, <1>3, SessionInvariant, PTL DEF Spec
===============================================================================

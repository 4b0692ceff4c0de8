--------------------------- MODULE UpcDeviceProofs ---------------------------
(***************************************************************************)
(* Proofs about UpcDevice, for every value of its constants.               *)
(*                                                                         *)
(* TasksMatchFlags, with the types, is inductive once it is known where    *)
(* the main task may stand while a transfer task exists (TasksWhere); that *)
(* is TaskInv, and all that follows builds on it: a new connection is      *)
(* opened only where no task of the one before is left.  The second part   *)
(* is about halts, limits, errors and the ping timeout, the third about    *)
(* the data: whose it is, and that a half-close comes after all of it.     *)
(***************************************************************************)
EXTENDS UpcDevice, SequenceTheorems, FunctionTheorems, FiniteSetTheorems,
        TLAPS

(***************************************************************************)
(* Sequences.                                                              *)
(***************************************************************************)

\* What cancel() leaves on either endpoint has the type of what was there.
LEMMA AfterCancelType ==
    ASSUME NEW S, NEW q \in Seq(S)
    PROVE  AfterCancelOut(q) \subseteq Seq(S) /\ AfterCancelIn(q) \subseteq Seq(S)
<1>1. ASSUME NEW k \in 1..(Len(q) + 1)
      PROVE  SubSeq(q, k, Len(q)) \in Seq(S)
  BY LenProperties, SubSeqProperties
<1>2. ASSUME NEW k \in 0..Len(q)
      PROVE  SubSeq(q, 1, k) \in Seq(S)
  BY LenProperties, SubSeqProperties
<1> QED
  BY <1>1, <1>2 DEF AfterCancelOut, AfterCancelIn

\* A transfer adds a number of bytes.
LEMMA DataLenType ==
    ASSUME NEW t \in OutTransfers
    PROVE  DataLen(t) \in Nat
  BY DEF DataLen

\* A queue holds a number of bytes, none when it is empty.
LEMMA BytesType ==
    ASSUME NEW q \in Seq(OutTransfers)
    PROVE  /\ IsFiniteSet({i \in DOMAIN q : q[i].data})
           /\ Bytes(q) \in Nat
           /\ q = <<>> => Bytes(q) = 0
<1> DEFINE D == {i \in DOMAIN q : q[i].data}
<1>1. DOMAIN q = 1..Len(q) /\ Len(q) \in Nat
  BY LenProperties
<1>2. IsFiniteSet(1..Len(q))
  BY <1>1, FS_Interval
<1>3. IsFiniteSet(D)
  BY <1>1, <1>2, FS_Subset
<1>4. Cardinality(D) \in Nat
  BY <1>3, FS_CardinalityType
<1>5. ASSUME q = <<>> PROVE Cardinality(D) = 0
  <2>1. D = {}
    BY <1>1, <1>5
  <2> QED
    BY <2>1, FS_EmptySet
<1> QED
  BY <1>3, <1>4, <1>5 DEF Bytes

\* What a queue gains with the transfer that is appended
LEMMA BytesAppend ==
    ASSUME NEW q \in Seq(OutTransfers), NEW t \in OutTransfers
    PROVE  Bytes(Append(q, t)) = Bytes(q) + DataLen(t)
<1> DEFINE D == {i \in DOMAIN q : q[i].data}
           a == Append(q, t)
           A == {i \in DOMAIN a : a[i].data}
           n == Len(q) + 1
<1>1. /\ DOMAIN q = 1..Len(q) /\ Len(q) \in Nat
      /\ DOMAIN a = 1..n /\ a[n] = t
      /\ \A i \in 1..Len(q) : a[i] = q[i]
  BY LenProperties, AppendProperties
<1>2. IsFiniteSet(D) /\ Cardinality(D) \in Nat /\ n \notin D
  <2>1. IsFiniteSet(D) /\ Cardinality(D) \in Nat
    BY BytesType, Zenon DEF Bytes
  <2>2. n \notin 1..Len(q)
    BY <1>1
  <2>3. D \subseteq 1..Len(q)
    BY <1>1, Zenon
  <2> QED
    BY <2>1, <2>2, <2>3
<1> HIDE DEF a
<1>3. CASE t.data
  <2>1. A = D \cup {n}
    BY <1>1, <1>3
  <2>2. Cardinality(A) = Cardinality(D) + 1
    BY <1>2, <2>1, FS_AddElement
  <2> QED
    BY <1>3, <2>2 DEF Bytes, DataLen, a
<1>4. CASE ~t.data
  <2>1. A = D
    BY <1>1, <1>4
  <2>2. Bytes(a) = Bytes(q)
    BY <2>1, Zenon DEF Bytes
  <2>3. Bytes(q) \in Nat /\ DataLen(t) = 0
    BY <1>4, BytesType DEF DataLen
  <2> QED
    BY <2>2, <2>3 DEF a
<1> QED
  BY <1>3, <1>4

\* What a queue loses with the transfer that is taken off
LEMMA BytesTail ==
    ASSUME NEW q \in Seq(OutTransfers), q # <<>>
    PROVE  Bytes(q) = DataLen(Head(q)) + Bytes(Tail(q))
<1> DEFINE D == {i \in DOMAIN q : q[i].data}
           t == Tail(q)
           T == {i \in DOMAIN t : t[i].data}
           E == D \ {1}
           f == [i \in T |-> i + 1]
<1>1. /\ DOMAIN q = 1..Len(q) /\ Len(q) \in Nat \ {0}
      /\ t \in Seq(OutTransfers) /\ DOMAIN t = 1..(Len(q) - 1)
      /\ \A i \in 1..(Len(q) - 1) : t[i] = q[i + 1]
      /\ Head(q) = q[1]
  BY LenProperties, HeadTailProperties, EmptySeq
<1>2. IsFiniteSet(D) /\ Cardinality(D) \in Nat
  BY BytesType DEF Bytes
<1>3. IsFiniteSet(T) /\ Cardinality(T) \in Nat
  BY <1>1, BytesType DEF Bytes
<1> HIDE DEF t
<1>4. Cardinality(E) = Cardinality(T)
  <2>1. f \in [T -> E]
    BY <1>1
  <2>2. \A i, j \in T : f[i] = f[j] => i = j
    BY <1>1
  <2>3. \A e \in E : \E i \in T : f[i] = e
    <3>1. ASSUME NEW e \in E PROVE e - 1 \in T /\ f[e - 1] = e
      BY <1>1, <3>1
    <3> QED
      BY <3>1
  <2>4. f \in Bijection(T, E)
    BY <2>1, <2>2, <2>3, Fun_IsBij
  <2> QED
    BY <1>3, <2>4, FS_Bijection DEF ExistsBijection
<1>5. Cardinality(E) = IF 1 \in D THEN Cardinality(D) - 1 ELSE Cardinality(D)
  BY <1>2, FS_RemoveElement
<1>6. 1 \in D <=> Head(q).data
  BY <1>1
<1>7. Cardinality(D) = DataLen(Head(q)) + Cardinality(T)
  BY <1>2, <1>3, <1>4, <1>5, <1>6 DEF DataLen
<1> QED
  BY <1>7 DEF Bytes, t

(***************************************************************************)
(* The inductive invariant.                                                *)
(***************************************************************************)

\* Transfer tasks exist only where the main task polls them or is about to
\* drop them, and a connection is being opened only if it has a number.
TasksWhere ==
    /\ main \in {"opening", "echoing", "stopped"} =>
          in_task = None /\ out_task = None
    /\ main \in {"opening", "timing_out"} => nconn \in Conns

TaskInv == TypeOK /\ TasksMatchFlags /\ TasksWhere

\* It holds when the UpcFunction has been created.
LEMMA InitTask == Init => TaskInv
<1> SUFFICES ASSUME Init PROVE TaskInv
  OBVIOUS
<1> USE BoundsAssumption, EmptySeq DEF Init, None
<1>1. FlagsOK
  BY Zenon DEF FlagsOK
<1>2. MainTypeOK
  BY DEF MainTypeOK
<1>3. AppTypeOK
  BY DEF AppTypeOK, Conns
<1>4. LinkTypeOK
  BY DEF LinkTypeOK, InEnds, OutEnds, Conns
<1>5. TasksMatchFlags /\ TasksWhere
  BY DEF TasksMatchFlags, TasksWhere
<1> QED
  BY <1>1, <1>2, <1>3, <1>4, <1>5 DEF TaskInv, TypeOK

(***************************************************************************)
(* Every step keeps the types.                                             *)
(***************************************************************************)

\* The Boolean variables
LEMMA FlagStep == TypeOK /\ Next => FlagsOK'
<1> SUFFICES ASSUME FlagsOK, Next PROVE FlagsOK'
  BY DEF TypeOK
<1> USE BoundsAssumption
    DEF FlagsOK, mainVars, openVars, capsVars, device, app, link,
        haltVars, hostVars
<1>1. CASE Enable BY <1>1 DEF Enable
<1>2. CASE Disable
  BY <1>2 DEF Disable, CleanEndpoints, ResetState, AfterClearHalt, NoSession
<1>3. CASE Close
  BY <1>3 DEF Close, CleanEndpoints, ResetState, AfterClearHalt, NoSession
<1>4. CASE CapabilitiesIn BY <1>4 DEF CapabilitiesIn
<1>5. CASE CapabilitiesOut BY <1>5 DEF CapabilitiesOut
<1>6. CASE Echo \/ EchoFlushed BY <1>6 DEF Echo, EchoFlushed
<1>7. CASE OpenRequest BY <1>7 DEF OpenRequest
<1>8. CASE OpenFailed BY <1>8 DEF OpenFailed
<1>9. CASE OpenEstablished BY <1>9 DEF OpenEstablished
<1>10. CASE CloseSend BY <1>10 DEF CloseSend
<1>11. CASE CloseRecv BY <1>11 DEF CloseRecv
<1>12. CASE Status BY <1>12, ZenonT(60) DEF Status, StatusRecvClosed
<1>13. CASE Tick BY <1>13 DEF Tick
<1>14. CASE TimeoutFired BY <1>14 DEF TimeoutFired
<1>15. CASE TimeoutClosed BY <1>15 DEF TimeoutClosed
<1>16. CASE InTaskReceive BY <1>16 DEF InTaskReceive
<1>17. CASE InTaskAll \/ InTaskDropped \/ InTaskFailed
  <2>1. CASE InTaskAll BY <2>1 DEF InTaskAll, InTaskEnds
  <2>2. CASE InTaskDropped BY <2>2 DEF InTaskDropped, InTaskEnds
  <2>3. CASE InTaskFailed BY <2>3 DEF InTaskFailed, InTaskEnds
  <2> QED BY <1>17, <2>1, <2>2, <2>3
<1>18. CASE OutTaskSend BY <1>18 DEF OutTaskSend
<1>19. CASE OutTaskDone \/ OutTaskFailed
  BY <1>19, ZenonT(60) DEF OutTaskDone, OutTaskFailed, OutTaskEnds
<1>20. CASE Unbound BY <1>20 DEF Unbound, MainEnds, NoSession
<1>21. CASE DropFunction BY <1>21 DEF DropFunction, MainEnds, NoSession
<1>22. CASE Accept BY <1>22 DEF Accept
<1>23. CASE Host BY <1>23 DEF Host, HostSend, HostSendEmpty,
                               HostRead, HostReadEcho
<1>24. CASE HostGone BY <1>24 DEF HostGone, NoSession
<1>25. ASSUME NEW c \in Conns,
              \/ Recv(c) \/ RecvEnd(c) \/ Send(c)
              \/ DropReceiver(c) \/ DropSender(c)
       PROVE  FlagsOK'
  BY <1>25 DEF Recv, RecvEnd, Send, DropReceiver, DropSender
<1> QED
  BY <1>1, <1>2, <1>3, <1>4, <1>5, <1>6, <1>7, <1>8, <1>9, <1>10, <1>11,
     <1>12, <1>13, <1>14, <1>15, <1>16, <1>17, <1>18, <1>19, <1>20, <1>21,
     <1>22, <1>23, <1>24, <1>25
     DEF Next, Requests, DeviceTask, Faults, Application

\* The locals of the main task
LEMMA MainTypeStep == TypeOK /\ TasksWhere /\ Next => MainTypeOK'
<1> SUFFICES ASSUME TypeOK, TasksWhere, Next PROVE MainTypeOK'
  OBVIOUS
<1> USE BoundsAssumption
    DEF TypeOK, MainTypeOK, mainVars, openVars, inVars, outVars, capsVars,
        timeVars, None, Serving
<1>1. CASE Enable BY <1>1 DEF Enable
<1>2. CASE Disable BY <1>2 DEF Disable, DropTasks, ResetState
<1>3. CASE Close BY <1>3 DEF Close, DropTasks, ResetState
<1>4. CASE CapabilitiesIn BY <1>4 DEF CapabilitiesIn, AppTypeOK
<1>5. CASE CapabilitiesOut BY <1>5 DEF CapabilitiesOut, LinkTypeOK
<1>6. CASE Echo BY <1>6 DEF Echo
<1>7. CASE EchoFlushed BY <1>7 DEF EchoFlushed
<1>8. CASE OpenRequest BY <1>8 DEF OpenRequest
<1>9. CASE OpenEstablished
  BY <1>9 DEF OpenEstablished, DeadlineAtOpen, TasksWhere, Conns
<1>10. CASE CloseSend BY <1>10 DEF CloseSend
<1>11. CASE CloseRecv BY <1>11 DEF CloseRecv
<1>12. CASE Status BY <1>12 DEF Status
<1>13. CASE Tick
  <2>1. Silence => since < PingTicks
    BY DEF Silence
  <2>2. timer' \in {Never} \cup 0..PingTicks
    BY <1>13 DEF Tick, Never
  <2>3. since' \in 0..PingTicks
    BY <1>13, <2>1 DEF Tick
  <2> QED
    BY <1>13, <2>2, <2>3 DEF Tick
<1>14. CASE TimeoutFired BY <1>14 DEF TimeoutFired
<1>15. CASE TimeoutClosed BY <1>15 DEF TimeoutClosed, DropTasks
<1>16. CASE InTaskReceive
  <2>1. Head(out_ep) \in OutTransfers
    BY <1>16, HeadTailProperties DEF InTaskReceive, LinkTypeOK
  <2>2. received' \in Nat
    BY <1>16, <2>1, DataLenType DEF InTaskReceive
  <2> QED
    BY <1>16, <2>2 DEF InTaskReceive
<1>17. CASE InTaskAll \/ InTaskDropped \/ InTaskFailed
  BY <1>17 DEF InTaskAll, InTaskDropped, InTaskFailed, InTaskEnds
<1>18. CASE OutTaskSend BY <1>18 DEF OutTaskSend
<1>19. CASE OutTaskDone \/ OutTaskFailed
  BY <1>19 DEF OutTaskDone, OutTaskFailed, OutTaskEnds
<1>20. CASE Unbound \/ DropFunction
  <2>1. MainEnds
    BY <1>20 DEF Unbound, DropFunction
  <2> QED
    BY <2>1 DEF MainEnds, DropTasks
<1>21. ASSUME NEW c \in Conns, Send(c) PROVE MainTypeOK'
  BY <1>21 DEF Send
<1>22. CASE UNCHANGED device
  BY <1>22 DEF device
<1>23. CASE OpenFailed \/ Accept \/ Host \/ HostGone
  BY <1>22, <1>23
     DEF OpenFailed, Accept, Host, HostSend, HostSendEmpty, HostRead,
         HostReadEcho, HostGone
<1>24. ASSUME NEW c \in Conns,
              Recv(c) \/ RecvEnd(c) \/ DropReceiver(c) \/ DropSender(c)
       PROVE  MainTypeOK'
  BY <1>22, <1>24 DEF Recv, RecvEnd, DropReceiver, DropSender
<1> QED
  BY <1>1, <1>2, <1>3, <1>4, <1>5, <1>6, <1>7, <1>8, <1>9, <1>10, <1>11,
     <1>12, <1>13, <1>14, <1>15, <1>16, <1>17, <1>18, <1>19, <1>20, <1>21,
     <1>23, <1>24
     DEF Next, Requests, DeviceTask, Faults, Application

\* What the application holds
LEMMA AppTypeStep == TypeOK /\ TasksWhere /\ Next => AppTypeOK'
<1> SUFFICES ASSUME TypeOK, TasksWhere, Next PROVE AppTypeOK'
  OBVIOUS
<1> USE BoundsAssumption
    DEF TypeOK, AppTypeOK, connVars, rxVars, txVars, errVars, None,
        Conns
<1>1. CASE UNCHANGED app
  BY <1>1 DEF app
<1>2. CASE Enable \/ Disable \/ Close \/ CapabilitiesIn \/ CapabilitiesOut
           \/ Echo \/ OpenFailed \/ CloseSend \/ CloseRecv \/ Status
  BY <1>1, <1>2
     DEF Enable, Disable, Close, CapabilitiesIn, CapabilitiesOut, Echo,
         OpenFailed, CloseSend, CloseRecv, Status
<1>3. CASE EchoFlushed \/ InTaskAll \/ InTaskDropped \/ OutTaskSend
           \/ OutTaskDone \/ InTaskFailed \/ OutTaskFailed \/ HostGone
           \/ Host \/ Tick
  BY <1>1, <1>3
     DEF EchoFlushed, InTaskAll, InTaskDropped, InTaskFailed, InTaskEnds,
         OutTaskSend, OutTaskDone, OutTaskFailed, OutTaskEnds, HostGone, Host,
         HostSend, HostSendEmpty, HostRead, HostReadEcho, Tick
<1>4. CASE OpenRequest
  BY <1>4 DEF OpenRequest, MainTypeOK, LinkTypeOK
<1>5. CASE OpenEstablished
  <2>1. nconn \in Conns
    BY <1>5 DEF OpenEstablished, TasksWhere
  <2>2. conn_q' \in Seq(Conns)
    BY <1>5, <2>1, AppendProperties DEF OpenEstablished
  <2> QED
    BY <1>5, <2>2 DEF OpenEstablished
<1>6. CASE TimeoutFired BY <1>6 DEF TimeoutFired
<1>7. CASE TimeoutClosed BY <1>7 DEF TimeoutClosed
<1>8. CASE InTaskReceive
  <2>1. Head(out_ep) \in OutTransfers
    BY <1>8, HeadTailProperties DEF InTaskReceive, LinkTypeOK
  <2>2. in_task \in Conns
    BY <1>8 DEF InTaskReceive, InTaskRuns, MainTypeOK
  <2>3. Append(rxq[in_task], Head(out_ep)) \in Seq(OutTransfers)
    BY <2>1, <2>2, AppendProperties
  <2>4. rxq' \in [Conns -> Seq(OutTransfers)]
    BY <1>8, <2>3 DEF InTaskReceive
  <2> QED
    BY <1>8, <2>4 DEF InTaskReceive
<1>9. CASE Unbound BY <1>9 DEF Unbound, MainEnds
<1>10. CASE DropFunction
  BY <1>10, EmptySeq DEF DropFunction, MainEnds
<1>11. CASE Accept
  BY <1>11, HeadTailProperties DEF Accept
<1>12. ASSUME NEW c \in Conns, Recv(c) PROVE AppTypeOK'
  <2>1. /\ Tail(rxq[c]) \in Seq(OutTransfers)
        /\ Head(rxq[c]) \in OutTransfers
    BY <1>12, HeadTailProperties DEF Recv
  <2>2. /\ rxq' = [rxq EXCEPT ![c] = Tail(rxq[c])]
        /\ got' = IF c = nconn THEN got + DataLen(Head(rxq[c])) ELSE got
    BY <1>12 DEF Recv
  <2>3. rxq' \in [Conns -> Seq(OutTransfers)]
    BY <2>1, <2>2
  <2>4. got' \in Nat
    BY <2>1, <2>2, DataLenType
  <2>5. UNCHANGED <<connVars, rx_alive, ended, txVars, errVars>>
    BY <1>12 DEF Recv
  <2> QED
    BY <2>3, <2>4, <2>5
<1>13. ASSUME NEW c \in Conns, RecvEnd(c) PROVE AppTypeOK'
  BY <1>13 DEF RecvEnd
<1>14. ASSUME NEW c \in Conns, Send(c) PROVE AppTypeOK'
  BY <1>14 DEF Send
<1>15. ASSUME NEW c \in Conns, DropReceiver(c) PROVE AppTypeOK'
  BY <1>15, EmptySeq DEF DropReceiver
<1>16. ASSUME NEW c \in Conns, DropSender(c) PROVE AppTypeOK'
  BY <1>16 DEF DropSender
<1> QED
  BY <1>2, <1>3, <1>4, <1>5, <1>6, <1>7, <1>8, <1>9, <1>10, <1>11, 
     <1>12, <1>13, <1>14, <1>15, <1>16
     DEF Next, Requests, DeviceTask, Faults, Application

\* The endpoints, the host and the history
LEMMA LinkTypeStep == TypeOK /\ Next => LinkTypeOK'
<1> SUFFICES ASSUME TypeOK, Next PROVE LinkTypeOK'
  OBVIOUS
<1> USE BoundsAssumption
    DEF TypeOK, LinkTypeOK, link, epVars, haltVars, hostVars, dataVars,
        endVars, InEnds, OutEnds, None
<1>1. AfterCancelOut(out_ep) \subseteq Seq(OutTransfers)
  BY AfterCancelType
<1>2. AfterCancelIn(in_ep) \subseteq Seq(0..MaxConn)
  BY AfterCancelType
<1>3. CASE Enable BY <1>3 DEF Enable
<1>4. CASE Disable
  BY <1>4, EmptySeq DEF Disable, DropTasks, CleanEndpoints, AfterDiscard, NoSession
<1>5. CASE Close
  BY <1>5, EmptySeq DEF Close, DropTasks, CleanEndpoints, AfterDiscard, NoSession
<1>6. CASE CapabilitiesIn BY <1>6 DEF CapabilitiesIn
<1>7. CASE CapabilitiesOut BY <1>7 DEF CapabilitiesOut
<1>8. CASE Echo
  <2>1. in_ep' \in Seq(0..MaxConn)
    BY <1>8, AppendProperties DEF Echo, Marker
  <2> QED
    BY <1>8, <2>1 DEF Echo
<1>9. CASE EchoFlushed BY <1>9 DEF EchoFlushed
<1>10. CASE OpenRequest
  BY <1>10, EmptySeq DEF OpenRequest, AfterPrepare, AppTypeOK
<1>11. CASE OpenFailed
  <2>1. AfterCancelOut(<<>>) \subseteq Seq(OutTransfers)
    BY AfterCancelType, EmptySeq
  <2> QED
    BY <1>11, <2>1 DEF OpenFailed, AfterPrepare
<1>12. CASE OpenEstablished BY <1>12 DEF OpenEstablished
<1>13. CASE CloseSend BY <1>13 DEF CloseSend
<1>14. CASE CloseRecv BY <1>14, <1>2 DEF CloseRecv
<1>15. CASE Status BY <1>15 DEF Status
<1>16. CASE Tick BY <1>16 DEF Tick
<1>17. CASE TimeoutFired BY <1>17 DEF TimeoutFired
<1>18. CASE TimeoutClosed BY <1>18, <1>1, <1>2 DEF TimeoutClosed, DropTasks
<1>19. CASE InTaskReceive
  BY <1>19, HeadTailProperties DEF InTaskReceive
<1>20. CASE InTaskAll \/ InTaskDropped \/ InTaskFailed
  BY <1>20, <1>1 DEF InTaskAll, InTaskDropped, InTaskFailed, InTaskEnds
<1>21. CASE OutTaskSend
  <2>1. in_ep' \in Seq(0..MaxConn)
    BY <1>21, AppendProperties DEF OutTaskSend, MainTypeOK
  <2> QED
    BY <1>21, <2>1 DEF OutTaskSend
<1>22. CASE OutTaskDone \/ OutTaskFailed
  BY <1>22 DEF OutTaskDone, OutTaskFailed, OutTaskEnds
<1>23. CASE Unbound \/ DropFunction
  <2>1. MainEnds
    BY <1>23 DEF Unbound, DropFunction
  <2> QED
    BY <2>1, EmptySeq DEF MainEnds, DropTasks, NoSession
<1>24. CASE Accept BY <1>24 DEF Accept
<1>25. ASSUME NEW c \in Conns,
              \/ Recv(c) \/ RecvEnd(c) \/ Send(c)
              \/ DropReceiver(c) \/ DropSender(c)
       PROVE  LinkTypeOK'
  BY <1>25 DEF Recv, RecvEnd, Send, DropReceiver, DropSender
<1>26. CASE HostSend \/ HostSendEmpty
  <2>1. PICK b \in BOOLEAN :
           /\ out_ep' = Append(out_ep, [conn |-> session, data |-> b])
           /\ session # None
    BY <1>26 DEF HostSend, HostSendEmpty
  <2>2. out_ep' \in Seq(OutTransfers)
    <3>1. [conn |-> session, data |-> b] \in OutTransfers
      BY <2>1 DEF OutTransfers, Conns
    <3> QED
      BY <2>1, <3>1, AppendProperties
  <2>3. /\ host_sent' \in 0..MaxSend
        /\ UNCHANGED <<in_ep, session, gen, host_got, in_end, out_end>>
    <3>1. CASE HostSend
      BY <1>26, <3>1 DEF HostSend
    <3>2. CASE HostSendEmpty
      BY <1>26, <3>2 DEF HostSendEmpty
    <3> QED
      BY <1>26, <3>1, <3>2
  <2> QED
    BY <2>2, <2>3
<1>27. CASE HostRead
  BY <1>27, HeadTailProperties DEF HostRead
<1>28. CASE HostReadEcho
  BY <1>28, HeadTailProperties DEF HostReadEcho
<1>29. CASE HostGone BY <1>29 DEF HostGone, NoSession
<1> QED
  BY <1>3, <1>4, <1>5, <1>6, <1>7, <1>8, <1>9, <1>10, <1>11, <1>12, <1>13,
     <1>14, <1>15, <1>16, <1>17, <1>18, <1>19, <1>20, <1>21, <1>22, <1>23,
     <1>24, <1>25, <1>26, <1>27, <1>28, <1>29
     DEF Next, Requests, DeviceTask, Faults, Application, Host

(***************************************************************************)
(* Every step keeps tasks and flags together.                              *)
(***************************************************************************)

\* The transfer tasks come and go with their flags, and a task is there only
\* while the main task polls it or is about to drop it.
LEMMA TasksStep == TaskInv /\ Next => (TasksMatchFlags /\ TasksWhere)'
<1> SUFFICES ASSUME TaskInv, Next PROVE (TasksMatchFlags /\ TasksWhere)'
  OBVIOUS
<1> USE BoundsAssumption
    DEF TaskInv, TasksMatchFlags, TasksWhere, mainVars, openVars, inVars,
        outVars, connVars, device, app, None
<1>1. CASE Enable BY <1>1 DEF Enable
<1>2. CASE Disable BY <1>2 DEF Disable, DropTasks, ResetState, Serving
<1>3. CASE Close BY <1>3 DEF Close, DropTasks, ResetState, Serving
<1>4. CASE CapabilitiesIn BY <1>4 DEF CapabilitiesIn
<1>5. CASE CapabilitiesOut BY <1>5 DEF CapabilitiesOut
<1>6. CASE Echo BY <1>6 DEF Echo, EchoAccepted
<1>7. CASE EchoFlushed BY <1>7 DEF EchoFlushed
<1>8. CASE OpenRequest
  <2>1. in_task = None /\ out_task = None
    BY <1>8 DEF OpenRequest, OpenAccepted
  <2>2. nconn' \in Conns /\ main' = "opening"
    BY <1>8 DEF OpenRequest, TypeOK, AppTypeOK, Conns
  <2> QED
    BY <1>8, <2>1, <2>2 DEF OpenRequest
<1>9. CASE OpenFailed BY <1>9 DEF OpenFailed
<1>10. CASE OpenEstablished
  <2>1. in_task' = nconn' /\ out_task' = nconn' /\ main' = "select"
    BY <1>10 DEF OpenEstablished
  <2>2. nconn' # None
    BY <1>10 DEF OpenEstablished, Conns
  <2>3. recv_open' /\ send_open'
    BY <1>10 DEF OpenEstablished
  <2> QED
    BY <2>1, <2>2, <2>3
<1>11. CASE CloseSend BY <1>11 DEF CloseSend
<1>12. CASE CloseRecv
  <2>1. UNCHANGED <<recv_open, in_task, nconn>> /\ out_task' = None
    BY <1>12 DEF CloseRecv
  <2>2. send_open' = FALSE /\ main' = "select"
    BY <1>12 DEF CloseRecv, Serving
  <2> QED
    BY <2>1, <2>2
<1>13. CASE Status BY <1>13 DEF Status
<1>14. CASE Tick BY <1>14 DEF Tick
<1>15. CASE TimeoutFired
  <2>1. send_open \/ recv_open
    BY <1>15 DEF TimeoutFired, PingExpired, Open
  <2>2. in_task # None \/ out_task # None
    BY <2>1
  <2>3. nconn \in Conns
    BY <2>2 DEF TypeOK, MainTypeOK, Conns
  <2> QED
    BY <1>15, <2>3 DEF TimeoutFired
<1>16. CASE TimeoutClosed BY <1>16 DEF TimeoutClosed, DropTasks
<1>17. CASE InTaskReceive BY <1>17 DEF InTaskReceive
<1>18. CASE InTaskAll \/ InTaskDropped \/ InTaskFailed
  <2>1. InTaskRuns /\ (InTaskEnds("all") \/ InTaskEnds("dropped") \/ InTaskEnds("failed"))
    BY <1>18 DEF InTaskAll, InTaskDropped, InTaskFailed
  <2> QED
    BY <2>1 DEF InTaskRuns, InTaskEnds
<1>19. CASE OutTaskSend BY <1>19 DEF OutTaskSend
<1>20. CASE OutTaskDone \/ OutTaskFailed
  <2>1. OutTaskRuns /\ (OutTaskEnds("done") \/ OutTaskEnds("failed"))
    BY <1>20 DEF OutTaskDone, OutTaskFailed
  <2> QED
    BY <2>1 DEF OutTaskRuns, OutTaskEnds
<1>21. CASE Unbound \/ DropFunction
  <2>1. MainEnds
    BY <1>21 DEF Unbound, DropFunction
  <2> QED
    BY <2>1 DEF MainEnds, DropTasks
<1>22. CASE Accept BY <1>22 DEF Accept
<1>23. CASE Host BY <1>23 DEF Host, HostSend, HostSendEmpty,
                               HostRead, HostReadEcho
<1>24. CASE HostGone BY <1>24 DEF HostGone
<1>25. ASSUME NEW c \in Conns,
              \/ Recv(c) \/ RecvEnd(c) \/ Send(c)
              \/ DropReceiver(c) \/ DropSender(c)
       PROVE  (TasksMatchFlags /\ TasksWhere)'
  BY <1>25 DEF Recv, RecvEnd, Send, DropReceiver, DropSender
<1> QED
  BY <1>1, <1>2, <1>3, <1>4, <1>5, <1>6, <1>7, <1>8, <1>9, <1>10, <1>11,
     <1>12, <1>13, <1>14, <1>15, <1>16, <1>17, <1>18, <1>19, <1>20, <1>21,
     <1>22, <1>23, <1>24, <1>25
     DEF Next, Requests, DeviceTask, Faults, Application

\* The types, the flags and the tasks of task() are consistent in every state,
\* for every number of connections, hosts, transfers and every ping timeout.
THEOREM TaskInvariant == Spec => []TaskInv
<1>1. TaskInv /\ [Next]_vars => TaskInv'
  <2> SUFFICES ASSUME TaskInv, [Next]_vars PROVE TaskInv'
    OBVIOUS
  <2>1. CASE Next
    BY <2>1, FlagStep, MainTypeStep, AppTypeStep, LinkTypeStep, TasksStep
       DEF TaskInv, TypeOK
  <2>2. CASE UNCHANGED vars
    <3>1. TypeOK'
      BY <2>2, SMTT(40)
         DEF vars, device, app, link, mainVars, openVars, inVars, outVars,
             capsVars, timeVars, connVars, rxVars, txVars, errVars,
             epVars, haltVars, hostVars, dataVars, endVars, TaskInv, TypeOK,
             FlagsOK, MainTypeOK, AppTypeOK, LinkTypeOK
    <3>2. (TasksMatchFlags /\ TasksWhere)'
      BY <2>2
         DEF vars, device, app, mainVars, openVars, inVars, outVars, connVars,
             TaskInv, TasksMatchFlags, TasksWhere
    <3> QED
      BY <3>1, <3>2 DEF TaskInv
  <2> QED
    BY <2>1, <2>2
<1> QED
  BY InitTask, <1>1, PTL DEF Spec

\* The locals of task(), the application's handles, the endpoints and the host
\* keep their types; the send queue stays within QueueLen.
THEOREM TypesCorrect == Spec => []TypeOK
<1>1. TaskInv => TypeOK
  BY DEF TaskInv
<1> QED
  BY TaskInvariant, <1>1, PTL

\* send_open and recv_open, which guard OPEN, ECHO, CLOSE_RECV and STATUS, say
\* exactly which of the futures polled by the select exist.
THEOREM FlagsCorrect == Spec => []TasksMatchFlags
<1>1. TaskInv => TasksMatchFlags
  BY DEF TaskInv
<1> QED
  BY TaskInvariant, <1>1, PTL

\* OPEN and ECHO get past their guards only when no transfer task of the same
\* loop owns the endpoint they lock.
THEOREM NoSelfWait == Spec => []NoSelfDeadlock
<1>1. TaskInv => NoSelfDeadlock
  BY DEF TaskInv, TasksMatchFlags, NoSelfDeadlock, OpenAccepted, EchoAccepted
<1> QED
  BY TaskInvariant, <1>1, PTL

-----------------------------------------------------------------------------
(***************************************************************************)
(* Nothing of an earlier host or connection in the halts, the limits and   *)
(* the RECV_CLOSED flag.                                                   *)
(***************************************************************************)

\* After CLOSE and before OPEN is served, a host of the library finds no
\* task, no halt and no capabilities but its own; OPEN finds no halt.
FreshOK ==
    LibraryHost =>
        /\ fresh => /\ in_task = None /\ out_task = None
                    /\ main # "opening" /\ host_caps \in {None, gen}
        /\ fresh \/ main = "opening" => ~halted_out /\ ~halted_in
        /\ NoStaleHalt /\ LimitOfOpener

\* The host has been told RECV_CLOSED only after in_task ended for good.
ToldOK == told_closed => in_task = None /\ main # "opening"

SessionInv == FreshOK /\ ToldOK

\* It holds at the start.
LEMMA InitSession == Init => SessionInv
  BY DEF Init, SessionInv, FreshOK, ToldOK, NoStaleHalt, LimitOfOpener

\* Every step keeps it.
LEMMA SessionStep == TaskInv /\ SessionInv /\ Next => SessionInv'
<1> SUFFICES ASSUME TaskInv, SessionInv, Next PROVE SessionInv'
  OBVIOUS
<1>0. /\ TasksMatchFlags /\ TasksWhere
  BY DEF TaskInv
<1> USE DEF SessionInv, FreshOK, ToldOK, NoStaleHalt, LimitOfOpener,
            mainVars, openVars, inVars, outVars, capsVars, connVars,
            device, app, link, haltVars, hostVars
<1>1. CASE Enable BY <1>1 DEF Enable
<1>2. CASE Disable
  BY <1>2 DEF Disable, DropTasks, CleanEndpoints, AfterClearHalt, ResetState,
              NoSession, Serving
<1>3. CASE Close
  BY <1>3 DEF Close, DropTasks, CleanEndpoints, AfterClearHalt, ResetState,
              NoSession, Serving
<1>4. CASE CapabilitiesIn BY <1>4 DEF CapabilitiesIn
<1>5. CASE CapabilitiesOut BY <1>5 DEF CapabilitiesOut
<1>6. CASE Echo BY <1>6 DEF Echo
<1>7. CASE EchoFlushed BY <1>7 DEF EchoFlushed
<1>8. CASE OpenRequest
  BY <1>0, <1>8 DEF OpenRequest, OpenAccepted, Connecting
<1>9. CASE OpenFailed BY <1>9 DEF OpenFailed
<1>10. CASE OpenEstablished
  BY <1>10 DEF OpenEstablished
<1>11. CASE CloseSend BY <1>11 DEF CloseSend
<1>12. CASE CloseRecv BY <1>12 DEF CloseRecv
<1>13. CASE Status
  BY <1>0, <1>13 DEF Status, StatusRecvClosed, TasksMatchFlags, Serving
<1>14. CASE Tick BY <1>14 DEF Tick
<1>15. CASE TimeoutFired BY <1>15 DEF TimeoutFired
<1>16. CASE TimeoutClosed BY <1>16 DEF TimeoutClosed, DropTasks
<1>17. CASE InTaskReceive BY <1>17 DEF InTaskReceive
<1>18. CASE InTaskAll \/ InTaskDropped \/ InTaskFailed
  BY <1>18 DEF InTaskAll, InTaskDropped, InTaskFailed, InTaskEnds, InTaskRuns
<1>19. CASE OutTaskSend BY <1>19 DEF OutTaskSend
<1>20. CASE OutTaskDone \/ OutTaskFailed
  BY <1>20 DEF OutTaskDone, OutTaskFailed, OutTaskEnds, OutTaskRuns
<1>21. CASE Unbound \/ DropFunction
  BY <1>21 DEF Unbound, DropFunction, MainEnds, DropTasks, NoSession
<1>22. CASE Accept BY <1>22 DEF Accept
<1>23. CASE Host BY <1>23 DEF Host, HostSend, HostSendEmpty,
                               HostRead, HostReadEcho
<1>24. CASE HostGone BY <1>24 DEF HostGone, NoSession
<1>25. ASSUME NEW c \in Conns,
              \/ Recv(c) \/ RecvEnd(c) \/ Send(c)
              \/ DropReceiver(c) \/ DropSender(c)
       PROVE  SessionInv'
  BY <1>25 DEF Recv, RecvEnd, Send, DropReceiver, DropSender
<1> QED
  BY <1>1, <1>2, <1>3, <1>4, <1>5, <1>6, <1>7, <1>8, <1>9, <1>10, <1>11,
     <1>12, <1>13, <1>14, <1>15, <1>16, <1>17, <1>18, <1>19, <1>20, <1>21,
     <1>22, <1>23, <1>24, <1>25
     DEF Next, Requests, DeviceTask, Faults, Application

\* FreshOK and ToldOK hold in every state.
THEOREM SessionInvariant == Spec => []SessionInv
<1>1. TaskInv /\ SessionInv /\ [Next]_vars => SessionInv'
  <2>1. SessionInv /\ UNCHANGED vars => SessionInv'
    BY DEF SessionInv, FreshOK, ToldOK, NoStaleHalt, LimitOfOpener, vars,
           device, app, link, mainVars, openVars, inVars, outVars, capsVars,
           connVars, haltVars, hostVars
  <2> QED
    BY SessionStep, <2>1
<1> QED
  BY InitSession, TaskInvariant, <1>1, PTL DEF Spec

\* A host of the library never starts a connection on an endpoint that is
\* still halted from a half-close before: CLOSE clears the halts and nothing
\* can halt an endpoint between CLOSE and OPEN.
THEOREM HaltsCleared ==
    ASSUME LibraryHost
    PROVE  Spec => []NoStaleHalt
<1>1. SessionInv => NoStaleHalt
  BY DEF SessionInv, FreshOK
<1> QED
  BY SessionInvariant, <1>1, PTL

\* The max_size of an UpcSender was sent by the host process that opened the
\* connection, or is the default.
THEOREM LimitsCorrect ==
    ASSUME LibraryHost
    PROVE  Spec => []LimitOfOpener
<1>1. SessionInv => LimitOfOpener
  BY DEF SessionInv, FreshOK
<1> QED
  BY SessionInvariant, <1>1, PTL

\* RECV_CLOSED in a STATUS response is final for the connection, whatever the
\* host sends.
THEOREM ToldIsFinal == Spec => []RecvClosedIsFinal
<1>1. SessionInv => RecvClosedIsFinal
  BY DEF SessionInv, ToldOK, RecvClosedIsFinal, None
<1> QED
  BY SessionInvariant, <1>1, PTL

(***************************************************************************)
(* The data of a connection.                                               *)
(***************************************************************************)

\* While a connection receives or is being opened, what is on the OUT
\* endpoint is its own; the host's session is always the newest connection.
OwnInv ==
    /\ session \in {None, nconn}
    /\ in_task # None \/ main = "opening" =>
          \A i \in 1..Len(out_ep) : out_ep[i].conn = nconn
    /\ ReceivesOwnData

\* It holds at the start.
LEMMA InitOwn == Init => OwnInv
  BY DEF Init, OwnInv, ReceivesOwnData, None

\* Every step keeps it.
LEMMA OwnStep == TaskInv /\ OwnInv /\ Next => OwnInv'
<1> SUFFICES ASSUME TaskInv, OwnInv, Next PROVE OwnInv'
  OBVIOUS
<1>0. /\ TasksMatchFlags /\ TasksWhere /\ nconn \in Nat
      /\ out_ep \in Seq(OutTransfers) /\ rxq \in [Conns -> Seq(OutTransfers)]
  BY BoundsAssumption DEF TaskInv, TypeOK, AppTypeOK, LinkTypeOK
<1> USE DEF OwnInv, ReceivesOwnData
<1> DEFINE used == <<main, in_task, nconn, session, out_ep, rxq>>
<1>1. CASE UNCHANGED used
  BY <1>1
<1>2. CASE Enable \/ CapabilitiesIn \/ CapabilitiesOut \/ CloseSend \/ Status
           \/ Tick \/ OutTaskSend \/ OutTaskDone \/ OutTaskFailed
           \/ Accept \/ HostRead
  <2>1. UNCHANGED used
    BY <1>2
       DEF Enable, CapabilitiesIn, CapabilitiesOut, CloseSend, Status, Tick,
           OutTaskSend, OutTaskDone, OutTaskFailed, OutTaskEnds, Accept,
           HostRead, mainVars, inVars, connVars, rxVars, device, app, link,
           epVars, hostVars
  <2> QED
    BY <1>1, <2>1
<1>3. ASSUME NEW c \in Conns, RecvEnd(c) \/ Send(c) \/ DropSender(c)
      PROVE  OwnInv'
  <2>1. UNCHANGED used
    BY <1>3
       DEF RecvEnd, Send, DropSender, mainVars, inVars, connVars, rxVars,
           device, app, link, epVars, hostVars
  <2> QED
    BY <1>1, <2>1
<1>4. CASE Disable \/ Close \/ Unbound \/ DropFunction \/ TimeoutClosed
  <2>1. in_task' = None /\ main' # "opening" /\ UNCHANGED <<nconn, rxq>>
    BY <1>4
       DEF Disable, Close, Unbound, DropFunction, MainEnds, TimeoutClosed,
           DropTasks, Serving, mainVars, connVars, rxVars, app
  <2>2. session' \in {None, session}
    BY <1>4
       DEF Disable, Close, Unbound, DropFunction, MainEnds, TimeoutClosed,
           NoSession, hostVars
  <2> QED
    BY <2>1, <2>2
<1>5. CASE Echo \/ EchoFlushed \/ HostReadEcho \/ HostGone \/ TimeoutFired
  <2>1. /\ UNCHANGED <<in_task, nconn, out_ep, rxq>>
        /\ session' \in {None, session} /\ (main' = "opening" => main = "opening")
    BY <1>5
       DEF Echo, EchoFlushed, HostReadEcho, HostGone, TimeoutFired, NoSession,
           inVars, connVars, rxVars, device, app, link, epVars, hostVars, mainVars
  <2> QED
    BY <2>1
<1>6. CASE OpenRequest
  BY <1>6 DEF OpenRequest, AfterPrepare
<1>7. CASE OpenFailed
  <2>1. /\ in_task = None /\ main # "opening"
        /\ UNCHANGED <<main, in_task, nconn, session, rxq>>
    BY <1>0, <1>7
       DEF OpenFailed, OpenAccepted, TasksMatchFlags, Serving, device, app,
           mainVars, inVars, connVars, rxVars, hostVars
  <2> QED
    BY <2>1
<1>8. CASE OpenEstablished
  BY <1>8 DEF OpenEstablished, link, rxVars, epVars, hostVars
<1>9. CASE CloseRecv
  BY <1>9 DEF CloseRecv, mainVars, inVars, app, connVars, rxVars, hostVars
<1>10. CASE InTaskReceive
  <2>1. /\ in_task = nconn /\ in_task # None /\ in_task \in Conns
        /\ out_ep # <<>> /\ out_ep' = Tail(out_ep)
    BY <1>0, <1>10
       DEF InTaskReceive, InTaskRuns, TasksMatchFlags, TaskInv, TypeOK,
           MainTypeOK, Conns, None
  <2>2. /\ Head(out_ep) \in OutTransfers /\ Head(out_ep).conn = nconn
        /\ \A i \in 1..Len(out_ep') : out_ep'[i].conn = nconn
    BY <1>0, <2>1, HeadTailProperties
  <2>3. ASSUME NEW c \in Conns, NEW i \in 1..Len(rxq'[c])
        PROVE  rxq'[c][i].conn = c
    <3>1. CASE rx_alive[in_task] /\ c = in_task
      <4>1. rxq'[c] = Append(rxq[c], Head(out_ep))
        BY <1>0, <1>10, <3>1 DEF InTaskReceive
      <4> QED
        BY <1>0, <2>1, <2>2, <3>1, <4>1, AppendProperties
    <3>2. CASE ~(rx_alive[in_task] /\ c = in_task)
      BY <1>0, <1>10, <3>2 DEF InTaskReceive
    <3> QED
      BY <3>1, <3>2
  <2> QED
    BY <1>10, <2>2, <2>3 DEF InTaskReceive, mainVars, connVars, hostVars
<1>11. CASE InTaskAll \/ InTaskDropped \/ InTaskFailed
  <2>1. /\ in_task' = None /\ main' = "select"
        /\ UNCHANGED <<nconn, session, rxq>>
    BY <1>11
       DEF InTaskAll, InTaskDropped, InTaskFailed, InTaskEnds, InTaskRuns,
           mainVars, app, connVars, rxVars, hostVars
  <2> QED
    BY <2>1
<1>12. CASE HostSend \/ HostSendEmpty
  <2>1. PICK b \in BOOLEAN :
           /\ out_ep' = Append(out_ep, [conn |-> session, data |-> b])
           /\ session # None
    BY <1>12 DEF HostSend, HostSendEmpty
  <2>2. UNCHANGED <<main, in_task, nconn, session, rxq>>
    BY <1>12
       DEF HostSend, HostSendEmpty, device, app, mainVars, inVars, connVars,
           rxVars, hostVars
  <2>3. session = nconn /\ session \in Conns
    BY <2>1 DEF TaskInv, TypeOK, LinkTypeOK, Conns, None
  <2>4. [conn |-> session, data |-> b] \in OutTransfers
    BY <2>3 DEF OutTransfers
  <2>5. ASSUME in_task # None \/ main = "opening",
               NEW i \in 1..Len(out_ep')
        PROVE  out_ep'[i].conn = nconn
    <3>1. /\ Len(out_ep) \in Nat /\ Len(out_ep') = Len(out_ep) + 1
          /\ \A k \in 1..Len(out_ep) : out_ep'[k] = out_ep[k]
          /\ out_ep'[Len(out_ep) + 1] = [conn |-> session, data |-> b]
      BY <1>0, <2>1, <2>4, AppendProperties
    <3>2. CASE i \in 1..Len(out_ep)
      BY <2>5, <3>1, <3>2
    <3>3. CASE i = Len(out_ep) + 1
      BY <2>3, <3>1, <3>3
    <3> QED
      BY <3>1, <3>2, <3>3
  <2> QED
    BY <2>2, <2>5
<1>13. ASSUME NEW c \in Conns, Recv(c) PROVE OwnInv'
  <2>1. /\ rxq[c] # <<>> /\ rxq' = [rxq EXCEPT ![c] = Tail(rxq[c])]
        /\ UNCHANGED <<main, in_task, nconn, session, out_ep>>
    BY <1>13
       DEF Recv, device, link, mainVars, inVars, connVars, hostVars, epVars
  <2>2. ASSUME NEW d \in Conns, NEW i \in 1..Len(rxq'[d])
        PROVE  rxq'[d][i].conn = d
    BY <1>0, <2>1, HeadTailProperties
  <2> QED
    BY <2>1, <2>2
<1>14. ASSUME NEW c \in Conns, DropReceiver(c) PROVE OwnInv'
  <2>1. /\ rxq' = [rxq EXCEPT ![c] = <<>>]
        /\ UNCHANGED <<main, in_task, nconn, session, out_ep>>
    BY <1>14
       DEF DropReceiver, device, link, mainVars, inVars, connVars, hostVars,
           epVars
  <2>2. ASSUME NEW d \in Conns, NEW i \in 1..Len(rxq'[d])
        PROVE  rxq'[d][i].conn = d
    BY <1>0, <2>1
  <2> QED
    BY <2>1, <2>2
<1> QED
  BY <1>2, <1>3, <1>4, <1>5, <1>6, <1>7, <1>8, <1>9, <1>10, <1>11, <1>12,
     <1>13, <1>14
     DEF Next, Requests, DeviceTask, Faults, Application, Host

\* Whatever a host sends, and whenever it was killed or timed out, recv() of a
\* connection returns only transfers sent in that connection: OPEN drains the
\* OUT endpoint before the host takes the connection as open.
THEOREM OwnDataOnly == Spec => []ReceivesOwnData
<1>1. TaskInv /\ OwnInv /\ [Next]_vars => OwnInv'
  <2>1. OwnInv /\ UNCHANGED vars => OwnInv'
    BY DEF OwnInv, ReceivesOwnData, vars, device, app, link, mainVars, inVars,
           connVars, rxVars, epVars, hostVars
  <2> QED
    BY OwnStep, <2>1
<1>2. OwnInv => ReceivesOwnData
  BY DEF OwnInv
<1> QED
  BY InitOwn, TaskInvariant, <1>1, <1>2, PTL DEF Spec

(***************************************************************************)
(* The ping timeout.                                                       *)
(***************************************************************************)

\* A connection the timeout closes has its error stored, and nobody was told
\* of an end before: recv() cannot see one while in_task holds the queue.
ReportInv ==
    /\ \A c \in Conns : timed_out[c] =>
          conn_error[c] # "none" /\ ended[c] # "eof"
    /\ main = "timing_out" => conn_error[nconn] # "none"
    /\ \A c \in Conns :
          c > nconn \/ in_task = c \/ (main = "opening" /\ c = nconn) =>
             ended[c] = "no"
    /\ \A c \in Conns : c > nconn => ~rx_alive[c]

\* It holds at the start.
LEMMA InitReport == Init => ReportInv
  BY DEF Init, ReportInv, None

\* Every step keeps it.
LEMMA ReportStep == TaskInv /\ ReportInv /\ Next => ReportInv'
<1> SUFFICES ASSUME TaskInv, ReportInv, Next PROVE ReportInv'
  OBVIOUS
<1>0. /\ TasksMatchFlags /\ TasksWhere /\ nconn \in Nat
      /\ ended \in [Conns -> {"no", "eof", "error"}]
      /\ conn_error \in [Conns -> {"none", "TimedOut"}]
      /\ rx_alive \in [Conns -> BOOLEAN] /\ timed_out \in [Conns -> BOOLEAN]
  BY BoundsAssumption DEF TaskInv, TypeOK, AppTypeOK
<1> USE DEF ReportInv
<1> DEFINE used == <<main, in_task, nconn, rx_alive, ended, conn_error, timed_out>>
<1>1. CASE UNCHANGED used
  BY <1>1
<1>2. CASE Enable \/ CapabilitiesIn \/ CapabilitiesOut \/ OpenFailed \/ CloseSend
           \/ CloseRecv \/ Status \/ Tick \/ InTaskReceive \/ OutTaskSend
           \/ OutTaskDone \/ OutTaskFailed \/ Accept \/ Host \/ HostGone
  <2>1. UNCHANGED used
    BY <1>2
       DEF Enable, CapabilitiesIn, CapabilitiesOut, OpenFailed, CloseSend,
           CloseRecv, Status, Tick, InTaskReceive, OutTaskSend, OutTaskDone,
           OutTaskFailed, OutTaskEnds, Accept, Host, HostSend, HostSendEmpty,
           HostRead,
           HostReadEcho, HostGone, mainVars, inVars, connVars, rxVars, errVars,
           device, app
  <2> QED
    BY <1>1, <2>1
<1>3. CASE Disable \/ Close \/ Unbound
  <2>1. in_task' = None /\ main' # "opening" /\ main' # "timing_out"
    BY <1>3 DEF Disable, Close, Unbound, MainEnds, DropTasks, Serving, mainVars
  <2>2. UNCHANGED <<nconn, rx_alive, ended, errVars>>
    BY <1>3 DEF Disable, Close, Unbound, MainEnds, app, connVars, rxVars
  <2> QED
    BY <2>1, <2>2 DEF errVars, None, Conns
<1>4. CASE DropFunction
  <2>1. /\ in_task' = None /\ main' = "stopped"
        /\ UNCHANGED <<nconn, ended, errVars>>
    BY <1>4 DEF DropFunction, MainEnds, DropTasks
  <2>2. \A c \in Conns : rx_alive'[c] => rx_alive[c]
    BY <1>4 DEF DropFunction
  <2> QED
    BY <2>1, <2>2 DEF errVars, None, Conns
<1>5. CASE Echo \/ EchoFlushed \/ InTaskAll \/ InTaskDropped \/ InTaskFailed
  <2>1. /\ UNCHANGED <<nconn, rx_alive, ended, errVars>>
        /\ main' \in {"select", "echoing"} /\ in_task' \in {None, in_task}
    BY <1>5
       DEF Echo, EchoFlushed, InTaskAll, InTaskDropped, InTaskFailed,
           InTaskEnds, InTaskRuns, app, connVars, rxVars, inVars, mainVars
  <2> QED
    BY <2>1 DEF errVars, None, Conns
<1>6. CASE OpenRequest
  <2>1. /\ nconn' = nconn + 1 /\ nconn' \in Conns /\ in_task' = in_task
        /\ main' = "opening" /\ rx_alive' = [rx_alive EXCEPT ![nconn'] = TRUE]
        /\ UNCHANGED <<ended, errVars>>
    BY <1>0, <1>6, BoundsAssumption DEF OpenRequest, inVars, Conns
  <2> QED
    BY <1>0, <2>1 DEF errVars, Conns
<1>7. CASE OpenEstablished
  BY <1>0, <1>7 DEF OpenEstablished, TasksWhere, rxVars, errVars
<1>8. CASE TimeoutFired
  <2>1. nconn \in Conns
    <3>1. send_open \/ recv_open
      BY <1>8 DEF TimeoutFired, PingExpired, Open
    <3>2. in_task # None \/ out_task # None
      BY <1>0, <3>1 DEF TasksMatchFlags
    <3> QED
      BY <1>0, <3>2
         DEF TasksMatchFlags, TaskInv, TypeOK, MainTypeOK, Conns, None
  <2> QED
    BY <1>0, <1>8, <2>1 DEF TimeoutFired, rxVars, connVars, inVars
<1>9. CASE TimeoutClosed
  <2>1. /\ in_task \in {None, nconn} /\ conn_error[nconn] # "none"
        /\ in_task # None => in_task \in Conns /\ ended[in_task] = "no"
    BY <1>0, <1>9
       DEF TimeoutClosed, TasksMatchFlags, TaskInv, TypeOK, MainTypeOK, Conns,
           None
  <2>2. /\ in_task' = None /\ main' = "select"
        /\ UNCHANGED <<nconn, rx_alive, ended, conn_error>>
    BY <1>9 DEF TimeoutClosed, DropTasks, connVars, rxVars
  <2>3. \A c \in Conns : timed_out'[c] => timed_out[c] \/ c = in_task
    BY <1>0, <1>9 DEF TimeoutClosed
  <2> QED
    BY <2>1, <2>2, <2>3 DEF None, Conns
<1>10. ASSUME NEW c \in Conns, Recv(c) \/ Send(c) \/ DropSender(c)
       PROVE  ReportInv'
  <2>1. UNCHANGED used
    BY <1>10
       DEF Recv, Send, DropSender, mainVars, inVars, connVars, rxVars, errVars,
           device
  <2> QED
    BY <1>1, <2>1
<1>11. ASSUME NEW c \in Conns, RecvEnd(c) PROVE ReportInv'
  <2>1. rx_alive[c] /\ in_task # c /\ ~(main = "opening" /\ c = nconn)
    BY <1>11 DEF RecvEnd, Receives, Waiting
  <2>2. /\ UNCHANGED <<main, in_task, nconn, rx_alive, conn_error, timed_out>>
        /\ ended' = [ended EXCEPT ![c] =
                        IF conn_error[c] # "none" THEN "error" ELSE "eof"]
    BY <1>11 DEF RecvEnd, device, mainVars, inVars, connVars, errVars
  <2> QED
    BY <1>0, <2>1, <2>2
<1>12. ASSUME NEW c \in Conns, DropReceiver(c) PROVE ReportInv'
  <2>1. /\ UNCHANGED <<main, in_task, nconn, conn_error, timed_out>>
        /\ ended' = [ended EXCEPT ![c] = "no"]
        /\ rx_alive' = [rx_alive EXCEPT ![c] = FALSE]
    BY <1>12 DEF DropReceiver, device, mainVars, inVars, connVars, errVars
  <2> QED
    BY <1>0, <2>1
<1> QED
  BY <1>2, <1>3, <1>4, <1>5, <1>6, <1>7, <1>8, <1>9, <1>10, <1>11, <1>12
     DEF Next, Requests, DeviceTask, Faults, Application

\* ReportInv holds in every state.
THEOREM ReportInvariant == Spec => []ReportInv
<1>1. TaskInv /\ ReportInv /\ [Next]_vars => ReportInv'
  <2>1. ReportInv /\ UNCHANGED vars => ReportInv'
    BY DEF ReportInv, vars, device, app, mainVars, inVars, connVars, rxVars,
           errVars
  <2> QED
    BY ReportStep, <2>1
<1> QED
  BY InitReport, TaskInvariant, <1>1, PTL DEF Spec

\* The receiver of a connection closed by the ping timeout gets TimedOut and
\* never a clean end, on whichever thread and whenever it looks.
THEOREM TimeoutSeen == Spec => []TimeoutReported
<1>1. ReportInv => TimeoutReported
  BY DEF ReportInv, TimeoutReported
<1> QED
  BY ReportInvariant, <1>1, PTL

\* timeout_sleep of an open connection never fires before PingTicks have
\* passed since OPEN or STATUS.
SilenceInv ==
    LibraryHost =>
        /\ Open /\ ping_timeout => timer = Never \/ timer + since >= PingTicks
        /\ TimeoutOnlyWhenSilent

\* It holds at the start.
LEMMA InitSilence == Init => SilenceInv
  BY DEF Init, SilenceInv, Open, TimeoutOnlyWhenSilent

\* Every step keeps it.
LEMMA SilenceStep ==
    TaskInv /\ SessionInv /\ SilenceInv /\ Next => SilenceInv'
<1> SUFFICES ASSUME TaskInv, SessionInv, SilenceInv, Next, LibraryHost
             PROVE  SilenceInv'
  BY DEF SilenceInv
<1>0. /\ TasksMatchFlags /\ TasksWhere
      /\ timer \in {Never} \cup 0..PingTicks /\ since \in 0..PingTicks
      /\ PingTicks \in Nat \ {0}
  BY BoundsAssumption DEF TaskInv, TypeOK, MainTypeOK
<1> USE DEF SilenceInv, Open, TimeoutOnlyWhenSilent
<1> DEFINE used == <<main, send_open, recv_open, ping_timeout, timer, since>>
<1>1. CASE UNCHANGED used
  BY <1>1
<1>2. CASE Enable \/ CapabilitiesOut \/ OpenFailed \/ CloseSend
           \/ InTaskReceive \/ OutTaskSend
           \/ Accept \/ Host \/ HostGone
  <2>1. UNCHANGED used
    BY <1>2
       DEF Enable, CapabilitiesOut, OpenFailed, CloseSend, InTaskReceive,
           OutTaskSend, Accept, Host, HostSend, HostSendEmpty, HostRead,
           HostReadEcho,
           HostGone, mainVars, openVars, capsVars, timeVars, device
  <2> QED
    BY <1>1, <2>1
<1>3. ASSUME NEW c \in Conns,
             \/ Recv(c) \/ RecvEnd(c) \/ Send(c)
             \/ DropReceiver(c) \/ DropSender(c)
      PROVE  SilenceInv'
  <2>1. UNCHANGED used
    BY <1>3
       DEF Recv, RecvEnd, Send, DropReceiver, DropSender, mainVars, openVars,
           capsVars, timeVars, device
  <2> QED
    BY <1>1, <2>1
<1>4. CASE Disable \/ Close \/ Unbound \/ DropFunction \/ TimeoutClosed
  <2>1. send_open' = FALSE /\ recv_open' = FALSE /\ main' # "timing_out"
    BY <1>4
       DEF Disable, Close, ResetState, Unbound, DropFunction, MainEnds,
           TimeoutClosed, Serving, mainVars
  <2> QED
    BY <2>1
<1>5. CASE CapabilitiesIn
  <2>1. main = "select" /\ main' = main /\ ~send_open /\ ~recv_open
    BY <1>0, <1>5
       DEF CapabilitiesIn, Serving, Connecting, SessionInv, FreshOK,
           TasksMatchFlags, mainVars
  <2> QED
    BY <1>5, <2>1 DEF CapabilitiesIn, openVars
<1>6. CASE Echo \/ EchoFlushed \/ OpenRequest
  BY <1>6 DEF Echo, EchoFlushed, OpenRequest, openVars, capsVars, timeVars
<1>7. CASE OpenEstablished
  BY <1>0, <1>7 DEF OpenEstablished, DeadlineAtOpen, capsVars
<1>8. CASE Status
  BY <1>0, <1>8 DEF Status, Serving, mainVars, openVars, capsVars
<1>9. CASE Tick
  <2>1. UNCHANGED <<main, send_open, recv_open, ping_timeout>>
    BY <1>9 DEF Tick, mainVars, openVars, capsVars
  <2>2. /\ timer' = (IF timer > 0 THEN timer - 1 ELSE timer)
        /\ since' = (IF Silence THEN since + 1 ELSE since)
    BY <1>9 DEF Tick
  <2>3. Open /\ ping_timeout => (Silence <=> since < PingTicks)
    BY DEF Silence
  <2>4. Silence => since < PingTicks
    BY DEF Silence
  <2>5. since' \in 0..PingTicks /\ since' >= since
    BY <1>0, <2>2, <2>4
  <2>6. CASE timer = Never
    BY <1>0, <2>1, <2>2, <2>5, <2>6 DEF Never
  <2>7. CASE timer # Never
    BY <1>0, <2>1, <2>2, <2>3, <2>5, <2>7 DEF Never
  <2> QED
    BY <2>6, <2>7
<1>10. CASE TimeoutFired
  BY <1>0, <1>10
     DEF TimeoutFired, PingExpired, openVars, capsVars, timeVars, Never
<1>11. CASE CloseRecv \/ InTaskAll \/ InTaskDropped \/ InTaskFailed
            \/ OutTaskDone \/ OutTaskFailed
  <2>1. UNCHANGED <<main, ping_timeout, timer, since>>
    BY <1>11
       DEF CloseRecv, InTaskAll, InTaskDropped, InTaskFailed, InTaskEnds,
           OutTaskDone, OutTaskFailed, OutTaskEnds, mainVars, capsVars, timeVars
  <2>2. (send_open' => send_open) /\ (recv_open' => recv_open)
    BY <1>11
       DEF CloseRecv, InTaskAll, InTaskDropped, InTaskFailed, InTaskEnds,
           OutTaskDone, OutTaskFailed, OutTaskEnds
  <2> QED
    BY <2>1, <2>2
<1> QED
  BY <1>2, <1>3, <1>4, <1>5, <1>6, <1>7, <1>8, <1>9, <1>10, <1>11
     DEF Next, Requests, DeviceTask, Faults, Application

\* The ping timeout of a library host's connection fires only after the whole
\* timeout has passed without OPEN or STATUS, although timeout_sleep may still
\* hold a deadline of an earlier connection.
THEOREM NoEarlyTimeout ==
    ASSUME LibraryHost
    PROVE  Spec => []TimeoutOnlyWhenSilent
<1>1. TaskInv /\ SessionInv /\ SilenceInv /\ [Next]_vars => SilenceInv'
  <2>1. SilenceInv /\ UNCHANGED vars => SilenceInv'
    BY DEF SilenceInv, Open, TimeoutOnlyWhenSilent, vars, device, mainVars,
           openVars, capsVars, timeVars
  <2> QED
    BY SilenceStep, <2>1
<1>2. SilenceInv => TimeoutOnlyWhenSilent
  BY DEF SilenceInv
<1> QED
  BY InitSilence, TaskInvariant, SessionInvariant, <1>1, <1>2, PTL DEF Spec

-----------------------------------------------------------------------------
(***************************************************************************)
(* A half-close of either side comes after the data, and the host reads    *)
(* nothing of an earlier connection: for a host of the library.            *)
(***************************************************************************)
\* What cancel() leaves on the IN endpoint is a prefix of what was there.
LEMMA AfterCancelInPrefix ==
    ASSUME NEW S, NEW q \in Seq(S), NEW r \in AfterCancelIn(q)
    PROVE  /\ r \in Seq(S) /\ Len(r) <= Len(q)
           /\ \A i \in 1..Len(r) : r[i] = q[i]
<1>1. PICK k \in 0..Len(q) : r = SubSeq(q, 1, k)
  BY DEF AfterCancelIn
<1> QED
  BY <1>1, LenProperties, SubSeqProperties

\* Then it is empty if that was.
LEMMA AfterCancelInEmpty ==
    ASSUME NEW S, <<>> \in Seq(S), NEW r \in AfterCancelIn(<<>>)
    PROVE  r = <<>>
<1>1. r \in Seq(S) /\ Len(r) <= 0
  BY AfterCancelInPrefix, EmptySeq
<1> QED
  BY <1>1, EmptySeq, LenProperties

(***************************************************************************)
(* The IN endpoint.                                                        *)
(***************************************************************************)

\* CLOSE leaves the IN endpoint empty and only the ECHO marker comes on it
\* before OPEN; from then on it holds the transfers of the session.
SendsInv ==
    LibraryHost =>
        /\ SendsOwnData
        /\ fresh /\ main # "echoing" => in_ep = <<>>
        /\ main = "echoing" => session = None
        /\ main = "opening" => in_ep = <<>>

\* It holds at the start.
LEMMA InitSends == Init => SendsInv
  BY DEF Init, SendsInv, SendsOwnData, None

\* Every step keeps it.
LEMMA SendsStep ==
    TaskInv /\ SessionInv /\ OwnInv /\ SendsInv /\ Next => SendsInv'
<1> SUFFICES ASSUME TaskInv, SessionInv, OwnInv, SendsInv, Next, LibraryHost
             PROVE  SendsInv'
  BY DEF SendsInv
<1>0. /\ TasksMatchFlags /\ TasksWhere /\ nconn \in Nat
      /\ in_ep \in Seq(0..MaxConn) /\ session \in {None, nconn}
      /\ fresh => in_task = None /\ out_task = None /\ main # "opening"
  BY BoundsAssumption
     DEF TaskInv, TypeOK, AppTypeOK, LinkTypeOK, OwnInv, SessionInv, FreshOK
<1> USE DEF SendsInv, SendsOwnData
<1> DEFINE used == <<main, fresh, session, in_ep>>
<1>1. CASE UNCHANGED used
  BY <1>1
<1>2. CASE Enable \/ CapabilitiesIn \/ CapabilitiesOut \/ OpenFailed
           \/ CloseSend \/ Status \/ Tick \/ InTaskReceive \/ InTaskAll
           \/ InTaskDropped \/ InTaskFailed \/ OutTaskDone \/ OutTaskFailed
           \/ Accept \/ HostSend \/ HostSendEmpty
  <2>1. UNCHANGED used
    BY <1>2
       DEF Enable, CapabilitiesIn, CapabilitiesOut, OpenFailed, CloseSend,
           Status, Tick, InTaskReceive, InTaskAll, InTaskDropped, InTaskFailed,
           InTaskEnds, OutTaskDone, OutTaskFailed, OutTaskEnds, Accept,
           HostSend, HostSendEmpty, mainVars, device, link, epVars, hostVars
  <2> QED
    BY <1>1, <2>1
<1>3. ASSUME NEW c \in Conns,
             \/ Recv(c) \/ RecvEnd(c) \/ Send(c)
             \/ DropReceiver(c) \/ DropSender(c)
      PROVE  SendsInv'
  <2>1. UNCHANGED used
    BY <1>3
       DEF Recv, RecvEnd, Send, DropReceiver, DropSender, mainVars, device,
           link, epVars, hostVars
  <2> QED
    BY <1>1, <2>1
<1>4. CASE Disable \/ Close \/ Unbound \/ DropFunction
  <2>1. in_ep' = <<>> /\ session' = None /\ main' # "opening"
    BY <1>4
       DEF Disable, Close, CleanEndpoints, AfterDiscard, Unbound,
           DropFunction, MainEnds, NoSession, Serving, mainVars
  <2> QED
    BY <2>1
<1>5. CASE Echo
  BY <1>5 DEF Echo, Connecting, hostVars
<1>6. CASE EchoFlushed
  BY <1>6 DEF EchoFlushed, link, epVars, hostVars
<1>7. CASE OpenRequest
  <2>1. in_ep = <<>> /\ in_ep' = in_ep /\ main' = "opening" /\ fresh' = FALSE
    BY <1>7 DEF OpenRequest, OpenAccepted, Serving, Connecting
  <2> QED
    BY <2>1
<1>8. CASE OpenEstablished
  BY <1>0, <1>8 DEF OpenEstablished, link, epVars, hostVars
<1>9. CASE CloseRecv
  <2>1. ~fresh /\ in_ep' \in AfterCancelIn(in_ep)
    BY <1>0, <1>9 DEF CloseRecv, TasksMatchFlags
  <2>2. UNCHANGED <<main, fresh, session>> /\ main = "select"
    BY <1>9 DEF CloseRecv, Serving, mainVars, hostVars
  <2>3. /\ Len(in_ep') <= Len(in_ep) /\ Len(in_ep') \in Nat /\ Len(in_ep) \in Nat
        /\ \A i \in 1..Len(in_ep') : in_ep'[i] = in_ep[i]
    BY <1>0, <2>1, AfterCancelInPrefix, LenProperties
  <2> QED
    BY <2>1, <2>2, <2>3
<1>10. CASE TimeoutFired
  BY <1>10 DEF TimeoutFired, link, epVars, hostVars
<1>11. CASE TimeoutClosed
  <2>1. /\ in_ep' \in AfterCancelIn(in_ep) /\ main = "timing_out"
        /\ main' = "select" /\ UNCHANGED <<fresh, session>>
    BY <1>11 DEF TimeoutClosed, hostVars
  <2>2. /\ Len(in_ep') <= Len(in_ep) /\ Len(in_ep') \in Nat /\ Len(in_ep) \in Nat
        /\ \A i \in 1..Len(in_ep') : in_ep'[i] = in_ep[i]
    BY <1>0, <2>1, AfterCancelInPrefix, LenProperties
  <2>3. in_ep = <<>> => in_ep' = <<>>
    BY <1>0, <2>1, AfterCancelInEmpty
  <2> QED
    BY <2>1, <2>2, <2>3
<1>12. CASE OutTaskSend
  <2>1. /\ in_ep' = Append(in_ep, nconn) /\ main = "select"
        /\ UNCHANGED <<main, fresh, session>> /\ ~fresh
    BY <1>0, <1>12
       DEF OutTaskSend, OutTaskRuns, TasksMatchFlags, mainVars, hostVars
  <2>2. ASSUME session # None, NEW i \in 1..Len(in_ep')
        PROVE  in_ep'[i] = session
    <3>1. session = nconn /\ nconn \in 0..MaxConn
      BY <1>0, <2>2 DEF TaskInv, TypeOK, AppTypeOK
    <3> QED
      BY <1>0, <2>1, <2>2, <3>1, AppendProperties
  <2> QED
    BY <2>1, <2>2
<1>13. CASE HostRead
  <2>1. /\ in_ep # <<>> /\ in_ep' = Tail(in_ep)
        /\ UNCHANGED <<main, fresh, session>> /\ main # "echoing"
    BY <1>13 DEF HostRead, device, mainVars, hostVars
  <2>2. ASSUME session # None, NEW i \in 1..Len(in_ep')
        PROVE  in_ep'[i] = session
    BY <1>0, <2>1, <2>2, HeadTailProperties
  <2> QED
    BY <2>1, <2>2
<1>14. CASE HostReadEcho
  BY <1>14 DEF HostReadEcho, device, mainVars, hostVars
<1>15. CASE HostGone
  BY <1>15 DEF HostGone, NoSession, device, mainVars, epVars
<1> QED
  BY <1>2, <1>3, <1>4, <1>5, <1>6, <1>7, <1>8, <1>9, <1>10, <1>11, <1>12,
     <1>13, <1>14, <1>15
     DEF Next, Requests, DeviceTask, Faults, Application, Host

\* SendsInv holds in every state.
THEOREM SendsInvariant == Spec => [](OwnInv /\ SendsInv)
<1>1. TaskInv /\ SessionInv /\ OwnInv /\ SendsInv /\ [Next]_vars
      => (OwnInv /\ SendsInv)'
  <2>1. OwnInv /\ SendsInv /\ UNCHANGED vars => (OwnInv /\ SendsInv)'
    BY DEF OwnInv, ReceivesOwnData, SendsInv, SendsOwnData, vars, device, app,
           link, mainVars, inVars, connVars, rxVars, epVars, hostVars
  <2> QED
    BY OwnStep, SendsStep, <2>1
<1> QED
  BY InitOwn, InitSends, TaskInvariant, SessionInvariant, <1>1, PTL DEF Spec

\* A host of the library never reads a transfer of an earlier connection, or an
\* ECHO marker, as data of its connection.
THEOREM HostReadsOwnData ==
    ASSUME LibraryHost
    PROVE  Spec => []SendsOwnData
<1>1. SendsInv => SendsOwnData
  BY DEF SendsInv
<1> QED
  BY SendsInvariant, <1>1, PTL

(***************************************************************************)
(* From the UpcSender to the host.                                         *)
(***************************************************************************)

\* What send() accepted is in the queue, on the endpoint or read by the host,
\* as long as out_task runs, and read by the host once it is done.
DeliveryInv ==
    LibraryHost =>
        /\ out_task # None => /\ host_got + Len(in_ep) + txq = app_sent
                              /\ out_end = "no"
        /\ out_task = None => txq = 0
        /\ main = "opening" => host_got = 0 /\ app_sent = 0 /\ out_end = "no"
        /\ out_end = "done" => /\ host_got = app_sent
                               /\ main # "echoing" => in_ep = <<>>

\* It holds at the start.
LEMMA InitDelivery == Init => DeliveryInv
  BY DEF Init, DeliveryInv, None

\* Every step keeps it.
LEMMA DeliveryStep ==
    TaskInv /\ SessionInv /\ SendsInv /\ DeliveryInv /\ Next => DeliveryInv'
<1> SUFFICES ASSUME TaskInv, SessionInv, SendsInv, DeliveryInv, Next, LibraryHost
             PROVE  DeliveryInv'
  BY DEF DeliveryInv
<1>0. /\ TasksMatchFlags /\ TasksWhere
      /\ in_ep \in Seq(0..MaxConn) /\ Len(in_ep) \in Nat
      /\ host_got \in Nat /\ txq \in Nat /\ app_sent \in Nat
      /\ main = "opening" => in_ep = <<>>
  BY BoundsAssumption, LenProperties
     DEF TaskInv, TypeOK, MainTypeOK, AppTypeOK, LinkTypeOK, SendsInv
<1> USE DEF DeliveryInv
<1> DEFINE used == <<main, out_task, txq, in_ep, host_got, app_sent, out_end>>
<1>1. CASE UNCHANGED used
  BY <1>1
<1>2. CASE Enable \/ CapabilitiesIn \/ CapabilitiesOut \/ OpenFailed
           \/ CloseSend \/ Status \/ Tick \/ InTaskReceive \/ InTaskAll
           \/ InTaskDropped \/ InTaskFailed \/ Accept \/ HostSend
           \/ HostSendEmpty \/ HostGone
  <2>1. UNCHANGED used
    BY <1>2
       DEF Enable, CapabilitiesIn, CapabilitiesOut, OpenFailed, CloseSend,
           Status, Tick, InTaskReceive, InTaskAll, InTaskDropped, InTaskFailed,
           InTaskEnds, Accept, HostSend, HostSendEmpty, HostGone, mainVars,
           outVars, txVars,
           device, app, link, epVars, dataVars, endVars
  <2> QED
    BY <1>1, <2>1
<1>3. ASSUME NEW c \in Conns,
             Recv(c) \/ RecvEnd(c) \/ DropReceiver(c) \/ DropSender(c)
      PROVE  DeliveryInv'
  <2>1. UNCHANGED used
    BY <1>3
       DEF Recv, RecvEnd, DropReceiver, DropSender, mainVars, outVars, txVars,
           device, link, epVars, dataVars, endVars
  <2> QED
    BY <1>1, <2>1
<1>4. CASE Disable \/ Close \/ Unbound \/ DropFunction
  <2>1. /\ out_task' = None /\ txq' = 0 /\ in_ep' = <<>> /\ main' # "opening"
        /\ UNCHANGED <<host_got, app_sent>>
    BY <1>4
       DEF Disable, Close, CleanEndpoints, AfterDiscard, Unbound, DropTasks,
           DropFunction, MainEnds, Serving, mainVars, app, txVars, dataVars
  <2>2. \/ out_end' = out_end
        \/ out_end' \in {"disable", "close", "stop"}
    BY <1>4
       DEF Disable, Close, Unbound, DropFunction, MainEnds, DropTasks
  <2> QED
    BY <2>1, <2>2
<1>5. CASE Echo
  <2>1. out_task = None /\ UNCHANGED <<out_task, txq, host_got, app_sent, out_end>>
    BY <1>0, <1>5
       DEF Echo, EchoAccepted, TasksMatchFlags, outVars, app, txVars, dataVars,
           endVars
  <2> QED
    BY <1>5, <2>1 DEF Echo
<1>6. CASE EchoFlushed
  BY <1>6 DEF EchoFlushed, outVars, app, txVars, link, epVars, dataVars, endVars
<1>7. CASE OpenRequest
  <2>1. out_task = None /\ UNCHANGED outVars
    BY <1>0, <1>7 DEF OpenRequest, OpenAccepted, TasksMatchFlags
  <2> QED
    BY <1>7, <2>1 DEF OpenRequest, outVars
<1>8. CASE OpenEstablished
  <2>1. out_task = None /\ in_ep = <<>> /\ main = "opening"
    BY <1>0, <1>8 DEF OpenEstablished, TasksWhere
  <2>2. Len(in_ep) = 0
    BY <2>1
  <2> QED
    BY <1>8, <2>1, <2>2
       DEF OpenEstablished, txVars, link, epVars, dataVars, endVars
<1>9. CASE CloseRecv
  BY <1>9 DEF CloseRecv, Serving, mainVars, app, txVars, dataVars
<1>10. CASE TimeoutFired
  BY <1>10 DEF TimeoutFired, outVars, txVars, link, epVars, dataVars, endVars
<1>11. CASE TimeoutClosed
  <2>1. /\ in_ep' \in AfterCancelIn(in_ep) /\ main = "timing_out"
        /\ main' = "select" /\ UNCHANGED <<host_got, app_sent>>
        /\ out_task' = None /\ txq' = 0
        /\ out_end' = "timeout" \/ out_end' = out_end
    BY <1>11 DEF TimeoutClosed, DropTasks, txVars, dataVars
  <2>2. in_ep = <<>> => in_ep' = <<>>
    BY <1>0, <2>1, AfterCancelInEmpty
  <2> QED
    BY <2>1, <2>2
<1>12. CASE OutTaskSend
  <2>1. /\ out_task # None /\ out_task \in 0..MaxConn /\ txq > 0
        /\ in_ep' = Append(in_ep, out_task) /\ txq' = txq - 1
        /\ main = "select"
        /\ UNCHANGED <<main, out_task, host_got, app_sent, out_end>>
    BY <1>12
       DEF OutTaskSend, OutTaskRuns, TaskInv, TypeOK, MainTypeOK, mainVars, app,
           txVars, dataVars, endVars
  <2>2. Len(in_ep') = Len(in_ep) + 1
    BY <1>0, <2>1, AppendProperties
  <2> QED
    BY <1>0, <2>1, <2>2
<1>13. CASE OutTaskDone
  <2>1. in_ep = <<>> /\ txq = 0 /\ out_task # None
    BY <1>13 DEF OutTaskDone, OutTaskFinished, OutTaskRuns
  <2>2. host_got = app_sent
    BY <1>0, <2>1
  <2> QED
    BY <1>13, <2>1, <2>2
       DEF OutTaskDone, OutTaskEnds, OutTaskRuns, mainVars, app, txVars, epVars,
           dataVars
<1>14. CASE OutTaskFailed
  BY <1>14 DEF OutTaskFailed, OutTaskEnds, OutTaskRuns, mainVars
<1>15. CASE HostRead
  <2>1. /\ in_ep # <<>> /\ in_ep' = Tail(in_ep) /\ host_got' = host_got + 1
        /\ UNCHANGED <<main, out_task, txq, app_sent, out_end>>
        /\ main # "echoing"
    BY <1>15 DEF HostRead, device, mainVars, outVars, app, txVars, endVars
  <2>2. Len(in_ep') = Len(in_ep) - 1
    BY <1>0, <2>1, HeadTailProperties
  <2> QED
    BY <1>0, <2>1, <2>2
<1>16. CASE HostReadEcho
  <2>1. out_task = None
    BY <1>0, <1>16 DEF HostReadEcho, TasksWhere
  <2> QED
    BY <1>16, <2>1
       DEF HostReadEcho, device, mainVars, outVars, app, txVars, dataVars, endVars
<1>17. ASSUME NEW c \in Conns, Send(c) PROVE DeliveryInv'
  <2>1. /\ out_task # None /\ txq' = txq + 1 /\ app_sent' = app_sent + 1
        /\ UNCHANGED <<main, out_task, in_ep, host_got, out_end>>
    BY <1>17, BoundsAssumption
       DEF Send, Conns, None, mainVars, link, epVars, dataVars, endVars
  <2>2. main # "opening" /\ out_end # "done"
    BY <1>0, <2>1 DEF TasksWhere
  <2> QED
    BY <1>0, <2>1, <2>2
<1> QED
  BY <1>2, <1>3, <1>4, <1>5, <1>6, <1>7, <1>8, <1>9, <1>10, <1>11, <1>12,
     <1>13, <1>14, <1>15, <1>16, <1>17
     DEF Next, Requests, DeviceTask, Faults, Application, Host

\* The device halts the IN endpoint for a dropped UpcSender only when the host
\* has read everything send() accepted.
THEOREM HaltLast ==
    ASSUME LibraryHost
    PROVE  Spec => []HaltAfterDelivery
<1>1. TaskInv /\ SessionInv /\ (OwnInv /\ SendsInv) /\ DeliveryInv
      /\ [Next]_vars => DeliveryInv'
  <2>1. DeliveryInv /\ UNCHANGED vars => DeliveryInv'
    BY DEF DeliveryInv, vars, device, app, link, mainVars, outVars, txVars,
           epVars, dataVars, endVars
  <2> QED
    BY DeliveryStep, <2>1
<1>2. DeliveryInv => HaltAfterDelivery
  BY DEF DeliveryInv, HaltAfterDelivery
<1> QED
  BY InitDelivery, TaskInvariant, SessionInvariant, SendsInvariant, <1>1, <1>2,
     PTL DEF Spec

(***************************************************************************)
(* From the host to the UpcReceiver.                                       *)
(***************************************************************************)

\* total_received is the bytes recv() has returned and those still queued, and
\* the announced count is all the bytes the host has sent or will send.
AllInv ==
    LibraryHost =>
        /\ in_task # None =>
              /\ rx_alive[nconn] => got + Bytes(rxq[nconn]) = received
              /\ in_close # NoCount =>
                    in_close = host_sent /\ (session = None \/ close_sent)
              /\ in_end = "no"
        /\ in_task = None => received = 0 /\ in_close = NoCount
        /\ in_end = "all" =>
              /\ nconn \in Conns /\ (session = None \/ close_sent)
              /\ rx_alive[nconn] => got + Bytes(rxq[nconn]) = host_sent
        /\ main = "opening" => in_end = "no" /\ got = 0
        /\ \A c \in Conns : c > nconn \/ (main = "opening" /\ c = nconn) =>
              rxq[c] = <<>>

\* It holds at the start.
LEMMA InitAll == Init => AllInv
  BY DEF Init, AllInv, None

\* Every step keeps it.
LEMMA AllStep ==
    TaskInv /\ SessionInv /\ OwnInv /\ ReportInv /\ AllInv /\ Next => AllInv'
<1> SUFFICES ASSUME TaskInv, SessionInv, OwnInv, ReportInv, AllInv, Next,
                    LibraryHost
             PROVE  AllInv'
  BY DEF AllInv
<1>0. /\ TasksMatchFlags /\ TasksWhere /\ nconn \in Nat
      /\ in_task \in {None, nconn} /\ (in_task # None => in_task \in Conns)
      /\ received \in Nat /\ host_sent \in Nat
      /\ rx_alive \in [Conns -> BOOLEAN] /\ rxq \in [Conns -> Seq(OutTransfers)]
      /\ got \in Nat
      /\ \A c \in Conns : /\ Bytes(rxq[c]) \in Nat
                          /\ rxq[c] = <<>> => Bytes(rxq[c]) = 0
  <2>1. rxq \in [Conns -> Seq(OutTransfers)]
    BY DEF TaskInv, TypeOK, AppTypeOK
  <2>2. ASSUME NEW c \in Conns
        PROVE  Bytes(rxq[c]) \in Nat /\ (rxq[c] = <<>> => Bytes(rxq[c]) = 0)
    <3>1. rxq[c] \in Seq(OutTransfers)
      BY <2>1
    <3> QED
      BY <3>1, BytesType
  <2> QED
    BY <2>1, <2>2, BoundsAssumption
       DEF TaskInv, TypeOK, MainTypeOK, AppTypeOK, LinkTypeOK,
           TasksMatchFlags, Conns, None
<1> USE DEF AllInv
<1> DEFINE used == <<main, in_task, in_close, received, nconn, rx_alive, rxq,
                     got, session, close_sent, host_sent, in_end>>
<1>1. CASE UNCHANGED used
  BY <1>1
<1>2. CASE Enable \/ CapabilitiesIn \/ CapabilitiesOut \/ OpenFailed
           \/ CloseRecv \/ Status \/ Tick \/ OutTaskSend \/ OutTaskDone
           \/ OutTaskFailed \/ Accept \/ HostRead
  <2>1. UNCHANGED used
    BY <1>2
       DEF Enable, CapabilitiesIn, CapabilitiesOut, OpenFailed, CloseRecv,
           Status, Tick, OutTaskSend, OutTaskDone, OutTaskFailed, OutTaskEnds,
           Accept, HostRead, mainVars, inVars, connVars, rxVars, device, app,
           link, hostVars, dataVars, endVars
  <2> QED
    BY <1>1, <2>1
<1>3. ASSUME NEW c \in Conns, RecvEnd(c) \/ Send(c) \/ DropSender(c)
      PROVE  AllInv'
  <2>1. UNCHANGED used
    BY <1>3
       DEF RecvEnd, Send, DropSender, mainVars, inVars, connVars, rxVars,
           device, link, hostVars, dataVars, endVars
  <2> QED
    BY <1>1, <2>1
<1>4. CASE Disable \/ Close \/ Unbound
  <2>1. /\ in_task' = None /\ received' = 0 /\ in_close' = NoCount
        /\ session' = None /\ main' # "opening"
        /\ UNCHANGED <<nconn, rx_alive, rxq, got, host_sent>>
    BY <1>4
       DEF Disable, Close, Unbound, MainEnds, DropTasks, NoSession, Serving,
           mainVars, app, connVars, rxVars, dataVars
  <2>2. in_end' = in_end \/ in_end' \in {"disable", "close", "stop"}
    BY <1>4 DEF Disable, Close, Unbound, MainEnds, DropTasks
  <2> QED
    BY <2>1, <2>2
<1>5. CASE DropFunction
  <2>1. /\ in_task' = None /\ received' = 0 /\ in_close' = NoCount
        /\ session' = None /\ main' = "stopped"
        /\ UNCHANGED <<nconn, rxq, got, host_sent>>
    BY <1>5 DEF DropFunction, MainEnds, DropTasks, NoSession, dataVars
  <2>2. in_end' = in_end \/ in_end' = "stop"
    BY <1>5 DEF DropFunction, MainEnds, DropTasks
  <2>3. \A c \in Conns : rx_alive'[c] => rx_alive[c]
    BY <1>5 DEF DropFunction
  <2> QED
    BY <2>1, <2>2, <2>3
<1>6. CASE Echo \/ EchoFlushed \/ HostReadEcho \/ TimeoutFired
  <2>1. /\ main' \in {"select", "echoing", "timing_out"}
        /\ UNCHANGED <<in_task, in_close, received, nconn, rx_alive, rxq, got,
                       session, close_sent, host_sent, in_end>>
    BY <1>6
       DEF Echo, EchoFlushed, HostReadEcho, TimeoutFired, device, mainVars,
           inVars, app, connVars, rxVars, link, hostVars, dataVars, endVars
  <2> QED
    BY <2>1
<1>7. CASE OpenRequest
  <2>1. /\ in_task = None /\ UNCHANGED <<in_task, in_close, received, rxq>>
        /\ nconn' = nconn + 1 /\ nconn' \in Conns /\ in_end' = "no" /\ got' = 0
    <3>1. in_task = None
      BY <1>0, <1>7 DEF OpenRequest, OpenAccepted, TasksMatchFlags
    <3>2. nconn + 1 \in Conns
      BY <1>0, <1>7, BoundsAssumption DEF OpenRequest, Conns
    <3> QED
      BY <1>7, <3>1, <3>2 DEF OpenRequest, inVars
  <2>2. \A c \in Conns : c > nconn' \/ c = nconn' => c > nconn
    BY <1>0, <2>1 DEF Conns
  <2> QED
    BY <2>1, <2>2
<1>8. CASE OpenEstablished
  <2>1. /\ in_task = None /\ nconn \in Conns /\ main = "opening"
        /\ in_task' = nconn /\ main' = "select"
        /\ UNCHANGED <<in_close, received, nconn, rx_alive, rxq, got, session,
                       close_sent, host_sent, in_end>>
    BY <1>0, <1>8
       DEF OpenEstablished, TasksWhere, rxVars, link, hostVars, dataVars, endVars
  <2>2. got + Bytes(rxq[nconn]) = received
    BY <1>0, <2>1
  <2> QED
    BY <1>0, <2>1, <2>2
<1>9. CASE CloseSend
  <2>1. /\ in_close' = (IF in_task # None THEN host_sent ELSE in_close)
        /\ close_sent' = TRUE
        /\ UNCHANGED <<main, in_task, received, nconn, rx_alive, rxq, got,
                       session, host_sent, in_end>>
    BY <1>9 DEF CloseSend, mainVars, app, connVars, rxVars, dataVars, endVars
  <2> QED
    BY <2>1
<1>10. CASE TimeoutClosed
  <2>1. /\ in_task' = None /\ received' = 0 /\ in_close' = NoCount
        /\ main' = "select"
        /\ UNCHANGED <<nconn, rx_alive, rxq, got, session, close_sent, host_sent>>
        /\ in_end' = in_end \/ in_end' = "timeout"
    BY <1>10
       DEF TimeoutClosed, DropTasks, connVars, rxVars, hostVars, dataVars
  <2> QED
    BY <2>1
<1>11. CASE InTaskReceive
  <2>1. /\ in_task # None /\ in_task = nconn /\ nconn \in Conns
        /\ received' = received + DataLen(Head(out_ep)) /\ out_ep # <<>>
        /\ main = "select"
        /\ UNCHANGED <<main, in_task, in_close, nconn, rx_alive, got, session,
                       close_sent, host_sent, in_end>>
    BY <1>0, <1>11
       DEF InTaskReceive, InTaskRuns, mainVars, connVars, hostVars, dataVars,
           endVars
  <2>2. Head(out_ep) \in OutTransfers /\ DataLen(Head(out_ep)) \in Nat
    BY <2>1, HeadTailProperties, DataLenType DEF TaskInv, TypeOK, LinkTypeOK
  <2>3. ASSUME rx_alive[nconn]
        PROVE  Bytes(rxq'[nconn]) = Bytes(rxq[nconn]) + DataLen(Head(out_ep))
    <3>1. rxq'[nconn] = Append(rxq[nconn], Head(out_ep))
      BY <1>0, <1>11, <2>1, <2>3 DEF InTaskReceive
    <3> QED
      BY <1>0, <2>1, <2>2, <3>1, BytesAppend
  <2>4. \A c \in Conns : c # nconn => rxq'[c] = rxq[c]
    BY <1>0, <1>11, <2>1 DEF InTaskReceive
  <2>5. \A c \in Conns : c > nconn => c # nconn
    BY <1>0 DEF Conns
  <2>6. rx_alive[nconn] => got + Bytes(rxq'[nconn]) = received'
    BY <1>0, <2>1, <2>2, <2>3
  <2> QED
    BY <2>1, <2>4, <2>5, <2>6
<1>12. CASE InTaskAll
  <2>1. /\ in_task # None /\ in_task = nconn /\ nconn \in Conns
        /\ received = in_close /\ in_close # NoCount
    BY <1>0, <1>12 DEF InTaskAll, InTaskRuns, AllReceived, NoCount
  <2>2. /\ in_task' = None /\ received' = 0 /\ in_close' = NoCount
        /\ in_end' = "all" /\ main' = "select"
        /\ UNCHANGED <<nconn, rx_alive, rxq, got, session, close_sent, host_sent>>
    BY <1>12
       DEF InTaskAll, InTaskRuns, InTaskEnds, mainVars, app, connVars, rxVars,
           hostVars, dataVars
  <2> QED
    BY <2>1, <2>2
<1>13. CASE InTaskDropped \/ InTaskFailed
  <2>1. /\ in_task' = None /\ received' = 0 /\ in_close' = NoCount
        /\ in_end' \in {"dropped", "failed"} /\ main' = "select"
        /\ UNCHANGED <<nconn, rx_alive, rxq, got, session, close_sent, host_sent>>
    BY <1>13
       DEF InTaskDropped, InTaskFailed, InTaskRuns, InTaskEnds, mainVars, app,
           connVars, rxVars, hostVars, dataVars
  <2> QED
    BY <2>1
<1>14. CASE HostSend \/ HostSendEmpty
  <2>1. /\ session # None /\ ~close_sent
        /\ UNCHANGED <<main, in_task, in_close, received, nconn, rx_alive, rxq,
                       got, session, close_sent, in_end>>
    BY <1>14
       DEF HostSend, HostSendEmpty, device, mainVars, inVars, app, connVars,
           rxVars, hostVars, endVars
  <2> QED
    BY <2>1
<1>15. CASE HostGone
  <2>1. /\ session' = None
        /\ UNCHANGED <<main, in_task, in_close, received, nconn, rx_alive, rxq,
                       got, host_sent, in_end>>
    BY <1>15
       DEF HostGone, NoSession, device, mainVars, inVars, app, connVars, rxVars,
           dataVars, endVars
  <2> QED
    BY <2>1
<1>16. ASSUME NEW c \in Conns, Recv(c) PROVE AllInv'
  <2>1. /\ rx_alive[c] /\ rxq[c] # <<>> /\ ~(main = "opening" /\ c = nconn)
        /\ rxq' = [rxq EXCEPT ![c] = Tail(rxq[c])]
        /\ got' = IF c = nconn THEN got + DataLen(Head(rxq[c])) ELSE got
        /\ UNCHANGED <<main, in_task, in_close, received, nconn, rx_alive,
                       session, close_sent, host_sent, in_end>>
    BY <1>16
       DEF Recv, Receives, Waiting, device, mainVars, inVars, connVars, link,
           hostVars, dataVars, endVars
  <2>2. ~(c > nconn)
    BY <2>1 DEF ReportInv
  <2>3. rxq'[c] = Tail(rxq[c])
    BY <1>0, <2>1
  <2>4. c = nconn => got' + Bytes(rxq'[c]) = got + Bytes(rxq[c])
    <3>1. /\ got \in Nat /\ DataLen(Head(rxq[c])) \in Nat
          /\ Tail(rxq[c]) \in Seq(OutTransfers)
      BY <1>0, <2>1, HeadTailProperties, DataLenType
    <3>2. Bytes(rxq[c]) = DataLen(Head(rxq[c])) + Bytes(Tail(rxq[c]))
      BY <1>0, <2>1, BytesTail
    <3>3. Bytes(Tail(rxq[c])) \in Nat
      BY <3>1, BytesType
    <3> QED
      BY <2>1, <2>3, <3>1, <3>2, <3>3
  <2>5. /\ \A d \in Conns : d # c => rxq'[d] = rxq[d]
        /\ c # nconn => got' = got
    BY <1>0, <2>1
  <2>6. ASSUME nconn \in Conns
        PROVE  got' + Bytes(rxq'[nconn]) = got + Bytes(rxq[nconn])
    BY <2>4, <2>5, <2>6
  <2>7. \A d \in Conns : d > nconn \/ (main = "opening" /\ d = nconn) => d # c
    BY <2>1, <2>2
  <2>8. in_task # None => nconn \in Conns
    BY <1>0
  <2> QED
    BY <2>1, <2>5, <2>6, <2>7, <2>8
<1>17. ASSUME NEW c \in Conns, DropReceiver(c) PROVE AllInv'
  <2>1. /\ rx_alive' = [rx_alive EXCEPT ![c] = FALSE]
        /\ rxq' = [rxq EXCEPT ![c] = <<>>] /\ got' = IF c = nconn THEN 0 ELSE got
        /\ UNCHANGED <<main, in_task, in_close, received, nconn, session,
                       close_sent, host_sent, in_end>>
    BY <1>17
       DEF DropReceiver, device, mainVars, inVars, connVars, link, hostVars,
           dataVars, endVars
  <2>2. \A d \in Conns : d # c => /\ rxq'[d] = rxq[d]
                                  /\ rx_alive'[d] = rx_alive[d]
    BY <1>0, <2>1
  <2>3. ~rx_alive'[c] /\ rxq'[c] = <<>> /\ (c # nconn => got' = got) /\ (got = 0 => got' = 0)
    BY <1>0, <2>1
  <2>4. in_task # None => nconn \in Conns
    BY <1>0
  <2> QED
    BY <2>1, <2>2, <2>3, <2>4
<1> QED
  BY <1>2, <1>3, <1>4, <1>5, <1>6, <1>7, <1>8, <1>9, <1>10, <1>11, <1>12,
     <1>13, <1>14, <1>15, <1>16, <1>17
     DEF Next, Requests, DeviceTask, Faults, Application, Host

\* in_task takes the count of CLOSE_SEND as reached only when every byte the
\* host sent in the connection is with recv() or in its queue; zero-length
\* transfers may still be on their way.
THEOREM CountMeansAll ==
    ASSUME LibraryHost
    PROVE  Spec => []AllMeansAll
<1>1. TaskInv /\ SessionInv /\ (OwnInv /\ SendsInv) /\ ReportInv /\ AllInv
      /\ [Next]_vars => AllInv'
  <2>1. AllInv /\ UNCHANGED vars => AllInv'
    BY DEF AllInv, vars, device, app, link, mainVars, inVars, connVars, rxVars,
           hostVars, dataVars, endVars
  <2> QED
    BY AllStep, <2>1
<1>2. AllInv => AllMeansAll
  BY DEF AllInv, AllMeansAll
<1> QED
  BY InitAll, TaskInvariant, SessionInvariant, SendsInvariant, ReportInvariant,
     <1>1, <1>2, PTL DEF Spec
=============================================================================

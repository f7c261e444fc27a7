------------------------ MODULE ConnectionRefinement ------------------------
(***************************************************************************)
(* Both directions of a connection implement BytePipe.                     *)
(***************************************************************************)
EXTENDS ConnectionProofs

USE DEF connVars, waitVars, appVars, stcpVars, queues, netVars

\* stcp_app_recv() takes bytes out of the pipe that are in it, and before the
\* close request was passed down.
LEMMA DownPipeRead ==
  ASSUME Inv, app_recv_queue # << >>, NEW k \in Nat, taken' = taken + k,
         taken + k <= written, UNCHANGED << written, close_events, app_pc >>
  PROVE  [DownPipe!Next]_(DownPipe!vars)
<1>1. taken \in Nat /\ written \in Nat /\ close_events \in Nat
  BY DEF Inv, TypeOK, QueuesTypeOK
<1>2. ~(close_events > 0) /\ Closing' = Closing
  BY DEF Inv, CloseOnce, Closing
<1>3. CASE k = 0
  BY <1>1, <1>2, <1>3 DEF DownPipe!vars
<1>4. CASE k > 0
  BY <1>1, <1>2, <1>4 DEF DownPipe!Next, DownPipe!Read
<1> QED
  BY <1>3, <1>4

\* A turn of stcp_wait_for_event() ends the pipe, or leaves it alone.
LEMMA DownPipeEvents ==
  ASSUME Inv, NEW flags, CheckEvents(flags),
         stcp_pc \in {"loop", "wait"}
  PROVE  [DownPipe!Next]_(DownPipe!vars)
<1>1. /\ app_pc # "closed" /\ Closing' = Closing
      /\ UNCHANGED << written, taken >>
  BY DEF CheckEvents, Inv, Phases, Closing
<1>2. CASE "APP_CLOSE_REQUESTED" \in ReadyEvents(flags)
  <2>1. close_requested /\ app_recv_queue = << >> /\ taken = written
    BY <1>1, <1>2 DEF ReadyEvents, Inv, DownStream, Contiguous
  <2>2. close_events' = close_events + 1
    BY <1>2 DEF CheckEvents
  <2>3. Closing /\ close_events = 0
    BY <2>1 DEF Inv, CloseOnce
  <2> QED
    BY <1>1, <2>1, <2>2, <2>3 DEF DownPipe!Next, DownPipe!End
<1>3. CASE "APP_CLOSE_REQUESTED" \notin ReadyEvents(flags)
  <2>1. UNCHANGED close_events
    BY <1>3 DEF CheckEvents
  <2> QED
    BY <1>1, <2>1 DEF DownPipe!vars
<1> QED
  BY <1>2, <1>3

\* Every step is a step of the pipe from mywrite() to stcp_app_recv(), or
\* leaves it alone.
LEMMA DownPipeNext ==
  Inv /\ [Next]_vars => [DownPipe!Next]_(DownPipe!vars)
<1> SUFFICES ASSUME Inv, [Next]_vars
             PROVE  [DownPipe!Next]_(DownPipe!vars)
  OBVIOUS
<1> USE DEF Closing, DownPipe!vars
<1>1. CASE MyConnect
  BY <1>1 DEF MyConnect
<1>2. CASE WaitForConnection
  BY <1>2 DEF WaitForConnection
<1>3. ASSUME NEW n \in WriteSizes, MyWrite(n)
      PROVE  [DownPipe!Next]_(DownPipe!vars)
  <2>1. /\ written \in Nat /\ n \in Nat /\ written' = written + n
        /\ UNCHANGED << taken, close_events, Closing >>
        /\ ~Closing
    BY <1>3, SizesAssumption DEF MyWrite, Inv, TypeOK, QueuesTypeOK
  <2>2. CASE n = 0
    BY <2>1, <2>2
  <2>3. CASE n > 0
    BY <2>1, <2>3 DEF DownPipe!Next, DownPipe!Write
  <2> QED
    BY <2>1, <2>2, <2>3
<1>4. CASE WriteBroadcast
  BY <1>4 DEF WriteBroadcast
<1>5. ASSUME NEW n \in ReadSizes, MyRead(n)
      PROVE  [DownPipe!Next]_(DownPipe!vars)
  BY <1>5 DEF MyRead, ReadDequeue
<1>6. CASE ReadWake
  BY <1>6 DEF ReadWake, ReadDequeue
<1>7. CASE ReadCopy
  BY <1>7 DEF ReadCopy
<1>8. CASE MyClose
  BY <1>8 DEF MyClose, DownPipe!Next, DownPipe!Close
<1>9. CASE CloseBroadcast
  BY <1>9 DEF CloseBroadcast
<1>10. CASE JoinTransport
  BY <1>10 DEF JoinTransport
<1>11. CASE JoinRecvAndFree
  BY <1>11 DEF JoinRecvAndFree
<1>12. ASSUME NEW e \in Errno, StcpUnblock(e)
       PROVE  [DownPipe!Next]_(DownPipe!vars)
  BY <1>12 DEF StcpUnblock, Unblock
<1>13. CASE StcpSignal
  BY <1>13 DEF StcpSignal
<1>14. ASSUME NEW call \in WaitCalls, StcpWait(call)
       PROVE  [DownPipe!Next]_(DownPipe!vars)
  BY <1>14, DownPipeEvents DEF StcpWait
<1>15. CASE StcpWake
  BY <1>15, DownPipeEvents DEF StcpWake
<1>16. CASE StcpTimeout
  BY <1>16 DEF StcpTimeout
<1>17. ASSUME NEW n \in RecvSizes, StcpAppRecv(n)
       PROVE  [DownPipe!Next]_(DownPipe!vars)
  <2>1. /\ app_recv_queue # << >> /\ app_pc # "closed"
        /\ app_recv_queue \in Seq(Node) /\ Head(app_recv_queue).len \in Nat
        /\ taken \in Nat /\ written \in Nat /\ close_events \in Nat
    BY <1>17, QueueType, NodeFields
       DEF StcpAppRecv, Inv, Phases, TypeOK, QueuesTypeOK
  <2>2. CASE DequeuesPart(app_recv_queue, n)
    BY <1>17, <2>2 DEF StcpAppRecv
  <2>3. CASE ~DequeuesPart(app_recv_queue, n)
    <3>1. taken + Head(app_recv_queue).len <= written
      BY <2>1, NodeFields, ContiguousWhole DEF Inv, DownStream
    <3>2. /\ taken' = taken + Head(app_recv_queue).len
          /\ UNCHANGED << written, close_events, app_pc >>
      BY <1>17, <2>3 DEF StcpAppRecv
    <3> QED
      BY <2>1, <3>1, <3>2, DownPipeRead
  <2> QED
    BY <2>2, <2>3
<1>18. CASE StcpAppCopy
  <2>1. /\ app_recv_queue # << >> /\ app_pc # "closed"
        /\ DequeuesPart(app_recv_queue, max_len)
        /\ app_recv_queue \in Seq(Node) /\ max_len \in Nat
        /\ taken \in Nat /\ written \in Nat /\ close_events \in Nat
    BY <1>18 DEF StcpAppCopy, Inv, Phases, CopiesSafely, TypeOK, QueuesTypeOK
  <2>2. taken + max_len <= written
    BY <2>1, ContiguousPart DEF Inv, DownStream
  <2>3. taken' = taken + max_len /\ UNCHANGED << written, close_events, app_pc >>
    BY <1>18 DEF StcpAppCopy
  <2> QED
    BY <2>1, <2>2, <2>3, DownPipeRead
<1>19. CASE StcpNetworkRecv
  BY <1>19 DEF StcpNetworkRecv, Handled
<1>20. CASE StcpUpBroadcast
  BY <1>20 DEF StcpUpBroadcast, Handled
<1>21. CASE StcpClose
  BY <1>21 DEF StcpClose, Handled
<1>22. CASE StcpReturn
  BY <1>22 DEF StcpReturn
<1>23. ASSUME NEW e \in Errno, StcpGiveUp(e)
       PROVE  [DownPipe!Next]_(DownPipe!vars)
  BY <1>23 DEF StcpGiveUp
<1>24. CASE StcpExit
  BY <1>24 DEF StcpExit
<1>25. CASE StcpExitUnblock
  BY <1>25 DEF StcpExitUnblock, Unblock
<1>26. CASE StcpEof
  BY <1>26 DEF StcpEof
<1>27. CASE StcpEofBroadcast
  BY <1>27 DEF StcpEofBroadcast
<1>28. CASE RecvExit
  BY <1>28 DEF RecvExit
<1>29. CASE RecvReadable
  BY <1>29 DEF RecvReadable
<1>30. ASSUME NEW n \in PacketSizes, RecvPacket(n, FALSE)
       PROVE  [DownPipe!Next]_(DownPipe!vars)
  BY <1>30 DEF RecvPacket
<1>31. CASE RecvFin
  BY <1>31 DEF RecvFin, RecvPacket
<1>32. CASE RecvBroadcast
  BY <1>32 DEF RecvBroadcast
<1>33. CASE RecvLost
  BY <1>33 DEF RecvLost
<1>34. CASE SpuriousWakeup
  BY <1>34 DEF SpuriousWakeup
<1>35. CASE UNCHANGED vars
  BY <1>35 DEF vars
<1> QED
  BY <1>1, <1>2, <1>3, <1>4, <1>5, <1>6, <1>7, <1>8, <1>9, <1>10, <1>11,
     <1>12, <1>13, <1>14, <1>15, <1>16, <1>17, <1>18, <1>19, <1>20, <1>21,
     <1>22, <1>23, <1>24, <1>25, <1>26, <1>27, <1>28, <1>29, <1>30, <1>31,
     <1>32, <1>33, <1>34, <1>35 DEF Next, AppCall, AppStep, StcpStep,
     RecvRead, RecvStep, Terminated

\* What goes down through a mysocket is a byte pipe: for every value of the
\* constants and every interleaving, the transport layer receives the written
\* bytes in order, and the close request once, after the last of them.
THEOREM DownPipeImplemented == Spec => DownPipeSpec
<1>1. Init => DownPipe!Init
  BY DEF Init, DownPipe!Init, Closing
<1>2. Inv /\ [Next]_vars => [DownPipe!Next]_(DownPipe!vars)
  BY DownPipeNext
<1> QED
  BY <1>1, <1>2, Invariance, PTL DEF Spec, DownPipeSpec, DownPipe!Spec

\* myread() takes bytes that were passed up, or learns of the end.
LEMMA UpPipeDequeue ==
  ASSUME Inv, NEW n \in Nat, ReadDequeue(n), ~eof, app_pc # "closed"
  PROVE  [UpPipe!Next]_(UpPipe!vars)
<1>1. /\ app_send_queue \in Seq(Node) /\ got \in Nat /\ up \in Nat
      /\ eof \in BOOLEAN
      /\ UNCHANGED << up, UpEnded >>
  BY DEF Inv, TypeOK, QueuesTypeOK, FlagsTypeOK, ReadDequeue, UpEnded
<1>2. CASE app_send_queue = << >> \/ DequeuesPart(app_send_queue, n)
  <2>1. UNCHANGED << got, eof >>
    BY <1>2 DEF ReadDequeue
  <2> QED
    BY <1>1, <2>1 DEF UpPipe!vars
<1>3. CASE app_send_queue # << >> /\ ~DequeuesPart(app_send_queue, n)
  <2> DEFINE h == Head(app_send_queue)
  <2>1. h.len \in Nat /\ h.off = got /\ got + h.len <= up
    BY <1>1, <1>3, QueueType, NodeFields, ContiguousWhole DEF Inv, UpStream
  <2>2. h.len = 0 => UpEnded /\ h.off = up
    BY <1>1, <1>3, DequeueIndex DEF Inv, MarkersAtEnd
  <2>3. got' = got + h.len /\ eof' = (h.len = 0)
    BY <1>3 DEF ReadDequeue
  <2> HIDE DEF h
  <2>4. CASE h.len = 0
    <3>1. UpEnded /\ got = up
      BY <2>1, <2>2, <2>4
    <3>2. UNCHANGED got
      BY <1>1, <2>3, <2>4
    <3>3. eof' = TRUE
      BY <2>3, <2>4
    <3> QED
      BY <1>1, <3>1, <3>2, <3>3 DEF UpPipe!Next, UpPipe!End
  <2>5. CASE h.len > 0
    <3>1. got' \in Nat /\ got < got' /\ got' <= up /\ eof' = FALSE
      BY <1>1, <2>1, <2>3, <2>5
    <3>2. UNCHANGED eof
      BY <1>1, <3>1
    <3> QED
      BY <1>1, <3>1, <3>2 DEF UpPipe!Next, UpPipe!Read
  <2> QED
    BY <2>1, <2>4, <2>5
<1> QED
  BY <1>2, <1>3

\* Every step is a step of the pipe from stcp_app_send() to myread(), or
\* leaves it alone.
LEMMA UpPipeNext ==
  ASSUME 0 \notin ReadSizes, Inv, [Next]_vars
  PROVE  [UpPipe!Next]_(UpPipe!vars)
<1> USE DEF UpEnded, UpPipe!vars
<1>1. CASE MyConnect
  BY <1>1 DEF MyConnect, Inv, Phases

<1>2. CASE WaitForConnection
  BY <1>2 DEF WaitForConnection
<1>3. ASSUME NEW n \in WriteSizes, MyWrite(n)
      PROVE  [UpPipe!Next]_(UpPipe!vars)
  BY <1>3 DEF MyWrite
<1>4. CASE WriteBroadcast
  BY <1>4 DEF WriteBroadcast
<1>5. ASSUME NEW n \in ReadSizes, MyRead(n)
      PROVE  [UpPipe!Next]_(UpPipe!vars)
  BY <1>5, UpPipeDequeue, SizesAssumption DEF MyRead

<1>6. CASE ReadWake
  <2>1. buf_len \in Nat /\ ~eof
    BY <1>6 DEF ReadWake, Inv, Reading, TypeOK, QueuesTypeOK
  <2> QED
    BY <1>6, <2>1, UpPipeDequeue DEF ReadWake

<1>7. CASE ReadCopy
  <2>1. /\ app_send_queue # << >> /\ DequeuesPart(app_send_queue, buf_len)
        /\ app_send_queue \in Seq(Node) /\ buf_len \in Nat \ {0}
        /\ got \in Nat /\ up \in Nat /\ eof = FALSE
    BY <1>7, SizesAssumption DEF ReadCopy, Inv, CopiesSafely, Reading, TypeOK,
                            QueuesTypeOK, FlagsTypeOK
  <2>2. got + buf_len <= up
    BY <1>7, <2>1, ContiguousPart DEF ReadCopy, Inv, UpStream
  <2>3. /\ got' = got + buf_len /\ eof' = FALSE
        /\ UNCHANGED << up, fin_received, stcp_pc >>
    BY <1>7, <2>1 DEF ReadCopy
  <2>4. got' \in Nat /\ got < got' /\ got' <= up
    BY <2>1, <2>2, <2>3
  <2>5. ~eof /\ UNCHANGED << up, eof, UpEnded >>
    BY <2>1, <2>3
  <2> QED
    BY <2>4, <2>5 DEF UpPipe!Next, UpPipe!Read

<1>8. CASE MyClose
  BY <1>8 DEF MyClose
<1>9. CASE CloseBroadcast
  BY <1>9 DEF CloseBroadcast
<1>10. CASE JoinTransport
  BY <1>10 DEF JoinTransport
<1>11. CASE JoinRecvAndFree
  BY <1>11 DEF JoinRecvAndFree
<1>12. ASSUME NEW e \in Errno, StcpUnblock(e)
       PROVE  [UpPipe!Next]_(UpPipe!vars)
  BY <1>12 DEF StcpUnblock, Unblock
<1>13. CASE StcpSignal
  BY <1>13 DEF StcpSignal
<1>14. ASSUME NEW call \in WaitCalls, StcpWait(call)
       PROVE  [UpPipe!Next]_(UpPipe!vars)
  BY <1>14 DEF StcpWait, CheckEvents
<1>15. CASE StcpWake
  BY <1>15 DEF StcpWake, CheckEvents
<1>16. CASE StcpTimeout
  BY <1>16 DEF StcpTimeout
<1>17. ASSUME NEW n \in RecvSizes, StcpAppRecv(n)
       PROVE  [UpPipe!Next]_(UpPipe!vars)
  BY <1>17 DEF StcpAppRecv, Handled
<1>18. CASE StcpAppCopy
  BY <1>18 DEF StcpAppCopy, Handled
<1>19. CASE StcpNetworkRecv
  <2> DEFINE p == Head(network_recv_queue)
  <2>1. /\ p.len \in Nat /\ up \in Nat /\ stcp_pc = "events"
        /\ stcp_pc' \notin {"eof_bcast", "end"}
        /\ fin_received => p.len = 0 /\ ~p.fin
        /\ fin_received \in BOOLEAN
        /\ UNCHANGED << got, eof >>
    BY <1>19, PacketType, NodeFields, DequeueIndex
       DEF StcpNetworkRecv, Handled, Inv, TypeOK, QueuesTypeOK, FlagsTypeOK,
           FinIsLast, BareAck
  <2>2. CASE p.fin
    <3>1. fin_received' = TRUE /\ UNCHANGED up
      BY <1>19, <2>2 DEF StcpNetworkRecv
    <3> QED
      BY <2>1, <3>1 DEF UpPipe!Next, UpPipe!Close
  <2>3. CASE ~p.fin /\ AppSends(p.len)
    <3>1. up' = up + p.len /\ UNCHANGED fin_received /\ p.len > 0
      BY <1>19, <2>3 DEF StcpNetworkRecv, AppSends
    <3>2. ~fin_received
      BY <2>1, <3>1
    <3> HIDE DEF p
    <3> QED
      BY <2>1, <3>1, <3>2 DEF UpPipe!Next, UpPipe!Write
  <2>4. CASE ~p.fin /\ ~AppSends(p.len)
    <3>1. UNCHANGED << up, fin_received >>
      BY <1>19, <2>4 DEF StcpNetworkRecv
    <3> QED
      BY <2>1, <3>1
  <2> QED
    BY <2>2, <2>3, <2>4

<1>20. CASE StcpUpBroadcast
  BY <1>20 DEF StcpUpBroadcast, Handled
<1>21. CASE StcpClose
  BY <1>21 DEF StcpClose, Handled
<1>22. CASE StcpReturn
  BY <1>22 DEF StcpReturn
<1>23. ASSUME NEW e \in Errno, StcpGiveUp(e)
       PROVE  [UpPipe!Next]_(UpPipe!vars)
  BY <1>23 DEF StcpGiveUp
<1>24. CASE StcpExit
  BY <1>24 DEF StcpExit
<1>25. CASE StcpExitUnblock
  BY <1>25 DEF StcpExitUnblock, Unblock
<1>26. CASE StcpEof
  BY <1>26 DEF StcpEof, UpPipe!Next, UpPipe!Close

<1>27. CASE StcpEofBroadcast
  BY <1>27 DEF StcpEofBroadcast
<1>28. CASE RecvExit
  BY <1>28 DEF RecvExit
<1>29. CASE RecvReadable
  BY <1>29 DEF RecvReadable
<1>30. ASSUME NEW n \in PacketSizes, RecvPacket(n, FALSE)
       PROVE  [UpPipe!Next]_(UpPipe!vars)
  BY <1>30 DEF RecvPacket
<1>31. CASE RecvFin
  BY <1>31 DEF RecvFin, RecvPacket
<1>32. CASE RecvBroadcast
  BY <1>32 DEF RecvBroadcast
<1>33. CASE RecvLost
  BY <1>33 DEF RecvLost
<1>34. CASE SpuriousWakeup
  BY <1>34 DEF SpuriousWakeup
<1>35. CASE UNCHANGED vars
  BY <1>35 DEF vars
<1> QED
  BY <1>1, <1>2, <1>3, <1>4, <1>5, <1>6, <1>7, <1>8, <1>9, <1>10, <1>11,
     <1>12, <1>13, <1>14, <1>15, <1>16, <1>17, <1>18, <1>19, <1>20, <1>21,
     <1>22, <1>23, <1>24, <1>25, <1>26, <1>27, <1>28, <1>29, <1>30, <1>31,
     <1>32, <1>33, <1>34, <1>35 DEF Next, AppCall, AppStep, StcpStep,
     RecvRead, RecvStep, Terminated

\* What comes up through a mysocket is a byte pipe, if no myread() asks for
\* zero bytes: the application receives the bytes passed up in order, and the
\* end of file once, after the last of them.
THEOREM UpPipeImplemented == ASSUME 0 \notin ReadSizes PROVE Spec => UpPipeSpec
<1>1. Init => UpPipe!Init
  BY DEF Init, UpPipe!Init, UpEnded
<1>2. Inv /\ [Next]_vars => [UpPipe!Next]_(UpPipe!vars)
  BY UpPipeNext
<1> QED
  BY <1>1, <1>2, Invariance, PTL DEF Spec, UpPipeSpec, UpPipe!Spec

============================================================================

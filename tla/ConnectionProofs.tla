-------------------------- MODULE ConnectionProofs --------------------------
(***************************************************************************)
(* Proofs about one connection, for every value of the constants.          *)
(***************************************************************************)
EXTENDS Connection, TLAPS

----------------------------------------------------------------------------
(* The packet queues.                                                      *)

\* _mysock_enqueue_buffer() and _mysock_dequeue_buffer() keep a queue a
\* sequence of nodes.
LEMMA QueueType ==
  ASSUME NEW q \in Seq(Node)
  PROVE  /\ \A node \in Node : EnqueueBuffer(q, node) \in Seq(Node)
         /\ q # << >> => /\ DequeueWhole(q) \in Seq(Node)
                         /\ Head(q) \in Node
         /\ \A n \in Nat : q # << >> /\ DequeuesPart(q, n)
                             => DequeuePart(q, n) \in Seq(Node)
<1>1. \A node \in Node : EnqueueBuffer(q, node) \in Seq(Node)
  BY DEF EnqueueBuffer
<1>2. q # << >> => DequeueWhole(q) \in Seq(Node) /\ Head(q) \in Node
  BY DEF DequeueWhole
<1>3. ASSUME NEW n \in Nat, q # << >>, DequeuesPart(q, n)
      PROVE  DequeuePart(q, n) \in Seq(Node)
  <2>1. Len(q) \in Nat /\ Len(q) > 0 /\ 1 \in DOMAIN q /\ q[1] = Head(q)
    BY <1>3
  <2>2. q[1] \in Node /\ q[1].len > n
    BY <1>3, <2>1 DEF DequeuesPart
  <2>3. [off |-> q[1].off + n, len |-> q[1].len - n] \in Node
    BY <1>3, <2>2 DEF Node
  <2> QED
    BY <2>1, <2>3 DEF DequeuePart
<1> QED
  BY <1>1, <1>2, <1>3

\* Enqueueing leaves the head of a non-empty queue alone.
LEMMA QueueHead ==
  ASSUME NEW q \in Seq(Node), NEW node \in Node, q # << >>, NEW n \in Nat
  PROVE  /\ EnqueueBuffer(q, node) # << >>
         /\ DequeuesPart(EnqueueBuffer(q, node), n) <=> DequeuesPart(q, n)
  BY DEF EnqueueBuffer, DequeuesPart

\* Linking the next piece of the stream at the tail extends what the queue
\* holds by that piece.
LEMMA ContiguousEnqueue ==
  ASSUME NEW T, \A x \in T : x.off \in Nat /\ x.len \in Nat,
         NEW q \in Seq(T), NEW node \in T, NEW lo \in Nat, NEW hi \in Nat,
         Contiguous(q, lo, hi), node.off = hi
  PROVE  Contiguous(EnqueueBuffer(q, node), lo, hi + node.len)
<1> DEFINE r == EnqueueBuffer(q, node)
<1>1. /\ r \in Seq(T) /\ Len(r) = Len(q) + 1 /\ r # << >> /\ Len(q) \in Nat
      /\ \A i \in 1 .. Len(q) : r[i] = q[i]
      /\ r[Len(q) + 1] = node
  BY DEF EnqueueBuffer
<1> HIDE DEF r
<1>2. CASE q = << >>
  BY <1>1, <1>2 DEF Contiguous, r
<1>3. CASE q # << >>
  <2>1. Len(q) > 0 /\ q[1].off = lo /\ q[Len(q)].off + q[Len(q)].len = hi
    BY <1>3, <1>1 DEF Contiguous
  <2>2. r[1].off = lo /\ r[Len(r)].off + r[Len(r)].len = hi + node.len
    <3>1. 1 \in 1 .. Len(q) /\ Len(r) = Len(q) + 1
      BY <2>1, <1>1
    <3>2. r[1] = q[1] /\ r[Len(r)] = node
      BY <3>1, <1>1
    <3> QED
      BY <2>1, <3>2
  <2>3. ASSUME NEW i \in 1 .. Len(r) - 1
        PROVE  r[i + 1].off = r[i].off + r[i].len
    <3>1. CASE i = Len(q)
      BY <3>1, <2>1, <1>1
    <3>2. CASE i # Len(q)
      <4>1. i \in 1 .. Len(q) - 1 /\ i + 1 \in 1 .. Len(q)
        BY <3>2, <1>1
      <4>2. q[i + 1].off = q[i].off + q[i].len
        BY <4>1 DEF Contiguous
      <4>3. r[i + 1] = q[i + 1] /\ r[i] = q[i]
        BY <3>2, <4>1, <1>1
      <4> QED
        BY <4>2, <4>3
    <3> QED
      BY <3>1, <3>2
  <2>4. ASSUME NEW i \in 1 .. Len(r)
        PROVE  r[i].off + r[i].len <= hi + node.len
    <3>1. CASE i = Len(r)
      BY <3>1, <2>2
    <3>2. CASE i # Len(r)
      <4>1. i \in 1 .. Len(q) /\ r[i] = q[i]
        BY <3>2, <1>1
      <4>2. q[i].off + q[i].len <= hi /\ q[i] \in T
        BY <4>1 DEF Contiguous
      <4> QED
        BY <4>1, <4>2
    <3> QED
      BY <3>1, <3>2
  <2> QED
    BY <2>2, <2>3, <2>4, <1>1 DEF Contiguous, r
<1> QED
  BY <1>2, <1>3

\* Unlinking the head takes the first piece of what the queue holds.
LEMMA ContiguousWhole ==
  ASSUME NEW T, \A x \in T : x.off \in Nat /\ x.len \in Nat,
         NEW q \in Seq(T), NEW lo \in Nat, NEW hi \in Nat,
         Contiguous(q, lo, hi), q # << >>
  PROVE  /\ Head(q).off = lo
         /\ lo + Head(q).len <= hi
         /\ Contiguous(DequeueWhole(q), lo + Head(q).len, hi)
<1> DEFINE r == DequeueWhole(q)
<1>1. /\ r \in Seq(T) /\ Len(q) \in Nat \ {0} /\ Len(r) = Len(q) - 1
      /\ \A i \in 1 .. Len(r) : r[i] = q[i + 1]
      /\ Head(q) = q[1] /\ q[1] \in T /\ q[Len(q)] \in T
  BY DEF DequeueWhole
<1> HIDE DEF r
<1>2. /\ Head(q).off = lo /\ q[Len(q)].off + q[Len(q)].len = hi
      /\ lo + Head(q).len <= hi
  BY <1>1 DEF Contiguous
<1>3. CASE Len(q) = 1
  <2>1. r = << >> /\ lo + Head(q).len = hi
    BY <1>1, <1>2, <1>3
  <2> QED
    BY <1>2, <2>1 DEF Contiguous, r
<1>4. CASE Len(q) > 1
  <2>1. r # << >> /\ r[1] = q[2] /\ r[Len(r)] = q[Len(q)]
    BY <1>1, <1>4
  <2>2. q[2].off = lo + Head(q).len
    BY <1>1, <1>2, <1>4 DEF Contiguous
  <2>3. ASSUME NEW i \in 1 .. Len(r) - 1
        PROVE  r[i + 1].off = r[i].off + r[i].len
    <3>1. /\ i \in 1 .. Len(r) /\ i + 1 \in 1 .. Len(r)
          /\ i + 1 \in 1 .. Len(q) - 1
      BY <1>1
    <3>2. r[i + 1] = q[(i + 1) + 1] /\ r[i] = q[i + 1]
      BY <3>1, <1>1
    <3>3. q[(i + 1) + 1].off = q[i + 1].off + q[i + 1].len
      BY <3>1 DEF Contiguous
    <3> QED
      BY <3>2, <3>3
  <2>4. ASSUME NEW i \in 1 .. Len(r)
        PROVE  r[i].off + r[i].len <= hi
    <3>1. i + 1 \in 1 .. Len(q) /\ r[i] = q[i + 1]
      BY <1>1
    <3> QED
      BY <3>1 DEF Contiguous
  <2> QED
    BY <1>2, <2>1, <2>2, <2>3, <2>4, <1>1 DEF Contiguous, r
<1> QED
  BY <1>1, <1>3, <1>4

\* Copying n bytes of a longer head out takes those bytes and no more.
LEMMA ContiguousPart ==
  ASSUME NEW q \in Seq(Node), NEW lo \in Nat, NEW hi \in Nat, NEW n \in Nat,
         Contiguous(q, lo, hi), q # << >>, DequeuesPart(q, n)
  PROVE  lo + n <= hi /\ Contiguous(DequeuePart(q, n), lo + n, hi)
<1> DEFINE r == DequeuePart(q, n)
<1>0. Len(q) \in Nat \ {0} /\ 1 \in 1 .. Len(q) /\ q[1] = Head(q)
  OBVIOUS
<1>1. /\ Len(r) = Len(q) /\ r \in Seq(Node) /\ r # << >>
      /\ r[1] = [off |-> q[1].off + n, len |-> q[1].len - n]
      /\ \A i \in 2 .. Len(q) : r[i] = q[i]
  <2>1. r \in Seq(Node)
    BY QueueType
  <2>2. DOMAIN r = DOMAIN q
    BY DEF DequeuePart
  <2>3. Len(r) = Len(q) /\ r # << >>
    BY <1>0, <2>1, <2>2
  <2> QED
    BY <1>0, <2>1, <2>3 DEF DequeuePart
<1> HIDE DEF r
<1>2. /\ q[1] \in Node /\ q[1].off \in Nat /\ q[1].len \in Nat
      /\ q[1].off = lo /\ q[Len(q)].off + q[Len(q)].len = hi
  <2>1. q[1] \in Node
    BY <1>0
  <2>2. q[1].off \in Nat /\ q[1].len \in Nat
    BY <2>1 DEF Node
  <2> QED
    BY <2>1, <2>2 DEF Contiguous
<1>3. /\ r[1].off + r[1].len = q[1].off + q[1].len /\ r[1].off = lo + n
      /\ lo + n <= hi
  <2>1. q[1].len > n /\ q[1].off + q[1].len <= hi
    BY <1>0 DEF DequeuesPart, Contiguous
  <2> QED
    BY <1>1, <1>2, <2>1
<1>4. r[Len(r)].off + r[Len(r)].len = hi
  BY <1>1, <1>2, <1>3
<1>5. ASSUME NEW i \in 1 .. Len(r) - 1
      PROVE  r[i + 1].off = r[i].off + r[i].len
  <2>1. r[i + 1] = q[i + 1] /\ q[i + 1].off = q[i].off + q[i].len
    BY <1>1 DEF Contiguous
  <2>2. r[i].off + r[i].len = q[i].off + q[i].len
    <3>1. CASE i = 1
      BY <3>1, <1>3
    <3>2. CASE i # 1
      BY <3>2, <1>1
    <3> QED
      BY <3>1, <3>2
  <2> QED
    BY <2>1, <2>2
<1>6. ASSUME NEW i \in 1 .. Len(r)
      PROVE  r[i].off + r[i].len <= hi
  <2>1. q[i].off + q[i].len <= hi
    BY <1>1 DEF Contiguous
  <2>2. CASE i = 1
    BY <2>1, <2>2, <1>3
  <2>3. CASE i # 1
    <3>1. r[i] = q[i]
      BY <2>3, <1>1
    <3> QED
      BY <2>1, <3>1
  <2> QED
    BY <2>2, <2>3
<1> QED
  BY <1>1, <1>3, <1>4, <1>5, <1>6 DEF Contiguous, r

\* The head of network_recv_queue is a packet; its nodes are never split.
LEMMA PacketType ==
  ASSUME NEW q \in Seq(Packet)
  PROVE  /\ \A p \in Packet : EnqueueBuffer(q, p) \in Seq(Packet)
         /\ q # << >> => DequeueWhole(q) \in Seq(Packet) /\ Head(q) \in Packet
  BY DEF EnqueueBuffer, DequeueWhole

\* stcp_wait_for_event() returns nothing but the three events.
LEMMA ReadyEventsType ==
  \A flags : flags \subseteq ANY_EVENT => ReadyEvents(flags) \subseteq ANY_EVENT
  BY DEF ReadyEvents, ANY_EVENT

----------------------------------------------------------------------------
(* Type correctness.                                                       *)

USE DEF connVars, waitVars, appVars, stcpVars, queues, netVars

LEMMA TypeNext == TypeOK /\ CopiesSafely /\ [Next]_vars => TypeOK'
<1> SUFFICES ASSUME TypeOK, CopiesSafely, [Next]_vars PROVE TypeOK'
  OBVIOUS
<1> USE SizesAssumption, WaitAssumption
<1>0. ThreadsTypeOK /\ WaitersTypeOK /\ FlagsTypeOK /\ QueuesTypeOK
  BY DEF TypeOK
<1> USE <1>0
<1>1. CASE MyConnect
  BY <1>1 DEF MyConnect, TypeOK, ThreadsTypeOK, WaitersTypeOK,
            FlagsTypeOK, QueuesTypeOK, AppPc, StcpPc, RecvPc, Errno
<1>2. CASE WaitForConnection
  <2>1. ThreadsTypeOK'
    BY <1>2 DEF WaitForConnection, ThreadsTypeOK, AppPc, StcpPc, RecvPc, Errno
  <2>2. WaitersTypeOK'
    BY <1>2 DEF WaitForConnection, WaitersTypeOK
  <2>3. FlagsTypeOK'
    BY <1>2, Zenon DEF WaitForConnection, FlagsTypeOK
  <2>4. QueuesTypeOK'
    BY <1>2 DEF WaitForConnection, QueuesTypeOK
  <2> QED
    BY <2>1, <2>2, <2>3, <2>4 DEF TypeOK
<1>3. ASSUME NEW n \in WriteSizes, MyWrite(n)
      PROVE  TypeOK'
  <2>1. ThreadsTypeOK'
    BY <1>3 DEF MyWrite, ThreadsTypeOK, AppPc, StcpPc, RecvPc, Errno
  <2>2. WaitersTypeOK'
    BY <1>3 DEF MyWrite, WaitersTypeOK
  <2>3. FlagsTypeOK'
    BY <1>3, Zenon DEF MyWrite, FlagsTypeOK
  <2>4. QueuesTypeOK'
    <3>1. [off |-> written, len |-> n] \in Node
      BY DEF Node, QueuesTypeOK
    <3> QED
      BY <1>3, <3>1, QueueType DEF MyWrite, QueuesTypeOK
  <2> QED
    BY <2>1, <2>2, <2>3, <2>4 DEF TypeOK
<1>4. CASE WriteBroadcast
  BY <1>4 DEF WriteBroadcast, TypeOK, ThreadsTypeOK, WaitersTypeOK,
            FlagsTypeOK, QueuesTypeOK, AppPc, StcpPc, RecvPc, Errno
<1>5. ASSUME NEW n \in ReadSizes, MyRead(n)
      PROVE  TypeOK'
  <2>1. ThreadsTypeOK'
    BY <1>5 DEF MyRead, ReadDequeue, ThreadsTypeOK, AppPc, StcpPc, RecvPc, Errno
  <2>2. WaitersTypeOK'
    BY <1>5 DEF MyRead, ReadDequeue, WaitersTypeOK
  <2>3. FlagsTypeOK'
    BY <1>5, Zenon DEF MyRead, ReadDequeue, FlagsTypeOK
  <2>4. QueuesTypeOK'
    BY <1>5, QueueType DEF MyRead, ReadDequeue, Node, QueuesTypeOK
  <2> QED
    BY <2>1, <2>2, <2>3, <2>4 DEF TypeOK
<1>6. CASE ReadWake
  <2>1. ThreadsTypeOK'
    BY <1>6 DEF ReadWake, ReadDequeue, ThreadsTypeOK, AppPc, StcpPc, RecvPc, Errno
  <2>2. WaitersTypeOK'
    BY <1>6 DEF ReadWake, ReadDequeue, WaitersTypeOK
  <2>3. FlagsTypeOK'
    BY <1>6, Zenon DEF ReadWake, ReadDequeue, FlagsTypeOK
  <2>4. QueuesTypeOK'
    BY <1>6, QueueType DEF ReadWake, ReadDequeue, Node, QueuesTypeOK
  <2> QED
    BY <2>1, <2>2, <2>3, <2>4 DEF TypeOK
<1>7. CASE ReadCopy
  <2>1. ThreadsTypeOK'
    BY <1>7 DEF ReadCopy, ThreadsTypeOK, AppPc, StcpPc, RecvPc, Errno
  <2>2. WaitersTypeOK'
    BY <1>7 DEF ReadCopy, WaitersTypeOK
  <2>3. FlagsTypeOK'
    BY <1>7, Zenon DEF ReadCopy, FlagsTypeOK
  <2>4. QueuesTypeOK'
    BY <1>7, QueueType DEF ReadCopy, CopiesSafely, QueuesTypeOK
  <2> QED
    BY <2>1, <2>2, <2>3, <2>4 DEF TypeOK
<1>8. CASE MyClose
  BY <1>8 DEF MyClose, TypeOK, ThreadsTypeOK, WaitersTypeOK,
            FlagsTypeOK, QueuesTypeOK, AppPc, StcpPc, RecvPc, Errno
<1>9. CASE CloseBroadcast
  BY <1>9 DEF CloseBroadcast, TypeOK, ThreadsTypeOK, WaitersTypeOK,
            FlagsTypeOK, QueuesTypeOK, AppPc, StcpPc, RecvPc, Errno
<1>10. CASE JoinTransport
  BY <1>10 DEF JoinTransport, TypeOK, ThreadsTypeOK, WaitersTypeOK,
            FlagsTypeOK, QueuesTypeOK, AppPc, StcpPc, RecvPc, Errno
<1>11. CASE JoinRecvAndFree
  BY <1>11 DEF JoinRecvAndFree, TypeOK, ThreadsTypeOK, WaitersTypeOK,
            FlagsTypeOK, QueuesTypeOK, AppPc, StcpPc, RecvPc, Errno
<1>12. ASSUME NEW e \in Errno, StcpUnblock(e)
       PROVE  TypeOK'
  <2>1. ThreadsTypeOK'
    BY <1>12 DEF StcpUnblock, Unblock, ThreadsTypeOK, AppPc, StcpPc, RecvPc, Errno
  <2>2. WaitersTypeOK'
    BY <1>12 DEF StcpUnblock, Unblock, WaitersTypeOK
  <2>3. FlagsTypeOK'
    <3>1. established' \in BOOLEAN
      BY <1>12 DEF StcpUnblock
    <3> QED
      BY <1>12, <3>1, Zenon DEF StcpUnblock, Unblock, FlagsTypeOK
  <2>4. QueuesTypeOK'
    BY <1>12 DEF StcpUnblock, Unblock, QueuesTypeOK
  <2> QED
    BY <2>1, <2>2, <2>3, <2>4 DEF TypeOK
<1>13. CASE StcpSignal
  BY <1>13 DEF StcpSignal, TypeOK, ThreadsTypeOK, WaitersTypeOK,
            FlagsTypeOK, QueuesTypeOK, AppPc, StcpPc, RecvPc, Errno
<1>14. ASSUME NEW call \in WaitCalls, StcpWait(call)
       PROVE  TypeOK'
  <2>1. ThreadsTypeOK'
    BY <1>14 DEF StcpWait, CheckEvents, ThreadsTypeOK, AppPc, StcpPc, RecvPc, Errno
  <2>2. WaitersTypeOK'
    BY <1>14, ReadyEventsType DEF StcpWait, CheckEvents, WaitersTypeOK
  <2>3. FlagsTypeOK'
    BY <1>14, Zenon DEF StcpWait, CheckEvents, FlagsTypeOK
  <2>4. QueuesTypeOK'
    BY <1>14 DEF StcpWait, CheckEvents, QueuesTypeOK
  <2> QED
    BY <2>1, <2>2, <2>3, <2>4 DEF TypeOK
<1>15. CASE StcpWake
  <2>1. ThreadsTypeOK'
    BY <1>15 DEF StcpWake, CheckEvents, ThreadsTypeOK, AppPc, StcpPc, RecvPc, Errno
  <2>2. WaitersTypeOK'
    BY <1>15, ReadyEventsType DEF StcpWake, CheckEvents, WaitersTypeOK
  <2>3. FlagsTypeOK'
    BY <1>15, Zenon DEF StcpWake, CheckEvents, FlagsTypeOK
  <2>4. QueuesTypeOK'
    BY <1>15 DEF StcpWake, CheckEvents, QueuesTypeOK
  <2> QED
    BY <2>1, <2>2, <2>3, <2>4 DEF TypeOK
<1>16. CASE StcpTimeout
  BY <1>16 DEF StcpTimeout, TypeOK, ThreadsTypeOK, WaitersTypeOK,
            FlagsTypeOK, QueuesTypeOK, AppPc, StcpPc, RecvPc, Errno
<1>17. ASSUME NEW n \in RecvSizes, StcpAppRecv(n)
       PROVE  TypeOK'
  <2>1. ThreadsTypeOK'
    BY <1>17 DEF StcpAppRecv, Handled, ThreadsTypeOK, AppPc, StcpPc, RecvPc, Errno
  <2>2. WaitersTypeOK'
    BY <1>17 DEF StcpAppRecv, Handled, WaitersTypeOK
  <2>3. FlagsTypeOK'
    BY <1>17, Zenon DEF StcpAppRecv, Handled, FlagsTypeOK
  <2>4. QueuesTypeOK'
    BY <1>17, QueueType DEF StcpAppRecv, Handled, Node, QueuesTypeOK
  <2> QED
    BY <2>1, <2>2, <2>3, <2>4 DEF TypeOK
<1>18. CASE StcpAppCopy
  <2>1. ThreadsTypeOK'
    BY <1>18 DEF StcpAppCopy, Handled, ThreadsTypeOK, AppPc, StcpPc, RecvPc, Errno
  <2>2. WaitersTypeOK'
    BY <1>18 DEF StcpAppCopy, Handled, WaitersTypeOK
  <2>3. FlagsTypeOK'
    BY <1>18, Zenon DEF StcpAppCopy, Handled, FlagsTypeOK
  <2>4. QueuesTypeOK'
    BY <1>18, QueueType DEF StcpAppCopy, Handled, CopiesSafely, QueuesTypeOK
  <2> QED
    BY <2>1, <2>2, <2>3, <2>4 DEF TypeOK
<1>19. CASE StcpNetworkRecv
  <2>1. ThreadsTypeOK'
    BY <1>19 DEF StcpNetworkRecv, Handled, ThreadsTypeOK, AppPc, StcpPc, RecvPc, Errno
  <2>2. WaitersTypeOK'
    BY <1>19 DEF StcpNetworkRecv, Handled, WaitersTypeOK
  <2>3. FlagsTypeOK'
    BY <1>19, Zenon DEF StcpNetworkRecv, Handled, FlagsTypeOK
  <2>4. QueuesTypeOK'
    <3> DEFINE p == Head(network_recv_queue)
    <3>1. p \in Packet /\ DequeueWhole(network_recv_queue) \in Seq(Packet)
      BY <1>19, PacketType DEF StcpNetworkRecv, QueuesTypeOK
    <3>2. p.len \in Nat /\ [off |-> p.off, len |-> p.len] \in Node
          /\ [off |-> up, len |-> 0] \in Node
      BY <3>1 DEF Packet, Node, QueuesTypeOK
    <3>3. /\ EnqueueBuffer(app_send_queue, [off |-> up, len |-> 0])
               \in Seq(Node)
          /\ EnqueueBuffer(app_send_queue, [off |-> p.off, len |-> p.len])
               \in Seq(Node)
      BY <3>2, QueueType DEF QueuesTypeOK
    <3> HIDE DEF p
    <3>4. app_send_queue' \in Seq(Node) /\ up' \in Nat
      BY <1>19, <3>2, <3>3 DEF StcpNetworkRecv, QueuesTypeOK, p
    <3> QED
      BY <1>19, <3>1, <3>4 DEF StcpNetworkRecv, QueuesTypeOK, p
  <2> QED
    BY <2>1, <2>2, <2>3, <2>4 DEF TypeOK
<1>20. CASE StcpUpBroadcast
  BY <1>20 DEF StcpUpBroadcast, Handled, TypeOK, ThreadsTypeOK, WaitersTypeOK,
            FlagsTypeOK, QueuesTypeOK, AppPc, StcpPc, RecvPc, Errno
<1>21. CASE StcpClose
  BY <1>21 DEF StcpClose, Handled, TypeOK, ThreadsTypeOK, WaitersTypeOK,
            FlagsTypeOK, QueuesTypeOK, AppPc, StcpPc, RecvPc, Errno
<1>22. CASE StcpReturn
  BY <1>22 DEF StcpReturn, TypeOK, ThreadsTypeOK, WaitersTypeOK,
            FlagsTypeOK, QueuesTypeOK, AppPc, StcpPc, RecvPc, Errno
<1>23. ASSUME NEW e \in Errno, StcpGiveUp(e)
       PROVE  TypeOK'
  BY <1>23 DEF StcpGiveUp, TypeOK, ThreadsTypeOK, WaitersTypeOK,
            FlagsTypeOK, QueuesTypeOK, AppPc, StcpPc, RecvPc, Errno
<1>24. CASE StcpExit
  BY <1>24 DEF StcpExit, TypeOK, ThreadsTypeOK, WaitersTypeOK,
            FlagsTypeOK, QueuesTypeOK, AppPc, StcpPc, RecvPc, Errno
<1>25. CASE StcpExitUnblock
  <2>1. ThreadsTypeOK'
    BY <1>25 DEF StcpExitUnblock, Unblock, ThreadsTypeOK, AppPc, StcpPc, RecvPc, Errno
  <2>2. WaitersTypeOK'
    BY <1>25 DEF StcpExitUnblock, Unblock, WaitersTypeOK
  <2>3. FlagsTypeOK'
    BY <1>25, Zenon DEF StcpExitUnblock, Unblock, FlagsTypeOK
  <2>4. QueuesTypeOK'
    BY <1>25 DEF StcpExitUnblock, Unblock, QueuesTypeOK
  <2> QED
    BY <2>1, <2>2, <2>3, <2>4 DEF TypeOK
<1>26. CASE StcpEof
  <2>1. ThreadsTypeOK'
    BY <1>26 DEF StcpEof, ThreadsTypeOK, AppPc, StcpPc, RecvPc, Errno
  <2>2. WaitersTypeOK'
    BY <1>26 DEF StcpEof, WaitersTypeOK
  <2>3. FlagsTypeOK'
    BY <1>26, Zenon DEF StcpEof, FlagsTypeOK
  <2>4. QueuesTypeOK'
    BY <1>26, QueueType DEF StcpEof, Node, QueuesTypeOK
  <2> QED
    BY <2>1, <2>2, <2>3, <2>4 DEF TypeOK
<1>27. CASE StcpEofBroadcast
  BY <1>27 DEF StcpEofBroadcast, TypeOK, ThreadsTypeOK, WaitersTypeOK,
            FlagsTypeOK, QueuesTypeOK, AppPc, StcpPc, RecvPc, Errno
<1>28. CASE RecvExit
  BY <1>28 DEF RecvExit, TypeOK, ThreadsTypeOK, WaitersTypeOK,
            FlagsTypeOK, QueuesTypeOK, AppPc, StcpPc, RecvPc, Errno
<1>29. CASE RecvReadable
  BY <1>29 DEF RecvReadable, TypeOK, ThreadsTypeOK, WaitersTypeOK,
            FlagsTypeOK, QueuesTypeOK, AppPc, StcpPc, RecvPc, Errno
<1>30. ASSUME NEW n \in PacketSizes, RecvPacket(n, FALSE)
       PROVE  TypeOK'
  <2>1. ThreadsTypeOK'
    BY <1>30 DEF RecvPacket, ThreadsTypeOK, AppPc, StcpPc, RecvPc, Errno
  <2>2. WaitersTypeOK'
    BY <1>30 DEF RecvPacket, WaitersTypeOK
  <2>3. FlagsTypeOK'
    BY <1>30, Zenon DEF RecvPacket, FlagsTypeOK
  <2>4. QueuesTypeOK'
    <3>1. [off |-> peer_sent, len |-> n, fin |-> FALSE] \in Packet
      BY DEF Packet, QueuesTypeOK
    <3> QED
      BY <1>30, <3>1, PacketType DEF RecvPacket, QueuesTypeOK
  <2> QED
    BY <2>1, <2>2, <2>3, <2>4 DEF TypeOK
<1>31. CASE RecvFin
  <2>1. ThreadsTypeOK'
    BY <1>31 DEF RecvFin, RecvPacket, ThreadsTypeOK, AppPc, StcpPc, RecvPc, Errno
  <2>2. WaitersTypeOK'
    BY <1>31 DEF RecvFin, RecvPacket, WaitersTypeOK
  <2>3. FlagsTypeOK'
    BY <1>31, Zenon DEF RecvFin, RecvPacket, FlagsTypeOK
  <2>4. QueuesTypeOK'
    <3>1. [off |-> peer_sent, len |-> 0, fin |-> TRUE] \in Packet
      BY DEF Packet, QueuesTypeOK
    <3> QED
      BY <1>31, <3>1, PacketType DEF RecvFin, RecvPacket, QueuesTypeOK
  <2> QED
    BY <2>1, <2>2, <2>3, <2>4 DEF TypeOK
<1>32. CASE RecvBroadcast
  BY <1>32 DEF RecvBroadcast, TypeOK, ThreadsTypeOK, WaitersTypeOK,
            FlagsTypeOK, QueuesTypeOK, AppPc, StcpPc, RecvPc, Errno
<1>33. CASE RecvLost
  BY <1>33 DEF RecvLost, TypeOK, ThreadsTypeOK, WaitersTypeOK,
            FlagsTypeOK, QueuesTypeOK, AppPc, StcpPc, RecvPc, Errno
<1>34. CASE SpuriousWakeup
  <2>1. ThreadsTypeOK'
    BY <1>34 DEF SpuriousWakeup, ThreadsTypeOK, AppPc, StcpPc, RecvPc, Errno
  <2>2. WaitersTypeOK'
    BY <1>34 DEF SpuriousWakeup, WaitersTypeOK
  <2>3. FlagsTypeOK'
    BY <1>34, Zenon DEF SpuriousWakeup, FlagsTypeOK
  <2>4. QueuesTypeOK'
    BY <1>34 DEF SpuriousWakeup, QueuesTypeOK
  <2> QED
    BY <2>1, <2>2, <2>3, <2>4 DEF TypeOK
<1>35. CASE UNCHANGED vars
  BY <1>35 DEF vars, TypeOK, ThreadsTypeOK, WaitersTypeOK,
            FlagsTypeOK, QueuesTypeOK, AppPc, StcpPc, RecvPc, Errno
<1> QED
  BY <1>1, <1>2, <1>3, <1>4, <1>5, <1>6, <1>7, <1>8, <1>9, <1>10, <1>11,
     <1>12, <1>13, <1>14, <1>15, <1>16, <1>17, <1>18, <1>19, <1>20, <1>21,
     <1>22, <1>23, <1>24, <1>25, <1>26, <1>27, <1>28, <1>29, <1>30, <1>31,
     <1>32, <1>33, <1>34, <1>35 DEF Next, AppCall, AppStep, StcpStep,
     RecvRead, RecvStep, Terminated


----------------------------------------------------------------------------
(* The threads.                                                            *)

\* Nobody but the thread that copies disturbs the head of its queue.
LEMMA CopiesNext ==
  TypeOK /\ CopiesSafely /\ Phases /\ [Next]_vars => CopiesSafely'
<1> SUFFICES ASSUME TypeOK, CopiesSafely, Phases, [Next]_vars
             PROVE  CopiesSafely'
  OBVIOUS
<1> USE QueueHead DEF TypeOK, QueuesTypeOK, CopiesSafely
<1>1. CASE MyConnect
  BY <1>1 DEF MyConnect
<1>2. CASE WaitForConnection
  BY <1>2 DEF WaitForConnection
<1>3. ASSUME NEW n \in WriteSizes, MyWrite(n)
      PROVE  CopiesSafely'
  <2>1. [off |-> written, len |-> n] \in Node
    BY SizesAssumption DEF Node
  <2> QED
    BY <1>3, <2>1 DEF MyWrite
<1>4. CASE WriteBroadcast
  BY <1>4 DEF WriteBroadcast
<1>5. ASSUME NEW n \in ReadSizes, MyRead(n)
      PROVE  CopiesSafely'
  BY <1>5 DEF MyRead, ReadDequeue
<1>6. CASE ReadWake
  BY <1>6 DEF ReadWake, ReadDequeue
<1>7. CASE ReadCopy
  BY <1>7 DEF ReadCopy
<1>8. CASE MyClose
  BY <1>8 DEF MyClose
<1>9. CASE CloseBroadcast
  BY <1>9 DEF CloseBroadcast
<1>10. CASE JoinTransport
  BY <1>10 DEF JoinTransport
<1>11. CASE JoinRecvAndFree
  BY <1>11 DEF JoinRecvAndFree, Phases
<1>12. ASSUME NEW e \in Errno, StcpUnblock(e)
       PROVE  CopiesSafely'
  BY <1>12 DEF StcpUnblock, Unblock
<1>13. CASE StcpSignal
  BY <1>13 DEF StcpSignal
<1>14. ASSUME NEW call \in WaitCalls, StcpWait(call)
       PROVE  CopiesSafely'
  BY <1>14 DEF StcpWait, CheckEvents, ReadyEvents
<1>15. CASE StcpWake
  BY <1>15 DEF StcpWake, CheckEvents, ReadyEvents
<1>16. CASE StcpTimeout
  BY <1>16 DEF StcpTimeout
<1>17. ASSUME NEW n \in RecvSizes, StcpAppRecv(n)
       PROVE  CopiesSafely'
  BY <1>17 DEF StcpAppRecv, Handled
<1>18. CASE StcpAppCopy
  BY <1>18 DEF StcpAppCopy, Handled
<1>19. CASE StcpNetworkRecv
  <2> DEFINE p == Head(network_recv_queue)
  <2>1. /\ [off |-> up, len |-> 0] \in Node
        /\ [off |-> p.off, len |-> p.len] \in Node
    BY <1>19, PacketType DEF StcpNetworkRecv, Node, Packet
  <2>2. app_pc = "read_copy" =>
          /\ EnqueueBuffer(app_send_queue, [off |-> up, len |-> 0]) # << >>
          /\ DequeuesPart(EnqueueBuffer(app_send_queue,
                                        [off |-> up, len |-> 0]), buf_len)
          /\ EnqueueBuffer(app_send_queue,
                           [off |-> p.off, len |-> p.len]) # << >>
          /\ DequeuesPart(EnqueueBuffer(app_send_queue,
                              [off |-> p.off, len |-> p.len]), buf_len)
    BY <2>1
  <2> HIDE DEF p
  <2>3. app_pc' = app_pc /\ buf_len' = buf_len /\ stcp_pc' # "app_copy"
    BY <1>19 DEF StcpNetworkRecv, Handled
  <2> QED
    BY <1>19, <2>2, <2>3 DEF StcpNetworkRecv, p
<1>20. CASE StcpUpBroadcast
  BY <1>20 DEF StcpUpBroadcast, Handled
<1>21. CASE StcpClose
  BY <1>21 DEF StcpClose, Handled
<1>22. CASE StcpReturn
  BY <1>22 DEF StcpReturn
<1>23. ASSUME NEW e \in Errno, StcpGiveUp(e)
       PROVE  CopiesSafely'
  BY <1>23 DEF StcpGiveUp
<1>24. CASE StcpExit
  BY <1>24 DEF StcpExit
<1>25. CASE StcpExitUnblock
  BY <1>25 DEF StcpExitUnblock, Unblock
<1>26. CASE StcpEof
  <2>1. [off |-> up, len |-> 0] \in Node
    BY DEF Node
  <2> QED
    BY <1>26, <2>1 DEF StcpEof
<1>27. CASE StcpEofBroadcast
  BY <1>27 DEF StcpEofBroadcast
<1>28. CASE RecvExit
  BY <1>28 DEF RecvExit
<1>29. CASE RecvReadable
  BY <1>29 DEF RecvReadable
<1>30. ASSUME NEW n \in PacketSizes, RecvPacket(n, FALSE)
       PROVE  CopiesSafely'
  BY <1>30 DEF RecvPacket
<1>31. CASE RecvFin
  BY <1>31 DEF RecvFin, RecvPacket
<1>32. CASE RecvBroadcast
  BY <1>32 DEF RecvBroadcast
<1>33. CASE RecvLost
  BY <1>33 DEF RecvLost
<1>34. CASE SpuriousWakeup
  BY <1>34 DEF SpuriousWakeup
<1>35. CASE UNCHANGED vars
  BY <1>35 DEF vars
<1> QED
  BY <1>1, <1>2, <1>3, <1>4, <1>5, <1>6, <1>7, <1>8, <1>9, <1>10, <1>11,
     <1>12, <1>13, <1>14, <1>15, <1>16, <1>17, <1>18, <1>19, <1>20, <1>21,
     <1>22, <1>23, <1>24, <1>25, <1>26, <1>27, <1>28, <1>29, <1>30, <1>31,
     <1>32, <1>33, <1>34, <1>35 DEF Next, AppCall, AppStep, StcpStep,
     RecvRead, RecvStep, Terminated

\* No thread outlives the context, and a waiter is where it waits.
LEMMA PhasesNext == TypeOK /\ Phases /\ [Next]_vars => Phases'
<1> SUFFICES ASSUME TypeOK, Phases, [Next]_vars PROVE Phases'
  OBVIOUS
<1> USE DEF TypeOK, ThreadsTypeOK, WaitersTypeOK, Phases, AppPc, StcpPc, RecvPc
<1>1. CASE MyConnect
  BY <1>1 DEF MyConnect
<1>2. CASE WaitForConnection
  BY <1>2 DEF WaitForConnection
<1>3. ASSUME NEW n \in WriteSizes, MyWrite(n)
      PROVE  Phases'
  BY <1>3 DEF MyWrite
<1>4. CASE WriteBroadcast
  BY <1>4 DEF WriteBroadcast
<1>5. ASSUME NEW n \in ReadSizes, MyRead(n)
      PROVE  Phases'
  BY <1>5 DEF MyRead, ReadDequeue
<1>6. CASE ReadWake
  BY <1>6 DEF ReadWake, ReadDequeue
<1>7. CASE ReadCopy
  BY <1>7 DEF ReadCopy
<1>8. CASE MyClose
  BY <1>8 DEF MyClose
<1>9. CASE CloseBroadcast
  BY <1>9 DEF CloseBroadcast
<1>10. CASE JoinTransport
  BY <1>10 DEF JoinTransport
<1>11. CASE JoinRecvAndFree
  BY <1>11 DEF JoinRecvAndFree
<1>12. ASSUME NEW e \in Errno, StcpUnblock(e)
       PROVE  Phases'
  BY <1>12 DEF StcpUnblock, Unblock
<1>13. CASE StcpSignal
  BY <1>13 DEF StcpSignal
<1>14. ASSUME NEW call \in WaitCalls, StcpWait(call)
       PROVE  Phases'
  BY <1>14 DEF StcpWait, CheckEvents
<1>15. CASE StcpWake
  BY <1>15 DEF StcpWake, CheckEvents
<1>16. CASE StcpTimeout
  BY <1>16 DEF StcpTimeout
<1>17. ASSUME NEW n \in RecvSizes, StcpAppRecv(n)
       PROVE  Phases'
  BY <1>17 DEF StcpAppRecv, Handled
<1>18. CASE StcpAppCopy
  BY <1>18 DEF StcpAppCopy, Handled
<1>19. CASE StcpNetworkRecv
  BY <1>19 DEF StcpNetworkRecv, Handled
<1>20. CASE StcpUpBroadcast
  BY <1>20 DEF StcpUpBroadcast, Handled
<1>21. CASE StcpClose
  BY <1>21 DEF StcpClose, Handled
<1>22. CASE StcpReturn
  BY <1>22 DEF StcpReturn
<1>23. ASSUME NEW e \in Errno, StcpGiveUp(e)
       PROVE  Phases'
  BY <1>23 DEF StcpGiveUp
<1>24. CASE StcpExit
  BY <1>24 DEF StcpExit
<1>25. CASE StcpExitUnblock
  BY <1>25 DEF StcpExitUnblock, Unblock
<1>26. CASE StcpEof
  BY <1>26 DEF StcpEof
<1>27. CASE StcpEofBroadcast
  BY <1>27 DEF StcpEofBroadcast
<1>28. CASE RecvExit
  BY <1>28 DEF RecvExit
<1>29. CASE RecvReadable
  BY <1>29 DEF RecvReadable
<1>30. ASSUME NEW n \in PacketSizes, RecvPacket(n, FALSE)
       PROVE  Phases'
  BY <1>30 DEF RecvPacket
<1>31. CASE RecvFin
  BY <1>31 DEF RecvFin, RecvPacket
<1>32. CASE RecvBroadcast
  BY <1>32 DEF RecvBroadcast
<1>33. CASE RecvLost
  BY <1>33 DEF RecvLost
<1>34. CASE SpuriousWakeup
  BY <1>34 DEF SpuriousWakeup
<1>35. CASE UNCHANGED vars
  BY <1>35 DEF vars
<1> QED
  BY <1>1, <1>2, <1>3, <1>4, <1>5, <1>6, <1>7, <1>8, <1>9, <1>10, <1>11,
     <1>12, <1>13, <1>14, <1>15, <1>16, <1>17, <1>18, <1>19, <1>20, <1>21,
     <1>22, <1>23, <1>24, <1>25, <1>26, <1>27, <1>28, <1>29, <1>30, <1>31,
     <1>32, <1>33, <1>34, <1>35 DEF Next, AppCall, AppStep, StcpStep,
     RecvRead, RecvStep, Terminated

\* The outcome of the connection attempt is decided once.
LEMMA OutcomeNext ==
  TypeOK /\ Phases /\ Outcome /\ [Next]_vars => Outcome'
<1> SUFFICES ASSUME TypeOK, Phases, Outcome, [Next]_vars PROVE Outcome'
  OBVIOUS
<1> USE DEF TypeOK, ThreadsTypeOK, FlagsTypeOK, Outcome
<1>1. CASE MyConnect
  BY <1>1 DEF MyConnect, Phases
<1>2. CASE WaitForConnection
  BY <1>2 DEF WaitForConnection
<1>3. ASSUME NEW n \in WriteSizes, MyWrite(n)
      PROVE  Outcome'
  BY <1>3 DEF MyWrite
<1>4. CASE WriteBroadcast
  BY <1>4 DEF WriteBroadcast
<1>5. ASSUME NEW n \in ReadSizes, MyRead(n)
      PROVE  Outcome'
  BY <1>5 DEF MyRead, ReadDequeue
<1>6. CASE ReadWake
  BY <1>6 DEF ReadWake, ReadDequeue
<1>7. CASE ReadCopy
  BY <1>7 DEF ReadCopy
<1>8. CASE MyClose
  BY <1>8 DEF MyClose
<1>9. CASE CloseBroadcast
  BY <1>9 DEF CloseBroadcast
<1>10. CASE JoinTransport
  BY <1>10 DEF JoinTransport
<1>11. CASE JoinRecvAndFree
  BY <1>11 DEF JoinRecvAndFree
<1>12. ASSUME NEW e \in Errno, StcpUnblock(e)
       PROVE  Outcome'
  BY <1>12 DEF StcpUnblock, Unblock
<1>13. CASE StcpSignal
  BY <1>13 DEF StcpSignal
<1>14. ASSUME NEW call \in WaitCalls, StcpWait(call)
       PROVE  Outcome'
  BY <1>14 DEF StcpWait, CheckEvents
<1>15. CASE StcpWake
  BY <1>15 DEF StcpWake, CheckEvents
<1>16. CASE StcpTimeout
  BY <1>16 DEF StcpTimeout
<1>17. ASSUME NEW n \in RecvSizes, StcpAppRecv(n)
       PROVE  Outcome'
  BY <1>17 DEF StcpAppRecv, Handled
<1>18. CASE StcpAppCopy
  BY <1>18 DEF StcpAppCopy, Handled
<1>19. CASE StcpNetworkRecv
  BY <1>19 DEF StcpNetworkRecv, Handled
<1>20. CASE StcpUpBroadcast
  BY <1>20 DEF StcpUpBroadcast, Handled
<1>21. CASE StcpClose
  BY <1>21 DEF StcpClose, Handled
<1>22. CASE StcpReturn
  BY <1>22 DEF StcpReturn
<1>23. ASSUME NEW e \in Errno, StcpGiveUp(e)
       PROVE  Outcome'
  BY <1>23 DEF StcpGiveUp
<1>24. CASE StcpExit
  BY <1>24 DEF StcpExit
<1>25. CASE StcpExitUnblock
  BY <1>25 DEF StcpExitUnblock, Unblock
<1>26. CASE StcpEof
  BY <1>26 DEF StcpEof
<1>27. CASE StcpEofBroadcast
  BY <1>27 DEF StcpEofBroadcast
<1>28. CASE RecvExit
  BY <1>28 DEF RecvExit
<1>29. CASE RecvReadable
  BY <1>29 DEF RecvReadable
<1>30. ASSUME NEW n \in PacketSizes, RecvPacket(n, FALSE)
       PROVE  Outcome'
  BY <1>30 DEF RecvPacket
<1>31. CASE RecvFin
  BY <1>31 DEF RecvFin, RecvPacket
<1>32. CASE RecvBroadcast
  BY <1>32 DEF RecvBroadcast
<1>33. CASE RecvLost
  BY <1>33 DEF RecvLost
<1>34. CASE SpuriousWakeup
  BY <1>34 DEF SpuriousWakeup
<1>35. CASE UNCHANGED vars
  BY <1>35 DEF vars
<1> QED
  BY <1>1, <1>2, <1>3, <1>4, <1>5, <1>6, <1>7, <1>8, <1>9, <1>10, <1>11,
     <1>12, <1>13, <1>14, <1>15, <1>16, <1>17, <1>18, <1>19, <1>20, <1>21,
     <1>22, <1>23, <1>24, <1>25, <1>26, <1>27, <1>28, <1>29, <1>30, <1>31,
     <1>32, <1>33, <1>34, <1>35 DEF Next, AppCall, AppStep, StcpStep,
     RecvRead, RecvStep, Terminated

----------------------------------------------------------------------------
(* The byte streams.                                                       *)

\* Both kinds of nodes carry a position and a length.
LEMMA NodeFields ==
  /\ \A x \in Node : x.off \in Nat /\ x.len \in Nat
  /\ \A x \in Packet : x.off \in Nat /\ x.len \in Nat
  BY DEF Node, Packet

\* Every step keeps the bytes between mywrite() and stcp_app_recv().
LEMMA DownStreamNext ==
  TypeOK /\ CopiesSafely /\ Phases /\ DownStream /\ [Next]_vars => DownStream'
<1> SUFFICES ASSUME TypeOK, CopiesSafely, Phases, DownStream, [Next]_vars
             PROVE  DownStream'
  OBVIOUS
<1> USE DEF TypeOK, QueuesTypeOK
<1>1. CASE MyConnect
  BY <1>1 DEF MyConnect, DownStream
<1>2. CASE WaitForConnection
  BY <1>2 DEF WaitForConnection, DownStream
<1>3. ASSUME NEW n \in WriteSizes, MyWrite(n)
      PROVE  DownStream'
  <2> DEFINE node == [off |-> written, len |-> n]
  <2>1. node \in Node /\ node.off = written /\ node.len = n
    BY SizesAssumption DEF Node
  <2>2. app_pc # "closed" /\ app_pc' # "closed"
    BY <1>3 DEF MyWrite
  <2>3. Contiguous(EnqueueBuffer(app_recv_queue, node), taken, written + n)
    BY <2>1, <2>2, NodeFields, ContiguousEnqueue DEF DownStream
  <2> HIDE DEF node
  <2> QED
    BY <1>3, <2>3 DEF MyWrite, DownStream, node
<1>4. CASE WriteBroadcast
  BY <1>4 DEF WriteBroadcast, DownStream
<1>5. ASSUME NEW n \in ReadSizes, MyRead(n)
      PROVE  DownStream'
  BY <1>5 DEF MyRead, ReadDequeue, DownStream
<1>6. CASE ReadWake
  BY <1>6 DEF ReadWake, ReadDequeue, DownStream
<1>7. CASE ReadCopy
  BY <1>7 DEF ReadCopy, DownStream
<1>8. CASE MyClose
  BY <1>8 DEF MyClose, DownStream
<1>9. CASE CloseBroadcast
  BY <1>9 DEF CloseBroadcast, DownStream
<1>10. CASE JoinTransport
  BY <1>10 DEF JoinTransport, DownStream
<1>11. CASE JoinRecvAndFree
  BY <1>11 DEF JoinRecvAndFree, DownStream
<1>12. ASSUME NEW e \in Errno, StcpUnblock(e)
       PROVE  DownStream'
  BY <1>12 DEF StcpUnblock, Unblock, DownStream
<1>13. CASE StcpSignal
  BY <1>13 DEF StcpSignal, DownStream
<1>14. ASSUME NEW call \in WaitCalls, StcpWait(call)
       PROVE  DownStream'
  BY <1>14 DEF StcpWait, CheckEvents, DownStream
<1>15. CASE StcpWake
  BY <1>15 DEF StcpWake, CheckEvents, DownStream
<1>16. CASE StcpTimeout
  BY <1>16 DEF StcpTimeout, DownStream
<1>17. ASSUME NEW n \in RecvSizes, StcpAppRecv(n)
       PROVE  DownStream'
  <2>1. app_pc # "closed" /\ app_pc' = app_pc
    BY <1>17 DEF StcpAppRecv, Phases
  <2>2. CASE DequeuesPart(app_recv_queue, n)
    BY <1>17, <2>1, <2>2 DEF StcpAppRecv, DownStream
  <2>3. CASE ~DequeuesPart(app_recv_queue, n)
    <3>1. Contiguous(DequeueWhole(app_recv_queue),
                     taken + Head(app_recv_queue).len, written)
      BY <1>17, <2>1, NodeFields, ContiguousWhole DEF StcpAppRecv, DownStream
    <3> QED
      BY <1>17, <2>3, <3>1 DEF StcpAppRecv, DownStream
  <2> QED
    BY <2>2, <2>3
<1>18. CASE StcpAppCopy
  <2>1. app_pc # "closed" /\ app_pc' = app_pc
    BY <1>18 DEF StcpAppCopy, Phases
  <2>2. Contiguous(DequeuePart(app_recv_queue, max_len), taken + max_len,
                   written)
    BY <1>18, <2>1, ContiguousPart DEF StcpAppCopy, CopiesSafely, DownStream
  <2> QED
    BY <1>18, <2>2 DEF StcpAppCopy, DownStream
<1>19. CASE StcpNetworkRecv
  BY <1>19 DEF StcpNetworkRecv, Handled, DownStream
<1>20. CASE StcpUpBroadcast
  BY <1>20 DEF StcpUpBroadcast, Handled, DownStream
<1>21. CASE StcpClose
  BY <1>21 DEF StcpClose, Handled, DownStream
<1>22. CASE StcpReturn
  BY <1>22 DEF StcpReturn, DownStream
<1>23. ASSUME NEW e \in Errno, StcpGiveUp(e)
       PROVE  DownStream'
  BY <1>23 DEF StcpGiveUp, DownStream
<1>24. CASE StcpExit
  BY <1>24 DEF StcpExit, DownStream
<1>25. CASE StcpExitUnblock
  BY <1>25 DEF StcpExitUnblock, Unblock, DownStream
<1>26. CASE StcpEof
  BY <1>26 DEF StcpEof, DownStream
<1>27. CASE StcpEofBroadcast
  BY <1>27 DEF StcpEofBroadcast, DownStream
<1>28. CASE RecvExit
  BY <1>28 DEF RecvExit, DownStream
<1>29. CASE RecvReadable
  BY <1>29 DEF RecvReadable, DownStream
<1>30. ASSUME NEW n \in PacketSizes, RecvPacket(n, FALSE)
       PROVE  DownStream'
  BY <1>30 DEF RecvPacket, DownStream
<1>31. CASE RecvFin
  BY <1>31 DEF RecvFin, RecvPacket, DownStream
<1>32. CASE RecvBroadcast
  BY <1>32 DEF RecvBroadcast, DownStream
<1>33. CASE RecvLost
  BY <1>33 DEF RecvLost, DownStream
<1>34. CASE SpuriousWakeup
  BY <1>34 DEF SpuriousWakeup, DownStream
<1>35. CASE UNCHANGED vars
  BY <1>35 DEF vars, DownStream
<1> QED
  BY <1>1, <1>2, <1>3, <1>4, <1>5, <1>6, <1>7, <1>8, <1>9, <1>10, <1>11,
     <1>12, <1>13, <1>14, <1>15, <1>16, <1>17, <1>18, <1>19, <1>20, <1>21,
     <1>22, <1>23, <1>24, <1>25, <1>26, <1>27, <1>28, <1>29, <1>30, <1>31,
     <1>32, <1>33, <1>34, <1>35 DEF Next, AppCall, AppStep, StcpStep,
     RecvRead, RecvStep, Terminated

\* Every step keeps the bytes between the peer's packets and myread().
LEMMA UpStreamNext ==
  TypeOK /\ CopiesSafely /\ Phases /\ FinIsLast /\ UpStream /\ [Next]_vars
    => UpStream'
<1> SUFFICES ASSUME TypeOK, CopiesSafely, Phases, FinIsLast, UpStream,
                    [Next]_vars
             PROVE  UpStream'
  OBVIOUS
<1> USE DEF TypeOK, QueuesTypeOK
<1>1. CASE MyConnect
  BY <1>1 DEF MyConnect, UpStream
<1>2. CASE WaitForConnection
  BY <1>2 DEF WaitForConnection, UpStream
<1>3. ASSUME NEW n \in WriteSizes, MyWrite(n)
      PROVE  UpStream'
  BY <1>3 DEF MyWrite, UpStream
<1>4. CASE WriteBroadcast
  BY <1>4 DEF WriteBroadcast, UpStream
<1>5. ASSUME NEW n \in ReadSizes, MyRead(n)
      PROVE  UpStream'
  <2>1. /\ app_pc # "closed" /\ app_pc' # "closed"
        /\ ReadDequeue(n)
        /\ UNCHANGED << network_recv_queue, up, peer_sent >>
    BY <1>5 DEF MyRead, ReadDequeue
  <2>2. CASE app_send_queue = << >> \/ DequeuesPart(app_send_queue, n)
    BY <2>1, <2>2 DEF ReadDequeue, UpStream
  <2>3. CASE app_send_queue # << >> /\ ~DequeuesPart(app_send_queue, n)
    <3>1. Contiguous(DequeueWhole(app_send_queue),
                     got + Head(app_send_queue).len, up)
      BY <2>1, <2>3, NodeFields, ContiguousWhole DEF UpStream
    <3> QED
      BY <2>1, <2>3, <3>1 DEF ReadDequeue, UpStream
  <2> QED
    BY <2>2, <2>3
<1>6. CASE ReadWake
  <2>1. /\ app_pc # "closed" /\ app_pc' # "closed"
        /\ ReadDequeue(buf_len)
        /\ UNCHANGED << network_recv_queue, up, peer_sent >>
    BY <1>6 DEF ReadWake, ReadDequeue
  <2>2. CASE app_send_queue = << >> \/ DequeuesPart(app_send_queue, buf_len)
    BY <2>1, <2>2 DEF ReadDequeue, UpStream
  <2>3. CASE app_send_queue # << >> /\ ~DequeuesPart(app_send_queue, buf_len)
    <3>1. Contiguous(DequeueWhole(app_send_queue),
                     got + Head(app_send_queue).len, up)
      BY <2>1, <2>3, NodeFields, ContiguousWhole DEF UpStream
    <3> QED
      BY <2>1, <2>3, <3>1 DEF ReadDequeue, UpStream
  <2> QED
    BY <2>2, <2>3
<1>7. CASE ReadCopy
  <2>1. Contiguous(DequeuePart(app_send_queue, buf_len), got + buf_len, up)
    BY <1>7, ContiguousPart DEF ReadCopy, CopiesSafely, UpStream
  <2> QED
    BY <1>7, <2>1 DEF ReadCopy, UpStream
<1>8. CASE MyClose
  BY <1>8 DEF MyClose, UpStream
<1>9. CASE CloseBroadcast
  BY <1>9 DEF CloseBroadcast, UpStream
<1>10. CASE JoinTransport
  BY <1>10 DEF JoinTransport, UpStream
<1>11. CASE JoinRecvAndFree
  BY <1>11 DEF JoinRecvAndFree, UpStream
<1>12. ASSUME NEW e \in Errno, StcpUnblock(e)
       PROVE  UpStream'
  BY <1>12 DEF StcpUnblock, Unblock, UpStream
<1>13. CASE StcpSignal
  BY <1>13 DEF StcpSignal, UpStream
<1>14. ASSUME NEW call \in WaitCalls, StcpWait(call)
       PROVE  UpStream'
  BY <1>14 DEF StcpWait, CheckEvents, UpStream
<1>15. CASE StcpWake
  BY <1>15 DEF StcpWake, CheckEvents, UpStream
<1>16. CASE StcpTimeout
  BY <1>16 DEF StcpTimeout, UpStream
<1>17. ASSUME NEW n \in RecvSizes, StcpAppRecv(n)
       PROVE  UpStream'
  BY <1>17 DEF StcpAppRecv, Handled, UpStream
<1>18. CASE StcpAppCopy
  BY <1>18 DEF StcpAppCopy, Handled, UpStream
<1>19. CASE StcpNetworkRecv
  <2> DEFINE p == Head(network_recv_queue)
             eofNode == [off |-> up, len |-> 0]
             upNode == [off |-> p.off, len |-> p.len]
  <2>1. app_pc # "closed" /\ app_pc' = app_pc /\ network_recv_queue # << >>
    BY <1>19 DEF StcpNetworkRecv, Phases
  <2>2. /\ p \in Packet /\ p.off \in Nat /\ p.len \in Nat
        /\ p.off = up
        /\ Contiguous(DequeueWhole(network_recv_queue), up + p.len, peer_sent)
    BY <2>1, NodeFields, PacketType, ContiguousWhole DEF UpStream
  <2>3. /\ eofNode \in Node /\ eofNode.off = up /\ eofNode.len = 0
        /\ upNode \in Node /\ upNode.off = up /\ upNode.len = p.len
        /\ up + 0 = up
    BY <2>2 DEF Node
  <2>4. Contiguous(EnqueueBuffer(app_send_queue, eofNode), got,
                   up + eofNode.len)
    BY <2>1, <2>3, NodeFields, ContiguousEnqueue DEF UpStream
  <2>5. Contiguous(EnqueueBuffer(app_send_queue, upNode), got, up + upNode.len)
    BY <2>1, <2>3, NodeFields, ContiguousEnqueue DEF UpStream
  <2>6. 1 \in 1 .. Len(network_recv_queue) /\ p = network_recv_queue[1]
    BY <2>1
  <2>7. p.fin => p.len = 0
    BY <2>6 DEF FinIsLast
  <2> HIDE DEF p, eofNode, upNode
  <2>8. network_recv_queue' = DequeueWhole(network_recv_queue)
        /\ peer_sent' = peer_sent /\ got' = got
    BY <1>19 DEF StcpNetworkRecv
  <2>9. \/ /\ p.fin /\ app_send_queue' = EnqueueBuffer(app_send_queue, eofNode)
           /\ up' = up
        \/ /\ app_send_queue' = EnqueueBuffer(app_send_queue, upNode)
           /\ up' = up + p.len
        \/ /\ p.len = 0 /\ app_send_queue' = app_send_queue /\ up' = up
    BY <1>19, <2>2 DEF StcpNetworkRecv, AppSends, p, eofNode, upNode
  <2> QED
    BY <2>1, <2>2, <2>3, <2>4, <2>5, <2>7, <2>8, <2>9 DEF UpStream
<1>20. CASE StcpUpBroadcast
  BY <1>20 DEF StcpUpBroadcast, Handled, UpStream
<1>21. CASE StcpClose
  BY <1>21 DEF StcpClose, Handled, UpStream
<1>22. CASE StcpReturn
  BY <1>22 DEF StcpReturn, UpStream
<1>23. ASSUME NEW e \in Errno, StcpGiveUp(e)
       PROVE  UpStream'
  BY <1>23 DEF StcpGiveUp, UpStream
<1>24. CASE StcpExit
  BY <1>24 DEF StcpExit, UpStream
<1>25. CASE StcpExitUnblock
  BY <1>25 DEF StcpExitUnblock, Unblock, UpStream
<1>26. CASE StcpEof
  <2> DEFINE node == [off |-> up, len |-> 0]
  <2>1. node \in Node /\ node.off = up /\ node.len = 0 /\ up + 0 = up
    BY DEF Node
  <2>2. app_pc # "closed"
    BY <1>26 DEF StcpEof, Phases
  <2>3. Contiguous(EnqueueBuffer(app_send_queue, node), got, up + node.len)
    BY <2>1, <2>2, NodeFields, ContiguousEnqueue DEF UpStream
  <2> HIDE DEF node
  <2> QED
    BY <1>26, <2>1, <2>3 DEF StcpEof, UpStream, node
<1>27. CASE StcpEofBroadcast
  BY <1>27 DEF StcpEofBroadcast, UpStream
<1>28. CASE RecvExit
  BY <1>28 DEF RecvExit, UpStream
<1>29. CASE RecvReadable
  BY <1>29 DEF RecvReadable, UpStream
<1>30. ASSUME NEW n \in PacketSizes, RecvPacket(n, FALSE)
       PROVE  UpStream'
  <2> DEFINE p == [off |-> peer_sent, len |-> n, fin |-> FALSE]
  <2>1. p \in Packet /\ p.off = peer_sent /\ p.len = n
    BY SizesAssumption DEF Packet
  <2>2. app_pc # "closed" /\ app_pc' = app_pc
    BY <1>30 DEF RecvPacket, Phases
  <2>3. Contiguous(EnqueueBuffer(network_recv_queue, p), up, peer_sent + p.len)
    BY <2>1, <2>2, NodeFields, ContiguousEnqueue DEF UpStream
  <2> HIDE DEF p
  <2> QED
    BY <1>30, <2>1, <2>2, <2>3 DEF RecvPacket, UpStream, p
<1>31. CASE RecvFin
  <2> DEFINE p == [off |-> peer_sent, len |-> 0, fin |-> TRUE]
  <2>1. p \in Packet /\ p.off = peer_sent /\ p.len = 0
    BY SizesAssumption DEF Packet
  <2>2. app_pc # "closed" /\ app_pc' = app_pc
    BY <1>31 DEF RecvFin, RecvPacket, Phases
  <2>3. Contiguous(EnqueueBuffer(network_recv_queue, p), up, peer_sent + p.len)
    BY <2>1, <2>2, NodeFields, ContiguousEnqueue DEF UpStream
  <2> HIDE DEF p
  <2> QED
    BY <1>31, <2>1, <2>2, <2>3 DEF RecvFin, RecvPacket, UpStream, p
<1>32. CASE RecvBroadcast
  BY <1>32 DEF RecvBroadcast, UpStream
<1>33. CASE RecvLost
  BY <1>33 DEF RecvLost, UpStream
<1>34. CASE SpuriousWakeup
  BY <1>34 DEF SpuriousWakeup, UpStream
<1>35. CASE UNCHANGED vars
  BY <1>35 DEF vars, UpStream
<1> QED
  BY <1>1, <1>2, <1>3, <1>4, <1>5, <1>6, <1>7, <1>8, <1>9, <1>10, <1>11,
     <1>12, <1>13, <1>14, <1>15, <1>16, <1>17, <1>18, <1>19, <1>20, <1>21,
     <1>22, <1>23, <1>24, <1>25, <1>26, <1>27, <1>28, <1>29, <1>30, <1>31,
     <1>32, <1>33, <1>34, <1>35 DEF Next, AppCall, AppStep, StcpStep,
     RecvRead, RecvStep, Terminated

----------------------------------------------------------------------------
(* Close and end of file.                                                  *)

\* The close request is passed down once, after the data.
LEMMA CloseOnceNext ==
  TypeOK /\ Phases /\ DownStream /\ CopiesSafely /\ CloseOnce /\ [Next]_vars
    => CloseOnce'
<1> SUFFICES ASSUME TypeOK, Phases, DownStream, CopiesSafely, CloseOnce,
                    [Next]_vars
             PROVE  CloseOnce'
  OBVIOUS
<1> USE DEF TypeOK, QueuesTypeOK, CloseOnce, Closing
<1>1. CASE MyConnect
  BY <1>1 DEF MyConnect
<1>2. CASE WaitForConnection
  BY <1>2 DEF WaitForConnection
<1>3. ASSUME NEW n \in WriteSizes, MyWrite(n)
      PROVE  CloseOnce'
  BY <1>3 DEF MyWrite
<1>4. CASE WriteBroadcast
  BY <1>4 DEF WriteBroadcast
<1>5. ASSUME NEW n \in ReadSizes, MyRead(n)
      PROVE  CloseOnce'
  BY <1>5 DEF MyRead, ReadDequeue
<1>6. CASE ReadWake
  BY <1>6 DEF ReadWake, ReadDequeue
<1>7. CASE ReadCopy
  BY <1>7 DEF ReadCopy
<1>8. CASE MyClose
  BY <1>8 DEF MyClose
<1>9. CASE CloseBroadcast
  BY <1>9 DEF CloseBroadcast
<1>10. CASE JoinTransport
  BY <1>10 DEF JoinTransport
<1>11. CASE JoinRecvAndFree
  BY <1>11 DEF JoinRecvAndFree
<1>12. ASSUME NEW e \in Errno, StcpUnblock(e)
       PROVE  CloseOnce'
  BY <1>12 DEF StcpUnblock, Unblock
<1>13. CASE StcpSignal
  BY <1>13 DEF StcpSignal
<1>14. ASSUME NEW call \in WaitCalls, StcpWait(call)
       PROVE  CloseOnce'
  <2>1. app_pc # "closed" /\ CheckEvents(call.flags)
    BY <1>14 DEF StcpWait, Phases
  <2>2. CASE "APP_CLOSE_REQUESTED" \in ReadyEvents(call.flags)
    <3>1. close_requested /\ app_recv_queue = << >> /\ taken = written
      BY <2>1, <2>2 DEF ReadyEvents, DownStream, Contiguous
    <3>2. /\ close_requested' = FALSE /\ close_events' = close_events + 1
          /\ UNCHANGED << app_pc, taken, written, app_recv_queue >>
      BY <2>1, <2>2 DEF CheckEvents
    <3>3. Closing /\ close_events = 0
      BY <3>1
    <3> QED
      BY <3>1, <3>2, <3>3
  <2>3. CASE "APP_CLOSE_REQUESTED" \notin ReadyEvents(call.flags)
    BY <2>1, <2>3 DEF CheckEvents
  <2> QED
    BY <2>2, <2>3
<1>15. CASE StcpWake
  <2>1. app_pc # "closed" /\ CheckEvents(wait_call.flags)
    BY <1>15 DEF StcpWake, Phases
  <2>2. CASE "APP_CLOSE_REQUESTED" \in ReadyEvents(wait_call.flags)
    <3>1. close_requested /\ app_recv_queue = << >> /\ taken = written
      BY <2>1, <2>2 DEF ReadyEvents, DownStream, Contiguous
    <3>2. /\ close_requested' = FALSE /\ close_events' = close_events + 1
          /\ UNCHANGED << app_pc, taken, written, app_recv_queue >>
      BY <2>1, <2>2 DEF CheckEvents
    <3>3. Closing /\ close_events = 0
      BY <3>1
    <3> QED
      BY <3>1, <3>2, <3>3
  <2>3. CASE "APP_CLOSE_REQUESTED" \notin ReadyEvents(wait_call.flags)
    BY <2>1, <2>3 DEF CheckEvents
  <2> QED
    BY <2>2, <2>3
<1>16. CASE StcpTimeout
  BY <1>16 DEF StcpTimeout
<1>17. ASSUME NEW n \in RecvSizes, StcpAppRecv(n)
       PROVE  CloseOnce'
  BY <1>17 DEF StcpAppRecv, Handled
<1>18. CASE StcpAppCopy
  BY <1>18 DEF StcpAppCopy, CopiesSafely, Handled
<1>19. CASE StcpNetworkRecv
  BY <1>19 DEF StcpNetworkRecv, Handled
<1>20. CASE StcpUpBroadcast
  BY <1>20 DEF StcpUpBroadcast, Handled
<1>21. CASE StcpClose
  BY <1>21 DEF StcpClose, Handled
<1>22. CASE StcpReturn
  BY <1>22 DEF StcpReturn
<1>23. ASSUME NEW e \in Errno, StcpGiveUp(e)
       PROVE  CloseOnce'
  BY <1>23 DEF StcpGiveUp
<1>24. CASE StcpExit
  BY <1>24 DEF StcpExit
<1>25. CASE StcpExitUnblock
  BY <1>25 DEF StcpExitUnblock, Unblock
<1>26. CASE StcpEof
  BY <1>26 DEF StcpEof
<1>27. CASE StcpEofBroadcast
  BY <1>27 DEF StcpEofBroadcast
<1>28. CASE RecvExit
  BY <1>28 DEF RecvExit
<1>29. CASE RecvReadable
  BY <1>29 DEF RecvReadable
<1>30. ASSUME NEW n \in PacketSizes, RecvPacket(n, FALSE)
       PROVE  CloseOnce'
  BY <1>30 DEF RecvPacket
<1>31. CASE RecvFin
  BY <1>31 DEF RecvFin, RecvPacket
<1>32. CASE RecvBroadcast
  BY <1>32 DEF RecvBroadcast
<1>33. CASE RecvLost
  BY <1>33 DEF RecvLost
<1>34. CASE SpuriousWakeup
  BY <1>34 DEF SpuriousWakeup
<1>35. CASE UNCHANGED vars
  BY <1>35 DEF vars
<1> QED
  BY <1>1, <1>2, <1>3, <1>4, <1>5, <1>6, <1>7, <1>8, <1>9, <1>10, <1>11,
     <1>12, <1>13, <1>14, <1>15, <1>16, <1>17, <1>18, <1>19, <1>20, <1>21,
     <1>22, <1>23, <1>24, <1>25, <1>26, <1>27, <1>28, <1>29, <1>30, <1>31,
     <1>32, <1>33, <1>34, <1>35 DEF Next, AppCall, AppStep, StcpStep,
     RecvRead, RecvStep, Terminated

\* Where the nodes of a queue are after a node was linked ...
LEMMA EnqueueIndex ==
  ASSUME NEW T, NEW q \in Seq(T), NEW node \in T
  PROVE  \A i \in 1 .. Len(EnqueueBuffer(q, node)) :
           \/ i \in 1 .. Len(q) /\ EnqueueBuffer(q, node)[i] = q[i]
           \/ i = Len(q) + 1 /\ EnqueueBuffer(q, node)[i] = node
  BY DEF EnqueueBuffer

\* ... and after its head was unlinked.
LEMMA DequeueIndex ==
  ASSUME NEW T, NEW q \in Seq(T), q # << >>
  PROVE  /\ 1 \in 1 .. Len(q) /\ Head(q) = q[1]
         /\ \A i \in 1 .. Len(DequeueWhole(q)) :
              i + 1 \in 1 .. Len(q) /\ DequeueWhole(q)[i] = q[i + 1]
  BY DEF DequeueWhole

\* Nothing but bare ACKs follows a FIN.
LEMMA FinIsLastNext == TypeOK /\ FinIsLast /\ [Next]_vars => FinIsLast'
<1> SUFFICES ASSUME TypeOK, FinIsLast, [Next]_vars PROVE FinIsLast'
  OBVIOUS
<1> USE DEF TypeOK, QueuesTypeOK
<1>1. CASE MyConnect
  BY <1>1 DEF MyConnect, FinIsLast
<1>2. CASE WaitForConnection
  BY <1>2 DEF WaitForConnection, FinIsLast
<1>3. ASSUME NEW n \in WriteSizes, MyWrite(n)
      PROVE  FinIsLast'
  BY <1>3 DEF MyWrite, FinIsLast
<1>4. CASE WriteBroadcast
  BY <1>4 DEF WriteBroadcast, FinIsLast
<1>5. ASSUME NEW n \in ReadSizes, MyRead(n)
      PROVE  FinIsLast'
  BY <1>5 DEF MyRead, ReadDequeue, FinIsLast
<1>6. CASE ReadWake
  BY <1>6 DEF ReadWake, ReadDequeue, FinIsLast
<1>7. CASE ReadCopy
  BY <1>7 DEF ReadCopy, FinIsLast
<1>8. CASE MyClose
  BY <1>8 DEF MyClose, FinIsLast
<1>9. CASE CloseBroadcast
  BY <1>9 DEF CloseBroadcast, FinIsLast
<1>10. CASE JoinTransport
  BY <1>10 DEF JoinTransport, FinIsLast
<1>11. CASE JoinRecvAndFree
  BY <1>11 DEF JoinRecvAndFree, FinIsLast
<1>12. ASSUME NEW e \in Errno, StcpUnblock(e)
       PROVE  FinIsLast'
  BY <1>12 DEF StcpUnblock, Unblock, FinIsLast
<1>13. CASE StcpSignal
  BY <1>13 DEF StcpSignal, FinIsLast
<1>14. ASSUME NEW call \in WaitCalls, StcpWait(call)
       PROVE  FinIsLast'
  BY <1>14 DEF StcpWait, CheckEvents, FinIsLast
<1>15. CASE StcpWake
  BY <1>15 DEF StcpWake, CheckEvents, FinIsLast
<1>16. CASE StcpTimeout
  BY <1>16 DEF StcpTimeout, FinIsLast
<1>17. ASSUME NEW n \in RecvSizes, StcpAppRecv(n)
       PROVE  FinIsLast'
  BY <1>17 DEF StcpAppRecv, Handled, FinIsLast
<1>18. CASE StcpAppCopy
  BY <1>18 DEF StcpAppCopy, Handled, FinIsLast
<1>19. CASE StcpNetworkRecv
  <2> DEFINE q == network_recv_queue
             p == Head(q)
  <2>1. q # << >> /\ q' = DequeueWhole(q)
    BY <1>19 DEF StcpNetworkRecv
  <2>2. p = q[1] /\ 1 \in 1 .. Len(q)
    BY <2>1, DequeueIndex
  <2>3. \A k \in 1 .. Len(q') : k + 1 \in 1 .. Len(q) /\ q'[k] = q[k + 1]
    BY <2>1, DequeueIndex
  <2>4. fin_received' => fin_received \/ p.fin
    BY <1>19 DEF StcpNetworkRecv
  <2> HIDE DEF p, q
  <2>5. FinIsLast => \A k \in 1 .. Len(q) :
          /\ q[k].fin => q[k].len = 0
          /\ fin_received => BareAck(q[k])
          /\ \A j \in 1 .. Len(q) : j < k /\ q[j].fin => BareAck(q[k])
    BY DEF FinIsLast, q
  <2>6. ASSUME NEW k \in 1 .. Len(q')
        PROVE  /\ q'[k].fin => q'[k].len = 0
               /\ fin_received' => BareAck(q'[k])
               /\ \A j \in 1 .. Len(q') :
                    j < k /\ q'[j].fin => BareAck(q'[k])
    <3>1. k + 1 \in 1 .. Len(q) /\ q'[k] = q[k + 1] /\ 1 < k + 1
      BY <2>3
    <3>2. \A j \in 1 .. Len(q') :
            j < k => j + 1 \in 1 .. Len(q) /\ j + 1 < k + 1 /\ q'[j] = q[j + 1]
      BY <2>3
    <3> QED
      BY <2>2, <2>4, <2>5, <3>1, <3>2
  <2> QED
    BY <2>6 DEF FinIsLast, q
<1>20. CASE StcpUpBroadcast
  BY <1>20 DEF StcpUpBroadcast, Handled, FinIsLast
<1>21. CASE StcpClose
  BY <1>21 DEF StcpClose, Handled, FinIsLast
<1>22. CASE StcpReturn
  BY <1>22 DEF StcpReturn, FinIsLast
<1>23. ASSUME NEW e \in Errno, StcpGiveUp(e)
       PROVE  FinIsLast'
  BY <1>23 DEF StcpGiveUp, FinIsLast
<1>24. CASE StcpExit
  BY <1>24 DEF StcpExit, FinIsLast
<1>25. CASE StcpExitUnblock
  BY <1>25 DEF StcpExitUnblock, Unblock, FinIsLast
<1>26. CASE StcpEof
  BY <1>26 DEF StcpEof, FinIsLast
<1>27. CASE StcpEofBroadcast
  BY <1>27 DEF StcpEofBroadcast, FinIsLast
<1>28. CASE RecvExit
  BY <1>28 DEF RecvExit, FinIsLast
<1>29. CASE RecvReadable
  BY <1>29 DEF RecvReadable, FinIsLast
<1>30. ASSUME NEW n \in PacketSizes, RecvPacket(n, FALSE)
       PROVE  FinIsLast'
  <2> DEFINE p == [off |-> peer_sent, len |-> n, fin |-> FALSE]
             q == network_recv_queue
  <2>1. p \in Packet /\ p.len = n /\ p.fin = FALSE
    BY SizesAssumption DEF Packet
  <2>2. /\ q' = EnqueueBuffer(q, p) /\ fin_received' = fin_received
        /\ FinArrived => BareAck(p)
        /\ p.fin => p.len = 0
    BY <1>30 DEF RecvPacket, BareAck
  <2>3. \A k \in 1 .. Len(q') : \/ k \in 1 .. Len(q) /\ q'[k] = q[k]
                                \/ k = Len(q) + 1 /\ q'[k] = p
    BY <2>1, <2>2, EnqueueIndex
  <2> HIDE DEF p
  <2>4. ASSUME NEW k \in 1 .. Len(q')
        PROVE  /\ q'[k].fin => q'[k].len = 0
               /\ fin_received' => BareAck(q'[k])
               /\ \A j \in 1 .. Len(q') : j < k /\ q'[j].fin => BareAck(q'[k])
    <3>1. CASE k \in 1 .. Len(q) /\ q'[k] = q[k]
      <4>1. \A j \in 1 .. Len(q') : j < k => j \in 1 .. Len(q) /\ q'[j] = q[j]
        BY <2>3, <3>1
      <4> QED
        BY <2>2, <3>1, <4>1 DEF FinIsLast
    <3>2. CASE k = Len(q) + 1 /\ q'[k] = p
      <4>1. \A j \in 1 .. Len(q') : j < k => j \in 1 .. Len(q) /\ q'[j] = q[j]
        BY <2>3, <3>2
      <4>2. fin_received \/ (\E j \in 1 .. Len(q) : q[j].fin) => BareAck(p)
        BY <2>2 DEF FinArrived
      <4> QED
        BY <2>2, <3>2, <4>1, <4>2
    <3> QED
      BY <2>3, <3>1, <3>2
  <2> QED
    BY <2>4 DEF FinIsLast
<1>31. CASE RecvFin
  <2> DEFINE p == [off |-> peer_sent, len |-> 0, fin |-> TRUE]
             q == network_recv_queue
  <2>1. p \in Packet /\ p.len = 0 /\ p.fin = TRUE
    BY SizesAssumption DEF Packet
  <2>2. /\ q' = EnqueueBuffer(q, p) /\ fin_received' = fin_received
        /\ FinArrived => BareAck(p)
        /\ p.fin => p.len = 0
    BY <1>31 DEF RecvFin, RecvPacket, BareAck
  <2>3. \A k \in 1 .. Len(q') : \/ k \in 1 .. Len(q) /\ q'[k] = q[k]
                                \/ k = Len(q) + 1 /\ q'[k] = p
    BY <2>1, <2>2, EnqueueIndex
  <2> HIDE DEF p
  <2>4. ASSUME NEW k \in 1 .. Len(q')
        PROVE  /\ q'[k].fin => q'[k].len = 0
               /\ fin_received' => BareAck(q'[k])
               /\ \A j \in 1 .. Len(q') : j < k /\ q'[j].fin => BareAck(q'[k])
    <3>1. CASE k \in 1 .. Len(q) /\ q'[k] = q[k]
      <4>1. \A j \in 1 .. Len(q') : j < k => j \in 1 .. Len(q) /\ q'[j] = q[j]
        BY <2>3, <3>1
      <4> QED
        BY <2>2, <3>1, <4>1 DEF FinIsLast
    <3>2. CASE k = Len(q) + 1 /\ q'[k] = p
      <4>1. \A j \in 1 .. Len(q') : j < k => j \in 1 .. Len(q) /\ q'[j] = q[j]
        BY <2>3, <3>2
      <4>2. fin_received \/ (\E j \in 1 .. Len(q) : q[j].fin) => BareAck(p)
        BY <2>2 DEF FinArrived
      <4> QED
        BY <2>2, <3>2, <4>1, <4>2
    <3> QED
      BY <2>3, <3>1, <3>2
  <2> QED
    BY <2>4 DEF FinIsLast
<1>32. CASE RecvBroadcast
  BY <1>32 DEF RecvBroadcast, FinIsLast
<1>33. CASE RecvLost
  BY <1>33 DEF RecvLost, FinIsLast
<1>34. CASE SpuriousWakeup
  BY <1>34 DEF SpuriousWakeup, FinIsLast
<1>35. CASE UNCHANGED vars
  BY <1>35 DEF vars, FinIsLast
<1> QED
  BY <1>1, <1>2, <1>3, <1>4, <1>5, <1>6, <1>7, <1>8, <1>9, <1>10, <1>11,
     <1>12, <1>13, <1>14, <1>15, <1>16, <1>17, <1>18, <1>19, <1>20, <1>21,
     <1>22, <1>23, <1>24, <1>25, <1>26, <1>27, <1>28, <1>29, <1>30, <1>31,
     <1>32, <1>33, <1>34, <1>35 DEF Next, AppCall, AppStep, StcpStep,
     RecvRead, RecvStep, Terminated

\* Nothing is passed up behind an end-of-file marker.
LEMMA MarkersAtEndNext ==
  TypeOK /\ CopiesSafely /\ Phases /\ FinIsLast /\ MarkersAtEnd /\ [Next]_vars
    => MarkersAtEnd'
<1> SUFFICES ASSUME TypeOK, CopiesSafely, Phases, FinIsLast, MarkersAtEnd,
                    [Next]_vars
             PROVE  MarkersAtEnd'
  OBVIOUS
<1> USE DEF TypeOK, QueuesTypeOK, MarkersAtEnd, UpEnded
<1>1. CASE MyConnect
  BY <1>1 DEF MyConnect, Phases
<1>2. CASE WaitForConnection
  BY <1>2 DEF WaitForConnection
<1>3. ASSUME NEW n \in WriteSizes, MyWrite(n)
      PROVE  MarkersAtEnd'
  BY <1>3 DEF MyWrite
<1>4. CASE WriteBroadcast
  BY <1>4 DEF WriteBroadcast
<1>5. ASSUME NEW n \in ReadSizes, MyRead(n)
      PROVE  MarkersAtEnd'
  <2>1. ReadDequeue(n) /\ UNCHANGED << fin_received, stcp_pc, up >>
    BY <1>5 DEF MyRead, ReadDequeue
  <2>2. CASE app_send_queue' = app_send_queue
    BY <2>1, <2>2
  <2>3. CASE /\ app_send_queue # << >>
             /\ app_send_queue' = DequeueWhole(app_send_queue)
    <3>1. \A k \in 1 .. Len(app_send_queue') :
            /\ k + 1 \in 1 .. Len(app_send_queue)
            /\ app_send_queue'[k] = app_send_queue[k + 1]
      BY <2>3, DequeueIndex
    <3> QED
      BY <2>1, <3>1
  <2> QED
    BY <2>1, <2>2, <2>3 DEF ReadDequeue
<1>6. CASE ReadWake
  <2>1. ReadDequeue(buf_len) /\ UNCHANGED << fin_received, stcp_pc, up >>
    BY <1>6 DEF ReadWake, ReadDequeue
  <2>2. CASE app_send_queue' = app_send_queue
    BY <2>1, <2>2
  <2>3. CASE /\ app_send_queue # << >>
             /\ app_send_queue' = DequeueWhole(app_send_queue)
    <3>1. \A k \in 1 .. Len(app_send_queue') :
            /\ k + 1 \in 1 .. Len(app_send_queue)
            /\ app_send_queue'[k] = app_send_queue[k + 1]
      BY <2>3, DequeueIndex
    <3> QED
      BY <2>1, <3>1
  <2> QED
    BY <2>1, <2>2, <2>3 DEF ReadDequeue
<1>7. CASE ReadCopy
  <2> DEFINE q == app_send_queue
             r == DequeuePart(q, buf_len)
  <2>1. q' = r /\ UNCHANGED << fin_received, stcp_pc, up >>
    BY <1>7 DEF ReadCopy
  <2>2. q # << >> /\ DequeuesPart(q, buf_len) /\ r \in Seq(Node)
    BY <1>7, QueueType DEF ReadCopy, CopiesSafely
  <2>3. q[1].len > buf_len /\ 1 \in 1 .. Len(q) /\ q[1].len \in Nat
    BY <2>2, NodeFields DEF DequeuesPart
  <2>4. DOMAIN r = DOMAIN q
    BY DEF DequeuePart
  <2>5. Len(r) = Len(q) /\ r[1].len # 0 /\ \A i \in 2 .. Len(q) : r[i] = q[i]
    BY <2>2, <2>3, <2>4 DEF DequeuePart
  <2> HIDE DEF r
  <2> QED
    BY <2>1, <2>3, <2>5
<1>8. CASE MyClose
  BY <1>8 DEF MyClose
<1>9. CASE CloseBroadcast
  BY <1>9 DEF CloseBroadcast
<1>10. CASE JoinTransport
  BY <1>10 DEF JoinTransport
<1>11. CASE JoinRecvAndFree
  BY <1>11 DEF JoinRecvAndFree
<1>12. ASSUME NEW e \in Errno, StcpUnblock(e)
       PROVE  MarkersAtEnd'
  BY <1>12 DEF StcpUnblock, Unblock
<1>13. CASE StcpSignal
  BY <1>13 DEF StcpSignal
<1>14. ASSUME NEW call \in WaitCalls, StcpWait(call)
       PROVE  MarkersAtEnd'
  BY <1>14 DEF StcpWait, CheckEvents
<1>15. CASE StcpWake
  BY <1>15 DEF StcpWake, CheckEvents
<1>16. CASE StcpTimeout
  BY <1>16 DEF StcpTimeout
<1>17. ASSUME NEW n \in RecvSizes, StcpAppRecv(n)
       PROVE  MarkersAtEnd'
  BY <1>17 DEF StcpAppRecv, Handled
<1>18. CASE StcpAppCopy
  BY <1>18 DEF StcpAppCopy, Handled
<1>19. CASE StcpNetworkRecv
  <2> DEFINE p == Head(network_recv_queue)
             eofNode == [off |-> up, len |-> 0]
             upNode == [off |-> p.off, len |-> p.len]
  <2>1. /\ network_recv_queue # << >> /\ p \in Packet /\ p.len \in Nat
        /\ stcp_pc = "events"
    BY <1>19, PacketType, NodeFields DEF StcpNetworkRecv
  <2>2. eofNode \in Node /\ upNode \in Node /\ p.fin \in BOOLEAN
    BY <2>1 DEF Node, Packet
  <2>3. fin_received => p.len = 0
    BY <2>1, DequeueIndex DEF FinIsLast, BareAck
  <2>4. CASE p.fin
    <3>1. /\ app_send_queue' = EnqueueBuffer(app_send_queue, eofNode)
          /\ fin_received' = TRUE /\ up' = up
      BY <1>19, <2>4 DEF StcpNetworkRecv
    <3>2. eofNode.off = up
      OBVIOUS
    <3> HIDE DEF p, eofNode
    <3> QED
      BY <3>1, <3>2, <2>2, EnqueueIndex
  <2>5. CASE ~p.fin /\ p.len > 0
    <3>1. app_send_queue' = EnqueueBuffer(app_send_queue, upNode)
      BY <1>19, <2>5 DEF StcpNetworkRecv, AppSends
    <3>2. ~UpEnded /\ upNode.len # 0
      BY <2>1, <2>3, <2>5
    <3> HIDE DEF p, upNode
    <3> QED
      BY <3>1, <3>2, <2>2, EnqueueIndex
  <2>6. CASE ~p.fin /\ p.len = 0
    <3>1. UNCHANGED << app_send_queue, fin_received, up >>
      BY <1>19, <2>6 DEF StcpNetworkRecv, AppSends
    <3> HIDE DEF p
    <3> QED
      BY <3>1, <2>1
  <2> QED
    BY <2>1, <2>2, <2>4, <2>5, <2>6
<1>20. CASE StcpUpBroadcast
  BY <1>20 DEF StcpUpBroadcast, Handled
<1>21. CASE StcpClose
  BY <1>21 DEF StcpClose, Handled
<1>22. CASE StcpReturn
  BY <1>22 DEF StcpReturn
<1>23. ASSUME NEW e \in Errno, StcpGiveUp(e)
       PROVE  MarkersAtEnd'
  BY <1>23 DEF StcpGiveUp
<1>24. CASE StcpExit
  BY <1>24 DEF StcpExit
<1>25. CASE StcpExitUnblock
  BY <1>25 DEF StcpExitUnblock, Unblock
<1>26. CASE StcpEof
  <2>1. [off |-> up, len |-> 0] \in Node
    BY DEF Node
  <2>2. \A k \in 1 .. Len(app_send_queue') :
          \/ k \in 1 .. Len(app_send_queue)
             /\ app_send_queue'[k] = app_send_queue[k]
          \/ app_send_queue'[k] = [off |-> up, len |-> 0]
    BY <1>26, <2>1, EnqueueIndex DEF StcpEof
  <2> QED
    BY <1>26, <2>2 DEF StcpEof
<1>27. CASE StcpEofBroadcast
  BY <1>27 DEF StcpEofBroadcast
<1>28. CASE RecvExit
  BY <1>28 DEF RecvExit
<1>29. CASE RecvReadable
  BY <1>29 DEF RecvReadable
<1>30. ASSUME NEW n \in PacketSizes, RecvPacket(n, FALSE)
       PROVE  MarkersAtEnd'
  BY <1>30 DEF RecvPacket
<1>31. CASE RecvFin
  BY <1>31 DEF RecvFin, RecvPacket
<1>32. CASE RecvBroadcast
  BY <1>32 DEF RecvBroadcast
<1>33. CASE RecvLost
  BY <1>33 DEF RecvLost
<1>34. CASE SpuriousWakeup
  BY <1>34 DEF SpuriousWakeup
<1>35. CASE UNCHANGED vars
  BY <1>35 DEF vars
<1> QED
  BY <1>1, <1>2, <1>3, <1>4, <1>5, <1>6, <1>7, <1>8, <1>9, <1>10, <1>11,
     <1>12, <1>13, <1>14, <1>15, <1>16, <1>17, <1>18, <1>19, <1>20, <1>21,
     <1>22, <1>23, <1>24, <1>25, <1>26, <1>27, <1>28, <1>29, <1>30, <1>31,
     <1>32, <1>33, <1>34, <1>35 DEF Next, AppCall, AppStep, StcpStep,
     RecvRead, RecvStep, Terminated

\* The argument of a myread() stays what it was called with.
LEMMA ReadingNext == TypeOK /\ Reading /\ [Next]_vars => Reading'
<1> SUFFICES ASSUME TypeOK, Reading, [Next]_vars PROVE Reading'
  OBVIOUS
<1> USE DEF Reading
<1>1. CASE MyConnect
  BY <1>1 DEF MyConnect
<1>2. CASE WaitForConnection
  BY <1>2 DEF WaitForConnection
<1>3. ASSUME NEW n \in WriteSizes, MyWrite(n)
      PROVE  Reading'
  BY <1>3 DEF MyWrite
<1>4. CASE WriteBroadcast
  BY <1>4 DEF WriteBroadcast
<1>5. ASSUME NEW n \in ReadSizes, MyRead(n)
      PROVE  Reading'
  BY <1>5 DEF MyRead, ReadDequeue
<1>6. CASE ReadWake
  BY <1>6 DEF ReadWake, ReadDequeue
<1>7. CASE ReadCopy
  BY <1>7 DEF ReadCopy
<1>8. CASE MyClose
  BY <1>8 DEF MyClose
<1>9. CASE CloseBroadcast
  BY <1>9 DEF CloseBroadcast
<1>10. CASE JoinTransport
  BY <1>10 DEF JoinTransport
<1>11. CASE JoinRecvAndFree
  BY <1>11 DEF JoinRecvAndFree
<1>12. ASSUME NEW e \in Errno, StcpUnblock(e)
       PROVE  Reading'
  BY <1>12 DEF StcpUnblock, Unblock
<1>13. CASE StcpSignal
  BY <1>13 DEF StcpSignal
<1>14. ASSUME NEW call \in WaitCalls, StcpWait(call)
       PROVE  Reading'
  BY <1>14 DEF StcpWait, CheckEvents
<1>15. CASE StcpWake
  BY <1>15 DEF StcpWake, CheckEvents
<1>16. CASE StcpTimeout
  BY <1>16 DEF StcpTimeout
<1>17. ASSUME NEW n \in RecvSizes, StcpAppRecv(n)
       PROVE  Reading'
  BY <1>17 DEF StcpAppRecv, Handled
<1>18. CASE StcpAppCopy
  BY <1>18 DEF StcpAppCopy, Handled
<1>19. CASE StcpNetworkRecv
  BY <1>19 DEF StcpNetworkRecv, Handled
<1>20. CASE StcpUpBroadcast
  BY <1>20 DEF StcpUpBroadcast, Handled
<1>21. CASE StcpClose
  BY <1>21 DEF StcpClose, Handled
<1>22. CASE StcpReturn
  BY <1>22 DEF StcpReturn
<1>23. ASSUME NEW e \in Errno, StcpGiveUp(e)
       PROVE  Reading'
  BY <1>23 DEF StcpGiveUp
<1>24. CASE StcpExit
  BY <1>24 DEF StcpExit
<1>25. CASE StcpExitUnblock
  BY <1>25 DEF StcpExitUnblock, Unblock
<1>26. CASE StcpEof
  BY <1>26 DEF StcpEof
<1>27. CASE StcpEofBroadcast
  BY <1>27 DEF StcpEofBroadcast
<1>28. CASE RecvExit
  BY <1>28 DEF RecvExit
<1>29. CASE RecvReadable
  BY <1>29 DEF RecvReadable
<1>30. ASSUME NEW n \in PacketSizes, RecvPacket(n, FALSE)
       PROVE  Reading'
  BY <1>30 DEF RecvPacket
<1>31. CASE RecvFin
  BY <1>31 DEF RecvFin, RecvPacket
<1>32. CASE RecvBroadcast
  BY <1>32 DEF RecvBroadcast
<1>33. CASE RecvLost
  BY <1>33 DEF RecvLost
<1>34. CASE SpuriousWakeup
  BY <1>34 DEF SpuriousWakeup
<1>35. CASE UNCHANGED vars
  BY <1>35 DEF vars
<1> QED
  BY <1>1, <1>2, <1>3, <1>4, <1>5, <1>6, <1>7, <1>8, <1>9, <1>10, <1>11,
     <1>12, <1>13, <1>14, <1>15, <1>16, <1>17, <1>18, <1>19, <1>20, <1>21,
     <1>22, <1>23, <1>24, <1>25, <1>26, <1>27, <1>28, <1>29, <1>30, <1>31,
     <1>32, <1>33, <1>34, <1>35 DEF Next, AppCall, AppStep, StcpStep,
     RecvRead, RecvStep, Terminated

----------------------------------------------------------------------------
(* Events and wakeups.                                                     *)

\* End of file is set on an end-of-file marker only.
LEMMA EofNext ==
  ASSUME 0 \notin ReadSizes, TypeOK, Phases, UpStream, FinIsLast,
         MarkersAtEnd, Reading, EofIsReal, [Next]_vars
  PROVE  EofIsReal'
<1> USE DEF TypeOK, QueuesTypeOK, EofIsReal, UpEnded
<1>1. CASE MyConnect
  BY <1>1 DEF MyConnect, Phases
<1>2. CASE WaitForConnection
  BY <1>2 DEF WaitForConnection
<1>3. ASSUME NEW n \in WriteSizes, MyWrite(n)
      PROVE  EofIsReal'
  BY <1>3 DEF MyWrite
<1>4. CASE WriteBroadcast
  BY <1>4 DEF WriteBroadcast
<1>5. ASSUME NEW n \in ReadSizes, MyRead(n)
      PROVE  EofIsReal'
  <2>1. /\ ReadDequeue(n) /\ ~eof /\ app_pc # "closed"
        /\ UNCHANGED << fin_received, stcp_pc, up >>
    BY <1>5 DEF MyRead, ReadDequeue, Reading
  <2>2. CASE eof' = eof
    BY <2>1, <2>2
  <2>3. CASE /\ app_send_queue # << >>
             /\ eof' = (Head(app_send_queue).len = 0)
             /\ got' = got + Head(app_send_queue).len
    <3>1. Head(app_send_queue).off = got
      BY <2>1, <2>3, NodeFields, ContiguousWhole DEF UpStream
    <3>2. Head(app_send_queue).len = 0 =>
            UpEnded /\ Head(app_send_queue).off = up
      BY <2>3, DequeueIndex DEF MarkersAtEnd
    <3>3. eof' => Head(app_send_queue).len = 0
      BY <2>3
    <3>4. Head(app_send_queue).len = 0 => got' = got
      BY <2>3
    <3> QED
      BY <2>1, <3>1, <3>2, <3>3, <3>4
  <2> QED
    BY <2>1, <2>2, <2>3 DEF ReadDequeue
<1>6. CASE ReadWake
  <2>1. /\ ReadDequeue(buf_len) /\ ~eof /\ app_pc # "closed"
        /\ UNCHANGED << fin_received, stcp_pc, up >>
    BY <1>6 DEF ReadWake, ReadDequeue, Reading
  <2>2. CASE eof' = eof
    BY <2>1, <2>2
  <2>3. CASE /\ app_send_queue # << >>
             /\ eof' = (Head(app_send_queue).len = 0)
             /\ got' = got + Head(app_send_queue).len
    <3>1. Head(app_send_queue).off = got
      BY <2>1, <2>3, NodeFields, ContiguousWhole DEF UpStream
    <3>2. Head(app_send_queue).len = 0 =>
            UpEnded /\ Head(app_send_queue).off = up
      BY <2>3, DequeueIndex DEF MarkersAtEnd
    <3>3. eof' => Head(app_send_queue).len = 0
      BY <2>3
    <3>4. Head(app_send_queue).len = 0 => got' = got
      BY <2>3
    <3> QED
      BY <2>1, <3>1, <3>2, <3>3, <3>4
  <2> QED
    BY <2>1, <2>2, <2>3 DEF ReadDequeue
<1>7. CASE ReadCopy
  BY <1>7 DEF ReadCopy, Reading
<1>8. CASE MyClose
  BY <1>8 DEF MyClose
<1>9. CASE CloseBroadcast
  BY <1>9 DEF CloseBroadcast
<1>10. CASE JoinTransport
  BY <1>10 DEF JoinTransport
<1>11. CASE JoinRecvAndFree
  BY <1>11 DEF JoinRecvAndFree
<1>12. ASSUME NEW e \in Errno, StcpUnblock(e)
       PROVE  EofIsReal'
  BY <1>12 DEF StcpUnblock, Unblock
<1>13. CASE StcpSignal
  BY <1>13 DEF StcpSignal
<1>14. ASSUME NEW call \in WaitCalls, StcpWait(call)
       PROVE  EofIsReal'
  BY <1>14 DEF StcpWait, CheckEvents
<1>15. CASE StcpWake
  BY <1>15 DEF StcpWake, CheckEvents
<1>16. CASE StcpTimeout
  BY <1>16 DEF StcpTimeout
<1>17. ASSUME NEW n \in RecvSizes, StcpAppRecv(n)
       PROVE  EofIsReal'
  BY <1>17 DEF StcpAppRecv, Handled
<1>18. CASE StcpAppCopy
  BY <1>18 DEF StcpAppCopy, Handled
<1>19. CASE StcpNetworkRecv
  <2> DEFINE p == Head(network_recv_queue)
  <2>1. /\ eof' = eof /\ got' = got /\ stcp_pc = "events"
        /\ fin_received => fin_received'
    BY <1>19 DEF StcpNetworkRecv
  <2>2. fin_received => p.len = 0 /\ ~p.fin
    BY <1>19, DequeueIndex DEF StcpNetworkRecv, FinIsLast, BareAck
  <2>3. ASSUME fin_received PROVE up' = up
    <3>1. ~p.fin /\ ~AppSends(p.len)
      BY <2>2, <2>3 DEF AppSends
    <3> QED
      BY <1>19, <3>1 DEF StcpNetworkRecv
  <2> HIDE DEF p
  <2> QED
    BY <2>1, <2>3
<1>20. CASE StcpUpBroadcast
  BY <1>20 DEF StcpUpBroadcast, Handled
<1>21. CASE StcpClose
  BY <1>21 DEF StcpClose, Handled
<1>22. CASE StcpReturn
  BY <1>22 DEF StcpReturn
<1>23. ASSUME NEW e \in Errno, StcpGiveUp(e)
       PROVE  EofIsReal'
  BY <1>23 DEF StcpGiveUp
<1>24. CASE StcpExit
  BY <1>24 DEF StcpExit
<1>25. CASE StcpExitUnblock
  BY <1>25 DEF StcpExitUnblock, Unblock
<1>26. CASE StcpEof
  BY <1>26 DEF StcpEof
<1>27. CASE StcpEofBroadcast
  BY <1>27 DEF StcpEofBroadcast
<1>28. CASE RecvExit
  BY <1>28 DEF RecvExit
<1>29. CASE RecvReadable
  BY <1>29 DEF RecvReadable
<1>30. ASSUME NEW n \in PacketSizes, RecvPacket(n, FALSE)
       PROVE  EofIsReal'
  BY <1>30 DEF RecvPacket
<1>31. CASE RecvFin
  BY <1>31 DEF RecvFin, RecvPacket
<1>32. CASE RecvBroadcast
  BY <1>32 DEF RecvBroadcast
<1>33. CASE RecvLost
  BY <1>33 DEF RecvLost
<1>34. CASE SpuriousWakeup
  BY <1>34 DEF SpuriousWakeup
<1>35. CASE UNCHANGED vars
  BY <1>35 DEF vars
<1> QED
  BY <1>1, <1>2, <1>3, <1>4, <1>5, <1>6, <1>7, <1>8, <1>9, <1>10, <1>11,
     <1>12, <1>13, <1>14, <1>15, <1>16, <1>17, <1>18, <1>19, <1>20, <1>21,
     <1>22, <1>23, <1>24, <1>25, <1>26, <1>27, <1>28, <1>29, <1>30, <1>31,
     <1>32, <1>33, <1>34, <1>35 DEF Next, AppCall, AppStep, StcpStep,
     RecvRead, RecvStep, Terminated

\* What an event in the result of stcp_wait_for_event() stands for.
LEMMA ReadyEventsMean ==
  ASSUME NEW flags
  PROVE  /\ "APP_DATA" \in ReadyEvents(flags) => app_recv_queue # << >>
         /\ "NETWORK_DATA" \in ReadyEvents(flags)
              => network_recv_queue # << >>
  BY DEF ReadyEvents

\* A queue with a node linked to it is not empty.
LEMMA EnqueueNonEmpty ==
  ASSUME NEW T, NEW q \in Seq(T), NEW node \in T
  PROVE  EnqueueBuffer(q, node) # << >>
<1>1. Len(EnqueueBuffer(q, node)) = Len(q) + 1 /\ Len(q) \in Nat
  BY DEF EnqueueBuffer
<1> QED
  BY <1>1

\* Only the transport thread can make a returned event untrue.
LEMMA EventsNext ==
  TypeOK /\ Phases /\ EventsAreReady /\ [Next]_vars => EventsAreReady'
<1> SUFFICES ASSUME TypeOK, Phases, EventsAreReady, [Next]_vars
             PROVE  EventsAreReady'
  OBVIOUS
<1> USE DEF TypeOK, QueuesTypeOK, EventsAreReady
<1>1. CASE MyConnect
  BY <1>1 DEF MyConnect
<1>2. CASE WaitForConnection
  BY <1>2 DEF WaitForConnection
<1>3. ASSUME NEW n \in WriteSizes, MyWrite(n)
      PROVE  EventsAreReady'
  <2>1. [off |-> written, len |-> n] \in Node
    BY SizesAssumption DEF Node
  <2> QED
    BY <1>3, <2>1, EnqueueNonEmpty DEF MyWrite
<1>4. CASE WriteBroadcast
  BY <1>4 DEF WriteBroadcast
<1>5. ASSUME NEW n \in ReadSizes, MyRead(n)
      PROVE  EventsAreReady'
  BY <1>5 DEF MyRead, ReadDequeue
<1>6. CASE ReadWake
  BY <1>6 DEF ReadWake, ReadDequeue
<1>7. CASE ReadCopy
  BY <1>7 DEF ReadCopy
<1>8. CASE MyClose
  BY <1>8 DEF MyClose
<1>9. CASE CloseBroadcast
  BY <1>9 DEF CloseBroadcast
<1>10. CASE JoinTransport
  BY <1>10 DEF JoinTransport
<1>11. CASE JoinRecvAndFree
  BY <1>11 DEF JoinRecvAndFree, Phases
<1>12. ASSUME NEW e \in Errno, StcpUnblock(e)
       PROVE  EventsAreReady'
  BY <1>12 DEF StcpUnblock, Unblock
<1>13. CASE StcpSignal
  BY <1>13 DEF StcpSignal
<1>14. ASSUME NEW call \in WaitCalls, StcpWait(call)
       PROVE  EventsAreReady'
  <2>1. /\ UNCHANGED << app_recv_queue, network_recv_queue >>
        /\ stcp_pc' # "events" \/ events' = ReadyEvents(call.flags)
        /\ stcp_pc' \in {"events", "wait"}
    BY <1>14 DEF StcpWait, CheckEvents
  <2> QED
    BY <2>1, ReadyEventsMean
<1>15. CASE StcpWake
  <2>1. /\ UNCHANGED << app_recv_queue, network_recv_queue >>
        /\ stcp_pc' # "events" \/ events' = ReadyEvents(wait_call.flags)
        /\ stcp_pc' \in {"events", "wait"}
    BY <1>15 DEF StcpWake, CheckEvents
  <2> QED
    BY <2>1, ReadyEventsMean
<1>16. CASE StcpTimeout
  BY <1>16 DEF StcpTimeout
<1>17. ASSUME NEW n \in RecvSizes, StcpAppRecv(n)
       PROVE  EventsAreReady'
  BY <1>17 DEF StcpAppRecv, Handled
<1>18. CASE StcpAppCopy
  BY <1>18 DEF StcpAppCopy, Handled
<1>19. CASE StcpNetworkRecv
  BY <1>19 DEF StcpNetworkRecv, Handled
<1>20. CASE StcpUpBroadcast
  BY <1>20 DEF StcpUpBroadcast, Handled
<1>21. CASE StcpClose
  BY <1>21 DEF StcpClose, Handled
<1>22. CASE StcpReturn
  BY <1>22 DEF StcpReturn
<1>23. ASSUME NEW e \in Errno, StcpGiveUp(e)
       PROVE  EventsAreReady'
  BY <1>23 DEF StcpGiveUp
<1>24. CASE StcpExit
  BY <1>24 DEF StcpExit
<1>25. CASE StcpExitUnblock
  BY <1>25 DEF StcpExitUnblock, Unblock
<1>26. CASE StcpEof
  BY <1>26 DEF StcpEof
<1>27. CASE StcpEofBroadcast
  BY <1>27 DEF StcpEofBroadcast
<1>28. CASE RecvExit
  BY <1>28 DEF RecvExit
<1>29. CASE RecvReadable
  BY <1>29 DEF RecvReadable
<1>30. ASSUME NEW n \in PacketSizes, RecvPacket(n, FALSE)
       PROVE  EventsAreReady'
  <2>1. [off |-> peer_sent, len |-> n, fin |-> FALSE] \in Packet
    BY SizesAssumption DEF Packet
  <2> QED
    BY <1>30, <2>1, EnqueueNonEmpty DEF RecvPacket
<1>31. CASE RecvFin
  <2>1. [off |-> peer_sent, len |-> 0, fin |-> TRUE] \in Packet
    BY SizesAssumption DEF Packet
  <2> QED
    BY <1>31, <2>1, EnqueueNonEmpty DEF RecvFin, RecvPacket
<1>32. CASE RecvBroadcast
  BY <1>32 DEF RecvBroadcast
<1>33. CASE RecvLost
  BY <1>33 DEF RecvLost
<1>34. CASE SpuriousWakeup
  BY <1>34 DEF SpuriousWakeup
<1>35. CASE UNCHANGED vars
  BY <1>35 DEF vars
<1> QED
  BY <1>1, <1>2, <1>3, <1>4, <1>5, <1>6, <1>7, <1>8, <1>9, <1>10, <1>11,
     <1>12, <1>13, <1>14, <1>15, <1>16, <1>17, <1>18, <1>19, <1>20, <1>21,
     <1>22, <1>23, <1>24, <1>25, <1>26, <1>27, <1>28, <1>29, <1>30, <1>31,
     <1>32, <1>33, <1>34, <1>35 DEF Next, AppCall, AppStep, StcpStep,
     RecvRead, RecvStep, Terminated

\* What a thread waits for comes true only in a step after which another
\* thread is about to signal.
LEMMA WakeupNext ==
  TypeOK /\ Phases /\ NoLostWakeup /\ [Next]_vars => NoLostWakeup'
<1> SUFFICES ASSUME TypeOK, Phases, NoLostWakeup, [Next]_vars
             PROVE  NoLostWakeup'
  OBVIOUS
<1> USE DEF TypeOK, WaitersTypeOK, NoLostWakeup, ReadyEvents
<1>1. CASE MyConnect
  BY <1>1 DEF MyConnect, Phases
<1>2. CASE WaitForConnection
  BY <1>2 DEF WaitForConnection, Phases
<1>3. ASSUME NEW n \in WriteSizes, MyWrite(n)
      PROVE  NoLostWakeup'
  BY <1>3 DEF MyWrite, Phases
<1>4. CASE WriteBroadcast
  BY <1>4 DEF WriteBroadcast, Phases
<1>5. ASSUME NEW n \in ReadSizes, MyRead(n)
      PROVE  NoLostWakeup'
  BY <1>5 DEF MyRead, ReadDequeue, Phases
<1>6. CASE ReadWake
  BY <1>6 DEF ReadWake, ReadDequeue, Phases
<1>7. CASE ReadCopy
  BY <1>7 DEF ReadCopy, Phases
<1>8. CASE MyClose
  BY <1>8 DEF MyClose, Phases
<1>9. CASE CloseBroadcast
  BY <1>9 DEF CloseBroadcast, Phases
<1>10. CASE JoinTransport
  BY <1>10 DEF JoinTransport, Phases
<1>11. CASE JoinRecvAndFree
  BY <1>11 DEF JoinRecvAndFree, Phases
<1>12. ASSUME NEW e \in Errno, StcpUnblock(e)
       PROVE  NoLostWakeup'
  BY <1>12 DEF StcpUnblock, Unblock, Phases
<1>13. CASE StcpSignal
  BY <1>13 DEF StcpSignal, Phases
<1>14. ASSUME NEW call \in WaitCalls, StcpWait(call)
       PROVE  NoLostWakeup'
  BY <1>14 DEF StcpWait, CheckEvents, Phases
<1>15. CASE StcpWake
  BY <1>15 DEF StcpWake, CheckEvents, Phases
<1>16. CASE StcpTimeout
  BY <1>16 DEF StcpTimeout, Phases
<1>17. ASSUME NEW n \in RecvSizes, StcpAppRecv(n)
       PROVE  NoLostWakeup'
  BY <1>17 DEF StcpAppRecv, Handled, Phases
<1>18. CASE StcpAppCopy
  BY <1>18 DEF StcpAppCopy, Handled, Phases
<1>19. CASE StcpNetworkRecv
  BY <1>19 DEF StcpNetworkRecv, Handled, Phases
<1>20. CASE StcpUpBroadcast
  BY <1>20 DEF StcpUpBroadcast, Handled, Phases
<1>21. CASE StcpClose
  BY <1>21 DEF StcpClose, Handled, Phases
<1>22. CASE StcpReturn
  BY <1>22 DEF StcpReturn, Phases
<1>23. ASSUME NEW e \in Errno, StcpGiveUp(e)
       PROVE  NoLostWakeup'
  BY <1>23 DEF StcpGiveUp, Phases
<1>24. CASE StcpExit
  BY <1>24 DEF StcpExit, Phases
<1>25. CASE StcpExitUnblock
  BY <1>25 DEF StcpExitUnblock, Unblock, Phases
<1>26. CASE StcpEof
  BY <1>26 DEF StcpEof, Phases
<1>27. CASE StcpEofBroadcast
  BY <1>27 DEF StcpEofBroadcast, Phases
<1>28. CASE RecvExit
  BY <1>28 DEF RecvExit, Phases
<1>29. CASE RecvReadable
  BY <1>29 DEF RecvReadable, Phases
<1>30. ASSUME NEW n \in PacketSizes, RecvPacket(n, FALSE)
       PROVE  NoLostWakeup'
  BY <1>30 DEF RecvPacket, Phases
<1>31. CASE RecvFin
  BY <1>31 DEF RecvFin, RecvPacket, Phases
<1>32. CASE RecvBroadcast
  BY <1>32 DEF RecvBroadcast, Phases
<1>33. CASE RecvLost
  BY <1>33 DEF RecvLost, Phases
<1>34. CASE SpuriousWakeup
  BY <1>34 DEF SpuriousWakeup, Phases
<1>35. CASE UNCHANGED vars
  BY <1>35 DEF vars, Phases
<1> QED
  BY <1>1, <1>2, <1>3, <1>4, <1>5, <1>6, <1>7, <1>8, <1>9, <1>10, <1>11,
     <1>12, <1>13, <1>14, <1>15, <1>16, <1>17, <1>18, <1>19, <1>20, <1>21,
     <1>22, <1>23, <1>24, <1>25, <1>26, <1>27, <1>28, <1>29, <1>30, <1>31,
     <1>32, <1>33, <1>34, <1>35 DEF Next, AppCall, AppStep, StcpStep,
     RecvRead, RecvStep, Terminated

----------------------------------------------------------------------------
(* The safety theorems.                                                    *)

LEMMA InvInit == Init => Inv
<1> SUFFICES ASSUME Init PROVE Inv
  OBVIOUS
<1> USE DEF Init
<1>1. TypeOK
  <2>1. ThreadsTypeOK
    BY DEF ThreadsTypeOK, AppPc, StcpPc, RecvPc, Errno
  <2>2. WaitersTypeOK
    BY DEF WaitersTypeOK
  <2>3. FlagsTypeOK
    BY DEF FlagsTypeOK
  <2>4. QueuesTypeOK
    BY DEF QueuesTypeOK
  <2> QED
    BY <2>1, <2>2, <2>3, <2>4 DEF TypeOK
<1>2. CopiesSafely /\ Phases /\ Outcome /\ CloseOnce /\ Reading
  BY DEF CopiesSafely, Phases, Outcome, CloseOnce, Reading
<1>3. DownStream /\ UpStream /\ FinIsLast /\ MarkersAtEnd
  BY DEF DownStream, UpStream, FinIsLast, MarkersAtEnd, Contiguous
<1>4. EventsAreReady /\ NoLostWakeup
  BY DEF EventsAreReady, NoLostWakeup
<1> QED
  BY <1>1, <1>2, <1>3, <1>4 DEF Inv

LEMMA InvNext == Inv /\ [Next]_vars => Inv'
  BY TypeNext, CopiesNext, PhasesNext, OutcomeNext, DownStreamNext,
     UpStreamNext, CloseOnceNext, FinIsLastNext, MarkersAtEndNext,
     ReadingNext, EventsNext, WakeupNext DEF Inv

\* The inductive invariant holds in every reachable state.
THEOREM Invariance == Spec => []Inv
  BY InvInit, InvNext, PTL DEF Spec

\* The mysocket context and the threads' local state keep their types.
THEOREM TypeCorrect == Spec => []TypeOK
<1>1. Inv => TypeOK
  BY DEF Inv
<1> QED
  BY <1>1, Invariance, PTL

\* The bytes of mywrite() reach the transport layer in order, each once.
THEOREM DownStreamCorrect == Spec => []DownStream
<1>1. Inv => DownStream
  BY DEF Inv
<1> QED
  BY <1>1, Invariance, PTL

\* The peer's bytes reach myread() in order, each once.
THEOREM UpStreamCorrect == Spec => []UpStream
<1>1. Inv => UpStream
  BY DEF Inv
<1> QED
  BY <1>1, Invariance, PTL

\* The close request reaches the transport layer once, after all data.
THEOREM CloseCorrect == Spec => []CloseAfterData
<1>1. Inv => CloseAfterData
  BY DEF Inv, CloseOnce, CloseAfterData
<1> QED
  BY <1>1, Invariance, PTL

\* myconnect() returns what the transport layer announced.
THEOREM OutcomeCorrect == Spec => []OutcomeReported
<1>1. Inv => OutcomeReported
  BY DEF Inv, Outcome, OutcomeReported
<1> QED
  BY <1>1, Invariance, PTL

\* The context is freed when nobody uses it any more.
THEOREM ContextSafe == Spec => []NoUseAfterFree
<1>1. Inv => NoUseAfterFree
  BY DEF Inv, TypeOK, WaitersTypeOK, Phases, NoUseAfterFree
<1> QED
  BY <1>1, Invariance, PTL

\* The transport layer never blocks on an event it was told of.
THEOREM EventsCorrect == Spec => []EventsAreReady
<1>1. Inv => EventsAreReady
  BY DEF Inv
<1> QED
  BY <1>1, Invariance, PTL

\* Signalling after the unlock loses no wakeup.
THEOREM WakeupsCorrect == Spec => []NoLostWakeup
<1>1. Inv => NoLostWakeup
  BY DEF Inv
<1> QED
  BY <1>1, Invariance, PTL

\* If no myread() asks for zero bytes, end of file means the end.
THEOREM EofCorrect == ASSUME 0 \notin ReadSizes PROVE Spec => []EofIsReal
<1>1. Init => EofIsReal
  BY DEF Init, EofIsReal
<1>2. Inv /\ EofIsReal /\ [Next]_vars => EofIsReal'
  BY EofNext DEF Inv
<1> QED
  BY <1>1, <1>2, Invariance, PTL DEF Spec

============================================================================

------------------------- MODULE ListenQueueProofs -------------------------
(***************************************************************************)
(* Proofs about the queue of a listening mysocket, for any backlog, any    *)
(* number of application threads, peers and descriptors.                   *)
(***************************************************************************)
EXTENDS ListenQueue, FiniteSetTheorems, WellFoundedInduction, TLAPS

----------------------------------------------------------------------------
(* The inductive invariant.                                                *)

\* The descriptors that connections can have.
ConnSds == Sds \ {ListenSd}

\* The transport thread has put its connection on completed_queue.
Done == {"signal", "run", "end"}

\* Acceptor a holds connection_lock and a request that it has taken.
Taking(a) == app_pc[a] \in {"zeroed", "load", "dec"}

\* A slot holds a connection, or nothing, or is being cleared by the one
\* thread that made it so.
SlotsKept ==
  /\ \A k \in Slots : \/ connection_queue[k] \in {Empty, Zeroed}
                      \/ /\ connection_queue[k].sd \in ConnSds
                         /\ stcp_pc[connection_queue[k].sd] # "none"
  /\ \A j, k \in Slots : connection_queue[j].sd = connection_queue[k].sd
                           /\ connection_queue[k].sd \in ConnSds => j = k
  /\ \A k \in Slots : connection_queue[k] = Zeroed =>
       \/ recv_pc = "clear" /\ queue_entry = k
       \/ \E a \in Acceptors : app_pc[a] = "zeroed" /\ request[a].slot = k

\* What a myaccept() that is returning has taken.
Requests ==
  /\ \A a \in Acceptors :
       IF Taking(a) THEN /\ request[a].slot \in Slots /\ request[a].sd \in ConnSds
                         /\ stcp_pc[request[a].sd] \in Done
       ELSE request[a].sd = -1
  /\ \A a, b \in Acceptors : Taking(a) /\ Taking(b) => a = b
  /\ \A a \in Acceptors : app_pc[a] = "zeroed" =>
       /\ connection_queue[request[a].slot] = Zeroed
       /\ recv_pc = "clear" => request[a].slot # queue_entry

\* The slot and the TCP socket that the receive thread is working on.
Reception ==
  /\ recv_pc \in {"load", "incr", "create", "clear", "decr"} =>
       queue_entry \in Slots
  /\ recv_pc \in {"load", "incr", "create"} =>
       connection_queue[queue_entry] = Empty
  /\ recv_pc = "clear" => connection_queue[queue_entry] = Zeroed
  /\ recv_pc \notin {"poll", "enqueue", "end"} => new_socket # 0

\* A connection is in the queue until its outcome is announced.
Transport ==
  /\ stcp_pc[ListenSd] = "none"
  /\ \A sd \in Sds : stcp_pc[sd] \in {"init", "complete", "append"} =>
       \E k \in Slots : connection_queue[k].sd = sd
  /\ \A sd \in Sds : stcp_pc[sd] = "append" =>
       /\ connection_req[sd] \in Slots
       /\ connection_queue[connection_req[sd]].sd = sd

\* The list of completed connections.
Completion ==
  /\ \A i, j \in 1 .. Len(completed_queue) :
       completed_queue[i] = completed_queue[j] => i = j
  /\ main_pc # "close_queued" =>
       \A i \in 1 .. Len(completed_queue) :
         /\ connection_queue[completed_queue[i]].sd \in ConnSds
         /\ stcp_pc[connection_queue[completed_queue[i]].sd] \in Done

\* myclose() on the listening mysocket has joined the receive thread, and has
\* listen_lock for itself.
Closing ==
  /\ main_pc \in {"wrlock", "close_queued", "closed"} => recv_pc = "end"
  /\ main_pc \in {"close_queued", "closed"} =>
       /\ \A a \in Acceptors : app_pc[a] = "idle"
       /\ \A sd \in Sds : stcp_pc[sd] \notin {"append", "signal"}
  /\ main_pc = "closed" => UsedSlots = {}

\* Who has a connection: the queue, one myaccept() or the application, or
\* nobody if its handshake failed.
Ownership ==
  /\ held \subseteq ConnSds
  /\ \A sd \in held : stcp_pc[sd] \in Done
  /\ \A k \in Slots : connection_queue[k].sd \notin held
  /\ \A k \in Slots, a \in Acceptors :
       Taking(a) => connection_queue[k].sd # request[a].sd
  /\ \A a \in Acceptors : request[a].sd \notin held
  /\ \A sd \in Sds : stcp_pc[sd] # "none" =>
       \/ \E k \in Slots : connection_queue[k].sd = sd
       \/ \E a \in Acceptors : request[a].sd = sd
       \/ sd \in held \/ failed[sd]

\* Where a TCP socket is.
SocketPlaces ==
  /\ \A sd \in Sds : stcp_pc[sd] = "none" <=> sock[sd] = 0
  /\ \A c, d \in Sds : sock[c] = sock[d] /\ sock[d] # 0 => c = d
  /\ \A sd \in Sds : sock[sd] # 0 =>
       /\ sock[sd] # new_socket /\ sock[sd] \notin released
       /\ \A j \in 1 .. Len(tcp_backlog) : tcp_backlog[j] # sock[sd]
  /\ new_socket # 0 =>
       /\ new_socket \notin released
       /\ \A j \in 1 .. Len(tcp_backlog) : tcp_backlog[j] # new_socket
  /\ \A i, j \in 1 .. Len(tcp_backlog) : tcp_backlog[i] = tcp_backlog[j] => i = j
  /\ \A j \in 1 .. Len(tcp_backlog) : tcp_backlog[j] \notin released
  /\ \A i \in 1 .. Len(attempts) :
       \/ \E sd \in Sds : sock[sd] = i
       \/ new_socket = i \/ i \in released
       \/ \E j \in 1 .. Len(tcp_backlog) : tcp_backlog[j] = i

\* Threads in pthread_cond_wait(), and those that will look at the list.
Waiting ==
  /\ \A a \in connection_cond : app_pc[a] = "wait"
  /\ NoLostAccept

IInv ==
  /\ TypeOK /\ SlotsKept /\ Requests /\ Reception /\ Transport /\ Completion
  /\ Closing /\ Ownership /\ SocketPlaces /\ Waiting /\ SearchesSucceed

----------------------------------------------------------------------------
(* Searches and counting.                                                  *)

\* A search that finds something finds a first one.
LEMMA MinIn ==
  ASSUME NEW S, S \subseteq Nat, S # {}
  PROVE  Min(S) \in S
<1> DEFINE R == OpToRel(<, Nat)
<1>1. \E x \in S : \A y \in S : ~(<< y, x >> \in R)
  BY NatLessThanWellFounded, WFMin
<1>2. \A x, y \in Nat : << y, x >> \in R <=> y < x
  BY DEF OpToRel
<1> HIDE DEF R
<1>3. \E x \in S : \A y \in S : x =< y
  <2>1. PICK x \in S : \A y \in S : ~(<< y, x >> \in R)
    BY <1>1
  <2>2. \A y \in S : ~(y < x)
    BY <1>2, <2>1
  <2>3. \A y \in S : x =< y
    BY <2>2
  <2> QED BY <2>3
<1> QED BY <1>3 DEF Min

\* unsigned int arithmetic stays in range.
LEMMA CountRange ==
  ASSUME NEW n \in 0 .. MaxUInt
  PROVE  Inc(n) \in 0 .. MaxUInt /\ Dec(n) \in 0 .. MaxUInt
  BY ListenAssumption DEF Inc, Dec

\* Adding to, and taking from, a finite set.
LEMMA CardAdd ==
  ASSUME NEW S, NEW T, NEW x, IsFiniteSet(S), T = S \cup {x}, x \notin S
  PROVE  IsFiniteSet(T) /\ Cardinality(T) = Cardinality(S) + 1
  BY FS_AddElement

LEMMA CardOne ==
  ASSUME NEW S, NEW x, S = {x}
  PROVE  IsFiniteSet(S) /\ Cardinality(S) = 1
  BY FS_Singleton

LEMMA CardNone ==
  ASSUME NEW S, S = {}
  PROVE  IsFiniteSet(S) /\ Cardinality(S) = 0
  BY FS_EmptySet

----------------------------------------------------------------------------
(* What a step leaves alone keeps its part of the invariant.               *)

LEMMA Kept ==
  ASSUME IInv
  PROVE  /\ UNCHANGED << connection_queue, stcp_pc, recv_pc, queue_entry, app_pc,
                         request >> => SlotsKept' /\ Requests'
         /\ UNCHANGED << recv_pc, queue_entry, connection_queue, new_socket >> =>
              Reception'
         /\ UNCHANGED << stcp_pc, connection_queue, connection_req >> => Transport'
         /\ UNCHANGED << completed_queue, main_pc, connection_queue, stcp_pc >> =>
              Completion'
         /\ UNCHANGED << main_pc, recv_pc, app_pc, stcp_pc, connection_queue >> =>
              Closing'
         /\ UNCHANGED << held, stcp_pc, connection_queue, app_pc, request,
                         failed >> => Ownership'
         /\ UNCHANGED << stcp_pc, sock, new_socket, released, tcp_backlog,
                         attempts >> => SocketPlaces'
         /\ UNCHANGED << connection_cond, app_pc, completed_queue, stcp_pc >> =>
              Waiting'
         /\ UNCHANGED aborted => SearchesSucceed'
<1>1. UNCHANGED << connection_queue, stcp_pc, recv_pc, queue_entry, app_pc,
                   request >> => SlotsKept' /\ Requests'
  BY DEF IInv, SlotsKept, Requests, Taking
<1>2. UNCHANGED << recv_pc, queue_entry, connection_queue, new_socket >> =>
        Reception'
  BY DEF IInv, Reception
<1>3. UNCHANGED << stcp_pc, connection_queue, connection_req >> => Transport'
  BY DEF IInv, Transport
<1>4. UNCHANGED << completed_queue, main_pc, connection_queue, stcp_pc >> =>
        Completion'
  BY DEF IInv, Completion
<1>5. UNCHANGED << main_pc, recv_pc, app_pc, stcp_pc, connection_queue >> =>
        Closing'
  BY DEF IInv, Closing, UsedSlots
<1>6. UNCHANGED << held, stcp_pc, connection_queue, app_pc, request, failed >> =>
        Ownership'
  BY DEF IInv, Ownership, Taking
<1>7. UNCHANGED << stcp_pc, sock, new_socket, released, tcp_backlog, attempts >> =>
        SocketPlaces'
  BY DEF IInv, SocketPlaces
<1>8. UNCHANGED << connection_cond, app_pc, completed_queue, stcp_pc >> =>
        Waiting'
  BY DEF IInv, Waiting, NoLostAccept
<1>9. UNCHANGED aborted => SearchesSucceed'
  BY DEF IInv, SearchesSucceed
<1> QED BY <1>1, <1>2, <1>3, <1>4, <1>5, <1>6, <1>7, <1>8, <1>9

\* A failed assertion of the two that the invariant allows for stops all.
LEMMA AbortStep ==
  ASSUME IInv, NEW why \in {"cur_len", "new_socket", "queue_entry",
                            "peer_addr_len"}, Abort(why)
  PROVE  IInv'
<1> USE DEF queueVars, appVars, recvVars, tcpVars, stcpVars
<1>1. SearchesSucceed' /\ aborted' \in {"no", "new_ctx", "cur_len", "new_socket",
                                        "queue_entry", "connection_req",
                                        "peer_addr_len"}
  BY DEF Abort, SearchesSucceed
<1>2. TypeOK'
  BY <1>1 DEF Abort, IInv, TypeOK
<1>3. /\ SlotsKept' /\ Requests' /\ Reception' /\ Transport' /\ Completion'
      /\ Closing' /\ Ownership' /\ SocketPlaces' /\ Waiting'
  BY Kept DEF Abort
<1> QED BY <1>1, <1>2, <1>3 DEF IInv

\* A step of the receive thread that is not about a slot being cleared.
LEMMA RecvKept ==
  ASSUME IInv, UNCHANGED << connection_queue, completed_queue, connection_cond,
                            appVars, main_pc, stcpVars, aborted >>,
         recv_pc # "clear", recv_pc' # "clear", recv_pc # "end"
  PROVE  /\ SlotsKept' /\ Requests' /\ Transport' /\ Completion' /\ Closing'
         /\ Ownership' /\ Waiting' /\ SearchesSucceed'
<1> USE DEF appVars, stcpVars
<1>1. SlotsKept'
  BY DEF IInv, SlotsKept
<1>2. Requests'
  BY DEF IInv, Requests, Taking
<1>3. Closing'
  BY DEF IInv, Closing, UsedSlots
<1>4. Transport' /\ Completion' /\ Ownership' /\ Waiting' /\ SearchesSucceed'
  BY Kept
<1> QED BY <1>1, <1>2, <1>3, <1>4

LEMMA RecvPacketStep ==
  ASSUME IInv, NEW syn, RecvPacket(syn) \/ RecvLost \/ EnqueueSyn \/ RecvExit
  PROVE  IInv'
<1> USE DEF queueVars, appVars, tcpVars, stcpVars
<1>1. /\ recv_pc \in {"read", "poll", "enqueue"}
      /\ recv_pc' \in {"demux", "poll", "end"}
      /\ recv_pc' = "demux" => recv_pc = "read"
      /\ UNCHANGED << connection_queue, completed_queue, connection_cond, cur_len,
                      appVars, main_pc, stcpVars, aborted, queue_entry, recv_reg,
                      exit_pipe, tcpVars >>
  BY DEF RecvPacket, RecvLost, EnqueueSyn, RecvExit
<1>2. /\ SlotsKept' /\ Requests' /\ Transport' /\ Completion' /\ Closing'
      /\ Ownership' /\ Waiting' /\ SearchesSucceed'
  BY <1>1, RecvKept
<1>3. TypeOK'
  BY <1>1 DEF IInv, TypeOK
<1>4. Reception'
  BY <1>1 DEF IInv, Reception
<1>5. SocketPlaces'
  BY <1>1, Kept
<1> QED BY <1>2, <1>3, <1>4, <1>5 DEF IInv

LEMMA LoadToIncrementStep == ASSUME IInv, LoadToIncrement PROVE IInv'
<1> USE DEF queueVars, appVars, tcpVars, stcpVars
<1>1. /\ recv_pc = "load" /\ recv_pc' = "incr" /\ recv_reg' = cur_len
      /\ UNCHANGED << connection_queue, completed_queue, connection_cond, cur_len,
                      appVars, main_pc, stcpVars, aborted, queue_entry,
                      exit_pipe, tcpVars >>
  BY DEF LoadToIncrement
<1>2. /\ SlotsKept' /\ Requests' /\ Transport' /\ Completion' /\ Closing'
      /\ Ownership' /\ Waiting' /\ SearchesSucceed'
  BY <1>1, RecvKept
<1>3. TypeOK'
  BY <1>1 DEF IInv, TypeOK
<1>4. Reception'
  BY <1>1 DEF IInv, Reception
<1>5. SocketPlaces'
  BY <1>1, Kept
<1> QED BY <1>2, <1>3, <1>4, <1>5 DEF IInv

LEMMA IncrementStep == ASSUME IInv, Increment PROVE IInv'
<1> USE DEF queueVars, appVars, tcpVars, stcpVars
<1>1. /\ recv_pc = "incr" /\ recv_pc' = "create" /\ cur_len' = Inc(recv_reg)
      /\ recv_reg' = 0
      /\ UNCHANGED << connection_queue, completed_queue, connection_cond,
                      appVars, main_pc, stcpVars, aborted, queue_entry,
                      exit_pipe, tcpVars >>
  BY DEF Increment
<1>2. /\ SlotsKept' /\ Requests' /\ Transport' /\ Completion' /\ Closing'
      /\ Ownership' /\ Waiting' /\ SearchesSucceed'
  BY <1>1, RecvKept
<1>3. TypeOK'
  <2>1. cur_len' \in 0 .. MaxUInt /\ recv_reg' \in 0 .. MaxUInt
    BY <1>1, CountRange, ListenAssumption DEF IInv, TypeOK
  <2> QED BY <1>1, <2>1 DEF IInv, TypeOK
<1>4. Reception'
  BY <1>1 DEF IInv, Reception
<1>5. SocketPlaces'
  BY <1>1, Kept
<1> QED BY <1>2, <1>3, <1>4, <1>5 DEF IInv

LEMMA UncountStep == ASSUME IInv, Uncount PROVE IInv'
<1> USE DEF queueVars, appVars, tcpVars, stcpVars
<1>1. /\ recv_pc = "decr" /\ recv_pc' = "poll" /\ cur_len' = Dec(recv_reg)
      /\ recv_reg' = 0 /\ queue_entry' = 0
      /\ UNCHANGED << connection_queue, completed_queue, connection_cond,
                      appVars, main_pc, stcpVars, aborted, exit_pipe, tcpVars >>
  BY DEF Uncount
<1>2. /\ SlotsKept' /\ Requests' /\ Transport' /\ Completion' /\ Closing'
      /\ Ownership' /\ Waiting' /\ SearchesSucceed'
  BY <1>1, RecvKept
<1>3. TypeOK'
  <2>1. cur_len' \in 0 .. MaxUInt /\ recv_reg' \in 0 .. MaxUInt
    BY <1>1, CountRange, ListenAssumption DEF IInv, TypeOK
  <2> QED BY <1>1, <2>1 DEF IInv, TypeOK
<1>4. Reception'
  BY <1>1 DEF IInv, Reception
<1>5. SocketPlaces'
  BY <1>1, Kept
<1> QED BY <1>2, <1>3, <1>4, <1>5 DEF IInv

\* The queue of TCP connections, and taking the first off it.
LEMMA TakeFirst ==
  ASSUME NEW A, NEW q \in Seq(A), q # << >>
  PROVE  /\ Tail(q) \in Seq(A) /\ Len(Tail(q)) = Len(q) - 1 /\ Len(q) \in Nat
         /\ Head(q) = q[1] /\ Head(q) \in A /\ 1 \in 1 .. Len(q)
         /\ \A i \in 1 .. Len(Tail(q)) :
              Tail(q)[i] = q[i + 1] /\ i + 1 \in 1 .. Len(q)
         /\ \A i \in 1 .. Len(q) :
              i = 1 \/ (i - 1 \in 1 .. Len(Tail(q)) /\ q[i] = Tail(q)[i - 1])
  OBVIOUS

LEMMA RecvAcceptStep == ASSUME IInv, RecvAccept PROVE IInv'
<1> USE DEF queueVars, appVars, stcpVars
<1>1. CASE new_socket # 0 /\ Abort("new_socket")
  BY <1>1, AbortStep
<1>2. CASE /\ new_socket = 0
           /\ new_socket' = Head(tcp_backlog) /\ tcp_backlog' = Tail(tcp_backlog)
           /\ recv_pc' = "read"
           /\ UNCHANGED << queueVars, appVars, main_pc, queue_entry, recv_reg,
                           exit_pipe, attempts, released, stcpVars, aborted >>
  <2>0. recv_pc = "poll" /\ tcp_backlog # << >>
    BY DEF RecvAccept
  <2>1. /\ SlotsKept' /\ Requests' /\ Transport' /\ Completion' /\ Closing'
        /\ Ownership' /\ Waiting' /\ SearchesSucceed'
    BY <1>2, <2>0, RecvKept
  <2> DEFINE B == 1 .. Len(attempts)
             q == tcp_backlog
             t == Tail(q)
  <2>2. q \in Seq(B) /\ attempts \in Seq(Peers) /\ released \subseteq 0 .. Len(attempts)
    BY DEF IInv, TypeOK
  <2>3. /\ t \in Seq(B) /\ Len(t) = Len(q) - 1 /\ Len(q) \in Nat
        /\ Head(q) = q[1] /\ Head(q) \in B /\ 1 \in 1 .. Len(q)
        /\ \A i \in 1 .. Len(t) : t[i] = q[i + 1] /\ i + 1 \in 1 .. Len(q)
        /\ \A i \in 1 .. Len(q) :
             i = 1 \/ (i - 1 \in 1 .. Len(t) /\ q[i] = t[i - 1])
    <3> HIDE DEF B
    <3> QED BY <2>0, <2>2, TakeFirst
  <2>4. new_socket' \in 1 .. Len(attempts)
    BY <1>2, <2>3
  <2>5. TypeOK'
    <3>1. new_socket' \in 0 .. Len(attempts) /\ tcp_backlog' \in Seq(B)
      BY <1>2, <2>2, <2>3, <2>4
    <3> QED BY <1>2, <3>1 DEF IInv, TypeOK
  <2>6. Reception'
    BY <1>2, <2>4 DEF Reception
  <2>7. SocketPlaces'
    <3> HIDE DEF t
    <3>1. tcp_backlog' = t /\ new_socket' = q[1] /\ q[1] # 0
      BY <1>2, <2>2, <2>3, <2>4 DEF t
    <3>2. ASSUME NEW j \in 1 .. Len(t)
          PROVE  /\ \E i \in 1 .. Len(q) : i # 1 /\ t[j] = q[i]
                 /\ t[j] # q[1] /\ t[j] \notin released
                 /\ \A sd \in Sds : sock[sd] # 0 => t[j] # sock[sd]
      <4>1. j + 1 \in 1 .. Len(q) /\ j + 1 # 1 /\ t[j] = q[j + 1]
        BY <2>3
      <4>2. q[j + 1] # q[1] /\ q[j + 1] \notin released
        BY <2>3, <4>1 DEF IInv, SocketPlaces
      <4>3. \A sd \in Sds : sock[sd] # 0 => q[j + 1] # sock[sd]
        BY <4>1 DEF IInv, SocketPlaces
      <4> QED BY <4>1, <4>2, <4>3
    <3>3. q[1] \notin released /\ \A sd \in Sds : sock[sd] # 0 => sock[sd] # q[1]
      BY <2>3 DEF IInv, SocketPlaces
    <3>4. ASSUME NEW i \in 1 .. Len(t), NEW j \in 1 .. Len(t), t[i] = t[j]
          PROVE  i = j
      <4>1. /\ i + 1 \in 1 .. Len(q) /\ j + 1 \in 1 .. Len(q)
            /\ q[i + 1] = q[j + 1]
        BY <2>3, <3>4
      <4>2. i + 1 = j + 1
        BY <4>1 DEF IInv, SocketPlaces
      <4> QED BY <4>2
    <3>5. ASSUME NEW i \in 1 .. Len(attempts)
          PROVE  \/ \E sd \in Sds : sock[sd] = i
                 \/ q[1] = i \/ i \in released
                 \/ \E j \in 1 .. Len(t) : t[j] = i
      <4>1. \/ \E sd \in Sds : sock[sd] = i
            \/ new_socket = i \/ i \in released
            \/ \E j \in 1 .. Len(q) : q[j] = i
        BY DEF IInv, SocketPlaces
      <4>2. new_socket # i
        BY <1>2, <2>2
      <4>3. (\E j \in 1 .. Len(q) : q[j] = i) =>
              q[1] = i \/ \E j \in 1 .. Len(t) : t[j] = i
        BY <2>3
      <4> QED BY <4>1, <4>2, <4>3
    <3>6. /\ \A sd \in Sds : stcp_pc[sd] = "none" <=> sock[sd] = 0
          /\ \A c, d \in Sds : sock[c] = sock[d] /\ sock[d] # 0 => c = d
          /\ \A sd \in Sds : sock[sd] # 0 => sock[sd] \notin released
      BY DEF IInv, SocketPlaces
    <3>7. UNCHANGED << stcp_pc, sock, released, attempts >>
      BY <1>2
    <3> HIDE DEF q
    <3> QED BY <3>1, <3>2, <3>3, <3>4, <3>5, <3>6, <3>7 DEF SocketPlaces
  <2> QED BY <2>1, <2>5, <2>6, <2>7 DEF IInv
<1> QED BY <1>1, <1>2 DEF RecvAccept

LEMMA DemuxStep == ASSUME IInv, Demux PROVE IInv'
<1> USE DEF queueVars, appVars, tcpVars, stcpVars
<1>1. ASSUME NEW why \in {"peer_addr_len", "queue_entry"}, Abort(why) PROVE IInv'
  BY <1>1, AbortStep
<1>2. CASE /\ recv_pc' = "poll"
           /\ UNCHANGED << queueVars, appVars, main_pc, queue_entry, recv_reg,
                           exit_pipe, tcpVars, stcpVars, aborted >>
  <2>1. /\ SlotsKept' /\ Requests' /\ Transport' /\ Completion' /\ Closing'
        /\ Ownership' /\ Waiting' /\ SearchesSucceed'
    BY <1>2, RecvKept DEF Demux
  <2>2. TypeOK' /\ Reception'
    BY <1>2 DEF IInv, TypeOK, Reception
  <2>3. SocketPlaces'
    BY <1>2, Kept
  <2> QED BY <2>1, <2>2, <2>3 DEF IInv
<1>3. CASE /\ FreeSlots # {} /\ queue_entry' = Min(FreeSlots) /\ recv_pc' = "load"
           /\ UNCHANGED << queueVars, appVars, main_pc, recv_reg, exit_pipe,
                           tcpVars, stcpVars, aborted >>
  <2>1. /\ SlotsKept' /\ Requests' /\ Transport' /\ Completion' /\ Closing'
        /\ Ownership' /\ Waiting' /\ SearchesSucceed'
    BY <1>3, RecvKept DEF Demux
  <2>2. queue_entry' \in Slots /\ connection_queue[queue_entry'].sd < 0
    <3>1. FreeSlots \subseteq Nat
      BY DEF FreeSlots, Slots
    <3> QED BY <1>3, <3>1, MinIn DEF FreeSlots
  <2>3. connection_queue[queue_entry'] = Empty
    <3>1. \A sd \in Sds : ~(sd < 0)
      BY DEF Sds
    <3>2. ~(Zeroed.sd < 0)
      BY DEF Zeroed
    <3> QED BY <2>2, <3>1, <3>2 DEF IInv, SlotsKept, ConnSds
  <2>4. TypeOK'
    BY <1>3, <2>2 DEF IInv, TypeOK
  <2>5. Reception'
    BY <1>3, <2>2, <2>3 DEF IInv, Reception, Demux
  <2>6. SocketPlaces'
    BY <1>3, Kept
  <2> QED BY <2>1, <2>4, <2>5, <2>6 DEF IInv
<1> QED BY <1>1, <1>2, <1>3 DEF Demux

\* A slot that holds no connection is cleared or freed, by the receive thread.
LEMMA RecvClears ==
  ASSUME ListenSd = 0, IInv, NEW e \in {Empty, Zeroed},
         recv_pc \in {"create", "clear"},
         connection_queue' = [connection_queue EXCEPT ![queue_entry] = e],
         IF e = Zeroed THEN recv_pc = "create" /\ recv_pc' = "clear"
         ELSE recv_pc = "clear" /\ recv_pc' = "decr",
         UNCHANGED << queue_entry, completed_queue, connection_cond, appVars,
                      main_pc, stcpVars, aborted >>
  PROVE  /\ SlotsKept' /\ Requests' /\ Transport' /\ Completion' /\ Closing'
         /\ Ownership' /\ Waiting' /\ SearchesSucceed'
         /\ connection_queue' \in [Slots -> [sd : {-1} \cup Sds,
                                             peer : Peers \cup {NoPeer}]]
         /\ connection_queue'[queue_entry] = e
<1> USE DEF appVars, stcpVars
<1> DEFINE Q == [Slots -> [sd : {-1} \cup Sds, peer : Peers \cup {NoPeer}]]
<1>1. /\ connection_queue \in Q /\ queue_entry \in Slots
      /\ connection_queue[queue_entry] \in {Empty, Zeroed}
  BY DEF IInv, TypeOK, Reception
<1>2. /\ Empty.sd = -1 /\ Zeroed.sd = 0 /\ Empty # Zeroed
      /\ Empty.sd \notin ConnSds /\ Zeroed.sd \notin ConnSds /\ ConnSds \subseteq Sds
      /\ 0 \in Sds /\ -1 \notin Sds
  BY ListenAssumption DEF Empty, Zeroed, ConnSds, Sds
<1>3. /\ connection_queue' \in Q /\ connection_queue'[queue_entry] = e
      /\ \A k \in Slots : k # queue_entry =>
           connection_queue'[k] = connection_queue[k]
  BY <1>1, <1>2 DEF Empty, Zeroed
<1>4. \A k \in Slots : connection_queue[k].sd \in ConnSds
                        \/ connection_queue'[k].sd \in ConnSds =>
        k # queue_entry /\ connection_queue'[k] = connection_queue[k]
  BY <1>1, <1>2, <1>3
<1>5. e.sd \notin ConnSds
  BY <1>2
<1>6. SlotsKept'
  <2>1. ASSUME NEW k \in Slots
        PROVE  \/ connection_queue'[k] \in {Empty, Zeroed}
               \/ /\ connection_queue'[k].sd \in ConnSds
                  /\ stcp_pc'[connection_queue'[k].sd] # "none"
    BY <1>3 DEF IInv, SlotsKept
  <2>2. ASSUME NEW j \in Slots, NEW k \in Slots,
               connection_queue'[j].sd = connection_queue'[k].sd,
               connection_queue'[k].sd \in ConnSds
        PROVE  j = k
    BY <1>4, <2>2 DEF IInv, SlotsKept
  <2>3. ASSUME NEW k \in Slots, connection_queue'[k] = Zeroed
        PROVE  \/ recv_pc' = "clear" /\ queue_entry' = k
               \/ \E a \in Acceptors : app_pc'[a] = "zeroed" /\ request'[a].slot = k
    <3>1. CASE k = queue_entry
      BY <1>2, <1>3, <2>3, <3>1
    <3>2. CASE k # queue_entry
      BY <1>3, <2>3, <3>2 DEF IInv, SlotsKept
    <3> QED BY <3>1, <3>2
  <2> QED BY <2>1, <2>2, <2>3 DEF SlotsKept
<1>7. Requests'
  <2>1. ASSUME NEW a \in Acceptors, app_pc[a] = "zeroed"
        PROVE  /\ connection_queue'[request[a].slot] = Zeroed
               /\ request[a].slot # queue_entry
    <3>1. request[a].slot \in Slots /\ connection_queue[request[a].slot] = Zeroed
      BY <2>1 DEF IInv, Requests, Taking
    <3>2. request[a].slot # queue_entry
      BY <1>2, <2>1, <3>1 DEF IInv, Requests, Reception
    <3> QED BY <1>3, <3>1, <3>2
  <2> QED BY <2>1 DEF IInv, Requests, Taking
<1>8. Transport'
  <2>1. ASSUME NEW sd \in Sds, stcp_pc[sd] \in {"init", "complete", "append"}
        PROVE  sd \in ConnSds
    BY <2>1 DEF IInv, Transport, ConnSds
  <2>2. ASSUME NEW sd \in Sds, stcp_pc[sd] \in {"init", "complete", "append"}
        PROVE  \E k \in Slots : connection_queue'[k].sd = sd
    <3>1. PICK k \in Slots : connection_queue[k].sd = sd
      BY <2>2 DEF IInv, Transport
    <3> QED BY <1>4, <2>1, <2>2, <3>1
  <2>3. ASSUME NEW sd \in Sds, stcp_pc[sd] = "append"
        PROVE  /\ connection_req[sd] \in Slots
               /\ connection_queue'[connection_req[sd]].sd = sd
    <3>1. /\ connection_req[sd] \in Slots
          /\ connection_queue[connection_req[sd]].sd = sd
      BY <2>3 DEF IInv, Transport
    <3> QED BY <1>4, <2>1, <2>3, <3>1
  <2> QED BY <2>2, <2>3 DEF IInv, Transport
<1>9. Completion'
  <2>1. ASSUME NEW i \in 1 .. Len(completed_queue), main_pc # "close_queued"
        PROVE  /\ connection_queue'[completed_queue[i]].sd \in ConnSds
               /\ stcp_pc[connection_queue'[completed_queue[i]].sd] \in Done
    <3>1. completed_queue[i] \in Slots
      BY DEF IInv, TypeOK
    <3> QED BY <1>4, <2>1, <3>1 DEF IInv, Completion
  <2> QED BY <2>1 DEF IInv, Completion
<1>10. Closing'
  BY DEF IInv, Closing
<1>11. Ownership'
  <2>1. ASSUME NEW k \in Slots
        PROVE  /\ connection_queue'[k].sd \notin held
               /\ \A a \in Acceptors :
                    Taking(a) => connection_queue'[k].sd # request[a].sd
    BY <1>3, <1>5 DEF IInv, Ownership, Requests
  <2>2. ASSUME NEW sd \in Sds, stcp_pc[sd] # "none"
        PROVE  \/ \E k \in Slots : connection_queue'[k].sd = sd
               \/ \E a \in Acceptors : request[a].sd = sd
               \/ sd \in held \/ failed[sd]
    <3>1. sd \in ConnSds
      BY <2>2 DEF IInv, Transport, ConnSds
    <3> QED BY <1>4, <2>2, <3>1 DEF IInv, Ownership
  <2> QED BY <2>1, <2>2 DEF IInv, Ownership, Taking
<1>12. Waiting' /\ SearchesSucceed'
  BY Kept
<1> QED BY <1>3, <1>6, <1>7, <1>8, <1>9, <1>10, <1>11, <1>12

LEMMA ClearStep == ASSUME ListenSd = 0, IInv, Clear PROVE IInv'
<1> USE DEF appVars, stcpVars
<1>1. /\ recv_pc = "clear" /\ recv_pc' = "decr" /\ recv_reg' = cur_len
      /\ connection_queue' = [connection_queue EXCEPT ![queue_entry] = Empty]
      /\ UNCHANGED << completed_queue, cur_len, connection_cond, appVars, main_pc,
                      queue_entry, exit_pipe, tcpVars, stcpVars, aborted >>
  BY DEF Clear
<1>2. Empty # Zeroed
  BY DEF Empty, Zeroed
<1>3. /\ SlotsKept' /\ Requests' /\ Transport' /\ Completion' /\ Closing'
      /\ Ownership' /\ Waiting' /\ SearchesSucceed'
      /\ connection_queue' \in [Slots -> [sd : {-1} \cup Sds,
                                          peer : Peers \cup {NoPeer}]]
      /\ connection_queue'[queue_entry] = Empty
  BY <1>1, <1>2, RecvClears
<1>4. TypeOK'
  BY <1>1, <1>3 DEF IInv, TypeOK, tcpVars
<1>5. Reception'
  BY <1>1 DEF IInv, Reception, tcpVars
<1>6. SocketPlaces'
  BY <1>1, Kept DEF tcpVars
<1> QED BY <1>3, <1>4, <1>5, <1>6 DEF IInv

\* A new mysocket takes the slot, and the socket that accept() returned.
LEMMA CreateStep == ASSUME ListenSd = 0, IInv, Create PROVE IInv'
<1> USE DEF appVars, stcpVars
<1>1. CASE FreeSds = {}
  <2>1. /\ recv_pc = "create" /\ recv_pc' = "clear"
        /\ connection_queue' = [connection_queue EXCEPT ![queue_entry] = Zeroed]
        /\ UNCHANGED << completed_queue, cur_len, connection_cond, appVars, main_pc,
                        queue_entry, exit_pipe, tcpVars, stcpVars, aborted,
                        recv_reg >>
    BY <1>1 DEF Create, tcpVars
  <2>2. /\ SlotsKept' /\ Requests' /\ Transport' /\ Completion' /\ Closing'
        /\ Ownership' /\ Waiting' /\ SearchesSucceed'
        /\ connection_queue' \in [Slots -> [sd : {-1} \cup Sds,
                                            peer : Peers \cup {NoPeer}]]
        /\ connection_queue'[queue_entry] = Zeroed
    BY <2>1, RecvClears
  <2>3. TypeOK'
    BY <2>1, <2>2 DEF IInv, TypeOK, tcpVars
  <2>4. Reception'
    BY <2>1, <2>2 DEF IInv, Reception, tcpVars
  <2>5. SocketPlaces'
    BY <2>1, Kept DEF tcpVars
  <2> QED BY <2>2, <2>3, <2>4, <2>5 DEF IInv
<1>2. CASE FreeSds # {}
  <2> DEFINE n == Min(FreeSds)
             r == [sd |-> n, peer |-> attempts[new_socket]]
  <2>1. /\ recv_pc = "create" /\ recv_pc' = "enqueue" /\ queue_entry' = 0
        /\ connection_queue' = [connection_queue EXCEPT ![queue_entry] = r]
        /\ sock' = [sock EXCEPT ![n] = new_socket] /\ new_socket' = 0
        /\ stcp_pc' = [stcp_pc EXCEPT ![n] = "init"]
        /\ UNCHANGED << completed_queue, cur_len, connection_cond, appVars, main_pc,
                        exit_pipe, tcp_backlog, attempts, released, failed,
                        connection_req, closing, aborted, recv_reg >>
    BY <1>2 DEF Create, UpdatePassiveState
  <2>2. n \in ConnSds /\ stcp_pc[n] = "none"
    <3>1. FreeSds \subseteq Nat
      BY DEF FreeSds, Sds
    <3>2. n \in FreeSds
      BY <1>2, <3>1, MinIn
    <3> QED BY <3>2 DEF FreeSds, Allocated, ConnSds
  <2>3. /\ queue_entry \in Slots /\ connection_queue[queue_entry] = Empty
        /\ new_socket # 0
    BY <2>1 DEF IInv, Reception
  <2>4. r.sd = n /\ r # Empty /\ r # Zeroed
        /\ n \in Sds /\ n # 0 /\ n # -1 /\ -1 \notin Sds /\ ConnSds \subseteq Sds
        /\ Empty.sd = -1 /\ Zeroed.sd = 0 /\ Empty # Zeroed
    BY <2>2, ListenAssumption DEF Empty, Zeroed, ConnSds, Sds
  <2>5. r \in [sd : {-1} \cup Sds, peer : Peers \cup {NoPeer}]
    <3>1. new_socket \in 0 .. Len(attempts) /\ attempts \in Seq(Peers)
      BY DEF IInv, TypeOK
    <3>2. new_socket \in 1 .. Len(attempts)
      BY <2>3, <3>1
    <3>3. attempts[new_socket] \in Peers
      BY <3>1, <3>2
    <3> QED BY <2>4, <3>3
  <2> HIDE DEF n, r
  <2>6. TypeOK'
    <3>1. connection_queue' \in [Slots -> [sd : {-1} \cup Sds,
                                          peer : Peers \cup {NoPeer}]]
      BY <2>1, <2>3, <2>5 DEF IInv, TypeOK
    <3>2. /\ sock' \in [Sds -> 0 .. Len(attempts)] /\ new_socket' \in 0 .. Len(attempts)
      BY <2>1, <2>4 DEF IInv, TypeOK
    <3>3. stcp_pc' \in [Sds -> {"none", "init", "complete", "append", "signal",
                                "run", "end"}]
      BY <2>1, <2>4 DEF IInv, TypeOK
    <3> QED BY <2>1, <3>1, <3>2, <3>3 DEF IInv, TypeOK
  <2>7. /\ connection_queue'[queue_entry] = r
        /\ \A k \in Slots : k # queue_entry =>
             connection_queue'[k] = connection_queue[k]
    BY <2>1, <2>3 DEF IInv, TypeOK
  <2>8. /\ stcp_pc'[n] = "init" /\ sock'[n] = new_socket
        /\ \A sd \in Sds : sd # n =>
             stcp_pc'[sd] = stcp_pc[sd] /\ sock'[sd] = sock[sd]
    BY <2>1, <2>4 DEF IInv, TypeOK
  <2>9. \A k \in Slots : connection_queue[k].sd # n
    BY <2>2, <2>4 DEF IInv, SlotsKept
  <2>10. SlotsKept'
    <3>1. ASSUME NEW k \in Slots
          PROVE  \/ connection_queue'[k] \in {Empty, Zeroed}
                 \/ /\ connection_queue'[k].sd \in ConnSds
                    /\ stcp_pc'[connection_queue'[k].sd] # "none"
      <4>1. CASE k = queue_entry
        BY <2>2, <2>4, <2>7, <2>8, <4>1
      <4>2. CASE k # queue_entry
        BY <2>4, <2>7, <2>8, <2>9, <4>2 DEF IInv, SlotsKept
      <4> QED BY <4>1, <4>2
    <3>2. ASSUME NEW j \in Slots, NEW k \in Slots,
                 connection_queue'[j].sd = connection_queue'[k].sd,
                 connection_queue'[k].sd \in ConnSds
          PROVE  j = k
      BY <2>4, <2>7, <2>9, <3>2 DEF IInv, SlotsKept
    <3>3. ASSUME NEW k \in Slots, connection_queue'[k] = Zeroed
          PROVE  \/ recv_pc' = "clear" /\ queue_entry' = k
                 \/ \E a \in Acceptors :
                      app_pc'[a] = "zeroed" /\ request'[a].slot = k
      <4>1. k # queue_entry
        BY <2>4, <2>7, <3>3
      <4> QED BY <2>1, <2>7, <3>3, <4>1 DEF IInv, SlotsKept
    <3> QED BY <3>1, <3>2, <3>3 DEF SlotsKept
  <2>11. Requests'
    <3>1. ASSUME NEW a \in Acceptors, Taking(a)
          PROVE  request[a].sd # n /\ request[a].sd \in Sds
      BY <2>2, <2>4, <3>1 DEF IInv, Requests, Done
    <3>2. ASSUME NEW a \in Acceptors, app_pc[a] = "zeroed"
          PROVE  connection_queue'[request[a].slot] = Zeroed
      <4>1. request[a].slot \in Slots /\ connection_queue[request[a].slot] = Zeroed
        BY <3>2 DEF IInv, Requests, Taking
      <4> QED BY <2>3, <2>4, <2>7, <4>1
    <3> QED BY <2>1, <2>8, <3>1, <3>2 DEF IInv, Requests, Taking
  <2>12. Reception'
    BY <2>1 DEF Reception
  <2>13. Transport'
    <3>1. ASSUME NEW sd \in Sds, stcp_pc'[sd] \in {"init", "complete", "append"}
          PROVE  \E k \in Slots : connection_queue'[k].sd = sd
      <4>1. CASE sd = n
        BY <2>3, <2>4, <2>7, <4>1
      <4>2. CASE sd # n
        <5>1. PICK k \in Slots : connection_queue[k].sd = sd
          BY <2>8, <3>1, <4>2 DEF IInv, Transport
        <5> QED BY <2>3, <2>4, <2>7, <5>1
      <4> QED BY <4>1, <4>2
    <3>2. ASSUME NEW sd \in Sds, stcp_pc'[sd] = "append"
          PROVE  /\ connection_req[sd] \in Slots
                 /\ connection_queue'[connection_req[sd]].sd = sd
      <4>1. sd # n
        BY <2>8, <3>2
      <4>2. /\ connection_req[sd] \in Slots
            /\ connection_queue[connection_req[sd]].sd = sd
        BY <2>8, <3>2, <4>1 DEF IInv, Transport
      <4> QED BY <2>3, <2>4, <2>7, <4>2
    <3>3. stcp_pc'[ListenSd] = "none"
      BY <2>2, <2>8, ListenAssumption DEF IInv, Transport, ConnSds
    <3> QED BY <2>1, <3>1, <3>2, <3>3 DEF Transport
  <2>14. Completion'
    <3>1. ASSUME NEW i \in 1 .. Len(completed_queue), main_pc # "close_queued"
          PROVE  /\ connection_queue'[completed_queue[i]].sd \in ConnSds
                 /\ stcp_pc'[connection_queue'[completed_queue[i]].sd] \in Done
      <4>1. completed_queue[i] \in Slots
        BY DEF IInv, TypeOK
      <4>2. /\ connection_queue[completed_queue[i]].sd \in ConnSds
            /\ stcp_pc[connection_queue[completed_queue[i]].sd] \in Done
        BY <3>1 DEF IInv, Completion
      <4> QED BY <2>3, <2>4, <2>7, <2>8, <2>9, <4>1, <4>2
    <3> QED BY <2>1, <3>1 DEF IInv, Completion
  <2>15. Closing'
    BY <2>1 DEF IInv, Closing
  <2>16. Ownership'
    <3>1. \A sd \in held : sd # n /\ sd \in Sds
      BY <2>2, <2>4 DEF IInv, Ownership, Done
    <3>2. ASSUME NEW a \in Acceptors PROVE request[a].sd # n
      BY <2>2, <2>4 DEF IInv, Requests, Done
    <3>3. ASSUME NEW k \in Slots
          PROVE  /\ connection_queue'[k].sd \notin held
                 /\ \A a \in Acceptors :
                      Taking(a) => connection_queue'[k].sd # request[a].sd
      BY <2>4, <2>7, <3>1, <3>2 DEF IInv, Ownership
    <3>4. ASSUME NEW sd \in Sds, stcp_pc'[sd] # "none"
          PROVE  \/ \E k \in Slots : connection_queue'[k].sd = sd
                 \/ \E a \in Acceptors : request[a].sd = sd
                 \/ sd \in held \/ failed[sd]
      <4>1. CASE sd = n
        BY <2>3, <2>4, <2>7, <4>1
      <4>2. CASE sd # n
        <5>1. \/ \E k \in Slots : connection_queue[k].sd = sd
              \/ \E a \in Acceptors : request[a].sd = sd
              \/ sd \in held \/ failed[sd]
          BY <2>8, <3>4, <4>2 DEF IInv, Ownership
        <5> QED BY <2>3, <2>4, <2>7, <5>1
      <4> QED BY <4>1, <4>2
    <3>5. held \subseteq ConnSds /\ \A sd \in held : stcp_pc'[sd] \in Done
      BY <2>8, <3>1 DEF IInv, Ownership
    <3>6. \A a \in Acceptors : request[a].sd \notin held
      BY DEF IInv, Ownership
    <3> QED BY <2>1, <3>3, <3>4, <3>5, <3>6 DEF Ownership, Taking
  <2>17. SocketPlaces'
    <3>1. sock[n] = 0
      BY <2>2, <2>4 DEF IInv, SocketPlaces
    <3>2. \A sd \in Sds : stcp_pc'[sd] = "none" <=> sock'[sd] = 0
      BY <2>3, <2>8 DEF IInv, SocketPlaces
    <3>3. ASSUME NEW c \in Sds, NEW d \in Sds, sock'[c] = sock'[d], sock'[d] # 0
          PROVE  c = d
      BY <2>3, <2>8, <3>3 DEF IInv, SocketPlaces
    <3>4. ASSUME NEW sd \in Sds, sock'[sd] # 0
          PROVE  /\ sock'[sd] # new_socket' /\ sock'[sd] \notin released
                 /\ \A j \in 1 .. Len(tcp_backlog) : tcp_backlog[j] # sock'[sd]
      <4>1. sock'[sd] # new_socket'
        BY <2>1, <3>4
      <4> QED BY <2>3, <2>8, <3>4, <4>1 DEF IInv, SocketPlaces
    <3>5. ASSUME NEW i \in 1 .. Len(attempts)
          PROVE  \/ \E sd \in Sds : sock'[sd] = i
                 \/ new_socket' = i \/ i \in released
                 \/ \E j \in 1 .. Len(tcp_backlog) : tcp_backlog[j] = i
      <4>1. \/ \E sd \in Sds : sock[sd] = i
            \/ new_socket = i \/ i \in released
            \/ \E j \in 1 .. Len(tcp_backlog) : tcp_backlog[j] = i
        BY DEF IInv, SocketPlaces
      <4>2. i # 0
        OBVIOUS
      <4>3. CASE \E sd \in Sds : sock[sd] = i
        BY <2>8, <3>1, <4>2, <4>3
      <4>4. CASE new_socket = i
        BY <2>4, <2>8, <4>4
      <4> QED BY <4>1, <4>3, <4>4
    <3> QED BY <2>1, <3>2, <3>3, <3>4, <3>5 DEF IInv, SocketPlaces
  <2>18. Waiting'
    <3>1. \A sd \in Sds : stcp_pc'[sd] = "signal" <=> stcp_pc[sd] = "signal"
      BY <2>2, <2>8
    <3>2. {sd \in Sds : stcp_pc'[sd] = "signal"}
            = {sd \in Sds : stcp_pc[sd] = "signal"}
      BY <3>1
    <3> QED BY <2>1, <3>2 DEF IInv, Waiting, NoLostAccept
  <2>19. SearchesSucceed'
    BY <2>1, Kept
  <2> QED BY <2>6, <2>10, <2>11, <2>12, <2>13, <2>14, <2>15, <2>16, <2>17,
             <2>18, <2>19 DEF IInv
<1> QED BY <1>1, <1>2

\* Sequences over a larger set.
LEMMA SeqMono ==
  ASSUME NEW A, NEW B, A \subseteq B, NEW s \in Seq(A)
  PROVE  s \in Seq(B)
  OBVIOUS

\* A new TCP connection is nowhere else.
LEMMA PeerConnectsStep ==
  ASSUME IInv, NEW p \in Peers, PeerConnects(p)
  PROVE  IInv'
<1> USE DEF queueVars, appVars, recvVars, stcpVars
<1> DEFINE n == Len(attempts) + 1
           q == tcp_backlog
           t == Append(q, n)
<1>1. /\ attempts' = Append(attempts, p) /\ tcp_backlog' = t
      /\ UNCHANGED << queueVars, appVars, main_pc, recvVars, new_socket, released,
                      stcpVars, aborted >>
  BY DEF PeerConnects
<1>2. /\ attempts \in Seq(Peers) /\ q \in Seq(1 .. Len(attempts))
      /\ new_socket \in 0 .. Len(attempts) /\ released \subseteq 0 .. Len(attempts)
      /\ sock \in [Sds -> 0 .. Len(attempts)]
  BY DEF IInv, TypeOK
<1>3. /\ attempts' \in Seq(Peers) /\ Len(attempts') = n /\ Len(attempts) \in Nat
      /\ Len(q) \in Nat
  BY <1>1, <1>2
<1>4. /\ t \in Seq(1 .. n) /\ Len(t) = Len(q) + 1 /\ t[Len(q) + 1] = n
      /\ \A i \in 1 .. Len(q) : t[i] = q[i] /\ q[i] \in 1 .. Len(attempts)
  <2> DEFINE B == 1 .. n
  <2>1. q \in Seq(B) /\ n \in B
    <3> DEFINE A == 1 .. Len(attempts)
    <3>1. A \subseteq B /\ n \in B /\ q \in Seq(A)
      BY <1>2, <1>3
    <3> HIDE DEF A, B, q
    <3> QED BY <3>1, SeqMono
  <2>2. \A i \in 1 .. Len(q) : q[i] \in 1 .. Len(attempts)
    BY <1>2
  <2> HIDE DEF B
  <2>3. /\ t \in Seq(B) /\ Len(t) = Len(q) + 1 /\ t[Len(q) + 1] = n
        /\ \A i \in 1 .. Len(q) : t[i] = q[i]
    BY <2>1
  <2> QED BY <2>2, <2>3 DEF B
<1>5. /\ n \notin 0 .. Len(attempts) /\ 0 .. Len(attempts) \subseteq 0 .. n
      /\ n # 0 /\ 1 .. Len(attempts) \subseteq 0 .. Len(attempts)
  BY <1>3
<1> HIDE DEF n, t
<1>6. TypeOK'
  <2>1. /\ new_socket' \in 0 .. n /\ released' \subseteq 0 .. n
    BY <1>1, <1>2, <1>5
  <2>2. sock' \in [Sds -> 0 .. n]
    BY <1>1, <1>2, <1>5
  <2> QED BY <1>1, <1>3, <1>4, <2>1, <2>2 DEF IInv, TypeOK
<1>7. SocketPlaces'
  <2>1. ASSUME NEW j \in 1 .. Len(t)
        PROVE  /\ t[j] \notin released /\ (new_socket # 0 => t[j] # new_socket)
               /\ \A sd \in Sds : sock[sd] # 0 => t[j] # sock[sd]
    <3>1. CASE j \in 1 .. Len(q)
      BY <1>4, <3>1 DEF IInv, SocketPlaces
    <3>2. CASE j \notin 1 .. Len(q)
      <4>1. j = Len(q) + 1
        BY <1>3, <1>4, <3>2
      <4>2. t[j] = n
        BY <1>4, <4>1
      <4> QED BY <1>2, <1>5, <4>2
    <3> QED BY <3>1, <3>2
  <2>2. ASSUME NEW i \in 1 .. Len(t), NEW j \in 1 .. Len(t), t[i] = t[j]
        PROVE  i = j
    <3>1. \A x \in 1 .. Len(t) : x \in 1 .. Len(q) \/ x = Len(q) + 1
      BY <1>3, <1>4
    <3>2. \A x \in 1 .. Len(q) : t[x] # n
      BY <1>4, <1>5
    <3> QED BY <1>4, <2>2, <3>1, <3>2 DEF IInv, SocketPlaces
  <2>3. ASSUME NEW i \in 1 .. n
        PROVE  \/ \E sd \in Sds : sock[sd] = i
               \/ new_socket = i \/ i \in released
               \/ \E j \in 1 .. Len(t) : t[j] = i
    <3>1. CASE i = n
      <4>1. Len(q) + 1 \in 1 .. Len(t)
        BY <1>3, <1>4
      <4> QED BY <1>4, <3>1, <4>1
    <3>2. CASE i # n
      <4>1. i \in 1 .. Len(attempts)
        BY <1>3, <3>2 DEF n
      <4>2. \A j \in 1 .. Len(q) : j \in 1 .. Len(t) /\ t[j] = q[j]
        BY <1>3, <1>4
      <4> QED BY <4>1, <4>2 DEF IInv, SocketPlaces
    <3> QED BY <3>1, <3>2
  <2> QED BY <1>1, <1>3, <2>1, <2>2, <2>3 DEF IInv, SocketPlaces
<1>8. /\ SlotsKept' /\ Requests' /\ Reception' /\ Transport' /\ Completion'
      /\ Closing' /\ Ownership' /\ Waiting' /\ SearchesSucceed'
  BY <1>1, Kept
<1> QED BY <1>6, <1>7, <1>8 DEF IInv

----------------------------------------------------------------------------
(* myaccept().                                                             *)

\* The acceptors that will look at the list of completed connections, and the
\* transport threads that have a signal to send.
Lookers == {a \in Acceptors : \/ app_pc[a] = "dequeue"
                              \/ app_pc[a] = "wait" /\ a \notin connection_cond}
Signals == {sd \in Sds : stcp_pc[sd] = "signal"}

Finitely ==
  /\ IsFiniteSet(Lookers) /\ Cardinality(Lookers) \in Nat
  /\ IsFiniteSet(Signals) /\ Cardinality(Signals) \in Nat

LEMMA CountsFinite == Finitely
<1>1. IsFiniteSet(Sds)
  BY FS_Interval, ListenAssumption DEF Sds
<1>2. IsFiniteSet(Acceptors)
  BY ListenAssumption
<1>3. Lookers \subseteq Acceptors /\ Signals \subseteq Sds
  BY DEF Lookers, Signals
<1>4. IsFiniteSet(Lookers) /\ IsFiniteSet(Signals)
  BY <1>1, <1>2, <1>3, FS_Subset
<1> QED BY <1>4, FS_CardinalityType DEF Finitely

LEMMA Looking ==
  NoLostAccept <=> (connection_cond # {} =>
    Len(completed_queue) <= Cardinality(Signals) + Cardinality(Lookers))
  BY DEF NoLostAccept, Signals, Lookers

\* More threads look than before.
LEMMA MoreLook ==
  ASSUME IInv, UNCHANGED << completed_queue, stcp_pc >>,
         connection_cond' \subseteq connection_cond, IsFiniteSet(Lookers'),
         Lookers \subseteq Lookers'
  PROVE  NoLostAccept'
<1>1. Signals' = Signals
  BY DEF Signals
<1>2. Cardinality(Lookers) <= Cardinality(Lookers') /\ Cardinality(Lookers') \in Nat
  BY FS_Subset, FS_CardinalityType
<1>3. connection_cond' # {} => connection_cond # {}
  OBVIOUS
<1>4. connection_cond # {} =>
        Len(completed_queue) <= Cardinality(Signals) + Cardinality(Lookers)
  BY Looking DEF IInv, Waiting
<1>5. Len(completed_queue) \in Nat
  BY DEF IInv, TypeOK
<1>6. connection_cond' # {} =>
        Len(completed_queue) <= Cardinality(Signals) + Cardinality(Lookers')
  BY <1>2, <1>3, <1>4, <1>5, CountsFinite DEF Finitely
<1>7. (NoLostAccept <=> (connection_cond # {} =>
        Len(completed_queue) <= Cardinality(Signals) + Cardinality(Lookers)))'
  BY Looking, PTL
<1> QED BY <1>1, <1>6, <1>7

LEMMA CountsFiniteNext == Finitely'
  BY CountsFinite, PTL

LEMMA SpuriousStep == ASSUME IInv, SpuriousWakeup PROVE IInv'
<1> USE DEF appVars, recvVars, tcpVars, stcpVars
<1>1. PICK a \in connection_cond : connection_cond' = connection_cond \ {a}
  BY DEF SpuriousWakeup
<1>2. UNCHANGED << connection_queue, completed_queue, cur_len, appVars, main_pc,
                  recvVars, tcpVars, stcpVars, aborted >>
  BY DEF SpuriousWakeup
<1>3. TypeOK'
  BY <1>1, <1>2 DEF IInv, TypeOK
<1>4. Waiting'
  <2>1. Lookers \subseteq Lookers'
    BY <1>1, <1>2 DEF Lookers
  <2>2. NoLostAccept'
    BY <1>1, <1>2, <2>1, MoreLook, CountsFiniteNext DEF Finitely
  <2> QED BY <1>1, <1>2, <2>2 DEF IInv, Waiting
<1>5. /\ SlotsKept' /\ Requests' /\ Reception' /\ Transport' /\ Completion'
      /\ Closing' /\ Ownership' /\ SocketPlaces' /\ SearchesSucceed'
  BY <1>2, Kept
<1> QED BY <1>3, <1>4, <1>5 DEF IInv

\* An acceptor goes on without a slot being touched.
LEMMA AppGoes ==
  ASSUME IInv, NEW a \in Acceptors, NEW pc \in {"dequeue", "wait", "load", "dec"},
         app_pc' = [app_pc EXCEPT ![a] = pc], app_pc[a] # "zeroed",
         Taking(a) <=> pc \in {"load", "dec"},
         main_pc \notin {"close_queued", "closed"},
         UNCHANGED << connection_queue, completed_queue, request, held, main_pc,
                      recvVars, tcpVars, stcpVars, aborted >>
  PROVE  /\ SlotsKept' /\ Requests' /\ Reception' /\ Transport' /\ Completion'
         /\ Closing' /\ Ownership' /\ SocketPlaces' /\ SearchesSucceed'
         /\ app_pc' \in [Acceptors -> {"idle", "dequeue", "wait", "zeroed", "load",
                                       "dec"}]
         /\ app_pc'[a] = pc
         /\ \A b \in Acceptors : b # a => app_pc'[b] = app_pc[b]
<1> USE DEF recvVars, tcpVars, stcpVars
<1>1. /\ app_pc' \in [Acceptors -> {"idle", "dequeue", "wait", "zeroed", "load",
                                    "dec"}]
      /\ app_pc'[a] = pc
      /\ \A b \in Acceptors : b # a => app_pc'[b] = app_pc[b]
  BY DEF IInv, TypeOK
<1>2. \A b \in Acceptors : /\ Taking(b)' <=> Taking(b)
                           /\ app_pc'[b] = "zeroed" <=> app_pc[b] = "zeroed"
  BY <1>1 DEF Taking
<1>3. SlotsKept'
  BY <1>2 DEF IInv, SlotsKept
<1>4. Requests'
  BY <1>2 DEF IInv, Requests
<1>5. Ownership'
  BY <1>2 DEF IInv, Ownership
<1>6. Closing'
  BY DEF IInv, Closing
<1>7. Reception' /\ Transport' /\ Completion' /\ SocketPlaces' /\ SearchesSucceed'
  BY Kept
<1> QED BY <1>1, <1>3, <1>4, <1>5, <1>6, <1>7

LEMMA MyAcceptStep ==
  ASSUME IInv, NEW a \in Acceptors, MyAccept(a)
  PROVE  IInv'
<1> USE DEF queueVars, recvVars, tcpVars, stcpVars
<1>1. /\ app_pc[a] = "idle" /\ main_pc = "open"
      /\ app_pc' = [app_pc EXCEPT ![a] = "dequeue"]
      /\ UNCHANGED << queueVars, request, app_reg, held, main_pc, recvVars, tcpVars,
                      stcpVars, aborted >>
  BY DEF MyAccept
<1>2. /\ SlotsKept' /\ Requests' /\ Reception' /\ Transport' /\ Completion'
      /\ Closing' /\ Ownership' /\ SocketPlaces' /\ SearchesSucceed'
      /\ app_pc' \in [Acceptors -> {"idle", "dequeue", "wait", "zeroed", "load",
                                    "dec"}]
      /\ app_pc'[a] = "dequeue"
      /\ \A b \in Acceptors : b # a => app_pc'[b] = app_pc[b]
  <2>1. ~Taking(a)
    BY <1>1 DEF Taking
  <2> QED BY <1>1, <2>1, AppGoes
<1>3. TypeOK'
  BY <1>1, <1>2 DEF IInv, TypeOK
<1>4. Waiting'
  <2>1. a \notin connection_cond /\ connection_cond \subseteq Acceptors
    BY <1>1 DEF IInv, Waiting, TypeOK
  <2>2. Lookers \subseteq Lookers'
    BY <1>1, <1>2 DEF Lookers
  <2>3. NoLostAccept'
    BY <1>1, <2>2, MoreLook, CountsFiniteNext DEF Finitely
  <2> QED BY <1>1, <1>2, <2>1, <2>3 DEF IInv, Waiting
<1> QED BY <1>2, <1>3, <1>4 DEF IInv

LEMMA LoadToDecrementStep ==
  ASSUME IInv, NEW a \in Acceptors, LoadToDecrement(a)
  PROVE  IInv'
<1> USE DEF queueVars, recvVars, tcpVars, stcpVars
<1>1. /\ app_pc[a] = "load" /\ app_pc' = [app_pc EXCEPT ![a] = "dec"]
      /\ app_reg' = [app_reg EXCEPT ![a] = cur_len]
      /\ UNCHANGED << queueVars, request, held, main_pc, recvVars, tcpVars,
                      stcpVars, aborted >>
  BY DEF LoadToDecrement
<1>2. /\ SlotsKept' /\ Requests' /\ Reception' /\ Transport' /\ Completion'
      /\ Closing' /\ Ownership' /\ SocketPlaces' /\ SearchesSucceed'
      /\ app_pc' \in [Acceptors -> {"idle", "dequeue", "wait", "zeroed", "load",
                                    "dec"}]
      /\ app_pc'[a] = "dec"
      /\ \A b \in Acceptors : b # a => app_pc'[b] = app_pc[b]
  <2>1. Taking(a) /\ main_pc \notin {"close_queued", "closed"}
    BY <1>1 DEF Taking, IInv, Closing
  <2> QED BY <1>1, <2>1, AppGoes
<1>3. TypeOK'
  BY <1>1, <1>2 DEF IInv, TypeOK
<1>4. Waiting'
  <2>1. a \notin connection_cond /\ connection_cond \subseteq Acceptors
    BY <1>1 DEF IInv, Waiting, TypeOK
  <2>2. Lookers \subseteq Lookers'
    BY <1>1, <1>2 DEF Lookers
  <2>3. NoLostAccept'
    BY <1>1, <2>2, MoreLook, CountsFiniteNext DEF Finitely
  <2> QED BY <1>1, <1>2, <2>1, <2>3 DEF IInv, Waiting
<1> QED BY <1>2, <1>3, <1>4 DEF IInv

\* The descriptor leaves the myaccept() for the application, or is lost.
LEMMA DecrementStep ==
  ASSUME ListenSd = 0, IInv, NEW a \in Acceptors, Decrement(a)
  PROVE  IInv'
<1> USE DEF recvVars, tcpVars, stcpVars
<1>1. /\ app_pc[a] = "dec" /\ app_pc' = [app_pc EXCEPT ![a] = "idle"]
      /\ cur_len' = Dec(app_reg[a])
      /\ app_reg' = [app_reg EXCEPT ![a] = 0]
      /\ request' = [request EXCEPT ![a] = [slot |-> 0, sd |-> -1]]
      /\ held' = held \cup {sd \in {request[a].sd} : ~failed[sd]}
      /\ UNCHANGED << connection_queue, completed_queue, connection_cond, main_pc,
                      recvVars, tcpVars, stcpVars, aborted >>
  BY DEF Decrement
<1>2. /\ app_pc' \in [Acceptors -> {"idle", "dequeue", "wait", "zeroed", "load",
                                    "dec"}]
      /\ app_pc'[a] = "idle"
      /\ \A b \in Acceptors : b # a => app_pc'[b] = app_pc[b]
  BY <1>1 DEF IInv, TypeOK
<1>3. /\ request' \in [Acceptors -> [slot : {0} \cup Slots, sd : {-1} \cup Sds]]
      /\ request'[a].sd = -1
      /\ \A b \in Acceptors : b # a => request'[b] = request[b]
  BY <1>1 DEF IInv, TypeOK
<1>4. /\ Taking(a) /\ ~Taking(a)' /\ \A b \in Acceptors : b # a => ~Taking(b)
      /\ \A b \in Acceptors : b # a => ~Taking(b)'
  BY <1>1, <1>2 DEF IInv, Requests, Taking
<1>5. /\ request[a].sd \in ConnSds /\ stcp_pc[request[a].sd] \in Done
      /\ ConnSds \subseteq Sds /\ -1 \notin Sds
      /\ \A b \in Acceptors : b # a => request[b].sd = -1
  BY <1>4 DEF IInv, Requests, ConnSds, Sds
<1>6. \A sd : sd \in held' <=> sd \in held \/ (sd = request[a].sd /\ ~failed[sd])
  BY <1>1
<1>7. TypeOK'
  <2>1. held' \subseteq Sds
    BY <1>5, <1>6 DEF IInv, TypeOK
  <2>2. cur_len' \in 0 .. MaxUInt /\ app_reg' \in [Acceptors -> 0 .. MaxUInt]
    BY <1>1, CountRange, ListenAssumption DEF IInv, TypeOK
  <2> QED BY <1>1, <1>2, <1>3, <2>1, <2>2 DEF IInv, TypeOK
<1>8. \A b \in Acceptors : app_pc'[b] = "zeroed" <=> app_pc[b] = "zeroed"
  BY <1>1, <1>2
<1>9. SlotsKept'
  <2>1. \A b \in Acceptors : app_pc[b] = "zeroed" => request'[b] = request[b]
    BY <1>1, <1>3
  <2> QED BY <1>1, <1>8, <2>1 DEF IInv, SlotsKept
<1>10. Requests'
  <2>1. \A b \in Acceptors : ~Taking(b)' /\ request'[b].sd = -1
    BY <1>3, <1>4, <1>5
  <2>2. \A b \in Acceptors : app_pc'[b] # "zeroed"
    BY <2>1 DEF Taking
  <2> QED BY <2>1, <2>2 DEF Requests
<1>11. Closing'
  BY <1>1 DEF IInv, Closing
<1>12. Ownership'
  <2>1. held' \subseteq ConnSds /\ \A sd \in held' : stcp_pc[sd] \in Done
    BY <1>5, <1>6 DEF IInv, Ownership
  <2>2. \A k \in Slots : connection_queue[k].sd \notin held'
    BY <1>4, <1>6 DEF IInv, Ownership
  <2>3. \A b \in Acceptors : ~Taking(b)' /\ request'[b].sd \notin held'
    BY <1>3, <1>4, <1>5, <2>1
  <2>4. ASSUME NEW sd \in Sds, stcp_pc[sd] # "none"
        PROVE  \/ \E k \in Slots : connection_queue[k].sd = sd
               \/ \E b \in Acceptors : request'[b].sd = sd
               \/ sd \in held' \/ failed[sd]
    <3>1. \/ \E k \in Slots : connection_queue[k].sd = sd
          \/ \E b \in Acceptors : request[b].sd = sd
          \/ sd \in held \/ failed[sd]
      BY <2>4 DEF IInv, Ownership
    <3>2. CASE \E b \in Acceptors : request[b].sd = sd
      <4>1. sd = request[a].sd
        BY <1>5, <3>2
      <4> QED BY <1>6, <4>1
    <3> QED BY <1>6, <3>1, <3>2
  <2> QED BY <1>1, <2>1, <2>2, <2>3, <2>4 DEF Ownership
<1>13. Waiting'
  <2>1. a \notin connection_cond /\ connection_cond \subseteq Acceptors
    BY <1>1 DEF IInv, Waiting, TypeOK
  <2>2. Lookers \subseteq Lookers'
    BY <1>1, <1>2 DEF Lookers
  <2>3. NoLostAccept'
    BY <1>1, <2>2, MoreLook, CountsFiniteNext DEF Finitely
  <2> QED BY <1>1, <1>2, <2>1, <2>3 DEF IInv, Waiting
<1>14. Reception' /\ Transport' /\ Completion' /\ SocketPlaces' /\ SearchesSucceed'
  BY <1>1, Kept
<1> QED BY <1>7, <1>9, <1>10, <1>11, <1>12, <1>13, <1>14 DEF IInv

\* Nothing is on the list, and the acceptor waits.
LEMMA DequeueWaits ==
  ASSUME IInv, NEW a \in Acceptors, Dequeue(a), completed_queue = << >>
  PROVE  IInv'
<1> USE DEF queueVars, recvVars, tcpVars, stcpVars
<1>1. /\ app_pc[a] \in {"dequeue", "wait"}
      /\ app_pc' = [app_pc EXCEPT ![a] = "wait"]
      /\ connection_cond' = connection_cond \cup {a}
      /\ UNCHANGED << connection_queue, completed_queue, cur_len, request, app_reg,
                      held, main_pc, recvVars, tcpVars, stcpVars, aborted >>
  BY DEF Dequeue
<1>2. /\ SlotsKept' /\ Requests' /\ Reception' /\ Transport' /\ Completion'
      /\ Closing' /\ Ownership' /\ SocketPlaces' /\ SearchesSucceed'
      /\ app_pc' \in [Acceptors -> {"idle", "dequeue", "wait", "zeroed", "load",
                                    "dec"}]
      /\ app_pc'[a] = "wait"
      /\ \A b \in Acceptors : b # a => app_pc'[b] = app_pc[b]
  <2>1. ~Taking(a) /\ main_pc \notin {"close_queued", "closed"}
    BY <1>1 DEF Taking, IInv, Closing
  <2> QED BY <1>1, <2>1, AppGoes
<1>3. TypeOK'
  BY <1>1, <1>2 DEF IInv, TypeOK
<1>4. Waiting'
  <2>1. Len(completed_queue') = 0
    BY <1>1
  <2>2. (NoLostAccept <=> (connection_cond # {} =>
          Len(completed_queue) <= Cardinality(Signals) + Cardinality(Lookers)))'
    BY Looking, PTL
  <2>3. Cardinality(Signals') + Cardinality(Lookers') >= 0
    BY CountsFiniteNext DEF Finitely
  <2>4. NoLostAccept'
    BY <2>1, <2>2, <2>3, CountsFiniteNext DEF Finitely
  <2>5. connection_cond \subseteq Acceptors
    BY DEF IInv, TypeOK
  <2> QED BY <1>1, <1>2, <2>4, <2>5 DEF IInv, Waiting
<1> QED BY <1>2, <1>3, <1>4 DEF IInv

\* The first completed connection passes from its slot to the acceptor.
LEMMA DequeueTakes ==
  ASSUME ListenSd = 0, IInv, NEW a \in Acceptors, Dequeue(a),
         completed_queue # << >>
  PROVE  IInv'
<1> USE DEF recvVars, tcpVars, stcpVars
<1> DEFINE k == Head(completed_queue)
           c == connection_queue[k].sd
           t == Tail(completed_queue)
<1>1. /\ completed_queue \in Seq(Slots) /\ Len(completed_queue) \in Nat
      /\ connection_queue \in [Slots -> [sd : {-1} \cup Sds,
                                         peer : Peers \cup {NoPeer}]]
  BY DEF IInv, TypeOK
<1>2. /\ t \in Seq(Slots) /\ Len(t) = Len(completed_queue) - 1
      /\ k = completed_queue[1] /\ k \in Slots /\ 1 \in 1 .. Len(completed_queue)
      /\ \A i \in 1 .. Len(t) : /\ t[i] = completed_queue[i + 1]
                                /\ i + 1 \in 1 .. Len(completed_queue)
  BY <1>1, TakeFirst
<1>3. /\ main_pc \notin {"close_queued", "closed"} /\ ~Taking(a)
      /\ app_pc[a] \in {"dequeue", "wait"} /\ a \in Lookers
      /\ \A b \in Acceptors : ~Taking(b)
  BY DEF Dequeue, IInv, Closing, ConnectionLocked, Taking, Lookers
<1>4. c \in ConnSds /\ stcp_pc[c] \in Done /\ c \in Sds /\ stcp_pc[c] # "none"
  BY <1>2, <1>3 DEF IInv, Completion, ConnSds, Done
<1>5. /\ completed_queue' = t
      /\ connection_queue' = [connection_queue EXCEPT ![k] = Zeroed]
      /\ request' = [request EXCEPT ![a] = [slot |-> k, sd |-> c]]
      /\ app_pc' = [app_pc EXCEPT ![a] = "zeroed"]
      /\ UNCHANGED << cur_len, connection_cond, app_reg, held, main_pc, recvVars,
                      tcpVars, stcpVars, aborted >>
  BY <1>4 DEF Dequeue, Allocated, Unlink
<1> HIDE DEF k, c, t
<1>6. /\ Empty.sd = -1 /\ Zeroed.sd = 0 /\ Empty # Zeroed /\ ConnSds \subseteq Sds
      /\ 0 \in Sds /\ 0 \notin ConnSds /\ -1 \notin Sds
      /\ Zeroed \in [sd : {-1} \cup Sds, peer : Peers \cup {NoPeer}]
  BY ListenAssumption DEF Empty, Zeroed, ConnSds, Sds
<1>7. /\ connection_queue' \in [Slots -> [sd : {-1} \cup Sds,
                                          peer : Peers \cup {NoPeer}]]
      /\ connection_queue'[k] = Zeroed
      /\ \A j \in Slots : j # k => connection_queue'[j] = connection_queue[j]
  BY <1>1, <1>2, <1>5, <1>6
<1>8. /\ app_pc' \in [Acceptors -> {"idle", "dequeue", "wait", "zeroed", "load",
                                    "dec"}]
      /\ app_pc'[a] = "zeroed"
      /\ \A b \in Acceptors : b # a => app_pc'[b] = app_pc[b]
  BY <1>5 DEF IInv, TypeOK
<1>9. /\ request' \in [Acceptors -> [slot : {0} \cup Slots, sd : {-1} \cup Sds]]
      /\ request'[a].slot = k /\ request'[a].sd = c
      /\ \A b \in Acceptors : b # a => request'[b] = request[b]
  BY <1>2, <1>4, <1>5 DEF IInv, TypeOK
<1>10. /\ Taking(a)' /\ \A b \in Acceptors : b # a => ~Taking(b)'
       /\ \A b \in Acceptors : request[b].sd = -1
  BY <1>3, <1>8 DEF Taking, IInv, Requests
<1>11. /\ connection_queue[k].sd = c
       /\ \A j \in Slots : connection_queue[j].sd = c => j = k
  BY <1>2, <1>4 DEF c, IInv, SlotsKept
<1>12. TypeOK'
  BY <1>2, <1>5, <1>7, <1>8, <1>9 DEF IInv, TypeOK
<1>13. SlotsKept'
  <2>1. ASSUME NEW j \in Slots
        PROVE  \/ connection_queue'[j] \in {Empty, Zeroed}
               \/ /\ connection_queue'[j].sd \in ConnSds
                  /\ stcp_pc[connection_queue'[j].sd] # "none"
    BY <1>7 DEF IInv, SlotsKept
  <2>2. ASSUME NEW i \in Slots, NEW j \in Slots,
               connection_queue'[i].sd = connection_queue'[j].sd,
               connection_queue'[j].sd \in ConnSds
        PROVE  i = j
    BY <1>6, <1>7, <2>2 DEF IInv, SlotsKept
  <2>3. ASSUME NEW j \in Slots, connection_queue'[j] = Zeroed
        PROVE  \/ recv_pc = "clear" /\ queue_entry = j
               \/ \E b \in Acceptors : app_pc'[b] = "zeroed" /\ request'[b].slot = j
    <3>1. CASE j = k
      BY <1>8, <1>9, <3>1
    <3>2. CASE j # k
      <4>1. connection_queue[j] = Zeroed
        BY <1>7, <2>3, <3>2
      <4> QED BY <1>3, <4>1 DEF IInv, SlotsKept, Taking
    <3> QED BY <3>1, <3>2
  <2> QED BY <1>5, <2>1, <2>2, <2>3 DEF SlotsKept
<1>14. recv_pc \in {"load", "incr", "create", "clear"} =>
         queue_entry \in Slots /\ queue_entry # k
  BY <1>4, <1>6, <1>11 DEF IInv, Reception
<1>15. Requests'
  <2>1. ASSUME NEW b \in Acceptors
        PROVE  /\ IF Taking(b)' THEN /\ request'[b].slot \in Slots
                                     /\ request'[b].sd \in ConnSds
                                     /\ stcp_pc[request'[b].sd] \in Done
                  ELSE request'[b].sd = -1
               /\ app_pc'[b] = "zeroed" =>
                    /\ connection_queue'[request'[b].slot] = Zeroed
                    /\ recv_pc = "clear" => request'[b].slot # queue_entry
    <3>1. CASE b = a
      BY <1>2, <1>4, <1>7, <1>9, <1>10, <1>14, <3>1
    <3>2. CASE b # a
      <4>1. app_pc'[b] # "zeroed"
        BY <1>10, <3>2 DEF Taking
      <4> QED BY <1>9, <1>10, <3>2, <4>1
    <3> QED BY <3>1, <3>2
  <2> QED BY <1>5, <1>10, <2>1 DEF Requests
<1>16. Reception'
  BY <1>5, <1>7, <1>14 DEF IInv, Reception
<1>17. Transport'
  <2>1. ASSUME NEW sd \in Sds, stcp_pc[sd] \in {"init", "complete", "append"},
               NEW j \in Slots, connection_queue[j].sd = sd
        PROVE  connection_queue'[j].sd = sd
    <3>1. sd # c
      BY <1>4, <2>1 DEF Done
    <3> QED BY <1>7, <1>11, <2>1, <3>1
  <2> QED BY <1>5, <2>1 DEF IInv, Transport
<1>18. Completion'
  <2>1. ASSUME NEW i \in 1 .. Len(t), NEW j \in 1 .. Len(t), t[i] = t[j]
        PROVE  i = j
    <3>1. i + 1 = j + 1
      BY <1>2, <2>1 DEF IInv, Completion
    <3> QED BY <3>1
  <2>2. ASSUME NEW i \in 1 .. Len(t)
        PROVE  /\ connection_queue'[t[i]].sd \in ConnSds
               /\ stcp_pc[connection_queue'[t[i]].sd] \in Done
    <3>1. i + 1 \in 1 .. Len(completed_queue) /\ i + 1 # 1
      BY <1>2
    <3>2. t[i] # k /\ t[i] \in Slots
      BY <1>2, <3>1 DEF IInv, Completion
    <3>3. /\ connection_queue[t[i]].sd \in ConnSds
          /\ stcp_pc[connection_queue[t[i]].sd] \in Done
      BY <1>2, <1>3, <3>1 DEF IInv, Completion
    <3> QED BY <1>7, <3>2, <3>3
  <2> QED BY <1>5, <2>1, <2>2 DEF Completion
<1>19. Closing'
  BY <1>3, <1>5 DEF IInv, Closing
<1>20. Ownership'
  <2>1. c \notin held /\ 0 \notin held /\ -1 \notin held
    BY <1>2, <1>6, <1>11 DEF IInv, Ownership
  <2>2. \A j \in Slots : connection_queue'[j].sd \notin held
                         /\ connection_queue'[j].sd # c
    BY <1>4, <1>6, <1>7, <1>11, <2>1 DEF IInv, Ownership
  <2>3. \A b \in Acceptors : /\ request'[b].sd \notin held
                             /\ Taking(b)' => request'[b].sd = c
    BY <1>9, <1>10, <2>1
  <2>4. ASSUME NEW sd \in Sds, stcp_pc[sd] # "none"
        PROVE  \/ \E j \in Slots : connection_queue'[j].sd = sd
               \/ \E b \in Acceptors : request'[b].sd = sd
               \/ sd \in held \/ failed[sd]
    <3>1. CASE sd = c
      BY <1>9, <3>1
    <3>2. CASE sd # c
      <4>1. \/ \E j \in Slots : connection_queue[j].sd = sd
            \/ \E b \in Acceptors : request[b].sd = sd
            \/ sd \in held \/ failed[sd]
        BY <2>4 DEF IInv, Ownership
      <4> QED BY <1>6, <1>7, <1>10, <1>11, <3>2, <4>1
    <3> QED BY <3>1, <3>2
  <2> QED BY <1>5, <2>2, <2>3, <2>4 DEF IInv, Ownership
<1>21. Waiting'
  <2>1. /\ Lookers = Lookers' \cup {a} /\ a \notin Lookers'
    BY <1>3, <1>5, <1>8 DEF Lookers
  <2>2. Cardinality(Lookers) = Cardinality(Lookers') + 1
    BY <2>1, CardAdd, CountsFiniteNext DEF Finitely
  <2>3. Signals' = Signals /\ connection_cond' = connection_cond
    BY <1>5 DEF Signals
  <2>4. (NoLostAccept <=> (connection_cond # {} =>
          Len(completed_queue) <= Cardinality(Signals) + Cardinality(Lookers)))'
    BY Looking, PTL
  <2>5. connection_cond # {} =>
          Len(completed_queue) <= Cardinality(Signals) + Cardinality(Lookers)
    BY Looking DEF IInv, Waiting
  <2>6. Cardinality(Lookers') \in Nat /\ Cardinality(Signals) \in Nat
    BY CountsFinite, CountsFiniteNext DEF Finitely
  <2>7. connection_cond # {} =>
          Len(t) <= Cardinality(Signals) + Cardinality(Lookers')
    BY <1>1, <1>2, <2>2, <2>5, <2>6
  <2>8. NoLostAccept'
    BY <1>5, <2>3, <2>4, <2>7
  <2>9. \A b \in connection_cond : b # a /\ b \in Acceptors
    BY DEF Dequeue, IInv, TypeOK, Waiting
  <2> QED BY <1>5, <1>8, <2>8, <2>9 DEF IInv, Waiting
<1>22. SocketPlaces' /\ SearchesSucceed'
  BY <1>5, Kept
<1> QED BY <1>12, <1>13, <1>15, <1>16, <1>17, <1>18, <1>19, <1>20, <1>21, <1>22
        DEF IInv

LEMMA DequeueStep ==
  ASSUME ListenSd = 0, IInv, NEW a \in Acceptors, Dequeue(a)
  PROVE  IInv'
  BY DequeueWaits, DequeueTakes

\* The slot that was taken becomes free.
LEMMA InvalidateStep ==
  ASSUME ListenSd = 0, IInv, NEW a \in Acceptors, Invalidate(a)
  PROVE  IInv'
<1> USE DEF recvVars, tcpVars, stcpVars
<1>1. CASE cur_len = 0 /\ Abort("cur_len")
  BY <1>1, AbortStep
<1>2. CASE ~(cur_len = 0 /\ Abort("cur_len"))
  <2> DEFINE k == request[a].slot
  <2>1. /\ app_pc[a] = "zeroed"
        /\ connection_queue' = [connection_queue EXCEPT ![k] = Empty]
        /\ app_pc' = [app_pc EXCEPT ![a] = "load"]
        /\ UNCHANGED << completed_queue, cur_len, connection_cond, request, app_reg,
                        held, main_pc, recvVars, tcpVars, stcpVars, aborted >>
    BY <1>2 DEF Invalidate
  <2>2. /\ k \in Slots /\ connection_queue[k] = Zeroed
        /\ recv_pc = "clear" => k # queue_entry
        /\ main_pc \notin {"close_queued", "closed"}
    BY <2>1 DEF IInv, Requests, Taking, Closing
  <2> HIDE DEF k
  <2>3. /\ Empty.sd = -1 /\ Zeroed.sd = 0 /\ Empty # Zeroed /\ ConnSds \subseteq Sds
        /\ 0 \in Sds /\ 0 \notin ConnSds /\ -1 \notin Sds
        /\ Empty \in [sd : {-1} \cup Sds, peer : Peers \cup {NoPeer}]
    BY ListenAssumption DEF Empty, Zeroed, ConnSds, Sds
  <2>4. /\ connection_queue' \in [Slots -> [sd : {-1} \cup Sds,
                                            peer : Peers \cup {NoPeer}]]
        /\ connection_queue'[k] = Empty
        /\ \A j \in Slots : j # k => connection_queue'[j] = connection_queue[j]
    BY <2>1, <2>2, <2>3 DEF IInv, TypeOK
  <2>5. /\ app_pc' \in [Acceptors -> {"idle", "dequeue", "wait", "zeroed", "load",
                                      "dec"}]
        /\ app_pc'[a] = "load"
        /\ \A b \in Acceptors : b # a => app_pc'[b] = app_pc[b]
    BY <2>1 DEF IInv, TypeOK
  <2>6. /\ \A b \in Acceptors : Taking(b)' <=> Taking(b)
        /\ \A b \in Acceptors : b # a => app_pc[b] # "zeroed"
        /\ \A b \in Acceptors : app_pc'[b] # "zeroed"
    BY <2>1, <2>5 DEF Taking, IInv, Requests
  <2>7. \A j \in Slots : connection_queue[j].sd \in ConnSds
                          \/ connection_queue'[j].sd \in ConnSds =>
          j # k /\ connection_queue'[j] = connection_queue[j]
    BY <2>2, <2>3, <2>4
  <2>8. TypeOK'
    BY <2>1, <2>4, <2>5 DEF IInv, TypeOK
  <2>9. SlotsKept'
    <3>1. ASSUME NEW j \in Slots
          PROVE  \/ connection_queue'[j] \in {Empty, Zeroed}
                 \/ /\ connection_queue'[j].sd \in ConnSds
                    /\ stcp_pc[connection_queue'[j].sd] # "none"
      BY <2>4 DEF IInv, SlotsKept
    <3>2. ASSUME NEW i \in Slots, NEW j \in Slots,
                 connection_queue'[i].sd = connection_queue'[j].sd,
                 connection_queue'[j].sd \in ConnSds
          PROVE  i = j
      BY <2>7, <3>2 DEF IInv, SlotsKept
    <3>3. ASSUME NEW j \in Slots, connection_queue'[j] = Zeroed
          PROVE  recv_pc = "clear" /\ queue_entry = j
      <4>1. j # k /\ connection_queue[j] = Zeroed
        BY <2>3, <2>4, <3>3
      <4>2. \/ recv_pc = "clear" /\ queue_entry = j
            \/ \E b \in Acceptors : app_pc[b] = "zeroed" /\ request[b].slot = j
        BY <4>1 DEF IInv, SlotsKept
      <4> QED BY <2>6, <4>1, <4>2 DEF k
    <3> QED BY <2>1, <3>1, <3>2, <3>3 DEF SlotsKept
  <2>10. Requests'
    BY <2>1, <2>6 DEF IInv, Requests
  <2>11. Reception'
    <3>1. queue_entry \in Slots => \/ queue_entry = k
                                   \/ connection_queue'[queue_entry]
                                        = connection_queue[queue_entry]
      BY <2>4
    <3> QED BY <2>1, <2>2, <2>4, <3>1 DEF IInv, Reception
  <2>12. \A sd \in Sds : stcp_pc[sd] # "none" => sd \in ConnSds
    BY DEF IInv, Transport, ConnSds
  <2>13. Transport'
    <3>1. ASSUME NEW sd \in Sds, stcp_pc[sd] # "none", NEW j \in Slots,
                 connection_queue[j].sd = sd
          PROVE  connection_queue'[j].sd = sd
      BY <2>7, <2>12, <3>1
    <3> QED BY <2>1, <3>1 DEF IInv, Transport
  <2>14. Completion'
    <3>1. ASSUME NEW i \in 1 .. Len(completed_queue)
          PROVE  /\ connection_queue'[completed_queue[i]].sd \in ConnSds
                 /\ stcp_pc[connection_queue'[completed_queue[i]].sd] \in Done
      <4>1. completed_queue[i] \in Slots
        BY DEF IInv, TypeOK
      <4> QED BY <2>2, <2>7, <4>1 DEF IInv, Completion
    <3> QED BY <2>1, <3>1 DEF IInv, Completion
  <2>15. Closing'
    BY <2>1, <2>2 DEF IInv, Closing
  <2>16. Ownership'
    <3>1. ASSUME NEW j \in Slots
          PROVE  /\ connection_queue'[j].sd \notin held
                 /\ \A b \in Acceptors :
                      Taking(b) => connection_queue'[j].sd # request[b].sd
      BY <2>3, <2>4 DEF IInv, Ownership, Requests
    <3>2. ASSUME NEW sd \in Sds, stcp_pc[sd] # "none"
          PROVE  \/ \E j \in Slots : connection_queue'[j].sd = sd
                 \/ \E b \in Acceptors : request[b].sd = sd
                 \/ sd \in held \/ failed[sd]
      BY <2>7, <2>12, <3>2 DEF IInv, Ownership
    <3> QED BY <2>1, <2>6, <3>1, <3>2 DEF IInv, Ownership
  <2>17. Waiting'
    <3>1. Lookers \subseteq Lookers'
      BY <2>1, <2>5 DEF Lookers
    <3>2. NoLostAccept'
      BY <2>1, <3>1, MoreLook, CountsFiniteNext DEF Finitely
    <3>3. a \notin connection_cond /\ connection_cond \subseteq Acceptors
      BY <2>1 DEF IInv, Waiting, TypeOK
    <3> QED BY <2>1, <2>5, <3>2, <3>3 DEF IInv, Waiting
  <2>18. SocketPlaces' /\ SearchesSucceed'
    BY <2>1, Kept
  <2> QED BY <2>8, <2>9, <2>10, <2>11, <2>13, <2>14, <2>15, <2>16, <2>17, <2>18
          DEF IInv
<1> QED BY <1>1, <1>2

----------------------------------------------------------------------------
(* The transport thread of a connection.                                   *)

\* A transport thread that goes on: what it had done remains done.
LEMMA StcpGoes ==
  ASSUME IInv, NEW c \in Sds, NEW pc \in {"complete", "append", "signal", "run",
                                          "end"},
         stcp_pc' = [stcp_pc EXCEPT ![c] = pc], stcp_pc[c] # "none",
         stcp_pc[c] \in Done => pc \in Done,
         pc \in {"append", "signal"} => main_pc \notin {"close_queued", "closed"},
         \A sd \in Sds : sd # c => failed'[sd] = failed[sd],
         \/ failed'[c] = failed[c]
         \/ \E k \in Slots : connection_queue[k].sd = c,
         UNCHANGED << connection_queue, app_pc, request, held, main_pc, recvVars,
                      tcpVars, sock, aborted >>
  PROVE  /\ SlotsKept' /\ Requests' /\ Reception' /\ Closing' /\ Ownership'
         /\ SocketPlaces' /\ SearchesSucceed'
         /\ UNCHANGED completed_queue => Completion'
         /\ UNCHANGED connection_req /\ pc # "append"
              /\ (pc = "complete" => stcp_pc[c] = "init") => Transport'
         /\ UNCHANGED << completed_queue, connection_cond >> /\ pc # "signal"
              /\ stcp_pc[c] # "signal" => Waiting'
         /\ stcp_pc' \in [Sds -> {"none", "init", "complete", "append", "signal",
                                  "run", "end"}]
         /\ stcp_pc'[c] = pc /\ \A sd \in Sds : sd # c => stcp_pc'[sd] = stcp_pc[sd]
<1> USE DEF recvVars, tcpVars
<1>1. /\ stcp_pc' \in [Sds -> {"none", "init", "complete", "append", "signal",
                               "run", "end"}]
      /\ stcp_pc'[c] = pc /\ \A sd \in Sds : sd # c => stcp_pc'[sd] = stcp_pc[sd]
  BY DEF IInv, TypeOK
<1>2. \A sd \in Sds : /\ stcp_pc'[sd] = "none" <=> stcp_pc[sd] = "none"
                      /\ stcp_pc[sd] \in Done => stcp_pc'[sd] \in Done
  BY <1>1
<1>3. ConnSds \subseteq Sds /\ ListenSd \in Sds /\ c # ListenSd
  BY ListenAssumption DEF ConnSds, IInv, Transport
<1>4. \A b \in Acceptors : Taking(b)' <=> Taking(b)
  BY DEF Taking
<1>5. SlotsKept'
  BY <1>2, <1>3 DEF IInv, SlotsKept
<1>6. Requests'
  BY <1>2, <1>3, <1>4 DEF IInv, Requests
<1>7. Closing'
  BY <1>1 DEF IInv, Closing, UsedSlots
<1>8. Ownership'
  <2>1. held \subseteq ConnSds /\ \A sd \in held : stcp_pc'[sd] \in Done
    BY <1>2, <1>3 DEF IInv, Ownership
  <2>2. ASSUME NEW sd \in Sds, stcp_pc'[sd] # "none"
        PROVE  \/ \E k \in Slots : connection_queue[k].sd = sd
               \/ \E b \in Acceptors : request[b].sd = sd
               \/ sd \in held \/ failed'[sd]
    <3>1. \/ \E k \in Slots : connection_queue[k].sd = sd
          \/ \E b \in Acceptors : request[b].sd = sd
          \/ sd \in held \/ failed[sd]
      BY <1>2, <2>2 DEF IInv, Ownership
    <3> QED BY <3>1
  <2> QED BY <1>4, <2>1, <2>2 DEF IInv, Ownership
<1>9. SocketPlaces'
  BY <1>2 DEF IInv, SocketPlaces
<1>10. ASSUME UNCHANGED completed_queue PROVE Completion'
  BY <1>2, <1>3, <1>10 DEF IInv, Completion
<1>11. ASSUME UNCHANGED connection_req, pc # "append",
              pc = "complete" => stcp_pc[c] = "init"
       PROVE  Transport'
  BY <1>1, <1>3, <1>11 DEF IInv, Transport
<1>12. ASSUME UNCHANGED << completed_queue, connection_cond >>, pc # "signal",
              stcp_pc[c] # "signal"
       PROVE  Waiting'
  <2>1. {sd \in Sds : stcp_pc'[sd] = "signal"}
          = {sd \in Sds : stcp_pc[sd] = "signal"}
    BY <1>1, <1>12
  <2> QED BY <1>12, <2>1 DEF IInv, Waiting, NoLostAccept
<1>13. Reception' /\ SearchesSucceed'
  BY Kept
<1> QED BY <1>1, <1>5, <1>6, <1>7, <1>8, <1>9, <1>10, <1>11, <1>12, <1>13

LEMMA UnblockStep ==
  ASSUME IInv, NEW c \in Sds, NEW ok \in BOOLEAN, Unblock(c, ok)
  PROVE  IInv'
<1> USE DEF queueVars, appVars, recvVars, tcpVars
<1>1. /\ stcp_pc[c] = "init" /\ stcp_pc' = [stcp_pc EXCEPT ![c] = "complete"]
      /\ failed' = [failed EXCEPT ![c] = ~ok]
      /\ UNCHANGED << queueVars, appVars, main_pc, recvVars, tcpVars,
                      connection_req, sock, closing, aborted >>
  BY DEF Unblock
<1>2. /\ failed' \in [Sds -> BOOLEAN]
      /\ \A sd \in Sds : sd # c => failed'[sd] = failed[sd]
  BY <1>1 DEF IInv, TypeOK
<1>3. \E k \in Slots : connection_queue[k].sd = c
  BY <1>1 DEF IInv, Transport
<1>4. stcp_pc[c] # "none" /\ stcp_pc[c] \notin Done
  BY <1>1 DEF Done
<1>5. /\ SlotsKept' /\ Requests' /\ Reception' /\ Closing' /\ Ownership'
      /\ SocketPlaces' /\ SearchesSucceed' /\ Completion' /\ Transport' /\ Waiting'
      /\ stcp_pc' \in [Sds -> {"none", "init", "complete", "append", "signal",
                               "run", "end"}]
  BY <1>1, <1>2, <1>3, <1>4, StcpGoes
<1>6. TypeOK'
  BY <1>1, <1>2, <1>5 DEF IInv, TypeOK
<1> QED BY <1>5, <1>6 DEF IInv

\* The slot of the connection is found.
LEMMA FindRequestStep ==
  ASSUME IInv, NEW c \in Sds, FindRequest(c)
  PROVE  IInv'
<1> USE DEF queueVars, appVars, recvVars, tcpVars
<1>1. /\ stcp_pc[c] = "complete" /\ main_pc # "close_queued"
  BY DEF FindRequest, WriteLocked
<1>2. PICK j \in Slots : connection_queue[j].sd = c
  BY <1>1 DEF IInv, Transport
<1> DEFINE k == Min(SlotsOf(c))
<1>3. k \in Slots /\ connection_queue[k].sd = c /\ SlotsOf(c) # {}
  <2>1. SlotsOf(c) # {} /\ SlotsOf(c) \subseteq Slots
    BY <1>2 DEF SlotsOf
  <2>2. Slots \subseteq Nat
    BY DEF Slots
  <2>3. k \in SlotsOf(c)
    BY <2>1, <2>2, MinIn
  <2> QED BY <2>1, <2>3 DEF SlotsOf
<1>4. /\ connection_req' = [connection_req EXCEPT ![c] = k]
      /\ stcp_pc' = [stcp_pc EXCEPT ![c] = "append"]
      /\ UNCHANGED << queueVars, appVars, main_pc, recvVars, tcpVars, failed,
                      sock, closing, aborted >>
  BY <1>3 DEF FindRequest
<1> HIDE DEF k
<1>5. main_pc # "closed"
  <2>1. ASSUME main_pc = "closed" PROVE FALSE
    <3>1. UsedSlots = {}
      BY <2>1 DEF IInv, Closing
    <3> QED BY <1>2, <3>1 DEF UsedSlots, Sds
  <2> QED BY <2>1
<1>6. stcp_pc[c] # "none" /\ stcp_pc[c] \notin Done
  BY <1>1 DEF Done
<1>7. /\ SlotsKept' /\ Requests' /\ Reception' /\ Closing' /\ Ownership'
      /\ SocketPlaces' /\ SearchesSucceed' /\ Completion' /\ Waiting'
      /\ stcp_pc' \in [Sds -> {"none", "init", "complete", "append", "signal",
                               "run", "end"}]
      /\ stcp_pc'[c] = "append"
      /\ \A sd \in Sds : sd # c => stcp_pc'[sd] = stcp_pc[sd]
  BY <1>1, <1>4, <1>5, <1>6, StcpGoes
<1>8. /\ connection_req' \in [Sds -> {0} \cup Slots] /\ connection_req'[c] = k
      /\ \A sd \in Sds : sd # c => connection_req'[sd] = connection_req[sd]
  BY <1>3, <1>4 DEF IInv, TypeOK
<1>9. TypeOK'
  BY <1>4, <1>7, <1>8 DEF IInv, TypeOK
<1>10. Transport'
  <2>1. c # ListenSd /\ ListenSd \in Sds
    BY <1>1, ListenAssumption DEF IInv, Transport
  <2> QED BY <1>3, <1>4, <1>7, <1>8, <2>1 DEF IInv, Transport
<1> QED BY <1>7, <1>9, <1>10 DEF IInv

\* A sequence with one more element.
LEMMA AppendLast ==
  ASSUME NEW A, NEW q \in Seq(A), NEW x \in A
  PROVE  /\ Append(q, x) \in Seq(A) /\ Len(Append(q, x)) = Len(q) + 1
         /\ Len(q) \in Nat /\ Append(q, x)[Len(q) + 1] = x
         /\ \A i \in 1 .. Len(q) : Append(q, x)[i] = q[i]
         /\ \A i \in 1 .. Len(Append(q, x)) : i \in 1 .. Len(q) \/ i = Len(q) + 1
  OBVIOUS

\* A connection comes on the list, and its signal is still to be sent.
LEMMA AppendCompletedStep ==
  ASSUME IInv, NEW c \in Sds, AppendCompleted(c)
  PROVE  IInv'
<1> USE DEF appVars, recvVars, tcpVars
<1> DEFINE k == connection_req[c]
           q == completed_queue
           t == Append(q, k)
<1>1. /\ stcp_pc[c] = "append" /\ stcp_pc' = [stcp_pc EXCEPT ![c] = "signal"]
      /\ connection_req' = [connection_req EXCEPT ![c] = 0]
      /\ completed_queue' = t
      /\ UNCHANGED << connection_queue, cur_len, connection_cond, appVars, main_pc,
                      recvVars, tcpVars, failed, sock, closing, aborted >>
  BY DEF AppendCompleted
<1>2. /\ k \in Slots /\ connection_queue[k].sd = c /\ q \in Seq(Slots)
      /\ main_pc \notin {"close_queued", "closed"}
      /\ c \in ConnSds
  BY <1>1 DEF IInv, Transport, TypeOK, Closing, ConnSds
<1>3. stcp_pc[c] # "none" /\ stcp_pc[c] \notin Done /\ "signal" \in Done
  BY <1>1 DEF Done
<1>4. /\ SlotsKept' /\ Requests' /\ Reception' /\ Closing' /\ Ownership'
      /\ SocketPlaces' /\ SearchesSucceed'
      /\ stcp_pc' \in [Sds -> {"none", "init", "complete", "append", "signal",
                               "run", "end"}]
      /\ stcp_pc'[c] = "signal"
      /\ \A sd \in Sds : sd # c => stcp_pc'[sd] = stcp_pc[sd]
  BY <1>1, <1>2, <1>3, StcpGoes
<1>5. /\ t \in Seq(Slots) /\ Len(t) = Len(q) + 1 /\ Len(q) \in Nat
      /\ t[Len(q) + 1] = k
      /\ \A i \in 1 .. Len(q) : t[i] = q[i]
      /\ \A i \in 1 .. Len(t) : i \in 1 .. Len(q) \/ i = Len(q) + 1
  BY <1>2, AppendLast
<1> HIDE DEF k, t
<1>6. /\ connection_req' \in [Sds -> {0} \cup Slots]
      /\ \A sd \in Sds : sd # c => connection_req'[sd] = connection_req[sd]
  BY <1>1 DEF IInv, TypeOK
<1>7. TypeOK'
  BY <1>1, <1>4, <1>5, <1>6 DEF IInv, TypeOK
<1>8. Transport'
  <2>1. c # ListenSd /\ ListenSd \in Sds
    BY <1>2, ListenAssumption DEF ConnSds
  <2> QED BY <1>1, <1>4, <1>6, <2>1 DEF IInv, Transport
<1>9. Completion'
  <2>1. ASSUME NEW i \in 1 .. Len(q)
        PROVE  /\ connection_queue[q[i]].sd \in ConnSds /\ q[i] # k
               /\ stcp_pc[connection_queue[q[i]].sd] \in Done
    BY <1>2, <1>3 DEF IInv, Completion
  <2>2. ASSUME NEW i \in 1 .. Len(t), NEW j \in 1 .. Len(t), t[i] = t[j]
        PROVE  i = j
    <3>1. CASE i \in 1 .. Len(q) /\ j \in 1 .. Len(q)
      BY <1>5, <2>2, <3>1 DEF IInv, Completion
    <3>2. CASE ~(i \in 1 .. Len(q) /\ j \in 1 .. Len(q))
      BY <1>5, <2>1, <2>2, <3>2
    <3> QED BY <3>1, <3>2
  <2>3. ASSUME NEW i \in 1 .. Len(t)
        PROVE  /\ connection_queue[t[i]].sd \in ConnSds
               /\ stcp_pc'[connection_queue[t[i]].sd] \in Done
    <3>1. CASE i \in 1 .. Len(q)
      <4>1. /\ connection_queue[q[i]].sd \in ConnSds
            /\ stcp_pc[connection_queue[q[i]].sd] \in Done
        BY <2>1, <3>1
      <4> QED BY <1>3, <1>4, <1>5, <3>1, <4>1 DEF ConnSds
    <3>2. CASE i = Len(q) + 1
      BY <1>2, <1>3, <1>4, <1>5, <3>2
    <3> QED BY <1>5, <3>1, <3>2
  <2> QED BY <1>1, <2>2, <2>3 DEF Completion
<1>10. Waiting'
  <2>1. Signals' = Signals \cup {c} /\ c \notin Signals
    BY <1>1, <1>4 DEF Signals
  <2>2. Cardinality(Signals') = Cardinality(Signals) + 1
    BY <2>1, CardAdd, CountsFinite DEF Finitely
  <2>3. Lookers' = Lookers
    BY <1>1 DEF Lookers
  <2>4. (NoLostAccept <=> (connection_cond # {} =>
          Len(completed_queue) <= Cardinality(Signals) + Cardinality(Lookers)))'
    BY Looking, PTL
  <2>5. connection_cond # {} =>
          Len(q) <= Cardinality(Signals) + Cardinality(Lookers)
    BY Looking DEF IInv, Waiting
  <2>6. Cardinality(Lookers) \in Nat /\ Cardinality(Signals) \in Nat
    BY CountsFinite DEF Finitely
  <2>7. connection_cond # {} =>
          Len(t) <= Cardinality(Signals') + Cardinality(Lookers)
    BY <1>5, <2>2, <2>5, <2>6
  <2>8. NoLostAccept'
    BY <1>1, <2>3, <2>4, <2>7
  <2> QED BY <1>1, <2>8 DEF IInv, Waiting
<1> QED BY <1>4, <1>7, <1>8, <1>9, <1>10 DEF IInv

\* A signal is sent: one more acceptor looks, unless none waits.
LEMMA SignalCompletedStep ==
  ASSUME IInv, NEW c \in Sds, SignalCompleted(c)
  PROVE  IInv'
<1> USE DEF appVars, recvVars, tcpVars
<1>1. PICK pc \in {"run", "end"} :
        /\ stcp_pc[c] = "signal" /\ stcp_pc' = [stcp_pc EXCEPT ![c] = pc]
        /\ UNCHANGED << connection_queue, completed_queue, cur_len, appVars,
                        main_pc, recvVars, tcpVars, failed, connection_req, sock,
                        closing, aborted >>
  BY DEF SignalCompleted
<1>2. \/ connection_cond' = {}
      \/ \E a \in connection_cond : connection_cond' = connection_cond \ {a}
  BY DEF SignalCompleted, Woken
<1>3. stcp_pc[c] # "none" /\ stcp_pc[c] \in Done /\ pc \in Done
      /\ pc \in {"complete", "append", "signal", "run", "end"}
      /\ pc \notin {"append", "signal", "complete"}
  BY <1>1 DEF Done
<1>4. /\ SlotsKept' /\ Requests' /\ Reception' /\ Closing' /\ Ownership'
      /\ SocketPlaces' /\ SearchesSucceed' /\ Completion' /\ Transport'
      /\ stcp_pc' \in [Sds -> {"none", "init", "complete", "append", "signal",
                               "run", "end"}]
      /\ stcp_pc'[c] = pc
      /\ \A sd \in Sds : sd # c => stcp_pc'[sd] = stcp_pc[sd]
  BY <1>1, <1>3, StcpGoes
<1>5. connection_cond' \subseteq connection_cond
  BY <1>2
<1>6. TypeOK'
  BY <1>1, <1>4, <1>5 DEF IInv, TypeOK
<1>7. NoLostAccept'
  <2>1. (NoLostAccept <=> (connection_cond # {} =>
          Len(completed_queue) <= Cardinality(Signals) + Cardinality(Lookers)))'
    BY Looking, PTL
  <2>2. CASE connection_cond' = {}
    BY <2>1, <2>2
  <2>3. ASSUME NEW a \in connection_cond, connection_cond' = connection_cond \ {a}
        PROVE  NoLostAccept'
    <3>1. app_pc[a] = "wait" /\ a \in Acceptors
      BY DEF IInv, Waiting, TypeOK
    <3>2. Lookers' = Lookers \cup {a} /\ a \notin Lookers
      BY <1>1, <2>3, <3>1 DEF Lookers
    <3>3. Signals = Signals' \cup {c} /\ c \notin Signals'
      BY <1>1, <1>3, <1>4 DEF Signals
    <3>4. Cardinality(Lookers') = Cardinality(Lookers) + 1
      BY <3>2, CardAdd, CountsFinite DEF Finitely
    <3>5. Cardinality(Signals) = Cardinality(Signals') + 1
      BY <3>3, CardAdd, CountsFiniteNext DEF Finitely
    <3>6. Len(completed_queue) <= Cardinality(Signals) + Cardinality(Lookers)
      BY Looking DEF IInv, Waiting
    <3>7. /\ Cardinality(Lookers) \in Nat /\ Cardinality(Signals') \in Nat
          /\ Len(completed_queue) \in Nat
      BY CountsFinite, CountsFiniteNext DEF Finitely, IInv, TypeOK
    <3>8. Len(completed_queue) <= Cardinality(Signals') + Cardinality(Lookers')
      BY <3>4, <3>5, <3>6, <3>7
    <3> QED BY <1>1, <2>1, <3>8
  <2> QED BY <1>2, <2>2, <2>3
<1>8. Waiting'
  BY <1>1, <1>5, <1>7 DEF IInv, Waiting
<1> QED BY <1>4, <1>6, <1>8 DEF IInv

LEMMA TransportEndStep ==
  ASSUME IInv, NEW c \in Sds, TransportEnd(c)
  PROVE  IInv'
<1> USE DEF queueVars, appVars, recvVars, tcpVars
<1>1. /\ stcp_pc[c] = "run" /\ stcp_pc' = [stcp_pc EXCEPT ![c] = "end"]
      /\ UNCHANGED << queueVars, appVars, main_pc, recvVars, tcpVars, failed,
                      connection_req, sock, closing, aborted >>
  BY DEF TransportEnd
<1>2. stcp_pc[c] # "none" /\ "end" \in Done
  BY <1>1 DEF Done
<1>3. /\ SlotsKept' /\ Requests' /\ Reception' /\ Closing' /\ Ownership'
      /\ SocketPlaces' /\ SearchesSucceed' /\ Completion' /\ Transport' /\ Waiting'
      /\ stcp_pc' \in [Sds -> {"none", "init", "complete", "append", "signal",
                               "run", "end"}]
  BY <1>1, <1>2, StcpGoes
<1>4. TypeOK'
  BY <1>1, <1>3 DEF IInv, TypeOK
<1> QED BY <1>3, <1>4 DEF IInv

----------------------------------------------------------------------------
(* myclose().                                                              *)

LEMMA CloseAcceptedStep ==
  ASSUME IInv, NEW c \in Sds, CloseAccepted(c)
  PROVE  IInv'
<1> USE DEF queueVars, appVars, recvVars, tcpVars
<1>1. /\ closing' = closing \cup {c}
      /\ UNCHANGED << queueVars, appVars, main_pc, recvVars, tcpVars, stcp_pc,
                      failed, connection_req, sock, aborted >>
  BY DEF CloseAccepted
<1>2. TypeOK'
  BY <1>1 DEF IInv, TypeOK
<1>3. /\ SlotsKept' /\ Requests' /\ Reception' /\ Transport' /\ Completion'
      /\ Closing' /\ Ownership' /\ SocketPlaces' /\ Waiting' /\ SearchesSucceed'
  BY <1>1, Kept
<1> QED BY <1>2, <1>3 DEF IInv

\* The context is freed, and its TCP socket closed.
LEMMA FreeSocket ==
  ASSUME IInv, NEW c \in Sds, Free(c), stcp_pc[c] = "end",
         UNCHANGED << new_socket, tcp_backlog, attempts >>
  PROVE  /\ stcp_pc' \in [Sds -> {"none", "init", "complete", "append", "signal",
                                  "run", "end"}]
         /\ failed' \in [Sds -> BOOLEAN] /\ sock' \in [Sds -> 0 .. Len(attempts)]
         /\ released' \subseteq 0 .. Len(attempts) /\ closing' \subseteq Sds
         /\ stcp_pc'[c] = "none"
         /\ \A sd \in Sds : sd # c => /\ stcp_pc'[sd] = stcp_pc[sd]
                                      /\ failed'[sd] = failed[sd]
         /\ SocketPlaces' /\ Signals' = Signals
<1>1. /\ stcp_pc' = [stcp_pc EXCEPT ![c] = "none"]
      /\ failed' = [failed EXCEPT ![c] = FALSE]
      /\ sock' = [sock EXCEPT ![c] = 0] /\ released' = released \cup {sock[c]}
      /\ closing' = closing \ {c}
  BY DEF Free, Release
<1>2. /\ stcp_pc' \in [Sds -> {"none", "init", "complete", "append", "signal",
                               "run", "end"}]
      /\ stcp_pc'[c] = "none"
      /\ \A sd \in Sds : sd # c => stcp_pc'[sd] = stcp_pc[sd]
  BY <1>1 DEF IInv, TypeOK
<1>3. /\ failed' \in [Sds -> BOOLEAN] /\ closing' \subseteq Sds
      /\ \A sd \in Sds : sd # c => failed'[sd] = failed[sd]
  BY <1>1 DEF IInv, TypeOK
<1>4. /\ sock \in [Sds -> 0 .. Len(attempts)] /\ attempts \in Seq(Peers)
      /\ released \subseteq 0 .. Len(attempts)
  BY DEF IInv, TypeOK
<1>5. /\ sock' \in [Sds -> 0 .. Len(attempts)] /\ sock'[c] = 0
      /\ released' \subseteq 0 .. Len(attempts)
      /\ \A sd \in Sds : sd # c => sock'[sd] = sock[sd]
  <2> DEFINE N == 0 .. Len(attempts)
  <2>1. sock \in [Sds -> N] /\ released \subseteq N /\ 0 \in N
    BY <1>4
  <2> HIDE DEF N
  <2>2. /\ sock' \in [Sds -> N] /\ sock'[c] = 0 /\ released' \subseteq N
        /\ \A sd \in Sds : sd # c => sock'[sd] = sock[sd]
    BY <1>1, <2>1
  <2> QED BY <2>2 DEF N
<1>6. sock[c] # 0
  BY DEF IInv, SocketPlaces
<1>7. SocketPlaces'
  <2>1. \A sd \in Sds : stcp_pc'[sd] = "none" <=> sock'[sd] = 0
    BY <1>2, <1>5 DEF IInv, SocketPlaces
  <2>2. \A b, d \in Sds : sock'[b] = sock'[d] /\ sock'[d] # 0 => b = d
    BY <1>5 DEF IInv, SocketPlaces
  <2>3. ASSUME NEW sd \in Sds, sock'[sd] # 0
        PROVE  /\ sock'[sd] # new_socket /\ sock'[sd] \notin released'
               /\ \A j \in 1 .. Len(tcp_backlog) : tcp_backlog[j] # sock'[sd]
    <3>1. sd # c /\ sock'[sd] = sock[sd]
      BY <1>5, <2>3
    <3> QED BY <1>1, <2>3, <3>1 DEF IInv, SocketPlaces
  <2>4. new_socket # 0 => new_socket \notin released'
    BY <1>1, <1>6 DEF IInv, SocketPlaces
  <2>5. \A j \in 1 .. Len(tcp_backlog) : tcp_backlog[j] \notin released'
    BY <1>1, <1>6 DEF IInv, SocketPlaces
  <2>6. ASSUME NEW i \in 1 .. Len(attempts)
        PROVE  \/ \E sd \in Sds : sock'[sd] = i
               \/ new_socket = i \/ i \in released'
               \/ \E j \in 1 .. Len(tcp_backlog) : tcp_backlog[j] = i
    <3>1. \/ \E sd \in Sds : sock[sd] = i
          \/ new_socket = i \/ i \in released
          \/ \E j \in 1 .. Len(tcp_backlog) : tcp_backlog[j] = i
      BY DEF IInv, SocketPlaces
    <3> QED BY <1>1, <1>5, <3>1
  <2> QED BY <2>1, <2>2, <2>3, <2>4, <2>5, <2>6 DEF IInv, SocketPlaces
<1>8. Signals' = Signals
  BY <1>2 DEF Signals
<1> QED BY <1>2, <1>3, <1>5, <1>7, <1>8

LEMMA FreeAcceptedStep ==
  ASSUME IInv, NEW c \in Sds, FreeAccepted(c)
  PROVE  IInv'
<1> USE DEF queueVars, recvVars
<1>1. /\ c \in held /\ stcp_pc[c] = "end" /\ Free(c) /\ held' = held \ {c}
      /\ UNCHANGED << queueVars, app_pc, request, app_reg, main_pc, recvVars,
                      new_socket, tcp_backlog, attempts, aborted, connection_req >>
  BY DEF FreeAccepted, Free
<1>2. /\ stcp_pc' \in [Sds -> {"none", "init", "complete", "append", "signal",
                               "run", "end"}]
      /\ failed' \in [Sds -> BOOLEAN] /\ sock' \in [Sds -> 0 .. Len(attempts)]
      /\ released' \subseteq 0 .. Len(attempts) /\ closing' \subseteq Sds
      /\ stcp_pc'[c] = "none"
      /\ \A sd \in Sds : sd # c => /\ stcp_pc'[sd] = stcp_pc[sd]
                                   /\ failed'[sd] = failed[sd]
      /\ SocketPlaces' /\ Signals' = Signals
  BY <1>1, FreeSocket
<1>3. /\ \A k \in Slots : connection_queue[k].sd # c
      /\ \A a \in Acceptors : request[a].sd # c
      /\ ConnSds \subseteq Sds /\ ListenSd \in Sds /\ c # ListenSd
  BY <1>1, ListenAssumption DEF IInv, Ownership, ConnSds
<1>4. TypeOK'
  BY <1>1, <1>2 DEF IInv, TypeOK
<1>5. \A a \in Acceptors : Taking(a)' <=> Taking(a)
  BY <1>1 DEF Taking
<1>6. SlotsKept'
  BY <1>1, <1>2, <1>3 DEF IInv, SlotsKept
<1>7. Requests'
  BY <1>1, <1>2, <1>3, <1>5 DEF IInv, Requests
<1>8. Transport'
  BY <1>1, <1>2, <1>3 DEF IInv, Transport
<1>9. Completion'
  <2>1. \A i \in 1 .. Len(completed_queue) : completed_queue[i] \in Slots
    BY DEF IInv, TypeOK
  <2> QED BY <1>1, <1>2, <1>3, <2>1 DEF IInv, Completion
<1>10. Closing'
  BY <1>1, <1>2 DEF IInv, Closing, UsedSlots
<1>11. Ownership'
  <2>1. held' \subseteq ConnSds /\ \A sd \in held' : stcp_pc'[sd] \in Done
    BY <1>1, <1>2, <1>3 DEF IInv, Ownership
  <2>2. ASSUME NEW sd \in Sds, stcp_pc'[sd] # "none"
        PROVE  \/ \E k \in Slots : connection_queue[k].sd = sd
               \/ \E a \in Acceptors : request[a].sd = sd
               \/ sd \in held' \/ failed'[sd]
    <3>1. sd # c
      BY <1>2, <2>2
    <3>2. \/ \E k \in Slots : connection_queue[k].sd = sd
          \/ \E a \in Acceptors : request[a].sd = sd
          \/ sd \in held \/ failed[sd]
      BY <1>2, <2>2, <3>1 DEF IInv, Ownership
    <3> QED BY <1>1, <1>2, <3>1, <3>2
  <2> QED BY <1>1, <1>5, <2>1, <2>2 DEF IInv, Ownership
<1>12. Waiting'
  BY <1>1, <1>2 DEF IInv, Waiting, NoLostAccept, Signals
<1>13. Reception' /\ SearchesSucceed'
  BY <1>1, Kept
<1> QED BY <1>2, <1>4, <1>6, <1>7, <1>8, <1>9, <1>10, <1>11, <1>12, <1>13 DEF IInv

\* myclose() of the listening mysocket up to its write lock.
LEMMA MyCloseStep ==
  ASSUME IInv, MyClose \/ JoinRecv \/ WriteLock
  PROVE  IInv'
<1> USE DEF queueVars, appVars, tcpVars, stcpVars, recvVars
<1>1. /\ main_pc' \in {"join_recv", "wrlock", "close_queued"}
      /\ main_pc # "close_queued" /\ main_pc # "closed"
      /\ main_pc' \in {"wrlock", "close_queued"} => recv_pc = "end"
      /\ main_pc' = "close_queued" => ~ReadLocked
      /\ exit_pipe' \in BOOLEAN
      /\ UNCHANGED << queueVars, appVars, recv_pc, queue_entry, recv_reg, tcpVars,
                      stcpVars, aborted >>
  BY DEF MyClose, JoinRecv, WriteLock, IInv, Closing, TypeOK
<1>2. TypeOK'
  BY <1>1 DEF IInv, TypeOK
<1>3. Completion'
  BY <1>1 DEF IInv, Completion
<1>4. Closing'
  BY <1>1 DEF Closing, ReadLocked
<1>5. /\ SlotsKept' /\ Requests' /\ Reception' /\ Transport'
      /\ Ownership' /\ SocketPlaces' /\ Waiting' /\ SearchesSucceed'
  BY <1>1, Kept
<1> QED BY <1>2, <1>3, <1>4, <1>5 DEF IInv

\* A queued connection is closed: first the request, then its context and its
\* slot, of which nobody but the queue knew.
LEMMA CloseQueuedStep ==
  ASSUME ListenSd = 0, IInv, CloseQueued
  PROVE  IInv'
<1> USE DEF appVars, recvVars
<1> DEFINE k == Min(UsedSlots)
           c == connection_queue[k].sd
<1>1. /\ main_pc = "close_queued" /\ recv_pc = "end"
      /\ \A a \in Acceptors : app_pc[a] = "idle" /\ ~Taking(a) /\ request[a].sd = -1
  BY DEF CloseQueued, IInv, Closing, Taking, Requests
<1>2. k \in Slots /\ c # -1
  <2>1. UsedSlots \subseteq Nat
    BY DEF UsedSlots, Slots
  <2>2. k \in UsedSlots
    BY <2>1, MinIn DEF CloseQueued
  <2> QED BY <2>2 DEF UsedSlots
<1>3. /\ Empty.sd = -1 /\ Zeroed.sd = 0 /\ Empty # Zeroed /\ ConnSds \subseteq Sds
      /\ -1 \notin Sds /\ ListenSd \in Sds
      /\ Empty \in [sd : {-1} \cup Sds, peer : Peers \cup {NoPeer}]
  BY ListenAssumption DEF Empty, Zeroed, ConnSds, Sds
<1>4. /\ c \in ConnSds /\ c \in Sds /\ c # ListenSd
      /\ \A j \in Slots : connection_queue[j].sd = c => j = k
  <2>1. connection_queue[k] # Zeroed
    BY <1>1, <1>2 DEF IInv, SlotsKept
  <2>2. connection_queue[k] # Empty
    BY <1>2, <1>3
  <2>3. c \in ConnSds
    BY <1>2, <2>1, <2>2 DEF IInv, SlotsKept
  <2>4. \A j \in Slots : connection_queue[j].sd = c => j = k
    BY <1>2, <2>3 DEF IInv, SlotsKept
  <2> QED BY <1>3, <2>3, <2>4 DEF ConnSds
<1>5. /\ UNCHANGED << completed_queue, cur_len, connection_cond, appVars, main_pc,
                      recvVars, new_socket, tcp_backlog, attempts, aborted >>
      /\ \/ /\ closing' = closing \cup {c}
            /\ UNCHANGED << connection_queue, stcp_pc, failed, connection_req,
                            sock, released >>
         \/ /\ stcp_pc[c] = "end" /\ Free(c)
            /\ connection_queue' = [connection_queue EXCEPT ![k] = Empty]
  BY DEF CloseQueued
<1> HIDE DEF k, c
<1>6. CASE /\ closing' = closing \cup {c}
           /\ UNCHANGED << connection_queue, stcp_pc, failed, connection_req,
                           sock, released >>
  <2>1. TypeOK'
    BY <1>4, <1>5, <1>6 DEF IInv, TypeOK
  <2>2. /\ SlotsKept' /\ Requests' /\ Reception' /\ Transport' /\ Completion'
        /\ Closing' /\ Ownership' /\ SocketPlaces' /\ Waiting' /\ SearchesSucceed'
    BY <1>5, <1>6, Kept
  <2> QED BY <2>1, <2>2 DEF IInv
<1>7. CASE /\ stcp_pc[c] = "end" /\ Free(c)
           /\ connection_queue' = [connection_queue EXCEPT ![k] = Empty]
  <2>1. /\ stcp_pc' \in [Sds -> {"none", "init", "complete", "append", "signal",
                                 "run", "end"}]
        /\ failed' \in [Sds -> BOOLEAN] /\ sock' \in [Sds -> 0 .. Len(attempts)]
        /\ released' \subseteq 0 .. Len(attempts) /\ closing' \subseteq Sds
        /\ stcp_pc'[c] = "none"
        /\ \A sd \in Sds : sd # c => /\ stcp_pc'[sd] = stcp_pc[sd]
                                     /\ failed'[sd] = failed[sd]
        /\ SocketPlaces' /\ Signals' = Signals
    BY <1>4, <1>5, <1>7, FreeSocket
  <2>2. connection_req' = connection_req
    BY <1>7 DEF Free
  <2>3. /\ connection_queue' \in [Slots -> [sd : {-1} \cup Sds,
                                            peer : Peers \cup {NoPeer}]]
        /\ connection_queue'[k] = Empty
        /\ \A j \in Slots : j # k => connection_queue'[j] = connection_queue[j]
    BY <1>2, <1>3, <1>7 DEF IInv, TypeOK
  <2>4. /\ \A a \in Acceptors : ~Taking(a)'
        /\ connection_queue[k].sd = c /\ c \notin held
    BY <1>1, <1>2, <1>5 DEF Taking, c, IInv, Ownership
  <2>5. TypeOK'
    BY <1>5, <2>1, <2>2, <2>3 DEF IInv, TypeOK
  <2>6. SlotsKept'
    <3>1. ASSUME NEW j \in Slots
          PROVE  \/ connection_queue'[j] = Empty
                 \/ /\ connection_queue'[j].sd \in ConnSds
                    /\ stcp_pc'[connection_queue'[j].sd] # "none"
      <4>1. CASE j = k
        BY <2>3, <4>1
      <4>2. CASE j # k
        <5>1. connection_queue[j] # Zeroed
          BY <1>1 DEF IInv, SlotsKept
        <5>2. \/ connection_queue[j] = Empty
              \/ /\ connection_queue[j].sd \in ConnSds
                 /\ stcp_pc[connection_queue[j].sd] # "none"
          BY <5>1 DEF IInv, SlotsKept
        <5>3. connection_queue[j].sd # c /\ connection_queue'[j] = connection_queue[j]
          BY <1>4, <2>3, <4>2
        <5> QED BY <1>3, <2>1, <5>2, <5>3
      <4> QED BY <4>1, <4>2
    <3>2. ASSUME NEW i \in Slots, NEW j \in Slots,
                 connection_queue'[i].sd = connection_queue'[j].sd,
                 connection_queue'[j].sd \in ConnSds
          PROVE  i = j
      BY <1>3, <2>3, <3>2 DEF IInv, SlotsKept
    <3>3. ASSUME NEW j \in Slots, connection_queue'[j] = Zeroed
          PROVE  FALSE
      BY <1>1, <1>3, <2>3, <3>3 DEF IInv, SlotsKept
    <3> QED BY <3>1, <3>2, <3>3 DEF SlotsKept
  <2>7. Requests'
    BY <1>1, <1>5, <2>4 DEF Requests, Taking
  <2>8. Reception'
    BY <1>1, <1>5 DEF Reception
  <2>9. Transport'
    <3>1. ASSUME NEW sd \in Sds, stcp_pc'[sd] # "none", NEW j \in Slots,
                 connection_queue[j].sd = sd
          PROVE  connection_queue'[j].sd = sd
      BY <2>1, <2>3, <2>4, <3>1
    <3>2. \A sd \in Sds : stcp_pc'[sd] # "none" => stcp_pc'[sd] = stcp_pc[sd]
      BY <2>1
    <3>3. ASSUME NEW sd \in Sds, stcp_pc'[sd] \in {"init", "complete", "append"}
          PROVE  \E j \in Slots : connection_queue'[j].sd = sd
      <4>1. PICK j \in Slots : connection_queue[j].sd = sd
        BY <3>2, <3>3 DEF IInv, Transport
      <4> QED BY <3>1, <3>3, <4>1
    <3>4. ASSUME NEW sd \in Sds, stcp_pc'[sd] = "append"
          PROVE  /\ connection_req[sd] \in Slots
                 /\ connection_queue'[connection_req[sd]].sd = sd
      <4>1. /\ connection_req[sd] \in Slots
            /\ connection_queue[connection_req[sd]].sd = sd
        BY <3>2, <3>4 DEF IInv, Transport
      <4> QED BY <3>1, <3>4, <4>1
    <3>5. stcp_pc'[ListenSd] = "none"
      BY <1>3, <1>4, <2>1 DEF IInv, Transport
    <3> QED BY <2>2, <3>3, <3>4, <3>5 DEF Transport
  <2>10. Completion'
    BY <1>1, <1>5 DEF IInv, Completion
  <2>11. Closing'
    BY <1>1, <1>5, <2>1 DEF IInv, Closing
  <2>12. Ownership'
    <3>1. held \subseteq ConnSds /\ \A sd \in held : stcp_pc'[sd] \in Done
      BY <1>3, <2>1, <2>4 DEF IInv, Ownership
    <3>2. /\ \A j \in Slots : connection_queue'[j].sd \notin held
          /\ \A a \in Acceptors : request[a].sd \notin held
      BY <1>1, <1>3, <2>3, <3>1 DEF IInv, Ownership
    <3>3. ASSUME NEW sd \in Sds, stcp_pc'[sd] # "none"
          PROVE  \/ \E j \in Slots : connection_queue'[j].sd = sd
                 \/ \E a \in Acceptors : request[a].sd = sd
                 \/ sd \in held \/ failed'[sd]
      <4>1. sd # c
        BY <2>1, <3>3
      <4>2. \/ \E j \in Slots : connection_queue[j].sd = sd
            \/ \E a \in Acceptors : request[a].sd = sd
            \/ sd \in held \/ failed[sd]
        BY <2>1, <3>3, <4>1 DEF IInv, Ownership
      <4> QED BY <2>1, <2>3, <2>4, <4>1, <4>2
    <3> QED BY <1>5, <2>4, <3>1, <3>2, <3>3 DEF Ownership
  <2>13. Waiting'
    BY <1>5, <2>1 DEF IInv, Waiting, NoLostAccept, Signals
  <2>14. SearchesSucceed'
    BY <1>5, Kept
  <2> QED BY <2>1, <2>5, <2>6, <2>7, <2>8, <2>9, <2>10, <2>11, <2>12, <2>13, <2>14
          DEF IInv
<1> QED BY <1>5, <1>6, <1>7

\* The listening mysocket is freed, with a TCP socket it did not pass on.
LEMMA FreeQueueStep ==
  ASSUME IInv, FreeQueue
  PROVE  IInv'
<1> USE DEF appVars, recvVars, stcpVars
<1>1. /\ main_pc = "close_queued" /\ UsedSlots = {} /\ main_pc' = "closed"
      /\ completed_queue' = << >> /\ new_socket' = 0
      /\ released' = released \cup {new_socket}
      /\ UNCHANGED << connection_queue, cur_len, connection_cond, appVars, recvVars,
                      tcp_backlog, attempts, stcpVars, aborted >>
  BY DEF FreeQueue, Release
<1>2. TypeOK'
  <2>1. completed_queue' \in Seq(Slots)
    BY <1>1
  <2>2. /\ new_socket' \in 0 .. Len(attempts) /\ released' \subseteq 0 .. Len(attempts)
    BY <1>1 DEF IInv, TypeOK
  <2> QED BY <1>1, <2>1, <2>2 DEF IInv, TypeOK
<1>3. Completion'
  BY <1>1 DEF Completion
<1>4. Closing'
  BY <1>1 DEF IInv, Closing, UsedSlots
<1>5. SocketPlaces'
  <2>1. ASSUME NEW sd \in Sds, sock[sd] # 0
        PROVE  sock[sd] # new_socket' /\ sock[sd] \notin released'
    BY <1>1, <2>1 DEF IInv, SocketPlaces
  <2>2. ASSUME NEW j \in 1 .. Len(tcp_backlog)
        PROVE  tcp_backlog[j] \notin released'
    <3>1. tcp_backlog[j] # 0
      BY DEF IInv, TypeOK
    <3> QED BY <1>1, <3>1 DEF IInv, SocketPlaces
  <2>3. ASSUME NEW i \in 1 .. Len(attempts)
        PROVE  \/ \E sd \in Sds : sock[sd] = i
               \/ new_socket' = i \/ i \in released'
               \/ \E j \in 1 .. Len(tcp_backlog) : tcp_backlog[j] = i
    BY <1>1 DEF IInv, SocketPlaces
  <2> QED BY <1>1, <2>1, <2>2, <2>3 DEF IInv, SocketPlaces
<1>6. Waiting'
  <2>1. (NoLostAccept <=> (connection_cond # {} =>
          Len(completed_queue) <= Cardinality(Signals) + Cardinality(Lookers)))'
    BY Looking, PTL
  <2>2. Len(completed_queue') = 0
    BY <1>1
  <2>3. NoLostAccept'
    BY <2>1, <2>2, CountsFiniteNext DEF Finitely
  <2> QED BY <1>1, <2>3 DEF IInv, Waiting
<1>7. Reception'
  BY <1>1 DEF IInv, Closing, Reception
<1>8. SlotsKept' /\ Requests' /\ Transport' /\ Ownership' /\ SearchesSucceed'
  BY <1>1, Kept
<1> QED BY <1>2, <1>3, <1>4, <1>5, <1>6, <1>7, <1>8 DEF IInv

----------------------------------------------------------------------------
(* The invariant holds.                                                    *)

LEMMA InitStep == ASSUME Init PROVE IInv
<1> USE DEF Init
<1>1. TypeOK
  <2>1. /\ Empty \in [sd : {-1} \cup Sds, peer : Peers \cup {NoPeer}]
        /\ MaxUInt \in Nat /\ 0 \in 0 .. MaxUInt
    BY ListenAssumption DEF Empty
  <2>2. /\ Len(attempts) = 0 /\ attempts \in Seq(Peers)
        /\ tcp_backlog \in Seq(1 .. Len(attempts)) /\ completed_queue \in Seq(Slots)
    OBVIOUS
  <2>3. /\ new_socket \in 0 .. Len(attempts) /\ released \subseteq 0 .. Len(attempts)
        /\ sock \in [Sds -> 0 .. Len(attempts)]
    BY <2>2
  <2>4. /\ connection_queue \in [Slots -> [sd : {-1} \cup Sds,
                                           peer : Peers \cup {NoPeer}]]
        /\ app_reg \in [Acceptors -> 0 .. MaxUInt]
        /\ cur_len \in 0 .. MaxUInt /\ recv_reg \in 0 .. MaxUInt
    BY <2>1
  <2>5. /\ connection_cond \subseteq Acceptors
        /\ app_pc \in [Acceptors -> {"idle", "dequeue", "wait", "zeroed", "load",
                                     "dec"}]
        /\ request \in [Acceptors -> [slot : {0} \cup Slots, sd : {-1} \cup Sds]]
        /\ held \subseteq Sds /\ closing \subseteq Sds
    OBVIOUS
  <2> QED BY <2>2, <2>3, <2>4, <2>5 DEF TypeOK
<1>2. SlotsKept /\ Closing
  BY DEF SlotsKept, Closing, Empty, Zeroed, ConnSds, Sds
<1>3. Requests /\ Reception /\ Transport
  BY ListenAssumption DEF Requests, Taking, Reception, Transport
<1>4. Completion
  BY DEF Completion
<1>5. Ownership
  BY DEF Ownership, Taking
<1>6. SocketPlaces
  BY DEF SocketPlaces
<1>7. Waiting /\ SearchesSucceed
  BY DEF Waiting, NoLostAccept, SearchesSucceed
<1> QED BY <1>1, <1>2, <1>3, <1>4, <1>5, <1>6, <1>7 DEF IInv

LEMMA InvStep == ASSUME ListenSd = 0, IInv, [Next]_vars PROVE IInv'
<1>1. CASE UNCHANGED vars
  <2> USE DEF vars, queueVars, appVars, recvVars, tcpVars, stcpVars
  <2>1. TypeOK'
    BY <1>1 DEF IInv, TypeOK
  <2>2. /\ SlotsKept' /\ Requests' /\ Reception' /\ Transport' /\ Completion'
        /\ Closing' /\ Ownership' /\ SocketPlaces' /\ Waiting' /\ SearchesSucceed'
    BY <1>1, Kept
  <2> QED BY <2>1, <2>2 DEF IInv
<1>2. CASE \E a \in Acceptors : MyAccept(a) \/ AcceptStep(a)
  BY <1>2, MyAcceptStep, DequeueStep, InvalidateStep, LoadToDecrementStep,
     DecrementStep DEF AcceptStep
<1>3. CASE \E p \in Peers : PeerConnects(p)
  BY <1>3, PeerConnectsStep
<1>4. CASE RecvStep
  BY <1>4, RecvAcceptStep, DemuxStep, LoadToIncrementStep, IncrementStep, CreateStep,
     ClearStep, UncountStep, RecvPacketStep DEF RecvStep
<1>5. CASE RecvRead
  BY <1>5, RecvPacketStep DEF RecvRead
<1>6. ASSUME NEW sd \in Sds, StcpStep(sd) PROVE IInv'
  BY <1>6, UnblockStep, FindRequestStep, AppendCompletedStep, SignalCompletedStep
     DEF StcpStep
<1>7. ASSUME NEW sd \in Sds,
             TransportEnd(sd) \/ CloseAccepted(sd) \/ FreeAccepted(sd)
      PROVE  IInv'
  BY <1>7, TransportEndStep, CloseAcceptedStep, FreeAcceptedStep
<1>8. CASE MyClose \/ CloseStep
  BY <1>8, MyCloseStep, CloseQueuedStep, FreeQueueStep DEF CloseStep
<1>9. CASE SpuriousWakeup
  BY <1>9, SpuriousStep
<1> QED BY <1>1, <1>2, <1>3, <1>4, <1>5, <1>6, <1>7, <1>8, <1>9 DEF Next

LEMMA Invariance == ASSUME ListenSd = 0 PROVE Spec => []IInv
<1>1. Init => IInv
  BY InitStep
<1>2. IInv /\ [Next]_vars => IInv'
  BY InvStep
<1> QED BY <1>1, <1>2, PTL DEF Spec

----------------------------------------------------------------------------
(* What the invariant says.                                                *)

LEMMA CompletedHolds == IInv => CompletedAreComplete
<1> SUFFICES ASSUME IInv PROVE CompletedAreComplete
  OBVIOUS
<1>1. DOMAIN completed_queue = 1 .. Len(completed_queue)
  BY DEF IInv, TypeOK
<1> QED BY <1>1 DEF IInv, Completion, CompletedAreComplete, Done, ConnSds

LEMMA OneOwnerHolds == ASSUME ListenSd = 0 PROVE IInv => OneOwner
<1> SUFFICES ASSUME IInv, NEW c \in Sds, stcp_pc[c] # "none"
             PROVE  Owners(c) = 1 \/ (failed[c] /\ Owners(c) = 0)
  BY DEF OneOwner
<1> DEFINE K == {k \in UsedSlots : connection_queue[k].sd = c
                                     /\ connection_queue[k] # Zeroed}
           A == {a \in Acceptors : request[a].sd = c}
           H == held \cap {c}
<1>1. Owners(c) = Cardinality(K) + Cardinality(A) + Cardinality(H)
  BY DEF Owners
<1>2. c \in ConnSds /\ c # -1 /\ c # 0
  BY DEF IInv, Transport, ConnSds, Sds
<1>3. \A k : k \in K <=> k \in Slots /\ connection_queue[k].sd = c
                           /\ connection_queue[k] # Zeroed
  BY <1>2 DEF UsedSlots
<1>4. \A j, k \in K : j = k
  BY <1>2, <1>3 DEF IInv, SlotsKept
<1>5. /\ \A a \in A : Taking(a)
      /\ \A a, b \in A : a = b
  BY <1>2 DEF IInv, Requests
<1>6. /\ \A k \in K, a \in A : FALSE
      /\ \A k \in K : c \notin held
      /\ \A a \in A : c \notin held
  BY <1>3, <1>5 DEF IInv, Ownership
<1>7. \A k \in Slots : connection_queue[k].sd = c => k \in K
  <2>1. \A k \in Slots : connection_queue[k].sd = c => connection_queue[k] # Zeroed
    BY <1>2 DEF Zeroed
  <2> QED BY <1>3, <2>1
<1>8. K # {} \/ A # {} \/ c \in held \/ failed[c]
  BY <1>7 DEF IInv, Ownership
<1>9. H = {c} \/ H = {}
  OBVIOUS
<1> HIDE DEF K, A
<1>10. CASE K # {}
  <2>1. PICK k \in K : TRUE
    BY <1>10
  <2>2. K = {k} /\ A = {} /\ H = {}
    BY <1>4, <1>6, <2>1
  <2>3. Cardinality(K) = 1 /\ Cardinality(A) = 0 /\ Cardinality(H) = 0
    BY <2>2, CardOne, CardNone
  <2> QED BY <1>1, <2>3
<1>11. CASE K = {} /\ A # {}
  <2>1. PICK a \in A : TRUE
    BY <1>11
  <2>2. A = {a} /\ H = {}
    BY <1>5, <1>6, <2>1
  <2>3. Cardinality(K) = 0 /\ Cardinality(A) = 1 /\ Cardinality(H) = 0
    BY <1>11, <2>2, CardOne, CardNone
  <2> QED BY <1>1, <2>3
<1>12. CASE K = {} /\ A = {} /\ H = {c}
  <2>1. Cardinality(K) = 0 /\ Cardinality(A) = 0 /\ Cardinality(H) = 1
    BY <1>12, CardOne, CardNone
  <2> QED BY <1>1, <2>1
<1>13. CASE K = {} /\ A = {} /\ H = {}
  <2>1. Cardinality(K) = 0 /\ Cardinality(A) = 0 /\ Cardinality(H) = 0
    BY <1>13, CardNone
  <2>2. failed[c]
    BY <1>8, <1>13
  <2> QED BY <1>1, <2>1, <2>2
<1> QED BY <1>9, <1>10, <1>11, <1>12, <1>13

LEMMA TcpSocketsHold == IInv => TcpSocketsOwned
<1> SUFFICES ASSUME IInv, NEW i \in 1 .. Len(attempts)
             PROVE  Cardinality({sd \in Sds : sock[sd] = i})
                      + Cardinality({new_socket} \cap {i})
                      + Cardinality({j \in DOMAIN tcp_backlog : tcp_backlog[j] = i})
                      + Cardinality(released \cap {i}) = 1
  BY DEF TcpSocketsOwned
<1> DEFINE D == {sd \in Sds : sock[sd] = i}
           N == {new_socket} \cap {i}
           Q == {j \in DOMAIN tcp_backlog : tcp_backlog[j] = i}
           R == released \cap {i}
<1>1. DOMAIN tcp_backlog = 1 .. Len(tcp_backlog)
  BY DEF IInv, TypeOK
<1>2. i # 0
  OBVIOUS
<1>3. /\ \A c, d \in D : c = d
      /\ \A d \in D : i # new_socket /\ i \notin released /\ Q = {}
  BY <1>1, <1>2 DEF IInv, SocketPlaces
<1>4. i = new_socket => i \notin released /\ Q = {}
  BY <1>1, <1>2 DEF IInv, SocketPlaces
<1>5. /\ \A j, k \in Q : j = k
      /\ \A j \in Q : i \notin released
  BY <1>1 DEF IInv, SocketPlaces
<1>6. D # {} \/ i = new_socket \/ Q # {} \/ i \in released
  BY <1>1 DEF IInv, SocketPlaces
<1>7. /\ N = IF i = new_socket THEN {i} ELSE {}
      /\ R = IF i \in released THEN {i} ELSE {}
  OBVIOUS
<1> HIDE DEF D, N, Q, R
<1>8. Cardinality(D) + Cardinality(N) + Cardinality(Q) + Cardinality(R) = 1
  <2>1. CASE D # {}
    <3>1. PICK d \in D : TRUE
      BY <2>1
    <3>2. D = {d} /\ N = {} /\ Q = {} /\ R = {}
      BY <1>3, <1>7, <3>1
    <3>3. /\ Cardinality(D) = 1 /\ Cardinality(N) = 0 /\ Cardinality(Q) = 0
          /\ Cardinality(R) = 0
      BY <3>2, CardOne, CardNone
    <3> QED BY <3>3
  <2>2. CASE D = {} /\ i = new_socket
    <3>1. N = {i} /\ Q = {} /\ R = {}
      BY <1>4, <1>7, <2>2
    <3>2. /\ Cardinality(D) = 0 /\ Cardinality(N) = 1 /\ Cardinality(Q) = 0
          /\ Cardinality(R) = 0
      BY <2>2, <3>1, CardOne, CardNone
    <3> QED BY <3>2
  <2>3. CASE D = {} /\ i # new_socket /\ Q # {}
    <3>1. PICK j \in Q : TRUE
      BY <2>3
    <3>2. Q = {j} /\ N = {} /\ R = {}
      BY <1>5, <1>7, <2>3, <3>1
    <3>3. /\ Cardinality(D) = 0 /\ Cardinality(N) = 0 /\ Cardinality(Q) = 1
          /\ Cardinality(R) = 0
      BY <2>3, <3>2, CardOne, CardNone
    <3> QED BY <3>3
  <2>4. CASE D = {} /\ i # new_socket /\ Q = {}
    <3>1. N = {} /\ R = {i}
      BY <1>6, <1>7, <2>4
    <3>2. /\ Cardinality(D) = 0 /\ Cardinality(N) = 0 /\ Cardinality(Q) = 0
          /\ Cardinality(R) = 1
      BY <2>4, <3>1, CardOne, CardNone
    <3> QED BY <3>2
  <2> QED BY <2>1, <2>2, <2>3, <2>4
<1> QED BY <1>8 DEF D, N, Q, R

----------------------------------------------------------------------------
(* The theorems.  ListenSd = 0 says that the listening mysocket is the     *)
(* first one of its process, so that the descriptor 0 which                *)
(* INVALIDATE_CONNECT_REQUEST leaves in a slot for a moment, after its     *)
(* memset(), is the descriptor of no connection.                           *)

\* In every reachable state the variables of the queue, of the threads that
\* share it and of the TCP layer below it have the types the code declares.
THEOREM TypeCorrect == ASSUME ListenSd = 0 PROVE Spec => []TypeOK
<1>1. IInv => TypeOK
  BY DEF IInv
<1> QED BY <1>1, Invariance, PTL

\* completed_connections never holds a slot twice, nor one whose transport
\* thread has not come through _mysock_passive_connection_complete(), although
\* that function finds the slot before it takes connection_lock: myaccept()
\* returns no connection twice, and none that is still in its handshake.
THEOREM CompletedCorrect ==
  ASSUME ListenSd = 0 PROVE Spec => []CompletedAreComplete
  BY Invariance, CompletedHolds, PTL

\* From _mysock_enqueue_connection() to the application a connection has one
\* owner at a time: a slot, the myaccept() that took it, or the application.
\* One whose handshake failed may have none, as myaccept() returns -1 for it.
THEOREM OneOwnerCorrect == ASSUME ListenSd = 0 PROVE Spec => []OneOwner
  BY Invariance, OneOwnerHolds, PTL

\* A TCP connection that accept() has returned is new_socket of the listening
\* context, or the socket of one passive context, or closed: no path through
\* _mysock_enqueue_connection(), a failure of _mysock_new_mysocket() and
\* myclose() included, leaks a socket or gives it to two contexts.
THEOREM TcpSocketsCorrect == ASSUME ListenSd = 0 PROVE Spec => []TcpSocketsOwned
  BY Invariance, TcpSocketsHold, PTL

\* pthread_cond_signal() after the unlock of connection_lock loses no wakeup:
\* while a thread waits in _mysock_dequeue_connection(), there are at most as
\* many completed connections as signals to come and threads about to look.
THEOREM NoLostAcceptCorrect == ASSUME ListenSd = 0 PROVE Spec => []NoLostAccept
<1>1. IInv => NoLostAccept
  BY DEF IInv, Waiting
<1> QED BY <1>1, Invariance, PTL

\* assert(connection_req) of _mysock_passive_connection_complete() and
\* assert(new_ctx) of _mysock_dequeue_connection() never fail.
THEOREM SearchesCorrect == ASSUME ListenSd = 0 PROVE Spec => []SearchesSucceed
<1>1. IInv => SearchesSucceed
  BY DEF IInv
<1> QED BY <1>1, Invariance, PTL
============================================================================

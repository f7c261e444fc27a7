---------------------------- MODULE ListenQueue ----------------------------
(***************************************************************************)
(* A listening mysocket (connection_demux.c with the parts of              *)
(* mysock_api.c, stcp_api.c and network_io_tcp.c that feed it): the queue  *)
(* of pending connections and the threads that share it.                   *)
(*                                                                         *)
(*   a in Acceptors  application threads that call myaccept();             *)
(*   main            the application thread that calls myclose() on the    *)
(*                   listening mysocket;                                   *)
(*   recv            the receive thread of the listening mysocket;         *)
(*   stcp_pc[sd]     the transport thread of the pending connection sd.    *)
(*                                                                         *)
(* listen_lock is a readers-writer lock: its readers are the threads whose *)
(* program counter is between rdlock and unlock, its writer is main while  *)
(* it closes the queue.  glibc lets a reader in while a writer waits.      *)
(* connection_lock covers the list of completed connections; the receive   *)
(* thread changes cur_len without it, so that ++ and -- are a read and a   *)
(* write between which another thread can intervene.                       *)
(*                                                                         *)
(* A failed assert() aborts the program; aborted names the assertion.      *)
(***************************************************************************)
EXTENDS Integers, Sequences, FiniteSets, FiniteSetsExt

CONSTANTS
  Acceptors,       \* the application's threads that call myaccept()
  Peers,           \* addresses of connecting peers
  Backlog,         \* argument of mylisten()
  MaxConnections,  \* MAX_NUM_CONNECTIONS, size of the descriptor table
  ListenSd,        \* descriptor of the listening mysocket
  FirstPackets,    \* whether a peer's first packet is a SYN
  MaxUInt,         \* largest unsigned int, the type of cur_len
  MaxAttempts      \* bound on the TCP connections made by peers

Sds == 0 .. MaxConnections - 1

ASSUME ListenAssumption ==
  /\ Backlog \in Nat /\ MaxConnections \in Nat /\ ListenSd \in Sds
  /\ FirstPackets \subseteq BOOLEAN /\ IsFiniteSet(Acceptors)
  /\ MaxUInt \in Nat /\ Backlog + 1 < MaxUInt /\ MaxAttempts \in Nat

NoPeer == "no peer"
ASSUME PeersAssumption == NoPeer \notin Peers

VARIABLES
  connection_queue,  \* the slots for requests not yet accepted
  completed_queue,   \* slots of the completed ones, in order of completion
  cur_len,           \* number of pending requests
  connection_cond,   \* acceptors waiting for a completed connection
  app_pc, request, app_reg, \* per acceptor: position, request taken, register
  held,              \* descriptors returned by myaccept() and not yet freed
  main_pc,           \* the thread that closes the listening mysocket
  recv_pc, queue_entry, recv_reg, exit_pipe,
  new_socket,        \* the accepted TCP socket not yet passed on, 0 if none
  tcp_backlog,       \* TCP connections waiting for accept()
  attempts,          \* the peer of every TCP connection made so far
  released,          \* TCP sockets that were closed again
  stcp_pc, failed, connection_req, \* per descriptor: its transport thread
  sock,              \* the TCP socket of a descriptor, 0 if none
  closing,           \* descriptors whose myclose() has been called
  aborted            \* the assertion that failed, "no" if none has

queueVars == << connection_queue, completed_queue, cur_len, connection_cond >>
appVars == << app_pc, request, app_reg, held >>
recvVars == << recv_pc, queue_entry, recv_reg, exit_pipe >>
tcpVars == << new_socket, tcp_backlog, attempts, released >>
stcpVars == << stcp_pc, failed, connection_req, sock, closing >>
vars == << queueVars, appVars, main_pc, recvVars, tcpVars, stcpVars, aborted >>

max_len == Backlog + 1
Slots == 1 .. max_len

\* INVALIDATE_CONNECT_REQUEST: memset() to zero, then sd = -1.
Zeroed == [sd |-> 0, peer |-> NoPeer]
Empty == [sd |-> -1, peer |-> NoPeer]

\* After mylisten(): _mysock_set_backlog() has built the empty queue and the
\* receive thread runs.
Init ==
  /\ connection_queue = [k \in Slots |-> Empty] /\ completed_queue = << >>
  /\ cur_len = 0 /\ connection_cond = {}
  /\ app_pc = [a \in Acceptors |-> "idle"]
  /\ request = [a \in Acceptors |-> [slot |-> 0, sd |-> -1]]
  /\ app_reg = [a \in Acceptors |-> 0] /\ held = {} /\ main_pc = "open"
  /\ recv_pc = "poll" /\ queue_entry = 0 /\ recv_reg = 0 /\ exit_pipe = FALSE
  /\ new_socket = 0 /\ tcp_backlog = << >>
  /\ attempts = << >> /\ released = {}
  /\ stcp_pc = [sd \in Sds |-> "none"] /\ failed = [sd \in Sds |-> FALSE]
  /\ connection_req = [sd \in Sds |-> 0] /\ sock = [sd \in Sds |-> 0]
  /\ closing = {} /\ aborted = "no"

\* Arithmetic of unsigned int.
Inc(n) == (n + 1) % (MaxUInt + 1)
Dec(n) == (n + MaxUInt) % (MaxUInt + 1)

\* A descriptor whose entry of global_ctx is in use.
Allocated(sd) == sd = ListenSd \/ (sd \in Sds /\ stcp_pc[sd] # "none")

\* listen_lock.
WriteLocked == main_pc = "close_queued"
ReadLocked == \/ \E a \in Acceptors : app_pc[a] # "idle"
              \/ recv_pc \in {"demux", "load", "incr", "create", "enqueue",
                             "clear", "decr"}
              \/ \E sd \in Sds : stcp_pc[sd] \in {"append", "signal"}

\* connection_lock is held while a request is taken off the queue.
ConnectionLocked == \E a \in Acceptors : app_pc[a] \in {"zeroed", "load", "dec"}

Running == aborted = "no"

Abort(assertion) ==
  /\ aborted' = assertion
  /\ UNCHANGED << queueVars, appVars, main_pc, recvVars, tcpVars, stcpVars >>

----------------------------------------------------------------------------
(* myaccept().                                                             *)

\* The listening mysocket is still open; listen_lock is taken for reading,
\* and kept until myaccept() is done, the wait included.
MyAccept(a) ==
  /\ Running
  /\ app_pc[a] = "idle" /\ main_pc = "open"
  /\ app_pc' = [app_pc EXCEPT ![a] = "dequeue"]
  /\ UNCHANGED << queueVars, request, app_reg, held, main_pc, recvVars, tcpVars,
                  stcpVars, aborted >>

\* Mutant: the entry stays in the list of completed connections.
Unlink_Not(q) == q

\* Unlinking the head of the completed connections.
Unlink(q) == Tail(q)

\* _mysock_dequeue_connection() under connection_lock: wait, or take the
\* first completed request, find its context and clear its slot, whose
\* descriptor is 0 until Invalidate sets it to -1.
Dequeue(a) ==
  /\ Running
  /\ \/ app_pc[a] = "dequeue"
     \/ app_pc[a] = "wait" /\ a \notin connection_cond
  /\ ~ConnectionLocked
  /\ \/ /\ completed_queue = << >>
        /\ app_pc' = [app_pc EXCEPT ![a] = "wait"]
        /\ connection_cond' = connection_cond \cup {a}
        /\ UNCHANGED << connection_queue, completed_queue, cur_len, request,
                        app_reg, held, main_pc, recvVars, tcpVars, stcpVars,
                        aborted >>
     \/ /\ completed_queue # << >>
        /\ LET k == Head(completed_queue)
               sd == connection_queue[k].sd
           IN \/ /\ Allocated(sd)
                 /\ completed_queue' = Unlink(completed_queue)
                 /\ connection_queue' = [connection_queue EXCEPT ![k] = Zeroed]
                 /\ request' = [request EXCEPT ![a] = [slot |-> k, sd |-> sd]]
                 /\ app_pc' = [app_pc EXCEPT ![a] = "zeroed"]
                 /\ UNCHANGED << cur_len, connection_cond, app_reg, held,
                                 main_pc, recvVars, tcpVars, stcpVars,
                                 aborted >>
              \/ ~Allocated(sd) /\ Abort("new_ctx")

\* The slot becomes free, and cur_len is tested.
Invalidate(a) ==
  /\ Running
  /\ app_pc[a] = "zeroed"
  /\ \/ /\ cur_len > 0
        /\ connection_queue' =
             [connection_queue EXCEPT ![request[a].slot] = Empty]
        /\ app_pc' = [app_pc EXCEPT ![a] = "load"]
        /\ UNCHANGED << completed_queue, cur_len, connection_cond, request,
                        app_reg, held, main_pc, recvVars, tcpVars, stcpVars,
                        aborted >>
     \/ cur_len = 0 /\ Abort("cur_len")

\* The read of --q->cur_len ...
LoadToDecrement(a) ==
  /\ Running
  /\ app_pc[a] = "load"
  /\ app_reg' = [app_reg EXCEPT ![a] = cur_len]
  /\ app_pc' = [app_pc EXCEPT ![a] = "dec"]
  /\ UNCHANGED << queueVars, request, held, main_pc, recvVars, tcpVars,
                  stcpVars, aborted >>

\* ... and its write; both locks are released, and myaccept() returns the new
\* descriptor, or -1 if the transport layer reported an error.
Decrement(a) ==
  /\ Running
  /\ app_pc[a] = "dec"
  /\ cur_len' = Dec(app_reg[a])
  /\ app_pc' = [app_pc EXCEPT ![a] = "idle"]
  /\ app_reg' = [app_reg EXCEPT ![a] = 0]
  /\ request' = [request EXCEPT ![a] = [slot |-> 0, sd |-> -1]]
  /\ held' = held \cup {sd \in {request[a].sd} : ~failed[sd]}
  /\ UNCHANGED << connection_queue, completed_queue, connection_cond, main_pc,
                  recvVars, tcpVars, stcpVars, aborted >>

\* POSIX lets pthread_cond_wait() return without a signal.
SpuriousWakeup ==
  /\ Running
  /\ \E a \in connection_cond : connection_cond' = connection_cond \ {a}
  /\ UNCHANGED << connection_queue, completed_queue, cur_len, appVars, main_pc,
                  recvVars, tcpVars, stcpVars, aborted >>

AcceptStep(a) == \/ Dequeue(a) \/ Invalidate(a)
                 \/ LoadToDecrement(a) \/ Decrement(a)

----------------------------------------------------------------------------
(* The receive thread of the listening mysocket.                           *)

\* A peer's TCP connection reaches the kernel's queue of the listening socket.
PeerConnects(p) ==
  /\ Running
  /\ main_pc = "open" /\ Len(attempts) < MaxAttempts
  /\ attempts' = Append(attempts, p)
  /\ tcp_backlog' = Append(tcp_backlog, Len(attempts) + 1)
  /\ UNCHANGED << queueVars, appVars, main_pc, recvVars, new_socket, released,
                  stcpVars, aborted >>

\* Mutant: the assertion on new_socket is missing.
RecvAccept_NoAssert ==
  /\ Running
  /\ recv_pc = "poll" /\ ~exit_pipe /\ tcp_backlog # << >>
  /\ new_socket' = Head(tcp_backlog) /\ tcp_backlog' = Tail(tcp_backlog)
  /\ recv_pc' = "read"
  /\ UNCHANGED << queueVars, appVars, main_pc, queue_entry, recv_reg,
                  exit_pipe, attempts, released, stcpVars, aborted >>

\* poll() returned and _network_recv_packet() accepts the TCP connection; the
\* socket of the previous one must have been passed on.
RecvAccept ==
  /\ Running
  /\ recv_pc = "poll" /\ ~exit_pipe /\ tcp_backlog # << >>
  /\ \/ /\ new_socket = 0
        /\ new_socket' = Head(tcp_backlog) /\ tcp_backlog' = Tail(tcp_backlog)
        /\ recv_pc' = "read"
        /\ UNCHANGED << queueVars, appVars, main_pc, queue_entry, recv_reg,
                        exit_pipe, attempts, released, stcpVars, aborted >>
     \/ new_socket # 0 /\ Abort("new_socket")

\* Mutant: listen_lock is taken for writing.
RecvPacket_WriteLock(syn) ==
  /\ Running
  /\ recv_pc = "read" /\ ~WriteLocked /\ ~ReadLocked
  /\ recv_pc' = IF syn THEN "demux" ELSE "poll"
  /\ UNCHANGED << queueVars, appVars, main_pc, queue_entry, recv_reg,
                  exit_pipe, tcpVars, stcpVars, aborted >>

\* The first packet of the new connection has arrived.  If it is no SYN it is
\* ignored, and otherwise _mysock_enqueue_connection() goes on with it.
RecvPacket(syn) ==
  /\ Running
  /\ recv_pc = "read" /\ ~WriteLocked
  /\ recv_pc' = IF syn THEN "demux" ELSE "poll"
  /\ UNCHANGED << queueVars, appVars, main_pc, queue_entry, recv_reg,
                  exit_pipe, tcpVars, stcpVars, aborted >>

\* The peer went away before its first packet was complete: the receive
\* thread ends, and with it the service of the listening mysocket.
RecvLost ==
  /\ Running
  /\ recv_pc = "read" /\ recv_pc' = "end"
  /\ UNCHANGED << queueVars, appVars, main_pc, queue_entry, recv_reg,
                  exit_pipe, tcpVars, stcpVars, aborted >>

\* A request of the same peer is still queued.
Retransmission(p) == \E k \in Slots : connection_queue[k].peer = p

FreeSlots == {k \in Slots : connection_queue[k].sd < 0}

\* The slots that the search for a retransmission looks at.
Scanned(p) == {k \in Slots : \A j \in 1 .. k - 1 : connection_queue[j].peer # p}

\* The assertion of that search on the address lengths fails for a slot that
\* myaccept() is clearing: it has no address any more, and not yet sd = -1.
HalfCleared(k) == connection_queue[k] = Zeroed

\* _mysock_enqueue_connection() up to ++q->cur_len: the SYN is
\* dropped if it repeats a queued request or if the queue is full; otherwise
\* the first free slot is chosen.
Demux ==
  /\ Running
  /\ recv_pc = "demux"
  /\ LET p == attempts[new_socket] IN
       \/ (\E k \in Scanned(p) : HalfCleared(k)) /\ Abort("peer_addr_len")
       \/ /\ \A k \in Scanned(p) : ~HalfCleared(k)
          /\ Retransmission(p) \/ cur_len >= max_len
          /\ recv_pc' = "poll"
          /\ UNCHANGED << queueVars, appVars, main_pc, queue_entry, recv_reg,
                          exit_pipe, tcpVars, stcpVars, aborted >>
       \/ /\ \A k \in Scanned(p) : ~HalfCleared(k)
          /\ ~Retransmission(p) /\ cur_len < max_len /\ FreeSlots # {}
          /\ queue_entry' = Min(FreeSlots) /\ recv_pc' = "load"
          /\ UNCHANGED << queueVars, appVars, main_pc, recv_reg, exit_pipe,
                          tcpVars, stcpVars, aborted >>
       \/ /\ \A k \in Scanned(p) : ~HalfCleared(k)
          /\ ~Retransmission(p) /\ cur_len < max_len /\ FreeSlots = {}
          /\ Abort("queue_entry")

LoadToIncrement ==
  /\ Running
  /\ recv_pc = "load"
  /\ recv_reg' = cur_len /\ recv_pc' = "incr"
  /\ UNCHANGED << queueVars, appVars, main_pc, queue_entry, exit_pipe, tcpVars,
                  stcpVars, aborted >>

Increment ==
  /\ Running
  /\ recv_pc = "incr"
  /\ cur_len' = Inc(recv_reg) /\ recv_reg' = 0 /\ recv_pc' = "create"
  /\ UNCHANGED << connection_queue, completed_queue, connection_cond, appVars,
                  main_pc, queue_entry, exit_pipe, tcpVars, stcpVars, aborted >>

\* Mutant: the search does not look whether an entry is in use.
FreeSds_Any == Sds \ {ListenSd}

\* Mutant: the search runs past the end of the table.
FreeSds_Past == {sd \in 0 .. MaxConnections : ~Allocated(sd)}

\* Descriptors that _mysock_new_mysocket() can hand out, the lowest first.
FreeSds == {sd \in Sds : ~Allocated(sd)}

\* _network_update_passive_state(): the new mysocket takes the socket that
\* accept() returned.
UpdatePassiveState(sd) ==
  /\ sock' = [sock EXCEPT ![sd] = new_socket]
  /\ new_socket' = 0

\* A mysocket is created for the connection, gets the accepted TCP socket and
\* its transport thread is started.  If no descriptor is free the slot is
\* cleared again.
Create ==
  /\ Running
  /\ recv_pc = "create"
  /\ \/ /\ FreeSds # {}
        /\ LET sd == Min(FreeSds) IN
             /\ connection_queue' =
                  [connection_queue EXCEPT ![queue_entry] =
                     [sd |-> sd, peer |-> attempts[new_socket]]]
             /\ UpdatePassiveState(sd)
             /\ stcp_pc' = [stcp_pc EXCEPT ![sd] = "init"]
        /\ queue_entry' = 0 /\ recv_pc' = "enqueue"
        /\ UNCHANGED recv_reg
     \/ /\ FreeSds = {}
        /\ connection_queue' = [connection_queue EXCEPT ![queue_entry] = Zeroed]
        /\ recv_pc' = "clear"
        /\ UNCHANGED << sock, stcp_pc, new_socket, queue_entry, recv_reg >>
  /\ UNCHANGED << completed_queue, cur_len, connection_cond, appVars, main_pc,
                  exit_pipe, tcp_backlog, attempts, released, failed,
                  connection_req, closing, aborted >>

\* The SYN is queued for the transport thread, which may be running by now, and
\* listen_lock is released.
EnqueueSyn ==
  /\ Running
  /\ recv_pc = "enqueue" /\ recv_pc' = "poll"
  /\ UNCHANGED << queueVars, appVars, main_pc, queue_entry, recv_reg,
                  exit_pipe, tcpVars, stcpVars, aborted >>

\* A slot is cleared in two steps as in myaccept(); cur_len is read for
\* --q->cur_len.
Clear ==
  /\ Running
  /\ recv_pc = "clear"
  /\ connection_queue' = [connection_queue EXCEPT ![queue_entry] = Empty]
  /\ recv_reg' = cur_len /\ recv_pc' = "decr"
  /\ UNCHANGED << completed_queue, cur_len, connection_cond, appVars, main_pc,
                  queue_entry, exit_pipe, tcpVars, stcpVars, aborted >>

\* --q->cur_len after a failed _mysock_new_mysocket().
Uncount ==
  /\ Running
  /\ recv_pc = "decr"
  /\ cur_len' = Dec(recv_reg)
  /\ recv_reg' = 0 /\ queue_entry' = 0 /\ recv_pc' = "poll"
  /\ UNCHANGED << connection_queue, completed_queue, connection_cond, appVars,
                  main_pc, exit_pipe, tcpVars, stcpVars, aborted >>

\* The exit pipe ends the thread when it is back in poll().
RecvExit ==
  /\ Running
  /\ recv_pc = "poll" /\ exit_pipe
  /\ recv_pc' = "end"
  /\ UNCHANGED << queueVars, appVars, main_pc, queue_entry, recv_reg,
                  exit_pipe, tcpVars, stcpVars, aborted >>

RecvStep == \/ RecvAccept \/ Demux \/ LoadToIncrement \/ Increment \/ Create
            \/ EnqueueSyn \/ Clear \/ Uncount \/ RecvExit
RecvRead == (\E syn \in FirstPackets : RecvPacket(syn)) \/ RecvLost

----------------------------------------------------------------------------
(* The transport thread of a passive connection.                           *)

\* stcp_unblock_application() with the outcome of the handshake, by the
\* transport layer or on its behalf by transport_thread_func().
Unblock(sd, ok) ==
  /\ Running
  /\ stcp_pc[sd] = "init"
  /\ failed' = [failed EXCEPT ![sd] = ~ok]
  /\ stcp_pc' = [stcp_pc EXCEPT ![sd] = "complete"]
  /\ UNCHANGED << queueVars, appVars, main_pc, recvVars, tcpVars,
                  connection_req, sock, closing, aborted >>

\* Mutant: the search for the connection's slot skips the first one.
SlotsOf_Skip(sd) == {k \in Slots \ {1} : connection_queue[k].sd = sd}

\* The slots that hold the descriptor sd.
SlotsOf(sd) == {k \in Slots : connection_queue[k].sd = sd}

\* _mysock_passive_connection_complete(): take listen_lock for reading and
\* find the connection's slot, before connection_lock is taken.
FindRequest(sd) ==
  /\ Running
  /\ stcp_pc[sd] = "complete" /\ ~WriteLocked
  /\ \/ /\ SlotsOf(sd) # {}
        /\ connection_req' = [connection_req EXCEPT ![sd] = Min(SlotsOf(sd))]
        /\ stcp_pc' = [stcp_pc EXCEPT ![sd] = "append"]
        /\ UNCHANGED << queueVars, appVars, main_pc, recvVars, tcpVars, failed,
                        sock, closing, aborted >>
     \/ SlotsOf(sd) = {} /\ Abort("connection_req")

\* The slot is added to the completed connections under connection_lock.
AppendCompleted(sd) ==
  /\ Running
  /\ stcp_pc[sd] = "append" /\ ~ConnectionLocked
  /\ completed_queue' = Append(completed_queue, connection_req[sd])
  /\ connection_req' = [connection_req EXCEPT ![sd] = 0]
  /\ stcp_pc' = [stcp_pc EXCEPT ![sd] = "signal"]
  /\ UNCHANGED << connection_queue, cur_len, connection_cond, appVars, main_pc,
                  recvVars, tcpVars, failed, sock, closing, aborted >>

\* Mutant: nobody is woken up.
Woken_Nobody(waiting, still) == still = waiting

\* pthread_cond_signal() wakes one of the waiting threads, if there is one.
Woken(waiting, still) ==
  \/ waiting = {} /\ still = {}
  \/ \E a \in waiting : still = waiting \ {a}

\* The signal follows the unlock of connection_lock; listen_lock is released
\* after it.  A transport layer that failed has no more to do.
SignalCompleted(sd) ==
  /\ Running
  /\ stcp_pc[sd] = "signal"
  /\ Woken(connection_cond, connection_cond')
  /\ stcp_pc' = [stcp_pc EXCEPT ![sd] = IF failed[sd] THEN "end" ELSE "run"]
  /\ UNCHANGED << connection_queue, completed_queue, cur_len, appVars, main_pc,
                  recvVars, tcpVars, failed, connection_req, sock, closing,
                  aborted >>

\* transport_init() returns: the connection was closed, or given up.
TransportEnd(sd) ==
  /\ Running
  /\ stcp_pc[sd] = "run"
  /\ stcp_pc' = [stcp_pc EXCEPT ![sd] = "end"]
  /\ UNCHANGED << queueVars, appVars, main_pc, recvVars, tcpVars, failed,
                  connection_req, sock, closing, aborted >>

StcpStep(sd) == \/ \E ok \in BOOLEAN : Unblock(sd, ok)
                \/ FindRequest(sd) \/ AppendCompleted(sd) \/ SignalCompleted(sd)

----------------------------------------------------------------------------
(* myclose().                                                              *)

\* _network_close() closes a TCP socket.
Release(s) == released' = released \cup {s}

\* The context of sd is freed once its threads are gone.
Free(sd) ==
  /\ stcp_pc' = [stcp_pc EXCEPT ![sd] = "none"]
  /\ failed' = [failed EXCEPT ![sd] = FALSE]
  /\ sock' = [sock EXCEPT ![sd] = 0]
  /\ Release(sock[sd])
  /\ closing' = closing \ {sd}
  /\ UNCHANGED connection_req

\* myclose() on an accepted connection: the close request, and the end of the
\* call once the transport thread has been joined.
CloseAccepted(sd) ==
  /\ Running
  /\ sd \in held \ closing
  /\ closing' = closing \cup {sd}
  /\ UNCHANGED << queueVars, appVars, main_pc, recvVars, tcpVars, stcp_pc,
                  failed, connection_req, sock, aborted >>

FreeAccepted(sd) ==
  /\ Running
  /\ sd \in held \cap closing /\ stcp_pc[sd] = "end"
  /\ Free(sd)
  /\ held' = held \ {sd}
  /\ UNCHANGED << queueVars, app_pc, request, app_reg, main_pc, recvVars,
                  new_socket, tcp_backlog, attempts, aborted >>

\* Mutant: the receive thread is not told to exit.
MyClose_NoExit ==
  /\ Running
  /\ main_pc = "open" /\ \E a \in Acceptors : app_pc[a] = "idle"
  /\ main_pc' = "join_recv"
  /\ UNCHANGED << queueVars, appVars, recvVars, tcpVars, stcpVars, aborted >>

\* myclose() on the listening mysocket, by a thread that is not in
\* myaccept(): a byte into the exit pipe of the receive thread.
MyClose ==
  /\ Running
  /\ main_pc = "open" /\ \E a \in Acceptors : app_pc[a] = "idle"
  /\ main_pc' = "join_recv" /\ exit_pipe' = TRUE
  /\ UNCHANGED << queueVars, appVars, recv_pc, queue_entry, recv_reg, tcpVars,
                  stcpVars, aborted >>

JoinRecv ==
  /\ Running
  /\ main_pc = "join_recv" /\ recv_pc = "end"
  /\ main_pc' = "wrlock"
  /\ UNCHANGED << queueVars, appVars, recvVars, tcpVars, stcpVars, aborted >>

\* _mysock_close_passive_socket() takes listen_lock for writing.
WriteLock ==
  /\ Running
  /\ main_pc = "wrlock" /\ ~ReadLocked
  /\ main_pc' = "close_queued"
  /\ UNCHANGED << queueVars, appVars, recvVars, tcpVars, stcpVars, aborted >>

UsedSlots == {k \in Slots : connection_queue[k].sd # -1}

\* ... and calls myclose() for every queued connection in turn, which sets
\* close_requested and then waits for the transport thread to end.
CloseQueued ==
  /\ Running
  /\ main_pc = "close_queued" /\ UsedSlots # {}
  /\ LET k == Min(UsedSlots)
         sd == connection_queue[k].sd
     IN \/ /\ sd \notin closing
           /\ closing' = closing \cup {sd}
           /\ UNCHANGED << connection_queue, stcp_pc, failed, connection_req,
                           sock, released >>
        \/ /\ sd \in closing /\ stcp_pc[sd] = "end"
           /\ Free(sd)
           /\ connection_queue' = [connection_queue EXCEPT ![k] = Empty]
  /\ UNCHANGED << completed_queue, cur_len, connection_cond, appVars, main_pc,
                  recvVars, new_socket, tcp_backlog, attempts, aborted >>

\* The queue is freed and the lock released; _mysock_free_context() frees the
\* rest, with new_socket.
FreeQueue ==
  /\ Running
  /\ main_pc = "close_queued" /\ UsedSlots = {}
  /\ main_pc' = "closed" /\ completed_queue' = << >> /\ new_socket' = 0
  /\ Release(new_socket)
  /\ UNCHANGED << connection_queue, cur_len, connection_cond, appVars, recvVars,
                  tcp_backlog, attempts, stcpVars, aborted >>

CloseStep == JoinRecv \/ WriteLock \/ CloseQueued \/ FreeQueue

----------------------------------------------------------------------------
Next ==
  \/ \E a \in Acceptors : MyAccept(a) \/ AcceptStep(a)
  \/ \E p \in Peers : PeerConnects(p)
  \/ RecvStep \/ RecvRead
  \/ \E sd \in Sds : \/ StcpStep(sd) \/ TransportEnd(sd)
                     \/ CloseAccepted(sd) \/ FreeAccepted(sd)
  \/ MyClose \/ CloseStep \/ SpuriousWakeup

Spec == Init /\ [][Next]_vars

\* Running threads are scheduled.  The application keeps calling myaccept(),
\* as server.c does ("just keep accepting connections forever").  A handshake
\* has an outcome some day, and a connection ends once it is asked to close.
\* What peers send, and when anything is closed, is not fair.
FairSpec ==
  /\ Spec
  /\ \A a \in Acceptors : WF_vars(AcceptStep(a)) /\ WF_vars(MyAccept(a))
  /\ WF_vars(RecvStep) /\ WF_vars(CloseStep)
  /\ \A sd \in Sds : /\ WF_vars(StcpStep(sd))
                     /\ WF_vars(sd \in closing /\ TransportEnd(sd))

\* A peer that connects sends its first packet or goes away.
TalkingPeers == WF_vars(RecvRead)

\* A peer that stays sends its first packet.
SendingPeers == WF_vars(\E syn \in FirstPackets : RecvPacket(syn))

----------------------------------------------------------------------------
(* Properties.                                                             *)

TypeOK ==
  /\ connection_queue \in [Slots -> [sd : {-1} \cup Sds,
                                     peer : Peers \cup {NoPeer}]]
  /\ completed_queue \in Seq(Slots)
  /\ cur_len \in 0 .. MaxUInt /\ recv_reg \in 0 .. MaxUInt
  /\ connection_cond \subseteq Acceptors
  /\ app_pc \in [Acceptors -> {"idle", "dequeue", "wait", "zeroed", "load",
                            "dec"}]
  /\ request \in [Acceptors -> [slot : {0} \cup Slots, sd : {-1} \cup Sds]]
  /\ app_reg \in [Acceptors -> 0 .. MaxUInt]
  /\ held \subseteq Sds /\ closing \subseteq Sds
  /\ main_pc \in {"open", "join_recv", "wrlock", "close_queued", "closed"}
  /\ recv_pc \in {"poll", "read", "demux", "load", "incr", "create", "enqueue",
                 "clear", "decr", "end"}
  /\ queue_entry \in {0} \cup Slots /\ exit_pipe \in BOOLEAN
  /\ new_socket \in 0 .. Len(attempts)
  /\ attempts \in Seq(Peers) /\ tcp_backlog \in Seq(1 .. Len(attempts))
  /\ released \subseteq 0 .. Len(attempts)
  /\ stcp_pc \in [Sds -> {"none", "init", "complete", "append", "signal",
                          "run", "end"}]
  /\ failed \in [Sds -> BOOLEAN]
  /\ connection_req \in [Sds -> {0} \cup Slots]
  /\ sock \in [Sds -> 0 .. Len(attempts)]
  /\ aborted \in {"no", "new_ctx", "cur_len", "new_socket", "queue_entry",
                  "connection_req", "peer_addr_len"}

\* The list of completed connections holds each slot once, and only slots
\* whose transport thread has announced its outcome: myaccept() returns no
\* connection twice and none that is still in its handshake.
CompletedAreComplete ==
  \A i \in DOMAIN completed_queue :
    LET sd == connection_queue[completed_queue[i]].sd IN
      /\ main_pc # "close_queued" =>
           sd \in Sds /\ stcp_pc[sd] \in {"signal", "run", "end"}
      /\ \A j \in DOMAIN completed_queue :
           completed_queue[i] = completed_queue[j] => i = j

\* Every connection whose handshake has not failed has one owner: the queue,
\* the myaccept() that is returning it, or the application.  None is lost on
\* the way from _mysock_enqueue_connection() to the application.
Owners(sd) ==
  Cardinality({k \in UsedSlots :
                 connection_queue[k].sd = sd /\ connection_queue[k] # Zeroed})
    + Cardinality({a \in Acceptors : request[a].sd = sd})
    + Cardinality(held \cap {sd})
OneOwner ==
  \A sd \in Sds :
    stcp_pc[sd] # "none" => Owners(sd) = 1 \/ (failed[sd] /\ Owners(sd) = 0)

\* Every TCP connection that accept() returned is the new_socket of the
\* listening mysocket, or belongs to one mysocket, or was closed with it:
\* none is left to nobody, and no two mysockets share one.
TcpSocketsOwned ==
  \A i \in 1 .. Len(attempts) :
    Cardinality({sd \in Sds : sock[sd] = i})
      + Cardinality({new_socket} \cap {i})
      + Cardinality({j \in DOMAIN tcp_backlog : tcp_backlog[j] = i})
      + Cardinality(released \cap {i}) = 1

\* No wakeup of myaccept() is lost although the signal follows the unlock and
\* wakes one thread only: while a thread waits, every completed connection has
\* a signal still to come or an acceptor that is about to look.
NoLostAccept ==
  connection_cond # {} =>
    Len(completed_queue) <=
      Cardinality({sd \in Sds : stcp_pc[sd] = "signal"})
      + Cardinality({a \in Acceptors : \/ app_pc[a] = "dequeue"
                                       \/ app_pc[a] = "wait"
                                            /\ a \notin connection_cond})

\* A passive connection that announces its outcome is still in the queue, and
\* one that is accepted has a context: the searches of connection_demux.c
\* cannot fail, as long as the descriptor 0 that INVALIDATE_CONNECT_REQUEST
\* leaves in a slot for a moment is that of the listening mysocket.
SearchesSucceed == aborted \notin {"connection_req", "new_ctx"}

----------------------------------------------------------------------------
(* Liveness.                                                               *)

\* A connection whose handshake has an outcome is returned by myaccept(), or
\* the program is aborted or the listening mysocket closed.
OutcomeIsAccepted ==
  \A sd \in Sds \ {ListenSd} :
    (stcp_pc[sd] = "complete")
      ~> (SlotsOf(sd) = {} \/ ~Running \/ main_pc # "open")

\* TCP connections that wait for accept() are all accepted although threads
\* wait in myaccept() with listen_lock held, unless an earlier peer went away
\* before its first packet was complete, which ends the receive thread, the
\* program is aborted or the listening mysocket closed.
PeersAreServed ==
  SendingPeers =>
    ((tcp_backlog # << >>)
       ~> \/ tcp_backlog = << >>
          \/ recv_pc = "end" \/ ~Running \/ main_pc # "open")

\* myclose() of a listening mysocket returns unless one of the queued
\* connections has not yet announced its outcome, or a thread is still in
\* myaccept().
CloseBlockedByHandshake ==
  TalkingPeers =>
    ((main_pc = "join_recv")
       ~> \/ main_pc = "closed" \/ ~Running
          \/ \E a \in Acceptors : app_pc[a] = "wait"
          \/ WriteLocked /\ \E k \in UsedSlots :
               stcp_pc[connection_queue[k].sd] = "complete")

----------------------------------------------------------------------------
(* What the code says of itself.                                           *)

\* cur_len is the "curent # of pending requests" (connection_demux.c), when no
\* thread is between reading and writing it.
CurLenCounts ==
  recv_pc \in {"poll", "read"} /\ ~ConnectionLocked
  /\ main_pc = "open" /\ Running
    => cur_len = Cardinality(UsedSlots)

\* "We will not reenter this function until this SYN packet has been
\* dispatched to the right context, and that context's socket updated to be
\* 'new_socket'" (network_io_tcp.c).
NewSocketPassedOn == aborted # "new_socket"

\* _mysock_close_passive_socket() closes "any queued connections that haven't
\* been passed up to the user" and returns.
ListenerCloses ==
  TalkingPeers => ((main_pc = "join_recv") ~> (main_pc = "closed"))
============================================================================

----------------------------- MODULE Connection -----------------------------
(***************************************************************************)
(* One mysocket connection from myconnect() to the end of myclose()        *)
(* (mysock_api.c, mysock.c, stcp_api.c, network_io_socket.c): the context  *)
(* mysock_context_t and the three threads that share it.                   *)
(*                                                                         *)
(*   app   the application thread: myconnect, mywrite, myread, myclose;    *)
(*   stcp  the transport thread: transport_thread_func() runs the          *)
(*         transport layer, which calls the stcp_ functions;               *)
(*   recv  the network receive thread, network_recv_thread_func().         *)
(*                                                                         *)
(* A thread has a program counter whose labels are the places where        *)
(* another thread can intervene.  A critical section is one step; what the *)
(* code does after the unlock (cond_broadcast, cond_signal, the memcpy of  *)
(* a partial dequeue) is a step of its own.  A condition variable is the   *)
(* set of threads that wait on it: waking up empties the set, and a woken  *)
(* thread tests its condition again.                                       *)
(*                                                                         *)
(* The body of the transport layer is left to its implementor by           *)
(* transport.c.  It is modelled by the contract in transport.c, mysock.c   *)
(* and stcp_api.h: unblock the application at most once or give up, then   *)
(* wait for events, handle each event that was returned, and return when   *)
(* both sides have closed or when it gives the connection up.              *)
(***************************************************************************)
EXTENDS PacketQueue

CONSTANTS
  WriteSizes,   \* values of buf_len in mywrite()
  ReadSizes,    \* values of buf_len in myread()
  RecvSizes,    \* values of max_len in the transport's stcp_app_recv()
  PacketSizes,  \* payload lengths of the peer's packets, 0 for a bare ACK
  WaitCalls,    \* [flags, timed] of the transport's stcp_wait_for_event()
  MaxWritten,   \* bound on the bytes the application writes
  MaxPeer,      \* bound on the bytes the peer sends
  MaxQueue      \* bound on the nodes waiting in a queue

\* stcp_event_type_t; a set of events is the bit mask of the code.
ANY_EVENT == {"APP_DATA", "NETWORK_DATA", "APP_CLOSE_REQUESTED"}

\* The values of errno that the code tells apart: success, EINTR, what
\* transport_thread_func() substitutes, and any other error.
Errno == {"0", "EINTR", "ECONNREFUSED", "other"}

ASSUME SizesAssumption ==
  /\ WriteSizes \subseteq Nat
  /\ ReadSizes \subseteq Nat
  /\ RecvSizes \subseteq Nat
  /\ PacketSizes \subseteq Nat
ASSUME WaitAssumption ==
  WaitCalls \subseteq [flags : SUBSET ANY_EVENT, timed : BOOLEAN]
ASSUME BoundsAssumption ==
  MaxWritten \in Nat /\ MaxPeer \in Nat /\ MaxQueue \in Nat

VARIABLES
  app_pc, stcp_pc, recv_pc,    \* where each thread is
  blocking, stcp_errno,        \* outcome of the connection attempt
  blocking_cond,               \* threads waiting for that outcome
  app_recv_queue,              \* data coming from the application
  app_send_queue,              \* data to be passed up to the application
  network_recv_queue,          \* data coming from the peer
  data_ready_cond,             \* threads waiting on data_ready_cond
  close_requested, eof,
  exit_pipe,                   \* a byte is in the receive thread's exit pipe
  buf_len,                     \* argument of the myread() in progress
  max_len,                     \* argument of the stcp_app_recv() in progress
  wait_call,                   \* arguments of the stcp_wait_for_event()
  events,                      \* events returned and not yet handled
  errno,                       \* errno of the transport thread
  fin_received                 \* the transport has called stcp_fin_received()

\* History of the run: stream positions and one-time events.
VARIABLES
  written, taken,              \* bytes given to mywrite() / to the transport
  up, got,                     \* bytes passed up / returned by myread()
  close_events,                \* number of close events returned
  established,                 \* the transport layer announced success
  peer_sent                    \* bytes in the peer's packets so far

connVars == << blocking, stcp_errno, blocking_cond, errno, established >>
waitVars == << wait_call, close_events, close_requested >>
appVars == << buf_len, written, got, eof >>
stcpVars == << max_len, events, taken, up, fin_received >>
queues == << app_recv_queue, app_send_queue, network_recv_queue >>
netVars == << exit_pipe, peer_sent >>
vars == << app_pc, stcp_pc, recv_pc, data_ready_cond, connVars, waitVars,
           appVars, stcpVars, queues, netVars >>

\* _mysock_allocate_context(): calloc() and blocking = TRUE.
Init ==
  /\ app_pc = "new" /\ stcp_pc = "none" /\ recv_pc = "none"
  /\ blocking = TRUE /\ stcp_errno = "0" /\ blocking_cond = {}
  /\ app_recv_queue = << >> /\ app_send_queue = << >>
  /\ network_recv_queue = << >> /\ data_ready_cond = {}
  /\ close_requested = FALSE /\ eof = FALSE /\ exit_pipe = FALSE
  /\ buf_len = 0 /\ max_len = 0 /\ events = {}
  /\ wait_call = [flags |-> {}, timed |-> FALSE]
  /\ errno = "0" /\ fin_received = FALSE
  /\ written = 0 /\ taken = 0 /\ up = 0 /\ got = 0
  /\ close_events = 0 /\ established = FALSE /\ peer_sent = 0

----------------------------------------------------------------------------
(* The application thread.                                                 *)

\* myconnect() up to the wait: _mysock_transport_init() starts the receive
\* thread and the transport thread.  No step of either depends on what the
\* application thread still does after creating it.
MyConnect ==
  /\ app_pc = "new"
  /\ app_pc' = "connect" /\ stcp_pc' = "init" /\ recv_pc' = "poll"
  /\ UNCHANGED << data_ready_cond, connVars, waitVars, appVars, stcpVars,
                  queues, netVars >>

\* _mysock_wait_for_connection(): test blocking under blocking_lock, wait
\* while it is set, and return the outcome otherwise.
WaitForConnection ==
  /\ \/ app_pc = "connect"
     \/ app_pc = "connect_wait" /\ "app" \notin blocking_cond
  /\ \/ /\ blocking
        /\ app_pc' = "connect_wait"
        /\ blocking_cond' = blocking_cond \cup {"app"}
     \/ /\ ~blocking
        /\ app_pc' = IF stcp_errno = "0" THEN "open" ELSE "failed"
        /\ UNCHANGED blocking_cond
  /\ UNCHANGED << stcp_pc, recv_pc, data_ready_cond, blocking, stcp_errno,
                  errno, established, waitVars, appVars, stcpVars, queues,
                  netVars >>

\* mywrite(): the buffer is queued whole, irrespective of its length.
MyWrite(n) ==
  /\ app_pc = "open"
  /\ written + n <= MaxWritten /\ Len(app_recv_queue) < MaxQueue
  /\ app_recv_queue' =
       EnqueueBuffer(app_recv_queue, [off |-> written, len |-> n])
  /\ written' = written + n
  /\ app_pc' = "write_bcast"
  /\ UNCHANGED << stcp_pc, recv_pc, data_ready_cond, connVars, waitVars,
                  buf_len, got, eof, stcpVars, app_send_queue,
                  network_recv_queue, netVars >>

\* Mutant: the writer forgets to wake anybody up.
WriteBroadcast_Silent ==
  /\ app_pc = "write_bcast" /\ app_pc' = "open"
  /\ UNCHANGED << stcp_pc, recv_pc, data_ready_cond, connVars, waitVars,
                  appVars, stcpVars, queues, netVars >>

\* The broadcast that follows the unlock in _mysock_enqueue_buffer().
WriteBroadcast ==
  /\ app_pc = "write_bcast"
  /\ app_pc' = "open" /\ data_ready_cond' = {}
  /\ UNCHANGED << stcp_pc, recv_pc, connVars, waitVars, appVars, stcpVars,
                  queues, netVars >>

\* The critical section of _mysock_dequeue_buffer(), called by myread() with
\* remove_partial set: wait, or leave with the decision to copy a part of the
\* head, or unlink the head and return its length; a length of 0 sets eof.
ReadDequeue(n) ==
  /\ \/ /\ app_send_queue = << >>
        /\ app_pc' = "read_wait"
        /\ data_ready_cond' = data_ready_cond \cup {"app"}
        /\ UNCHANGED << app_send_queue, got, eof >>
     \/ /\ app_send_queue # << >> /\ DequeuesPart(app_send_queue, n)
        /\ app_pc' = "read_copy"
        /\ UNCHANGED << data_ready_cond, app_send_queue, got, eof >>
     \/ /\ app_send_queue # << >> /\ ~DequeuesPart(app_send_queue, n)
        /\ app_pc' = "open"
        /\ app_send_queue' = DequeueWhole(app_send_queue)
        /\ got' = got + Head(app_send_queue).len
        /\ eof' = (Head(app_send_queue).len = 0)
        /\ UNCHANGED data_ready_cond
  /\ UNCHANGED << stcp_pc, recv_pc, connVars, waitVars, written, stcpVars,
                  app_recv_queue, network_recv_queue, netVars >>

\* myread(); once eof is set it returns 0 without touching the queue.
MyRead(n) ==
  /\ app_pc = "open" /\ ~eof
  /\ buf_len' = n
  /\ ReadDequeue(n)

\* The reader blocked in _mysock_dequeue_buffer() has been woken up.
ReadWake ==
  /\ app_pc = "read_wait" /\ "app" \notin data_ready_cond
  /\ ReadDequeue(buf_len)
  /\ UNCHANGED buf_len

\* The partial copy, made after data_ready_lock was released.
ReadCopy ==
  /\ app_pc = "read_copy"
  /\ app_pc' = "open"
  /\ app_send_queue' = DequeuePart(app_send_queue, buf_len)
  /\ got' = got + buf_len
  /\ eof' = (buf_len = 0)
  /\ UNCHANGED << stcp_pc, recv_pc, data_ready_cond, connVars, waitVars,
                  buf_len, written, stcpVars, app_recv_queue,
                  network_recv_queue, netVars >>

\* myclose() on a socket that is unconnected, open, or whose myconnect()
\* failed: set close_requested under the lock, then broadcast.
MyClose ==
  /\ app_pc \in {"new", "open", "failed"}
  /\ app_pc' = "close_bcast" /\ close_requested' = TRUE
  /\ UNCHANGED << stcp_pc, recv_pc, data_ready_cond, connVars, wait_call,
                  close_events, appVars, stcpVars, queues, netVars >>

CloseBroadcast ==
  /\ app_pc = "close_bcast"
  /\ app_pc' = "join_stcp" /\ data_ready_cond' = {}
  /\ UNCHANGED << stcp_pc, recv_pc, connVars, waitVars, appVars, stcpVars,
                  queues, netVars >>

\* Mutant: the receive thread is never told to exit.
JoinTransport_NoExit ==
  /\ app_pc = "join_stcp" /\ stcp_pc \in {"none", "end"}
  /\ app_pc' = "join_recv"
  /\ UNCHANGED << stcp_pc, recv_pc, data_ready_cond, connVars, waitVars,
                  appVars, stcpVars, queues, netVars >>

\* pthread_join() of the transport thread, if it was started, and
\* _network_stop_recv_thread(): a byte into the exit pipe of the receive
\* thread, if that was started.
JoinTransport ==
  /\ app_pc = "join_stcp" /\ stcp_pc \in {"none", "end"}
  /\ app_pc' = "join_recv" /\ exit_pipe' = (recv_pc # "none")
  /\ UNCHANGED << stcp_pc, recv_pc, data_ready_cond, connVars, waitVars,
                  appVars, stcpVars, queues, peer_sent >>

\* Mutant: the context is freed without waiting for the receive thread.
JoinRecvAndFree_NoJoin ==
  /\ app_pc = "join_recv" /\ app_pc' = "closed"
  /\ app_recv_queue' = << >> /\ app_send_queue' = << >>
  /\ network_recv_queue' = << >>
  /\ UNCHANGED << stcp_pc, recv_pc, data_ready_cond, connVars, waitVars,
                  appVars, stcpVars, netVars >>

\* pthread_join() of the receive thread and _mysock_free_context(): whatever
\* is left in the queues is discarded.
JoinRecvAndFree ==
  /\ app_pc = "join_recv" /\ recv_pc \in {"none", "end"}
  /\ app_pc' = "closed"
  /\ app_recv_queue' = << >> /\ app_send_queue' = << >>
  /\ network_recv_queue' = << >>
  /\ UNCHANGED << stcp_pc, recv_pc, data_ready_cond, connVars, waitVars,
                  appVars, stcpVars, netVars >>

AppCall == \/ MyConnect
           \/ \E n \in WriteSizes : MyWrite(n)
           \/ \E n \in ReadSizes : MyRead(n)
           \/ MyClose

AppStep == \/ WaitForConnection \/ WriteBroadcast \/ ReadWake \/ ReadCopy
           \/ CloseBroadcast \/ JoinTransport \/ JoinRecvAndFree

----------------------------------------------------------------------------
(* The transport thread.                                                   *)

\* stcp_unblock_application() up to the unlock, errno being e.
Unblock(e) ==
  /\ blocking' = FALSE
  /\ stcp_errno' = IF e = "EINTR" THEN "0" ELSE e

\* transport_init() announces the outcome of the handshake.  The handshake
\* itself is the implementor's; the skeleton announces success at once.
StcpUnblock(e) ==
  /\ stcp_pc = "init"
  /\ Unblock(e) /\ errno' = e
  /\ established' = (e \in {"0", "EINTR"})
  /\ stcp_pc' = "signal"
  /\ UNCHANGED << app_pc, recv_pc, data_ready_cond, blocking_cond, waitVars,
                  appVars, stcpVars, queues, netVars >>

\* pthread_cond_signal(&blocking_cond), after the unlock.
StcpSignal ==
  /\ stcp_pc \in {"signal", "exit_signal"}
  /\ blocking_cond' = {}
  /\ stcp_pc' = IF stcp_pc = "exit_signal" THEN "eof"
                ELSE IF established THEN "loop" ELSE "exit"
  /\ UNCHANGED << app_pc, recv_pc, data_ready_cond, blocking, stcp_errno,
                  errno, established, waitVars, appVars, stcpVars, queues,
                  netVars >>

\* Mutant: the close request overtakes the application's data.
ReadyEvents_CloseFirst(flags) ==
       {e \in flags \cap {"APP_DATA"} : app_recv_queue # << >>}
  \cup {e \in flags \cap {"NETWORK_DATA"} : network_recv_queue # << >>}
  \cup {e \in {"APP_CLOSE_REQUESTED"} : close_requested}

\* Mutant: the application's data is announced once any data is there.
ReadyEvents_AnyData(flags) ==
       {e \in flags \cap {"APP_DATA", "NETWORK_DATA"} :
          app_recv_queue # << >> \/ network_recv_queue # << >>}
  \cup {e \in {"APP_CLOSE_REQUESTED"} :
          close_requested /\ app_recv_queue = << >>}

\* The events stcp_wait_for_event(flags) finds: the close request is reported
\* only once the application's data is gone, and whatever the flags are.
ReadyEvents(flags) ==
       {e \in flags \cap {"APP_DATA"} : app_recv_queue # << >>}
  \cup {e \in flags \cap {"NETWORK_DATA"} : network_recv_queue # << >>}
  \cup {e \in {"APP_CLOSE_REQUESTED"} :
          close_requested /\ app_recv_queue = << >>}

\* One turn of the loop of stcp_wait_for_event(): return the events, taking
\* back the close request if it is among them, or wait.
CheckEvents(flags) ==
  /\ \/ /\ ReadyEvents(flags) # {}
        /\ events' = ReadyEvents(flags) /\ stcp_pc' = "events"
        /\ IF "APP_CLOSE_REQUESTED" \in ReadyEvents(flags)
           THEN close_requested' = FALSE /\ close_events' = close_events + 1
           ELSE UNCHANGED << close_requested, close_events >>
        /\ UNCHANGED data_ready_cond
     \/ /\ ReadyEvents(flags) = {}
        /\ stcp_pc' = "wait"
        /\ data_ready_cond' = data_ready_cond \cup {"stcp"}
        /\ UNCHANGED << events, close_requested, close_events >>
  /\ UNCHANGED << app_pc, recv_pc, connVars, appVars, max_len, taken, up,
                  fin_received, queues, netVars >>

\* ctx->done of transport.c: both sides have closed the connection.
Done == close_events > 0 /\ fin_received

\* control_loop() is not done and calls stcp_wait_for_event().
StcpWait(call) ==
  /\ stcp_pc = "loop" /\ ~Done
  /\ wait_call' = call
  /\ CheckEvents(call.flags)

\* pthread_cond_wait() or pthread_cond_timedwait() returned 0.
StcpWake ==
  /\ stcp_pc = "wait" /\ "stcp" \notin data_ready_cond
  /\ CheckEvents(wait_call.flags)
  /\ UNCHANGED wait_call

\* pthread_cond_timedwait() returned ETIMEDOUT: return without events,
\* whatever has become ready in the meantime.
StcpTimeout ==
  /\ stcp_pc = "wait" /\ wait_call.timed /\ "stcp" \in data_ready_cond
  /\ data_ready_cond' = data_ready_cond \ {"stcp"}
  /\ stcp_pc' = "loop"
  /\ UNCHANGED << app_pc, recv_pc, connVars, waitVars, appVars, stcpVars,
                  queues, netVars >>

\* Back to the other events, or to the loop when e was the last one.
Handled(e) ==
  /\ events' = events \ {e}
  /\ stcp_pc' = IF events = {e} THEN "loop" ELSE "events"

\* stcp_app_recv(), called for an APP_DATA event: a critical section that
\* takes the whole head, or leaves it for the partial copy.
StcpAppRecv(n) ==
  /\ stcp_pc = "events" /\ "APP_DATA" \in events /\ app_recv_queue # << >>
  /\ max_len' = n
  /\ \/ /\ DequeuesPart(app_recv_queue, n)
        /\ stcp_pc' = "app_copy"
        /\ UNCHANGED << app_recv_queue, taken, events >>
     \/ /\ ~DequeuesPart(app_recv_queue, n)
        /\ app_recv_queue' = DequeueWhole(app_recv_queue)
        /\ taken' = taken + Head(app_recv_queue).len
        /\ Handled("APP_DATA")
  /\ UNCHANGED << app_pc, recv_pc, data_ready_cond, connVars, waitVars,
                  appVars, up, fin_received, app_send_queue,
                  network_recv_queue, netVars >>

StcpAppCopy ==
  /\ stcp_pc = "app_copy"
  /\ app_recv_queue' = DequeuePart(app_recv_queue, max_len)
  /\ taken' = taken + max_len
  /\ Handled("APP_DATA")
  /\ UNCHANGED << app_pc, recv_pc, data_ready_cond, connVars, waitVars,
                  appVars, max_len, up, fin_received, app_send_queue,
                  network_recv_queue, netVars >>

\* Mutant: an empty buffer is queued like any other.
AppSends_Empty(src_len) == TRUE

\* stcp_app_send() does nothing for an empty buffer.
AppSends(src_len) == src_len > 0

\* stcp_network_recv(), called for a NETWORK_DATA event, takes one packet off
\* network_recv_queue; a payload goes up with stcp_app_send(), a FIN is
\* announced with stcp_fin_received(), which queues an empty buffer.  A bare
\* ACK leaves the application's queue alone.
StcpNetworkRecv ==
  /\ stcp_pc = "events" /\ "NETWORK_DATA" \in events
  /\ network_recv_queue # << >>
  /\ network_recv_queue' = DequeueWhole(network_recv_queue)
  /\ LET p == Head(network_recv_queue) IN
       \/ /\ p.fin
          /\ app_send_queue' =
               EnqueueBuffer(app_send_queue, [off |-> up, len |-> 0])
          /\ fin_received' = TRUE
          /\ stcp_pc' = "up_bcast"
          /\ UNCHANGED << up, events >>
       \/ /\ ~p.fin /\ AppSends(p.len)
          /\ app_send_queue' =
               EnqueueBuffer(app_send_queue, [off |-> p.off, len |-> p.len])
          /\ up' = up + p.len
          /\ stcp_pc' = "up_bcast"
          /\ UNCHANGED << fin_received, events >>
       \/ /\ ~p.fin /\ ~AppSends(p.len)
          /\ Handled("NETWORK_DATA")
          /\ UNCHANGED << app_send_queue, up, fin_received >>
  /\ UNCHANGED << app_pc, recv_pc, data_ready_cond, connVars, waitVars,
                  appVars, max_len, taken, app_recv_queue, netVars >>

StcpUpBroadcast ==
  /\ stcp_pc = "up_bcast"
  /\ data_ready_cond' = {}
  /\ Handled("NETWORK_DATA")
  /\ UNCHANGED << app_pc, recv_pc, connVars, waitVars, appVars, max_len, taken,
                  up, fin_received, queues, netVars >>

\* The transport layer sends its FIN on APP_CLOSE_REQUESTED.
StcpClose ==
  /\ stcp_pc = "events" /\ "APP_CLOSE_REQUESTED" \in events
  /\ Handled("APP_CLOSE_REQUESTED")
  /\ UNCHANGED << app_pc, recv_pc, data_ready_cond, connVars, waitVars,
                  appVars, max_len, taken, up, fin_received, queues, netVars >>

\* control_loop() is done and transport_init() returns.
StcpReturn ==
  /\ stcp_pc = "loop" /\ Done
  /\ stcp_pc' = "exit"
  /\ UNCHANGED << app_pc, recv_pc, data_ready_cond, connVars, waitVars,
                  appVars, stcpVars, queues, netVars >>

\* transport_init() gives up: the handshake failed and nothing was announced,
\* or the connection is abandoned.  errno is whatever was left in it.
StcpGiveUp(e) ==
  /\ stcp_pc \in {"init", "loop"}
  /\ errno' = e
  /\ stcp_pc' = "exit"
  /\ UNCHANGED << app_pc, recv_pc, data_ready_cond, blocking, stcp_errno,
                  blocking_cond, established, waitVars, appVars, stcpVars,
                  queues, netVars >>

\* Mutant: errno is passed on as transport_init() left it.
StcpExit_KeepErrno ==
  /\ stcp_pc = "exit"
  /\ stcp_pc' = IF blocking THEN "exit_unblock" ELSE "eof"
  /\ UNCHANGED << app_pc, recv_pc, data_ready_cond, connVars, waitVars,
                  appVars, stcpVars, queues, netVars >>

\* Mutant: the application is left blocked.
StcpExit_LeaveBlocked ==
  /\ stcp_pc = "exit" /\ stcp_pc' = "eof"
  /\ UNCHANGED << app_pc, recv_pc, data_ready_cond, connVars, waitVars,
                  appVars, stcpVars, queues, netVars >>

\* transport_thread_func() after transport_init(): if the application is
\* still blocked, make sure errno tells of an error.
StcpExit ==
  /\ stcp_pc = "exit"
  /\ IF blocking
     THEN /\ errno' = IF errno \in {"0", "EINTR"} THEN "ECONNREFUSED" ELSE errno
          /\ stcp_pc' = "exit_unblock"
     ELSE /\ stcp_pc' = "eof"
          /\ UNCHANGED errno
  /\ UNCHANGED << app_pc, recv_pc, data_ready_cond, blocking, stcp_errno,
                  blocking_cond, established, waitVars, appVars, stcpVars,
                  queues, netVars >>

\* ... and call stcp_unblock_application().
StcpExitUnblock ==
  /\ stcp_pc = "exit_unblock"
  /\ Unblock(errno)
  /\ stcp_pc' = "exit_signal"
  /\ UNCHANGED << app_pc, recv_pc, data_ready_cond, blocking_cond, errno,
                  established, waitVars, appVars, stcpVars, queues, netVars >>

\* Mutant: no end-of-file marker after transport_init().
StcpEof_None ==
  /\ stcp_pc = "eof" /\ stcp_pc' = "eof_bcast"
  /\ UNCHANGED << app_pc, recv_pc, data_ready_cond, connVars, waitVars,
                  appVars, stcpVars, queues, netVars >>

\* The end-of-file marker that makes the final myread() return 0 bytes.
StcpEof ==
  /\ stcp_pc = "eof"
  /\ app_send_queue' = EnqueueBuffer(app_send_queue, [off |-> up, len |-> 0])
  /\ stcp_pc' = "eof_bcast"
  /\ UNCHANGED << app_pc, recv_pc, data_ready_cond, connVars, waitVars,
                  appVars, stcpVars, app_recv_queue, network_recv_queue,
                  netVars >>

StcpEofBroadcast ==
  /\ stcp_pc = "eof_bcast"
  /\ data_ready_cond' = {}
  /\ stcp_pc' = "end"
  /\ UNCHANGED << app_pc, recv_pc, connVars, waitVars, appVars, stcpVars,
                  queues, netVars >>

StcpStep == \/ \E e \in Errno : StcpUnblock(e)
            \/ StcpSignal
            \/ \E call \in WaitCalls : StcpWait(call)
            \/ StcpWake \/ StcpTimeout
            \/ \E n \in RecvSizes : StcpAppRecv(n)
            \/ StcpAppCopy \/ StcpNetworkRecv \/ StcpUpBroadcast \/ StcpClose
            \/ StcpReturn \/ StcpExit \/ StcpExitUnblock
            \/ StcpEof \/ StcpEofBroadcast

----------------------------------------------------------------------------
(* The network receive thread, and the peer at the other end.              *)

\* poll() returned because of the exit pipe, which ends the thread even if
\* the socket is readable too.
RecvExit ==
  /\ recv_pc = "poll" /\ exit_pipe
  /\ recv_pc' = "end"
  /\ UNCHANGED << app_pc, stcp_pc, data_ready_cond, connVars, waitVars,
                  appVars, stcpVars, queues, netVars >>

\* poll() returned because the peer made the socket readable.  From here the
\* thread no longer looks at the exit pipe until it is back in poll().
RecvReadable ==
  /\ recv_pc = "poll" /\ ~exit_pipe
  /\ recv_pc' = "read"
  /\ UNCHANGED << app_pc, stcp_pc, data_ready_cond, connVars, waitVars,
                  appVars, stcpVars, queues, netVars >>

\* The peer's FIN ends its data; only bare ACKs follow it.
FinArrived ==
  \/ fin_received
  \/ \E i \in 1 .. Len(network_recv_queue) : network_recv_queue[i].fin

\* _network_recv_packet() has read a packet of the peer, which is queued.
\* Packets come in stream order, as over the TCP socket of a reliable
\* mysocket.
RecvPacket(n, fin) ==
  /\ recv_pc = "read" /\ (FinArrived => n = 0 /\ ~fin)
  /\ peer_sent + n <= MaxPeer /\ Len(network_recv_queue) < MaxQueue
  /\ network_recv_queue' =
       EnqueueBuffer(network_recv_queue,
                     [off |-> peer_sent, len |-> n, fin |-> fin])
  /\ peer_sent' = peer_sent + n
  /\ recv_pc' = "bcast"
  /\ UNCHANGED << app_pc, stcp_pc, data_ready_cond, connVars, waitVars,
                  appVars, stcpVars, app_recv_queue, app_send_queue,
                  exit_pipe >>

\* Mutant: pthread_cond_signal() in place of the broadcast.
RecvBroadcast_Signal ==
  /\ recv_pc = "bcast" /\ recv_pc' = "poll"
  /\ \/ data_ready_cond = {} /\ UNCHANGED data_ready_cond
     \/ \E t \in data_ready_cond : data_ready_cond' = data_ready_cond \ {t}
  /\ UNCHANGED << app_pc, stcp_pc, connVars, waitVars, appVars, stcpVars,
                  queues, netVars >>

RecvBroadcast ==
  /\ recv_pc = "bcast"
  /\ recv_pc' = "poll" /\ data_ready_cond' = {}
  /\ UNCHANGED << app_pc, stcp_pc, connVars, waitVars, appVars, stcpVars,
                  queues, netVars >>

\* _network_recv_packet() returned 0 or an error: the peer's socket is gone,
\* and the thread ends without telling anyone.
RecvLost ==
  /\ recv_pc = "read"
  /\ recv_pc' = "end"
  /\ UNCHANGED << app_pc, stcp_pc, data_ready_cond, connVars, waitVars,
                  appVars, stcpVars, queues, netVars >>

RecvFin == RecvPacket(0, TRUE)

\* What ends a read from the peer's socket.
RecvRead == \/ \E n \in PacketSizes : RecvPacket(n, FALSE)
            \/ RecvFin \/ RecvLost

RecvStep == RecvExit \/ RecvBroadcast

----------------------------------------------------------------------------
\* POSIX lets pthread_cond_wait() return without a signal.
SpuriousWakeup ==
  /\ \/ /\ \E t \in data_ready_cond : data_ready_cond' = data_ready_cond \ {t}
        /\ UNCHANGED blocking_cond
     \/ /\ blocking_cond # {}
        /\ blocking_cond' = {}
        /\ UNCHANGED data_ready_cond
  /\ UNCHANGED << app_pc, stcp_pc, recv_pc, blocking, stcp_errno, errno,
                  established, waitVars, appVars, stcpVars, queues, netVars >>

\* The context has been freed; nothing is left to run.
Terminated == app_pc = "closed" /\ UNCHANGED vars

Next == \/ AppCall \/ AppStep
        \/ StcpStep \/ \E e \in Errno : StcpGiveUp(e)
        \/ RecvReadable \/ RecvRead \/ RecvStep
        \/ SpuriousWakeup \/ Terminated

Spec == Init /\ [][Next]_vars

\* Every thread that can run eventually runs: pthreads schedules all of them,
\* and a step inside a call has nothing to wait for but what its guard says.
\* The application's choice to make a call, whatever the peer does and the
\* transport layer's choice to give up are not fair.
FairSpec == /\ Spec
            /\ WF_vars(AppStep) /\ WF_vars(StcpStep) /\ WF_vars(RecvStep)

\* What a peer does that closes too: it finishes the packets it begins, and its
\* application closes some day, as client.c and server.c do when myread()
\* returns 0: it goes on sending until its FIN has arrived.
PeerCloses == /\ WF_vars(~FinArrived /\ RecvReadable) /\ WF_vars(RecvRead)
              /\ SF_vars(RecvFin)

----------------------------------------------------------------------------
(* Properties.                                                             *)

AppPc == {"new", "connect", "connect_wait", "open", "failed", "write_bcast",
          "read_wait", "read_copy", "close_bcast", "join_stcp", "join_recv",
          "closed"}
StcpPc == {"none", "init", "signal", "loop", "wait", "events", "app_copy",
           "up_bcast", "exit", "exit_unblock", "exit_signal", "eof",
           "eof_bcast", "end"}
RecvPc == {"none", "poll", "read", "bcast", "end"}
Packet == [off : Nat, len : Nat, fin : BOOLEAN]

\* Type invariant of the context and of the threads' local state.
ThreadsTypeOK ==
  /\ app_pc \in AppPc /\ stcp_pc \in StcpPc /\ recv_pc \in RecvPc
  /\ stcp_errno \in Errno /\ errno \in Errno
WaitersTypeOK ==
  /\ blocking_cond \subseteq {"app"}
  /\ data_ready_cond \subseteq {"app", "stcp"}
  /\ wait_call \in [flags : SUBSET ANY_EVENT, timed : BOOLEAN]
  /\ events \subseteq ANY_EVENT
FlagsTypeOK ==
  /\ blocking \in BOOLEAN /\ close_requested \in BOOLEAN
  /\ eof \in BOOLEAN /\ exit_pipe \in BOOLEAN
  /\ fin_received \in BOOLEAN /\ established \in BOOLEAN
QueuesTypeOK ==
  /\ app_recv_queue \in Seq(Node) /\ app_send_queue \in Seq(Node)
  /\ network_recv_queue \in Seq(Packet)
  /\ buf_len \in Nat /\ max_len \in Nat
  /\ written \in Nat /\ taken \in Nat /\ up \in Nat /\ got \in Nat
  /\ close_events \in Nat /\ peer_sent \in Nat
TypeOK == ThreadsTypeOK /\ WaitersTypeOK /\ FlagsTypeOK /\ QueuesTypeOK

----------------------------------------------------------------------------
(* Safety.                                                                 *)

\* The application is inside myclose() or past it.
Closing == app_pc \in {"close_bcast", "join_stcp", "join_recv", "closed"}

\* The application's end of the up direction is finished: the peer's FIN was
\* passed up, or the transport thread is past its final end-of-file marker.
UpEnded == fin_received \/ stcp_pc \in {"eof_bcast", "end"}

\* Until myclose() discards it, app_recv_queue holds exactly the bytes that
\* mywrite() has accepted and stcp_app_recv() has not returned, in order:
\* the two calls, one of which copies outside the lock, lose, repeat and
\* reorder nothing.
DownStream == app_pc # "closed" => Contiguous(app_recv_queue, taken, written)

\* The same for the other direction, through both of its queues: the receive
\* thread's packets up to stcp_app_send(), and from there to myread().
UpStream ==
  app_pc # "closed" => /\ Contiguous(network_recv_queue, up, peer_sent)
                       /\ Contiguous(app_send_queue, got, up)

\* myread() reports end of file (ctx->eof, which is never reset) only once
\* the peer has finished writing or the transport layer has ended, and only
\* after every byte passed up was read (mysock_impl.h: "true once peer
\* finishes writing").
EofIsReal == eof => UpEnded /\ got = up

\* stcp_wait_for_event() passes the close request down at most once, and not
\* until the transport layer has taken all outstanding data.
CloseAfterData == close_events > 0 => close_events = 1 /\ taken = written

\* myconnect() returns success only if the transport layer announced success,
\* and fails only if it did not, whatever errno the transport thread ends
\* with and whether or not it called stcp_unblock_application() itself.
OutcomeReported ==
  /\ app_pc \in {"open", "write_bcast", "read_wait", "read_copy"}
       => established
  /\ app_pc = "failed" => ~established

\* When _mysock_free_context() runs no other thread uses the context.
NoUseAfterFree ==
  app_pc = "closed" => /\ stcp_pc \in {"none", "end"}
                       /\ recv_pc \in {"none", "end"}
                       /\ data_ready_cond = {} /\ blocking_cond = {}

\* An event that stcp_wait_for_event() returned is still true when the
\* transport layer acts on it, so neither stcp_app_recv() nor
\* stcp_network_recv() blocks the transport thread.
EventsAreReady ==
  /\ stcp_pc \in {"events", "app_copy", "up_bcast"} /\ "APP_DATA" \in events
       => app_recv_queue # << >>
  /\ stcp_pc \in {"events", "app_copy"} /\ "NETWORK_DATA" \in events
       => network_recv_queue # << >>

\* No wakeup is lost although every signal is sent after the unlock: while a
\* thread sleeps on a condition variable and what it waits for holds, some
\* other thread is about to signal that variable.
NoLostWakeup ==
  /\ "stcp" \in data_ready_cond /\ ReadyEvents(wait_call.flags) # {}
       => app_pc \in {"write_bcast", "close_bcast"} \/ recv_pc = "bcast"
  /\ "app" \in data_ready_cond /\ app_send_queue # << >>
       => stcp_pc \in {"up_bcast", "eof_bcast"}
  /\ blocking_cond # {} /\ ~blocking
       => stcp_pc \in {"signal", "exit_signal"}

----------------------------------------------------------------------------
(* The strengthening that makes the safety properties inductive.           *)

\* A thread that left the lock to copy a part of the head still finds there
\* the node it looked at, longer than what it copies.
CopiesSafely ==
  /\ stcp_pc = "app_copy" => /\ app_recv_queue # << >>
                             /\ DequeuesPart(app_recv_queue, max_len)
  /\ app_pc = "read_copy" => /\ app_send_queue # << >>
                             /\ DequeuesPart(app_send_queue, buf_len)

\* How far the three threads can be apart, and who can wait where.
Phases ==
  /\ app_pc = "new" => stcp_pc = "none" /\ recv_pc = "none"
  /\ app_pc \in {"join_recv", "closed"} => stcp_pc \in {"none", "end"}
  /\ app_pc = "closed" => recv_pc \in {"none", "end"}
  /\ "stcp" \in data_ready_cond => stcp_pc = "wait"
  /\ "app" \in data_ready_cond => app_pc = "read_wait"
  /\ blocking_cond # {} => app_pc = "connect_wait"

\* What the transport thread's position says about the connection attempt.
Outcome ==
  /\ stcp_pc \in {"none", "init", "exit_unblock"} => blocking
  /\ blocking => stcp_pc \in {"none", "init", "exit", "exit_unblock"}
  /\ blocking => ~established
  /\ ~blocking => (stcp_errno = "0" <=> established)
  /\ stcp_pc = "exit_unblock" => errno \notin {"0", "EINTR"}
  /\ app_pc \in {"open", "write_bcast", "read_wait", "read_copy"}
       => ~blocking /\ stcp_errno = "0"
  /\ app_pc = "failed" => ~blocking /\ stcp_errno # "0"

\* A close request is pending, or was passed down once, but never both.
CloseOnce ==
  /\ close_requested => Closing /\ close_events = 0
  /\ close_events > 0 => /\ Closing /\ close_events = 1
                         /\ taken = written /\ app_recv_queue = << >>

\* Nothing follows a FIN but bare ACKs.
BareAck(p) == p.len = 0 /\ ~p.fin
FinIsLast ==
  \A i \in 1 .. Len(network_recv_queue) :
    /\ network_recv_queue[i].fin => network_recv_queue[i].len = 0
    /\ fin_received => BareAck(network_recv_queue[i])
    /\ \A j \in 1 .. Len(network_recv_queue) :
         j < i /\ network_recv_queue[j].fin => BareAck(network_recv_queue[i])

\* Every end-of-file marker stands at the very end of what was passed up.
MarkersAtEnd ==
  \A i \in 1 .. Len(app_send_queue) :
    app_send_queue[i].len = 0 => UpEnded /\ app_send_queue[i].off = up

\* The argument of a myread() in progress, which has not seen end of file.
Reading ==
  app_pc \in {"read_wait", "read_copy"} => buf_len \in ReadSizes /\ ~eof

\* The inductive invariant.
Inv == /\ TypeOK /\ CopiesSafely /\ Phases /\ Outcome /\ DownStream /\ UpStream
       /\ CloseOnce /\ FinIsLast /\ MarkersAtEnd /\ Reading /\ EventsAreReady
       /\ NoLostWakeup

----------------------------------------------------------------------------
(* The two directions of the stream implement BytePipe.                    *)

DownPipe == INSTANCE BytePipe WITH
  sent <- written, rcvd <- taken, closed <- Closing, ended <- close_events > 0

UpPipe == INSTANCE BytePipe WITH
  sent <- up, rcvd <- got, closed <- UpEnded, ended <- eof

\* mywrite() to stcp_app_recv(), closed by myclose(), its end the
\* APP_CLOSE_REQUESTED event.
DownPipeSpec == DownPipe!Spec

\* stcp_app_send() to myread(), closed by the peer's FIN or by the end of the
\* transport layer, its end the end of file.
UpPipeSpec == UpPipe!Spec

----------------------------------------------------------------------------
(* Liveness.                                                               *)

TransportOver == stcp_pc \in {"exit", "exit_unblock", "exit_signal", "eof",
                              "eof_bcast", "end"}

\* Once the transport layer has announced an outcome or has returned without
\* one, myconnect() returns.
ConnectReturns ==
  (~blocking \/ TransportOver) ~> app_pc \notin {"connect", "connect_wait"}

\* A myread() that blocks returns if there is something to read, and in any
\* case once the transport layer is over.
ReadReturns ==
  app_pc = "read_wait" /\ (app_send_queue # << >> \/ TransportOver)
    ~> app_pc # "read_wait"

\* Everything written reaches the transport layer, unless that returns first.
WrittenIsTaken == (taken < written) ~> (taken = written \/ TransportOver)

\* myclose() returns once the peer closes too, unless the receive thread
\* ended before the peer's FIN, which nobody is told of.
CloseReturns ==
  PeerCloses =>
    (app_pc = "close_bcast" ~>
       (app_pc = "closed" \/ (recv_pc = "end" /\ ~FinArrived)))
============================================================================

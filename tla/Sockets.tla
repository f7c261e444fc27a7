------------------------------ MODULE Sockets ------------------------------
(***************************************************************************)
(* The life of mysockets (mysock.c, mysock_api.c, connection_demux.c):     *)
(* contexts and their descriptors in global_ctx, the calls that change     *)
(* what a mysocket is (mysocket, mybind, myconnect, mylisten, myclose),    *)
(* the threads a context has, and the table of listen queues, which is     *)
(* indexed by descriptor.                                                  *)
(*                                                                         *)
(* The callers are application threads and the receive threads of          *)
(* listening mysockets, which create a mysocket for every connection.      *)
(* global_ctx is not locked: the search for a free descriptor reads entry  *)
(* by entry, and taking the entry is another step.  A receive thread takes *)
(* in a connection under the read lock of listen_lock, mylisten() and      *)
(* myclose() change listen_table under its write lock.  A failed assert()  *)
(* stops the program.                                                      *)
(*                                                                         *)
(* The application calls with descriptors it was given and has not closed, *)
(* and makes one call at a time on each.  System calls on a new socket     *)
(* succeed.  Data transfer is the subject of Connection, the content of a  *)
(* listen queue and the wait for it in myaccept() that of ListenQueue;     *)
(* here the application has a new connection once its threads are started. *)
(***************************************************************************)
EXTENDS HashTable, FiniteSets

CONSTANTS
  Apps,           \* application threads
  Contexts,       \* the contexts that are ever allocated
  MaxConnections, \* MAX_NUM_CONNECTIONS
  MaxListens      \* bound: calls of mylisten() on a mysocket

ASSUME SocketsAssumption ==
  /\ MaxConnections \in Nat \ {0} /\ MaxListens \in Nat
  /\ Keys = 0 .. MaxConnections - 1 /\ Data = Contexts
  /\ Apps \cap Contexts = {} /\ NULL \notin Apps

VARIABLES
  global_ctx,    \* [Keys -> Contexts or NULL]
  status,        \* "none", "live" or "freed", per context
  my_sd, bound, listening,
  port,          \* the system has bound the underlying socket to a port
  peer,          \* peer_addr_len > 0
  transport,     \* the transport thread
  receivers,     \* the receive threads that run
  recv_thread,   \* the last one that was started, 0 if none is to be joined
  listen_table,  \* descriptor |-> listen queue, named by its context
  pc, arg, k,    \* what each caller does, for which context; its loop index
  open,          \* descriptors that the application has
  aborted,       \* an assert() failed
  misused,       \* history: a call was made out of order
  relisten,      \* history: contexts for which mylisten() was called again
  overlap        \* history: two searches for a descriptor have overlapped

Callers == Apps \cup Contexts
Sds == Keys

tables == << global_ctx, listen_table >>
flags == << bound, listening, port, peer >>
threads == << transport, receivers, recv_thread >>
history == << misused, relisten, overlap >>
vars == << tables, status, my_sd, flags, threads, pc, arg, k, open, aborted,
           history >>

Init ==
  /\ global_ctx = [sd \in Sds |-> NULL] /\ listen_table = EmptyTable
  /\ status = [c \in Contexts |-> "none"]
  /\ my_sd = [c \in Contexts |-> 0]
  /\ bound = [c \in Contexts |-> FALSE]
  /\ listening = [c \in Contexts |-> FALSE]
  /\ port = [c \in Contexts |-> FALSE] /\ peer = [c \in Contexts |-> FALSE]
  /\ transport = [c \in Contexts |-> "none"]
  /\ receivers = [c \in Contexts |-> {}]
  /\ recv_thread = [c \in Contexts |-> 0]
  /\ pc = [t \in Callers |-> "idle"] /\ arg = [t \in Callers |-> NULL]
  /\ k = [t \in Callers |-> 0]
  /\ open = {} /\ aborted = FALSE
  /\ misused = FALSE /\ relisten = {} /\ overlap = FALSE

Goto(t, label) == pc' = [pc EXCEPT ![t] = label]

\* assert() fails.
Abort == aborted' = TRUE

----------------------------------------------------------------------------
(* _mysock_new_mysocket()                                                  *)

Searching(t) == pc[t] \in {"search", "claim"}

\* A context is allocated.  The caller is an application thread or, for a new
\* connection, a receive thread of a listening mysocket.
NewMysocket(t) ==
  /\ pc[t] = "idle"
  /\ t \in Contexts => listening[t] /\ receivers[t] # {}
  /\ \E c \in Contexts :
       /\ status[c] = "none"
       /\ status' = [status EXCEPT ![c] = "live"]
       /\ arg' = [arg EXCEPT ![t] = c]
  /\ Goto(t, "search")
  /\ overlap' = (overlap \/ \E u \in Callers : Searching(u))
  /\ UNCHANGED << tables, my_sd, flags, threads, k, open, aborted, misused,
                  relisten >>

\* The search has come to the end of global_ctx.
Exhausted(n) == n = MaxConnections

\* One turn of the loop: the entry is free, or the next one is looked at; at
\* the end of the table the context is freed (EMFILE).  my_sd of that context
\* is still 0, an entry that another mysocket has.
Search(t) ==
  /\ pc[t] = "search"
  /\ \/ /\ ~Exhausted(k[t]) /\ global_ctx[k[t]] = NULL
        /\ Goto(t, "claim") /\ UNCHANGED k
     \/ /\ ~Exhausted(k[t]) /\ global_ctx[k[t]] # NULL
        /\ k' = [k EXCEPT ![t] = @ + 1] /\ UNCHANGED pc
     \/ /\ Exhausted(k[t])
        /\ Goto(t, "clear") /\ k' = [k EXCEPT ![t] = 0]
  /\ UNCHANGED << tables, status, my_sd, flags, threads, arg, open, aborted,
                  history >>

\* The entry is taken, whatever it holds by now, and the descriptor returned.
Claim(t) ==
  /\ pc[t] = "claim"
  /\ global_ctx' = [global_ctx EXCEPT ![k[t]] = arg[t]]
  /\ my_sd' = [my_sd EXCEPT ![arg[t]] = k[t]]
  /\ k' = [k EXCEPT ![t] = 0]
  /\ \/ /\ t \in Apps
        /\ Goto(t, "idle") /\ arg' = [arg EXCEPT ![t] = NULL]
        /\ open' = open \cup {k[t]}
     \/ t \in Contexts /\ Goto(t, "accept") /\ UNCHANGED << arg, open >>
  /\ UNCHANGED << listen_table, status, flags, threads, aborted, history >>

----------------------------------------------------------------------------
(* The calls on a mysocket.                                                *)

\* What verify_mysocket_descriptor() asserts, in _mysock_get_context().
ValidSd(sd) == global_ctx[sd] # NULL /\ my_sd[global_ctx[sd]] = sd

\* The assertion fails in any call: two searches may have overlapped, and the
\* descriptor is open although its entry is cleared.
BadDescriptor(t, sd) ==
  /\ t \in Apps /\ pc[t] = "idle" /\ sd \in open /\ ~ValidSd(sd)
  /\ Abort
  /\ UNCHANGED << tables, status, my_sd, flags, threads, pc, arg, k, open,
                  history >>

\* The application calls with descriptor sd, on which no other call is made.
Calls(t, sd) ==
  /\ t \in Apps /\ pc[t] = "idle" /\ sd \in open /\ ValidSd(sd)
  /\ \A u \in Apps : arg[u] # global_ctx[sd]

\* _network_start_recv_thread(): the new thread is the one to be joined.
StartRecv(c) ==
  /\ recv_thread' = [recv_thread EXCEPT ![c] = @ + 1]
  /\ receivers' = [receivers EXCEPT ![c] = @ \cup {recv_thread[c] + 1}]

\* _mysock_transport_init()
TransportInit(c) ==
  \/ listening[c] /\ Abort /\ UNCHANGED threads
  \/ /\ ~listening[c] /\ StartRecv(c)
     /\ transport' = [transport EXCEPT ![c] = "starting"] /\ UNCHANGED aborted

\* A new mysocket, if it is found, gets its peer and its threads.
StartNew(c) ==
  \/ c = NULL /\ Abort /\ UNCHANGED << flags, threads, open >>
  \/ /\ c # NULL /\ TransportInit(c)
     /\ peer' = [peer EXCEPT ![c] = TRUE]
     /\ open' = open \cup {my_sd[c]}
     /\ UNCHANGED << bound, listening, port >>

\* The receive thread of a listening mysocket starts the threads of the new
\* mysocket, which it finds by its descriptor.
AcceptNew(t) ==
  /\ pc[t] = "accept"
  /\ StartNew(global_ctx[my_sd[arg[t]]])
  /\ Goto(t, "idle") /\ arg' = [arg EXCEPT ![t] = NULL]
  /\ UNCHANGED << tables, status, my_sd, k, history >>

\* mybind(): the flag is set before bind() succeeds or fails, as it does on a
\* socket that has a port.
MyBind(t, sd) ==
  /\ Calls(t, sd)
  /\ LET c == global_ctx[sd] IN
       \/ /\ listening[c] /\ Abort /\ misused' = TRUE
          /\ UNCHANGED << bound, port >>
       \/ /\ ~listening[c]
          /\ bound' = [bound EXCEPT ![c] = TRUE]
          /\ \/ port' = [port EXCEPT ![c] = TRUE]
             \/ UNCHANGED port
          /\ UNCHANGED << aborted, misused >>
  /\ UNCHANGED << tables, status, my_sd, listening, peer, threads, pc, arg, k,
                  open, relisten, overlap >>

\* _mysock_bind_ephemeral(), for a mysocket that is not bound.
BindEphemeral(c) ==
  /\ port' = [port EXCEPT ![c] = @ \/ ~bound[c]]
  /\ bound' = [bound EXCEPT ![c] = TRUE]

\* myconnect(), unless it fails with EISCONN.
MyConnect(t, sd) ==
  /\ Calls(t, sd)
  /\ LET c == global_ctx[sd] IN
       /\ ~peer[c] /\ peer' = [peer EXCEPT ![c] = TRUE]
       /\ BindEphemeral(c)
       /\ TransportInit(c)
       /\ misused' = (misused \/ listening[c])
  /\ UNCHANGED << tables, status, my_sd, listening, pc, arg, k, open, relisten,
                  overlap >>

\* No queue has been made for the descriptor yet.
NeedsQueue(c) == HashLookupPtr(listen_table, my_sd[c]) = NULL

\* The queue that is found was made for another mysocket, on another port.
AnothersQueue(c) == HashLookupPtr(listen_table, my_sd[c]) \notin {c, NULL}

\* A receive thread has listen_lock.
ReadLocked == \E c \in Contexts : pc[c] # "idle"

\* mylisten() with _mysock_set_backlog(): the queue is found or made; then
\* listen() succeeds and a receive thread is started, or it fails.
MyListen(t, sd) ==
  /\ Calls(t, sd) /\ ~ReadLocked
  /\ LET c == global_ctx[sd] IN
       /\ misused' = (misused \/ ~port[c] \/ transport[c] # "none")
       /\ relisten' = IF listening[c] THEN relisten \cup {c} ELSE relisten
       /\ \/ /\ ~bound[c] \/ ~port[c] \/ AnothersQueue(c)
             /\ Abort
             /\ UNCHANGED << listening, listen_table, receivers, recv_thread >>
          \/ /\ bound[c] /\ port[c] /\ ~AnothersQueue(c)
             /\ \/ /\ NeedsQueue(c)
                   /\ listen_table' = HashInsert(listen_table, sd, c)
                \/ ~NeedsQueue(c) /\ UNCHANGED listen_table
             /\ listening' = [listening EXCEPT ![c] = TRUE]
             /\ \/ recv_thread[c] < MaxListens /\ StartRecv(c)
                \/ UNCHANGED << receivers, recv_thread >>
             /\ UNCHANGED aborted
  /\ UNCHANGED << global_ctx, status, my_sd, bound, port, peer, transport,
                  pc, arg, k, open, overlap >>

----------------------------------------------------------------------------
(* myclose()                                                               *)

MyClose(t, sd) ==
  /\ Calls(t, sd)
  /\ arg' = [arg EXCEPT ![t] = global_ctx[sd]]
  /\ open' = open \ {sd} /\ Goto(t, "join")
  /\ UNCHANGED << tables, status, my_sd, flags, threads, k, aborted, history >>

\* The transport thread, if there is one, is joined; then the exit pipe is
\* written to, for every receive thread of the mysocket.
JoinTransport(t) ==
  /\ pc[t] = "join"
  /\ LET c == arg[t] IN
       \/ /\ transport[c] # "none" /\ listening[c]
          /\ Abort /\ UNCHANGED pc
       \/ /\ transport[c] = "none" \/ (transport[c] = "ended" /\ ~listening[c])
          /\ Goto(t, "stop") /\ UNCHANGED aborted
  /\ UNCHANGED << tables, status, my_sd, flags, threads, arg, k, open,
                  history >>

\* Mutant: the receive thread is not waited for.
Joined_Not(c) == TRUE

\* pthread_join() of the receive thread that was started last returns.
Joined(c) == recv_thread[c] \notin receivers[c]

StopRecv(t) ==
  /\ pc[t] = "stop" /\ Joined(arg[t])
  /\ recv_thread' = [recv_thread EXCEPT ![arg[t]] = 0]
  /\ Goto(t, IF listening[arg[t]] THEN "passive" ELSE "clear")
  /\ UNCHANGED << tables, status, my_sd, flags, transport, receivers, arg, k,
                  open, aborted, history >>

\* Mutant: the listen queue stays in the table.
Forgotten_Not(sd) == listen_table

\* listen_table after _mysock_close_passive_socket().
Forgotten(sd) == HashDelete(listen_table, sd)

ClosePassive(t) ==
  /\ pc[t] = "passive" /\ ~ReadLocked
  /\ listen_table' = Forgotten(my_sd[arg[t]])
  /\ Goto(t, "clear")
  /\ UNCHANGED << global_ctx, status, my_sd, flags, threads, arg, k, open,
                  aborted, history >>

\* Mutant: the entry is never cleared.
Cleared_Not(c) == global_ctx

\* Mutant: the entry is cleared whoever has it.
Cleared_Any(c) == [global_ctx EXCEPT ![my_sd[c]] = NULL]

\* global_ctx without the context.
Cleared(c) ==
  [global_ctx EXCEPT ![my_sd[c]] = IF @ = c THEN NULL ELSE @]

\* _mysock_free_context() gives the descriptor back ...
ClearEntry(t) ==
  /\ pc[t] = "clear"
  /\ global_ctx' = Cleared(arg[t])
  /\ Goto(t, "free")
  /\ UNCHANGED << listen_table, status, my_sd, flags, threads, arg, k, open,
                  aborted, history >>

\* ... and then clears and frees the context.
FreeContext(t) ==
  /\ pc[t] = "free"
  /\ status' = [status EXCEPT ![arg[t]] = "freed"]
  /\ my_sd' = [my_sd EXCEPT ![arg[t]] = 0]
  /\ bound' = [bound EXCEPT ![arg[t]] = FALSE]
  /\ listening' = [listening EXCEPT ![arg[t]] = FALSE]
  /\ peer' = [peer EXCEPT ![arg[t]] = FALSE]
  /\ port' = [port EXCEPT ![arg[t]] = FALSE]
  /\ arg' = [arg EXCEPT ![t] = NULL] /\ Goto(t, "idle")
  /\ UNCHANGED << tables, threads, k, open, aborted, history >>

----------------------------------------------------------------------------
(* The threads of a context.                                               *)

\* transport_thread_func() begins with a check of the descriptor table.
TransportStart(c) ==
  /\ transport[c] = "starting"
  /\ \/ /\ global_ctx[my_sd[c]] # c /\ Abort /\ UNCHANGED transport
     \/ /\ global_ctx[my_sd[c]] = c /\ UNCHANGED aborted
        /\ transport' = [transport EXCEPT ![c] = "running"]
  /\ UNCHANGED << tables, status, my_sd, flags, receivers, recv_thread,
                  pc, arg, k, open, history >>

\* The connection is over.
TransportEnd(c) ==
  /\ transport[c] = "running"
  /\ transport' = [transport EXCEPT ![c] = "ended"]
  /\ UNCHANGED << tables, status, my_sd, flags, receivers, recv_thread,
                  pc, arg, k, open, aborted, history >>

\* A receive thread exits when it is told to, or when the network fails it.
RecvExit(c) ==
  /\ pc[c] = "idle"
  /\ \E i \in receivers[c] : receivers' = [receivers EXCEPT ![c] = @ \ {i}]
  /\ UNCHANGED << tables, status, my_sd, flags, transport, recv_thread,
                  pc, arg, k, open, aborted, history >>

----------------------------------------------------------------------------
CallerStep(t) ==
  \/ NewMysocket(t) \/ Search(t) \/ Claim(t) \/ AcceptNew(t)
  \/ JoinTransport(t) \/ StopRecv(t) \/ ClosePassive(t) \/ ClearEntry(t)
  \/ FreeContext(t)

Call(t, sd) ==
  \/ BadDescriptor(t, sd)
  \/ MyBind(t, sd) \/ MyConnect(t, sd) \/ MyListen(t, sd) \/ MyClose(t, sd)

ContextStep(c) == TransportStart(c) \/ TransportEnd(c) \/ RecvExit(c)

Next ==
  /\ ~aborted
  /\ \/ \E t \in Callers : CallerStep(t)
     \/ \E t \in Callers, sd \in Sds : Call(t, sd)
     \/ \E c \in Contexts : ContextStep(c)

Spec == Init /\ [][Next]_vars

----------------------------------------------------------------------------
(* Properties.                                                             *)

Labels == {"idle", "search", "claim", "accept", "join", "stop", "passive",
           "clear", "free"}

TypeOK ==
  /\ global_ctx \in [Sds -> Contexts \cup {NULL}]
  /\ listen_table \in Table
  /\ status \in [Contexts -> {"none", "live", "freed"}]
  /\ my_sd \in [Contexts -> Sds]
  /\ bound \in [Contexts -> BOOLEAN] /\ listening \in [Contexts -> BOOLEAN]
  /\ port \in [Contexts -> BOOLEAN] /\ peer \in [Contexts -> BOOLEAN]
  /\ transport \in [Contexts -> {"none", "starting", "running", "ended"}]
  /\ receivers \in [Contexts -> SUBSET Nat]
  /\ recv_thread \in [Contexts -> Nat]
  /\ pc \in [Callers -> Labels]
  /\ arg \in [Callers -> Contexts \cup {NULL}]
  /\ k \in [Callers -> 0 .. MaxConnections]
  /\ open \subseteq Sds /\ aborted \in BOOLEAN
  /\ misused \in BOOLEAN /\ relisten \subseteq Contexts /\ overlap \in BOOLEAN

\* The context has a descriptor and has not given it back.
HasSd(c) ==
  /\ status[c] = "live"
  /\ \A t \in Callers :
       arg[t] = c => pc[t] \notin {"search", "claim", "clear", "free"}

\* Every mysocket is found under its own descriptor from mysocket() to
\* myclose(), although descriptors are taken and given back without a lock, as
\* long as two searches never overlap: no two mysockets share one and none is
\* lost.  ("mysocket descriptor table, one entry per STCP connection".)
OneSdEach ==
  ~overlap => \A c \in Contexts : HasSd(c) => global_ctx[my_sd[c]] = c

\* An entry of global_ctx never leads to a context that is free.
NoDanglingSd ==
  \A sd \in Sds : global_ctx[sd] # NULL => status[global_ctx[sd]] = "live"

\* A listen queue is in the table only while the mysocket it was made for has
\* the descriptor: a mysocket that gets the descriptor later does not find it.
NoStaleQueue ==
  ~overlap =>
    \A sd \in Sds :
      LET c == HashLookupPtr(listen_table, sd)
      IN c # NULL => status[c] = "live" /\ listening[c] /\ global_ctx[sd] = c

\* A context is freed after its threads have ended, unless mylisten() was
\* called twice: then only the receive thread that was started last is joined.
ThreadsEndFirst ==
  ~overlap =>
    \A c \in Contexts :
      status[c] = "freed" =>
        /\ transport[c] \in {"none", "ended"}
        /\ receivers[c] = {} \/ c \in relisten

\* No assertion about descriptors, ports and queues fails if the application
\* keeps to the order of calls (a successful mybind() before mylisten(), none
\* after it, and not both myconnect() and mylisten()) and searches do not
\* overlap, whatever threads and closes do in between.
LegalCallsSucceed == aborted => misused \/ overlap

\* listen_table is a map from descriptors to queues, through collisions in its
\* chains.
ListenMap == INSTANCE PointerMap WITH map <- MapOf(listen_table)
ListenMapSpec == ListenMap!Spec
============================================================================

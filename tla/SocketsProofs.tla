---------------------------- MODULE SocketsProofs ----------------------------
(***************************************************************************)
(* Proofs about the life of mysockets (Sockets), for every number of       *)
(* mysockets, threads, descriptors and buckets.                            *)
(***************************************************************************)
EXTENDS Sockets, HashTableProofs

----------------------------------------------------------------------------
(* The inductive invariant.                                                *)

\* The caller t works on context c, at one of the labels.
At(t, c, labels) == arg[t] = c /\ pc[t] \in labels

\* A caller that is in the middle of something works on a context, and takes
\* only an entry that exists.
Busy ==
  \A t \in Callers :
    /\ (pc[t] = "idle") <=> (arg[t] = NULL)
    /\ pc[t] = "claim" => k[t] \in Sds

\* Callers, but for receive threads that start the threads of a new mysocket,
\* work on live contexts and on different ones; receive threads do not close.
Workers ==
  /\ \A t \in Callers :
       pc[t] \notin {"idle", "accept"} => status[arg[t]] = "live"
  /\ \A t, u \in Callers :
       /\ arg[t] = arg[u] /\ arg[t] # NULL
       /\ pc[t] # "accept" /\ pc[u] # "accept"
       => t = u
  /\ \A t \in Callers :
       /\ t \in Apps => pc[t] # "accept"
       /\ t \in Contexts => pc[t] \notin {"join", "stop", "passive"}

\* Descriptors lead to live contexts, and contexts back to their descriptors.
Tabled ==
  \A sd \in Sds :
    global_ctx[sd] # NULL =>
      /\ status[global_ctx[sd]] = "live" /\ my_sd[global_ctx[sd]] = sd
      /\ \A t \in Callers :
           /\ ~At(t, global_ctx[sd], {"search", "claim", "free"})
           /\ t \in Contexts => ~At(t, global_ctx[sd], {"clear"})

\* What holds whether or not searches overlap.
Form ==
  TypeOK /\ WellFormed(listen_table) /\ Busy /\ Workers /\ Tabled

\* One search at a time, and what it has found stays free.
Searches ==
  /\ \A t, u \in Callers : Searching(t) /\ Searching(u) => t = u
  /\ \A t \in Callers : pc[t] = "claim" => global_ctx[k[t]] = NULL

\* No two callers work on one context, and they work on live ones.
Callees ==
  \A t \in Callers :
    arg[t] # NULL =>
      /\ status[arg[t]] = "live"
      /\ \A u \in Callers : arg[u] = arg[t] => u = t

\* Every mysocket has its descriptor.
Owners == \A c \in Contexts : HasSd(c) => global_ctx[my_sd[c]] = c

\* The application's descriptors are valid and nobody works on them.
Opened ==
  \A sd \in open :
    global_ctx[sd] # NULL /\ \A t \in Callers : arg[t] # global_ctx[sd]

\* A listen queue belongs to the mysocket that has the descriptor, until it is
\* taken out.
Queues ==
  \A sd \in Sds :
    LET c == MapOf(listen_table)[sd] IN
      c # NULL =>
        /\ global_ctx[sd] = c /\ listening[c]
        /\ \A t \in Callers : ~At(t, c, {"clear", "free"})

\* A context that nobody has been given is as allocated, and so is one that has
\* neither connected nor listened, but for its port.
Fresh ==
  /\ \A c \in Contexts :
       \/ status[c] = "none"
       \/ \E t \in Callers : At(t, c, {"search", "claim", "accept"})
       => ~listening[c] /\ ~peer[c] /\ transport[c] = "none"
  /\ \A c \in Contexts :
       status[c] # "freed" /\ ~peer[c] /\ ~listening[c] =>
         recv_thread[c] = 0 /\ receivers[c] = {}
  /\ \A c \in Contexts : port[c] => bound[c]
  /\ ~aborted => \A c \in Contexts : peer[c] => transport[c] # "none"

\* Transport threads run only for mysockets that are not being taken down.
Transports ==
  \A c \in Contexts :
    /\ transport[c] # "none" /\ listening[c] => misused
    /\ transport[c] \in {"starting", "running"} =>
         /\ status[c] = "live"
         /\ \A t \in Callers :
              ~At(t, c, {"search", "claim", "accept", "stop", "passive",
                         "clear", "free"})

\* There is one receive thread, the one to be joined, unless mylisten() was
\* called again or after myconnect().
Both(c) == transport[c] # "none" /\ listening[c]

Receivers ==
  /\ \A c \in Contexts :
       c \notin relisten /\ ~Both(c) => receivers[c] \subseteq {recv_thread[c]}
  /\ \A c \in Contexts : 0 \notin receivers[c]
  /\ \A c \in Contexts, t \in Callers :
       At(t, c, {"stop", "passive", "clear", "free"}) => ~Both(c)
  /\ \A c \in Contexts, t \in Callers :
       At(t, c, {"passive", "clear", "free"}) /\ c \notin relisten =>
         receivers[c] = {}
  /\ \A c \in Contexts :
       status[c] = "freed" =>
         /\ transport[c] \in {"none", "ended"}
         /\ receivers[c] = {} \/ c \in relisten

Core ==
  /\ Searches /\ Callees /\ Owners /\ Opened /\ Queues /\ Fresh /\ Transports
  /\ Receivers /\ (aborted => misused)

IInv == Form /\ (overlap \/ Core)

----------------------------------------------------------------------------
\* The constants, as the proofs use them.
LEMMA Constants ==
  /\ MaxConnections \in Nat \ {0} /\ Sds = 0 .. MaxConnections - 1
  /\ NULL \notin Contexts /\ Data = Contexts /\ 0 \in Sds
BY SocketsAssumption, TableAssumption DEF Sds

\* The empty table is well-formed and means the empty map.
LEMMA EmptyIsEmpty ==
  /\ EmptyTable \in Table /\ WellFormed(EmptyTable)
  /\ MapOf(EmptyTable) = [key \in Keys |-> NULL]
<1>1. EmptyTable \in Table
  BY DEF EmptyTable, Table
<1>2. WellFormed(EmptyTable)
  BY DEF EmptyTable, WellFormed
<1>3. ASSUME NEW key \in Keys PROVE HashLookupPtr(EmptyTable, key) = NULL
  <2>1. EmptyTable[HashFn(key)] = << >>
    BY HashFnType DEF EmptyTable
  <2> QED BY <2>1, LookupNone
<1> QED BY <1>1, <1>2, <1>3 DEF MapOf

\* The invariant holds at the start.
LEMMA IInvInit == Init => IInv
<1> SUFFICES ASSUME Init PROVE IInv
  OBVIOUS
<1>1. TypeOK
  <2>1. k \in [Callers -> 0 .. MaxConnections] /\ my_sd \in [Contexts -> Sds]
    BY Constants DEF Init
  <2>2. aborted \in BOOLEAN /\ misused \in BOOLEAN /\ overlap \in BOOLEAN
    BY Zenon DEF Init
  <2> QED BY <2>1, <2>2, EmptyIsEmpty DEF Init, TypeOK, Labels
<1>2. Busy /\ Workers /\ Tabled
  BY DEF Init, Busy, Workers, Tabled
<1>3. MapOf(listen_table) = [key \in Keys |-> NULL]
  BY EmptyIsEmpty DEF Init
<1>4. Searches /\ Callees /\ Opened
  BY DEF Init, Searches, Searching, Callees, Opened
<1>5. Owners /\ Fresh /\ Transports /\ Receivers
  BY DEF Init, Owners, HasSd, Fresh, Transports, Receivers, At, Both
<1>6. Queues
  BY <1>3 DEF Queues, Sds
<1>7. ~aborted
  BY DEF Init
<1> QED BY <1>1, <1>2, <1>4, <1>5, <1>6, <1>7, EmptyIsEmpty
        DEF Init, IInv, Form, Core

\* A context is allocated.
LEMMA NewMysocketStep ==
  ASSUME IInv, ~aborted, NEW t \in Callers, NewMysocket(t)
  PROVE  IInv'
<1> USE NewMysocket(t) DEF NewMysocket, Goto, tables, flags, threads
<1>1. TypeOK /\ WellFormed(listen_table) /\ Busy /\ Workers /\ Tabled
  BY DEF IInv, Form
<1>2. TypeOK'
  BY <1>1, Constants DEF TypeOK, Busy, Labels
<1>3. WellFormed(listen_table)'
  BY <1>1
<1>4. Busy'
  BY <1>1, Constants DEF TypeOK, Busy
<1>5. Workers'
  BY <1>1, SocketsAssumption DEF TypeOK, Busy, Workers, Tabled, At, Callers
<1>6. Tabled'
  BY <1>1 DEF TypeOK, Busy, Workers, Tabled, At
<1>7. ASSUME ~overlap', Core PROVE Core'
  <2>0. /\ Searches /\ Callees /\ Owners /\ Opened /\ Queues /\ Fresh
        /\ Transports /\ Receivers /\ (aborted => misused)
    BY <1>7 DEF Core
  <2>1. Searches'
    <3>1. ~\E u \in Callers : Searching(u)
      BY <1>7, Zenon
    <3> QED BY <1>1, <2>0, <3>1 DEF TypeOK, Busy, Searches, Searching
  <2>2. Callees'
    BY <1>1, <2>0 DEF TypeOK, Busy, Callees, Tabled, Opened
  <2>3. Owners'
    BY <1>1, <2>0 DEF TypeOK, Busy, Owners, HasSd, Callees, Tabled, Searches
  <2>4. Opened'
    BY <1>1, <2>0 DEF TypeOK, Busy, Opened, Owners, HasSd, Callees, Tabled,
                      Searches
  <2>5. Queues'
    BY <1>1, <2>0 DEF TypeOK, Busy, Queues, Callees, Tabled, At
  <2>6. Fresh'
    BY <1>1, <2>0 DEF TypeOK, Busy, Fresh, Callees, Opened, Owners, HasSd, At
  <2>7. Transports'
    BY <1>1, <2>0 DEF TypeOK, Busy, Transports, Fresh, Callees, Opened, At
  <2>8. Receivers'
    BY <1>1, <2>0 DEF TypeOK, Busy, Receivers, Both, Fresh, Callees, Opened, At
  <2>9. aborted' => misused'
    BY <1>1, <2>0 DEF TypeOK, Busy
  <2> QED BY <2>1, <2>2, <2>3, <2>4, <2>5, <2>6, <2>7, <2>8, <2>9 DEF Core
<1>8. overlap => overlap'
  OBVIOUS
<1> QED BY <1>2, <1>3, <1>4, <1>5, <1>6, <1>7, <1>8 DEF IInv, Form

\* A turn of the search for a descriptor.
LEMMA SearchStep ==
  ASSUME IInv, ~aborted, NEW t \in Callers, Search(t)
  PROVE  IInv'
<1> USE Search(t) DEF Search, Exhausted, Goto, tables, flags, threads, history
<1>1. TypeOK /\ WellFormed(listen_table) /\ Busy /\ Workers /\ Tabled
  BY DEF IInv, Form
<1>2. TypeOK'
  <2>1. k' \in [Callers -> 0 .. MaxConnections]
    <3>1. k[t] \in 0 .. MaxConnections
      BY <1>1 DEF TypeOK
    <3>2. k[t] # MaxConnections => k[t] + 1 \in 0 .. MaxConnections
      BY <3>1, Constants
    <3>3. 0 \in 0 .. MaxConnections
      BY Constants
    <3> QED BY <1>1, <3>2, <3>3 DEF TypeOK
  <2>2. pc' \in [Callers -> Labels]
    BY <1>1 DEF TypeOK, Labels
  <2> QED BY <1>1, <2>1, <2>2 DEF TypeOK
<1>3. WellFormed(listen_table)'
  BY <1>1
<1>4. Busy'
  BY <1>1, Constants DEF TypeOK, Busy
<1>5. Workers'
  <2>1. \A u \in Callers :
          pc'[u] \notin {"idle", "accept"} => status'[arg'[u]] = "live"
    BY <1>1 DEF TypeOK, Busy, Workers, Tabled
  <2>2. \A u, v \in Callers :
          /\ arg'[u] = arg'[v] /\ arg'[u] # NULL
          /\ pc'[u] # "accept" /\ pc'[v] # "accept"
          => u = v
    BY <1>1, SocketsAssumption DEF TypeOK, Busy, Workers, Tabled, At, Callers
  <2>3. \A u \in Callers :
          /\ u \in Apps => pc'[u] # "accept"
          /\ u \in Contexts => pc'[u] \notin {"join", "stop", "passive"}
    BY <1>1, SocketsAssumption DEF TypeOK, Busy, Workers, Callers
  <2> QED BY <2>1, <2>2, <2>3 DEF Workers
<1>6. Tabled'
  BY <1>1 DEF TypeOK, Busy, Workers, Tabled, At
<1>7. ASSUME ~overlap', Core PROVE Core'
  <2>0. /\ Searches /\ Callees /\ Owners /\ Opened /\ Queues /\ Fresh
        /\ Transports /\ Receivers /\ (aborted => misused)
    BY <1>7 DEF Core
  <2>1. Searches'
    BY <1>1, <1>7, <2>0 DEF TypeOK, Busy, Searches, Searching
  <2>2. Callees'
    BY <1>1, <2>0 DEF TypeOK, Busy, Callees, Tabled, Opened
  <2>3. Owners'
    BY <1>1, <2>0 DEF TypeOK, Busy, Owners, HasSd, Callees, Tabled, Searches
  <2>4. Opened'
    BY <1>1, <2>0 DEF TypeOK, Busy, Opened, Owners, HasSd, Callees, Tabled,
                      Searches
  <2>5. Queues'
    BY <1>1, <2>0 DEF TypeOK, Busy, Queues, Callees, Tabled, At
  <2>6. Fresh'
    BY <1>1, <2>0 DEF TypeOK, Busy, Fresh, Callees, Opened, Owners, HasSd, At
  <2>7. Transports'
    BY <1>1, <2>0 DEF TypeOK, Busy, Transports, Fresh, Callees, Opened, At
  <2>8. Receivers'
    <3>1. arg[t] \in Contexts /\ status[arg[t]] = "live"
      BY <1>1, <2>0 DEF TypeOK, Busy, Callees
    <3>2. ~listening[arg[t]] /\ ~peer[arg[t]]
      BY <1>1, <2>0, <3>1 DEF Fresh, At
    <3>3. ~Both(arg[t]) /\ receivers[arg[t]] = {}
      BY <2>0, <3>1, <3>2 DEF Both, Fresh
    <3> QED BY <1>1, <2>0, <3>1, <3>3 DEF TypeOK, Receivers, Both, At
  <2>9. aborted' => misused'
    BY <1>1, <2>0 DEF TypeOK, Busy
  <2> QED BY <2>1, <2>2, <2>3, <2>4, <2>5, <2>6, <2>7, <2>8, <2>9 DEF Core
<1>8. overlap => overlap'
  OBVIOUS
<1> QED BY <1>2, <1>3, <1>4, <1>5, <1>6, <1>7, <1>8 DEF IInv, Form

\* An entry of global_ctx is taken.
LEMMA ClaimStep ==
  ASSUME IInv, ~aborted, NEW t \in Callers, Claim(t)
  PROVE  IInv'
<1> USE Claim(t) DEF Claim, Goto, tables, flags, threads, history
<1>1. TypeOK /\ WellFormed(listen_table) /\ Busy /\ Workers /\ Tabled
  BY DEF IInv, Form
<1>2. TypeOK'
  <2>1. arg[t] \in Contexts /\ k[t] \in Sds
    BY <1>1 DEF TypeOK, Busy
  <2>2. global_ctx' \in [Sds -> Contexts \cup {NULL}]
        /\ my_sd' \in [Contexts -> Sds]
    BY <1>1, <2>1 DEF TypeOK
  <2>3. k' \in [Callers -> 0 .. MaxConnections]
    BY <1>1, Constants DEF TypeOK
  <2>4. pc' \in [Callers -> Labels]
    BY <1>1 DEF TypeOK, Labels
  <2>5. open' \subseteq Sds /\ arg' \in [Callers -> Contexts \cup {NULL}]
    BY <1>1, <2>1 DEF TypeOK
  <2> QED BY <1>1, <2>1, <2>2, <2>3, <2>4, <2>5 DEF TypeOK
<1>3. WellFormed(listen_table)'
  BY <1>1
<1>4. Busy'
  BY <1>1, Constants DEF TypeOK, Busy
<1>5. Workers'
  <2>1. \A u \in Callers : u # t => pc'[u] = pc[u] /\ arg'[u] = arg[u]
    BY <1>1 DEF TypeOK
  <2>2. (pc'[t] = "idle" /\ arg'[t] = NULL /\ t \in Apps)
        \/ (pc'[t] = "accept" /\ t \in Contexts)
    BY <1>1 DEF TypeOK
  <2>3. Apps \cap Contexts = {}
    BY SocketsAssumption
  <2> QED BY <1>1, <2>1, <2>2, <2>3 DEF Workers
<1>6. Tabled'
  BY <1>1 DEF TypeOK, Busy, Workers, Tabled, At
<1>7. ASSUME ~overlap', Core PROVE Core'
  <2>0. /\ Searches /\ Callees /\ Owners /\ Opened /\ Queues /\ Fresh
        /\ Transports /\ Receivers /\ (aborted => misused)
    BY <1>7 DEF Core
  <2>1. Searches'
    BY <1>1, <1>7, <2>0 DEF TypeOK, Busy, Searches, Searching
  <2>2. Callees'
    BY <1>1, <2>0 DEF TypeOK, Busy, Callees, Tabled, Opened
  <2>3. Owners'
    <3> SUFFICES ASSUME NEW c \in Contexts, HasSd(c)'
                 PROVE  (global_ctx[my_sd[c]] = c)'
      BY DEF Owners
    <3>1. arg[t] \in Contexts /\ k[t] \in Sds /\ global_ctx[k[t]] = NULL
      BY <1>1, <2>0 DEF TypeOK, Busy, Searches
    <3>2. CASE c = arg[t]
      BY <1>1, <3>1, <3>2 DEF TypeOK
    <3>3. CASE c # arg[t]
      <4>1. \A u \in Callers : arg[u] = c => pc'[u] = pc[u] /\ arg'[u] = c
        BY <1>1, <3>3 DEF TypeOK
      <4>2. HasSd(c)
        BY <4>1 DEF HasSd
      <4>3. global_ctx[my_sd[c]] = c /\ my_sd'[c] = my_sd[c]
        BY <1>1, <2>0, <3>3, <4>2 DEF Owners, TypeOK
      <4>4. my_sd[c] # k[t]
        BY <3>1, <4>3, Constants
      <4> QED BY <1>1, <4>3, <4>4 DEF TypeOK
    <3> QED BY <3>2, <3>3
  <2>4. Opened'
    BY <1>1, <2>0 DEF TypeOK, Busy, Opened, Owners, HasSd, Callees, Tabled,
                      Searches
  <2>5. Queues'
    <3>1. MapOf(listen_table)' = MapOf(listen_table)
      OBVIOUS
    <3> QED BY <1>1, <2>0, <3>1 DEF TypeOK, Busy, Queues, Searches, Callees, At
  <2>6. Fresh'
    BY <1>1, <2>0 DEF TypeOK, Busy, Fresh, Callees, Opened, Owners, HasSd, At
  <2>7. Transports'
    BY <1>1, <2>0 DEF TypeOK, Busy, Transports, Fresh, Callees, Opened, At
  <2>8. Receivers'
    BY <1>1, <2>0 DEF TypeOK, Busy, Receivers, Both, Fresh, Callees, Opened, At
  <2>9. aborted' => misused'
    BY <1>1, <2>0 DEF TypeOK, Busy
  <2> QED BY <2>1, <2>2, <2>3, <2>4, <2>5, <2>6, <2>7, <2>8, <2>9 DEF Core
<1>8. overlap => overlap'
  OBVIOUS
<1> QED BY <1>2, <1>3, <1>4, <1>5, <1>6, <1>7, <1>8 DEF IInv, Form

\* The threads of an accepted mysocket are started: its descriptor still leads to
\* it, and it has no threads yet.
LEMMA AcceptNewStep ==
  ASSUME IInv, ~aborted, NEW t \in Callers, AcceptNew(t)
  PROVE  IInv'
<1> USE AcceptNew(t) DEF AcceptNew, Goto, tables, history
<1>1. TypeOK /\ WellFormed(listen_table) /\ Busy /\ Workers /\ Tabled
  BY DEF IInv, Form
<1>2. TypeOK'
  <2>1. PICK x \in Contexts \cup {NULL} : StartNew(x)
    BY <1>1 DEF TypeOK, Busy
  <2>2. CASE x = NULL
    <3>1. aborted' \in BOOLEAN
      BY <2>1, <2>2, Zenon DEF StartNew, Abort
    <3>2. UNCHANGED << flags, threads, open >>
      BY <2>1, <2>2 DEF StartNew
    <3> QED BY <1>1, <3>1, <3>2 DEF TypeOK, Labels, flags, threads
  <2>3. CASE x # NULL
    <3>1. /\ peer' = [peer EXCEPT ![x] = TRUE] /\ open' = open \cup {my_sd[x]}
          /\ UNCHANGED << bound, listening, port >>
      BY <2>1, <2>3 DEF StartNew
    <3>2. peer' \in [Contexts -> BOOLEAN]
      BY <1>1, <3>1, Zenon DEF TypeOK
    <3>3. aborted' \in BOOLEAN
      BY <1>1, <2>1, <2>3, Zenon DEF StartNew, TransportInit, Abort, TypeOK
    <3>4. recv_thread[x] + 1 \in Nat
      BY <1>1, <2>3 DEF TypeOK
    <3>5. /\ transport' \in [Contexts -> {"none", "starting", "running", "ended"}]
          /\ receivers' \in [Contexts -> SUBSET Nat]
          /\ recv_thread' \in [Contexts -> Nat]
      <4>1. \/ UNCHANGED threads
            \/ StartRecv(x) /\ transport' = [transport EXCEPT ![x] = "starting"]
        BY <2>1, <2>3, Zenon DEF StartNew, TransportInit
      <4>2. CASE UNCHANGED threads
        BY <1>1, <4>2 DEF TypeOK, threads
      <4>3. CASE StartRecv(x) /\ transport' = [transport EXCEPT ![x] = "starting"]
        BY <1>1, <2>3, <3>4, <4>3 DEF StartRecv, TypeOK
      <4> QED BY <4>1, <4>2, <4>3
    <3>6. open' \subseteq Sds
      BY <1>1, <2>3, <3>1 DEF TypeOK
    <3> QED BY <1>1, <3>1, <3>2, <3>3, <3>5, <3>6 DEF TypeOK, Labels
  <2> QED BY <2>2, <2>3
<1>3. WellFormed(listen_table)'
  BY <1>1
<1>4. Busy'
  BY <1>1, Constants DEF TypeOK, Busy
<1>5. Workers'
  BY <1>1, SocketsAssumption DEF TypeOK, Busy, Workers, Tabled, At, Callers
<1>6. Tabled'
  BY <1>1 DEF TypeOK, Busy, Workers, Tabled, At
<1>7. ASSUME ~overlap', Core PROVE Core'
  <2>0. /\ Searches /\ Callees /\ Owners /\ Opened /\ Queues /\ Fresh
        /\ Transports /\ Receivers /\ (aborted => misused)
    BY <1>7 DEF Core
  <2> DEFINE x == arg[t]
  <2>a. /\ x \in Contexts /\ status[x] = "live"
        /\ \A u \in Callers : arg[u] = x => u = t
    BY <1>1, <2>0 DEF TypeOK, Busy, Callees
  <2>b. HasSd(x)
    BY <2>a DEF HasSd
  <2>c. global_ctx[my_sd[x]] = x /\ x # NULL
    BY <2>0, <2>a, <2>b, Constants DEF Owners
  <2>d. ~listening[x] /\ ~peer[x] /\ transport[x] = "none"
    BY <2>0, <2>a DEF Fresh, At
  <2>e. recv_thread[x] = 0 /\ receivers[x] = {}
    BY <2>0, <2>a, <2>d DEF Fresh
  <2>f. StartNew(x)
    BY <2>c
  <2>g. /\ recv_thread' = [recv_thread EXCEPT ![x] = recv_thread[x] + 1]
        /\ receivers' =
             [receivers EXCEPT ![x] = receivers[x] \cup {recv_thread[x] + 1}]
        /\ transport' = [transport EXCEPT ![x] = "starting"]
        /\ peer' = [peer EXCEPT ![x] = TRUE]
        /\ open' = open \cup {my_sd[x]}
        /\ UNCHANGED << bound, listening, port, aborted >>
    BY <2>c, <2>d, <2>f DEF StartNew, TransportInit, StartRecv
  <2> HIDE DEF x
  <2>h. \A u \in Callers : u # t => arg'[u] = arg[u] /\ pc'[u] = pc[u]
    BY <1>1 DEF TypeOK
  <2>i. arg'[t] = NULL /\ pc'[t] = "idle" /\ arg[t] = x /\ pc[t] = "accept"
    BY <1>1 DEF TypeOK, x
  <2>1. Searches'
    BY <1>1, <1>7, <2>0 DEF TypeOK, Busy, Searches, Searching
  <2>2. Callees'
    BY <1>1, <2>0 DEF TypeOK, Busy, Callees, Tabled, Opened
  <2>3. Owners'
    BY <1>1, <2>0 DEF TypeOK, Busy, Owners, HasSd, Callees, Tabled, Searches
  <2>4. Opened'
    <3>1. \A u \in Callers : arg'[u] # x
      BY <2>a, <2>c, <2>h, <2>i
    <3> QED BY <1>1, <2>0, <2>a, <2>c, <2>g, <2>h, <2>i, <3>1, Constants
            DEF TypeOK, Opened
  <2>5. Queues'
    BY <1>1, <2>0, <2>g, <2>h, <2>i, Constants DEF TypeOK, Queues, At
  <2>6. Fresh'
    <3>1. \A c \in Contexts :
            \/ status[c] = "none"
            \/ \E u \in Callers : At(u, c, {"search", "claim", "accept"})'
            => c # x /\ ~listening[c] /\ ~peer[c] /\ transport[c] = "none"
      BY <2>0, <2>a, <2>c, <2>h, <2>i DEF Fresh, At
    <3>2. \A c \in Contexts : c # x =>
            /\ peer'[c] = peer[c] /\ transport'[c] = transport[c]
            /\ recv_thread'[c] = recv_thread[c] /\ receivers'[c] = receivers[c]
      BY <1>1, <2>g DEF TypeOK
    <3>3. peer'[x] /\ transport'[x] # "none"
      BY <1>1, <2>a, <2>g DEF TypeOK
    <3> QED BY <2>0, <2>g, <3>1, <3>2, <3>3 DEF Fresh
  <2>7. Transports'
    <3>1. \A c \in Contexts : c # x => transport'[c] = transport[c]
      BY <1>1, <2>g DEF TypeOK
    <3>2. \A u \in Callers : arg'[u] # x
      BY <2>a, <2>c, <2>h, <2>i
    <3>3. \A u \in Callers, c \in Contexts :
            c # x /\ arg'[u] = c => arg[u] = c /\ pc'[u] = pc[u]
      BY <2>h, <2>i, Constants
    <3> QED BY <2>0, <2>a, <2>d, <2>g, <3>1, <3>2, <3>3 DEF Transports, At
  <2>8. Receivers'
    <3>1. \A c \in Contexts : c # x =>
            /\ transport'[c] = transport[c] /\ receivers'[c] = receivers[c]
            /\ recv_thread'[c] = recv_thread[c]
      BY <1>1, <2>g DEF TypeOK
    <3>2. \A u \in Callers : arg'[u] # x
      BY <2>a, <2>c, <2>h, <2>i
    <3>3. receivers'[x] = {1} /\ recv_thread'[x] = 1
      BY <1>1, <2>a, <2>e, <2>g DEF TypeOK
    <3>4. \A u \in Callers, c \in Contexts :
            c # x /\ arg'[u] = c => arg[u] = c /\ pc'[u] = pc[u]
      BY <2>h, <2>i, Constants
    <3> QED BY <2>0, <2>a, <2>g, <3>1, <3>2, <3>3, <3>4 DEF Receivers, Both, At
  <2>9. aborted' => misused'
    BY <2>g
  <2> QED BY <2>1, <2>2, <2>3, <2>4, <2>5, <2>6, <2>7, <2>8, <2>9 DEF Core
<1>8. overlap => overlap'
  OBVIOUS
<1> QED BY <1>2, <1>3, <1>4, <1>5, <1>6, <1>7, <1>8 DEF IInv, Form

\* The transport thread is joined.
LEMMA JoinTransportStep ==
  ASSUME IInv, ~aborted, NEW t \in Callers, JoinTransport(t)
  PROVE  IInv'
<1> USE JoinTransport(t) DEF JoinTransport, Abort, Goto, tables, flags, threads, history
<1>1. TypeOK /\ WellFormed(listen_table) /\ Busy /\ Workers /\ Tabled
  BY DEF IInv, Form
<1>2. TypeOK'
  <2>1. pc' \in [Callers -> Labels]
    BY <1>1 DEF TypeOK, Labels
  <2>2. aborted' \in BOOLEAN
    BY <1>1, Zenon DEF TypeOK
  <2> QED BY <1>1, <2>1, <2>2 DEF TypeOK
<1>3. WellFormed(listen_table)'
  BY <1>1
<1>4. Busy'
  BY <1>1, Constants DEF TypeOK, Busy
<1>5. Workers'
  BY <1>1, SocketsAssumption DEF TypeOK, Busy, Workers, Tabled, At, Callers
<1>6. Tabled'
  BY <1>1 DEF TypeOK, Busy, Workers, Tabled, At
<1>7. ASSUME ~overlap', Core PROVE Core'
  <2>0. /\ Searches /\ Callees /\ Owners /\ Opened /\ Queues /\ Fresh
        /\ Transports /\ Receivers /\ (aborted => misused)
    BY <1>7 DEF Core
  <2>1. Searches'
    BY <1>1, <1>7, <2>0 DEF TypeOK, Busy, Searches, Searching
  <2>2. Callees'
    BY <1>1, <2>0 DEF TypeOK, Busy, Callees, Tabled, Opened
  <2>3. Owners'
    BY <1>1, <2>0 DEF TypeOK, Busy, Owners, HasSd, Callees, Tabled, Searches
  <2>4. Opened'
    BY <1>1, <2>0 DEF TypeOK, Busy, Opened, Owners, HasSd, Callees, Tabled,
                      Searches
  <2>5. Queues'
    BY <1>1, <2>0 DEF TypeOK, Busy, Queues, Callees, Tabled, At
  <2>6. Fresh'
    BY <1>1, <2>0 DEF TypeOK, Busy, Fresh, Callees, Opened, Owners, HasSd, At
  <2>7. Transports'
    BY <1>1, <2>0 DEF TypeOK, Busy, Transports, Fresh, Callees, Opened, At
  <2>8. Receivers'
    BY <1>1, <2>0 DEF TypeOK, Busy, Receivers, Both, Fresh, Callees, Opened, At
  <2>9. aborted' => misused'
    <3>1. arg[t] \in Contexts /\ misused' = misused
      BY <1>1 DEF TypeOK, Busy
    <3>2. transport[arg[t]] # "none" /\ listening[arg[t]] => misused
      BY <2>0, <3>1 DEF Transports
    <3>3. aborted' => transport[arg[t]] # "none" /\ listening[arg[t]]
      OBVIOUS
    <3> QED BY <3>1, <3>2, <3>3
  <2> QED BY <2>1, <2>2, <2>3, <2>4, <2>5, <2>6, <2>7, <2>8, <2>9 DEF Core
<1>8. overlap => overlap'
  OBVIOUS
<1> QED BY <1>2, <1>3, <1>4, <1>5, <1>6, <1>7, <1>8 DEF IInv, Form

\* The receive thread is joined.
LEMMA StopRecvStep ==
  ASSUME IInv, ~aborted, NEW t \in Callers, StopRecv(t)
  PROVE  IInv'
<1> USE StopRecv(t) DEF StopRecv, Joined, Goto, tables, flags, history
<1>1. TypeOK /\ WellFormed(listen_table) /\ Busy /\ Workers /\ Tabled
  BY DEF IInv, Form
<1>2. TypeOK'
  BY <1>1, Constants DEF TypeOK, Busy, Labels
<1>3. WellFormed(listen_table)'
  BY <1>1
<1>4. Busy'
  BY <1>1, Constants DEF TypeOK, Busy
<1>5. Workers'
  BY <1>1, SocketsAssumption DEF TypeOK, Busy, Workers, Tabled, At, Callers
<1>6. Tabled'
  BY <1>1 DEF TypeOK, Busy, Workers, Tabled, At
<1>7. ASSUME ~overlap', Core PROVE Core'
  <2>0. /\ Searches /\ Callees /\ Owners /\ Opened /\ Queues /\ Fresh
        /\ Transports /\ Receivers /\ (aborted => misused)
    BY <1>7 DEF Core
  <2>1. Searches'
    BY <1>1, <1>7, <2>0 DEF TypeOK, Busy, Searches, Searching
  <2>2. Callees'
    BY <1>1, <2>0 DEF TypeOK, Busy, Callees, Tabled, Opened
  <2>3. Owners'
    BY <1>1, <2>0 DEF TypeOK, Busy, Owners, HasSd, Callees, Tabled, Searches
  <2>4. Opened'
    BY <1>1, <2>0 DEF TypeOK, Busy, Opened, Owners, HasSd, Callees, Tabled,
                      Searches
  <2>5. Queues'
    BY <1>1, <2>0 DEF TypeOK, Busy, Queues, Callees, Tabled, At
  <2>6. Fresh'
    BY <1>1, <2>0 DEF TypeOK, Busy, Fresh, Callees, Opened, Owners, HasSd, At
  <2>7. Transports'
    BY <1>1, <2>0 DEF TypeOK, Busy, Transports, Fresh, Callees, Opened, At
  <2>8. Receivers'
    BY <1>1, <2>0 DEF TypeOK, Busy, Receivers, Both, Fresh, Callees, Opened, At
  <2>9. aborted' => misused'
    BY <1>1, <2>0 DEF TypeOK, Busy
  <2> QED BY <2>1, <2>2, <2>3, <2>4, <2>5, <2>6, <2>7, <2>8, <2>9 DEF Core
<1>8. overlap => overlap'
  OBVIOUS
<1> QED BY <1>2, <1>3, <1>4, <1>5, <1>6, <1>7, <1>8 DEF IInv, Form

\* The listen queue is taken out of the table.
LEMMA ClosePassiveStep ==
  ASSUME IInv, ~aborted, NEW t \in Callers, ClosePassive(t)
  PROVE  IInv'
<1> USE ClosePassive(t) DEF ClosePassive, Forgotten, Goto, flags, threads, history
<1>1. TypeOK /\ WellFormed(listen_table) /\ Busy /\ Workers /\ Tabled
  BY DEF IInv, Form
<1>2. TypeOK'
  <2>1. arg[t] \in Contexts /\ my_sd[arg[t]] \in Keys
    BY <1>1 DEF TypeOK, Busy, Sds
  <2>2. listen_table' \in Table
    BY <1>1, <2>1, DeleteIsUpdate DEF TypeOK
  <2>3. pc' \in [Callers -> Labels]
    BY <1>1 DEF TypeOK, Labels
  <2> QED BY <1>1, <2>1, <2>2, <2>3 DEF TypeOK
<1>3. WellFormed(listen_table)'
  <2>1. arg[t] \in Contexts /\ my_sd[arg[t]] \in Keys
    BY <1>1 DEF TypeOK, Busy, Sds
  <2> QED BY <1>1, <2>1, DeleteIsUpdate DEF TypeOK
<1>4. Busy'
  BY <1>1, Constants DEF TypeOK, Busy
<1>5. Workers'
  BY <1>1, SocketsAssumption DEF TypeOK, Busy, Workers, Tabled, At, Callers
<1>6. Tabled'
  BY <1>1 DEF TypeOK, Busy, Workers, Tabled, At
<1>7. ASSUME ~overlap', Core PROVE Core'
  <2>0. /\ Searches /\ Callees /\ Owners /\ Opened /\ Queues /\ Fresh
        /\ Transports /\ Receivers /\ (aborted => misused)
    BY <1>7 DEF Core
  <2>1. Searches'
    BY <1>1, <1>7, <2>0 DEF TypeOK, Busy, Searches, Searching
  <2>2. Callees'
    BY <1>1, <2>0 DEF TypeOK, Busy, Callees, Tabled, Opened
  <2>3. Owners'
    BY <1>1, <2>0 DEF TypeOK, Busy, Owners, HasSd, Callees, Tabled, Searches
  <2>4. Opened'
    BY <1>1, <2>0 DEF TypeOK, Busy, Opened, Owners, HasSd, Callees, Tabled,
                      Searches
  <2>5. Queues'
    <3> DEFINE x == arg[t]
    <3>1. x \in Contexts /\ my_sd[x] \in Keys /\ my_sd[x] \in Sds
      BY <1>1 DEF TypeOK, Busy, Sds
    <3>2. MapOf(listen_table)' = [MapOf(listen_table) EXCEPT ![my_sd[x]] = NULL]
      BY <1>1, <3>1, DeleteIsUpdate DEF TypeOK
    <3>3. MapOf(listen_table) \in [Sds -> Data \cup {NULL}]
      BY <1>1, LookupNull DEF TypeOK, MapOf, Sds
    <3>4. \A d \in Sds : MapOf(listen_table)'[d] # NULL =>
            d # my_sd[x] /\ MapOf(listen_table)'[d] = MapOf(listen_table)[d]
      BY <3>1, <3>2, <3>3
    <3>5. \A d \in Sds : d # my_sd[x] => global_ctx[d] # x
      BY <1>1, <3>1, Constants DEF Tabled
    <3>6. \A u \in Callers : u # t => pc'[u] = pc[u]
      BY <1>1 DEF TypeOK
    <3> QED BY <2>0, <3>4, <3>5, <3>6 DEF Queues, At
  <2>6. Fresh'
    BY <1>1, <2>0 DEF TypeOK, Busy, Fresh, Callees, Opened, Owners, HasSd, At
  <2>7. Transports'
    BY <1>1, <2>0 DEF TypeOK, Busy, Transports, Fresh, Callees, Opened, At
  <2>8. Receivers'
    BY <1>1, <2>0 DEF TypeOK, Busy, Receivers, Both, Fresh, Callees, Opened, At
  <2>9. aborted' => misused'
    BY <1>1, <2>0 DEF TypeOK, Busy
  <2> QED BY <2>1, <2>2, <2>3, <2>4, <2>5, <2>6, <2>7, <2>8, <2>9 DEF Core
<1>8. overlap => overlap'
  OBVIOUS
<1> QED BY <1>2, <1>3, <1>4, <1>5, <1>6, <1>7, <1>8 DEF IInv, Form

\* The descriptor is given back.
LEMMA ClearEntryStep ==
  ASSUME IInv, ~aborted, NEW t \in Callers, ClearEntry(t)
  PROVE  IInv'
<1> USE ClearEntry(t) DEF ClearEntry, Cleared, Goto, flags, threads, history
<1>1. TypeOK /\ WellFormed(listen_table) /\ Busy /\ Workers /\ Tabled
  BY DEF IInv, Form
<1>2. TypeOK'
  BY <1>1, Constants DEF TypeOK, Busy, Labels
<1>3. WellFormed(listen_table)'
  BY <1>1
<1>4. Busy'
  BY <1>1, Constants DEF TypeOK, Busy
<1>5. Workers'
  BY <1>1, SocketsAssumption DEF TypeOK, Busy, Workers, Tabled, At, Callers
<1>6. Tabled'
  BY <1>1 DEF TypeOK, Busy, Workers, Tabled, At
<1>7. ASSUME ~overlap', Core PROVE Core'
  <2>0. /\ Searches /\ Callees /\ Owners /\ Opened /\ Queues /\ Fresh
        /\ Transports /\ Receivers /\ (aborted => misused)
    BY <1>7 DEF Core
  <2>1. Searches'
    BY <1>1, <1>7, <2>0 DEF TypeOK, Busy, Searches, Searching
  <2>2. Callees'
    BY <1>1, <2>0 DEF TypeOK, Busy, Callees, Tabled, Opened
  <2>3. Owners'
    BY <1>1, <2>0 DEF TypeOK, Busy, Owners, HasSd, Callees, Tabled, Searches
  <2>4. Opened'
    BY <1>1, <2>0 DEF TypeOK, Busy, Opened, Owners, HasSd, Callees, Tabled,
                      Searches
  <2>5. Queues'
    BY <1>1, <2>0 DEF TypeOK, Busy, Queues, Callees, Tabled, At
  <2>6. Fresh'
    BY <1>1, <2>0 DEF TypeOK, Busy, Fresh, Callees, Opened, Owners, HasSd, At
  <2>7. Transports'
    BY <1>1, <2>0 DEF TypeOK, Busy, Transports, Fresh, Callees, Opened, At
  <2>8. Receivers'
    BY <1>1, <2>0 DEF TypeOK, Busy, Receivers, Both, Fresh, Callees, Opened, At
  <2>9. aborted' => misused'
    BY <1>1, <2>0 DEF TypeOK, Busy
  <2> QED BY <2>1, <2>2, <2>3, <2>4, <2>5, <2>6, <2>7, <2>8, <2>9 DEF Core
<1>8. overlap => overlap'
  OBVIOUS
<1> QED BY <1>2, <1>3, <1>4, <1>5, <1>6, <1>7, <1>8 DEF IInv, Form

\* The context is freed.
LEMMA FreeContextStep ==
  ASSUME IInv, ~aborted, NEW t \in Callers, FreeContext(t)
  PROVE  IInv'
<1> USE FreeContext(t) DEF FreeContext, Goto, tables, threads, history
<1>1. TypeOK /\ WellFormed(listen_table) /\ Busy /\ Workers /\ Tabled
  BY DEF IInv, Form
<1>2. TypeOK'
  BY <1>1, Constants DEF TypeOK, Busy, Labels
<1>3. WellFormed(listen_table)'
  BY <1>1
<1>4. Busy'
  BY <1>1, Constants DEF TypeOK, Busy
<1>5. Workers'
  BY <1>1, SocketsAssumption DEF TypeOK, Busy, Workers, Tabled, At, Callers
<1>6. Tabled'
  BY <1>1 DEF TypeOK, Busy, Workers, Tabled, At
<1>7. ASSUME ~overlap', Core PROVE Core'
  <2>0. /\ Searches /\ Callees /\ Owners /\ Opened /\ Queues /\ Fresh
        /\ Transports /\ Receivers /\ (aborted => misused)
    BY <1>7 DEF Core
  <2>1. Searches'
    BY <1>1, <1>7, <2>0 DEF TypeOK, Busy, Searches, Searching
  <2>2. Callees'
    BY <1>1, <2>0 DEF TypeOK, Busy, Callees, Tabled, Opened
  <2>3. Owners'
    BY <1>1, <2>0 DEF TypeOK, Busy, Owners, HasSd, Callees, Tabled, Searches
  <2>4. Opened'
    BY <1>1, <2>0 DEF TypeOK, Busy, Opened, Owners, HasSd, Callees, Tabled,
                      Searches
  <2>5. Queues'
    BY <1>1, <2>0 DEF TypeOK, Busy, Queues, Callees, Tabled, At
  <2>6. Fresh'
    BY <1>1, <2>0 DEF TypeOK, Busy, Fresh, Callees, Opened, Owners, HasSd, At
  <2>7. Transports'
    BY <1>1, <2>0 DEF TypeOK, Busy, Transports, Fresh, Callees, Opened, At
  <2>8. Receivers'
    BY <1>1, <2>0 DEF TypeOK, Busy, Receivers, Both, Transports, Callees, At
  <2>9. aborted' => misused'
    BY <1>1, <2>0 DEF TypeOK, Busy
  <2> QED BY <2>1, <2>2, <2>3, <2>4, <2>5, <2>6, <2>7, <2>8, <2>9 DEF Core
<1>8. overlap => overlap'
  OBVIOUS
<1> QED BY <1>2, <1>3, <1>4, <1>5, <1>6, <1>7, <1>8 DEF IInv, Form

\* mybind()
LEMMA MyBindStep ==
  ASSUME IInv, ~aborted, NEW t \in Callers, NEW sd \in Sds, MyBind(t, sd)
  PROVE  IInv'
<1> USE MyBind(t, sd) DEF MyBind, Calls, ValidSd, Abort, tables, threads
<1>1. TypeOK /\ WellFormed(listen_table) /\ Busy /\ Workers /\ Tabled
  BY DEF IInv, Form
<1>2. TypeOK'
  <2>1. bound' \in [Contexts -> BOOLEAN] /\ port' \in [Contexts -> BOOLEAN]
    BY <1>1, Zenon DEF TypeOK
  <2>2. aborted' \in BOOLEAN
    BY <1>1, Zenon DEF TypeOK
  <2>3. misused' \in BOOLEAN
    BY <1>1, Zenon DEF TypeOK
  <2> QED BY <1>1, <2>1, <2>2, <2>3 DEF TypeOK
<1>3. WellFormed(listen_table)'
  BY <1>1
<1>4. Busy'
  BY <1>1, Constants DEF TypeOK, Busy
<1>5. Workers'
  BY <1>1, SocketsAssumption DEF TypeOK, Busy, Workers, Tabled, At, Callers
<1>6. Tabled'
  BY <1>1 DEF TypeOK, Busy, Workers, Tabled, At
<1>7. ASSUME ~overlap', Core PROVE Core'
  <2>0. /\ Searches /\ Callees /\ Owners /\ Opened /\ Queues /\ Fresh
        /\ Transports /\ Receivers /\ (aborted => misused)
    BY <1>7 DEF Core
  <2>1. Searches'
    BY <1>1, <1>7, <2>0 DEF TypeOK, Busy, Searches, Searching
  <2>2. Callees'
    BY <1>1, <2>0 DEF TypeOK, Busy, Callees, Tabled, Opened
  <2>3. Owners'
    BY <1>1, <2>0 DEF TypeOK, Busy, Owners, HasSd, Callees, Tabled, Searches
  <2>4. Opened'
    BY <1>1, <2>0 DEF TypeOK, Busy, Opened, Owners, HasSd, Callees, Tabled,
                      Searches
  <2>5. Queues'
    BY <1>1, <2>0 DEF TypeOK, Busy, Queues, Callees, Tabled, At
  <2>6. Fresh'
    BY <1>1, <2>0 DEF TypeOK, Busy, Fresh, Callees, Opened, Owners, HasSd, At
  <2>7. Transports'
    BY <1>1, <2>0 DEF TypeOK, Busy, Transports, Fresh, Callees, Opened, At
  <2>8. Receivers'
    BY <1>1, <2>0 DEF TypeOK, Busy, Receivers, Both, Fresh, Callees, Opened, At
  <2>9. aborted' => misused'
    BY <1>1, <2>0 DEF TypeOK, Busy
  <2> QED BY <2>1, <2>2, <2>3, <2>4, <2>5, <2>6, <2>7, <2>8, <2>9 DEF Core
<1>8. overlap => overlap'
  OBVIOUS
<1> QED BY <1>2, <1>3, <1>4, <1>5, <1>6, <1>7, <1>8 DEF IInv, Form

\* myconnect(): a mysocket without a peer that does not listen has no threads.
LEMMA MyConnectStep ==
  ASSUME IInv, ~aborted, NEW t \in Callers, NEW sd \in Sds, MyConnect(t, sd)
  PROVE  IInv'
<1> USE MyConnect(t, sd) DEF MyConnect, BindEphemeral, Calls, ValidSd, TransportInit,
       StartRecv, Abort, tables,
                threads
<1>1. TypeOK /\ WellFormed(listen_table) /\ Busy /\ Workers /\ Tabled
  BY DEF IInv, Form
<1> DEFINE x == global_ctx[sd]
<1>a. /\ x \in Contexts /\ status[x] = "live" /\ ~peer[x] /\ sd \in open
      /\ peer' = [peer EXCEPT ![x] = TRUE]
      /\ bound' = [bound EXCEPT ![x] = TRUE]
      /\ port' = [port EXCEPT ![x] = port[x] \/ ~bound[x]]
      /\ misused' = (misused \/ listening[x])
  BY <1>1 DEF TypeOK, Tabled
<1>b. \/ /\ listening[x] /\ aborted' = TRUE
         /\ UNCHANGED << transport, receivers, recv_thread >>
      \/ /\ ~listening[x] /\ aborted' = aborted
         /\ transport' = [transport EXCEPT ![x] = "starting"]
         /\ recv_thread' = [recv_thread EXCEPT ![x] = recv_thread[x] + 1]
         /\ receivers' =
             [receivers EXCEPT ![x] = receivers[x] \cup {recv_thread[x] + 1}]
  OBVIOUS
<1>2. TypeOK'
  <2>1. /\ peer' \in [Contexts -> BOOLEAN] /\ bound' \in [Contexts -> BOOLEAN]
        /\ port' \in [Contexts -> BOOLEAN] /\ misused' \in BOOLEAN
    BY <1>1, <1>a, Zenon DEF TypeOK
  <2>2. aborted' \in BOOLEAN
    BY <1>1, <1>b, Zenon DEF TypeOK
  <2>3. recv_thread[x] + 1 \in Nat
    BY <1>1, <1>a DEF TypeOK
  <2>4. /\ transport' \in [Contexts -> {"none", "starting", "running", "ended"}]
        /\ receivers' \in [Contexts -> SUBSET Nat]
        /\ recv_thread' \in [Contexts -> Nat]
    BY <1>1, <1>a, <1>b, <2>3 DEF TypeOK
  <2> QED BY <1>1, <2>1, <2>2, <2>4 DEF TypeOK
<1>3. WellFormed(listen_table)'
  BY <1>1
<1>4. Busy'
  BY <1>1, Constants DEF TypeOK, Busy
<1>5. Workers'
  BY <1>1, SocketsAssumption DEF TypeOK, Busy, Workers, Tabled, At, Callers
<1>6. Tabled'
  BY <1>1 DEF TypeOK, Busy, Workers, Tabled, At
<1>7. ASSUME ~overlap', Core PROVE Core'
  <2>0. /\ Searches /\ Callees /\ Owners /\ Opened /\ Queues /\ Fresh
        /\ Transports /\ Receivers /\ (aborted => misused)
    BY <1>7 DEF Core
  <2> HIDE DEF x
  <2>a. \A u \in Callers : arg[u] # x
    BY <1>a, <2>0 DEF Opened, x
  <2>b. ~listening[x] => recv_thread[x] = 0 /\ receivers[x] = {}
    BY <1>a, <2>0 DEF Fresh
  <2>c. \A c \in Contexts : c # x =>
          /\ peer'[c] = peer[c] /\ port'[c] = port[c] /\ bound'[c] = bound[c]
          /\ transport'[c] = transport[c] /\ receivers'[c] = receivers[c]
          /\ recv_thread'[c] = recv_thread[c]
    <3>1. \A c \in Contexts : c # x => port'[c] = port[c]
      BY <1>1, <1>a, Zenon DEF TypeOK
    <3>2. \A c \in Contexts : c # x =>
            /\ transport'[c] = transport[c] /\ receivers'[c] = receivers[c]
            /\ recv_thread'[c] = recv_thread[c]
      BY <1>1, <1>b DEF TypeOK
    <3>3. \A c \in Contexts : c # x => peer'[c] = peer[c] /\ bound'[c] = bound[c]
      BY <1>1, <1>a DEF TypeOK
    <3> QED BY <3>1, <3>2, <3>3
  <2>d. peer'[x] /\ bound'[x]
    BY <1>1, <1>a DEF TypeOK
  <2>e. misused \/ listening[x] => misused'
    BY <1>a
  <2>f. ~listening[x] => /\ transport'[x] = "starting" /\ aborted' = aborted
                         /\ receivers'[x] = {1} /\ recv_thread'[x] = 1
    BY <1>1, <1>a, <1>b, <2>b DEF TypeOK
  <2>g. listening[x] => /\ aborted' /\ transport'[x] = transport[x]
                        /\ receivers'[x] = receivers[x]
                        /\ recv_thread'[x] = recv_thread[x]
    BY <1>b
  <2>h. UNCHANGED << status, listening, pc, arg, relisten >>
    OBVIOUS
  <2>1. Searches'
    BY <1>1, <1>7, <2>0 DEF TypeOK, Busy, Searches, Searching
  <2>2. Callees'
    BY <1>1, <2>0 DEF TypeOK, Busy, Callees, Tabled, Opened
  <2>3. Owners'
    BY <1>1, <2>0 DEF TypeOK, Busy, Owners, HasSd, Callees, Tabled, Searches
  <2>4. Opened'
    BY <1>1, <2>0 DEF TypeOK, Busy, Opened, Owners, HasSd, Callees, Tabled,
                      Searches
  <2>5. Queues'
    BY <1>1, <2>0 DEF TypeOK, Busy, Queues, Callees, Tabled, At
  <2>6. Fresh'
    <3> HIDE DEF MyConnect
    <3>1. \A c \in Contexts :
            \/ status[c] = "none"
            \/ \E u \in Callers : At(u, c, {"search", "claim", "accept"})
            => c # x
      BY <1>a, <2>a DEF At
    <3>2. \A c \in Contexts :
            \/ status'[c] = "none"
            \/ \E u \in Callers : At(u, c, {"search", "claim", "accept"})'
            => ~listening'[c] /\ ~peer'[c] /\ transport'[c] = "none"
      BY <2>0, <2>c, <2>h, <3>1 DEF Fresh, At
    <3>3. \A c \in Contexts :
            status'[c] # "freed" /\ ~peer'[c] /\ ~listening'[c] =>
              recv_thread'[c] = 0 /\ receivers'[c] = {}
      BY <2>0, <2>c, <2>d, <2>h DEF Fresh
    <3>4. \A c \in Contexts : port'[c] => bound'[c]
      BY <2>0, <2>c, <2>d DEF Fresh
    <3>5. ~aborted' => \A c \in Contexts : peer'[c] => transport'[c] # "none"
      BY <2>0, <2>c, <2>f, <2>g DEF Fresh
    <3> QED BY <3>2, <3>3, <3>4, <3>5 DEF Fresh
  <2>7. Transports'
    <3> HIDE DEF MyConnect
    <3> QED BY <1>a, <2>0, <2>a, <2>c, <2>e, <2>f, <2>g, <2>h DEF Transports, At
  <2>8. Receivers'
    <3> HIDE DEF MyConnect
    <3> QED BY <1>a, <2>0, <2>a, <2>c, <2>f, <2>g, <2>h DEF Receivers, Both, At
  <2>9. aborted' => misused'
    BY <1>1, <2>0 DEF TypeOK, Busy
  <2> QED BY <2>1, <2>2, <2>3, <2>4, <2>5, <2>6, <2>7, <2>8, <2>9 DEF Core
<1>8. overlap => overlap'
  OBVIOUS
<1> QED BY <1>2, <1>3, <1>4, <1>5, <1>6, <1>7, <1>8 DEF IInv, Form

\* mylisten(): the queue found is its own, a new one is the only one for its
\* descriptor.
LEMMA MyListenStep ==
  ASSUME IInv, ~aborted, NEW t \in Callers, NEW sd \in Sds, MyListen(t, sd)
  PROVE  IInv'
<1> USE MyListen(t, sd) DEF MyListen, Calls, ValidSd, NeedsQueue, AnothersQueue, StartRecv, Abort
<1>1. TypeOK /\ WellFormed(listen_table) /\ Busy /\ Workers /\ Tabled
  BY DEF IInv, Form
<1> DEFINE x == global_ctx[sd]
<1>a. /\ x \in Contexts /\ status[x] = "live" /\ sd \in open /\ my_sd[x] = sd
      /\ misused' = (misused \/ ~port[x] \/ transport[x] # "none")
      /\ relisten' = IF listening[x] THEN relisten \cup {x} ELSE relisten
  BY <1>1 DEF TypeOK, Tabled
<1>b. \/ /\ ~bound[x] \/ ~port[x] \/ AnothersQueue(x)
         /\ aborted' = TRUE
         /\ UNCHANGED << listening, listen_table, receivers, recv_thread >>
      \/ /\ ~AnothersQueue(x) /\ aborted' = aborted
         /\ listening' = [listening EXCEPT ![x] = TRUE]
         /\ \/ NeedsQueue(x) /\ listen_table' = HashInsert(listen_table, sd, x)
            \/ ~NeedsQueue(x) /\ UNCHANGED listen_table
         /\ \/ UNCHANGED << receivers, recv_thread >>
            \/ StartRecv(x)
  OBVIOUS
<1>c. sd \in Keys /\ x \in Data
  BY <1>a, Constants DEF Sds
<1>d. NeedsQueue(x) => ~HashEntryExists(listen_table, sd)
  BY <1>1, <1>a, <1>c, LookupNull DEF TypeOK
<1>e. \/ listen_table' = listen_table
      \/ NeedsQueue(x) /\ listen_table' = HashInsert(listen_table, sd, x)
  BY <1>b
<1>2. TypeOK'
  <2>1. misused' \in BOOLEAN
    BY <1>1, <1>a, Zenon DEF TypeOK
  <2>2. aborted' \in BOOLEAN
    BY <1>1, <1>b, Zenon DEF TypeOK
  <2>3. listening' \in [Contexts -> BOOLEAN]
    BY <1>1, <1>b, Zenon DEF TypeOK
  <2>4. recv_thread[x] + 1 \in Nat
    BY <1>1, <1>a DEF TypeOK
  <2>5. /\ receivers' \in [Contexts -> SUBSET Nat]
        /\ recv_thread' \in [Contexts -> Nat]
    BY <1>1, <1>a, <1>b, <2>4 DEF TypeOK
  <2>6. listen_table' \in Table
    BY <1>1, <1>c, <1>d, <1>e, InsertIsUpdate DEF TypeOK
  <2>7. relisten' \subseteq Contexts
    BY <1>1, <1>a DEF TypeOK
  <2> QED BY <1>1, <2>1, <2>2, <2>3, <2>5, <2>6, <2>7 DEF TypeOK
<1>3. WellFormed(listen_table)'
  BY <1>1, <1>c, <1>d, <1>e, InsertIsUpdate DEF TypeOK
<1>4. Busy'
  BY <1>1, Constants DEF TypeOK, Busy
<1>5. Workers'
  BY <1>1, SocketsAssumption DEF TypeOK, Busy, Workers, Tabled, At, Callers
<1>6. Tabled'
  BY <1>1 DEF TypeOK, Busy, Workers, Tabled, At
<1>7. ASSUME ~overlap', Core PROVE Core'
  <2>0. /\ Searches /\ Callees /\ Owners /\ Opened /\ Queues /\ Fresh
        /\ Transports /\ Receivers /\ (aborted => misused)
    BY <1>7 DEF Core
  <2> HIDE DEF x
  <2>a. global_ctx[sd] = x /\ \A u \in Callers : arg[u] # x
    BY <1>a, <2>0 DEF Opened, x
  <2>b. \A c \in Contexts : c # x =>
          /\ listening'[c] = listening[c] /\ receivers'[c] = receivers[c]
          /\ recv_thread'[c] = recv_thread[c]
    BY <1>1, <1>a, <1>b DEF TypeOK
  <2>c. listening[x] => listening'[x]
    BY <1>1, <1>a, <1>b DEF TypeOK
  <2>d. HashLookupPtr(listen_table, sd) = MapOf(listen_table)[sd]
    BY <1>c DEF MapOf
  <2>e. UNCHANGED << global_ctx, status, transport, pc, arg >>
    OBVIOUS
  <2>1. Searches'
    BY <1>1, <1>7, <2>0 DEF TypeOK, Busy, Searches, Searching
  <2>2. Callees'
    BY <1>1, <2>0 DEF TypeOK, Busy, Callees, Tabled, Opened
  <2>3. Owners'
    BY <1>1, <2>0 DEF TypeOK, Busy, Owners, HasSd, Callees, Tabled, Searches
  <2>4. Opened'
    BY <1>1, <2>0 DEF TypeOK, Busy, Opened, Owners, HasSd, Callees, Tabled,
                      Searches
  <2>5. Queues'
    <3>1. CASE listen_table' = listen_table
      <4> HIDE DEF MyListen
      <4>1. MapOf(listen_table)' = MapOf(listen_table)
        BY <3>1 DEF MapOf
      <4>2. \A c \in Contexts : listening[c] => listening'[c]
        BY <2>b, <2>c
      <4>3. MapOf(listen_table) \in [Sds -> Contexts \cup {NULL}]
        BY <1>1, LookupNull, Constants DEF TypeOK, MapOf, Sds
      <4> QED BY <2>0, <2>e, <4>1, <4>2, <4>3 DEF Queues, At
    <3>2. CASE listen_table' # listen_table
      <4>1. MapOf(listen_table)' = [MapOf(listen_table) EXCEPT ![sd] = x]
        BY <1>1, <1>c, <1>d, <1>e, <3>2, InsertIsUpdate DEF TypeOK
      <4>2. listening'[x]
        BY <1>1, <1>a, <1>b, <3>2 DEF TypeOK
      <4> HIDE DEF MyListen
      <4>3. \A c \in Contexts : listening[c] => listening'[c]
        BY <2>b, <2>c
      <4>4. MapOf(listen_table) \in [Sds -> Contexts \cup {NULL}]
        BY <1>1, LookupNull, Constants DEF TypeOK, MapOf, Sds
      <4>5. \A d \in Sds : MapOf(listen_table)'[d]
                              = IF d = sd THEN x ELSE MapOf(listen_table)[d]
        BY <4>1, <4>4
      <4> QED BY <2>0, <2>a, <2>e, <4>2, <4>3, <4>4, <4>5 DEF Queues, At
    <3> QED BY <3>1, <3>2
  <2>6. Fresh'
    <3>1. \A c \in Contexts :
            \/ status[c] = "none"
            \/ \E u \in Callers : At(u, c, {"search", "claim", "accept"})
            => c # x
      BY <1>a, <2>a DEF At
    <3>2. listening'[x] \/ (receivers' = receivers /\ recv_thread' = recv_thread)
      BY <1>1, <1>a, <1>b DEF TypeOK
    <3> QED BY <2>0, <2>b, <2>c, <3>1, <3>2 DEF Fresh, At
  <2>7. Transports'
    BY <1>1, <2>0 DEF TypeOK, Busy, Transports, Fresh, Callees, Opened, At
  <2>8. Receivers'
    <3>1. 0 \notin receivers'[x]
      BY <1>1, <1>a, <1>b, <2>0 DEF TypeOK, Receivers
    <3>2. ASSUME x \notin relisten', ~(transport'[x] # "none" /\ listening'[x])
          PROVE  receivers'[x] \subseteq {recv_thread'[x]}
      <4>1. CASE UNCHANGED << listening, receivers, recv_thread >>
        BY <1>a, <2>0, <3>2, <4>1 DEF Receivers, Both
      <4>2. CASE listening' = [listening EXCEPT ![x] = TRUE]
        <5>1. ~listening[x] /\ transport[x] = "none"
          <6>1. listening'[x]
            BY <1>1, <1>a, <4>2 DEF TypeOK
          <6>2. transport'[x] = "none"
            BY <3>2, <6>1
          <6> QED BY <1>a, <2>e, <3>2, <6>2
        <5>2. recv_thread[x] = 0 /\ receivers[x] = {}
          BY <1>a, <2>0, <5>1 DEF Fresh
        <5> QED BY <1>1, <1>a, <1>b, <5>2 DEF TypeOK
      <4> QED BY <1>b, <4>1, <4>2
    <3>3. /\ relisten \subseteq relisten'
          /\ \A c \in relisten' : c = x \/ c \in relisten
      BY <1>a
    <3> HIDE DEF MyListen
    <3> QED BY <1>a, <2>0, <2>a, <2>b, <2>e, <3>1, <3>2, <3>3
            DEF Receivers, Both, At
  <2>9. aborted' => misused'
    <3>1. port[x] => bound[x]
      BY <1>a, <2>0 DEF Fresh
    <3>2. ~AnothersQueue(x)
      BY <1>a, <2>0, <2>a, <2>d DEF Queues
    <3> QED BY <1>a, <1>b, <3>1, <3>2
  <2> QED BY <2>1, <2>2, <2>3, <2>4, <2>5, <2>6, <2>7, <2>8, <2>9 DEF Core
<1>8. overlap => overlap'
  OBVIOUS
<1> QED BY <1>2, <1>3, <1>4, <1>5, <1>6, <1>7, <1>8 DEF IInv, Form

\* An open descriptor has its entry unless searches overlapped.
LEMMA BadDescriptorStep ==
  ASSUME IInv, ~aborted, NEW t \in Callers, NEW sd \in Sds,
         BadDescriptor(t, sd)
  PROVE  IInv'
<1>1. /\ UNCHANGED << global_ctx, listen_table, status, my_sd, bound >>
      /\ UNCHANGED << listening, port, peer, transport, receivers >>
      /\ UNCHANGED << recv_thread, pc, arg, k, open, misused >>
      /\ UNCHANGED << relisten, overlap >>
      /\ aborted' = TRUE /\ sd \in open /\ ~ValidSd(sd)
  BY DEF BadDescriptor, Abort, tables, flags, threads, history
<1>2. Form'
  BY <1>1 DEF IInv, Form, TypeOK, Busy, Workers, Tabled, At
<1>3. ~Core
  BY <1>1 DEF IInv, Form, Core, Tabled, Opened, ValidSd
<1> QED BY <1>1, <1>2, <1>3 DEF IInv

\* myclose() begins: nobody else works on the mysocket.
LEMMA MyCloseStep ==
  ASSUME IInv, ~aborted, NEW t \in Callers, NEW sd \in Sds, MyClose(t, sd)
  PROVE  IInv'
<1> USE MyClose(t, sd) DEF MyClose, Calls, ValidSd, Goto, tables, flags, threads, history
<1>1. TypeOK /\ WellFormed(listen_table) /\ Busy /\ Workers /\ Tabled
  BY DEF IInv, Form
<1>2. TypeOK'
  BY <1>1, Constants DEF TypeOK, Busy, Labels
<1>3. WellFormed(listen_table)'
  BY <1>1
<1>4. Busy'
  BY <1>1, Constants DEF TypeOK, Busy
<1>5. Workers'
  <2>1. global_ctx[sd] \in Contexts /\ status[global_ctx[sd]] = "live"
    BY <1>1 DEF TypeOK, Tabled
  <2>2. \A u \in Callers : arg[u] = global_ctx[sd] => pc[u] = "accept"
    BY <1>1, <2>1, Constants DEF TypeOK, Busy, Workers, Tabled, At, Callers,
       Labels
  <2>3. /\ \A u \in Callers : u # t => pc'[u] = pc[u] /\ arg'[u] = arg[u]
        /\ pc'[t] = "join" /\ arg'[t] = global_ctx[sd] /\ status' = status
    BY <1>1 DEF TypeOK
  <2>4. t \in Apps /\ t \notin Contexts
    BY SocketsAssumption
  <2> QED BY <1>1, <2>1, <2>2, <2>3, <2>4 DEF Workers
<1>6. Tabled'
  BY <1>1 DEF TypeOK, Busy, Workers, Tabled, At
<1>7. ASSUME ~overlap', Core PROVE Core'
  <2>0. /\ Searches /\ Callees /\ Owners /\ Opened /\ Queues /\ Fresh
        /\ Transports /\ Receivers /\ (aborted => misused)
    BY <1>7 DEF Core
  <2>1. Searches'
    BY <1>1, <1>7, <2>0 DEF TypeOK, Busy, Searches, Searching
  <2>2. Callees'
    BY <1>1, <2>0 DEF TypeOK, Busy, Callees, Tabled, Opened
  <2>3. Owners'
    BY <1>1, <2>0 DEF TypeOK, Busy, Owners, HasSd, Callees, Tabled, Searches
  <2>4. Opened'
    BY <1>1, <2>0 DEF TypeOK, Busy, Opened, Owners, HasSd, Callees, Tabled,
                      Searches
  <2>5. Queues'
    BY <1>1, <2>0 DEF TypeOK, Busy, Queues, Callees, Tabled, At
  <2>6. Fresh'
    BY <1>1, <2>0 DEF TypeOK, Busy, Fresh, Callees, Opened, Owners, HasSd, At
  <2>7. Transports'
    BY <1>1, <2>0 DEF TypeOK, Busy, Transports, Fresh, Callees, Opened, At
  <2>8. Receivers'
    BY <1>1, <2>0 DEF TypeOK, Busy, Receivers, Both, Fresh, Callees, Opened, At
  <2>9. aborted' => misused'
    BY <1>1, <2>0 DEF TypeOK, Busy
  <2> QED BY <2>1, <2>2, <2>3, <2>4, <2>5, <2>6, <2>7, <2>8, <2>9 DEF Core
<1>8. overlap => overlap'
  OBVIOUS
<1> QED BY <1>2, <1>3, <1>4, <1>5, <1>6, <1>7, <1>8 DEF IInv, Form

\* A transport thread begins: its context is in global_ctx.
LEMMA TransportStartStep ==
  ASSUME IInv, ~aborted, NEW c \in Contexts, TransportStart(c)
  PROVE  IInv'
<1> USE TransportStart(c) DEF TransportStart, Abort, tables, flags, history
<1>1. TypeOK /\ WellFormed(listen_table) /\ Busy /\ Workers /\ Tabled
  BY DEF IInv, Form
<1>2. TypeOK'
  <2>1. transport' \in [Contexts -> {"none", "starting", "running", "ended"}]
    BY <1>1 DEF TypeOK
  <2>2. aborted' \in BOOLEAN
    BY <1>1, Zenon DEF TypeOK
  <2> QED BY <1>1, <2>1, <2>2 DEF TypeOK
<1>3. WellFormed(listen_table)'
  BY <1>1
<1>4. Busy'
  BY <1>1, Constants DEF TypeOK, Busy
<1>5. Workers'
  BY <1>1, SocketsAssumption DEF TypeOK, Busy, Workers, Tabled, At, Callers
<1>6. Tabled'
  BY <1>1 DEF TypeOK, Busy, Workers, Tabled, At
<1>7. ASSUME ~overlap', Core PROVE Core'
  <2>0. /\ Searches /\ Callees /\ Owners /\ Opened /\ Queues /\ Fresh
        /\ Transports /\ Receivers /\ (aborted => misused)
    BY <1>7 DEF Core
  <2>1. Searches'
    BY <1>1, <1>7, <2>0 DEF TypeOK, Busy, Searches, Searching
  <2>2. Callees'
    BY <1>1, <2>0 DEF TypeOK, Busy, Callees, Tabled, Opened
  <2>3. Owners'
    BY <1>1, <2>0 DEF TypeOK, Busy, Owners, HasSd, Callees, Tabled, Searches
  <2>4. Opened'
    BY <1>1, <2>0 DEF TypeOK, Busy, Opened, Owners, HasSd, Callees, Tabled,
                      Searches
  <2>5. Queues'
    BY <1>1, <2>0 DEF TypeOK, Busy, Queues, Callees, Tabled, At
  <2>6. Fresh'
    BY <1>1, <2>0 DEF TypeOK, Busy, Fresh, Callees, Opened, Owners, HasSd, At
  <2>7. Transports'
    BY <1>1, <2>0 DEF TypeOK, Busy, Transports, Fresh, Callees, Opened, At
  <2>8. Receivers'
    BY <1>1, <2>0 DEF TypeOK, Busy, Receivers, Both, Fresh, Callees, Opened, At
  <2>9. aborted' => misused'
    <3>1. HasSd(c)
      BY <2>0 DEF Transports, HasSd, At
    <3>2. global_ctx[my_sd[c]] = c
      BY <2>0, <3>1 DEF Owners
    <3> QED BY <3>2
  <2> QED BY <2>1, <2>2, <2>3, <2>4, <2>5, <2>6, <2>7, <2>8, <2>9 DEF Core
<1>8. overlap => overlap'
  OBVIOUS
<1> QED BY <1>2, <1>3, <1>4, <1>5, <1>6, <1>7, <1>8 DEF IInv, Form

\* A transport thread ends.
LEMMA TransportEndStep ==
  ASSUME IInv, ~aborted, NEW c \in Contexts, TransportEnd(c)
  PROVE  IInv'
<1> USE TransportEnd(c) DEF TransportEnd, tables, flags, history
<1>1. TypeOK /\ WellFormed(listen_table) /\ Busy /\ Workers /\ Tabled
  BY DEF IInv, Form
<1>2. TypeOK'
  BY <1>1, Constants DEF TypeOK, Busy, Labels
<1>3. WellFormed(listen_table)'
  BY <1>1
<1>4. Busy'
  BY <1>1, Constants DEF TypeOK, Busy
<1>5. Workers'
  BY <1>1, SocketsAssumption DEF TypeOK, Busy, Workers, Tabled, At, Callers
<1>6. Tabled'
  BY <1>1 DEF TypeOK, Busy, Workers, Tabled, At
<1>7. ASSUME ~overlap', Core PROVE Core'
  <2>0. /\ Searches /\ Callees /\ Owners /\ Opened /\ Queues /\ Fresh
        /\ Transports /\ Receivers /\ (aborted => misused)
    BY <1>7 DEF Core
  <2>1. Searches'
    BY <1>1, <1>7, <2>0 DEF TypeOK, Busy, Searches, Searching
  <2>2. Callees'
    BY <1>1, <2>0 DEF TypeOK, Busy, Callees, Tabled, Opened
  <2>3. Owners'
    BY <1>1, <2>0 DEF TypeOK, Busy, Owners, HasSd, Callees, Tabled, Searches
  <2>4. Opened'
    BY <1>1, <2>0 DEF TypeOK, Busy, Opened, Owners, HasSd, Callees, Tabled,
                      Searches
  <2>5. Queues'
    BY <1>1, <2>0 DEF TypeOK, Busy, Queues, Callees, Tabled, At
  <2>6. Fresh'
    BY <1>1, <2>0 DEF TypeOK, Busy, Fresh, Callees, Opened, Owners, HasSd, At
  <2>7. Transports'
    BY <1>1, <2>0 DEF TypeOK, Busy, Transports, Fresh, Callees, Opened, At
  <2>8. Receivers'
    BY <1>1, <2>0 DEF TypeOK, Busy, Receivers, Both, Fresh, Callees, Opened, At
  <2>9. aborted' => misused'
    BY <1>1, <2>0 DEF TypeOK, Busy
  <2> QED BY <2>1, <2>2, <2>3, <2>4, <2>5, <2>6, <2>7, <2>8, <2>9 DEF Core
<1>8. overlap => overlap'
  OBVIOUS
<1> QED BY <1>2, <1>3, <1>4, <1>5, <1>6, <1>7, <1>8 DEF IInv, Form

\* A receive thread ends.
LEMMA RecvExitStep ==
  ASSUME IInv, ~aborted, NEW c \in Contexts, RecvExit(c)
  PROVE  IInv'
<1> USE RecvExit(c) DEF RecvExit, tables, flags, history
<1>1. TypeOK /\ WellFormed(listen_table) /\ Busy /\ Workers /\ Tabled
  BY DEF IInv, Form
<1>2. TypeOK'
  BY <1>1, Constants DEF TypeOK, Busy, Labels
<1>3. WellFormed(listen_table)'
  BY <1>1
<1>4. Busy'
  BY <1>1, Constants DEF TypeOK, Busy
<1>5. Workers'
  BY <1>1, SocketsAssumption DEF TypeOK, Busy, Workers, Tabled, At, Callers
<1>6. Tabled'
  BY <1>1 DEF TypeOK, Busy, Workers, Tabled, At
<1>7. ASSUME ~overlap', Core PROVE Core'
  <2>0. /\ Searches /\ Callees /\ Owners /\ Opened /\ Queues /\ Fresh
        /\ Transports /\ Receivers /\ (aborted => misused)
    BY <1>7 DEF Core
  <2>1. Searches'
    BY <1>1, <1>7, <2>0 DEF TypeOK, Busy, Searches, Searching
  <2>2. Callees'
    BY <1>1, <2>0 DEF TypeOK, Busy, Callees, Tabled, Opened
  <2>3. Owners'
    BY <1>1, <2>0 DEF TypeOK, Busy, Owners, HasSd, Callees, Tabled, Searches
  <2>4. Opened'
    BY <1>1, <2>0 DEF TypeOK, Busy, Opened, Owners, HasSd, Callees, Tabled,
                      Searches
  <2>5. Queues'
    BY <1>1, <2>0 DEF TypeOK, Busy, Queues, Callees, Tabled, At
  <2>6. Fresh'
    BY <1>1, <2>0 DEF TypeOK, Busy, Fresh, Callees, Opened, Owners, HasSd, At
  <2>7. Transports'
    BY <1>1, <2>0 DEF TypeOK, Busy, Transports, Fresh, Callees, Opened, At
  <2>8. Receivers'
    BY <1>1, <2>0 DEF TypeOK, Busy, Receivers, Both, Fresh, Callees, Opened, At
  <2>9. aborted' => misused'
    BY <1>1, <2>0 DEF TypeOK, Busy
  <2> QED BY <2>1, <2>2, <2>3, <2>4, <2>5, <2>6, <2>7, <2>8, <2>9 DEF Core
<1>8. overlap => overlap'
  OBVIOUS
<1> QED BY <1>2, <1>3, <1>4, <1>5, <1>6, <1>7, <1>8 DEF IInv, Form

\* Every step preserves the invariant.
LEMMA IInvStep == IInv /\ [Next]_vars => IInv'
<1> SUFFICES ASSUME IInv, [Next]_vars PROVE IInv'
  OBVIOUS
<1>1. CASE Next
  <2>1. ~aborted
    BY <1>1 DEF Next
  <2>2. ASSUME NEW t \in Callers, CallerStep(t) PROVE IInv'
    BY <2>1, <2>2, NewMysocketStep, SearchStep, ClaimStep, AcceptNewStep,
       JoinTransportStep, StopRecvStep, ClosePassiveStep, ClearEntryStep,
       FreeContextStep DEF CallerStep
  <2>3. ASSUME NEW t \in Callers, NEW sd \in Sds, Call(t, sd) PROVE IInv'
    BY <2>1, <2>3, BadDescriptorStep, MyBindStep, MyConnectStep, MyListenStep,
       MyCloseStep DEF Call
  <2>4. ASSUME NEW c \in Contexts, ContextStep(c) PROVE IInv'
    BY <2>1, <2>4, TransportStartStep, TransportEndStep, RecvExitStep
       DEF ContextStep
  <2> QED BY <1>1, <2>2, <2>3, <2>4 DEF Next
<1>2. CASE UNCHANGED vars
  <2>1. /\ UNCHANGED << global_ctx, listen_table, status, my_sd, bound >>
        /\ UNCHANGED << listening, port, peer, transport, receivers >>
        /\ UNCHANGED << recv_thread, pc, arg, k, open, aborted, misused >>
        /\ UNCHANGED << relisten, overlap >>
    BY <1>2 DEF vars, tables, flags, threads, history
  <2>2. Form'
    BY <2>1 DEF IInv, Form, TypeOK, Busy, Workers, Tabled, At
  <2>3. ASSUME Core PROVE Core'
    BY <2>1, <2>3 DEF Core, Searches, Searching, Callees, Owners, HasSd, Opened,
       Queues, MapOf, Fresh, Transports, Receivers, Both, At
  <2> QED BY <2>1, <2>2, <2>3 DEF IInv
<1> QED BY <1>1, <1>2

\* The invariant holds of every behaviour.
THEOREM Invariance == Spec => []IInv
BY IInvInit, IInvStep, PTL DEF Spec

----------------------------------------------------------------------------
(* The properties.                                                         *)

\* The type invariant of the life of mysockets holds in every instance.
THEOREM TypeCorrect == Spec => []TypeOK
<1>1. IInv => TypeOK
  BY DEF IInv, Form
<1> QED BY <1>1, Invariance, PTL

\* Unless two searches for a descriptor overlap, every mysocket is found under
\* its own descriptor from mysocket() to myclose().
THEOREM DescriptorsUnique == Spec => []OneSdEach
<1>1. IInv => OneSdEach
  BY DEF IInv, Core, Owners, OneSdEach
<1> QED BY <1>1, Invariance, PTL

\* No descriptor leads to a context that is free, even if searches overlap.
THEOREM DescriptorsLive == Spec => []NoDanglingSd
<1>1. IInv => NoDanglingSd
  BY DEF IInv, Form, Tabled, NoDanglingSd
<1> QED BY <1>1, Invariance, PTL

\* A mysocket that gets a descriptor again does not find an old listen queue.
THEOREM QueuesFresh == Spec => []NoStaleQueue
<1>1. ASSUME IInv PROVE NoStaleQueue
  <2> SUFFICES ASSUME ~overlap, NEW sd \in Sds,
                      HashLookupPtr(listen_table, sd) # NULL
               PROVE  LET c == HashLookupPtr(listen_table, sd)
                      IN status[c] = "live" /\ listening[c] /\ global_ctx[sd] = c
    BY DEF NoStaleQueue
  <2>1. HashLookupPtr(listen_table, sd) = MapOf(listen_table)[sd]
    BY DEF MapOf, Sds
  <2>2. Queues /\ Tabled
    BY <1>1 DEF IInv, Form, Core
  <2> QED BY <2>1, <2>2 DEF Queues, Tabled
<1> QED BY <1>1, Invariance, PTL

\* myclose() frees a context after all its threads have ended, unless mylisten()
\* was called twice or searches overlapped.
THEOREM ThreadsEnd == Spec => []ThreadsEndFirst
<1>1. IInv => ThreadsEndFirst
  BY DEF IInv, Core, Receivers, ThreadsEndFirst
<1> QED BY <1>1, Invariance, PTL

\* No assertion about descriptors, ports, threads and queues fails in a program
\* that keeps to the order of calls, unless searches overlap.
THEOREM NoAssertionFails == Spec => []LegalCallsSucceed
<1>1. IInv => LegalCallsSucceed
  BY DEF IInv, Core, LegalCallsSucceed
<1> QED BY <1>1, Invariance, PTL

\* What a step does to listen_table is an insertion, a deletion or nothing.
LEMMA TableStep ==
  ASSUME IInv, [Next]_vars
  PROVE  [ListenMap!Next]_(MapOf(listen_table))
<1>1. TypeOK /\ WellFormed(listen_table) /\ Busy /\ Tabled
  BY DEF IInv, Form
<1>2. ASSUME NEW t \in Callers, NEW sd \in Sds, MyListen(t, sd)
      PROVE  [ListenMap!Next]_(MapOf(listen_table))
  <2>1. global_ctx[sd] \in Data /\ sd \in Keys /\ my_sd[global_ctx[sd]] = sd
    BY <1>1, <1>2, Constants DEF MyListen, Calls, ValidSd, TypeOK, Sds
  <2>2. CASE listen_table' = listen_table
    BY <2>2 DEF MapOf
  <2>3. CASE listen_table' # listen_table
    <3>1. /\ HashLookupPtr(listen_table, sd) = NULL
          /\ listen_table' = HashInsert(listen_table, sd, global_ctx[sd])
      BY <1>2, <2>1, <2>3 DEF MyListen, NeedsQueue
    <3>2. ~HashEntryExists(listen_table, sd)
      BY <1>1, <2>1, <3>1, LookupNull DEF TypeOK
    <3>3. MapOf(listen_table)'
            = [MapOf(listen_table) EXCEPT ![sd] = global_ctx[sd]]
      BY <1>1, <2>1, <3>1, <3>2, InsertIsUpdate DEF TypeOK
    <3>4. MapOf(listen_table)[sd] = NULL
      BY <2>1, <3>1 DEF MapOf
    <3> QED BY <2>1, <3>3, <3>4 DEF ListenMap!Next, ListenMap!Insert
  <2> QED BY <2>2, <2>3
<1>3. ASSUME NEW t \in Callers, ClosePassive(t)
      PROVE  [ListenMap!Next]_(MapOf(listen_table))
  <2> DEFINE sd == my_sd[arg[t]]
  <2>1. sd \in Keys
    BY <1>1, <1>3 DEF ClosePassive, TypeOK, Busy, Sds
  <2>2. MapOf(listen_table)' = [MapOf(listen_table) EXCEPT ![sd] = NULL]
    BY <1>1, <1>3, <2>1, DeleteIsUpdate DEF ClosePassive, Forgotten, TypeOK
  <2> HIDE DEF sd
  <2>3. CASE MapOf(listen_table)[sd] = NULL
    BY <2>1, <2>2, <2>3 DEF MapOf
  <2>4. CASE MapOf(listen_table)[sd] # NULL
    BY <2>1, <2>2, <2>4 DEF ListenMap!Next, ListenMap!Delete
  <2> QED BY <2>3, <2>4
<1>4. ASSUME listen_table' = listen_table
      PROVE  [ListenMap!Next]_(MapOf(listen_table))
  BY <1>4 DEF MapOf
<1>5. ASSUME NEW t \in Callers, CallerStep(t), ~ClosePassive(t)
      PROVE  listen_table' = listen_table
  BY <1>5 DEF CallerStep, NewMysocket, Search, Claim, AcceptNew, JoinTransport,
     StopRecv, ClearEntry, FreeContext, tables
<1>6. ASSUME NEW t \in Callers, NEW sd \in Sds, Call(t, sd), ~MyListen(t, sd)
      PROVE  listen_table' = listen_table
  BY <1>6 DEF Call, BadDescriptor, MyBind, MyConnect, MyClose, tables
<1>7. ASSUME NEW c \in Contexts, ContextStep(c) PROVE listen_table' = listen_table
  BY <1>7 DEF ContextStep, TransportStart, TransportEnd, RecvExit, tables
<1>8. CASE UNCHANGED vars
  BY <1>4, <1>8 DEF vars, tables
<1> QED BY <1>2, <1>3, <1>4, <1>5, <1>6, <1>7, <1>8 DEF Next

\* The table of listen queues is a map from descriptors to queues: collisions in
\* its chains are never seen.
THEOREM TableIsMap == Spec => ListenMapSpec
<1>1. Init => ListenMap!Init
  BY EmptyIsEmpty DEF Init, ListenMap!Init
<1>2. IInv /\ [Next]_vars => [ListenMap!Next]_(MapOf(listen_table))
  BY TableStep
<1> QED BY <1>1, <1>2, Invariance, PTL DEF Spec, ListenMapSpec, ListenMap!Spec
==============================================================================

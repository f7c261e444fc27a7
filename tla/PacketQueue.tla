---------------------------- MODULE PacketQueue ----------------------------
(***************************************************************************)
(* The packet queues of a mysocket (packet_queue_t in mysock_impl.h,       *)
(* _mysock_enqueue_buffer() and _mysock_dequeue_buffer() in mysock.c).     *)
(*                                                                         *)
(* Payload bytes are identified by their position in the byte stream they  *)
(* belong to: a node [off, len] holds the len bytes of the stream that     *)
(* start at position off.  memcpy() of a node's data keeps the positions,  *)
(* so a lost, repeated or swapped byte shows as a gap, an overlap or a     *)
(* step back in the positions.  A node of length zero is the end-of-file   *)
(* marker of app_send_queue.                                               *)
(***************************************************************************)
EXTENDS Naturals, Sequences

\* struct packet_queue_node, its data abstracted to stream positions.
Node == [off : Nat, len : Nat]

\* Mutant: the buffer is linked at the head.
EnqueueBuffer_Head(q, node) == << node >> \o q

\* Linking a copied buffer at the tail of the queue, under data_ready_lock.
EnqueueBuffer(q, node) == Append(q, node)

\* Mutant: the length test is missing.
DequeuesPart_Always(q, max_len) == TRUE

\* The head does not fit in max_len bytes and the caller accepts a part of it
\* (remove_partial): only a portion of the packet leaves the queue.
DequeuesPart(q, max_len) == Head(q).len > max_len

\* The whole head packet is unlinked.
DequeueWhole(q) == Tail(q)

\* Mutant: the rest of the packet is not moved to the front of the node.
DequeuePart_NoMove(q, max_len) ==
  [q EXCEPT ![1] = [off |-> q[1].off, len |-> q[1].len - max_len]]

\* The first max_len bytes of the head are copied out and the rest is moved
\* to the front of the node, which stays at the head of the queue.  The code
\* moves it with memcpy() although the regions may overlap; this is what
\* glibc's memcpy(), which is its memmove(), makes of that.
DequeuePart(q, max_len) ==
  [q EXCEPT ![1] = [off |-> q[1].off + max_len, len |-> q[1].len - max_len]]

----------------------------------------------------------------------------
\* The nodes of q hold exactly the stream positions lo .. hi-1, in order.
Contiguous(q, lo, hi) ==
  /\ q = << >> => lo = hi
  /\ q # << >> => /\ q[1].off = lo
                  /\ q[Len(q)].off + q[Len(q)].len = hi
  /\ \A i \in 1 .. Len(q) : q[i].off + q[i].len <= hi
  /\ \A i \in 1 .. Len(q) - 1 : q[i + 1].off = q[i].off + q[i].len
============================================================================

---------------------------- MODULE NetworkPath ----------------------------
(***************************************************************************)
(* The way of a packet from stcp_network_send() of the active side of a    *)
(* connection to the receive thread of the other side (stcp_api.c,         *)
(* network.c, network_io_tcp.c): the simulated unreliability, the TCP      *)
(* connection that is made by the first thread that needs it, and the      *)
(* framing of packets in the TCP byte stream.                              *)
(*                                                                         *)
(*   send   the transport thread of the active side, which sends;          *)
(*   recv   the receive thread of the active side, which also connects:    *)
(*          poll() reports a hang-up on a TCP socket not yet connected;    *)
(*   rx     the receive thread of the other side, which reads.             *)
(*                                                                         *)
(* Packets are numbered in the order of the calls.  A frame is a length of *)
(* two bytes and the packet; a byte of the TCP stream is identified by the *)
(* packet it was written for and its position in the frame.  write() and   *)
(* read() transfer any number of the bytes they are asked for.             *)
(***************************************************************************)
EXTENDS Naturals, Sequences

CONSTANTS
  Sizes,       \* lengths of the packets, at most MAX_IP_PAYLOAD_LEN
  MayRefuse,   \* connect() may fail
  MayBreak,    \* the TCP connection may be lost
  MaxPackets,  \* bound on the packets sent
  MaxWire      \* bound on the bytes in transit

ASSUME PathAssumption ==
  /\ MayRefuse \in BOOLEAN /\ MayBreak \in BOOLEAN
  /\ Sizes \subseteq Nat \ {0} /\ MaxPackets \in Nat /\ MaxWire \in Nat

VARIABLES
  send_pc, frames, left,   \* the send in progress: packets still to be
                           \* written and bytes left of the part at hand
  is_reliable,             \* argument of mysocket()
  copied, copy_buffer,     \* the packet kept for later
  recv_pc,                 \* the receive thread of the active side
  connect_lock,            \* the thread that holds it, or "free"
  connected,
  rx_pc, rx_left, rx_buf,  \* the reader: bytes still needed, bytes read
  wire,                    \* bytes in the TCP connection
  broken                   \* the TCP connection is lost

\* History.
VARIABLES
  sent,      \* length of every packet passed to _network_send()
  got,       \* packets received, 0 for one whose bytes do not belong together
  stored,    \* packets that were kept for later
  connects,  \* successful calls of connect()
  refused    \* connect() has failed

sendVars == << send_pc, frames, left, copied, copy_buffer, sent, stored >>
connVars == << connect_lock, connected, connects, refused >>
rxVars == << rx_pc, rx_left, rx_buf, got >>
vars == << sendVars, recv_pc, connVars, rxVars, wire, broken, is_reliable >>

LengthSize == 2

Init ==
  /\ send_pc = "idle" /\ frames = << >> /\ left = 0
  /\ copied = FALSE /\ copy_buffer = 0 /\ recv_pc = "poll"
  /\ connect_lock = "free" /\ connected = FALSE
  /\ rx_pc = "len" /\ rx_left = LengthSize /\ rx_buf = << >>
  /\ wire = << >> /\ broken = FALSE
  /\ sent = << >> /\ got = << >> /\ stored = {} /\ connects = 0
  /\ refused = FALSE /\ is_reliable \in BOOLEAN

----------------------------------------------------------------------------
(* _network_send(): what becomes of a packet.                              *)

\* The frames to write now, the first of them at once.
Transmit(fs) ==
  /\ frames' = fs
  /\ send_pc' = IF fs = << >> THEN "idle" ELSE "lock"

\* Mutant: every packet that is sent is also kept for later.
SendNow_Kept(n) ==
  /\ Transmit(<< n >>)
  /\ copied' = TRUE /\ copy_buffer' = n /\ UNCHANGED stored

SendNow(n) == Transmit(<< n >>) /\ UNCHANGED << copied, copy_buffer, stored >>
SendNothing == Transmit(<< >>) /\ UNCHANGED << copied, copy_buffer, stored >>
SendTwice(n) ==
  Transmit(<< n, n >>) /\ UNCHANGED << copied, copy_buffer, stored >>

\* The packet is kept and may be sent in place of a later one.
SendLater(n) ==
  /\ Transmit(<< >>)
  /\ copied' = TRUE /\ copy_buffer' = n /\ stored' = stored \cup {n}

\* This packet is forgotten and the kept one is sent, as often as it comes to
\* that: copied is never reset.
SendKept ==
  /\ copied
  /\ Transmit(<< copy_buffer >>)
  /\ UNCHANGED << copied, copy_buffer, stored >>

\* Mutant: is_reliable is not looked at.
Unreliable_Always == TRUE

\* Packets of an unreliable mysocket are dropped, duplicated and reordered.
Unreliable == ~is_reliable

\* stcp_network_send() of a packet of length len, and the choice that
\* _network_send() makes for it.
NetworkSend(len) ==
  /\ send_pc = "idle" /\ Len(sent) < MaxPackets
  /\ sent' = Append(sent, len)
  /\ LET n == Len(sent) + 1 IN
       \/ SendNow(n)
       \/ Unreliable /\ (SendNothing \/ SendTwice(n) \/ SendLater(n) \/ SendKept)
  /\ UNCHANGED << left, recv_pc, connVars, rxVars, wire, broken, is_reliable >>

----------------------------------------------------------------------------
(* _tcp_connect().                                                         *)

\* Mutant: connected is not tested under the lock.
NeedsConnect_Always == TRUE

NeedsConnect == ~connected

\* Mutant: the lock stays with the thread.
Unlocked_Not(t) == t

\* connect_lock after pthread_mutex_unlock().
Unlocked(t) == "free"

\* connect() succeeded.
Connected(t) ==
  /\ connected' = TRUE /\ connects' = connects + 1
  /\ connect_lock' = Unlocked(t)
  /\ UNCHANGED refused

\* connect() failed: -1 is returned and connect_lock is not released.
Refused ==
  /\ MayRefuse /\ refused' = TRUE
  /\ UNCHANGED << connect_lock, connected, connects >>

\* The next frame begins with its length.
StartFrame == send_pc' = "len" /\ left' = LengthSize

\* A frame is done or was given up; a packet sent twice goes on with the
\* second copy whatever became of the first.
NextFrame ==
  /\ frames' = Tail(frames) /\ left' = 0
  /\ send_pc' = IF Len(frames) = 1 THEN "idle" ELSE "lock"

SendLock ==
  /\ send_pc = "lock" /\ connect_lock = "free"
  /\ \/ /\ NeedsConnect
        /\ send_pc' = "connect" /\ connect_lock' = "send"
        /\ UNCHANGED << left, connected, connects, refused >>
     \/ /\ ~NeedsConnect
        /\ StartFrame
        /\ UNCHANGED connVars
  /\ UNCHANGED << frames, copied, copy_buffer, sent, stored, recv_pc, rxVars,
                  wire, broken, is_reliable >>

SendConnect ==
  /\ send_pc = "connect"
  /\ \/ Connected("send") /\ StartFrame /\ UNCHANGED frames
     \/ Refused /\ NextFrame
  /\ UNCHANGED << copied, copy_buffer, sent, stored, recv_pc, rxVars, wire,
                  broken, is_reliable >>

\* The receive thread of the active side connects before it reads; it ends if
\* that fails.
RecvLock ==
  /\ recv_pc = "poll" /\ connect_lock = "free"
  /\ \/ /\ NeedsConnect
        /\ recv_pc' = "connect" /\ connect_lock' = "recv"
        /\ UNCHANGED << connected, connects, refused >>
     \/ /\ ~NeedsConnect
        /\ recv_pc' = "read" /\ UNCHANGED connVars
  /\ UNCHANGED << sendVars, rxVars, wire, broken, is_reliable >>

RecvConnect ==
  /\ recv_pc = "connect"
  /\ \/ Connected("recv") /\ recv_pc' = "read"
     \/ Refused /\ recv_pc' = "end"
  /\ UNCHANGED << sendVars, rxVars, wire, broken, is_reliable >>

----------------------------------------------------------------------------
(* _network_send_packet() and _network_recv_packet().                      *)

\* Mutant: _tcp_io() is content with the first transfer.
Remaining_OneShot(count, k) == 0

\* Mutant: one byte too many is counted as transferred.
Remaining_Less(count, k) == count - k - 1

\* The loop of _tcp_io() goes on until nothing is left.
Remaining(count, k) == count - k

\* The bytes of packet n at the positions lo .. hi of its frame.
Bytes(n, lo, hi) == [i \in 1 .. hi - lo + 1 |-> << n, lo + i - 1 >>]

FrameSize(n) == LengthSize + sent[n]

\* write() of k more bytes of the length or of the packet.
SendWrite ==
  /\ send_pc \in {"len", "body"} /\ ~broken
  /\ LET n == Head(frames)
         end == IF send_pc = "len" THEN LengthSize ELSE FrameSize(n)
     IN \E k \in 1 .. left :
          /\ Len(wire) + k <= MaxWire
          /\ wire' = wire \o Bytes(n, end - left + 1, end - left + k)
          /\ \/ /\ Remaining(left, k) # 0
                /\ left' = Remaining(left, k)
                /\ UNCHANGED << send_pc, frames >>
             \/ /\ Remaining(left, k) = 0 /\ send_pc = "len"
                /\ send_pc' = "body" /\ left' = sent[n]
                /\ UNCHANGED frames
             \/ /\ Remaining(left, k) = 0 /\ send_pc = "body"
                /\ NextFrame
  /\ UNCHANGED << copied, copy_buffer, sent, stored, recv_pc, connVars, rxVars,
                  broken, is_reliable >>

\* write() failed: the rest of the frame is never written.
SendFail ==
  /\ send_pc \in {"len", "body"} /\ broken
  /\ NextFrame
  /\ UNCHANGED << copied, copy_buffer, sent, stored, recv_pc, connVars, rxVars,
                  wire, broken, is_reliable >>

\* The length that the two bytes read for it stand for (ntohs of htons).
LengthRead(buf) == sent[buf[1][1]]

\* What the reader makes of the bytes it has read as one packet.
PacketRead(buf) ==
  LET n == buf[1][1] IN
    IF buf = Bytes(n, LengthSize + 1, FrameSize(n)) THEN n ELSE 0

\* read() of k more bytes of the length or of the packet.
RxRead ==
  /\ rx_pc \in {"len", "body"} /\ wire # << >>
  /\ \E k \in 1 .. rx_left :
       /\ k <= Len(wire)
       /\ wire' = SubSeq(wire, k + 1, Len(wire))
       /\ LET buf == rx_buf \o SubSeq(wire, 1, k)
              rest == Remaining(rx_left, k)
          IN \/ /\ rest # 0
                /\ rx_left' = rest /\ rx_buf' = buf
                /\ UNCHANGED << rx_pc, got >>
             \/ /\ rest = 0 /\ rx_pc = "len"
                /\ rx_pc' = "body" /\ rx_left' = LengthRead(buf)
                /\ rx_buf' = << >>
                /\ UNCHANGED got
             \/ /\ rest = 0 /\ rx_pc = "body"
                /\ got' = Append(got, PacketRead(buf))
                /\ rx_pc' = "len" /\ rx_left' = LengthSize /\ rx_buf' = << >>
  /\ UNCHANGED << sendVars, recv_pc, connVars, broken, is_reliable >>

\* read() returned 0 or an error: the reader ends, a packet half read is lost.
RxEnd ==
  /\ rx_pc \in {"len", "body"} /\ broken /\ wire = << >>
  /\ rx_pc' = "end" /\ rx_buf' = << >> /\ rx_left' = 0
  /\ UNCHANGED << sendVars, recv_pc, connVars, got, wire, broken, is_reliable >>

\* The TCP connection is lost, and with it any suffix of what is in transit.
TcpBreak ==
  /\ MayBreak /\ connected /\ ~broken
  /\ broken' = TRUE
  /\ \E k \in 0 .. Len(wire) : wire' = SubSeq(wire, 1, k)
  /\ UNCHANGED << sendVars, recv_pc, connVars, rxVars, is_reliable >>

----------------------------------------------------------------------------
SendStep == SendLock \/ SendConnect \/ SendWrite \/ SendFail
RecvStep == RecvLock \/ RecvConnect
RxStep == RxRead \/ RxEnd

Next == \/ \E len \in Sizes : NetworkSend(len)
        \/ SendStep \/ RecvStep \/ RxStep \/ TcpBreak

Spec == Init /\ [][Next]_vars

\* The threads are scheduled, and TCP delivers.
FairSpec == Spec /\ WF_vars(SendStep) /\ WF_vars(RecvStep) /\ WF_vars(RxStep)

----------------------------------------------------------------------------
(* Properties.                                                             *)

TypeOK ==
  /\ send_pc \in {"idle", "lock", "connect", "len", "body"}
  /\ recv_pc \in {"poll", "connect", "read", "end"}
  /\ rx_pc \in {"len", "body", "end"}
  /\ connect_lock \in {"free", "send", "recv"}
  /\ is_reliable \in BOOLEAN /\ refused \in BOOLEAN
  /\ copied \in BOOLEAN /\ connected \in BOOLEAN /\ broken \in BOOLEAN
  /\ sent \in Seq(Sizes) /\ frames \in Seq(1 .. Len(sent))
  /\ copy_buffer \in 0 .. Len(sent) /\ stored \subseteq 1 .. Len(sent)
  /\ left \in Nat /\ rx_left \in Nat /\ connects \in Nat
  /\ wire \in Seq((1 .. Len(sent)) \X Nat)
  /\ rx_buf \in Seq((1 .. Len(sent)) \X Nat)
  /\ got \in Seq(0 .. Len(sent))

\* Every packet that is received is one that was sent, whole and with its
\* boundaries: partial reads and writes, a packet sent twice, a stored packet
\* and a connection lost in mid-packet never make the reader take bytes of two
\* packets, or a length for data, as one packet.
FramesIntact == \A i \in DOMAIN got : got[i] # 0

\* On a reliable mysocket packets are received in the order of the calls,
\* none missing in between and none twice, also when the connection is lost.
ReliableOrder == is_reliable => \A i \in DOMAIN got : got[i] = i

\* On an unreliable one a packet that is received after a later one had been
\* kept for later: nothing else reorders.
OnlyStoredIsLate ==
  \A i, j \in DOMAIN got : i < j /\ got[j] < got[i] => got[j] \in stored

\* The two threads that may connect do so once between them.
ConnectedOnce == connects <= 1

\* A reliable mysocket delivers every packet, unless the TCP connection is
\* refused or lost.
SentArrives ==
  \A n \in 1 .. MaxPackets :
    (is_reliable /\ Len(sent) = n) ~> (Len(got) >= n \/ broken \/ refused)

\* stcp_network_send() "returns the number of bytes transferred on success, or
\* -1 on failure" (stcp_api.c): it returns, also when connect() fails.
SendReturns == (send_pc = "lock") ~> (send_pc = "idle")
============================================================================

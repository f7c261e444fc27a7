------------------------------- MODULE TcpSum -------------------------------
(***************************************************************************)
(* The TCP checksum (tcp_sum.c) and its use in stcp_network_send() and     *)
(* stcp_network_recv(): a segment is made by the transport layer of one    *)
(* host, completed and summed, perhaps damaged on the way, and checked by  *)
(* the other host.                                                         *)
(*                                                                         *)
(* A packet is a sequence of bytes.  The sum is taken over words in the    *)
(* byte order of the machine, and the two hosts may differ in it.  A byte  *)
(* is a digit to the base ByteBase, 256 in the program.  An address is one *)
(* word instead of two, and th_seq stands for all the fields that the      *)
(* transport layer fills in.                                               *)
(***************************************************************************)
EXTENDS Naturals, Integers, Sequences

CONSTANTS
  ByteBase,    \* 256
  Protocol,    \* IPPROTO_TCP, a byte
  Ports,       \* port of each host, a pair of bytes
  Addresses,   \* addresses, pairs of bytes that are not 0
  Seqs,        \* values of th_seq
  MaxPayload   \* bound: bytes of payload

ASSUME SumAssumption ==
  /\ ByteBase \in Nat /\ ByteBase > 1
  /\ Protocol \in 1 .. ByteBase - 1
  /\ MaxPayload \in Nat

Byte == 0 .. ByteBase - 1
Pair == Byte \X Byte
W == ByteBase * ByteBase    \* 2^16
Words == 0 .. W - 1

Hosts == {"sender", "receiver"}
Other(h) == CHOOSE g \in Hosts : g # h
Orders == {"big", "little"}

VARIABLES
  order,       \* byte order of each host
  local,       \* address that _network_get_interface_ip() finds on each host
  peer_addr,   \* address by which each host knows its peer
  packet,
  sent,        \* history: the packet as it was sent
  pc           \* "made", "sent", "received" or, if assert() fails, "failed"

vars == << order, local, peer_addr, packet, sent, pc >>

----------------------------------------------------------------------------
(* struct tcphdr: places of the first byte of the fields.                  *)

th_sport == 1
th_dport == 3
th_seq == 5
th_sum == 7
th_urp == 9
HeaderLen == 10

\* Constants are bytes and pairs of them, and the length of a segment fits in
\* the pseudo header; the program's segments are much shorter.
ASSUME SegmentAssumption ==
  /\ Ports \in [Hosts -> Pair] /\ Addresses \subseteq Pair /\ Seqs \subseteq Pair
  /\ HeaderLen + MaxPayload < W

Pairs(bytes, i) == << bytes[i], bytes[i + 1] >>

\* The packet with a field filled in.
Fill(p, i, pair) == [p EXCEPT ![i] = pair[1], ![i + 1] = pair[2]]

\* A pair of bytes read as uint16_t, and a uint16_t stored as a pair.
Word(o, pair) ==
  IF o = "big" THEN pair[1] * ByteBase + pair[2]
               ELSE pair[2] * ByteBase + pair[1]

Store(o, w) ==
  IF o = "big" THEN << w \div ByteBase, w % ByteBase >>
               ELSE << w % ByteBase, w \div ByteBase >>

htons(o, n) == Word(o, << n \div ByteBase, n % ByteBase >>)

----------------------------------------------------------------------------
(* _mysock_tcp_checksum()                                                  *)

Total(words) ==
  LET sum[k \in 0 .. Len(words)] == IF k = 0 THEN 0 ELSE sum[k - 1] + words[k]
  IN sum[Len(words)]

\* Mutant: the last byte is forgotten.
OddByte_None(o, p) == << >>

\* The last byte of a packet of odd length is the first byte of a word.
OddByte(o, p) == << Word(o, << p[Len(p)], 0 >>) >>

PseudoHeader(o, src, dst, len) ==
  << Word(o, src), Word(o, dst), Word(o, << 0, Protocol >>), htons(o, len) >>

\* The words of header and payload, with 0 for th_sum.
Contents(o, p) ==
  [k \in 1 .. Len(p) \div 2 |->
     IF 2 * k - 1 = th_sum THEN 0 ELSE Word(o, Pairs(p, 2 * k - 1))]
  \o IF Len(p) % 2 = 1 THEN OddByte(o, p) ELSE << >>

\* Mutant: the carry of the first addition is not added.
Fold_Once(sum) == ((sum \div W) + (sum % W)) % W

\* The 32-bit sum is folded to 16 bits.
Fold(sum) ==
  LET once == (sum \div W) + (sum % W)
  IN (once + (once \div W)) % W

Complement(sum) == W - 1 - sum

Checksum(o, src, dst, p) ==
  Complement(Fold(Total(PseudoHeader(o, src, dst, Len(p)) \o Contents(o, p))))

\* _network_get_local_addr(): whatever address gethostbyname_r() has for the name
\* of the host, not the one of the interface towards the peer.
NetworkGetLocalAddr(h) == local[h]

\* _mysock_set_checksum() on host h
SetChecksum(h, p) ==
  LET sum == Checksum(order[h], NetworkGetLocalAddr(h), peer_addr[h], p)
  IN Fill(p, th_sum, Store(order[h], sum))

\* _mysock_verify_checksum() on host h
VerifyChecksum(h, p) ==
  Checksum(order[h], peer_addr[h], NetworkGetLocalAddr(h), p)
    = Word(order[h], Pairs(p, th_sum))

----------------------------------------------------------------------------
\* The transport layer has made a segment; it leaves th_sport, th_dport,
\* th_sum and th_urp alone.
Init ==
  /\ order \in [Hosts -> Orders]
  /\ local \in [Hosts -> Addresses] /\ peer_addr \in [Hosts -> Addresses]
  /\ \E seq \in Seqs, unset \in {0, ByteBase - 1}, n \in 0 .. MaxPayload :
       \E payload \in [1 .. n -> Byte] :
         packet = Fill([i \in 1 .. HeaderLen |-> unset], th_seq, seq)
                  \o payload
  /\ sent = << >> /\ pc = "made"

\* stcp_network_send()
Send ==
  /\ pc = "made" /\ pc' = "sent"
  /\ packet' =
       LET p1 == Fill(packet, th_sport, Ports["sender"])
           p2 == Fill(p1, th_dport, Ports["receiver"])
           p3 == Fill(p2, th_sum, << 0, 0 >>)
           p4 == Fill(p3, th_urp, << 0, 0 >>)
       IN SetChecksum("sender", p4)
  /\ sent' = packet'
  /\ UNCHANGED << order, local, peer_addr >>

\* A word of the packet, or its last byte, is damaged.
Damage ==
  /\ pc = "sent" /\ packet = sent
  /\ \/ \E k \in 1 .. Len(packet) \div 2, pair \in Pair :
          /\ pair # Pairs(packet, 2 * k - 1)
          /\ packet' = Fill(packet, 2 * k - 1, pair)
     \/ /\ Len(packet) % 2 = 1
        /\ \E b \in Byte \ {packet[Len(packet)]} :
             packet' = [packet EXCEPT ![Len(packet)] = b]
  /\ UNCHANGED << order, local, peer_addr, sent, pc >>

\* stcp_network_recv() asserts that the checksum is right.
Recv ==
  /\ pc = "sent"
  /\ pc' = IF VerifyChecksum("receiver", packet) THEN "received" ELSE "failed"
  /\ UNCHANGED << order, local, peer_addr, packet, sent >>

Next == Send \/ Damage \/ Recv

Spec == Init /\ [][Next]_vars

----------------------------------------------------------------------------
(* Properties.                                                             *)

\* Each host is known to the other by the address it finds for itself, which a
\* host with several addresses need not be.
SingleHomed == \A h \in Hosts : peer_addr[h] = local[Other(h)]

\* One word of the packet has become all ones from all zeros, or the reverse,
\* outside th_sum: the same number in ones' complement.
SameSum ==
  \E k \in 1 .. Len(packet) \div 2 :
    /\ 2 * k - 1 # th_sum
    /\ {Pairs(packet, 2 * k - 1), Pairs(sent, 2 * k - 1)}
         = {<< 0, 0 >>, << ByteBase - 1, ByteBase - 1 >>}

\* A packet that arrives as it was sent passes the assertion of
\* stcp_network_recv(), whatever its length and the byte orders of the hosts,
\* and one with a damaged word or last byte does not, unless SameSum.
ChecksumDecides ==
  SingleHomed =>
    /\ pc = "failed" => packet # sent
    /\ pc = "received" => packet = sent \/ SameSum

\* Sum of two words with end-around carry.
Add1(a, b) == IF a + b < W THEN a + b ELSE a + b + 1 - W

Sum1(words) ==
  LET sum[k \in 0 .. Len(words)] ==
        IF k = 0 THEN 0 ELSE Add1(sum[k - 1], words[k])
  IN sum[Len(words)]

\* The checksum sent is the one RFC 1071 defines: with end-around carry, all
\* words with th_sum add up to all ones.
SumIsAllOnes ==
  pc # "made" =>
    LET o == order["sender"]
        src == local["sender"]
        dst == peer_addr["sender"]
        words == PseudoHeader(o, src, dst, Len(sent)) \o Contents(o, sent)
                 \o << Word(o, Pairs(sent, th_sum)) >>
    IN Sum1(words) = W - 1
=============================================================================

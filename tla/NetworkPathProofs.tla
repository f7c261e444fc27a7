------------------------- MODULE NetworkPathProofs -------------------------
(***************************************************************************)
(* Proofs about the way of packets over the TCP connection, for packets of *)
(* any sizes and any number, and any splitting by read() and write().      *)
(***************************************************************************)
EXTENDS NetworkPath, Integers, TLAPS

----------------------------------------------------------------------------
(* The inductive invariant.  The bytes that the reader has not yet made    *)
(* into a length or a packet, and after them the byte that the sender will *)
(* write next, are a stream of whole frames from the reader's position on. *)

\* The sender is in the middle of a frame.
InFrame == send_pc \in {"len", "body"}

\* The position in its frame of the next byte to be written.
OutPosition ==
  IF send_pc = "len" THEN LengthSize - left + 1
  ELSE IF send_pc = "body" THEN FrameSize(Head(frames)) - left + 1
  ELSE 1

\* The next byte to be written.
Out == << IF frames # << >> THEN Head(frames) ELSE Len(sent) + 1, OutPosition >>

\* The bytes from the reader's position on.
Stream == rx_buf \o wire

\* ... and the next one that will be written, unless the connection is lost,
\* which ends the stream.
Ahead == IF broken THEN Stream ELSE Append(Stream, Out)

\* The number of bytes after b in its frame.
Rest(b) == FrameSize(b[1]) - b[2]

\* Byte c may stand d places after byte b.
Follows(b, c, d) ==
  /\ d <= Rest(b) => c[1] = b[1] /\ c[2] = b[2] + d
  /\ d = Rest(b) + 1 => c[2] = 1 /\ (is_reliable => c[1] = b[1] + 1)
  /\ c[1] < b[1] => c[1] \in stored

Framed(bytes) ==
  \A i, j \in 1 .. Len(bytes) : i < j => Follows(bytes[i], bytes[j], j - i)

\* Bytes in transit are bytes of frames.
InFrames ==
  \A i \in 1 .. Len(Stream) : Stream[i][2] \in 1 .. FrameSize(Stream[i][1])

\* What _network_send() keeps while it writes.
Sending ==
  /\ send_pc = "idle" <=> frames = << >>
  /\ send_pc = "len" => left \in 1 .. LengthSize
  /\ send_pc = "body" => left \in 1 .. sent[Head(frames)]
  /\ Len(frames) <= 2 /\ (Len(frames) = 2 => frames[1] = frames[2])
  /\ is_reliable => frames = << >> \/ frames = << Len(sent) >>
  /\ copied => copy_buffer \in stored

\* connect_lock and connected.
Connecting ==
  /\ send_pc = "connect" => connect_lock = "send" /\ ~connected
  /\ recv_pc = "connect" => connect_lock = "recv" /\ ~connected
  /\ connects = IF connected THEN 1 ELSE 0
  /\ refused => /\ connect_lock # "free" /\ ~connected
                /\ send_pc # "connect" /\ recv_pc # "connect"
  /\ ~connected => /\ rx_buf = << >> /\ wire = << >> /\ got = << >>
                   /\ rx_pc = "len" /\ ~broken /\ ~InFrame

\* The reader is at the beginning of a length or of a packet, and knows how
\* much of it is still to come.
Reading ==
  /\ rx_pc = "len" => /\ rx_left + Len(rx_buf) = LengthSize
                      /\ Ahead # << >> => Ahead[1][2] = 1
  /\ rx_pc = "body" /\ Ahead # << >> =>
       /\ Ahead[1][1] \in 1 .. Len(sent) /\ Ahead[1][2] = LengthSize + 1
       /\ rx_left + Len(rx_buf) = sent[Ahead[1][1]]

\* Packets received, and those that follow.
Received ==
  /\ FramesIntact /\ ReliableOrder /\ OnlyStoredIsLate
  /\ \A i \in 1 .. Len(got), j \in 1 .. Len(Ahead) :
       Ahead[j][1] < got[i] => Ahead[j][1] \in stored
  /\ is_reliable /\ ~refused /\ Ahead # << >> /\ rx_pc # "end" =>
       Ahead[1][1] = Len(got) + 1

IInv == /\ TypeOK /\ Sending /\ Connecting /\ InFrames /\ Framed(Ahead)
        /\ Reading /\ Received

----------------------------------------------------------------------------
(* The stream of bytes.                                                    *)

Bytewise == Nat \X Nat

LEMMA SeqMono ==
  ASSUME NEW A, NEW B, A \subseteq B, NEW s \in Seq(A)
  PROVE  s \in Seq(B)
  OBVIOUS

LEMMA ConcatPrefix ==
  ASSUME NEW A, NEW b \in Seq(A), NEW w \in Seq(A), NEW v \in Seq(A),
         Len(v) <= Len(w), \A i \in 1 .. Len(v) : v[i] = w[i]
  PROVE  /\ Len(b \o v) <= Len(b \o w) /\ Len(b \o v) \in Nat
         /\ \A i \in 1 .. Len(b \o v) : (b \o v)[i] = (b \o w)[i]
  OBVIOUS

LEMMA FunSeq ==
  ASSUME NEW A, NEW n \in Nat, NEW f \in [1 .. n -> A]
  PROVE  f \in Seq(A) /\ Len(f) = n
  OBVIOUS

LEMMA TailOfTwo ==
  ASSUME NEW A, NEW s \in Seq(A), Len(s) = 2, s[1] = s[2]
  PROVE  Tail(s) = << Head(s) >>
<1> DEFINE t == Tail(s)
<1>1. t \in Seq(A) /\ Len(t) = 1 /\ t[1] = s[2] /\ Head(s) = s[1]
  OBVIOUS
<1> HIDE DEF t
<1>2. t = << t[1] >>
  BY <1>1
<1> QED BY <1>1, <1>2 DEF t

\* Packets have a length, and it is not 0.
LEMMA PacketLength ==
  ASSUME TypeOK, NEW n \in 1 .. Len(sent)
  PROVE  sent[n] \in Nat /\ sent[n] > 0 /\ FrameSize(n) \in Nat
<1>1. sent[n] \in Sizes
  BY DEF TypeOK
<1>2. Sizes \subseteq Nat \ {0}
  BY PathAssumption
<1>3. sent[n] \in Nat \ {0}
  BY <1>1, <1>2
<1> QED BY <1>3 DEF FrameSize, LengthSize

Shape ==
  /\ Stream \in Seq(Bytewise) /\ Len(Stream) = Len(rx_buf) + Len(wire)
  /\ \A i \in 1 .. Len(Stream) :
       Stream[i][1] \in 1 .. Len(sent) /\ Stream[i][2] \in Nat
  /\ Out \in Bytewise /\ Ahead \in Seq(Bytewise)
  /\ broken => Ahead = Stream
  /\ ~broken => Len(Ahead) = Len(Stream) + 1 /\ Ahead[Len(Stream) + 1] = Out
  /\ \A i \in 1 .. Len(Stream) : Ahead[i] = Stream[i]

\* Ahead is the bytes in transit followed by the next one to be written.
LEMMA AheadShape == TypeOK /\ Sending => Shape
<1> SUFFICES ASSUME TypeOK, Sending PROVE Shape
  OBVIOUS
<1> DEFINE S == rx_buf \o wire
           B == (1 .. Len(sent)) \X Nat
<1>1. S \in Seq(B) /\ Len(S) = Len(rx_buf) + Len(wire)
  BY DEF TypeOK
<1>2. \A i \in 1 .. Len(S) : S[i] \in B
  BY <1>1
<1>3. S \in Seq(Bytewise)
  <2>1. B \subseteq Bytewise
    BY DEF TypeOK, Bytewise
  <2> QED BY <1>1, <2>1
<1>4. Out \in Bytewise
  <2>1. frames # << >> => Head(frames) \in 1 .. Len(sent)
    BY DEF TypeOK
  <2>2. frames # << >> => sent[Head(frames)] \in Nat
    BY <2>1, PacketLength
  <2>3. OutPosition \in Nat
    BY <2>1, <2>2 DEF OutPosition, Sending, LengthSize, FrameSize
  <2>4. Len(sent) \in Nat
    BY DEF TypeOK
  <2> QED BY <2>1, <2>3, <2>4 DEF Out, Bytewise
<1> HIDE DEF S
<1>5. /\ Ahead \in Seq(Bytewise)
      /\ broken => Ahead = S
      /\ ~broken => Len(Ahead) = Len(S) + 1 /\ Ahead[Len(S) + 1] = Out
      /\ \A i \in 1 .. Len(S) : Ahead[i] = S[i]
  BY <1>3, <1>4 DEF Ahead, S, Stream, TypeOK
<1> QED BY <1>1, <1>2, <1>3, <1>4, <1>5 DEF S, Shape, Stream

\* Any part of a framed stream is framed.
LEMMA FramedPart ==
  ASSUME NEW T \in Seq(Bytewise), NEW U \in Seq(Bytewise), NEW o \in Nat,
         Framed(T), Len(U) + o <= Len(T), \A i \in 1 .. Len(U) : U[i] = T[i + o]
  PROVE  Framed(U)
<1> SUFFICES ASSUME NEW i \in 1 .. Len(U), NEW j \in 1 .. Len(U), i < j
             PROVE  Follows(U[i], U[j], j - i)
  BY DEF Framed
<1>1. /\ i + o \in 1 .. Len(T) /\ j + o \in 1 .. Len(T) /\ i + o < j + o
      /\ (j + o) - (i + o) = j - i
  OBVIOUS
<1>2. Follows(T[i + o], T[j + o], j - i)
  BY <1>1 DEF Framed
<1> QED BY <1>2

\* A byte stands before the first byte of another frame only at the end of its
\* own.
LEMMA BeforeBoundary ==
  ASSUME IInv, ~broken, Out[2] = 1, NEW i \in 1 .. Len(Stream)
  PROVE  Len(Stream) + 1 - i > Rest(Stream[i])
<1> DEFINE d == Len(Stream) + 1 - i
<1>1. /\ Stream \in Seq(Bytewise) /\ Len(Ahead) = Len(Stream) + 1
      /\ Ahead[Len(Stream) + 1] = Out /\ Ahead[i] = Stream[i]
      /\ Stream[i][1] \in 1 .. Len(sent)
  BY AheadShape DEF IInv, Shape
<1>2. Stream[i][2] \in Nat /\ Stream[i][2] >= 1
  BY DEF IInv, InFrames
<1>3. Rest(Stream[i]) \in Int
  BY <1>1, <1>2, PacketLength DEF Rest, IInv
<1>4. Follows(Stream[i], Out, d)
  <2>1. /\ i \in 1 .. Len(Ahead) /\ Len(Stream) + 1 \in 1 .. Len(Ahead)
        /\ i < Len(Stream) + 1
    BY <1>1
  <2>2. Framed(Ahead)
    BY DEF IInv
  <2> QED BY <1>1, <2>1, <2>2 DEF Framed
<1>5. d \in Nat /\ d >= 1
  BY <1>1
<1> QED BY <1>2, <1>3, <1>4, <1>5 DEF Follows

\* The sender goes from one packet to another between frames.
LEMMA Boundary ==
  ASSUME IInv, TypeOK', Sending', Out[2] = 1, Out'[2] = 1,
         UNCHANGED << rxVars, wire, broken, is_reliable >>,
         Len(sent) <= Len(sent'), \A n \in 1 .. Len(sent) : sent'[n] = sent[n],
         stored \subseteq stored', refused => refused',
         Out'[1] > Len(sent) \/ Out'[1] \in stored' \/ Out'[1] = Out[1],
         is_reliable => Out'[1] = Out[1] \/ (Stream = << >> /\ refused')
  PROVE  InFrames' /\ Framed(Ahead)' /\ Reading' /\ Received'
<1> USE DEF rxVars
<1>1. Shape
  BY AheadShape DEF IInv
<1>2. Shape'
  BY AheadShape, PTL
<1>3. Stream' = Stream
  BY DEF Stream
<1>4. \A n \in 1 .. Len(sent) : FrameSize(n)' = FrameSize(n)
  BY DEF FrameSize
<1>0. /\ Len(sent) \in Nat /\ Len(sent') \in Nat
      /\ \A i \in 1 .. Len(got) : got[i] \in 0 .. Len(sent)
  <2>1. sent \in Seq(Sizes) /\ sent' \in Seq(Sizes)
    BY DEF IInv, TypeOK
  <2>2. got \in Seq(0 .. Len(sent))
    BY DEF IInv, TypeOK
  <2> QED BY <2>1, <2>2
<1>5. InFrames'
  BY <1>1, <1>3, <1>4 DEF InFrames, Stream, Shape, IInv
<1>6. Framed(Ahead)'
  <2> SUFFICES ASSUME NEW i \in 1 .. Len(Ahead'), NEW j \in 1 .. Len(Ahead'),
                      i < j
               PROVE  Follows(Ahead[i], Ahead[j], j - i)'
    BY DEF Framed
  <2>1. /\ i \in 1 .. Len(Stream) /\ Ahead[i] = Stream[i]
        /\ Ahead'[i] = Stream[i] /\ Rest(Stream[i])' = Rest(Stream[i])
    BY <1>1, <1>2, <1>3, <1>4 DEF Shape, Rest
  <2>2. CASE j \in 1 .. Len(Stream)
    <3>1. Ahead[j] = Stream[j] /\ Ahead'[j] = Stream[j]
      BY <1>1, <1>2, <1>3, <2>2 DEF Shape
    <3>2. Follows(Stream[i], Stream[j], j - i)
      <4>1. i \in 1 .. Len(Ahead) /\ j \in 1 .. Len(Ahead)
        BY <1>1, <2>1, <2>2 DEF Shape
      <4> QED BY <2>1, <3>1, <4>1 DEF IInv, Framed
    <3> QED BY <1>3, <2>1, <3>1, <3>2 DEF Follows
  <2>3. CASE j \notin 1 .. Len(Stream)
    <3>1. /\ ~broken /\ j = Len(Stream) + 1 /\ Ahead'[j] = Out'
          /\ Ahead[j] = Out
      BY <1>1, <1>2, <1>3, <2>3 DEF Shape
    <3>2. j - i > Rest(Stream[i])
      BY <2>1, <3>1, BeforeBoundary
    <3>3. Follows(Stream[i], Out, j - i)
      <4>1. i \in 1 .. Len(Ahead) /\ j \in 1 .. Len(Ahead)
        BY <1>1, <2>1, <3>1 DEF Shape
      <4> QED BY <2>1, <3>1, <4>1 DEF IInv, Framed
    <3>4. Stream[i][1] \in 1 .. Len(sent) /\ Rest(Stream[i]) \in Int
      BY <1>1, <2>1, PacketLength DEF Shape, Rest, IInv
    <3>5. j - i = Rest(Stream[i]) + 1 /\ is_reliable
            => Out'[1] = Stream[i][1] + 1
      BY <2>1, <3>3 DEF Follows
    <3>6. Out'[1] < Stream[i][1] => Out'[1] \in stored'
      <4>1. Out[1] \in Nat /\ Out'[1] \in Nat
        BY <1>1, <1>2 DEF Shape, Bytewise
      <4> QED BY <1>0, <3>3, <3>4, <4>1 DEF Follows
    <3>7. j - i \in Int /\ ~(j - i <= Rest(Stream[i]))
      BY <3>1, <3>2, <3>4
    <3> QED BY <1>3, <2>1, <3>1, <3>5, <3>6, <3>7 DEF Follows
  <2> QED BY <2>2, <2>3
<1>7. ASSUME Ahead' # << >>
      PROVE  /\ Ahead # << >> /\ Ahead'[1][2] = Ahead[1][2]
             /\ Ahead'[1][1] = Ahead[1][1] \/ Ahead[1][2] = 1
             /\ is_reliable => Ahead'[1][1] = Ahead[1][1] \/ refused'
  <2>1. CASE Stream = << >>
    BY <1>1, <1>2, <1>3, <1>7, <2>1 DEF Shape
  <2>2. CASE Stream # << >>
    <3>1. 1 \in 1 .. Len(Stream)
      BY <1>1, <2>2 DEF Shape
    <3> QED BY <1>1, <1>2, <1>3, <3>1 DEF Shape
  <2> QED BY <2>1, <2>2
<1>8. Reading'
  <2>1. rx_pc = "len" => /\ rx_left + Len(rx_buf) = LengthSize
                         /\ Ahead # << >> => Ahead[1][2] = 1
    BY DEF IInv, Reading
  <2>2. rx_pc = "body" /\ Ahead # << >> =>
          /\ Ahead[1][1] \in 1 .. Len(sent) /\ Ahead[1][2] = LengthSize + 1
          /\ rx_left + Len(rx_buf) = sent[Ahead[1][1]]
    BY DEF IInv, Reading
  <2> QED BY <1>0, <1>7, <2>1, <2>2 DEF Reading, LengthSize
<1>9. Received'
  <2>1. ASSUME NEW i \in 1 .. Len(got), NEW j \in 1 .. Len(Ahead'),
               Ahead'[j][1] < got[i]
        PROVE  Ahead'[j][1] \in stored'
    <3>1. CASE j \in 1 .. Len(Stream)
      BY <1>1, <1>2, <1>3, <2>1, <3>1 DEF Shape, IInv, Received
    <3>2. CASE j \notin 1 .. Len(Stream)
      <4>1. /\ ~broken /\ Ahead'[j] = Out' /\ j \in 1 .. Len(Ahead)
            /\ Ahead[j] = Out
        BY <1>1, <1>2, <1>3, <3>2 DEF Shape
      <4>2. Out[1] < got[i] => Out[1] \in stored
        BY <4>1 DEF IInv, Received
      <4>3. Out'[1] \in Nat
        BY <1>2 DEF Shape, Bytewise
      <4> QED BY <1>0, <2>1, <4>1, <4>2, <4>3
    <3> QED BY <3>1, <3>2
  <2>2. is_reliable /\ ~refused' /\ Ahead' # << >> /\ rx_pc # "end" =>
          Ahead'[1][1] = Len(got) + 1
    BY <1>7 DEF IInv, Received
  <2>3. FramesIntact' /\ ReliableOrder'
    BY DEF IInv, Received, FramesIntact, ReliableOrder
  <2>4. OnlyStoredIsLate'
    BY DEF IInv, Received, OnlyStoredIsLate
  <2> QED BY <2>1, <2>2, <2>3, <2>4 DEF Received
<1> QED BY <1>5, <1>6, <1>8, <1>9

----------------------------------------------------------------------------
(* The invariant holds at the start and is kept by every action.           *)

LEMMA InitStep == Init => IInv
<1> SUFFICES ASSUME Init PROVE IInv
  OBVIOUS
<1>1. TypeOK
  <2>1. LengthSize \in Nat /\ Len(sent) = 0
    BY DEF Init, LengthSize
  <2>2. /\ is_reliable \in BOOLEAN /\ refused \in BOOLEAN
        /\ copied \in BOOLEAN /\ connected \in BOOLEAN /\ broken \in BOOLEAN
    BY DEF Init
  <2>3. /\ sent \in Seq(Sizes) /\ frames \in Seq(1 .. Len(sent))
        /\ wire \in Seq((1 .. Len(sent)) \X Nat)
        /\ rx_buf \in Seq((1 .. Len(sent)) \X Nat)
        /\ got \in Seq(0 .. Len(sent))
    BY DEF Init
  <2> QED BY <2>1, <2>2, <2>3 DEF Init, TypeOK
<1>2. Sending /\ Connecting
  BY DEF Init, Sending, Connecting, InFrame
<1>3. Stream = << >> /\ Out = << 1, 1 >> /\ Ahead = << << 1, 1 >> >>
  BY DEF Init, Stream, Out, OutPosition, Ahead
<1>4. InFrames /\ Framed(Ahead)
  BY <1>3 DEF InFrames, Framed
<1>5. Reading
  BY <1>3 DEF Init, Reading, LengthSize
<1>6. Received
  BY <1>3 DEF Init, Received, FramesIntact, ReliableOrder, OnlyStoredIsLate
<1> QED BY <1>1, <1>2, <1>4, <1>5, <1>6 DEF IInv

\* _network_send() chooses what becomes of a packet between two frames.
LEMMA NetworkSendStep ==
  ASSUME IInv, NEW len \in Sizes, NetworkSend(len)
  PROVE  IInv'
<1> DEFINE n == Len(sent) + 1
<1>1. /\ TypeOK /\ Sending /\ Connecting
      /\ send_pc = "idle" /\ frames = << >> /\ sent' = Append(sent, len)
      /\ UNCHANGED << left, recv_pc, connVars, rxVars, wire, broken, is_reliable >>
  BY DEF IInv, Sending, NetworkSend
<1>2. /\ sent \in Seq(Sizes) /\ sent' \in Seq(Sizes) /\ Len(sent) \in Nat
      /\ Len(sent') = n /\ \A i \in 1 .. Len(sent) : sent'[i] = sent[i]
  BY <1>1 DEF TypeOK
<1>3. \/ /\ frames' = << n >> \/ frames' = << n, n >>
         /\ send_pc' = "lock"
         /\ is_reliable => frames' = << n >>
         /\ UNCHANGED << copied, copy_buffer, stored >>
      \/ /\ frames' = << >> /\ send_pc' = "idle" /\ ~is_reliable
         /\ UNCHANGED << copied, copy_buffer, stored >>
      \/ /\ frames' = << >> /\ send_pc' = "idle" /\ ~is_reliable
         /\ copied' = TRUE /\ copy_buffer' = n /\ stored' = stored \cup {n}
      \/ /\ frames' = << copy_buffer >> /\ send_pc' = "lock" /\ ~is_reliable
         /\ copied /\ UNCHANGED << copied, copy_buffer, stored >>
  BY DEF NetworkSend, SendNow, SendNothing, SendTwice, SendLater, SendKept,
         Transmit, Unreliable
<1>a. n = Len(sent) + 1 /\ n \in Nat /\ n > 0
  BY <1>2
<1> HIDE DEF n
<1>4. TypeOK'
  <2>1. /\ stored \subseteq 1 .. Len(sent) /\ copy_buffer \in 0 .. Len(sent)
        /\ copied => copy_buffer \in stored
    BY <1>1 DEF TypeOK, Sending
  <2>a. frames' \in Seq(1 .. n)
    <3>0. n \in 1 .. n
      BY <1>a
    <3>1. CASE frames' = << n >>
      BY <3>0, <3>1
    <3>4. CASE frames' = << n, n >>
      BY <3>0, <3>4
    <3>2. CASE frames' = << >>
      BY <3>2
    <3>3. CASE frames' = << copy_buffer >> /\ copied
      <4>1. copy_buffer \in 1 .. n
        BY <1>2, <1>a, <2>1, <3>3
      <4> QED BY <3>3, <4>1
    <3> QED BY <1>3, <3>1, <3>2, <3>3, <3>4
  <2>2. /\ copied' \in BOOLEAN
        /\ send_pc' \in {"idle", "lock", "connect", "len", "body"}
    BY <1>1, <1>3 DEF TypeOK
  <2>b. copy_buffer' \in 0 .. n /\ stored' \subseteq 1 .. n
    <3>1. /\ stored' = stored \/ stored' = stored \cup {n}
          /\ copy_buffer' = copy_buffer \/ copy_buffer' = n
      BY <1>3
    <3>2. copy_buffer' \in 0 .. n
      BY <1>2, <1>a, <2>1, <3>1
    <3>3. ASSUME NEW i \in stored' PROVE i \in 1 .. n
      <4>1. CASE i \in stored
        BY <1>2, <1>a, <2>1, <4>1
      <4>2. CASE i = n
        BY <1>a, <4>2
      <4> QED BY <3>1, <3>3, <4>1, <4>2
    <3> QED BY <3>2, <3>3
  <2>3. /\ wire' \in Seq((1 .. n) \X Nat) /\ rx_buf' \in Seq((1 .. n) \X Nat)
    <3>1. (1 .. Len(sent)) \X Nat \subseteq (1 .. n) \X Nat
      BY <1>2, <1>a
    <3>2. /\ wire \in Seq((1 .. Len(sent)) \X Nat)
          /\ rx_buf \in Seq((1 .. Len(sent)) \X Nat)
      BY <1>1 DEF TypeOK
    <3> QED BY <1>1, <3>1, <3>2 DEF rxVars
  <2>4. got' \in Seq(0 .. n)
    <3>1. 0 .. Len(sent) \subseteq 0 .. n
      BY <1>2, <1>a
    <3>2. got \in Seq(0 .. Len(sent))
      BY <1>1 DEF TypeOK
    <3>3. got' = got
      BY <1>1 DEF rxVars
    <3> QED BY <3>1, <3>2, <3>3, SeqMono
  <2> QED BY <1>1, <1>2, <1>a, <2>a, <2>2, <2>b, <2>3, <2>4 DEF TypeOK, rxVars, connVars
<1>5. Sending'
  <2>1. copied => copy_buffer \in stored
    BY <1>1 DEF Sending
  <2>2. copied' => copy_buffer' \in stored'
    BY <1>3, <2>1
  <2>3. /\ send_pc' = "idle" <=> frames' = << >>
        /\ send_pc' # "len" /\ send_pc' # "body"
        /\ Len(frames') <= 2 /\ (Len(frames') = 2 => frames'[1] = frames'[2])
    <3>1. CASE frames' = << n >> /\ send_pc' = "lock"
      BY <3>1
    <3>2. CASE frames' = << n, n >> /\ send_pc' = "lock"
      BY <3>2
    <3>3. CASE frames' = << >> /\ send_pc' = "idle"
      BY <3>3
    <3>4. CASE frames' = << copy_buffer >> /\ send_pc' = "lock"
      BY <3>4
    <3> QED BY <1>3, <3>1, <3>2, <3>3, <3>4
  <2>4. is_reliable => frames' = << Len(sent') >>
    BY <1>2, <1>a, <1>3
  <2> QED BY <1>1, <2>2, <2>3, <2>4 DEF Sending
<1>6. Connecting'
  BY <1>1, <1>3 DEF Connecting, InFrame, rxVars, connVars
<1>7. Out = << n, 1 >>
  BY <1>1, <1>a DEF Out, OutPosition
<1>8. /\ Out'[2] = 1 /\ (is_reliable => Out'[1] = n)
      /\ Out'[1] > Len(sent) \/ Out'[1] \in stored'
  <2>1. Len(sent) \in Nat /\ (copied => copy_buffer \in stored)
    BY <1>1, <1>2 DEF Sending
  <2>2. /\ OutPosition' = 1
        /\ Out'[1] = IF frames' # << >> THEN Head(frames') ELSE n + 1
        /\ Out'[2] = OutPosition'
    BY <1>2, <1>3 DEF Out, OutPosition
  <2>3. CASE frames' = << n >> \/ frames' = << n, n >>
    <3>1. frames' # << >> /\ Head(frames') = n
      BY <2>3
    <3> QED BY <1>a, <2>1, <2>2, <3>1
  <2>4. CASE frames' = << >> /\ ~is_reliable
    BY <1>a, <2>1, <2>2, <2>4
  <2>5. CASE /\ frames' = << copy_buffer >> /\ ~is_reliable
             /\ copied /\ stored' = stored
    <3>1. frames' # << >> /\ Head(frames') = copy_buffer
      BY <2>5
    <3> QED BY <2>1, <2>2, <2>5, <3>1
  <2> QED BY <1>3, <2>3, <2>4, <2>5
<1>9. InFrames' /\ Framed(Ahead)' /\ Reading' /\ Received'
  <2>1. stored \subseteq stored' /\ (refused => refused')
    BY <1>1, <1>3 DEF connVars
  <2>2. Out[2] = 1 /\ (is_reliable => Out'[1] = Out[1])
    BY <1>7, <1>8
  <2>3. Len(sent) <= Len(sent')
    BY <1>2, <1>a
  <2>4. UNCHANGED << rxVars, wire, broken, is_reliable >>
    BY <1>1
  <2>5. \A i \in 1 .. Len(sent) : sent'[i] = sent[i]
    BY <1>2
  <2>6. Out'[1] > Len(sent) \/ Out'[1] \in stored' \/ Out'[1] = Out[1]
    BY <1>8
  <2>7. is_reliable => Out'[1] = Out[1] \/ (Stream = << >> /\ refused')
    BY <2>2
  <2>8. Out[2] = 1 /\ Out'[2] = 1
    BY <1>8, <2>2
  <2> QED BY <1>4, <1>5, <2>1, <2>3, <2>4, <2>5, <2>6, <2>7, <2>8, Boundary
<1> QED BY <1>4, <1>5, <1>6, <1>9 DEF IInv

\* A step that touches neither what is sent nor what is in transit.
LEMMA Unmoved ==
  ASSUME IInv, UNCHANGED << sendVars, rxVars, wire, broken, is_reliable >>,
         refused => refused'
  PROVE  /\ Sending' /\ InFrames' /\ Framed(Ahead)' /\ Reading' /\ Received'
         /\ UNCHANGED << send_pc, frames, left, copied, copy_buffer, sent,
                         stored, rx_pc, rx_left, rx_buf, got >>
<1> USE DEF sendVars, rxVars
<1>1. Stream' = Stream /\ Ahead' = Ahead
  BY DEF Stream, Ahead, Out, OutPosition, FrameSize
<1>2. Sending'
  BY DEF IInv, Sending
<1>3. InFrames' /\ Framed(Ahead)'
  BY <1>1 DEF IInv, InFrames, FrameSize, Framed, Follows, Rest
<1>4. Reading'
  BY <1>1 DEF IInv, Reading
<1>5. Received'
  BY <1>1 DEF IInv, Received, FramesIntact, ReliableOrder, OnlyStoredIsLate
<1> QED BY <1>2, <1>3, <1>4, <1>5

LEMMA RecvLockStep == ASSUME IInv, RecvLock PROVE IInv'
<1>1. /\ Sending' /\ InFrames' /\ Framed(Ahead)' /\ Reading' /\ Received'
      /\ UNCHANGED << send_pc, frames, left, copied, copy_buffer, sent,
                      stored, rx_pc, rx_left, rx_buf, got >>
  BY Unmoved DEF RecvLock, connVars
<1>2. TypeOK'
  BY <1>1 DEF RecvLock, IInv, TypeOK, connVars
<1>3. Connecting'
  BY <1>1 DEF RecvLock, NeedsConnect, IInv, Connecting, InFrame, connVars
<1> QED BY <1>1, <1>2, <1>3 DEF IInv

LEMMA RecvConnectStep == ASSUME IInv, RecvConnect PROVE IInv'
<1>1. /\ Sending' /\ InFrames' /\ Framed(Ahead)' /\ Reading' /\ Received'
      /\ UNCHANGED << send_pc, frames, left, copied, copy_buffer, sent,
                      stored, rx_pc, rx_left, rx_buf, got >>
  BY Unmoved DEF RecvConnect, Connected, Refused
<1>2. TypeOK'
  <2>1. TypeOK /\ UNCHANGED << wire, broken, is_reliable >>
    BY DEF RecvConnect, IInv
  <2>2. connects' \in Nat
    BY <2>1 DEF TypeOK, RecvConnect, Connected, Refused
  <2>3. /\ connected' \in BOOLEAN /\ refused' \in BOOLEAN
        /\ recv_pc' \in {"poll", "connect", "read", "end"}
        /\ connect_lock' \in {"free", "send", "recv"}
    BY <2>1 DEF TypeOK, RecvConnect, Connected, Refused, Unlocked
  <2> QED BY <1>1, <2>1, <2>2, <2>3 DEF TypeOK
<1>3. Connecting'
  BY <1>1 DEF RecvConnect, Connected, Refused, Unlocked, IInv, Connecting,
              InFrame
<1> QED BY <1>1, <1>2, <1>3 DEF IInv

\* What is left after a frame: nothing, or the second copy of the packet.
LEMMA NextFrameShape ==
  ASSUME TypeOK, Sending, frames # << >>, NextFrame
  PROVE  /\ left' = 0 /\ frames' \in Seq(1 .. Len(sent))
         /\ \/ frames' = << >> /\ send_pc' = "idle"
            \/ frames' = << Head(frames) >> /\ send_pc' = "lock" /\ ~is_reliable
<1>1. /\ frames \in Seq(1 .. Len(sent)) /\ (Len(frames) = 1 \/ Len(frames) = 2)
      /\ Len(frames) = 2 => frames[1] = frames[2]
      /\ is_reliable => frames = << Len(sent) >>
  <2>1. frames \in Seq(1 .. Len(sent))
    BY DEF TypeOK
  <2>2. /\ Len(frames) <= 2 /\ (Len(frames) = 2 => frames[1] = frames[2])
        /\ is_reliable => frames = << Len(sent) >>
    BY DEF Sending
  <2>3. Len(frames) \in Nat /\ Len(frames) # 0
    BY <2>1
  <2>a. Len(frames) <= 2
    BY DEF Sending
  <2>b. \A n \in Nat : n # 0 /\ n <= 2 => n = 1 \/ n = 2
    OBVIOUS
  <2>4. Len(frames) = 1 \/ Len(frames) = 2
    BY <2>3, <2>a, <2>b
  <2> QED BY <2>1, <2>2, <2>4
<1>2. CASE Len(frames) = 1
  BY <1>1, <1>2 DEF NextFrame
<1>3. CASE Len(frames) = 2
  <2>1. Tail(frames) = << Head(frames) >>
    BY <1>1, <1>3, TailOfTwo
  <2>2. ~is_reliable
    BY <1>1, <1>3
  <2>3. Tail(frames) \in Seq(1 .. Len(sent))
    BY <1>1, <1>3
  <2> QED BY <1>3, <2>1, <2>2, <2>3 DEF NextFrame
<1> QED BY <1>1, <1>2, <1>3

\* The invariant on the send in progress after such a step.
LEMMA NextFrameSending ==
  ASSUME TypeOK, Sending, frames # << >>, NextFrame,
         UNCHANGED << copied, copy_buffer, sent, stored, is_reliable >>
  PROVE  Sending'
<1>1. \/ frames' = << >> /\ send_pc' = "idle"
      \/ frames' = << Head(frames) >> /\ send_pc' = "lock" /\ ~is_reliable
  BY NextFrameShape
<1>2. copied' => copy_buffer' \in stored'
  BY DEF Sending
<1>3. CASE frames' = << >> /\ send_pc' = "idle"
  BY <1>2, <1>3 DEF Sending
<1>4. CASE frames' = << Head(frames) >> /\ send_pc' = "lock" /\ ~is_reliable
  BY <1>2, <1>4 DEF Sending
<1> QED BY <1>1, <1>3, <1>4

LEMMA SendLockStep == ASSUME IInv, SendLock PROVE IInv'
<1>1. /\ TypeOK /\ Sending /\ Connecting
      /\ send_pc = "lock" /\ connect_lock = "free"
      /\ UNCHANGED << frames, copied, copy_buffer, sent, stored, recv_pc, rxVars,
                      wire, broken, is_reliable >>
      /\ UNCHANGED << connected, connects, refused, rx_pc, rx_left, rx_buf, got >>
  BY DEF IInv, SendLock, connVars, rxVars
<1>2. \/ ~connected /\ send_pc' = "connect" /\ connect_lock' = "send" /\ left' = left
      \/ connected /\ send_pc' = "len" /\ connect_lock' = "free" /\ left' = LengthSize
  BY <1>1 DEF SendLock, NeedsConnect, StartFrame, connVars
<1>3. TypeOK'
  <2>1. left' \in Nat
    BY <1>1, <1>2 DEF TypeOK, LengthSize
  <2>2. /\ send_pc' \in {"idle", "lock", "connect", "len", "body"}
        /\ connect_lock' \in {"free", "send", "recv"}
    BY <1>2
  <2> QED BY <1>1, <2>1, <2>2 DEF TypeOK
<1>4. Sending'
  <2>1. left' = LengthSize => left' \in 1 .. LengthSize
    BY DEF LengthSize
  <2> QED BY <1>1, <1>2, <2>1 DEF Sending
<1>5. Connecting'
  BY <1>1, <1>2 DEF Connecting, InFrame
<1>6. Out[2] = 1 /\ Out'[2] = 1 /\ Out'[1] = Out[1]
  <2>1. OutPosition = 1 /\ OutPosition' = 1
    BY <1>1, <1>2 DEF OutPosition, LengthSize
  <2> QED BY <1>1, <2>1 DEF Out
<1>7. InFrames' /\ Framed(Ahead)' /\ Reading' /\ Received'
  <2>1. Len(sent) <= Len(sent')
    BY <1>1 DEF TypeOK
  <2> QED BY <1>1, <1>3, <1>4, <1>6, <2>1, Boundary
<1> QED BY <1>3, <1>4, <1>5, <1>7 DEF IInv

LEMMA SendConnectStep == ASSUME IInv, SendConnect PROVE IInv'
<1>1. /\ TypeOK /\ Sending /\ Connecting
      /\ send_pc = "connect" /\ connect_lock = "send" /\ ~connected
      /\ frames # << >>
      /\ UNCHANGED << copied, copy_buffer, sent, stored, recv_pc, rxVars, wire,
                      broken, is_reliable >>
      /\ UNCHANGED << rx_pc, rx_left, rx_buf, got >>
  BY DEF IInv, SendConnect, rxVars, Connecting, Sending
<1>a. connects = 0
  BY <1>1 DEF Connecting
<1>2. \/ /\ connected' = TRUE /\ connects' = connects + 1
         /\ connect_lock' = "free" /\ refused' = refused
         /\ send_pc' = "len" /\ left' = LengthSize /\ frames' = frames
      \/ /\ refused' = TRUE
         /\ UNCHANGED << connect_lock, connected, connects >> /\ NextFrame
  BY <1>1 DEF SendConnect, Connected, Refused, StartFrame, Unlocked
<1>3. NextFrame =>
        /\ left' = 0 /\ frames' \in Seq(1 .. Len(sent))
        /\ \/ frames' = << >> /\ send_pc' = "idle"
           \/ frames' = << Head(frames) >> /\ send_pc' = "lock" /\ ~is_reliable
  BY <1>1, NextFrameShape
<1>4. TypeOK'
  <2>1. left' \in Nat /\ connects' \in Nat
    BY <1>a, <1>2, <1>3 DEF LengthSize
  <2>2. /\ send_pc' \in {"idle", "lock", "connect", "len", "body"}
        /\ connect_lock' \in {"free", "send", "recv"}
        /\ connected' \in BOOLEAN /\ refused' \in BOOLEAN
    BY <1>1, <1>2, <1>3 DEF TypeOK
  <2>3. frames' \in Seq(1 .. Len(sent))
    BY <1>1, <1>2, <1>3 DEF TypeOK
  <2> QED BY <1>1, <2>1, <2>2, <2>3 DEF TypeOK
<1>5. Sending'
  <2>1. CASE NextFrame
    BY <1>1, <2>1, NextFrameSending
  <2>2. CASE send_pc' = "len" /\ left' = LengthSize /\ frames' = frames
    <3>1. left' \in 1 .. LengthSize
      BY <2>2 DEF LengthSize
    <3> QED BY <1>1, <2>2, <3>1 DEF Sending
  <2> QED BY <1>2, <2>1, <2>2
<1>6. Connecting'
  <2>1. send_pc' # "connect" /\ recv_pc # "connect"
    BY <1>1, <1>2, <1>3 DEF Connecting
  <2>2. connected' => connects' = 1
    <3>1. connects' = connects + 1 => connects' = 1
      BY <1>a
    <3> QED BY <1>1, <1>2, <3>1
  <2>3. ~connected' => /\ refused' /\ connects' = 0 /\ connect_lock' = "send"
                       /\ send_pc' # "len" /\ send_pc' # "body"
    BY <1>1, <1>2, <1>3 DEF Connecting
  <2>4. connected' => ~refused'
    BY <1>1, <1>2 DEF Connecting
  <2> QED BY <1>1, <1>2, <2>1, <2>2, <2>3, <2>4 DEF Connecting, InFrame
<1>7. /\ Out[2] = 1 /\ Out'[2] = 1
      /\ Out'[1] = Out[1] \/ (refused' /\ Out'[1] = Len(sent) + 1)
  <2>1. OutPosition = 1 /\ OutPosition' = 1
    BY <1>1, <1>2, <1>3 DEF OutPosition, LengthSize
  <2>2. Out[1] = Head(frames)
    BY <1>1 DEF Out
  <2>3. CASE frames' = frames
    BY <1>1, <2>1, <2>2, <2>3 DEF Out
  <2>4. CASE frames' = << >> /\ refused'
    BY <1>1, <2>1, <2>4 DEF Out
  <2>5. CASE frames' = << Head(frames) >>
    <3>1. frames' # << >> /\ Head(frames') = Head(frames)
      BY <2>5
    <3> QED BY <2>1, <2>2, <3>1 DEF Out
  <2> QED BY <1>2, <1>3, <2>3, <2>4, <2>5
<1>8. InFrames' /\ Framed(Ahead)' /\ Reading' /\ Received'
  <2>1. Len(sent) <= Len(sent') /\ Len(sent) + 1 > Len(sent)
    BY <1>1 DEF TypeOK
  <2>2. Stream = << >> /\ (refused => refused')
    BY <1>1, <1>2 DEF Connecting, Stream
  <2> QED BY <1>1, <1>4, <1>5, <1>7, <2>1, <2>2, Boundary
<1> QED BY <1>4, <1>5, <1>6, <1>8 DEF IInv

\* write() fails: what is in transit is all that will ever arrive.
LEMMA SendFailStep == ASSUME IInv, SendFail PROVE IInv'
<1>1. /\ TypeOK /\ Sending /\ Connecting /\ broken /\ NextFrame
      /\ frames # << >> /\ send_pc \in {"len", "body"}
      /\ UNCHANGED << copied, copy_buffer, sent, stored, recv_pc, connVars, rxVars,
                      wire, broken, is_reliable >>
      /\ UNCHANGED << connect_lock, connected, connects, refused, rx_pc, rx_left,
                      rx_buf, got >>
  BY DEF IInv, SendFail, Sending, connVars, rxVars
<1>2. /\ left' = 0 /\ frames' \in Seq(1 .. Len(sent))
      /\ send_pc' = "idle" \/ send_pc' = "lock"
  BY <1>1, NextFrameShape
<1>3. TypeOK'
  BY <1>1, <1>2 DEF TypeOK
<1>4. Sending'
  BY <1>1, NextFrameSending
<1>5. Connecting'
  BY <1>1, <1>2 DEF Connecting, InFrame
<1>6. Stream' = Stream /\ Ahead' = Ahead
  BY <1>1 DEF Stream, Ahead
<1>7. InFrames' /\ Framed(Ahead)'
  BY <1>1, <1>6 DEF IInv, InFrames, FrameSize, Framed, Follows, Rest
<1>8. Reading'
  BY <1>1, <1>6 DEF IInv, Reading
<1>9. Received'
  BY <1>1, <1>6 DEF IInv, Received, FramesIntact, ReliableOrder, OnlyStoredIsLate
<1> QED BY <1>3, <1>4, <1>5, <1>7, <1>8, <1>9 DEF IInv

\* The reader ends.
LEMMA RxEndStep == ASSUME IInv, RxEnd PROVE IInv'
<1>1. /\ TypeOK /\ Sending /\ Connecting /\ broken /\ wire = << >>
      /\ rx_pc' = "end" /\ rx_buf' = << >> /\ rx_left' = 0
      /\ UNCHANGED << sendVars, recv_pc, connVars, got, wire, broken, is_reliable >>
      /\ UNCHANGED << send_pc, frames, left, copied, copy_buffer, sent, stored,
                      connect_lock, connected, connects, refused >>
  BY DEF IInv, RxEnd, sendVars, connVars
<1>2. TypeOK'
  <2>1. rx_left' \in Nat /\ rx_buf' \in Seq((1 .. Len(sent)) \X Nat)
    BY <1>1
  <2> QED BY <1>1, <2>1 DEF TypeOK
<1>3. Sending'
  BY <1>1 DEF Sending
<1>4. Connecting'
  BY <1>1 DEF Connecting, InFrame
<1>5. Stream' = << >> /\ Ahead' = << >>
  BY <1>1 DEF Stream, Ahead
<1>6. InFrames' /\ Framed(Ahead)' /\ Reading'
  BY <1>1, <1>5 DEF InFrames, Framed, Reading
<1>7. Received'
  BY <1>1, <1>5 DEF IInv, Received, FramesIntact, ReliableOrder, OnlyStoredIsLate
<1> QED BY <1>2, <1>3, <1>4, <1>6, <1>7 DEF IInv

\* The connection is lost: a prefix of what is in transit will arrive.
LEMMA TcpBreakStep == ASSUME IInv, TcpBreak PROVE IInv'
<1>1. /\ TypeOK /\ Sending /\ Connecting /\ ~broken /\ broken' = TRUE /\ connected
      /\ UNCHANGED << sendVars, recv_pc, connVars, rxVars, is_reliable >>
      /\ UNCHANGED << send_pc, frames, left, copied, copy_buffer, sent, stored,
                      connect_lock, connected, connects, refused, rx_pc, rx_left,
                      rx_buf, got >>
  BY DEF IInv, TcpBreak, sendVars, connVars, rxVars
<1>2. PICK k \in 0 .. Len(wire) : wire' = SubSeq(wire, 1, k)
  BY DEF TcpBreak
<1>3. /\ wire' \in Seq((1 .. Len(sent)) \X Nat) /\ Len(wire') = k
      /\ \A i \in 1 .. k : wire'[i] = wire[i]
  <2>1. wire \in Seq((1 .. Len(sent)) \X Nat)
    BY <1>1 DEF TypeOK
  <2> QED BY <1>2, <2>1
<1>4. TypeOK'
  BY <1>1, <1>3 DEF TypeOK
<1>5. Sending'
  BY <1>1 DEF Sending
<1>6. Connecting'
  BY <1>1 DEF Connecting
<1>7. Shape /\ Shape'
  BY <1>1, <1>4, <1>5, AheadShape, PTL
<1>8. /\ Len(Stream') <= Len(Stream) /\ Len(Stream') \in Nat
      /\ \A i \in 1 .. Len(Stream') : Stream'[i] = Stream[i]
  <2> DEFINE B == (1 .. Len(sent)) \X Nat
  <2>1. rx_buf \in Seq(B) /\ wire \in Seq(B)
    BY <1>1 DEF TypeOK
  <2>2. /\ wire' \in Seq(B) /\ Len(wire') <= Len(wire)
        /\ \A i \in 1 .. Len(wire') : wire'[i] = wire[i]
    BY <1>3, <2>1
  <2> HIDE DEF B
  <2>3. /\ Len(rx_buf \o wire') <= Len(rx_buf \o wire)
        /\ Len(rx_buf \o wire') \in Nat
        /\ \A i \in 1 .. Len(rx_buf \o wire') :
             (rx_buf \o wire')[i] = (rx_buf \o wire)[i]
    BY <2>1, <2>2, ConcatPrefix
  <2> QED BY <1>1, <2>3 DEF Stream
<1>9. /\ Ahead' = Stream' /\ Len(Ahead') <= Len(Ahead)
      /\ \A i \in 1 .. Len(Ahead') : i \in 1 .. Len(Ahead) /\ Ahead'[i] = Ahead[i]
  BY <1>1, <1>7, <1>8 DEF Shape
<1>10. InFrames'
  BY <1>1, <1>8 DEF IInv, InFrames, FrameSize
<1>11. Framed(Ahead)'
  <2>a. /\ Len(Ahead') + 0 <= Len(Ahead)
        /\ \A i \in 1 .. Len(Ahead') : Ahead'[i] = Ahead[i + 0]
    BY <1>7, <1>9 DEF Shape
  <2>b. Ahead \in Seq(Bytewise) /\ Ahead' \in Seq(Bytewise) /\ Framed(Ahead)
    BY <1>7 DEF Shape, IInv
  <2>1. Framed(Ahead')
    BY <2>a, <2>b, FramedPart
  <2> QED BY <1>1, <2>1 DEF Framed, Follows, Rest, FrameSize
<1>12. Ahead' # << >> => Ahead # << >> /\ Ahead'[1] = Ahead[1]
  BY <1>7, <1>9 DEF Shape
<1>13. Reading'
  BY <1>1, <1>12 DEF IInv, Reading
<1>14. Received'
  BY <1>1, <1>9, <1>12
     DEF IInv, Received, FramesIntact, ReliableOrder, OnlyStoredIsLate
<1> QED BY <1>4, <1>5, <1>6, <1>10, <1>11, <1>13, <1>14 DEF IInv

----------------------------------------------------------------------------
(* write() and read().                                                     *)

\* What follows byte << n, lo >> in its frame is as far from b.
LEMMA FollowsOn ==
  ASSUME TypeOK, NEW b \in Bytewise, b[1] \in 1 .. Len(sent),
         NEW n \in 1 .. Len(sent), NEW lo \in Nat, NEW d \in Nat, NEW e \in Nat,
         Follows(b, << n, lo >>, d), lo + e <= FrameSize(n)
  PROVE  Follows(b, << n, lo + e >>, d + e)
<1>1. /\ b[1] \in Nat /\ b[2] \in Nat /\ n \in Nat
      /\ FrameSize(b[1]) \in Nat /\ FrameSize(n) \in Nat
  BY PacketLength DEF Bytewise
<1>2. /\ d <= Rest(b) => n = b[1] /\ lo = b[2] + d
      /\ d = Rest(b) + 1 => lo = 1 /\ (is_reliable => n = b[1] + 1)
      /\ n < b[1] => n \in stored
  BY DEF Follows
<1>a. Rest(b) \in Int /\ FrameSize(b[1]) = Rest(b) + b[2]
  BY <1>1 DEF Rest
<1>3. d + e <= Rest(b) => n = b[1] /\ lo + e = b[2] + (d + e)
  <2>1. d + e <= Rest(b) => d <= Rest(b)
    BY <1>a
  <2>2. lo = b[2] + d => lo + e = b[2] + (d + e)
    BY <1>1
  <2> QED BY <1>2, <2>1, <2>2
<1>4. d + e = Rest(b) + 1 => e = 0
  <2>1. d + e = Rest(b) + 1 /\ e # 0 => d <= Rest(b)
    BY <1>a
  <2>2. d + e = Rest(b) + 1 /\ n = b[1] /\ lo = b[2] + d => FALSE
    BY <1>1, <1>a
  <2> QED BY <1>2, <2>1, <2>2
<1> QED BY <1>2, <1>3, <1>4 DEF Follows

\* ... and so is the first byte of the next frame.
LEMMA FollowsNext ==
  ASSUME TypeOK, NEW b \in Bytewise, b[1] \in 1 .. Len(sent),
         NEW n \in 1 .. Len(sent), NEW lo \in Nat, NEW d \in Nat, NEW e \in Nat,
         NEW c \in Bytewise, Follows(b, << n, lo >>, d), e > 0,
         lo + e = FrameSize(n) + 1, c[2] = 1, is_reliable => c[1] = n + 1,
         c[1] < b[1] => c[1] \in stored
  PROVE  Follows(b, c, d + e)
<1>1. /\ b[1] \in Nat /\ b[2] \in Nat /\ n \in Nat
      /\ FrameSize(b[1]) \in Nat /\ FrameSize(n) \in Nat
  BY PacketLength DEF Bytewise
<1>2. d <= Rest(b) => n = b[1] /\ lo = b[2] + d
  BY DEF Follows
<1>3. ~(d + e <= Rest(b))
  BY <1>1, <1>2 DEF Rest
<1>4. d + e = Rest(b) + 1 => n = b[1]
  BY <1>1, <1>2 DEF Rest
<1> QED BY <1>3, <1>4 DEF Follows

\* The bytes of a frame that write() takes at a time.
LEMMA BytesSeq ==
  ASSUME NEW A, NEW n \in A, NEW lo \in Nat, NEW k \in Nat
  PROVE  /\ Bytes(n, lo, lo + k - 1) \in Seq(A \X Nat)
         /\ Len(Bytes(n, lo, lo + k - 1)) = k
         /\ \A e \in 1 .. k : Bytes(n, lo, lo + k - 1)[e] = << n, lo + (e - 1) >>
<1> DEFINE C == Bytes(n, lo, lo + k - 1)
<1>1. (lo + k - 1) - lo + 1 = k
  OBVIOUS
<1>2. C = [i \in 1 .. k |-> << n, lo + i - 1 >>]
  BY <1>1 DEF Bytes
<1>3. \A i \in 1 .. k : << n, lo + i - 1 >> \in A \X Nat
  OBVIOUS
<1> HIDE DEF C
<1>4. C \in [1 .. k -> A \X Nat]
  BY <1>2, <1>3
<1>5. \A e \in 1 .. k : lo + e - 1 = lo + (e - 1)
  OBVIOUS
<1>6. C \in Seq(A \X Nat) /\ Len(C) = k
  BY <1>4, FunSeq
<1>7. \A e \in 1 .. k : C[e] = << n, lo + (e - 1) >>
  BY <1>2, <1>5
<1> QED BY <1>6, <1>7 DEF C

\* Writing k more bytes of a frame keeps the stream framed, up to the byte that
\* comes next.
LEMMA FramedExtend ==
  ASSUME TypeOK, NEW S \in Seq(Bytewise),
         \A i \in 1 .. Len(S) : S[i][1] \in 1 .. Len(sent),
         NEW n \in 1 .. Len(sent), NEW lo \in Nat, NEW k \in Nat, k > 0,
         lo + k - 1 <= FrameSize(n), Framed(Append(S, << n, lo >>)),
         NEW c \in Bytewise,
         \/ lo + k <= FrameSize(n) /\ c = << n, lo + k >>
         \/ /\ lo + k = FrameSize(n) + 1 /\ c[2] = 1 /\ c[1] >= n
            /\ is_reliable => c[1] = n + 1
            /\ \A i \in 1 .. Len(S) : c[1] < S[i][1] => c[1] \in stored
  PROVE  Framed(Append(S \o Bytes(n, lo, lo + k - 1), c))
<1> DEFINE C == Bytes(n, lo, lo + k - 1)
           T == Append(S \o C, c)
           m == Len(S)
<1>1. /\ C \in Seq(Bytewise) /\ Len(C) = k
      /\ \A e \in 1 .. k : C[e] = << n, lo + (e - 1) >>
  <2>1. (lo + k - 1) - lo + 1 = k
    OBVIOUS
  <2>2. C = [i \in 1 .. k |-> << n, lo + i - 1 >>]
    BY <2>1 DEF Bytes
  <2>3. \A i \in 1 .. k : << n, lo + i - 1 >> \in Bytewise
    BY DEF Bytewise
  <2> HIDE DEF C
  <2>4. C \in [1 .. k -> Bytewise]
    BY <2>2, <2>3
  <2>5. \A e \in 1 .. k : lo + e - 1 = lo + (e - 1)
    OBVIOUS
  <2> QED BY <2>2, <2>4, <2>5, FunSeq
<1> HIDE DEF C
<1>2. /\ T \in Seq(Bytewise) /\ Len(T) = m + k + 1 /\ m \in Nat
      /\ \A i \in 1 .. m : T[i] = S[i]
      /\ \A e \in 1 .. k : T[m + e] = << n, lo + (e - 1) >>
      /\ T[m + k + 1] = c
  <2>1. m = Len(S) /\ k = Len(C) /\ T = Append(S \o C, c)
    BY <1>1
  <2> HIDE DEF T, m
  <2>3. C \in Seq(Bytewise)
    BY <1>1
  <2>2. /\ T \in Seq(Bytewise) /\ m \in Nat /\ Len(T) = m + k + 1
        /\ \A i \in 1 .. m : T[i] = S[i]
        /\ \A e \in 1 .. k : T[m + e] = C[e]
        /\ T[m + k + 1] = c
    BY <2>1, <2>3, SMTT(30)
  <2> QED BY <1>1, <2>2
<1> DEFINE A == Append(S, << n, lo >>)
<1>3. /\ A \in Seq(Bytewise) /\ Len(A) = m + 1 /\ A[m + 1] = << n, lo >>
      /\ \A i \in 1 .. m : A[i] = S[i]
  <2>1. << n, lo >> \in Bytewise
    BY DEF Bytewise
  <2> QED BY <2>1
<1>4. \A i \in 1 .. m : S[i] \in Bytewise
  OBVIOUS
<1>5. Framed(A)
  OBVIOUS
<1>6. \A i \in 1 .. m : S[i][1] \in 1 .. Len(sent)
  OBVIOUS
<1>7. FrameSize(n) \in Nat
  BY PacketLength
<1>8. \/ lo + k <= FrameSize(n) /\ c = << n, lo + k >>
      \/ /\ lo + k = FrameSize(n) + 1 /\ c[2] = 1 /\ c[1] >= n
         /\ is_reliable => c[1] = n + 1
         /\ \A i \in 1 .. m : c[1] < S[i][1] => c[1] \in stored
  OBVIOUS
<1> HIDE DEF T, m, A
<1> SUFFICES ASSUME NEW i \in 1 .. m + k + 1, NEW j \in 1 .. m + k + 1, i < j
             PROVE  Follows(T[i], T[j], j - i)
  BY <1>2 DEF Framed, T, C
<1>9. ASSUME NEW b \in Bytewise, NEW d \in Nat, NEW f \in 0 .. k - 1,
             NEW e \in f .. k, b[1] \in 1 .. Len(sent),
             Follows(b, << n, lo + f >>, d),
             b[1] = n \/ \E x \in 1 .. m : b[1] = S[x][1]
      PROVE  Follows(b, T[m + 1 + e], d + (e - f))
  <2> DEFINE g == e - f
  <2>0. /\ g \in Nat /\ lo + f \in Nat /\ (lo + f) + g = lo + e
        /\ n \in Nat /\ b[1] \in Nat /\ m + 1 + e = m + (e + 1)
        /\ b[1] = n /\ c[1] >= n /\ c[1] \in Nat => ~(c[1] < b[1])
    BY <1>2, <1>9
  <2> HIDE DEF g
  <2>1. CASE e < k
    <3>1. e + 1 \in 1 .. k /\ (e + 1) - 1 = e
      BY <2>1
    <3>2. T[m + 1 + e] = << n, lo + e >>
      BY <1>2, <2>0, <3>1
    <3>3. (lo + f) + g <= FrameSize(n)
      BY <1>7, <2>0, <2>1
    <3>4. Follows(b, << n, (lo + f) + g >>, d + g)
      BY <1>9, <2>0, <3>3, FollowsOn
    <3> QED BY <2>0, <3>2, <3>4 DEF g
  <2>2. CASE e = k
    <3>1. m + 1 + k = m + k + 1
      BY <1>2
    <3>2. T[m + 1 + e] = c /\ g > 0
      BY <1>2, <2>2, <3>1 DEF g
    <3>3. CASE lo + k <= FrameSize(n) /\ c = << n, lo + k >>
      <4>1. Follows(b, << n, (lo + f) + g >>, d + g)
        BY <1>9, <2>0, <2>2, <3>3, FollowsOn
      <4> QED BY <2>0, <2>2, <3>2, <3>3, <4>1 DEF g
    <3>4. CASE /\ lo + k = FrameSize(n) + 1 /\ c[2] = 1 /\ c[1] >= n
               /\ is_reliable => c[1] = n + 1
               /\ \A x \in 1 .. m : c[1] < S[x][1] => c[1] \in stored
      <4>1. c[1] < b[1] => c[1] \in stored
        <5>1. c[1] \in Nat
          BY DEF Bytewise
        <5> QED BY <1>9, <2>0, <3>4, <5>1
      <4>2. (lo + f) + g = FrameSize(n) + 1
        BY <2>0, <2>2, <3>4
      <4>3. Follows(b, c, d + g)
        BY <1>9, <2>0, <3>2, <3>4, <4>1, <4>2, FollowsNext
      <4> QED BY <3>2, <4>3 DEF g
    <3> QED BY <1>8, <3>3, <3>4
  <2> QED BY <2>1, <2>2
<1>10. CASE j <= m
  <2>1. i \in 1 .. Len(A) /\ j \in 1 .. Len(A) /\ i \in 1 .. m /\ j \in 1 .. m
    BY <1>2, <1>3, <1>10
  <2>2. Follows(A[i], A[j], j - i)
    BY <1>5, <2>1 DEF Framed
  <2> QED BY <1>2, <1>3, <2>1, <2>2
<1>11. CASE i <= m /\ j > m
  <2> DEFINE d == (m + 1) - i
             e == j - m - 1
  <2>1. /\ i \in 1 .. m /\ d \in Nat /\ e \in 0 .. k /\ 0 \in 0 .. k - 1
        /\ m + 1 + e = j /\ d + (e - 0) = j - i /\ lo + 0 = lo
        /\ i \in 1 .. Len(A) /\ m + 1 \in 1 .. Len(A) /\ i < m + 1
    BY <1>2, <1>3, <1>11
  <2>2. Follows(S[i], << n, lo >>, d)
    <3> DEFINE y == m + 1
    <3>1. i \in 1 .. Len(A) /\ y \in 1 .. Len(A) /\ i < y
      BY <2>1
    <3> HIDE DEF y
    <3>2. Follows(A[i], A[y], y - i)
      BY <1>5, <3>1 DEF Framed
    <3> QED BY <1>3, <2>1, <3>2 DEF y
  <2>3. S[i] \in Bytewise /\ S[i][1] \in 1 .. Len(sent) /\ T[i] = S[i]
    BY <1>2, <1>4, <1>6, <2>1
  <2> HIDE DEF d, e
  <2>4. Follows(S[i], T[m + 1 + e], d + (e - 0))
    BY <1>9, <2>1, <2>2, <2>3
  <2> QED BY <2>1, <2>3, <2>4
<1>12. CASE i > m
  <2> DEFINE f == i - m - 1
             e == j - m - 1
             b == << n, lo + f >>
  <2>1. /\ f \in 0 .. k - 1 /\ e \in f .. k /\ lo + f \in Nat /\ 0 \in Nat
        /\ m + 1 + e = j /\ 0 + (e - f) = j - i /\ m + 1 + f = i
        /\ f + 1 \in 1 .. k /\ m + (f + 1) = i /\ (f + 1) - 1 = f
        /\ lo + f <= FrameSize(n) /\ n \in Nat
    BY <1>2, <1>7, <1>12
  <2>2. T[i] = b
    BY <1>2, <2>1
  <2> HIDE DEF f, e
  <2>3. b \in Bytewise /\ b[1] = n /\ b[2] = lo + f
    BY <2>1 DEF Bytewise
  <2>4. Follows(b, << n, lo + f >>, 0)
    <3>1. 0 <= Rest(b) /\ Rest(b) \in Int
      BY <1>7, <2>1 DEF Rest
    <3>2. 0 # Rest(b) + 1 /\ ~(n < n) /\ lo + f = (lo + f) + 0
      BY <2>1, <3>1
    <3> QED BY <2>3, <3>1, <3>2 DEF Follows
  <2> HIDE DEF b
  <2>5. Follows(b, T[m + 1 + e], 0 + (e - f))
    BY <1>9, <2>1, <2>3, <2>4
  <2> QED BY <2>1, <2>2, <2>5
<1>13. j <= m \/ (i <= m /\ j > m) \/ i > m
  BY <1>2
<1> QED BY <1>10, <1>11, <1>12, <1>13

LEMMA ConcatConcat ==
  ASSUME NEW A, NEW b \in Seq(A), NEW w \in Seq(A), NEW c \in Seq(A)
  PROVE  b \o (w \o c) = (b \o w) \o c /\ w \o c \in Seq(A)
  OBVIOUS

\* write() of k bytes of a frame: they go on the wire, and the byte after them
\* is the next to be written.
LEMMA SendWriteEffect ==
  ASSUME IInv, SendWrite, NEW n, n = Head(frames), NEW lo, lo = OutPosition
  PROVE  /\ n \in 1 .. Len(sent) /\ lo \in Nat /\ lo > 0 /\ Out = << n, lo >>
         /\ \E k \in Nat :
              /\ k > 0 /\ lo + k - 1 <= FrameSize(n)
              /\ wire' = wire \o Bytes(n, lo, lo + k - 1)
              /\ left' \in Nat /\ frames' \in Seq(1 .. Len(sent)) /\ Sending'
              /\ send_pc' \in {"idle", "lock", "len", "body"}
              /\ \/ lo + k <= FrameSize(n) /\ Out' = << n, lo + k >>
                 \/ /\ lo + k = FrameSize(n) + 1 /\ Out'[2] = 1
                    /\ \/ Out'[1] = Len(sent) + 1
                       \/ Out'[1] = n /\ ~is_reliable
                    /\ is_reliable => Out'[1] = n + 1
<1>1. /\ TypeOK /\ Sending /\ send_pc \in {"len", "body"} /\ frames # << >>
      /\ UNCHANGED << copied, copy_buffer, sent, stored, is_reliable >>
  BY DEF IInv, Sending, SendWrite
<1>2. n \in 1 .. Len(sent) /\ frames \in Seq(1 .. Len(sent)) /\ Len(sent) \in Nat
  <2>1. frames \in Seq(1 .. Len(sent)) /\ sent \in Seq(Sizes)
    BY <1>1 DEF TypeOK
  <2> QED BY <1>1, <2>1
<1>3. sent[n] \in Nat /\ sent[n] > 0 /\ FrameSize(n) = 2 + sent[n]
  BY <1>1, <1>2, PacketLength DEF FrameSize, LengthSize
<1>4. /\ left \in Nat /\ left > 0
      /\ send_pc = "len" => left <= 2 /\ lo = 2 - left + 1
      /\ send_pc = "body" => left <= sent[n] /\ lo = FrameSize(n) - left + 1
  BY <1>1, <1>3 DEF TypeOK, Sending, OutPosition, LengthSize
<1>5. lo \in Nat /\ lo > 0
  BY <1>1, <1>3, <1>4
<1>6. Out = << n, lo >>
  BY <1>1 DEF Out
<1> DEFINE end == IF send_pc = "len" THEN LengthSize ELSE FrameSize(n)
<1>7. PICK k \in 1 .. left :
        /\ wire' = wire \o Bytes(n, end - left + 1, end - left + k)
        /\ \/ left - k # 0 /\ left' = left - k /\ UNCHANGED << send_pc, frames >>
           \/ /\ left - k = 0 /\ send_pc = "len"
              /\ send_pc' = "body" /\ left' = sent[n] /\ UNCHANGED frames
           \/ left - k = 0 /\ send_pc = "body" /\ NextFrame
  BY DEF SendWrite, Remaining
<1>8. /\ k \in Nat /\ k > 0 /\ lo + k - 1 <= FrameSize(n)
      /\ end - left + 1 = lo /\ end - left + k = lo + k - 1
  BY <1>1, <1>3, <1>4 DEF LengthSize
<1>9. wire' = wire \o Bytes(n, lo, lo + k - 1)
  BY <1>7, <1>8
<1> DEFINE NextByte(o) ==
             \/ lo + k <= FrameSize(n) /\ o = << n, lo + k >>
             \/ /\ lo + k = FrameSize(n) + 1 /\ o[2] = 1
                /\ \/ o[1] = Len(sent) + 1
                   \/ o[1] = n /\ ~is_reliable
                /\ is_reliable => o[1] = n + 1
<1>10. /\ left' \in Nat /\ frames' \in Seq(1 .. Len(sent)) /\ Sending'
       /\ send_pc' \in {"idle", "lock", "len", "body"}
       /\ NextByte(Out')
  <2>1. CASE left - k # 0 /\ left' = left - k /\ UNCHANGED << send_pc, frames >>
    <3>1. left' \in Nat /\ left' \in 1 .. left
      BY <1>4, <1>8, <2>1
    <3>2. Sending'
      BY <1>1, <1>3, <1>4, <2>1, <3>1 DEF Sending, LengthSize
    <3>3. OutPosition' = lo + k
      <4>1. CASE send_pc = "len"
        BY <1>4, <1>8, <2>1, <4>1 DEF OutPosition, LengthSize
      <4>2. CASE send_pc = "body"
        <5>1. FrameSize(Head(frames))' = FrameSize(n)
          BY <1>1, <2>1 DEF FrameSize
        <5>2. OutPosition' = FrameSize(n) - left' + 1
          BY <2>1, <4>2, <5>1 DEF OutPosition
        <5> QED BY <1>3, <1>4, <1>8, <2>1, <4>2, <5>2
      <4> QED BY <1>1, <4>1, <4>2
    <3>4. Out' = << n, lo + k >>
      BY <1>1, <2>1, <3>3 DEF Out
    <3>5. lo + k <= FrameSize(n)
      BY <1>1, <1>3, <1>4, <1>8, <2>1
    <3> QED BY <1>1, <1>2, <2>1, <3>1, <3>2, <3>4, <3>5
  <2>2. CASE /\ left - k = 0 /\ send_pc = "len"
             /\ send_pc' = "body" /\ left' = sent[n] /\ UNCHANGED frames
    <3>1. left' \in Nat /\ left' \in 1 .. sent'[Head(frames')]
      BY <1>1, <1>3, <2>2
    <3>2. Sending'
      BY <1>1, <2>2, <3>1 DEF Sending
    <3>3. OutPosition' = lo + k
      <4>1. FrameSize(Head(frames))' = FrameSize(n)
        BY <1>1, <2>2 DEF FrameSize
      <4>2. OutPosition' = FrameSize(n) - left' + 1
        BY <2>2, <4>1 DEF OutPosition
      <4> QED BY <1>3, <1>4, <1>8, <2>2, <4>2
    <3>4. Out' = << n, lo + k >>
      BY <1>1, <2>2, <3>3 DEF Out
    <3>5. lo + k <= FrameSize(n)
      BY <1>3, <1>4, <1>8, <2>2
    <3> QED BY <1>2, <2>2, <3>1, <3>2, <3>4, <3>5
  <2>3. CASE left - k = 0 /\ send_pc = "body" /\ NextFrame
    <3>1. /\ left' = 0 /\ frames' \in Seq(1 .. Len(sent))
          /\ \/ frames' = << >> /\ send_pc' = "idle"
             \/ frames' = << n >> /\ send_pc' = "lock" /\ ~is_reliable
      BY <1>1, <2>3, NextFrameShape
    <3>2. Sending'
      BY <1>1, <2>3, NextFrameSending
    <3>3. lo + k = FrameSize(n) + 1
      BY <1>3, <1>4, <1>8, <2>3
    <3>4. OutPosition' = 1
      BY <3>1 DEF OutPosition
    <3>5. is_reliable => n = Len(sent)
      <4>1. is_reliable => frames = << Len(sent) >>
        BY <1>1 DEF Sending
      <4> QED BY <4>1
    <3>6. CASE frames' = << >>
      <4>1. Out' = << Len(sent) + 1, 1 >>
        BY <1>1, <3>4, <3>6 DEF Out
      <4> QED BY <3>1, <3>2, <3>3, <3>5, <4>1
    <3>7. CASE frames' = << n >> /\ ~is_reliable
      <4>1. frames' # << >> /\ Head(frames') = n
        BY <3>7
      <4>2. Out' = << n, 1 >>
        BY <3>4, <4>1 DEF Out
      <4> QED BY <3>1, <3>2, <3>3, <3>7, <4>2
    <3> QED BY <3>1, <3>6, <3>7
  <2> QED BY <1>7, <2>1, <2>2, <2>3
<1> QED BY <1>2, <1>5, <1>6, <1>8, <1>9, <1>10

LEMMA SendWriteStep == ASSUME IInv, SendWrite PROVE IInv'
<1> DEFINE n == Head(frames)
           lo == OutPosition
<1>1. /\ TypeOK /\ Sending /\ Connecting /\ ~broken /\ InFrame
      /\ UNCHANGED << copied, copy_buffer, sent, stored, recv_pc, connVars, rxVars,
                      broken, is_reliable >>
      /\ UNCHANGED << connect_lock, connected, connects, refused, rx_pc, rx_left,
                      rx_buf, got >>
  BY DEF IInv, SendWrite, InFrame, connVars, rxVars
<1>2. /\ n \in 1 .. Len(sent) /\ lo \in Nat /\ lo > 0 /\ Out = << n, lo >>
      /\ \E k \in Nat :
           /\ k > 0 /\ lo + k - 1 <= FrameSize(n)
           /\ wire' = wire \o Bytes(n, lo, lo + k - 1)
           /\ left' \in Nat /\ frames' \in Seq(1 .. Len(sent)) /\ Sending'
           /\ send_pc' \in {"idle", "lock", "len", "body"}
           /\ \/ lo + k <= FrameSize(n) /\ Out' = << n, lo + k >>
              \/ /\ lo + k = FrameSize(n) + 1 /\ Out'[2] = 1
                 /\ \/ Out'[1] = Len(sent) + 1
                    \/ Out'[1] = n /\ ~is_reliable
                 /\ is_reliable => Out'[1] = n + 1
  BY SendWriteEffect
<1> HIDE DEF n, lo
<1>3. PICK k \in Nat :
        /\ k > 0 /\ lo + k - 1 <= FrameSize(n)
        /\ wire' = wire \o Bytes(n, lo, lo + k - 1)
        /\ left' \in Nat /\ frames' \in Seq(1 .. Len(sent)) /\ Sending'
        /\ send_pc' \in {"idle", "lock", "len", "body"}
        /\ \/ lo + k <= FrameSize(n) /\ Out' = << n, lo + k >>
           \/ /\ lo + k = FrameSize(n) + 1 /\ Out'[2] = 1
              /\ \/ Out'[1] = Len(sent) + 1
                 \/ Out'[1] = n /\ ~is_reliable
              /\ is_reliable => Out'[1] = n + 1
  BY <1>2
<1> DEFINE B == (1 .. Len(sent)) \X Nat
           C == Bytes(n, lo, lo + k - 1)
           m == Len(Stream)
<1>4. /\ C \in Seq(B) /\ Len(C) = k
      /\ \A e \in 1 .. k : C[e] = << n, lo + (e - 1) >>
  <2>1. lo \in Nat /\ n \in 1 .. Len(sent)
    BY <1>2
  <2> QED BY <2>1, BytesSeq, Zenon
<1> HIDE DEF C
<1>5. wire \in Seq(B) /\ rx_buf \in Seq(B)
  BY <1>1 DEF TypeOK
<1>6. wire' \in Seq(B) /\ Stream' = Stream \o C
  <2> HIDE DEF B
  <2>1. wire' = wire \o C
    BY <1>3 DEF C
  <2>2. C \in Seq(B)
    BY <1>4
  <2>3. rx_buf \o (wire \o C) = (rx_buf \o wire) \o C /\ wire \o C \in Seq(B)
    BY <1>5, <2>2, ConcatConcat
  <2> QED BY <1>1, <2>1, <2>3 DEF Stream
<1>7. TypeOK'
  BY <1>1, <1>3, <1>6 DEF TypeOK
<1>8. Connecting'
  <2>1. connected /\ send_pc' # "connect"
    BY <1>1, <1>3 DEF Connecting
  <2> QED BY <1>1, <2>1 DEF Connecting
<1>9. Shape /\ Shape'
  BY <1>1, <1>3, <1>7, AheadShape, PTL
<1>10. /\ m \in Nat /\ Len(Stream') = m + k
       /\ \A i \in 1 .. m : Stream'[i] = Stream[i]
       /\ \A e \in 1 .. k : Stream'[m + e] = << n, lo + (e - 1) >>
  <2>1. Stream \in Seq(B)
    <3> HIDE DEF B
    <3> QED BY <1>5 DEF Stream
  <2> HIDE DEF B
  <2>2. /\ m \in Nat /\ Len(Stream') = m + Len(C)
        /\ \A i \in 1 .. m : Stream'[i] = Stream[i]
        /\ \A e \in 1 .. Len(C) : Stream'[m + e] = C[e]
    <3>1. C \in Seq(B) /\ Stream' = Stream \o C
      BY <1>4, <1>6
    <3> QED BY <2>1, <3>1
  <2> QED BY <1>4, <2>2
<1> HIDE DEF B, m
<1>11. /\ Len(Ahead) = m + 1 /\ Len(Ahead') = m + k + 1
       /\ Ahead'[m + k + 1] = Out'
       /\ \A i \in 1 .. m + 1 : Ahead'[i] = Ahead[i]
       /\ \A e \in 1 .. k : Ahead'[m + e] = << n, lo + (e - 1) >>
  <2>1. /\ Len(Ahead) = m + 1 /\ Ahead[m + 1] = << n, lo >>
        /\ \A i \in 1 .. m : Ahead[i] = Stream[i]
    BY <1>1, <1>2, <1>9 DEF Shape, m
  <2>2. /\ Len(Ahead') = (m + k) + 1 /\ Ahead'[(m + k) + 1] = Out'
        /\ \A i \in 1 .. m + k : Ahead'[i] = Stream'[i]
    BY <1>1, <1>9, <1>10 DEF Shape
  <2>3. \A i \in 1 .. m : Ahead'[i] = Ahead[i]
    BY <1>10, <2>1, <2>2
  <2>4. \A e \in 1 .. k : Ahead'[m + e] = << n, lo + (e - 1) >>
    <3>1. \A e \in 1 .. k : m + e \in 1 .. m + k
      BY <1>10
    <3> QED BY <1>10, <2>2, <3>1
  <2>5. Ahead'[m + 1] = << n, lo >>
    <3>1. 1 \in 1 .. k /\ lo + (1 - 1) = lo
      BY <1>2, <1>3
    <3> QED BY <2>4, <3>1
  <2>6. \A i \in 1 .. m + 1 : i \in 1 .. m \/ i = m + 1
    BY <1>10
  <2> QED BY <2>1, <2>2, <2>3, <2>4, <2>5, <2>6
<1>12. InFrames'
  <2> SUFFICES ASSUME NEW i \in 1 .. m + k
               PROVE  Stream'[i][2] \in 1 .. FrameSize(Stream'[i][1])
    BY <1>1, <1>10 DEF InFrames, FrameSize
  <2>1. CASE i \in 1 .. m
    BY <1>10, <2>1 DEF IInv, InFrames, m
  <2>2. CASE i \notin 1 .. m
    <3> DEFINE e == i - m
    <3>1. e \in 1 .. k /\ m + e = i
      BY <1>10, <2>2
    <3>2. FrameSize(n) \in Nat
      BY <1>1, <1>2, PacketLength
    <3>3. lo + (e - 1) \in 1 .. FrameSize(n)
      <4>1. lo \in Nat /\ lo > 0 /\ lo + k - 1 <= FrameSize(n)
        BY <1>2, <1>3
      <4> HIDE DEF e
      <4> QED BY <3>1, <3>2, <4>1
    <3> HIDE DEF e
    <3> QED BY <1>10, <3>1, <3>3
  <2> QED BY <2>1, <2>2
<1>13. /\ Out' \in Bytewise /\ Len(sent) \in Nat
       /\ \A i \in 1 .. m : Out[1] < Stream[i][1] => Out[1] \in stored
  <2>1. Out' \in Bytewise
    BY <1>9 DEF Shape
  <2>2. Len(sent) \in Nat
    BY <1>1 DEF TypeOK
  <2>3. ASSUME NEW i \in 1 .. m PROVE Follows(Ahead[i], Ahead[m + 1], m + 1 - i)
    BY <1>10, <1>11 DEF IInv, Framed
  <2>4. Ahead[m + 1] = Out /\ \A i \in 1 .. m : Ahead[i] = Stream[i]
    BY <1>1, <1>9 DEF Shape, m
  <2> QED BY <2>1, <2>2, <2>3, <2>4 DEF Follows
<1>14. Framed(Ahead)'
  <2>1. Ahead = Append(Stream, << n, lo >>) /\ Ahead' = Append(Stream \o C, Out')
    BY <1>1, <1>2, <1>6 DEF Ahead
  <2>2. /\ Stream \in Seq(Bytewise) /\ Framed(Append(Stream, << n, lo >>))
        /\ \A i \in 1 .. Len(Stream) : Stream[i][1] \in 1 .. Len(sent)
    BY <1>9, <2>1 DEF Shape, IInv
  <2>3. \/ lo + k <= FrameSize(n) /\ Out' = << n, lo + k >>
        \/ /\ lo + k = FrameSize(n) + 1 /\ Out'[2] = 1 /\ Out'[1] >= n
           /\ is_reliable => Out'[1] = n + 1
           /\ \A i \in 1 .. Len(Stream) :
                Out'[1] < Stream[i][1] => Out'[1] \in stored
    <3>1. Out[1] = n /\ n \in 1 .. Len(sent)
      BY <1>2
    <3>2. Out'[1] = n => /\ Out'[1] >= n
                         /\ \A i \in 1 .. Len(Stream) :
                              Out'[1] < Stream[i][1] => Out'[1] \in stored
      BY <1>13, <3>1 DEF m
    <3>3. Out'[1] = Len(sent) + 1 =>
            /\ Out'[1] >= n
            /\ \A i \in 1 .. Len(Stream) : ~(Out'[1] < Stream[i][1])
      BY <1>13, <2>2, <3>1
    <3> QED BY <1>3, <3>2, <3>3
  <2>4. Framed(Append(Stream \o C, Out'))
    BY <1>1, <1>2, <1>3, <1>13, <2>2, <2>3, FramedExtend DEF C
  <2>5. Framed(Ahead')
    BY <2>1, <2>4
  <2> QED BY <1>1, <2>5 DEF Framed, Follows, Rest, FrameSize
<1>15. Ahead'[1] = Ahead[1] /\ Ahead # << >> /\ Ahead' # << >>
  <2>1. 1 \in 1 .. m + 1 /\ m + 1 # 0 /\ m + k + 1 # 0
    BY <1>10
  <2> QED BY <1>11, <2>1
<1>16. Reading'
  BY <1>1, <1>15 DEF IInv, Reading
<1>17. Received'
  <2>1. ASSUME NEW i \in 1 .. Len(got), NEW j \in 1 .. Len(Ahead'),
               Ahead'[j][1] < got[i]
        PROVE  Ahead'[j][1] \in stored
    <3>1. Out[1] < got[i] => Out[1] \in stored
      <4>1. m + 1 \in 1 .. Len(Ahead) /\ Ahead[m + 1] = Out
        BY <1>1, <1>9, <1>10, <1>11 DEF Shape, m
      <4> QED BY <4>1 DEF IInv, Received
    <3>2. CASE j \in 1 .. m + 1
      BY <1>11, <2>1, <3>2 DEF IInv, Received
    <3>3. CASE j \in m + 1 .. m + k
      <4> DEFINE e == j - m
      <4>1. e \in 1 .. k /\ m + e = j
        BY <1>10, <3>3
      <4> HIDE DEF e
      <4>2. Ahead'[j] = << n, lo + (e - 1) >>
        BY <1>11, <4>1
      <4>3. Ahead'[j][1] = Out[1]
        BY <1>2, <4>2
      <4> QED BY <2>1, <3>1, <4>3
    <3>4. CASE j = m + k + 1
      <4>1. Out'[1] = n \/ Out'[1] = Len(sent) + 1
        BY <1>3
      <4>2. got[i] \in 0 .. Len(sent)
        <5>1. got \in Seq(0 .. Len(sent))
          BY <1>1 DEF TypeOK
        <5> QED BY <5>1
      <4>3. ~(Len(sent) + 1 < got[i])
        BY <1>13, <4>2
      <4> QED BY <1>2, <1>11, <2>1, <3>1, <3>4, <4>1, <4>3
    <3>5. j \in 1 .. m + 1 \/ j \in m + 1 .. m + k \/ j = m + k + 1
      BY <1>10, <1>11
    <3> QED BY <3>2, <3>3, <3>4, <3>5
  <2>2. FramesIntact' /\ ReliableOrder' /\ OnlyStoredIsLate'
    BY <1>1 DEF IInv, Received, FramesIntact, ReliableOrder, OnlyStoredIsLate
  <2> QED BY <1>1, <1>15, <2>1, <2>2 DEF IInv, Received
<1> QED BY <1>3, <1>7, <1>8, <1>12, <1>14, <1>16, <1>17 DEF IInv

LEMMA Joined ==
  ASSUME NEW A, NEW x \in Seq(A), NEW v \in Seq(A), NEW w \in Seq(A),
         Len(w) = Len(x) + Len(v), \A i \in 1 .. Len(x) : x[i] = w[i],
         \A i \in 1 .. Len(v) : v[i] = w[Len(x) + i]
  PROVE  x \o v = w
<1> DEFINE t == x \o v
<1>1. /\ t \in Seq(A) /\ Len(t) = Len(w)
      /\ \A i \in 1 .. Len(t) : t[i] = w[i]
  <2>1. /\ Len(x) \in Nat /\ Len(v) \in Nat
        /\ t \in Seq(A) /\ Len(t) = Len(x) + Len(v)
    OBVIOUS
  <2>2. \A i \in 1 .. Len(t) : t[i] = IF i <= Len(x) THEN x[i] ELSE v[i - Len(x)]
    OBVIOUS
  <2> HIDE DEF t
  <2>3. ASSUME NEW i \in 1 .. Len(t) PROVE t[i] = w[i]
    <3>1. CASE i <= Len(x)
      BY <2>1, <2>2, <3>1
    <3>2. CASE ~(i <= Len(x))
      <4>1. i - Len(x) \in 1 .. Len(v) /\ Len(x) + (i - Len(x)) = i
        BY <2>1, <3>2
      <4> QED BY <2>2, <3>2, <4>1
    <3> QED BY <3>1, <3>2
  <2> QED BY <2>1, <2>3
<1> HIDE DEF t
<1>2. t = w
  BY <1>1
<1> QED BY <1>2 DEF t

\* read() moves bytes from the wire to the buffer, in their order.
LEMMA ReadSplit ==
  ASSUME NEW A, NEW b \in Seq(A), NEW w \in Seq(A), NEW k \in 1 .. Len(w)
  PROVE  /\ b \o SubSeq(w, 1, k) \in Seq(A)
         /\ SubSeq(w, k + 1, Len(w)) \in Seq(A)
         /\ (b \o SubSeq(w, 1, k)) \o SubSeq(w, k + 1, Len(w)) = b \o w
         /\ Len(b \o SubSeq(w, 1, k)) = Len(b) + k
         /\ Len(SubSeq(w, k + 1, Len(w))) = Len(w) - k
<1> DEFINE x == SubSeq(w, 1, k)
           v == SubSeq(w, k + 1, Len(w))
<1>1. /\ x \in Seq(A) /\ Len(x) = k /\ Len(w) \in Nat
      /\ \A i \in 1 .. k : x[i] = w[i]
  OBVIOUS
<1>2. /\ v \in Seq(A) /\ Len(v) = Len(w) - k
      /\ \A i \in 1 .. Len(w) - k : v[i] = w[k + i]
  OBVIOUS
<1> HIDE DEF x, v
<1>3. x \in Seq(A) /\ v \in Seq(A)
  BY <1>1, <1>2
<1>4. x \o v = w
  <2>1. Len(w) = Len(x) + Len(v)
    BY <1>1, <1>2
  <2>2. \A i \in 1 .. Len(x) : x[i] = w[i]
    BY <1>1
  <2>3. \A i \in 1 .. Len(v) : v[i] = w[Len(x) + i]
    BY <1>1, <1>2
  <2> QED BY <1>3, <2>1, <2>2, <2>3, Joined
<1>5. b \o (x \o v) = (b \o x) \o v
  BY <1>3, ConcatConcat
<1>6. b \o x \in Seq(A) /\ Len(b \o x) = Len(b) + Len(x)
  BY <1>3
<1>7. /\ b \o x \in Seq(A) /\ v \in Seq(A) /\ (b \o x) \o v = b \o w
      /\ Len(b \o x) = Len(b) + k /\ Len(v) = Len(w) - k
  BY <1>1, <1>2, <1>4, <1>5, <1>6
<1> QED BY <1>7, Zenon DEF x, v

LEMMA SplitIndex ==
  ASSUME NEW A, NEW u \in Seq(A), NEW v \in Seq(A), NEW s, s = u \o v
  PROVE  /\ Len(s) = Len(u) + Len(v) /\ Len(u) \in Nat /\ Len(v) \in Nat
         /\ \A i \in 1 .. Len(u) : s[i] = u[i] /\ i \in 1 .. Len(s)
         /\ \A i \in 1 .. Len(v) : s[i + Len(u)] = v[i]
  OBVIOUS

\* What the reader has taken for a length or a packet leaves the stream.
LEMMA Consume ==
  ASSUME IInv, TypeOK', Sending', NEW u \in Seq(Bytewise), NEW o, o = Len(u),
         Stream = u \o Stream',
         UNCHANGED << sendVars, connVars, broken, is_reliable >>
  PROVE  /\ o \in Nat /\ Len(Ahead) \in Nat /\ Len(Ahead') = Len(Ahead) - o
         /\ o <= Len(Stream) /\ Len(Stream) <= Len(Ahead)
         /\ \A i \in 1 .. o : Ahead[i] = u[i]
         /\ \A i \in 1 .. Len(Ahead') :
              Ahead'[i] = Ahead[i + o] /\ i + o \in 1 .. Len(Ahead)
         /\ InFrames' /\ Framed(Ahead)'
<1> USE DEF sendVars
<1>1. Shape /\ Shape'
  BY AheadShape, PTL DEF IInv
<1> DEFINE S == Stream
           R == Stream'
<1>2. S \in Seq(Bytewise) /\ R \in Seq(Bytewise)
  BY <1>1 DEF Shape
<1>3. /\ Len(S) = o + Len(R) /\ o \in Nat /\ Len(R) \in Nat
      /\ \A i \in 1 .. o : S[i] = u[i] /\ i \in 1 .. Len(S)
      /\ \A i \in 1 .. Len(R) : S[i + o] = R[i]
  <2>1. S = u \o R
    OBVIOUS
  <2> HIDE DEF S, R
  <2> QED BY <1>2, <2>1, SplitIndex
<1>4. /\ Ahead \in Seq(Bytewise) /\ Ahead' \in Seq(Bytewise)
      /\ broken => Len(Ahead) = Len(S) /\ Len(Ahead') = Len(R)
      /\ ~broken => /\ Len(Ahead) = Len(S) + 1 /\ Ahead[Len(S) + 1] = Out
                    /\ Len(Ahead') = Len(R) + 1 /\ Ahead'[Len(R) + 1] = Out'
      /\ \A i \in 1 .. Len(S) : Ahead[i] = S[i]
      /\ \A i \in 1 .. Len(R) : Ahead'[i] = R[i]
  BY <1>1 DEF Shape
<1>5. Out' = Out
  BY DEF Out, OutPosition, FrameSize
<1>6. InFrames'
  <2> SUFFICES ASSUME NEW i \in 1 .. Len(R)
               PROVE  R[i][2] \in 1 .. FrameSize(R[i][1])
    BY DEF InFrames, FrameSize
  <2>1. i + o \in 1 .. Len(S)
    BY <1>3
  <2> QED BY <1>3, <2>1 DEF IInv, InFrames
<1> HIDE DEF S, R
<1>7. Len(Ahead') = Len(Ahead) - o
  BY <1>3, <1>4
<1>8. ASSUME NEW i \in 1 .. Len(Ahead')
      PROVE  Ahead'[i] = Ahead[i + o] /\ i + o \in 1 .. Len(Ahead)
  <2>1. CASE i \in 1 .. Len(R)
    <3>1. i + o \in 1 .. Len(S) /\ i + o \in 1 .. Len(Ahead)
      BY <1>3, <1>4, <2>1
    <3> QED BY <1>3, <1>4, <2>1, <3>1
  <2>2. CASE i \notin 1 .. Len(R)
    <3>1. /\ ~broken /\ i = Len(R) + 1 /\ i + o = Len(S) + 1
          /\ i + o \in 1 .. Len(Ahead)
      BY <1>3, <1>4, <2>2
    <3> QED BY <1>4, <1>5, <3>1
  <2> QED BY <2>1, <2>2
<1>9. Framed(Ahead)'
  <2>1. Framed(Ahead)
    BY DEF IInv
  <2>2. Len(Ahead') + o <= Len(Ahead)
    BY <1>3, <1>4, <1>7
  <2>3. Framed(Ahead')
    BY <1>3, <1>4, <1>8, <2>1, <2>2, FramedPart
  <2> QED BY <2>3 DEF Framed, Follows, Rest, FrameSize
<1>10. /\ Len(Ahead) \in Nat /\ o <= Len(Stream) /\ Len(Stream) <= Len(Ahead)
       /\ \A i \in 1 .. o : Ahead[i] = u[i]
  BY <1>3, <1>4 DEF S
<1> QED BY <1>3, <1>6, <1>7, <1>8, <1>9, <1>10

\* read() of k bytes: the buffer and the wire are the stream as before; the
\* reader is at byte << n, p >> of a frame.
LEMMA RxReadEffect ==
  ASSUME IInv, RxRead
  PROVE  /\ Ahead # << >> /\ Ahead[1][1] \in 1 .. Len(sent) /\ connected
         /\ rx_pc = "len" \/ rx_pc = "body"
         /\ \E k \in Nat :
              LET u == rx_buf \o SubSeq(wire, 1, k)
                  v == SubSeq(wire, k + 1, Len(wire))
              IN /\ k > 0 /\ k <= rx_left /\ wire' = v
                 /\ u \in Seq((1 .. Len(sent)) \X Nat) /\ Len(u) = Len(rx_buf) + k
                 /\ v \in Seq((1 .. Len(sent)) \X Nat) /\ Stream = u \o v
                 /\ \/ /\ rx_left - k # 0 /\ rx_left' = rx_left - k
                       /\ rx_buf' = u /\ UNCHANGED << rx_pc, got >>
                    \/ /\ rx_left - k = 0 /\ rx_pc = "len" /\ rx_pc' = "body"
                       /\ rx_left' = sent[u[1][1]] /\ rx_buf' = << >>
                       /\ UNCHANGED got
                    \/ /\ rx_left - k = 0 /\ rx_pc = "body" /\ rx_pc' = "len"
                       /\ got' = Append(got, PacketRead(u))
                       /\ rx_left' = LengthSize /\ rx_buf' = << >>
<1> DEFINE B == (1 .. Len(sent)) \X Nat
<1>1. /\ TypeOK /\ Sending /\ Connecting /\ wire # << >>
      /\ rx_pc = "len" \/ rx_pc = "body"
  BY DEF IInv, RxRead
<1>2. connected
  BY <1>1 DEF Connecting
<1>3. wire \in Seq(B) /\ rx_buf \in Seq(B) /\ rx_left \in Nat
  BY <1>1 DEF TypeOK
<1>4. Ahead # << >> /\ Ahead[1][1] \in 1 .. Len(sent)
  <2>1. Shape
    BY <1>1, AheadShape
  <2>2. Len(wire) \in Nat /\ Len(wire) # 0 /\ Len(rx_buf) \in Nat
    BY <1>1, <1>3
  <2>3. 1 \in 1 .. Len(Stream) /\ Len(Stream) # 0
    BY <2>1, <2>2 DEF Shape
  <2>4. Ahead[1] = Stream[1] /\ Stream[1][1] \in 1 .. Len(sent)
    BY <2>1, <2>3 DEF Shape
  <2>5. Len(Ahead) # 0
    BY <2>1, <2>3 DEF Shape
  <2>6. Ahead # << >>
    BY <2>5
  <2> QED BY <2>4, <2>6
<1>5. PICK k \in 1 .. rx_left :
        LET u == rx_buf \o SubSeq(wire, 1, k)
            v == SubSeq(wire, k + 1, Len(wire))
        IN /\ k <= Len(wire) /\ wire' = v
           /\ \/ /\ rx_left - k # 0 /\ rx_left' = rx_left - k
                 /\ rx_buf' = u /\ UNCHANGED << rx_pc, got >>
              \/ /\ rx_left - k = 0 /\ rx_pc = "len" /\ rx_pc' = "body"
                 /\ rx_left' = sent[u[1][1]] /\ rx_buf' = << >>
                 /\ UNCHANGED got
              \/ /\ rx_left - k = 0 /\ rx_pc = "body" /\ rx_pc' = "len"
                 /\ got' = Append(got, PacketRead(u))
                 /\ rx_left' = LengthSize /\ rx_buf' = << >>
  BY Zenon DEF RxRead, Remaining, LengthRead
<1> DEFINE u == rx_buf \o SubSeq(wire, 1, k)
           v == SubSeq(wire, k + 1, Len(wire))
<1>6. k \in Nat /\ k > 0 /\ k <= rx_left
  BY <1>3
<1>7. /\ u \in Seq(B) /\ v \in Seq(B) /\ u \o v = rx_buf \o wire
      /\ Len(u) = Len(rx_buf) + k /\ Len(v) = Len(wire) - k
  <2>1. k \in 1 .. Len(wire)
    BY <1>3, <1>5, <1>6
  <2>2. wire \in Seq(B) /\ rx_buf \in Seq(B)
    BY <1>3
  <2> HIDE DEF B
  <2>3. \A b, w \in Seq(B) : \A j \in 1 .. Len(w) :
               /\ b \o SubSeq(w, 1, j) \in Seq(B)
               /\ SubSeq(w, j + 1, Len(w)) \in Seq(B)
               /\ (b \o SubSeq(w, 1, j)) \o SubSeq(w, j + 1, Len(w)) = b \o w
               /\ Len(b \o SubSeq(w, 1, j)) = Len(b) + j
               /\ Len(SubSeq(w, j + 1, Len(w))) = Len(w) - j
    BY ReadSplit, Zenon
  <2> QED BY <2>1, <2>2, <2>3, Zenon
<1>8. Stream = u \o v
  BY <1>7 DEF Stream
<1> HIDE DEF u, v
<1> QED BY <1>1, <1>2, <1>4, <1>5, <1>6, <1>7, <1>8 DEF u, v

LEMMA RxReadStep == ASSUME IInv, RxRead PROVE IInv'
<1> DEFINE B == (1 .. Len(sent)) \X Nat
           n == Ahead[1][1]
<1>1. /\ TypeOK /\ Sending /\ Connecting
      /\ UNCHANGED << sendVars, recv_pc, connVars, broken, is_reliable >>
      /\ UNCHANGED << send_pc, frames, left, copied, copy_buffer, sent, stored,
                      connect_lock, connected, connects, refused >>
  BY DEF IInv, RxRead, sendVars, connVars
<1>2. /\ Ahead # << >> /\ n \in 1 .. Len(sent) /\ connected
      /\ rx_pc = "len" \/ rx_pc = "body"
  BY RxReadEffect
<1>3. \E k \in Nat, u \in Seq(B), v \in Seq(B) :
        /\ k > 0 /\ k <= rx_left /\ wire' = v
        /\ Len(u) = Len(rx_buf) + k /\ Stream = u \o v
        /\ \/ /\ rx_left - k # 0 /\ rx_left' = rx_left - k
              /\ rx_buf' = u /\ UNCHANGED << rx_pc, got >>
           \/ /\ rx_left - k = 0 /\ rx_pc = "len" /\ rx_pc' = "body"
              /\ rx_left' = sent[u[1][1]] /\ rx_buf' = << >>
              /\ UNCHANGED got
           \/ /\ rx_left - k = 0 /\ rx_pc = "body" /\ rx_pc' = "len"
              /\ got' = Append(got, PacketRead(u))
              /\ rx_left' = LengthSize /\ rx_buf' = << >>
  BY RxReadEffect, Zenon
<1>4. PICK k \in Nat, u \in Seq(B), v \in Seq(B) :
        /\ k > 0 /\ k <= rx_left /\ wire' = v
        /\ Len(u) = Len(rx_buf) + k /\ Stream = u \o v
        /\ \/ /\ rx_left - k # 0 /\ rx_left' = rx_left - k
              /\ rx_buf' = u /\ UNCHANGED << rx_pc, got >>
           \/ /\ rx_left - k = 0 /\ rx_pc = "len" /\ rx_pc' = "body"
              /\ rx_left' = sent[u[1][1]] /\ rx_buf' = << >>
              /\ UNCHANGED got
           \/ /\ rx_left - k = 0 /\ rx_pc = "body" /\ rx_pc' = "len"
              /\ got' = Append(got, PacketRead(u))
              /\ rx_left' = LengthSize /\ rx_buf' = << >>
  BY <1>3
<1>5. /\ sent[n] \in Nat /\ sent[n] > 0 /\ FrameSize(n) = 2 + sent[n]
      /\ n \in Nat /\ n > 0 /\ Len(sent) \in Nat
  <2>1. sent \in Seq(Sizes)
    BY <1>1 DEF TypeOK
  <2> QED BY <1>1, <1>2, <2>1, PacketLength DEF FrameSize, LengthSize
<1>6. /\ rx_left \in Nat /\ Len(rx_buf) \in Nat /\ got \in Seq(0 .. Len(sent))
  <2>1. rx_buf \in Seq(B)
    BY <1>1 DEF TypeOK
  <2> HIDE DEF B
  <2> QED BY <1>1, <2>1 DEF TypeOK
<1>7. /\ rx_pc = "len" => rx_left + Len(rx_buf) = 2 /\ Ahead[1][2] = 1
      /\ rx_pc = "body" => rx_left + Len(rx_buf) = sent[n] /\ Ahead[1][2] = 3
  BY <1>2 DEF IInv, Reading, LengthSize
<1>8. Sending' /\ Connecting'
  <2>1. Sending'
    BY <1>1 DEF Sending
  <2>2. Connecting'
    BY <1>1, <1>2 DEF Connecting
  <2> QED BY <2>1, <2>2
<1>9. ASSUME rx_left' \in Nat, got' \in Seq(0 .. Len(sent)), rx_buf' \in Seq(B),
             rx_pc' = "len" \/ rx_pc' = "body"
      PROVE  TypeOK'
  <2>1. wire' \in Seq(B)
    BY <1>4
  <2> QED BY <1>1, <1>9, <2>1 DEF TypeOK
<1>10. u \in Seq(Bytewise) /\ Len(u) \in Nat
  <2>1. B \subseteq Bytewise
    BY <1>5 DEF Bytewise
  <2> HIDE DEF B
  <2> QED BY <2>1, SeqMono
<1>11. CASE /\ rx_left - k # 0 /\ rx_left' = rx_left - k
            /\ rx_buf' = u /\ UNCHANGED << rx_pc, got >>
  <2>1. TypeOK'
    BY <1>2, <1>4, <1>6, <1>9, <1>11
  <2>2. Stream' = Stream /\ Ahead' = Ahead
    <3>1. Stream' = Stream
      BY <1>4, <1>11 DEF Stream
    <3> QED BY <1>1, <3>1 DEF Ahead, Out, OutPosition, FrameSize
  <2>3. InFrames' /\ Framed(Ahead)'
    BY <1>1, <2>2 DEF IInv, InFrames, FrameSize, Framed, Follows, Rest
  <2>4. Reading'
    <3>1. rx_left' + Len(rx_buf') = rx_left + Len(rx_buf)
      <4>1. Len(u) = Len(rx_buf) + k
        BY <1>4
      <4>2. \A x \in Nat : (rx_left - k) + (x + k) = rx_left + x
        BY <1>6
      <4> QED BY <1>6, <1>11, <4>1, <4>2
    <3> QED BY <1>1, <1>11, <2>2, <3>1 DEF IInv, Reading
  <2>5. Received'
    BY <1>1, <1>11, <2>2
       DEF IInv, Received, FramesIntact, ReliableOrder, OnlyStoredIsLate
  <2> QED BY <1>8, <2>1, <2>3, <2>4, <2>5 DEF IInv
<1> DEFINE o == Len(u)
<1>12. ASSUME rx_left - k = 0, rx_buf' = << >>, TypeOK'
       PROVE  /\ o = rx_left + Len(rx_buf) /\ Len(Ahead) \in Nat
              /\ Len(Ahead') = Len(Ahead) - o /\ o <= Len(Ahead)
              /\ \A i \in 1 .. o : Ahead[i] = u[i]
              /\ \A i \in 1 .. Len(Ahead') :
                   Ahead'[i] = Ahead[i + o] /\ i + o \in 1 .. Len(Ahead)
              /\ InFrames' /\ Framed(Ahead)'
  <2>1. Stream = u \o Stream'
    <3>1. v \in Seq(B)
      OBVIOUS
    <3> HIDE DEF B
    <3>2. << >> \o v = v
      BY <3>1
    <3> QED BY <1>4, <1>12, <3>2 DEF Stream
  <2>2. /\ o \in Nat /\ Len(Ahead) \in Nat /\ Len(Ahead') = Len(Ahead) - o
        /\ o <= Len(Stream) /\ Len(Stream) <= Len(Ahead)
        /\ \A i \in 1 .. o : Ahead[i] = u[i]
        /\ \A i \in 1 .. Len(Ahead') :
             Ahead'[i] = Ahead[i + o] /\ i + o \in 1 .. Len(Ahead)
        /\ InFrames' /\ Framed(Ahead)'
    BY <1>1, <1>8, <1>10, <1>12, <2>1, Consume
  <2>3. o = rx_left + Len(rx_buf)
    <3>1. Len(u) = Len(rx_buf) + k
      BY <1>4
    <3>2. \A x \in Nat : rx_left - k = 0 => x + k = rx_left + x
      BY <1>6
    <3> QED BY <1>6, <1>12, <3>1, <3>2
  <2>4. Len(Stream) \in Nat
    <3>1. Shape
      BY <1>1, AheadShape
    <3> QED BY <3>1 DEF Shape
  <2>5. \A x, y, z \in Nat : x <= y /\ y <= z => x <= z
    OBVIOUS
  <2>6. o <= Len(Ahead)
    BY <2>2, <2>4, <2>5
  <2> QED BY <2>2, <2>3, <2>6
<1>13. Framed(Ahead) /\ Ahead \in Seq(Bytewise)
  <2>1. Shape
    BY <1>1, AheadShape
  <2> QED BY <2>1 DEF IInv, Shape
<1>14. ASSUME NEW j \in 1 .. Len(Ahead), j > 1
       PROVE  Follows(Ahead[1], Ahead[j], j - 1)
  <2>1. 1 \in 1 .. Len(Ahead) /\ 1 < j
    BY <1>13, <1>14
  <2> QED BY <1>13, <2>1 DEF Framed
<1>15. CASE /\ rx_left - k = 0 /\ rx_pc = "len" /\ rx_pc' = "body"
            /\ rx_left' = sent[u[1][1]] /\ rx_buf' = << >>
            /\ UNCHANGED got
  <2>1. Len(u) = 2 /\ u[1][1] = n
    <3>1. Len(u) = Len(rx_buf) + k
      BY <1>4
    <3>2. \A x \in Nat : rx_left - k = 0 /\ rx_left + x = 2 => x + k = 2
      BY <1>6
    <3>3. Len(u) = 2
      BY <1>6, <1>7, <1>15, <3>1, <3>2
    <3>4. Ahead[1] = u[1]
      <4>1. Shape
        BY <1>1, AheadShape
      <4>2. u \in Seq(Bytewise) /\ v \in Seq(Bytewise)
        <5>1. B \subseteq Bytewise
          BY <1>5 DEF Bytewise
        <5> HIDE DEF B
        <5> QED BY <5>1, SeqMono
      <4>3. Stream = u \o v
        BY <1>4
      <4>4. Stream[1] = u[1] /\ 1 \in 1 .. Len(Stream)
        BY <3>3, <4>2, <4>3, SplitIndex
      <4> QED BY <4>1, <4>4 DEF Shape
    <3> QED BY <3>3, <3>4
  <2>2. TypeOK'
    <3>1. rx_left' \in Nat /\ rx_buf' \in Seq(B)
      BY <1>5, <1>15, <2>1
    <3> QED BY <1>6, <1>9, <1>15, <3>1
  <2>3. /\ Len(Ahead) \in Nat /\ Len(Ahead') = Len(Ahead) - 2
        /\ \A i \in 1 .. Len(Ahead') :
             Ahead'[i] = Ahead[i + 2] /\ i + 2 \in 1 .. Len(Ahead)
        /\ InFrames' /\ Framed(Ahead)'
    BY <1>12, <1>15, <2>1, <2>2
  <2>4. Ahead' # << >> => Ahead'[1][1] = n /\ Ahead'[1][2] = 3
    <3> SUFFICES ASSUME Ahead' # << >>
                 PROVE  Ahead'[1][1] = n /\ Ahead'[1][2] = 3
      OBVIOUS
    <3>1. Shape'
      BY <1>8, <2>2, AheadShape, PTL
    <3>2. 1 \in 1 .. Len(Ahead')
      BY <3>1 DEF Shape
    <3>3. Ahead'[1] = Ahead[3] /\ 3 \in 1 .. Len(Ahead)
      BY <2>3, <3>2
    <3>4. Follows(Ahead[1], Ahead[3], 2)
      <4>1. 3 > 1 /\ 3 - 1 = 2
        OBVIOUS
      <4> QED BY <1>14, <3>3, <4>1
    <3>5. Rest(Ahead[1]) = 1 + sent[n]
      BY <1>5, <1>7, <1>15 DEF Rest
    <3>6. 2 <= Rest(Ahead[1])
      BY <1>5, <3>5
    <3>7. Ahead[1][2] = 1
      BY <1>7, <1>15
    <3> QED BY <3>3, <3>4, <3>6, <3>7 DEF Follows
  <2>5. Reading'
    <3>1. Len(rx_buf') = 0 /\ rx_left' + 0 = sent[n]
      BY <1>5, <1>15, <2>1
    <3> QED BY <1>1, <1>2, <1>15, <2>4, <3>1 DEF Reading, LengthSize
  <2>6. Received'
    <3>1. ASSUME NEW i \in 1 .. Len(got), NEW j \in 1 .. Len(Ahead'),
                 Ahead'[j][1] < got[i]
          PROVE  Ahead'[j][1] \in stored
      BY <2>3, <3>1 DEF IInv, Received
    <3>2. is_reliable /\ ~refused => n = Len(got) + 1
      BY <1>2, <1>15 DEF IInv, Received
    <3>3. FramesIntact' /\ ReliableOrder' /\ OnlyStoredIsLate'
      BY <1>1, <1>15
         DEF IInv, Received, FramesIntact, ReliableOrder, OnlyStoredIsLate
    <3> QED BY <1>1, <1>15, <2>4, <3>1, <3>2, <3>3 DEF Received
  <2> QED BY <1>8, <2>2, <2>3, <2>5, <2>6 DEF IInv
<1>16. CASE /\ rx_left - k = 0 /\ rx_pc = "body" /\ rx_pc' = "len"
            /\ got' = Append(got, PacketRead(u))
            /\ rx_left' = LengthSize /\ rx_buf' = << >>
  <2>1. o = sent[n]
    <3>1. Len(u) = Len(rx_buf) + k
      BY <1>4
    <3>2. \A x \in Nat : rx_left - k = 0 /\ rx_left + x = sent[n] => x + k = sent[n]
      BY <1>5, <1>6
    <3> QED BY <1>6, <1>7, <1>16, <3>1, <3>2
  <2>2. TypeOK'
    <3>1. PacketRead(u) \in 0 .. Len(sent)
      <4>1. 1 \in 1 .. o
        BY <1>5, <2>1
      <4>2. u[1] \in B
        BY <4>1
      <4>3. u[1][1] \in 0 .. Len(sent) /\ 0 \in 0 .. Len(sent)
        BY <1>5, <4>2
      <4> HIDE DEF B
      <4> QED BY <4>3 DEF PacketRead
    <3>2. got' \in Seq(0 .. Len(sent))
      BY <1>6, <1>16, <3>1
    <3>3. rx_left' \in Nat /\ rx_buf' \in Seq(B)
      BY <1>16 DEF LengthSize
    <3> QED BY <1>9, <1>16, <3>2, <3>3
  <2>3. /\ Len(Ahead) \in Nat /\ Len(Ahead') = Len(Ahead) - o /\ o <= Len(Ahead)
        /\ \A i \in 1 .. o : Ahead[i] = u[i]
        /\ \A i \in 1 .. Len(Ahead') :
             Ahead'[i] = Ahead[i + o] /\ i + o \in 1 .. Len(Ahead)
        /\ InFrames' /\ Framed(Ahead)'
    BY <1>12, <1>16, <2>2
  <2>4. /\ o \in Nat /\ o > 0 /\ Ahead[1][2] = 3
        /\ Rest(Ahead[1]) = o - 1
    <3>1. Ahead[1][2] = 3
      BY <1>7, <1>16
    <3>2. Rest(Ahead[1]) = FrameSize(n) - 3
      BY <3>1 DEF Rest
    <3> HIDE DEF o, n
    <3> QED BY <1>5, <2>1, <3>1, <3>2
  <2>5. u = Bytes(n, LengthSize + 1, FrameSize(n))
    <3>1. FrameSize(n) - (LengthSize + 1) + 1 = o
      BY <1>5, <2>1 DEF LengthSize
    <3>2. ASSUME NEW i \in 1 .. o
          PROVE  u[i] = << n, LengthSize + 1 + i - 1 >>
      <4>0. u[i] \in Bytewise /\ u[i] = Ahead[i]
        BY <1>10, <2>3
      <4>1. LengthSize + 1 + i - 1 = 3 + (i - 1)
        BY DEF LengthSize
      <4>2. Ahead[i][1] = n /\ Ahead[i][2] = 3 + (i - 1)
        <5>1. CASE i = 1
          BY <2>4, <5>1
        <5>2. CASE i # 1
          <6>1. i \in 1 .. Len(Ahead) /\ i > 1 /\ i - 1 <= o - 1
            BY <2>3, <2>4, <5>2
          <6>2. Follows(Ahead[1], Ahead[i], i - 1)
            BY <1>14, <6>1
          <6> QED BY <2>4, <6>1, <6>2 DEF Follows
        <5> QED BY <5>1, <5>2
      <4>3. \A b \in Bytewise : b = << b[1], b[2] >>
        BY DEF Bytewise
      <4> QED BY <4>0, <4>1, <4>2, <4>3
    <3>3. u = [i \in 1 .. o |-> u[i]]
      BY <1>10
    <3> HIDE DEF o
    <3>4. [i \in 1 .. o |-> u[i]] = [i \in 1 .. o |-> << n, LengthSize + 1 + i - 1 >>]
      BY <3>2
    <3> QED BY <3>1, <3>3, <3>4 DEF Bytes
  <2>6. PacketRead(u) = n
    <3>1. 1 \in 1 .. o
      BY <2>4
    <3>2. u[1][1] = n
      BY <2>3, <3>1
    <3> QED BY <2>5, <3>2 DEF PacketRead
  <2>7. Ahead' # << >> => /\ Ahead'[1][2] = 1
                          /\ is_reliable => Ahead'[1][1] = n + 1
    <3> SUFFICES ASSUME Ahead' # << >>
                 PROVE  /\ Ahead'[1][2] = 1
                        /\ is_reliable => Ahead'[1][1] = n + 1
      OBVIOUS
    <3>1. Shape'
      BY <1>8, <2>2, AheadShape, PTL
    <3>2. 1 \in 1 .. Len(Ahead')
      BY <3>1 DEF Shape
    <3>3. Ahead'[1] = Ahead[1 + o] /\ 1 + o \in 1 .. Len(Ahead)
      BY <2>3, <3>2
    <3>4. 1 + o > 1 /\ (1 + o) - 1 = o /\ o = (o - 1) + 1
      BY <2>4
    <3>5. Follows(Ahead[1], Ahead[1 + o], o)
      BY <1>14, <3>3, <3>4
    <3>6. o = Rest(Ahead[1]) + 1
      BY <2>4
    <3> HIDE DEF o
    <3> QED BY <3>3, <3>5, <3>6 DEF Follows
  <2>8. Reading'
    <3>1. Len(rx_buf') = 0 /\ rx_left' + Len(rx_buf') = LengthSize
      BY <1>16 DEF LengthSize
    <3>2. rx_pc' = "len"
      BY <1>16
    <3> QED BY <2>7, <3>1, <3>2 DEF Reading
  <2> DEFINE g == Len(got)
  <2>9. /\ g \in Nat /\ Len(got') = g + 1 /\ got'[g + 1] = n
        /\ \A i \in 1 .. g : got'[i] = got[i] /\ got[i] \in 0 .. Len(sent)
    BY <1>6, <1>16, <2>6
  <2>10. DOMAIN got = 1 .. g /\ DOMAIN got' = 1 .. g + 1
    <3>1. got' \in Seq(0 .. Len(sent))
      BY <1>1, <2>2 DEF TypeOK
    <3> QED BY <1>6, <2>9, <3>1
  <2>11. is_reliable => n = g + 1
    <3>1. ~refused
      BY <1>1, <1>2 DEF Connecting
    <3> QED BY <1>2, <3>1 DEF IInv, Received
  <2>12. ASSUME NEW i \in 1 .. g PROVE n < got[i] => n \in stored
    <3>1. 1 \in 1 .. Len(Ahead)
      BY <2>3, <2>4
    <3> QED BY <3>1 DEF IInv, Received
  <2> HIDE DEF g
  <2>13. \A i \in 1 .. g + 1 : i \in 1 .. g \/ i = g + 1
    BY <2>9
  <2>14. FramesIntact'
    <3>1. n # 0
      BY <1>5
    <3>2. \A i \in 1 .. g : got[i] # 0
      BY <2>10 DEF IInv, Received, FramesIntact
    <3> QED BY <2>9, <2>10, <2>13, <3>1, <3>2 DEF FramesIntact
  <2>15. ReliableOrder'
    BY <1>1, <2>9, <2>10, <2>11, <2>13 DEF IInv, Received, ReliableOrder
  <2>16. OnlyStoredIsLate'
    <3> SUFFICES ASSUME NEW i \in 1 .. g + 1, NEW j \in 1 .. g + 1,
                        i < j, got'[j] < got'[i]
                 PROVE  got'[j] \in stored
      BY <1>1, <2>10 DEF OnlyStoredIsLate
    <3>1. i \in 1 .. g
      BY <2>9
    <3>2. CASE j \in 1 .. g
      BY <2>9, <2>10, <3>1, <3>2 DEF IInv, Received, OnlyStoredIsLate
    <3>3. CASE j = g + 1
      BY <2>9, <2>12, <3>1, <3>3
    <3> QED BY <2>13, <3>2, <3>3
  <2>17. ASSUME NEW i \in 1 .. g + 1, NEW j \in 1 .. Len(Ahead'),
                Ahead'[j][1] < got'[i]
         PROVE  Ahead'[j][1] \in stored
    <3>1. Ahead'[j] = Ahead[j + o] /\ j + o \in 1 .. Len(Ahead)
      BY <2>3
    <3>2. CASE i \in 1 .. g
      BY <2>9, <2>17, <3>1, <3>2 DEF IInv, Received, g
    <3>3. CASE i = g + 1
      <4>1. j + o > 1
        BY <2>3, <2>4
      <4>2. Follows(Ahead[1], Ahead[j + o], j + o - 1)
        BY <1>14, <3>1, <4>1
      <4>3. got'[i] = Ahead[1][1]
        BY <2>9, <3>3
      <4> QED BY <2>17, <3>1, <4>2, <4>3 DEF Follows
    <3> QED BY <2>13, <3>2, <3>3
  <2>18. Received'
    <3>1. is_reliable => n + 1 = Len(got') + 1
      BY <2>9, <2>11
    <3>2. \A i \in 1 .. Len(got'), j \in 1 .. Len(Ahead') :
            Ahead'[j][1] < got'[i] => Ahead'[j][1] \in stored'
      BY <1>1, <2>9, <2>17
    <3>3. is_reliable' /\ ~refused' /\ Ahead' # << >> /\ rx_pc' # "end" =>
            Ahead'[1][1] = Len(got') + 1
      BY <1>1, <2>7, <3>1
    <3> QED BY <2>14, <2>15, <2>16, <3>2, <3>3 DEF Received
  <2> QED BY <1>8, <2>2, <2>3, <2>8, <2>18 DEF IInv
<1> QED BY <1>4, <1>11, <1>15, <1>16

LEMMA InvStep == IInv /\ [Next]_vars => IInv'
<1> SUFFICES ASSUME IInv, [Next]_vars PROVE IInv'
  OBVIOUS
<1>1. ASSUME NEW len \in Sizes, NetworkSend(len) PROVE IInv'
  BY <1>1, NetworkSendStep
<1>2. CASE SendStep
  BY <1>2, SendLockStep, SendConnectStep, SendWriteStep, SendFailStep DEF SendStep
<1>3. CASE RecvStep
  BY <1>3, RecvLockStep, RecvConnectStep DEF RecvStep
<1>4. CASE RxStep
  BY <1>4, RxReadStep, RxEndStep DEF RxStep
<1>5. CASE TcpBreak
  BY <1>5, TcpBreakStep
<1>6. CASE UNCHANGED vars
  <2>1. /\ UNCHANGED << sendVars, rxVars, wire, broken, is_reliable >>
        /\ UNCHANGED << recv_pc, connect_lock, connected, connects, refused >>
    BY <1>6 DEF vars, connVars
  <2>2. /\ Sending' /\ InFrames' /\ Framed(Ahead)' /\ Reading' /\ Received'
        /\ UNCHANGED << send_pc, frames, left, copied, copy_buffer, sent,
                        stored, rx_pc, rx_left, rx_buf, got >>
    BY <2>1, Unmoved
  <2>3. TypeOK' /\ Connecting'
    BY <2>1, <2>2 DEF IInv, TypeOK, Connecting, InFrame
  <2> QED BY <2>2, <2>3 DEF IInv
<1> QED BY <1>1, <1>2, <1>3, <1>4, <1>5, <1>6 DEF Next

LEMMA Invariance == Spec => []IInv
  BY InitStep, InvStep, PTL DEF Spec

----------------------------------------------------------------------------
(* Theorems, for packets of any sizes and any number, reliable or not, and *)
(* for connections that may be refused or lost.                            *)

\* The state of the sender, of the receive threads and of the connection
\* (_network_send(), _tcp_connect(), _tcp_io()) keeps its type: a packet to be
\* written, kept or received is one that was sent.
THEOREM TypeCorrect == Spec => []TypeOK
<1>1. IInv => TypeOK
  BY DEF IInv
<1> QED BY <1>1, Invariance, PTL

\* _network_recv_packet() never takes bytes of two packets, or a length, for a
\* packet, however write() and read() split the stream and wherever the
\* connection is lost.
THEOREM FramesCorrect == Spec => []FramesIntact
<1>1. IInv => FramesIntact
  BY DEF IInv, Received
<1> QED BY <1>1, Invariance, PTL

\* A reliable mysocket hands up the packets of stcp_network_send() in order,
\* none twice and none left out before one that arrives.
THEOREM ReliableOrderCorrect == Spec => []ReliableOrder
<1>1. IInv => ReliableOrder
  BY DEF IInv, Received
<1> QED BY <1>1, Invariance, PTL

\* Only a packet that _network_send() had put in copy_buffer is received after
\* a later one.
THEOREM OnlyStoredLate == Spec => []OnlyStoredIsLate
<1>1. IInv => OnlyStoredIsLate
  BY DEF IInv, Received
<1> QED BY <1>1, Invariance, PTL

\* The transport thread and the receive thread, which both call
\* _tcp_connect(), connect the socket at most once between them.
THEOREM ConnectedOnceCorrect == Spec => []ConnectedOnce
<1>1. IInv => ConnectedOnce
  BY DEF IInv, Connecting, ConnectedOnce
<1> QED BY <1>1, Invariance, PTL
============================================================================

---------------------------- MODULE FileTransfer ----------------------------
(***************************************************************************)
(* The two applications of the repository, client.c and server.c: clients  *)
(* request files by name over a mysocket each, and the server answers them *)
(* one client after the other.                                             *)
(*                                                                         *)
(* A connection is a pair of byte streams, as Connection shows that        *)
(* mywrite() and myread() provide them: bytes arrive in order, in pieces   *)
(* of any size, and then end of file.  Bytes are character codes.  A       *)
(* request is a line; a reply is a line "name,length,text", with the       *)
(* length -1 for an error, followed by the content of the file.  Sizes     *)
(* have one digit, the texts of the replies one letter, and lines fit in   *)
(* the buffers they are read into.                                         *)
(*                                                                         *)
(* The environment may change the size of a file at any time, disc         *)
(* operations may fail, and the transport layer may give a connection up,  *)
(* which cuts both streams anywhere.                                       *)
(***************************************************************************)
EXTENDS Integers, Sequences, FiniteSets, FiniteSetsExt, SequencesExt

CONSTANTS
  Clients,      \* the client processes
  Interactive,  \* those that read names from a user; the others run with -f
  Content,      \* the name of each file and the bytes it has at most
  StartSize,    \* the size of the files at the start
  Names,        \* the names that may be requested
  ClientBuf,    \* sizeof(line) in loop_until_end()
  ServerBuf,    \* sizeof(resp) in process_line()
  MaxRequests,  \* bound on the lines a user types
  MaxFaults     \* bound on what goes wrong: changes of size, failures, lost
                \* connections

ASSUME BufAssumption == ClientBuf \in Nat \ {0} /\ ServerBuf \in Nat \ {0}
ASSUME ContentAssumption ==
  /\ StartSize \in Nat /\ << >> \notin DOMAIN Content
  /\ \A f \in DOMAIN Content : /\ Content[f] \in Seq(Nat) /\ Len(Content[f]) < 10
                               /\ StartSize <= Len(Content[f])

VARIABLES
  size,      \* the size of each file now
  faults,    \* number of things that went wrong
  up, down,  \* bytes on their way from each client and to it
  up_end,    \* the client has closed its direction
  down_end,  \* the server has closed its direction
  cut,       \* the connection was given up
  c_pc, c_line, length, rcvd, errcnd, requests, \* the clients
  pending,   \* connections that myaccept() has not returned yet
  refused,   \* clients whose handshake failed
  s_pc, client, s_line, offset,                 \* the server
  asked,     \* history: the names each client has requested, in order
  taken,     \* history: how many of them the server has read
  outcome,   \* history: how the last request of each client ended
  read,      \* history: the bytes each client got from myread() for its file
  lost,      \* history: the disc lost some of them, and the client did not see
  announced, \* history: the size in the last reply to each client
  spilled,   \* history: bytes sent past the announced size
  short      \* history: a reply was shorter than announced

received == << rcvd, read, lost >>
cVars == << c_pc, c_line, length, received, errcnd, requests, asked, outcome >>
sVars == << s_pc, client, s_line, offset, taken, announced, spilled, short >>
ends == << up_end, down_end, cut >>
vars == << size, faults, up, down, ends, cVars, pending, refused, sVars >>

CR == 13
LF == 10
Comma == 44
Digit(n) == 48 + n
MinusOne == << 45, Digit(1) >>
Unset == -2   \* a variable that was never assigned

\* The server listens and waits in myaccept(); the clients have just started.
Init ==
  /\ size = [f \in DOMAIN Content |-> StartSize] /\ faults = 0
  /\ up = [c \in Clients |-> << >>] /\ down = [c \in Clients |-> << >>]
  /\ up_end = [c \in Clients |-> FALSE] /\ down_end = [c \in Clients |-> FALSE]
  /\ cut = [c \in Clients |-> FALSE]
  /\ c_pc = [c \in Clients |-> "start"] /\ c_line = [c \in Clients |-> << >>]
  /\ length = [c \in Clients |-> Unset] /\ rcvd = [c \in Clients |-> << >>]
  /\ errcnd = [c \in Clients |-> FALSE] /\ requests = [c \in Clients |-> 0]
  /\ pending = << >> /\ refused = {}
  /\ s_pc = "accept" /\ client = CHOOSE c \in Clients : TRUE
  /\ s_line = << >> /\ offset = 0
  /\ asked = [c \in Clients |-> << >>] /\ taken = [c \in Clients |-> 0]
  /\ outcome = [c \in Clients |-> "none"]
  /\ read = [c \in Clients |-> << >>] /\ lost = [c \in Clients |-> FALSE]
  /\ announced = [c \in Clients |-> 0] /\ spilled = [c \in Clients |-> << >>]
  /\ short = [c \in Clients |-> FALSE]

\* Something goes wrong now.
Fault == faults < MaxFaults /\ faults' = faults + 1

\* mywrite(): what is written to a connection that was given up is lost.
Put(stream, c, bytes) ==
  IF cut[c] THEN stream ELSE [stream EXCEPT ![c] = @ \o bytes]

----------------------------------------------------------------------------
(* get_nvt_line(), which both programs have.                               *)

\* The places of the line ends, CR and LF, in the bytes of a stream.
LineEnds(bytes) ==
  {i \in 1 .. Len(bytes) - 1 : bytes[i] = CR /\ bytes[i + 1] = LF}

\* Names are strings without a line end and do not begin with half of one:
\* fgets() stops at the first line feed, and loop_until_end() removes the space
\* at the end of what it got.  A name given with -f is assumed to be like that.
ASSUME NamesAssumption ==
  /\ Names \subseteq Seq(Nat)
  /\ \A name \in Names : LineEnds(name) = {} /\ (name # << >> => name[1] # LF)

\* Mutant: the carriage return is not taken back.
UpToLineEnd_Cr(bytes, i) == SubSeq(bytes, 1, i)

\* The line before the line end, whose CR is overwritten.
UpToLineEnd(bytes, i) == SubSeq(bytes, 1, i - 1)

\* get_nvt_line() reads byte by byte up to the first line end, which is one
\* step here since nobody else takes bytes from the stream.  A line that the
\* end of the connection cuts is terminated where it ends, with success.
LineReady(stream, end) == LineEnds(stream) # {} \/ end
NextLine(stream) ==
  IF LineEnds(stream) = {} THEN stream
  ELSE UpToLineEnd(stream, Min(LineEnds(stream)))
AfterLine(stream) ==
  IF LineEnds(stream) = {} THEN << >>
  ELSE SubSeq(stream, Min(LineEnds(stream)) + 2, Len(stream))

----------------------------------------------------------------------------
(* client.c                                                                *)

\* myconnect().  A handshake that fails on both sides ends the client, and
\* what is left for the server is a failed connection.
Connect(c) ==
  /\ c_pc[c] = "start"
  /\ pending' = Append(pending, c)
  /\ \/ c_pc' = [c_pc EXCEPT ![c] = "prompt"] /\ UNCHANGED << refused,
                                                              faults >>
     \/ /\ Fault /\ refused' = refused \cup {c}
        /\ c_pc' = [c_pc EXCEPT ![c] = "done"]
  /\ UNCHANGED << size, up, down, ends, c_line, length, received, errcnd,
                  requests, asked, outcome, sVars >>

\* The request is written and the reply expected.
SendRequest(c, name) ==
  /\ up' = Put(up, c, name \o << CR, LF >>)
  /\ asked' = [asked EXCEPT ![c] = Append(@, name)]
  /\ c_pc' = [c_pc EXCEPT ![c] = "line"]
  /\ c_line' = [c_line EXCEPT ![c] = << >>]
  /\ errcnd' = [errcnd EXCEPT ![c] = FALSE]
  /\ outcome' = [outcome EXCEPT ![c] = "none"]

\* The name of -f is requested once.
Request(c, name) ==
  /\ c_pc[c] = "prompt" /\ c \notin Interactive
  /\ SendRequest(c, name)
  /\ UNCHANGED << size, faults, down, ends, length, received, requests,
                  pending, refused, sVars >>

\* The user types a name.  A line with no more than one character is skipped.
Type(c, name) ==
  /\ c_pc[c] = "prompt" /\ c \in Interactive /\ requests[c] < MaxRequests
  /\ requests' = [requests EXCEPT ![c] = @ + 1]
  /\ \/ Len(name) > 1 /\ SendRequest(c, name)
     \/ Len(name) <= 1 /\ UNCHANGED << up, asked, c_pc, c_line, errcnd,
                                       outcome >>
  /\ UNCHANGED << size, faults, down, ends, length, received, pending, refused,
                  sVars >>

\* Leaving loop_until_end() and closing the mysocket.
Leave(c, pc) ==
  /\ c_pc' = [c_pc EXCEPT ![c] = pc]
  /\ up_end' = [up_end EXCEPT ![c] = TRUE]

\* After a reply the user is prompted again; with -f the client is done.
Again(c) ==
  \/ /\ c \in Interactive
     /\ c_pc' = [c_pc EXCEPT ![c] = "prompt"] /\ UNCHANGED up_end
  \/ c \notin Interactive /\ Leave(c, "done")

\* End of the user's input.
EndInput(c) ==
  /\ c_pc[c] = "prompt" /\ c \in Interactive
  /\ Leave(c, "done")
  /\ UNCHANGED << size, faults, up, down, down_end, cut, c_line, length,
                  received, errcnd, requests, pending, refused, asked, outcome,
                  sVars >>

\* get_nvt_line() of the reply.
ReadReply(c) ==
  /\ c_pc[c] = "line" /\ LineReady(down[c], down_end[c])
  /\ c_line' = [c_line EXCEPT ![c] = NextLine(down[c])]
  /\ down' = [down EXCEPT ![c] = AfterLine(@)]
  /\ c_pc' = [c_pc EXCEPT ![c] = "parse"]
  /\ UNCHANGED << size, faults, up, ends, length, received, errcnd, requests,
                  pending, refused, asked, outcome, sVars >>

\* The positions of the commas; strrchr() looks for the last two.
Commas(line) == {i \in DOMAIN line : line[i] = Comma}
LastComma(line) == CHOOSE i \in Commas(line) : \A j \in Commas(line) : j <= i
Malformed(line) == Cardinality(Commas(line)) < 2

\* The text between the last two commas.
LengthField(line) ==
  LET rest == SubSeq(line, 1, LastComma(line) - 1)
  IN SubSeq(rest, LastComma(rest) + 1, Len(rest))

\* The outcomes of sscanf("%d").  If there is no number the variable keeps its
\* value, which is any if it never had one.
Scanned(old, field) ==
  IF field = MinusOne THEN {-1}
  ELSE IF field # << >> /\ field[1] \in Digit(0) .. Digit(9)
       THEN {field[1] - Digit(0)}
  ELSE IF old = Unset THEN {-1, 0, 1} ELSE {old}

\* The reply is parsed, and the file "rcvd" opened if there is one to come.
ParseReply(c) ==
  /\ c_pc[c] = "parse"
  /\ \/ /\ Malformed(c_line[c])
        /\ Leave(c, "done")
        /\ outcome' = [outcome EXCEPT ![c] = "malformed"]
        /\ UNCHANGED << length, received, faults >>
     \/ /\ ~Malformed(c_line[c])
        /\ \E n \in Scanned(length[c], LengthField(c_line[c])) :
             /\ length' = [length EXCEPT ![c] = n]
             /\ \/ /\ n = -1 /\ Again(c)
                   /\ outcome' = [outcome EXCEPT ![c] = "error"]
                   /\ UNCHANGED << received, faults >>
                \/ /\ n # -1
                   /\ c_pc' = [c_pc EXCEPT ![c] = "body"]
                   /\ rcvd' = [rcvd EXCEPT ![c] = << >>]
                   /\ read' = [read EXCEPT ![c] = << >>]
                   /\ lost' = [lost EXCEPT ![c] = FALSE]
                   /\ UNCHANGED << up_end, outcome, faults >>
                \/ /\ n # -1 /\ Fault /\ Leave(c, "done")
                   /\ outcome' = [outcome EXCEPT ![c] = "error"]
                   /\ UNCHANGED received
  /\ c_line' = [c_line EXCEPT ![c] = << >>]
  /\ UNCHANGED << size, up, down, down_end, cut, errcnd, requests, pending,
                  refused, asked, sVars >>

\* Mutant: to_read is not corrected when fewer bytes came.
Remaining_Asked(len, got) == IF len > ClientBuf THEN len - ClientBuf ELSE 0

\* The bytes still to come after a myread() that returned got of them.
Remaining(len, got) == len - got

\* A failure of the disc that the client does not notice: of these bytes only
\* the first are in "rcvd".
Lose(c, bytes) ==
  /\ Fault /\ lost' = [lost EXCEPT ![c] = TRUE]
  /\ \E k \in 0 .. Len(bytes) - 1 :
       rcvd' = [rcvd EXCEPT ![c] = SubSeq(bytes, 1, k)]

\* fwrite().  If it returns 0 the client prints an error, sets errcnd, which
\* nothing reads, and goes on; what was still in the buffer of the file may be
\* lost too.  Any other count, also one that is too small, is taken for success.
WriteFile(c, bytes) ==
  \/ /\ rcvd' = [rcvd EXCEPT ![c] = @ \o bytes]
     /\ UNCHANGED << lost, errcnd, faults >>
  \/ /\ Fault /\ errcnd' = [errcnd EXCEPT ![c] = TRUE] /\ UNCHANGED lost
     /\ \E k \in 0 .. Len(rcvd[c]) :
          rcvd' = [rcvd EXCEPT ![c] = SubSeq(@, 1, k)]
  \/ /\ Len(bytes) > 1 /\ Lose(c, rcvd[c] \o bytes) /\ UNCHANGED errcnd

\* fclose(), which writes what is in the buffer and whose result is ignored.
CloseFile(c) ==
  /\ UNCHANGED << read, errcnd >>
  /\ \/ UNCHANGED << rcvd, lost, faults >>
     \/ Lose(c, rcvd[c])

\* One myread() of the content.
ReadContent(c) ==
  /\ c_pc[c] = "body" /\ length[c] # 0
  /\ \E got \in 1 .. ClientBuf :
       /\ got <= length[c] /\ got <= Len(down[c])
       /\ down' = [down EXCEPT ![c] = SubSeq(@, got + 1, Len(@))]
       /\ length' = [length EXCEPT ![c] = Remaining(@, got)]
       /\ read' = [read EXCEPT ![c] = @ \o SubSeq(down[c], 1, got)]
       /\ WriteFile(c, SubSeq(down[c], 1, got))
  /\ UNCHANGED << size, up, ends, c_pc, c_line, requests, pending, refused,
                  asked, outcome, sVars >>

\* All bytes have come.
FinishFile(c) ==
  /\ c_pc[c] = "body" /\ length[c] = 0
  /\ CloseFile(c) /\ Again(c)
  /\ outcome' = [outcome EXCEPT ![c] = "file"]
  /\ UNCHANGED << size, up, down, down_end, cut, c_line, length, requests,
                  pending, refused, asked, sVars >>

\* The connection ended before: the client closes and exits with -1.
FewerBytes(c) ==
  /\ c_pc[c] = "body" /\ length[c] # 0 /\ down[c] = << >> /\ down_end[c]
  /\ CloseFile(c) /\ Leave(c, "failed")
  /\ outcome' = [outcome EXCEPT ![c] = "short"]
  /\ UNCHANGED << size, up, down, down_end, cut, c_line, length, requests,
                  pending, refused, asked, sVars >>

----------------------------------------------------------------------------
(* server.c                                                                *)

\* myaccept() in the loop of main(), which ends the server if it fails.
Accept ==
  /\ s_pc = "accept" /\ pending # << >>
  /\ client' = Head(pending) /\ pending' = Tail(pending)
  /\ s_pc' = IF Head(pending) \in refused THEN "exit" ELSE "line"
  /\ s_line' = << >>
  /\ UNCHANGED << size, faults, up, down, ends, cVars, refused, offset, taken,
                  announced, spilled, short >>

\* get_nvt_line() of a request.
ReadRequest ==
  /\ s_pc = "line" /\ LineReady(up[client], up_end[client])
  /\ s_line' = NextLine(up[client])
  /\ up' = [up EXCEPT ![client] = AfterLine(@)]
  /\ s_pc' = "process"
  /\ taken' = [taken EXCEPT ![client] = @ + IF up[client] = << >> THEN 0 ELSE 1]
  /\ UNCHANGED << size, faults, down, ends, cVars, pending, refused, client,
                  offset, announced, spilled, short >>

\* myclose() at the end of do_connection() begins.
CloseConnection ==
  /\ s_pc' = "close" /\ down_end' = [down_end EXCEPT ![client] = TRUE]

\* Mutant: the reply to a bad request is not a line.
Reply_Unterminated(name, n) ==
  IF n = -1 THEN name \o << Comma >> \o MinusOne \o << Comma >>
  ELSE name \o << Comma, Digit(n), Comma, 79, CR, LF >>

\* The line "name,length,text": "Ok", or what is wrong with the file.
Reply(name, n) ==
  name \o << Comma >> \o (IF n = -1 THEN MinusOne ELSE << Digit(n) >>)
       \o << Comma, IF n = -1 THEN 70 ELSE 79, CR, LF >>

\* An empty line ends the connection.  Otherwise the reply is sent: with the
\* size of the file, which lseek() finds now, or -1.
ProcessLine ==
  /\ s_pc = "process"
  /\ \/ /\ s_line = << >> /\ CloseConnection
        /\ UNCHANGED << down, s_line, offset, announced, faults >>
     \/ /\ s_line \in DOMAIN Content
        /\ down' = Put(down, client, Reply(s_line, size[s_line]))
        /\ announced' = [announced EXCEPT ![client] = size[s_line]]
        /\ offset' = 0 /\ s_pc' = "send"
        /\ UNCHANGED << down_end, s_line, faults >>
     \/ /\ s_line # << >>
        /\ \/ s_line \notin DOMAIN Content /\ UNCHANGED faults
           \/ s_line \in DOMAIN Content /\ Fault
        /\ down' = Put(down, client, Reply(s_line, -1))
        /\ s_pc' = "line" /\ s_line' = << >>
        /\ UNCHANGED << down_end, offset, announced >>
  /\ UNCHANGED << size, up, up_end, cut, cVars, pending, refused, client, taken,
                  spilled, short >>

\* The bytes that the next read() of the file returns.
Chunk ==
  LET n == size[s_line]
      last == IF offset + ServerBuf < n THEN offset + ServerBuf ELSE n
  IN SubSeq(Content[s_line], offset + 1, last)

\* The bytes of a chunk beyond the size that was announced.
Beyond(chunk) ==
  LET room == announced[client] - offset
  IN SubSeq(chunk, (IF room > 0 THEN room ELSE 0) + 1, Len(chunk))

\* One read() of the file and mywrite() of what it returned, until there is no
\* more.  An error closes the connection.
SendContent ==
  /\ s_pc = "send"
  /\ \/ /\ Chunk # << >>
        /\ down' = Put(down, client, Chunk)
        /\ offset' = offset + Len(Chunk)
        /\ spilled' = [spilled EXCEPT ![client] = @ \o Beyond(Chunk)]
        /\ UNCHANGED << s_pc, s_line, down_end, short, faults >>
     \/ /\ Chunk = << >>
        /\ s_pc' = "line" /\ s_line' = << >>
        /\ short' = [short EXCEPT ![client] = @ \/ offset < announced[client]]
        /\ UNCHANGED << down, offset, down_end, spilled, faults >>
     \/ /\ Fault /\ CloseConnection
        /\ UNCHANGED << down, offset, s_line, spilled, short >>
  /\ UNCHANGED << size, up, up_end, cut, cVars, pending, refused, client, taken,
                  announced >>

\* myclose() returns when the client has closed too or the connection is lost.
ConnectionClosed ==
  /\ s_pc = "close" /\ (up_end[client] \/ cut[client])
  /\ s_pc' = "accept"
  /\ UNCHANGED << size, faults, up, down, ends, cVars, pending, refused, client,
                  s_line, offset, taken, announced, spilled, short >>

----------------------------------------------------------------------------
(* The environment.                                                        *)

\* Another program changes the size of a file.
ChangeFile(f) ==
  /\ Fault
  /\ \E n \in 0 .. Len(Content[f]) :
       n # size[f] /\ size' = [size EXCEPT ![f] = n]
  /\ UNCHANGED << up, down, ends, cVars, pending, refused, sVars >>

\* The transport layer gives a connection up: what has not arrived is lost and
\* both sides find the end of the stream.
GiveUp(c) ==
  /\ Fault /\ ~cut[c] /\ c_pc[c] # "start"
  /\ \E i \in 0 .. Len(up[c]), j \in 0 .. Len(down[c]) :
       /\ up' = [up EXCEPT ![c] = SubSeq(@, 1, i)]
       /\ down' = [down EXCEPT ![c] = SubSeq(@, 1, j)]
  /\ cut' = [cut EXCEPT ![c] = TRUE]
  /\ up_end' = [up_end EXCEPT ![c] = TRUE]
  /\ down_end' = [down_end EXCEPT ![c] = TRUE]
  /\ UNCHANGED << size, cVars, pending, refused, sVars >>

----------------------------------------------------------------------------
ClientStep(c) ==
  \/ \E name \in Names : Request(c, name)
  \/ ReadReply(c) \/ ParseReply(c) \/ ReadContent(c) \/ FinishFile(c)
  \/ FewerBytes(c)

ServerStep ==
  Accept \/ ReadRequest \/ ProcessLine \/ SendContent \/ ConnectionClosed

Next ==
  \/ \E c \in Clients : Connect(c) \/ ClientStep(c) \/ EndInput(c) \/ GiveUp(c)
  \/ \E c \in Clients, name \in Names : Type(c, name)
  \/ ServerStep
  \/ \E f \in DOMAIN Content : ChangeFile(f)

Spec == Init /\ [][Next]_vars

\* Both programs run, and a user who was prompted ends the session some day.
FairSpec ==
  /\ Spec /\ WF_vars(ServerStep)
  /\ \A c \in Clients : WF_vars(ClientStep(c)) /\ WF_vars(EndInput(c))

----------------------------------------------------------------------------
(* Properties.                                                             *)

\* A client that takes a request for served has read exactly the bytes of the
\* file it asked for, as many as the server announced, also if the file grew or
\* shrank while it was sent, replies came in pieces, or an earlier reply was
\* longer than announced: what is too much becomes the beginning of the next
\* reply line, which is parsed from its end.  The exceptions are surplus bytes
\* that contain a line end, a reply cut in a name that has a comma, and surplus
\* bytes with commas at the end of the connection: there something else is
\* scanned as the length.
\*
\* These bytes, and none of an earlier reply, are what "rcvd" holds, unless the
\* disc fails.  That the client knows only if a fwrite() returns 0 (errcnd): a
\* short count and a failing fclose() lose bytes of a request that it takes for
\* served without an error (lost).
ReceivedFile ==
  \A c \in Clients :
    outcome[c] = "file" =>
      LET name == Last(asked[c]) IN
        /\ \/ /\ name \in DOMAIN Content
              /\ IsPrefix(read[c], Content[name]) /\ Len(read[c]) = announced[c]
           \/ LineEnds(spilled[c]) # {}
           \/ cut[c] /\ Commas(name) # {}
           \/ down_end[c] /\ Commas(spilled[c]) # {}
        /\ rcvd[c] = read[c] \/ errcnd[c] \/ lost[c]

\* The server handles the names that the client has requested one by one and
\* in that order (do_connection() and get_nvt_line()): requests are not torn,
\* merged, left out or repeated.  The exception is a request cut by the end of
\* the connection, whose beginning is taken for a name.
HandledWasAsked ==
  s_pc \in {"process", "send"} /\ s_line # << >> =>
    /\ taken[client] \in DOMAIN asked[client]
    /\ LET name == asked[client][taken[client]] IN
         \/ s_line = name
         \/ cut[client] /\ IsStrictPrefix(s_line, name \o << CR, LF >>)

\* Every request ends for its client, with the file, an error, or the end of
\* the connection, also for clients that wait while others are served.  What
\* can prevent it: a file that became shorter than announced, when server and
\* client wait for each other for ever, and a failed handshake, after which
\* the server exits although it means to "keep accepting connections forever".
RequestEnds ==
  \A c \in Clients :
    (c_pc[c] = "line") ~>
      \/ c_pc[c] \in {"prompt", "done", "failed"}
      \/ s_pc = "exit"
      \/ \E d \in Clients : short[d]
=============================================================================

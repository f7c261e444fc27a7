------------------------------ MODULE BytePipe ------------------------------
(***************************************************************************)
(* What a mysocket promises about one direction of its byte stream,        *)
(* between the application and the transport layer:  bytes come out in the *)
(* order they went in, none is lost, repeated or invented, and the end of  *)
(* the stream (the close event in one direction, end of file in the other) *)
(* is reported once, after the last byte.                                  *)
(***************************************************************************)
EXTENDS Naturals

VARIABLES
  sent,    \* number of bytes put into the pipe
  rcvd,    \* number of bytes taken out of it
  closed,  \* the writing side has finished
  ended    \* the reading side has been told so

vars == << sent, rcvd, closed, ended >>

Init == sent = 0 /\ rcvd = 0 /\ closed = FALSE /\ ended = FALSE

\* The writing side adds bytes, as long as it has not closed the pipe.
Write == /\ ~closed
         /\ sent' \in Nat /\ sent' > sent
         /\ UNCHANGED << rcvd, closed, ended >>

\* The reading side takes some of the bytes that are in the pipe.
Read == /\ ~ended
        /\ rcvd' \in Nat /\ rcvd < rcvd' /\ rcvd' <= sent
        /\ UNCHANGED << sent, closed, ended >>

Close == /\ closed' = TRUE
         /\ UNCHANGED << sent, rcvd, ended >>

\* The reading side learns of the close, and only after every byte.
End == /\ closed /\ rcvd = sent /\ ~ended
       /\ ended' = TRUE
       /\ UNCHANGED << sent, rcvd, closed >>

Next == Write \/ Read \/ Close \/ End

Spec == Init /\ [][Next]_vars
============================================================================

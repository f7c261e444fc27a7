--------------------------- MODULE MCFileTransfer ---------------------------
(* A small instance of FileTransfer for TLC.                               *)
EXTENDS FileTransfer, TLC

\* The file "ab", which looks like a reply after its first byte, and the file
\* "a,b".
TwoFiles ==
  << 97, 98 >> :> << 120, Comma, Digit(1), Comma, CR, LF >>
  @@ << 97, Comma, 98 >> :> << 121, 122 >>

\* Both files, a name with one character and a name of no file.
SomeNames == DOMAIN TwoFiles \cup { << 122 >>, << 110, 111 >> }
=============================================================================

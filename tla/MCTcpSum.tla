------------------------------ MODULE MCTcpSum ------------------------------
(* A small instance of TcpSum for TLC: bytes of two bits.                  *)
EXTENDS TcpSum

HostPorts == [h \in Hosts |-> IF h = "sender" THEN << 1, 2 >> ELSE << 0, 3 >>]
TwoAddresses == {<< 1, 0 >>, << 3, 2 >>}
SomeSeqs == {<< 0, 0 >>, << 0, 1 >>, << 3, 3 >>}
=============================================================================

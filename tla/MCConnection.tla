---------------------------- MODULE MCConnection ----------------------------
(* Small instances of Connection for TLC.                                  *)
EXTENDS Connection

Call(flags, timed) == [flags |-> flags, timed |-> timed]

\* A transport layer that always waits for every event, for as long as it
\* takes: it relies on being woken up.
PlainCalls == {Call(ANY_EVENT, FALSE)}

\* A transport layer that waits for any event, or leaves the application's
\* data alone (its send window is full) until a packet or a timeout comes.
MaskingCalls == {Call(ANY_EVENT, FALSE),
                 Call({"NETWORK_DATA", "APP_CLOSE_REQUESTED"}, TRUE)}
============================================================================

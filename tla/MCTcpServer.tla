----------------------------- MODULE MCTcpServer -----------------------------
(* TcpServer for TLC. *)
EXTENDS TcpServer

\* One call that looks at the table and one that changes it.
SomeMuxCalls == {[call |-> "Select"]} \cup {[call |-> "Remove", portal |-> c] : c \in Obliging}
NoMuxCalls == {}
=============================================================================

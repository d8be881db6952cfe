----------------------------- MODULE MCTcpServer -----------------------------
(* Instances of TcpServer for TLC. *)
EXTENDS TcpServer

CONSTANTS c1, c2, i1, s1

TwoConns == {c1, c2}
OneIP == {i1}
OneCaller == {s1}
=============================================================================

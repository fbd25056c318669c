----------------------------- MODULE MCGraphSync ------------------------------
(* Two processes, a loopback pair between them, and the sockets of each    *)
(* configuration.                                                          *)
EXTENDS GraphSync, TLC

CONSTANTS a, b, X, Y, La, Lb

Sock(pid, kind, local, remote, end, port) ==
  [pid |-> pid, kind |-> kind, local |-> local, remote |-> remote,
   end |-> end, port |-> port]

(* a's two sockets to one remote host, on different ports.                 *)
WebA  == Sock(a, "external", "la1", "rx1", X, 443)
WebA2 == Sock(a, "external", "la2", "rx2", X, 80)
(* b's socket to another host.                                             *)
WebB  == Sock(b, "external", "lb1", "ry1", Y, 443)
(* A loopback connection: a's side, b's side, and a's side while Windows   *)
(* does not attribute it yet.                                              *)
LoopA == Sock(a, "localhost", "pa", "pb", Lb, 1)
LoopB == Sock(b, "localhost", "pb", "pa", La, 2)
LoopN == Sock(NoPid, "localhost", "pa", "pb", Lb, 1)

AllConns == {WebA, WebA2, WebB, LoopA, LoopB, LoopN}

OneEach == [k \in Kinds |-> IF k = "external" THEN 1 ELSE 9]
=============================================================================

-------------------------- MODULE MCProxyDirectory --------------------------
(* Instances of ProxyDirectory: n1 to n3 are nodes, q1 is a request. *)
EXTENDS ProxyDirectory

CONSTANTS n1, n2, n3, q1
=============================================================================

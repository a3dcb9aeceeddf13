---------------------------- MODULE MCProxyRelay ----------------------------
(* Instances of ProxyRelay: h1 and h2 are GET requests, c1 and c2 connect requests. *)
EXTENDS ProxyRelay

CONSTANTS h1, h2, c1, c2
=============================================================================

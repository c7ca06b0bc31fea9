---------------------------- MODULE MCProxyArena ----------------------------
(* Instances of ProxyArena for TLC; the .cfg files give the constants. *)
EXTENDS ProxyArena
=============================================================================

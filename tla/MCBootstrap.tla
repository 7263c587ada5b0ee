---------------------------- MODULE MCBootstrap ----------------------------
(* An instance of Bootstrap for TLC. *)
EXTENDS Bootstrap

(* Three nodes: the coordinator's last wait, a full registry buffer and a *)
(* rendezvous with a connection that is not yet waiting all occur.        *)
MCN == 3
=============================================================================

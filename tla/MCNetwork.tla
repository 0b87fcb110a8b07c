----------------------------- MODULE MCNetwork ------------------------------
(***************************************************************************)
(* A node with two peers.  A behaviour is about one of three loads, so that *)
(* their states add up instead of multiplying: requests, visits, bans and   *)
(* restarts with a changing configuration; two threads that drain the queue *)
(* of two rebroadcast blocks; or one that drains while the queue overflows. *)
(***************************************************************************)
EXTENDS PeerNode

VARIABLE load

\* Negative numbers and sets a .cfg cannot write.
MCBanThreshold == -2
MCMinScore == -3
MCTrustSets == {{}, {"p1"}}

NetworkInit == Init /\ \/ load = "peers"
                       \/ load \in {"relay", "flood"} /\ trusted = {}

PeerLoad == load = "peers" /\ (PeerNext \/ Tick) /\ UNCHANGED load
RelayLoad == /\ load = "relay" /\ (RelayNext \/ Tick) /\ UNCHANGED load
             /\ Len(items') <= 2 /\ UNCHANGED inventory
FloodLoad == /\ load = "flood" /\ RelayNext /\ UNCHANGED load
             /\ ~Running("t2")'

NetworkSpec == NetworkInit /\ [][PeerLoad \/ RelayLoad \/ FloodLoad]_<<vars, load>>
=============================================================================

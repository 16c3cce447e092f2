------------------------------- MODULE MCTunnel -------------------------------
(* Instances of Tunnel for TLC *)
EXTENDS Tunnel

MCAnnounced == {{"LOCAL_TCP"}, {"RELAY_TCP"}}
=============================================================================

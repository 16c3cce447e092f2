------------------------------ MODULE MCSyncCall ------------------------------
(* Instances of SyncCall for TLC *)
EXTENDS SyncCall
=============================================================================

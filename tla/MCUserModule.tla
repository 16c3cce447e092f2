----------------------------- MODULE MCUserModule -----------------------------
(* Instances of UserModule for TLC *)
EXTENDS UserModule
=============================================================================

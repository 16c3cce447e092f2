----------------------------- MODULE MCIPCModule -----------------------------
(* Instances of IPCModule for TLC.  Connectors are interchangeable,
   and so are ConnectThreads. *)
EXTENDS IPCModule, TLC

Symmetry == Permutations(Conn) \cup Permutations(Thread)
=============================================================================

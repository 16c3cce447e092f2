-------------------------- MODULE MCIPCArbitration --------------------------
EXTENDS IPCArbitration, FiniteSets

(* Every order of the ends' values.  Exchanging the connections and exchanging
   the modules takes any end to any other one, so one end can be given the
   smallest value.                                                         *)
OrdersUpToSymmetry ==
  {f \in [End -> 1..Cardinality(End)] :
     /\ \A d, e \in End : d # e => f[d] # f[e]
     /\ f[CHOOSE e \in End : TRUE] = 1}
=============================================================================

------------------------- MODULE MCInternalConnection -------------------------
EXTENDS InternalConnection

(* every property is about ids used once: what comes after a second use is not explored *)
UsedOnce == \A s \in Side, id \in Id : made[s][id] < 2
=============================================================================

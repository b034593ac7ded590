------------------------------ MODULE MCApiServer ------------------------------
(* Calls with every mix of routes from one address under one key; the key to *)
(* be revoked is the same or one that may not exist.                         *)
EXTENDS ApiServer, TLC

CONSTANTS a1, k1, k2, e1

AllRequests ==
  { [route |-> r, address |-> a1, key |-> k1,
     target |-> IF r = "version" THEN e1 ELSE k1] : r \in Routes }
  \cup {[route |-> "revoke", address |-> a1, key |-> k1, target |-> k2]}

Symmetry == Permutations(Calls)
=============================================================================

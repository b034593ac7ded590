------------------------------- MODULE RateLimit -------------------------------
(***************************************************************************)
(* The counter that RateLimitMiddleware keeps in Redis for each address:   *)
(* one INCR per request and an EXPIRE by the request that created it.      *)
(***************************************************************************)
EXTENDS Naturals

CONSTANTS Addresses, DEFAULT_LIMIT

ASSUME LimitAssumption == DEFAULT_LIMIT \in Nat

VARIABLE counter   \* value 0: no such key

NoCounter == [value |-> 0, expires |-> FALSE]

RateLimitInit == counter = [a \in Addresses |-> NoCounter]

incr(a) == counter' = [counter EXCEPT ![a].value = @ + 1]

\* Nothing happens to a key that is gone.
expire(a) ==
  counter' = [counter EXCEPT ![a].expires = @ \/ counter[a].value > 0]

\* Redis drops the key, some time after its EXPIRE.
WindowEnds(a) ==
  /\ counter[a].expires
  /\ counter' = [counter EXCEPT ![a] = NoCounter]
=============================================================================

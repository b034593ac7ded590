-------------------------------- MODULE ApiKeys --------------------------------
(***************************************************************************)
(* The rows of the API keys.  Each statement is given with the commit that *)
(* follows it in the same request: the row stays locked in between.        *)
(***************************************************************************)

CONSTANT Keys

VARIABLE key_state   \* no row yet, is_active, or not

ApiKeysInit == key_state = [k \in Keys |-> "none"]

\* The lookup sees active rows only.
get_by_raw_key(k) == key_state[k] = "active"

create(k) ==
  key_state[k] = "none" /\ key_state' = [key_state EXCEPT ![k] = "active"]

\* Mutant: the row is written back as it was loaded when it was looked up.
touch_whole_row(k) == key_state' = [key_state EXCEPT ![k] = "active"]

\* Writes last_used_at and no other column of the row.
touch(k) == UNCHANGED key_state

revoke(k) ==
  key_state[k] # "none" /\ key_state' = [key_state EXCEPT ![k] = "revoked"]

\* A start makes sure of its key; a revoked one stays as it is.
ensure_raw_key(k) ==
  key_state' = [key_state EXCEPT ![k] = IF @ = "none" THEN "active" ELSE @]
=============================================================================

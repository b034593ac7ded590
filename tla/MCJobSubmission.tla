---------------------------- MODULE MCJobSubmission ----------------------------
(* Two clients share a key, a third sends the empty one; a fourth pages    *)
(* through their jobs.                                                      *)
EXTENDS JobListing

CONSTANTS a, b, c0, k, empty

ThreeClients == {a, b, c0}
TwoKeys == {k, empty}
SharedKey == [c \in Clients |-> IF c = c0 THEN empty ELSE k]
=============================================================================

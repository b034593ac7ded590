------------------------------- MODULE ApiServer -------------------------------
(***************************************************************************)
(* A request on its way through the API: the rate limiter, the key that    *)
(* every route but the creation of keys wants, and the handler.  Requests  *)
(* overlap and interleave at every await.  The routes that only read are   *)
(* one route here; submissions have their own module.                      *)
(***************************************************************************)
EXTENDS RateLimit, ApiKeys, ExperimentVersions

CONSTANTS
  Requests,   \* [route, address, key, target : a key or an experiment]
  SeedKeys,   \* keys the entry point or the launcher makes sure of at a start
  MaxFaults   \* bound: failing Redis commands and calls that die

Routes == {"create_key", "read", "revoke", "version"}

ASSUME ServerAssumption ==
  /\ MaxFaults \in Nat /\ SeedKeys \subseteq Keys
  /\ \A r \in Requests :
       /\ r.route \in Routes /\ r.address \in Addresses /\ r.key \in Keys
       /\ r.route = "revoke" => r.target \in Keys
       /\ r.route = "version" => r.target \in Experiments

VARIABLES
  request,     \* what each call asks for
  pc, reply,
  current,     \* what INCR counted the call as, 0 before
  broken,      \* calls let through because their INCR or EXPIRE failed
  before,      \* the calls that had been answered when this one arrived
  faults

callVars == <<request, broken, before, faults>>
rows == <<counter, key_state, version, max_ver>>
serverVars == <<rows, request, pc, reply, current, broken, before, faults>>

ServerInit ==
  /\ RateLimitInit /\ ApiKeysInit /\ VersionsInit
  /\ request \in [Calls -> Requests]
  /\ pc = [c \in Calls |-> "away"]
  /\ reply = [c \in Calls |-> "none"]
  /\ current = [c \in Calls |-> 0]
  /\ broken = {}
  /\ before = [c \in Calls |-> {}]
  /\ faults = 0

-----------------------------------------------------------------------------
At(c, label) == pc[c] = label
Goto(c, label) == pc' = [pc EXCEPT ![c] = label] /\ UNCHANGED reply
Answer(c, code) ==
  pc' = [pc EXCEPT ![c] = "done"] /\ reply' = [reply EXCEPT ![c] = code]

Arrive(c) ==
  /\ At(c, "away") /\ Goto(c, "incr")
  /\ before' = [before EXCEPT ![c] = { d \in Calls : pc[d] = "done" }]
  /\ UNCHANGED <<rows, request, current, broken, faults>>

Counted(c) ==
  /\ incr(request[c].address)
  /\ current' = [current EXCEPT ![c] = counter[request[c].address].value + 1]

Incr(c) ==
  /\ At(c, "incr") /\ Counted(c)
  /\ Goto(c, IF counter[request[c].address].value = 0 THEN "expire" ELSE "limit")
  /\ UNCHANGED <<key_state, version, max_ver, callVars>>

\* Mutant: no expiry is set.
ExpireSkips(c) ==
  /\ At(c, "expire") /\ UNCHANGED counter
  /\ Goto(c, "limit")
  /\ UNCHANGED <<key_state, version, max_ver, current, callVars>>

Expire(c) ==
  /\ At(c, "expire") /\ expire(request[c].address)
  /\ Goto(c, "limit")
  /\ UNCHANGED <<key_state, version, max_ver, current, callVars>>

Enter(c) ==
  Goto(c, IF request[c].route = "create_key" THEN "create_key" ELSE "lookup")

Limit(c) ==
  /\ At(c, "limit")
  /\ IF current[c] > DEFAULT_LIMIT THEN Answer(c, "429") ELSE Enter(c)
  /\ UNCHANGED <<rows, current, callVars>>

\* Fail open: the command was not executed, or it was and its reply is lost.
RedisFails(c) ==
  /\ \/ At(c, "incr") /\ (Counted(c) \/ UNCHANGED <<counter, current>>)
     \/ /\ At(c, "expire") /\ (expire(request[c].address) \/ UNCHANGED counter)
        /\ UNCHANGED current
  /\ faults < MaxFaults /\ faults' = faults + 1
  /\ broken' = broken \cup {c}
  /\ Enter(c)
  /\ UNCHANGED <<key_state, version, max_ver, request, before>>

\* redis.close() raises in the finally, over a 429 that was about to be returned.
CloseFails(c) ==
  /\ At(c, "limit")
  /\ faults < MaxFaults /\ faults' = faults + 1
  /\ Enter(c)
  /\ UNCHANGED <<rows, request, current, broken, before>>

-----------------------------------------------------------------------------
\* A key of its own for every request, as long as the model has one left.
CreateKey(c) ==
  /\ At(c, "create_key") /\ \E k \in Keys : create(k)
  /\ Answer(c, "201")
  /\ UNCHANGED <<counter, version, max_ver, current, callVars>>

\* Mutant: a revoked key is found too.
LookupAny(c) ==
  /\ At(c, "lookup")
  /\ IF key_state[request[c].key] # "none" THEN Goto(c, "touch") ELSE Answer(c, "401")
  /\ UNCHANGED <<rows, current, callVars>>

Lookup(c) ==
  /\ At(c, "lookup")
  /\ IF get_by_raw_key(request[c].key) THEN Goto(c, "touch") ELSE Answer(c, "401")
  /\ UNCHANGED <<rows, current, callVars>>

Touch(c) ==
  /\ At(c, "touch") /\ touch(request[c].key)
  /\ Goto(c, request[c].route)
  /\ UNCHANGED <<counter, version, max_ver, current, callVars>>

Read(c) ==
  /\ At(c, "read") /\ Answer(c, "200")
  /\ UNCHANGED <<rows, current, callVars>>

Revoke(c) ==
  /\ At(c, "revoke") /\ revoke(request[c].target)
  /\ Answer(c, "204")
  /\ UNCHANGED <<counter, version, max_ver, current, callVars>>

RevokeMissing(c) ==
  /\ At(c, "revoke") /\ key_state[request[c].target] = "none"
  /\ Answer(c, "404")
  /\ UNCHANGED <<rows, current, callVars>>

ReadMax(c) ==
  /\ At(c, "version") /\ SelectMax(c, request[c].target)
  /\ Goto(c, "insert")
  /\ UNCHANGED <<counter, key_state, current, callVars>>

InsertVersion(c) ==
  /\ At(c, "insert") /\ Insert(c, request[c].target)
  /\ Goto(c, "list")
  /\ UNCHANGED <<counter, key_state, current, callVars>>

ListVersions(c) ==
  /\ At(c, "list") /\ Answer(c, "201")
  /\ UNCHANGED <<rows, current, callVars>>

-----------------------------------------------------------------------------
\* The process dies, the client hangs up or a statement fails: what the call
\* has not committed is rolled back.
Lose(c) ==
  /\ pc[c] \notin {"away", "done"}
  /\ faults < MaxFaults /\ faults' = faults + 1
  /\ Answer(c, "lost")
  /\ UNCHANGED <<rows, request, current, broken, before>>

EnsureKey(k) ==
  /\ ensure_raw_key(k)
  /\ UNCHANGED <<counter, version, max_ver, pc, reply, current, callVars>>

NextWindow(a) ==
  /\ WindowEnds(a)
  /\ UNCHANGED <<key_state, version, max_ver, pc, reply, current, callVars>>

ServerNext ==
  \/ \E c \in Calls :
       \/ Arrive(c) \/ Incr(c) \/ Expire(c) \/ Limit(c) \/ RedisFails(c) \/ CloseFails(c)
       \/ CreateKey(c) \/ Lookup(c) \/ Touch(c)
       \/ Read(c) \/ Revoke(c) \/ RevokeMissing(c)
       \/ ReadMax(c) \/ InsertVersion(c) \/ ListVersions(c) \/ Lose(c)
  \/ \E k \in SeedKeys : EnsureKey(k)
  \/ \E a \in Addresses : NextWindow(a)

ServerSpec == ServerInit /\ [][ServerNext]_serverVars

-----------------------------------------------------------------------------
Labels == Routes \cup {"away", "incr", "expire", "limit", "lookup", "touch",
                       "insert", "list", "done"}

\* Types of the variables; a call that is on its way has no answer yet.
TypeOK ==
  /\ counter \in [Addresses -> [value : Nat, expires : BOOLEAN]]
  /\ key_state \in [Keys -> {"none", "active", "revoked"}]
  /\ version \in [Calls -> [experiment : Experiments \cup {NoExperiment}, number : Nat]]
  /\ max_ver \in [Calls -> Nat]
  /\ request \in [Calls -> Requests]
  /\ pc \in [Calls -> Labels]
  /\ reply \in [Calls -> {"none", "200", "201", "204", "401", "404", "429", "lost"}]
  /\ current \in [Calls -> Nat]
  /\ broken \subseteq Calls
  /\ before \in [Calls -> SUBSET Calls]
  /\ faults \in 0 .. MaxFaults
  /\ \A c \in Calls : pc[c] # "done" <=> reply[c] = "none"

\* A counter without an expiry refuses an address for ever.  The only way to
\* leave one behind is to fail between the INCR and the EXPIRE of one call.
CounterExpires ==
  \A a \in Addresses :
    counter[a].value > 0 /\ ~ counter[a].expires =>
      \E c \in Calls :
        /\ request[c].address = a /\ current[c] = 1
        /\ pc[c] = "expire" \/ c \in broken \/ reply[c] = "lost"

\* Nothing brings a revoked key back: neither the requests under way that
\* found it active, nor a second revocation, nor a restart of the launcher.
RevocationIsFinal ==
  [][\A k \in Keys : key_state[k] = "revoked" => key_state'[k] = "revoked"]_serverVars

\* A call that arrives after a key's revocation was answered is not served
\* under that key.
RevokedKeyIsRefused ==
  \A c, d \in Calls :
    /\ d \in before[c] /\ request[d].route = "revoke" /\ reply[d] = "204"
    /\ request[c].key = request[d].target /\ request[c].route # "create_key"
    => reply[c] \in {"none", "401", "429", "lost"}

SameExperiment(c, d) ==
  version[c].number > 0 /\ version[d].number > 0 /\ version[c].experiment = version[d].experiment

\* Numbers may repeat, for two requests can read the same maximum, but none
\* is left out.
NoVersionGaps ==
  \A c \in Calls : version[c].number > 1 =>
    \E d \in Calls : SameExperiment(c, d) /\ version[d].number = version[c].number - 1

\* A version created after another one was answered has the higher number.
LaterVersionIsHigher ==
  \A c, d \in Calls :
    d \in before[c] /\ SameExperiment(c, d) => version[c].number > version[d].number
=============================================================================

---------------------------- MODULE ApiServerProofs ----------------------------
(***************************************************************************)
(* The invariants of the API server for any number of calls, keys,         *)
(* addresses and experiments, any limit and any number of faults.          *)
(***************************************************************************)
EXTENDS ApiServer, TLAPS

\* One step of one call.
Step(c) ==
  \/ Arrive(c) \/ Incr(c) \/ Expire(c) \/ Limit(c) \/ RedisFails(c) \/ CloseFails(c)
  \/ CreateKey(c) \/ Lookup(c) \/ Touch(c)
  \/ Read(c) \/ Revoke(c) \/ RevokeMissing(c)
  \/ ReadMax(c) \/ InsertVersion(c) \/ ListVersions(c) \/ Lose(c)

LEMMA TypeInit == ServerInit => TypeOK
BY ServerAssumption
   DEF ServerInit, TypeOK, RateLimitInit, NoCounter, ApiKeysInit, VersionsInit, NoVersion, Labels

\* Where a call is tells what it asked for, what it was counted as and whether
\* its row can exist.
CallInv ==
  \A c \in Calls :
    /\ pc[c] \in Routes => request[c].route = pc[c]
    /\ pc[c] \in {"insert", "list"} => request[c].route = "version"
    /\ pc[c] = "expire" => current[c] = 1
    /\ current[c] > 0 => pc[c] \notin {"away", "incr"}
    /\ version[c].number > 0 =>
         pc[c] \in {"list", "done"} /\ version[c].experiment = request[c].target
    /\ version[c].number = 0 => version[c] = NoVersion
    /\ \A d \in before[c] : pc[d] = "done"

\* The two commands keep the type of the counters.
LEMMA CommandTypes ==
  ASSUME counter \in [Addresses -> [value : Nat, expires : BOOLEAN]],
         NEW a \in Addresses, incr(a) \/ expire(a)
  PROVE  counter' \in [Addresses -> [value : Nat, expires : BOOLEAN]]
<1>1. counter[a].value + 1 \in Nat
  OBVIOUS
<1>2. CASE incr(a)
  BY <1>1, <1>2 DEF incr
<1>3. CASE expire(a)
  BY ZenonT(30), <1>3 DEF expire
<1>4. QED
  BY <1>2, <1>3

LEMMA TypeStep ==
  ASSUME TypeOK, CallInv, NEW c \in Calls, Step(c)
  PROVE  TypeOK'
<1> USE DEF TypeOK, Labels, Routes, At, Goto, Answer, callVars, rows
<1>0. /\ request[c].route \in Routes /\ request[c].address \in Addresses
      /\ request[c].route = "version" => request[c].target \in Experiments
      /\ request[c].route = "revoke" => request[c].target \in Keys
  BY ServerAssumption
<1>1. CASE Arrive(c)
  BY <1>0, <1>1, ServerAssumption DEF Arrive
<1>2. CASE Incr(c)
  <2>1. counter[request[c].address].value + 1 \in Nat
    BY <1>0
  <2>2. counter' \in [Addresses -> [value : Nat, expires : BOOLEAN]]
    BY <1>0, <1>2, CommandTypes DEF Incr, Counted
  <2>3. current' \in [Calls -> Nat]
    BY <1>2, <2>1 DEF Incr, Counted
  <2>4. pc' \in [Calls -> Labels] /\ \A d \in Calls : pc'[d] # "done" <=> reply'[d] = "none"
    BY <1>2 DEF Incr
  <2>5. QED
    BY <1>2, <2>2, <2>3, <2>4 DEF Incr
<1>3. CASE Expire(c)
  BY ZenonT(30), <1>0, <1>3, ServerAssumption DEF Expire, expire
<1>4. CASE Limit(c)
  BY ZenonT(30), <1>0, <1>4, ServerAssumption DEF Limit, Enter
<1>5. CASE RedisFails(c)
  <2>1. counter' \in [Addresses -> [value : Nat, expires : BOOLEAN]]
    <3>1. CASE incr(request[c].address) \/ expire(request[c].address)
      BY <1>0, <3>1, CommandTypes
    <3>2. QED
      BY <1>5, <3>1 DEF RedisFails, Counted
  <2>2. current' \in [Calls -> Nat]
    BY <1>0, <1>5 DEF RedisFails, Counted
  <2>3. pc' \in [Calls -> Labels] /\ \A d \in Calls : pc'[d] # "done" <=> reply'[d] = "none"
    BY <1>5 DEF RedisFails, Enter
  <2>4. UNCHANGED <<key_state, version, max_ver, request, before, reply>> /\ broken' \subseteq Calls
    BY <1>5 DEF RedisFails, Enter
  <2>5. faults' \in 0 .. MaxFaults
    BY <1>5, ServerAssumption DEF RedisFails
  <2>6. QED
    BY <2>1, <2>2, <2>3, <2>4, <2>5
<1>17. CASE CloseFails(c)
  BY <1>0, <1>17, ServerAssumption DEF CloseFails, Enter
<1>6. CASE CreateKey(c)
  BY <1>0, <1>6, ServerAssumption DEF CreateKey, create
<1>7. CASE Lookup(c)
  BY ZenonT(30), <1>0, <1>7, ServerAssumption DEF Lookup, get_by_raw_key
<1>8. CASE Touch(c)
  BY <1>0, <1>8, ServerAssumption DEF Touch, touch
<1>9. CASE Read(c)
  BY <1>0, <1>9, ServerAssumption DEF Read
<1>10. CASE Revoke(c)
  BY <1>0, <1>10, ServerAssumption DEF Revoke, revoke
<1>11. CASE RevokeMissing(c)
  BY <1>0, <1>11, ServerAssumption DEF RevokeMissing
<1>12. CASE ReadMax(c)
  <2>1. Numbers(request[c].target) \subseteq Nat
    BY DEF Numbers
  <2>2. max_ver' \in [Calls -> Nat]
    BY <1>12, <2>1 DEF ReadMax, SelectMax
  <2>3. QED
    BY <1>12, <2>2 DEF ReadMax, SelectMax
<1>13. CASE InsertVersion(c)
  <2>1. request[c].target \in Experiments
    <3>1. pc[c] = "insert"
      BY <1>13 DEF InsertVersion
    <3>2. request[c].route = "version"
      BY <3>1 DEF CallInv
    <3>3. QED
      BY <1>0, <3>2
  <2>2. [experiment |-> request[c].target, number |-> max_ver[c] + 1]
          \in [experiment : Experiments \cup {NoExperiment}, number : Nat]
    BY <2>1
  <2>3. version' \in [Calls -> [experiment : Experiments \cup {NoExperiment}, number : Nat]]
    BY <1>13, <2>2 DEF InsertVersion, Insert
  <2>4. pc' \in [Calls -> Labels] /\ \A d \in Calls : pc'[d] # "done" <=> reply'[d] = "none"
    BY <1>13 DEF InsertVersion
  <2>5. QED
    BY <1>13, <2>3, <2>4 DEF InsertVersion, Insert
<1>14. CASE ListVersions(c)
  BY <1>0, <1>14, ServerAssumption DEF ListVersions
<1>15. CASE Lose(c)
  BY <1>0, <1>15, ServerAssumption DEF Lose
<1>16. QED
  BY <1>1, <1>2, <1>3, <1>4, <1>5, <1>6, <1>7, <1>8, <1>9, <1>10, <1>11, <1>12, <1>13, <1>14, <1>15, <1>17 DEF Step

\* A step of a call touches its own entries only, and an answered call has no
\* step left.
LEMMA Frame ==
  ASSUME TypeOK, NEW c \in Calls, Step(c)
  PROVE  /\ request' = request /\ pc[c] # "done" /\ reply[c] = "none"
         /\ \A d \in Calls : d # c =>
              /\ pc'[d] = pc[d] /\ reply'[d] = reply[d] /\ current'[d] = current[d]
              /\ version'[d] = version[d] /\ max_ver'[d] = max_ver[d]
              /\ before'[d] = before[d]
         /\ pc[c] # "away" => before'[c] = before[c]
         /\ pc[c] # "incr" => current'[c] = current[c]
         /\ pc[c] # "insert" => version'[c] = version[c]
<1> USE DEF TypeOK, At, Goto, Answer, callVars, rows, Routes
<1>1. CASE Arrive(c)
  BY <1>1 DEF Arrive
<1>2. CASE Incr(c)
  BY <1>2 DEF Incr, Counted, incr
<1>3. CASE Expire(c)
  BY <1>3 DEF Expire, expire
<1>4. CASE Limit(c)
  BY <1>4 DEF Limit, Enter
<1>5. CASE RedisFails(c)
  BY <1>5 DEF RedisFails, Enter, Counted, incr, expire
<1>17. CASE CloseFails(c)
  BY <1>17 DEF CloseFails, Enter
<1>6. CASE CreateKey(c)
  BY <1>6 DEF CreateKey, create
<1>7. CASE Lookup(c)
  BY <1>7 DEF Lookup, get_by_raw_key
<1>8. CASE Touch(c)
  BY <1>8 DEF Touch, touch
<1>9. CASE Read(c)
  BY <1>9 DEF Read
<1>10. CASE Revoke(c)
  BY <1>10 DEF Revoke, revoke
<1>11. CASE RevokeMissing(c)
  BY <1>11 DEF RevokeMissing
<1>12. CASE ReadMax(c)
  BY <1>12 DEF ReadMax, SelectMax
<1>13. CASE InsertVersion(c)
  BY <1>13 DEF InsertVersion, Insert
<1>14. CASE ListVersions(c)
  BY <1>14 DEF ListVersions
<1>15. CASE Lose(c)
  BY <1>15 DEF Lose
<1>16. QED
  BY <1>1, <1>2, <1>3, <1>4, <1>5, <1>6, <1>7, <1>8, <1>9, <1>10, <1>11, <1>12, <1>13, <1>14, <1>15, <1>17 DEF Step

LEMMA CallStep ==
  ASSUME TypeOK, CallInv, NEW c \in Calls, Step(c)
  PROVE  CallInv'
<1> DEFINE Own(d) ==
       /\ pc[d] \in Routes => request[d].route = pc[d]
       /\ pc[d] \in {"insert", "list"} => request[d].route = "version"
       /\ pc[d] = "expire" => current[d] = 1
       /\ current[d] > 0 => pc[d] \notin {"away", "incr"}
       /\ version[d].number > 0 =>
            pc[d] \in {"list", "done"} /\ version[d].experiment = request[d].target
       /\ version[d].number = 0 => version[d] = NoVersion
<1>a. \A d \in Calls : d # c => Own(d)'
  BY Frame DEF CallInv
<1>b. Own(c)'
  <2> USE DEF TypeOK, At, Goto, Answer, callVars, rows
  <2>0. Own(c) /\ request[c].route \in Routes
    BY ServerAssumption DEF CallInv
  <2>1. CASE Arrive(c)
    BY <2>0, <2>1 DEF Arrive, Routes
  <2>2. CASE Incr(c)
    BY <2>0, <2>2 DEF Incr, Counted, incr, Routes
  <2>3. CASE Expire(c)
    BY <2>0, <2>3 DEF Expire, expire, Routes
  <2>4. CASE Limit(c)
    BY <2>0, <2>4 DEF Limit, Enter, Routes
  <2>5. CASE RedisFails(c)
    BY <2>0, <2>5 DEF RedisFails, Enter, Counted, incr, expire, Routes
  <2>17. CASE CloseFails(c)
    BY <2>0, <2>17 DEF CloseFails, Enter, Routes
  <2>6. CASE CreateKey(c)
    BY <2>0, <2>6 DEF CreateKey, create, Routes
  <2>7. CASE Lookup(c)
    BY <2>0, <2>7 DEF Lookup, get_by_raw_key, Routes
  <2>8. CASE Touch(c)
    BY <2>0, <2>8 DEF Touch, touch, Routes
  <2>9. CASE Read(c)
    BY <2>0, <2>9 DEF Read, Routes
  <2>10. CASE Revoke(c)
    BY <2>0, <2>10 DEF Revoke, revoke, Routes
  <2>11. CASE RevokeMissing(c)
    BY <2>0, <2>11 DEF RevokeMissing, Routes
  <2>12. CASE ReadMax(c)
    BY <2>0, <2>12 DEF ReadMax, SelectMax, Routes
  <2>13. CASE InsertVersion(c)
    BY <2>0, <2>13 DEF InsertVersion, Insert, Routes
  <2>14. CASE ListVersions(c)
    BY <2>0, <2>14 DEF ListVersions, Routes
  <2>15. CASE Lose(c)
    BY <2>0, <2>15 DEF Lose, Routes
  <2>16. QED
    BY <2>1, <2>2, <2>3, <2>4, <2>5, <2>6, <2>7, <2>8, <2>9, <2>10, <2>11, <2>12, <2>13, <2>14, <2>15, <2>17 DEF Step
<1>c. ASSUME NEW d \in Calls, NEW b \in before'[d]
      PROVE  pc'[b] = "done"
  <2>1. CASE d = c /\ pc[c] = "away"
    <3>1. CASE Arrive(c)
      BY <1>c, <2>1, <3>1, Frame DEF Arrive, TypeOK
    <3>2. CASE ~ Arrive(c)
      BY <2>1, <3>2 DEF Step, At, Incr, Expire, Limit, RedisFails, CloseFails, CreateKey, Lookup, Touch,
         Read, Revoke, RevokeMissing, ReadMax, InsertVersion, ListVersions, Lose
    <3>3. QED
      BY <3>1, <3>2
  <2>2. CASE d # c \/ pc[c] # "away"
    <3>1. b \in before[d] /\ b \in Calls
      BY <1>c, <2>2, Frame DEF TypeOK
    <3>2. pc[b] = "done"
      BY <3>1 DEF CallInv
    <3>3. QED
      BY <3>1, <3>2, Frame
  <2>3. QED
    BY <2>1, <2>2
<1>d. QED
  BY <1>a, <1>b, <1>c DEF CallInv

\* What is not a step of a call leaves the calls and the versions alone.
Background ==
  (\E k \in SeedKeys : EnsureKey(k)) \/ (\E a \in Addresses : NextWindow(a)) \/ UNCHANGED serverVars

LEMMA StepsOrBackground ==
  [ServerNext]_serverVars <=> (\E c \in Calls : Step(c)) \/ Background
BY DEF ServerNext, Step, Background

LEMMA BackgroundFrame ==
  Background => UNCHANGED <<version, max_ver, pc, reply, current, callVars>>
BY DEF Background, EnsureKey, NextWindow, serverVars, rows, callVars

LEMMA BackgroundType == TypeOK /\ Background => TypeOK'
<1> SUFFICES ASSUME TypeOK, Background PROVE TypeOK'
  OBVIOUS
<1> USE DEF TypeOK, callVars
<1>1. ASSUME NEW k \in SeedKeys, EnsureKey(k) PROVE TypeOK'
  BY <1>1, ServerAssumption DEF EnsureKey, ensure_raw_key
<1>2. ASSUME NEW a \in Addresses, NextWindow(a) PROVE TypeOK'
  BY <1>2 DEF NextWindow, WindowEnds, NoCounter
<1>3. ASSUME UNCHANGED serverVars PROVE TypeOK'
  BY <1>3 DEF serverVars, rows
<1>4. QED
  BY <1>1, <1>2, <1>3 DEF Background

LEMMA CallInit == ServerInit => CallInv
BY DEF ServerInit, VersionsInit, NoVersion, CallInv, Routes

-----------------------------------------------------------------------------
LEMMA RevokedStays ==
  ASSUME TypeOK, NEW k \in Keys, key_state[k] = "revoked", [ServerNext]_serverVars
  PROVE  key_state'[k] = "revoked"
<1> USE DEF TypeOK, callVars, rows
<1>1. ASSUME NEW c \in Calls, Step(c) PROVE key_state'[k] = "revoked"
  <2>1. CASE CreateKey(c)
    BY <2>1 DEF CreateKey, create
  <2>2. CASE Touch(c)
    BY <2>2 DEF Touch, touch
  <2>3. CASE Revoke(c)
    BY <2>3 DEF Revoke, revoke
  <2>4. CASE ReadMax(c) \/ InsertVersion(c) \/ Incr(c) \/ Expire(c) \/ RedisFails(c)
    BY <2>4 DEF ReadMax, InsertVersion, Incr, Expire, RedisFails
  <2>5. CASE UNCHANGED rows
    BY <2>5
  <2>6. QED
    BY <1>1, <2>1, <2>2, <2>3, <2>4, <2>5
       DEF Step, Arrive, Limit, CloseFails, Lookup, Read, RevokeMissing, ListVersions, Lose
<1>2. CASE Background
  BY <1>2, ServerAssumption DEF Background, EnsureKey, ensure_raw_key, NextWindow, serverVars
<1>3. QED
  BY <1>1, <1>2, StepsOrBackground

\* After the answer to a revocation the key is revoked, and a call that
\* arrived later has not passed the lookup of that key.
KeyInv ==
  /\ \A d \in Calls : reply[d] = "204" =>
       request[d].route = "revoke" /\ key_state[request[d].target] = "revoked"
  /\ \A c, d \in Calls :
       /\ d \in before[c] /\ request[d].route = "revoke" /\ reply[d] = "204"
       /\ request[c].key = request[d].target /\ request[c].route # "create_key"
       => /\ pc[c] \in {"away", "incr", "expire", "limit", "lookup", "done"}
          /\ reply[c] \in {"none", "401", "429", "lost"}

LEMMA KeyStep ==
  ASSUME TypeOK, CallInv, KeyInv, NEW c \in Calls, Step(c)
  PROVE  KeyInv'
<1>1. ASSUME NEW d \in Calls, reply'[d] = "204"
      PROVE  request'[d].route = "revoke" /\ key_state'[request'[d].target] = "revoked"
  <2>1. CASE reply[d] = "204"
    <3>1. request[d].route = "revoke" /\ key_state[request[d].target] = "revoked"
      BY <2>1 DEF KeyInv
    <3>2. request[d].target \in Keys
      BY <3>1, ServerAssumption DEF TypeOK
    <3>3. [ServerNext]_serverVars
      BY StepsOrBackground
    <3>4. QED
      BY <3>1, <3>2, <3>3, RevokedStays, Frame
  <2>2. CASE reply[d] # "204"
    <3>1. d = c
      BY <1>1, <2>2, Frame
    <3>2. Revoke(c)
      BY <1>1, <2>2, <3>1 DEF Step, TypeOK, Goto, Answer, Enter, Arrive, Incr, Expire, Limit,
         RedisFails, CloseFails, CreateKey, Lookup, Touch, Read, RevokeMissing, ReadMax, InsertVersion,
         ListVersions, Lose
    <3>3. request[c].route = "revoke"
      BY <3>2 DEF Revoke, At, CallInv, Routes
    <3>4. request[c].target \in Keys
      BY <3>3, ServerAssumption DEF TypeOK
    <3>5. QED
      BY <3>1, <3>2, <3>3, <3>4, Frame DEF Revoke, revoke, TypeOK
  <2>3. QED
    BY <2>1, <2>2
<1>2. ASSUME NEW b \in Calls, NEW d \in Calls,
             d \in before'[b], request'[d].route = "revoke", reply'[d] = "204",
             request'[b].key = request'[d].target, request'[b].route # "create_key"
      PROVE  /\ pc'[b] \in {"away", "incr", "expire", "limit", "lookup", "done"}
             /\ reply'[b] \in {"none", "401", "429", "lost"}
  <2>1. CASE b = c /\ pc[c] = "away"
    <3>1. Arrive(c)
      BY <2>1 DEF Step, At, Incr, Expire, Limit, RedisFails, CloseFails, CreateKey, Lookup, Touch,
         Read, Revoke, RevokeMissing, ReadMax, InsertVersion, ListVersions, Lose
    <3>2. QED
      BY <2>1, <3>1, Frame DEF Arrive, Goto, TypeOK
  <2>2. CASE b = c /\ pc[c] # "away"
    <3>1. d \in before[c] /\ pc[d] = "done" /\ d # c
      BY <1>2, <2>2, Frame DEF CallInv
    <3>2. /\ pc[c] \in {"away", "incr", "expire", "limit", "lookup", "done"}
          /\ request[d].route = "revoke" /\ reply[d] = "204" /\ request[c].route # "create_key"
          /\ request[c].key = request[d].target
      BY <1>2, <2>2, <3>1, Frame DEF KeyInv
    <3>3. key_state[request[c].key] # "active"
      BY <3>2 DEF KeyInv
    <3>4. pc[c] \in {"incr", "expire", "limit", "lookup"} /\ reply[c] = "none"
      BY <2>2, <3>2, Frame
    <3>5. CASE Incr(c) \/ Expire(c) \/ Limit(c) \/ RedisFails(c) \/ CloseFails(c) \/ Lookup(c) \/ Lose(c)
      BY <2>2, <3>2, <3>3, <3>4, <3>5
         DEF Incr, Expire, Limit, RedisFails, CloseFails, Lookup, Lose, Enter, Goto, Answer, get_by_raw_key, TypeOK
    <3>6. QED
      BY <3>4, <3>5 DEF Step, At, Arrive, CreateKey, Touch, Read, Revoke, RevokeMissing,
         ReadMax, InsertVersion, ListVersions
  <2>3. CASE b # c
    <3>1. d \in before[b] /\ pc[d] = "done" /\ d # c
      BY <1>2, <2>3, Frame DEF CallInv
    <3>2. QED
      BY <1>2, <2>3, <3>1, Frame DEF KeyInv
  <2>4. QED
    BY <2>1, <2>2, <2>3
<1>3. QED
  BY <1>1, <1>2 DEF KeyInv

LEMMA KeyBackground == TypeOK /\ KeyInv /\ Background => KeyInv'
<1> SUFFICES ASSUME TypeOK, KeyInv, Background PROVE KeyInv'
  OBVIOUS
<1>1. UNCHANGED <<pc, reply, request, before>>
  BY BackgroundFrame DEF callVars
<1>2. ASSUME NEW d \in Calls, reply[d] = "204"
      PROVE  request[d].route = "revoke" /\ key_state'[request[d].target] = "revoked"
  <2>1. request[d].route = "revoke" /\ key_state[request[d].target] = "revoked"
    BY <1>2 DEF KeyInv
  <2>2. request[d].target \in Keys
    BY <2>1, ServerAssumption DEF TypeOK
  <2>3. QED
    BY <2>1, <2>2, RevokedStays, StepsOrBackground
<1>3. QED
  BY <1>1, <1>2 DEF KeyInv

-----------------------------------------------------------------------------
LEMMA CounterStep ==
  ASSUME TypeOK, CallInv, CounterExpires, NEW c \in Calls, Step(c)
  PROVE  CounterExpires'
<1>1. SUFFICES ASSUME NEW a \in Addresses, counter'[a].value > 0, ~ counter'[a].expires
               PROVE  \E d \in Calls :
                        /\ request'[d].address = a /\ current'[d] = 1
                        /\ pc'[d] = "expire" \/ d \in broken' \/ reply'[d] = "lost"
  BY DEF CounterExpires
<1> DEFINE Creates == Counted(c) /\ request[c].address = a /\ counter[a].value = 0
<1>2. CASE Creates /\ (Incr(c) \/ RedisFails(c))
  BY <1>2, Frame DEF Incr, RedisFails, Counted, Goto, TypeOK
<1>3. CASE ~ (Creates /\ (Incr(c) \/ RedisFails(c)))
  <2>1. counter[a].value > 0 /\ ~ counter[a].expires
    <3>1. CASE Counted(c) /\ (Incr(c) \/ RedisFails(c))
      <4>1. ~ Creates
        BY <1>3, <3>1
      <4>2. counter' = [counter EXCEPT ![request[c].address].value = @ + 1]
        BY <3>1 DEF Counted, incr
      <4>3. QED
        BY <1>1, <3>1, <4>1, <4>2 DEF TypeOK
    <3>2. CASE expire(request[c].address)
      BY <1>1, <3>2 DEF expire, TypeOK
    <3>3. CASE counter' = counter
      BY <1>1, <3>3
    <3>4. QED
      BY <3>1, <3>2, <3>3 DEF Step, rows, Arrive, Incr, Expire, Limit, RedisFails, CloseFails, CreateKey,
         Lookup, Touch, Read, Revoke, RevokeMissing, ReadMax, InsertVersion, ListVersions, Lose
  <2>2. PICK d \in Calls :
          /\ request[d].address = a /\ current[d] = 1
          /\ pc[d] = "expire" \/ d \in broken \/ reply[d] = "lost"
    BY <2>1 DEF CounterExpires
  <2>3. request'[d].address = a /\ current'[d] = 1
    BY <2>2, Frame DEF CallInv, TypeOK
  <2>4. broken \subseteq broken'
    BY DEF Step, callVars, Arrive, Incr, Expire, Limit, RedisFails, CloseFails, CreateKey, Lookup, Touch,
         Read, Revoke, RevokeMissing, ReadMax, InsertVersion, ListVersions, Lose
  <2>5. reply[d] = "lost" => reply'[d] = "lost"
    BY Frame
  <2>6. CASE pc[d] = "expire" /\ d = c
    <3>1. Expire(c) \/ RedisFails(c) \/ Lose(c)
      BY <2>6 DEF Step, At, Arrive, Incr, Limit, CloseFails, CreateKey, Lookup, Touch,
         Read, Revoke, RevokeMissing, ReadMax, InsertVersion, ListVersions
    <3>2. ~ Expire(c)
      <4>1. SUFFICES ASSUME Expire(c) PROVE FALSE
        OBVIOUS
      <4>2. counter' = [counter EXCEPT ![a].expires = @ \/ counter[a].value > 0]
        BY <2>2, <2>6, <4>1 DEF Expire, expire
      <4>3. counter'[a].expires = (counter[a].expires \/ counter[a].value > 0)
        BY <4>2 DEF TypeOK
      <4>4. QED
        BY <1>1, <2>1, <4>3
    <3>3. d \in broken' \/ reply'[d] = "lost"
      BY <2>6, <3>1, <3>2 DEF RedisFails, Lose, Answer, TypeOK
    <3>4. QED
      BY <2>3, <3>3
  <2>7. CASE pc[d] # "expire" \/ d # c
    BY <2>2, <2>3, <2>4, <2>5, <2>7, Frame
  <2>8. QED
    BY <2>6, <2>7
<1>4. QED
  BY <1>2, <1>3

LEMMA CounterBackground == TypeOK /\ CounterExpires /\ Background => CounterExpires'
<1> SUFFICES ASSUME TypeOK, CounterExpires, Background PROVE CounterExpires'
  OBVIOUS
<1>1. UNCHANGED <<pc, reply, current, request, broken>>
  BY BackgroundFrame DEF callVars
<1>2. \A a \in Addresses : counter'[a] = counter[a] \/ counter'[a] = NoCounter
  BY DEF Background, EnsureKey, NextWindow, WindowEnds, serverVars, rows, TypeOK
<1>3. QED
  BY <1>1, <1>2 DEF CounterExpires, NoCounter

-----------------------------------------------------------------------------
\* A call that is about to insert has read a number that is there, at least
\* that of every version that was answered before it arrived.
ReadInv ==
  \A c \in Calls : pc[c] = "insert" =>
    /\ max_ver[c] > 0 => \E d \in Calls :
         version[d].experiment = request[c].target /\ version[d].number = max_ver[c]
    /\ \A d \in before[c] :
         version[d].experiment = request[c].target => version[d].number <= max_ver[c]

VersionInv == ReadInv /\ NoVersionGaps /\ LaterVersionIsHigher

\* Rows are only added, each by a call that had none.
LEMMA RowsStay ==
  ASSUME TypeOK, CallInv, NEW c \in Calls, Step(c)
  PROVE  /\ \A d \in Calls : version[d].number > 0 => version'[d] = version[d]
         /\ ~ InsertVersion(c) => version' = version
<1>1. \A d \in Calls : version[d].number > 0 => pc[d] # "insert"
  BY DEF CallInv
<1>2. ~ InsertVersion(c) => version' = version
  BY DEF Step, rows, Arrive, Incr, Expire, Limit, RedisFails, CloseFails, CreateKey, Lookup, Touch,
     Read, Revoke, RevokeMissing, ReadMax, SelectMax, ListVersions, Lose
<1>3. QED
  BY <1>1, <1>2, Frame

LEMMA ReadStep ==
  ASSUME TypeOK, CallInv, VersionInv, NEW c \in Calls, Step(c)
  PROVE  ReadInv'
<1>1. SUFFICES ASSUME NEW b \in Calls, pc'[b] = "insert"
               PROVE  /\ max_ver'[b] > 0 => \E d \in Calls :
                           version'[d].experiment = request'[b].target /\ version'[d].number = max_ver'[b]
                      /\ \A d \in before'[b] :
                           version'[d].experiment = request'[b].target => version'[d].number <= max_ver'[b]
  BY DEF ReadInv
<1>2. CASE b = c
  <2>1. ReadMax(c)
    <3>1. request[c].route \in Routes
      BY ServerAssumption DEF TypeOK
    <3>2. QED
      BY <1>1, <1>2, <3>1 DEF Step, TypeOK, At, Goto, Answer, Enter, Arrive, Incr, Expire, Limit,
         RedisFails, CloseFails, CreateKey, Lookup, Touch, Read, Revoke, RevokeMissing, InsertVersion,
         ListVersions, Lose, Routes
  <2>2. PICK n \in Numbers(request[c].target) \cup {0} :
          /\ \A k \in Numbers(request[c].target) : k <= n
          /\ max_ver' = [max_ver EXCEPT ![c] = n]
    BY <2>1 DEF ReadMax, SelectMax
  <2>3. max_ver'[c] = n /\ version' = version /\ request' = request /\ before'[c] = before[c]
    BY <2>1, <2>2, Frame DEF ReadMax, SelectMax, At, TypeOK
  <2>4. \A d \in before[c] : d \in Calls
    BY DEF TypeOK
  <2>5. QED
    BY <1>2, <2>2, <2>3, <2>4 DEF Numbers
<1>3. CASE b # c
  <2>1. /\ pc[b] = "insert" /\ max_ver'[b] = max_ver[b] /\ before'[b] = before[b]
        /\ request' = request
    BY <1>1, <1>3, Frame
  <2>2. max_ver[b] \in Nat /\ \A d \in Calls : version[d].number \in Nat
    BY DEF TypeOK
  <2>3. ASSUME max_ver[b] > 0
        PROVE  \E d \in Calls :
                 version'[d].experiment = request[b].target /\ version'[d].number = max_ver[b]
    <3>1. PICK d \in Calls :
            version[d].experiment = request[b].target /\ version[d].number = max_ver[b]
      BY <2>1, <2>3 DEF VersionInv, ReadInv
    <3>2. version'[d] = version[d]
      BY <2>3, <3>1, RowsStay
    <3>3. QED
      BY <3>1, <3>2
  <2>4. ASSUME NEW d \in before[b] PROVE version'[d] = version[d] /\ d \in Calls
    BY <2>4, Frame DEF CallInv, TypeOK
  <2>5. QED
    BY <2>1, <2>3, <2>4 DEF VersionInv, ReadInv
<1>4. QED
  BY <1>2, <1>3

LEMMA VersionStep ==
  ASSUME TypeOK, CallInv, VersionInv, NEW c \in Calls, Step(c)
  PROVE  VersionInv'
<1>1. ReadInv'
  BY ReadStep
<1>2. CASE ~ InsertVersion(c)
  <2>1. version' = version
    BY <1>2, RowsStay
  <2>2. \A b \in Calls : version[b].number > 0 => before'[b] = before[b]
    BY Frame DEF CallInv
  <2>3. NoVersionGaps'
    BY <2>1 DEF VersionInv, NoVersionGaps, SameExperiment
  <2>4. LaterVersionIsHigher'
    BY <2>1, <2>2 DEF VersionInv, LaterVersionIsHigher, SameExperiment
  <2>5. QED
    BY <1>1, <2>3, <2>4 DEF VersionInv
<1>3. CASE InsertVersion(c)
  <2>1. /\ pc[c] = "insert" /\ max_ver[c] \in Nat
        /\ version'[c] = [experiment |-> request[c].target, number |-> max_ver[c] + 1]
        /\ before' = before
    BY <1>3 DEF InsertVersion, Insert, At, TypeOK, callVars
  <2>2. \A d \in Calls : d # c => version'[d] = version[d]
    BY Frame
  <2>3. \A d \in Calls : version[d].number \in Nat /\ (version[d].number > 0 => d # c)
    BY <2>1 DEF TypeOK, CallInv
  <2>4. NoVersionGaps'
    <3>1. ASSUME NEW b \in Calls, version'[b].number > 1
          PROVE  \E d \in Calls : SameExperiment(b, d)' /\ version'[d].number = version'[b].number - 1
      <4>1. CASE b = c
        <5>1. max_ver[c] > 0
          BY <2>1, <3>1, <4>1
        <5>2. PICK d \in Calls :
                version[d].experiment = request[c].target /\ version[d].number = max_ver[c]
          BY <2>1, <5>1 DEF VersionInv, ReadInv
        <5>3. d # c /\ version'[d] = version[d]
          BY <2>2, <2>3, <5>1, <5>2
        <5>4. QED
          BY <2>1, <4>1, <5>1, <5>2, <5>3 DEF SameExperiment
      <4>2. CASE b # c
        <5>1. PICK d \in Calls : SameExperiment(b, d) /\ version[d].number = version[b].number - 1
          BY <2>2, <3>1, <4>2 DEF VersionInv, NoVersionGaps
        <5>2. version'[d] = version[d] /\ version'[b] = version[b]
          BY <2>2, <2>3, <4>2, <5>1 DEF SameExperiment
        <5>3. QED
          BY <5>1, <5>2 DEF SameExperiment
      <4>3. QED
        BY <4>1, <4>2
    <3>2. QED
      BY <3>1 DEF NoVersionGaps
  <2>5. LaterVersionIsHigher'
    <3>1. ASSUME NEW b \in Calls, NEW d \in Calls, d \in before[b], SameExperiment(b, d)'
          PROVE  version'[b].number > version'[d].number
      <4>1. pc[d] = "done" /\ d # c
        BY <2>1, <3>1 DEF CallInv
      <4>2. version'[d] = version[d]
        BY <2>2, <4>1
      <4>3. CASE b = c
        <5>1. version[d].experiment = request[c].target
          BY <2>1, <3>1, <4>2, <4>3 DEF SameExperiment
        <5>2. version[d].number <= max_ver[c]
          BY <2>1, <3>1, <4>3, <5>1 DEF VersionInv, ReadInv
        <5>3. QED
          BY <2>1, <2>3, <4>2, <4>3, <5>2
      <4>4. CASE b # c
        BY <2>2, <3>1, <4>2, <4>4 DEF VersionInv, LaterVersionIsHigher, SameExperiment
      <4>5. QED
        BY <4>3, <4>4
    <3>2. QED
      BY <2>1, <3>1 DEF LaterVersionIsHigher
  <2>6. QED
    BY <1>1, <2>4, <2>5 DEF VersionInv
<1>4. QED
  BY <1>2, <1>3

LEMMA VersionBackground == VersionInv /\ Background => VersionInv'
<1> SUFFICES ASSUME VersionInv, Background PROVE VersionInv'
  OBVIOUS
<1>1. UNCHANGED <<version, max_ver, pc, request, before>>
  BY BackgroundFrame DEF callVars
<1>2. QED
  BY <1>1 DEF VersionInv, ReadInv, NoVersionGaps, LaterVersionIsHigher, SameExperiment

LEMMA CallBackground == CallInv /\ Background => CallInv'
<1> SUFFICES ASSUME CallInv, Background PROVE CallInv'
  OBVIOUS
<1>1. UNCHANGED <<version, pc, current, request, before>>
  BY BackgroundFrame DEF callVars
<1>2. QED
  BY <1>1 DEF CallInv

-----------------------------------------------------------------------------
ServerInv == TypeOK /\ CallInv /\ CounterExpires /\ KeyInv /\ VersionInv

LEMMA InvInit == ServerInit => ServerInv
<1> SUFFICES ASSUME ServerInit PROVE ServerInv
  OBVIOUS
<1>1. TypeOK /\ CallInv
  BY TypeInit, CallInit
<1>2. CounterExpires
  BY DEF ServerInit, RateLimitInit, NoCounter, CounterExpires
<1>3. KeyInv
  BY DEF ServerInit, KeyInv
<1>4. VersionInv
  BY DEF ServerInit, VersionsInit, NoVersion, VersionInv, ReadInv, NoVersionGaps,
     LaterVersionIsHigher, SameExperiment
<1>5. QED
  BY <1>1, <1>2, <1>3, <1>4 DEF ServerInv

LEMMA InvStep == ServerInv /\ [ServerNext]_serverVars => ServerInv'
<1> SUFFICES ASSUME ServerInv, [ServerNext]_serverVars PROVE ServerInv'
  OBVIOUS
<1> USE DEF ServerInv
<1>1. ASSUME NEW c \in Calls, Step(c) PROVE ServerInv'
  BY <1>1, TypeStep, CallStep, CounterStep, KeyStep, VersionStep
<1>2. CASE Background
  BY <1>2, BackgroundType, CallBackground, CounterBackground, KeyBackground, VersionBackground
<1>3. QED
  BY <1>1, <1>2, StepsOrBackground

LEMMA Invariance == ServerSpec => []ServerInv
BY InvInit, InvStep, PTL DEF ServerSpec

\* Every variable keeps its type, and exactly the answered calls are done.
THEOREM TypeCorrect == ServerSpec => []TypeOK
<1>1. ServerInv => TypeOK
  BY DEF ServerInv
<1>2. QED
  BY <1>1, Invariance, PTL

\* Only a failure between INCR and EXPIRE leaves a counter without an expiry,
\* however the requests of an address overlap with each other and with the
\* end of the window.
THEOREM CountersExpire == ServerSpec => []CounterExpires
<1>1. ServerInv => CounterExpires
  BY DEF ServerInv
<1>2. QED
  BY <1>1, Invariance, PTL

\* No statement of any request, and no start of the launcher, brings a revoked
\* key back.
THEOREM RevocationsAreFinal == ServerSpec => RevocationIsFinal
<1>1. ServerInv /\ [ServerNext]_serverVars =>
        [\A k \in Keys : key_state[k] = "revoked" => key_state'[k] = "revoked"]_serverVars
  BY RevokedStays DEF ServerInv
<1>2. QED
  BY <1>1, Invariance, PTL DEF ServerSpec, RevocationIsFinal

\* A call that arrives after the answer to a revocation is refused.
THEOREM RevokedKeysAreRefused == ServerSpec => []RevokedKeyIsRefused
<1>1. ServerInv => RevokedKeyIsRefused
  BY DEF ServerInv, KeyInv, RevokedKeyIsRefused
<1>2. QED
  BY <1>1, Invariance, PTL

\* Overlapping creations repeat version numbers but leave none out.
THEOREM VersionsHaveNoGaps == ServerSpec => []NoVersionGaps
<1>1. ServerInv => NoVersionGaps
  BY DEF ServerInv, VersionInv
<1>2. QED
  BY <1>1, Invariance, PTL

\* Creations that do not overlap get increasing numbers.
THEOREM LaterVersionsAreHigher == ServerSpec => []LaterVersionIsHigher
<1>1. ServerInv => LaterVersionIsHigher
  BY DEF ServerInv, VersionInv
<1>2. QED
  BY <1>1, Invariance, PTL
=============================================================================

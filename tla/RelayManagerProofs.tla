------------------------- MODULE RelayManagerProofs -------------------------
(***************************************************************************)
(* The relay pool for any number of relays, callers and any thresholds:    *)
(* its types, the agreement of tiers and circuit breaker, and what a prune *)
(* evicts.  Then its manager: relayPoolManager keeps its types and those   *)
(* of the pool, and never manages more than K relays, for any number of    *)
(* relays and any calls, outages and connections in between.               *)
(***************************************************************************)
EXTENDS RelayManager, FiniteSetTheorems, TLAPS

\* The provers tried, in this order, on a leaf that names none.
USE SMTT(20), ZenonT(20), SMTT(30), SMTT(60)

PoolInv == PoolTypeOK /\ MainIsHealthy

(* The relays of the pool, ordered by connectedSince.                      *)
Ordered ==
  /\ items \subseteq Relays /\ older \subseteq items \X items
  /\ \A q, r \in items : <<q, r>> \in older <=> q # r /\ <<r, q>> \notin older
  /\ \A p, q, r \in items : <<p, q>> \in older /\ <<q, r>> \in older => <<p, r>> \in older

(* The pool starts empty.                                                  *)
LEMMA PoolInvInit == PoolInit => PoolInv
  BY RelayPoolAssumption DEF PoolInit, PoolInv, PoolTypeOK, MainIsHealthy

(* A relay that is added is the youngest.                                  *)
LEMMA AddKeepsOrder ==
  ASSUME Ordered, NEW r \in Relays, r \notin items, items' = items \cup {r}, older' = older \cup items \X {r}
  PROVE  Ordered'
<1>1. \A p, q : <<p, q>> \in older' <=> <<p, q>> \in older \/ (p \in items /\ q = r)
  OBVIOUS
<1>2. \A p, q : <<p, q>> \in older => p \in items /\ q \in items
  BY DEF Ordered
<1>3. ASSUME NEW p \in items', NEW q \in items' PROVE <<p, q>> \in older' <=> p # q /\ <<q, p>> \notin older'
  <2>1. CASE p = r /\ q = r
    BY <1>1, <1>2, <2>1
  <2>2. CASE p # r /\ q = r
    BY <1>1, <1>2, <2>2
  <2>3. CASE p = r /\ q # r
    BY <1>1, <1>2, <2>3
  <2>4. CASE p # r /\ q # r
    BY <1>1, <2>4 DEF Ordered
  <2> QED BY <2>1, <2>2, <2>3, <2>4
<1>4. \A o, p, q \in items' : <<o, p>> \in older' /\ <<p, q>> \in older' => <<o, q>> \in older'
  BY <1>1, <1>2 DEF Ordered
<1>5. items' \subseteq Relays /\ older' \subseteq items' \X items'
  BY DEF Ordered
<1> QED BY <1>3, <1>4, <1>5 DEF Ordered

(* Relays that leave do not disturb the order of the others.               *)
LEMMA LeavingKeepsOrder ==
  ASSUME Ordered, NEW S, items' = items \ S, older' = Remaining(S)
  PROVE  Ordered'
<1>1. \A p, q \in items' : <<p, q>> \in older' <=> <<p, q>> \in older
  BY DEF Remaining
<1>2. items' \subseteq Relays /\ older' \subseteq items' \X items'
  BY DEF Ordered, Remaining
<1> QED BY <1>1, <1>2 DEF Ordered

LEMMA AddKeepsTypes ==
  ASSUME NEW c \in Callers, NEW r \in Relays, PoolTypeOK, Add(c, r)
  PROVE  PoolTypeOK'
<1>1. Ordered'
  BY AddKeepsOrder DEF PoolTypeOK, Ordered, Add
<1> QED BY <1>1 DEF PoolTypeOK, Ordered, Add

LEMMA RemoveKeepsTypes ==
  ASSUME NEW r \in Relays, PoolTypeOK, RemoveRelay(r)
  PROVE  PoolTypeOK'
<1>1. Ordered'
  BY LeavingKeepsOrder DEF PoolTypeOK, Ordered, RemoveRelay
<1>2. fails' \in [Relays -> 0..OpenAt]
  BY RelayPoolAssumption DEF PoolTypeOK, RemoveRelay
<1>3. main' \subseteq items' /\ open' \subseteq items' /\ recent' \subseteq items'
      /\ protected' \subseteq Relays /\ managed' \subseteq Relays /\ pruning' \subseteq Callers
  BY DEF PoolTypeOK, RemoveRelay
<1> QED BY <1>1, <1>2, <1>3 DEF PoolTypeOK, Ordered

LEMMA EvictKeepsTypes ==
  ASSUME NEW S, PoolTypeOK, Evict(S), pruning' \subseteq Callers
  PROVE  PoolTypeOK'
<1>1. Ordered'
  BY LeavingKeepsOrder DEF PoolTypeOK, Ordered, Evict
<1>2. fails' \in [Relays -> 0..OpenAt]
  BY RelayPoolAssumption DEF PoolTypeOK, Evict
<1>3. main' \subseteq items' /\ open' \subseteq items' /\ recent' \subseteq items'
      /\ protected' \subseteq Relays /\ managed' \subseteq Relays
  BY DEF PoolTypeOK, Evict
<1> QED BY <1>1, <1>2, <1>3 DEF PoolTypeOK, Ordered

LEMMA PruneKeepsTypes ==
  ASSUME NEW c, PoolTypeOK, Prune(c)
  PROVE  PoolTypeOK'
<1>1. pruning' \subseteq Callers
  BY DEF Prune, PoolTypeOK
<1>2. CASE UNCHANGED <<itemVars, protected, managed>>
  BY <1>1, <1>2 DEF itemVars, PoolTypeOK
<1> QED BY <1>1, <1>2, EvictKeepsTypes DEF Prune

LEMMA RecordKeepsTypes ==
  ASSUME NEW c \in Callers, NEW r \in Relays, NEW outcome, PoolTypeOK, RecordResult(c, r, outcome)
  PROVE  PoolTypeOK'
<1> USE RelayPoolAssumption
<1>1. CASE UNCHANGED poolVars
  BY <1>1 DEF poolVars, PoolTypeOK
<1>2. CASE /\ r \in items
           /\ RecordOK(r) \/ RecordFailed(r) \/ UNCHANGED <<fails, open, main>>
           /\ recent' = recent \cup {r} /\ pruning' = pruning \cup {c} /\ UNCHANGED <<items, older, protected, managed>>
  <2>1. MoreFails(r) \in 0..OpenAt
    BY DEF MoreFails, PoolTypeOK
  <2>2. fails' \in [Relays -> 0..OpenAt] /\ open' \subseteq items /\ main' \subseteq items
    BY <1>2, <2>1 DEF RecordOK, RecordFailed, PoolTypeOK
  <2> QED BY <1>2, <2>2 DEF PoolTypeOK
<1> QED BY <1>1, <1>2 DEF RecordResult

LEMMA PingKeepsTypes ==
  ASSUME NEW r \in Relays, PoolTypeOK, PingAnswered(r)
  PROVE  PoolTypeOK'
<1>1. fails' \in [Relays -> 0..OpenAt]
  BY RelayPoolAssumption DEF PoolTypeOK, PingAnswered
<1> QED BY <1>1 DEF PoolTypeOK, PingAnswered

LEMMA OthersKeepTypes ==
  ASSUME NEW r \in Relays, PoolTypeOK, NEW S \in SUBSET Relays,
         Ages(r) \/ SetProtected(S) \/ SetManaged(S) \/ UNCHANGED poolVars
  PROVE  PoolTypeOK'
BY DEF Ages, SetProtected, SetManaged, itemVars, poolVars, PoolTypeOK

-----------------------------------------------------------------------------
(* RecordResult: a success resets both, the failure that opens the circuit *)
(* has also demoted, because DemoteAt is not above OpenAt.                 *)
LEMMA RecordKeepsHealth ==
  ASSUME NEW c, NEW r \in Relays, NEW outcome, PoolInv, RecordResult(c, r, outcome)
  PROVE  MainIsHealthy'
<1> USE RelayPoolAssumption DEF PoolInv, PoolTypeOK, MainIsHealthy
<1>1. CASE UNCHANGED poolVars
  BY <1>1 DEF poolVars
<1>2. CASE RecordOK(r)
  BY <1>2 DEF RecordOK
<1>3. CASE RecordFailed(r)
  <2>1. MoreFails(r) \in Nat
    BY DEF MoreFails
  <2>2. ASSUME NEW x \in main' PROVE fails'[x] < DemoteAt /\ x \notin open'
    <3>1. x \in main
      BY <1>3, <2>2 DEF RecordFailed
    <3>2. CASE x = r
      BY <1>3, <2>1, <2>2, <3>2 DEF RecordFailed
    <3>3. CASE x # r
      BY <1>3, <3>1, <3>3 DEF RecordFailed
    <3> QED BY <3>2, <3>3
  <2> QED BY <2>2
<1>4. CASE UNCHANGED <<fails, open, main>>
  BY <1>4
<1> QED BY <1>1, <1>2, <1>3, <1>4 DEF RecordResult

(* Pings only reset the count; removals and prunes only take relays out of *)
(* both tiers; the other methods leave them alone.                         *)
LEMMA PoolInvNext == PoolInv /\ [PoolNext]_poolVars => PoolInv'
<1> SUFFICES ASSUME PoolInv, [PoolNext]_poolVars PROVE PoolInv'
  OBVIOUS
<1>0. PoolTypeOK /\ fails \in [Relays -> Nat] /\ main \subseteq Relays
  BY RelayPoolAssumption DEF PoolInv, PoolTypeOK
<1>1. CASE UNCHANGED poolVars
  BY <1>1 DEF poolVars, PoolInv, PoolTypeOK, MainIsHealthy
<1>2. ASSUME NEW c \in Callers, NEW r \in Relays, Add(c, r) PROVE PoolInv'
  <2>1. MainIsHealthy'
    BY <1>2 DEF Add, PoolInv, MainIsHealthy
  <2> QED BY <1>0, <1>2, <2>1, AddKeepsTypes DEF PoolInv
<1>3. ASSUME NEW c \in Callers, NEW r \in Relays, NEW outcome \in Outcomes, RecordResult(c, r, outcome)
      PROVE  PoolInv'
  BY <1>0, <1>3, RecordKeepsTypes, RecordKeepsHealth DEF PoolInv
<1>4. ASSUME NEW S, Evict(S) PROVE MainIsHealthy'
  BY <1>0, <1>4 DEF Evict, PoolInv, MainIsHealthy
<1>5. ASSUME NEW c \in Callers, Prune(c) PROVE PoolInv'
  <2>1. UNCHANGED <<itemVars, protected, managed>> => MainIsHealthy'
    BY DEF itemVars, PoolInv, MainIsHealthy
  <2>2. MainIsHealthy'
    BY <1>4, <1>5, <2>1 DEF Prune
  <2> QED BY <1>0, <1>5, <2>2, PruneKeepsTypes DEF PoolInv
<1>6. ASSUME NEW r \in Relays, RemoveRelay(r) PROVE PoolInv'
  <2>1. MainIsHealthy'
    BY <1>0, <1>6 DEF RemoveRelay, PoolInv, MainIsHealthy
  <2> QED BY <1>0, <1>6, <2>1, RemoveKeepsTypes DEF PoolInv
<1>7. ASSUME NEW r \in Relays, PingAnswered(r) PROVE PoolInv'
  <2>1. MainIsHealthy'
    BY <1>0, <1>7, RelayPoolAssumption DEF PingAnswered, PoolInv, MainIsHealthy
  <2> QED BY <1>0, <1>7, <2>1, PingKeepsTypes DEF PoolInv
<1>8. ASSUME NEW r \in Relays, Ages(r) PROVE PoolInv'
  <2>1. MainIsHealthy'
    BY <1>8 DEF Ages, PoolInv, MainIsHealthy
  <2> QED BY <1>0, <1>8, <2>1, OthersKeepTypes DEF PoolInv
<1>9. ASSUME NEW r \in Relays, NEW S \in SUBSET Relays, SetProtected(S) PROVE PoolInv'
  <2>1. MainIsHealthy'
    BY <1>9 DEF SetProtected, itemVars, PoolInv, MainIsHealthy
  <2> QED BY <1>0, <1>9, <2>1, OthersKeepTypes DEF PoolInv
<1>10. \A r \in Relays : protected \cup {r} \in SUBSET Relays /\ protected \ {r} \in SUBSET Relays
  BY <1>0 DEF PoolTypeOK
<1> QED BY <1>1, <1>2, <1>3, <1>5, <1>6, <1>7, <1>8, <1>9, <1>10, ZenonT(60) DEF PoolNext

(* In every state the pool can reach, a relay of the main tier has failed  *)
(* fewer than DemoteAt times in a row and its circuit is closed.           *)
THEOREM MainAlwaysHealthy == PoolSpec => []MainIsHealthy
<1>1. PoolInv => MainIsHealthy
  BY DEF PoolInv
<1> QED BY <1>1, PoolInvInit, PoolInvNext, PTL DEF PoolSpec

-----------------------------------------------------------------------------
(* What a prune evicts.                                                    *)
LEMMA PoolSets ==
  ASSUME NEW S \in SUBSET Relays
  PROVE  IsFiniteSet(S) /\ Cardinality(S) \in Nat
<1>1. IsFiniteSet(S)
  BY RelayPoolAssumption, FS_Subset
<1> QED BY <1>1, FS_CardinalityType

(* The main relays it may take are neither protected nor recently active.  *)
LEMMA CandidatesAre ==
  ASSUME NEW cand \in Candidates
  PROVE  cand \subseteq main \ (protected \cup recent)
BY Zenon DEF Candidates

(* A main relay that is protected or recently active survives every prune  *)
(* (prune, rounds 1 and 2), whatever the quotas ask for.                   *)
THEOREM ShieldedAlwaysSurvive == PoolSpec => ShieldedSurvives
<1>1. ASSUME PoolTypeOK, NEW c \in Callers, Prune(c), NEW r \in main \cap (protected \cup recent)
      PROVE  r \in main' /\ r \in items'
  <2>0. r \in items
    BY <1>1 DEF PoolTypeOK
  <2>1. CASE UNCHANGED <<itemVars, protected, managed>>
    BY <2>0, <2>1 DEF itemVars
  <2>2. ASSUME NEW cand \in Candidates, NEW fromMain \in SUBSET cand, NEW k,
               Evict(Oldest(items \ main, k) \cup fromMain)
        PROVE  r \in main' /\ r \in items'
    <3>1. r \notin fromMain
      BY CandidatesAre
    <3>2. r \notin Oldest(items \ main, k)
      BY DEF Oldest
    <3> QED BY <2>0, <2>2, <3>1, <3>2 DEF Evict
  <2> QED BY <1>1, <2>1, <2>2, ZenonT(60) DEF Prune, Evicted, kSubset
<1>2. PoolInv => [(\E c \in Callers : Prune(c)) =>
         \A r \in main \cap (protected \cup recent) : r \in main' /\ r \in items']_poolVars
  BY <1>1 DEF PoolInv
<1> QED BY <1>2, PoolInvInit, PoolInvNext, PTL DEF PoolSpec, ShieldedSurvives

(* Oldest takes as many as it is asked for, or all: the number of older    *)
(* relays is a bijection from S to 0..Cardinality(S)-1.                    *)
LEMMA OldestCount ==
  ASSUME Ordered, NEW S \in SUBSET items, NEW k \in Nat
  PROVE  /\ Oldest(S, k) \subseteq S
         /\ Cardinality(Oldest(S, k)) = Lesser(k, Cardinality(S))
         /\ k >= Cardinality(S) => Oldest(S, k) = S
<1> DEFINE before(r) == {q \in S : <<q, r>> \in older}
           n == Cardinality(S)
           rank == [r \in S |-> Cardinality(before(r))]
           O == Oldest(S, k)
           j == Lesser(k, n)
<1>1. IsFiniteSet(S) /\ n \in Nat /\ S \in SUBSET Relays
  BY PoolSets DEF Ordered
<1>2. ASSUME NEW r \in S
      PROVE  IsFiniteSet(before(r)) /\ Cardinality(before(r)) \in Nat /\ Cardinality(before(r)) <= n - 1
  <2>1. before(r) \in SUBSET S /\ r \notin before(r)
    BY DEF Ordered
  <2>2. IsFiniteSet(before(r)) /\ Cardinality(before(r)) <= n /\ (n = Cardinality(before(r)) => S = before(r))
    BY <1>1, <2>1, FS_Subset, ZenonT(60)
  <2>3. Cardinality(before(r)) \in Nat
    BY <2>2, FS_CardinalityType
  <2> QED BY <1>1, <2>1, <2>2, <2>3
<1>3. ASSUME NEW q \in S, NEW r \in S, <<q, r>> \in older PROVE Cardinality(before(q)) < Cardinality(before(r))
  <2>1. before(q) \in SUBSET before(r) /\ q \in before(r) /\ q \notin before(q)
    BY <1>3 DEF Ordered
  <2>s. before(r) # before(q)
    BY <2>1
  <2> HIDE DEF before
  <2>2. /\ Cardinality(before(q)) <= Cardinality(before(r))
        /\ Cardinality(before(r)) = Cardinality(before(q)) => before(r) = before(q)
    BY <1>2, <2>1, FS_Subset
  <2>3. Cardinality(before(q)) \in Nat /\ Cardinality(before(r)) \in Nat
    BY <1>2
  <2> QED BY <2>s, <2>2, <2>3
<1>o. O = {r \in S : Cardinality(before(r)) < k}
  BY DEF Oldest
<1> HIDE DEF before, n, O
<1>4. rank \in [S -> 0..(n - 1)] /\ \A r \in S : rank[r] = Cardinality(before(r))
  <2>1. \A r \in S : Cardinality(before(r)) \in 0..(n - 1)
    BY <1>1, <1>2
  <2> QED BY <2>1
<1>r. O = {r \in S : rank[r] < k} /\ O \in SUBSET S
  BY <1>4, <1>o
<1> HIDE DEF rank
<1>5. \A q, r \in S : rank[q] = rank[r] => q = r
  <2> SUFFICES ASSUME NEW q \in S, NEW r \in S, rank[q] = rank[r], q # r PROVE FALSE
    OBVIOUS
  <2>1. <<q, r>> \in older \/ <<r, q>> \in older
    BY DEF Ordered
  <2>2. Cardinality(before(q)) = Cardinality(before(r)) /\ Cardinality(before(q)) \in Nat
    BY <1>2, <1>4
  <2> QED BY <1>3, <2>1, <2>2
<1>6. rank \in Injection(S, 0..(n - 1))
  BY <1>4, <1>5 DEF Injection, IsInjective
<1>7. IsFiniteSet(0..(n - 1)) /\ Cardinality(0..(n - 1)) = n
  <2>1. IsFiniteSet(0..(n - 1)) /\ Cardinality(0..(n - 1)) = IF 0 > n - 1 THEN 0 ELSE (n - 1) - 0 + 1
    BY <1>1, FS_Interval
  <2> QED BY <1>1, <2>1
<1>8. \A t \in 0..(n - 1) : \E s \in S : rank[s] = t
  <2>1. rank \in Surjection(S, 0..(n - 1))
    BY <1>6, <1>7, FS_Injection DEF n
  <2> QED BY <2>1 DEF Surjection
<1>9. j \in Nat /\ j <= k /\ j <= n /\ (j = k \/ j = n)
  BY <1>1 DEF Lesser
<1> HIDE DEF j
<1>10. IsFiniteSet(O) /\ IsFiniteSet(0..(j - 1)) /\ Cardinality(0..(j - 1)) = j
  <2>1. IsFiniteSet(0..(j - 1)) /\ Cardinality(0..(j - 1)) = IF 0 > j - 1 THEN 0 ELSE (j - 1) - 0 + 1
    BY <1>9, FS_Interval
  <2> QED BY <1>1, <1>9, <1>r, <2>1, FS_Subset
<1>11. PICK f : f = [r \in O |-> rank[r]]
  BY ZenonT(60)
<1>12. f \in Bijection(O, 0..(j - 1))
  <2>1. \A r \in O : f[r] = rank[r] /\ rank[r] \in 0..(j - 1)
    BY <1>1, <1>4, <1>9, <1>11, <1>r
  <2>2. f \in [O -> 0..(j - 1)] /\ DOMAIN f = O
    BY <1>11, <2>1
  <2>3. \A q, r \in O : f[q] = f[r] => q = r
    BY <1>5, <1>r, <2>1
  <2>4. \A t \in 0..(j - 1) : \E s \in O : f[s] = t
    <3> SUFFICES ASSUME NEW t \in 0..(j - 1) PROVE \E s \in O : f[s] = t
      OBVIOUS
    <3>1. t \in 0..(n - 1) /\ t < k
      BY <1>1, <1>9
    <3>2. PICK s \in S : rank[s] = t
      BY <1>8, <3>1
    <3> QED BY <1>r, <2>1, <3>1, <3>2
  <2> QED BY <2>2, <2>3, <2>4 DEF Bijection, Injection, Surjection, IsInjective
<1>13. Cardinality(O) = j
  BY <1>10, <1>12, FS_Bijection DEF ExistsBijection
<1>14. k >= n => O = S
  BY <1>1, <1>4, <1>r
<1> QED BY <1>13, <1>14, <1>r DEF O, j, n

(* The quotas of the two tiers add up to what there is too much of.        *)
LEMMA QuotaIs ==
  ASSUME PoolTypeOK, Cardinality(items) > HighWater
  PROVE  LET need == Cardinality(items) - LowWater
             prob == Cardinality(items \ main)
         IN  /\ need \in Nat \ {0} /\ prob \in Nat /\ Cardinality(main) \in Nat
             /\ prob + Cardinality(main) = Cardinality(items)
             /\ Quota.main \in Nat /\ Quota.prob \in Nat /\ Quota.prob + Quota.main = need
             /\ Quota.main <= Cardinality(main)
             /\ Quota.prob <= prob \/ Quota.main = Cardinality(main)
<1> USE RelayPoolAssumption
<1> DEFINE c == Cardinality(items)
           p == Cardinality(items \ main)
           m == Cardinality(main)
           need == c - LowWater
           half == need \div 2
           fp == Lesser(half, p)
           fm == Lesser(need - fp, m)
<1>1. c \in Nat /\ p \in Nat /\ m \in Nat
  BY PoolSets DEF PoolTypeOK
<1>2. p + m = c
  <2>1. IsFiniteSet(items) /\ items \cap main = main
    BY PoolSets DEF PoolTypeOK
  <2>2. p = c - m
    BY <2>1, FS_Difference, ZenonT(60)
  <2> QED BY <1>1, <2>2
<1>3. Quota = [prob |-> need - fm, main |-> fm]
  BY DEF Quota
<1> HIDE DEF c, p, m
<1>4. need \in Nat \ {0}
  BY <1>1 DEF c
<1>5. half \in Nat /\ half <= need
  BY <1>4
<1> HIDE DEF need, half
<1>6. fp \in Nat /\ fp <= p /\ fp <= need
  BY <1>1, <1>4, <1>5 DEF Lesser
<1> HIDE DEF fp
<1>7. fm \in Nat /\ fm <= m /\ fm <= need - fp /\ (fm = need - fp \/ fm = m)
  BY <1>1, <1>4, <1>6 DEF Lesser
<1> HIDE DEF fm
<1>8. Quota.main = fm /\ Quota.prob = need - fm
  BY <1>3
<1>9. need - fm \in Nat /\ (need - fm) + fm = need /\ (need - fm <= p \/ fm = m)
  BY <1>1, <1>4, <1>6, <1>7
<1> QED BY <1>1, <1>2, <1>4, <1>7, <1>8, <1>9 DEF c, p, m, need

(* What a prune that has work to do leaves of the pool (prune).            *)
LEMMA PruneLeaves ==
  ASSUME PoolTypeOK, Cardinality(items) > HighWater, NEW cand \in Candidates,
         NEW fromMain \in kSubset(Lesser(Quota.main, Cardinality(cand)), cand),
         Evict(Evicted(Quota.prob, fromMain))
  PROVE  \/ Cardinality(items') = LowWater
         \/ items' \subseteq main /\ Cardinality(items') > LowWater
            /\ Cardinality(items' \ (protected \cup recent)) <=
                 UptimeK + (Cardinality(main \ (protected \cup recent)) + 4) \div 5
<1> USE RelayPoolAssumption
<1> DEFINE shield == protected \cup recent
           unshielded == main \ shield
           topK == (Cardinality(unshielded) + 4) \div 5
           c == Cardinality(items)
           p == Cardinality(items \ main)
           m == Cardinality(main)
           d == Cardinality(cand)
           f == Cardinality(fromMain)
           k == Quota.prob + Quota.main - f
           O == Oldest(items \ main, k)
           e == O \cup fromMain
<1>0. Ordered /\ main \subseteq items /\ items \subseteq Relays
  BY DEF PoolTypeOK, Ordered
<1>1. PICK top \in kSubset(topK, unshielded) : cand = (unshielded \ top) \ Oldest(unshielded \ top, UptimeK)
  BY ZenonT(60) DEF Candidates
<1>2. items' = items \ e
  BY DEF Evict, Evicted
<1>3. /\ c - LowWater \in Nat \ {0} /\ p \in Nat /\ m \in Nat /\ p + m = c
      /\ Quota.main \in Nat /\ Quota.prob \in Nat /\ Quota.prob + Quota.main = c - LowWater
      /\ Quota.main <= m /\ (Quota.prob <= p \/ Quota.main = m)
  BY QuotaIs
<1>4. cand \subseteq main /\ fromMain \subseteq cand /\ cand \in SUBSET Relays /\ fromMain \in SUBSET Relays
      /\ f = Lesser(Quota.main, d)
  BY <1>0, CandidatesAre DEF kSubset
<1>5. d \in Nat /\ f \in Nat /\ d <= m /\ f <= Quota.main /\ f <= d /\ (f = Quota.main \/ f = d)
  <2>1. IsFiniteSet(main) /\ d \in Nat /\ f \in Nat
    BY <1>0, <1>4, PoolSets
  <2>2. d <= m
    BY <1>4, <2>1, FS_Subset
  <2> QED BY <1>3, <1>4, <2>1, <2>2 DEF Lesser
<1> HIDE DEF c, p, m, d, f
<1>6. k \in Nat /\ k = c - LowWater - f
  BY <1>3, <1>5
<1>7. O \subseteq items \ main /\ Cardinality(O) = Lesser(k, p) /\ (k >= p => O = items \ main)
  BY <1>0, <1>6, OldestCount, ZenonT(30) DEF p
<1> HIDE DEF k, O
<1>8. Cardinality(e) = Lesser(k, p) + f
  <2>1. IsFiniteSet(O) /\ IsFiniteSet(fromMain) /\ O \cap fromMain = {}
    BY <1>0, <1>4, <1>7, PoolSets
  <2>2. Cardinality(e) = Cardinality(O) + Cardinality(fromMain) - Cardinality(O \cap fromMain)
    BY <2>1, FS_Union
  <2>3. Lesser(k, p) \in Nat
    BY <1>3, <1>6 DEF Lesser
  <2>4. Cardinality(O \cap fromMain) = 0
    BY <2>1, FS_EmptySet, ZenonT(60)
  <2>5. Cardinality(fromMain) = f
    BY DEF f
  <2> HIDE DEF e
  <2> QED BY <1>5, <1>7, <2>2, <2>3, <2>4, <2>5
<1> HIDE DEF e
<1>9. Cardinality(items') = c - (Lesser(k, p) + f)
  <2>1. IsFiniteSet(items) /\ items \cap e = e
    BY <1>0, <1>4, <1>7, PoolSets DEF e
  <2>2. Cardinality(items \ e) = Cardinality(items) - Cardinality(items \cap e)
    BY <2>1, FS_Difference, ZenonT(60)
  <2> QED BY <1>2, <1>8, <2>1, <2>2, ZenonT(60) DEF c
<1>10. CASE k <= p
  <2>1. Cardinality(items') = LowWater
    BY <1>3, <1>5, <1>6, <1>9, <1>10 DEF Lesser
  <2> QED BY <2>1
<1>11. CASE k > p
  <2>1. O = items \ main /\ Cardinality(items') = c - (p + f) /\ Cardinality(items') > LowWater
    BY <1>3, <1>5, <1>6, <1>7, <1>9, <1>11 DEF Lesser
  <2>2. f = d
    BY <1>3, <1>5, <1>6, <1>11
  <2>3. fromMain = cand
    <3>1. IsFiniteSet(cand)
      BY <1>4, PoolSets
    <3> QED BY <1>4, <2>2, <3>1, FS_Subset DEF f, d
  <2>4. items' \subseteq main \ cand
    BY <1>2, <2>1, <2>3 DEF e
  <2> DEFINE kept == Oldest(unshielded \ top, UptimeK)
  <2>5. items' \ shield \subseteq top \cup kept
    BY <1>1, <2>4, ZenonT(60)
  <2>6. /\ IsFiniteSet(top) /\ Cardinality(top) = topK /\ topK \in Nat
        /\ kept \subseteq unshielded \ top /\ IsFiniteSet(kept) /\ Cardinality(kept) \in Nat /\ Cardinality(kept) <= UptimeK
    <3>1. unshielded \in SUBSET Relays /\ unshielded \ top \in SUBSET items /\ top \in SUBSET Relays /\ Cardinality(top) = topK
      BY <1>0 DEF kSubset
    <3>2. IsFiniteSet(top) /\ Cardinality(top) \in Nat /\ Cardinality(unshielded \ top) \in Nat
      BY <1>0, <3>1, PoolSets
    <3>3. kept \subseteq unshielded \ top /\ Cardinality(kept) = Lesser(UptimeK, Cardinality(unshielded \ top))
      BY <1>0, <3>1, OldestCount, ZenonT(60)
    <3>4. IsFiniteSet(kept) /\ Cardinality(kept) \in Nat
      <4>1. kept \in SUBSET Relays
        BY <3>1, <3>3, ZenonT(60)
      <4> HIDE DEF kept
      <4> QED BY <4>1, PoolSets
    <3>5. Cardinality(kept) <= UptimeK
      <4> HIDE DEF kept, unshielded
      <4> QED BY <3>2, <3>3 DEF Lesser
    <3> QED BY <3>1, <3>2, <3>3, <3>4, <3>5, ZenonT(60)
  <2> HIDE DEF kept, shield, unshielded, topK
  <2>7. IsFiniteSet(top \cup kept) /\ Cardinality(top \cup kept) = Cardinality(top) + Cardinality(kept) - Cardinality(top \cap kept)
    BY <2>6, FS_Union
  <2>8. top \cap kept = {}
    BY <2>6
  <2>9. Cardinality(top \cup kept) <= UptimeK + topK
    BY <2>6, <2>7, <2>8, FS_EmptySet
  <2>10. Cardinality(items' \ shield) <= Cardinality(top \cup kept) /\ IsFiniteSet(items' \ shield)
    BY <2>5, <2>7, FS_Subset
  <2>11. Cardinality(items' \ shield) \in Nat /\ Cardinality(top \cup kept) \in Nat
    BY <2>7, <2>10, FS_CardinalityType
  <2>12. Cardinality(items' \ shield) <= UptimeK + topK
    BY <2>6, <2>9, <2>10, <2>11
  <2> QED BY <2>1, <2>4, <2>12 DEF shield, unshielded, topK
<1> QED BY <1>3, <1>6, <1>10, <1>11

(* A prune that starts above HighWater comes down to LowWater or evicts    *)
(* everything it may (prune with its quotas, protection rounds and spill), *)
(* for any pool size and any water marks.                                  *)
THEOREM PruneAlwaysReachesLow == PoolSpec => PruneReachesLow
<1>1. ASSUME PoolTypeOK, NEW c \in Callers, Prune(c), Cardinality(items) > HighWater
      PROVE  \/ Cardinality(items') = LowWater
             \/ items' \subseteq main /\ Cardinality(items') > LowWater
                /\ Cardinality(items' \ (protected \cup recent)) <=
                     UptimeK + (Cardinality(main \ (protected \cup recent)) + 4) \div 5
  <2>1. ~(Cardinality(items) <= HighWater)
    <3>1. Cardinality(items) \in Nat
      BY <1>1, PoolSets DEF PoolTypeOK
    <3> QED BY <1>1, <3>1, RelayPoolAssumption
  <2> QED BY <1>1, <2>1, PruneLeaves, ZenonT(60) DEF Prune
<1>2. PoolInv => [(\E c \in Callers : Prune(c)) /\ Cardinality(items) > HighWater =>
         \/ Cardinality(items') = LowWater
         \/ items' \subseteq main /\ Cardinality(items') > LowWater
            /\ Cardinality(items' \ (protected \cup recent)) <=
                 UptimeK + (Cardinality(main \ (protected \cup recent)) + 4) \div 5]_poolVars
  BY <1>1, ZenonT(60) DEF PoolInv
<1> QED BY <1>2, PoolInvInit, PoolInvNext, PTL DEF PoolSpec, PruneReachesLow

-----------------------------------------------------------------------------
(* The manager.                                                            *)

ManagerState ==
  [pc : {"start", "adding", "initial", "connect", "reserve", "tick", "renew", "renewing",
         "count", "need", "select", "fill"},
   todo : SUBSET Relays, cur : SUBSET Relays, drop : SUBSET Relays, need : Int,
   back : {"initial", "fill"}]

(* The relays the bootstrap has added are ordered as it has added them.    *)
LEMMA StaticOrder ==
  ASSUME Init
  PROVE  PoolTypeOK
<1> USE StaticRelaysAssumption, RelayPoolAssumption
<1> DEFINE s == StaticRelays
<1>1. /\ s \in Seq(Relays) /\ \A i, j \in 1..Len(s) : s[i] = s[j] => i = j
      /\ Len(s) \in Nat /\ DOMAIN s = 1..Len(s)
  BY DEF IsInjective
<1>2. items = {s[i] : i \in 1..Len(s)} /\ items \subseteq Relays
  BY <1>1 DEF Init, ToSet
<1>3. older \subseteq items \X items
  BY DEF Init
<1>4. \A i, j \in 1..Len(s) : <<s[i], s[j]>> \in older <=> i < j
  BY <1>1, <1>2 DEF Init
<1>5. \A q, r \in items : <<q, r>> \in older <=> q # r /\ <<r, q>> \notin older
  <2> SUFFICES ASSUME NEW i \in 1..Len(s), NEW j \in 1..Len(s)
               PROVE  <<s[i], s[j]>> \in older <=> s[i] # s[j] /\ <<s[j], s[i]>> \notin older
    BY <1>2
  <2>1. i < j <=> i # j /\ ~(j < i)
    BY <1>1
  <2>2. i # j <=> s[i] # s[j]
    BY <1>1
  <2> QED BY <1>4, <2>1, <2>2
<1>6. \A p, q, r \in items : <<p, q>> \in older /\ <<q, r>> \in older => <<p, r>> \in older
  <2> SUFFICES ASSUME NEW i \in 1..Len(s), NEW j \in 1..Len(s), NEW k \in 1..Len(s),
                      <<s[i], s[j]>> \in older, <<s[j], s[k]>> \in older
               PROVE  <<s[i], s[k]>> \in older
    BY <1>2
  <2>1. i < j /\ j < k
    BY <1>4
  <2>2. i < k
    BY <1>1, <2>1
  <2> QED BY <1>4, <2>2
<1> HIDE DEF s
<1>7. main = {} /\ open = {} /\ recent = {} /\ protected = items /\ managed = {} /\ pruning = {}
      /\ fails = [r \in Relays |-> 0]
  BY DEF Init
<1>8. fails \in [Relays -> 0..OpenAt]
  BY <1>7
<1> QED BY <1>2, <1>3, <1>5, <1>6, <1>7, <1>8, ZenonT(60) DEF PoolTypeOK

(* The updates of the manager's state that take r off its list.            *)
LEMMA Updates ==
  ASSUME NEW m \in ManagerState, NEW r \in Relays
  PROVE  /\ [m EXCEPT !.todo = @ \ {r}] \in ManagerState
         /\ [m EXCEPT !.todo = @ \ {r}].pc = m.pc
         /\ [m EXCEPT !.todo = @ \ {r}, !.drop = @ \cup {r}] \in ManagerState
         /\ [m EXCEPT !.todo = @ \ {r}, !.drop = @ \cup {r}].pc = m.pc
         /\ [m EXCEPT !.pc = "connect", !.todo = @ \ {r}, !.cur = {r}] \in ManagerState
         /\ [m EXCEPT !.pc = "connect", !.todo = @ \ {r}, !.cur = {r}].pc = "connect"
         /\ [m EXCEPT !.pc = "connect", !.todo = @ \ {r}, !.cur = {r}].back = m.back
         /\ [m EXCEPT !.pc = "renewing", !.todo = @ \ {r}, !.cur = {r}] \in ManagerState
         /\ [m EXCEPT !.pc = "renewing", !.todo = @ \ {r}, !.cur = {r}].pc = "renewing"
<1>1. [m EXCEPT !.todo = @ \ {r}] \in ManagerState
  BY DEF ManagerState
<1>2. [m EXCEPT !.todo = @ \ {r}, !.drop = @ \cup {r}] \in ManagerState
  BY ZenonT(60) DEF ManagerState
<1>3. [m EXCEPT !.pc = "connect", !.todo = @ \ {r}, !.cur = {r}] \in ManagerState
  BY ZenonT(60) DEF ManagerState
<1>4. [m EXCEPT !.pc = "renewing", !.todo = @ \ {r}, !.cur = {r}] \in ManagerState
  BY ZenonT(60) DEF ManagerState
<1> QED BY <1>1, <1>2, <1>3, <1>4 DEF ManagerState

(* Every relay SelectN returns is in the pool.                             *)
LEMMA SelectNFromPool ==
  ASSUME NEW n, NEW S \in SelectN(n)
  PROVE  S \subseteq items
BY DEF SelectN, kSubset, Closed

(* A step of the manager keeps the types.                                  *)
LEMMA ManagerKeepsTypes ==
  ASSUME TypeOK, Manager
  PROVE  TypeOK'
<1> USE RelayManagerAssumption
<1>0. /\ PoolTypeOK /\ mgr \in ManagerState /\ connected \subseteq Relays /\ items \subseteq Relays
      /\ managed \subseteq Relays /\ mgr.todo \subseteq Relays /\ mgr.cur \subseteq Relays
      /\ mgr.back \in {"initial", "fill"} /\ "manager" \in Callers
  BY DEF TypeOK, PoolTypeOK, ManagerState
<1>1. UNCHANGED <<up, outages, hc, calls>>
  BY ZenonT(60) DEF Manager, Start, AddInitial, TakeInitial, Connect, Reserve, LoopEnds, Tick, Renew, Renewed, Drop,
                 Count, Need, Select, TakeFill, netVars
<1>2. connected' \subseteq Relays
  <2>1. CASE Connect
    BY <1>0, <2>1 DEF Connect
  <2>2. CASE Renew
    BY <1>0, <2>2 DEF Renew
  <2>3. CASE UNCHANGED netVars
    BY <1>0, <2>3 DEF netVars
  <2> QED BY <2>1, <2>2, <2>3, ZenonT(60)
          DEF Manager, Start, AddInitial, TakeInitial, Reserve, LoopEnds, Tick, Renewed, Drop, Count, Need,
              Select, TakeFill
<1>3. mgr' \in ManagerState
  <2>1. CASE Start
    <3>1. PICK S \in SelectN(K) : mgr' = [mgr EXCEPT !.pc = "adding", !.todo = S]
      BY <2>1, ZenonT(60) DEF Start
    <3>2. S \subseteq Relays
      BY <1>0, SelectNFromPool
    <3> QED BY <1>0, <3>1, <3>2, ZenonT(60) DEF ManagerState
  <2>2. CASE TakeInitial
    <3>1. PICK r \in mgr.todo : mgr' = [mgr EXCEPT !.pc = "connect", !.todo = @ \ {r}, !.cur = {r}]
      BY <2>2, ZenonT(60) DEF TakeInitial
    <3> QED BY <1>0, <3>1, Updates, ZenonT(60)
  <2>3. CASE AddInitial \/ Connect \/ Reserve \/ Renewed \/ Count
    <3>1. PICK pc \in {"reserve", "initial", "fill", "renew", "need", "tick"} : mgr' = [mgr EXCEPT !.pc = pc]
      BY <1>0, <2>3 DEF AddInitial, Connect, Reserve, Renewed, Count
    <3> QED BY <1>0, <3>1 DEF ManagerState
  <2>4. CASE LoopEnds
    <3>1. mgr' = [mgr EXCEPT !.pc = "tick", !.cur = {}, !.back = "fill"]
      BY <2>4 DEF LoopEnds
    <3> QED BY <1>0, <3>1, ZenonT(60) DEF ManagerState
  <2>5. CASE Tick
    <3>1. mgr' = [mgr EXCEPT !.pc = "renew", !.todo = managed, !.drop = {}]
      BY <2>5 DEF Tick
    <3> QED BY <1>0, <3>1, ZenonT(60) DEF ManagerState
  <2>6. CASE Renew
    <3>1. PICK r \in mgr.todo : \/ mgr' = [mgr EXCEPT !.todo = @ \ {r}, !.drop = @ \cup {r}]
                                \/ mgr' = [mgr EXCEPT !.pc = "renewing", !.todo = @ \ {r}, !.cur = {r}]
      BY <2>6, ZenonT(60) DEF Renew
    <3>2. r \in Relays
      BY <1>0
    <3>3. CASE mgr' = [mgr EXCEPT !.todo = @ \ {r}, !.drop = @ \cup {r}]
      BY <1>0, <3>2, <3>3, Updates, ZenonT(60)
    <3>4. CASE mgr' = [mgr EXCEPT !.pc = "renewing", !.todo = @ \ {r}, !.cur = {r}]
      BY <1>0, <3>2, <3>4, Updates, ZenonT(60)
    <3> QED BY <3>1, <3>3, <3>4
  <2>7. CASE Drop
    BY <1>0, <2>7 DEF Drop, ManagerState
  <2>8. CASE Need
    <3>1. Cardinality(managed) \in Nat
      BY <1>0, PoolSets
    <3>2. PICK n \in Int : n = K - Cardinality(managed)
      BY <3>1
    <3>3. mgr' = [mgr EXCEPT !.pc = "select", !.need = n]
      BY <2>8, <3>2 DEF Need
    <3> QED BY <1>0, <3>3, ZenonT(60) DEF ManagerState
  <2>11. CASE Select
    <3>1. PICK S \in SelectN(mgr.need) : mgr' = [mgr EXCEPT !.pc = "fill", !.todo = S, !.need = 0]
      BY <2>11, ZenonT(60) DEF Select
    <3>2. S \subseteq Relays /\ 0 \in Int
      BY <1>0, SelectNFromPool
    <3> QED BY <1>0, <3>1, <3>2, ZenonT(60) DEF ManagerState
  <2>9. CASE TakeFill
    <3>1. PICK r \in mgr.todo : \/ mgr' = [mgr EXCEPT !.todo = @ \ {r}]
                                \/ mgr' = [mgr EXCEPT !.pc = "connect", !.todo = @ \ {r}, !.cur = {r}]
      BY <2>9, ZenonT(60) DEF TakeFill
    <3>2. r \in Relays
      BY <1>0
    <3>3. CASE mgr' = [mgr EXCEPT !.todo = @ \ {r}]
      BY <1>0, <3>2, <3>3, Updates, ZenonT(60)
    <3>4. CASE mgr' = [mgr EXCEPT !.pc = "connect", !.todo = @ \ {r}, !.cur = {r}]
      BY <1>0, <3>2, <3>4, Updates, ZenonT(60)
    <3> QED BY <3>1, <3>3, <3>4
  <2>10. CASE UNCHANGED mgr
    BY <1>0, <2>10
  <2> QED BY <2>1, <2>2, <2>3, <2>4, <2>5, <2>6, <2>7, <2>8, <2>9, <2>10, <2>11 DEF Manager
<1>4. PoolTypeOK'
  <2>1. CASE AddInitial
    <3>1. SetManaged(managed \cup mgr.todo)
      BY <2>1 DEF AddInitial
    <3>2. managed \cup mgr.todo \in SUBSET Relays
      BY <1>0
    <3> QED BY <1>0, <3>1, <3>2 DEF SetManaged, itemVars, PoolTypeOK
  <2>2. CASE Connect
    <3>1. PICK r \in mgr.cur, result \in Outcomes : RecordResult("manager", r, result)
      BY <2>2 DEF Connect
    <3>2. r \in Relays
      BY <1>0
    <3> QED BY <1>0, <3>1, <3>2, RecordKeepsTypes
  <2>3. CASE Reserve
    <3>1. PICK r \in mgr.cur : \E result \in Results(r) : RecordResult("manager", r, result)
      BY <2>3 DEF Reserve
    <3>2. r \in Relays
      BY <1>0
    <3> QED BY <1>0, <3>1, <3>2, RecordKeepsTypes
  <2>4. CASE Renewed
    <3>1. PICK r \in mgr.cur : \E result \in Results(r) : RecordResult("manager", r, result)
      BY <2>4 DEF Renewed
    <3>2. r \in Relays
      BY <1>0
    <3> QED BY <1>0, <3>1, <3>2, RecordKeepsTypes
  <2>5. CASE Drop
    <3>1. SetManaged(managed \ mgr.drop)
      BY <2>5 DEF Drop
    <3> QED BY <1>0, <3>1 DEF SetManaged, itemVars, PoolTypeOK
  <2>6. CASE TakeFill
    <3>1. PICK r \in mgr.todo : UNCHANGED poolVars \/ SetManaged(managed \cup {r})
      BY <2>6, ZenonT(60) DEF TakeFill
    <3>2. r \in Relays
      BY <1>0
    <3> QED BY <1>0, <3>1, <3>2 DEF SetManaged, itemVars, poolVars, PoolTypeOK
  <2>7. CASE Prune("manager")
    BY <1>0, <2>7, PruneKeepsTypes
  <2>8. CASE UNCHANGED poolVars
    BY <1>0, <2>8 DEF poolVars, PoolTypeOK
  <2> QED BY <2>1, <2>2, <2>3, <2>4, <2>5, <2>6, <2>7, <2>8, ZenonT(60)
          DEF Manager, Start, TakeInitial, LoopEnds, Tick, Renew, Count, Need, Select
<1> QED BY <1>1, <1>2, <1>3, <1>4 DEF TypeOK, ManagerState

(* Every step keeps the types.                                             *)
LEMMA TypeOKNext == TypeOK /\ [Next]_vars => TypeOK'
<1> SUFFICES ASSUME TypeOK, [Next]_vars PROVE TypeOK'
  OBVIOUS
<1> USE RelayManagerAssumption
<1>0. PoolTypeOK /\ items \subseteq Relays /\ protected \subseteq Relays
  BY DEF TypeOK, PoolTypeOK
<1>1. CASE Manager
  BY <1>1, ManagerKeepsTypes
<1>2. CASE TakeTargets
  <2>1. PoolTypeOK'
    BY <1>0, <1>2 DEF TakeTargets, poolVars, PoolTypeOK
  <2> QED BY <1>0, <1>2, <2>1 DEF TakeTargets, netVars, TypeOK
<1>3. CASE Ping
  <2>1. PICK r \in hc : /\ hc' = hc \ {r}
                        /\ PingAnswered(r) \/ \E result \in Results(r) : RecordResult("health", r, result)
    BY <1>3 DEF Ping
  <2>2. r \in Relays
    BY DEF TypeOK
  <2>3. PoolTypeOK'
    BY <1>0, <2>1, <2>2, PingKeepsTypes, RecordKeepsTypes
  <2> QED BY <1>3, <2>1, <2>3 DEF Ping, netVars, TypeOK
<1>4. CASE (\E c : Prune(c)) /\ UNCHANGED <<netVars, mgr, hc, calls>>
  <2>1. PoolTypeOK'
    BY <1>0, <1>4, PruneKeepsTypes
  <2> QED BY <1>4, <2>1 DEF netVars, TypeOK
<1>5. CASE Call
  <2>1. PICK r \in Relays : \/ Add("api", r) \/ RemoveRelay(r)
                            \/ SetProtected(protected \cup {r}) \/ SetProtected(protected \ {r})
    BY <1>5, ZenonT(60) DEF Call
  <2>2. SetProtected(protected \cup {r}) \/ SetProtected(protected \ {r}) => PoolTypeOK'
    BY <1>0 DEF SetProtected, itemVars, PoolTypeOK
  <2>3. PoolTypeOK'
    <3>1. Add("api", r) => PoolTypeOK'
      BY <1>0, AddKeepsTypes
    <3>2. RemoveRelay(r) => PoolTypeOK'
      BY <1>0, RemoveKeepsTypes
    <3> QED BY <2>1, <2>2, <3>1, <3>2
  <2> QED BY <1>5, <2>3 DEF Call, netVars, TypeOK
<1>6. CASE Age
  <2>1. PICK r \in Relays : Ages(r)
    BY <1>6 DEF Age
  <2>2. PoolTypeOK'
    BY <1>0, <2>1 DEF Ages, PoolTypeOK
  <2> QED BY <1>6, <2>2 DEF Age, netVars, TypeOK
<1>7. CASE Outage \/ Recovery \/ Connection
  <2>1. PoolTypeOK'
    BY <1>0, <1>7 DEF Outage, Recovery, Connection, poolVars, PoolTypeOK
  <2>2. connected' \subseteq Relays /\ up' \subseteq Relays /\ UNCHANGED <<mgr, hc, calls>>
    BY <1>7 DEF Outage, Recovery, Connection, TypeOK
  <2>3. outages' \in 0..MaxOutages
    BY <1>7 DEF Outage, Recovery, Connection, TypeOK
  <2> QED BY <2>1, <2>2, <2>3 DEF TypeOK
<1>8. CASE UNCHANGED vars
  <2>1. PoolTypeOK'
    BY <1>0, <1>8 DEF vars, poolVars, PoolTypeOK
  <2> QED BY <1>8, <2>1 DEF vars, netVars, TypeOK
<1> QED BY <1>1, <1>2, <1>3, <1>4, <1>5, <1>6, <1>7, <1>8 DEF Next, HealthCheck, EndCall

(* The pool, the manager and the health check keep their types together,   *)
(* with any goroutine's call between the unlock and the prune of another.  *)
THEOREM TypesAlwaysOK == Spec => []TypeOK
<1>1. Init => TypeOK
  BY StaticOrder, RelayManagerAssumption DEF Init, TypeOK
<1> QED BY <1>1, TypeOKNext, PTL DEF Spec

-----------------------------------------------------------------------------
(* While the manager fills up, what it has selected still fits.            *)
Filling == mgr.pc = "fill" \/ (mgr.pc \in {"connect", "reserve"} /\ mgr.back = "fill")

ManagerInv ==
  /\ managed \subseteq Relays
  /\ mgr \in ManagerState
  /\ AtMostK
  /\ mgr.pc \in {"start", "adding"} => managed = {}
  /\ mgr.pc \in {"start", "adding", "initial"} => mgr.back = "initial"
  /\ mgr.pc = "adding" => Cardinality(mgr.todo) <= K
  /\ mgr.pc = "select" => mgr.need \in Nat /\ Cardinality(managed) + mgr.need <= K
  /\ Filling => Cardinality(managed) + Cardinality(mgr.todo) <= K

(* SelectN returns no more than it is asked for.                           *)
LEMMA SelectNBounded ==
  ASSUME items \subseteq Relays, NEW n \in Nat, NEW S \in SelectN(n)
  PROVE  S \subseteq Relays /\ Cardinality(S) <= n
<1>1. Closed \in SUBSET Relays
  BY DEF Closed
<1>2. S \subseteq Closed /\ Cardinality(S) = Lesser(n, Cardinality(Closed))
  BY DEF SelectN, kSubset
<1>3. Cardinality(Closed) \in Nat
  BY <1>1, PoolSets
<1> QED BY <1>1, <1>2, <1>3 DEF Lesser

(* Taking relays out of managed, and leaving the manager alone, keeps it.  *)
LEMMA Shrinks ==
  ASSUME ManagerInv, UNCHANGED mgr, managed' \subseteq managed
  PROVE  ManagerInv'
<1> USE RelayManagerAssumption
<1>1. Cardinality(managed') <= Cardinality(managed) /\ managed' \subseteq Relays
  BY PoolSets, FS_Subset DEF ManagerInv, ManagerState
<1>2. Cardinality(managed) \in Nat /\ Cardinality(managed') \in Nat
      /\ Cardinality(mgr.todo) \in Nat
  BY <1>1, PoolSets DEF ManagerInv, ManagerState
<1>3. AtMostK'
  BY <1>1, <1>2 DEF ManagerInv, AtMostK
<1>4. Filling' => Cardinality(managed') + Cardinality(mgr'.todo) <= K
  BY <1>1, <1>2 DEF ManagerInv, Filling
<1>5. mgr'.pc = "select" => mgr'.need \in Nat /\ Cardinality(managed') + mgr'.need <= K
  BY <1>1, <1>2 DEF ManagerInv
<1>6. mgr'.pc \in {"start", "adding"} => managed' = {}
  BY DEF ManagerInv
<1> QED BY <1>1, <1>3, <1>4, <1>5, <1>6 DEF ManagerInv, ManagerState

(* The methods of the pool that other goroutines call never add to managed.*)
LEMMA OthersShrink ==
  ASSUME NEW r, NEW c, NEW outcome, NEW S
  PROVE  /\ Add(c, r) => managed' = managed
         /\ RemoveRelay(r) => managed' \subseteq managed
         /\ SetProtected(S) => managed' = managed
         /\ RecordResult(c, r, outcome) => managed' = managed
         /\ PingAnswered(r) => managed' = managed
         /\ Ages(r) => managed' = managed
         /\ Prune(c) => managed' = managed
<1>1. Prune(c) => managed' = managed
  BY DEF Prune, Evict
<1> QED BY <1>1 DEF Add, RemoveRelay, SetProtected, RecordResult, PingAnswered, Ages, poolVars

(* The manager's own steps: only AddInitial and TakeFill add to managed.   *)
LEMMA ManagerKeepsInv ==
  ASSUME TypeOK, ManagerInv, Manager
  PROVE  ManagerInv'
<1> USE RelayManagerAssumption
<1>0. managed \in SUBSET Relays /\ mgr.todo \in SUBSET Relays /\ items \subseteq Relays
  BY DEF ManagerInv, ManagerState, TypeOK, PoolTypeOK
<1>1. CASE Start
  <2>1. PICK S \in SelectN(K) : mgr' = [mgr EXCEPT !.pc = "adding", !.todo = S]
    BY <1>1, ZenonT(60) DEF Start
  <2>2. S \subseteq Relays /\ Cardinality(S) <= K
    BY <1>0, <2>1, SelectNBounded
  <2>3. managed' = {} /\ managed = {} /\ mgr.back = "initial"
    BY <1>1 DEF Start, ManagerInv, poolVars
  <2>4. mgr' \in ManagerState /\ mgr'.pc = "adding" /\ mgr'.back = "initial" /\ mgr'.todo = S
    BY <2>1, <2>2, <2>3, ZenonT(60) DEF ManagerInv, ManagerState
  <2> QED BY <2>2, <2>3, <2>4 DEF ManagerInv, AtMostK, Filling
<1>12. CASE AddInitial
  <2>1. managed' = mgr.todo /\ mgr.pc = "adding" /\ mgr' = [mgr EXCEPT !.pc = "initial"]
    BY <1>12 DEF AddInitial, SetManaged, ManagerInv
  <2>2. mgr' \in ManagerState /\ mgr'.pc = "initial" /\ mgr'.back = "initial"
    BY <2>1 DEF ManagerInv, ManagerState
  <2>3. AtMostK'
    BY <2>1 DEF ManagerInv, AtMostK
  <2> QED BY <1>0, <2>1, <2>2, <2>3 DEF ManagerInv, Filling
<1>2. CASE TakeInitial
  <2>1. PICK r \in mgr.todo :
          mgr' = [mgr EXCEPT !.pc = "connect", !.todo = @ \ {r}, !.cur = {r}]
    BY <1>2, ZenonT(60) DEF TakeInitial
  <2>2. mgr.pc = "initial" /\ mgr.back = "initial" /\ managed' = managed
    BY <1>2 DEF TakeInitial, ManagerInv, poolVars
  <2>3. mgr' \in ManagerState /\ mgr'.pc = "connect" /\ mgr'.back = "initial"
    <3>1. r \in Relays /\ mgr \in ManagerState
      BY <1>0 DEF ManagerInv
    <3> QED BY <2>1, <2>2, <3>1, Updates, ZenonT(60)
  <2> QED BY <2>2, <2>3 DEF ManagerInv, AtMostK, Filling
<1>3. CASE Connect
  <2>1. managed' = managed
    BY <1>3, OthersShrink DEF Connect
  <2>2. /\ mgr.pc = "connect"
        /\ \E pc \in {"reserve", mgr.back} : mgr' = [mgr EXCEPT !.pc = pc]
    BY <1>3 DEF Connect
  <2> QED BY <2>1, <2>2 DEF ManagerInv, ManagerState, AtMostK, Filling
<1>4. CASE Reserve
  <2>1. managed' = managed
    BY <1>4, OthersShrink DEF Reserve
  <2> QED BY <1>4, <2>1 DEF Reserve, ManagerInv, ManagerState, AtMostK, Filling
<1>5. CASE LoopEnds
  BY <1>5, ZenonT(60) DEF LoopEnds, ManagerInv, ManagerState, AtMostK, Filling, poolVars
<1>6. CASE Tick
  BY <1>6, ZenonT(60) DEF Tick, ManagerInv, ManagerState, AtMostK, Filling, poolVars
<1>7. CASE Renew
  <2>1. managed' = managed
    BY <1>7 DEF Renew, poolVars
  <2>2. PICK r \in mgr.todo :
          \/ mgr' = [mgr EXCEPT !.todo = @ \ {r}, !.drop = @ \cup {r}]
          \/ mgr' = [mgr EXCEPT !.pc = "renewing", !.todo = @ \ {r}, !.cur = {r}]
    BY <1>7, ZenonT(60) DEF Renew
  <2>3. mgr.pc = "renew"
    BY <1>7 DEF Renew
  <2>4. mgr' \in ManagerState /\ mgr'.pc \in {"renew", "renewing"}
    <3>1. r \in Relays /\ mgr \in ManagerState
      BY <1>0 DEF ManagerInv
    <3>2. CASE mgr' = [mgr EXCEPT !.todo = @ \ {r}, !.drop = @ \cup {r}]
      BY <2>3, <3>1, <3>2, Updates, ZenonT(60)
    <3>3. CASE mgr' = [mgr EXCEPT !.pc = "renewing", !.todo = @ \ {r}, !.cur = {r}]
      BY <3>1, <3>3, Updates, ZenonT(60)
    <3> QED BY <2>2, <3>2, <3>3
  <2> QED BY <2>1, <2>4 DEF ManagerInv, AtMostK, Filling
<1>13. CASE Renewed
  <2>1. managed' = managed
    BY <1>13, OthersShrink DEF Renewed
  <2> QED BY <1>13, <2>1 DEF Renewed, ManagerInv, ManagerState, AtMostK, Filling
<1>8. CASE Drop
  <2>1. managed' \subseteq managed /\ mgr.pc = "renew" /\ mgr' = [mgr EXCEPT !.pc = "count"]
    BY <1>8 DEF Drop, SetManaged
  <2>2. managed' \subseteq Relays /\ Cardinality(managed') <= Cardinality(managed)
    BY <1>0, <2>1, PoolSets, FS_Subset
  <2>3. AtMostK'
    BY <1>0, <2>2, PoolSets DEF AtMostK, ManagerInv
  <2>4. mgr' \in ManagerState /\ mgr'.pc = "count"
    BY <2>1 DEF ManagerInv, ManagerState
  <2> QED BY <2>2, <2>3, <2>4 DEF ManagerInv, Filling
<1>9. CASE Count
  <2>1. managed' = managed /\ \E pc \in {"need", "tick"} : mgr' = [mgr EXCEPT !.pc = pc]
    BY <1>9 DEF Count, poolVars
  <2> QED BY <2>1 DEF ManagerInv, ManagerState, AtMostK, Filling
<1>14. CASE Need
  <2>1. /\ managed' = managed /\ mgr.pc = "need"
        /\ mgr' = [mgr EXCEPT !.pc = "select", !.need = K - Cardinality(managed)]
    BY <1>14 DEF Need, poolVars
  <2>2. Cardinality(managed) \in Nat /\ Cardinality(managed) <= K
    BY <1>0, PoolSets DEF ManagerInv, AtMostK
  <2>3. K - Cardinality(managed) \in Nat /\ Cardinality(managed) + (K - Cardinality(managed)) <= K
    BY <2>2
  <2>4. mgr' \in ManagerState /\ mgr'.pc = "select" /\ mgr'.need = K - Cardinality(managed)
    <3>1. PICK n \in Int : n = K - Cardinality(managed)
      BY <2>3
    <3>2. mgr \in ManagerState /\ mgr' = [mgr EXCEPT !.pc = "select", !.need = n]
      BY <2>1, <3>1 DEF ManagerInv
    <3>3. mgr' \in ManagerState /\ mgr'.pc = "select" /\ mgr'.need = n
      BY <3>2, ZenonT(60) DEF ManagerState
    <3> QED BY <3>1, <3>3
  <2> QED BY <2>1, <2>3, <2>4 DEF ManagerInv, AtMostK, Filling
<1>15. CASE Select
  <2>1. /\ managed' = managed /\ mgr.pc = "select"
        /\ mgr.need \in Nat /\ Cardinality(managed) + mgr.need <= K
    BY <1>15, ZenonT(60) DEF Select, poolVars, ManagerInv
  <2>2. PICK S \in SelectN(mgr.need) : mgr' = [mgr EXCEPT !.pc = "fill", !.todo = S, !.need = 0]
    BY <1>15, ZenonT(60) DEF Select
  <2>3. S \subseteq Relays /\ Cardinality(S) <= mgr.need
    BY <1>0, <2>1, <2>2, SelectNBounded
  <2>4. Cardinality(managed) + Cardinality(S) <= K
    BY <1>0, <2>1, <2>3, PoolSets
  <2>5. mgr' \in ManagerState /\ mgr'.pc = "fill" /\ mgr'.todo = S
    <3>1. 0 \in Int
      OBVIOUS
    <3> QED BY <2>2, <2>3, <3>1, ZenonT(60) DEF ManagerInv, ManagerState
  <2> QED BY <2>1, <2>4, <2>5 DEF ManagerInv, AtMostK, Filling
<1>10. CASE TakeFill
  <2>1. mgr.pc = "fill" /\ Cardinality(managed) + Cardinality(mgr.todo) <= K
    BY <1>10 DEF TakeFill, ManagerInv, Filling
  <2>2. PICK r \in mgr.todo :
          IF r \in connected
          THEN mgr' = [mgr EXCEPT !.todo = @ \ {r}] /\ UNCHANGED poolVars
          ELSE /\ SetManaged(managed \cup {r})
               /\ mgr' = [mgr EXCEPT !.pc = "connect", !.todo = @ \ {r}, !.cur = {r}]
    BY <1>10, ZenonT(60) DEF TakeFill
  <2>3. mgr'.todo = mgr.todo \ {r}
    BY <2>2, ZenonT(60) DEF ManagerInv, ManagerState
  <2>4. Cardinality(mgr'.todo) = Cardinality(mgr.todo) - 1 /\ mgr'.todo \subseteq Relays
    BY <1>0, <2>2, <2>3, PoolSets, FS_RemoveElement
  <2>5. /\ managed' \in {managed, managed \cup {r}}
        /\ managed' \subseteq Relays
    BY <1>0, <2>2 DEF SetManaged, poolVars
  <2>6. Cardinality(managed') <= Cardinality(managed) + 1
    <3>1. Cardinality(managed) \in Nat /\ IsFiniteSet(managed)
      BY <1>0, PoolSets
    <3>2. CASE managed' = managed
      BY <3>1, <3>2
    <3>3. CASE managed' = managed \cup {r}
      BY <3>1, <3>3, FS_AddElement
    <3> QED BY <2>5, <3>2, <3>3
  <2>7. Cardinality(managed') + Cardinality(mgr'.todo) <= K
    BY <1>0, <2>1, <2>4, <2>5, <2>6, PoolSets
  <2>8. AtMostK'
    BY <2>4, <2>5, <2>7, PoolSets DEF AtMostK
  <2>9. mgr' \in ManagerState /\ mgr'.pc \in {"fill", "connect"}
    <3>1. r \in Relays /\ mgr \in ManagerState
      BY <1>0 DEF ManagerInv
    <3>2. CASE mgr' = [mgr EXCEPT !.todo = @ \ {r}]
      BY <2>1, <3>1, <3>2, Updates, ZenonT(60)
    <3>3. CASE mgr' = [mgr EXCEPT !.pc = "connect", !.todo = @ \ {r}, !.cur = {r}]
      BY <3>1, <3>3, Updates, ZenonT(60)
    <3> QED BY <2>2, <3>2, <3>3
  <2> QED BY <2>5, <2>7, <2>8, <2>9 DEF ManagerInv, Filling
<1>11. CASE Prune("manager") /\ UNCHANGED <<netVars, mgr, hc, calls>>
  BY <1>11, OthersShrink, Shrinks
<1> QED BY <1>1, <1>2, <1>3, <1>4, <1>5, <1>6, <1>7, <1>8, <1>9, <1>10, <1>11,
          <1>12, <1>13, <1>14, <1>15 DEF Manager

(* Every step: the health check, other callers and the network never add   *)
(* to managed.                                                             *)
LEMMA ManagerInvNext == TypeOK /\ ManagerInv /\ [Next]_vars => ManagerInv'
<1> SUFFICES ASSUME TypeOK, ManagerInv, [Next]_vars PROVE ManagerInv'
  OBVIOUS
<1>1. CASE Manager
  BY <1>1, ManagerKeepsInv
<1>2. CASE HealthCheck
  BY <1>2, OthersShrink, Shrinks DEF HealthCheck, TakeTargets, Ping, poolVars
<1>3. CASE Call
  BY <1>3, OthersShrink, Shrinks, ZenonT(60) DEF Call
<1>4. CASE EndCall \/ Age
  BY <1>4, OthersShrink, Shrinks DEF EndCall, Age
<1>5. CASE Outage \/ Recovery \/ Connection
  BY <1>5, Shrinks DEF Outage, Recovery, Connection, poolVars
<1>6. CASE UNCHANGED vars
  BY <1>6, Shrinks DEF vars, poolVars
<1> QED BY <1>1, <1>2, <1>3, <1>4, <1>5, <1>6 DEF Next

(* relayPoolManager keeps at most K relays in the managed map, although it *)
(* counts twice, selects and adds in separate critical sections, between   *)
(* which relays may be removed.                                            *)
THEOREM ManagedBounded == Spec => []AtMostK
<1>1. Init => ManagerInv
  BY FS_EmptySet, RelayManagerAssumption DEF Init, ManagerInv, ManagerState, AtMostK, Filling
<1>2. ManagerInv => AtMostK
  BY DEF ManagerInv, ManagerState
<1> QED BY <1>1, <1>2, ManagerInvNext, TypesAlwaysOK, PTL DEF Spec

=============================================================================

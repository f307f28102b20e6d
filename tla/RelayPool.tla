------------------------------ MODULE RelayPool ------------------------------
(***************************************************************************)
(* The two-tier pool of relays of p2put/relaypool.go: probation and main,  *)
(* a circuit breaker, and prune with its protection rounds.  The methods   *)
(* run under the pool's mutex; Add and RecordResult release it before they *)
(* call prune.  Scores depend on clocks, latencies and weights and are     *)
(* abstract: any ranking is possible.  Here any goroutine calls any method;*)
(* RelayManager has the goroutines that call them in the program.          *)
(***************************************************************************)
EXTENDS Integers, Sequences, FiniteSets, SequencesExt

CONSTANTS
  Relays,
  Callers,              \* goroutines that call methods of the pool
  HighWater, LowWater,  \* 50 and 40
  DemoteAt, OpenAt,     \* demoteThreshold (3) and the breaker's threshold (5)
  UptimeK               \* main relays kept for their uptime (10)

ASSUME RelayPoolAssumption ==
  /\ IsFiniteSet(Relays)
  /\ HighWater \in Nat /\ LowWater \in 0..HighWater
  /\ DemoteAt \in Nat \ {0} /\ OpenAt \in Nat /\ DemoteAt <= OpenAt
  /\ UptimeK \in Nat

VARIABLES
  items,      \* the relays of the pool
  older,      \* <<q, r>>: q has the earlier connectedSince
  main,       \* relays with inMain
  fails,      \* consecutiveFails; no value above OpenAt is told apart, 0 without an item
  open,       \* relays with circuitOpen
  recent,     \* relays with a lastResult less than five minutes ago
  protected,  \* the protected map
  managed,    \* the managed map
  pruning     \* callers between the unlock of Add or RecordResult and prune

itemVars == <<items, older, main, fails, open, recent>>
poolVars == <<items, older, main, fails, open, recent, protected, managed, pruning>>

Lesser(a, b) == IF a < b THEN a ELSE b

Outcomes == {"ok", "limited", "failed"}

PoolInit ==
  /\ items = {} /\ older = {} /\ main = {} /\ open = {} /\ recent = {}
  /\ fails = [r \in Relays |-> 0]
  /\ protected = {} /\ managed = {} /\ pruning = {}

-----------------------------------------------------------------------------
Add(c, r) ==
  /\ c \notin pruning
  /\ r \notin items
  /\ items' = items \cup {r} /\ older' = older \cup items \X {r}
  /\ pruning' = pruning \cup {c}
  /\ UNCHANGED <<main, fails, open, recent, protected, managed>>

(* What remains of the order when a set of relays leaves.                  *)
Remaining(S) == {p \in older : p[1] \notin S /\ p[2] \notin S}

RemoveRelay(r) ==
  /\ items' = items \ {r} /\ older' = Remaining({r})
  /\ main' = main \ {r} /\ open' = open \ {r} /\ recent' = recent \ {r}
  /\ fails' = [fails EXCEPT ![r] = 0]
  /\ protected' = protected \ {r} /\ managed' = managed \ {r}
  /\ UNCHANGED pruning

SetProtected(S) ==
  /\ protected' = S
  /\ UNCHANGED <<itemVars, managed, pruning>>

SetManaged(S) ==
  /\ managed' = S
  /\ UNCHANGED <<itemVars, protected, pruning>>

(* RecordResult up to its unlock; a relay that is not in the pool is       *)
(* ignored.                                                                *)
MoreFails(r) == IF fails[r] < OpenAt THEN fails[r] + 1 ELSE fails[r]

RecordOK(r) ==
  /\ fails' = [fails EXCEPT ![r] = 0]
  /\ open' = open \ {r}
  /\ main' = main \cup {r}

(* MUTANT: the tier is looked at before the failure is counted.            *)
DemoteLate(r) ==
  /\ fails' = [fails EXCEPT ![r] = MoreFails(r)]
  /\ main' = IF fails[r] >= DemoteAt THEN main \ {r} ELSE main
  /\ open' = IF MoreFails(r) >= OpenAt THEN open \cup {r} ELSE open

RecordFailed(r) ==
  /\ fails' = [fails EXCEPT ![r] = MoreFails(r)]
  /\ main' = IF MoreFails(r) >= DemoteAt THEN main \ {r} ELSE main
  /\ open' = IF MoreFails(r) >= OpenAt THEN open \cup {r} ELSE open

RecordResult(c, r, outcome) ==
  /\ c \notin pruning
  /\ IF r \notin items THEN UNCHANGED poolVars
     ELSE /\ \/ outcome = "ok" /\ RecordOK(r)
             \/ outcome = "failed" /\ RecordFailed(r)
             \/ outcome = "limited" /\ UNCHANGED <<fails, open, main>>
          /\ recent' = recent \cup {r}
          /\ pruning' = pruning \cup {c}
          /\ UNCHANGED <<items, older, protected, managed>>

(* The health check of StartHealthCheck after a ping that was answered:    *)
(* the breaker stays open and the tier is not changed.                     *)
PingAnswered(r) ==
  /\ fails' = IF r \in items THEN [fails EXCEPT ![r] = 0] ELSE fails
  /\ UNCHANGED <<items, older, main, open, recent, protected, managed, pruning>>

(* Five minutes pass since the last result of r.                           *)
Ages(r) ==
  /\ r \in recent
  /\ recent' = recent \ {r}
  /\ UNCHANGED <<items, older, main, fails, open, protected, managed, pruning>>

(* SelectN: n relays whose circuit is closed, or all of them.              *)
Closed == items \ open

(* MUTANT: one relay too many.                                             *)
SelectMore(n) == kSubset(Lesser(n + 1, Cardinality(Closed)), Closed)

SelectN(n) == kSubset(Lesser(n, Cardinality(Closed)), Closed)

-----------------------------------------------------------------------------
(* prune.                                                                  *)
Oldest(S, k) == {r \in S : Cardinality({q \in S : <<q, r>> \in older}) < k}

Quota ==
  LET need == Cardinality(items) - LowWater
      prob == Cardinality(items \ main)
      fromProb == Lesser(need \div 2, prob)
      fromMain == Lesser(need - fromProb, Cardinality(main))
  IN  [prob |-> need - fromMain, main |-> fromMain]

(* What the protection rounds leave: not protected, not recently active,   *)
(* not of the best fifth by score (rounded up), not of the UptimeK oldest. *)
(* MUTANT: the protected map is not consulted.                             *)
UnprotectedRounds ==
  LET unshielded == main \ recent
      topK == (Cardinality(unshielded) + 4) \div 5
  IN  {(unshielded \ top) \ Oldest(unshielded \ top, UptimeK) :
         top \in kSubset(topK, unshielded)}

Candidates ==
  LET unshielded == main \ (protected \cup recent)
      topK == (Cardinality(unshielded) + 4) \div 5
  IN  {(unshielded \ top) \ Oldest(unshielded \ top, UptimeK) :
         top \in kSubset(topK, unshielded)}

Evict(S) ==
  /\ items' = items \ S /\ older' = Remaining(S)
  /\ main' = main \ S /\ open' = open \ S /\ recent' = recent \ S
  /\ fails' = [r \in Relays |-> IF r \in S THEN 0 ELSE fails[r]]
  /\ protected' = protected \ S
  /\ UNCHANGED managed

(* MUTANT: what main cannot give up is not taken from probation.           *)
NoSpill(fromProb, fromMain) == Oldest(items \ main, fromProb) \cup fromMain

(* The probation relays evicted first, and those that make up for the main *)
(* relays the rounds have kept.                                            *)
Evicted(fromProb, fromMain) ==
  Oldest(items \ main, fromProb + Quota.main - Cardinality(fromMain)) \cup fromMain

Prune(c) ==
  /\ c \in pruning
  /\ pruning' = pruning \ {c}
  /\ IF Cardinality(items) <= HighWater THEN UNCHANGED <<itemVars, protected, managed>>
     ELSE \E cand \in Candidates :
          \E fromMain \in kSubset(Lesser(Quota.main, Cardinality(cand)), cand) :
            Evict(Evicted(Quota.prob, fromMain))

-----------------------------------------------------------------------------
PoolNext ==
  \/ \E c \in Callers, r \in Relays :
       \/ Add(c, r)
       \/ \E outcome \in Outcomes : RecordResult(c, r, outcome)
  \/ \E c \in Callers : Prune(c)
  \/ \E r \in Relays :
       \/ RemoveRelay(r) \/ PingAnswered(r) \/ Ages(r)
       \/ SetProtected(protected \cup {r}) \/ SetProtected(protected \ {r})

PoolSpec == PoolInit /\ [][PoolNext]_poolVars

(* Every variable keeps its type; the tiers, breakers and activity marks   *)
(* are of relays in the pool, and of any two of its relays one is older.   *)
PoolTypeOK ==
  /\ items \subseteq Relays /\ older \subseteq items \X items
  /\ \A q, r \in items : <<q, r>> \in older <=> q # r /\ <<r, q>> \notin older
  /\ \A p, q, r \in items : <<p, q>> \in older /\ <<q, r>> \in older => <<p, r>> \in older
  /\ main \subseteq items /\ open \subseteq items /\ recent \subseteq items
  /\ fails \in [Relays -> 0..OpenAt]
  /\ protected \subseteq Relays /\ managed \subseteq Relays
  /\ pruning \subseteq Callers

(* The tiers and the breaker agree: a relay of the main tier has failed    *)
(* fewer than DemoteAt times in a row and its circuit is closed, whatever  *)
(* results, pings and prunes of several goroutines come in between.        *)
MainIsHealthy ==
  \A r \in main : fails[r] < DemoteAt /\ r \notin open

(* What a prune that starts above HighWater achieves: it comes down to     *)
(* LowWater, or there is nothing left that it may evict - no probation     *)
(* relay, and in main only relays that a protection round has kept.        *)
PruneReachesLow ==
  [][(\E c \in Callers : Prune(c)) /\ Cardinality(items) > HighWater =>
       \/ Cardinality(items') = LowWater
       \/ items' \subseteq main /\ Cardinality(items') > LowWater
          /\ Cardinality(items' \ (protected \cup recent)) <=
               UptimeK + (Cardinality(main \ (protected \cup recent)) + 4) \div 5]_poolVars

(* A main relay that is protected or recently active survives every prune, *)
(* also one whose quota it would take to meet.                             *)
ShieldedSurvives ==
  [][(\E c \in Callers : Prune(c)) =>
       \A r \in main \cap (protected \cup recent) : r \in main' /\ r \in items']_poolVars

(* What the comment of RelayPool says of its capacity: never more than     *)
(* HighWater relays, except between an Add and its prune.  The code does   *)
(* not keep it, and no run checks it (see the README).                     *)
Capacity == pruning = {} => Cardinality(items) <= HighWater

=============================================================================

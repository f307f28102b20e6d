---------------------------- MODULE RelayManager ----------------------------
(***************************************************************************)
(* The users of the relay pool: relayPoolManager of p2put/libp2p_bs.go, a  *)
(* goroutine that keeps K relays connected and reserved, and the exported  *)
(* methods of the pool, which a program may call.  StartHealthCheck is one *)
(* of them: nothing in the repository starts it.  Relays go down and come  *)
(* back; connections come and go.                                          *)
(***************************************************************************)
EXTENDS RelayPool

CONSTANTS
  StaticRelays,  \* the relays the bootstrap adds and protects
  K,           \* relays to manage (3)
  MaxOutages,  \* bound on relays going down
  MaxCalls     \* bound on calls of Add, Remove, Protect and Unprotect

ASSUME StaticRelaysAssumption ==
  /\ StaticRelays \in Seq(Relays) /\ IsInjective(StaticRelays)
  /\ Len(StaticRelays) <= HighWater

ASSUME RelayManagerAssumption ==
  /\ K \in Nat /\ MaxOutages \in Nat /\ MaxCalls \in Nat
  /\ {"api", "manager", "health"} \subseteq Callers

VARIABLES
  connected,  \* relays with Connectedness Connected
  up,         \* relays that answer
  mgr,        \* relayPoolManager
  hc,         \* the targets of a health check, for a program that starts one
  outages, calls

netVars == <<connected, up, outages>>
vars == <<poolVars, netVars, mgr, hc, calls>>

(* What an attempt to ping or to reserve at r may return; Connect returns  *)
(* at once for a relay that is connected, even when it no longer answers.  *)
Results(r) == IF r \in up THEN {"ok", "limited"} ELSE {"failed", "limited"}
ConnectResults(r) == IF r \in connected THEN {"ok"} ELSE Results(r)

(* The state when the bootstrap starts the manager.                        *)
Init ==
  /\ items = ToSet(StaticRelays) /\ protected = items
  /\ older = {p \in items \X items : \E i, j \in 1..Len(StaticRelays) :
                                       i < j /\ p = <<StaticRelays[i], StaticRelays[j]>>}
  /\ main = {} /\ open = {} /\ recent = {} /\ fails = [r \in Relays |-> 0]
  /\ managed = {} /\ pruning = {}
  /\ connected = {} /\ up = Relays /\ outages = 0 /\ calls = 0
  /\ mgr = [pc |-> "start", todo |-> {}, cur |-> {}, drop |-> {}, need |-> 0, back |-> "initial"]
  /\ hc = {}

-----------------------------------------------------------------------------
(* relayPoolManager: the first selection, which is then managed ...        *)
Start ==
  /\ mgr.pc = "start"
  /\ \E S \in SelectN(K) : mgr' = [mgr EXCEPT !.pc = "adding", !.todo = S]
  /\ UNCHANGED <<poolVars, netVars, hc, calls>>

AddInitial ==
  /\ mgr.pc = "adding"
  /\ SetManaged(managed \cup mgr.todo)
  /\ mgr' = [mgr EXCEPT !.pc = "initial"]
  /\ UNCHANGED <<netVars, hc, calls>>

TakeInitial ==
  /\ mgr.pc = "initial"
  /\ \E r \in mgr.todo :
       mgr' = [mgr EXCEPT !.pc = "connect", !.todo = @ \ {r}, !.cur = {r}]
  /\ UNCHANGED <<poolVars, netVars, hc, calls>>

(* ... doRelayReserve: Connect and its result, then Reserve ...            *)
Connect ==
  /\ mgr.pc = "connect"
  /\ \E r \in mgr.cur, result \in Outcomes :
       /\ result \in ConnectResults(r)
       /\ RecordResult("manager", r, result)
       /\ connected' = IF result = "ok" THEN connected \cup {r} ELSE connected
       /\ mgr' = [mgr EXCEPT !.pc = IF result = "ok" THEN "reserve" ELSE mgr.back]
  /\ UNCHANGED <<up, outages, hc, calls>>

Reserve ==
  /\ mgr.pc = "reserve"
  /\ \E r \in mgr.cur : \E result \in Results(r) : RecordResult("manager", r, result)
  /\ mgr' = [mgr EXCEPT !.pc = mgr.back]
  /\ UNCHANGED <<netVars, hc, calls>>

LoopEnds ==
  /\ mgr.pc \in {"initial", "fill"} /\ mgr.todo = {}
  /\ mgr' = [mgr EXCEPT !.pc = "tick", !.cur = {}, !.back = "fill"]
  /\ UNCHANGED <<poolVars, netVars, hc, calls>>

(* ... and every tick: managed relays are renewed or dropped ...           *)
Tick ==
  /\ mgr.pc = "tick"
  /\ mgr' = [mgr EXCEPT !.pc = "renew", !.todo = managed, !.drop = {}]
  /\ UNCHANGED <<poolVars, netVars, hc, calls>>

(* MUTANT: the breaker is not looked at.                                   *)
RenewAnyway ==
  /\ mgr.pc = "renew"
  /\ \E r \in mgr.todo :
       \/ /\ r \notin connected
          /\ mgr' = [mgr EXCEPT !.todo = @ \ {r}, !.drop = @ \cup {r}]
       \/ /\ r \in connected
          /\ mgr' = [mgr EXCEPT !.pc = "renewing", !.todo = @ \ {r}, !.cur = {r}]
  /\ UNCHANGED <<poolVars, netVars, hc, calls>>

Renew ==
  /\ mgr.pc = "renew"
  /\ \E r \in mgr.todo :
       \/ /\ r \notin connected \/ r \in open
          /\ connected' = connected \ {r}
          /\ mgr' = [mgr EXCEPT !.todo = @ \ {r}, !.drop = @ \cup {r}]
       \/ /\ r \in connected \ open
          /\ mgr' = [mgr EXCEPT !.pc = "renewing", !.todo = @ \ {r}, !.cur = {r}]
          /\ UNCHANGED connected
  /\ UNCHANGED <<poolVars, up, outages, hc, calls>>

(* The result of its Reserve, up to 15 s after the breaker was read.       *)
Renewed ==
  /\ mgr.pc = "renewing"
  /\ \E r \in mgr.cur : \E result \in Results(r) : RecordResult("manager", r, result)
  /\ mgr' = [mgr EXCEPT !.pc = "renew"]
  /\ UNCHANGED <<netVars, hc, calls>>

Drop ==
  /\ mgr.pc = "renew" /\ mgr.todo = {}
  /\ SetManaged(managed \ mgr.drop)
  /\ mgr' = [mgr EXCEPT !.pc = "count"]
  /\ UNCHANGED <<netVars, hc, calls>>

(* ... and replaced, unless the relay selected is connected already.  The  *)
(* managed relays are counted twice before relays are selected.            *)
Count ==
  /\ mgr.pc = "count"
  /\ mgr' = [mgr EXCEPT !.pc = IF Cardinality(managed) < K THEN "need" ELSE "tick"]
  /\ UNCHANGED <<poolVars, netVars, hc, calls>>

Need ==
  /\ mgr.pc = "need"
  /\ mgr' = [mgr EXCEPT !.pc = "select", !.need = K - Cardinality(managed)]
  /\ UNCHANGED <<poolVars, netVars, hc, calls>>

Select ==
  /\ mgr.pc = "select"
  /\ \E S \in SelectN(mgr.need) : mgr' = [mgr EXCEPT !.pc = "fill", !.todo = S, !.need = 0]
  /\ UNCHANGED <<poolVars, netVars, hc, calls>>

TakeFill ==
  /\ mgr.pc = "fill"
  /\ \E r \in mgr.todo :
       IF r \in connected
       THEN mgr' = [mgr EXCEPT !.todo = @ \ {r}] /\ UNCHANGED poolVars
       ELSE /\ SetManaged(managed \cup {r})
            /\ mgr' = [mgr EXCEPT !.pc = "connect", !.todo = @ \ {r}, !.cur = {r}]
  /\ UNCHANGED <<netVars, hc, calls>>

(* A step of the manager comes after the prune of its last RecordResult.   *)
Manager ==
  \/ /\ "manager" \notin pruning
     /\ \/ Start \/ AddInitial \/ TakeInitial \/ Connect \/ Reserve \/ LoopEnds
        \/ Tick \/ Renew \/ Renewed \/ Drop \/ Count \/ Need \/ Select \/ TakeFill
  \/ Prune("manager") /\ UNCHANGED <<netVars, mgr, hc, calls>>

-----------------------------------------------------------------------------
(* StartHealthCheck, where a program calls it: the targets of a tick are   *)
(* taken, then pinged.                                                     *)
TakeTargets ==
  /\ hc = {}
  /\ hc' = (items \cap connected) \ open
  /\ hc' # {}
  /\ UNCHANGED <<poolVars, netVars, mgr, calls>>

Ping ==
  /\ "health" \notin pruning
  /\ \E r \in hc :
       /\ hc' = hc \ {r}
       /\ \/ r \in up /\ PingAnswered(r)
          \/ \E result \in Results(r) \ {"ok"} : RecordResult("health", r, result)
  /\ UNCHANGED <<netVars, mgr, calls>>

HealthCheck ==
  TakeTargets \/ Ping \/ (Prune("health") /\ UNCHANGED <<netVars, mgr, hc, calls>>)

(* Calls of the exported methods.                                          *)
Call ==
  /\ calls < MaxCalls /\ calls' = calls + 1
  /\ \E r \in Relays : \/ Add("api", r) \/ RemoveRelay(r)
                       \/ SetProtected(protected \cup {r}) \/ SetProtected(protected \ {r})
  /\ UNCHANGED <<netVars, mgr, hc>>

EndCall == Prune("api") /\ UNCHANGED <<netVars, mgr, hc, calls>>

Age == (\E r \in Relays : Ages(r)) /\ UNCHANGED <<netVars, mgr, hc, calls>>

(* A relay goes down or comes back; a connection is lost, or made by       *)
(* another part of the node.                                               *)
Outage ==
  /\ outages < MaxOutages /\ outages' = outages + 1
  /\ \E r \in up : up' = up \ {r}
  /\ UNCHANGED <<poolVars, connected, mgr, hc, calls>>

Recovery ==
  /\ \E r \in Relays \ up : up' = up \cup {r}
  /\ UNCHANGED <<poolVars, connected, outages, mgr, hc, calls>>

Connection ==
  /\ \E r \in Relays : \/ connected' = connected \ {r}
                       \/ r \in up /\ connected' = connected \cup {r}
  /\ UNCHANGED <<poolVars, up, outages, mgr, hc, calls>>

Next ==
  \/ Manager \/ HealthCheck \/ Call \/ EndCall \/ Age
  \/ Outage \/ Recovery \/ Connection

Spec == Init /\ [][Next]_vars

(* The manager's ticker goes on and it gets the pool's mutex.              *)
ManagerSpec == Spec /\ WF_vars(Manager)

(* So does the health check, and every caller returns.                     *)
FairSpec == Spec /\ WF_vars(Manager) /\ WF_vars(HealthCheck) /\ WF_vars(EndCall)

-----------------------------------------------------------------------------
(* Every variable keeps its type, those of the pool included.              *)
TypeOK ==
  /\ PoolTypeOK
  /\ connected \subseteq Relays /\ up \subseteq Relays /\ hc \subseteq Relays
  /\ mgr \in [pc : {"start", "adding", "initial", "connect", "reserve", "tick", "renew", "renewing",
                    "count", "need", "select", "fill"},
              todo : SUBSET Relays, cur : SUBSET Relays, drop : SUBSET Relays, need : Int,
              back : {"initial", "fill"}]
  /\ outages \in 0..MaxOutages /\ calls \in 0..MaxCalls

(* The manager never keeps more than K relays, although it counts them     *)
(* twice, selects and adds in separate critical sections of the pool, and  *)
(* relays are removed in between (libp2p_bs.go:818-824).                   *)
AtMostK == Cardinality(managed) <= K

(* A managed relay whose circuit has opened does not stay both for ever:   *)
(* it is dropped, or a success closes its circuit, also when the circuit   *)
(* opens between the look at the breaker and the result of Reserve         *)
(* (libp2p_bs.go:799-816).                                                 *)
OpenIsDropped ==
  \A r \in Relays : (r \in managed /\ r \in open) ~> (r \notin managed \/ r \notin open)

(* What the design says of recovery (relaypool-design.md:18): a relay that *)
(* works again is used again, so its circuit does not stay open.  Does not *)
(* hold: SelectN and the health check skip an open circuit, and nothing    *)
(* else tries the relay.                                                   *)
Recovers ==
  \A r \in Relays : <>[](r \in up /\ r \in items) => []<>(r \notin open)

=============================================================================

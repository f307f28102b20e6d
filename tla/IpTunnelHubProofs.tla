------------------------- MODULE IpTunnelHubProofs --------------------------
(***************************************************************************)
(* The carriers and the opening flag of a hub stay consistent, for any     *)
(* number of streams, hubs, writers and openers.                           *)
(***************************************************************************)
EXTENDS IpTunnelHub, TLAPS

\* The provers tried, in this order, on a leaf that names none.
USE SMTT(20), ZenonT(20), SMTT(30), SMTT(60)

CarrierState ==
  [st : {"none", "incoming", "accepted", "attach", "run", "lost"},
   hub : Hubs \cup {None}, listed : BOOLEAN, dead : BOOLEAN]

ProcState ==
  [pc : {"call", "retry", "try", "check", "set", "open", "attach", "reset",
         "idle", "ok", "failed"},
   hub : Hubs \cup {None}, tries : 0..MaxRetries,
   left : SUBSET Streams, stream : Streams \cup {None}]

(* A goroutine about to attach has a stream; a carrier is listed only      *)
(* while its pump runs or is ending.                                       *)
Attaching == \A p \in Procs : proc[p].pc = "attach" => proc[p].stream \in Streams
ListedRuns ==
  \A n \in Nodes, s \in Streams : car[n][s].listed => car[n][s].st \in {"run", "lost"}

(* No two live carriers of one hub and direction, whatever the hub.        *)
Rival(n, s, t) ==
  /\ s # t /\ car[n][s].hub = car[n][t].hub
  /\ car[n][s].listed /\ ~car[n][s].dead
  /\ car[n][t].listed /\ ~car[n][t].dead
NoRivals ==
  \A n \in Nodes, s, t \in Streams : Rival(n, s, t) => ~SameDirection(n, s, t)

HubInv == TypeOK /\ Attaching /\ ListedRuns /\ NoRivals /\ OpeningHasOpener

(* The other node is another node.                                         *)
LEMMA OtherNode ==
  ASSUME NEW n \in Nodes
  PROVE  Other(n) \in Nodes /\ Other(n) # n
<1>1. \E m \in Nodes : m # n
  BY IpTunnelHubAssumption
<1> QED BY <1>1 DEF Other

(* The resting states of a goroutine, and the empty slot, have their types.*)
LEMMA Constants ==
  /\ NoCarrier \in CarrierState
  /\ \A h \in Hubs \cup {None}, x \in {"incoming", "attach"} :
       [NoCarrier EXCEPT !.st = x, !.hub = h] \in CarrierState
  /\ \A x \in {"call", "idle", "ok", "failed"} : Resting(x) \in ProcState
<1>1. 0 \in 0..MaxRetries
  BY IpTunnelHubAssumption
<1>2. \A x \in {"call", "idle", "ok", "failed"} : Resting(x) \in ProcState
  BY <1>1 DEF Resting, ProcState
<1>3. NoCarrier \in CarrierState
  BY DEF NoCarrier, CarrierState
<1>4. \A h \in Hubs \cup {None}, x \in {"incoming", "attach"} :
        [NoCarrier EXCEPT !.st = x, !.hub = h] \in CarrierState
  BY Zenon DEF NoCarrier, CarrierState
<1> QED BY <1>2, <1>3, <1>4, Zenon

LEMMA TypeDef ==
  TypeOK <=>
  /\ dialer \in [Streams -> Nodes \cup {None}]
  /\ broken \in [Streams -> BOOLEAN]
  /\ car \in [Nodes -> [Streams -> CarrierState]]
  /\ hubOf \in [Nodes -> Hubs \cup {None}]
  /\ opening \in [Nodes -> [Hubs -> BOOLEAN]]
  /\ used \in [Nodes -> [Hubs -> BOOLEAN]]
  /\ proc \in [Procs -> ProcState]
  /\ faults \in 0..MaxFaults
BY DEF TypeOK, CarrierState, ProcState

LEMMA HubInitial == Init => HubInv
<1> SUFFICES ASSUME Init PROVE HubInv
  OBVIOUS
<1>1. TypeOK
  <2>1. car \in [Nodes -> [Streams -> CarrierState]]
    BY Constants, Zenon DEF Init
  <2>2. proc \in [Procs -> ProcState]
    BY Constants, Zenon DEF Init
  <2>3. faults \in 0..MaxFaults
    BY IpTunnelHubAssumption DEF Init
  <2>4. /\ dialer \in [Streams -> Nodes \cup {None}]
        /\ broken \in [Streams -> BOOLEAN]
        /\ hubOf \in [Nodes -> Hubs \cup {None}]
        /\ opening \in [Nodes -> [Hubs -> BOOLEAN]]
        /\ used \in [Nodes -> [Hubs -> BOOLEAN]]
    BY DEF Init
  <2> QED BY <2>1, <2>2, <2>3, <2>4, TypeDef
<1>2. Attaching
  BY DEF Init, Attaching, Resting
<1>3. ListedRuns /\ NoRivals
  BY DEF Init, ListedRuns, NoRivals, Rival, NoCarrier
<1>4. OpeningHasOpener
  BY DEF Init, OpeningHasOpener
<1> QED BY <1>1, <1>2, <1>3, <1>4 DEF HubInv

-----------------------------------------------------------------------------
(* Types.                                                                  *)

(* hubFor leaves the map and the flags of hubs well typed, and no flag set *)
(* that was not.                                                           *)
LEMMA HubForType ==
  ASSUME TypeOK, NEW n \in Nodes, NEW h \in Hubs, HubFor(n, h)
  PROVE  /\ hubOf' \in [Nodes -> Hubs \cup {None}]
         /\ opening' \in [Nodes -> [Hubs -> BOOLEAN]]
         /\ used' \in [Nodes -> [Hubs -> BOOLEAN]]
         /\ \A m \in Nodes, g \in Hubs : opening'[m][g] => opening[m][g]
<1>1. CASE hubOf[n] # None
  BY <1>1 DEF HubFor, TypeOK
<1>2. CASE hubOf[n] = None
  <2>1. /\ hubOf' = [hubOf EXCEPT ![n] = h]
        /\ opening' = [opening EXCEPT ![n][h] = FALSE]
        /\ used' = [used EXCEPT ![n][h] = FALSE]
    BY <1>2 DEF HubFor
  <2>2. /\ hubOf' \in [Nodes -> Hubs \cup {None}]
        /\ opening' \in [Nodes -> [Hubs -> BOOLEAN]]
        /\ used' \in [Nodes -> [Hubs -> BOOLEAN]]
    BY <2>1 DEF TypeOK
  <2>3. \A m \in Nodes, g \in Hubs :
          opening'[m][g] = IF m = n /\ g = h THEN FALSE ELSE opening[m][g]
    BY <2>1, Zenon DEF TypeOK
  <2> QED BY <2>2, <2>3, Zenon
<1> QED BY <1>1, <1>2

(* attach changes the carriers of one node only, within their type.        *)
LEMMA AttachType ==
  ASSUME TypeOK, NEW n \in Nodes, NEW s \in Streams, Attach(n, s)
  PROVE  /\ car' \in [Nodes -> [Streams -> CarrierState]]
         /\ used' \in [Nodes -> [Hubs -> BOOLEAN]]
         /\ car' = [car EXCEPT ![n] = AttachTo(n, s)]
<1>1. car \in [Nodes -> [Streams -> CarrierState]]
  BY TypeDef
<1>2. AttachTo(n, s) \in [Streams -> CarrierState]
  <2> SUFFICES ASSUME NEW t \in Streams PROVE AttachTo(n, s)[t] \in CarrierState
    BY Zenon DEF AttachTo
  <2>1. car[n][t] \in CarrierState
    BY <1>1
  <2>2. [car[n][t] EXCEPT !.st = "run", !.listed = TRUE] \in CarrierState
    BY <2>1, Zenon DEF CarrierState
  <2>3. [car[n][t] EXCEPT !.dead = TRUE, !.listed = FALSE] \in CarrierState
    BY <2>1, Zenon DEF CarrierState
  <2> QED BY <2>1, <2>2, <2>3, Zenon DEF AttachTo
<1>3. car' \in [Nodes -> [Streams -> CarrierState]]
  BY <1>1, <1>2 DEF Attach
<1>4. used' \in [Nodes -> [Hubs -> BOOLEAN]]
  BY Zenon DEF Attach, TypeOK
<1> QED BY <1>3, <1>4 DEF Attach

LEMMA RunType ==
  ASSUME TypeOK, Attaching, NEW p \in Procs, Run(p)
  PROVE  TypeOK' /\ Attaching'
<1> DEFINE n == Home[p]
<1>0. /\ n \in Nodes
      /\ car \in [Nodes -> [Streams -> CarrierState]]
      /\ proc \in [Procs -> ProcState]
      /\ proc[p] \in ProcState
  BY TypeDef, IpTunnelHubAssumption
<1>1. CASE WriteToPeer(p)
  <2>1. PICK h \in Hubs : /\ HubFor(n, h)
                          /\ proc' = [proc EXCEPT ![p].pc = "retry", ![p].hub = h]
    BY <1>1, Zenon DEF WriteToPeer
  <2>2. proc' \in [Procs -> ProcState]
    BY <1>0, <2>1, Zenon DEF ProcState
  <2>3. Attaching'
    BY <1>0, <2>1 DEF Attaching
  <2> QED BY <1>0, <1>1, <2>1, <2>2, <2>3, HubForType DEF WriteToPeer, TypeOK, CarrierState, ProcState
<1>2. CASE Retry(p)
  <2>1. proc' \in [Procs -> ProcState] /\ Attaching'
    <3>1. CASE proc[p].tries + 1 > MaxRetries
      <4>1. proc' = [proc EXCEPT ![p] = Resting("failed")]
        BY <1>2, <3>1 DEF Retry
      <4>2. Resting("failed") \in ProcState /\ Resting("failed").pc # "attach"
        BY Constants, Zenon DEF Resting
      <4> QED BY <1>0, <4>1, <4>2 DEF Attaching
    <3>2. CASE ~(proc[p].tries + 1 > MaxRetries)
      <4>1. Live(n, proc[p].hub) \in SUBSET Streams
        BY DEF Live, Listed
      <4>2. proc[p].tries + 1 \in 0..MaxRetries
        BY <1>0, <3>2, IpTunnelHubAssumption DEF ProcState
      <4> QED BY <1>0, <1>2, <3>2, <4>1, <4>2 DEF Retry, Attaching, ProcState
    <3> QED BY <3>1, <3>2
  <2>2. used' \in [Nodes -> [Hubs -> BOOLEAN]]
    <3>1. used' = used \/ used' = [used EXCEPT ![n][proc[p].hub] = TRUE]
      BY <1>2 DEF Retry
    <3>2. used \in [Nodes -> [Hubs -> BOOLEAN]]
      BY DEF TypeOK
    <3>3. CASE used' = [used EXCEPT ![n][proc[p].hub] = TRUE]
      BY <1>0, <3>2, <3>3, Zenon
    <3> QED BY <3>1, <3>2, <3>3
  <2> QED BY <1>2, <2>1, <2>2 DEF Retry, TypeOK, CarrierState, ProcState
<1>3. CASE WriteMsg(p)
  <2>1. PICK s \in proc[p].left :
          \/ /\ proc' = [proc EXCEPT ![p] = Resting("ok")]
             /\ UNCHANGED car
          \/ /\ car' = [car EXCEPT ![n][s].dead = car[n][s].st # "none"]
             /\ proc' = [proc EXCEPT ![p].left = @ \ {s},
                                     ![p].pc = IF proc[p].left = {s} THEN "check" ELSE "try"]
    BY <1>3, Zenon DEF WriteMsg
  <2>2. s \in Streams
    BY <1>0 DEF ProcState
  <2>3. car' \in [Nodes -> [Streams -> CarrierState]]
    <3>0. ASSUME NEW c \in CarrierState, NEW b \in BOOLEAN
          PROVE  [c EXCEPT !.dead = b] \in CarrierState
      BY DEF CarrierState
    <3>1. [car[n][s] EXCEPT !.dead = car[n][s].st # "none"] \in CarrierState
      BY <1>0, <2>2, <3>0, ZenonT(30)
    <3> QED BY <1>0, <2>1, <2>2, <3>1, SMTT(30)
  <2>4. proc' \in [Procs -> ProcState] /\ Attaching'
    <3>1. CASE proc' = [proc EXCEPT ![p] = Resting("ok")]
      <4>1. Resting("ok") \in ProcState /\ Resting("ok").pc # "attach"
        BY Constants, Zenon DEF Resting
      <4> QED BY <1>0, <3>1, <4>1 DEF Attaching
    <3>2. CASE proc' = [proc EXCEPT ![p].left = @ \ {s},
                          ![p].pc = IF proc[p].left = {s} THEN "check" ELSE "try"]
      BY <1>0, <3>2, Zenon DEF ProcState, Attaching
    <3> QED BY <2>1, <3>1, <3>2
  <2> QED BY <1>3, <2>3, <2>4 DEF WriteMsg, TypeOK, CarrierState, ProcState
<1>4. CASE CheckOpening(p)
  <2>1. proc' \in [Procs -> ProcState] /\ Attaching'
    BY <1>0, <1>4, SMTT(30) DEF CheckOpening, ProcState, Attaching
  <2> QED BY <1>4, <2>1, Zenon DEF CheckOpening, TypeOK, CarrierState, ProcState
<1>5. CASE SetOpening(p)
  <2>1. proc' \in [Procs -> ProcState] /\ Attaching'
    BY <1>0, <1>5, SMTT(30) DEF SetOpening, ProcState, Attaching
  <2>2. opening' \in [Nodes -> [Hubs -> BOOLEAN]]
    BY <1>0, <1>5, Zenon DEF SetOpening, TypeOK
  <2> QED BY <1>5, <2>1, <2>2, Zenon DEF SetOpening, TypeOK, CarrierState, ProcState
<1>6. CASE OpenStream(p)
  <2>1. CASE \E s \in Streams :
          /\ dialer' = [dialer EXCEPT ![s] = n]
          /\ broken' = [broken EXCEPT ![s] = FALSE]
          /\ car' = [car EXCEPT
               ![n][s] = [NoCarrier EXCEPT !.st = "attach", !.hub = proc[p].hub],
               ![Other(n)][s] = [NoCarrier EXCEPT !.st = "incoming"]]
          /\ proc' = [proc EXCEPT ![p].pc = "attach", ![p].stream = s]
    <3>1. PICK s \in Streams :
          /\ dialer' = [dialer EXCEPT ![s] = n]
          /\ broken' = [broken EXCEPT ![s] = FALSE]
          /\ car' = [car EXCEPT
               ![n][s] = [NoCarrier EXCEPT !.st = "attach", !.hub = proc[p].hub],
               ![Other(n)][s] = [NoCarrier EXCEPT !.st = "incoming"]]
          /\ proc' = [proc EXCEPT ![p].pc = "attach", ![p].stream = s]
      BY <2>1, Zenon
    <3>2. /\ [NoCarrier EXCEPT !.st = "attach", !.hub = proc[p].hub] \in CarrierState
          /\ [NoCarrier EXCEPT !.st = "incoming"] \in CarrierState
      BY <1>0, Zenon DEF NoCarrier, CarrierState, ProcState
    <3>3. car' \in [Nodes -> [Streams -> CarrierState]]
      BY <1>0, <3>1, <3>2, OtherNode
    <3>4. proc' \in [Procs -> ProcState] /\ Attaching'
      BY <1>0, <3>1, Zenon DEF ProcState, Attaching
    <3>5. dialer' \in [Streams -> Nodes \cup {None}] /\ broken' \in [Streams -> BOOLEAN]
      BY <1>0, <3>1 DEF TypeOK
    <3> QED BY <1>6, <3>3, <3>4, <3>5 DEF OpenStream, TypeOK, CarrierState, ProcState
  <2>2. CASE /\ proc' = [proc EXCEPT ![p].pc = "reset"]
             /\ UNCHANGED <<dialer, broken, car>>
    <3>1. proc' \in [Procs -> ProcState] /\ Attaching'
      BY <1>0, <2>2 DEF ProcState, Attaching
    <3> QED BY <1>6, <2>2, <3>1, Zenon DEF OpenStream, TypeOK, CarrierState, ProcState
  <2> QED BY <1>6, <2>1, <2>2, Zenon DEF OpenStream
<1>7. CASE AttachDialed(p)
  <2>1. proc[p].stream \in Streams
    BY <1>7 DEF AttachDialed, Attaching
  <2>2. proc' \in [Procs -> ProcState] /\ Attaching'
    BY <1>0, <1>7, Zenon DEF AttachDialed, ProcState, Attaching
  <2>3. /\ car' \in [Nodes -> [Streams -> CarrierState]]
        /\ used' \in [Nodes -> [Hubs -> BOOLEAN]]
    BY <1>0, <1>7, <2>1, AttachType DEF AttachDialed
  <2> QED BY <1>7, <2>2, <2>3 DEF AttachDialed, TypeOK, CarrierState, ProcState
<1>8. CASE ResetOpening(p)
  <2>1. proc' \in [Procs -> ProcState] /\ Attaching'
    <3>1. CASE p \in Writers
      BY <1>0, <1>8, <3>1, Zenon DEF ResetOpening, ProcState, Attaching
    <3>2. CASE p \notin Writers
      BY <1>0, <1>8, <3>2, Constants, Zenon DEF ResetOpening, Attaching, Resting
    <3> QED BY <3>1, <3>2
  <2>2. opening' \in [Nodes -> [Hubs -> BOOLEAN]]
    BY <1>0, <1>8, Zenon DEF ResetOpening, TypeOK
  <2> QED BY <1>8, <2>1, <2>2, Zenon DEF ResetOpening, TypeOK, CarrierState, ProcState
<1> QED BY <1>1, <1>2, <1>3, <1>4, <1>5, <1>6, <1>7, <1>8 DEF Run

LEMMA ServeType ==
  ASSUME TypeOK, Attaching, NEW n \in Nodes, NEW s \in Streams, Serve(n, s) \/ Reject(n, s)
  PROVE  TypeOK' /\ Attaching'
<1>0. /\ car \in [Nodes -> [Streams -> CarrierState]]
      /\ car[n][s] \in CarrierState
      /\ proc \in [Procs -> ProcState]
  BY TypeDef
<1>1. CASE HandleStream(n, s)
  <2>1. PICK h \in Hubs :
          /\ HubFor(n, h)
          /\ car' = [car EXCEPT ![n][s].st = "accepted", ![n][s].hub = h]
    BY <1>1, Zenon DEF HandleStream
  <2>2. car' \in [Nodes -> [Streams -> CarrierState]]
    <3>1. [car[n][s] EXCEPT !.st = "accepted", !.hub = h] \in CarrierState
      BY <1>0, Zenon DEF CarrierState
    <3> QED BY <1>0, <2>1, <3>1, ZenonT(60)
  <2> QED BY <1>1, <2>1, <2>2, HubForType
          DEF HandleStream, TypeOK, CarrierState, ProcState, Attaching
<1>2. CASE AttachIncoming(n, s)
  <2>1. /\ car' \in [Nodes -> [Streams -> CarrierState]]
        /\ used' \in [Nodes -> [Hubs -> BOOLEAN]]
    BY <1>2, AttachType DEF AttachIncoming
  <2> QED BY <1>2, <2>1 DEF AttachIncoming, TypeOK, CarrierState, ProcState, Attaching
<1>3. CASE PumpEnds(n, s)
  <2>1. car' \in [Nodes -> [Streams -> CarrierState]]
    <3>1. [car[n][s] EXCEPT !.st = "lost", !.dead = TRUE] \in CarrierState
      BY <1>0, Zenon DEF CarrierState
    <3> QED BY <1>0, <1>3, <3>1, ZenonT(60) DEF PumpEnds
  <2> QED BY <1>3, <2>1 DEF PumpEnds, TypeOK, CarrierState, ProcState, Attaching
<1>4. CASE Detach(n, s)
  <2>1. car' \in [Nodes -> [Streams -> CarrierState]]
    BY <1>0, <1>4, Constants, Zenon DEF Detach
  <2>2. CASE UNCHANGED <<opening, proc>>
    BY <1>4, <2>1, <2>2, Zenon DEF Detach, TypeOK, CarrierState, ProcState, Attaching
  <2>3. CASE ~UNCHANGED <<opening, proc>>
    <3>1. /\ opening' = [opening EXCEPT ![n][car[n][s].hub] = TRUE]
          /\ \E g \in Openers : proc' = [proc EXCEPT ![g] = [@ EXCEPT !.pc = "open", !.hub = car[n][s].hub]]
      BY <1>4, <2>3, Zenon DEF Detach
    <3>2. PICK g \in Openers : proc' = [proc EXCEPT ![g] = [@ EXCEPT !.pc = "open", !.hub = car[n][s].hub]]
      BY <3>1, Zenon
    <3>3. g \in Procs /\ proc[g] \in ProcState /\ car[n][s].hub \in Hubs \cup {None}
      BY <1>0 DEF Procs, CarrierState
    <3>4. [proc[g] EXCEPT !.pc = "open", !.hub = car[n][s].hub] \in ProcState
      BY <3>3, Zenon DEF ProcState
    <3>5. proc' \in [Procs -> ProcState] /\ Attaching'
      BY <1>0, <3>2, <3>3, <3>4 DEF Attaching, ProcState
    <3>6. opening \in [Nodes -> [Hubs -> BOOLEAN]]
      BY DEF TypeOK
    <3>7. opening' \in [Nodes -> [Hubs -> BOOLEAN]]
      BY <3>1, <3>6, Zenon
    <3> QED BY <1>4, <2>1, <3>5, <3>7, Zenon DEF Detach, TypeOK, CarrierState, ProcState
  <2> QED BY <2>2, <2>3
<1>5. CASE Reject(n, s)
  <2>1. car' \in [Nodes -> [Streams -> CarrierState]]
    BY <1>0, <1>5, Constants, Zenon DEF Reject
  <2>2. faults' \in 0..MaxFaults
    BY <1>5, IpTunnelHubAssumption DEF Reject, TypeOK
  <2>3. broken' \in [Streams -> BOOLEAN]
    BY <1>5 DEF Reject, TypeOK
  <2> QED BY <1>5, <2>1, <2>2, <2>3 DEF Reject, TypeOK, CarrierState, ProcState, Attaching
<1> QED BY <1>1, <1>2, <1>3, <1>4, <1>5 DEF Serve

LEMMA OthersType ==
  ASSUME TypeOK, Attaching,
         Break \/ (\E n \in Nodes, h \in Hubs : BecomesIdle(n, h)) \/ (\E n \in Nodes : Reap(n))
  PROVE  TypeOK' /\ Attaching'
<1>1. CASE Break
  <2>1. faults' \in 0..MaxFaults
    BY <1>1, IpTunnelHubAssumption DEF Break, TypeOK
  <2>2. PICK S \in {{s} : s \in Streams} \cup {Streams} :
          broken' = [s \in Streams |-> broken[s] \/ s \in S]
    BY <1>1 DEF Break
  <2>3. broken' \in [Streams -> BOOLEAN]
    BY <2>2
  <2> QED BY <1>1, <2>1, <2>3 DEF Break, TypeOK, Attaching
<1>2. ASSUME NEW n \in Nodes, NEW h \in Hubs, BecomesIdle(n, h) PROVE TypeOK' /\ Attaching'
  BY <1>2 DEF BecomesIdle, TypeOK, Attaching
<1>3. ASSUME NEW n \in Nodes, Reap(n) PROVE TypeOK' /\ Attaching'
  BY <1>3 DEF Reap, TypeOK, Attaching
<1> QED BY <1>1, <1>2, <1>3

(* Every step keeps the types.                                             *)
LEMMA TypeStep ==
  ASSUME TypeOK, Attaching, [Next]_vars
  PROVE  TypeOK' /\ Attaching'
<1>1. CASE UNCHANGED vars
  BY <1>1 DEF vars, TypeOK, Attaching
<1> QED BY <1>1, RunType, ServeType, OthersType DEF Next, Quiet

-----------------------------------------------------------------------------
(* The list of carriers.                                                   *)

(* A carrier that is live after the step was live before it, in the same   *)
(* hub: such steps make no rivals.                                         *)
LiveWere(n, t) ==
  car'[n][t].listed /\ ~car'[n][t].dead =>
    /\ car[n][t].listed /\ ~car[n][t].dead
    /\ car'[n][t].hub = car[n][t].hub /\ dialer'[t] = dialer[t]

LEMMA FewerLive ==
  ASSUME NoRivals, \A n \in Nodes, t \in Streams : LiveWere(n, t)
  PROVE  NoRivals'
<1> SUFFICES ASSUME NEW n \in Nodes, NEW s \in Streams, NEW t \in Streams, Rival(n, s, t)'
             PROVE  ~SameDirection(n, s, t)'
  BY DEF NoRivals
<1>1. Rival(n, s, t) /\ dialer'[s] = dialer[s] /\ dialer'[t] = dialer[t]
  BY DEF Rival, LiveWere
<1> QED BY <1>1 DEF NoRivals, SameDirection

(* attach takes the live carriers of the stream's direction off the list.  *)
LEMMA AttachKeeps ==
  ASSUME TypeOK, ListedRuns, NoRivals, NEW n \in Nodes, NEW s \in Streams, Attach(n, s), UNCHANGED dialer
  PROVE  ListedRuns' /\ NoRivals'
<1>0. car \in [Nodes -> [Streams -> CarrierState]]
  BY TypeDef
<1>1. \A m \in Nodes, t \in Streams : m # n => car'[m][t] = car[m][t]
  BY <1>0, AttachType
<1>2. \A t \in Streams : car'[n][t] = AttachTo(n, s)[t]
  BY <1>0, AttachType
<1>3. /\ car'[n][s].listed /\ car'[n][s].st = "run"
      /\ car'[n][s].hub = car[n][s].hub
  <2>1. AttachTo(n, s)[s] = [car[n][s] EXCEPT !.st = "run", !.listed = TRUE]
    BY DEF AttachTo
  <2>2. car'[n][s] = [car[n][s] EXCEPT !.st = "run", !.listed = TRUE]
    BY <1>2, <2>1
  <2> QED BY <1>0, <2>2 DEF CarrierState
<1>4. ASSUME NEW t \in Streams, t # s
      PROVE  \/ /\ t \in Live(n, car[n][s].hub) /\ SameDirection(n, s, t)
                /\ ~car'[n][t].listed
             \/ /\ ~(t \in Live(n, car[n][s].hub) /\ SameDirection(n, s, t))
                /\ car'[n][t] = car[n][t]
  <2>1. AttachTo(n, s)[t] = IF t \in Live(n, car[n][s].hub) /\ SameDirection(n, s, t)
                            THEN [car[n][t] EXCEPT !.dead = TRUE, !.listed = FALSE]
                            ELSE car[n][t]
    BY <1>4 DEF AttachTo
  <2>2. [car[n][t] EXCEPT !.dead = TRUE, !.listed = FALSE].listed = FALSE
    BY <1>0 DEF CarrierState
  <2> QED BY <1>2, <2>1, <2>2, Zenon
<1>5. ListedRuns'
  BY <1>1, <1>3, <1>4 DEF ListedRuns
<1>6. NoRivals'
  <2> SUFFICES ASSUME NEW m \in Nodes, NEW t \in Streams, NEW u \in Streams, Rival(m, t, u)'
               PROVE  ~SameDirection(m, t, u)'
    BY DEF NoRivals
  <2>0. SameDirection(m, t, u)' <=> SameDirection(m, t, u)
    BY DEF SameDirection
  <2>1. CASE m # n
    BY <1>1, <2>0, <2>1 DEF NoRivals, Rival
  <2>2. CASE m = n /\ t # s /\ u # s
    BY <1>4, <2>0, <2>2 DEF NoRivals, Rival
  <2>3. ASSUME NEW x \in Streams, x # s, car'[n][x].hub = car'[n][s].hub,
               car'[n][x].listed, ~car'[n][x].dead
        PROVE  ~SameDirection(n, s, x)
    <3>1. car'[n][x] = car[n][x] /\ ~(x \in Live(n, car[n][s].hub) /\ SameDirection(n, s, x))
      BY <1>4, <2>3
    <3>2. x \in Live(n, car[n][s].hub)
      BY <1>3, <2>3, <3>1 DEF Live, Listed
    <3> QED BY <3>1, <3>2
  <2>4. CASE m = n /\ t = s
    BY <2>0, <2>3, <2>4 DEF Rival
  <2>5. CASE m = n /\ u = s
    <3>1. ~SameDirection(n, s, t)
      BY <2>3, <2>5 DEF Rival
    <3> QED BY <2>0, <2>5, <3>1 DEF SameDirection
  <2> QED BY <2>1, <2>2, <2>4, <2>5
<1> QED BY <1>5, <1>6

(* A step that leaves carriers and dialers alone.                          *)
LEMMA SameCarriers ==
  ASSUME ListedRuns, NoRivals, UNCHANGED <<car, dialer>>
  PROVE  ListedRuns' /\ NoRivals'
BY DEF ListedRuns, NoRivals, Rival, SameDirection

LEMMA CarrierStep ==
  ASSUME TypeOK, Attaching, ListedRuns, NoRivals, [Next]_vars
  PROVE  ListedRuns' /\ NoRivals'
<1>0. car \in [Nodes -> [Streams -> CarrierState]] /\ proc \in [Procs -> ProcState]
  BY TypeDef
<1>h. \A p \in Procs : Home[p] \in Nodes
  BY IpTunnelHubAssumption
<1>1. CASE UNCHANGED vars
  BY <1>1, SameCarriers DEF vars
<1>2. ASSUME NEW p \in Procs, Run(p) PROVE ListedRuns' /\ NoRivals'
  <2> DEFINE n == Home[p]
  <2>1. CASE WriteMsg(p)
    <3>1. PICK s \in proc[p].left :
            UNCHANGED car \/ car' = [car EXCEPT ![n][s].dead = car[n][s].st # "none"]
      BY <2>1, Zenon DEF WriteMsg
    <3>2. s \in Streams
      BY <1>0 DEF ProcState
    <3>3. CASE car' = [car EXCEPT ![n][s].dead = car[n][s].st # "none"]
      <4>1. \A m \in Nodes, t \in Streams : <<m, t>> # <<n, s>> => car'[m][t] = car[m][t]
        BY <1>0, <1>h, <3>2, <3>3
      <4>2. car'[n][s] = [car[n][s] EXCEPT !.dead = car[n][s].st # "none"]
        BY <1>0, <1>h, <3>2, <3>3
      <4>3. /\ car'[n][s].listed = car[n][s].listed /\ car'[n][s].st = car[n][s].st
            /\ car'[n][s].hub = car[n][s].hub
            /\ car'[n][s].dead = (car[n][s].st # "none")
        BY <1>0, <1>h, <3>2, <4>2 DEF CarrierState
      <4>4. ListedRuns'
        BY <4>1, <4>3 DEF ListedRuns
      <4>5. car[n][s].listed => car'[n][s].dead
        BY <1>h, <3>2, <4>3, Zenon DEF ListedRuns
      <4>6. \A m \in Nodes, t \in Streams : LiveWere(m, t)
        BY <2>1, <4>1, <4>3, <4>5 DEF LiveWere, WriteMsg
      <4> QED BY <4>4, <4>6, FewerLive
    <3> QED BY <2>1, <3>1, <3>3, SameCarriers DEF WriteMsg
  <2>2. CASE OpenStream(p)
    <3>1. CASE UNCHANGED <<dialer, broken, car>>
      BY <3>1, SameCarriers
    <3>2. CASE ~UNCHANGED <<dialer, broken, car>>
      <4>1. PICK s \in Streams :
          /\ FreeSlot(s)
          /\ dialer' = [dialer EXCEPT ![s] = n]
          /\ car' = [car EXCEPT
               ![n][s] = [NoCarrier EXCEPT !.st = "attach", !.hub = proc[p].hub],
               ![Other(n)][s] = [NoCarrier EXCEPT !.st = "incoming"]]
        BY <2>2, <3>2, Zenon DEF OpenStream
      <4>2. \A m \in Nodes, t \in Streams : t # s => car'[m][t] = car[m][t] /\ dialer'[t] = dialer[t]
        BY <1>0, <1>h, <4>1, OtherNode DEF TypeOK
      <4>3. \A m \in Nodes : m = n \/ m = Other(n)
        BY <1>h, IpTunnelHubAssumption, OtherNode
      <4>4. car'[n][s] = [NoCarrier EXCEPT !.st = "attach", !.hub = proc[p].hub]
            /\ car'[Other(n)][s] = [NoCarrier EXCEPT !.st = "incoming"]
        BY <1>0, <1>h, <4>1, OtherNode
      <4>5. \A m \in Nodes : car'[m][s].listed = FALSE
        BY <4>3, <4>4, ZenonT(60) DEF NoCarrier
      <4>6. ListedRuns'
        BY <4>2, <4>5 DEF ListedRuns
      <4>7. \A m \in Nodes, t \in Streams : LiveWere(m, t)
        BY <4>2, <4>5 DEF LiveWere
      <4> QED BY <4>6, <4>7, FewerLive
    <3> QED BY <3>1, <3>2
  <2>3. CASE AttachDialed(p)
    <3>1. proc[p].stream \in Streams
      BY <2>3 DEF AttachDialed, Attaching
    <3> QED BY <1>h, <2>3, <3>1, AttachKeeps DEF AttachDialed
  <2> QED BY <1>2, <2>1, <2>2, <2>3, SameCarriers
          DEF Run, WriteToPeer, Retry, CheckOpening, SetOpening, ResetOpening
<1>3. ASSUME NEW n \in Nodes, NEW s \in Streams, Serve(n, s) \/ Reject(n, s)
      PROVE  ListedRuns' /\ NoRivals'
  <2>1. CASE AttachIncoming(n, s)
    BY <2>1, AttachKeeps DEF AttachIncoming
  <2>2. CASE car'[n][s].listed = FALSE /\ UNCHANGED dialer
             /\ \A m \in Nodes, t \in Streams : <<m, t>> # <<n, s>> => car'[m][t] = car[m][t]
    <3>1. ListedRuns'
      BY <2>2 DEF ListedRuns
    <3>2. \A m \in Nodes, t \in Streams : LiveWere(m, t)
      BY <2>2 DEF LiveWere
    <3> QED BY <3>1, <3>2, FewerLive
  <2>3. CASE HandleStream(n, s)
    <3>1. PICK h \in Hubs : car' = [car EXCEPT ![n][s].st = "accepted", ![n][s].hub = h]
      BY <2>3, Zenon DEF HandleStream
    <3>2. car[n][s].listed = FALSE
      <4>1. car[n][s].listed \in BOOLEAN
        BY <1>0 DEF CarrierState
      <4>2. ~car[n][s].listed
        BY <2>3 DEF HandleStream, ListedRuns
      <4> QED BY <4>1, <4>2
    <3>3. car'[n][s] = [car[n][s] EXCEPT !.st = "accepted", !.hub = h]
      BY <1>0, <3>1, Zenon
    <3>4. car'[n][s].listed = FALSE
      BY <1>0, <3>2, <3>3 DEF CarrierState
    <3> QED BY <1>0, <2>2, <2>3, <3>1, <3>4, ZenonT(60) DEF HandleStream
  <2>4. CASE PumpEnds(n, s)
    <3>1. car' = [car EXCEPT ![n][s].st = "lost", ![n][s].dead = TRUE]
      BY <2>4 DEF PumpEnds
    <3>2. car'[n][s] = [car[n][s] EXCEPT !.st = "lost", !.dead = TRUE]
      BY <1>0, <3>1, Zenon
    <3>3. car'[n][s].dead = TRUE /\ car'[n][s].st = "lost"
      BY <1>0, <3>2 DEF CarrierState
    <3>4. \A m \in Nodes, t \in Streams : <<m, t>> # <<n, s>> => car'[m][t] = car[m][t]
      BY <1>0, <3>1
    <3>5. ListedRuns'
      BY <3>3, <3>4 DEF ListedRuns
    <3>6. \A m \in Nodes, t \in Streams : LiveWere(m, t)
      BY <2>4, <3>3, <3>4, Zenon DEF LiveWere, PumpEnds
    <3> QED BY <3>5, <3>6, FewerLive
  <2>5. CASE Detach(n, s) \/ Reject(n, s)
    <3>1. car' = [car EXCEPT ![n][s] = NoCarrier] /\ UNCHANGED dialer
      BY <2>5, Zenon DEF Detach, Reject
    <3>2. car'[n][s].listed = FALSE
      BY <1>0, <3>1 DEF NoCarrier
    <3> QED BY <1>0, <2>2, <3>1, <3>2, Zenon
  <2> QED BY <1>3, <2>1, <2>3, <2>4, <2>5 DEF Serve
<1>4. CASE Break \/ (\E n \in Nodes, h \in Hubs : BecomesIdle(n, h)) \/ (\E n \in Nodes : Reap(n))
  BY <1>4, SameCarriers DEF Break, BecomesIdle, Reap
<1> QED BY <1>1, <1>2, <1>3, <1>4 DEF Next, Quiet

-----------------------------------------------------------------------------
(* The opening flag.                                                       *)

Opener(p, n, h) ==
  Home[p] = n /\ proc[p].hub = h /\ proc[p].pc \in {"open", "attach", "reset"}

LEMMA OpeningStep ==
  ASSUME TypeOK, OpeningHasOpener, [Next]_vars
  PROVE  OpeningHasOpener'
<1>0. /\ proc \in [Procs -> ProcState]
      /\ car \in [Nodes -> [Streams -> CarrierState]]
      /\ opening \in [Nodes -> [Hubs -> BOOLEAN]]
  BY TypeDef
<1> SUFFICES ASSUME NEW n \in Nodes, NEW h \in Hubs, opening'[n][h]
             PROVE  \E p \in Procs : Opener(p, n, h)'
  BY DEF OpeningHasOpener, Opener
(* Goroutines that were openers and still are, or a flag that is not set.  *)
<1>1. ASSUME opening[n][h],
             \A p \in Procs : Opener(p, n, h) => Opener(p, n, h)'
      PROVE  \E p \in Procs : Opener(p, n, h)'
  BY <1>1 DEF OpeningHasOpener, Opener
<1>2. CASE UNCHANGED <<opening, proc>>
  BY <1>1, <1>2 DEF Opener
<1>3. ASSUME NEW q \in Procs, Run(q) PROVE \E p \in Procs : Opener(p, n, h)'
  <2>1. CASE WriteToPeer(q)
    <3>1. PICK g \in Hubs : /\ HubFor(Home[q], g)
                            /\ proc' = [proc EXCEPT ![q].pc = "retry", ![q].hub = g]
      BY <2>1, Zenon DEF WriteToPeer
    <3>2. Home[q] \in Nodes
      BY IpTunnelHubAssumption
    <3>3. opening[n][h]
      BY <3>1, <3>2, HubForType
    <3>4. \A p \in Procs : Opener(p, n, h) => Opener(p, n, h)'
      BY <1>0, <2>1, <3>1 DEF Opener, WriteToPeer
    <3> QED BY <1>1, <3>3, <3>4
  <2>2. CASE Retry(q) \/ WriteMsg(q) \/ CheckOpening(q)
    <3>1. opening[n][h]
      BY <2>2, ZenonT(60) DEF Retry, WriteMsg, CheckOpening
    <3>2. proc[q].pc \notin {"open", "attach", "reset"}
      BY <2>2 DEF Retry, WriteMsg, CheckOpening
    <3>3. \A p \in Procs : p # q => proc'[p] = proc[p]
      BY <1>0, <2>2, Zenon DEF Retry, WriteMsg, CheckOpening
    <3> QED BY <1>1, <3>1, <3>2, <3>3 DEF Opener
  <2>3. CASE SetOpening(q)
    <3>1. proc'[q] = [proc[q] EXCEPT !.pc = "open"] /\ \A p \in Procs : p # q => proc'[p] = proc[p]
      BY <1>0, <2>3 DEF SetOpening
    <3>2. proc'[q].pc = "open" /\ proc'[q].hub = proc[q].hub
      BY <1>0, <3>1 DEF ProcState
    <3>3. CASE n = Home[q] /\ h = proc[q].hub
      BY <3>2, <3>3 DEF Opener
    <3>4. CASE ~(n = Home[q] /\ h = proc[q].hub)
      <4>1. opening[n][h]
        BY <1>0, <2>3, <3>4 DEF SetOpening
      <4> QED BY <1>1, <3>1, <3>2, <4>1, Zenon DEF Opener
    <3> QED BY <3>3, <3>4
  <2>4. CASE OpenStream(q) \/ AttachDialed(q)
    <3>1. opening[n][h]
      BY <2>4 DEF OpenStream, AttachDialed
    <3>2. \A p \in Procs : p # q => proc'[p] = proc[p]
      BY <1>0, <2>4, Zenon DEF OpenStream, AttachDialed
    <3>3. proc'[q].pc \in {"attach", "reset"} /\ proc'[q].hub = proc[q].hub
      <4>1. \/ \E s \in Streams : proc' = [proc EXCEPT ![q].pc = "attach", ![q].stream = s]
            \/ proc' = [proc EXCEPT ![q].pc = "reset"]
            \/ proc' = [proc EXCEPT ![q].pc = "reset", ![q].stream = None]
        BY <2>4, Zenon DEF OpenStream, AttachDialed
      <4>2. \/ \E s \in Streams : proc'[q] = [proc[q] EXCEPT !.pc = "attach", !.stream = s]
            \/ proc'[q] = [proc[q] EXCEPT !.pc = "reset"]
            \/ proc'[q] = [proc[q] EXCEPT !.pc = "reset", !.stream = None]
        BY <1>0, <4>1, Zenon
      <4>3. proc[q] \in ProcState
        BY <1>0
      <4> QED BY <4>2, <4>3, ZenonT(60) DEF ProcState
    <3> QED BY <1>1, <3>1, <3>2, <3>3 DEF Opener
  <2>5. CASE ResetOpening(q)
    <3>1. opening' = [opening EXCEPT ![Home[q]][proc[q].hub] = FALSE]
      BY <2>5 DEF ResetOpening
    <3>2. ~(n = Home[q] /\ h = proc[q].hub) /\ opening[n][h]
      BY <1>0, <3>1
    <3>3. \A p \in Procs : p # q => proc'[p] = proc[p]
      BY <1>0, <2>5 DEF ResetOpening
    <3>4. \A p \in Procs : Opener(p, n, h) => Opener(p, n, h)'
      BY <3>2, <3>3 DEF Opener
    <3> QED BY <1>1, <3>2, <3>4
  <2> QED BY <1>3, <2>1, <2>2, <2>3, <2>4, <2>5 DEF Run
<1>4. ASSUME NEW m \in Nodes, NEW s \in Streams, Serve(m, s) \/ Reject(m, s)
      PROVE  \E p \in Procs : Opener(p, n, h)'
  <2>1. CASE HandleStream(m, s)
    <3>1. opening[n][h]
      BY <2>1, HubForType DEF HandleStream
    <3> QED BY <1>1, <2>1, <3>1 DEF HandleStream, Opener
  <2>2. CASE Detach(m, s) /\ ~UNCHANGED <<opening, proc>>
    <3> DEFINE k == car[m][s].hub
    <3>1. PICK g \in Openers :
            /\ opening' = [opening EXCEPT ![m][k] = TRUE]
            /\ Home[g] = m /\ proc[g].pc = "idle"
            /\ proc' = [proc EXCEPT ![g] = [@ EXCEPT !.pc = "open", !.hub = k]]
      BY <2>2, Zenon DEF Detach
    <3>2. g \in Procs
      BY DEF Procs
    <3>3. proc'[g] = [proc[g] EXCEPT !.pc = "open", !.hub = k] /\ \A p \in Procs : p # g => proc'[p] = proc[p]
      BY <1>0, <3>1, <3>2
    <3>4. proc'[g].pc = "open" /\ proc'[g].hub = k
      BY <1>0, <3>2, <3>3 DEF ProcState
    <3>5. CASE n = m /\ h = k
      BY <3>1, <3>2, <3>4, <3>5 DEF Opener
    <3>6. CASE ~(n = m /\ h = k)
      <4>1. opening[n][h]
        BY <1>0, <3>1, <3>6
      <4>2. \A p \in Procs : Opener(p, n, h) => Opener(p, n, h)'
        BY <3>1, <3>3 DEF Opener
      <4> QED BY <1>1, <4>1, <4>2
    <3> QED BY <3>5, <3>6
  <2>3. CASE UNCHANGED <<opening, proc>>
    BY <1>2, <2>3
  <2> QED BY <1>4, <2>1, <2>2, <2>3, Zenon DEF Serve, AttachIncoming, PumpEnds, Detach, Reject
<1>5. CASE Break \/ (\E m \in Nodes, g \in Hubs : BecomesIdle(m, g)) \/ (\E m \in Nodes : Reap(m))
  BY <1>2, <1>5 DEF Break, BecomesIdle, Reap
<1> QED BY <1>2, <1>3, <1>4, <1>5 DEF Next, Quiet, vars

-----------------------------------------------------------------------------
(* A hub never lists two live carriers of one direction, each carrier it   *)
(* lists has a pump, and its opening flag is set only while a goroutine    *)
(* opens a stream, however writes, attaches, detaches, lost streams and    *)
(* the reaper interleave (attach, detach and openPeerStreamSync of hub.go).*)
THEOREM HubIsConsistent == Spec => []HubConsistent
<1>1. HubInv /\ [Next]_vars => HubInv'
  BY TypeStep, CarrierStep, OpeningStep DEF HubInv
<1>2. HubInv => HubConsistent
  BY DEF HubInv, HubConsistent, OneLivePerDirection, Live, Listed, ListedRuns, NoRivals, Rival
<1> QED BY <1>1, <1>2, HubInitial, PTL DEF Spec
=============================================================================

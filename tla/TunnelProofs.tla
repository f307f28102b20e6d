---------------------------- MODULE TunnelProofs ----------------------------
(***************************************************************************)
(* What the tunnels and carriers of packets promise for any number of      *)
(* sessions, connections, chunks and faults: the sessions of the drift     *)
(* server, the SYNs of softun, and the pb tunnel, of which a target that   *)
(* reads a clean end of file has read all of the request.                  *)
(***************************************************************************)
EXTENDS PbTunnel, DriftUdp, SofTun, TLAPS

\* The provers tried, in this order, on a leaf that names none.
USE SMTT(20), ZenonT(20), SMTT(30), SMTT(60)

-----------------------------------------------------------------------------
(* Facts about sequences: their elements, length, head and tail, Append    *)
(* and concatenation.                                                      *)
LEMMA EmptySeq == \A S : /\ <<>> \in Seq(S) /\ Len(<<>>) = 0
                      /\ \A q \in Seq(S) : q # <<>> => Len(q) \in Nat \ {0}
OBVIOUS

LEMMA LenProperties ==
  \A S : \A q \in Seq(S) : Len(q) \in Nat /\ q \in [1..Len(q) -> S] /\ DOMAIN q = 1..Len(q)
OBVIOUS

LEMMA SeqMonotonic == \A S, T : S \subseteq T => \A q \in Seq(S) : q \in Seq(T)
OBVIOUS

LEMMA HeadTailProperties ==
  \A S : \A q \in Seq(S) : q # <<>> =>
    /\ Head(q) \in S /\ Tail(q) \in Seq(S) /\ Len(Tail(q)) = Len(q) - 1
    /\ \A i \in 1..Len(Tail(q)) : Tail(q)[i] = q[i + 1]
OBVIOUS

LEMMA AppendProperties ==
  \A S : \A q \in Seq(S), e \in S :
    /\ Append(q, e) \in Seq(S) /\ Append(q, e) # <<>> /\ Len(Append(q, e)) = Len(q) + 1
    /\ \A i \in 1..Len(q) : Append(q, e)[i] = q[i]
    /\ Append(q, e)[Len(q) + 1] = e
OBVIOUS

-----------------------------------------------------------------------------
(* The sessions of the DriftServer.  ListenUDP alone adds to the map, so   *)
(* the place of the session it opens stays free until it is put there.     *)
SessState == [stream : {"none", "open", "ended"}, answers : BOOLEAN, idle : BOOLEAN]

DriftState == [pc : {"recv", "open", "put", "write", "remove", "ended"},
               key : Locals \cup {NoSession}, s : Sessions \cup {NoSession}]

DriftType ==
  /\ drift \in DriftState
  /\ sessions \in [Locals -> Sessions \cup {NoSession}]
  /\ sess \in [Sessions -> SessState]
  /\ closer \in [pc : {"idle", "snapshot", "waits", "returned"}, seen : SUBSET Sessions]

Putting(s) == drift.pc = "put" /\ drift.s = s

DriftInv ==
  /\ DriftType
  /\ drift.pc \in {"open", "put", "write", "remove"} => drift.key \in Locals
  /\ drift.pc \in {"put", "write", "remove"} => drift.s \in Sessions
  /\ drift.pc \in {"open", "put"} => sessions[drift.key] = NoSession
  /\ drift.pc = "put" => sess[drift.s].stream # "none" /\ \A k \in Locals : sessions[k] # drift.s
  /\ \A k \in Locals : sessions[k] # NoSession => sess[sessions[k]].stream # "none"
  /\ \A j, k \in Locals : sessions[j] = sessions[k] => j = k \/ sessions[j] = NoSession
  /\ \A s \in Sessions : sess[s].stream = "open" => (\E k \in Locals : sessions[k] = s) \/ Putting(s)

(* What closing some streams leaves as it was.                             *)
LEMMA StreamsClosed ==
  ASSUME DriftType, NEW ss, sess' = CloseStreams(ss)
  PROVE  /\ sess' \in [Sessions -> SessState]
         /\ \A s \in Sessions : /\ sess'[s].stream = "none" <=> sess[s].stream = "none"
                                /\ sess'[s].stream = "open" <=> sess[s].stream = "open" /\ s \notin ss
<1>1. \A s \in Sessions : sess[s] \in SessState
  BY DEF DriftType
<1>2. \A s \in Sessions : sess'[s] = IF s \in ss /\ sess[s].stream = "open"
                                     THEN [sess[s] EXCEPT !.stream = "ended"] ELSE sess[s]
  BY DEF CloseStreams
<1>3. \A x \in SessState : /\ [x EXCEPT !.stream = "ended"] \in SessState
                           /\ [x EXCEPT !.stream = "ended"].stream = "ended"
  BY DEF SessState
<1>4. sess' \in [Sessions -> SessState]
  BY <1>1, <1>3 DEF CloseStreams
<1> QED BY <1>1, <1>2, <1>3, <1>4, Zenon

LEMMA DriftStep ==
  ASSUME DriftInv, [DriftNext]_driftVars
  PROVE  DriftInv'
<1> USE DriftAssumption
<1>0. DriftType
  BY DEF DriftInv
<1>1. ASSUME NEW k \in Locals, LocalDatagram(k) PROVE DriftInv'
  <2>0. drift.pc = "recv" /\ UNCHANGED <<sessions, closer>>
    BY <1>1 DEF LocalDatagram
  <2>1. CASE sessions[k] = NoSession
    <3>1. drift' = [drift EXCEPT !.pc = "open", !.key = k] /\ UNCHANGED sess
      BY <1>1, <2>1 DEF LocalDatagram
    <3>2. drift' \in DriftState /\ drift'.pc = "open" /\ drift'.key = k
      BY <1>0, <3>1, Zenon DEF DriftType, DriftState
    <3> QED BY <2>0, <2>1, <3>1, <3>2 DEF DriftInv, DriftType, Putting
  <2>2. CASE sessions[k] # NoSession
    <3>1. sess' = [sess EXCEPT ![sessions[k]].idle = FALSE] /\ sessions[k] \in Sessions
      BY <1>0, <1>1, <2>2 DEF LocalDatagram, DriftType
    <3>2. sess' \in [Sessions -> SessState]
      BY <1>0, <3>1, ZenonT(30) DEF DriftType, SessState
    <3>3. \A s \in Sessions : sess'[s].stream = sess[s].stream
      BY <1>0, <3>1 DEF DriftType, SessState
    <3>4. drift' = [drift EXCEPT !.pc = "write", !.key = k, !.s = sessions[k]]
      BY <1>1, <2>2 DEF LocalDatagram
    <3>5. drift' \in DriftState /\ drift'.pc = "write" /\ drift'.key = k /\ drift'.s = sessions[k]
      BY <1>0, <3>1, <3>4, Zenon DEF DriftType, DriftState
    <3> QED BY <2>0, <3>1, <3>2, <3>3, <3>5 DEF DriftInv, DriftType, Putting
  <2> QED BY <2>1, <2>2
<1>2. CASE ListenEnds \/ OpenFails \/ WriteSession
  <2>1. \E p \in {"ended", "recv", "remove"} : drift' = [drift EXCEPT !.pc = p] /\ (p = "remove" => drift.pc = "write")
    BY <1>2 DEF ListenEnds, OpenFails, WriteSession
  <2>2. drift' \in DriftState /\ drift'.pc \in {"ended", "recv", "remove"}
        /\ (drift'.pc = "remove" => drift.pc = "write" /\ drift'.key = drift.key /\ drift'.s = drift.s)
    BY <1>0, <2>1 DEF DriftType, DriftState
  <2>3. UNCHANGED <<sessions, sess, closer>> /\ drift.pc # "put"
    BY <1>2 DEF ListenEnds, OpenFails, WriteSession
  <2> QED BY <2>2, <2>3 DEF DriftInv, DriftType, Putting
<1>3. CASE OpenWorks
  <2>1. PICK s \in Sessions :
          /\ sess[s].stream = "none"
          /\ sess' = [sess EXCEPT ![s] = [stream |-> "open", answers |-> TRUE, idle |-> FALSE]]
          /\ drift' = [drift EXCEPT !.pc = "put", !.s = s]
    BY <1>3, Zenon DEF OpenWorks
  <2>2. sess' \in [Sessions -> SessState]
    BY <1>0, <2>1 DEF DriftType, SessState
  <2>3. sess'[s].stream = "open" /\ \A t \in Sessions : t # s => sess'[t] = sess[t]
    BY <1>0, <2>1 DEF DriftType
  <2>4. drift'.pc = "put" /\ drift'.s = s /\ drift'.key = drift.key /\ drift.pc = "open"
    BY <1>0, <1>3, <2>1 DEF DriftType, DriftState, OpenWorks
  <2>5. drift' \in DriftState
    BY <1>0, <2>1, Zenon DEF DriftType, DriftState
  <2>6. UNCHANGED <<sessions, closer>>
    BY <1>3 DEF OpenWorks
  <2>7. \A k \in Locals : sessions[k] # s
    BY <2>1 DEF DriftInv
  <2> QED BY <1>0, <2>2, <2>3, <2>4, <2>5, <2>6, <2>7 DEF DriftInv, DriftType, Putting
<1>4. CASE PutSession
  <2>0. drift.pc = "put" /\ drift.key \in Locals /\ drift.s \in Sessions /\ sessions[drift.key] = NoSession
        /\ UNCHANGED <<sess, closer>> /\ drift.s # NoSession
    BY <1>4 DEF PutSession, DriftInv
  <2>1. /\ drift' = [drift EXCEPT !.pc = "write"]
        /\ sessions' = [sessions EXCEPT ![drift.key] = drift.s]
    BY <1>4 DEF PutSession
  <2>5. drift' \in DriftState
        /\ drift'.pc = "write" /\ drift'.s = drift.s /\ drift'.key = drift.key
    BY <1>0, <2>1 DEF DriftType, DriftState
  <2>6. sessions' \in [Locals -> Sessions \cup {NoSession}] /\ sessions'[drift.key] = drift.s
        /\ \A k \in Locals : k # drift.key => sessions'[k] = sessions[k]
    BY <1>0, <2>0, <2>1 DEF DriftType
  <2>7. \A k \in Locals : sessions[k] # drift.s
    BY <2>0 DEF DriftInv
  <2>8. DriftType'
    BY <1>0, <2>0, <2>5, <2>6 DEF DriftType
  <2>9. \A k \in Locals : sessions'[k] # NoSession => sess'[sessions'[k]].stream # "none"
    BY <1>0, <2>0, <2>6 DEF DriftInv, DriftType
  <2>10. \A j, k \in Locals : sessions'[j] = sessions'[k] => j = k \/ sessions'[j] = NoSession
    BY <2>6, <2>7 DEF DriftInv
  <2>11. \A s \in Sessions : sess'[s].stream = "open" => (\E k \in Locals : sessions'[k] = s)
    BY <2>0, <2>6 DEF DriftInv, Putting
  <2> QED BY <2>0, <2>5, <2>8, <2>9, <2>10, <2>11 DEF DriftInv, Putting
<1>5. CASE RemoveSession
  <2>0. drift.pc = "remove" /\ drift.key \in Locals /\ UNCHANGED closer
        /\ drift' = [drift EXCEPT !.pc = "recv"]
        /\ sessions' = [sessions EXCEPT ![drift.key] = NoSession]
        /\ sess' = CloseStreams({sessions[drift.key]} \ {NoSession})
    BY <1>5 DEF RemoveSession, DriftInv
  <2>1. drift' \in DriftState
        /\ drift'.pc = "recv"
    BY <1>0, <2>0 DEF DriftType, DriftState
  <2>2. sessions' \in [Locals -> Sessions \cup {NoSession}] /\ sessions'[drift.key] = NoSession
        /\ \A k \in Locals : k # drift.key => sessions'[k] = sessions[k]
    BY <1>0, <2>0 DEF DriftType
  <2>3. /\ sess' \in [Sessions -> SessState]
        /\ \A s \in Sessions : /\ sess'[s].stream = "none" <=> sess[s].stream = "none"
                               /\ sess'[s].stream = "open" <=> sess[s].stream = "open"
                                                              /\ s \notin {sessions[drift.key]} \ {NoSession}
    BY <1>0, <2>0, StreamsClosed, Zenon
  <2>4. DriftType'
    BY <1>0, <2>0, <2>1, <2>2, <2>3, Zenon DEF DriftType
  <2>5. \A k \in Locals : sessions'[k] # NoSession => sess'[sessions'[k]].stream # "none"
    BY <1>0, <2>2, <2>3 DEF DriftInv, DriftType
  <2>6. \A j, k \in Locals : sessions'[j] = sessions'[k] => j = k \/ sessions'[j] = NoSession
    BY <2>2 DEF DriftInv
  <2>7. \A s \in Sessions : sess'[s].stream = "open" => \E k \in Locals : sessions'[k] = s
    <3> SUFFICES ASSUME NEW s \in Sessions, sess'[s].stream = "open" PROVE \E k \in Locals : sessions'[k] = s
      OBVIOUS
    <3>1. s # sessions[drift.key]
      <4>1. s # NoSession
        OBVIOUS
      <4> QED BY <2>3, <4>1
    <3>2. PICK k \in Locals : sessions[k] = s
      BY <2>0, <2>3, ZenonT(60) DEF DriftInv, Putting
    <3> QED BY <2>2, <3>1, <3>2
  <2> QED BY <2>0, <2>1, <2>3, <2>4, <2>5, <2>6, <2>7, Zenon DEF DriftInv, Putting
<1>6. CASE Reap
  <2>0. /\ sessions' = [k \in Locals |-> IF sessions[k] \in IdleSessions THEN NoSession ELSE sessions[k]]
        /\ sess' = CloseStreams(IdleSessions) /\ UNCHANGED <<drift, closer>>
    BY <1>6 DEF Reap
  <2>1. sessions' \in [Locals -> Sessions \cup {NoSession}]
    BY <1>0, <2>0 DEF DriftType
  <2> QED BY <1>0, <2>0, <2>1, StreamsClosed DEF DriftInv, DriftType, Putting
<1>7. CASE CloseServer
  <2>1. CASE closer.pc = "idle"
    <3>1. closer' = [pc |-> "snapshot", seen |-> Snapshot] /\ UNCHANGED <<sess, drift, sessions>>
      BY <1>7, <2>1 DEF CloseServer
    <3>2. Snapshot \subseteq Sessions /\ \A k \in Locals : sessions[k] # NoSession => sessions[k] \in Snapshot
      BY <1>0 DEF Snapshot, DriftType
    <3> QED BY <3>1, <3>2 DEF DriftInv, DriftType, Putting
  <2>2. CASE closer.pc = "snapshot"
    <3>1. closer' = [closer EXCEPT !.pc = "waits"] /\ sess' = CloseStreams(closer.seen)
          /\ UNCHANGED <<drift, sessions>>
      BY <1>7, <2>2 DEF CloseServer
    <3>2. closer'.pc = "waits" /\ closer' \in [pc : {"idle", "snapshot", "waits", "returned"}, seen : SUBSET Sessions]
      BY <1>0, <3>1 DEF DriftType
    <3> QED BY <1>0, <2>2, <3>1, <3>2, StreamsClosed DEF DriftInv, DriftType, Putting
  <2>3. CASE closer.pc = "waits"
    <3>1. closer' = [closer EXCEPT !.pc = "returned"] /\ UNCHANGED <<sess, drift, sessions>>
      BY <1>7, <2>3 DEF CloseServer
    <3>2. closer'.pc = "returned" /\ closer' \in [pc : {"idle", "snapshot", "waits", "returned"}, seen : SUBSET Sessions]
      BY <1>0, <3>1 DEF DriftType
    <3> QED BY <3>1, <3>2 DEF DriftInv, DriftType, Putting
  <2> QED BY <1>7, <2>1, <2>2, <2>3 DEF CloseServer
<1>8. ASSUME NEW s \in Sessions, AnswerSession(s) \/ Idle(s) PROVE DriftInv'
  <2>1. PICK b \in BOOLEAN : sess' = [sess EXCEPT ![s].answers = b] \/ sess' = [sess EXCEPT ![s].idle = b]
    <3>1. sess[s].idle \in BOOLEAN
      BY <1>0 DEF DriftType, SessState
    <3> QED BY <1>8, <3>1, Zenon DEF AnswerSession, Idle
  <2>2. \A x \in SessState : /\ [x EXCEPT !.answers = b] \in SessState /\ [x EXCEPT !.idle = b] \in SessState
                             /\ [x EXCEPT !.answers = b].stream = x.stream
                             /\ [x EXCEPT !.idle = b].stream = x.stream
    BY DEF SessState
  <2>3. sess' = [sess EXCEPT ![s] = [sess[s] EXCEPT !.answers = b]]
        \/ sess' = [sess EXCEPT ![s] = [sess[s] EXCEPT !.idle = b]]
    BY <1>0, <2>1 DEF DriftType
  <2>4. sess' \in [Sessions -> SessState] /\ \A t \in Sessions : sess'[t].stream = sess[t].stream
    <3>1. ASSUME NEW t \in Sessions PROVE sess[t] \in SessState /\ (sess'[t] = sess[t] \/ sess'[t] = [sess[t] EXCEPT !.answers = b]
                                                                  \/ sess'[t] = [sess[t] EXCEPT !.idle = b])
      BY <1>0, <2>3 DEF DriftType
    <3>2. sess' = [t \in Sessions |-> sess'[t]]
      BY <1>0, <2>3 DEF DriftType
    <3>3. \A t \in Sessions : sess'[t] \in SessState /\ sess'[t].stream = sess[t].stream
      BY <2>2, <3>1, ZenonT(60)
    <3> QED BY <3>2, <3>3
  <2>5. UNCHANGED <<drift, sessions, closer>>
    BY <1>8 DEF AnswerSession, Idle
  <2> QED BY <2>4, <2>5 DEF DriftInv, DriftType, Putting
<1>9. ASSUME NEW s \in Sessions, StreamLost(s) PROVE DriftInv'
  <2>1. sess' = [sess EXCEPT ![s].stream = "ended"] /\ sess[s].stream = "open" /\ UNCHANGED <<drift, sessions, closer>>
    BY <1>9 DEF StreamLost
  <2>2. sess' \in [Sessions -> SessState] /\ sess'[s].stream = "ended"
        /\ \A t \in Sessions : t # s => sess'[t] = sess[t]
    BY <1>0, <2>1 DEF DriftType, SessState
  <2> QED BY <2>1, <2>2 DEF DriftInv, DriftType, Putting
<1>10. CASE AcceptTcp \/ HandlerEnds \/ UNCHANGED driftVars
  BY <1>10 DEF AcceptTcp, HandlerEnds, driftVars, DriftInv, DriftType, Putting
<1> QED BY <1>1, <1>2, <1>3, <1>4, <1>5, <1>6, <1>7, <1>8, <1>9, <1>10 DEF DriftNext

(* A UDP session with an open stream is always in the map or on its way    *)
(* there, and addresses share no session, for any number of addresses and  *)
(* sessions and wherever Close is (ListenUDP, reapUDP and Close of         *)
(* DriftServer).                                                           *)
THEOREM SessionsAreKept == DriftSpec => []SessionsKept
<1>1. DriftInit => DriftInv
  <2> SUFFICES ASSUME DriftInit PROVE DriftInv
    OBVIOUS
  <2>1. drift.pc = "recv" /\ drift \in DriftState
    BY DEF DriftInit, DriftState
  <2>2. closer.pc = "idle" /\ closer \in [pc : {"idle", "snapshot", "waits", "returned"}, seen : SUBSET Sessions]
    BY DEF DriftInit
  <2>3. sess \in [Sessions -> SessState] /\ \A s \in Sessions : sess[s].stream = "none"
    BY DEF DriftInit, SessState
  <2>4. sessions \in [Locals -> Sessions \cup {NoSession}] /\ \A k \in Locals : sessions[k] = NoSession
    BY DEF DriftInit
  <2> QED BY <2>1, <2>2, <2>3, <2>4 DEF DriftInv, DriftType, Putting
<1>2. DriftInv => SessionsKept
  BY DEF DriftInv, SessionsKept, Listed, Putting
<1> QED BY <1>1, <1>2, DriftStep, PTL DEF DriftSpec

-----------------------------------------------------------------------------
(* The SYNs of softun: a marker is set, and taken, by the goroutine that   *)
(* handles the SYN, and nobody else sets it.                               *)
SoftInv ==
  /\ synPend \in [keys : SUBSET Conns, old : SUBSET Conns]
  /\ syn \in [Handlers -> [pc : {"idle", "ensure", "mark", "send", "take"}, c : Conns \cup {"none"}]]
  /\ \A h \in Handlers : syn[h].pc # "idle" => syn[h].c \in Conns
  /\ NoStaleMarker

(* No marker outlives its SYN, for any number of connections, ports and    *)
(* goroutines that handle SYNs (handleInboundTCP, hairpin, and the reaper  *)
(* in between).                                                            *)
THEOREM MarkersAreTaken == SoftSpec => []NoStaleMarker
<1>1. SoftInit => SoftInv
  BY DEF SoftInit, SoftInv, NoStaleMarker, NoSyn
<1>2. SoftInv /\ [SoftNext]_softVars => SoftInv'
  <2> SUFFICES ASSUME SoftInv, [SoftNext]_softVars PROVE SoftInv'
    OBVIOUS
  <2>1. CASE SetLoPortMap \/ ReapLoPortMap \/ Applications \/ UNCHANGED softVars
    BY <2>1 DEF SetLoPortMap, ReapLoPortMap, Applications, softVars, SoftInv, NoStaleMarker
  <2>2. CASE SoftAges \/ ReapSynPending
    <3>1. /\ UNCHANGED syn /\ synPend'.keys \subseteq synPend.keys
          /\ synPend' \in [keys : SUBSET Conns, old : SUBSET Conns]
      BY <2>2 DEF SoftAges, ReapSynPending, SoftInv
    <3> QED BY <3>1 DEF SoftInv, NoStaleMarker
  <2>3. ASSUME NEW h \in Handlers, NEW c \in Conns, SynArrives(h, c) PROVE SoftInv'
    BY <2>3 DEF SynArrives, SoftInv, NoStaleMarker
  <2>4. ASSUME NEW h \in Handlers, EnsurePort(h) PROVE SoftInv'
    BY <2>4 DEF EnsurePort, SoftInv, NoStaleMarker
  <2>5. ASSUME NEW h \in Handlers, SetSynPending(h) PROVE SoftInv'
    <3>1. /\ syn' = [syn EXCEPT ![h].pc = "send"] /\ synPend'.keys = synPend.keys \cup {syn[h].c}
          /\ synPend'.old = synPend.old \ {syn[h].c} /\ syn[h].pc = "mark"
          /\ synPend' = [keys |-> synPend'.keys, old |-> synPend'.old]
      BY <2>5 DEF SetSynPending
    <3>2. syn[h].c \in Conns
      BY <3>1 DEF SoftInv
    <3>3. synPend' \in [keys : SUBSET Conns, old : SUBSET Conns]
      BY <3>1, <3>2 DEF SoftInv
    <3> QED BY <3>1, <3>2, <3>3 DEF SoftInv, NoStaleMarker
  <2>6. ASSUME NEW h \in Handlers, SendSyn(h) PROVE SoftInv'
    <3>1. /\ syn' = [syn EXCEPT ![h].pc = "take"] /\ synPend'.keys \subseteq synPend.keys
          /\ synPend' \in [keys : SUBSET Conns, old : SUBSET Conns]
      BY <2>6 DEF SendSyn, Take, SoftInv
    <3> QED BY <2>6, <3>1 DEF SendSyn, SoftInv, NoStaleMarker
  <2>7. ASSUME NEW h \in Handlers, TakeSynPending(h) PROVE SoftInv'
    <3>1. /\ syn' = [syn EXCEPT ![h] = NoSyn] /\ synPend'.keys = synPend.keys \ {syn[h].c}
          /\ synPend' \in [keys : SUBSET Conns, old : SUBSET Conns]
      BY <2>7 DEF TakeSynPending, Take, SoftInv
    <3> QED BY <3>1 DEF SoftInv, NoStaleMarker, NoSyn
  <2> QED BY <2>1, <2>2, <2>3, <2>4, <2>5, <2>6, <2>7 DEF SoftNext
<1>3. SoftInv => NoStaleMarker
  BY DEF SoftInv
<1> QED BY <1>1, <1>2, <1>3, PTL DEF SoftSpec

-----------------------------------------------------------------------------
(* The pb tunnel.                                                          *)
ChanState == [buf : Seq(Chunks), fin : BOOLEAN, shut : BOOLEAN]

(* TypeOK, with the domains it leaves open.                                *)
Types == TypeOK /\ sent \in [Ends -> Nat] /\ hold \in [Copiers -> Nat]

LEMMA ChunkRange ==
  /\ Chunks \subseteq Nat /\ NoChunk \notin Chunks
  /\ \A e \in Ends : \A i \in 1..MaxSend[e] : i \in Chunks
<1>1. MaxSend["app"] \in Nat /\ MaxSend["tgt"] \in Nat
  BY BoundsAssumption DEF Ends
<1>2. {MaxSend[e] : e \in Ends} = {MaxSend["app"], MaxSend["tgt"]}
  BY DEF Ends
<1>3. \A a, b \in Nat : \E x \in {a, b} : \A y \in {a, b} : x >= y
  OBVIOUS
<1>4. \E x \in {MaxSend[e] : e \in Ends} : \A y \in {MaxSend[e] : e \in Ends} : x >= y
  BY <1>1, <1>2, <1>3, SMTT(30)
<1>5. /\ Max({MaxSend[e] : e \in Ends}) \in {MaxSend[e] : e \in Ends}
      /\ \A y \in {MaxSend[e] : e \in Ends} : Max({MaxSend[e] : e \in Ends}) >= y
  BY <1>4 DEF Max
<1>6. Max({MaxSend[e] : e \in Ends}) \in Nat
  BY <1>1, <1>2, <1>5
<1>7. \A e \in Ends : MaxSend[e] \in Nat /\ Max({MaxSend[f] : f \in Ends}) >= MaxSend[e]
  BY <1>1, <1>5 DEF Ends
<1> QED BY <1>6, <1>7 DEF Chunks, NoChunk

LEMMA Wiring ==
  /\ \A c \in Copiers : InOf[c] \in Channels /\ OutOf[c] \in Channels
  /\ \A e \in Ends : EndIn[e] \in Channels /\ EndOut[e] \in Channels
  /\ \A c \in Channels : c[1] \in Links /\ <<c[1], Back(c[2])>> \in Channels
                         /\ <<c[1], Back(c[2])>> # c
BY DEF Copiers, InOf, OutOf, Ends, EndIn, EndOut, Channels, Links, Directions, Back

LEMMA ChanUpdate ==
  ASSUME NEW x \in ChanState
  PROVE  /\ [x EXCEPT !.fin = TRUE] \in ChanState
         /\ [x EXCEPT !.shut = TRUE, !.buf = <<>>] \in ChanState
         /\ \A q \in Seq(Chunks) : [x EXCEPT !.buf = q] \in ChanState
<1>1. <<>> \in Seq(Chunks)
  BY EmptySeq
<1> QED BY <1>1, Zenon DEF ChanState

(* Closed, channel by channel.                                             *)
LEMMA ClosedIs ==
  ASSUME NEW f \in [Channels -> ChanState], NEW out \in Channels
  PROVE  /\ Closed(f, out) \in [Channels -> ChanState]
         /\ \A c \in Channels : c # out /\ c # <<out[1], Back(out[2])>> => Closed(f, out)[c] = f[c]
         /\ Closed(f, out)[out] = [f[out] EXCEPT !.fin = TRUE]
         /\ Closed(f, out)[<<out[1], Back(out[2])>>]
              = [f[<<out[1], Back(out[2])>>] EXCEPT !.shut = TRUE, !.buf = <<>>]
         /\ \A c \in Channels : Len(f[c].buf) <= Cap => Len(Closed(f, out)[c].buf) <= Cap
<1> DEFINE opp == <<out[1], Back(out[2])>>
<1>1. opp \in Channels /\ opp # out
  BY Wiring
<1>2. Closed(f, out) = [f EXCEPT ![out].fin = TRUE, ![opp].shut = TRUE, ![opp].buf = <<>>]
  BY DEF Closed
<1> HIDE DEF opp
<1>3. \A c \in Channels : c # out /\ c # opp => Closed(f, out)[c] = f[c]
  BY <1>1, <1>2
<1>4. Closed(f, out)[out] = [f[out] EXCEPT !.fin = TRUE]
  BY <1>1, <1>2, Zenon
<1>5. Closed(f, out)[opp] = [f[opp] EXCEPT !.shut = TRUE, !.buf = <<>>]
  BY <1>1, <1>2
<1>6. DOMAIN Closed(f, out) = Channels /\ Closed(f, out) = [c \in Channels |-> Closed(f, out)[c]]
  BY <1>2, ZenonT(60)
<1>7. \A c \in Channels : Closed(f, out)[c] \in ChanState
  <2>1. f[out] \in ChanState /\ f[opp] \in ChanState
    BY <1>1
  <2>2. Closed(f, out)[out] \in ChanState
    BY <1>4, <2>1, ChanUpdate, Zenon
  <2>3. Closed(f, out)[opp] \in ChanState
    BY <1>5, <2>1, ChanUpdate, Zenon
  <2> QED BY <1>3, <2>2, <2>3
<1>8. Closed(f, out) \in [Channels -> ChanState]
  BY <1>6, <1>7
<1>9. ASSUME NEW c \in Channels, Len(f[c].buf) <= Cap PROVE Len(Closed(f, out)[c].buf) <= Cap
  <2>1. f[c] \in ChanState
    OBVIOUS
  <2>2. CASE c = opp
    <3>1. f[opp] \in ChanState
      BY <1>1
    <3>2. Closed(f, out)[c].buf = <<>>
      BY <1>5, <2>2, <3>1, Zenon DEF ChanState
    <3> QED BY <3>2, BoundsAssumption
  <2>3. CASE c # opp
    BY <1>3, <1>4, <1>9, <2>1, <2>3 DEF ChanState
  <2> QED BY <2>2, <2>3
<1> QED BY <1>3, <1>4, <1>5, <1>8, <1>9 DEF opp

-----------------------------------------------------------------------------
(* Types.                                                                  *)

LEMMA TypesInit == PbInit => Types
<1> SUFFICES ASSUME PbInit PROVE Types
  OBVIOUS
<1>1. <<>> \in Seq(Chunks) /\ Len(<<>>) = 0
  BY EmptySeq
<1>2. ch \in [Channels -> ChanState]
  BY <1>1 DEF PbInit, ChanState
<1>3. \A c \in Channels : Len(ch[c].buf) <= Cap
  BY <1>1, BoundsAssumption DEF PbInit
<1>4. got \in [Ends -> Seq(Chunks)]
  BY <1>1 DEF PbInit
<1>5. /\ sent \in [Ends -> Nat] /\ \A e \in Ends : sent[e] \in 0..MaxSend[e]
      /\ hold \in [Copiers -> Nat] /\ faults \in 0..MaxFaults
  BY BoundsAssumption DEF PbInit, NoChunk
<1> QED BY <1>2, <1>3, <1>4, <1>5 DEF PbInit, Types, TypeOK, ChanState, NoChunk

(* The types of the channels, which Close and a write keep.                *)
ChType == ch \in [Channels -> ChanState] /\ \A c \in Channels : Len(ch[c].buf) <= Cap

LEMMA CloseType ==
  ASSUME ChType, broken \subseteq Links, NEW out \in Channels, Close(out)
  PROVE  ChType' /\ broken' \subseteq Links
<1>1. ch' = Closed(ch, out) /\ broken' = broken \cup BrokenByClose(out)
  BY DEF Close
<1>2. BrokenByClose(out) \subseteq Links
  BY Wiring DEF BrokenByClose
<1> QED BY <1>1, <1>2, ClosedIs, Zenon DEF ChType

LEMMA WriteType ==
  ASSUME ChType, broken \subseteq Links, NEW out \in Channels, NEW x \in Chunks, WriteOk(out, x)
  PROVE  ChType' /\ broken' \subseteq Links
<1>1. out[1] \in Links
  BY Wiring, Zenon
<1>2. CASE UNCHANGED ch
  BY <1>1, <1>2 DEF WriteOk, ChType
<1>3. CASE Len(ch[out].buf) < Cap /\ ch' = [ch EXCEPT ![out].buf = Append(@, x)] /\ UNCHANGED broken
  <2>1. ch[out] \in ChanState /\ ch[out].buf \in Seq(Chunks)
    BY DEF ChType, ChanState
  <2>2. Append(ch[out].buf, x) \in Seq(Chunks) /\ Len(Append(ch[out].buf, x)) = Len(ch[out].buf) + 1
    BY <2>1
  <2>3. ch' = [ch EXCEPT ![out] = [ch[out] EXCEPT !.buf = Append(ch[out].buf, x)]]
    BY <1>3 DEF ChType
  <2>4. ch' \in [Channels -> ChanState]
    BY <2>1, <2>2, <2>3, ChanUpdate, Zenon DEF ChType
  <2>5. \A c \in Channels : c # out => ch'[c] = ch[c]
    BY <2>3 DEF ChType
  <2>6. ch'[out].buf = Append(ch[out].buf, x)
    BY <2>1, <2>3 DEF ChType, ChanState
  <2>7. Len(ch'[out].buf) <= Cap
    BY <1>3, <2>1, <2>2, <2>6, BoundsAssumption
  <2> QED BY <1>3, <2>4, <2>5, <2>7 DEF ChType
<1> QED BY <1>2, <1>3 DEF WriteOk

LEMMA TakeType ==
  ASSUME ChType, NEW c \in Channels, ch[c].buf # <<>>, ch' = [ch EXCEPT ![c].buf = Tail(@)]
  PROVE  /\ ChType' /\ Head(ch[c].buf) \in Chunks
         /\ ch'[c] = [ch[c] EXCEPT !.buf = Tail(ch[c].buf)]
         /\ \A d \in Channels : d # c => ch'[d] = ch[d]
<1>1. ch[c] \in ChanState /\ ch[c].buf \in Seq(Chunks) /\ Len(ch[c].buf) <= Cap
  BY DEF ChType, ChanState
<1>2. /\ Tail(ch[c].buf) \in Seq(Chunks) /\ Len(Tail(ch[c].buf)) = Len(ch[c].buf) - 1
      /\ Head(ch[c].buf) \in Chunks
  BY <1>1, HeadTailProperties
<1>3. ch' = [ch EXCEPT ![c] = [ch[c] EXCEPT !.buf = Tail(ch[c].buf)]]
  BY DEF ChType
<1>4. /\ ch'[c] = [ch[c] EXCEPT !.buf = Tail(ch[c].buf)]
      /\ \A d \in Channels : d # c => ch'[d] = ch[d]
  BY <1>3 DEF ChType
<1>5. ch' \in [Channels -> ChanState]
  BY <1>1, <1>2, <1>3, ChanUpdate, ZenonT(30) DEF ChType
<1>6. ch'[c].buf = Tail(ch[c].buf)
  BY <1>1, <1>4 DEF ChanState
<1>7. Len(ch'[c].buf) <= Cap
  BY <1>1, <1>2, <1>6, BoundsAssumption, LenProperties
<1> QED BY <1>2, <1>4, <1>5, <1>7 DEF ChType

(* The rest of the types.                                                  *)
RestType ==
  /\ broken \subseteq Links
  /\ pc \in [Copiers -> {"off", "read", "write", "writeLast", "stuck", "exit", "done"}]
  /\ \A c \in Copiers : hold[c] \in (IF pc[c] \in {"write", "writeLast", "stuck"}
                                     THEN Chunks ELSE {NoChunk})
  /\ hold \in [Copiers -> Nat]
  /\ hA \in {"new", "open", "returned"}
  /\ hB \in {"none", "new", "open", "returned"}
  /\ sent \in [Ends -> Nat] /\ \A e \in Ends : sent[e] \in 0..MaxSend[e]
  /\ got \in [Ends -> Seq(Chunks)]
  /\ ended \in [Ends -> {"no", "eof", "reset"}]
  /\ faults \in 0..MaxFaults

LEMMA TypesDef == Types <=> ChType /\ RestType
BY DEF Types, TypeOK, ChType, RestType, ChanState

LEMMA CopierTypes ==
  ASSUME ChType, RestType, NEW c \in Copiers, Copy(c)
  PROVE  ChType' /\ RestType'
<1>0. InOf[c] \in Channels /\ OutOf[c] \in Channels
  BY Wiring
<1>1. CASE ReadChunk(c)
  <2>1. ch[InOf[c]].buf # <<>> /\ ch' = [ch EXCEPT ![InOf[c]].buf = Tail(@)]
    BY <1>1 DEF ReadChunk, Readable
  <2>2. ChType' /\ Head(ch[InOf[c]].buf) \in Chunks
    BY <1>0, <2>1, TakeType, Zenon
  <2>3. PICK next \in {"write", "writeLast"} : pc' = [pc EXCEPT ![c] = next]
    BY <1>1, Zenon DEF ReadChunk
  <2>4. hold' = [hold EXCEPT ![c] = Head(ch[InOf[c]].buf)]
    BY <1>1 DEF ReadChunk
  <2>5. hold' \in [Copiers -> Nat]
    BY <2>2, <2>4, ChunkRange, ZenonT(60) DEF RestType
  <2>6. pc' \in [Copiers -> {"off", "read", "write", "writeLast", "stuck", "exit", "done"}]
    BY <2>3 DEF RestType
  <2>7. \A d \in Copiers : hold'[d] \in (IF pc'[d] \in {"write", "writeLast", "stuck"}
                                         THEN Chunks ELSE {NoChunk})
    BY <2>2, <2>3, <2>4 DEF RestType
  <2> QED BY <1>1, <2>2, <2>5, <2>6, <2>7 DEF ReadChunk, RestType
<1>2. CASE ReadEnd(c)
  BY <1>2 DEF ReadEnd, RestType, ChType
<1>3. CASE WriteChunk(c) \/ WriteError(c)
  <2>1. hold[c] \in Chunks
    BY <1>3 DEF WriteChunk, WriteError, RestType
  <2>2. ChType' /\ broken' \subseteq Links
    <3>1. CASE WriteOk(OutOf[c], hold[c])
      BY <1>0, <2>1, <3>1, WriteType DEF RestType
    <3>2. CASE UNCHANGED <<ch, broken>>
      BY <3>2 DEF ChType, RestType
    <3> QED BY <1>3, <3>1, <3>2 DEF WriteChunk, WriteError
  <2>3. PICK next \in {"read", "exit"} : pc' = [pc EXCEPT ![c] = next]
    BY <1>3 DEF WriteChunk, WriteError
  <2>4. hold' = [hold EXCEPT ![c] = NoChunk]
    BY <1>3 DEF WriteChunk, WriteError
  <2>5. hold' \in [Copiers -> Nat]
    BY <2>4 DEF RestType, NoChunk
  <2>6. pc' \in [Copiers -> {"off", "read", "write", "writeLast", "stuck", "exit", "done"}]
    BY <2>3 DEF RestType
  <2>7. \A d \in Copiers : hold'[d] \in (IF pc'[d] \in {"write", "writeLast", "stuck"}
                                         THEN Chunks ELSE {NoChunk})
    BY <2>3, <2>4 DEF RestType
  <2> QED BY <1>3, <2>2, <2>5, <2>6, <2>7 DEF WriteChunk, WriteError, RestType
<1>4. CASE WriteStuck(c)
  BY <1>4 DEF WriteStuck, RestType, ChType
<1> QED BY <1>1, <1>2, <1>3, <1>4 DEF Copy

(* The copiers are off until their handler starts them.                    *)
NotStarted ==
  /\ hA = "new" => pc["A1"] = "off" /\ pc["A2"] = "off" /\ hB = "none"
  /\ hB \in {"none", "new"} => pc["B1"] = "off" /\ pc["B2"] = "off"

LEMMA HandlerTypes ==
  ASSUME ChType, RestType, NotStarted,
         A1Exit \/ A2Exit \/ B1Exit \/ B2Exit \/ AOpens \/ AFails \/ BRejects \/ BDialFails
           \/ BDials \/ AReturns \/ BReturns
  PROVE  ChType' /\ RestType'
<1>0. \A c \in Copiers : OutOf[c] \in Channels
  BY Wiring
<1>c. "A1" \in Copiers /\ "A2" \in Copiers /\ "B1" \in Copiers /\ "B2" \in Copiers
  BY DEF Copiers
<1>p. ASSUME NEW c \in Copiers, pc[c] = "exit", pc' = [pc EXCEPT ![c] = "done"], UNCHANGED hold
      PROVE  /\ pc' \in [Copiers -> {"off", "read", "write", "writeLast", "stuck", "exit", "done"}]
             /\ \A d \in Copiers : hold'[d] \in (IF pc'[d] \in {"write", "writeLast", "stuck"}
                                                 THEN Chunks ELSE {NoChunk})
  BY <1>p DEF RestType
<1>1. CASE A1Exit \/ A2Exit \/ B2Exit
  <2>1. PICK c \in Copiers : pc[c] = "exit" /\ Close(OutOf[c]) /\ pc' = [pc EXCEPT ![c] = "done"]
    BY <1>1, <1>c DEF A1Exit, A2Exit, B2Exit
  <2>2. UNCHANGED <<hold, hA, hB, sent, got, ended, faults>>
    BY <1>1 DEF A1Exit, A2Exit, B2Exit
  <2>3. ChType' /\ broken' \subseteq Links
    BY <1>0, <2>1, CloseType DEF RestType
  <2> QED BY <1>p, <2>1, <2>2, <2>3 DEF RestType
<1>2. CASE B1Exit
  BY <1>c, <1>p, <1>2 DEF B1Exit, RestType, ChType
<1>3. CASE AFails \/ BDialFails
  <2>1. PICK c \in Copiers : Close(OutOf[c])
    BY <1>3, <1>c DEF AFails, BDialFails
  <2>2. ChType' /\ broken' \subseteq Links
    BY <1>0, <2>1, CloseType DEF RestType
  <2> QED BY <1>3, <2>2 DEF AFails, BDialFails, RestType
<1>4. CASE BRejects
  BY <1>4 DEF BRejects, RestType, ChType, Links
<1>5. CASE AReturns \/ BReturns
  <2>1. PICK c \in Copiers, d \in Copiers : /\ ch' = Closed(Closed(ch, OutOf[c]), OutOf[d])
                                            /\ broken' = broken \cup BrokenByClose(OutOf[d])
    BY <1>5, <1>c DEF AReturns, BReturns
  <2>2. BrokenByClose(OutOf[d]) \subseteq Links
    BY <1>0, Wiring DEF BrokenByClose
  <2>3. /\ Closed(ch, OutOf[c]) \in [Channels -> ChanState]
        /\ \A x \in Channels : Len(Closed(ch, OutOf[c])[x].buf) <= Cap
    BY <1>0, ClosedIs, Zenon DEF ChType
  <2>4. ChType'
    BY <1>0, <2>1, <2>3, ClosedIs, ZenonT(60) DEF ChType
  <2> QED BY <1>5, <2>1, <2>2, <2>4 DEF AReturns, BReturns, RestType
<1>6. CASE AOpens \/ BDials
  <2>1. PICK c \in Copiers, d \in Copiers : /\ pc' = [pc EXCEPT ![c] = "read", ![d] = "read"]
                                            /\ pc[c] = "off" /\ pc[d] = "off"
    BY <1>6, <1>c DEF AOpens, BDials, NotStarted
  <2>2. pc' \in [Copiers -> {"off", "read", "write", "writeLast", "stuck", "exit", "done"}]
    BY <2>1, ZenonT(60) DEF RestType
  <2>3. \A x \in Copiers : hold[x] \in (IF pc'[x] \in {"write", "writeLast", "stuck"}
                                        THEN Chunks ELSE {NoChunk})
    BY <2>1 DEF RestType
  <2> QED BY <1>6, <2>2, <2>3 DEF AOpens, BDials, RestType, ChType
<1> QED BY <1>1, <1>2, <1>3, <1>4, <1>5, <1>6

LEMMA EnvironmentTypes ==
  ASSUME ChType, RestType, Environment
  PROVE  ChType' /\ RestType'
<1>1. CASE LoseStream
  BY <1>1, BoundsAssumption DEF LoseStream, RestType, ChType, Links
<1>2. ASSUME NEW e \in Ends, Send(e) \/ Receive(e) \/ SeesEnd(e) \/ HalfClose(e) \/ Leave(e)
      PROVE  ChType' /\ RestType'
  <2>0. EndIn[e] \in Channels /\ EndOut[e] \in Channels
    BY Wiring
  <2>1. CASE Send(e)
    <3>1. sent[e] + 1 \in Chunks /\ sent[e] + 1 \in 0..MaxSend[e]
      <4>1. sent[e] \in Nat /\ MaxSend[e] \in Nat /\ sent[e] < MaxSend[e]
        BY <2>1, BoundsAssumption, ZenonT(60) DEF Send, RestType
      <4>2. sent[e] + 1 \in 1..MaxSend[e]
        BY <4>1
      <4> QED BY <4>1, <4>2, ChunkRange
    <3>2. ChType' /\ broken' \subseteq Links
      BY <2>0, <2>1, <3>1, WriteType, ZenonT(60) DEF Send, RestType
    <3>3. sent' \in [Ends -> Nat] /\ \A f \in Ends : sent'[f] \in 0..MaxSend[f]
      <4>1. sent' = [sent EXCEPT ![e] = sent[e] + 1]
        BY <2>1 DEF Send
      <4> QED BY <3>1, <4>1 DEF RestType
    <3> QED BY <2>1, <3>2, <3>3 DEF Send, RestType
  <2>2. CASE Receive(e)
    <3>1. ch[EndIn[e]].buf # <<>> /\ ch' = [ch EXCEPT ![EndIn[e]].buf = Tail(@)]
      BY <2>2 DEF Receive, Readable
    <3>2. ChType' /\ Head(ch[EndIn[e]].buf) \in Chunks
      BY <2>0, <3>1, TakeType, ZenonT(60)
    <3>3. got' = [got EXCEPT ![e] = Append(got[e], Head(ch[EndIn[e]].buf))]
      BY <2>2 DEF Receive, RestType
    <3>4. got[e] \in Seq(Chunks)
      BY DEF RestType
    <3>5. Append(got[e], Head(ch[EndIn[e]].buf)) \in Seq(Chunks)
      BY <3>2, <3>4, AppendProperties
    <3>6. got' \in [Ends -> Seq(Chunks)]
      BY <3>3, <3>5 DEF RestType
    <3> QED BY <2>2, <3>2, <3>6 DEF Receive, RestType
  <2>3. CASE SeesEnd(e)
    BY <2>3 DEF SeesEnd, RestType, ChType
  <2>4. CASE HalfClose(e)
    <3>1. ch' = [ch EXCEPT ![EndOut[e]] = [ch[EndOut[e]] EXCEPT !.fin = TRUE]]
      BY <2>4 DEF HalfClose, ChType
    <3>2. ch' \in [Channels -> ChanState]
      BY <2>0, <3>1, ChanUpdate, Zenon DEF ChType
    <3>3. \A c \in Channels : ch'[c].buf = ch[c].buf
      BY <2>0, <3>1 DEF ChType, ChanState
    <3> QED BY <2>4, <3>2, <3>3 DEF HalfClose, RestType, ChType
  <2>5. CASE Leave(e)
    <3>1. ChType' /\ broken' \subseteq Links
      BY <2>0, <2>5, CloseType DEF Leave, RestType
    <3> QED BY <2>5, <3>1 DEF Leave, RestType
  <2> QED BY <1>2, <2>1, <2>2, <2>3, <2>4, <2>5
<1> QED BY <1>1, <1>2 DEF Environment

LEMMA TypesStep ==
  ASSUME ChType, RestType, NotStarted, [PbNext]_pbVars
  PROVE  ChType' /\ RestType' /\ NotStarted'
<1>1. CASE UNCHANGED pbVars
  BY <1>1 DEF pbVars, ChType, RestType, NotStarted
<1>2. ChType' /\ RestType'
  BY <1>1, CopierTypes, HandlerTypes, EnvironmentTypes, <1>1, ZenonT(60) DEF PbNext, Program, pbVars, ChType, RestType
<1>3. NotStarted'
  <2>0. pc \in [Copiers -> {"off", "read", "write", "writeLast", "stuck", "exit", "done"}]
    BY DEF RestType
  <2>c. "A1" \in Copiers /\ "A2" \in Copiers /\ "B1" \in Copiers /\ "B2" \in Copiers
    BY DEF Copiers
  <2>1. ASSUME NEW c \in Copiers, Copy(c) PROVE NotStarted'
    <3>1. pc[c] # "off" /\ UNCHANGED <<hA, hB>> /\ \A d \in Copiers : d # c => pc'[d] = pc[d]
      BY <2>0, <2>1 DEF Copy, ReadChunk, ReadEnd, WriteChunk, WriteStuck, WriteError
    <3> QED BY <2>c, <3>1 DEF NotStarted
  <2>2. CASE A1Exit \/ A2Exit \/ B1Exit \/ B2Exit
    <3>1. PICK c \in Copiers : pc[c] = "exit" /\ pc' = [pc EXCEPT ![c] = "done"]
      BY <2>c, <2>2 DEF A1Exit, A2Exit, B1Exit, B2Exit
    <3>2. \A d \in Copiers : d # c => pc'[d] = pc[d]
      BY <2>0, <3>1
    <3>3. UNCHANGED <<hA, hB>>
      BY <2>2 DEF A1Exit, A2Exit, B1Exit, B2Exit
    <3> QED BY <2>c, <3>1, <3>2, <3>3 DEF NotStarted
  <2>3. CASE AOpens \/ BDials
    BY <2>0, <2>c, <2>3 DEF AOpens, BDials, NotStarted
  <2>4. CASE AFails \/ BRejects \/ BDialFails \/ AReturns \/ BReturns
    BY <2>4 DEF AFails, BRejects, BDialFails, AReturns, BReturns, NotStarted
  <2>5. CASE Environment
    BY <2>5, Zenon DEF Environment, Send, Receive, SeesEnd, HalfClose, Leave, LoseStream, NotStarted
  <2> QED BY <1>1, <2>1, <2>2, <2>3, <2>4, <2>5 DEF PbNext, Program
<1> QED BY <1>2, <1>3

-----------------------------------------------------------------------------
(* The request on its way: the chunks 1, 2, 3, ... the client sent, from   *)
(* the target back to the client.  g was received, t is in the target's    *)
(* socket, B2 holds hb (when b = 1), s is in the stream, A1 holds ha (when *)
(* a = 1), q is in the client's socket, and n were sent.                   *)
Ramp(q, n) == \A i \in 1..Len(q) : q[i] = n + i

FlowOf(g, t, b, hb, s, a, ha, q, n) ==
  /\ Ramp(g, 0)
  /\ Ramp(t, Len(g))
  /\ b = 1 => hb = Len(g) + Len(t) + 1
  /\ Ramp(s, Len(g) + Len(t) + b)
  /\ a = 1 => ha = Len(g) + Len(t) + b + Len(s) + 1
  /\ Ramp(q, Len(g) + Len(t) + b + Len(s) + a)
  /\ n = Len(g) + Len(t) + b + Len(s) + a + Len(q)

LEMMA RampAppend ==
  ASSUME NEW q \in Seq(Nat), NEW n \in Nat, Ramp(q, n)
  PROVE  Ramp(Append(q, n + Len(q) + 1), n)
BY DEF Ramp

LEMMA RampTail ==
  ASSUME NEW q \in Seq(Nat), NEW n \in Nat, Ramp(q, n), q # <<>>
  PROVE  Head(q) = n + 1 /\ Ramp(Tail(q), n + 1) /\ Len(Tail(q)) + 1 = Len(q)
<1>1. Len(q) \in Nat /\ Len(q) > 0 /\ Len(Tail(q)) = Len(q) - 1 /\ Head(q) = q[1]
  BY EmptySeq, HeadTailProperties
<1>2. \A i \in 1..Len(Tail(q)) : Tail(q)[i] = q[i + 1]
  BY <1>1, HeadTailProperties
<1> QED BY <1>1, <1>2 DEF Ramp

TypedFlow(g, t, b, hb, s, a, ha, q, n) ==
  /\ g \in Seq(Nat) /\ t \in Seq(Nat) /\ s \in Seq(Nat) /\ q \in Seq(Nat)
  /\ a \in {0, 1} /\ b \in {0, 1} /\ ha \in Nat /\ hb \in Nat /\ n \in Nat
  /\ FlowOf(g, t, b, hb, s, a, ha, q, n)

LEMMA FlowMoves ==
  ASSUME NEW g, NEW t, NEW b, NEW hb, NEW s, NEW a, NEW ha, NEW q, NEW n,
         TypedFlow(g, t, b, hb, s, a, ha, q, n)
  PROVE  /\ FlowOf(g, t, b, hb, s, a, ha, Append(q, n + 1), n + 1)
         /\ a = 0 /\ q # <<>> => FlowOf(g, t, b, hb, s, 1, Head(q), Tail(q), n)
         /\ a = 1 => \A x : FlowOf(g, t, b, hb, Append(s, ha), 0, x, q, n)
         /\ b = 0 /\ s # <<>> => FlowOf(g, t, 1, Head(s), Tail(s), a, ha, q, n)
         /\ b = 1 => \A x : FlowOf(g, Append(t, hb), 0, x, s, a, ha, q, n)
         /\ t # <<>> => FlowOf(Append(g, Head(t)), Tail(t), b, hb, s, a, ha, q, n)
<1> USE DEF TypedFlow
<1>0. Len(g) \in Nat /\ Len(t) \in Nat /\ Len(s) \in Nat /\ Len(q) \in Nat
  OBVIOUS
<1>1. FlowOf(g, t, b, hb, s, a, ha, Append(q, n + 1), n + 1)
  <2>1. n + 1 = Len(g) + Len(t) + b + Len(s) + a + Len(q) + 1
    BY DEF FlowOf
  <2>2. Ramp(Append(q, n + 1), Len(g) + Len(t) + b + Len(s) + a)
    BY <1>0, <2>1, RampAppend DEF FlowOf
  <2> QED BY <1>0, <2>1, <2>2 DEF FlowOf
<1>2. ASSUME a = 0, q # <<>> PROVE FlowOf(g, t, b, hb, s, 1, Head(q), Tail(q), n)
  <2> DEFINE k == Len(g) + Len(t) + b + Len(s)
  <2>1. k \in Nat /\ Ramp(q, k) /\ n = k + Len(q)
    BY <1>0, <1>2 DEF FlowOf
  <2>2. Head(q) = k + 1 /\ Ramp(Tail(q), k + 1) /\ Len(Tail(q)) + 1 = Len(q)
    BY <1>2, <2>1, RampTail
  <2>3. Len(Tail(q)) \in Nat
    BY <1>2
  <2> QED BY <1>0, <1>2, <2>1, <2>2, <2>3 DEF FlowOf
<1>3. ASSUME a = 1, NEW x PROVE FlowOf(g, t, b, hb, Append(s, ha), 0, x, q, n)
  <2>1. ha = Len(g) + Len(t) + b + Len(s) + 1
    BY <1>3 DEF FlowOf
  <2>2. Ramp(Append(s, ha), Len(g) + Len(t) + b) /\ Len(Append(s, ha)) = Len(s) + 1
    BY <1>0, <2>1, RampAppend DEF FlowOf
  <2>3. Len(g) + Len(t) + b + Len(Append(s, ha)) + 0 = Len(g) + Len(t) + b + Len(s) + a
    BY <1>0, <1>3, <2>2
  <2> QED BY <1>0, <1>3, <2>2, <2>3 DEF FlowOf
<1>4. ASSUME b = 0, s # <<>> PROVE FlowOf(g, t, 1, Head(s), Tail(s), a, ha, q, n)
  <2> DEFINE k == Len(g) + Len(t)
  <2>1. k \in Nat /\ Ramp(s, k)
    BY <1>0, <1>4 DEF FlowOf
  <2>2. Head(s) = k + 1 /\ Ramp(Tail(s), k + 1) /\ Len(Tail(s)) + 1 = Len(s)
    BY <1>4, <2>1, RampTail
  <2>3. Len(Tail(s)) \in Nat
    BY <1>4
  <2>4. k + 1 + Len(Tail(s)) = k + b + Len(s)
    BY <1>0, <1>4, <2>2, <2>3
  <2> QED BY <1>0, <1>4, <2>1, <2>2, <2>3, <2>4 DEF FlowOf
<1>5. ASSUME b = 1, NEW x PROVE FlowOf(g, Append(t, hb), 0, x, s, a, ha, q, n)
  <2>1. hb = Len(g) + Len(t) + 1
    BY <1>5 DEF FlowOf
  <2>2. Ramp(Append(t, hb), Len(g)) /\ Len(Append(t, hb)) = Len(t) + 1
    BY <1>0, <2>1, RampAppend DEF FlowOf
  <2>3. Len(g) + Len(Append(t, hb)) + 0 = Len(g) + Len(t) + b
    BY <1>0, <1>5, <2>2
  <2> QED BY <1>0, <1>5, <2>2, <2>3 DEF FlowOf
<1>6. ASSUME t # <<>> PROVE FlowOf(Append(g, Head(t)), Tail(t), b, hb, s, a, ha, q, n)
  <2>1. Head(t) = Len(g) + 1 /\ Ramp(Tail(t), Len(g) + 1) /\ Len(Tail(t)) + 1 = Len(t)
    BY <1>0, <1>6, RampTail DEF FlowOf
  <2>2. Head(t) = 0 + Len(g) + 1
    BY <1>0, <2>1
  <2>3. Ramp(Append(g, Head(t)), 0) /\ Len(Append(g, Head(t))) = Len(g) + 1
    BY <2>2, RampAppend DEF FlowOf
  <2>4. Len(Tail(t)) \in Nat
    BY <1>6
  <2>5. Len(Append(g, Head(t))) + Len(Tail(t)) = Len(g) + Len(t)
    <3> DEFINE x == Len(Append(g, Head(t)))
               y == Len(Tail(t))
               u == Len(g)
               v == Len(t)
    <3>1. x = u + 1 /\ y + 1 = v /\ y \in Nat /\ u \in Nat /\ v \in Nat
      BY <1>0, <2>1, <2>3, <2>4
    <3> HIDE DEF x, y, u, v
    <3>2. x + y = u + v
      BY <3>1
    <3> QED BY <3>2, ZenonT(60) DEF x, y, u, v
  <2> QED BY <1>0, <1>6, <2>1, <2>3, <2>5 DEF FlowOf
<1> QED BY <1>1, <1>2, <1>3, <1>4, <1>5, <1>6

(* Nothing under way: all that was sent was received.                      *)
LEMMA FlowDone ==
  ASSUME NEW g \in Seq(Nat), NEW ha, NEW hb, NEW n,
         FlowOf(g, <<>>, 0, hb, <<>>, 0, ha, <<>>, n)
  PROVE  g = [i \in 1..n |-> i]
<1>1. n = Len(g) /\ \A i \in 1..Len(g) : g[i] = i
  BY DEF FlowOf, Ramp
<1>2. g = [i \in 1..Len(g) |-> g[i]]
  OBVIOUS
<1> QED BY <1>1, <1>2

-----------------------------------------------------------------------------
(* The inductive invariant.                                                *)

AF == <<"app", "fwd">>
SF == <<"stream", "fwd">>
TF == <<"tgt", "fwd">>

Held(c) == IF pc[c] \in {"write", "writeLast", "stuck"} THEN 1 ELSE 0

Flow == FlowOf(got["tgt"], ch[TF].buf, Held("B2"), hold["B2"],
               ch[SF].buf, Held("A1"), hold["A1"], ch[AF].buf, sent["app"])

(* Nothing was reset, and the target still reads.                          *)
Clear == broken = {} /\ ~ch[TF].shut

(* The client sends no more.                                               *)
Silent == ch[AF].fin \/ ch[AF].shut

Order ==
  /\ \A c \in {AF, SF, TF} : ch[c].shut => ch[c].buf = <<>>
  /\ pc["A1"] = "writeLast" => ch[AF].buf = <<>> /\ ch[AF].fin
  /\ pc["B2"] = "writeLast" => ch[SF].buf = <<>> /\ ch[SF].fin
  /\ ch[SF].fin => pc["A1"] = "done"
  /\ ch[TF].fin => pc["B2"] = "done"
  /\ ch[SF].shut => hB = "returned"
  /\ hB = "returned" => pc["B2"] \in {"off", "done"}

(* No chunk is lost while the path is clear; a copier that has ended left  *)
(* nothing behind it.                                                      *)
Path ==
  /\ Clear /\ (~ch[SF].shut \/ pc["B2"] = "done") => Flow
  /\ Clear /\ ~ch[SF].shut /\ pc["A1"] \in {"exit", "done"} => ch[AF].buf = <<>> /\ Silent
  /\ Clear /\ pc["B2"] \in {"exit", "done"} =>
       ch[SF].buf = <<>> /\ ch[AF].buf = <<>> /\ pc["A1"] = "done" /\ Silent

Eof ==
  ended["tgt"] = "eof" /\ broken \subseteq {"tgt"} =>
    Silent /\ got["tgt"] = [i \in 1..sent["app"] |-> i]

FwdInv == Order /\ Path /\ Eof

TunnelInv == Types /\ NotStarted /\ FwdInv

LEMMA Names ==
  /\ AF \in Channels /\ SF \in Channels /\ TF \in Channels
  /\ AF # SF /\ AF # TF /\ SF # TF
  /\ InOf["A1"] = AF /\ InOf["B2"] = SF /\ InOf["A2"] \notin {AF, SF, TF} /\ InOf["B1"] \notin {AF, SF, TF}
  /\ OutOf["A1"] = SF /\ OutOf["B2"] = TF /\ OutOf["A2"] \notin {AF, SF, TF} /\ OutOf["B1"] \notin {AF, SF, TF}
  /\ EndOut["app"] = AF /\ EndIn["tgt"] = TF /\ EndOut["tgt"] \notin {AF, SF, TF} /\ EndIn["app"] \notin {AF, SF, TF}
  /\ AF[1] = "app" /\ SF[1] = "stream" /\ TF[1] = "tgt"
  /\ "A1" \in Copiers /\ "A2" \in Copiers /\ "B1" \in Copiers /\ "B2" \in Copiers
  /\ "app" \in Ends /\ "tgt" \in Ends
BY DEF AF, SF, TF, Channels, Links, Directions, InOf, OutOf, EndIn, EndOut, Copiers, Ends

(* A step that leaves the way of the request alone.                        *)
SameChans == ch'[AF] = ch[AF] /\ ch'[SF] = ch[SF] /\ ch'[TF] = ch[TF]
SameEnds == sent'["app"] = sent["app"] /\ got'["tgt"] = got["tgt"] /\ ended'["tgt"] = ended["tgt"]
SameCopiers ==
  /\ pc'["A1"] = pc["A1"] /\ pc'["B2"] = pc["B2"]
  /\ hold'["A1"] = hold["A1"] /\ hold'["B2"] = hold["B2"]

LEMMA AsideKeeps ==
  ASSUME FwdInv, SameChans, SameEnds, SameCopiers, hB' = hB, broken \subseteq broken'
  PROVE  FwdInv'
<1>1. Order'
  BY DEF FwdInv, Order, SameChans, SameCopiers
<1>2. Clear' => Clear
  BY DEF Clear, SameChans
<1>3. Flow' = Flow /\ (Silent' <=> Silent)
  BY ZenonT(60) DEF Flow, Held, Silent, SameChans, SameEnds, SameCopiers
<1>4. Path'
  BY <1>2, <1>3 DEF FwdInv, Path, SameChans, SameCopiers
<1>5. Eof'
  BY <1>3 DEF FwdInv, Eof, SameEnds
<1> QED BY <1>1, <1>4, <1>5 DEF FwdInv

(* What a close does to the way of the request.                            *)
Finned(f, g, c) == g[c].fin /\ g[c].buf = f[c].buf /\ g[c].shut = f[c].shut
Shutted(f, g, c) == g[c].shut /\ g[c].buf = <<>> /\ g[c].fin = f[c].fin

LEMMA CloseFwd ==
  ASSUME NEW f \in [Channels -> ChanState]
  PROVE  /\ LET g == Closed(f, <<"app", "bwd">>) IN
              g \in [Channels -> ChanState] /\ Shutted(f, g, AF) /\ g[SF] = f[SF] /\ g[TF] = f[TF]
         /\ LET g == Closed(f, <<"stream", "bwd">>) IN
              g \in [Channels -> ChanState] /\ Shutted(f, g, SF) /\ g[AF] = f[AF] /\ g[TF] = f[TF]
         /\ LET g == Closed(f, <<"tgt", "bwd">>) IN
              g \in [Channels -> ChanState] /\ Shutted(f, g, TF) /\ g[AF] = f[AF] /\ g[SF] = f[SF]
         /\ LET g == Closed(f, AF) IN
              g \in [Channels -> ChanState] /\ Finned(f, g, AF) /\ g[SF] = f[SF] /\ g[TF] = f[TF]
         /\ LET g == Closed(f, SF) IN
              g \in [Channels -> ChanState] /\ Finned(f, g, SF) /\ g[AF] = f[AF] /\ g[TF] = f[TF]
         /\ LET g == Closed(f, TF) IN
              g \in [Channels -> ChanState] /\ Finned(f, g, TF) /\ g[AF] = f[AF] /\ g[SF] = f[SF]
<1>1. ASSUME NEW l \in Links
      PROVE  LET g == Closed(f, <<l, "bwd">>) IN
               /\ g \in [Channels -> ChanState] /\ Shutted(f, g, <<l, "fwd">>)
               /\ \A m \in Links : m # l => g[<<m, "fwd">>] = f[<<m, "fwd">>]
  <2> DEFINE out == <<l, "bwd">>
             opp == <<l, "fwd">>
             g == Closed(f, out)
  <2>1. out \in Channels /\ opp \in Channels /\ <<out[1], Back(out[2])>> = opp
    BY DEF Channels, Directions, Back
  <2>d. g = Closed(f, out)
    OBVIOUS
  <2>e. \A m \in Links : m # l =>
          <<m, "fwd">> \in Channels /\ <<m, "fwd">> # out /\ <<m, "fwd">> # opp
    BY DEF Channels, Directions
  <2> HIDE DEF g, out, opp
  <2>2. f[opp] \in ChanState
    BY <2>1
  <2>3. g[opp] = [f[opp] EXCEPT !.shut = TRUE, !.buf = <<>>]
    BY <2>1, <2>d, ClosedIs, ZenonT(30)
  <2>4. Shutted(f, g, opp)
    BY <2>2, <2>3 DEF Shutted, ChanState
  <2>6. \A m \in Links : m # l => g[<<m, "fwd">>] = f[<<m, "fwd">>]
    <3> TAKE m \in Links
    <3> HAVE m # l
    <3> DEFINE c == <<m, "fwd">>
    <3>1. c \in Channels /\ c # out /\ c # opp
      BY <2>e
    <3> HIDE DEF c
    <3>2. c # <<out[1], Back(out[2])>>
      BY <2>1, <3>1
    <3>3. \A x \in Channels : x # out /\ x # <<out[1], Back(out[2])>> => Closed(f, out)[x] = f[x]
      BY <2>1, ClosedIs, ZenonT(60)
    <3>4. g[c] = f[c]
      BY <2>d, <3>1, <3>2, <3>3
    <3> QED BY <3>4 DEF c
  <2>7. g \in [Channels -> ChanState]
    BY <2>1, <2>d, ClosedIs, ZenonT(60)
  <2> QED BY <2>4, <2>6, <2>7 DEF g, out, opp
<1>2. ASSUME NEW l \in Links
      PROVE  LET g == Closed(f, <<l, "fwd">>) IN
               /\ g \in [Channels -> ChanState] /\ Finned(f, g, <<l, "fwd">>)
               /\ \A m \in Links : m # l => g[<<m, "fwd">>] = f[<<m, "fwd">>]
  <2> DEFINE out == <<l, "fwd">>
             opp == <<l, "bwd">>
             g == Closed(f, out)
  <2>1. out \in Channels /\ opp \in Channels /\ <<out[1], Back(out[2])>> = opp
    BY DEF Channels, Directions, Back
  <2>d. g = Closed(f, out)
    OBVIOUS
  <2>e. \A m \in Links : m # l =>
          <<m, "fwd">> \in Channels /\ <<m, "fwd">> # out /\ <<m, "fwd">> # opp
    BY DEF Channels, Directions
  <2> HIDE DEF g, out, opp
  <2>2. f[out] \in ChanState
    BY <2>1
  <2>3. g[out] = [f[out] EXCEPT !.fin = TRUE]
    BY <2>1, <2>d, ClosedIs, Zenon
  <2>4. Finned(f, g, out)
    BY <2>2, <2>3 DEF Finned, ChanState
  <2>6. \A m \in Links : m # l => g[<<m, "fwd">>] = f[<<m, "fwd">>]
    <3> TAKE m \in Links
    <3> HAVE m # l
    <3> DEFINE c == <<m, "fwd">>
    <3>1. c \in Channels /\ c # out /\ c # opp
      BY <2>e
    <3> HIDE DEF c
    <3>2. c # <<out[1], Back(out[2])>>
      BY <2>1, <3>1
    <3>3. \A x \in Channels : x # out /\ x # <<out[1], Back(out[2])>> => Closed(f, out)[x] = f[x]
      BY <2>1, ClosedIs, ZenonT(60)
    <3>4. g[c] = f[c]
      BY <2>d, <3>1, <3>2, <3>3
    <3> QED BY <3>4 DEF c
  <2>7. g \in [Channels -> ChanState]
    BY <2>1, <2>d, ClosedIs, Zenon
  <2> QED BY <2>4, <2>6, <2>7 DEF g, out, opp
<1>3. "app" \in Links /\ "stream" \in Links /\ "tgt" \in Links
  BY DEF Links
<1> QED BY <1>1, <1>2, <1>3, ZenonT(60) DEF AF, SF, TF

LEMMA FlowTypes ==
  ASSUME ChType, RestType
  PROVE  /\ got["tgt"] \in Seq(Nat) /\ sent["app"] \in Nat
         /\ \A c \in Channels : ch[c] \in ChanState /\ ch[c].buf \in Seq(Chunks) /\ ch[c].buf \in Seq(Nat)
         /\ \A c \in Copiers : hold[c] \in Nat /\ Held(c) \in {0, 1}
<1>1. \A q \in Seq(Chunks) : q \in Seq(Nat)
  BY ChunkRange, SeqMonotonic, ZenonT(60)
<1>2. got["tgt"] \in Seq(Chunks) /\ sent["app"] \in Nat
  BY Names DEF RestType
<1>3. \A c \in Channels : ch[c] \in ChanState /\ ch[c].buf \in Seq(Chunks)
  BY DEF ChType, ChanState
<1> QED BY <1>1, <1>2, <1>3 DEF RestType, Held

(* FlowMoves at the present state.                                         *)
LEMMA FlowNext ==
  ASSUME ChType, RestType, Flow
  PROVE  LET g == got["tgt"]
             t == ch[TF].buf
             b == Held("B2")
             hb == hold["B2"]
             s == ch[SF].buf
             a == Held("A1")
             ha == hold["A1"]
             q == ch[AF].buf
             n == sent["app"]
         IN  /\ FlowOf(g, t, b, hb, s, a, ha, Append(q, n + 1), n + 1)
             /\ a = 0 /\ q # <<>> => FlowOf(g, t, b, hb, s, 1, Head(q), Tail(q), n)
             /\ a = 1 => \A x : FlowOf(g, t, b, hb, Append(s, ha), 0, x, q, n)
             /\ b = 0 /\ s # <<>> => FlowOf(g, t, 1, Head(s), Tail(s), a, ha, q, n)
             /\ b = 1 => \A x : FlowOf(g, Append(t, hb), 0, x, s, a, ha, q, n)
             /\ t # <<>> => FlowOf(Append(g, Head(t)), Tail(t), b, hb, s, a, ha, q, n)
<1> DEFINE g == got["tgt"]
           t == ch[TF].buf
           b == Held("B2")
           hb == hold["B2"]
           s == ch[SF].buf
           a == Held("A1")
           ha == hold["A1"]
           q == ch[AF].buf
           n == sent["app"]
<1>1. /\ g \in Seq(Nat) /\ t \in Seq(Nat) /\ s \in Seq(Nat) /\ q \in Seq(Nat)
      /\ a \in {0, 1} /\ b \in {0, 1} /\ ha \in Nat /\ hb \in Nat /\ n \in Nat
  BY FlowTypes, Names, ZenonT(60)
<1>2. TypedFlow(g, t, b, hb, s, a, ha, q, n)
  BY <1>1 DEF Flow, TypedFlow
<1> HIDE DEF g, t, b, hb, s, a, ha, q, n
<1>3. /\ FlowOf(g, t, b, hb, s, a, ha, Append(q, n + 1), n + 1)
      /\ a = 0 /\ q # <<>> => FlowOf(g, t, b, hb, s, 1, Head(q), Tail(q), n)
      /\ a = 1 => \A x : FlowOf(g, t, b, hb, Append(s, ha), 0, x, q, n)
      /\ b = 0 /\ s # <<>> => FlowOf(g, t, 1, Head(s), Tail(s), a, ha, q, n)
      /\ b = 1 => \A x : FlowOf(g, Append(t, hb), 0, x, s, a, ha, q, n)
      /\ t # <<>> => FlowOf(Append(g, Head(t)), Tail(t), b, hb, s, a, ha, q, n)
  BY <1>2, FlowMoves
<1> QED BY <1>3, Zenon DEF g, t, b, hb, s, a, ha, q, n

LEMMA LastTaken ==
  ASSUME NEW q \in Seq(Chunks), q # <<>>, Len(q) = 1
  PROVE  Tail(q) = <<>>
<1>1. Tail(q) \in Seq(Chunks) /\ Len(Tail(q)) = 0
  BY HeadTailProperties
<1> QED BY <1>1, EmptySeq, ZenonT(60)

(* The copier A1 of the client's node.                                     *)
LEMMA ReadsA1 ==
  ASSUME ChType, RestType, FwdInv, ReadChunk("A1")
  PROVE  FwdInv'
<1>1. /\ ch[AF].buf # <<>> /\ ~ch[AF].shut /\ ch' = [ch EXCEPT ![AF].buf = Tail(@)]
      /\ hold' = [hold EXCEPT !["A1"] = Head(ch[AF].buf)] /\ pc["A1"] = "read"
  BY Names DEF ReadChunk, Readable, Shut
<1>2. ch'[AF] = [ch[AF] EXCEPT !.buf = Tail(ch[AF].buf)] /\ ch'[SF] = ch[SF] /\ ch'[TF] = ch[TF]
  BY <1>1, Names, TakeType, ZenonT(60)
<1>3. ch'[AF].buf = Tail(ch[AF].buf) /\ ch'[AF].fin = ch[AF].fin /\ ch'[AF].shut = ch[AF].shut
  BY <1>2, FlowTypes, Names DEF ChanState
<1>4. PICK next \in {"write", "writeLast"} :
        /\ pc' = [pc EXCEPT !["A1"] = next]
        /\ next = "writeLast" => Len(ch[AF].buf) = 1 /\ ch[AF].fin
  BY Names, ZenonT(60) DEF ReadChunk, Ended
<1>5. /\ pc'["A1"] = next /\ pc'["B2"] = pc["B2"]
      /\ hold'["A1"] = Head(ch[AF].buf) /\ hold'["B2"] = hold["B2"]
  BY <1>1, <1>4, Names DEF RestType
<1>6. next = "writeLast" => ch'[AF].buf = <<>> /\ ch'[AF].fin
  BY <1>1, <1>3, <1>4, FlowTypes, LastTaken, Names, ZenonT(60)
<1>7. UNCHANGED <<broken, hA, hB, sent, got, ended>>
  BY DEF ReadChunk
<1>8. Order'
  BY <1>1, <1>2, <1>3, <1>5, <1>6, <1>7 DEF FwdInv, Order
<1>9. Clear' = Clear /\ (Silent' <=> Silent) /\ (Clear => pc["B2"] \notin {"exit", "done"})
  BY <1>1, <1>2, <1>3, <1>7 DEF Clear, Silent, FwdInv, Path
<1>10. Flow => Flow'
  <2>1. Held("A1") = 0 /\ Held("A1")' = 1 /\ Held("B2")' = Held("B2")
    BY <1>1, <1>5 DEF Held
  <2> QED BY <1>1, <1>2, <1>3, <1>5, <1>7, <2>1, FlowNext, ZenonT(60) DEF Flow
<1>11. Path'
  BY <1>2, <1>5, <1>9, <1>10 DEF FwdInv, Path
<1>12. Eof'
  BY <1>7, <1>9, ZenonT(60) DEF FwdInv, Eof
<1> QED BY <1>8, <1>11, <1>12 DEF FwdInv

LEMMA EndsA1 ==
  ASSUME ChType, RestType, FwdInv, ReadEnd("A1")
  PROVE  FwdInv'
<1>1. pc["A1"] = "read" /\ pc'["A1"] = "exit" /\ pc'["B2"] = pc["B2"]
  BY Names, ZenonT(60) DEF ReadEnd, RestType
<1>2. UNCHANGED <<ch, broken, hold, hA, hB, sent, got, ended>>
  BY DEF ReadEnd
<1>3. Clear => ch[AF].buf = <<>> /\ Silent
  BY Names, ZenonT(60) DEF ReadEnd, AtEnd, Broken, Shut, Clear, Silent, FwdInv, Order
<1>4. Order'
  BY <1>1, <1>2 DEF FwdInv, Order
<1>5. (Flow => Flow') /\ (Clear' <=> Clear) /\ (Silent' <=> Silent)
  BY <1>1, <1>2 DEF Flow, Held, Clear, Silent
<1>6. Path'
  BY <1>1, <1>2, <1>3, <1>5 DEF FwdInv, Path
<1>7. Eof'
  BY <1>2, <1>5 DEF FwdInv, Eof
<1> QED BY <1>4, <1>6, <1>7 DEF FwdInv

LEMMA WritesA1 ==
  ASSUME ChType, RestType, FwdInv, WriteChunk("A1") \/ WriteError("A1")
  PROVE  FwdInv'
<1>1. /\ pc["A1"] \in {"write", "writeLast", "stuck"} /\ hold' = [hold EXCEPT !["A1"] = NoChunk]
      /\ UNCHANGED <<hA, hB, sent, got, ended>>
  BY DEF WriteChunk, WriteError
<1>2. PICK next \in {"read", "exit"} : /\ pc' = [pc EXCEPT !["A1"] = next]
                                       /\ next = "exit" => \/ pc["A1"] = "writeLast"
                                                           \/ WriteFails(SF) /\ UNCHANGED <<ch, broken>>
  BY Names, Zenon DEF WriteChunk, WriteError
<1>3. pc'["A1"] = next /\ pc'["B2"] = pc["B2"] /\ hold'["B2"] = hold["B2"]
  BY <1>1, <1>2, Names, ZenonT(60) DEF RestType
<1>4. ~ch[SF].fin /\ (Clear => pc["B2"] \notin {"exit", "done"})
  BY <1>1, ZenonT(60) DEF FwdInv, Order, Path
<1>5. Held("A1") = 1 /\ Held("A1")' = 0 /\ Held("B2")' = Held("B2")
  BY <1>1, <1>3 DEF Held
<1>6. CASE ch' = [ch EXCEPT ![SF].buf = Append(@, hold["A1"])] /\ ~ch[SF].shut /\ UNCHANGED broken
           /\ ~WriteFails(SF)
  <2>1. ch' = [ch EXCEPT ![SF] = [ch[SF] EXCEPT !.buf = Append(ch[SF].buf, hold["A1"])]]
    BY <1>6 DEF ChType
  <2>2. /\ ch'[SF] = [ch[SF] EXCEPT !.buf = Append(ch[SF].buf, hold["A1"])]
        /\ ch'[AF] = ch[AF] /\ ch'[TF] = ch[TF]
    BY <2>1, Names DEF ChType
  <2>3. /\ ch'[SF].buf = Append(ch[SF].buf, hold["A1"])
        /\ ch'[SF].fin = ch[SF].fin /\ ch'[SF].shut = ch[SF].shut
    BY <2>2, FlowTypes, Names DEF ChanState
  <2>4. next = "exit" => pc["A1"] = "writeLast"
    BY <1>2, <1>6
  <2>5. Order'
    BY <1>1, <1>3, <1>4, <1>6, <2>2, <2>3 DEF FwdInv, Order
  <2>6. (Clear' <=> Clear) /\ (Silent' <=> Silent)
    BY <1>6, <2>2 DEF Clear, Silent
  <2>7. Flow => Flow'
    BY <1>1, <1>3, <1>5, <2>2, <2>3, FlowNext DEF Flow
  <2>8. next = "exit" => ch'[AF].buf = <<>> /\ Silent'
    BY <2>2, <2>4 DEF FwdInv, Order, Silent
  <2>9. Path'
    BY <1>3, <1>4, <1>6, <2>2, <2>3, <2>6, <2>7, <2>8 DEF FwdInv, Path
  <2>10. Eof'
    BY <1>1, <1>6, <2>6 DEF FwdInv, Eof
  <2> QED BY <2>5, <2>9, <2>10 DEF FwdInv
<1>7. CASE UNCHANGED ch /\ broken \subseteq broken' /\ (ch[SF].shut \/ ~Clear)
  <2>1. Order'
    BY <1>1, <1>3, <1>4, <1>7, ZenonT(60) DEF FwdInv, Order
  <2>2. (Clear' => Clear) /\ (Silent' <=> Silent)
    BY <1>7 DEF Clear, Silent
  <2>3. Path'
    BY <1>3, <1>4, <1>7, <2>2, ZenonT(60) DEF FwdInv, Path
  <2>4. Eof'
    BY <1>1, <1>7, <2>2, ZenonT(60) DEF FwdInv, Eof
  <2> QED BY <2>1, <2>3, <2>4 DEF FwdInv
<1>8. \/ /\ ch' = [ch EXCEPT ![SF].buf = Append(@, hold["A1"])] /\ ~ch[SF].shut /\ UNCHANGED broken
         /\ ~WriteFails(SF)
      \/ UNCHANGED ch /\ broken \subseteq broken' /\ (ch[SF].shut \/ ~Clear)
  BY <1>4, Names DEF WriteChunk, WriteError, WriteOk, WriteFails, Ended, Broken, Shut, Clear
<1> QED BY <1>6, <1>7, <1>8

LEMMA StuckA1 ==
  ASSUME ChType, RestType, FwdInv, WriteStuck("A1")
  PROVE  FwdInv'
<1>1. /\ pc["A1"] \in {"write", "writeLast"} /\ pc'["A1"] = "stuck" /\ pc'["B2"] = pc["B2"]
      /\ ~ch[SF].fin /\ UNCHANGED <<ch, broken, hold, hB, sent, got, ended>>
  BY Names DEF WriteStuck, WriteBlocks, Ended, RestType
<1>2. Flow' = Flow /\ (Clear' <=> Clear) /\ (Silent' <=> Silent)
  BY <1>1 DEF Flow, Held, Clear, Silent
<1>3. Order'
  BY <1>1 DEF FwdInv, Order
<1>4. Path'
  BY <1>1, <1>2 DEF FwdInv, Path
<1>5. Eof'
  BY <1>1, <1>2 DEF FwdInv, Eof
<1> QED BY <1>3, <1>4, <1>5 DEF FwdInv

(* The copier B2 of the target's node.                                     *)
LEMMA ReadsB2 ==
  ASSUME ChType, RestType, FwdInv, ReadChunk("B2")
  PROVE  FwdInv'
<1>1. /\ ch[SF].buf # <<>> /\ ~ch[SF].shut /\ ch' = [ch EXCEPT ![SF].buf = Tail(@)]
      /\ hold' = [hold EXCEPT !["B2"] = Head(ch[SF].buf)] /\ pc["B2"] = "read"
  BY Names DEF ReadChunk, Readable, Shut
<1>2. ch'[SF] = [ch[SF] EXCEPT !.buf = Tail(ch[SF].buf)] /\ ch'[AF] = ch[AF] /\ ch'[TF] = ch[TF]
  BY <1>1, Names, TakeType, ZenonT(60)
<1>3. ch'[SF].buf = Tail(ch[SF].buf) /\ ch'[SF].fin = ch[SF].fin /\ ch'[SF].shut = ch[SF].shut
  BY <1>2, FlowTypes, Names DEF ChanState
<1>4. PICK next \in {"write", "writeLast"} :
        /\ pc' = [pc EXCEPT !["B2"] = next]
        /\ next = "writeLast" => Len(ch[SF].buf) = 1 /\ ch[SF].fin
  BY Names, ZenonT(60) DEF ReadChunk, Ended
<1>5. /\ pc'["B2"] = next /\ pc'["A1"] = pc["A1"]
      /\ hold'["B2"] = Head(ch[SF].buf) /\ hold'["A1"] = hold["A1"]
  BY <1>1, <1>4, Names DEF RestType
<1>6. next = "writeLast" => ch'[SF].buf = <<>> /\ ch'[SF].fin
  BY <1>1, <1>3, <1>4, FlowTypes, LastTaken, Names, ZenonT(60)
<1>7. UNCHANGED <<broken, hA, hB, sent, got, ended>>
  BY DEF ReadChunk
<1>8. Order'
  BY <1>1, <1>2, <1>3, <1>5, <1>6, <1>7 DEF FwdInv, Order
<1>9. Clear' = Clear /\ (Silent' <=> Silent)
  BY <1>1, <1>2, <1>3, <1>7 DEF Clear, Silent
<1>10. Flow => Flow'
  <2>1. Held("B2") = 0 /\ Held("B2")' = 1 /\ Held("A1")' = Held("A1")
    BY <1>1, <1>5 DEF Held
  <2> QED BY <1>1, <1>2, <1>3, <1>5, <1>7, <2>1, FlowNext, ZenonT(60) DEF Flow
<1>11. Path'
  BY <1>1, <1>2, <1>3, <1>5, <1>9, <1>10 DEF FwdInv, Path
<1>12. Eof'
  BY <1>7, <1>9 DEF FwdInv, Eof
<1> QED BY <1>8, <1>11, <1>12 DEF FwdInv

LEMMA EndsB2 ==
  ASSUME ChType, RestType, FwdInv, ReadEnd("B2")
  PROVE  FwdInv'
<1>1. pc["B2"] = "read" /\ pc'["B2"] = "exit" /\ pc'["A1"] = pc["A1"]
  BY Names, ZenonT(60) DEF ReadEnd, RestType
<1>2. UNCHANGED <<ch, broken, hold, hA, hB, sent, got, ended>>
  BY DEF ReadEnd
<1>3. ~ch[SF].shut
  BY <1>1 DEF FwdInv, Order
<1>4. Clear => ch[SF].buf = <<>> /\ ch[SF].fin
  BY <1>3, Names, ZenonT(60) DEF ReadEnd, AtEnd, Broken, Shut, Clear
<1>5. Clear => ch[SF].buf = <<>> /\ ch[AF].buf = <<>> /\ pc["A1"] = "done" /\ Silent
  BY <1>3, <1>4 DEF FwdInv, Order, Path
<1>6. Order'
  BY <1>1, <1>2, <1>3, ZenonT(60) DEF FwdInv, Order
<1>7. (Flow => Flow') /\ (Clear' <=> Clear) /\ (Silent' <=> Silent)
  BY <1>1, <1>2 DEF Flow, Held, Clear, Silent
<1>8. Path'
  BY <1>1, <1>2, <1>3, <1>5, <1>7 DEF FwdInv, Path
<1>9. Eof'
  BY <1>2, <1>7 DEF FwdInv, Eof
<1> QED BY <1>6, <1>8, <1>9 DEF FwdInv

LEMMA WritesB2 ==
  ASSUME ChType, RestType, FwdInv, WriteChunk("B2") \/ WriteError("B2")
  PROVE  FwdInv'
<1>1. /\ pc["B2"] \in {"write", "writeLast", "stuck"} /\ hold' = [hold EXCEPT !["B2"] = NoChunk]
      /\ UNCHANGED <<hA, hB, sent, got, ended>>
  BY DEF WriteChunk, WriteError
<1>2. PICK next \in {"read", "exit"} : /\ pc' = [pc EXCEPT !["B2"] = next]
                                       /\ next = "exit" => \/ pc["B2"] = "writeLast"
                                                           \/ WriteFails(TF) /\ UNCHANGED <<ch, broken>>
  BY Names DEF WriteChunk, WriteError
<1>3. pc'["B2"] = next /\ pc'["A1"] = pc["A1"] /\ hold'["A1"] = hold["A1"]
  BY <1>1, <1>2, Names DEF RestType
<1>4. ~ch[TF].fin /\ ~ch[SF].shut
  BY <1>1 DEF FwdInv, Order
<1>5. Held("B2") = 1 /\ Held("B2")' = 0 /\ Held("A1")' = Held("A1")
  BY <1>1, <1>3 DEF Held
<1>6. CASE ch' = [ch EXCEPT ![TF].buf = Append(@, hold["B2"])] /\ ~ch[TF].shut /\ UNCHANGED broken
           /\ ~WriteFails(TF)
  <2>1. ch' = [ch EXCEPT ![TF] = [ch[TF] EXCEPT !.buf = Append(ch[TF].buf, hold["B2"])]]
    BY <1>6 DEF ChType
  <2>2. /\ ch'[TF] = [ch[TF] EXCEPT !.buf = Append(ch[TF].buf, hold["B2"])]
        /\ ch'[AF] = ch[AF] /\ ch'[SF] = ch[SF]
    BY <2>1, Names DEF ChType
  <2>3. /\ ch'[TF].buf = Append(ch[TF].buf, hold["B2"])
        /\ ch'[TF].fin = ch[TF].fin /\ ch'[TF].shut = ch[TF].shut
    BY <2>2, FlowTypes, Names DEF ChanState
  <2>4. next = "exit" => pc["B2"] = "writeLast"
    BY <1>2, <1>6
  <2>5. Order'
    BY <1>1, <1>3, <1>4, <1>6, <2>2, <2>3 DEF FwdInv, Order
  <2>6. (Clear' <=> Clear) /\ (Silent' <=> Silent)
    BY <1>6, <2>2, <2>3 DEF Clear, Silent
  <2>7. Flow => Flow'
    BY <1>1, <1>3, <1>5, <2>2, <2>3, FlowNext DEF Flow
  <2>8. next = "exit" /\ Clear => ch[SF].buf = <<>> /\ ch[AF].buf = <<>> /\ pc["A1"] = "done" /\ Silent
    BY <1>4, <2>4 DEF FwdInv, Order, Path
  <2>9. Path'
    BY <1>1, <1>3, <1>4, <2>2, <2>6, <2>7, <2>8 DEF FwdInv, Path
  <2>10. Eof'
    BY <1>1, <1>6, <2>6 DEF FwdInv, Eof
  <2> QED BY <2>5, <2>9, <2>10 DEF FwdInv
<1>7. CASE UNCHANGED ch /\ broken \subseteq broken' /\ ~Clear
  <2>1. Order'
    BY <1>1, <1>3, <1>4, <1>7 DEF FwdInv, Order
  <2>2. ~Clear' /\ (Silent' <=> Silent)
    BY <1>7 DEF Clear, Silent
  <2>3. Path'
    BY <2>2 DEF Path
  <2>4. Eof'
    BY <1>1, <1>7, <2>2 DEF FwdInv, Eof
  <2> QED BY <2>1, <2>3, <2>4 DEF FwdInv
<1>8. \/ /\ ch' = [ch EXCEPT ![TF].buf = Append(@, hold["B2"])] /\ ~ch[TF].shut /\ UNCHANGED broken
         /\ ~WriteFails(TF)
      \/ UNCHANGED ch /\ broken \subseteq broken' /\ ~Clear
  BY <1>4, Names DEF WriteChunk, WriteError, WriteOk, WriteFails, Ended, Broken, Shut, Clear
<1> QED BY <1>6, <1>7, <1>8

(* The closes.  Closing the client's socket shuts its way to A1: what it   *)
(* held is lost, and the socket reset.                                     *)
LEMMA ClientShut ==
  ASSUME ChType, RestType, FwdInv, Shutted(ch, ch', AF), ch'[TF] = ch[TF],
         ch'[SF] = ch[SF] \/ (Finned(ch, ch', SF) /\ pc["A1"] = "done"),
         SameEnds, SameCopiers, hB' = hB,
         broken \subseteq broken', ch[AF].buf # <<>> => "app" \in broken'
  PROVE  FwdInv'
<1>1. ch'[SF].buf = ch[SF].buf /\ ch'[SF].shut = ch[SF].shut
      /\ (ch'[SF].fin => ch[SF].fin \/ pc["A1"] = "done")
  BY DEF Finned
<1>2. Order'
  <2>1. \A c \in {AF, SF, TF} : ch'[c].shut => ch'[c].buf = <<>>
    BY <1>1, ZenonT(60) DEF FwdInv, Order, Shutted
  <2>2. pc["A1"] = "writeLast" => ch'[AF].buf = <<>> /\ ch'[AF].fin
    BY DEF FwdInv, Order, Shutted
  <2>3. pc["B2"] = "writeLast" => ch'[SF].buf = <<>> /\ ch'[SF].fin
    BY Zenon DEF FwdInv, Order, Finned
  <2>4. ch'[SF].fin => pc["A1"] = "done"
    BY <1>1, ZenonT(60) DEF FwdInv, Order
  <2>5. ch'[SF].shut => hB = "returned"
    BY <1>1 DEF FwdInv, Order
  <2> QED BY <2>1, <2>2, <2>3, <2>4, <2>5, ZenonT(60) DEF FwdInv, Order, SameCopiers
<1>3. Silent' /\ (Clear' => Clear /\ ch'[AF].buf = ch[AF].buf)
  BY Zenon DEF Silent, Clear, Shutted
<1>4. ch'[AF].buf = ch[AF].buf => Flow' = Flow
  BY <1>1, Zenon DEF Flow, Held, SameEnds, SameCopiers
<1>5. Path'
  BY <1>1, <1>3, <1>4, ZenonT(60) DEF FwdInv, Path, SameCopiers
<1>6. Eof'
  BY <1>3, ZenonT(60) DEF FwdInv, Eof, SameEnds
<1> QED BY <1>2, <1>5, <1>6 DEF FwdInv

LEMMA CloseClient ==
  ASSUME ChType, RestType, FwdInv, Close(OutOf["A2"]), SameEnds, SameCopiers, hB' = hB
  PROVE  FwdInv'
<1>1. OutOf["A2"] = <<"app", "bwd">> /\ <<"app", Back("bwd")>> = AF
  BY DEF OutOf, Back, AF
<1>2. ch' = Closed(ch, <<"app", "bwd">>) /\ broken' = broken \cup BrokenByClose(<<"app", "bwd">>)
  BY <1>1 DEF Close
<1>3. Shutted(ch, ch', AF) /\ ch'[SF] = ch[SF] /\ ch'[TF] = ch[TF]
  BY <1>2, CloseFwd, ZenonT(60) DEF ChType
<1>4. ch[AF].buf # <<>> => "app" \in BrokenByClose(<<"app", "bwd">>)
  BY <1>1 DEF BrokenByClose
<1> QED BY <1>2, <1>3, <1>4, ClientShut

LEMMA ExitKeeps ==
  ASSUME ChType, RestType, FwdInv, A1Exit \/ A2Exit \/ B1Exit \/ B2Exit
  PROVE  FwdInv'
<1>1. CASE A2Exit
  <2>1. SameEnds /\ SameCopiers /\ hB' = hB /\ Close(OutOf["A2"])
    BY <1>1, Names, ZenonT(60) DEF A2Exit, SameEnds, SameCopiers, RestType
  <2> QED BY <2>1, CloseClient
<1>2. CASE B1Exit
  <2>1. SameEnds /\ SameCopiers /\ SameChans /\ hB' = hB /\ broken' = broken
    BY <1>2, Names, ZenonT(60) DEF B1Exit, SameEnds, SameCopiers, SameChans, RestType
  <2> QED BY <2>1, AsideKeeps
<1>3. CASE A1Exit
  <2>1. ch' = Closed(ch, SF) /\ broken \subseteq broken'
    BY <1>3, Names, Zenon DEF A1Exit, Close
  <2>2. Finned(ch, ch', SF) /\ ch'[AF] = ch[AF] /\ ch'[TF] = ch[TF]
    BY <2>1, CloseFwd, Zenon DEF ChType
  <2>3. pc["A1"] = "exit" /\ pc'["A1"] = "done" /\ pc'["B2"] = pc["B2"]
    BY <1>3, Names, ZenonT(60) DEF A1Exit, RestType
  <2>4. UNCHANGED <<hold, hB, sent, got, ended>>
    BY <1>3 DEF A1Exit
  <2>5. Order'
    BY <2>2, <2>3, <2>4, ZenonT(60) DEF FwdInv, Order, Finned
  <2>6. (Silent' <=> Silent) /\ (Clear' => Clear)
    BY <2>1, <2>2 DEF Silent, Clear
  <2>7. Flow => Flow'
    BY <2>2, <2>3, <2>4, ZenonT(60) DEF Flow, Held, Finned
  <2>8. Path'
    BY <2>2, <2>3, <2>6, <2>7 DEF FwdInv, Path, Finned
  <2>9. Eof'
    BY <2>1, <2>4, <2>6 DEF FwdInv, Eof
  <2> QED BY <2>5, <2>8, <2>9 DEF FwdInv
<1>4. CASE B2Exit
  <2>1. ch' = Closed(ch, TF) /\ broken \subseteq broken'
    BY <1>4, Names, ZenonT(60) DEF B2Exit, Close
  <2>2. Finned(ch, ch', TF) /\ ch'[AF] = ch[AF] /\ ch'[SF] = ch[SF]
    BY <2>1, CloseFwd, ZenonT(60) DEF ChType
  <2>3. pc["B2"] = "exit" /\ pc'["B2"] = "done" /\ pc'["A1"] = pc["A1"]
    BY <1>4, Names, ZenonT(60) DEF B2Exit, RestType
  <2>4. UNCHANGED <<hold, hB, sent, got, ended>>
    BY <1>4 DEF B2Exit
  <2>5. Order'
    BY <2>2, <2>3, <2>4, ZenonT(60) DEF FwdInv, Order, Finned
  <2>6. (Silent' <=> Silent) /\ (Clear' => Clear)
    BY <2>1, <2>2 DEF Silent, Clear, Finned
  <2>7. (Flow => Flow') /\ ~ch[SF].shut
    BY <2>2, <2>3, <2>4, ZenonT(60) DEF Flow, Held, Finned, FwdInv, Order
  <2>8. Path'
    BY <2>2, <2>3, <2>6, <2>7, ZenonT(60) DEF FwdInv, Path
  <2>9. Eof'
    BY <2>1, <2>4, <2>6 DEF FwdInv, Eof
  <2> QED BY <2>5, <2>8, <2>9 DEF FwdInv
<1> QED BY <1>1, <1>2, <1>3, <1>4

LEMMA HandlerKeeps ==
  ASSUME ChType, RestType, NotStarted, FwdInv,
         AOpens \/ AFails \/ BRejects \/ BDialFails \/ BDials \/ AReturns \/ BReturns
  PROVE  FwdInv'
<1>1. CASE AOpens
  <2>1. /\ pc["A1"] = "off" /\ pc["B2"] = "off" /\ pc'["A1"] = "read" /\ pc'["B2"] = "off"
        /\ hB = "none" /\ hB' = "new" /\ UNCHANGED <<ch, broken, hold, sent, got, ended>>
    BY <1>1, Names, ZenonT(60) DEF AOpens, NotStarted, RestType
  <2>2. Order'
    BY <2>1, ZenonT(60) DEF FwdInv, Order
  <2>3. Flow' = Flow /\ (Clear' <=> Clear) /\ (Silent' <=> Silent)
    BY <2>1 DEF Flow, Held, Clear, Silent
  <2>4. Path' /\ Eof'
    BY <2>1, <2>3 DEF FwdInv, Path, Eof
  <2> QED BY <2>2, <2>4 DEF FwdInv
<1>2. CASE AFails
  <2>1. SameEnds /\ SameCopiers /\ hB' = hB /\ Close(OutOf["A2"])
    BY <1>2 DEF AFails, SameEnds, SameCopiers
  <2> QED BY <2>1, CloseClient
<1>3. CASE BRejects
  <2>1. /\ pc["B2"] = "off" /\ hB' = "returned" /\ "stream" \in broken'
        /\ UNCHANGED <<ch, pc, hold, sent, got, ended>>
    BY <1>3 DEF BRejects, NotStarted
  <2>2. Order' /\ Path' /\ Eof'
    BY <2>1, ZenonT(60) DEF FwdInv, Order, Path, Eof, Clear
  <2> QED BY <2>2 DEF FwdInv
<1>4. CASE BDialFails
  <2>1. /\ pc["B2"] = "off" /\ hB' = "returned" /\ broken \subseteq broken'
        /\ ch' = Closed(ch, <<"stream", "bwd">>) /\ UNCHANGED <<pc, hold, sent, got, ended>>
    BY <1>4, Zenon DEF BDialFails, NotStarted, Close, OutOf
  <2>2. Shutted(ch, ch', SF) /\ ch'[AF] = ch[AF] /\ ch'[TF] = ch[TF]
    BY <2>1, CloseFwd, ZenonT(60) DEF ChType
  <2>3. Order'
    BY <2>1, <2>2, ZenonT(60) DEF FwdInv, Order, Shutted
  <2>4. Path'
    BY <2>1, <2>2, ZenonT(60) DEF Path, Shutted
  <2>5. Eof'
    BY <2>1, <2>2, ZenonT(60) DEF FwdInv, Eof, Silent
  <2> QED BY <2>3, <2>4, <2>5 DEF FwdInv
<1>5. CASE BDials
  <2>1. /\ pc["B2"] = "off" /\ pc'["A1"] = pc["A1"] /\ pc'["B2"] = "read" /\ hB = "new"
        /\ hB' = "open" /\ UNCHANGED <<ch, broken, hold, sent, got, ended>>
    BY <1>5, Names, ZenonT(60) DEF BDials, NotStarted, RestType
  <2>2. Order'
    BY <2>1, ZenonT(60) DEF FwdInv, Order
  <2>3. Flow' = Flow /\ (Clear' <=> Clear) /\ (Silent' <=> Silent)
    BY <2>1 DEF Flow, Held, Clear, Silent
  <2>4. Path' /\ Eof'
    BY <2>1, <2>3 DEF FwdInv, Path, Eof
  <2> QED BY <2>2, <2>4 DEF FwdInv
<1>6. CASE AReturns
  <2>1. /\ pc["A1"] = "done" /\ ch' = Closed(Closed(ch, SF), <<"app", "bwd">>)
        /\ broken' = broken \cup BrokenByClose(<<"app", "bwd">>)
        /\ SameEnds /\ SameCopiers /\ hB' = hB
    BY <1>6, Names, ZenonT(60) DEF AReturns, OutOf, SameEnds, SameCopiers
  <2> DEFINE g == Closed(ch, SF)
  <2>2. g \in [Channels -> ChanState] /\ Finned(ch, g, SF) /\ g[AF] = ch[AF] /\ g[TF] = ch[TF]
    BY CloseFwd, ZenonT(60) DEF ChType
  <2> HIDE DEF g
  <2>3. ch' = Closed(g, <<"app", "bwd">>)
    BY <2>1 DEF g
  <2>4. Shutted(g, ch', AF) /\ ch'[SF] = g[SF] /\ ch'[TF] = g[TF]
    BY <2>2, <2>3, CloseFwd
  <2>5. Shutted(ch, ch', AF) /\ Finned(ch, ch', SF) /\ ch'[TF] = ch[TF]
    BY <2>2, <2>4 DEF Shutted, Finned
  <2>6. ch[AF].buf # <<>> => "app" \in BrokenByClose(<<"app", "bwd">>)
    BY DEF BrokenByClose, Back, AF
  <2> QED BY <2>1, <2>5, <2>6, ClientShut, ZenonT(60)
<1>7. CASE BReturns
  <2>1. /\ pc["B2"] = "done" /\ ch' = Closed(Closed(ch, <<"stream", "bwd">>), TF)
        /\ broken \subseteq broken' /\ hB' = "returned"
        /\ UNCHANGED <<pc, hold, sent, got, ended>>
    BY <1>7, Names, ZenonT(60) DEF BReturns, OutOf
  <2> DEFINE g == Closed(ch, <<"stream", "bwd">>)
  <2>2. g \in [Channels -> ChanState] /\ Shutted(ch, g, SF) /\ g[AF] = ch[AF] /\ g[TF] = ch[TF]
    BY CloseFwd, ZenonT(60) DEF ChType
  <2> HIDE DEF g
  <2>3. ch' = Closed(g, TF)
    BY <2>1 DEF g
  <2>4. Finned(g, ch', TF) /\ ch'[AF] = g[AF] /\ ch'[SF] = g[SF]
    BY <2>2, <2>3, CloseFwd
  <2>5. Finned(ch, ch', TF) /\ ch'[AF] = ch[AF] /\ Shutted(ch, ch', SF)
    BY <2>2, <2>4 DEF Shutted, Finned
  <2>6. Order'
    BY <2>1, <2>5 DEF FwdInv, Order, Shutted, Finned
  <2>7. (Silent' <=> Silent) /\ (Clear' => Clear)
    BY <2>1, <2>5, Zenon DEF Silent, Clear, Finned
  <2>8. Clear => ch'[SF].buf = ch[SF].buf
    BY <2>1, <2>5, ZenonT(60) DEF FwdInv, Path, Shutted
  <2>9. Clear /\ Flow => Flow'
    BY <2>1, <2>5, <2>8, ZenonT(60) DEF Flow, Held, Finned
  <2>10. Path'
    BY <2>1, <2>5, <2>7, <2>8, <2>9, ZenonT(60) DEF FwdInv, Path
  <2>11. Eof'
    BY <2>1, <2>7 DEF FwdInv, Eof
  <2> QED BY <2>6, <2>10, <2>11 DEF FwdInv
<1> QED BY <1>1, <1>2, <1>3, <1>4, <1>5, <1>6, <1>7

(* The applications and the network.                                       *)
LEMMA SendKeeps ==
  ASSUME ChType, RestType, FwdInv, Send("app")
  PROVE  FwdInv'
<1>1. /\ ~ch[AF].fin /\ "app" \notin broken /\ sent'["app"] = sent["app"] + 1
      /\ UNCHANGED <<pc, hold, hA, hB, got, ended>>
  BY Names DEF Send, WriteOk, Ended, Broken, RestType
<1>2. CASE ch[AF].shut /\ "app" \in broken' /\ UNCHANGED ch
  BY <1>1, <1>2, ZenonT(60) DEF FwdInv, Order, Path, Eof, Clear
<1>3. CASE ~ch[AF].shut /\ ch' = [ch EXCEPT ![AF].buf = Append(@, sent["app"] + 1)] /\ UNCHANGED broken
  <2>1. ch' = [ch EXCEPT ![AF] = [ch[AF] EXCEPT !.buf = Append(ch[AF].buf, sent["app"] + 1)]]
    BY <1>3 DEF ChType
  <2>2. /\ ch'[AF] = [ch[AF] EXCEPT !.buf = Append(ch[AF].buf, sent["app"] + 1)]
        /\ ch'[SF] = ch[SF] /\ ch'[TF] = ch[TF]
    BY <2>1, Names DEF ChType
  <2>3. /\ ch'[AF].buf = Append(ch[AF].buf, sent["app"] + 1)
        /\ ch'[AF].fin = ch[AF].fin /\ ch'[AF].shut = ch[AF].shut
    BY <2>2, FlowTypes, Names DEF ChanState
  <2>4. ~Silent /\ (Clear' <=> Clear)
    BY <1>1, <1>3, <2>2 DEF Silent, Clear
  <2>5. Order'
    BY <1>1, <1>3, <2>2, <2>3 DEF FwdInv, Order
  <2>6. Flow => Flow'
    BY <1>1, <2>2, <2>3, FlowNext DEF Flow, Held
  <2>7. Path'
    BY <1>1, <2>2, <2>4, <2>6 DEF FwdInv, Path
  <2>8. Eof'
    BY <1>1, <1>3, <2>4 DEF FwdInv, Eof
  <2> QED BY <2>5, <2>7, <2>8 DEF FwdInv
<1>4. \/ ch[AF].shut /\ "app" \in broken' /\ UNCHANGED ch
      \/ ~ch[AF].shut /\ ch' = [ch EXCEPT ![AF].buf = Append(@, sent["app"] + 1)] /\ UNCHANGED broken
  BY Names DEF Send, WriteOk, Shut
<1> QED BY <1>2, <1>3, <1>4

LEMMA ReceiveKeeps ==
  ASSUME ChType, RestType, FwdInv, Receive("tgt")
  PROVE  FwdInv'
<1>1. /\ ended["tgt"] = "no" /\ ch[TF].buf # <<>> /\ ~ch[TF].shut
      /\ ch' = [ch EXCEPT ![TF].buf = Tail(@)]
      /\ got'["tgt"] = Append(got["tgt"], Head(ch[TF].buf))
      /\ UNCHANGED <<broken, pc, hold, hA, hB, sent, ended>>
  BY Names DEF Receive, Readable, Shut, RestType
<1>2. ch'[TF] = [ch[TF] EXCEPT !.buf = Tail(ch[TF].buf)] /\ ch'[AF] = ch[AF] /\ ch'[SF] = ch[SF]
  BY <1>1, Names, TakeType, ZenonT(60)
<1>3. ch'[TF].buf = Tail(ch[TF].buf) /\ ch'[TF].fin = ch[TF].fin /\ ch'[TF].shut = ch[TF].shut
  BY <1>2, FlowTypes, Names DEF ChanState
<1>4. Order'
  BY <1>1, <1>2, <1>3 DEF FwdInv, Order
<1>5. (Silent' <=> Silent) /\ (Clear' <=> Clear)
  BY <1>1, <1>2, <1>3 DEF Silent, Clear
<1>6. Flow => Flow'
  BY <1>1, <1>2, <1>3, FlowNext, ZenonT(60) DEF Flow, Held
<1>7. Path' /\ Eof'
  BY <1>1, <1>2, <1>5, <1>6 DEF FwdInv, Path, Eof
<1> QED BY <1>4, <1>7 DEF FwdInv

(* The target sees a clean end only when B2 closed its socket, after all.  *)
LEMMA SeesEndKeeps ==
  ASSUME ChType, RestType, FwdInv, SeesEnd("tgt")
  PROVE  FwdInv'
<1>1. UNCHANGED <<ch, broken, pc, hold, hA, hB, sent, got>>
  BY DEF SeesEnd
<1>2. Order'
  BY <1>1, ZenonT(60) DEF FwdInv, Order
<1>3. Path' /\ (Silent' <=> Silent)
  BY <1>1, ZenonT(60) DEF FwdInv, Path, Flow, Held, Silent, Clear
<1>4. ASSUME ended'["tgt"] = "eof", broken \subseteq {"tgt"}
      PROVE  Silent /\ got["tgt"] = [i \in 1..sent["app"] |-> i]
  <2>1. /\ "tgt" \notin broken /\ ~ch[TF].shut /\ ch[TF].buf = <<>> /\ ch[TF].fin
    <3>1. ended' = [ended EXCEPT !["tgt"] = IF "tgt" \in broken \/ ch[TF].shut THEN "reset" ELSE "eof"]
      BY Names, ZenonT(60) DEF SeesEnd, Broken, Shut
    <3>2. "tgt" \in DOMAIN ended
      BY Names DEF RestType
    <3>3. ~("tgt" \in broken \/ ch[TF].shut)
      BY <1>4, <3>1, <3>2
    <3>4. ch[TF].shut \/ "tgt" \in broken \/ (ch[TF].buf = <<>> /\ ch[TF].fin)
      BY Names, Zenon DEF SeesEnd, AtEnd, Broken, Shut
    <3> QED BY <3>3, <3>4
  <2>2. Clear
    BY <1>4, <2>1, ZenonT(60) DEF Clear
  <2>3. pc["B2"] = "done"
    BY <2>1, ZenonT(60) DEF FwdInv, Order
  <2>4. Flow /\ Silent /\ ch[SF].buf = <<>> /\ ch[AF].buf = <<>> /\ pc["A1"] = "done"
    BY <2>2, <2>3 DEF FwdInv, Path
  <2>5. FlowOf(got["tgt"], <<>>, 0, hold["B2"], <<>>, 0, hold["A1"], <<>>, sent["app"])
    BY <2>1, <2>3, <2>4, ZenonT(60) DEF Flow, Held
  <2> QED BY <2>4, <2>5, FlowDone, FlowTypes, ZenonT(60)
<1>5. Eof'
  BY <1>1, <1>3, <1>4 DEF Eof
<1> QED BY <1>2, <1>3, <1>5 DEF FwdInv

LEMMA ClientLeaves ==
  ASSUME ChType, RestType, FwdInv, HalfClose("app") \/ Leave("app")
  PROVE  FwdInv'
<1>1. /\ broken \subseteq broken' /\ UNCHANGED <<pc, hold, hA, hB, sent, got, ended>>
  BY DEF HalfClose, Leave, Close
<1>2. Finned(ch, ch', AF) /\ ch'[SF] = ch[SF] /\ ch'[TF] = ch[TF]
  <2>1. CASE Leave("app")
    <3>1. ch' = Closed(ch, AF)
      BY <2>1, Names, ZenonT(60) DEF Leave, Close
    <3> QED BY <3>1, CloseFwd DEF ChType
  <2>2. CASE HalfClose("app")
    <3>1. ch' = [ch EXCEPT ![AF] = [ch[AF] EXCEPT !.fin = TRUE]]
      BY <2>2, Names DEF HalfClose, ChType
    <3>2. ch'[AF] = [ch[AF] EXCEPT !.fin = TRUE] /\ ch'[SF] = ch[SF] /\ ch'[TF] = ch[TF]
      BY <3>1, Names DEF ChType
    <3> QED BY <3>2, FlowTypes, Names DEF Finned, ChanState
  <2> QED BY <2>1, <2>2
<1>3. Order'
  BY <1>1, <1>2, ZenonT(60) DEF FwdInv, Order, Finned
<1>4. Silent' /\ (Clear' => Clear) /\ Flow' = Flow
  BY <1>1, <1>2, Zenon DEF Silent, Clear, Flow, Held, Finned
<1>5. Path' /\ Eof'
  BY <1>1, <1>2, <1>4, ZenonT(60) DEF FwdInv, Path, Eof, Finned
<1> QED BY <1>3, <1>5 DEF FwdInv

LEMMA TargetLeaves ==
  ASSUME ChType, RestType, FwdInv, Leave("tgt")
  PROVE  FwdInv'
<1>1. /\ ch' = Closed(ch, <<"tgt", "bwd">>) /\ broken \subseteq broken'
      /\ UNCHANGED <<pc, hold, hA, hB, sent, got, ended>>
  BY Zenon DEF Leave, Close, EndOut
<1>2. Shutted(ch, ch', TF) /\ ch'[AF] = ch[AF] /\ ch'[SF] = ch[SF]
  BY <1>1, CloseFwd, Zenon DEF ChType
<1>3. Order'
  BY <1>1, <1>2, ZenonT(60) DEF FwdInv, Order, Shutted
<1>4. ~Clear' /\ (Silent' <=> Silent)
  BY <1>2 DEF Silent, Clear, Shutted
<1>5. Path' /\ Eof'
  BY <1>1, <1>4 DEF FwdInv, Path, Eof
<1> QED BY <1>3, <1>5 DEF FwdInv

LEMMA AsideSteps ==
  ASSUME ChType, RestType, FwdInv,
         Copy("A2") \/ Copy("B1") \/ Send("tgt") \/ Receive("app") \/ SeesEnd("app")
           \/ HalfClose("tgt") \/ LoseStream
  PROVE  FwdInv'
<1>1. ASSUME NEW c \in {"A2", "B1"}, Copy(c) PROVE FwdInv'
  <2>1. InOf[c] \notin {AF, SF, TF} /\ OutOf[c] \notin {AF, SF, TF} /\ c \in Copiers
    BY Names, Zenon
  <2>2. SameChans /\ broken \subseteq broken'
    BY <1>1, <2>1, Names, ZenonT(60) DEF Copy, ReadChunk, ReadEnd, WriteChunk, WriteStuck, WriteError, WriteOk, SameChans, ChType
  <2>3. SameCopiers /\ SameEnds /\ hB' = hB
    BY <1>1, Names DEF Copy, ReadChunk, ReadEnd, WriteChunk, WriteStuck, WriteError, SameCopiers, SameEnds, RestType
  <2> QED BY <2>2, <2>3, AsideKeeps
<1>2. CASE Send("tgt") \/ HalfClose("tgt")
  <2>1. SameChans /\ broken \subseteq broken'
    BY <1>2, Names DEF Send, HalfClose, WriteOk, SameChans, ChType
  <2>2. SameCopiers /\ SameEnds /\ hB' = hB
    BY <1>2, Names DEF Send, HalfClose, SameCopiers, SameEnds, RestType
  <2> QED BY <2>1, <2>2, AsideKeeps
<1>3. CASE Receive("app") \/ SeesEnd("app") \/ LoseStream
  <2>1. SameChans /\ broken \subseteq broken'
    BY <1>3, Names DEF Receive, SeesEnd, LoseStream, SameChans, ChType
  <2>2. SameCopiers /\ SameEnds /\ hB' = hB
    BY <1>3, Names DEF Receive, SeesEnd, LoseStream, SameCopiers, SameEnds, RestType
  <2> QED BY <2>1, <2>2, AsideKeeps
<1> QED BY <1>1, <1>2, <1>3

LEMMA FwdStep ==
  ASSUME ChType, RestType, NotStarted, FwdInv, [PbNext]_pbVars
  PROVE  FwdInv'
<1>1. CASE UNCHANGED pbVars
  BY <1>1, AsideKeeps DEF pbVars, SameChans, SameEnds, SameCopiers
<1>2. ASSUME NEW c \in Copiers, Copy(c) PROVE FwdInv'
  <2>1. CASE c = "A1"
    BY <1>2, <2>1, ReadsA1, EndsA1, WritesA1, StuckA1 DEF Copy
  <2>2. CASE c = "B2"
    <3>1. ~WriteStuck("B2")
      BY Names DEF WriteStuck, WriteBlocks
    <3> QED BY <1>2, <2>2, <3>1, ReadsB2, EndsB2, WritesB2 DEF Copy
  <2> QED BY <1>2, <2>1, <2>2, AsideSteps DEF Copiers
<1>3. ASSUME NEW e \in Ends, Send(e) \/ Receive(e) \/ SeesEnd(e) \/ HalfClose(e) \/ Leave(e)
      PROVE  FwdInv'
  <2>1. CASE e = "app"
    BY <1>3, <2>1, SendKeeps, ClientLeaves, AsideSteps
  <2>2. CASE e = "tgt"
    BY <1>3, <2>2, ReceiveKeeps, SeesEndKeeps, TargetLeaves, AsideSteps
  <2> QED BY <2>1, <2>2 DEF Ends
<1> QED BY <1>1, <1>2, <1>3, ExitKeeps, HandlerKeeps, AsideSteps DEF PbNext, Program, Environment

LEMMA TunnelInitial == PbInit => TunnelInv
<1> SUFFICES ASSUME PbInit PROVE TunnelInv
  OBVIOUS
<1>1. NotStarted
  BY Names DEF PbInit, NotStarted
<1>2. /\ \A c \in {AF, SF, TF} : ch[c].buf = <<>> /\ ch[c].fin = FALSE /\ ch[c].shut = FALSE
      /\ pc["A1"] = "off" /\ pc["B2"] = "off" /\ hB = "none" /\ sent["app"] = 0
      /\ got["tgt"] = <<>> /\ ended["tgt"] = "no"
  BY Names, Zenon DEF PbInit
<1>3. Flow
  <2>1. FlowOf(<<>>, <<>>, 0, hold["B2"], <<>>, 0, hold["A1"], <<>>, 0)
    BY DEF FlowOf, Ramp
  <2> QED BY <1>2, <2>1, ZenonT(60) DEF Flow, Held
<1>4. FwdInv
  BY <1>2, <1>3 DEF FwdInv, Order, Path, Eof
<1> QED BY <1>1, <1>4, TypesInit DEF TunnelInv

(* A target that reads a clean end of file has received all the client     *)
(* sent, in order, unless the client's socket or the stream was reset, for *)
(* any sizes of messages and buffers: the copiers of handleP2x and         *)
(* handleTunnel write what they read before they close what they write to. *)
THEOREM TunnelIsSound == PbSpec => []TunnelSound
<1>1. TunnelInv /\ [PbNext]_pbVars => TunnelInv'
  <2> SUFFICES ASSUME TunnelInv, [PbNext]_pbVars PROVE TunnelInv'
    OBVIOUS
  <2>1. ChType /\ RestType /\ NotStarted /\ FwdInv
    BY TypesDef DEF TunnelInv
  <2>2. ChType' /\ RestType' /\ NotStarted' /\ FwdInv'
    BY <2>1, TypesStep, FwdStep
  <2>3. Types'
    BY <2>2 DEF Types, TypeOK, ChType, RestType, ChanState
  <2> QED BY <2>2, <2>3 DEF TunnelInv
<1>2. TunnelInv => TunnelSound
  BY DEF TunnelInv, Types, FwdInv, Eof, TunnelSound, RequestComplete
<1> QED BY <1>1, <1>2, TunnelInitial, PTL DEF PbSpec

=============================================================================

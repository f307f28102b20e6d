------------------------- MODULE IrohStreamsProofs -------------------------
(***************************************************************************)
(* StreamsSound for any number of streams and of calls.                    *)
(***************************************************************************)
EXTENDS IrohStreams, TLAPS

\* The provers tried, in this order, on a leaf that names none.
USE SMTT(20), ZenonT(20), SMTT(30), SMTT(60)

-----------------------------------------------------------------------------
(* Facts about sequences: their elements, length, head and tail, Append    *)
(* and concatenation.                                                      *)
LEMMA ElementOfSeq == \A S : \A q \in Seq(S) : \A i \in 1..Len(q) : q[i] \in S
OBVIOUS

LEMMA EmptySeq == \A S : /\ <<>> \in Seq(S) /\ Len(<<>>) = 0
                      /\ \A q \in Seq(S) : q # <<>> => Len(q) \in Nat \ {0}
OBVIOUS

LEMMA LenProperties ==
  \A S : \A q \in Seq(S) : Len(q) \in Nat /\ q \in [1..Len(q) -> S] /\ DOMAIN q = 1..Len(q)
OBVIOUS

LEMMA SeqEqual ==
  \A S : \A q, r \in Seq(S) : Len(q) = Len(r) /\ (\A i \in 1..Len(q) : q[i] = r[i]) => q = r
OBVIOUS

LEMMA ConcatProperties ==
  \A S : \A q, r \in Seq(S) :
    /\ q \o r \in Seq(S) /\ Len(q \o r) = Len(q) + Len(r)
    /\ \A i \in 1..(Len(q) + Len(r)) : (q \o r)[i] = IF i <= Len(q) THEN q[i] ELSE r[i - Len(q)]
OBVIOUS

LEMMA ConcatEmptySeq == \A S : \A q \in Seq(S) : q \o <<>> = q /\ <<>> \o q = q
OBVIOUS

LEMMA HeadTailProperties ==
  \A S : \A q \in Seq(S) : q # <<>> =>
    /\ Head(q) \in S /\ Tail(q) \in Seq(S) /\ Len(Tail(q)) = Len(q) - 1
    /\ \A i \in 1..Len(Tail(q)) : Tail(q)[i] = q[i + 1]
OBVIOUS

LEMMA AppendProperties ==
  \A S : \A q \in Seq(S), e \in S :
    /\ Append(q, e) \in Seq(S) /\ Append(q, e) # <<>> /\ Len(Append(q, e)) = Len(q) + 1
    /\ \A i \in 1..Len(q) : Append(q, e)[i] = q[i]
    /\ Append(q, e)[Len(q) + 1] = e
OBVIOUS

LEMMA AppendIsConcat == \A S : \A q \in Seq(S), e \in S : Append(q, e) = q \o <<e>>
OBVIOUS

Datum == Streams \X Nat

Frame == [id : Nat, flag : {"DATA"}, data : Datum] \cup [id : Nat, flag : {"CLOSE", "RESET"}, data : {None}]

StrState ==
  [pc : {"free", "opening", "open", "queued", "removing"}, node : Nodes, id : Nat, peer : Nat, mgr : Nat,
   listed : BOOLEAN, closed : {"no", "self", "peer"}, reset : BOOLEAN, buf : Seq(Datum), wrote : Nat,
   got : Seq(Datum), reader : {"idle", "waits", "looks", "eof", "errclosed"}]

(* What a stream has received.                                             *)
In(s) == s.got \o s.buf

Types ==
  /\ str \in [Streams -> StrState]
  /\ mgr \in [Nodes -> [gen : Nat, next : Nat]]
  /\ accept \in [Nodes -> Seq(Streams)]
  /\ wire \in [Nodes -> Seq(Frame)]
  /\ lossy \in BOOLEAN
  /\ \A x \in Streams : str[x].pc = "free" => str[x] = NoStream
  /\ \A x \in Streams : str[x].pc = "opening" => ~str[x].listed /\ In(str[x]) = <<>>

(* The queue of AcceptStream.                                              *)
Queues ==
  /\ \A n \in Nodes : Len(accept[n]) <= AcceptCap
  /\ \A n \in Nodes : \A i \in 1..Len(accept[n]) : str[accept[n][i]].pc = "queued"
  /\ \A x \in Streams : str[x].pc = "queued" => \E n \in Nodes : \E i \in 1..Len(accept[n]) : accept[n][i] = x
  /\ \A m, n \in Nodes : \A i \in 1..Len(accept[m]), j \in 1..Len(accept[n]) :
       accept[m][i] = accept[n][j] => m = n /\ i = j

Calm == ~lossy /\ mgr["a"].gen = 0 /\ mgr["b"].gen = 0

Used(x) == str[x].pc # "free"

(* An id a manager has given out.                                          *)
Issued(n, id) == \E k \in Nat : k < mgr[n].next /\ id = 2 * k + OddBit(n)

Ids ==
  /\ \A x \in Streams : Used(x) => str[x].mgr = 0 /\ (Issued("a", str[x].id) \/ Issued("b", str[x].id))
  /\ \A x \in Streams : Used(x) /\ str[x].peer = 0 => Issued(str[x].node, str[x].id)
  /\ \A x, y \in Streams : Used(x) /\ Used(y) /\ str[x].peer = 0 /\ str[y].peer = 0 /\ str[x].id = str[y].id => x = y

(* The k-th chunk that stream w wrote is among the datagrams q.            *)
On(q, w, k) == \E i \in 1..Len(q) : q[i].flag = "DATA" /\ q[i].data = <<w, k>>

InOrder(q) ==
  \A i, j \in 1..Len(q) : i < j /\ q[i].flag = "DATA" /\ q[j].flag = "DATA" /\ q[i].data[1] = q[j].data[1]
    => q[i].data[2] < q[j].data[2]

(* Every chunk in q is one of r, with the same id.                         *)
From(q, r) == \A i \in 1..Len(q) : q[i].flag = "DATA" => \E j \in 1..Len(r) : r[j] = q[i]

(* Data on their way to n are of a stream of the other end, with its id,   *)
(* in the order in which it wrote them, and up to the last one.            *)
Sources ==
  \A n \in Nodes : \A i \in 1..Len(wire[n]) : wire[n][i].flag = "DATA" =>
    wire[n][i].data[1] \in Named(OtherEnd(n), wire[n][i].id)

UpToLast ==
  \A n \in Nodes, w \in Streams, k \in Nat : On(wire[n], w, k) =>
    k <= str[w].wrote /\ \A m \in Nat : k < m /\ m <= str[w].wrote => On(wire[n], w, m)

Wires == Sources /\ UpToLast /\ \A n \in Nodes : InOrder(wire[n])

(* A stream has only chunks that streams of its id at the other end wrote. *)
IsOf(x, d) == d[1] \in Named(OtherEnd(str[x].node), str[x].id) /\ d[2] <= str[d[1]].wrote

FromItsId == \A x \in Streams : \A i \in 1..Len(In(str[x])) : IsOf(x, In(str[x])[i])

Whole(x) == Used(x) /\ ~str[x].reset /\ Alone(x)

NoGap(q) == \A i \in 1..(Len(q) - 1) : q[i + 1] = <<q[i][1], q[i][2] + 1>>

Gapless == \A x \in Streams : Whole(x) => NoGap(In(str[x]))

(* What follows the last chunk a listed stream has is on the wire.         *)
Follows(x, d) == \A m \in Nat : On(wire[str[x].node], d[1], m) <=> d[2] < m /\ m <= str[d[1]].wrote

Rest ==
  \A x \in Streams : Whole(x) /\ str[x].listed /\ In(str[x]) # <<>> =>
    Follows(x, In(str[x])[Len(In(str[x]))])

Paired == Ids /\ Wires /\ FromItsId /\ Gapless /\ Rest

StreamsInv == Types /\ Queues /\ DispatchWakes /\ (Calm => Paired)

-----------------------------------------------------------------------------
(* Sequences of datagrams.                                                 *)
LEMMA FrameCases ==
  ASSUME NEW f \in Frame
  PROVE  /\ f.flag \in {"DATA", "CLOSE", "RESET"} /\ f.id \in Nat
         /\ f.flag = "DATA" => f.data \in Datum /\ f.data[1] \in Streams /\ f.data[2] \in Nat
                               /\ f.data = <<f.data[1], f.data[2]>>
BY DEF Frame, Datum

LEMMA Appended ==
  ASSUME NEW q \in Seq(Frame), NEW f \in Frame
  PROVE  /\ Append(q, f) \in Seq(Frame)
         /\ Len(Append(q, f)) = Len(q) + 1 /\ Len(q) \in Nat
         /\ Append(q, f)[Len(q) + 1] = f
         /\ \A i \in 1..Len(q) : Append(q, f)[i] = q[i] /\ q[i] \in Frame
BY AppendProperties, LenProperties, ElementOfSeq

LEMMA Popped ==
  ASSUME NEW q \in Seq(Frame), q # <<>>
  PROVE  /\ Tail(q) \in Seq(Frame) /\ Head(q) = q[1] /\ Head(q) \in Frame
         /\ Len(Tail(q)) = Len(q) - 1 /\ Len(q) \in Nat /\ Len(q) >= 1
         /\ \A i \in 1..(Len(q) - 1) : Tail(q)[i] = q[i + 1]
         /\ \A i \in 1..Len(q) : q[i] \in Frame
BY HeadTailProperties, LenProperties, ElementOfSeq, EmptySeq

(* A CLOSE or a RESET is sent, or received.                                *)
LEMMA AppendsOther ==
  ASSUME NEW q \in Seq(Frame), NEW f \in Frame, f.flag # "DATA"
  PROVE  /\ From(Append(q, f), q)
         /\ InOrder(q) => InOrder(Append(q, f))
         /\ \A w, k : On(Append(q, f), w, k) <=> On(q, w, k)
<1> DEFINE r == Append(q, f)
<1>1. /\ Len(r) = Len(q) + 1 /\ Len(q) \in Nat /\ r[Len(q) + 1] = f
      /\ \A i \in 1..Len(q) : r[i] = q[i]
  BY Appended
<1> HIDE DEF r
<1>2. \A i \in 1..Len(r) : r[i].flag = "DATA" => i \in 1..Len(q) /\ r[i] = q[i]
  BY <1>1
<1>3. \A i \in 1..Len(q) : i \in 1..Len(r) /\ r[i] = q[i]
  BY <1>1
<1>4. From(r, q)
  BY <1>2 DEF From
<1>5. InOrder(q) => InOrder(r)
  BY <1>2 DEF InOrder
<1>6. \A w, k : On(r, w, k) <=> On(q, w, k)
  BY <1>2, <1>3, SMTT(30) DEF On
<1> QED BY <1>4, <1>5, <1>6 DEF r

LEMMA PopsOther ==
  ASSUME NEW q \in Seq(Frame), q # <<>>, Head(q).flag # "DATA"
  PROVE  /\ From(Tail(q), q)
         /\ InOrder(q) => InOrder(Tail(q))
         /\ \A w, k : On(Tail(q), w, k) <=> On(q, w, k)
<1> DEFINE r == Tail(q)
<1>1. /\ Len(r) = Len(q) - 1 /\ Len(q) \in Nat /\ Len(q) >= 1 /\ q[1].flag # "DATA"
      /\ \A i \in 1..(Len(q) - 1) : r[i] = q[i + 1]
  BY Popped
<1> HIDE DEF r
<1>2. \A i \in 1..Len(r) : i + 1 \in 1..Len(q) /\ r[i] = q[i + 1]
  BY <1>1
<1>3. \A i \in 1..Len(q) : q[i].flag = "DATA" => i - 1 \in 1..Len(r) /\ r[i - 1] = q[i]
  <2> SUFFICES ASSUME NEW i \in 1..Len(q), q[i].flag = "DATA" PROVE i - 1 \in 1..Len(r) /\ r[i - 1] = q[i]
    OBVIOUS
  <2>1. i # 1
    BY <1>1
  <2>2. i - 1 \in 1..(Len(q) - 1) /\ (i - 1) + 1 = i
    BY <1>1, <2>1
  <2> QED BY <1>1, <2>2
<1>4. From(r, q)
  BY <1>2, Zenon DEF From
<1>5. ASSUME InOrder(q) PROVE InOrder(r)
  <2> SUFFICES ASSUME NEW i \in 1..Len(r), NEW j \in 1..Len(r), i < j, r[i].flag = "DATA", r[j].flag = "DATA",
                      r[i].data[1] = r[j].data[1]
               PROVE  r[i].data[2] < r[j].data[2]
    BY DEF InOrder
  <2>1. i + 1 \in 1..Len(q) /\ j + 1 \in 1..Len(q) /\ i + 1 < j + 1 /\ r[i] = q[i + 1] /\ r[j] = q[j + 1]
    BY <1>1, <1>2
  <2> QED BY <1>5, <2>1 DEF InOrder
<1>6. \A w, k : On(r, w, k) <=> On(q, w, k)
  <2> TAKE w, k
  <2>1. On(r, w, k) => On(q, w, k)
    BY <1>2 DEF On
  <2>2. On(q, w, k) => On(r, w, k)
    BY <1>3, SMTT(30) DEF On
  <2> QED BY <2>1, <2>2
<1> QED BY <1>4, <1>5, <1>6 DEF r

(* A chunk is sent.                                                        *)
LEMMA AppendsData ==
  ASSUME NEW q \in Seq(Frame), NEW f \in Frame, f.flag = "DATA"
  PROVE  /\ \A w, k : On(Append(q, f), w, k) <=> On(q, w, k) \/ f.data = <<w, k>>
         /\ InOrder(q) /\ (\A k \in Nat : On(q, f.data[1], k) => k < f.data[2]) => InOrder(Append(q, f))
<1> DEFINE r == Append(q, f)
<1>1. /\ Len(r) = Len(q) + 1 /\ Len(q) \in Nat /\ r[Len(q) + 1] = f
      /\ \A i \in 1..Len(q) : r[i] = q[i] /\ q[i] \in Frame
  BY Appended
<1> HIDE DEF r
<1>2. \A i \in 1..Len(q) : i \in 1..Len(r) /\ r[i] = q[i]
  BY <1>1
<1>3. \A i \in 1..Len(r) : i \in 1..Len(q) \/ i = Len(q) + 1
  BY <1>1
<1>4. \A w, k : On(r, w, k) <=> On(q, w, k) \/ f.data = <<w, k>>
  <2> TAKE w, k
  <2>1. On(q, w, k) => On(r, w, k)
    BY <1>2 DEF On
  <2>2. f.data = <<w, k>> => On(r, w, k)
    <3>1. Len(q) + 1 \in 1..Len(r)
      BY <1>1
    <3> QED BY <1>1, <3>1 DEF On
  <2>3. On(r, w, k) => On(q, w, k) \/ f.data = <<w, k>>
    BY <1>1, <1>2, <1>3 DEF On
  <2> QED BY <2>1, <2>2, <2>3
<1>5. ASSUME InOrder(q), \A k \in Nat : On(q, f.data[1], k) => k < f.data[2] PROVE InOrder(r)
  <2> SUFFICES ASSUME NEW i \in 1..Len(r), NEW j \in 1..Len(r), i < j, r[i].flag = "DATA", r[j].flag = "DATA",
                      r[i].data[1] = r[j].data[1]
               PROVE  r[i].data[2] < r[j].data[2]
    BY DEF InOrder
  <2>1. i \in 1..Len(q)
    BY <1>1
  <2>2. CASE j \in 1..Len(q)
    BY <1>1, <1>5, <2>1, <2>2 DEF InOrder
  <2>3. CASE j = Len(q) + 1
    <3>1. q[i].data = <<q[i].data[1], q[i].data[2]>> /\ q[i].data[2] \in Nat /\ q[i].flag = "DATA"
      BY <1>1, <2>1, FrameCases
    <3>2. On(q, q[i].data[1], q[i].data[2])
      BY <2>1, <3>1 DEF On
    <3>3. r[i] = q[i] /\ r[j] = f /\ q[i].data[1] = f.data[1]
      BY <1>1, <2>1, <2>3
    <3>4. On(q, f.data[1], q[i].data[2])
      BY <3>2, <3>3
    <3> QED BY <1>5, <3>1, <3>3, <3>4
  <2> QED BY <1>3, <2>2, <2>3
<1> QED BY <1>4, <1>5 DEF r

(* A chunk is received.                                                    *)
LEMMA PopsData ==
  ASSUME NEW q \in Seq(Frame), q # <<>>, Head(q).flag = "DATA", InOrder(q)
  PROVE  LET w == Head(q).data[1]
             k == Head(q).data[2]
         IN  /\ From(Tail(q), q) /\ InOrder(Tail(q)) /\ On(q, w, k)
             /\ w \in Streams /\ k \in Nat
             /\ \A v \in Streams, m \in Nat : On(Tail(q), v, m) <=> On(q, v, m) /\ (v = w => k < m)
             /\ \A m \in Nat : On(q, w, m) => k <= m
<1> DEFINE r == Tail(q)
           w == Head(q).data[1]
           k == Head(q).data[2]
<1>1. /\ Len(r) = Len(q) - 1 /\ Len(q) \in Nat /\ Len(q) >= 1 /\ q[1] = Head(q) /\ q[1] \in Frame
      /\ \A i \in 1..(Len(q) - 1) : r[i] = q[i + 1]
  BY Popped
<1>2. q[1].flag = "DATA" /\ q[1].data = <<w, k>> /\ w \in Streams /\ k \in Nat /\ q[1].data[1] = w /\ q[1].data[2] = k
  BY <1>1, FrameCases
<1> HIDE DEF r, w, k
<1>3. \A i \in 1..Len(r) : i + 1 \in 1..Len(q) /\ r[i] = q[i + 1]
  BY <1>1
<1>4. \A i \in 1..Len(q) : i = 1 \/ (i - 1 \in 1..Len(r) /\ r[i - 1] = q[i] /\ 1 < i)
  <2> SUFFICES ASSUME NEW i \in 1..Len(q), i # 1 PROVE i - 1 \in 1..Len(r) /\ r[i - 1] = q[i] /\ 1 < i
    OBVIOUS
  <2>1. i - 1 \in 1..(Len(q) - 1) /\ (i - 1) + 1 = i
    BY <1>1
  <2> QED BY <1>1, <2>1
<1>5. From(r, q)
  BY <1>3 DEF From
<1>6. InOrder(r)
  <2> SUFFICES ASSUME NEW i \in 1..Len(r), NEW j \in 1..Len(r), i < j, r[i].flag = "DATA", r[j].flag = "DATA",
                      r[i].data[1] = r[j].data[1]
               PROVE  r[i].data[2] < r[j].data[2]
    BY DEF InOrder
  <2>1. i + 1 \in 1..Len(q) /\ j + 1 \in 1..Len(q) /\ i + 1 < j + 1 /\ r[i] = q[i + 1] /\ r[j] = q[j + 1]
    BY <1>1, <1>3
  <2> QED BY <2>1 DEF InOrder
<1>7. On(q, w, k)
  BY <1>1, <1>2 DEF On
<1>8. \A i \in 1..Len(q) : 1 < i /\ q[i].flag = "DATA" /\ q[i].data[1] = w => k < q[i].data[2]
  <2> SUFFICES ASSUME NEW i \in 1..Len(q), 1 < i, q[i].flag = "DATA", q[i].data[1] = w PROVE k < q[i].data[2]
    OBVIOUS
  <2>1. 1 \in 1..Len(q)
    BY <1>1
  <2> QED BY <1>2, <2>1 DEF InOrder
<1>9. ASSUME NEW v \in Streams, NEW m \in Nat
      PROVE  /\ On(r, v, m) => On(q, v, m) /\ (v = w => k < m)
             /\ On(q, v, m) /\ (v = w => k < m) => On(r, v, m)
             /\ On(q, w, m) => k <= m
  <2>1. ASSUME On(r, v, m) PROVE On(q, v, m) /\ (v = w => k < m)
    <3>1. PICK i \in 1..Len(r) : r[i].flag = "DATA" /\ r[i].data = <<v, m>>
      BY <2>1 DEF On
    <3>2. i + 1 \in 1..Len(q) /\ 1 < i + 1 /\ q[i + 1].flag = "DATA" /\ q[i + 1].data = <<v, m>>
      BY <1>1, <1>3, <3>1
    <3> QED BY <1>8, <3>2 DEF On
  <2>2. ASSUME On(q, v, m), v = w => k < m PROVE On(r, v, m)
    <3>1. PICK i \in 1..Len(q) : q[i].flag = "DATA" /\ q[i].data = <<v, m>>
      BY <2>2 DEF On
    <3>2. i # 1
      BY <1>2, <2>2, <3>1
    <3> QED BY <1>4, <3>1, <3>2, Zenon DEF On
  <2>3. ASSUME On(q, w, m) PROVE k <= m
    <3>1. PICK i \in 1..Len(q) : q[i].flag = "DATA" /\ q[i].data = <<w, m>>
      BY <2>3 DEF On
    <3>2. CASE i = 1
      BY <1>2, <3>1, <3>2
    <3>3. CASE i # 1
      <4>1. 1 < i /\ q[i].data[1] = w /\ q[i].data[2] = m
        BY <1>4, <3>1, <3>3
      <4>2. k < m
        BY <1>8, <3>1, <4>1
      <4> QED BY <1>2, <4>2
    <3> QED BY <3>2, <3>3
  <2> QED BY <2>1, <2>2, <2>3
<1> QED BY <1>2, <1>5, <1>6, <1>7, <1>9 DEF r, w, k

-----------------------------------------------------------------------------
(* Records of streams.                                                     *)
LEMMA InFacts ==
  ASSUME NEW s \in StrState
  PROVE  /\ s.got \in Seq(Datum) /\ s.buf \in Seq(Datum)
         /\ In(s) \in Seq(Datum) /\ Len(In(s)) \in Nat
         /\ \A i \in 1..Len(In(s)) : In(s)[i] \in Datum
         /\ In(s) # <<>> => Len(In(s)) \in Nat \ {0}
<1>1. s.got \in Seq(Datum) /\ s.buf \in Seq(Datum)
  BY DEF StrState
<1>2. In(s) \in Seq(Datum)
  BY <1>1, ConcatProperties DEF In
<1> QED BY <1>1, <1>2, LenProperties, ElementOfSeq, EmptySeq

LEMMA OneStream ==
  ASSUME str \in [Streams -> StrState], NEW x \in Streams, NEW r \in StrState, str' = [str EXCEPT ![x] = r]
  PROVE  /\ str' \in [Streams -> StrState] /\ str'[x] = r
         /\ \A y \in Streams : y # x => str'[y] = str[y]
OBVIOUS

LEMMA AppendsLast ==
  ASSUME NEW g \in Seq(Datum), NEW b \in Seq(Datum), NEW d \in Datum
  PROVE  g \o Append(b, d) = Append(g \o b, d)
OBVIOUS

LEMMA TakesFirst ==
  ASSUME NEW g \in Seq(Datum), NEW b \in Seq(Datum), b # <<>>
  PROVE  Append(g, Head(b)) \o Tail(b) = g \o b
<1> DEFINE h == Head(b)
           t == Tail(b)
           e == <<h>>
<1>1. /\ Len(b) \in Nat \ {0} /\ Len(t) = Len(b) - 1 /\ h = b[1] /\ \A i \in 1..Len(t) : t[i] = b[i + 1]
      /\ h \in Datum /\ t \in Seq(Datum)
  BY HeadTailProperties, EmptySeq
<1>2. e \in Seq(Datum) /\ Len(e) = 1 /\ e[1] = h
  BY <1>1
<1>3. Append(g, h) = g \o e
  BY <1>1, AppendIsConcat
<1> HIDE DEF e, h, t
<1>4. e \o t \in Seq(Datum) /\ Len(e \o t) = 1 + Len(t)
      /\ \A i \in 1..(1 + Len(t)) : (e \o t)[i] = IF i <= 1 THEN e[i] ELSE t[i - 1]
  <2>1. /\ e \o t \in Seq(Datum) /\ Len(e \o t) = Len(e) + Len(t)
        /\ \A i \in 1..(Len(e) + Len(t)) : (e \o t)[i] = IF i <= Len(e) THEN e[i] ELSE t[i - Len(e)]
    BY <1>1, <1>2, ConcatProperties, ZenonT(60)
  <2> QED BY <1>2, <2>1
<1>5. Len(e \o t) = Len(b)
  BY <1>1, <1>4
<1>6. ASSUME NEW i \in 1..Len(b) PROVE (e \o t)[i] = b[i]
  <2>1. CASE i = 1
    BY <1>1, <1>2, <1>4, <2>1
  <2>2. CASE i # 1
    <3>1. i - 1 \in 1..Len(t) /\ (i - 1) + 1 = i /\ i \in 1..(1 + Len(t)) /\ ~(i <= 1)
      BY <1>1, <2>2
    <3>2. (e \o t)[i] = t[i - 1]
      BY <1>4, <3>1
    <3> QED BY <1>1, <3>1, <3>2
  <2> QED BY <2>1, <2>2, Zenon
<1>7. e \o t = b
  BY <1>4, <1>5, <1>6, SeqEqual, Zenon
<1>8. (g \o e) \o t = g \o (e \o t)
  BY <1>1, <1>2
<1>9. Append(g, h) \o t = g \o b
  BY <1>3, <1>7, <1>8
<1> QED BY <1>9 DEF h, t

(* Read takes the first chunk of the buffer.                               *)
LEMMA ReadTakes ==
  ASSUME NEW s \in StrState, s.buf # <<>>
  PROVE  LET r == [s EXCEPT !.buf = Tail(@), !.got = Append(@, Head(s.buf)), !.reader = "idle"]
         IN  /\ r \in StrState /\ In(r) = In(s) /\ r.reader = "idle"
             /\ r.pc = s.pc /\ r.node = s.node /\ r.id = s.id /\ r.peer = s.peer /\ r.mgr = s.mgr
             /\ r.listed = s.listed /\ r.reset = s.reset /\ r.wrote = s.wrote
<1>1. s.got \in Seq(Datum) /\ s.buf \in Seq(Datum)
  BY DEF StrState
<1> DEFINE t == Tail(s.buf)
           g == Append(s.got, Head(s.buf))
           r == [s EXCEPT !.buf = t, !.got = g, !.reader = "idle"]
<1>2. t \in Seq(Datum) /\ Head(s.buf) \in Datum
  BY <1>1, HeadTailProperties
<1>3. g \in Seq(Datum)
  BY <1>1, <1>2, AppendProperties
<1>4. g \o t = s.got \o s.buf
  BY <1>1, TakesFirst, Zenon
<1> HIDE DEF t, g
<1>5. /\ r \in StrState /\ r.got = g /\ r.buf = t /\ r.reader = "idle"
      /\ r.pc = s.pc /\ r.node = s.node /\ r.id = s.id /\ r.peer = s.peer /\ r.mgr = s.mgr
      /\ r.listed = s.listed /\ r.reset = s.reset /\ r.wrote = s.wrote
  BY <1>2, <1>3, Zenon DEF StrState
<1>6. In(r) = In(s)
  BY <1>4, <1>5, Zenon DEF In
<1> QED BY <1>5, <1>6 DEF t, g

LEMMA Wakes ==
  ASSUME NEW s \in StrState
  PROVE  /\ Broadcast(s) \in StrState /\ Broadcast(s).reader # "waits"
         /\ Broadcast(s).pc = s.pc /\ Broadcast(s).node = s.node /\ Broadcast(s).id = s.id
         /\ Broadcast(s).peer = s.peer /\ Broadcast(s).mgr = s.mgr /\ Broadcast(s).listed = s.listed
         /\ Broadcast(s).closed = s.closed /\ Broadcast(s).reset = s.reset /\ Broadcast(s).buf = s.buf
         /\ Broadcast(s).wrote = s.wrote /\ Broadcast(s).got = s.got
<1> DEFINE p == IF s.reader = "waits" THEN "looks" ELSE s.reader
<1>1. p \in {"idle", "looks", "eof", "errclosed"} /\ Broadcast(s) = [s EXCEPT !.reader = p]
  BY DEF StrState, Broadcast
<1> HIDE DEF p
<1> QED BY <1>1 DEF StrState

(* What a frame does to the stream it is for.                              *)
LEMMA DispatchIs ==
  ASSUME NEW s \in StrState, NEW f \in Frame
  PROVE  LET r == Dispatch(s, f)
         IN  /\ r \in StrState /\ r.reader # "waits"
             /\ r.pc = s.pc /\ r.node = s.node /\ r.id = s.id /\ r.peer = s.peer /\ r.mgr = s.mgr
             /\ r.listed = s.listed /\ r.wrote = s.wrote /\ r.got = s.got
             /\ f.flag = "DATA" => In(r) = Append(In(s), f.data) /\ r.reset = s.reset
             /\ f.flag = "CLOSE" => In(r) = In(s) /\ r.reset = s.reset
             /\ f.flag = "RESET" => In(r) = s.got /\ r.reset
<1> USE FrameCases
<1>0. s.got \in Seq(Datum) /\ s.buf \in Seq(Datum)
  BY DEF StrState
<1>1. CASE f.flag = "DATA"
  <2> DEFINE b == Append(s.buf, f.data)
             t == [s EXCEPT !.buf = b]
  <2>1. b \in Seq(Datum)
    BY <1>0, <1>1, AppendProperties
  <2>2. Dispatch(s, f) = Broadcast(t)
    BY <1>1 DEF Dispatch
  <2>3. s.got \o b = Append(s.got \o s.buf, f.data)
    BY <1>0, <1>1, AppendsLast, ZenonT(60)
  <2> HIDE DEF b
  <2>4. /\ t \in StrState /\ t.buf = b /\ t.got = s.got /\ t.pc = s.pc /\ t.node = s.node /\ t.id = s.id
        /\ t.peer = s.peer /\ t.mgr = s.mgr /\ t.listed = s.listed /\ t.wrote = s.wrote /\ t.reset = s.reset
    BY <2>1, Zenon DEF StrState
  <2> HIDE DEF t
  <2>5. In(Broadcast(t)) = Append(In(s), f.data)
    BY <2>3, <2>4, Wakes, Zenon DEF In
  <2> QED BY <1>1, <2>2, <2>4, <2>5, Wakes
<1>2. CASE f.flag = "CLOSE"
  <2> DEFINE t == [s EXCEPT !.closed = "peer"]
  <2>1. Dispatch(s, f) = Broadcast(t)
    BY <1>2 DEF Dispatch
  <2>2. /\ t \in StrState /\ t.buf = s.buf /\ t.got = s.got /\ t.pc = s.pc /\ t.node = s.node /\ t.id = s.id
        /\ t.peer = s.peer /\ t.mgr = s.mgr /\ t.listed = s.listed /\ t.wrote = s.wrote /\ t.reset = s.reset
    BY Zenon DEF StrState
  <2> HIDE DEF t
  <2>3. In(Broadcast(t)) = In(s)
    BY <2>2, Wakes, Zenon DEF In
  <2> QED BY <1>2, <2>1, <2>2, <2>3, Wakes
<1>3. CASE f.flag = "RESET"
  <2> DEFINE t == [s EXCEPT !.reset = TRUE, !.buf = <<>>]
  <2>1. Dispatch(s, f) = Broadcast(t)
    BY <1>3 DEF Dispatch
  <2>2. /\ t \in StrState /\ t.buf = <<>> /\ t.got = s.got /\ t.pc = s.pc /\ t.node = s.node /\ t.id = s.id
        /\ t.peer = s.peer /\ t.mgr = s.mgr /\ t.listed = s.listed /\ t.wrote = s.wrote
    <3> DEFINE u(e, z) == [s EXCEPT !.reset = e, !.buf = z]
    <3>1. ASSUME NEW e \in BOOLEAN, NEW z \in Seq(Datum)
          PROVE  /\ u(e, z) \in StrState /\ u(e, z).buf = z /\ u(e, z).got = s.got /\ u(e, z).pc = s.pc
                 /\ u(e, z).node = s.node /\ u(e, z).id = s.id /\ u(e, z).peer = s.peer /\ u(e, z).mgr = s.mgr
                 /\ u(e, z).listed = s.listed /\ u(e, z).wrote = s.wrote
      BY Zenon DEF StrState
    <3>2. <<>> \in Seq(Datum) /\ TRUE \in BOOLEAN
      BY EmptySeq
    <3> HIDE DEF u
    <3>3. /\ u(TRUE, <<>>) \in StrState /\ u(TRUE, <<>>).buf = <<>> /\ u(TRUE, <<>>).got = s.got
          /\ u(TRUE, <<>>).pc = s.pc /\ u(TRUE, <<>>).node = s.node /\ u(TRUE, <<>>).id = s.id
          /\ u(TRUE, <<>>).peer = s.peer /\ u(TRUE, <<>>).mgr = s.mgr /\ u(TRUE, <<>>).listed = s.listed
          /\ u(TRUE, <<>>).wrote = s.wrote
      BY <3>1, <3>2, Zenon
    <3> QED BY <3>3 DEF u
  <2>3. t.reset
    BY DEF StrState
  <2> HIDE DEF t
  <2>4. In(Broadcast(t)) = s.got
    <3>1. Broadcast(t).got = s.got /\ Broadcast(t).buf = <<>>
      BY <2>2, Wakes
    <3>2. s.got \o <<>> = s.got
      BY <1>0, ConcatEmptySeq, Zenon
    <3> QED BY <3>1, <3>2 DEF In
  <2> QED BY <1>3, <2>1, <2>2, <2>3, <2>4, Wakes
<1> QED BY <1>1, <1>2, <1>3

(* What Read has taken comes before what is still in the buffer.           *)
LEMMA GotFirst ==
  ASSUME NEW s \in StrState
  PROVE  Len(s.got) \in Nat /\ Len(s.got) <= Len(In(s)) /\ \A i \in 1..Len(s.got) : s.got[i] = In(s)[i]
<1>1. s.got \in Seq(Datum) /\ s.buf \in Seq(Datum) /\ Len(s.got) \in Nat /\ Len(s.buf) \in Nat
  BY LenProperties DEF StrState
<1>2. /\ Len(In(s)) = Len(s.got) + Len(s.buf)
      /\ \A i \in 1..(Len(s.got) + Len(s.buf)) : In(s)[i] = IF i <= Len(s.got) THEN s.got[i] ELSE s.buf[i - Len(s.got)]
  BY <1>1, ConcatProperties, Zenon DEF In
<1>3. \A a, b \in Nat : a <= a + b /\ \A i \in 1..a : i \in 1..(a + b) /\ i <= a
  OBVIOUS
<1>4. Len(s.got) <= Len(s.got) + Len(s.buf) /\ \A i \in 1..Len(s.got) : i \in 1..(Len(s.got) + Len(s.buf)) /\ i <= Len(s.got)
  BY <1>1, <1>3, Zenon
<1> QED BY <1>1, <1>2, <1>4, Zenon

-----------------------------------------------------------------------------
(* Types, the queues and the waiting Reads.                                *)
Awake(r) == r.reader = "waits" => r.buf = <<>> /\ ~r.reset /\ r.closed # "peer"

(* A step of one stream, neither new nor being opened, that leaves the     *)
(* queues alone.                                                           *)
Local(x, r) ==
  /\ r \in StrState /\ Awake(r)
  /\ r.pc \notin {"free", "opening"}
  /\ r.pc = "queued" <=> str[x].pc = "queued"

LEMMA LocalStep ==
  ASSUME Types, Queues, DispatchWakes, NEW x \in Streams, NEW r, Local(x, r), str' = [str EXCEPT ![x] = r],
         wire' \in [Nodes -> Seq(Frame)], lossy' \in BOOLEAN, UNCHANGED <<mgr, accept>>
  PROVE  Types' /\ Queues' /\ DispatchWakes'
<1>1. str' \in [Streams -> StrState] /\ str'[x] = r /\ \A y \in Streams : y # x => str'[y] = str[y]
  BY OneStream DEF Types, Local
<1>2. Types'
  BY <1>1 DEF Types, Local
<1>3. \A y \in Streams : str'[y].pc = "queued" <=> str[y].pc = "queued"
  BY <1>1 DEF Local
<1>4. \A n \in Nodes : \A i \in 1..Len(accept[n]) : accept[n][i] \in Streams
  BY ElementOfSeq DEF Types
<1>5. Queues'
  BY <1>3, <1>4, SMTT(30) DEF Queues
<1>6. DispatchWakes'
  BY <1>1 DEF DispatchWakes, Local, Awake
<1> QED BY <1>2, <1>5, <1>6

LEMMA Sends ==
  ASSUME Types, NEW n \in Nodes, NEW f \in Frame, SendTo(n, f)
  PROVE  /\ wire' \in [Nodes -> Seq(Frame)] /\ lossy' \in BOOLEAN
         /\ ~lossy' => /\ wire' = [wire EXCEPT ![n] = Append(@, f)] /\ wire'[n] = Append(wire[n], f) /\ ~lossy
                       /\ \A m \in Nodes : m # n => wire'[m] = wire[m]
<1>1. CASE wire' = [wire EXCEPT ![n] = Append(@, f)] /\ UNCHANGED lossy
  <2>1. Append(wire[n], f) \in Seq(Frame)
    BY Appended DEF Types
  <2> QED BY <1>1, <2>1 DEF Types
<1>2. CASE lossy' = TRUE /\ UNCHANGED wire
  BY <1>2 DEF Types
<1> QED BY <1>1, <1>2, Zenon DEF SendTo

LEMMA Receives ==
  ASSUME Types, NEW n \in Nodes, wire[n] # <<>>, wire' = [wire EXCEPT ![n] = Tail(@)]
  PROVE  /\ wire' \in [Nodes -> Seq(Frame)] /\ wire'[n] = Tail(wire[n]) /\ Head(wire[n]) \in Frame
         /\ \A m \in Nodes : m # n => wire'[m] = wire[m]
<1>1. Tail(wire[n]) \in Seq(Frame) /\ Head(wire[n]) \in Frame
  BY Popped DEF Types
<1> QED BY <1>1 DEF Types

LEMMA OtherEndIs ==
  ASSUME NEW n \in Nodes
  PROVE  OtherEnd(n) \in Nodes /\ OtherEnd(n) # n /\ OtherEnd(OtherEnd(n)) = n
         /\ \A m \in Nodes : m # n => m = OtherEnd(n)
BY DEF Nodes, OtherEnd

(* A stream in a map is one that Opened or DeliverNew has put there.       *)
LEMMA CurrentIs ==
  ASSUME Types, NEW n \in Nodes, NEW id, NEW x \in Current(n, id)
  PROVE  /\ x \in Streams /\ str[x].node = n /\ str[x].listed /\ str[x].id = id
         /\ str[x].pc \notin {"free", "opening"}
<1>1. x \in Streams /\ str[x].node = n /\ str[x].listed /\ str[x].id = id
  BY DEF Current
<1>2. ~NoStream.listed
  BY DEF NoStream
<1> QED BY <1>1, <1>2 DEF Types

(* The records the calls of a node leave.                                  *)
LEMMA OpenedIs ==
  ASSUME NEW s \in StrState
  PROVE  LET r == [s EXCEPT !.pc = "open", !.listed = TRUE]
         IN  /\ r \in StrState /\ r.pc = "open" /\ r.reader = s.reader /\ r.closed = s.closed /\ r.reset = s.reset
             /\ r.buf = s.buf /\ r.got = s.got /\ r.node = s.node /\ r.id = s.id /\ r.peer = s.peer
             /\ r.mgr = s.mgr /\ r.wrote = s.wrote
<1> DEFINE u(e) == [s EXCEPT !.pc = "open", !.listed = e]
<1>1. ASSUME NEW e \in BOOLEAN
      PROVE  /\ u(e) \in StrState /\ u(e).pc = "open" /\ u(e).reader = s.reader /\ u(e).closed = s.closed
             /\ u(e).reset = s.reset /\ u(e).buf = s.buf /\ u(e).got = s.got /\ u(e).node = s.node
             /\ u(e).id = s.id /\ u(e).peer = s.peer /\ u(e).mgr = s.mgr /\ u(e).wrote = s.wrote
  BY Zenon DEF StrState
<1> HIDE DEF u
<1>2. /\ u(TRUE) \in StrState /\ u(TRUE).pc = "open" /\ u(TRUE).reader = s.reader /\ u(TRUE).closed = s.closed
      /\ u(TRUE).reset = s.reset /\ u(TRUE).buf = s.buf /\ u(TRUE).got = s.got /\ u(TRUE).node = s.node
      /\ u(TRUE).id = s.id /\ u(TRUE).peer = s.peer /\ u(TRUE).mgr = s.mgr /\ u(TRUE).wrote = s.wrote
  BY <1>1, Zenon
<1> QED BY <1>2 DEF u

LEMMA PcIs ==
  ASSUME NEW s \in StrState, NEW p \in {"open", "removing"}
  PROVE  LET r == [s EXCEPT !.pc = p]
         IN  /\ r \in StrState /\ r.pc = p /\ r.reader = s.reader /\ r.closed = s.closed /\ r.reset = s.reset
             /\ r.buf = s.buf /\ r.got = s.got /\ r.node = s.node /\ r.id = s.id /\ r.peer = s.peer
             /\ r.mgr = s.mgr /\ r.wrote = s.wrote /\ r.listed = s.listed
BY DEF StrState

LEMMA ClosedIs ==
  ASSUME NEW s \in StrState
  PROVE  LET r == [s EXCEPT !.closed = "self", !.pc = "removing"]
         IN  /\ r \in StrState /\ r.pc = "removing" /\ r.reader = s.reader /\ r.closed = "self" /\ r.reset = s.reset
             /\ r.buf = s.buf /\ r.got = s.got /\ r.node = s.node /\ r.id = s.id /\ r.peer = s.peer
             /\ r.mgr = s.mgr /\ r.wrote = s.wrote /\ r.listed = s.listed
BY Zenon DEF StrState

LEMMA WroteIs ==
  ASSUME NEW s \in StrState
  PROVE  LET r == [s EXCEPT !.wrote = @ + 1]
         IN  /\ r \in StrState /\ r.pc = s.pc /\ r.reader = s.reader /\ r.closed = s.closed /\ r.reset = s.reset
             /\ r.buf = s.buf /\ r.got = s.got /\ r.node = s.node /\ r.id = s.id /\ r.peer = s.peer
             /\ r.mgr = s.mgr /\ r.wrote = s.wrote + 1 /\ r.listed = s.listed
BY SMTT(30) DEF StrState

LEMMA ResetIs ==
  ASSUME NEW s \in StrState
  PROVE  LET r == Broadcast([s EXCEPT !.reset = TRUE, !.buf = <<>>, !.pc = "removing"])
         IN  /\ r \in StrState /\ r.pc = "removing" /\ r.reader # "waits" /\ r.reset /\ In(r) = s.got
             /\ r.node = s.node /\ r.id = s.id /\ r.peer = s.peer
             /\ r.mgr = s.mgr /\ r.wrote = s.wrote /\ r.listed = s.listed
<1> DEFINE u(e, z) == [s EXCEPT !.reset = e, !.buf = z, !.pc = "removing"]
<1>1. ASSUME NEW e \in BOOLEAN, NEW z \in Seq(Datum)
      PROVE  /\ u(e, z) \in StrState /\ u(e, z).buf = z /\ u(e, z).got = s.got /\ u(e, z).pc = "removing"
             /\ u(e, z).node = s.node /\ u(e, z).id = s.id /\ u(e, z).peer = s.peer /\ u(e, z).mgr = s.mgr
             /\ u(e, z).listed = s.listed /\ u(e, z).wrote = s.wrote /\ u(e, z).reset = e
  BY Zenon DEF StrState
<1>2. <<>> \in Seq(Datum) /\ TRUE \in BOOLEAN
  BY EmptySeq
<1> HIDE DEF u
<1> DEFINE t == u(TRUE, <<>>)
<1>3. /\ t \in StrState /\ t.buf = <<>> /\ t.got = s.got /\ t.pc = "removing" /\ t.node = s.node /\ t.id = s.id
      /\ t.peer = s.peer /\ t.mgr = s.mgr /\ t.listed = s.listed /\ t.wrote = s.wrote /\ t.reset = TRUE
  BY <1>1, <1>2, Zenon
<1> HIDE DEF t
<1>4. /\ Broadcast(t) \in StrState /\ Broadcast(t).pc = "removing" /\ Broadcast(t).reader # "waits"
      /\ Broadcast(t).reset /\ Broadcast(t).got = s.got /\ Broadcast(t).buf = <<>>
      /\ Broadcast(t).node = s.node /\ Broadcast(t).id = s.id /\ Broadcast(t).peer = s.peer
      /\ Broadcast(t).mgr = s.mgr /\ Broadcast(t).wrote = s.wrote /\ Broadcast(t).listed = s.listed
  BY <1>3, Wakes
<1>5. s.got \in Seq(Datum)
  BY DEF StrState
<1>6. s.got \o <<>> = s.got
  BY <1>5, ConcatEmptySeq, Zenon
<1>7. In(Broadcast(t)) = s.got
  BY <1>4, <1>6 DEF In
<1> QED BY <1>4, <1>7 DEF t, u

(* Read of a stream without data.                                          *)
LEMMA LooksIs ==
  ASSUME NEW s \in StrState, NEW p \in {"errclosed", "eof", "waits"}
  PROVE  LET r == [s EXCEPT !.reader = p]
         IN  /\ r \in StrState /\ r.pc = s.pc /\ r.reader = p /\ r.closed = s.closed /\ r.reset = s.reset
             /\ r.buf = s.buf /\ r.got = s.got /\ r.node = s.node /\ r.id = s.id /\ r.peer = s.peer
             /\ r.mgr = s.mgr /\ r.wrote = s.wrote /\ r.listed = s.listed
BY DEF StrState

(* A new stream.                                                           *)
OpeningStream(n, id, g) == [NoStream EXCEPT !.pc = "opening", !.node = n, !.id = id, !.mgr = g]

QueuedStream(n, id, w, g) ==
  [NoStream EXCEPT !.pc = "queued", !.node = n, !.id = id, !.peer = w, !.mgr = g, !.listed = TRUE]

LEMMA NoStreamIs ==
  /\ NoStream \in StrState /\ NoStream.wrote = 0 /\ NoStream.got = <<>> /\ NoStream.buf = <<>> /\ NoStream.peer = 0
  /\ NoStream.reader = "idle" /\ ~NoStream.reset /\ ~NoStream.listed /\ NoStream.pc = "free"
  /\ <<>> \o <<>> = <<>>
<1>1. <<>> \in Seq(Datum)
  BY EmptySeq
<1>2. <<>> \o <<>> = <<>>
  BY <1>1, ConcatEmptySeq, Zenon
<1> QED BY <1>1, <1>2 DEF NoStream, StrState, Nodes

LEMMA OpeningIs ==
  ASSUME NEW n \in Nodes, NEW id \in Nat, NEW g \in Nat
  PROVE  LET r == OpeningStream(n, id, g)
         IN  /\ r \in StrState /\ r.pc = "opening" /\ r.node = n /\ r.id = id /\ r.peer = 0 /\ r.mgr = g /\ ~r.listed
             /\ r.wrote = 0 /\ In(r) = <<>> /\ r.reader = "idle" /\ ~r.reset
<1> DEFINE r == OpeningStream(n, id, g)
<1>1. ASSUME NEW s \in StrState
      PROVE  LET t == [s EXCEPT !.pc = "opening", !.node = n, !.id = id, !.mgr = g]
             IN  /\ t \in StrState /\ t.pc = "opening" /\ t.node = n /\ t.id = id /\ t.peer = s.peer /\ t.mgr = g
                 /\ t.listed = s.listed /\ t.wrote = s.wrote /\ t.reader = s.reader /\ t.reset = s.reset
                 /\ t.got = s.got /\ t.buf = s.buf
  BY Zenon DEF StrState
<1>2. /\ r \in StrState /\ r.pc = "opening" /\ r.node = n /\ r.id = id /\ r.peer = 0 /\ r.mgr = g /\ ~r.listed
      /\ r.wrote = 0 /\ r.reader = "idle" /\ ~r.reset /\ r.got = <<>> /\ r.buf = <<>>
  BY <1>1, NoStreamIs, Zenon DEF OpeningStream
<1> HIDE DEF r
<1>3. In(r) = <<>>
  BY <1>2, NoStreamIs DEF In
<1> QED BY <1>2, <1>3 DEF r

LEMMA QueuedIs ==
  ASSUME NEW n \in Nodes, NEW id \in Nat, NEW w \in Nat, NEW g \in Nat
  PROVE  LET r == QueuedStream(n, id, w, g)
         IN  /\ r \in StrState /\ r.pc = "queued" /\ r.node = n /\ r.id = id /\ r.peer = w /\ r.mgr = g
             /\ r.wrote = 0 /\ In(r) = <<>> /\ r.reader = "idle" /\ ~r.reset
<1> DEFINE r == QueuedStream(n, id, w, g)
           t(s, l) == [s EXCEPT !.pc = "queued", !.node = n, !.id = id, !.peer = w, !.mgr = g, !.listed = l]
<1>1. ASSUME NEW s \in StrState, NEW l \in BOOLEAN
      PROVE  /\ t(s, l) \in StrState /\ t(s, l).pc = "queued" /\ t(s, l).node = n /\ t(s, l).id = id /\ t(s, l).peer = w
             /\ t(s, l).mgr = g /\ t(s, l).wrote = s.wrote /\ t(s, l).reader = s.reader /\ t(s, l).reset = s.reset
             /\ t(s, l).got = s.got /\ t(s, l).buf = s.buf
  BY Zenon DEF StrState
<1>2. r = t(NoStream, TRUE)
  BY DEF QueuedStream
<1> HIDE DEF t, r
<1>3. /\ r \in StrState /\ r.pc = "queued" /\ r.node = n /\ r.id = id /\ r.peer = w /\ r.mgr = g
      /\ r.wrote = 0 /\ r.reader = "idle" /\ ~r.reset /\ r.got = <<>> /\ r.buf = <<>>
  <2>1. NoStream \in StrState /\ TRUE \in BOOLEAN
    BY NoStreamIs
  <2> QED BY <1>1, <1>2, <2>1, NoStreamIs, Zenon
<1>4. In(r) = <<>>
  BY <1>3, NoStreamIs DEF In
<1> QED BY <1>3, <1>4 DEF r

(* removeStream takes x and whatever has its id off the map.               *)
LEMMA RemovedFields ==
  ASSUME Types, NEW x \in Streams, RemoveStream(x)
  PROVE  /\ str' \in [Streams -> StrState]
         /\ \A y \in Streams :
              /\ str'[y].pc = IF y = x THEN "open" ELSE str[y].pc
              /\ str'[y].node = str[y].node /\ str'[y].id = str[y].id /\ str'[y].peer = str[y].peer
              /\ str'[y].mgr = str[y].mgr /\ str'[y].wrote = str[y].wrote /\ str'[y].reset = str[y].reset
              /\ str'[y].closed = str[y].closed /\ str'[y].reader = str[y].reader
              /\ str'[y].buf = str[y].buf /\ str'[y].got = str[y].got
              /\ str'[y].listed => str[y].listed
              /\ str[y].pc = "free" => str'[y] = str[y]
         /\ str[x].pc = "removing" /\ UNCHANGED <<mgr, accept, wire, lossy>>
<1> DEFINE c == Current(str[x].node, str[x].id)
           u == [y \in Streams |-> IF y \in c THEN [str[y] EXCEPT !.listed = FALSE] ELSE str[y]]
<1>1. str' = [u EXCEPT ![x].pc = "open"] /\ str[x].pc = "removing" /\ UNCHANGED <<mgr, accept, wire, lossy>>
  BY DEF RemoveStream, Unlist
<1>2. ASSUME NEW s \in StrState
      PROVE  LET t == [s EXCEPT !.listed = FALSE]
             IN  /\ t \in StrState /\ t.pc = s.pc /\ t.node = s.node /\ t.id = s.id /\ t.peer = s.peer
                 /\ t.mgr = s.mgr /\ t.wrote = s.wrote /\ t.reset = s.reset /\ t.closed = s.closed
                 /\ t.reader = s.reader /\ t.buf = s.buf /\ t.got = s.got /\ ~t.listed
  BY Zenon DEF StrState
<1>3. ASSUME NEW y \in Streams
      PROVE  /\ u[y] \in StrState /\ u[y].pc = str[y].pc /\ u[y].node = str[y].node /\ u[y].id = str[y].id
             /\ u[y].peer = str[y].peer /\ u[y].mgr = str[y].mgr /\ u[y].wrote = str[y].wrote
             /\ u[y].reset = str[y].reset /\ u[y].closed = str[y].closed /\ u[y].reader = str[y].reader
             /\ u[y].buf = str[y].buf /\ u[y].got = str[y].got /\ (u[y].listed => str[y].listed)
             /\ (str[y].pc = "free" => u[y] = str[y])
  <2>1. str[y] \in StrState
    BY DEF Types
  <2>2. CASE y \in c
    <3>1. str[y].listed
      BY <2>2 DEF Current
    <3>2. str[y].pc # "free"
      BY <3>1 DEF Types, NoStream
    <3> QED BY <1>2, <2>1, <2>2, <3>1, <3>2, Zenon
  <2>3. CASE y \notin c
    BY <2>1, <2>3
  <2> QED BY <2>2, <2>3
<1>4. DOMAIN u = Streams
  OBVIOUS
<1> HIDE DEF u
<1>5. u \in [Streams -> StrState]
  <2>1. u = [y \in Streams |-> u[y]]
    BY DEF u
  <2> QED BY <1>3, <2>1
<1>6. str' = [u EXCEPT ![x] = [u[x] EXCEPT !.pc = "open"]]
  BY <1>1, <1>5
<1> DEFINE r == [u[x] EXCEPT !.pc = "open"]
<1>7. /\ r \in StrState /\ r.pc = "open" /\ r.reader = u[x].reader /\ r.closed = u[x].closed /\ r.reset = u[x].reset
      /\ r.buf = u[x].buf /\ r.got = u[x].got /\ r.node = u[x].node /\ r.id = u[x].id /\ r.peer = u[x].peer
      /\ r.mgr = u[x].mgr /\ r.wrote = u[x].wrote /\ r.listed = u[x].listed
  BY <1>3, PcIs, Zenon
<1> HIDE DEF r
<1>8. str' \in [Streams -> StrState] /\ str'[x] = r /\ \A y \in Streams : y # x => str'[y] = u[y]
  BY <1>5, <1>6, <1>7 DEF r
<1> QED BY <1>1, <1>3, <1>7, <1>8

LEMMA RemovedIs ==
  ASSUME Types, Queues, DispatchWakes, NEW x \in Streams, RemoveStream(x)
  PROVE  Types' /\ Queues' /\ DispatchWakes'
<1>1. /\ str' \in [Streams -> StrState]
      /\ \A y \in Streams :
              /\ str'[y].pc = IF y = x THEN "open" ELSE str[y].pc
              /\ str'[y].reset = str[y].reset /\ str'[y].closed = str[y].closed /\ str'[y].reader = str[y].reader
              /\ str'[y].buf = str[y].buf /\ str'[y].got = str[y].got
              /\ str'[y].listed => str[y].listed
              /\ str[y].pc = "free" => str'[y] = str[y]
      /\ str[x].pc = "removing" /\ UNCHANGED <<mgr, accept, wire, lossy>>
  BY RemovedFields
<1>2. \A y \in Streams : In(str'[y]) = In(str[y])
  BY <1>1, Zenon DEF In
<1>3. Types'
  <2>1. \A y \in Streams : str'[y].pc \in {"free", "opening"} => str[y].pc = str'[y].pc
    BY <1>1
  <2>a. \A y \in Streams : str[y].pc = "free" => str[y] = NoStream
    BY DEF Types
  <2>2. \A y \in Streams : str'[y].pc = "free" => str'[y] = NoStream
    BY <1>1, <2>1, <2>a
  <2>3. \A y \in Streams : str'[y].pc = "opening" => ~str'[y].listed /\ In(str'[y]) = <<>>
    <3> SUFFICES ASSUME NEW y \in Streams, str'[y].pc = "opening"
                 PROVE  ~str'[y].listed /\ In(str'[y]) = <<>>
      OBVIOUS
    <3>1. str[y].pc = "opening"
      BY <2>1
    <3>2. ~str[y].listed /\ In(str[y]) = <<>>
      BY <3>1 DEF Types
    <3> QED BY <1>1, <1>2, <3>2
  <2> QED BY <1>1, <2>2, <2>3 DEF Types
<1>4. \A y \in Streams : str'[y].pc = "queued" <=> str[y].pc = "queued"
  BY <1>1
<1>5. \A n \in Nodes : \A i \in 1..Len(accept[n]) : accept[n][i] \in Streams
  BY ElementOfSeq DEF Types
<1>6. Queues'
  BY <1>1, <1>4, <1>5 DEF Queues
<1>7. DispatchWakes'
  BY <1>1 DEF DispatchWakes
<1> QED BY <1>3, <1>6, <1>7

(* The single steps, for what follows.                                     *)
LEMMA StateStep ==
  ASSUME Types, Queues, DispatchWakes, [StreamsNext]_streamVars
  PROVE  Types' /\ Queues' /\ DispatchWakes'
<1> USE StreamsAssumption
<1>0. \A x \in Streams : str[x] \in StrState /\ Awake(str[x])
  BY DEF Types, DispatchWakes, Awake
<1>n. \A n \in Nodes : mgr[n].gen \in Nat /\ mgr[n].next \in Nat
  BY DEF Types
<1>a. \A n \in Nodes : /\ accept[n] \in Seq(Streams) /\ Len(accept[n]) \in Nat
                      /\ \A i \in 1..Len(accept[n]) : accept[n][i] \in Streams
  BY ElementOfSeq, LenProperties DEF Types
<1>1. ASSUME NEW n \in Nodes, OpenStream(n) PROVE Types' /\ Queues' /\ DispatchWakes'
  <2>1. PICK x \in Streams : Fresh(x) /\ str' = [str EXCEPT ![x] = [NoStream EXCEPT !.pc = "opening", !.node = n,
                                                     !.id = AllocID(n), !.mgr = mgr[n].gen]]
    BY <1>1, Zenon DEF OpenStream
  <2>2. mgr' = [mgr EXCEPT ![n].next = @ + 1] /\ UNCHANGED <<accept, wire, lossy>>
    BY <1>1 DEF OpenStream
  <2> DEFINE r == OpeningStream(n, AllocID(n), mgr[n].gen)
  <2>3. r = [NoStream EXCEPT !.pc = "opening", !.node = n, !.id = AllocID(n), !.mgr = mgr[n].gen]
    BY DEF OpeningStream
  <2>4. AllocID(n) \in Nat
    BY <1>n DEF AllocID, OddBit
  <2>5. r \in StrState /\ r.pc = "opening" /\ ~r.listed /\ In(r) = <<>> /\ r.reader = "idle"
    BY <1>n, <2>4, OpeningIs
  <2> HIDE DEF r
  <2>6. str' \in [Streams -> StrState] /\ str'[x] = r /\ \A y \in Streams : y # x => str'[y] = str[y]
    BY <2>1, <2>3, <2>5, OneStream DEF Types
  <2>7. mgr' \in [Nodes -> [gen : Nat, next : Nat]]
    <3>1. mgr' = [mgr EXCEPT ![n] = [mgr[n] EXCEPT !.next = mgr[n].next + 1]]
      BY <2>2 DEF Types
    <3>2. [mgr[n] EXCEPT !.next = mgr[n].next + 1] \in [gen : Nat, next : Nat]
      <4>1. mgr[n] \in [gen : Nat, next : Nat] /\ mgr[n].next + 1 \in Nat
        BY <1>n DEF Types
      <4> QED BY <4>1
    <3> QED BY <3>1, <3>2 DEF Types
  <2>8. Types'
    BY <2>2, <2>5, <2>6, <2>7, Zenon DEF Types
  <2>9. \A y \in Streams : str'[y].pc = "queued" <=> str[y].pc = "queued"
    BY <2>1, <2>5, <2>6 DEF Fresh
  <2>10. Queues'
    BY <1>a, <2>2, <2>9, SMTT(30) DEF Queues
  <2>11. DispatchWakes'
    BY <2>5, <2>6 DEF DispatchWakes
  <2> QED BY <2>8, <2>10, <2>11
<1>2. ASSUME NEW n \in Nodes, AcceptStream(n) PROVE Types' /\ Queues' /\ DispatchWakes'
  <2> DEFINE q == accept[n]
             x == Head(q)
             t == Tail(q)
             r == [str[x] EXCEPT !.pc = "open"]
  <2>1. q # <<>> /\ accept' = [accept EXCEPT ![n] = t] /\ UNCHANGED <<mgr, wire, lossy>>
    BY <1>2 DEF AcceptStream
  <2>2. /\ q \in Seq(Streams) /\ x \in Streams /\ t \in Seq(Streams) /\ Len(q) \in Nat \ {0} /\ Len(t) = Len(q) - 1
        /\ x = q[1] /\ \A i \in 1..Len(t) : t[i] = q[i + 1]
    BY <1>a, <2>1, HeadTailProperties, EmptySeq
  <2>3. str' = [str EXCEPT ![x] = r]
    BY <1>2, <2>2 DEF AcceptStream, Types
  <2>4. r \in StrState /\ r.pc = "open" /\ r.reader = str[x].reader /\ r.buf = str[x].buf /\ r.reset = str[x].reset
        /\ r.closed = str[x].closed
    BY <1>0, <2>2, PcIs, Zenon
  <2> HIDE DEF r, x, t
  <2>5. str' \in [Streams -> StrState] /\ str'[x] = r /\ \A y \in Streams : y # x => str'[y] = str[y]
    BY <2>2, <2>3, <2>4, OneStream DEF Types
  <2>6. accept' \in [Nodes -> Seq(Streams)] /\ accept'[n] = t /\ \A m \in Nodes : m # n => accept'[m] = accept[m]
    BY <2>1, <2>2 DEF Types
  <2>7. Types'
    BY <2>1, <2>4, <2>5, <2>6, ZenonT(60) DEF Types
  <2>8. DispatchWakes'
    BY <2>4, <2>5 DEF DispatchWakes
  (* where an entry of the new queues was                                  *)
  <2> DEFINE at(m, i) == IF m = n THEN i + 1 ELSE i
  <2>9. ASSUME NEW m \in Nodes, NEW i \in 1..Len(accept'[m])
        PROVE  at(m, i) \in 1..Len(accept[m]) /\ accept'[m][i] = accept[m][at(m, i)] /\ (m = n => at(m, i) # 1)
               /\ accept'[m][i] \in Streams /\ accept'[m][i] # x
    <3>1. at(m, i) \in 1..Len(accept[m]) /\ accept'[m][i] = accept[m][at(m, i)] /\ (m = n => at(m, i) # 1)
      <4>1. CASE m = n
        BY <2>2, <2>6, <4>1
      <4>2. CASE m # n
        BY <2>6, <4>2
      <4> QED BY <4>1, <4>2
    <3>2. 1 \in 1..Len(accept[n])
      BY <2>2
    <3>3. accept[m][at(m, i)] # accept[n][1]
      BY <3>1, <3>2 DEF Queues
    <3> QED BY <1>a, <2>2, <3>1, <3>3
  <2>10. ASSUME NEW m \in Nodes, NEW j \in 1..Len(accept[m]), accept[m][j] # x
         PROVE  \E i \in 1..Len(accept'[m]) : accept'[m][i] = accept[m][j]
    <3>1. CASE m = n
      <4>1. j # 1
        BY <2>2, <2>10, <3>1
      <4>2. j - 1 \in 1..Len(t) /\ (j - 1) + 1 = j
        BY <2>2, <3>1, <4>1
      <4> QED BY <2>2, <2>6, <3>1, <4>2, ZenonT(60)
    <3>2. CASE m # n
      BY <2>6, <3>2
    <3> QED BY <3>1, <3>2
  <2> DEFINE cap(m) == Len(accept'[m]) <= AcceptCap
  <2>11. ASSUME NEW m \in Nodes PROVE cap(m)
    <3>1. CASE m = n
      BY <2>2, <2>6, <3>1 DEF Queues
    <3>2. CASE m # n
      BY <2>6, <3>2 DEF Queues
    <3> QED BY <3>1, <3>2
  <2>12. ASSUME NEW m \in Nodes, NEW i \in 1..Len(accept'[m]) PROVE str'[accept'[m][i]].pc = "queued"
    <3>1. at(m, i) \in 1..Len(accept[m]) /\ accept'[m][i] = accept[m][at(m, i)] /\ accept'[m][i] \in Streams /\ accept'[m][i] # x
      BY <2>9
    <3> HIDE DEF at
    <3>2. str[accept[m][at(m, i)]].pc = "queued"
      BY <3>1 DEF Queues
    <3> QED BY <2>5, <3>1, <3>2
  <2>13. ASSUME NEW y \in Streams, str'[y].pc = "queued"
         PROVE  \E m \in Nodes : \E i \in 1..Len(accept'[m]) : accept'[m][i] = y
    <3>1. y # x /\ str[y].pc = "queued"
      BY <2>4, <2>5, <2>13
    <3>2. PICK m \in Nodes : \E j \in 1..Len(accept[m]) : accept[m][j] = y
      BY <3>1 DEF Queues
    <3> QED BY <2>10, <3>1, <3>2
  <2>14. ASSUME NEW l \in Nodes, NEW m \in Nodes, NEW i \in 1..Len(accept'[l]), NEW j \in 1..Len(accept'[m]),
                accept'[l][i] = accept'[m][j]
         PROVE  l = m /\ i = j
    <3>1. at(l, i) \in 1..Len(accept[l]) /\ at(m, j) \in 1..Len(accept[m]) /\ accept[l][at(l, i)] = accept[m][at(m, j)]
      BY <2>9, <2>14
    <3> DEFINE ai == at(l, i)
               aj == at(m, j)
    <3> HIDE DEF ai, aj
    <3>2. ai \in 1..Len(accept[l]) /\ aj \in 1..Len(accept[m]) /\ accept[l][ai] = accept[m][aj]
      BY <3>1 DEF ai, aj
    <3>3. l = m /\ ai = aj
      BY <3>2 DEF Queues
    <3>4. Len(accept'[l]) \in Nat /\ Len(accept'[m]) \in Nat
      BY <2>6, LenProperties
    <3> QED BY <3>3, <3>4 DEF ai, aj
  <2> HIDE DEF at
  <2>15. Queues'
    BY <2>11, <2>12, <2>13, <2>14 DEF Queues
  <2> QED BY <2>7, <2>8, <2>15
<1>3. ASSUME NEW n \in Nodes, PeerGone(n) PROVE Types' /\ Queues' /\ DispatchWakes'
  <2> DEFINE gone(y) == str[y].node = n /\ str[y].listed /\ str[y].mgr = mgr[n].gen
             d(y) == Dispatch(str[y], Datagram(str[y].id, "RESET", None))
  <2>1. /\ str' = [y \in Streams |-> IF gone(y) THEN [d(y) EXCEPT !.listed = FALSE] ELSE str[y]]
        /\ mgr' = [mgr EXCEPT ![n] = [gen |-> mgr[n].gen + 1, next |-> 0]] /\ UNCHANGED <<accept, wire, lossy>>
    BY <1>3 DEF PeerGone, Types
  <2>2. \A y \in Streams : Datagram(str[y].id, "RESET", None) \in Frame
    BY <1>0 DEF Datagram, Frame, StrState
  <2>3. ASSUME NEW y \in Streams PROVE d(y) \in StrState /\ d(y).reader # "waits" /\ d(y).pc = str[y].pc
    BY <1>0, <2>2, DispatchIs
  <2>4. ASSUME NEW y \in Streams, gone(y) PROVE str[y].pc \notin {"free", "opening"}
    BY <2>4 DEF Types, NoStream
  <2> HIDE DEF gone, d
  <2>5. ASSUME NEW s \in StrState PROVE [s EXCEPT !.listed = FALSE] \in StrState /\ [s EXCEPT !.listed = FALSE].pc = s.pc
                                        /\ [s EXCEPT !.listed = FALSE].reader = s.reader
    BY Zenon DEF StrState
  <2>6. ASSUME NEW y \in Streams
        PROVE  /\ str'[y] \in StrState /\ str'[y].pc = str[y].pc
               /\ str'[y] = str[y] \/ (str'[y].reader # "waits" /\ str[y].pc \notin {"free", "opening"})
    <3>1. CASE gone(y)
      BY <2>1, <2>3, <2>4, <2>5, <3>1, Zenon
    <3>2. CASE ~gone(y)
      BY <1>0, <2>1, <3>2
    <3> QED BY <3>1, <3>2
  <2>7. str' \in [Streams -> StrState]
    BY <2>1, <2>6
  <2>8. mgr' \in [Nodes -> [gen : Nat, next : Nat]]
    BY <1>n, <2>1 DEF Types
  <2>9. Types'
    BY <2>1, <2>6, <2>7, <2>8, ZenonT(60) DEF Types
  <2>10. Queues'
    BY <1>a, <2>1, <2>6, SMTT(30) DEF Queues
  <2>11. DispatchWakes'
    BY <2>6 DEF DispatchWakes
  <2> QED BY <2>9, <2>10, <2>11
<1>4. ASSUME NEW n \in Nodes, DeliverKnown(n) PROVE Types' /\ Queues' /\ DispatchWakes'
  <2>1. wire[n] # <<>> /\ wire' = [wire EXCEPT ![n] = Tail(@)] /\ UNCHANGED <<mgr, accept, lossy>>
    BY <1>4 DEF DeliverKnown
  <2>2. PICK x \in Current(n, Head(wire[n]).id) : str' = [str EXCEPT ![x] = Dispatch(@, Head(wire[n]))]
    BY <1>4, Zenon DEF DeliverKnown
  <2>3. wire' \in [Nodes -> Seq(Frame)] /\ Head(wire[n]) \in Frame
    BY <2>1, Receives, Zenon
  <2>4. x \in Streams /\ str[x].pc \notin {"free", "opening"}
    BY CurrentIs
  <2> DEFINE r == Dispatch(str[x], Head(wire[n]))
  <2>5. r \in StrState /\ r.reader # "waits" /\ r.pc = str[x].pc
    BY <1>0, <2>3, <2>4, DispatchIs
  <2>6. str' = [str EXCEPT ![x] = r]
    BY <2>2, <2>4 DEF Types
  <2> HIDE DEF r
  <2>7. Local(x, r)
    BY <2>4, <2>5 DEF Local, Awake
  <2>8. lossy' \in BOOLEAN
    BY <2>1 DEF Types
  <2> QED BY <2>1, <2>3, <2>4, <2>6, <2>7, <2>8, LocalStep, Zenon
<1>5. ASSUME NEW n \in Nodes, DeliverIgnored(n) PROVE Types' /\ Queues' /\ DispatchWakes'
  <2>1. wire' \in [Nodes -> Seq(Frame)] /\ UNCHANGED <<str, mgr, accept, lossy>>
    BY <1>5, Receives, Zenon DEF DeliverIgnored
  <2>2. Types'
    BY <2>1 DEF Types
  <2>3. str' = str /\ accept' = accept
    BY <2>1
  <2>4. Queues'
    BY <2>3 DEF Queues
  <2>5. DispatchWakes'
    BY <2>3 DEF DispatchWakes
  <2> QED BY <2>2, <2>4, <2>5
<1>6. ASSUME NEW n \in Nodes, DeliverNew(n) PROVE Types' /\ Queues' /\ DispatchWakes'
  <2> DEFINE f == Head(wire[n])
  <2>0. wire[n] # <<>> /\ f.flag = "DATA" /\ UNCHANGED mgr
    BY <1>6 DEF DeliverNew
  <2>1. f \in Frame /\ Tail(wire[n]) \in Seq(Frame)
    BY <2>0, Popped DEF Types
  <2>2. f.id \in Nat /\ f.data[1] \in Streams
    BY <2>0, <2>1, FrameCases
  <2>3. CASE Len(accept[n]) = AcceptCap /\ UNCHANGED <<str, accept>>
             /\ \/ wire' = [wire EXCEPT ![n] = Tail(@), ![OtherEnd(n)] = Append(@, Datagram(f.id, "RESET", None))] /\ UNCHANGED lossy
                \/ wire' = [wire EXCEPT ![n] = Tail(@)] /\ lossy' = TRUE
    <3>1. Datagram(f.id, "RESET", None) \in Frame
      BY <2>2 DEF Datagram, Frame
    <3>2. Append(wire[OtherEnd(n)], Datagram(f.id, "RESET", None)) \in Seq(Frame)
      BY <3>1, Appended, OtherEndIs DEF Types
    <3>3. wire' \in [Nodes -> Seq(Frame)] /\ lossy' \in BOOLEAN
      BY <2>1, <2>3, <3>2, OtherEndIs, ZenonT(60) DEF Types
    <3>4. UNCHANGED <<str, mgr, accept>>
      BY <2>0, <2>3
    <3>5. Types'
      BY <3>3, <3>4 DEF Types
    <3>6. Queues'
      BY <3>4 DEF Queues
    <3>7. DispatchWakes'
      BY <3>4 DEF DispatchWakes
    <3> QED BY <3>5, <3>6, <3>7
  <2>4. CASE /\ Len(accept[n]) < AcceptCap
             /\ \E x \in Streams :
                  /\ Fresh(x)
                  /\ str' = [str EXCEPT ![x] = [NoStream EXCEPT !.pc = "queued", !.node = n, !.id = f.id,
                                           !.peer = f.data[1], !.mgr = mgr[n].gen, !.listed = TRUE]]
                  /\ accept' = [accept EXCEPT ![n] = Append(@, x)]
             /\ wire' = [wire EXCEPT ![n] = Tail(@)] /\ UNCHANGED lossy
    <3>1. PICK x \in Streams :
                  /\ Fresh(x)
                  /\ str' = [str EXCEPT ![x] = QueuedStream(n, f.id, f.data[1], mgr[n].gen)]
                  /\ accept' = [accept EXCEPT ![n] = Append(@, x)]
      BY <2>4, ZenonT(60) DEF QueuedStream
    <3> DEFINE r == QueuedStream(n, f.id, f.data[1], mgr[n].gen)
    <3>2. r \in StrState /\ r.pc = "queued" /\ r.reader = "idle"
      <4>1. f.data[1] \in Nat
        BY <2>2 DEF Streams
      <4>2. mgr[n].gen \in Nat
        BY <1>n
      <4> DEFINE w == f.data[1]
                 g == mgr[n].gen
                 id == f.id
      <4> HIDE DEF w, g, id
      <4>3. w \in Nat /\ g \in Nat /\ id \in Nat
        BY <2>2, <4>1, <4>2 DEF w, g, id
      <4>4. QueuedStream(n, id, w, g) \in StrState /\ QueuedStream(n, id, w, g).pc = "queued"
            /\ QueuedStream(n, id, w, g).reader = "idle"
        BY <4>3, QueuedIs
      <4> QED BY <4>4 DEF w, g, id
    <3> HIDE DEF r
    <3>3. str' \in [Streams -> StrState] /\ str'[x] = r /\ \A y \in Streams : y # x => str'[y] = str[y]
      BY <3>1, <3>2, OneStream DEF Types, r
    <3> DEFINE q == accept[n]
               t == Append(q, x)
    <3>4. /\ t \in Seq(Streams) /\ Len(t) = Len(q) + 1 /\ t[Len(q) + 1] = x
          /\ (\A i \in 1..Len(q) : t[i] = q[i]) /\ Len(q) \in Nat
      BY <1>a, AppendProperties
    <3> HIDE DEF t
    <3>5. accept' \in [Nodes -> Seq(Streams)] /\ accept'[n] = t /\ \A m \in Nodes : m # n => accept'[m] = accept[m]
      BY <3>1, <3>4 DEF Types, t
    <3>6. wire' \in [Nodes -> Seq(Frame)]
      BY <2>0, <2>4, Receives, ZenonT(60)
    <3>7. Types'
      BY <2>0, <2>4, <3>2, <3>3, <3>5, <3>6 DEF Types
    <3>8. DispatchWakes'
      BY <3>2, <3>3 DEF DispatchWakes
    <3>9. \A m \in Nodes : \A i \in 1..Len(accept'[m]) :
            \/ m = n /\ i = Len(q) + 1 /\ accept'[m][i] = x
            \/ i \in 1..Len(accept[m]) /\ accept'[m][i] = accept[m][i]
      BY <3>4, <3>5
    <3>10. \A m \in Nodes : \A i \in 1..Len(accept[m]) : i \in 1..Len(accept'[m]) /\ accept'[m][i] = accept[m][i]
      BY <3>4, <3>5
    <3>11. \A m \in Nodes : \A i \in 1..Len(accept[m]) : accept[m][i] # x
      BY <3>1 DEF Queues, Fresh
    <3>12. \A m \in Nodes : Len(accept'[m]) <= AcceptCap
      BY <2>4, <3>4, <3>5 DEF Queues
    <3>13. \A m \in Nodes : \A i \in 1..Len(accept'[m]) : str'[accept'[m][i]].pc = "queued"
      <4> SUFFICES ASSUME NEW m \in Nodes, NEW i \in 1..Len(accept'[m]) PROVE str'[accept'[m][i]].pc = "queued"
        OBVIOUS
      <4>1. CASE accept'[m][i] = x
        BY <3>2, <3>3, <4>1
      <4>2. CASE i \in 1..Len(accept[m]) /\ accept'[m][i] = accept[m][i]
        <5>1. accept[m][i] \in Streams /\ accept[m][i] # x /\ str[accept[m][i]].pc = "queued"
          BY <1>a, <3>11, <4>2 DEF Queues
        <5> QED BY <3>3, <4>2, <5>1
      <4> QED BY <3>9, <4>1, <4>2
    <3>14. ASSUME NEW y \in Streams, str'[y].pc = "queued"
           PROVE  \E m \in Nodes : \E i \in 1..Len(accept'[m]) : accept'[m][i] = y
      <4>1. CASE y = x
        <5>1. Len(q) + 1 \in 1..Len(accept'[n]) /\ accept'[n][Len(q) + 1] = x
          BY <3>4, <3>5
        <5> QED BY <4>1, <5>1
      <4>2. CASE y # x
        <5>1. PICK m \in Nodes : \E i \in 1..Len(accept[m]) : accept[m][i] = y
          BY <3>3, <3>14, <4>2 DEF Queues
        <5> QED BY <3>10, <5>1
      <4> QED BY <4>1, <4>2
    <3>15. \A l, m \in Nodes : \A i \in 1..Len(accept'[l]), j \in 1..Len(accept'[m]) :
             accept'[l][i] = accept'[m][j] => l = m /\ i = j
      <4> SUFFICES ASSUME NEW l \in Nodes, NEW m \in Nodes, NEW i \in 1..Len(accept'[l]),
                          NEW j \in 1..Len(accept'[m]), accept'[l][i] = accept'[m][j]
                   PROVE  l = m /\ i = j
        OBVIOUS
      <4>1. CASE accept'[l][i] = x
        <5>1. l = n /\ i = Len(q) + 1
          BY <3>9, <3>11, <4>1
        <5>2. m = n /\ j = Len(q) + 1
          BY <3>9, <3>11, <4>1, ZenonT(60)
        <5> QED BY <5>1, <5>2
      <4>2. CASE accept'[l][i] # x
        <5>1. i \in 1..Len(accept[l]) /\ accept'[l][i] = accept[l][i]
          BY <3>9, <4>2
        <5>2. j \in 1..Len(accept[m]) /\ accept'[m][j] = accept[m][j]
          BY <3>9, <4>2
        <5>3. accept[l][i] = accept[m][j]
          BY <5>1, <5>2, ZenonT(60)
        <5> QED BY <5>1, <5>2, <5>3 DEF Queues
      <4> QED BY <4>1, <4>2
    <3>16. Queues'
      BY <3>12, <3>13, <3>14, <3>15 DEF Queues
    <3> QED BY <3>7, <3>8, <3>16
  <2> QED BY <1>6, <2>3, <2>4, ZenonT(60) DEF DeliverNew
<1>7. ASSUME NEW x \in Streams, Opened(x) PROVE Types' /\ Queues' /\ DispatchWakes'
  <2> DEFINE r == [str[x] EXCEPT !.pc = "open", !.listed = TRUE]
  <2>1. str' = [str EXCEPT ![x] = r] /\ str[x].pc = "opening" /\ UNCHANGED <<mgr, accept, wire, lossy>>
    BY <1>7, Zenon DEF Opened, Types
  <2>2. r \in StrState /\ r.pc = "open" /\ Awake(r)
    BY <1>0, OpenedIs, ZenonT(60) DEF Awake
  <2> HIDE DEF r
  <2> QED BY <2>1, <2>2, LocalStep, Zenon DEF Local, Types
<1>8. ASSUME NEW x \in Streams, WriteStream(x) PROVE Types' /\ Queues' /\ DispatchWakes'
  <2> DEFINE r == [str[x] EXCEPT !.wrote = @ + 1]
             f == Datagram(str[x].id, "DATA", <<x, str[x].wrote + 1>>)
  <2>1. str' = [str EXCEPT ![x] = r] /\ str[x].pc = "open" /\ UNCHANGED <<mgr, accept>>
        /\ SendTo(OtherEnd(str[x].node), f)
    BY <1>8 DEF WriteStream, Types
  <2>2. r \in StrState /\ r.pc = "open" /\ Awake(r)
    BY <1>0, <2>1, WroteIs DEF Awake
  <2>3. f \in Frame /\ OtherEnd(str[x].node) \in Nodes
    BY <1>0, OtherEndIs DEF StrState, Datagram, Frame, Datum
  <2> HIDE DEF r, f
  <2>4. wire' \in [Nodes -> Seq(Frame)] /\ lossy' \in BOOLEAN
    BY <2>1, <2>3, Sends
  <2> QED BY <2>1, <2>2, <2>4, LocalStep, Zenon DEF Local
<1>9. ASSUME NEW x \in Streams, CloseStream(x) PROVE Types' /\ Queues' /\ DispatchWakes'
  <2> DEFINE r == [str[x] EXCEPT !.closed = "self", !.pc = "removing"]
             f == Datagram(str[x].id, "CLOSE", None)
  <2>1. str' = [str EXCEPT ![x] = r] /\ str[x].pc = "open" /\ UNCHANGED <<mgr, accept>>
        /\ SendTo(OtherEnd(str[x].node), f)
    BY <1>9, Zenon DEF CloseStream, Types
  <2>2. r \in StrState /\ r.pc = "removing" /\ Awake(r)
    BY <1>0, ClosedIs, ZenonT(60) DEF Awake
  <2>3. f \in Frame /\ OtherEnd(str[x].node) \in Nodes
    BY <1>0, OtherEndIs DEF StrState, Datagram, Frame
  <2> HIDE DEF r, f
  <2>4. wire' \in [Nodes -> Seq(Frame)] /\ lossy' \in BOOLEAN
    BY <2>1, <2>3, Sends
  <2> QED BY <2>1, <2>2, <2>4, LocalStep, Zenon DEF Local
<1>10. ASSUME NEW x \in Streams, ResetStream(x) PROVE Types' /\ Queues' /\ DispatchWakes'
  <2> DEFINE r == Broadcast([str[x] EXCEPT !.reset = TRUE, !.buf = <<>>, !.pc = "removing"])
             f == Datagram(str[x].id, "RESET", None)
  <2>1. str' = [str EXCEPT ![x] = r] /\ str[x].pc = "open" /\ UNCHANGED <<mgr, accept>>
        /\ SendTo(OtherEnd(str[x].node), f)
    BY <1>10 DEF ResetStream, Types
  <2>2. r \in StrState /\ r.pc = "removing" /\ Awake(r)
    BY <1>0, ResetIs, ZenonT(60) DEF Awake
  <2>3. f \in Frame /\ OtherEnd(str[x].node) \in Nodes
    BY <1>0, OtherEndIs DEF StrState, Datagram, Frame
  <2> HIDE DEF r, f
  <2>4. wire' \in [Nodes -> Seq(Frame)] /\ lossy' \in BOOLEAN
    BY <2>1, <2>3, Sends
  <2> QED BY <2>1, <2>2, <2>4, LocalStep, Zenon DEF Local
<1>11. ASSUME NEW x \in Streams, RemoveStream(x) PROVE Types' /\ Queues' /\ DispatchWakes'
  BY <1>11, RemovedIs
<1>12. ASSUME NEW x \in Streams, ReadStream(x) PROVE Types' /\ Queues' /\ DispatchWakes'
  <2> DEFINE s == str[x]
             p == IF s.reset THEN "errclosed" ELSE IF s.closed # "no" THEN "eof" ELSE "waits"
             r == IF s.buf # <<>> THEN [s EXCEPT !.buf = Tail(@), !.got = Append(@, Head(s.buf)), !.reader = "idle"]
                  ELSE [s EXCEPT !.reader = p]
  <2>1. str' = [str EXCEPT ![x] = r] /\ str[x].pc = "open" /\ UNCHANGED <<mgr, accept, wire, lossy>>
    BY <1>12 DEF ReadStream
  <2>2. r \in StrState /\ r.pc = "open" /\ Awake(r)
    <3>1. CASE s.buf # <<>>
      BY <1>0, <2>1, <3>1, ReadTakes, ZenonT(60) DEF Awake
    <3>2. CASE s.buf = <<>>
      <4>1. p \in {"errclosed", "eof", "waits"} /\ (p = "waits" => ~s.reset /\ s.closed = "no") /\ r = [s EXCEPT !.reader = p]
        BY <3>2
      <4> HIDE DEF p, r
      <4>2. r \in StrState /\ r.pc = s.pc /\ r.reader = p /\ r.closed = s.closed /\ r.reset = s.reset /\ r.buf = s.buf
        BY <1>0, <4>1, LooksIs, ZenonT(30)
      <4> QED BY <2>1, <3>2, <4>1, <4>2 DEF Awake
    <3> QED BY <3>1, <3>2
  <2> HIDE DEF r
  <2> QED BY <2>1, <2>2, LocalStep, Zenon DEF Local, Types
<1>13. CASE UNCHANGED streamVars
  <2>1. UNCHANGED <<str, mgr, accept, wire, lossy>>
    BY <1>13 DEF streamVars
  <2>2. Types'
    BY <2>1 DEF Types
  <2>3. Queues'
    BY <2>1 DEF Queues
  <2>4. DispatchWakes'
    BY <2>1 DEF DispatchWakes
  <2> QED BY <2>2, <2>3, <2>4
<1> QED BY <1>1, <1>2, <1>3, <1>4, <1>5, <1>6, <1>7, <1>8, <1>9, <1>10, <1>11, <1>12, <1>13 DEF StreamsNext

-----------------------------------------------------------------------------
(* Who wrote what, as long as nothing is lost.                             *)

(* The streams keep their names.                                           *)
SameNames ==
  \A x \in Streams : /\ str'[x].pc = "free" <=> str[x].pc = "free"
                     /\ str'[x].node = str[x].node /\ str'[x].id = str[x].id

LEMMA NamesKept ==
  ASSUME SameNames
  PROVE  /\ \A n, id : Named(n, id)' = Named(n, id)
         /\ \A x \in Streams : (Used(x)' <=> Used(x)) /\ (Alone(x)' <=> Alone(x))
<1>1. \A n, id : Named(n, id)' = Named(n, id)
  BY DEF SameNames, Named
<1>2. \A x \in Streams : Used(x)' <=> Used(x)
  BY DEF SameNames, Used
<1>3. ASSUME NEW x \in Streams PROVE Alone(x)' <=> Alone(x)
  <2>1. str'[x].node = str[x].node /\ str'[x].id = str[x].id
    BY DEF SameNames
  <2>2. Named(str[x].node, str[x].id)' = Named(str[x].node, str[x].id)
        /\ Named(OtherEnd(str[x].node), str[x].id)' = Named(OtherEnd(str[x].node), str[x].id)
    BY <1>1, <2>1 DEF Named
  <2> QED BY <2>2 DEF Alone
<1> QED BY <1>1, <1>2, <1>3

(* The chunks on the wires stay.                                           *)
SameData ==
  \A n \in Nodes : /\ From(wire'[n], wire[n]) /\ InOrder(wire'[n])
                  /\ \A w, k : On(wire'[n], w, k) <=> On(wire[n], w, k)

LEMMA PairedKept ==
  ASSUME Types, Paired, UNCHANGED mgr, SameNames, SameData,
         \A x \in Streams :
           /\ str'[x] \in StrState
           /\ str'[x].peer = str[x].peer /\ str'[x].mgr = str[x].mgr /\ str'[x].wrote = str[x].wrote
           /\ str'[x].listed => str[x].listed \/ In(str[x]) = <<>>
           /\ Len(In(str'[x])) <= Len(In(str[x]))
           /\ \A i \in 1..Len(In(str'[x])) : In(str'[x])[i] = In(str[x])[i]
           /\ ~str'[x].reset => ~str[x].reset /\ In(str'[x]) = In(str[x])
  PROVE  Paired'
<1>0. /\ \A n, id : Named(n, id)' = Named(n, id)
      /\ \A x \in Streams : (Used(x)' <=> Used(x)) /\ (Alone(x)' <=> Alone(x))
  BY NamesKept
<1>1. \A n \in Nodes : \A id : Issued(n, id)' <=> Issued(n, id)
  BY DEF Issued
<1>n. \A x \in Streams : str'[x].node = str[x].node /\ str'[x].id = str[x].id /\ str[x].node \in Nodes
  BY DEF SameNames, Types, StrState
<1>2. Ids'
  <2>1. "a" \in Nodes /\ "b" \in Nodes
    BY DEF Nodes
  <2>2. \A x \in Streams : Used(x)' => str'[x].mgr = 0 /\ (Issued("a", str[x].id) \/ Issued("b", str[x].id))'
    BY <1>0, <1>n, <2>1 DEF Paired, Ids, Issued
  <2>3. \A x \in Streams : Used(x)' /\ str'[x].peer = 0 => Issued(str[x].node, str[x].id)'
    BY <1>0, <1>n DEF Paired, Ids, Issued
  <2>4. \A x, y \in Streams : Used(x)' /\ Used(y)' /\ str'[x].peer = 0 /\ str'[y].peer = 0 /\ str'[x].id = str'[y].id => x = y
    BY <1>0, <1>n, ZenonT(60) DEF Paired, Ids
  <2> QED BY <2>2, <2>3, <2>4 DEF Ids
<1>3. Sources'
  <2> SUFFICES ASSUME NEW n \in Nodes, NEW i \in 1..Len(wire'[n]), wire'[n][i].flag = "DATA"
               PROVE  (wire[n][i].data[1] \in Named(OtherEnd(n), wire[n][i].id))'
    BY DEF Sources
  <2>1. PICK j \in 1..Len(wire[n]) : wire[n][j] = wire'[n][i]
    BY DEF SameData, From
  <2>2. wire[n][j].data[1] \in Named(OtherEnd(n), wire[n][j].id)
    BY <2>1 DEF Paired, Wires, Sources
  <2> QED BY <2>1, <2>2 DEF Named, SameNames
<1>4. UpToLast'
  BY ZenonT(60) DEF Paired, Wires, UpToLast, SameData
<1>5. Wires'
  BY <1>3, <1>4 DEF Wires, SameData
<1>6. FromItsId'
  <2> SUFFICES ASSUME NEW x \in Streams, NEW i \in 1..Len(In(str'[x])) PROVE IsOf(x, In(str[x])[i])'
    BY DEF FromItsId
  <2>0. PICK d : d = In(str[x])[i]
    OBVIOUS
  <2>1. i \in 1..Len(In(str[x])) /\ In(str'[x])[i] = d
    <3>1. Len(In(str[x])) \in Nat /\ Len(In(str'[x])) \in Nat
      BY InFacts DEF Types
    <3> QED BY <2>0, <3>1
  <2>2. IsOf(x, d)
    BY <2>0, <2>1 DEF Paired, FromItsId
  <2>3. IsOf(x, d)'
    BY <1>n, <2>2 DEF IsOf, Named, SameNames
  <2> QED BY <2>1, <2>3 DEF IsOf
<1>7. \A x \in Streams : Whole(x)' => Whole(x) /\ In(str'[x]) = In(str[x])
  BY <1>0 DEF Whole
<1>8. Gapless'
  BY <1>7 DEF Paired, Gapless
<1>9. Rest'
  <2> SUFFICES ASSUME NEW x \in Streams, Whole(x)', str'[x].listed, In(str'[x]) # <<>>
               PROVE  Follows(x, In(str[x])[Len(In(str[x]))])'
    BY DEF Rest
  <2>0. PICK d : d = In(str[x])[Len(In(str[x]))]
    OBVIOUS
  <2>1. Whole(x) /\ In(str'[x]) = In(str[x]) /\ In(str[x]) # <<>> /\ str[x].listed
    BY <1>7
  <2>2. Follows(x, d)
    BY <2>0, <2>1 DEF Paired, Rest
  <2>3. Len(In(str[x])) \in 1..Len(In(str[x]))
    BY <2>1, InFacts DEF Types
  <2>4. d[1] \in Streams
    BY <2>0, <2>3 DEF Paired, FromItsId, IsOf, Named
  <2>5. Follows(x, d)'
    BY <1>n, <2>2, <2>4, SMTT(30) DEF Follows, SameData
  <2> QED BY <2>0, <2>1, <2>5 DEF Follows
<1> QED BY <1>2, <1>5, <1>6, <1>8, <1>9 DEF Paired

(* One stream changes, but for its names, what it wrote and what it has;   *)
(* a reset may take chunks away from it.                                   *)
Milder(s, r) ==
  /\ r \in StrState /\ r.pc # "free"
  /\ r.node = s.node /\ r.id = s.id /\ r.peer = s.peer /\ r.mgr = s.mgr /\ r.wrote = s.wrote
  /\ r.listed => s.listed \/ In(s) = <<>>
  /\ \/ In(r) = In(s) /\ r.reset = s.reset
     \/ In(r) = s.got /\ r.reset

LEMMA OneMilder ==
  ASSUME Types, Paired, UNCHANGED mgr, SameData, NEW x \in Streams, str[x].pc # "free",
         NEW r, Milder(str[x], r), str' = [str EXCEPT ![x] = r]
  PROVE  Paired'
<1>1. str' \in [Streams -> StrState] /\ str'[x] = r /\ \A y \in Streams : y # x => str'[y] = str[y]
  BY OneStream DEF Types, Milder
<1>2. SameNames
  BY <1>1 DEF SameNames, Milder
<1>3. ASSUME NEW y \in Streams
      PROVE  /\ str'[y] \in StrState
             /\ str'[y].peer = str[y].peer /\ str'[y].mgr = str[y].mgr /\ str'[y].wrote = str[y].wrote
             /\ str'[y].listed => str[y].listed \/ In(str[y]) = <<>>
             /\ Len(In(str'[y])) <= Len(In(str[y]))
             /\ \A i \in 1..Len(In(str'[y])) : In(str'[y])[i] = In(str[y])[i]
             /\ ~str'[y].reset => ~str[y].reset /\ In(str'[y]) = In(str[y])
  <2>0. str[y] \in StrState /\ Len(In(str[y])) \in Nat
    BY InFacts DEF Types
  <2>1. CASE y # x
    BY <1>1, <2>0, <2>1
  <2>2. CASE y = x /\ In(r) = In(str[x]) /\ r.reset = str[x].reset
    BY <1>1, <2>0, <2>2 DEF Milder
  <2>3. CASE y = x /\ In(r) = str[x].got /\ r.reset
    <3>1. Len(str[x].got) <= Len(In(str[x])) /\ \A i \in 1..Len(str[x].got) : str[x].got[i] = In(str[x])[i]
      BY <2>0, <2>3, GotFirst
    <3> QED BY <1>1, <2>0, <2>3, <3>1 DEF Milder
  <2> QED BY <2>1, <2>2, <2>3 DEF Milder
<1> QED BY <1>2, <1>3, PairedKept

LEMMA WireStill ==
  ASSUME Types, Paired, UNCHANGED wire
  PROVE  SameData
BY DEF SameData, Paired, Wires, From

LEMMA SentOther ==
  ASSUME Types, Paired, NEW n \in Nodes, NEW f \in Frame, f.flag # "DATA", SendTo(n, f), ~lossy'
  PROVE  SameData
<1>1. wire'[n] = Append(wire[n], f) /\ \A m \in Nodes : m # n => wire'[m] = wire[m]
  BY Sends
<1>2. wire[n] \in Seq(Frame) /\ \A m \in Nodes : InOrder(wire[m])
  BY DEF Types, Paired, Wires
<1>3. From(wire'[n], wire[n]) /\ InOrder(wire'[n]) /\ \A w, k : On(wire'[n], w, k) <=> On(wire[n], w, k)
  BY <1>1, <1>2, AppendsOther
<1>4. \A m \in Nodes : m # n => From(wire'[m], wire[m]) /\ InOrder(wire'[m]) /\ \A w, k : On(wire'[m], w, k) <=> On(wire[m], w, k)
  BY <1>1, <1>2 DEF From
<1> QED BY <1>3, <1>4 DEF SameData

LEMMA ReceivedOther ==
  ASSUME Types, Paired, NEW n \in Nodes, wire[n] # <<>>, wire' = [wire EXCEPT ![n] = Tail(@)], Head(wire[n]).flag # "DATA"
  PROVE  SameData
<1>1. wire'[n] = Tail(wire[n]) /\ \A m \in Nodes : m # n => wire'[m] = wire[m]
  BY Receives, Zenon
<1>2. wire[n] \in Seq(Frame) /\ \A m \in Nodes : InOrder(wire[m])
  BY DEF Types, Paired, Wires
<1>3. From(wire'[n], wire[n]) /\ InOrder(wire'[n]) /\ \A w, k : On(wire'[n], w, k) <=> On(wire[n], w, k)
  BY <1>1, <1>2, PopsOther
<1>4. \A m \in Nodes : m # n => From(wire'[m], wire[m]) /\ InOrder(wire'[m]) /\ \A w, k : On(wire'[m], w, k) <=> On(wire[m], w, k)
  BY <1>1, <1>2 DEF From
<1> QED BY <1>3, <1>4 DEF SameData

-----------------------------------------------------------------------------
LEMMA IdsKept ==
  ASSUME Types, Ids, UNCHANGED mgr, SameNames,
         \A x \in Streams : str'[x].peer = str[x].peer /\ str'[x].mgr = str[x].mgr
  PROVE  Ids'
<1>0. \A x \in Streams : Used(x)' <=> Used(x)
  BY DEF SameNames, Used
<1>1. \A x \in Streams : str'[x].node = str[x].node /\ str'[x].id = str[x].id
  BY DEF SameNames
<1>2. \A x \in Streams : Used(x)' => str'[x].mgr = 0 /\ (Issued("a", str[x].id) \/ Issued("b", str[x].id))'
  BY <1>0, <1>1 DEF Ids, Issued
<1>3. \A x \in Streams : Used(x)' /\ str'[x].peer = 0 => Issued(str[x].node, str[x].id)'
  BY <1>0, <1>1 DEF Ids, Issued
<1>4. \A x, y \in Streams : Used(x)' /\ Used(y)' /\ str'[x].peer = 0 /\ str'[y].peer = 0 /\ str'[x].id = str'[y].id => x = y
  BY <1>0, <1>1 DEF Ids
<1> QED BY <1>2, <1>3, <1>4 DEF Ids

(* Whose chunks a wire carries.                                            *)
LEMMA OnNamed ==
  ASSUME Types, Sources, NEW n \in Nodes, NEW w, NEW k, On(wire[n], w, k)
  PROVE  w \in Streams /\ Used(w) /\ str[w].node = OtherEnd(n)
<1>1. PICK i \in 1..Len(wire[n]) : wire[n][i].flag = "DATA" /\ wire[n][i].data = <<w, k>>
  BY DEF On
<1>2. wire[n][i].data[1] \in Named(OtherEnd(n), wire[n][i].id) /\ wire[n][i].data[1] = w
  BY <1>1 DEF Sources
<1> QED BY <1>2 DEF Named, Used

LEMMA WritePaired ==
  ASSUME Types, Paired, NEW x \in Streams, WriteStream(x), ~lossy'
  PROVE  Paired'
<1> DEFINE n == OtherEnd(str[x].node)
           p == str[x].wrote
           f == Datagram(str[x].id, "DATA", <<x, p + 1>>)
<1>0. str[x] \in StrState /\ str[x].node \in Nodes /\ str[x].id \in Nat /\ p \in Nat /\ str[x].pc = "open"
  BY DEF Types, StrState, WriteStream
<1>1. n \in Nodes /\ OtherEnd(n) = str[x].node /\ \A m \in Nodes : OtherEnd(m) = str[x].node => m = n
  BY <1>0, OtherEndIs
<1>2. f \in Frame /\ f.flag = "DATA" /\ f.data = <<x, p + 1>> /\ f.id = str[x].id /\ f.data[1] = x /\ f.data[2] = p + 1
  BY <1>0 DEF Datagram, Frame, Datum
<1>3. str' = [str EXCEPT ![x] = [str[x] EXCEPT !.wrote = @ + 1]] /\ SendTo(n, f) /\ UNCHANGED mgr
  BY DEF WriteStream
<1> HIDE DEF f
<1>4. wire'[n] = Append(wire[n], f) /\ (\A m \in Nodes : m # n => wire'[m] = wire[m]) /\ wire[n] \in Seq(Frame)
  BY <1>1, <1>2, <1>3, Sends DEF Types
<1>5. /\ \A y \in Streams : /\ str'[y].pc = str[y].pc /\ str'[y].node = str[y].node /\ str'[y].id = str[y].id
                            /\ str'[y].peer = str[y].peer /\ str'[y].mgr = str[y].mgr /\ str'[y].reset = str[y].reset
                            /\ str'[y].listed = str[y].listed /\ In(str'[y]) = In(str[y])
                            /\ y # x => str'[y].wrote = str[y].wrote
      /\ str'[x].wrote = p + 1
  <2>1. LET r == [str[x] EXCEPT !.wrote = @ + 1]
        IN  /\ r \in StrState /\ r.pc = str[x].pc /\ r.reset = str[x].reset
            /\ r.buf = str[x].buf /\ r.got = str[x].got /\ r.node = str[x].node /\ r.id = str[x].id /\ r.peer = str[x].peer
            /\ r.mgr = str[x].mgr /\ r.wrote = str[x].wrote + 1 /\ r.listed = str[x].listed
    BY <1>0, WroteIs
  <2>2. str'[x] = [str[x] EXCEPT !.wrote = @ + 1] /\ \A y \in Streams : y # x => str'[y] = str[y]
    BY <1>3 DEF Types
  <2> QED BY <2>1, <2>2, Zenon DEF In
<1>6. SameNames
  BY <1>5 DEF SameNames
<1>7. /\ \A m, id : Named(m, id)' = Named(m, id)
      /\ \A y \in Streams : (Used(y)' <=> Used(y)) /\ (Alone(y)' <=> Alone(y))
  BY <1>6, NamesKept
<1>w. \A y \in Streams : str[y].wrote \in Nat /\ str[y].node \in Nodes
  BY Zenon DEF Types, StrState
<1>8. Ids'
  BY <1>3, <1>5, <1>6, IdsKept DEF Paired
<1> HIDE DEF n, p
<1>on. /\ \A w, k : On(wire'[n], w, k) <=> On(wire[n], w, k) \/ <<x, p + 1>> = <<w, k>>
       /\ InOrder(wire[n]) /\ (\A k \in Nat : On(wire[n], x, k) => k < p + 1) => InOrder(wire'[n])
  BY <1>2, <1>4, AppendsData
<1>no. \A m \in Nodes : \A k : m # n => ~On(wire[m], x, k)
  BY <1>1, OnNamed, ZenonT(60) DEF Paired, Wires
<1>9. Sources'
  <2> SUFFICES ASSUME NEW m \in Nodes, NEW i \in 1..Len(wire'[m]), wire'[m][i].flag = "DATA"
               PROVE  (wire[m][i].data[1] \in Named(OtherEnd(m), wire[m][i].id))'
    BY DEF Sources
  <2>1. CASE i \in 1..Len(wire[m]) /\ wire'[m][i] = wire[m][i]
    <3>1. wire[m][i].data[1] \in Named(OtherEnd(m), wire[m][i].id)
      BY <2>1 DEF Paired, Wires, Sources
    <3> QED BY <2>1, <3>1, <1>6 DEF Named, SameNames
  <2>2. CASE m = n /\ wire'[m][i] = f
    BY <2>2, <1>0, <1>1, <1>2, <1>5 DEF Named
  <2>3. m # n => i \in 1..Len(wire[m]) /\ wire'[m][i] = wire[m][i]
    BY <1>4
  <2>4. m = n => \/ i \in 1..Len(wire[m]) /\ wire'[m][i] = wire[m][i]
                 \/ wire'[m][i] = f
    <3>1. /\ Len(wire'[n]) = Len(wire[n]) + 1 /\ Len(wire[n]) \in Nat /\ wire'[n][Len(wire[n]) + 1] = f
          /\ \A j \in 1..Len(wire[n]) : wire'[n][j] = wire[n][j]
      BY <1>2, <1>4, Appended
    <3> QED BY <3>1
  <2> QED BY <2>1, <2>2, <2>3, <2>4
<1>10. UpToLast'
  <2> SUFFICES ASSUME NEW m \in Nodes, NEW w \in Streams, NEW k \in Nat, On(wire'[m], w, k)
               PROVE  k <= str'[w].wrote /\ \A j \in Nat : k < j /\ j <= str'[w].wrote => On(wire'[m], w, j)
    BY DEF UpToLast
  <2>0. \A j \in Nat : On(wire[m], w, j) => j <= str[w].wrote /\ \A i \in Nat : j < i /\ i <= str[w].wrote => On(wire[m], w, i)
    BY DEF Paired, Wires, UpToLast
  <2>1. CASE w # x
    <3>1. \A j : On(wire'[m], w, j) <=> On(wire[m], w, j)
      BY <2>1, <1>on, <1>4, ZenonT(60)
    <3> QED BY <2>0, <2>1, <3>1, <1>5
  <2>2. CASE w = x /\ m # n
    BY <2>2, <1>no, <1>4
  <2>3. CASE w = x /\ m = n
    <3>1. \A j \in Nat : On(wire'[m], w, j) <=> On(wire[m], w, j) \/ j = p + 1
      BY <2>3, <1>on
    <3>2. str[w].wrote = p /\ str'[w].wrote = p + 1 /\ p \in Nat
      BY <2>3, <1>0, <1>5 DEF p
    <3>3. k <= p + 1
      BY <2>0, <3>1, <3>2
    <3>4. ASSUME NEW j \in Nat, k < j, j <= p + 1 PROVE On(wire'[m], w, j)
      <4>1. CASE j = p + 1
        BY <3>1, <4>1
      <4>2. CASE j # p + 1
        <5>1. j <= p /\ k # p + 1
          BY <3>2, <3>4, <4>2
        <5> QED BY <2>0, <3>1, <3>2, <3>4, <5>1
      <4> QED BY <4>1, <4>2
    <3> QED BY <3>2, <3>3, <3>4
  <2> QED BY <2>1, <2>2, <2>3
<1>11. \A m \in Nodes : InOrder(wire'[m])
  <2>1. \A k \in Nat : On(wire[n], x, k) => k < p + 1
    BY <1>0, <1>1 DEF Paired, Wires, UpToLast, p
  <2> QED BY <2>1, <1>1, <1>4, <1>on, ZenonT(60) DEF Paired, Wires
<1>12. FromItsId'
  <2> SUFFICES ASSUME NEW y \in Streams, NEW i \in 1..Len(In(str'[y])) PROVE IsOf(y, In(str[y])[i])'
    BY DEF FromItsId
  <2>0. PICK d : d = In(str[y])[i]
    OBVIOUS
  <2>1. i \in 1..Len(In(str[y])) /\ In(str'[y])[i] = d /\ In(str[y])[i] \in Datum
    BY <2>0, <1>5, InFacts DEF Types
  <2>2. IsOf(y, d) /\ d[2] \in Nat
    BY <2>0, <2>1 DEF Paired, FromItsId, Datum
  <2>3. d[1] \in Streams
    BY <2>2 DEF IsOf, Named
  <2>4. d[2] <= str'[d[1]].wrote
    BY <2>2, <2>3, <1>5, <1>0, <1>w DEF IsOf, p
  <2>5. d[1] \in Named(OtherEnd(str[y].node), str[y].id)'
    BY <2>2, <1>5 DEF IsOf, Named
  <2>6. IsOf(y, d)'
    BY <2>4, <2>5 DEF IsOf
  <2> QED BY <2>1, <2>6 DEF IsOf
<1>13. \A y \in Streams : Whole(y)' => Whole(y)
  BY <1>5, <1>7 DEF Whole
<1>14. Gapless'
  BY <1>13, <1>5 DEF Paired, Gapless
<1>15. Rest'
  <2> SUFFICES ASSUME NEW y \in Streams, Whole(y)', str'[y].listed, In(str'[y]) # <<>>
               PROVE  Follows(y, In(str[y])[Len(In(str[y]))])'
    BY DEF Rest
  <2>0. PICK d : d = In(str[y])[Len(In(str[y]))]
    OBVIOUS
  <2>1. Whole(y) /\ In(str'[y]) = In(str[y]) /\ In(str[y]) # <<>> /\ str[y].listed
    BY <1>5, <1>13
  <2>2. Follows(y, d)
    BY <2>0, <2>1 DEF Paired, Rest
  <2>3. Len(In(str[y])) \in 1..Len(In(str[y])) /\ In(str[y])[Len(In(str[y]))] \in Datum
    BY <2>1, InFacts DEF Types
  <2>4. IsOf(y, d) /\ d[2] \in Nat
    BY <2>0, <2>3 DEF Paired, FromItsId, Datum
  <2>5. d[1] \in Streams /\ str[d[1]].node = OtherEnd(str[y].node) /\ d[2] <= str[d[1]].wrote
    BY <2>4 DEF IsOf, Named
  <2>6. CASE d[1] # x
    <3>1. \A m \in Nat : On(wire'[str[y].node], d[1], m) <=> On(wire[str[y].node], d[1], m)
      BY <2>6, <1>4, <1>on, <1>w, Zenon
    <3>2. Follows(y, d)'
      BY <2>2, <2>5, <2>6, <3>1, <1>5, ZenonT(60) DEF Follows
    <3> QED BY <2>0, <2>1, <3>2 DEF Follows
  <2>7. CASE d[1] = x
    <3>1. str[y].node = n
      BY <2>5, <2>7, <1>1, <1>w
    <3>2. \A m \in Nat : On(wire'[n], x, m) <=> On(wire[n], x, m) \/ m = p + 1
      BY <1>on
    <3>3. \A m \in Nat : On(wire[n], x, m) <=> d[2] < m /\ m <= p
      BY <2>2, <2>7, <3>1 DEF Follows, p
    <3>4. d[2] <= p /\ p \in Nat
      BY <2>5, <2>7, <1>0 DEF p
    <3>5. \A m \in Nat : On(wire'[n], x, m) <=> d[2] < m /\ m <= p + 1
      BY <2>4, <3>2, <3>3, <3>4
    <3>6. Follows(y, d)'
      BY <2>7, <3>1, <3>5, <1>5 DEF Follows
    <3> QED BY <2>0, <2>1, <3>6 DEF Follows
  <2> QED BY <2>6, <2>7
<1> QED BY <1>8, <1>9, <1>10, <1>11, <1>12, <1>14, <1>15 DEF Paired, Wires

-----------------------------------------------------------------------------
(* A stream is added to those in use.                                      *)
Adds(x, r) ==
  /\ str[x].pc = "free" /\ r \in StrState /\ r.pc # "free" /\ In(r) = <<>>
  /\ str' = [str EXCEPT ![x] = r]

LEMMA AddsIs ==
  ASSUME Types, NEW x \in Streams, NEW r, Adds(x, r)
  PROVE  /\ str' \in [Streams -> StrState] /\ str'[x] = r
         /\ \A y \in Streams : y # x => str'[y] = str[y]
         /\ \A n, id : Named(n, id) \subseteq Named(n, id)' /\ x \notin Named(n, id)
         /\ \A y \in Streams : Used(y) => y # x
         /\ \A y \in Streams : Used(y)' => y = x \/ Used(y)
         /\ \A y \in Streams : Whole(y)' => y = x \/ Whole(y)
<1>1. str' \in [Streams -> StrState] /\ str'[x] = r /\ \A y \in Streams : y # x => str'[y] = str[y]
  BY OneStream DEF Types, Adds
<1>2. \A n, id : Named(n, id) \subseteq Named(n, id)' /\ x \notin Named(n, id)
  BY <1>1 DEF Named, Adds
<1>3. (\A y \in Streams : Used(y) => y # x) /\ \A y \in Streams : Used(y)' => y = x \/ Used(y)
  BY <1>1 DEF Used, Adds
<1>4. ASSUME NEW y \in Streams, Whole(y)', y # x PROVE Whole(y)
  <2>1. str'[y] = str[y] /\ Used(y) /\ ~str[y].reset
    BY <1>1, <1>4 DEF Whole, Used
  <2>2. y \in Named(str[y].node, str[y].id)
    BY <2>1 DEF Named, Used
  <2>3. PICK n, o, id : n = str[y].node /\ o = OtherEnd(str[y].node) /\ id = str[y].id
    OBVIOUS
  <2>4. Named(n, id)' = {y} /\ \A u, v \in Named(o, id)' : u = v
    BY <1>4, <2>1, <2>3 DEF Whole, Alone
  <2>5. Named(n, id) = {y} /\ \A u, v \in Named(o, id) : u = v
    BY <1>2, <2>2, <2>3, <2>4
  <2> QED BY <2>1, <2>3, <2>5 DEF Whole, Alone
<1> QED BY <1>1, <1>2, <1>3, <1>4

LEMMA AddsPaired ==
  ASSUME Types, Paired, NEW x \in Streams, NEW r, Adds(x, r), \A m \in Nodes : From(wire'[m], wire[m])
  PROVE  Sources' /\ FromItsId' /\ Gapless'
<1>0. /\ str' \in [Streams -> StrState] /\ str'[x] = r /\ In(str'[x]) = <<>>
      /\ \A y \in Streams : y # x => str'[y] = str[y]
      /\ \A n, id : Named(n, id) \subseteq Named(n, id)' /\ x \notin Named(n, id)
      /\ \A y \in Streams : Whole(y)' => y = x \/ Whole(y)
  BY AddsIs, Zenon DEF Adds
<1>e. Len(<<>>) = 0
  OBVIOUS
<1>1. Sources'
  <2> SUFFICES ASSUME NEW m \in Nodes, NEW i \in 1..Len(wire'[m]), wire'[m][i].flag = "DATA"
               PROVE  (wire[m][i].data[1] \in Named(OtherEnd(m), wire[m][i].id))'
    BY DEF Sources
  <2>1. PICK j \in 1..Len(wire[m]) : wire[m][j] = wire'[m][i]
    BY DEF From
  <2>2. wire[m][j].data[1] \in Named(OtherEnd(m), wire[m][j].id)
    BY <2>1 DEF Paired, Wires, Sources
  <2>3. PICK o, id : o = OtherEnd(m) /\ id = wire[m][j].id
    OBVIOUS
  <2>4. wire[m][j].data[1] \in Named(o, id)'
    BY <1>0, <2>2, <2>3
  <2> QED BY <2>1, <2>3, <2>4 DEF Named
<1>2. FromItsId'
  <2> SUFFICES ASSUME NEW y \in Streams, NEW i \in 1..Len(In(str'[y])) PROVE IsOf(y, In(str[y])[i])'
    BY DEF FromItsId
  <2>1. y # x /\ str'[y] = str[y]
    BY <1>0, <1>e
  <2>2. PICK d, o, id : d = In(str[y])[i] /\ o = OtherEnd(str[y].node) /\ id = str[y].id
    OBVIOUS
  <2>3. d[1] \in Named(o, id) /\ d[2] <= str[d[1]].wrote
    BY <2>1, <2>2 DEF Paired, FromItsId, IsOf
  <2>4. d[1] \in Named(o, id)' /\ str'[d[1]] = str[d[1]]
    BY <1>0, <2>3 DEF Named
  <2>5. IsOf(y, d)'
    BY <2>1, <2>2, <2>3, <2>4 DEF IsOf
  <2> QED BY <2>1, <2>2, <2>5 DEF IsOf
<1>3. Gapless'
  <2> SUFFICES ASSUME NEW y \in Streams, Whole(y)' PROVE NoGap(In(str'[y]))
    BY DEF Gapless
  <2>1. CASE y = x
    BY <1>0, <1>e, <2>1 DEF NoGap
  <2>2. CASE y # x
    BY <1>0, <2>2 DEF Paired, Gapless
  <2> QED BY <2>1, <2>2
<1> QED BY <1>1, <1>2, <1>3

LEMMA OpenPaired ==
  ASSUME Types, Paired, Calm, NEW n \in Nodes, OpenStream(n)
  PROVE  Paired'
<1>0. mgr[n].gen = 0 /\ mgr[n].next \in Nat /\ (\A m \in Nodes : mgr[m].next \in Nat) /\ Nodes = {"a", "b"}
  BY DEF Calm, Types, Nodes
<1>1. PICK c \in Nat : c = AllocID(n) /\ c = 2 * mgr[n].next + OddBit(n)
  BY <1>0 DEF AllocID, OddBit
<1>2. PICK x \in Streams : Fresh(x) /\ str' = [str EXCEPT ![x] = OpeningStream(n, c, mgr[n].gen)]
  BY <1>1, Zenon DEF OpenStream, OpeningStream
<1>3. UNCHANGED wire /\ mgr' = [mgr EXCEPT ![n].next = @ + 1]
  BY DEF OpenStream
<1>4. PICK r : r = OpeningStream(n, c, mgr[n].gen)
  OBVIOUS
<1>5. r \in StrState /\ r.pc = "opening" /\ r.node = n /\ r.id = c /\ r.peer = 0 /\ r.mgr = 0 /\ In(r) = <<>>
  BY <1>0, <1>1, <1>4, OpeningIs
<1>6. Adds(x, r)
  BY <1>2, <1>4, <1>5 DEF Adds, Fresh
<1>7. /\ str' \in [Streams -> StrState] /\ str'[x] = r /\ In(str'[x]) = <<>>
      /\ \A y \in Streams : y # x => str'[y] = str[y]
      /\ \A m, id : x \notin Named(m, id)
      /\ \A y \in Streams : Used(y) => y # x
      /\ \A y \in Streams : Used(y)' => y = x \/ Used(y)
      /\ \A y \in Streams : Whole(y)' => y = x \/ Whole(y)
  BY <1>5, <1>6, AddsIs
<1>8. Sources' /\ FromItsId' /\ Gapless'
  <2>1. \A m \in Nodes : From(wire'[m], wire[m])
    BY <1>3 DEF From
  <2> QED BY <1>6, <2>1, AddsPaired
<1>9. mgr'[n].next = mgr[n].next + 1 /\ \A m \in Nodes : m # n => mgr'[m] = mgr[m]
  BY <1>3 DEF Types
<1>10. \A m \in Nodes : \A id : Issued(m, id) => Issued(m, id)'
  BY <1>0, <1>9 DEF Issued
<1>11. Issued(n, c)'
  <2>1. mgr[n].next < mgr'[n].next /\ c = 2 * mgr[n].next + OddBit(n)
    BY <1>0, <1>1, <1>9
  <2> QED BY <1>0, <2>1 DEF Issued
<1>12. \A y \in Streams : Used(y) => str[y].id # c
  <2> SUFFICES ASSUME NEW y \in Streams, Used(y), str[y].id = c PROVE FALSE
    OBVIOUS
  <2>1. Issued("a", c) \/ Issued("b", c)
    BY DEF Paired, Ids
  <2>2. PICK m \in Nodes, k \in Nat : k < mgr[m].next /\ c = 2 * k + OddBit(m)
    BY <1>0, <2>1 DEF Issued
  <2>3. 2 * k + OddBit(m) = 2 * mgr[n].next + OddBit(n)
    BY <1>1, <2>2
  <2>4. m = n
    BY <1>0, <2>2, <2>3 DEF OddBit
  <2> QED BY <1>0, <2>2, <2>3, <2>4 DEF OddBit
<1>13. Ids'
  <2>1. \A y \in Streams : Used(y)' => str'[y].mgr = 0 /\ (Issued("a", str[y].id) \/ Issued("b", str[y].id))'
    <3> SUFFICES ASSUME NEW y \in Streams, Used(y)'
                 PROVE  str'[y].mgr = 0 /\ (Issued("a", str[y].id) \/ Issued("b", str[y].id))'
      OBVIOUS
    <3>1. CASE y = x
      <4>1. PICK id : id = str'[y].id
        OBVIOUS
      <4>2. Issued(n, id)'
        BY <1>5, <1>7, <1>11, <3>1, <4>1 DEF Issued
      <4>3. Issued("a", id)' \/ Issued("b", id)'
        BY <1>0, <4>2
      <4> QED BY <1>5, <1>7, <3>1, <4>1, <4>3 DEF Issued
    <3>2. CASE y # x
      <4>1. PICK id : id = str[y].id
        OBVIOUS
      <4>2. str'[y] = str[y] /\ str[y].mgr = 0 /\ (Issued("a", id) \/ Issued("b", id))
        BY <1>7, <3>2, <4>1 DEF Paired, Ids
      <4>3. Issued("a", id)' \/ Issued("b", id)'
        BY <1>0, <1>10, <4>2
      <4> QED BY <4>1, <4>2, <4>3 DEF Issued
    <3> QED BY <3>1, <3>2
  <2>2. \A y \in Streams : Used(y)' /\ str'[y].peer = 0 => Issued(str[y].node, str[y].id)'
    <3> SUFFICES ASSUME NEW y \in Streams, Used(y)', str'[y].peer = 0 PROVE Issued(str[y].node, str[y].id)'
      OBVIOUS
    <3>1. CASE y = x
      BY <1>5, <1>7, <1>11, <3>1 DEF Issued
    <3>2. CASE y # x
      <4>1. PICK m, id : id = str[y].id /\ m = str[y].node
        OBVIOUS
      <4>2. str'[y] = str[y] /\ Issued(m, id) /\ m \in Nodes
        BY <1>7, <3>2, <4>1, ZenonT(60) DEF Paired, Ids, Types, StrState
      <4>3. Issued(m, id)'
        BY <1>10, <4>2
      <4> QED BY <4>1, <4>2, <4>3, ZenonT(60) DEF Issued
    <3> QED BY <3>1, <3>2
  <2>3. \A y, z \in Streams : Used(y)' /\ Used(z)' /\ str'[y].peer = 0 /\ str'[z].peer = 0 /\ str'[y].id = str'[z].id => y = z
    <3> SUFFICES ASSUME NEW y \in Streams, NEW z \in Streams, Used(y)', Used(z)', str'[y].peer = 0, str'[z].peer = 0,
                        str'[y].id = str'[z].id
                 PROVE  y = z
      OBVIOUS
    <3>1. CASE y # x /\ z # x
      BY <1>7, <3>1 DEF Paired, Ids
    <3>2. CASE y = x \/ z = x
      BY <1>5, <1>7, <1>12, <3>2
    <3> QED BY <3>1, <3>2
  <2> QED BY <2>1, <2>2, <2>3 DEF Ids
<1>14. UpToLast' /\ \A m \in Nodes : InOrder(wire'[m])
  <2> SUFFICES ASSUME NEW m \in Nodes, NEW w \in Streams, NEW k \in Nat, On(wire[m], w, k)
               PROVE  k <= str'[w].wrote /\ \A j \in Nat : k < j /\ j <= str'[w].wrote => On(wire[m], w, j)
    BY <1>3 DEF UpToLast, Paired, Wires
  <2>1. Used(w)
    BY OnNamed DEF Paired, Wires
  <2> QED BY <1>7, <2>1 DEF Paired, Wires, UpToLast
<1>15. Rest'
  <2> SUFFICES ASSUME NEW y \in Streams, Whole(y)', str'[y].listed, In(str'[y]) # <<>>
               PROVE  Follows(y, In(str[y])[Len(In(str[y]))])'
    BY DEF Rest
  <2>0. PICK d : d = In(str[y])[Len(In(str[y]))]
    OBVIOUS
  <2>1. y # x /\ Whole(y) /\ str'[y] = str[y]
    BY <1>7
  <2>2. Follows(y, d)
    BY <2>0, <2>1 DEF Paired, Rest
  <2>3. Len(In(str[y])) \in 1..Len(In(str[y]))
    BY <2>1, InFacts DEF Types
  <2>r. IsOf(y, d)
    BY <2>0, <2>3 DEF Paired, FromItsId
  <2>4. d[1] \in Streams /\ str'[d[1]] = str[d[1]]
    BY <1>7, <2>r, Zenon DEF IsOf, Named
  <2>5. Follows(y, d)'
    BY <1>3, <2>1, <2>2, <2>4 DEF Follows
  <2> QED BY <2>0, <2>1, <2>5 DEF Follows
<1> QED BY <1>8, <1>13, <1>14, <1>15 DEF Paired, Wires

-----------------------------------------------------------------------------
(* The first datagram for n, chunk k of stream w, is taken off the wire.   *)
Taken(n, w, k) ==
  /\ On(wire[n], w, k) /\ w \in Streams /\ k \in Nat
  /\ \A m \in Nat : On(wire[n], w, m) => k <= m
  /\ \A m \in Nodes :
       /\ From(wire'[m], wire[m]) /\ InOrder(wire'[m])
       /\ \A v \in Streams, j \in Nat : On(wire'[m], v, j) <=> On(wire[m], v, j) /\ (m = n /\ v = w => k < j)

LEMMA DataTaken ==
  ASSUME Types, Paired, NEW n \in Nodes, wire[n] # <<>>, NEW f \in Frame, f = Head(wire[n]), f.flag = "DATA",
         wire'[n] = Tail(wire[n]),
         \/ wire'[OtherEnd(n)] = wire[OtherEnd(n)]
         \/ wire'[OtherEnd(n)] = Append(wire[OtherEnd(n)], Datagram(f.id, "RESET", None))
  PROVE  /\ Taken(n, f.data[1], f.data[2])
         /\ f.data[1] \in Named(OtherEnd(n), f.id) /\ f.data[2] <= str[f.data[1]].wrote
         /\ f.data = <<f.data[1], f.data[2]>> /\ f.data \in Datum
<1>0. wire[n] \in Seq(Frame) /\ InOrder(wire[n]) /\ OtherEnd(n) \in Nodes /\ \A m \in Nodes : m # n => m = OtherEnd(n)
  BY OtherEndIs DEF Types, Paired, Wires
<1>1. PICK w, k : w = f.data[1] /\ k = f.data[2]
  BY ZenonT(60)
<1>2. /\ From(wire'[n], wire[n]) /\ InOrder(wire'[n]) /\ On(wire[n], w, k) /\ w \in Streams /\ k \in Nat
      /\ \A v \in Streams, j \in Nat : On(wire'[n], v, j) <=> On(wire[n], v, j) /\ (v = w => k < j)
      /\ \A m \in Nat : On(wire[n], w, m) => k <= m
  BY <1>0, <1>1, PopsData
<1>3. ASSUME NEW o \in Nodes, o = OtherEnd(n)
      PROVE  /\ From(wire'[o], wire[o]) /\ InOrder(wire'[o])
             /\ \A v, j : On(wire'[o], v, j) <=> On(wire[o], v, j)
  <2>1. wire[o] \in Seq(Frame) /\ InOrder(wire[o])
    BY DEF Types, Paired, Wires
  <2>2. CASE wire'[o] = wire[o]
    BY <2>1, <2>2 DEF From
  <2>3. CASE wire'[o] = Append(wire[o], Datagram(f.id, "RESET", None))
    <3>1. Datagram(f.id, "RESET", None) \in Frame /\ Datagram(f.id, "RESET", None).flag # "DATA"
      BY FrameCases DEF Datagram, Frame
    <3> HIDE DEF Datagram
    <3> QED BY <2>1, <2>3, <3>1, AppendsOther
  <2> QED BY <1>3, <2>2, <2>3
<1>4. ASSUME NEW m \in Nodes
      PROVE  /\ From(wire'[m], wire[m]) /\ InOrder(wire'[m])
             /\ \A v \in Streams, j \in Nat : On(wire'[m], v, j) <=> On(wire[m], v, j) /\ (m = n /\ v = w => k < j)
  <2>1. CASE m = n
    BY <1>2, <2>1
  <2>2. CASE m # n
    BY <1>0, <1>3, <2>2
  <2> QED BY <2>1, <2>2
<1>5. Taken(n, w, k)
  BY <1>2, <1>4, SMTT(30) DEF Taken
<1>6. f.data = <<f.data[1], f.data[2]>> /\ f.data \in Datum
  BY FrameCases
<1>7. f.data[1] \in Named(OtherEnd(n), f.id)
  <2>1. wire[n][1] = f /\ 1 \in 1..Len(wire[n])
    BY <1>0, Popped
  <2> QED BY <2>1 DEF Paired, Wires, Sources
<1>8. k <= str[w].wrote
  BY <1>2 DEF Paired, Wires, UpToLast
<1> QED BY <1>1, <1>5, <1>6, <1>7, <1>8

LEMMA TakenUpToLast ==
  ASSUME Types, Paired, NEW n \in Nodes, NEW w \in Streams, NEW k \in Nat, Taken(n, w, k),
         \A v \in Streams : Used(v) => str'[v].wrote = str[v].wrote
  PROVE  UpToLast' /\ \A m \in Nodes : InOrder(wire'[m])
<1>1. ASSUME NEW m \in Nodes, NEW v \in Streams, NEW j \in Nat, On(wire'[m], v, j)
      PROVE  j <= str'[v].wrote /\ \A i \in Nat : j < i /\ i <= str'[v].wrote => On(wire'[m], v, i)
  <2>1. On(wire[m], v, j) /\ (m = n /\ v = w => k < j)
    BY <1>1 DEF Taken
  <2>2. str'[v].wrote = str[v].wrote
    BY <2>1, OnNamed DEF Paired, Wires
  <2>3. j <= str[v].wrote /\ \A i \in Nat : j < i /\ i <= str[v].wrote => On(wire[m], v, i)
    BY <2>1 DEF Paired, Wires, UpToLast
  <2>4. \A i \in Nat : j < i /\ On(wire[m], v, i) => On(wire'[m], v, i)
    BY <2>1 DEF Taken
  <2> QED BY <2>2, <2>3, <2>4
<1>2. UpToLast'
  BY <1>1 DEF UpToLast
<1> QED BY <1>2 DEF Taken

(* A stream that no chunk of the taken datagram is for keeps its rest.     *)
LEMMA RestOfOthers ==
  ASSUME Types, Paired, NEW n \in Nodes, NEW w \in Streams, NEW k \in Nat, Taken(n, w, k),
         NEW y \in Streams, Whole(y), str[y].listed, In(str[y]) # <<>>, str'[y] = str[y],
         \A v \in Streams : Used(v) => str'[v].wrote = str[v].wrote,
         NEW id, w \in Named(OtherEnd(n), id), ~(str[y].node = n /\ str[y].id = id)
  PROVE  Follows(y, In(str[y])[Len(In(str[y]))])'
<1>0. PICK d : d = In(str[y])[Len(In(str[y]))]
  OBVIOUS
<1>2. Follows(y, d)
  BY <1>0 DEF Paired, Rest
<1>3. Len(In(str[y])) \in 1..Len(In(str[y])) /\ In(str[y])[Len(In(str[y]))] \in Datum
  BY InFacts DEF Types
<1>4. IsOf(y, d) /\ d[2] \in Nat
  BY <1>0, <1>3 DEF Paired, FromItsId, Datum
<1>5. d[1] \in Streams /\ Used(d[1]) /\ str[d[1]].id = str[y].id /\ str[w].id = id
  BY <1>4 DEF IsOf, Named, Used
<1>6. ~(str[y].node = n /\ d[1] = w)
  BY <1>5
<1>7. str[y].node \in Nodes
  BY DEF Types, StrState
<1>8. \A m \in Nat : On(wire'[str[y].node], d[1], m) <=> On(wire[str[y].node], d[1], m)
  BY <1>5, <1>6, <1>7, ZenonT(60) DEF Taken
<1>9. Follows(y, d)'
  BY <1>2, <1>5, <1>8 DEF Follows
<1> QED BY <1>0, <1>9 DEF Follows

LEMMA NewPaired ==
  ASSUME Types, Paired, Calm, NEW n \in Nodes, DeliverNew(n), ~lossy'
  PROVE  Paired'
<1>0. /\ wire[n] # <<>> /\ wire[n] \in Seq(Frame) /\ OtherEnd(n) \in Nodes /\ OtherEnd(n) # n
      /\ wire[OtherEnd(n)] \in Seq(Frame) /\ wire \in [Nodes -> Seq(Frame)] /\ mgr[n].gen = 0
  BY OtherEndIs DEF DeliverNew, Types, Calm, Nodes
<1>1. PICK f \in Frame : f = Head(wire[n])
  BY <1>0, Popped
<1>2. f.flag = "DATA" /\ Current(n, f.id) = {} /\ UNCHANGED mgr
  BY <1>1 DEF DeliverNew
<1>3. PICK w \in Streams, k \in Nat : w = f.data[1] /\ k = f.data[2]
  BY <1>2, FrameCases
<1>4. ASSUME NEW y \in Streams, str[y].listed, Whole(y) PROVE ~(str[y].node = n /\ str[y].id = f.id)
  <2>1. str[y].mgr = 0
    BY <1>4 DEF Whole, Paired, Ids
  <2> QED BY <1>0, <1>2, <1>4, <2>1 DEF Current
<1>5. CASE Len(accept[n]) < AcceptCap /\ wire' = [wire EXCEPT ![n] = Tail(@)]
           /\ \E x \in Streams : Fresh(x) /\ str' = [str EXCEPT ![x] = QueuedStream(n, f.id, f.data[1], mgr[n].gen)]
  <2>1. wire'[n] = Tail(wire[n]) /\ wire'[OtherEnd(n)] = wire[OtherEnd(n)]
    BY <1>0, <1>5
  <2>2. Taken(n, w, k) /\ w \in Named(OtherEnd(n), f.id)
    BY <1>0, <1>1, <1>2, <1>3, <2>1, DataTaken
  <2>3. PICK x \in Streams : Fresh(x) /\ str' = [str EXCEPT ![x] = QueuedStream(n, f.id, f.data[1], mgr[n].gen)]
    BY <1>5, Zenon
  <2>4. PICK r : r = QueuedStream(n, f.id, f.data[1], mgr[n].gen)
    OBVIOUS
  <2>5. r \in StrState /\ r.pc = "queued" /\ r.node = n /\ r.id = f.id /\ r.peer = w /\ r.mgr = 0 /\ In(r) = <<>>
    <3>1. w \in Nat /\ f.id \in Nat /\ f.data[1] = w
      BY <1>3, FrameCases, StreamsAssumption DEF Streams
    <3>2. PICK id \in Nat, g \in Nat : id = f.id /\ g = mgr[n].gen
      BY <1>0, <3>1
    <3>3. r = QueuedStream(n, id, w, g)
      BY <2>4, <3>1, <3>2
    <3>4. r \in StrState /\ r.pc = "queued" /\ r.node = n /\ r.id = id /\ r.peer = w /\ r.mgr = g /\ In(r) = <<>>
      BY <3>1, <3>3, QueuedIs
    <3> QED BY <1>0, <3>2, <3>4
  <2>6. Adds(x, r)
    BY <2>3, <2>4, <2>5 DEF Adds, Fresh
  <2>7. /\ str'[x] = r /\ In(str'[x]) = <<>>
        /\ \A y \in Streams : y # x => str'[y] = str[y]
        /\ \A y \in Streams : Used(y) => y # x
        /\ \A y \in Streams : Used(y)' => y = x \/ Used(y)
        /\ \A y \in Streams : Whole(y)' => y = x \/ Whole(y)
    BY <2>5, <2>6, AddsIs
  <2>8. Sources' /\ FromItsId' /\ Gapless'
    BY <2>2, <2>6, AddsPaired DEF Taken
  <2>9. \A v \in Streams : Used(v) => str'[v].wrote = str[v].wrote
    BY <2>7
  <2>10. UpToLast' /\ \A m \in Nodes : InOrder(wire'[m])
    BY <2>2, <2>9, TakenUpToLast
  <2>11. w # 0 /\ Used(w) /\ str[w].id = f.id
    BY <2>2, StreamsAssumption DEF Named, Used, Streams
  <2>12. Ids'
    <3>1. \A y \in Streams : Used(y)' => str'[y].mgr = 0 /\ (Issued("a", str[y].id) \/ Issued("b", str[y].id))'
      <4> SUFFICES ASSUME NEW y \in Streams, Used(y)'
                   PROVE  str'[y].mgr = 0 /\ (Issued("a", str[y].id) \/ Issued("b", str[y].id))'
        OBVIOUS
      <4>1. CASE y = x
        <5>1. w \in Streams /\ (Issued("a", str[w].id) \/ Issued("b", str[w].id))
          BY <2>2, <2>11, ZenonT(60) DEF Paired, Ids, Named
        <5>2. str'[x].id = str[w].id /\ str'[x].mgr = 0 /\ mgr' = mgr
          BY <1>2, <2>5, <2>7, <2>11
        <5> QED BY <4>1, <5>1, <5>2 DEF Issued
      <4>2. CASE y # x
        BY <1>2, <2>7, <4>2 DEF Paired, Ids, Issued
      <4> QED BY <4>1, <4>2
    <3>2. \A y \in Streams : Used(y)' /\ str'[y].peer = 0 => y # x /\ Used(y) /\ str'[y] = str[y]
      BY <2>5, <2>7, <2>11, Zenon
    <3>3. \A y \in Streams : Used(y)' /\ str'[y].peer = 0 => Issued(str[y].node, str[y].id)'
      BY <1>2, <3>2 DEF Paired, Ids, Issued
    <3>4. \A y, z \in Streams : Used(y)' /\ Used(z)' /\ str'[y].peer = 0 /\ str'[z].peer = 0 /\ str'[y].id = str'[z].id => y = z
      BY <3>2, Zenon DEF Paired, Ids
    <3> QED BY <3>1, <3>3, <3>4 DEF Ids
  <2>13. Rest'
    <3> SUFFICES ASSUME NEW y \in Streams, Whole(y)', str'[y].listed, In(str'[y]) # <<>>
                 PROVE  Follows(y, In(str[y])[Len(In(str[y]))])'
      BY DEF Rest
    <3>1. y # x /\ Whole(y) /\ str'[y] = str[y]
      BY <2>7
    <3>2. ~(str[y].node = n /\ str[y].id = f.id)
      BY <1>4, <3>1
    <3> QED BY <2>2, <2>9, <3>1, <3>2, RestOfOthers, ZenonT(60)
  <2> QED BY <2>8, <2>10, <2>12, <2>13 DEF Paired, Wires
<1>6. CASE UNCHANGED str
           /\ wire' = [wire EXCEPT ![n] = Tail(@), ![OtherEnd(n)] = Append(@, Datagram(f.id, "RESET", None))]
  <2>1. wire'[n] = Tail(wire[n]) /\ wire'[OtherEnd(n)] = Append(wire[OtherEnd(n)], Datagram(f.id, "RESET", None))
    BY <1>0, <1>6
  <2>2. Taken(n, w, k) /\ w \in Named(OtherEnd(n), f.id)
    BY <1>0, <1>1, <1>2, <1>3, <2>1, DataTaken, ZenonT(60)
  <2>3. SameNames
    BY <1>6 DEF SameNames
  <2>4. Ids'
    BY <1>2, <1>6, <2>3, IdsKept DEF Paired
  <2>5. Sources'
    <3> SUFFICES ASSUME NEW m \in Nodes, NEW i \in 1..Len(wire'[m]), wire'[m][i].flag = "DATA"
                 PROVE  (wire[m][i].data[1] \in Named(OtherEnd(m), wire[m][i].id))'
      BY DEF Sources
    <3>1. PICK j \in 1..Len(wire[m]) : wire[m][j] = wire'[m][i]
      BY <2>2 DEF Taken, From
    <3>2. wire[m][j].data[1] \in Named(OtherEnd(m), wire[m][j].id)
      BY <3>1 DEF Paired, Wires, Sources
    <3> QED BY <1>6, <3>1, <3>2, ZenonT(60) DEF Named
  <2>6. UpToLast' /\ \A m \in Nodes : InOrder(wire'[m])
    BY <1>6, <2>2, TakenUpToLast, ZenonT(60)
  <2>7. FromItsId' /\ Gapless'
    <3>1. str' = str /\ FromItsId /\ Gapless
      BY <1>6 DEF Paired
    <3>2. \A x \in Streams : \A i \in 1..Len(In(str[x])) :
            LET d == In(str[x])[i] IN
            /\ d[1] \in Streams /\ str[d[1]].pc # "free" /\ d[2] <= str[d[1]].wrote
            /\ str[d[1]].node = OtherEnd(str[x].node) /\ str[d[1]].id = str[x].id
      BY <3>1 DEF FromItsId, IsOf, Named
    <3>4. FromItsId'
      BY <3>1, <3>2 DEF FromItsId, IsOf, Named
    <3>3. \A x \in Streams : Whole(x)' => Whole(x)
      BY <3>1 DEF Whole, Used, Alone, Named
    <3>5. Gapless'
      BY <3>1, <3>3, Zenon DEF Gapless, NoGap
    <3> QED BY <3>4, <3>5
  <2>8. Rest'
    <3> SUFFICES ASSUME NEW y \in Streams, Whole(y)', str'[y].listed, In(str'[y]) # <<>>
                 PROVE  Follows(y, In(str[y])[Len(In(str[y]))])'
      BY DEF Rest
    <3>1. Whole(y) /\ str'[y] = str[y]
      BY <1>6 DEF Whole, Used, Alone, Named
    <3>2. ~(str[y].node = n /\ str[y].id = f.id)
      BY <1>4, <3>1
    <3> QED BY <1>6, <2>2, <3>1, <3>2, RestOfOthers, ZenonT(60)
  <2> QED BY <2>4, <2>5, <2>6, <2>7, <2>8 DEF Paired, Wires
<1> QED BY <1>1, <1>5, <1>6 DEF DeliverNew, QueuedStream

(* A chunk is added to what a stream has.                                  *)
LEMMA AppendsNoGap ==
  ASSUME NEW q \in Seq(Datum), NEW d \in Datum, NoGap(q), q # <<>> => d = <<q[Len(q)][1], q[Len(q)][2] + 1>>
  PROVE  NoGap(Append(q, d)) /\ Append(q, d)[Len(Append(q, d))] = d
<1>1. PICK r : r = Append(q, d)
  BY ZenonT(60)
<1>2. /\ Len(r) = Len(q) + 1 /\ Len(q) \in Nat /\ r[Len(q) + 1] = d /\ (q # <<>> <=> Len(q) # 0)
      /\ \A i \in 1..Len(q) : r[i] = q[i]
  BY <1>1, AppendProperties, LenProperties, EmptySeq
<1>3. ASSUME NEW i \in 1..(Len(r) - 1) PROVE r[i + 1] = <<r[i][1], r[i][2] + 1>>
  <2>1. CASE i = Len(q)
    BY <1>2, <2>1
  <2>2. CASE i # Len(q)
    <3>1. i \in 1..(Len(q) - 1) /\ i \in 1..Len(q) /\ i + 1 \in 1..Len(q)
      BY <1>2, <2>2
    <3>2. q[i + 1] = <<q[i][1], q[i][2] + 1>>
      BY <3>1 DEF NoGap
    <3> QED BY <1>2, <3>1, <3>2
  <2> QED BY <2>1, <2>2
<1>4. NoGap(r)
  BY <1>3, ZenonT(60) DEF NoGap
<1> QED BY <1>1, <1>2, <1>4

LEMMA KnownPaired ==
  ASSUME Types, Paired, NEW n \in Nodes, DeliverKnown(n), Head(wire[n]).flag = "DATA"
  PROVE  Paired'
<1>0. /\ wire[n] # <<>> /\ wire[n] \in Seq(Frame) /\ wire' = [wire EXCEPT ![n] = Tail(@)] /\ UNCHANGED mgr
      /\ OtherEnd(n) \in Nodes /\ OtherEnd(n) # n /\ wire \in [Nodes -> Seq(Frame)]
  BY OtherEndIs DEF DeliverKnown, Types
<1>1. PICK f \in Frame : f = Head(wire[n])
  BY <1>0, Popped
<1>2. PICK x \in Current(n, f.id) : str' = [str EXCEPT ![x] = Dispatch(@, f)]
  BY <1>1, ZenonT(60) DEF DeliverKnown
<1>3. x \in Streams /\ str[x].node = n /\ str[x].listed /\ str[x].id = f.id /\ Used(x) /\ str[x] \in StrState
  <2>1. /\ x \in Streams /\ str[x].node = n /\ str[x].listed /\ str[x].id = f.id
        /\ str[x].pc \notin {"free", "opening"}
    BY CurrentIs, ZenonT(60)
  <2> QED BY <2>1 DEF Used, Types
<1>4. PICK w \in Streams, k \in Nat : w = f.data[1] /\ k = f.data[2]
  BY <1>1, FrameCases
<1>5. /\ Taken(n, w, k) /\ w \in Named(OtherEnd(n), f.id) /\ k <= str[w].wrote
      /\ f.data = <<w, k>> /\ <<w, k>> \in Datum
  <2>1. wire'[n] = Tail(wire[n]) /\ wire'[OtherEnd(n)] = wire[OtherEnd(n)]
    BY <1>0
  <2> QED BY <1>0, <1>1, <1>4, <2>1, DataTaken, ZenonT(60)
<1>6. /\ \A y \in Streams : /\ str'[y].pc = str[y].pc /\ str'[y].node = str[y].node /\ str'[y].id = str[y].id
                            /\ str'[y].peer = str[y].peer /\ str'[y].mgr = str[y].mgr /\ str'[y].reset = str[y].reset
                            /\ str'[y].listed = str[y].listed /\ str'[y].wrote = str[y].wrote
                            /\ y # x => str'[y] = str[y]
      /\ In(str'[x]) = Append(In(str[x]), <<w, k>>)
  <2>1. PICK r : r = Dispatch(str[x], f)
    OBVIOUS
  <2>2. /\ r \in StrState
        /\ r.pc = str[x].pc /\ r.node = str[x].node /\ r.id = str[x].id /\ r.peer = str[x].peer /\ r.mgr = str[x].mgr
        /\ r.listed = str[x].listed /\ r.wrote = str[x].wrote
        /\ In(r) = Append(In(str[x]), f.data) /\ r.reset = str[x].reset
    BY <1>1, <1>3, <2>1, DispatchIs, ZenonT(60)
  <2>3. str'[x] = r /\ \A y \in Streams : y # x => str'[y] = str[y]
    BY <1>2, <1>3, <2>1, Zenon DEF Types
  <2> QED BY <1>5, <2>2, <2>3, ZenonT(60)
<1>7. SameNames
  BY <1>6 DEF SameNames
<1>8. \A y \in Streams : (Used(y)' <=> Used(y)) /\ (Alone(y)' <=> Alone(y))
  BY <1>7, NamesKept
<1>9. \A y \in Streams : Whole(y)' => Whole(y)
  BY <1>6, <1>8, ZenonT(60) DEF Whole
<1>10. Ids'
  BY <1>0, <1>6, <1>7, IdsKept DEF Paired
<1>11. Sources'
  <2> SUFFICES ASSUME NEW m \in Nodes, NEW i \in 1..Len(wire'[m]), wire'[m][i].flag = "DATA"
               PROVE  (wire[m][i].data[1] \in Named(OtherEnd(m), wire[m][i].id))'
    BY DEF Sources
  <2>1. PICK j \in 1..Len(wire[m]) : wire[m][j] = wire'[m][i]
    BY <1>5 DEF Taken, From
  <2>2. wire[m][j].data[1] \in Named(OtherEnd(m), wire[m][j].id)
    BY <2>1 DEF Paired, Wires, Sources
  <2> QED BY <1>7, <2>1, <2>2 DEF Named, SameNames
<1>12. UpToLast' /\ \A m \in Nodes : InOrder(wire'[m])
  BY <1>5, <1>6, TakenUpToLast, ZenonT(60)
<1>i. In(str[x]) \in Seq(Datum) /\ Len(In(str[x])) \in Nat
  BY <1>3, InFacts
<1>a. /\ Len(In(str'[x])) = Len(In(str[x])) + 1 /\ In(str'[x])[Len(In(str[x])) + 1] = <<w, k>>
      /\ \A i \in 1..Len(In(str[x])) : In(str'[x])[i] = In(str[x])[i]
  <2>1. <<w, k>> \in Datum /\ In(str'[x]) = Append(In(str[x]), <<w, k>>)
    BY <1>5, <1>6
  <2>2. PICK q, r, d : q = In(str[x]) /\ r = In(str'[x]) /\ d = <<w, k>>
    BY ZenonT(60)
  <2>3. q \in Seq(Datum) /\ d \in Datum /\ r = Append(q, d)
    BY <1>i, <2>1, <2>2
  <2>4. Len(r) = Len(q) + 1 /\ r[Len(q) + 1] = d /\ \A i \in 1..Len(q) : r[i] = q[i]
    BY <2>3, AppendProperties
  <2> QED BY <2>2, <2>4, ZenonT(60)
<1>13. FromItsId'
  <2>0. \A y \in Streams : \A d : IsOf(y, d) => IsOf(y, d)'
    BY <1>6 DEF IsOf, Named
  <2> SUFFICES ASSUME NEW y \in Streams, NEW i \in 1..Len(In(str'[y])) PROVE IsOf(y, In(str[y])[i])'
    BY DEF FromItsId
  <2>1. PICK d : d = In(str'[y])[i]
    OBVIOUS
  <2>2. IsOf(y, d)
    <3>1. CASE y # x \/ i \in 1..Len(In(str[x]))
      <4>1. i \in 1..Len(In(str[y])) /\ d = In(str[y])[i]
        BY <1>6, <1>a, <2>1, <3>1
      <4> QED BY <4>1 DEF Paired, FromItsId
    <3>2. CASE y = x /\ i = Len(In(str[x])) + 1
      <4>1. d = <<w, k>> /\ d[1] = w /\ d[2] = k
        BY <1>a, <2>1, <3>2
      <4> QED BY <1>3, <1>5, <3>2, <4>1, ZenonT(60) DEF IsOf
    <3>3. y = x => i \in 1..Len(In(str[x])) \/ i = Len(In(str[x])) + 1
      BY <1>a, <1>i
    <3> QED BY <3>1, <3>2, <3>3
  <2>3. IsOf(y, d)'
    BY <2>0, <2>2
  <2> QED BY <2>1, <2>3, ZenonT(60) DEF IsOf
<1>14. ASSUME Whole(x), In(str[x]) # <<>>
       PROVE  <<w, k>> = <<In(str[x])[Len(In(str[x]))][1], In(str[x])[Len(In(str[x]))][2] + 1>>
  <2>1. PICK d : d = In(str[x])[Len(In(str[x]))]
    OBVIOUS
  <2>2. Len(In(str[x])) \in 1..Len(In(str[x])) /\ d \in Datum
    BY <1>3, <1>14, <2>1, InFacts
  <2>3. IsOf(x, d) /\ d[2] \in Nat
    BY <1>3, <2>1, <2>2 DEF Paired, FromItsId, Datum
  <2>4. d[1] = w
    BY <1>3, <1>5, <1>14, <2>3 DEF IsOf, Whole, Alone
  <2>5. \A m \in Nat : On(wire[n], w, m) <=> d[2] < m /\ m <= str[w].wrote
    BY <1>3, <1>14, <2>1, <2>4, ZenonT(60) DEF Paired, Rest, Follows
  <2>6. On(wire[n], w, k) /\ \A m \in Nat : On(wire[n], w, m) => k <= m
    BY <1>5, ZenonT(60) DEF Taken
  <2>7. d[2] < k /\ k <= str[w].wrote /\ str[w].wrote \in Nat
    BY <2>5, <2>6 DEF Types, StrState
  <2>8. d[2] + 1 \in Nat /\ d[2] < d[2] + 1 /\ d[2] + 1 <= str[w].wrote
    BY <2>3, <2>7
  <2>9. k <= d[2] + 1
    BY <2>5, <2>6, <2>8
  <2>10. k = d[2] + 1
    BY <2>3, <2>7, <2>9
  <2> QED BY <2>1, <2>4, <2>10
<1>15. Gapless'
  <2> SUFFICES ASSUME NEW y \in Streams, Whole(y)' PROVE NoGap(In(str'[y]))
    BY DEF Gapless
  <2>1. CASE y # x
    BY <1>6, <1>9, <2>1 DEF Paired, Gapless
  <2>2. CASE y = x
    <3>1. Whole(x) /\ NoGap(In(str[x]))
      BY <1>9, <2>2 DEF Paired, Gapless
    <3>2. In(str[x]) # <<>> => <<w, k>> = <<In(str[x])[Len(In(str[x]))][1], In(str[x])[Len(In(str[x]))][2] + 1>>
      BY <1>14, <3>1
    <3>3. PICK q : q = In(str[x])
      OBVIOUS
    <3>4. NoGap(Append(q, <<w, k>>))
      BY <1>5, <1>i, <3>1, <3>2, <3>3, AppendsNoGap, ZenonT(60)
    <3> QED BY <1>6, <2>2, <3>3, <3>4, ZenonT(60)
  <2> QED BY <2>1, <2>2
<1>16. Rest'
  <2> SUFFICES ASSUME NEW y \in Streams, Whole(y)', str'[y].listed, In(str'[y]) # <<>>
               PROVE  Follows(y, In(str[y])[Len(In(str[y]))])'
    BY DEF Rest
  <2>0. Whole(y) /\ str[y].listed
    BY <1>6, <1>9
  <2>1. CASE y # x
    <3>1. str'[y] = str[y]
      BY <1>6, <2>1, Zenon
    <3>2. ~(str[y].node = n /\ str[y].id = f.id)
      <4> SUFFICES ASSUME str[y].node = n, str[y].id = f.id PROVE FALSE
        BY Zenon
      <4>1. x \in Named(str[y].node, str[y].id)
        BY <1>3 DEF Named, Used
      <4> QED BY <2>0, <2>1, <4>1, Zenon DEF Whole, Alone
    <3> QED BY <1>5, <1>6, <2>0, <3>1, <3>2, RestOfOthers, ZenonT(30)
  <2>2. CASE y = x
    <3>1. PICK d : d = <<w, k>>
      BY ZenonT(60)
    <3>2. In(str'[x])[Len(In(str'[x]))] = d
      BY <1>a, <3>1
    <3>3. \A m \in Nat : On(wire'[n], w, m) <=> k < m /\ m <= str[w].wrote
      <4>1. \A m \in Nat : On(wire'[n], w, m) <=> On(wire[n], w, m) /\ k < m
        BY <1>5, Zenon DEF Taken
      <4>2. On(wire[n], w, k)
        BY <1>5, Zenon DEF Taken
      <4>3. \A m \in Nat : k < m /\ m <= str[w].wrote => On(wire[n], w, m)
        BY <4>2, ZenonT(60) DEF Paired, Wires, UpToLast
      <4>4. \A m \in Nat : On(wire[n], w, m) => m <= str[w].wrote
        BY DEF Paired, Wires, UpToLast
      <4> QED BY <4>1, <4>3, <4>4
    <3>4. d[1] = w /\ d[2] = k /\ str'[x].node = n /\ str'[w].wrote = str[w].wrote
      BY <1>3, <1>6, <3>1, ZenonT(60)
    <3>5. Follows(x, d)'
      BY <3>3, <3>4, ZenonT(60) DEF Follows
    <3> QED BY <2>2, <3>2, <3>5 DEF Follows
  <2> QED BY <2>1, <2>2
<1> QED BY <1>10, <1>11, <1>12, <1>13, <1>15, <1>16 DEF Paired, Wires

-----------------------------------------------------------------------------
(* The streams themselves stay.                                            *)
LEMMA NoStreamChanges ==
  ASSUME Types, Paired, UNCHANGED <<str, mgr>>, SameData
  PROVE  Paired'
<1>1. SameNames
  BY DEF SameNames
<1>2. \A x \in Streams : str[x] \in StrState /\ Len(In(str[x])) \in Nat
  BY InFacts DEF Types
<1>3. \A x \in Streams :
        /\ str'[x] \in StrState
        /\ str'[x].peer = str[x].peer /\ str'[x].mgr = str[x].mgr /\ str'[x].wrote = str[x].wrote
        /\ str'[x].listed => str[x].listed \/ In(str[x]) = <<>>
        /\ Len(In(str'[x])) <= Len(In(str[x]))
        /\ \A i \in 1..Len(In(str'[x])) : In(str'[x])[i] = In(str[x])[i]
        /\ ~str'[x].reset => ~str[x].reset /\ In(str'[x]) = In(str[x])
  BY <1>2
<1> QED BY <1>1, <1>3, PairedKept

LEMMA PairedStep ==
  ASSUME Types, Queues, Calm, Paired, [StreamsNext]_streamVars, Calm'
  PROVE  Paired'
<1>0. \A x \in Streams : str[x] \in StrState /\ str[x].node \in Nodes /\ str[x].id \in Nat
                         /\ OtherEnd(str[x].node) \in Nodes
  BY OtherEndIs DEF Types, StrState
<1>c. ~lossy /\ ~lossy' /\ \A n \in Nodes : mgr[n].gen = 0 /\ mgr'[n].gen = 0
  BY DEF Calm, Nodes
<1>1. ASSUME NEW n \in Nodes, OpenStream(n) PROVE Paired'
  BY <1>1, OpenPaired
<1>2. ASSUME NEW n \in Nodes, AcceptStream(n) PROVE Paired'
  <2>1. accept[n] # <<>> /\ UNCHANGED <<mgr, wire>> /\ accept[n] \in Seq(Streams)
    BY <1>2 DEF AcceptStream, Types
  <2>2. PICK x \in Streams : x = Head(accept[n]) /\ str[x].pc = "queued"
    <3>1. Head(accept[n]) \in Streams /\ Head(accept[n]) = accept[n][1] /\ 1 \in 1..Len(accept[n])
      BY <2>1, HeadTailProperties, EmptySeq
    <3> QED BY <3>1 DEF Queues
  <2>3. PICK r : r = [str[x] EXCEPT !.pc = "open"]
    BY Zenon
  <2>4. str' = [str EXCEPT ![x] = r]
    BY <1>2, <2>2, <2>3 DEF AcceptStream, Types
  <2>5. Milder(str[x], r)
    BY <1>0, <2>3, PcIs, ZenonT(60) DEF Milder, In
  <2> QED BY <2>1, <2>2, <2>4, <2>5, WireStill, OneMilder, ZenonT(60)
<1>3. ASSUME NEW n \in Nodes, PeerGone(n) PROVE Paired'
  <2>1. mgr'[n].gen = mgr[n].gen + 1
    BY <1>3 DEF PeerGone, Types
  <2> QED BY <1>c, <2>1
<1>4. ASSUME NEW n \in Nodes, DeliverKnown(n) PROVE Paired'
  <2>1. CASE Head(wire[n]).flag = "DATA"
    BY <1>4, <2>1, KnownPaired
  <2>2. CASE Head(wire[n]).flag # "DATA"
    <3>1. wire[n] # <<>> /\ wire' = [wire EXCEPT ![n] = Tail(@)] /\ UNCHANGED mgr
      BY <1>4 DEF DeliverKnown
    <3>2. PICK f \in Frame : f = Head(wire[n])
      BY <3>1, Receives, Zenon
    <3>3. PICK x \in Current(n, f.id) : str' = [str EXCEPT ![x] = Dispatch(@, f)]
      BY <1>4, <3>2, ZenonT(60) DEF DeliverKnown
    <3>4. x \in Streams /\ str[x].pc # "free"
      BY CurrentIs
    <3>5. PICK r : r = Dispatch(str[x], f)
      OBVIOUS
    <3>6. str' = [str EXCEPT ![x] = r]
      BY <3>3, <3>4, <3>5 DEF Types
    <3>7. Milder(str[x], r)
      <4>1. f.flag = "CLOSE" \/ f.flag = "RESET"
        BY <2>2, <3>2, FrameCases
      <4>2. /\ r \in StrState
            /\ r.pc = str[x].pc /\ r.node = str[x].node /\ r.id = str[x].id /\ r.peer = str[x].peer /\ r.mgr = str[x].mgr
            /\ r.listed = str[x].listed /\ r.wrote = str[x].wrote
            /\ f.flag = "CLOSE" => In(r) = In(str[x]) /\ r.reset = str[x].reset
            /\ f.flag = "RESET" => In(r) = str[x].got /\ r.reset
        BY <1>0, <3>4, <3>5, DispatchIs
      <4> QED BY <3>4, <4>1, <4>2 DEF Milder
    <3>8. SameData
      BY <2>2, <3>1, ReceivedOther, ZenonT(60)
    <3> QED BY <3>1, <3>4, <3>6, <3>7, <3>8, OneMilder, ZenonT(60)
  <2> QED BY <2>1, <2>2
<1>5. ASSUME NEW n \in Nodes, DeliverIgnored(n) PROVE Paired'
  <2>1. SameData
    BY <1>5, ReceivedOther, ZenonT(60) DEF DeliverIgnored
  <2> QED BY <1>5, <2>1, NoStreamChanges DEF DeliverIgnored
<1>6. ASSUME NEW n \in Nodes, DeliverNew(n) PROVE Paired'
  BY <1>6, <1>c, NewPaired
<1>7. ASSUME NEW x \in Streams, Opened(x) PROVE Paired'
  <2>1. PICK r : r = [str[x] EXCEPT !.pc = "open", !.listed = TRUE]
    OBVIOUS
  <2>2. str' = [str EXCEPT ![x] = r] /\ UNCHANGED <<mgr, wire>> /\ str[x].pc = "opening"
    <3>1. str' = [str EXCEPT ![x] = [str[x] EXCEPT !.pc = "open", !.listed = TRUE]]
      BY <1>7, Zenon DEF Opened, Types
    <3> QED BY <1>7, <2>1, <3>1, Zenon DEF Opened
  <2>3. /\ r \in StrState /\ r.pc = "open" /\ r.reset = str[x].reset /\ r.buf = str[x].buf /\ r.got = str[x].got
        /\ r.node = str[x].node /\ r.id = str[x].id /\ r.peer = str[x].peer /\ r.mgr = str[x].mgr /\ r.wrote = str[x].wrote
    BY <1>0, <2>1, OpenedIs, ZenonT(60)
  <2>4. In(str[x]) = <<>>
    BY <2>2 DEF Types
  <2>5. Milder(str[x], r)
    BY <2>3, <2>4 DEF Milder, In
  <2> QED BY <2>2, <2>5, WireStill, OneMilder, Zenon
<1>8. ASSUME NEW x \in Streams, WriteStream(x) PROVE Paired'
  BY <1>8, <1>c, WritePaired
<1>9. ASSUME NEW x \in Streams, CloseStream(x) PROVE Paired'
  <2>1. PICK r : r = [str[x] EXCEPT !.closed = "self", !.pc = "removing"]
    OBVIOUS
  <2>2. str' = [str EXCEPT ![x] = r] /\ UNCHANGED mgr /\ str[x].pc = "open"
    <3>1. str' = [str EXCEPT ![x] = [str[x] EXCEPT !.closed = "self", !.pc = "removing"]]
      BY <1>9, Zenon DEF CloseStream, Types
    <3> QED BY <1>9, <2>1, <3>1, Zenon DEF CloseStream
  <2>3. Milder(str[x], r)
    BY <1>0, <2>1, ClosedIs, ZenonT(60) DEF Milder, In
  <2>4. PICK f : f = Datagram(str[x].id, "CLOSE", None)
    OBVIOUS
  <2>5. f \in Frame /\ f.flag # "DATA" /\ SendTo(OtherEnd(str[x].node), f)
    BY <1>0, <1>9, <2>4 DEF CloseStream, Datagram, Frame
  <2>6. SameData
    BY <1>0, <1>c, <2>5, SentOther
  <2> QED BY <2>2, <2>3, <2>6, OneMilder, Zenon
<1>10. ASSUME NEW x \in Streams, ResetStream(x) PROVE Paired'
  <2>1. PICK r : r = Broadcast([str[x] EXCEPT !.reset = TRUE, !.buf = <<>>, !.pc = "removing"])
    OBVIOUS
  <2>2. str' = [str EXCEPT ![x] = r] /\ UNCHANGED mgr /\ str[x].pc = "open"
    BY <1>10, <2>1 DEF ResetStream, Types
  <2>3. /\ r \in StrState /\ r.pc = "removing" /\ r.reset /\ In(r) = str[x].got
        /\ r.node = str[x].node /\ r.id = str[x].id /\ r.peer = str[x].peer
        /\ r.mgr = str[x].mgr /\ r.wrote = str[x].wrote /\ r.listed = str[x].listed
    BY <1>0, <2>1, ResetIs, ZenonT(60)
  <2>4. Milder(str[x], r)
    BY <2>3 DEF Milder
  <2>5. PICK f : f = Datagram(str[x].id, "RESET", None)
    OBVIOUS
  <2>6. f \in Frame /\ f.flag # "DATA" /\ SendTo(OtherEnd(str[x].node), f)
    BY <1>0, <1>10, <2>5 DEF ResetStream, Datagram, Frame
  <2>7. SameData
    BY <1>0, <1>c, <2>6, SentOther
  <2> QED BY <2>2, <2>4, <2>7, OneMilder, Zenon
<1>11. ASSUME NEW x \in Streams, RemoveStream(x) PROVE Paired'
  <2>1. /\ str' \in [Streams -> StrState] /\ UNCHANGED <<mgr, wire>> /\ str[x].pc = "removing"
        /\ \A y \in Streams :
             /\ str'[y].pc = IF y = x THEN "open" ELSE str[y].pc
             /\ str'[y].node = str[y].node /\ str'[y].id = str[y].id /\ str'[y].peer = str[y].peer
             /\ str'[y].mgr = str[y].mgr /\ str'[y].wrote = str[y].wrote /\ str'[y].reset = str[y].reset
             /\ str'[y].buf = str[y].buf /\ str'[y].got = str[y].got
             /\ str'[y].listed => str[y].listed
    BY <1>11, RemovedFields
  <2>2. SameNames
    BY <2>1 DEF SameNames
  <2>3. \A y \in Streams : In(str'[y]) = In(str[y]) /\ Len(In(str[y])) \in Nat
    BY <1>0, <2>1, InFacts, ZenonT(60) DEF In
  <2>4. \A y \in Streams :
          /\ str'[y] \in StrState
          /\ str'[y].peer = str[y].peer /\ str'[y].mgr = str[y].mgr /\ str'[y].wrote = str[y].wrote
          /\ str'[y].listed => str[y].listed \/ In(str[y]) = <<>>
          /\ Len(In(str'[y])) <= Len(In(str[y]))
          /\ \A i \in 1..Len(In(str'[y])) : In(str'[y])[i] = In(str[y])[i]
          /\ ~str'[y].reset => ~str[y].reset /\ In(str'[y]) = In(str[y])
    BY <2>1, <2>3
  <2> QED BY <2>1, <2>2, <2>4, WireStill, PairedKept
<1>12. ASSUME NEW x \in Streams, ReadStream(x) PROVE Paired'
  <2>1. str[x].pc = "open" /\ UNCHANGED <<mgr, wire>>
    BY <1>12 DEF ReadStream
  <2>2. CASE str[x].buf # <<>>
    <3>1. PICK r : r = [str[x] EXCEPT !.buf = Tail(@), !.got = Append(@, Head(str[x].buf)), !.reader = "idle"]
      OBVIOUS
    <3>2. str' = [str EXCEPT ![x] = r]
      BY <1>12, <2>2, <3>1 DEF ReadStream
    <3>3. Milder(str[x], r)
      BY <1>0, <2>1, <2>2, <3>1, ReadTakes, ZenonT(60) DEF Milder
    <3> QED BY <2>1, <3>2, <3>3, WireStill, OneMilder, Zenon
  <2>3. CASE str[x].buf = <<>>
    <3>1. PICK p \in {"errclosed", "eof", "waits"} :
            p = IF str[x].reset THEN "errclosed" ELSE IF str[x].closed # "no" THEN "eof" ELSE "waits"
      OBVIOUS
    <3>2. PICK r : r = [str[x] EXCEPT !.reader = p]
      BY Zenon
    <3>3. str' = [str EXCEPT ![x] = r]
      BY <1>12, <2>3, <3>1, <3>2 DEF ReadStream
    <3>4. Milder(str[x], r)
      BY <1>0, <2>1, <3>2, LooksIs, ZenonT(30) DEF Milder, In
    <3> QED BY <2>1, <3>3, <3>4, WireStill, OneMilder, ZenonT(60)
  <2> QED BY <2>2, <2>3
<1>13. CASE UNCHANGED streamVars
  BY <1>13, WireStill, NoStreamChanges DEF streamVars
<1> QED BY <1>1, <1>2, <1>3, <1>4, <1>5, <1>6, <1>7, <1>8, <1>9, <1>10, <1>11, <1>12, <1>13 DEF StreamsNext

(* A generation never goes back, and a lost datagram stays lost.           *)
LEMMA CalmBefore ==
  ASSUME Types, [StreamsNext]_streamVars, Calm'
  PROVE  Calm
<1>1. "a" \in Nodes /\ "b" \in Nodes /\ mgr["a"].gen \in Nat /\ mgr["b"].gen \in Nat
  BY DEF Nodes, Types
<1>2. ASSUME NEW n \in Nodes, OpenStream(n) PROVE Calm
  BY <1>1, <1>2 DEF OpenStream, Calm, Types
<1>3. ASSUME NEW n \in Nodes, PeerGone(n) PROVE Calm
  <2>1. mgr'[n].gen = mgr[n].gen + 1 /\ mgr[n].gen \in Nat
    BY <1>3 DEF PeerGone, Types
  <2>2. mgr'[n].gen = 0
    BY DEF Calm, Nodes
  <2> QED BY <2>1, <2>2
<1>4. CASE UNCHANGED mgr /\ (lossy' = TRUE \/ UNCHANGED lossy)
  BY <1>4 DEF Calm
<1>5. ASSUME NEW n \in Nodes, AcceptStream(n) \/ DeliverKnown(n) \/ DeliverIgnored(n) \/ DeliverNew(n) PROVE Calm
  BY <1>4, <1>5, Zenon DEF AcceptStream, DeliverKnown, DeliverIgnored, DeliverNew
<1>6. ASSUME NEW x \in Streams, Opened(x) \/ WriteStream(x) \/ CloseStream(x) \/ ResetStream(x) \/ RemoveStream(x) \/ ReadStream(x)
      PROVE  Calm
  BY <1>4, <1>6, Zenon DEF Opened, WriteStream, CloseStream, ResetStream, RemoveStream, ReadStream, SendTo
<1>7. CASE UNCHANGED streamVars
  BY <1>4, <1>7 DEF streamVars
<1> QED BY <1>2, <1>3, <1>5, <1>6, <1>7 DEF StreamsNext

LEMMA StreamsStart ==
  ASSUME StreamsInit
  PROVE  StreamsInv
<1>0. /\ \A x \in Streams : str[x] = NoStream
      /\ \A n \in Nodes : accept[n] = <<>> /\ wire[n] = <<>> /\ mgr[n].next = 0
      /\ Len(<<>>) = 0
  BY DEF StreamsInit
<1>1. Types
  <2>1. str \in [Streams -> StrState] /\ \A x \in Streams : str[x].pc = "free"
    BY NoStreamIs DEF StreamsInit
  <2>2. accept \in [Nodes -> Seq(Streams)] /\ wire \in [Nodes -> Seq(Frame)]
    BY EmptySeq DEF StreamsInit
  <2>3. mgr \in [Nodes -> [gen : Nat, next : Nat]] /\ lossy \in BOOLEAN
    BY ZenonT(60) DEF StreamsInit
  <2> QED BY <1>0, <2>1, <2>2, <2>3 DEF Types
<1>2. Queues
  BY <1>0, NoStreamIs, StreamsAssumption DEF Queues
<1>3. DispatchWakes
  BY <1>0, NoStreamIs DEF DispatchWakes
<1>4. \A x \in Streams : ~Used(x) /\ In(str[x]) = <<>>
  BY <1>0, NoStreamIs DEF Used, In
<1>5. Ids /\ Gapless /\ Rest /\ FromItsId
  <2>1. Ids
    BY <1>4 DEF Ids
  <2>2. Gapless /\ Rest
    BY <1>4 DEF Gapless, Rest, Whole
  <2>3. FromItsId
    BY <1>0, <1>4 DEF FromItsId
  <2> QED BY <2>1, <2>2, <2>3
<1>6. Wires
  BY <1>0 DEF Wires, Sources, UpToLast, InOrder, On
<1> QED BY <1>1, <1>2, <1>3, <1>5, <1>6 DEF StreamsInv, Paired

LEMMA StreamsInvSound ==
  ASSUME StreamsInv
  PROVE  StreamsSound
<1>1. StreamsTypeOK
  <2>1. \A n \in Nodes : \A i \in 1..Len(accept[n]) : accept[n][i] \in Streams
    BY ElementOfSeq DEF StreamsInv, Types
  <2>2. \A x \in Streams : str[x].pc \in {"free", "opening", "open", "queued", "removing"}
                           /\ str[x].reader \in {"idle", "waits", "looks", "eof", "errclosed"}
    BY DEF StreamsInv, Types, StrState
  <2> QED BY <2>1, <2>2 DEF StreamsTypeOK, StreamsInv, Queues
<1>2. ASSUME ~lossy, mgr["a"].gen + mgr["b"].gen = 0 PROVE Calm
  <2>1. mgr["a"].gen \in Nat /\ mgr["b"].gen \in Nat
    BY DEF StreamsInv, Types, Nodes
  <2> QED BY <1>2, <2>1 DEF Calm
<1>3. ASSUME Paired, NEW x \in Streams
      PROVE  /\ \A y \in Streams : str[x].pc # "free" /\ str[y].pc # "free" /\ str[x].peer = 0 /\ str[y].peer = 0
                                   /\ str[x].id = str[y].id => x = y
             /\ \A i \in 1..Len(In(str[x])) : In(str[x])[i][1] \in Named(OtherEnd(str[x].node), str[x].id)
             /\ str[x].pc # "free" /\ ~str[x].reset /\ Alone(x) =>
                  \A i \in 1..(Len(In(str[x])) - 1) : In(str[x])[i + 1] = <<In(str[x])[i][1], In(str[x])[i][2] + 1>>
  <2>1. \A y \in Streams : str[x].pc # "free" /\ str[y].pc # "free" /\ str[x].peer = 0 /\ str[y].peer = 0
                           /\ str[x].id = str[y].id => x = y
    BY <1>3 DEF Paired, Ids, Used
  <2>2. \A i \in 1..Len(In(str[x])) : In(str[x])[i][1] \in Named(OtherEnd(str[x].node), str[x].id)
    BY <1>3 DEF Paired, FromItsId, IsOf
  <2>3. str[x].pc # "free" /\ ~str[x].reset /\ Alone(x) => NoGap(In(str[x]))
    BY <1>3 DEF Paired, Gapless, Whole, Used
  <2> QED BY <2>1, <2>2, <2>3, ZenonT(60) DEF NoGap
<1>4. PairedData
  BY <1>2, <1>3, Zenon DEF PairedData, StreamsInv, In
<1> QED BY <1>1, <1>4 DEF StreamsSound, StreamsInv

(* The streams of two nodes over a relay (peerStreamManager.dispatch,      *)
(* IrohRelayStream.Read and Write), for any number of streams and of       *)
(* calls: until something is lost a stream stores only what streams of its *)
(* id wrote, consecutive writes while its id names one stream at each end, *)
(* and no Read sleeps over what dispatch stored.                           *)
THEOREM StreamsAreSound == StreamsSpec => []StreamsSound
<1>1. StreamsInit => StreamsInv
  BY StreamsStart
<1>2. StreamsInv /\ [StreamsNext]_streamVars => StreamsInv'
  <2> SUFFICES ASSUME StreamsInv, [StreamsNext]_streamVars PROVE StreamsInv'
    OBVIOUS
  <2>1. Types /\ Queues /\ DispatchWakes /\ (Calm => Paired)
    BY DEF StreamsInv
  <2>2. Types' /\ Queues' /\ DispatchWakes'
    BY <2>1, StateStep
  <2>3. Calm' => Paired'
    BY <2>1, CalmBefore, PairedStep
  <2> QED BY <2>2, <2>3 DEF StreamsInv
<1>3. StreamsInv => StreamsSound
  BY StreamsInvSound
<1> QED BY <1>1, <1>2, <1>3, PTL DEF StreamsSpec

=============================================================================

----------------------- MODULE MetricsCollectorProofs -----------------------
(***************************************************************************)
(* Proofs about the metrics collector: the types of its tables, that they   *)
(* agree, that an overview read between transactions fits together, and     *)
(* that the recorded latencies never exceed the time the chats have waited. *)
(***************************************************************************)
EXTENDS MetricsCollector, FiniteSetTheorems, SequenceTheorems, TLAPS

-----------------------------------------------------------------------------
(* Sums as cardinalities: Total counts the pairs <<x, i>>, i in 1..f[x].     *)

LEMMA UnitsFinite ==
  ASSUME NEW D, IsFiniteSet(D), NEW f \in [D -> Nat]
  PROVE  /\ IsFiniteSet(Units(f))
         /\ Total(f) \in Nat
         /\ \A u : u \in Units(f) <=> \E x \in D : u \in {x} \X (1 .. f[x])
<1> DEFINE Column(x) == {x} \X (1 .. f[x])
           Columns == {Column(x) : x \in D}
<1>1. DOMAIN f = D OBVIOUS
<1>2. IsFiniteSet(Columns)
  <2> DEFINE col == [x \in D |-> Column(x)]
  <2>1. col \in Surjection(D, Columns) BY DEF Surjection
  <2> QED BY <2>1, FS_Surjection
<1>3. \A c \in Columns : IsFiniteSet(c)
  <2> SUFFICES ASSUME NEW x \in D PROVE IsFiniteSet(Column(x)) OBVIOUS
  <2>1. f[x] \in Nat OBVIOUS
  <2>2. IsFiniteSet(1 .. f[x]) BY <2>1, FS_Interval
  <2>3. IsFiniteSet({x}) BY FS_Singleton
  <2> QED BY <2>2, <2>3, FS_Product
<1>4. Units(f) = UNION Columns BY <1>1 DEF Units
<1>5. IsFiniteSet(Units(f)) BY <1>2, <1>3, <1>4, FS_UNION
<1>6. Total(f) \in Nat BY <1>5, FS_CardinalityType DEF Total
<1>7. \A u : u \in UNION Columns <=> \E x \in D : u \in Column(x) OBVIOUS
<1> QED BY <1>4, <1>5, <1>6, <1>7

\* Nothing sums to 0.
LEMMA TotalZero ==
  ASSUME NEW D PROVE Total([x \in D |-> 0]) = 0
<1> DEFINE z == [x \in D |-> 0]
<1>1. \A x \in DOMAIN z : 1 .. z[x] = {} OBVIOUS
<1>2. Units(z) = {} BY <1>1 DEF Units
<1> QED BY <1>2, FS_EmptySet DEF Total

\* The units of f and those of g shifted past them are the units of their sum.
LEMMA TotalPlus ==
  ASSUME NEW D, IsFiniteSet(D), NEW f \in [D -> Nat], NEW g \in [D -> Nat]
  PROVE  /\ Plus(f, g) \in [D -> Nat]
         /\ Total(Plus(f, g)) = Total(f) + Total(g)
<1> DEFINE h == [x \in D |-> f[x] + g[x]]
           Shift(u) == <<u[1], f[u[1]] + u[2]>>
           shift == [u \in Units(g) |-> Shift(u)]
           Above == {Shift(u) : u \in Units(g)}
<1>1. Plus(f, g) = h BY DEF Plus
<1>2. h \in [D -> Nat] OBVIOUS
<1>3. \A u \in Units(f) : u[1] \in D /\ u[2] \in 1 .. f[u[1]] /\ u = <<u[1], u[2]>>
  BY UnitsFinite
<1>4. \A u \in Units(g) : u[1] \in D /\ u[2] \in 1 .. g[u[1]] /\ u = <<u[1], u[2]>>
  BY UnitsFinite
<1>5. \A u \in Units(h) : u[1] \in D /\ u[2] \in 1 .. h[u[1]] /\ u = <<u[1], u[2]>>
  BY <1>2, UnitsFinite
<1>6. \A x \in D : f[x] \in Nat /\ g[x] \in Nat /\ h[x] = f[x] + g[x] OBVIOUS
<1>f. \A x \in D : \A i \in 1 .. f[x] : <<x, i>> \in Units(f) BY UnitsFinite
<1>g. \A x \in D : \A i \in 1 .. g[x] : <<x, i>> \in Units(g) BY UnitsFinite
<1>h. \A x \in D : \A i \in 1 .. h[x] : <<x, i>> \in Units(h) BY <1>2, UnitsFinite
<1> HIDE DEF h
<1>7. Units(h) = Units(f) \cup Above
  <2>1. ASSUME NEW u \in Units(h) PROVE u \in Units(f) \cup Above
    <3> DEFINE x == u[1]  i == u[2]
    <3>1. x \in D /\ i \in 1 .. h[x] /\ u = <<x, i>> BY <1>5
    <3>2. f[x] \in Nat /\ g[x] \in Nat /\ h[x] = f[x] + g[x] BY <3>1, <1>6
    <3> HIDE DEF x, i
    <3>3. CASE i <= f[x]
      <4>1. i \in 1 .. f[x] BY <3>1, <3>2, <3>3
      <4> QED BY <4>1, <3>1, <1>f
    <3>4. CASE ~(i <= f[x])
      <4>1. i - f[x] \in 1 .. g[x] /\ f[x] + (i - f[x]) = i BY <3>1, <3>2, <3>4
      <4> DEFINE v == <<x, i - f[x]>>
      <4>2. v \in Units(g) BY <4>1, <3>1, <1>g
      <4>3. Shift(v) = u BY <4>1, <3>1
      <4> QED BY <4>2, <4>3
    <3> QED BY <3>3, <3>4
  <2>2. ASSUME NEW u \in Units(f) PROVE u \in Units(h)
    <3>1. u[1] \in D /\ u[2] \in 1 .. f[u[1]] /\ u = <<u[1], u[2]>> BY <1>3
    <3>2. u[2] \in 1 .. h[u[1]] BY <3>1, <1>6
    <3> QED BY <3>1, <3>2, <1>h
  <2>3. ASSUME NEW u \in Units(g) PROVE Shift(u) \in Units(h)
    <3>1. u[1] \in D /\ u[2] \in 1 .. g[u[1]] BY <1>4
    <3>2. f[u[1]] + u[2] \in 1 .. h[u[1]] BY <3>1, <1>6
    <3> QED BY <3>1, <3>2, <1>h
  <2> QED BY <2>1, <2>2, <2>3
<1>8. Units(f) \cap Above = {}
  <2> SUFFICES ASSUME NEW u \in Units(g), Shift(u) \in Units(f) PROVE FALSE OBVIOUS
  <2>1. u[1] \in D /\ u[2] \in 1 .. g[u[1]] BY <1>4
  <2>2. Shift(u)[1] = u[1] /\ Shift(u)[2] = f[u[1]] + u[2] OBVIOUS
  <2>3. f[u[1]] + u[2] \in 1 .. f[u[1]] BY <1>3, <2>2
  <2> QED BY <2>1, <2>3, <1>6
<1>9. ExistsBijection(Units(g), Above)
  <2>1. shift \in [Units(g) -> Above] OBVIOUS
  <2>2. \A c \in Above : \E u \in Units(g) : shift[u] = c OBVIOUS
  <2>3. ASSUME NEW u \in Units(g), NEW v \in Units(g), shift[u] = shift[v] PROVE u = v
    <3>1. <<u[1], f[u[1]] + u[2]>> = <<v[1], f[v[1]] + v[2]>> BY <2>3
    <3>2. u[1] = v[1] /\ f[u[1]] + u[2] = f[v[1]] + v[2] BY <3>1
    <3>3. u[1] \in D /\ u[2] \in 1 .. g[u[1]] /\ v[2] \in 1 .. g[v[1]] BY <1>4
    <3>4. u[2] = v[2] BY <3>2, <3>3, <1>6
    <3> QED BY <3>2, <3>4, <1>4
  <2>4. shift \in Bijection(Units(g), Above)
    BY <2>1, <2>2, <2>3 DEF Bijection, Injection, Surjection, IsInjective
  <2> QED BY <2>4 DEF ExistsBijection
<1>10. IsFiniteSet(Above) /\ Cardinality(Above) = Total(g)
  BY <1>9, UnitsFinite, FS_Bijection DEF Total
<1>11. Total(h) = Total(f) + Total(g)
  <2>1. IsFiniteSet(Units(f)) /\ Total(f) \in Nat /\ Total(g) \in Nat BY UnitsFinite
  <2>2. Cardinality(Units(f) \cup Above) = Cardinality(Units(f)) + Cardinality(Above) - Cardinality({})
    BY <2>1, <1>10, <1>8, FS_Union
  <2>3. Cardinality({}) = 0 BY FS_EmptySet
  <2> QED BY <2>1, <2>2, <2>3, <1>7, <1>10 DEF Total
<1> QED BY <1>1, <1>2, <1>11

\* A column of units counts its height.
LEMMA ColumnCount ==
  ASSUME NEW x, NEW n \in Nat
  PROVE  IsFiniteSet({x} \X (1 .. n)) /\ Cardinality({x} \X (1 .. n)) = n
<1>1. IsFiniteSet(1 .. n) /\ Cardinality(1 .. n) = n BY FS_Interval
<1>2. IsFiniteSet({x}) /\ Cardinality({x}) = 1 BY FS_Singleton
<1>3. IsFiniteSet({x} \X (1 .. n)) /\ Cardinality({x} \X (1 .. n)) = 1 * n
  BY <1>1, <1>2, FS_Product
<1> QED BY <1>3

\* A value that is raised by n raises the sum by n.
LEMMA TotalRaised ==
  ASSUME NEW D, IsFiniteSet(D), NEW f \in [D -> Nat], NEW g \in [D -> Nat],
         NEW x \in D, NEW n \in Nat, g[x] = f[x] + n, \A y \in D \ {x} : g[y] = f[y]
  PROVE  Total(g) = Total(f) + n
<1> DEFINE p == [y \in D |-> IF y = x THEN n ELSE 0]
<1>1. p \in [D -> Nat] OBVIOUS
<1>2. Units(p) = {x} \X (1 .. n)
  <2>1. \A y \in D : y # x => {y} \X (1 .. p[y]) = {} OBVIOUS
  <2>2. p[x] = n OBVIOUS
  <2>3. \A u : u \in Units(p) <=> \E y \in D : u \in {y} \X (1 .. p[y]) BY <1>1, UnitsFinite
  <2> HIDE DEF p
  <2>4. \A u : u \in Units(p) <=> u \in {x} \X (1 .. p[x]) BY <2>1, <2>3
  <2>5. Units(p) = {x} \X (1 .. p[x]) BY <2>4 DEF Units
  <2> QED BY <2>5, <2>2
<1>3. Total(p) = n BY <1>2, ColumnCount DEF Total
<1>4. Plus(f, p) = g
  <2>1. Plus(f, p) = [y \in D |-> f[y] + p[y]] BY DEF Plus
  <2>2. \A y \in D : f[y] + p[y] = g[y] OBVIOUS
  <2>3. g = [y \in D |-> g[y]] OBVIOUS
  <2> HIDE DEF p
  <2> QED BY <2>1, <2>2, <2>3
<1> HIDE DEF p
<1> QED BY <1>1, <1>3, <1>4, TotalPlus

\* No value is above the sum.
LEMMA TotalMember ==
  ASSUME NEW D, IsFiniteSet(D), NEW f \in [D -> Nat], NEW x \in D
  PROVE  f[x] <= Total(f)
<1>1. f[x] \in Nat OBVIOUS
<1>2. {x} \X (1 .. f[x]) \subseteq Units(f) BY UnitsFinite
<1>3. IsFiniteSet(Units(f)) BY UnitsFinite
<1>4. Cardinality({x} \X (1 .. f[x])) <= Cardinality(Units(f)) BY <1>2, <1>3, FS_Subset
<1> QED BY <1>1, <1>4, ColumnCount DEF Total

\* Ones add up to the number of their places.
LEMMA TotalOnes ==
  ASSUME NEW D, IsFiniteSet(D), NEW S \in SUBSET D
  PROVE  Total([x \in D |-> IF x \in S THEN 1 ELSE 0]) = Cardinality(S)
<1> DEFINE f == [x \in D |-> IF x \in S THEN 1 ELSE 0]
<1>1. f \in [D -> Nat] OBVIOUS
<1>2. Units(f) = S \X (1 .. 1)
  <2>1. \A x \in S : f[x] = 1 OBVIOUS
  <2>2. \A x \in D \ S : 1 .. f[x] = {} OBVIOUS
  <2>3. \A u : u \in Units(f) <=> \E x \in D : u \in {x} \X (1 .. f[x]) BY <1>1, UnitsFinite
  <2> HIDE DEF f
  <2>4. \A u : u \in Units(f) <=> \E x \in S : u \in {x} \X (1 .. 1) BY <2>1, <2>2, <2>3
  <2>5. \A u : (\E x \in S : u \in {x} \X (1 .. 1)) <=> u \in S \X (1 .. 1) OBVIOUS
  <2>6. \A u : u \in Units(f) <=> u \in S \X (1 .. 1) BY <2>4, <2>5, Zenon
  <2> QED BY <2>6 DEF Units
<1>3. IsFiniteSet(S) /\ Cardinality(S) \in Nat BY FS_Subset, FS_CardinalityType
<1>4. IsFiniteSet(1 .. 1) /\ Cardinality(1 .. 1) = 1
  <2>1. 1 .. 1 = {1} OBVIOUS
  <2> QED BY <2>1, FS_Singleton
<1>5. Cardinality(S \X (1 .. 1)) = Cardinality(S) * 1 BY <1>3, <1>4, FS_Product
<1> HIDE DEF f
<1>6. Total(f) = Cardinality(S) BY <1>2, <1>3, <1>5 DEF Total
<1> QED BY <1>6 DEF f

-----------------------------------------------------------------------------
(* The domains the tables are indexed by are finite. *)

Vocabulary == InboundSegments \cup OutboundSegments
                \cup {"other", "notice:poke", "notice:other", "request:friend", "request:group",
                      "request:other", "meta_event:other"}

LEMMA ClassifiedKeys ==
  ASSUME NEW segments \in Seq(STRING), NEW known
  PROVE  /\ Classified(segments, known) \in Seq(known \cup {"other"})
         /\ Classified(segments, known) # <<>>
<1>1. CASE segments = <<>>
  <2>1. <<"other">> \in Seq(known \cup {"other"}) OBVIOUS
  <2>2. Classified(segments, known) = <<"other">> BY <1>1 DEF Classified
  <2> QED BY <2>1, <2>2
<1>2. CASE segments # <<>>
  <2>1. Len(segments) \in Nat /\ DOMAIN segments = 1 .. Len(segments) BY LenProperties
  <2>2. Classified(segments, known) \in [1 .. Len(segments) -> known \cup {"other"}]
    BY <1>2, <2>1 DEF Classified
  <2>3. Classified(segments, known) \in Seq(known \cup {"other"}) BY <2>1, <2>2
  <2>4. Len(segments) # 0 BY <1>2, EmptySeq
  <2>5. DOMAIN Classified(segments, known) = 1 .. Len(segments) BY <2>2
  <2>6. 1 \in DOMAIN Classified(segments, known) BY <2>4, <2>5, <2>1
  <2> QED BY <2>3, <2>6, EmptySeq
<1> QED BY <1>1, <1>2

LEMMA SeqOfItsOwn ==
  ASSUME NEW S, NEW s \in Seq(S), NEW T, ToSet(s) \subseteq T
  PROVE  s \in Seq(T)
<1>1. Len(s) \in Nat /\ DOMAIN s = 1 .. Len(s) /\ s \in [1 .. Len(s) -> S] BY LenProperties
<1>2. \A i \in 1 .. Len(s) : s[i] \in T BY <1>1 DEF ToSet
<1>3. s \in [1 .. Len(s) -> T] BY <1>1, <1>2
<1> QED BY <1>1, <1>3

LEMMA InboundKeys ==
  ASSUME NEW e \in Events
  PROVE  InboundTypeKeys(e) \in Seq(TypeKeys) /\ InboundTypeKeys(e) \in Seq(Vocabulary)
<1> SUFFICES InboundTypeKeys(e) \in Seq(Vocabulary)
  <2>1. ToSet(InboundTypeKeys(e)) \subseteq TypeKeys BY DEF TypeKeys
  <2> QED BY <2>1, SeqOfItsOwn
<1>1. e \in [post : STRING, detail : STRING, segments : Seq(STRING)] BY CollectorConstants
<1>2. CASE e.post = "message"
  <2>1. InboundTypeKeys(e) = Classified(e.segments, InboundSegments) BY <1>2 DEF InboundTypeKeys
  <2>2. e.segments \in Seq(STRING) BY <1>1
  <2>3. InboundTypeKeys(e) \in Seq(InboundSegments \cup {"other"}) BY <2>1, <2>2, ClassifiedKeys
  <2>4. InboundSegments \cup {"other"} \subseteq Vocabulary BY DEF Vocabulary
  <2> QED BY <2>3, <2>4
<1>3. CASE e.post = "notice"
  <2>1. InboundTypeKeys(e) = <<NoticeKey(e.detail)>> BY <1>3 DEF InboundTypeKeys
  <2>2. NoticeKey(e.detail) \in Vocabulary BY DEF NoticeKey, Vocabulary
  <2> QED BY <2>1, <2>2
<1>4. CASE e.post = "request"
  <2>1. InboundTypeKeys(e) = <<RequestKey(e.detail)>> BY <1>4 DEF InboundTypeKeys
  <2>2. RequestKey(e.detail) \in {"request:friend", "request:group", "request:other"} BY DEF RequestKey
  <2>3. RequestKey(e.detail) \in Vocabulary BY <2>2 DEF Vocabulary
  <2> QED BY <2>1, <2>3
<1>5. CASE e.post = "meta_event"
  <2>1. InboundTypeKeys(e) = <<"meta_event:other">> BY <1>5 DEF InboundTypeKeys
  <2>2. "meta_event:other" \in Vocabulary BY DEF Vocabulary
  <2> QED BY <2>1, <2>2
<1>6. CASE e.post \notin {"message", "notice", "request", "meta_event"}
  <2>1. InboundTypeKeys(e) = <<>> BY <1>6 DEF InboundTypeKeys
  <2> QED BY <2>1, EmptySeq
<1> QED BY <1>2, <1>3, <1>4, <1>5, <1>6

LEMMA OutboundKeys ==
  ASSUME NEW p \in Payloads
  PROVE  OutboundTypeKeys(p) \in Seq(TypeKeys) /\ OutboundTypeKeys(p) \in Seq(Vocabulary)
<1>1. p \in Seq(STRING) BY CollectorConstants
<1>2. OutboundTypeKeys(p) \in Seq(OutboundSegments \cup {"other"}) BY <1>1, ClassifiedKeys DEF OutboundTypeKeys
<1>3. OutboundSegments \cup {"other"} \subseteq Vocabulary BY DEF Vocabulary
<1>4. OutboundTypeKeys(p) \in Seq(Vocabulary) BY <1>2, <1>3
<1>5. ToSet(OutboundTypeKeys(p)) \subseteq TypeKeys BY DEF TypeKeys
<1> QED BY <1>4, <1>5, SeqOfItsOwn

LEMMA KeysInVocabulary == TypeKeys \subseteq Vocabulary
<1>1. \A S : \A s \in Seq(S) : ToSet(s) \subseteq S BY LenProperties DEF ToSet
<1>2. \A e \in Events : ToSet(InboundTypeKeys(e)) \subseteq Vocabulary BY <1>1, InboundKeys
<1>3. \A p \in Payloads : ToSet(OutboundTypeKeys(p)) \subseteq Vocabulary BY <1>1, OutboundKeys
<1>4. "other" \in Vocabulary BY DEF Vocabulary
<1> QED BY <1>2, <1>3, <1>4 DEF TypeKeys

LEMMA FiniteDomains == IsFiniteSet(Days) /\ IsFiniteSet(Hours) /\ IsFiniteSet(TypeKeys)
<1>1. HoursPerDay \in Nat \ {0} /\ MaxHour \in Nat BY CollectorConstants
<1>2. IsFiniteSet(Hours) BY <1>1, FS_Interval DEF Hours
<1>3. IsFiniteSet(Time) BY <1>1, FS_Interval DEF Time
<1>4. IsFiniteSet(Days)
  <2> DEFINE day == [t \in Time |-> Day(t)]
  <2>1. day \in Surjection(Time, Days) BY DEF Surjection, Days
  <2> QED BY <2>1, <1>3, FS_Surjection
<1>5. IsFiniteSet(Vocabulary)
  <2> DEFINE words == <<"text", "image", "video", "record", "file", "at", "reply", "face", "forward",
                        "json", "xml", "poke", "other", "notice:poke", "notice:other", "request:friend",
                        "request:group", "request:other", "meta_event:other">>
  <2>1. words \in Seq(Vocabulary) BY DEF Vocabulary, InboundSegments, OutboundSegments
  <2>2. \A s \in Vocabulary : \E n \in 1 .. 19 : words[n] = s
    BY DEF Vocabulary, InboundSegments, OutboundSegments
  <2>3. Len(words) = 19 OBVIOUS
  <2> QED BY <2>1, <2>2, <2>3 DEF IsFiniteSet
<1> QED BY <1>2, <1>4, <1>5, KeysInVocabulary, FS_Subset

-----------------------------------------------------------------------------
(* What a transaction that commits has changed. *)

TrafficRecords ==
  [type : {"traffic"}, kind : Kinds, counts : [TypeKeys -> Nat], session : Sessions, at : Time]

Ones(marks)       == [m \in Marks |-> IF m \in marks THEN 1 ELSE 0]
Measured(latency) == [m \in Measures |-> IF m = "count" THEN 1 ELSE latency]

LEMMA CountsTyped ==
  ASSUME NEW keys \in Seq(TypeKeys) PROVE TypeCounts(keys) \in [TypeKeys -> Nat]
<1> SUFFICES ASSUME NEW k \in TypeKeys PROVE Cardinality({i \in DOMAIN keys : keys[i] = k}) \in Nat
  BY DEF TypeCounts
<1>1. Len(keys) \in Nat /\ DOMAIN keys = 1 .. Len(keys) BY LenProperties
<1>2. IsFiniteSet(DOMAIN keys) BY <1>1, FS_Interval
<1>3. IsFiniteSet({i \in DOMAIN keys : keys[i] = k}) BY <1>2, FS_Subset
<1> QED BY <1>3, FS_CardinalityType

LEMMA TimeDomains ==
  ASSUME NEW t \in Time PROVE Day(t) \in Days /\ Hour(t) \in Hours
<1>1. HoursPerDay \in Nat \ {0} /\ t \in Nat BY CollectorConstants DEF Time
<1>2. t % HoursPerDay \in 0 .. HoursPerDay - 1 BY <1>1, Z3T(30)
<1> QED BY <1>2 DEF Days, Hours, Hour

LEMMA WholeSubSeq ==
  ASSUME NEW S, NEW s \in Seq(S) PROVE SubSeq(s, 1, Len(s)) = s
<1>1. Len(s) \in Nat /\ DOMAIN s = 1 .. Len(s) BY LenProperties
<1> QED BY <1>1, SubSeqProperties, SeqEqual

LEMMA TrafficCommitted ==
  ASSUME NEW t \in Tables, NEW r \in TrafficRecords
  PROVE  Written(t, r, Len(Statements(r)))
           = [daily    |-> [t.daily EXCEPT ![Day(r.at)] = Plus(@, Only(r.kind, Total(r.counts)))],
              hourly   |-> [t.hourly EXCEPT ![Day(r.at)][Hour(r.at)] = Plus(@, Only(r.kind, Total(r.counts)))],
              types    |-> [t.types EXCEPT ![Day(r.at)][r.kind] = Plus(@, r.counts)],
              typeSums |-> [t.typeSums EXCEPT ![r.kind] = Plus(@, r.counts)],
              sessions |-> t.sessions \cup SessionRow(Day(r.at), r.session),
              last     |-> [t.last EXCEPT ![r.kind] = r.at],
              connected |-> IF r.kind = "received" THEN Coalesce(t.connected, r.at) ELSE t.connected,
              marks    |-> t.marks, markSums |-> t.markSums,
              latency  |-> t.latency, latencySum |-> t.latencySum]
<1> DEFINE s == <<"daily", "hourly", "types", "session", "state">>
           done == ToSet(s)
<1>1. r.type = "traffic" BY DEF TrafficRecords
<1>2. Statements(r) = s BY <1>1 DEF Statements
<1>3. s \in Seq({"daily", "hourly", "types", "session", "state"}) OBVIOUS
<1>4. SubSeq(s, 1, Len(s)) = s BY <1>3, WholeSubSeq
<1>5. done = {"daily", "hourly", "types", "session", "state"} BY DEF ToSet
<1>6. Written(t, r, Len(Statements(r))) = UpsertTraffic(t, r, done)
  BY <1>1, <1>2, <1>4 DEF Written
<1>7. t = [daily |-> t.daily, hourly |-> t.hourly, types |-> t.types, typeSums |-> t.typeSums,
           sessions |-> t.sessions, last |-> t.last, connected |-> t.connected, marks |-> t.marks,
           markSums |-> t.markSums, latency |-> t.latency, latencySum |-> t.latencySum]
  BY DEF Tables
<1> HIDE DEF s, done
<1>8. "daily" \in done /\ "hourly" \in done /\ "types" \in done /\ "session" \in done /\ "state" \in done
  BY <1>5
<1> DEFINE d == Day(r.at)  h == Hour(r.at)  n == Only(r.kind, Total(r.counts))
<1>9. UpsertTraffic(t, r, done)
        = [t EXCEPT !.daily[d] = Plus(@, n), !.hourly[d][h] = Plus(@, n),
                    !.types[d][r.kind] = Plus(@, r.counts), !.typeSums[r.kind] = Plus(@, r.counts),
                    !.sessions = @ \cup SessionRow(d, r.session), !.last[r.kind] = r.at,
                    !.connected = IF r.kind = "received" THEN Coalesce(@, r.at) ELSE @]
  BY <1>8 DEF UpsertTraffic
<1> QED BY <1>6, <1>7, <1>9

LEMMA ImmersiveCommitted ==
  ASSUME NEW t \in Tables, NEW r \in ImmersiveRecords
  PROVE  Written(t, r, Len(Statements(r)))
           = [daily    |-> t.daily, hourly |-> t.hourly, types |-> t.types, typeSums |-> t.typeSums,
              sessions |-> t.sessions, last |-> t.last, connected |-> t.connected,
              marks    |-> [t.marks EXCEPT ![Day(now)] = Plus(@, Ones(r.marks))],
              markSums |-> Plus(t.markSums, Ones(r.marks)),
              latency  |-> [t.latency EXCEPT ![Day(now)] = Plus(@, Measured(r.latency))],
              latencySum |-> Plus(t.latencySum, Measured(r.latency))]
<1> DEFINE s == <<"marks", "latency">>
           done == ToSet(s)
<1>1. r.type = "immersive" BY DEF ImmersiveRecords
<1>2. Statements(r) = s BY <1>1 DEF Statements
<1>3. s \in Seq({"marks", "latency"}) OBVIOUS
<1>4. SubSeq(s, 1, Len(s)) = s BY <1>3, WholeSubSeq
<1>5. done = {"marks", "latency"} BY DEF ToSet
<1>6. Written(t, r, Len(Statements(r))) = UpsertImmersive(t, r, done)
  BY <1>1, <1>2, <1>4 DEF Written
<1>7. t = [daily |-> t.daily, hourly |-> t.hourly, types |-> t.types, typeSums |-> t.typeSums,
           sessions |-> t.sessions, last |-> t.last, connected |-> t.connected, marks |-> t.marks,
           markSums |-> t.markSums, latency |-> t.latency, latencySum |-> t.latencySum]
  BY DEF Tables
<1> HIDE DEF s, done
<1>8. "marks" \in done /\ "latency" \in done BY <1>5
<1> DEFINE d == Day(now)
<1>9. UpsertImmersive(t, r, done)
        = [t EXCEPT !.marks[d] = Plus(@, Ones(r.marks)), !.markSums = Plus(@, Ones(r.marks)),
                    !.latency[d] = Plus(@, Measured(r.latency)), !.latencySum = Plus(@, Measured(r.latency))]
  BY <1>8 DEF UpsertImmersive, Ones, Measured
<1> QED BY <1>6, <1>7, <1>9

LEMMA PlusTyped ==
  ASSUME NEW D, NEW f \in [D -> Nat], NEW g \in [D -> Nat]
  PROVE  Plus(f, g) \in [D -> Nat] /\ \A x \in D : Plus(f, g)[x] = f[x] + g[x]
BY DEF Plus

LEMMA OnlyTyped ==
  ASSUME NEW k \in Kinds, NEW n \in Nat
  PROVE  Only(k, n) \in [Kinds -> Nat] /\ \A j \in Kinds : Only(k, n)[j] = IF j = k THEN n ELSE 0
BY DEF Only, None

LEMMA TablesOf ==
  ASSUME NEW daily \in [Days -> [Kinds -> Nat]], NEW hourly \in [Days -> [Hours -> [Kinds -> Nat]]],
         NEW types \in [Days -> [Kinds -> [TypeKeys -> Nat]]], NEW typeSums \in [Kinds -> [TypeKeys -> Nat]],
         NEW sessions \in SUBSET (Days \X (Sessions \ {NoSession})),
         NEW last \in [Kinds -> Time \cup {Never}], NEW connected \in Time \cup {Never},
         NEW marks \in [Days -> [Marks -> Nat]], NEW markSums \in [Marks -> Nat],
         NEW latency \in [Days -> [Measures -> Nat]], NEW latencySum \in [Measures -> Nat]
  PROVE  [daily |-> daily, hourly |-> hourly, types |-> types, typeSums |-> typeSums,
          sessions |-> sessions, last |-> last, connected |-> connected, marks |-> marks,
          markSums |-> markSums, latency |-> latency, latencySum |-> latencySum] \in Tables
BY DEF Tables

LEMMA CommitTyped ==
  ASSUME NEW t \in Tables, NEW r \in TrafficRecords \cup ImmersiveRecords, now \in Time
  PROVE  Written(t, r, Len(Statements(r))) \in Tables
<1>1. CASE r \in TrafficRecords
  <2> DEFINE d == Day(r.at)  h == Hour(r.at)  n == Only(r.kind, Total(r.counts))
  <2>1. r.kind \in Kinds /\ r.counts \in [TypeKeys -> Nat] /\ r.session \in Sessions /\ r.at \in Time
    BY <1>1 DEF TrafficRecords
  <2>2. d \in Days /\ h \in Hours BY <2>1, TimeDomains
  <2>3. Total(r.counts) \in Nat BY <2>1, FiniteDomains, UnitsFinite
  <2>4. n \in [Kinds -> Nat] BY <2>1, <2>3, OnlyTyped
  <2>5. t.daily \in [Days -> [Kinds -> Nat]] /\ t.hourly \in [Days -> [Hours -> [Kinds -> Nat]]]
          /\ t.types \in [Days -> [Kinds -> [TypeKeys -> Nat]]] /\ t.typeSums \in [Kinds -> [TypeKeys -> Nat]]
    BY DEF Tables
  <2>6. t.sessions \subseteq Days \X (Sessions \ {NoSession})
          /\ t.last \in [Kinds -> Time \cup {Never}] /\ t.connected \in Time \cup {Never}
    BY DEF Tables
  <2>7. t.marks \in [Days -> [Marks -> Nat]] /\ t.markSums \in [Marks -> Nat]
          /\ t.latency \in [Days -> [Measures -> Nat]] /\ t.latencySum \in [Measures -> Nat]
    BY DEF Tables
  <2> HIDE DEF d, h, n
  <2>8. Plus(t.daily[d], n) \in [Kinds -> Nat]
    <3>1. t.daily[d] \in [Kinds -> Nat] BY <2>2, <2>5
    <3> QED BY <3>1, <2>4, PlusTyped
  <2>9. Plus(t.hourly[d][h], n) \in [Kinds -> Nat]
    <3>1. t.hourly[d][h] \in [Kinds -> Nat] BY <2>2, <2>5
    <3> QED BY <3>1, <2>4, PlusTyped
  <2>10. Plus(t.types[d][r.kind], r.counts) \in [TypeKeys -> Nat]
    <3>1. t.types[d][r.kind] \in [TypeKeys -> Nat] BY <2>1, <2>2, <2>5
    <3> QED BY <3>1, <2>1, PlusTyped
  <2>11. Plus(t.typeSums[r.kind], r.counts) \in [TypeKeys -> Nat]
    <3>1. t.typeSums[r.kind] \in [TypeKeys -> Nat] BY <2>1, <2>5
    <3> QED BY <3>1, <2>1, PlusTyped
  <2>12. [t.daily EXCEPT ![d] = Plus(@, n)] \in [Days -> [Kinds -> Nat]] BY <2>5, <2>8
  <2>13. [t.hourly EXCEPT ![d][h] = Plus(@, n)] \in [Days -> [Hours -> [Kinds -> Nat]]] BY <2>5, <2>9, <2>2
  <2>14. [t.types EXCEPT ![d][r.kind] = Plus(@, r.counts)] \in [Days -> [Kinds -> [TypeKeys -> Nat]]]
    BY <2>5, <2>10, <2>1, <2>2
  <2>15. [t.typeSums EXCEPT ![r.kind] = Plus(@, r.counts)] \in [Kinds -> [TypeKeys -> Nat]] BY <2>5, <2>11
  <2>16. t.sessions \cup SessionRow(d, r.session) \subseteq Days \X (Sessions \ {NoSession})
    BY <2>1, <2>2, <2>6 DEF SessionRow
  <2>17. [t.last EXCEPT ![r.kind] = r.at] \in [Kinds -> Time \cup {Never}] BY <2>1, <2>6
  <2>18. (IF r.kind = "received" THEN Coalesce(t.connected, r.at) ELSE t.connected) \in Time \cup {Never}
    BY <2>1, <2>6 DEF Coalesce
  <2> DEFINE daily == [t.daily EXCEPT ![d] = Plus(@, n)]
             hourly == [t.hourly EXCEPT ![d][h] = Plus(@, n)]
             types == [t.types EXCEPT ![d][r.kind] = Plus(@, r.counts)]
             typeSums == [t.typeSums EXCEPT ![r.kind] = Plus(@, r.counts)]
             sessions == t.sessions \cup SessionRow(d, r.session)
             last == [t.last EXCEPT ![r.kind] = r.at]
             connected == IF r.kind = "received" THEN Coalesce(t.connected, r.at) ELSE t.connected
             w == [daily |-> daily, hourly |-> hourly, types |-> types, typeSums |-> typeSums,
                   sessions |-> sessions, last |-> last, connected |-> connected,
                   marks |-> t.marks, markSums |-> t.markSums,
                   latency |-> t.latency, latencySum |-> t.latencySum]
  <2>19. w \in Tables
    <3> HIDE DEF daily, hourly, types, typeSums, sessions, last, connected
    <3>1. daily \in [Days -> [Kinds -> Nat]] BY <2>12 DEF daily
    <3>2. hourly \in [Days -> [Hours -> [Kinds -> Nat]]] BY <2>13 DEF hourly
    <3>3. types \in [Days -> [Kinds -> [TypeKeys -> Nat]]] BY <2>14 DEF types
    <3>4. typeSums \in [Kinds -> [TypeKeys -> Nat]] BY <2>15 DEF typeSums
    <3>5. sessions \in SUBSET (Days \X (Sessions \ {NoSession})) BY <2>16 DEF sessions
    <3>6. last \in [Kinds -> Time \cup {Never}] BY <2>17 DEF last
    <3>7. connected \in Time \cup {Never} BY <2>18 DEF connected
    <3> QED BY <3>1, <3>2, <3>3, <3>4, <3>5, <3>6, <3>7, <2>7, TablesOf
  <2>20. Written(t, r, Len(Statements(r))) = w BY <1>1, TrafficCommitted, Zenon DEF d, h, n
  <2> QED BY <2>19, <2>20
<1>2. CASE r \in ImmersiveRecords
  <2> DEFINE d == Day(now)
  <2>1. r.marks \subseteq Marks /\ r.latency \in Nat BY <1>2, CollectorConstants DEF ImmersiveRecords, Time
  <2>2. d \in Days BY TimeDomains
  <2>3. Ones(r.marks) \in [Marks -> Nat] /\ Measured(r.latency) \in [Measures -> Nat] BY <2>1 DEF Ones, Measured
  <2>4. t.marks \in [Days -> [Marks -> Nat]] /\ t.markSums \in [Marks -> Nat]
          /\ t.latency \in [Days -> [Measures -> Nat]] /\ t.latencySum \in [Measures -> Nat]
    BY DEF Tables
  <2> HIDE DEF d
  <2>5. t.marks[d] \in [Marks -> Nat] /\ t.latency[d] \in [Measures -> Nat] BY <2>2, <2>4
  <2>6. Plus(t.marks[d], Ones(r.marks)) \in [Marks -> Nat] /\ Plus(t.markSums, Ones(r.marks)) \in [Marks -> Nat]
    BY <2>3, <2>4, <2>5, PlusTyped
  <2>7. Plus(t.latency[d], Measured(r.latency)) \in [Measures -> Nat]
          /\ Plus(t.latencySum, Measured(r.latency)) \in [Measures -> Nat]
    BY <2>3, <2>4, <2>5, PlusTyped
  <2>8. [t.marks EXCEPT ![d] = Plus(@, Ones(r.marks))] \in [Days -> [Marks -> Nat]] BY <2>4, <2>6
  <2>9. [t.latency EXCEPT ![d] = Plus(@, Measured(r.latency))] \in [Days -> [Measures -> Nat]] BY <2>4, <2>7
  <2>10. /\ t.daily \in [Days -> [Kinds -> Nat]] /\ t.hourly \in [Days -> [Hours -> [Kinds -> Nat]]]
         /\ t.types \in [Days -> [Kinds -> [TypeKeys -> Nat]]] /\ t.typeSums \in [Kinds -> [TypeKeys -> Nat]]
         /\ t.sessions \subseteq Days \X (Sessions \ {NoSession})
         /\ t.last \in [Kinds -> Time \cup {Never}] /\ t.connected \in Time \cup {Never}
    BY DEF Tables
  <2> DEFINE w == [daily |-> t.daily, hourly |-> t.hourly, types |-> t.types, typeSums |-> t.typeSums,
                   sessions |-> t.sessions, last |-> t.last, connected |-> t.connected,
                   marks |-> [t.marks EXCEPT ![d] = Plus(@, Ones(r.marks))],
                   markSums |-> Plus(t.markSums, Ones(r.marks)),
                   latency |-> [t.latency EXCEPT ![d] = Plus(@, Measured(r.latency))],
                   latencySum |-> Plus(t.latencySum, Measured(r.latency))]
  <2>11. w \in Tables BY <2>6, <2>7, <2>8, <2>9, <2>10, TablesOf
  <2>12. Written(t, r, Len(Statements(r))) = w BY <1>2, ImmersiveCommitted, Zenon DEF d
  <2> QED BY <2>11, <2>12
<1> QED BY <1>1, <1>2

-----------------------------------------------------------------------------
(* Types. *)

ImmersiveRows == [Slots -> ImmersiveRecords \cup {Nothing}]
StatementNames == {"today", "totals", "sessions", "state", "received", "sent", "failed", "hourly", "starts"}
Answers == UNION {Answer(s) : s \in StatementNames}

\* The calls of the chats, none of them in the future.
Called(calls, t) ==
  calls \in [Chats -> Time \cup {Never}] /\ \A c \in Chats : calls[c] # Never => calls[c] <= t

\* Slots are used one after another.
Filled(rows, n) ==
  n \in 0 .. MaxImmersive /\ rows \in ImmersiveRows /\ \A i \in Slots : n < i => rows[i] = Nothing

\* No pending call is in the future, the slots above the last record are unused,
\* the session table is finite, and the overview is a sequence of answers that
\* only an open one has.
ShapeInv ==
  /\ Called(call, now) /\ Filled(owed, immersive)
  /\ IsFiniteSet(db.sessions)
  /\ view = [at |-> view.at, seen |-> view.seen]
  /\ view.seen \in Seq(Answers)
  /\ view.at = Never => view.seen = <<>>

TypeInv == TypeOK /\ ShapeInv

LEMMA TimeFacts ==
  /\ MaxHour \in Nat /\ Never \in Nat /\ Never \notin Time /\ 0 \in Time
  /\ \A t \in Time : t \in Nat /\ t # Never
BY CollectorConstants DEF Time, Never

LEMMA OverviewFacts ==
  /\ Len(Overview) = 9
  /\ \A i \in 1 .. 9 : Overview[i] \in StatementNames
BY DEF Overview, StatementNames

\* A record in full.
Whole(t, r) == Written(t, r, Len(Statements(r)))

LEMMA Settled ==
  ASSUME NEW r, Transaction(r)
  PROVE  db' = Whole(db, r) \/ db' = db
BY Zenon DEF Transaction, RolledBack, Whole

LEMMA InboundRecord ==
  ASSUME NEW e \in Events, NEW s \in Sessions, NEW at \in Time
  PROVE  Traffic("received", InboundTypeKeys(e), s, at) \in TrafficRecords
<1>1. TypeCounts(InboundTypeKeys(e)) \in [TypeKeys -> Nat] BY InboundKeys, CountsTyped
<1>2. "received" \in Kinds BY DEF Kinds
<1> HIDE DEF Kinds
<1> QED BY <1>1, <1>2 DEF Traffic, TrafficRecords

LEMMA OutboundRecord ==
  ASSUME NEW p \in Payloads, NEW s \in Sessions, NEW success \in BOOLEAN, now \in Time
  PROVE  Traffic(IF success THEN "sent" ELSE "failed", OutboundTypeKeys(p), s, now) \in TrafficRecords
<1>1. TypeCounts(OutboundTypeKeys(p)) \in [TypeKeys -> Nat] BY OutboundKeys, CountsTyped
<1>2. (IF success THEN "sent" ELSE "failed") \in Kinds BY DEF Kinds
<1> QED BY <1>1, <1>2 DEF Traffic, TrafficRecords

LEMMA OwedTyped ==
  ASSUME TypeOK, NEW i \in Slots, owed[i] # Nothing PROVE owed[i] \in ImmersiveRecords
BY DEF TypeOK

\* What a step does to the tables: nothing, or the whole of one record.
TrafficStep(r) ==
  db' = Whole(db, r) /\ UNCHANGED <<now, started, call, owed, view, waiting>>
ImmersiveStep(i) ==
  /\ owed[i] # Nothing /\ owed' = [owed EXCEPT ![i] = Nothing]
  /\ db' = Whole(db, owed[i]) \/ db' = db
  /\ UNCHANGED <<now, started, call, view, waiting>>

LEMMA TableSteps ==
  ASSUME TypeOK, [Next]_vars
  PROVE  db' = db \/ (\E r \in TrafficRecords : TrafficStep(r)) \/ (\E i \in Slots : ImmersiveStep(i))
<1>0. now \in Time BY DEF TypeOK
<1>1. ASSUME NEW e \in Events, NEW s \in Sessions, NEW at \in Time, RecordInbound(e, s, at)
      PROVE  db' = db \/ \E r \in TrafficRecords : TrafficStep(r)
  <2> DEFINE r == Traffic("received", InboundTypeKeys(e), s, at)
  <2>1. r \in TrafficRecords BY InboundRecord
  <2>2. Transaction(r) /\ UNCHANGED <<now, started, call, owed, view, waiting>> BY <1>1, Zenon DEF RecordInbound
  <2> HIDE DEF r
  <2> QED BY <2>1, <2>2, Settled, Zenon DEF TrafficStep
<1>2. ASSUME NEW p \in Payloads, NEW s \in Sessions, NEW success \in BOOLEAN, RecordOutbound(p, s, success)
      PROVE  db' = db \/ \E r \in TrafficRecords : TrafficStep(r)
  <2> DEFINE r == Traffic(IF success THEN "sent" ELSE "failed", OutboundTypeKeys(p), s, now)
  <2>1. r \in TrafficRecords BY <1>0, OutboundRecord
  <2>2. Transaction(r) /\ UNCHANGED <<now, started, call, owed, view, waiting>> BY <1>2, Zenon DEF RecordOutbound
  <2> HIDE DEF r
  <2> QED BY <2>1, <2>2, Settled, Zenon DEF TrafficStep
<1>3. ASSUME NEW i \in Slots, RecordImmersive(i) PROVE ImmersiveStep(i)
  BY <1>3, Settled, Zenon DEF RecordImmersive, ImmersiveStep, bounds
<1>4. Handlers => db' = db \/ \E r \in TrafficRecords : TrafficStep(r)
  BY <1>1, <1>2, Zenon DEF Handlers
<1>5. Engine => db' = db \/ \E i \in Slots : ImmersiveStep(i)
  BY <1>3, Zenon DEF Engine, NoteStrongCall, Deliver, Observe, Clear
<1>6. Dashboard => db' = db BY Zenon DEF Dashboard, OpenOverview, BuildOverview, CloseOverview
<1>7. Process => db' = db BY Zenon DEF Process, Tick, SetBotStartedAt, Restart
<1>8. UNCHANGED vars => db' = db BY Zenon DEF vars
<1> QED BY <1>4, <1>5, <1>6, <1>7, <1>8, Zenon DEF Next

LEMMA TrafficFields ==
  ASSUME NEW t \in Tables, NEW r \in TrafficRecords
  PROVE  /\ Whole(t, r).daily = [t.daily EXCEPT ![Day(r.at)] = Plus(@, Only(r.kind, Total(r.counts)))]
         /\ Whole(t, r).hourly = [t.hourly EXCEPT ![Day(r.at)][Hour(r.at)] = Plus(@, Only(r.kind, Total(r.counts)))]
         /\ Whole(t, r).types = [t.types EXCEPT ![Day(r.at)][r.kind] = Plus(@, r.counts)]
         /\ Whole(t, r).typeSums = [t.typeSums EXCEPT ![r.kind] = Plus(@, r.counts)]
         /\ Whole(t, r).sessions = t.sessions \cup SessionRow(Day(r.at), r.session)
         /\ Whole(t, r).last = [t.last EXCEPT ![r.kind] = r.at]
         /\ Whole(t, r).connected = IF r.kind = "received" THEN Coalesce(t.connected, r.at) ELSE t.connected
         /\ Whole(t, r).marks = t.marks /\ Whole(t, r).markSums = t.markSums
         /\ Whole(t, r).latency = t.latency /\ Whole(t, r).latencySum = t.latencySum
BY TrafficCommitted DEF Whole

LEMMA ImmersiveFields ==
  ASSUME NEW t \in Tables, NEW r \in ImmersiveRecords
  PROVE  /\ Whole(t, r).daily = t.daily /\ Whole(t, r).hourly = t.hourly /\ Whole(t, r).types = t.types /\ Whole(t, r).typeSums = t.typeSums
         /\ Whole(t, r).sessions = t.sessions /\ Whole(t, r).last = t.last /\ Whole(t, r).connected = t.connected
         /\ Whole(t, r).marks = [t.marks EXCEPT ![Day(now)] = Plus(@, Ones(r.marks))]
         /\ Whole(t, r).markSums = Plus(t.markSums, Ones(r.marks))
         /\ Whole(t, r).latency = [t.latency EXCEPT ![Day(now)] = Plus(@, Measured(r.latency))]
         /\ Whole(t, r).latencySum = Plus(t.latencySum, Measured(r.latency))
BY ImmersiveCommitted DEF Whole

LEMMA TablesTyped ==
  ASSUME TypeInv, [Next]_vars
  PROVE  db' \in Tables /\ IsFiniteSet(db'.sessions)
<1>1. db \in Tables /\ IsFiniteSet(db.sessions) /\ now \in Time BY DEF TypeInv, TypeOK, ShapeInv
<1>2. ASSUME NEW r \in TrafficRecords, TrafficStep(r) PROVE db' \in Tables /\ IsFiniteSet(db'.sessions)
  <2>1. db' = Whole(db, r) BY <1>2 DEF TrafficStep
  <2>2. db' \in Tables BY <1>1, <2>1, CommitTyped DEF Whole
  <2>3. db'.sessions = db.sessions \cup SessionRow(Day(r.at), r.session) BY <1>1, <2>1, TrafficFields
  <2>4. IsFiniteSet(SessionRow(Day(r.at), r.session)) BY FS_EmptySet, FS_Singleton DEF SessionRow
  <2> QED BY <2>2, <2>3, <2>4, <1>1, FS_Union
<1>3. ASSUME NEW i \in Slots, ImmersiveStep(i) PROVE db' \in Tables /\ IsFiniteSet(db'.sessions)
  <2> DEFINE r == owed[i]
  <2>1. r \in ImmersiveRecords BY <1>3, OwedTyped DEF ImmersiveStep, TypeInv
  <2>2. db' = Whole(db, r) \/ db' = db BY <1>3 DEF ImmersiveStep
  <2> HIDE DEF r
  <2>3. CASE db' = Whole(db, r)
    <3>1. db' \in Tables BY <1>1, <2>1, <2>3, CommitTyped DEF Whole
    <3>2. db'.sessions = db.sessions BY <1>1, <2>1, <2>3, ImmersiveFields
    <3> QED BY <3>1, <3>2, <1>1
  <2>4. CASE db' = db BY <2>4, <1>1
  <2> QED BY <2>2, <2>3, <2>4
<1>4. CASE db' = db BY <1>4, <1>1
<1> QED BY <1>2, <1>3, <1>4, TableSteps DEF TypeInv

LEMMA NothingPending == \A t \in Time : Called(NoCalls, t)
BY DEF Called, NoCalls

LEMMA NothingFilled == Filled(NothingOwed, 0) /\ \A n \in 0 .. MaxImmersive : Filled(NothingOwed, n)
BY CollectorConstants DEF Filled, ImmersiveRows, NothingOwed

\* What is heard or delivered lies between the start of the bot and now.
LEMMA LifetimeTyped ==
  ASSUME TypeInv, NEW at \in Lifetime PROVE at \in Time /\ at \in Nat /\ at <= now /\ at # Never
<1>1. now \in Time /\ started.bot \in Time \cup {Never} BY DEF TypeInv, TypeOK
<1>2. now \in Nat /\ started.bot \in Nat BY <1>1, TimeFacts
<1>3. at \in Nat /\ at <= now BY <1>2 DEF Lifetime
<1>4. at \in Time BY <1>1, <1>2, <1>3, CollectorConstants DEF Time
<1> QED BY <1>3, <1>4, TimeFacts

\* The call of one chat is noted, resolved or forgotten.
LEMMA CalledExcept ==
  ASSUME NEW calls, NEW t \in Time, Called(calls, t), NEW chat \in Chats, NEW c \in Time \cup {Never},
         c # Never => c <= t
  PROVE  Called([calls EXCEPT ![chat] = c], t)
<1> DEFINE later == [calls EXCEPT ![chat] = c]
<1>1. calls \in [Chats -> Time \cup {Never}] /\ \A x \in Chats : calls[x] # Never => calls[x] <= t BY DEF Called
<1>2. later \in [Chats -> Time \cup {Never}] BY <1>1
<1>3. \A x \in Chats : later[x] = IF x = chat THEN c ELSE calls[x] BY <1>1
<1> HIDE DEF later
<1>4. \A x \in Chats : later[x] # Never => later[x] <= t BY <1>1, <1>3
<1>5. Called(later, t) BY <1>2, <1>4 DEF Called
<1> QED BY <1>5 DEF later

LEMMA PendingCount ==
  LET pending == {c \in Chats : call[c] # Never} IN IsFiniteSet(pending) /\ Cardinality(pending) \in Nat
<1> DEFINE pending == {c \in Chats : call[c] # Never}
<1>1. IsFiniteSet(pending) BY CollectorConstants, FS_Subset
<1> QED BY <1>1, FS_CardinalityType

LEMMA ClockTyped ==
  ASSUME TypeInv, [Next]_vars
  PROVE  /\ now' \in Time /\ now <= now' /\ waiting' \in Nat /\ Called(call', now')
         /\ started' \in [process : Time, bot : Time \cup {Never}]
<1>1. now \in Time /\ waiting \in Nat /\ Called(call, now) /\ started \in [process : Time, bot : Time \cup {Never}]
  BY DEF TypeInv, TypeOK, ShapeInv
<1>2. now \in Nat /\ Never \in Nat BY <1>1, TimeFacts
<1>c. \A c \in Chats : call[c] \in Time \cup {Never} /\ (call[c] # Never => call[c] <= now) BY <1>1 DEF Called
<1> DEFINE Goal == /\ now' \in Time /\ now <= now' /\ waiting' \in Nat /\ Called(call', now')
                   /\ started' \in [process : Time, bot : Time \cup {Never}]
<1>3. ASSUME UNCHANGED <<now, started>>, waiting' \in Nat, Called(call', now) PROVE Goal
  <2>1. now' = now /\ started' = started BY <1>3, Zenon
  <2> QED BY <1>1, <1>2, <1>3, <2>1
<1>f. \A chat \in Chats : Called(Forget(chat), now)
  <2> SUFFICES ASSUME NEW chat \in Chats PROVE Called(Forget(chat), now) OBVIOUS
  <2> QED BY <1>1, CalledExcept DEF Forget
<1>4. ASSUME UNCHANGED <<now, started, call, waiting>> PROVE Goal
  <2>1. call' = call /\ waiting' = waiting /\ UNCHANGED <<now, started>> BY <1>4, Zenon
  <2> QED BY <2>1, <1>1, <1>3
<1>5. ASSUME Engine PROVE Goal
  <2>1. ASSUME NEW chat \in Chats, NEW at \in Lifetime, NoteStrongCall(chat, at) PROVE Goal
    <3>1. /\ UNCHANGED <<now, started>> /\ call' = [call EXCEPT ![chat] = Coalesce(call[chat], at)]
          /\ waiting' = waiting + IF call[chat] = Never THEN now - at ELSE 0
      BY <2>1, Zenon DEF NoteStrongCall
    <3>2. at \in Time /\ at \in Nat /\ at <= now BY LifetimeTyped
    <3>3. Coalesce(call[chat], at) \in Time \cup {Never}
            /\ (Coalesce(call[chat], at) # Never => Coalesce(call[chat], at) <= now)
      BY <3>2, <1>c DEF Coalesce
    <3>4. Called(call', now) BY <3>1, <3>3, <1>1, CalledExcept
    <3>5. waiting' \in Nat BY <3>1, <3>2, <1>1, <1>2
    <3> QED BY <3>1, <3>4, <3>5, <1>3
  <2>2. ASSUME NEW chat \in Chats, NEW at \in Lifetime, NEW question \in BOOLEAN, NEW replied \in BOOLEAN,
               Deliver(chat, at, question, replied)
        PROVE  Goal
    <3>1. UNCHANGED <<now, started>> /\ waiting' = waiting /\ call' = Forget(chat)
      BY <2>2, Zenon DEF Deliver, CallResolved, Forget
    <3>2. waiting' \in Nat /\ Called(call', now) BY <3>1, <1>1, <1>f
    <3> QED BY <3>1, <3>2, <1>3
  <2>3. ASSUME NEW chat \in Chats, NEW marks \in Observations, Observe(chat, marks) PROVE Goal
    <3>1. UNCHANGED <<now, started>> /\ waiting' = waiting BY <2>3, Zenon DEF Observe
    <3>2. call' \in {call, Forget(chat)} BY <2>3 DEF Observe
    <3>3. waiting' \in Nat /\ Called(call', now) BY <3>1, <3>2, <1>1, <1>f
    <3> QED BY <3>1, <3>3, <1>3
  <2>4. ASSUME NEW chat \in Chats, Clear(chat) PROVE Goal
    <3>1. UNCHANGED <<now, started>> /\ waiting' = waiting /\ call' = Forget(chat) BY <2>4, Zenon DEF Clear
    <3>2. waiting' \in Nat /\ Called(call', now) BY <3>1, <1>1, <1>f
    <3> QED BY <3>1, <3>2, <1>3
  <2>5. ASSUME NEW i \in Slots, RecordImmersive(i) PROVE Goal
    <3>1. UNCHANGED <<now, started, call, waiting>> BY <2>5, Zenon DEF RecordImmersive
    <3> QED BY <3>1, <1>4
  <2> QED BY <1>5, <2>1, <2>2, <2>3, <2>4, <2>5, Zenon DEF Engine
<1>6. Handlers \/ Dashboard \/ UNCHANGED vars => UNCHANGED <<now, started, call, waiting>>
  BY Zenon DEF Handlers, RecordInbound, RecordOutbound, Dashboard, OpenOverview, BuildOverview, CloseOverview, vars
<1>7. ASSUME Process PROVE Goal
  <2>1. CASE Tick
    <3>1. now < MaxHour /\ now' = now + 1 /\ waiting' = waiting + Cardinality({c \in Chats : call[c] # Never})
      BY <2>1 DEF Tick
    <3>2. started' = started /\ call' = call BY <2>1, Zenon DEF Tick
    <3>3. now' \in Time BY <3>1, <1>1, CollectorConstants DEF Time
    <3>4. now <= now' BY <3>1, <1>2
    <3>5. \A c \in Chats : call[c] # Never => call[c] <= now + 1
      <4> SUFFICES ASSUME NEW c \in Chats, call[c] # Never PROVE call[c] <= now + 1 OBVIOUS
      <4>1. call[c] \in Nat /\ call[c] <= now BY <1>c, TimeFacts
      <4> QED BY <4>1, <1>2
    <3>6. Called(call', now') BY <3>1, <3>2, <3>5, <1>1 DEF Called
    <3>7. waiting' \in Nat BY <3>1, <1>1, PendingCount
    <3> QED BY <3>2, <3>3, <3>4, <3>6, <3>7, <1>1
  <2>2. CASE SetBotStartedAt
    <3>1. UNCHANGED <<now, call, waiting>> /\ started' = [started EXCEPT !.bot = now] BY <2>2, Zenon DEF SetBotStartedAt
    <3>2. started' \in [process : Time, bot : Time \cup {Never}] BY <3>1, <1>1
    <3>3. now' = now /\ call' = call /\ waiting' = waiting BY <3>1, Zenon
    <3> QED BY <3>2, <3>3, <1>1, <1>2
  <2>3. CASE Restart
    <3>1. /\ now' = now /\ waiting' = waiting /\ call' = NoCalls
          /\ started' = [process |-> now, bot |-> Never]
      BY <2>3, Zenon DEF Restart
    <3>2. Called(call', now') BY <3>1, <1>1, NothingPending
    <3> QED BY <3>1, <3>2, <1>1, <1>2
  <2> QED BY <1>7, <2>1, <2>2, <2>3, Zenon DEF Process
<1> QED BY <1>4, <1>5, <1>6, <1>7, Zenon DEF Next

LEMMA ImmersiveTyped ==
  ASSUME NEW marks \in SUBSET Marks, NEW latency \in Time
  PROVE  Immersive(marks, latency) \in ImmersiveRecords /\ <<Immersive(marks, latency)>> \in Seq(ImmersiveRecords)
BY DEF Immersive, ImmersiveRecords

\* The measured wait of a pending call is a time, and not above the real one.
LEMMA WaitTyped ==
  ASSUME TypeInv, NEW chat \in Chats, NEW at \in Lifetime, call[chat] # Never
  PROVE  /\ Latency(chat, at) \in Time /\ Latency(chat, at) \in Nat
         /\ Latency(chat, at) <= now - call[chat] /\ now - call[chat] \in Nat
<1>1. now \in Time /\ call[chat] \in Time /\ call[chat] <= now BY DEF TypeInv, TypeOK, ShapeInv, Called
<1>2. now \in Nat /\ call[chat] \in Nat BY <1>1, TimeFacts
<1>3. at \in Nat /\ at <= now BY LifetimeTyped
<1>4. Latency(chat, at) = IF call[chat] < at THEN at - call[chat] ELSE 0 BY DEF Latency
<1>5. Latency(chat, at) \in Nat /\ Latency(chat, at) <= now - call[chat] /\ now - call[chat] \in Nat
  BY <1>1, <1>2, <1>3, <1>4
<1>6. Latency(chat, at) <= now BY <1>2, <1>5
<1> QED BY <1>1, <1>2, <1>5, <1>6, CollectorConstants DEF Time

FollowUp(question) == IF question THEN <<Immersive({"proactive"}, 0)>> ELSE <<>>
Wait(chat, at) == IF call[chat] # Never THEN <<Immersive({}, Latency(chat, at))>> ELSE <<>>
Outcome(replied) == IF replied THEN <<Immersive({"action", "reason", "signal_band"}, 0)>> ELSE <<>>
Delivery(chat, at, question, replied) == FollowUp(question) \o Wait(chat, at) \o Outcome(replied)

\* Records that measured nothing.
Unmeasured(records) == records \in Seq(ImmersiveRecords) /\ \A i \in DOMAIN records : records[i].latency = 0

LEMMA UnmeasuredOne ==
  ASSUME NEW marks \in SUBSET Marks PROVE Unmeasured(<<Immersive(marks, 0)>>)
<1>1. <<Immersive(marks, 0)>> \in Seq(ImmersiveRecords) BY TimeFacts, ImmersiveTyped
<1>2. \A i \in DOMAIN <<Immersive(marks, 0)>> : <<Immersive(marks, 0)>>[i].latency = 0 BY DEF Immersive
<1> QED BY <1>1, <1>2 DEF Unmeasured

LEMMA UnmeasuredNone == Unmeasured(<<>>)
<1>1. <<>> \in Seq(ImmersiveRecords) /\ Len(<<>>) = 0 /\ DOMAIN <<>> = {} BY EmptySeq
<1> QED BY <1>1 DEF Unmeasured

LEMMA DeliveryTyped ==
  ASSUME TypeInv, NEW chat \in Chats, NEW at \in Lifetime, NEW question \in BOOLEAN, NEW replied \in BOOLEAN
  PROVE  /\ Unmeasured(FollowUp(question)) /\ Unmeasured(Outcome(replied))
         /\ Wait(chat, at) \in Seq(ImmersiveRecords)
         /\ Delivery(chat, at, question, replied) \in Seq(ImmersiveRecords)
<1>1. <<>> \in Seq(ImmersiveRecords) BY EmptySeq
<1>2. {"proactive"} \in SUBSET Marks /\ {} \in SUBSET Marks /\ {"action", "reason", "signal_band"} \in SUBSET Marks
  BY DEF Marks
<1>3. Unmeasured(FollowUp(question)) BY <1>2, UnmeasuredOne, UnmeasuredNone DEF FollowUp
<1>4. Wait(chat, at) \in Seq(ImmersiveRecords) BY <1>1, <1>2, WaitTyped, ImmersiveTyped DEF Wait
<1>5. Unmeasured(Outcome(replied)) BY <1>2, UnmeasuredOne, UnmeasuredNone DEF Outcome
<1>6. FollowUp(question) \in Seq(ImmersiveRecords) /\ Outcome(replied) \in Seq(ImmersiveRecords)
  BY <1>3, <1>5 DEF Unmeasured
<1>7. FollowUp(question) \o Wait(chat, at) \in Seq(ImmersiveRecords) BY <1>4, <1>6, ConcatProperties
<1>8. (FollowUp(question) \o Wait(chat, at)) \o Outcome(replied) \in Seq(ImmersiveRecords)
  BY <1>6, <1>7, ConcatProperties
<1> QED BY <1>3, <1>4, <1>5, <1>8 DEF Delivery

\* Records that are owed take the next slots.
LEMMA OweTyped ==
  ASSUME TypeInv, NEW records \in Seq(ImmersiveRecords), Owe(records)
  PROVE  /\ Filled(owed', immersive')
         /\ \A i \in Slots : owed'[i] = IF i - immersive \in DOMAIN records THEN records[i - immersive] ELSE owed[i]
         /\ \A j \in DOMAIN records : immersive + j \in Slots /\ owed[immersive + j] = Nothing
<1>1. immersive \in 0 .. MaxImmersive /\ owed \in ImmersiveRows /\ \A i \in Slots : immersive < i => owed[i] = Nothing
  BY DEF TypeInv, ShapeInv, Filled
<1>2. MaxImmersive \in Nat /\ immersive \in Nat BY <1>1, CollectorConstants
<1>3. Len(records) \in Nat /\ DOMAIN records = 1 .. Len(records) BY LenProperties
<1>4. \A j \in DOMAIN records : records[j] \in ImmersiveRecords BY <1>3, LenProperties
<1>5. /\ immersive + Len(records) <= MaxImmersive /\ immersive' = immersive + Len(records)
      /\ owed' = [i \in Slots |-> IF i - immersive \in DOMAIN records THEN records[i - immersive] ELSE owed[i]]
  BY DEF Owe
<1>6. \A i \in Slots : owed[i] \in ImmersiveRecords \cup {Nothing} BY <1>1 DEF ImmersiveRows
<1>7. owed' \in ImmersiveRows BY <1>4, <1>5, <1>6 DEF ImmersiveRows
<1>8. immersive' \in 0 .. MaxImmersive BY <1>2, <1>3, <1>5
<1>9. \A i \in Slots : owed'[i] = IF i - immersive \in DOMAIN records THEN records[i - immersive] ELSE owed[i]
  BY <1>5
<1>10. ASSUME NEW i \in Slots, immersive' < i PROVE owed'[i] = Nothing
  <2>1. i \in Nat BY DEF Slots
  <2>2. i - immersive \notin 1 .. Len(records) /\ immersive < i BY <2>1, <1>2, <1>3, <1>5, <1>10
  <2> QED BY <2>2, <1>1, <1>3, <1>9
<1>11. ASSUME NEW j \in DOMAIN records PROVE immersive + j \in Slots /\ owed[immersive + j] = Nothing
  <2>1. j \in Nat /\ 1 <= j /\ j <= Len(records) BY <1>3
  <2>2. immersive + j \in Slots /\ immersive < immersive + j BY <2>1, <1>2, <1>3, <1>5 DEF Slots
  <2> QED BY <2>2, <1>1
<1>12. Filled(owed', immersive') BY <1>7, <1>8, <1>10, Zenon DEF Filled
<1> QED BY <1>9, <1>11, <1>12

LEMMA RowsTyped ==
  ASSUME TypeInv, [Next]_vars PROVE Filled(owed', immersive')
<1>0. Filled(owed, immersive) BY DEF TypeInv, ShapeInv
<1>s. ASSUME UNCHANGED <<owed, immersive>> PROVE Filled(owed', immersive')
  <2>1. owed' = owed /\ immersive' = immersive BY <1>s, Zenon
  <2> QED BY <2>1, <1>0
<1>1. Handlers \/ Dashboard \/ UNCHANGED vars => UNCHANGED <<owed, immersive>>
  BY Zenon DEF Handlers, RecordInbound, RecordOutbound, Dashboard, OpenOverview, BuildOverview, CloseOverview, vars, bounds
<1>3. ASSUME Process PROVE Filled(owed', immersive')
  <2>1. Tick \/ SetBotStartedAt => UNCHANGED <<owed, immersive>> BY Zenon DEF Tick, SetBotStartedAt, bounds
  <2>2. Restart => owed' = NothingOwed /\ immersive' = immersive BY Zenon DEF Restart
  <2>3. immersive \in 0 .. MaxImmersive BY <1>0 DEF Filled
  <2>4. CASE Restart BY <2>2, <2>3, <2>4, NothingFilled
  <2> QED BY <1>3, <1>s, <2>1, <2>4, Zenon DEF Process
<1>4. ASSUME Engine PROVE Filled(owed', immersive')
  <2>1. ASSUME NEW chat \in Chats, NEW at \in Lifetime, NoteStrongCall(chat, at) PROVE Filled(owed', immersive')
    <3>1. UNCHANGED <<owed, immersive>> BY <2>1, Zenon DEF NoteStrongCall, bounds
    <3> QED BY <3>1, <1>s
  <2>2. ASSUME NEW chat \in Chats, NEW at \in Lifetime, NEW question \in BOOLEAN, NEW replied \in BOOLEAN,
               Deliver(chat, at, question, replied)
        PROVE  Filled(owed', immersive')
    <3>1. Owe(Delivery(chat, at, question, replied))
      BY <2>2, Zenon DEF Deliver, Delivery, FollowUp, Wait, Outcome
    <3> QED BY <3>1, DeliveryTyped, OweTyped
  <2>3. ASSUME NEW chat \in Chats, NEW marks \in Observations, Observe(chat, marks) PROVE Filled(owed', immersive')
    <3>1. Owe(<<Immersive(marks, 0)>>) BY <2>3, Zenon DEF Observe
    <3>2. <<Immersive(marks, 0)>> \in Seq(ImmersiveRecords)
      BY ObservationsAssumption, TimeFacts, ImmersiveTyped
    <3> QED BY <3>1, <3>2, OweTyped
  <2>4. ASSUME NEW chat \in Chats, Clear(chat) PROVE Filled(owed', immersive')
    <3>1. UNCHANGED <<owed, immersive>> BY <2>4, Zenon DEF Clear, bounds
    <3> QED BY <3>1, <1>s
  <2>5. ASSUME NEW i \in Slots, RecordImmersive(i) PROVE Filled(owed', immersive')
    <3>1. owed' = [owed EXCEPT ![i] = Nothing] /\ immersive' = immersive BY <2>5, Zenon DEF RecordImmersive, bounds
    <3>2. Filled([owed EXCEPT ![i] = Nothing], immersive) BY <1>0 DEF Filled, ImmersiveRows
    <3> QED BY <3>1, <3>2
  <2> QED BY <1>4, <2>1, <2>2, <2>3, <2>4, <2>5, Zenon DEF Engine
<1> QED BY <1>1, <1>3, <1>4, <1>s, Zenon DEF Next

\* Every statement answers in its own type.
LEMMA ReadTyped ==
  ASSUME TypeInv, NEW s \in StatementNames, NEW d \in Days
  PROVE  Read(s, d) \in Answer(s)
<1>1. db \in Tables /\ IsFiniteSet(db.sessions) /\ started \in [process : Time, bot : Time \cup {Never}]
  BY DEF TypeInv, TypeOK, ShapeInv
<1>2. /\ db.daily \in [Days -> [Kinds -> Nat]] /\ db.hourly \in [Days -> [Hours -> [Kinds -> Nat]]]
      /\ db.types \in [Days -> [Kinds -> [TypeKeys -> Nat]]]
      /\ db.last \in [Kinds -> Time \cup {Never}] /\ db.connected \in Time \cup {Never}
  BY <1>1 DEF Tables
<1>3. CASE s = "today" BY <1>3, <1>2 DEF Read, Answer
<1>4. CASE s = "totals"
  <2>1. \A k \in Kinds : Total([x \in Days |-> db.daily[x][k]]) \in Nat
    <3> SUFFICES ASSUME NEW k \in Kinds PROVE Total([x \in Days |-> db.daily[x][k]]) \in Nat OBVIOUS
    <3>1. [x \in Days |-> db.daily[x][k]] \in [Days -> Nat] BY <1>2
    <3> QED BY <3>1, FiniteDomains, UnitsFinite
  <2>2. Read(s, d) = [k \in Kinds |-> Total([x \in Days |-> db.daily[x][k]])] BY <1>4 DEF Read, Kinds
  <2>3. Answer(s) = [Kinds -> Nat] BY <1>4 DEF Answer, Kinds
  <2>4. [k \in Kinds |-> Total([x \in Days |-> db.daily[x][k]])] \in [Kinds -> Nat] BY <2>1, Zenon
  <2> QED BY <2>2, <2>3, <2>4, Zenon
<1>5. CASE s = "sessions"
  <2>1. IsFiniteSet({p \in db.sessions : p[1] = d}) BY <1>1, FS_Subset
  <2>2. Cardinality({p \in db.sessions : p[1] = d}) \in Nat BY <2>1, FS_CardinalityType
  <2>3. Read(s, d) = Cardinality({p \in db.sessions : p[1] = d}) BY <1>5 DEF Read, Kinds
  <2>4. Answer(s) = Nat BY <1>5 DEF Answer, Kinds
  <2> QED BY <2>2, <2>3, <2>4, Zenon
<1>6. CASE s = "state"
  <2>1. Read(s, d) = [last |-> db.last, connected |-> db.connected] BY <1>6 DEF Read, Kinds
  <2>2. Answer(s) = [last : [Kinds -> Time \cup {Never}], connected : Time \cup {Never}] BY <1>6 DEF Answer, Kinds
  <2> QED BY <2>1, <2>2, <1>2
<1>7. CASE s \in Kinds
  <2>1. Read(s, d) = db.types[d][s] /\ Answer(s) = [TypeKeys -> Nat] BY <1>7 DEF Read, Answer, Kinds
  <2> QED BY <2>1, <1>2, <1>7
<1>8. CASE s = "hourly" BY <1>8, <1>2 DEF Read, Answer, Kinds
<1>9. CASE s = "starts" BY <1>9, <1>1 DEF Read, Answer, Kinds
<1> QED BY <1>3, <1>4, <1>5, <1>6, <1>7, <1>8, <1>9 DEF StatementNames, Kinds

\* The next statement of the overview is answered, and no other answer changes.
BuildStep ==
  LET n == Len(view.seen) IN
  /\ n \in 0 .. 8 /\ Day(view.at) \in Days /\ view.at \in Time
  /\ view'.at = view.at /\ view'.seen \in Seq(Answers) /\ Len(view'.seen) = n + 1
  /\ \A i \in 1 .. n : view'.seen[i] = view.seen[i]
  /\ view'.seen[n + 1] = Read(Overview[n + 1], Day(view.at))
  /\ view' = [at |-> view'.at, seen |-> view'.seen]

LEMMA BuildOverviewStep ==
  ASSUME TypeInv, BuildOverview PROVE BuildStep
<1> DEFINE n == Len(view.seen)
           a == Read(Overview[n + 1], Day(view.at))
<1>1. /\ view = [at |-> view.at, seen |-> view.seen] /\ view.seen \in Seq(Answers)
      /\ view.at = Never => view.seen = <<>>
      /\ view.at \in Time \cup {Never}
  BY DEF TypeInv, ShapeInv, TypeOK
<1>b. n < 9 BY OverviewFacts DEF BuildOverview
<1>2. view # [at |-> Never, seen |-> <<>>]
        /\ view' = [view EXCEPT !.seen = Append(@, Read(Overview[Len(@) + 1], Day(view.at)))]
  BY OverviewFacts DEF BuildOverview, Closed
<1>3. view.at \in Time BY <1>1, <1>2
<1>4. n \in Nat /\ n \in 0 .. 8 /\ n + 1 \in 1 .. 9
  <2>1. n \in Nat BY <1>1, LenProperties
  <2> HIDE DEF n
  <2> QED BY <2>1, <1>b
<1>5. Day(view.at) \in Days BY <1>3, TimeDomains
<1>6. Overview[n + 1] \in StatementNames
  <2>1. n + 1 \in 1 .. 9 BY <1>4, Zenon
  <2> HIDE DEF n
  <2> QED BY <2>1, OverviewFacts
<1>7. a \in Answers BY <1>5, <1>6, ReadTyped DEF Answers
<1>8. view' = [at |-> view.at, seen |-> Append(view.seen, a)] BY <1>1, <1>2
<1> HIDE DEF a
<1>9. /\ Append(view.seen, a) \in Seq(Answers) /\ Len(Append(view.seen, a)) = n + 1
      /\ \A i \in 1 .. n : Append(view.seen, a)[i] = view.seen[i]
      /\ Append(view.seen, a)[n + 1] = a
  BY <1>1, <1>7, AppendProperties
<1> QED BY <1>3, <1>4, <1>5, <1>8, <1>9 DEF BuildStep, a

\* What a step does to the overview, and that reading it changes no table.
Opened == [at |-> now, seen |-> <<>>]

LEMMA ViewSteps ==
  ASSUME TypeInv, [Next]_vars
  PROVE  \/ view' = view \/ view' = Closed \/ view' = Opened
         \/ BuildStep /\ db' = db
<1>1. ASSUME Dashboard
      PROVE  view' = Closed \/ view' = Opened \/ (BuildStep /\ db' = db)
  <2>1. OpenOverview => view' = Opened
    <3>1. OpenOverview => view' = [Closed EXCEPT !.at = now] BY Zenon DEF OpenOverview
    <3> QED BY <3>1 DEF Closed, Opened
  <2>2. CloseOverview => view' = Closed BY Zenon DEF CloseOverview
  <2>3. BuildOverview => db' = db BY Zenon DEF BuildOverview
  <2> QED BY <1>1, <2>1, <2>2, <2>3, BuildOverviewStep, Zenon DEF Dashboard
<1>2. Handlers => view' = view BY Zenon DEF Handlers, RecordInbound, RecordOutbound
<1>3. Engine => view' = view BY Zenon DEF Engine, NoteStrongCall, Deliver, Observe, Clear, RecordImmersive
<1>4. Process => view' = view \/ view' = Closed BY Zenon DEF Process, Tick, SetBotStartedAt, Restart
<1>5. UNCHANGED vars => view' = view BY Zenon DEF vars
<1> QED BY <1>1, <1>2, <1>3, <1>4, <1>5, Zenon DEF Next

ViewTyped ==
  /\ view.at \in Time \cup {Never} /\ Len(view.seen) <= Len(Overview)
  /\ \A i \in 1 .. Len(view.seen) : view.seen[i] \in Answer(Overview[i])
  /\ view = [at |-> view.at, seen |-> view.seen]
  /\ view.seen \in Seq(Answers)
  /\ view.at = Never => view.seen = <<>>

LEMMA ViewStays ==
  ASSUME TypeInv, [Next]_vars PROVE ViewTyped'
<1>0. ViewTyped BY DEF TypeInv, TypeOK, ShapeInv, ViewTyped
<1>1. CASE view' = view BY <1>0, <1>1 DEF ViewTyped
<1>2. ASSUME NEW at \in Time \cup {Never}, view' = [at |-> at, seen |-> <<>>] PROVE ViewTyped'
  <2>1. view'.at = at /\ view'.seen = <<>> /\ view' = [at |-> view'.at, seen |-> view'.seen] BY <1>2
  <2>2. Len(<<>>) = 0 /\ <<>> \in Seq(Answers) BY EmptySeq
  <2>3. Len(Overview) = 9 BY OverviewFacts
  <2>4. 1 .. 0 = {} OBVIOUS
  <2>5. \A i \in 1 .. Len(view'.seen) : view'.seen[i] \in Answer(Overview[i]) BY <2>1, <2>2, <2>4
  <2>6. Len(view'.seen) <= Len(Overview) BY <2>1, <2>2, <2>3
  <2>7. view'.at \in Time \cup {Never} /\ view'.seen \in Seq(Answers) BY <2>1, <2>2
  <2> QED BY <2>1, <2>5, <2>6, <2>7, Zenon DEF ViewTyped
<1>3. ASSUME BuildStep PROVE ViewTyped'
  <2> DEFINE n == Len(view.seen)
  <2>1. /\ n \in 0 .. 8 /\ Day(view.at) \in Days
        /\ view'.at = view.at /\ view'.seen \in Seq(Answers) /\ Len(view'.seen) = n + 1
        /\ \A i \in 1 .. n : view'.seen[i] = view.seen[i]
        /\ view'.seen[n + 1] = Read(Overview[n + 1], Day(view.at))
        /\ view' = [at |-> view'.at, seen |-> view'.seen]
    BY <1>3 DEF BuildStep
  <2>2. view.at \in Time \cup {Never} /\ \A i \in 1 .. n : view.seen[i] \in Answer(Overview[i])
    BY <1>0 DEF ViewTyped
  <2> HIDE DEF n
  <2>3. n + 1 \in 1 .. 9 BY <2>1
  <2>4. Overview[n + 1] \in StatementNames BY <2>3, OverviewFacts
  <2>5. view'.seen[n + 1] \in Answer(Overview[n + 1]) BY <2>1, <2>4, ReadTyped
  <2>6. \A i \in 1 .. Len(view'.seen) : view'.seen[i] \in Answer(Overview[i])
    <3> SUFFICES ASSUME NEW i \in 1 .. n + 1 PROVE view'.seen[i] \in Answer(Overview[i]) BY <2>1
    <3>1. i \in 1 .. n \/ i = n + 1 BY <2>1
    <3> QED BY <3>1, <2>1, <2>2, <2>5
  <2>7. Len(view'.seen) <= Len(Overview) BY <2>1, <2>3, OverviewFacts
  <2>8. view'.at = Never => view'.seen = <<>>
    <3>1. view.at # Never BY <1>3, TimeFacts DEF BuildStep
    <3> QED BY <3>1, <2>1
  <2> QED BY <2>1, <2>2, <2>6, <2>7, <2>8, Zenon DEF ViewTyped
<1>4. view' = Closed => ViewTyped' BY <1>2 DEF Closed
<1>5. view' = Opened => ViewTyped' BY <1>2 DEF Opened, TypeInv, TypeOK
<1> QED BY <1>1, <1>3, <1>4, <1>5, ViewSteps

LEMMA TypeInvHolds == Spec => []TypeInv
<1>1. Init => TypeInv
  <2> SUFFICES ASSUME Init PROVE TypeInv OBVIOUS
  <2>0. /\ now = 0 /\ db = EmptyTables /\ started = [process |-> 0, bot |-> Never]
        /\ call = NoCalls /\ owed = NothingOwed /\ view = Closed /\ waiting = 0 /\ immersive = 0
    BY Zenon DEF Init
  <2>1. db \in Tables
    <3>1. /\ [d \in Days |-> None] \in [Days -> [Kinds -> Nat]]
          /\ [d \in Days |-> [h \in Hours |-> None]] \in [Days -> [Hours -> [Kinds -> Nat]]]
      BY DEF None
    <3>2. /\ [d \in Days |-> [k \in Kinds |-> [t \in TypeKeys |-> 0]]] \in [Days -> [Kinds -> [TypeKeys -> Nat]]]
          /\ [k \in Kinds |-> [t \in TypeKeys |-> 0]] \in [Kinds -> [TypeKeys -> Nat]]
      OBVIOUS
    <3>3. /\ {} \in SUBSET (Days \X (Sessions \ {NoSession}))
          /\ [k \in Kinds |-> Never] \in [Kinds -> Time \cup {Never}] /\ Never \in Time \cup {Never}
      OBVIOUS
    <3>4. /\ [d \in Days |-> [m \in Marks |-> 0]] \in [Days -> [Marks -> Nat]]
          /\ [m \in Marks |-> 0] \in [Marks -> Nat]
          /\ [d \in Days |-> NoLatency] \in [Days -> [Measures -> Nat]] /\ NoLatency \in [Measures -> Nat]
      BY DEF NoLatency
    <3> QED BY <2>0, <3>1, <3>2, <3>3, <3>4, TablesOf, Zenon DEF EmptyTables
  <2>2. IsFiniteSet(db.sessions) BY <2>0, FS_EmptySet DEF EmptyTables
  <2>3. now \in Time /\ waiting \in Nat /\ started \in [process : Time, bot : Time \cup {Never}]
    BY <2>0, TimeFacts
  <2>4. Called(call, now) /\ Filled(owed, immersive)
    <3>1. Called(NoCalls, 0) BY NothingPending, TimeFacts
    <3> QED BY <2>0, <3>1, NothingFilled, Zenon
  <2>c. call \in [Chats -> Time \cup {Never}] /\ owed \in ImmersiveRows BY <2>4 DEF Called, Filled
  <2>5. view = [at |-> Never, seen |-> <<>>] BY <2>0 DEF Closed
  <2>6. view.at = Never /\ view.seen = <<>> /\ view = [at |-> view.at, seen |-> view.seen] BY <2>5
  <2>7. Len(<<>>) = 0 /\ <<>> \in Seq(Answers) BY EmptySeq
  <2>8. Len(Overview) = 9 BY OverviewFacts
  <2>9. Len(view.seen) <= Len(Overview) BY <2>6, <2>7, <2>8
  <2>10. 1 .. 0 = {} OBVIOUS
  <2>11. \A i \in 1 .. Len(view.seen) : view.seen[i] \in Answer(Overview[i]) BY <2>6, <2>7, <2>10
  <2> QED BY <2>0, <2>1, <2>2, <2>3, <2>4, <2>c, <2>6, <2>7, <2>9, <2>11, Zenon
      DEF TypeInv, TypeOK, ShapeInv, ImmersiveRows
<1>2. TypeInv /\ [Next]_vars => TypeInv'
  <2> SUFFICES ASSUME TypeInv, [Next]_vars PROVE TypeInv' OBVIOUS
  <2>1. db' \in Tables /\ IsFiniteSet(db'.sessions) BY TablesTyped
  <2>2. /\ now' \in Time /\ waiting' \in Nat /\ Called(call', now')
        /\ started' \in [process : Time, bot : Time \cup {Never}]
    BY ClockTyped
  <2>3. Filled(owed', immersive') BY RowsTyped
  <2>4. ViewTyped' BY ViewStays
  <2>5. call' \in [Chats -> Time \cup {Never}] /\ owed' \in ImmersiveRows BY <2>2, <2>3 DEF Called, Filled
  <2>6. TypeOK' BY <2>1, <2>2, <2>4, <2>5, Zenon DEF TypeOK, ViewTyped, ImmersiveRows
  <2>7. ShapeInv' BY <2>1, <2>2, <2>3, <2>4, Zenon DEF ShapeInv, ViewTyped
  <2> QED BY <2>6, <2>7, Zenon DEF TypeInv
<1> QED BY <1>1, <1>2, PTL DEF Spec

\* Every count is a natural number, every time is one, only sessions with a key
\* have rows, and an overview holds one answer per statement.
THEOREM TypesHold == Spec => []TypeOK
<1>1. TypeInv => TypeOK BY DEF TypeInv
<1> QED BY <1>1, TypeInvHolds, PTL

-----------------------------------------------------------------------------
(* The tables agree. *)

LEMMA TrafficValues ==
  ASSUME db \in Tables, NEW r \in TrafficRecords, db' = Whole(db, r)
  PROVE  LET D == Day(r.at)  H == Hour(r.at)  n == Total(r.counts) IN
         /\ D \in Days /\ H \in Hours /\ n \in Nat /\ r.kind \in Kinds /\ r.counts \in [TypeKeys -> Nat]
         /\ \A d \in Days, k \in Kinds :
              db'.daily[d][k] = db.daily[d][k] + (IF d = D /\ k = r.kind THEN n ELSE 0)
         /\ \A d \in Days, h \in Hours, k \in Kinds :
              db'.hourly[d][h][k] = db.hourly[d][h][k] + (IF d = D /\ h = H /\ k = r.kind THEN n ELSE 0)
         /\ \A d \in Days, k \in Kinds :
              db'.types[d][k] = IF d = D /\ k = r.kind THEN Plus(db.types[d][k], r.counts) ELSE db.types[d][k]
         /\ \A k \in Kinds, t \in TypeKeys :
              db'.typeSums[k][t] = db.typeSums[k][t] + (IF k = r.kind THEN r.counts[t] ELSE 0)
<1> DEFINE D == Day(r.at)  H == Hour(r.at)  n == Total(r.counts)  p == Only(r.kind, n)
<1>1. r.kind \in Kinds /\ r.counts \in [TypeKeys -> Nat] /\ r.at \in Time BY DEF TrafficRecords
<1>2. D \in Days /\ H \in Hours BY <1>1, TimeDomains
<1>3. n \in Nat BY <1>1, FiniteDomains, UnitsFinite
<1>4. p \in [Kinds -> Nat] /\ \A j \in Kinds : p[j] = IF j = r.kind THEN n ELSE 0 BY <1>1, <1>3, OnlyTyped
<1>5. /\ db'.daily = [db.daily EXCEPT ![D] = Plus(@, p)]
      /\ db'.hourly = [db.hourly EXCEPT ![D][H] = Plus(@, p)]
      /\ db'.types = [db.types EXCEPT ![D][r.kind] = Plus(@, r.counts)]
      /\ db'.typeSums = [db.typeSums EXCEPT ![r.kind] = Plus(@, r.counts)]
  BY TrafficFields
<1>6. /\ db.daily \in [Days -> [Kinds -> Nat]] /\ db.hourly \in [Days -> [Hours -> [Kinds -> Nat]]]
      /\ db.types \in [Days -> [Kinds -> [TypeKeys -> Nat]]] /\ db.typeSums \in [Kinds -> [TypeKeys -> Nat]]
  BY DEF Tables
<1> HIDE DEF D, H, n, p
<1>7. ASSUME NEW d \in Days, NEW k \in Kinds
      PROVE  db'.daily[d][k] = db.daily[d][k] + (IF d = D /\ k = r.kind THEN n ELSE 0)
  <2>1. db.daily[d] \in [Kinds -> Nat] /\ db.daily[d][k] \in Nat BY <1>6
  <2>2. Plus(db.daily[d], p)[k] = db.daily[d][k] + p[k] BY <2>1, <1>4, PlusTyped
  <2>3. db'.daily[d] = IF d = D THEN Plus(db.daily[d], p) ELSE db.daily[d] BY <1>5, <1>6, <1>2
  <2> QED BY <2>1, <2>2, <2>3, <1>4
<1>8. ASSUME NEW d \in Days, NEW h \in Hours, NEW k \in Kinds
      PROVE  db'.hourly[d][h][k] = db.hourly[d][h][k] + (IF d = D /\ h = H /\ k = r.kind THEN n ELSE 0)
  <2>1. db.hourly[d][h] \in [Kinds -> Nat] /\ db.hourly[d][h][k] \in Nat BY <1>6
  <2>2. Plus(db.hourly[d][h], p)[k] = db.hourly[d][h][k] + p[k] BY <2>1, <1>4, PlusTyped
  <2>3. db'.hourly[d][h] = IF d = D /\ h = H THEN Plus(db.hourly[d][h], p) ELSE db.hourly[d][h]
    BY <1>5, <1>6, <1>2
  <2> QED BY <2>1, <2>2, <2>3, <1>4
<1>9. ASSUME NEW d \in Days, NEW k \in Kinds
      PROVE  db'.types[d][k] = IF d = D /\ k = r.kind THEN Plus(db.types[d][k], r.counts) ELSE db.types[d][k]
  BY <1>5, <1>6, <1>2, <1>1
<1>10. ASSUME NEW k \in Kinds, NEW t \in TypeKeys
       PROVE  db'.typeSums[k][t] = db.typeSums[k][t] + (IF k = r.kind THEN r.counts[t] ELSE 0)
  <2>1. db.typeSums[k] \in [TypeKeys -> Nat] /\ db.typeSums[k][t] \in Nat BY <1>6
  <2>2. Plus(db.typeSums[k], r.counts)[t] = db.typeSums[k][t] + r.counts[t]
    <3>1. r.counts \in [TypeKeys -> Nat] BY <1>1
    <3> QED BY <2>1, <3>1 DEF Plus
  <2>3. db'.typeSums[k] = IF k = r.kind THEN Plus(db.typeSums[k], r.counts) ELSE db.typeSums[k]
    BY <1>5, <1>6, <1>1
  <2> QED BY <2>1, <2>2, <2>3
<1> QED BY <1>1, <1>2, <1>3, <1>7, <1>8, <1>9, <1>10 DEF D, H, n

LEMMA ImmersiveValues ==
  ASSUME db \in Tables, now \in Time, NEW r \in ImmersiveRecords, db' = Whole(db, r)
  PROVE  LET D == Day(now)  o == Ones(r.marks)  l == Measured(r.latency) IN
         /\ D \in Days /\ o \in [Marks -> Nat] /\ l \in [Measures -> Nat]
         /\ \A d \in Days, m \in Marks : db'.marks[d][m] = db.marks[d][m] + (IF d = D THEN o[m] ELSE 0)
         /\ \A m \in Marks : db'.markSums[m] = db.markSums[m] + o[m]
         /\ \A d \in Days, m \in Measures : db'.latency[d][m] = db.latency[d][m] + (IF d = D THEN l[m] ELSE 0)
         /\ \A m \in Measures : db'.latencySum[m] = db.latencySum[m] + l[m]
<1> DEFINE D == Day(now)  o == Ones(r.marks)  l == Measured(r.latency)
<1>1. r.latency \in Nat BY TimeFacts DEF ImmersiveRecords
<1>2. D \in Days BY TimeDomains
<1>3. o \in [Marks -> Nat] /\ l \in [Measures -> Nat] BY <1>1 DEF Ones, Measured
<1>4. /\ db'.marks = [db.marks EXCEPT ![D] = Plus(@, o)] /\ db'.markSums = Plus(db.markSums, o)
      /\ db'.latency = [db.latency EXCEPT ![D] = Plus(@, l)] /\ db'.latencySum = Plus(db.latencySum, l)
  BY ImmersiveFields
<1>5. /\ db.marks \in [Days -> [Marks -> Nat]] /\ db.markSums \in [Marks -> Nat]
      /\ db.latency \in [Days -> [Measures -> Nat]] /\ db.latencySum \in [Measures -> Nat]
  BY DEF Tables
<1> HIDE DEF D, o, l
<1>6. ASSUME NEW d \in Days, NEW m \in Marks
      PROVE  db'.marks[d][m] = db.marks[d][m] + (IF d = D THEN o[m] ELSE 0)
  <2>1. db.marks[d] \in [Marks -> Nat] /\ db.marks[d][m] \in Nat BY <1>5
  <2>2. Plus(db.marks[d], o)[m] = db.marks[d][m] + o[m] BY <2>1, <1>3 DEF Plus
  <2>3. db'.marks[d] = IF d = D THEN Plus(db.marks[d], o) ELSE db.marks[d] BY <1>4, <1>5
  <2> QED BY <2>1, <2>2, <2>3
<1>7. ASSUME NEW m \in Marks PROVE db'.markSums[m] = db.markSums[m] + o[m]
  BY <1>3, <1>4, <1>5 DEF Plus
<1>8. ASSUME NEW d \in Days, NEW m \in Measures
      PROVE  db'.latency[d][m] = db.latency[d][m] + (IF d = D THEN l[m] ELSE 0)
  <2>1. db.latency[d] \in [Measures -> Nat] /\ db.latency[d][m] \in Nat BY <1>5
  <2>2. Plus(db.latency[d], l)[m] = db.latency[d][m] + l[m] BY <2>1, <1>3 DEF Plus
  <2>3. db'.latency[d] = IF d = D THEN Plus(db.latency[d], l) ELSE db.latency[d] BY <1>4, <1>5
  <2> QED BY <2>1, <2>2, <2>3
<1>9. ASSUME NEW m \in Measures PROVE db'.latencySum[m] = db.latencySum[m] + l[m]
  BY <1>3, <1>4, <1>5 DEF Plus
<1> QED BY <1>2, <1>3, <1>6, <1>7, <1>8, <1>9 DEF D, o, l

\* A table that is raised at one place by n has a sum that is raised by n.
LEMMA TotalRaisedAt ==
  ASSUME NEW D, IsFiniteSet(D), NEW f \in [D -> Nat], NEW g \in [D -> Nat],
         NEW x \in D, NEW n \in Nat, \A y \in D : g[y] = f[y] + (IF y = x THEN n ELSE 0)
  PROVE  Total(g) = Total(f) + n
<1>1. \A y \in D : f[y] \in Nat OBVIOUS
<1>2. g[x] = f[x] + n /\ \A y \in D \ {x} : g[y] = f[y] BY <1>1
<1> QED BY <1>2, TotalRaised

LEMMA RaisedOnADay ==
  ASSUME NEW f \in [Days -> Nat], NEW g \in [Days -> Nat], NEW x \in Days, NEW n \in Nat,
         \A y \in Days : g[y] = f[y] + (IF y = x THEN n ELSE 0)
  PROVE  Total(g) = Total(f) + n
<1>1. \A y \in Days : f[y] \in Nat OBVIOUS
<1>2. g[x] = f[x] + n /\ \A y \in Days \ {x} : g[y] = f[y] BY <1>1
<1> QED BY <1>2, FiniteDomains, TotalRaised

LEMMA SameTotal ==
  ASSUME NEW D, NEW f \in [D -> Nat], NEW g \in [D -> Nat], \A y \in D : g[y] = f[y] + 0
  PROVE  Total(g) = Total(f)
<1>1. \A y \in D : f[y] \in Nat OBVIOUS
<1>2. g = f BY <1>1
<1> QED BY <1>2

TrafficAgrees ==
  /\ \A d \in Days, k \in Kinds :
       /\ db.daily[d][k] = Total([h \in Hours |-> db.hourly[d][h][k]])
       /\ db.daily[d][k] = Total(db.types[d][k])
  /\ \A k \in Kinds, t \in TypeKeys : db.typeSums[k][t] = Total([d \in Days |-> db.types[d][k][t]])
ImmersiveAgrees ==
  /\ \A m \in Marks : db.markSums[m] = Total([d \in Days |-> db.marks[d][m]])
  /\ \A m \in Measures : db.latencySum[m] = Total([d \in Days |-> db.latency[d][m]])

LEMMA TrafficKeepsAgreement ==
  ASSUME db \in Tables, db' \in Tables, NEW r \in TrafficRecords, db' = Whole(db, r), TrafficAgrees
  PROVE  TrafficAgrees'
<1> DEFINE D == Day(r.at)  H == Hour(r.at)  n == Total(r.counts)
<1>1. D \in Days /\ H \in Hours /\ n \in Nat /\ r.kind \in Kinds /\ r.counts \in [TypeKeys -> Nat]
  BY TrafficValues
<1>2. \A d \in Days, k \in Kinds :
        db'.daily[d][k] = db.daily[d][k] + (IF d = D /\ k = r.kind THEN n ELSE 0)
  BY TrafficValues
<1>3. \A d \in Days, h \in Hours, k \in Kinds :
        db'.hourly[d][h][k] = db.hourly[d][h][k] + (IF d = D /\ h = H /\ k = r.kind THEN n ELSE 0)
  BY TrafficValues
<1>4. \A d \in Days, k \in Kinds :
        db'.types[d][k] = IF d = D /\ k = r.kind THEN Plus(db.types[d][k], r.counts) ELSE db.types[d][k]
  BY TrafficValues
<1>5. \A k \in Kinds, t \in TypeKeys :
        db'.typeSums[k][t] = db.typeSums[k][t] + (IF k = r.kind THEN r.counts[t] ELSE 0)
  BY TrafficValues
<1>6. /\ db.daily \in [Days -> [Kinds -> Nat]] /\ db.hourly \in [Days -> [Hours -> [Kinds -> Nat]]]
      /\ db.types \in [Days -> [Kinds -> [TypeKeys -> Nat]]] /\ db.typeSums \in [Kinds -> [TypeKeys -> Nat]]
  BY DEF Tables
<1>7. /\ db'.hourly \in [Days -> [Hours -> [Kinds -> Nat]]]
      /\ db'.types \in [Days -> [Kinds -> [TypeKeys -> Nat]]]
  BY DEF Tables
<1>n. n = Total(r.counts) OBVIOUS
<1> HIDE DEF D, H, n
<1>8. ASSUME NEW d \in Days, NEW k \in Kinds
      PROVE  db'.daily[d][k] = Total([h \in Hours |-> db'.hourly[d][h][k]])
  <2> DEFINE f == [h \in Hours |-> db.hourly[d][h][k]]
             g == [h \in Hours |-> db'.hourly[d][h][k]]
  <2>1. f \in [Hours -> Nat] /\ g \in [Hours -> Nat] BY <1>6, <1>7
  <2>2. \A h \in Hours : g[h] = f[h] + (IF d = D /\ h = H /\ k = r.kind THEN n ELSE 0) BY <1>3
  <2>3. db.daily[d][k] = Total(f) BY DEF TrafficAgrees
  <2> HIDE DEF f, g
  <2>4. Total(f) \in Nat BY <2>1, FiniteDomains, UnitsFinite
  <2>5. CASE d = D /\ k = r.kind
    <3>1. \A h \in Hours : g[h] = f[h] + (IF h = H THEN n ELSE 0) BY <2>2, <2>5
    <3>2. Total(g) = Total(f) + n BY <3>1, <2>1, <1>1, FiniteDomains, TotalRaisedAt
    <3> QED BY <3>2, <2>3, <2>5, <1>2 DEF g
  <2>6. CASE ~(d = D /\ k = r.kind)
    <3>1. \A h \in Hours : g[h] = f[h] + 0 BY <2>2, <2>6
    <3>2. Total(g) = Total(f) BY <3>1, <2>1, SameTotal
    <3>3. db'.daily[d][k] = db.daily[d][k] + 0 BY <2>6, <1>2
    <3> QED BY <3>2, <3>3, <2>3, <2>4 DEF g
  <2> QED BY <2>5, <2>6
<1>9. ASSUME NEW d \in Days, NEW k \in Kinds
      PROVE  db'.daily[d][k] = Total(db'.types[d][k])
  <2>1. db.types[d][k] \in [TypeKeys -> Nat] BY <1>6
  <2>2. db.daily[d][k] = Total(db.types[d][k]) BY DEF TrafficAgrees
  <2>3. Total(db.types[d][k]) \in Nat BY <2>1, FiniteDomains, UnitsFinite
  <2>4. Total(Plus(db.types[d][k], r.counts)) = Total(db.types[d][k]) + n
    BY <2>1, <1>1, <1>n, FiniteDomains, TotalPlus
  <2>5. CASE d = D /\ k = r.kind BY <2>2, <2>4, <2>5, <1>2, <1>4
  <2>6. CASE ~(d = D /\ k = r.kind)
    <3>1. db'.daily[d][k] = db.daily[d][k] + 0 BY <2>6, <1>2
    <3>2. db'.types[d][k] = db.types[d][k] BY <2>6, <1>4
    <3> QED BY <3>1, <3>2, <2>2, <2>3
  <2> QED BY <2>5, <2>6
<1>10. ASSUME NEW k \in Kinds, NEW t \in TypeKeys
       PROVE  db'.typeSums[k][t] = Total([d \in Days |-> db'.types[d][k][t]])
  <2> DEFINE f == [d \in Days |-> db.types[d][k][t]]
             g == [d \in Days |-> db'.types[d][k][t]]
  <2>1. f \in [Days -> Nat] /\ g \in [Days -> Nat] BY <1>6, <1>7
  <2>2. r.counts[t] \in Nat BY <1>1
  <2>3. \A d \in Days : g[d] = f[d] + (IF d = D /\ k = r.kind THEN r.counts[t] ELSE 0)
    <3> SUFFICES ASSUME NEW d \in Days
                 PROVE  db'.types[d][k][t] = db.types[d][k][t] + (IF d = D /\ k = r.kind THEN r.counts[t] ELSE 0)
      OBVIOUS
    <3>1. db.types[d][k] \in [TypeKeys -> Nat] /\ db.types[d][k][t] \in Nat BY <1>6
    <3>2. Plus(db.types[d][k], r.counts)[t] = db.types[d][k][t] + r.counts[t] BY <3>1 DEF Plus
    <3> QED BY <3>1, <3>2, <1>4
  <2>4. db.typeSums[k][t] = Total(f) BY DEF TrafficAgrees
  <2> HIDE DEF f, g
  <2>5. Total(f) \in Nat BY <2>1, FiniteDomains, UnitsFinite
  <2>6. CASE k = r.kind
    <3>1. \A d \in Days : g[d] = f[d] + (IF d = D THEN r.counts[t] ELSE 0) BY <2>3, <2>6
    <3>2. Total(g) = Total(f) + r.counts[t]
      <4> DEFINE c == r.counts[t]
      <4>1. c \in Nat /\ (\A d \in Days : g[d] = f[d] + (IF d = D THEN c ELSE 0)) BY <2>2, <3>1
      <4> HIDE DEF c
      <4>2. Total(g) = Total(f) + c BY <2>1, <4>1, <1>1, RaisedOnADay
      <4> QED BY <4>2 DEF c
    <3> QED BY <3>2, <2>4, <2>6, <1>5 DEF g
  <2>7. CASE k # r.kind
    <3>1. \A d \in Days : g[d] = f[d] + 0 BY <2>3, <2>7
    <3>2. Total(g) = Total(f) BY <3>1, <2>1, SameTotal
    <3>3. db'.typeSums[k][t] = db.typeSums[k][t] + 0 BY <2>7, <1>5
    <3> QED BY <3>2, <3>3, <2>4, <2>5 DEF g
  <2> QED BY <2>6, <2>7
<1> QED BY <1>8, <1>9, <1>10 DEF TrafficAgrees

LEMMA ImmersiveKeepsAgreement ==
  ASSUME db \in Tables, db' \in Tables, now \in Time, NEW r \in ImmersiveRecords, db' = Whole(db, r),
         ImmersiveAgrees
  PROVE  ImmersiveAgrees'
<1> DEFINE D == Day(now)  o == Ones(r.marks)  l == Measured(r.latency)
<1>1. /\ D \in Days /\ o \in [Marks -> Nat] /\ l \in [Measures -> Nat]
      /\ \A d \in Days, m \in Marks : db'.marks[d][m] = db.marks[d][m] + (IF d = D THEN o[m] ELSE 0)
      /\ \A m \in Marks : db'.markSums[m] = db.markSums[m] + o[m]
      /\ \A d \in Days, m \in Measures : db'.latency[d][m] = db.latency[d][m] + (IF d = D THEN l[m] ELSE 0)
      /\ \A m \in Measures : db'.latencySum[m] = db.latencySum[m] + l[m]
  BY ImmersiveValues
<1>2. /\ db.marks \in [Days -> [Marks -> Nat]] /\ db.latency \in [Days -> [Measures -> Nat]]
      /\ db'.marks \in [Days -> [Marks -> Nat]] /\ db'.latency \in [Days -> [Measures -> Nat]]
  BY DEF Tables
<1> HIDE DEF D, o, l
<1>3. ASSUME NEW m \in Marks PROVE db'.markSums[m] = Total([d \in Days |-> db'.marks[d][m]])
  <2> DEFINE f == [d \in Days |-> db.marks[d][m]]
             g == [d \in Days |-> db'.marks[d][m]]
  <2>1. f \in [Days -> Nat] /\ g \in [Days -> Nat] /\ o[m] \in Nat BY <1>1, <1>2
  <2>2. \A d \in Days : g[d] = f[d] + (IF d = D THEN o[m] ELSE 0) BY <1>1
  <2>3. db.markSums[m] = Total(f) BY DEF ImmersiveAgrees
  <2> HIDE DEF f, g
  <2>4. Total(g) = Total(f) + o[m]
    <3> DEFINE c == o[m]
    <3>1. c \in Nat /\ (\A d \in Days : g[d] = f[d] + (IF d = D THEN c ELSE 0)) BY <2>1, <2>2
    <3>2. D \in Days /\ f \in [Days -> Nat] /\ g \in [Days -> Nat] BY <1>1, <2>1
    <3> HIDE DEF c
    <3>3. Total(g) = Total(f) + c BY <3>1, <3>2, RaisedOnADay
    <3> QED BY <3>3 DEF c
  <2> QED BY <2>3, <2>4, <1>1 DEF g
<1>4. ASSUME NEW m \in Measures PROVE db'.latencySum[m] = Total([d \in Days |-> db'.latency[d][m]])
  <2> DEFINE f == [d \in Days |-> db.latency[d][m]]
             g == [d \in Days |-> db'.latency[d][m]]
  <2>1. f \in [Days -> Nat] /\ g \in [Days -> Nat] /\ l[m] \in Nat BY <1>1, <1>2
  <2>2. \A d \in Days : g[d] = f[d] + (IF d = D THEN l[m] ELSE 0) BY <1>1
  <2>3. db.latencySum[m] = Total(f) BY DEF ImmersiveAgrees
  <2> HIDE DEF f, g
  <2>4. Total(g) = Total(f) + l[m]
    <3> DEFINE c == l[m]
    <3>1. c \in Nat /\ (\A d \in Days : g[d] = f[d] + (IF d = D THEN c ELSE 0)) BY <2>1, <2>2
    <3>2. D \in Days /\ f \in [Days -> Nat] /\ g \in [Days -> Nat] BY <1>1, <2>1
    <3> HIDE DEF c
    <3>3. Total(g) = Total(f) + c BY <3>1, <3>2, RaisedOnADay
    <3> QED BY <3>3 DEF c
  <2> QED BY <2>3, <2>4, <1>1 DEF g
<1> QED BY <1>3, <1>4 DEF ImmersiveAgrees

TablesInv == TrafficAgrees /\ ImmersiveAgrees

LEMMA AgreementSplit == TablesInv <=> TablesAgree
BY Zenon DEF TablesInv, TrafficAgrees, ImmersiveAgrees, TablesAgree

LEMMA TablesInvHolds == Spec => []TablesInv
<1>1. Init => TablesInv
  <2> SUFFICES ASSUME Init PROVE TablesInv OBVIOUS
  <2>1. db = EmptyTables BY Zenon DEF Init
  <2>2. /\ db.daily = [d \in Days |-> None] /\ db.hourly = [d \in Days |-> [h \in Hours |-> None]]
        /\ db.types = [d \in Days |-> [k \in Kinds |-> [t \in TypeKeys |-> 0]]]
        /\ db.typeSums = [k \in Kinds |-> [t \in TypeKeys |-> 0]]
        /\ db.marks = [d \in Days |-> [m \in Marks |-> 0]] /\ db.markSums = [m \in Marks |-> 0]
        /\ db.latency = [d \in Days |-> NoLatency] /\ db.latencySum = NoLatency
    BY <2>1 DEF EmptyTables
  <2>3. \A k \in Kinds : None[k] = 0 BY DEF None
  <2>4. \A m \in Measures : NoLatency[m] = 0 BY DEF NoLatency
  <2>5. TrafficAgrees
    <3>1. ASSUME NEW d \in Days, NEW k \in Kinds
          PROVE  db.daily[d][k] = Total([h \in Hours |-> db.hourly[d][h][k]]) /\ db.daily[d][k] = Total(db.types[d][k])
      <4>1. [h \in Hours |-> db.hourly[d][h][k]] = [h \in Hours |-> 0] BY <2>2, <2>3
      <4>2. db.types[d][k] = [t \in TypeKeys |-> 0] /\ db.daily[d][k] = 0 BY <2>2, <2>3
      <4> QED BY <4>1, <4>2, TotalZero
    <3>2. ASSUME NEW k \in Kinds, NEW t \in TypeKeys
          PROVE  db.typeSums[k][t] = Total([d \in Days |-> db.types[d][k][t]])
      <4>1. [d \in Days |-> db.types[d][k][t]] = [d \in Days |-> 0] /\ db.typeSums[k][t] = 0 BY <2>2
      <4> QED BY <4>1, TotalZero
    <3> QED BY <3>1, <3>2 DEF TrafficAgrees
  <2>6. ImmersiveAgrees
    <3>1. ASSUME NEW m \in Marks PROVE db.markSums[m] = Total([d \in Days |-> db.marks[d][m]])
      <4>1. [d \in Days |-> db.marks[d][m]] = [d \in Days |-> 0] /\ db.markSums[m] = 0 BY <2>2
      <4> QED BY <4>1, TotalZero
    <3>2. ASSUME NEW m \in Measures PROVE db.latencySum[m] = Total([d \in Days |-> db.latency[d][m]])
      <4>1. [d \in Days |-> db.latency[d][m]] = [d \in Days |-> 0] /\ db.latencySum[m] = 0 BY <2>2, <2>4
      <4> QED BY <4>1, TotalZero
    <3> QED BY <3>1, <3>2 DEF ImmersiveAgrees
  <2> QED BY <2>5, <2>6 DEF TablesInv
<1>2. TypeInv /\ TypeInv' /\ TablesInv /\ [Next]_vars => TablesInv'
  <2> SUFFICES ASSUME TypeInv, TypeInv', TablesInv, [Next]_vars PROVE TablesInv' OBVIOUS
  <2>0. db \in Tables /\ db' \in Tables /\ now \in Time BY DEF TypeInv, TypeOK
  <2>1. CASE db' = db
    BY <2>1 DEF TablesInv, TrafficAgrees, ImmersiveAgrees
  <2>2. ASSUME NEW r \in TrafficRecords, TrafficStep(r) PROVE TablesInv'
    <3>1. db' = Whole(db, r) BY <2>2 DEF TrafficStep
    <3>2. TrafficAgrees' BY <3>1, <2>0, TrafficKeepsAgreement DEF TablesInv
    <3>3. db'.marks = db.marks /\ db'.markSums = db.markSums /\ db'.latency = db.latency
            /\ db'.latencySum = db.latencySum
      BY <3>1, <2>0, TrafficFields
    <3>4. ImmersiveAgrees' BY <3>3, Zenon DEF TablesInv, ImmersiveAgrees
    <3> QED BY <3>2, <3>4 DEF TablesInv
  <2>3. ASSUME NEW i \in Slots, ImmersiveStep(i), db' # db PROVE TablesInv'
    <3> DEFINE r == owed[i]
    <3>1. r \in ImmersiveRecords BY <2>3, OwedTyped DEF ImmersiveStep, TypeInv
    <3>2. db' = Whole(db, r) BY <2>3 DEF ImmersiveStep
    <3> HIDE DEF r
    <3>3. ImmersiveAgrees' BY <3>1, <3>2, <2>0, ImmersiveKeepsAgreement DEF TablesInv
    <3>4. db'.daily = db.daily /\ db'.hourly = db.hourly /\ db'.types = db.types /\ db'.typeSums = db.typeSums
      BY <3>1, <3>2, <2>0, ImmersiveFields
    <3>5. TrafficAgrees' BY <3>4, Zenon DEF TablesInv, TrafficAgrees
    <3> QED BY <3>3, <3>5 DEF TablesInv
  <2> QED BY <2>1, <2>2, <2>3, TableSteps, Zenon DEF TypeInv
<1> QED BY <1>1, <1>2, TypeInvHolds, PTL DEF Spec

\* The tables agree with each other in every state, whichever statement of a
\* transaction failed.
THEOREM TablesAlwaysAgree == Spec => []TablesAgree
<1>1. TablesInv => TablesAgree BY AgreementSplit
<1> QED BY <1>1, TablesInvHolds, PTL

-----------------------------------------------------------------------------
(* The overview fits together.  Every statement leaves a bound between what it *)
(* read and what the tables hold now, and the tables only grow.               *)

Dated ==
  \A d \in Days, k \in Kinds :
    db.daily[d][k] > 0 => db.last[k] # Never /\ (k = "received" => db.connected # Never)

TodayRead ==
  Len(view.seen) >= 1 => \A k \in Kinds : view.seen[1][k] <= db.daily[Day(view.at)][k]
TotalsRead ==
  Len(view.seen) >= 2 => \A k \in Kinds : view.seen[1][k] <= view.seen[2][k]
StateRead ==
  Len(view.seen) >= 4 => \A k \in Kinds :
    view.seen[1][k] > 0 => view.seen[4].last[k] # Never /\ (k = "received" => view.seen[4].connected # Never)
TypesRead(i, k) ==
  Len(view.seen) >= i => /\ view.seen[1][k] <= Total(view.seen[i])
                         /\ Total(view.seen[i]) <= db.daily[Day(view.at)][k]
TrendRead(i, k) ==
  Len(view.seen) >= 8 => Total(view.seen[i]) <= Total([h \in Hours |-> view.seen[8][h][k]])

ReadInv ==
  /\ Dated /\ TodayRead /\ TotalsRead /\ StateRead
  /\ TypesRead(5, "received") /\ TypesRead(6, "sent") /\ TypesRead(7, "failed")
  /\ TrendRead(5, "received") /\ TrendRead(6, "sent") /\ TrendRead(7, "failed")

\* Counts never fall, and a kind that was counted has its time.
LEMMA TablesGrow ==
  ASSUME TypeInv, Dated, [Next]_vars
  PROVE  Dated' /\ \A d \in Days, k \in Kinds : db.daily[d][k] <= db'.daily[d][k]
<1>0. db \in Tables BY DEF TypeInv, TypeOK
<1>1. db.daily \in [Days -> [Kinds -> Nat]] /\ db.last \in [Kinds -> Time \cup {Never}]
        /\ db.connected \in Time \cup {Never}
  BY <1>0 DEF Tables
<1>2. \A d \in Days, k \in Kinds : db.daily[d][k] \in Nat BY <1>1
<1> DEFINE Goal == Dated' /\ \A d \in Days, k \in Kinds : db.daily[d][k] <= db'.daily[d][k]
<1>3. ASSUME db'.daily = db.daily, db'.last = db.last, db'.connected = db.connected PROVE Goal
  BY <1>2, <1>3 DEF Dated
<1>4. ASSUME NEW r \in TrafficRecords, TrafficStep(r) PROVE Goal
  <2> DEFINE D == Day(r.at)  n == Total(r.counts)
  <2>1. db' = Whole(db, r) BY <1>4 DEF TrafficStep
  <2>2. D \in Days /\ n \in Nat /\ r.kind \in Kinds BY <1>0, <2>1, TrafficValues
  <2>3. \A d \in Days, k \in Kinds :
        db'.daily[d][k] = db.daily[d][k] + (IF d = D /\ k = r.kind THEN n ELSE 0)
    BY <1>0, <2>1, TrafficValues
  <2>4. db'.last = [db.last EXCEPT ![r.kind] = r.at]
          /\ db'.connected = (IF r.kind = "received" THEN Coalesce(db.connected, r.at) ELSE db.connected)
    BY <1>0, <2>1, TrafficFields
  <2>5. r.at \in Time /\ r.at # Never BY TimeFacts DEF TrafficRecords
  <2> HIDE DEF D, n
  <2>6. \A d \in Days, k \in Kinds : db.daily[d][k] <= db'.daily[d][k] BY <1>2, <2>2, <2>3
  <2>7. ASSUME NEW d \in Days, NEW k \in Kinds, db'.daily[d][k] > 0
        PROVE  db'.last[k] # Never /\ (k = "received" => db'.connected # Never)
    <3>1. CASE k = r.kind
      <4>1. db'.last[k] = r.at BY <3>1, <1>1, <2>4
      <4>2. k = "received" => db'.connected = Coalesce(db.connected, r.at) BY <3>1, <2>4
      <4>3. Coalesce(db.connected, r.at) # Never BY <2>5 DEF Coalesce
      <4> QED BY <4>1, <4>2, <4>3, <2>5
    <3>2. CASE k # r.kind
      <4>1. db'.daily[d][k] = db.daily[d][k] + 0 BY <3>2, <2>3
      <4>2. db.daily[d][k] > 0 BY <4>1, <2>7, <1>2
      <4>3. db.last[k] # Never /\ (k = "received" => db.connected # Never) BY <4>2 DEF Dated
      <4>4. db'.last[k] = db.last[k] BY <3>2, <2>4, <1>1
      <4>5. k = "received" => db'.connected = db.connected BY <3>2, <2>4
      <4> QED BY <4>3, <4>4, <4>5
    <3> QED BY <3>1, <3>2
  <2> QED BY <2>6, <2>7 DEF Dated
<1>5. ASSUME NEW i \in Slots, ImmersiveStep(i) PROVE Goal
  <2> DEFINE r == owed[i]
  <2>1. r \in ImmersiveRecords /\ (db' = Whole(db, r) \/ db' = db)
    BY <1>5, OwedTyped DEF ImmersiveStep, TypeInv
  <2> HIDE DEF r
  <2>2. CASE db' = Whole(db, r)
    <3>1. db'.daily = db.daily /\ db'.last = db.last /\ db'.connected = db.connected
      BY <1>0, <2>1, <2>2, ImmersiveFields
    <3> QED BY <3>1, <1>3
  <2>3. CASE db' = db BY <2>3, <1>3
  <2> QED BY <2>1, <2>2, <2>3
<1> QED BY <1>3, <1>4, <1>5, TableSteps DEF TypeInv

CountsGrow == \A d \in Days, k \in Kinds : db.daily[d][k] <= db'.daily[d][k]

\* What the statements that have been read answer with.
LEMMA SeenTyped ==
  ASSUME ViewTyped
  PROVE  LET n == Len(view.seen)  s == view.seen IN
         /\ n \in Nat
         /\ n >= 1 => s[1] \in [Kinds -> Nat]
         /\ n >= 2 => s[2] \in [Kinds -> Nat]
         /\ n >= 4 => s[4] \in [last : [Kinds -> Time \cup {Never}], connected : Time \cup {Never}]
         /\ n >= 5 => s[5] \in [TypeKeys -> Nat]
         /\ n >= 6 => s[6] \in [TypeKeys -> Nat]
         /\ n >= 7 => s[7] \in [TypeKeys -> Nat]
         /\ n >= 8 => s[8] \in [Hours -> [Kinds -> Nat]]
<1> DEFINE n == Len(view.seen)  s == view.seen
<1>1. s \in Seq(Answers) /\ \A i \in 1 .. n : s[i] \in Answer(Overview[i]) BY DEF ViewTyped
<1>2. n \in Nat BY <1>1, LenProperties
<1>3. Answer("today") = [Kinds -> Nat] /\ Answer("totals") = [Kinds -> Nat] BY DEF Answer, Kinds
<1>4. Answer("state") = [last : [Kinds -> Time \cup {Never}], connected : Time \cup {Never}] BY DEF Answer, Kinds
<1>5. Answer("received") = [TypeKeys -> Nat] /\ Answer("sent") = [TypeKeys -> Nat]
        /\ Answer("failed") = [TypeKeys -> Nat]
  BY DEF Answer, Kinds
<1>6. Answer("hourly") = [Hours -> [Kinds -> Nat]] BY DEF Answer, Kinds
<1>7. /\ Overview[1] = "today" /\ Overview[2] = "totals" /\ Overview[4] = "state" /\ Overview[5] = "received"
      /\ Overview[6] = "sent" /\ Overview[7] = "failed" /\ Overview[8] = "hourly"
  BY DEF Overview
<1> HIDE DEF n, s
<1>8. \A i \in 1 .. 9 : n >= i => s[i] \in Answer(Overview[i]) BY <1>1, <1>2
<1>9. n >= 1 => s[1] \in [Kinds -> Nat] BY <1>3, <1>7, <1>8
<1>10. n >= 2 => s[2] \in [Kinds -> Nat] BY <1>3, <1>7, <1>8
<1>11. n >= 4 => s[4] \in [last : [Kinds -> Time \cup {Never}], connected : Time \cup {Never}]
  <2>1. n >= 4 => s[4] \in Answer("state") BY <1>7, <1>8
  <2> QED BY <2>1, <1>4, Zenon
<1>12. n >= 5 => s[5] \in [TypeKeys -> Nat] BY <1>5, <1>7, <1>8
<1>13. n >= 6 => s[6] \in [TypeKeys -> Nat] BY <1>5, <1>7, <1>8
<1>14. n >= 7 => s[7] \in [TypeKeys -> Nat] BY <1>5, <1>7, <1>8
<1>15. n >= 8 => s[8] \in [Hours -> [Kinds -> Nat]] BY <1>6, <1>7, <1>8
<1> QED BY <1>2, <1>9, <1>10, <1>11, <1>12, <1>13, <1>14, <1>15, Zenon DEF n, s

\* The answers, of the day the overview was opened on.
LEMMA ReadValues ==
  ASSUME db \in Tables, NEW d \in Days
  PROVE  /\ Read(Overview[1], d) = db.daily[d]
         /\ \A k \in Kinds : db.daily[d][k] <= Read(Overview[2], d)[k]
         /\ Read(Overview[4], d) = [last |-> db.last, connected |-> db.connected]
         /\ Read(Overview[5], d) = db.types[d]["received"]
         /\ Read(Overview[6], d) = db.types[d]["sent"]
         /\ Read(Overview[7], d) = db.types[d]["failed"]
         /\ Read(Overview[8], d) = db.hourly[d]
<1>0. /\ Overview[1] = "today" /\ Overview[2] = "totals" /\ Overview[4] = "state" /\ Overview[5] = "received"
      /\ Overview[6] = "sent" /\ Overview[7] = "failed" /\ Overview[8] = "hourly"
  BY DEF Overview
<1>1. Read("today", d) = db.daily[d] BY DEF Read, Kinds
<1>2. Read("totals", d) = [k \in Kinds |-> Total([x \in Days |-> db.daily[x][k]])] BY DEF Read, Kinds
<1>3. Read("state", d) = [last |-> db.last, connected |-> db.connected] BY DEF Read, Kinds
<1>4. Read("received", d) = db.types[d]["received"] BY DEF Read, Kinds
<1>5. Read("sent", d) = db.types[d]["sent"] BY DEF Read, Kinds
<1>6. Read("failed", d) = db.types[d]["failed"] BY DEF Read, Kinds
<1>7. Read("hourly", d) = db.hourly[d] BY DEF Read, Kinds
<1>8. ASSUME NEW k \in Kinds PROVE db.daily[d][k] <= Read("totals", d)[k]
  <2> DEFINE f == [x \in Days |-> db.daily[x][k]]
  <2>1. f \in [Days -> Nat] BY DEF Tables
  <2>2. f[d] = db.daily[d][k] OBVIOUS
  <2>3. Read("totals", d)[k] = Total(f) BY <1>2
  <2> HIDE DEF f
  <2>4. f[d] <= Total(f) BY <2>1, FiniteDomains, TotalMember
  <2> QED BY <2>2, <2>3, <2>4
<1> QED BY <1>0, <1>1, <1>3, <1>4, <1>5, <1>6, <1>7, <1>8

\* A read between two transactions keeps the bounds and adds its own.
LEMMA BuildKeepsBounds ==
  ASSUME TypeInv, TypeInv', TrafficAgrees, ReadInv, BuildStep, db' = db
  PROVE  ReadInv'
<1> DEFINE n == Len(view.seen)  s == view.seen  u == view'.seen  d == Day(view.at)
<1>0. db \in Tables /\ ViewTyped /\ ViewTyped' BY Zenon DEF TypeInv, TypeOK, ShapeInv, ViewTyped
<1>1. /\ n \in 0 .. 8 /\ d \in Days /\ view'.at = view.at /\ Len(u) = n + 1
      /\ (\A i \in 1 .. n : u[i] = s[i]) /\ u[n + 1] = Read(Overview[n + 1], d)
  BY DEF BuildStep
<1>2. /\ n >= 1 => s[1] \in [Kinds -> Nat]
      /\ n >= 2 => s[2] \in [Kinds -> Nat]
  BY <1>0, SeenTyped
<1>3. /\ Read(Overview[1], d) = db.daily[d]
      /\ \A k \in Kinds : db.daily[d][k] <= Read(Overview[2], d)[k]
      /\ Read(Overview[4], d) = [last |-> db.last, connected |-> db.connected]
      /\ Read(Overview[5], d) = db.types[d]["received"]
      /\ Read(Overview[6], d) = db.types[d]["sent"]
      /\ Read(Overview[7], d) = db.types[d]["failed"]
      /\ Read(Overview[8], d) = db.hourly[d]
  BY <1>0, <1>1, ReadValues
<1>4. \A k \in Kinds : db.daily[d][k] \in Nat /\ db.daily[d][k] = Total(db.types[d][k])
        /\ db.daily[d][k] = Total([h \in Hours |-> db.hourly[d][h][k]])
  BY <1>0, <1>1 DEF Tables, TrafficAgrees
<1>5. "received" \in Kinds /\ "sent" \in Kinds /\ "failed" \in Kinds BY DEF Kinds
<1>6. n \in Nat BY <1>1
<1>7. /\ n >= 1 => \A k \in Kinds : s[1][k] <= db.daily[d][k]
      /\ n >= 2 => \A k \in Kinds : s[1][k] <= s[2][k]
      /\ n >= 4 => \A k \in Kinds :
           s[1][k] > 0 => s[4].last[k] # Never /\ (k = "received" => s[4].connected # Never)
  BY DEF ReadInv, TodayRead, TotalsRead, StateRead
<1>8. /\ n >= 5 => s[1]["received"] <= Total(s[5]) /\ Total(s[5]) <= db.daily[d]["received"]
      /\ n >= 6 => s[1]["sent"] <= Total(s[6]) /\ Total(s[6]) <= db.daily[d]["sent"]
      /\ n >= 7 => s[1]["failed"] <= Total(s[7]) /\ Total(s[7]) <= db.daily[d]["failed"]
  BY DEF ReadInv, TypesRead
<1>9. /\ n >= 8 => Total(s[5]) <= Total([h \in Hours |-> s[8][h]["received"]])
      /\ n >= 8 => Total(s[6]) <= Total([h \in Hours |-> s[8][h]["sent"]])
      /\ n >= 8 => Total(s[7]) <= Total([h \in Hours |-> s[8][h]["failed"]])
  BY DEF ReadInv, TrendRead
<1>10. Dated BY DEF ReadInv
<1> HIDE DEF n, s, u, d
<1>11. \A i \in 1 .. 9 : (n >= i => u[i] = s[i]) /\ (n + 1 = i => u[i] = Read(Overview[i], d))
  BY <1>1, <1>6
<1>12. Dated' BY <1>10 DEF Dated
<1>13. n + 1 >= 1 => \A k \in Kinds : u[1][k] <= db.daily[d][k]
  <2>1. CASE n >= 1 BY <2>1, <1>7, <1>11
  <2>2. CASE n = 0
    <3>1. u[1] = db.daily[d] BY <2>2, <1>3, <1>11
    <3>2. \A k \in Kinds : db.daily[d][k] \in Nat BY <1>4, Zenon
    <3>3. \A k \in Kinds : db.daily[d][k] <= db.daily[d][k] BY <3>2
    <3> QED BY <3>1, <3>3
  <2> QED BY <2>1, <2>2, <1>6
<1>14. n + 1 >= 2 => \A k \in Kinds : u[1][k] <= u[2][k]
  <2>1. CASE n >= 2 BY <2>1, <1>6, <1>7, <1>11
  <2>2. CASE n = 1
    <3>1. u[1] = s[1] /\ u[2] = Read(Overview[2], d) BY <2>2, <1>11
    <3>2. ASSUME NEW k \in Kinds PROVE s[1][k] <= Read(Overview[2], d)[k]
      <4>1. s[1][k] <= db.daily[d][k] /\ db.daily[d][k] <= Read(Overview[2], d)[k] BY <2>2, <1>3, <1>7
      <4>2. s[1][k] \in Nat /\ db.daily[d][k] \in Nat
        <5>1. s[1] \in [Kinds -> Nat] BY <2>2, <1>2
        <5> QED BY <5>1, <1>4
      <4>3. Read(Overview[2], d)[k] \in Nat
        <5>1. Overview[2] = "totals" /\ "totals" \in StatementNames BY DEF Overview, StatementNames
        <5>2. Read("totals", d) \in Answer("totals") BY <5>1, <1>1, ReadTyped
        <5>3. Answer("totals") = [Kinds -> Nat] BY DEF Answer, Kinds
        <5> QED BY <5>1, <5>2, <5>3
      <4> QED BY <4>1, <4>2, <4>3
    <3> QED BY <3>1, <3>2
  <2> QED BY <2>1, <2>2, <1>6
<1>15. n + 1 >= 4 => \A k \in Kinds :
         u[1][k] > 0 => u[4].last[k] # Never /\ (k = "received" => u[4].connected # Never)
  <2>1. CASE n >= 4
    <3>1. u[1] = s[1] /\ u[4] = s[4] BY <2>1, <1>6, <1>11
    <3> QED BY <3>1, <2>1, <1>7
  <2>2. CASE n = 3
    <3>1. u[1] = s[1] /\ u[4] = [last |-> db.last, connected |-> db.connected] BY <2>2, <1>3, <1>11
    <3>2. ASSUME NEW k \in Kinds, s[1][k] > 0
          PROVE  db.last[k] # Never /\ (k = "received" => db.connected # Never)
      <4>1. s[1] \in [Kinds -> Nat] /\ s[1][k] <= db.daily[d][k] BY <2>2, <1>2, <1>7
      <4>2. s[1][k] \in Nat /\ db.daily[d][k] \in Nat BY <4>1, <1>4
      <4>3. db.daily[d][k] > 0 BY <4>1, <4>2, <3>2
      <4> QED BY <4>3, <1>1, <1>10 DEF Dated
    <3> QED BY <3>1, <3>2
  <2> QED BY <2>1, <2>2, <1>6
<1>16. n + 1 >= 5 => u[1]["received"] <= Total(u[5]) /\ Total(u[5]) <= db.daily[d]["received"]
  <2>1. CASE n >= 5
    <3>1. u[1] = s[1] /\ u[5] = s[5] BY <2>1, <1>6, <1>11
    <3> QED BY <3>1, <2>1, <1>8
  <2>2. CASE n = 4
    <3>1. u[1] = s[1] /\ u[5] = db.types[d]["received"] BY <2>2, <1>3, <1>11
    <3>2. Total(u[5]) = db.daily[d]["received"] /\ db.daily[d]["received"] \in Nat BY <3>1, <1>4, <1>5
    <3>3. s[1]["received"] <= db.daily[d]["received"] BY <2>2, <1>5, <1>7
    <3> QED BY <3>1, <3>2, <3>3
  <2> QED BY <2>1, <2>2, <1>6
<1>17. n + 1 >= 6 => u[1]["sent"] <= Total(u[6]) /\ Total(u[6]) <= db.daily[d]["sent"]
  <2>1. CASE n >= 6
    <3>1. u[1] = s[1] /\ u[6] = s[6] BY <2>1, <1>6, <1>11
    <3> QED BY <3>1, <2>1, <1>8
  <2>2. CASE n = 5
    <3>1. u[1] = s[1] /\ u[6] = db.types[d]["sent"] BY <2>2, <1>3, <1>11
    <3>2. Total(u[6]) = db.daily[d]["sent"] /\ db.daily[d]["sent"] \in Nat BY <3>1, <1>4, <1>5
    <3>3. s[1]["sent"] <= db.daily[d]["sent"] BY <2>2, <1>5, <1>7
    <3> QED BY <3>1, <3>2, <3>3
  <2> QED BY <2>1, <2>2, <1>6
<1>18. n + 1 >= 7 => u[1]["failed"] <= Total(u[7]) /\ Total(u[7]) <= db.daily[d]["failed"]
  <2>1. CASE n >= 7
    <3>1. u[1] = s[1] /\ u[7] = s[7] BY <2>1, <1>6, <1>11
    <3> QED BY <3>1, <2>1, <1>8
  <2>2. CASE n = 6
    <3>1. u[1] = s[1] /\ u[7] = db.types[d]["failed"] BY <2>2, <1>3, <1>11
    <3>2. Total(u[7]) = db.daily[d]["failed"] /\ db.daily[d]["failed"] \in Nat BY <3>1, <1>4, <1>5
    <3>3. s[1]["failed"] <= db.daily[d]["failed"] BY <2>2, <1>5, <1>7
    <3> QED BY <3>1, <3>2, <3>3
  <2> QED BY <2>1, <2>2, <1>6
<1>19. n + 1 >= 8 => Total(u[5]) <= Total([h \in Hours |-> u[8][h]["received"]])
  <2>1. CASE n >= 8
    <3>1. u[5] = s[5] /\ u[8] = s[8] BY <2>1, <1>6, <1>11
    <3> QED BY <3>1, <2>1, <1>9
  <2>2. CASE n = 7
    <3>1. u[5] = s[5] /\ u[8] = db.hourly[d] BY <2>2, <1>3, <1>11
    <3>2. Total(s[5]) <= db.daily[d]["received"] BY <2>2, <1>8
    <3>3. db.daily[d]["received"] = Total([h \in Hours |-> db.hourly[d][h]["received"]]) BY <1>4, <1>5
    <3> QED BY <3>1, <3>2, <3>3
  <2> QED BY <2>1, <2>2, <1>6
<1>20. n + 1 >= 8 => Total(u[6]) <= Total([h \in Hours |-> u[8][h]["sent"]])
  <2>1. CASE n >= 8
    <3>1. u[6] = s[6] /\ u[8] = s[8] BY <2>1, <1>6, <1>11
    <3> QED BY <3>1, <2>1, <1>9
  <2>2. CASE n = 7
    <3>1. u[6] = s[6] /\ u[8] = db.hourly[d] BY <2>2, <1>3, <1>11
    <3>2. Total(s[6]) <= db.daily[d]["sent"] BY <2>2, <1>8
    <3>3. db.daily[d]["sent"] = Total([h \in Hours |-> db.hourly[d][h]["sent"]]) BY <1>4, <1>5
    <3> QED BY <3>1, <3>2, <3>3
  <2> QED BY <2>1, <2>2, <1>6
<1>21. n + 1 >= 8 => Total(u[7]) <= Total([h \in Hours |-> u[8][h]["failed"]])
  <2>1. CASE n >= 8
    <3>1. u[7] = s[7] /\ u[8] = s[8] BY <2>1, <1>6, <1>11
    <3> QED BY <3>1, <2>1, <1>9
  <2>2. CASE n = 7
    <3>1. u[7] = s[7] /\ u[8] = db.hourly[d] BY <2>2, <1>3, <1>11
    <3>2. Total(s[7]) <= db.daily[d]["failed"] BY <2>2, <1>8
    <3>3. db.daily[d]["failed"] = Total([h \in Hours |-> db.hourly[d][h]["failed"]]) BY <1>4, <1>5
    <3> QED BY <3>1, <3>2, <3>3
  <2> QED BY <2>1, <2>2, <1>6
<1>22. Len(view'.seen) = n + 1 /\ Day(view'.at) = d /\ db'.daily = db.daily BY <1>1 DEF u, d
<1>23. TodayRead' /\ TotalsRead' /\ StateRead'
  BY <1>13, <1>14, <1>15, <1>22, Zenon DEF TodayRead, TotalsRead, StateRead, u
<1>24. TypesRead(5, "received")' /\ TypesRead(6, "sent")' /\ TypesRead(7, "failed")'
  BY <1>16, <1>17, <1>18, <1>22, Zenon DEF TypesRead, u
<1>25. TrendRead(5, "received")' /\ TrendRead(6, "sent")' /\ TrendRead(7, "failed")'
  BY <1>19, <1>20, <1>21, <1>22, Zenon DEF TrendRead, u
<1> QED BY <1>12, <1>23, <1>24, <1>25, Zenon DEF ReadInv

\* Counts that grow keep the bounds of an overview that is not being read.
LEMMA GrowthKeepsBounds ==
  ASSUME TypeInv, TypeInv', ReadInv, Dated', view' = view,
         \A d \in Days, k \in Kinds : db.daily[d][k] <= db'.daily[d][k]
  PROVE  ReadInv'
<1> DEFINE n == Len(view.seen)  s == view.seen  d == Day(view.at)
<1>0. db \in Tables /\ db' \in Tables /\ ViewTyped BY Zenon DEF TypeInv, TypeOK, ShapeInv, ViewTyped
<1>1. n \in Nat /\ (n >= 1 => view.at \in Time)
  <2>1. n \in Nat BY <1>0, SeenTyped
  <2>2. view.at \in Time \cup {Never} /\ (view.at = Never => s = <<>>) BY <1>0 DEF ViewTyped
  <2>3. Len(<<>>) = 0 BY EmptySeq
  <2> QED BY <2>1, <2>2, <2>3
<1>2. n >= 1 => d \in Days BY <1>1, TimeDomains
<1>3. n >= 1 => \A k \in Kinds : db.daily[d][k] \in Nat /\ db'.daily[d][k] \in Nat BY <1>0, <1>2 DEF Tables
<1>4. n >= 1 => s[1] \in [Kinds -> Nat] BY <1>0, SeenTyped
<1>5. TotalsRead' /\ StateRead' BY Zenon DEF ReadInv, TotalsRead, StateRead
<1>6. TrendRead(5, "received")' /\ TrendRead(6, "sent")' /\ TrendRead(7, "failed")' BY Zenon DEF ReadInv, TrendRead
<1>7. TodayRead'
  <2>1. n >= 1 => \A k \in Kinds : s[1][k] <= db'.daily[d][k]
    <3> SUFFICES ASSUME n >= 1, NEW k \in Kinds PROVE s[1][k] <= db'.daily[d][k] OBVIOUS
    <3>1. s[1][k] <= db.daily[d][k] BY DEF ReadInv, TodayRead
    <3>2. db.daily[d][k] <= db'.daily[d][k] BY <1>2
    <3>3. s[1][k] \in Nat /\ db.daily[d][k] \in Nat /\ db'.daily[d][k] \in Nat BY <1>3, <1>4
    <3> QED BY <3>1, <3>2, <3>3
  <2> QED BY <2>1, Zenon DEF TodayRead
<1>8. ASSUME NEW i \in {5, 6, 7}, NEW k \in Kinds, n >= i => s[i] \in [TypeKeys -> Nat], TypesRead(i, k)
      PROVE  TypesRead(i, k)'
  <2>1. n >= i => s[1][k] <= Total(s[i]) /\ Total(s[i]) <= db'.daily[d][k]
    <3> SUFFICES ASSUME n >= i PROVE s[1][k] <= Total(s[i]) /\ Total(s[i]) <= db'.daily[d][k] OBVIOUS
    <3>0. n >= 1 BY <1>1
    <3>1. s[1][k] <= Total(s[i]) /\ Total(s[i]) <= db.daily[d][k] BY <1>8 DEF TypesRead
    <3>2. Total(s[i]) \in Nat BY <1>8, FiniteDomains, UnitsFinite
    <3>3. db.daily[d][k] <= db'.daily[d][k] BY <1>2, <3>0
    <3>4. db.daily[d][k] \in Nat /\ db'.daily[d][k] \in Nat BY <1>3, <3>0
    <3> QED BY <3>1, <3>2, <3>3, <3>4
  <2> QED BY <2>1, Zenon DEF TypesRead
<1>9. TypesRead(5, "received")' /\ TypesRead(6, "sent")' /\ TypesRead(7, "failed")'
  <2>1. "received" \in Kinds /\ "sent" \in Kinds /\ "failed" \in Kinds BY DEF Kinds
  <2>2. /\ n >= 5 => s[5] \in [TypeKeys -> Nat]
        /\ n >= 6 => s[6] \in [TypeKeys -> Nat]
        /\ n >= 7 => s[7] \in [TypeKeys -> Nat]
    BY <1>0, SeenTyped
  <2>3. TypesRead(5, "received") /\ TypesRead(6, "sent") /\ TypesRead(7, "failed") BY DEF ReadInv
  <2>4. 5 \in {5, 6, 7} /\ 6 \in {5, 6, 7} /\ 7 \in {5, 6, 7} OBVIOUS
  <2> QED BY <2>1, <2>2, <2>3, <2>4, <1>8, Zenon
<1> QED BY <1>5, <1>6, <1>7, <1>9, Zenon DEF ReadInv

LEMMA ReadInvHolds == Spec => []ReadInv
<1>1. Init => ReadInv
  <2> SUFFICES ASSUME Init PROVE ReadInv OBVIOUS
  <2>1. db = EmptyTables /\ view = Closed BY Zenon DEF Init
  <2>2. \A d \in Days, k \in Kinds : db.daily[d][k] = 0 BY <2>1 DEF EmptyTables, None
  <2>3. Dated BY <2>2 DEF Dated
  <2>4. Len(view.seen) = 0 BY <2>1, EmptySeq DEF Closed
  <2> QED BY <2>3, <2>4 DEF ReadInv, TodayRead, TotalsRead, StateRead, TypesRead, TrendRead
<1>2. TypeInv /\ TypeInv' /\ TrafficAgrees /\ ReadInv /\ [Next]_vars => ReadInv'
  <2> SUFFICES ASSUME TypeInv, TypeInv', TrafficAgrees, ReadInv, [Next]_vars PROVE ReadInv' OBVIOUS
  <2>1. Dated' /\ \A d \in Days, k \in Kinds : db.daily[d][k] <= db'.daily[d][k]
    BY TablesGrow DEF ReadInv
  <2>2. CASE view' = view BY <2>1, <2>2, GrowthKeepsBounds
  <2>3. ASSUME NEW at, view' = [at |-> at, seen |-> <<>>] PROVE ReadInv'
    <3>1. Len(view'.seen) = 0 BY <2>3, EmptySeq
    <3> QED BY <2>1, <3>1 DEF ReadInv, TodayRead, TotalsRead, StateRead, TypesRead, TrendRead
  <2>4. CASE BuildStep /\ db' = db BY <2>4, BuildKeepsBounds
  <2>5. view' = Closed => ReadInv' BY <2>3 DEF Closed
  <2>6. view' = Opened => ReadInv' BY <2>3 DEF Opened
  <2> QED BY <2>2, <2>4, <2>5, <2>6, ViewSteps
<1>3. TablesInv => TrafficAgrees BY DEF TablesInv
<1> QED BY <1>1, <1>2, <1>3, TypeInvHolds, TablesInvHolds, PTL DEF Spec

LEMMA SeenIs ==
  ASSUME ViewTyped, Len(view.seen) = Len(Overview)
  PROVE  /\ Seen("today") = view.seen[1] /\ Seen("totals") = view.seen[2] /\ Seen("state") = view.seen[4]
         /\ Seen("received") = view.seen[5] /\ Seen("sent") = view.seen[6] /\ Seen("failed") = view.seen[7]
         /\ Seen("hourly") = view.seen[8]
<1>1. DOMAIN view.seen = 1 .. 9
  <2>1. view.seen \in Seq(Answers) BY DEF ViewTyped
  <2> QED BY <2>1, LenProperties, OverviewFacts
<1>2. ASSUME NEW st \in StatementNames, NEW j \in 1 .. 9, Overview[j] = st PROVE Seen(st) = view.seen[j]
  <2>1. \A i \in 1 .. 9 : Overview[i] = st => i = j BY <1>2 DEF Overview
  <2>2. (CHOOSE i \in DOMAIN view.seen : Overview[i] = st) = j BY <1>1, <1>2, <2>1
  <2> QED BY <2>2 DEF Seen
<1>3. /\ Overview[1] = "today" /\ Overview[2] = "totals" /\ Overview[4] = "state" /\ Overview[5] = "received"
      /\ Overview[6] = "sent" /\ Overview[7] = "failed" /\ Overview[8] = "hourly"
  BY DEF Overview
<1> QED BY <1>2, <1>3 DEF StatementNames

\* The numbers of one page fit together though other transactions commit between
\* its nine statements: totals cover today, types and hours cover what was read
\* before them, and what was received has a time and a connection.
THEOREM OverviewAlwaysFits == Spec => []OverviewFits
<1>1. TypeInv /\ ReadInv => OverviewFits
  <2> SUFFICES ASSUME TypeInv, ReadInv, Len(view.seen) = Len(Overview), NEW k \in Kinds
               PROVE  /\ Seen("totals")[k] >= Seen("today")[k]
                      /\ Total(Seen(k)) >= Seen("today")[k]
                      /\ Total([h \in Hours |-> Seen("hourly")[h][k]]) >= Total(Seen(k))
                      /\ Seen("today")[k] > 0 => Seen("state").last[k] # Never
                      /\ Seen("today")["received"] > 0 => Seen("state").connected # Never
    BY DEF OverviewFits
  <2> DEFINE s == view.seen
  <2>0. ViewTyped BY Zenon DEF TypeInv, TypeOK, ShapeInv, ViewTyped
  <2>1. Len(s) = 9 BY OverviewFacts
  <2>2. /\ Seen("today") = s[1] /\ Seen("totals") = s[2] /\ Seen("state") = s[4]
        /\ Seen("received") = s[5] /\ Seen("sent") = s[6] /\ Seen("failed") = s[7] /\ Seen("hourly") = s[8]
    BY <2>0, SeenIs
  <2>3. \A j \in Kinds : s[1][j] <= s[2][j] BY <2>1 DEF ReadInv, TotalsRead
  <2>4. \A j \in Kinds : s[1][j] > 0 => s[4].last[j] # Never /\ (j = "received" => s[4].connected # Never)
    BY <2>1 DEF ReadInv, StateRead
  <2>5. /\ s[1]["received"] <= Total(s[5]) /\ s[1]["sent"] <= Total(s[6]) /\ s[1]["failed"] <= Total(s[7])
    BY <2>1 DEF ReadInv, TypesRead
  <2>6. /\ Total(s[5]) <= Total([h \in Hours |-> s[8][h]["received"]])
        /\ Total(s[6]) <= Total([h \in Hours |-> s[8][h]["sent"]])
        /\ Total(s[7]) <= Total([h \in Hours |-> s[8][h]["failed"]])
    BY <2>1 DEF ReadInv, TrendRead
  <2>7. "received" \in Kinds BY DEF Kinds
  <2>8. k \in {"received", "sent", "failed"} BY DEF Kinds
  <2> HIDE DEF s
  <2>9. s[1][k] <= Total(Seen(k)) /\ Total(Seen(k)) <= Total([h \in Hours |-> s[8][h][k]])
    BY <2>2, <2>5, <2>6, <2>8
  <2>10. s[1] \in [Kinds -> Nat] /\ s[2] \in [Kinds -> Nat] BY <2>0, <2>1, SeenTyped DEF s
  <2> QED BY <2>2, <2>3, <2>4, <2>7, <2>9
<1> QED BY <1>1, TypeInvHolds, ReadInvHolds, PTL

-----------------------------------------------------------------------------
(* Latencies.  Every hour that is recorded, that an owed record still holds   *)
(* or that a pending call has waited until now is one of the hours of waiting. *)

OwedLatencies(rows) == [i \in Slots |-> rows[i].latency]
Waits(calls, t) == [c \in Chats |-> IF calls[c] = Never THEN 0 ELSE t - calls[c]]

WaitInv == db.latencySum["sum"] + Total(OwedLatencies(owed)) + Total(Waits(call, now)) <= waiting

LEMMA SlotsFinite == IsFiniteSet(Slots) /\ IsFiniteSet(Chats)
BY CollectorConstants, FS_Interval DEF Slots

LEMMA LatenciesTyped ==
  ASSUME NEW rows \in ImmersiveRows
  PROVE  OwedLatencies(rows) \in [Slots -> Nat] /\ Total(OwedLatencies(rows)) \in Nat
<1>1. \A i \in Slots : rows[i] \in ImmersiveRecords \cup {Nothing} BY DEF ImmersiveRows
<1>2. \A r \in ImmersiveRecords \cup {Nothing} : r.latency \in Nat BY TimeFacts DEF ImmersiveRecords, Nothing
<1>3. OwedLatencies(rows) \in [Slots -> Nat] BY <1>1, <1>2 DEF OwedLatencies
<1> QED BY <1>3, SlotsFinite, UnitsFinite

LEMMA WaitsTyped ==
  ASSUME NEW calls, NEW t \in Time, Called(calls, t)
  PROVE  Waits(calls, t) \in [Chats -> Nat] /\ Total(Waits(calls, t)) \in Nat
<1>1. t \in Nat BY TimeFacts
<1>2. \A c \in Chats : calls[c] # Never => calls[c] \in Nat /\ calls[c] <= t BY TimeFacts DEF Called
<1>3. Waits(calls, t) \in [Chats -> Nat] BY <1>1, <1>2 DEF Waits
<1> QED BY <1>3, SlotsFinite, UnitsFinite

\* Records that measured nothing leave the sum of what is owed.
LEMMA OweNothing ==
  ASSUME TypeInv, NEW records, Unmeasured(records), Owe(records)
  PROVE  Total(OwedLatencies(owed')) = Total(OwedLatencies(owed))
<1>1. records \in Seq(ImmersiveRecords) /\ \A j \in DOMAIN records : records[j].latency = 0 BY DEF Unmeasured
<1>2. /\ \A i \in Slots : owed'[i] = IF i - immersive \in DOMAIN records THEN records[i - immersive] ELSE owed[i]
      /\ \A j \in DOMAIN records : immersive + j \in Slots /\ owed[immersive + j] = Nothing
  BY <1>1, OweTyped
<1>3. ASSUME NEW i \in Slots PROVE owed'[i].latency = owed[i].latency
  <2>1. CASE i - immersive \in DOMAIN records
    <3>1. immersive \in Nat /\ i \in Nat BY DEF TypeInv, ShapeInv, Filled, Slots
    <3>2. immersive + (i - immersive) = i BY <3>1
    <3>3. owed[i] = Nothing BY <2>1, <3>2, <1>2
    <3>4. owed[i].latency = 0 BY <3>3 DEF Nothing
    <3> QED BY <2>1, <3>4, <1>1, <1>2
  <2>2. CASE i - immersive \notin DOMAIN records BY <2>2, <1>2
  <2> QED BY <2>1, <2>2
<1>4. OwedLatencies(owed') = OwedLatencies(owed) BY <1>3 DEF OwedLatencies
<1> QED BY <1>4

\* The one record that measured a wait raises it by that wait.
LEMMA OweOne ==
  ASSUME TypeInv, NEW records \in Seq(ImmersiveRecords), Owe(records), NEW j \in DOMAIN records,
         \A k \in DOMAIN records : k # j => records[k].latency = 0
  PROVE  Total(OwedLatencies(owed')) = Total(OwedLatencies(owed)) + records[j].latency
<1>1. /\ Filled(owed', immersive')
      /\ \A i \in Slots : owed'[i] = IF i - immersive \in DOMAIN records THEN records[i - immersive] ELSE owed[i]
      /\ \A k \in DOMAIN records : immersive + k \in Slots /\ owed[immersive + k] = Nothing
  BY OweTyped
<1>2. immersive \in Nat /\ owed \in ImmersiveRows /\ owed' \in ImmersiveRows BY <1>1 DEF TypeInv, ShapeInv, Filled
<1>3. Len(records) \in Nat /\ DOMAIN records = 1 .. Len(records) BY LenProperties
<1>4. records[j] \in ImmersiveRecords BY <1>3, LenProperties
<1>5. records[j].latency \in Nat BY <1>4, TimeFacts DEF ImmersiveRecords
<1> DEFINE x == immersive + j
           f == OwedLatencies(owed)
           g == OwedLatencies(owed')
<1>6. x \in Slots /\ x - immersive = j BY <1>1, <1>2, <1>3
<1>7. f \in [Slots -> Nat] /\ g \in [Slots -> Nat] BY <1>2, LatenciesTyped
<1>8. \A i \in Slots : f[i] = owed[i].latency /\ g[i] = owed'[i].latency BY DEF OwedLatencies
<1> HIDE DEF f, g
<1>9. g[x] = f[x] + records[j].latency
  <2>1. owed[x] = Nothing BY <1>1
  <2>2. f[x] = 0 BY <2>1, <1>6, <1>8 DEF Nothing
  <2>3. g[x] = records[j].latency BY <1>1, <1>6, <1>8
  <2> QED BY <2>2, <2>3, <1>5
<1>10. ASSUME NEW i \in Slots \ {x} PROVE g[i] = f[i]
  <2>1. CASE i - immersive \in DOMAIN records
    <3>1. i \in Nat BY DEF Slots
    <3>2. immersive + (i - immersive) = i /\ i - immersive # j BY <3>1, <1>2, <1>3
    <3>3. owed[i] = Nothing BY <2>1, <3>2, <1>1
    <3>4. f[i] = 0 BY <3>3, <1>8 DEF Nothing
    <3>5. g[i] = records[i - immersive].latency BY <2>1, <1>1, <1>8
    <3>6. records[i - immersive].latency = 0 BY <2>1, <3>2
    <3> QED BY <3>4, <3>5, <3>6
  <2>2. CASE i - immersive \notin DOMAIN records BY <2>2, <1>1, <1>8
  <2> QED BY <2>1, <2>2
<1> DEFINE n == records[j].latency
<1>11. Total(g) = Total(f) + n
  <2>1. n \in Nat /\ g[x] = f[x] + n BY <1>5, <1>9
  <2>2. x \in Slots /\ \A i \in Slots \ {x} : g[i] = f[i] BY <1>6, <1>10
  <2> HIDE DEF x, n
  <2> QED BY <2>1, <2>2, <1>7, SlotsFinite, TotalRaised, SMTT(60)
<1> QED BY <1>11 DEF f, g, n

\* A delivery owes the wait of the pending call once, and nothing if none is.
LEMMA DeliveryOwes ==
  ASSUME TypeInv, NEW chat \in Chats, NEW at \in Lifetime, NEW question \in BOOLEAN, NEW replied \in BOOLEAN,
         Owe(Delivery(chat, at, question, replied))
  PROVE  Total(OwedLatencies(owed'))
           = Total(OwedLatencies(owed)) + IF call[chat] = Never THEN 0 ELSE Latency(chat, at)
<1> DEFINE A == FollowUp(question)
           B == Wait(chat, at)
           C == Outcome(replied)
           AB == A \o B
           records == AB \o C
<1>1. Unmeasured(A) /\ Unmeasured(C) /\ B \in Seq(ImmersiveRecords) BY DeliveryTyped
<1>2. A \in Seq(ImmersiveRecords) /\ C \in Seq(ImmersiveRecords) BY <1>1 DEF Unmeasured
<1>a. Len(A) \in Nat /\ Len(B) \in Nat /\ Len(C) \in Nat
        /\ DOMAIN A = 1 .. Len(A) /\ DOMAIN B = 1 .. Len(B) /\ DOMAIN C = 1 .. Len(C)
  BY <1>1, <1>2, LenProperties
<1>o. Owe(records) BY Zenon DEF Delivery
<1>w. B = IF call[chat] # Never THEN <<Immersive({}, Latency(chat, at))>> ELSE <<>> BY DEF Wait
<1> HIDE DEF A, B, C
<1>3. /\ AB \in Seq(ImmersiveRecords) /\ Len(AB) = Len(A) + Len(B)
      /\ \A i \in 1 .. Len(AB) : AB[i] = IF i <= Len(A) THEN A[i] ELSE B[i - Len(A)]
  BY <1>1, <1>2, ConcatProperties, LenProperties
<1> HIDE DEF AB
<1>4. /\ records \in Seq(ImmersiveRecords) /\ Len(records) = Len(AB) + Len(C)
      /\ \A i \in 1 .. Len(records) : records[i] = IF i <= Len(AB) THEN AB[i] ELSE C[i - Len(AB)]
  <2>1. AB \in Seq(ImmersiveRecords) /\ C \in Seq(ImmersiveRecords) BY <1>2, <1>3
  <2> QED BY <2>1, ConcatProperties, LenProperties
<1> HIDE DEF records
<1>5. DOMAIN records = 1 .. Len(A) + Len(B) + Len(C) BY <1>3, <1>4, LenProperties
<1>6. \A i \in DOMAIN A : A[i].latency = 0 BY <1>1 DEF Unmeasured
<1>7. \A i \in DOMAIN C : C[i].latency = 0 BY <1>1 DEF Unmeasured
<1>8. ASSUME NEW i \in DOMAIN records, i <= Len(A) \/ Len(A) + Len(B) < i PROVE records[i].latency = 0
  <2>0. i \in Nat /\ i \in 1 .. Len(records) BY <1>3, <1>4, <1>5, <1>a
  <2>1. CASE i <= Len(A)
    <3>1. i \in 1 .. Len(AB) /\ i <= Len(AB) /\ i \in DOMAIN A BY <2>0, <2>1, <1>3, <1>a, <1>5
    <3>2. records[i] = A[i] BY <2>0, <2>1, <3>1, <1>3, <1>4
    <3> QED BY <3>1, <3>2, <1>6
  <2>2. CASE Len(A) + Len(B) < i
    <3>1. ~(i <= Len(AB)) /\ i - Len(AB) \in DOMAIN C BY <2>0, <2>2, <1>3, <1>a, <1>5
    <3>2. records[i] = C[i - Len(AB)] BY <2>0, <3>1, <1>4
    <3> QED BY <3>1, <3>2, <1>7
  <2> QED BY <1>8, <2>1, <2>2
<1>9. CASE call[chat] = Never
  <2>1. Len(B) = 0 BY <1>9, <1>w, EmptySeq
  <2>2. \A i \in DOMAIN records : i <= Len(A) \/ Len(A) + Len(B) < i BY <2>1, <1>5, <1>a
  <2>3. Unmeasured(records) BY <2>2, <1>4, <1>8 DEF Unmeasured
  <2>4. Total(OwedLatencies(owed')) = Total(OwedLatencies(owed)) BY <2>3, <1>o, OweNothing
  <2>5. Total(OwedLatencies(owed)) \in Nat BY LatenciesTyped DEF TypeInv, ShapeInv, Filled
  <2> QED BY <2>4, <2>5, <1>9
<1>10. CASE call[chat] # Never
  <2> DEFINE j == Len(A) + 1
  <2>1. B = <<Immersive({}, Latency(chat, at))>> BY <1>10, <1>w
  <2>2. Len(B) = 1 /\ B[1].latency = Latency(chat, at) BY <2>1 DEF Immersive
  <2>3. j \in DOMAIN records /\ j \in 1 .. Len(AB) /\ j \in 1 .. Len(records) BY <2>2, <1>3, <1>4, <1>5, <1>a
  <2>4. records[j] = B[1]
    <3>1. records[j] = AB[j] BY <2>2, <2>3, <1>3, <1>4, <1>a
    <3>2. ~(j <= Len(A)) /\ j - Len(A) = 1 BY <1>a
    <3>3. AB[j] = B[j - Len(A)] BY <2>3, <3>2, <1>3
    <3> QED BY <3>1, <3>2, <3>3
  <2>5. \A k \in DOMAIN records : k # j => k <= Len(A) \/ Len(A) + Len(B) < k BY <2>2, <1>5, <1>a
  <2> HIDE DEF j
  <2>6. \A k \in DOMAIN records : k # j => records[k].latency = 0 BY <2>5, <1>8
  <2>7. Total(OwedLatencies(owed')) = Total(OwedLatencies(owed)) + records[j].latency BY <2>3, <2>6, <1>4, <1>o, OweOne
  <2> QED BY <2>2, <2>4, <2>7, <1>10
<1> QED BY <1>9, <1>10

\* A chat that forgets its call gives back what the call has waited.
LEMMA WaitsFall ==
  ASSUME TypeInv, NEW chat \in Chats
  PROVE  /\ Total(Waits(call, now))
              = Total(Waits(Forget(chat), now)) + IF call[chat] = Never THEN 0 ELSE now - call[chat]
         /\ Total(Waits(Forget(chat), now)) \in Nat
<1> DEFINE f == Waits(Forget(chat), now)
           g == Waits(call, now)
           n == IF call[chat] = Never THEN 0 ELSE now - call[chat]
<1>1. now \in Time /\ Called(call, now) BY DEF TypeInv, TypeOK, ShapeInv
<1>2. Called(Forget(chat), now) BY <1>1, CalledExcept DEF Forget
<1>3. f \in [Chats -> Nat] /\ g \in [Chats -> Nat] /\ Total(f) \in Nat BY <1>1, <1>2, WaitsTyped
<1>4. call \in [Chats -> Time \cup {Never}] BY <1>1 DEF Called
<1>5. \A c \in Chats : Forget(chat)[c] = IF c = chat THEN Never ELSE call[c] BY <1>4 DEF Forget
<1>6. f[chat] = 0 /\ (\A c \in Chats \ {chat} : g[c] = f[c]) /\ g[chat] = n BY <1>5 DEF Waits
<1> HIDE DEF f, g, n
<1>7. n \in Nat /\ g[chat] = f[chat] + n BY <1>3, <1>6
<1>8. Total(g) = Total(f) + n BY <1>3, <1>6, <1>7, SlotsFinite, TotalRaised
<1> QED BY <1>3, <1>8 DEF f, g, n

LEMMA WaitInvHolds == Spec => []WaitInv
<1>1. Init => WaitInv
  <2> SUFFICES ASSUME Init PROVE WaitInv OBVIOUS
  <2>1. now = 0 /\ waiting = 0 /\ call = NoCalls /\ owed = NothingOwed /\ db = EmptyTables BY Zenon DEF Init
  <2>2. db.latencySum["sum"] = 0 BY <2>1 DEF EmptyTables, NoLatency, Measures
  <2>3. Total(OwedLatencies(owed)) = 0
    <3>1. OwedLatencies(owed) = [i \in Slots |-> 0] BY <2>1 DEF OwedLatencies, NothingOwed, Nothing
    <3> QED BY <3>1, TotalZero
  <2>4. Total(Waits(call, now)) = 0
    <3>1. Waits(call, now) = [c \in Chats |-> 0] BY <2>1 DEF Waits, NoCalls
    <3> QED BY <3>1, TotalZero
  <2> QED BY <2>1, <2>2, <2>3, <2>4 DEF WaitInv
<1>2. TypeInv /\ TypeInv' /\ WaitInv /\ [Next]_vars => WaitInv'
  <2> SUFFICES ASSUME TypeInv, TypeInv', WaitInv, [Next]_vars PROVE WaitInv' OBVIOUS
  <2> DEFINE base == db.latencySum["sum"]
             measured == Total(OwedLatencies(owed))
             pending == Total(Waits(call, now))
  <2>0. db \in Tables /\ now \in Time /\ waiting \in Nat /\ Called(call, now) /\ owed \in ImmersiveRows
    BY DEF TypeInv, TypeOK, ShapeInv, Filled
  <2>1. base \in Nat
    <3>1. db.latencySum \in [Measures -> Nat] /\ "sum" \in Measures BY <2>0 DEF Tables, Measures
    <3> QED BY <3>1
  <2>2. measured \in Nat /\ pending \in Nat BY <2>0, LatenciesTyped, WaitsTyped
  <2>3. base + measured + pending <= waiting BY DEF WaitInv
  <2>n. now \in Nat BY <2>0, TimeFacts
  <2> DEFINE base2 == db'.latencySum["sum"]
             measured2 == Total(OwedLatencies(owed'))
             pending2 == Total(Waits(call', now'))
  <2>4. base2 + measured2 + pending2 <= waiting' => WaitInv' BY DEF WaitInv
  <2>5. ASSUME UNCHANGED <<now, call, owed, waiting>>, db'.latencySum = db.latencySum PROVE WaitInv'
    BY <2>3, <2>5 DEF WaitInv
  <2>6. ASSUME NEW r \in TrafficRecords, TrafficStep(r) PROVE WaitInv'
    <3>1. db' = Whole(db, r) BY <2>6 DEF TrafficStep
    <3>2. db'.latencySum = db.latencySum BY <3>1, <2>0, TrafficFields
    <3>3. UNCHANGED <<now, call, owed, waiting>> BY <2>6, Zenon DEF TrafficStep
    <3> QED BY <3>2, <3>3, <2>5
  <2>7. ASSUME NEW i \in Slots, ImmersiveStep(i) PROVE WaitInv'
    <3> DEFINE r == owed[i]
    <3>1. /\ r \in ImmersiveRecords /\ owed' = [owed EXCEPT ![i] = Nothing] /\ (db' = Whole(db, r) \/ db' = db)
          /\ now' = now /\ call' = call /\ waiting' = waiting
      BY <2>7, OwedTyped DEF ImmersiveStep, TypeInv
    <3>2. r.latency \in Nat BY <3>1, TimeFacts DEF ImmersiveRecords
    <3>3. measured = measured2 + r.latency /\ measured2 \in Nat
      <4> DEFINE f == OwedLatencies(owed')
                 g == OwedLatencies(owed)
      <4>1. owed' \in ImmersiveRows BY DEF TypeInv, ShapeInv, Filled
      <4>2. f \in [Slots -> Nat] /\ g \in [Slots -> Nat] /\ Total(f) \in Nat BY <4>1, <2>0, LatenciesTyped
      <4>3. \A k \in Slots : owed'[k] = IF k = i THEN Nothing ELSE owed[k] BY <3>1, <2>0 DEF ImmersiveRows
      <4>4. f[i] = 0 /\ g[i] = r.latency /\ \A k \in Slots \ {i} : g[k] = f[k] BY <4>3 DEF OwedLatencies, Nothing
      <4> HIDE DEF f, g, r
      <4>5. g[i] = f[i] + r.latency BY <4>4, <3>2
      <4>6. Total(g) = Total(f) + r.latency BY <3>2, <4>2, <4>4, <4>5, SlotsFinite, TotalRaised
      <4> QED BY <4>2, <4>6 DEF f, g
    <3>4. pending2 = pending BY <3>1
    <3> HIDE DEF r
    <3>5. base2 = base \/ base2 = base + r.latency
      <4>1. CASE db' = db BY <4>1
      <4>2. CASE db' = Whole(db, r)
        <5>1. \A m \in Measures : db'.latencySum[m] = db.latencySum[m] + Measured(r.latency)[m]
          BY <3>1, <4>2, <2>0, ImmersiveValues
        <5>2. "sum" \in Measures /\ Measured(r.latency)["sum"] = r.latency BY DEF Measures, Measured
        <5> QED BY <5>1, <5>2
      <4> QED BY <3>1, <4>1, <4>2
    <3> HIDE DEF base, measured, pending, base2, measured2, pending2
    <3>6. base2 + measured2 + pending2 <= waiting BY <2>0, <2>1, <2>2, <2>3, <3>2, <3>3, <3>4, <3>5
    <3> QED BY <3>1, <3>6, <2>4
  <2>8. ASSUME db' = db, Engine PROVE WaitInv'
    <3>b. base2 = base BY <2>8
    <3>1. ASSUME NEW chat \in Chats, NEW at \in Lifetime, NoteStrongCall(chat, at) PROVE WaitInv'
      <4>1. /\ now' = now /\ owed' = owed /\ call' = [call EXCEPT ![chat] = Coalesce(call[chat], at)]
            /\ waiting' = waiting + IF call[chat] = Never THEN now - at ELSE 0
        BY <3>1, Zenon DEF NoteStrongCall
      <4>2. at \in Nat /\ at <= now /\ at # Never BY LifetimeTyped
      <4>3. call \in [Chats -> Time \cup {Never}] BY <2>0 DEF Called
      <4>4. pending2 = pending + IF call[chat] = Never THEN now - at ELSE 0
        <5>1. CASE call[chat] = Never
          <6> DEFINE f == Waits(call, now)
                     g == Waits(call', now)
                     n == now - at
          <6>1. Called(call', now) BY <4>1 DEF TypeInv, ShapeInv
          <6>2. f \in [Chats -> Nat] /\ g \in [Chats -> Nat] BY <6>1, <2>0, WaitsTyped
          <6>3. \A c \in Chats : call'[c] = IF c = chat THEN at ELSE call[c] BY <4>1, <4>3, <5>1 DEF Coalesce
          <6>4. f[chat] = 0 /\ g[chat] = n /\ \A c \in Chats \ {chat} : g[c] = f[c]
            BY <6>3, <5>1, <4>2 DEF Waits
          <6>5. n \in Nat BY <4>2, <2>n
          <6> HIDE DEF f, g, n
          <6>6. g[chat] = f[chat] + n BY <6>4, <6>5
          <6>7. Total(g) = Total(f) + n BY <6>2, <6>4, <6>5, <6>6, SlotsFinite, TotalRaised
          <6> QED BY <6>7, <5>1, <4>1 DEF f, g, n
        <5>2. CASE call[chat] # Never
          <6>1. call' = call BY <4>1, <4>3, <5>2 DEF Coalesce
          <6>2. pending2 = pending BY <6>1, <4>1
          <6> HIDE DEF pending, pending2
          <6> QED BY <6>2, <5>2, <2>2
        <5> QED BY <5>1, <5>2
      <4>5. measured2 = measured BY <4>1
      <4> HIDE DEF base, measured, pending, base2, measured2, pending2
      <4>6. base2 + measured2 + pending2 <= waiting'
        BY <4>1, <4>2, <4>4, <4>5, <3>b, <2>0, <2>1, <2>2, <2>3, <2>n
      <4> QED BY <4>6, <2>4
    <3>2. ASSUME NEW chat \in Chats, NEW at \in Lifetime, NEW question \in BOOLEAN, NEW replied \in BOOLEAN,
                 Deliver(chat, at, question, replied)
          PROVE  WaitInv'
      <4>1. Owe(Delivery(chat, at, question, replied))
        BY <3>2, Zenon DEF Deliver, Delivery, FollowUp, Wait, Outcome
      <4>2. now' = now /\ waiting' = waiting /\ call' = Forget(chat)
        BY <3>2, Zenon DEF Deliver, CallResolved, Forget
      <4> DEFINE n == IF call[chat] = Never THEN 0 ELSE now - call[chat]
                 m == IF call[chat] = Never THEN 0 ELSE Latency(chat, at)
      <4>3. n \in Nat /\ m \in Nat /\ m <= n BY WaitTyped
      <4>4. measured2 = measured + m BY <4>1, DeliveryOwes
      <4>5. pending = pending2 + n /\ pending2 \in Nat BY <4>2, WaitsFall
      <4> HIDE DEF base, measured, pending, base2, measured2, pending2, n, m
      <4>6. base2 + measured2 + pending2 <= waiting' BY <4>2, <4>3, <4>4, <4>5, <3>b, <2>0, <2>1, <2>2, <2>3
      <4> QED BY <4>6, <2>4
    <3>f. ASSUME NEW chat \in Chats, now' = now, waiting' = waiting, measured2 = measured,
                 call' = call \/ call' = Forget(chat)
          PROVE  WaitInv'
      <4> DEFINE n == IF call[chat] = Never THEN 0 ELSE now - call[chat]
      <4>1. n \in Nat
        <5>1. call[chat] # Never => call[chat] \in Nat /\ call[chat] <= now BY <2>0, TimeFacts DEF Called
        <5> QED BY <5>1, <2>n
      <4>2. call' = call => pending2 = pending BY <3>f
      <4>3. call' = Forget(chat) => pending = pending2 + n /\ pending2 \in Nat BY <3>f, WaitsFall
      <4> HIDE DEF base, measured, pending, base2, measured2, pending2, n
      <4>4. pending2 \in Nat /\ pending2 <= pending BY <4>1, <4>2, <4>3, <3>f, <2>2
      <4>5. base2 + measured2 + pending2 <= waiting' BY <4>4, <3>f, <3>b, <2>0, <2>1, <2>2, <2>3
      <4> QED BY <4>5, <2>4
    <3>3. ASSUME NEW chat \in Chats, NEW marks \in Observations, Observe(chat, marks) PROVE WaitInv'
      <4>1. Owe(<<Immersive(marks, 0)>>) /\ now' = now /\ waiting' = waiting BY <3>3, Zenon DEF Observe
      <4>2. Unmeasured(<<Immersive(marks, 0)>>) BY ObservationsAssumption, UnmeasuredOne
      <4>3. measured2 = measured BY <4>1, <4>2, OweNothing
      <4>4. call' = call \/ call' = Forget(chat) BY <3>3 DEF Observe
      <4> QED BY <4>1, <4>3, <4>4, <3>f
    <3>4. ASSUME NEW chat \in Chats, Clear(chat) PROVE WaitInv'
      <4>1. now' = now /\ waiting' = waiting /\ owed' = owed /\ call' = Forget(chat) BY <3>4, Zenon DEF Clear
      <4>2. measured2 = measured BY <4>1
      <4> QED BY <4>1, <4>2, <3>f
    <3>5. ASSUME NEW i \in Slots, RecordImmersive(i) PROVE WaitInv'
      <4>1. ImmersiveStep(i) BY <3>5, Settled, Zenon DEF RecordImmersive, ImmersiveStep, bounds
      <4> QED BY <4>1, <2>7
    <3> QED BY <2>8, <3>1, <3>2, <3>3, <3>4, <3>5, Zenon DEF Engine
  <2>9. ASSUME db' = db, Process PROVE WaitInv'
    <3>b. base2 = base BY <2>9
    <3>1. CASE Tick
      <4> DEFINE S == {c \in Chats : call[c] # Never}
                 f == Waits(call, now)
                 one == [c \in Chats |-> IF c \in S THEN 1 ELSE 0]
      <4>1. now' = now + 1 /\ waiting' = waiting + Cardinality(S) /\ owed' = owed /\ call' = call
        BY <3>1, Zenon DEF Tick
      <4>2. f \in [Chats -> Nat] /\ one \in [Chats -> Nat] BY <2>0, WaitsTyped
      <4>3. Plus(f, one) = Waits(call, now + 1)
        <5>1. \A c \in Chats : call[c] # Never => call[c] \in Nat BY <2>0, TimeFacts DEF Called
        <5>2. Plus(f, one) = [c \in Chats |-> f[c] + one[c]] BY <4>2 DEF Plus
        <5>3. \A c \in Chats : f[c] + one[c] = IF call[c] = Never THEN 0 ELSE (now + 1) - call[c]
          BY <5>1, <2>n DEF Waits
        <5> HIDE DEF f, one
        <5> QED BY <5>2, <5>3 DEF Waits
      <4>4. Total(one) = Cardinality(S)
        <5>1. S \in SUBSET Chats OBVIOUS
        <5> HIDE DEF S
        <5> QED BY <5>1, SlotsFinite, TotalOnes
      <4>5. Cardinality(S) \in Nat BY PendingCount
      <4> HIDE DEF one
      <4>6. Total(Plus(f, one)) = Total(f) + Total(one) BY <4>2, SlotsFinite, TotalPlus
      <4>7. pending2 = pending + Cardinality(S) BY <4>1, <4>3, <4>4, <4>6
      <4>8. measured2 = measured BY <4>1
      <4> HIDE DEF base, measured, pending, base2, measured2, pending2, S
      <4>9. base2 + measured2 + pending2 <= waiting' BY <4>1, <4>5, <4>7, <4>8, <3>b, <2>0, <2>1, <2>2, <2>3
      <4> QED BY <4>9, <2>4
    <3>2. CASE SetBotStartedAt
      <4>1. UNCHANGED <<now, call, owed, waiting>> BY <3>2, Zenon DEF SetBotStartedAt
      <4>2. db'.latencySum = db.latencySum BY <2>9
      <4> QED BY <4>1, <4>2, <2>5
    <3>3. CASE Restart
      <4>1. now' = now /\ waiting' = waiting /\ call' = NoCalls /\ owed' = NothingOwed BY <3>3, Zenon DEF Restart
      <4>2. measured2 = 0
        <5>1. OwedLatencies(owed') = [i \in Slots |-> 0] BY <4>1 DEF OwedLatencies, NothingOwed, Nothing
        <5> QED BY <5>1, TotalZero
      <4>3. pending2 = 0
        <5>1. Waits(call', now') = [c \in Chats |-> 0] BY <4>1 DEF Waits, NoCalls
        <5> QED BY <5>1, TotalZero
      <4> HIDE DEF base, measured, pending, base2, measured2, pending2
      <4>4. base2 + measured2 + pending2 <= waiting' BY <4>1, <4>2, <4>3, <3>b, <2>0, <2>1, <2>2, <2>3
      <4> QED BY <4>4, <2>4
    <3> QED BY <2>9, <3>1, <3>2, <3>3, Zenon DEF Process
  <2>10. Handlers \/ Dashboard \/ UNCHANGED vars => UNCHANGED <<now, call, owed, waiting>>
    BY Zenon DEF Handlers, RecordInbound, RecordOutbound, Dashboard, OpenOverview, BuildOverview, CloseOverview, vars
  <2>11. CASE db' = db
    <3>1. db'.latencySum = db.latencySum BY <2>11
    <3> QED BY <2>11, <3>1, <2>5, <2>8, <2>9, <2>10, Zenon DEF Next
  <2> QED BY <2>6, <2>7, <2>11, TableSteps, Zenon DEF TypeInv
<1> QED BY <1>1, <1>2, TypeInvHolds, PTL DEF Spec

\* No wait is measured twice: the latencies recorded by all chats together never
\* exceed the hours the chats have waited for an answer.
THEOREM LatencyIsWaiting == Spec => []LatencyWithinWaiting
<1>1. TypeInv /\ WaitInv => LatencyWithinWaiting
  <2> SUFFICES ASSUME TypeInv, WaitInv PROVE db.latencySum["sum"] <= waiting BY DEF LatencyWithinWaiting
  <2>1. db \in Tables /\ now \in Time /\ waiting \in Nat /\ Called(call, now) /\ owed \in ImmersiveRows
    BY DEF TypeInv, TypeOK, ShapeInv, Filled
  <2>2. db.latencySum \in [Measures -> Nat] /\ "sum" \in Measures BY <2>1 DEF Tables, Measures
  <2>3. db.latencySum["sum"] \in Nat BY <2>2
  <2>4. Total(OwedLatencies(owed)) \in Nat /\ Total(Waits(call, now)) \in Nat BY <2>1, LatenciesTyped, WaitsTyped
  <2>5. db.latencySum["sum"] + Total(OwedLatencies(owed)) + Total(Waits(call, now)) <= waiting BY DEF WaitInv
  <2> DEFINE a == db.latencySum["sum"]
             b == Total(OwedLatencies(owed))
             c == Total(Waits(call, now))
  <2> HIDE DEF a, b, c
  <2> QED BY <2>1, <2>3, <2>4, <2>5 DEF a, b, c
<1> QED BY <1>1, TypeInvHolds, WaitInvHolds, PTL

\* No step takes a message back: a failed transaction, a restart and a new day
\* leave every count of every day at least where it was.
THEOREM CountsNeverFall == Spec => [][CountsGrow]_vars
<1>1. TypeInv /\ ReadInv /\ [Next]_vars => [CountsGrow]_vars BY TablesGrow DEF CountsGrow, ReadInv
<1> QED BY <1>1, TypeInvHolds, ReadInvHolds, PTL DEF Spec

=============================================================================

---------------------------- MODULE StatusPageProofs ----------------------------
(***************************************************************************)
(* The page, for every set of services, groups, streams, polls and days:   *)
(* the types of all tables, what a stream learns is what the table says, a *)
(* move takes a service past its neighbour and no other, and a degraded    *)
(* headline stands above a bar that is not green.                          *)
(***************************************************************************)
EXTENDS StatusPage, FiniteSetTheorems, WellFoundedInduction, TLAPS

-----------------------------------------------------------------------------
(* The last of a finite set, by any order.                                 *)

LEMMA LessIsWellFounded == IsWellFoundedOn({p \in Nat \X Nat : p[1] < p[2]}, Nat)
  BY NatLessThanWellFounded DEF OpToRel

LEMMA Smallest ==
    ASSUME NEW S \in SUBSET Nat, S # {}
    PROVE  \E m \in S : \A k \in S : m <= k
<1> DEFINE R == {p \in Nat \X Nat : p[1] < p[2]}
<1>1. IsWellFoundedOn(R, Nat)
  BY LessIsWellFounded
<1>2. \A m, k \in Nat : <<k, m>> \in R <=> k < m
  OBVIOUS
<1> HIDE DEF R
<1>3. PICK m \in S : \A k \in S : ~ (<<k, m>> \in R)
  BY <1>1, WFMin
<1>4. ASSUME NEW k \in S PROVE m <= k
  <2>1. ~ (k < m)
    BY <1>2, <1>3
  <2>2. QED
    BY <2>1
<1>5. QED
  BY <1>4

\* A strict order on a finite set has a minimal member.
LEMMA Minimal ==
    ASSUME NEW S, IsFiniteSet(S), S # {}, NEW R,
           \A a \in S : <<a, a>> \notin R,
           \A a, b, c \in S : <<a, b>> \in R /\ <<b, c>> \in R => <<a, c>> \in R
    PROVE  \E m \in S : \A o \in S : <<o, m>> \notin R
<1> DEFINE Below(m) == {o \in S : <<o, m>> \in R}
           rank == [m \in S |-> Cardinality(Below(m))]
           T == {rank[o] : o \in S}
<1>1. \A m \in S : Below(m) \in SUBSET S /\ IsFiniteSet(Below(m)) /\ Cardinality(Below(m)) \in Nat
  BY FS_Subset, FS_CardinalityType
<1> HIDE DEF Below
<1>2. PICK k \in T : \A l \in T : k <= l
  <2>1. T \in SUBSET Nat /\ T # {}
    BY <1>1
  <2> HIDE DEF T
  <2>2. QED
    BY <2>1, Smallest
<1>3. PICK m \in S : \A o \in S : rank[m] <= rank[o]
  BY <1>2
<1>4. ASSUME NEW o \in S, <<o, m>> \in R
      PROVE  FALSE
  <2>1. Below(o) \in SUBSET Below(m) /\ Below(o) # Below(m)
    BY <1>4 DEF Below
  <2>2. Cardinality(Below(o)) <= Cardinality(Below(m)) /\ Cardinality(Below(o)) # Cardinality(Below(m))
    BY <2>1, <1>1, FS_Subset
  <2>3. QED
    BY <2>2, <1>1, <1>3
<1>5. QED
  BY <1>4

LEMMA Largest ==
    ASSUME NEW S \in SUBSET Nat, IsFiniteSet(S), S # {}
    PROVE  \E m \in S : \A k \in S : k <= m
<1> DEFINE R == {p \in Nat \X Nat : p[2] < p[1]}
<1>1. \A a, b \in S : <<a, b>> \in R <=> b < a
  OBVIOUS
<1> HIDE DEF R
<1>2. /\ \A a \in S : <<a, a>> \notin R
      /\ \A a, b, c \in S : <<a, b>> \in R /\ <<b, c>> \in R => <<a, c>> \in R
  BY <1>1
<1>3. PICK m \in S : \A o \in S : <<o, m>> \notin R
  BY <1>2, Minimal
<1>4. ASSUME NEW k \in S PROVE k <= m
  <2>1. ~ (m < k)
    BY <1>1, <1>3
  <2>2. QED
    BY <2>1
<1>5. QED
  BY <1>4

\* The group "none" is the last one.
LEMMA NoGroupIsLast == NoGroup \in Groups /\ \A g \in Groups : g <= NoGroup
<1>1. Groups \in SUBSET Nat /\ IsFiniteSet(Groups) /\ Groups # {}
  BY CatalogueAssumption
<1>2. \E g \in Groups : \A h \in Groups : h <= g
  BY <1>1, Largest
<1>3. QED
  BY <1>2 DEF NoGroup

-----------------------------------------------------------------------------
(* The order of the page is a strict total order.                          *)

LEMMA BeforeIsOrder ==
    ASSUME NEW s \in [Names -> Service]
    PROVE  /\ \A a \in Names : ~Before(s, a, a)
           /\ \A a, b, c \in Names : Before(s, a, b) /\ Before(s, b, c) => Before(s, a, c)
           /\ \A a, b \in Names : a # b => (Before(s, a, b) <=> ~Before(s, b, a))
<1>1. \A a \in Names : a \in Nat /\ s[a].group \in Nat /\ s[a].order \in Nat
  BY CatalogueAssumption DEF Service
<1>2. \A a \in Names : ~Before(s, a, a)
  BY <1>1 DEF Before
<1>3. ASSUME NEW a \in Names, NEW b \in Names, NEW c \in Names, Before(s, a, b), Before(s, b, c)
      PROVE  Before(s, a, c)
  BY <1>1, <1>3 DEF Before
<1>4. ASSUME NEW a \in Names, NEW b \in Names, a # b
      PROVE  Before(s, a, b) <=> ~Before(s, b, a)
  BY <1>1, <1>4 DEF Before
<1>5. QED
  BY <1>2, <1>3, <1>4

Side(s, n, upward) == IF upward THEN Ahead(s, n) ELSE Behind(s, n)

\* The neighbour of a move exists, and nothing is between.
LEMMA NearestIsNext ==
    ASSUME NEW s \in [Names -> Service], NEW n \in Names, NEW upward \in BOOLEAN, Side(s, n, upward) # {}
    PROVE  LET side == Side(s, n, upward) m == Nearest(s, n, side) IN
           /\ m \in side
           /\ \A o \in side : o = m \/ (Before(s, o, m) <=> Before(s, m, n))
<1> DEFINE side == Side(s, n, upward)
           R == {p \in Names \X Names : IF upward THEN Before(s, p[2], p[1]) ELSE Before(s, p[1], p[2])}
<1>1. side \in SUBSET Names /\ IsFiniteSet(side) /\ side # {}
  BY FS_Subset, CatalogueAssumption DEF Side, Ahead, Behind, Group
<1>2. \A a, b \in Names : <<a, b>> \in R <=> IF upward THEN Before(s, b, a) ELSE Before(s, a, b)
  OBVIOUS
<1> HIDE DEF R
<1>3. /\ \A a \in side : <<a, a>> \notin R
      /\ \A a, b, c \in side : <<a, b>> \in R /\ <<b, c>> \in R => <<a, c>> \in R
  <2> HIDE DEF side
  <2>1. QED
    BY <1>1, <1>2, BeforeIsOrder
<1>4. PICK m \in side : \A o \in side : <<o, m>> \notin R
  <2> HIDE DEF side
  <2>1. QED
    BY <1>1, <1>3, Minimal
<1>5. \A o \in side : Before(s, o, n) <=> upward
  BY BeforeIsOrder DEF Side, Ahead, Behind, Group
<1>6. ASSUME NEW o \in side, o # m
      PROVE  Before(s, o, m) <=> Before(s, m, n)
  <2> HIDE DEF side
  <2>1. o \in Names /\ m \in Names /\ (Before(s, m, n) <=> upward)
    BY <1>1, <1>5
  <2>2. Before(s, o, m) <=> ~Before(s, m, o)
    BY <2>1, <1>6, BeforeIsOrder
  <2>3. ~(IF upward THEN Before(s, m, o) ELSE Before(s, o, m))
    BY <2>1, <1>2, <1>4
  <2>4. QED
    BY <2>1, <2>2, <2>3
<1>7. \E x \in side : \A o \in side : o = x \/ (Before(s, o, x) <=> Before(s, x, n))
  BY <1>6
<1>8. QED
  BY <1>7 DEF Nearest

-----------------------------------------------------------------------------
(* The newest row.                                                         *)

Row == [Days -> Statuses \cup {Silent}]

Newest(row) ==
    LET rows == {d \in Days : row[d] # Silent}
    IN IF rows = {} THEN Silent ELSE row[CHOOSE d \in rows : \A e \in rows : e <= d]

LEMMA CurrentIsNewest == \A n : Current(n) = Newest(status[n])
  BY DEF Current, Newest

LEMMA NewestCases ==
    ASSUME NEW row \in Row
    PROVE  \/ (\A d \in Days : row[d] = Silent) /\ Newest(row) = Silent
           \/ \E d \in Days : /\ row[d] # Silent /\ Newest(row) = row[d]
                              /\ \A e \in Days : row[e] # Silent => e <= d
<1> DEFINE rows == {d \in Days : row[d] # Silent}
<1>1. CASE rows = {}
  BY <1>1 DEF Newest
<1>2. CASE rows # {}
  <2>1. rows \in SUBSET Days /\ Days \in SUBSET Nat /\ IsFiniteSet(Days)
    BY EventsAssumption, FS_Interval DEF Days
  <2>2. IsFiniteSet(rows)
    BY <2>1, FS_Subset
  <2>3. \E d \in rows : \A e \in rows : e <= d
    <3> HIDE DEF rows
    <3>1. QED
      BY <2>1, <2>2, <1>2, Largest
  <2> DEFINE last == CHOOSE d \in rows : \A e \in rows : e <= d
  <2>4. last \in rows /\ \A e \in rows : e <= last
    BY <2>3
  <2>5. Newest(row) = row[last]
    BY <1>2 DEF Newest
  <2>6. QED
    BY <2>4, <2>5
<1>3. QED
  BY <1>1, <1>2

LEMMA NewestType == \A row \in Row : Newest(row) \in Statuses \cup {Silent}
  BY NewestCases DEF Row

LEMMA NewestIs ==
    ASSUME NEW row \in Row, NEW d \in Days, row[d] # Silent, \A e \in Days : e > d => row[e] = Silent
    PROVE  Newest(row) = row[d]
<1>1. PICK l \in Days : row[l] # Silent /\ Newest(row) = row[l] /\ \A e \in Days : row[e] # Silent => e <= l
  BY NewestCases
<1>2. d <= l /\ ~(l > d) /\ d \in Int /\ l \in Int
  BY <1>1, EventsAssumption DEF Days
<1>3. QED
  BY <1>1, <1>2

-----------------------------------------------------------------------------
(* What a stream tells.                                                    *)

\* The changes of a poll, in some order, each once.
LEMMA SetToSeqListsAll ==
    ASSUME NEW S, IsFiniteSet(S)
    PROVE  /\ SetToSeq(S) \in Seq(S)
           /\ \A x \in S : \E i \in DOMAIN SetToSeq(S) : SetToSeq(S)[i] = x
           /\ \A i, j \in DOMAIN SetToSeq(S) : SetToSeq(S)[i] = SetToSeq(S)[j] => i = j
<1> DEFINE c == Cardinality(S)
<1>1. c \in Nat /\ ExistsBijection(1..c, S)
  BY FS_CardinalityType
<1>2. \E f \in [1..c -> S] : IsInjective(f)
  BY <1>1 DEF ExistsBijection, Bijection, Injection
<1>3. SetToSeq(S) \in [1..c -> S] /\ IsInjective(SetToSeq(S))
  BY <1>2 DEF SetToSeq
<1>4. SetToSeq(S) \in Injection(1..c, S)
  BY <1>3 DEF Injection
<1>5. IsFiniteSet(1..c) /\ Cardinality(1..c) = c
  BY <1>1, FS_Interval
<1>6. SetToSeq(S) \in Surjection(1..c, S)
  <2> HIDE DEF c
  <2>1. Cardinality(S) = c
    BY DEF c
  <2>2. QED
    BY <1>4, <1>5, <2>1, FS_Injection
<1>7. SetToSeq(S) \in Seq(S)
  BY <1>1, <1>3
<1>8. QED
  BY <1>3, <1>6, <1>7 DEF IsInjective, Surjection

\* The last event about a service counts, and before any the page itself.
LEMMA ToldCases ==
    ASSUME NEW s, s.queue \in Seq(Change), NEW n
    PROVE  \/ (\A k \in DOMAIN s.queue : s.queue[k].name # n) /\ Told(s, n) = s.told[n]
           \/ \E k \in DOMAIN s.queue : /\ s.queue[k].name = n /\ Told(s, n) = s.queue[k].status
                                        /\ \A j \in DOMAIN s.queue : s.queue[j].name = n => j <= k
<1> DEFINE about == {k \in DOMAIN s.queue : s.queue[k].name = n}
<1>1. CASE about = {}
  BY <1>1 DEF Told
<1>2. CASE about # {}
  <2>1. about \in SUBSET (1..Len(s.queue)) /\ Len(s.queue) \in Nat
    OBVIOUS
  <2>2. IsFiniteSet(about) /\ about \in SUBSET Nat
    BY <2>1, FS_Interval, FS_Subset
  <2>3. \E k \in about : \A j \in about : j <= k
    <3> HIDE DEF about
    <3>1. QED
      BY <2>2, <1>2, Largest
  <2> DEFINE last == CHOOSE k \in about : \A j \in about : j <= k
  <2>4. last \in about /\ \A j \in about : j <= last
    BY <2>3
  <2>5. Told(s, n) = s.queue[last].status
    BY <1>2 DEF Told
  <2>6. QED
    BY <2>4, <2>5
<1>3. QED
  BY <1>1, <1>2

LEMMA ToldByPage ==
    ASSUME NEW s, s.queue \in Seq(Change), NEW n, \A k \in DOMAIN s.queue : s.queue[k].name # n
    PROVE  Told(s, n) = s.told[n]
  BY ToldCases

LastAbout(q, n, k) == k \in DOMAIN q /\ q[k].name = n /\ \A j \in DOMAIN q : q[j].name = n => j <= k

LEMMA ToldByEvent ==
    ASSUME NEW s, s.queue \in Seq(Change), NEW n, NEW k, LastAbout(s.queue, n, k)
    PROVE  Told(s, n) = s.queue[k].status
<1> USE DEF LastAbout
<1>1. PICK l \in DOMAIN s.queue : /\ s.queue[l].name = n /\ Told(s, n) = s.queue[l].status
                                  /\ \A j \in DOMAIN s.queue : s.queue[j].name = n => j <= l
  BY ToldCases
<1>2. k <= l /\ l <= k /\ k \in Int /\ l \in Int
  BY <1>1
<1>3. QED
  BY <1>1, <1>2

\* Reading an event tells nothing new.
LEMMA ReadingKeeps ==
    ASSUME NEW s \in Stream, s.queue # <<>>, NEW n \in Names, NEW t \in Stream,
           t.queue = Tail(s.queue),
           t.told = [s.told EXCEPT ![Head(s.queue).name] = Head(s.queue).status]
    PROVE  Told(t, n) = Told(s, n)
<1> DEFINE q == s.queue r == t.queue len == Len(q)
<1>1. q \in Seq(Change) /\ r \in Seq(Change) /\ r = Tail(q) /\ q # <<>>
      /\ t.told = [s.told EXCEPT ![Head(q).name] = Head(q).status]
      /\ s.told \in [Names -> Statuses \cup {Silent}]
  BY DEF Stream
<1> HIDE DEF q, r
<1>2. /\ len \in Nat \ {0} /\ DOMAIN q = 1..len /\ DOMAIN r = 1..(len - 1)
      /\ \A k \in 1..(len - 1) : r[k] = q[k + 1]
      /\ t.told = [s.told EXCEPT ![q[1].name] = q[1].status]
  BY <1>1
<1> HIDE DEF len
<1>3. CASE (\A k \in DOMAIN q : q[k].name # n) /\ Told(s, n) = s.told[n]
  <2>1. \A k \in DOMAIN r : r[k].name # n
    <3>1. \A k \in DOMAIN r : k + 1 \in DOMAIN q /\ r[k] = q[k + 1]
      BY <1>2
    <3>2. QED
      BY <3>1, <1>3
  <2>2. Told(t, n) = t.told[n]
    BY <1>1, <2>1, ToldByPage DEF r
  <2>3. 1 \in DOMAIN q
    BY <1>2
  <2>4. t.told[n] = s.told[n]
    BY <1>1, <1>2, <1>3, <2>3
  <2>5. QED
    BY <2>2, <2>4, <1>3
<1>4. ASSUME NEW k \in DOMAIN q, q[k].name = n, Told(s, n) = q[k].status,
             \A j \in DOMAIN q : q[j].name = n => j <= k
      PROVE  Told(t, n) = Told(s, n)
  <2>1. CASE k > 1
    <3> DEFINE l == k - 1
    <3>1. l \in DOMAIN r /\ r[l] = q[k]
      BY <1>2, <2>1
    <3>2. ASSUME NEW j \in DOMAIN r, r[j].name = n
          PROVE  j <= l
      <4>1. j + 1 \in DOMAIN q /\ r[j] = q[j + 1]
        BY <1>2
      <4>2. j + 1 <= k
        BY <4>1, <3>2, <1>4
      <4>3. QED
        BY <4>2, <1>2
    <3> HIDE DEF l
    <3>3. LastAbout(r, n, l)
      BY <1>4, <3>1, <3>2 DEF LastAbout
    <3>4. Told(t, n) = r[l].status
      <4>1. t.queue \in Seq(Change) /\ LastAbout(t.queue, n, l)
        BY <1>1, <3>3 DEF r
      <4>2. Told(t, n) = t.queue[l].status
        BY ONLY <4>1, ToldByEvent
      <4>3. QED
        BY <4>2 DEF r
    <3>5. QED
      BY <1>4, <3>1, <3>4
  <2>2. CASE k = 1
    <3>1. \A j \in DOMAIN r : r[j].name # n
      BY <1>2, <1>4, <2>2
    <3>2. Told(t, n) = t.told[n]
      BY <1>1, <3>1, ToldByPage DEF r
    <3>3. t.told[n] = q[1].status
      BY <1>1, <1>2, <1>4, <2>2
    <3>4. QED
      BY <3>2, <3>3, <1>4, <2>2
  <2>3. QED
    BY <2>1, <2>2, <1>2
<1>5. QED
  BY <1>1, <1>3, <1>4, ToldCases DEF q

\* What is put into the queue tells what its event about a service says.
OncePerName(q) == \A i, j \in DOMAIN q : q[i].name = q[j].name => i = j

LEMMA QueueingTells ==
    ASSUME NEW s \in Stream, NEW q \in Seq(Change), NEW n \in Names, NEW t \in Stream,
           t.queue = s.queue \o q, t.told = s.told, OncePerName(q)
    PROVE  /\ (\A i \in DOMAIN q : q[i].name # n) => Told(t, n) = Told(s, n)
           /\ \A i \in DOMAIN q : q[i].name = n => Told(t, n) = q[i].status
<1> USE DEF OncePerName
<1> DEFINE old == s.queue all == t.queue len == Len(s.queue)
<1>1. old \in Seq(Change) /\ all \in Seq(Change) /\ all = old \o q /\ len = Len(old)
  BY DEF Stream
<1> HIDE DEF old, all, len
<1>2. /\ len \in Nat /\ Len(q) \in Nat
      /\ DOMAIN old = 1..len /\ DOMAIN q = 1..Len(q) /\ DOMAIN all = 1..(len + Len(q))
      /\ \A k \in DOMAIN old : all[k] = old[k]
      /\ \A k \in DOMAIN q : all[len + k] = q[k]
  BY <1>1
<1>3. \A k \in DOMAIN all : k \in DOMAIN old \/ (k - len \in DOMAIN q /\ all[k] = q[k - len])
  BY <1>2
<1>4. \A k \in DOMAIN old : k \in DOMAIN all
  BY <1>2
<1>5. ASSUME \A i \in DOMAIN q : q[i].name # n
      PROVE  Told(t, n) = Told(s, n)
  <2>1. \A k \in DOMAIN all : all[k].name = n => k \in DOMAIN old /\ old[k].name = n
    BY <1>2, <1>3, <1>5
  <2>2. CASE (\A k \in DOMAIN old : old[k].name # n) /\ Told(s, n) = s.told[n]
    <3>1. \A k \in DOMAIN all : all[k].name # n
      BY <2>1, <2>2
    <3>2. Told(t, n) = t.told[n]
      BY <1>1, <3>1, ToldByPage DEF all
    <3>3. QED
      BY <3>2, <2>2
  <2>3. ASSUME NEW k \in DOMAIN old, old[k].name = n, Told(s, n) = old[k].status,
               \A j \in DOMAIN old : old[j].name = n => j <= k
        PROVE  Told(t, n) = Told(s, n)
    <3>1. k \in DOMAIN all /\ all[k] = old[k] /\ \A j \in DOMAIN all : all[j].name = n => j <= k
      BY <1>2, <1>4, <2>1, <2>3
    <3>2. LastAbout(all, n, k)
      BY <2>3, <3>1 DEF LastAbout
    <3>3. Told(t, n) = all[k].status
      BY <1>1, <3>2, ToldByEvent DEF all
    <3>4. QED
      BY <2>3, <3>1, <3>3
  <2>4. QED
    BY <1>1, <2>2, <2>3, ToldCases DEF old
<1>6. ASSUME NEW i \in DOMAIN q, q[i].name = n
      PROVE  Told(t, n) = q[i].status
  <2> DEFINE k == len + i
  <2>1. k \in DOMAIN all /\ all[k] = q[i]
    BY <1>2
  <2>2. ASSUME NEW j \in DOMAIN all, all[j].name = n
        PROVE  j <= k
    <3>1. CASE j \in DOMAIN old
      BY <1>2, <3>1
    <3>2. CASE j - len \in DOMAIN q /\ all[j] = q[j - len]
      <4>1. j - len = i
        BY <1>6, <2>2, <3>2
      <4>2. QED
        BY <4>1, <1>2
    <3>3. QED
      BY <1>3, <3>1, <3>2
  <2> HIDE DEF k
  <2>3. LastAbout(all, n, k)
    BY <1>6, <2>1, <2>2 DEF LastAbout
  <2>4. Told(t, n) = all[k].status
    BY <1>1, <2>3, ToldByEvent DEF all
  <2>5. QED
    BY <2>1, <2>4
<1>7. QED
  BY <1>5, <1>6

-----------------------------------------------------------------------------
(* The catalogue keeps its types.                                          *)

LEMMA ActsCounts == ASSUME acts \in 0..MaxEvents, Acts PROVE acts' \in 0..MaxEvents
  BY CatalogueAssumption DEF Acts

\* A move under way is that of a service its SELECT found in the table.
MoverKnown == \A q \in Movers : mover[q].at = "move" => mover[q].name \in Names /\ mover[q].seen[mover[q].name].known

LEMMA UnknownType == Unknown \in Service
  BY NoGroupIsLast DEF Unknown, Service

LEMMA KnownType ==
    ASSUME NEW s \in [Names -> Service], NEW found
    PROVE  /\ Known(s, found) \in [Names -> Service]
           /\ \A n \in Names : Known(s, found)[n] = [s[n] EXCEPT !.known = s[n].known \/ n \in found]
<1>1. \A n \in Names : [s[n] EXCEPT !.known = s[n].known \/ n \in found] \in Service
  BY DEF Service
<1>2. QED
  BY <1>1 DEF Known

\* A service may be changed in its group and in its switches.
LEMMA FieldTypes ==
    ASSUME NEW s \in [Names -> Service], \A o \in Names : s[o].enabled => s[o].known, NEW n \in Names
    PROVE  /\ \A g \in Groups : LET t == [Known(s, {n}) EXCEPT ![n].group = g] IN
                  t \in [Names -> Service] /\ \A o \in Names : t[o].enabled => t[o].known
           /\ LET t == [Known(s, {n}) EXCEPT ![n].enabled = ~@] IN
                  t \in [Names -> Service] /\ \A o \in Names : t[o].enabled => t[o].known
           /\ LET t == [Known(s, {n}) EXCEPT ![n].uptime = ~@] IN
                  t \in [Names -> Service] /\ \A o \in Names : t[o].enabled => t[o].known
<1> DEFINE k == Known(s, {n})
<1>1. k \in [Names -> Service]
  BY KnownType
<1>2. ASSUME NEW o \in Names
      PROVE  k[o].enabled = s[o].enabled /\ (k[o].known <=> s[o].known \/ o = n)
  <2>1. s[o] \in Service /\ DOMAIN s[o] = {"known", "enabled", "uptime", "group", "order"}
    BY DEF Service
  <2>2. k[o] = [s[o] EXCEPT !.known = s[o].known \/ o \in {n}]
    BY KnownType
  <2>3. k[o].enabled = s[o].enabled /\ k[o].known = (s[o].known \/ o \in {n})
    BY <2>1, <2>2
  <2>4. QED
    BY <2>1, <2>3 DEF Service
<1> HIDE DEF k
<1>3. k[n] \in Service /\ k[n].known
  BY <1>1, <1>2
<1>4. ASSUME NEW r \in Service, r.known
      PROVE  [k EXCEPT ![n] = r] \in [Names -> Service] /\ \A o \in Names : [k EXCEPT ![n] = r][o].enabled => [k EXCEPT ![n] = r][o].known
  BY <1>1, <1>2, <1>4
<1>5. \A g \in Groups : [k[n] EXCEPT !.group = g] \in Service /\ [k[n] EXCEPT !.group = g].known
  BY <1>3 DEF Service
<1>6. /\ [k[n] EXCEPT !.enabled = ~k[n].enabled] \in Service /\ [k[n] EXCEPT !.enabled = ~k[n].enabled].known
      /\ [k[n] EXCEPT !.uptime = ~k[n].uptime] \in Service /\ [k[n] EXCEPT !.uptime = ~k[n].uptime].known
  BY <1>3 DEF Service
<1>7. /\ \A g \in Groups : [k EXCEPT ![n].group = g] = [k EXCEPT ![n] = [k[n] EXCEPT !.group = g]]
      /\ [k EXCEPT ![n].enabled = ~@] = [k EXCEPT ![n] = [k[n] EXCEPT !.enabled = ~k[n].enabled]]
      /\ [k EXCEPT ![n].uptime = ~@] = [k EXCEPT ![n] = [k[n] EXCEPT !.uptime = ~k[n].uptime]]
  BY <1>1
<1>8. QED
  BY <1>4, <1>5, <1>6, <1>7 DEF k

LEMMA SpreadType ==
    ASSUME NEW s \in [Names -> Service], NEW n \in Names, NEW m \in Names
    PROVE  Spread(s, n, m) \in [Names -> Service]
<1>1. ASSUME NEW o \in Names
      PROVE  [s[o] EXCEPT !.order = 10 * Cardinality(Ahead(s, o))] \in Service
  <2>1. Ahead(s, o) \in SUBSET Names
    BY DEF Ahead, Group
  <2>2. Cardinality(Ahead(s, o)) \in Nat
    BY <2>1, CatalogueAssumption, FS_Subset, FS_CardinalityType
  <2>3. 10 * Cardinality(Ahead(s, o)) \in Nat
    BY <2>2
  <2>4. QED
    BY <2>3 DEF Service
<1>2. QED
  BY <1>1 DEF Spread

LEMMA MovedType ==
    ASSUME NEW s \in [Names -> Service], NEW n \in Names, NEW upward \in BOOLEAN
    PROVE  Moved(s, n, upward) \in [Names -> Service]
<1> DEFINE side == Side(s, n, upward) m == Nearest(s, n, side) t == Spread(s, n, m)
<1>1. Moved(s, n, upward) = IF side = {} THEN s ELSE [t EXCEPT ![n].order = t[m].order, ![m].order = t[n].order]
  BY DEF Moved, Side
<1>2. CASE side = {}
  BY <1>1, <1>2
<1>3. CASE side # {}
  <2>1. m \in Names
    <3>1. m \in side
      BY <1>3, NearestIsNext
    <3>2. side \subseteq Names
      BY DEF Side, Ahead, Behind, Group
    <3>3. QED
      BY <3>1, <3>2
  <2>2. t \in [Names -> Service]
    BY <2>1, SpreadType
  <2> HIDE DEF side, m, t
  <2>3. [t EXCEPT ![n].order = t[m].order, ![m].order = t[n].order] \in [Names -> Service]
    BY <2>1, <2>2 DEF Service
  <2>4. QED
    BY <1>1, <1>3, <2>3
<1>4. QED
  BY <1>2, <1>3

LEMMA CatalogueStarts ==
    ASSUME CatalogueInit
    PROVE  CatalogueTypeOK /\ MoverKnown
<1>1. svc \in [Names -> Service] /\ \A n \in Names : svc[n].enabled => svc[n].known
  <2>1. \A n \in Names : [Unknown EXCEPT !.known = TRUE, !.enabled = TRUE, !.order = OldOrder[n]] \in Service
    BY UnknownType, CatalogueAssumption DEF Service
  <2>2. \A n \in Names : [Unknown EXCEPT !.known = TRUE, !.enabled = TRUE, !.order = OldOrder[n]].known = TRUE
    BY DEF Unknown
  <2>3. Unknown.enabled = FALSE
    BY DEF Unknown
  <2>4. QED
    BY <2>1, <2>2, <2>3, UnknownType DEF CatalogueInit
<1>2. Resting \in [at: {"idle", "move"}, name: Names \cup {0}, up: BOOLEAN, seen: [Names -> Service]]
  BY UnknownType DEF Resting
<1>3. mover \in [Movers -> [at: {"idle", "move"}, name: Names \cup {0}, up: BOOLEAN, seen: [Names -> Service]]]
  BY <1>2 DEF CatalogueInit
<1>4. MoverKnown
  BY DEF CatalogueInit, MoverKnown, Resting
<1>5. acts \in 0..MaxEvents
  <2>1. acts = 0
    BY DEF CatalogueInit
  <2>2. QED
    BY <2>1, CatalogueAssumption
<1>6. QED
  BY <1>1, <1>3, <1>4, <1>5 DEF CatalogueInit, CatalogueTypeOK

LEMMA EndMoveType ==
    ASSUME CatalogueTypeOK, MoverKnown, NEW q \in Movers, EndMove(q)
    PROVE  /\ svc' \in [Names -> Service]
           /\ \A n \in Names : svc'[n].enabled => svc'[n].known
<1> DEFINE seen == mover[q].seen
           new == Moved(seen, mover[q].name, mover[q].up)
<1>1. seen \in [Names -> Service] /\ mover[q].name \in Names /\ mover[q].up \in BOOLEAN
  BY DEF CatalogueTypeOK, MoverKnown, EndMove
<1>2. new \in [Names -> Service]
  BY <1>1, MovedType
<1>3. svc' = [n \in Names |-> IF new[n].order # seen[n].order THEN [svc[n] EXCEPT !.order = new[n].order] ELSE svc[n]]
  BY DEF EndMove
<1> HIDE DEF new, seen
<1>4. \A n \in Names : /\ [svc[n] EXCEPT !.order = new[n].order] \in Service
                       /\ [svc[n] EXCEPT !.order = new[n].order].enabled = svc[n].enabled
                       /\ [svc[n] EXCEPT !.order = new[n].order].known = svc[n].known
  <2>1. \A n \in Names : svc[n] \in Service /\ new[n].order \in Nat
    BY <1>2 DEF CatalogueTypeOK, Service
  <2>2. QED
    BY <2>1 DEF Service
<1>5. QED
  BY <1>3, <1>4 DEF CatalogueTypeOK

LEMMA CatalogueSteps ==
    ASSUME CatalogueTypeOK, MoverKnown, CatalogueNext
    PROVE  CatalogueTypeOK' /\ MoverKnown'
<1> USE DEF CatalogueTypeOK
<1>1. ASSUME NEW q \in Movers, NEW n \in Names, NEW upward \in BOOLEAN, StartMove(q, n, upward)
      PROVE  CatalogueTypeOK' /\ MoverKnown'
  BY <1>1, ActsCounts DEF StartMove, MoverKnown
<1>2. ASSUME NEW q \in Movers, EndMove(q)
      PROVE  CatalogueTypeOK' /\ MoverKnown'
  <2>1. Resting \in [at: {"idle", "move"}, name: Names \cup {0}, up: BOOLEAN, seen: [Names -> Service]]
        /\ Resting.at = "idle"
    BY UnknownType DEF Resting
  <2>2. MoverKnown'
    BY <1>2, <2>1 DEF EndMove, MoverKnown
  <2>3. QED
    BY <1>2, <2>1, <2>2, EndMoveType DEF EndMove
<1>3. ASSUME NEW n \in Names, NEW g \in Groups, SetGroup(n, g)
      PROVE  CatalogueTypeOK' /\ MoverKnown'
  <2>1. svc' = [Known(svc, {n}) EXCEPT ![n].group = g]
    BY <1>3 DEF SetGroup, Grouped
  <2>2. svc' \in [Names -> Service] /\ \A o \in Names : svc'[o].enabled => svc'[o].known
    BY <2>1, FieldTypes
  <2>3. QED
    BY <1>3, <2>2, ActsCounts DEF SetGroup, MoverKnown
<1>4. ASSUME NEW n \in Names, NEW g \in Groups, SetCheckGroup(n, g)
      PROVE  CatalogueTypeOK' /\ MoverKnown'
  <2>1. svc' \in [Names -> Service] /\ \A o \in Names : svc'[o].enabled => svc'[o].known
    BY <1>4, CatalogueAssumption DEF SetCheckGroup, Service
  <2>2. QED
    BY <1>4, <2>1, ActsCounts DEF SetCheckGroup, MoverKnown
<1>5. ASSUME NEW n \in Names, ToggleService(n)
      PROVE  CatalogueTypeOK' /\ MoverKnown'
  <2>1. svc' = [Known(svc, {n}) EXCEPT ![n].enabled = ~@]
    BY <1>5 DEF ToggleService
  <2>2. svc' \in [Names -> Service] /\ \A o \in Names : svc'[o].enabled => svc'[o].known
    BY <2>1, FieldTypes
  <2>3. QED
    BY <1>5, <2>2, ActsCounts DEF ToggleService, MoverKnown
<1>6. ASSUME NEW n \in Names, ToggleUptime(n)
      PROVE  CatalogueTypeOK' /\ MoverKnown'
  <2>1. svc' = [Known(svc, {n}) EXCEPT ![n].uptime = ~@]
    BY <1>6 DEF ToggleUptime, Displayed
  <2>2. svc' \in [Names -> Service] /\ \A o \in Names : svc'[o].enabled => svc'[o].known
    BY <2>1, FieldTypes
  <2>3. QED
    BY <1>6, <2>2, ActsCounts DEF ToggleUptime, MoverKnown
<1>7. ASSUME NEW l \in SystemSources \cup OtherSources, SaveLabel(l) \/ DeleteLabel(l)
      PROVE  CatalogueTypeOK' /\ MoverKnown'
  BY <1>7, ActsCounts DEF SaveLabel, Relabelled, DeleteLabel, catalogue, MoverKnown
<1>8. ASSUME NEW l \in SystemLevels \cup CustomLevels, CreateLevel(l) \/ UpdateLevel(l) \/ DeleteLevel(l)
      PROVE  CatalogueTypeOK' /\ MoverKnown'
  BY <1>8, ActsCounts DEF CreateLevel, UpdateLevel, DeleteLevel, MayChange, MoverKnown
<1>9. QED
  BY <1>1, <1>2, <1>3, <1>4, <1>5, <1>6, <1>7, <1>8 DEF CatalogueNext

-----------------------------------------------------------------------------
(* The statuses, polls and streams keep their types.                       *)

PollType == [at: {"idle", "asking", "writing", "publishing"}, day: Days, names: SUBSET Names,
             old: [Names -> Statuses \cup {Silent}], found: [Names -> Health \cup {Silent}],
             changes: SUBSET Change]
PageType == [at: {"connecting", "open", "waiting", "given up"}, attempts: 0..MaxAttempts]

\* A poll finds finitely many changes, so its events have an order.
ChangesFinite == \A p \in Polls : IsFiniteSet(poll[p].changes)

TypesInv == EventsTypeOK /\ MoverKnown /\ ChangesFinite

LEMMA CatalogueStays ==
    ASSUME CatalogueTypeOK, MoverKnown, UNCHANGED catalogue, acts' \in 0..MaxEvents
    PROVE  CatalogueTypeOK' /\ MoverKnown'
  BY DEF CatalogueTypeOK, MoverKnown, catalogue

LEMMA ServicesAreKnown ==
    ASSUME CatalogueTypeOK, MoverKnown, NEW found, svc' = Known(svc, found),
           UNCHANGED <<mover, levels, labels>>, acts' \in 0..MaxEvents
    PROVE  CatalogueTypeOK' /\ MoverKnown'
<1>1. svc' \in [Names -> Service]
  BY KnownType DEF CatalogueTypeOK
<1>2. ASSUME NEW n \in Names, svc'[n].enabled
      PROVE  svc'[n].known
  <2>1. svc[n] \in Service /\ DOMAIN svc[n] = {"known", "enabled", "uptime", "group", "order"}
        /\ (svc[n].enabled => svc[n].known)
    BY DEF CatalogueTypeOK, Service
  <2>2. svc'[n] = [svc[n] EXCEPT !.known = svc[n].known \/ n \in found]
    BY KnownType DEF CatalogueTypeOK
  <2>3. svc'[n].enabled = svc[n].enabled /\ svc'[n].known = (svc[n].known \/ n \in found)
    BY <2>1, <2>2
  <2>4. QED
    BY <2>1, <2>3, <1>2 DEF Service
<1>3. QED
  BY <1>1, <1>2 DEF CatalogueTypeOK, MoverKnown

LEMMA MeaningType == \A raw : Meaning(raw) \in Statuses
  BY DEF Meaning, Statuses

LEMMA MappedType == \A p, n : Mapped(p, n) \in Statuses
  BY MeaningType DEF Mapped, Statuses

LEMMA NoPollType == NoPoll \in PollType /\ NoPoll.at = "idle" /\ NoPoll.changes = {}
  BY EventsAssumption DEF NoPoll, PollType, Days

LEMMA UpsertType ==
    ASSUME NEW s \in [Names -> Row], NEW names \in SUBSET Names, NEW d \in Days, NEW to \in [names -> Statuses]
    PROVE  Upsert(s, names, d, to) \in [Names -> Row]
  BY DEF Upsert, Row

LEMMA CurrentType ==
    ASSUME status \in [Names -> Row]
    PROVE  [n \in Names |-> Current(n)] \in [Names -> Statuses \cup {Silent}]
  BY CurrentIsNewest, NewestType

\* The changes a poll finds: one for each service at most.
LEMMA FoundChanges ==
    ASSUME NEW S \in SUBSET Names, NEW f \in [S -> Statuses]
    PROVE  LET cs == {[name |-> n, status |-> f[n]] : n \in S} IN
           IsFiniteSet(cs) /\ cs \in SUBSET Change /\ \A c, e \in cs : c.name = e.name => c = e
<1> DEFINE cs == {[name |-> n, status |-> f[n]] : n \in S}
           g == [n \in S |-> [name |-> n, status |-> f[n]]]
<1>1. g \in Surjection(S, cs)
  BY DEF Surjection
<1>2. IsFiniteSet(S)
  BY CatalogueAssumption, FS_Subset
<1>3. IsFiniteSet(cs)
  <2> HIDE DEF g, cs
  <2>1. QED
    BY <1>1, <1>2, FS_Surjection
<1>4. cs \in SUBSET Change /\ \A c, e \in cs : c.name = e.name => c = e
  BY DEF Change
<1>5. QED
  BY <1>3, <1>4

LEMMA PollTypes ==
    ASSUME TypesInv, NEW p \in Polls, NEW r \in PollType, IsFiniteSet(r.changes), poll' = [poll EXCEPT ![p] = r]
    PROVE  poll' \in [Polls -> PollType] /\ ChangesFinite'
  BY DEF TypesInv, EventsTypeOK, PollType, ChangesFinite

LEMMA EventsStart ==
    ASSUME EventsInit
    PROVE  TypesInv
<1>1. CatalogueTypeOK /\ MoverKnown
  BY CatalogueStarts DEF EventsInit
<1>2. day \in Days /\ health \in [Names -> Health \cup {Silent}] /\ status \in [Names -> Row]
  BY EventsAssumption DEF EventsInit, Days, Row, Statuses
<1>3. poll \in [Polls -> PollType] /\ ChangesFinite
  BY NoPollType, FS_EmptySet DEF EventsInit, ChangesFinite
<1>4. page \in [Pages -> PageType]
  BY EventsAssumption DEF EventsInit, NoPage, PageType
<1>5. up \in BOOLEAN /\ bus \subseteq Stream /\ excused \subseteq Names
  BY DEF EventsInit
<1>6. QED
  BY <1>1, <1>2, <1>3, <1>4, <1>5 DEF TypesInv, EventsTypeOK, PollType, PageType, Row

LEMMA PollSteps ==
    ASSUME TypesInv, NEW p \in Polls, Poll(p)
    PROVE  TypesInv'
<1>1. /\ CatalogueTypeOK /\ MoverKnown /\ ChangesFinite /\ day \in Days /\ health \in [Names -> Health \cup {Silent}]
      /\ status \in [Names -> Row] /\ poll \in [Polls -> PollType] /\ up \in BOOLEAN
      /\ page \in [Pages -> PageType] /\ bus \subseteq Stream /\ excused \subseteq Names
      /\ acts \in 0..MaxEvents /\ IsFiniteSet(poll[p].changes) /\ poll[p] \in PollType
  BY DEF TypesInv, EventsTypeOK, PollType, PageType, Row, ChangesFinite, CatalogueTypeOK
<1>2. SUFFICES /\ CatalogueTypeOK' /\ MoverKnown' /\ ChangesFinite' /\ status' \in [Names -> Row]
               /\ poll' \in [Polls -> PollType] /\ bus' \subseteq Stream /\ excused' \subseteq Names
               /\ UNCHANGED <<day, health, up, page>>
  BY <1>1 DEF TypesInv, EventsTypeOK, PollType, PageType, Row
<1>3. CASE PollReads(p)
  <2> DEFINE r == [NoPoll EXCEPT !.at = "asking", !.day = day, !.names = Enabled,
                                 !.old = [n \in Names |-> status[n][day]]]
  <2>1. r \in PollType /\ r.changes = {}
    <3>1. [n \in Names |-> status[n][day]] \in [Names -> Statuses \cup {Silent}] /\ Enabled \subseteq Names
      BY <1>1 DEF Row, Enabled
    <3>2. QED
      BY <1>1, <3>1, NoPollType DEF PollType
  <2>2. poll' \in [Polls -> PollType] /\ ChangesFinite'
    <3>1. poll' = [poll EXCEPT ![p] = r]
      BY <1>3 DEF PollReads
    <3> HIDE DEF r
    <3>2. QED
      BY <2>1, <3>1, PollTypes, FS_EmptySet
  <2>3. QED
    BY <1>1, <1>3, <2>2, CatalogueStays DEF PollReads, feed
<1>4. CASE Overviews(p)
  <2> DEFINE r == [poll[p] EXCEPT !.at = "writing", !.found = health]
  <2>1. r \in PollType /\ r.changes = poll[p].changes
    BY <1>1 DEF PollType
  <2>2. poll' \in [Polls -> PollType] /\ ChangesFinite'
    <3>1. poll' = [poll EXCEPT ![p] = r]
      BY <1>1, <1>4 DEF Overviews
    <3> HIDE DEF r
    <3>2. QED
      BY <1>1, <2>1, <3>1, PollTypes
  <2>3. QED
    BY <1>1, <1>4, <2>2, CatalogueStays DEF Overviews, feed
<1>5. CASE WriteOverviews(p)
  <2> DEFINE names == poll[p].names
             f == [n \in names |-> Mapped(p, n)]
             cs == {[name |-> n, status |-> f[n]] : n \in Changes(p)}
             r == [poll[p] EXCEPT !.at = "publishing", !.changes = cs]
  <2>1. names \in SUBSET Names /\ f \in [names -> Statuses] /\ Changes(p) \in SUBSET names /\ poll[p].day \in Days
    BY <1>1, MappedType DEF PollType, Changes
  <2>2. IsFiniteSet(cs) /\ cs \in SUBSET Change
    <3> DEFINE g == [n \in Changes(p) |-> f[n]]
    <3>1. g \in [Changes(p) -> Statuses] /\ cs = {[name |-> n, status |-> g[n]] : n \in Changes(p)}
      BY <2>1
    <3> HIDE DEF names, f, g, cs
    <3>2. QED
      BY <2>1, <3>1, FoundChanges
  <2>3. cs = {[name |-> n, status |-> Mapped(p, n)] : n \in Changes(p)}
    BY <2>1
  <2>4. poll' = [poll EXCEPT ![p] = r]
    <3>1. poll' = [poll EXCEPT ![p].at = "publishing", ![p].changes = cs]
      BY <1>5, <2>3 DEF WriteOverviews
    <3> HIDE DEF cs
    <3>2. QED
      BY <1>1, <3>1
  <2>5. status' \in [Names -> Row]
    <3>1. status' = Upsert(status, names, poll[p].day, f)
      BY <1>5 DEF WriteOverviews
    <3> HIDE DEF names, f
    <3>2. QED
      BY <1>1, <2>1, <3>1, UpsertType
  <2>6. r \in PollType /\ r.changes = cs
    <3> HIDE DEF cs
    <3>1. QED
      BY <1>1, <2>2 DEF PollType
  <2>7. poll' \in [Polls -> PollType] /\ ChangesFinite'
    <3> HIDE DEF r, cs
    <3>1. QED
      BY <2>2, <2>4, <2>6, PollTypes
  <2>8. CatalogueTypeOK' /\ MoverKnown'
    BY <1>1, <1>5, ServicesAreKnown DEF WriteOverviews
  <2>9. QED
    BY <1>1, <1>5, <2>1, <2>5, <2>7, <2>8 DEF WriteOverviews, feed
<1>6. CASE PollFails(p)
  <2>1. poll' \in [Polls -> PollType] /\ ChangesFinite'
    BY <1>6, NoPollType, PollTypes, FS_EmptySet DEF PollFails
  <2>2. QED
    BY <1>1, <1>6, <2>1, CatalogueStays, ActsCounts DEF PollFails, feed
<1>7. CASE Publish(p)
  <2>1. poll' \in [Polls -> PollType] /\ ChangesFinite'
    BY <1>7, NoPollType, PollTypes, FS_EmptySet DEF Publish
  <2>2. bus' \subseteq Stream
    <3>1. SetToSeq(poll[p].changes) \in Seq(Change)
      <4>1. SetToSeq(poll[p].changes) \in Seq(poll[p].changes) /\ poll[p].changes \subseteq Change
        BY <1>1, SetToSeqListsAll DEF PollType
      <4>2. QED
        BY <4>1
    <3>2. ASSUME NEW s \in Stream
          PROVE  [s EXCEPT !.queue = @ \o SetToSeq(poll[p].changes)] \in Stream
      <4>1. s.queue \o SetToSeq(poll[p].changes) \in Seq(Change)
        BY <3>1 DEF Stream
      <4>2. QED
        BY <4>1 DEF Stream
    <3>3. QED
      BY <1>1, <1>7, <3>2 DEF Publish
  <2>3. QED
    BY <1>1, <1>7, <2>1, <2>2, CatalogueStays DEF Publish
<1>8. QED
  BY <1>3, <1>4, <1>5, <1>6, <1>7 DEF Poll

\* The steps of Microsoft, of time and of operators.
LEMMA OutsideSteps ==
    ASSUME TypesInv,
           \/ CatalogueNext /\ UNCHANGED eventsOwn
           \/ \E n \in Names, h \in Health \cup {Silent} : HealthChanges(n, h)
           \/ \E n \in Names, h \in Settable : SetStatus(n, h)
           \/ DayBegins
           \/ RefreshServices
    PROVE  TypesInv'
<1>1. /\ CatalogueTypeOK /\ MoverKnown /\ ChangesFinite /\ day \in Days /\ health \in [Names -> Health \cup {Silent}]
      /\ status \in [Names -> Row] /\ acts \in 0..MaxEvents /\ excused \subseteq Names
  BY DEF TypesInv, EventsTypeOK, Row, CatalogueTypeOK
<1>2. CASE CatalogueNext /\ UNCHANGED eventsOwn
  BY <1>1, <1>2, CatalogueSteps DEF TypesInv, EventsTypeOK, eventsOwn, feed, ChangesFinite
<1>3. ASSUME NEW n \in Names, NEW h \in Health \cup {Silent}, HealthChanges(n, h)
      PROVE  TypesInv'
  <2>1. CatalogueTypeOK' /\ MoverKnown' /\ health' \in [Names -> Health \cup {Silent}]
    BY <1>1, <1>3, CatalogueStays, ActsCounts DEF HealthChanges
  <2>2. QED
    BY <1>3, <2>1 DEF HealthChanges, TypesInv, EventsTypeOK, feed, ChangesFinite
<1>4. ASSUME NEW n \in Names, NEW h \in Settable, SetStatus(n, h)
      PROVE  TypesInv'
  <2>1. CatalogueTypeOK' /\ MoverKnown' /\ excused' \subseteq Names
    BY <1>1, <1>4, CatalogueStays, ActsCounts DEF SetStatus
  <2>2. status' \in [Names -> Row]
    <3>1. [m \in {n} |-> h] \in [{n} -> Statuses]
      BY EventsAssumption
    <3>2. QED
      BY <1>1, <1>4, <3>1, UpsertType DEF SetStatus, SetManually
  <2>3. QED
    BY <1>4, <2>1, <2>2 DEF SetStatus, TypesInv, EventsTypeOK, Row, feed, ChangesFinite
<1>5. CASE DayBegins
  <2>1. CatalogueTypeOK' /\ MoverKnown' /\ day' \in Days
    BY <1>1, <1>5, CatalogueStays, EventsAssumption DEF DayBegins, Days
  <2>2. QED
    BY <1>5, <2>1 DEF DayBegins, TypesInv, EventsTypeOK, feed, ChangesFinite
<1>6. CASE RefreshServices
  <2>1. CatalogueTypeOK' /\ MoverKnown'
    BY <1>1, <1>6, ServicesAreKnown, ActsCounts DEF RefreshServices
  <2>2. QED
    BY <1>6, <2>1 DEF RefreshServices, TypesInv, EventsTypeOK, eventsOwn, feed, ChangesFinite
<1>7. QED
  BY <1>2, <1>3, <1>4, <1>5, <1>6

LEMMA StreamTypes ==
    ASSUME NEW s \in Stream
    PROVE  /\ [s EXCEPT !.live = FALSE] \in Stream
           /\ s.queue # <<>> =>
                [s EXCEPT !.queue = Tail(@), !.told[Head(s.queue).name] = Head(s.queue).status] \in Stream
<1>1. [s EXCEPT !.live = FALSE] \in Stream
  BY DEF Stream
<1>2. ASSUME s.queue # <<>>
      PROVE  [s EXCEPT !.queue = Tail(@), !.told[Head(s.queue).name] = Head(s.queue).status] \in Stream
  <2>1. Tail(s.queue) \in Seq(Change) /\ Head(s.queue) \in Change
    BY <1>2 DEF Stream
  <2>2. [s.told EXCEPT ![Head(s.queue).name] = Head(s.queue).status] \in [Names -> Statuses \cup {Silent}]
    BY <2>1 DEF Stream, Change
  <2>3. QED
    BY <2>1, <2>2 DEF Stream
<1>3. QED
  BY <1>1, <1>2

\* A stream that has read on, and one that has nothing to read.
Read(s) == IF s.queue = <<>> THEN s
           ELSE [s EXCEPT !.queue = Tail(@), !.told[Head(s.queue).name] = Head(s.queue).status]

LEMMA ReadType == \A s \in Stream : Read(s) \in Stream
  BY StreamTypes DEF Read

LEMMA StreamStepReads ==
    ASSUME NEW s \in bus, StreamStep(s)
    PROVE  bus' = (bus \ {s}) \cup (IF Leaves(s) THEN {} ELSE {Read(s)})
  BY DEF StreamStep, Read

LEMMA PageIsOfType ==
    ASSUME NEW n \in 0..MaxAttempts
    PROVE  [at |-> "waiting", attempts |-> n] \in PageType /\ [at |-> "connecting", attempts |-> n] \in PageType
  BY DEF PageType

LEMMA StreamSteps ==
    ASSUME TypesInv, (\E s \in bus : StreamStep(s)) \/ (\E b \in Pages : Page(b)) \/ GoDown \/ GoUp
    PROVE  TypesInv'
<1>1. /\ CatalogueTypeOK /\ MoverKnown /\ ChangesFinite /\ day \in Days /\ health \in [Names -> Health \cup {Silent}]
      /\ status \in [Names -> Row] /\ poll \in [Polls -> PollType] /\ page \in [Pages -> PageType]
      /\ bus \subseteq Stream /\ acts \in 0..MaxEvents /\ excused \subseteq Names /\ up \in BOOLEAN
  BY DEF TypesInv, EventsTypeOK, PollType, PageType, Row, CatalogueTypeOK
<1>2. SUFFICES /\ CatalogueTypeOK' /\ MoverKnown' /\ ChangesFinite' /\ UNCHANGED <<day, health, status>>
               /\ poll' \in [Polls -> PollType] /\ page' \in [Pages -> PageType] /\ bus' \subseteq Stream
               /\ up' \in BOOLEAN /\ excused' \subseteq Names
  BY <1>1 DEF TypesInv, EventsTypeOK, PollType, PageType, Row
<1>3. ASSUME NEW s \in bus, StreamStep(s)
      PROVE  /\ CatalogueTypeOK' /\ MoverKnown' /\ bus' \subseteq Stream
             /\ UNCHANGED <<day, health, status, poll, up, page, excused>>
  <2>1. Read(s) \in Stream
    BY <1>1, ReadType
  <2>2. QED
    BY <1>1, <1>3, <2>1, StreamStepReads, CatalogueStays DEF StreamStep
<1>4. ASSUME NEW b \in Pages, Connect(b)
      PROVE  /\ CatalogueTypeOK' /\ MoverKnown' /\ bus' \subseteq Stream /\ page' \in [Pages -> PageType]
             /\ UNCHANGED <<day, health, status, poll, up, excused>>
  <2>1. [n \in Names |-> Current(n)] \in [Names -> Statuses \cup {Silent}]
    BY <1>1, CurrentType
  <2>2. [of |-> b, n |-> acts, live |-> TRUE, queue |-> <<>>, told |-> [n \in Names |-> Current(n)]] \in Stream
    BY <1>1, <2>1 DEF Stream
  <2>3. page' \in [Pages -> PageType]
    BY <1>1, <1>4 DEF Connect, PageType
  <2>4. QED
    BY <1>1, <1>4, <2>2, <2>3, CatalogueStays DEF Connect
<1>5. ASSUME NEW b \in Pages, StreamBreaks(b)
      PROVE  /\ CatalogueTypeOK' /\ MoverKnown' /\ bus' \subseteq Stream /\ page' \in [Pages -> PageType]
             /\ UNCHANGED <<day, health, status, poll, up, excused>>
  <2>1. page' \in [Pages -> PageType]
    BY <1>1, <1>5 DEF StreamBreaks, PageType
  <2>2. bus' \subseteq Stream
    BY <1>1, <1>5, StreamTypes DEF StreamBreaks, Cut
  <2>3. QED
    BY <1>1, <1>5, <2>1, <2>2, CatalogueStays, ActsCounts DEF StreamBreaks
<1>6. ASSUME NEW b \in Pages, Refused(b) \/ TimerFires(b)
      PROVE  /\ CatalogueTypeOK' /\ MoverKnown' /\ page' \in [Pages -> PageType]
             /\ UNCHANGED <<day, health, status, poll, up, bus, excused>>
  <2>1. page[b] \in PageType /\ MaxAttempts \in Nat
    BY <1>1, EventsAssumption
  <2>2. page' \in [Pages -> PageType]
    <3>1. CASE Refused(b)
      <4>1. page[b].attempts < MaxAttempts => [at |-> "waiting", attempts |-> page[b].attempts + 1] \in PageType
        <5>1. page[b].attempts \in 0..MaxAttempts
          BY <2>1 DEF PageType
        <5>2. page[b].attempts < MaxAttempts => page[b].attempts + 1 \in 0..MaxAttempts
          BY <2>1, <5>1
        <5>3. QED
          BY <5>2, PageIsOfType
      <4>2. [page[b] EXCEPT !.at = "given up"] \in PageType
        BY <2>1 DEF PageType
      <4>3. QED
        BY <1>1, <3>1, <4>1, <4>2 DEF Refused
    <3>2. CASE TimerFires(b)
      <4>1. [at |-> "connecting", attempts |-> 0] \in PageType
        <5>1. 0 \in 0..MaxAttempts
          BY <2>1
        <5>2. QED
          BY <5>1, PageIsOfType
      <4>2. QED
        BY <1>1, <3>2, <4>1 DEF TimerFires, Attempts
    <3>3. QED
      BY <1>6, <3>1, <3>2
  <2>3. QED
    BY <1>1, <1>6, <2>2, CatalogueStays DEF Refused, TimerFires
<1>7. CASE GoDown
  <2>1. page' \in [Pages -> PageType]
    <3>1. \A b \in Pages : [page[b] EXCEPT !.at = "connecting"] \in PageType
      BY <1>1 DEF PageType
    <3>2. QED
      BY <1>1, <1>7, <3>1 DEF GoDown
  <2>2. poll' \in [Polls -> PollType] /\ ChangesFinite'
    BY <1>7, NoPollType, FS_EmptySet DEF GoDown, ChangesFinite
  <2>3. excused' \subseteq Names
    <3>1. \A p \in Polls : \A c \in poll[p].changes : c.name \in Names
      BY <1>1 DEF PollType, Change
    <3>2. excused' = excused \cup UNION {{c.name : c \in poll[p].changes} : p \in Polls}
      BY <1>7 DEF GoDown
    <3>3. QED
      BY <1>1, <3>1, <3>2
  <2>4. QED
    BY <1>1, <1>7, <2>1, <2>2, <2>3, CatalogueStays, ActsCounts DEF GoDown
<1>8. CASE GoUp
  BY <1>1, <1>8, CatalogueStays DEF GoUp, feed, ChangesFinite
<1>9. QED
  <2>1. UNCHANGED poll => poll' \in [Polls -> PollType] /\ ChangesFinite'
    BY <1>1 DEF ChangesFinite
  <2>2. UNCHANGED page => page' \in [Pages -> PageType]
    BY <1>1
  <2>3. QED
    BY <1>1, <1>3, <1>4, <1>5, <1>6, <1>7, <1>8, <2>1, <2>2 DEF Page

\* A step of the whole page: one of the events, or one that leaves them alone.
LEMMA StepCases ==
    ASSUME [Next]_pageVars
    PROVE  \/ EventsNext
           \/ UNCHANGED <<catalogue, eventsOwn>> /\ (Acts \/ UNCHANGED acts)
  BY DEF Next, Report, CreateMaintenance, Added, Resolve, Reopen, Suppress, pageVars, eventVars

LEMMA TypesStep == TypesInv /\ [Next]_pageVars => TypesInv'
<1> SUFFICES ASSUME TypesInv, [Next]_pageVars
             PROVE  TypesInv'
  OBVIOUS
<1>1. CASE EventsNext
  BY <1>1, PollSteps, OutsideSteps, StreamSteps DEF EventsNext
<1>2. CASE UNCHANGED <<catalogue, eventsOwn>> /\ (Acts \/ UNCHANGED acts)
  <2>1. acts' \in 0..MaxEvents
    BY <1>2, ActsCounts DEF TypesInv, EventsTypeOK, CatalogueTypeOK
  <2>2. QED
    BY <1>2, <2>1, CatalogueStays DEF TypesInv, EventsTypeOK, eventsOwn, feed, ChangesFinite
<1>3. QED
  BY <1>1, <1>2, StepCases

LEMMA TypesHold == Spec => []TypesInv
<1>1. Init => TypesInv
  BY EventsStart DEF Init
<1>2. QED
  BY <1>1, TypesStep, PTL DEF Spec

\* The seeded severities, phases and labels stay whatever operators add, rename
\* and delete (crud.py: is_system), a service on the page is in its table, and
\* each status is one of the program's own whatever Graph reports.
THEOREM EventsTypes == Spec => []EventsTypeOK
  BY TypesHold, PTL DEF TypesInv

-----------------------------------------------------------------------------
(* Moves.                                                                  *)

\* Orders of 0, 10, 20... keep the order of the group, and no two are equal.
LEMMA SpreadKeepsOrder ==
    ASSUME NEW s \in [Names -> Service], NEW n \in Names, NEW m \in Names, s[n].order = s[m].order
    PROVE  LET t == Spread(s, n, m) G == Group(s, n) IN
           /\ \A a \in Names : t[a].known = s[a].known /\ t[a].group = s[a].group
           /\ \A a, b \in G : Before(s, a, b) => t[a].order < t[b].order
<1> DEFINE t == Spread(s, n, m) G == Group(s, n)
<1>1. t = [o \in Names |-> IF o \in G THEN [s[o] EXCEPT !.order = 10 * Cardinality(Ahead(s, o))] ELSE s[o]]
  BY DEF Spread
<1>2. ASSUME NEW o \in Names
      PROVE  DOMAIN s[o] = {"known", "enabled", "uptime", "group", "order"} /\ s[o] \in Service
  BY DEF Service
<1>3. ASSUME NEW a \in Names
      PROVE  t[a].known = s[a].known /\ t[a].group = s[a].group
  BY <1>1, <1>2
<1>4. ASSUME NEW a \in G, NEW b \in G, Before(s, a, b)
      PROVE  t[a].order < t[b].order
  <2>1. a \in Names /\ b \in Names /\ Group(s, a) = G /\ Group(s, b) = G
    BY DEF Group
  <2>2. Ahead(s, a) \in SUBSET Ahead(s, b) /\ Ahead(s, a) # Ahead(s, b)
    <3>1. a \in Ahead(s, b) /\ a \notin Ahead(s, a)
      BY <1>4, <2>1, BeforeIsOrder DEF Ahead
    <3>2. \A o \in G : Before(s, o, a) => Before(s, o, b)
      BY <1>4, <2>1, BeforeIsOrder DEF Group
    <3>3. QED
      BY <3>1, <3>2, <2>1 DEF Ahead
  <2>3. Ahead(s, b) \in SUBSET Names
    BY DEF Ahead, Group
  <2>4. IsFiniteSet(Ahead(s, b)) /\ IsFiniteSet(Ahead(s, a))
    BY <2>2, <2>3, FS_Subset, CatalogueAssumption
  <2>5. Cardinality(Ahead(s, a)) \in Nat /\ Cardinality(Ahead(s, b)) \in Nat
    BY <2>4, FS_CardinalityType
  <2>6. Cardinality(Ahead(s, a)) < Cardinality(Ahead(s, b))
    BY <2>2, <2>4, <2>5, FS_Subset
  <2>7. t[a].order = 10 * Cardinality(Ahead(s, a)) /\ t[b].order = 10 * Cardinality(Ahead(s, b))
    BY <1>1, <1>2, <2>1
  <2>8. QED
    BY <2>5, <2>6, <2>7
<1>5. QED
  BY <1>3, <1>4

\* Two services of a group with different orders, and nobody between.
Neighbours(t, n, m) ==
    /\ t[n].group = t[m].group /\ t[n].order # t[m].order
    /\ \A o \in Names \ {n, m} : t[o].known /\ t[o].group = t[n].group =>
           (Before(t, o, n) <=> Before(t, o, m))

\* They swap their orders.
Swapped(t, u, n, m) ==
    /\ \A o \in Names : u[o].group = t[o].group
    /\ u[n].order = t[m].order /\ u[m].order = t[n].order
    /\ \A o \in Names \ {n, m} : u[o].order = t[o].order

LEMMA SwapMoves ==
    ASSUME NEW t \in [Names -> Service], NEW n \in Names, NEW m \in Names, n # m,
           Neighbours(t, n, m), NEW u, Swapped(t, u, n, m),
           NEW a \in Names, NEW b \in Names, a # b, t[a].known, t[b].known
    PROVE  Before(u, a, b) <=> Placed(t, n, m, a, b)
<1> USE DEF Neighbours, Swapped
<1>1. \A o \in Names : o \in Nat /\ t[o].group \in Nat /\ t[o].order \in Nat
  BY CatalogueAssumption DEF Service
<1>2. CASE t[a].group # t[b].group
  <2>1. {a, b} # {n, m} /\ ~TakesOver(t, n, m, a, b) /\ ~TakesOver(t, n, m, b, a)
    BY <1>2 DEF TakesOver
  <2>2. QED
    BY <1>1, <1>2, <2>1 DEF Before, Placed
<1>3. CASE t[a].group = t[b].group /\ {a, b} = {n, m}
  <2>1. (a = n /\ b = m) \/ (a = m /\ b = n)
    BY <1>3
  <2>2. Before(u, a, b) <=> Before(t, b, a)
    BY <1>1, <1>3, <2>1 DEF Before
  <2>3. ~TakesOver(t, n, m, a, b) /\ ~TakesOver(t, n, m, b, a)
    BY <1>3 DEF TakesOver
  <2>4. QED
    BY <1>3, <2>2, <2>3 DEF Placed
<1>4. CASE t[a].group = t[b].group /\ a \notin {n, m} /\ b \notin {n, m}
  <2>1. {a, b} # {n, m} /\ ~TakesOver(t, n, m, a, b) /\ ~TakesOver(t, n, m, b, a)
    BY <1>4 DEF TakesOver
  <2>2. Before(u, a, b) <=> Before(t, a, b)
    BY <1>1, <1>4 DEF Before
  <2>3. QED
    BY <2>1, <2>2 DEF Placed
<1>5. CASE t[a].group = t[b].group /\ a \in {n, m} /\ b \notin {n, m}
  <2>1. {a, b} # {n, m} /\ ~TakesOver(t, n, m, b, a)
    BY <1>5 DEF TakesOver
  <2>2. PICK c \in {n, m} : c # a /\ u[a].order = t[c].order
    BY <1>5
  <2>3. TakesOver(t, n, m, a, b) <=> t[b].order = t[c].order
    BY <1>5, <2>2 DEF TakesOver
  <2>4. t[c].group = t[b].group /\ c # b /\ u[a].group = u[b].group /\ u[b].order = t[b].order
    BY <1>5, <2>2
  <2>5. CASE t[b].order = t[c].order
    <3>1. Before(u, a, b) <=> a < b
      BY <1>1, <2>2, <2>4, <2>5 DEF Before
    <3>2. QED
      BY <2>1, <2>3, <2>5, <3>1 DEF Placed
  <2>6. CASE t[b].order # t[c].order
    <3>1. Before(u, a, b) <=> ~Before(t, b, c)
      BY <1>1, <2>2, <2>4, <2>6 DEF Before
    <3>2. Before(t, b, c) <=> Before(t, b, a)
      BY <1>5, <2>2, <2>4
    <3>3. Before(t, b, a) <=> ~Before(t, a, b)
      BY BeforeIsOrder
    <3>4. QED
      BY <2>1, <2>3, <2>6, <3>1, <3>2, <3>3 DEF Placed
  <2>7. QED
    BY <2>5, <2>6
<1>6. CASE t[a].group = t[b].group /\ b \in {n, m} /\ a \notin {n, m}
  <2>1. {a, b} # {n, m} /\ ~TakesOver(t, n, m, a, b)
    BY <1>6 DEF TakesOver
  <2>2. PICK c \in {n, m} : c # b /\ u[b].order = t[c].order
    BY <1>6
  <2>3. TakesOver(t, n, m, b, a) <=> t[a].order = t[c].order
    BY <1>6, <2>2 DEF TakesOver
  <2>4. t[c].group = t[a].group /\ c # a /\ u[a].group = u[b].group /\ u[a].order = t[a].order
    BY <1>6, <2>2
  <2>5. CASE t[a].order = t[c].order
    <3>1. Before(u, a, b) <=> a < b
      BY <1>1, <2>2, <2>4, <2>5 DEF Before
    <3>2. QED
      BY <2>1, <2>3, <2>5, <3>1 DEF Placed
  <2>6. CASE t[a].order # t[c].order
    <3>1. Before(u, a, b) <=> Before(t, a, c)
      BY <1>1, <2>2, <2>4, <2>6 DEF Before
    <3>2. Before(t, a, c) <=> Before(t, a, b)
      BY <1>6, <2>2, <2>4
    <3>3. QED
      BY <2>1, <2>3, <2>6, <3>1, <3>2 DEF Placed
  <2>7. QED
    BY <2>5, <2>6
<1>7. a \in {n, m} /\ b \in {n, m} => {a, b} = {n, m}
  OBVIOUS
<1> DEFINE Goal == Before(u, a, b) <=> Placed(t, n, m, a, b)
<1>8. Goal
  <2> HIDE DEF Goal
  <2>1. CASE t[a].group = t[b].group
    BY <1>3, <1>4, <1>5, <1>6, <1>7, <2>1 DEF Goal
  <2>2. QED
    BY <1>2, <2>1 DEF Goal
<1>9. QED
  BY <1>8

\* Between a service and its neighbour there is nobody.
LEMMA NothingBetween ==
    ASSUME NEW s \in [Names -> Service], NEW n \in Names, s[n].known, NEW upward \in BOOLEAN,
           Side(s, n, upward) # {}, NEW m, m = Nearest(s, n, Side(s, n, upward))
    PROVE  /\ m \in Group(s, n) /\ m # n
           /\ \A o \in Group(s, n) \ {n, m} : Before(s, o, n) <=> Before(s, o, m)
<1> DEFINE side == Side(s, n, upward) G == Group(s, n)
<1>1. m \in side /\ \A o \in side : o = m \/ (Before(s, o, m) <=> Before(s, m, n))
  BY NearestIsNext
<1>2. \A o : o \in side <=> o \in G /\ IF upward THEN Before(s, o, n) ELSE Before(s, n, o)
  BY DEF Side, Ahead, Behind
<1>3. G \subseteq Names /\ n \in G
  BY DEF Group
<1> HIDE DEF side, G
<1>4. m \in G /\ m # n /\ m \in Names
  BY <1>1, <1>2, <1>3, BeforeIsOrder
<1>5. ASSUME NEW o \in G \ {n, m}
      PROVE  Before(s, o, n) <=> Before(s, o, m)
  <2>1. o \in Names /\ o # n /\ o # m
    BY <1>3
  <2>2. Before(s, o, n) <=> ~Before(s, n, o)
    BY <2>1, BeforeIsOrder
  <2>3. CASE upward
    <3>1. Before(s, m, n)
      BY <1>1, <1>2, <2>3
    <3>2. Before(s, o, n) => Before(s, o, m)
      BY <1>1, <1>2, <2>1, <2>3, <3>1
    <3>3. Before(s, o, m) => Before(s, o, n)
      BY <3>1, <1>4, <2>1, BeforeIsOrder
    <3>4. QED
      BY <3>2, <3>3
  <2>4. CASE ~upward
    <3>1. Before(s, n, m)
      BY <1>1, <1>2, <2>4
    <3>2. Before(s, o, n) => Before(s, o, m)
      BY <3>1, <1>4, <2>1, BeforeIsOrder
    <3>3. ~Before(s, m, n)
      BY <3>1, <1>4, BeforeIsOrder
    <3>4. Before(s, o, m) => Before(s, o, n)
      BY <1>1, <1>2, <2>1, <2>2, <2>4, <3>3
    <3>5. QED
      BY <3>2, <3>4
  <2>5. QED
    BY <2>3, <2>4
<1>6. QED
  BY <1>4, <1>5 DEF G

\* What a move makes of the services it read: it changes orders alone, and they
\* take the service past its neighbour.
MovesPast(s, u, n, side) ==
    /\ \A o \in Names : u[o].group = s[o].group
    /\ \A a, b \in Names : a # b /\ s[a].known /\ s[b].known =>
           (Before(u, a, b) <=> IF side = {} THEN Before(s, a, b) ELSE Placed(s, n, Nearest(s, n, side), a, b))

LEMMA MovedPlaces ==
    ASSUME NEW s \in [Names -> Service], NEW n \in Names, s[n].known, NEW upward \in BOOLEAN
    PROVE  MovesPast(s, Moved(s, n, upward), n, Side(s, n, upward))
<1> DEFINE u == Moved(s, n, upward) side == Side(s, n, upward) m == Nearest(s, n, side) t == Spread(s, n, m)
           G == Group(s, n)
<1>1. u = IF side = {} THEN s ELSE [t EXCEPT ![n].order = t[m].order, ![m].order = t[n].order]
  BY DEF Moved, Side
<1>2. CASE side = {}
  BY <1>1, <1>2 DEF MovesPast
<1>3. ASSUME side # {}
      PROVE  /\ \A o \in Names : u[o].group = s[o].group
             /\ \A a, b \in Names : a # b /\ s[a].known /\ s[b].known =>
                    (Before(u, a, b) <=> Placed(s, n, m, a, b))
  <2>1. /\ m \in G /\ m # n
        /\ \A o \in G \ {n, m} : Before(s, o, n) <=> Before(s, o, m)
    BY <1>3, NothingBetween
  <2>2. G \in SUBSET Names /\ n \in G /\ \A o \in Names : o \in G <=> s[o].known /\ s[o].group = s[n].group
    BY DEF Group
  <2>3. t \in [Names -> Service]
    BY <2>1, <2>2, SpreadType
  <2> HIDE DEF side, m, u
  \* Either way the two get different orders, and the order of the group is as before.
  <2>5. /\ \A o \in Names : t[o].known = s[o].known /\ t[o].group = s[o].group
        /\ \A a, b \in Names : s[a].known /\ s[b].known => (Before(t, a, b) <=> Before(s, a, b))
        /\ t[n].order # t[m].order
        /\ \A a, b \in G : TakesOver(t, n, m, a, b) <=> TakesOver(s, n, m, a, b)
    <3>1. CASE s[n].order # s[m].order
      <4>1. t = s
        BY <3>1 DEF Spread
      <4> HIDE DEF t, G
      <4>2. QED
        BY <4>1, <3>1
    <3>2. CASE s[n].order = s[m].order
      <4>1. /\ \A o \in Names : t[o].known = s[o].known /\ t[o].group = s[o].group
            /\ \A a, b \in G : Before(s, a, b) => t[a].order < t[b].order
        BY <3>2, <2>1, <2>2, SpreadKeepsOrder
      <4>2. \A o \in Names \ G : t[o] = s[o]
        BY <3>2 DEF Spread
      <4> HIDE DEF t, G
      <4>3. \A o \in Names : o \in Nat /\ t[o].group \in Nat /\ t[o].order \in Nat /\ s[o].group \in Nat /\ s[o].order \in Nat
        BY <2>3, CatalogueAssumption DEF Service
      <4>4. ASSUME NEW a \in G, NEW b \in G, a # b
            PROVE  t[a].order # t[b].order /\ (t[a].order < t[b].order <=> Before(s, a, b))
        BY <2>2, <4>1, <4>3, <4>4, BeforeIsOrder
      <4>5. ASSUME NEW a \in Names, NEW b \in Names, s[a].known, s[b].known
            PROVE  Before(t, a, b) <=> Before(s, a, b)
        <5>1. CASE a = b
          BY <5>1, <2>3, BeforeIsOrder
        <5>2. CASE s[a].group # s[b].group
          BY <4>1, <4>3, <5>2 DEF Before
        <5>3. CASE a \in G /\ b \in G /\ a # b
          <6>1. t[a].group = t[b].group
            BY <2>2, <4>1, <5>3
          <6>2. QED
            BY <4>3, <4>4, <5>3, <6>1, <2>2 DEF Before
        <5>4. CASE a \notin G /\ b \notin G
          BY <4>2, <5>4 DEF Before
        <5>5. QED
          BY <5>1, <5>2, <5>3, <5>4, <4>5, <2>2
      <4>6. ASSUME NEW a \in G, NEW b \in G
            PROVE  ~TakesOver(t, n, m, a, b) /\ ~TakesOver(s, n, m, a, b)
        BY <3>2, <4>4, <2>1, <2>2 DEF TakesOver
      <4>7. QED
        BY <4>1, <4>4, <4>5, <4>6, <2>1, <2>2
    <3>3. QED
      BY <3>1, <3>2
  <2> HIDE DEF t
  <2>6. u = [t EXCEPT ![n].order = t[m].order, ![m].order = t[n].order]
    BY <1>1, <1>3
  <2>7. Swapped(t, u, n, m)
    <3>1. \A o \in Names : DOMAIN t[o] = {"known", "enabled", "uptime", "group", "order"}
      BY <2>3 DEF Service
    <3>2. QED
      BY <2>1, <2>2, <2>3, <2>6, <3>1 DEF Swapped
  <2>8. Neighbours(t, n, m)
    <3>1. s[m].known /\ s[n].known /\ m \in Names
      BY <2>1, <2>2
    <3>2. QED
      BY <2>1, <2>2, <2>5, <3>1 DEF Neighbours
  <2>9. ASSUME NEW a \in Names, NEW b \in Names, a # b, s[a].known, s[b].known
        PROVE  Before(u, a, b) <=> Placed(s, n, m, a, b)
    <3>1. t[a].known /\ t[b].known /\ m \in Names
      BY <2>1, <2>2, <2>5, <2>9
    <3>2. Before(u, a, b) <=> Placed(t, n, m, a, b)
      BY <2>1, <2>3, <2>7, <2>8, <2>9, <3>1, SwapMoves
    <3>3. Before(t, a, b) <=> Before(s, a, b)
      BY <2>5, <2>9
    <3>4. Before(t, b, a) <=> Before(s, b, a)
      BY <2>5, <2>9
    <3>5. TakesOver(t, n, m, a, b) <=> TakesOver(s, n, m, a, b)
      <4>1. CASE a \in G /\ b \in G
        BY <4>1, <2>5
      <4>2. CASE ~(a \in G /\ b \in G)
        BY <4>2, <2>1, <2>2, <2>5, <2>9 DEF TakesOver
      <4>3. QED
        BY <4>1, <4>2
    <3>6. TakesOver(t, n, m, b, a) <=> TakesOver(s, n, m, b, a)
      <4>1. CASE a \in G /\ b \in G
        BY <4>1, <2>5
      <4>2. CASE ~(a \in G /\ b \in G)
        BY <4>2, <2>1, <2>2, <2>5, <2>9 DEF TakesOver
      <4>3. QED
        BY <4>1, <4>2
    <3>7. Placed(t, n, m, a, b) <=> Placed(s, n, m, a, b)
      BY <3>3, <3>4, <3>5, <3>6 DEF Placed
    <3>8. QED
      BY <3>2, <3>7
  <2>10. QED
    BY <2>5, <2>7, <2>9 DEF Swapped
<1>4. QED
  BY <1>2, <1>3 DEF MovesPast

LEMMA MoveStep ==
    ASSUME TypesInv, NEW q \in Movers, EndMove(q), mover[q].seen = svc
    PROVE  LET s == mover[q].seen n == mover[q].name
               side == IF mover[q].up THEN Ahead(s, n) ELSE Behind(s, n)
               m == Nearest(s, n, side)
           IN \A a, b \in Names : a # b /\ svc[a].known /\ svc[b].known =>
                (Before(svc', a, b) <=> IF side = {} THEN Before(s, a, b) ELSE Placed(s, n, m, a, b))
<1> DEFINE n == mover[q].name upward == mover[q].up side == Side(svc, n, upward)
           u == Moved(svc, n, upward)
<1>1. svc \in [Names -> Service] /\ n \in Names /\ svc[n].known /\ upward \in BOOLEAN
  BY DEF TypesInv, EventsTypeOK, CatalogueTypeOK, MoverKnown, EndMove
<1>2. side = IF mover[q].up THEN Ahead(mover[q].seen, n) ELSE Behind(mover[q].seen, n)
  BY DEF Side
<1>3. MovesPast(svc, u, n, side)
  BY <1>1, MovedPlaces
<1>4. svc' = [o \in Names |-> IF u[o].order # svc[o].order THEN [svc[o] EXCEPT !.order = u[o].order] ELSE svc[o]]
  BY DEF EndMove
<1> HIDE DEF u, side
<1>5. ASSUME NEW o \in Names
      PROVE  svc'[o].order = u[o].order /\ svc'[o].group = u[o].group
  <2>1. DOMAIN svc[o] = {"known", "enabled", "uptime", "group", "order"}
    BY <1>1 DEF Service
  <2>2. QED
    BY <1>3, <1>4, <2>1 DEF MovesPast
<1>6. \A a, b \in Names : Before(svc', a, b) <=> Before(u, a, b)
  BY <1>5 DEF Before
<1>7. QED
  BY <1>2, <1>3, <1>6 DEF MovesPast

\* A move nothing overlapped takes the service past its neighbour, whatever
\* orders and groups there are (crud.move_service), and nobody else changes
\* places, except that the names decide between one of the two and a third that
\* shares the number it takes over.
THEOREM EveryMoveIsOnePlace == Spec => MovesOnePlace
<1> DEFINE Move ==
        \A q \in Movers :
            LET s == mover[q].seen n == mover[q].name
                side == IF mover[q].up THEN Ahead(s, n) ELSE Behind(s, n)
                m == Nearest(s, n, side)
            IN EndMove(q) /\ s = svc =>
                \A a, b \in Names : a # b /\ svc[a].known /\ svc[b].known =>
                    (Before(svc', a, b) <=> IF side = {} THEN Before(s, a, b) ELSE Placed(s, n, m, a, b))
<1>1. TypesInv => Move
  BY MoveStep
<1>2. MovesOnePlace <=> [][Move]_<<catalogue, acts>>
  BY DEF MovesOnePlace
<1> HIDE DEF Move
<1>3. QED
  BY <1>1, <1>2, TypesHold, PTL

-----------------------------------------------------------------------------
(* What streams tell is what the table says.                               *)

\* Rows are of days that have begun, and so are polls.
NoFuture ==
    /\ \A n \in Names, d \in Days : d > day => status[n][d] = Silent
    /\ \A p \in Polls : poll[p].day <= day

\* Once polls overlap, no event is relied on any more.
OnePoll == \A p, o \in Polls : p # o /\ poll[p].at # "idle" /\ poll[o].at # "idle" => excused = Names

\* What a poll read is still so when it writes, and nothing is newer.
PollsSee ==
    \A p \in Polls : poll[p].at \in {"asking", "writing"} =>
        \A n \in poll[p].names \ excused :
            /\ poll[p].old[n] = status[n][poll[p].day]
            /\ \A d \in Days : d > poll[p].day => status[n][d] = Silent

\* The changes a poll is about to publish are the newest rows.
ChangesAreNew ==
    \A p \in Polls :
        /\ poll[p].at # "publishing" => poll[p].changes = {}
        /\ \A c, e \in poll[p].changes : c.name = e.name => c = e
        /\ \A c \in poll[p].changes : c.name \in excused \/ c.status = Current(c.name)

TruthInv == NoFuture /\ OnePoll /\ PollsSee /\ ChangesAreNew /\ StreamsTell

LEMMA TypesOf ==
    ASSUME TypesInv
    PROVE  /\ status \in [Names -> Row] /\ poll \in [Polls -> PollType] /\ bus \subseteq Stream /\ excused \subseteq Names
           /\ day \in Days /\ day \in Nat
           /\ \A p \in Polls : /\ poll[p].day \in Days /\ poll[p].day \in Nat /\ poll[p].names \subseteq Names
                               /\ \A c \in poll[p].changes : c.name \in Names
<1>1. /\ status \in [Names -> Row] /\ poll \in [Polls -> PollType] /\ bus \subseteq Stream /\ excused \subseteq Names
      /\ day \in Days
  BY DEF TypesInv, EventsTypeOK, Row, PollType
<1>2. \A d \in Days : d \in Nat
  BY EventsAssumption DEF Days
<1>3. \A p \in Polls : /\ poll[p].day \in Days /\ poll[p].names \subseteq Names
                       /\ \A c \in poll[p].changes : c.name \in Names
  BY <1>1 DEF PollType, Change
<1>4. QED
  BY <1>1, <1>2, <1>3

\* The page of a service whose rows stay shows what it showed.
LEMMA CurrentStays == \A n : status'[n] = status[n] => Current(n)' = Current(n)
<1>1. \A n : Current(n)' = Newest(status'[n]) /\ Current(n) = Newest(status[n])
  BY DEF Current, Newest
<1>2. QED
  BY <1>1

LEMMA TruthStarts == EventsInit => TruthInv
<1> SUFFICES ASSUME EventsInit PROVE TruthInv
  OBVIOUS
<1>1. NoFuture
  BY EventsAssumption DEF EventsInit, NoFuture, NoPoll, Days
<1>2. OnePoll /\ PollsSee /\ ChangesAreNew
  BY DEF EventsInit, OnePoll, PollsSee, ChangesAreNew, NoPoll
<1>3. StreamsTell
  BY DEF EventsInit, StreamsTell
<1>4. QED
  BY <1>1, <1>2, <1>3 DEF TruthInv

\* Nothing the invariant is about is changed.
LEMMA TruthStays ==
    ASSUME TypesInv, TruthInv, UNCHANGED <<day, status, poll, bus, excused>>
    PROVE  TruthInv'
<1>1. \A n \in Names : Current(n)' = Current(n)
  BY DEF Current
<1>2. \A p \in Polls : \A c \in poll[p].changes : c.name \in Names
  BY TypesOf
<1>3. NoFuture' /\ OnePoll' /\ PollsSee'
  BY DEF TruthInv, NoFuture, OnePoll, PollsSee
<1>4. ChangesAreNew'
  BY <1>1, <1>2 DEF TruthInv, ChangesAreNew
<1>5. StreamsTell'
  BY <1>1 DEF TruthInv, StreamsTell
<1>6. QED
  BY <1>3, <1>4, <1>5 DEF TruthInv

\* A status an operator sets is one no event tells.
LEMMA SettingExcuses ==
    ASSUME TypesInv, TruthInv, NEW n \in Names, NEW h \in Settable, SetStatus(n, h)
    PROVE  TruthInv'
<1>1. status \in [Names -> Row] /\ day \in Days /\ poll \in [Polls -> PollType] /\ excused \subseteq Names
  BY TypesOf
<1>2. /\ UNCHANGED <<day, poll, bus>> /\ excused' = excused \cup {n}
      /\ \A m \in Names \ {n} : status'[m] = status[m]
      /\ status'[n] = [status[n] EXCEPT ![day] = h]
  BY <1>1 DEF SetStatus, SetManually, Upsert, feed
<1>3. \A m \in Names \ {n} : Current(m)' = Current(m)
  BY <1>2, CurrentStays
<1>4. NoFuture'
  <2>1. \A d \in Days : d > day => status'[n][d] = status[n][d]
    BY <1>1, <1>2, EventsAssumption DEF Row, Days
  <2>2. QED
    BY <1>1, <1>2, <2>1 DEF TruthInv, NoFuture
<1>5. OnePoll'
  BY <1>1, <1>2 DEF TruthInv, OnePoll
<1>6. PollsSee'
  BY <1>1, <1>2 DEF TruthInv, PollsSee, PollType
<1>7. ChangesAreNew'
  BY <1>1, <1>2, <1>3 DEF TruthInv, ChangesAreNew, PollType, Change
<1>8. StreamsTell'
  BY <1>2, <1>3 DEF TruthInv, StreamsTell
<1>9. QED
  BY <1>4, <1>5, <1>6, <1>7, <1>8 DEF TruthInv

LEMMA DayKeepsTruth ==
    ASSUME TypesInv, TruthInv, DayBegins
    PROVE  TruthInv'
<1>1. UNCHANGED <<status, poll, bus, excused>> /\ day' = day + 1 /\ day \in Nat
      /\ \A p \in Polls : poll[p].day \in Nat
  BY TypesOf DEF DayBegins, feed
<1>2. NoFuture'
  BY <1>1, EventsAssumption DEF TruthInv, NoFuture, Days
<1>3. \A n \in Names : Current(n)' = Current(n)
  BY <1>1 DEF Current
<1>4. \A p \in Polls : \A c \in poll[p].changes : c.name \in Names
  BY TypesOf
<1>5. OnePoll' /\ PollsSee'
  BY <1>1 DEF TruthInv, OnePoll, PollsSee
<1>6. ChangesAreNew'
  BY <1>1, <1>3, <1>4 DEF TruthInv, ChangesAreNew
<1>7. StreamsTell'
  BY <1>1, <1>3 DEF TruthInv, StreamsTell
<1>8. QED
  BY <1>2, <1>5, <1>6, <1>7 DEF TruthInv

\* Steps of streams: what each knows at the end is what it would have known.
LEMMA StreamsKeepTruth ==
    ASSUME TypesInv, TruthInv, UNCHANGED <<day, status, poll, excused>>,
           \A t \in bus' : \/ \E s \in bus : \A n \in Names : Told(t, n) = Told(s, n)
                           \/ \A n \in Names : Told(t, n) = Current(n)
    PROVE  TruthInv'
<1>1. \A n \in Names : Current(n)' = Current(n)
  BY DEF Current
<1>2. \A p \in Polls : \A c \in poll[p].changes : c.name \in Names
  BY TypesOf
<1>3. NoFuture' /\ OnePoll' /\ PollsSee'
  BY DEF TruthInv, NoFuture, OnePoll, PollsSee
<1>4. ChangesAreNew'
  BY <1>1, <1>2 DEF TruthInv, ChangesAreNew
<1>5. StreamsTell'
  BY <1>1 DEF TruthInv, StreamsTell
<1>6. QED
  BY <1>3, <1>4, <1>5 DEF TruthInv

LEMMA StreamTruth ==
    ASSUME TypesInv, TruthInv, (\E s \in bus : StreamStep(s)) \/ (\E b \in Pages : Connect(b) \/ StreamBreaks(b))
    PROVE  TruthInv'
<1>1. bus \subseteq Stream
  BY DEF TypesInv, EventsTypeOK
<1>2. ASSUME NEW s \in bus, StreamStep(s)
      PROVE  TruthInv'
  <2>1. \A n \in Names : Told(Read(s), n) = Told(s, n)
    <3>1. CASE s.queue = <<>>
      BY <3>1 DEF Read
    <3>2. CASE s.queue # <<>>
      <4>1. s \in Stream /\ Read(s) \in Stream
        BY <1>1, ReadType
      <4>2. Read(s) = [s EXCEPT !.queue = Tail(@), !.told[Head(s.queue).name] = Head(s.queue).status]
        BY <3>2 DEF Read
      <4>3. /\ Read(s).queue = Tail(s.queue)
            /\ Read(s).told = [s.told EXCEPT ![Head(s.queue).name] = Head(s.queue).status]
        BY <4>1, <4>2 DEF Stream
      <4>4. QED
        BY <3>2, <4>1, <4>3, ReadingKeeps
    <3>3. QED
      BY <3>1, <3>2
  <2>2. bus' \subseteq bus \cup {Read(s)}
    BY <1>2, StreamStepReads
  <2>3. QED
    BY <1>2, <2>1, <2>2, StreamsKeepTruth DEF StreamStep
<1>3. ASSUME NEW b \in Pages, Connect(b)
      PROVE  TruthInv'
  <2> DEFINE new == [of |-> b, n |-> acts, live |-> TRUE, queue |-> <<>>, told |-> [n \in Names |-> Current(n)]]
  <2>1. ASSUME NEW n \in Names
        PROVE  Told(new, n) = Current(n)
    <3>1. new.queue = <<>> /\ new.told[n] = Current(n)
      OBVIOUS
    <3> HIDE DEF new
    <3>2. new.queue \in Seq(Change) /\ DOMAIN new.queue = {}
      BY <3>1
    <3>3. Told(new, n) = new.told[n]
      BY ONLY <3>2, ToldByPage
    <3>4. QED
      BY <3>1, <3>3
  <2>2. bus' = bus \cup {new}
    BY <1>3 DEF Connect
  <2> HIDE DEF new
  <2>3. QED
    BY <1>3, <2>1, <2>2, StreamsKeepTruth DEF Connect
<1>4. ASSUME NEW b \in Pages, StreamBreaks(b)
      PROVE  TruthInv'
  <2>1. ASSUME NEW s \in Stream, NEW n \in Names
        PROVE  Told([s EXCEPT !.live = FALSE], n) = Told(s, n)
    BY DEF Told, Stream
  <2>2. QED
    BY <1>1, <1>4, <2>1, StreamsKeepTruth DEF StreamBreaks, Cut
<1>5. QED
  BY <1>2, <1>3, <1>4

LEMMA DownTruth ==
    ASSUME TypesInv, TruthInv, GoDown
    PROVE  TruthInv'
<1>1. /\ UNCHANGED <<day, status>> /\ bus' = {} /\ poll' = [p \in Polls |-> NoPoll] /\ day \in Nat
  BY TypesOf DEF GoDown
<1>2. NoFuture'
  BY <1>1 DEF TruthInv, NoFuture, NoPoll
<1>3. OnePoll' /\ PollsSee' /\ ChangesAreNew'
  BY <1>1 DEF OnePoll, PollsSee, ChangesAreNew, NoPoll
<1>4. StreamsTell'
  BY <1>1 DEF StreamsTell
<1>5. QED
  BY <1>2, <1>3, <1>4 DEF TruthInv

\* Until a poll writes, the rows and the streams stay.
LEMMA QuietPollTruth ==
    ASSUME TypesInv, TruthInv, NEW p \in Polls, PollReads(p) \/ Overviews(p) \/ PollFails(p)
    PROVE  TruthInv'
<1>1. /\ UNCHANGED <<day, status, bus>> /\ excused \subseteq excused' /\ excused' \subseteq Names
      /\ DOMAIN poll = Polls /\ poll[p] \in PollType /\ day \in Nat
      /\ \A o \in Polls \ {p} : poll'[o] = poll[o]
      /\ \A o \in Polls : o # p /\ poll'[o].at # "idle" /\ poll'[p].at # "idle" => excused' = Names
  BY TypesOf DEF PollReads, Overviews, PollFails, feed, TruthInv, OnePoll, NoPoll
<1>2. poll'[p].changes = {} /\ poll'[p].day \in Nat /\ poll'[p].day <= day /\ poll'[p].at # "publishing"
      /\ poll[p].changes = {}
  <2>1. poll[p].changes = {}
    BY DEF TruthInv, ChangesAreNew, PollReads, Overviews, PollFails
  <2>2. CASE PollReads(p)
    <3>1. poll'[p].changes = {} /\ poll'[p].day = day /\ poll'[p].at = "asking"
      BY <1>1, <2>2 DEF PollReads, NoPoll
    <3>2. QED
      BY <1>1, <2>1, <3>1
  <2>3. CASE PollFails(p)
    <3>1. poll'[p].changes = {} /\ poll'[p].day = 0 /\ poll'[p].at = "idle"
      BY <1>1, <2>3 DEF PollFails, NoPoll
    <3>2. QED
      BY <1>1, <2>1, <3>1
  <2>4. CASE Overviews(p)
    BY <1>1, <2>1, <2>4, TypesOf DEF Overviews, PollType, TruthInv, NoFuture
  <2>5. QED
    BY <2>2, <2>3, <2>4
<1>3. ASSUME poll'[p].at \in {"asking", "writing"}, NEW n \in poll'[p].names \ excused'
      PROVE  /\ poll'[p].old[n] = status[n][poll'[p].day]
             /\ \A d \in Days : d > poll'[p].day => status[n][d] = Silent
  <2>1. CASE PollReads(p)
    <3>1. n \in Names /\ poll'[p].day = day /\ poll'[p].old[n] = status[n][day]
      BY <1>1, <1>3, <2>1 DEF PollReads, NoPoll, Enabled
    <3>2. QED
      BY <3>1 DEF TruthInv, NoFuture
  <2>2. CASE Overviews(p)
    <3>1. /\ poll'[p].names = poll[p].names /\ poll'[p].old = poll[p].old /\ poll'[p].day = poll[p].day
          /\ poll[p].at = "asking" /\ excused' = excused
      BY <1>1, <2>2 DEF Overviews, PollType
    <3>2. QED
      BY <1>3, <3>1 DEF TruthInv, PollsSee
  <2>3. CASE PollFails(p)
    BY <1>1, <1>3, <2>3 DEF PollFails, NoPoll
  <2>4. QED
    BY <2>1, <2>2, <2>3
<1>4. \A n : Current(n)' = Current(n)
  BY <1>1, CurrentStays
<1>5. NoFuture'
  BY <1>1, <1>2 DEF TruthInv, NoFuture
<1>6. OnePoll'
  <2>1. ASSUME NEW a \in Polls, NEW o \in Polls, a # o, poll'[a].at # "idle", poll'[o].at # "idle"
        PROVE  excused' = Names
    <3>1. CASE a = p \/ o = p
      BY <1>1, <2>1, <3>1
    <3>2. CASE a # p /\ o # p
      BY <1>1, <2>1, <3>2 DEF TruthInv, OnePoll
    <3>3. QED
      BY <3>1, <3>2
  <2>2. QED
    BY <2>1 DEF OnePoll
<1>7. PollsSee'
  BY <1>1, <1>3 DEF TruthInv, PollsSee
<1>8. ChangesAreNew'
  BY <1>1, <1>2, <1>4 DEF TruthInv, ChangesAreNew
<1>9. StreamsTell'
  BY <1>1, <1>2, <1>4 DEF TruthInv, StreamsTell
<1>10. QED
  BY <1>5, <1>6, <1>7, <1>8, <1>9 DEF TruthInv

\* What a poll writes is the newest row, and it differs from the last one just
\* where the poll has an event to publish.
LEMMA WriteTruth ==
    ASSUME TypesInv, TruthInv, NEW p \in Polls, WriteOverviews(p)
    PROVE  TruthInv'
<1> DEFINE names == poll[p].names d == poll[p].day old == poll[p].old cs == poll'[p].changes
           To(n) == Mapped(p, n)
<1>1. /\ status \in [Names -> Row] /\ DOMAIN poll = Polls /\ poll[p] \in PollType /\ poll[p].at = "writing"
      /\ names \subseteq Names /\ d \in Days /\ day \in Nat /\ d \in Nat /\ excused \subseteq Names
      /\ \A n \in names : To(n) \in Statuses /\ To(n) # Silent
  BY TypesOf, MappedType, EventsAssumption DEF WriteOverviews
<1>2. /\ UNCHANGED <<day, bus>> /\ excused' = excused \cup {n \in names : old[n] = Silent}
      /\ \A o \in Polls \ {p} : poll'[o] = poll[o]
      /\ poll'[p].at = "publishing" /\ poll'[p].day = d
      /\ cs = {[name |-> n, status |-> To(n)] : n \in {m \in names : old[m] \notin {Silent, To(m)}}}
      /\ \A n \in Names \ names : status'[n] = status[n]
      /\ \A n \in names : status'[n] = [status[n] EXCEPT ![d] = To(n)]
  <2>1. /\ status' = Upsert(status, names, d, [n \in names |-> To(n)])
        /\ poll' = [poll EXCEPT ![p] = [poll[p] EXCEPT !.at = "publishing",
                       !.changes = {[name |-> n, status |-> To(n)] : n \in Changes(p)}]]
    BY <1>1 DEF WriteOverviews
  <2>2. /\ UNCHANGED <<day, bus>> /\ excused' = excused \cup {n \in names : old[n] = Silent}
        /\ Changes(p) = {m \in names : old[m] \notin {Silent, To(m)}}
    BY DEF WriteOverviews, Changes, feed
  <2> HIDE DEF To, names, old
  <2>3. /\ poll'[p].at = "publishing" /\ poll'[p].day = d
        /\ cs = {[name |-> n, status |-> To(n)] : n \in Changes(p)}
        /\ \A o \in Polls \ {p} : poll'[o] = poll[o]
    BY <1>1, <2>1 DEF PollType
  <2>4. /\ \A n \in Names \ names : status'[n] = status[n]
        /\ \A n \in names : status'[n] = [status[n] EXCEPT ![d] = To(n)]
    BY <1>1, <2>1 DEF Upsert
  <2>5. QED
    BY <2>2, <2>3, <2>4
<1> HIDE DEF To, cs
\* Nobody else is under way, or nothing is relied on.
<1>3. ASSUME NEW o \in Polls \ {p}, poll[o].at # "idle"
      PROVE  excused = Names /\ excused' = Names
  BY <1>1, <1>2, <1>3 DEF TruthInv, OnePoll
<1>4. ASSUME NEW n \in names \ excused
      PROVE  /\ old[n] = status[n][d] /\ \A e \in Days : e > d => status[n][e] = Silent
             /\ Current(n)' = To(n)
             /\ old[n] # Silent => Current(n) = old[n]
  <2>1. old[n] = status[n][d] /\ \A e \in Days : e > d => status[n][e] = Silent
    BY <1>1 DEF TruthInv, PollsSee
  <2>2. n \in Names /\ status[n] \in Row /\ status'[n] = [status[n] EXCEPT ![d] = To(n)]
    BY <1>1, <1>2
  <2>3. status'[n] \in Row /\ status'[n][d] = To(n) /\ \A e \in Days : e > d => status'[n][e] = Silent
    BY <1>1, <2>1, <2>2 DEF Row
  <2>4. Newest(status'[n]) = To(n)
    BY <1>1, <2>3, NewestIs
  <2>5. old[n] # Silent => Newest(status[n]) = old[n]
    BY <1>1, <2>1, <2>2, NewestIs
  <2>6. Current(n) = Newest(status[n]) /\ Current(n)' = Newest(status'[n])
    BY DEF Current, Newest
  <2>7. QED
    BY <2>1, <2>4, <2>5, <2>6
<1>5. \A n \in Names \ names : Current(n)' = Current(n)
  BY <1>2, CurrentStays
<1>6. NoFuture'
  <2>1. d <= day
    BY DEF TruthInv, NoFuture
  <2>2. ASSUME NEW n \in Names, NEW e \in Days, e > day
        PROVE  status'[n][e] = Silent
    <3>1. status[n][e] = Silent
      BY <2>2 DEF TruthInv, NoFuture
    <3>2. e # d
      BY <2>1, <2>2, <1>1
    <3>3. status'[n][e] = status[n][e]
      <4>1. CASE n \in names
        <5>1. status'[n] = [status[n] EXCEPT ![d] = To(n)] /\ status[n] \in Row
          BY <1>1, <1>2, <4>1
        <5>2. QED
          BY <3>2, <5>1 DEF Row
      <4>2. CASE n \notin names
        BY <1>2, <4>2
      <4>3. QED
        BY <4>1, <4>2
    <3>4. QED
      BY <3>1, <3>3
  <2>3. \A o \in Polls : poll'[o].day <= day
    BY <1>2, <2>1 DEF TruthInv, NoFuture
  <2>4. QED
    BY <1>2, <2>2, <2>3 DEF NoFuture
<1>7. OnePoll'
  <2>1. ASSUME NEW a \in Polls, NEW o \in Polls, a # o, poll'[a].at # "idle", poll'[o].at # "idle"
        PROVE  excused' = Names
    <3>1. CASE a # p
      BY <1>2, <1>3, <2>1, <3>1
    <3>2. CASE o # p
      BY <1>2, <1>3, <2>1, <3>2
    <3>3. QED
      BY <2>1, <3>1, <3>2
  <2>2. QED
    BY <2>1 DEF OnePoll
<1>8. PollsSee'
  <2>1. ASSUME NEW o \in Polls, poll'[o].at \in {"asking", "writing"}, NEW n \in poll'[o].names \ excused'
        PROVE  FALSE
    <3>1. o # p /\ poll'[o] = poll[o]
      BY <1>2, <2>1
    <3>2. excused' = Names
      BY <1>3, <2>1, <3>1
    <3>3. poll[o].names \subseteq Names
      BY TypesOf
    <3>4. QED
      BY <2>1, <3>1, <3>2, <3>3
  <2>2. QED
    BY <2>1 DEF PollsSee
<1>9. ChangesAreNew'
  <2>1. ASSUME NEW o \in Polls \ {p}
        PROVE  /\ poll'[o].at # "publishing" => poll'[o].changes = {}
               /\ \A c, e \in poll'[o].changes : c.name = e.name => c = e
               /\ \A c \in poll'[o].changes : c.name \in excused'
    <3>1. poll'[o] = poll[o] /\ \A c \in poll[o].changes : c.name \in Names
      BY <1>2, TypesOf
    <3>2. poll[o].at = "publishing" => excused' = Names
      BY <1>3, <2>1
    <3>3. /\ poll[o].at # "publishing" => poll[o].changes = {}
          /\ \A c, e \in poll[o].changes : c.name = e.name => c = e
      BY <2>1 DEF TruthInv, ChangesAreNew
    <3>4. QED
      BY <3>1, <3>2, <3>3
  <2>2. \A c, e \in cs : c.name = e.name => c = e
    BY <1>2
  <2>3. ASSUME NEW c \in cs
        PROVE  c.name \in excused' \/ c.status = Current(c.name)'
    <3>1. PICK n \in names : c = [name |-> n, status |-> To(n)] /\ old[n] \notin {Silent, To(n)}
      BY <1>2
    <3>2. CASE n \in excused
      BY <1>2, <3>1, <3>2
    <3>3. CASE n \notin excused
      <4>1. Current(n)' = To(n)
        BY <1>4, <3>3
      <4>2. c.name = n /\ c.status = To(n)
        BY <3>1
      <4>3. QED
        BY <4>1, <4>2
    <3>4. QED
      BY <3>2, <3>3
  <2>4. QED
    BY <1>2, <2>1, <2>2, <2>3 DEF ChangesAreNew, cs
<1>10. StreamsTell'
  <2>1. ASSUME NEW s \in bus, NEW n \in Names \ excused', \A o \in Polls : \A c \in poll'[o].changes : c.name # n
        PROVE  Told(s, n) = Current(n)'
    <3>1. n \notin excused /\ \A o \in Polls \ {p} : \A c \in poll[o].changes : c.name # n
      BY <1>2, <2>1
    <3>2. poll[p].changes = {}
      BY <1>1 DEF TruthInv, ChangesAreNew
    <3>3. Told(s, n) = Current(n)
      BY <3>1, <3>2, <2>1 DEF TruthInv, StreamsTell
    <3>4. CASE n \notin names
      BY <1>5, <2>1, <3>3, <3>4
    <3>5. CASE n \in names
      <4>1. old[n] # Silent
        BY <1>2, <2>1, <3>5
      <4>2. old[n] = To(n)
        <5>1. SUFFICES ASSUME old[n] # To(n) PROVE FALSE
          OBVIOUS
        <5>2. [name |-> n, status |-> To(n)] \in cs
          BY <1>2, <3>5, <4>1, <5>1
        <5>3. [name |-> n, status |-> To(n)].name # n
          BY <2>1, <5>2 DEF cs
        <5>4. QED
          BY <5>3
      <4>3. Current(n)' = To(n) /\ Current(n) = old[n]
        BY <1>4, <3>1, <3>5, <4>1
      <4>4. QED
        BY <3>3, <4>2, <4>3
    <3>6. QED
      BY <3>4, <3>5
  <2>2. QED
    BY <1>2, <2>1 DEF StreamsTell
<1>11. QED
  BY <1>6, <1>7, <1>8, <1>9, <1>10 DEF TruthInv

\* Publishing brings every open stream to what the table says.
LEMMA PublishTruth ==
    ASSUME TypesInv, TruthInv, NEW p \in Polls, Publish(p)
    PROVE  TruthInv'
<1> DEFINE cs == poll[p].changes q == SetToSeq(cs)
           Sent(s) == [s EXCEPT !.queue = @ \o q]
<1>1. /\ UNCHANGED <<day, status, excused>> /\ bus' = {Sent(s) : s \in bus} /\ poll[p].at = "publishing"
      /\ DOMAIN poll = Polls /\ \A o \in Polls \ {p} : poll'[o] = poll[o] /\ poll'[p] = NoPoll
      /\ bus \subseteq Stream /\ excused \subseteq Names /\ day \in Nat
      /\ poll'[p] = NoPoll
  BY TypesOf DEF Publish
<1>2. \A n : Current(n)' = Current(n)
  BY <1>1, CurrentStays
<1>3. /\ q \in Seq(Change) /\ q \in Seq(cs)
      /\ \A c \in cs : \E i \in DOMAIN q : q[i] = c
      /\ \A i, j \in DOMAIN q : q[i] = q[j] => i = j
      /\ \A i \in DOMAIN q : q[i] \in cs
  <2>1. IsFiniteSet(cs) /\ cs \subseteq Change
    BY DEF TypesInv, EventsTypeOK, ChangesFinite
  <2> HIDE DEF cs
  <2>2. /\ q \in Seq(cs) /\ \A c \in cs : \E i \in DOMAIN q : q[i] = c
        /\ \A i, j \in DOMAIN q : q[i] = q[j] => i = j
    BY <2>1, SetToSeqListsAll
  <2> HIDE DEF q
  <2>3. QED
    BY <2>1, <2>2
<1>4. OncePerName(q)
  <2>1. \A c, e \in cs : c.name = e.name => c = e
    BY DEF TruthInv, ChangesAreNew
  <2> HIDE DEF cs, q
  <2>2. QED
    BY <2>1, <1>3 DEF OncePerName
<1>5. ASSUME NEW s \in bus
      PROVE  /\ Sent(s) \in Stream /\ Sent(s).queue = s.queue \o q /\ Sent(s).told = s.told
  <2>1. s \in Stream /\ s.queue \o q \in Seq(Change)
    BY <1>1, <1>3 DEF Stream
  <2> HIDE DEF q
  <2>2. QED
    BY <2>1 DEF Stream
<1>6. NoFuture'
  BY <1>1 DEF TruthInv, NoFuture, NoPoll
<1>7. OnePoll' /\ PollsSee'
  BY <1>1 DEF TruthInv, OnePoll, PollsSee, NoPoll
<1>8. ChangesAreNew'
  BY <1>1, <1>2 DEF TruthInv, ChangesAreNew, NoPoll
<1>9. StreamsTell'
  <2>1. ASSUME NEW s \in bus, NEW n \in Names \ excused,
               \A o \in Polls : \A c \in poll'[o].changes : c.name # n
        PROVE  Told(Sent(s), n) = Current(n)
    <3>1. \A o \in Polls \ {p} : \A c \in poll[o].changes : c.name # n
      BY <1>1, <2>1
    <3>2. CASE \A i \in DOMAIN q : q[i].name # n
      <4>1. \A c \in cs : c.name # n
        <5> HIDE DEF q, cs
        <5>1. QED
          BY <1>3, <3>2
      <4>2. Told(s, n) = Current(n)
        BY <2>1, <3>1, <4>1 DEF TruthInv, StreamsTell
      <4>3. Told(Sent(s), n) = Told(s, n)
        <5> HIDE DEF q, Sent
        <5>1. QED
          BY <1>1, <1>3, <1>4, <1>5, <3>2, QueueingTells
      <4>4. QED
        BY <4>2, <4>3
    <3>3. ASSUME NEW i \in DOMAIN q, q[i].name = n
          PROVE  Told(Sent(s), n) = Current(n)
      <4>1. q[i] \in cs
        BY <1>3, <3>3
      <4>2. q[i].status = Current(n)
        <5> HIDE DEF q
        <5>1. QED
          BY <2>1, <3>3, <4>1 DEF TruthInv, ChangesAreNew
      <4>3. Told(Sent(s), n) = q[i].status
        <5> HIDE DEF q, Sent
        <5>1. QED
          <6>1. PICK t \in Stream : t = Sent(s) /\ t.queue = s.queue \o q /\ t.told = s.told
            BY <1>5
          <6>2. s \in Stream /\ q \in Seq(Change) /\ n \in Names
            BY <1>1, <1>3
          <6>3. Told(t, n) = q[i].status
            BY ONLY <6>1, <6>2, <1>4, <3>3, QueueingTells
          <6>4. QED
            BY <6>1, <6>3
      <4>4. QED
        BY <4>2, <4>3
    <3>4. QED
      BY <3>2, <3>3
  <2> HIDE DEF Sent
  <2>2. QED
    BY <1>1, <1>2, <2>1 DEF StreamsTell
<1>10. QED
  BY <1>6, <1>7, <1>8, <1>9 DEF TruthInv

LEMMA TruthStep == TypesInv /\ TruthInv /\ [Next]_pageVars => TruthInv'
<1> SUFFICES ASSUME TypesInv, TruthInv, [Next]_pageVars
             PROVE  TruthInv'
  OBVIOUS
<1>1. CASE UNCHANGED <<catalogue, eventsOwn>>
  BY <1>1, TruthStays DEF eventsOwn, feed
<1>2. CASE EventsNext
  <2>1. CASE CatalogueNext /\ UNCHANGED eventsOwn
    BY <2>1, TruthStays DEF eventsOwn, feed
  <2>2. ASSUME NEW n \in Names, NEW h \in Health \cup {Silent}, HealthChanges(n, h)
        PROVE  TruthInv'
    BY <2>2, TruthStays DEF HealthChanges, feed
  <2>3. ASSUME NEW n \in Names, NEW h \in Settable, SetStatus(n, h)
        PROVE  TruthInv'
    BY <2>3, SettingExcuses
  <2>4. CASE DayBegins
    BY <2>4, DayKeepsTruth
  <2>5. CASE RefreshServices
    BY <2>5, TruthStays DEF RefreshServices, eventsOwn, feed
  <2>6. ASSUME NEW p \in Polls, Poll(p)
        PROVE  TruthInv'
    BY <2>6, QuietPollTruth, WriteTruth, PublishTruth DEF Poll
  <2>7. CASE \E s \in bus : StreamStep(s)
    BY <2>7, StreamTruth
  <2>8. ASSUME NEW b \in Pages, Page(b)
        PROVE  TruthInv'
    <3>1. CASE Connect(b) \/ StreamBreaks(b)
      BY <3>1, StreamTruth
    <3>2. CASE Refused(b) \/ TimerFires(b)
      BY <3>2, TruthStays DEF Refused, TimerFires
    <3>3. QED
      BY <2>8, <3>1, <3>2 DEF Page
  <2>9. CASE GoDown
    BY <2>9, DownTruth
  <2>10. CASE GoUp
    BY <2>10, TruthStays DEF GoUp, feed
  <2>11. QED
    BY <1>2, <2>1, <2>2, <2>3, <2>4, <2>5, <2>6, <2>7, <2>8, <2>9, <2>10 DEF EventsNext
<1>3. QED
  BY <1>1, <1>2, StepCases

\* What a client learns that loads the page, opens a stream and reads on is what
\* the table says, for any number of polls, streams and services, and wherever
\* streams break and the process stops (event_bus.py, routers/sse.py): but for
\* what no event tells.
THEOREM StreamsTellTheTable == Spec => []StreamsTell
<1>1. Init => TruthInv
  BY TruthStarts DEF Init
<1>2. TruthInv => StreamsTell
  BY DEF TruthInv
<1>3. QED
  BY <1>1, <1>2, TypesHold, TruthStep, PTL DEF Spec

-----------------------------------------------------------------------------
(* The headline and the bars.                                              *)

\* Incidents have begun, and end on a day if at all.
IncType == [of: Names \cup Earlier, kind: Kinds, from: Days, to: Days \cup {NoEnd}, resolved: BOOLEAN,
            changed: Days, suppressed: BOOLEAN]
IncsInv == incs \subseteq IncType /\ \A i \in incs : i.from <= day

LEMMA IncsStart == Init => IncsInv
<1> SUFFICES ASSUME Init PROVE IncsInv
  OBVIOUS
<1>1. 0 \in Days /\ day = 0
  BY EventsAssumption DEF Init, EventsInit, Days
<1>2. ASSUME NEW i \in incs
      PROVE  i \in IncType /\ i.from = 0
  BY <1>1 DEF Init, IncType
<1>3. QED
  BY <1>1, <1>2 DEF IncsInv

LEMMA IncsStep == TypesInv /\ IncsInv /\ [Next]_pageVars => IncsInv'
<1> SUFFICES ASSUME TypesInv, IncsInv, [Next]_pageVars
             PROVE  IncsInv'
  OBVIOUS
<1>1. day \in Days /\ day \in Nat /\ \A i \in incs : i \in IncType /\ i.from \in Nat /\ i.from <= day
  BY TypesOf, EventsAssumption DEF IncsInv, IncType, Days
<1>2. day' \in Days /\ day' \in Nat /\ day <= day'
  <2>1. day' = day \/ day' = day + 1
    BY DEF Next, EventsNext, pageVars, eventVars, eventsOwn, HealthChanges, SetStatus, DayBegins, RefreshServices, Poll,
           PollReads, Overviews, WriteOverviews, PollFails, Publish, StreamStep, Page, Connect, StreamBreaks, Refused,
           TimerFires, GoDown, GoUp, Report, CreateMaintenance, Added, Resolve, Reopen, Suppress
  <2>2. day' \in Days
    BY TypesStep DEF TypesInv, EventsTypeOK
  <2>3. QED
    BY <1>1, <2>1, <2>2
<1>3. CASE UNCHANGED incs
  BY <1>1, <1>2, <1>3 DEF IncsInv
<1>4. ASSUME NEW new \in IncType, new.from <= day, incs' \subseteq incs \cup {new}
      PROVE  IncsInv'
  <2>1. new.from \in Nat
    BY EventsAssumption DEF IncType, Days
  <2>2. QED
    BY <1>1, <1>2, <1>4, <2>1 DEF IncsInv
<1>5. ASSUME NEW n \in Names, NEW k \in Kinds, Added(n, k)
      PROVE  IncsInv'
  <2> DEFINE new == [of |-> n, kind |-> k, from |-> day, to |-> NoEnd, resolved |-> FALSE, changed |-> day,
                     suppressed |-> FALSE]
  <2>1. new \in IncType /\ new.from <= day
    BY <1>1 DEF IncType
  <2>2. incs' = incs \cup {new}
    BY <1>5 DEF Added
  <2> HIDE DEF new
  <2>3. QED
    BY <1>4, <2>1, <2>2
<1>6. ASSUME NEW i \in incs, NEW to \in {day, NoEnd}, Resolve(i, to)
      PROVE  IncsInv'
  <2> DEFINE new == [i EXCEPT !.resolved = TRUE, !.to = to, !.changed = day]
  <2>1. new \in IncType /\ new.from <= day
    BY <1>1 DEF IncType
  <2>2. incs' = (incs \ {i}) \cup {new}
    BY <1>6 DEF Resolve, Change1
  <2> HIDE DEF new
  <2>3. QED
    BY <1>4, <2>1, <2>2
<1>7. ASSUME NEW i \in incs, Reopen(i)
      PROVE  IncsInv'
  <2> DEFINE new == [i EXCEPT !.resolved = FALSE, !.from = day, !.changed = day]
  <2>1. new \in IncType /\ new.from <= day
    <3>1. i \in IncType
      BY <1>1
    <3>2. new \in IncType /\ new.from = day
      BY <1>1, <3>1 DEF IncType
    <3> HIDE DEF new
    <3>3. QED
      BY <1>1, <3>2
  <2>2. incs' = (incs \ {i}) \cup {new}
    BY <1>7 DEF Reopen, Change1
  <2> HIDE DEF new
  <2>3. QED
    BY <1>4, <2>1, <2>2
<1>8. ASSUME NEW i \in incs, Suppress(i)
      PROVE  IncsInv'
  <2> DEFINE other == ~i.suppressed
             new == [i EXCEPT !.suppressed = other]
  <2>1. new \in IncType /\ new.from <= day
    <3>1. other \in BOOLEAN
      OBVIOUS
    <3> HIDE DEF other
    <3>2. QED
      BY <1>1, <3>1 DEF IncType
  <2>2. incs' = (incs \ {i}) \cup {new}
    BY <1>8 DEF Suppress, Change1
  <2> HIDE DEF new
  <2>3. QED
    BY <1>4, <2>1, <2>2
<1>9. QED
  BY <1>3, <1>5, <1>6, <1>7, <1>8 DEF Next, Report, CreateMaintenance, pageVars

LEMMA LatestOf ==
    ASSUME NEW S \in SUBSET Nat, IsFiniteSet(S), S # {}
    PROVE  Latest(S) \in S /\ \A e \in S : e <= Latest(S)
<1>1. \E d \in S : \A e \in S : e <= d
  BY Largest
<1>2. QED
  BY <1>1 DEF Latest

\* An open incident covers today, unless its end has passed.
LEMMA OpenCoversToday ==
    ASSUME TypesInv, IncsInv, NEW i \in incs, ~i.resolved, i.to = NoEnd \/ i.to >= day
    PROVE  i.from <= day /\ day <= BarEnd(i)
<1> DEFINE last == IF i.to # NoEnd THEN i.to ELSE IF i.resolved THEN i.changed ELSE day
           S == {i.from, last}
<1>1. i.from \in Nat /\ i.from <= day /\ day \in Nat /\ last \in Nat /\ day <= last
  <2>1. i \in IncType /\ i.from <= day /\ day \in Nat
    BY TypesOf DEF IncsInv
  <2>2. i.from \in Nat /\ (i.to # NoEnd => i.to \in Nat)
    BY <2>1, EventsAssumption DEF IncType, Days
  <2>3. QED
    BY <2>1, <2>2
<1> HIDE DEF last
<1>2. S \in SUBSET Nat /\ IsFiniteSet(S) /\ S # {} /\ last \in S
  <2>1. IsFiniteSet({i.from} \cup {last})
    BY FS_Singleton, FS_Union
  <2>2. S = {i.from} \cup {last}
    OBVIOUS
  <2>3. QED
    BY <1>1, <2>1, <2>2
<1>3. BarEnd(i) = Latest(S)
  BY DEF BarEnd, last
<1> HIDE DEF S
<1>4. Latest(S) \in Nat /\ last <= Latest(S)
  BY <1>2, LatestOf
<1>5. QED
  BY <1>1, <1>3, <1>4

LEMMA HeadlineBarred ==
    ASSUME TypesInv, IncsInv
    PROVE  HeadlineIsInBars
<1> SUFFICES ASSUME \A i \in incs : i.resolved \/ i.to = NoEnd \/ i.to >= day, Overall = Rank("degraded")
             PROVE  \E n \in Enabled : Bar(n, day) # "operational"
  BY DEF HeadlineIsInBars
<1>1. \A s : Rank(s) \in 0..3 /\ (Rank(s) = 2 <=> s = "degraded")
  BY DEF Rank
<1>2. PICK n \in Enabled : Badge(n) = "degraded"
  <2> DEFINE S == {Rank(Badge(n)) : n \in Enabled} \cup {0}
  <2>1. S \in SUBSET (0..3) /\ S # {}
    BY <1>1
  <2>2. S \in SUBSET Nat /\ IsFiniteSet(S)
    <3> HIDE DEF S
    <3>1. QED
      <4>1. S \in SUBSET Nat /\ \A r \in S : r <= 3
        BY <2>1
      <4>2. 3 \in Nat
        OBVIOUS
      <4>3. QED
        BY ONLY <4>1, <4>2, FS_BoundedSetOfNaturals
  <2>3. Overall \in S
    <3>1. Overall = Latest(S)
      BY DEF Overall
    <3> HIDE DEF S
    <3>2. QED
      BY <2>1, <2>2, <3>1, LatestOf
  <2>4. Overall = 2
    BY <1>1
  <2>5. QED
    BY <1>1, <2>3, <2>4
<1>3. PICK i \in incs : i.of = n /\ i.kind.class = "incident" /\ ~i.resolved /\ ~i.suppressed
  BY <1>2 DEF Badge
<1>4. i.from <= day /\ day <= BarEnd(i)
  BY <1>3, OpenCoversToday
<1> DEFINE painting == {j \in incs : /\ j.of = n /\ j.kind.class = "incident" /\ ~j.suppressed
                                     /\ j.from <= day /\ day <= BarEnd(j)}
           row == IF status[n][day] = Silent THEN "operational" ELSE status[n][day]
           worst == IF \E j \in painting : BarStatus(j) = "interrupted" THEN "interrupted" ELSE "degraded"
<1>5. i \in painting
  BY <1>3, <1>4
<1>6. Bar(n, day) = Worse(row, worst)
  BY <1>5 DEF Bar
<1>7. worst \in {"degraded", "interrupted"}
  OBVIOUS
<1> HIDE DEF worst, row
<1>8. Worse(row, worst) # "operational"
  BY <1>7 DEF Worse, Rank
<1>9. QED
  BY <1>6, <1>8

\* A headline of "degraded" stands above a bar that is not green today, though
\* the two are computed from different rows (crud.py: the newest status and the
\* open incidents, against the days incidents cover): unless an open incident
\* has an end that has passed.
THEOREM HeadlineHasABar == Spec => []HeadlineIsInBars
<1>1. TypesInv /\ IncsInv => HeadlineIsInBars
  BY HeadlineBarred
<1>2. QED
  BY <1>1, IncsStart, IncsStep, TypesHold, PTL DEF Spec
=============================================================================

-------------------------- MODULE IngestionProofs ---------------------------
(***************************************************************************)
(* Proofs about Ingestion, for any sources, threads and limits.            *)
(***************************************************************************)
EXTENDS Ingestion, FiniteSetTheorems, TLAPS

-----------------------------------------------------------------------------
(* Lists of ids.                                                           *)

\* A nonempty set of places has a greatest one.
LEMMA GreatestPlace ==
    ASSUME NEW n \in Nat, NEW T, T \subseteq 1..n, T # {}
    PROVE  \E i \in T : \A j \in T : j <= i
<1> DEFINE Gaps == {n - i : i \in T}
<1>1. Gaps \subseteq Nat /\ Gaps # {}
  <2>1. \A i \in T : n - i \in Nat
    OBVIOUS
  <2>2. PICK i \in T : TRUE
    OBVIOUS
  <2>3. n - i \in Gaps
    BY <2>2
  <2>4. QED
    BY <2>1, <2>3
<1>2. PICK g \in Gaps : \A h \in Gaps : ~(<<h, g>> \in OpToRel(<, Nat))
  BY <1>1, NatLessThanWellFounded, WFMin
<1>3. \A h \in Gaps : ~(h < g)
  BY <1>1, <1>2 DEF OpToRel
<1>4. PICK i \in T : g = n - i
  BY <1>2
<1>5. \A j \in T : n - j \in Gaps
  OBVIOUS
<1>6. \A j \in T : j <= i
  BY <1>3, <1>4, <1>5
<1>7. QED
  BY <1>6

\* The ids from a place on, place by place.
LEMMA IdsStep ==
    ASSUME NEW S, NEW items \in Seq(S)
    PROVE  /\ IdsFrom(items, Len(items) + 1) = {}
           /\ \A i \in DOMAIN items : IdsFrom(items, i) = IdsFrom(items, i + 1) \cup {items[i]}
           /\ \A i, j \in Nat : i <= j => IdsFrom(items, j) \subseteq IdsFrom(items, i)
           /\ IdsFrom(items, 1) = ToSet(items)
BY DEF IdsFrom, ToSet

\* There are finitely many ids from a place on, and each place adds at most one.
LEMMA IdsCount ==
    ASSUME NEW S, NEW items \in Seq(S), NEW i \in Nat
    PROVE  /\ IsFiniteSet(IdsFrom(items, i)) /\ Cardinality(IdsFrom(items, i)) \in Nat
           /\ i \in DOMAIN items =>
                 Cardinality(IdsFrom(items, i)) =
                     IF items[i] \in IdsFrom(items, i + 1) THEN Cardinality(IdsFrom(items, i + 1))
                     ELSE Cardinality(IdsFrom(items, i + 1)) + 1
<1>1. ASSUME NEW h \in Nat
      PROVE  IsFiniteSet(IdsFrom(items, h)) /\ Cardinality(IdsFrom(items, h)) \in Nat
  <2> DEFINE f == [j \in h..Len(items) |-> items[j]]
  <2>1. f \in Surjection(h..Len(items), IdsFrom(items, h))
    BY DEF Surjection, IdsFrom
  <2>2. IsFiniteSet(h..Len(items))
    BY FS_Interval
  <2>3. IsFiniteSet(IdsFrom(items, h))
    BY <2>1, <2>2, FS_Surjection
  <2>4. QED
    BY <2>3, FS_CardinalityType
<1>2. ASSUME i \in DOMAIN items
      PROVE  Cardinality(IdsFrom(items, i)) =
                 IF items[i] \in IdsFrom(items, i + 1) THEN Cardinality(IdsFrom(items, i + 1))
                 ELSE Cardinality(IdsFrom(items, i + 1)) + 1
  <2> DEFINE rest == IdsFrom(items, i + 1)
  <2>1. IdsFrom(items, i) = rest \cup {items[i]}
    BY <1>2, IdsStep
  <2>2. IsFiniteSet(rest)
    BY <1>1
  <2> HIDE DEF rest
  <2>3. Cardinality(rest \cup {items[i]}) =
            IF items[i] \in rest THEN Cardinality(rest) ELSE Cardinality(rest) + 1
    BY <2>2, FS_AddElement
  <2>4. QED
    BY <2>1, <2>3 DEF rest
<1>3. QED
  BY <1>1, <1>2

\* The place at which _dedupe_tail appends its m-th id.
AppendsAt(items, i, m) ==
    /\ i \in DOMAIN items
    /\ items[i] \notin IdsFrom(items, i + 1)
    /\ Cardinality(IdsFrom(items, i)) = m

\* Every m up to the number of ids has such a place.
LEMMA AppendsSomewhere ==
    ASSUME NEW S, NEW items \in Seq(S), NEW m \in 1..Cardinality(IdsFrom(items, 1))
    PROVE  \E i : AppendsAt(items, i, m)
<1>0. \A i \in Nat : Cardinality(IdsFrom(items, i)) \in Nat
  BY IdsCount
<1> DEFINE T == {i \in 1..Len(items) : Cardinality(IdsFrom(items, i)) >= m}
<1>1. Len(items) \in Nat /\ DOMAIN items = 1..Len(items)
  OBVIOUS
<1>2. Cardinality(IdsFrom(items, Len(items) + 1)) = 0
  BY IdsStep, FS_EmptySet
<1>3. m \in Nat /\ m >= 1 /\ Cardinality(IdsFrom(items, 1)) >= m
  BY <1>0
<1>4. 1 \in T
  <2>1. Len(items) # 0
    BY <1>2, <1>3
  <2>2. QED
    BY <1>1, <1>3, <2>1
<1>5. PICK i \in T : \A j \in T : j <= i
  <2>1. T \subseteq 1..Len(items) /\ T # {}
    BY <1>4
  <2> HIDE DEF T
  <2>2. QED
    BY <1>1, <2>1, GreatestPlace
<1>6. i \in Nat /\ i \in 1..Len(items) /\ i \in DOMAIN items /\ Cardinality(IdsFrom(items, i)) >= m
  BY <1>1, <1>5
<1> DEFINE here == Cardinality(IdsFrom(items, i))
           rest == Cardinality(IdsFrom(items, i + 1))
<1>7. here \in Nat /\ rest \in Nat
  <2>1. i + 1 \in Nat
    BY <1>6
  <2>2. QED
    BY <1>0, <1>6, <2>1
<1>8. ~(rest >= m)
  <2>1. CASE i = Len(items)
    BY <1>2, <1>3, <2>1
  <2>2. CASE i # Len(items)
    <3>1. i + 1 \in 1..Len(items)
      <4> DEFINE n == Len(items)
      <4>1. n \in Nat /\ i \in 1..n /\ i # n
        BY <1>1, <1>6, <2>2
      <4> HIDE DEF n
      <4>2. i + 1 \in 1..n
        BY <4>1
      <4>3. QED
        BY <4>2 DEF n
    <3>2. i + 1 \notin T
      <4> HIDE DEF T
      <4>1. QED
        BY <1>5, <1>6
    <3>3. QED
      BY <3>1, <3>2
  <2>3. QED
    BY <2>1, <2>2
<1>9. here = IF items[i] \in IdsFrom(items, i + 1) THEN rest ELSE rest + 1
  BY <1>6, IdsCount
<1>10. here >= m
  BY <1>6
<1>11. here = m /\ items[i] \notin IdsFrom(items, i + 1)
  <2> HIDE DEF here, rest
  <2>1. QED
    BY <1>3, <1>7, <1>8, <1>9, <1>10
<1>12. QED
  BY <1>6, <1>11 DEF AppendsAt

\* Places that append later ids come earlier in the list.
LEMMA AppendsInOrder ==
    ASSUME NEW S, NEW items \in Seq(S),
           NEW i, NEW m, AppendsAt(items, i, m),
           NEW j, NEW l, AppendsAt(items, j, l), l <= m
    PROVE  i <= j
<1>0. i \in Nat /\ j \in Nat
  BY DEF AppendsAt
<1> SUFFICES ASSUME j < i PROVE FALSE
  BY <1>0
<1>1. IdsFrom(items, i) \subseteq IdsFrom(items, j + 1)
  BY <1>0, IdsStep
<1>2. /\ IsFiniteSet(IdsFrom(items, j + 1)) /\ Cardinality(IdsFrom(items, j + 1)) \in Nat
      /\ Cardinality(IdsFrom(items, i)) \in Nat
  <2>1. \A h \in Nat : IsFiniteSet(IdsFrom(items, h)) /\ Cardinality(IdsFrom(items, h)) \in Nat
    BY IdsCount
  <2>2. j + 1 \in Nat
    BY <1>0
  <2>3. QED
    BY <1>0, <2>1, <2>2
<1>3. Cardinality(IdsFrom(items, i)) <= Cardinality(IdsFrom(items, j + 1))
  BY <1>1, <1>2, FS_Subset
<1>4. Cardinality(IdsFrom(items, j)) = Cardinality(IdsFrom(items, j + 1)) + 1
  BY <1>0, IdsCount DEF AppendsAt
<1>5. QED
  BY <1>2, <1>3, <1>4 DEF AppendsAt

\* What _dedupe_tail returns: its n-th id is the one appended at n from the end.
LEMMA DedupeTailList ==
    ASSUME NEW S, NEW items \in Seq(S), NEW limit \in Nat
    PROVE  LET k == Capped(Cardinality(IdsFrom(items, 1)), limit)
               kept == DedupeTail(items, limit)
           IN  /\ k \in Nat /\ k <= limit /\ k <= Cardinality(IdsFrom(items, 1))
               /\ kept \in Seq(S) /\ Len(kept) = k /\ DOMAIN kept = 1..k
               /\ \A n \in 1..k : \E i : AppendsAt(items, i, k + 1 - n) /\ kept[n] = items[i]
<1> DEFINE c == Cardinality(IdsFrom(items, 1))
           k == Capped(c, limit)
           kept == DedupeTail(items, limit)
           Place(m) == CHOOSE i \in DOMAIN items : /\ items[i] \notin IdsFrom(items, i + 1)
                                                   /\ Cardinality(IdsFrom(items, i)) = m
<1>1. c \in Nat
  BY IdsCount
<1>2. k \in Nat /\ k <= limit /\ k <= c
  BY <1>1 DEF Capped
<1>3. kept = [n \in 1..k |-> items[Place(k + 1 - n)]]
  BY DEF DedupeTail
<1>4. ASSUME NEW n \in 1..k
      PROVE  AppendsAt(items, Place(k + 1 - n), k + 1 - n)
  <2> DEFINE m == k + 1 - n
  <2>1. m \in 1..c
    <3> HIDE DEF k, c
    <3>1. QED
      BY <1>1, <1>2
  <2>2. \E i : AppendsAt(items, i, m)
    <3> HIDE DEF m
    <3>1. QED
      BY <2>1, AppendsSomewhere
  <2> HIDE DEF m
  <2>3. \E i \in DOMAIN items : /\ items[i] \notin IdsFrom(items, i + 1)
                                /\ Cardinality(IdsFrom(items, i)) = m
    BY <2>2 DEF AppendsAt
  <2>4. AppendsAt(items, Place(m), m)
    BY <2>3 DEF AppendsAt
  <2>5. QED
    BY <2>4 DEF m
<1> HIDE DEF k, Place, kept
<1>5. \A n \in 1..k : kept[n] = items[Place(k + 1 - n)]
  BY <1>3
<1>6. \A n \in 1..k : \E i : AppendsAt(items, i, k + 1 - n) /\ kept[n] = items[i]
  BY <1>4, <1>5
<1>7. \A n \in 1..k : kept[n] \in S
  BY <1>6 DEF AppendsAt
<1>8. kept \in [1..k -> S]
  BY <1>3, <1>7
<1>9. kept \in Seq(S) /\ Len(kept) = k /\ DOMAIN kept = 1..k
  BY <1>2, <1>8
<1>10. QED
  BY <1>2, <1>6, <1>9 DEF k, kept

\* What _dedupe_tail keeps was in the list and is in the list's order.
LEMMA DedupeTailOrder ==
    ASSUME NEW S, NEW items \in Seq(S), NEW limit \in Nat
    PROVE  /\ ToSet(DedupeTail(items, limit)) \subseteq ToSet(items)
           /\ \A a, b \in DOMAIN DedupeTail(items, limit) : a < b =>
                 \E i, j \in DOMAIN items :
                     /\ i <= j
                     /\ DedupeTail(items, limit)[a] = items[i] /\ DedupeTail(items, limit)[b] = items[j]
<1> DEFINE k == Capped(Cardinality(IdsFrom(items, 1)), limit)
           kept == DedupeTail(items, limit)
<1>1. /\ k \in Nat /\ DOMAIN kept = 1..k
      /\ \A n \in 1..k : \E i : AppendsAt(items, i, k + 1 - n) /\ kept[n] = items[i]
  BY DedupeTailList
<1> HIDE DEF k, kept
<1>2. ToSet(kept) \subseteq ToSet(items)
  BY <1>1 DEF ToSet, AppendsAt
<1>3. ASSUME NEW a \in DOMAIN kept, NEW b \in DOMAIN kept, a < b
      PROVE  \E i, j \in DOMAIN items : i <= j /\ kept[a] = items[i] /\ kept[b] = items[j]
  <2>1. PICK i : AppendsAt(items, i, k + 1 - a) /\ kept[a] = items[i]
    BY <1>1
  <2>2. PICK j : AppendsAt(items, j, k + 1 - b) /\ kept[b] = items[j]
    BY <1>1
  <2>3. k + 1 - b <= k + 1 - a
    BY <1>1, <1>3
  <2>4. i <= j
    BY <2>1, <2>2, <2>3, AppendsInOrder
  <2>5. QED
    BY <2>1, <2>2, <2>4 DEF AppendsAt
<1>4. QED
  BY <1>2, <1>3 DEF kept

\* An id stays if no more than limit ids, itself included, are at its last place
\* or after it.
LEMMA DedupeTailKeeps ==
    ASSUME NEW S, NEW items \in Seq(S), NEW limit \in Nat, NEW p \in DOMAIN items,
           items[p] \notin IdsFrom(items, p + 1),
           Cardinality(IdsFrom(items, p)) <= limit
    PROVE  items[p] \in ToSet(DedupeTail(items, limit))
<1> DEFINE c == Cardinality(IdsFrom(items, 1))
           k == Capped(c, limit)
           m == Cardinality(IdsFrom(items, p))
           kept == DedupeTail(items, limit)
<1>0. p \in Nat /\ 1 <= p
  OBVIOUS
<1>1. /\ k \in Nat /\ DOMAIN kept = 1..k
      /\ \A n \in 1..k : \E i : AppendsAt(items, i, k + 1 - n) /\ kept[n] = items[i]
  BY DedupeTailList
<1>2. c \in Nat /\ m \in Nat /\ m <= c
  <2>1. IdsFrom(items, p) \subseteq IdsFrom(items, 1)
    BY <1>0, IdsStep
  <2>2. QED
    BY <1>0, <2>1, IdsCount, FS_Subset
<1>3. m # 0
  <2>1. p + 1 \in Nat
    BY <1>0
  <2>2. Cardinality(IdsFrom(items, p + 1)) \in Nat
    BY <2>1, IdsCount
  <2>3. m = Cardinality(IdsFrom(items, p + 1)) + 1
    BY <1>0, IdsCount
  <2> HIDE DEF m
  <2>4. QED
    BY <2>2, <2>3
<1>4. AppendsAt(items, p, m)
  BY DEF AppendsAt
<1>5. m <= k
  BY <1>2 DEF Capped
<1> HIDE DEF m, k, kept
<1>6. k + 1 - m \in 1..k /\ k + 1 - (k + 1 - m) = m
  BY <1>1, <1>2, <1>3, <1>5
<1>7. PICK i : AppendsAt(items, i, m) /\ kept[k + 1 - m] = items[i]
  BY <1>1, <1>6
<1>8. i <= p /\ p <= i
  BY <1>2, <1>4, <1>7, AppendsInOrder
<1>9. i = p
  BY <1>0, <1>7, <1>8 DEF AppendsAt
<1>10. QED
  BY <1>1, <1>6, <1>7, <1>9 DEF kept, ToSet

\* The rows of a listing are its items, each in one place.
LEMMA RowsList ==
    ASSUME NEW n \in Nat, NEW got \in SUBSET (1..n)
    PROVE  Rows(got) \in Seq(got) /\ ToSet(Rows(got)) = got
<1> DEFINE c == Cardinality(got)
           rank == [i \in got |-> Cardinality({j \in got : j >= i})]
<1>1. IsFiniteSet(got) /\ c \in Nat
  <2>1. IsFiniteSet(1..n)
    BY FS_Interval
  <2>2. IsFiniteSet(got)
    BY <2>1, FS_Subset
  <2>3. QED
    BY <2>2, FS_CardinalityType
<1>2. \A i \in got : /\ IsFiniteSet({j \in got : j >= i})
                     /\ Cardinality({j \in got : j >= i}) \in Nat
                     /\ Cardinality({j \in got : j >= i}) <= c
  BY <1>1, FS_Subset, FS_CardinalityType
<1>3. ASSUME NEW i \in got, NEW h \in got, h < i
      PROVE  Cardinality({j \in got : j >= i}) # Cardinality({j \in got : j >= h})
  <2>0. got \subseteq Nat
    OBVIOUS
  <2>1. {j \in got : j >= i} \subseteq {j \in got : j >= h}
    <3> SUFFICES ASSUME NEW j \in got, j >= i PROVE j >= h
      OBVIOUS
    <3>1. j \in Nat /\ i \in Nat /\ h \in Nat
      BY <2>0
    <3>2. QED
      BY <1>3, <3>1
  <2>2. h \in got /\ h >= h /\ ~(h >= i)
    <3>1. h \in Nat /\ i \in Nat
      BY <2>0
    <3>2. QED
      BY <1>3, <3>1
  <2>3. h \in {j \in got : j >= h} /\ h \notin {j \in got : j >= i}
    BY <2>2
  <2>4. QED
    BY <1>2, <2>1, <2>3, FS_Subset
<1>4. rank \in Injection(got, 1..c)
  <2>1. ASSUME NEW i \in got
        PROVE  Cardinality({j \in got : j >= i}) # 0
    <3>1. i \in {j \in got : j >= i}
      OBVIOUS
    <3>2. QED
      BY <1>2, <3>1, FS_EmptySet
  <2>2. \A i \in got : rank[i] \in 1..c
    BY <1>1, <1>2, <2>1
  <2>3. \A i, h \in got : rank[i] = rank[h] => i = h
    BY <1>3
  <2>4. QED
    BY <2>2, <2>3 DEF Injection, IsInjective
<1>5. IsFiniteSet(1..c) /\ Cardinality(1..c) = c
  BY <1>1, FS_Interval
<1>6. rank \in Surjection(got, 1..c)
  <2> HIDE DEF rank
  <2>1. QED
    BY <1>4, <1>5, FS_Injection
<1>7. \A m \in 1..c : \E i \in got : Cardinality({j \in got : j >= i}) = m
  BY <1>6 DEF Surjection
<1>8. DOMAIN Rows(got) = 1..c /\ Rows(got) = [m \in 1..c |-> Rows(got)[m]]
  BY DEF Rows
<1>9. \A m \in 1..c : Rows(got)[m] \in got /\ Cardinality({j \in got : j >= Rows(got)[m]}) = m
  BY <1>7 DEF Rows
<1>10. Rows(got) \in Seq(got)
  <2>1. Rows(got) \in [1..c -> got]
    BY <1>8, <1>9
  <2> HIDE DEF c
  <2>2. QED
    BY <1>1, <2>1
<1>11. ASSUME NEW i \in got
       PROVE  i \in ToSet(Rows(got))
  <2>1. rank[i] \in 1..c
    BY <1>4 DEF Injection
  <2>2. rank[Rows(got)[rank[i]]] = rank[i] /\ Rows(got)[rank[i]] \in got
    BY <1>9, <2>1
  <2>3. Rows(got)[rank[i]] = i
    BY <1>4, <2>2 DEF Injection, IsInjective
  <2>4. QED
    BY <1>8, <2>1, <2>3 DEF ToSet
<1>12. QED
  BY <1>8, <1>9, <1>10, <1>11 DEF ToSet

-----------------------------------------------------------------------------
(* Cursors.                                                                *)

\* A key names a source.
LEMMA KeySource ==
    /\ \A k \in Keys : k[2] \in Sources
    /\ \A f \in Feeds : <<"rss", f>> \in Keys
    /\ \A w \in Web : <<"html", w>> \in Keys /\ <<"playwright", w>> \in Keys
    /\ Feeds \subseteq Sources /\ Web \subseteq Sources
BY DEF Keys, Sources

\* The fresh cursor and the empty map.
LEMMA NoCursorType ==
    /\ NoCursor \in Cursor /\ NoCursors \in [Keys -> Cursor]
    /\ ToSet(NoCursor.seen) = {} /\ Len(NoCursor.seen) = 0
    /\ Nothing \in [Sources -> SUBSET Items]
<1>1. Interval \in 0..Interval
  BY IngestionAssumption
<1>2. NoCursor \in Cursor /\ NoCursor.seen = <<>>
  BY <1>1 DEF NoCursor, Cursor
<1>3. QED
  BY <1>2 DEF NoCursors, Nothing, ToSet

\* What a fetch sees and what the cursor lets through.
LEMMA KeptListed ==
    ASSUME TypeOK, NEW s \in Sources, NEW c
    PROVE  /\ Listing(s) \subseteq 1..published[s] /\ published[s] \in 0..MaxItems
           /\ 1..published[s] \subseteq Items
           /\ \A i \in Listing(s) : i + MaxPerSource > published[s]
           /\ Kept(s, c) \subseteq Listing(s)
<1>1. published[s] \in 0..MaxItems
  BY DEF TypeOK
<1>2. Listing(s) \subseteq 1..published[s] /\ \A i \in Listing(s) : i + MaxPerSource > published[s]
  BY DEF Listing, Newest
<1>3. Kept(s, c) \subseteq Listing(s)
  BY DEF Kept, Overlap
<1>4. 1..published[s] \subseteq Items
  BY <1>1, IngestionAssumption DEF Items
<1>5. QED
  BY <1>1, <1>2, <1>3, <1>4

\* The list an advanced cursor was made of.
LEMMA AdvancedList ==
    ASSUME NEW n \in Nat, NEW c \in Cursor, NEW got \in SUBSET (1..n),
           ToSet(c.seen) \subseteq 1..n
    PROVE  LET items == c.seen \o Rows(got)
           IN  /\ items \in Seq(1..n)
               /\ ToSet(items) = ToSet(c.seen) \cup got
               /\ Len(items) = Len(c.seen) + Len(Rows(got))
               /\ \A i \in DOMAIN items :
                     IF i <= Len(c.seen) THEN i \in DOMAIN c.seen /\ items[i] = c.seen[i]
                     ELSE items[i] \in got
<1> DEFINE old == c.seen
           new == Rows(got)
<1>1. new \in Seq(got) /\ ToSet(new) = got
  BY RowsList
<1>2. old \in Seq(Items)
  BY DEF Cursor
<1>3. old \in Seq(1..n)
  <2>1. \A i \in DOMAIN old : old[i] \in 1..n
    BY DEF ToSet
  <2> HIDE DEF old
  <2>2. QED
    BY <1>2, <2>1
<1>4. new \in Seq(1..n)
  <2> HIDE DEF new
  <2>1. \A i \in DOMAIN new : new[i] \in 1..n
    <3>1. \A i \in DOMAIN new : new[i] \in got
      BY <1>1 DEF ToSet
    <3>2. QED
      BY <3>1
  <2>2. new \in [1..Len(new) -> 1..n] /\ Len(new) \in Nat
    <3>1. new \in [1..Len(new) -> got] /\ Len(new) \in Nat
      BY <1>1
    <3>2. QED
      BY <2>1, <3>1
  <2>3. QED
    BY <2>2
<1> HIDE DEF old, new
<1>5. /\ old \o new \in Seq(1..n)
      /\ Len(old \o new) = Len(old) + Len(new)
      /\ Len(old) \in Nat /\ Len(new) \in Nat
  BY <1>3, <1>4
<1>6. \A i \in DOMAIN (old \o new) :
          IF i <= Len(old) THEN i \in DOMAIN old /\ (old \o new)[i] = old[i]
          ELSE i - Len(old) \in DOMAIN new /\ (old \o new)[i] = new[i - Len(old)]
  BY <1>3, <1>4
<1>7. \A i \in DOMAIN new : new[i] \in got
  BY <1>1 DEF ToSet
<1>8. ToSet(old \o new) \subseteq ToSet(old) \cup ToSet(new)
  BY <1>6 DEF ToSet
<1>9. ToSet(old) \subseteq ToSet(old \o new)
  <2>1. \A i \in DOMAIN old : i \in DOMAIN (old \o new) /\ (old \o new)[i] = old[i]
    BY <1>3, <1>4
  <2>2. QED
    BY <2>1 DEF ToSet
<1>10. ToSet(new) \subseteq ToSet(old \o new)
  <2>1. \A i \in DOMAIN new : i + Len(old) \in DOMAIN (old \o new) /\ (old \o new)[i + Len(old)] = new[i]
    BY <1>3, <1>4
  <2>2. QED
    BY <2>1 DEF ToSet
<1>11. QED
  BY <1>1, <1>5, <1>6, <1>7, <1>8, <1>9, <1>10 DEF old, new

\* An advanced cursor has seen no more than it had and the rows of the fetch, and
\* remembers no more than the limit.
LEMMA AdvanceType ==
    ASSUME NEW n \in 0..MaxItems, NEW c \in Cursor, NEW got \in SUBSET (1..n),
           ToSet(c.seen) \subseteq 1..n, Len(c.seen) <= RecentLimit
    PROVE  /\ Advance(c, got) \in Cursor
           /\ ToSet(Advance(c, got).seen) \subseteq ToSet(c.seen) \cup got
           /\ Len(Advance(c, got).seen) <= RecentLimit
<1>1. CASE got = {}
  BY <1>1 DEF Advance
<1>2. CASE got # {}
  <2> DEFINE items == c.seen \o Rows(got)
             kept == DedupeTail(items, RecentLimit)
  <2>0. n \in Nat /\ RecentLimit \in Nat /\ 0 \in 0..Interval /\ 1..n \subseteq Items
    BY IngestionAssumption DEF Items
  <2>1. items \in Seq(1..n) /\ ToSet(items) = ToSet(c.seen) \cup got
    BY <2>0, AdvancedList
  <2> HIDE DEF items
  <2>2. kept \in Seq(1..n) /\ Len(kept) <= RecentLimit
    BY <2>0, <2>1, DedupeTailList
  <2>3. ToSet(kept) \subseteq ToSet(items)
    BY <2>0, <2>1, DedupeTailOrder
  <2>4. Advance(c, got) = [seen |-> kept, age |-> 0]
    BY <1>2 DEF Advance, items
  <2> HIDE DEF kept
  <2>5. kept \in Seq(Items)
    BY <2>0, <2>2
  <2>6. QED
    BY <2>0, <2>1, <2>2, <2>3, <2>4, <2>5 DEF Cursor
<1>3. QED
  BY <1>1, <1>2

-----------------------------------------------------------------------------
(* Steps.                                                                  *)

\* A source answers: which cursor is read and which is written depends on the
\* source alone, except that a page may be parsed or browsed.
Delivery(p, s, from, to, got) ==
    /\ s \in todo[p]
    /\ from \in Keys /\ from[2] = s /\ to \in Keys /\ to[2] = s
    /\ s \in Feeds => from = <<"rss", s>>
    /\ s \in Forced => from = <<"playwright", s>>
    /\ s \in Steady => to = from
    /\ got \subseteq Kept(s, book[p][from])
    /\ s \in Steady \ (Forced \cap Flaky) => got = Kept(s, book[p][from])
    /\ Deliver(p, s, from, to, got)

\* Every step publishes, lets time pass, begins or ends a call, or finishes a
\* source of a call.
LEMMA NextSorts ==
    ASSUME [Next]_vars
    PROVE  \/ \E s \in Sources : Publish(s)
           \/ Tick
           \/ \E p \in Threads : Start(p) \/ SaveCursors(p) \/ Return(p) \/ Abort(p)
           \/ \E p \in Threads, s \in Sources : Skip(p, s)
           \/ \E p \in Threads, s \in Sources : \E from, to, got : Delivery(p, s, from, to, got)
           \/ UNCHANGED vars
<1> USE KeySource
<1>0. Feeds \cap Web = {} /\ Forced \subseteq Web
  BY IngestionAssumption
<1>1. ASSUME NEW p \in Threads, NEW f \in Feeds, FeedDelivers(p, f)
      PROVE  \E from, to, got : Delivery(p, f, from, to, got)
  <2>1. Delivery(p, f, <<"rss", f>>, <<"rss", f>>, Kept(f, book[p][<<"rss", f>>]))
    BY <1>0, <1>1 DEF FeedDelivers, Delivery, Steady
  <2>2. QED
    BY <2>1
<1>2. \A kept : \A w \in Web : \A got \in Opened(w, kept) : got \subseteq kept
  BY DEF Opened
<1>20. \A kept : \A w \in Web \ Flaky : \A got \in Opened(w, kept) : got = kept
  BY DEF Opened
<1>3. ASSUME NEW p \in Threads, NEW w \in Web, PageParsed(p, w)
      PROVE  \E from, to, got : Delivery(p, w, from, to, got)
  <2>1. PICK got \in Opened(w, Kept(w, book[p][<<"playwright", w>>])) :
            Deliver(p, w, <<"playwright", w>>, <<"html", w>>, got)
    BY <1>3 DEF PageParsed
  <2>2. Delivery(p, w, <<"playwright", w>>, <<"html", w>>, got)
    BY <1>0, <1>2, <1>3, <2>1 DEF PageParsed, WebTurn, Delivery, Steady
  <2>3. QED
    BY <2>2
<1>4. ASSUME NEW p \in Threads, NEW w \in Web, PageBrowsed(p, w)
      PROVE  \E from, to, got : Delivery(p, w, from, to, got)
  <2>1. PICK got \in Opened(w, Kept(w, book[p][<<"playwright", w>>])) :
            Deliver(p, w, <<"playwright", w>>, <<"playwright", w>>, got)
    BY <1>4 DEF PageBrowsed
  <2>2. Delivery(p, w, <<"playwright", w>>, <<"playwright", w>>, got)
    BY <1>0, <1>2, <1>20, <1>4, <2>1 DEF PageBrowsed, WebTurn, Delivery, Steady
  <2>3. QED
    BY <2>2
<1>5. ASSUME NEW p \in Threads, IngestStep(p)
      PROVE  \/ Start(p) \/ SaveCursors(p) \/ Return(p)
             \/ \E s \in Sources : Skip(p, s)
             \/ \E s \in Sources : \E from, to, got : Delivery(p, s, from, to, got)
  <2>1. ASSUME NEW f \in Feeds, FeedFails(p, f)
        PROVE  Skip(p, f)
    BY <2>1 DEF FeedFails
  <2>2. ASSUME NEW w \in Web, PageSkipped(p, w) \/ PageFails(p, w)
        PROVE  Skip(p, w)
    BY <2>2 DEF PageSkipped, PageFails
  <2>3. QED
    BY <1>1, <1>3, <1>4, <1>5, <2>1, <2>2 DEF IngestStep
<1>6. QED
  BY <1>5 DEF Next

-----------------------------------------------------------------------------
(* Type correctness.                                                       *)

\* A map of cursors holds no id that its source did not publish, and no more ids
\* than the limit.
Fits(map, pub) ==
    \A k \in Keys : ToSet(map[k].seen) \subseteq 1..pub[k[2]] /\ Len(map[k].seen) <= RecentLimit

\* The types, with the cursor maps named.
LEMMA TypeParts ==
    TypeOK <=> /\ published \in [Sources -> 0..MaxItems]
               /\ pc \in [Threads -> {"idle", "ingesting", "saved"}]
               /\ cursors \in [Keys -> Cursor]
               /\ book \in [Threads -> [Keys -> Cursor]]
               /\ Fits(cursors, published)
               /\ \A p \in Threads : Fits(book[p], published)
               /\ todo \in [Threads -> SUBSET Sources]
               /\ out \in [Threads -> [Sources -> SUBSET Items]]
               /\ recorded \in [Sources -> SUBSET Items]
               /\ delivered \in [Sources -> SUBSET Items]
               /\ lost \in [Sources -> SUBSET Items]
               /\ faults \in 0..MaxFaults
BY DEF TypeOK, Fits

\* The empty map fits.
LEMMA NoCursorsFit == \A pub : Fits(NoCursors, pub)
<1>1. RecentLimit \in Nat /\ \A k \in Keys : NoCursors[k] = NoCursor
  BY IngestionAssumption DEF NoCursors
<1>2. QED
  BY <1>1, NoCursorType DEF Fits

\* Time changes no list.
LEMMA OlderKeeps ==
    ASSUME NEW c \in Cursor
    PROVE  Older(c) \in Cursor /\ Older(c).seen = c.seen
BY IngestionAssumption DEF Older, Cursor

\* The types hold at the start.
LEMMA InitType == Init => TypeOK
<1> SUFFICES ASSUME Init PROVE TypeOK
  OBVIOUS
<1>1. 0 \in 0..MaxItems /\ 0 \in 0..MaxFaults
  BY IngestionAssumption
<1>2. QED
  BY <1>1, NoCursorType, NoCursorsFit, TypeParts DEF Init, Nothing

\* The end of a call leaves the types of what it resets.
LEMMA EndType ==
    ASSUME TypeOK, NEW p \in Threads, End(p)
    PROVE  /\ pc' \in [Threads -> {"idle", "ingesting", "saved"}]
           /\ book' \in [Threads -> [Keys -> Cursor]]
           /\ \A q \in Threads : Fits(book'[q], published)
           /\ todo' \in [Threads -> SUBSET Sources]
           /\ out' \in [Threads -> [Sources -> SUBSET Items]]
<1>1. \A q \in Threads : Fits(book[q], published)
  BY TypeParts
<1>2. book' = [book EXCEPT ![p] = NoCursors] /\ book \in [Threads -> [Keys -> Cursor]]
  BY DEF End, TypeOK
<1>3. \A q \in Threads : Fits(book'[q], published)
  <2>1. \A q \in Threads : book'[q] = book[q] \/ book'[q] = NoCursors
    BY <1>2
  <2>2. QED
    BY <1>1, <2>1, NoCursorsFit
<1>4. QED
  BY <1>2, <1>3, NoCursorType DEF End, TypeOK

\* An answer leaves the types of the cursor and the items it adds.
LEMMA DeliveryType ==
    ASSUME TypeOK, NEW p \in Threads, NEW s \in Sources, NEW from, NEW to, NEW got,
           Delivery(p, s, from, to, got)
    PROVE  /\ got \subseteq Listing(s) /\ got \subseteq 1..published[s] /\ got \subseteq Items
           /\ published[s] \in 0..MaxItems
           /\ book[p][from] \in Cursor
           /\ ToSet(book[p][from].seen) \subseteq 1..published[s]
           /\ Len(book[p][from].seen) <= RecentLimit
           /\ Advance(book[p][from], got) \in Cursor
           /\ ToSet(Advance(book[p][from], got).seen) \subseteq ToSet(book[p][from].seen) \cup got
           /\ Len(Advance(book[p][from], got).seen) <= RecentLimit
<1>1. got \subseteq Listing(s) /\ got \subseteq 1..published[s] /\ got \subseteq Items
      /\ published[s] \in 0..MaxItems
  BY KeptListed DEF Delivery
<1>2. /\ book[p][from] \in Cursor
      /\ ToSet(book[p][from].seen) \subseteq 1..published[s]
      /\ Len(book[p][from].seen) <= RecentLimit
  <2>1. Fits(book[p], published)
    BY TypeParts
  <2>2. from \in Keys /\ from[2] = s /\ book[p] \in [Keys -> Cursor]
    BY DEF Delivery, TypeOK
  <2>3. QED
    BY <2>1, <2>2 DEF Fits
<1>3. QED
  BY <1>1, <1>2, AdvanceType

\* Every step keeps the types.
LEMMA NextType == TypeOK /\ [Next]_vars => TypeOK'
<1> SUFFICES ASSUME TypeOK, [Next]_vars PROVE TypeOK'
  OBVIOUS
<1>0. Fits(cursors, published) /\ \A p \in Threads : Fits(book[p], published)
  BY TypeParts
<1>1. ASSUME NEW s \in Sources, Publish(s)
      PROVE  TypeOK'
  <2>1. published[s] \in 0..MaxItems /\ MaxItems \in Nat /\ MaxFlaky \in 0..MaxItems
    BY IngestionAssumption DEF TypeOK
  <2>2. published' = [published EXCEPT ![s] = @ + 1] /\ published[s] + 1 \in 0..MaxItems
    BY <1>1, <2>1 DEF Publish
  <2>3. published' \in [Sources -> 0..MaxItems]
    BY <2>2 DEF TypeOK
  <2>4. \A k \in Keys : 1..published[k[2]] \subseteq 1..published'[k[2]]
    <3> SUFFICES ASSUME NEW k \in Keys PROVE 1..published[k[2]] \subseteq 1..published'[k[2]]
      OBVIOUS
    <3>1. k[2] \in Sources
      BY KeySource
    <3>2. published[k[2]] \in Nat /\ published'[k[2]] \in Nat /\ published[k[2]] <= published'[k[2]]
      BY <2>1, <2>2, <3>1 DEF TypeOK
    <3>3. QED
      BY <3>2
  <2>5. \A map : Fits(map, published) => Fits(map, published')
    BY <2>4 DEF Fits
  <2>6. UNCHANGED <<cursors, pc, book, todo, out, recorded, delivered, lost, faults>>
    BY <1>1 DEF Publish
  <2>7. Fits(cursors, published') /\ \A p \in Threads : Fits(book[p], published')
    BY <1>0, <2>5
  <2>8. Fits(cursors', published') /\ \A p \in Threads : Fits(book'[p], published')
    BY <2>6, <2>7
  <2>9. QED
    BY <2>3, <2>6, <2>8 DEF TypeOK, Fits
<1>2. CASE Tick
  <2>1. \A k \in Keys : cursors'[k] \in Cursor /\ cursors'[k].seen = cursors[k].seen
    BY <1>2, OlderKeeps DEF Tick, TypeOK
  <2>2. \A p \in Threads, k \in Keys : book'[p][k] \in Cursor /\ book'[p][k].seen = book[p][k].seen
    BY <1>2, OlderKeeps DEF Tick, TypeOK
  <2>3. cursors' \in [Keys -> Cursor] /\ book' \in [Threads -> [Keys -> Cursor]]
    BY <1>2, <2>1, <2>2 DEF Tick
  <2>4. Fits(cursors', published) /\ \A p \in Threads : Fits(book'[p], published)
    BY <1>0, <2>1, <2>2 DEF Fits
  <2>5. QED
    BY <1>2, <2>3, <2>4 DEF Tick, TypeOK, Fits
<1>3. ASSUME NEW p \in Threads, Start(p)
      PROVE  TypeOK'
  <2>1. PICK map \in Readable(p) :
            /\ book' = [book EXCEPT ![p] = map]
            /\ todo' = [todo EXCEPT ![p] = {f \in Feeds : Due(map, <<"rss", f>>)} \cup Web]
    BY <1>3 DEF Start
  <2>2. map \in [Keys -> Cursor] /\ Fits(map, published)
    BY <1>0, NoCursorType, NoCursorsFit DEF Readable, TypeOK
  <2>3. book' \in [Threads -> [Keys -> Cursor]] /\ \A q \in Threads : Fits(book'[q], published)
    <3>1. \A q \in Threads : book'[q] = book[q] \/ book'[q] = map
      BY <2>1 DEF TypeOK
    <3>2. QED
      BY <1>0, <2>1, <2>2, <3>1 DEF TypeOK
  <2>4. todo' \in [Threads -> SUBSET Sources]
    BY <2>1 DEF TypeOK, Sources
  <2>5. pc' \in [Threads -> {"idle", "ingesting", "saved"}]
    BY <1>3 DEF Start, TypeOK
  <2>6. UNCHANGED <<published, cursors, out, recorded, delivered, lost, faults>>
    BY <1>3 DEF Start
  <2>7. QED
    BY <1>0, <2>3, <2>4, <2>5, <2>6 DEF TypeOK, Fits
<1>4. ASSUME NEW p \in Threads, SaveCursors(p)
      PROVE  TypeOK'
  <2>1. /\ cursors' = book[p] \/ cursors' = NoCursors
        /\ recorded' = With(recorded, out[p]) \/ recorded' = Nothing
        /\ UNCHANGED <<published, book, todo, out, delivered, lost, faults>>
    BY <1>4 DEF SaveCursors, Emptied
  <2>2. cursors' \in [Keys -> Cursor] /\ Fits(cursors', published)
    BY <1>0, <2>1, NoCursorType, NoCursorsFit DEF TypeOK
  <2>3. recorded' \in [Sources -> SUBSET Items]
    BY <2>1 DEF With, Nothing, TypeOK
  <2>4. pc' \in [Threads -> {"idle", "ingesting", "saved"}]
    BY <1>4 DEF SaveCursors, TypeOK
  <2>5. QED
    BY <1>0, <2>1, <2>2, <2>3, <2>4 DEF TypeOK, Fits
<1>5. ASSUME NEW p \in Threads, Abort(p)
      PROVE  TypeOK'
  <2>1. End(p) /\ UNCHANGED <<published, delivered>>
    BY <1>5 DEF Abort
  <2>2. faults' \in 0..MaxFaults
    BY <1>5, IngestionAssumption DEF Abort, TypeOK
  <2>3. /\ cursors' = cursors \/ cursors' = NoCursors
        /\ recorded' = recorded \/ recorded' = Nothing
        /\ lost' = lost \/ lost' = With(lost, out[p])
    BY <1>5 DEF Abort, Emptied
  <2>4. cursors' \in [Keys -> Cursor] /\ Fits(cursors', published)
    BY <1>0, <2>3, NoCursorType, NoCursorsFit DEF TypeOK
  <2>5. recorded' \in [Sources -> SUBSET Items] /\ lost' \in [Sources -> SUBSET Items]
    BY <2>3 DEF With, Nothing, TypeOK
  <2>6. QED
    BY <2>1, <2>2, <2>4, <2>5, EndType DEF TypeOK, Fits
<1>55. ASSUME NEW p \in Threads, Return(p)
       PROVE  TypeOK'
  <2>1. End(p) /\ UNCHANGED <<published, cursors, recorded, lost, faults>>
    BY <1>55 DEF Return
  <2>2. delivered' \in [Sources -> SUBSET Items]
    BY <1>55 DEF Return, With, TypeOK
  <2>3. QED
    BY <1>0, <2>1, <2>2, EndType DEF TypeOK, Fits
<1>6. ASSUME NEW p \in Threads, NEW s \in Sources, Skip(p, s)
      PROVE  TypeOK'
  <2>1. todo' \in [Threads -> SUBSET Sources]
    BY <1>6 DEF Skip, Finish, TypeOK
  <2>2. QED
    BY <1>0, <1>6, <2>1 DEF Skip, TypeOK, Fits
<1>7. ASSUME NEW p \in Threads, NEW s \in Sources, NEW from, NEW to, NEW got,
             Delivery(p, s, from, to, got)
      PROVE  TypeOK'
  <2> DEFINE new == Advance(book[p][from], got)
  <2>1. /\ got \subseteq Items /\ new \in Cursor
        /\ ToSet(new.seen) \subseteq 1..published[s] /\ Len(new.seen) <= RecentLimit
    BY <1>7, DeliveryType
  <2>2. /\ to \in Keys /\ to[2] = s
        /\ book' = [book EXCEPT ![p][to] = new]
        /\ out' = [out EXCEPT ![p][s] = got]
        /\ todo' = [todo EXCEPT ![p] = @ \ {s}]
        /\ UNCHANGED <<published, cursors, pc, recorded, delivered, lost, faults>>
    BY <1>7 DEF Delivery, Deliver, Finish
  <2> HIDE DEF new
  <2>3. book' \in [Threads -> [Keys -> Cursor]]
    BY <2>1, <2>2 DEF TypeOK
  <2>4. out' \in [Threads -> [Sources -> SUBSET Items]] /\ todo' \in [Threads -> SUBSET Sources]
    BY <2>1, <2>2 DEF TypeOK
  <2>5. ASSUME NEW q \in Threads, NEW k \in Keys
        PROVE  ToSet(book'[q][k].seen) \subseteq 1..published[k[2]] /\ Len(book'[q][k].seen) <= RecentLimit
    <3>1. book'[q][k] = book[q][k] \/ (k = to /\ book'[q][k] = new)
      BY <2>2 DEF TypeOK
    <3>2. QED
      BY <1>0, <2>1, <2>2, <3>1 DEF Fits
  <2>6. \A q \in Threads : Fits(book'[q], published)
    BY <2>5 DEF Fits
  <2>7. QED
    BY <1>0, <2>2, <2>3, <2>4, <2>6 DEF TypeOK, Fits
<1>8. CASE UNCHANGED vars
  BY <1>8 DEF vars, TypeOK
<1>9. QED
  BY <1>1, <1>2, <1>3, <1>4, <1>5, <1>55, <1>6, <1>7, <1>8, NextSorts

\* Whichever sources fail and however calls overlap, every cursor keeps its type:
\* it holds only ids its source published, and never more than the limit.
THEOREM IngestionTypeCorrect == Spec => []TypeOK
BY InitType, NextType, PTL DEF Spec

-----------------------------------------------------------------------------
(* Cursors claim what was delivered.  A call's own map may claim more: the *)
(* items the call holds.  Once it has saved the map, they are unreturned.  *)

\* What a cursor may claim of a source.
Covered(s) == delivered[s] \cup lost[s] \cup Unreturned(s)

SeenInv ==
    /\ \A k \in Keys : ToSet(cursors[k].seen) \subseteq Covered(k[2])
    /\ \A p \in Threads, k \in Keys :
          ToSet(book[p][k].seen) \subseteq Covered(k[2]) \cup out[p][k[2]]
    /\ \A p \in Threads : pc[p] = "idle" => out[p] = Nothing
    /\ \A p \in Threads : pc[p] # "ingesting" => todo[p] = {}
    /\ \A p \in Threads, s \in Sources : s \in todo[p] => out[p][s] = {}

\* Nothing is claimed at the start.
LEMMA InitSeen == Init => SeenInv
BY NoCursorType DEF Init, SeenInv, NoCursors

\* Nothing leaves what is covered when the ghosts only grow and the items of a
\* call that had saved its map stay with it or join a ghost.
LEMMA CoverGrows ==
    ASSUME NEW s \in Sources, delivered[s] \subseteq delivered'[s], lost[s] \subseteq lost'[s],
           \A p \in Threads : pc[p] = "saved" =>
              \/ pc'[p] = "saved" /\ out'[p][s] = out[p][s]
              \/ out[p][s] \subseteq delivered'[s] \cup lost'[s]
    PROVE  Covered(s) \subseteq Covered(s)'
<1> SUFFICES ASSUME NEW i \in Unreturned(s)
             PROVE  i \in delivered'[s] \cup lost'[s] \cup Unreturned(s)'
  BY DEF Covered
<1>1. PICK p \in Threads : pc[p] = "saved" /\ i \in out[p][s]
  BY DEF Unreturned
<1>2. CASE pc'[p] = "saved" /\ out'[p][s] = out[p][s]
  BY <1>1, <1>2 DEF Unreturned
<1>3. QED
  BY <1>1, <1>2

\* Every step keeps the claims covered.
LEMMA NextSeen ==
    ASSUME TypeOK, SeenInv, [Next]_vars
    PROVE  SeenInv'
<1>0. \A k \in Keys : k[2] \in Sources
  BY KeySource
<1>1. ASSUME UNCHANGED <<pc, out, delivered, lost>>
      PROVE  \A s : Covered(s)' = Covered(s)
  BY <1>1 DEF Covered, Unreturned
<1>2. CASE UNCHANGED vars \/ \E s \in Sources : Publish(s)
  <2>1. UNCHANGED <<cursors, pc, book, todo, out, delivered, lost>>
    BY <1>2 DEF Publish, vars
  <2>2. QED
    BY <1>1, <2>1 DEF SeenInv
<1>3. CASE Tick
  <2>1. \A k \in Keys : cursors'[k].seen = cursors[k].seen
    BY <1>3, OlderKeeps DEF Tick, TypeOK
  <2>2. \A p \in Threads, k \in Keys : book'[p][k].seen = book[p][k].seen
    BY <1>3, OlderKeeps DEF Tick, TypeOK
  <2>3. UNCHANGED <<pc, todo, out, delivered, lost>>
    BY <1>3 DEF Tick
  <2>4. \A s : Covered(s)' = Covered(s)
    BY <1>1, <2>3
  <2>5. /\ \A k \in Keys : ToSet(cursors'[k].seen) \subseteq Covered(k[2])'
        /\ \A p \in Threads, k \in Keys :
              ToSet(book'[p][k].seen) \subseteq Covered(k[2])' \cup out'[p][k[2]]
    BY <2>1, <2>2, <2>3, <2>4 DEF SeenInv
  <2>6. QED
    BY <2>3, <2>5 DEF SeenInv
<1>4. ASSUME NEW p \in Threads, Start(p)
      PROVE  SeenInv'
  <2>1. PICK map \in Readable(p) : book' = [book EXCEPT ![p] = map]
    BY <1>4 DEF Start
  <2>2. /\ pc[p] = "idle" /\ pc' = [pc EXCEPT ![p] = "ingesting"]
        /\ UNCHANGED <<cursors, out, delivered, lost>>
        /\ \A q \in Threads \ {p} : todo'[q] = todo[q]
    BY <1>4 DEF Start, TypeOK
  <2>3. \A s \in Sources : Covered(s) \subseteq Covered(s)'
    BY <2>2, CoverGrows DEF TypeOK
  <2>4. out[p] = Nothing
    BY <2>2 DEF SeenInv
  <2>5. \A k \in Keys : ToSet(map[k].seen) \subseteq Covered(k[2])
    BY NoCursorType DEF Readable, SeenInv, NoCursors
  <2>6. \A q \in Threads : book'[q] = IF q = p THEN map ELSE book[q]
    BY <2>1 DEF TypeOK
  <2>7. \A q \in Threads, k \in Keys :
            ToSet(book'[q][k].seen) \subseteq Covered(k[2])' \cup out'[q][k[2]]
    BY <1>0, <2>2, <2>3, <2>5, <2>6 DEF SeenInv
  <2>8. \A q \in Threads : pc'[q] # "ingesting" => q # p /\ pc'[q] = pc[q]
    BY <2>2 DEF TypeOK
  <2>9. \A q \in Threads : pc'[q] = "idle" => out'[q] = Nothing
    BY <2>2, <2>8 DEF SeenInv
  <2>10. \A q \in Threads : pc'[q] # "ingesting" => todo'[q] = {}
    BY <2>2, <2>8 DEF SeenInv
  <2>11. \A q \in Threads, s \in Sources : s \in todo'[q] => out'[q][s] = {}
    BY <2>2, <2>4 DEF SeenInv, Nothing
  <2>12. \A k \in Keys : ToSet(cursors'[k].seen) \subseteq Covered(k[2])'
    BY <1>0, <2>2, <2>3 DEF SeenInv
  <2>13. QED
    BY <2>7, <2>9, <2>10, <2>11, <2>12 DEF SeenInv
<1>5. ASSUME NEW p \in Threads, End(p), \A s \in Sources : Covered(s) \subseteq Covered(s)',
             cursors' = cursors \/ cursors' = NoCursors
      PROVE  SeenInv'
  <2>1. \A q \in Threads :
            IF q = p THEN /\ pc'[q] = "idle" /\ book'[q] = NoCursors
                          /\ todo'[q] = {} /\ out'[q] = Nothing
            ELSE pc'[q] = pc[q] /\ book'[q] = book[q] /\ todo'[q] = todo[q] /\ out'[q] = out[q]
    BY <1>5 DEF End, TypeOK
  <2>2. \A q \in Threads, k \in Keys :
            ToSet(book'[q][k].seen) \subseteq Covered(k[2])' \cup out'[q][k[2]]
    <3> SUFFICES ASSUME NEW q \in Threads, NEW k \in Keys
                 PROVE  ToSet(book'[q][k].seen) \subseteq Covered(k[2])' \cup out'[q][k[2]]
      OBVIOUS
    <3>1. CASE q = p
      BY <2>1, <3>1, NoCursorType DEF NoCursors
    <3>2. CASE q # p
      BY <1>0, <1>5, <2>1, <3>2 DEF SeenInv
    <3>3. QED
      BY <3>1, <3>2
  <2>3. \A k \in Keys : ToSet(cursors'[k].seen) \subseteq Covered(k[2])'
    BY <1>0, <1>5, NoCursorType DEF SeenInv, NoCursors
  <2>4. /\ \A q \in Threads : pc'[q] = "idle" => out'[q] = Nothing
        /\ \A q \in Threads : pc'[q] # "ingesting" => todo'[q] = {}
        /\ \A q \in Threads, s \in Sources : s \in todo'[q] => out'[q][s] = {}
    BY <2>1 DEF SeenInv
  <2>5. QED
    BY <2>2, <2>3, <2>4 DEF SeenInv
<1>6. ASSUME NEW p \in Threads, SaveCursors(p)
      PROVE  SeenInv'
  <2>1. /\ pc[p] = "ingesting" /\ todo[p] = {} /\ pc' = [pc EXCEPT ![p] = "saved"]
        /\ cursors' = book[p] \/ cursors' = NoCursors
        /\ UNCHANGED <<book, todo, out, delivered, lost>>
    BY <1>6 DEF SaveCursors, Saving, Emptied
  <2>2. pc'[p] = "saved" /\ \A q \in Threads : q # p => pc'[q] = pc[q]
    BY <2>1 DEF TypeOK
  <2>3. \A s \in Sources : Covered(s) \subseteq Covered(s)'
    BY <2>1, <2>2, CoverGrows
  <2>4. \A s \in Sources : out[p][s] \subseteq Covered(s)'
    BY <2>1, <2>2 DEF Covered, Unreturned
  <2>5. \A k \in Keys : ToSet(book[p][k].seen) \subseteq Covered(k[2])'
    BY <1>0, <2>3, <2>4 DEF SeenInv
  <2>6. \A k \in Keys : ToSet(cursors'[k].seen) \subseteq Covered(k[2])'
    BY <2>1, <2>5, NoCursorType DEF NoCursors
  <2>7. \A q \in Threads, k \in Keys :
            ToSet(book'[q][k].seen) \subseteq Covered(k[2])' \cup out'[q][k[2]]
    BY <1>0, <2>1, <2>3 DEF SeenInv
  <2>8. \A q \in Threads : pc'[q] = "idle" => out'[q] = Nothing
    BY <2>1, <2>2 DEF SeenInv
  <2>9. \A q \in Threads : pc'[q] # "ingesting" => todo'[q] = {}
    BY <2>1, <2>2 DEF SeenInv
  <2>10. \A q \in Threads, s \in Sources : s \in todo'[q] => out'[q][s] = {}
    BY <2>1 DEF SeenInv
  <2>11. QED
    BY <2>6, <2>7, <2>8, <2>9, <2>10 DEF SeenInv
<1>7. ASSUME NEW p \in Threads, Return(p)
      PROVE  SeenInv'
  <2>1. End(p) /\ UNCHANGED <<cursors, lost>> /\ delivered' = With(delivered, out[p])
    BY <1>7 DEF Return
  <2>2. \A q \in Threads : q # p => pc'[q] = pc[q] /\ out'[q] = out[q]
    BY <2>1 DEF End, TypeOK
  <2>3. \A s \in Sources : Covered(s) \subseteq Covered(s)'
    BY <2>1, <2>2, CoverGrows DEF With
  <2>4. QED
    BY <1>5, <2>1, <2>3
<1>8. ASSUME NEW p \in Threads, Abort(p)
      PROVE  SeenInv'
  <2>1. /\ End(p) /\ delivered' = delivered
        /\ cursors' = cursors \/ cursors' = NoCursors
        /\ (pc[p] # "saved" /\ lost' = lost) \/ lost' = With(lost, out[p])
    BY <1>8 DEF Abort, Saving, Emptied
  <2>2. \A q \in Threads : q # p => pc'[q] = pc[q] /\ out'[q] = out[q]
    BY <2>1 DEF End, TypeOK
  <2>3. \A s \in Sources : lost[s] \subseteq lost'[s]
    BY <2>1 DEF With
  <2>4. \A s \in Sources : pc[p] = "saved" => out[p][s] \subseteq lost'[s]
    BY <2>1 DEF With
  <2>5. \A s \in Sources : Covered(s) \subseteq Covered(s)'
    BY <2>1, <2>2, <2>3, <2>4, CoverGrows
  <2>6. QED
    BY <1>5, <2>1, <2>5
<1>9. ASSUME NEW p \in Threads, NEW s \in Sources, Skip(p, s)
      PROVE  SeenInv'
  <2>1. \A q \in Threads : todo'[q] \subseteq todo[q]
    BY <1>9 DEF Skip, Finish, TypeOK
  <2>2. UNCHANGED <<cursors, pc, book, out, delivered, lost>>
    BY <1>9 DEF Skip
  <2>3. /\ \A q \in Threads : pc'[q] # "ingesting" => todo'[q] = {}
        /\ \A q \in Threads, t \in Sources : t \in todo'[q] => out'[q][t] = {}
    BY <2>1, <2>2 DEF SeenInv
  <2>4. \A k \in Keys : Covered(k[2])' = Covered(k[2])
    BY <1>1, <2>2
  <2>5. /\ \A k \in Keys : ToSet(cursors'[k].seen) \subseteq Covered(k[2])'
        /\ \A q \in Threads, k \in Keys :
              ToSet(book'[q][k].seen) \subseteq Covered(k[2])' \cup out'[q][k[2]]
    BY <2>2, <2>4 DEF SeenInv
  <2>6. QED
    BY <2>2, <2>3, <2>5 DEF SeenInv
<1>10. ASSUME NEW p \in Threads, NEW s \in Sources, NEW from, NEW to, NEW got,
              Delivery(p, s, from, to, got)
       PROVE  SeenInv'
  <2> DEFINE new == Advance(book[p][from], got)
  <2>1. ToSet(new.seen) \subseteq ToSet(book[p][from].seen) \cup got
    BY <1>10, DeliveryType
  <2>2. /\ from \in Keys /\ from[2] = s /\ to \in Keys /\ to[2] = s
        /\ s \in todo[p]
        /\ book' = [book EXCEPT ![p][to] = new]
        /\ out' = [out EXCEPT ![p][s] = got]
        /\ todo' = [todo EXCEPT ![p] = @ \ {s}]
        /\ UNCHANGED <<published, cursors, pc, delivered, lost, faults>>
    BY <1>10 DEF Delivery, Deliver, Finish
  <2> HIDE DEF new
  <2>3. out[p][s] = {} /\ pc[p] = "ingesting"
    BY <2>2 DEF SeenInv
  <2>4. /\ \A q \in Threads, t \in Sources :
              out'[q][t] = IF q = p /\ t = s THEN got ELSE out[q][t]
        /\ \A q \in Threads \ {p} : out'[q] = out[q]
    BY <2>2 DEF TypeOK
  <2>5. \A t \in Sources : Covered(t) \subseteq Covered(t)'
    <3>1. \A q \in Threads : pc[q] = "saved" => pc'[q] = "saved" /\ out'[q] = out[q]
      BY <2>2, <2>3, <2>4
    <3>2. QED
      BY <2>2, <3>1, CoverGrows
  <2>6. ASSUME NEW q \in Threads, NEW k \in Keys
        PROVE  ToSet(book'[q][k].seen) \subseteq Covered(k[2])' \cup out'[q][k[2]]
    <3>0. out[q][k[2]] \subseteq out'[q][k[2]]
      BY <1>0, <2>3, <2>4
    <3>1. CASE book'[q][k] = book[q][k]
      BY <1>0, <2>5, <3>0, <3>1 DEF SeenInv
    <3>2. CASE q = p /\ k = to /\ book'[q][k] = new
      <4>1. ToSet(book[p][from].seen) \subseteq Covered(s)
        BY <2>2, <2>3 DEF SeenInv
      <4>2. out'[p][s] = got
        BY <2>4
      <4>3. QED
        BY <2>1, <2>2, <2>5, <3>2, <4>1, <4>2
    <3>3. QED
      BY <2>2, <3>1, <3>2 DEF TypeOK
  <2>7. \A k \in Keys : ToSet(cursors'[k].seen) \subseteq Covered(k[2])'
    BY <1>0, <2>2, <2>5 DEF SeenInv
  <2>8. \A q \in Threads : pc'[q] = "idle" => out'[q] = Nothing
    BY <2>2, <2>3, <2>4 DEF SeenInv
  <2>9. \A q \in Threads : pc'[q] # "ingesting" => todo'[q] = {}
    BY <2>2, <2>3 DEF SeenInv, TypeOK
  <2>10. \A q \in Threads, t \in Sources : t \in todo'[q] => out'[q][t] = {}
    <3>1. \A q \in Threads, t \in Sources : t \in todo'[q] => t \in todo[q] /\ ~(q = p /\ t = s)
      BY <2>2 DEF TypeOK
    <3>2. QED
      BY <2>4, <3>1 DEF SeenInv
  <2>11. QED
    BY <2>6, <2>7, <2>8, <2>9, <2>10 DEF SeenInv
<1>11. QED
  BY <1>2, <1>3, <1>4, <1>6, <1>7, <1>8, <1>9, <1>10, NextSorts

\* Every cursor's claims are covered, always.
LEMMA SeenCorrect == Spec => []SeenInv
<1>1. TypeOK /\ SeenInv /\ [Next]_vars => SeenInv'
  BY NextSeen
<1>2. QED
  BY <1>1, InitSeen, IngestionTypeCorrect, PTL DEF Spec

\* A saved cursor claims only what calls returned, still hold after their save, or
\* lost between the two, for any number of sources and threads: links that fail to
\* open, calls that overlap and write over each other's map, calls cut off at any
\* point and files left empty included.
THEOREM SeenOnlyDelivered == Spec => []SeenWasDelivered
<1>1. SeenInv => SeenWasDelivered
  BY DEF SeenInv, SeenWasDelivered, Covered
<1>2. QED
  BY <1>1, SeenCorrect, PTL

-----------------------------------------------------------------------------
(* No repetition.  The ids a cursor remembers are limited, so what matters *)
(* is that the limit never costs it an id that its source still lists.     *)
(* Ids come into the list in the order of the fetches: an id that stands   *)
(* behind another is less than one listing older.  The ids behind a listed *)
(* one are therefore within one listing of it on either side, and a limit  *)
(* of twice a listing has room for them.                                   *)

Near(seq) == \A a, b \in DOMAIN seq : a < b => seq[b] + MaxPerSource > seq[a]

\* An id that is still listed survives the limit.
LEMMA ListedSurvives ==
    ASSUME NEW n \in Nat, RecentLimit >= 2 * MaxPerSource - 1,
           NEW items \in Seq(1..n), Near(items),
           NEW x \in ToSet(items), x + MaxPerSource > n
    PROVE  x \in ToSet(DedupeTail(items, RecentLimit))
<1>0. MaxPerSource \in Nat /\ MaxPerSource # 0 /\ RecentLimit \in Nat
  BY IngestionAssumption
<1> DEFINE Places == {i \in 1..Len(items) : items[i] = x}
<1>1. Len(items) \in Nat /\ DOMAIN items = 1..Len(items) /\ \A i \in DOMAIN items : items[i] \in 1..n
  OBVIOUS
<1>2. PICK p \in Places : \A j \in Places : j <= p
  <2>1. Places \subseteq 1..Len(items) /\ Places # {}
    BY <1>1 DEF ToSet
  <2> HIDE DEF Places
  <2>2. QED
    BY <1>1, <2>1, GreatestPlace
<1>3. p \in DOMAIN items /\ p \in Nat /\ items[p] = x /\ x \in Nat /\ x <= n
  BY <1>1, <1>2
<1>4. ASSUME NEW j \in DOMAIN items, p < j
      PROVE  items[j] # x /\ items[j] \in Nat /\ items[j] + MaxPerSource > x /\ items[j] < x + MaxPerSource
  <2>1. items[j] \in Nat /\ items[j] <= n
    BY <1>1
  <2>2. j \notin Places
    <3>1. j \in Nat
      BY <1>1
    <3> HIDE DEF Places
    <3>2. QED
      BY <1>2, <1>3, <1>4, <3>1
  <2>3. items[j] # x
    BY <1>1, <2>2
  <2>4. items[j] + MaxPerSource > x
    BY <1>3, <1>4 DEF Near
  <2>5. QED
    BY <1>0, <1>3, <2>1, <2>3, <2>4
<1>5. items[p] \notin IdsFrom(items, p + 1)
  <2> SUFFICES ASSUME NEW j \in (p + 1)..Len(items) PROVE items[j] # items[p]
    BY DEF IdsFrom
  <2>1. j \in DOMAIN items /\ p < j
    BY <1>1, <1>3
  <2>2. QED
    BY <1>3, <1>4, <2>1
<1> DEFINE lo == x - MaxPerSource + 1
           hi == x + MaxPerSource - 1
<1>6. IdsFrom(items, p) \subseteq lo..hi
  <2> SUFFICES ASSUME NEW j \in p..Len(items) PROVE items[j] \in lo..hi
    BY DEF IdsFrom
  <2>1. j \in DOMAIN items /\ (j = p \/ p < j)
    BY <1>1, <1>3
  <2>2. CASE j = p
    BY <1>0, <1>3, <2>2
  <2>3. CASE p < j
    <3>1. items[j] \in Nat /\ items[j] + MaxPerSource > x /\ items[j] < x + MaxPerSource
      BY <1>4, <2>1, <2>3
    <3>2. QED
      BY <1>0, <1>3, <3>1
  <2>4. QED
    BY <2>1, <2>2, <2>3
<1>7. Cardinality(lo..hi) = 2 * MaxPerSource - 1 /\ IsFiniteSet(lo..hi)
  <2>1. lo \in Int /\ hi \in Int /\ ~(lo > hi) /\ hi - lo + 1 = 2 * MaxPerSource - 1
    BY <1>0, <1>3
  <2> HIDE DEF lo, hi
  <2>2. QED
    BY <2>1, FS_Interval
<1>8. Cardinality(IdsFrom(items, p)) <= RecentLimit
  <2>1. Cardinality(IdsFrom(items, p)) <= 2 * MaxPerSource - 1
    <3> HIDE DEF lo, hi
    <3>1. QED
      BY <1>6, <1>7, FS_Subset
  <2>2. Cardinality(IdsFrom(items, p)) \in Nat
    BY <1>3, IdsCount
  <2>3. QED
    BY <1>0, <2>1, <2>2
<1>9. items[p] \in ToSet(DedupeTail(items, RecentLimit))
  BY <1>0, <1>3, <1>5, <1>8, DedupeTailKeeps
<1>10. QED
  BY <1>3, <1>9

\* An advanced cursor is ordered like the cursor it comes from, and has every
\* listed id that the cursor or the fetch had.
LEMMA AdvanceRemembers ==
    ASSUME NEW n \in 0..MaxItems, RecentLimit >= 2 * MaxPerSource - 1,
           NEW c \in Cursor, NEW got \in SUBSET (1..n),
           ToSet(c.seen) \subseteq 1..n, Near(c.seen),
           \A i \in got : i + MaxPerSource > n
    PROVE  /\ Near(Advance(c, got).seen)
           /\ \A x \in ToSet(c.seen) \cup got :
                 x + MaxPerSource > n => x \in ToSet(Advance(c, got).seen)
<1>0. n \in Nat /\ MaxPerSource \in Nat /\ MaxPerSource # 0 /\ RecentLimit \in Nat
  BY IngestionAssumption
<1>1. CASE got = {}
  BY <1>1 DEF Advance
<1>2. CASE got # {}
  <2> DEFINE old == c.seen
             items == c.seen \o Rows(got)
             kept == DedupeTail(items, RecentLimit)
  <2>0. LET list == c.seen \o Rows(got)
        IN  /\ list \in Seq(1..n)
            /\ ToSet(list) = ToSet(c.seen) \cup got
            /\ Len(list) = Len(c.seen) + Len(Rows(got))
            /\ \A i \in DOMAIN list :
                  IF i <= Len(c.seen) THEN i \in DOMAIN c.seen /\ list[i] = c.seen[i]
                  ELSE list[i] \in got
    <3> HIDE DEF old, items, kept
    <3>1. QED
      BY <1>0, AdvancedList
  <2>1. /\ items \in Seq(1..n) /\ ToSet(items) = ToSet(old) \cup got
        /\ \A i \in DOMAIN items :
              IF i <= Len(old) THEN i \in DOMAIN old /\ items[i] = old[i] ELSE items[i] \in got
    BY ONLY <2>0
  <2>2. Len(old) \in Nat
    BY DEF Cursor
  <2>3. Near(old)
    OBVIOUS
  <2>4. Advance(c, got) = [seen |-> kept, age |-> 0]
    BY <1>2 DEF Advance
  <2> HIDE DEF old, items, kept
  <2>5. Near(items)
    <3> SUFFICES ASSUME NEW a \in DOMAIN items, NEW b \in DOMAIN items, a < b
                 PROVE  items[b] + MaxPerSource > items[a]
      BY DEF Near
    <3>1. /\ a \in Nat /\ b \in Nat
          /\ items[a] \in Nat /\ items[a] <= n /\ items[b] \in Nat
      BY <1>0, <2>1
    <3>2. CASE b <= Len(old)
      <4>1. a <= Len(old)
        BY <2>2, <3>1, <3>2
      <4>2. QED
        BY <2>1, <2>3, <3>2, <4>1 DEF Near
    <3>3. CASE ~(b <= Len(old))
      <4>1. items[b] + MaxPerSource > n
        BY <2>1, <3>3
      <4>2. QED
        BY <1>0, <3>1, <4>1
    <3>4. QED
      BY <3>2, <3>3
  <2>6. Near(kept)
    <3> SUFFICES ASSUME NEW a \in DOMAIN kept, NEW b \in DOMAIN kept, a < b
                 PROVE  kept[b] + MaxPerSource > kept[a]
      BY DEF Near
    <3>1. \E i, j \in DOMAIN items : i <= j /\ kept[a] = items[i] /\ kept[b] = items[j]
      BY <1>0, <2>1, DedupeTailOrder DEF kept
    <3>2. PICK i, j \in DOMAIN items : i <= j /\ kept[a] = items[i] /\ kept[b] = items[j]
      BY <3>1
    <3>3. i \in Nat /\ j \in Nat /\ items[i] \in Nat
      BY <2>1
    <3>4. CASE i = j
      BY <1>0, <3>2, <3>3, <3>4
    <3>5. CASE i < j
      BY <2>5, <3>2, <3>5 DEF Near
    <3>6. QED
      BY <3>2, <3>3, <3>4, <3>5
  <2>7. ASSUME NEW x \in ToSet(old) \cup got, x + MaxPerSource > n
        PROVE  x \in ToSet(kept)
    BY <1>0, <2>1, <2>5, <2>7, ListedSurvives DEF kept
  <2>8. Advance(c, got).seen = kept
    BY <2>4
  <2>9. QED
    BY <2>6, <2>7, <2>8 DEF old
<1>3. QED
  BY <1>1, <1>2

\* The key under which a feed's or a browsed page's cursor is kept.
Key(s) == IF s \in Feeds THEN <<"rss", s>> ELSE <<"playwright", s>>

\* The list has only items of D, and those of them that s still lists.
Remembers(seq, s, D) ==
    /\ ToSet(seq) \subseteq D
    /\ \A i \in D : i + MaxPerSource > published[s] => i \in ToSet(seq)

\* With one caller: what was recorded is remembered by the file, and what was
\* recorded or is held by the call in progress by that call's map.
MemoryInv ==
    \A s \in Steady :
        /\ Near(cursors[Key(s)].seen)
        /\ Near(book[Run][Key(s)].seen)
        /\ Remembers(cursors[Key(s)].seen, s, recorded[s])
        /\ pc[Run] = "ingesting" =>
              Remembers(book[Run][Key(s)].seen, s, recorded[s] \cup out[Run][s])

\* A key of a feed or a browsed page is its own.
LEMMA KeyOwn ==
    ASSUME NEW s \in Steady
    PROVE  /\ s \in Sources /\ Key(s) \in Keys /\ Key(s)[2] = s
           /\ s \in Feeds => Key(s) = <<"rss", s>>
           /\ s \in Forced => Key(s) = <<"playwright", s>>
BY KeySource, IngestionAssumption DEF Key, Steady

\* Nothing is recorded at the start, and nothing is out of order.
LEMMA InitMemory == Init => MemoryInv
<1> SUFFICES ASSUME Init, NEW s \in Steady
             PROVE  /\ Near(cursors[Key(s)].seen)
                    /\ Near(book[Run][Key(s)].seen)
                    /\ Remembers(cursors[Key(s)].seen, s, recorded[s])
                    /\ pc[Run] # "ingesting"
  BY DEF MemoryInv
<1>1. Key(s) \in Keys /\ s \in Sources /\ Run \in Threads
  BY KeyOwn DEF Threads
<1>2. cursors[Key(s)].seen = <<>> /\ book[Run][Key(s)].seen = <<>>
  BY <1>1 DEF Init, NoCursors, NoCursor
<1>3. recorded[s] = {} /\ pc[Run] = "idle"
  BY <1>1 DEF Init, Nothing
<1>4. QED
  BY <1>2, <1>3 DEF Near, Remembers, ToSet

\* A step that takes no id from a list and lists nothing new keeps the memory.
LEMMA QuietMemory ==
    ASSUME TypeOK, MemoryInv, NEW s \in Steady,
           published'[s] >= published[s], published'[s] \in Nat, recorded' = recorded,
           cursors'[Key(s)].seen = cursors[Key(s)].seen,
           \/ /\ book'[Run][Key(s)].seen = book[Run][Key(s)].seen
              /\ pc'[Run] = pc[Run] /\ out'[Run][s] = out[Run][s]
           \/ /\ book'[Run][Key(s)].seen = cursors[Key(s)].seen /\ out'[Run][s] = {}
           \/ /\ book'[Run][Key(s)].seen = <<>> /\ pc'[Run] = "idle"
    PROVE  /\ Near(cursors'[Key(s)].seen)
           /\ Near(book'[Run][Key(s)].seen)
           /\ Remembers(cursors[Key(s)].seen, s, recorded[s])'
           /\ pc'[Run] = "ingesting" =>
                 Remembers(book[Run][Key(s)].seen, s, recorded[s] \cup out[Run][s])'
<1>0. /\ published[s] \in Nat /\ MaxPerSource \in Nat
      /\ recorded[s] \subseteq Nat /\ out[Run][s] \subseteq Nat
  BY IngestionAssumption, KeyOwn DEF TypeOK, Items, Threads
<1>1. \A seq, D : D \subseteq Nat /\ Remembers(seq, s, D) =>
          \A i \in D : i + MaxPerSource > published'[s] => i \in ToSet(seq)
  <2> SUFFICES ASSUME NEW seq, NEW D, D \subseteq Nat, Remembers(seq, s, D),
                      NEW i \in D, i + MaxPerSource > published'[s]
               PROVE  i \in ToSet(seq)
    OBVIOUS
  <2>1. i + MaxPerSource > published[s]
    BY <1>0
  <2>2. QED
    BY <2>1 DEF Remembers
<1>2. /\ Near(cursors[Key(s)].seen) /\ Near(book[Run][Key(s)].seen)
      /\ Remembers(cursors[Key(s)].seen, s, recorded[s])
      /\ pc[Run] = "ingesting" =>
            Remembers(book[Run][Key(s)].seen, s, recorded[s] \cup out[Run][s])
  BY DEF MemoryInv
<1>3. Near(cursors'[Key(s)].seen) /\ Near(book'[Run][Key(s)].seen)
  <2>1. Near(<<>>)
    BY DEF Near
  <2>2. QED
    BY <1>2, <2>1
<1>4. \A i \in recorded[s] : i + MaxPerSource > published'[s] => i \in ToSet(cursors[Key(s)].seen)
  BY <1>0, <1>1, <1>2
<1>5. Remembers(cursors[Key(s)].seen, s, recorded[s])'
  BY <1>2, <1>4 DEF Remembers
<1>55. /\ ToSet(cursors[Key(s)].seen) \subseteq recorded[s]
       /\ pc'[Run] = "ingesting" => ToSet(book'[Run][Key(s)].seen) \subseteq recorded[s] \cup out'[Run][s]
  BY <1>2 DEF Remembers
<1>6. ASSUME pc'[Run] = "ingesting",
             NEW i \in recorded'[s] \cup out'[Run][s], i + MaxPerSource > published'[s]
      PROVE  i \in ToSet(book'[Run][Key(s)].seen)
  <2>1. CASE book'[Run][Key(s)].seen = book[Run][Key(s)].seen
             /\ pc'[Run] = pc[Run] /\ out'[Run][s] = out[Run][s]
    <3>1. Remembers(book[Run][Key(s)].seen, s, recorded[s] \cup out[Run][s])
      BY <1>2, <1>6, <2>1
    <3>2. recorded[s] \cup out[Run][s] \subseteq Nat
      BY <1>0
    <3>3. i \in recorded[s] \cup out[Run][s]
      BY <1>6, <2>1
    <3>4. i \in ToSet(book[Run][Key(s)].seen)
      BY <1>1, <1>6, <3>1, <3>2, <3>3
    <3>5. QED
      BY <2>1, <3>4
  <2>2. CASE book'[Run][Key(s)].seen = cursors[Key(s)].seen /\ out'[Run][s] = {}
    BY <1>4, <1>6, <2>2
  <2>3. QED
    BY <1>6, <2>1, <2>2
<1>7. QED
  BY <1>3, <1>5, <1>55, <1>6 DEF Remembers

\* An answer of a source is remembered by the call's map, with what that map
\* remembered before.
LEMMA DeliveryMemory ==
    ASSUME TypeOK, SeenInv, MemoryInv, RecentLimit >= 2 * MaxPerSource - 1,
           NEW s \in Steady, NEW from, NEW to, NEW got,
           Delivery(Run, s, from, to, got)
    PROVE  /\ Near(cursors'[Key(s)].seen)
           /\ Near(book'[Run][Key(s)].seen)
           /\ Remembers(cursors[Key(s)].seen, s, recorded[s])'
           /\ Remembers(book[Run][Key(s)].seen, s, recorded[s] \cup out[Run][s])'
<1>0. s \in Sources /\ Key(s) \in Keys /\ Run \in Threads
  BY KeyOwn DEF Threads
<1> DEFINE c == book[Run][Key(s)]
           n == published[s]
           new == Advance(c, got)
<1>1. from = Key(s) /\ to = Key(s) /\ s \in todo[Run]
  BY KeyOwn DEF Delivery, Steady
<1>2. /\ got \in SUBSET (1..n) /\ n \in 0..MaxItems
      /\ c \in Cursor /\ ToSet(c.seen) \subseteq 1..n
      /\ \A i \in got : i + MaxPerSource > n
  BY <1>0, <1>1, DeliveryType, KeptListed
<1>3. pc[Run] = "ingesting" /\ out[Run][s] = {}
  BY <1>0, <1>1 DEF SeenInv, TypeOK
<1>4. /\ Near(cursors[Key(s)].seen) /\ Near(c.seen)
      /\ Remembers(cursors[Key(s)].seen, s, recorded[s])
      /\ Remembers(c.seen, s, recorded[s])
  BY <1>3 DEF MemoryInv
<1>45. ToSet(new.seen) \subseteq ToSet(c.seen) \cup got
  BY <1>0, <1>1, DeliveryType
<1>5. /\ Near(new.seen)
      /\ \A x \in ToSet(c.seen) \cup got : x + MaxPerSource > n => x \in ToSet(new.seen)
      /\ ToSet(new.seen) \subseteq ToSet(c.seen) \cup got
  <2> HIDE DEF c, n
  <2>1. QED
    BY <1>2, <1>4, <1>45, AdvanceRemembers
<1>6. /\ book' = [book EXCEPT ![Run][Key(s)] = new]
      /\ out' = [out EXCEPT ![Run][s] = got]
      /\ UNCHANGED <<published, cursors, recorded>>
  BY <1>1 DEF Delivery, Deliver
<1> HIDE DEF new, c
<1>7. book'[Run][Key(s)] = new /\ out'[Run][s] = got
  BY <1>0, <1>6 DEF TypeOK
<1>8. /\ \A i \in recorded[s] \cup got : i + MaxPerSource > n => i \in ToSet(new.seen)
      /\ ToSet(new.seen) \subseteq recorded[s] \cup got
  BY <1>2, <1>4, <1>5 DEF Remembers
<1>9. QED
  BY <1>4, <1>5, <1>6, <1>7, <1>8 DEF Remembers

\* Without overlapping calls, every step keeps the memory.
LEMMA NextMemory ==
    ASSUME Requests = {}, RecentLimit >= 2 * MaxPerSource - 1,
           TypeOK, SeenInv, MemoryInv, [Next]_vars
    PROVE  MemoryInv'
<1> SUFFICES ASSUME NEW s \in Steady
             PROVE  /\ Near(cursors'[Key(s)].seen)
                    /\ Near(book'[Run][Key(s)].seen)
                    /\ Remembers(cursors[Key(s)].seen, s, recorded[s])'
                    /\ pc'[Run] = "ingesting" =>
                          Remembers(book[Run][Key(s)].seen, s, recorded[s] \cup out[Run][s])'
  BY DEF MemoryInv
<1>0. /\ Run \in Threads /\ Threads = {Run}
      /\ s \in Sources /\ Key(s) \in Keys /\ Key(s)[2] = s
      /\ published[s] \in Nat /\ published[s] >= published[s]
  BY KeyOwn DEF Threads, TypeOK
<1>1. ASSUME NEW t \in Sources, Publish(t)
      PROVE  published'[s] \in Nat /\ published'[s] >= published[s]
  <2>1. published' = [published EXCEPT ![t] = published[t] + 1] /\ published[t] \in Nat
    BY <1>1 DEF Publish, TypeOK
  <2>2. published'[s] = published[s] \/ (t = s /\ published'[s] = published[s] + 1)
    BY <1>0, <2>1 DEF TypeOK
  <2>3. QED
    BY <1>0, <2>2
<1>2. ASSUME NEW t \in Sources, Publish(t)
      PROVE  UNCHANGED <<cursors, pc, book, out, recorded>>
  BY <1>2 DEF Publish
<1>3. CASE \E t \in Sources : Publish(t)
  BY <1>1, <1>2, <1>3, QuietMemory
<1>4. CASE Tick
  <2>1. cursors'[Key(s)].seen = cursors[Key(s)].seen
        /\ book'[Run][Key(s)].seen = book[Run][Key(s)].seen
    BY <1>0, <1>4, OlderKeeps DEF Tick, TypeOK
  <2>2. UNCHANGED <<published, pc, out, recorded>>
    BY <1>4 DEF Tick
  <2>3. QED
    BY <1>0, <2>1, <2>2, QuietMemory
<1>5. CASE Start(Run)
  <2>1. /\ book'[Run] = cursors /\ pc[Run] = "idle"
        /\ UNCHANGED <<published, cursors, out, recorded>>
    BY <1>0, <1>5 DEF Start, Readable, TypeOK
  <2>2. out'[Run][s] = {}
    BY <1>0, <2>1 DEF SeenInv, Nothing
  <2>3. QED
    BY <1>0, <2>1, <2>2, QuietMemory
<1>6. ASSUME End(Run)
      PROVE  book'[Run][Key(s)].seen = <<>> /\ pc'[Run] = "idle"
  BY <1>0, <1>6 DEF End, TypeOK, NoCursors, NoCursor
<1>7. ASSUME Emptied, book'[Run][Key(s)].seen = <<>>, pc'[Run] # "ingesting"
      PROVE  /\ Near(cursors'[Key(s)].seen)
             /\ Near(book'[Run][Key(s)].seen)
             /\ Remembers(cursors[Key(s)].seen, s, recorded[s])'
             /\ pc'[Run] = "ingesting" =>
                   Remembers(book[Run][Key(s)].seen, s, recorded[s] \cup out[Run][s])'
  <2>1. cursors'[Key(s)].seen = <<>> /\ recorded'[s] = {}
    BY <1>0, <1>7 DEF Emptied, NoCursors, NoCursor, Nothing
  <2>2. QED
    BY <1>7, <2>1 DEF Near, Remembers, ToSet
<1>75. CASE Abort(Run) \/ Return(Run)
  <2>1. /\ End(Run) /\ published' = published
        /\ UNCHANGED <<cursors, recorded>> \/ Emptied
    BY <1>75 DEF Abort, Return
  <2>2. QED
    BY <1>0, <1>6, <1>7, <2>1, QuietMemory
<1>8. CASE SaveCursors(Run)
  <2>1. /\ pc[Run] = "ingesting" /\ cursors' = book[Run]
        /\ published' = published /\ recorded'[s] = recorded[s] \cup out[Run][s]
        /\ book' = book /\ pc' = [pc EXCEPT ![Run] = "saved"]
    BY <1>0, <1>8 DEF SaveCursors, Saving, With
  <2>2. pc'[Run] = "saved"
    BY <1>0, <2>1 DEF TypeOK
  <2>3. /\ Near(book[Run][Key(s)].seen)
        /\ Remembers(book[Run][Key(s)].seen, s, recorded[s] \cup out[Run][s])
    BY <2>1 DEF MemoryInv
  <2>4. Remembers(cursors[Key(s)].seen, s, recorded[s])'
    BY <2>1, <2>3 DEF Remembers
  <2>5. QED
    BY <2>1, <2>2, <2>3, <2>4
<1>9. CASE \E t \in Sources : Skip(Run, t)
  <2>1. UNCHANGED <<published, cursors, pc, book, out, recorded>>
    BY <1>9 DEF Skip
  <2>2. QED
    BY <1>0, <2>1, QuietMemory
<1>10. ASSUME NEW t \in Sources, NEW from, NEW to, NEW got, Delivery(Run, t, from, to, got)
       PROVE  /\ Near(cursors'[Key(s)].seen)
              /\ Near(book'[Run][Key(s)].seen)
              /\ Remembers(cursors[Key(s)].seen, s, recorded[s])'
              /\ pc'[Run] = "ingesting" =>
                    Remembers(book[Run][Key(s)].seen, s, recorded[s] \cup out[Run][s])'
  <2>1. CASE t = s
    BY <1>10, <2>1, DeliveryMemory
  <2>2. CASE t # s
    <3>1. /\ book' = [book EXCEPT ![Run][to] = Advance(book[Run][from], got)]
          /\ out' = [out EXCEPT ![Run][t] = got]
          /\ to[2] = t
          /\ UNCHANGED <<published, cursors, pc, recorded>>
      BY <1>10 DEF Delivery, Deliver
    <3>2. Key(s) # to
      BY <1>0, <2>2, <3>1
    <3>3. book'[Run][Key(s)] = book[Run][Key(s)] /\ out'[Run][s] = out[Run][s]
      BY <1>0, <2>2, <3>1, <3>2 DEF TypeOK
    <3>4. QED
      BY <1>0, <3>1, <3>3, QuietMemory
  <2>3. QED
    BY <2>1, <2>2
<1>11. CASE UNCHANGED vars
  <2>1. UNCHANGED <<published, cursors, pc, book, out, recorded>>
    BY <1>11 DEF vars
  <2>2. QED
    BY <1>0, <2>1, QuietMemory
<1>12. \/ \E t \in Sources : Publish(t)
       \/ Tick
       \/ Start(Run) \/ SaveCursors(Run) \/ Return(Run) \/ Abort(Run)
       \/ \E t \in Sources : Skip(Run, t)
       \/ \E t \in Sources : \E from, to, got : Delivery(Run, t, from, to, got)
       \/ UNCHANGED vars
  BY <1>0, NextSorts
<1>13. QED
  BY <1>3, <1>4, <1>5, <1>75, <1>8, <1>9, <1>10, <1>11, <1>12

\* A step repeats only what is in the overlap window.
LEMMA StepDoesNotRepeat ==
    ASSUME Requests = {}, TypeOK, SeenInv, MemoryInv, [Next]_vars
    PROVE  NoRepeat(Steady)
<1> SUFFICES ASSUME NEW s \in Steady,
                    NEW i \in out'[Run][s], i \notin out[Run][s], i \in recorded[s]
             PROVE  i \in Overlap(s)
  BY DEF NoRepeat, Repeated, Threads
<1>0. Run \in Threads /\ Threads = {Run} /\ s \in Sources /\ Key(s) \in Keys
  BY KeyOwn DEF Threads
<1>1. ASSUME End(Run)
      PROVE  FALSE
  BY <1>0, <1>1 DEF End, TypeOK, Nothing
<1>2. ~Return(Run) /\ ~Abort(Run)
  BY <1>1 DEF Return, Abort
<1>3. out' # out
  OBVIOUS
<1>4. PICK t \in Sources : \E from, to, got : Delivery(Run, t, from, to, got)
  <2>1. /\ ~\E t \in Sources : Publish(t)
        /\ ~Tick /\ ~Start(Run) /\ ~SaveCursors(Run) /\ ~\E t \in Sources : Skip(Run, t)
        /\ ~UNCHANGED vars
    BY <1>3 DEF Publish, Tick, Start, SaveCursors, Skip, vars
  <2>2. QED
    BY <1>0, <1>2, <2>1, NextSorts
<1>5. PICK from, to, got : Delivery(Run, t, from, to, got)
  BY <1>4
<1>6. out' = [out EXCEPT ![Run][t] = got] /\ t \in todo[Run]
  BY <1>5 DEF Delivery, Deliver
<1>7. t = s /\ i \in got
  BY <1>0, <1>6 DEF TypeOK
<1>8. from = Key(s)
  BY <1>5, <1>7, KeyOwn DEF Delivery, Steady
<1> DEFINE c == book[Run][Key(s)]
<1>9. i \in Kept(s, c) /\ i \in Listing(s)
  BY <1>0, <1>5, <1>7, <1>8, KeptListed DEF Delivery
<1>10. i + MaxPerSource > published[s]
  BY <1>0, <1>9, KeptListed
<1>11. pc[Run] = "ingesting"
  BY <1>0, <1>6 DEF SeenInv, TypeOK
<1>12. i \in ToSet(c.seen)
  BY <1>10, <1>11 DEF MemoryInv, Remembers
<1>13. c.seen # <<>>
  BY <1>12 DEF ToSet
<1> HIDE DEF c
<1>14. QED
  BY <1>9, <1>12, <1>13 DEF Kept

\* When calls do not overlap and a cursor has room for two listings less one, no
\* item of a call whose map was saved is emitted again by a feed or a browsed page
\* outside the overlap window, whatever is published, fails or is cut off in
\* between, unless a save is broken off and leaves the file empty.
THEOREM NoRepeats ==
    ASSUME Requests = {}, RecentLimit >= 2 * MaxPerSource - 1
    PROVE  Spec => FeedsDoNotRepeat
<1>1. TypeOK /\ SeenInv /\ MemoryInv /\ [Next]_vars => MemoryInv'
  BY NextMemory
<1>2. TypeOK /\ SeenInv /\ MemoryInv /\ [Next]_vars => [NoRepeat(Steady)]_vars
  BY StepDoesNotRepeat
<1>3. QED
  BY <1>1, <1>2, InitMemory, IngestionTypeCorrect, SeenCorrect, PTL DEF Spec, FeedsDoNotRepeat

-----------------------------------------------------------------------------
(* The list of ids and an unbounded memory.                                *)

\* The cursor lets through what was never recorded and the overlap window,
\* whatever the list has forgotten.
LEMMA KeptIsUnread ==
    ASSUME TypeOK, SeenInv, MemoryInv, NEW s \in Steady, s \in todo[Run]
    PROVE  Kept(s, book[Run][Key(s)]) = Overlap(s) \cup (Listing(s) \ recorded[s])
<1> DEFINE c == book[Run][Key(s)]
<1>1. Run \in Threads /\ s \in Sources /\ Key(s) \in Keys /\ Key(s)[2] = s
  BY KeyOwn DEF Threads
<1>2. pc[Run] = "ingesting" /\ out[Run][s] = {}
  BY <1>1 DEF SeenInv, TypeOK
<1>3. ToSet(c.seen) \subseteq recorded[s]
  BY <1>2 DEF MemoryInv, Remembers
<1>4. \A i \in Listing(s) : i + MaxPerSource > published[s]
  BY <1>1, KeptListed
<1>5. Listing(s) \cap recorded[s] \subseteq ToSet(c.seen)
  BY <1>2, <1>4 DEF MemoryInv, Remembers
<1>6. c.seen = <<>> => ToSet(c.seen) = {}
  BY DEF ToSet
<1>7. Overlap(s) \subseteq Listing(s)
  BY DEF Overlap
<1> HIDE DEF c
<1>8. Kept(s, c) = Overlap(s) \cup (Listing(s) \ recorded[s])
  BY <1>3, <1>5, <1>6, <1>7 DEF Kept
<1>9. QED
  BY <1>8 DEF c

\* In the reader's terms.
LEMMA UnreadIs ==
    ASSUME NEW s \in Steady
    PROVE  Reader!Unread(s) = Overlap(s) \cup (Listing(s) \ recorded[s])
BY DEF Reader!Unread, Reader!Window, Reader!Listed, Overlap, Listing, Newest

\* The reader starts where ingestion starts.
LEMMA InitReads == Init => Reader!ReaderInit
<1>1. Steady \subseteq Sources /\ Run \in Threads
  BY KeyOwn DEF Threads
<1>2. QED
  BY <1>1 DEF Init, Nothing, Reader!ReaderInit, Reader!Empty

\* The state of the reader.
ReaderSees == <<[s \in Steady |-> published[s]], [s \in Steady |-> recorded[s]],
                [s \in Steady |-> delivered[s]], pc[Run], [s \in Steady |-> out[Run][s]]>>

\* The end of a call.
LEMMA EndReads ==
    ASSUME TypeOK, Return(Run) \/ Abort(Run)
    PROVE  Reader!Return \/ Reader!CutOff
<1>1. Steady \subseteq Sources /\ Run \in Threads
  BY KeyOwn DEF Threads
<1>2. End(Run) /\ published' = published
  BY DEF Return, Abort
<1>3. pc'[Run] = "idle" /\ out'[Run] = Nothing
  BY <1>1, <1>2 DEF End, TypeOK
<1>4. [s \in Steady |-> out[Run][s]]' = [s \in Steady |-> {}]
  BY <1>1, <1>3 DEF Nothing
<1>5. [s \in Steady |-> published[s]]' = [s \in Steady |-> published[s]]
  BY <1>2
<1>6. CASE Return(Run)
  <2>1. pc[Run] = "saved" /\ recorded' = recorded
    BY <1>6 DEF Return
  <2>2. [s \in Steady |-> delivered[s]]' = [s \in Steady |-> delivered[s] \cup out[Run][s]]
    BY <1>1, <1>6 DEF Return, With
  <2>3. Reader!Joined([s \in Steady |-> delivered[s]]) = [s \in Steady |-> delivered[s] \cup out[Run][s]]
    BY DEF Reader!Joined
  <2>4. Reader!Return
    BY <1>3, <1>4, <1>5, <2>1, <2>2, <2>3 DEF Reader!Return, Reader!Empty
  <2>5. QED
    BY <2>4
<1>7. CASE Abort(Run)
  <2>1. pc[Run] # "idle" /\ delivered' = delivered
    BY <1>7 DEF Abort
  <2>2. recorded' = recorded \/ (pc[Run] = "ingesting" /\ recorded' = Nothing)
    BY <1>7 DEF Abort, Saving, Emptied
  <2>3. recorded' = Nothing => [s \in Steady |-> recorded[s]]' = [s \in Steady |-> {}]
    BY <1>1 DEF Nothing
  <2>4. Reader!CutOff
    BY <1>3, <1>4, <1>5, <2>1, <2>2, <2>3 DEF Reader!CutOff, Reader!Empty
  <2>5. QED
    BY <2>4
<1>8. QED
  BY <1>6, <1>7

\* Every step is a step of the reader, or nothing to it.
LEMMA NextReads ==
    ASSUME Requests = {}, TypeOK, SeenInv, MemoryInv, [Next]_vars
    PROVE  Reader!ReaderNext \/ UNCHANGED ReaderSees
<1>0. Steady \subseteq Sources /\ Run \in Threads /\ Threads = {Run}
  BY KeyOwn DEF Threads
<1>1. ASSUME NEW t \in Sources, Publish(t)
      PROVE  Reader!ReaderNext \/ UNCHANGED ReaderSees
  <2>1. /\ published' = [published EXCEPT ![t] = published[t] + 1]
        /\ UNCHANGED <<recorded, delivered, pc, out>>
    BY <1>1 DEF Publish
  <2>2. CASE t \in Steady
    <3>1. [s \in Steady |-> published[s]]' =
              [[s \in Steady |-> published[s]] EXCEPT ![t] = published[t] + 1]
      BY <1>0, <2>1, <2>2 DEF TypeOK
    <3>2. Reader!PublishOne(t)
      BY <2>1, <2>2, <3>1 DEF Reader!PublishOne
    <3>3. QED
      BY <2>2, <3>2 DEF Reader!ReaderNext
  <2>3. CASE t \notin Steady
    <3>1. [s \in Steady |-> published[s]]' = [s \in Steady |-> published[s]]
      BY <1>0, <2>1, <2>3 DEF TypeOK
    <3>2. QED
      BY <2>1, <3>1 DEF ReaderSees
  <2>4. QED
    BY <2>2, <2>3
<1>2. CASE Start(Run)
  <2>1. /\ pc[Run] = "idle" /\ pc'[Run] = "ingesting"
        /\ UNCHANGED <<published, recorded, delivered, out>>
    BY <1>0, <1>2 DEF Start, TypeOK
  <2>2. Reader!Begin
    BY <2>1 DEF Reader!Begin
  <2>3. QED
    BY <2>2 DEF Reader!ReaderNext
<1>3. CASE SaveCursors(Run)
  <2>1. /\ pc[Run] = "ingesting" /\ pc'[Run] = "saved"
        /\ recorded' = With(recorded, out[Run]) /\ UNCHANGED <<published, delivered, out>>
    BY <1>0, <1>3 DEF SaveCursors, Saving, TypeOK
  <2>2. [s \in Steady |-> recorded[s]]' = [s \in Steady |-> recorded[s] \cup out[Run][s]]
    BY <1>0, <2>1 DEF With
  <2>3. Reader!Joined([s \in Steady |-> recorded[s]]) = [s \in Steady |-> recorded[s] \cup out[Run][s]]
    BY DEF Reader!Joined
  <2>4. Reader!Record
    BY <2>1, <2>2, <2>3 DEF Reader!Record
  <2>5. QED
    BY <2>4 DEF Reader!ReaderNext
<1>4. CASE Return(Run) \/ Abort(Run)
  BY <1>4, EndReads DEF Reader!ReaderNext
<1>5. CASE Tick \/ UNCHANGED vars \/ \E t \in Sources : Skip(Run, t)
  <2>1. UNCHANGED <<published, recorded, delivered, pc, out>>
    BY <1>5 DEF Tick, Skip, vars
  <2>2. QED
    BY <2>1 DEF ReaderSees
<1>6. ASSUME NEW t \in Sources, NEW from, NEW to, NEW got, Delivery(Run, t, from, to, got)
      PROVE  Reader!ReaderNext \/ UNCHANGED ReaderSees
  <2>1. /\ out' = [out EXCEPT ![Run][t] = got] /\ t \in todo[Run]
        /\ UNCHANGED <<published, recorded, delivered, pc>>
    BY <1>6 DEF Delivery, Deliver
  <2>2. CASE t \notin Steady
    <3>1. [s \in Steady |-> out[Run][s]]' = [s \in Steady |-> out[Run][s]]
      BY <1>0, <2>1, <2>2 DEF TypeOK
    <3>2. QED
      BY <2>1, <3>1 DEF ReaderSees
  <2>3. CASE t \in Steady
    <3>1. from = Key(t)
      BY <1>6, <2>3, KeyOwn DEF Delivery, Steady
    <3>2. Kept(t, book[Run][from]) = Reader!Unread(t)
      BY <2>1, <2>3, <3>1, KeptIsUnread, UnreadIs
    <3>3. got \in (IF t \in Forced \cap Flaky THEN SUBSET Reader!Unread(t) ELSE {Reader!Unread(t)})
      BY <1>6, <2>3, <3>2 DEF Delivery
    <3>4. pc[Run] = "ingesting" /\ out[Run][t] = {}
      BY <1>0, <2>1 DEF SeenInv, TypeOK
    <3>5. [s \in Steady |-> out[Run][s]]' = [[s \in Steady |-> out[Run][s]] EXCEPT ![t] = got]
      BY <1>0, <2>1, <2>3 DEF TypeOK
    <3>6. Reader!Fetch(t)
      BY <2>1, <2>3, <3>3, <3>4, <3>5 DEF Reader!Fetch
    <3>7. QED
      BY <2>3, <3>6 DEF Reader!ReaderNext
  <2>4. QED
    BY <2>2, <2>3
<1>7. QED
  BY <1>0, <1>1, <1>2, <1>3, <1>4, <1>5, <1>6, NextSorts

\* When calls do not overlap and a cursor has room for two listings less one,
\* ingestion reads feeds and browsed pages as a reader that forgets nothing.
THEOREM IngestionImplementsReader ==
    ASSUME Requests = {}, RecentLimit >= 2 * MaxPerSource - 1
    PROVE  Spec => ImplementsReader
<1>1. TypeOK /\ SeenInv /\ MemoryInv /\ [Next]_vars => MemoryInv'
  BY NextMemory
<1>2. TypeOK /\ SeenInv /\ MemoryInv /\ [Next]_vars => [Reader!ReaderNext]_(Reader!readerVars)
  BY NextReads DEF Reader!readerVars, ReaderSees
<1>3. QED
  BY <1>1, <1>2, InitMemory, InitReads, IngestionTypeCorrect, SeenCorrect, PTL
     DEF Spec, ImplementsReader, Reader!ReaderSpec
=============================================================================

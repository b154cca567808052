---------------------------- MODULE ReadingProofs ----------------------------
(***************************************************************************)
(* Proofs about the two ways to read: Resolution, for any scopes, requests *)
(* and rollout buckets, and Listing, for any finite set of keys and any    *)
(* page sizes.                                                             *)
(***************************************************************************)
EXTENDS Resolution, Listing, FiniteSetTheorems, SequenceTheorems, TLAPS

-----------------------------------------------------------------------------
(* Places in a finite set of numbers *)

LEMMA PlaceType ==
    ASSUME NEW T, T \subseteq Nat, IsFiniteSet(T), NEW k
    PROVE  Place(T, k) \in Nat /\ Cardinality(T) \in Nat /\ Place(T, k) <= Cardinality(T)
<1>1. {j \in T : j <= k} \in SUBSET T
  OBVIOUS
<1>2. IsFiniteSet({j \in T : j <= k}) /\ Cardinality({j \in T : j <= k}) <= Cardinality(T)
  BY <1>1, FS_Subset
<1> QED BY <1>2, FS_CardinalityType DEF Place

\* The places of the members are 1, 2, ... and grow with them.
LEMMA PlaceGrows ==
    ASSUME NEW T, T \subseteq Nat, IsFiniteSet(T), NEW x \in T, NEW y \in T, x < y
    PROVE  Place(T, x) < Place(T, y)
<1> DEFINE A == {j \in T : j <= x}
           B == {j \in T : j <= y}
<1>1. IsFiniteSet(B)
  BY FS_Subset, B \in SUBSET T
<1>2. \A j \in T : j <= x => j <= y
  OBVIOUS
<1>3. A \in SUBSET B /\ y \in B /\ y \notin A
  <2>1. x \in Nat /\ y \in Nat /\ ~(y <= x) /\ y <= y
    OBVIOUS
  <2> QED BY <1>2, <2>1
<1>4. A # B
  BY <1>3
<1> HIDE DEF A, B
<1>5. Cardinality(A) <= Cardinality(B) /\ Cardinality(A) # Cardinality(B)
  BY <1>1, <1>3, <1>4, FS_Subset
<1>6. Cardinality(A) = Place(T, x) /\ Cardinality(B) = Place(T, y)
  BY DEF A, B, Place
<1>7. Place(T, x) \in Nat /\ Place(T, y) \in Nat
  BY PlaceType
<1> QED BY <1>5, <1>6, <1>7

LEMMA PlaceOfMember ==
    ASSUME NEW T, T \subseteq Nat, IsFiniteSet(T), NEW x \in T
    PROVE  Place(T, x) \in 1 .. Cardinality(T)
<1>1. x \in {j \in T : j <= x}
  OBVIOUS
<1>2. IsFiniteSet({j \in T : j <= x})
  BY FS_Subset, {j \in T : j <= x} \in SUBSET T
<1>3. Place(T, x) # 0
  BY <1>1, <1>2, FS_EmptySet DEF Place
<1>4. Place(T, x) \in Nat /\ Cardinality(T) \in Nat /\ Place(T, x) <= Cardinality(T)
  BY PlaceType
<1> QED BY <1>3, <1>4

LEMMA PlaceInjective ==
    ASSUME NEW T, T \subseteq Nat, IsFiniteSet(T), NEW x \in T, NEW y \in T,
           Place(T, x) = Place(T, y)
    PROVE  x = y
<1>1. x \in Nat /\ y \in Nat /\ Place(T, x) \in Nat /\ Place(T, y) \in Nat
  BY PlaceType
<1>2. x < y => Place(T, x) < Place(T, y)
  BY PlaceGrows
<1>3. y < x => Place(T, y) < Place(T, x)
  BY PlaceGrows
<1> QED BY <1>1, <1>2, <1>3

LEMMA PlaceOnto ==
    ASSUME NEW T, T \subseteq Nat, IsFiniteSet(T), NEW n \in 1 .. Cardinality(T)
    PROVE  \E x \in T : Place(T, x) = n
<1> DEFINE N == Cardinality(T)
           f == [x \in T |-> Place(T, x)]
<1>1. N \in Nat
  BY FS_CardinalityType
<1>2. f \in [T -> 1 .. N]
  BY PlaceOfMember
<1>3. \A x, y \in T : f[x] = f[y] => x = y
  BY PlaceInjective
<1> HIDE DEF f
<1>4. f \in Injection(T, 1 .. N)
  BY <1>2, <1>3 DEF Injection, IsInjective
<1>5. IsFiniteSet(1 .. N) /\ Cardinality(1 .. N) = N
  BY <1>1, FS_Interval
<1>6. f \in Surjection(T, 1 .. N)
  BY <1>4, <1>5, FS_Injection
<1>7. \E x \in T : f[x] = n
  BY <1>6 DEF Surjection
<1> QED BY <1>7 DEF f

LEMMA PlaceInLarger ==
    ASSUME NEW U, U \subseteq Nat, IsFiniteSet(U), NEW T \in SUBSET U, NEW k
    PROVE  Place(T, k) <= Place(U, k)
<1>1. {j \in T : j <= k} \in SUBSET {j \in U : j <= k}
  OBVIOUS
<1>2. IsFiniteSet({j \in U : j <= k})
  BY FS_Subset, {j \in U : j <= k} \in SUBSET U
<1> QED BY <1>1, <1>2, FS_Subset DEF Place

\* The member at a place.
LEMMA NthPlace ==
    ASSUME NEW T, T \subseteq Nat, IsFiniteSet(T), NEW n \in 1 .. Cardinality(T)
    PROVE  Nth(T, n) \in T /\ Place(T, Nth(T, n)) = n
<1>1. \E x \in T : Cardinality({j \in T : j <= x}) = n
  BY PlaceOnto DEF Place
<1> QED BY <1>1 DEF Nth, Place

LEMMA NthOfPlace ==
    ASSUME NEW T, T \subseteq Nat, IsFiniteSet(T), NEW x \in T
    PROVE  Nth(T, Place(T, x)) = x
<1>1. Place(T, x) \in 1 .. Cardinality(T)
  BY PlaceOfMember
<1>2. Nth(T, Place(T, x)) \in T /\ Place(T, Nth(T, Place(T, x))) = Place(T, x)
  BY <1>1, NthPlace
<1> QED BY <1>2, PlaceInjective

-----------------------------------------------------------------------------
(* The sorted sequence of a set of keys *)

Increasing(seq) == \A i, j \in DOMAIN seq : i < j => seq[i] < seq[j]

LEMMA SortedExists ==
    ASSUME NEW T, T \subseteq Nat, IsFiniteSet(T)
    PROVE  \E seq \in [1 .. Cardinality(T) -> T] : Increasing(seq)
<1> DEFINE N == Cardinality(T)
           s == [n \in 1 .. N |-> Nth(T, n)]
<1>1. N \in Nat
  BY FS_CardinalityType
<1>2. s \in [1 .. N -> T]
  BY NthPlace
<1>3. ASSUME NEW i \in 1 .. N, NEW j \in 1 .. N, i < j
      PROVE  Nth(T, i) < Nth(T, j)
  <2>1. /\ Nth(T, i) \in T /\ Place(T, Nth(T, i)) = i
        /\ Nth(T, j) \in T /\ Place(T, Nth(T, j)) = j
    BY NthPlace
  <2>2. Nth(T, i) # Nth(T, j)
    BY <1>3, <2>1
  <2>3. ~(Nth(T, j) < Nth(T, i))
    <3>1. SUFFICES ASSUME Nth(T, j) < Nth(T, i) PROVE FALSE
      OBVIOUS
    <3>2. Place(T, Nth(T, j)) < Place(T, Nth(T, i))
      BY <2>1, <3>1, PlaceGrows
    <3> QED BY <1>3, <2>1, <3>2
  <2>4. Nth(T, i) \in Nat /\ Nth(T, j) \in Nat
    BY <2>1
  <2> QED BY <2>2, <2>3, <2>4
<1>4. Increasing(s)
  BY <1>3 DEF Increasing
<1> HIDE DEF s
<1> QED BY <1>2, <1>4

LEMMA SortedIncreases ==
    ASSUME NEW T, T \subseteq Nat, IsFiniteSet(T)
    PROVE  Sorted(T) \in [1 .. Cardinality(T) -> T] /\ Increasing(Sorted(T))
BY SortedExists DEF Sorted, Increasing

\* Every key is in the sorted sequence, at its place.
LEMMA SortedPlaces ==
    ASSUME NEW T, T \subseteq Nat, IsFiniteSet(T), NEW k \in T
    PROVE  Sorted(T)[Place(T, k)] = k
<1> DEFINE N == Cardinality(T)
           s == Sorted(T)
<1>1. N \in Nat /\ IsFiniteSet(1 .. N) /\ Cardinality(1 .. N) = N
  BY FS_CardinalityType, FS_Interval
<1>2. s \in [1 .. N -> T] /\ Increasing(s)
  BY SortedIncreases
<1> HIDE DEF s
<1>3. \A i, j \in 1 .. N : s[i] = s[j] => i = j
  <2>1. ASSUME NEW i \in 1 .. N, NEW j \in 1 .. N, s[i] = s[j] PROVE i = j
    <3>1. s[i] \in Nat /\ s[j] \in Nat
      BY <1>2
    <3>2. i < j => s[i] < s[j]
      BY <1>2 DEF Increasing
    <3>3. j < i => s[j] < s[i]
      BY <1>2 DEF Increasing
    <3> QED BY <2>1, <3>1, <3>2, <3>3
  <2> QED BY <2>1
<1>4. s \in Injection(1 .. N, T)
  BY <1>2, <1>3 DEF Injection, IsInjective
<1>5. s \in Surjection(1 .. N, T)
  BY <1>1, <1>4, FS_Injection
<1>6. PICK n \in 1 .. N : s[n] = k
  BY <1>5 DEF Surjection
<1> DEFINE B == {j \in T : j <= k}
           f == [m \in 1 .. n |-> s[m]]
<1>7. \A m \in 1 .. N : s[m] \in B <=> m <= n
  <2>1. ASSUME NEW m \in 1 .. N PROVE s[m] <= s[n] <=> m <= n
    <3>1. s[m] \in Nat /\ s[n] \in Nat
      BY <1>2
    <3>2. m < n => s[m] < s[n]
      BY <1>2 DEF Increasing
    <3>3. n < m => s[n] < s[m]
      BY <1>2 DEF Increasing
    <3> QED BY <3>1, <3>2, <3>3
  <2> QED BY <1>2, <1>6, <2>1
<1>8. f \in Bijection(1 .. n, B)
  <2>1. \A m \in 1 .. n : m \in 1 .. N
    BY <1>1
  <2>2. f \in [1 .. n -> B]
    BY <1>7, <2>1
  <2>3. \A i, j \in 1 .. n : f[i] = f[j] => i = j
    BY <1>3, <2>1
  <2>4. \A t \in B : \E m \in 1 .. n : f[m] = t
    <3>1. ASSUME NEW t \in B PROVE \E m \in 1 .. n : f[m] = t
      <4>1. PICK m \in 1 .. N : s[m] = t
        BY <1>5 DEF Surjection
      <4>2. m \in 1 .. n
        BY <1>7, <4>1
      <4> QED BY <4>1, <4>2
    <3> QED BY <3>1
  <2> HIDE DEF f
  <2> QED BY <2>2, <2>3, <2>4 DEF Bijection, Injection, IsInjective, Surjection
<1>9. Cardinality(1 .. n) = n /\ IsFiniteSet(1 .. n)
  BY <1>1, FS_Interval
<1>10. Cardinality(B) = n
  <2>1. ExistsBijection(1 .. n, B)
    BY <1>8 DEF ExistsBijection
  <2> QED BY <1>9, <2>1, FS_Bijection
<1> QED BY <1>6, <1>10 DEF Place, s

-----------------------------------------------------------------------------
(* Pages *)

\* A page holds the keys of its places, and one that is not full is the last.
LEMMA RowsAreThePage ==
    ASSUME NEW T, T \subseteq Nat, IsFiniteSet(T), NEW size \in Nat \ {0}, NEW offset \in Nat
    PROVE  /\ Rows(T, size, offset) \in Seq(T)
           /\ \A k \in T : offset < Place(T, k) /\ Place(T, k) <= offset + size =>
                 \E i \in DOMAIN Rows(T, size, offset) : Rows(T, size, offset)[i] = k
           /\ Len(Rows(T, size, offset)) < size => Cardinality(T) < offset + size
<1> DEFINE N == Cardinality(T)
           m == IF offset + size <= N THEN offset + size ELSE N
           s == Sorted(T)
           rows == SubSeq(s, offset + 1, m)
<1>1. N \in Nat
  BY FS_CardinalityType
<1>2. Min({offset + size, N}) = m
  <2>1. m \in {offset + size, N} /\ \A y \in {offset + size, N} : m <= y
    BY <1>1
  <2>2. \A x \in {offset + size, N} : (\A y \in {offset + size, N} : x <= y) => x = m
    BY <1>1
  <2> HIDE DEF m, N
  <2> QED BY <2>1, <2>2 DEF Min
<1>3. Rows(T, size, offset) = rows
  BY <1>2 DEF Rows
<1>4. s \in [1 .. N -> T]
  BY SortedIncreases
<1>5. m \in Nat /\ m <= N /\ m <= offset + size
  BY <1>1
<1>6. \A i \in offset + 1 .. m : s[i] \in T
  BY <1>1, <1>4, <1>5
<1>7. offset + 1 \in Int /\ m \in Int
  BY <1>5
<1> HIDE DEF m, s, rows, N
<1>8. /\ rows \in Seq(T)
      /\ Len(rows) = IF offset + 1 <= m THEN m - (offset + 1) + 1 ELSE 0
      /\ \A i \in 1 .. m - (offset + 1) + 1 : rows[i] = s[offset + 1 + i - 1]
  BY <1>6, <1>7, SubSeqProperties DEF rows
<1>9. ASSUME NEW k \in T, offset < Place(T, k), Place(T, k) <= offset + size
      PROVE  \E i \in DOMAIN rows : rows[i] = k
  <2>1. Place(T, k) \in 1 .. N /\ s[Place(T, k)] = k
    BY PlaceOfMember, SortedPlaces DEF s, N
  <2>2. Place(T, k) <= m
    BY <1>1, <1>9, <2>1 DEF m
  <2>3. PICK i \in Nat : i = Place(T, k) - offset
    BY <1>9, <2>1
  <2>4. i \in 1 .. m - (offset + 1) + 1 /\ i <= Len(rows) /\ offset + 1 + i - 1 = Place(T, k)
    <3>1. i >= 1 /\ offset + i = Place(T, k) /\ offset + i <= m
      BY <1>9, <2>1, <2>2, <2>3
    <3>2. offset + 1 <= m /\ i <= m - (offset + 1) + 1 /\ offset + 1 + i - 1 = Place(T, k)
      BY <1>5, <2>3, <3>1
    <3>3. Len(rows) = m - (offset + 1) + 1
      BY <1>8, <3>2
    <3> QED BY <1>5, <2>3, <3>1, <3>2, <3>3
  <2>5. rows[i] = k
    BY <1>8, <2>1, <2>4
  <2>6. i \in DOMAIN rows
    BY <1>8, <2>3, <2>4
  <2> QED BY <2>5, <2>6
<1>10. Len(rows) < size => N < offset + size
  BY <1>1, <1>5, <1>8 DEF m
<1> QED BY <1>3, <1>8, <1>9, <1>10 DEF N

LEMMA OffsetNext ==
    ASSUME NEW number \in Nat \ {0}, NEW size \in Nat
    PROVE  /\ Offset(number, size) \in Nat
           /\ Offset(number + 1, size) = Offset(number, size) + size
<1>1. number - 1 \in Nat /\ (number - 1) * size \in Nat
  OBVIOUS
<1>2. (number + 1 - 1) * size = (number - 1) * size + size
  OBVIOUS
<1> QED BY <1>1, <1>2 DEF Offset

LEMMA FirstOffset ==
    ASSUME NEW size \in Nat
    PROVE  Offset(1, size) = 0
<1>1. (1 - 1) * size = 0
  OBVIOUS
<1> QED BY <1>1 DEF Offset

LEMMA StoredIsFinite ==
    ASSUME NEW T \in SUBSET Keys
    PROVE  T \subseteq Nat /\ IsFiniteSet(T)
BY KeysAssumption, FS_Subset

LEMMA WalkUpdate ==
    ASSUME NEW w \in Walk, NEW n, NEW s, NEW d
    PROVE  [w EXCEPT !.next = n, !.seen = s, !.done = d]
             = [size |-> w.size, next |-> n, before |-> w.before, seen |-> s, done |-> d]
<1> DEFINE W(a, b, c) == [size |-> w.size, next |-> a, before |-> w.before, seen |-> b, done |-> c]
<1>1. [w EXCEPT !.next = n] = W(n, w.seen, w.done)
  BY DEF Walk
<1>2. [W(n, w.seen, w.done) EXCEPT !.seen = s] = W(n, s, w.done)
  OBVIOUS
<1>3. [W(n, s, w.done) EXCEPT !.done = d] = W(n, s, d)
  OBVIOUS
<1> HIDE DEF W
<1>4. [w EXCEPT !.next = n, !.seen = s, !.done = d] = W(n, s, d)
  BY <1>1, <1>2, <1>3, Zenon
<1> QED BY <1>4 DEF W

-----------------------------------------------------------------------------
(* The walk through the pages *)

LEMMA ListingInit == ListInit => ListingInv
BY DEF ListInit, ListingInv, NoWalk, Walk, MaxPageSize, Walking, PassedIsSeen, WalkMissesNothing, Idle

\* Inserts move keys to later places only.
LEMMA InsertKeeps ==
    ASSUME ListingInv, NEW k \in Keys, Insert(k)
    PROVE  ListingInv'
<1>1. stored' = stored \cup {k} /\ request' = request /\ walk' = walk
  BY DEF Insert
<1>2. stored' \subseteq Keys /\ stored \subseteq stored'
  BY <1>1 DEF ListingInv
<1>3. stored' \subseteq Nat /\ IsFiniteSet(stored') /\ stored \subseteq Nat /\ IsFiniteSet(stored)
  BY <1>2, StoredIsFinite DEF ListingInv
<1>4. ASSUME NEW j \in walk.before, Place(stored', j) <= Offset(walk.next, walk.size)
      PROVE  j \in walk.seen
  <2>1. Place(stored, j) <= Place(stored', j)
    BY <1>2, <1>3, PlaceInLarger
  <2>2. Place(stored, j) \in Nat /\ Place(stored', j) \in Nat
    BY <1>3, PlaceType
  <2>3. Offset(walk.next, walk.size) \in Nat
    BY OffsetNext DEF ListingInv, Walk
  <2>4. Place(stored, j) <= Offset(walk.next, walk.size)
    BY <1>4, <2>1, <2>2, <2>3
  <2> QED BY <2>4 DEF ListingInv, PassedIsSeen
<1>5. PassedIsSeen'
  BY <1>1, <1>4 DEF PassedIsSeen, Place, Offset
<1>6. Walking' /\ WalkMissesNothing'
  BY <1>1 DEF ListingInv, Walking, WalkMissesNothing
<1> QED BY <1>1, <1>2, <1>5, <1>6 DEF ListingInv

LEMMA RefuseListKeeps ==
    ASSUME ListingInv, NEW code, RefuseList(code)
    PROVE  ListingInv'
<1>1. request' = Idle /\ stored' = stored /\ walk' = walk
  BY DEF RefuseList
<1> QED BY <1>1 DEF ListingInv, Walking, PassedIsSeen, WalkMissesNothing, Place, Offset

\* A request begins; the walk's is for its next page.
LEMMA BeginKeeps ==
    ASSUME ListingInv, NEW c, NEW number \in Int, NEW size \in Int,
           NEW walking \in BOOLEAN, Begin(c, number, size, walking),
           walking => walk.size > 0 /\ ~walk.done /\ number = walk.next /\ size = walk.size
    PROVE  ListingInv'
<1> DEFINE n == IF number <= 0 THEN 1 ELSE number
           limit == IF size <= 0 THEN DefaultPageSize ELSE size
<1>1. CASE \E code : RefuseList(code)
  BY <1>1, RefuseListKeeps
<1>2. CASE /\ ~TooLarge(limit)
           /\ request' = [stage |-> "count", number |-> n, size |-> limit,
                          total |-> 0, walking |-> walking]
           /\ UNCHANGED <<stored, page, walk>>
  <2>1. n \in Nat \ {0} /\ limit \in 1 .. MaxPageSize
    BY <1>2 DEF TooLarge, MaxPageSize, DefaultPageSize
  <2>2. request' \in ListRequest
    BY <1>2, <2>1 DEF ListRequest
  <2>3. walk \in Walk
    BY DEF ListingInv
  <2>4. walking => n = walk.next /\ limit = walk.size
    BY <2>3 DEF Walk
  <2>5. /\ request'.walking = walking /\ request'.number = n /\ request'.size = limit
        /\ stored' = stored /\ walk' = walk
    BY <1>2
  <2>6. Walking'
    BY <2>4, <2>5 DEF Walking
  <2> QED BY <2>2, <2>5, <2>6 DEF ListingInv, PassedIsSeen, WalkMissesNothing, Place, Offset
<1> QED BY <1>1, <1>2 DEF Begin

LEMMA CountKeeps ==
    ASSUME ListingInv, Count
    PROVE  ListingInv'
<1>1. CASE RefuseList("internal")
  BY <1>1, RefuseListKeeps
<1>2. CASE /\ request' = [request EXCEPT !.stage = "select", !.total = Cardinality(stored)]
           /\ UNCHANGED <<stored, page, walk>>
  <2>1. request \in ListRequest
    BY DEF ListingInv, Count, Idle
  <2>2. Cardinality(stored) \in Nat
    BY StoredIsFinite, FS_CardinalityType DEF ListingInv
  <2>3. /\ request' \in ListRequest /\ request'.number = request.number
        /\ request'.size = request.size /\ request'.walking = request.walking
    <3>1. [request EXCEPT !.stage = "select"] \in ListRequest
      BY <2>1 DEF ListRequest
    <3> QED BY <1>2, <2>1, <2>2, <3>1 DEF ListRequest
  <2>4. request # Idle
    BY DEF Count, Idle
  <2> QED BY <1>2, <2>3, <2>4 DEF ListingInv, Walking, PassedIsSeen, WalkMissesNothing, Place, Offset
<1> QED BY <1>1, <1>2 DEF Count

LEMMA StartWalkKeeps ==
    ASSUME ListingInv, NEW size \in 1 .. MaxPageSize, StartWalk(size)
    PROVE  ListingInv'
<1>1. /\ walk = NoWalk /\ stored' = stored /\ request' = request
      /\ walk' = [size |-> size, next |-> 1, before |-> stored, seen |-> {}, done |-> FALSE]
  BY DEF StartWalk, NoWalk
<1>2. walk' \in Walk /\ walk'.before \subseteq stored'
  BY <1>1 DEF ListingInv, Walk, MaxPageSize
<1>3. Walking'
  BY <1>1 DEF ListingInv, Walking, NoWalk
<1>4. stored \subseteq Nat /\ IsFiniteSet(stored) /\ Offset(1, size) = 0
  <2>1. size \in Nat
    BY DEF MaxPageSize
  <2> QED BY <2>1, StoredIsFinite, FirstOffset DEF ListingInv
<1>5. \A k \in stored : ~(Place(stored, k) <= 0)
  <2>1. \A k \in stored : Place(stored, k) \in 1 .. Cardinality(stored)
    BY <1>4, PlaceOfMember
  <2> QED BY <2>1
<1>6. PassedIsSeen'
  BY <1>1, <1>4, <1>5 DEF PassedIsSeen, Place, Offset
<1>7. WalkMissesNothing'
  BY <1>1 DEF WalkMissesNothing
<1> QED BY <1>1, <1>2, <1>3, <1>6, <1>7 DEF ListingInv

\* The page of the walk adds the keys of its places to those that were seen.
LEMMA SelectKeeps ==
    ASSUME ListingInv, Select
    PROVE  ListingInv'
<1> DEFINE o == Offset(request.number, request.size)
           keys == Rows(stored, request.size, o)
<1>1. CASE RefuseList("internal")
  BY <1>1, RefuseListKeeps
<1>2. CASE ~request.walking /\ request' = Idle /\ walk' = walk /\ stored' = stored
  BY <1>2 DEF ListingInv, Walking, PassedIsSeen, WalkMissesNothing, Place, Offset
<1>3. CASE /\ request.walking /\ request' = Idle /\ stored' = stored
           /\ walk' = [walk EXCEPT !.next = @ + 1,
                                   !.seen = @ \cup {keys[i] : i \in DOMAIN keys},
                                   !.done = Len(keys) < request.size]
  <2> DEFINE seen == walk.seen \cup {keys[i] : i \in DOMAIN keys}
  <2>1. walk \in Walk /\ request \in ListRequest /\ request # Idle
    BY DEF ListingInv, Select, Idle
  <2>2. request.number = walk.next /\ request.size = walk.size
    BY <1>3, <2>1 DEF ListingInv, Walking
  <2>3. /\ walk'.size = walk.size /\ walk'.next = walk.next + 1 /\ walk'.before = walk.before
        /\ walk'.seen = seen /\ walk'.done = (Len(keys) < request.size)
        /\ walk' = [size |-> walk.size, next |-> walk.next + 1, before |-> walk.before,
                    seen |-> seen, done |-> (Len(keys) < request.size)]
    BY <1>3, <2>1, WalkUpdate
  <2>4. request.size \in Nat \ {0} /\ walk.next \in Nat \ {0} /\ o \in Nat
    <3>1. request.size \in Nat \ {0} /\ walk.next \in Nat \ {0}
      BY <2>1, <2>2 DEF ListRequest, Walk, MaxPageSize
    <3> QED BY <2>2, <3>1, OffsetNext
  <2>5. stored \subseteq Nat /\ IsFiniteSet(stored) /\ stored \subseteq Keys
    BY StoredIsFinite DEF ListingInv
  <2>6. /\ keys \in Seq(stored)
        /\ \A k \in stored : o < Place(stored, k) /\ Place(stored, k) <= o + request.size =>
              \E i \in DOMAIN keys : keys[i] = k
        /\ Len(keys) < request.size => Cardinality(stored) < o + request.size
    BY <2>4, <2>5, RowsAreThePage
  <2>7. Offset(walk.next + 1, walk.size) = o + request.size
    BY <2>2, <2>4, OffsetNext
  <2> HIDE DEF keys, o
  <2>8. ASSUME NEW k \in walk.before, Place(stored, k) <= o + request.size
        PROVE  k \in seen
    <3>1. k \in stored /\ Place(stored, k) \in Nat
      BY <2>5, PlaceType DEF ListingInv
    <3>2. CASE Place(stored, k) <= o
      BY <2>2, <3>2 DEF ListingInv, PassedIsSeen, o
    <3>3. CASE o < Place(stored, k)
      BY <2>6, <2>8, <3>1, <3>3
    <3> QED BY <2>4, <3>1, <3>2, <3>3
  <2> HIDE DEF seen
  <2>9. PassedIsSeen'
    BY <1>3, <2>3, <2>7, <2>8 DEF PassedIsSeen, Place, Offset
  <2>10. WalkMissesNothing'
    <3>1. ASSUME Len(keys) < request.size, NEW k \in walk.before PROVE k \in seen
      <4>1. Place(stored, k) \in Nat /\ Cardinality(stored) \in Nat
            /\ Place(stored, k) <= Cardinality(stored)
        BY <2>5, PlaceType
      <4>2. Place(stored, k) <= o + request.size
        BY <2>4, <2>6, <3>1, <4>1
      <4> QED BY <2>8, <4>2
    <3> QED BY <2>3, <3>1 DEF WalkMissesNothing
  <2>11. walk' \in Walk /\ walk'.before \subseteq stored'
    <3>1. \A i \in DOMAIN keys : keys[i] \in Keys
      <4>1. \A i \in DOMAIN keys : keys[i] \in stored
        BY <2>6
      <4> QED BY <2>5, <4>1
    <3>2. seen \in SUBSET Keys
      BY <2>1, <3>1 DEF seen, Walk
    <3>3. (Len(keys) < request.size) \in BOOLEAN
      OBVIOUS
    <3>4. walk' \in Walk
      BY <2>1, <2>3, <3>2, <3>3 DEF Walk
    <3> QED BY <1>3, <2>3, <3>4 DEF ListingInv
  <2>12. Walking'
    BY <1>3 DEF Walking, Idle
  <2> QED BY <1>3, <2>5, <2>9, <2>10, <2>11, <2>12 DEF ListingInv
<1> QED BY <1>1, <1>2, <1>3 DEF Select

LEMMA ListingStep == ListingInv /\ [ListNext]_listVars => ListingInv'
<1> SUFFICES ASSUME ListingInv, [ListNext]_listVars PROVE ListingInv'
  OBVIOUS
<1>1. ASSUME NEW k \in Keys, Insert(k) PROVE ListingInv'
  BY <1>1, InsertKeeps
<1>2. CASE List
  <2>1. PICK c \in Readers, number \in {0, 1, 2}, size \in PageSizes :
           Begin(c, number, size, FALSE)
    BY <1>2 DEF List
  <2>2. number \in Int /\ size \in Int
    BY PageSizesAssumption
  <2> QED BY <2>1, <2>2, BeginKeeps
<1>3. CASE Count
  BY <1>3, CountKeeps
<1>4. CASE Select
  BY <1>4, SelectKeeps
<1>5. ASSUME NEW size \in PageSizes, 0 < size, size <= MaxPageSize, StartWalk(size)
      PROVE  ListingInv'
  BY <1>5, PageSizesAssumption, StartWalkKeeps DEF MaxPageSize
<1>6. CASE WalkOn
  <2>1. PICK c \in Readers : Begin(c, walk.next, walk.size, TRUE)
    BY <1>6 DEF WalkOn
  <2>2. walk.next \in Int /\ walk.size \in Int /\ walk.size > 0 /\ ~walk.done
    BY <1>6 DEF WalkOn, ListingInv, Walk, MaxPageSize
  <2> QED BY <2>1, <2>2, BeginKeeps
<1>7. CASE UNCHANGED listVars
  BY <1>7 DEF listVars, ListingInv, Walking, PassedIsSeen, WalkMissesNothing, Place, Offset
<1> QED BY <1>1, <1>2, <1>3, <1>4, <1>5, <1>6, <1>7 DEF ListNext

\* A client that walks through the pages of List is given every entry that was
\* stored when it began, for any keys, any page size and any inserts before,
\* between and behind its pages (Service.List, Repository.List).
THEOREM WalksMissNothing == ListSpec => []WalkMissesNothing
<1>1. ListSpec => []ListingInv
  BY ListingInit, ListingStep, PTL DEF ListSpec
<1>2. ListingInv => WalkMissesNothing
  BY DEF ListingInv
<1> QED BY <1>1, <1>2, PTL

-----------------------------------------------------------------------------
(* Resolve: the first row that hits is the most specific entry *)

\* The scopes that could answer a key.
Candidates(q, key) == {s \in ResolvedScopes(q) : s.key = key /\ Hit(q, s)}

LEMMA RankType ==
    ASSUME NEW q, NEW s
    PROVE  Rank(q, s) \in {0, 1, 2}
BY DEF Rank

LEMMA CandidateRanks ==
    ASSUME NEW q, NEW key, NEW s \in Candidates(q, key)
    PROVE  /\ Rank(q, s) = 0 <=> s.tenant = q.tenant /\ s.application = q.application
           /\ Rank(q, s) = 1 => s.tenant = q.tenant /\ s.application = ""
           /\ Rank(q, s) = 2 => s.tenant = "" /\ s.application = ""
<1>1. \/ s.tenant = q.tenant /\ s.application = q.application
      \/ s.tenant = q.tenant /\ s.application = ""
      \/ s.tenant = "" /\ s.application = ""
  BY DEF Candidates, ResolvedScopes
<1>2. CASE s.tenant = q.tenant /\ s.application = q.application
  <2>1. Rank(q, s) = 0
    BY <1>2 DEF Rank
  <2> QED BY <1>2, <2>1
<1>3. CASE ~(s.tenant = q.tenant /\ s.application = q.application)
  <2>1. CASE s.tenant = q.tenant /\ s.application = ""
    <3>1. Rank(q, s) = 1
      BY <1>3, <2>1 DEF Rank
    <3>2. Rank(q, s) # 0 /\ Rank(q, s) # 2
      BY <3>1
    <3> QED BY <1>3, <2>1, <3>2, Zenon
  <2>2. CASE ~(s.tenant = q.tenant /\ s.application = "")
    <3>1. Rank(q, s) = 2
      BY <1>3, <2>2 DEF Rank
    <3>2. Rank(q, s) # 0 /\ Rank(q, s) # 1
      BY <3>1
    <3> QED BY <1>1, <1>3, <2>2, <3>2, Zenon
  <2> QED BY <2>1, <2>2
<1> QED BY <1>2, <1>3

\* A tenant, an application and a key name one scope, so a rank names one candidate.
LEMMA RankNamesOne ==
    ASSUME NEW q, NEW key, NEW s \in Candidates(q, key), NEW t \in Candidates(q, key),
           Rank(q, s) = Rank(q, t)
    PROVE  s = t
<1>1. s \in Scopes /\ t \in Scopes /\ s.key = t.key
  BY DEF Candidates, ResolvedScopes
<1>2. /\ s = [tenant |-> s.tenant, application |-> s.application, key |-> s.key]
      /\ t = [tenant |-> t.tenant, application |-> t.application, key |-> t.key]
  BY <1>1, ScopesAssumption
<1>3. s.tenant = t.tenant /\ s.application = t.application
  <2>1. Rank(q, s) \in {0, 1, 2}
    BY RankType
  <2>2. /\ Rank(q, s) = 0 <=> s.tenant = q.tenant /\ s.application = q.application
        /\ Rank(q, s) = 1 => s.tenant = q.tenant /\ s.application = ""
        /\ Rank(q, s) = 2 => s.tenant = "" /\ s.application = ""
    BY CandidateRanks
  <2>3. /\ Rank(q, t) = 0 <=> t.tenant = q.tenant /\ t.application = q.application
        /\ Rank(q, t) = 1 => t.tenant = q.tenant /\ t.application = ""
        /\ Rank(q, t) = 2 => t.tenant = "" /\ t.application = ""
    BY CandidateRanks
  <2> QED BY <2>1, <2>2, <2>3
<1> QED BY <1>1, <1>2, <1>3

\* MostSpecific, by ranks.
LEMMA MostSpecificByRank ==
    ASSUME NEW q \in Requests, NEW key \in Elements(q.keys)
    PROVE  MostSpecific(q, key)
             = {s \in Candidates(q, key) : \A t \in Candidates(q, key) : Rank(q, s) <= Rank(q, t)}
<1> DEFINE C == Candidates(q, key)
           Level(t, a) == {s \in Scopes :
              /\ s.tenant = t /\ s.application = a /\ s.key = key
              /\ entries[s] # NoEntry /\ entries[s].published > 0 /\ Hit(q, s)}
           Best == {s \in C : \A t \in C : Rank(q, s) <= Rank(q, t)}
<1>1. /\ \A s : s \in Level(q.tenant, q.application) <=> s \in C /\ Rank(q, s) = 0
      /\ \A s \in C : Rank(q, s) = 1 => s \in Level(q.tenant, "")
      /\ \A s \in Level(q.tenant, "") : s \in C /\ Rank(q, s) \in {0, 1}
      /\ \A s \in C : Rank(q, s) = 2 => s \in Level("", "")
      /\ \A s \in Level("", "") : s \in C
  <2> DEFINE Fit(s) == /\ s \in Scopes /\ s.key = key
                       /\ entries[s] # NoEntry /\ entries[s].published > 0 /\ Hit(q, s)
  <2>1. \A s : s \in C <=>
           /\ Fit(s)
           /\ \/ s.tenant = q.tenant /\ s.application = q.application
              \/ s.tenant = q.tenant /\ s.application = ""
              \/ s.tenant = "" /\ s.application = ""
    BY DEF Candidates, ResolvedScopes
  <2>2. \A t, a, s : s \in Level(t, a) <=> Fit(s) /\ s.tenant = t /\ s.application = a
    OBVIOUS
  <2>3. \A s \in C : /\ Rank(q, s) = 0 <=> s.tenant = q.tenant /\ s.application = q.application
                     /\ Rank(q, s) = 1 => s.tenant = q.tenant /\ s.application = ""
                     /\ Rank(q, s) = 2 => s.tenant = "" /\ s.application = ""
    BY CandidateRanks
  <2>4. \A s : s.tenant = q.tenant /\ s.application = "" => Rank(q, s) \in {0, 1}
    BY DEF Rank
  <2> HIDE DEF Fit, C, Level
  <2>5. \A s : s \in Level(q.tenant, q.application) <=> s \in C /\ Rank(q, s) = 0
    <3>1. ASSUME NEW s, s \in Level(q.tenant, q.application) PROVE s \in C /\ Rank(q, s) = 0
      <4>1. Fit(s) /\ s.tenant = q.tenant /\ s.application = q.application
        BY <2>2, <3>1
      <4>2. s \in C
        BY <2>1, <4>1
      <4> QED BY <2>3, <4>1, <4>2
    <3>2. ASSUME NEW s, s \in C, Rank(q, s) = 0 PROVE s \in Level(q.tenant, q.application)
      <4>1. Fit(s) /\ s.tenant = q.tenant /\ s.application = q.application
        BY <2>1, <2>3, <3>2
      <4> QED BY <2>2, <4>1
    <3> QED BY <3>1, <3>2
  <2>6. \A s \in C : Rank(q, s) = 1 => s \in Level(q.tenant, "")
    BY <2>1, <2>2, <2>3
  <2>7. \A s \in Level(q.tenant, "") : s \in C /\ Rank(q, s) \in {0, 1}
    <3>1. TAKE s \in Level(q.tenant, "")
    <3>2. Fit(s) /\ s.tenant = q.tenant /\ s.application = ""
      BY <2>2
    <3> QED BY <2>1, <2>4, <3>2
  <2>8. \A s \in C : Rank(q, s) = 2 => s \in Level("", "")
    BY <2>1, <2>2, <2>3
  <2>9. \A s \in Level("", "") : s \in C
    BY <2>1, <2>2
  <2> QED BY <2>5, <2>6, <2>7, <2>8, <2>9
<1>2. MostSpecific(q, key) =
        IF Level(q.tenant, q.application) # {} THEN Level(q.tenant, q.application)
        ELSE IF Level(q.tenant, "") # {} THEN Level(q.tenant, "")
        ELSE Level("", "")
  BY DEF MostSpecific
<1>3. \A s \in C : Rank(q, s) \in {0, 1, 2}
  BY RankType
<1> HIDE DEF C, Level
<1>4. CASE Level(q.tenant, q.application) # {}
  <2>1. PICK b \in C : Rank(q, b) = 0
    BY <1>1, <1>4
  <2>2. \A s \in C : (\A t \in C : Rank(q, s) <= Rank(q, t)) <=> Rank(q, s) = 0
    <3>1. ASSUME NEW s \in C, \A t \in C : Rank(q, s) <= Rank(q, t) PROVE Rank(q, s) = 0
      BY <1>3, <2>1, <3>1
    <3>2. ASSUME NEW s \in C, Rank(q, s) = 0, NEW t \in C PROVE Rank(q, s) <= Rank(q, t)
      BY <1>3, <3>2
    <3> QED BY <3>1, <3>2
  <2>3. Best = Level(q.tenant, q.application)
    BY <1>1, <2>2
  <2> QED BY <1>2, <1>4, <2>3 DEF C
<1>5. CASE Level(q.tenant, q.application) = {} /\ Level(q.tenant, "") # {}
  <2>1. \A s : s \in Level(q.tenant, "") <=> s \in C /\ Rank(q, s) = 1
    BY <1>1, <1>5
  <2>2. PICK b \in C : Rank(q, b) = 1
    BY <1>5, <2>1
  <2>3. \A s \in C : Rank(q, s) \in {1, 2}
    BY <1>1, <1>3, <1>5
  <2>4. \A s \in C : (\A t \in C : Rank(q, s) <= Rank(q, t)) <=> Rank(q, s) = 1
    <3>1. ASSUME NEW s \in C, \A t \in C : Rank(q, s) <= Rank(q, t) PROVE Rank(q, s) = 1
      BY <2>2, <2>3, <3>1
    <3>2. ASSUME NEW s \in C, Rank(q, s) = 1, NEW t \in C PROVE Rank(q, s) <= Rank(q, t)
      BY <2>3, <3>2
    <3> QED BY <3>1, <3>2
  <2>5. Best = Level(q.tenant, "")
    BY <2>1, <2>4
  <2> QED BY <1>2, <1>5, <2>5 DEF C
<1>6. CASE Level(q.tenant, q.application) = {} /\ Level(q.tenant, "") = {}
  <2>1. \A s \in C : Rank(q, s) = 2
    BY <1>1, <1>3, <1>6
  <2>2. Best = C /\ Level("", "") = C
    BY <1>1, <2>1
  <2> QED BY <1>2, <1>6, <2>2 DEF C
<1> QED BY <1>4, <1>5, <1>6

\* The rows of a query are the scopes of its WHERE clause, in the order of ranks.
LEMMA RowsOfQuery ==
    ASSUME NEW q, NEW rows \in ResolvedRows(q)
    PROVE  /\ DOMAIN rows \subseteq Nat \ {0} /\ IsFiniteSet(DOMAIN rows)
           /\ Elements(rows) = ResolvedScopes(q)
           /\ \A i, j \in DOMAIN rows : i < j => Rank(q, rows[i]) <= Rank(q, rows[j])
           /\ \A n \in DOMAIN rows : \A j \in 1 .. n - 1 : j \in DOMAIN rows
<1>1. IsFiniteSet(ResolvedScopes(q))
  BY ScopesAssumption, FS_Subset DEF ResolvedScopes
<1>2. Cardinality(ResolvedScopes(q)) \in Nat
  BY <1>1, FS_CardinalityType
<1>3. DOMAIN rows = 1 .. Cardinality(ResolvedScopes(q))
  BY DEF ResolvedRows
<1>4. IsFiniteSet(1 .. Cardinality(ResolvedScopes(q)))
  BY <1>2, FS_Interval
<1>5. /\ Elements(rows) = ResolvedScopes(q)
      /\ \A i, j \in DOMAIN rows : i < j => Rank(q, rows[i]) <= Rank(q, rows[j])
  BY DEF ResolvedRows
<1> QED BY <1>2, <1>3, <1>4, <1>5

\* selected[key] is the most specific entry, or there is none.
LEMMA SelectedIsMostSpecific ==
    ASSUME NEW q \in Requests, NEW rows \in ResolvedRows(q), NEW key \in Elements(q.keys)
    PROVE  Selected(q, rows, key) = MostSpecific(q, key)
<1> DEFINE H == {n \in DOMAIN rows : rows[n].key = key /\ Hit(q, rows[n])}
           C == Candidates(q, key)
           Best == {s \in C : \A t \in C : Rank(q, s) <= Rank(q, t)}
<1>1. /\ DOMAIN rows \subseteq Nat \ {0} /\ IsFiniteSet(DOMAIN rows)
      /\ Elements(rows) = ResolvedScopes(q)
      /\ \A i, j \in DOMAIN rows : i < j => Rank(q, rows[i]) <= Rank(q, rows[j])
      /\ \A n \in DOMAIN rows : \A j \in 1 .. n - 1 : j \in DOMAIN rows
  BY RowsOfQuery
<1>2. H \subseteq Nat /\ IsFiniteSet(H)
  BY <1>1, FS_Subset
<1>3. \A s : s \in C <=> \E n \in H : s = rows[n]
  BY <1>1 DEF Candidates, Elements
<1>4. Selected(q, rows, key) = {rows[n] : n \in {m \in H : \A j \in 1 .. m - 1 : j \notin H}}
  BY <1>1 DEF Selected
<1>5. MostSpecific(q, key) = Best
  BY MostSpecificByRank
<1>6. CASE H = {}
  <2>1. C = {}
    BY <1>3, <1>6
  <2>2. Best = {}
    BY <2>1
  <2>3. Selected(q, rows, key) = {}
    BY <1>4, <1>6
  <2> QED BY <1>5, <2>2, <2>3
<1>7. CASE H # {}
  <2>1. Cardinality(H) \in Nat /\ Cardinality(H) # 0
    BY <1>2, <1>7, FS_CardinalityType, FS_EmptySet
  <2>2. 1 \in 1 .. Cardinality(H)
    BY <2>1
  <2>3. PICK f \in H : Place(H, f) = 1
    BY <1>2, <2>2, PlaceOnto
  <2>4. ASSUME NEW n \in H PROVE f <= n
    <3>1. Place(H, n) \in 1 .. Cardinality(H)
      BY <1>2, PlaceOfMember
    <3>2. n < f => Place(H, n) < Place(H, f)
      BY <1>2, PlaceGrows
    <3>3. f \in Nat /\ n \in Nat
      BY <1>2
    <3> QED BY <2>1, <2>3, <3>1, <3>2, <3>3
  <2>5. \A m \in H : (\A j \in 1 .. m - 1 : j \notin H) <=> m = f
    <3>1. ASSUME NEW m \in H, \A j \in 1 .. m - 1 : j \notin H PROVE m = f
      <4>1. f \in Nat \ {0} /\ m \in Nat \ {0} /\ f <= m
        BY <1>1, <2>4
      <4>2. f < m => f \in 1 .. m - 1
        BY <4>1
      <4> QED BY <3>1, <4>1, <4>2
    <3>2. ASSUME NEW j \in 1 .. f - 1 PROVE j \notin H
      <4>1. f \in Nat /\ ~(f <= j)
        BY <1>2
      <4> QED BY <2>4, <4>1
    <3> QED BY <3>1, <3>2
  <2>6. Selected(q, rows, key) = {rows[f]}
    BY <1>4, <2>5
  <2>7. rows[f] \in Best
    <3>1. ASSUME NEW t \in C PROVE Rank(q, rows[f]) <= Rank(q, t)
      <4>1. PICK n \in H : t = rows[n]
        BY <1>3
      <4>2. f = n \/ f < n
        BY <1>2, <2>4
      <4>3. Rank(q, rows[f]) \in {0, 1, 2}
        BY RankType
      <4> QED BY <1>1, <4>1, <4>2, <4>3
    <3> QED BY <1>3, <3>1
  <2>8. ASSUME NEW s \in Best PROVE s = rows[f]
    <3>1. Rank(q, s) <= Rank(q, rows[f]) /\ Rank(q, rows[f]) <= Rank(q, s)
      BY <2>7
    <3>2. Rank(q, s) \in {0, 1, 2} /\ Rank(q, rows[f]) \in {0, 1, 2}
      BY RankType
    <3>3. Rank(q, s) = Rank(q, rows[f])
      BY <3>1, <3>2
    <3> QED BY <2>7, <3>3, RankNamesOne
  <2>9. Best = {rows[f]}
    BY <2>7, <2>8
  <2> QED BY <1>5, <2>6, <2>9
<1> QED BY <1>6, <1>7

\* Where the wanted keys are.
Positions(keys, wanted) == {i \in DOMAIN keys : keys[i] \in wanted}

\* A wanted key is found at the place of its position.
Placed(keys, wanted, P) ==
    /\ P \subseteq Nat /\ IsFiniteSet(P) /\ Cardinality(P) \in Nat
    /\ DOMAIN Among(keys, wanted) = 1 .. Cardinality(P)
    /\ \A n \in 1 .. Cardinality(P) :
         Among(keys, wanted)[n] \in wanted /\ Among(keys, wanted)[n] \in Elements(keys)
    /\ \A i \in P : /\ Place(P, i) \in 1 .. Cardinality(P)
                    /\ Among(keys, wanted)[Place(P, i)] = keys[i]

LEMMA AmongPlaces ==
    ASSUME NEW keys, NEW wanted, DOMAIN keys = 1 .. Len(keys), Len(keys) \in Nat
    PROVE  Placed(keys, wanted, Positions(keys, wanted))
<1> DEFINE P == Positions(keys, wanted)
<1>1. IsFiniteSet(1 .. Len(keys))
  BY FS_Interval
<1>2. P \subseteq Nat /\ IsFiniteSet(P)
  BY <1>1, FS_Subset DEF Positions
<1>3. Cardinality(P) \in Nat
  BY <1>2, FS_CardinalityType
<1>4. Among(keys, wanted) = [n \in 1 .. Cardinality(P) |-> keys[Nth(P, n)]]
  BY DEF Among, Positions
<1>5. \A n \in 1 .. Cardinality(P) : Nth(P, n) \in P
  BY <1>2, NthPlace
<1>6. \A i \in P : Place(P, i) \in 1 .. Cardinality(P) /\ Nth(P, Place(P, i)) = i
  BY <1>2, PlaceOfMember, NthOfPlace
<1>7. /\ \A i \in P : i \in DOMAIN keys /\ keys[i] \in wanted
      /\ \A i \in DOMAIN keys : keys[i] \in Elements(keys)
  BY DEF Positions, Elements
<1> HIDE DEF P
<1>8. Placed(keys, wanted, P)
  BY <1>2, <1>3, <1>4, <1>5, <1>6, <1>7 DEF Placed
<1> QED BY <1>8 DEF P

\* At most one entry is the most specific.
LEMMA MostSpecificIsOne ==
    ASSUME NEW q \in Requests, NEW key \in Elements(q.keys),
           NEW s \in MostSpecific(q, key), NEW t \in MostSpecific(q, key)
    PROVE  s = t
<1>1. /\ s \in Candidates(q, key) /\ t \in Candidates(q, key)
      /\ Rank(q, s) <= Rank(q, t) /\ Rank(q, t) <= Rank(q, s)
  BY MostSpecificByRank
<1>2. Rank(q, s) \in {0, 1, 2} /\ Rank(q, t) \in {0, 1, 2}
  BY RankType
<1>3. Rank(q, s) = Rank(q, t)
  BY <1>1, <1>2
<1> QED BY <1>1, <1>3, RankNamesOne

\* Where the keys are that have an entry.
AnsweredAt(q) == {i \in DOMAIN q.keys : MostSpecific(q, q.keys[i]) # {}}

\* What Resolve puts into its answer.
Answers(q, R, P) ==
    /\ Cardinality(P) \in Nat
    /\ DOMAIN R = 1 .. Cardinality(P)
    /\ R = [n \in 1 .. Cardinality(P) |-> R[n]]
    /\ \A n \in 1 .. Cardinality(P) : \E s \in ResolvedScopes(q) : R[n] = Served(s)
    /\ \A i \in P : {R[Place(P, i)].scope} = MostSpecific(q, q.keys[i])

LEMMA ResultFacts ==
    ASSUME NEW q \in Requests, NEW rows \in ResolvedRows(q)
    PROVE  Answers(q, ResultOf(q, rows), AnsweredAt(q))
<1> DEFINE P == AnsweredAt(q)
<1> DEFINE W == {key \in Elements(q.keys) : Selected(q, rows, key) # {}}
           A == Among(q.keys, W)
           R == ResultOf(q, rows)
<1>1. \A key \in Elements(q.keys) : Selected(q, rows, key) = MostSpecific(q, key)
  BY SelectedIsMostSpecific
<1>2. P = Positions(q.keys, W)
  BY <1>1 DEF AnsweredAt, Elements, Positions
<1>3. DOMAIN q.keys = 1 .. Len(q.keys) /\ Len(q.keys) \in Nat
  BY RequestsAssumption
<1> HIDE DEF W, P
<1>4. /\ Cardinality(P) \in Nat
      /\ DOMAIN A = 1 .. Cardinality(P)
      /\ \A n \in 1 .. Cardinality(P) : A[n] \in W /\ A[n] \in Elements(q.keys)
      /\ \A i \in P : Place(P, i) \in 1 .. Cardinality(P) /\ A[Place(P, i)] = q.keys[i]
  <2>1. Placed(q.keys, W, Positions(q.keys, W))
    BY <1>3, AmongPlaces
  <2>2. Placed(q.keys, W, P)
    BY <1>2, <2>1
  <2> QED BY <2>2 DEF Placed
<1> HIDE DEF A
<1>5. R = [n \in 1 .. Cardinality(P) |-> Served(CHOOSE s \in Selected(q, rows, A[n]) : TRUE)]
  <2>1. R = [n \in DOMAIN A |-> Served(CHOOSE s \in Selected(q, rows, A[n]) : TRUE)]
    BY Zenon DEF ResultOf, A, W
  <2> QED BY <1>4, <2>1, Zenon
<1>6. ASSUME NEW n \in 1 .. Cardinality(P)
      PROVE  \E s \in Selected(q, rows, A[n]) : R[n] = Served(s)
  <2>1. Selected(q, rows, A[n]) # {}
    BY <1>4 DEF W
  <2>2. (CHOOSE s \in Selected(q, rows, A[n]) : TRUE) \in Selected(q, rows, A[n])
    BY <2>1
  <2> QED BY <1>5, <2>2
<1>7. \A key : Selected(q, rows, key) \subseteq ResolvedScopes(q)
  <2>1. Elements(rows) = ResolvedScopes(q)
    BY RowsOfQuery
  <2> QED BY <2>1 DEF Selected, Elements
<1>8. ASSUME NEW i \in P
      PROVE  {R[Place(P, i)].scope} = MostSpecific(q, q.keys[i])
  <2> DEFINE n == Place(P, i)
  <2>1. n \in 1 .. Cardinality(P) /\ A[n] = q.keys[i] /\ q.keys[i] \in Elements(q.keys)
    BY <1>4
  <2>2. Selected(q, rows, A[n]) = MostSpecific(q, q.keys[i])
    BY <1>1, <2>1
  <2> HIDE DEF n
  <2>3. PICK s \in MostSpecific(q, q.keys[i]) : R[n] = Served(s)
    BY <1>6, <2>1, <2>2
  <2>4. R[n].scope = s
    BY <2>3 DEF Served
  <2>5. \A t \in MostSpecific(q, q.keys[i]) : t = s
    BY <2>1, MostSpecificIsOne
  <2> QED BY <2>4, <2>5 DEF n
<1>9. DOMAIN R = 1 .. Cardinality(P) /\ R = [n \in 1 .. Cardinality(P) |-> R[n]]
  BY <1>5
<1>10. \A n \in 1 .. Cardinality(P) : \E s \in ResolvedScopes(q) : R[n] = Served(s)
  BY <1>6, <1>7
<1> HIDE DEF R
<1>11. Answers(q, R, P)
  BY <1>4, <1>8, <1>9, <1>10 DEF Answers
<1> QED BY <1>11 DEF P, R
-----------------------------------------------------------------------------
(* What readers were given stays behind the table *)

LEMMA SeqElements ==
    ASSUME NEW S, NEW seq \in Seq(S)
    PROVE  Elements(seq) \subseteq S
<1>1. DOMAIN seq = 1 .. Len(seq)
  BY LenProperties
<1>2. \A i \in DOMAIN seq : seq[i] \in S
  BY <1>1, ElementOfSeq
<1> QED BY <1>2 DEF Elements

LEMMA OneInSeq ==
    ASSUME NEW S, NEW x \in S
    PROVE  <<x>> \in Seq(S) /\ DOMAIN <<x>> = {1} /\ <<x>>[1] = x
OBVIOUS

LEMMA IntervalLength ==
    ASSUME NEW m \in Nat, NEW n \in Nat, 1 .. m = 1 .. n
    PROVE  m = n
<1>1. CASE m < n
  <2>1. n \in 1 .. n /\ n \notin 1 .. m
    BY <1>1
  <2> QED BY <2>1
<1>2. CASE n < m
  <2>1. m \in 1 .. m /\ m \notin 1 .. n
    BY <1>2
  <2> QED BY <2>1
<1> QED BY <1>1, <1>2

LEMMA PublishedType ==
    ASSUME ResolutionInv
    PROVE  /\ \A s \in Scopes : entries[s].published \in Int
           /\ \A g \in Given : g.entry.published \in Nat
           /\ \A s \in Scopes : entries[s] # NoEntry
                => entries[s] \in (UNION {Live(t) : t \in Scopes}) \cup {Draft}
<1>1. \A t \in Scopes : \A e \in Live(t) : e.published \in Nat
  BY RevisionsAssumption DEF Live
<1>2. NoEntry.published = -1 /\ Draft.published = 0
  BY DEF NoEntry, Draft
<1>3. \A s \in Scopes : entries[s] \in (UNION {Live(t) : t \in Scopes}) \cup {NoEntry, Draft}
  BY DEF ResolutionInv
<1>4. \A g \in Given : g.entry \in (UNION {Live(t) : t \in Scopes}) \cup {Draft}
  BY DEF Given
<1>5. \A e \in UNION {Live(t) : t \in Scopes} : e.published \in Nat
  BY <1>1
<1>6. \A s \in Scopes : entries[s].published \in Int
  BY <1>2, <1>3, <1>5
<1>7. \A g \in Given : g.entry.published \in Nat
  BY <1>2, <1>4, <1>5
<1> QED BY <1>3, <1>6, <1>7

LEMMA GivenRecord ==
    ASSUME NEW g \in Given
    PROVE  /\ g.scope \in Scopes
           /\ g = [scope |-> g.scope, entry |-> g.entry]
BY DEF Given

\* An entry that is there, as a reader gets it.
LEMMA ServedGiven ==
    ASSUME ResolutionInv, NEW s \in Scopes, entries[s] # NoEntry
    PROVE  /\ Served(s) \in Given
           /\ Served(s).scope = s /\ Served(s).entry = entries[s]
<1>1. entries[s] \in (UNION {Live(t) : t \in Scopes}) \cup {Draft}
  BY PublishedType
<1> QED BY <1>1 DEF Served, Given

LEMMA LiveIsBehind ==
    ASSUME ResolutionInv, NEW g \in Given, g.entry = entries[g.scope]
    PROVE  Behind(g)
<1>1. g.entry.published \in Nat
  BY PublishedType
<1>2. g.entry.published <= entries[g.scope].published
  BY <1>1
<1> QED BY <1>2 DEF Behind

LEMMA EmptyAnswer ==
    /\ << >> \in Seq(Given)
    /\ Elements(<< >>) = {}
    /\ DOMAIN << >> = {}
    /\ ETagOf(<< >>) = << >>
<1>1. DOMAIN << >> = {}
  OBVIOUS
<1> QED BY <1>1 DEF Elements, ETagOf

\* The five parts of the invariant that speak of the answers.
LEMMA AnswerKeeps ==
    ASSUME ResolutionInv, NEW op, NEW c, NEW q, NEW result \in Seq(Given),
           \A g \in Elements(result) : g.entry = entries[g.scope],
           Answer(op, c, q, result),
           c.type = "user" =>
               \A i \in DOMAIN result : /\ result[i].scope.tenant \in {c.tenant, ""}
                                        /\ result[i].scope.application \in {q.application, ""}
    PROVE  ResolutionInv'
<1>1. /\ answer'.entries = result /\ answer'.etag = ETagOf(result)
      /\ answer'.caller = c /\ answer'.request = q
      /\ entries' = entries /\ kept' = kept
  BY DEF Answer
<1>2. GivenNow' = Elements(result) \cup Elements(kept.entries)
  BY <1>1 DEF GivenNow, Elements
<1>3. Elements(result) \subseteq Given
  BY SeqElements
<1>4. Elements(kept.entries) \subseteq Given
  <2>1. kept.entries \in Seq(Given)
    BY DEF ResolutionInv
  <2> QED BY <2>1, SeqElements
<1>5. \A g \in Elements(kept.entries) : Behind(g)
  BY DEF ResolutionInv, GivenNow
<1>6. \A g \in Elements(result) : Behind(g)
  BY <1>3, LiveIsBehind
<1>7. (\A g \in GivenNow : Behind(g))'
  BY <1>1, <1>2, <1>5, <1>6 DEF Behind
<1>8. ASSUME NEW g \in GivenNow', NEW h \in GivenNow',
             g.scope = h.scope, g.entry.published = h.entry.published
      PROVE  g = h
  <2>1. /\ g = [scope |-> g.scope, entry |-> g.entry]
        /\ h = [scope |-> h.scope, entry |-> h.entry]
    BY <1>2, <1>3, <1>4, GivenRecord
  <2>2. CASE g \in Elements(result)
    <3>1. g.entry = entries[g.scope]
      BY <2>2
    <3>2. h.entry = entries[h.scope]
      BY <1>2, <1>5, <1>8, <3>1 DEF Behind
    <3> QED BY <1>8, <2>1, <3>1, <3>2
  <2>3. CASE h \in Elements(result)
    <3>1. h.entry = entries[h.scope]
      BY <2>3
    <3>2. g.entry = entries[g.scope]
      BY <1>2, <1>5, <1>8, <3>1 DEF Behind
    <3> QED BY <1>8, <2>1, <3>1, <3>2
  <2>4. CASE g \in Elements(kept.entries) /\ h \in Elements(kept.entries)
    BY <1>8, <2>4 DEF ResolutionInv, GivenNow
  <2> QED BY <1>2, <2>2, <2>3, <2>4
<1>9. ServedWithinTenant'
  BY <1>1 DEF ServedWithinTenant
<1>10. /\ (entries \in [Scopes -> (UNION {Live(s) : s \in Scopes}) \cup {NoEntry, Draft}])'
       /\ answer'.entries \in Seq(Given) /\ kept'.entries \in Seq(Given)
       /\ answer'.etag = ETagOf(answer'.entries) /\ kept'.etag = ETagOf(kept'.entries)
  BY <1>1 DEF ResolutionInv
<1> QED BY <1>7, <1>8, <1>9, <1>10 DEF ResolutionInv, Given, Live, NoEntry, Draft, ETagOf

LEMMA RefuseKeeps ==
    ASSUME ResolutionInv, NEW code, Refuse(code)
    PROVE  ResolutionInv'
<1>1. /\ answer'.entries = << >> /\ answer'.etag = << >> /\ answer'.caller.type = "none"
      /\ entries' = entries /\ kept' = kept
  BY DEF Refuse, NoAnswer
<1>2. GivenNow' = Elements(kept.entries)
  BY <1>1, EmptyAnswer DEF GivenNow, Elements
<1>3. (\A g \in GivenNow : Behind(g))'
  BY <1>1, <1>2 DEF ResolutionInv, GivenNow, Behind
<1>4. \A g, h \in GivenNow' :
         g.scope = h.scope /\ g.entry.published = h.entry.published => g = h
  BY <1>2 DEF ResolutionInv, GivenNow
<1>5. ServedWithinTenant'
  BY <1>1 DEF ServedWithinTenant
<1>6. /\ (entries \in [Scopes -> (UNION {Live(s) : s \in Scopes}) \cup {NoEntry, Draft}])'
      /\ answer'.entries \in Seq(Given) /\ kept'.entries \in Seq(Given)
      /\ answer'.etag = ETagOf(answer'.entries) /\ kept'.etag = ETagOf(kept'.entries)
  BY <1>1, EmptyAnswer DEF ResolutionInv
<1> QED BY <1>3, <1>4, <1>5, <1>6 DEF ResolutionInv, Given, Live, NoEntry, Draft, ETagOf

\* Resolve answers with live entries of the scopes of its query.
LEMMA ResolveKeeps ==
    ASSUME ResolutionInv, NEW c \in Callers, NEW q \in Requests, NEW rows \in ResolvedRows(q),
           "ok" \in Access(c, q), Answer("Resolve", c, q, ResultOf(q, rows))
    PROVE  ResolutionInv'
<1> DEFINE P == AnsweredAt(q)
           R == ResultOf(q, rows)
<1>1. /\ Cardinality(P) \in Nat
      /\ DOMAIN R = 1 .. Cardinality(P)
      /\ R = [n \in 1 .. Cardinality(P) |-> R[n]]
      /\ \A n \in 1 .. Cardinality(P) : \E s \in ResolvedScopes(q) : R[n] = Served(s)
  BY ResultFacts DEF Answers
<1> HIDE DEF P, R
<1>2. \A n \in 1 .. Cardinality(P) :
         /\ R[n] \in Given /\ R[n].entry = entries[R[n].scope]
         /\ R[n].scope \in ResolvedScopes(q)
  <2>1. TAKE n \in 1 .. Cardinality(P)
  <2>2. PICK s \in ResolvedScopes(q) : R[n] = Served(s)
    BY <1>1
  <2>3. s \in Scopes /\ entries[s] # NoEntry
    BY DEF ResolvedScopes
  <2>4. Served(s) \in Given /\ Served(s).scope = s /\ Served(s).entry = entries[s]
    BY <2>3, ServedGiven
  <2> QED BY <2>2, <2>4
<1>3. R \in Seq(Given)
  <2>1. R \in [1 .. Cardinality(P) -> Given]
    BY <1>1, <1>2
  <2> QED BY <1>1, <2>1, SeqDef
<1>4. \A g \in Elements(R) : g.entry = entries[g.scope]
  BY <1>1, <1>2 DEF Elements
<1>5. c.type = "user" => c.tenant = q.tenant
  BY DEF Access, enforceTenant
<1>6. \A s \in ResolvedScopes(q) : s.tenant \in {q.tenant, ""} /\ s.application \in {q.application, ""}
  BY DEF ResolvedScopes
<1>7. c.type = "user" =>
         \A i \in DOMAIN R : /\ R[i].scope.tenant \in {c.tenant, ""}
                             /\ R[i].scope.application \in {q.application, ""}
  BY <1>1, <1>2, <1>5, <1>6
<1>8. Answer("Resolve", c, q, R)
  BY DEF R
<1> QED BY <1>3, <1>4, <1>7, <1>8, AnswerKeeps

\* Get answers with the entry it has read.
LEMMA GetKeeps ==
    ASSUME ResolutionInv, NEW c \in Callers, NEW s \in Scopes, Found(s), "ok" \in Access(c, s),
           Answer("Get", c, [tenant |-> s.tenant, application |-> s.application,
                             subject |-> "", keys |-> << >>], <<Served(s)>>)
    PROVE  ResolutionInv'
<1> DEFINE q == [tenant |-> s.tenant, application |-> s.application, subject |-> "", keys |-> << >>]
           R == <<Served(s)>>
<1>1. Served(s) \in Given /\ Served(s).scope = s /\ Served(s).entry = entries[s]
  BY ServedGiven DEF Found
<1>2. R \in Seq(Given) /\ DOMAIN R = {1} /\ R[1] = Served(s)
  BY <1>1, OneInSeq
<1>3. \A g \in Elements(R) : g.entry = entries[g.scope]
  BY <1>1, <1>2 DEF Elements
<1>4. c.type = "user" => c.tenant = s.tenant
  BY DEF Access, enforceTenant
<1>5. q.application = s.application
  OBVIOUS
<1>6. c.type = "user" =>
         \A i \in DOMAIN R : /\ R[i].scope.tenant \in {c.tenant, ""}
                             /\ R[i].scope.application \in {q.application, ""}
  BY <1>1, <1>2, <1>4, <1>5
<1> HIDE DEF q, R
<1>7. Answer("Get", c, q, R)
  BY DEF q, R
<1> QED BY <1>2, <1>3, <1>6, <1>7, AnswerKeeps

\* An entry that is created was in no answer; one that goes live leaves every
\* answer behind.
LEMMA EntryMoves ==
    ASSUME ResolutionInv, NEW s \in Scopes, NEW e \in (UNION {Live(t) : t \in Scopes}) \cup {Draft},
           entries[s].published < e.published,
           entries' = [entries EXCEPT ![s] = e], UNCHANGED <<answer, kept>>
    PROVE  ResolutionInv'
<1> DEFINE E == (UNION {Live(t) : t \in Scopes}) \cup {NoEntry, Draft}
<1>1. entries \in [Scopes -> E] /\ e \in E
  BY DEF ResolutionInv
<1>2. answer' = answer /\ kept' = kept
  OBVIOUS
<1>3. GivenNow' = GivenNow /\ ServedWithinTenant'
  BY <1>2 DEF GivenNow, ResolutionInv, ServedWithinTenant
<1> HIDE DEF E
<1>4. /\ entries' \in [Scopes -> E]
      /\ entries'[s] = e
      /\ \A t \in Scopes : t # s => entries'[t] = entries[t]
  BY <1>1
<1>5. GivenNow \subseteq Given
  BY SeqElements DEF ResolutionInv, GivenNow
<1>6. e.published \in Nat
  <2>1. [scope |-> s, entry |-> e] \in Given
    BY DEF Given
  <2> QED BY <2>1, PublishedType
<1>7. ASSUME NEW g \in GivenNow PROVE Behind(g)'
  <2>1. g \in Given /\ g.scope \in Scopes /\ g.entry.published \in Nat
    BY <1>5, GivenRecord, PublishedType
  <2>2. Behind(g)
    BY DEF ResolutionInv
  <2>3. CASE g.scope = s
    <3>1. g.entry.published <= entries[s].published /\ entries[s].published \in Int
      BY <2>2, <2>3, PublishedType DEF Behind
    <3>2. g.entry.published < e.published
      BY <1>6, <2>1, <3>1
    <3> QED BY <1>4, <1>6, <2>1, <2>3, <3>2 DEF Behind
  <2>4. CASE g.scope # s
    BY <1>4, <2>1, <2>2, <2>4 DEF Behind
  <2> QED BY <2>3, <2>4
<1>8. \A g, h \in GivenNow' :
         g.scope = h.scope /\ g.entry.published = h.entry.published => g = h
  BY <1>3 DEF ResolutionInv
<1>9. /\ answer'.entries \in Seq(Given) /\ kept'.entries \in Seq(Given)
      /\ answer'.etag = ETagOf(answer'.entries) /\ kept'.etag = ETagOf(kept'.entries)
  BY <1>2 DEF ResolutionInv
<1> QED BY <1>3, <1>4, <1>7, <1>8, <1>9 DEF ResolutionInv, E, Given, Live, NoEntry, Draft, ETagOf

LEMMA KeepKeeps ==
    ASSUME ResolutionInv, Keep
    PROVE  ResolutionInv'
<1>1. /\ kept'.entries = answer.entries /\ kept'.etag = answer.etag
      /\ answer' = answer /\ entries' = entries
  BY DEF Keep
<1>2. GivenNow' \subseteq GivenNow
  BY <1>1 DEF GivenNow, Elements
<1>3. (\A g \in GivenNow : Behind(g))'
  BY <1>1, <1>2 DEF ResolutionInv, Behind
<1>4. \A g, h \in GivenNow' :
         g.scope = h.scope /\ g.entry.published = h.entry.published => g = h
  BY <1>2 DEF ResolutionInv
<1>5. ServedWithinTenant'
  BY <1>1 DEF ServedWithinTenant, ResolutionInv
<1>6. /\ (entries \in [Scopes -> (UNION {Live(s) : s \in Scopes}) \cup {NoEntry, Draft}])'
      /\ answer'.entries \in Seq(Given) /\ kept'.entries \in Seq(Given)
      /\ answer'.etag = ETagOf(answer'.entries) /\ kept'.etag = ETagOf(kept'.entries)
  BY <1>1 DEF ResolutionInv
<1> QED BY <1>3, <1>4, <1>5, <1>6 DEF ResolutionInv, Given, Live, NoEntry, Draft, ETagOf

LEMMA ResolutionInit == Init => ResolutionInv
<1> SUFFICES ASSUME Init PROVE ResolutionInv
  OBVIOUS
<1>1. /\ answer.entries = << >> /\ answer.etag = << >> /\ answer.caller.type = "none"
      /\ kept.entries = << >> /\ kept.etag = << >>
  BY DEF Init, NoAnswer
<1>2. GivenNow = {}
  BY <1>1, EmptyAnswer DEF GivenNow
<1>3. ServedWithinTenant
  BY <1>1 DEF ServedWithinTenant
<1>4. entries \in [Scopes -> (UNION {Live(s) : s \in Scopes}) \cup {NoEntry, Draft}]
  BY DEF Init
<1> QED BY <1>1, <1>2, <1>3, <1>4, EmptyAnswer DEF ResolutionInv

LEMMA ResolutionStep == ResolutionInv /\ [Next]_vars => ResolutionInv'
<1> SUFFICES ASSUME ResolutionInv, [Next]_vars PROVE ResolutionInv'
  OBVIOUS
<1>1. ASSUME NEW s \in Scopes, Create(s) PROVE ResolutionInv'
  <2>1. entries[s].published = -1 /\ Draft.published = 0
    BY <1>1 DEF Create, NoEntry, Draft
  <2>2. entries[s].published < Draft.published
    BY <2>1
  <2> QED BY <1>1, <2>2, EntryMoves DEF Create
<1>2. ASSUME NEW s \in Scopes, GoLive(s) PROVE ResolutionInv'
  <2>1. PICK n \in (entries[s].published + 1) .. MaxRevision[s], p \in Percentages, v \in Values :
           entries' = [entries EXCEPT ![s] = [published |-> n, rollout |-> p, value |-> v]]
    BY <1>2 DEF GoLive
  <2> DEFINE e == [published |-> n, rollout |-> p, value |-> v]
  <2>2. entries[s].published \in Int /\ MaxRevision[s] \in Nat
    BY PublishedType, RevisionsAssumption
  <2>3. entries[s].published >= 0
    <3>1. entries[s] \in (UNION {Live(t) : t \in Scopes}) \cup {Draft}
      BY <1>2, PublishedType DEF GoLive
    <3>2. [scope |-> s, entry |-> entries[s]] \in Given
      BY <3>1 DEF Given
    <3>3. entries[s].published \in Nat
      BY <3>2, PublishedType
    <3> QED BY <3>3
  <2>4. n \in 1 .. MaxRevision[s] /\ entries[s].published < n
    BY <2>2, <2>3
  <2>5. e \in Live(s) /\ e.published = n
    BY <2>4 DEF Live
  <2> HIDE DEF e
  <2>6. e \in (UNION {Live(t) : t \in Scopes}) \cup {Draft} /\ entries[s].published < e.published
    BY <2>4, <2>5
  <2>7. entries' = [entries EXCEPT ![s] = e] /\ UNCHANGED <<answer, kept>>
    BY <1>2, <2>1 DEF GoLive, e
  <2> QED BY <2>6, <2>7, EntryMoves
<1>3. CASE Resolve
  BY <1>3, RefuseKeeps, ResolveKeeps DEF Resolve
<1>4. CASE Get
  BY <1>4, RefuseKeeps, GetKeeps DEF Get
<1>5. CASE Keep
  BY <1>5, KeepKeeps
<1>6. CASE UNCHANGED vars
  <2>1. entries' = entries /\ answer' = answer /\ kept' = kept
    BY <1>6 DEF vars
  <2>2. GivenNow' = GivenNow /\ \A g : Behind(g)' <=> Behind(g)
    BY <2>1 DEF GivenNow, Behind
  <2>3. ServedWithinTenant'
    BY <2>1 DEF ResolutionInv, ServedWithinTenant
  <2>4. (\A g \in GivenNow : Behind(g))'
    BY <2>2 DEF ResolutionInv
  <2>5. \A g, h \in GivenNow' :
           g.scope = h.scope /\ g.entry.published = h.entry.published => g = h
    BY <2>2 DEF ResolutionInv
  <2>6. /\ (entries \in [Scopes -> (UNION {Live(s) : s \in Scopes}) \cup {NoEntry, Draft}])'
        /\ answer'.entries \in Seq(Given) /\ kept'.entries \in Seq(Given)
        /\ answer'.etag = ETagOf(answer'.entries) /\ kept'.etag = ETagOf(kept'.entries)
    BY <2>1 DEF ResolutionInv
  <2> QED BY <2>3, <2>4, <2>5, <2>6 DEF ResolutionInv, Given, Live, NoEntry, Draft, ETagOf
<1> QED BY <1>1, <1>2, <1>3, <1>4, <1>5, <1>6 DEF Next

\* In every state the readers' answers are at or behind what is published, and a
\* scope and a revision name one body among all that readers hold (Resolve, Get).
THEOREM AnswersStayBehind == Spec => []ResolutionInv
BY ResolutionInit, ResolutionStep, PTL DEF Spec

\* Equal ETags mean equal entries and bodies, whatever was published between the
\* two answers: a client that compares ETags never keeps a stale body (Resolve's
\* ETag).
THEOREM ETagsNameContent == Spec => []ETagNamesContent
<1>1. ResolutionInv => ETagNamesContent
  <2> SUFFICES ASSUME ResolutionInv, answer.etag = kept.etag
               PROVE  answer.entries = kept.entries
    BY DEF ETagNamesContent
  <2> DEFINE a == answer.entries
             k == kept.entries
  <2>1. a \in Seq(Given) /\ k \in Seq(Given) /\ ETagOf(a) = ETagOf(k)
    BY DEF ResolutionInv
  <2>2. \A g \in Elements(a), h \in Elements(k) :
           g.scope = h.scope /\ g.entry.published = h.entry.published => g = h
    BY DEF ResolutionInv, GivenNow
  <2> HIDE DEF a, k
  <2>3. /\ DOMAIN a = 1 .. Len(a) /\ Len(a) \in Nat
        /\ DOMAIN k = 1 .. Len(k) /\ Len(k) \in Nat
    BY <2>1, LenProperties
  <2>4. DOMAIN ETagOf(a) = DOMAIN a /\ DOMAIN ETagOf(k) = DOMAIN k
    BY DEF ETagOf
  <2>5. DOMAIN a = DOMAIN k
    BY <2>1, <2>4
  <2>6. Len(a) = Len(k)
    BY <2>3, <2>5, IntervalLength
  <2>7. ASSUME NEW i \in 1 .. Len(a) PROVE a[i] = k[i]
    <3>1. i \in DOMAIN a /\ i \in DOMAIN k
      BY <2>3, <2>5
    <3>2. /\ ETagOf(a)[i] = <<a[i].scope, a[i].entry.published>>
          /\ ETagOf(k)[i] = <<k[i].scope, k[i].entry.published>>
      BY <3>1 DEF ETagOf
    <3>3. <<a[i].scope, a[i].entry.published>> = <<k[i].scope, k[i].entry.published>>
      BY <2>1, <3>2
    <3>4. a[i].scope = k[i].scope /\ a[i].entry.published = k[i].entry.published
      BY <3>3
    <3>5. a[i] \in Elements(a) /\ k[i] \in Elements(k)
      BY <3>1 DEF Elements
    <3> QED BY <2>2, <3>4, <3>5
  <2>8. a = k
    BY <2>1, <2>6, <2>7, SeqEqual
  <2> QED BY <2>8 DEF a, k
<1> QED BY <1>1, AnswersStayBehind, PTL

\* No sequence of requests and publications gives a user an entry of another
\* tenant, or of an application it did not ask for (enforceTenant, the scopes of
\* the query and the check of Get after its read).
THEOREM UsersReadTheirTenant == Spec => []ServedWithinTenant
<1>1. ResolutionInv => ServedWithinTenant
  BY DEF ResolutionInv
<1> QED BY <1>1, AnswersStayBehind, PTL

\* An answer of Resolve holds, for every requested key and at its place, the most
\* specific entry that is live for the subject, and nothing for the keys that
\* have none, in whatever order the database returns rows of one rank
\* (Service.Resolve over Repository.Resolve).
THEOREM ResolveServesMostSpecific == Spec => ServesMostSpecific
<1> DEFINE Right ==
        answer' # answer /\ answer'.op = "Resolve" =>
          LET q == answer'.request
              found == {i \in DOMAIN q.keys : MostSpecific(q, q.keys[i]) # {}}
          IN  /\ Len(answer'.entries) = Cardinality(found)
              /\ \A i \in found :
                   {answer'.entries[Cardinality({j \in found : j <= i})].scope}
                      = MostSpecific(q, q.keys[i])
<1>1. Next => Right
  <2> SUFFICES ASSUME Next, answer' # answer, answer'.op = "Resolve" PROVE Right
    BY DEF Right
  <2>1. ~(\E s \in Scopes : Create(s) \/ GoLive(s)) /\ ~Keep
    BY DEF Create, GoLive, Keep
  <2>2. \A code : ~Refuse(code)
    BY DEF Refuse, NoAnswer
  <2>3. \A op, c, q, result : Answer(op, c, q, result) => answer'.op = op
    BY DEF Answer
  <2>4. ~Get
    BY <2>2, <2>3 DEF Get
  <2>5. PICK c \in Callers, q \in Requests :
           \E rows \in ResolvedRows(q) : Answer("Resolve", c, q, ResultOf(q, rows))
    BY <2>1, <2>2, <2>4 DEF Next, Resolve
  <2>6. PICK rows \in ResolvedRows(q) : Answer("Resolve", c, q, ResultOf(q, rows))
    BY <2>5
  <2> DEFINE P == AnsweredAt(q)
             R == ResultOf(q, rows)
  <2>7. answer'.request = q /\ answer'.entries = R
    BY <2>6 DEF Answer
  <2>8. Answers(q, R, P)
    BY ResultFacts
  <2> HIDE DEF P, R
  <2>9. Len(R) = Cardinality(P)
    BY <2>8 DEF Answers
  <2>10. ASSUME NEW i \in P
         PROVE  {R[Cardinality({j \in P : j <= i})].scope} = MostSpecific(q, q.keys[i])
    BY <2>8 DEF Answers, Place
  <2>11. P = {i \in DOMAIN q.keys : MostSpecific(q, q.keys[i]) # {}}
    BY DEF P, AnsweredAt
  <2> QED BY <2>7, <2>9, <2>10, <2>11
<1>2. [Next]_vars => [Right]_vars
  BY <1>1
<1> QED BY <1>2, PTL DEF Spec, ServesMostSpecific
=============================================================================

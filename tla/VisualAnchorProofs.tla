-------------------------- MODULE VisualAnchorProofs --------------------------
(***************************************************************************)
(* The registry, the cues and markers and the rail know the same, for any   *)
(* number of commands, sessions and producers and any size of the maps: an  *)
(* inductive invariant of the view, kept by every operation of the registry *)
(* and of TermWrap.  From it: RegistryInv, BindingsMatch, MarkersHaveCues   *)
(* and SessionsAreConfirmed.                                                *)
(***************************************************************************)
EXTENDS VisualAnchor, SequenceTheorems, FiniteSetTheorems, WellFoundedInduction, TLAPS

-----------------------------------------------------------------------------
(* Maps.  An entry is found by its nonce, which no other entry of the map has. *)

Distinct(map) == \A i, j \in DOMAIN map : map[i].nonce = map[j].nonce => i = j

\* The least of some positions.
LEMMA LeastIndex ==
  ASSUME NEW S \in SUBSET Nat, S # {}
  PROVE  Min(S) \in S /\ \A n \in S : Min(S) <= n
<1> DEFINE R == OpToRel(<, Nat)
<1>1. IsWellFoundedOn(R, Nat)
  BY NatLessThanWellFounded
<1>2. PICK x \in S : \A y \in S : <<y, x>> \notin R
  BY <1>1, WFMin
<1>3. \A y \in S : x <= y
  <2> TAKE y \in S
  <2>1. x \in Nat /\ y \in Nat
    BY <1>2
  <2>2. ~(y < x)
    BY <1>2, <2>1 DEF OpToRel
  <2> QED BY <2>1, <2>2
<1> QED BY <1>3 DEF Min

\* The elements of a map are found where they are.
LEMMA HasIs ==
  ASSUME NEW T, NEW map \in Seq(T), NEW nonce
  PROVE  /\ DOMAIN map = 1 .. Len(map) /\ Len(map) \in Nat
         /\ ToSet(map) \subseteq T
         /\ \A i \in 1 .. Len(map) : map[i] \in ToSet(map)
         /\ \A e \in ToSet(map) : \E i \in 1 .. Len(map) : map[i] = e
         /\ Has(map, nonce) <=> \E e \in ToSet(map) : e.nonce = nonce
  BY DEF Has, ToSet

\* A nonce that the map has is found at its place.
LEMMA PlaceIs ==
  ASSUME NEW T, NEW map \in Seq(T), NEW nonce, Has(map, nonce)
  PROVE  Place(map, nonce) \in 1 .. Len(map) /\ map[Place(map, nonce)].nonce = nonce
<1> DEFINE I == {i \in 1 .. Len(map) : map[i].nonce = nonce}
<1>1. I \in SUBSET Nat /\ I # {}
  BY DEF Has
<1>2. Min(I) \in I
  BY <1>1, LeastIndex
<1>3. Place(map, nonce) = Min(I)
  BY <1>1 DEF Place, SelectInSeq
<1>. QED BY <1>2, <1>3

\* The entry that is found is one of the map.
LEMMA GetIs ==
  ASSUME NEW T, NEW map \in Seq(T), NEW nonce, Has(map, nonce)
  PROVE  Get(map, nonce) \in ToSet(map) /\ Get(map, nonce).nonce = nonce /\ Get(map, nonce) \in T
  BY PlaceIs, HasIs DEF Get

\* In a map there is one entry for a nonce.
LEMMA OneEntry ==
  ASSUME NEW T, NEW map \in Seq(T), Distinct(map),
         NEW e \in ToSet(map), NEW f \in ToSet(map), e.nonce = f.nonce
  PROVE  e = f
  BY HasIs DEF Distinct

\* One entry goes, and with it the nonce when no other entry has it.
LEMMA WithoutIs ==
  ASSUME NEW T, NEW map \in Seq(T), NEW nonce
  PROVE  /\ Without(map, nonce) \in Seq(T)
         /\ Len(Without(map, nonce)) = IF Has(map, nonce) THEN Len(map) - 1 ELSE Len(map)
         /\ ToSet(Without(map, nonce)) \subseteq ToSet(map)
         /\ Distinct(map) => /\ Distinct(Without(map, nonce))
                             /\ ToSet(Without(map, nonce)) = {e \in ToSet(map) : e.nonce # nonce}
<1>1. CASE ~Has(map, nonce)
  BY <1>1, HasIs DEF Without
<1>2. CASE Has(map, nonce)
  <2> DEFINE i == Place(map, nonce)
             n == Len(map)
             before == SubSeq(map, 1, i - 1)
             after == SubSeq(map, i + 1, n)
             rest == before \o after
  <2>1. i \in 1 .. n /\ n \in Nat /\ map[i].nonce = nonce
    BY <1>2, PlaceIs, HasIs
  <2>2. Without(map, nonce) = rest
    BY <1>2 DEF Without, RemoveAt
  <2> HIDE DEF i
  <2>3. /\ before \in Seq(T) /\ Len(before) = i - 1
        /\ \A k \in 1 .. (i - 1) : before[k] = map[k]
    <3>1. \A k \in 1 .. (i - 1) : map[k] \in T
      BY <2>1
    <3>. QED BY <2>1, <3>1, SubSeqProperties
  <2>4. /\ after \in Seq(T) /\ Len(after) = n - i
        /\ \A k \in 1 .. (n - i) : after[k] = map[i + k]
    <3>1. \A k \in (i + 1) .. n : map[k] \in T
      BY <2>1
    <3>. QED BY <2>1, <3>1, SubSeqProperties
  <2> HIDE DEF before, after
  <2>5. /\ rest \in Seq(T) /\ Len(rest) = (i - 1) + (n - i)
        /\ \A k \in 1 .. (Len(before) + Len(after)) :
             rest[k] = IF k <= Len(before) THEN before[k] ELSE after[k - Len(before)]
    <3>1. before \in Seq(T) /\ after \in Seq(T)
      BY <2>3, <2>4
    <3>2. /\ rest \in Seq(T) /\ Len(rest) = Len(before) + Len(after)
          /\ \A k \in 1 .. (Len(before) + Len(after)) :
               rest[k] = IF k <= Len(before) THEN before[k] ELSE after[k - Len(before)]
      BY ONLY <3>1, ConcatProperties, Zenon
    <3>. QED BY <2>3, <2>4, <3>2
  <2>6. Len(rest) = n - 1 /\ DOMAIN rest = 1 .. (n - 1)
    BY <2>1, <2>5
  <2> HIDE DEF rest, n
  <2>7. \A k \in 1 .. (n - 1) : rest[k] = IF k < i THEN map[k] ELSE map[k + 1]
    <3> TAKE k \in 1 .. (n - 1)
    <3>1. k \in 1 .. (Len(before) + Len(after))
      BY <2>1, <2>3, <2>4
    <3>2. CASE k < i
      BY <2>1, <2>3, <2>5, <3>1, <3>2
    <3>3. CASE ~(k < i)
      <4>1. k - (i - 1) \in 1 .. (n - i) /\ i + (k - (i - 1)) = k + 1 /\ ~(k <= i - 1)
        BY <2>1, <3>3
      <4>. QED BY <2>3, <2>4, <2>5, <3>1, <3>3, <4>1
    <3>. QED BY <3>2, <3>3
  <2>8. DOMAIN map = 1 .. n
    BY DEF n
  <2>9. ToSet(rest) \subseteq ToSet(map)
    BY <2>1, <2>6, <2>7, <2>8 DEF ToSet
  <2>10. ASSUME Distinct(map)
         PROVE  Distinct(rest) /\ ToSet(rest) = {e \in ToSet(map) : e.nonce # nonce}
    <3>1. Distinct(rest)
      <4> SUFFICES ASSUME NEW k \in 1 .. (n - 1), NEW l \in 1 .. (n - 1), rest[k].nonce = rest[l].nonce
                   PROVE  k = l
        BY <2>6 DEF Distinct
      <4>. QED BY <2>1, <2>7, <2>8, <2>10 DEF Distinct
    <3>2. ASSUME NEW e \in ToSet(rest)
          PROVE  e \in ToSet(map) /\ e.nonce # nonce
      <4>1. PICK k \in 1 .. (n - 1) : rest[k] = e
        BY <2>6 DEF ToSet
      <4>2. PICK l \in 1 .. n : l # i /\ map[l] = e
        BY <2>1, <2>7, <4>1
      <4>. QED BY <2>1, <2>8, <2>9, <2>10, <4>2 DEF Distinct
    <3>3. ASSUME NEW e \in ToSet(map), e.nonce # nonce
          PROVE  e \in ToSet(rest)
      <4>1. PICK l \in 1 .. n : map[l] = e
        BY <2>8 DEF ToSet
      <4>2. l # i
        BY <2>1, <3>3, <4>1
      <4>3. CASE l < i
        <5>1. l \in 1 .. (n - 1) /\ rest[l] = e
          BY <2>1, <2>7, <4>1, <4>3
        <5>. QED BY <2>6, <5>1 DEF ToSet
      <4>4. CASE l > i
        <5>1. l - 1 \in 1 .. (n - 1) /\ rest[l - 1] = e
          BY <2>1, <2>7, <4>1, <4>4
        <5>. QED BY <2>6, <5>1 DEF ToSet
      <4>. QED BY <2>1, <4>2, <4>3, <4>4
    <3>. QED BY <3>1, <3>2, <3>3
  <2>. QED BY <1>2, <2>2, <2>5, <2>6, <2>9, <2>10 DEF n
<1>. QED BY <1>1, <1>2

\* A new entry is the last.
LEMMA AppendIs ==
  ASSUME NEW T, NEW map \in Seq(T), NEW e \in T
  PROVE  /\ Append(map, e) \in Seq(T) /\ Len(Append(map, e)) = Len(map) + 1
         /\ ToSet(Append(map, e)) = ToSet(map) \cup {e}
         /\ Distinct(map) /\ ~Has(map, e.nonce) => Distinct(Append(map, e))
<1>1. /\ Append(map, e) \in Seq(T) /\ Len(Append(map, e)) = Len(map) + 1
      /\ \A i \in 1 .. Len(map) : Append(map, e)[i] = map[i]
      /\ Append(map, e)[Len(map) + 1] = e
      /\ DOMAIN Append(map, e) = 1 .. (Len(map) + 1) /\ DOMAIN map = 1 .. Len(map)
      /\ Len(map) \in Nat
  BY AppendProperties
<1> DEFINE more == Append(map, e)
<1> HIDE DEF more
<1>2. ToSet(more) = ToSet(map) \cup {e}
  BY <1>1 DEF more, ToSet
<1>3. ASSUME Distinct(map), ~Has(map, e.nonce)
      PROVE  Distinct(more)
  BY <1>1, <1>3 DEF more, Distinct, Has
<1>. QED BY <1>1, <1>2, <1>3 DEF more

\* The oldest entry goes.
LEMMA TailIs ==
  ASSUME NEW T, NEW map \in Seq(T), map # <<>>
  PROVE  /\ Tail(map) \in Seq(T) /\ Len(Tail(map)) = Len(map) - 1
         /\ Head(map) \in ToSet(map) /\ Head(map) \in T
         /\ ToSet(Tail(map)) \subseteq ToSet(map)
         /\ ToSet(map) = ToSet(Tail(map)) \cup {Head(map)}
         /\ Distinct(map) => /\ Distinct(Tail(map))
                             /\ \A e \in ToSet(Tail(map)) : e.nonce # Head(map).nonce
<1>1. /\ Tail(map) \in Seq(T) /\ Len(Tail(map)) = Len(map) - 1
      /\ \A i \in 1 .. (Len(map) - 1) : Tail(map)[i] = map[i + 1]
      /\ Head(map) = map[1] /\ Len(map) \in Nat /\ Len(map) >= 1
      /\ DOMAIN Tail(map) = 1 .. (Len(map) - 1) /\ DOMAIN map = 1 .. Len(map)
  BY HeadTailProperties, EmptySeq
<1> DEFINE rest == Tail(map)
           n == Len(map)
<1> HIDE DEF rest, n
<1>2. ToSet(rest) \subseteq ToSet(map) /\ Head(map) \in ToSet(map)
  BY <1>1 DEF rest, n, ToSet
<1>3. ASSUME NEW e \in ToSet(map), e # Head(map)
      PROVE  e \in ToSet(rest)
  <2>1. PICK i \in 1 .. n : map[i] = e
    BY <1>1 DEF n, ToSet
  <2>2. i - 1 \in 1 .. (n - 1) /\ rest[i - 1] = e
    BY <1>1, <1>3, <2>1 DEF n, rest
  <2>. QED BY <1>1, <2>2 DEF n, rest, ToSet
<1>4. ASSUME Distinct(map)
      PROVE  Distinct(rest) /\ \A e \in ToSet(rest) : e.nonce # Head(map).nonce
  <2>1. \A i \in 1 .. (n - 1) : i + 1 \in 1 .. n /\ i + 1 # 1 /\ rest[i] = map[i + 1]
    BY <1>1 DEF n, rest
  <2>2. DOMAIN rest = 1 .. (n - 1) /\ DOMAIN map = 1 .. n /\ n \in Nat /\ 1 \in 1 .. n
    BY <1>1 DEF n, rest
  <2>3. \A i, j \in 1 .. n : map[i].nonce = map[j].nonce => i = j
    BY <1>4, <2>2 DEF Distinct
  <2>4. Distinct(rest)
    <3> SUFFICES ASSUME NEW i \in 1 .. (n - 1), NEW j \in 1 .. (n - 1), rest[i].nonce = rest[j].nonce
                 PROVE  i = j
      BY <2>2 DEF Distinct
    <3>1. i + 1 = j + 1
      BY ONLY <2>1, <2>3, rest[i].nonce = rest[j].nonce, i \in 1 .. (n - 1), j \in 1 .. (n - 1)
    <3>. QED BY <3>1
  <2>5. ASSUME NEW e \in ToSet(rest)
        PROVE  e.nonce # Head(map).nonce
    <3>1. PICK i \in 1 .. (n - 1) : rest[i] = e
      BY <2>2 DEF ToSet
    <3>2. map[i + 1].nonce # map[1].nonce /\ e = map[i + 1]
      BY ONLY <2>1, <2>2, <2>3, <3>1
    <3>. QED BY <1>1, <3>2
  <2>. QED BY <2>4, <2>5
<1>. QED BY <1>1, <1>2, <1>3, <1>4 DEF rest

\* The first n entries go: prune.
LEMMA RestIs ==
  ASSUME NEW T, NEW map \in Seq(T), NEW n \in 0 .. Len(map)
  PROVE  /\ SubSeq(map, n + 1, Len(map)) \in Seq(T)
         /\ Len(SubSeq(map, n + 1, Len(map))) <= Len(map)
         /\ ToSet(SubSeq(map, n + 1, Len(map))) \subseteq ToSet(map)
         /\ Distinct(map) => Distinct(SubSeq(map, n + 1, Len(map)))
<1> DEFINE m == Len(map)
           rest == SubSeq(map, n + 1, m)
<1>1. m \in Nat /\ DOMAIN map = 1 .. m
  OBVIOUS
<1> HIDE DEF m
<1>2. \A k \in (n + 1) .. m : map[k] \in T
  BY <1>1
<1>3. /\ rest \in Seq(T) /\ Len(rest) = m - n
      /\ \A k \in 1 .. (m - n) : rest[k] = map[n + k]
  <2>1. n + 1 \in 1 .. m + 1 /\ n \in Nat
    BY <1>1 DEF m
  <2>2. m - (n + 1) + 1 = m - n
    BY <1>1, <2>1
  <2>. QED BY <1>1, <1>2, <2>1, <2>2, SubSeqProperties
<1>4. DOMAIN rest = 1 .. (m - n)
  BY <1>3
<1> HIDE DEF rest
<1>5. \A k \in 1 .. (m - n) : n + k \in 1 .. m
  BY <1>1 DEF m
<1>6. ToSet(rest) \subseteq ToSet(map)
  BY <1>1, <1>3, <1>4, <1>5 DEF ToSet
<1>7. ASSUME Distinct(map)
      PROVE  Distinct(rest)
  <2> SUFFICES ASSUME NEW i \in 1 .. (m - n), NEW j \in 1 .. (m - n), rest[i].nonce = rest[j].nonce
               PROVE  i = j
    BY <1>4 DEF Distinct
  <2>1. \A k, l \in 1 .. m : map[k].nonce = map[l].nonce => k = l
    BY <1>1, <1>7 DEF Distinct
  <2>2. n + i = n + j
    BY <1>3, <1>5, <2>1
  <2>3. n \in Nat
    BY <1>1 DEF m
  <2>. QED BY <2>2, <2>3
<1>8. Len(rest) <= m
  BY <1>1, <1>3 DEF m
<1>. QED BY <1>3, <1>6, <1>7, <1>8 DEF m, rest

\* No more than n entries are left.
LEMMA NewestIs ==
  ASSUME NEW T, NEW map \in Seq(T), NEW n \in Nat
  PROVE  Newest(map, n) \in Seq(T) /\ Len(Newest(map, n)) <= n
         /\ Len(Newest(map, n)) <= Len(map)
<1>1. Len(map) \in Nat
  OBVIOUS
<1>2. CASE Len(map) <= n
  BY <1>1, <1>2 DEF Newest
<1>3. CASE Len(map) > n
  <2>1. \A k \in (Len(map) - n + 1) .. Len(map) : map[k] \in T
    BY <1>1, <1>3
  <2>2. /\ SubSeq(map, Len(map) - n + 1, Len(map)) \in Seq(T)
        /\ Len(SubSeq(map, Len(map) - n + 1, Len(map))) = n
    BY <1>1, <1>3, <2>1, SubSeqProperties
  <2>. QED BY <1>1, <1>3, <2>2 DEF Newest
<1>. QED BY <1>1, <1>2, <1>3

-----------------------------------------------------------------------------
(* Folds.  FoldLeft is defined by a recursion over sets of positions; that it *)
(* has a solution, and goes through the positions in their order.            *)

\* The greatest of some positions.
LEMMA GreatestIndex ==
  ASSUME NEW n \in Nat, NEW S \in SUBSET (1 .. n), S # {}
  PROVE  Max(S) \in S /\ \A x \in S : x <= Max(S)
<1> DEFINE R == {n - x : x \in S}
<1>0. \A x \in S : x \in 1 .. n /\ n - x \in Nat
  OBVIOUS
<1>1. R \in SUBSET Nat /\ R # {}
  BY <1>0
<1>2. Min(R) \in R /\ \A k \in R : Min(R) <= k
  BY <1>1, LeastIndex
<1>3. PICK m \in S : Min(R) = n - m
  BY <1>2
<1>4. \A x \in S : m >= x
  <2> TAKE x \in S
  <2>1. n - m <= n - x
    BY <1>2, <1>3
  <2>. QED BY <2>1
<1>. QED BY <1>3, <1>4 DEF Max

\* The first k positions, without the last of them.
LEMMA InitialSegment ==
  ASSUME NEW k \in Nat, k # 0
  PROVE  Max(1 .. k) = k /\ (1 .. k) \ {k} = 1 .. (k - 1) /\ 1 .. k # {}
<1>1. 1 .. k \in SUBSET (1 .. k) /\ 1 .. k # {} /\ k \in 1 .. k
  OBVIOUS
<1>2. Max(1 .. k) \in 1 .. k /\ \A x \in 1 .. k : x <= Max(1 .. k)
  BY <1>1, GreatestIndex
<1>3. Max(1 .. k) = k
  BY <1>1, <1>2
<1>4. (1 .. k) \ {k} = 1 .. (k - 1)
  OBVIOUS
<1>. QED BY <1>1, <1>3, <1>4

IsFold(g, n, D, base, step) ==
  /\ g \in [SUBSET (1 .. n) -> D]
  /\ \A s \in SUBSET (1 .. n) :
       g[s] = IF s = {} THEN base ELSE step[Max(s)][g[s \ {Max(s)}]]

\* A fold of typed steps has a solution.
LEMMA FoldExists ==
  ASSUME NEW D, NEW base \in D, NEW n \in Nat, NEW step \in [1 .. n -> [D -> D]]
  PROVE  \E g : IsFold(g, n, D, base, step)
<1> DEFINE Bad == {k \in 0 .. n : ~\E g : IsFold(g, k, D, base, step)}
<1>1. CASE Bad = {}
  <2>1. n \in 0 .. n /\ n \notin Bad
    BY <1>1
  <2>. QED BY <2>1
<1>2. CASE Bad # {}
  <2>1. Bad \in SUBSET Nat
    OBVIOUS
  <2>2. PICK k \in Bad : \A l \in Bad : k <= l
    BY <1>2, <2>1, LeastIndex
  <2>3. k \in 0 .. n /\ k \in Nat
    OBVIOUS
  <2>4. CASE k = 0
    <3> DEFINE g == [s \in SUBSET (1 .. 0) |-> base]
    <3>1. SUBSET (1 .. 0) = {{}}
      OBVIOUS
    <3>2. IsFold(g, 0, D, base, step)
      BY <3>1 DEF IsFold
    <3>. QED BY <2>4, <3>2
  <2>5. CASE k # 0
    <3>1. k - 1 \in 0 .. n /\ ~(k <= k - 1) /\ k \in 1 .. n /\ k - 1 \in Nat
      BY <2>3, <2>5
    <3>2. PICK f : IsFold(f, k - 1, D, base, step)
      BY <2>2, <3>1
    <3> DEFINE Old(s) == s \ {k}
               g == [s \in SUBSET (1 .. k) |-> IF k \in s THEN step[k][f[Old(s)]] ELSE f[s]]
    <3>3. \A s \in SUBSET (1 .. k) : Old(s) \in SUBSET (1 .. (k - 1)) /\ (k \notin s => Old(s) = s)
      BY <2>3, <3>1
    <3>4. f \in [SUBSET (1 .. (k - 1)) -> D] /\ step[k] \in [D -> D]
      BY <3>1, <3>2 DEF IsFold
    <3>5. g \in [SUBSET (1 .. k) -> D]
      <4> SUFFICES ASSUME NEW s \in SUBSET (1 .. k)
                   PROVE  (IF k \in s THEN step[k][f[Old(s)]] ELSE f[s]) \in D
        OBVIOUS
      <4>. QED BY <3>3, <3>4
    <3>6. ASSUME NEW s \in SUBSET (1 .. k)
          PROVE  g[s] = IF s = {} THEN base ELSE step[Max(s)][g[s \ {Max(s)}]]
      <4>1. CASE k \in s
        <5>1. Max(s) \in s /\ \A x \in s : x <= Max(s)
          BY <2>3, <4>1, GreatestIndex
        <5>2. Max(s) \in 1 .. k /\ k <= Max(s)
          BY <4>1, <5>1
        <5>2a. Max(s) = k
          BY <2>3, <5>2
        <5>3. Old(s) \in SUBSET (1 .. k) /\ k \notin Old(s)
          OBVIOUS
        <5>4. g[Old(s)] = f[Old(s)]
          BY <5>3
        <5>5. g[s] = step[k][f[Old(s)]]
          BY <4>1
        <5>. QED BY <4>1, <5>2a, <5>4, <5>5
      <4>2. CASE k \notin s
        <5>1. s \in SUBSET (1 .. (k - 1)) /\ g[s] = f[s]
          BY <3>3, <4>2
        <5>2. CASE s = {}
          BY <3>2, <5>1, <5>2 DEF IsFold
        <5>3. CASE s # {}
          <6>1. f[s] = step[Max(s)][f[s \ {Max(s)}]]
            BY <3>2, <5>1, <5>3 DEF IsFold
          <6>2. s \ {Max(s)} \in SUBSET (1 .. k) /\ k \notin s \ {Max(s)}
            BY <4>2
          <6>3. g[s \ {Max(s)}] = f[s \ {Max(s)}]
            BY <6>2
          <6>. QED BY <5>1, <5>3, <6>1, <6>3
        <5>. QED BY <5>2, <5>3
      <4>. QED BY <4>1, <4>2
    <3>7. IsFold(g, k, D, base, step)
      <4> HIDE DEF g
      <4>. QED BY <3>5, <3>6 DEF IsFold
    <3>. QED BY <3>7
  <2>. QED BY <2>4, <2>5
<1>. QED BY <1>1, <1>2

\* What holds at the beginning and is kept at every position holds all along.
LEMMA Along ==
  ASSUME NEW n \in Nat, NEW f, NEW C,
         f[0] \in C[0], \A k \in 1 .. n : f[k - 1] \in C[k - 1] => f[k] \in C[k]
  PROVE  \A k \in 0 .. n : f[k] \in C[k]
<1> DEFINE Bad == {k \in 0 .. n : f[k] \notin C[k]}
<1> SUFFICES ASSUME Bad # {}
             PROVE  FALSE
  OBVIOUS
<1>1. Bad \in SUBSET Nat
  OBVIOUS
<1>2. PICK k \in Bad : \A l \in Bad : k <= l
  BY <1>1, LeastIndex
<1>3. k # 0 /\ k \in 1 .. n
  OBVIOUS
<1>4. k - 1 \in 0 .. n /\ k - 1 \notin Bad
  BY <1>2, <1>3
<1>. QED BY <1>3, <1>4

-----------------------------------------------------------------------------
(* What the parts of a view are, on a given screen. *)

ShownFrames == {Frame(c, p) : c \in Commands, p \in Producers}
ShownLines == [frame : ShownFrames, began : BOOLEAN]
Screens == Seq(ShownLines)

RealAnchors(S) == {Anchor(S[l].frame, l) : l \in DOMAIN S}
Confirmations == {Confirmation(c) : c \in Commands}
RealBindings(S) ==
  {Binding(Anchor(S[l].frame, l)) :
     l \in {k \in DOMAIN S : S[k].frame = Confirmation(S[k].frame.nonce)}}
Tombstones == [nonce : Commands]
Cues(S) == [nonce : Commands, marker : DOMAIN S, announced : BOOLEAN]
Epochs == ToSet(EpochOf) \cup {NoEpoch}
Sequences0 == ToSet(SequenceOf) \cup {0}

Views(S) ==
  [sessionEpoch : Epochs, maxSequence : Sequences0,
   anchors : Seq(RealAnchors(S)), confirmations : Seq(Confirmations),
   bindings : Seq(RealBindings(S)), rejected : Seq(Tombstones),
   quarantined : Seq(RealAnchors(S)), cues : {C \in SUBSET Cues(S) : IsFiniteSet(C)},
   markers : SUBSET DOMAIN S, rail : SUBSET Commands]

\* What the entries of the maps name: their nonce decides the session, and a
\* binding's line shows the mark of its own command.
LEMMA Entries ==
  ASSUME NEW S \in Screens
  PROVE  /\ \A a \in RealAnchors(S) :
              /\ a.nonce \in Commands /\ a.marker \in DOMAIN S
              /\ a.epoch = EpochOf[a.nonce] /\ a.epoch \in Epochs /\ a.epoch # NoEpoch
              /\ a.seq \in Sequences0
              /\ Binding(a).nonce = a.nonce /\ Binding(a).marker = a.marker
              /\ Binding(a).epoch = a.epoch
         /\ \A c \in Confirmations :
              /\ c.nonce \in Commands /\ c = Confirmation(c.nonce)
              /\ c.epoch = EpochOf[c.nonce] /\ c.epoch \in Epochs /\ c.epoch # NoEpoch
              /\ c.seq \in Sequences0
         /\ \A b \in RealBindings(S) :
              /\ b.nonce \in Commands /\ b.marker \in DOMAIN S
              /\ b.epoch = EpochOf[b.nonce] /\ b.epoch # NoEpoch
              /\ b.by = ProducerOf[b.nonce]
              /\ S[b.marker].frame = Confirmation(b.nonce)
         /\ \A a \in RealAnchors(S), c \in Confirmations :
              c.nonce = a.nonce /\ matches(a, c) => Binding(a) \in RealBindings(S)
<1>1. \A c \in Commands : /\ EpochOf[c] \in ToSet(EpochOf) /\ EpochOf[c] # NoEpoch
                          /\ SequenceOf[c] \in ToSet(SequenceOf)
  BY EpochAssumption DEF Commands, ToSet
<1>2. \A l \in DOMAIN S : \E c \in Commands, p \in Producers : S[l].frame = Frame(c, p)
  <2>1. S \in Seq(ShownLines)
    BY DEF Screens
  <2>2. \A l \in DOMAIN S : S[l] \in ShownLines
    BY <2>1
  <2>3. \A l \in DOMAIN S : S[l].frame \in ShownFrames
    BY <2>2 DEF ShownLines
  <2>. QED BY <2>3 DEF ShownFrames
<1>3. ASSUME NEW a \in RealAnchors(S)
      PROVE  /\ a.nonce \in Commands /\ a.marker \in DOMAIN S
             /\ a.epoch = EpochOf[a.nonce] /\ a.epoch \in Epochs /\ a.epoch # NoEpoch
             /\ a.seq \in Sequences0
             /\ Binding(a).nonce = a.nonce /\ Binding(a).marker = a.marker
             /\ Binding(a).epoch = a.epoch
  <2>1. PICK l \in DOMAIN S : a = Anchor(S[l].frame, l)
    BY DEF RealAnchors
  <2>2. PICK c \in Commands, p \in Producers : S[l].frame = Frame(c, p)
    BY <1>2
  <2>. QED BY <1>1, <2>1, <2>2 DEF Anchor, Frame, Binding, Epochs, Sequences0
<1>4. ASSUME NEW c \in Confirmations
      PROVE  /\ c.nonce \in Commands /\ c = Confirmation(c.nonce)
             /\ c.epoch = EpochOf[c.nonce] /\ c.epoch \in Epochs /\ c.epoch # NoEpoch
             /\ c.seq \in Sequences0
  BY <1>1 DEF Confirmations, Confirmation, Frame, Epochs, Sequences0
<1>5. ASSUME NEW b \in RealBindings(S)
      PROVE  /\ b.nonce \in Commands /\ b.marker \in DOMAIN S
             /\ b.epoch = EpochOf[b.nonce] /\ b.epoch # NoEpoch
             /\ b.by = ProducerOf[b.nonce]
             /\ S[b.marker].frame = Confirmation(b.nonce)
  <2>1. PICK l \in DOMAIN S : /\ S[l].frame = Confirmation(S[l].frame.nonce)
                              /\ b = Binding(Anchor(S[l].frame, l))
    BY DEF RealBindings
  <2>2. PICK c \in Commands, p \in Producers : S[l].frame = Frame(c, p)
    BY <1>2
  <2>3. S[l].frame.nonce = c
    BY <2>2 DEF Frame
  <2>. QED BY <1>1, <2>1, <2>3 DEF Anchor, Binding, Confirmation, Frame
<1>6. ASSUME NEW a \in RealAnchors(S), NEW d \in Confirmations, d.nonce = a.nonce, matches(a, d)
      PROVE  Binding(a) \in RealBindings(S)
  <2>1. PICK l \in DOMAIN S : a = Anchor(S[l].frame, l)
    BY DEF RealAnchors
  <2>2. PICK c \in Commands, p \in Producers : S[l].frame = Frame(c, p)
    BY <1>2
  <2>3. d = Confirmation(c) /\ S[l].frame.nonce = c
    BY <1>4, <1>6, <2>1, <2>2 DEF Anchor, Frame
  <2>4. S[l].frame = Confirmation(c)
    BY <1>6, <2>1, <2>2, <2>3 DEF Anchor, Frame, Confirmation, matches
  <2>. QED BY <2>1, <2>3, <2>4 DEF RealBindings
<1>. QED BY <1>3, <1>4, <1>5, <1>6

\* Nothing but the tombstones differs.
Alike(v, w) ==
  /\ w.sessionEpoch = v.sessionEpoch /\ w.maxSequence = v.maxSequence
  /\ w.anchors = v.anchors /\ w.confirmations = v.confirmations
  /\ w.bindings = v.bindings /\ w.quarantined = v.quarantined
  /\ w.cues = v.cues /\ w.markers = v.markers /\ w.rail = v.rail
FewTombstones(v) == Len(v.rejected) <= MaxTombstones

\* The types of the parts of a view.
LEMMA ViewIs ==
  ASSUME NEW S, NEW v \in Views(S)
  PROVE  /\ v.sessionEpoch \in Epochs /\ v.maxSequence \in Sequences0
         /\ v.anchors \in Seq(RealAnchors(S)) /\ v.confirmations \in Seq(Confirmations)
         /\ v.bindings \in Seq(RealBindings(S)) /\ v.rejected \in Seq(Tombstones)
         /\ v.quarantined \in Seq(RealAnchors(S))
         /\ v.cues \subseteq Cues(S) /\ IsFiniteSet(v.cues)
         /\ v.markers \subseteq DOMAIN S /\ v.rail \subseteq Commands
  BY DEF Views

\* reject changes the tombstones only.
LEMMA RejectIs ==
  ASSUME NEW S, NEW v \in Views(S), NEW n \in Commands
  PROVE  /\ reject(v, n) \in Views(S) /\ Alike(v, reject(v, n)) /\ FewTombstones(reject(v, n))
<1> DEFINE more == Append(Without(v.rejected, n), [nonce |-> n])
           kept == Newest(more, MaxTombstones)
<1>1. more \in Seq(Tombstones)
  <2>1. Without(v.rejected, n) \in Seq(Tombstones) /\ [nonce |-> n] \in Tombstones
    BY ViewIs, WithoutIs DEF Tombstones
  <2>. QED BY <2>1, AppendIs
<1> HIDE DEF more
<1>2. kept \in Seq(Tombstones) /\ Len(kept) <= MaxTombstones
  BY <1>1, BoundsAssumption, NewestIs
<1> HIDE DEF kept
<1>3. reject(v, n) = [v EXCEPT !.rejected = kept]
  BY DEF reject, kept, more
<1>. QED BY <1>2, <1>3 DEF Views, Alike, FewTombstones

\* remove takes the nonce out of the four maps.
LEMMA RemoveIs ==
  ASSUME NEW S, NEW v \in Views(S), NEW n \in Commands, NEW w, w = remove(v, n)
  PROVE  /\ w \in Views(S) /\ (FewTombstones(v) => FewTombstones(w))
         /\ w.anchors = Without(v.anchors, n) /\ w.bindings = Without(v.bindings, n)
         /\ w.confirmations = Without(v.confirmations, n)
         /\ w.quarantined = Without(v.quarantined, n)
         /\ w.sessionEpoch = v.sessionEpoch /\ w.maxSequence = v.maxSequence
         /\ w.cues = v.cues /\ w.markers = v.markers /\ w.rail = v.rail
<1> DEFINE u == [v EXCEPT !.anchors = Without(@, n), !.bindings = Without(@, n),
                          !.confirmations = Without(@, n), !.quarantined = Without(@, n)]
<1>1. /\ Without(v.anchors, n) \in Seq(RealAnchors(S)) /\ Without(v.bindings, n) \in Seq(RealBindings(S))
      /\ Without(v.confirmations, n) \in Seq(Confirmations)
      /\ Without(v.quarantined, n) \in Seq(RealAnchors(S))
  BY ViewIs, WithoutIs
<1>2. /\ u \in Views(S) /\ u.rejected = v.rejected
      /\ u.anchors = Without(v.anchors, n) /\ u.bindings = Without(v.bindings, n)
      /\ u.confirmations = Without(v.confirmations, n)
      /\ u.quarantined = Without(v.quarantined, n)
      /\ u.sessionEpoch = v.sessionEpoch /\ u.maxSequence = v.maxSequence
      /\ u.cues = v.cues /\ u.markers = v.markers /\ u.rail = v.rail
  BY <1>1 DEF Views
<1>3. w = IF Has(v.quarantined, n) THEN u ELSE reject(u, n)
  BY DEF remove
<1> HIDE DEF u
<1>4. reject(u, n) \in Views(S) /\ Alike(u, reject(u, n)) /\ FewTombstones(reject(u, n))
  BY <1>2, RejectIs
<1>. QED BY <1>2, <1>3, <1>4 DEF Alike, FewTombstones

-----------------------------------------------------------------------------
(* What a view's parts know of each other.  A frame that is being registered   *)
(* has no cue yet: N holds its nonce, and is empty otherwise.                  *)

Kept(v) == ToSet(v.anchors) \cup ToSet(v.bindings) \cup ToSet(v.quarantined)
Waiting(v) == ToSet(v.anchors) \cup ToSet(v.quarantined)
Paired(v) == ToSet(v.anchors) \cup ToSet(v.confirmations) \cup ToSet(v.bindings)
Loose(v) == v.markers \ {cue.marker : cue \in v.cues}

DistinctMaps(v) ==
  /\ Distinct(v.anchors) /\ Distinct(v.confirmations)
  /\ Distinct(v.bindings) /\ Distinct(v.quarantined)
CuesLive(v) ==
  /\ \A c, d \in v.cues : c.nonce = d.nonce \/ c.marker = d.marker => c = d
  /\ \A c \in v.cues : c.marker \in v.markers
EntriesCued(v, N) ==
  \A e \in Kept(v) : e.nonce \notin N => \E c \in v.cues : c.nonce = e.nonce /\ c.marker = e.marker
Unannounced(v, N) ==
  \A c \in v.cues, e \in Waiting(v) : c.nonce = e.nonce /\ c.nonce \notin N => ~c.announced
OneMark(v) ==
  \A a \in ToSet(v.anchors), b \in ToSet(v.bindings) : a.nonce # b.nonce
SessionServed(v) ==
  /\ \A e \in Paired(v) : e.epoch = v.sessionEpoch
  /\ \A e \in ToSet(v.quarantined) : e.epoch # v.sessionEpoch
  /\ v.sessionEpoch = NoEpoch => ToSet(v.quarantined) = {}

Fit(v, N) ==
  DistinctMaps(v) /\ CuesLive(v) /\ EntriesCued(v, N) /\ Unannounced(v, N)
  /\ OneMark(v) /\ SessionServed(v)
Told(v) == v.rail = {b.nonce : b \in ToSet(v.bindings)}
Unbound(v, N) == \A b \in ToSet(v.bindings) : b.nonce \notin N
Small(v) ==
  /\ Len(v.anchors) <= MaxPending /\ Len(v.confirmations) <= MaxPending
  /\ Len(v.quarantined) <= MaxPending /\ Len(v.bindings) <= MaxBindings

\* Entries that go leave the others as they were.
Fewer(v, w) ==
  /\ ToSet(w.anchors) \subseteq ToSet(v.anchors) /\ ToSet(w.bindings) \subseteq ToSet(v.bindings)
  /\ ToSet(w.confirmations) \subseteq ToSet(v.confirmations)
  /\ ToSet(w.quarantined) \subseteq ToSet(v.quarantined)
  /\ Len(w.anchors) <= Len(v.anchors) /\ Len(w.bindings) <= Len(v.bindings)
  /\ Len(w.confirmations) <= Len(v.confirmations) /\ Len(w.quarantined) <= Len(v.quarantined)

\* Entries may go without their markers.
LEMMA FewerFits ==
  ASSUME NEW v, NEW w, NEW N, Fit(v, N), Fewer(v, w), DistinctMaps(w),
         w.cues = v.cues, w.markers = v.markers, w.sessionEpoch = v.sessionEpoch
  PROVE  Fit(w, N)
<1>1. Kept(w) \subseteq Kept(v) /\ Waiting(w) \subseteq Waiting(v) /\ Paired(w) \subseteq Paired(v)
  BY DEF Fewer, Kept, Waiting, Paired
<1>2. CuesLive(w) /\ EntriesCued(w, N) /\ Unannounced(w, N)
  BY <1>1 DEF Fit, CuesLive, EntriesCued, Unannounced
<1>3. OneMark(w)
  BY DEF Fit, Fewer, OneMark
<1>4. SessionServed(w)
  BY <1>1 DEF Fit, Fewer, SessionServed
<1>. QED BY <1>2, <1>3, <1>4 DEF Fit

\* Tombstones do not matter to what the parts know of each other.
LEMMA AlikeFits ==
  ASSUME NEW v, NEW w, Alike(v, w)
  PROVE  /\ \A N : Fit(v, N) => Fit(w, N)
         /\ Told(v) => Told(w)
         /\ Small(v) => Small(w)
         /\ Loose(w) = Loose(v) /\ Kept(w) = Kept(v)
  BY DEF Alike, Fit, Told, Small, Loose, DistinctMaps, CuesLive, EntriesCued, Unannounced, OneMark,
         SessionServed, Kept, Waiting, Paired

\* What can be navigated to is what is bound.
LEMMA SnapshotIs ==
  ASSUME NEW S \in Screens, NEW v \in Views(S), NEW N, Fit(v, N), Unbound(v, N)
  PROVE  getCommandAnchorSnapshot(v) = {b.nonce : b \in ToSet(v.bindings)}
<1>1. v.bindings \in Seq(RealBindings(S))
  BY ViewIs
<1>2. ASSUME NEW n \in getCommandAnchorSnapshot(v)
      PROVE  \E b \in ToSet(v.bindings) : n = b.nonce
  <2>1. Has(v.bindings, n)
    BY <1>2 DEF getCommandAnchorSnapshot
  <2>. QED BY <1>1, <2>1, HasIs
<1>3. ASSUME NEW b \in ToSet(v.bindings)
      PROVE  b.nonce \in getCommandAnchorSnapshot(v)
  <2>1. PICK c \in v.cues : c.nonce = b.nonce /\ c.marker = b.marker
    BY <1>3 DEF Fit, EntriesCued, Kept, Unbound
  <2>2. Has(v.bindings, c.nonce)
    BY <1>1, <1>3, <2>1, HasIs
  <2>3. Get(v.bindings, c.nonce) \in ToSet(v.bindings)
    BY <1>1, <2>2, GetIs
  <2>4. Get(v.bindings, c.nonce).epoch = v.sessionEpoch
    BY <2>3 DEF Fit, SessionServed, Paired
  <2>5. c.marker \in v.markers
    BY DEF Fit, CuesLive
  <2>. QED BY <2>1, <2>2, <2>4, <2>5 DEF getCommandAnchorSnapshot
<1>. QED BY <1>2, <1>3

\* The rail is told of every binding.
LEMMA NotifyIs ==
  ASSUME NEW S \in Screens, NEW v \in Views(S), NEW w, w = notifyCommandAnchorSubscribers(v)
  PROVE  /\ w \in Views(S) /\ w.rail = getCommandAnchorSnapshot(v)
         /\ w.sessionEpoch = v.sessionEpoch /\ w.maxSequence = v.maxSequence
         /\ w.anchors = v.anchors /\ w.confirmations = v.confirmations
         /\ w.bindings = v.bindings /\ w.quarantined = v.quarantined
         /\ w.cues = v.cues /\ w.markers = v.markers /\ w.rejected = v.rejected
         /\ FewTombstones(v) => FewTombstones(w)
         /\ \A N : Fit(v, N) => Fit(w, N)
         /\ \A N : Fit(v, N) /\ Unbound(v, N) => Told(w)
<1>1. getCommandAnchorSnapshot(v) \subseteq Commands
  BY ViewIs DEF getCommandAnchorSnapshot, Cues
<1>2. /\ w \in Views(S) /\ w.rail = getCommandAnchorSnapshot(v)
      /\ w.sessionEpoch = v.sessionEpoch /\ w.maxSequence = v.maxSequence
      /\ w.anchors = v.anchors /\ w.confirmations = v.confirmations
      /\ w.bindings = v.bindings /\ w.quarantined = v.quarantined
      /\ w.cues = v.cues /\ w.markers = v.markers /\ w.rejected = v.rejected
  BY <1>1 DEF notifyCommandAnchorSubscribers, Views
<1>3. FewTombstones(v) => FewTombstones(w)
  BY <1>2 DEF FewTombstones
<1>4. \A N : Fit(v, N) => Fit(w, N)
  BY <1>2 DEF Fit, DistinctMaps, CuesLive, EntriesCued, Unannounced, OneMark,
              SessionServed, Kept, Waiting, Paired
<1>5. \A N : Fit(v, N) /\ Unbound(v, N) => Told(w)
  BY <1>2, SnapshotIs DEF Told
<1>. QED BY <1>2, <1>3, <1>4, <1>5

\* remove leaves no entry with the nonce.
LEMMA RemoveFits ==
  ASSUME NEW S \in Screens, NEW v \in Views(S), NEW n \in Commands, NEW w, w = remove(v, n),
         DistinctMaps(v)
  PROVE  /\ DistinctMaps(w) /\ Fewer(v, w)
         /\ \A e \in Kept(w) : e.nonce # n
         /\ Kept(w) \subseteq Kept(v) /\ Waiting(w) \subseteq Waiting(v) /\ Paired(w) \subseteq Paired(v)
         /\ Len(w.quarantined) = IF Has(v.quarantined, n) THEN Len(v.quarantined) - 1 ELSE Len(v.quarantined)
<1>1. /\ w.anchors = Without(v.anchors, n) /\ w.bindings = Without(v.bindings, n)
      /\ w.confirmations = Without(v.confirmations, n) /\ w.quarantined = Without(v.quarantined, n)
  BY RemoveIs
<1>2. /\ v.anchors \in Seq(RealAnchors(S)) /\ v.bindings \in Seq(RealBindings(S))
      /\ v.confirmations \in Seq(Confirmations) /\ v.quarantined \in Seq(RealAnchors(S))
  BY ViewIs
<1>3. /\ Distinct(w.anchors) /\ ToSet(w.anchors) = {e \in ToSet(v.anchors) : e.nonce # n}
      /\ Len(w.anchors) <= Len(v.anchors)
  BY <1>1, <1>2, WithoutIs DEF DistinctMaps
<1>4. /\ Distinct(w.bindings) /\ ToSet(w.bindings) = {e \in ToSet(v.bindings) : e.nonce # n}
      /\ Len(w.bindings) <= Len(v.bindings)
  BY <1>1, <1>2, WithoutIs DEF DistinctMaps
<1>5. /\ Distinct(w.confirmations) /\ ToSet(w.confirmations) = {e \in ToSet(v.confirmations) : e.nonce # n}
      /\ Len(w.confirmations) <= Len(v.confirmations)
  BY <1>1, <1>2, WithoutIs DEF DistinctMaps
<1>6. /\ Distinct(w.quarantined) /\ ToSet(w.quarantined) = {e \in ToSet(v.quarantined) : e.nonce # n}
      /\ Len(w.quarantined) <= Len(v.quarantined)
      /\ Len(w.quarantined) = IF Has(v.quarantined, n) THEN Len(v.quarantined) - 1 ELSE Len(v.quarantined)
  BY <1>1, <1>2, WithoutIs DEF DistinctMaps
<1>. QED BY <1>3, <1>4, <1>5, <1>6 DEF DistinctMaps, Fewer, Kept, Waiting, Paired

\* A disposed marker takes its cue and the entries of the cue with it.
LEMMA DisposeIs ==
  ASSUME NEW S \in Screens, NEW v \in Views(S), NEW marker, NEW w, w = disposeMarker(v, marker)
  PROVE  /\ w \in Views(S) /\ (FewTombstones(v) => FewTombstones(w))
         /\ w.sessionEpoch = v.sessionEpoch /\ w.maxSequence = v.maxSequence
         /\ w.markers = v.markers \ {marker} /\ w.cues \subseteq v.cues
         /\ \A c \in v.cues : c \in w.cues \/ c.marker = marker
         /\ Loose(w) \subseteq Loose(v)
         /\ \/ /\ w.anchors = v.anchors /\ w.bindings = v.bindings /\ w.rejected = v.rejected
               /\ w.confirmations = v.confirmations /\ w.quarantined = v.quarantined
               /\ w.rail = v.rail /\ w.cues = v.cues
               /\ marker \notin v.markers \/ \A c \in v.cues : c.marker # marker
            \/ \E c \in v.cues, u \in Views(S) :
                 /\ c.marker = marker /\ c.nonce \in Commands
                 /\ u.cues = {d \in v.cues : d.marker # marker} /\ u.markers = v.markers \ {marker}
                 /\ u.anchors = v.anchors /\ u.bindings = v.bindings /\ u.rejected = v.rejected
                 /\ u.confirmations = v.confirmations /\ u.quarantined = v.quarantined
                 /\ u.rail = v.rail /\ u.sessionEpoch = v.sessionEpoch
                 /\ w = notifyCommandAnchorSubscribers(remove(u, c.nonce))
<1> DEFINE owner == {cue \in v.cues : cue.marker = marker}
           u == [v EXCEPT !.markers = @ \ {marker}]
           t == [u EXCEPT !.cues = @ \ owner]
<1>1. CASE marker \notin v.markers
  BY <1>1 DEF disposeMarker
<1>2. CASE marker \in v.markers /\ owner = {}
  <2>1. w = u
    BY <1>2 DEF disposeMarker
  <2>. QED BY <1>2, <2>1 DEF Views, Loose, FewTombstones
<1>3. CASE marker \in v.markers /\ owner # {}
  <2> DEFINE c == CHOOSE cue \in owner : TRUE
  <2>1. c \in v.cues /\ c.marker = marker
    BY <1>3
  <2>2. c.nonce \in Commands
    BY <2>1, ViewIs DEF Cues
  <2>3. /\ u \in Views(S) /\ u.cues = v.cues /\ u.markers = v.markers \ {marker}
        /\ u.anchors = v.anchors /\ u.bindings = v.bindings /\ u.rejected = v.rejected
        /\ u.confirmations = v.confirmations /\ u.quarantined = v.quarantined
        /\ u.rail = v.rail /\ u.sessionEpoch = v.sessionEpoch /\ u.maxSequence = v.maxSequence
    BY DEF Views
  <2>4. w = notifyCommandAnchorSubscribers(remove(t, c.nonce))
    BY <1>3 DEF disposeMarker
  <2> HIDE DEF c, u
  <2>5. u.cues \ owner \subseteq Cues(S) /\ IsFiniteSet(u.cues \ owner)
    BY <2>3, ViewIs, FS_Subset
  <2>6. /\ t \in Views(S) /\ t.cues = {d \in v.cues : d.marker # marker} /\ t.markers = u.markers
        /\ t.anchors = u.anchors /\ t.bindings = u.bindings /\ t.rejected = u.rejected
        /\ t.confirmations = u.confirmations /\ t.quarantined = u.quarantined
        /\ t.rail = u.rail /\ t.sessionEpoch = u.sessionEpoch /\ t.maxSequence = u.maxSequence
    BY <2>3, <2>5 DEF Views
  <2> HIDE DEF t, owner
  <2> DEFINE r == remove(t, c.nonce)
  <2>7. /\ r \in Views(S) /\ (FewTombstones(t) => FewTombstones(r))
        /\ r.sessionEpoch = t.sessionEpoch /\ r.maxSequence = t.maxSequence
        /\ r.cues = t.cues /\ r.markers = t.markers
    BY <2>2, <2>6, RemoveIs
  <2> HIDE DEF r
  <2>8. /\ w \in Views(S) /\ (FewTombstones(r) => FewTombstones(w))
        /\ w.sessionEpoch = r.sessionEpoch /\ w.maxSequence = r.maxSequence
        /\ w.cues = r.cues /\ w.markers = r.markers
    BY <2>4, <2>7, NotifyIs DEF r
  <2>9. Loose(w) \subseteq Loose(v)
    BY <2>3, <2>6, <2>7, <2>8 DEF Loose
  <2>10. FewTombstones(v) => FewTombstones(w)
    BY <2>3, <2>6, <2>7, <2>8 DEF FewTombstones
  <2>11. \E d \in v.cues, s \in Views(S) :
                 /\ d.marker = marker /\ d.nonce \in Commands
                 /\ s.cues = {f \in v.cues : f.marker # marker} /\ s.markers = v.markers \ {marker}
                 /\ s.anchors = v.anchors /\ s.bindings = v.bindings /\ s.rejected = v.rejected
                 /\ s.confirmations = v.confirmations /\ s.quarantined = v.quarantined
                 /\ s.rail = v.rail /\ s.sessionEpoch = v.sessionEpoch
                 /\ w = notifyCommandAnchorSubscribers(remove(s, d.nonce))
    BY <2>1, <2>2, <2>3, <2>4, <2>6
  <2>12. /\ w.sessionEpoch = v.sessionEpoch /\ w.maxSequence = v.maxSequence
         /\ w.markers = v.markers \ {marker} /\ w.cues \subseteq v.cues
         /\ \A d \in v.cues : d \in w.cues \/ d.marker = marker
    BY <2>3, <2>6, <2>7, <2>8
  <2>. QED BY <2>8, <2>9, <2>10, <2>11, <2>12
<1>. QED BY <1>1, <1>2, <1>3

\* A disposed marker takes its cue and its entries with it.
LEMMA DisposeFits ==
  ASSUME NEW S \in Screens, NEW v \in Views(S), NEW marker, NEW w, w = disposeMarker(v, marker),
         NEW N, Fit(v, N), Told(v), Unbound(v, N)
  PROVE  /\ Fit(w, N) /\ Told(w) /\ Unbound(w, N) /\ Fewer(v, w)
         /\ \A e \in Kept(w) : e.nonce \notin N => e.marker # marker
         /\ \/ ToSet(w.quarantined) = ToSet(v.quarantined)
            \/ Len(w.quarantined) < Len(v.quarantined)
<1>0. /\ v.anchors \in Seq(RealAnchors(S)) /\ v.bindings \in Seq(RealBindings(S))
      /\ v.confirmations \in Seq(Confirmations) /\ v.quarantined \in Seq(RealAnchors(S))
  BY ViewIs
<1>1. CASE /\ w.anchors = v.anchors /\ w.bindings = v.bindings
           /\ w.confirmations = v.confirmations /\ w.quarantined = v.quarantined
           /\ w.rail = v.rail /\ w.cues = v.cues
           /\ marker \notin v.markers \/ \A c \in v.cues : c.marker # marker
  <2>1. w.markers = v.markers \ {marker} /\ w.sessionEpoch = v.sessionEpoch
    BY DisposeIs
  <2>2. \A c \in v.cues : c.marker # marker
    BY <1>1 DEF Fit, CuesLive
  <2>3. Kept(w) = Kept(v) /\ Waiting(w) = Waiting(v) /\ Paired(w) = Paired(v)
    BY <1>1 DEF Kept, Waiting, Paired
  <2>4. CuesLive(w)
    BY <1>1, <2>1, <2>2 DEF Fit, CuesLive
  <2>5. EntriesCued(w, N) /\ Unannounced(w, N) /\ OneMark(w) /\ SessionServed(w) /\ DistinctMaps(w)
    BY <1>1, <2>1, <2>3 DEF Fit, EntriesCued, Unannounced, OneMark, SessionServed, DistinctMaps
  <2>6. Fewer(v, w)
    BY <1>0, <1>1 DEF Fewer
  <2>7. \A e \in Kept(w) : e.nonce \notin N => e.marker # marker
    BY <2>2, <2>3 DEF Fit, EntriesCued
  <2>. QED BY <1>1, <2>4, <2>5, <2>6, <2>7 DEF Fit, Told, Unbound
<1>2. ASSUME NEW c \in v.cues, NEW u \in Views(S),
             c.marker = marker /\ c.nonce \in Commands,
             u.cues = {d \in v.cues : d.marker # marker} /\ u.markers = v.markers \ {marker},
             u.anchors = v.anchors /\ u.bindings = v.bindings /\ u.rejected = v.rejected,
             u.confirmations = v.confirmations /\ u.quarantined = v.quarantined,
             u.rail = v.rail /\ u.sessionEpoch = v.sessionEpoch,
             w = notifyCommandAnchorSubscribers(remove(u, c.nonce))
      PROVE  /\ Fit(w, N) /\ Told(w) /\ Unbound(w, N) /\ Fewer(v, w)
             /\ \A e \in Kept(w) : e.nonce \notin N => e.marker # marker
             /\ \/ ToSet(w.quarantined) = ToSet(v.quarantined)
                \/ Len(w.quarantined) < Len(v.quarantined)
  <2> DEFINE r == remove(u, c.nonce)
  <2>1. DistinctMaps(u)
    BY <1>2 DEF Fit, DistinctMaps
  <2>2. /\ r \in Views(S) /\ r.sessionEpoch = v.sessionEpoch
        /\ r.cues = {d \in v.cues : d.marker # marker} /\ r.markers = v.markers \ {marker}
        /\ r.quarantined = Without(u.quarantined, c.nonce)
    BY <1>2, RemoveIs
  <2>3. /\ DistinctMaps(r) /\ Fewer(u, r)
        /\ \A e \in Kept(r) : e.nonce # c.nonce
        /\ Kept(r) \subseteq Kept(u) /\ Waiting(r) \subseteq Waiting(u) /\ Paired(r) \subseteq Paired(u)
        /\ Len(r.quarantined) = IF Has(u.quarantined, c.nonce) THEN Len(u.quarantined) - 1
                                ELSE Len(u.quarantined)
    BY <1>2, <2>1, RemoveFits
  <2> HIDE DEF r
  <2>4. /\ Kept(r) \subseteq Kept(v) /\ Waiting(r) \subseteq Waiting(v) /\ Paired(r) \subseteq Paired(v)
        /\ Fewer(v, r)
    BY <1>2, <2>3 DEF Kept, Waiting, Paired, Fewer
  <2>5. CuesLive(r)
    BY <2>2 DEF Fit, CuesLive
  <2>6. ASSUME NEW e \in Kept(r), e.nonce \notin N
        PROVE  e.marker # marker /\ \E d \in r.cues : d.nonce = e.nonce /\ d.marker = e.marker
    <3>1. PICK d \in v.cues : d.nonce = e.nonce /\ d.marker = e.marker
      BY <2>4, <2>6 DEF Fit, EntriesCued
    <3>2. d.marker # marker
      BY <1>2, <2>3, <3>1 DEF Fit, CuesLive
    <3>. QED BY <2>2, <3>1, <3>2
  <2>7. Unannounced(r, N)
    BY <2>2, <2>4 DEF Fit, Unannounced
  <2>8. OneMark(r) /\ SessionServed(r)
    BY <2>2, <2>4 DEF Fit, OneMark, SessionServed, Fewer
  <2>9. Fit(r, N)
    BY <2>3, <2>5, <2>6, <2>7, <2>8 DEF Fit, EntriesCued
  <2>10. Unbound(r, N)
    BY <2>4 DEF Unbound, Fewer
  <2>11. \/ ToSet(r.quarantined) = ToSet(v.quarantined)
         \/ Len(r.quarantined) < Len(v.quarantined)
    <3>1. CASE Has(u.quarantined, c.nonce)
      BY <1>0, <1>2, <2>3, <3>1
    <3>2. CASE ~Has(u.quarantined, c.nonce)
      BY <1>2, <2>2, <3>2 DEF Without
    <3>. QED BY <3>1, <3>2
  <2>12. /\ Fit(w, N) /\ Told(w)
         /\ w.anchors = r.anchors /\ w.confirmations = r.confirmations
         /\ w.bindings = r.bindings /\ w.quarantined = r.quarantined
    BY <1>2, <2>2, <2>9, <2>10, NotifyIs DEF r
  <2>13. Unbound(w, N) /\ Fewer(v, w) /\ Kept(w) = Kept(r)
    BY <2>4, <2>10, <2>12 DEF Unbound, Fewer, Kept
  <2>. QED BY <2>6, <2>11, <2>12, <2>13
<1>. QED BY <1>1, <1>2, DisposeIs

-----------------------------------------------------------------------------
(* The registry's operations, one at a time. *)

SameButEntries(v, w) ==
  /\ w.sessionEpoch = v.sessionEpoch /\ w.maxSequence = v.maxSequence
  /\ w.cues = v.cues /\ w.markers = v.markers /\ w.rail = v.rail

\* The oldest anchor goes when there is no room for one more.
LEMMA EvictAnchorsIs ==
  ASSUME NEW S \in Screens, NEW v \in Views(S), NEW w, w = evictAnchors(v)
  PROVE  /\ w \in Views(S) /\ (FewTombstones(v) => FewTombstones(w))
         /\ (DistinctMaps(v) => DistinctMaps(w)) /\ Fewer(v, w) /\ SameButEntries(v, w)
         /\ Len(v.anchors) <= MaxPending + 1 => Len(w.anchors) <= MaxPending
         /\ w.confirmations = v.confirmations /\ w.bindings = v.bindings
         /\ w.quarantined = v.quarantined
<1> DEFINE u == [v EXCEPT !.anchors = Tail(@)]
<1>0. /\ v.anchors \in Seq(RealAnchors(S)) /\ MaxPending \in Nat \ {0} /\ Len(v.anchors) \in Nat
      /\ v.bindings \in Seq(RealBindings(S)) /\ v.confirmations \in Seq(Confirmations)
      /\ v.quarantined \in Seq(RealAnchors(S))
  BY ViewIs, BoundsAssumption
<1>1. CASE Len(v.anchors) <= MaxPending
  BY <1>0, <1>1 DEF evictAnchors, Fewer, SameButEntries
<1>2. CASE Len(v.anchors) > MaxPending
  <2>1. v.anchors # <<>>
    BY <1>0, <1>2
  <2>2. /\ Tail(v.anchors) \in Seq(RealAnchors(S)) /\ Len(Tail(v.anchors)) = Len(v.anchors) - 1
        /\ Head(v.anchors) \in RealAnchors(S)
        /\ ToSet(Tail(v.anchors)) \subseteq ToSet(v.anchors)
        /\ (Distinct(v.anchors) => Distinct(Tail(v.anchors)))
    BY <1>0, <2>1, TailIs DEF DistinctMaps
  <2>3. /\ u \in Views(S) /\ SameButEntries(v, u) /\ u.anchors = Tail(v.anchors)
        /\ u.confirmations = v.confirmations /\ u.bindings = v.bindings /\ u.quarantined = v.quarantined
    BY <2>2 DEF Views, SameButEntries
  <2>4. w = reject(u, Head(v.anchors).nonce) /\ Head(v.anchors).nonce \in Commands
    BY <1>0, <1>2, <2>2, Entries DEF evictAnchors
  <2> HIDE DEF u
  <2>5. w \in Views(S) /\ Alike(u, w) /\ FewTombstones(w)
    BY <2>3, <2>4, RejectIs
  <2>. QED BY <1>0, <2>2, <2>3, <2>5 DEF Alike, SameButEntries, Fewer, DistinctMaps
<1>. QED BY <1>0, <1>1, <1>2

\* The oldest confirmation goes when there is no room for one more.
LEMMA EvictConfirmationsIs ==
  ASSUME NEW S \in Screens, NEW v \in Views(S), NEW w, w = evictConfirmations(v)
  PROVE  /\ w \in Views(S) /\ (FewTombstones(v) => FewTombstones(w))
         /\ (DistinctMaps(v) => DistinctMaps(w)) /\ Fewer(v, w) /\ SameButEntries(v, w)
         /\ Len(v.confirmations) <= MaxPending + 1 => Len(w.confirmations) <= MaxPending
         /\ w.anchors = v.anchors /\ w.bindings = v.bindings /\ w.quarantined = v.quarantined
<1> DEFINE u == [v EXCEPT !.confirmations = Tail(@)]
<1>0. /\ v.anchors \in Seq(RealAnchors(S)) /\ MaxPending \in Nat \ {0} /\ Len(v.confirmations) \in Nat
      /\ v.bindings \in Seq(RealBindings(S)) /\ v.confirmations \in Seq(Confirmations)
      /\ v.quarantined \in Seq(RealAnchors(S))
  BY ViewIs, BoundsAssumption
<1>1. CASE Len(v.confirmations) <= MaxPending
  BY <1>0, <1>1 DEF evictConfirmations, Fewer, SameButEntries
<1>2. CASE Len(v.confirmations) > MaxPending
  <2>1. v.confirmations # <<>>
    BY <1>0, <1>2
  <2>2. /\ Tail(v.confirmations) \in Seq(Confirmations)
        /\ Len(Tail(v.confirmations)) = Len(v.confirmations) - 1
        /\ Head(v.confirmations) \in Confirmations
        /\ ToSet(Tail(v.confirmations)) \subseteq ToSet(v.confirmations)
        /\ (Distinct(v.confirmations) => Distinct(Tail(v.confirmations)))
    BY <1>0, <2>1, TailIs DEF DistinctMaps
  <2>3. /\ u \in Views(S) /\ SameButEntries(v, u) /\ u.confirmations = Tail(v.confirmations)
        /\ u.anchors = v.anchors /\ u.bindings = v.bindings /\ u.quarantined = v.quarantined
    BY <2>2 DEF Views, SameButEntries
  <2>4. w = reject(u, Head(v.confirmations).nonce) /\ Head(v.confirmations).nonce \in Commands
    BY <1>0, <1>2, <2>2, Entries DEF evictConfirmations
  <2> HIDE DEF u
  <2>5. w \in Views(S) /\ Alike(u, w) /\ FewTombstones(w)
    BY <2>3, <2>4, RejectIs
  <2>. QED BY <1>0, <2>2, <2>3, <2>5 DEF Alike, SameButEntries, Fewer, DistinctMaps
<1>. QED BY <1>0, <1>1, <1>2

\* The newest binding is never the one that goes.
LEMMA EvictBindingsIs ==
  ASSUME NEW S \in Screens, NEW v \in Views(S), NEW w, w = evictBindings(v)
  PROVE  /\ w \in Views(S) /\ (FewTombstones(v) => FewTombstones(w))
         /\ (DistinctMaps(v) => DistinctMaps(w)) /\ Fewer(v, w) /\ SameButEntries(v, w)
         /\ Len(v.bindings) <= MaxBindings + 1 => Len(w.bindings) <= MaxBindings
         /\ w.anchors = v.anchors /\ w.confirmations = v.confirmations
         /\ w.quarantined = v.quarantined
         /\ \A e \in ToSet(v.bindings) :
              e \in ToSet(w.bindings) \/ (e = Head(v.bindings) /\ Len(v.bindings) > MaxBindings)
<1> DEFINE u == [v EXCEPT !.bindings = Tail(@)]
<1>0. /\ v.anchors \in Seq(RealAnchors(S)) /\ MaxBindings \in Nat \ {0} /\ Len(v.bindings) \in Nat
      /\ v.bindings \in Seq(RealBindings(S)) /\ v.confirmations \in Seq(Confirmations)
      /\ v.quarantined \in Seq(RealAnchors(S))
  BY ViewIs, BoundsAssumption
<1>1. CASE Len(v.bindings) <= MaxBindings
  BY <1>0, <1>1 DEF evictBindings, Fewer, SameButEntries
<1>2. CASE Len(v.bindings) > MaxBindings
  <2>1. v.bindings # <<>>
    BY <1>0, <1>2
  <2>2. /\ Tail(v.bindings) \in Seq(RealBindings(S)) /\ Len(Tail(v.bindings)) = Len(v.bindings) - 1
        /\ Head(v.bindings) \in RealBindings(S)
        /\ ToSet(Tail(v.bindings)) \subseteq ToSet(v.bindings)
        /\ (Distinct(v.bindings) => Distinct(Tail(v.bindings)))
        /\ ToSet(v.bindings) = ToSet(Tail(v.bindings)) \cup {Head(v.bindings)}
    BY <1>0, <2>1, TailIs DEF DistinctMaps
  <2>3. /\ u \in Views(S) /\ SameButEntries(v, u) /\ u.bindings = Tail(v.bindings)
        /\ u.confirmations = v.confirmations /\ u.anchors = v.anchors /\ u.quarantined = v.quarantined
    BY <2>2 DEF Views, SameButEntries
  <2>4. w = reject(u, Head(v.bindings).nonce) /\ Head(v.bindings).nonce \in Commands
    BY <1>0, <1>2, <2>2, Entries DEF evictBindings
  <2> HIDE DEF u
  <2>5. w \in Views(S) /\ Alike(u, w) /\ FewTombstones(w)
    BY <2>3, <2>4, RejectIs
  <2>. QED BY <1>0, <1>2, <2>2, <2>3, <2>5 DEF Alike, SameButEntries, Fewer, DistinctMaps
<1>. QED BY <1>0, <1>1, <1>2

\* acceptSequence sets the session of a view that has none, and leaves the rest alone.
LEMMA AcceptIs ==
  ASSUME NEW S \in Screens, NEW v \in Views(S), NEW f, f.epoch \in Epochs, f.epoch # NoEpoch,
         f.seq \in Sequences0, NEW w, w = acceptSequence(v, f)
  PROVE  /\ w \in Views(S) /\ w.rejected = v.rejected
         /\ w.sessionEpoch = IF v.sessionEpoch = NoEpoch THEN f.epoch ELSE v.sessionEpoch
         /\ w.anchors = v.anchors /\ w.confirmations = v.confirmations
         /\ w.bindings = v.bindings /\ w.quarantined = v.quarantined
         /\ w.cues = v.cues /\ w.markers = v.markers /\ w.rail = v.rail
         /\ Fit(v, {}) => Fit(w, {})
         /\ Told(v) => Told(w)
         /\ Small(v) => Small(w)
         /\ FewTombstones(v) => FewTombstones(w)
         /\ Loose(w) = Loose(v) /\ Kept(w) = Kept(v)
<1>1. /\ w \in Views(S) /\ w.rejected = v.rejected
      /\ w.sessionEpoch = IF v.sessionEpoch = NoEpoch THEN f.epoch ELSE v.sessionEpoch
      /\ w.anchors = v.anchors /\ w.confirmations = v.confirmations
      /\ w.bindings = v.bindings /\ w.quarantined = v.quarantined
      /\ w.cues = v.cues /\ w.markers = v.markers /\ w.rail = v.rail
  BY DEF acceptSequence, Views
<1>2. /\ Told(v) => Told(w)
      /\ Small(v) => Small(w)
      /\ FewTombstones(v) => FewTombstones(w)
      /\ Loose(w) = Loose(v) /\ Kept(w) = Kept(v)
  BY <1>1 DEF Told, Small, FewTombstones, Loose, Kept
<1>3. ASSUME Fit(v, {})
      PROVE  SessionServed(w)
  <2>1. Paired(w) = Paired(v)
    BY <1>1 DEF Paired
  <2>2. CASE v.sessionEpoch = NoEpoch
    <3>1. \A e \in Paired(v) : e.epoch # NoEpoch
      <4>1. /\ ToSet(v.anchors) \subseteq RealAnchors(S) /\ ToSet(v.bindings) \subseteq RealBindings(S)
            /\ ToSet(v.confirmations) \subseteq Confirmations
        BY ViewIs, HasIs
      <4>. QED BY <4>1, Entries DEF Paired
    <3>2. Paired(v) = {} /\ ToSet(v.quarantined) = {}
      BY <1>3, <2>2, <3>1 DEF Fit, SessionServed
    <3>. QED BY <1>1, <2>1, <3>2 DEF SessionServed
  <2>3. CASE v.sessionEpoch # NoEpoch
    BY <1>1, <1>3, <2>1, <2>3 DEF Fit, SessionServed
  <2>. QED BY <2>2, <2>3
<1>4. Fit(v, {}) => Fit(w, {})
  BY <1>1, <1>3 DEF Fit, DistinctMaps, CuesLive, EntriesCued, Unannounced, OneMark, Kept, Waiting
<1>. QED BY <1>1, <1>2, <1>4

\* rejectPending leaves no entry that waits with the nonce.
LEMMA RejectPendingIs ==
  ASSUME NEW S \in Screens, NEW v \in Views(S), NEW n \in Commands, NEW w, w = rejectPending(v, n)
  PROVE  /\ w \in Views(S) /\ FewTombstones(w)
         /\ w.sessionEpoch = v.sessionEpoch /\ w.maxSequence = v.maxSequence
         /\ w.cues \subseteq v.cues /\ w.markers \subseteq v.markers /\ Loose(w) \subseteq Loose(v)
         /\ Fit(v, {}) /\ Told(v) => Fit(w, {}) /\ Told(w) /\ Fewer(v, w)
         /\ ~Has(v.anchors, n) /\ ~Has(v.confirmations, n) => Alike(v, w)
<1> DEFINE u == IF Has(v.anchors, n) THEN disposeMarker(v, Get(v.anchors, n).marker) ELSE v
           t == [u EXCEPT !.anchors = Without(@, n), !.confirmations = Without(@, n)]
<1>1. w = reject(t, n)
  BY DEF rejectPending
<1>2. /\ u \in Views(S)
      /\ u.sessionEpoch = v.sessionEpoch /\ u.maxSequence = v.maxSequence
      /\ u.cues \subseteq v.cues /\ u.markers \subseteq v.markers /\ Loose(u) \subseteq Loose(v)
  BY DisposeIs
<1>3. ASSUME Fit(v, {}), Told(v)
      PROVE  Fit(u, {}) /\ Told(u) /\ Fewer(v, u)
  <2>1. CASE Has(v.anchors, n)
    <3>1. Unbound(v, {})
      BY DEF Unbound
    <3>. QED BY <1>3, <2>1, <3>1, DisposeFits
  <2>2. CASE ~Has(v.anchors, n)
    BY <1>3, <2>2, ViewIs DEF Fewer
  <2>. QED BY <2>1, <2>2
<1>3a. ~Has(v.anchors, n) => u = v
  OBVIOUS
<1> HIDE DEF u
<1>4. /\ Without(u.anchors, n) \in Seq(RealAnchors(S)) /\ Without(u.confirmations, n) \in Seq(Confirmations)
      /\ ToSet(Without(u.anchors, n)) \subseteq ToSet(u.anchors)
      /\ ToSet(Without(u.confirmations, n)) \subseteq ToSet(u.confirmations)
      /\ Distinct(u.anchors) => Distinct(Without(u.anchors, n))
      /\ Distinct(u.confirmations) => Distinct(Without(u.confirmations, n))
      /\ Len(Without(u.anchors, n)) <= Len(u.anchors)
      /\ Len(Without(u.confirmations, n)) <= Len(u.confirmations)
  BY <1>2, ViewIs, WithoutIs
<1>5. /\ t \in Views(S) /\ SameButEntries(u, t)
      /\ t.anchors = Without(u.anchors, n) /\ t.confirmations = Without(u.confirmations, n)
      /\ t.bindings = u.bindings /\ t.quarantined = u.quarantined
  BY <1>2, <1>4 DEF Views, SameButEntries
<1> HIDE DEF t
<1>6. w \in Views(S) /\ Alike(t, w) /\ FewTombstones(w)
  BY <1>1, <1>5, RejectIs
<1>7. Loose(w) = Loose(u) /\ w.cues = u.cues /\ w.markers = u.markers
  BY <1>5, <1>6 DEF Alike, SameButEntries, Loose
<1>8. ASSUME Fit(v, {}), Told(v)
      PROVE  Fit(w, {}) /\ Told(w) /\ Fewer(v, w)
  <2>1. DistinctMaps(t)
    BY <1>3, <1>4, <1>5, <1>8 DEF Fit, DistinctMaps
  <2>2. Fewer(u, t)
    BY <1>2, <1>4, <1>5, ViewIs DEF Fewer
  <2>3. Fit(t, {})
    BY <1>3, <1>5, <1>8, <2>1, <2>2, FewerFits DEF SameButEntries
  <2>4. Told(t)
    BY <1>3, <1>5, <1>8 DEF Told, SameButEntries
  <2>5. Fewer(v, w)
    <3>1. Fewer(v, t)
      <4>1. /\ u.anchors \in Seq(RealAnchors(S)) /\ u.bindings \in Seq(RealBindings(S))
            /\ u.confirmations \in Seq(Confirmations) /\ u.quarantined \in Seq(RealAnchors(S))
            /\ t.anchors \in Seq(RealAnchors(S)) /\ t.confirmations \in Seq(Confirmations)
            /\ v.anchors \in Seq(RealAnchors(S)) /\ v.confirmations \in Seq(Confirmations)
        BY <1>2, <1>5, ViewIs
      <4>. QED BY <1>3, <1>5, <1>8, <2>2, <4>1 DEF Fewer
    <3>. QED BY <1>6, <3>1 DEF Fewer, Alike
  <2>. QED BY <1>6, <2>3, <2>4, <2>5, AlikeFits
<1>9. ASSUME ~Has(v.anchors, n), ~Has(v.confirmations, n)
      PROVE  Alike(v, w)
  <2>1. t.anchors = v.anchors /\ t.confirmations = v.confirmations
    BY <1>3a, <1>5, <1>9 DEF Without
  <2>. QED BY <1>3a, <1>5, <1>6, <1>9, <2>1 DEF Alike, SameButEntries
<1>. QED BY <1>2, <1>5, <1>6, <1>7, <1>8, <1>9 DEF Alike, SameButEntries

\* The lengths and the bounds of the maps are numbers.
LEMMA LensIs ==
  ASSUME NEW S, NEW v \in Views(S)
  PROVE  /\ Len(v.anchors) \in Nat /\ Len(v.bindings) \in Nat
         /\ Len(v.confirmations) \in Nat /\ Len(v.quarantined) \in Nat
         /\ MaxPending \in Nat /\ MaxBindings \in Nat /\ MaxTombstones \in Nat
         /\ MaxPending > 0 /\ MaxBindings > 0
<1>1. /\ v.anchors \in Seq(RealAnchors(S)) /\ v.confirmations \in Seq(Confirmations)
      /\ v.bindings \in Seq(RealBindings(S)) /\ v.quarantined \in Seq(RealAnchors(S))
  BY ViewIs
<1>2. Len(v.anchors) \in Nat /\ Len(v.bindings) \in Nat
  BY <1>1
<1>3. Len(v.confirmations) \in Nat /\ Len(v.quarantined) \in Nat
  BY <1>1
<1>4. /\ MaxPending \in Nat /\ MaxBindings \in Nat /\ MaxTombstones \in Nat
      /\ MaxPending > 0 /\ MaxBindings > 0
  BY BoundsAssumption
<1>. QED BY <1>2, <1>3, <1>4

\* Entries go, and then some more.
LEMMA FewerThen ==
  ASSUME NEW S, NEW u \in Views(S), NEW v \in Views(S), NEW w \in Views(S), Fewer(u, v), Fewer(v, w)
  PROVE  Fewer(u, w)
<1>1. /\ Len(u.anchors) \in Nat /\ Len(u.bindings) \in Nat
      /\ Len(u.confirmations) \in Nat /\ Len(u.quarantined) \in Nat
  BY LensIs
<1>2. /\ Len(v.anchors) \in Nat /\ Len(v.bindings) \in Nat
      /\ Len(v.confirmations) \in Nat /\ Len(v.quarantined) \in Nat
  BY LensIs
<1>3. /\ Len(w.anchors) \in Nat /\ Len(w.bindings) \in Nat
      /\ Len(w.confirmations) \in Nat /\ Len(w.quarantined) \in Nat
  BY LensIs
<1>4. /\ Len(w.anchors) <= Len(v.anchors) /\ Len(w.bindings) <= Len(v.bindings)
      /\ Len(w.confirmations) <= Len(v.confirmations) /\ Len(w.quarantined) <= Len(v.quarantined)
  BY DEF Fewer
<1>5. /\ Len(v.anchors) <= Len(u.anchors) /\ Len(v.bindings) <= Len(u.bindings)
      /\ Len(v.confirmations) <= Len(u.confirmations) /\ Len(v.quarantined) <= Len(u.quarantined)
  BY DEF Fewer
<1>6. /\ Len(w.anchors) <= Len(u.anchors) /\ Len(w.bindings) <= Len(u.bindings)
      /\ Len(w.confirmations) <= Len(u.confirmations) /\ Len(w.quarantined) <= Len(u.quarantined)
  <2>1. \A a, b, c \in Nat : a <= b /\ b <= c => a <= c
    OBVIOUS
  <2>. QED BY ONLY <1>1, <1>2, <1>3, <1>4, <1>5, <2>1, Zenon
<1>. QED BY <1>6 DEF Fewer

\* Maps that lose entries keep within their bounds.
LEMMA FewerSmall ==
  ASSUME NEW S, NEW v \in Views(S), NEW w \in Views(S), Fewer(v, w), Small(v)
  PROVE  Small(w)
<1>1. /\ Len(v.anchors) \in Nat /\ Len(v.bindings) \in Nat
      /\ Len(v.confirmations) \in Nat /\ Len(v.quarantined) \in Nat
      /\ MaxPending \in Nat /\ MaxBindings \in Nat
  BY LensIs
<1>2. /\ Len(w.anchors) \in Nat /\ Len(w.bindings) \in Nat
      /\ Len(w.confirmations) \in Nat /\ Len(w.quarantined) \in Nat
  BY LensIs
<1>. QED BY <1>1, <1>2 DEF Fewer, Small

\* A nonce without an entry needs no cue.
LEMMA FitWithout ==
  ASSUME NEW v, NEW n, Fit(v, {n}), \A e \in Kept(v) : e.nonce # n
  PROVE  Fit(v, {})
<1>1. Waiting(v) \subseteq Kept(v)
  BY DEF Waiting, Kept
<1>2. EntriesCued(v, {}) /\ Unannounced(v, {})
  BY <1>1 DEF Fit, EntriesCued, Unannounced
<1>. QED BY <1>2 DEF Fit

\* What holds for every nonce holds for all but some.
LEMMA FitWith ==
  ASSUME NEW v, NEW N, Fit(v, {})
  PROVE  Fit(v, N)
  BY DEF Fit, EntriesCued, Unannounced

\* The session of an entry is that of its nonce.
LEMMA ServedNonce ==
  ASSUME NEW S \in Screens, NEW v \in Views(S), SessionServed(v), NEW n
  PROVE  /\ EpochOf[n] # v.sessionEpoch => \A e \in Paired(v) : e.nonce # n
         /\ EpochOf[n] = v.sessionEpoch => \A e \in ToSet(v.quarantined) : e.nonce # n
<1>1. /\ ToSet(v.anchors) \subseteq RealAnchors(S) /\ ToSet(v.bindings) \subseteq RealBindings(S)
      /\ ToSet(v.confirmations) \subseteq Confirmations /\ ToSet(v.quarantined) \subseteq RealAnchors(S)
  BY ViewIs, HasIs
<1>2. \A e \in Paired(v) \cup ToSet(v.quarantined) : e.epoch = EpochOf[e.nonce]
  BY <1>1, Entries DEF Paired
<1>. QED BY <1>2 DEF SessionServed

\* quarantine changes the parked marks, or disposes of the oldest.
LEMMA QuarantineTyped ==
  ASSUME NEW S \in Screens, NEW v \in Views(S), NEW a \in RealAnchors(S), NEW w, w = quarantine(v, a)
  PROVE  /\ w \in Views(S) /\ (FewTombstones(v) => FewTombstones(w))
         /\ w.sessionEpoch = v.sessionEpoch /\ w.cues \subseteq v.cues
         /\ w.markers \subseteq v.markers /\ Loose(w) \subseteq Loose(v)
<1> DEFINE u == [v EXCEPT !.quarantined = Append(@, a)]
           oldest == Head(u.quarantined)
           d == disposeMarker(u, oldest.marker)
           t == [d EXCEPT !.quarantined = Without(@, oldest.nonce)]
<1>1. Append(v.quarantined, a) \in Seq(RealAnchors(S))
  BY ViewIs, AppendIs
<1>2. /\ u \in Views(S) /\ u.sessionEpoch = v.sessionEpoch /\ u.cues = v.cues /\ u.markers = v.markers
      /\ u.rejected = v.rejected /\ u.quarantined = Append(v.quarantined, a)
  BY <1>1 DEF Views
<1>3. w = IF Has(v.quarantined, a.nonce) THEN v ELSE IF Len(u.quarantined) <= MaxPending THEN u ELSE t
  BY DEF quarantine
<1>4. Loose(u) = Loose(v) /\ (FewTombstones(v) => FewTombstones(u))
  BY <1>2 DEF Loose, FewTombstones
<1> HIDE DEF u
<1>5. /\ d \in Views(S) /\ (FewTombstones(u) => FewTombstones(d))
      /\ d.sessionEpoch = u.sessionEpoch /\ d.cues \subseteq u.cues /\ d.markers \subseteq u.markers
      /\ Loose(d) \subseteq Loose(u)
  BY <1>2, DisposeIs
<1> HIDE DEF d
<1>6. Without(d.quarantined, oldest.nonce) \in Seq(RealAnchors(S))
  BY <1>5, ViewIs, WithoutIs
<1>7. /\ t \in Views(S) /\ t.sessionEpoch = d.sessionEpoch /\ t.cues = d.cues /\ t.markers = d.markers
      /\ t.rejected = d.rejected
  BY <1>5, <1>6 DEF Views
<1>8. Loose(t) = Loose(d) /\ (FewTombstones(d) => FewTombstones(t))
  BY <1>7 DEF Loose, FewTombstones
<1> HIDE DEF t
<1>. QED BY <1>2, <1>3, <1>4, <1>5, <1>7, <1>8

\* A frame of a session that is not served is parked; the cue is set afterwards.
LEMMA QuarantineFits ==
  ASSUME NEW S \in Screens, NEW v \in Views(S), NEW a \in RealAnchors(S), NEW w, w = quarantine(v, a),
         Fit(v, {}), Told(v), Small(v), ~Has(v.quarantined, a.nonce),
         a.epoch # v.sessionEpoch, v.sessionEpoch # NoEpoch,
         a.marker \in v.markers, \A c \in v.cues : c.marker # a.marker
  PROVE  /\ Fit(w, {a.nonce}) /\ Told(w) /\ Small(w) /\ a.marker \in w.markers
         /\ \A e \in Kept(v) : e.nonce # a.nonce
         /\ \A e \in Kept(w) : e.nonce = a.nonce => e.marker = a.marker /\ Has(w.quarantined, a.nonce)
<1> DEFINE n == a.nonce
           u == [v EXCEPT !.quarantined = Append(@, a)]
           oldest == Head(u.quarantined)
           d == disposeMarker(u, oldest.marker)
           t == [d EXCEPT !.quarantined = Without(@, oldest.nonce)]
<1>0. /\ v.quarantined \in Seq(RealAnchors(S)) /\ MaxPending \in Nat \ {0}
      /\ Len(v.quarantined) \in Nat /\ Len(v.quarantined) <= MaxPending
      /\ EpochOf[n] # v.sessionEpoch
  BY ViewIs, BoundsAssumption, Entries DEF Small
<1>1. /\ Append(v.quarantined, a) \in Seq(RealAnchors(S))
      /\ Len(Append(v.quarantined, a)) = Len(v.quarantined) + 1
      /\ ToSet(Append(v.quarantined, a)) = ToSet(v.quarantined) \cup {a}
      /\ Distinct(Append(v.quarantined, a))
  BY <1>0, AppendIs DEF Fit, DistinctMaps
<1>2. /\ u \in Views(S) /\ u.sessionEpoch = v.sessionEpoch /\ u.cues = v.cues /\ u.markers = v.markers
      /\ u.anchors = v.anchors /\ u.bindings = v.bindings /\ u.confirmations = v.confirmations
      /\ u.rail = v.rail /\ u.quarantined = Append(v.quarantined, a)
  BY <1>1 DEF Views
<1>3. w = IF Len(u.quarantined) <= MaxPending THEN u ELSE t
  BY DEF quarantine
<1> HIDE DEF u, n
<1>4. \A e \in Kept(v) : e.nonce # n
  <2>1. \A e \in Paired(v) : e.nonce # n
    BY <1>0, ServedNonce DEF Fit
  <2>2. \A e \in ToSet(v.quarantined) : e.nonce # n
    BY <1>0, HasIs DEF n
  <2>. QED BY <2>1, <2>2 DEF Kept, Paired
<1>5. Kept(u) = Kept(v) \cup {a} /\ Waiting(u) = Waiting(v) \cup {a} /\ Paired(u) = Paired(v)
  BY <1>1, <1>2 DEF Kept, Waiting, Paired
<1>6. Fit(u, {n})
  <2>1. DistinctMaps(u) /\ CuesLive(u) /\ OneMark(u)
    BY <1>1, <1>2 DEF Fit, DistinctMaps, CuesLive, OneMark
  <2>2. EntriesCued(u, {n}) /\ Unannounced(u, {n})
    BY <1>2, <1>5 DEF Fit, EntriesCued, Unannounced, n
  <2>3. SessionServed(u)
    BY <1>1, <1>2, <1>5 DEF Fit, SessionServed
  <2>. QED BY <2>1, <2>2, <2>3 DEF Fit
<1>7. Told(u) /\ Unbound(u, {n})
  BY <1>2, <1>4 DEF Told, Unbound, Kept
<1>8. \A e \in Kept(u) : e.nonce = n => e.marker = a.marker
  BY <1>4, <1>5
<1>8a. ASSUME NEW x \in Views(S), Fewer(u, x), NEW e \in Kept(x), e.nonce = n
       PROVE  Has(x.quarantined, n)
  <2>1. \A y \in ToSet(u.anchors) \cup ToSet(u.bindings) : y.nonce # n
    BY <1>2, <1>4 DEF Kept
  <2>2. e \in ToSet(x.quarantined)
    BY <1>8a, <2>1 DEF Kept, Fewer
  <2>. QED BY <1>8a, <2>2, ViewIs, HasIs
<1>8b. Fewer(u, u)
  BY <1>2, LensIs DEF Fewer
<1>9. CASE Len(u.quarantined) <= MaxPending
  <2>1. Small(u)
    BY <1>2, <1>9 DEF Small
  <2>2. \A e \in Kept(u) : e.nonce = n => Has(u.quarantined, n)
    BY <1>2, <1>8a, <1>8b
  <2>. QED BY <1>2, <1>3, <1>4, <1>6, <1>7, <1>8, <1>9, <2>1, <2>2 DEF n
<1>10. CASE ~(Len(u.quarantined) <= MaxPending)
  <2>1. /\ Len(v.quarantined) = MaxPending /\ v.quarantined # <<>>
        /\ Len(u.quarantined) = MaxPending + 1
    BY <1>0, <1>1, <1>2, <1>10
  <2>2. oldest \in ToSet(v.quarantined)
    <3>1. Append(v.quarantined, a)[1] = v.quarantined[1] /\ 1 \in 1 .. Len(v.quarantined)
      BY <1>0, <2>1, AppendProperties
    <3>2. oldest = v.quarantined[1]
      BY <1>1, <1>2, <3>1, HeadTailProperties
    <3>. QED BY <1>0, <3>1, <3>2, HasIs
  <2>3. oldest \in Kept(u) /\ oldest \in Kept(v) /\ oldest.nonce # n
    BY <1>4, <1>5, <2>2 DEF Kept
  <2> HIDE DEF oldest
  <2>4. /\ d \in Views(S) /\ d.markers = u.markers \ {oldest.marker} /\ d.sessionEpoch = u.sessionEpoch
    BY <1>2, DisposeIs
  <2>5. /\ Fit(d, {n}) /\ Told(d) /\ Unbound(d, {n}) /\ Fewer(u, d)
        /\ \A e \in Kept(d) : e.nonce \notin {n} => e.marker # oldest.marker
        /\ \/ ToSet(d.quarantined) = ToSet(u.quarantined)
           \/ Len(d.quarantined) < Len(u.quarantined)
    BY <1>2, <1>6, <1>7, DisposeFits
  <2> HIDE DEF d
  <2>6. oldest \notin ToSet(d.quarantined)
    BY <2>3, <2>5 DEF Kept
  <2>7. Len(d.quarantined) < Len(u.quarantined)
    BY <1>1, <1>2, <2>2, <2>5, <2>6
  <2>8. d.quarantined \in Seq(RealAnchors(S)) /\ Len(d.quarantined) \in Nat
    BY <2>4, ViewIs
  <2>9. /\ Without(d.quarantined, oldest.nonce) \in Seq(RealAnchors(S))
        /\ Len(Without(d.quarantined, oldest.nonce)) <= Len(d.quarantined)
        /\ ToSet(Without(d.quarantined, oldest.nonce)) \subseteq ToSet(d.quarantined)
        /\ Distinct(Without(d.quarantined, oldest.nonce))
    BY <2>5, <2>8, WithoutIs DEF Fit, DistinctMaps
  <2>10. /\ t \in Views(S) /\ t.sessionEpoch = d.sessionEpoch /\ t.cues = d.cues /\ t.markers = d.markers
         /\ t.anchors = d.anchors /\ t.bindings = d.bindings /\ t.confirmations = d.confirmations
         /\ t.rail = d.rail /\ t.quarantined = Without(d.quarantined, oldest.nonce)
    BY <2>4, <2>9 DEF Views
  <2> HIDE DEF t
  <2>11. DistinctMaps(t) /\ Fewer(d, t)
    <3>1. /\ d.anchors \in Seq(RealAnchors(S)) /\ d.bindings \in Seq(RealBindings(S))
          /\ d.confirmations \in Seq(Confirmations)
      BY <2>4, ViewIs
    <3>. QED BY <2>5, <2>9, <2>10, <3>1 DEF Fit, DistinctMaps, Fewer
  <2>12. Fit(t, {n})
    BY <2>5, <2>10, <2>11, FewerFits
  <2>13. Told(t)
    BY <2>5, <2>10 DEF Told
  <2>14. Small(t)
    <3>1. /\ Len(u.anchors) <= MaxPending /\ Len(u.confirmations) <= MaxPending
          /\ Len(u.bindings) <= MaxBindings
      BY <1>2 DEF Small
    <3>2. /\ Len(u.anchors) \in Nat /\ Len(d.anchors) \in Nat /\ MaxBindings \in Nat
          /\ Len(u.bindings) \in Nat /\ Len(d.bindings) \in Nat
          /\ Len(u.confirmations) \in Nat /\ Len(d.confirmations) \in Nat
      BY <1>2, <2>4, LensIs
    <3>3. Len(t.quarantined) \in Nat /\ Len(t.quarantined) <= MaxPending
      BY <1>0, <2>1, <2>7, <2>8, <2>9, <2>10
    <3>4. /\ Len(d.anchors) <= Len(u.anchors) /\ Len(d.confirmations) <= Len(u.confirmations)
          /\ Len(d.bindings) <= Len(u.bindings)
      BY <2>5 DEF Fewer
    <3>. QED BY <1>0, <2>10, <3>1, <3>2, <3>3, <3>4 DEF Small
  <2>15. a.marker \in t.markers
    <3>1. \E c \in v.cues : c.marker = oldest.marker
      BY <2>3 DEF Fit, EntriesCued
    <3>. QED BY <1>2, <2>4, <2>10, <3>1
  <2>16. Kept(t) \subseteq Kept(u)
    BY <2>5, <2>11 DEF Kept, Fewer
  <2>17. \A e \in Kept(t) : e.nonce = n => Has(t.quarantined, n)
    <3>1. Fewer(u, t)
      BY <1>2, <2>4, <2>5, <2>10, <2>11, FewerThen
    <3>. QED BY <1>8a, <2>10, <3>1
  <2>. QED BY <1>3, <1>4, <1>8, <1>10, <2>12, <2>13, <2>14, <2>15, <2>16, <2>17 DEF n
<1>. QED BY <1>9, <1>10

-----------------------------------------------------------------------------
(* A mark is observed. *)

Refused(u) == [accepted |-> FALSE, view |-> u]
Taken(u) == [accepted |-> TRUE, view |-> u]
WithAnchor(w, a) == [w EXCEPT !.anchors = Append(@, a)]
Consumed(w, n) == [w EXCEPT !.confirmations = Without(@, n)]
WithBinding(w, a) == [w EXCEPT !.bindings = Append(@, Binding(a))]

\* What observeAnchor may do.
LEMMA ObserveCases ==
  ASSUME NEW v, NEW a, NEW n, n = a.nonce, NEW w, w = acceptSequence(v, a),
         NEW o, o = observeAnchor(v, a)
  PROVE  \/ o = Refused(v)
         \/ /\ ~accepts(v, a) /\ w.sessionEpoch # a.epoch
            /\ o = Refused(quarantine(w, a))
         \/ o = Refused(rejectPending(w, n))
         \/ o = Refused(w)
         \/ /\ accepts(v, a) /\ ~Has(w.bindings, n) /\ ~Has(w.anchors, n)
            /\ o = Taken(evictAnchors(WithAnchor(w, a)))
         \/ /\ accepts(v, a) /\ ~Has(w.bindings, n) /\ ~Has(w.anchors, n)
            /\ Has(w.confirmations, n) /\ matches(a, Get(w.confirmations, n))
            /\ o = Taken(evictBindings(WithBinding(Consumed(w, n), a)))
         \/ o = Refused(reject(Consumed(w, n), n))
<1>1. CASE Has(v.rejected, n)
  BY <1>1 DEF observeAnchor, Refused
<1>2. CASE ~Has(v.rejected, n) /\ ~accepts(v, a)
  BY <1>2 DEF observeAnchor, Refused
<1>3. CASE ~Has(v.rejected, n) /\ accepts(v, a)
  BY <1>3 DEF observeAnchor, Refused, Taken, WithAnchor, WithBinding, Consumed
<1>. QED BY <1>1, <1>2, <1>3

\* A confirmation is taken out of its map.
LEMMA ConsumedIs ==
  ASSUME NEW S \in Screens, NEW v \in Views(S), NEW n \in Commands, NEW u, u = Consumed(v, n)
  PROVE  /\ u \in Views(S) /\ SameButEntries(v, u) /\ u.rejected = v.rejected
         /\ u.confirmations = Without(v.confirmations, n)
         /\ u.anchors = v.anchors /\ u.bindings = v.bindings /\ u.quarantined = v.quarantined
         /\ Fewer(v, u) /\ Loose(u) = Loose(v)
         /\ \A N : Fit(v, N) => Fit(u, N)
<1>1. /\ Without(v.confirmations, n) \in Seq(Confirmations)
      /\ Len(Without(v.confirmations, n)) <= Len(v.confirmations)
      /\ ToSet(Without(v.confirmations, n)) \subseteq ToSet(v.confirmations)
      /\ Distinct(v.confirmations) => Distinct(Without(v.confirmations, n))
  BY ViewIs, WithoutIs
<1>2. /\ u \in Views(S) /\ SameButEntries(v, u) /\ u.rejected = v.rejected
      /\ u.confirmations = Without(v.confirmations, n)
      /\ u.anchors = v.anchors /\ u.bindings = v.bindings /\ u.quarantined = v.quarantined
  BY <1>1 DEF Consumed, Views, SameButEntries
<1>3. Fewer(v, u)
  BY <1>1, <1>2, LensIs DEF Fewer
<1>4. DistinctMaps(v) => DistinctMaps(u)
  BY <1>1, <1>2 DEF DistinctMaps
<1>5. \A N : Fit(v, N) => Fit(u, N)
  BY <1>2, <1>3, <1>4, FewerFits DEF SameButEntries, Fit
<1>. QED BY <1>2, <1>3, <1>5 DEF Loose, SameButEntries

\* An anchor is put into its map.
LEMMA WithAnchorIs ==
  ASSUME NEW S \in Screens, NEW v \in Views(S), NEW a \in RealAnchors(S), NEW u, u = WithAnchor(v, a)
  PROVE  /\ u \in Views(S) /\ SameButEntries(v, u) /\ u.rejected = v.rejected
         /\ u.confirmations = v.confirmations /\ u.bindings = v.bindings
         /\ u.quarantined = v.quarantined
         /\ ToSet(u.anchors) = ToSet(v.anchors) \cup {a}
         /\ Len(u.anchors) = Len(v.anchors) + 1 /\ Loose(u) = Loose(v)
         /\ Distinct(v.anchors) /\ ~Has(v.anchors, a.nonce) => Distinct(u.anchors)
<1>1. /\ Append(v.anchors, a) \in Seq(RealAnchors(S))
      /\ Len(Append(v.anchors, a)) = Len(v.anchors) + 1
      /\ ToSet(Append(v.anchors, a)) = ToSet(v.anchors) \cup {a}
      /\ Distinct(v.anchors) /\ ~Has(v.anchors, a.nonce) => Distinct(Append(v.anchors, a))
  BY ViewIs, AppendIs
<1>2. /\ u \in Views(S) /\ SameButEntries(v, u) /\ u.rejected = v.rejected
      /\ u.confirmations = v.confirmations /\ u.bindings = v.bindings
      /\ u.quarantined = v.quarantined /\ u.anchors = Append(v.anchors, a)
  BY <1>1 DEF WithAnchor, Views, SameButEntries
<1>. QED BY <1>1, <1>2 DEF Loose, SameButEntries

\* A binding is put into its map.
LEMMA WithBindingIs ==
  ASSUME NEW S \in Screens, NEW v \in Views(S), NEW a \in RealAnchors(S), Binding(a) \in RealBindings(S),
         NEW u, u = WithBinding(v, a)
  PROVE  /\ u \in Views(S) /\ SameButEntries(v, u) /\ u.rejected = v.rejected
         /\ u.confirmations = v.confirmations /\ u.anchors = v.anchors
         /\ u.quarantined = v.quarantined /\ Loose(u) = Loose(v)
         /\ u.bindings = Append(v.bindings, Binding(a))
         /\ Len(u.bindings) = Len(v.bindings) + 1
         /\ Distinct(v.bindings) /\ ~Has(v.bindings, a.nonce) => Distinct(u.bindings)
         /\ v.bindings # <<>> => Head(u.bindings) \in ToSet(v.bindings)
<1> DEFINE b == Binding(a)
<1>0. v.bindings \in Seq(RealBindings(S)) /\ Len(v.bindings) \in Nat
  BY ViewIs, LensIs
<1>1. /\ Append(v.bindings, b) \in Seq(RealBindings(S))
      /\ Len(Append(v.bindings, b)) = Len(v.bindings) + 1
      /\ ToSet(Append(v.bindings, b)) = ToSet(v.bindings) \cup {b}
      /\ Distinct(v.bindings) /\ ~Has(v.bindings, b.nonce) => Distinct(Append(v.bindings, b))
  BY <1>0, AppendIs
<1>2. /\ u \in Views(S) /\ SameButEntries(v, u) /\ u.rejected = v.rejected
      /\ u.confirmations = v.confirmations /\ u.anchors = v.anchors
      /\ u.quarantined = v.quarantined /\ u.bindings = Append(v.bindings, b)
  BY <1>1 DEF WithBinding, Views, SameButEntries
<1>3. b.nonce = a.nonce
  BY Entries
<1>4. ASSUME v.bindings # <<>>
      PROVE  Head(u.bindings) \in ToSet(v.bindings)
  <2>1. 1 \in 1 .. Len(v.bindings)
    BY <1>0, <1>4
  <2>2. Append(v.bindings, b)[1] = v.bindings[1]
    BY <1>0, <2>1, AppendProperties
  <2>3. Append(v.bindings, b) # <<>>
    BY <1>0, <1>1
  <2>4. Head(u.bindings) = v.bindings[1]
    BY <1>1, <1>2, <2>2, <2>3, HeadTailProperties
  <2>. QED BY <1>0, <2>1, <2>4 DEF ToSet
<1>. QED BY <1>1, <1>2, <1>3, <1>4 DEF Loose, SameButEntries

\* observeAnchor leaves a view.
LEMMA ObserveTyped ==
  ASSUME NEW S \in Screens, NEW v \in Views(S), NEW a \in RealAnchors(S), NEW o, o = observeAnchor(v, a)
  PROVE  /\ o.view \in Views(S)
         /\ FewTombstones(v) => FewTombstones(o.view)
         /\ o.view.cues \subseteq v.cues /\ Loose(o.view) \subseteq Loose(v)
         /\ v.sessionEpoch = NoEpoch \/ o.view.sessionEpoch = v.sessionEpoch
<1> DEFINE n == a.nonce
           w == acceptSequence(v, a)
           OK(u) == /\ u \in Views(S) /\ (FewTombstones(w) => FewTombstones(u))
                    /\ u.cues \subseteq w.cues /\ Loose(u) \subseteq Loose(w)
                    /\ u.sessionEpoch = w.sessionEpoch
<1>1. /\ n \in Commands /\ a.epoch \in Epochs /\ a.epoch # NoEpoch /\ a.seq \in Sequences0
  BY Entries
<1>2. /\ w \in Views(S) /\ w.cues = v.cues /\ Loose(w) = Loose(v)
      /\ FewTombstones(v) => FewTombstones(w)
      /\ v.sessionEpoch = NoEpoch \/ w.sessionEpoch = v.sessionEpoch
  BY <1>1, AcceptIs
<1> HIDE DEF w
<1>3. OK(w)
  BY <1>2
<1>4. OK(quarantine(w, a))
  BY <1>2, QuarantineTyped
<1>5. OK(rejectPending(w, n))
  BY <1>1, <1>2, RejectPendingIs
<1>6. OK(evictAnchors(WithAnchor(w, a)))
  <2> DEFINE u == WithAnchor(w, a)
             t == evictAnchors(u)
  <2>1. u \in Views(S) /\ SameButEntries(w, u) /\ u.rejected = w.rejected /\ Loose(u) = Loose(w)
    BY <1>2, WithAnchorIs
  <2> HIDE DEF u
  <2>2. t \in Views(S) /\ (FewTombstones(u) => FewTombstones(t)) /\ SameButEntries(u, t)
    BY <2>1, EvictAnchorsIs
  <2>. QED BY <2>1, <2>2 DEF SameButEntries, FewTombstones, Loose, u
<1>7. ASSUME Has(w.confirmations, n), matches(a, Get(w.confirmations, n))
      PROVE  OK(evictBindings(WithBinding(Consumed(w, n), a)))
  <2> DEFINE s == Consumed(w, n)
             u == WithBinding(s, a)
             t == evictBindings(u)
  <2>1. s \in Views(S) /\ SameButEntries(w, s) /\ s.rejected = w.rejected /\ Loose(s) = Loose(w)
    BY <1>1, <1>2, ConsumedIs
  <2>2. Binding(a) \in RealBindings(S)
    BY <1>2, <1>7, GetIs, ViewIs, Entries
  <2> HIDE DEF s
  <2>3. u \in Views(S) /\ SameButEntries(s, u) /\ u.rejected = s.rejected /\ Loose(u) = Loose(s)
    BY <2>1, <2>2, WithBindingIs
  <2> HIDE DEF u
  <2>4. t \in Views(S) /\ (FewTombstones(u) => FewTombstones(t)) /\ SameButEntries(u, t)
    BY <2>3, EvictBindingsIs
  <2>. QED BY <2>1, <2>3, <2>4 DEF SameButEntries, FewTombstones, Loose, u, s
<1>8. OK(reject(Consumed(w, n), n))
  <2> DEFINE s == Consumed(w, n)
  <2>1. s \in Views(S) /\ SameButEntries(w, s) /\ s.rejected = w.rejected /\ Loose(s) = Loose(w)
    BY <1>1, <1>2, ConsumedIs
  <2> HIDE DEF s
  <2>2. reject(s, n) \in Views(S) /\ Alike(s, reject(s, n)) /\ FewTombstones(reject(s, n))
    BY <1>1, <2>1, RejectIs
  <2>. QED BY <2>1, <2>2, AlikeFits DEF SameButEntries, Alike, s
<1>9. \/ o.view = v
      \/ OK(o.view)
  BY <1>3, <1>4, <1>5, <1>6, <1>7, <1>8, ObserveCases DEF w, Refused, Taken
<1>. QED BY <1>2, <1>9

\* What a view is between two events.
Good(v) == Fit(v, {}) /\ Told(v) /\ Small(v) /\ FewTombstones(v)

\* A nonce of the session that is neither bound nor waiting is not kept at all.
LEMMA AcceptedFits ==
  ASSUME NEW S \in Screens, NEW w \in Views(S), NEW a \in RealAnchors(S), NEW n, n = a.nonce,
         Good(w), w.sessionEpoch = a.epoch, ~Has(w.bindings, n), ~Has(w.anchors, n)
  PROVE  \A e \in Kept(w) : e.nonce # n
<1>1. \A e \in ToSet(w.quarantined) : e.nonce # n
  BY Entries, ServedNonce DEF Good, Fit
<1>2. \A e \in ToSet(w.anchors) \cup ToSet(w.bindings) : e.nonce # n
  BY ViewIs, HasIs
<1>. QED BY <1>1, <1>2 DEF Kept

\* An accepted mark waits for its confirmation.
LEMMA AddAnchor ==
  ASSUME NEW S \in Screens, NEW w \in Views(S), NEW a \in RealAnchors(S), NEW n, n = a.nonce,
         Good(w), w.sessionEpoch = a.epoch, ~Has(w.bindings, n), ~Has(w.anchors, n),
         NEW t, t = evictAnchors(WithAnchor(w, a))
  PROVE  /\ Fit(t, {n}) /\ Told(t) /\ Small(t) /\ FewTombstones(t)
         /\ t.markers = w.markers
         /\ \A e \in Kept(t) : e.nonce = n => e.marker = a.marker
<1> DEFINE u == WithAnchor(w, a)
<1>1. \A e \in Kept(w) : e.nonce # n
  BY AcceptedFits
<1>2. /\ u \in Views(S) /\ SameButEntries(w, u) /\ u.rejected = w.rejected
      /\ u.confirmations = w.confirmations /\ u.bindings = w.bindings
      /\ u.quarantined = w.quarantined
      /\ ToSet(u.anchors) = ToSet(w.anchors) \cup {a}
      /\ Len(u.anchors) = Len(w.anchors) + 1
  BY WithAnchorIs
<1>2a. Distinct(w.anchors) => Distinct(u.anchors)
  BY WithAnchorIs
<1> HIDE DEF u
<1>3. Kept(u) = Kept(w) \cup {a} /\ Waiting(u) = Waiting(w) \cup {a} /\ Paired(u) = Paired(w) \cup {a}
  BY <1>2 DEF Kept, Waiting, Paired
<1>4. Fit(u, {n})
  <2>1. DistinctMaps(u) /\ CuesLive(u)
    BY <1>2, <1>2a DEF Good, Fit, DistinctMaps, CuesLive, SameButEntries
  <2>2. EntriesCued(u, {n}) /\ Unannounced(u, {n})
    BY <1>2, <1>3 DEF Good, Fit, EntriesCued, Unannounced, SameButEntries
  <2>3. SessionServed(u)
    BY <1>2, <1>3, Entries DEF Good, Fit, SessionServed, SameButEntries
  <2>4. OneMark(u)
    <3>1. \A b \in ToSet(w.bindings) : b.nonce # n
      BY <1>1 DEF Kept
    <3>. QED BY <1>2, <3>1 DEF Good, Fit, OneMark
  <2>. QED BY <2>1, <2>2, <2>3, <2>4 DEF Fit
<1>5. /\ t \in Views(S) /\ (FewTombstones(u) => FewTombstones(t))
      /\ (DistinctMaps(u) => DistinctMaps(t)) /\ Fewer(u, t) /\ SameButEntries(u, t)
      /\ Len(u.anchors) <= MaxPending + 1 => Len(t.anchors) <= MaxPending
      /\ t.confirmations = u.confirmations /\ t.bindings = u.bindings
      /\ t.quarantined = u.quarantined
  BY <1>2, EvictAnchorsIs DEF u
<1>6. Fit(t, {n})
  BY <1>4, <1>5, FewerFits DEF Fit, SameButEntries
<1>7. Told(t) /\ FewTombstones(t) /\ t.markers = w.markers
  BY <1>2, <1>5 DEF Good, Told, FewTombstones, SameButEntries
<1>8. Small(t)
  <2>1. Len(u.anchors) <= MaxPending + 1
    BY <1>2, LensIs DEF Good, Small
  <2>. QED BY <1>2, <1>5, <2>1 DEF Good, Small
<1>9. Kept(t) \subseteq Kept(u)
  BY <1>5 DEF Fewer, Kept
<1>. QED BY <1>1, <1>3, <1>6, <1>7, <1>8, <1>9

\* A mark and a confirmation that agree: the binding is new.
LEMMA AddBinding ==
  ASSUME NEW S \in Screens, NEW w \in Views(S), NEW a \in RealAnchors(S), NEW n, n = a.nonce,
         Good(w), w.sessionEpoch = a.epoch, ~Has(w.bindings, n), Binding(a) \in RealBindings(S),
         ~Has(w.anchors, n), NEW t, t = evictBindings(WithBinding(w, a))
  PROVE  /\ t \in Views(S) /\ Fit(t, {n}) /\ Small(t) /\ FewTombstones(t) /\ Has(t.bindings, n)
         /\ SameButEntries(w, t) /\ Loose(t) = Loose(w)
         /\ \A e \in Kept(t) : e.nonce = n => e.marker = a.marker
<1> DEFINE b == Binding(a)
<1>1. \A e \in Kept(w) : e.nonce # n
  BY AcceptedFits
<1>0. b.nonce = n /\ b.marker = a.marker /\ b.epoch = a.epoch
  BY Entries
<1>u. PICK u : u = WithBinding(w, a)
  OBVIOUS
<1>2. /\ u \in Views(S) /\ SameButEntries(w, u) /\ u.rejected = w.rejected
      /\ u.confirmations = w.confirmations /\ u.anchors = w.anchors
      /\ u.quarantined = w.quarantined
      /\ Len(u.bindings) = Len(w.bindings) + 1
      /\ Loose(u) = Loose(w)
  BY <1>u, WithBindingIs
<1>2a. /\ Distinct(w.bindings) => Distinct(u.bindings)
       /\ w.bindings # <<>> => Head(u.bindings) \in ToSet(w.bindings)
  BY <1>u, WithBindingIs
<1>2b. ToSet(u.bindings) = ToSet(w.bindings) \cup {b}
  <2>1. u.bindings = Append(w.bindings, b)
    BY <1>u, WithBindingIs
  <2> HIDE DEF b
  <2>2. b \in RealBindings(S) /\ w.bindings \in Seq(RealBindings(S))
    BY ViewIs DEF b
  <2>. QED BY <2>1, <2>2, AppendIs
<1> HIDE DEF b
<1>3. Kept(u) = Kept(w) \cup {b} /\ Waiting(u) = Waiting(w) /\ Paired(u) = Paired(w) \cup {b}
  BY <1>2, <1>2b DEF Kept, Waiting, Paired
<1>4. Fit(u, {n})
  <2>1. DistinctMaps(u) /\ CuesLive(u)
    BY <1>2, <1>2a DEF Good, Fit, DistinctMaps, CuesLive, SameButEntries
  <2>2. EntriesCued(u, {n}) /\ Unannounced(u, {n})
    BY <1>0, <1>2, <1>3 DEF Good, Fit, EntriesCued, Unannounced, SameButEntries
  <2>3. SessionServed(u)
    BY <1>0, <1>2, <1>3 DEF Good, Fit, SessionServed, SameButEntries
  <2>4. OneMark(u)
    <3>1. \A e \in ToSet(w.anchors) : e.nonce # n
      BY <1>1 DEF Kept
    <3>. QED BY <1>0, <1>2, <1>2b, <3>1 DEF Good, Fit, OneMark
  <2>. QED BY <2>1, <2>2, <2>3, <2>4 DEF Fit
<1>5. /\ t \in Views(S) /\ (FewTombstones(u) => FewTombstones(t))
      /\ (DistinctMaps(u) => DistinctMaps(t)) /\ Fewer(u, t) /\ SameButEntries(u, t)
      /\ Len(u.bindings) <= MaxBindings + 1 => Len(t.bindings) <= MaxBindings
      /\ t.anchors = u.anchors /\ t.confirmations = u.confirmations
      /\ t.quarantined = u.quarantined
      /\ \A e \in ToSet(u.bindings) :
              e \in ToSet(t.bindings) \/ (e = Head(u.bindings) /\ Len(u.bindings) > MaxBindings)
  BY <1>u, <1>2, EvictBindingsIs
<1>6. Fit(t, {n})
  BY <1>4, <1>5, FewerFits DEF Fit, SameButEntries
<1>7. FewTombstones(t) /\ SameButEntries(w, t) /\ Loose(t) = Loose(w)
  BY <1>2, <1>5 DEF Good, FewTombstones, SameButEntries, Loose
<1>8. Small(t)
  <2>1. Len(u.bindings) <= MaxBindings + 1
    BY <1>2, LensIs DEF Good, Small
  <2>. QED BY <1>2, <1>5, <2>1 DEF Good, Small
<1>9. Has(t.bindings, n)
  <2>1. b \in ToSet(t.bindings)
    <3>1. SUFFICES ASSUME b = Head(u.bindings), Len(u.bindings) > MaxBindings
                   PROVE  FALSE
      BY <1>2b, <1>5
    <3>2. w.bindings \in Seq(RealBindings(S)) /\ w.bindings # <<>>
      BY <1>2, <3>1, ViewIs, LensIs
    <3>3. b \in Kept(w)
      BY <1>2a, <3>1, <3>2 DEF Kept
    <3>. QED BY <1>0, <1>1, <3>3
  <2>. QED BY <1>0, <1>5, <2>1, ViewIs, HasIs
<1>10. Kept(t) \subseteq Kept(u)
  BY <1>5 DEF Fewer, Kept
<1>. QED BY <1>0, <1>1, <1>3, <1>5, <1>6, <1>7, <1>8, <1>9, <1>10

\* Taking a confirmation out breaks nothing.
LEMMA ConsumedGood ==
  ASSUME NEW S \in Screens, NEW v \in Views(S), NEW n \in Commands, Good(v), NEW u, u = Consumed(v, n)
  PROVE  u \in Views(S) /\ Good(u) /\ Kept(u) = Kept(v)
<1>1. /\ u \in Views(S) /\ SameButEntries(v, u) /\ u.rejected = v.rejected
      /\ u.anchors = v.anchors /\ u.bindings = v.bindings /\ u.quarantined = v.quarantined
      /\ Fewer(v, u)
      /\ \A N : Fit(v, N) => Fit(u, N)
  BY ConsumedIs
<1>2. Told(u) /\ FewTombstones(u) /\ Kept(u) = Kept(v)
  BY <1>1 DEF Good, Told, FewTombstones, SameButEntries, Kept
<1>. QED BY <1>1, <1>2, FewerSmall DEF Good

\* What becomes of a mark that is observed: it is refused and nothing of it is kept, or
\* its cue is the only thing that is missing.
LEMMA ObserveFits ==
  ASSUME NEW S \in Screens, NEW v \in Views(S), Good(v), NEW a \in RealAnchors(S), NEW n, n = a.nonce,
         a.marker \in v.markers, \A c \in v.cues : c.marker # a.marker,
         NEW o, o = observeAnchor(v, a), NEW w, w = o.view
  PROVE  /\ Small(w) /\ FewTombstones(w)
         /\ \/ ~o.accepted /\ Good(w) /\ (Has(w.quarantined, n) => Has(v.quarantined, n))
            \/ /\ ~o.accepted => /\ ~Has(v.quarantined, n)
                                   /\ \A e \in Kept(w) : e.nonce = n => Has(w.quarantined, n)
               /\ Fit(w, {n}) /\ a.marker \in w.markers
               /\ \A e \in Kept(v) : e.nonce # n
               /\ \A e \in Kept(w) : e.nonce = n => e.marker = a.marker
               /\ Told(w) \/ (o.accepted /\ Has(w.bindings, n))
<1> DEFINE r == acceptSequence(v, a)
<1>1. /\ n \in Commands /\ a.epoch \in Epochs /\ a.epoch # NoEpoch /\ a.seq \in Sequences0
  BY Entries
<1>2. /\ r \in Views(S) /\ r.rejected = v.rejected
      /\ r.sessionEpoch = IF v.sessionEpoch = NoEpoch THEN a.epoch ELSE v.sessionEpoch
      /\ r.anchors = v.anchors /\ r.confirmations = v.confirmations
      /\ r.bindings = v.bindings /\ r.quarantined = v.quarantined
      /\ r.cues = v.cues /\ r.markers = v.markers /\ Kept(r) = Kept(v)
  BY <1>1, AcceptIs
<1>3. Good(r)
  BY <1>1, AcceptIs DEF Good
<1>4. accepts(v, a) => r.sessionEpoch = a.epoch
  BY <1>2 DEF accepts
<1> HIDE DEF r
<1>5. CASE o = Refused(v) \/ o = Refused(r)
  BY <1>2, <1>3, <1>5 DEF Refused, Good
<1>6. CASE r.sessionEpoch # a.epoch /\ o = Refused(quarantine(r, a))
  <2>1. CASE Has(r.quarantined, n)
    BY <1>2, <1>3, <1>6, <2>1 DEF Refused, quarantine, Good
  <2>2. CASE ~Has(r.quarantined, n)
    <3>1. r.sessionEpoch # NoEpoch
      BY <1>1, <1>2
    <3>2. w = quarantine(r, a) /\ ~o.accepted
      BY <1>6 DEF Refused
    <3>3. /\ Fit(w, {n}) /\ Told(w) /\ Small(w) /\ a.marker \in w.markers
          /\ \A e \in Kept(r) : e.nonce # n
          /\ \A e \in Kept(w) : e.nonce = n => e.marker = a.marker /\ Has(w.quarantined, n)
      BY <1>2, <1>3, <1>6, <2>2, <3>1, <3>2, QuarantineFits DEF Good
    <3>4. FewTombstones(w)
      BY <1>2, <1>3, <3>2, QuarantineTyped DEF Good
    <3>. QED BY <1>2, <2>2, <3>2, <3>3, <3>4
  <2>. QED BY <2>1, <2>2
<1>7. CASE o = Refused(rejectPending(r, n))
  <2>1. w = rejectPending(r, n) /\ ~o.accepted
    BY <1>7 DEF Refused
  <2>2. w \in Views(S) /\ FewTombstones(w) /\ Fit(w, {}) /\ Told(w) /\ Fewer(r, w)
    BY <1>1, <1>2, <1>3, <2>1, RejectPendingIs DEF Good
  <2>3. Small(w)
    BY <1>2, <1>3, <2>2, FewerSmall DEF Good
  <2>4. Has(w.quarantined, n) => Has(v.quarantined, n)
    <3>1. w.quarantined \in Seq(RealAnchors(S)) /\ v.quarantined \in Seq(RealAnchors(S))
      BY <2>2, ViewIs
    <3>2. ToSet(w.quarantined) \subseteq ToSet(v.quarantined)
      BY <1>2, <2>2 DEF Fewer
    <3>. QED BY <3>1, <3>2, HasIs
  <2>. QED BY <2>1, <2>2, <2>3, <2>4 DEF Good
<1>8. CASE /\ accepts(v, a) /\ ~Has(r.bindings, n) /\ ~Has(r.anchors, n)
           /\ o = Taken(evictAnchors(WithAnchor(r, a)))
  <2>1. w = evictAnchors(WithAnchor(r, a)) /\ o.accepted
    BY <1>8 DEF Taken
  <2>2. /\ Fit(w, {n}) /\ Told(w) /\ Small(w) /\ FewTombstones(w)
        /\ w.markers = r.markers
        /\ \A e \in Kept(w) : e.nonce = n => e.marker = a.marker
    BY <1>2, <1>3, <1>4, <1>8, <2>1, AddAnchor
  <2>3. \A e \in Kept(v) : e.nonce # n
    BY <1>2, <1>3, <1>4, <1>8, AcceptedFits
  <2>. QED BY <1>2, <2>1, <2>2, <2>3
<1>9. CASE /\ accepts(v, a) /\ ~Has(r.bindings, n) /\ ~Has(r.anchors, n)
           /\ Has(r.confirmations, n) /\ matches(a, Get(r.confirmations, n))
           /\ o = Taken(evictBindings(WithBinding(Consumed(r, n), a)))
  <2> DEFINE u == Consumed(r, n)
  <2>1. w = evictBindings(WithBinding(u, a)) /\ o.accepted
    BY <1>9 DEF Taken
  <2>2. u \in Views(S) /\ Good(u) /\ Kept(u) = Kept(r)
    BY <1>1, <1>2, <1>3, ConsumedGood
  <2>3. SameButEntries(r, u) /\ u.anchors = r.anchors /\ u.bindings = r.bindings
    BY <1>1, <1>2, ConsumedIs
  <2>4. Binding(a) \in RealBindings(S)
    BY <1>2, <1>9, GetIs, ViewIs, Entries
  <2> HIDE DEF u
  <2>5. u.sessionEpoch = a.epoch /\ ~Has(u.bindings, n) /\ ~Has(u.anchors, n)
    BY <1>4, <1>9, <2>3 DEF SameButEntries
  <2>6. /\ Fit(w, {n}) /\ Small(w) /\ FewTombstones(w) /\ Has(w.bindings, n)
        /\ SameButEntries(u, w)
        /\ \A e \in Kept(w) : e.nonce = n => e.marker = a.marker
    BY <2>1, <2>2, <2>4, <2>5, AddBinding
  <2>7. \A e \in Kept(v) : e.nonce # n
    BY <1>2, <1>3, <1>4, <1>9, AcceptedFits
  <2>8. a.marker \in w.markers
    BY <1>2, <2>3, <2>6 DEF SameButEntries
  <2>. QED BY <2>1, <2>6, <2>7, <2>8
<1>10. CASE o = Refused(reject(Consumed(r, n), n))
  <2> DEFINE u == Consumed(r, n)
  <2>1. w = reject(u, n) /\ ~o.accepted
    BY <1>10 DEF Refused
  <2>2. u \in Views(S) /\ Good(u) /\ u.quarantined = r.quarantined
    BY <1>1, <1>2, <1>3, ConsumedGood, ConsumedIs
  <2> HIDE DEF u
  <2>3. Alike(u, w) /\ FewTombstones(w)
    BY <1>1, <2>1, <2>2, RejectIs
  <2>4. Good(w) /\ w.quarantined = v.quarantined
    BY <1>2, <2>2, <2>3, AlikeFits DEF Good, Alike
  <2>. QED BY <2>1, <2>4 DEF Good
<1>. QED BY <1>5, <1>6, <1>7, <1>8, <1>9, <1>10, ObserveCases DEF r

\* A binding that the rail has not been told of yet has a cue that will tell.
ToBeTold(v, n) == Has(v.bindings, n) /\ \E c \in v.cues : c.nonce = n /\ ~c.announced

\* Once the cue of a binding is announced, the rail knows.
LEMMA RegisterConfirmedFits ==
  ASSUME NEW S \in Screens, NEW v \in Views(S), Fit(v, {}), Small(v), FewTombstones(v), NEW n,
         Told(v) \/ ToBeTold(v, n), NEW w, w = registerConfirmedVisualCue(v, n)
  PROVE  /\ w \in Views(S) /\ Good(w) /\ Loose(w) = Loose(v) /\ w.sessionEpoch = v.sessionEpoch
<1> DEFINE cue == {c \in v.cues : c.nonce = n /\ c.marker \in v.markers}
           seen == {[c EXCEPT !.announced = TRUE] : c \in cue}
           x == [v EXCEPT !.cues = (@ \ cue) \cup seen]
<1>1. CASE cue = {} \/ ~Has(v.bindings, n) \/ (\A c \in cue : c.announced)
  <2>1. w = v
    BY <1>1 DEF registerConfirmedVisualCue
  <2>2. Told(v)
    <3>1. ASSUME ToBeTold(v, n)
          PROVE  FALSE
      <4>1. PICK c \in v.cues : c.nonce = n /\ ~c.announced
        BY <3>1 DEF ToBeTold
      <4>2. c \in cue
        BY <4>1 DEF Fit, CuesLive
      <4>. QED BY <1>1, <3>1, <4>1, <4>2 DEF ToBeTold
    <3>. QED BY <3>1
  <2>. QED BY <2>1, <2>2 DEF Good
<1>2. CASE ~(cue = {} \/ ~Has(v.bindings, n) \/ (\A c \in cue : c.announced))
  <2>1. w = notifyCommandAnchorSubscribers(x) /\ Has(v.bindings, n)
    BY <1>2 DEF registerConfirmedVisualCue
  <2>2. v.cues \subseteq Cues(S) /\ IsFiniteSet(v.cues)
    BY ViewIs
  <2>3. /\ \A c \in cue : /\ [c EXCEPT !.announced = TRUE] \in Cues(S)
                          /\ [c EXCEPT !.announced = TRUE].nonce = c.nonce
                          /\ [c EXCEPT !.announced = TRUE].marker = c.marker
    BY <2>2 DEF Cues
  <2>4. (v.cues \ cue) \cup seen \subseteq Cues(S)
    BY <2>2, <2>3
  <2>5. IsFiniteSet((v.cues \ cue) \cup seen)
    <3>1. IsFiniteSet(cue) /\ IsFiniteSet(v.cues \ cue)
      <4>1. cue \subseteq v.cues /\ v.cues \ cue \subseteq v.cues
        OBVIOUS
      <4>. QED BY <2>2, <4>1, FS_Subset
    <3>2. IsFiniteSet(seen)
      <4> DEFINE f == [c \in cue |-> [c EXCEPT !.announced = TRUE]]
      <4>1. f \in Surjection(cue, seen)
        BY DEF Surjection
      <4>. QED BY <3>1, <4>1, FS_Surjection
    <3>. QED BY <3>1, <3>2, FS_Union
  <2>6. /\ x \in Views(S) /\ x.cues = (v.cues \ cue) \cup seen /\ x.markers = v.markers
        /\ x.anchors = v.anchors /\ x.confirmations = v.confirmations
        /\ x.bindings = v.bindings /\ x.quarantined = v.quarantined /\ x.rejected = v.rejected
        /\ x.sessionEpoch = v.sessionEpoch
    BY <2>4, <2>5 DEF Views
  <2> HIDE DEF x
  <2>7. \A c \in x.cues : \/ c \in v.cues /\ c \notin cue
                          \/ \E d \in cue : /\ c = [d EXCEPT !.announced = TRUE]
                                            /\ c.nonce = d.nonce /\ c.marker = d.marker
    BY <2>3, <2>6
  <2>8. \A d \in v.cues : \E c \in x.cues : c.nonce = d.nonce /\ c.marker = d.marker
    BY <2>3, <2>6
  <2>9. CuesLive(x)
    <3>1. \A c \in x.cues : c.marker \in x.markers
      BY <2>6, <2>7 DEF Fit, CuesLive
    <3>2. ASSUME NEW c \in x.cues, NEW d \in x.cues, c.nonce = d.nonce \/ c.marker = d.marker
          PROVE  c = d
      <4>1. \A y, z \in v.cues : y.nonce = z.nonce \/ y.marker = z.marker => y = z
        BY DEF Fit, CuesLive
      <4>2. CASE c \in v.cues /\ c \notin cue
        <5>1. CASE d \in v.cues /\ d \notin cue
          BY <3>2, <4>1, <4>2, <5>1
        <5>2. CASE \E z \in cue : d.nonce = z.nonce /\ d.marker = z.marker
          BY <3>2, <4>1, <4>2, <5>2
        <5>. QED BY <2>7, <5>1, <5>2
      <4>3. ASSUME NEW y \in cue, c = [y EXCEPT !.announced = TRUE],
                   c.nonce = y.nonce, c.marker = y.marker
            PROVE  c = d
        <5>1. CASE d \in v.cues /\ d \notin cue
          BY <3>2, <4>1, <4>3, <5>1
        <5>2. ASSUME NEW z \in cue, d = [z EXCEPT !.announced = TRUE],
                     d.nonce = z.nonce, d.marker = z.marker
              PROVE  c = d
          <6>1. y = z
            BY <3>2, <4>1, <4>3, <5>2
          <6>. QED BY <4>3, <5>2, <6>1
        <5>. QED BY <2>7, <5>1, <5>2
      <4>. QED BY <2>7, <4>2, <4>3
    <3>. QED BY <3>1, <3>2 DEF CuesLive
  <2>10. Kept(x) = Kept(v) /\ Waiting(x) = Waiting(v) /\ Paired(x) = Paired(v)
    BY <2>6 DEF Kept, Waiting, Paired
  <2>11. EntriesCued(x, {})
    <3> SUFFICES ASSUME NEW e \in Kept(v)
                 PROVE  \E c \in x.cues : c.nonce = e.nonce /\ c.marker = e.marker
      BY <2>10 DEF EntriesCued
    <3>1. PICK d \in v.cues : d.nonce = e.nonce /\ d.marker = e.marker
      BY DEF Fit, EntriesCued
    <3>. QED BY <2>8, <3>1
  <2>12. \A e \in Waiting(v) : e.nonce # n
    <3>1. PICK b \in ToSet(v.bindings) : b.nonce = n
      BY <2>1, ViewIs, HasIs
    <3>2. b.epoch = v.sessionEpoch
      BY DEF Fit, SessionServed, Paired
    <3>3. b.epoch = EpochOf[n]
      BY <3>1, ViewIs, HasIs, Entries
    <3>4. \A e \in ToSet(v.quarantined) : e.nonce # n
      BY <3>2, <3>3, ServedNonce DEF Fit
    <3>. QED BY <3>1, <3>4 DEF Fit, OneMark, Waiting
  <2>13. Unannounced(x, {})
    <3> SUFFICES ASSUME NEW c \in x.cues, NEW e \in Waiting(v), c.nonce = e.nonce
                 PROVE  ~c.announced
      BY <2>10 DEF Unannounced
    <3>. QED BY <2>7, <2>12 DEF Fit, Unannounced
  <2>14. DistinctMaps(x) /\ OneMark(x) /\ SessionServed(x)
    BY <2>6, <2>10 DEF Fit, DistinctMaps, OneMark, SessionServed
  <2>15. Fit(x, {}) /\ Unbound(x, {})
    BY <2>9, <2>11, <2>13, <2>14 DEF Fit, Unbound
  <2>16. /\ w \in Views(S) /\ Fit(w, {}) /\ Told(w) /\ w.sessionEpoch = x.sessionEpoch
         /\ w.anchors = x.anchors /\ w.confirmations = x.confirmations
         /\ w.bindings = x.bindings /\ w.quarantined = x.quarantined /\ w.rejected = x.rejected
         /\ w.cues = x.cues /\ w.markers = x.markers
    BY <2>1, <2>6, <2>15, NotifyIs
  <2>17. Small(w) /\ FewTombstones(w)
    BY <2>6, <2>16 DEF Small, FewTombstones
  <2>18. Loose(w) = Loose(v)
    <3> HIDE DEF cue, seen
    <3>a. \A c \in w.cues : \E d \in v.cues : c.marker = d.marker
      <4>1. \A d \in cue : d \in v.cues
        BY DEF cue
      <4>. QED BY <2>7, <2>16, <4>1
    <3>b. \A d \in v.cues : \E c \in w.cues : c.marker = d.marker
      BY <2>8, <2>16
    <3>1. {c.marker : c \in w.cues} = {c.marker : c \in v.cues}
      BY <3>a, <3>b
    <3>. QED BY <2>6, <2>16, <3>1 DEF Loose
  <2>. QED BY <2>6, <2>16, <2>17, <2>18 DEF Good
<1>. QED BY <1>1, <1>2

-----------------------------------------------------------------------------
(* A confirmation arrives. *)

Unmarked(w, n) == [w EXCEPT !.anchors = Without(@, n)]
WithConfirmation(w, f) == [w EXCEPT !.confirmations = Append(@, f)]

\* What confirm may do.
LEMMA ConfirmCases ==
  ASSUME NEW v, NEW f, NEW n, n = f.nonce, NEW r, r = acceptSequence(v, f), NEW w, w = confirm(v, f)
  PROVE  \/ w = v
         \/ w = rejectPending(r, n)
         \/ w = r
         \/ /\ accepts(v, f) /\ ~Has(r.confirmations, n)
            /\ w = evictConfirmations(WithConfirmation(r, f))
         \/ /\ accepts(v, f) /\ Has(r.anchors, n) /\ ~Has(r.bindings, n)
            /\ matches(Get(r.anchors, n), f)
            /\ w = evictBindings(WithBinding(Unmarked(r, n), Get(r.anchors, n)))
         \/ /\ accepts(v, f) /\ Has(r.anchors, n)
            /\ w = disposeMarker(reject(Unmarked(r, n), n), Get(r.anchors, n).marker)
<1>1. CASE Has(v.rejected, n)
  BY <1>1 DEF confirm
<1>2. CASE ~Has(v.rejected, n) /\ ~accepts(v, f)
  BY <1>2 DEF confirm
<1>3. CASE ~Has(v.rejected, n) /\ accepts(v, f)
  BY <1>3 DEF confirm, WithConfirmation, WithBinding, Unmarked
<1>. QED BY <1>1, <1>2, <1>3

\* Taking an anchor out breaks nothing.
LEMMA UnmarkedGood ==
  ASSUME NEW S \in Screens, NEW v \in Views(S), NEW n \in Commands, Good(v), NEW u, u = Unmarked(v, n)
  PROVE  /\ u \in Views(S) /\ Good(u) /\ SameButEntries(v, u) /\ u.bindings = v.bindings
         /\ u.quarantined = v.quarantined /\ Loose(u) = Loose(v) /\ ~Has(u.anchors, n)
<1>0. v.anchors \in Seq(RealAnchors(S)) /\ Distinct(v.anchors)
  BY ViewIs DEF Good, Fit, DistinctMaps
<1>1. /\ Without(v.anchors, n) \in Seq(RealAnchors(S))
      /\ Len(Without(v.anchors, n)) <= Len(v.anchors)
      /\ ToSet(Without(v.anchors, n)) \subseteq ToSet(v.anchors)
      /\ Distinct(Without(v.anchors, n))
      /\ \A e \in ToSet(Without(v.anchors, n)) : e.nonce # n
  BY <1>0, WithoutIs
<1>2. /\ u \in Views(S) /\ SameButEntries(v, u) /\ u.rejected = v.rejected
      /\ u.anchors = Without(v.anchors, n)
      /\ u.confirmations = v.confirmations /\ u.bindings = v.bindings /\ u.quarantined = v.quarantined
  BY <1>1 DEF Unmarked, Views, SameButEntries
<1>3. Fewer(v, u)
  BY <1>1, <1>2, LensIs DEF Fewer
<1>4. DistinctMaps(u)
  BY <1>1, <1>2 DEF Good, Fit, DistinctMaps
<1>5. Fit(u, {})
  BY <1>2, <1>3, <1>4, FewerFits DEF SameButEntries, Good
<1>6. Told(u) /\ FewTombstones(u) /\ Loose(u) = Loose(v)
  BY <1>2 DEF Good, Told, FewTombstones, SameButEntries, Loose
<1>7. Small(u)
  BY <1>2, <1>3, FewerSmall DEF Good
<1>8. ~Has(u.anchors, n)
  BY <1>1, <1>2, HasIs
<1>. QED BY <1>2, <1>5, <1>6, <1>7, <1>8 DEF Good

\* A confirmation without its mark waits for it.
LEMMA AddConfirmation ==
  ASSUME NEW S \in Screens, NEW v \in Views(S), Good(v), NEW f \in Confirmations,
         v.sessionEpoch = f.epoch, ~Has(v.confirmations, f.nonce),
         NEW w, w = evictConfirmations(WithConfirmation(v, f))
  PROVE  w \in Views(S) /\ Good(w) /\ Loose(w) = Loose(v) /\ w.sessionEpoch = v.sessionEpoch
<1>u. PICK u : u = WithConfirmation(v, f)
  OBVIOUS
<1>1. /\ Append(v.confirmations, f) \in Seq(Confirmations)
      /\ Len(Append(v.confirmations, f)) = Len(v.confirmations) + 1
      /\ ToSet(Append(v.confirmations, f)) = ToSet(v.confirmations) \cup {f}
      /\ Distinct(Append(v.confirmations, f))
  BY ViewIs, AppendIs DEF Good, Fit, DistinctMaps
<1>2. /\ u \in Views(S) /\ SameButEntries(v, u) /\ u.rejected = v.rejected
      /\ u.confirmations = Append(v.confirmations, f)
      /\ u.anchors = v.anchors /\ u.bindings = v.bindings /\ u.quarantined = v.quarantined
  BY <1>u, <1>1 DEF WithConfirmation, Views, SameButEntries
<1>3. Kept(u) = Kept(v) /\ Waiting(u) = Waiting(v) /\ Paired(u) = Paired(v) \cup {f}
  BY <1>1, <1>2 DEF Kept, Waiting, Paired
<1>4. Fit(u, {})
  <2>1. DistinctMaps(u) /\ CuesLive(u) /\ OneMark(u)
    BY <1>1, <1>2 DEF Good, Fit, DistinctMaps, CuesLive, SameButEntries, OneMark
  <2>2. EntriesCued(u, {}) /\ Unannounced(u, {})
    BY <1>2, <1>3 DEF Good, Fit, EntriesCued, Unannounced, SameButEntries
  <2>3. SessionServed(u)
    BY <1>2, <1>3 DEF Good, Fit, SessionServed, SameButEntries
  <2>. QED BY <2>1, <2>2, <2>3 DEF Fit
<1>5. /\ w \in Views(S) /\ (FewTombstones(u) => FewTombstones(w))
      /\ (DistinctMaps(u) => DistinctMaps(w)) /\ Fewer(u, w) /\ SameButEntries(u, w)
      /\ Len(u.confirmations) <= MaxPending + 1 => Len(w.confirmations) <= MaxPending
      /\ w.anchors = u.anchors /\ w.bindings = u.bindings /\ w.quarantined = u.quarantined
  BY <1>u, <1>2, EvictConfirmationsIs
<1>6. Fit(w, {})
  BY <1>4, <1>5, FewerFits DEF Fit, SameButEntries
<1>7. Told(w) /\ FewTombstones(w) /\ Loose(w) = Loose(v) /\ w.sessionEpoch = v.sessionEpoch
  BY <1>2, <1>5 DEF Good, Told, FewTombstones, SameButEntries, Loose
<1>8. Small(w)
  <2>1. Len(u.confirmations) <= MaxPending + 1
    BY <1>1, <1>2, LensIs DEF Good, Small
  <2>. QED BY <1>2, <1>5, <2>1 DEF Good, Small
<1>. QED BY <1>5, <1>6, <1>7, <1>8 DEF Good

\* A confirmation of the session that is served is paired, waits or is dropped.
LEMMA ConfirmFits ==
  ASSUME NEW S \in Screens, NEW v \in Views(S), Good(v), NEW f \in Confirmations, NEW n, n = f.nonce,
         NEW w, w = confirm(v, f)
  PROVE  /\ w \in Views(S) /\ Fit(w, {}) /\ Small(w) /\ FewTombstones(w)
         /\ Loose(w) \subseteq Loose(v)
         /\ Told(w) \/ ToBeTold(w, n)
         /\ w.sessionEpoch = v.sessionEpoch \/ (v.sessionEpoch = NoEpoch /\ w.sessionEpoch = f.epoch)
<1>r. PICK r : r = acceptSequence(v, f)
  OBVIOUS
<1>1. /\ n \in Commands /\ f.epoch \in Epochs /\ f.epoch # NoEpoch /\ f.seq \in Sequences0
  BY Entries
<1>2. /\ r \in Views(S) /\ r.rejected = v.rejected
      /\ r.sessionEpoch = IF v.sessionEpoch = NoEpoch THEN f.epoch ELSE v.sessionEpoch
      /\ Loose(r) = Loose(v)
  BY <1>r, <1>1, AcceptIs
<1>3. Good(r)
  BY <1>r, <1>1, AcceptIs DEF Good
<1>4. accepts(v, f) => r.sessionEpoch = f.epoch
  BY <1>2 DEF accepts
<1>5. CASE w = v \/ w = r
  BY <1>2, <1>3, <1>5 DEF Good
<1>6. CASE w = rejectPending(r, n)
  <2>1. /\ w \in Views(S) /\ FewTombstones(w) /\ w.sessionEpoch = r.sessionEpoch
        /\ Loose(w) \subseteq Loose(r) /\ Fit(w, {}) /\ Told(w) /\ Fewer(r, w)
    BY <1>1, <1>2, <1>3, <1>6, RejectPendingIs DEF Good
  <2>2. Small(w)
    BY <1>2, <1>3, <2>1, FewerSmall DEF Good
  <2>. QED BY <1>2, <2>1, <2>2
<1>7. CASE /\ accepts(v, f) /\ ~Has(r.confirmations, n)
           /\ w = evictConfirmations(WithConfirmation(r, f))
  <2>1. w \in Views(S) /\ Good(w) /\ Loose(w) = Loose(r) /\ w.sessionEpoch = r.sessionEpoch
    BY <1>2, <1>3, <1>4, <1>7, AddConfirmation
  <2>. QED BY <1>2, <2>1 DEF Good
<1>8. ASSUME Has(r.anchors, n), accepts(v, f)
      PROVE  /\ Get(r.anchors, n) \in ToSet(r.anchors) /\ Get(r.anchors, n).nonce = n
             /\ Get(r.anchors, n) \in RealAnchors(S)
             /\ Get(r.anchors, n).epoch = r.sessionEpoch
             /\ \E c \in r.cues : c.nonce = n /\ c.marker = Get(r.anchors, n).marker /\ ~c.announced
  <2> DEFINE a == Get(r.anchors, n)
  <2>1. a \in ToSet(r.anchors) /\ a.nonce = n /\ a \in RealAnchors(S)
    BY <1>2, <1>8, ViewIs, GetIs
  <2> HIDE DEF a
  <2>2. a.epoch = r.sessionEpoch
    BY <1>3, <2>1 DEF Good, Fit, SessionServed, Paired
  <2>3. PICK c \in r.cues : c.nonce = n /\ c.marker = a.marker
    BY <1>3, <2>1 DEF Good, Fit, EntriesCued, Kept
  <2>4. ~c.announced
    BY <1>3, <2>1, <2>3 DEF Good, Fit, Unannounced, Waiting
  <2>. QED BY <2>1, <2>2, <2>3, <2>4 DEF a
<1>9. CASE /\ accepts(v, f) /\ Has(r.anchors, n) /\ ~Has(r.bindings, n)
           /\ matches(Get(r.anchors, n), f)
           /\ w = evictBindings(WithBinding(Unmarked(r, n), Get(r.anchors, n)))
  <2> DEFINE a == Get(r.anchors, n)
  <2>u. PICK u : u = Unmarked(r, n)
    OBVIOUS
  <2>1. /\ a \in RealAnchors(S) /\ a.nonce = n /\ a.epoch = r.sessionEpoch
        /\ \E c \in r.cues : c.nonce = n /\ c.marker = a.marker /\ ~c.announced
    BY <1>8, <1>9
  <2>2. w = evictBindings(WithBinding(u, a)) /\ matches(a, f)
    BY <1>9, <2>u
  <2> HIDE DEF a
  <2>3. Binding(a) \in RealBindings(S)
    BY <2>1, <2>2, Entries
  <2>4. /\ u \in Views(S) /\ Good(u) /\ SameButEntries(r, u) /\ u.bindings = r.bindings
        /\ Loose(u) = Loose(r) /\ ~Has(u.anchors, n)
    BY <1>1, <1>2, <1>3, <2>u, UnmarkedGood
  <2>5. u.sessionEpoch = a.epoch /\ ~Has(u.bindings, n)
    BY <1>9, <2>1, <2>4 DEF SameButEntries
  <2>6. /\ w \in Views(S) /\ Fit(w, {n}) /\ Small(w) /\ FewTombstones(w) /\ Has(w.bindings, n)
        /\ SameButEntries(u, w) /\ Loose(w) = Loose(u)
        /\ \A e \in Kept(w) : e.nonce = n => e.marker = a.marker
    BY <2>1, <2>2, <2>3, <2>4, <2>5, AddBinding
  <2>7. w.cues = r.cues /\ w.sessionEpoch = r.sessionEpoch
    BY <2>4, <2>6 DEF SameButEntries
  <2>8. ToBeTold(w, n)
    BY <2>1, <2>6, <2>7 DEF ToBeTold
  <2>9. EntriesCued(w, {})
    <3> SUFFICES ASSUME NEW e \in Kept(w)
                 PROVE  \E c \in w.cues : c.nonce = e.nonce /\ c.marker = e.marker
      BY DEF EntriesCued
    <3>1. CASE e.nonce = n
      BY <2>1, <2>6, <2>7, <3>1
    <3>2. CASE e.nonce # n
      BY <2>6, <3>2 DEF Fit, EntriesCued
    <3>. QED BY <3>1, <3>2
  <2>10. \A e \in Waiting(w) : e.nonce # n
    <3>0. w.bindings \in Seq(RealBindings(S)) /\ Has(w.bindings, n)
      BY <2>6, ViewIs
    <3>1. PICK b \in ToSet(w.bindings) : b.nonce = n
      BY <3>0, HasIs
    <3>2. \A e \in ToSet(w.anchors) : e.nonce # n
      BY <2>6, <3>1 DEF Fit, OneMark
    <3>3. EpochOf[n] = w.sessionEpoch
      BY <2>1, <2>7, Entries
    <3>4. \A e \in ToSet(w.quarantined) : e.nonce # n
      BY <2>6, <3>3, ServedNonce DEF Fit
    <3>. QED BY <3>2, <3>4 DEF Waiting
  <2>11. Unannounced(w, {})
    BY <2>6, <2>10 DEF Fit, Unannounced
  <2>12. Fit(w, {})
    BY <2>6, <2>9, <2>11 DEF Fit
  <2>. QED BY <1>2, <2>4, <2>6, <2>7, <2>8, <2>12
<1>10. CASE /\ accepts(v, f) /\ Has(r.anchors, n)
            /\ w = disposeMarker(reject(Unmarked(r, n), n), Get(r.anchors, n).marker)
  <2>u. PICK u : u = Unmarked(r, n)
    OBVIOUS
  <2>1. /\ u \in Views(S) /\ Good(u) /\ SameButEntries(r, u) /\ Loose(u) = Loose(r)
    BY <1>1, <1>2, <1>3, <2>u, UnmarkedGood
  <2>x. PICK x : x = reject(u, n)
    OBVIOUS
  <2>2. x \in Views(S) /\ Alike(u, x) /\ FewTombstones(x)
    BY <1>1, <2>1, <2>x, RejectIs
  <2>3. Good(x) /\ Loose(x) = Loose(u) /\ x.sessionEpoch = r.sessionEpoch
    BY <2>1, <2>2, AlikeFits DEF Good, Alike, SameButEntries
  <2>4. w = disposeMarker(x, Get(r.anchors, n).marker) /\ Unbound(x, {})
    BY <1>10, <2>u, <2>x DEF Unbound
  <2>5. /\ w \in Views(S) /\ FewTombstones(w) /\ w.sessionEpoch = x.sessionEpoch
        /\ Loose(w) \subseteq Loose(x)
    BY <2>2, <2>4, DisposeIs
  <2>6. Fit(w, {}) /\ Told(w) /\ Fewer(x, w)
    BY <2>2, <2>3, <2>4, DisposeFits DEF Good
  <2>7. Small(w)
    BY <2>2, <2>3, <2>5, <2>6, FewerSmall DEF Good
  <2>. QED BY <1>2, <2>1, <2>3, <2>5, <2>6, <2>7
<1>. QED BY <1>r, <1>5, <1>6, <1>7, <1>9, <1>10, ConfirmCases

\* Nothing the registry keeps is loose.
LEMMA KeptNotLoose ==
  ASSUME NEW v, Fit(v, {})
  PROVE  Loose(v) \subseteq v.markers \ {e.marker : e \in Kept(v)}
  BY DEF Fit, EntriesCued, Loose

\* A parsed mark gets its marker, its cue and its entry, or nothing.
LEMMA RegisterFits ==
  ASSUME NEW S \in Screens, NEW v \in Views(S), Good(v), NEW line \in DOMAIN S, line \notin v.markers,
         NEW f, f = S[line].frame, NEW w, w = registerVisualAnchor(v, f, line)
  PROVE  /\ w \in Views(S) /\ Good(w)
         /\ Loose(w) \subseteq v.markers \ {e.marker : e \in Kept(v)}
         /\ v.sessionEpoch = NoEpoch \/ w.sessionEpoch = v.sessionEpoch
<1>a. PICK a : a = Anchor(f, line)
  OBVIOUS
<1>n. PICK n : n = f.nonce
  OBVIOUS
<1>v. PICK x : x = [v EXCEPT !.markers = @ \cup {line}]
  OBVIOUS
<1>o. PICK o : o = observeAnchor(x, a)
  OBVIOUS
<1>u. PICK u : u = o.view
  OBVIOUS
<1>1. a \in RealAnchors(S) /\ a.nonce = n /\ a.marker = line /\ n \in Commands
  <2>1. a \in RealAnchors(S)
    BY <1>a DEF RealAnchors
  <2>2. a.nonce = n /\ a.marker = line
    BY <1>a, <1>n DEF Anchor
  <2>. QED BY <2>1, <2>2, Entries
<1>2. /\ x \in Views(S) /\ x.markers = v.markers \cup {line} /\ x.cues = v.cues
      /\ x.anchors = v.anchors /\ x.bindings = v.bindings /\ x.confirmations = v.confirmations
      /\ x.quarantined = v.quarantined /\ x.rejected = v.rejected /\ x.rail = v.rail
      /\ x.sessionEpoch = v.sessionEpoch
  BY <1>v DEF Views
<1>3. Kept(x) = Kept(v) /\ Waiting(x) = Waiting(v) /\ Paired(x) = Paired(v)
  BY <1>2 DEF Kept, Waiting, Paired
<1>4. Good(x)
  <2>1. DistinctMaps(x) /\ CuesLive(x) /\ OneMark(x)
    BY <1>2 DEF Good, Fit, DistinctMaps, CuesLive, OneMark
  <2>2. EntriesCued(x, {}) /\ Unannounced(x, {}) /\ SessionServed(x)
    BY <1>2, <1>3 DEF Good, Fit, EntriesCued, Unannounced, SessionServed
  <2>3. Told(x) /\ Small(x) /\ FewTombstones(x)
    BY <1>2 DEF Good, Told, Small, FewTombstones
  <2>. QED BY <2>1, <2>2, <2>3 DEF Good, Fit
<1>5. \A c \in v.cues : c.marker \in v.markers /\ c.marker # line
  BY DEF Good, Fit, CuesLive
<1>6. Loose(x) \subseteq Loose(v) \cup {line}
  BY <1>2 DEF Loose
<1>7. /\ u \in Views(S) /\ u.cues \subseteq v.cues /\ Loose(u) \subseteq Loose(v) \cup {line}
      /\ v.sessionEpoch = NoEpoch \/ u.sessionEpoch = v.sessionEpoch
  <2>1. /\ u \in Views(S) /\ u.cues \subseteq x.cues /\ Loose(u) \subseteq Loose(x)
        /\ x.sessionEpoch = NoEpoch \/ u.sessionEpoch = x.sessionEpoch
    BY <1>1, <1>2, <1>o, <1>u, ObserveTyped
  <2>. QED BY <1>2, <1>6, <2>1
<1>8. /\ Small(u) /\ FewTombstones(u)
      /\ \/ ~o.accepted /\ Good(u) /\ (Has(u.quarantined, n) => Has(v.quarantined, n))
         \/ /\ ~o.accepted => /\ ~Has(v.quarantined, n)
                              /\ \A e \in Kept(u) : e.nonce = n => Has(u.quarantined, n)
            /\ Fit(u, {n}) /\ line \in u.markers
            /\ \A e \in Kept(v) : e.nonce # n
            /\ \A e \in Kept(u) : e.nonce = n => e.marker = line
            /\ Told(u) \/ (o.accepted /\ Has(u.bindings, n))
  <2>1. a.marker \in x.markers /\ \A c \in x.cues : c.marker # a.marker
    BY <1>1, <1>2, <1>5
  <2>2. /\ Small(u) /\ FewTombstones(u)
        /\ \/ ~o.accepted /\ Good(u) /\ (Has(u.quarantined, n) => Has(x.quarantined, n))
           \/ /\ ~o.accepted => /\ ~Has(x.quarantined, n)
                                /\ \A e \in Kept(u) : e.nonce = n => Has(u.quarantined, n)
              /\ Fit(u, {n}) /\ a.marker \in u.markers
              /\ \A e \in Kept(x) : e.nonce # n
              /\ \A e \in Kept(u) : e.nonce = n => e.marker = a.marker
              /\ Told(u) \/ (o.accepted /\ Has(u.bindings, n))
    BY <1>1, <1>2, <1>4, <1>o, <1>u, <2>1, ObserveFits
  <2>. QED BY <1>1, <1>2, <1>3, <2>2
<1>d. PICK d : d = [u EXCEPT !.cues = {c \in @ : c.nonce # n}
                                   \cup {[nonce |-> n, marker |-> line, announced |-> FALSE]}]
  OBVIOUS
<1>9. w = CASE o.accepted -> registerConfirmedVisualCue(d, n)
            [] ~o.accepted /\ ~Has(v.quarantined, n) /\ Has(u.quarantined, n) -> d
            [] OTHER -> disposeMarker(u, line)
  BY <1>a, <1>n, <1>v, <1>o, <1>u, <1>d DEF registerVisualAnchor
<1>10. Loose(v) \subseteq v.markers \ {e.marker : e \in Kept(v)}
  BY KeptNotLoose DEF Good
<1>11. CASE Good(u) /\ w = disposeMarker(u, line)
  <2>1. /\ w \in Views(S) /\ FewTombstones(w) /\ w.sessionEpoch = u.sessionEpoch
        /\ w.markers = u.markers \ {line} /\ Loose(w) \subseteq Loose(u)
    BY <1>7, <1>8, <1>11, DisposeIs
  <2>2. Fit(w, {}) /\ Told(w) /\ Fewer(u, w)
    <3>1. Unbound(u, {})
      BY DEF Unbound
    <3>. QED BY <1>7, <1>11, <3>1, DisposeFits DEF Good
  <2>3. Small(w)
    BY <1>7, <1>8, <2>1, <2>2, FewerSmall
  <2>4. line \notin Loose(w)
    BY <2>1 DEF Loose
  <2>. QED BY <1>7, <1>10, <2>1, <2>2, <2>3, <2>4 DEF Good
<1>12. ASSUME Fit(u, {n}), line \in u.markers, \A e \in Kept(v) : e.nonce # n,
              \A e \in Kept(u) : e.nonce = n => e.marker = line
       PROVE  /\ d \in Views(S) /\ Fit(d, {}) /\ Small(d) /\ FewTombstones(d)
              /\ Loose(d) \subseteq v.markers \ {e.marker : e \in Kept(v)}
              /\ d.sessionEpoch = u.sessionEpoch
              /\ Told(u) => Told(d)
              /\ Has(u.bindings, n) => ToBeTold(d, n)
  <2>c. PICK new : new = [nonce |-> n, marker |-> line, announced |-> FALSE]
    OBVIOUS
  <2>C. PICK cues : cues = {c \in u.cues : c.nonce # n} \cup {new}
    OBVIOUS
  <2>1. cues \subseteq Cues(S) /\ IsFiniteSet(cues)
    <3>1. u.cues \subseteq Cues(S) /\ IsFiniteSet(u.cues)
      BY <1>7, ViewIs
    <3>2. new \in Cues(S)
      BY <1>1, <2>c DEF Cues
    <3>3. IsFiniteSet({c \in u.cues : c.nonce # n})
      BY <3>1, FS_Subset
    <3>. QED BY <2>C, <3>1, <3>2, <3>3, FS_AddElement
  <2>2. /\ d \in Views(S) /\ d.cues = cues /\ d.markers = u.markers
        /\ d.anchors = u.anchors /\ d.bindings = u.bindings /\ d.confirmations = u.confirmations
        /\ d.quarantined = u.quarantined /\ d.rejected = u.rejected /\ d.rail = u.rail
        /\ d.sessionEpoch = u.sessionEpoch
    BY <1>7, <1>d, <2>c, <2>C, <2>1 DEF Views
  <2>3. Kept(d) = Kept(u) /\ Waiting(d) = Waiting(u) /\ Paired(d) = Paired(u)
    BY <2>2 DEF Kept, Waiting, Paired
  <2>4. /\ new \in cues /\ new.nonce = n /\ new.marker = line /\ ~new.announced
        /\ \A c \in cues : c = new \/ (c \in u.cues /\ c.nonce # n /\ c.marker # line)
        /\ \A c \in u.cues : c.nonce # n => c \in cues
    BY <1>5, <1>7, <2>c, <2>C
  <2>5. CuesLive(d)
    BY <1>12, <2>2, <2>4 DEF Fit, CuesLive
  <2>6. EntriesCued(d, {})
    <3> SUFFICES ASSUME NEW e \in Kept(u)
                 PROVE  \E c \in cues : c.nonce = e.nonce /\ c.marker = e.marker
      BY <2>2, <2>3 DEF EntriesCued
    <3>1. CASE e.nonce = n
      BY <1>12, <2>4, <3>1
    <3>2. CASE e.nonce # n
      <4>1. PICK c \in u.cues : c.nonce = e.nonce /\ c.marker = e.marker
        BY <1>12, <3>2 DEF Fit, EntriesCued
      <4>. QED BY <2>4, <3>2, <4>1
    <3>. QED BY <3>1, <3>2
  <2>7. Unannounced(d, {})
    <3> SUFFICES ASSUME NEW c \in cues, NEW e \in Waiting(u), c.nonce = e.nonce
                 PROVE  ~c.announced
      BY <2>2, <2>3 DEF Unannounced
    <3>1. CASE c = new
      BY <2>4, <3>1
    <3>2. CASE c \in u.cues /\ c.nonce # n
      BY <1>12, <3>2 DEF Fit, Unannounced
    <3>. QED BY <2>4, <3>1, <3>2
  <2>8. Fit(d, {})
    <3>1. DistinctMaps(d) /\ OneMark(d) /\ SessionServed(d)
      BY <1>12, <2>2, <2>3 DEF Fit, DistinctMaps, OneMark, SessionServed
    <3>. QED BY <2>5, <2>6, <2>7, <3>1 DEF Fit
  <2>9. /\ Small(d) /\ FewTombstones(d) /\ (Told(u) => Told(d))
        /\ (Has(u.bindings, n) => ToBeTold(d, n))
    BY <1>8, <2>2, <2>4 DEF Small, FewTombstones, Told, ToBeTold
  <2>10. ASSUME NEW m \in Loose(d)
         PROVE  m \in v.markers \ {e.marker : e \in Kept(v)}
    <3>1. m \in u.markers /\ m # line /\ \A c \in cues : c.marker # m
      BY <2>2, <2>4, <2>10 DEF Loose
    <3>2. CASE m \in Loose(u)
      BY <1>7, <1>10, <3>1, <3>2
    <3>3. CASE m \notin Loose(u)
      <4>1. PICK c \in u.cues : c.marker = m
        BY <3>1, <3>3 DEF Loose
      <4>2. c.nonce = n /\ c \in v.cues
        BY <1>7, <2>4, <3>1, <4>1
      <4>3. m \in v.markers
        BY <1>5, <4>1, <4>2
      <4>4. ASSUME NEW e \in Kept(v), e.marker = m
            PROVE  FALSE
        <5>1. PICK b \in v.cues : b.nonce = e.nonce /\ b.marker = m
          BY <4>4 DEF Good, Fit, EntriesCued
        <5>2. b = c
          BY <4>1, <4>2, <5>1 DEF Good, Fit, CuesLive
        <5>. QED BY <1>12, <4>2, <5>1, <5>2
      <4>. QED BY <4>3, <4>4
    <3>. QED BY <3>2, <3>3
  <2>. QED BY <2>2, <2>8, <2>9, <2>10
<1>13. CASE ~o.accepted /\ Good(u) /\ (Has(u.quarantined, n) => Has(v.quarantined, n))
  <2>1. w = disposeMarker(u, line)
    BY <1>9, <1>13
  <2>. QED BY <1>11, <1>13, <2>1
<1>14. CASE /\ ~o.accepted => /\ ~Has(v.quarantined, n)
                              /\ \A e \in Kept(u) : e.nonce = n => Has(u.quarantined, n)
            /\ Fit(u, {n}) /\ line \in u.markers
            /\ \A e \in Kept(v) : e.nonce # n
            /\ \A e \in Kept(u) : e.nonce = n => e.marker = line
            /\ Told(u) \/ (o.accepted /\ Has(u.bindings, n))
  <2>1. /\ d \in Views(S) /\ Fit(d, {}) /\ Small(d) /\ FewTombstones(d)
        /\ Loose(d) \subseteq v.markers \ {e.marker : e \in Kept(v)}
        /\ d.sessionEpoch = u.sessionEpoch
        /\ Told(u) => Told(d)
        /\ Has(u.bindings, n) => ToBeTold(d, n)
    BY <1>12, <1>14
  <2>2. CASE o.accepted
    <3>1. w = registerConfirmedVisualCue(d, n)
      BY <1>9, <2>2
    <3>2. Told(d) \/ ToBeTold(d, n)
      BY <1>14, <2>1
    <3>3. w \in Views(S) /\ Good(w) /\ Loose(w) = Loose(d) /\ w.sessionEpoch = d.sessionEpoch
      BY <2>1, <3>1, <3>2, RegisterConfirmedFits
    <3>. QED BY <1>7, <2>1, <3>3
  <2>3. CASE ~o.accepted /\ Has(u.quarantined, n)
    <3>1. w = d
      BY <1>9, <1>14, <2>3
    <3>. QED BY <1>7, <1>14, <2>1, <2>3, <3>1 DEF Good
  <2>4. CASE ~o.accepted /\ ~Has(u.quarantined, n)
    <3>1. w = disposeMarker(u, line)
      BY <1>9, <2>4
    <3>2. Fit(u, {})
      BY <1>14, <2>4, FitWithout
    <3>3. Good(u)
      BY <1>8, <1>14, <2>4, <3>2 DEF Good
    <3>. QED BY <1>11, <3>1, <3>3
  <2>. QED BY <2>2, <2>3, <2>4
<1>. QED BY <1>8, <1>13, <1>14

-----------------------------------------------------------------------------
(* The registry's loops. *)

\* The initial segments of a map's positions.
LEMMA Segments ==
  ASSUME NEW n \in Nat
  PROVE  /\ 1 .. 0 = {} /\ \A k \in 0 .. n : k \in Nat /\ 1 .. k \in SUBSET (1 .. n)
         /\ \A k \in 1 .. n : /\ Max(1 .. k) = k /\ (1 .. k) \ {k} = 1 .. (k - 1) /\ 1 .. k # {}
                              /\ k - 1 \in 0 .. n
<1>1. \A k \in 1 .. n : k \in Nat /\ k # 0
  OBVIOUS
<1>2. \A k \in 1 .. n : Max(1 .. k) = k /\ (1 .. k) \ {k} = 1 .. (k - 1) /\ 1 .. k # {}
  BY <1>1, InitialSegment
<1>. QED BY <1>2

\* Rejecting many changes the tombstones only.
LEMMA RejectAllIs ==
  ASSUME NEW S \in Screens, NEW v \in Views(S), NEW T, \A e \in T : e.nonce \in Commands,
         NEW map \in Seq(T), NEW w, w = rejectAll(v, map)
  PROVE  w \in Views(S) /\ Alike(v, w) /\ (FewTombstones(v) => FewTombstones(w))
<1> DEFINE D == Views(S)
           Is(g) == g = [s \in SUBSET DOMAIN map |->
                           IF s = {} THEN v ELSE reject(g[s \ {Max(s)}], map[Max(s)].nonce)]
           it == CHOOSE g : Is(g)
<1>n. PICK n \in Nat : n = Len(map) /\ DOMAIN map = 1 .. n
  OBVIOUS
<1>0. w = it[1 .. n]
  BY <1>n DEF rejectAll, FoldLeft, MapThenFoldSet
<1>1. \A k \in 1 .. n : map[k].nonce \in Commands
  BY <1>n
<1>2. \A k \in 1 .. n, u \in D :
        reject(u, map[k].nonce) \in D /\ Alike(u, reject(u, map[k].nonce))
        /\ FewTombstones(reject(u, map[k].nonce))
  BY <1>1, RejectIs
<1>3. \E g : Is(g)
  <2> DEFINE step == [k \in 1 .. n |-> [u \in D |-> reject(u, map[k].nonce)]]
  <2>1. step \in [1 .. n -> [D -> D]]
    BY <1>2
  <2>2. PICK g : IsFold(g, n, D, v, step)
    BY <2>1, FoldExists
  <2>3. \A s \in SUBSET (1 .. n) :
          g[s] = IF s = {} THEN v ELSE reject(g[s \ {Max(s)}], map[Max(s)].nonce)
    <3> SUFFICES ASSUME NEW s \in SUBSET (1 .. n), s # {}
                 PROVE  g[s] = reject(g[s \ {Max(s)}], map[Max(s)].nonce)
      BY <2>2 DEF IsFold
    <3>1. Max(s) \in 1 .. n /\ s \ {Max(s)} \in SUBSET (1 .. n)
      BY GreatestIndex
    <3>2. g[s \ {Max(s)}] \in D
      BY <2>2, <3>1 DEF IsFold
    <3>. QED BY <2>2, <3>1, <3>2 DEF IsFold
  <2>4. Is(g)
    BY <1>n, <2>2, <2>3 DEF IsFold
  <2>. QED BY <2>4
<1>4. Is(it)
  BY <1>3
<1> HIDE DEF it, D
<1> DEFINE C == [k \in 0 .. n |-> {u \in D : Alike(v, u) /\ (FewTombstones(v) => FewTombstones(u))}]
           f == [k \in 0 .. n |-> it[1 .. k]]
<1>5. \A k \in 1 .. n : f[k] = reject(f[k - 1], map[k].nonce)
  <2> TAKE k \in 1 .. n
  <2>1. /\ k \in 0 .. n /\ k - 1 \in 0 .. n /\ 1 .. k \in SUBSET (1 .. n) /\ 1 .. k # {}
        /\ Max(1 .. k) = k /\ (1 .. k) \ {k} = 1 .. (k - 1)
    BY Segments
  <2>2. it[1 .. k] = reject(it[(1 .. k) \ {Max(1 .. k)}], map[Max(1 .. k)].nonce)
    BY <1>n, <1>4, <2>1
  <2>. QED BY <2>1, <2>2
<1>6. f[0] \in C[0]
  <2>1. f[0] = v
    BY <1>n, <1>4, Segments
  <2>. QED BY <2>1 DEF Alike, D
<1>7. \A k \in 1 .. n : f[k - 1] \in C[k - 1] => f[k] \in C[k]
  <2> SUFFICES ASSUME NEW k \in 1 .. n, f[k - 1] \in C[k - 1]
               PROVE  f[k] \in C[k]
    OBVIOUS
  <2>1. k - 1 \in 0 .. n /\ k \in 0 .. n
    OBVIOUS
  <2>2. f[k - 1] \in D /\ Alike(v, f[k - 1])
    BY <2>1
  <2>3. f[k] \in D /\ Alike(f[k - 1], f[k]) /\ FewTombstones(f[k])
    BY <1>2, <1>5, <2>2
  <2>4. Alike(v, f[k])
    BY <2>2, <2>3 DEF Alike
  <2>. QED BY <2>1, <2>3, <2>4
<1> HIDE DEF C, f
<1>8. \A k \in 0 .. n : f[k] \in C[k]
  BY <1>6, <1>7, Along
<1>9. f[n] \in C[n] /\ n \in 0 .. n
  BY <1>8
<1>. QED BY <1>0, <1>9 DEF C, f, D

\* Nothing the registry keeps points at a marker of the map any more.
LEMMA DisposeAllFits ==
  ASSUME NEW S \in Screens, NEW v \in Views(S), Fit(v, {}), Told(v), FewTombstones(v),
         NEW T, NEW map \in Seq(T), NEW w, w = disposeAll(v, map)
  PROVE  /\ w \in Views(S) /\ Fit(w, {}) /\ Told(w) /\ FewTombstones(w) /\ Fewer(v, w)
         /\ Loose(w) \subseteq Loose(v) /\ w.sessionEpoch = v.sessionEpoch
         /\ \A i \in DOMAIN map : \A e \in Kept(w) : e.marker # map[i].marker
<1> DEFINE D == Views(S)
           Is(g) == g = [s \in SUBSET DOMAIN map |->
                           IF s = {} THEN v ELSE disposeMarker(g[s \ {Max(s)}], map[Max(s)].marker)]
           it == CHOOSE g : Is(g)
<1>n. PICK n \in Nat : n = Len(map) /\ DOMAIN map = 1 .. n
  OBVIOUS
<1>0. w = it[1 .. n]
  BY <1>n DEF disposeAll, FoldLeft, MapThenFoldSet
<1>2. \A k \in 1 .. n, u \in D : disposeMarker(u, map[k].marker) \in D
  BY DisposeIs
<1>3. \E g : Is(g)
  <2> DEFINE step == [k \in 1 .. n |-> [u \in D |-> disposeMarker(u, map[k].marker)]]
  <2>1. step \in [1 .. n -> [D -> D]]
    BY <1>2
  <2>2. PICK g : IsFold(g, n, D, v, step)
    BY <2>1, FoldExists
  <2>3. \A s \in SUBSET (1 .. n) :
          g[s] = IF s = {} THEN v ELSE disposeMarker(g[s \ {Max(s)}], map[Max(s)].marker)
    <3> SUFFICES ASSUME NEW s \in SUBSET (1 .. n), s # {}
                 PROVE  g[s] = disposeMarker(g[s \ {Max(s)}], map[Max(s)].marker)
      BY <2>2 DEF IsFold
    <3>1. Max(s) \in 1 .. n /\ s \ {Max(s)} \in SUBSET (1 .. n)
      BY GreatestIndex
    <3>2. g[s \ {Max(s)}] \in D
      BY <2>2, <3>1 DEF IsFold
    <3>. QED BY <2>2, <3>1, <3>2 DEF IsFold
  <2>4. Is(g)
    BY <1>n, <2>2, <2>3 DEF IsFold
  <2>. QED BY <2>4
<1>4. Is(it)
  BY <1>3
<1> HIDE DEF it, D
<1> DEFINE Rest(k) == {u \in D : /\ Fit(u, {}) /\ Told(u) /\ FewTombstones(u) /\ Fewer(v, u)
                                 /\ Loose(u) \subseteq Loose(v) /\ u.sessionEpoch = v.sessionEpoch
                                 /\ \A i \in 1 .. k : \A e \in Kept(u) : e.marker # map[i].marker}
           C == [k \in 0 .. n |-> Rest(k)]
           f == [k \in 0 .. n |-> it[1 .. k]]
<1>5. \A k \in 1 .. n : f[k] = disposeMarker(f[k - 1], map[k].marker)
  <2> TAKE k \in 1 .. n
  <2>1. /\ k \in 0 .. n /\ k - 1 \in 0 .. n /\ 1 .. k \in SUBSET (1 .. n) /\ 1 .. k # {}
        /\ Max(1 .. k) = k /\ (1 .. k) \ {k} = 1 .. (k - 1)
    BY Segments
  <2>2. it[1 .. k] = disposeMarker(it[(1 .. k) \ {Max(1 .. k)}], map[Max(1 .. k)].marker)
    BY <1>n, <1>4, <2>1
  <2>. QED BY <2>1, <2>2
<1>6. f[0] \in C[0]
  <2>1. f[0] = v
    BY <1>n, <1>4, Segments
  <2>2. Fewer(v, v) /\ v \in D
    BY LensIs DEF Fewer, D
  <2>3. 1 .. 0 = {}
    OBVIOUS
  <2>. QED BY <2>1, <2>2, <2>3
<1>7. \A k \in 1 .. n : f[k - 1] \in C[k - 1] => f[k] \in C[k]
  <2> SUFFICES ASSUME NEW k \in 1 .. n, f[k - 1] \in C[k - 1]
               PROVE  f[k] \in C[k]
    OBVIOUS
  <2>1. k - 1 \in 0 .. n /\ k \in 0 .. n
    OBVIOUS
  <2>x. PICK x : x = f[k - 1]
    OBVIOUS
  <2>y. PICK y : y = f[k]
    OBVIOUS
  <2>2. x \in Rest(k - 1)
    BY <2>1, <2>x
  <2>3. y = disposeMarker(x, map[k].marker)
    BY <1>5, <2>x, <2>y
  <2> HIDE DEF f
  <2>4. /\ x \in Views(S) /\ Fit(x, {}) /\ Told(x) /\ FewTombstones(x) /\ Fewer(v, x)
        /\ Loose(x) \subseteq Loose(v) /\ x.sessionEpoch = v.sessionEpoch
        /\ \A i \in 1 .. (k - 1) : \A e \in Kept(x) : e.marker # map[i].marker
    BY <2>2 DEF D
  <2>5. /\ y \in Views(S) /\ FewTombstones(y) /\ y.sessionEpoch = x.sessionEpoch
        /\ Loose(y) \subseteq Loose(x)
    BY <2>3, <2>4, DisposeIs
  <2>6. /\ Fit(y, {}) /\ Told(y) /\ Fewer(x, y)
        /\ \A e \in Kept(y) : e.marker # map[k].marker
    <3>1. Unbound(x, {})
      BY DEF Unbound
    <3>. QED BY <2>3, <2>4, <3>1, DisposeFits
  <2>7. Fewer(v, y)
    BY <2>4, <2>5, <2>6, FewerThen
  <2>8. Kept(y) \subseteq Kept(x)
    BY <2>6 DEF Fewer, Kept
  <2>9. \A i \in 1 .. k : \A e \in Kept(y) : e.marker # map[i].marker
    <3> SUFFICES ASSUME NEW i \in 1 .. k, NEW e \in Kept(y)
                 PROVE  e.marker # map[i].marker
      OBVIOUS
    <3>1. CASE i = k
      BY <2>6, <3>1
    <3>2. CASE i \in 1 .. (k - 1)
      BY <2>4, <2>8, <3>2
    <3>. QED BY <3>1, <3>2
  <2>10. y \in Rest(k)
    BY <2>4, <2>5, <2>6, <2>7, <2>9 DEF D
  <2>. QED BY <2>1, <2>y, <2>10
<1> HIDE DEF C, f
<1>8. \A k \in 0 .. n : f[k] \in C[k]
  BY <1>6, <1>7, Along
<1>9. f[n] \in C[n] /\ n \in 0 .. n
  BY <1>8
<1>10. w \in Rest(n)
  BY <1>0, <1>9 DEF C, f
<1>. QED BY <1>n, <1>10 DEF D

\* The parked marks of the session are no longer parked.
LEMMA UnparkIs ==
  ASSUME NEW T, NEW parked \in Seq(T), Distinct(parked), NEW epoch, NEW w, w = unpark(parked, epoch)
  PROVE  /\ w \in Seq(T) /\ Distinct(w) /\ Len(w) <= Len(parked) /\ ToSet(w) \subseteq ToSet(parked)
         /\ \A e \in ToSet(w) : e.epoch # epoch
<1> DEFINE D == Seq(T)
           Op(map, k) == IF parked[k].epoch = epoch THEN Without(map, parked[k].nonce) ELSE map
           Is(g) == g = [s \in SUBSET DOMAIN parked |->
                           IF s = {} THEN parked ELSE Op(g[s \ {Max(s)}], Max(s))]
           it == CHOOSE g : Is(g)
<1>n. PICK n \in Nat : n = Len(parked) /\ DOMAIN parked = 1 .. n
  OBVIOUS
<1>0. w = it[1 .. n]
  BY <1>n DEF unpark, FoldLeft, MapThenFoldSet
<1>2. \A k \in 1 .. n, u \in D : Op(u, k) \in D
  BY WithoutIs
<1> HIDE DEF D, Op
<1>3. \E g : Is(g)
  <2> DEFINE step == [k \in 1 .. n |-> [u \in D |-> Op(u, k)]]
  <2>1. step \in [1 .. n -> [D -> D]]
    BY <1>2
  <2>2. PICK g : IsFold(g, n, D, parked, step)
    <3>1. parked \in D
      BY DEF D
    <3>. QED BY <2>1, <3>1, FoldExists
  <2>3. \A s \in SUBSET (1 .. n) :
          g[s] = IF s = {} THEN parked ELSE Op(g[s \ {Max(s)}], Max(s))
    <3> SUFFICES ASSUME NEW s \in SUBSET (1 .. n), s # {}
                 PROVE  g[s] = Op(g[s \ {Max(s)}], Max(s))
      BY <2>2 DEF IsFold
    <3>1. Max(s) \in 1 .. n /\ s \ {Max(s)} \in SUBSET (1 .. n)
      BY GreatestIndex
    <3>2. g[s \ {Max(s)}] \in D
      BY <2>2, <3>1 DEF IsFold
    <3>. QED BY <2>2, <3>1, <3>2 DEF IsFold
  <2>4. Is(g)
    BY <1>n, <2>2, <2>3 DEF IsFold
  <2>. QED BY <2>4
<1>4. Is(it)
  BY <1>3
<1> HIDE DEF it
<1> DEFINE Rest(k) == {u \in D : /\ Distinct(u) /\ Len(u) <= Len(parked) /\ ToSet(u) \subseteq ToSet(parked)
                                 /\ \A i \in 1 .. k : parked[i].epoch = epoch => parked[i] \notin ToSet(u)}
           C == [k \in 0 .. n |-> Rest(k)]
           f == [k \in 0 .. n |-> it[1 .. k]]
<1>5. \A k \in 1 .. n : f[k] = Op(f[k - 1], k)
  <2> TAKE k \in 1 .. n
  <2>1. /\ k \in 0 .. n /\ k - 1 \in 0 .. n /\ 1 .. k \in SUBSET (1 .. n) /\ 1 .. k # {}
        /\ Max(1 .. k) = k /\ (1 .. k) \ {k} = 1 .. (k - 1)
    BY Segments
  <2>2. it[1 .. k] = Op(it[(1 .. k) \ {Max(1 .. k)}], Max(1 .. k))
    BY <1>n, <1>4, <2>1
  <2>. QED BY <2>1, <2>2
<1>6. f[0] \in C[0]
  <2>1. f[0] = parked
    BY <1>n, <1>4, Segments
  <2>2. 1 .. 0 = {} /\ parked \in D /\ Len(parked) <= Len(parked)
    BY <1>n DEF D
  <2>. QED BY <2>1, <2>2
<1>7. \A k \in 1 .. n : f[k - 1] \in C[k - 1] => f[k] \in C[k]
  <2> SUFFICES ASSUME NEW k \in 1 .. n, f[k - 1] \in C[k - 1]
               PROVE  f[k] \in C[k]
    OBVIOUS
  <2>1. k - 1 \in 0 .. n /\ k \in 0 .. n
    OBVIOUS
  <2>x. PICK x : x = f[k - 1]
    OBVIOUS
  <2>y. PICK y : y = f[k]
    OBVIOUS
  <2>2. x \in Rest(k - 1)
    BY <2>1, <2>x
  <2>3. y = Op(x, k)
    BY <1>5, <2>x, <2>y
  <2> HIDE DEF f
  <2>4. /\ x \in Seq(T) /\ Distinct(x) /\ Len(x) <= Len(parked) /\ ToSet(x) \subseteq ToSet(parked)
        /\ \A i \in 1 .. (k - 1) : parked[i].epoch = epoch => parked[i] \notin ToSet(x)
    BY <2>2 DEF D
  <2>5. /\ y \in Seq(T) /\ Distinct(y) /\ Len(y) <= Len(parked) /\ ToSet(y) \subseteq ToSet(x)
        /\ parked[k].epoch = epoch => parked[k] \notin ToSet(y)
    <3>1. CASE parked[k].epoch = epoch
      <4>1. y = Without(x, parked[k].nonce)
        BY <2>3, <3>1 DEF Op
      <4>2. /\ y \in Seq(T) /\ Distinct(y)
            /\ Len(y) = IF Has(x, parked[k].nonce) THEN Len(x) - 1 ELSE Len(x)
            /\ ToSet(y) = {e \in ToSet(x) : e.nonce # parked[k].nonce}
        BY <2>4, <4>1, WithoutIs
      <4>3. Len(x) \in Nat /\ Len(parked) \in Nat
        BY <2>4
      <4>. QED BY <2>4, <4>2, <4>3
    <3>2. CASE parked[k].epoch # epoch
      BY <2>3, <2>4, <3>2 DEF Op
    <3>. QED BY <3>1, <3>2
  <2>6. \A i \in 1 .. k : parked[i].epoch = epoch => parked[i] \notin ToSet(y)
    <3> SUFFICES ASSUME NEW i \in 1 .. k, parked[i].epoch = epoch
                 PROVE  parked[i] \notin ToSet(y)
      OBVIOUS
    <3>1. CASE i = k
      BY <2>5, <3>1
    <3>2. CASE i \in 1 .. (k - 1)
      BY <2>4, <2>5, <3>2
    <3>. QED BY <3>1, <3>2
  <2>7. y \in Rest(k)
    BY <2>4, <2>5, <2>6 DEF D
  <2>. QED BY <2>1, <2>y, <2>7
<1> HIDE DEF C, f
<1>8. \A k \in 0 .. n : f[k] \in C[k]
  BY <1>6, <1>7, Along
<1>9. f[n] \in C[n] /\ n \in 0 .. n
  BY <1>8
<1>10. w \in Rest(n)
  BY <1>0, <1>9 DEF C, f
<1>11. \A e \in ToSet(w) : e.epoch # epoch
  <2> SUFFICES ASSUME NEW e \in ToSet(w), e.epoch = epoch
               PROVE  FALSE
    OBVIOUS
  <2>1. PICK i \in 1 .. n : parked[i] = e
    BY <1>n, <1>10 DEF ToSet
  <2>. QED BY <1>10, <2>1
<1>. QED BY <1>10, <1>11 DEF D

\* What adopting the parked marks leaves alone.
Adopting(v, w, epoch) ==
  /\ w.sessionEpoch = epoch /\ w.confirmations = <<>> /\ w.bindings = <<>>
  /\ w.quarantined = v.quarantined /\ w.cues = v.cues /\ w.markers = v.markers /\ w.rail = v.rail
  /\ FewTombstones(w) /\ Distinct(w.anchors) /\ Len(w.anchors) <= MaxPending

\* No entry but the one observed is new.
Observing(x, a, y) == \A e \in ToSet(y.anchors) : e \in ToSet(x.anchors) \/ e = a

\* A parked mark is observed again: at most it waits for its confirmation.
LEMMA AdoptOne ==
  ASSUME NEW S \in Screens, NEW epoch \in Epochs, epoch # NoEpoch, NEW v, NEW x \in Views(S),
         Adopting(v, x, epoch), NEW a \in RealAnchors(S), a.epoch = epoch, ~Has(x.anchors, a.nonce),
         NEW y, y = observeAnchor(x, a).view
  PROVE  /\ y \in Views(S) /\ Adopting(v, y, epoch)
         /\ Observing(x, a, y)
<1>n. PICK n : n = a.nonce
  OBVIOUS
<1>r. PICK r : r = acceptSequence(x, a)
  OBVIOUS
<1>o. PICK o : o = observeAnchor(x, a)
  OBVIOUS
<1>1. /\ n \in Commands /\ a.epoch \in Epochs /\ a.epoch # NoEpoch /\ a.seq \in Sequences0
  BY <1>n, Entries
<1>2. /\ r \in Views(S) /\ r.rejected = x.rejected /\ r.sessionEpoch = epoch
      /\ r.anchors = x.anchors /\ r.confirmations = x.confirmations
      /\ r.bindings = x.bindings /\ r.quarantined = x.quarantined
      /\ r.cues = x.cues /\ r.markers = x.markers /\ r.rail = x.rail
  BY <1>r, <1>1, AcceptIs DEF Adopting
<1>3. Adopting(v, r, epoch) /\ ~Has(r.anchors, n) /\ ~Has(r.confirmations, n)
  BY <1>n, <1>2 DEF Adopting, FewTombstones, Has
<1>4. CASE o = Refused(x) \/ o = Refused(r)
  BY <1>o, <1>2, <1>3, <1>4 DEF Refused, Observing
<1>5. CASE o = Refused(rejectPending(r, n))
  <2>1. y = rejectPending(r, n)
    BY <1>o, <1>5 DEF Refused
  <2>2. y \in Views(S) /\ FewTombstones(y) /\ Alike(r, y)
    BY <1>1, <1>2, <1>3, <2>1, RejectPendingIs
  <2>. QED BY <1>2, <1>3, <2>2 DEF Alike, Adopting, Observing
<1>6. CASE o = Taken(evictAnchors(WithAnchor(r, a)))
  <2>u. PICK u : u = WithAnchor(r, a)
    OBVIOUS
  <2>1. y = evictAnchors(u)
    BY <1>o, <1>6, <2>u DEF Taken
  <2>2. /\ u \in Views(S) /\ SameButEntries(r, u) /\ u.rejected = r.rejected
        /\ u.confirmations = r.confirmations /\ u.bindings = r.bindings
        /\ u.quarantined = r.quarantined
    BY <1>2, <2>u, WithAnchorIs
  <2>3. /\ \A e \in ToSet(u.anchors) : e \in ToSet(r.anchors) \/ e = a
        /\ Len(u.anchors) = Len(r.anchors) + 1 /\ Distinct(u.anchors)
    <3>1. Distinct(r.anchors) /\ ~Has(r.anchors, a.nonce)
      BY <1>n, <1>3 DEF Adopting
    <3>2. r \in Views(S) /\ a \in RealAnchors(S)
      BY <1>2
    <3>3. \A e \in ToSet(u.anchors) : e \in ToSet(r.anchors) \/ e = a
      <4>1. u.anchors = Append(r.anchors, a) /\ r.anchors \in Seq(RealAnchors(S))
        BY <2>u, <3>2, ViewIs DEF WithAnchor, Views
      <4>2. ToSet(Append(r.anchors, a)) = ToSet(r.anchors) \cup {a}
        BY <3>2, <4>1, AppendIs
      <4>. QED BY <4>1, <4>2
    <3>4. Len(u.anchors) = Len(r.anchors) + 1
      BY <2>u, <3>2, WithAnchorIs
    <3>5. Distinct(u.anchors)
      BY <2>u, <3>1, <3>2, WithAnchorIs
    <3>. QED BY <3>3, <3>4, <3>5
  <2>4. /\ y \in Views(S) /\ (FewTombstones(u) => FewTombstones(y))
        /\ (DistinctMaps(u) => DistinctMaps(y)) /\ Fewer(u, y) /\ SameButEntries(u, y)
        /\ Len(u.anchors) <= MaxPending + 1 => Len(y.anchors) <= MaxPending
        /\ y.confirmations = u.confirmations /\ y.bindings = u.bindings
        /\ y.quarantined = u.quarantined
    BY <2>1, <2>2, EvictAnchorsIs
  <2>5. Len(u.anchors) <= MaxPending + 1
    BY <1>2, <1>3, <2>3, LensIs DEF Adopting
  <2>6. Distinct(y.anchors)
    <3>1. u.anchors \in Seq(RealAnchors(S)) /\ u.anchors # <<>>
      BY <1>2, <2>2, <2>3, ViewIs, LensIs
    <3>2. Distinct(Tail(u.anchors))
      BY <2>3, <3>1, TailIs
    <3>3. y.anchors = u.anchors \/ y.anchors = Tail(u.anchors)
      <4>1. CASE Len(u.anchors) <= MaxPending
        BY <2>1, <4>1 DEF evictAnchors
      <4>2. CASE ~(Len(u.anchors) <= MaxPending)
        <5>z. PICK z : z = [u EXCEPT !.anchors = Tail(@)]
          OBVIOUS
        <5>1. y = reject(z, Head(u.anchors).nonce)
          BY <2>1, <4>2, <5>z DEF evictAnchors
        <5>2. z \in Views(S) /\ z.anchors = Tail(u.anchors)
          <6>1. Tail(u.anchors) \in Seq(RealAnchors(S))
            BY <3>1, TailIs
          <6>. QED BY <2>2, <5>z, <6>1 DEF Views
        <5>3. Head(u.anchors).nonce \in Commands
          BY <3>1, TailIs, Entries
        <5>. QED BY <5>1, <5>2, <5>3, RejectIs DEF Alike
      <4>. QED BY <4>1, <4>2
    <3>. QED BY <2>3, <3>2, <3>3
  <2>7. Observing(x, a, y)
    BY <1>2, <2>3, <2>4 DEF Fewer, Observing
  <2>8. Adopting(v, y, epoch)
    BY <1>3, <2>2, <2>4, <2>5, <2>6 DEF Adopting, SameButEntries, FewTombstones
  <2>. QED BY <2>4, <2>7, <2>8
<1>7. CASE o = Refused(reject(Consumed(r, n), n))
  <2>u. PICK u : u = Consumed(r, n)
    OBVIOUS
  <2>1. y = reject(u, n)
    BY <1>o, <1>7, <2>u DEF Refused
  <2>2. /\ u \in Views(S) /\ SameButEntries(r, u)
        /\ u.confirmations = r.confirmations
        /\ u.anchors = r.anchors /\ u.bindings = r.bindings /\ u.quarantined = r.quarantined
    BY <1>1, <1>2, <1>3, <2>u, ConsumedIs DEF Without
  <2>3. y \in Views(S) /\ Alike(u, y) /\ FewTombstones(y)
    BY <1>1, <2>1, <2>2, RejectIs
  <2>. QED BY <1>2, <1>3, <2>2, <2>3 DEF Alike, Adopting, SameButEntries, Observing
<1>. QED BY <1>n, <1>r, <1>o, <1>2, <1>3, <1>4, <1>5, <1>6, <1>7, ObserveCases

\* All parked marks of the session are observed again.
LEMMA AdoptIs ==
  ASSUME NEW S \in Screens, NEW epoch \in Epochs, epoch # NoEpoch, NEW v \in Views(S),
         Adopting(v, v, epoch), v.anchors = <<>>,
         NEW parked \in Seq(RealAnchors(S)), Distinct(parked), NEW w, w = adopt(v, parked, epoch)
  PROVE  /\ w \in Views(S) /\ Adopting(v, w, epoch)
         /\ ToSet(w.anchors) \subseteq {e \in ToSet(parked) : e.epoch = epoch}
<1> DEFINE D == Views(S)
           Op(u, k) == IF parked[k].epoch = epoch THEN observeAnchor(u, parked[k]).view ELSE u
           Is(g) == g = [s \in SUBSET DOMAIN parked |->
                           IF s = {} THEN v ELSE Op(g[s \ {Max(s)}], Max(s))]
           it == CHOOSE g : Is(g)
<1>n. PICK n \in Nat : n = Len(parked) /\ DOMAIN parked = 1 .. n
  OBVIOUS
<1>0. w = it[1 .. n]
  BY <1>n DEF adopt, FoldLeft, MapThenFoldSet
<1>2. \A k \in 1 .. n, u \in D : Op(u, k) \in D
  <2>1. \A k \in 1 .. n : parked[k] \in RealAnchors(S)
    BY <1>n
  <2>. QED BY <2>1, ObserveTyped
<1> HIDE DEF D, Op
<1>3. \E g : Is(g)
  <2> DEFINE step == [k \in 1 .. n |-> [u \in D |-> Op(u, k)]]
  <2>1. step \in [1 .. n -> [D -> D]]
    BY <1>2
  <2>2. PICK g : IsFold(g, n, D, v, step)
    <3>1. v \in D
      BY DEF D
    <3>. QED BY <2>1, <3>1, FoldExists
  <2>3. \A s \in SUBSET (1 .. n) :
          g[s] = IF s = {} THEN v ELSE Op(g[s \ {Max(s)}], Max(s))
    <3> SUFFICES ASSUME NEW s \in SUBSET (1 .. n), s # {}
                 PROVE  g[s] = Op(g[s \ {Max(s)}], Max(s))
      BY <2>2 DEF IsFold
    <3>1. Max(s) \in 1 .. n /\ s \ {Max(s)} \in SUBSET (1 .. n)
      BY GreatestIndex
    <3>2. g[s \ {Max(s)}] \in D
      BY <2>2, <3>1 DEF IsFold
    <3>. QED BY <2>2, <3>1, <3>2 DEF IsFold
  <2>4. Is(g)
    BY <1>n, <2>2, <2>3 DEF IsFold
  <2>. QED BY <2>4
<1>4. Is(it)
  BY <1>3
<1> HIDE DEF it
<1> DEFINE Rest(k) == {u \in D : /\ Adopting(v, u, epoch)
                                 /\ \A e \in ToSet(u.anchors) :
                                      \E i \in 1 .. k : parked[i] = e /\ e.epoch = epoch}
           C == [k \in 0 .. n |-> Rest(k)]
           f == [k \in 0 .. n |-> it[1 .. k]]
<1>5. \A k \in 1 .. n : f[k] = Op(f[k - 1], k)
  <2> TAKE k \in 1 .. n
  <2>1. /\ k \in 0 .. n /\ k - 1 \in 0 .. n /\ 1 .. k \in SUBSET (1 .. n) /\ 1 .. k # {}
        /\ Max(1 .. k) = k /\ (1 .. k) \ {k} = 1 .. (k - 1)
    BY Segments
  <2>2. it[1 .. k] = Op(it[(1 .. k) \ {Max(1 .. k)}], Max(1 .. k))
    BY <1>n, <1>4, <2>1
  <2>. QED BY <2>1, <2>2
<1>6. f[0] \in C[0]
  <2>1. f[0] = v
    BY <1>n, <1>4, Segments
  <2>2. ToSet(v.anchors) = {}
    BY DEF ToSet
  <2>. QED BY <2>1, <2>2 DEF D
<1>7. \A k \in 1 .. n : f[k - 1] \in C[k - 1] => f[k] \in C[k]
  <2> SUFFICES ASSUME NEW k \in 1 .. n, f[k - 1] \in C[k - 1]
               PROVE  f[k] \in C[k]
    OBVIOUS
  <2>1. k - 1 \in 0 .. n /\ k \in 0 .. n
    OBVIOUS
  <2>x. PICK x : x = f[k - 1]
    OBVIOUS
  <2>y. PICK y : y = f[k]
    OBVIOUS
  <2>2. x \in Rest(k - 1)
    BY <2>1, <2>x
  <2>3. y = Op(x, k)
    BY <1>5, <2>x, <2>y
  <2> HIDE DEF f
  <2>4. /\ x \in Views(S) /\ Adopting(v, x, epoch)
        /\ \A e \in ToSet(x.anchors) : \E i \in 1 .. (k - 1) : parked[i] = e /\ e.epoch = epoch
    BY <2>2 DEF D
  <2>5. CASE parked[k].epoch # epoch
    <3>1. y = x
      BY <2>3, <2>5 DEF Op
    <3>2. \A i \in 1 .. (k - 1) : i \in 1 .. k
      BY <1>n
    <3>3. y \in Rest(k)
      BY <2>4, <3>1, <3>2 DEF D
    <3>. QED BY <2>1, <2>y, <3>3
  <2>6. CASE parked[k].epoch = epoch
    <3>a. PICK a : a = parked[k]
      OBVIOUS
    <3>1. y = observeAnchor(x, a).view /\ a.epoch = epoch /\ a \in RealAnchors(S)
      BY <1>n, <2>3, <2>6, <3>a DEF Op
    <3>2. ~Has(x.anchors, a.nonce)
      <4> SUFFICES ASSUME NEW e \in ToSet(x.anchors), e.nonce = a.nonce
                   PROVE  FALSE
        BY <2>4, ViewIs, HasIs
      <4>1. PICK i \in 1 .. (k - 1) : parked[i] = e
        BY <2>4
      <4>2. i \in DOMAIN parked /\ k \in DOMAIN parked /\ i # k
        BY <1>n
      <4>. QED BY <3>a, <4>1, <4>2 DEF Distinct
    <3>3. /\ y \in Views(S) /\ Adopting(v, y, epoch)
          /\ Observing(x, a, y)
      <4>1. x \in Views(S) /\ Adopting(v, x, epoch)
        BY <2>4
      <4>2. /\ a \in RealAnchors(S) /\ a.epoch = epoch /\ ~Has(x.anchors, a.nonce)
            /\ y = observeAnchor(x, a).view
        BY <3>1, <3>2
      <4>3. y \in Views(S)
        BY <4>1, <4>2, AdoptOne
      <4>4. Adopting(v, y, epoch)
        BY <4>1, <4>2, AdoptOne
      <4>5. Observing(x, a, y)
        BY <4>1, <4>2, AdoptOne
      <4>. QED BY <4>3, <4>4, <4>5
    <3>4. \A e \in ToSet(y.anchors) : \E i \in 1 .. k : parked[i] = e /\ e.epoch = epoch
      <4>1. k \in 1 .. k /\ \A i \in 1 .. (k - 1) : i \in 1 .. k
        BY <1>n
      <4>. QED BY <2>4, <3>a, <3>1, <3>3, <4>1 DEF Observing
    <3>5. y \in Rest(k)
      BY <3>3, <3>4 DEF D
    <3>. QED BY <2>1, <2>y, <3>5
  <2>. QED BY <2>5, <2>6
<1> HIDE DEF C, f
<1>8. \A k \in 0 .. n : f[k] \in C[k]
  BY <1>6, <1>7, Along
<1>9. f[n] \in C[n] /\ n \in 0 .. n
  BY <1>8
<1>10. w \in Rest(n)
  BY <1>0, <1>9 DEF C, f
<1>11. \A e \in ToSet(w.anchors) : e \in ToSet(parked) /\ e.epoch = epoch
  BY <1>n, <1>10 DEF ToSet
<1>. QED BY <1>10, <1>11 DEF D

\* Another session takes over: what belonged to the old one is gone, and its marks
\* that were parked are the new one's.
LEMMA ResetFits ==
  ASSUME NEW S \in Screens, NEW v \in Views(S), Good(v), NEW epoch \in Epochs, epoch # NoEpoch,
         NEW w, w = resetSessionForEpoch(v, epoch)
  PROVE  /\ w \in Views(S) /\ Good(w) /\ Loose(w) \subseteq Loose(v)
         /\ w.sessionEpoch = epoch
<1>1. CASE epoch = v.sessionEpoch
  BY <1>1 DEF resetSessionForEpoch
<1>2. CASE epoch # v.sessionEpoch
  <2>a. PICK map : map = v.anchors \o v.confirmations \o v.bindings
    OBVIOUS
  <2>b. PICK a : a = rejectAll(v, map)
    OBVIOUS
  <2>c. PICK b : b = disposeAll(a, v.anchors)
    OBVIOUS
  <2>d. PICK d : d = disposeAll(b, v.bindings)
    OBVIOUS
  <2>p. PICK park : park = unpark(d.quarantined, epoch)
    OBVIOUS
  <2>f. PICK fresh : fresh =
          [d EXCEPT !.anchors = <<>>, !.confirmations = <<>>, !.bindings = <<>>,
                    !.sessionEpoch = epoch, !.maxSequence = 0, !.quarantined = park]
    OBVIOUS
  <2>w. w = adopt(fresh, d.quarantined, epoch)
    BY <1>2, <2>a, <2>b, <2>c, <2>d, <2>p, <2>f DEF resetSessionForEpoch
  <2>0. /\ v.anchors \in Seq(RealAnchors(S)) /\ v.confirmations \in Seq(Confirmations)
        /\ v.bindings \in Seq(RealBindings(S))
    BY ViewIs
  <2>1. a \in Views(S) /\ Alike(v, a) /\ FewTombstones(a)
    <3>T. PICK T : T = RealAnchors(S) \cup Confirmations \cup RealBindings(S)
      OBVIOUS
    <3>1. \A e \in T : e.nonce \in Commands
      BY <3>T, Entries
    <3>2. map \in Seq(T)
      <4>1. v.anchors \in Seq(T) /\ v.confirmations \in Seq(T) /\ v.bindings \in Seq(T)
        BY <2>0, <3>T
      <4>. QED BY <2>a, <4>1, ConcatProperties
    <3>. QED BY <2>b, <3>1, <3>2, RejectAllIs DEF Good
  <2>2. Fit(a, {}) /\ Told(a) /\ Small(a) /\ Loose(a) = Loose(v)
    BY <2>1, AlikeFits DEF Good
  <2>3. /\ b \in Views(S) /\ Fit(b, {}) /\ Told(b) /\ FewTombstones(b) /\ Fewer(a, b)
        /\ Loose(b) \subseteq Loose(a) /\ b.sessionEpoch = a.sessionEpoch
    BY <2>0, <2>1, <2>2, <2>c, DisposeAllFits
  <2>4. /\ d \in Views(S) /\ Fit(d, {}) /\ Told(d) /\ FewTombstones(d) /\ Fewer(b, d)
        /\ Loose(d) \subseteq Loose(b) /\ d.sessionEpoch = b.sessionEpoch
        /\ \A i \in DOMAIN v.bindings : \A e \in Kept(d) : e.marker # v.bindings[i].marker
    <3>m. PICK m : m = v.bindings
      OBVIOUS
    <3>1. m \in Seq(RealBindings(S)) /\ d = disposeAll(b, m)
      BY <2>0, <2>d, <3>m
    <3>2. /\ d \in Views(S) /\ Fit(d, {}) /\ Told(d) /\ FewTombstones(d) /\ Fewer(b, d)
          /\ Loose(d) \subseteq Loose(b) /\ d.sessionEpoch = b.sessionEpoch
      BY <2>3, <3>1, DisposeAllFits
    <3>3. \A i \in DOMAIN m : \A e \in Kept(d) : e.marker # m[i].marker
      BY <2>3, <3>1, DisposeAllFits
    <3>. QED BY <3>m, <3>2, <3>3
  <2>5. ToSet(d.bindings) = {} /\ d.rail = {}
    <3>1. ToSet(d.bindings) \subseteq ToSet(v.bindings)
      BY <2>1, <2>3, <2>4 DEF Alike, Fewer
    <3>2. \A e \in ToSet(v.bindings) : e \notin Kept(d)
      BY <2>4 DEF ToSet
    <3>3. ToSet(d.bindings) = {}
      BY <3>1, <3>2 DEF Kept
    <3>. QED BY <2>4, <3>3 DEF Told
  <2>6. Small(d)
    BY <2>1, <2>2, <2>3, <2>4, FewerSmall
  <2>7. d.quarantined \in Seq(RealAnchors(S)) /\ Distinct(d.quarantined)
    BY <2>4, ViewIs DEF Fit, DistinctMaps
  <2>8. /\ park \in Seq(RealAnchors(S)) /\ Distinct(park) /\ Len(park) <= Len(d.quarantined)
        /\ ToSet(park) \subseteq ToSet(d.quarantined) /\ \A e \in ToSet(park) : e.epoch # epoch
    BY <2>7, <2>p, UnparkIs
  <2>9. /\ fresh \in Views(S) /\ fresh.anchors = <<>> /\ fresh.confirmations = <<>>
        /\ fresh.bindings = <<>> /\ fresh.sessionEpoch = epoch /\ fresh.quarantined = park
        /\ fresh.cues = d.cues /\ fresh.markers = d.markers /\ fresh.rail = {}
        /\ fresh.rejected = d.rejected
    <3>1. \A T : <<>> \in Seq(T)
      OBVIOUS
    <3>2. 0 \in Sequences0
      BY DEF Sequences0
    <3>. QED BY <2>4, <2>5, <2>8, <2>f, <3>1, <3>2 DEF Views
  <2>10. Adopting(fresh, fresh, epoch)
    <3>1. Distinct(<<>>) /\ Len(<<>>) = 0
      BY DEF Distinct
    <3>2. MaxPending \in Nat
      BY BoundsAssumption
    <3>. QED BY <2>4, <2>9, <3>1, <3>2 DEF Adopting, FewTombstones
  <2>11. /\ w \in Views(S) /\ Adopting(fresh, w, epoch)
         /\ ToSet(w.anchors) \subseteq {e \in ToSet(d.quarantined) : e.epoch = epoch}
    BY <2>7, <2>9, <2>10, <2>w, AdoptIs
  <2>12. /\ w.sessionEpoch = epoch /\ w.confirmations = <<>> /\ w.bindings = <<>>
         /\ w.quarantined = park /\ w.cues = d.cues /\ w.markers = d.markers /\ w.rail = {}
         /\ FewTombstones(w) /\ Distinct(w.anchors) /\ Len(w.anchors) <= MaxPending
    BY <2>9, <2>11 DEF Adopting
  <2>13. ToSet(w.confirmations) = {} /\ ToSet(w.bindings) = {}
    BY <2>12 DEF ToSet
  <2>14. Kept(w) \subseteq Kept(d) /\ Waiting(w) \subseteq Waiting(d)
    BY <2>8, <2>11, <2>12, <2>13 DEF Kept, Waiting
  <2>15. Fit(w, {})
    <3>1. DistinctMaps(w)
      BY <2>8, <2>12 DEF DistinctMaps, Distinct
    <3>2. CuesLive(w)
      BY <2>4, <2>12 DEF Fit, CuesLive
    <3>3. EntriesCued(w, {}) /\ Unannounced(w, {})
      BY <2>4, <2>12, <2>14 DEF Fit, EntriesCued, Unannounced
    <3>4. OneMark(w)
      BY <2>13 DEF OneMark
    <3>5. SessionServed(w)
      BY <2>8, <2>11, <2>12, <2>13 DEF SessionServed, Paired
    <3>. QED BY <3>1, <3>2, <3>3, <3>4, <3>5 DEF Fit
  <2>16. Told(w)
    BY <2>12, <2>13 DEF Told
  <2>17. Small(w)
    <3>1. Len(w.confirmations) = 0 /\ Len(w.bindings) = 0
      BY <2>12
    <3>2. Len(d.quarantined) <= MaxPending /\ Len(d.quarantined) \in Nat /\ Len(park) \in Nat
      BY <2>6, <2>7, <2>8 DEF Small
    <3>3. MaxPending \in Nat /\ MaxBindings \in Nat
      BY BoundsAssumption
    <3>. QED BY <2>8, <2>12, <3>1, <3>2, <3>3 DEF Small
  <2>18. Loose(w) = Loose(d)
    BY <2>12 DEF Loose
  <2>. QED BY <2>2, <2>3, <2>4, <2>11, <2>12, <2>15, <2>16, <2>17, <2>18 DEF Good
<1>. QED BY <1>1, <1>2

\* A confirmation arrives at the pane.
LEMMA ConfirmVisualFits ==
  ASSUME NEW S \in Screens, NEW v \in Views(S), Good(v), NEW f \in Confirmations,
         NEW w, w = confirmVisualAnchor(v, f)
  PROVE  /\ w \in Views(S) /\ Good(w) /\ Loose(w) \subseteq Loose(v) /\ w.sessionEpoch = f.epoch
<1>x. PICK x : x = resetSessionForEpoch(v, f.epoch)
  OBVIOUS
<1>y. PICK y : y = confirm(x, f)
  OBVIOUS
<1>1. f.epoch \in Epochs /\ f.epoch # NoEpoch
  BY Entries
<1>2. x \in Views(S) /\ Good(x) /\ Loose(x) \subseteq Loose(v) /\ x.sessionEpoch = f.epoch
  BY <1>x, <1>1, ResetFits
<1>3. /\ y \in Views(S) /\ Fit(y, {}) /\ Small(y) /\ FewTombstones(y)
      /\ Loose(y) \subseteq Loose(x) /\ (Told(y) \/ ToBeTold(y, f.nonce))
      /\ y.sessionEpoch = f.epoch
  BY <1>y, <1>2, ConfirmFits
<1>4. w = registerConfirmedVisualCue(y, f.nonce)
  BY <1>x, <1>y DEF confirmVisualAnchor
<1>. QED BY <1>2, <1>3, <1>4, RegisterConfirmedFits

\* The first n entries of a map.
LEMMA FirstIs ==
  ASSUME NEW T, NEW map \in Seq(T), NEW n \in 0 .. Len(map)
  PROVE  SubSeq(map, 1, n) \in Seq(T)
<1>1. \A i \in 1 .. n : map[i] \in T
  OBVIOUS
<1>. QED BY <1>1, SubSeqProperties

\* Entries that expire leave the markers and the cues alone.
LEMMA PruneFits ==
  ASSUME NEW S \in Screens, NEW v \in Views(S), Good(v), NEW i \in 0 .. Len(v.anchors),
         NEW j \in 0 .. Len(v.confirmations), NEW k \in 0 .. Len(v.rejected),
         NEW w, w = prune(v, i, j, k)
  PROVE  /\ w \in Views(S) /\ Good(w) /\ Loose(w) = Loose(v) /\ w.sessionEpoch = v.sessionEpoch
<1>a. PICK a : a = SubSeq(v.anchors, i + 1, Len(v.anchors))
  OBVIOUS
<1>c. PICK c : c = SubSeq(v.confirmations, j + 1, Len(v.confirmations))
  OBVIOUS
<1>r. PICK r : r = SubSeq(v.rejected, k + 1, Len(v.rejected))
  OBVIOUS
<1>u. PICK u : u = [v EXCEPT !.anchors = a, !.confirmations = c, !.rejected = r]
  OBVIOUS
<1>m. PICK map : map = SubSeq(v.anchors, 1, i) \o SubSeq(v.confirmations, 1, j)
  OBVIOUS
<1>w. w = rejectAll(u, map)
  BY <1>a, <1>c, <1>r, <1>u, <1>m DEF prune
<1>0. /\ v.anchors \in Seq(RealAnchors(S)) /\ v.confirmations \in Seq(Confirmations)
      /\ v.rejected \in Seq(Tombstones)
      /\ Distinct(v.anchors) /\ Distinct(v.confirmations)
  BY ViewIs DEF Good, Fit, DistinctMaps
<1>1. /\ a \in Seq(RealAnchors(S)) /\ Len(a) <= Len(v.anchors)
      /\ ToSet(a) \subseteq ToSet(v.anchors) /\ Distinct(a)
  BY <1>0, <1>a, RestIs
<1>2. /\ c \in Seq(Confirmations) /\ Len(c) <= Len(v.confirmations)
      /\ ToSet(c) \subseteq ToSet(v.confirmations) /\ Distinct(c)
  BY <1>0, <1>c, RestIs
<1>3. r \in Seq(Tombstones) /\ Len(r) <= Len(v.rejected)
  BY <1>0, <1>r, RestIs
<1>4. /\ u \in Views(S) /\ u.anchors = a /\ u.confirmations = c /\ u.rejected = r
      /\ u.bindings = v.bindings /\ u.quarantined = v.quarantined
      /\ u.cues = v.cues /\ u.markers = v.markers /\ u.rail = v.rail
      /\ u.sessionEpoch = v.sessionEpoch
  BY <1>1, <1>2, <1>3, <1>u DEF Views
<1>5. Len(u.bindings) <= Len(v.bindings) /\ Len(u.quarantined) <= Len(v.quarantined)
  BY <1>4, LensIs
<1>6. Fewer(v, u) /\ DistinctMaps(u)
  BY <1>1, <1>2, <1>4, <1>5 DEF Fewer, DistinctMaps, Good, Fit
<1>7. Fit(u, {})
  BY <1>4, <1>6, FewerFits DEF Good
<1>8. Small(u)
  BY <1>4, <1>6, FewerSmall DEF Good
<1>9. FewTombstones(u)
  <2>1. Len(r) \in Nat /\ Len(v.rejected) \in Nat /\ MaxTombstones \in Nat
    BY <1>0, <1>3, BoundsAssumption
  <2>. QED BY <1>3, <1>4, <2>1 DEF FewTombstones, Good
<1>10. Told(u) /\ Loose(u) = Loose(v)
  BY <1>4 DEF Told, Loose, Good
<1>T. PICK T : T = RealAnchors(S) \cup Confirmations
  OBVIOUS
<1>11. \A e \in T : e.nonce \in Commands
  BY <1>T, Entries
<1>12. map \in Seq(T)
  <2>1. SubSeq(v.anchors, 1, i) \in Seq(RealAnchors(S)) /\ SubSeq(v.confirmations, 1, j) \in Seq(Confirmations)
    BY <1>0, FirstIs
  <2>2. SubSeq(v.anchors, 1, i) \in Seq(T) /\ SubSeq(v.confirmations, 1, j) \in Seq(T)
    BY <1>T, <2>1
  <2>. QED BY <1>m, <2>2, ConcatProperties
<1>13. w \in Views(S) /\ Alike(u, w) /\ FewTombstones(w)
  BY <1>4, <1>9, <1>11, <1>12, <1>w, RejectAllIs
<1>14. Fit(w, {}) /\ Told(w) /\ Small(w) /\ Loose(w) = Loose(u)
  BY <1>7, <1>8, <1>10, <1>13, AlikeFits
<1>. QED BY <1>4, <1>10, <1>13, <1>14 DEF Good, Alike

\* The elements of a finite set, in some order.
LEMMA InSomeOrder ==
  ASSUME NEW T, NEW C \in SUBSET T, IsFiniteSet(C)
  PROVE  SetToSeq(C) \in Seq(T)
<1>n. PICK n \in Nat : n = Cardinality(C)
  BY FS_CardinalityType
<1>1. \E f \in [1 .. n -> C] : IsInjective(f)
  <2>1. PICK f : ExistsBijection(1 .. n, C) /\ f \in Bijection(1 .. n, C)
    BY <1>n, FS_CardinalityType DEF ExistsBijection
  <2>2. f \in [1 .. n -> C] /\ IsInjective(f)
    BY <2>1 DEF Bijection, Injection, IsInjective
  <2>. QED BY <2>2
<1>2. SetToSeq(C) \in [1 .. n -> C]
  BY <1>n, <1>1 DEF SetToSeq
<1>. QED BY <1>2

\* A clear leaves nothing.
LEMMA ReleaseFits ==
  ASSUME NEW S \in Screens, NEW v \in Views(S), Good(v),
         NEW w, w = releasePresentationState(v)
  PROVE  /\ w \in Views(S) /\ Good(w) /\ Loose(w) \subseteq Loose(v) /\ w.sessionEpoch = v.sessionEpoch
<1>c. PICK cued : cued = {cue \in v.cues : ~Has(v.quarantined, cue.nonce)}
  OBVIOUS
<1>m. PICK map : map = v.anchors \o v.confirmations \o v.bindings \o SetToSeq(cued)
  OBVIOUS
<1>u. PICK u : u = rejectAll(v, map)
  OBVIOUS
<1>g. PICK gone : gone = {e.marker : e \in v.cues \cup ToSet(v.anchors)
                                             \cup ToSet(v.bindings) \cup ToSet(v.quarantined)}
  OBVIOUS
<1>l. PICK left : left = u.markers \ gone
  OBVIOUS
<1>w. w = [u EXCEPT !.anchors = <<>>, !.confirmations = <<>>, !.bindings = <<>>,
                    !.quarantined = <<>>, !.cues = {}, !.rail = {}, !.markers = left]
  BY <1>c, <1>m, <1>u, <1>g, <1>l DEF releasePresentationState
<1>0. /\ v.anchors \in Seq(RealAnchors(S)) /\ v.confirmations \in Seq(Confirmations)
      /\ v.bindings \in Seq(RealBindings(S)) /\ v.cues \subseteq Cues(S) /\ IsFiniteSet(v.cues)
  BY ViewIs
<1>T. PICK T : T = RealAnchors(S) \cup Confirmations \cup RealBindings(S) \cup Cues(S)
  OBVIOUS
<1>1. \A e \in T : e.nonce \in Commands
  BY <1>T, Entries DEF Cues
<1>2. map \in Seq(T)
  <2>1. v.anchors \in Seq(T) /\ v.confirmations \in Seq(T) /\ v.bindings \in Seq(T)
    BY <1>0, <1>T
  <2>2. SetToSeq(cued) \in Seq(T)
    <3>1. cued \in SUBSET T
      BY <1>0, <1>c, <1>T
    <3>2. IsFiniteSet(cued)
      BY <1>0, <1>c, FS_Subset
    <3>. QED BY <3>1, <3>2, InSomeOrder
  <2>. QED BY <1>m, <2>1, <2>2, ConcatProperties
<1>3. u \in Views(S) /\ Alike(v, u) /\ FewTombstones(u)
  BY <1>1, <1>2, <1>u, RejectAllIs DEF Good
<1>4. /\ w \in Views(S) /\ w.anchors = <<>> /\ w.confirmations = <<>> /\ w.bindings = <<>>
      /\ w.quarantined = <<>> /\ w.cues = {} /\ w.rail = {}
      /\ w.rejected = u.rejected /\ w.sessionEpoch = v.sessionEpoch
      /\ w.markers = left
  <2>1. <<>> \in Seq(RealAnchors(S)) /\ <<>> \in Seq(Confirmations) /\ <<>> \in Seq(RealBindings(S))
    OBVIOUS
  <2>2. IsFiniteSet({})
    BY FS_EmptySet
  <2>3. left \subseteq DOMAIN S
    BY <1>3, <1>l, ViewIs
  <2>4. {} \in {C \in SUBSET Cues(S) : IsFiniteSet(C)} /\ {} \in SUBSET Commands
    BY <2>2
  <2>5. w \in Views(S)
    <3>c. PICK X : X = {C \in SUBSET Cues(S) : IsFiniteSet(C)}
      OBVIOUS
    <3>1. {} \in X /\ left \in SUBSET DOMAIN S
      BY <2>3, <2>4, <3>c
    <3>. QED BY <1>3, <1>w, <2>1, <2>4, <3>c, <3>1 DEF Views
  <2>. QED BY <1>3, <1>w, <2>5 DEF Views, Alike
<1>5. /\ ToSet(w.anchors) = {} /\ ToSet(w.confirmations) = {} /\ ToSet(w.bindings) = {}
      /\ ToSet(w.quarantined) = {}
  BY <1>4 DEF ToSet
<1>6. Kept(w) = {} /\ Waiting(w) = {} /\ Paired(w) = {}
  BY <1>5 DEF Kept, Waiting, Paired
<1>7. Fit(w, {})
  <2>1. DistinctMaps(w)
    BY <1>4 DEF DistinctMaps, Distinct
  <2>2. CuesLive(w) /\ EntriesCued(w, {}) /\ Unannounced(w, {})
    BY <1>4, <1>6 DEF CuesLive, EntriesCued, Unannounced
  <2>3. OneMark(w) /\ SessionServed(w)
    BY <1>5, <1>6 DEF OneMark, SessionServed
  <2>. QED BY <2>1, <2>2, <2>3 DEF Fit
<1>8. Small(w)
  <2>1. Len(<<>>) = 0 /\ MaxPending \in Nat /\ MaxBindings \in Nat
    BY BoundsAssumption
  <2>. QED BY <1>4, <2>1 DEF Small
<1>9. Told(w) /\ FewTombstones(w)
  BY <1>3, <1>4, <1>5 DEF Told, FewTombstones
<1>10. Loose(w) \subseteq Loose(v)
  <2>1. \A c \in v.cues : c.marker \in gone
    BY <1>g
  <2>2. left = v.markers \ gone
    BY <1>3, <1>l DEF Alike
  <2>. QED BY <1>4, <2>1, <2>2 DEF Loose
<1>. QED BY <1>4, <1>7, <1>8, <1>9, <1>10 DEF Good

\* The confirmations of the history, one after the other.
ConfirmAll(v, answer) ==
  FoldLeft(LAMBDA w, c : confirmVisualAnchor(w, Confirmation(c)), v, answer)

\* The answer of the history arrives at the pane.
LEMMA ConfirmAllFits ==
  ASSUME NEW S \in Screens, NEW v \in Views(S), Good(v), NEW answer \in Seq(Commands),
         NEW w, w = ConfirmAll(v, answer)
  PROVE  /\ w \in Views(S) /\ Good(w) /\ Loose(w) \subseteq Loose(v)
         /\ \/ w.sessionEpoch = v.sessionEpoch
            \/ \E i \in DOMAIN answer : w.sessionEpoch = EpochOf[answer[i]]
<1> DEFINE D == {u \in Views(S) : Good(u)}
           Is(g) == g = [s \in SUBSET DOMAIN answer |->
                           IF s = {} THEN v
                           ELSE confirmVisualAnchor(g[s \ {Max(s)}], Confirmation(answer[Max(s)]))]
           it == CHOOSE g : Is(g)
<1>n. PICK n \in Nat : n = Len(answer) /\ DOMAIN answer = 1 .. n
  OBVIOUS
<1>0. w = it[1 .. n]
  BY <1>n DEF ConfirmAll, FoldLeft, MapThenFoldSet
<1>1. \A k \in 1 .. n : /\ Confirmation(answer[k]) \in Confirmations
                        /\ Confirmation(answer[k]).epoch = EpochOf[answer[k]]
  BY <1>n DEF Confirmations, Confirmation, Frame
<1>2. \A k \in 1 .. n, u \in D : confirmVisualAnchor(u, Confirmation(answer[k])) \in D
  BY <1>1, ConfirmVisualFits
<1> HIDE DEF D
<1>3. \E g : Is(g)
  <2> DEFINE step == [k \in 1 .. n |-> [u \in D |-> confirmVisualAnchor(u, Confirmation(answer[k]))]]
  <2>1. step \in [1 .. n -> [D -> D]]
    BY <1>2
  <2>2. PICK g : IsFold(g, n, D, v, step)
    <3>1. v \in D
      BY DEF D
    <3>. QED BY <2>1, <3>1, FoldExists
  <2>3. \A s \in SUBSET (1 .. n) :
          g[s] = IF s = {} THEN v
                 ELSE confirmVisualAnchor(g[s \ {Max(s)}], Confirmation(answer[Max(s)]))
    <3> SUFFICES ASSUME NEW s \in SUBSET (1 .. n), s # {}
                 PROVE  g[s] = confirmVisualAnchor(g[s \ {Max(s)}], Confirmation(answer[Max(s)]))
      BY <2>2 DEF IsFold
    <3>1. Max(s) \in 1 .. n /\ s \ {Max(s)} \in SUBSET (1 .. n)
      BY GreatestIndex
    <3>2. g[s \ {Max(s)}] \in D
      BY <2>2, <3>1 DEF IsFold
    <3>. QED BY <2>2, <3>1, <3>2 DEF IsFold
  <2>4. Is(g)
    BY <1>n, <2>2, <2>3 DEF IsFold
  <2>. QED BY <2>4
<1>4. Is(it)
  BY <1>3
<1> HIDE DEF it
<1> DEFINE Rest(k) == {u \in D : /\ Loose(u) \subseteq Loose(v)
                                 /\ \/ u.sessionEpoch = v.sessionEpoch
                                    \/ \E i \in 1 .. k : u.sessionEpoch = EpochOf[answer[i]]}
           C == [k \in 0 .. n |-> Rest(k)]
           f == [k \in 0 .. n |-> it[1 .. k]]
<1>5. \A k \in 1 .. n : f[k] = confirmVisualAnchor(f[k - 1], Confirmation(answer[k]))
  <2> TAKE k \in 1 .. n
  <2>1. /\ k \in 0 .. n /\ k - 1 \in 0 .. n /\ 1 .. k \in SUBSET (1 .. n) /\ 1 .. k # {}
        /\ Max(1 .. k) = k /\ (1 .. k) \ {k} = 1 .. (k - 1)
    BY Segments
  <2>2. it[1 .. k] = confirmVisualAnchor(it[(1 .. k) \ {Max(1 .. k)}], Confirmation(answer[Max(1 .. k)]))
    BY <1>n, <1>4, <2>1
  <2>. QED BY <2>1, <2>2
<1>6. f[0] \in C[0]
  <2>1. f[0] = v
    BY <1>n, <1>4, Segments
  <2>. QED BY <2>1 DEF D
<1>7. \A k \in 1 .. n : f[k - 1] \in C[k - 1] => f[k] \in C[k]
  <2> SUFFICES ASSUME NEW k \in 1 .. n, f[k - 1] \in C[k - 1]
               PROVE  f[k] \in C[k]
    OBVIOUS
  <2>1. k - 1 \in 0 .. n /\ k \in 0 .. n
    OBVIOUS
  <2>x. PICK x : x = f[k - 1]
    OBVIOUS
  <2>y. PICK y : y = f[k]
    OBVIOUS
  <2>c. PICK c : c = Confirmation(answer[k])
    OBVIOUS
  <2>2. x \in Rest(k - 1)
    BY <2>1, <2>x
  <2>3. y = confirmVisualAnchor(x, c)
    BY <1>5, <2>x, <2>y, <2>c
  <2> HIDE DEF f
  <2>4. x \in Views(S) /\ Good(x) /\ Loose(x) \subseteq Loose(v)
    BY <2>2 DEF D
  <2>5. c \in Confirmations /\ c.epoch = EpochOf[answer[k]]
    BY <1>1, <2>c
  <2>6. y \in Views(S) /\ Good(y) /\ Loose(y) \subseteq Loose(x) /\ y.sessionEpoch = c.epoch
    BY <2>3, <2>4, <2>5, ConfirmVisualFits
  <2>7. k \in 1 .. k
    BY <1>n
  <2>8. y \in Rest(k)
    BY <2>4, <2>5, <2>6, <2>7 DEF D
  <2>. QED BY <2>1, <2>y, <2>8
<1> HIDE DEF C, f
<1>8. \A k \in 0 .. n : f[k] \in C[k]
  BY <1>6, <1>7, Along
<1>9. f[n] \in C[n] /\ n \in 0 .. n
  BY <1>8
<1>10. w \in Rest(n)
  BY <1>0, <1>9 DEF C, f
<1>. QED BY <1>n, <1>10 DEF D

-----------------------------------------------------------------------------
(* The screen grows. *)

\* The view of a screen is one of the screen with a line more, whose marker is new.
LEMMA ViewsGrow ==
  ASSUME NEW S \in Screens, NEW line \in ShownLines, NEW v \in Views(S)
  PROVE  /\ Append(S, line) \in Screens /\ v \in Views(Append(S, line))
         /\ Len(S) + 1 \in DOMAIN Append(S, line) /\ Append(S, line)[Len(S) + 1] = line
         /\ Len(S) + 1 \notin v.markers
<1>s. PICK T : T = Append(S, line)
  OBVIOUS
<1>1. /\ T \in Screens /\ DOMAIN T = 1 .. (Len(S) + 1) /\ DOMAIN S = 1 .. Len(S) /\ Len(S) \in Nat
      /\ \A i \in 1 .. Len(S) : T[i] = S[i]
      /\ T[Len(S) + 1] = line
  BY <1>s DEF Screens
<1>2. DOMAIN S \subseteq DOMAIN T /\ \A i \in DOMAIN S : T[i] = S[i]
  BY <1>1
<1>3. RealAnchors(S) \subseteq RealAnchors(T) /\ RealBindings(S) \subseteq RealBindings(T)
      /\ Cues(S) \subseteq Cues(T)
  BY <1>2 DEF RealAnchors, RealBindings, Cues
<1>4. /\ v.anchors \in Seq(RealAnchors(T)) /\ v.bindings \in Seq(RealBindings(T))
      /\ v.quarantined \in Seq(RealAnchors(T)) /\ v.markers \in SUBSET DOMAIN T
      /\ v.cues \in {C \in SUBSET Cues(T) : IsFiniteSet(C)}
  BY <1>2, <1>3, ViewIs
<1>5. v \in Views(T)
  BY <1>4 DEF Views
<1>6. Len(S) + 1 \notin v.markers
  BY <1>1, ViewIs
<1>. QED BY <1>s, <1>1, <1>5, <1>6

\* The newest entries are entries.
LEMMA NewestKept ==
  ASSUME NEW T, NEW map \in Seq(T), NEW n \in Nat
  PROVE  Newest(map, n) \in Seq(T) /\ ToSet(Newest(map, n)) \subseteq ToSet(map)
<1>1. CASE Len(map) <= n
  BY <1>1 DEF Newest
<1>2. CASE ~(Len(map) <= n)
  <2>1. Len(map) - n \in 0 .. Len(map)
    BY <1>2
  <2>2. Newest(map, n) = SubSeq(map, (Len(map) - n) + 1, Len(map))
    BY <1>2 DEF Newest
  <2>. QED BY <2>1, <2>2, RestIs
<1>. QED BY <1>1, <1>2

-----------------------------------------------------------------------------
(* The inductive invariant, and what every step does. *)

Histories ==
  [state : {"none", "asked", "answered", "read"},
   answer : {s \in Seq(Commands) : ToSet(s) \subseteq ToSet(published)}]

AnchorInv ==
  /\ screen \in Screens
  /\ view \in Views(screen)
  /\ Good(view)
  /\ opened \in {"no", "loading", "loaded"}
  /\ published \in Seq(Commands)
  /\ delivered \in 0 .. Len(published)
  /\ history \in Histories

\* The session is replaced by a published confirmation only.
SessionKept ==
  \/ view.sessionEpoch = NoEpoch
  \/ view'.sessionEpoch = view.sessionEpoch
  \/ screen' = screen /\ view'.sessionEpoch \in {EpochOf[published[i]] : i \in DOMAIN published}

Advance ==
  /\ AnchorInv'
  /\ Loose(view') \subseteq view.markers \ {e.marker : e \in Kept(view)}
  /\ SessionKept

\* The invariant holds of a pane that has not opened.
LEMMA AnchorInit == Init => AnchorInv
<1> SUFFICES ASSUME Init
             PROVE  AnchorInv
  OBVIOUS
<1>1. /\ screen = <<>> /\ opened = "no" /\ published = <<>> /\ delivered = 0
      /\ history = [state |-> "none", answer |-> <<>>]
  BY DEF Init
<1>2. /\ view.sessionEpoch = NoEpoch /\ view.anchors = <<>> /\ view.confirmations = <<>>
      /\ view.bindings = <<>> /\ view.rejected = <<>> /\ view.quarantined = <<>>
      /\ view.cues = {} /\ view.markers = {} /\ view.rail = {}
  BY DEF Init, EmptyView
<1>3. /\ ToSet(view.anchors) = {} /\ ToSet(view.confirmations) = {} /\ ToSet(view.bindings) = {}
      /\ ToSet(view.quarantined) = {}
  BY <1>2 DEF ToSet
<1>4. screen \in Screens /\ published \in Seq(Commands) /\ delivered \in 0 .. Len(published)
  BY <1>1 DEF Screens
<1>5. view \in Views(screen)
  <2>1. /\ <<>> \in Seq(RealAnchors(screen)) /\ <<>> \in Seq(Confirmations)
        /\ <<>> \in Seq(RealBindings(screen)) /\ <<>> \in Seq(Tombstones)
    OBVIOUS
  <2>c. PICK X : X = {C \in SUBSET Cues(screen) : IsFiniteSet(C)}
    OBVIOUS
  <2>2. {} \in X
    BY <2>c, FS_EmptySet
  <2>3. NoEpoch \in Epochs /\ 0 \in Sequences0
    BY DEF Epochs, Sequences0
  <2>. QED BY <2>1, <2>c, <2>2, <2>3 DEF Init, EmptyView, Views
<1>6. Good(view)
  <2>1. DistinctMaps(view)
    BY <1>2 DEF DistinctMaps, Distinct
  <2>2. Kept(view) = {} /\ Waiting(view) = {} /\ Paired(view) = {}
    BY <1>3 DEF Kept, Waiting, Paired
  <2>3. CuesLive(view) /\ EntriesCued(view, {}) /\ Unannounced(view, {})
    BY <1>2, <2>2 DEF CuesLive, EntriesCued, Unannounced
  <2>4. OneMark(view) /\ SessionServed(view)
    BY <1>3, <2>2 DEF OneMark, SessionServed
  <2>5. Told(view)
    BY <1>2, <1>3 DEF Told
  <2>6. Small(view) /\ FewTombstones(view)
    <3>1. Len(<<>>) = 0 /\ MaxPending \in Nat /\ MaxBindings \in Nat /\ MaxTombstones \in Nat
      BY BoundsAssumption
    <3>. QED BY <1>2, <3>1 DEF Small, FewTombstones
  <2>. QED BY <2>1, <2>3, <2>4, <2>5, <2>6 DEF Good, Fit
<1>7. history \in Histories
  BY <1>1 DEF Histories, ToSet
<1>. QED BY <1>1, <1>4, <1>5, <1>6, <1>7 DEF AnchorInv

\* A step that leaves the view alone.
LEMMA ViewStands ==
  ASSUME AnchorInv, view' = view, screen' = screen
  PROVE  /\ screen' \in Screens /\ view' \in Views(screen') /\ Good(view')
         /\ Loose(view') \subseteq view.markers \ {e.marker : e \in Kept(view)}
         /\ SessionKept
<1>1. screen \in Screens /\ view \in Views(screen) /\ Good(view)
  BY DEF AnchorInv
<1>2. Loose(view) \subseteq view.markers \ {e.marker : e \in Kept(view)}
  BY <1>1, KeptNotLoose DEF Good
<1>. QED BY <1>1, <1>2 DEF SessionKept

\* A step of the view on the screen as it is.
LEMMA ViewMoves ==
  ASSUME AnchorInv, screen' = screen, view' \in Views(screen), Good(view'),
         Loose(view') \subseteq Loose(view)
  PROVE  /\ screen' \in Screens /\ view' \in Views(screen') /\ Good(view')
         /\ Loose(view') \subseteq view.markers \ {e.marker : e \in Kept(view)}
<1>1. Loose(view) \subseteq view.markers \ {e.marker : e \in Kept(view)}
  BY KeptNotLoose DEF Good, AnchorInv
<1>. QED BY <1>1 DEF AnchorInv

\* A line is printed.
LEMMA PrintedFits ==
  ASSUME AnchorInv, NEW f \in ShownFrames, NEW began \in BOOLEAN, Printed(f, began)
  PROVE  /\ screen' \in Screens /\ view' \in Views(screen') /\ Good(view')
         /\ Loose(view') \subseteq view.markers \ {e.marker : e \in Kept(view)}
         /\ SessionKept
<1>s. PICK S : S = screen
  OBVIOUS
<1>l. PICK line : line = [frame |-> f, began |-> began]
  OBVIOUS
<1>t. PICK T : T = Append(S, line)
  OBVIOUS
<1>k. PICK k : k = Len(S) + 1
  OBVIOUS
<1>1. S \in Screens /\ view \in Views(S) /\ Good(view) /\ line \in ShownLines /\ line.frame = f
  BY <1>s, <1>l DEF AnchorInv, ShownLines
<1>2. /\ T \in Screens /\ view \in Views(T) /\ k \in DOMAIN T /\ T[k] = line /\ k \notin view.markers
  BY <1>1, <1>t, <1>k, ViewsGrow
<1>3. screen' = T
  BY <1>s, <1>l, <1>t DEF Printed
<1>4. CASE opened = "loaded"
  <2>1. view' = registerVisualAnchor(view, f, k)
    BY <1>s, <1>k, <1>4 DEF Printed
  <2>2. f = T[k].frame
    BY <1>1, <1>2
  <2>w. PICK w : w = view'
    OBVIOUS
  <2>v. PICK v : v = view
    OBVIOUS
  <2>3. /\ w \in Views(T) /\ Good(w)
        /\ Loose(w) \subseteq v.markers \ {e.marker : e \in Kept(v)}
        /\ v.sessionEpoch = NoEpoch \/ w.sessionEpoch = v.sessionEpoch
    <3>1. v \in Views(T) /\ Good(v) /\ k \notin v.markers /\ w = registerVisualAnchor(v, f, k)
      BY <1>1, <1>2, <2>1, <2>w, <2>v
    <3>. QED BY <1>2, <2>2, <3>1, RegisterFits
  <2>. QED BY <1>2, <1>3, <2>w, <2>v, <2>3 DEF SessionKept
<1>5. CASE opened # "loaded"
  <2>1. view' = view
    BY <1>5 DEF Printed
  <2>2. Loose(view) \subseteq view.markers \ {e.marker : e \in Kept(view)}
    BY <1>1, KeptNotLoose DEF Good
  <2>. QED BY <1>1, <1>2, <1>3, <2>1, <2>2 DEF SessionKept
<1>. QED BY <1>4, <1>5

\* What the rest of the state keeps.
Others ==
  /\ opened \in {"no", "loading", "loaded"} /\ published \in Seq(Commands)
  /\ delivered \in 0 .. Len(published) /\ history \in Histories

\* Every line shows a frame of a known producer.
LEMMA FramesAreShown ==
  ASSUME AnchorInv
  PROVE  \A i \in DOMAIN screen : screen[i].frame \in ShownFrames
<1>1. screen \in Seq(ShownLines)
  BY DEF AnchorInv, Screens
<1>2. \A i \in DOMAIN screen : screen[i] \in ShownLines
  BY <1>1
<1>. QED BY <1>2 DEF ShownLines

\* The shell starts a command: its mark is registered.
LEMMA CommandStartsFits ==
  ASSUME AnchorInv, CommandStarts
  PROVE  Advance
<1>1. PICK c \in Commands : Printed(Confirmation(c), TRUE)
  BY DEF CommandStarts
<1>2. Confirmation(c) \in ShownFrames
  BY ProducerAssumption DEF ShownFrames, Confirmation
<1>3. Others'
  BY DEF AnchorInv, CommandStarts, Others, Histories
<1>4. /\ screen' \in Screens /\ view' \in Views(screen') /\ Good(view')
      /\ Loose(view') \subseteq view.markers \ {e.marker : e \in Kept(view)} /\ SessionKept
  BY <1>1, <1>2, PrintedFits
<1>. QED BY <1>3, <1>4 DEF Advance, AnchorInv, Others, Histories

\* A frame is shown again.
LEMMA FrameReplayedFits ==
  ASSUME AnchorInv, FrameReplayed
  PROVE  Advance
<1>1. PICK i \in DOMAIN screen : Printed(screen[i].frame, FALSE)
  BY DEF FrameReplayed
<1>2. screen[i].frame \in ShownFrames
  BY FramesAreShown
<1>3. Others'
  BY DEF AnchorInv, FrameReplayed, Others, Histories
<1>4. /\ screen' \in Screens /\ view' \in Views(screen') /\ Good(view')
      /\ Loose(view') \subseteq view.markers \ {e.marker : e \in Kept(view)} /\ SessionKept
  BY <1>1, <1>2, PrintedFits
<1>. QED BY <1>3, <1>4 DEF Advance, AnchorInv, Others, Histories

\* What began is a command.
LEMMA BeganAreCommands ==
  ASSUME AnchorInv
  PROVE  Began \subseteq Commands
<1>1. \A i \in DOMAIN screen : screen[i].frame \in ShownFrames
  BY FramesAreShown
<1>2. \A f \in ShownFrames : f.nonce \in Commands
  BY DEF ShownFrames, Frame
<1>. QED BY <1>1, <1>2 DEF Began

\* A frame of another producer is shown.
LEMMA ForeignFrameFits ==
  ASSUME AnchorInv, ForeignFrame
  PROVE  Advance
<1>1. PICK c \in Began, producer \in Producers : Printed(Frame(c, producer), FALSE)
  BY DEF ForeignFrame
<1>2. Frame(c, producer) \in ShownFrames
  BY <1>1, BeganAreCommands DEF ShownFrames
<1>3. Others'
  BY DEF AnchorInv, ForeignFrame, Others, Histories
<1>4. /\ screen' \in Screens /\ view' \in Views(screen') /\ Good(view')
      /\ Loose(view') \subseteq view.markers \ {e.marker : e \in Kept(view)} /\ SessionKept
  BY <1>1, <1>2, PrintedFits
<1>. QED BY <1>3, <1>4 DEF Advance, AnchorInv, Others, Histories

\* A confirmation is sent; the pane does not see it yet.
LEMMA PublishFits ==
  ASSUME AnchorInv, Publish
  PROVE  Advance
<1>1. PICK c \in Began : published' = Append(published, c)
  BY DEF Publish
<1>2. c \in Commands /\ published \in Seq(Commands)
  BY <1>1, BeganAreCommands DEF AnchorInv
<1>3. /\ published' \in Seq(Commands) /\ Len(published') = Len(published) + 1
      /\ ToSet(published') = ToSet(published) \cup {c}
  <2>1. /\ Append(published, c) \in Seq(Commands) /\ Len(Append(published, c)) = Len(published) + 1
        /\ ToSet(Append(published, c)) = ToSet(published) \cup {c}
    BY <1>2, AppendIs
  <2>. QED BY <1>1, <2>1
<1>4. delivered' \in 0 .. Len(published')
  <2>1. Len(published) \in Nat
    BY <1>2
  <2>. QED BY <1>3, <2>1 DEF AnchorInv, Publish
<1>5. history' \in Histories'
  <2>1. \A s : ToSet(s) \subseteq ToSet(published) => ToSet(s) \subseteq ToSet(published')
    BY <1>3
  <2>. QED BY <2>1 DEF AnchorInv, Publish, Histories
<1>6. /\ screen' \in Screens /\ view' \in Views(screen') /\ Good(view')
      /\ Loose(view') \subseteq view.markers \ {e.marker : e \in Kept(view)} /\ SessionKept
  BY ViewStands DEF Publish
<1>7. opened' \in {"no", "loading", "loaded"}
  BY DEF AnchorInv, Publish
<1>. QED BY <1>3, <1>4, <1>5, <1>6, <1>7 DEF Advance, AnchorInv

\* The pane subscribes and asks for the history.
LEMMA OpenFits ==
  ASSUME AnchorInv, Open
  PROVE  Advance
<1>1. history' = [history EXCEPT !.state = "asked"] /\ published' = published
      /\ delivered' = Len(published) /\ opened' = "loading"
  BY DEF Open
<1>2. Len(published) \in 0 .. Len(published)
  BY DEF AnchorInv
<1>3. history' \in Histories'
  BY <1>1 DEF AnchorInv, Histories
<1>4. /\ screen' \in Screens /\ view' \in Views(screen') /\ Good(view')
      /\ Loose(view') \subseteq view.markers \ {e.marker : e \in Kept(view)} /\ SessionKept
  BY ViewStands DEF Open
<1>. QED BY <1>1, <1>2, <1>3, <1>4 DEF Advance, AnchorInv

\* The answer to the history call is one of the published confirmations.
LEMMA HistoryAnsweredFits ==
  ASSUME AnchorInv, HistoryAnswered
  PROVE  Advance
<1>1. history' = [state |-> "answered", answer |-> Newest(published, 1)]
      /\ published' = published /\ delivered' = delivered /\ opened' = opened
  BY DEF HistoryAnswered
<1>2. Newest(published, 1) \in Seq(Commands) /\ ToSet(Newest(published, 1)) \subseteq ToSet(published)
  <2>1. published \in Seq(Commands) /\ 1 \in Nat
    BY DEF AnchorInv
  <2>. QED BY <2>1, NewestKept
<1>3. history' \in Histories'
  BY <1>1, <1>2 DEF Histories
<1>4. /\ screen' \in Screens /\ view' \in Views(screen') /\ Good(view')
      /\ Loose(view') \subseteq view.markers \ {e.marker : e \in Kept(view)} /\ SessionKept
  BY ViewStands DEF HistoryAnswered
<1>. QED BY <1>1, <1>3, <1>4 DEF Advance, AnchorInv

\* The answer arrives, or the call has failed.
LEMMA HistoryReadFits ==
  ASSUME AnchorInv, HistoryRead
  PROVE  Advance
<1>1. /\ history' = [state |-> "read", answer |-> <<>>] /\ screen' = screen
      /\ published' = published /\ delivered' = delivered /\ opened' = opened
  BY DEF HistoryRead
<1>2. history' \in Histories'
  BY <1>1 DEF Histories, ToSet
<1>3. CASE view' = view
  <2>1. /\ screen' \in Screens /\ view' \in Views(screen') /\ Good(view')
        /\ Loose(view') \subseteq view.markers \ {e.marker : e \in Kept(view)} /\ SessionKept
    BY <1>1, <1>3, ViewStands
  <2>. QED BY <1>1, <1>2, <2>1 DEF Advance, AnchorInv
<1>4. CASE view' = ConfirmAll(view, history.answer)
  <2>s. PICK S : S = screen
    OBVIOUS
  <2>v. PICK v : v = view
    OBVIOUS
  <2>w. PICK w : w = view'
    OBVIOUS
  <2>a. PICK answer : answer = history.answer
    OBVIOUS
  <2>1. S \in Screens /\ v \in Views(S) /\ Good(v) /\ answer \in Seq(Commands)
        /\ w = ConfirmAll(v, answer) /\ ToSet(answer) \subseteq ToSet(published)
    BY <1>4, <2>s, <2>v, <2>w, <2>a DEF AnchorInv, Histories
  <2>2. /\ w \in Views(S) /\ Good(w) /\ Loose(w) \subseteq Loose(v)
        /\ \/ w.sessionEpoch = v.sessionEpoch
           \/ \E i \in DOMAIN answer : w.sessionEpoch = EpochOf[answer[i]]
    BY <2>1, ConfirmAllFits
  <2>3. SessionKept
    <3>1. CASE w.sessionEpoch = v.sessionEpoch
      BY <2>v, <2>w, <3>1 DEF SessionKept
    <3>2. ASSUME NEW i \in DOMAIN answer, w.sessionEpoch = EpochOf[answer[i]]
          PROVE  SessionKept
      <4>1. answer[i] \in ToSet(published)
        BY <2>1 DEF ToSet
      <4>2. PICK j \in DOMAIN published : published[j] = answer[i]
        BY <4>1 DEF ToSet
      <4>3. w.sessionEpoch \in {EpochOf[published[k]] : k \in DOMAIN published}
        BY <3>2, <4>2
      <4>. QED BY <1>1, <2>w, <4>3 DEF SessionKept
    <3>. QED BY <2>2, <3>1, <3>2
  <2>4. /\ screen' \in Screens /\ view' \in Views(screen') /\ Good(view')
        /\ Loose(view') \subseteq view.markers \ {e.marker : e \in Kept(view)}
    BY <1>1, <2>s, <2>v, <2>w, <2>2, ViewMoves
  <2>. QED BY <1>1, <1>2, <2>3, <2>4 DEF Advance, AnchorInv
<1>. QED BY <1>3, <1>4 DEF HistoryRead, ConfirmAll

\* The pane is loaded.
LEMMA LoadedFits ==
  ASSUME AnchorInv, Loaded
  PROVE  Advance
<1>1. /\ history' = history /\ published' = published /\ delivered' = delivered
      /\ opened' = "loaded"
  BY DEF Loaded
<1>2. /\ screen' \in Screens /\ view' \in Views(screen') /\ Good(view')
      /\ Loose(view') \subseteq view.markers \ {e.marker : e \in Kept(view)} /\ SessionKept
  BY ViewStands DEF Loaded
<1>. QED BY <1>1, <1>2 DEF Advance, AnchorInv, Histories

\* An event arrives.
LEMMA EventDeliveredFits ==
  ASSUME AnchorInv, EventDelivered
  PROVE  Advance
<1>s. PICK S : S = screen
  OBVIOUS
<1>v. PICK v : v = view
  OBVIOUS
<1>w. PICK w : w = view'
  OBVIOUS
<1>k. PICK k : k = delivered + 1
  OBVIOUS
<1>c. PICK c : c = published[k]
  OBVIOUS
<1>f. PICK f : f = Confirmation(c)
  OBVIOUS
<1>1. /\ history' = history /\ published' = published /\ delivered' = k /\ opened' = opened
      /\ screen' = screen /\ w = confirmVisualAnchor(v, f)
  BY <1>v, <1>w, <1>k, <1>c, <1>f DEF EventDelivered
<1>2. k \in DOMAIN published /\ k \in 0 .. Len(published) /\ c \in Commands
  BY <1>k, <1>c DEF AnchorInv, EventDelivered
<1>3. f \in Confirmations /\ f.epoch = EpochOf[c]
  BY <1>2, <1>f DEF Confirmations, Confirmation, Frame
<1>4. S \in Screens /\ v \in Views(S) /\ Good(v)
  BY <1>s, <1>v DEF AnchorInv
<1>5. w \in Views(S) /\ Good(w) /\ Loose(w) \subseteq Loose(v) /\ w.sessionEpoch = f.epoch
  BY <1>1, <1>3, <1>4, ConfirmVisualFits
<1>6. /\ screen' \in Screens /\ view' \in Views(screen') /\ Good(view')
      /\ Loose(view') \subseteq view.markers \ {e.marker : e \in Kept(view)}
  BY <1>1, <1>s, <1>v, <1>w, <1>5, ViewMoves
<1>7. SessionKept
  <2>1. w.sessionEpoch \in {EpochOf[published[i]] : i \in DOMAIN published}
    BY <1>2, <1>3, <1>5, <1>c
  <2>. QED BY <1>1, <1>w, <2>1 DEF SessionKept
<1>. QED BY <1>1, <1>2, <1>6, <1>7 DEF Advance, AnchorInv, Histories

\* The oldest line goes.
LEMMA LineTrimmedFits ==
  ASSUME AnchorInv, LineTrimmed
  PROVE  Advance
<1>s. PICK S : S = screen
  OBVIOUS
<1>v. PICK v : v = view
  OBVIOUS
<1>w. PICK w : w = view'
  OBVIOUS
<1>m. PICK marker : marker = Min(view.markers)
  OBVIOUS
<1>1. /\ history' = history /\ published' = published /\ delivered' = delivered /\ opened' = opened
      /\ screen' = screen /\ w = disposeMarker(v, marker)
  BY <1>v, <1>w, <1>m DEF LineTrimmed
<1>2. S \in Screens /\ v \in Views(S) /\ Good(v)
  BY <1>s, <1>v DEF AnchorInv
<1>3. /\ w \in Views(S) /\ (FewTombstones(v) => FewTombstones(w))
      /\ w.sessionEpoch = v.sessionEpoch /\ Loose(w) \subseteq Loose(v)
  BY <1>1, <1>2, DisposeIs
<1>4. Fit(v, {}) /\ Told(v) /\ Small(v) /\ FewTombstones(v) /\ Unbound(v, {})
  BY <1>2 DEF Good, Unbound
<1>5. Fit(w, {}) /\ Told(w) /\ Fewer(v, w)
  BY <1>1, <1>2, <1>4, DisposeFits
<1>6. Small(w)
  BY <1>2, <1>3, <1>4, <1>5, FewerSmall
<1>7. Good(w)
  BY <1>3, <1>4, <1>5, <1>6 DEF Good
<1>8. /\ screen' \in Screens /\ view' \in Views(screen') /\ Good(view')
      /\ Loose(view') \subseteq view.markers \ {e.marker : e \in Kept(view)}
  BY <1>1, <1>s, <1>v, <1>w, <1>3, <1>7, ViewMoves
<1>9. SessionKept
  BY <1>v, <1>w, <1>3 DEF SessionKept
<1>. QED BY <1>1, <1>8, <1>9 DEF Advance, AnchorInv, Histories

\* A clear.
LEMMA ClearFits ==
  ASSUME AnchorInv, Clear
  PROVE  Advance
<1>s. PICK S : S = screen
  OBVIOUS
<1>v. PICK v : v = view
  OBVIOUS
<1>w. PICK w : w = view'
  OBVIOUS
<1>1. /\ history' = history /\ published' = published /\ delivered' = delivered /\ opened' = opened
      /\ screen' = screen /\ w = releasePresentationState(v)
  BY <1>v, <1>w DEF Clear
<1>2. S \in Screens /\ v \in Views(S) /\ Good(v)
  BY <1>s, <1>v DEF AnchorInv
<1>3. /\ w \in Views(S) /\ Good(w) /\ Loose(w) \subseteq Loose(v) /\ w.sessionEpoch = v.sessionEpoch
  BY <1>1, <1>2, ReleaseFits
<1>4. /\ screen' \in Screens /\ view' \in Views(screen') /\ Good(view')
      /\ Loose(view') \subseteq view.markers \ {e.marker : e \in Kept(view)}
  BY <1>1, <1>s, <1>v, <1>w, <1>3, ViewMoves
<1>5. SessionKept
  BY <1>v, <1>w, <1>3 DEF SessionKept
<1>. QED BY <1>1, <1>4, <1>5 DEF Advance, AnchorInv, Histories

\* Entries expire.
LEMMA ExpireFits ==
  ASSUME AnchorInv, Expire
  PROVE  Advance
<1>s. PICK S : S = screen
  OBVIOUS
<1>v. PICK v : v = view
  OBVIOUS
<1>w. PICK w : w = view'
  OBVIOUS
<1>1. /\ history' = history /\ published' = published /\ delivered' = delivered /\ opened' = opened
      /\ screen' = screen
  BY DEF Expire
<1>2. S \in Screens /\ v \in Views(S) /\ Good(v)
  BY <1>s, <1>v DEF AnchorInv
<1>3. /\ v.anchors \in Seq(RealAnchors(S)) /\ v.confirmations \in Seq(Confirmations)
      /\ v.rejected \in Seq(Tombstones)
  BY <1>2, ViewIs
<1>4. \E i \in 0 .. Len(v.anchors), j \in 0 .. Len(v.confirmations), k \in 0 .. Len(v.rejected) :
        w = prune(v, i, j, k)
  <2>0. 0 \in 0 .. Len(v.anchors) /\ 0 \in 0 .. Len(v.confirmations) /\ 0 \in 0 .. Len(v.rejected)
    BY <1>3
  <2>1. CASE view.anchors # <<>> /\ view' = prune(view, 1, 0, 0)
    <3>1. 1 \in 0 .. Len(v.anchors)
      BY <1>3, <1>v, <2>1
    <3>. QED BY <1>v, <1>w, <2>0, <2>1, <3>1
  <2>2. CASE view.confirmations # <<>> /\ view' = prune(view, 0, 1, 0)
    <3>1. 1 \in 0 .. Len(v.confirmations)
      BY <1>3, <1>v, <2>2
    <3>. QED BY <1>v, <1>w, <2>0, <2>2, <3>1
  <2>3. CASE view.rejected # <<>> /\ view' = prune(view, 0, 0, 1)
    <3>1. 1 \in 0 .. Len(v.rejected)
      BY <1>3, <1>v, <2>3
    <3>. QED BY <1>v, <1>w, <2>0, <2>3, <3>1
  <2>. QED BY <2>1, <2>2, <2>3 DEF Expire
<1>5. /\ w \in Views(S) /\ Good(w) /\ Loose(w) = Loose(v) /\ w.sessionEpoch = v.sessionEpoch
  BY <1>2, <1>4, PruneFits
<1>6. /\ screen' \in Screens /\ view' \in Views(screen') /\ Good(view')
      /\ Loose(view') \subseteq view.markers \ {e.marker : e \in Kept(view)}
  BY <1>1, <1>s, <1>v, <1>w, <1>5, ViewMoves
<1>7. SessionKept
  BY <1>v, <1>w, <1>5 DEF SessionKept
<1>. QED BY <1>1, <1>6, <1>7 DEF Advance, AnchorInv, Histories

\* Every step keeps the invariant, loses no marker and keeps the session or
\* replaces it by a published one.
LEMMA NextFits == AnchorInv /\ [Next]_vars => Advance
<1> SUFFICES ASSUME AnchorInv, [Next]_vars
             PROVE  Advance
  OBVIOUS
<1>1. CASE UNCHANGED vars
  <2>1. /\ screen' \in Screens /\ view' \in Views(screen') /\ Good(view')
        /\ Loose(view') \subseteq view.markers \ {e.marker : e \in Kept(view)} /\ SessionKept
    BY <1>1, ViewStands DEF vars
  <2>. QED BY <1>1, <2>1 DEF Advance, AnchorInv, Histories, vars
<1>. QED
  BY <1>1, CommandStartsFits, FrameReplayedFits, ForeignFrameFits, PublishFits, OpenFits,
     HistoryAnsweredFits, HistoryReadFits, LoadedFits, EventDeliveredFits, LineTrimmedFits,
     ClearFits, ExpireFits DEF Next

-----------------------------------------------------------------------------
(* What follows from the invariant. *)

\* The rail, told of every binding, holds what can be navigated to.
LEMMA RailIs ==
  ASSUME AnchorInv
  PROVE  RailKnows
<1>1. screen \in Screens /\ view \in Views(screen) /\ Fit(view, {}) /\ Told(view)
  BY DEF AnchorInv, Good
<1>2. Unbound(view, {})
  BY DEF Unbound
<1>3. getCommandAnchorSnapshot(view) = {b.nonce : b \in ToSet(view.bindings)}
  BY <1>1, <1>2, SnapshotIs
<1>. QED BY <1>1, <1>3 DEF RailKnows, Told

\* Types and the bounds of the maps follow from the invariant.
LEMMA TypesAre ==
  ASSUME AnchorInv
  PROVE  TypeOK
<1>1. view \in Views(screen) /\ screen \in Screens /\ Small(view) /\ FewTombstones(view)
  BY DEF AnchorInv, Good
<1>2. RealAnchors(screen) \subseteq Anchors
  <2>1. \A f \in ShownFrames : f \in Frames
    <3>1. \A c \in Commands : EpochOf[c] \in ToSet(EpochOf) /\ SequenceOf[c] \in ToSet(SequenceOf)
      BY EpochAssumption DEF Commands, ToSet
    <3>. QED BY <3>1 DEF ShownFrames, Frame, Frames
  <2>2. \A l \in DOMAIN screen : screen[l].frame \in Frames
    BY <2>1, FramesAreShown
  <2>. QED BY <2>2 DEF RealAnchors, Anchors, Lines
<1>3. Confirmations \subseteq Frames
  <2>1. \A c \in Commands : /\ EpochOf[c] \in ToSet(EpochOf) /\ SequenceOf[c] \in ToSet(SequenceOf)
                            /\ ProducerOf[c] \in Producers
    BY EpochAssumption, ProducerAssumption DEF Commands, ToSet
  <2>. QED BY <2>1 DEF Confirmations, Confirmation, Frame, Frames
<1>4. /\ ToSet(view.anchors) \subseteq RealAnchors(screen)
      /\ ToSet(view.quarantined) \subseteq RealAnchors(screen)
      /\ ToSet(view.confirmations) \subseteq Confirmations
  <2>1. /\ view.anchors \in Seq(RealAnchors(screen)) /\ view.confirmations \in Seq(Confirmations)
        /\ view.quarantined \in Seq(RealAnchors(screen))
    BY <1>1, ViewIs
  <2>. QED BY <2>1, HasIs
<1>5. /\ view.sessionEpoch \in ToSet(EpochOf) \cup {NoEpoch}
      /\ view.maxSequence \in ToSet(SequenceOf) \cup {0}
      /\ view.markers \subseteq Lines /\ view.rail \subseteq Commands
  BY <1>1, ViewIs DEF Epochs, Sequences0, Lines
<1>6. /\ \A m \in {Len(view.anchors), Len(view.confirmations), Len(view.quarantined)} : m <= MaxPending
      /\ Len(view.bindings) <= MaxBindings /\ Len(view.rejected) <= MaxTombstones
  BY <1>1 DEF Small, FewTombstones
<1>. QED BY <1>2, <1>3, <1>4, <1>5, <1>6 DEF TypeOK, AnchorInv

\* What registry, markers and rail know of each other follows from the invariant.
LEMMA RegistryIs ==
  ASSUME AnchorInv
  PROVE  RegistryInv
<1>1. Fit(view, {})
  BY DEF AnchorInv, Good
<1>2. EntriesHaveMarkers
  BY <1>1 DEF EntriesHaveMarkers, Fit, EntriesCued, CuesLive, Kept
<1>3. OneSession
  BY <1>1 DEF OneSession, Fit, SessionServed, Paired
<1>. QED BY <1>2, <1>3, RailIs, TypesAre DEF RegistryInv

\* A binding is of the command whose mark its line shows.
LEMMA BindingsAre ==
  ASSUME AnchorInv
  PROVE  BindingsMatch
<1>1. view \in Views(screen) /\ screen \in Screens
  BY DEF AnchorInv
<1>2. view.bindings \in Seq(RealBindings(screen))
  BY <1>1, ViewIs
<1>3. \A i \in DOMAIN view.bindings : view.bindings[i] \in RealBindings(screen)
  BY <1>2
<1>. QED BY <1>1, <1>3, Entries DEF BindingsMatch

\* What can be navigated to is of the session that is served.
RailOfSession == \A n \in view.rail : EpochOf[n] = view.sessionEpoch

\* What can be navigated to is of the session that is served.
LEMMA RailServed ==
  ASSUME AnchorInv
  PROVE  RailOfSession
<1>1. view \in Views(screen) /\ screen \in Screens /\ Fit(view, {}) /\ Told(view)
  BY DEF AnchorInv, Good
<1>2. view.bindings \in Seq(RealBindings(screen))
  BY <1>1, ViewIs
<1>3. \A b \in ToSet(view.bindings) : b.epoch = EpochOf[b.nonce]
  BY <1>1, <1>2, HasIs, Entries
<1>4. \A b \in ToSet(view.bindings) : b.epoch = view.sessionEpoch
  BY <1>1 DEF Fit, SessionServed, Paired
<1>. QED BY <1>1, <1>3, <1>4 DEF Told, RailOfSession

\* What a step leaves without a cue had none before and was not kept.
LEMMA MarkersStep ==
  ASSUME Advance
  PROVE  LET Cued(v) == {cue.marker : cue \in v.cues}
             kept == ToSet(view.anchors) \cup ToSet(view.bindings) \cup ToSet(view.quarantined)
         IN  view'.markers \ Cued(view') \subseteq view.markers \ {e.marker : e \in kept}
  BY DEF Advance, Loose, Kept

\* A step that replaces the session empties the rail of the old one.
LEMMA SessionsStep ==
  ASSUME RailOfSession, RailOfSession', Advance
  PROVE  view.sessionEpoch # NoEpoch /\ view'.sessionEpoch # view.sessionEpoch =>
           /\ screen' = screen
           /\ view'.sessionEpoch \in {EpochOf[published[i]] : i \in DOMAIN published}
           /\ view'.rail \cap view.rail = {}
  BY DEF Advance, SessionKept, RailOfSession

\* In every state the view is typed on its screen, its maps, cues and markers fit
\* together, the rail has been told of every binding, and the maps keep their bounds.
THEOREM AnchorInvariant == Spec => []AnchorInv
<1>1. AnchorInv /\ [Next]_vars => AnchorInv'
  BY NextFits DEF Advance
<1>. QED BY <1>1, AnchorInit, PTL DEF Spec

\* However marks, confirmations, evictions, trims and clears interleave, what the
\* registry keeps has a live marker and its cue, is of the session that is served, and
\* the rail shows exactly what can be navigated to (RegistryInv).
THEOREM RegistryIsSound == Spec => []RegistryInv
<1>1. AnchorInv => RegistryInv
  BY RegistryIs
<1>. QED BY <1>1, AnchorInvariant, PTL

\* A mark counts as a command's only when mark and confirmation named the same
\* session, number and producer, and the line shows that command's mark (BindingsMatch).
THEOREM BindingsAreProven == Spec => []BindingsMatch
<1>1. AnchorInv => BindingsMatch
  BY BindingsAre
<1>. QED BY <1>1, AnchorInvariant, PTL

\* No step leaves a marker in the buffer that no cue can reach (MarkersHaveCues).
THEOREM NoMarkerIsLost == Spec => MarkersHaveCues
<1>1. AnchorInv /\ [Next]_vars =>
        LET Cued(v) == {cue.marker : cue \in v.cues}
            kept == ToSet(view.anchors) \cup ToSet(view.bindings) \cup ToSet(view.quarantined)
        IN  view'.markers \ Cued(view') \subseteq view.markers \ {e.marker : e \in kept}
  BY NextFits, MarkersStep
<1>. QED BY <1>1, AnchorInvariant, PTL DEF Spec, MarkersHaveCues

\* Only a published confirmation replaces a session, never bytes of the terminal,
\* and the rail keeps nothing of the old one (SessionsAreConfirmed).
THEOREM SessionsAreReplacedByConfirmations == Spec => SessionsAreConfirmed
<1>1. AnchorInv => RailOfSession
  BY RailServed
<1>2. AnchorInv' => RailOfSession'
  BY <1>1, PTL
<1>3. AnchorInv /\ [Next]_vars =>
        (view.sessionEpoch # NoEpoch /\ view'.sessionEpoch # view.sessionEpoch =>
           /\ screen' = screen
           /\ view'.sessionEpoch \in {EpochOf[published[i]] : i \in DOMAIN published}
           /\ view'.rail \cap view.rail = {})
  BY <1>1, <1>2, NextFits, SessionsStep DEF Advance
<1>. QED BY <1>3, AnchorInvariant, PTL DEF Spec, SessionsAreConfirmed

===============================================================================

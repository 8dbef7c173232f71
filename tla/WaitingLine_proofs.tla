------------------------- MODULE WaitingLine_proofs -------------------------
(***************************************************************************)
(* For any number of waits, commands and entries.  Whatever saves overlap  *)
(* and whoever is killed, no script stands in the line twice.  In a calm   *)
(* line (saves do not overlap, nobody edits a waiter's entry by hand) the  *)
(* hold is acquired in the order of the line, by one wait at a time, and   *)
(* the phone is shared as PhoneUse says.                                   *)
(***************************************************************************)
EXTENDS WaitingLine, FiniteSetTheorems, SequenceTheorems, WellFoundedInduction, TLAPS

(* Least numbers, and induction *)

\* A set of naturals has a least element: intervals are well-founded.
LEMMA Least ==
  ASSUME NEW S \in SUBSET Nat, S # {}
  PROVE  \E m \in S : \A k \in S : m <= k
<1> DEFINE R == StrictSubsetOrdering(Nat)
           Upto == {0..k : k \in S}
<1>1. IsWellFoundedOn(R, FiniteSubsetsOf(Nat))
  BY FS_StrictSubsetOrderingWellFounded
<1>2. Upto \subseteq FiniteSubsetsOf(Nat) /\ Upto # {}
  <2>1. \A k \in S : 0..k \in SUBSET Nat /\ IsFiniteSet(0..k)
    BY FS_Interval
  <2>2. \A k \in S : 0..k \in FiniteSubsetsOf(Nat)
    BY <2>1 DEF FiniteSubsetsOf
  <2> QED
    BY <2>2
<1>3. PICK x \in Upto : \A y \in Upto : <<y, x>> \notin R
  <2> HIDE DEF R, Upto
  <2> QED BY <1>1, <1>2, WFMin
<1>4. PICK m \in S : x = 0..m
  OBVIOUS
<1>5. ASSUME NEW k \in S, k < m PROVE FALSE
  <2>1. (0..k) \in SUBSET Nat /\ (0..m) \in SUBSET Nat /\ 0..k \subseteq 0..m
    BY <1>5
  <2>2. m \in 0..m /\ m \notin 0..k
    BY <1>5
  <2>3. 0..k # 0..m
    BY <2>2
  <2>4. <<0..k, 0..m>> \in R
    BY <2>1, <2>3 DEF StrictSubsetOrdering
  <2> QED
    BY <1>3, <1>4, <2>4
<1> QED
  BY <1>5

\* Induction for a set: whatever can be named by one may be proved by it.
LEMMA Induction ==
  ASSUME NEW S, 0 \in S, \A n \in Nat : n \in S => n + 1 \in S
  PROVE  Nat \subseteq S
<1> SUFFICES ASSUME Nat \ S # {} PROVE FALSE
  OBVIOUS
<1>1. PICK m \in Nat \ S : \A k \in Nat \ S : m <= k
  BY Least
<1>2. m # 0 /\ m - 1 \in Nat /\ (m - 1) + 1 = m
  BY <1>1
<1>3. m - 1 \in S
  BY <1>1, <1>2
<1> QED
  BY <1>1, <1>2, <1>3

-----------------------------------------------------------------------------
(* The operators on lines *)

\* The place of a script is that of its first entry.
LEMMA FirstPlace ==
  ASSUME NEW q \in Seq(Entry), NEW s, Has(q, s)
  PROVE  /\ PlaceOf(q, s) \in 1..Len(q) /\ q[PlaceOf(q, s)].script = s
         /\ \A i \in 1..Len(q) : q[i].script = s => PlaceOf(q, s) <= i
<1> DEFINE I == {i \in 1..Len(q) : q[i].script = s}
<1>1. I \in SUBSET Nat /\ I # {}
  BY DEF Has
<1>2. PICK m \in I : \A k \in I : m <= k
  BY <1>1, Least
<1>3. Min(I) \in I /\ \A k \in I : Min(I) <= k
  BY <1>2 DEF Min
<1>4. PlaceOf(q, s) = Min(I)
  BY <1>1 DEF PlaceOf, SelectInSeq
<1> QED
  BY <1>3, <1>4

\* The list that Picked builds up, place by place.
LEMMA PickedSteps ==
  ASSUME NEW q \in Seq(Entry), NEW I
  PROVE  \E f \in [0..Len(q) -> Seq(Entry)] :
           /\ f[0] = <<>> /\ Picked(q, I) = f[Len(q)]
           /\ \A n \in 1..Len(q) : f[n] = IF n \in I THEN Append(f[n - 1], q[n]) ELSE f[n - 1]
<1> DEFINE N == Len(q)
           upTo[n \in 0..N] ==
             IF n = 0 THEN <<>>
             ELSE IF n \in I THEN Append(upTo[n - 1], q[n]) ELSE upTo[n - 1]
           Steps(f, m) ==
             /\ f \in [0..m -> Seq(Entry)] /\ f[0] = <<>>
             /\ \A n \in 1..m : f[n] = IF n \in I THEN Append(f[n - 1], q[n]) ELSE f[n - 1]
           Reached == {m \in Nat : m <= N => \E f : Steps(f, m)}
<1>0. N \in Nat
  OBVIOUS
<1>1. Picked(q, I) = upTo[N]
  BY DEF Picked
<1>2. 0 \in Reached
  <2>1. Steps([n \in 0..0 |-> <<>>], 0)
    OBVIOUS
  <2> QED BY <2>1
<1>3. ASSUME NEW m \in Nat, m \in Reached PROVE m + 1 \in Reached
  <2> SUFFICES ASSUME m + 1 <= N PROVE \E f : Steps(f, m + 1)
    OBVIOUS
  <2>0. m <= N
    BY <1>0
  <2>1. PICK f : Steps(f, m)
    <3> HIDE DEF Steps
    <3> QED BY <1>3, <2>0
  <2> DEFINE last == IF m + 1 \in I THEN Append(f[m], q[m + 1]) ELSE f[m]
             g == [n \in 0..(m + 1) |-> IF n = m + 1 THEN last ELSE f[n]]
  <2>2. f[m] \in Seq(Entry) /\ q[m + 1] \in Entry
    BY <1>0, <2>1
  <2>3. last \in Seq(Entry)
    BY <2>2, AppendProperties
  <2> HIDE DEF last
  <2>4. g \in [0..(m + 1) -> Seq(Entry)] /\ g[0] = <<>>
    BY <2>1, <2>3
  <2>5. \A n \in 1..m : g[n] = f[n] /\ g[n - 1] = f[n - 1]
    OBVIOUS
  <2>6. g[m + 1] = last /\ g[m] = f[m] /\ (m + 1) - 1 = m
    OBVIOUS
  <2>7. ASSUME NEW n \in 1..(m + 1)
        PROVE  g[n] = IF n \in I THEN Append(g[n - 1], q[n]) ELSE g[n - 1]
    <3>1. CASE n \in 1..m
      BY <2>1, <2>5, <3>1
    <3>2. CASE n = m + 1
      BY <2>6, <3>2 DEF last
    <3> QED BY <3>1, <3>2
  <2>8. Steps(g, m + 1)
    BY <2>4, <2>7
  <2> QED BY <2>8
<1>4. PICK f : Steps(f, N)
  <2> HIDE DEF Steps
  <2>1. Nat \subseteq Reached
    BY <1>2, <1>3, Induction
  <2> QED BY <1>0, <2>1
<1>5. f = [n \in 0..N |-> IF n = 0 THEN <<>>
                          ELSE IF n \in I THEN Append(f[n - 1], q[n]) ELSE f[n - 1]]
  <2>1. \A n \in 0..N : f[n] = IF n = 0 THEN <<>>
                                ELSE IF n \in I THEN Append(f[n - 1], q[n]) ELSE f[n - 1]
    <3> SUFFICES ASSUME NEW n \in 0..N, n # 0
                 PROVE  f[n] = IF n \in I THEN Append(f[n - 1], q[n]) ELSE f[n - 1]
      BY <1>4
    <3>1. n \in 1..N
      BY <1>0
    <3> QED BY <1>4, <3>1
  <2>2. f \in [0..N -> Seq(Entry)]
    BY <1>4
  <2> QED BY <2>1, <2>2
<1>6. upTo = [n \in 0..N |-> IF n = 0 THEN <<>>
                             ELSE IF n \in I THEN Append(upTo[n - 1], q[n]) ELSE upTo[n - 1]]
  BY <1>5, Zenon
<1>7. ASSUME NEW n \in 1..N
      PROVE  upTo[n] = IF n \in I THEN Append(upTo[n - 1], q[n]) ELSE upTo[n - 1]
  <2> HIDE DEF upTo
  <2>1. n \in 0..N /\ n # 0
    BY <1>0
  <2> QED BY <1>6, <2>1
<1>8. upTo[0] = <<>>
  <2> HIDE DEF upTo
  <2>1. 0 \in 0..N
    BY <1>0
  <2> QED BY <1>6, <2>1
<1> HIDE DEF upTo
<1> DEFINE Typed == {m \in Nat : m <= N => upTo[m] \in Seq(Entry)}
<1>9. \A m \in 0..N : upTo[m] \in Seq(Entry)
  <2>1. 0 \in Typed
    <3>1. upTo[0] \in Seq(Entry)
      BY <1>8, EmptySeq
    <3> QED BY <3>1
  <2>2. ASSUME NEW m \in Nat, m \in Typed PROVE m + 1 \in Typed
    <3> SUFFICES ASSUME m + 1 <= N PROVE upTo[m + 1] \in Seq(Entry)
      OBVIOUS
    <3>1. upTo[m] \in Seq(Entry) /\ m + 1 \in 1..N /\ q[m + 1] \in Entry /\ (m + 1) - 1 = m
      BY <1>0, <2>2
    <3>2. upTo[m + 1] = IF m + 1 \in I THEN Append(upTo[m], q[m + 1]) ELSE upTo[m]
      BY <1>7, <3>1
    <3> QED BY <3>1, <3>2, AppendProperties
  <2>3. Nat \subseteq Typed
    <3> HIDE DEF Typed
    <3> QED BY <2>1, <2>2, Induction
  <2> QED BY <2>3
<1>10. upTo \in [0..N -> Seq(Entry)]
  BY <1>6, <1>9
<1> QED
  BY <1>1, <1>7, <1>8, <1>10

\* r is what is left of q at the places in I: `from` tells where each was.
Maps(q, I, r, from) ==
  /\ r \in Seq(Entry) /\ from \in [1..Len(r) -> I]
  /\ \A j, k \in 1..Len(r) : j < k => from[j] < from[k]
  /\ \A i \in I : \E k \in 1..Len(r) : from[k] = i
  /\ \A k \in 1..Len(r) : r[k] = q[from[k]]

\* Picked keeps the entries at the places in I, each once and in order.
LEMMA PickedMaps ==
  ASSUME NEW q \in Seq(Entry), NEW I \in SUBSET (1..Len(q))
  PROVE  \E from : Maps(q, I, Picked(q, I), from)
<1> DEFINE N == Len(q)
           Upto(n) == {i \in I : i <= n}
<1>0. N \in Nat /\ \A i \in I : i \in Nat /\ 1 <= i /\ i <= N
  OBVIOUS
<1>1. PICK f \in [0..N -> Seq(Entry)] :
        /\ f[0] = <<>> /\ Picked(q, I) = f[N]
        /\ \A n \in 1..N : f[n] = IF n \in I THEN Append(f[n - 1], q[n]) ELSE f[n - 1]
  BY PickedSteps
<1> DEFINE Reached == {n \in Nat : n <= N => \E from : Maps(q, Upto(n), f[n], from)}
<1>2. 0 \in Reached
  <2>1. Upto(0) = {} /\ <<>> \in Seq(Entry) /\ Len(<<>>) = 0
    BY EmptySeq
  <2>2. Maps(q, Upto(0), f[0], <<>>)
    BY <1>1, <2>1 DEF Maps
  <2> HIDE DEF Upto
  <2> QED BY <2>2
<1>3. ASSUME NEW n \in Nat, n \in Reached PROVE n + 1 \in Reached
  <2> SUFFICES ASSUME n + 1 <= N PROVE \E from : Maps(q, Upto(n + 1), f[n + 1], from)
    OBVIOUS
  <2>1. n <= N /\ n \in 0..N /\ n + 1 \in 1..N /\ (n + 1) - 1 = n
    BY <1>0
  <2>2. PICK from : Maps(q, Upto(n), f[n], from)
    <3> HIDE DEF Upto
    <3> QED BY <1>3, <2>1
  <2>3. f[n + 1] = IF n + 1 \in I THEN Append(f[n], q[n + 1]) ELSE f[n]
    BY <1>1, <2>1
  <2>4. CASE n + 1 \notin I
    <3>1. Upto(n + 1) = Upto(n)
      <4>1. \A i \in I : i <= n + 1 <=> i <= n
        BY <1>0, <2>4
      <4> QED BY <4>1
    <3>2. f[n + 1] = f[n]
      BY <2>3, <2>4
    <3> HIDE DEF Upto
    <3> QED BY <2>2, <3>1, <3>2
  <2>5. CASE n + 1 \in I
    <3> DEFINE r == f[n]
               e == q[n + 1]
               L == Len(r)
               more == [k \in 1..(L + 1) |-> IF k = L + 1 THEN n + 1 ELSE from[k]]
    <3>0. /\ r \in Seq(Entry) /\ e \in Entry /\ L \in Nat
          /\ from \in [1..L -> Upto(n)]
          /\ \A j, k \in 1..L : j < k => from[j] < from[k]
          /\ \A i \in Upto(n) : \E k \in 1..L : from[k] = i
          /\ \A k \in 1..L : r[k] = q[from[k]]
      BY <1>1, <2>1, <2>2 DEF Maps
    <3>1. /\ f[n + 1] = Append(r, e) /\ Append(r, e) \in Seq(Entry) /\ Len(Append(r, e)) = L + 1
          /\ \A k \in 1..L : Append(r, e)[k] = r[k]
          /\ Append(r, e)[L + 1] = e
      BY <2>3, <2>5, <3>0, AppendProperties
    <3> HIDE DEF r, e, L
    <3>8. L \in Nat
      BY <3>0
    <3>9. Upto(n) \subseteq Upto(n + 1) /\ n + 1 \in Upto(n + 1)
      <4>1. \A i \in I : i <= n => i <= n + 1
        BY <1>0
      <4>2. Upto(n) \subseteq Upto(n + 1)
        BY <4>1
      <4>3. n + 1 \in Upto(n + 1)
        BY <2>5
      <4> QED BY <4>2, <4>3
    <3>2. more \in [1..(L + 1) -> Upto(n + 1)]
      <4> SUFFICES ASSUME NEW k \in 1..(L + 1), k # L + 1 PROVE from[k] \in Upto(n + 1)
        BY <3>9
      <4>1. k \in 1..L
        BY <3>8
      <4> HIDE DEF Upto
      <4> QED BY <3>0, <3>9, <4>1
    <3>3. more[L + 1] = n + 1 /\ \A k \in 1..L : more[k] = from[k] /\ from[k] \in Upto(n)
      BY <3>0
    <3>4. \A j, k \in 1..(L + 1) : j < k => more[j] < more[k]
      <4> SUFFICES ASSUME NEW j \in 1..(L + 1), NEW k \in 1..(L + 1), j < k PROVE more[j] < more[k]
        OBVIOUS
      <4>1. j \in 1..L
        BY <3>8
      <4>2. CASE k = L + 1
        <5>1. from[j] \in I /\ from[j] <= n /\ more[j] = from[j] /\ more[k] = n + 1
          BY <3>3, <4>1, <4>2
        <5>2. from[j] \in Nat
          BY <1>0, <5>1
        <5> QED BY <5>1, <5>2
      <4>3. CASE k # L + 1
        <5>1. k \in 1..L
          BY <3>0, <4>3
        <5> QED BY <3>0, <3>3, <4>1, <5>1
      <4> QED BY <4>2, <4>3
    <3>5. \A i \in Upto(n + 1) : \E k \in 1..(L + 1) : more[k] = i
      <4> SUFFICES ASSUME NEW i \in Upto(n + 1) PROVE \E k \in 1..(L + 1) : more[k] = i
        OBVIOUS
      <4>1. CASE i = n + 1
        <5>1. L + 1 \in 1..(L + 1)
          BY <3>0
        <5> QED BY <3>3, <4>1, <5>1
      <4>2. CASE i # n + 1
        <5>1. i \in Upto(n)
          BY <2>1, <4>2
        <5>2. PICK k \in 1..L : from[k] = i
          BY <3>0, <5>1
        <5>3. k \in 1..(L + 1)
          BY <3>0
        <5> QED BY <3>3, <5>2, <5>3
      <4> QED BY <4>1, <4>2
    <3>6. \A k \in 1..(L + 1) : Append(r, e)[k] = q[more[k]]
      <4> SUFFICES ASSUME NEW k \in 1..(L + 1) PROVE Append(r, e)[k] = q[more[k]]
        OBVIOUS
      <4>1. CASE k = L + 1
        BY <3>1, <3>3, <4>1 DEF e
      <4>2. CASE k # L + 1
        <5>1. k \in 1..L
          BY <3>0, <4>2
        <5> QED BY <3>0, <3>1, <3>3, <5>1
      <4> QED BY <4>1, <4>2
    <3> HIDE DEF more, Upto
    <3>7. Maps(q, Upto(n + 1), f[n + 1], more)
      BY <3>1, <3>2, <3>4, <3>5, <3>6 DEF Maps
    <3> QED BY <3>7
  <2> QED BY <2>4, <2>5
<1>4. N \in Reached
  <2> HIDE DEF Reached
  <2> QED BY <1>0, <1>2, <1>3, Induction
<1>5. Upto(N) = I
  <2>1. \A i \in I : i <= N
    BY <1>0
  <2> QED BY <2>1
<1> QED
  <2> HIDE DEF Upto
  <2> QED BY <1>0, <1>1, <1>4, <1>5

-----------------------------------------------------------------------------
(* The edits of a line *)

\* r is q but for the entries of s, one of which may be new, with this waiter:
\* the others are all there, in their order (`from` tells where each was).
Keeps(q, r, s, waiter) ==
  /\ r \in Seq(Entry)
  /\ \A k \in 1..Len(r) : \/ r[k] = [script |-> s, waiter |-> waiter]
                          \/ \E i \in 1..Len(q) : r[k] = q[i]
  /\ \E from \in [1..Len(r) -> 0..Len(q)] :
       /\ \A j, k \in 1..Len(r) :
            j < k /\ r[j].script # s /\ r[k].script # s => from[j] < from[k]
       /\ \A k \in 1..Len(r) :
            r[k].script # s => from[k] \in 1..Len(q) /\ r[k] = q[from[k]]
       /\ \A i \in 1..Len(q) : q[i].script # s => \E k \in 1..Len(r) : from[k] = i /\ r[k] = q[i]

\* A sound line stays so when s stands in it once at most.
LEMMA SoundKept ==
  ASSUME NEW q, Sound(q), NEW r, NEW s, NEW waiter, Keeps(q, r, s, waiter),
         \A j, k \in 1..Len(r) : r[j].script = s /\ r[k].script = s => j = k
  PROVE  Sound(r)
<1>1. PICK from \in [1..Len(r) -> 0..Len(q)] :
        /\ \A j, k \in 1..Len(r) :
             j < k /\ r[j].script # s /\ r[k].script # s => from[j] < from[k]
        /\ \A k \in 1..Len(r) :
             r[k].script # s => from[k] \in 1..Len(q) /\ r[k] = q[from[k]]
  BY DEF Keeps
<1>2. ASSUME NEW j \in 1..Len(r), NEW k \in 1..Len(r), r[j].script = r[k].script, j < k
      PROVE  FALSE
  <2>1. r[j].script # s /\ r[k].script # s
    BY <1>2
  <2>2. /\ from[j] \in 1..Len(q) /\ from[k] \in 1..Len(q) /\ from[j] < from[k]
        /\ q[from[j]].script = q[from[k]].script
    BY <1>1, <1>2, <2>1
  <2>3. from[j] = from[k]
    BY <2>2 DEF Sound
  <2> QED BY <2>2, <2>3
<1>3. r \in Seq(Entry)
  BY DEF Keeps
<1> QED
  BY <1>2, <1>3 DEF Sound

\* Whatever stays in place.
LEMMA InPlaceKeeps ==
  ASSUME NEW q \in Seq(Entry), NEW r \in Seq(Entry), Len(r) = Len(q), NEW s, NEW waiter,
         \A k \in 1..Len(q) : \/ r[k] = q[k]
                              \/ q[k].script = s /\ r[k] = [script |-> s, waiter |-> waiter]
  PROVE  Keeps(q, r, s, waiter)
<1> DEFINE from == [k \in 1..Len(r) |-> k]
<1>0. Len(q) \in Nat
  OBVIOUS
<1>1. from \in [1..Len(r) -> 0..Len(q)]
  BY <1>0
<1>2. \A k \in 1..Len(r) : r[k].script # s => r[k] = q[k]
  OBVIOUS
<1>3. \A k \in 1..Len(r) : q[k].script # s => r[k] = q[k]
  OBVIOUS
<1> QED
  BY <1>0, <1>1, <1>2, <1>3 DEF Keeps

\* An entry at the end.
LEMMA AppendKeeps ==
  ASSUME NEW q \in Seq(Entry), NEW s, NEW waiter, [script |-> s, waiter |-> waiter] \in Entry
  PROVE  Keeps(q, Append(q, [script |-> s, waiter |-> waiter]), s, waiter)
<1> DEFINE new == [script |-> s, waiter |-> waiter]
           r == Append(q, new)
           N == Len(q)
           from == [k \in 1..(N + 1) |-> IF k = N + 1 THEN 0 ELSE k]
<1>0. N \in Nat
  OBVIOUS
<1>1. r \in Seq(Entry) /\ Len(r) = N + 1 /\ r[N + 1] = new /\ \A k \in 1..N : r[k] = q[k]
  BY AppendProperties
<1> HIDE DEF r, N
<1>2. from \in [1..(N + 1) -> 0..N]
  BY <1>0
<1>3. \A k \in 1..(N + 1) : k # N + 1 => k \in 1..N /\ r[k] = q[k]
  BY <1>0, <1>1
<1>4. r[N + 1].script = s
  BY <1>1
<1>5. \A k \in 1..(N + 1) : r[k].script # s => k \in 1..N /\ from[k] = k /\ r[k] = q[k]
  BY <1>0, <1>3, <1>4
<1>6. \A j, k \in 1..(N + 1) : j < k /\ r[j].script # s /\ r[k].script # s => from[j] < from[k]
  BY <1>5
<1>7. \A i \in 1..N : i \in 1..(N + 1) /\ from[i] = i /\ r[i] = q[i]
  BY <1>0, <1>1
<1> HIDE DEF from
<1>8. \A k \in 1..(N + 1) : r[k] = new \/ \E i \in 1..N : r[k] = q[i]
  BY <1>1, <1>3
<1>9. \E g \in [1..(N + 1) -> 0..N] :
        /\ \A j, k \in 1..(N + 1) :
             j < k /\ r[j].script # s /\ r[k].script # s => g[j] < g[k]
        /\ \A k \in 1..(N + 1) : r[k].script # s => g[k] \in 1..N /\ r[k] = q[g[k]]
        /\ \A i \in 1..N : q[i].script # s => \E k \in 1..(N + 1) : g[k] = i /\ r[k] = q[i]
  <2>1. \A k \in 1..(N + 1) : r[k].script # s => from[k] \in 1..N /\ r[k] = q[from[k]]
    BY <1>5
  <2>2. \A i \in 1..N : q[i].script # s => \E k \in 1..(N + 1) : from[k] = i /\ r[k] = q[i]
    BY <1>7
  <2> QED BY <1>2, <1>6, <2>1, <2>2
<1>10. Keeps(q, r, s, waiter)
  BY <1>1, <1>8, <1>9 DEF Keeps, N, new
<1> QED
  BY <1>10 DEF r

\* mark: nothing but the entry of s changes, at its place or at the end.
LEMMA MarkedKeeps ==
  ASSUME NEW q, Sound(q), NEW s \in Scripts, NEW waiter \in Waits \cup {None},
         NEW r, r = Marked(q, s, waiter)
  PROVE  /\ Keeps(q, r, s, waiter) /\ Sound(r)
         /\ \E i \in 1..Len(r) : r[i] = [script |-> s, waiter |-> waiter]
<1>0. q \in Seq(Entry) /\ [script |-> s, waiter |-> waiter] \in Entry
  BY DEF Sound, Entry
<1>1. CASE Has(q, s)
  <2> DEFINE n == PlaceOf(q, s)
  <2>1. n \in 1..Len(q) /\ q[n].script = s
    BY <1>0, <1>1, FirstPlace
  <2> HIDE DEF n
  <2>2. r = [q EXCEPT ![n].waiter = waiter]
    BY <1>1 DEF Marked, n
  <2>3. q[n] \in Entry
    BY <1>0, <2>1
  <2>4. [q[n] EXCEPT !.waiter = waiter] = [script |-> s, waiter |-> waiter]
    BY <2>1, <2>3 DEF Entry
  <2>5. r = [q EXCEPT ![n] = [script |-> s, waiter |-> waiter]]
    BY <2>2, <2>4
  <2>6. /\ r \in Seq(Entry) /\ Len(r) = Len(q)
        /\ \A k \in 1..Len(q) : r[k] = IF k = n THEN [script |-> s, waiter |-> waiter] ELSE q[k]
    BY <1>0, <2>1, <2>5, ExceptSeq
  <2>7. Keeps(q, r, s, waiter)
    BY <1>0, <2>1, <2>6, InPlaceKeeps
  <2>8. \A k \in 1..Len(q) : r[k].script = q[k].script
    BY <2>1, <2>6
  <2>9. Sound(r)
    BY <2>6, <2>8 DEF Sound
  <2> QED BY <2>1, <2>6, <2>7, <2>9
<1>2. CASE ~Has(q, s)
  <2> DEFINE new == [script |-> s, waiter |-> waiter]
  <2>1. r = Append(q, new)
    BY <1>2 DEF Marked
  <2>2. Keeps(q, r, s, waiter)
    BY <1>0, <2>1, AppendKeeps
  <2>3. Len(r) = Len(q) + 1 /\ r[Len(q) + 1] = new /\ \A k \in 1..Len(q) : r[k] = q[k]
    BY <1>0, <2>1, AppendProperties
  <2>4. \A k \in 1..Len(r) : r[k].script = s => k = Len(q) + 1
    BY <1>0, <1>2, <2>3 DEF Has
  <2>5. Sound(r)
    BY <2>2, <2>4, SoundKept
  <2> QED BY <1>0, <2>2, <2>3, <2>5
<1> QED
  BY <1>1, <1>2

\* dequeue: every entry of s goes, no other.
LEMMA WithoutKeeps ==
  ASSUME NEW q \in Seq(Entry), NEW s, NEW waiter, NEW r, r = Without(q, s)
  PROVE  Keeps(q, r, s, waiter) /\ ~Has(r, s)
<1> DEFINE I == {i \in 1..Len(q) : q[i].script # s}
<1>1. PICK from : Maps(q, I, r, from)
  BY PickedMaps DEF Without
<1>2. /\ r \in Seq(Entry) /\ from \in [1..Len(r) -> I]
      /\ \A j, k \in 1..Len(r) : j < k => from[j] < from[k]
      /\ \A i \in I : \E k \in 1..Len(r) : from[k] = i
      /\ \A k \in 1..Len(r) : r[k] = q[from[k]]
  BY <1>1 DEF Maps
<1>3. \A k \in 1..Len(r) : from[k] \in 1..Len(q) /\ r[k] = q[from[k]] /\ r[k].script # s
  BY <1>2
<1>4. from \in [1..Len(r) -> 0..Len(q)]
  BY <1>2
<1>5. \A i \in 1..Len(q) : q[i].script # s => \E k \in 1..Len(r) : from[k] = i /\ r[k] = q[i]
  BY <1>2
<1> HIDE DEF I
<1> QED
  BY <1>2, <1>3, <1>4, <1>5 DEF Keeps, Has

\* A sound line holds at most one entry of s.
LEMMA OnlyOne ==
  ASSUME NEW q, Sound(q), NEW s
  PROVE  /\ Only(q, s) \in Seq(Entry)
         /\ \A k \in 1..Len(Only(q, s)) : \E i \in 1..Len(q) : Only(q, s)[k] = q[i] /\ q[i].script = s
         /\ Len(Only(q, s)) <= 1
<1> DEFINE r == Only(q, s)
           I == {i \in 1..Len(q) : q[i].script = s}
<1>0. q \in Seq(Entry)
  BY DEF Sound
<1>1. PICK from : Maps(q, I, r, from)
  BY <1>0, PickedMaps DEF Only
<1>2. /\ r \in Seq(Entry) /\ from \in [1..Len(r) -> I]
      /\ \A j, k \in 1..Len(r) : j < k => from[j] < from[k]
      /\ \A k \in 1..Len(r) : r[k] = q[from[k]]
  BY <1>1 DEF Maps
<1> HIDE DEF r
<1>3. \A k \in 1..Len(r) : from[k] \in 1..Len(q) /\ q[from[k]].script = s /\ r[k] = q[from[k]]
  BY <1>2
<1>4. ~(Len(r) > 1)
  <2> SUFFICES ASSUME Len(r) > 1 PROVE FALSE
    OBVIOUS
  <2>1. Len(r) \in Nat /\ 1 \in 1..Len(r) /\ 2 \in 1..Len(r)
    BY <1>2
  <2>2. from[1] < from[2]
    BY <1>2, <2>1
  <2>3. from[1] = from[2]
    BY <1>3, <2>1 DEF Sound
  <2> QED BY <1>3, <2>1, <2>2, <2>3
<1>5. Len(r) <= 1
  <2>1. Len(r) \in Nat
    BY <1>2
  <2> QED BY <1>4, <2>1
<1> QED
  BY <1>2, <1>3, <1>5 DEF r

\* front: the entry of s moves, the others keep their order.
LEMMA FrontedKeeps ==
  ASSUME NEW q, Sound(q), NEW s, NEW before, NEW waiter, NEW r, r = Fronted(q, s, before)
  PROVE  Keeps(q, r, s, waiter) /\ Sound(r)
<1> DEFINE rest == Without(q, s)
           mine == Only(q, s)
           I == {i \in 1..Len(q) : q[i].script # s}
           cut == IF Has(rest, before) THEN PlaceOf(rest, before) - 1 ELSE 0
           L == Len(rest)
           m == Len(mine)
<1>0. q \in Seq(Entry)
  BY DEF Sound
<1>1. /\ mine \in Seq(Entry) /\ m <= 1
      /\ \A k \in 1..m : \E i \in 1..Len(q) : mine[k] = q[i] /\ q[i].script = s
  BY OnlyOne
<1>2. PICK was : Maps(q, I, rest, was)
  BY <1>0, PickedMaps DEF Without
<1>3. /\ rest \in Seq(Entry) /\ was \in [1..L -> I]
      /\ \A j, k \in 1..L : j < k => was[j] < was[k]
      /\ \A i \in I : \E k \in 1..L : was[k] = i
      /\ \A k \in 1..L : rest[k] = q[was[k]]
  BY <1>2 DEF Maps
<1>4. cut \in 0..L /\ L \in Nat /\ m \in Nat
  <2>1. CASE Has(rest, before)
    <3>1. PlaceOf(rest, before) \in 1..L
      BY <1>3, <2>1, FirstPlace
    <3> QED BY <1>1, <1>3, <2>1, <3>1
  <2>2. CASE ~Has(rest, before)
    BY <1>1, <1>3, <2>2
  <2> QED BY <2>1, <2>2
<1>5. r = SubSeq(rest, 1, cut) \o mine \o SubSeq(rest, cut + 1, L)
  BY DEF Fronted
<1> HIDE DEF rest, mine, cut, L, m
<1>6. /\ r \in Seq(Entry) /\ Len(r) = L + m
      /\ \A k \in 1..(L + m) : r[k] = IF k <= cut THEN rest[k]
                                     ELSE IF k <= cut + m THEN mine[k - cut] ELSE rest[k - m]
  <2> DEFINE front == SubSeq(rest, 1, cut)
             back == SubSeq(rest, cut + 1, L)
  <2>1. \A k \in 1..L : rest[k] \in Entry
    BY <1>3 DEF L
  <2>2. front \in Seq(Entry) /\ Len(front) = cut /\ \A k \in 1..cut : front[k] = rest[k]
    <3>1. \A k \in 1..cut : rest[k] \in Entry
      BY <1>4, <2>1
    <3>2. /\ front \in Seq(Entry) /\ Len(front) = IF 1 <= cut THEN cut - 1 + 1 ELSE 0
          /\ \A k \in 1..(cut - 1 + 1) : front[k] = rest[1 + k - 1]
      BY <1>4, <3>1, SubSeqProperties
    <3> HIDE DEF front
    <3> QED BY <1>4, <3>2
  <2>3. /\ back \in Seq(Entry) /\ Len(back) = L - cut
        /\ \A k \in 1..(L - cut) : back[k] = rest[cut + k]
    <3>1. \A k \in (cut + 1)..L : rest[k] \in Entry
      BY <1>4, <2>1
    <3>2. /\ back \in Seq(Entry) /\ Len(back) = IF cut + 1 <= L THEN L - (cut + 1) + 1 ELSE 0
          /\ \A k \in 1..(L - (cut + 1) + 1) : back[k] = rest[(cut + 1) + k - 1]
      BY <1>4, <3>1, SubSeqProperties
    <3> HIDE DEF back
    <3> QED BY <1>4, <3>2
  <2> DEFINE half == front \o mine
  <2> HIDE DEF front, back
  <2>4. /\ half \in Seq(Entry) /\ Len(half) = cut + m
        /\ \A k \in 1..(cut + m) : half[k] = IF k <= cut THEN front[k] ELSE mine[k - cut]
    BY <1>1, <2>2, ConcatProperties DEF m
  <2> HIDE DEF half
  <2>5. r = half \o back
    BY <1>5 DEF half, front, back
  <2>6. /\ r \in Seq(Entry) /\ Len(r) = (cut + m) + (L - cut)
        /\ \A k \in 1..((cut + m) + (L - cut)) :
             r[k] = IF k <= cut + m THEN half[k] ELSE back[k - (cut + m)]
    BY <2>3, <2>4, <2>5, ConcatProperties
  <2>7. (cut + m) + (L - cut) = L + m
    BY <1>4
  <2>8. ASSUME NEW k \in 1..(L + m)
        PROVE  r[k] = IF k <= cut THEN rest[k]
                      ELSE IF k <= cut + m THEN mine[k - cut] ELSE rest[k - m]
    <3>1. CASE k <= cut
      <4>1. k \in 1..cut /\ k \in 1..(cut + m) /\ k <= cut + m
        BY <1>4, <3>1
      <4> QED BY <2>2, <2>4, <2>6, <2>7, <3>1, <4>1
    <3>2. CASE k > cut /\ k <= cut + m
      <4>1. k \in 1..(cut + m) /\ ~(k <= cut)
        BY <1>4, <3>2
      <4> QED BY <2>4, <2>6, <2>7, <3>2, <4>1
    <3>3. CASE k > cut + m
      <4>1. /\ k - (cut + m) \in 1..(L - cut) /\ cut + (k - (cut + m)) = k - m
            /\ ~(k <= cut) /\ ~(k <= cut + m)
        BY <1>4, <3>3
      <4> QED BY <2>3, <2>6, <2>7, <4>1
    <3> QED BY <1>4, <3>1, <3>2, <3>3
  <2> QED BY <2>6, <2>7, <2>8
<1>7. \A k \in 1..L : was[k] \in 1..Len(q) /\ rest[k] = q[was[k]] /\ rest[k].script # s
  BY <1>3
<1>8. \A i \in 1..Len(q) : q[i].script # s => \E k \in 1..L : was[k] = i
  BY <1>3
<1>9. \A j, k \in 1..L : j < k => was[j] < was[k]
  BY <1>3
<1> HIDE DEF I
<1> DEFINE place(k) == IF k <= cut THEN k ELSE k - m
           Mine(k) == k > cut /\ k <= cut + m
           from == [k \in 1..(L + m) |-> IF Mine(k) THEN 0 ELSE was[place(k)]]
<1>10. \A k \in 1..(L + m) : ~Mine(k) => place(k) \in 1..L /\ r[k] = rest[place(k)]
  BY <1>4, <1>6
<1>11. \A k \in 1..(L + m) : Mine(k) => \E i \in 1..Len(q) : r[k] = q[i] /\ q[i].script = s
  <2> SUFFICES ASSUME NEW k \in 1..(L + m), Mine(k)
               PROVE  \E i \in 1..Len(q) : r[k] = q[i] /\ q[i].script = s
    OBVIOUS
  <2>1. k - cut \in 1..m /\ r[k] = mine[k - cut]
    BY <1>4, <1>6
  <2> QED BY <1>1, <2>1
<1>12. \A j, k \in 1..(L + m) : j < k /\ ~Mine(j) /\ ~Mine(k) => place(j) < place(k)
  BY <1>4
<1>13. \A i \in 1..L : \E k \in 1..(L + m) : ~Mine(k) /\ place(k) = i
  <2> SUFFICES ASSUME NEW i \in 1..L PROVE \E k \in 1..(L + m) : ~Mine(k) /\ place(k) = i
    OBVIOUS
  <2>1. CASE i <= cut
    <3>1. i \in 1..(L + m) /\ ~Mine(i) /\ place(i) = i
      BY <1>4, <2>1
    <3> QED BY <3>1
  <2>2. CASE i > cut
    <3>1. i + m \in 1..(L + m) /\ ~Mine(i + m) /\ place(i + m) = i
      BY <1>4, <2>2
    <3> QED BY <3>1
  <2> QED BY <1>4, <2>1, <2>2
<1>14. \A j, k \in 1..(L + m) : Mine(j) /\ Mine(k) => j = k
  BY <1>1, <1>4
<1> HIDE DEF place, Mine
<1>15. \A k \in 1..(L + m) : r[k].script = s <=> Mine(k)
  BY <1>7, <1>10, <1>11
<1>16. from \in [1..(L + m) -> 0..Len(q)]
  <2> SUFFICES ASSUME NEW k \in 1..(L + m) PROVE from[k] \in 0..Len(q)
    OBVIOUS
  <2>1. CASE Mine(k)
    BY <1>0, <2>1
  <2>2. CASE ~Mine(k)
    BY <1>7, <1>10, <2>2
  <2> QED BY <2>1, <2>2
<1>17. \A k \in 1..(L + m) : ~Mine(k) => from[k] = was[place(k)] /\ from[k] \in 1..Len(q)
                                        /\ r[k] = q[from[k]]
  BY <1>7, <1>10
<1>18. \A j, k \in 1..(L + m) : j < k /\ ~Mine(j) /\ ~Mine(k) => from[j] < from[k]
  BY <1>9, <1>10, <1>12, <1>17
<1>19. \A i \in 1..Len(q) : q[i].script # s => \E k \in 1..(L + m) : from[k] = i /\ r[k] = q[i]
  BY <1>8, <1>13, <1>17
<1> HIDE DEF from
<1>20. \A k \in 1..(L + m) : \E i \in 1..Len(q) : r[k] = q[i]
  BY <1>11, <1>17
<1>21. Keeps(q, r, s, waiter)
  <2>1. \E g \in [1..(L + m) -> 0..Len(q)] :
          /\ \A j, k \in 1..(L + m) :
               j < k /\ r[j].script # s /\ r[k].script # s => g[j] < g[k]
          /\ \A k \in 1..(L + m) : r[k].script # s => g[k] \in 1..Len(q) /\ r[k] = q[g[k]]
          /\ \A i \in 1..Len(q) : q[i].script # s => \E k \in 1..(L + m) : g[k] = i /\ r[k] = q[i]
    BY <1>15, <1>16, <1>17, <1>18, <1>19
  <2>2. Len(r) = L + m /\ r \in Seq(Entry)
    BY <1>6
  <2>3. \A k \in 1..Len(r) : \/ r[k] = [script |-> s, waiter |-> waiter]
                             \/ \E i \in 1..Len(q) : r[k] = q[i]
    BY <1>20, <2>2
  <2> QED BY <2>1, <2>2, <2>3 DEF Keeps
<1>22. Sound(r)
  BY <1>6, <1>14, <1>15, <1>21, SoundKept
<1> QED
  BY <1>21, <1>22

\* An order by hand that is not refused edits the line for its own script.
LEMMA EditedKeeps ==
  ASSUME Sound(Loaded), NEW c \in Commands, ~Refused(c)
  PROVE  Keeps(Loaded, Edited(c), c.script, None) /\ Sound(Edited(c))
<1> DEFINE q == Loaded
<1>0. c.op \in {"enqueue", "dequeue", "front"} /\ c.script \in Scripts /\ q \in Seq(Entry)
  BY LineAssumption DEF Sound
<1>1. CASE c.op = "enqueue"
  <2>1. ~Has(q, c.script)
    BY <1>1 DEF Refused
  <2>2. Edited(c) = Marked(q, c.script, None)
    BY <1>1, <2>1 DEF Edited, Marked
  <2> QED BY <1>0, <2>2, MarkedKeeps
<1>2. CASE c.op = "dequeue"
  <2>1. Edited(c) = Without(q, c.script)
    BY <1>2 DEF Edited
  <2>2. Keeps(q, Edited(c), c.script, None) /\ ~Has(Edited(c), c.script)
    BY <1>0, <2>1, WithoutKeeps
  <2>3. \A j, k \in 1..Len(Edited(c)) :
          Edited(c)[j].script = c.script /\ Edited(c)[k].script = c.script => j = k
    BY <2>2 DEF Has
  <2> HIDE DEF q
  <2>4. Sound(Edited(c))
    BY <2>2, <2>3, SoundKept DEF q
  <2> QED BY <2>2, <2>4 DEF q
<1>3. CASE c.op = "front"
  <2>1. Edited(c) = Fronted(q, c.script, c.before)
    BY <1>3 DEF Edited
  <2> QED BY <2>1, FrontedKeeps
<1> QED
  BY <1>0, <1>1, <1>2, <1>3

-----------------------------------------------------------------------------
(* Types, whatever interleaves *)

\* Every copy of the line is sound too.
TypeInv == TypeOK /\ local \in [Procs -> Seq(Entry)] /\ \A p \in Procs : Sound(local[p])

\* A line that does not parse is an empty one.
LEMMA EmptySound == Sound(<<>>)
BY EmptySeq DEF Sound

\* What a process loads is sound, text that is no list included.
LEMMA LoadedSound == ASSUME TypeOK PROVE Sound(Loaded)
BY EmptySound DEF TypeOK, Loaded

\* The first line may be text, and nobody has a copy yet.
LEMMA TypesInit == Init => TypeInv
<1> SUFFICES ASSUME Init PROVE TypeInv
  OBVIOUS
<1>1. line = Garbage \/ Sound(line)
  BY LineAssumption DEF Init
<1>2. local \in [Procs -> Seq(Entry)] /\ \A p \in Procs : Sound(local[p])
  BY EmptySound, EmptySeq DEF Init
<1>3. hold \in Owners \cup {Absent} /\ drive \in [Others -> {"out", "write", "in"}]
  BY DEF Init, Owners
<1> QED
  BY <1>1, <1>2, <1>3 DEF Init, TypeInv, TypeOK, Phases, Changing

\* A copy that a process begins to save.
LEMMA TypesBegin ==
  ASSUME TypeInv, NEW p \in Procs, NEW q, Sound(q), local' = [local EXCEPT ![p] = q]
  PROVE  local' \in [Procs -> Seq(Entry)] /\ \A o \in Procs : Sound(local'[o])
<1>1. q \in Seq(Entry)
  BY DEF Sound
<1> QED
  BY <1>1 DEF TypeInv

\* A write leaves a copy or text, a replace what was written.
LEMMA TypesSave == ASSUME TypeInv, NEW p \in Procs, Save(p) PROVE TypeInv'
<1> USE DEF TypeInv, TypeOK, Changing, Phases
<1>1. CASE OpenTmp(p)
  BY <1>1, EmptySound DEF OpenTmp
<1>2. CASE WriteTmp(p)
  <2>1. \A old, new : new \in Mixed(p, old) => new = Garbage \/ Sound(new)
    BY DEF Mixed
  <2>2. line' = Garbage \/ Sound(line')
    BY <1>2, <2>1 DEF WriteTmp
  <2>3. tmp' \in {Absent, Garbage} \/ Sound(tmp')
    BY <1>2, <2>1 DEF WriteTmp
  <2> QED BY <1>2, <2>2, <2>3 DEF WriteTmp
<1>3. CASE Swap(p)
  <2>1. line' = Garbage \/ Sound(line')
    BY <1>3 DEF Swap
  <2>2. tmp' = Absent /\ UNCHANGED <<local, hold, alive, drive>>
    BY <1>3 DEF Swap
  <2>3. /\ fd' \in [Procs -> {"none", "tmp", "line", "gone"}]
        /\ at' \in [Procs -> {"load", "open", "write", "swap"}]
    BY <1>3 DEF Swap
  <2>4. AfterChange(phase[p]) \in Phases /\ phase' = [phase EXCEPT ![p] = AfterChange(phase[p])]
    BY <1>3 DEF Swap, AfterChange, Become
  <2>5. phase' \in [Procs -> Phases]
    BY <2>4
  <2>6. result' \in [Waits -> {"none", "held", "timeout", "crashed", "killed"}]
    BY <1>3 DEF Swap
  <2> QED BY <2>1, <2>2, <2>3, <2>5, <2>6
<1>4. CASE SwapFails(p)
  BY <1>4 DEF SwapFails, Become
<1> QED
  BY <1>1, <1>2, <1>3, <1>4 DEF Save

\* What a wait would save is sound when what it loaded is.
LEMMA TypesWait == ASSUME TypeInv, NEW w \in Waits, WaitStep(w) PROVE TypeInv'
<1> USE DEF TypeInv, TypeOK, Changing, Phases, Become
<1>0. w \in Procs /\ Sound(Loaded) /\ ScriptOf[w] \in Scripts
  BY LoadedSound, LineAssumption DEF Procs
<1>1. CASE MarkLoad(w)
  <2>1. Sound(Marked(Loaded, ScriptOf[w], w))
    BY <1>0, MarkedKeeps
  <2>2. local' = [local EXCEPT ![w] = Marked(Loaded, ScriptOf[w], w)]
    BY <1>1 DEF MarkLoad, Begin
  <2>3. local' \in [Procs -> Seq(Entry)] /\ \A o \in Procs : Sound(local'[o])
    BY <1>0, <2>1, <2>2, TypesBegin
  <2> QED BY <1>0, <1>1, <2>3 DEF MarkLoad, Begin, lineVars
<1>2. CASE Look(w) \/ Check(w) \/ TakeHold(w) \/ Finally(w)
  BY <1>0, <1>2 DEF Look, Check, TakeHold, Finally, PollAgain, lineVars, Owners
<1>3. CASE DequeueLoad(w)
  <2> DEFINE q == Without(Loaded, ScriptOf[w])
  <2>1. Keeps(Loaded, q, ScriptOf[w], None) /\ ~Has(q, ScriptOf[w])
    BY <1>0, WithoutKeeps DEF Sound
  <2>2. Sound(q)
    <3>1. \A j, k \in 1..Len(q) : q[j].script = ScriptOf[w] /\ q[k].script = ScriptOf[w] => j = k
      BY <2>1 DEF Has
    <3> HIDE DEF q
    <3> QED BY <1>0, <2>1, <3>1, SoundKept
  <2>3. local' = [local EXCEPT ![w] = q]
    BY <1>3 DEF DequeueLoad, Begin
  <2>4. local' \in [Procs -> Seq(Entry)] /\ \A o \in Procs : Sound(local'[o])
    BY <1>0, <2>2, <2>3, TypesBegin
  <2> QED BY <1>0, <1>3, <2>4 DEF DequeueLoad, Begin, lineVars
<1>4. CASE UnmarkLoad(w)
  <2> DEFINE q == Marked(Loaded, ScriptOf[w], None)
  <2>1. Sound(q)
    BY <1>0, MarkedKeeps
  <2>2. local' = local \/ local' = [local EXCEPT ![w] = q]
    BY <1>4 DEF UnmarkLoad, Begin
  <2>3. local' \in [Procs -> Seq(Entry)] /\ \A o \in Procs : Sound(local'[o])
    BY <1>0, <2>1, <2>2, TypesBegin
  <2> QED BY <1>0, <1>4, <2>3 DEF UnmarkLoad, Begin, lineVars
<1> QED
  BY <1>1, <1>2, <1>3, <1>4 DEF WaitStep

\* So is what a command by hand would save.
LEMMA TypesStep == ASSUME TypeInv, [Next]_vars PROVE TypeInv'
<1> USE DEF TypeInv, TypeOK, Changing, Phases, Become, Owners, lineVars
<1>0. \A p \in Waits \cup Hands : p \in Procs
  BY DEF Procs
<1>1. ASSUME NEW w \in Waits, Start(w) \/ GiveUp(w) \/ Release(w) \/ KillWait(w) PROVE TypeInv'
  BY <1>0, <1>1 DEF Start, GiveUp, Release, KillWait
<1>2. ASSUME NEW h \in Hands, HandLoad(h) PROVE TypeInv'
  <2>1. PICK c \in Commands :
          IF Refused(c) THEN phase' = [phase EXCEPT ![h] = "gone"] /\ UNCHANGED <<local, at>>
          ELSE /\ phase' = [phase EXCEPT ![h] = "hand"]
               /\ local' = [local EXCEPT ![h] = Edited(c)] /\ at' = [at EXCEPT ![h] = "open"]
    BY <1>2 DEF HandLoad, Begin
  <2>2. ~Refused(c) => Sound(Edited(c))
    BY LoadedSound, EditedKeeps
  <2>3. local' \in [Procs -> Seq(Entry)] /\ \A o \in Procs : Sound(local'[o])
    BY <1>0, <2>1, <2>2, TypesBegin
  <2>4. UNCHANGED <<lineVars, result, hold, alive, drive>>
    BY <1>2 DEF HandLoad
  <2> QED BY <1>0, <2>1, <2>3, <2>4
<1>3. ASSUME NEW o \in Others, OtherChecks(o) \/ OtherTakes(o) \/ OtherReleases(o) PROVE TypeInv'
  BY <1>3 DEF OtherChecks, OtherTakes, OtherReleases
<1>4. ASSUME NEW o \in Owners, KillOwner(o) PROVE TypeInv'
  BY <1>4 DEF KillOwner
<1>5. CASE UNCHANGED vars
  BY <1>5 DEF vars
<1> QED
  BY <1>1, <1>2, <1>3, <1>4, <1>5, TypesSave, TypesWait DEF Next

\* Whatever copies of the line are saved over one another, it stays a list of
\* entries in which no script stands twice, or text that reads as no line.
THEOREM LineIsSound == Spec => []TypeOK
<1>1. TypeInv => TypeOK BY DEF TypeInv
<1> QED BY <1>1, TypesInit, TypesStep, PTL DEF Spec

-----------------------------------------------------------------------------
(* A calm line *)

\* w stands in the line q with its pid; v does so ahead of w.
Stands(q, w) == \E i \in 1..Len(q) : q[i] = [script |-> ScriptOf[w], waiter |-> w]
AheadOf(q, v, w) ==
  \E i, j \in 1..Len(q) :
    i < j /\ q[i] = [script |-> ScriptOf[v], waiter |-> v] /\ q[j].script = ScriptOf[w]

\* A pid stands in its own wait's entry only, and an old tool wrote none.
OwnMarks(q) ==
  \A i \in 1..Len(q) :
    q[i].waiter = None \/ (q[i].waiter \in Waits /\ q[i].script = ScriptOf[q[i].waiter])

\* What a process is about to save, of the line as it still is.
Copied(p) ==
  /\ phase[p] = "mark" => /\ Keeps(Loaded, local[p], ScriptOf[p], p)
                          /\ Stands(local[p], p)
                          /\ \A w \in Waits : ~AheadOf(local[p], p, w)
  /\ phase[p] \in {"deq", "end"} => Keeps(Loaded, local[p], ScriptOf[p], None)
  /\ phase[p] = "deq" => ~Has(local[p], ScriptOf[p])
  /\ phase[p] = "hand" => \E s \in Scripts \ Polled : Keeps(Loaded, local[p], s, None)

Acquiring(w) == phase[w] \in {"check", "write"}

OwnPhases ==
  /\ \A p \in Procs : at[p] # "load" => phase[p] \in Changing
  /\ \A w \in Waits : phase[w] # "hand"
  /\ \A h \in Hands : phase[h] \in {"off", "hand", "gone"}

\* One change of the line at a time, and its tmp is nobody else's.
ChangeInv ==
  /\ OneChange
  /\ \A p \in Procs : InChange(p) =>
       /\ Copied(p)
       /\ at[p] = "write" => tmp = <<>> /\ fd[p] = "tmp"
       /\ at[p] = "swap" => tmp = local[p]

\* A wait stands in the line from its first mark on.
StandInv ==
  /\ OwnMarks(Loaded)
  /\ \A w \in Waits :
       /\ phase[w] = "off" => ~Has(Loaded, ScriptOf[w])
       /\ phase[w] = "mark" /\ Has(Loaded, ScriptOf[w]) => Stands(Loaded, w)
       /\ phase[w] = "look" \/ Acquiring(w) => Stands(Loaded, w)

\* Whoever is ahead of a wait was so in the copy it looks at; nobody alive is
\* ahead of a wait that acquires.
AheadInv ==
  \A v, w \in Waits : v # w /\ WaitAlive(v) /\ AheadOf(Loaded, v, w) =>
    /\ phase[w] = "look" => AheadOf(local[w], v, w)
    /\ ~Acquiring(w)

\* No live owner has the hold that somebody is about to write, only one
\* writes, and the hold of a live owner that uses the phone is its own.
HoldInv ==
  /\ \A w \in Waits :
       /\ phase[w] = "write" => hold \notin alive /\ \A o \in Others : drive[o] # "write"
       /\ w \in alive /\ (phase[w] = "deq" \/ result[w] = "held") => hold = w
       /\ hold = w => phase[w] \in {"deq", "finally", "end", "gone"}
  /\ \A o \in Others :
       /\ drive[o] # "out" => o \in alive
       /\ drive[o] = "write" =>
            hold \notin alive /\ \A p \in Others : drive[p] = "write" => p = o
       /\ o \in alive => (drive[o] = "in" <=> hold = o)

LineInv == OwnPhases /\ ChangeInv /\ StandInv /\ AheadInv /\ HoldInv

\* What an edit for s leaves to a wait of another script.
LEMMA OthersKept ==
  ASSUME NEW q, NEW r, NEW s, NEW waiter, Keeps(q, r, s, waiter),
         NEW w \in Waits, ScriptOf[w] # s
  PROVE  /\ Stands(q, w) => Stands(r, w)
         /\ Has(r, ScriptOf[w]) => Has(q, ScriptOf[w])
         /\ \A v \in Waits : ScriptOf[v] # s /\ AheadOf(r, v, w) => AheadOf(q, v, w)
<1>1. PICK from \in [1..Len(r) -> 0..Len(q)] :
        /\ \A j, k \in 1..Len(r) :
             j < k /\ r[j].script # s /\ r[k].script # s => from[j] < from[k]
        /\ \A k \in 1..Len(r) :
             r[k].script # s => from[k] \in 1..Len(q) /\ r[k] = q[from[k]]
        /\ \A i \in 1..Len(q) : q[i].script # s => \E k \in 1..Len(r) : from[k] = i /\ r[k] = q[i]
  BY DEF Keeps
<1>2. \A v \in Waits : [script |-> ScriptOf[v], waiter |-> v].script = ScriptOf[v]
  OBVIOUS
<1>3. Stands(q, w) => Stands(r, w)
  BY <1>1, <1>2 DEF Stands
<1>4. Has(r, ScriptOf[w]) => Has(q, ScriptOf[w])
  BY <1>1 DEF Has
<1>5. ASSUME NEW v \in Waits, ScriptOf[v] # s, AheadOf(r, v, w) PROVE AheadOf(q, v, w)
  <2>1. PICK i \in 1..Len(r), j \in 1..Len(r) :
          i < j /\ r[i] = [script |-> ScriptOf[v], waiter |-> v] /\ r[j].script = ScriptOf[w]
    BY <1>5 DEF AheadOf
  <2>2. r[i].script # s /\ r[j].script # s
    BY <1>2, <1>5, <2>1
  <2>3. /\ from[i] \in 1..Len(q) /\ from[j] \in 1..Len(q) /\ from[i] < from[j]
        /\ r[i] = q[from[i]] /\ r[j] = q[from[j]]
    BY <1>1, <2>1, <2>2
  <2> QED BY <2>1, <2>3 DEF AheadOf
<1> QED
  BY <1>3, <1>4, <1>5

\* An edit leaves pids in their own waits' entries.
LEMMA MarksKept ==
  ASSUME NEW q, NEW r, NEW s, NEW waiter, OwnMarks(q), Keeps(q, r, s, waiter),
         waiter = None \/ (waiter \in Waits /\ s = ScriptOf[waiter])
  PROVE  OwnMarks(r)
<1>1. \A k \in 1..Len(r) : \/ r[k] = [script |-> s, waiter |-> waiter]
                           \/ \E i \in 1..Len(q) : r[k] = q[i]
  BY DEF Keeps
<1>2. ASSUME NEW k \in 1..Len(r)
      PROVE  r[k].waiter = None \/ (r[k].waiter \in Waits /\ r[k].script = ScriptOf[r[k].waiter])
  <2>1. CASE r[k] = [script |-> s, waiter |-> waiter]
    BY <2>1
  <2>2. CASE \E i \in 1..Len(q) : r[k] = q[i]
    BY <2>2 DEF OwnMarks
  <2> QED BY <1>1, <2>1, <2>2
<1> QED
  BY <1>2 DEF OwnMarks

\* A wait that stands in a sound line with its pid has nothing to write.
LEMMA MarkedAgain ==
  ASSUME NEW q, Sound(q), NEW w \in Waits, Stands(q, w)
  PROVE  Marked(q, ScriptOf[w], w) = q
<1> DEFINE n == PlaceOf(q, ScriptOf[w])
           e == [script |-> ScriptOf[w], waiter |-> w]
<1>0. q \in Seq(Entry)
  BY DEF Sound
<1>1. PICK i \in 1..Len(q) : q[i] = e
  BY DEF Stands
<1>2. Has(q, ScriptOf[w])
  BY <1>1 DEF Has
<1>3. n \in 1..Len(q) /\ q[n].script = ScriptOf[w]
  BY <1>0, <1>2, FirstPlace
<1>4. n = i
  BY <1>1, <1>3 DEF Sound
<1> HIDE DEF n
<1>5. Marked(q, ScriptOf[w], w) = [q EXCEPT ![n].waiter = w]
  BY <1>2 DEF Marked, n
<1>6. [q[n] EXCEPT !.waiter = w] = q[n]
  BY <1>1, <1>4
<1>7. [q EXCEPT ![n].waiter = w] = [q EXCEPT ![n] = q[n]]
  BY <1>6
<1>8. [q EXCEPT ![n] = q[n]] = q
  BY <1>0, <1>3
<1> QED
  BY <1>5, <1>7, <1>8

\* A wait that does not stand in line is added at its end, behind all others.
LEMMA MarkedFirst ==
  ASSUME NEW q \in Seq(Entry), NEW w \in Waits, ~Has(q, ScriptOf[w]),
         NEW r, r = Marked(q, ScriptOf[w], w)
  PROVE  \A v \in Waits : ~AheadOf(r, w, v)
<1> DEFINE e == [script |-> ScriptOf[w], waiter |-> w]
<1>0. e \in Entry /\ Len(q) \in Nat
  BY LineAssumption DEF Entry
<1>1. r = Append(q, e)
  BY DEF Marked
<1>2. Len(r) = Len(q) + 1 /\ \A k \in 1..Len(q) : r[k] = q[k]
  BY <1>0, <1>1, AppendProperties
<1>3. \A k \in 1..Len(q) : r[k].script # ScriptOf[w]
  BY <1>2 DEF Has
<1>4. ASSUME NEW v \in Waits, NEW i \in 1..Len(r), NEW j \in 1..Len(r), i < j, r[i] = e
      PROVE  FALSE
  <2>1. i \in 1..Len(q)
    BY <1>0, <1>2, <1>4
  <2> QED BY <1>3, <1>4, <2>1
<1> QED
  BY <1>4 DEF AheadOf

\* Nobody stands in line yet, and nobody changes it.
LEMMA CalmInit == ASSUME Calm, Init PROVE LineInv
<1>1. \A p \in Procs : phase[p] = "off" /\ at[p] = "load"
  BY DEF Init
<1>2. \A w \in Waits : w \in Procs /\ result[w] = "none"
  BY DEF Init, Procs
<1>3. \A i \in 1..Len(Loaded) : Loaded[i].script \notin Polled /\ Loaded[i].waiter = None
  <2>1. CASE line = Garbage
    BY <2>1 DEF Loaded
  <2>2. CASE line # Garbage
    BY <2>2 DEF Loaded, Init, Calm
  <2> QED BY <2>1, <2>2
<1>4. OwnPhases
  BY <1>1, <1>2 DEF OwnPhases, Procs
<1>5. ChangeInv
  BY <1>1 DEF ChangeInv, OneChange, InChange
<1>6. StandInv
  BY <1>1, <1>2, <1>3 DEF StandInv, OwnMarks, Has, Polled, Acquiring
<1>7. AheadInv
  BY <1>1, <1>2 DEF AheadInv, Acquiring
<1>8. HoldInv
  <2>1. hold \notin Waits /\ alive = Owners /\ drive = [o \in Others |-> IF hold = o THEN "in" ELSE "out"]
    BY LineAssumption, NamesAssumption DEF Init
  <2>2. \A w \in Waits : phase[w] = "off" /\ result[w] # "held" /\ hold # w
    BY <1>1, <1>2, <2>1
  <2>3. \A o \in Others : o \in alive /\ drive[o] # "write" /\ (drive[o] = "in" <=> hold = o)
    BY <2>1 DEF Owners
  <2> QED BY <2>2, <2>3 DEF HoldInv
<1> QED
  BY <1>4, <1>5, <1>6, <1>7, <1>8 DEF LineInv

\* The change of the line itself: os.replace of what was copied.
LEMMA CalmSwap == ASSUME Calm, TypeInv, LineInv, NEW p \in Procs, Swap(p) PROVE LineInv'
<1> DEFINE r == local[p]
           next == AfterChange(phase[p])
<1>0. /\ OwnPhases /\ ChangeInv /\ StandInv /\ AheadInv /\ HoldInv /\ TypeOK
      /\ Sound(r) /\ Sound(Loaded) /\ phase \in [Procs -> Phases]
      /\ at \in [Procs -> {"load", "open", "write", "swap"}]
  BY LoadedSound DEF LineInv, TypeInv, TypeOK
<1>1. InChange(p) /\ Copied(p) /\ line' = r /\ phase[p] \in Changing
  BY <1>0 DEF Swap, ChangeInv, InChange
<1>2. Loaded' = r
  BY <1>0, <1>1, NamesAssumption DEF Loaded, Sound
<1>3. /\ UNCHANGED <<local, hold, alive, drive>>
      /\ phase' = [phase EXCEPT ![p] = next] /\ at' = [at EXCEPT ![p] = "load"]
      /\ result' = IF phase[p] = "deq" THEN [result EXCEPT ![p] = "held"] ELSE result
  BY DEF Swap, Become
<1>4. \A o \in Procs : ~InChange(o)'
  BY <1>0, <1>1, <1>3 DEF ChangeInv, OneChange, InChange
<1>5. \A w \in Waits : w \in Procs /\ ScriptOf[w] \in Polled
  BY DEF Procs, Polled
<1>6. /\ phase'[p] = next /\ \A o \in Procs : o # p => phase'[o] = phase[o] /\ at'[o] = at[o]
      /\ next \in {"look", "finally", "gone"}
      /\ phase[p] = "mark" <=> next = "look"
      /\ phase[p] = "deq" <=> next = "finally"
  BY <1>0, <1>1, <1>3 DEF AfterChange, Changing
<1>7. OwnPhases'
  <2>1. \A o \in Procs : at'[o] # "load" => phase'[o] \in Changing
    BY <1>0, <1>3, <1>6 DEF OwnPhases
  <2>2. \A w \in Waits : phase'[w] # "hand"
    BY <1>0, <1>5, <1>6 DEF OwnPhases
  <2>3. \A h \in Hands : phase'[h] \in {"off", "hand", "gone"}
    <3>1. \A h \in Hands : h \in Procs
      BY DEF Procs
    <3> QED BY <1>0, <1>1, <1>6, <3>1 DEF OwnPhases, AfterChange
  <2> QED BY <2>1, <2>2, <2>3 DEF OwnPhases
<1>8. ChangeInv'
  BY <1>4 DEF ChangeInv, OneChange
\* s is the script that the change is about.
<1>9. PICK s, waiter :
        /\ Keeps(Loaded, r, s, waiter)
        /\ waiter = None \/ (waiter \in Waits /\ s = ScriptOf[waiter])
        /\ \A w \in Waits : w # p => ScriptOf[w] # s
        /\ p \in Waits => s = ScriptOf[p]
  <2>1. CASE phase[p] = "hand"
    <3>1. p \notin Waits
      BY <1>0, <2>1 DEF OwnPhases
    <3> QED BY <1>1, <1>5, <2>1, <3>1 DEF Copied
  <2>2. CASE phase[p] # "hand"
    <3>1. p \in Waits
      BY <1>0, <1>1, <2>2 DEF OwnPhases, Procs, Changing
    <3>2. \A w \in Waits : w # p => ScriptOf[w] # ScriptOf[p]
      BY <3>1 DEF Calm
    <3>3. Keeps(Loaded, r, ScriptOf[p], p) \/ Keeps(Loaded, r, ScriptOf[p], None)
      BY <1>1, <2>2 DEF Copied, Changing
    <3> QED BY <3>1, <3>2, <3>3
  <2> QED BY <2>1, <2>2
<1>10. ASSUME NEW w \in Waits, w # p
       PROVE  /\ Stands(Loaded, w) => Stands(r, w)
              /\ Has(r, ScriptOf[w]) => Has(Loaded, ScriptOf[w])
              /\ \A v \in Waits : v # p /\ AheadOf(r, v, w) => AheadOf(Loaded, v, w)
  BY <1>9, <1>10, OthersKept
<1>11. StandInv'
  <2>1. OwnMarks(r)
    BY <1>0, <1>9, MarksKept DEF StandInv
  <2>2. ASSUME NEW w \in Waits
        PROVE  /\ phase'[w] = "off" => ~Has(r, ScriptOf[w])
               /\ phase'[w] = "mark" /\ Has(r, ScriptOf[w]) => Stands(r, w)
               /\ phase'[w] \in {"look", "check", "write"} => Stands(r, w)
    <3>1. CASE w = p
      BY <1>1, <1>6, <3>1 DEF Copied
    <3>2. CASE w # p
      <4>1. phase'[w] = phase[w]
        BY <1>5, <1>6, <3>2
      <4> QED BY <1>0, <1>10, <3>2, <4>1 DEF StandInv, Acquiring
    <3> QED BY <3>1, <3>2
  <2> QED BY <1>2, <2>1, <2>2 DEF StandInv, Acquiring
<1>12. AheadInv'
  <2>1. ASSUME NEW v \in Waits, NEW w \in Waits, v # w,
               phase'[v] \notin {"off", "gone"}, AheadOf(r, v, w)
        PROVE  /\ phase'[w] = "look" => AheadOf(local[w], v, w)
               /\ phase'[w] \notin {"check", "write"}
    <3>1. CASE w = p
      BY <1>6, <2>1, <3>1
    <3>2. CASE v = p
      <4>1. phase[p] \in {"mark", "deq"}
        BY <1>1, <1>0, <1>6, <2>1, <3>2 DEF Changing, OwnPhases, AfterChange
      <4>2. phase[p] # "mark"
        BY <1>1, <2>1, <3>2 DEF Copied
      <4>3. ~Has(r, ScriptOf[p])
        BY <1>1, <4>1, <4>2 DEF Copied
      <4>4. Has(r, ScriptOf[v])
        BY <2>1 DEF AheadOf, Has
      <4> QED BY <3>2, <4>3, <4>4
    <3>3. CASE w # p /\ v # p
      <4>1. phase'[w] = phase[w] /\ phase'[v] = phase[v]
        BY <1>5, <1>6, <3>3
      <4>2. AheadOf(Loaded, v, w)
        BY <1>10, <2>1, <3>3
      <4> QED BY <1>0, <2>1, <4>1, <4>2 DEF AheadInv, WaitAlive, Acquiring
    <3> QED BY <3>1, <3>2, <3>3
  <2> QED BY <1>2, <1>3, <2>1 DEF AheadInv, WaitAlive, Acquiring
<1>13. HoldInv'
  <2>1. ASSUME NEW w \in Waits
        PROVE  /\ phase'[w] \in {"write", "deq"} => phase'[w] = phase[w]
               /\ result'[w] = "held" => phase[w] = "deq" \/ result[w] = "held"
               /\ phase[w] \in {"deq", "finally", "end", "gone"} =>
                    phase'[w] \in {"deq", "finally", "end", "gone"}
    <3>1. CASE w = p
      BY <1>0, <1>1, <1>3, <1>6, <3>1 DEF Changing, OwnPhases, AfterChange
    <3>2. CASE w # p
      <4>1. phase'[w] = phase[w]
        BY <1>5, <1>6, <3>2
      <4>2. result'[w] = result[w]
        BY <1>3, <3>2
      <4> QED BY <4>1, <4>2
    <3> QED BY <3>1, <3>2
  <2> QED BY <1>0, <1>3, <2>1 DEF HoldInv
<1> QED
  BY <1>7, <1>8, <1>11, <1>12, <1>13 DEF LineInv

\* The steps before it change only the tmp, which nobody else has open.
LEMMA CalmWrite ==
  ASSUME Calm, TypeInv, LineInv, NEW p \in Procs, OpenTmp(p) \/ WriteTmp(p)
  PROVE  LineInv'
<1>0. /\ OwnPhases /\ ChangeInv /\ StandInv /\ AheadInv /\ HoldInv /\ TypeOK
      /\ fd \in [Procs -> {"none", "tmp", "line", "gone"}]
      /\ at \in [Procs -> {"load", "open", "write", "swap"}]
  BY DEF LineInv, TypeInv, TypeOK
<1>1. /\ InChange(p) /\ Copied(p)
      /\ \A o \in Procs : o # p => ~InChange(o)
  BY <1>0 DEF OpenTmp, WriteTmp, ChangeInv, OneChange, InChange
<1>2. /\ UNCHANGED <<line, phase, local, result, hold, alive, drive>>
      /\ \/ at' = [at EXCEPT ![p] = "write"] /\ tmp' = <<>> /\ fd' = [fd EXCEPT ![p] = "tmp"]
         \/ at' = [at EXCEPT ![p] = "swap"] /\ tmp' = local[p]
  BY <1>0, <1>1 DEF OpenTmp, WriteTmp, ChangeInv, Mixed
<1>3. Loaded' = Loaded
  BY <1>2 DEF Loaded
<1>4. at'[p] \in {"write", "swap"} /\ \A o \in Procs : o # p => at'[o] = at[o]
  BY <1>0, <1>2
<1>5. OwnPhases'
  BY <1>0, <1>1, <1>2, <1>4 DEF OwnPhases, InChange
<1>6. \A o \in Procs : InChange(o)' => o = p
  BY <1>1, <1>2, <1>4 DEF InChange
<1>7. OneChange'
  BY <1>6 DEF OneChange
<1>8. Copied(p)'
  BY <1>1, <1>2, <1>3 DEF Copied
<1>9. /\ at'[p] = "write" => tmp' = <<>> /\ fd'[p] = "tmp"
      /\ at'[p] = "swap" => tmp' = local'[p]
  BY <1>0, <1>2
<1>10. ChangeInv'
  BY <1>6, <1>7, <1>8, <1>9 DEF ChangeInv
<1>11. StandInv' /\ AheadInv' /\ HoldInv'
  BY <1>0, <1>2, <1>3 DEF StandInv, AheadInv, HoldInv, Acquiring, WaitAlive
<1> QED
  BY <1>5, <1>10, <1>11 DEF LineInv

\* Steps that leave the line and everybody's change of it alone, and move at
\* most one process, which is in no change.
LEMMA CalmMove ==
  ASSUME TypeInv, LineInv, NEW p \in Procs, NEW place, phase' = [phase EXCEPT ![p] = place],
         UNCHANGED <<lineVars, at, local>>, ~InChange(p),
         p \in Waits => place # "hand", p \in Hands => place = "gone"
  PROVE  OwnPhases' /\ ChangeInv' /\ Loaded' = Loaded /\ \A o \in Procs : o # p => phase'[o] = phase[o]
<1>0. OwnPhases /\ ChangeInv /\ phase \in [Procs -> Phases]
  BY DEF LineInv, TypeInv, TypeOK
<1>1. at[p] = "load" /\ UNCHANGED <<line, tmp, fd, at, local>>
  BY <1>0 DEF OwnPhases, InChange, lineVars
<1>2. phase'[p] = place /\ \A o \in Procs : o # p => phase'[o] = phase[o]
  BY <1>0
<1>3. Loaded' = Loaded
  BY <1>1 DEF Loaded
<1>4. OwnPhases'
  BY <1>0, <1>1, <1>2 DEF OwnPhases, Procs
<1>5. \A o \in Procs : InChange(o)' => o # p /\ InChange(o)
  BY <1>1, <1>2 DEF InChange
<1>6. \A o \in Procs : o # p /\ Copied(o) => Copied(o)'
  BY <1>1, <1>2, <1>3 DEF Copied
<1>7. ChangeInv'
  BY <1>0, <1>1, <1>5, <1>6 DEF ChangeInv, OneChange
<1> QED
  BY <1>2, <1>3, <1>4, <1>7

\* Of two waits that stand in line, one is ahead.
LEMMA EitherAhead ==
  ASSUME Calm, NEW q \in Seq(Entry), NEW v \in Waits, NEW w \in Waits, v # w,
         Stands(q, v), Stands(q, w)
  PROVE  AheadOf(q, v, w) \/ AheadOf(q, w, v)
<1>1. PICK i \in 1..Len(q) : q[i] = [script |-> ScriptOf[v], waiter |-> v]
  BY DEF Stands
<1>2. PICK j \in 1..Len(q) : q[j] = [script |-> ScriptOf[w], waiter |-> w]
  BY DEF Stands
<1>3. i # j
  BY <1>1, <1>2
<1>4. q[i].script = ScriptOf[v] /\ q[j].script = ScriptOf[w] /\ (i < j \/ j < i)
  BY <1>1, <1>2, <1>3
<1> QED
  BY <1>1, <1>2, <1>4 DEF AheadOf

\* A wait's steps between its changes.
LEMMA CalmWait ==
  ASSUME Calm, TypeInv, LineInv, NEW w \in Waits,
         Start(w) \/ Look(w) \/ Check(w) \/ TakeHold(w) \/ Finally(w)
  PROVE  LineInv'
<1> DEFINE Moves(place) == phase' = [phase EXCEPT ![w] = place]
<1>0. /\ OwnPhases /\ ChangeInv /\ StandInv /\ AheadInv /\ HoldInv
      /\ w \in Procs /\ w \notin Hands /\ phase \in [Procs -> Phases]
      /\ result \in [Waits -> {"none", "held", "timeout", "crashed", "killed"}]
      /\ Sound(Loaded) /\ Sound(local[w]) /\ hold \in Owners \cup {Absent}
  BY LineAssumption, LoadedSound DEF LineInv, TypeInv, TypeOK, Procs
<1>1. /\ UNCHANGED <<lineVars, at, local, alive, drive>> /\ ~InChange(w)
      /\ phase[w] \in {"off", "look", "check", "write", "finally"}
  BY DEF Start, Look, Check, TakeHold, Finally, InChange, Changing
<1>2. \/ phase[w] = "off" /\ Moves("mark") /\ UNCHANGED <<result, hold>>
      \/ phase[w] = "look" /\ Moves("check") /\ MyTurn(w) /\ UNCHANGED <<result, hold>>
      \/ phase[w] \in {"look", "check"} /\ Moves("mark") /\ UNCHANGED <<result, hold>>
      \/ /\ phase[w] \in {"look", "check"} /\ Moves("finally") /\ UNCHANGED hold
         /\ result' = [result EXCEPT ![w] = "timeout"]
      \/ /\ phase[w] = "check" /\ Moves("write") /\ MayTake(w) /\ NobodyBetween
         /\ UNCHANGED <<result, hold>>
      \/ phase[w] = "write" /\ Moves("deq") /\ hold' = w /\ UNCHANGED result
      \/ /\ phase[w] = "finally" /\ \E place \in {"end", "gone"} : Moves(place)
         /\ UNCHANGED <<result, hold>>
  BY DEF Start, Look, Check, TakeHold, Finally, PollAgain, Become
<1>3. PICK place : /\ place \in {"mark", "check", "finally", "write", "deq", "end", "gone"}
                   /\ Moves(place)
  BY <1>2
<1>4. /\ OwnPhases' /\ ChangeInv' /\ Loaded' = Loaded
      /\ \A o \in Procs : o # w => phase'[o] = phase[o]
  BY <1>0, <1>1, <1>3, CalmMove
<1>5. phase'[w] = place
  BY <1>0, <1>3
<1>6. \A v \in Waits : v \in Procs
  BY DEF Procs
<1>7. place = "check" => \A v \in Waits : v # w /\ WaitAlive(v) => ~AheadOf(Loaded, v, w)
  <2> SUFFICES ASSUME place = "check"
               PROVE  \A v \in Waits : v # w /\ WaitAlive(v) => ~AheadOf(Loaded, v, w)
    OBVIOUS
  <2>1. phase[w] = "look" /\ MyTurn(w)
    BY <1>2, <1>5, <1>0
  <2>2. ASSUME NEW v \in Waits, v # w, WaitAlive(v), AheadOf(Loaded, v, w) PROVE FALSE
    <3> DEFINE q == local[w]
               n == PlaceOf(q, ScriptOf[w])
    <3>1. AheadOf(q, v, w)
      BY <1>0, <2>1, <2>2 DEF AheadInv
    <3>2. PICK i \in 1..Len(q), j \in 1..Len(q) :
            i < j /\ q[i] = [script |-> ScriptOf[v], waiter |-> v] /\ q[j].script = ScriptOf[w]
      BY <3>1 DEF AheadOf
    <3>3. q \in Seq(Entry) /\ Has(q, ScriptOf[w])
      BY <1>0, <3>2 DEF Sound, Has
    <3>4. n \in 1..Len(q) /\ q[n].script = ScriptOf[w]
      BY <3>3, FirstPlace
    <3>5. n = j
      BY <1>0, <3>2, <3>4 DEF Sound
    <3> HIDE DEF n
    <3>6. /\ Len(SubSeq(q, 1, n - 1)) = IF 1 <= n - 1 THEN n - 1 - 1 + 1 ELSE 0
          /\ \A k \in 1..(n - 1 - 1 + 1) : SubSeq(q, 1, n - 1)[k] = q[1 + k - 1]
      <4>1. \A k \in 1..(n - 1) : q[k] \in Entry
        BY <3>3, <3>4
      <4> QED BY <3>3, <3>4, <4>1, SubSeqProperties
    <3>7. i \in 1..Len(SubSeq(q, 1, n - 1)) /\ SubSeq(q, 1, n - 1)[i] = q[i]
      BY <3>2, <3>3, <3>4, <3>5, <3>6
    <3>8. Ahead(w) = SubSeq(q, 1, n - 1)
      BY DEF Ahead, n
    <3>9. ~KeeperWaiting(q[i])
      BY <2>1, <3>7, <3>8 DEF MyTurn
    <3> QED BY <2>2, <3>2, <3>9 DEF KeeperWaiting
  <2> QED BY <2>2
<1>8. place = "write" => phase[w] = "check"
  BY <1>0, <1>2, <1>5
<1>9. place = "deq" => phase[w] = "write" /\ hold' = w
  BY <1>0, <1>2, <1>5
<1>10. place = "mark" => phase[w] = "off" \/ phase[w] \in {"look", "check"}
  BY <1>0, <1>2, <1>5
<1>11. StandInv'
  <2>1. ASSUME NEW v \in Waits
        PROVE  /\ phase'[v] = "off" => ~Has(Loaded, ScriptOf[v])
               /\ phase'[v] = "mark" /\ Has(Loaded, ScriptOf[v]) => Stands(Loaded, v)
               /\ phase'[v] \in {"look", "check", "write"} => Stands(Loaded, v)
    <3>1. CASE v = w
      BY <1>0, <1>2, <1>3, <1>5, <1>8, <1>10, <3>1 DEF StandInv, Acquiring
    <3>2. CASE v # w
      BY <1>0, <1>4, <1>6, <3>2 DEF StandInv, Acquiring
    <3> QED BY <3>1, <3>2
  <2> QED BY <1>0, <1>4, <2>1 DEF StandInv, Acquiring
<1>12. AheadInv'
  <2>1. ASSUME NEW u \in Waits, NEW v \in Waits, u # v,
               phase'[u] \notin {"off", "gone"}, AheadOf(Loaded, u, v)
        PROVE  /\ phase'[v] = "look" => AheadOf(local[v], u, v)
               /\ phase'[v] \notin {"check", "write"}
    <3>1. phase[u] \notin {"off", "gone"}
      <4>1. CASE u = w
        <5>1. Has(Loaded, ScriptOf[u])
          BY <2>1 DEF AheadOf, Has
        <5>2. phase[u] # "off"
          BY <1>0, <5>1 DEF StandInv
        <5> QED BY <1>1, <4>1, <5>2
      <4>2. CASE u # w
        BY <1>4, <1>6, <2>1, <4>2
      <4> QED BY <4>1, <4>2
    <3>2. CASE v = w
      <4>1. place # "look"
        BY <1>3
      <4>2. place # "check"
        BY <1>7, <2>1, <3>1, <3>2 DEF WaitAlive
      <4>3. place # "write"
        BY <1>0, <1>8, <2>1, <3>1, <3>2 DEF AheadInv, WaitAlive, Acquiring
      <4> QED BY <1>5, <3>2, <4>1, <4>2, <4>3
    <3>3. CASE v # w
      BY <1>0, <1>4, <1>6, <2>1, <3>1, <3>3 DEF AheadInv, WaitAlive, Acquiring
    <3> QED BY <3>2, <3>3
  <2> QED BY <1>1, <1>4, <2>1 DEF AheadInv, WaitAlive, Acquiring
<1>13. HoldInv'
  <2>0. \A v \in Waits : v # w => phase'[v] = phase[v]
    BY <1>4, <1>6
  <2>1. CASE place = "deq"
    <3>1. /\ phase[w] = "write" /\ hold' = w /\ Stands(Loaded, w)
          /\ hold \notin alive /\ \A o \in Others : drive[o] # "write"
      BY <1>0, <1>9, <2>1 DEF HoldInv, StandInv, Acquiring
    <3>2. ASSUME NEW v \in Waits, v # w, phase[v] = "write" PROVE FALSE
      <4>1. Stands(Loaded, v) /\ Acquiring(v) /\ Acquiring(w) /\ WaitAlive(v) /\ WaitAlive(w)
        BY <1>0, <3>1, <3>2 DEF StandInv, Acquiring, WaitAlive
      <4>2. AheadOf(Loaded, v, w) \/ AheadOf(Loaded, w, v)
        BY <1>0, <3>1, <3>2, <4>1, EitherAhead DEF Sound
      <4> QED BY <1>0, <3>2, <4>1, <4>2 DEF AheadInv
    <3>3. UNCHANGED <<result, alive, drive>>
      BY <1>1, <1>2, <3>1
    <3>4. ASSUME NEW v \in Waits
          PROVE  /\ phase'[v] # "write"
                 /\ v \in alive /\ (phase'[v] = "deq" \/ result[v] = "held") => v = w
                 /\ w = v => phase'[v] = "deq"
      BY <1>0, <1>5, <2>0, <2>1, <3>1, <3>2 DEF HoldInv
    <3>5. \A o \in Others : drive[o] = "out"
      <4>1. drive \in [Others -> {"out", "write", "in"}]
        BY DEF TypeInv, TypeOK
      <4> QED BY <1>0, <3>1, <4>1 DEF HoldInv
    <3>6. \A o \in Others : o # w
      BY LineAssumption
    <3> QED BY <3>1, <3>3, <3>4, <3>5, <3>6 DEF HoldInv
  <2>2. CASE place # "deq"
    <3>1. hold' = hold /\ \A v \in Waits : result'[v] = "held" => result[v] = "held"
      BY <1>0, <1>2, <1>5, <2>2
    <3>2. phase'[w] = "write" => hold \notin alive /\ \A o \in Others : drive[o] # "write"
      <4> SUFFICES ASSUME place = "write"
                   PROVE  hold \notin alive /\ \A o \in Others : drive[o] # "write"
        BY <1>5
      <4>1. phase[w] = "check" /\ MayTake(w) /\ NobodyBetween
        BY <1>0, <1>2, <1>5
      <4>2. hold # w
        BY <1>0, <4>1 DEF HoldInv
      <4>3. Absent \notin alive
        BY NamesAssumption DEF TypeInv, TypeOK, Owners
      <4> QED BY <4>1, <4>2, <4>3 DEF MayTake, NobodyBetween, Calm
    <3>3. hold = w => phase'[w] \in {"deq", "finally", "end", "gone"}
      BY <1>0, <1>1, <1>2, <1>5, <2>2 DEF HoldInv
    <3>4. phase'[w] # "deq"
      BY <1>5, <2>2
    <3> QED BY <1>0, <1>1, <2>0, <3>1, <3>2, <3>3, <3>4 DEF HoldInv
  <2> QED BY <2>1, <2>2
<1> QED
  BY <1>4, <1>11, <1>12, <1>13 DEF LineInv

\* A process that ends, or gives up, asks less of the line and the hold.
LEMMA CalmGone ==
  ASSUME TypeInv, LineInv, NEW p \in Procs, UNCHANGED <<local, hold, alive, drive>>,
         NEW place \in {"finally", "gone"}, phase' = [phase EXCEPT ![p] = place],
         WaitAlive(p) \/ place = "gone",
         \A w \in Waits : result'[w] = "held" => result[w] = "held",
         OwnPhases', ChangeInv', Loaded' = Loaded
  PROVE  LineInv'
<1>0. StandInv /\ AheadInv /\ HoldInv /\ phase \in [Procs -> Phases]
  BY DEF LineInv, TypeInv, TypeOK
<1>1. \A w \in Waits : w \in Procs
  BY DEF Procs
<1>2. /\ phase'[p] = place
      /\ \A o \in Procs : o # p => phase'[o] = phase[o]
  BY <1>0
<1>3. \A w \in Waits : WaitAlive(w)' => WaitAlive(w)
  BY <1>1, <1>2 DEF WaitAlive
<1>4. \A w \in Waits :
        \/ phase'[w] = phase[w]
        \/ phase'[w] \in {"finally", "gone"}
  BY <1>1, <1>2
<1>5. StandInv'
  BY <1>0, <1>4 DEF StandInv, Acquiring
<1>6. AheadInv'
  BY <1>0, <1>3, <1>4 DEF AheadInv, Acquiring
<1>7. HoldInv'
  BY <1>0, <1>4 DEF HoldInv, Acquiring
<1> QED
  BY <1>5, <1>6, <1>7 DEF LineInv

\* A process begins to save a copy, with no other change under way.
LEMMA CalmLoad ==
  ASSUME Calm, TypeInv, LineInv, NEW p \in Procs, MayLoad(p), NEW r, local' = [local EXCEPT ![p] = r],
         at' = [at EXCEPT ![p] = "open"], phase'[p] \in Changing,
         \/ p \in Waits /\ phase' = phase
         \/ p \in Hands /\ phase' = [phase EXCEPT ![p] = "hand"],
         UNCHANGED <<lineVars, result, hold, alive, drive>>, Copied(p)'
  PROVE  LineInv'
<1>0. /\ OwnPhases /\ ChangeInv /\ StandInv /\ AheadInv /\ HoldInv
      /\ phase \in [Procs -> Phases] /\ local \in [Procs -> Seq(Entry)]
      /\ at \in [Procs -> {"load", "open", "write", "swap"}]
  BY DEF LineInv, TypeInv, TypeOK
<1>1. \A o \in Procs : o # p => ~InChange(o)
  BY DEF MayLoad, Calm
<1>2. /\ at'[p] = "open" /\ local'[p] = r
      /\ \A o \in Procs : o # p => phase'[o] = phase[o] /\ at'[o] = at[o] /\ local'[o] = local[o]
  BY <1>0
<1>3. Loaded' = Loaded /\ UNCHANGED <<result, hold, alive, drive>>
  BY DEF Loaded, lineVars
<1>4. \A w \in Waits : w \in Procs /\ w \notin Hands /\ phase'[w] = phase[w]
  BY <1>0, LineAssumption DEF Procs
<1>5. OwnPhases'
  <2>1. \A o \in Procs : at'[o] # "load" => phase'[o] \in Changing
    BY <1>0, <1>2 DEF OwnPhases
  <2>2. \A h \in Hands : h \in Procs /\ h \notin Waits
    BY LineAssumption DEF Procs
  <2>3. \A h \in Hands : phase'[h] \in {"off", "hand", "gone"}
    BY <1>0, <1>2, <2>2 DEF OwnPhases
  <2> QED BY <1>0, <1>4, <2>1, <2>3 DEF OwnPhases
<1>6. \A o \in Procs : InChange(o)' => o = p
  BY <1>1, <1>2 DEF InChange
<1>7. ChangeInv'
  BY <1>2, <1>6 DEF ChangeInv, OneChange
<1>8. \A w \in Waits : phase[w] = "look" => local'[w] = local[w]
  BY <1>2, <1>4 DEF Changing
<1>9. StandInv' /\ AheadInv' /\ HoldInv'
  BY <1>0, <1>3, <1>4, <1>8 DEF StandInv, AheadInv, HoldInv, Acquiring, WaitAlive
<1> QED
  BY <1>5, <1>7, <1>9 DEF LineInv

\* A wait that is in the line looks at it; another begins to write its pid.
LEMMA CalmMark == ASSUME Calm, TypeInv, LineInv, NEW w \in Waits, MarkLoad(w) PROVE LineInv'
<1> DEFINE q == Marked(Loaded, ScriptOf[w], w)
<1>0. /\ OwnPhases /\ ChangeInv /\ StandInv /\ AheadInv /\ HoldInv
      /\ w \in Procs /\ w \notin Hands /\ phase \in [Procs -> Phases]
      /\ local \in [Procs -> Seq(Entry)] /\ Sound(Loaded) /\ ScriptOf[w] \in Scripts
  BY LineAssumption, LoadedSound DEF LineInv, TypeInv, TypeOK, Procs
<1>1. /\ Keeps(Loaded, q, ScriptOf[w], w) /\ Sound(q)
      /\ \E i \in 1..Len(q) : q[i] = [script |-> ScriptOf[w], waiter |-> w]
  <2>1. w \in Waits \cup {None} /\ q = Marked(Loaded, ScriptOf[w], w)
    OBVIOUS
  <2> HIDE DEF q
  <2> QED BY <1>0, <2>1, MarkedKeeps
<1>2. Stands(q, w)
  BY <1>1 DEF Stands
<1>3. phase[w] = "mark" /\ MayLoad(w) /\ UNCHANGED <<lineVars, result, hold, alive, drive>>
  BY DEF MarkLoad
<1>4. CASE q = Loaded
  <2>1. phase' = [phase EXCEPT ![w] = "look"] /\ local' = [local EXCEPT ![w] = q] /\ UNCHANGED at
    BY <1>4 DEF MarkLoad, Become
  <2>2. /\ phase'[w] = "look" /\ local'[w] = q
        /\ \A o \in Procs : o # w => phase'[o] = phase[o] /\ local'[o] = local[o]
    BY <1>0, <2>1
  <2>3. Loaded' = Loaded /\ UNCHANGED <<line, tmp, fd>>
    BY <1>3 DEF Loaded, lineVars
  <2>4. \A v \in Waits : v \in Procs
    BY DEF Procs
  <2>5. at[w] = "load"
    BY DEF MarkLoad
  <2>6. OwnPhases'
    <3>1. \A h \in Hands : h \in Procs /\ h # w
      BY <1>0 DEF Procs
    <3> QED BY <1>0, <2>1, <2>2, <2>4, <2>5, <3>1 DEF OwnPhases
  <2>7. \A o \in Procs : InChange(o)' => o # w /\ InChange(o)
    BY <2>1, <2>2, <2>5 DEF InChange
  <2>8. \A o \in Procs : o # w /\ Copied(o) => Copied(o)'
    BY <2>2, <2>3 DEF Copied
  <2>9. ChangeInv'
    BY <1>0, <2>1, <2>2, <2>3, <2>7, <2>8 DEF ChangeInv, OneChange
  <2>10. StandInv'
    BY <1>0, <1>2, <1>4, <2>2, <2>3, <2>4 DEF StandInv, Acquiring
  <2>11. AheadInv'
    BY <1>0, <1>3, <1>4, <2>2, <2>3, <2>4 DEF AheadInv, WaitAlive, Acquiring
  <2>12. HoldInv'
    BY <1>0, <1>3, <2>2, <2>4 DEF HoldInv, Acquiring
  <2> QED BY <2>6, <2>9, <2>10, <2>11, <2>12 DEF LineInv
<1>5. CASE q # Loaded
  <2>1. /\ local' = [local EXCEPT ![w] = q] /\ at' = [at EXCEPT ![w] = "open"] /\ phase' = phase
    BY <1>5 DEF MarkLoad, Begin
  <2>2. ~Has(Loaded, ScriptOf[w])
    BY <1>0, <1>3, <1>5, MarkedAgain DEF StandInv
  <2>3. \A v \in Waits : ~AheadOf(q, w, v)
    BY <1>0, <2>2, MarkedFirst DEF Sound
  <2>4. Loaded' = Loaded /\ local'[w] = q /\ phase'[w] = "mark"
    BY <1>0, <1>3, <2>1 DEF Loaded, lineVars
  <2>5. Copied(w)'
    BY <1>1, <1>2, <2>3, <2>4 DEF Copied
  <2> HIDE DEF q
  <2> QED BY <1>0, <1>3, <2>1, <2>4, <2>5, CalmLoad DEF Changing
<1> QED
  BY <1>4, <1>5

\* A wait that has the hold begins to take out its entry.
LEMMA CalmDequeue == ASSUME Calm, TypeInv, LineInv, NEW w \in Waits, DequeueLoad(w) PROVE LineInv'
<1> DEFINE q == Without(Loaded, ScriptOf[w])
<1>0. /\ w \in Procs /\ Sound(Loaded) /\ local \in [Procs -> Seq(Entry)]
  BY LoadedSound DEF TypeInv, Procs
<1>1. Keeps(Loaded, q, ScriptOf[w], None) /\ ~Has(q, ScriptOf[w])
  BY <1>0, WithoutKeeps DEF Sound
<1>2. /\ phase[w] = "deq" /\ MayLoad(w) /\ local' = [local EXCEPT ![w] = q]
      /\ at' = [at EXCEPT ![w] = "open"] /\ phase' = phase
      /\ UNCHANGED <<lineVars, result, hold, alive, drive>>
  BY DEF DequeueLoad, Begin
<1>3. Loaded' = Loaded /\ local'[w] = q /\ phase'[w] = "deq"
  BY <1>0, <1>2 DEF Loaded, lineVars
<1>4. Copied(w)'
  BY <1>1, <1>3 DEF Copied
<1> HIDE DEF q
<1> QED
  BY <1>0, <1>2, <1>3, <1>4, CalmLoad DEF Changing

\* A wait that gives up begins to take its pid out, or has none there.
LEMMA CalmUnmark == ASSUME Calm, TypeInv, LineInv, NEW w \in Waits, UnmarkLoad(w) PROVE LineInv'
<1> DEFINE q == Marked(Loaded, ScriptOf[w], None)
<1>0. /\ w \in Procs /\ w \notin Hands /\ Sound(Loaded) /\ ScriptOf[w] \in Scripts
      /\ local \in [Procs -> Seq(Entry)]
      /\ ChangeInv /\ StandInv /\ AheadInv /\ HoldInv /\ phase \in [Procs -> Phases]
  BY LineAssumption, LoadedSound DEF LineInv, TypeInv, TypeOK, Procs
<1>1. Keeps(Loaded, q, ScriptOf[w], None)
  BY <1>0, MarkedKeeps
<1>2. /\ phase[w] = "end" /\ at[w] = "load" /\ MayLoad(w)
      /\ UNCHANGED <<lineVars, result, hold, alive, drive>>
  BY DEF UnmarkLoad
<1>3. CASE q = Loaded
  <2>1. phase' = [phase EXCEPT ![w] = "gone"] /\ UNCHANGED <<lineVars, at, local>>
    BY <1>2, <1>3 DEF UnmarkLoad, Become
  <2>2. ~InChange(w)
    BY <1>2 DEF InChange
  <2>3. /\ OwnPhases' /\ ChangeInv' /\ Loaded' = Loaded
        /\ \A o \in Procs : o # w => phase'[o] = phase[o]
    BY <1>0, <2>1, <2>2, CalmMove
  <2> QED BY <1>0, <1>2, <2>1, <2>3, CalmGone
<1>4. CASE q # Loaded
  <2>1. local' = [local EXCEPT ![w] = q] /\ at' = [at EXCEPT ![w] = "open"] /\ phase' = phase
    BY <1>4 DEF UnmarkLoad, Begin
  <2>2. Loaded' = Loaded /\ local'[w] = q /\ phase'[w] = "end"
    BY <1>0, <1>2, <2>1 DEF Loaded, lineVars
  <2>3. Copied(w)'
    BY <1>1, <2>2 DEF Copied
  <2> HIDE DEF q
  <2> QED BY <1>0, <1>2, <2>1, <2>2, <2>3, CalmLoad DEF Changing
<1> QED
  BY <1>3, <1>4

\* A command by hand is for a script nobody waits under.
LEMMA CalmHand == ASSUME Calm, TypeInv, LineInv, NEW h \in Hands, HandLoad(h) PROVE LineInv'
<1>0. /\ h \in Procs /\ h \notin Waits /\ Sound(Loaded) /\ local \in [Procs -> Seq(Entry)]
      /\ ChangeInv /\ StandInv /\ AheadInv /\ HoldInv /\ OwnPhases /\ phase \in [Procs -> Phases]
  BY LineAssumption, LoadedSound DEF LineInv, TypeInv, TypeOK, Procs
<1>1. PICK c \in Commands :
        IF Refused(c) THEN phase' = [phase EXCEPT ![h] = "gone"] /\ UNCHANGED <<local, at>>
        ELSE /\ phase' = [phase EXCEPT ![h] = "hand"]
             /\ local' = [local EXCEPT ![h] = Edited(c)] /\ at' = [at EXCEPT ![h] = "open"]
  BY DEF HandLoad, Begin, Become
<1>2. phase[h] = "off" /\ MayLoad(h) /\ UNCHANGED <<lineVars, result, hold, alive, drive>>
  BY DEF HandLoad
<1>3. CASE Refused(c)
  <2>1. ~InChange(h)
    BY <1>2 DEF InChange, Changing
  <2>2. phase' = [phase EXCEPT ![h] = "gone"] /\ UNCHANGED <<lineVars, at, local>>
    BY <1>1, <1>2, <1>3
  <2>3. /\ OwnPhases' /\ ChangeInv' /\ Loaded' = Loaded
        /\ \A o \in Procs : o # h => phase'[o] = phase[o]
    BY <1>0, <2>1, <2>2, CalmMove
  <2> QED BY <1>0, <1>2, <2>2, <2>3, CalmGone
<1>4. CASE ~Refused(c)
  <2>1. Keeps(Loaded, Edited(c), c.script, None)
    BY <1>0, <1>4, EditedKeeps
  <2>2. c.script \in Scripts \ Polled
    BY LineAssumption DEF Calm
  <2>3. /\ phase' = [phase EXCEPT ![h] = "hand"]
        /\ local' = [local EXCEPT ![h] = Edited(c)] /\ at' = [at EXCEPT ![h] = "open"]
    BY <1>1, <1>4
  <2>4. Loaded' = Loaded /\ local'[h] = Edited(c) /\ phase'[h] = "hand"
    BY <1>0, <1>2, <2>3 DEF Loaded, lineVars
  <2>5. Copied(h)'
    BY <2>1, <2>2, <2>4 DEF Copied
  <2> QED BY <1>0, <1>2, <2>3, <2>4, <2>5, CalmLoad DEF Changing
<1> QED
  BY <1>3, <1>4

\* A save that fails, and a wait killed in it, leave the change undone.
LEMMA CalmFails ==
  ASSUME Calm, TypeInv, LineInv, NEW p \in Procs, SwapFails(p) \/ (p \in Waits /\ KillWait(p))
  PROVE  LineInv'
<1>0. /\ OwnPhases /\ ChangeInv /\ phase \in [Procs -> Phases]
      /\ at \in [Procs -> {"load", "open", "write", "swap"}]
      /\ fd \in [Procs -> {"none", "tmp", "line", "gone"}]
  BY DEF LineInv, TypeInv, TypeOK
<1>1. /\ UNCHANGED <<line, tmp, local, hold, alive, drive>>
      /\ at' = [at EXCEPT ![p] = "load"] /\ fd' = [fd EXCEPT ![p] = "none"]
  BY DEF SwapFails, KillWait
<1>2. PICK place \in {"finally", "gone"} :
        /\ phase' = [phase EXCEPT ![p] = place]
        /\ p \in Hands => place = "gone"
  <2>1. CASE SwapFails(p)
    <3>1. p \in Hands => phase[p] = "hand"
      BY <1>0, <2>1 DEF OwnPhases, SwapFails, Changing
    <3> QED BY <2>1, <3>1 DEF SwapFails, Become
  <2>2. CASE p \in Waits /\ KillWait(p)
    BY <2>2 DEF KillWait, Become
  <2> QED BY <2>1, <2>2
<1>3. WaitAlive(p)
  BY DEF SwapFails, KillWait, WaitAlive, Changing
<1>4. \A w \in Waits : result'[w] = "held" => result[w] = "held"
  <2>1. \/ UNCHANGED result
        \/ \E how \in {"crashed", "killed"} : result' = [result EXCEPT ![p] = how]
    BY DEF SwapFails, KillWait
  <2>2. result \in [Waits -> {"none", "held", "timeout", "crashed", "killed"}]
    BY DEF TypeInv, TypeOK
  <2> QED BY <2>1, <2>2
<1>5. Loaded' = Loaded
  BY <1>1 DEF Loaded
<1>6. /\ phase'[p] = place /\ at'[p] = "load"
      /\ \A o \in Procs : o # p => phase'[o] = phase[o] /\ at'[o] = at[o] /\ fd'[o] = fd[o]
  BY <1>0, <1>1, <1>2
<1>7. OwnPhases'
  BY <1>0, <1>2, <1>6 DEF OwnPhases, Procs
<1>8. \A o \in Procs : InChange(o)' => o # p /\ InChange(o)
  BY <1>6 DEF InChange
<1>9. \A o \in Procs : o # p /\ Copied(o) => Copied(o)'
  BY <1>1, <1>5, <1>6 DEF Copied
<1>10. ChangeInv'
  BY <1>0, <1>1, <1>6, <1>8, <1>9 DEF ChangeInv, OneChange
<1> QED
  BY <1>1, <1>2, <1>3, <1>4, <1>5, <1>7, <1>10, CalmGone

\* The owners come and go without touching the line.
LEMMA CalmOwners ==
  ASSUME Calm, TypeInv, LineInv,
         \/ \E w \in Waits : GiveUp(w) \/ Release(w)
         \/ \E o \in Others : OtherChecks(o) \/ OtherTakes(o) \/ OtherReleases(o)
         \/ \E o \in Owners : KillOwner(o)
         \/ UNCHANGED vars
  PROVE  LineInv'
<1>0. OwnPhases /\ ChangeInv /\ StandInv /\ AheadInv /\ HoldInv
  BY DEF LineInv
<1>1. UNCHANGED <<line, tmp, fd, phase, at, local, result>> /\ alive' \subseteq alive
  BY DEF GiveUp, Release, OtherChecks, OtherTakes, OtherReleases, KillOwner, vars, lineVars
<1>2. Loaded' = Loaded
  BY <1>1 DEF Loaded
<1>3. OwnPhases'
  BY <1>0, <1>1 DEF OwnPhases
<1>4. ChangeInv'
  BY <1>0, <1>1, <1>2 DEF ChangeInv, OneChange, InChange, Copied
<1>5. StandInv' /\ AheadInv'
  BY <1>0, <1>1, <1>2 DEF StandInv, AheadInv, Acquiring, WaitAlive
<1>6. HoldInv'
  <2> USE DEF HoldInv
  <2>0. /\ Absent \notin alive /\ Absent \notin Waits \cup Others /\ Waits \cap Others = {}
        /\ drive \in [Others -> {"out", "write", "in"}]
    BY LineAssumption, NamesAssumption DEF TypeInv, TypeOK, Owners
  <2>1. ASSUME NEW w \in Waits, GiveUp(w) PROVE HoldInv'
    <3>1. \A o \in Others : o # w
      BY <2>0
    <3> QED BY <1>0, <1>1, <2>1, <3>1 DEF GiveUp
  <2>2. ASSUME NEW w \in Waits, Release(w) PROVE HoldInv'
    BY <1>0, <1>1, <2>0, <2>2 DEF Release
  <2>3. ASSUME NEW o \in Others, OtherChecks(o) PROVE HoldInv'
    BY <1>0, <1>1, <2>0, <2>3 DEF OtherChecks, MayTake, NobodyBetween, Calm
  <2>4. ASSUME NEW o \in Others, OtherTakes(o) PROVE HoldInv'
    BY <1>0, <1>1, <2>0, <2>4 DEF OtherTakes
  <2>5. ASSUME NEW o \in Others, OtherReleases(o) PROVE HoldInv'
    BY <1>0, <1>1, <2>0, <2>5 DEF OtherReleases
  <2>6. ASSUME NEW o \in Owners, KillOwner(o) PROVE HoldInv'
    BY <1>0, <1>1, <2>0, <2>6 DEF KillOwner
  <2>7. CASE UNCHANGED vars
    BY <1>0, <1>1, <2>7 DEF vars
  <2> QED BY <2>1, <2>2, <2>3, <2>4, <2>5, <2>6, <2>7
<1> QED
  BY <1>3, <1>4, <1>5, <1>6 DEF LineInv

\* The calm line's invariant is inductive.
LEMMA CalmStep == ASSUME Calm, TypeInv, LineInv, [Next]_vars PROVE LineInv'
<1>1. ASSUME NEW p \in Procs, Save(p) PROVE LineInv'
  BY <1>1, CalmWrite, CalmSwap, CalmFails DEF Save
<1>2. ASSUME NEW w \in Waits, Start(w) \/ WaitStep(w) PROVE LineInv'
  BY <1>2, CalmWait, CalmMark, CalmDequeue, CalmUnmark DEF WaitStep
<1>3. ASSUME NEW w \in Waits, KillWait(w) PROVE LineInv'
  BY <1>3, CalmFails DEF Procs
<1>4. ASSUME NEW h \in Hands, HandLoad(h) PROVE LineInv'
  BY <1>4, CalmHand
<1> QED
  BY <1>1, <1>2, <1>3, <1>4, CalmOwners DEF Next

\* And so holds of every state.
LEMMA CalmAlways == ASSUME Calm PROVE Spec => [](TypeInv /\ LineInv)
<1>1. Init => TypeInv /\ LineInv
  BY TypesInit, CalmInit
<1>2. TypeInv /\ LineInv /\ [Next]_vars => TypeInv' /\ LineInv'
  BY TypesStep, CalmStep
<1> QED BY <1>1, <1>2, PTL DEF Spec

\* In a calm line no two keepers have the phone at once, and no two waits are
\* inside device_hold.acquire: an acquiring wait has nobody alive ahead of it,
\* and of two that stand in line one is ahead.
THEOREM OneKeeperHolds == ASSUME Calm PROVE Spec => []OneHolder
<1>1. ASSUME TypeInv, LineInv PROVE OneHolder
  <2>0. StandInv /\ AheadInv /\ HoldInv /\ Sound(Loaded)
    BY <1>1, LoadedSound DEF LineInv, TypeInv
  <2>1. ASSUME NEW v \in Holding, NEW w \in Holding PROVE v = w
    BY <2>0, <2>1 DEF Holding, HoldInv
  <2>2. ASSUME NEW v \in Waits, NEW w \in Waits, v # w, Acquiring(v), Acquiring(w)
        PROVE  FALSE
    <3>1. Stands(Loaded, v) /\ Stands(Loaded, w)
      BY <2>0, <2>2 DEF StandInv
    <3>2. AheadOf(Loaded, v, w) \/ AheadOf(Loaded, w, v)
      BY <2>0, <2>2, <3>1, EitherAhead DEF Sound
    <3>3. WaitAlive(v) /\ WaitAlive(w)
      BY <2>2 DEF WaitAlive, Acquiring
    <3> QED BY <2>0, <2>2, <3>2, <3>3 DEF AheadInv
  <2> QED BY <2>1, <2>2 DEF OneHolder, AcquiresDoNotOverlap, Acquiring
<1> QED BY <1>1, CalmAlways, PTL

\* In a calm line the hold goes to a keeper with no waiting keeper ahead of
\* it, by the line as it is when it acquires.
THEOREM TurnsAreKept == ASSUME Calm PROVE Spec => TurnOrder
<1> DEFINE InTurn ==
      \A w \in Waits : TakeHold(w) =>
        \A i \in 1..(PlaceOf(Loaded, ScriptOf[w]) - 1) : ~KeeperWaiting(Loaded[i])
<1>1. ASSUME TypeInv, LineInv PROVE InTurn
  <2> SUFFICES ASSUME NEW w \in Waits, TakeHold(w),
                      NEW i \in 1..(PlaceOf(Loaded, ScriptOf[w]) - 1), KeeperWaiting(Loaded[i])
               PROVE  FALSE
    OBVIOUS
  <2> DEFINE q == Loaded
             n == PlaceOf(q, ScriptOf[w])
  <2>0. /\ StandInv /\ AheadInv /\ Sound(q) /\ q \in Seq(Entry) /\ Acquiring(w)
    BY <1>1, LoadedSound DEF LineInv, TypeInv, Sound, TakeHold, Acquiring
  <2>1. Stands(q, w)
    BY <2>0 DEF StandInv
  <2>2. Has(q, ScriptOf[w])
    BY <2>1 DEF Stands, Has
  <2>3. n \in 1..Len(q) /\ q[n].script = ScriptOf[w]
    BY <2>0, <2>2, FirstPlace
  <2>4. i \in 1..Len(q) /\ i < n /\ KeeperWaiting(q[i])
    <3> HIDE DEF q
    <3> QED BY <2>0, <2>3 DEF q
  <2>5. OwnMarks(q)
    BY <2>0 DEF StandInv
  <2> HIDE DEF q, n
  <2>6. PICK v \in Waits : q[i].waiter = v /\ q[i].script = ScriptOf[v] /\ WaitAlive(v)
    <3>1. \/ q[i].waiter = None
          \/ q[i].waiter \in Waits /\ q[i].script = ScriptOf[q[i].waiter]
      BY <2>4, <2>5 DEF OwnMarks
    <3>2. q[i].waiter = NoKey \/ (q[i].waiter \in Waits /\ WaitAlive(q[i].waiter))
      BY <2>4 DEF KeeperWaiting
    <3> QED BY <3>1, <3>2, NamesAssumption
  <2>7. q[i] = [script |-> ScriptOf[v], waiter |-> v]
    <3>1. q[i] \in Entry
      BY <2>0, <2>4
    <3> QED BY <2>6, <3>1 DEF Entry
  <2>8. AheadOf(q, v, w)
    BY <2>3, <2>4, <2>7 DEF AheadOf
  <2>9. v # w
    BY <2>0, <2>3, <2>4, <2>6 DEF Sound
  <2> QED BY <2>0, <2>6, <2>8, <2>9 DEF AheadInv, q
<1> QED BY <1>1, CalmAlways, PTL DEF TurnOrder, InTurn

\* The hold is acquired while no live owner has it.
LEMMA HoldMoves ==
  ASSUME Calm, TypeInv, LineInv, [Next]_vars
  PROVE  hold' \in {hold, Absent} \/ hold \notin alive
<1>0. HoldInv
  BY DEF LineInv
<1>1. ASSUME NEW w \in Waits, TakeHold(w) PROVE hold \notin alive
  BY <1>0, <1>1 DEF TakeHold, HoldInv
<1>2. ASSUME NEW p \in Procs, Save(p) PROVE hold' = hold
  BY <1>2 DEF Save, OpenTmp, WriteTmp, Swap, SwapFails
<1>3. ASSUME NEW w \in Waits,
             Start(w) \/ MarkLoad(w) \/ Look(w) \/ Check(w) \/ DequeueLoad(w) \/ Finally(w)
               \/ UnmarkLoad(w) \/ GiveUp(w) \/ KillWait(w)
      PROVE  hold' = hold
  BY <1>3 DEF Start, MarkLoad, Look, Check, DequeueLoad, Finally, UnmarkLoad, GiveUp, KillWait
<1>4. ASSUME NEW h \in Hands, HandLoad(h) PROVE hold' = hold
  BY <1>4 DEF HandLoad
<1>5. ASSUME NEW o \in Others, OtherTakes(o) PROVE hold \notin alive
  BY <1>0, <1>5 DEF OtherTakes, HoldInv
<1>6. ASSUME \/ \E w \in Waits : Release(w)
             \/ \E o \in Others : OtherChecks(o) \/ OtherReleases(o)
      PROVE  hold' \in {hold, Absent}
  BY <1>6 DEF Release, OtherChecks, OtherReleases
<1>7. ASSUME (\E o \in Owners : KillOwner(o)) \/ UNCHANGED vars PROVE hold' = hold
  BY <1>7 DEF KillOwner, vars
<1> QED
  BY <1>1, <1>2, <1>3, <1>4, <1>5, <1>6, <1>7 DEF Next, WaitStep

\* In a calm line the phone is used as PhoneUse says: a keeper, or a driver
\* beside the line, begins only while neither another keeper nor another
\* driver uses the phone.
THEOREM LineSharesPhone == ASSUME Calm PROVE Spec => PhoneShared
<1>1. ASSUME TypeInv, LineInv, LineInv', [Next]_vars PROVE [Use!Next]_PhoneUsers
  <2>1. /\ \A u \in PhoneUsers : hold = u /\ u \in Owners /\ u \in alive
        /\ \A u \in PhoneUsers' : hold' = u /\ u \in Owners
    BY <1>1 DEF LineInv, HoldInv, PhoneUsers, Holding, Owners
  <2>2. PhoneUsers' \subseteq PhoneUsers \/ PhoneUsers = {}
    <3> SUFFICES ASSUME NEW o \in PhoneUsers', o \notin PhoneUsers,
                        NEW u \in PhoneUsers
                 PROVE  FALSE
      OBVIOUS
    <3>1. hold' = o /\ hold = u /\ u \in alive
      BY <2>1
    <3>2. hold' # Absent
      BY <2>1, <3>1, NamesAssumption DEF Owners
    <3>3. hold' = hold
      BY <1>1, <3>1, <3>2, HoldMoves
    <3> QED BY <3>1, <3>3
  <2>3. CASE PhoneUsers = {}
    <3>1. PhoneUsers' = {} \/ \E o \in Owners : PhoneUsers' = {o}
      BY <2>1
    <3> QED BY <2>3, <3>1 DEF Use!Next, Use!Begin
  <2>4. CASE PhoneUsers' \subseteq PhoneUsers
    <3>1. \/ PhoneUsers' = PhoneUsers
          \/ \E o \in Owners : o \in PhoneUsers /\ PhoneUsers' = PhoneUsers \ {o}
      BY <2>1, <2>4
    <3> QED BY <3>1 DEF Use!Next, Use!End
  <2> QED BY <2>2, <2>3, <2>4
<1> QED BY <1>1, CalmAlways, PTL DEF Spec, PhoneShared

=============================================================================

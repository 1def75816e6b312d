---------------------------- MODULE ListsProofs ----------------------------
(***************************************************************************)
(* Facts about lists: induction over the positions of a list, the           *)
(* existence of a function defined by recursion over them, what Picked      *)
(* keeps, and what the searches of SequencesExt find.                       *)
(***************************************************************************)
EXTENDS Lists, FiniteSets, SequencesExt, WellFoundedInduction, TLAPS

-----------------------------------------------------------------------------
(* Induction.                                                              *)

\* A nonempty set of natural numbers has a least element.
LEMMA LeastNumber ==
    ASSUME NEW T \in SUBSET Nat, T # {}
    PROVE  \E n \in T : \A k \in T : n <= k
  <1>1. PICK n \in T : \A k \in T : <<k, n>> \notin OpToRel(<, Nat)
    BY WFMin, NatLessThanWellFounded, Zenon
  <1>2. \A k \in T : ~(k < n)
    BY <1>1, Zenon DEF OpToRel
  <1>3. QED
    BY <1>2

\* Induction up to N, on the set of the numbers that have the property.
LEMMA InductionUpTo ==
    ASSUME NEW N \in Nat, NEW T,
           0 \in T,
           \A n \in 1 .. N : n - 1 \in T => n \in T
    PROVE  \A n \in 0 .. N : n \in T
  <1> DEFINE Missing == (0 .. N) \ T
  <1> SUFFICES ASSUME Missing # {} PROVE FALSE
    OBVIOUS
  <1>1. Missing \in SUBSET Nat
    OBVIOUS
  <1>2. PICK n \in Missing : \A k \in Missing : n <= k
    <2> HIDE DEF Missing
    <2> QED
      BY <1>1, LeastNumber
  <1>3. n \in 1 .. N /\ n - 1 \in 0 .. N
    BY <1>2
  <1>4. n - 1 \in T
    BY <1>2, <1>3
  <1>5. QED
    BY <1>2, <1>3, <1>4

\* step gives a function's value at n from its value at n - 1.
StepFunctions(S, N) == [1 .. N -> [S -> S]]

IsRecursive(f, base, step, S, N) ==
    /\ f \in [0 .. N -> S]
    /\ f[0] = base
    /\ \A n \in 1 .. N : f[n] = step[n][f[n - 1]]

\* A function defined by recursion over 0 .. N exists.
LEMMA RecursionExists ==
    ASSUME NEW S, NEW base \in S, NEW N \in Nat, NEW step \in StepFunctions(S, N)
    PROVE  \E f : IsRecursive(f, base, step, S, N)
  <1> USE DEF StepFunctions
  <1> DEFINE Follows(f, n) == f[0] = base /\ \A k \in 1 .. n : f[k] = step[k][f[k - 1]]
             T == {n \in 0 .. N : \E f \in [0 .. n -> S] : Follows(f, n)}
  <1>1. 0 \in T
    <2> DEFINE g == [k \in 0 .. 0 |-> base]
    <2>1. g \in [0 .. 0 -> S] /\ Follows(g, 0)
      OBVIOUS
    <2>2. \E f \in [0 .. 0 -> S] : Follows(f, 0)
      BY <2>1
    <2> HIDE DEF Follows
    <2>3. QED
      BY <2>2
  <1>2. ASSUME NEW n \in 1 .. N, n - 1 \in T PROVE n \in T
    <2>1. PICK f \in [0 .. n - 1 -> S] : Follows(f, n - 1)
      <3> HIDE DEF Follows
      <3> QED
        BY <1>2
    <2>2. n - 1 \in 0 .. n - 1 /\ 0 \in 0 .. n - 1 /\ 0 \in 0 .. n /\ n # 0
      OBVIOUS
    <2> DEFINE g == [k \in 0 .. n |-> IF k = n THEN step[n][f[n - 1]] ELSE f[k]]
    <2>3. step[n][f[n - 1]] \in S
      BY <2>2
    <2>4. g \in [0 .. n -> S]
      BY <2>2, <2>3
    <2>5. g[0] = base
      BY <2>1, <2>2
    <2>6. ASSUME NEW k \in 1 .. n PROVE g[k] = step[k][g[k - 1]]
      <3>1. k - 1 \in 0 .. n - 1 /\ k - 1 \in 0 .. n /\ k - 1 # n /\ k \in 0 .. n
        OBVIOUS
      <3>2. g[k - 1] = f[k - 1]
        BY <3>1
      <3>3. CASE k = n
        BY <3>1, <3>2, <3>3
      <3>4. CASE k # n
        <4>1. k \in 1 .. n - 1
          BY <3>4
        <4>2. f[k] = step[k][f[k - 1]]
          BY <2>1, <4>1
        <4>3. QED
          BY <3>1, <3>2, <3>4, <4>2
      <3>5. QED
        BY <3>3, <3>4
    <2>7. Follows(g, n)
      BY <2>5, <2>6
    <2>8. \E h \in [0 .. n -> S] : Follows(h, n)
      <3> HIDE DEF Follows, g
      <3> QED
        BY <2>4, <2>7
    <2> HIDE DEF Follows
    <2>9. QED
      BY <2>8
  <1>3. \A n \in 0 .. N : n \in T
    <2> HIDE DEF T
    <2> QED
      BY <1>1, <1>2, InductionUpTo
  <1>4. \E f \in [0 .. N -> S] : Follows(f, N)
    <2> HIDE DEF Follows
    <2> QED
      BY <1>3
  <1>5. QED
    BY <1>4 DEF IsRecursive

-----------------------------------------------------------------------------
(* Picked.                                                                 *)

\* at numbers, in order, the positions below n that are in keep, and p holds
\* the elements of s there.
Gathers(p, at, s, keep, n) ==
    /\ at \in [1 .. Len(p) -> keep \cap (1 .. n)]
    /\ \A k, l \in 1 .. Len(p) : k < l => at[k] < at[l]
    /\ \A i \in keep \cap (1 .. n) : \E k \in 1 .. Len(p) : at[k] = i
    /\ \A k \in 1 .. Len(p) : p[k] = s[at[k]]

\* What the recursion of Picked adds at each position.
LEMMA GathersMore ==
    ASSUME NEW S, NEW s \in Seq(S), NEW keep, NEW n \in 1 .. Len(s),
           NEW p \in Seq(S), NEW at, Gathers(p, at, s, keep, n - 1)
    PROVE  /\ n \in keep => \E more : Gathers(Append(p, s[n]), more, s, keep, n)
           /\ n \notin keep => Gathers(p, at, s, keep, n)
  <1> DEFINE q == Append(p, s[n])
             more == [k \in 1 .. Len(p) + 1 |-> IF k = Len(p) + 1 THEN n ELSE at[k]]
  <1> USE DEF Gathers
  <1>1. \A k \in 1 .. Len(p) : at[k] \in keep /\ at[k] \in 1 .. n - 1
    OBVIOUS
  <1>2. ASSUME n \in keep PROVE Gathers(q, more, s, keep, n)
    <2>1. /\ Len(q) = Len(p) + 1 /\ Len(p) \in Nat
          /\ \A k \in 1 .. Len(p) : q[k] = p[k]
          /\ q[Len(p) + 1] = s[n]
      OBVIOUS
    <2>2. \A k \in 1 .. Len(p) : more[k] = at[k]
      BY <2>1
    <2>3. more[Len(p) + 1] = n
      BY <2>1
    <2>4. more \in [1 .. Len(q) -> keep \cap (1 .. n)]
      BY <1>1, <1>2, <2>1
    <2>5. ASSUME NEW k \in 1 .. Len(q), NEW l \in 1 .. Len(q), k < l PROVE more[k] < more[l]
      <3>1. k \in 1 .. Len(p)
        BY <2>1, <2>5
      <3>2. CASE l = Len(p) + 1
        BY <1>1, <2>2, <2>3, <3>1, <3>2
      <3>3. CASE l # Len(p) + 1
        <4>1. l \in 1 .. Len(p)
          BY <2>1, <3>3
        <4>2. QED
          BY <2>2, <2>5, <3>1, <4>1
      <3>4. QED
        BY <3>2, <3>3
    <2>6. ASSUME NEW i \in keep \cap (1 .. n) PROVE \E k \in 1 .. Len(q) : more[k] = i
      <3>1. CASE i = n
        BY <2>1, <2>3, <3>1
      <3>2. CASE i # n
        <4>1. PICK k \in 1 .. Len(p) : at[k] = i
          BY <3>2
        <4>2. k \in 1 .. Len(q) /\ more[k] = i
          BY <2>1, <2>2, <4>1
        <4>3. QED
          BY <4>2
      <3>3. QED
        BY <3>1, <3>2
    <2>7. ASSUME NEW k \in 1 .. Len(q) PROVE q[k] = s[more[k]]
      <3>1. CASE k = Len(p) + 1
        BY <2>1, <2>3, <3>1
      <3>2. CASE k # Len(p) + 1
        <4>1. k \in 1 .. Len(p)
          BY <2>1, <3>2
        <4>2. QED
          BY <2>1, <2>2, <4>1
      <3>3. QED
        BY <3>1, <3>2
    <2> HIDE DEF more, q
    <2>8. QED
      BY <2>4, <2>5, <2>6, <2>7
  <1>3. ASSUME n \notin keep PROVE Gathers(p, at, s, keep, n)
    <2>1. keep \cap (1 .. n) = keep \cap (1 .. n - 1)
      BY <1>3
    <2>2. QED
      BY <2>1
  <1> HIDE DEF more, Gathers
  <1>4. QED
    BY <1>2, <1>3

\* Picked keeps exactly the elements at the positions in keep, in their order.
LEMMA PickedGathers ==
    ASSUME NEW S, NEW s \in Seq(S), NEW keep
    PROVE  /\ Picked(s, keep) \in Seq(S)
           /\ \E at : Gathers(Picked(s, keep), at, s, keep, Len(s))
  <1> DEFINE next(n, p) == IF n \in keep THEN Append(p, s[n]) ELSE p
             first[n \in 0 .. Len(s)] ==
                 IF n = 0 THEN <<>>
                 ELSE IF n \in keep THEN Append(first[n - 1], s[n]) ELSE first[n - 1]
             step == [n \in 1 .. Len(s) |-> [p \in Seq(S) |-> next(n, p)]]
  <1>1. \A n \in 1 .. Len(s), p \in Seq(S) : next(n, p) \in Seq(S)
    OBVIOUS
  <1>2. step \in StepFunctions(Seq(S), Len(s))
    BY <1>1 DEF StepFunctions
  <1>3. /\ Len(s) \in Nat /\ 0 \in 0 .. Len(s) /\ Len(s) \in 0 .. Len(s) /\ <<>> \in Seq(S)
        /\ \A n \in 1 .. Len(s) : n \in 0 .. Len(s) /\ n - 1 \in 0 .. Len(s) /\ n # 0
        /\ \A n \in 0 .. Len(s) : n = 0 \/ n \in 1 .. Len(s)
    OBVIOUS
  <1> HIDE DEF first
  <1>4. PICK f : IsRecursive(f, <<>>, step, Seq(S), Len(s))
    BY <1>2, <1>3, RecursionExists
  <1>5. \A n \in 1 .. Len(s) : f[n] = IF n \in keep THEN Append(f[n - 1], s[n]) ELSE f[n - 1]
    BY <1>3, <1>4 DEF IsRecursive
  <1>6. f = [n \in 0 .. Len(s) |->
                 IF n = 0 THEN <<>>
                 ELSE IF n \in keep THEN Append(f[n - 1], s[n]) ELSE f[n - 1]]
    BY <1>3, <1>4, <1>5 DEF IsRecursive
  <1>7. first = [n \in 0 .. Len(s) |->
                 IF n = 0 THEN <<>>
                 ELSE IF n \in keep THEN Append(first[n - 1], s[n]) ELSE first[n - 1]]
    BY <1>6, Zenon DEF first
  <1>8. first[0] = <<>> /\ \A n \in 1 .. Len(s) : first[n] = next(n, first[n - 1])
    BY <1>3, <1>7
  <1> DEFINE T == {n \in 0 .. Len(s) :
                      first[n] \in Seq(S) /\ \E at : Gathers(first[n], at, s, keep, n)}
  <1>9. 0 \in T
    <2>1. Gathers(<<>>, <<>>, s, keep, 0)
      BY DEF Gathers
    <2>2. QED
      BY <1>3, <1>8, <2>1
  <1>10. ASSUME NEW n \in 1 .. Len(s), n - 1 \in T PROVE n \in T
    <2>1. PICK at : Gathers(first[n - 1], at, s, keep, n - 1)
      BY <1>10
    <2>2. first[n] = next(n, first[n - 1]) /\ first[n - 1] \in Seq(S)
      BY <1>8, <1>10
    <2>3. \E more : Gathers(next(n, first[n - 1]), more, s, keep, n)
      BY <2>1, <2>2, GathersMore
    <2> HIDE DEF next
    <2>4. QED
      BY <1>1, <1>3, <2>2, <2>3
  <1>11. \A n \in 0 .. Len(s) : n \in T
    <2> HIDE DEF T
    <2> QED
      BY <1>3, <1>9, <1>10, InductionUpTo, Zenon
  <1>12. Picked(s, keep) = first[Len(s)]
    BY Zenon DEF Picked, first
  <1>13. QED
    BY <1>3, <1>11, <1>12

\* Picked and Without in terms of elements: which they keep, and in which order.
LEMMA PickedKeeps ==
    ASSUME NEW S, NEW s \in Seq(S), NEW keep \in SUBSET DOMAIN s
    PROVE  /\ Picked(s, keep) \in Seq(S)
           /\ \A i \in keep : \E k \in DOMAIN Picked(s, keep) : Picked(s, keep)[k] = s[i]
           /\ \A k \in DOMAIN Picked(s, keep) : \E i \in keep : Picked(s, keep)[k] = s[i]
           /\ \A k, l \in DOMAIN Picked(s, keep) : k < l =>
                \E i, j \in keep : i < j /\ Picked(s, keep)[k] = s[i] /\ Picked(s, keep)[l] = s[j]
  <1> DEFINE p == Picked(s, keep)
  <1>1. PICK at : p \in Seq(S) /\ Gathers(p, at, s, keep, Len(s))
    BY PickedGathers
  <1> HIDE DEF p
  <1>2. DOMAIN p = 1 .. Len(p) /\ DOMAIN s = 1 .. Len(s)
    BY <1>1
  <1>3. /\ \A k \in DOMAIN p : at[k] \in keep /\ p[k] = s[at[k]]
        /\ \A k, l \in DOMAIN p : k < l => at[k] < at[l]
        /\ \A i \in keep : \E k \in DOMAIN p : at[k] = i
    BY <1>1, <1>2 DEF Gathers
  <1>4. QED
    BY <1>1, <1>3 DEF p

LEMMA PickedInjective ==
    ASSUME NEW S, NEW s \in Seq(S), NEW keep \in SUBSET DOMAIN s, IsInjective(s)
    PROVE  IsInjective(Picked(s, keep))
  <1> DEFINE p == Picked(s, keep)
  <1>1. /\ p \in Seq(S)
        /\ \A k, l \in DOMAIN p : k < l => \E i, j \in keep : i < j /\ p[k] = s[i] /\ p[l] = s[j]
    BY PickedKeeps
  <1> HIDE DEF p
  <1>2. \A k, l \in DOMAIN p : k = l \/ k < l \/ l < k
    BY <1>1
  <1>3. \A i, j \in keep : i < j => s[i] # s[j]
    BY DEF IsInjective
  <1>4. \A k, l \in DOMAIN p : k < l => p[k] # p[l]
    BY <1>1, <1>3
  <1>5. IsInjective(p)
    BY <1>2, <1>4 DEF IsInjective
  <1>6. QED
    BY <1>5 DEF p

LEMMA WithoutKeeps ==
    ASSUME NEW S, NEW s \in Seq(S), NEW x
    PROVE  /\ Without(s, x) \in Seq(S)
           /\ ToSet(Without(s, x)) = ToSet(s) \ {x}
           /\ IsInjective(s) => IsInjective(Without(s, x))
           /\ \A k, l \in DOMAIN Without(s, x) : k < l =>
                \E i, j \in DOMAIN s : i < j /\ Without(s, x)[k] = s[i] /\ Without(s, x)[l] = s[j]
  <1> DEFINE keep == {i \in DOMAIN s : s[i] # x}
             p == Picked(s, keep)
  <1>1. p = Without(s, x)
    BY DEF Without
  <1>2. keep \in SUBSET DOMAIN s /\ \A i \in DOMAIN s : i \in keep <=> s[i] # x
    OBVIOUS
  <1> HIDE DEF keep
  <1>3. /\ p \in Seq(S)
        /\ \A i \in keep : \E k \in DOMAIN p : p[k] = s[i]
        /\ \A k \in DOMAIN p : \E i \in keep : p[k] = s[i]
        /\ \A k, l \in DOMAIN p : k < l => \E i, j \in keep : i < j /\ p[k] = s[i] /\ p[l] = s[j]
    BY <1>2, PickedKeeps
  <1>4. IsInjective(s) => IsInjective(p)
    BY <1>2, PickedInjective
  <1> HIDE DEF p
  <1>5. ToSet(p) = ToSet(s) \ {x}
    BY <1>2, <1>3 DEF ToSet
  <1>6. QED
    BY <1>1, <1>2, <1>3, <1>4, <1>5

-----------------------------------------------------------------------------
(* The least and the greatest position, which the searches return.         *)

LEMMA MinIsLeast ==
    ASSUME NEW T \in SUBSET Nat, T # {}
    PROVE  Min(T) \in T /\ \A k \in T : Min(T) <= k
  BY LeastNumber DEF Min

LEMMA MaxIsGreatest ==
    ASSUME NEW N \in Nat, NEW T \in SUBSET (0 .. N), T # {}
    PROVE  Max(T) \in T /\ \A k \in T : k <= Max(T)
  <1> DEFINE U == {k \in 0 .. N : N - k \in T}
  <1>1. U \in SUBSET Nat
    OBVIOUS
  <1>2. U # {}
    <2>1. PICK k \in T : TRUE
      OBVIOUS
    <2>2. N - k \in 0 .. N /\ N - (N - k) = k
      OBVIOUS
    <2>3. N - k \in U
      BY <2>2
    <2>4. QED
      BY <2>3
  <1>3. PICK l \in U : \A k \in U : l <= k
    <2> HIDE DEF U
    <2> QED
      BY <1>1, <1>2, LeastNumber
  <1>4. N - l \in T /\ \A k \in T : k <= N - l
    <2>1. ASSUME NEW k \in T PROVE k <= N - l
      <3>1. N - k \in U
        OBVIOUS
      <3>2. QED
        BY <1>3, <3>1
    <2>2. QED
      BY <1>3, <2>1
  <1>5. QED
    BY <1>4 DEF Max

LEMMA AppendAdds ==
    ASSUME NEW S, NEW s \in Seq(S), NEW x \in S
    PROVE  /\ Append(s, x) \in Seq(S)
           /\ DOMAIN Append(s, x) = DOMAIN s \cup {Len(s) + 1}
           /\ \A i \in DOMAIN s : Append(s, x)[i] = s[i] /\ i < Len(s) + 1
           /\ Append(s, x)[Len(s) + 1] = x
           /\ ToSet(Append(s, x)) = ToSet(s) \cup {x}
           /\ IsInjective(s) /\ x \notin ToSet(s) => IsInjective(Append(s, x))
  <1>1. /\ Append(s, x) \in Seq(S)
        /\ DOMAIN Append(s, x) = DOMAIN s \cup {Len(s) + 1}
        /\ \A i \in DOMAIN s : Append(s, x)[i] = s[i] /\ i < Len(s) + 1
        /\ Append(s, x)[Len(s) + 1] = x
    OBVIOUS
  <1> DEFINE y == Append(s, x)
  <1> HIDE DEF y
  <1>2. /\ DOMAIN y = DOMAIN s \cup {Len(s) + 1}
        /\ \A i \in DOMAIN s : y[i] = s[i]
        /\ y[Len(s) + 1] = x
    BY <1>1 DEF y
  <1>3. ToSet(y) = ToSet(s) \cup {x}
    BY <1>2 DEF ToSet
  <1>4. IsInjective(s) /\ x \notin ToSet(s) => IsInjective(y)
    BY <1>2 DEF ToSet, IsInjective
  <1>5. QED
    BY <1>1, <1>3, <1>4 DEF y

\* RemoveAt closes the gap.
LEMMA RemoveAtShifts ==
    ASSUME NEW S, NEW s \in Seq(S), NEW i \in 1 .. Len(s)
    PROVE  /\ RemoveAt(s, i) \in Seq(S)
           /\ Len(RemoveAt(s, i)) = Len(s) - 1
           /\ \A k \in 1 .. Len(s) - 1 : RemoveAt(s, i)[k] = s[IF k < i THEN k ELSE k + 1]
  <1> DEFINE left  == SubSeq(s, 1, i - 1)
             right == SubSeq(s, i + 1, Len(s))
  <1>1. left \in Seq(S) /\ Len(left) = i - 1 /\ \A k \in 1 .. i - 1 : left[k] = s[k]
    OBVIOUS
  <1>2. right \in Seq(S) /\ Len(right) = Len(s) - i /\ \A k \in 1 .. Len(s) - i : right[k] = s[i + k]
    OBVIOUS
  <1>3. RemoveAt(s, i) = left \o right
    BY DEF RemoveAt
  <1> HIDE DEF left, right
  <1>4. left \o right \in Seq(S) /\ Len(left \o right) = Len(s) - 1
    <2>1. left \o right \in Seq(S) /\ Len(left \o right) = Len(left) + Len(right)
      <3>1. left \in Seq(S) /\ right \in Seq(S)
        BY <1>1, <1>2
      <3>2. QED
        BY <3>1
    <2>2. Len(s) \in Nat
      OBVIOUS
    <2>3. QED
      BY <1>1, <1>2, <2>1, <2>2
  <1>5. ASSUME NEW k \in 1 .. Len(s) - 1
        PROVE  (left \o right)[k] = s[IF k < i THEN k ELSE k + 1]
    <2>1. CASE k < i
      BY <1>1, <1>2, <2>1
    <2>2. CASE ~(k < i)
      <3>1. (left \o right)[k] = right[k - (i - 1)]
        BY <1>1, <1>2, <2>2
      <3>2. k - (i - 1) \in 1 .. Len(s) - i /\ i + (k - (i - 1)) = k + 1
        BY <2>2
      <3>3. QED
        BY <1>2, <2>2, <3>1, <3>2
    <2>3. QED
      BY <2>1, <2>2
  <1>6. QED
    BY <1>3, <1>4, <1>5
=============================================================================

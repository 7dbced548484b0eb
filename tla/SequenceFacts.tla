---------------------------- MODULE SequenceFacts ----------------------------
(***************************************************************************)
(* Facts that the proofs of the components share.                          *)
(*                                                                         *)
(* Induction and recursion on the numbers up to a bound, for sets and      *)
(* functions instead of predicates and operators: what a recursive         *)
(* function computes can be proved with them, for inputs of any length.    *)
(* All rest on the fact that a set of numbers has a least one.             *)
(*                                                                         *)
(* What Append, Head with Tail, and concatenation do to the set of the     *)
(* elements of a sequence and to its being free of duplicates, and what    *)
(* SelectIn selects of a concatenation.                                    *)
(***************************************************************************)
EXTENDS Selection, SequenceTheorems, WellFoundedInduction, TLAPS

\* A set of numbers that is not empty has a least one.
LEMMA LeastNumber ==
  ASSUME NEW T, T \subseteq Nat, T # {}
  PROVE  \E i \in T : \A k \in T : i <= k
<1>1. PICK i \in T : \A k \in T : <<k, i>> \notin OpToRel(<, Nat)
  BY NatLessThanWellFounded, WFMin
<1>2. OpToRel(<, Nat) = {ss \in Nat \X Nat : ss[1] < ss[2]}
  BY DEF OpToRel
<1>3. ASSUME NEW k \in T
      PROVE  i <= k
  <2>1. ~(k < i)
    BY <1>1, <1>2
  <2> QED
    BY <2>1
<1> QED
  BY <1>3

\* Induction upwards.
LEMMA UpTo ==
  ASSUME NEW N \in Nat, NEW S, 0 \in S,
         \A n \in 0..(N - 1) : n \in S => n + 1 \in S
  PROVE  \A n \in 0..N : n \in S
<1> DEFINE T == {n \in 0..N : n \notin S}
<1> SUFFICES ASSUME T # {} PROVE FALSE
  OBVIOUS
<1>0. T \subseteq Nat
  OBVIOUS
<1>1. PICK i \in T : \A k \in T : i <= k
  <2> HIDE DEF T
  <2> QED
    BY <1>0, LeastNumber
<1>2. i # 0 /\ i - 1 \in 0..(N - 1) /\ i - 1 \notin T
  BY <1>1
<1>3. i - 1 \in S
  BY <1>2
<1>4. (i - 1) + 1 \in S
  BY <1>2, <1>3
<1> QED
  BY <1>1, <1>4

\* Induction downwards, where the step may use all that is above.
LEMMA DownFrom ==
  ASSUME NEW N \in Nat, NEW S,
         \A n \in 0..N : (\A k \in (n + 1)..N : k \in S) => n \in S
  PROVE  \A n \in 0..N : n \in S
<1> DEFINE T == {n \in 0..N : N - n \notin S}
<1> SUFFICES ASSUME T # {} PROVE FALSE
  <2>1. ASSUME T = {}, NEW n \in 0..N PROVE n \in S
    <3>1. N - n \in 0..N /\ N - (N - n) = n
      OBVIOUS
    <3> QED
      BY <2>1, <3>1
  <2> QED
    BY <2>1
<1>0. T \subseteq Nat
  OBVIOUS
<1>1. PICK i \in T : \A k \in T : i <= k
  <2> HIDE DEF T
  <2> QED
    BY <1>0, LeastNumber
<1>2. ASSUME NEW k \in (N - i + 1)..N PROVE k \in S
  <2>1. N - k \in 0..N /\ N - k < i /\ N - (N - k) = k
    BY <1>1
  <2>2. N - k \notin T
    BY <1>1, <2>1
  <2> QED
    BY <2>1, <2>2
<1>3. N - i \in 0..N
  BY <1>1
<1>4. N - i \in S
  BY <1>2, <1>3
<1> QED
  BY <1>1, <1>4

\* F takes the values that step computes, each from the one before.
Follows(F, step, base, N, V) ==
  /\ F \in [0..N -> V] /\ F[0] = base
  /\ \A n \in 1..N : F[n] = step[n][F[n - 1]]

\* There is such a function.
LEMMA RecursionExists ==
  ASSUME NEW N \in Nat, NEW V, NEW base \in V, NEW step \in [1..N -> [V -> V]]
  PROVE  \E F : Follows(F, step, base, N, V)
<1> DEFINE Upward(m, F) == Follows(F, step, base, m, V)
           S == {m \in 0..N : \E F : Upward(m, F)}
<1> USE DEF Follows
<1>1. 0 \in S
  <2>1. Upward(0, [n \in 0..0 |-> base])
    OBVIOUS
  <2>2. \E F : Upward(0, F)
    <3> HIDE DEF Upward
    <3> QED
      BY <2>1
  <2> QED
    BY <2>2
<1>2. ASSUME NEW m \in 0..(N - 1), m \in S PROVE m + 1 \in S
  <2>1. PICK F : Upward(m, F)
    BY <1>2
  <2> DEFINE G == [n \in 0..(m + 1) |->
                     IF n = m + 1 THEN step[m + 1][F[m]] ELSE F[n]]
  <2>2. F[m] \in V /\ m + 1 \in 1..N
    BY <2>1
  <2>3. G \in [0..(m + 1) -> V] /\ G[0] = base
    BY <2>1, <2>2
  <2>4. ASSUME NEW n \in 1..(m + 1) PROVE G[n] = step[n][G[n - 1]]
    <3>1. CASE n = m + 1
      <4>1. G[n] = step[m + 1][F[m]] /\ G[n - 1] = F[m]
        BY <3>1
      <4> QED
        BY <3>1, <4>1
    <3>2. CASE n \in 1..m
      <4>1. G[n] = F[n] /\ G[n - 1] = F[n - 1]
        BY <3>2
      <4> QED
        BY <2>1, <3>2, <4>1
    <3> QED
      BY <3>1, <3>2
  <2>5. Upward(m + 1, G)
    BY <2>3, <2>4
  <2>6. \E H : Upward(m + 1, H)
    <3> HIDE DEF Upward, G
    <3> QED
      BY <2>5
  <2> QED
    BY <2>2, <2>6
<1>3. \A n \in 0..N : n \in S
  <2> HIDE DEF S
  <2> QED
    BY <1>1, <1>2, UpTo
<1> QED
  BY <1>3

\* F takes the values that step computes, each from one further on.
LeadsBack(F, step, next, base, N, V) ==
  /\ F \in [1..N -> V] /\ F[N] = base
  /\ \A n \in 1..(N - 1) : F[n] = step[n][F[next[n]]]

\* There is such a function, too.
LEMMA BackwardRecursionExists ==
  ASSUME NEW N \in Nat \ {0}, NEW V, NEW base \in V,
         NEW step \in [1..(N - 1) -> [V -> V]],
         NEW next \in [1..(N - 1) -> 1..N],
         \A n \in 1..(N - 1) : next[n] > n
  PROVE  \E F : LeadsBack(F, step, next, base, N, V)
<1> DEFINE Partly(m, F) ==
             /\ F \in [m..N -> V] /\ F[N] = base
             /\ \A n \in m..(N - 1) : F[n] = step[n][F[next[n]]]
           S == {m \in 0..(N - 1) : \E F : Partly(N - m, F)}
<1>1. 0 \in S
  <2>1. Partly(N, [n \in N..N |-> base]) /\ N - 0 = N
    OBVIOUS
  <2>2. \E F : Partly(N - 0, F)
    <3> HIDE DEF Partly
    <3> QED
      BY <2>1
  <2> QED
    BY <2>2
<1>2. ASSUME NEW m \in 0..((N - 1) - 1), m \in S PROVE m + 1 \in S
  <2>1. PICK k : k = N - (m + 1)
    OBVIOUS
  <2>2. k \in 1..(N - 1) /\ N - m = k + 1 /\ k + 1 \in 1..N
    BY <2>1
  <2>3. PICK F : Partly(k + 1, F)
    BY <1>2, <2>2
  <2> DEFINE G == [n \in k..N |-> IF n = k THEN step[k][F[next[k]]] ELSE F[n]]
  <2>4. next[k] \in (k + 1)..N
    BY <2>2
  <2>5. F[next[k]] \in V /\ step[k] \in [V -> V]
    BY <2>2, <2>3, <2>4
  <2>6. step[k][F[next[k]]] \in V
    BY <2>5
  <2>7. G \in [k..N -> V] /\ G[N] = base
    BY <2>2, <2>3, <2>6
  <2>8. ASSUME NEW n \in k..(N - 1) PROVE G[n] = step[n][G[next[n]]]
    <3>1. /\ next[n] \in (n + 1)..N /\ next[n] \in k..N /\ next[n] # k
          /\ n \in k..N
      BY <2>2
    <3>2. G[next[n]] = F[next[n]]
      BY <3>1
    <3>3. CASE n = k
      BY <2>2, <3>2, <3>3
    <3>4. CASE n \in (k + 1)..(N - 1)
      <4>1. G[n] = F[n]
        BY <2>2, <3>4
      <4> QED
        BY <2>3, <3>2, <3>4, <4>1
    <3> QED
      BY <2>2, <3>3, <3>4
  <2>9. Partly(k, G)
    BY <2>7, <2>8
  <2>10. \E H : Partly(k, H)
    <3> HIDE DEF Partly, G
    <3> QED
      BY <2>9
  <2> QED
    <3> HIDE DEF Partly
    <3>1. m + 1 \in 0..(N - 1) /\ k = N - (m + 1)
      BY <2>1
    <3>2. \E H : Partly(N - (m + 1), H)
      BY <2>10, <3>1
    <3> QED
      BY <3>1, <3>2
<1>3. \A m \in 0..(N - 1) : m \in S
  <2> HIDE DEF S
  <2>1. PICK M \in Nat : M = N - 1
    OBVIOUS
  <2>2. \A m \in 0..(M - 1) : m \in S => m + 1 \in S
    BY <1>2, <2>1
  <2>3. \A m \in 0..M : m \in S
    BY <1>1, <2>2, UpTo
  <2> QED
    BY <2>1, <2>3
<1>4. N - 1 \in S /\ N - (N - 1) = 1
  BY <1>3
<1> QED
  BY <1>4 DEF LeadsBack

-----------------------------------------------------------------------------
\* Append adds one element.
LEMMA AppendFacts ==
  ASSUME NEW S, NEW q \in Seq(S), NEW x \in S
  PROVE  /\ Range(Append(q, x)) = Range(q) \cup {x}
         /\ IsInjective(q) /\ x \notin Range(q) => IsInjective(Append(q, x))
BY DEF Range, IsInjective

\* Head and Tail share out the elements.
LEMMA TailFacts ==
  ASSUME NEW S, NEW q \in Seq(S), q # <<>>
  PROVE  /\ Head(q) \in Range(q)
         /\ Range(q) = {Head(q)} \cup Range(Tail(q))
         /\ IsInjective(q) => IsInjective(Tail(q)) /\ Head(q) \notin Range(Tail(q))
<1>0. /\ Len(q) \in Nat \ {0} /\ DOMAIN q = 1 .. Len(q) /\ Head(q) = q[1]
      /\ Tail(q) \in Seq(S) /\ Len(Tail(q)) = Len(q) - 1
      /\ DOMAIN Tail(q) = 1 .. Len(q) - 1
      /\ \A i \in 1 .. Len(q) - 1 : Tail(q)[i] = q[i + 1]
  BY HeadTailProperties, EmptySeq, LenProperties
<1>1. Head(q) \in Range(q)
  BY <1>0 DEF Range
<1>2. Range(Tail(q)) \subseteq Range(q)
  BY <1>0 DEF Range
<1>3. ASSUME NEW x \in Range(q), x # Head(q) PROVE x \in Range(Tail(q))
  <2>1. PICK i \in 1 .. Len(q) : q[i] = x
    BY <1>0 DEF Range
  <2>2. i - 1 \in 1 .. Len(q) - 1 /\ Tail(q)[i - 1] = x
    BY <1>0, <1>3, <2>1
  <2> QED
    BY <1>0, <2>2 DEF Range
<1>4. IsInjective(q) => IsInjective(Tail(q)) /\ Head(q) \notin Range(Tail(q))
  BY <1>0 DEF Range, IsInjective
<1> QED
  BY <1>1, <1>2, <1>3, <1>4

\* Concatenation joins the elements.
LEMMA ConcatFacts ==
  ASSUME NEW S, NEW p \in Seq(S), NEW q \in Seq(S)
  PROVE  /\ Range(p \o q) = Range(p) \cup Range(q)
         /\ IsInjective(p) /\ IsInjective(q) /\ Range(p) \cap Range(q) = {}
              => IsInjective(p \o q)
<1>1. Range(p \o q) = Range(p) \cup Range(q)
  BY RangeConcatenation
<1>2. ASSUME IsInjective(p), IsInjective(q), Range(p) \cap Range(q) = {},
             NEW i \in DOMAIN (p \o q), NEW j \in DOMAIN (p \o q),
             (p \o q)[i] = (p \o q)[j]
      PROVE  i = j
  <2>1. /\ Len(p) \in Nat /\ Len(q) \in Nat
        /\ DOMAIN p = 1 .. Len(p) /\ DOMAIN q = 1 .. Len(q)
        /\ DOMAIN (p \o q) = 1 .. Len(p) + Len(q)
        /\ \A k \in 1 .. Len(p) + Len(q) :
             (p \o q)[k] = IF k <= Len(p) THEN p[k] ELSE q[k - Len(p)]
    BY ConcatProperties, LenProperties
  <2>2. CASE i <= Len(p) /\ j <= Len(p)
    BY <1>2, <2>1, <2>2 DEF IsInjective
  <2>3. CASE i > Len(p) /\ j > Len(p)
    BY <1>2, <2>1, <2>3 DEF IsInjective
  <2>4. ASSUME NEW k \in DOMAIN (p \o q), NEW l \in DOMAIN (p \o q),
               k <= Len(p), ~(l <= Len(p))
        PROVE  (p \o q)[k] # (p \o q)[l]
    <3>1. (p \o q)[k] \in Range(p)
      BY <2>1, <2>4 DEF Range
    <3>2. l - Len(p) \in DOMAIN q /\ (p \o q)[l] = q[l - Len(p)]
      BY <2>1, <2>4
    <3>3. (p \o q)[l] \in Range(q)
      BY <3>2 DEF Range
    <3> QED
      BY <1>2, <3>1, <3>3
  <2> QED
    BY <1>2, <2>1, <2>2, <2>3, <2>4
<1> QED
  BY <1>1, <1>2 DEF IsInjective
-----------------------------------------------------------------------------
(* What SelectIn selects.                                                  *)

\* The equations of SelectedUpTo.
Selects(own, q, C) ==
  /\ own \in [0..Len(q) -> Seq(C)] /\ own[0] = <<>>
  /\ \A n \in 1..Len(q) :
       own[n] = IF q[n] \in C THEN Append(own[n - 1], q[n]) ELSE own[n - 1]

\* It is the function its definition says.
LEMMA SelectedUpToFacts ==
  ASSUME NEW S, NEW C, NEW q \in Seq(S)
  PROVE  Selects(SelectedUpTo(q, C), q, C)
<1> DEFINE step == [n \in 1..Len(q) |-> [t \in Seq(C) |->
                     IF q[n] \in C THEN Append(t, q[n]) ELSE t]]
           body(own) == [n \in 0..Len(q) |->
                           IF n = 0 THEN <<>>
                           ELSE IF q[n] \in C
                             THEN Append(own[n - 1], q[n]) ELSE own[n - 1]]
<1>1. Len(q) \in Nat /\ <<>> \in Seq(C)
  <2>1. <<>> \in Seq(C)
    BY EmptySeq
  <2> QED
    BY <2>1, LenProperties
<1>2. step \in [1..Len(q) -> [Seq(C) -> Seq(C)]]
  BY AppendProperties
<1>3. PICK F : Follows(F, step, <<>>, Len(q), Seq(C))
  <2> HIDE DEF step
  <2> QED
    BY <1>1, <1>2, RecursionExists
<1> USE DEF Follows
<1>4. \A n \in 1..Len(q) :
        F[n] = IF q[n] \in C THEN Append(F[n - 1], q[n]) ELSE F[n - 1]
  <2>1. \A n \in 1..Len(q) : n - 1 \in 0..Len(q)
    BY <1>1
  <2> QED
    BY <1>3, <2>1
<1>5. F = body(F)
  <2>1. ASSUME NEW n \in 0..Len(q) PROVE F[n] = body(F)[n]
    <3>1. CASE n = 0
      BY <1>3, <3>1
    <3>2. CASE n \in 1..Len(q)
      <4>1. n # 0
        BY <1>1, <3>2
      <4>2. body(F)[n] = IF q[n] \in C THEN Append(F[n - 1], q[n]) ELSE F[n - 1]
        BY <4>1, Zenon
      <4> QED
        BY <1>4, <3>2, <4>2, Zenon
    <3> QED
      BY <1>1, <3>1, <3>2
  <2> QED
    BY <1>3, <2>1
<1>6. SelectedUpTo(q, C) = CHOOSE own : own = body(own)
  BY DEF SelectedUpTo
<1>7. SelectedUpTo(q, C) = body(SelectedUpTo(q, C))
  <2> HIDE DEF body
  <2> QED
    BY <1>5, <1>6
<1> DEFINE own == SelectedUpTo(q, C)
<1>8. own[0] = <<>>
  BY <1>1, <1>7
<1>9. ASSUME NEW n \in 1..Len(q)
      PROVE  own[n] = IF q[n] \in C THEN Append(own[n - 1], q[n])
                                         ELSE own[n - 1]
  <2>1. n # 0 /\ n \in 0..Len(q)
    BY <1>1
  <2>2. body(own)[n] = IF q[n] \in C THEN Append(own[n - 1], q[n])
                                     ELSE own[n - 1]
    BY <2>1, Zenon
  <2> QED
    BY <1>7, <2>2, Zenon
<1>10. \A n \in 0..Len(q) : own[n] = F[n]
  <2> DEFINE T == {n \in 0..Len(q) : own[n] = F[n]}
  <2>1. 0 \in T
    BY <1>1, <1>3, <1>8
  <2>2. ASSUME NEW n \in 0..(Len(q) - 1), n \in T PROVE n + 1 \in T
    <3>1. n + 1 \in 1..Len(q) /\ (n + 1) - 1 = n /\ own[n] = F[n]
      BY <1>1, <2>2
    <3> QED
      BY <1>1, <1>4, <1>9, <3>1
  <2>3. \A n \in 0..Len(q) : n \in T
    <3> HIDE DEF T
    <3> QED
      BY <1>1, <2>1, <2>2, UpTo
  <2> QED
    BY <2>3
<1> QED
  <2> HIDE DEF own, body
  <2>1. own = F
    <3>1. body(own) = [n \in 0..Len(q) |-> body(own)[n]]
      BY Zenon DEF body
    <3>2. own = [n \in 0..Len(q) |-> own[n]]
      <4>1. own = body(own)
        BY <1>7 DEF own
      <4> QED
        BY <3>1, <4>1
    <3>3. F = [n \in 0..Len(q) |-> F[n]]
      BY <1>3
    <3> QED
      BY <1>10, <3>2, <3>3
  <2> QED
    BY <1>3, <1>4, <2>1 DEF own, Selects

\* SelectIn returns a sequence of the elements that are in C.
LEMMA SelectInFacts ==
  ASSUME NEW S, NEW C, NEW q \in Seq(S)
  PROVE  /\ SelectIn(q, C) \in Seq(C)
         /\ Range(SelectIn(q, C)) = Range(q) \cap C
<1> DEFINE own == SelectedUpTo(q, C)
           T == {n \in 0..Len(q) : Range(own[n]) = {q[i] : i \in 1..n} \cap C}
<1>1. /\ Len(q) \in Nat /\ own \in [0..Len(q) -> Seq(C)] /\ own[0] = <<>>
      /\ \A n \in 1..Len(q) :
           own[n] = IF q[n] \in C THEN Append(own[n - 1], q[n]) ELSE own[n - 1]
  <2>1. Selects(own, q, C)
    BY SelectedUpToFacts
  <2> QED
    BY <2>1, LenProperties DEF Selects
<1> HIDE DEF own
<1>2. 0 \in T
  BY <1>1 DEF Range
<1>3. ASSUME NEW n \in 0..(Len(q) - 1), n \in T PROVE n + 1 \in T
  <2>1. /\ n \in 0..Len(q) /\ n + 1 \in 1..Len(q) /\ (n + 1) - 1 = n
        /\ n + 1 \in 0..Len(q)
    BY <1>1
  <2>0. own[n] \in Seq(C) /\ Range(own[n]) = {q[i] : i \in 1..n} \cap C
    BY <1>1, <1>3, <2>1
  <2>2. own[n + 1] = IF q[n + 1] \in C THEN Append(own[n], q[n + 1]) ELSE own[n]
    BY <1>1, <2>1
  <2>3. q[n + 1] \in C =>
          Range(Append(own[n], q[n + 1])) = Range(own[n]) \cup {q[n + 1]}
    BY <2>0, AppendFacts
  <2>4. {q[i] : i \in 1..(n + 1)} = {q[i] : i \in 1..n} \cup {q[n + 1]}
    BY <1>1
  <2> QED
    BY <2>0, <2>1, <2>2, <2>3, <2>4
<1>4. \A n \in 0..Len(q) : n \in T
  <2> HIDE DEF T
  <2> QED
    BY <1>1, <1>2, <1>3, UpTo
<1>5. Range(q) = {q[i] : i \in 1..Len(q)}
  BY LenProperties DEF Range
<1> QED
  BY <1>1, <1>4, <1>5 DEF SelectIn, own

\* Append to a concatenation goes to its second part.
GoesToSecond(u, v, C) == \A x \in C : Append(u \o v, x) = u \o Append(v, x)

\* It does for all sequences.
LEMMA AppendToConcat ==
  ASSUME NEW C, NEW u \in Seq(C), NEW v \in Seq(C)
  PROVE  GoesToSecond(u, v, C)
BY AppendIsConcat DEF GoesToSecond

\* What is selected of p, then of q, is what is selected of both in a row.
LEMMA SelectInSplit ==
  ASSUME NEW S, NEW C, NEW p \in Seq(S), NEW q \in Seq(S), NEW r \in Seq(S),
         Len(r) = Len(p) + Len(q),
         \A n \in 1..Len(p) : r[n] = p[n],
         \A n \in 1..Len(q) : r[Len(p) + n] = q[n]
  PROVE  SelectIn(r, C) = SelectIn(p, C) \o SelectIn(q, C)
<1> DEFINE P == Len(p)
           Q == Len(q)
           ownP == SelectedUpTo(p, C)
           ownQ == SelectedUpTo(q, C)
           ownR == SelectedUpTo(r, C)
<1>1. /\ P \in Nat /\ Q \in Nat /\ Len(r) = P + Q
      /\ \A n \in 1..P : r[n] = p[n]
      /\ \A n \in 1..Q : r[P + n] = q[n]
  BY LenProperties
<1>2. /\ ownP \in [0..P -> Seq(C)] /\ ownP[0] = <<>>
      /\ \A n \in 1..P :
           ownP[n] = IF p[n] \in C THEN Append(ownP[n - 1], p[n]) ELSE ownP[n - 1]
  <2>1. Selects(ownP, p, C)
    BY SelectedUpToFacts
  <2> QED
    BY <2>1 DEF Selects
<1>3. /\ ownQ \in [0..Q -> Seq(C)] /\ ownQ[0] = <<>>
      /\ \A n \in 1..Q :
           ownQ[n] = IF q[n] \in C THEN Append(ownQ[n - 1], q[n]) ELSE ownQ[n - 1]
  <2>1. Selects(ownQ, q, C)
    BY SelectedUpToFacts
  <2> QED
    BY <2>1 DEF Selects
<1>4. /\ ownR \in [0..(P + Q) -> Seq(C)] /\ ownR[0] = <<>>
      /\ \A n \in 1..(P + Q) :
           ownR[n] = IF r[n] \in C THEN Append(ownR[n - 1], r[n]) ELSE ownR[n - 1]
  <2>1. Selects(ownR, r, C)
    BY SelectedUpToFacts
  <2> HIDE DEF ownR
  <2> QED
    BY <1>1, <2>1, Zenon DEF Selects
<1>5. ownP[P] = SelectIn(p, C) /\ ownQ[Q] = SelectIn(q, C)
      /\ ownR[P + Q] = SelectIn(r, C)
  BY <1>1 DEF SelectIn
<1> HIDE DEF P, Q, ownP, ownQ, ownR
<1>6. ownR[P] = ownP[P]
  <2> DEFINE T == {n \in 0..P : ownR[n] = ownP[n]}
  <2>1. 0 \in T
    BY <1>1, <1>2, <1>4
  <2>2. ASSUME NEW n \in 0..(P - 1), n \in T PROVE n + 1 \in T
    <3>1. n + 1 \in 1..P /\ n + 1 \in 1..(P + Q) /\ (n + 1) - 1 = n
      BY <1>1
    <3>2. ownR[n] = ownP[n] /\ r[n + 1] = p[n + 1]
      BY <1>1, <2>2, <3>1
    <3>3. ownR[n + 1] = IF r[n + 1] \in C THEN Append(ownR[n], r[n + 1]) ELSE ownR[n]
      BY <1>4, <3>1
    <3>4. ownP[n + 1] = IF p[n + 1] \in C THEN Append(ownP[n], p[n + 1]) ELSE ownP[n]
      BY <1>2, <3>1
    <3>5. ownR[n + 1] = ownP[n + 1]
      BY <3>2, <3>3, <3>4
    <3> QED
      BY <1>1, <3>1, <3>5
  <2>3. \A n \in 0..P : n \in T
    <3> HIDE DEF T
    <3> QED
      BY <1>1, <2>1, <2>2, UpTo
  <2> QED
    BY <1>1, <2>3
<1>7. ownR[P + Q] = ownP[P] \o ownQ[Q]
  <2>0. PICK before : before \in Seq(C) /\ before = ownP[P]
    BY <1>1, <1>2
  <2> DEFINE T == {n \in 0..Q : ownR[P + n] = before \o ownQ[n]}
  <2>1. 0 \in T
    <3>1. before \o ownQ[0] = before
      BY <1>3, <2>0, ConcatEmptySeq
    <3>2. P + 0 = P
      BY <1>1
    <3>3. ownR[P + 0] = before \o ownQ[0] /\ 0 \in 0..Q
      BY <1>1, <1>6, <2>0, <3>1, <3>2
    <3> QED
      BY <3>3, Zenon
  <2>2. ASSUME NEW n \in 0..(Q - 1), n \in T PROVE n + 1 \in T
    <3>1. PICK m : m = P + n
      OBVIOUS
    <3>2. /\ n + 1 \in 1..Q /\ (n + 1) - 1 = n /\ m + 1 \in 1..(P + Q)
          /\ (m + 1) - 1 = m /\ P + (n + 1) = m + 1 /\ n \in 0..Q
      BY <1>1, <3>1
    <3>3. ownR[m] = before \o ownQ[n] /\ r[m + 1] = q[n + 1]
      BY <1>1, <2>2, <3>1, <3>2
    <3>4. ownR[m + 1] = IF r[m + 1] \in C THEN Append(ownR[m], r[m + 1]) ELSE ownR[m]
      BY <1>4, <3>2
    <3>5. ownQ[n + 1] = IF q[n + 1] \in C THEN Append(ownQ[n], q[n + 1]) ELSE ownQ[n]
      BY <1>3, <3>2
    <3>6. ownQ[n] \in Seq(C)
      BY <1>3, <3>2
    <3>7. GoesToSecond(before, ownQ[n], C)
      BY <2>0, <3>6, AppendToConcat
    <3>8. ownR[m + 1] = before \o ownQ[n + 1]
      BY <3>3, <3>4, <3>5, <3>7 DEF GoesToSecond
    <3> QED
      BY <1>1, <3>2, <3>8
  <2>3. \A n \in 0..Q : n \in T
    <3> HIDE DEF T
    <3> QED
      BY <1>1, <2>1, <2>2, UpTo
  <2>4. Q \in 0..Q
    BY <1>1
  <2> QED
    BY <2>0, <2>3, <2>4, Zenon
<1> QED
  BY <1>5, <1>6, <1>7

\* The same for a concatenation.
LEMMA SelectInConcat ==
  ASSUME NEW S, NEW C, NEW p \in Seq(S), NEW q \in Seq(S)
  PROVE  SelectIn(p \o q, C) = SelectIn(p, C) \o SelectIn(q, C)
<1> DEFINE r == p \o q
<1>1. /\ r \in Seq(S) /\ Len(r) = Len(p) + Len(q)
      /\ \A i \in 1..(Len(p) + Len(q)) :
           r[i] = IF i <= Len(p) THEN p[i] ELSE q[i - Len(p)]
  BY ConcatProperties
<1>2. Len(p) \in Nat /\ Len(q) \in Nat
  BY LenProperties
<1> HIDE DEF r
<1>3. \A n \in 1..Len(p) : r[n] = p[n]
  BY <1>1, <1>2
<1>4. \A n \in 1..Len(q) : r[Len(p) + n] = q[n]
  <2> TAKE n \in 1..Len(q)
  <2>1. /\ Len(p) + n \in 1..(Len(p) + Len(q)) /\ ~(Len(p) + n <= Len(p))
        /\ (Len(p) + n) - Len(p) = n
    BY <1>2
  <2> QED
    BY <1>1, <2>1, Zenon
<1>5. SelectIn(r, C) = SelectIn(p, C) \o SelectIn(q, C)
  BY <1>1, <1>3, <1>4, SelectInSplit
<1> QED
  BY <1>5 DEF r
=============================================================================

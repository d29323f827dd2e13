----------------------------- MODULE StreamLemmas -----------------------------
(***************************************************************************)
(* Facts that the proofs about streams of words and of hits share:         *)
(* induction on the natural numbers, in a form that names a set instead of *)
(* a predicate, and what FlattenSeq of the community modules computes.     *)
(***************************************************************************)
EXTENDS Integers, Sequences, SequencesExt, SequenceTheorems, WellFoundedInduction, TLAPS

------------------------------------------------------------------------------
(* Induction.                                                               *)

\* A set of natural numbers has a least element.
LEMMA LeastNumber ==
    ASSUME NEW T \in SUBSET Nat, T # {}
    PROVE  \E x \in T : \A y \in T : x <= y
<1>. DEFINE R == {p \in Nat \X Nat : p[1] < p[2]}
<1>1. IsWellFoundedOn(R, Nat)
  <2>1. IsWellFoundedOn(OpToRel(<, Nat), Nat)
    BY NatLessThanWellFounded
  <2>2. OpToRel(<, Nat) = R
    BY DEF OpToRel
  <2>. QED
    BY <2>1, <2>2
<1>2. \A x, y \in Nat : x < y => <<x, y>> \in R
  OBVIOUS
<1>. HIDE DEF R
<1>3. PICK x \in T : \A y \in T : ~ (<<y, x>> \in R)
  BY <1>1, WFMin
<1>4. \A y \in T : ~ (y < x)
  BY <1>2, <1>3
<1>. QED
  BY <1>4

\* A set with 0 that has with each natural number the next one has them all.
LEMMA NumberInduction ==
    ASSUME NEW T, 0 \in T, \A n \in Nat : n \in T => n + 1 \in T
    PROVE  Nat \subseteq T
<1>. DEFINE U == Nat \ T
<1>1. SUFFICES ASSUME U # {} PROVE FALSE
  OBVIOUS
<1>2. PICK x \in U : \A y \in U : x <= y
  BY <1>1, LeastNumber
<1>3. x \in Nat /\ x # 0 /\ x - 1 \in Nat
  BY <1>2
<1>4. x - 1 \in T
  BY <1>2, <1>3
<1>5. (x - 1) + 1 \in T
  BY <1>3, <1>4
<1>. QED
  BY <1>2, <1>3, <1>5

------------------------------------------------------------------------------
(* FlattenSeq.                                                              *)

\* f[i] is the concatenation of the first i elements of q, for the first n.
FlattensTo(f, q, n) ==
    \A i \in 1 .. n : f[i] = IF i = 1 THEN q[i] ELSE f[i - 1] \o q[i]

\* The same, as the function that FlattenSeq chooses.
Flattens(f, q) ==
    f = [i \in 1 .. Len(q) |-> IF i = 1 THEN q[i] ELSE f[i - 1] \o q[i]]

\* Such functions exist for the first n elements.
Flattenable(q, S, n) == n <= Len(q) => \E f \in [1 .. n -> Seq(S)] : FlattensTo(f, q, n)

\* A function for n elements is extended to one more.
LEMMA FlattenOneMore ==
    ASSUME NEW S, NEW q \in Seq(Seq(S)), NEW n \in Nat, Flattenable(q, S, n)
    PROVE  Flattenable(q, S, n + 1)
<1>. SUFFICES ASSUME n + 1 <= Len(q)
              PROVE  \E f \in [1 .. n + 1 -> Seq(S)] : FlattensTo(f, q, n + 1)
  BY DEF Flattenable
<1>1. Len(q) \in Nat /\ \A i \in 1 .. Len(q) : q[i] \in Seq(S)
  OBVIOUS
<1>2. PICK f \in [1 .. n -> Seq(S)] : FlattensTo(f, q, n)
  BY <1>1 DEF Flattenable
<1>. DEFINE x == IF n + 1 = 1 THEN q[n + 1] ELSE f[n] \o q[n + 1]
            g == [i \in 1 .. n + 1 |-> IF i = n + 1 THEN x ELSE f[i]]
<1>3. x \in Seq(S)
  <2>1. q[n + 1] \in Seq(S)
    BY <1>1
  <2>2. CASE n = 0
    BY <2>1, <2>2
  <2>3. CASE n # 0
    BY <1>2, <2>1, <2>3
  <2>. QED
    BY <2>2, <2>3
<1>. HIDE DEF x
<1>4. g \in [1 .. n + 1 -> Seq(S)]
  BY <1>2, <1>3
<1>5. /\ \A i \in 1 .. n : g[i] = f[i]
      /\ g[n + 1] = x
  OBVIOUS
<1>. HIDE DEF g
<1>6. FlattensTo(g, q, n + 1)
  <2>. SUFFICES ASSUME NEW i \in 1 .. n + 1
                PROVE  g[i] = IF i = 1 THEN q[i] ELSE g[i - 1] \o q[i]
    BY DEF FlattensTo
  <2>1. CASE i = n + 1
    <3>1. CASE n = 0
      BY <1>5, <2>1, <3>1 DEF x
    <3>2. CASE n # 0
      <4>1. n \in 1 .. n /\ i - 1 = n /\ i # 1
        BY <2>1, <3>2
      <4>. QED
        BY <1>5, <2>1, <4>1 DEF x
    <3>. QED
      BY <3>1, <3>2
  <2>2. CASE i # n + 1
    <3>1. i \in 1 .. n /\ (i # 1 => i - 1 \in 1 .. n)
      BY <2>2
    <3>2. f[i] = IF i = 1 THEN q[i] ELSE f[i - 1] \o q[i]
      BY <1>2, <3>1 DEF FlattensTo
    <3>. QED
      BY <1>5, <3>1, <3>2
  <2>. QED
    BY <2>1, <2>2
<1>. QED
  BY <1>4, <1>6

\* There is such a function for the whole sequence.
LEMMA FlattensExists ==
    ASSUME NEW S, NEW q \in Seq(Seq(S))
    PROVE  \E f \in [1 .. Len(q) -> Seq(S)] : FlattensTo(f, q, Len(q)) /\ Flattens(f, q)
<1>. DEFINE T == {n \in Nat : Flattenable(q, S, n)}
<1>1. 0 \in T
  <2>1. [i \in 1 .. 0 |-> <<>>] \in [1 .. 0 -> Seq(S)]
    OBVIOUS
  <2>2. FlattensTo([i \in 1 .. 0 |-> <<>>], q, 0)
    BY DEF FlattensTo
  <2>3. Flattenable(q, S, 0)
    BY <2>1, <2>2 DEF Flattenable
  <2>. QED
    BY <2>3
<1>2. ASSUME NEW n \in Nat, n \in T PROVE n + 1 \in T
  BY <1>2, FlattenOneMore
<1>3. Nat \subseteq T
  <2>. HIDE DEF T
  <2>. QED
    BY <1>1, <1>2, NumberInduction
<1>4. Len(q) \in Nat
  OBVIOUS
<1>5. PICK f \in [1 .. Len(q) -> Seq(S)] : FlattensTo(f, q, Len(q))
  <2>1. Flattenable(q, S, Len(q))
    BY <1>3, <1>4
  <2>. QED
    BY <1>4, <2>1 DEF Flattenable
<1>6. Flattens(f, q)
  BY <1>5 DEF Flattens, FlattensTo
<1>. QED
  BY <1>5, <1>6

\* The first m values of two functions are the same.
Agree(f, g, m) == \A i \in 1 .. m : f[i] = g[i]

\* Where two sequences agree, so do their concatenations.
LEMMA FlattensAgree ==
    ASSUME NEW p, NEW q, NEW f, NEW g, NEW m \in Nat, Flattens(f, p), Flattens(g, q),
           Len(p) \in Nat, Len(q) \in Nat, m <= Len(p), m <= Len(q), Agree(p, q, m)
    PROVE  Agree(f, g, m)
<1>. USE DEF Agree
<1>. DEFINE T == {n \in Nat : n \in 1 .. m => f[n] = g[n]}
<1>1. /\ \A i \in 1 .. m : f[i] = IF i = 1 THEN p[i] ELSE f[i - 1] \o p[i]
      /\ \A i \in 1 .. m : g[i] = IF i = 1 THEN q[i] ELSE g[i - 1] \o q[i]
  <2>1. f = [i \in 1 .. Len(p) |-> IF i = 1 THEN p[i] ELSE f[i - 1] \o p[i]]
    BY DEF Flattens
  <2>2. g = [i \in 1 .. Len(q) |-> IF i = 1 THEN q[i] ELSE g[i - 1] \o q[i]]
    BY DEF Flattens
  <2>3. \A i \in 1 .. m : i \in 1 .. Len(p) /\ i \in 1 .. Len(q)
    OBVIOUS
  <2>4. ASSUME NEW i \in 1 .. m PROVE f[i] = IF i = 1 THEN p[i] ELSE f[i - 1] \o p[i]
    BY <2>1, <2>3, Zenon
  <2>5. ASSUME NEW i \in 1 .. m PROVE g[i] = IF i = 1 THEN q[i] ELSE g[i - 1] \o q[i]
    BY <2>2, <2>3, Zenon
  <2>. QED
    BY <2>4, <2>5
<1>2. 0 \in T
  OBVIOUS
<1>3. ASSUME NEW n \in Nat, n \in T PROVE n + 1 \in T
  <2>. SUFFICES ASSUME n + 1 \in 1 .. m PROVE f[n + 1] = g[n + 1]
    OBVIOUS
  <2>1. CASE n = 0
    BY <1>1, <2>1
  <2>2. CASE n # 0
    <3>1. n \in 1 .. m /\ (n + 1) - 1 = n /\ n + 1 # 1
      BY <2>2
    <3>2. f[n] = g[n]
      BY <1>3, <3>1
    <3>. QED
      BY <1>1, <3>1, <3>2
  <2>. QED
    BY <2>1, <2>2
<1>. HIDE DEF T
<1>4. Nat \subseteq T
  BY <1>2, <1>3, NumberInduction
<1>. QED
  BY <1>4 DEF T

\* FlattenSeq yields the last value of such a function.
LEMMA FlattenSeqChooses ==
    ASSUME NEW S, NEW q \in Seq(Seq(S)), Len(q) # 0
    PROVE  \E f \in [1 .. Len(q) -> Seq(S)] :
              FlattensTo(f, q, Len(q)) /\ Flattens(f, q) /\ FlattenSeq(q) = f[Len(q)]
<1>. DEFINE f == CHOOSE h : Flattens(h, q)
<1>1. PICK g \in [1 .. Len(q) -> Seq(S)] : FlattensTo(g, q, Len(q)) /\ Flattens(g, q)
  BY FlattensExists
<1>2. Flattens(f, q)
  BY <1>1
<1>3. FlattenSeq(q) = f[Len(q)]
  BY DEF FlattenSeq, Flattens
<1>. HIDE DEF f
<1>4. Len(q) \in Nat
  OBVIOUS
<1>5. Agree(f, g, Len(q))
  <2>1. Agree(q, q, Len(q)) /\ Len(q) <= Len(q)
    BY <1>4 DEF Agree
  <2>. QED
    BY <1>1, <1>2, <1>4, <2>1, FlattensAgree
<1>6. f = g
  <2>1. DOMAIN f = 1 .. Len(q) /\ f = [i \in DOMAIN f |-> f[i]]
    BY <1>2 DEF Flattens
  <2>. QED
    BY <1>5, <2>1 DEF Agree
<1>. QED
  BY <1>1, <1>3, <1>6

LEMMA FlattenEmpty == FlattenSeq(<<>>) = <<>>
BY DEF FlattenSeq

LEMMA FlattenType ==
    ASSUME NEW S, NEW q \in Seq(Seq(S))
    PROVE  FlattenSeq(q) \in Seq(S)
<1>1. CASE Len(q) = 0
  <2>1. q = <<>> /\ <<>> \in Seq(S)
    BY <1>1
  <2>. QED
    BY <2>1, FlattenEmpty
<1>2. CASE Len(q) # 0
  <2>1. PICK f \in [1 .. Len(q) -> Seq(S)] : FlattenSeq(q) = f[Len(q)]
    BY <1>2, FlattenSeqChooses
  <2>2. Len(q) \in 1 .. Len(q)
    BY <1>2
  <2>. QED
    BY <2>1, <2>2
<1>. QED
  BY <1>1, <1>2

\* A sequence appended to q is appended to what q flattens to.
LEMMA FlattenAppend ==
    ASSUME NEW S, NEW q \in Seq(Seq(S)), NEW x \in Seq(S)
    PROVE  FlattenSeq(Append(q, x)) = FlattenSeq(q) \o x
<1>. DEFINE r == Append(q, x)
            n == Len(q)
<1>1. /\ n \in Nat /\ r \in Seq(Seq(S)) /\ Len(r) = n + 1 /\ r[n + 1] = x
      /\ \A i \in 1 .. n : r[i] = q[i]
  OBVIOUS
<1>. HIDE DEF r
<1>2. PICK g \in [1 .. Len(r) -> Seq(S)] :
         FlattensTo(g, r, Len(r)) /\ Flattens(g, r) /\ FlattenSeq(r) = g[Len(r)]
  BY <1>1, FlattenSeqChooses
<1>3. g[n + 1] = IF n + 1 = 1 THEN x ELSE g[n] \o x
  <2>1. n + 1 \in 1 .. Len(r) /\ (n + 1) - 1 = n
    BY <1>1
  <2>. QED
    BY <1>1, <1>2, <2>1 DEF FlattensTo
<1>4. CASE n = 0
  <2>1. q = <<>> /\ FlattenSeq(q) = <<>>
    BY <1>4, FlattenEmpty
  <2>. QED
    BY <1>1, <1>2, <1>3, <1>4, <2>1 DEF r
<1>5. CASE n # 0
  <2>1. PICK f \in [1 .. n -> Seq(S)] : Flattens(f, q) /\ FlattenSeq(q) = f[n]
    BY <1>5, FlattenSeqChooses
  <2>2. Agree(f, g, n)
    <3>1. /\ Len(q) \in Nat /\ Len(r) \in Nat /\ n \in Nat /\ n <= Len(q) /\ n <= Len(r)
          /\ Agree(q, r, n)
      BY <1>1 DEF Agree
    <3>. QED
      BY <1>2, <2>1, <3>1, FlattensAgree
  <2>3. f[n] = g[n]
    BY <1>1, <1>5, <2>2 DEF Agree
  <2>. QED
    BY <1>1, <1>2, <1>3, <1>5, <2>1, <2>3 DEF r
<1>. QED
  BY <1>4, <1>5

\* A function that is q on its domain and x behind it is q with x appended.
LEMMA AppendPointwise ==
    ASSUME NEW S, NEW q \in Seq(S), NEW x \in S, NEW g,
           DOMAIN g = 1 .. Len(q) + 1, g = [k \in DOMAIN g |-> g[k]],
           \A k \in 1 .. Len(q) : g[k] = q[k], g[Len(q) + 1] = x
    PROVE  g = Append(q, x)
<1>1. Len(q) \in Nat /\ \A k \in 1 .. Len(q) : q[k] \in S
  OBVIOUS
<1>2. ASSUME NEW k \in 1 .. Len(q) + 1 PROVE g[k] \in S
  <2>1. k \in 1 .. Len(q) \/ k = Len(q) + 1
    BY <1>1
  <2>. QED
    BY <1>1, <2>1
<1>3. g \in Seq(S) /\ Len(g) = Len(q) + 1
  BY <1>1, <1>2
<1>4. /\ Append(q, x) \in Seq(S) /\ Len(Append(q, x)) = Len(q) + 1
      /\ Append(q, x)[Len(q) + 1] = x /\ \A k \in 1 .. Len(q) : Append(q, x)[k] = q[k]
  BY AppendProperties
<1>5. ASSUME NEW k \in 1 .. Len(q) + 1 PROVE g[k] = Append(q, x)[k]
  <2>1. k \in 1 .. Len(q) \/ k = Len(q) + 1
    BY <1>1
  <2>. QED
    BY <1>4, <2>1
<1>. QED
  BY <1>3, <1>4, <1>5, SeqEqual

\* Every sequence but the empty one has a last element.
LEMMA FrontAndLast ==
    ASSUME NEW S, NEW q \in Seq(S), NEW n \in Nat, Len(q) = n + 1
    PROVE  \E p \in Seq(S), x \in S : q = Append(p, x) /\ Len(p) = n
<1>1. PICK p \in Seq(S), x \in S : q = Append(p, x)
  BY SequenceEmptyOrAppend
<1>2. Len(p) = n
  BY <1>1, AppendProperties
<1>. QED
  BY <1>1, <1>2

\* Appending to the second of two sequences appends to their concatenation.
LEMMA ConcatAppend ==
    ASSUME NEW S, NEW q \in Seq(S), NEW p \in Seq(S), NEW x \in S
    PROVE  q \o Append(p, x) = Append(q \o p, x)
<1>1. /\ q \o p \in Seq(S) /\ Len(q \o p) = Len(q) + Len(p)
      /\ \A i \in 1 .. Len(q) + Len(p) :
            (q \o p)[i] = IF i <= Len(q) THEN q[i] ELSE p[i - Len(q)]
  BY ConcatProperties
<1>. QED
  BY <1>1

\* Concatenation is associative, in a form the provers take for given sequences.
Associates(S) == \A s, t, u \in Seq(S) : (s \o t) \o u = s \o (t \o u)

LEMMA ConcatAssociates == ASSUME NEW S PROVE Associates(S)
<1>. SUFFICES ASSUME NEW s \in Seq(S), NEW t \in Seq(S), NEW u \in Seq(S)
              PROVE  (s \o t) \o u = s \o (t \o u)
  BY DEF Associates
<1>. QED
  BY ConcatAssociative

LEMMA FlattenConcatOneMore ==
    ASSUME NEW S, NEW q \in Seq(Seq(S)), NEW p \in Seq(Seq(S)), NEW x \in Seq(S),
           FlattenSeq(q \o p) = FlattenSeq(q) \o FlattenSeq(p)
    PROVE  FlattenSeq(q \o Append(p, x)) = FlattenSeq(q) \o FlattenSeq(Append(p, x))
<1>. DEFINE a == FlattenSeq(q)
            b == FlattenSeq(p)
<1>1. q \o Append(p, x) = Append(q \o p, x)
  BY ConcatAppend
<1>2. q \o p \in Seq(Seq(S))
  OBVIOUS
<1>3. FlattenSeq(Append(q \o p, x)) = FlattenSeq(q \o p) \o x
  BY <1>2, FlattenAppend
<1>4. FlattenSeq(Append(p, x)) = b \o x
  BY FlattenAppend
<1>5. a \in Seq(S) /\ b \in Seq(S)
  BY FlattenType
<1>. HIDE DEF a, b
<1>6. Associates(S)
  BY ConcatAssociates
<1>7. (a \o b) \o x = a \o (b \o x)
  BY <1>5, <1>6, Zenon DEF Associates
<1>. QED
  BY <1>1, <1>3, <1>4, <1>7 DEF a, b

\* The flattening of a concatenation is the concatenation of the flattenings.
LEMMA FlattenConcat ==
    ASSUME NEW S, NEW q \in Seq(Seq(S)), NEW r \in Seq(Seq(S))
    PROVE  FlattenSeq(q \o r) = FlattenSeq(q) \o FlattenSeq(r)
<1>. DEFINE Good(s) == FlattenSeq(q \o s) = FlattenSeq(q) \o FlattenSeq(s)
            T == {n \in Nat : \A s \in Seq(Seq(S)) : Len(s) = n => Good(s)}
<1>1. 0 \in T
  <2>1. \A s \in Seq(Seq(S)) : Len(s) = 0 => s = <<>>
    OBVIOUS
  <2>2. q \o <<>> = q /\ FlattenSeq(q) \o <<>> = FlattenSeq(q)
    BY FlattenType, ConcatEmptySeq
  <2>3. Good(<<>>)
    BY <2>2, FlattenEmpty
  <2>. HIDE DEF Good
  <2>. QED
    BY <2>1, <2>3
<1>2. ASSUME NEW n \in Nat, n \in T PROVE n + 1 \in T
  <2>1. ASSUME NEW s \in Seq(Seq(S)), Len(s) = n + 1 PROVE Good(s)
    <3>1. PICK p \in Seq(Seq(S)), x \in Seq(S) : s = Append(p, x) /\ Len(p) = n
      BY <2>1, FrontAndLast
    <3>2. Good(p)
      BY <1>2, <3>1
    <3>. HIDE DEF T
    <3>. QED
      BY <3>1, <3>2, FlattenConcatOneMore
  <2>. HIDE DEF Good
  <2>. QED
    BY <2>1
<1>. HIDE DEF T
<1>3. Nat \subseteq T
  BY <1>1, <1>2, NumberInduction
<1>4. Len(r) \in Nat
  OBVIOUS
<1>. QED
  BY <1>3, <1>4 DEF T

\* Concatenating nothing but empty sequences.
LEMMA FlattenNothing ==
    ASSUME NEW S, NEW q \in Seq(Seq(S)), \A k \in 1 .. Len(q) : q[k] = <<>>
    PROVE  FlattenSeq(q) = <<>>
<1>1. CASE Len(q) = 0
  <2>1. q = <<>>
    BY <1>1, EmptySeq
  <2>. QED
    BY <2>1, FlattenEmpty
<1>2. CASE Len(q) # 0
  <2>1. PICK f \in [1 .. Len(q) -> Seq(S)] : FlattensTo(f, q, Len(q)) /\ FlattenSeq(q) = f[Len(q)]
    BY <1>2, FlattenSeqChooses
  <2>. DEFINE T == {n \in Nat : n \in 1 .. Len(q) => f[n] = <<>>}
  <2>2. 0 \in T
    OBVIOUS
  <2>3. ASSUME NEW n \in Nat, n \in T PROVE n + 1 \in T
    <3>. SUFFICES ASSUME n + 1 \in 1 .. Len(q) PROVE f[n + 1] = <<>>
      OBVIOUS
    <3>1. f[n + 1] = IF n + 1 = 1 THEN q[n + 1] ELSE f[(n + 1) - 1] \o q[n + 1]
      BY <2>1 DEF FlattensTo
    <3>2. q[n + 1] = <<>>
      OBVIOUS
    <3>3. CASE n = 0
      BY <3>1, <3>2, <3>3
    <3>4. CASE n # 0
      <4>1. (n + 1) - 1 = n /\ n + 1 # 1 /\ n \in 1 .. Len(q)
        BY <3>4
      <4>2. f[n] = <<>>
        BY <2>3, <4>1
      <4>3. <<>> \o <<>> = <<>>
        OBVIOUS
      <4>. QED
        BY <3>1, <3>2, <4>1, <4>2, <4>3
    <3>. QED
      BY <3>3, <3>4
  <2>. HIDE DEF T
  <2>4. Nat \subseteq T
    BY <2>2, <2>3, NumberInduction
  <2>5. Len(q) \in T /\ Len(q) \in 1 .. Len(q)
    <3>1. Len(q) \in Nat
      OBVIOUS
    <3>. QED
      BY <1>2, <2>4, <3>1
  <2>. QED
    BY <2>1, <2>5 DEF T
<1>. QED
  BY <1>1, <1>2

\* Where q is empty from k on, and r is like q but for one element, that element comes
\* last in the concatenation.
LEMMA FlattenOneLater ==
    ASSUME NEW S, NEW q \in Seq(Seq(S)), NEW r \in Seq(Seq(S)), Len(r) = Len(q),
           NEW k \in 1 .. Len(q), NEW x \in Seq(S), r[k] = x,
           \A j \in 1 .. Len(q) : j < k => r[j] = q[j],
           \A j \in 1 .. Len(q) : j >= k => q[j] = <<>>,
           \A j \in 1 .. Len(q) : j > k => r[j] = <<>>
    PROVE  FlattenSeq(r) = FlattenSeq(q) \o x
<1>. DEFINE N == Len(q)
<1>1. N \in Nat /\ N # 0 /\ Len(r) # 0 /\ k \in Nat /\ 1 <= k /\ k <= N
  OBVIOUS
<1>2. PICK f \in [1 .. N -> Seq(S)] :
         FlattensTo(f, q, N) /\ Flattens(f, q) /\ FlattenSeq(q) = f[N]
  BY <1>1, FlattenSeqChooses
<1>3. PICK g \in [1 .. N -> Seq(S)] :
         FlattensTo(g, r, N) /\ Flattens(g, r) /\ FlattenSeq(r) = g[N]
  <2>1. \E g \in [1 .. Len(r) -> Seq(S)] :
           FlattensTo(g, r, Len(r)) /\ Flattens(g, r) /\ FlattenSeq(r) = g[Len(r)]
    BY <1>1, FlattenSeqChooses
  <2>. QED
    BY <2>1
<1>4. \A i \in 1 .. N : f[i] = IF i = 1 THEN q[i] ELSE f[i - 1] \o q[i]
  BY <1>2 DEF FlattensTo
<1>5. \A i \in 1 .. N : g[i] = IF i = 1 THEN r[i] ELSE g[i - 1] \o r[i]
  BY <1>3 DEF FlattensTo
<1>6. \A i \in 1 .. N : f[i] \in Seq(S) /\ g[i] \in Seq(S)
  BY <1>2, <1>3
<1>7. \A y \in Seq(S) : y \o <<>> = y /\ <<>> \o y = y
  BY ConcatEmptySeq
<1>8. ASSUME NEW m \in Nat, m = k - 1 PROVE Agree(g, f, m)
  <2>1. m <= N /\ m < k /\ Len(r) = N
    BY <1>1, <1>8
  <2>2. ASSUME NEW j \in 1 .. m PROVE r[j] = q[j]
    <3>1. j \in 1 .. N /\ j < k
      BY <1>1, <2>1
    <3>. QED
      BY <3>1
  <2>3. Agree(r, q, m)
    BY <2>2 DEF Agree
  <2>. QED
    BY <1>1, <1>2, <1>3, <2>1, <2>3, FlattensAgree
<1>9. g[k] = f[k] \o x
  <2>1. q[k] = <<>>
    BY <1>1
  <2>2. CASE k = 1
    <3>1. f[k] = <<>> /\ g[k] = x
      BY <1>4, <1>5, <2>1, <2>2
    <3>. QED
      BY <1>7, <3>1
  <2>3. CASE k # 1
    <3>. DEFINE m == k - 1
    <3>1. m \in Nat /\ m \in 1 .. m /\ m \in 1 .. N
      BY <1>1, <2>3
    <3>2. g[m] = f[m]
      BY <1>8, <3>1 DEF Agree
    <3>3. f[k] = f[m] \o <<>> /\ g[k] = g[m] \o x
      BY <1>4, <1>5, <2>1, <2>3
    <3>. HIDE DEF m
    <3>. QED
      BY <1>6, <1>7, <3>1, <3>2, <3>3
  <2>. QED
    BY <2>2, <2>3
<1>. DEFINE Longer(n) == g[n] = f[n] \o x
            T == {d \in Nat : k + d <= N => Longer(k + d)}
<1>10. 0 \in T
  <2>1. k + 0 = k /\ Longer(k)
    BY <1>1, <1>9
  <2>. HIDE DEF Longer
  <2>. QED
    BY <2>1
<1>11. ASSUME NEW d \in Nat, d \in T PROVE d + 1 \in T
  <2>. DEFINE j == k + d
              i == k + (d + 1)
  <2>. HIDE DEF Longer
  <2>. SUFFICES ASSUME k + (d + 1) <= N PROVE Longer(k + (d + 1))
    OBVIOUS
  <2>1. i \in 1 .. N /\ j \in 1 .. N /\ i # 1 /\ i - 1 = j /\ i > k /\ j <= N
    BY <1>1
  <2>2. g[j] = f[j] \o x
    <3>1. Longer(j)
      BY <1>11, <2>1
    <3>. QED
      BY <3>1 DEF Longer
  <2>. HIDE DEF i, j
  <2>3. q[i] = <<>> /\ r[i] = <<>>
    <3>1. i >= k
      BY <1>1, <2>1
    <3>. QED
      BY <2>1, <3>1
  <2>4. f[i] = f[j] \o <<>> /\ g[i] = g[j] \o <<>>
    BY <1>4, <1>5, <2>1, <2>3
  <2>5. f[i] = f[j] /\ g[i] = g[j]
    BY <1>6, <1>7, <2>1, <2>4
  <2>. QED
    BY <2>2, <2>5 DEF i, Longer
<1>. HIDE DEF T
<1>12. Nat \subseteq T
  BY <1>10, <1>11, NumberInduction
<1>13. g[N] = f[N] \o x
  <2>. DEFINE d == N - k
  <2>1. d \in Nat /\ k + d = N
    BY <1>1
  <2>2. d \in T
    BY <1>12, <2>1
  <2>3. k + d <= N
    BY <1>1, <2>1
  <2>. HIDE DEF d
  <2>4. g[k + d] = f[k + d] \o x
    <3>. HIDE DEF Longer
    <3>1. Longer(k + d)
      BY <2>1, <2>2, <2>3 DEF T
    <3>. QED
      BY <3>1 DEF Longer
  <2>. HIDE DEF N
  <2>. QED
    BY <2>1, <2>4
<1>. QED
  BY <1>2, <1>3, <1>13

------------------------------------------------------------------------------
(* Stretches of sequences.                                                  *)

\* What is left and right in a concatenation.
LEMMA ConcatParts ==
    ASSUME NEW S, NEW a \in Seq(S), NEW w \in Seq(S)
    PROVE  /\ a \o w \in Seq(S) /\ Len(a) \in Nat /\ Len(w) \in Nat
           /\ Len(a \o w) = Len(a) + Len(w)
           /\ \A k \in 1 .. Len(a) : (a \o w)[k] = a[k]
           /\ \A k \in 1 .. Len(w) : (a \o w)[Len(a) + k] = w[k]
<1>1. /\ a \o w \in Seq(S) /\ Len(a \o w) = Len(a) + Len(w)
      /\ \A k \in 1 .. Len(a) + Len(w) :
            (a \o w)[k] = IF k <= Len(a) THEN a[k] ELSE w[k - Len(a)]
  BY ConcatProperties
<1>2. Len(a) \in Nat /\ Len(w) \in Nat
  OBVIOUS
<1>3. ASSUME NEW k \in 1 .. Len(a) PROVE (a \o w)[k] = a[k]
  <2>1. k \in 1 .. Len(a) + Len(w) /\ k <= Len(a)
    BY <1>2
  <2>. QED
    BY <1>1, <2>1
<1>4. ASSUME NEW k \in 1 .. Len(w) PROVE (a \o w)[Len(a) + k] = w[k]
  <2>1. /\ Len(a) + k \in 1 .. Len(a) + Len(w) /\ ~(Len(a) + k <= Len(a))
        /\ (Len(a) + k) - Len(a) = k
    BY <1>2
  <2>. QED
    BY <1>1, <2>1
<1>. QED
  BY <1>1, <1>2, <1>3, <1>4

\* What is appended to the second of three sequences comes before the last.
Regrouped(p, l, q, r) == (p \o (l \o q)) \o <<>> \o r = (p \o l) \o (q \o r)

LEMMA Regroup ==
    ASSUME NEW S, NEW p \in Seq(S), NEW l \in Seq(S), NEW q \in Seq(S), NEW r \in Seq(S)
    PROVE  Regrouped(p, l, q, r)
<1>. DEFINE m == p \o l
            z == p \o (l \o q)
<1>1. m \in Seq(S)
  OBVIOUS
<1>2. z \in Seq(S)
  <2>1. l \o q \in Seq(S)
    OBVIOUS
  <2>. QED
    BY <2>1
<1>3. Associates(S)
  BY ConcatAssociates
<1>4. m \o q = z
  BY <1>3, Zenon DEF Associates
<1>. HIDE DEF m, z
<1>5. (m \o q) \o r = m \o (q \o r)
  BY <1>1, <1>3, Zenon DEF Associates
<1>6. z \o <<>> = z
  BY <1>2, ConcatEmptySeq
<1>7. z \o <<>> \o r = m \o (q \o r)
  BY <1>4, <1>5, <1>6, Zenon
<1>. QED
  BY <1>7 DEF Regrouped, m, z

\* A sequence that is p up to its length and w behind it.
LEMMA ConcatPointwise ==
    ASSUME NEW S, NEW p \in Seq(S), NEW w \in Seq(S), NEW q \in Seq(S),
           Len(q) = Len(p) + Len(w), \A k \in 1 .. Len(p) : q[k] = p[k],
           \A k \in 1 .. Len(w) : q[Len(p) + k] = w[k]
    PROVE  q = p \o w
<1>1. /\ p \o w \in Seq(S) /\ Len(p \o w) = Len(p) + Len(w)
      /\ \A k \in 1 .. Len(p) + Len(w) :
            (p \o w)[k] = IF k <= Len(p) THEN p[k] ELSE w[k - Len(p)]
  BY ConcatProperties
<1>2. Len(p) \in Nat /\ Len(w) \in Nat
  OBVIOUS
<1>3. ASSUME NEW k \in 1 .. Len(q) PROVE q[k] = (p \o w)[k]
  <2>1. CASE k <= Len(p)
    <3>1. k \in 1 .. Len(p) /\ k \in 1 .. Len(p) + Len(w)
      BY <1>2, <2>1
    <3>. QED
      BY <1>1, <2>1, <3>1
  <2>2. CASE ~(k <= Len(p))
    <3>1. k - Len(p) \in 1 .. Len(w) /\ Len(p) + (k - Len(p)) = k /\ k \in 1 .. Len(p) + Len(w)
      BY <1>2, <2>2
    <3>. QED
      BY <1>1, <2>2, <3>1
  <2>. QED
    BY <2>1, <2>2
<1>. QED
  BY <1>1, <1>3, SeqEqual

------------------------------------------------------------------------------
(* The elements of one kind in a sequence.                                  *)

\* The elements of q that are in C, in their order.
Chosen(C, q) == [n \in DOMAIN q |-> IF q[n] \in C THEN <<q[n]>> ELSE <<>>]

Picked(C, q) == FlattenSeq(Chosen(C, q))

LEMMA ChosenType ==
    ASSUME NEW S, NEW q \in Seq(S), NEW C
    PROVE  /\ Chosen(C, q) \in Seq(Seq(S)) /\ Len(Chosen(C, q)) = Len(q)
           /\ \A n \in 1 .. Len(q) : Chosen(C, q)[n] = IF q[n] \in C THEN <<q[n]>> ELSE <<>>
           /\ Picked(C, q) = FlattenSeq(Chosen(C, q))
           /\ Picked(C, q) \in Seq(S)
<1>1. DOMAIN q = 1 .. Len(q) /\ Len(q) \in Nat
  OBVIOUS
<1>2. ASSUME NEW n \in 1 .. Len(q)
      PROVE  (IF q[n] \in C THEN <<q[n]>> ELSE <<>>) \in Seq(S)
  <2>1. q[n] \in S
    BY ElementOfSeq
  <2>. QED
    BY <2>1
<1>3. Chosen(C, q) \in Seq(Seq(S)) /\ Len(Chosen(C, q)) = Len(q)
  BY <1>1, <1>2 DEF Chosen
<1>4. Picked(C, q) = FlattenSeq(Chosen(C, q))
  BY DEF Picked, Chosen
<1>5. Picked(C, q) \in Seq(S)
  BY <1>3, <1>4, FlattenType
<1>6. \A n \in 1 .. Len(q) : Chosen(C, q)[n] = IF q[n] \in C THEN <<q[n]>> ELSE <<>>
  BY <1>1 DEF Chosen
<1>. QED
  BY <1>3, <1>4, <1>5, <1>6

\* What is picked from a concatenation.
PicksSplit(C, q, r) == Picked(C, q \o r) = Picked(C, q) \o Picked(C, r)

LEMMA PickedConcat ==
    ASSUME NEW S, NEW q \in Seq(S), NEW r \in Seq(S), NEW C
    PROVE  PicksSplit(C, q, r)
<1>. DEFINE a == Chosen(C, q)
            b == Chosen(C, r)
            c == Chosen(C, q \o r)
<1>1. /\ q \o r \in Seq(S) /\ Len(q) \in Nat /\ Len(r) \in Nat
      /\ Len(q \o r) = Len(q) + Len(r)
      /\ \A k \in 1 .. Len(q) : (q \o r)[k] = q[k]
      /\ \A k \in 1 .. Len(r) : (q \o r)[Len(q) + k] = r[k]
  BY ConcatParts
<1>2. /\ a \in Seq(Seq(S)) /\ Len(a) = Len(q)
      /\ \A n \in 1 .. Len(q) : a[n] = IF q[n] \in C THEN <<q[n]>> ELSE <<>>
  BY ChosenType
<1>3. /\ b \in Seq(Seq(S)) /\ Len(b) = Len(r)
      /\ \A n \in 1 .. Len(r) : b[n] = IF r[n] \in C THEN <<r[n]>> ELSE <<>>
  BY ChosenType
<1>. DEFINE s == q \o r
<1>4. s \in Seq(S) /\ Len(s) = Len(q) + Len(r)
  BY <1>1
<1>5. /\ \A k \in 1 .. Len(q) : s[k] = q[k]
      /\ \A k \in 1 .. Len(r) : s[Len(q) + k] = r[k]
  BY <1>1
<1>. HIDE DEF s
<1>6. /\ Chosen(C, s) \in Seq(Seq(S)) /\ Len(Chosen(C, s)) = Len(s)
      /\ \A n \in 1 .. Len(s) : Chosen(C, s)[n] = IF s[n] \in C THEN <<s[n]>> ELSE <<>>
  BY <1>4, ChosenType
<1>7. c = Chosen(C, s)
  BY DEF s
<1>. HIDE DEF a, b, c
<1>8. ASSUME NEW k \in 1 .. Len(a) PROVE c[k] = a[k]
  <2>1. k \in 1 .. Len(q) /\ k \in 1 .. Len(s)
    BY <1>1, <1>2, <1>4
  <2>. QED
    BY <1>2, <1>5, <1>6, <1>7, <2>1
<1>9. ASSUME NEW k \in 1 .. Len(b) PROVE c[Len(a) + k] = b[k]
  <2>1. k \in 1 .. Len(r) /\ Len(q) + k \in 1 .. Len(s)
    BY <1>1, <1>3, <1>4
  <2>2. s[Len(q) + k] = r[k] /\ Len(a) = Len(q)
    BY <1>2, <1>5, <2>1
  <2>3. c[Len(q) + k] = IF s[Len(q) + k] \in C THEN <<s[Len(q) + k]>> ELSE <<>>
    BY <1>6, <1>7, <2>1
  <2>4. b[k] = IF r[k] \in C THEN <<r[k]>> ELSE <<>>
    BY <1>3, <2>1
  <2>. QED
    BY <2>2, <2>3, <2>4
<1>10. c = a \o b
  <2>1. c \in Seq(Seq(S)) /\ Len(c) = Len(a) + Len(b)
    BY <1>2, <1>3, <1>4, <1>6, <1>7
  <2>2. a \in Seq(Seq(S)) /\ b \in Seq(Seq(S))
    BY <1>2, <1>3
  <2>. QED
    BY <1>8, <1>9, <2>1, <2>2, ConcatPointwise
<1>11. FlattenSeq(a \o b) = FlattenSeq(a) \o FlattenSeq(b)
  BY <1>2, <1>3, FlattenConcat
<1>12. /\ Picked(C, q \o r) = FlattenSeq(c)
       /\ Picked(C, q) = FlattenSeq(a) /\ Picked(C, r) = FlattenSeq(b)
  BY DEF Picked, Chosen, a, b, c
<1>. QED
  BY <1>10, <1>11, <1>12 DEF PicksSplit

\* What is picked from nothing, and from one element.
LEMMA PickedOne ==
    ASSUME NEW S, NEW h \in S, NEW C
    PROVE  /\ Picked(C, <<>>) = <<>>
           /\ Picked(C, <<h>>) = IF h \in C THEN <<h>> ELSE <<>>
<1>1. Picked(C, <<>>) = <<>>
  <2>1. Chosen(C, <<>>) = <<>>
    BY DEF Chosen
  <2>. QED
    BY <2>1, FlattenEmpty DEF Picked
<1>2. Picked(C, <<h>>) = IF h \in C THEN <<h>> ELSE <<>>
  <2>. DEFINE x == IF h \in C THEN <<h>> ELSE <<>>
              c == Chosen(C, <<h>>)
  <2>1. x \in Seq(S) /\ <<h>> \in Seq(S) /\ Len(<<h>>) = 1 /\ (<<h>>)[1] = h
    OBVIOUS
  <2>2. c \in Seq(Seq(S)) /\ Len(c) = 1
    <3>1. Len(Chosen(C, <<h>>)) = Len(<<h>>) /\ Chosen(C, <<h>>) \in Seq(Seq(S))
      BY <2>1, ChosenType
    <3>. QED
      BY <2>1, <3>1
  <2>3. c[1] = x
    BY <2>1 DEF Chosen
  <2>4. Picked(C, <<h>>) = FlattenSeq(c)
    BY DEF Picked, Chosen
  <2>. HIDE DEF c, x
  <2>5. c = Append(<<>>, x)
    <3>1. <<>> \in Seq(Seq(S)) /\ Len(<<>>) = 0 /\ x \in Seq(S)
      BY <2>1
    <3>2. Append(<<>>, x) \in Seq(Seq(S)) /\ Len(Append(<<>>, x)) = 1 /\ Append(<<>>, x)[1] = x
      BY <3>1
    <3>. QED
      BY <2>2, <2>3, <3>2, SeqEqual
  <2>6. FlattenSeq(Append(<<>>, x)) = FlattenSeq(<<>>) \o x
    <3>1. <<>> \in Seq(Seq(S)) /\ x \in Seq(S)
      BY <2>1
    <3>. QED
      BY <3>1, FlattenAppend
  <2>7. <<>> \o x = x
    BY <2>1, ConcatEmptySeq
  <2>. QED
    BY <2>4, <2>5, <2>6, <2>7, FlattenEmpty DEF x
<1>. QED
  BY <1>1, <1>2

------------------------------------------------------------------------------
(* Stretches of a sequence.                                                 *)

\* n elements of a sequence, from a position on.
Stretch(b, p, n) == [k \in 1 .. n |-> b[p + k]]

LEMMA StretchType ==
    ASSUME NEW S, NEW b \in Seq(S), NEW p \in Nat, NEW n \in Nat, p + n <= Len(b)
    PROVE  /\ Stretch(b, p, n) \in Seq(S) /\ Len(Stretch(b, p, n)) = n
           /\ \A k \in 1 .. n : Stretch(b, p, n)[k] = b[p + k]
<1>1. ASSUME NEW k \in 1 .. n PROVE b[p + k] \in S
  <2>1. p + k \in 1 .. Len(b)
    OBVIOUS
  <2>. QED
    BY <2>1, ElementOfSeq
<1>2. Stretch(b, p, n) \in Seq(S) /\ Len(Stretch(b, p, n)) = n
  BY <1>1 DEF Stretch
<1>. QED
  BY <1>2 DEF Stretch

\* Two stretches, one behind the other.
Splits(b, p, m, n) == Stretch(b, p, m + n) = Stretch(b, p, m) \o Stretch(b, p + m, n)

LEMMA StretchAfterStretch ==
    ASSUME NEW S, NEW b \in Seq(S), NEW p \in Nat, NEW m \in Nat, NEW n \in Nat,
           p + m + n <= Len(b)
    PROVE  Splits(b, p, m, n)
<1>. DEFINE q == Stretch(b, p, m + n)
            d == Stretch(b, p, m)
            w == Stretch(b, p + m, n)
<1>1. /\ q \in Seq(S) /\ Len(q) = m + n /\ \A k \in 1 .. m + n : q[k] = b[p + k]
      /\ d \in Seq(S) /\ Len(d) = m /\ \A k \in 1 .. m : d[k] = b[p + k]
      /\ w \in Seq(S) /\ Len(w) = n /\ \A k \in 1 .. n : w[k] = b[p + m + k]
  <2>1. /\ m + n \in Nat /\ p + m \in Nat /\ p + (m + n) <= Len(b) /\ p + m <= Len(b)
        /\ Len(b) \in Nat /\ (p + m) + n <= Len(b)
    OBVIOUS
  <2>2. q \in Seq(S) /\ Len(q) = m + n /\ \A k \in 1 .. m + n : q[k] = b[p + k]
    BY <2>1, StretchType
  <2>3. d \in Seq(S) /\ Len(d) = m /\ \A k \in 1 .. m : d[k] = b[p + k]
    BY <2>1, StretchType
  <2>4. w \in Seq(S) /\ Len(w) = n /\ \A k \in 1 .. n : w[k] = b[p + m + k]
    BY <2>1, StretchType
  <2>. QED
    BY <2>2, <2>3, <2>4
<1>. HIDE DEF q, d, w
<1>2. ASSUME NEW k \in 1 .. Len(d) PROVE q[k] = d[k]
  <2>1. k \in 1 .. m /\ k \in 1 .. m + n
    BY <1>1
  <2>. QED
    BY <1>1, <2>1
<1>3. ASSUME NEW k \in 1 .. Len(w) PROVE q[Len(d) + k] = w[k]
  <2>1. k \in 1 .. n /\ m + k \in 1 .. m + n /\ p + (m + k) = p + m + k
    BY <1>1
  <2>. QED
    BY <1>1, <2>1
<1>4. q = d \o w
  <2>1. q \in Seq(S) /\ d \in Seq(S) /\ w \in Seq(S) /\ Len(q) = Len(d) + Len(w)
    BY <1>1
  <2>. QED
    BY <1>2, <1>3, <2>1, ConcatPointwise
<1>. QED
  BY <1>4 DEF q, d, w, Splits

\* Where two sequences agree, so do their stretches.
LEMMA StretchAgrees ==
    ASSUME NEW b, NEW c, NEW p \in Nat, NEW n \in Nat,
           \A k \in p + 1 .. p + n : b[k] = c[k]
    PROVE  Stretch(b, p, n) = Stretch(c, p, n)
<1>1. ASSUME NEW k \in 1 .. n PROVE b[p + k] = c[p + k]
  <2>1. p + k \in p + 1 .. p + n
    OBVIOUS
  <2>. QED
    BY <2>1
<1>. QED
  BY <1>1 DEF Stretch

\* The first elements of a sequence are a stretch.
LEMMA SubSeqIsStretch ==
    ASSUME NEW S, NEW b \in Seq(S), NEW n \in Nat, n <= Len(b)
    PROVE  SubSeq(b, 1, n) = Stretch(b, 0, n)
<1>1. /\ SubSeq(b, 1, n) \in Seq(S) /\ Len(SubSeq(b, 1, n)) = n
      /\ \A k \in 1 .. n : SubSeq(b, 1, n)[k] = b[k]
  OBVIOUS
<1>2. /\ Stretch(b, 0, n) \in Seq(S) /\ Len(Stretch(b, 0, n)) = n
      /\ \A k \in 1 .. n : Stretch(b, 0, n)[k] = b[0 + k]
  BY StretchType
<1>. DEFINE a == SubSeq(b, 1, n)
            w == Stretch(b, 0, n)
<1>. HIDE DEF a, w
<1>3. \A k \in 1 .. n : a[k] = w[k]
  BY <1>1, <1>2 DEF a, w
<1>4. a \in Seq(S) /\ w \in Seq(S) /\ Len(a) = n /\ Len(w) = n
  BY <1>1, <1>2 DEF a, w
<1>5. a = w
  BY <1>3, <1>4, SeqEqual
<1>. QED
  BY <1>5 DEF a, w

\* A sequence w written over b from position t on, with r behind it: up to t nothing
\* changed, and then comes w.
LEMMA WrittenOnTop ==
    ASSUME NEW S, NEW b \in Seq(S), NEW t \in Nat, t <= Len(b),
           NEW w \in Seq(S), NEW r \in Seq(S)
    PROVE  LET c == SubSeq(b, 1, t) \o w \o r IN
           /\ c \in Seq(S) /\ t + Len(w) <= Len(c)
           /\ \A k \in 1 .. t : c[k] = b[k]
           /\ Stretch(c, t, Len(w)) = w
<1>. DEFINE a == SubSeq(b, 1, t)
            d == a \o w
            c == d \o r
<1>1. a \in Seq(S) /\ Len(a) = t /\ \A k \in 1 .. t : a[k] = b[k]
  OBVIOUS
<1>. HIDE DEF a
<1>2. /\ d \in Seq(S) /\ Len(w) \in Nat /\ Len(d) = t + Len(w)
      /\ \A k \in 1 .. t : d[k] = a[k]
      /\ \A k \in 1 .. Len(w) : d[t + k] = w[k]
  <2>1. a \in Seq(S) /\ Len(a) = t
    BY <1>1
  <2>2. /\ d \in Seq(S) /\ Len(w) \in Nat /\ Len(d) = Len(a) + Len(w)
        /\ \A k \in 1 .. Len(a) : d[k] = a[k]
        /\ \A k \in 1 .. Len(w) : d[Len(a) + k] = w[k]
    <3>1. a \in Seq(S)
      BY <2>1
    <3>. QED
      BY <3>1, ConcatParts
  <2>. QED
    BY <2>1, <2>2
<1>. HIDE DEF d
<1>3. /\ c \in Seq(S) /\ Len(r) \in Nat /\ Len(c) = Len(d) + Len(r)
      /\ \A k \in 1 .. Len(d) : c[k] = d[k]
  <2>1. d \in Seq(S)
    BY <1>2
  <2>. QED
    BY <2>1, ConcatParts
<1>. HIDE DEF c
<1>4. t + Len(w) <= Len(c)
  BY <1>2, <1>3
<1>5. ASSUME NEW k \in 1 .. t PROVE c[k] = b[k]
  <2>1. k \in 1 .. Len(d)
    BY <1>2
  <2>. QED
    BY <1>1, <1>2, <1>3, <2>1
<1>6. /\ Stretch(c, t, Len(w)) \in Seq(S) /\ Len(Stretch(c, t, Len(w))) = Len(w)
      /\ \A k \in 1 .. Len(w) : Stretch(c, t, Len(w))[k] = c[t + k]
  <2>1. c \in Seq(S) /\ Len(w) \in Nat
    BY <1>2, <1>3
  <2>. QED
    BY <1>4, <2>1, StretchType
<1>7. ASSUME NEW k \in 1 .. Len(w) PROVE c[t + k] = w[k]
  <2>1. t + k \in 1 .. Len(d)
    BY <1>2
  <2>. QED
    BY <1>2, <1>3, <2>1
<1>8. Stretch(c, t, Len(w)) = w
  BY <1>6, <1>7, SeqEqual
<1>. QED
  BY <1>3, <1>4, <1>5, <1>8 DEF c, d, a

------------------------------------------------------------------------------
(* The elements of a sequence.                                              *)

Elements(q) == {q[i] : i \in 1 .. Len(q)}

LEMMA ElementsAppend ==
    ASSUME NEW S, NEW q \in Seq(S), NEW x \in S
    PROVE  Elements(Append(q, x)) = Elements(q) \cup {x}
<1>1. /\ Append(q, x) \in Seq(S) /\ Len(Append(q, x)) = Len(q) + 1 /\ Len(q) \in Nat
      /\ Append(q, x)[Len(q) + 1] = x /\ \A k \in 1 .. Len(q) : Append(q, x)[k] = q[k]
  BY AppendProperties
<1>. DEFINE r == Append(q, x)
<1>. HIDE DEF r
<1>2. /\ Len(r) = Len(q) + 1 /\ r[Len(q) + 1] = x
      /\ \A k \in 1 .. Len(q) : r[k] = q[k]
  BY <1>1 DEF r
<1>3. \A k \in 1 .. Len(r) : k \in 1 .. Len(q) \/ k = Len(q) + 1
  BY <1>1, <1>2
<1>4. /\ \A k \in 1 .. Len(q) : k \in 1 .. Len(r)
      /\ Len(q) + 1 \in 1 .. Len(r)
  BY <1>1, <1>2
<1>5. Elements(r) \subseteq Elements(q) \cup {x}
  BY <1>2, <1>3 DEF Elements
<1>6. Elements(q) \cup {x} \subseteq Elements(r)
  BY <1>2, <1>4 DEF Elements
<1>. QED
  BY <1>5, <1>6 DEF r

LEMMA ElementsEmpty == Elements(<<>>) = {}
  BY DEF Elements

\* The elements of a concatenation.
LEMMA ElementsConcat ==
    ASSUME NEW S, NEW a \in Seq(S), NEW w \in Seq(S)
    PROVE  Elements(a \o w) = Elements(a) \cup Elements(w)
<1>. DEFINE r == a \o w
<1>1. /\ Len(a) \in Nat /\ Len(w) \in Nat /\ Len(r) = Len(a) + Len(w)
      /\ \A k \in 1 .. Len(a) : r[k] = a[k]
      /\ \A k \in 1 .. Len(w) : r[Len(a) + k] = w[k]
  BY ConcatParts
<1>. HIDE DEF r
<1>2. ASSUME NEW k \in 1 .. Len(r) PROVE r[k] \in Elements(a) \cup Elements(w)
  <2>1. CASE k <= Len(a)
    <3>1. k \in 1 .. Len(a)
      BY <1>1, <2>1
    <3>. QED
      BY <1>1, <3>1 DEF Elements
  <2>2. CASE ~(k <= Len(a))
    <3>1. k - Len(a) \in 1 .. Len(w) /\ Len(a) + (k - Len(a)) = k
      BY <1>1, <2>2
    <3>2. r[k] = w[k - Len(a)]
      BY <1>1, <3>1
    <3>. QED
      BY <3>1, <3>2 DEF Elements
  <2>. QED
    BY <2>1, <2>2
<1>3. ASSUME NEW k \in 1 .. Len(a) PROVE a[k] \in Elements(r)
  <2>1. k \in 1 .. Len(r) /\ r[k] = a[k]
    BY <1>1
  <2>. QED
    BY <2>1 DEF Elements
<1>4. ASSUME NEW k \in 1 .. Len(w) PROVE w[k] \in Elements(r)
  <2>1. Len(a) + k \in 1 .. Len(r) /\ r[Len(a) + k] = w[k]
    BY <1>1
  <2>. QED
    BY <2>1 DEF Elements
<1>5. Elements(r) \subseteq Elements(a) \cup Elements(w)
  BY <1>2 DEF Elements
<1>6. Elements(a) \cup Elements(w) \subseteq Elements(r)
  BY <1>3, <1>4 DEF Elements
<1>. QED
  BY <1>5, <1>6 DEF r

\* A sequence and its elements as sets of the standard modules have them.
LEMMA ElementsType ==
    ASSUME NEW S, NEW q \in Seq(S)
    PROVE  Elements(q) \subseteq S /\ ToSet(q) = Elements(q)
<1>1. DOMAIN q = 1 .. Len(q) /\ \A i \in 1 .. Len(q) : q[i] \in S
  OBVIOUS
<1>. QED
  BY <1>1 DEF Elements, ToSet

\* A sequence is cut in two.
Cuts(b, n) == b = SubSeq(b, 1, n) \o SubSeq(b, n + 1, Len(b))

LEMMA CutInTwo ==
    ASSUME NEW S, NEW b \in Seq(S), NEW n \in 0 .. Len(b)
    PROVE  /\ SubSeq(b, 1, n) \in Seq(S) /\ SubSeq(b, n + 1, Len(b)) \in Seq(S)
           /\ Len(SubSeq(b, 1, n)) = n /\ Len(SubSeq(b, n + 1, Len(b))) = Len(b) - n
           /\ Cuts(b, n)
<1>. DEFINE l == Len(b)
            p == SubSeq(b, 1, n)
            w == SubSeq(b, n + 1, l)
<1>1. l \in Nat /\ n \in Nat /\ n <= l
  OBVIOUS
<1>2. /\ p \in Seq(S) /\ Len(p) = n
      /\ \A k \in 1 .. n : p[k] = b[k]
  OBVIOUS
<1>3. /\ w \in Seq(S) /\ Len(w) = l - n
      /\ \A k \in 1 .. l - n : w[k] = b[n + k]
  <2>1. n + 1 \in 1 .. l + 1
    BY <1>1
  <2>2. w = [k \in 1 .. l - n |-> b[n + k]]
    <3>1. w = [k \in 1 .. (l - (n + 1)) + 1 |-> b[(k + (n + 1)) - 1]]
      BY DEF SubSeq
    <3>2. (l - (n + 1)) + 1 = l - n
      BY <1>1
    <3>3. \A k \in 1 .. l - n : (k + (n + 1)) - 1 = n + k
      BY <1>1
    <3>. QED
      BY <3>1, <3>2, <3>3
  <2>3. \A k \in 1 .. l - n : b[n + k] \in S
    <3>1. \A k \in 1 .. l - n : n + k \in 1 .. l
      BY <1>1
    <3>. QED
      BY <3>1, ElementOfSeq
  <2>4. l - n \in Nat
    BY <1>1
  <2>. HIDE DEF w
  <2>. QED
    BY <2>2, <2>3, <2>4
<1>. HIDE DEF p, w
<1>4. \A k \in 1 .. Len(p) : b[k] = p[k]
  BY <1>2
<1>5. \A k \in 1 .. Len(w) : b[Len(p) + k] = w[k]
  BY <1>2, <1>3
<1>6. Len(b) = Len(p) + Len(w)
  BY <1>1, <1>2, <1>3
<1>7. b = p \o w
  BY <1>2, <1>3, <1>4, <1>5, <1>6, ConcatPointwise
<1>. QED
  BY <1>2, <1>3, <1>7 DEF p, w, Cuts

\* What is behind the first part of a concatenation.
ComesAfter(a, w) == SubSeq(a \o w, Len(a) + 1, Len(a \o w)) = w

LEMMA ComesAfterFirst ==
    ASSUME NEW S, NEW a \in Seq(S), NEW w \in Seq(S)
    PROVE  ComesAfter(a, w)
<1>. DEFINE r == a \o w
            n == Len(a)
            c == SubSeq(r, n + 1, Len(r))
            d == SubSeq(r, 1, n)
<1>1. /\ r \in Seq(S) /\ n \in Nat /\ Len(w) \in Nat /\ Len(r) = n + Len(w)
      /\ \A k \in 1 .. n : r[k] = a[k]
      /\ \A k \in 1 .. Len(w) : r[n + k] = w[k]
  BY ConcatParts
<1>. HIDE DEF r
<1>2. n \in 0 .. Len(r)
  BY <1>1
<1>. HIDE DEF n
<1>3. /\ c \in Seq(S) /\ d \in Seq(S) /\ Len(d) = n /\ Len(c) = Len(r) - n /\ Cuts(r, n)
  BY <1>1, <1>2, CutInTwo
<1>4. r = d \o c
  BY <1>3 DEF Cuts
<1>. HIDE DEF c, d
<1>5. \A k \in 1 .. Len(c) : r[Len(d) + k] = c[k]
  BY <1>3, <1>4, ConcatParts
<1>6. Len(c) = Len(w)
  BY <1>1, <1>3
<1>7. \A k \in 1 .. Len(c) : c[k] = w[k]
  BY <1>1, <1>3, <1>5, <1>6
<1>8. c = w
  BY <1>3, <1>6, <1>7, SeqEqual
<1>. QED
  BY <1>8 DEF c, n, r, ComesAfter

\* The first part of a concatenation is a prefix of it.
LEMMA FirstIsPrefix ==
    ASSUME NEW S, NEW a \in Seq(S), NEW w \in Seq(S)
    PROVE  IsPrefix(a, a \o w)
<1>. DEFINE r == a \o w
            n == Len(a)
<1>1. /\ r \in Seq(S) /\ n \in Nat /\ Len(w) \in Nat /\ Len(r) = n + Len(w)
      /\ \A k \in 1 .. n : r[k] = a[k]
  BY ConcatParts
<1>. HIDE DEF r
<1>2. n <= Len(r) /\ n <= Len(a)
  BY <1>1
<1>3. SubSeq(a, 1, n) = Stretch(a, 0, n) /\ SubSeq(r, 1, n) = Stretch(r, 0, n)
  BY <1>1, <1>2, SubSeqIsStretch
<1>4. Stretch(a, 0, n) = Stretch(r, 0, n)
  BY <1>1 DEF Stretch
<1>. QED
  BY <1>2, <1>3, <1>4 DEF IsPrefix, r, n

\* Every element of flattened sequences is an element of one of them.
FromOne(q) == \A h \in Elements(FlattenSeq(q)) : \E k \in 1 .. Len(q) : h \in Elements(q[k])

LEMMA ElementsFlatten ==
    ASSUME NEW S, NEW q \in Seq(Seq(S))
    PROVE  FromOne(q)
<1>. DEFINE T == {n \in Nat : \A s \in Seq(Seq(S)) : Len(s) = n => FromOne(s)}
<1>1. 0 \in T
  <2>1. \A s \in Seq(Seq(S)) : Len(s) = 0 => s = <<>>
    OBVIOUS
  <2>2. FromOne(<<>>)
    BY FlattenEmpty, ElementsEmpty DEF FromOne
  <2>. QED
    BY <2>1, <2>2
<1>2. ASSUME NEW n \in Nat, n \in T PROVE n + 1 \in T
  <2>1. ASSUME NEW s \in Seq(Seq(S)), Len(s) = n + 1 PROVE FromOne(s)
    <3>1. PICK p \in Seq(Seq(S)), x \in Seq(S) : s = Append(p, x) /\ Len(p) = n
      BY <2>1, FrontAndLast
    <3>2. FromOne(p)
      BY <1>2, <3>1
    <3>3. FlattenSeq(s) = FlattenSeq(p) \o x /\ FlattenSeq(p) \in Seq(S)
      BY <3>1, FlattenAppend, FlattenType
    <3>4. Elements(FlattenSeq(s)) = Elements(FlattenSeq(p)) \cup Elements(x)
      BY <3>3, ElementsConcat
    <3>5. s[n + 1] = x /\ \A k \in 1 .. n : s[k] = p[k]
      BY <3>1
    <3>6. Len(s) = n + 1 /\ Len(p) = n
      BY <2>1, <3>1
    <3>7. ASSUME NEW h \in Elements(FlattenSeq(p)) PROVE \E k \in 1 .. n + 1 : h \in Elements(s[k])
      <4>1. PICK k \in 1 .. n : h \in Elements(p[k])
        BY <3>2, <3>6 DEF FromOne
      <4>2. k \in 1 .. n + 1
        OBVIOUS
      <4>. QED
        BY <3>5, <4>1, <4>2
    <3>8. ASSUME NEW h \in Elements(x) PROVE \E k \in 1 .. n + 1 : h \in Elements(s[k])
      <4>1. n + 1 \in 1 .. n + 1
        OBVIOUS
      <4>. QED
        BY <3>5, <4>1
    <3>. QED
      BY <3>4, <3>6, <3>7, <3>8 DEF FromOne
  <2>. QED
    BY <2>1
<1>. HIDE DEF T
<1>3. Nat \subseteq T
  BY <1>1, <1>2, NumberInduction
<1>4. Len(q) \in Nat
  OBVIOUS
<1>. QED
  BY <1>3, <1>4 DEF T

------------------------------------------------------------------------------
(* Recursion along the natural numbers.                                     *)

\* f goes from x on, n steps.
GoesOn(f, x, step, n) == f[0] = x /\ \A k \in 1 .. n : f[k] = step[<<k, f[k - 1]>>]

LEMMA Recursion ==
    ASSUME NEW D, NEW x \in D, NEW n \in Nat, NEW step \in [(1 .. n) \X D -> D]
    PROVE  \E f \in [0 .. n -> D] : GoesOn(f, x, step, n)
<1>. DEFINE Can(m) == \E f \in [0 .. m -> D] : GoesOn(f, x, step, m)
            T == {m \in Nat : m <= n => Can(m)}
<1>1. 0 \in T
  <2>. DEFINE f == [k \in 0 .. 0 |-> x]
  <2>1. f \in [0 .. 0 -> D] /\ f[0] = x
    OBVIOUS
  <2>2. 1 .. 0 = {}
    OBVIOUS
  <2>. HIDE DEF f
  <2>. QED
    BY <2>1, <2>2 DEF GoesOn
<1>2. ASSUME NEW m \in Nat, m \in T PROVE m + 1 \in T
  <2>1. SUFFICES ASSUME m + 1 <= n PROVE Can(m + 1)
    OBVIOUS
  <2>2. PICK f \in [0 .. m -> D] : GoesOn(f, x, step, m)
    BY <1>2, <2>1
  <2>. DEFINE g == [k \in 0 .. m + 1 |-> IF k = m + 1 THEN step[<<k, f[m]>>] ELSE f[k]]
  <2>3. step[<<m + 1, f[m]>>] \in D
    <3>1. m \in 0 .. m /\ m + 1 \in 1 .. n
      BY <2>1
    <3>2. <<m + 1, f[m]>> \in (1 .. n) \X D
      BY <3>1
    <3>. QED
      BY <3>2
  <2>4. \A k \in 0 .. m : k \in 0 .. m + 1 /\ k # m + 1
    OBVIOUS
  <2>5. g[m + 1] = step[<<m + 1, f[m]>>] /\ \A k \in 0 .. m : g[k] = f[k]
    BY <2>4
  <2>6. \A k \in 0 .. m + 1 : k = m + 1 \/ k \in 0 .. m
    OBVIOUS
  <2>7. g \in [0 .. m + 1 -> D]
    BY <2>3, <2>6
  <2>. HIDE DEF g
  <2>8. ASSUME NEW k \in 1 .. m + 1 PROVE g[k] = step[<<k, g[k - 1]>>]
    <3>1. CASE k = m + 1
      <4>1. k - 1 = m /\ m \in 0 .. m
        BY <3>1
      <4>. QED
        BY <2>5, <3>1, <4>1
    <3>2. CASE k # m + 1
      <4>1. k \in 1 .. m /\ k \in 0 .. m /\ k - 1 \in 0 .. m
        BY <3>2
      <4>. QED
        BY <2>2, <2>5, <4>1 DEF GoesOn
    <3>. QED
      BY <3>1, <3>2
  <2>9. g[0] = x
    <3>1. 0 \in 0 .. m
      OBVIOUS
    <3>. QED
      BY <2>2, <2>5, <3>1 DEF GoesOn
  <2>. QED
    BY <2>7, <2>8, <2>9 DEF GoesOn
<1>. HIDE DEF T
<1>3. Nat \subseteq T
  BY <1>1, <1>2, NumberInduction
<1>. QED
  BY <1>3 DEF T

------------------------------------------------------------------------------
(* Strips.                                                                  *)

\* A strip is a channel of a module.
LEMMA StripOfModule ==
    ASSUME NEW c \in Nat \ {0}, NEW n \in Nat \ {0}, NEW x \in 0 .. n * c - 1
    PROVE  /\ x \div c \in 0 .. n - 1 /\ x % c \in 0 .. c - 1
           /\ (x \div c) * c + (x % c) = x
<1>1. x = c * (x \div c) + (x % c) /\ 0 <= x % c /\ x % c < c
  OBVIOUS
<1>. DEFINE d == x \div c
            r == x % c
<1>2. d \in Int /\ r \in Int
  OBVIOUS
<1>3. x = c * d + r /\ 0 <= r /\ r < c /\ 0 <= x /\ x <= n * c - 1
  BY <1>1
<1>. HIDE DEF d, r
<1>4. 0 <= d
  <2>1. CASE d <= -1
    <3>1. c * d <= -c
      BY <1>2, <2>1
    <3>. QED
      BY <1>2, <1>3, <3>1
  <2>. QED
    BY <1>2, <2>1
<1>5. d <= n - 1
  <2>1. CASE d >= n
    <3>1. c * d >= c * n
      BY <1>2, <2>1
    <3>2. c * n = n * c /\ c * n \in Int /\ c * d \in Int
      BY <1>2
    <3>. QED
      BY <1>2, <1>3, <3>1, <3>2
  <2>. QED
    BY <1>2, <2>1
<1>6. d * c + r = x
  BY <1>2, <1>3
<1>. QED
  BY <1>2, <1>3, <1>4, <1>5, <1>6 DEF d, r
==============================================================================

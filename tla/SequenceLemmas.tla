---------------------------- MODULE SequenceLemmas ----------------------------
(***************************************************************************)
(* What FlattenSeq of the community modules makes of sequences of blocks,  *)
(* whole blocks in a number of bytes, parts and ends of sequences.         *)
(* FlattenSeq is recursive, so its lemmas are inductions; each one takes   *)
(* the least number that would refute its claim (NatMin).                  *)
(***************************************************************************)
EXTENDS Integers, Sequences, SequencesExt, SequenceTheorems, WellFoundedInduction, TLAPS

(* Induction over data: a claim that some number refutes is refuted by a    *)
(* least one.                                                              *)
LEMMA NatLess == OpToRel(<, Nat) = {ss \in Nat \X Nat : ss[1] < ss[2]}
  BY Zenon DEF OpToRel
LEMMA NatMin ==
  ASSUME NEW T, T \subseteq Nat, T # {}
  PROVE  \E x \in T : \A y \in T : x <= y
  <1>1. \E x \in T : \A y \in T : ~(<<y, x>> \in OpToRel(<, Nat))
    BY NatLessThanWellFounded, WFMin
  <1>2. PICK x \in T : \A y \in T : ~(<<y, x>> \in OpToRel(<, Nat))
    BY <1>1
  <1>3. \A y \in T : ~(<<y, x>> \in {ss \in Nat \X Nat : ss[1] < ss[2]})
    BY <1>2, NatLess
  <1>4. \A y \in T : x <= y
    <2> TAKE y \in T
    <2>1. x \in Nat /\ y \in Nat /\ ~(y < x)
      BY <1>3
    <2> QED BY <2>1
  <1> QED BY <1>4

(* FlattenSeq, one sequence after the other.                               *)
Flat(seqs, n, f) == f = [i \in 1..n |-> IF i = 1 THEN seqs[i] ELSE f[i - 1] \o seqs[i]]

LEMMA FlatNext ==
  ASSUME NEW seqs, NEW n \in Nat, NEW f, Flat(seqs, n, f)
  PROVE  \E g : Flat(seqs, n + 1, g)
  <1> DEFINE g == [i \in 1..n + 1 |-> IF i = n + 1 THEN (IF i = 1 THEN seqs[i] ELSE f[i - 1] \o seqs[i]) ELSE f[i]]
  <1>0. \A i \in 1..n : f[i] = IF i = 1 THEN seqs[i] ELSE f[i - 1] \o seqs[i]
    BY DEF Flat
  <1>1. \A i \in 1..n : g[i] = f[i]
    OBVIOUS
  <1>2. \A i \in 1..n + 1 : g[i] = IF i = 1 THEN seqs[i] ELSE g[i - 1] \o seqs[i]
    <2> TAKE i \in 1..n + 1
    <2>1. i # 1 => i - 1 \in 1..n
      OBVIOUS
    <2>2. i = n + 1 \/ i \in 1..n
      OBVIOUS
    <2>3. CASE i = n + 1
      BY <1>1, <2>1, <2>3
    <2>4. CASE i \in 1..n
      BY <1>0, <1>1, <2>1, <2>4
    <2> QED BY <2>2, <2>3, <2>4
  <1> DEFINE h == [i \in 1..n + 1 |-> IF i = 1 THEN seqs[i] ELSE g[i - 1] \o seqs[i]]
  <1>3. g = h
    <2>1. DOMAIN g = DOMAIN h
      OBVIOUS
    <2>2. \A i \in 1..n + 1 : h[i] = IF i = 1 THEN seqs[i] ELSE g[i - 1] \o seqs[i]
      BY Zenon
    <2>3. \A i \in 1..n + 1 : g[i] = h[i]
      BY <1>2, <2>2
    <2> QED BY <2>3
  <1>4. Flat(seqs, n + 1, g)
    BY <1>3 DEF Flat
  <1> QED BY <1>4

LEMMA FlatExists == ASSUME NEW seqs, NEW n \in Nat PROVE \E f : Flat(seqs, n, f)
  <1> DEFINE T == {k \in Nat : ~\E f : Flat(seqs, k, f)}
  <1> SUFFICES ASSUME T # {} PROVE FALSE
    OBVIOUS
  <1>1. PICK k \in T : \A y \in T : k <= y
    BY NatMin
  <1>2. k # 0
    <2>1. Flat(seqs, 0, [i \in 1..0 |-> 0])
      BY DEF Flat
    <2> QED BY <2>1
  <1>3. k - 1 \in Nat /\ k - 1 \notin T
    BY <1>1, <1>2
  <1>4. PICK f : Flat(seqs, k - 1, f)
    BY <1>3
  <1>5. \E g : Flat(seqs, (k - 1) + 1, g)
    BY <1>3, <1>4, FlatNext
  <1>6. (k - 1) + 1 = k
    OBVIOUS
  <1> QED BY <1>5, <1>6

Agree(s, t, n) == \A i \in 1..n : s[i] = t[i]

LEMMA FlatAgrees ==
  ASSUME NEW s, NEW t, NEW m \in Nat, NEW n \in Nat, NEW f, NEW g, Flat(s, m, f), Flat(t, n, g), m <= n,
         Agree(s, t, m)
  PROVE  Agree(f, g, m)
  <1> DEFINE T == {k \in 1..m : f[k] # g[k]}
  <1> SUFFICES ASSUME T # {} PROVE FALSE
    BY DEF Agree
  <1>1. T \subseteq Nat
    OBVIOUS
  <1>2. PICK k \in T : \A y \in T : k <= y
    BY <1>1, NatMin
  <1>3. /\ \A i \in 1..m : f[i] = IF i = 1 THEN s[i] ELSE f[i - 1] \o s[i]
        /\ \A i \in 1..n : g[i] = IF i = 1 THEN t[i] ELSE g[i - 1] \o t[i]
    BY DEF Flat
  <1>4. k \in 1..m /\ k \in 1..n /\ f[k] # g[k]
    OBVIOUS
  <1>5. k # 1
    BY <1>3, <1>4 DEF Agree
  <1>6. k - 1 \in 1..m /\ k - 1 \notin T
    BY <1>2, <1>4, <1>5
  <1>7. f[k - 1] = g[k - 1]
    BY <1>6
  <1> QED BY <1>3, <1>4, <1>5, <1>7 DEF Agree

LEMMA FlattenIsLast ==
  ASSUME NEW S, NEW s \in Seq(Seq(S)), s # <<>>
  PROVE  \E f : Flat(s, Len(s), f) /\ FlattenSeq(s) = f[Len(s)]
  <1> DEFINE f == CHOOSE f : Flat(s, Len(s), f)
  <1>1. Len(s) \in Nat /\ Len(s) # 0
    OBVIOUS
  <1>2. Flat(s, Len(s), f)
    BY <1>1, FlatExists
  <1>3. FlattenSeq(s) = f[Len(s)]
    BY <1>1 DEF FlattenSeq, Flat
  <1> QED BY <1>2, <1>3

LEMMA FlattenEmpty == FlattenSeq(<<>>) = <<>>
  BY EmptySeq DEF FlattenSeq

LEMMA FlattenOne ==
  ASSUME NEW S, NEW b \in Seq(S)
  PROVE  FlattenSeq(<<b>>) = b
  <1>1. <<b>> \in Seq(Seq(S)) /\ <<b>> # <<>> /\ Len(<<b>>) = 1 /\ <<b>>[1] = b
    OBVIOUS
  <1>2. PICK f : Flat(<<b>>, 1, f) /\ FlattenSeq(<<b>>) = f[1]
    BY <1>1, FlattenIsLast
  <1> QED BY <1>1, <1>2 DEF Flat

LEMMA FlattenAppend ==
  ASSUME NEW S, NEW s \in Seq(Seq(S)), NEW b \in Seq(S)
  PROVE  FlattenSeq(Append(s, b)) = FlattenSeq(s) \o b
  <1>1. CASE s = <<>>
    <2>1. Append(s, b) = <<b>>
      BY <1>1
    <2>2. <<>> \o b = b
      BY ConcatEmptySeq
    <2> QED BY <1>1, <2>1, <2>2, FlattenOne, FlattenEmpty
  <1>2. CASE s # <<>>
    <2> DEFINE t == Append(s, b)
    <2>1. Len(s) \in Nat /\ Len(s) # 0 /\ Len(t) = Len(s) + 1 /\ t \in Seq(Seq(S)) /\ t # <<>>
          /\ (\A i \in 1..Len(s) : s[i] = t[i]) /\ t[Len(s) + 1] = b
      BY SMTT(30), <1>2, AppendProperties
    <2>2. PICK f : Flat(s, Len(s), f) /\ FlattenSeq(s) = f[Len(s)]
      BY <1>2, FlattenIsLast
    <2>3. PICK g : Flat(t, Len(t), g) /\ FlattenSeq(t) = g[Len(t)]
      BY <2>1, FlattenIsLast
    <2> HIDE DEF t
    <2>4. PICK n \in Nat : n = Len(s)
      BY <2>1
    <2>5. PICK m \in Nat : m = n + 1
      OBVIOUS
    <2>6. n # 0 /\ n <= m /\ m = Len(t) /\ Flat(s, n, f) /\ Flat(t, m, g) /\ Agree(s, t, n)
      BY <2>1, <2>2, <2>3, <2>4, <2>5 DEF Agree
    <2>7. Agree(f, g, n)
      BY <2>6, FlatAgrees
    <2>8. \A i \in 1..m : g[i] = IF i = 1 THEN t[i] ELSE g[i - 1] \o t[i]
      BY <2>6 DEF Flat
    <2>9. m \in 1..m /\ m # 1 /\ m - 1 = n /\ n \in 1..n
      BY <2>5, <2>6
    <2>10. g[m] = g[m - 1] \o t[m]
      BY <2>8, <2>9
    <2>11. g[n] = f[n]
      BY <2>7, <2>9 DEF Agree
    <2>12. FlattenSeq(s) = f[n] /\ FlattenSeq(t) = g[m] /\ t[m] = b
      BY <2>1, <2>2, <2>3, <2>4, <2>5, <2>6
    <2>13. FlattenSeq(t) = FlattenSeq(s) \o b
      BY <2>9, <2>10, <2>11, <2>12
    <2> QED BY <2>13 DEF t
  <1> QED BY <1>1, <1>2

(* Sequences of blocks of one size.                                        *)
InBlocksOf(S, b) == {s \in Seq(Seq(S)) : \A i \in DOMAIN s : Len(s[i]) = b}

(* What FlattenSeq makes of n blocks of b elements.                        *)
Flattened(S, b, s, n) ==
    /\ FlattenSeq(s) \in Seq(S)
    /\ Len(FlattenSeq(s)) = n * b
    /\ \A i \in 0..n - 1, j \in 1..b : FlattenSeq(s)[i * b + j] = s[i + 1][j]

LEMMA FlattenedMore ==
  ASSUME NEW S, NEW b \in Nat, NEW s \in InBlocksOf(S, b), NEW n \in Nat, n = Len(s), Flattened(S, b, s, n),
         NEW e \in Seq(S), Len(e) = b
  PROVE  Flattened(S, b, Append(s, e), n + 1)
  <1> DEFINE t == Append(s, e)
             F == FlattenSeq(s)
  <1>1. s \in Seq(Seq(S)) /\ n * b \in Nat /\ (n + 1) * b = n * b + b
    BY DEF InBlocksOf
  <1>2. FlattenSeq(t) = F \o e
    BY <1>1, FlattenAppend
  <1>3. F \in Seq(S) /\ Len(F) = n * b
    BY DEF Flattened
  <1>4. /\ FlattenSeq(t) \in Seq(S)
        /\ Len(FlattenSeq(t)) = n * b + b
        /\ \A k \in 1..n * b + b : FlattenSeq(t)[k] = IF k <= n * b THEN F[k] ELSE e[k - n * b]
    <2> HIDE DEF F, t
    <2>1. /\ F \o e \in Seq(S)
          /\ Len(F \o e) = n * b + b
          /\ \A k \in 1..n * b + b : (F \o e)[k] = IF k <= n * b THEN F[k] ELSE e[k - n * b]
      BY <1>3, ConcatProperties
    <2> QED BY <1>2, <2>1
  <1>5. (\A i \in 1..n : t[i] = s[i]) /\ t[n + 1] = e
    BY <1>1, AppendProperties
  <1>6. ASSUME NEW i \in 0..n, NEW j \in 1..b PROVE FlattenSeq(t)[i * b + j] = t[i + 1][j]
    <2> HIDE DEF t
    <2>1. CASE i = n
      <3>1. n * b + j \in 1..n * b + b /\ ~(n * b + j <= n * b) /\ (n * b + j) - n * b = j
        BY <1>1
      <3> QED BY <1>4, <1>5, <2>1, <3>1
    <2>2. CASE i < n
      <3>1. i \in 0..n - 1 /\ i + 1 \in 1..n
        BY <2>2
      <3>2. i * b + j \in 1..n * b
        <4>1. (i + 1) * b <= n * b
          BY <3>1
        <4>2. (i + 1) * b = i * b + b /\ i * b \in Nat
          BY <3>1
        <4> DEFINE p == i * b
                   q == n * b
        <4> HIDE DEF p, q
        <4>3. p \in Nat /\ q \in Nat /\ p + b <= q
          BY <1>1, <4>1, <4>2 DEF p, q
        <4>4. p + j \in 1..q
          BY <4>3
        <4> QED BY <4>4 DEF p, q
      <3>3. i * b + j \in 1..n * b + b /\ i * b + j <= n * b
        BY <1>1, <3>2
      <3>4. FlattenSeq(t)[i * b + j] = F[i * b + j]
        BY <1>4, <3>3
      <3>5. F[i * b + j] = s[i + 1][j]
        BY <3>1 DEF Flattened
      <3> QED BY <1>5, <3>1, <3>4, <3>5
    <2> QED BY <2>1, <2>2
  <1> QED BY <1>1, <1>4, <1>6 DEF Flattened

LEMMA FlattenBlocks ==
  ASSUME NEW S, NEW b \in Nat, NEW s \in InBlocksOf(S, b)
  PROVE  Flattened(S, b, s, Len(s))
  <1> DEFINE T == {n \in Nat : \E t \in InBlocksOf(S, b) : Len(t) = n /\ ~Flattened(S, b, t, n)}
  <1>1. Len(s) \in Nat
    BY DEF InBlocksOf
  <1> SUFFICES ASSUME T # {} PROVE FALSE
    BY <1>1
  <1>2. T \subseteq Nat
    OBVIOUS
  <1>3. PICK n \in T : \A y \in T : n <= y
    BY <1>2, NatMin
  <1>4. PICK t \in InBlocksOf(S, b) : Len(t) = n /\ ~Flattened(S, b, t, n)
    BY <1>3
  <1>5. t \in Seq(Seq(S)) /\ n \in Nat /\ \A i \in DOMAIN t : Len(t[i]) = b
    BY <1>4 DEF InBlocksOf
  <1>6. CASE n = 0
    <2>1. t = <<>>
      BY <1>4, <1>5, <1>6, EmptySeq
    <2>2. FlattenSeq(t) = <<>> /\ n * b = 0
      BY <1>6, <2>1, FlattenEmpty
    <2>3. <<>> \in Seq(S) /\ Len(<<>>) = 0
      BY EmptySeq
    <2> QED BY <1>4, <1>6, <2>2, <2>3 DEF Flattened
  <1>7. CASE n # 0
    <2>1. t # <<>>
      BY <1>4, <1>7, EmptySeq
    <2>2. PICK u \in Seq(Seq(S)), e \in Seq(S) : t = Append(u, e)
      BY <1>5, <2>1, SequenceEmptyOrAppend
    <2>3. Len(t) = Len(u) + 1 /\ (\A i \in 1..Len(u) : t[i] = u[i]) /\ t[Len(u) + 1] = e /\ Len(u) \in Nat
      BY <2>2, AppendProperties
    <2>4. DOMAIN t = 1..Len(t) /\ DOMAIN u = 1..Len(u)
      BY <1>5, <2>2, LenProperties
    <2>5. Len(e) = b /\ u \in InBlocksOf(S, b)
      <3>1. \A i \in 1..Len(u) : i \in DOMAIN t /\ u[i] = t[i]
        BY <2>3, <2>4
      <3>2. Len(u) + 1 \in DOMAIN t
        BY <2>3, <2>4
      <3>3. \A i \in DOMAIN u : Len(u[i]) = b
        BY <1>5, <2>4, <3>1
      <3> QED BY <1>5, <2>2, <2>3, <3>2, <3>3 DEF InBlocksOf
    <2>6. Len(u) \notin T
      BY <1>3, <1>4, <2>3
    <2>7. Flattened(S, b, u, Len(u))
      BY <2>3, <2>5, <2>6
    <2>8. Flattened(S, b, t, Len(u) + 1)
      BY <2>2, <2>3, <2>5, <2>7, FlattenedMore
    <2> QED BY <1>4, <2>3, <2>8
  <1> QED BY <1>6, <1>7

-----------------------------------------------------------------------------
(* Numbers in units of b.                                                  *)
LEMMA Division ==
  ASSUME NEW n \in Nat, NEW b \in Nat \ {0}
  PROVE  /\ n \div b \in Nat /\ n % b \in 0..b - 1 /\ (n \div b) * b \in Nat
         /\ n = (n \div b) * b + (n % b)
  OBVIOUS

LEMMA Quotient ==
  ASSUME NEW n \in Nat, NEW b \in Nat \ {0}, NEW q \in Nat, NEW r \in 0..b - 1, n = q * b + r
  PROVE  n \div b = q /\ n % b = r
  <1> DEFINE k == n \div b
             m == n % b
  <1>1. k \in Nat /\ m \in 0..b - 1 /\ k * b \in Nat /\ n = k * b + m
    BY Division
  <1> HIDE DEF k, m
  <1>2. ASSUME k < q PROVE FALSE
    <2>1. (k + 1) * b <= q * b /\ (k + 1) * b = k * b + b /\ q * b \in Nat
      BY <1>1, <1>2
    <2> QED BY <1>1, <2>1
  <1>3. ASSUME q < k PROVE FALSE
    <2>1. (q + 1) * b <= k * b /\ (q + 1) * b = q * b + b /\ q * b \in Nat
      BY <1>1, <1>3
    <2> QED BY <1>1, <2>1
  <1>4. k = q
    BY <1>1, <1>2, <1>3
  <1>5. m = r
    BY <1>1, <1>4
  <1> QED BY <1>4, <1>5 DEF k, m

LEMMA NextRemainder ==
  ASSUME NEW n \in Nat, NEW b \in Nat \ {0}
  PROVE  (n + 1) % b = IF (n % b) + 1 = b THEN 0 ELSE (n % b) + 1
  <1> DEFINE q == n \div b
             r == n % b
  <1>1. q \in Nat /\ r \in 0..b - 1 /\ q * b \in Nat /\ n = q * b + r
    BY Division
  <1> HIDE DEF q, r
  <1>2. CASE r + 1 = b
    <2>1. n + 1 = (q + 1) * b + 0 /\ q + 1 \in Nat /\ 0 \in 0..b - 1 /\ n + 1 \in Nat
      BY <1>1, <1>2
    <2>2. (n + 1) % b = 0
      BY <2>1, Quotient
    <2> QED BY <1>2, <2>2 DEF r
  <1>3. CASE r + 1 # b
    <2>1. n + 1 = q * b + (r + 1) /\ r + 1 \in 0..b - 1 /\ n + 1 \in Nat
      BY <1>1, <1>3
    <2>2. (n + 1) % b = r + 1
      BY <1>1, <2>1, Quotient
    <2> QED BY <1>3, <2>2 DEF r
  <1> QED BY <1>2, <1>3

LEMMA WholeMultiple ==
  ASSUME NEW n \in Nat, NEW b \in Nat \ {0}
  PROVE  /\ n % b = 0 <=> \E k \in Nat : n = k * b
         /\ n - (n % b) = (n \div b) * b
  <1>1. n \div b \in Nat /\ n % b \in 0..b - 1 /\ (n \div b) * b \in Nat /\ n = (n \div b) * b + (n % b)
    BY Division
  <1>2. ASSUME NEW k \in Nat, n = k * b PROVE n % b = 0
    <2>1. n = k * b + 0 /\ 0 \in 0..b - 1
      BY <1>2
    <2> QED BY <2>1, Quotient
  <1>3. n % b = 0 => n = (n \div b) * b
    BY <1>1
  <1>4. n - (n % b) = (n \div b) * b
    BY <1>1
  <1> QED BY <1>1, <1>2, <1>3, <1>4

LEMMA QuotientMonotone ==
  ASSUME NEW m \in Nat, NEW n \in Nat, NEW b \in Nat \ {0}, m <= n
  PROVE  m \div b <= n \div b
  <1> DEFINE p == m \div b
             q == n \div b
  <1>1. /\ p \in Nat /\ q \in Nat /\ p * b \in Nat /\ q * b \in Nat /\ p * b <= m
        /\ n < q * b + b
    BY Division
  <1> HIDE DEF p, q
  <1>2. ASSUME q < p PROVE FALSE
    <2>1. (q + 1) * b <= p * b /\ (q + 1) * b = q * b + b
      BY <1>1, <1>2
    <2> QED BY <1>1, <2>1
  <1> QED BY <1>1, <1>2 DEF p, q

LEMMA QuotientBelow ==
  ASSUME NEW n \in Nat, NEW b \in Nat \ {0}, NEW k \in Nat, n < k * b
  PROVE  n \div b \in 0..k - 1
  <1> DEFINE q == n \div b
  <1>1. q \in Nat /\ q * b \in Nat /\ q * b <= n
    BY Division
  <1> HIDE DEF q
  <1>2. ASSUME k <= q PROVE FALSE
    <2>1. k * b <= q * b
      BY <1>1, <1>2
    <2> QED BY <1>1, <2>1
  <1> QED BY <1>1, <1>2 DEF q

-----------------------------------------------------------------------------
LEMMA NotEmpty == ASSUME NEW s, Len(s) # 0 PROVE s # <<>>
  BY EmptySeq

(* One element more of a part of a sequence.                               *)
LEMMA SubSeqMore ==
  ASSUME NEW S, NEW s \in Seq(S), NEW m \in Nat, NEW n \in Nat, m \in 1..n + 1, n + 1 <= Len(s)
  PROVE  Append(SubSeq(s, m, n), s[n + 1]) = SubSeq(s, m, n + 1)
  <1> DEFINE t == SubSeq(s, m, n)
             u == SubSeq(s, m, n + 1)
  <1>0. \A i \in 1..Len(s) : s[i] \in S
    OBVIOUS
  <1>1. t \in Seq(S) /\ Len(t) = n - m + 1 /\ \A i \in 1..n - m + 1 : t[i] = s[m + i - 1]
    <2>1. \A i \in m..n : s[i] \in S
      BY <1>0
    <2> QED BY <2>1, SubSeqProperties
  <1>2. u \in Seq(S) /\ Len(u) = n - m + 2 /\ \A i \in 1..n - m + 2 : u[i] = s[m + i - 1]
    <2>1. \A i \in m..n + 1 : s[i] \in S
      BY <1>0
    <2> QED BY SMTT(30), <2>1, SubSeqProperties
  <1>3. s[n + 1] \in S
    BY <1>0
  <1> HIDE DEF t, u
  <1> DEFINE v == Append(t, s[n + 1])
  <1>4. v \in Seq(S) /\ Len(v) = n - m + 2 /\ (\A i \in 1..n - m + 1 : v[i] = t[i]) /\ v[n - m + 2] = s[n + 1]
    <2> DEFINE e == s[n + 1]
    <2> HIDE DEF e
    <2>1. e \in S /\ Len(t) + 1 = n - m + 2
      BY <1>1, <1>3 DEF e
    <2>2. /\ Append(t, e) \in Seq(S) /\ Len(Append(t, e)) = Len(t) + 1 /\ Append(t, e)[Len(t) + 1] = e
          /\ \A i \in 1..Len(t) : Append(t, e)[i] = t[i]
      BY <1>1, <2>1, AppendProperties
    <2> QED BY <1>1, <2>1, <2>2 DEF e
  <1>5. \A i \in 1..Len(v) : v[i] = u[i]
    <2> HIDE DEF v
    <2> TAKE i \in 1..Len(v)
    <2>1. CASE i = n - m + 2
      BY <1>2, <1>4, <2>1
    <2>2. CASE i # n - m + 2
      <3>1. i \in 1..n - m + 1 /\ i \in 1..n - m + 2
        BY <1>4, <2>2
      <3> QED BY <1>1, <1>2, <1>4, <3>1
    <2> QED BY <2>1, <2>2
  <1>6. v = u
    <2> HIDE DEF v
    <2> QED BY <1>2, <1>4, <1>5, SeqEqual
  <1> QED BY <1>6 DEF t, u

(* The end of a concatenation.                                             *)
LEMMA SubSeqTail ==
  ASSUME NEW S, NEW a \in Seq(S), NEW b \in Seq(S), NEW d \in Nat, d <= Len(a)
  PROVE  /\ a \o b \in Seq(S) /\ Len(a \o b) = Len(a) + Len(b)
         /\ SubSeq(a, d + 1, Len(a)) \in Seq(S) /\ Len(SubSeq(a, d + 1, Len(a))) = Len(a) - d
         /\ SubSeq(a \o b, d + 1, Len(a) + Len(b)) = SubSeq(a, d + 1, Len(a)) \o b
  <1> DEFINE n == Len(a)
             m == Len(b)
             c == a \o b
             u == SubSeq(a, d + 1, n)
             v == SubSeq(c, d + 1, n + m)
  <1>0. n \in Nat /\ m \in Nat /\ d <= n
    OBVIOUS
  <1>1. c \in Seq(S) /\ Len(c) = n + m /\ \A i \in 1..n + m : c[i] = IF i <= n THEN a[i] ELSE b[i - n]
    BY ConcatProperties
  <1>2. a \in Seq(S) /\ b \in Seq(S) /\ Len(a) = n /\ Len(b) = m
    OBVIOUS
  <1> HIDE DEF n, m, c
  <1>3. u \in Seq(S) /\ Len(u) = n - d /\ \A i \in 1..n - d : u[i] = a[d + i]
    <2>1. \A i \in d + 1..n : a[i] \in S
      BY <1>0, <1>2
    <2>2. /\ u \in Seq(S) /\ Len(u) = IF d + 1 <= n THEN n - (d + 1) + 1 ELSE 0
          /\ \A i \in 1..n - (d + 1) + 1 : u[i] = a[(d + 1) + i - 1]
      BY <1>0, <2>1, SubSeqProperties
    <2> HIDE DEF u
    <2>3. Len(u) = n - d
      BY <1>0, <2>2
    <2>4. ASSUME NEW i \in 1..n - d PROVE u[i] = a[d + i]
      <3>1. i \in 1..n - (d + 1) + 1 /\ (d + 1) + i - 1 = d + i
        BY <1>0
      <3> QED BY <2>2, <3>1
    <2> QED BY <2>2, <2>3, <2>4
  <1>4. v \in Seq(S) /\ Len(v) = n + m - d /\ \A i \in 1..n + m - d : v[i] = c[d + i]
    <2>1. \A i \in d + 1..n + m : c[i] \in S
      BY <1>0, <1>1
    <2>2. /\ v \in Seq(S) /\ Len(v) = IF d + 1 <= n + m THEN n + m - (d + 1) + 1 ELSE 0
          /\ \A i \in 1..n + m - (d + 1) + 1 : v[i] = c[(d + 1) + i - 1]
      BY <1>0, <2>1, SubSeqProperties
    <2> HIDE DEF v
    <2>3. Len(v) = n + m - d
      BY <1>0, <2>2
    <2>4. ASSUME NEW i \in 1..n + m - d PROVE v[i] = c[d + i]
      <3>1. i \in 1..n + m - (d + 1) + 1 /\ (d + 1) + i - 1 = d + i
        BY <1>0
      <3> QED BY <2>2, <3>1
    <2> QED BY <2>2, <2>3, <2>4
  <1> DEFINE w == u \o b
  <1> HIDE DEF u, v
  <1>5. w \in Seq(S) /\ Len(w) = (n - d) + m /\ \A i \in 1..(n - d) + m : w[i] = IF i <= n - d THEN u[i] ELSE b[i - (n - d)]
    <2>1. /\ w \in Seq(S) /\ Len(w) = Len(u) + Len(b)
          /\ \A i \in 1..Len(u) + Len(b) : w[i] = IF i <= Len(u) THEN u[i] ELSE b[i - Len(u)]
      BY <1>2, <1>3, ConcatProperties
    <2>2. Len(u) = n - d /\ Len(b) = m
      BY <1>2, <1>3
    <2> HIDE DEF w
    <2> QED BY <2>1, <2>2
  <1> HIDE DEF w
  <1>6. \A i \in 1..Len(v) : v[i] = w[i]
    <2> TAKE i \in 1..Len(v)
    <2>1. i \in 1..n + m - d /\ i \in 1..(n - d) + m /\ d + i \in 1..n + m
      BY <1>0, <1>4
    <2>2. v[i] = (IF d + i <= n THEN a[d + i] ELSE b[(d + i) - n]) /\ w[i] = IF i <= n - d THEN u[i] ELSE b[i - (n - d)]
      BY <1>1, <1>4, <1>5, <2>1
    <2>3. CASE i <= n - d
      <3>1. i \in 1..n - d /\ d + i <= n
        BY <1>0, <2>1, <2>3
      <3> QED BY <1>3, <2>2, <2>3, <3>1
    <2>4. CASE ~(i <= n - d)
      <3>1. ~(d + i <= n) /\ (d + i) - n = i - (n - d)
        BY <1>0, <2>1, <2>4
      <3> QED BY <2>2, <2>4, <3>1
    <2> QED BY <2>3, <2>4
  <1>7. Len(v) = Len(w)
    BY <1>0, <1>4, <1>5
  <1>8. v = w
    BY <1>4, <1>5, <1>6, <1>7, SeqEqual
  <1> QED BY <1>1, <1>3, <1>8 DEF n, m, c, u, v, w
(* Multiples of b in order.                                                *)
LEMMA Multiples ==
  ASSUME NEW k \in Nat, NEW n \in Nat, NEW b \in Nat, k <= n
  PROVE  k * b \in Nat /\ n * b \in Nat /\ (k + 1) * b = k * b + b /\ k * b <= n * b
  <1>1. k * b \in Nat /\ n * b \in Nat /\ (k + 1) * b = k * b + b
    OBVIOUS
  <1>2. PICK e \in Nat : n = k + e
    <2>1. n - k \in Nat /\ n = k + (n - k)
      OBVIOUS
    <2> QED BY <2>1
  <1>3. (k + e) * b = k * b + e * b /\ e * b \in Nat
    OBVIOUS
  <1> DEFINE x == k * b
             y == e * b
             z == n * b
  <1>4. z = x + y /\ x \in Nat /\ y \in Nat /\ z \in Nat
    BY <1>1, <1>2, <1>3
  <1> HIDE DEF x, y, z
  <1>5. x <= z
    BY <1>4
  <1> QED BY <1>1, <1>5 DEF x, z
(* Part of a sequence.                                                     *)
LEMMA PartOf ==
  ASSUME NEW S, NEW s \in Seq(S), NEW q \in Nat, NEW b \in Nat, q + b <= Len(s)
  PROVE  /\ SubSeq(s, q + 1, q + b) \in Seq(S) /\ Len(SubSeq(s, q + 1, q + b)) = b
         /\ \A j \in 1..b : SubSeq(s, q + 1, q + b)[j] = s[q + j]
  OBVIOUS

-----------------------------------------------------------------------------
(* Short sequences, put together.                                          *)
LEMMA TwoIs ==
  ASSUME NEW S, NEW s \in Seq(S), Len(s) = 2
  PROVE  s = <<s[1], s[2]>>
  OBVIOUS
LEMMA ThreeIs ==
  ASSUME NEW S, NEW s \in Seq(S), Len(s) = 3
  PROVE  s = <<s[1], s[2], s[3]>>
  OBVIOUS
LEMMA SixIs ==
  ASSUME NEW S, NEW s \in Seq(S), Len(s) = 6
  PROVE  s = <<s[1], s[2], s[3], s[4], s[5], s[6]>>
  OBVIOUS

LEMMA Joined ==
  ASSUME NEW S, NEW a \in Seq(S), NEW b \in Seq(S), NEW m \in Nat, m = Len(a), NEW n \in Nat, n = Len(b)
  PROVE  /\ a \o b \in Seq(S) /\ Len(a \o b) = m + n
         /\ \A i \in 1..m + n : (a \o b)[i] = IF i <= m THEN a[i] ELSE b[i - m]
  BY ConcatProperties

LEMMA OneAndOne == ASSUME NEW a, NEW b PROVE <<a>> \o <<b>> = <<a, b>>
  <1> DEFINE s == <<a>>
             t == <<b>>
             S == {a, b}
  <1>1. s \in Seq(S) /\ Len(s) = 1 /\ s[1] = a /\ t \in Seq(S) /\ Len(t) = 1 /\ t[1] = b
    OBVIOUS
  <1> HIDE DEF s, t, S
  <1>2. s \o t \in Seq(S) /\ Len(s \o t) = 2 /\ (s \o t)[1] = a /\ (s \o t)[2] = b
    BY SMTT(30), <1>1, Joined
  <1>3. s \o t = <<a, b>>
    BY <1>2, TwoIs
  <1> QED BY <1>3 DEF s, t

(* Two elements ahead of a sequence.                                       *)
LEMMA TwoAhead ==
  ASSUME NEW S, NEW s \in Seq(S), NEW t \in Seq(S), Len(s) = 2
  PROVE  /\ s \o t \in Seq(S) /\ Len(s \o t) = Len(t) + 2 /\ (s \o t)[1] = s[1] /\ (s \o t)[2] = s[2]
         /\ \A k \in 1..Len(t) : (s \o t)[k + 2] = t[k]
  <1> DEFINE j == s \o t
  <1>1. PICK n \in Nat : n = Len(t)
    OBVIOUS
  <1>2. /\ j \in Seq(S) /\ Len(j) = Len(s) + Len(t)
        /\ \A i \in 1..Len(s) + Len(t) : j[i] = IF i <= Len(s) THEN s[i] ELSE t[i - Len(s)]
    BY ConcatProperties
  <1> HIDE DEF j
  <1>3. j \in Seq(S) /\ Len(j) = n + 2
    BY <1>1, <1>2
  <1>4. ASSUME NEW i \in 1..n + 2 PROVE j[i] = IF i <= 2 THEN s[i] ELSE t[i - 2]
    <2>1. i \in 1..Len(s) + Len(t)
      BY <1>1
    <2> QED BY <1>2, <2>1
  <1>5. j[1] = s[1] /\ j[2] = s[2]
    <2>1. 1 \in 1..n + 2 /\ 2 \in 1..n + 2
      OBVIOUS
    <2> QED BY <1>4, <2>1
  <1>6. ASSUME NEW k \in 1..n PROVE j[k + 2] = t[k]
    <2>1. k + 2 \in 1..n + 2 /\ ~(k + 2 <= 2) /\ k + 2 - 2 = k
      OBVIOUS
    <2> QED BY <1>4, <2>1
  <1> QED BY <1>1, <1>3, <1>5, <1>6 DEF j

LEMMA TwoAndOne == ASSUME NEW a, NEW b, NEW c PROVE <<a, b>> \o <<c>> = <<a, b, c>>
  <1> DEFINE s == <<a, b>>
             t == <<c>>
             S == {a, b, c}
             j == s \o t
  <1>1. s \in Seq(S) /\ Len(s) = 2 /\ s[1] = a /\ s[2] = b /\ t \in Seq(S)
    OBVIOUS
  <1>2. Len(t) = 1 /\ t[1] = c
    OBVIOUS
  <1> HIDE DEF s, t, S
  <1>3. /\ j \in Seq(S) /\ Len(j) = Len(t) + 2 /\ j[1] = s[1] /\ j[2] = s[2]
        /\ \A k \in 1..Len(t) : j[k + 2] = t[k]
    BY <1>1, TwoAhead
  <1> HIDE DEF j
  <1>4. j[3] = c /\ Len(j) = 3
    <2>1. 1 \in 1..Len(t) /\ 1 + 2 = 3 /\ Len(j) = 3
      BY <1>2, <1>3
    <2>2. j[1 + 2] = c
      BY <1>2, <1>3, <2>1
    <2> QED BY <2>1, <2>2
  <1>5. j = <<a, b, c>>
    BY <1>1, <1>3, <1>4, ThreeIs
  <1> QED BY <1>5 DEF j, s, t

LEMMA TwoAndFour ==
  ASSUME NEW a, NEW b, NEW c, NEW d, NEW e, NEW f
  PROVE  <<a, b>> \o <<c, d, e, f>> = <<a, b, c, d, e, f>>
  <1> DEFINE s == <<a, b>>
             t == <<c, d, e, f>>
             S == {a, b, c, d, e, f}
  <1>1. /\ s \in Seq(S) /\ Len(s) = 2 /\ s[1] = a /\ s[2] = b
        /\ t \in Seq(S) /\ Len(t) = 4 /\ t[1] = c /\ t[2] = d /\ t[3] = e /\ t[4] = f
    OBVIOUS
  <1> HIDE DEF s, t, S
  <1>2. /\ s \o t \in Seq(S) /\ Len(s \o t) = 6 /\ (s \o t)[1] = a /\ (s \o t)[2] = b /\ (s \o t)[3] = c
        /\ (s \o t)[4] = d /\ (s \o t)[5] = e /\ (s \o t)[6] = f
    BY SMTT(30), <1>1, TwoAhead
  <1>3. s \o t = <<a, b, c, d, e, f>>
    BY <1>2, SixIs
  <1> QED BY <1>3 DEF s, t

(* The elements of a short sequence.                                       *)
LEMMA OfTwo ==
  ASSUME NEW a, NEW b
  PROVE  <<a, b>> \in Seq({a, b}) /\ Len(<<a, b>>) = 2 /\ <<a, b>>[1] = a /\ <<a, b>>[2] = b
  OBVIOUS
LEMMA OfThree ==
  ASSUME NEW a, NEW b, NEW c
  PROVE  /\ <<a, b, c>> \in Seq({a, b, c}) /\ Len(<<a, b, c>>) = 3
         /\ <<a, b, c>>[1] = a /\ <<a, b, c>>[2] = b /\ <<a, b, c>>[3] = c
  OBVIOUS
LEMMA OfSix ==
  ASSUME NEW a, NEW b, NEW c, NEW d, NEW e, NEW f
  PROVE  LET s == <<a, b, c, d, e, f>>
         IN  /\ s \in Seq({a, b, c, d, e, f}) /\ Len(s) = 6
             /\ s[1] = a /\ s[2] = b /\ s[3] = c /\ s[4] = d /\ s[5] = e /\ s[6] = f
  OBVIOUS
=============================================================================

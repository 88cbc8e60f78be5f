--------------------------- MODULE SequenceLemmas ---------------------------
(***************************************************************************)
(* Lemmas about numbers and sequences that belong to no component: an      *)
(* induction principle, where a sequence holds another one, and what a     *)
(* sequence of sequences is flattened to.                                  *)
(***************************************************************************)
EXTENDS SequencesExt, Integers, FiniteSetTheorems, SequenceTheorems,
        WellFoundedInduction, TLAPS

\* Induction over the natural numbers, for a set of them.
LEMMA SetInduction ==
    ASSUME NEW T, 0 \in T, \A k \in Nat : k \in T => k + 1 \in T
    PROVE  \A n \in Nat : n \in T
<1> DEFINE F == {n \in Nat : n \notin T}
<1> SUFFICES ASSUME F # {} PROVE FALSE
  OBVIOUS
<1>1. PICK x \in F : \A y \in F : ~ (<<y, x>> \in OpToRel(<, Nat))
  <2>1. F \subseteq Nat
    OBVIOUS
  <2> HIDE DEF F
  <2> QED
    BY <2>1, NatLessThanWellFounded, WFMin
<1>2. \A y \in F : ~ (y < x)
  BY <1>1 DEF OpToRel
<1>3. x \in Nat /\ x \notin T /\ x # 0
  BY <1>1
<1>4. x - 1 \in Nat /\ x - 1 < x /\ (x - 1) + 1 = x
  BY <1>3
<1>5. x - 1 \in T
  BY <1>2, <1>4
<1> QED
  BY <1>3, <1>4, <1>5

\* Flattening concatenates from the left.
LEMMA FlattenUnfolds ==
    ASSUME NEW seqs, NEW n \in Nat \ {0}, Len(seqs) = n
    PROVE  \E f : /\ f[1] = seqs[1]
                  /\ \A i \in 1 .. n - 1 : f[i + 1] = f[i] \o seqs[i + 1]
                  /\ FlattenSeq(seqs) = f[n]
<1> DEFINE Flat(f, m) ==
             f = [i \in 1 .. m |-> IF i = 1 THEN seqs[i] ELSE f[i - 1] \o seqs[i]]
           T == {m \in Nat : \E f : Flat(f, m)}
<1>1. 0 \in T
  <2>1. Flat([i \in 1 .. 0 |-> 0], 0)
    OBVIOUS
  <2> HIDE DEF Flat
  <2> QED
    BY <2>1
<1>2. ASSUME NEW k \in Nat, k \in T PROVE k + 1 \in T
  <2>1. PICK f : Flat(f, k)
    BY <1>2
  <2> DEFINE g == [i \in 1 .. k + 1 |->
                      IF i <= k THEN f[i]
                      ELSE IF i = 1 THEN seqs[i] ELSE f[k] \o seqs[i]]
  <2>2. ASSUME NEW i \in 1 .. k + 1
        PROVE  g[i] = IF i = 1 THEN seqs[i] ELSE g[i - 1] \o seqs[i]
    <3>1. CASE i <= k
      <4>1. i \in 1 .. k /\ g[i] = f[i]
        BY <3>1
      <4>2. f[i] = IF i = 1 THEN seqs[i] ELSE f[i - 1] \o seqs[i]
        BY <2>1, <4>1
      <4>3. i # 1 => g[i - 1] = f[i - 1]
        BY <3>1
      <4> QED
        BY <4>1, <4>2, <4>3
    <3>2. CASE ~ (i <= k)
      <4>1. i = k + 1
        BY <3>2
      <4>2. i # 1 => i - 1 = k /\ k \in 1 .. k + 1 /\ k <= k /\ g[k] = f[k]
        BY <4>1
      <4> QED
        BY <3>2, <4>1, <4>2
    <3> QED
      BY <3>1, <3>2
  <2>3. Flat(g, k + 1)
    BY <2>2
  <2> HIDE DEF Flat, g
  <2> QED
    BY <2>3
<1>3. n \in T
  BY <1>1, <1>2, SetInduction
<1> DEFINE flatten == CHOOSE f : Flat(f, n)
<1>4. Flat(flatten, n)
  BY <1>3
<1>5. FlattenSeq(seqs) = flatten[n]
  BY DEF FlattenSeq
<1> HIDE DEF flatten
<1>6. flatten[1] = seqs[1]
  BY <1>4
<1>7. \A i \in 1 .. n - 1 : flatten[i + 1] = flatten[i] \o seqs[i + 1]
  <2> TAKE i \in 1 .. n - 1
  <2>1. i + 1 \in 1 .. n /\ i + 1 # 1 /\ (i + 1) - 1 = i
    OBVIOUS
  <2> QED
    BY <1>4, <2>1
<1> QED
  BY <1>5, <1>6, <1>7

LEMMA FlattenEmpty == FlattenSeq(<<>>) = <<>>
BY DEF FlattenSeq

\* One sequence more is appended.
LEMMA FlattenAppend ==
    ASSUME NEW S, NEW seqs \in Seq(Seq(S)), NEW s \in Seq(S)
    PROVE  FlattenSeq(Append(seqs, s)) = FlattenSeq(seqs) \o s
<1> DEFINE more == Append(seqs, s)
           n == Len(seqs)
<1>1. /\ n \in Nat /\ Len(more) = n + 1 /\ more[n + 1] = s
      /\ \A i \in 1 .. n : more[i] = seqs[i]
  BY LenProperties, AppendProperties
<1> HIDE DEF more
<1>2. PICK g : /\ g[1] = more[1]
               /\ \A i \in 1 .. n : g[i + 1] = g[i] \o more[i + 1]
               /\ FlattenSeq(more) = g[n + 1]
  <2> DEFINE m == n + 1
  <2>1. m \in Nat \ {0} /\ m - 1 = n /\ Len(more) = m
    BY <1>1
  <2> HIDE DEF m
  <2>2. \E g : /\ g[1] = more[1]
               /\ \A i \in 1 .. m - 1 : g[i + 1] = g[i] \o more[i + 1]
               /\ FlattenSeq(more) = g[m]
    BY <2>1, FlattenUnfolds
  <2> QED
    BY <2>1, <2>2 DEF m
<1>3. CASE n = 0
  <2>1. seqs = <<>>
    BY <1>3, EmptySeq
  <2>2. FlattenSeq(more) = s
    BY <1>1, <1>2, <1>3
  <2> QED
    BY <2>1, <2>2, FlattenEmpty, ConcatEmptySeq DEF more
<1>4. CASE n # 0
  <2>1. PICK f : /\ f[1] = seqs[1]
                 /\ \A i \in 1 .. n - 1 : f[i + 1] = f[i] \o seqs[i + 1]
                 /\ FlattenSeq(seqs) = f[n]
    <3>1. n \in Nat \ {0} /\ Len(seqs) = n
      BY <1>1, <1>4
    <3> HIDE DEF n
    <3> QED
      BY <3>1, FlattenUnfolds
  <2> HIDE DEF n
  <2> DEFINE T == {k \in Nat : k + 1 \in 1 .. n => g[k + 1] = f[k + 1]}
  <2>2. 0 \in T
    BY <1>1, <1>2, <2>1
  <2>3. ASSUME NEW k \in Nat, k \in T PROVE k + 1 \in T
    <3> SUFFICES ASSUME (k + 1) + 1 \in 1 .. n
                 PROVE  g[(k + 1) + 1] = f[(k + 1) + 1]
      OBVIOUS
    <3>1. k + 1 \in 1 .. n /\ k + 1 \in 1 .. n - 1
      BY <1>1
    <3>2. g[k + 1] = f[k + 1]
      BY <2>3, <3>1
    <3>3. more[(k + 1) + 1] = seqs[(k + 1) + 1]
      BY <1>1
    <3> QED
      BY <1>2, <2>1, <3>1, <3>2, <3>3
  <2>4. \A k \in Nat : k \in T
    <3> HIDE DEF T
    <3> QED
      BY <2>2, <2>3, SetInduction
  <2>5. n - 1 \in Nat /\ (n - 1) + 1 = n /\ n \in 1 .. n
    BY <1>1, <1>4
  <2>6. n - 1 \in T
    BY <2>4, <2>5
  <2>7. g[n] = f[n]
    BY <2>5, <2>6
  <2> QED
    BY <1>1, <1>2, <2>1, <2>5, <2>7 DEF more
<1> QED
  BY <1>3, <1>4

\* The first k + 1 sequences are the first k and one more.
LEMMA PrefixStep ==
    ASSUME NEW S, NEW seq \in Seq(S), NEW k \in 0 .. Len(seq) - 1
    PROVE  /\ SubSeq(seq, 1, k) \in Seq(S)
           /\ SubSeq(seq, 1, k + 1) = Append(SubSeq(seq, 1, k), seq[k + 1])
           /\ seq[k + 1] \in S
<1>1. Len(seq) \in Nat /\ \A i \in 1 .. Len(seq) : seq[i] \in S
  BY LenProperties
<1>2. /\ SubSeq(seq, 1, k) \in Seq(S) /\ Len(SubSeq(seq, 1, k)) = k
      /\ \A i \in 1 .. k : SubSeq(seq, 1, k)[i] = seq[i]
  <2>1. \A i \in 1 .. k : seq[i] \in S
    BY <1>1
  <2> QED
    BY <1>1, <2>1, SubSeqProperties
<1>3. /\ SubSeq(seq, 1, k + 1) \in Seq(S) /\ Len(SubSeq(seq, 1, k + 1)) = k + 1
      /\ \A i \in 1 .. k + 1 : SubSeq(seq, 1, k + 1)[i] = seq[i]
  <2>1. \A i \in 1 .. k + 1 : seq[i] \in S
    BY <1>1
  <2> QED
    BY <1>1, <2>1, SubSeqProperties
<1>4. k + 1 \in 1 .. Len(seq) /\ seq[k + 1] \in S
  BY <1>1
<1> DEFINE u == SubSeq(seq, 1, k)
           w == SubSeq(seq, 1, k + 1)
           x == seq[k + 1]
<1> HIDE DEF u, w, x
<1>5. /\ Append(u, x) \in Seq(S) /\ Len(Append(u, x)) = k + 1
      /\ \A i \in 1 .. k + 1 : Append(u, x)[i] = IF i <= k THEN u[i] ELSE x
  BY <1>1, <1>2, <1>4, AppendProperties DEF u, x
<1>6. \A i \in 1 .. k + 1 : w[i] = Append(u, x)[i]
  BY <1>1, <1>2, <1>3, <1>5 DEF u, w, x
<1>7. w = Append(u, x)
  BY <1>1, <1>3, <1>5, <1>6, SeqEqual DEF w
<1> QED
  BY <1>2, <1>4, <1>7 DEF u, w, x

-----------------------------------------------------------------------------
(* Parts of sequences.                                                     *)

\* The sequence in holds s from the position after offset on.
Holds(in, offset, s) ==
    /\ offset + Len(s) <= Len(in)
    /\ \A i \in 1 .. Len(s) : in[offset + i] = s[i]

LEMMA HoldsItself ==
    ASSUME NEW S, NEW s \in Seq(S)
    PROVE  Holds(s, 0, s)
BY LenProperties DEF Holds

\* Where two sequences are, one after the other, is each of them.
LEMMA HoldsParts ==
    ASSUME NEW S, NEW s \in Seq(S), NEW t \in Seq(S), NEW in \in Seq(S),
           NEW offset \in Nat, Holds(in, offset, s \o t)
    PROVE  Holds(in, offset, s) /\ Holds(in, offset + Len(s), t)
<1> DEFINE st == s \o t
<1>1. /\ Len(st) = Len(s) + Len(t) /\ Len(s) \in Nat /\ Len(t) \in Nat
      /\ Len(in) \in Nat
      /\ \A i \in 1 .. Len(s) + Len(t) : st[i] = IF i <= Len(s) THEN s[i] ELSE t[i - Len(s)]
  BY LenProperties, ConcatProperties
<1>2. Holds(in, offset, st)
  OBVIOUS
<1> HIDE DEF st
<1>3. Holds(in, offset, s)
  <2>1. \A i \in 1 .. Len(s) : i \in 1 .. Len(s) + Len(t) /\ st[i] = s[i]
    BY <1>1
  <2>2. \A i \in 1 .. Len(s) : in[offset + i] = s[i]
    BY <1>1, <1>2, <2>1 DEF Holds
  <2> QED
    BY <1>1, <1>2, <2>2 DEF Holds
<1>4. Holds(in, offset + Len(s), t)
  <2> SUFFICES ASSUME NEW i \in 1 .. Len(t)
               PROVE  in[(offset + Len(s)) + i] = t[i]
    BY <1>1, <1>2 DEF Holds
  <2>1. /\ Len(s) + i \in 1 .. Len(st) /\ (Len(s) + i) - Len(s) = i
        /\ ~ (Len(s) + i <= Len(s))
        /\ offset + (Len(s) + i) = (offset + Len(s)) + i
    BY <1>1
  <2>2. st[Len(s) + i] = t[i]
    BY <1>1, <2>1
  <2>3. in[offset + (Len(s) + i)] = st[Len(s) + i]
    BY <1>2, <2>1 DEF Holds
  <2> QED
    BY <2>1, <2>2, <2>3
<1> QED
  BY <1>3, <1>4

\* What is held by a sequence that is held.
LEMMA HoldsWithin ==
    ASSUME NEW S, NEW s \in Seq(S), NEW t \in Seq(S), NEW in \in Seq(S),
           NEW offset \in Nat, NEW p \in Nat, Holds(in, offset, s), Holds(s, p, t)
    PROVE  Holds(in, offset + p, t)
<1>1. Len(s) \in Nat /\ Len(t) \in Nat /\ Len(in) \in Nat
  BY LenProperties
<1>2. \A i \in 1 .. Len(t) : in[(offset + p) + i] = t[i]
  <2> TAKE i \in 1 .. Len(t)
  <2>1. p + i \in 1 .. Len(s) /\ offset + (p + i) = (offset + p) + i
    BY <1>1 DEF Holds
  <2>2. in[offset + (p + i)] = s[p + i] /\ s[p + i] = t[i]
    BY <2>1 DEF Holds
  <2> QED
    BY <2>1, <2>2
<1> QED
  BY <1>1, <1>2 DEF Holds

\* Appending to a sequence keeps what it holds.
LEMMA HoldsLonger ==
    ASSUME NEW S, NEW s \in Seq(S), NEW t \in Seq(S), NEW in \in Seq(S),
           NEW offset \in Nat, Holds(in, offset, s)
    PROVE  Holds(in \o t, offset, s)
<1> DEFINE longer == in \o t
<1>1. /\ Len(longer) = Len(in) + Len(t) /\ Len(s) \in Nat /\ Len(t) \in Nat
      /\ Len(in) \in Nat
      /\ \A i \in 1 .. Len(in) : longer[i] = in[i]
  BY LenProperties, ConcatProperties
<1> HIDE DEF longer
<1>2. \A i \in 1 .. Len(s) : longer[offset + i] = s[i]
  <2> TAKE i \in 1 .. Len(s)
  <2>1. offset + i \in 1 .. Len(in)
    BY <1>1 DEF Holds
  <2> QED
    BY <1>1, <2>1 DEF Holds
<1>3. Holds(longer, offset, s)
  BY <1>1, <1>2 DEF Holds
<1> QED
  BY <1>3 DEF longer

LEMMA HoldsAppended ==
    ASSUME NEW S, NEW s \in Seq(S), NEW t \in Seq(S)
    PROVE  Holds(s \o t, Len(s), t)
<1>1. s \o t \in Seq(S)
  BY ConcatProperties
<1>2. Holds(s \o t, 0, s \o t)
  BY <1>1, HoldsItself
<1>3. Holds(s \o t, 0 + Len(s), t)
  BY <1>1, <1>2, HoldsParts
<1>4. 0 + Len(s) = Len(s)
  BY LenProperties
<1> QED
  BY <1>3, <1>4

\* A sequence that holds s only, holds it from its first position on.
LEMMA HoldsAll ==
    ASSUME NEW S, NEW in \in Seq(S), NEW s \in Seq(S), Holds(in, 0, s), Len(in) = Len(s)
    PROVE  in = s
<1>1. \A i \in 1 .. Len(in) : in[i] = s[i]
  <2> TAKE i \in 1 .. Len(in)
  <2>1. 0 + i = i /\ i \in 1 .. Len(s)
    BY LenProperties
  <2> QED
    BY <2>1 DEF Holds
<1> QED
  BY <1>1, SeqEqual

\* What is held is the part at its place.
LEMMA HoldsSubSeq ==
    ASSUME NEW S, NEW in \in Seq(S), NEW s \in Seq(S), NEW offset \in Nat,
           Holds(in, offset, s)
    PROVE  SubSeq(in, offset + 1, offset + Len(s)) = s
<1> DEFINE n == Len(s)
           part == SubSeq(in, offset + 1, offset + n)
<1>1. Len(in) \in Nat /\ n \in Nat /\ offset + n <= Len(in)
  BY LenProperties DEF Holds
<1>2. \A i \in 1 .. n : in[offset + i] = s[i]
  BY DEF Holds
<1> HIDE DEF n
<1>3. \A i \in offset + 1 .. offset + n : in[i] \in S
  <2> TAKE i \in offset + 1 .. offset + n
  <2>1. i \in 1 .. Len(in)
    BY <1>1
  <2> QED
    BY <2>1, ElementOfSeq
<1>4. /\ part \in Seq(S)
      /\ Len(part) = IF offset + 1 <= offset + n
                     THEN (offset + n) - (offset + 1) + 1 ELSE 0
      /\ \A i \in 1 .. (offset + n) - (offset + 1) + 1 : part[i] = in[(offset + 1) + i - 1]
  <2>1. offset + 1 \in Int /\ offset + n \in Int
    BY <1>1
  <2> QED
    BY <1>3, <2>1, SubSeqProperties
<1> HIDE DEF part
<1>5. Len(part) = n
  BY <1>1, <1>4
<1>6. \A i \in 1 .. n : part[i] = s[i]
  <2> TAKE i \in 1 .. n
  <2>1. i \in 1 .. (offset + n) - (offset + 1) + 1 /\ (offset + 1) + i - 1 = offset + i
    BY <1>1
  <2> QED
    BY <1>2, <1>4, <2>1
<1>7. part = s
  BY <1>4, <1>5, <1>6, SeqEqual DEF n
<1> QED
  BY <1>7 DEF part, n

-----------------------------------------------------------------------------
(* Flattening, sequence by sequence.                                       *)

\* The first k sequences, flattened.
FlatPrefix(seqs, k) == FlattenSeq(SubSeq(seqs, 1, k))

LEMMA FlatPrefixEmpty ==
    ASSUME NEW seqs
    PROVE  FlatPrefix(seqs, 0) = <<>>
<1>1. SubSeq(seqs, 1, 0) = <<>>
  BY SubSeqEmpty
<1> QED
  BY <1>1, FlattenEmpty DEF FlatPrefix

LEMMA FlatPrefixStep ==
    ASSUME NEW S, NEW seqs \in Seq(Seq(S)), NEW k \in 0 .. Len(seqs) - 1
    PROVE  FlatPrefix(seqs, k + 1) = FlatPrefix(seqs, k) \o seqs[k + 1]
<1> DEFINE u == SubSeq(seqs, 1, k)
           x == seqs[k + 1]
<1>1. u \in Seq(Seq(S)) /\ SubSeq(seqs, 1, k + 1) = Append(u, x) /\ x \in Seq(S)
  BY PrefixStep
<1> HIDE DEF u, x
<1>2. FlattenSeq(Append(u, x)) = FlattenSeq(u) \o x
  BY <1>1, FlattenAppend
<1> QED
  BY <1>1, <1>2 DEF FlatPrefix, u, x

LEMMA FlatPrefixType ==
    ASSUME NEW S, NEW seqs \in Seq(Seq(S))
    PROVE  /\ \A k \in 0 .. Len(seqs) : FlatPrefix(seqs, k) \in Seq(S)
           /\ FlatPrefix(seqs, Len(seqs)) = FlattenSeq(seqs)
<1> DEFINE T == {k \in Nat : k <= Len(seqs) => FlatPrefix(seqs, k) \in Seq(S)}
<1>1. 0 \in T
  BY FlatPrefixEmpty, EmptySeq
<1>2. ASSUME NEW k \in Nat, k \in T PROVE k + 1 \in T
  <2> SUFFICES ASSUME k + 1 <= Len(seqs) PROVE FlatPrefix(seqs, k + 1) \in Seq(S)
    OBVIOUS
  <2>1. Len(seqs) \in Nat /\ k \in 0 .. Len(seqs) - 1 /\ k + 1 \in 1 .. Len(seqs)
    BY LenProperties
  <2>2. FlatPrefix(seqs, k) \in Seq(S) /\ seqs[k + 1] \in Seq(S)
    BY <1>2, <2>1, ElementOfSeq
  <2>3. FlatPrefix(seqs, k + 1) = FlatPrefix(seqs, k) \o seqs[k + 1]
    BY <2>1, FlatPrefixStep
  <2> QED
    BY <2>2, <2>3, ConcatProperties
<1>3. \A k \in Nat : k \in T
  <2> HIDE DEF T
  <2> QED
    BY <1>1, <1>2, SetInduction
<1>4. \A k \in 0 .. Len(seqs) : FlatPrefix(seqs, k) \in Seq(S)
  BY <1>3, LenProperties
<1>5. FlatPrefix(seqs, Len(seqs)) = FlattenSeq(seqs)
  BY SubSeqFull DEF FlatPrefix
<1> QED
  BY <1>4, <1>5

LEMMA FlattenType ==
    ASSUME NEW S, NEW seqs \in Seq(Seq(S))
    PROVE  FlattenSeq(seqs) \in Seq(S)
<1>1. Len(seqs) \in 0 .. Len(seqs)
  BY LenProperties
<1> QED
  BY <1>1, FlatPrefixType

\* Each sequence is in the flattened one, behind those before it.
LEMMA FlattenHolds ==
    ASSUME NEW S, NEW seqs \in Seq(Seq(S)), NEW k \in 0 .. Len(seqs) - 1
    PROVE  Holds(FlattenSeq(seqs), Len(FlatPrefix(seqs, k)), seqs[k + 1])
<1> DEFINE F(m) == FlatPrefix(seqs, m)
           T == {m \in Nat : k < m /\ m <= Len(seqs) =>
                               Holds(F(m), Len(F(k)), seqs[k + 1])}
<1>1. Len(seqs) \in Nat /\ k \in Nat /\ k \in 0 .. Len(seqs) /\ k + 1 \in 1 .. Len(seqs)
  BY LenProperties
<1>2. F(k) \in Seq(S) /\ seqs[k + 1] \in Seq(S) /\ Len(F(k)) \in Nat
  BY <1>1, FlatPrefixType, ElementOfSeq, LenProperties
<1>3. 0 \in T
  BY <1>1
<1>4. ASSUME NEW m \in Nat, m \in T PROVE m + 1 \in T
  <2> SUFFICES ASSUME k < m + 1, m + 1 <= Len(seqs)
               PROVE  Holds(F(m + 1), Len(F(k)), seqs[k + 1])
    OBVIOUS
  <2>1. m \in 0 .. Len(seqs) - 1 /\ m \in 0 .. Len(seqs) /\ m + 1 \in 1 .. Len(seqs)
    BY <1>1
  <2>2. F(m + 1) = F(m) \o seqs[m + 1]
    BY <2>1, FlatPrefixStep
  <2>3. F(m) \in Seq(S) /\ seqs[m + 1] \in Seq(S)
    BY <2>1, FlatPrefixType, ElementOfSeq
  <2>4. CASE m = k
    BY <2>2, <2>3, <2>4, HoldsAppended
  <2>5. CASE m # k
    <3>1. Holds(F(m), Len(F(k)), seqs[k + 1])
      BY <1>1, <1>4, <2>1, <2>5
    <3> HIDE DEF F
    <3> QED
      BY <1>2, <2>2, <2>3, <3>1, HoldsLonger
  <2> QED
    BY <2>4, <2>5
<1>5. \A m \in Nat : m \in T
  <2> HIDE DEF T
  <2> QED
    BY <1>3, <1>4, SetInduction
<1>6. Holds(F(Len(seqs)), Len(F(k)), seqs[k + 1])
  BY <1>1, <1>5
<1> QED
  BY <1>6, FlatPrefixType

\* If all sequences have one length, each begins at a multiple of it.
LEMMA FlattenEqual ==
    ASSUME NEW S, NEW seqs \in Seq(Seq(S)), NEW w \in Nat,
           \A i \in 1 .. Len(seqs) : Len(seqs[i]) = w
    PROVE  /\ Len(FlattenSeq(seqs)) = w * Len(seqs)
           /\ \A k \in 0 .. Len(seqs) - 1 :
                 Holds(FlattenSeq(seqs), w * k, seqs[k + 1])
<1> DEFINE T == {k \in Nat : k <= Len(seqs) => Len(FlatPrefix(seqs, k)) = w * k}
<1>1. Len(seqs) \in Nat
  BY LenProperties
<1>2. 0 \in T
  <2>1. Len(FlatPrefix(seqs, 0)) = 0
    BY FlatPrefixEmpty, EmptySeq
  <2> QED
    BY <2>1
<1>3. ASSUME NEW k \in Nat, k \in T PROVE k + 1 \in T
  <2> SUFFICES ASSUME k + 1 <= Len(seqs) PROVE Len(FlatPrefix(seqs, k + 1)) = w * (k + 1)
    OBVIOUS
  <2>1. k \in 0 .. Len(seqs) - 1 /\ k + 1 \in 1 .. Len(seqs) /\ k \in 0 .. Len(seqs)
    BY <1>1
  <2>2. FlatPrefix(seqs, k) \in Seq(S) /\ seqs[k + 1] \in Seq(S)
    BY <2>1, FlatPrefixType, ElementOfSeq
  <2>3. FlatPrefix(seqs, k + 1) = FlatPrefix(seqs, k) \o seqs[k + 1]
    BY <2>1, FlatPrefixStep
  <2>4. Len(FlatPrefix(seqs, k + 1)) = Len(FlatPrefix(seqs, k)) + Len(seqs[k + 1])
    BY <2>2, <2>3, ConcatProperties
  <2>5. Len(FlatPrefix(seqs, k)) = w * k /\ Len(seqs[k + 1]) = w
    BY <1>3, <2>1
  <2>6. w * k + w = w * (k + 1)
    OBVIOUS
  <2> QED
    BY <2>4, <2>5, <2>6
<1>4. \A k \in Nat : k \in T
  <2> HIDE DEF T
  <2> QED
    BY <1>2, <1>3, SetInduction
<1>5. Len(FlattenSeq(seqs)) = w * Len(seqs)
  <2>1. Len(FlatPrefix(seqs, Len(seqs))) = w * Len(seqs)
    BY <1>1, <1>4
  <2> QED
    BY <2>1, FlatPrefixType
<1>6. \A k \in 0 .. Len(seqs) - 1 : Holds(FlattenSeq(seqs), w * k, seqs[k + 1])
  <2> TAKE k \in 0 .. Len(seqs) - 1
  <2>1. Len(FlatPrefix(seqs, k)) = w * k
    BY <1>1, <1>4
  <2> QED
    BY <2>1, FlattenHolds
<1> QED
  BY <1>5, <1>6

\* If one sequence of b is longer by d than that of a, and the others are as long
\* as those of a, b is flattened to a sequence longer by d.
LEMMA FlattenGrows ==
    ASSUME NEW S, NEW a \in Seq(Seq(S)), NEW b \in Seq(Seq(S)), Len(a) = Len(b),
           NEW n, NEW d \in Nat,
           \A i \in 1 .. Len(a) : Len(b[i]) = Len(a[i]) + (IF i = n THEN d ELSE 0)
    PROVE  Len(FlattenSeq(b)) =
             Len(FlattenSeq(a)) + (IF n \in 1 .. Len(a) THEN d ELSE 0)
<1> DEFINE T == {k \in Nat : k <= Len(a) =>
                   Len(FlatPrefix(b, k)) =
                     Len(FlatPrefix(a, k)) + (IF n \in 1 .. k THEN d ELSE 0)}
<1>1. Len(a) \in Nat
  BY LenProperties
<1>2. 0 \in T
  <2>1. FlatPrefix(a, 0) = <<>> /\ FlatPrefix(b, 0) = <<>>
    BY FlatPrefixEmpty
  <2> QED
    BY <2>1, EmptySeq
<1>3. ASSUME NEW k \in Nat, k \in T PROVE k + 1 \in T
  <2> DEFINE x == Len(FlatPrefix(a, k))
             y == Len(FlatPrefix(b, k))
             p == Len(a[k + 1])
             q == Len(b[k + 1])
  <2> SUFFICES ASSUME k + 1 <= Len(a)
               PROVE  Len(FlatPrefix(b, k + 1)) =
                        Len(FlatPrefix(a, k + 1)) + (IF n \in 1 .. k + 1 THEN d ELSE 0)
    OBVIOUS
  <2>1. k \in 0 .. Len(a) - 1 /\ k + 1 \in 1 .. Len(a) /\ k \in 0 .. Len(a)
    BY <1>1
  <2>2. /\ FlatPrefix(a, k) \in Seq(S) /\ a[k + 1] \in Seq(S)
        /\ FlatPrefix(b, k) \in Seq(S) /\ b[k + 1] \in Seq(S)
    BY <2>1, FlatPrefixType, ElementOfSeq
  <2>3. /\ FlatPrefix(a, k + 1) = FlatPrefix(a, k) \o a[k + 1]
        /\ FlatPrefix(b, k + 1) = FlatPrefix(b, k) \o b[k + 1]
    BY <2>1, FlatPrefixStep
  <2>4. Len(FlatPrefix(a, k + 1)) = x + p /\ Len(FlatPrefix(b, k + 1)) = y + q
    BY <2>2, <2>3, ConcatProperties
  <2>5. y = x + (IF n \in 1 .. k THEN d ELSE 0)
    BY <1>3, <2>1
  <2>6. q = p + (IF k + 1 = n THEN d ELSE 0)
    BY <2>1
  <2>7. x \in Nat /\ p \in Nat
    BY <2>2, LenProperties
  <2> HIDE DEF x, y, p, q
  <2>8. CASE k + 1 = n
    <3>1. n \in 1 .. k + 1 /\ n \notin 1 .. k
      BY <2>8
    <3> QED
      BY <2>4, <2>5, <2>6, <2>7, <2>8, <3>1
  <2>9. CASE k + 1 # n
    <3>1. n \in 1 .. k + 1 <=> n \in 1 .. k
      BY <2>9
    <3> QED
      BY <2>4, <2>5, <2>6, <2>7, <2>9, <3>1
  <2> QED
    BY <2>8, <2>9
<1>4. \A k \in Nat : k \in T
  <2> HIDE DEF T
  <2> QED
    BY <1>2, <1>3, SetInduction
<1>5. Len(FlatPrefix(b, Len(a))) =
        Len(FlatPrefix(a, Len(a))) + (IF n \in 1 .. Len(a) THEN d ELSE 0)
  BY <1>1, <1>4
<1> QED
  BY <1>5, FlatPrefixType

\* Sequences of at most one element are flattened to no more than there are.
LEMMA FlattenBounded ==
    ASSUME NEW S, NEW seqs \in Seq(Seq(S)),
           \A i \in 1 .. Len(seqs) : Len(seqs[i]) <= 1
    PROVE  Len(FlattenSeq(seqs)) <= Len(seqs)
<1> DEFINE T == {k \in Nat : k <= Len(seqs) => Len(FlatPrefix(seqs, k)) <= k}
<1>1. Len(seqs) \in Nat
  BY LenProperties
<1>2. 0 \in T
  <2>1. FlatPrefix(seqs, 0) = <<>>
    BY FlatPrefixEmpty
  <2> QED
    BY <2>1, EmptySeq
<1>3. ASSUME NEW k \in Nat, k \in T PROVE k + 1 \in T
  <2> SUFFICES ASSUME k + 1 <= Len(seqs) PROVE Len(FlatPrefix(seqs, k + 1)) <= k + 1
    OBVIOUS
  <2>1. k \in 0 .. Len(seqs) - 1 /\ k + 1 \in 1 .. Len(seqs) /\ k \in 0 .. Len(seqs)
    BY <1>1
  <2>2. FlatPrefix(seqs, k) \in Seq(S) /\ seqs[k + 1] \in Seq(S)
    BY <2>1, FlatPrefixType, ElementOfSeq
  <2>3. FlatPrefix(seqs, k + 1) = FlatPrefix(seqs, k) \o seqs[k + 1]
    BY <2>1, FlatPrefixStep
  <2>4. Len(FlatPrefix(seqs, k + 1)) = Len(FlatPrefix(seqs, k)) + Len(seqs[k + 1])
    BY <2>2, <2>3, ConcatProperties
  <2>5. Len(FlatPrefix(seqs, k)) <= k /\ Len(seqs[k + 1]) <= 1
    BY <1>1, <1>3, <2>1
  <2>6. Len(FlatPrefix(seqs, k)) \in Nat /\ Len(seqs[k + 1]) \in Nat
    BY <2>2, LenProperties
  <2> QED
    BY <2>4, <2>5, <2>6
<1>4. \A k \in Nat : k \in T
  <2> HIDE DEF T
  <2> QED
    BY <1>2, <1>3, SetInduction
<1>5. Len(FlatPrefix(seqs, Len(seqs))) <= Len(seqs)
  BY <1>1, <1>4
<1> QED
  BY <1>5, FlatPrefixType

=============================================================================

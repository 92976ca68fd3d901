------------------------------ MODULE DataLemmas ------------------------------
(***************************************************************************)
(* Lemmas about sequences and sums that the proofs of the other modules    *)
(* rest on: what their operators yield, whatever the elements are, and     *)
(* what the recursive FlattenSeq and MapThenSumSet compute.  An induction  *)
(* over the naturals is put here as a fact about sets, which the provers   *)
(* can instantiate.                                                        *)
(***************************************************************************)
EXTENDS Naturals, Sequences, SequencesExt, NaturalsInduction, WellFoundedInduction,
        SequenceTheorems, FiniteSetTheorems, TLAPS

\* A sequence, of whatever elements.
IsSeq(s) == s \in Seq(Range(s))

-----------------------------------------------------------------------------
(* Induction.                                                              *)

LEMMA Induction ==
    ASSUME NEW T, 0 \in T, \A n \in Nat : n \in T => n + 1 \in T
    PROVE  \A n \in Nat : n \in T
  <1> DEFINE Below == {ss \in Nat \X Nat : ss[1] < ss[2]}
             D == {n \in Nat : n \notin T}
  <1>1. IsWellFoundedOn(Below, Nat)
    BY NatLessThanWellFounded DEF OpToRel
  <1>2. SUFFICES ASSUME D # {} PROVE FALSE
    OBVIOUS
  <1>3. \E x \in D : \A y \in D : <<y, x>> \notin Below
    <2>1. D \subseteq Nat
      OBVIOUS
    <2> HIDE DEF Below, D
    <2>2. QED BY <1>1, <1>2, <2>1, WFMin
  <1>4. PICK x \in D : \A y \in D : <<y, x>> \notin Below
    BY <1>3
  <1>5. x # 0
    OBVIOUS
  <1>6. x - 1 \in Nat /\ (x - 1) + 1 = x /\ <<x - 1, x>> \in Below
    BY <1>5
  <1>7. QED BY <1>4, <1>6

\* The same up to a bound, counted from 1.
LEMMA BoundedInduction ==
    ASSUME NEW m \in Nat, NEW T, 1 \in T, \A n \in 1 .. m - 1 : n \in T => n + 1 \in T
    PROVE  \A n \in 1 .. m : n \in T
  <1> DEFINE U == {n \in Nat : n = 0 \/ n > m \/ n \in T}
  <1>1. 0 \in U
    OBVIOUS
  <1>2. ASSUME NEW n \in Nat, n \in U
        PROVE  n + 1 \in U
    <2>1. CASE n = 0
      BY <2>1
    <2>2. CASE n >= m
      BY <2>2
    <2>3. CASE n \in 1 .. m - 1
      BY <1>2, <2>3
    <2>4. QED BY <2>1, <2>2, <2>3
  <1> HIDE DEF U
  <1>3. \A n \in Nat : n \in U
    BY <1>1, <1>2, Induction
  <1>4. QED BY <1>3 DEF U

-----------------------------------------------------------------------------
(* The operators of sequences.                                             *)

LEMMA SeqIs ==
    ASSUME NEW S, NEW s \in Seq(S)
    PROVE  /\ IsSeq(s) /\ Len(s) \in Nat /\ DOMAIN s = 1 .. Len(s)
           /\ \A i \in 1 .. Len(s) : s[i] \in S
  <1>1. s \in [1 .. Len(s) -> S] /\ Len(s) \in Nat /\ DOMAIN s = 1 .. Len(s)
    OBVIOUS
  <1>2. Range(s) = {s[i] : i \in 1 .. Len(s)}
    BY <1>1 DEF Range
  <1>3. s \in [1 .. Len(s) -> Range(s)]
    BY <1>1, <1>2
  <1>4. s \in Seq(Range(s))
    BY <1>1, <1>3
  <1>5. QED BY <1>1, <1>4 DEF IsSeq

LEMMA SeqFacts ==
    ASSUME NEW s, IsSeq(s)
    PROVE  /\ Len(s) \in Nat /\ DOMAIN s = 1 .. Len(s) /\ s = [i \in 1 .. Len(s) |-> s[i]]
           /\ \A S : (\A i \in 1 .. Len(s) : s[i] \in S) => s \in Seq(S)
  <1> DEFINE R == Range(s)
  <1>1. s \in Seq(R)
    BY DEF IsSeq
  <1> HIDE DEF R
  <1>2. Len(s) \in Nat /\ DOMAIN s = 1 .. Len(s) /\ s \in [1 .. Len(s) -> R]
    BY <1>1
  <1>3. s = [i \in 1 .. Len(s) |-> s[i]]
    BY <1>2
  <1>4. ASSUME NEW S, \A i \in 1 .. Len(s) : s[i] \in S
        PROVE  s \in Seq(S)
    <2>1. s \in [1 .. Len(s) -> S]
      BY <1>2, <1>4
    <2>2. QED BY <1>2, <2>1
  <1>5. QED BY <1>2, <1>3, <1>4

LEMMA FcnIsSeq ==
    ASSUME NEW n \in Nat, NEW f, f = [i \in 1 .. n |-> f[i]]
    PROVE  IsSeq(f) /\ Len(f) = n
  <1> DEFINE S == {f[i] : i \in 1 .. n}
  <1>1. f \in [1 .. n -> S]
    OBVIOUS
  <1> HIDE DEF S
  <1>2. f \in Seq(S) /\ Len(f) = n
    BY <1>1
  <1>3. QED BY <1>2, SeqIs

LEMMA SeqEq ==
    ASSUME NEW s, IsSeq(s), NEW t, IsSeq(t), Len(s) = Len(t), \A i \in 1 .. Len(s) : s[i] = t[i]
    PROVE  s = t
  <1>1. s = [i \in 1 .. Len(s) |-> s[i]] /\ t = [i \in 1 .. Len(t) |-> t[i]]
    BY SeqFacts
  <1>2. QED BY <1>1

LEMMA EmptyIs == IsSeq(<<>>) /\ Len(<<>>) = 0 /\ \A s : IsSeq(s) => (s = <<>> <=> Len(s) = 0)
  <1>1. <<>> \in Seq({}) /\ Len(<<>>) = 0
    OBVIOUS
  <1>2. IsSeq(<<>>)
    BY <1>1, SeqIs
  <1>3. ASSUME NEW s, IsSeq(s), Len(s) = 0
        PROVE  s = <<>>
    BY <1>1, <1>2, <1>3, SeqEq
  <1>4. QED BY <1>1, <1>2, <1>3

LEMMA AppendIs ==
    ASSUME NEW s, IsSeq(s), NEW e
    PROVE  /\ IsSeq(Append(s, e)) /\ Len(Append(s, e)) = Len(s) + 1 /\ Append(s, e)[Len(s) + 1] = e
           /\ \A i \in 1 .. Len(s) : Append(s, e)[i] = s[i]
  <1> DEFINE S == Range(s) \cup {e}
  <1>1. \A i \in 1 .. Len(s) : s[i] \in S
    BY SeqFacts DEF Range
  <1>2. e \in S
    OBVIOUS
  <1> HIDE DEF S
  <1>3. s \in Seq(S)
    BY <1>1, SeqFacts
  <1>4. /\ Append(s, e) \in Seq(S) /\ Len(Append(s, e)) = Len(s) + 1 /\ Append(s, e)[Len(s) + 1] = e
        /\ \A i \in 1 .. Len(s) : Append(s, e)[i] = s[i]
    BY <1>2, <1>3
  <1>5. QED BY <1>4, SeqIs

LEMMA ConcatIs ==
    ASSUME NEW s, IsSeq(s), NEW t, IsSeq(t)
    PROVE  /\ IsSeq(s \o t) /\ Len(s \o t) = Len(s) + Len(t)
           /\ \A i \in 1 .. Len(s) + Len(t) : (s \o t)[i] = IF i <= Len(s) THEN s[i] ELSE t[i - Len(s)]
  <1> DEFINE S == Range(s) \cup Range(t)
  <1>1. (\A i \in 1 .. Len(s) : s[i] \in S) /\ (\A i \in 1 .. Len(t) : t[i] \in S)
    BY SeqFacts DEF Range
  <1> HIDE DEF S
  <1>2. s \in Seq(S) /\ t \in Seq(S)
    BY <1>1, SeqFacts
  <1>3. s \o t \in Seq(S)
    BY <1>2
  <1>4. /\ Len(s \o t) = Len(s) + Len(t)
        /\ \A i \in 1 .. Len(s) + Len(t) : (s \o t)[i] = IF i <= Len(s) THEN s[i] ELSE t[i - Len(s)]
    BY <1>2, ConcatProperties
  <1>5. QED BY <1>3, <1>4, SeqIs

LEMMA TailIs ==
    ASSUME NEW s, IsSeq(s), s # <<>>
    PROVE  /\ IsSeq(Tail(s)) /\ Len(Tail(s)) = Len(s) - 1 /\ Len(s) >= 1 /\ Head(s) = s[1]
           /\ \A i \in 1 .. Len(s) - 1 : Tail(s)[i] = s[i + 1]
  <1> DEFINE S == Range(s)
  <1>1. s \in Seq(S)
    BY DEF IsSeq
  <1> HIDE DEF S
  <1>2. /\ Tail(s) \in Seq(S) /\ Len(Tail(s)) = Len(s) - 1 /\ Len(s) >= 1 /\ Head(s) = s[1]
        /\ \A i \in 1 .. Len(s) - 1 : Tail(s)[i] = s[i + 1]
    BY <1>1
  <1>3. QED BY <1>2, SeqIs

LEMMA ExceptIs ==
    ASSUME NEW s, IsSeq(s), NEW k \in 1 .. Len(s), NEW e
    PROVE  /\ IsSeq([s EXCEPT ![k] = e]) /\ Len([s EXCEPT ![k] = e]) = Len(s)
           /\ [s EXCEPT ![k] = e][k] = e
           /\ \A i \in 1 .. Len(s) : i # k => [s EXCEPT ![k] = e][i] = s[i]
  <1> DEFINE t == [s EXCEPT ![k] = e]
  <1>1. Len(s) \in Nat /\ s = [i \in 1 .. Len(s) |-> s[i]]
    BY SeqFacts
  <1>2. /\ t = [i \in 1 .. Len(s) |-> t[i]] /\ t[k] = e
        /\ \A i \in 1 .. Len(s) : i # k => t[i] = s[i]
    BY <1>1
  <1> HIDE DEF t
  <1>3. IsSeq(t) /\ Len(t) = Len(s)
    BY <1>1, <1>2, FcnIsSeq
  <1>4. QED BY <1>2, <1>3 DEF t

LEMMA ConcatEmpty == ASSUME NEW s, IsSeq(s) PROVE s \o <<>> = s /\ <<>> \o s = s
  <1> DEFINE t == s \o <<>>  u == <<>> \o s
  <1>1. Len(s) \in Nat
    BY SeqFacts
  <1>2. /\ IsSeq(t) /\ Len(t) = Len(s) /\ \A i \in 1 .. Len(s) : t[i] = s[i]
        /\ IsSeq(u) /\ Len(u) = Len(s) /\ \A i \in 1 .. Len(s) : u[i] = s[i]
    <2>1. Len(<<>>) = 0 /\ IsSeq(<<>>)
      BY EmptyIs
    <2>2. /\ IsSeq(t) /\ Len(t) = Len(s) + 0
          /\ \A i \in 1 .. Len(s) + 0 : t[i] = IF i <= Len(s) THEN s[i] ELSE <<>>[i - Len(s)]
      BY <2>1, ConcatIs
    <2>3. /\ IsSeq(u) /\ Len(u) = 0 + Len(s)
          /\ \A i \in 1 .. 0 + Len(s) : u[i] = IF i <= 0 THEN <<>>[i] ELSE s[i - 0]
      BY <2>1, ConcatIs
    <2> HIDE DEF t, u
    <2>4. QED BY <1>1, <2>2, <2>3
  <1> HIDE DEF t, u
  <1>3. t = s /\ u = s
    BY <1>2, SeqEq
  <1>4. QED BY <1>3 DEF t, u

\* An element appended to the second of two sequences is appended to both.
LEMMA ConcatAppend ==
    ASSUME NEW s, IsSeq(s), NEW t, IsSeq(t), NEW e
    PROVE  s \o Append(t, e) = Append(s \o t, e)
  <1> DEFINE u == s \o Append(t, e)  v == Append(s \o t, e)
  <1>1. Len(s) \in Nat /\ Len(t) \in Nat
    BY SeqFacts
  <1>2. /\ IsSeq(u) /\ Len(u) = Len(s) + (Len(t) + 1)
        /\ \A i \in 1 .. Len(s) + (Len(t) + 1) :
              u[i] = IF i <= Len(s) THEN s[i] ELSE Append(t, e)[i - Len(s)]
        /\ IsSeq(v) /\ Len(v) = (Len(s) + Len(t)) + 1 /\ v[(Len(s) + Len(t)) + 1] = e
        /\ \A i \in 1 .. Len(s) + Len(t) : v[i] = (s \o t)[i]
    <2>1. IsSeq(Append(t, e)) /\ Len(Append(t, e)) = Len(t) + 1
      BY AppendIs
    <2>2. IsSeq(s \o t) /\ Len(s \o t) = Len(s) + Len(t)
      BY ConcatIs
    <2>3. /\ IsSeq(u) /\ Len(u) = Len(s) + Len(Append(t, e))
          /\ \A i \in 1 .. Len(s) + Len(Append(t, e)) :
                u[i] = IF i <= Len(s) THEN s[i] ELSE Append(t, e)[i - Len(s)]
      BY <2>1, ConcatIs
    <2>4. /\ IsSeq(v) /\ Len(v) = Len(s \o t) + 1 /\ v[Len(s \o t) + 1] = e
          /\ \A i \in 1 .. Len(s \o t) : v[i] = (s \o t)[i]
      BY <2>2, AppendIs
    <2> HIDE DEF u, v
    <2>5. QED BY <2>1, <2>2, <2>3, <2>4
  <1>3. /\ \A i \in 1 .. Len(t) : Append(t, e)[i] = t[i]
        /\ Append(t, e)[Len(t) + 1] = e
        /\ \A i \in 1 .. Len(s) + Len(t) : (s \o t)[i] = IF i <= Len(s) THEN s[i] ELSE t[i - Len(s)]
    BY AppendIs, ConcatIs
  <1> HIDE DEF u, v
  <1>4. ASSUME NEW i \in 1 .. Len(u)
        PROVE  u[i] = v[i]
    <2>1. CASE i <= Len(s)
      BY <1>1, <1>2, <1>3, <2>1
    <2>2. CASE i = Len(s) + (Len(t) + 1)
      BY <1>1, <1>2, <1>3, <2>2
    <2>3. CASE i \in Len(s) + 1 .. Len(s) + Len(t)
      <3>1. i - Len(s) \in 1 .. Len(t) /\ i \in 1 .. Len(s) + Len(t) /\ ~(i <= Len(s))
        BY <1>1, <2>3
      <3>2. u[i] = t[i - Len(s)] /\ v[i] = t[i - Len(s)]
        BY <1>1, <1>2, <1>3, <3>1
      <3>3. QED BY <3>2
    <2>4. QED BY <1>1, <1>2, <2>1, <2>2, <2>3
  <1>5. u = v
    BY <1>1, <1>2, <1>4, SeqEq
  <1>6. QED BY <1>5 DEF u, v

LEMMA ConcatOne == ASSUME NEW s, IsSeq(s), NEW e PROVE s \o <<e>> = Append(s, e)
  <1>1. <<e>> = Append(<<>>, e)
    OBVIOUS
  <1>2. s \o Append(<<>>, e) = Append(s \o <<>>, e)
    BY EmptyIs, ConcatAppend
  <1>3. QED BY <1>1, <1>2, ConcatEmpty

LEMMA ConcatAssociates ==
    ASSUME NEW s, IsSeq(s), NEW t, IsSeq(t), NEW u, IsSeq(u)
    PROVE  (s \o t) \o u = s \o (t \o u)
  <1> DEFINE S == (Range(s) \cup Range(t)) \cup Range(u)
  <1>1. /\ \A i \in 1 .. Len(s) : s[i] \in S
        /\ \A i \in 1 .. Len(t) : t[i] \in S
        /\ \A i \in 1 .. Len(u) : u[i] \in S
    BY SeqFacts DEF Range
  <1> HIDE DEF S
  <1>2. s \in Seq(S) /\ t \in Seq(S) /\ u \in Seq(S)
    BY <1>1, SeqFacts
  <1>3. QED BY <1>2, ConcatAssociative

\* Two sequences with the same head and tail, split at the head of the second part.
LEMMA ConcatTail ==
    ASSUME NEW s, IsSeq(s), NEW t, IsSeq(t), t # <<>>
    PROVE  Append(s, Head(t)) \o Tail(t) = s \o t
  <1> DEFINE u == Append(s, Head(t)) \o Tail(t)  v == s \o t
  <1>1. /\ IsSeq(Tail(t)) /\ Len(Tail(t)) = Len(t) - 1 /\ Len(t) >= 1 /\ Head(t) = t[1]
        /\ \A i \in 1 .. Len(t) - 1 : Tail(t)[i] = t[i + 1]
        /\ Len(s) \in Nat /\ Len(t) \in Nat
    BY TailIs, SeqFacts
  <1>2. /\ IsSeq(Append(s, Head(t))) /\ Len(Append(s, Head(t))) = Len(s) + 1
        /\ Append(s, Head(t))[Len(s) + 1] = t[1]
        /\ \A i \in 1 .. Len(s) : Append(s, Head(t))[i] = s[i]
    BY <1>1, AppendIs
  <1>3. /\ IsSeq(u) /\ Len(u) = (Len(s) + 1) + (Len(t) - 1)
        /\ \A i \in 1 .. (Len(s) + 1) + (Len(t) - 1) :
              u[i] = IF i <= Len(s) + 1 THEN Append(s, Head(t))[i] ELSE Tail(t)[i - (Len(s) + 1)]
    BY <1>1, <1>2, ConcatIs
  <1>4. /\ IsSeq(v) /\ Len(v) = Len(s) + Len(t)
        /\ \A i \in 1 .. Len(s) + Len(t) : v[i] = IF i <= Len(s) THEN s[i] ELSE t[i - Len(s)]
    BY ConcatIs
  <1> HIDE DEF u, v
  <1>5. ASSUME NEW i \in 1 .. Len(u)
        PROVE  u[i] = v[i]
    <2>1. CASE i <= Len(s)
      BY <1>1, <1>2, <1>3, <1>4, <2>1
    <2>2. CASE i = Len(s) + 1
      BY <1>1, <1>2, <1>3, <1>4, <2>2
    <2>3. CASE i > Len(s) + 1
      <3>1. /\ i - (Len(s) + 1) \in 1 .. Len(t) - 1 /\ (i - (Len(s) + 1)) + 1 = i - Len(s)
            /\ i \in 1 .. Len(s) + Len(t) /\ ~(i <= Len(s)) /\ ~(i <= Len(s) + 1)
        BY <1>1, <1>3, <2>3
      <3>2. u[i] = Tail(t)[i - (Len(s) + 1)] /\ v[i] = t[i - Len(s)]
        BY <1>3, <1>4, <2>3, <3>1
      <3>3. Tail(t)[i - (Len(s) + 1)] = t[i - Len(s)]
        BY <1>1, <3>1
      <3>4. QED BY <3>2, <3>3
    <2>4. QED BY <1>1, <1>3, <2>1, <2>2, <2>3
  <1>6. u = v
    <2>1. Len(u) = Len(v)
      BY <1>1, <1>3, <1>4
    <2>2. QED BY <1>3, <1>4, <1>5, <2>1, SeqEq
  <1>7. QED BY <1>6 DEF u, v

-----------------------------------------------------------------------------
(* FlattenSeq.                                                             *)

\* F computes the flattening of the first n sequences of ss, for each n up to m.
Flattens(F, ss, m) ==
    F = [i \in 1 .. m |-> IF i = 1 THEN ss[i] ELSE F[i - 1] \o ss[i]]

LEMMA FlattensTo == ASSUME NEW m \in Nat, NEW ss PROVE \E F : Flattens(F, ss, m)
  <1> DEFINE T == {n \in Nat : \E F : Flattens(F, ss, n)}
  <1>1. 0 \in T
    <2> DEFINE F == [i \in 1 .. 0 |-> i]
    <2>1. Flattens(F, ss, 0)
      BY DEF Flattens
    <2>2. QED BY <2>1
  <1>2. ASSUME NEW n \in Nat, n \in T
        PROVE  n + 1 \in T
    <2>1. PICK F : Flattens(F, ss, n)
      BY <1>2
    <2> DEFINE G == [i \in 1 .. n + 1 |->
                        IF i = n + 1 THEN (IF i = 1 THEN ss[i] ELSE F[n] \o ss[i]) ELSE F[i]]
    <2>2. \A i \in 1 .. n : F[i] = IF i = 1 THEN ss[i] ELSE F[i - 1] \o ss[i]
      BY <2>1 DEF Flattens
    <2>3. ASSUME NEW i \in 1 .. n + 1
          PROVE  G[i] = IF i = 1 THEN ss[i] ELSE G[i - 1] \o ss[i]
      <3>1. CASE i = n + 1
        <4>1. i # 1 => i - 1 = n /\ n \in 1 .. n + 1 /\ n # n + 1
          BY <3>1
        <4>2. i # 1 => G[i - 1] = F[n]
          BY <4>1
        <4>3. QED BY <3>1, <4>2
      <3>2. CASE i # n + 1
        <4>1. i \in 1 .. n /\ (i # 1 => i - 1 \in 1 .. n + 1 /\ i - 1 # n + 1)
          BY <3>2
        <4>2. G[i] = F[i] /\ (i # 1 => G[i - 1] = F[i - 1])
          BY <4>1
        <4>3. QED BY <2>2, <4>1, <4>2
      <3>3. QED BY <3>1, <3>2
    <2>4. Flattens(G, ss, n + 1)
      <3>1. G = [i \in 1 .. n + 1 |-> G[i]]
        OBVIOUS
      <3> HIDE DEF G
      <3>2. QED BY <2>3, <3>1 DEF Flattens
    <2>5. QED BY <2>4
  <1> HIDE DEF T
  <1>3. m \in T
    BY <1>1, <1>2, Induction
  <1>4. QED BY <1>3 DEF T

LEMMA FlattenIs ==
    ASSUME NEW ss, IsSeq(ss), ss # <<>>
    PROVE  \E F : Flattens(F, ss, Len(ss)) /\ FlattenSeq(ss) = F[Len(ss)]
  <1> DEFINE G == CHOOSE F : F = [i \in 1 .. Len(ss) |-> IF i = 1 THEN ss[i] ELSE F[i - 1] \o ss[i]]
  <1>1. Len(ss) \in Nat /\ Len(ss) # 0
    BY SeqFacts, EmptyIs
  <1>2. FlattenSeq(ss) = G[Len(ss)]
    BY <1>1 DEF FlattenSeq
  <1>3. \E F : F = [i \in 1 .. Len(ss) |-> IF i = 1 THEN ss[i] ELSE F[i - 1] \o ss[i]]
    BY <1>1, FlattensTo DEF Flattens
  <1>4. G = [i \in 1 .. Len(ss) |-> IF i = 1 THEN ss[i] ELSE G[i - 1] \o ss[i]]
    BY <1>3
  <1> HIDE DEF G
  <1>5. QED BY <1>2, <1>4 DEF Flattens

\* Two such functions agree where their sequences do.
LEMMA FlattensSame ==
    ASSUME NEW F, NEW G, NEW ss, NEW tt, NEW m \in Nat, NEW n \in Nat, m <= n,
           Flattens(F, ss, m), Flattens(G, tt, n), \A i \in 1 .. m : ss[i] = tt[i]
    PROVE  \A i \in 1 .. m : F[i] = G[i]
  <1> DEFINE T == {i \in 1 .. m : F[i] = G[i]}
  <1>0. m <= n /\ \A i \in 1 .. m : ss[i] = tt[i]
    OBVIOUS
  <1>1. /\ \A i \in 1 .. m : F[i] = IF i = 1 THEN ss[i] ELSE F[i - 1] \o ss[i]
        /\ \A i \in 1 .. m : G[i] = IF i = 1 THEN tt[i] ELSE G[i - 1] \o tt[i]
    <2>1. \A i \in 1 .. m : F[i] = IF i = 1 THEN ss[i] ELSE F[i - 1] \o ss[i]
      BY DEF Flattens
    <2>2. \A i \in 1 .. n : G[i] = IF i = 1 THEN tt[i] ELSE G[i - 1] \o tt[i]
      BY DEF Flattens
    <2>3. QED BY <1>0, <2>1, <2>2
  <1>2. CASE m = 0
    BY <1>2
  <1>3. CASE m # 0
    <2>1. 1 \in T
      BY <1>0, <1>1, <1>3
    <2>2. ASSUME NEW i \in 1 .. m - 1, i \in T
          PROVE  i + 1 \in T
      <3>1. i + 1 \in 1 .. m /\ i + 1 # 1 /\ (i + 1) - 1 = i
        OBVIOUS
      <3>2. QED BY <1>0, <1>1, <2>2, <3>1
    <2> HIDE DEF T
    <2>3. \A i \in 1 .. m : i \in T
      BY <2>1, <2>2, BoundedInduction
    <2>4. QED BY <2>3 DEF T
  <1>4. QED BY <1>2, <1>3

LEMMA FlattenEmpty == FlattenSeq(<<>>) = <<>>
  BY DEF FlattenSeq

\* The flattening of sequences is a sequence of their elements.
LEMMA FlattenType ==
    ASSUME NEW S, NEW ss, IsSeq(ss), \A i \in 1 .. Len(ss) : ss[i] \in Seq(S)
    PROVE  FlattenSeq(ss) \in Seq(S)
  <1>1. CASE ss = <<>>
    <2>1. <<>> \in Seq(S)
      OBVIOUS
    <2>2. QED BY <1>1, <2>1, FlattenEmpty
  <1>2. CASE ss # <<>>
    <2>1. PICK F : Flattens(F, ss, Len(ss)) /\ FlattenSeq(ss) = F[Len(ss)]
      BY <1>2, FlattenIs
    <2>2. Len(ss) \in Nat /\ Len(ss) # 0
      BY <1>2, SeqFacts, EmptyIs
    <2> DEFINE T == {i \in 1 .. Len(ss) : F[i] \in Seq(S)}
    <2>3. \A i \in 1 .. Len(ss) : F[i] = IF i = 1 THEN ss[i] ELSE F[i - 1] \o ss[i]
      BY <2>1 DEF Flattens
    <2>4. 1 \in T
      BY <2>2, <2>3
    <2>5. ASSUME NEW i \in 1 .. Len(ss) - 1, i \in T
          PROVE  i + 1 \in T
      <3>1. i + 1 \in 1 .. Len(ss) /\ i + 1 # 1 /\ (i + 1) - 1 = i
        BY <2>2
      <3>2. F[i] \in Seq(S) /\ ss[i + 1] \in Seq(S)
        BY <2>5, <3>1
      <3>3. F[i] \o ss[i + 1] \in Seq(S)
        <4> DEFINE a == F[i]  b == ss[i + 1]
        <4>1. a \in Seq(S) /\ b \in Seq(S)
          BY <3>2
        <4> HIDE DEF a, b
        <4>2. a \o b \in Seq(S)
          BY <4>1
        <4>3. QED BY <4>2 DEF a, b
      <3>4. F[i + 1] = F[i] \o ss[i + 1]
        BY <2>3, <3>1
      <3>5. QED BY <3>1, <3>3, <3>4
    <2> HIDE DEF T
    <2>6. \A i \in 1 .. Len(ss) : i \in T
      BY <2>2, <2>4, <2>5, BoundedInduction
    <2>7. QED BY <2>1, <2>2, <2>6 DEF T
  <1>3. QED BY <1>1, <1>2

LEMMA FlattenIsSeq ==
    ASSUME NEW ss, IsSeq(ss), \A i \in 1 .. Len(ss) : IsSeq(ss[i])
    PROVE  IsSeq(FlattenSeq(ss))
  <1> DEFINE S == UNION {Range(ss[i]) : i \in 1 .. Len(ss)}
  <1>1. ASSUME NEW i \in 1 .. Len(ss)
        PROVE  ss[i] \in Seq(S)
    <2>1. \A k \in 1 .. Len(ss[i]) : ss[i][k] \in Range(ss[i])
      BY SeqFacts DEF Range
    <2>2. \A k \in 1 .. Len(ss[i]) : ss[i][k] \in S
      BY <2>1
    <2> HIDE DEF S
    <2>3. QED BY <2>2, SeqFacts
  <1> HIDE DEF S
  <1>2. FlattenSeq(ss) \in Seq(S)
    BY <1>1, FlattenType
  <1>3. QED BY <1>2, SeqIs

LEMMA FlattenAppend ==
    ASSUME NEW ss, IsSeq(ss), NEW s, IsSeq(s)
    PROVE  FlattenSeq(Append(ss, s)) = FlattenSeq(ss) \o s
  <1> DEFINE tt == Append(ss, s)  n == Len(ss)
  <1>1. /\ IsSeq(tt) /\ Len(tt) = n + 1 /\ tt[n + 1] = s /\ \A i \in 1 .. n : tt[i] = ss[i]
        /\ n \in Nat
    BY AppendIs, SeqFacts
  <1> HIDE DEF tt
  <1>2. tt # <<>>
    BY <1>1, EmptyIs
  <1>3. PICK G : Flattens(G, tt, n + 1) /\ FlattenSeq(tt) = G[n + 1]
    BY <1>1, <1>2, FlattenIs
  <1>4. \A i \in 1 .. n + 1 : G[i] = IF i = 1 THEN tt[i] ELSE G[i - 1] \o tt[i]
    BY <1>3 DEF Flattens
  <1>5. CASE ss = <<>>
    <2>1. n = 0
      BY <1>5, EmptyIs
    <2>2. FlattenSeq(tt) = s
      BY <1>1, <1>3, <1>4, <2>1
    <2>3. QED BY <1>5, <2>2, FlattenEmpty, ConcatEmpty DEF tt
  <1>6. CASE ss # <<>>
    <2>1. PICK F : Flattens(F, ss, n) /\ FlattenSeq(ss) = F[n]
      BY <1>6, FlattenIs
    <2>2. n # 0
      BY <1>6, EmptyIs
    <2>3. F[n] = G[n]
      <3>1. n <= n + 1 /\ n + 1 \in Nat /\ n \in 1 .. n
        BY <1>1, <2>2
      <3>2. QED BY <1>1, <1>3, <2>1, <3>1, FlattensSame
    <2>4. n + 1 # 1 /\ (n + 1) - 1 = n /\ n + 1 \in 1 .. n + 1
      BY <1>1, <2>2
    <2>5. G[n + 1] = G[n] \o s
      BY <1>1, <1>4, <2>4
    <2>6. QED BY <1>3, <2>1, <2>3, <2>5 DEF tt
  <1>7. QED BY <1>5, <1>6

\* The flattening depends on the sequences only.
LEMMA FlattenNothing ==
    ASSUME NEW ss, IsSeq(ss), \A i \in 1 .. Len(ss) : ss[i] = <<>>
    PROVE  FlattenSeq(ss) = <<>>
  <1>1. \A i \in 1 .. Len(ss) : ss[i] \in Seq({})
    <2>1. <<>> \in Seq({})
      OBVIOUS
    <2>2. QED BY <2>1
  <1>2. FlattenSeq(ss) \in Seq({})
    BY <1>1, FlattenType
  <1>3. QED BY <1>2

\* Where all but the last of the sequences are empty.
LEMMA FlattenLast ==
    ASSUME NEW ss, IsSeq(ss), ss # <<>>, \A i \in 1 .. Len(ss) - 1 : ss[i] = <<>>, IsSeq(ss[Len(ss)])
    PROVE  FlattenSeq(ss) = ss[Len(ss)]
  <1> DEFINE n == Len(ss)  tt == [i \in 1 .. n - 1 |-> <<>>]  s == ss[n]
  <1>1. n \in Nat /\ n # 0 /\ n - 1 \in Nat
    BY SeqFacts, EmptyIs
  <1>2. IsSeq(tt) /\ Len(tt) = n - 1 /\ \A i \in 1 .. n - 1 : tt[i] = <<>>
    <2>1. tt = [i \in 1 .. n - 1 |-> tt[i]] /\ \A i \in 1 .. n - 1 : tt[i] = <<>>
      OBVIOUS
    <2> HIDE DEF tt
    <2>2. QED BY <1>1, <2>1, FcnIsSeq
  <1> HIDE DEF tt
  <1>3. ss = Append(tt, s)
    <2> DEFINE uu == Append(tt, s)
    <2>1. /\ IsSeq(uu) /\ Len(uu) = (n - 1) + 1 /\ uu[(n - 1) + 1] = s
          /\ \A i \in 1 .. n - 1 : uu[i] = tt[i]
      BY <1>2, AppendIs
    <2> HIDE DEF uu
    <2>2. \A i \in 1 .. n : uu[i] = ss[i]
      BY <1>1, <1>2, <2>1
    <2>3. ss = uu
      BY <1>1, <2>1, <2>2, SeqEq
    <2>4. QED BY <2>3 DEF uu
  <1>4. FlattenSeq(tt) = <<>>
    BY <1>2, FlattenNothing
  <1>5. IsSeq(s) /\ FlattenSeq(ss) = FlattenSeq(tt) \o s
    BY <1>2, <1>3, FlattenAppend
  <1>6. QED BY <1>4, <1>5, ConcatEmpty

-----------------------------------------------------------------------------
(* The elements that are kept, and what a function makes of each.          *)

\* The first m elements of a sequence, and a sequence with a function applied to each.
Upto(s, m)   == [i \in 1 .. m |-> s[i]]
Mapped(f, s) == [i \in 1 .. Len(s) |-> f[s[i]]]

LEMMA UptoIs ==
    ASSUME NEW s, IsSeq(s), NEW m \in 0 .. Len(s)
    PROVE  /\ IsSeq(Upto(s, m)) /\ Len(Upto(s, m)) = m /\ \A i \in 1 .. m : Upto(s, m)[i] = s[i]
           /\ m < Len(s) => Upto(s, m + 1) = Append(Upto(s, m), s[m + 1])
           /\ Upto(s, 0) = <<>> /\ Upto(s, Len(s)) = s
  <1>0. Len(s) \in Nat /\ m \in Nat
    BY SeqFacts
  <1>1. ASSUME NEW n \in Nat
        PROVE  IsSeq(Upto(s, n)) /\ Len(Upto(s, n)) = n /\ \A i \in 1 .. n : Upto(s, n)[i] = s[i]
    <2> DEFINE u == Upto(s, n)
    <2>1. u = [i \in 1 .. n |-> u[i]] /\ \A i \in 1 .. n : u[i] = s[i]
      BY DEF Upto
    <2> HIDE DEF u
    <2>2. IsSeq(u) /\ Len(u) = n
      BY <2>1, FcnIsSeq
    <2>3. QED BY <2>1, <2>2 DEF u
  <1>2. ASSUME m < Len(s) PROVE Upto(s, m + 1) = Append(Upto(s, m), s[m + 1])
    <2> DEFINE u == Upto(s, m)  w == Upto(s, m + 1)  a == Append(u, s[m + 1])
    <2>1. IsSeq(u) /\ Len(u) = m /\ \A i \in 1 .. m : u[i] = s[i]
      BY <1>0, <1>1
    <2>2. IsSeq(w) /\ Len(w) = m + 1 /\ \A i \in 1 .. m + 1 : w[i] = s[i]
      BY <1>0, <1>1
    <2> HIDE DEF u, w
    <2>3. IsSeq(a) /\ Len(a) = m + 1 /\ a[m + 1] = s[m + 1] /\ \A i \in 1 .. m : a[i] = u[i]
      BY <2>1, AppendIs
    <2> HIDE DEF a
    <2>4. \A i \in 1 .. m + 1 : w[i] = a[i]
      BY <1>0, <2>1, <2>2, <2>3
    <2>5. w = a
      BY <2>2, <2>3, <2>4, SeqEq
    <2>6. QED BY <2>5 DEF u, w, a
  <1>3. Upto(s, 0) = <<>>
    BY <1>1, EmptyIs
  <1>4. Upto(s, Len(s)) = s
    BY <1>0, <1>1, SeqEq
  <1>5. QED BY <1>0, <1>1, <1>2, <1>3, <1>4

LEMMA MappedIs ==
    ASSUME NEW f, NEW s, IsSeq(s)
    PROVE  IsSeq(Mapped(f, s)) /\ Len(Mapped(f, s)) = Len(s) /\ \A i \in 1 .. Len(s) : Mapped(f, s)[i] = f[s[i]]
  <1> DEFINE u == Mapped(f, s)
  <1>1. u = [i \in 1 .. Len(s) |-> u[i]] /\ \A i \in 1 .. Len(s) : u[i] = f[s[i]]
    BY DEF Mapped
  <1>2. Len(s) \in Nat
    BY SeqFacts
  <1> HIDE DEF u
  <1>3. IsSeq(u) /\ Len(u) = Len(s)
    BY <1>1, <1>2, FcnIsSeq
  <1>4. QED BY <1>1, <1>3 DEF u

LEMMA MapConcat ==
    ASSUME NEW f, NEW s, IsSeq(s), NEW t, IsSeq(t)
    PROVE  Mapped(f, s \o t) = Mapped(f, s) \o Mapped(f, t)
  <1> DEFINE st == s \o t  a == Mapped(f, s)  b == Mapped(f, t)  u == Mapped(f, st)  v == a \o b
  <1>0. Len(s) \in Nat /\ Len(t) \in Nat
    BY SeqFacts
  <1>1. /\ IsSeq(st) /\ Len(st) = Len(s) + Len(t)
        /\ \A i \in 1 .. Len(s) + Len(t) : st[i] = IF i <= Len(s) THEN s[i] ELSE t[i - Len(s)]
    BY ConcatIs
  <1>2. /\ IsSeq(a) /\ Len(a) = Len(s) /\ \A i \in 1 .. Len(s) : a[i] = f[s[i]]
        /\ IsSeq(b) /\ Len(b) = Len(t) /\ \A i \in 1 .. Len(t) : b[i] = f[t[i]]
    BY MappedIs
  <1> HIDE DEF st, a, b
  <1>3. IsSeq(u) /\ Len(u) = Len(s) + Len(t) /\ \A i \in 1 .. Len(s) + Len(t) : u[i] = f[st[i]]
    BY <1>1, MappedIs
  <1>4. /\ IsSeq(v) /\ Len(v) = Len(s) + Len(t)
        /\ \A i \in 1 .. Len(s) + Len(t) : v[i] = IF i <= Len(s) THEN a[i] ELSE b[i - Len(s)]
    <2>1. /\ IsSeq(v) /\ Len(v) = Len(a) + Len(b)
          /\ \A i \in 1 .. Len(a) + Len(b) : v[i] = IF i <= Len(a) THEN a[i] ELSE b[i - Len(a)]
      BY <1>2, ConcatIs
    <2> HIDE DEF u, v
    <2>2. QED BY <1>2, <2>1
  <1> HIDE DEF u, v
  <1>5. ASSUME NEW i \in 1 .. Len(s) + Len(t) PROVE u[i] = v[i]
    <2>1. CASE i <= Len(s)
      <3>1. i \in 1 .. Len(s)
        BY <1>0, <2>1
      <3>2. QED BY <1>1, <1>2, <1>3, <1>4, <2>1, <3>1
    <2>2. CASE ~(i <= Len(s))
      <3>1. i - Len(s) \in 1 .. Len(t)
        BY <1>0, <2>2
      <3>2. QED BY <1>1, <1>2, <1>3, <1>4, <2>2, <3>1
    <2>3. QED BY <2>1, <2>2
  <1>6. u = v
    BY <1>3, <1>4, <1>5, SeqEq
  <1>7. QED BY <1>6 DEF u, v, st, a, b

\* A sequence of sequences, flattened up to some element of it.
LEMMA FlattenUpto ==
    ASSUME NEW ss, IsSeq(ss), \A i \in 1 .. Len(ss) : IsSeq(ss[i]), NEW m \in 0 .. Len(ss)
    PROVE  /\ IsSeq(FlattenSeq(Upto(ss, m)))
           /\ m < Len(ss) => FlattenSeq(Upto(ss, m + 1)) = FlattenSeq(Upto(ss, m)) \o ss[m + 1]
           /\ FlattenSeq(Upto(ss, 0)) = <<>> /\ FlattenSeq(Upto(ss, Len(ss))) = FlattenSeq(ss)
  <1>0. Len(ss) \in Nat /\ m \in Nat
    BY SeqFacts
  <1>1. /\ IsSeq(Upto(ss, m)) /\ Len(Upto(ss, m)) = m /\ \A i \in 1 .. m : Upto(ss, m)[i] = ss[i]
        /\ m < Len(ss) => Upto(ss, m + 1) = Append(Upto(ss, m), ss[m + 1])
        /\ Upto(ss, 0) = <<>> /\ Upto(ss, Len(ss)) = ss
    BY UptoIs
  <1>2. IsSeq(FlattenSeq(Upto(ss, m)))
    <2>1. \A i \in 1 .. m : IsSeq(Upto(ss, m)[i])
      BY <1>0, <1>1
    <2>2. QED BY <1>1, <2>1, FlattenIsSeq
  <1>3. ASSUME m < Len(ss) PROVE FlattenSeq(Upto(ss, m + 1)) = FlattenSeq(Upto(ss, m)) \o ss[m + 1]
    <2>1. IsSeq(ss[m + 1])
      BY <1>0, <1>3
    <2>2. FlattenSeq(Append(Upto(ss, m), ss[m + 1])) = FlattenSeq(Upto(ss, m)) \o ss[m + 1]
      BY <1>1, <2>1, FlattenAppend
    <2>3. QED BY <1>1, <1>3, <2>2
  <1>4. QED BY <1>1, <1>2, <1>3, FlattenEmpty

LEMMA CountUp ==
    ASSUME NEW n \in Nat, NEW T, 0 \in T, \A m \in 0 .. n : m < n /\ m \in T => m + 1 \in T
    PROVE  n \in T
  <1> DEFINE U == {m \in Nat : m <= n => m \in T}
  <1>1. 0 \in U
    OBVIOUS
  <1>2. ASSUME NEW m \in Nat, m \in U PROVE m + 1 \in U
    <2>1. CASE m + 1 <= n
      <3>1. m \in 0 .. n /\ m < n /\ m \in T
        BY <1>2, <2>1
      <3>2. QED BY <3>1
    <2>2. CASE ~(m + 1 <= n)
      BY <2>2
    <2>3. QED BY <2>1, <2>2
  <1> HIDE DEF U
  <1>3. n \in U
    BY <1>1, <1>2, Induction
  <1>4. QED BY <1>3 DEF U

LEMMA MapFlatten ==
    ASSUME NEW f, NEW ss, IsSeq(ss), \A i \in 1 .. Len(ss) : IsSeq(ss[i])
    PROVE  LET mm == [i \in 1 .. Len(ss) |-> Mapped(f, ss[i])] IN
           /\ IsSeq(mm) /\ Len(mm) = Len(ss) /\ \A i \in 1 .. Len(ss) : IsSeq(mm[i])
           /\ Mapped(f, FlattenSeq(ss)) = FlattenSeq(mm)
  <1> DEFINE mm == [i \in 1 .. Len(ss) |-> Mapped(f, ss[i])]
  <1>0. Len(ss) \in Nat
    BY SeqFacts
  <1>1. /\ IsSeq(mm) /\ Len(mm) = Len(ss) /\ \A i \in 1 .. Len(ss) : mm[i] = Mapped(f, ss[i])
    <2>1. mm = [i \in 1 .. Len(ss) |-> mm[i]] /\ \A i \in 1 .. Len(ss) : mm[i] = Mapped(f, ss[i])
      OBVIOUS
    <2> HIDE DEF mm
    <2>2. QED BY <1>0, <2>1, FcnIsSeq
  <1> HIDE DEF mm
  <1>2. \A i \in 1 .. Len(ss) : IsSeq(mm[i])
    BY <1>1, MappedIs
  <1> DEFINE T == {m \in 0 .. Len(ss) : Mapped(f, FlattenSeq(Upto(ss, m))) = FlattenSeq(Upto(mm, m))}
  <1>3. 0 \in T
    <2>1. FlattenSeq(Upto(ss, 0)) = <<>> /\ FlattenSeq(Upto(mm, 0)) = <<>> /\ 0 \in 0 .. Len(ss)
      BY <1>0, <1>1, <1>2, FlattenUpto
    <2>2. Mapped(f, <<>>) = <<>>
      BY MappedIs, EmptyIs
    <2>3. QED BY <2>1, <2>2
  <1>4. ASSUME NEW m \in 0 .. Len(ss), m < Len(ss), m \in T PROVE m + 1 \in T
    <2> DEFINE a == FlattenSeq(Upto(ss, m))
    <2>1. IsSeq(a) /\ FlattenSeq(Upto(ss, m + 1)) = a \o ss[m + 1]
      BY <1>4, FlattenUpto
    <2>2. FlattenSeq(Upto(mm, m + 1)) = FlattenSeq(Upto(mm, m)) \o mm[m + 1]
      BY <1>1, <1>2, <1>4, FlattenUpto
    <2>3. m + 1 \in 1 .. Len(ss) /\ m + 1 \in 0 .. Len(ss) /\ Mapped(f, a) = FlattenSeq(Upto(mm, m))
      BY <1>0, <1>4
    <2> HIDE DEF a
    <2>4. Mapped(f, a \o ss[m + 1]) = Mapped(f, a) \o Mapped(f, ss[m + 1])
      BY <2>1, <2>3, MapConcat
    <2>5. QED BY <1>1, <2>1, <2>2, <2>3, <2>4
  <1>5. Len(ss) \in T
    <2> HIDE DEF T
    <2>1. QED BY <1>0, <1>3, <1>4, CountUp
  <1>6. Mapped(f, FlattenSeq(ss)) = FlattenSeq(mm)
    <2>1. FlattenSeq(Upto(ss, Len(ss))) = FlattenSeq(ss) /\ FlattenSeq(Upto(mm, Len(ss))) = FlattenSeq(mm)
      <3>1. Len(ss) \in 0 .. Len(ss)
        BY <1>0
      <3>2. QED BY <1>1, <1>2, <3>1, FlattenUpto
    <2>2. QED BY <1>5, <2>1
  <1>7. QED BY <1>1, <1>2, <1>6 DEF mm

LEMMA SingleIs == ASSUME NEW x PROVE IsSeq(<<x>>) /\ Len(<<x>>) = 1 /\ <<x>>[1] = x
  <1>1. <<x>> \in Seq({x}) /\ Len(<<x>>) = 1 /\ <<x>>[1] = x
    OBVIOUS
  <1>2. QED BY <1>1, SeqIs

\* The elements of s at the places K, and what f makes of the first of them.
Kept(s, K) == [i \in 1 .. Len(s) |-> IF i \in K THEN <<s[i]>> ELSE <<>>]

LEMMA KeptIs ==
    ASSUME NEW s, IsSeq(s), NEW K
    PROVE  /\ IsSeq(Kept(s, K)) /\ Len(Kept(s, K)) = Len(s) /\ IsSeq(FlattenSeq(Kept(s, K)))
           /\ \A i \in 1 .. Len(s) : /\ Kept(s, K)[i] = IF i \in K THEN <<s[i]>> ELSE <<>>
                                     /\ IsSeq(Kept(s, K)[i])
  <1> DEFINE u == Kept(s, K)
  <1>1. u = [i \in 1 .. Len(s) |-> u[i]] /\ \A i \in 1 .. Len(s) : u[i] = IF i \in K THEN <<s[i]>> ELSE <<>>
    BY DEF Kept
  <1>2. Len(s) \in Nat
    BY SeqFacts
  <1> HIDE DEF u
  <1>3. IsSeq(u) /\ Len(u) = Len(s)
    BY <1>1, <1>2, FcnIsSeq
  <1>4. \A i \in 1 .. Len(s) : IsSeq(u[i])
    BY <1>1, SingleIs, EmptyIs
  <1>5. IsSeq(FlattenSeq(u))
    BY <1>3, <1>4, FlattenIsSeq
  <1>6. QED BY <1>1, <1>3, <1>4, <1>5 DEF u

\* What is in the flattening of Kept are the elements that are kept.
LEMMA KeptElements ==
    ASSUME NEW s, IsSeq(s), NEW K
    PROVE  /\ \A i \in 1 .. Len(FlattenSeq(Kept(s, K))) :
                  \E k \in 1 .. Len(s) : k \in K /\ FlattenSeq(Kept(s, K))[i] = s[k]
           /\ \A k \in 1 .. Len(s) : k \in K =>
                  \E i \in 1 .. Len(FlattenSeq(Kept(s, K))) : FlattenSeq(Kept(s, K))[i] = s[k]
  <1> DEFINE u == Kept(s, K)
             Has(a, k) == \E i \in 1 .. Len(a) : a[i] = s[k]
             Of(a, m) == \A i \in 1 .. Len(a) : \E k \in 1 .. m : k \in K /\ a[i] = s[k]
             T == {m \in 0 .. Len(s) : /\ Of(FlattenSeq(Upto(u, m)), m)
                                       /\ \A k \in 1 .. m : k \in K => Has(FlattenSeq(Upto(u, m)), k)}
  <1>0. Len(s) \in Nat
    BY SeqFacts
  <1>1. /\ IsSeq(u) /\ Len(u) = Len(s)
        /\ \A i \in 1 .. Len(s) : u[i] = IF i \in K THEN <<s[i]>> ELSE <<>>
        /\ \A i \in 1 .. Len(s) : IsSeq(u[i])
    BY KeptIs
  <1> HIDE DEF u
  <1>2. 0 \in T
    <2>1. FlattenSeq(Upto(u, 0)) = <<>> /\ 0 \in 0 .. Len(s)
      BY <1>0, <1>1, FlattenUpto
    <2>2. QED BY <2>1, EmptyIs
  <1>3. ASSUME NEW m \in 0 .. Len(s), m < Len(s), m \in T PROVE m + 1 \in T
    <2> DEFINE a == FlattenSeq(Upto(u, m))  b == FlattenSeq(Upto(u, m + 1))  x == u[m + 1]
    <2>1. IsSeq(a) /\ b = a \o x
      BY <1>1, <1>3, FlattenUpto
    <2>2. m \in Nat /\ m + 1 \in 1 .. Len(s) /\ m + 1 \in 0 .. Len(s)
      BY <1>0, <1>3
    <2>3. Of(a, m) /\ \A k \in 1 .. m : k \in K => Has(a, k)
      BY <1>3
    <2>4. x = IF m + 1 \in K THEN <<s[m + 1]>> ELSE <<>>
      BY <1>1, <2>2
    <2> HIDE DEF a, b, x
    <2>5. CASE m + 1 \in K
      <3>1. b = Append(a, s[m + 1])
        BY <2>1, <2>4, <2>5, ConcatOne
      <3>2. /\ Len(b) = Len(a) + 1 /\ b[Len(a) + 1] = s[m + 1] /\ \A i \in 1 .. Len(a) : b[i] = a[i]
            /\ Len(a) \in Nat
        BY <2>1, <3>1, AppendIs, SeqFacts
      <3>3. Of(b, m + 1)
        <4>1. ASSUME NEW i \in 1 .. Len(b) PROVE \E k \in 1 .. m + 1 : k \in K /\ b[i] = s[k]
          <5>1. CASE i = Len(a) + 1
            BY <2>2, <2>5, <3>2, <5>1
          <5>2. CASE i # Len(a) + 1
            <6>1. i \in 1 .. Len(a)
              BY <3>2, <5>2
            <6>2. PICK k \in 1 .. m : k \in K /\ a[i] = s[k]
              BY <2>3, <6>1
            <6>3. k \in 1 .. m + 1 /\ b[i] = a[i]
              BY <2>2, <3>2, <6>1
            <6>4. QED BY <6>2, <6>3
          <5>3. QED BY <5>1, <5>2
        <4>2. QED BY <4>1
      <3>4. ASSUME NEW k \in 1 .. m + 1, k \in K PROVE Has(b, k)
        <4>1. CASE k = m + 1
          BY <3>2, <4>1
        <4>2. CASE k # m + 1
          <5>1. PICK i \in 1 .. Len(a) : a[i] = s[k]
            BY <2>2, <2>3, <3>4, <4>2
          <5>2. QED BY <3>2, <5>1
        <4>3. QED BY <4>1, <4>2
      <3>5. QED BY <2>2, <3>3, <3>4 DEF b
    <2>6. CASE m + 1 \notin K
      <3>1. b = a
        BY <2>1, <2>4, <2>6, ConcatEmpty
      <3>2. Of(b, m + 1) /\ \A k \in 1 .. m + 1 : k \in K => Has(b, k)
        BY <2>2, <2>3, <2>6, <3>1
      <3>3. QED BY <2>2, <3>2 DEF b
    <2>7. QED BY <2>5, <2>6
  <1>4. Len(s) \in T
    <2> HIDE DEF T
    <2>1. QED BY <1>0, <1>2, <1>3, CountUp
  <1>5. FlattenSeq(Upto(u, Len(s))) = FlattenSeq(u)
    <2>1. Len(s) \in 0 .. Len(u)
      BY <1>0, <1>1
    <2>2. QED BY <1>1, <2>1, FlattenUpto
  <1>6. QED BY <1>4, <1>5 DEF u

-----------------------------------------------------------------------------
(* Sums over finite sets.                                                  *)

\* g adds up the weights w of each subset of S, as MapThenSumSet does: one chosen
\* element and then the others.
One(s) == CHOOSE x \in s : TRUE
Adds(g, w, D) == g = [s \in D |-> IF s = {} THEN 0 ELSE w[One(s)] + g[s \ {One(s)}]]
AddsUp(g, w, S) == Adds(g, w, SUBSET S)
IsSum(w, S, v)  == \E g : AddsUp(g, w, S) /\ v = g[S]
Weights(w, S)   == \A x \in S : w[x] \in Nat
SameOn(w, z, S) == \A x \in S : w[x] = z[x]

LEMMA OneIs ==
    ASSUME NEW s, s # {}, IsFiniteSet(s)
    PROVE  /\ One(s) \in s /\ IsFiniteSet(s \ {One(s)})
           /\ Cardinality(s) \in Nat /\ Cardinality(s) # 0
           /\ Cardinality(s \ {One(s)}) = Cardinality(s) - 1
  <1>1. One(s) \in s
    BY DEF One
  <1>2. Cardinality(s) \in Nat /\ Cardinality(s) # 0
    BY FS_CardinalityType, FS_EmptySet
  <1>3. QED BY <1>1, <1>2, FS_RemoveElement

\* The subsets of at most n elements.
Small(S, n) == {s \in SUBSET S : Cardinality(s) <= n}

LEMMA SmallSumsExist ==
    ASSUME NEW S, IsFiniteSet(S), NEW w, NEW m \in Nat
    PROVE  \E g : Adds(g, w, Small(S, m))
  <1> DEFINE T == {n \in Nat : \E g : Adds(g, w, Small(S, n))}
  <1>1. \A s \in SUBSET S : IsFiniteSet(s) /\ Cardinality(s) \in Nat /\ (Cardinality(s) = 0 <=> s = {})
    BY FS_Subset, FS_CardinalityType, FS_EmptySet
  <1>2. 0 \in T
    <2> DEFINE g == [s \in Small(S, 0) |-> 0]
    <2>1. \A s \in Small(S, 0) : s = {}
      BY <1>1 DEF Small
    <2>2. g = [s \in Small(S, 0) |-> IF s = {} THEN 0 ELSE w[One(s)] + g[s \ {One(s)}]]
      BY <2>1
    <2> HIDE DEF g
    <2>3. QED BY <2>2 DEF Adds
  <1>3. ASSUME NEW n \in Nat, n \in T
        PROVE  n + 1 \in T
    <2>1. PICK f : Adds(f, w, Small(S, n))
      BY <1>3
    <2> DEFINE g == [s \in Small(S, n + 1) |-> IF s = {} THEN 0 ELSE w[One(s)] + f[s \ {One(s)}]]
    <2>2. \A s \in Small(S, n) : s \in Small(S, n + 1) /\ g[s] = f[s]
      <3>1. \A s \in Small(S, n) : s \in Small(S, n + 1)
        BY <1>1 DEF Small
      <3>2. \A s \in Small(S, n) : f[s] = IF s = {} THEN 0 ELSE w[One(s)] + f[s \ {One(s)}]
        BY <2>1 DEF Adds
      <3>3. QED BY <3>1, <3>2
    <2>3. \A s \in Small(S, n + 1) : s # {} => s \ {One(s)} \in Small(S, n)
      <3>1. SUFFICES ASSUME NEW s \in Small(S, n + 1), s # {} PROVE s \ {One(s)} \in Small(S, n)
        OBVIOUS
      <3>2. IsFiniteSet(s) /\ s \in SUBSET S /\ Cardinality(s) <= n + 1
        BY <1>1 DEF Small
      <3>3. s \ {One(s)} \in SUBSET S /\ Cardinality(s \ {One(s)}) <= n
        <4>1. Cardinality(s \ {One(s)}) = Cardinality(s) - 1 /\ Cardinality(s) \in Nat
          BY <3>1, <3>2, OneIs
        <4>2. QED BY <3>2, <4>1
      <3>4. QED BY <3>3 DEF Small
    <2>4. g = [s \in Small(S, n + 1) |-> IF s = {} THEN 0 ELSE w[One(s)] + g[s \ {One(s)}]]
      BY <2>2, <2>3
    <2> HIDE DEF g
    <2>5. Adds(g, w, Small(S, n + 1))
      BY <2>4 DEF Adds
    <2>6. QED BY <2>5
  <1> HIDE DEF T
  <1>4. m \in T
    BY <1>2, <1>3, Induction
  <1>5. QED BY <1>4 DEF T

LEMMA SumsExist ==
    ASSUME NEW S, IsFiniteSet(S), NEW w
    PROVE  \E g : AddsUp(g, w, S)
  <1>1. Cardinality(S) \in Nat /\ \A s \in SUBSET S : Cardinality(s) <= Cardinality(S)
    BY FS_Subset, FS_CardinalityType
  <1>2. Small(S, Cardinality(S)) = SUBSET S
    BY <1>1 DEF Small
  <1>3. QED BY <1>1, <1>2, SmallSumsExist DEF AddsUp

\* In whatever order the elements are taken.
LEMMA AnyOrder ==
    ASSUME NEW S, IsFiniteSet(S), NEW w, Weights(w, S), NEW g, AddsUp(g, w, S)
    PROVE  \A s \in SUBSET S : g[s] \in Nat /\ \A x \in s : g[s] = w[x] + g[s \ {x}]
  <1> DEFINE T == {n \in Nat : \A s \in SUBSET S : Cardinality(s) <= n =>
                                   g[s] \in Nat /\ \A x \in s : g[s] = w[x] + g[s \ {x}]}
  <1>1. \A s \in SUBSET S : IsFiniteSet(s) /\ Cardinality(s) \in Nat /\ (Cardinality(s) = 0 <=> s = {})
    BY FS_Subset, FS_CardinalityType, FS_EmptySet
  <1>2. \A s \in SUBSET S : g[s] = IF s = {} THEN 0 ELSE w[One(s)] + g[s \ {One(s)}]
    BY DEF AddsUp, Adds
  <1>3. 0 \in T
    BY <1>1, <1>2
  <1>4. ASSUME NEW n \in Nat, n \in T
        PROVE  n + 1 \in T
    <2>0. g[{}] = 0
      BY <1>2
    <2>1. SUFFICES ASSUME NEW s \in SUBSET S, Cardinality(s) <= n + 1, s # {}
                   PROVE  g[s] \in Nat /\ \A x \in s : g[s] = w[x] + g[s \ {x}]
      <3>1. ASSUME NEW s \in SUBSET S, Cardinality(s) <= n + 1
            PROVE  g[s] \in Nat /\ \A x \in s : g[s] = w[x] + g[s \ {x}]
        <4>1. CASE s = {}
          <5>1. g[s] = 0
            BY <2>0, <4>1
          <5>2. QED BY <4>1, <5>1
        <4>2. CASE s # {}
          BY <2>1, <3>1, <4>2
        <4>3. QED BY <4>1, <4>2
      <3>2. QED BY <3>1
    <2> DEFINE c == One(s)
    <2>2. s # {} /\ IsFiniteSet(s)
      BY <1>1, <2>1
    <2>3. c \in s
      BY <2>2, OneIs
    <2>4. \A x \in s : s \ {x} \in SUBSET S /\ Cardinality(s \ {x}) <= n
      BY <1>1, <2>1, <2>2, FS_RemoveElement
    <2> HIDE DEF c
    <2>5. g[s] = w[c] + g[s \ {c}]
      BY <1>2, <2>2 DEF c
    <2>6. \A x \in s : g[s \ {x}] \in Nat /\ \A y \in s \ {x} : g[s \ {x}] = w[y] + g[(s \ {x}) \ {y}]
      BY <1>4, <2>4
    <2>7. w[c] \in Nat /\ g[s] \in Nat
      BY <2>3, <2>5, <2>6 DEF Weights
    <2>8. ASSUME NEW x \in s, x # c
          PROVE  g[s] = w[x] + g[s \ {x}]
      <3>1. (s \ {x}) \ {c} = (s \ {c}) \ {x}
        OBVIOUS
      <3>2. /\ g[s \ {c}] = w[x] + g[(s \ {c}) \ {x}] /\ g[s \ {x}] = w[c] + g[(s \ {c}) \ {x}]
            /\ g[s \ {c}] \in Nat /\ g[s \ {x}] \in Nat
        BY <2>3, <2>6, <2>8, <3>1
      <3>3. g[(s \ {c}) \ {x}] \in Nat /\ w[x] \in Nat
        <4>1. (s \ {c}) \ {x} \in SUBSET S /\ Cardinality((s \ {c}) \ {x}) <= n
          <5>1. /\ s \ {c} \in SUBSET S /\ Cardinality(s \ {c}) <= n
                /\ IsFiniteSet(s \ {c}) /\ Cardinality(s \ {c}) \in Nat /\ x \in s \ {c}
            BY <1>1, <2>3, <2>4, <2>8
          <5>2. Cardinality((s \ {c}) \ {x}) = Cardinality(s \ {c}) - 1
            BY <5>1, FS_RemoveElement
          <5>3. QED BY <5>1, <5>2
        <4>2. QED BY <1>4, <4>1 DEF Weights
      <3>4. QED BY <2>5, <2>7, <3>2, <3>3
    <2>9. QED BY <2>5, <2>7, <2>8
  <1> HIDE DEF T
  <1>5. \A n \in Nat : n \in T
    BY <1>3, <1>4, Induction
  <1>6. QED BY <1>1, <1>5 DEF T

\* A sum is a number, and adding an element adds its weight.
LEMMA SumExists ==
    ASSUME NEW S, IsFiniteSet(S), NEW w
    PROVE  \E v : IsSum(w, S, v)
  BY SumsExist DEF IsSum

LEMMA SumsAgree ==
    ASSUME NEW S, IsFiniteSet(S), NEW R, R \subseteq S, NEW w,
           NEW z, SameOn(z, w, R), NEW g, AddsUp(g, w, S), NEW h, AddsUp(h, z, R)
    PROVE  g[R] = h[R]
  <1> DEFINE T == {n \in Nat : \A s \in SUBSET R : Cardinality(s) <= n => g[s] = h[s]}
  <1>1. \A s \in SUBSET R : /\ s \in SUBSET S /\ IsFiniteSet(s) /\ Cardinality(s) \in Nat
                           /\ (Cardinality(s) = 0 <=> s = {})
    BY FS_Subset, FS_CardinalityType, FS_EmptySet
  <1>2. \A s \in SUBSET R : g[s] = IF s = {} THEN 0 ELSE w[One(s)] + g[s \ {One(s)}]
    BY DEF AddsUp, Adds
  <1>3. \A s \in SUBSET R : h[s] = IF s = {} THEN 0 ELSE z[One(s)] + h[s \ {One(s)}]
    BY DEF AddsUp, Adds
  <1>4. 0 \in T
    <2>1. g[{}] = 0 /\ h[{}] = 0
      BY <1>2, <1>3
    <2>2. \A s \in SUBSET R : Cardinality(s) <= 0 => s = {}
      BY <1>1
    <2>3. \A s \in SUBSET R : Cardinality(s) <= 0 => g[s] = h[s]
      BY <2>1, <2>2
    <2>4. QED BY <2>3
  <1>5. ASSUME NEW n \in Nat, n \in T
        PROVE  n + 1 \in T
    <2>1. ASSUME NEW s \in SUBSET R, Cardinality(s) <= n + 1, s # {}
          PROVE  g[s] = h[s]
      <3> DEFINE c == One(s)
      <3>1. c \in s /\ Cardinality(s \ {c}) = Cardinality(s) - 1 /\ Cardinality(s) \in Nat
        BY <1>1, <2>1, OneIs
      <3>2. g[s] = w[c] + g[s \ {c}] /\ h[s] = z[c] + h[s \ {c}]
        BY <1>2, <1>3, <2>1
      <3> HIDE DEF c
      <3>3. s \ {c} \in SUBSET R /\ Cardinality(s \ {c}) <= n
        BY <2>1, <3>1
      <3>4. g[s \ {c}] = h[s \ {c}]
        BY <1>5, <3>3
      <3>5. QED BY <3>1, <3>2, <3>4 DEF SameOn
    <2>2. \A s \in SUBSET R : Cardinality(s) <= n + 1 => g[s] = h[s]
      BY <1>2, <1>3, <2>1
    <2>3. QED BY <2>2
  <1> HIDE DEF T
  <1>6. Cardinality(R) \in T /\ R \in SUBSET R
    BY <1>1, <1>4, <1>5, Induction
  <1>7. QED BY <1>1, <1>6 DEF T

LEMMA SumGrows ==
    ASSUME NEW S, IsFiniteSet(S), NEW x, x \notin S, NEW R, R = S \cup {x},
           NEW w, NEW z, Weights(z, R), SameOn(w, z, S),
           NEW v, IsSum(w, S, v), NEW u, IsSum(z, R, u)
    PROVE  v \in Nat /\ u = z[x] + v
  <1>1. PICK g : AddsUp(g, w, S) /\ v = g[S]
    BY DEF IsSum
  <1>2. PICK h : AddsUp(h, z, R) /\ u = h[R]
    BY DEF IsSum
  <1>3. IsFiniteSet(R) /\ S \subseteq R /\ x \in R /\ R \ {x} = S
    BY FS_AddElement
  <1>4. h[S] = g[S]
    BY <1>1, <1>2, <1>3, SumsAgree
  <1>5. \A s \in SUBSET R : h[s] \in Nat /\ \A y \in s : h[s] = z[y] + h[s \ {y}]
    BY <1>2, <1>3, AnyOrder
  <1>6. h[S] \in Nat /\ h[R] = z[x] + h[S]
    BY <1>3, <1>5
  <1>7. QED BY <1>1, <1>2, <1>4, <1>5, <1>6

LEMMA SumSame ==
    ASSUME NEW S, IsFiniteSet(S), NEW w, NEW z, SameOn(w, z, S),
           NEW v, IsSum(w, S, v), NEW u, IsSum(z, S, u)
    PROVE  u = v
  <1>1. PICK g : AddsUp(g, w, S) /\ v = g[S]
    BY DEF IsSum
  <1>2. PICK h : AddsUp(h, z, S) /\ u = h[S]
    BY DEF IsSum
  <1>3. h[S] = g[S]
    BY <1>1, <1>2, SumsAgree
  <1>4. QED BY <1>1, <1>2, <1>3

=============================================================================

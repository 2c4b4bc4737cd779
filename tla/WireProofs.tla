----------------------------- MODULE WireProofs -----------------------------
(***************************************************************************)
(* Proofs about Requests and GateClient.  What the turns of a request      *)
(* spell, where its breakpoints and its images are, and that a request has *)
(* the whole conversation in its order, for every conversation of any      *)
(* length, of messages and parts of any number; that the client of the     *)
(* gate hands its caller the lines of an answer as they were sent, for     *)
(* every limit, every body and every way it is cut into reads.  Both rest  *)
(* on the laws of sequences of sequences that are made one.  The library   *)
(* has no induction over sequences that these provers can use: it is had   *)
(* from the least element of a set of numbers.                             *)
(***************************************************************************)
EXTENDS Requests, GateClient, FiniteSetTheorems, SequenceTheorems, WellFoundedInduction, TLAPS

-----------------------------------------------------------------------------
(* Orders, induction.                                                      *)

\* A set of natural numbers has a least.
LEMMA LeastOf ==
    ASSUME NEW S \in SUBSET Nat, S # {}
    PROVE  \E n \in S : \A m \in S : n <= m
<1> DEFINE R == OpToRel(<, Nat)
<1>1. IsWellFoundedOn(R, Nat)
  BY NatLessThanWellFounded
<1>2. \A m, n \in Nat : m < n => <<m, n>> \in R
  <2> SUFFICES ASSUME NEW m \in Nat, NEW n \in Nat, m < n
               PROVE  <<m, n>> \in {ss \in Nat \X Nat : ss[1] < ss[2]}
    BY DEF OpToRel
  <2> QED
    OBVIOUS
<1> HIDE DEF R
<1>3. PICK n \in S : \A m \in S : ~(<<m, n>> \in R)
  BY <1>1, WFMin
<1>4. \A m \in S : ~(m < n)
  BY <1>2, <1>3
<1> QED
  BY <1>4

\* Induction: a set of natural numbers with 0 and every successor of its own has them all.
LEMMA AllNaturals ==
    ASSUME NEW P \in SUBSET Nat, 0 \in P, \A n \in P : n + 1 \in P
    PROVE  \A n \in Nat : n \in P
<1> DEFINE others == Nat \ P
<1>1. SUFFICES ASSUME others # {} PROVE FALSE
  OBVIOUS
<1>2. PICK n \in others : \A m \in others : n <= m
  <2>1. others \in SUBSET Nat
    OBVIOUS
  <2> HIDE DEF others
  <2> QED
    BY <1>1, <2>1, LeastOf
<1>3. n # 0
  OBVIOUS
<1>4. n - 1 \in P
  BY <1>2, <1>3
<1>5. (n - 1) + 1 \in P
  BY <1>4
<1> QED
  BY <1>5

-----------------------------------------------------------------------------
(* Sequences of sequences, flattened.                                      *)

\* The function that FlattenSeq computes by recursion: of the first n sequences.
IsUpTo(f, ss, n) == f = [i \in 1 .. n |-> IF i = 1 THEN ss[i] ELSE f[i - 1] \o ss[i]]

\* There is such a function.
LEMMA UpToExists ==
    ASSUME NEW ss
    PROVE  \A n \in Nat : \E f : IsUpTo(f, ss, n)
<1> DEFINE P == {n \in Nat : \E f : IsUpTo(f, ss, n)}
<1>1. 0 \in P
  <2>1. IsUpTo([i \in 1 .. 0 |-> ss[i]], ss, 0)
    BY DEF IsUpTo
  <2> QED
    BY <2>1
<1>2. ASSUME NEW n \in P PROVE n + 1 \in P
  <2>1. PICK f : IsUpTo(f, ss, n)
    OBVIOUS
  <2> DEFINE g == [i \in 1 .. n + 1 |-> IF i = n + 1 THEN IF i = 1 THEN ss[i] ELSE f[n] \o ss[i] ELSE f[i]]
  <2>2. \A i \in 1 .. n : g[i] = f[i]
    OBVIOUS
  <2>3. \A i \in 1 .. n + 1 : g[i] = IF i = 1 THEN ss[i] ELSE g[i - 1] \o ss[i]
    <3> SUFFICES ASSUME NEW i \in 1 .. n + 1
                 PROVE  g[i] = IF i = 1 THEN ss[i] ELSE g[i - 1] \o ss[i]
      OBVIOUS
    <3>1. CASE i = n + 1
      <4>1. i # 1 => i - 1 \in 1 .. n /\ i - 1 = n
        BY <3>1
      <4> QED
        BY <3>1, <4>1, <2>2
    <3>2. CASE i # n + 1
      <4>1. i \in 1 .. n
        BY <3>2
      <4>2. f[i] = IF i = 1 THEN ss[i] ELSE f[i - 1] \o ss[i]
        BY <2>1, <4>1 DEF IsUpTo
      <4>3. i # 1 => i - 1 \in 1 .. n
        BY <4>1
      <4> QED
        BY <4>1, <4>2, <4>3, <2>2
    <3> QED
      BY <3>1, <3>2
  <2>4. IsUpTo(g, ss, n + 1)
    <3> DEFINE h == [i \in 1 .. n + 1 |-> IF i = 1 THEN ss[i] ELSE g[i - 1] \o ss[i]]
    <3>1. \A i \in 1 .. n + 1 : g[i] = h[i]
      BY <2>3
    <3>2. g = h
      <4> HIDE DEF IsUpTo
      <4> QED
        BY <3>1
    <3> QED
      BY <3>2 DEF IsUpTo
  <2> QED
    BY <2>4
<1> HIDE DEF P
<1>3. \A n \in Nat : n \in P
  BY <1>1, <1>2, AllNaturals DEF P
<1> QED
  BY <1>3 DEF P

\* It gives sequences, and where two sequences agree it gives the same.
LEMMA UpToTypes ==
    ASSUME NEW S, NEW ss \in Seq(Seq(S)), NEW n \in 0 .. Len(ss), NEW f, IsUpTo(f, ss, n)
    PROVE  \A i \in 1 .. n : f[i] \in Seq(S)
<1> DEFINE P == {k \in Nat : k + 1 <= n => f[k + 1] \in Seq(S)}
<1>0. \A i \in 1 .. n : f[i] = IF i = 1 THEN ss[i] ELSE f[i - 1] \o ss[i]
  BY DEF IsUpTo
<1>1. 0 \in P
  <2>1. n >= 1 => f[1] = ss[1] /\ ss[1] \in Seq(S)
    BY <1>0
  <2> QED
    BY <2>1
<1>2. ASSUME NEW k \in P PROVE k + 1 \in P
  <2>1. ASSUME k + 2 <= n PROVE f[k + 2] \in Seq(S)
    <3>1. k + 2 \in 1 .. n /\ k + 2 # 1 /\ k + 1 <= n /\ (k + 2) - 1 = k + 1
      BY <2>1
    <3>2. f[k + 2] = f[k + 1] \o ss[k + 2]
      BY <3>1, <1>0
    <3>3. f[k + 1] \in Seq(S) /\ ss[k + 2] \in Seq(S)
      BY <3>1
    <3> QED
      BY <3>2, <3>3
  <2> QED
    BY <2>1
<1> HIDE DEF P
<1>3. \A k \in Nat : k \in P
  BY <1>1, <1>2, AllNaturals DEF P
<1> SUFFICES ASSUME NEW i \in 1 .. n PROVE f[i] \in Seq(S)
  OBVIOUS
<1>4. i - 1 \in P
  BY <1>3
<1>5. (i - 1) + 1 = i
  OBVIOUS
<1> QED
  BY <1>4, <1>5 DEF P

\* The functions of two sequences that agree up to n agree up to n.
LEMMA UpToSame ==
    ASSUME NEW S, NEW ss \in Seq(Seq(S)), NEW s \in Seq(S), NEW f, NEW g,
           IsUpTo(f, ss, Len(ss)), IsUpTo(g, Append(ss, s), Len(ss) + 1)
    PROVE  \A i \in 1 .. Len(ss) : f[i] = g[i]
<1> DEFINE n == Len(ss)
           P == {k \in Nat : k + 1 <= n => f[k + 1] = g[k + 1]}
<1>0. /\ \A i \in 1 .. n : f[i] = IF i = 1 THEN ss[i] ELSE f[i - 1] \o ss[i]
      /\ \A i \in 1 .. n : g[i] = IF i = 1 THEN ss[i] ELSE g[i - 1] \o ss[i]
      /\ n \in Nat
  <2>1. \A i \in 1 .. n : i \in 1 .. n + 1 /\ Append(ss, s)[i] = ss[i]
    OBVIOUS
  <2>2. \A i \in 1 .. n : f[i] = IF i = 1 THEN ss[i] ELSE f[i - 1] \o ss[i]
    BY DEF IsUpTo
  <2>3. \A i \in 1 .. n + 1 : g[i] = IF i = 1 THEN Append(ss, s)[i] ELSE g[i - 1] \o Append(ss, s)[i]
    BY DEF IsUpTo
  <2>4. \A i \in 1 .. n : g[i] = IF i = 1 THEN ss[i] ELSE g[i - 1] \o ss[i]
    BY <2>1, <2>3
  <2> QED
    BY <2>2, <2>4
<1> HIDE DEF n
<1>1. 0 \in P
  BY <1>0
<1>2. ASSUME NEW k \in P PROVE k + 1 \in P
  <2>1. ASSUME k + 2 <= n PROVE f[k + 2] = g[k + 2]
    <3>1. k + 2 \in 1 .. n /\ k + 2 # 1 /\ k + 1 <= n /\ (k + 2) - 1 = k + 1
      BY <1>0, <2>1
    <3>2. f[k + 2] = f[k + 1] \o ss[k + 2] /\ g[k + 2] = g[k + 1] \o ss[k + 2]
      BY <3>1, <1>0
    <3> QED
      BY <3>1, <3>2
  <2> QED
    BY <2>1
<1> HIDE DEF P
<1>3. \A k \in Nat : k \in P
  BY <1>1, <1>2, AllNaturals DEF P
<1> SUFFICES ASSUME NEW i \in 1 .. n PROVE f[i] = g[i]
  BY DEF n
<1>4. i - 1 \in P
  BY <1>0, <1>3
<1>5. (i - 1) + 1 = i /\ i <= n
  BY <1>0
<1> QED
  BY <1>4, <1>5 DEF P

\* Flattened: nothing, and one sequence more.
LEMMA FlattenAppend ==
    ASSUME NEW S, NEW ss \in Seq(Seq(S)), NEW s \in Seq(S)
    PROVE  /\ FlattenSeq(<<>>) = <<>>
           /\ FlattenSeq(ss) \in Seq(S)
           /\ FlattenSeq(Append(ss, s)) = FlattenSeq(ss) \o s
<1> DEFINE upto(tt) == CHOOSE f : IsUpTo(f, tt, Len(tt))
<1>1. \A tt \in Seq(Seq(S)) : IsUpTo(upto(tt), tt, Len(tt))
  <2> SUFFICES ASSUME NEW tt \in Seq(Seq(S)) PROVE IsUpTo(upto(tt), tt, Len(tt))
    OBVIOUS
  <2>1. Len(tt) \in Nat
    OBVIOUS
  <2>2. \E f : IsUpTo(f, tt, Len(tt))
    BY <2>1, UpToExists
  <2> QED
    BY <2>2
<1>2. \A tt \in Seq(Seq(S)) : FlattenSeq(tt) = IF Len(tt) = 0 THEN tt ELSE upto(tt)[Len(tt)]
  BY DEF FlattenSeq, IsUpTo
<1> HIDE DEF upto
<1>3. \A tt \in Seq(Seq(S)) : FlattenSeq(tt) \in Seq(S)
  <2> SUFFICES ASSUME NEW tt \in Seq(Seq(S)) PROVE FlattenSeq(tt) \in Seq(S)
    OBVIOUS
  <2>1. CASE Len(tt) = 0
    <3>1. tt = <<>> /\ <<>> \in Seq(S)
      BY <2>1
    <3>2. FlattenSeq(tt) = tt
      BY <1>2, <2>1
    <3> QED
      BY <3>1, <3>2
  <2>2. CASE Len(tt) # 0
    <3>1. Len(tt) \in 1 .. Len(tt) /\ Len(tt) \in 0 .. Len(tt)
      BY <2>2
    <3>2. upto(tt)[Len(tt)] \in Seq(S)
      BY <1>1, <3>1, UpToTypes
    <3> QED
      BY <1>2, <2>2, <3>2
  <2> QED
    BY <2>1, <2>2
<1>4. FlattenSeq(<<>>) = <<>>
  <2>1. <<>> \in Seq(Seq(S)) /\ Len(<<>>) = 0
    OBVIOUS
  <2> QED
    BY <1>2, <2>1
<1> DEFINE all == Append(ss, s)
<1>5. all \in Seq(Seq(S)) /\ Len(all) = Len(ss) + 1 /\ all[Len(ss) + 1] = s
        /\ (\A i \in 1 .. Len(ss) : all[i] = ss[i]) /\ Len(ss) \in Nat
  OBVIOUS
<1> HIDE DEF all
<1>6. FlattenSeq(all) = upto(all)[Len(ss) + 1]
  BY <1>2, <1>5
<1>7. upto(all)[Len(ss) + 1] = IF Len(ss) + 1 = 1 THEN all[Len(ss) + 1]
                               ELSE upto(all)[(Len(ss) + 1) - 1] \o all[Len(ss) + 1]
  <2>1. IsUpTo(upto(all), all, Len(ss) + 1)
    BY <1>1, <1>5
  <2>2. Len(ss) + 1 \in 1 .. Len(ss) + 1
    BY <1>5
  <2> QED
    BY <2>1, <2>2 DEF IsUpTo
<1>8. FlattenSeq(all) = FlattenSeq(ss) \o s
  <2>1. CASE Len(ss) = 0
    <3>1. ss = <<>> /\ FlattenSeq(ss) = <<>>
      BY <2>1, <1>4
    <3>2. FlattenSeq(all) = s
      BY <2>1, <1>5, <1>6, <1>7
    <3> QED
      BY <3>1, <3>2
  <2>2. CASE Len(ss) # 0
    <3>1. Len(ss) + 1 # 1 /\ (Len(ss) + 1) - 1 = Len(ss) /\ Len(ss) \in 1 .. Len(ss)
      BY <2>2, <1>5
    <3>2. FlattenSeq(all) = upto(all)[Len(ss)] \o s
      BY <3>1, <1>5, <1>6, <1>7
    <3>3. upto(ss)[Len(ss)] = upto(all)[Len(ss)]
      <4>1. IsUpTo(upto(ss), ss, Len(ss)) /\ IsUpTo(upto(all), all, Len(ss) + 1)
        BY <1>1, <1>5
      <4>2. Len(ss) <= Len(ss) + 1 /\ Len(ss) + 1 \in Nat /\ Len(ss) \in Nat
        BY <1>5
      <4> DEFINE f == upto(ss)
                 g == upto(all)
      <4>a. IsUpTo(f, ss, Len(ss)) /\ IsUpTo(g, Append(ss, s), Len(ss) + 1)
        BY <4>1 DEF all
      <4>3. \A i \in 1 .. Len(ss) : upto(ss)[i] = upto(all)[i]
        <5> HIDE DEF f, g
        <5>1. \A i \in 1 .. Len(ss) : f[i] = g[i]
          BY <4>2, <4>a, UpToSame
        <5> QED
          BY <5>1 DEF f, g
      <4> QED
        BY <4>3, <3>1
    <3>4. FlattenSeq(ss) = upto(ss)[Len(ss)]
      BY <1>2, <2>2
    <3> QED
      BY <3>2, <3>3, <3>4
  <2> QED
    BY <2>1, <2>2
<1> QED
  BY <1>3, <1>4, <1>8 DEF all

\* A sequence is empty, or it has a last element after the others.
LEMMA LastApart ==
    ASSUME NEW S, NEW s \in Seq(S), NEW n \in Nat, Len(s) = n + 1
    PROVE  /\ SubSeq(s, 1, n) \in Seq(S)
           /\ Len(SubSeq(s, 1, n)) = n
           /\ s[n + 1] \in S
           /\ s = Append(SubSeq(s, 1, n), s[n + 1])
<1>1. SubSeq(s, 1, n) \in Seq(S) /\ Len(SubSeq(s, 1, n)) = n /\ \A i \in 1 .. n : SubSeq(s, 1, n)[i] = s[i]
  <2>1. 1 \in Int /\ n \in Int /\ \A i \in 1 .. n : s[i] \in S
    OBVIOUS
  <2>2. /\ SubSeq(s, 1, n) \in Seq(S)
        /\ Len(SubSeq(s, 1, n)) = IF 1 <= n THEN n - 1 + 1 ELSE 0
        /\ \A i \in 1 .. n - 1 + 1 : SubSeq(s, 1, n)[i] = s[1 + i - 1]
    BY <2>1, SubSeqProperties
  <2> QED
    BY <2>2
<1>2. s[n + 1] \in S
  OBVIOUS
<1> DEFINE t == SubSeq(s, 1, n)
<1> HIDE DEF t
<1>3. t \in Seq(S) /\ Len(t) = n /\ \A i \in 1 .. n : t[i] = s[i]
  BY <1>1 DEF t
<1>4. s = Append(t, s[n + 1])
  <2>1. Append(t, s[n + 1]) \in Seq(S) /\ Len(Append(t, s[n + 1])) = n + 1
    BY <1>2, <1>3
  <2>2. \A i \in 1 .. n + 1 : s[i] = Append(t, s[n + 1])[i]
    BY <1>2, <1>3
  <2> QED
    BY <2>1, <2>2, SeqEqual
<1> QED
  BY <1>1, <1>2, <1>4 DEF t

\* Flattened: one after the other, and one alone.
LEMMA FlattenConcat ==
    ASSUME NEW S, NEW ss \in Seq(Seq(S))
    PROVE  \A tt \in Seq(Seq(S)) : FlattenSeq(ss \o tt) = FlattenSeq(ss) \o FlattenSeq(tt)
<1> DEFINE Good(tt) == FlattenSeq(ss \o tt) = FlattenSeq(ss) \o FlattenSeq(tt)
           P == {n \in Nat : \A tt \in Seq(Seq(S)) : Len(tt) = n => Good(tt)}
<1>1. 0 \in P
  <2> SUFFICES ASSUME NEW tt \in Seq(Seq(S)), Len(tt) = 0 PROVE Good(tt)
    OBVIOUS
  <2>1. tt = <<>> /\ ss \o <<>> = ss
    BY SMTT(30)
  <2>2. <<>> \in Seq(S) /\ FlattenSeq(<<>>) = <<>> /\ FlattenSeq(ss) \in Seq(S)
    BY FlattenAppend
  <2> QED
    BY <2>1, <2>2
<1>2. ASSUME NEW n \in P PROVE n + 1 \in P
  <2> SUFFICES ASSUME NEW tt \in Seq(Seq(S)), Len(tt) = n + 1 PROVE Good(tt)
    OBVIOUS
  <2> DEFINE front == SubSeq(tt, 1, n)
             last == tt[n + 1]
  <2>1. front \in Seq(Seq(S)) /\ Len(front) = n /\ last \in Seq(S) /\ tt = Append(front, last)
    BY LastApart
  <2>2. Good(front)
    BY <2>1
  <2> HIDE DEF front, last
  <2>3. ss \o tt = Append(ss \o front, last) /\ ss \o front \in Seq(Seq(S))
    BY <2>1
  <2>4. FlattenSeq(ss \o tt) = FlattenSeq(ss \o front) \o last
    <3> DEFINE u == ss \o front
    <3>1. u \in Seq(Seq(S)) /\ last \in Seq(S)
      BY <2>1, <2>3
    <3> HIDE DEF u
    <3>2. FlattenSeq(Append(u, last)) = FlattenSeq(u) \o last
      BY <3>1, FlattenAppend
    <3> QED
      BY <2>3, <3>2 DEF u
  <2>5. FlattenSeq(tt) = FlattenSeq(front) \o last
    BY <2>1, FlattenAppend
  <2>6. FlattenSeq(ss) \in Seq(S) /\ FlattenSeq(front) \in Seq(S)
    BY <2>1, FlattenAppend, EmptySeq
  <2>7. (FlattenSeq(ss) \o FlattenSeq(front)) \o last = FlattenSeq(ss) \o (FlattenSeq(front) \o last)
    <3> DEFINE u == FlattenSeq(ss)
               v == FlattenSeq(front)
    <3>1. u \in Seq(S) /\ v \in Seq(S) /\ last \in Seq(S)
      BY <2>1, <2>6
    <3> HIDE DEF u, v
    <3>2. (u \o v) \o last = u \o (v \o last)
      BY ONLY <3>1, SMTT(30)
    <3> QED
      BY <3>2 DEF u, v
  <2> QED
    BY <2>2, <2>4, <2>5, <2>7
<1> HIDE DEF P
<1>3. \A n \in Nat : n \in P
  BY <1>1, <1>2, AllNaturals DEF P
<1> SUFFICES ASSUME NEW tt \in Seq(Seq(S)) PROVE Good(tt)
  OBVIOUS
<1>4. Len(tt) \in P
  BY <1>3
<1> QED
  BY <1>4 DEF P

\* One sequence alone.
LEMMA FlattenOne ==
    ASSUME NEW S, NEW s \in Seq(S)
    PROVE  FlattenSeq(<<s>>) = s
<1>1. <<>> \in Seq(Seq(S)) /\ <<s>> = Append(<<>>, s)
  OBVIOUS
<1>2. FlattenSeq(<<s>>) = FlattenSeq(<<>>) \o s /\ FlattenSeq(<<>>) = <<>>
  BY <1>1, FlattenAppend
<1> QED
  BY <1>2, SMTT(30)

\* Each element alone, then all of them one after the other: the sequence itself.
LEMMA FlattenSingles ==
    ASSUME NEW S
    PROVE  \A s \in Seq(S) : FlattenSeq([i \in DOMAIN s |-> <<s[i]>>]) = s
<1> DEFINE Alone(s) == [i \in DOMAIN s |-> <<s[i]>>]
           P == {n \in Nat : \A s \in Seq(S) : Len(s) = n => FlattenSeq(Alone(s)) = s}
<1>1. 0 \in P
  <2> SUFFICES ASSUME NEW s \in Seq(S), Len(s) = 0 PROVE FlattenSeq(Alone(s)) = s
    OBVIOUS
  <2>1. s = <<>> /\ Alone(<<>>) = <<>>
    OBVIOUS
  <2>2. <<>> \in Seq(S) /\ <<>> \in Seq(Seq(S))
    OBVIOUS
  <2>3. FlattenSeq(<<>>) = <<>>
    BY <2>2, FlattenAppend
  <2> QED
    BY <2>1, <2>3
<1>2. ASSUME NEW n \in P PROVE n + 1 \in P
  <2> SUFFICES ASSUME NEW s \in Seq(S), Len(s) = n + 1 PROVE FlattenSeq(Alone(s)) = s
    OBVIOUS
  <2> DEFINE front == SubSeq(s, 1, n)
             last == s[n + 1]
  <2>1. front \in Seq(S) /\ Len(front) = n /\ last \in S /\ s = Append(front, last)
    BY LastApart
  <2>2. FlattenSeq(Alone(front)) = front
    BY <2>1
  <2> HIDE DEF front, last
  <2>3. Alone(s) = Append(Alone(front), <<last>>) /\ Alone(front) \in Seq(Seq(S)) /\ <<last>> \in Seq(S)
    BY <2>1
  <2>4. FlattenSeq(Alone(s)) = FlattenSeq(Alone(front)) \o <<last>>
    <3> HIDE DEF Alone
    <3> QED
      BY <2>3, FlattenAppend
  <2>5. front \o <<last>> = s
    BY <2>1
  <2> QED
    BY <2>2, <2>4, <2>5
<1> HIDE DEF P
<1>3. \A n \in Nat : n \in P
  BY <1>1, <1>2, AllNaturals DEF P
<1> SUFFICES ASSUME NEW s \in Seq(S) PROVE FlattenSeq(Alone(s)) = s
  OBVIOUS
<1>4. Len(s) \in P
  BY <1>3
<1> QED
  BY <1>4 DEF P

\* The values of g at the elements of a sequence.
Mapped(g, s) == [i \in DOMAIN s |-> g[s[i]]]
Maps(g, A, B) == g \in [A -> B]

\* A function over two sequences, one after the other.
LEMMA OverConcat ==
    ASSUME NEW A, NEW B, NEW g, Maps(g, A, B)
    PROVE  \A s, t \in Seq(A) : /\ Mapped(g, s) \in Seq(B)
                                /\ Mapped(g, s \o t) = Mapped(g, s) \o Mapped(g, t)
<1> SUFFICES ASSUME NEW s \in Seq(A), NEW t \in Seq(A)
             PROVE  /\ Mapped(g, s) \in Seq(B)
                    /\ Mapped(g, s \o t) = Mapped(g, s) \o Mapped(g, t)
  OBVIOUS
<1>1. \A u \in Seq(A) : Mapped(g, u) \in Seq(B) /\ Len(Mapped(g, u)) = Len(u)
                        /\ \A i \in 1 .. Len(u) : Mapped(g, u)[i] = g[u[i]]
  <2> SUFFICES ASSUME NEW u \in Seq(A)
               PROVE  /\ Mapped(g, u) \in Seq(B) /\ Len(Mapped(g, u)) = Len(u)
                      /\ \A i \in 1 .. Len(u) : Mapped(g, u)[i] = g[u[i]]
    OBVIOUS
  <2>1. \A i \in 1 .. Len(u) : g[u[i]] \in B
    BY DEF Maps
  <2>2. Mapped(g, u) = [i \in 1 .. Len(u) |-> g[u[i]]]
    BY DEF Mapped
  <2> QED
    BY <2>1, <2>2
<1>2. s \o t \in Seq(A) /\ Len(s \o t) = Len(s) + Len(t) /\ Len(s) \in Nat /\ Len(t) \in Nat
  OBVIOUS
<1> DEFINE l == Mapped(g, s \o t)
           r == Mapped(g, s) \o Mapped(g, t)
<1>3. l \in Seq(B) /\ Len(l) = Len(s) + Len(t) /\ \A i \in 1 .. Len(s) + Len(t) : l[i] = g[(s \o t)[i]]
  BY <1>1, <1>2
<1>4. r \in Seq(B) /\ Len(r) = Len(s) + Len(t)
        /\ \A i \in 1 .. Len(s) + Len(t) : r[i] = IF i <= Len(s) THEN g[s[i]] ELSE g[t[i - Len(s)]]
  <2> DEFINE x == Mapped(g, s)
             y == Mapped(g, t)
  <2>1. /\ x \in Seq(B) /\ Len(x) = Len(s) /\ \A i \in 1 .. Len(s) : x[i] = g[s[i]]
        /\ y \in Seq(B) /\ Len(y) = Len(t) /\ \A i \in 1 .. Len(t) : y[i] = g[t[i]]
    BY <1>1
  <2> HIDE DEF x, y
  <2>2. x \o y \in Seq(B) /\ Len(x \o y) = Len(s) + Len(t)
    <3>1. x \in Seq(B) /\ y \in Seq(B)
      BY <2>1
    <3>2. x \o y \in Seq(B) /\ Len(x \o y) = Len(x) + Len(y)
      BY ONLY <3>1
    <3> QED
      BY <2>1, <3>2
  <2>3. ASSUME NEW i \in 1 .. Len(s) + Len(t)
        PROVE  (x \o y)[i] = IF i <= Len(s) THEN g[s[i]] ELSE g[t[i - Len(s)]]
    <3>1. (x \o y)[i] = IF i <= Len(s) THEN x[i] ELSE y[i - Len(s)]
      BY <1>2, <2>1
    <3>2. CASE i <= Len(s)
      BY <3>1, <3>2, <2>1
    <3>3. CASE ~(i <= Len(s))
      <4>1. i - Len(s) \in 1 .. Len(t)
        BY <1>2, <3>3
      <4> QED
        BY <3>1, <3>3, <4>1, <2>1
    <3> QED
      BY <3>2, <3>3
  <2> QED
    BY <2>2, <2>3, SMTT(30) DEF x, y
<1>5. \A i \in 1 .. Len(s) + Len(t) : (s \o t)[i] = IF i <= Len(s) THEN s[i] ELSE t[i - Len(s)]
  BY <1>2
<1> HIDE DEF l, r
<1>6. l = r
  BY <1>2, <1>3, <1>4, <1>5, SeqEqual, SMTT(30)
<1> QED
  BY <1>1, <1>6 DEF l, r

\* Sequences made of the elements of sequences: flattened first or last.
LEMMA FlattenOver ==
    ASSUME NEW A, NEW B, NEW g, Maps(g, A, Seq(B))
    PROVE  \A ss \in Seq(Seq(A)) :
               FlattenSeq(Mapped(g, FlattenSeq(ss))) = FlattenSeq([i \in DOMAIN ss |-> FlattenSeq(Mapped(g, ss[i]))])
<1> DEFINE Each(ss) == [i \in DOMAIN ss |-> FlattenSeq(Mapped(g, ss[i]))]
           Good(ss) == FlattenSeq(Mapped(g, FlattenSeq(ss))) = FlattenSeq(Each(ss))
           P == {n \in Nat : \A ss \in Seq(Seq(A)) : Len(ss) = n => Good(ss)}
<1>0. \A s \in Seq(A) : Mapped(g, s) \in Seq(Seq(B)) /\ FlattenSeq(Mapped(g, s)) \in Seq(B)
  <2> SUFFICES ASSUME NEW s \in Seq(A) PROVE Mapped(g, s) \in Seq(Seq(B)) /\ FlattenSeq(Mapped(g, s)) \in Seq(B)
    OBVIOUS
  <2>1. Mapped(g, s) \in Seq(Seq(B))
    BY OverConcat
  <2> QED
    BY <2>1, FlattenAppend, EmptySeq
<1>a. \A s, t \in Seq(A) : Mapped(g, s \o t) = Mapped(g, s) \o Mapped(g, t)
  BY OverConcat
<1>1. 0 \in P
  <2> SUFFICES ASSUME NEW ss \in Seq(Seq(A)), Len(ss) = 0 PROVE Good(ss)
    OBVIOUS
  <2>1. ss = <<>> /\ Each(<<>>) = <<>> /\ Mapped(g, <<>>) = <<>>
    BY DEF Mapped
  <2>2. <<>> \in Seq(A) /\ <<>> \in Seq(Seq(A))
    OBVIOUS
  <2>3. FlattenSeq(<<>>) = <<>>
    BY <2>2, FlattenAppend
  <2> QED
    BY <2>1, <2>3
<1>2. ASSUME NEW n \in P PROVE n + 1 \in P
  <2> SUFFICES ASSUME NEW ss \in Seq(Seq(A)), Len(ss) = n + 1 PROVE Good(ss)
    OBVIOUS
  <2> DEFINE front == SubSeq(ss, 1, n)
             last == ss[n + 1]
             each == FlattenSeq(Mapped(g, last))
             flat == FlattenSeq(front)
  <2>1. front \in Seq(Seq(A)) /\ Len(front) = n /\ last \in Seq(A) /\ ss = Append(front, last)
    BY LastApart
  <2>2. Good(front)
    BY <2>1
  <2> HIDE DEF front, last
  <2>3. Each(ss) = Append(Each(front), each) /\ Each(front) \in Seq(Seq(B)) /\ each \in Seq(B)
    <3>1. each \in Seq(B) /\ \A i \in 1 .. n : FlattenSeq(Mapped(g, front[i])) \in Seq(B)
      BY <1>0, <2>1
    <3>2. Each(front) \in Seq(Seq(B)) /\ Len(Each(front)) = n
            /\ \A i \in 1 .. n : Each(front)[i] = FlattenSeq(Mapped(g, front[i]))
      BY <2>1, <3>1
    <3>3. Len(ss) = n + 1 /\ ss[n + 1] = last /\ \A i \in 1 .. n : ss[i] = front[i]
      BY <2>1
    <3>4. \A i \in 1 .. n + 1 : FlattenSeq(Mapped(g, ss[i])) \in Seq(B)
      BY <1>0
    <3>5. Each(ss) \in Seq(Seq(B)) /\ Len(Each(ss)) = n + 1
            /\ \A i \in 1 .. n + 1 : Each(ss)[i] = FlattenSeq(Mapped(g, ss[i]))
      BY <3>4
    <3> DEFINE x == Each(front)
               y == Each(ss)
    <3> HIDE DEF each, Each
    <3>6. x \in Seq(Seq(B)) /\ Len(x) = n /\ y \in Seq(Seq(B)) /\ Len(y) = n + 1 /\ y[n + 1] = each
            /\ \A i \in 1 .. n : y[i] = x[i]
      BY <3>2, <3>3, <3>5 DEF each
    <3> HIDE DEF x, y
    <3>7. Append(x, each) \in Seq(Seq(B)) /\ Len(Append(x, each)) = n + 1
            /\ \A i \in 1 .. n + 1 : y[i] = Append(x, each)[i]
      BY <3>1, <3>6
    <3>8. y = Append(x, each)
      BY <3>6, <3>7, SeqEqual
    <3> QED
      BY <3>1, <3>6, <3>8 DEF x, y
  <2>4. FlattenSeq(Each(ss)) = FlattenSeq(Each(front)) \o each
    <3> HIDE DEF Each, each
    <3> QED
      BY <2>3, FlattenAppend
  <2>5. FlattenSeq(ss) = flat \o last /\ flat \in Seq(A)
    BY <2>1, FlattenAppend
  <2> HIDE DEF flat
  <2>6. Mapped(g, flat \o last) = Mapped(g, flat) \o Mapped(g, last)
    BY <2>1, <2>5, <1>a
  <2>7. FlattenSeq(Mapped(g, flat) \o Mapped(g, last)) = FlattenSeq(Mapped(g, flat)) \o FlattenSeq(Mapped(g, last))
    <3> DEFINE x == Mapped(g, flat)
               y == Mapped(g, last)
    <3>1. x \in Seq(Seq(B)) /\ y \in Seq(Seq(B))
      BY <1>0, <2>1, <2>5
    <3> HIDE DEF x, y
    <3>2. FlattenSeq(x \o y) = FlattenSeq(x) \o FlattenSeq(y)
      BY <3>1, FlattenConcat
    <3> QED
      BY <3>2 DEF x, y
  <2>8. FlattenSeq(Mapped(g, flat)) = FlattenSeq(Each(front))
    BY <2>2 DEF flat
  <2> HIDE DEF Each
  <2> QED
    BY <2>4, <2>5, <2>6, <2>7, <2>8
<1> HIDE DEF P
<1>3. \A n \in Nat : n \in P
  BY <1>1, <1>2, AllNaturals DEF P
<1> SUFFICES ASSUME NEW ss \in Seq(Seq(A)) PROVE Good(ss)
  OBVIOUS
<1>4. Len(ss) \in P
  BY <1>3
<1> QED
  BY <1>4 DEF P

\* A sequence is its beginning and its end, and a longer beginning has one element more.
LEMMA Beginnings ==
    ASSUME NEW S, NEW s \in Seq(S), NEW k \in 0 .. Len(s)
    PROVE  /\ SubSeq(s, 1, k) \in Seq(S) /\ Len(SubSeq(s, 1, k)) = k
           /\ \A i \in 1 .. k : SubSeq(s, 1, k)[i] = s[i]
           /\ SubSeq(s, k + 1, Len(s)) \in Seq(S)
           /\ s = SubSeq(s, 1, k) \o SubSeq(s, k + 1, Len(s))
           /\ k # 0 => SubSeq(s, 1, k) = Append(SubSeq(s, 1, k - 1), s[k])
<1>1. Len(s) \in Nat /\ k \in Nat /\ k <= Len(s) /\ \A i \in 1 .. Len(s) : s[i] \in S
  OBVIOUS
<1>2. SubSeq(s, 1, k) \in Seq(S) /\ Len(SubSeq(s, 1, k)) = k /\ \A i \in 1 .. k : SubSeq(s, 1, k)[i] = s[i]
  <2>1. 1 \in Int /\ k \in Int /\ \A i \in 1 .. k : s[i] \in S
    BY <1>1
  <2>2. /\ SubSeq(s, 1, k) \in Seq(S)
        /\ Len(SubSeq(s, 1, k)) = IF 1 <= k THEN k - 1 + 1 ELSE 0
        /\ \A i \in 1 .. k - 1 + 1 : SubSeq(s, 1, k)[i] = s[1 + i - 1]
    BY <2>1, SubSeqProperties
  <2> QED
    BY <1>1, <2>2
<1>3. SubSeq(s, k + 1, Len(s)) \in Seq(S) /\ Len(SubSeq(s, k + 1, Len(s))) = Len(s) - k
        /\ \A i \in 1 .. Len(s) - k : SubSeq(s, k + 1, Len(s))[i] = s[k + i]
  <2> DEFINE m == k + 1
             n == Len(s)
  <2>1. m \in Int /\ n \in Int /\ \A i \in m .. n : s[i] \in S
    BY <1>1
  <2> HIDE DEF m, n
  <2>2. /\ SubSeq(s, m, n) \in Seq(S)
        /\ Len(SubSeq(s, m, n)) = IF m <= n THEN n - m + 1 ELSE 0
        /\ \A i \in 1 .. n - m + 1 : SubSeq(s, m, n)[i] = s[m + i - 1]
    BY <2>1, SubSeqProperties
  <2>3. m = k + 1 /\ n = Len(s) /\ n \in Nat /\ k <= n /\ k \in Nat
    BY <1>1 DEF m, n
  <2>4. n - m + 1 = Len(s) - k /\ Len(SubSeq(s, m, n)) = Len(s) - k
    BY <2>2, <2>3
  <2>5. \A i \in 1 .. Len(s) - k : m + i - 1 = k + i
    BY <2>3
  <2>6. \A i \in 1 .. Len(s) - k : SubSeq(s, m, n)[i] = s[k + i]
    BY <2>2, <2>4, <2>5
  <2> QED
    BY <2>2, <2>3, <2>4, <2>6
<1> DEFINE x == SubSeq(s, 1, k)
           y == SubSeq(s, k + 1, Len(s))
<1>4. s = x \o y
  <2>1. x \in Seq(S) /\ Len(x) = k /\ (\A i \in 1 .. k : x[i] = s[i])
          /\ y \in Seq(S) /\ Len(y) = Len(s) - k /\ \A i \in 1 .. Len(s) - k : y[i] = s[k + i]
    BY <1>2, <1>3
  <2> HIDE DEF x, y
  <2>2. x \o y \in Seq(S) /\ Len(x \o y) = Len(s)
    <3>1. x \in Seq(S) /\ y \in Seq(S)
      BY <2>1
    <3>2. x \o y \in Seq(S) /\ Len(x \o y) = Len(x) + Len(y)
      BY ONLY <3>1
    <3> QED
      BY <1>1, <2>1, <3>2
  <2>3. ASSUME NEW i \in 1 .. Len(s) PROVE s[i] = (x \o y)[i]
    <3>1. (x \o y)[i] = IF i <= Len(x) THEN x[i] ELSE y[i - Len(x)]
      BY <1>1, <2>1
    <3>2. CASE i <= k
      BY <3>1, <3>2, <2>1
    <3>3. CASE ~(i <= k)
      <4>1. i - k \in 1 .. Len(s) - k /\ k + (i - k) = i
        BY <1>1, <3>3
      <4> QED
        BY <3>1, <3>3, <4>1, <2>1
    <3> QED
      BY <3>2, <3>3
  <2> DEFINE z == x \o y
  <2>4. z \in Seq(S) /\ Len(z) = Len(s) /\ \A i \in 1 .. Len(s) : s[i] = z[i]
    BY <2>2, <2>3
  <2> HIDE DEF z
  <2>5. s = z
    BY <2>4, SeqEqual
  <2> QED
    BY <2>5 DEF z
<1>5. ASSUME k # 0 PROVE SubSeq(s, 1, k) = Append(SubSeq(s, 1, k - 1), s[k])
  <2>1. k - 1 \in Nat /\ k = (k - 1) + 1 /\ k - 1 <= Len(s)
    BY <1>1, <1>5
  <2>2. SubSeq(s, 1, k - 1) \in Seq(S) /\ Len(SubSeq(s, 1, k - 1)) = k - 1
          /\ \A i \in 1 .. k - 1 : SubSeq(s, 1, k - 1)[i] = s[i]
    <3> DEFINE l == k - 1
    <3>1. 1 \in Int /\ l \in Int /\ l \in Nat /\ \A i \in 1 .. l : s[i] \in S
      BY <1>1, <2>1
    <3> HIDE DEF l
    <3>2. /\ SubSeq(s, 1, l) \in Seq(S)
          /\ Len(SubSeq(s, 1, l)) = IF 1 <= l THEN l - 1 + 1 ELSE 0
          /\ \A i \in 1 .. l - 1 + 1 : SubSeq(s, 1, l)[i] = s[1 + i - 1]
      BY <3>1, SubSeqProperties
    <3>3. SubSeq(s, 1, l) \in Seq(S) /\ Len(SubSeq(s, 1, l)) = l /\ \A i \in 1 .. l : SubSeq(s, 1, l)[i] = s[i]
      BY <3>1, <3>2
    <3> QED
      BY <3>3 DEF l
  <2> DEFINE z == SubSeq(s, 1, k - 1)
  <2>3. z \in Seq(S) /\ Len(z) = k - 1 /\ \A i \in 1 .. k - 1 : z[i] = s[i]
    BY <2>2
  <2>4. x \in Seq(S) /\ Len(x) = k /\ \A i \in 1 .. k : x[i] = s[i]
    BY <1>2
  <2>5. s[k] \in S
    BY <1>1, <1>5
  <2> HIDE DEF x, z
  <2>6. Append(z, s[k]) \in Seq(S) /\ Len(Append(z, s[k])) = k
    BY <2>1, <2>3, <2>5
  <2>7. \A i \in 1 .. k : x[i] = Append(z, s[k])[i]
    BY <1>1, <2>3, <2>4, <2>5
  <2>8. x = Append(z, s[k])
    BY <2>4, <2>6, <2>7, SeqEqual
  <2> QED
    BY <2>8 DEF x, z
<1> QED
  BY <1>2, <1>3, <1>4, <1>5

\* Flattened sequences come one after the other: the i-th after those before it.
LEMMA FlattenSplit ==
    ASSUME NEW S, NEW ss \in Seq(Seq(S)), NEW k \in 0 .. Len(ss)
    PROVE  \E after \in Seq(S) :
               /\ FlattenSeq(SubSeq(ss, 1, k)) \in Seq(S)
               /\ FlattenSeq(ss) = FlattenSeq(SubSeq(ss, 1, k)) \o after
               /\ k # 0 => FlattenSeq(SubSeq(ss, 1, k)) = FlattenSeq(SubSeq(ss, 1, k - 1)) \o ss[k]
<1> DEFINE x == SubSeq(ss, 1, k)
           y == SubSeq(ss, k + 1, Len(ss))
           z == SubSeq(ss, 1, k - 1)
<1>1. x \in Seq(Seq(S)) /\ y \in Seq(Seq(S)) /\ ss = x \o y /\ (k # 0 => x = Append(z, ss[k]))
  BY Beginnings
<1>2. k # 0 => z \in Seq(Seq(S)) /\ ss[k] \in Seq(S)
  <2> SUFFICES ASSUME k # 0 PROVE z \in Seq(Seq(S)) /\ ss[k] \in Seq(S)
    OBVIOUS
  <2>1. k \in 1 .. Len(ss) /\ k - 1 \in 0 .. Len(ss)
    OBVIOUS
  <2>2. ss[k] \in Seq(S)
    BY <2>1
  <2>3. z \in Seq(Seq(S))
    BY <2>1, Beginnings
  <2> QED
    BY <2>2, <2>3
<1> HIDE DEF x, y, z
<1>3. FlattenSeq(x) \in Seq(S) /\ FlattenSeq(y) \in Seq(S)
  BY <1>1, FlattenAppend, EmptySeq
<1>4. FlattenSeq(ss) = FlattenSeq(x) \o FlattenSeq(y)
  BY <1>1, FlattenConcat
<1>5. k # 0 => FlattenSeq(x) = FlattenSeq(z) \o ss[k]
  BY <1>1, <1>2, FlattenAppend
<1> QED
  BY <1>3, <1>4, <1>5 DEF x, z

\* Where an element of the i-th is found.
LEMMA FlattenAt ==
    ASSUME NEW S, NEW ss \in Seq(Seq(S)), NEW i \in 1 .. Len(ss), NEW b \in 1 .. Len(ss[i])
    PROVE  /\ Len(FlattenSeq(SubSeq(ss, 1, i - 1))) \in Nat
           /\ Len(FlattenSeq(SubSeq(ss, 1, i - 1))) + b \in 1 .. Len(FlattenSeq(ss))
           /\ FlattenSeq(ss)[Len(FlattenSeq(SubSeq(ss, 1, i - 1))) + b] = ss[i][b]
<1> DEFINE x == FlattenSeq(SubSeq(ss, 1, i - 1))
           y == FlattenSeq(SubSeq(ss, 1, i))
           s == ss[i]
<1>1. i \in 0 .. Len(ss) /\ i # 0 /\ i - 1 \in 0 .. Len(ss) /\ s \in Seq(S)
  OBVIOUS
<1>2. x \in Seq(S)
  BY <1>1, FlattenSplit
<1>3. PICK after \in Seq(S) : FlattenSeq(ss) = y \o after /\ y = x \o s
  <2>1. \E after \in Seq(S) :
            /\ FlattenSeq(SubSeq(ss, 1, i)) \in Seq(S)
            /\ FlattenSeq(ss) = FlattenSeq(SubSeq(ss, 1, i)) \o after
            /\ i # 0 => FlattenSeq(SubSeq(ss, 1, i)) = FlattenSeq(SubSeq(ss, 1, i - 1)) \o ss[i]
    BY <1>1, FlattenSplit
  <2> QED
    BY <1>1, <2>1
<1> HIDE DEF x, y, s
<1> DEFINE n == Len(x) + b
<1>4. Len(x) \in Nat /\ Len(s) \in Nat /\ Len(after) \in Nat /\ b \in 1 .. Len(s)
  BY <1>1, <1>2, <1>3 DEF s
<1>5. y \in Seq(S) /\ Len(y) = Len(x) + Len(s)
  <2>1. x \o s \in Seq(S) /\ Len(x \o s) = Len(x) + Len(s)
    BY <1>1, <1>2
  <2> QED
    BY <1>3, <2>1
<1>6. n \in 1 .. Len(y)
  BY <1>4, <1>5
<1>7. y[n] = s[b]
  <2>1. y[n] = IF n <= Len(x) THEN x[n] ELSE s[n - Len(x)]
    BY <1>1, <1>2, <1>3, <1>5, <1>6
  <2>2. ~(n <= Len(x)) /\ n - Len(x) = b
    BY <1>4
  <2> QED
    BY <2>1, <2>2
<1>8. (y \o after)[n] = y[n] /\ n \in 1 .. Len(y \o after)
  <2> HIDE DEF n
  <2>1. y \in Seq(S) /\ after \in Seq(S) /\ n \in 1 .. Len(y)
    BY <1>3, <1>5, <1>6
  <2>2. Len(y \o after) = Len(y) + Len(after) /\ Len(y) \in Nat /\ Len(after) \in Nat
    BY ONLY <2>1
  <2>3. n \in 1 .. Len(y) + Len(after)
    BY ONLY <2>1, <2>2
  <2>4. (y \o after)[n] = IF n <= Len(y) THEN y[n] ELSE after[n - Len(y)]
    BY ONLY <2>1, <2>3
  <2> QED
    BY <2>1, <2>2, <2>3, <2>4
<1> QED
  BY <1>3, <1>4, <1>7, <1>8 DEF x, s

\* Every element is one of those.
LEMMA FlattenCovered ==
    ASSUME NEW S
    PROVE  \A ss \in Seq(Seq(S)) : \A k \in 1 .. Len(FlattenSeq(ss)) :
               \E i \in 1 .. Len(ss) : \E b \in 1 .. Len(ss[i]) : k = Len(FlattenSeq(SubSeq(ss, 1, i - 1))) + b
<1> DEFINE Found(ss, k) == \E i \in 1 .. Len(ss) : \E b \in 1 .. Len(ss[i]) :
                                k = Len(FlattenSeq(SubSeq(ss, 1, i - 1))) + b
           P == {n \in Nat : \A ss \in Seq(Seq(S)) : n <= Len(ss) =>
                    \A k \in 1 .. Len(FlattenSeq(SubSeq(ss, 1, n))) : Found(ss, k)}
<1>1. 0 \in P
  <2> SUFFICES ASSUME NEW ss \in Seq(Seq(S)) PROVE Len(FlattenSeq(SubSeq(ss, 1, 0))) = 0
    OBVIOUS
  <2>1. SubSeq(ss, 1, 0) = <<>>
    BY SubSeqEmpty
  <2>2. <<>> \in Seq(S) /\ <<>> \in Seq(Seq(S))
    OBVIOUS
  <2>3. FlattenSeq(<<>>) = <<>> /\ Len(<<>>) = 0
    BY <2>2, FlattenAppend
  <2>4. FlattenSeq(SubSeq(ss, 1, 0)) = <<>>
    BY <2>1, <2>3
  <2> QED
    BY <2>3, <2>4
<1>2. ASSUME NEW n \in P PROVE n + 1 \in P
  <2> SUFFICES ASSUME NEW ss \in Seq(Seq(S)), n + 1 <= Len(ss),
                      NEW k \in 1 .. Len(FlattenSeq(SubSeq(ss, 1, n + 1)))
               PROVE  Found(ss, k)
    OBVIOUS
  <2> DEFINE x == FlattenSeq(SubSeq(ss, 1, n))
             y == FlattenSeq(SubSeq(ss, 1, n + 1))
             s == ss[n + 1]
  <2>1. n \in 0 .. Len(ss) /\ n + 1 \in 0 .. Len(ss) /\ n + 1 # 0 /\ (n + 1) - 1 = n /\ s \in Seq(S)
          /\ n + 1 \in 1 .. Len(ss)
    OBVIOUS
  <2>2. x \in Seq(S)
    BY <2>1, FlattenSplit
  <2>3. y = x \o s
    <3> DEFINE l == n + 1
    <3>1. l \in 0 .. Len(ss) /\ l # 0 /\ l - 1 = n
      BY <2>1
    <3> HIDE DEF l
    <3>2. FlattenSeq(SubSeq(ss, 1, l)) = FlattenSeq(SubSeq(ss, 1, l - 1)) \o ss[l]
      BY <3>1, FlattenSplit
    <3> QED
      BY <3>1, <3>2 DEF l
  <2>4. \A j \in 1 .. Len(x) : Found(ss, j)
    <3>1. n <= Len(ss)
      BY <2>1
    <3> HIDE DEF Found
    <3> QED
      BY <3>1
  <2>5. k \in 1 .. Len(y)
    OBVIOUS
  <2> HIDE DEF x, y
  <2>6. Len(y) = Len(x) + Len(s) /\ Len(x) \in Nat /\ Len(s) \in Nat
    BY <2>1, <2>2, <2>3
  <2>7. CASE k <= Len(x)
    <3>1. k \in 1 .. Len(x)
      BY <2>5, <2>6, <2>7
    <3> QED
      BY <2>4, <3>1
  <2>8. CASE ~(k <= Len(x))
    <3>1. k - Len(x) \in 1 .. Len(s) /\ k = Len(x) + (k - Len(x))
      BY <2>5, <2>6, <2>8
    <3>2. x = FlattenSeq(SubSeq(ss, 1, (n + 1) - 1))
      BY <2>1 DEF x
    <3> QED
      BY <2>1, <3>1, <3>2
  <2> QED
    BY <2>7, <2>8
<1> HIDE DEF P
<1>3. \A n \in Nat : n \in P
  BY <1>1, <1>2, AllNaturals DEF P
<1> SUFFICES ASSUME NEW ss \in Seq(Seq(S)), NEW k \in 1 .. Len(FlattenSeq(ss)) PROVE Found(ss, k)
  OBVIOUS
<1>4. Len(ss) \in Nat /\ Len(ss) <= Len(ss) /\ Len(ss) \in P
  BY <1>3
<1>5. SubSeq(ss, 1, Len(ss)) = ss
  BY SubSeqFull
<1> HIDE DEF Found
<1> QED
  BY <1>4, <1>5 DEF P

-----------------------------------------------------------------------------
(* The blocks of turns.                                                    *)

Places == Seq(Nat)
BlockRecords == [kind : {"text", "call", "result", "image"}, of : Seq(Places), marked : BOOLEAN]
BlockSeqs == Seq(BlockRecords)

\* Turns of any kind, with blocks.
IsTurns(turns) == /\ \E T : turns \in Seq(T)
                  /\ \A i \in DOMAIN turns : turns[i].blocks \in BlockSeqs /\ "blocks" \in DOMAIN turns[i]

BlocksOf(turns) == [i \in DOMAIN turns |-> turns[i].blocks]

OfBlock == [b \in BlockRecords |-> b.of]

\* The blocks of turns are those of each turn, one turn after another.
LEMMA BlocksFlat ==
    ASSUME NEW turns, IsTurns(turns)
    PROVE  /\ BlocksOf(turns) \in Seq(BlockSeqs)
           /\ Len(BlocksOf(turns)) = Len(turns)
           /\ DOMAIN turns = 1 .. Len(turns) /\ Len(turns) \in Nat
           /\ Blocks(turns) = FlattenSeq(BlocksOf(turns))
           /\ Blocks(turns) \in BlockSeqs
<1>1. PICK T : turns \in Seq(T)
  BY DEF IsTurns
<1>2. DOMAIN turns = 1 .. Len(turns) /\ Len(turns) \in Nat
  BY <1>1
<1>3. \A i \in 1 .. Len(turns) : turns[i].blocks \in BlockSeqs
  BY <1>2 DEF IsTurns
<1>4. BlocksOf(turns) = [i \in 1 .. Len(turns) |-> turns[i].blocks]
  BY <1>2 DEF BlocksOf
<1>5. BlocksOf(turns) \in Seq(BlockSeqs) /\ Len(BlocksOf(turns)) = Len(turns)
  BY <1>2, <1>3, <1>4
<1>6. Blocks(turns) = FlattenSeq(BlocksOf(turns))
  BY DEF Blocks, Gather, BlocksOf
<1>7. FlattenSeq(BlocksOf(turns)) \in BlockSeqs
  <2> DEFINE ss == BlocksOf(turns)
  <2>1. ss \in Seq(Seq(BlockRecords)) /\ <<>> \in Seq(BlockRecords)
    BY <1>5 DEF BlockSeqs
  <2> HIDE DEF ss
  <2>2. FlattenSeq(ss) \in Seq(BlockRecords)
    BY <2>1, FlattenAppend
  <2> QED
    BY <2>2 DEF ss, BlockSeqs
<1> QED
  BY <1>2, <1>5, <1>6, <1>7

\* What blocks spell.
LEMMA SpeltOver ==
    ASSUME NEW s \in BlockSeqs
    PROVE  Spelt(s) = FlattenSeq(Mapped(OfBlock, s)) /\ Spelt(s) \in Seq(Places)
<1>1. [i \in DOMAIN s |-> s[i].of] = Mapped(OfBlock, s)
  <2>1. \A i \in DOMAIN s : s[i] \in BlockRecords
    BY DEF BlockSeqs
  <2> QED
    BY <2>1 DEF Mapped, OfBlock
<1>2. Mapped(OfBlock, s) \in Seq(Seq(Places))
  <2>1. Maps(OfBlock, BlockRecords, Seq(Places))
    BY DEF Maps, OfBlock, BlockRecords
  <2> QED
    BY <2>1, OverConcat DEF BlockSeqs
<1>3. FlattenSeq(Mapped(OfBlock, s)) \in Seq(Places)
  BY <1>2, FlattenAppend, EmptySeq
<1> QED
  BY <1>1, <1>3 DEF Spelt, Gather

\* What no block, one block, and blocks after blocks spell.
LEMMA SpeltLaws ==
    /\ Spelt(<<>>) = <<>>
    /\ \A b \in BlockRecords : Spelt(<<b>>) = b.of
    /\ \A s, t \in BlockSeqs : s \o t \in BlockSeqs /\ Spelt(s \o t) = Spelt(s) \o Spelt(t)
<1>1. Maps(OfBlock, BlockRecords, Seq(Places))
  BY DEF Maps, OfBlock, BlockRecords
<1>2. Spelt(<<>>) = <<>>
  <2>1. [i \in DOMAIN <<>> |-> <<>>[i].of] = <<>>
    OBVIOUS
  <2>2. <<>> \in Seq(Places) /\ <<>> \in Seq(Seq(Places))
    OBVIOUS
  <2>3. FlattenSeq(<<>>) = <<>>
    BY <2>2, FlattenAppend
  <2> QED
    BY <2>1, <2>3 DEF Spelt, Gather
<1>3. ASSUME NEW b \in BlockRecords PROVE Spelt(<<b>>) = b.of
  <2>1. [i \in DOMAIN <<b>> |-> <<b>>[i].of] = <<b.of>>
    OBVIOUS
  <2>2. b.of \in Seq(Places)
    BY DEF BlockRecords
  <2>3. FlattenSeq(<<b.of>>) = b.of
    BY <2>2, FlattenOne
  <2> QED
    BY <2>1, <2>3 DEF Spelt, Gather
<1>4. ASSUME NEW s \in BlockSeqs, NEW t \in BlockSeqs
      PROVE  s \o t \in BlockSeqs /\ Spelt(s \o t) = Spelt(s) \o Spelt(t)
  <2>1. s \o t \in BlockSeqs
    BY DEF BlockSeqs
  <2>2. s \in Seq(BlockRecords) /\ t \in Seq(BlockRecords)
    BY DEF BlockSeqs
  <2> DEFINE x == Mapped(OfBlock, s)
             y == Mapped(OfBlock, t)
  <2>3. Mapped(OfBlock, s \o t) = x \o y /\ x \in Seq(Seq(Places)) /\ y \in Seq(Seq(Places))
    BY <1>1, <2>2, OverConcat
  <2>4. Spelt(s) = FlattenSeq(x) /\ Spelt(t) = FlattenSeq(y)
        /\ Spelt(s \o t) = FlattenSeq(Mapped(OfBlock, s \o t))
    BY <2>1, SpeltOver
  <2> HIDE DEF x, y
  <2>5. FlattenSeq(x \o y) = FlattenSeq(x) \o FlattenSeq(y)
    BY <2>3, FlattenConcat
  <2> QED
    BY <2>1, <2>3, <2>4, <2>5
<1> QED
  BY <1>2, <1>3, <1>4

\* What turns spell, turn by turn.
LEMMA PiecesFlat ==
    ASSUME NEW turns, IsTurns(turns)
    PROVE  /\ Pieces(turns) = FlattenSeq([i \in DOMAIN turns |-> Spelt(turns[i].blocks)])
           /\ \A i \in DOMAIN turns : Spelt(turns[i].blocks) \in Seq(Places)
<1>1. \A i \in DOMAIN turns : turns[i].blocks \in BlockSeqs
  BY DEF IsTurns
<1> DEFINE ss == BlocksOf(turns)
<1>2. ss \in Seq(Seq(BlockRecords)) /\ Blocks(turns) = FlattenSeq(ss) /\ Blocks(turns) \in BlockSeqs
        /\ DOMAIN ss = DOMAIN turns /\ \A i \in DOMAIN turns : ss[i] = turns[i].blocks
  BY BlocksFlat DEF BlockSeqs, BlocksOf
<1> HIDE DEF ss
<1>3. Pieces(turns) = FlattenSeq(Mapped(OfBlock, FlattenSeq(ss)))
  BY <1>2, SpeltOver DEF Pieces
<1>4. Maps(OfBlock, BlockRecords, Seq(Places))
  BY DEF Maps, OfBlock, BlockRecords
<1>5. FlattenSeq(Mapped(OfBlock, FlattenSeq(ss)))
        = FlattenSeq([i \in DOMAIN ss |-> FlattenSeq(Mapped(OfBlock, ss[i]))])
  BY <1>2, <1>4, FlattenOver
<1>6. \A i \in DOMAIN turns : FlattenSeq(Mapped(OfBlock, ss[i])) = Spelt(turns[i].blocks)
  BY <1>1, <1>2, SpeltOver
<1>7. [i \in DOMAIN ss |-> FlattenSeq(Mapped(OfBlock, ss[i]))] = [i \in DOMAIN turns |-> Spelt(turns[i].blocks)]
  BY <1>2, <1>6
<1>8. \A i \in DOMAIN turns : Spelt(turns[i].blocks) \in Seq(Places)
  BY <1>1, SpeltOver
<1> QED
  BY <1>3, <1>5, <1>7, <1>8

-----------------------------------------------------------------------------
(* The messages.                                                           *)

PartRecords == [kind : {"text", "reasoning"}, text : Places, cache : {"none", "5m", "1h"}]
Roles == {"user", "assistant", "system", "tool"}
MessageRecords ==
    [role : Roles, string : BOOLEAN, parts : Seq(PartRecords), calls : Seq(Places), answers : Places,
     field : {"none", "toolName", "name"}]

\* What the cases make of them: the assistant alone calls tools and thinks, and only what
\* the user or the system says is marked.
WellFormed(m) ==
    /\ m.calls # <<>> => m.role = "assistant"
    /\ \A j \in DOMAIN m.parts :
        /\ m.parts[j].cache # "none" => m.role \in {"user", "system"}
        /\ m.parts[j].kind = "reasoning" => m.role = "assistant" /\ ~m.string /\ m.parts[j].text # Empty
Messages == {m \in MessageRecords : WellFormed(m)}

\* What a message says.
Words(m) == (IF m.role = "tool" THEN <<m.answers>> ELSE <<>>) \o FlattenText(m) \o m.calls

\* What a conversation says is what each message says, one after another.
LEMMA ContentFlat == \A prompt : Content(prompt) = FlattenSeq([i \in DOMAIN prompt |-> Words(prompt[i])])
  BY DEF Content, Gather, Words

\* The fields of a message.
LEMMA MessageFacts ==
    ASSUME NEW m \in Messages
    PROVE  /\ m.role \in Roles /\ m.string \in BOOLEAN /\ m.parts \in Seq(PartRecords)
           /\ m.calls \in Seq(Places) /\ m.answers \in Places /\ WellFormed(m)
           /\ DOMAIN m.parts = 1 .. Len(m.parts) /\ Len(m.parts) \in Nat
           /\ DOMAIN m.calls = 1 .. Len(m.calls) /\ Len(m.calls) \in Nat
           /\ \A j \in DOMAIN m.parts :
                  /\ m.parts[j].text \in Places /\ m.parts[j].kind \in {"text", "reasoning"}
                  /\ m.parts[j].cache \in {"none", "5m", "1h"}
           /\ \A k \in DOMAIN m.calls : m.calls[k] \in Places
<1>1. m \in MessageRecords /\ WellFormed(m)
  BY DEF Messages
<1>2. /\ m.role \in Roles /\ m.string \in BOOLEAN /\ m.parts \in Seq(PartRecords)
      /\ m.calls \in Seq(Places) /\ m.answers \in Places
  BY <1>1 DEF MessageRecords
<1>3. /\ DOMAIN m.parts = 1 .. Len(m.parts) /\ Len(m.parts) \in Nat
      /\ \A j \in DOMAIN m.parts : m.parts[j] \in PartRecords
  BY <1>2
<1>4. \A j \in DOMAIN m.parts :
          /\ m.parts[j].text \in Places /\ m.parts[j].kind \in {"text", "reasoning"}
          /\ m.parts[j].cache \in {"none", "5m", "1h"}
  BY <1>3 DEF PartRecords
<1>5. /\ DOMAIN m.calls = 1 .. Len(m.calls) /\ Len(m.calls) \in Nat
      /\ \A k \in DOMAIN m.calls : m.calls[k] \in Places
  BY <1>2
<1> QED
  BY <1>1, <1>2, <1>3, <1>4, <1>5

\* The words of a part, if any.
Spoke(p) == IF p.kind = "text" /\ p.text # Empty THEN <<p.text>> ELSE <<>>

\* The texts of a message are those of its parts.
LEMMA TextFlat ==
    ASSUME NEW m \in Messages
    PROVE  /\ FlattenText(m) = FlattenSeq([j \in DOMAIN m.parts |-> Spoke(m.parts[j])])
           /\ FlattenText(m) \in Seq(Places)
           /\ Words(m) \in Seq(Places)
<1>1. FlattenText(m) = FlattenSeq([j \in DOMAIN m.parts |-> Spoke(m.parts[j])])
  BY DEF FlattenText, Pick, Gather, Spoke
<1> DEFINE ss == [j \in DOMAIN m.parts |-> Spoke(m.parts[j])]
<1>2. ss \in Seq(Seq(Places))
  <2>1. \A j \in DOMAIN m.parts : Spoke(m.parts[j]) \in Seq(Places)
    BY MessageFacts DEF Spoke
  <2>2. DOMAIN m.parts = 1 .. Len(m.parts) /\ Len(m.parts) \in Nat
    BY MessageFacts
  <2> QED
    BY <2>1, <2>2
<1> HIDE DEF ss
<1>3. FlattenSeq(ss) \in Seq(Places)
  BY <1>2, FlattenAppend, EmptySeq
<1>4. FlattenText(m) \in Seq(Places)
  BY <1>1, <1>3 DEF ss
<1>5. Words(m) \in Seq(Places)
  <2>1. (IF m.role = "tool" THEN <<m.answers>> ELSE <<>>) \in Seq(Places) /\ m.calls \in Seq(Places)
    BY MessageFacts
  <2> QED
    BY <2>1, <1>4 DEF Words
<1> QED
  BY <1>1, <1>4, <1>5

\* The blocks that adapters make of a message, and what they spell.
LEMMA BlocksOfMessage ==
    ASSUME NEW m \in Messages
    PROVE  /\ Said(m) \in BlockSeqs /\ Spelt(Said(m)) = FlattenText(m)
           /\ EachCall(m) \in BlockSeqs /\ Spelt(EachCall(m)) = m.calls
           /\ EachPart(m) \in BlockSeqs
           /\ Result(m) \in BlockRecords /\ <<Result(m)>> \in BlockSeqs
           /\ Spelt(<<Result(m)>>) = <<m.answers>> \o FlattenText(m)
<1>a. FlattenText(m) \in Seq(Places)
  BY TextFlat
<1>1. Said(m) \in BlockSeqs /\ Spelt(Said(m)) = FlattenText(m)
  <2>1. Text(FlattenText(m)) \in BlockRecords /\ Text(FlattenText(m)).of = FlattenText(m)
    BY <1>a DEF Text, BlockRecords
  <2>2. <<Text(FlattenText(m))>> \in BlockSeqs /\ <<>> \in BlockSeqs
    BY <2>1 DEF BlockSeqs
  <2>3. Spelt(<<Text(FlattenText(m))>>) = FlattenText(m) /\ Spelt(<<>>) = <<>>
    BY <2>1, SpeltLaws
  <2> QED
    BY <2>2, <2>3 DEF Said
<1>2. EachCall(m) \in BlockSeqs /\ Spelt(EachCall(m)) = m.calls
  <2>1. \A k \in DOMAIN m.calls : Use(m.calls[k]) \in BlockRecords /\ Use(m.calls[k]).of = <<m.calls[k]>>
    BY MessageFacts DEF Use, BlockRecords
  <2>2. EachCall(m) \in BlockSeqs
    BY <2>1, MessageFacts DEF EachCall, BlockSeqs
  <2>3. [k \in DOMAIN EachCall(m) |-> EachCall(m)[k].of] = [k \in DOMAIN m.calls |-> <<m.calls[k]>>]
    BY <2>1 DEF EachCall
  <2>4. m.calls \in Seq(Places)
    BY MessageFacts
  <2>5. FlattenSeq([k \in DOMAIN m.calls |-> <<m.calls[k]>>]) = m.calls
    BY <2>4, FlattenSingles
  <2> QED
    BY <2>2, <2>3, <2>5 DEF Spelt, Gather
<1>3. EachPart(m) \in BlockSeqs
  <2>1. \A j \in DOMAIN m.parts :
            Text(IF m.parts[j].text = Empty THEN <<>> ELSE <<m.parts[j].text>>) \in BlockRecords
    BY MessageFacts DEF Text, BlockRecords
  <2>2. DOMAIN m.parts = 1 .. Len(m.parts) /\ Len(m.parts) \in Nat
    BY MessageFacts
  <2> QED
    BY <2>1, <2>2 DEF EachPart, BlockSeqs
<1>4. Result(m) \in BlockRecords /\ Result(m).of = <<m.answers>> \o FlattenText(m)
  <2>1. <<m.answers>> \in Seq(Places)
    BY MessageFacts
  <2>2. <<m.answers>> \o FlattenText(m) \in Seq(Places)
    BY <1>a, <2>1
  <2> QED
    BY <2>2 DEF Result, BlockRecords
<1>5. <<Result(m)>> \in BlockSeqs /\ Spelt(<<Result(m)>>) = <<m.answers>> \o FlattenText(m)
  BY <1>4, SpeltLaws DEF BlockSeqs
<1> QED
  BY <1>1, <1>2, <1>3, <1>4, <1>5

\* Part by part, when all of them are texts.
LEMMA PartsSpelt ==
    ASSUME NEW m \in Messages, m.role \in {"user", "assistant"}, ~Unsupported(m), m.calls = <<>>
    PROVE  Spelt(EachPart(m)) = FlattenText(m)
<1>1. \A j \in DOMAIN m.parts : m.parts[j].kind = "text"
  BY DEF Unsupported
<1>2. [j \in DOMAIN EachPart(m) |-> EachPart(m)[j].of] = [j \in DOMAIN m.parts |-> Spoke(m.parts[j])]
  BY <1>1 DEF EachPart, Text, Spoke
<1> QED
  BY <1>2, TextFlat DEF Spelt, Gather

-----------------------------------------------------------------------------
(* The messages that are sent.                                             *)

Sendable == {m \in Messages : m.role # "system" /\ ~Unsupported(m)}

\* What is not the system's, and of which kind it is.
LEMMA SpokenTypes ==
    ASSUME NEW prompt \in Seq(Messages), NEW X, X \subseteq Messages,
           \A i \in DOMAIN prompt : prompt[i].role # "system" => prompt[i] \in X
    PROVE  Spoken(prompt) \in Seq(X)
<1> DEFINE F(m) == IF m.role # "system" THEN <<m>> ELSE <<>>
           ss == [i \in DOMAIN prompt |-> F(prompt[i])]
<1>1. Spoken(prompt) = FlattenSeq(ss)
  BY DEF Spoken, Pick, Gather
<1>2. ss \in Seq(Seq(X))
  <2>1. \A i \in DOMAIN prompt : F(prompt[i]) \in Seq(X)
    OBVIOUS
  <2>2. DOMAIN prompt = 1 .. Len(prompt) /\ Len(prompt) \in Nat
    OBVIOUS
  <2> HIDE DEF F
  <2> QED
    BY <2>1, <2>2
<1> HIDE DEF ss
<1>3. FlattenSeq(ss) \in Seq(X)
  BY <1>2, FlattenAppend, EmptySeq
<1> QED
  BY <1>1, <1>3

\* What is the system's.
LEMMA SystemTypes ==
    ASSUME NEW prompt \in Seq(Messages)
    PROVE  System(prompt) \in Seq({m \in Messages : m.role = "system"})
<1> DEFINE X == {m \in Messages : m.role = "system"}
           F(m) == IF m.role = "system" THEN <<m>> ELSE <<>>
           ss == [i \in DOMAIN prompt |-> F(prompt[i])]
<1>1. System(prompt) = FlattenSeq(ss)
  BY DEF System, Pick, Gather
<1>2. ss \in Seq(Seq(X))
  <2>1. ASSUME NEW i \in DOMAIN prompt PROVE F(prompt[i]) \in Seq(X)
    <3>1. prompt[i] \in Messages
      OBVIOUS
    <3>2. prompt[i].role = "system" => prompt[i] \in X
      BY <3>1
    <3> HIDE DEF X
    <3>3. <<>> \in Seq(X) /\ (prompt[i] \in X => <<prompt[i]>> \in Seq(X))
      OBVIOUS
    <3> QED
      BY <3>2, <3>3
  <2>2. DOMAIN prompt = 1 .. Len(prompt) /\ Len(prompt) \in Nat
    OBVIOUS
  <2> HIDE DEF F, X
  <2> QED
    BY <2>1, <2>2
<1> HIDE DEF ss, X
<1>3. FlattenSeq(ss) \in Seq(X)
  BY <1>2, FlattenAppend, EmptySeq
<1> QED
  BY <1>1, <1>3 DEF X

\* Turn by turn the words of the messages: together what the conversation says.
LEMMA TurnsSayAll ==
    ASSUME NEW turns, IsTurns(turns), NEW prompt, DOMAIN prompt = DOMAIN turns,
           \A i \in DOMAIN turns : Spelt(turns[i].blocks) = Words(prompt[i])
    PROVE  Pieces(turns) = Content(prompt)
<1>1. [i \in DOMAIN turns |-> Spelt(turns[i].blocks)] = [i \in DOMAIN prompt |-> Words(prompt[i])]
  OBVIOUS
<1> QED
  BY <1>1, PiecesFlat, ContentFlat

\* The words in the two cases of a message with calls, and without.
LEMMA WordsOf ==
    ASSUME NEW m \in Messages
    PROVE  /\ m.role # "tool" => Words(m) = FlattenText(m) \o m.calls
           /\ m.role = "tool" => Words(m) = <<m.answers>> \o FlattenText(m)
           /\ m.calls = <<>> /\ m.role # "tool" => Words(m) = FlattenText(m)
<1>1. FlattenText(m) \in Seq(Places) /\ m.calls \in Seq(Places) /\ <<m.answers>> \in Seq(Places)
  <2>1. FlattenText(m) \in Seq(Places)
    BY TextFlat
  <2>2. m.calls \in Seq(Places) /\ m.answers \in Places
    BY MessageFacts
  <2> QED
    BY <2>1, <2>2
<1>2. m.role = "tool" => m.calls = <<>>
  BY MessageFacts DEF WellFormed
<1> DEFINE t == FlattenText(m)
           c == m.calls
           a == <<m.answers>>
<1>3. t \in Seq(Places) /\ c \in Seq(Places) /\ a \in Seq(Places)
  BY <1>1
<1>4. Words(m) = (IF m.role = "tool" THEN a ELSE <<>>) \o t \o c
  BY DEF Words
<1> HIDE DEF t, c, a
<1>5. <<>> \o t = t /\ t \o <<>> = t /\ a \o t \in Seq(Places)
  BY <1>3, ConcatEmptySeq
<1>6. (a \o t) \o <<>> = a \o t
  BY <1>5, ConcatEmptySeq
<1>7. m.role # "tool" => Words(m) = t \o c
  BY <1>4, <1>5
<1>8. m.role = "tool" => Words(m) = a \o t
  BY <1>2, <1>4, <1>6 DEF c
<1>9. m.calls = <<>> /\ m.role # "tool" => Words(m) = t
  BY <1>5, <1>7 DEF c
<1> QED
  BY <1>7, <1>8, <1>9 DEF t, c, a

\* A message as Gemini is to be told it.
NamedOne(m) == IF m.role = "tool" /\ m.field = "toolName" THEN [m EXCEPT !.answers = ToolName(@)]
               ELSE [m EXCEPT !.answers = Empty]

\* It is one, and differs in nothing but the call that it answers.
LEMMA NamedMessages ==
    ASSUME NEW m \in Messages
    PROVE  /\ NamedOne(m) \in Messages /\ NamedOne(m).role = m.role /\ NamedOne(m).calls = m.calls
           /\ NamedOne(m).parts = m.parts /\ FlattenText(NamedOne(m)) = FlattenText(m)
           /\ m.role = "tool" => NamedOne(m) = ByName(m)
           /\ m.role # "tool" => Words(NamedOne(m)) = Words(m)
<1>1. m \in MessageRecords /\ WellFormed(m)
  BY DEF Messages
<1>2. m.answers \in Places /\ Empty \in Places /\ ToolName(m.answers) \in Places
  <2>1. m.answers \in Seq(Nat) /\ 0 \in Nat
    BY <1>1 DEF MessageRecords, Places
  <2>2. \A s \in Seq(Nat) : [s EXCEPT ![1] = 0] \in Seq(Nat)
    <3> SUFFICES ASSUME NEW s \in Seq(Nat) PROVE [s EXCEPT ![1] = 0] \in Seq(Nat)
      OBVIOUS
    <3> DEFINE q == [s EXCEPT ![1] = 0]
    <3>1. DOMAIN s = 1 .. Len(s) /\ Len(s) \in Nat /\ \A i \in 1 .. Len(s) : s[i] \in Nat
      OBVIOUS
    <3>2. q = [i \in 1 .. Len(s) |-> IF i = 1 THEN 0 ELSE s[i]]
      BY <3>1
    <3>3. q \in [1 .. Len(s) -> Nat]
      BY <3>1, <3>2
    <3> QED
      BY <3>1, <3>3
  <2>3. Empty \in Seq(Nat)
    BY DEF Empty
  <2> QED
    BY <2>1, <2>2, <2>3 DEF Places, ToolName
<1>3. PICK call \in Places : NamedOne(m) = [m EXCEPT !.answers = call]
                             /\ (m.role = "tool" => NamedOne(m) = ByName(m))
  BY <1>2 DEF NamedOne, ByName
<1>4. ASSUME NEW w, w = [m EXCEPT !.answers = call]
      PROVE  w \in MessageRecords /\ w.role = m.role /\ w.calls = m.calls /\ w.parts = m.parts
             /\ w.string = m.string
  BY <1>1, <1>4 DEF MessageRecords
<1> DEFINE w == NamedOne(m)
<1>5. w \in MessageRecords /\ w.role = m.role /\ w.calls = m.calls /\ w.parts = m.parts /\ w.string = m.string
  BY <1>3, <1>4
<1> HIDE DEF w
<1>6. w \in Messages
  BY <1>1, <1>5 DEF Messages, WellFormed
<1>7. FlattenText(w) = FlattenText(m)
  BY <1>5 DEF FlattenText
<1>8. m.role # "tool" => Words(w) = Words(m)
  BY <1>5, <1>6, <1>7, WordsOf
<1> QED
  BY <1>3, <1>5, <1>6, <1>7, <1>8 DEF w

\* A conversation as Gemini is to be told it, message by message.
LEMMA NamedAll ==
    ASSUME NEW prompt \in Seq(Messages)
    PROVE  /\ WithNames(prompt) \in Seq(Messages) /\ DOMAIN WithNames(prompt) = DOMAIN prompt
           /\ Len(WithNames(prompt)) = Len(prompt)
           /\ \A i \in DOMAIN prompt : WithNames(prompt)[i] = NamedOne(prompt[i])
                                       /\ WithNames(prompt)[i].role = prompt[i].role
<1>1. DOMAIN prompt = 1 .. Len(prompt) /\ Len(prompt) \in Nat /\ \A i \in DOMAIN prompt : prompt[i] \in Messages
  OBVIOUS
<1>2. WithNames(prompt) = [i \in 1 .. Len(prompt) |-> NamedOne(prompt[i])]
  BY <1>1 DEF WithNames, NamedOne
<1>3. \A i \in 1 .. Len(prompt) : NamedOne(prompt[i]) \in Messages /\ NamedOne(prompt[i]).role = prompt[i].role
  BY <1>1, NamedMessages
<1> DEFINE q == WithNames(prompt)
<1>4. q = [i \in 1 .. Len(prompt) |-> NamedOne(prompt[i])]
  BY <1>2
<1> HIDE DEF q
<1>5. q \in [1 .. Len(prompt) -> Messages]
  BY <1>3, <1>4
<1>6. q \in Seq(Messages) /\ Len(q) = Len(prompt) /\ DOMAIN q = DOMAIN prompt
  BY <1>1, <1>5
<1>7. \A i \in DOMAIN prompt : q[i] = NamedOne(prompt[i]) /\ q[i].role = prompt[i].role
  BY <1>1, <1>3, <1>4
<1> QED
  BY <1>6, <1>7 DEF q

\* The texts and the calls of a message are what it says, for all but a result.
LEMMA SaidAndCalls ==
    ASSUME NEW m \in Messages
    PROVE  /\ Said(m) \o EachCall(m) \in BlockSeqs
           /\ Spelt(Said(m) \o EachCall(m)) = FlattenText(m) \o m.calls
<1>1. Said(m) \in BlockSeqs /\ EachCall(m) \in BlockSeqs
  BY BlocksOfMessage
<1>2. Said(m) \o EachCall(m) \in BlockSeqs
      /\ Spelt(Said(m) \o EachCall(m)) = Spelt(Said(m)) \o Spelt(EachCall(m))
  BY <1>1, SpeltLaws
<1> QED
  BY <1>2, BlocksOfMessage

\* A turn of each provider's says what its message does.
LEMMA TurnsTrue ==
    ASSUME NEW m \in Sendable
    PROVE  /\ AnthropicTurn(m).blocks \in BlockSeqs /\ Spelt(AnthropicTurn(m).blocks) = Words(m)
           /\ GeminiContent(m).blocks \in BlockSeqs /\ Spelt(GeminiContent(m).blocks) = Words(NamedOne(m))
<1>1. m \in Messages /\ m.role \in {"user", "assistant", "tool"} /\ ~Unsupported(m)
  BY MessageFacts DEF Sendable, Roles
<1>2. m.calls # <<>> => m.role = "assistant"
  BY <1>1, MessageFacts DEF WellFormed
<1>3. CASE m.role = "tool"
  <2> DEFINE n == NamedOne(m)
  <2>1. n \in Messages /\ n.role = "tool" /\ n = ByName(m)
    BY <1>1, <1>3, NamedMessages
  <2>2. AnthropicTurn(m).blocks = <<Result(m)>> /\ GeminiContent(m).blocks = <<Result(n)>>
    BY <1>3, <2>1 DEF AnthropicTurn, GeminiContent, Turn
  <2> HIDE DEF n
  <2>3. AnthropicTurn(m).blocks \in BlockSeqs /\ Spelt(AnthropicTurn(m).blocks) = Words(m)
    BY <1>1, <1>3, <2>2, BlocksOfMessage, WordsOf
  <2>4. GeminiContent(m).blocks \in BlockSeqs /\ Spelt(GeminiContent(m).blocks) = Words(n)
    BY <2>1, <2>2, BlocksOfMessage, WordsOf
  <2> QED
    BY <2>3, <2>4 DEF n
<1>4. CASE m.role = "assistant" /\ m.calls # <<>>
  <2>1. AnthropicTurn(m).blocks = Said(m) \o EachCall(m) /\ GeminiContent(m).blocks = Said(m) \o EachCall(m)
    BY <1>4 DEF AnthropicTurn, GeminiContent, Turn
  <2>2. Words(NamedOne(m)) = Words(m)
    BY <1>1, <1>4, NamedMessages
  <2> QED
    BY <1>1, <1>4, <2>1, <2>2, SaidAndCalls, WordsOf
<1>5. CASE m.role # "tool" /\ m.calls = <<>>
  <2>1. AnthropicTurn(m).blocks = EachPart(m) /\ GeminiContent(m).blocks = EachPart(m)
    BY <1>5 DEF AnthropicTurn, GeminiContent, Turn
  <2>2. Spelt(EachPart(m)) = FlattenText(m)
    BY <1>1, <1>5, PartsSpelt
  <2>3. Words(NamedOne(m)) = Words(m)
    BY <1>1, <1>5, NamedMessages
  <2> QED
    BY <1>1, <1>5, <2>1, <2>2, <2>3, BlocksOfMessage, WordsOf
<1> QED
  BY <1>1, <1>2, <1>3, <1>4, <1>5

\* A message for chat completions spells its words.
LEMMA ChatTrue ==
    ASSUME NEW m \in Messages, NEW pad
    PROVE  ChatMessage(m, pad).blocks \in BlockSeqs /\ Spelt(ChatMessage(m, pad).blocks) = Words(m)
<1>1. CASE m.role = "tool"
  <2>1. ChatMessage(m, pad).blocks = <<Result(m)>>
    BY <1>1 DEF ChatMessage
  <2> QED
    BY <1>1, <2>1, BlocksOfMessage, WordsOf
<1>2. CASE m.role # "tool"
  <2>1. ChatMessage(m, pad).blocks = Said(m) \o EachCall(m)
    BY <1>2 DEF ChatMessage
  <2> QED
    BY <1>2, <2>1, SaidAndCalls, WordsOf
<1> QED
  BY <1>1, <1>2

\* Turns made of messages, one of each, are turns.
LEMMA MadeTurns ==
    ASSUME NEW X, NEW p \in Seq(X), NEW turns, DOMAIN turns = DOMAIN p, turns = [i \in DOMAIN p |-> turns[i]],
           \A i \in DOMAIN p : turns[i].blocks \in BlockSeqs /\ "blocks" \in DOMAIN turns[i]
    PROVE  IsTurns(turns)
<1> DEFINE T == {turns[i] : i \in DOMAIN p}
<1>1. \A i \in DOMAIN p : turns[i] \in T
  OBVIOUS
<1>2. DOMAIN p = 1 .. Len(p) /\ Len(p) \in Nat
  OBVIOUS
<1> HIDE DEF T
<1>3. turns \in Seq(T)
  <2>1. turns \in [1 .. Len(p) -> T]
    BY <1>1, <1>2
  <2> QED
    BY <1>2, <2>1
<1> QED
  BY <1>3 DEF IsTurns

\* The turns with their breakpoints: the same blocks but for their marks.
LEMMA PlacedTurns ==
    ASSUME NEW turns, IsTurns(turns)
    PROVE  /\ IsTurns(PlaceBreakpoints(turns))
           /\ DOMAIN PlaceBreakpoints(turns) = DOMAIN turns
           /\ Len(PlaceBreakpoints(turns)) = Len(turns)
           /\ \A i \in DOMAIN turns :
                  /\ DOMAIN PlaceBreakpoints(turns)[i].blocks = DOMAIN turns[i].blocks
                  /\ Len(PlaceBreakpoints(turns)[i].blocks) = Len(turns[i].blocks)
                  /\ Spelt(PlaceBreakpoints(turns)[i].blocks) = Spelt(turns[i].blocks)
                  /\ \A b \in DOMAIN turns[i].blocks :
                         /\ PlaceBreakpoints(turns)[i].blocks[b].marked
                                = (Len(Blocks(SubSeq(turns, 1, i - 1))) + b - 1 \in Targets(Len(Blocks(turns))))
                         /\ PlaceBreakpoints(turns)[i].blocks[b].of = turns[i].blocks[b].of
                         /\ PlaceBreakpoints(turns)[i].blocks[b].kind = turns[i].blocks[b].kind
<1> DEFINE before(i) == Len(Blocks(SubSeq(turns, 1, i - 1)))
           targets == Targets(Len(Blocks(turns)))
           marks(i, b) == before(i) + b - 1 \in targets
           new == PlaceBreakpoints(turns)
<1>1. new = [i \in DOMAIN turns |->
                [turns[i] EXCEPT !.blocks = [b \in DOMAIN @ |-> [@[b] EXCEPT !.marked = marks(i, b)]]]]
  BY DEF PlaceBreakpoints
<1>2. DOMAIN turns = 1 .. Len(turns) /\ Len(turns) \in Nat
  BY BlocksFlat
<1>3. \A i \in DOMAIN turns : turns[i].blocks \in BlockSeqs /\ "blocks" \in DOMAIN turns[i]
  BY DEF IsTurns
<1>m. \A i, b : marks(i, b) \in BOOLEAN
  OBVIOUS
<1> HIDE DEF new, marks
<1>4. ASSUME NEW i \in DOMAIN turns
      PROVE  /\ new[i].blocks = [b \in DOMAIN turns[i].blocks |-> [turns[i].blocks[b] EXCEPT !.marked = marks(i, b)]]
             /\ "blocks" \in DOMAIN new[i]
  BY <1>1, <1>3, <1>4
<1>5. ASSUME NEW i \in DOMAIN turns
      PROVE  /\ new[i].blocks \in BlockSeqs
             /\ DOMAIN new[i].blocks = DOMAIN turns[i].blocks
             /\ Len(new[i].blocks) = Len(turns[i].blocks)
             /\ \A b \in DOMAIN turns[i].blocks :
                    /\ new[i].blocks[b].of = turns[i].blocks[b].of /\ new[i].blocks[b].marked = marks(i, b)
                    /\ new[i].blocks[b].kind = turns[i].blocks[b].kind
  <2> DEFINE old == turns[i].blocks
             made == new[i].blocks
  <2>1. old \in Seq(BlockRecords) /\ made = [b \in DOMAIN old |-> [old[b] EXCEPT !.marked = marks(i, b)]]
    BY <1>3, <1>4, <1>5 DEF BlockSeqs
  <2> HIDE DEF old, made
  <2>2. DOMAIN old = 1 .. Len(old) /\ Len(old) \in Nat /\ \A b \in DOMAIN old : old[b] \in BlockRecords
    BY <2>1
  <2>3. \A b \in DOMAIN old : /\ made[b] \in BlockRecords
                              /\ made[b].of = old[b].of /\ made[b].marked = marks(i, b) /\ made[b].kind = old[b].kind
    <3> SUFFICES ASSUME NEW b \in DOMAIN old
                 PROVE  /\ made[b] \in BlockRecords /\ made[b].of = old[b].of /\ made[b].marked = marks(i, b)
                        /\ made[b].kind = old[b].kind
      OBVIOUS
    <3>1. made[b] = [old[b] EXCEPT !.marked = marks(i, b)]
      BY <2>1
    <3>2. old[b] \in BlockRecords /\ marks(i, b) \in BOOLEAN
      BY <2>2, <1>m
    <3> QED
      BY <3>1, <3>2 DEF BlockRecords
  <2>4. made \in [1 .. Len(old) -> BlockRecords]
    BY <2>1, <2>2, <2>3
  <2>5. made \in Seq(BlockRecords) /\ Len(made) = Len(old) /\ DOMAIN made = DOMAIN old
    BY <2>2, <2>4
  <2> QED
    BY <2>3, <2>5 DEF old, made, BlockSeqs
<1>6. \A i \in DOMAIN turns : Spelt(new[i].blocks) = Spelt(turns[i].blocks)
  <2> SUFFICES ASSUME NEW i \in DOMAIN turns PROVE Spelt(new[i].blocks) = Spelt(turns[i].blocks)
    OBVIOUS
  <2>1. [b \in DOMAIN new[i].blocks |-> new[i].blocks[b].of]
            = [b \in DOMAIN turns[i].blocks |-> turns[i].blocks[b].of]
    BY <1>5
  <2> QED
    BY <2>1 DEF Spelt, Gather
<1>7. IsTurns(new)
  <2>1. PICK T : turns \in Seq(T)
    BY DEF IsTurns
  <2>2. DOMAIN new = DOMAIN turns /\ new = [i \in DOMAIN turns |-> new[i]]
    BY <1>1
  <2>3. \A i \in DOMAIN turns : new[i].blocks \in BlockSeqs /\ "blocks" \in DOMAIN new[i]
    BY <1>4, <1>5
  <2> QED
    BY <2>1, <2>2, <2>3, MadeTurns
<1>8. DOMAIN new = DOMAIN turns
  BY <1>1
<1>9. Len(new) = Len(turns)
  <2>1. Len(new) \in Nat /\ DOMAIN new = 1 .. Len(new)
    BY <1>7, BlocksFlat
  <2>2. 1 .. Len(new) = 1 .. Len(turns)
    BY <2>1, <1>2, <1>8
  <2>3. CASE Len(new) < Len(turns)
    <3>1. Len(turns) \in 1 .. Len(turns) /\ Len(turns) \notin 1 .. Len(new)
      BY <2>1, <2>3, <1>2
    <3> QED
      BY <3>1, <2>2
  <2>4. CASE Len(turns) < Len(new)
    <3>1. Len(new) \in 1 .. Len(new) /\ Len(new) \notin 1 .. Len(turns)
      BY <2>1, <2>4, <1>2
    <3> QED
      BY <3>1, <2>2
  <2>5. Len(new) \in Nat /\ Len(turns) \in Nat
    BY <2>1, <1>2
  <2> QED
    BY ONLY <2>3, <2>4, <2>5
<1> QED
  BY <1>5, <1>6, <1>7, <1>8, <1>9 DEF new, marks

-----------------------------------------------------------------------------
(* What each provider is sent.                                             *)

\* Without images a request's turns are those of its messages.
LEMMA NoImages == \A turns : AppendToLast(turns, 0) = turns
  BY DEF AppendToLast

AnthropicTurns(prompt) == [i \in DOMAIN Spoken(prompt) |-> AnthropicTurn(Spoken(prompt)[i])]
GeminiTurns(prompt) == [i \in DOMAIN Spoken(prompt) |-> GeminiContent(Spoken(prompt)[i])]
ChatTurns(prompt, pad) == [i \in DOMAIN prompt |-> ChatMessage(prompt[i], pad)]

\* A conversation of which no message is refused.
Conversations == {prompt \in Seq(Messages) : \A i \in DOMAIN prompt : ~Unsupported(prompt[i])}

\* Of a conversation that is not refused, what is spoken can be sent.
LEMMA SpokenSendable ==
    ASSUME NEW prompt \in Conversations
    PROVE  Spoken(prompt) \in Seq(Sendable)
<1>1. prompt \in Seq(Messages) /\ \A i \in DOMAIN prompt : prompt[i] \in Messages /\ ~Unsupported(prompt[i])
  BY DEF Conversations
<1>2. \A i \in DOMAIN prompt : prompt[i].role # "system" => prompt[i] \in Sendable
  BY <1>1 DEF Sendable
<1>3. Sendable \subseteq Messages
  BY DEF Sendable
<1> QED
  BY <1>1, <1>2, <1>3, SpokenTypes

\* Anthropic's and Gemini's turns are turns, one for each message spoken.
LEMMA TurnsAreTurns ==
    ASSUME NEW prompt \in Conversations
    PROVE  /\ IsTurns(AnthropicTurns(prompt)) /\ Pieces(AnthropicTurns(prompt)) = Content(Spoken(prompt))
           /\ IsTurns(GeminiTurns(prompt)) /\ Pieces(GeminiTurns(prompt)) = Content(WithNames(Spoken(prompt)))
<1> DEFINE s == Spoken(prompt)
           n == WithNames(Spoken(prompt))
           a == AnthropicTurns(prompt)
           g == GeminiTurns(prompt)
<1>1. s \in Seq(Sendable)
  BY SpokenSendable
<1>2. /\ DOMAIN a = DOMAIN s /\ a = [i \in DOMAIN s |-> a[i]] /\ \A i \in DOMAIN s : a[i] = AnthropicTurn(s[i])
      /\ DOMAIN g = DOMAIN s /\ g = [i \in DOMAIN s |-> g[i]] /\ \A i \in DOMAIN s : g[i] = GeminiContent(s[i])
  BY DEF AnthropicTurns, GeminiTurns
<1>3. \A m : "blocks" \in DOMAIN AnthropicTurn(m) /\ "blocks" \in DOMAIN GeminiContent(m)
  BY DEF AnthropicTurn, GeminiContent, Turn
<1>4. \A i \in DOMAIN s : s[i] \in Sendable
  BY <1>1
<1>a. DOMAIN n = DOMAIN s /\ \A i \in DOMAIN s : n[i] = NamedOne(s[i])
  <2>1. s \in Seq(Messages)
    <3> HIDE DEF s
    <3>1. Sendable \subseteq Messages
      BY DEF Sendable
    <3> HIDE DEF Sendable
    <3> QED
      BY <1>1, <3>1
  <2> QED
    BY <2>1, NamedAll
<1> HIDE DEF s, a, g, n
<1>5. \A i \in DOMAIN s : /\ a[i].blocks \in BlockSeqs /\ Spelt(a[i].blocks) = Words(s[i])
      /\ "blocks" \in DOMAIN a[i]
                          /\ g[i].blocks \in BlockSeqs /\ Spelt(g[i].blocks) = Words(n[i]) /\ "blocks" \in DOMAIN g[i]
  BY <1>2, <1>3, <1>4, <1>a, TurnsTrue
<1>6. IsTurns(a) /\ IsTurns(g)
  BY <1>1, <1>2, <1>5, MadeTurns
<1>7. Pieces(a) = Content(s)
  BY <1>2, <1>5, <1>6, TurnsSayAll
<1>8. Pieces(g) = Content(n)
  BY <1>2, <1>5, <1>6, <1>a, TurnsSayAll
<1> QED
  BY <1>6, <1>7, <1>8 DEF s, a, g, n

\* So are those of chat completions, one for each message.
LEMMA ChatIsTurns ==
    ASSUME NEW prompt \in Seq(Messages), NEW pad
    PROVE  IsTurns(ChatTurns(prompt, pad)) /\ Pieces(ChatTurns(prompt, pad)) = Content(prompt)
<1> DEFINE c == ChatTurns(prompt, pad)
<1>1. DOMAIN c = DOMAIN prompt /\ c = [i \in DOMAIN prompt |-> c[i]]
        /\ \A i \in DOMAIN prompt : c[i] = ChatMessage(prompt[i], pad)
  BY DEF ChatTurns
<1>2. \A m : "blocks" \in DOMAIN ChatMessage(m, pad)
  BY DEF ChatMessage
<1>3. \A i \in DOMAIN prompt : prompt[i] \in Messages
  OBVIOUS
<1> HIDE DEF c
<1>4. \A i \in DOMAIN prompt : /\ c[i].blocks \in BlockSeqs /\ Spelt(c[i].blocks) = Words(prompt[i])
                               /\ "blocks" \in DOMAIN c[i]
  BY <1>1, <1>2, <1>3, ChatTrue
<1>5. IsTurns(c)
  BY <1>1, <1>4, MadeTurns
<1>6. Pieces(c) = Content(prompt)
  BY <1>1, <1>4, <1>5, TurnsSayAll
<1> QED
  BY <1>5, <1>6 DEF c

\* The turns of Anthropic's request without images, breakpoints or not.
LEMMA RequestTurns ==
    ASSUME NEW prompt, NEW images
    PROVE  LET turns == AppendToLast(AnthropicTurns(prompt), images) IN
           AnthropicRequest(prompt, images).turns = IF OptedIn(prompt) THEN PlaceBreakpoints(turns) ELSE turns
  BY DEF AnthropicRequest, AnthropicTurns

\* Breakpoints change nothing of what is said.
LEMMA PlacedSays ==
    ASSUME NEW turns, IsTurns(turns)
    PROVE  Pieces(PlaceBreakpoints(turns)) = Pieces(turns)
<1> DEFINE new == PlaceBreakpoints(turns)
<1>1. IsTurns(new) /\ DOMAIN new = DOMAIN turns
      /\ \A i \in DOMAIN turns : Spelt(new[i].blocks) = Spelt(turns[i].blocks)
  BY PlacedTurns
<1> HIDE DEF new
<1>2. Pieces(new) = FlattenSeq([i \in DOMAIN new |-> Spelt(new[i].blocks)])
  BY <1>1, PiecesFlat
<1>3. Pieces(turns) = FlattenSeq([i \in DOMAIN turns |-> Spelt(turns[i].blocks)])
  BY PiecesFlat
<1>4. [i \in DOMAIN new |-> Spelt(new[i].blocks)] = [i \in DOMAIN turns |-> Spelt(turns[i].blocks)]
  BY <1>1
<1> QED
  BY <1>2, <1>3, <1>4 DEF new

\* Anthropic's request says all that is spoken.
LEMMA AnthropicSaysAll ==
    ASSUME NEW prompt \in Conversations
    PROVE  Pieces(AnthropicRequest(prompt, 0).turns) = Content(Spoken(prompt))
<1>1. AppendToLast(AnthropicTurns(prompt), 0) = AnthropicTurns(prompt)
  BY NoImages
<1>2. AnthropicRequest(prompt, 0).turns \in {AnthropicTurns(prompt), PlaceBreakpoints(AnthropicTurns(prompt))}
  BY <1>1, RequestTurns
<1>3. IsTurns(AnthropicTurns(prompt)) /\ Pieces(AnthropicTurns(prompt)) = Content(Spoken(prompt))
  BY TurnsAreTurns
<1>4. Pieces(PlaceBreakpoints(AnthropicTurns(prompt))) = Pieces(AnthropicTurns(prompt))
  BY <1>3, PlacedSays
<1> QED
  BY <1>2, <1>3, <1>4

\* So does Gemini's, a result by its function's name.
LEMMA GeminiSaysAll ==
    ASSUME NEW prompt \in Conversations
    PROVE  Pieces(GeminiContents(prompt, 0)) = Content(WithNames(Spoken(prompt)))
<1>1. GeminiContents(prompt, 0) = GeminiTurns(prompt)
  BY NoImages DEF GeminiContents, GeminiTurns
<1> QED
  BY <1>1, TurnsAreTurns

\* That of chat completions says the whole conversation.
LEMMA ChatSaysAll ==
    ASSUME NEW prompt \in Seq(Messages), NEW pad
    PROVE  Pieces(ChatMessages(prompt, 0, pad)) = Content(prompt)
<1>1. ChatMessages(prompt, 0, pad) = ChatTurns(prompt, pad)
  BY NoImages DEF ChatMessages, ChatTurns
<1> QED
  BY <1>1, ChatIsTurns

\* What sequences of blocks spell, one after another.
LEMMA SpeltFlat ==
    ASSUME NEW ss \in Seq(BlockSeqs)
    PROVE  /\ FlattenSeq(ss) \in BlockSeqs
           /\ Spelt(FlattenSeq(ss)) = FlattenSeq([i \in DOMAIN ss |-> Spelt(ss[i])])
<1>1. ss \in Seq(Seq(BlockRecords)) /\ <<>> \in Seq(BlockRecords)
  BY DEF BlockSeqs
<1>2. FlattenSeq(ss) \in BlockSeqs
  <2>1. FlattenSeq(ss) \in Seq(BlockRecords)
    BY <1>1, FlattenAppend
  <2> QED
    BY <2>1 DEF BlockSeqs
<1>3. Spelt(FlattenSeq(ss)) = FlattenSeq(Mapped(OfBlock, FlattenSeq(ss)))
  BY <1>2, SpeltOver
<1>4. Maps(OfBlock, BlockRecords, Seq(Places))
  BY DEF Maps, OfBlock, BlockRecords
<1>5. FlattenSeq(Mapped(OfBlock, FlattenSeq(ss)))
        = FlattenSeq([i \in DOMAIN ss |-> FlattenSeq(Mapped(OfBlock, ss[i]))])
  BY <1>1, <1>4, FlattenOver
<1>6. \A i \in DOMAIN ss : ss[i] \in BlockSeqs
  OBVIOUS
<1>7. \A i \in DOMAIN ss : FlattenSeq(Mapped(OfBlock, ss[i])) = Spelt(ss[i])
  BY <1>6, SpeltOver
<1>8. [i \in DOMAIN ss |-> FlattenSeq(Mapped(OfBlock, ss[i]))] = [i \in DOMAIN ss |-> Spelt(ss[i])]
  BY <1>7
<1> QED
  BY <1>2, <1>3, <1>5, <1>8

\* The system's blocks.
SystemParts(m) ==
    [j \in DOMAIN m.parts |-> IF m.parts[j].text # Empty
                              THEN <<[Text(<<m.parts[j].text>>) EXCEPT !.marked = m.parts[j].cache # "none"]>>
                              ELSE <<>>]

\* The blocks of a message of the system's spell its words.
LEMMA SystemPartsSaid ==
    ASSUME NEW m \in Messages, m.role = "system"
    PROVE  /\ SystemParts(m) \in Seq(BlockSeqs)
           /\ FlattenSeq(SystemParts(m)) \in BlockSeqs
           /\ Spelt(FlattenSeq(SystemParts(m))) = Words(m)
<1> DEFINE s == SystemParts(m)
<1>1. \A j \in DOMAIN m.parts : s[j] \in BlockSeqs /\ Spelt(s[j]) = Spoke(m.parts[j])
  <2> SUFFICES ASSUME NEW j \in DOMAIN m.parts PROVE s[j] \in BlockSeqs /\ Spelt(s[j]) = Spoke(m.parts[j])
    OBVIOUS
  <2> DEFINE p == m.parts[j]
             block == [Text(<<p.text>>) EXCEPT !.marked = p.cache # "none"]
  <2>1. p.kind = "text" /\ p.text \in Places
    BY MessageFacts DEF WellFormed
  <2>2. block \in BlockRecords /\ block.of = <<p.text>>
    <3> DEFINE r == Text(<<p.text>>)
               mark == p.cache # "none"
    <3>1. <<p.text>> \in Seq(Places)
      BY <2>1
    <3>2. r \in BlockRecords /\ r.of = <<p.text>>
      BY <3>1 DEF Text, BlockRecords
    <3>3. mark \in BOOLEAN
      OBVIOUS
    <3> HIDE DEF r, mark
    <3>4. [r EXCEPT !.marked = mark] \in BlockRecords /\ [r EXCEPT !.marked = mark].of = r.of
      BY <3>2, <3>3 DEF BlockRecords
    <3> QED
      BY <3>2, <3>4 DEF r, mark
  <2>3. s[j] = IF p.text # Empty THEN <<block>> ELSE <<>>
    BY DEF SystemParts
  <2>4. Spoke(m.parts[j]) = IF p.text # Empty THEN <<p.text>> ELSE <<>>
    BY <2>1 DEF Spoke
  <2> HIDE DEF block, p, s
  <2>5. <<block>> \in BlockSeqs /\ <<>> \in BlockSeqs
    BY <2>2 DEF BlockSeqs
  <2>6. Spelt(<<block>>) = <<p.text>> /\ Spelt(<<>>) = <<>>
    BY <2>2, SpeltLaws
  <2> QED
    BY <2>3, <2>4, <2>5, <2>6
<1>2. DOMAIN m.parts = 1 .. Len(m.parts) /\ Len(m.parts) \in Nat /\ DOMAIN s = DOMAIN m.parts
  BY MessageFacts DEF SystemParts
<1>3. s \in Seq(BlockSeqs)
  <2>1. s = [j \in DOMAIN m.parts |-> s[j]]
    BY DEF SystemParts
  <2> HIDE DEF s
  <2> QED
    BY <1>1, <1>2, <2>1
<1> HIDE DEF s
<1>4. FlattenSeq(s) \in BlockSeqs /\ Spelt(FlattenSeq(s)) = FlattenSeq([j \in DOMAIN s |-> Spelt(s[j])])
  BY <1>3, SpeltFlat
<1>5. [j \in DOMAIN s |-> Spelt(s[j])] = [j \in DOMAIN m.parts |-> Spoke(m.parts[j])]
  BY <1>1, <1>2
<1>6. FlattenText(m) = FlattenSeq([j \in DOMAIN m.parts |-> Spoke(m.parts[j])])
  BY TextFlat
<1>7. m.calls = <<>>
  BY MessageFacts DEF WellFormed
<1>8. Words(m) = FlattenText(m)
  BY <1>7, WordsOf
<1> QED
  BY <1>3, <1>4, <1>5, <1>6, <1>8 DEF s

\* Anthropic's system blocks say all that the system says.
LEMMA SystemSaysAll ==
    ASSUME NEW prompt \in Seq(Messages)
    PROVE  SystemBlocks(prompt) \in BlockSeqs /\ Spelt(SystemBlocks(prompt)) = Content(System(prompt))
<1> DEFINE s == System(prompt)
           ss == [i \in DOMAIN s |-> FlattenSeq(SystemParts(s[i]))]
<1>1. SystemBlocks(prompt) = FlattenSeq(ss)
  BY DEF SystemBlocks, Gather, Pick, SystemParts
<1>2. s \in Seq({m \in Messages : m.role = "system"})
  BY SystemTypes
<1> HIDE DEF s
<1>3. \A i \in DOMAIN s : s[i] \in Messages /\ s[i].role = "system"
  BY <1>2
<1>4. \A i \in DOMAIN s : ss[i] \in BlockSeqs /\ Spelt(ss[i]) = Words(s[i])
  BY <1>3, SystemPartsSaid
<1>5. DOMAIN s = 1 .. Len(s) /\ Len(s) \in Nat
  BY <1>2
<1>6. ss \in Seq(BlockSeqs) /\ DOMAIN ss = DOMAIN s
  <2>1. ss = [i \in DOMAIN s |-> ss[i]] /\ DOMAIN ss = DOMAIN s
    OBVIOUS
  <2> HIDE DEF ss
  <2> QED
    BY <1>4, <1>5, <2>1
<1> HIDE DEF ss
<1>7. FlattenSeq(ss) \in BlockSeqs /\ Spelt(FlattenSeq(ss)) = FlattenSeq([i \in DOMAIN ss |-> Spelt(ss[i])])
  BY <1>6, SpeltFlat
<1>8. [i \in DOMAIN ss |-> Spelt(ss[i])] = [i \in DOMAIN s |-> Words(s[i])]
  BY <1>4, <1>6
<1>9. Content(s) = FlattenSeq([i \in DOMAIN s |-> Words(s[i])])
  BY ContentFlat
<1> QED
  BY <1>1, <1>7, <1>8, <1>9 DEF s

-----------------------------------------------------------------------------
(* OpenAI's items.                                                         *)

TurnRecords == [role : Roles \cup {"model", "output", "call"}, blocks : BlockSeqs]
PieceOf == [t \in TurnRecords |-> Spelt(t.blocks)]

\* What turns spell, turn by turn.
LEMMA PiecesOver ==
    ASSUME NEW turns \in Seq(TurnRecords)
    PROVE  /\ IsTurns(turns)
           /\ Pieces(turns) = FlattenSeq(Mapped(PieceOf, turns))
           /\ Maps(PieceOf, TurnRecords, Seq(Places))
<1>1. \A i \in DOMAIN turns : turns[i] \in TurnRecords
  OBVIOUS
<1>2. IsTurns(turns)
  BY <1>1 DEF IsTurns, TurnRecords
<1>3. Pieces(turns) = FlattenSeq([i \in DOMAIN turns |-> Spelt(turns[i].blocks)])
  BY <1>2, PiecesFlat
<1>4. [i \in DOMAIN turns |-> Spelt(turns[i].blocks)] = Mapped(PieceOf, turns)
  BY <1>1 DEF Mapped, PieceOf
<1>5. Maps(PieceOf, TurnRecords, Seq(Places))
  <2>1. \A t \in TurnRecords : t.blocks \in BlockSeqs
    BY DEF TurnRecords
  <2>2. \A t \in TurnRecords : Spelt(t.blocks) \in Seq(Places)
    BY <2>1, SpeltOver
  <2> QED
    BY <2>2 DEF Maps, PieceOf
<1> QED
  BY <1>2, <1>3, <1>4, <1>5

\* OpenAI's items of a message spell its words.
LEMMA ItemsTrue ==
    ASSUME NEW m \in Sendable
    PROVE  OpenaiItems(m) \in Seq(TurnRecords) /\ Pieces(OpenaiItems(m)) = Words(m)
<1>1. m \in Messages /\ m.role \in {"user", "assistant", "tool"} /\ ~Unsupported(m)
  BY MessageFacts DEF Sendable, Roles
<1>2. m.calls # <<>> => m.role = "assistant"
  BY <1>1, MessageFacts DEF WellFormed
<1>3. ASSUME NEW t \in TurnRecords PROVE <<t>> \in Seq(TurnRecords) /\ Pieces(<<t>>) = Spelt(t.blocks)
  <2>1. <<t>> \in Seq(TurnRecords)
    OBVIOUS
  <2>2. Mapped(PieceOf, <<t>>) = <<Spelt(t.blocks)>>
    BY DEF Mapped, PieceOf
  <2>3. Spelt(t.blocks) \in Seq(Places)
    BY SpeltOver DEF TurnRecords
  <2>4. FlattenSeq(<<Spelt(t.blocks)>>) = Spelt(t.blocks)
    BY <2>3, FlattenOne
  <2> QED
    BY <2>1, <2>2, <2>4, PiecesOver
<1>4. CASE m.role = "tool"
  <2> DEFINE t == Turn("output", <<Result(m)>>)
  <2>1. OpenaiItems(m) = <<t>>
    BY <1>4 DEF OpenaiItems
  <2>2. t \in TurnRecords /\ t.blocks = <<Result(m)>>
    BY <1>1, BlocksOfMessage DEF Turn, TurnRecords
  <2> HIDE DEF t
  <2> QED
    BY <1>1, <1>3, <1>4, <2>1, <2>2, BlocksOfMessage, WordsOf
<1>5. CASE m.role = "assistant" /\ m.calls # <<>>
  <2> DEFINE first == IF Said(m) = <<>> THEN <<>> ELSE <<Turn("assistant", Said(m))>>
             second == [k \in DOMAIN m.calls |-> Turn("call", <<EachCall(m)[k]>>)]
  <2>1. OpenaiItems(m) = first \o second
    BY <1>5 DEF OpenaiItems
  <2>2. first \in Seq(TurnRecords) /\ Pieces(first) = FlattenText(m)
    <3>1. Said(m) \in BlockSeqs /\ Spelt(Said(m)) = FlattenText(m)
      BY <1>1, BlocksOfMessage
    <3>2. CASE Said(m) = <<>>
      <4>1. FlattenText(m) = <<>>
        BY <3>1, <3>2, SpeltLaws
      <4>2. <<>> \in Seq(TurnRecords) /\ Mapped(PieceOf, <<>>) = <<>>
        BY DEF Mapped
      <4>3. <<>> \in Seq(Places) /\ <<>> \in Seq(Seq(Places))
        OBVIOUS
      <4>4. FlattenSeq(<<>>) = <<>>
        BY <4>3, FlattenAppend
      <4>5. Pieces(<<>>) = <<>>
        BY <4>2, <4>4, PiecesOver
      <4> QED
        BY <3>2, <4>1, <4>2, <4>5
    <3>3. CASE Said(m) # <<>>
      <4> DEFINE t == Turn("assistant", Said(m))
      <4>1. t \in TurnRecords /\ t.blocks = Said(m)
        BY <3>1 DEF Turn, TurnRecords, Roles
      <4>2. first = <<t>>
        BY <3>3
      <4> HIDE DEF t, first
      <4> QED
        BY <1>3, <3>1, <4>1, <4>2
    <3> QED
      BY <3>2, <3>3
  <2>3. second \in Seq(TurnRecords) /\ Pieces(second) = m.calls
    <3>1. \A k \in DOMAIN m.calls : EachCall(m)[k] \in BlockRecords /\ EachCall(m)[k].of = <<m.calls[k]>>
      BY <1>1, MessageFacts DEF EachCall, Use, BlockRecords
    <3>2. \A k \in DOMAIN m.calls : <<EachCall(m)[k]>> \in BlockSeqs
          /\ Spelt(<<EachCall(m)[k]>>) = <<m.calls[k]>>
      BY <3>1, SpeltLaws DEF BlockSeqs
    <3>3. \A k \in DOMAIN m.calls : second[k] \in TurnRecords /\ second[k].blocks = <<EachCall(m)[k]>>
      BY <3>2 DEF Turn, TurnRecords
    <3>4. DOMAIN m.calls = 1 .. Len(m.calls) /\ Len(m.calls) \in Nat /\ DOMAIN second = DOMAIN m.calls
            /\ second = [k \in DOMAIN m.calls |-> second[k]]
      BY <1>1, MessageFacts
    <3> HIDE DEF second
    <3>5. second \in Seq(TurnRecords)
      BY <3>3, <3>4
    <3>6. Mapped(PieceOf, second) = [k \in DOMAIN m.calls |-> <<m.calls[k]>>]
      BY <3>2, <3>3, <3>4 DEF Mapped, PieceOf
    <3>7. m.calls \in Seq(Places)
      BY <1>1, MessageFacts
    <3>8. FlattenSeq([k \in DOMAIN m.calls |-> <<m.calls[k]>>]) = m.calls
      BY <3>7, FlattenSingles
    <3> QED
      BY <3>5, <3>6, <3>8, PiecesOver
  <2> HIDE DEF first, second
  <2>4. first \o second \in Seq(TurnRecords) /\ Pieces(first \o second) = Pieces(first) \o Pieces(second)
    <3> DEFINE x == Mapped(PieceOf, first)
               y == Mapped(PieceOf, second)
    <3>1. Maps(PieceOf, TurnRecords, Seq(Places))
      BY <2>2, PiecesOver
    <3>2. first \o second \in Seq(TurnRecords)
      BY <2>2, <2>3
    <3>3. Mapped(PieceOf, first \o second) = x \o y /\ x \in Seq(Seq(Places)) /\ y \in Seq(Seq(Places))
      BY <2>2, <2>3, <3>1, OverConcat
    <3>4. Pieces(first) = FlattenSeq(x) /\ Pieces(second) = FlattenSeq(y)
            /\ Pieces(first \o second) = FlattenSeq(Mapped(PieceOf, first \o second))
      BY <2>2, <2>3, <3>2, PiecesOver
    <3> HIDE DEF x, y
    <3>5. FlattenSeq(x \o y) = FlattenSeq(x) \o FlattenSeq(y)
      BY <3>3, FlattenConcat
    <3> QED
      BY <3>2, <3>3, <3>4, <3>5
  <2> QED
    BY <1>1, <1>5, <2>1, <2>2, <2>3, <2>4, WordsOf
<1>6. CASE m.role # "tool" /\ m.calls = <<>>
  <2> DEFINE t == Turn(m.role, EachPart(m))
  <2>1. OpenaiItems(m) = <<t>>
    BY <1>6 DEF OpenaiItems
  <2>2. t \in TurnRecords /\ t.blocks = EachPart(m)
    BY <1>1, BlocksOfMessage DEF Turn, TurnRecords, Roles
  <2>3. Spelt(EachPart(m)) = FlattenText(m)
    BY <1>1, <1>6, PartsSpelt
  <2> HIDE DEF t
  <2> QED
    BY <1>1, <1>3, <1>6, <2>1, <2>2, <2>3, WordsOf
<1> QED
  BY <1>1, <1>2, <1>4, <1>5, <1>6

\* OpenAI's input is the items of the messages spoken, one after another.
LEMMA OpenaiFlat ==
    ASSUME NEW prompt \in Conversations
    PROVE  /\ OpenaiInput(prompt, 0) = FlattenSeq([i \in DOMAIN Spoken(prompt) |-> OpenaiItems(Spoken(prompt)[i])])
           /\ [i \in DOMAIN Spoken(prompt) |-> OpenaiItems(Spoken(prompt)[i])] \in Seq(Seq(TurnRecords))
           /\ OpenaiInput(prompt, 0) \in Seq(TurnRecords)
<1> DEFINE s == Spoken(prompt)
           ss == [i \in DOMAIN s |-> OpenaiItems(s[i])]
<1>1. OpenaiInput(prompt, 0) = FlattenSeq(ss)
  BY NoImages DEF OpenaiInput, Gather
<1>2. s \in Seq(Sendable)
  BY SpokenSendable
<1> HIDE DEF s
<1>3. \A i \in DOMAIN s : OpenaiItems(s[i]) \in Seq(TurnRecords)
  BY <1>2, ItemsTrue
<1>4. ss \in Seq(Seq(TurnRecords))
  <2>1. DOMAIN s = 1 .. Len(s) /\ Len(s) \in Nat
    BY <1>2
  <2> QED
    BY <1>3, <2>1
<1> HIDE DEF ss
<1>5. FlattenSeq(ss) \in Seq(TurnRecords)
  BY <1>4, FlattenAppend, EmptySeq
<1> QED
  BY <1>1, <1>4, <1>5 DEF s, ss

\* It says all that is spoken.
LEMMA OpenaiSaysAll ==
    ASSUME NEW prompt \in Conversations
    PROVE  Pieces(OpenaiInput(prompt, 0)) = Content(Spoken(prompt))
<1> DEFINE s == Spoken(prompt)
           ss == [i \in DOMAIN s |-> OpenaiItems(s[i])]
<1>1. /\ OpenaiInput(prompt, 0) = FlattenSeq(ss) /\ ss \in Seq(Seq(TurnRecords))
      /\ FlattenSeq(ss) \in Seq(TurnRecords) /\ DOMAIN ss = DOMAIN s
  BY OpenaiFlat
<1>2. s \in Seq(Sendable)
  BY SpokenSendable
<1> HIDE DEF s
<1>3. \A i \in DOMAIN s : ss[i] = OpenaiItems(s[i]) /\ ss[i] \in Seq(TurnRecords) /\ Pieces(ss[i]) = Words(s[i])
  BY <1>2, ItemsTrue
<1> HIDE DEF ss
<1>4. Pieces(FlattenSeq(ss)) = FlattenSeq(Mapped(PieceOf, FlattenSeq(ss)))
      /\ Maps(PieceOf, TurnRecords, Seq(Places))
  BY <1>1, PiecesOver
<1>5. FlattenSeq(Mapped(PieceOf, FlattenSeq(ss)))
        = FlattenSeq([i \in DOMAIN ss |-> FlattenSeq(Mapped(PieceOf, ss[i]))])
  BY <1>1, <1>4, FlattenOver
<1>6. \A i \in DOMAIN s : FlattenSeq(Mapped(PieceOf, ss[i])) = Words(s[i])
  BY <1>3, PiecesOver
<1>7. [i \in DOMAIN ss |-> FlattenSeq(Mapped(PieceOf, ss[i]))] = [i \in DOMAIN s |-> Words(s[i])]
  BY <1>1, <1>6
<1>8. Content(s) = FlattenSeq([i \in DOMAIN s |-> Words(s[i])])
  BY ContentFlat
<1> QED
  BY <1>1, <1>4, <1>5, <1>7, <1>8 DEF s

\* Of any conversation nothing is dropped.
LEMMA NothingIsDropped == (Talking => Prompt \in Seq(Messages)) => NothingDropped
<1> SUFFICES ASSUME Talking, Prompt \in Seq(Messages)
             PROVE  /\ Pieces(ChatMessages(Prompt, 0, FALSE)) = Content(Prompt)
                    /\ Accepted => /\ Pieces(AnthropicRequest(Prompt, 0).turns) = Content(Spoken(Prompt))
                                   /\ Pieces(OpenaiInput(Prompt, 0)) = Content(Spoken(Prompt))
                                   /\ Pieces(GeminiContents(Prompt, 0)) = Content(WithNames(Spoken(Prompt)))
                    /\ Spelt(SystemBlocks(Prompt)) = Content(System(Prompt))
  BY DEF NothingDropped
<1>1. Accepted => Prompt \in Conversations
  BY DEF Accepted, Conversations
<1> HIDE DEF Prompt
<1> QED
  BY <1>1, ChatSaysAll, AnthropicSaysAll, OpenaiSaysAll, GeminiSaysAll, SystemSaysAll

\* The assistant's turns have reasoning where they must.
LEMMA ReasoningIsThere == (Talking => Prompt \in Seq(Messages)) => ReasoningEverywhere
<1> SUFFICES ASSUME Talking, Prompt \in Seq(Messages), NEW i \in DOMAIN Prompt
             PROVE  LET m == ChatMessages(Prompt, 0, TRUE)[i]
                    IN  /\ Prompt[i].role = "assistant" => m.reasoning # "none"
                        /\ (\E j \in DOMAIN Prompt[i].parts : Prompt[i].parts[j].kind = "reasoning") =>
                                m.reasoning = "own"
  BY DEF ReasoningEverywhere
<1> DEFINE m == Prompt[i]
           thought(p) == p.kind = "reasoning" /\ p.text # Empty
           ss == [j \in DOMAIN m.parts |-> IF thought(m.parts[j]) THEN <<m.parts[j].text>> ELSE <<>>]
<1>1. m \in Messages
  OBVIOUS
<1>2. ChatMessages(Prompt, 0, TRUE)[i].reasoning = Reasoning(m, TRUE)
  <2>1. ChatMessages(Prompt, 0, TRUE) = [k \in DOMAIN Prompt |-> ChatMessage(Prompt[k], TRUE)]
    BY NoImages DEF ChatMessages
  <2>2. ChatMessages(Prompt, 0, TRUE)[i] = ChatMessage(m, TRUE)
    BY <2>1
  <2>3. ChatMessage(m, TRUE).reasoning = Reasoning(m, TRUE)
    BY DEF ChatMessage
  <2> QED
    BY <2>2, <2>3
<1>3. Reasoning(m, TRUE) = IF m.role # "assistant" THEN "none"
                           ELSE IF ~m.string /\ FlattenSeq(ss) # <<>> THEN "own" ELSE "placeholder"
  BY DEF Reasoning, Pick, Gather
<1>4. (\E j \in DOMAIN m.parts : m.parts[j].kind = "reasoning") =>
          m.role = "assistant" /\ ~m.string /\ FlattenSeq(ss) # <<>>
  <2> SUFFICES ASSUME NEW j \in DOMAIN m.parts, m.parts[j].kind = "reasoning"
               PROVE  m.role = "assistant" /\ ~m.string /\ FlattenSeq(ss) # <<>>
    OBVIOUS
  <2>1. m.role = "assistant" /\ ~m.string /\ thought(m.parts[j])
    BY <1>1, MessageFacts DEF WellFormed
  <2>2. DOMAIN m.parts = 1 .. Len(m.parts) /\ Len(m.parts) \in Nat
        /\ \A k \in DOMAIN m.parts : m.parts[k].text \in Places
    BY <1>1, MessageFacts
  <2>3. \A k \in DOMAIN m.parts : ss[k] \in Seq(Places)
    BY <2>2
  <2>4. ss[j] = <<m.parts[j].text>> /\ Len(ss[j]) = 1 /\ ss = [k \in DOMAIN m.parts |-> ss[k]]
    BY <2>1
  <2> HIDE DEF m, ss
  <2>5. ss \in Seq(Seq(Places)) /\ Len(ss) = Len(m.parts)
    <3>1. ss = [k \in 1 .. Len(m.parts) |-> ss[k]] /\ Len(m.parts) \in Nat
            /\ \A k \in 1 .. Len(m.parts) : ss[k] \in Seq(Places)
      BY <2>2, <2>3, <2>4
    <3>2. ss \in [1 .. Len(m.parts) -> Seq(Places)]
      BY ONLY <3>1
    <3> QED
      BY ONLY <3>1, <3>2
  <2>6. j \in 1 .. Len(ss) /\ 1 \in 1 .. Len(ss[j])
    BY <2>2, <2>4, <2>5
  <2>7. /\ Len(FlattenSeq(SubSeq(ss, 1, j - 1))) \in Nat
        /\ Len(FlattenSeq(SubSeq(ss, 1, j - 1))) + 1 \in 1 .. Len(FlattenSeq(ss))
    BY <2>5, <2>6, FlattenAt
  <2>8. Len(FlattenSeq(ss)) # 0
    BY <2>7
  <2>9. FlattenSeq(ss) # <<>>
    BY <2>8, EmptySeq
  <2> QED
    BY <2>1, <2>9 DEF m
<1> QED
  BY <1>2, <1>3, <1>4

-----------------------------------------------------------------------------
(* Turns and their blocks.                                                 *)

\* Sequences of the same lengths have the same lengths when flattened, up to each.
LEMMA SameLengths ==
    ASSUME NEW S, NEW ss \in Seq(Seq(S)), NEW tt \in Seq(Seq(S)), Len(ss) = Len(tt),
           \A i \in 1 .. Len(ss) : Len(ss[i]) = Len(tt[i])
    PROVE  \A k \in 0 .. Len(ss) : Len(FlattenSeq(SubSeq(ss, 1, k))) = Len(FlattenSeq(SubSeq(tt, 1, k)))
<1> DEFINE x(k) == FlattenSeq(SubSeq(ss, 1, k))
           y(k) == FlattenSeq(SubSeq(tt, 1, k))
           P == {k \in Nat : k <= Len(ss) => Len(x(k)) = Len(y(k))}
<1>0. Len(ss) \in Nat
  OBVIOUS
<1>1. \A k \in 0 .. Len(ss) : x(k) \in Seq(S) /\ (k # 0 => x(k) = x(k - 1) \o ss[k])
  BY FlattenSplit
<1>2. \A k \in 0 .. Len(ss) : y(k) \in Seq(S) /\ (k # 0 => y(k) = y(k - 1) \o tt[k])
  BY FlattenSplit
<1>3. SubSeq(ss, 1, 0) = <<>> /\ SubSeq(tt, 1, 0) = <<>>
  BY SubSeqEmpty
<1>4. x(0) = y(0)
  BY <1>3
<1> HIDE DEF x, y
<1>5. 0 \in P
  BY <1>4
<1>6. ASSUME NEW k \in P PROVE k + 1 \in P
  <2> SUFFICES ASSUME k + 1 <= Len(ss) PROVE Len(x(k + 1)) = Len(y(k + 1))
    OBVIOUS
  <2> DEFINE j == k + 1
  <2>1. j \in 0 .. Len(ss) /\ j \in 1 .. Len(ss) /\ j # 0 /\ j - 1 = k /\ k \in 0 .. Len(ss) /\ k <= Len(ss)
    BY <1>0
  <2>2. Len(x(k)) = Len(y(k))
    BY <2>1
  <2> HIDE DEF j
  <2>3. x(j) = x(k) \o ss[j] /\ y(j) = y(k) \o tt[j]
    BY <1>1, <1>2, <2>1
  <2>4. x(k) \in Seq(S) /\ y(k) \in Seq(S)
    BY <1>1, <1>2, <2>1
  <2>5. ss[j] \in Seq(S) /\ tt[j] \in Seq(S) /\ Len(ss[j]) = Len(tt[j])
    BY <2>1
  <2> DEFINE u == x(k)
             v == y(k)
             s == ss[j]
             t == tt[j]
  <2>6. u \in Seq(S) /\ v \in Seq(S) /\ s \in Seq(S) /\ t \in Seq(S)
    BY <2>4, <2>5
  <2>7. x(j) = u \o s /\ y(j) = v \o t /\ Len(u) = Len(v) /\ Len(s) = Len(t)
    BY <2>2, <2>3, <2>5
  <2> HIDE DEF u, v, s, t
  <2>8. Len(u \o s) = Len(u) + Len(s) /\ Len(v \o t) = Len(v) + Len(t)
    BY ONLY <2>6
  <2> QED
    BY <2>7, <2>8 DEF j
<1> HIDE DEF P
<1>7. \A k \in Nat : k \in P
  BY <1>5, <1>6, AllNaturals DEF P
<1> SUFFICES ASSUME NEW k \in 0 .. Len(ss) PROVE Len(x(k)) = Len(y(k))
  BY DEF x, y
<1>8. k \in P /\ k <= Len(ss)
  BY <1>7
<1> QED
  BY <1>8 DEF P

\* The blocks of the first turns.
LEMMA FirstBlocks ==
    ASSUME NEW turns, IsTurns(turns), NEW k \in 0 .. Len(turns)
    PROVE  /\ IsTurns(SubSeq(turns, 1, k))
           /\ BlocksOf(SubSeq(turns, 1, k)) = SubSeq(BlocksOf(turns), 1, k)
           /\ Blocks(SubSeq(turns, 1, k)) = FlattenSeq(SubSeq(BlocksOf(turns), 1, k))
<1> DEFINE first == SubSeq(turns, 1, k)
           ss == BlocksOf(turns)
<1>1. PICK T : turns \in Seq(T)
  BY DEF IsTurns
<1>2. first \in Seq(T) /\ Len(first) = k /\ \A i \in 1 .. k : first[i] = turns[i]
  BY <1>1, Beginnings
<1>3. Len(turns) \in Nat /\ k \in Nat /\ k <= Len(turns) /\ DOMAIN turns = 1 .. Len(turns)
  BY <1>1
<1> HIDE DEF first
<1>4. DOMAIN first = 1 .. k
  BY <1>2
<1>5. \A i \in 1 .. k : first[i] = turns[i] /\ i \in DOMAIN turns
  BY <1>2, <1>3
<1>6. \A i \in 1 .. k : first[i].blocks \in BlockSeqs /\ "blocks" \in DOMAIN first[i]
  BY <1>5 DEF IsTurns
<1>7. IsTurns(first)
  BY <1>2, <1>4, <1>6 DEF IsTurns
<1>8. BlocksOf(first) \in Seq(BlockSeqs) /\ Len(BlocksOf(first)) = k
      /\ \A i \in 1 .. k : BlocksOf(first)[i] = turns[i].blocks
  BY <1>2, <1>4, <1>5, <1>7, BlocksFlat DEF BlocksOf
<1>9. ss \in Seq(BlockSeqs) /\ Len(ss) = Len(turns) /\ \A i \in 1 .. k : ss[i] = turns[i].blocks
  BY <1>5, BlocksFlat DEF BlocksOf
<1> HIDE DEF ss
<1>10. SubSeq(ss, 1, k) \in Seq(BlockSeqs) /\ Len(SubSeq(ss, 1, k)) = k
       /\ \A i \in 1 .. k : SubSeq(ss, 1, k)[i] = ss[i]
  <2>1. k \in 0 .. Len(ss)
    BY <1>9
  <2> QED
    BY <1>9, <2>1, Beginnings
<1> DEFINE u == BlocksOf(first)
           v == SubSeq(ss, 1, k)
<1>11. u \in Seq(BlockSeqs) /\ v \in Seq(BlockSeqs) /\ Len(u) = k /\ Len(v) = k /\ \A i \in 1 .. k : u[i] = v[i]
  BY <1>8, <1>9, <1>10
<1> HIDE DEF u, v
<1>12. u = v
  BY <1>11, SeqEqual
<1>13. Blocks(first) = FlattenSeq(u)
  BY <1>7, BlocksFlat DEF u
<1> QED
  BY <1>7, <1>12, <1>13 DEF first, ss, u, v

\* A block by its turn and its place there.
LEMMA BlockAt ==
    ASSUME NEW turns, IsTurns(turns), NEW i \in 1 .. Len(turns), NEW b \in 1 .. Len(turns[i].blocks)
    PROVE  /\ Len(Blocks(SubSeq(turns, 1, i - 1))) \in Nat
           /\ Len(Blocks(SubSeq(turns, 1, i - 1))) + b \in 1 .. Len(Blocks(turns))
           /\ Blocks(turns)[Len(Blocks(SubSeq(turns, 1, i - 1))) + b] = turns[i].blocks[b]
<1> DEFINE ss == BlocksOf(turns)
           n == i - 1
<1>1. ss \in Seq(BlockSeqs) /\ Len(ss) = Len(turns) /\ ss[i] = turns[i].blocks /\ Blocks(turns) = FlattenSeq(ss)
        /\ Len(turns) \in Nat
  BY BlocksFlat DEF BlocksOf
<1>2. n \in 0 .. Len(turns)
  BY <1>1
<1>3. Blocks(SubSeq(turns, 1, n)) = FlattenSeq(SubSeq(ss, 1, n))
  BY <1>2, FirstBlocks
<1> HIDE DEF ss
<1>4. ss \in Seq(Seq(BlockRecords)) /\ i \in 1 .. Len(ss) /\ b \in 1 .. Len(ss[i])
  BY <1>1 DEF BlockSeqs
<1>5. /\ Len(FlattenSeq(SubSeq(ss, 1, i - 1))) \in Nat
      /\ Len(FlattenSeq(SubSeq(ss, 1, i - 1))) + b \in 1 .. Len(FlattenSeq(ss))
      /\ FlattenSeq(ss)[Len(FlattenSeq(SubSeq(ss, 1, i - 1))) + b] = ss[i][b]
  BY <1>4, FlattenAt
<1> QED
  BY <1>1, <1>3, <1>5

\* Every block is a block of a turn.
LEMMA BlockFound ==
    ASSUME NEW turns, IsTurns(turns), NEW k \in 1 .. Len(Blocks(turns))
    PROVE  \E i \in 1 .. Len(turns) : \E b \in 1 .. Len(turns[i].blocks) :
               k = Len(Blocks(SubSeq(turns, 1, i - 1))) + b
<1> DEFINE ss == BlocksOf(turns)
<1>1. ss \in Seq(BlockSeqs) /\ Len(ss) = Len(turns) /\ Blocks(turns) = FlattenSeq(ss) /\ Len(turns) \in Nat
        /\ \A i \in 1 .. Len(turns) : ss[i] = turns[i].blocks
  BY BlocksFlat DEF BlocksOf
<1>2. \A i \in 1 .. Len(turns) : Blocks(SubSeq(turns, 1, i - 1)) = FlattenSeq(SubSeq(ss, 1, i - 1))
  <2> SUFFICES ASSUME NEW i \in 1 .. Len(turns)
               PROVE  Blocks(SubSeq(turns, 1, i - 1)) = FlattenSeq(SubSeq(ss, 1, i - 1))
    OBVIOUS
  <2> DEFINE n == i - 1
  <2>1. n \in 0 .. Len(turns)
    BY <1>1
  <2> HIDE DEF n, ss
  <2>2. Blocks(SubSeq(turns, 1, n)) = FlattenSeq(SubSeq(ss, 1, n))
    BY <2>1, FirstBlocks DEF ss
  <2> QED
    BY <2>2 DEF n
<1> HIDE DEF ss
<1>3. ss \in Seq(Seq(BlockRecords)) /\ k \in 1 .. Len(FlattenSeq(ss))
  BY <1>1 DEF BlockSeqs
<1>4. PICK i \in 1 .. Len(ss) : \E b \in 1 .. Len(ss[i]) : k = Len(FlattenSeq(SubSeq(ss, 1, i - 1))) + b
  BY <1>3, FlattenCovered
<1> QED
  BY <1>1, <1>2, <1>4

\* The breakpoints are at the targets and nowhere else, and change no length.
LEMMA MarksAtTargets ==
    ASSUME NEW turns, IsTurns(turns)
    PROVE  /\ Len(Blocks(PlaceBreakpoints(turns))) = Len(Blocks(turns))
           /\ Len(Blocks(turns)) \in Nat
           /\ MarkedAt(Blocks(PlaceBreakpoints(turns)))
                = {k \in 1 .. Len(Blocks(turns)) : k - 1 \in Targets(Len(Blocks(turns)))}
           /\ \A k \in 1 .. Len(Blocks(turns)) :
                  /\ Blocks(PlaceBreakpoints(turns))[k].kind = Blocks(turns)[k].kind
                  /\ Blocks(PlaceBreakpoints(turns))[k].of = Blocks(turns)[k].of
<1> DEFINE new == PlaceBreakpoints(turns)
           count == Len(Blocks(turns))
           before(i) == Len(Blocks(SubSeq(turns, 1, i - 1)))
<1>1. /\ IsTurns(new) /\ DOMAIN new = DOMAIN turns /\ Len(new) = Len(turns)
      /\ \A i \in DOMAIN turns :
             /\ Len(new[i].blocks) = Len(turns[i].blocks)
             /\ DOMAIN new[i].blocks = DOMAIN turns[i].blocks
             /\ \A b \in DOMAIN turns[i].blocks :
                    /\ new[i].blocks[b].marked = (before(i) + b - 1 \in Targets(count))
                    /\ new[i].blocks[b].of = turns[i].blocks[b].of
                    /\ new[i].blocks[b].kind = turns[i].blocks[b].kind
  BY PlacedTurns
<1>2. /\ DOMAIN turns = 1 .. Len(turns) /\ Len(turns) \in Nat
      /\ BlocksOf(turns) \in Seq(BlockSeqs) /\ Len(BlocksOf(turns)) = Len(turns)
      /\ Blocks(turns) = FlattenSeq(BlocksOf(turns)) /\ Blocks(turns) \in BlockSeqs
      /\ \A i \in DOMAIN turns : BlocksOf(turns)[i] = turns[i].blocks
  BY BlocksFlat DEF BlocksOf
<1> HIDE DEF new
<1>3. /\ BlocksOf(new) \in Seq(BlockSeqs) /\ Len(BlocksOf(new)) = Len(turns)
      /\ Blocks(new) = FlattenSeq(BlocksOf(new)) /\ Blocks(new) \in BlockSeqs
      /\ \A i \in DOMAIN turns : BlocksOf(new)[i] = new[i].blocks
  BY <1>1, BlocksFlat DEF BlocksOf
<1> DEFINE ss == BlocksOf(new)
           tt == BlocksOf(turns)
<1>4. ss \in Seq(Seq(BlockRecords)) /\ tt \in Seq(Seq(BlockRecords)) /\ Len(ss) = Len(turns)
      /\ Len(tt) = Len(turns)
        /\ \A i \in 1 .. Len(ss) : Len(ss[i]) = Len(tt[i])
  BY <1>1, <1>2, <1>3 DEF BlockSeqs
<1>5. \A k \in 0 .. Len(turns) : Len(FlattenSeq(SubSeq(ss, 1, k))) = Len(FlattenSeq(SubSeq(tt, 1, k)))
  <2> HIDE DEF ss, tt
  <2>1. Len(ss) = Len(tt) /\ Len(ss) = Len(turns)
    BY <1>4
  <2>2. \A k \in 0 .. Len(ss) : Len(FlattenSeq(SubSeq(ss, 1, k))) = Len(FlattenSeq(SubSeq(tt, 1, k)))
    BY <1>4, <2>1, SameLengths
  <2> QED
    BY <2>1, <2>2
<1>6. \A k \in 0 .. Len(turns) : Len(Blocks(SubSeq(new, 1, k))) = Len(Blocks(SubSeq(turns, 1, k)))
  <2> SUFFICES ASSUME NEW k \in 0 .. Len(turns)
               PROVE  Len(Blocks(SubSeq(new, 1, k))) = Len(Blocks(SubSeq(turns, 1, k)))
    OBVIOUS
  <2>1. Blocks(SubSeq(turns, 1, k)) = FlattenSeq(SubSeq(tt, 1, k))
    BY FirstBlocks
  <2>2. k \in 0 .. Len(new)
    BY <1>1
  <2>3. Blocks(SubSeq(new, 1, k)) = FlattenSeq(SubSeq(ss, 1, k))
    BY <1>1, <2>2, FirstBlocks
  <2> QED
    BY <1>5, <2>1, <2>3
<1>7. Len(Blocks(new)) = count /\ count \in Nat
  <2>1. SubSeq(ss, 1, Len(ss)) = ss /\ SubSeq(tt, 1, Len(tt)) = tt
    BY <1>4, SubSeqFull
  <2>2. Len(turns) \in 0 .. Len(turns)
    BY <1>2
  <2>3. Len(FlattenSeq(ss)) = Len(FlattenSeq(tt))
    BY <1>4, <1>5, <2>1, <2>2
  <2> QED
    BY <1>2, <1>3, <2>3 DEF BlockSeqs
<1>8. ASSUME NEW k \in 1 .. count
      PROVE  /\ Blocks(new)[k].marked = (k - 1 \in Targets(count))
             /\ Blocks(new)[k].kind = Blocks(turns)[k].kind /\ Blocks(new)[k].of = Blocks(turns)[k].of
  <2>1. k \in 1 .. Len(Blocks(new))
    BY <1>7
  <2>2. PICK i \in 1 .. Len(new) : \E b \in 1 .. Len(new[i].blocks) : k = Len(Blocks(SubSeq(new, 1, i - 1))) + b
    BY <1>1, <2>1, BlockFound
  <2>3. PICK b \in 1 .. Len(new[i].blocks) : k = Len(Blocks(SubSeq(new, 1, i - 1))) + b
    BY <2>2
  <2>4. Blocks(new)[k] = new[i].blocks[b] /\ Len(Blocks(SubSeq(new, 1, i - 1))) \in Nat
    <3> DEFINE f == Len(Blocks(SubSeq(new, 1, i - 1)))
    <3>1. i \in 1 .. Len(new) /\ b \in 1 .. Len(new[i].blocks)
      BY <2>2, <2>3
    <3>2. f \in Nat /\ Blocks(new)[f + b] = new[i].blocks[b]
      BY <1>1, <3>1, BlockAt
    <3> QED
      BY <2>3, <3>2
  <2>5. i - 1 \in 0 .. Len(turns) /\ i \in DOMAIN turns
    BY <1>1, <1>2, <2>2
  <2>6. Len(Blocks(SubSeq(new, 1, i - 1))) = before(i)
    BY <1>6, <2>5
  <2>7. b \in DOMAIN turns[i].blocks
    <3>1. new[i].blocks \in Seq(BlockRecords)
      BY <1>1, <2>5 DEF IsTurns, BlockSeqs
    <3>2. b \in DOMAIN new[i].blocks
      BY <2>3, <3>1
    <3> QED
      BY <1>1, <2>5, <3>2
  <2>8. /\ new[i].blocks[b].marked = (before(i) + b - 1 \in Targets(count))
        /\ new[i].blocks[b].of = turns[i].blocks[b].of /\ new[i].blocks[b].kind = turns[i].blocks[b].kind
    BY <1>1, <2>5, <2>7
  <2>9. i \in 1 .. Len(turns) /\ b \in 1 .. Len(turns[i].blocks)
    <3>1. turns[i].blocks \in Seq(BlockRecords)
      BY <2>5 DEF IsTurns, BlockSeqs
    <3> QED
      BY <1>2, <2>5, <2>7, <3>1
  <2>10. Blocks(turns)[before(i) + b] = turns[i].blocks[b]
    BY <2>9, BlockAt
  <2>13. new[i].blocks[b].marked = (k - 1 \in Targets(count))
    BY <2>3, <2>4, <2>6, <2>8
  <2> HIDE DEF before
  <2>11. k = before(i) + b
    BY <2>3, <2>6
  <2>12. Blocks(turns)[k] = turns[i].blocks[b] /\ Blocks(new)[k] = new[i].blocks[b]
    BY <2>3, <2>4, <2>10, <2>11
  <2> QED
    BY <2>8, <2>12, <2>13
<1>9. MarkedAt(Blocks(new)) = {k \in 1 .. count : k - 1 \in Targets(count)}
  <2>1. DOMAIN Blocks(new) = 1 .. count
    BY <1>3, <1>7 DEF BlockSeqs
  <2> HIDE DEF count
  <2> QED
    BY <1>8, <2>1 DEF MarkedAt
<1> QED
  BY <1>7, <1>8, <1>9 DEF new

-----------------------------------------------------------------------------
(* The images.                                                             *)

\* The last of some places.
LastOf(S) == CHOOSE i \in S : \A j \in S : j <= i

\* It is one of them, and none is after it.
LEMMA LastOfSome ==
    ASSUME NEW n \in Nat, NEW S \in SUBSET (1 .. n), S # {}
    PROVE  LastOf(S) \in S /\ \A j \in S : j <= LastOf(S)
<1> DEFINE left == {n - j : j \in S}
<1>0. \A j \in S : j \in Nat /\ n - j \in Nat
  OBVIOUS
<1>1. left \in SUBSET Nat /\ left # {}
  BY <1>0
<1> HIDE DEF left
<1>2. PICK d \in left : \A e \in left : d <= e
  BY <1>1, LeastOf
<1>3. PICK i \in S : d = n - i
  BY <1>2 DEF left
<1>4. \A j \in S : n - j \in left /\ j \in Nat
  BY DEF left
<1>5. \A j \in S : j <= i
  <2> SUFFICES ASSUME NEW j \in S PROVE j <= i
    OBVIOUS
  <2>1. d <= n - j /\ j \in Nat /\ i \in Nat
    BY <1>2, <1>3, <1>4
  <2> QED
    BY <1>3, <2>1
<1> QED
  BY <1>5 DEF LastOf

\* There is no other such place.
LEMMA LastOfIs ==
    ASSUME NEW S \in SUBSET Nat, NEW k \in S, \A j \in S : j <= k
    PROVE  LastOf(S) = k
<1>1. LastOf(S) \in S /\ \A j \in S : j <= LastOf(S)
  BY DEF LastOf
<1>2. LastOf(S) <= k /\ k <= LastOf(S) /\ LastOf(S) \in Nat /\ k \in Nat
  BY <1>1
<1> QED
  BY <1>2

Users(turns) == {i \in DOMAIN turns : turns[i].role = "user"}
Images(n) == [k \in 1 .. n |-> Image]

\* The images get into the last of the user's turns, or into one of their own.
LEMMA Appended ==
    ASSUME NEW turns, IsTurns(turns), NEW n \in Nat \ {0},
           NEW B \in SUBSET BlockRecords, Image \in B, \A i \in DOMAIN turns : turns[i].blocks \in Seq(B)
    PROVE  LET new == AppendToLast(turns, n) IN
           /\ IsTurns(new)
           /\ \A i \in DOMAIN new : new[i].blocks \in Seq(B)
           /\ Users(turns) = {} => /\ Len(new) = Len(turns) + 1
                                   /\ new[Len(turns) + 1].blocks = Images(n)
                                   /\ \A i \in 1 .. Len(turns) : new[i].blocks = turns[i].blocks
           /\ Users(turns) # {} => /\ LastOf(Users(turns)) \in 1 .. Len(turns)
                                   /\ Len(new) = Len(turns)
                                   /\ new[LastOf(Users(turns))].blocks
                                        = turns[LastOf(Users(turns))].blocks \o Images(n)
                                   /\ \A i \in 1 .. Len(turns) :
                                          i # LastOf(Users(turns)) => new[i].blocks = turns[i].blocks
<1> DEFINE new == AppendToLast(turns, n)
           users == Users(turns)
           last == LastOf(users)
           imgs == Images(n)
<1>1. PICK T : turns \in Seq(T)
  BY DEF IsTurns
<1>2. DOMAIN turns = 1 .. Len(turns) /\ Len(turns) \in Nat
        /\ \A i \in DOMAIN turns : turns[i].blocks \in Seq(B) /\ "blocks" \in DOMAIN turns[i]
  BY <1>1 DEF IsTurns
<1>3. new = IF users = {} THEN Append(turns, Turn("user", imgs))
            ELSE [turns EXCEPT ![last].blocks = @ \o imgs]
  BY DEF AppendToLast, Users, LastOf, Images
<1>4. imgs \in Seq(B)
  BY DEF Images
<1>5. \A s \in Seq(B) : s \in BlockSeqs
  BY DEF BlockSeqs
<1>6. users \in SUBSET (1 .. Len(turns))
  BY <1>2 DEF Users
<1> HIDE DEF new, users, imgs, last
<1>7. CASE users = {}
  <2> DEFINE t == Turn("user", imgs)
  <2>1. new = Append(turns, t) /\ t.blocks = imgs /\ "blocks" \in DOMAIN t
    BY <1>3, <1>7 DEF Turn
  <2> HIDE DEF t
  <2> DEFINE Tt == T \cup {t}
  <2>2. turns \in Seq(Tt) /\ t \in Tt
    BY <1>1
  <2>3. new \in Seq(Tt) /\ Len(new) = Len(turns) + 1 /\ new[Len(turns) + 1] = t
          /\ \A i \in 1 .. Len(turns) : new[i] = turns[i]
    BY <2>1, <2>2
  <2> HIDE DEF Tt
  <2>4. DOMAIN new = 1 .. Len(turns) + 1
    BY <2>3
  <2>5. \A i \in DOMAIN new : new[i].blocks \in Seq(B) /\ "blocks" \in DOMAIN new[i]
    <3> SUFFICES ASSUME NEW i \in 1 .. Len(turns) + 1
                 PROVE  new[i].blocks \in Seq(B) /\ "blocks" \in DOMAIN new[i]
      BY <2>4
    <3>1. i \in 1 .. Len(turns) \/ i = Len(turns) + 1
      BY <1>2
    <3>2. CASE i \in 1 .. Len(turns)
      BY <3>2, <1>2, <2>3
    <3>3. CASE i = Len(turns) + 1
      BY <3>3, <1>4, <2>1, <2>3
    <3> QED
      BY <3>1, <3>2, <3>3
  <2>6. IsTurns(new)
    BY <1>5, <2>3, <2>5 DEF IsTurns
  <2> QED
    BY <1>7, <2>1, <2>3, <2>5, <2>6 DEF new, users, imgs
<1>8. CASE users # {}
  <2>1. last \in 1 .. Len(turns)
    BY <1>2, <1>6, <1>8, LastOfSome DEF last
  <2>2. new = [turns EXCEPT ![last].blocks = @ \o imgs]
    BY <1>3, <1>8
  <2>3. DOMAIN new = DOMAIN turns /\ new = [i \in DOMAIN turns |-> new[i]]
    BY <2>2
  <2>4. new[last].blocks = turns[last].blocks \o imgs /\ "blocks" \in DOMAIN new[last]
    BY <1>2, <2>1, <2>2
  <2>5. \A i \in 1 .. Len(turns) : i # last => new[i] = turns[i]
    BY <1>2, <2>2
  <2>6. turns[last].blocks \o imgs \in Seq(B)
    <3>1. turns[last].blocks \in Seq(B)
      BY <1>2, <2>1
    <3> QED
      BY <1>4, <3>1
  <2>7. \A i \in DOMAIN turns : new[i].blocks \in Seq(B) /\ "blocks" \in DOMAIN new[i]
    <3> SUFFICES ASSUME NEW i \in DOMAIN turns PROVE new[i].blocks \in Seq(B) /\ "blocks" \in DOMAIN new[i]
      OBVIOUS
    <3>1. CASE i = last
      BY <3>1, <2>4, <2>6
    <3>2. CASE i # last
      <4>1. new[i] = turns[i]
        BY <3>2, <1>2, <2>5
      <4> QED
        BY <4>1, <1>2
    <3> QED
      BY <3>1, <3>2
  <2>8. IsTurns(new)
    <3>1. \A i \in DOMAIN turns : new[i].blocks \in BlockSeqs /\ "blocks" \in DOMAIN new[i]
      BY <1>5, <2>7
    <3> QED
      BY <1>1, <2>3, <3>1, MadeTurns
  <2>9. Len(new) = Len(turns)
    <3>1. new \in Seq({new[i] : i \in DOMAIN turns})
      <4> DEFINE Tt == {new[i] : i \in DOMAIN turns}
      <4>1. \A i \in 1 .. Len(turns) : new[i] \in Tt
        BY <1>2
      <4> HIDE DEF Tt
      <4>2. new \in [1 .. Len(turns) -> Tt]
        BY <4>1, <2>3, <1>2
      <4>3. new \in Seq(Tt)
        BY <4>2, <1>2
      <4> QED
        BY <4>3 DEF Tt
    <3>2. DOMAIN new = 1 .. Len(turns)
      BY <2>3, <1>2
    <3> QED
      BY <3>1, <3>2, <1>2
  <2> QED
    BY <1>8, <2>1, <2>3, <2>4, <2>5, <2>7, <2>8, <2>9 DEF new, users, imgs, last
<1> QED
  BY <1>7, <1>8

\* The blocks of turns that have only some kinds of block.
LEMMA BlocksWithin ==
    ASSUME NEW turns, IsTurns(turns), NEW B, \A i \in DOMAIN turns : turns[i].blocks \in Seq(B)
    PROVE  Blocks(turns) \in Seq(B)
<1>1. BlocksOf(turns) = [i \in 1 .. Len(turns) |-> turns[i].blocks] /\ Len(turns) \in Nat
        /\ DOMAIN turns = 1 .. Len(turns)
  BY BlocksFlat DEF BlocksOf
<1>2. BlocksOf(turns) \in Seq(Seq(B))
  BY <1>1
<1>3. Blocks(turns) = FlattenSeq(BlocksOf(turns))
  BY BlocksFlat
<1> QED
  BY <1>2, <1>3, FlattenAppend, EmptySeq

\* What the adapters make of a message: neither an image nor a mark.
FreshBlocks == {b \in BlockRecords : ~b.marked /\ b.kind # "image"}
Unmarked == {b \in BlockRecords : ~b.marked}

\* Adapters make such blocks of a message,
LEMMA FreshMessages ==
    ASSUME NEW m \in Messages
    PROVE  /\ Said(m) \in Seq(FreshBlocks) /\ EachCall(m) \in Seq(FreshBlocks) /\ EachPart(m) \in Seq(FreshBlocks)
           /\ <<Result(m)>> \in Seq(FreshBlocks) /\ (m.role = "tool" => <<Result(ByName(m))>> \in Seq(FreshBlocks))
<1>1. Said(m) \in Seq(FreshBlocks)
  <2>1. FlattenText(m) \in Seq(Places)
    BY TextFlat
  <2>2. Text(FlattenText(m)) \in FreshBlocks
    BY <2>1 DEF Text, BlockRecords, FreshBlocks
  <2> QED
    BY <2>2 DEF Said
<1>2. EachCall(m) \in Seq(FreshBlocks)
  <2>1. \A k \in DOMAIN m.calls : Use(m.calls[k]) \in FreshBlocks
    BY MessageFacts DEF Use, BlockRecords, FreshBlocks
  <2>2. DOMAIN m.calls = 1 .. Len(m.calls) /\ Len(m.calls) \in Nat
    BY MessageFacts
  <2> HIDE DEF FreshBlocks
  <2> QED
    BY <2>1, <2>2 DEF EachCall
<1>3. EachPart(m) \in Seq(FreshBlocks)
  <2>1. \A j \in DOMAIN m.parts :
            Text(IF m.parts[j].text = Empty THEN <<>> ELSE <<m.parts[j].text>>) \in FreshBlocks
    BY MessageFacts DEF Text, BlockRecords, FreshBlocks
  <2>2. DOMAIN m.parts = 1 .. Len(m.parts) /\ Len(m.parts) \in Nat
    BY MessageFacts
  <2> HIDE DEF FreshBlocks
  <2> QED
    BY <2>1, <2>2 DEF EachPart
<1>4. \A n \in Messages : Result(n) \in FreshBlocks
  BY BlocksOfMessage DEF Result, FreshBlocks
<1>5. m.role = "tool" => ByName(m) \in Messages
  BY NamedMessages
<1> DEFINE one == Result(m)
           two == Result(ByName(m))
<1>6. one \in FreshBlocks /\ (m.role = "tool" => two \in FreshBlocks)
  BY <1>4, <1>5
<1> HIDE DEF one, two, FreshBlocks
<1>7. <<one>> \in Seq(FreshBlocks) /\ (m.role = "tool" => <<two>> \in Seq(FreshBlocks))
  BY <1>6
<1> QED
  BY <1>1, <1>2, <1>3, <1>7 DEF one, two

\* and their turns are of such blocks, none dropped.
LEMMA FreshTurns ==
    ASSUME NEW prompt \in Conversations
    PROVE  /\ \A i \in DOMAIN Spoken(prompt) : AnthropicTurn(Spoken(prompt)[i]).blocks \in Seq(FreshBlocks)
                                               /\ GeminiContent(Spoken(prompt)[i]).blocks \in Seq(FreshBlocks)
           /\ \A i \in DOMAIN prompt : \A pad : ChatMessage(prompt[i], pad).blocks \in Seq(FreshBlocks)
<1>1. \A m \in Messages : Said(m) \o EachCall(m) \in Seq(FreshBlocks)
      /\ EachPart(m) \in Seq(FreshBlocks) /\ <<Result(m)>> \in Seq(FreshBlocks)
      /\ (m.role = "tool" => <<Result(ByName(m))>> \in Seq(FreshBlocks))
  <2> SUFFICES ASSUME NEW m \in Messages
               PROVE  Said(m) \o EachCall(m) \in Seq(FreshBlocks) /\ EachPart(m) \in Seq(FreshBlocks)
                      /\ <<Result(m)>> \in Seq(FreshBlocks)
                      /\ (m.role = "tool" => <<Result(ByName(m))>> \in Seq(FreshBlocks))
    OBVIOUS
  <2> DEFINE x == Said(m)
             y == EachCall(m)
  <2>1. x \in Seq(FreshBlocks) /\ y \in Seq(FreshBlocks) /\ EachPart(m) \in Seq(FreshBlocks)
        /\ <<Result(m)>> \in Seq(FreshBlocks)
        /\ (m.role = "tool" => <<Result(ByName(m))>> \in Seq(FreshBlocks))
    BY FreshMessages
  <2> HIDE DEF x, y, FreshBlocks
  <2>2. x \o y \in Seq(FreshBlocks)
    BY <2>1
  <2> QED
    BY <2>1, <2>2 DEF x, y
<1>2. \A m \in Messages : AnthropicTurn(m).blocks \in Seq(FreshBlocks)
      /\ GeminiContent(m).blocks \in Seq(FreshBlocks)
                          /\ \A pad : ChatMessage(m, pad).blocks \in Seq(FreshBlocks)
  <2> SUFFICES ASSUME NEW m \in Messages, NEW pad
               PROVE  AnthropicTurn(m).blocks \in Seq(FreshBlocks) /\ GeminiContent(m).blocks \in Seq(FreshBlocks)
                      /\ ChatMessage(m, pad).blocks \in Seq(FreshBlocks)
    OBVIOUS
  <2>1. AnthropicTurn(m).blocks \in {<<Result(m)>>, Said(m) \o EachCall(m), EachPart(m)}
    BY DEF AnthropicTurn, Turn
  <2>2. \/ GeminiContent(m).blocks \in {Said(m) \o EachCall(m), EachPart(m)}
        \/ m.role = "tool" /\ GeminiContent(m).blocks = <<Result(ByName(m))>>
    BY DEF GeminiContent, Turn
  <2>3. ChatMessage(m, pad).blocks \in {<<Result(m)>>, Said(m) \o EachCall(m)}
    BY DEF ChatMessage
  <2> QED
    BY <1>1, <2>1, <2>2, <2>3
<1>3. \A i \in DOMAIN prompt : prompt[i] \in Messages
  BY DEF Conversations
<1>4. \A i \in DOMAIN Spoken(prompt) : Spoken(prompt)[i] \in Messages
  <2> DEFINE s == Spoken(prompt)
  <2>1. s \in Seq(Sendable)
    BY SpokenSendable
  <2> HIDE DEF s
  <2>2. \A i \in DOMAIN s : s[i] \in Sendable
    BY <2>1
  <2> QED
    BY <2>2 DEF s, Sendable
<1> QED
  BY <1>2, <1>3, <1>4

-----------------------------------------------------------------------------
(* The breakpoints.                                                        *)

\* No more than n keep their marker, and with two or more the ends do.
LEMMA KeptFew ==
    ASSUME NEW marks \in SUBSET Nat, IsFiniteSet(marks), NEW n \in Nat
    PROVE  /\ Kept(marks, n) \subseteq marks
           /\ IsFiniteSet(Kept(marks, n)) /\ Cardinality(Kept(marks, n)) <= n
           /\ n >= 2 =>
                 \A b \in marks : (\A c \in marks : b <= c) \/ (\A c \in marks : b >= c) => b \in Kept(marks, n)
<1> DEFINE above(b) == {c \in marks : c >= b}
           many == {b \in marks : Cardinality(above(b)) < n}
           first == {b \in marks : \A c \in marks : b <= c}
<1>0. Cardinality(marks) \in Nat
  BY FS_CardinalityType
<1>1. Kept(marks, n) = IF Cardinality(marks) <= n THEN marks ELSE IF n = 0 THEN {} ELSE many \cup first
  BY DEF Kept
<1>2. Kept(marks, n) \subseteq marks
  BY <1>1
<1>3. IsFiniteSet(Kept(marks, n))
  BY <1>2, FS_Subset
<1>4. IsFiniteSet(many) /\ IsFiniteSet(first)
  <2>1. many \subseteq marks /\ first \subseteq marks
    OBVIOUS
  <2> QED
    BY <2>1, FS_Subset
<1>5. n # 0 => Cardinality(many) <= n - 1
  <2> SUFFICES ASSUME n # 0 PROVE Cardinality(many) <= n - 1
    OBVIOUS
  <2>1. CASE many = {}
    <3>1. Cardinality(many) = 0
      BY <2>1, FS_EmptySet
    <3> HIDE DEF many
    <3> QED
      BY <3>1
  <2>2. CASE many # {}
    <3>1. many \in SUBSET Nat
      OBVIOUS
    <3> HIDE DEF many
    <3>2. PICK b \in many : \A c \in many : b <= c
      BY <2>2, <3>1, LeastOf
    <3>3. many \subseteq above(b)
      BY <3>1, <3>2 DEF many
    <3>4. IsFiniteSet(above(b)) /\ Cardinality(above(b)) \in Nat
      <4>1. above(b) \subseteq marks
        OBVIOUS
      <4>2. IsFiniteSet(above(b))
        BY <4>1, FS_Subset
      <4> QED
        BY <4>2, FS_CardinalityType
    <3>5. Cardinality(many) <= Cardinality(above(b))
      BY <3>3, <3>4, FS_Subset
    <3>6. Cardinality(above(b)) < n
      BY <3>2 DEF many
    <3>7. Cardinality(many) \in Nat
      BY <1>4, FS_CardinalityType
    <3> HIDE DEF above
    <3> QED
      BY <3>4, <3>5, <3>6, <3>7
  <2> QED
    BY <2>1, <2>2
<1>6. Cardinality(first) <= 1
  <2>1. CASE first = {}
    BY <2>1, FS_EmptySet
  <2>2. CASE first # {}
    <3>1. PICK b \in first : TRUE
      BY <2>2
    <3>2. first \subseteq {b}
      <4>1. \A c \in first : c <= b /\ b <= c /\ b \in Nat /\ c \in Nat
        BY <3>1
      <4> HIDE DEF first
      <4>2. \A c \in first : c = b
        BY <4>1
      <4> QED
        BY <4>2
    <3>3. IsFiniteSet({b}) /\ Cardinality({b}) = 1
      BY FS_Singleton
    <3>4. Cardinality(first) <= Cardinality({b})
      BY <3>2, <3>3, FS_Subset
    <3> QED
      BY <3>3, <3>4
  <2> QED
    BY <2>1, <2>2
<1>7. Cardinality(Kept(marks, n)) <= n
  <2>1. CASE Cardinality(marks) <= n
    BY <1>1, <2>1
  <2>2. CASE ~(Cardinality(marks) <= n) /\ n = 0
    <3>1. Kept(marks, n) = {}
      BY <1>1, <2>2
    <3>2. Cardinality(Kept(marks, n)) = 0
      BY <3>1, FS_EmptySet
    <3> QED
      BY <3>2
  <2>3. CASE ~(Cardinality(marks) <= n) /\ n # 0
    <3>1. Kept(marks, n) = many \cup first
      BY <1>1, <2>3
    <3> HIDE DEF many, first
    <3>2. Cardinality(many \cup first) = Cardinality(many) + Cardinality(first) - Cardinality(many \cap first)
            /\ IsFiniteSet(many \cap first)
      <4>1. many \cap first \subseteq many
        OBVIOUS
      <4>2. IsFiniteSet(many \cap first)
        BY <1>4, <4>1, FS_Subset
      <4> QED
        BY <1>4, <4>2, FS_Union
    <3>3. Cardinality(many) \in Nat /\ Cardinality(first) \in Nat /\ Cardinality(many \cap first) \in Nat
      BY <1>4, <3>2, FS_CardinalityType
    <3> QED
      BY <1>5, <1>6, <2>3, <3>1, <3>2, <3>3
  <2> QED
    BY <2>1, <2>2, <2>3
<1>8. ASSUME n >= 2, NEW b \in marks, (\A c \in marks : b <= c) \/ (\A c \in marks : b >= c)
      PROVE  b \in Kept(marks, n)
  <2>1. b \in many \cup first
    <3>1. CASE \A c \in marks : b <= c
      BY <3>1
    <3>2. CASE \A c \in marks : b >= c
      <4>1. above(b) = {b}
        <5>1. \A c \in marks : c \in Nat /\ b \in Nat /\ b >= c
          BY <3>2, <1>8
        <5>2. \A c \in marks : c >= b <=> c = b
          BY ONLY <5>1
        <5>3. b \in marks
          BY <1>8
        <5> QED
          BY <5>2, <5>3, Zenon
      <4>2. Cardinality(above(b)) = 1
        BY <4>1, FS_Singleton
      <4>3. Cardinality(above(b)) < n
        BY <1>8, <4>2
      <4> QED
        BY <4>3
    <3> QED
      BY <1>8, <3>1, <3>2
  <2>2. n # 0
    BY <1>8
  <2> HIDE DEF many, first
  <2> QED
    BY <1>1, <1>8, <2>1, <2>2
<1> QED
  BY <1>2, <1>3, <1>7, <1>8

\* At most two breakpoints are placed.
LEMMA TargetsTwo ==
    ASSUME NEW count \in Nat, NEW marks, marks = {k \in 1 .. count : k - 1 \in Targets(count)}
    PROVE  IsFiniteSet(marks) /\ Cardinality(marks) <= 2
<1> DEFINE a == count
           b == MilestoneInterval * ((count - 1) \div MilestoneInterval)
<1>1. marks \subseteq {a, b}
  <2> SUFFICES ASSUME NEW k \in marks PROVE k = a \/ k = b
    OBVIOUS
  <2>1. k \in Nat /\ k - 1 \in Targets(count)
    OBVIOUS
  <2>2. count # 0
    BY <2>1 DEF Targets
  <2>3. k - 1 = count - 1 \/ k - 1 = b - 1
    BY <2>1, <2>2 DEF Targets
  <2>4. (count - 1) \div MilestoneInterval \in Int /\ MilestoneInterval \in Int
    BY <2>2 DEF MilestoneInterval
  <2>5. b \in Int
    BY <2>4
  <2> HIDE DEF b
  <2> QED
    BY <2>1, <2>3, <2>5
<1> HIDE DEF a, b
<1>2. IsFiniteSet({a, b}) /\ Cardinality({a, b}) <= 2
  <2>1. IsFiniteSet({a}) /\ Cardinality({a}) = 1
    BY FS_Singleton
  <2>2. {a, b} = {a} \cup {b}
    OBVIOUS
  <2>3. IsFiniteSet({a} \cup {b})
        /\ (Cardinality({a} \cup {b}) = Cardinality({a}) \/ Cardinality({a} \cup {b}) = Cardinality({a}) + 1)
    BY <2>1, FS_AddElement
  <2>4. Cardinality({a} \cup {b}) <= 2
    <3> DEFINE m == Cardinality({a} \cup {b})
               n == Cardinality({a})
    <3>1. n = 1 /\ (m = n \/ m = n + 1)
      BY <2>1, <2>3
    <3> HIDE DEF m, n
    <3>2. m <= 2
      BY <3>1
    <3> QED
      BY <3>2 DEF m
  <2> QED
    BY <2>2, <2>3, <2>4
<1>3. IsFiniteSet(marks) /\ Cardinality(marks) <= Cardinality({a, b})
  BY <1>1, <1>2, FS_Subset
<1>4. Cardinality(marks) \in Nat /\ Cardinality({a, b}) \in Nat
  BY <1>2, <1>3, FS_CardinalityType
<1> HIDE DEF Targets
<1> QED
  BY <1>2, <1>3, <1>4

-----------------------------------------------------------------------------
(* The breakpoints of a request.                                           *)

\* The turns of Anthropic's request, before the breakpoints.
LEMMA UnmarkedTurns ==
    ASSUME NEW prompt \in Conversations, NEW n \in Nat
    PROVE  /\ IsTurns(AppendToLast(AnthropicTurns(prompt), n))
           /\ Blocks(AppendToLast(AnthropicTurns(prompt), n)) \in Seq(Unmarked)
<1> DEFINE turns == AnthropicTurns(prompt)
           new == AppendToLast(turns, n)
<1>1. IsTurns(turns)
  BY TurnsAreTurns
<1>2. \A i \in DOMAIN turns : turns[i].blocks \in Seq(FreshBlocks)
  BY FreshTurns DEF AnthropicTurns
<1>3. FreshBlocks \subseteq Unmarked /\ Unmarked \in SUBSET BlockRecords /\ Image \in Unmarked
  BY DEF FreshBlocks, Unmarked, BlockRecords, Image
<1> HIDE DEF turns
<1>4. \A i \in DOMAIN turns : turns[i].blocks \in Seq(Unmarked)
  <2> HIDE DEF FreshBlocks, Unmarked
  <2> QED
    BY <1>2, <1>3
<1>5. IsTurns(new) /\ \A i \in DOMAIN new : new[i].blocks \in Seq(Unmarked)
  <2>1. CASE n = 0
    BY <1>1, <1>4, <2>1, NoImages
  <2>2. CASE n # 0
    <3>1. n \in Nat \ {0}
      BY <2>2
    <3> QED
      BY <1>1, <1>3, <1>4, <3>1, Appended
  <2> QED
    BY <2>1, <2>2
<1> HIDE DEF new
<1>6. Blocks(new) \in Seq(Unmarked)
  BY <1>5, BlocksWithin
<1> QED
  BY <1>5, <1>6 DEF new, turns

\* The breakpoints of a request: at the targets once the conversation has opted in, and no more than two.
LEMMA RequestMarks ==
    ASSUME NEW prompt \in Conversations, NEW n \in Nat
    PROVE  LET turns == AppendToLast(AnthropicTurns(prompt), n)
               count == Len(Blocks(turns))
               made == Blocks(AnthropicRequest(prompt, n).turns)
           IN  /\ count \in Nat /\ Len(made) = count
               /\ MarkedAt(made) = IF OptedIn(prompt) THEN {k \in 1 .. count : k - 1 \in Targets(count)} ELSE {}
               /\ IsFiniteSet(MarkedAt(made)) /\ Cardinality(MarkedAt(made)) <= 2
<1> DEFINE turns == AppendToLast(AnthropicTurns(prompt), n)
           count == Len(Blocks(turns))
           made == Blocks(AnthropicRequest(prompt, n).turns)
           marks == MarkedAt(made)
<1>1. IsTurns(turns) /\ Blocks(turns) \in Seq(Unmarked)
  BY UnmarkedTurns
<1>2. AnthropicRequest(prompt, n).turns = IF OptedIn(prompt) THEN PlaceBreakpoints(turns) ELSE turns
  BY RequestTurns
<1> HIDE DEF turns
<1>3. Len(Blocks(PlaceBreakpoints(turns))) = count /\ count \in Nat
        /\ MarkedAt(Blocks(PlaceBreakpoints(turns))) = {k \in 1 .. count : k - 1 \in Targets(count)}
  BY <1>1, MarksAtTargets
<1>4. MarkedAt(Blocks(turns)) = {}
  <2>1. \A b \in DOMAIN Blocks(turns) : ~Blocks(turns)[b].marked
    BY <1>1 DEF Unmarked
  <2> QED
    BY <2>1 DEF MarkedAt
<1> HIDE DEF count
<1>5. Len(made) = count /\ marks = IF OptedIn(prompt) THEN {k \in 1 .. count : k - 1 \in Targets(count)} ELSE {}
  BY <1>2, <1>3, <1>4 DEF count
<1> HIDE DEF made, marks
<1>6. IsFiniteSet(marks) /\ Cardinality(marks) <= 2
  <2>1. CASE OptedIn(prompt)
    <3>1. marks = {k \in 1 .. count : k - 1 \in Targets(count)}
      BY <1>5, <2>1
    <3> QED
      BY <1>3, <3>1, TargetsTwo
  <2>2. CASE ~OptedIn(prompt)
    <3>1. marks = {}
      BY <1>5, <2>2
    <3>2. IsFiniteSet(marks) /\ Cardinality(marks) = 0
      BY <3>1, FS_EmptySet
    <3> QED
      BY <3>2
  <2> QED
    BY <2>1, <2>2
<1> QED
  BY <1>3, <1>5, <1>6 DEF turns, count, made, marks

\* The system's markers that a request keeps.
LEMMA SystemMarked ==
    ASSUME NEW prompt \in Conversations, NEW n \in Nat
    PROVE  LET marks == Cardinality(MarkedAt(Blocks(AnthropicRequest(prompt, n).turns)))
               wanted == MarkedAt(SystemBlocks(prompt))
               room == MaxBreakpoints - marks
           IN  /\ MarkedAt(AnthropicRequest(prompt, n).system) = Kept(wanted, room)
               /\ wanted \in SUBSET Nat /\ IsFiniteSet(wanted)
               /\ marks \in Nat /\ room \in Nat /\ room >= 2 /\ marks + room = MaxBreakpoints
<1> DEFINE turns == AppendToLast(AnthropicTurns(prompt), n)
           placed == IF OptedIn(prompt) THEN PlaceBreakpoints(turns) ELSE turns
           marks == Cardinality(MarkedAt(Blocks(placed)))
           blocks == SystemBlocks(prompt)
           wanted == MarkedAt(blocks)
           room == MaxBreakpoints - marks
           kept == SystemMarks(prompt, marks)
           made == [b \in DOMAIN blocks |-> [blocks[b] EXCEPT !.marked = b \in kept]]
<1>1. AnthropicRequest(prompt, n).system = made /\ AnthropicRequest(prompt, n).turns = placed
  BY DEF AnthropicRequest, AnthropicTurns
<1>2. kept = Kept(wanted, room)
  BY DEF SystemMarks
<1>3. blocks \in BlockSeqs
  <2>1. prompt \in Seq(Messages)
    BY DEF Conversations
  <2> QED
    BY <2>1, SystemSaysAll
<1>4. IsFiniteSet(MarkedAt(Blocks(placed))) /\ marks <= 2
  BY <1>1, RequestMarks
<1>5. marks \in Nat
  BY <1>4, FS_CardinalityType
<1> HIDE DEF blocks, placed, marks
<1>6. room \in Nat /\ room >= 2 /\ marks + room = MaxBreakpoints
  BY <1>4, <1>5 DEF MaxBreakpoints
<1>7. /\ DOMAIN blocks = 1 .. Len(blocks) /\ Len(blocks) \in Nat
      /\ \A b \in DOMAIN blocks : blocks[b] \in BlockRecords
  BY <1>3 DEF BlockSeqs
<1>8. wanted \subseteq 1 .. Len(blocks)
  BY <1>7 DEF MarkedAt
<1>9. wanted \in SUBSET Nat /\ IsFiniteSet(wanted)
  <2>1. 1 \in Int /\ Len(blocks) \in Int
    BY <1>7
  <2>2. IsFiniteSet(1 .. Len(blocks))
    BY <2>1, FS_Interval, Zenon
  <2>3. IsFiniteSet(wanted)
    BY <1>8, <2>2, FS_Subset
  <2> QED
    BY <1>8, <2>3
<1> HIDE DEF wanted, room, kept
<1>10. kept \subseteq wanted
  BY <1>2, <1>6, <1>9, KeptFew
<1>11. MarkedAt(made) = kept
  <2>1. DOMAIN made = DOMAIN blocks
    OBVIOUS
  <2>2. ASSUME NEW b \in DOMAIN blocks PROVE made[b].marked = (b \in kept)
    <3>1. made[b] = [blocks[b] EXCEPT !.marked = b \in kept] /\ blocks[b] \in BlockRecords
      BY <1>7
    <3> QED
      BY <3>1 DEF BlockRecords
  <2> HIDE DEF made
  <2>3. kept \subseteq DOMAIN blocks
    BY <1>7, <1>8, <1>10
  <2> QED
    BY <2>1, <2>2, <2>3 DEF MarkedAt
<1> HIDE DEF made
<1> QED
  BY <1>1, <1>2, <1>5, <1>6, <1>9, <1>11 DEF blocks, wanted, room, marks

\* No request has more breakpoints than it may, whatever is marked.
LEMMA BreakpointsDoFit == (Talking => Prompt \in Seq(Messages)) => BreakpointsFit
<1> SUFFICES ASSUME Talking, Prompt \in Seq(Messages), Accepted, NEW n \in 0 .. 1
             PROVE  Cardinality(MarkedAt(Blocks(AnthropicRequest(Prompt, n).turns)))
                       + Cardinality(MarkedAt(AnthropicRequest(Prompt, n).system)) <= MaxBreakpoints
  BY DEF BreakpointsFit
<1> DEFINE marks == Cardinality(MarkedAt(Blocks(AnthropicRequest(Prompt, n).turns)))
           wanted == MarkedAt(SystemBlocks(Prompt))
           room == MaxBreakpoints - marks
           kept == MarkedAt(AnthropicRequest(Prompt, n).system)
<1>1. Prompt \in Conversations /\ n \in Nat
  BY DEF Accepted, Conversations
<1> HIDE DEF Prompt
<1>2. /\ kept = Kept(wanted, room)
      /\ wanted \in SUBSET Nat /\ IsFiniteSet(wanted)
      /\ marks \in Nat /\ room \in Nat /\ room >= 2 /\ marks + room = MaxBreakpoints
  BY <1>1, SystemMarked
<1> HIDE DEF marks, wanted, room, kept
<1>3. IsFiniteSet(kept) /\ Cardinality(kept) <= room
  BY <1>2, KeptFew
<1>4. Cardinality(kept) \in Nat
  BY <1>3, FS_CardinalityType
<1>5. marks + Cardinality(kept) <= MaxBreakpoints
  BY <1>2, <1>3, <1>4 DEF MaxBreakpoints
<1> QED
  BY <1>5 DEF marks, kept

\* The first and the last of the system's markers stay.
LEMMA SystemEndsAreKept == (Talking => Prompt \in Seq(Messages)) => SystemEndsKept
<1> SUFFICES ASSUME Talking, Prompt \in Seq(Messages), Accepted
             PROVE  \A b \in MarkedAt(SystemBlocks(Prompt)) :
                        (\A c \in MarkedAt(SystemBlocks(Prompt)) : b <= c)
                            \/ (\A c \in MarkedAt(SystemBlocks(Prompt)) : b >= c)
                          => b \in MarkedAt(AnthropicRequest(Prompt, 0).system)
  BY DEF SystemEndsKept
<1> DEFINE marks == Cardinality(MarkedAt(Blocks(AnthropicRequest(Prompt, 0).turns)))
           wanted == MarkedAt(SystemBlocks(Prompt))
           room == MaxBreakpoints - marks
           kept == MarkedAt(AnthropicRequest(Prompt, 0).system)
<1>1. Prompt \in Conversations /\ 0 \in Nat
  BY DEF Accepted, Conversations
<1> HIDE DEF Prompt
<1>2. /\ kept = Kept(wanted, room)
      /\ wanted \in SUBSET Nat /\ IsFiniteSet(wanted)
      /\ room \in Nat /\ room >= 2
  BY <1>1, SystemMarked
<1> HIDE DEF marks, wanted, room, kept
<1>3. \A b \in wanted : (\A c \in wanted : b <= c) \/ (\A c \in wanted : b >= c) => b \in kept
  BY <1>2, KeptFew
<1> QED
  BY <1>3 DEF wanted, kept

-----------------------------------------------------------------------------
(* What an earlier request has put into the cache.                         *)

\* What comes first is no longer than the whole.
LEMMA FlattenStarts ==
    ASSUME NEW S, NEW ss \in Seq(Seq(S)), NEW k \in 0 .. Len(ss)
    PROVE  /\ Len(FlattenSeq(SubSeq(ss, 1, k))) \in Nat
           /\ Len(FlattenSeq(ss)) \in Nat
           /\ Len(FlattenSeq(SubSeq(ss, 1, k))) <= Len(FlattenSeq(ss))
<1> DEFINE x == FlattenSeq(SubSeq(ss, 1, k))
<1>1. PICK after \in Seq(S) : x \in Seq(S) /\ FlattenSeq(ss) = x \o after
  <2>1. \E after \in Seq(S) :
               /\ FlattenSeq(SubSeq(ss, 1, k)) \in Seq(S)
               /\ FlattenSeq(ss) = FlattenSeq(SubSeq(ss, 1, k)) \o after
               /\ k # 0 => FlattenSeq(SubSeq(ss, 1, k)) = FlattenSeq(SubSeq(ss, 1, k - 1)) \o ss[k]
    BY FlattenSplit
  <2> QED
    BY <2>1
<1> HIDE DEF x
<1>2. x \in Seq(S) /\ after \in Seq(S)
  BY <1>1
<1>3. Len(x \o after) = Len(x) + Len(after) /\ Len(x) \in Nat /\ Len(after) \in Nat
  BY ONLY <1>2
<1>4. Len(x) \in Nat /\ Len(FlattenSeq(ss)) \in Nat /\ Len(x) <= Len(FlattenSeq(ss))
  BY <1>1, <1>3
<1> QED
  BY <1>4 DEF x

\* The beginning of a conversation is one.
LEMMA PrefixOf ==
    ASSUME NEW prompt \in Conversations, NEW n \in DOMAIN prompt
    PROVE  /\ SubSeq(prompt, 1, n) \in Conversations
           /\ DOMAIN prompt = 1 .. Len(prompt) /\ Len(prompt) \in Nat /\ n \in 1 .. Len(prompt)
           /\ DOMAIN SubSeq(prompt, 1, n) = 1 .. n /\ Len(SubSeq(prompt, 1, n)) = n
           /\ \A i \in 1 .. n : SubSeq(prompt, 1, n)[i] = prompt[i] /\ i \in DOMAIN prompt
           /\ SubSeq(prompt, 1, Len(prompt)) = prompt
<1> DEFINE pre == SubSeq(prompt, 1, n)
<1>1. prompt \in Seq(Messages) /\ \A i \in DOMAIN prompt : ~Unsupported(prompt[i])
  BY DEF Conversations
<1>2. DOMAIN prompt = 1 .. Len(prompt) /\ Len(prompt) \in Nat /\ n \in 1 .. Len(prompt)
      /\ n \in 0 .. Len(prompt)
  BY <1>1
<1>3. pre \in Seq(Messages) /\ Len(pre) = n /\ \A i \in 1 .. n : pre[i] = prompt[i]
  BY <1>1, <1>2, Beginnings
<1>4. SubSeq(prompt, 1, Len(prompt)) = prompt
  BY <1>1, SubSeqFull
<1> HIDE DEF pre
<1>5. DOMAIN pre = 1 .. n
  BY <1>3
<1>6. \A i \in 1 .. n : i \in DOMAIN prompt
  BY <1>2
<1>7. pre \in Conversations
  BY <1>1, <1>3, <1>5, <1>6 DEF Conversations
<1> QED
  BY <1>2, <1>3, <1>4, <1>5, <1>6, <1>7 DEF pre

\* What it has spoken comes first in the whole.
LEMMA SpokenGrows ==
    ASSUME NEW prompt \in Conversations, NEW n \in DOMAIN prompt
    PROVE  \E after \in Seq(Sendable) : Spoken(prompt) = Spoken(SubSeq(prompt, 1, n)) \o after
<1> DEFINE pre == SubSeq(prompt, 1, n)
           F(m) == IF m.role # "system" THEN <<m>> ELSE <<>>
           ss == [i \in DOMAIN prompt |-> F(prompt[i])]
           tt == [i \in DOMAIN pre |-> F(pre[i])]
<1>1. Spoken(prompt) = FlattenSeq(ss) /\ Spoken(pre) = FlattenSeq(tt)
  BY DEF Spoken, Pick, Gather
<1>2. DOMAIN prompt = 1 .. Len(prompt) /\ Len(prompt) \in Nat /\ n \in 1 .. Len(prompt) /\ DOMAIN pre = 1 .. n
        /\ \A i \in 1 .. n : pre[i] = prompt[i]
  BY PrefixOf
<1>3. \A i \in DOMAIN prompt : prompt[i] \in Messages /\ ~Unsupported(prompt[i])
  BY DEF Conversations
<1>4. \A i \in 1 .. Len(prompt) : ss[i] \in Seq(Sendable) /\ ss[i] = F(prompt[i])
  <2> SUFFICES ASSUME NEW i \in DOMAIN prompt PROVE F(prompt[i]) \in Seq(Sendable)
    BY <1>2
  <2>1. prompt[i].role # "system" => prompt[i] \in Sendable
    BY <1>3 DEF Sendable
  <2> QED
    BY <2>1
<1>5. \A i \in 1 .. n : tt[i] = F(prompt[i])
  BY <1>2
<1>6. ss = [i \in 1 .. Len(prompt) |-> ss[i]] /\ tt = [i \in 1 .. n |-> tt[i]]
  BY <1>2
<1> HIDE DEF ss, tt, F, pre
<1>7. ss \in Seq(Seq(Sendable)) /\ Len(ss) = Len(prompt)
  <2>1. ss \in [1 .. Len(prompt) -> Seq(Sendable)]
    BY <1>4, <1>6
  <2> QED
    BY <1>2, <2>1
<1>8. n \in Nat /\ n \in 0 .. Len(ss) /\ \A i \in 1 .. n : i \in 1 .. Len(prompt)
  BY <1>2, <1>7
<1>9. tt \in Seq(Seq(Sendable)) /\ Len(tt) = n
  <2>1. \A i \in 1 .. n : tt[i] \in Seq(Sendable)
    BY <1>4, <1>5, <1>8
  <2>2. tt \in [1 .. n -> Seq(Sendable)]
    BY <1>6, <2>1
  <2> QED
    BY <1>8, <2>2
<1>10. SubSeq(ss, 1, n) = tt
  <2> DEFINE u == SubSeq(ss, 1, n)
  <2>1. u \in Seq(Seq(Sendable)) /\ Len(u) = n /\ \A i \in 1 .. n : u[i] = ss[i]
    BY <1>7, <1>8, Beginnings
  <2> HIDE DEF u
  <2>2. \A i \in 1 .. n : u[i] = tt[i]
    BY <1>4, <1>5, <1>8, <2>1
  <2>3. u = tt
    BY <1>9, <2>1, <2>2, SeqEqual
  <2> QED
    BY <2>3 DEF u
<1>11. PICK after \in Seq(Sendable) : FlattenSeq(ss) = FlattenSeq(SubSeq(ss, 1, n)) \o after
  <2>1. \E after \in Seq(Sendable) :
               /\ FlattenSeq(SubSeq(ss, 1, n)) \in Seq(Sendable)
               /\ FlattenSeq(ss) = FlattenSeq(SubSeq(ss, 1, n)) \o after
               /\ n # 0 => FlattenSeq(SubSeq(ss, 1, n)) = FlattenSeq(SubSeq(ss, 1, n - 1)) \o ss[n]
    BY <1>7, <1>8, FlattenSplit
  <2> QED
    BY <2>1
<1> QED
  BY <1>1, <1>10, <1>11 DEF pre

\* A message that is spoken has its place in what is.
LEMMA SpokenPlace ==
    ASSUME NEW prompt \in Conversations, NEW i \in DOMAIN prompt, prompt[i].role # "system"
    PROVE  \E k \in DOMAIN Spoken(prompt) : Spoken(prompt)[k] = prompt[i]
<1> DEFINE F(m) == IF m.role # "system" THEN <<m>> ELSE <<>>
           ss == [j \in DOMAIN prompt |-> F(prompt[j])]
<1>1. Spoken(prompt) = FlattenSeq(ss)
  BY DEF Spoken, Pick, Gather
<1>2. prompt \in Seq(Messages) /\ DOMAIN prompt = 1 .. Len(prompt) /\ Len(prompt) \in Nat
  BY DEF Conversations
<1>3. \A j \in 1 .. Len(prompt) : ss[j] \in Seq(Messages)
  BY <1>2, SMTT(30)
<1>4. ss[i] = <<prompt[i]>> /\ ss = [j \in 1 .. Len(prompt) |-> ss[j]]
  BY <1>2
<1> HIDE DEF ss
<1>5. ss \in Seq(Seq(Messages)) /\ Len(ss) = Len(prompt)
  <2>1. ss \in [1 .. Len(prompt) -> Seq(Messages)]
    BY <1>3, <1>4
  <2> QED
    BY <1>2, <2>1
<1>6. i \in 1 .. Len(ss) /\ 1 \in 1 .. Len(ss[i])
  BY <1>2, <1>4, <1>5
<1> DEFINE k == Len(FlattenSeq(SubSeq(ss, 1, i - 1))) + 1
<1>7. k \in 1 .. Len(FlattenSeq(ss)) /\ FlattenSeq(ss)[k] = ss[i][1]
  BY <1>5, <1>6, FlattenAt, SMTT(30)
<1>8. FlattenSeq(ss) \in Seq(Messages)
  BY <1>5, FlattenAppend, EmptySeq
<1> HIDE DEF k
<1>9. k \in DOMAIN FlattenSeq(ss)
  BY <1>7, <1>8
<1>10. FlattenSeq(ss)[k] = prompt[i]
  BY <1>4, <1>7
<1> QED
  BY <1>1, <1>9, <1>10

\* A conversation that has opted in has a block at least.
LEMMA OptedInSpeaks ==
    ASSUME NEW prompt \in Conversations, OptedIn(prompt)
    PROVE  Len(Blocks(AnthropicTurns(prompt))) >= 1
<1> DEFINE turns == AnthropicTurns(prompt)
<1>1. PICK i \in DOMAIN prompt : prompt[i].role # "system"
      /\ \E j \in DOMAIN prompt[i].parts : prompt[i].parts[j].cache # "none"
  BY DEF OptedIn
<1>2. PICK j \in DOMAIN prompt[i].parts : prompt[i].parts[j].cache # "none"
  BY <1>1
<1> DEFINE m == prompt[i]
<1>3. m \in Messages
  BY <1>1 DEF Conversations
<1>4. PICK k \in DOMAIN Spoken(prompt) : Spoken(prompt)[k] = m
  BY <1>1, SpokenPlace
<1>5. j \in DOMAIN m.parts /\ m.parts[j].cache # "none" /\ m.role # "system"
  BY <1>1, <1>2
<1> HIDE DEF m
<1>6. WellFormed(m) /\ DOMAIN m.parts = 1 .. Len(m.parts) /\ Len(m.parts) \in Nat
  BY <1>3, MessageFacts
<1>7. m.role = "user"
  BY <1>5, <1>6 DEF WellFormed
<1>8. turns[k].blocks = EachPart(m)
  <2>1. turns[k] = AnthropicTurn(m)
    BY <1>4 DEF AnthropicTurns
  <2>2. AnthropicTurn(m) = Turn("user", EachPart(m))
    BY <1>7 DEF AnthropicTurn
  <2> QED
    BY <2>1, <2>2 DEF Turn
<1>9. IsTurns(turns)
  BY TurnsAreTurns
<1>10. k \in 1 .. Len(turns)
  <2>1. DOMAIN turns = DOMAIN Spoken(prompt)
    BY DEF AnthropicTurns
  <2>2. DOMAIN turns = 1 .. Len(turns)
    BY <1>9, BlocksFlat
  <2> QED
    BY <1>4, <2>1, <2>2
<1> HIDE DEF turns
<1>11. Len(EachPart(m)) = Len(m.parts)
  BY <1>6 DEF EachPart
<1>12. j \in 1 .. Len(turns[k].blocks)
  BY <1>5, <1>6, <1>8, <1>11
<1>13. /\ Len(Blocks(SubSeq(turns, 1, k - 1))) \in Nat
       /\ Len(Blocks(SubSeq(turns, 1, k - 1))) + j \in 1 .. Len(Blocks(turns))
  BY <1>9, <1>10, <1>12, BlockAt
<1>14. Len(Blocks(turns)) \in Nat
  <2>1. Blocks(turns) \in BlockSeqs
    BY <1>9, BlocksFlat
  <2> QED
    BY <2>1 DEF BlockSeqs
<1>15. Len(Blocks(turns)) >= 1
  BY <1>13, <1>14
<1> QED
  BY <1>15 DEF turns

-----------------------------------------------------------------------------
(* Where the images are.                                                   *)

\* Before finds what has been said before the first image.
LEMMA BeforeImage ==
    ASSUME NEW turns, Blocks(turns) \in BlockSeqs, NEW x \in BlockSeqs,
           Len(x) + 1 <= Len(Blocks(turns)),
           Blocks(turns)[Len(x) + 1].kind = "image",
           \A k \in 1 .. Len(x) : x[k].kind # "image" /\ Blocks(turns)[k].kind = x[k].kind
                                  /\ Blocks(turns)[k].of = x[k].of
    PROVE  Before(turns) = LastPiece(Spelt(x))
<1> DEFINE blocks == Blocks(turns)
           n == Len(x)
           at == CHOOSE b \in DOMAIN blocks :
                    blocks[b].kind = "image" /\ \A c \in DOMAIN blocks : blocks[c].kind = "image" => b <= c
           x2 == SubSeq(blocks, 1, n)
<1>1. /\ blocks \in Seq(BlockRecords) /\ DOMAIN blocks = 1 .. Len(blocks) /\ Len(blocks) \in Nat
      /\ x \in Seq(BlockRecords) /\ n \in Nat /\ n + 1 <= Len(blocks) /\ DOMAIN x = 1 .. n
  BY DEF BlockSeqs
<1>2. blocks[n + 1].kind = "image" /\ \A k \in 1 .. n : blocks[k].kind # "image" /\ blocks[k].of = x[k].of
  OBVIOUS
<1>3. Before(turns) = LastPiece(Spelt(SubSeq(blocks, 1, at - 1)))
  BY DEF Before, LastPiece
<1> HIDE DEF blocks, n
<1>4. n + 1 \in DOMAIN blocks /\ \A c \in DOMAIN blocks : blocks[c].kind = "image" => n + 1 <= c
  <2>1. n + 1 \in DOMAIN blocks
    BY <1>1
  <2>2. ASSUME NEW c \in DOMAIN blocks, blocks[c].kind = "image" PROVE n + 1 <= c
    <3>1. c \notin 1 .. n
      BY <1>2, <2>2
    <3>2. c \in Nat /\ c >= 1
      BY <1>1, <2>2
    <3> QED
      BY <1>1, <3>1, <3>2
  <2> QED
    BY <2>1, <2>2
<1>5. at = n + 1
  <2>1. at \in DOMAIN blocks /\ blocks[at].kind = "image"
          /\ \A c \in DOMAIN blocks : blocks[c].kind = "image" => at <= c
    BY <1>2, <1>4
  <2> HIDE DEF at
  <2>2. at <= n + 1 /\ n + 1 <= at /\ at \in Nat
    BY <1>1, <1>2, <1>4, <2>1
  <2> QED
    BY <1>1, <2>2
<1> HIDE DEF at
<1>6. at - 1 = n
  BY <1>1, <1>5
<1>7. n \in 0 .. Len(blocks)
  BY <1>1
<1>8. x2 \in Seq(BlockRecords) /\ Len(x2) = n /\ \A i \in 1 .. n : x2[i] = blocks[i]
  BY <1>1, <1>7, Beginnings
<1> HIDE DEF x2
<1>9. [i \in DOMAIN x2 |-> x2[i].of] = [i \in DOMAIN x |-> x[i].of]
  <2>1. DOMAIN x2 = 1 .. n
    BY <1>8
  <2> QED
    BY <1>1, <1>2, <1>8, <2>1
<1>10. Spelt(x2) = Spelt(x)
  BY <1>9 DEF Spelt, Gather
<1> QED
  BY <1>3, <1>6, <1>10 DEF x2

\* The place the images are put at.
Spot(turns) == IF Users(turns) = {} THEN Len(turns) ELSE LastOf(Users(turns))

\* Two sequences that are the same so far.
LEMMA SameStart ==
    ASSUME NEW S, NEW s \in Seq(S), NEW t \in Seq(S), NEW k \in Nat, k <= Len(s), k <= Len(t),
           \A i \in 1 .. k : s[i] = t[i]
    PROVE  SubSeq(s, 1, k) = SubSeq(t, 1, k)
<1> DEFINE u == SubSeq(s, 1, k)
           v == SubSeq(t, 1, k)
<1>1. k \in 0 .. Len(s) /\ k \in 0 .. Len(t)
  OBVIOUS
<1>2. u \in Seq(S) /\ Len(u) = k /\ \A i \in 1 .. k : u[i] = s[i]
  BY <1>1, Beginnings
<1>3. v \in Seq(S) /\ Len(v) = k /\ \A i \in 1 .. k : v[i] = t[i]
  BY <1>1, Beginnings
<1> HIDE DEF u, v
<1>4. \A i \in 1 .. k : u[i] = v[i]
  BY <1>2, <1>3
<1>5. u = v
  BY <1>2, <1>3, <1>4, SeqEqual
<1> QED
  BY <1>5 DEF u, v

\* The blocks with the image: those until the spot, the image, and the rest.
LEMMA ImageAfter ==
    ASSUME NEW turns, IsTurns(turns)
    PROVE  /\ Spot(turns) \in 0 .. Len(turns)
           /\ IsTurns(AppendToLast(turns, 1))
           /\ \E rest \in BlockSeqs :
                  Blocks(AppendToLast(turns, 1)) = (Blocks(SubSeq(turns, 1, Spot(turns))) \o <<Image>>) \o rest
<1> DEFINE new == AppendToLast(turns, 1)
           spot == Spot(turns)
           tt == BlocksOf(turns)
           nn == BlocksOf(new)
<1>1. /\ tt \in Seq(BlockSeqs) /\ Len(tt) = Len(turns) /\ DOMAIN turns = 1 .. Len(turns) /\ Len(turns) \in Nat
      /\ Blocks(turns) = FlattenSeq(tt) /\ \A i \in DOMAIN turns : tt[i] = turns[i].blocks
  BY BlocksFlat DEF BlocksOf
<1>2. /\ IsTurns(new)
      /\ Users(turns) = {} => /\ Len(new) = Len(turns) + 1
                              /\ new[Len(turns) + 1].blocks = Images(1)
                              /\ \A i \in 1 .. Len(turns) : new[i].blocks = turns[i].blocks
      /\ Users(turns) # {} => /\ LastOf(Users(turns)) \in 1 .. Len(turns)
                              /\ Len(new) = Len(turns)
                              /\ new[LastOf(Users(turns))].blocks
                                    = turns[LastOf(Users(turns))].blocks \o Images(1)
                              /\ \A i \in 1 .. Len(turns) :
                                     i # LastOf(Users(turns)) => new[i].blocks = turns[i].blocks
  <2>1. 1 \in Nat \ {0} /\ BlockRecords \in SUBSET BlockRecords /\ Image \in BlockRecords
    BY DEF Image, BlockRecords
  <2>2. \A i \in DOMAIN turns : turns[i].blocks \in Seq(BlockRecords)
    BY DEF IsTurns, BlockSeqs
  <2> HIDE DEF new
  <2> QED
    BY <2>1, <2>2, Appended DEF new
<1>3. Images(1) = <<Image>>
  <2> DEFINE u == Images(1)
             v == <<Image>>
  <2>1. u \in Seq({Image}) /\ v \in Seq({Image}) /\ Len(u) = 1 /\ Len(v) = 1 /\ u[1] = v[1]
    BY DEF Images
  <2> HIDE DEF u, v
  <2>2. \A i \in 1 .. 1 : u[i] = v[i]
    BY <2>1
  <2>3. u = v
    BY <2>1, <2>2, SeqEqual
  <2> QED
    BY <2>3 DEF u, v
<1> HIDE DEF new, tt
<1>4. /\ nn \in Seq(BlockSeqs) /\ Len(nn) = Len(new) /\ DOMAIN new = 1 .. Len(new) /\ Len(new) \in Nat
      /\ Blocks(new) = FlattenSeq(nn) /\ \A i \in DOMAIN new : nn[i] = new[i].blocks
  BY <1>2, BlocksFlat DEF BlocksOf
<1> HIDE DEF nn
<1>5. nn \in Seq(Seq(BlockRecords)) /\ tt \in Seq(Seq(BlockRecords)) /\ <<Image>> \in Seq(BlockRecords)
  BY <1>1, <1>4 DEF BlockSeqs, Image, BlockRecords
<1> DEFINE Split(ss, k) == /\ FlattenSeq(SubSeq(ss, 1, k)) \in Seq(BlockRecords)
                           /\ FlattenSeq(SubSeq(ss, 1, k - 1)) \in Seq(BlockRecords)
                           /\ FlattenSeq(SubSeq(ss, 1, k)) = FlattenSeq(SubSeq(ss, 1, k - 1)) \o ss[k]
                           /\ \E rest \in Seq(BlockRecords) : FlattenSeq(ss) = FlattenSeq(SubSeq(ss, 1, k)) \o rest
<1>6. ASSUME NEW ss \in Seq(Seq(BlockRecords)), NEW k \in 1 .. Len(ss) PROVE Split(ss, k)
  <2> DEFINE j == k - 1
  <2>1. k \in 0 .. Len(ss) /\ k # 0 /\ j \in 0 .. Len(ss)
    OBVIOUS
  <2> HIDE DEF j
  <2>2. FlattenSeq(SubSeq(ss, 1, j)) \in Seq(BlockRecords)
    BY <2>1, FlattenSplit
  <2>3. \E after \in Seq(BlockRecords) :
               /\ FlattenSeq(SubSeq(ss, 1, k)) \in Seq(BlockRecords)
               /\ FlattenSeq(ss) = FlattenSeq(SubSeq(ss, 1, k)) \o after
               /\ k # 0 => FlattenSeq(SubSeq(ss, 1, k)) = FlattenSeq(SubSeq(ss, 1, k - 1)) \o ss[k]
    BY <2>1, FlattenSplit
  <2> QED
    BY <2>1, <2>2, <2>3 DEF j
<1> HIDE DEF Split
<1>7. CASE Users(turns) = {}
  <2> DEFINE k == Len(turns) + 1
             x == FlattenSeq(tt)
  <2>1. spot = Len(turns) /\ Len(nn) = k /\ nn[k] = <<Image>> /\ k \in 1 .. Len(nn) /\ k - 1 = Len(turns)
          /\ (\A i \in 1 .. Len(turns) : nn[i] = tt[i])
    <3>1. spot = Len(turns) /\ Len(new) = k /\ k \in DOMAIN new /\ \A i \in 1 .. Len(turns) : i \in DOMAIN new
      BY <1>1, <1>2, <1>4, <1>7 DEF Spot
    <3>2. new[k].blocks = <<Image>> /\ \A i \in 1 .. Len(turns) : new[i].blocks = turns[i].blocks
      BY <1>2, <1>3, <1>7
    <3>3. k \in 1 .. k /\ k - 1 = Len(turns)
      BY <1>1
    <3> HIDE DEF k
    <3> QED
      BY <1>1, <1>4, <3>1, <3>2, <3>3
  <2> HIDE DEF k
  <2>2. Split(nn, k)
    BY <1>5, <1>6, <2>1
  <2>3. SubSeq(nn, 1, k - 1) = tt
    <3> DEFINE l == Len(turns)
    <3>1. l \in Nat /\ l <= Len(nn) /\ l <= Len(tt) /\ l = Len(tt)
      BY <1>1, <2>1
    <3> HIDE DEF l
    <3>2. SubSeq(nn, 1, l) = SubSeq(tt, 1, l)
      <4>1. \A i \in 1 .. l : nn[i] = tt[i]
        BY <2>1 DEF l
      <4> QED
        BY <1>5, <3>1, <4>1, SameStart
    <3>3. SubSeq(tt, 1, l) = tt
      BY <1>5, <3>1, SubSeqFull
    <3> QED
      BY <2>1, <3>2, <3>3 DEF l
  <2>4. SubSeq(turns, 1, spot) = turns
    <3>1. PICK T : turns \in Seq(T)
      BY DEF IsTurns
    <3> QED
      BY <2>1, <3>1, SubSeqFull
  <2>5. PICK rest \in Seq(BlockRecords) : FlattenSeq(nn) = (FlattenSeq(tt) \o <<Image>>) \o rest
    BY <2>1, <2>2, <2>3 DEF Split
  <2>6. Blocks(new) = (Blocks(SubSeq(turns, 1, spot)) \o <<Image>>) \o rest
    BY <1>1, <1>4, <2>4, <2>5
  <2>7. spot \in 0 .. Len(turns) /\ rest \in BlockSeqs
    <3>1. Len(turns) \in 0 .. Len(turns)
      BY <1>1
    <3> QED
      BY <2>1, <2>5, <3>1 DEF BlockSeqs
  <2> HIDE DEF spot
  <2> QED
    BY <1>2, <2>6, <2>7 DEF new, spot
<1>8. CASE Users(turns) # {}
  <2>1. spot \in 1 .. Len(turns) /\ Len(nn) = Len(turns) /\ nn[spot] = tt[spot] \o <<Image>>
          /\ \A i \in 1 .. Len(turns) : i # spot => nn[i] = tt[i]
    BY <1>1, <1>2, <1>3, <1>4, <1>8 DEF Spot
  <2> DEFINE k == spot
             x == FlattenSeq(SubSeq(tt, 1, k - 1))
             s == tt[k]
             im == <<Image>>
  <2> HIDE DEF spot
  <2>2. Split(nn, k) /\ Split(tt, k)
    <3>1. k \in 1 .. Len(nn) /\ k \in 1 .. Len(tt)
      BY <1>1, <2>1
    <3> QED
      BY <1>5, <1>6, <3>1
  <2>3. SubSeq(nn, 1, k - 1) = SubSeq(tt, 1, k - 1)
    <3> DEFINE l == k - 1
    <3>1. l \in Nat /\ l <= Len(nn) /\ l <= Len(tt) /\ \A i \in 1 .. l : i # k /\ i \in 1 .. Len(turns)
      BY <1>1, <2>1
    <3> HIDE DEF l
    <3>2. \A i \in 1 .. l : nn[i] = tt[i]
      BY <2>1, <3>1
    <3>3. SubSeq(nn, 1, l) = SubSeq(tt, 1, l)
      BY <1>5, <3>1, <3>2, SameStart
    <3> QED
      BY <3>3 DEF l
  <2>4. s \in Seq(BlockRecords) /\ x \in Seq(BlockRecords) /\ im \in Seq(BlockRecords)
    <3>1. k \in 1 .. Len(tt)
      BY <1>1, <2>1
    <3> QED
      BY <1>5, <2>2, <3>1 DEF Split
  <2>5. FlattenSeq(SubSeq(nn, 1, k)) = x \o (s \o im) /\ FlattenSeq(SubSeq(tt, 1, k)) = x \o s
    BY <2>1, <2>2, <2>3 DEF Split
  <2> HIDE DEF x, s, im
  <2>6. x \o (s \o im) = (x \o s) \o im
    BY ONLY <2>4, SMTT(30)
  <2>7. PICK rest \in Seq(BlockRecords) : FlattenSeq(nn) = FlattenSeq(SubSeq(nn, 1, k)) \o rest
    BY <2>2 DEF Split
  <2>8. Blocks(SubSeq(turns, 1, k)) = FlattenSeq(SubSeq(tt, 1, k))
    <3>1. k \in 0 .. Len(turns)
      BY <1>1, <2>1
    <3> QED
      BY <3>1, FirstBlocks DEF tt
  <2>9. Blocks(new) = (Blocks(SubSeq(turns, 1, k)) \o <<Image>>) \o rest
    BY <1>4, <2>5, <2>6, <2>7, <2>8 DEF im
  <2>10. spot \in 0 .. Len(turns) /\ rest \in BlockSeqs
    BY <1>1, <2>1, <2>7 DEF BlockSeqs
  <2> QED
    BY <1>2, <2>9, <2>10 DEF new, spot
<1> QED
  BY <1>7, <1>8

\* The images follow what has been said until the spot, breakpoints or not.
LEMMA ImagesFollow ==
    ASSUME NEW turns, IsTurns(turns), \A i \in DOMAIN turns : turns[i].blocks \in Seq(FreshBlocks)
    PROVE  /\ Before(AppendToLast(turns, 1)) = LastPiece(Pieces(SubSeq(turns, 1, Spot(turns))))
           /\ Before(PlaceBreakpoints(AppendToLast(turns, 1)))
                = LastPiece(Pieces(SubSeq(turns, 1, Spot(turns))))
<1> DEFINE new == AppendToLast(turns, 1)
           spot == Spot(turns)
           first == SubSeq(turns, 1, spot)
           x == Blocks(first)
           y == Blocks(new)
           z == Blocks(PlaceBreakpoints(new))
<1>1. spot \in 0 .. Len(turns) /\ IsTurns(new)
  BY ImageAfter
<1>2. PICK rest \in BlockSeqs : y = (x \o <<Image>>) \o rest
  BY ImageAfter
<1>3. IsTurns(first)
  BY <1>1, FirstBlocks
<1>4. \A i \in DOMAIN first : first[i].blocks \in Seq(FreshBlocks)
  <2>1. PICK T : turns \in Seq(T)
    BY DEF IsTurns
  <2> HIDE DEF spot
  <2>2. Len(first) = spot /\ first \in Seq(T) /\ \A i \in 1 .. spot : first[i] = turns[i]
    BY <1>1, <2>1, Beginnings
  <2>3. DOMAIN first = 1 .. spot /\ \A i \in 1 .. spot : i \in DOMAIN turns
    BY <1>1, <2>1, <2>2
  <2> HIDE DEF first
  <2> QED
    BY <2>2, <2>3
<1> HIDE DEF first
<1>5. x \in Seq(FreshBlocks)
  BY <1>3, <1>4, BlocksWithin
<1>6. x \in Seq(BlockRecords) /\ \A k \in 1 .. Len(x) : x[k].kind # "image"
  BY <1>5 DEF FreshBlocks
<1>7. y \in BlockSeqs
  BY <1>1, BlocksFlat
<1>8. Len(z) = Len(y) /\ Len(y) \in Nat /\ \A k \in 1 .. Len(y) : z[k].kind = y[k].kind /\ z[k].of = y[k].of
  BY <1>1, MarksAtTargets
<1>9. z \in BlockSeqs
  BY <1>1, PlacedTurns, BlocksFlat
<1> DEFINE im == <<Image>>
<1>10. im \in Seq(BlockRecords) /\ Len(im) = 1 /\ im[1].kind = "image"
  BY DEF Image, BlockRecords
<1>11. y = (x \o im) \o rest /\ rest \in Seq(BlockRecords)
  BY <1>2 DEF BlockSeqs
<1> HIDE DEF x, y, z, im, new
<1> DEFINE w == x \o im
<1>a. Len(x) \in Nat /\ x \in Seq(BlockRecords) /\ im \in Seq(BlockRecords) /\ Len(im) = 1
  BY <1>6, <1>10
<1>12. w \in Seq(BlockRecords) /\ Len(w) = Len(x) + 1 /\ Len(x) \in Nat /\ w[Len(x) + 1] = im[1]
         /\ \A k \in 1 .. Len(x) : w[k] = x[k]
  <2>0. x \in Seq(BlockRecords) /\ im \in Seq(BlockRecords)
    BY <1>a
  <2>a. x \o im \in Seq(BlockRecords) /\ Len(x \o im) = Len(x) + Len(im)
    BY ONLY <2>0
  <2>1. w \in Seq(BlockRecords) /\ Len(w) = Len(x) + Len(im)
    BY <2>a
  <2>b. \A k \in 1 .. Len(x) + Len(im) : (x \o im)[k] = IF k <= Len(x) THEN x[k] ELSE im[k - Len(x)]
    BY ONLY <2>0
  <2>2. \A k \in 1 .. Len(x) + Len(im) : w[k] = IF k <= Len(x) THEN x[k] ELSE im[k - Len(x)]
    BY <2>b
  <2>3. ASSUME NEW k \in 1 .. Len(x) PROVE w[k] = x[k]
    <3>1. k \in 1 .. Len(x) + Len(im) /\ k <= Len(x)
      BY ONLY <1>a, <2>3
    <3> HIDE DEF w
    <3> QED
      BY ONLY <2>2, <3>1
  <2>4. w[Len(x) + 1] = im[1]
    <3> DEFINE k == Len(x) + 1
    <3>1. k \in 1 .. Len(x) + Len(im) /\ ~(k <= Len(x)) /\ k - Len(x) = 1
      BY ONLY <1>a
    <3> HIDE DEF w, k
    <3>2. w[k] = im[1]
      BY ONLY <2>2, <3>1
    <3> QED
      BY <3>2 DEF k
  <2> HIDE DEF w
  <2> QED
    BY <1>a, <2>1, <2>3, <2>4
<1>13. y = w \o rest
  BY <1>11
<1> HIDE DEF w
<1>14. Len(w \o rest) = Len(w) + Len(rest) /\ Len(rest) \in Nat /\ Len(w) \in Nat
         /\ \A k \in 1 .. Len(w) : (w \o rest)[k] = w[k]
  <2>1. w \in Seq(BlockRecords) /\ rest \in Seq(BlockRecords) /\ Len(rest) \in Nat /\ Len(w) \in Nat
    BY <1>11, <1>12
  <2> DEFINE v == w \o rest
  <2>2. Len(v) = Len(w) + Len(rest)
    BY ONLY <2>1
  <2>3. \A k \in 1 .. Len(w) + Len(rest) : v[k] = IF k <= Len(w) THEN w[k] ELSE rest[k - Len(w)]
    BY ONLY <2>1
  <2> HIDE DEF v
  <2>4. \A k \in 1 .. Len(w) : k \in 1 .. Len(w) + Len(rest) /\ k <= Len(w)
    BY ONLY <2>1
  <2>5. \A k \in 1 .. Len(w) : v[k] = w[k]
    BY ONLY <2>3, <2>4
  <2> QED
    BY <2>1, <2>2, <2>5 DEF v
<1>15. Len(x) + 1 <= Len(y) /\ Len(x) \in Nat /\ Len(x) + 1 \in 1 .. Len(y)
  BY <1>12, <1>13, <1>14
<1>16. y[Len(x) + 1].kind = "image" /\ \A k \in 1 .. Len(x) : y[k] = x[k] /\ k \in 1 .. Len(y)
  <2>1. Len(x) + 1 \in 1 .. Len(w) /\ \A k \in 1 .. Len(x) : k \in 1 .. Len(w) /\ k \in 1 .. Len(y)
    BY <1>12, <1>15
  <2> QED
    BY <1>10, <1>12, <1>13, <1>14, <2>1
<1>17. x \in BlockSeqs
  BY <1>6 DEF BlockSeqs
<1>18. Before(new) = LastPiece(Spelt(x))
  <2>1. Blocks(new) \in BlockSeqs /\ Len(x) + 1 <= Len(Blocks(new)) /\ Blocks(new)[Len(x) + 1].kind = "image"
          /\ \A k \in 1 .. Len(x) : x[k].kind # "image" /\ Blocks(new)[k].kind = x[k].kind
                                    /\ Blocks(new)[k].of = x[k].of
    BY <1>6, <1>7, <1>15, <1>16 DEF y
  <2> QED
    BY <1>17, <2>1, BeforeImage
<1>19. Before(PlaceBreakpoints(new)) = LastPiece(Spelt(x))
  <2> DEFINE p == PlaceBreakpoints(new)
  <2>1. Blocks(p) \in BlockSeqs /\ Len(x) + 1 <= Len(Blocks(p)) /\ Blocks(p)[Len(x) + 1].kind = "image"
          /\ \A k \in 1 .. Len(x) : x[k].kind # "image" /\ Blocks(p)[k].kind = x[k].kind
                                    /\ Blocks(p)[k].of = x[k].of
    BY <1>6, <1>8, <1>9, <1>15, <1>16 DEF z
  <2> HIDE DEF p
  <2>2. Before(p) = LastPiece(Spelt(x))
    BY <1>17, <2>1, BeforeImage
  <2> QED
    BY <2>2 DEF p
<1>20. Spelt(x) = Pieces(first)
  BY DEF Pieces, x
<1> QED
  BY <1>18, <1>19, <1>20 DEF new, first

\* Without a word of the system's all is spoken.
LEMMA AllSpoken ==
    ASSUME NEW prompt \in Seq(Messages), \A i \in DOMAIN prompt : prompt[i].role # "system"
    PROVE  Spoken(prompt) = prompt
<1>1. [i \in DOMAIN prompt |-> IF prompt[i].role # "system" THEN <<prompt[i]>> ELSE <<>>]
        = [i \in DOMAIN prompt |-> <<prompt[i]>>]
  OBVIOUS
<1>2. Spoken(prompt) = FlattenSeq([i \in DOMAIN prompt |-> <<prompt[i]>>])
  BY <1>1 DEF Spoken, Pick, Gather
<1>3. FlattenSeq([i \in DOMAIN prompt |-> <<prompt[i]>>]) = prompt
  BY FlattenSingles
<1> QED
  BY <1>2, <1>3

\* What is spoken is a conversation, in which all is spoken.
LEMMA SpokenTwice ==
    ASSUME NEW prompt \in Conversations
    PROVE  /\ Spoken(prompt) \in Seq(Messages) /\ Spoken(prompt) \in Conversations
           /\ Spoken(Spoken(prompt)) = Spoken(prompt)
           /\ \A i \in DOMAIN Spoken(prompt) : Spoken(prompt)[i] \in Sendable
                                               /\ Spoken(prompt)[i].role # "system"
<1> DEFINE s == Spoken(prompt)
<1>1. s \in Seq(Sendable)
  BY SpokenSendable
<1> HIDE DEF s
<1>2. \A i \in DOMAIN s : s[i] \in Sendable
  BY <1>1
<1>3. \A i \in DOMAIN s : s[i].role # "system" /\ ~Unsupported(s[i])
  BY <1>2 DEF Sendable
<1>4. s \in Seq(Messages)
  <2>1. Sendable \subseteq Messages
    BY DEF Sendable
  <2> HIDE DEF Sendable
  <2> QED
    BY <1>1, <2>1
<1>5. s \in Conversations
  BY <1>3, <1>4 DEF Conversations
<1>6. Spoken(s) = s
  BY <1>3, <1>4, AllSpoken
<1> QED
  BY <1>2, <1>3, <1>4, <1>5, <1>6 DEF s

\* The first turns say what the first messages do.
LEMMA FirstSay ==
    ASSUME NEW turns, IsTurns(turns), NEW prompt \in Seq(Messages), DOMAIN turns = DOMAIN prompt,
           \A i \in DOMAIN turns : Spelt(turns[i].blocks) = Words(prompt[i]), NEW k \in 0 .. Len(prompt)
    PROVE  Pieces(SubSeq(turns, 1, k)) = Content(SubSeq(prompt, 1, k))
<1> DEFINE u == SubSeq(turns, 1, k)
           v == SubSeq(prompt, 1, k)
<1>1. PICK T : turns \in Seq(T)
  BY DEF IsTurns
<1>2. Len(turns) = Len(prompt) /\ Len(prompt) \in Nat /\ DOMAIN turns = 1 .. Len(prompt)
  BY <1>1
<1>3. k \in 0 .. Len(turns) /\ k \in Nat /\ k <= Len(prompt)
  BY <1>2
<1>4. u \in Seq(T) /\ Len(u) = k /\ \A i \in 1 .. k : u[i] = turns[i]
  BY <1>1, <1>3, Beginnings
<1>5. v \in Seq(Messages) /\ Len(v) = k /\ \A i \in 1 .. k : v[i] = prompt[i]
  BY Beginnings
<1>6. IsTurns(u)
  BY <1>3, FirstBlocks
<1> HIDE DEF u, v
<1>7. DOMAIN u = 1 .. k /\ DOMAIN v = 1 .. k /\ \A i \in 1 .. k : i \in DOMAIN turns
  BY <1>2, <1>3, <1>4, <1>5
<1>8. \A i \in DOMAIN u : Spelt(u[i].blocks) = Words(v[i])
  BY <1>4, <1>5, <1>7
<1>9. Pieces(u) = Content(v)
  BY <1>6, <1>7, <1>8, TurnsSayAll
<1> QED
  BY <1>9 DEF u, v

\* The user's last words, or the end of the conversation.
Until(prompt) == IF Users(prompt) = {} THEN Len(prompt) ELSE LastOf(Users(prompt))

\* They are where the last message of the user's role is.
LEMMA UntilIsLast == \A prompt : Until(prompt) = LastBy(prompt, {"user"})
<1> SUFFICES ASSUME NEW prompt PROVE Until(prompt) = LastBy(prompt, {"user"})
  OBVIOUS
<1>1. Users(prompt) = {i \in DOMAIN prompt : prompt[i].role \in {"user"}}
  BY DEF Users
<1> QED
  BY <1>1 DEF Until, LastBy, LastOf

\* Turns that are the user's where the messages are of some roles.
LEMMA SpotIsLast ==
    ASSUME NEW prompt \in Seq(Messages), NEW turns, IsTurns(turns), DOMAIN turns = DOMAIN prompt, NEW roles,
           \A i \in DOMAIN turns : turns[i].role = "user" <=> prompt[i].role \in roles
    PROVE  Spot(turns) = LastBy(prompt, roles) /\ LastBy(prompt, roles) \in 0 .. Len(prompt)
<1>1. Len(turns) = Len(prompt)
  <2>1. PICK T : turns \in Seq(T)
    BY DEF IsTurns
  <2>2. DOMAIN prompt = 1 .. Len(prompt) /\ Len(prompt) \in Nat
    OBVIOUS
  <2> QED
    BY <2>1, <2>2
<1>2. Users(turns) = {i \in DOMAIN prompt : prompt[i].role \in roles}
  BY DEF Users
<1>3. Spot(turns) = LastBy(prompt, roles)
  BY <1>1, <1>2 DEF Spot, LastBy, LastOf
<1>4. Spot(turns) \in 0 .. Len(turns)
  BY ImageAfter
<1> QED
  BY <1>1, <1>3, <1>4

\* Where the providers that make a turn of each message put the images.
LEMMA ImagesFollowLast ==
    ASSUME NEW prompt \in Seq(Messages), NEW turns, IsTurns(turns), DOMAIN turns = DOMAIN prompt, NEW roles,
           \A i \in DOMAIN turns : turns[i].role = "user" <=> prompt[i].role \in roles,
           \A i \in DOMAIN turns : turns[i].blocks \in Seq(FreshBlocks) /\ Spelt(turns[i].blocks) = Words(prompt[i])
    PROVE  /\ Before(AppendToLast(turns, 1)) = LastPiece(Content(UpToLast(prompt, roles)))
           /\ Before(PlaceBreakpoints(AppendToLast(turns, 1))) = LastPiece(Content(UpToLast(prompt, roles)))
<1> DEFINE k == LastBy(prompt, roles)
<1>1. Spot(turns) = k /\ k \in 0 .. Len(prompt)
  BY SpotIsLast
<1> HIDE DEF k
<1>2. Pieces(SubSeq(turns, 1, k)) = Content(SubSeq(prompt, 1, k))
  BY <1>1, FirstSay
<1>3. /\ Before(AppendToLast(turns, 1)) = LastPiece(Pieces(SubSeq(turns, 1, Spot(turns))))
      /\ Before(PlaceBreakpoints(AppendToLast(turns, 1))) = LastPiece(Pieces(SubSeq(turns, 1, Spot(turns))))
  BY ImagesFollow
<1> QED
  BY <1>1, <1>2, <1>3 DEF k, UpToLast

\* The user's turns of Anthropic's and Gemini's: the user's messages and the results.
LEMMA TurnRoles ==
    ASSUME NEW m \in Sendable
    PROVE  /\ AnthropicTurn(m).role = "user" <=> m.role \in {"user", "tool"}
           /\ GeminiContent(m).role = "user" <=> m.role \in {"user", "tool"}
<1>1. m \in Messages /\ m.role \in {"user", "assistant", "tool"}
  BY MessageFacts DEF Sendable, Roles
<1>2. CASE m.role = "tool"
  BY <1>2 DEF AnthropicTurn, GeminiContent, Turn
<1>3. CASE m.role = "user"
  BY <1>3 DEF AnthropicTurn, GeminiContent, Turn
<1>4. CASE m.role = "assistant"
  BY <1>4 DEF AnthropicTurn, GeminiContent, Turn
<1> QED
  BY <1>1, <1>2, <1>3, <1>4

\* Anthropic puts them after the last words of the user or results,
LEMMA AnthropicTogether ==
    ASSUME NEW prompt \in Conversations
    PROVE  Before(AnthropicRequest(prompt, 1).turns)
             = LastPiece(Content(UpToLast(Spoken(prompt), {"user", "tool"})))
<1> DEFINE s == Spoken(prompt)
           a == AnthropicTurns(prompt)
           there == LastPiece(Content(UpToLast(s, {"user", "tool"})))
<1>1. s \in Seq(Messages) /\ \A i \in DOMAIN s : s[i] \in Sendable
  BY SpokenTwice
<1>2. DOMAIN a = DOMAIN s /\ \A i \in DOMAIN s : a[i] = AnthropicTurn(s[i])
  BY DEF AnthropicTurns
<1>3. IsTurns(a)
  BY TurnsAreTurns
<1>4. \A i \in DOMAIN s : a[i].blocks \in Seq(FreshBlocks)
  BY <1>2, FreshTurns
<1> HIDE DEF s, a
<1>5. \A i \in DOMAIN a : a[i].role = "user" <=> s[i].role \in {"user", "tool"}
  <2> SUFFICES ASSUME NEW i \in DOMAIN a PROVE a[i].role = "user" <=> s[i].role \in {"user", "tool"}
    OBVIOUS
  <2>1. a[i] = AnthropicTurn(s[i]) /\ s[i] \in Sendable
    BY <1>1, <1>2
  <2>2. AnthropicTurn(s[i]).role = "user" <=> s[i].role \in {"user", "tool"}
    BY <2>1, TurnRoles
  <2> QED
    BY <2>1, <2>2
<1>6. \A i \in DOMAIN a : a[i].blocks \in Seq(FreshBlocks) /\ Spelt(a[i].blocks) = Words(s[i])
  BY <1>1, <1>2, <1>4, TurnsTrue
<1>7. Before(AppendToLast(a, 1)) = there /\ Before(PlaceBreakpoints(AppendToLast(a, 1))) = there
  BY <1>1, <1>2, <1>3, <1>5, <1>6, ImagesFollowLast
<1>8. AnthropicRequest(prompt, 1).turns = IF OptedIn(prompt) THEN PlaceBreakpoints(AppendToLast(a, 1))
                                          ELSE AppendToLast(a, 1)
  BY RequestTurns DEF a
<1> QED
  BY <1>7, <1>8 DEF s

\* so does Gemini,
LEMMA GeminiTogether ==
    ASSUME NEW prompt \in Conversations
    PROVE  Before(GeminiContents(prompt, 1))
             = LastPiece(Content(UpToLast(WithNames(Spoken(prompt)), {"user", "tool"})))
<1> DEFINE s == Spoken(prompt)
           n == WithNames(s)
           g == GeminiTurns(prompt)
<1>1. s \in Seq(Messages) /\ \A i \in DOMAIN s : s[i] \in Sendable
  BY SpokenTwice
<1>2. DOMAIN g = DOMAIN s /\ \A i \in DOMAIN s : g[i] = GeminiContent(s[i])
  BY DEF GeminiTurns
<1>3. IsTurns(g)
  BY TurnsAreTurns
<1>4. \A i \in DOMAIN s : g[i].blocks \in Seq(FreshBlocks)
  BY <1>2, FreshTurns
<1> HIDE DEF s, g
<1>5. /\ n \in Seq(Messages) /\ DOMAIN n = DOMAIN s
      /\ \A i \in DOMAIN s : n[i] = NamedOne(s[i]) /\ n[i].role = s[i].role
  BY <1>1, NamedAll
<1> HIDE DEF n
<1>6. \A i \in DOMAIN g : g[i].role = "user" <=> n[i].role \in {"user", "tool"}
  <2> SUFFICES ASSUME NEW i \in DOMAIN g PROVE g[i].role = "user" <=> n[i].role \in {"user", "tool"}
    OBVIOUS
  <2>1. g[i] = GeminiContent(s[i]) /\ s[i] \in Sendable /\ n[i].role = s[i].role
    BY <1>1, <1>2, <1>5
  <2>2. GeminiContent(s[i]).role = "user" <=> s[i].role \in {"user", "tool"}
    BY <2>1, TurnRoles
  <2> QED
    BY <2>1, <2>2
<1>7. \A i \in DOMAIN g : g[i].blocks \in Seq(FreshBlocks) /\ Spelt(g[i].blocks) = Words(n[i])
  BY <1>1, <1>2, <1>4, <1>5, TurnsTrue
<1>8. Before(AppendToLast(g, 1)) = LastPiece(Content(UpToLast(n, {"user", "tool"})))
  BY <1>2, <1>3, <1>5, <1>6, <1>7, ImagesFollowLast
<1>9. GeminiContents(prompt, 1) = AppendToLast(g, 1)
  BY DEF GeminiContents, GeminiTurns, g
<1> QED
  BY <1>8, <1>9 DEF s, n

\* and chat completions after the last words of the user.
LEMMA ChatTogether ==
    ASSUME NEW prompt \in Conversations
    PROVE  Before(ChatMessages(prompt, 1, FALSE)) = LastPiece(Content(UpToLast(prompt, {"user"})))
<1> DEFINE c == ChatTurns(prompt, FALSE)
<1>1. prompt \in Seq(Messages) /\ \A i \in DOMAIN prompt : prompt[i] \in Messages
  BY DEF Conversations
<1>2. DOMAIN c = DOMAIN prompt /\ \A i \in DOMAIN prompt : c[i] = ChatMessage(prompt[i], FALSE)
  BY DEF ChatTurns
<1>3. IsTurns(c)
  BY <1>1, ChatIsTurns
<1>4. \A i \in DOMAIN prompt : c[i].blocks \in Seq(FreshBlocks)
  BY <1>2, FreshTurns
<1> HIDE DEF c
<1>5. \A i \in DOMAIN c : c[i].role = "user" <=> prompt[i].role \in {"user"}
  <2> SUFFICES ASSUME NEW i \in DOMAIN prompt
               PROVE  c[i].role = "user" <=> prompt[i].role \in {"user"}
    BY <1>2
  <2>1. ChatMessage(prompt[i], FALSE).role = prompt[i].role
    BY DEF ChatMessage
  <2>2. c[i] = ChatMessage(prompt[i], FALSE)
    BY <1>2
  <2> QED
    BY <2>1, <2>2
<1>6. \A i \in DOMAIN c : c[i].blocks \in Seq(FreshBlocks) /\ Spelt(c[i].blocks) = Words(prompt[i])
  BY <1>1, <1>2, <1>4, ChatTrue
<1>7. Before(AppendToLast(c, 1)) = LastPiece(Content(UpToLast(prompt, {"user"})))
  BY <1>1, <1>2, <1>3, <1>5, <1>6, ImagesFollowLast
<1>8. ChatMessages(prompt, 1, FALSE) = AppendToLast(c, 1)
  BY DEF ChatMessages, ChatTurns, c
<1> QED
  BY <1>7, <1>8

\* OpenAI's items: the user has one for each message, nobody else has a user's.
FreshItems == {t \in TurnRecords : t.blocks \in Seq(FreshBlocks)}

\* Its items, and whose they are.
LEMMA ItemKinds ==
    ASSUME NEW m \in Sendable
    PROVE  /\ OpenaiItems(m) \in Seq(FreshItems)
           /\ m.role = "user" => Len(OpenaiItems(m)) = 1 /\ OpenaiItems(m)[1].role = "user"
           /\ m.role # "user" => \A b \in DOMAIN OpenaiItems(m) : OpenaiItems(m)[b].role # "user"
<1>1. m \in Messages /\ m.role \in {"user", "assistant", "tool"}
  BY MessageFacts DEF Sendable, Roles
<1>2. m.calls # <<>> => m.role = "assistant"
  BY <1>1, MessageFacts DEF WellFormed
<1>3. \A role \in Roles \cup {"model", "output", "call"} : \A blocks \in Seq(FreshBlocks) :
          Turn(role, blocks) \in FreshItems /\ Turn(role, blocks).role = role
  <2> SUFFICES ASSUME NEW role \in Roles \cup {"model", "output", "call"}, NEW blocks \in Seq(FreshBlocks)
               PROVE  Turn(role, blocks) \in FreshItems /\ Turn(role, blocks).role = role
    OBVIOUS
  <2>1. blocks \in BlockSeqs
    BY DEF FreshBlocks, BlockSeqs
  <2> QED
    BY <2>1 DEF Turn, FreshItems, TurnRecords
<1>4. /\ Said(m) \in Seq(FreshBlocks) /\ EachCall(m) \in Seq(FreshBlocks) /\ EachPart(m) \in Seq(FreshBlocks)
      /\ <<Result(m)>> \in Seq(FreshBlocks)
  BY <1>1, FreshMessages
<1>5. CASE m.role = "tool"
  <2> DEFINE t == Turn("output", <<Result(m)>>)
  <2>1. OpenaiItems(m) = <<t>> /\ t \in FreshItems /\ t.role = "output"
    BY <1>3, <1>4, <1>5 DEF OpenaiItems
  <2> HIDE DEF t
  <2> QED
    BY <1>5, <2>1
<1>6. CASE m.role = "assistant" /\ m.calls # <<>>
  <2> DEFINE first == IF Said(m) = <<>> THEN <<>> ELSE <<Turn("assistant", Said(m))>>
             second == [k \in DOMAIN m.calls |-> Turn("call", <<EachCall(m)[k]>>)]
             Others == {t \in FreshItems : t.role # "user"}
  <2>1. OpenaiItems(m) = first \o second
    BY <1>6 DEF OpenaiItems
  <2>2. first \in Seq(Others)
    <3>1. Turn("assistant", Said(m)) \in Others
      BY <1>3, <1>4 DEF Roles
    <3> HIDE DEF Others
    <3> QED
      BY <3>1
  <2>3. second \in Seq(Others)
    <3>1. DOMAIN m.calls = 1 .. Len(m.calls) /\ Len(m.calls) \in Nat /\ DOMAIN EachCall(m) = DOMAIN m.calls
      BY <1>1, MessageFacts DEF EachCall
    <3>2. \A k \in DOMAIN m.calls : EachCall(m)[k] \in FreshBlocks
      BY <1>4, <3>1
    <3>3. \A k \in DOMAIN m.calls : <<EachCall(m)[k]>> \in Seq(FreshBlocks)
      BY <3>2
    <3>4. ASSUME NEW k \in DOMAIN m.calls PROVE Turn("call", <<EachCall(m)[k]>>) \in Others
      <4> DEFINE one == <<EachCall(m)[k]>>
      <4>1. one \in Seq(FreshBlocks)
        BY <3>3
      <4> HIDE DEF one
      <4>2. Turn("call", one) \in FreshItems /\ Turn("call", one).role = "call"
        BY <1>3, <4>1
      <4> QED
        BY <4>2 DEF one
    <3> HIDE DEF Others
    <3> QED
      BY <3>1, <3>4
  <2> HIDE DEF first, second
  <2>4. first \o second \in Seq(Others)
    <3> HIDE DEF Others
    <3> QED
      BY <2>2, <2>3
  <2> DEFINE items == OpenaiItems(m)
  <2>5. items \in Seq(Others)
    BY <2>1, <2>4
  <2> HIDE DEF items
  <2>6. items \in Seq(FreshItems) /\ \A b \in DOMAIN items : items[b] \in Others
    BY <2>5
  <2> QED
    BY <1>6, <2>6 DEF items
<1>7. CASE m.role # "tool" /\ m.calls = <<>>
  <2> DEFINE t == Turn(m.role, EachPart(m))
  <2>1. OpenaiItems(m) = <<t>>
    BY <1>7 DEF OpenaiItems
  <2>2. m.role \in Roles
    BY <1>1 DEF Roles
  <2>3. t \in FreshItems /\ t.role = m.role
    BY <1>3, <1>4, <2>2
  <2> HIDE DEF t
  <2> QED
    BY <2>1, <2>3
<1> QED
  BY <1>1, <1>2, <1>5, <1>6, <1>7

\* The user's last item is that of the last message.
LEMMA ItemsSpot ==
    ASSUME NEW prompt \in Conversations, \A i \in DOMAIN prompt : prompt[i].role # "system"
    PROVE  /\ IsTurns(OpenaiInput(prompt, 0))
           /\ \A i \in DOMAIN OpenaiInput(prompt, 0) : OpenaiInput(prompt, 0)[i].blocks \in Seq(FreshBlocks)
           /\ Pieces(SubSeq(OpenaiInput(prompt, 0), 1, Spot(OpenaiInput(prompt, 0))))
                = Content(SubSeq(prompt, 1, Until(prompt)))
<1> DEFINE ss == [i \in DOMAIN prompt |-> OpenaiItems(prompt[i])]
           items == OpenaiInput(prompt, 0)
<1>1. prompt \in Seq(Messages) /\ DOMAIN prompt = 1 .. Len(prompt) /\ Len(prompt) \in Nat
  BY DEF Conversations
<1>2. Spoken(prompt) = prompt /\ \A i \in DOMAIN prompt : prompt[i].role # "system"
  BY <1>1, AllSpoken
<1>3. prompt \in Seq(Sendable)
  BY <1>2, SpokenSendable
<1>4. items = FlattenSeq(ss) /\ items \in Seq(TurnRecords)
  BY <1>2, OpenaiFlat
<1>5. \A i \in DOMAIN prompt : ss[i] = OpenaiItems(prompt[i]) /\ prompt[i] \in Sendable
  BY <1>3
<1>6. ss = [i \in 1 .. Len(prompt) |-> ss[i]]
  BY <1>1
<1> HIDE DEF ss
<1>7. ss \in Seq(Seq(FreshItems)) /\ Len(ss) = Len(prompt)
  <2>1. \A i \in 1 .. Len(prompt) : ss[i] \in Seq(FreshItems)
    BY <1>1, <1>5, ItemKinds
  <2>2. ss \in [1 .. Len(prompt) -> Seq(FreshItems)]
    BY <1>6, <2>1
  <2> QED
    BY <1>1, <2>2
<1>8. FlattenSeq(ss) \in Seq(FreshItems)
  BY <1>7, FlattenAppend, EmptySeq
<1> HIDE DEF items
<1>9. items \in Seq(FreshItems) /\ DOMAIN items = 1 .. Len(items) /\ Len(items) \in Nat
  BY <1>4, <1>8
<1>10. \A i \in DOMAIN items : items[i].blocks \in Seq(FreshBlocks)
  BY <1>9 DEF FreshItems
<1>11. IsTurns(items)
  BY <1>4, PiecesOver
<1> DEFINE upto(i) == Len(FlattenSeq(SubSeq(ss, 1, i - 1)))
<1>12. ASSUME NEW k \in Users(items)
       PROVE  \E i \in Users(prompt) : k = upto(i) + 1
  <2>1. k \in 1 .. Len(FlattenSeq(ss)) /\ items[k].role = "user"
    BY <1>4, <1>9, <1>12 DEF Users
  <2>2. PICK i \in 1 .. Len(ss) : \E b \in 1 .. Len(ss[i]) : k = upto(i) + b
    BY <1>7, <2>1, FlattenCovered
  <2>3. PICK b \in 1 .. Len(ss[i]) : k = upto(i) + b
    BY <2>2
  <2>4. FlattenSeq(ss)[upto(i) + b] = ss[i][b]
    BY <1>7, FlattenAt
  <2> HIDE DEF upto
  <2>5. ss[i][b].role = "user"
    BY <1>4, <2>1, <2>3, <2>4
  <2>6. i \in DOMAIN prompt /\ ss[i] = OpenaiItems(prompt[i]) /\ prompt[i] \in Sendable
    BY <1>1, <1>5, <1>7
  <2>7. b \in DOMAIN ss[i]
    <3>1. ss[i] \in Seq(FreshItems)
      BY <1>7
    <3> QED
      BY <3>1
  <2>8. prompt[i].role = "user" /\ Len(ss[i]) = 1
    BY <2>5, <2>6, <2>7, ItemKinds
  <2>9. b = 1 /\ i \in Users(prompt)
    BY <2>6, <2>8 DEF Users
  <2> QED
    BY <2>3, <2>9
<1>13. Pieces(SubSeq(items, 1, Spot(items))) = Content(SubSeq(prompt, 1, Until(prompt)))
  <2>1. CASE Users(prompt) = {}
    <3>1. Users(items) = {}
      BY <1>12, <2>1
    <3>2. Spot(items) = Len(items) /\ Until(prompt) = Len(prompt)
      BY <2>1, <3>1 DEF Spot, Until
    <3>3. SubSeq(items, 1, Len(items)) = items /\ SubSeq(prompt, 1, Len(prompt)) = prompt
      BY <1>1, <1>9, SubSeqFull
    <3>4. Pieces(items) = Content(prompt)
      BY <1>2, OpenaiSaysAll DEF items
    <3> QED
      BY <3>2, <3>3, <3>4
  <2>2. CASE Users(prompt) # {}
    <3> DEFINE u == LastOf(Users(prompt))
               N == upto(u) + 1
               pre == SubSeq(prompt, 1, u)
               ff == SubSeq(ss, 1, u)
    <3>1. u \in Users(prompt) /\ (\A j \in Users(prompt) : j <= u)
            /\ Users(prompt) \in SUBSET (1 .. Len(prompt))
      <4>1. Users(prompt) \in SUBSET (1 .. Len(prompt))
        BY <1>1 DEF Users
      <4> QED
        BY <1>1, <2>2, <4>1, LastOfSome
    <3>2. u \in DOMAIN prompt /\ prompt[u].role = "user" /\ u \in 1 .. Len(prompt)
      BY <1>1, <3>1 DEF Users
    <3>3. Until(prompt) = u
      BY <2>2 DEF Until
    <3> HIDE DEF u
    <3>4. Len(ss[u]) = 1 /\ ss[u][1].role = "user" /\ u \in 1 .. Len(ss) /\ 1 \in 1 .. Len(ss[u])
      BY <1>5, <1>7, <3>2, ItemKinds
    <3>5. upto(u) \in Nat /\ N \in 1 .. Len(items) /\ items[N] = ss[u][1]
      BY <1>4, <1>7, <3>4, FlattenAt
    <3>6. N \in Users(items)
      BY <1>9, <3>4, <3>5 DEF Users
    <3>7. ASSUME NEW k \in Users(items) PROVE k <= N
      <4>1. PICK i \in Users(prompt) : k = upto(i) + 1
        BY <1>12, <3>7
      <4>2. i <= u /\ i \in 1 .. Len(prompt)
        BY <3>1, <4>1
      <4> DEFINE a == i - 1
                 b == u - 1
                 bb == SubSeq(ss, 1, b)
      <4>3. a \in Nat /\ b \in Nat /\ a <= b /\ b \in 0 .. Len(ss) /\ a \in 0 .. Len(ss) /\ b <= Len(ss)
        BY <1>1, <1>7, <3>2, <4>2
      <4> HIDE DEF a, b
      <4>4. bb \in Seq(Seq(FreshItems)) /\ Len(bb) = b /\ \A l \in 1 .. b : bb[l] = ss[l]
        BY <1>7, <4>3, Beginnings
      <4> HIDE DEF bb
      <4>5. SubSeq(bb, 1, a) = SubSeq(ss, 1, a)
        <5>1. a <= Len(bb) /\ a <= Len(ss) /\ \A l \in 1 .. a : l \in 1 .. b
          BY <4>3, <4>4
        <5>2. \A l \in 1 .. a : bb[l] = ss[l]
          BY <4>4, <5>1
        <5> QED
          BY <1>7, <4>3, <4>4, <5>1, <5>2, SameStart
      <4>6. a \in 0 .. Len(bb)
        BY <4>3, <4>4
      <4>7. Len(FlattenSeq(SubSeq(bb, 1, a))) <= Len(FlattenSeq(bb))
            /\ Len(FlattenSeq(SubSeq(bb, 1, a))) \in Nat
              /\ Len(FlattenSeq(bb)) \in Nat
        BY <4>4, <4>6, FlattenStarts
      <4>8. upto(i) = Len(FlattenSeq(SubSeq(bb, 1, a))) /\ upto(u) = Len(FlattenSeq(bb))
        BY <4>5 DEF a, b, bb
      <4> HIDE DEF upto
      <4> QED
        BY <4>1, <4>7, <4>8
    <3>8. Spot(items) = N
      <4>1. Users(items) \in SUBSET Nat
        BY <1>9 DEF Users
      <4> HIDE DEF N
      <4>2. LastOf(Users(items)) = N
        BY <3>6, <3>7, <4>1, LastOfIs
      <4> QED
        BY <3>6, <4>2 DEF Spot
    <3>9. pre \in Conversations /\ DOMAIN pre = 1 .. u /\ \A i \in 1 .. u : pre[i] = prompt[i]
          /\ i \in DOMAIN prompt
      BY <3>2, PrefixOf
    <3>10. ff \in Seq(Seq(FreshItems)) /\ Len(ff) = u /\ (\A i \in 1 .. u : ff[i] = ss[i]) /\ u \in 0 .. Len(ss)
      <4>1. u \in 0 .. Len(ss)
        BY <1>7, <3>2
      <4> QED
        BY <1>7, <4>1, Beginnings
    <3> DEFINE x == FlattenSeq(SubSeq(ss, 1, u - 1))
    <3>11. PICK after \in Seq(FreshItems) : /\ FlattenSeq(ff) \in Seq(FreshItems)
                                            /\ items = FlattenSeq(ff) \o after
                                            /\ FlattenSeq(ff) = x \o ss[u]
      <4>1. \E after \in Seq(FreshItems) :
               /\ FlattenSeq(SubSeq(ss, 1, u)) \in Seq(FreshItems)
               /\ FlattenSeq(ss) = FlattenSeq(SubSeq(ss, 1, u)) \o after
               /\ u # 0 => FlattenSeq(SubSeq(ss, 1, u)) = FlattenSeq(SubSeq(ss, 1, u - 1)) \o ss[u]
        BY <1>7, <3>10, FlattenSplit
      <4>2. u # 0
        BY <3>2
      <4> QED
        BY <1>4, <4>1, <4>2
    <3> HIDE DEF pre, ff
    <3>12. Len(FlattenSeq(ff)) = N
      <4>1. ss[u] \in Seq(FreshItems)
        BY <1>7, <3>4
      <4>2. x \in Seq(FreshItems)
        <5> DEFINE l == u - 1
        <5>1. l \in 0 .. Len(ss)
          BY <1>7, <3>2
        <5> HIDE DEF l
        <5>2. FlattenSeq(SubSeq(ss, 1, l)) \in Seq(FreshItems)
          BY <1>7, <5>1, FlattenSplit
        <5> QED
          BY <5>2 DEF l
      <4>3. upto(u) = Len(x)
        OBVIOUS
      <4> HIDE DEF x, upto
      <4> DEFINE y == ss[u]
      <4>4. x \in Seq(FreshItems) /\ y \in Seq(FreshItems)
        BY <4>1, <4>2
      <4>5. Len(y) = 1 /\ FlattenSeq(ff) = x \o y
        BY <3>4, <3>11
      <4> HIDE DEF y
      <4>6. Len(x \o y) = Len(x) + Len(y)
        BY ONLY <4>4
      <4> QED
        BY <4>3, <4>5, <4>6
    <3>13. SubSeq(items, 1, N) = FlattenSeq(ff)
      <4> DEFINE f == FlattenSeq(ff)
      <4>1. f \in Seq(FreshItems) /\ after \in Seq(FreshItems) /\ items = f \o after /\ Len(f) = N
        BY <3>11, <3>12
      <4> HIDE DEF f, N, x
      <4>2. f \in Seq(FreshItems) /\ after \in Seq(FreshItems)
        BY <4>1
      <4>3. Len(f) \in Nat /\ Len(after) \in Nat /\ f \o after \in Seq(FreshItems)
              /\ Len(f \o after) = Len(f) + Len(after)
        BY ONLY <4>2
      <4>4. \A k \in 1 .. Len(f) : (f \o after)[k] = f[k]
        BY ONLY <4>2, <4>3
      <4>5. N \in Nat /\ N <= Len(f) /\ N <= Len(items) /\ \A k \in 1 .. N : items[k] = f[k]
        BY <4>1, <4>3, <4>4
      <4>6. SubSeq(items, 1, N) = SubSeq(f, 1, N)
        BY <1>9, <4>1, <4>5, SameStart
      <4>7. SubSeq(f, 1, N) = f
        BY <4>1, SubSeqFull
      <4> QED
        BY <4>6, <4>7 DEF f
    <3>14. FlattenSeq(ff) = OpenaiInput(pre, 0) /\ Spoken(pre) = pre
      <4>1. pre \in Seq(Messages)
        BY <3>9 DEF pre, Conversations
      <4>2. \A i \in DOMAIN pre : pre[i].role # "system"
        BY <1>2, <3>9 DEF pre
      <4>3. Spoken(pre) = pre
        <5>1. [i \in DOMAIN pre |-> IF pre[i].role # "system" THEN <<pre[i]>> ELSE <<>>]
                = [i \in DOMAIN pre |-> <<pre[i]>>]
          BY <4>2
        <5>2. Spoken(pre) = FlattenSeq([i \in DOMAIN pre |-> <<pre[i]>>])
          BY <5>1 DEF Spoken, Pick, Gather
        <5>3. FlattenSeq([i \in DOMAIN pre |-> <<pre[i]>>]) = pre
          BY <4>1, FlattenSingles
        <5> QED
          BY <5>2, <5>3
      <4> DEFINE gg == [i \in DOMAIN pre |-> OpenaiItems(pre[i])]
      <4>4. OpenaiInput(pre, 0) = FlattenSeq(gg)
        BY <3>9, <4>3, OpenaiFlat DEF pre
      <4>5. gg = ff
        <5>1. DOMAIN ff = 1 .. u /\ DOMAIN pre = 1 .. u /\ u \in Nat
          BY <3>2, <3>9, <3>10 DEF ff, pre
        <5>2. \A i \in 1 .. u : ff[i] = OpenaiItems(pre[i])
          BY <1>5, <3>9, <3>10 DEF ff, pre
        <5>3. ff = [i \in 1 .. u |-> ff[i]]
          BY <3>10, <5>1 DEF ff
        <5> QED
          BY <5>1, <5>2, <5>3
      <4> QED
        BY <4>3, <4>4, <4>5
    <3>15. Pieces(OpenaiInput(pre, 0)) = Content(Spoken(pre))
      BY <3>9, OpenaiSaysAll DEF pre
    <3> HIDE DEF N
    <3> QED
      BY <3>3, <3>8, <3>13, <3>14, <3>15 DEF pre
  <2> QED
    BY <2>1, <2>2
<1> QED
  BY <1>10, <1>11, <1>13 DEF items

\* OpenAI and xAI get them after the last words of the user, too.
LEMMA OpenaiTogether ==
    ASSUME NEW prompt \in Conversations
    PROVE  Before(OpenaiInput(prompt, 1)) = LastPiece(Content(UpToLast(Spoken(prompt), {"user"})))
<1> DEFINE s == Spoken(prompt)
           items == OpenaiInput(s, 0)
<1>1. s \in Conversations /\ Spoken(s) = s /\ \A i \in DOMAIN s : s[i].role # "system"
  BY SpokenTwice
<1>2. OpenaiInput(prompt, 1) = AppendToLast(items, 1)
  <2>1. Gather(Spoken(s), OpenaiItems) = Gather(Spoken(prompt), OpenaiItems)
    BY <1>1
  <2> QED
    BY <2>1, NoImages DEF OpenaiInput
<1>3. IsTurns(items) /\ (\A i \in DOMAIN items : items[i].blocks \in Seq(FreshBlocks))
        /\ Pieces(SubSeq(items, 1, Spot(items))) = Content(SubSeq(s, 1, Until(s)))
  BY <1>1, ItemsSpot
<1> HIDE DEF items
<1>4. Before(AppendToLast(items, 1)) = LastPiece(Pieces(SubSeq(items, 1, Spot(items))))
  BY <1>3, ImagesFollow
<1> QED
  BY <1>2, <1>3, <1>4, UntilIsLast DEF UpToLast

\* The images are where they belong, whoever gets them.
LEMMA ImagesAreTogether == (Talking => Prompt \in Seq(Messages)) => ImagesTogether
<1> SUFFICES ASSUME Talking, Prompt \in Seq(Messages), Accepted PROVE ImagesTogether
  BY DEF ImagesTogether
<1> DEFINE p == Prompt
<1>1. p \in Conversations
  BY DEF Accepted, Conversations
<1> HIDE DEF p
<1>2. /\ Before(OpenaiInput(p, 1)) = LastPiece(Content(UpToLast(Spoken(p), {"user"})))
      /\ Before(ChatMessages(p, 1, FALSE)) = LastPiece(Content(UpToLast(p, {"user"})))
      /\ Before(AnthropicRequest(p, 1).turns) = LastPiece(Content(UpToLast(Spoken(p), {"user", "tool"})))
      /\ Before(GeminiContents(p, 1)) = LastPiece(Content(UpToLast(WithNames(Spoken(p)), {"user", "tool"})))
  BY <1>1, OpenaiTogether, ChatTogether, AnthropicTogether, GeminiTogether
<1> QED
  BY <1>2 DEF ImagesTogether, p

-----------------------------------------------------------------------------
(* What a later request finds in the cache.                                *)

\* Turns that begin like others: so do their blocks.
LEMMA BlocksStart ==
    ASSUME NEW turns, IsTurns(turns), NEW first, IsTurns(first), Len(first) <= Len(turns),
           \A i \in 1 .. Len(first) : turns[i].blocks = first[i].blocks
    PROVE  \E rest \in BlockSeqs : Blocks(turns) = Blocks(first) \o rest
<1> DEFINE ss == BlocksOf(turns)
           tt == BlocksOf(first)
           k == Len(first)
<1>1. /\ ss \in Seq(BlockSeqs) /\ Len(ss) = Len(turns) /\ DOMAIN turns = 1 .. Len(turns) /\ Len(turns) \in Nat
      /\ Blocks(turns) = FlattenSeq(ss) /\ \A i \in DOMAIN turns : ss[i] = turns[i].blocks
  BY BlocksFlat DEF BlocksOf
<1>2. /\ tt \in Seq(BlockSeqs) /\ Len(tt) = k /\ DOMAIN first = 1 .. k /\ k \in Nat
      /\ Blocks(first) = FlattenSeq(tt) /\ \A i \in DOMAIN first : tt[i] = first[i].blocks
  BY BlocksFlat DEF BlocksOf
<1> HIDE DEF ss, tt
<1>3. k \in 0 .. Len(ss) /\ \A i \in 1 .. k : i \in DOMAIN turns /\ i \in DOMAIN first
  BY <1>1, <1>2
<1>4. \A i \in 1 .. k : ss[i] = tt[i]
  BY <1>1, <1>2, <1>3
<1> HIDE DEF k
<1>5. SubSeq(ss, 1, k) = tt
  <2> DEFINE u == SubSeq(ss, 1, k)
  <2>1. u \in Seq(BlockSeqs) /\ Len(u) = k /\ \A i \in 1 .. k : u[i] = ss[i]
    BY <1>1, <1>3, Beginnings
  <2> HIDE DEF u
  <2>2. \A i \in 1 .. k : u[i] = tt[i]
    BY <1>4, <2>1
  <2>3. u = tt
    BY <1>2, <2>1, <2>2, SeqEqual
  <2> QED
    BY <2>3 DEF u
<1>6. ss \in Seq(Seq(BlockRecords))
  BY <1>1 DEF BlockSeqs
<1>7. PICK rest \in Seq(BlockRecords) : FlattenSeq(ss) = FlattenSeq(SubSeq(ss, 1, k)) \o rest
  <2>1. \E after \in Seq(BlockRecords) :
               /\ FlattenSeq(SubSeq(ss, 1, k)) \in Seq(BlockRecords)
               /\ FlattenSeq(ss) = FlattenSeq(SubSeq(ss, 1, k)) \o after
               /\ k # 0 => FlattenSeq(SubSeq(ss, 1, k)) = FlattenSeq(SubSeq(ss, 1, k - 1)) \o ss[k]
    BY <1>3, <1>6, FlattenSplit
  <2> QED
    BY <2>1
<1> QED
  BY <1>1, <1>2, <1>5, <1>7 DEF BlockSeqs

\* One image, and where it gets.
LEMMA WithImage ==
    ASSUME NEW turns, IsTurns(turns)
    PROVE  LET new == AppendToLast(turns, 1) IN
           /\ IsTurns(new) /\ Len(turns) \in Nat /\ Len(new) \in Nat
           /\ Users(turns) = {} => /\ Len(new) = Len(turns) + 1
                                   /\ new[Len(turns) + 1].blocks = Images(1)
                                   /\ \A i \in 1 .. Len(turns) : new[i].blocks = turns[i].blocks
           /\ Users(turns) # {} => /\ Spot(turns) \in 1 .. Len(turns) /\ Spot(turns) \in Users(turns)
                                   /\ Len(new) = Len(turns)
                                   /\ new[Spot(turns)].blocks = turns[Spot(turns)].blocks \o Images(1)
                                   /\ \A i \in 1 .. Len(turns) :
                                          i # Spot(turns) => new[i].blocks = turns[i].blocks
<1> DEFINE new == AppendToLast(turns, 1)
<1>1. 1 \in Nat \ {0} /\ BlockRecords \in SUBSET BlockRecords /\ Image \in BlockRecords
  BY DEF Image, BlockRecords
<1>2. \A i \in DOMAIN turns : turns[i].blocks \in Seq(BlockRecords)
  BY DEF IsTurns, BlockSeqs
<1>3. /\ IsTurns(new)
      /\ Users(turns) = {} => /\ Len(new) = Len(turns) + 1
                              /\ new[Len(turns) + 1].blocks = Images(1)
                              /\ \A i \in 1 .. Len(turns) : new[i].blocks = turns[i].blocks
      /\ Users(turns) # {} => /\ LastOf(Users(turns)) \in 1 .. Len(turns)
                              /\ Len(new) = Len(turns)
                              /\ new[LastOf(Users(turns))].blocks
                                    = turns[LastOf(Users(turns))].blocks \o Images(1)
                              /\ \A i \in 1 .. Len(turns) :
                                     i # LastOf(Users(turns)) => new[i].blocks = turns[i].blocks
  <2> HIDE DEF new
  <2> QED
    BY <1>1, <1>2, Appended DEF new
<1> HIDE DEF new
<1>4. Len(turns) \in Nat /\ Len(new) \in Nat /\ DOMAIN turns = 1 .. Len(turns)
  BY <1>3, BlocksFlat
<1>5. Users(turns) # {} => LastOf(Users(turns)) \in Users(turns)
  <2>1. Users(turns) \in SUBSET (1 .. Len(turns))
    BY <1>4 DEF Users
  <2> QED
    BY <1>4, <2>1, LastOfSome
<1>6. Users(turns) # {} => Spot(turns) = LastOf(Users(turns))
  BY DEF Spot
<1> QED
  BY <1>3, <1>4, <1>5, <1>6 DEF new

\* The second row of blocks is the first with more after it.
GoesOn(x, y) == \E rest \in BlockSeqs : y = x \o rest

\* One conversation begins with the turns of another.
Prolongs(first, turns) ==
    Len(first) <= Len(turns) /\ \A i \in 1 .. Len(first) : turns[i] = first[i]

\* A conversation that goes on: the blocks begin alike if the image is in the same
\* turn as before, or in one that is new.
LEMMA ImagesGrow ==
    ASSUME NEW turns, IsTurns(turns), NEW first, IsTurns(first), Prolongs(first, turns)
    PROVE  /\ GoesOn(Blocks(first), Blocks(turns))
           /\ Spot(first) = Spot(turns) => GoesOn(Blocks(AppendToLast(first, 1)), Blocks(AppendToLast(turns, 1)))
           /\ Spot(turns) > Len(first) => GoesOn(Blocks(first), Blocks(AppendToLast(turns, 1)))
<1> DEFINE T == AppendToLast(turns, 1)
           F == AppendToLast(first, 1)
           l == Len(first)
           m == Len(turns)
           s == Spot(turns)
<1>1. l \in Nat /\ m \in Nat /\ l <= m /\ DOMAIN turns = 1 .. m /\ DOMAIN first = 1 .. l
  BY BlocksFlat DEF Prolongs
<1>2. \A i \in 1 .. l : turns[i] = first[i] /\ turns[i].blocks = first[i].blocks /\ i \in 1 .. m
  BY <1>1 DEF Prolongs
<1>3. \E rest \in BlockSeqs : Blocks(turns) = Blocks(first) \o rest
  BY <1>1, <1>2, BlocksStart
<1>4. /\ IsTurns(T) /\ Len(T) \in Nat
      /\ Users(turns) = {} => /\ Len(T) = m + 1 /\ T[m + 1].blocks = Images(1)
                              /\ \A i \in 1 .. m : T[i].blocks = turns[i].blocks
      /\ Users(turns) # {} => /\ s \in 1 .. m /\ s \in Users(turns) /\ Len(T) = m
                              /\ T[s].blocks = turns[s].blocks \o Images(1)
                              /\ \A i \in 1 .. m : i # s => T[i].blocks = turns[i].blocks
  BY WithImage
<1>5. /\ IsTurns(F) /\ Len(F) \in Nat
      /\ Users(first) = {} => /\ Len(F) = l + 1 /\ F[l + 1].blocks = Images(1)
                              /\ \A i \in 1 .. l : F[i].blocks = first[i].blocks
      /\ Users(first) # {} => /\ Spot(first) \in 1 .. l /\ Spot(first) \in Users(first) /\ Len(F) = l
                              /\ F[Spot(first)].blocks = first[Spot(first)].blocks \o Images(1)
                              /\ \A i \in 1 .. l : i # Spot(first) => F[i].blocks = first[i].blocks
  BY WithImage
<1>6. /\ Users(first) = {} => Spot(first) = l
      /\ Users(turns) = {} => s = m
  BY DEF Spot
<1>7. \A i \in 1 .. l : i \in Users(first) <=> i \in Users(turns)
  BY <1>1, <1>2 DEF Users
<1> HIDE DEF T, F, l, m, s
<1>8. ASSUME Spot(first) = s PROVE Len(F) <= Len(T) /\ \A i \in 1 .. Len(F) : T[i].blocks = F[i].blocks
  <2>1. CASE Users(first) = {}
    <3>1. Users(turns) = {}
      <4> SUFFICES ASSUME Users(turns) # {} PROVE FALSE
        OBVIOUS
      <4>1. s = l /\ s \in 1 .. m /\ s \in Users(turns)
        BY <1>4, <1>6, <1>8, <2>1
      <4>2. s \in 1 .. l
        BY <1>1, <4>1
      <4> QED
        BY <1>7, <2>1, <4>1, <4>2
    <3>2. l = m
      BY <1>6, <1>8, <2>1, <3>1
    <3>3. Len(F) = l + 1 /\ Len(T) = l + 1 /\ T[l + 1].blocks = F[l + 1].blocks
      BY <1>4, <1>5, <2>1, <3>1, <3>2
    <3>4. \A i \in 1 .. l : T[i].blocks = F[i].blocks
      BY <1>2, <1>4, <1>5, <2>1, <3>1, <3>2
    <3>5. \A i \in 1 .. l + 1 : i \in 1 .. l \/ i = l + 1
      BY <1>1
    <3> QED
      BY <1>1, <3>3, <3>4, <3>5
  <2>2. CASE Users(first) # {}
    <3>1. s \in 1 .. l /\ Users(turns) # {}
      BY <1>5, <1>7, <1>8, <2>2
    <3>2. T[s].blocks = F[s].blocks
      BY <1>2, <1>4, <1>5, <1>8, <2>2, <3>1
    <3>3. \A i \in 1 .. l : i # s => T[i].blocks = F[i].blocks
      BY <1>2, <1>4, <1>5, <1>8, <2>2, <3>1
    <3>4. Len(F) = l /\ Len(T) = m
      BY <1>4, <1>5, <2>2, <3>1
    <3> QED
      BY <1>1, <3>2, <3>3, <3>4
  <2> QED
    BY <2>1, <2>2
<1>9. ASSUME s > l PROVE l <= Len(T) /\ \A i \in 1 .. l : T[i].blocks = first[i].blocks
  <2>1. CASE Users(turns) = {}
    BY <1>1, <1>2, <1>4, <2>1
  <2>2. CASE Users(turns) # {}
    <3>1. \A i \in 1 .. l : i # s
      BY <1>1, <1>4, <1>9, <2>2
    <3> QED
      BY <1>1, <1>2, <1>4, <2>2, <3>1
  <2> QED
    BY <2>1, <2>2
<1>10. ASSUME Spot(first) = s PROVE \E rest \in BlockSeqs : Blocks(T) = Blocks(F) \o rest
  <2>1. IsTurns(T) /\ IsTurns(F)
    BY <1>4, <1>5
  <2>2. Len(F) <= Len(T) /\ \A i \in 1 .. Len(F) : T[i].blocks = F[i].blocks
    BY <1>8, <1>10
  <2> QED
    BY <2>1, <2>2, BlocksStart
<1>11. ASSUME s > l PROVE \E rest \in BlockSeqs : Blocks(T) = Blocks(first) \o rest
  <2>1. IsTurns(T) /\ IsTurns(first)
    BY <1>4
  <2>2. Len(first) <= Len(T) /\ \A i \in 1 .. Len(first) : T[i].blocks = first[i].blocks
    BY <1>9, <1>11 DEF l
  <2> QED
    BY <2>1, <2>2, BlocksStart
<1> QED
  BY <1>3, <1>10, <1>11 DEF T, F, l, m, s, GoesOn

\* Blocks with one among them are one at least.
LEMMA ThreePieces ==
    ASSUME NEW S, NEW f, NEW im, NEW last, f \in Seq(S) /\ last \in Seq(S) /\ im \in Seq(S) /\ Len(im) = 1
    PROVE  Len((f \o im) \o last) >= 1
<1> DEFINE w == f \o im
<1>1. w \in Seq(S) /\ last \in Seq(S)
  OBVIOUS
<1>2. Len(w) = Len(f) + Len(im) /\ Len(f) \in Nat
  <2>1. f \in Seq(S) /\ im \in Seq(S)
    OBVIOUS
  <2> QED
    BY ONLY <2>1
<1> HIDE DEF w
<1>3. Len(w \o last) = Len(w) + Len(last) /\ Len(last) \in Nat
  BY ONLY <1>1
<1>4. Len(w \o last) >= 1
  BY <1>2, <1>3
<1> QED
  BY <1>4 DEF w

\* Anthropic's turns of a conversation and of its beginning.
LEMMA TurnsGrow ==
    ASSUME NEW prompt \in Conversations, NEW n \in DOMAIN prompt
    PROVE  LET first == AnthropicTurns(SubSeq(prompt, 1, n))
               turns == AnthropicTurns(prompt)
               then == Spoken(SubSeq(prompt, 1, n))
               now == Spoken(prompt)
           IN  /\ IsTurns(first) /\ IsTurns(turns) /\ Len(first) <= Len(turns) /\ Len(first) = Len(then)
               /\ \A i \in 1 .. Len(first) : turns[i] = first[i]
               /\ Spot(first) = LastBy(then, {"user", "tool"}) /\ Spot(turns) = LastBy(now, {"user", "tool"})
<1> DEFINE pre == SubSeq(prompt, 1, n)
           s == Spoken(prompt)
           r == Spoken(pre)
           turns == AnthropicTurns(prompt)
           first == AnthropicTurns(pre)
<1>1. pre \in Conversations
  BY PrefixOf
<1>2. PICK after \in Seq(Sendable) : s = r \o after
  BY SpokenGrows
<1>3. s \in Seq(Sendable) /\ r \in Seq(Sendable)
  BY <1>1, SpokenSendable
<1>a. s \in Seq(Messages) /\ r \in Seq(Messages)
  BY <1>1, SpokenTwice
<1>4. /\ DOMAIN turns = DOMAIN s /\ \A i \in DOMAIN s : turns[i] = AnthropicTurn(s[i])
      /\ DOMAIN first = DOMAIN r /\ \A i \in DOMAIN r : first[i] = AnthropicTurn(r[i])
  BY DEF AnthropicTurns
<1>5. IsTurns(turns) /\ IsTurns(first)
  BY <1>1, TurnsAreTurns
<1> HIDE DEF pre, s, r, turns, first
<1>6. Len(s) = Len(r) + Len(after) /\ Len(r) \in Nat /\ Len(after) \in Nat /\ \A i \in 1 .. Len(r) : s[i] = r[i]
  BY <1>2, <1>3
<1>7. DOMAIN s = 1 .. Len(s) /\ DOMAIN r = 1 .. Len(r) /\ Len(s) \in Nat
  BY <1>3
<1>8. Len(turns) = Len(s) /\ Len(first) = Len(r)
  <2>1. DOMAIN turns = 1 .. Len(turns) /\ Len(turns) \in Nat /\ DOMAIN first = 1 .. Len(first) /\ Len(first) \in Nat
    BY <1>5, BlocksFlat
  <2> QED
    BY <1>4, <1>6, <1>7, <2>1
<1>9. Len(first) <= Len(turns) /\ \A i \in 1 .. Len(first) : turns[i] = first[i]
  <2>1. Len(first) <= Len(turns)
    BY <1>6, <1>8
  <2>2. ASSUME NEW i \in 1 .. Len(first) PROVE turns[i] = first[i]
    <3>1. i \in DOMAIN s /\ i \in DOMAIN r /\ s[i] = r[i]
      BY <1>6, <1>7, <1>8
    <3> QED
      BY <1>4, <3>1
  <2> QED
    BY <2>1, <2>2
<1>10. \A i \in DOMAIN s : s[i] \in Sendable
  BY <1>3
<1>11. \A i \in DOMAIN r : r[i] \in Sendable
  BY <1>3
<1>12. /\ \A i \in DOMAIN turns : turns[i].role = "user" <=> s[i].role \in {"user", "tool"}
       /\ \A i \in DOMAIN first : first[i].role = "user" <=> r[i].role \in {"user", "tool"}
  <2>1. ASSUME NEW i \in DOMAIN turns PROVE turns[i].role = "user" <=> s[i].role \in {"user", "tool"}
    <3>1. turns[i] = AnthropicTurn(s[i]) /\ s[i] \in Sendable
      BY <1>4, <1>10
    <3>2. AnthropicTurn(s[i]).role = "user" <=> s[i].role \in {"user", "tool"}
      BY <3>1, TurnRoles
    <3> QED
      BY <3>1, <3>2
  <2>2. ASSUME NEW i \in DOMAIN first PROVE first[i].role = "user" <=> r[i].role \in {"user", "tool"}
    <3>1. first[i] = AnthropicTurn(r[i]) /\ r[i] \in Sendable
      BY <1>4, <1>11
    <3>2. AnthropicTurn(r[i]).role = "user" <=> r[i].role \in {"user", "tool"}
      BY <3>1, TurnRoles
    <3> QED
      BY <3>1, <3>2
  <2> QED
    BY <2>1, <2>2
<1>13. Spot(turns) = LastBy(s, {"user", "tool"})
  BY <1>a, <1>4, <1>5, <1>12, SpotIsLast
<1>14. Spot(first) = LastBy(r, {"user", "tool"})
  BY <1>a, <1>4, <1>5, <1>12, SpotIsLast
<1> QED
  BY <1>5, <1>8, <1>9, <1>13, <1>14 DEF pre, s, r, turns, first

\* The next request finds what the last one has put into the cache.
LEMMA CacheIsFound == (Talking => Prompt \in Seq(Messages)) => CacheFound
<1> SUFFICES ASSUME Talking, Prompt \in Seq(Messages), Accepted, NEW n \in DOMAIN Prompt,
                    NEW old \in 0 .. 1, NEW new \in 0 .. 1,
                    OptedIn(Prefix(n)), Untouched(n, old, new),
                    Len(Blocks(AnthropicRequest(Prompt, new).turns))
                        - Len(Blocks(AnthropicRequest(Prefix(n), old).turns)) <= Lookback
             PROVE  \E b \in MarkedAt(Blocks(AnthropicRequest(Prefix(n), old).turns)),
                       c \in MarkedAt(Blocks(AnthropicRequest(Prompt, new).turns)) :
                        /\ b <= c /\ c - b <= Lookback
                        /\ Alike(Blocks(AnthropicRequest(Prefix(n), old).turns),
                                 Blocks(AnthropicRequest(Prompt, new).turns), b)
  BY DEF CacheFound
<1> DEFINE p == Prompt
           pre == SubSeq(p, 1, n)
           before == Blocks(AnthropicRequest(pre, old).turns)
           now == Blocks(AnthropicRequest(p, new).turns)
<1>1. p \in Conversations /\ n \in DOMAIN p
  BY DEF Accepted, Conversations
<1>2. Prefix(n) = pre
  BY DEF Prefix
<1>3. /\ pre \in Conversations
      /\ DOMAIN pre = 1 .. n
      /\ \A i \in 1 .. n : pre[i] = p[i] /\ i \in DOMAIN p
  <2> HIDE DEF p
  <2> QED
    BY <1>1, PrefixOf
<1>4. OptedIn(pre) /\ OptedIn(p)
  <2>1. OptedIn(pre)
    BY <1>2
  <2> HIDE DEF p, pre
  <2>2. PICK i \in DOMAIN pre : pre[i].role # "system"
        /\ \E j \in DOMAIN pre[i].parts : pre[i].parts[j].cache # "none"
    BY <2>1 DEF OptedIn
  <2>3. i \in DOMAIN p /\ pre[i] = p[i]
    BY <1>3, <2>2
  <2> QED
    BY <2>1, <2>2, <2>3 DEF OptedIn
<1>5. \/ old = 0 /\ new = 0
      \/ old = new /\ LastBy(Spoken(pre), {"user", "tool"}) = LastBy(Spoken(p), {"user", "tool"})
      \/ old = 0 /\ LastBy(Spoken(p), {"user", "tool"}) > Len(Spoken(pre))
  BY <1>2 DEF Untouched
<1>6. Len(now) - Len(before) <= Lookback
  BY <1>2
<1> HIDE DEF p
<1> DEFINE first == AnthropicTurns(pre)
           turns == AnthropicTurns(p)
           x == Blocks(AppendToLast(first, old))
           y == Blocks(AppendToLast(turns, new))
<1>7. /\ IsTurns(first) /\ IsTurns(turns) /\ Len(first) <= Len(turns) /\ Len(first) = Len(Spoken(pre))
      /\ \A i \in 1 .. Len(first) : turns[i] = first[i]
      /\ Spot(first) = LastBy(Spoken(pre), {"user", "tool"}) /\ Spot(turns) = LastBy(Spoken(p), {"user", "tool"})
  BY <1>1, TurnsGrow
<1> HIDE DEF pre, first, turns
<1>8. GoesOn(x, y)
  <2>1. /\ GoesOn(Blocks(first), Blocks(turns))
        /\ Spot(first) = Spot(turns) => GoesOn(Blocks(AppendToLast(first, 1)), Blocks(AppendToLast(turns, 1)))
        /\ Spot(turns) > Len(first) => GoesOn(Blocks(first), Blocks(AppendToLast(turns, 1)))
    <3>1. IsTurns(turns) /\ IsTurns(first)
      BY <1>7
    <3>2. Prolongs(first, turns)
      BY <1>7 DEF Prolongs
    <3> HIDE DEF x, y
    <3> QED
      BY <3>1, <3>2, ImagesGrow
  <2>2. CASE old = 0 /\ new = 0
    <3>1. x = Blocks(first) /\ y = Blocks(turns)
      BY <2>2, NoImages
    <3> HIDE DEF x, y
    <3> QED
      BY <2>1, <3>1
  <2>3. CASE old = 1 /\ new = 1
    <3>1. x = Blocks(AppendToLast(first, 1)) /\ y = Blocks(AppendToLast(turns, 1))
      BY <2>3
    <3>2. Spot(first) = Spot(turns)
      BY <1>5, <1>7, <2>3
    <3> HIDE DEF x, y
    <3> QED
      BY <2>1, <3>1, <3>2
  <2>4. CASE old = 0 /\ new = 1
    <3>1. Spot(turns) > Len(first)
      BY <1>5, <1>7, <2>4
    <3>2. x = Blocks(first) /\ y = Blocks(AppendToLast(turns, 1))
      BY <2>4, NoImages
    <3> HIDE DEF x, y
    <3> QED
      BY <2>1, <3>1, <3>2
  <2>5. (old = 0 \/ old = 1) /\ (new = 0 \/ new = 1)
    OBVIOUS
  <2>6. ~(old = 1 /\ new = 0)
    BY <1>5
  <2> QED
    BY <2>2, <2>3, <2>4, <2>5, <2>6
<1>9. PICK rest \in BlockSeqs : y = x \o rest
  BY <1>8 DEF GoesOn
<1>10. ASSUME NEW q \in Conversations, OptedIn(q), NEW k \in 0 .. 1
       PROVE  LET made == Blocks(AnthropicRequest(q, k).turns)
                  sent == Blocks(AppendToLast(AnthropicTurns(q), k))
              IN  /\ Len(made) = Len(sent) /\ Len(sent) \in Nat /\ sent \in Seq(BlockRecords)
                  /\ Len(sent) >= 1 => Len(sent) \in MarkedAt(made)
                  /\ \A i \in 1 .. Len(sent) : made[i].kind = sent[i].kind /\ made[i].of = sent[i].of
  <2> DEFINE T == AppendToLast(AnthropicTurns(q), k)
             made == Blocks(AnthropicRequest(q, k).turns)
             sent == Blocks(T)
             count == Len(sent)
  <2>1. k \in Nat
    OBVIOUS
  <2>2. count \in Nat /\ Len(made) = count
          /\ MarkedAt(made) = IF OptedIn(q) THEN {i \in 1 .. count : i - 1 \in Targets(count)} ELSE {}
    BY <1>10, <2>1, RequestMarks
  <2>3. IsTurns(T)
    BY <1>10, <2>1, UnmarkedTurns
  <2>4. made = Blocks(PlaceBreakpoints(T))
    BY <1>10, RequestTurns
  <2> HIDE DEF T, made
  <2>5. sent \in Seq(BlockRecords)
    BY <2>3, BlocksFlat DEF BlockSeqs
  <2>6. \A i \in 1 .. Len(Blocks(T)) : /\ Blocks(PlaceBreakpoints(T))[i].kind = Blocks(T)[i].kind
                                       /\ Blocks(PlaceBreakpoints(T))[i].of = Blocks(T)[i].of
    BY <2>3, MarksAtTargets
  <2>7. \A i \in 1 .. count : made[i].kind = sent[i].kind /\ made[i].of = sent[i].of
    BY <2>4, <2>6
  <2> HIDE DEF sent, count
  <2>8. count >= 1 => count - 1 \in Targets(count) /\ count \in 1 .. count
    BY <2>2 DEF Targets
  <2>9. count >= 1 => count \in MarkedAt(made)
    BY <1>10, <2>2, <2>8
  <2> QED
    BY <2>2, <2>5, <2>7, <2>9 DEF T, made, sent, count
<1>11. /\ Len(before) = Len(x) /\ Len(x) \in Nat /\ x \in Seq(BlockRecords)
       /\ Len(x) >= 1 => Len(x) \in MarkedAt(before)
       /\ \A i \in 1 .. Len(x) : before[i].kind = x[i].kind /\ before[i].of = x[i].of
  BY <1>3, <1>4, <1>10 DEF first
<1>12. /\ Len(now) = Len(y) /\ Len(y) \in Nat /\ y \in Seq(BlockRecords)
       /\ Len(y) >= 1 => Len(y) \in MarkedAt(now)
       /\ \A i \in 1 .. Len(y) : now[i].kind = y[i].kind /\ now[i].of = y[i].of
  BY <1>1, <1>4, <1>10 DEF turns
<1>13. Len(x) >= 1
  <2>1. CASE old = 0
    <3>1. x = Blocks(AnthropicTurns(pre))
      BY <2>1, NoImages DEF first
    <3> QED
      BY <1>3, <1>4, <3>1, OptedInSpeaks
  <2>2. CASE old = 1
    <3> DEFINE f == Blocks(SubSeq(first, 1, Spot(first)))
    <3>1. PICK last \in BlockSeqs : x = (f \o <<Image>>) \o last
      BY <1>7, <2>2, ImageAfter
    <3> DEFINE im == <<Image>>
    <3>2. f \in Seq(BlockRecords) /\ last \in Seq(BlockRecords) /\ im \in Seq(BlockRecords) /\ Len(im) = 1
      <4>1. IsTurns(SubSeq(first, 1, Spot(first)))
        BY <1>7, ImageAfter, FirstBlocks
      <4>2. f \in Seq(BlockRecords) /\ last \in Seq(BlockRecords)
        BY <3>1, <4>1, BlocksFlat DEF BlockSeqs
      <4>3. im \in Seq(BlockRecords) /\ Len(im) = 1
        BY DEF Image, BlockRecords
      <4> QED
        BY <4>2, <4>3
    <3>3. x = (f \o im) \o last
      BY <3>1
    <3> HIDE DEF f, im, x
    <3> QED
      BY <3>2, <3>3, ThreePieces
  <2> QED
    BY <2>1, <2>2
<1> HIDE DEF before, now, x, y
<1>14. Len(y) = Len(x) + Len(rest) /\ Len(rest) \in Nat /\ \A i \in 1 .. Len(x) : y[i] = x[i] /\ i \in 1 .. Len(y)
  <2>1. x \in Seq(BlockRecords) /\ rest \in Seq(BlockRecords)
    BY <1>9, <1>11 DEF BlockSeqs
  <2>2. Len(x \o rest) = Len(x) + Len(rest) /\ Len(rest) \in Nat /\ Len(x) \in Nat
    BY ONLY <2>1
  <2>3. \A i \in 1 .. Len(x) : (x \o rest)[i] = x[i]
    BY ONLY <2>1
  <2>4. \A i \in 1 .. Len(x) : i \in 1 .. Len(x) + Len(rest)
    BY ONLY <2>2
  <2> QED
    BY <1>9, <2>2, <2>3, <2>4
<1>15. Alike(before, now, Len(x))
  BY <1>11, <1>12, <1>14 DEF Alike
<1>16. Len(x) <= Len(y) /\ Len(y) - Len(x) <= Lookback /\ Len(y) >= 1
  BY <1>6, <1>11, <1>12, <1>13, <1>14 DEF Lookback
<1>17. Len(x) \in MarkedAt(before) /\ Len(y) \in MarkedAt(now)
  BY <1>11, <1>12, <1>13, <1>16
<1> QED
  BY <1>2, <1>15, <1>16, <1>17 DEF before, now, p

-----------------------------------------------------------------------------
(* The conversations of the cases.                                         *)

\* The calls that have no result yet are calls of the conversation.
LEMMA PendingTypes ==
    ASSUME NEW prompt \in Seq(Messages)
    PROVE  Pending(prompt) \in Seq(Places)
<1> DEFINE made == FlattenSeq([i \in DOMAIN prompt |-> prompt[i].calls])
           done == {prompt[j].answers : j \in DOMAIN prompt}
           ss == [k \in DOMAIN made |-> IF made[k] \notin done THEN <<made[k]>> ELSE <<>>]
<1>1. Pending(prompt) = FlattenSeq(ss)
  BY DEF Pending, Pick, Gather
<1>2. made \in Seq(Places)
  <2> DEFINE calls == [i \in DOMAIN prompt |-> prompt[i].calls]
  <2>1. \A i \in DOMAIN prompt : prompt[i].calls \in Seq(Places)
    <3> SUFFICES ASSUME NEW i \in DOMAIN prompt PROVE prompt[i].calls \in Seq(Places)
      OBVIOUS
    <3>1. prompt[i] \in Messages
      OBVIOUS
    <3> QED
      BY <3>1, MessageFacts
  <2>2. DOMAIN prompt = 1 .. Len(prompt) /\ Len(prompt) \in Nat
    OBVIOUS
  <2>3. calls \in Seq(Seq(Places))
    BY <2>1, <2>2
  <2> HIDE DEF calls
  <2>4. FlattenSeq(calls) \in Seq(Places)
    BY <2>3, FlattenAppend, EmptySeq
  <2> QED
    BY <2>4 DEF calls
<1> HIDE DEF made, done
<1>3. ss \in Seq(Seq(Places))
  <2>1. DOMAIN made = 1 .. Len(made) /\ Len(made) \in Nat /\ \A k \in DOMAIN made : made[k] \in Places
    BY <1>2
  <2> QED
    BY <2>1
<1> HIDE DEF ss
<1>4. FlattenSeq(ss) \in Seq(Places)
  BY <1>3, FlattenAppend, EmptySeq
<1> QED
  BY <1>1, <1>4

\* A message of parts that are well formed is one.
LEMMA MessageMade ==
    ASSUME NEW role \in Roles, NEW string \in BOOLEAN, NEW parts \in Seq(PartRecords),
           \A j \in DOMAIN parts : /\ parts[j].cache # "none" => role \in {"user", "system"}
                                   /\ parts[j].kind = "reasoning" =>
                                          role = "assistant" /\ ~string /\ parts[j].text # Empty
    PROVE  /\ Message(role, string, parts) \in Messages
           /\ Message(role, string, parts).role = role
<1>1. <<>> \in Seq(Places) /\ Empty \in Places
  BY DEF Empty, Places
<1> QED
  BY <1>1 DEF Message, Messages, MessageRecords, WellFormed

\* The parts of the cases.
LEMMA PartMade ==
    ASSUME NEW kind \in {"text", "reasoning"}, NEW text \in Places, NEW cache \in {"none", "5m", "1h"}
    PROVE  /\ Part(kind, text, cache) \in PartRecords
           /\ Part(kind, text, cache).kind = kind /\ Part(kind, text, cache).text = text
           /\ Part(kind, text, cache).cache = cache
  BY DEF Part, PartRecords

\* The places of texts.
LEMMA PlaceMade == Empty \in Places /\ \A i, j \in Nat : <<i, j>> \in Places /\ <<i, j>> # Empty
  BY DEF Empty, Places

\* The messages that are strings,
LEMMA StringsMade ==
    ASSUME NEW role \in Roles, NEW i \in Nat
    PROVE  /\ Plain(role, i) \in Messages /\ Plain(role, i).role = role
           /\ Silent(role) \in Messages /\ Silent(role).role = role
<1>1. \A text \in Places : Message(role, TRUE, <<Part("text", text, "none")>>) \in Messages
                           /\ Message(role, TRUE, <<Part("text", text, "none")>>).role = role
  <2> SUFFICES ASSUME NEW text \in Places
               PROVE  Message(role, TRUE, <<Part("text", text, "none")>>) \in Messages
                      /\ Message(role, TRUE, <<Part("text", text, "none")>>).role = role
    OBVIOUS
  <2> DEFINE p == Part("text", text, "none")
  <2>1. p \in PartRecords /\ p.kind = "text" /\ p.cache = "none"
    BY PartMade
  <2> HIDE DEF p
  <2>2. <<p>> \in Seq(PartRecords) /\ \A j \in DOMAIN <<p>> : <<p>>[j] = p
    BY <2>1
  <2>3. \A j \in DOMAIN <<p>> : <<p>>[j].cache = "none" /\ <<p>>[j].kind = "text"
    BY <2>1, <2>2
  <2>4. Message(role, TRUE, <<p>>) \in Messages /\ Message(role, TRUE, <<p>>).role = role
    BY <2>2, <2>3, MessageMade
  <2> QED
    BY <2>4 DEF p
<1>2. <<i, 1>> \in Places /\ Empty \in Places
  BY PlaceMade
<1> QED
  BY <1>1, <1>2 DEF Plain, Silent

\* those that are lists of texts,
LEMMA ListsMade ==
    ASSUME NEW role \in {"user", "system"}, NEW i \in Nat, NEW n \in Nat, NEW cache \in {"none", "5m", "1h"}
    PROVE  Parts(role, i, n, cache) \in Messages /\ Marked(role, i, n, cache) \in Messages
<1>1. \A text \in [1 .. n -> {"none", "5m", "1h"}] :
          Message(role, FALSE, [j \in 1 .. n |-> Part("text", <<i, j>>, text[j])]) \in Messages
  <2> SUFFICES ASSUME NEW mark \in [1 .. n -> {"none", "5m", "1h"}]
               PROVE  Message(role, FALSE, [j \in 1 .. n |-> Part("text", <<i, j>>, mark[j])]) \in Messages
    OBVIOUS
  <2> DEFINE parts == [j \in 1 .. n |-> Part("text", <<i, j>>, mark[j])]
  <2>1. \A j \in 1 .. n : parts[j] \in PartRecords /\ parts[j].kind = "text"
    BY PlaceMade, PartMade
  <2>2. parts \in Seq(PartRecords) /\ DOMAIN parts = 1 .. n
    BY <2>1
  <2> HIDE DEF parts
  <2>3. \A j \in DOMAIN parts : parts[j].kind = "text"
    BY <2>1, <2>2
  <2>4. role \in Roles /\ FALSE \in BOOLEAN
    BY DEF Roles
  <2>5. Message(role, FALSE, parts) \in Messages
    BY <2>2, <2>3, <2>4, MessageMade
  <2> QED
    BY <2>5 DEF parts
<1>2. Parts(role, i, n, cache) \in Messages
  <2> DEFINE mark == [j \in 1 .. n |-> IF j = n THEN cache ELSE "none"]
  <2>1. mark \in [1 .. n -> {"none", "5m", "1h"}]
    OBVIOUS
  <2>2. Parts(role, i, n, cache) = Message(role, FALSE, [j \in 1 .. n |-> Part("text", <<i, j>>, mark[j])])
    BY DEF Parts
  <2> HIDE DEF mark
  <2> QED
    BY <1>1, <2>1, <2>2
<1>3. Marked(role, i, n, cache) \in Messages
  <2> DEFINE mark == [j \in 1 .. n |-> cache]
  <2>1. mark \in [1 .. n -> {"none", "5m", "1h"}]
    OBVIOUS
  <2>2. Marked(role, i, n, cache) = Message(role, FALSE, [j \in 1 .. n |-> Part("text", <<i, j>>, mark[j])])
    BY DEF Marked
  <2> HIDE DEF mark
  <2> QED
    BY <1>1, <2>1, <2>2
<1> QED
  BY <1>2, <1>3

\* and the one that shows its thoughts.
LEMMA ThoughtMade ==
    ASSUME NEW i \in Nat
    PROVE  Thought(i) \in Messages /\ Thought(i).role = "assistant"
<1> DEFINE p == Part("reasoning", <<i, 1>>, "none")
           q == Part("text", <<i, 2>>, "none")
<1>1. <<i, 1>> \in Places /\ <<i, 2>> \in Places /\ <<i, 1>> # Empty
  BY PlaceMade
<1>2. p \in PartRecords /\ p.cache = "none" /\ p.text # Empty
  BY <1>1, PartMade
<1>3. q \in PartRecords /\ q.cache = "none" /\ q.kind = "text"
  BY <1>1, PartMade
<1> HIDE DEF p, q
<1>4. <<p, q>> \in Seq(PartRecords) /\ \A j \in DOMAIN <<p, q>> : <<p, q>>[j] = p \/ <<p, q>>[j] = q
  BY <1>2, <1>3
<1>5. \A j \in DOMAIN <<p, q>> : /\ <<p, q>>[j].cache = "none"
                                 /\ <<p, q>>[j].kind = "reasoning" => <<p, q>>[j].text # Empty
  BY <1>2, <1>3, <1>4
<1>6. "assistant" \in Roles /\ FALSE \in BOOLEAN
  BY DEF Roles
<1>7. Message("assistant", FALSE, <<p, q>>) \in Messages
      /\ Message("assistant", FALSE, <<p, q>>).role = "assistant"
  BY <1>4, <1>5, <1>6, MessageMade
<1> QED
  BY <1>7 DEF Thought, p, q

\* Calls and answers are added to them.
LEMMA CallsAdded ==
    ASSUME NEW m \in Messages, m.role = "assistant", NEW i \in Nat, NEW n \in Nat
    PROVE  Calling(m, i, n) \in Messages
<1> DEFINE calls == [k \in 1 .. n |-> <<i, k>>]
<1>1. calls \in Seq(Places)
  <2>1. \A k \in 1 .. n : <<i, k>> \in Places
    BY PlaceMade
  <2> QED
    BY <2>1
<1> HIDE DEF calls
<1>2. m \in MessageRecords /\ WellFormed(m)
  BY DEF Messages
<1>3. [m EXCEPT !.calls = calls] \in MessageRecords
  BY <1>1, <1>2 DEF MessageRecords
<1>4. WellFormed([m EXCEPT !.calls = calls])
  BY <1>2 DEF WellFormed, MessageRecords
<1> QED
  BY <1>3, <1>4 DEF Calling, Messages, calls

\* The answer to a call.
LEMMA AnswerAdded ==
    ASSUME NEW call \in Places, NEW i \in Nat
    PROVE  \A field \in {"toolName", "name"} : Answering(call, i, field) \in Messages
<1> DEFINE m == Plain("tool", i)
<1>1. m \in MessageRecords /\ WellFormed(m)
  BY StringsMade DEF Messages, Roles
<1> HIDE DEF m
<1> SUFFICES ASSUME NEW field \in {"toolName", "name"}
             PROVE  [m EXCEPT !.answers = call, !.field = field] \in Messages
  BY DEF Answering, m
<1>2. [m EXCEPT !.answers = call, !.field = field] \in MessageRecords
  BY <1>1 DEF MessageRecords
<1>3. WellFormed([m EXCEPT !.answers = call, !.field = field])
  BY <1>1 DEF WellFormed, MessageRecords
<1> QED
  BY <1>2, <1>3 DEF Messages

\* What may be said next is a message.
LEMMA NextTurns ==
    ASSUME NEW prompt \in Seq(Messages), NEW i \in Nat
    PROVE  Turns(prompt, i) \subseteq Messages
<1>1. CASE Pending(prompt) # <<>>
  <2>1. Pending(prompt)[1] \in Places
    BY <1>1, PendingTypes
  <2>2. \A field \in {"toolName", "name"} : Answering(Pending(prompt)[1], i, field) \in Messages
    BY <2>1, AnswerAdded
  <2> QED
    BY <1>1, <2>2 DEF Turns
<1>2. CASE Pending(prompt) = <<>>
  <2>1. \A role \in {"user", "assistant", "system"} :
            Plain(role, i) \in Messages /\ Plain(role, i).role = role
            /\ Silent(role) \in Messages /\ Silent(role).role = role
    BY StringsMade DEF Roles
  <2>2. Thought(i) \in Messages /\ Thought(i).role = "assistant"
    BY ThoughtMade
  <2>3. Long \in Nat /\ 1 \in Nat /\ 2 \in Nat /\ 3 \in Nat
    BY LongAssumption
  <2>4. /\ Parts("user", i, 2, "none") \in Messages /\ Parts("user", i, 1, "1h") \in Messages
        /\ Parts("user", i, Long, "5m") \in Messages
        /\ Marked("system", i, 2, "5m") \in Messages /\ Marked("system", i, 3, "1h") \in Messages
    BY <2>3, ListsMade
  <2>5. /\ Calling(Plain("assistant", i), i, 2) \in Messages
        /\ Calling(Silent("assistant"), i, 1) \in Messages
        /\ Calling(Thought(i), i, 1) \in Messages
    BY <2>1, <2>2, <2>3, CallsAdded
  <2> QED
    BY <1>2, <2>1, <2>2, <2>4, <2>5 DEF Turns
<1> QED
  BY <1>1, <1>2

\* A step of another case: it neither begins nor goes on with a case of this kind.
Elsewhere(kind) == scenario.kind # kind /\ scenario'.kind # kind

TalkSpec == Init /\ [][Talk \/ Say \/ Elsewhere("talk")]_scenario
TalkInv == Talking => scenario \in [kind : {"talk"}, prompt : Seq(Messages)]

\* A conversation is one of well-formed messages, however it grows.
LEMMA TalkInvariant == TalkSpec => []TalkInv
<1>1. Init => TalkInv
  BY DEF Init, Idle, TalkInv, Talking
<1>2. TalkInv /\ [Talk \/ Say \/ Elsewhere("talk")]_scenario => TalkInv'
  <2> SUFFICES ASSUME TalkInv, [Talk \/ Say \/ Elsewhere("talk")]_scenario PROVE TalkInv'
    OBVIOUS
  <2>1. CASE Talk
    <3>1. <<>> \in Seq(Messages)
      OBVIOUS
    <3> QED
      BY <2>1, <3>1 DEF Talk, TalkInv
  <2>2. CASE Say
    <3>1. scenario \in [kind : {"talk"}, prompt : Seq(Messages)]
      BY <2>2 DEF Say, TalkInv, Talking
    <3>2. PICK m \in Turns(scenario.prompt, Len(scenario.prompt) + 1) :
              scenario' = [scenario EXCEPT !.prompt = Append(@, m)]
      BY <2>2 DEF Say
    <3>3. scenario.prompt \in Seq(Messages)
      BY <3>1
    <3>4. Len(scenario.prompt) + 1 \in Nat
      BY <3>3
    <3>5. m \in Messages
      BY <3>2, <3>3, <3>4, NextTurns
    <3>6. Append(scenario.prompt, m) \in Seq(Messages)
      BY <3>3, <3>5
    <3> QED
      BY <3>1, <3>2, <3>6 DEF TalkInv
  <2>3. CASE Elsewhere("talk")
    BY <2>3 DEF Elsewhere, TalkInv, Talking
  <2>4. CASE UNCHANGED scenario
    BY <2>4 DEF TalkInv, Talking
  <2> QED
    BY <2>1, <2>2, <2>3, <2>4
<1> QED
  BY <1>1, <1>2, PTL DEF TalkSpec

\* What holds of the requests of every such conversation holds of each that is reached.
LEMMA RequestsPart == TalkSpec => []RequestsFaithful
<1>1. TalkInv => RequestsFaithful
  <2>1. TalkInv => (Talking => Prompt \in Seq(Messages))
    BY DEF TalkInv, Prompt
  <2> QED
    BY <2>1, NothingIsDropped, ImagesAreTogether, ReasoningIsThere, CacheIsFound, BreakpointsDoFit,
       SystemEndsAreKept DEF RequestsFaithful
<1> QED
  BY <1>1, TalkInvariant, PTL

-----------------------------------------------------------------------------
(* The lines of a text.                                                    *)

\* A text without a line end.
NoEnd(text) == \A i \in DOMAIN text : text[i] # End

\* The line that starts at i, if one does.
LineFrom(text, i) == IF i \in Starts(text) THEN <<LineAt(text, i)>> ELSE <<>>

\* What each place of a text starts.
LinesFrom(text) == [i \in 1 .. Len(text) |-> LineFrom(text, i)]

\* Where an unbroken stretch stops.
Stop(text, i) == CHOOSE j \in Unbroken(text, i) : \A k \in Unbroken(text, i) : k <= j

\* A line reaches to the last place before an end.
LEMMA StopsAt ==
    ASSUME NEW S, NEW text \in Seq(S), NEW i \in Starts(text)
    PROVE  /\ Stop(text, i) \in Unbroken(text, i) /\ \A k \in Unbroken(text, i) : k <= Stop(text, i)
           /\ i \in 1 .. Len(text) /\ Len(text) \in Nat /\ Stop(text, i) \in i .. Len(text)
           /\ LineAt(text, i) = SubSeq(text, i, Stop(text, i))
           /\ LineAt(text, i) \in Seq(S) /\ Len(LineAt(text, i)) = Stop(text, i) - i + 1
<1>1. i \in 1 .. Len(text) /\ Len(text) \in Nat /\ text[i] # End
  BY DEF Starts
<1>2. i \in Unbroken(text, i) /\ Unbroken(text, i) \subseteq i .. Len(text)
  BY <1>1 DEF Unbroken
<1>3. \E j \in Unbroken(text, i) : \A k \in Unbroken(text, i) : k <= j
  <2> DEFINE U == Unbroken(text, i)
             gaps == {Len(text) - j : j \in U}
  <2>1. gaps \in SUBSET Nat /\ gaps # {}
    BY <1>1, <1>2
  <2>2. PICK g \in gaps : \A h \in gaps : g <= h
    BY <2>1, LeastOf
  <2>3. PICK j \in U : g = Len(text) - j
    BY <2>2
  <2>4. ASSUME NEW k \in U PROVE k <= j
    <3>1. Len(text) - k \in gaps
      BY <2>4
    <3>2. g <= Len(text) - k
      BY <2>2, <3>1
    <3> QED
      BY <1>1, <1>2, <2>3, <2>4, <3>2
  <2> QED
    BY <2>4
<1>4. Stop(text, i) \in Unbroken(text, i) /\ \A k \in Unbroken(text, i) : k <= Stop(text, i)
  BY <1>3 DEF Stop
<1>5. Stop(text, i) \in i .. Len(text)
  BY <1>2, <1>4
<1>6. LineAt(text, i) = SubSeq(text, i, Stop(text, i))
  BY DEF LineAt, Stop
<1>7. SubSeq(text, i, Stop(text, i)) \in Seq(S) /\ Len(SubSeq(text, i, Stop(text, i))) = Stop(text, i) - i + 1
  <2> DEFINE b == Stop(text, i)
  <2>1. b \in i .. Len(text)
    BY <1>5
  <2> HIDE DEF b
  <2>2. SubSeq(text, i, b) \in Seq(S) /\ Len(SubSeq(text, i, b)) = b - i + 1
    BY <1>1, <2>1
  <2> QED
    BY <2>2 DEF b
<1> QED
  BY <1>1, <1>4, <1>5, <1>6, <1>7

\* The lines of a text, one after another.
LEMMA LinesFlat ==
    ASSUME NEW S, NEW text \in Seq(S)
    PROVE  /\ LinesOf(text) = FlattenSeq(LinesFrom(text))
           /\ LinesFrom(text) \in Seq(Seq(Seq(S)))
           /\ LinesOf(text) \in Seq(Seq(S))
<1>1. DOMAIN text = 1 .. Len(text) /\ Len(text) \in Nat
  OBVIOUS
<1>2. LinesOf(text) = FlattenSeq(LinesFrom(text))
  <2>1. [i \in DOMAIN [k \in DOMAIN text |-> k] |->
            IF [k \in DOMAIN text |-> k][i] \in Starts(text)
            THEN <<LineAt(text, [k \in DOMAIN text |-> k][i])>> ELSE <<>>]
          = LinesFrom(text)
    BY <1>1 DEF LineFrom, LinesFrom
  <2> QED
    BY <2>1 DEF LinesOf, Pick, Gather
<1>3. LinesFrom(text) \in Seq(Seq(Seq(S)))
  <2>1. \A i \in 1 .. Len(text) : LineFrom(text, i) \in Seq(Seq(S))
    <3> SUFFICES ASSUME NEW i \in 1 .. Len(text) PROVE LineFrom(text, i) \in Seq(Seq(S))
      OBVIOUS
    <3>1. i \in Starts(text) => LineAt(text, i) \in Seq(S)
      BY StopsAt
    <3> QED
      BY <3>1 DEF LineFrom
  <2> QED
    BY <1>1, <2>1 DEF LinesFrom
<1>4. FlattenSeq(LinesFrom(text)) \in Seq(Seq(S))
  <2> DEFINE ss == LinesFrom(text)
  <2>1. ss \in Seq(Seq(Seq(S))) /\ <<>> \in Seq(Seq(S))
    BY <1>3
  <2> HIDE DEF ss
  <2>2. FlattenSeq(ss) \in Seq(Seq(S))
    BY <2>1, FlattenAppend
  <2> QED
    BY <2>2 DEF ss
<1> QED
  BY <1>2, <1>3, <1>4

\* A text without an end is one line, unless it is empty.
LEMMA OneLine ==
    ASSUME NEW S, NEW text \in Seq(S), NoEnd(text)
    PROVE  LinesOf(text) = IF text = <<>> THEN <<>> ELSE <<text>>
<1>1. DOMAIN text = 1 .. Len(text) /\ Len(text) \in Nat
  OBVIOUS
<1>2. CASE text = <<>>
  <2>1. LinesFrom(text) = <<>>
    BY <1>2 DEF LinesFrom
  <2>2. FlattenSeq(<<>>) = <<>>
    <3>1. <<>> \in Seq(Seq(S)) /\ <<>> \in Seq(S)
      OBVIOUS
    <3> QED
      BY <3>1, FlattenAppend
  <2> QED
    BY <1>2, <2>1, <2>2, LinesFlat
<1>3. CASE text # <<>>
  <2>1. Len(text) # 0
    BY <1>3
  <2>2. 1 \in Starts(text) /\ \A i \in 2 .. Len(text) : i \notin Starts(text)
    BY <1>1, <2>1 DEF Starts, NoEnd
  <2>3. Stop(text, 1) = Len(text)
    <3>1. Len(text) \in Unbroken(text, 1)
      BY <1>1, <2>1 DEF Unbroken, NoEnd
    <3>2. Stop(text, 1) \in 1 .. Len(text) /\ Len(text) <= Stop(text, 1)
      BY <2>2, <3>1, StopsAt
    <3> QED
      BY <1>1, <3>2
  <2>4. LineAt(text, 1) = text
    <3>1. LineAt(text, 1) = SubSeq(text, 1, Len(text))
      BY <2>2, <2>3, StopsAt
    <3> QED
      BY <3>1
  <2> DEFINE ss == LinesFrom(text)
             n == Len(text) - 1
  <2>5. ss[1] = <<text>> /\ \A i \in 2 .. Len(text) : ss[i] = <<>>
    BY <1>1, <2>1, <2>2, <2>4 DEF LineFrom, LinesFrom
  <2>6. ss \in Seq(Seq(Seq(S))) /\ Len(ss) = Len(text) /\ LinesOf(text) = FlattenSeq(ss)
    <3>1. Len(LinesFrom(text)) = Len(text)
      BY <1>1 DEF LinesFrom
    <3> QED
      BY <3>1, LinesFlat
  <2> HIDE DEF ss
  <2>7. 1 \in 1 .. Len(ss) /\ 1 \in 1 .. Len(ss[1]) /\ 0 \in 0 .. Len(ss)
    BY <1>1, <2>1, <2>5, <2>6
  <2>8. FlattenSeq(SubSeq(ss, 1, 0)) = <<>>
    <3>1. SubSeq(ss, 1, 0) = <<>>
      BY <2>6
    <3>2. <<>> \in Seq(Seq(S)) /\ <<>> \in Seq(S)
      OBVIOUS
    <3> QED
      BY <3>1, <3>2, FlattenAppend
  <2>9. 1 \in 1 .. Len(FlattenSeq(ss)) /\ FlattenSeq(ss)[1] = text
    <3>1. Len(FlattenSeq(SubSeq(ss, 1, 1 - 1))) = 0
      BY <2>8
    <3>2. /\ Len(FlattenSeq(SubSeq(ss, 1, 1 - 1))) + 1 \in 1 .. Len(FlattenSeq(ss))
          /\ FlattenSeq(ss)[Len(FlattenSeq(SubSeq(ss, 1, 1 - 1))) + 1] = ss[1][1]
      <4> DEFINE T == Seq(S)
      <4>1. ss \in Seq(Seq(T))
        BY <2>6
      <4> HIDE DEF T
      <4> QED
        BY <2>7, <4>1, FlattenAt, ZenonT(60)
    <3> QED
      BY <2>5, <3>1, <3>2
  <2>10. \A k \in 1 .. Len(FlattenSeq(ss)) : k = 1
    <3> SUFFICES ASSUME NEW k \in 1 .. Len(FlattenSeq(ss)) PROVE k = 1
      OBVIOUS
    <3>1. PICK i \in 1 .. Len(ss) : \E b \in 1 .. Len(ss[i]) : k = Len(FlattenSeq(SubSeq(ss, 1, i - 1))) + b
      BY <2>6, FlattenCovered
    <3>2. i = 1
      BY <2>5, <2>6, <1>1, <3>1, SMTT(30)
    <3>3. \A b \in 1 .. Len(ss[i]) : b = 1
      <4>1. Len(<<text>>) = 1 /\ ss[i] = <<text>>
        BY <2>5, <3>2
      <4> QED
        BY <4>1
    <3> QED
      BY <2>8, <3>1, <3>2, <3>3
  <2>11. FlattenSeq(ss) \in Seq(Seq(S))
    BY <2>6, LinesFlat
  <2>12. Len(FlattenSeq(ss)) = 1
    <3> DEFINE l == Len(FlattenSeq(ss))
    <3>1. l \in Nat /\ 1 \in 1 .. l /\ \A k \in 1 .. l : k = 1
      BY <2>9, <2>10, <2>11
    <3> HIDE DEF l
    <3>2. l \in 1 .. l
      BY <3>1
    <3>3. l = 1
      BY <3>1, <3>2
    <3> QED
      BY <3>3 DEF l
  <2>13. FlattenSeq(ss) = <<text>>
    <3> DEFINE f == FlattenSeq(ss)
    <3>1. f \in Seq(Seq(S)) /\ Len(f) = 1 /\ f[1] = text
      BY <2>9, <2>11, <2>12
    <3> HIDE DEF f
    <3>2. f = <<text>>
      BY <3>1
    <3> QED
      BY <3>2 DEF f
  <2> QED
    BY <1>3, <2>6, <2>13
<1> QED
  BY <1>2, <1>3

\* A sequence of one's elements, one more, and another's.
LEMMA JoinedByOne ==
    ASSUME NEW T, NEW l \in Seq(T), NEW e \in T, NEW r \in Seq(T), NEW z \in Seq(T),
           Len(z) = Len(l) + 1 + Len(r), \A i \in 1 .. Len(l) : z[i] = l[i], z[Len(l) + 1] = e,
           \A j \in 1 .. Len(r) : z[Len(l) + 1 + j] = r[j]
    PROVE  z = l \o (<<e>> \o r)
<1> DEFINE right == <<e>> \o r
           m == Len(l)
           n == Len(r)
<1>1. m \in Nat /\ n \in Nat
  OBVIOUS
<1>2. right \in Seq(T) /\ Len(right) = 1 + n /\ right[1] = e /\ \A j \in 1 .. n : right[1 + j] = r[j]
  OBVIOUS
<1> HIDE DEF right
<1> DEFINE x == l \o right
<1>3. /\ x \in Seq(T) /\ Len(x) = m + (1 + n)
      /\ \A i \in 1 .. m : x[i] = l[i]
      /\ \A j \in 1 .. 1 + n : x[m + j] = right[j]
  <2>1. l \in Seq(T) /\ right \in Seq(T)
    BY <1>2
  <2>2. /\ l \o right \in Seq(T) /\ Len(l \o right) = Len(l) + Len(right)
        /\ \A i \in 1 .. Len(l) : (l \o right)[i] = l[i]
        /\ \A j \in 1 .. Len(right) : (l \o right)[Len(l) + j] = right[j]
    BY ONLY <2>1
  <2> QED
    BY <1>2, <2>2
<1>4. Len(z) = m + 1 + n /\ (\A i \in 1 .. m : z[i] = l[i]) /\ z[m + 1] = e
      /\ \A j \in 1 .. n : z[m + 1 + j] = r[j]
  OBVIOUS
<1> HIDE DEF x, m, n
<1>5. \A i \in 1 .. m + 1 + n : x[i] = z[i]
  <2> SUFFICES ASSUME NEW i \in 1 .. m + 1 + n PROVE x[i] = z[i]
    OBVIOUS
  <2>1. CASE i <= m
    BY <1>1, <1>3, <1>4, <2>1
  <2>2. CASE i = m + 1
    <3>1. 1 \in 1 .. 1 + n
      BY <1>1
    <3> QED
      BY <1>2, <1>3, <1>4, <2>2, <3>1
  <2>3. CASE i > m + 1
    <3> DEFINE j == i - (m + 1)
    <3>1. j \in 1 .. n /\ i = m + 1 + j /\ i = m + (1 + j) /\ 1 + j \in 1 .. 1 + n
      BY <1>1, <2>3
    <3> HIDE DEF j
    <3>2. x[m + (1 + j)] = r[j] /\ z[m + 1 + j] = r[j]
      BY <1>2, <1>3, <1>4, <3>1
    <3> QED
      BY <3>1, <3>2
  <2> QED
    BY <1>1, <2>1, <2>2, <2>3
<1>6. z = x
  <2>1. Len(x) = m + 1 + n
    BY <1>1, <1>3
  <2>2. Len(x) = Len(z)
    BY <1>4, <2>1
  <2>3. \A i \in 1 .. Len(x) : x[i] = z[i]
    BY <1>5, <2>1
  <2> QED
    BY <1>3, <2>2, <2>3, SeqEqual
<1> QED
  BY <1>6 DEF x, right

\* A line's end parts the lines before it from those after it.
LEMMA LinesParted ==
    ASSUME NEW S, End \in S, NEW u \in Seq(S), NEW v \in Seq(S)
    PROVE  LinesOf(u \o <<End>> \o v) = LinesOf(u) \o LinesOf(v)
<1> DEFINE z == u \o <<End>> \o v
           m == Len(u)
           n == Len(v)
<1>1. m \in Nat /\ n \in Nat /\ DOMAIN u = 1 .. m /\ DOMAIN v = 1 .. n
  OBVIOUS
<1>2. z \in Seq(S) /\ Len(z) = m + 1 + n
  OBVIOUS
<1>3. /\ \A i \in 1 .. m : z[i] = u[i]
      /\ z[m + 1] = End
      /\ \A j \in 1 .. n : z[m + 1 + j] = v[j]
  <2> DEFINE w == u \o <<End>>
  <2>1. w \in Seq(S) /\ Len(w) = m + 1 /\ z = w \o v
    OBVIOUS
  <2>2. \A i \in 1 .. m : w[i] = u[i]
    OBVIOUS
  <2>3. w[m + 1] = End
    OBVIOUS
  <2> HIDE DEF w, z
  <2>4. \A i \in 1 .. m + 1 : z[i] = w[i]
    BY <1>1, <2>1
  <2>5. \A j \in 1 .. n : z[m + 1 + j] = v[j]
    BY <1>1, <2>1
  <2> QED
    BY <1>1, <2>2, <2>3, <2>4, <2>5
<1>4. DOMAIN z = 1 .. m + 1 + n
  BY <1>1, <1>2
<1> HIDE DEF z, m, n
<1>5. \A i \in 1 .. m : LineFrom(z, i) = LineFrom(u, i)
  <2> SUFFICES ASSUME NEW i \in 1 .. m PROVE LineFrom(z, i) = LineFrom(u, i)
    OBVIOUS
  <2>1. i \in Starts(z) <=> i \in Starts(u)
    BY <1>1, <1>3, <1>4 DEF Starts
  <2>2. ASSUME i \in Starts(u) PROVE LineAt(z, i) = LineAt(u, i)
    <3>1. Unbroken(z, i) = Unbroken(u, i)
      <4>1. Len(z) = m + 1 + n /\ Len(u) = m
        BY <1>2 DEF m
      <4>2. \A j \in i .. m + 1 + n : (\A k \in i .. j : z[k] # End) => j \in i .. m
        BY <1>1, <1>3, SMTT(30)
      <4>3. \A j \in i .. m : (\A k \in i .. j : z[k] # End) <=> (\A k \in i .. j : u[k] # End)
        BY <1>1, <1>3, SMTT(30)
      <4> QED
        <5> DEFINE P == {j \in i .. m + 1 + n : \A k \in i .. j : z[k] # End}
                   Q == {j \in i .. m : \A k \in i .. j : u[k] # End}
        <5>1. Unbroken(z, i) = P /\ Unbroken(u, i) = Q
          BY <4>1, Zenon DEF Unbroken
        <5>2. \A j \in i .. m : j \in i .. m + 1 + n
          BY <1>1
        <5>3. \A j : j \in P <=> j \in Q
          BY <4>2, <4>3, <5>2, Zenon
        <5> QED
          BY <5>1, <5>3
    <3>2. Stop(z, i) = Stop(u, i)
      BY <3>1 DEF Stop
    <3>3. Stop(u, i) \in i .. m /\ LineAt(u, i) = SubSeq(u, i, Stop(u, i))
      BY <2>2, StopsAt DEF m
    <3>4. LineAt(z, i) = SubSeq(z, i, Stop(u, i))
      BY <3>2 DEF LineAt, Stop
    <3> DEFINE b == Stop(u, i)
    <3> HIDE DEF b
    <3>5. b \in i .. m
      BY <3>3 DEF b
    <3>6. SubSeq(z, i, b) = SubSeq(u, i, b)
      <4>1. \A k \in 1 .. b - i + 1 : i + k - 1 \in 1 .. m
        BY <1>1, <3>5
      <4>2. \A k \in 1 .. b - i + 1 : z[i + k - 1] = u[i + k - 1]
        BY <1>3, <4>1
      <4>3. SubSeq(z, i, b) = [k \in 1 .. b - i + 1 |-> z[i + k - 1]]
        BY <1>1, <1>2, <3>5
      <4>4. SubSeq(u, i, b) = [k \in 1 .. b - i + 1 |-> u[i + k - 1]]
        BY <1>1, <3>5 DEF m
      <4> QED
        BY <4>2, <4>3, <4>4
    <3> QED
      BY <3>3, <3>4, <3>6 DEF b
  <2> QED
    BY <2>1, <2>2 DEF LineFrom
<1>6. LineFrom(z, m + 1) = <<>>
  BY <1>3 DEF LineFrom, Starts
<1>7. \A j \in 1 .. n : LineFrom(z, m + 1 + j) = LineFrom(v, j)
  <2> SUFFICES ASSUME NEW i \in 1 .. n PROVE LineFrom(z, m + 1 + i) = LineFrom(v, i)
    OBVIOUS
  <2> DEFINE at == m + 1 + i
  <2>1. at \in Starts(z) <=> i \in Starts(v)
    <3>1. z[at] = v[i] /\ at \in DOMAIN z
      BY <1>1, <1>3, <1>4
    <3>2. CASE i = 1
      <4>1. z[at - 1] = End
        BY <1>1, <1>3, <3>2
      <4> QED
        BY <1>1, <3>1, <3>2, <4>1 DEF Starts
    <3>3. CASE i # 1
      <4>1. i - 1 \in 1 .. n /\ at - 1 = m + 1 + (i - 1)
        BY <1>1, <3>3
      <4>2. z[at - 1] = v[i - 1]
        BY <1>3, <4>1
      <4>3. at > 1 /\ i > 1 /\ i \in DOMAIN v
        BY <1>1, <3>3
      <4> HIDE DEF at
      <4> QED
        BY <3>1, <4>2, <4>3 DEF Starts
    <3> QED
      BY <3>2, <3>3
  <2>2. ASSUME i \in Starts(v) PROVE LineAt(z, at) = LineAt(v, i)
    <3>1. \A j \in at .. m + 1 + n : j - (m + 1) \in i .. n /\ j = m + 1 + (j - (m + 1))
      BY <1>1
    <3>2. \A j \in i .. n : m + 1 + j \in at .. m + 1 + n /\ z[m + 1 + j] = v[j]
      BY <1>1, <1>3
    <3>3. \A j \in i .. n : j \in Unbroken(v, i) <=> m + 1 + j \in Unbroken(z, at)
      <4> SUFFICES ASSUME NEW j \in i .. n
                   PROVE  j \in Unbroken(v, i) <=> m + 1 + j \in Unbroken(z, at)
        OBVIOUS
      <4>1. (\A k \in i .. j : v[k] # End) => (\A k \in at .. m + 1 + j : z[k] # End)
        <5> SUFFICES ASSUME \A k \in i .. j : v[k] # End, NEW k \in at .. m + 1 + j PROVE z[k] # End
          OBVIOUS
        <5>1. k - (m + 1) \in i .. j /\ k = m + 1 + (k - (m + 1)) /\ k - (m + 1) \in 1 .. n
          BY <1>1
        <5>2. z[m + 1 + (k - (m + 1))] = v[k - (m + 1)]
          BY <1>3, <5>1
        <5> QED
          BY <5>1, <5>2
      <4>2. (\A k \in at .. m + 1 + j : z[k] # End) => (\A k \in i .. j : v[k] # End)
        <5> SUFFICES ASSUME \A k \in at .. m + 1 + j : z[k] # End, NEW k \in i .. j PROVE v[k] # End
          OBVIOUS
        <5>1. m + 1 + k \in at .. m + 1 + j /\ z[m + 1 + k] = v[k]
          BY <1>1, <1>3
        <5> QED
          BY <5>1
      <4>3. Len(z) = m + 1 + n /\ Len(v) = n /\ m + 1 + j \in at .. m + 1 + n
        BY <1>2, <3>2 DEF n
      <4> HIDE DEF at
      <4> QED
        BY <4>1, <4>2, <4>3 DEF Unbroken
    <3> DEFINE a == Stop(v, i)
               b == Stop(z, at)
    <3>4. /\ a \in Unbroken(v, i) /\ \A k \in Unbroken(v, i) : k <= a
          /\ a \in i .. n /\ LineAt(v, i) = SubSeq(v, i, a)
      BY <2>2, StopsAt DEF n
    <3>5. /\ b \in Unbroken(z, at) /\ \A k \in Unbroken(z, at) : k <= b
          /\ b \in at .. m + 1 + n /\ LineAt(z, at) = SubSeq(z, at, b)
      BY <1>2, <2>1, <2>2, StopsAt
    <3> HIDE DEF a, b
    <3>6. b = m + 1 + a
      <4>1. m + 1 + a \in Unbroken(z, at)
        BY <3>3, <3>4
      <4>2. b - (m + 1) \in i .. n /\ b = m + 1 + (b - (m + 1))
        BY <3>1, <3>5
      <4>3. b - (m + 1) \in Unbroken(v, i)
        BY <3>3, <3>5, <4>2
      <4>4. m + 1 + a <= b /\ b - (m + 1) <= a
        BY <3>4, <3>5, <4>1, <4>3
      <4> QED
        BY <1>1, <3>4, <3>5, <4>4
    <3>7. SubSeq(z, at, m + 1 + a) = SubSeq(v, i, a)
      <4>1. \A k \in 1 .. a - i + 1 : z[at + k - 1] = v[i + k - 1]
        <5> SUFFICES ASSUME NEW k \in 1 .. a - i + 1 PROVE z[at + k - 1] = v[i + k - 1]
          OBVIOUS
        <5>1. i + k - 1 \in 1 .. n /\ m + 1 + (i + k - 1) = at + k - 1
          BY <1>1, <3>4
        <5>2. z[m + 1 + (i + k - 1)] = v[i + k - 1]
          BY <1>3, <5>1
        <5> QED
          BY <5>1, <5>2
      <4>2. SubSeq(z, at, m + 1 + a) = [k \in 1 .. a - i + 1 |-> z[at + k - 1]]
        BY <1>1, <1>2, <3>4
      <4>3. SubSeq(v, i, a) = [k \in 1 .. a - i + 1 |-> v[i + k - 1]]
        BY <1>1, <3>4 DEF n
      <4> HIDE DEF at
      <4> QED
        BY <4>1, <4>2, <4>3
    <3> QED
      BY <3>4, <3>5, <3>6, <3>7
  <2> QED
    BY <2>1, <2>2 DEF LineFrom
<1>8. LinesFrom(z) = LinesFrom(u) \o (<< <<>> >> \o LinesFrom(v))
  <2> DEFINE l == LinesFrom(u)
             r == LinesFrom(v)
             zz == LinesFrom(z)
  <2>1. l \in Seq(Seq(Seq(S))) /\ r \in Seq(Seq(Seq(S))) /\ zz \in Seq(Seq(Seq(S)))
    BY <1>2, LinesFlat
  <2>2. Len(l) = m /\ Len(r) = n /\ Len(zz) = m + 1 + n
    BY <1>1, <1>2 DEF LinesFrom, m, n
  <2>3. /\ \A i \in 1 .. m : l[i] = LineFrom(u, i)
        /\ \A i \in 1 .. n : r[i] = LineFrom(v, i)
        /\ \A i \in 1 .. m + 1 + n : zz[i] = LineFrom(z, i)
    BY <1>2 DEF LinesFrom, m, n
  <2> HIDE DEF l, r, zz
  <2>4. /\ Len(zz) = Len(l) + 1 + Len(r)
        /\ \A i \in 1 .. Len(l) : zz[i] = l[i]
        /\ zz[Len(l) + 1] = <<>>
        /\ \A j \in 1 .. Len(r) : zz[Len(l) + 1 + j] = r[j]
    <3>1. \A i \in 1 .. m : zz[i] = l[i]
      BY <1>1, <1>5, <2>3
    <3>2. zz[m + 1] = <<>>
      BY <1>1, <1>6, <2>3
    <3>3. \A j \in 1 .. n : zz[m + 1 + j] = r[j]
      BY <1>1, <1>7, <2>3
    <3> QED
      BY <2>2, <3>1, <3>2, <3>3
  <2> DEFINE e == <<>>
             T == Seq(Seq(S))
  <2>5. e \in T
    OBVIOUS
  <2> HIDE DEF e, T
  <2>6. l \in Seq(T) /\ r \in Seq(T) /\ zz \in Seq(T) /\ zz[Len(l) + 1] = e
    BY <2>1, <2>4 DEF e, T
  <2>7. zz = l \o (<<e>> \o r)
    BY <2>4, <2>5, <2>6, JoinedByOne, ZenonT(60)
  <2> QED
    BY <2>7 DEF l, r, zz, e
<1>9. LinesOf(z) = LinesOf(u) \o LinesOf(v)
  <2> DEFINE one == << <<>> >>
             l == LinesFrom(u)
             r == LinesFrom(v)
  <2>1. /\ l \in Seq(Seq(Seq(S))) /\ r \in Seq(Seq(Seq(S)))
        /\ LinesOf(u) = FlattenSeq(l) /\ LinesOf(v) = FlattenSeq(r) /\ LinesOf(z) = FlattenSeq(LinesFrom(z))
        /\ LinesOf(v) \in Seq(Seq(S)) /\ LinesOf(u) \in Seq(Seq(S))
    BY <1>2, LinesFlat
  <2>2. one \in Seq(Seq(Seq(S))) /\ <<>> \in Seq(Seq(S))
    OBVIOUS
  <2>3. LinesFrom(z) = l \o (one \o r)
    BY <1>8
  <2> HIDE DEF l, r
  <2>4. FlattenSeq(one) = <<>>
    BY <2>2, FlattenOne
  <2> HIDE DEF one
  <2>5. one \o r \in Seq(Seq(Seq(S))) /\ FlattenSeq(one \o r) = FlattenSeq(one) \o FlattenSeq(r)
    <3>1. one \o r \in Seq(Seq(Seq(S)))
      BY <2>1, <2>2
    <3> QED
      BY <2>1, <2>2, <3>1, FlattenConcat
  <2>6. FlattenSeq(l \o (one \o r)) = FlattenSeq(l) \o FlattenSeq(one \o r)
    <3> DEFINE x == one \o r
    <3>1. x \in Seq(Seq(Seq(S)))
      BY <2>5
    <3> HIDE DEF x
    <3>2. FlattenSeq(l \o x) = FlattenSeq(l) \o FlattenSeq(x)
      BY <2>1, <3>1, FlattenConcat
    <3> QED
      BY <3>2 DEF x
  <2>7. FlattenSeq(one) \o FlattenSeq(r) = LinesOf(v)
    BY <2>1, <2>4
  <2> QED
    BY <2>1, <2>3, <2>5, <2>6, <2>7
<1> QED
  BY <1>9 DEF z

\* A sequence is what is before a place, what is there, and what is after it.
LEMMA PartsAt ==
    ASSUME NEW S, NEW s \in Seq(S), NEW i \in 1 .. Len(s)
    PROVE  LET a == SubSeq(s, 1, i - 1)
               b == SubSeq(s, i + 1, Len(s))
           IN  /\ a \in Seq(S) /\ Len(a) = i - 1 /\ \A k \in 1 .. i - 1 : a[k] = s[k]
               /\ b \in Seq(S) /\ Len(b) = Len(s) - i /\ \A k \in 1 .. Len(s) - i : b[k] = s[i + k]
               /\ s[i] \in S
               /\ s = a \o (<<s[i]>> \o b)
<1> DEFINE a == SubSeq(s, 1, i - 1)
           b == SubSeq(s, i + 1, Len(s))
           n == Len(s)
           e == s[i]
<1>1. n \in Nat /\ i \in 1 .. n /\ e \in S /\ i \in Nat
  OBVIOUS
<1>2. a \in Seq(S) /\ Len(a) = i - 1 /\ \A k \in 1 .. i - 1 : a[k] = s[k]
  OBVIOUS
<1>3. b \in Seq(S) /\ Len(b) = n - i /\ \A k \in 1 .. n - i : b[k] = s[i + k]
  OBVIOUS
<1> HIDE DEF a, b, n
<1>4. Len(s) = Len(a) + 1 + Len(b) /\ s[Len(a) + 1] = e
  BY <1>1, <1>2, <1>3 DEF n
<1>5. \A k \in 1 .. Len(a) : s[k] = a[k]
  BY <1>2
<1>6. \A k \in 1 .. Len(b) : s[Len(a) + 1 + k] = b[k]
  BY <1>1, <1>2, <1>3
<1> HIDE DEF e
<1>7. s = a \o (<<e>> \o b)
  BY <1>1, <1>2, <1>3, <1>4, <1>5, <1>6, JoinedByOne
<1> QED
  BY <1>1, <1>2, <1>3, <1>7 DEF a, b, n, e

\* One after another, opaque to the provers.
Cat(s, t) == s \o t
\* A line end by itself.
LineEnd == <<End>>

\* The length of two texts joined.
LEMMA CatSize ==
    ASSUME NEW S, NEW s \in Seq(S), NEW t \in Seq(S)
    PROVE  /\ Cat(s, t) \in Seq(S) /\ Len(Cat(s, t)) = Len(s) + Len(t) /\ Len(s) \in Nat /\ Len(t) \in Nat
           /\ Cat(<<>>, s) = s /\ Cat(s, <<>>) = s
<1>1. s \o t \in Seq(S) /\ Len(s \o t) = Len(s) + Len(t) /\ Len(s) \in Nat /\ Len(t) \in Nat
  OBVIOUS
<1>2. <<>> \o s = s /\ s \o <<>> = s
  BY ConcatEmptySeq
<1> QED
  BY <1>1, <1>2 DEF Cat

\* What is in it.
LEMMA CatBefore ==
    ASSUME NEW S, NEW s \in Seq(S), NEW t \in Seq(S), NEW i \in 1 .. Len(s)
    PROVE  Cat(s, t)[i] = s[i]
  BY DEF Cat

\* The second of two texts is after the first.
LEMMA CatAfter ==
    ASSUME NEW S, NEW s \in Seq(S), NEW t \in Seq(S), NEW i \in 1 .. Len(t)
    PROVE  Cat(s, t)[Len(s) + i] = t[i]
  BY DEF Cat

\* Three texts joined, in whichever order.
LEMMA CatTwice ==
    ASSUME NEW S, NEW s \in Seq(S), NEW t \in Seq(S), NEW u \in Seq(S)
    PROVE  Cat(Cat(s, t), u) = Cat(s, Cat(t, u))
  BY SMTT(30) DEF Cat

\* Two texts without an end have none when they are joined.
LEMMA FreeJoined ==
    ASSUME NEW S, NEW s \in Seq(S), NEW t \in Seq(S), NoEnd(s), NoEnd(t)
    PROVE  NoEnd(Cat(s, t)) /\ (s # <<>> \/ t # <<>> => Cat(s, t) # <<>>)
<1>1. Cat(s, t) \in Seq(S) /\ Len(Cat(s, t)) = Len(s) + Len(t) /\ Len(s) \in Nat /\ Len(t) \in Nat
  BY CatSize
<1>4. \A i \in 1 .. Len(s) + Len(t) : Cat(s, t)[i] # End
  <2> SUFFICES ASSUME NEW i \in 1 .. Len(s) + Len(t) PROVE Cat(s, t)[i] # End
    OBVIOUS
  <2>1. CASE i <= Len(s)
    <3>1. i \in 1 .. Len(s)
      BY <1>1, <2>1
    <3>2. s[i] # End
      BY <3>1 DEF NoEnd
    <3> QED
      BY <3>1, <3>2, CatBefore
  <2>2. CASE ~(i <= Len(s))
    <3> DEFINE j == i - Len(s)
    <3>1. j \in 1 .. Len(t) /\ i = Len(s) + j
      BY <1>1, <2>2
    <3> HIDE DEF j
    <3>2. t[j] # End
      BY <3>1 DEF NoEnd
    <3>3. Cat(s, t)[Len(s) + j] = t[j]
      BY <3>1, CatAfter
    <3> QED
      BY <3>1, <3>2, <3>3
  <2> QED
    BY <2>1, <2>2
<1>5. DOMAIN Cat(s, t) = 1 .. Len(s) + Len(t)
  BY <1>1
<1>6. NoEnd(Cat(s, t))
  BY <1>4, <1>5 DEF NoEnd
<1>7. s # <<>> \/ t # <<>> => Len(Cat(s, t)) # 0
  BY <1>1
<1>8. Len(<<>>) = 0
  OBVIOUS
<1> QED
  BY <1>1, <1>6, <1>7, <1>8

\* At the first of its ends.
LEMMA FirstEndParts ==
    ASSUME NEW S, NEW text \in Seq(S), ~NoEnd(text)
    PROVE  LET e == FirstEnd(text)
               a == SubSeq(text, 1, e - 1)
               b == SubSeq(text, e + 1, Len(text))
           IN  /\ e \in 1 .. Len(text) /\ text[e] = End /\ \A k \in 1 .. e - 1 : text[k] # End
               /\ a \in Seq(S) /\ b \in Seq(S) /\ NoEnd(a)
               /\ text = Cat(a, Cat(LineEnd, b))
<1> DEFINE e == FirstEnd(text)
           a == SubSeq(text, 1, e - 1)
           b == SubSeq(text, e + 1, Len(text))
<1>1. LineEnds(text) \in SUBSET Nat /\ LineEnds(text) # {} /\ LineEnds(text) \subseteq 1 .. Len(text)
  BY DEF LineEnds, NoEnd
<1>2. \E i \in LineEnds(text) : \A j \in LineEnds(text) : i <= j
  BY <1>1, LeastOf
<1>3. e \in LineEnds(text) /\ \A j \in LineEnds(text) : e <= j
  BY <1>2 DEF FirstEnd
<1>4. e \in 1 .. Len(text) /\ text[e] = End
  BY <1>1, <1>3 DEF LineEnds
<1> HIDE DEF e
<1>5. \A k \in 1 .. e - 1 : text[k] # End
  BY <1>3, <1>4 DEF LineEnds
<1>6. /\ a \in Seq(S) /\ Len(a) = e - 1 /\ \A k \in 1 .. e - 1 : a[k] = text[k]
      /\ b \in Seq(S) /\ text = a \o (<<text[e]>> \o b)
  BY <1>4, PartsAt, ZenonT(60)
<1> HIDE DEF a, b
<1>7. DOMAIN a = 1 .. e - 1
  BY <1>6
<1>8. NoEnd(a)
  BY <1>5, <1>6, <1>7 DEF NoEnd
<1> QED
  BY <1>4, <1>5, <1>6, <1>8 DEF a, b, e, Cat, LineEnd

\* At the last of its ends.
LEMMA LastEndParts ==
    ASSUME NEW S, NEW text \in Seq(S), ~NoEnd(text)
    PROVE  \E a, b \in Seq(S) : NoEnd(b) /\ text = Cat(a, Cat(LineEnd, b))
<1> DEFINE n == Len(text)
           gaps == {n - j : j \in LineEnds(text)}
<1>1. LineEnds(text) # {} /\ LineEnds(text) \subseteq 1 .. n /\ n \in Nat
  BY DEF LineEnds, NoEnd
<1>2. gaps \in SUBSET Nat /\ gaps # {}
  BY <1>1
<1>3. PICK g \in gaps : \A h \in gaps : g <= h
  BY <1>2, LeastOf
<1>4. PICK e \in LineEnds(text) : g = n - e
  BY <1>3
<1>5. e \in 1 .. n /\ text[e] = End
  BY <1>1, <1>4 DEF LineEnds
<1>6. \A k \in 1 .. n - e : text[e + k] # End
  <2> SUFFICES ASSUME NEW k \in 1 .. n - e, text[e + k] = End PROVE FALSE
    OBVIOUS
  <2>1. e + k \in 1 .. n
    BY <1>1, <1>5
  <2>2. e + k \in LineEnds(text)
    BY <2>1 DEF LineEnds
  <2>3. n - (e + k) \in gaps
    BY <2>2
  <2>4. n - e <= n - (e + k)
    BY <1>3, <1>4, <2>3
  <2> QED
    BY <1>1, <1>5, <2>4
<1> DEFINE a == SubSeq(text, 1, e - 1)
           b == SubSeq(text, e + 1, Len(text))
<1>7. /\ a \in Seq(S)
      /\ b \in Seq(S) /\ Len(b) = Len(text) - e /\ \A k \in 1 .. Len(text) - e : b[k] = text[e + k]
      /\ text = a \o (<<text[e]>> \o b)
  BY <1>5, PartsAt, ZenonT(60)
<1> HIDE DEF a, b
<1>8. DOMAIN b = 1 .. n - e
  BY <1>7
<1>9. NoEnd(b)
  BY <1>6, <1>7, <1>8 DEF NoEnd
<1>10. text = Cat(a, Cat(LineEnd, b))
  BY <1>5, <1>7 DEF Cat, LineEnd
<1> QED
  BY <1>7, <1>9, <1>10

\* The lines of a text that an end parts, or none does.
LEMMA PartedLines ==
    ASSUME NEW S, End \in S, NEW u \in Seq(S), NEW v \in Seq(S)
    PROVE  /\ LineEnd \in Seq(S) /\ LinesOf(u) \in Seq(Seq(S))
           /\ LinesOf(Cat(u, Cat(LineEnd, v))) = Cat(LinesOf(u), LinesOf(v))
           /\ NoEnd(u) /\ u # <<>> => LinesOf(u) = <<u>>
           /\ NoEnd(u) /\ u # <<>> => Len(LinesOf(u)) = 1
           /\ LinesOf(<<>>) = <<>>
<1>1. LineEnd \in Seq(S)
  BY DEF LineEnd
<1>2. u \o <<End>> \o v = Cat(u, Cat(LineEnd, v))
  <2>1. Cat(Cat(u, LineEnd), v) = Cat(u, Cat(LineEnd, v))
    BY <1>1, CatTwice
  <2> QED
    BY <2>1 DEF Cat, LineEnd
<1>3. LinesOf(u \o <<End>> \o v) = Cat(LinesOf(u), LinesOf(v))
  BY LinesParted DEF Cat
<1>4. NoEnd(u) /\ u # <<>> => LinesOf(u) = <<u>>
  BY OneLine
<1>5. LinesOf(<<>>) = <<>>
  <2>1. <<>> \in Seq(S) /\ NoEnd(<<>>)
    BY DEF NoEnd
  <2> QED
    BY <2>1, OneLine
<1>6. Len(<<u>>) = 1
  OBVIOUS
<1> QED
  BY <1>1, <1>2, <1>3, <1>4, <1>5, <1>6, LinesFlat

\* However a piece of a line is spelt, there are as many lines.
LEMMA CountAfter ==
    ASSUME NEW S, End \in S, NEW m \in Seq(S), m # <<>>, NoEnd(m), NEW q \in Seq(S)
    PROVE  Len(LinesOf(Cat(m, q))) = IF NoEnd(q) THEN 1
                ELSE 1 + Len(LinesOf(SubSeq(q, FirstEnd(q) + 1, Len(q))))
<1>1. CASE NoEnd(q)
  <2>1. Cat(m, q) \in Seq(S) /\ NoEnd(Cat(m, q)) /\ Cat(m, q) # <<>>
    BY <1>1, FreeJoined, CatSize
  <2> QED
    BY <1>1, <2>1, PartedLines
<1>2. CASE ~NoEnd(q)
  <2> DEFINE a == SubSeq(q, 1, FirstEnd(q) - 1)
             b == SubSeq(q, FirstEnd(q) + 1, Len(q))
  <2>1. a \in Seq(S) /\ b \in Seq(S) /\ NoEnd(a) /\ q = Cat(a, Cat(LineEnd, b))
    BY <1>2, FirstEndParts
  <2> HIDE DEF a, b
  <2>2. Cat(m, a) \in Seq(S) /\ NoEnd(Cat(m, a)) /\ Cat(m, a) # <<>>
    BY <2>1, FreeJoined, CatSize
  <2>3. LineEnd \in Seq(S) /\ Cat(LineEnd, b) \in Seq(S)
    BY <2>1, PartedLines, CatSize
  <2>4. Cat(m, q) = Cat(Cat(m, a), Cat(LineEnd, b))
    BY <2>1, <2>3, CatTwice
  <2> DEFINE x == Cat(m, a)
  <2>5. x \in Seq(S) /\ NoEnd(x) /\ x # <<>> /\ Cat(m, q) = Cat(x, Cat(LineEnd, b))
    BY <2>2, <2>4
  <2> HIDE DEF x
  <2>6. /\ LinesOf(Cat(m, q)) = Cat(LinesOf(x), LinesOf(b)) /\ Len(LinesOf(x)) = 1
        /\ LinesOf(b) \in Seq(Seq(S)) /\ LinesOf(x) \in Seq(Seq(S))
    BY <2>1, <2>5, PartedLines
  <2>7. Len(Cat(LinesOf(x), LinesOf(b))) = Len(LinesOf(x)) + Len(LinesOf(b))
    BY <2>6, CatSize
  <2> QED
    BY <1>2, <2>6, <2>7 DEF b
<1> QED
  BY <1>1, <1>2

\* A text within a line may be replaced by another: there are as many lines.
LEMMA CountSame ==
    ASSUME NEW S, End \in S, NEW m \in Seq(S), m # <<>>, NoEnd(m), NEW n \in Seq(S), n # <<>>, NoEnd(n),
           NEW p \in Seq(S), NEW q \in Seq(S)
    PROVE  Len(LinesOf(Cat(p, Cat(m, q)))) = Len(LinesOf(Cat(p, Cat(n, q))))
<1>1. ASSUME NEW x \in Seq(S), NEW y \in Seq(S), x # <<>>, NoEnd(x), y # <<>>, NoEnd(y)
      PROVE  Len(LinesOf(Cat(x, q))) = Len(LinesOf(Cat(y, q)))
  <2> DEFINE rest == IF NoEnd(q) THEN 1 ELSE 1 + Len(LinesOf(SubSeq(q, FirstEnd(q) + 1, Len(q))))
  <2>1. Len(LinesOf(Cat(x, q))) = rest
    BY <1>1, CountAfter
  <2>2. Len(LinesOf(Cat(y, q))) = rest
    BY <1>1, CountAfter
  <2> QED
    BY <2>1, <2>2
<1>2. CASE NoEnd(p)
  <2>1. /\ Cat(p, m) \in Seq(S) /\ NoEnd(Cat(p, m)) /\ Cat(p, m) # <<>>
        /\ Cat(p, n) \in Seq(S) /\ NoEnd(Cat(p, n)) /\ Cat(p, n) # <<>>
    BY <1>2, FreeJoined, CatSize
  <2>2. Cat(p, Cat(m, q)) = Cat(Cat(p, m), q) /\ Cat(p, Cat(n, q)) = Cat(Cat(p, n), q)
    BY CatTwice
  <2> QED
    BY <1>1, <2>1, <2>2
<1>3. CASE ~NoEnd(p)
  <2>1. PICK a, b \in Seq(S) : NoEnd(b) /\ p = Cat(a, Cat(LineEnd, b))
    BY <1>3, LastEndParts
  <2>2. ASSUME NEW x \in Seq(S)
        PROVE  /\ Cat(b, x) \in Seq(S)
               /\ LinesOf(Cat(p, Cat(x, q))) = Cat(LinesOf(a), LinesOf(Cat(Cat(b, x), q)))
               /\ LinesOf(Cat(Cat(b, x), q)) \in Seq(Seq(S)) /\ LinesOf(a) \in Seq(Seq(S))
    <3>1. x \in Seq(S) /\ a \in Seq(S) /\ b \in Seq(S) /\ LineEnd \in Seq(S)
      BY <2>1, <2>2, PartedLines
    <3> DEFINE y == Cat(x, q)
               z == Cat(b, y)
    <3>2. y \in Seq(S) /\ Cat(b, x) \in Seq(S) /\ Cat(LineEnd, b) \in Seq(S)
      BY <3>1, CatSize
    <3>3. z = Cat(Cat(b, x), q)
      BY <3>1, CatTwice
    <3> HIDE DEF y
    <3>4. z \in Seq(S)
      BY <3>1, <3>2, CatSize
    <3>5. Cat(p, y) = Cat(a, Cat(Cat(LineEnd, b), y))
      BY <2>1, <3>1, <3>2, CatTwice
    <3>6. Cat(Cat(LineEnd, b), y) = Cat(LineEnd, z)
      BY <3>1, <3>2, CatTwice
    <3> HIDE DEF z
    <3>7. LinesOf(Cat(a, Cat(LineEnd, z))) = Cat(LinesOf(a), LinesOf(z))
          /\ LinesOf(z) \in Seq(Seq(S)) /\ LinesOf(a) \in Seq(Seq(S))
      BY <3>1, <3>4, PartedLines
    <3> QED
      BY <3>2, <3>3, <3>5, <3>6, <3>7 DEF y
  <2>3. /\ Cat(b, m) \in Seq(S) /\ NoEnd(Cat(b, m)) /\ Cat(b, m) # <<>>
        /\ Cat(b, n) \in Seq(S) /\ NoEnd(Cat(b, n)) /\ Cat(b, n) # <<>>
    BY <2>1, FreeJoined, CatSize
  <2>4. Len(LinesOf(Cat(Cat(b, m), q))) = Len(LinesOf(Cat(Cat(b, n), q)))
    BY <1>1, <2>3
  <2> DEFINE l == LinesOf(a)
             x == LinesOf(Cat(Cat(b, m), q))
             y == LinesOf(Cat(Cat(b, n), q))
  <2>5. l \in Seq(Seq(S)) /\ x \in Seq(Seq(S)) /\ y \in Seq(Seq(S)) /\ Len(x) = Len(y)
        /\ LinesOf(Cat(p, Cat(m, q))) = Cat(l, x) /\ LinesOf(Cat(p, Cat(n, q))) = Cat(l, y)
    BY <2>2, <2>4
  <2> HIDE DEF l, x, y
  <2> DEFINE T == Seq(S)
  <2> HIDE DEF T
  <2>6. l \in Seq(T) /\ x \in Seq(T) /\ y \in Seq(T)
    BY <2>5 DEF T
  <2>7. Len(Cat(l, x)) = Len(l) + Len(x) /\ Len(Cat(l, y)) = Len(l) + Len(y)
    BY <2>6, CatSize
  <2> QED
    BY <2>5, <2>7
<1> QED
  BY <1>2, <1>3

\* What is not the same unit.
LEMMA UnitsApart ==
    /\ End # Head1 /\ End # Tail1 /\ End # Accented /\ End # Broken
    /\ Head1 # Tail1
  BY DEF End, Head1, Tail1, Accented, Broken

\* Sequences of at most one element each make one of at most as many.
LEMMA FlattenShort ==
    ASSUME NEW S
    PROVE  \A ss \in Seq(Seq(S)) : (\A i \in 1 .. Len(ss) : Len(ss[i]) <= 1) => Len(FlattenSeq(ss)) <= Len(ss)
<1> DEFINE Short(ss) == \A i \in 1 .. Len(ss) : Len(ss[i]) <= 1
           P == {n \in Nat : \A ss \in Seq(Seq(S)) : Len(ss) = n /\ Short(ss) => Len(FlattenSeq(ss)) <= n}
<1>1. 0 \in P
  <2> SUFFICES ASSUME NEW ss \in Seq(Seq(S)), Len(ss) = 0 PROVE Len(FlattenSeq(ss)) <= 0
    OBVIOUS
  <2>1. ss = <<>>
    OBVIOUS
  <2>2. <<>> \in Seq(S) /\ <<>> \in Seq(Seq(S)) /\ Len(<<>>) = 0
    OBVIOUS
  <2>3. FlattenSeq(<<>>) = <<>>
    BY <2>2, FlattenAppend
  <2> QED
    BY <2>1, <2>2, <2>3
<1>2. ASSUME NEW n \in P PROVE n + 1 \in P
  <2> SUFFICES ASSUME NEW ss \in Seq(Seq(S)), Len(ss) = n + 1, Short(ss) PROVE Len(FlattenSeq(ss)) <= n + 1
    OBVIOUS
  <2> DEFINE front == SubSeq(ss, 1, n)
             last == ss[n + 1]
  <2>1. /\ front \in Seq(Seq(S)) /\ Len(front) = n /\ last \in Seq(S) /\ ss = Append(front, last)
        /\ n \in Nat
    BY LastApart
  <2>2. \A i \in 1 .. n : front[i] = ss[i]
    OBVIOUS
  <2>3. Short(front) /\ Len(last) <= 1
    BY <2>1, <2>2
  <2> HIDE DEF Short
  <2>4. Len(FlattenSeq(front)) <= n
    BY <2>1, <2>3
  <2> HIDE DEF front, last
  <2>5. FlattenSeq(ss) = FlattenSeq(front) \o last /\ FlattenSeq(front) \in Seq(S)
    BY <2>1, FlattenAppend
  <2> DEFINE before == FlattenSeq(front)
  <2>6. before \in Seq(S) /\ Len(before) <= n /\ FlattenSeq(ss) = before \o last
    BY <2>4, <2>5
  <2> HIDE DEF before
  <2>7. Len(before \o last) = Len(before) + Len(last) /\ Len(before) \in Nat /\ Len(last) \in Nat
    BY <2>1, <2>6
  <2> QED
    BY <2>1, <2>3, <2>6, <2>7
<1> HIDE DEF P
<1>3. \A n \in Nat : n \in P
  BY <1>1, <1>2, AllNaturals DEF P
<1> SUFFICES ASSUME NEW ss \in Seq(Seq(S)), Short(ss) PROVE Len(FlattenSeq(ss)) <= Len(ss)
  OBVIOUS
<1>4. Len(ss) \in P
  BY <1>3
<1> QED
  BY <1>4 DEF P

\* How the units of a read are spelt.
Spelling(x) == [i \in 1 .. Len(x) |-> DecodedAt(x, i)]

\* A read is spelt unit by unit, by no more units than it has.
LEMMA SpellingFlat ==
    ASSUME NEW S, Accented \in S, Broken \in S, NEW x \in Seq(S)
    PROVE  /\ Decoded(x) = FlattenSeq(Spelling(x))
           /\ Spelling(x) \in Seq(Seq(S)) /\ Len(Spelling(x)) = Len(x)
           /\ Decoded(x) \in Seq(S)
           /\ Len(Decoded(x)) <= Len(x)
<1>1. DOMAIN x = 1 .. Len(x) /\ Len(x) \in Nat
  OBVIOUS
<1>2. Decoded(x) = FlattenSeq(Spelling(x))
  <2>1. [i \in DOMAIN [k \in DOMAIN x |-> k] |-> DecodedAt(x, [k \in DOMAIN x |-> k][i])] = Spelling(x)
    BY <1>1 DEF Spelling
  <2> QED
    BY <2>1 DEF Decoded, Gather
<1>3. \A i \in 1 .. Len(x) : DecodedAt(x, i) \in Seq(S) /\ Len(DecodedAt(x, i)) <= 1
  <2> SUFFICES ASSUME NEW i \in 1 .. Len(x) PROVE DecodedAt(x, i) \in Seq(S) /\ Len(DecodedAt(x, i)) <= 1
    OBVIOUS
  <2>1. x[i] \in S
    OBVIOUS
  <2> QED
    BY <2>1 DEF DecodedAt
<1>4. Spelling(x) \in Seq(Seq(S)) /\ Len(Spelling(x)) = Len(x)
  BY <1>1, <1>3 DEF Spelling
<1>5. \A i \in 1 .. Len(Spelling(x)) : Len(Spelling(x)[i]) <= 1
  BY <1>3, <1>4 DEF Spelling
<1> DEFINE ss == Spelling(x)
<1>6. ss \in Seq(Seq(S)) /\ Len(ss) = Len(x) /\ \A i \in 1 .. Len(ss) : Len(ss[i]) <= 1
  BY <1>4, <1>5
<1> HIDE DEF ss
<1>7. FlattenSeq(ss) \in Seq(S) /\ Len(FlattenSeq(ss)) <= Len(ss)
  <2>1. <<>> \in Seq(S)
    OBVIOUS
  <2> QED
    BY <1>6, <2>1, FlattenAppend, FlattenShort
<1> QED
  BY <1>2, <1>4, <1>6, <1>7 DEF ss

\* One sequence after another, place by place.
LEMMA JoinedAt ==
    ASSUME NEW T, NEW a \in Seq(T), NEW b \in Seq(T), NEW c \in Seq(T), Len(c) = Len(a) + Len(b),
           \A i \in 1 .. Len(a) : c[i] = a[i], \A i \in 1 .. Len(b) : c[Len(a) + i] = b[i]
    PROVE  c = a \o b
<1>1. /\ Len(a) \in Nat /\ Len(b) \in Nat /\ a \o b \in Seq(T) /\ Len(a \o b) = Len(a) + Len(b)
      /\ \A i \in 1 .. Len(a) : (a \o b)[i] = a[i]
      /\ \A i \in 1 .. Len(b) : (a \o b)[Len(a) + i] = b[i]
  OBVIOUS
<1> DEFINE d == a \o b
<1>2. /\ d \in Seq(T) /\ Len(d) = Len(c)
      /\ \A i \in 1 .. Len(a) : d[i] = c[i]
      /\ \A i \in 1 .. Len(b) : d[Len(a) + i] = c[Len(a) + i]
  BY <1>1
<1> HIDE DEF d
<1>3. \A i \in 1 .. Len(c) : c[i] = d[i]
  <2> SUFFICES ASSUME NEW i \in 1 .. Len(c) PROVE c[i] = d[i]
    OBVIOUS
  <2>1. CASE i <= Len(a)
    BY <1>1, <1>2, <2>1
  <2>2. CASE ~(i <= Len(a))
    <3> DEFINE j == i - Len(a)
    <3>1. j \in 1 .. Len(b) /\ i = Len(a) + j
      BY <1>1, <2>2
    <3> HIDE DEF j
    <3> QED
      BY <1>2, <3>1
  <2> QED
    BY <2>1, <2>2
<1>4. c = d
  BY <1>2, <1>3
<1> QED
  BY <1>4 DEF d

\* Two pieces that part no character.
Apart(x, y) == x # <<>> /\ y # <<>> => x[Len(x)] # Head1 /\ y[1] # Tail1

\* They can be read one after the other.
LEMMA DecodedApart ==
    ASSUME NEW S, Accented \in S, Broken \in S, NEW x \in Seq(S), NEW y \in Seq(S), Apart(x, y)
    PROVE  Decoded(Cat(x, y)) = Cat(Decoded(x), Decoded(y))
<1> DEFINE z == Cat(x, y)
           m == Len(x)
           n == Len(y)
<1>1. z \in Seq(S) /\ Len(z) = m + n /\ m \in Nat /\ n \in Nat
  BY CatSize
<1>2. \A i \in 1 .. m : z[i] = x[i]
  BY CatBefore
<1>3. \A i \in 1 .. n : z[m + i] = y[i]
  BY CatAfter
<1>4. /\ m # 0 /\ n # 0 => x[m] # Head1 /\ y[1] # Tail1
  BY DEF Apart
<1> HIDE DEF z
<1>5. \A i \in 1 .. m : DecodedAt(z, i) = DecodedAt(x, i)
  BY <1>1, <1>2, <1>4 DEF DecodedAt
<1>6. \A i \in 1 .. n : DecodedAt(z, m + i) = DecodedAt(y, i)
  BY <1>1, <1>3, <1>4 DEF DecodedAt
<1>7. /\ Spelling(x) \in Seq(Seq(S)) /\ Len(Spelling(x)) = m
      /\ Spelling(y) \in Seq(Seq(S)) /\ Len(Spelling(y)) = n
      /\ Spelling(z) \in Seq(Seq(S)) /\ Len(Spelling(z)) = m + n
      /\ Decoded(x) = FlattenSeq(Spelling(x)) /\ Decoded(y) = FlattenSeq(Spelling(y))
      /\ Decoded(z) = FlattenSeq(Spelling(z))
  BY <1>1, SpellingFlat
<1>8. \A i \in 1 .. m : Spelling(z)[i] = Spelling(x)[i]
  BY <1>1, <1>5 DEF Spelling
<1>9. \A i \in 1 .. n : Spelling(z)[m + i] = Spelling(y)[i]
  BY <1>1, <1>6 DEF Spelling
<1> DEFINE a == Spelling(x)
           b == Spelling(y)
           c == Spelling(z)
<1>10. /\ a \in Seq(Seq(S)) /\ b \in Seq(Seq(S)) /\ c \in Seq(Seq(S)) /\ Len(c) = Len(a) + Len(b)
       /\ \A i \in 1 .. Len(a) : c[i] = a[i]
       /\ \A i \in 1 .. Len(b) : c[Len(a) + i] = b[i]
  BY <1>7, <1>8, <1>9
<1> HIDE DEF a, b, c
<1>11. c = a \o b
  <2> DEFINE T == Seq(S)
  <2>1. a \in Seq(T) /\ b \in Seq(T) /\ c \in Seq(T)
    BY <1>10
  <2> HIDE DEF T
  <2> QED
    BY <1>10, <2>1, JoinedAt
<1>12. FlattenSeq(c) = FlattenSeq(a) \o FlattenSeq(b)
  BY <1>10, <1>11, FlattenConcat
<1> QED
  BY <1>7, <1>12 DEF a, b, c, Cat, z

\* Every unit a text may have.
Alphabet == {Brace, "a", Head1, Tail1, "unknown", End, Accented, Broken}

\* The units among them that the client tells apart.
LEMMA InAlphabet ==
    /\ End \in Alphabet /\ Head1 \in Alphabet /\ Tail1 \in Alphabet
    /\ Accented \in Alphabet /\ Broken \in Alphabet
  BY DEF Alphabet

\* The units that are spelt by themselves, or in pairs.
HeadUnit == <<Head1>>
TailUnit == <<Tail1>>
PairUnits == <<Head1, Tail1>>
OneAccent == <<Accented>>
OneBroken == <<Broken>>
TwoBroken == <<Broken, Broken>>

\* They are texts.
LEMMA UnitsTyped ==
    /\ <<>> \in Seq(Alphabet) /\ LineEnd \in Seq(Alphabet)
    /\ HeadUnit \in Seq(Alphabet) /\ TailUnit \in Seq(Alphabet) /\ PairUnits \in Seq(Alphabet)
    /\ OneAccent \in Seq(Alphabet) /\ OneBroken \in Seq(Alphabet) /\ TwoBroken \in Seq(Alphabet)
    /\ NoEnd(OneAccent) /\ NoEnd(OneBroken) /\ NoEnd(TwoBroken)
    /\ OneAccent # <<>> /\ OneBroken # <<>> /\ TwoBroken # <<>>
    /\ PairUnits = Cat(HeadUnit, TailUnit) /\ TwoBroken = Cat(OneBroken, OneBroken)
<1>1. /\ <<>> \in Seq(Alphabet) /\ LineEnd \in Seq(Alphabet)
      /\ HeadUnit \in Seq(Alphabet) /\ TailUnit \in Seq(Alphabet) /\ PairUnits \in Seq(Alphabet)
      /\ OneAccent \in Seq(Alphabet) /\ OneBroken \in Seq(Alphabet) /\ TwoBroken \in Seq(Alphabet)
  BY InAlphabet DEF LineEnd, HeadUnit, TailUnit, PairUnits, OneAccent, OneBroken, TwoBroken
<1>2. NoEnd(OneAccent) /\ NoEnd(OneBroken) /\ NoEnd(TwoBroken)
  BY UnitsApart DEF NoEnd, OneAccent, OneBroken, TwoBroken
<1>3. OneAccent # <<>> /\ OneBroken # <<>> /\ TwoBroken # <<>>
  BY DEF OneAccent, OneBroken, TwoBroken
<1>4. PairUnits = Cat(HeadUnit, TailUnit) /\ TwoBroken = Cat(OneBroken, OneBroken)
  <2>1. ASSUME NEW a, NEW b PROVE <<a, b>> = <<a>> \o <<b>>
    <3> DEFINE T == {a, b}
    <3>1. <<a>> \in Seq(T) /\ <<b>> \in Seq(T) /\ <<a, b>> \in Seq(T)
      OBVIOUS
    <3>2. /\ Len(<<a, b>>) = Len(<<a>>) + Len(<<b>>)
          /\ \A i \in 1 .. Len(<<a>>) : <<a, b>>[i] = <<a>>[i]
          /\ \A i \in 1 .. Len(<<b>>) : <<a, b>>[Len(<<a>>) + i] = <<b>>[i]
      <4>1. Len(<<a>>) = 1 /\ Len(<<b>>) = 1 /\ Len(<<a, b>>) = 2 /\ <<a, b>>[1] = a /\ <<a, b>>[2] = b
        OBVIOUS
      <4>2. <<a>>[1] = a /\ <<b>>[1] = b
        OBVIOUS
      <4> DEFINE p == <<a>>
                 q == <<b>>
                 r == <<a, b>>
      <4>3. Len(p) = 1 /\ Len(q) = 1 /\ Len(r) = 2 /\ r[1] = p[1] /\ r[2] = q[1]
        BY <4>1, <4>2
      <4> HIDE DEF p, q, r
      <4>4. Len(r) = Len(p) + Len(q) /\ \A i \in 1 .. Len(p) : r[i] = p[i]
        BY <4>3
      <4>5. \A i \in 1 .. Len(q) : r[Len(p) + i] = q[i]
        BY <4>3
      <4> QED
        BY <4>4, <4>5 DEF p, q, r
    <3> QED
      BY <3>1, <3>2, JoinedAt, Zenon
  <2>2. <<Head1, Tail1>> = <<Head1>> \o <<Tail1>> /\ <<Broken, Broken>> = <<Broken>> \o <<Broken>>
    BY <2>1
  <2> QED
    BY <2>2, Zenon DEF Cat, HeadUnit, TailUnit, PairUnits, OneBroken, TwoBroken
<1> QED
  BY <1>1, <1>2, <1>3, <1>4

\* How they are spelt.
LEMMA UnitsSpelt ==
    /\ Decoded(<<>>) = <<>> /\ Decoded(LineEnd) = LineEnd
    /\ Decoded(HeadUnit) = OneBroken /\ Decoded(TailUnit) = OneBroken /\ Decoded(PairUnits) = OneAccent
<1>1. Accented \in Alphabet /\ Broken \in Alphabet
  BY InAlphabet
<1>2. Decoded(<<>>) = <<>>
  <2>1. Decoded(<<>>) = FlattenSeq(Spelling(<<>>))
    BY <1>1, UnitsTyped, SpellingFlat
  <2>2. Spelling(<<>>) = <<>>
    BY DEF Spelling
  <2>3. <<>> \in Seq(Alphabet) /\ <<>> \in Seq(Seq(Alphabet))
    OBVIOUS
  <2>4. FlattenSeq(<<>>) = <<>>
    BY <2>3, FlattenAppend
  <2> QED
    BY <2>1, <2>2, <2>4
<1>3. ASSUME NEW x \in Seq(Alphabet), NEW y \in Seq(Alphabet), Len(x) = 1, DecodedAt(x, 1) = y
      PROVE  Decoded(x) = y
  <2>1. Decoded(x) = FlattenSeq(Spelling(x))
    BY <1>1, <1>3, SpellingFlat
  <2>2. Spelling(x) = <<y>>
    BY <1>3 DEF Spelling
  <2>3. FlattenSeq(<<y>>) = y
    BY <1>3, FlattenOne
  <2> QED
    BY <2>1, <2>2, <2>3
<1>4. Len(LineEnd) = 1 /\ DecodedAt(LineEnd, 1) = LineEnd
  BY UnitsApart DEF LineEnd, DecodedAt
<1>5. Len(HeadUnit) = 1 /\ DecodedAt(HeadUnit, 1) = OneBroken
  BY UnitsApart DEF HeadUnit, OneBroken, DecodedAt
<1>6. Len(TailUnit) = 1 /\ DecodedAt(TailUnit, 1) = OneBroken
  BY UnitsApart DEF TailUnit, OneBroken, DecodedAt
<1>7. Decoded(PairUnits) = OneAccent
  <2>1. Decoded(PairUnits) = FlattenSeq(Spelling(PairUnits))
    BY <1>1, UnitsTyped, SpellingFlat
  <2>2. Spelling(PairUnits) = Append(<<OneAccent>>, <<>>)
    BY UnitsApart DEF Spelling, PairUnits, OneAccent, DecodedAt
  <2>3. <<OneAccent>> \in Seq(Seq(Alphabet)) /\ <<>> \in Seq(Alphabet) /\ OneAccent \in Seq(Alphabet)
    BY UnitsTyped
  <2>4. FlattenSeq(Append(<<OneAccent>>, <<>>)) = FlattenSeq(<<OneAccent>>) \o <<>>
    BY <2>3, FlattenAppend
  <2>5. FlattenSeq(<<OneAccent>>) = OneAccent
    BY <2>3, FlattenOne
  <2>6. OneAccent \o <<>> = OneAccent
    BY <2>3
  <2> QED
    BY <2>1, <2>2, <2>4, <2>5, <2>6
<1> QED
  BY <1>2, <1>3, <1>4, <1>5, <1>6, <1>7, UnitsTyped

\* A read is spelt in the same alphabet.
LEMMA SpellTyped ==
    ASSUME NEW x \in Seq(Alphabet)
    PROVE  Decoded(x) \in Seq(Alphabet) /\ Len(Decoded(x)) <= Len(x)
  BY InAlphabet, SpellingFlat

\* Two reads that part no character are spelt as their texts joined.
LEMMA SpellApart ==
    ASSUME NEW x \in Seq(Alphabet), NEW y \in Seq(Alphabet), Apart(x, y)
    PROVE  Decoded(Cat(x, y)) = Cat(Decoded(x), Decoded(y))
  BY InAlphabet, DecodedApart

\* Whether a text begins within a character, and ends within one.
HalfFirst(x) == x # <<>> /\ x[1] = Tail1
HalfLast(x) == x # <<>> /\ x[Len(x)] = Head1

\* A read that ends within a character.
LEMMA SpellTorn ==
    ASSUME NEW x \in Seq(Alphabet), NEW y \in Seq(Alphabet), ~HalfLast(x), ~HalfFirst(y)
    PROVE  /\ Decoded(Cat(x, HeadUnit)) = Cat(Decoded(x), OneBroken)
           /\ Decoded(Cat(TailUnit, y)) = Cat(OneBroken, Decoded(y))
           /\ Decoded(Cat(PairUnits, y)) = Cat(OneAccent, Decoded(y))
           /\ Decoded(Cat(x, Cat(PairUnits, y))) = Cat(Decoded(x), Decoded(Cat(PairUnits, y)))
<1>1. Apart(x, HeadUnit)
  BY UnitsApart DEF Apart, HalfLast, HeadUnit
<1>2. Apart(TailUnit, y)
  BY UnitsApart DEF Apart, HalfFirst, TailUnit
<1>3. Apart(PairUnits, y)
  BY UnitsApart DEF Apart, HalfFirst, PairUnits
<1>4. Cat(PairUnits, y) \in Seq(Alphabet) /\ Cat(PairUnits, y)[1] = Head1
  <2>1. PairUnits \in Seq(Alphabet) /\ 1 \in 1 .. Len(PairUnits) /\ PairUnits[1] = Head1
    BY UnitsTyped DEF PairUnits
  <2> HIDE DEF PairUnits
  <2>2. Cat(PairUnits, y)[1] = PairUnits[1]
    BY <2>1, CatBefore
  <2> QED
    BY <2>1, <2>2, CatSize
<1>5. Apart(x, Cat(PairUnits, y))
  BY <1>4, UnitsApart DEF Apart, HalfLast
<1> QED
  BY <1>1, <1>2, <1>3, <1>4, <1>5, SpellApart, UnitsSpelt, UnitsTyped

\* The units of a character follow one another.
InPairs(x) == \A i \in 1 .. Len(x) - 1 : x[i] = Head1 <=> x[i + 1] = Tail1

\* A text that begins in the middle of a character, or ends in one.
LEMMA FirstApart ==
    ASSUME NEW y \in Seq(Alphabet), HalfFirst(y), InPairs(y)
    PROVE  \E z \in Seq(Alphabet) : y = Cat(TailUnit, z) /\ ~HalfFirst(z)
<1>1. Len(y) \in Nat \ {0} /\ y[1] = Tail1 /\ 1 \in 1 .. Len(y)
  BY DEF HalfFirst
<1> DEFINE a == SubSeq(y, 1, 0)
           b == SubSeq(y, 2, Len(y))
<1>2. /\ a \in Seq(Alphabet) /\ Len(a) = 0
      /\ b \in Seq(Alphabet) /\ Len(b) = Len(y) - 1 /\ \A k \in 1 .. Len(y) - 1 : b[k] = y[1 + k]
      /\ y = a \o (<<y[1]>> \o b)
  <2>1. /\ SubSeq(y, 1, 1 - 1) \in Seq(Alphabet) /\ Len(SubSeq(y, 1, 1 - 1)) = 1 - 1
        /\ SubSeq(y, 1 + 1, Len(y)) \in Seq(Alphabet) /\ Len(SubSeq(y, 1 + 1, Len(y))) = Len(y) - 1
        /\ \A k \in 1 .. Len(y) - 1 : SubSeq(y, 1 + 1, Len(y))[k] = y[1 + k]
        /\ y = SubSeq(y, 1, 1 - 1) \o (<<y[1]>> \o SubSeq(y, 1 + 1, Len(y)))
    BY <1>1, PartsAt
  <2>2. 1 - 1 = 0 /\ 1 + 1 = 2
    OBVIOUS
  <2> QED
    BY <2>1, <2>2
<1> HIDE DEF a, b
<1>3. a = <<>>
  BY <1>2
<1>4. y = Cat(TailUnit, b)
  <2>1. TailUnit \o b \in Seq(Alphabet)
    BY <1>2, UnitsTyped
  <2>2. y = <<>> \o (TailUnit \o b)
    BY <1>1, <1>2, <1>3 DEF TailUnit
  <2>3. <<>> \o (TailUnit \o b) = TailUnit \o b
    BY <2>1, ConcatEmptySeq
  <2> QED
    BY <2>2, <2>3 DEF Cat
<1>5. ~HalfFirst(b)
  <2> SUFFICES ASSUME b # <<>>, b[1] = Tail1 PROVE FALSE
    BY DEF HalfFirst
  <2>1. Len(b) # 0
    BY <1>2
  <2>2. 1 \in 1 .. Len(y) - 1 /\ y[1 + 1] = Tail1
    BY <1>1, <1>2, <2>1
  <2>3. y[1] = Head1
    BY <2>2 DEF InPairs
  <2> QED
    BY <1>1, <2>3, UnitsApart
<1> QED
  BY <1>2, <1>4, <1>5

\* A text that ends within a character is a text before it and the half.
LEMMA LastHalf ==
    ASSUME NEW y \in Seq(Alphabet), HalfLast(y), InPairs(y)
    PROVE  \E z \in Seq(Alphabet) : y = Cat(z, HeadUnit) /\ ~HalfLast(z)
<1> DEFINE n == Len(y)
           a == SubSeq(y, 1, n - 1)
           b == SubSeq(y, n + 1, n)
<1>1. n \in Nat \ {0} /\ y[n] = Head1 /\ n \in 1 .. n
  BY DEF HalfLast
<1>2. /\ a \in Seq(Alphabet) /\ Len(a) = n - 1 /\ \A k \in 1 .. n - 1 : a[k] = y[k]
      /\ b \in Seq(Alphabet) /\ Len(b) = n - n
      /\ y = a \o (<<y[n]>> \o b)
  BY <1>1, PartsAt
<1> HIDE DEF a, b
<1>3. b = <<>>
  BY <1>1, <1>2
<1>4. y = Cat(a, HeadUnit)
  <2>1. HeadUnit \o <<>> = HeadUnit
    BY UnitsTyped, ConcatEmptySeq
  <2> QED
    BY <1>1, <1>2, <1>3, <2>1 DEF Cat, HeadUnit
<1>5. ~HalfLast(a)
  <2> SUFFICES ASSUME a # <<>>, a[n - 1] = Head1 PROVE FALSE
    BY <1>2 DEF HalfLast
  <2>1. Len(a) # 0
    BY <1>2
  <2>2. n - 1 \in 1 .. n - 1 /\ y[n - 1] = Head1 /\ (n - 1) + 1 = n
    BY <1>1, <1>2, <2>1
  <2>3. y[n] = Tail1
    BY <2>2 DEF InPairs
  <2> QED
    BY <1>1, <2>3, UnitsApart
<1> QED
  BY <1>2, <1>4, <1>5

\* The parts of a text whose units come in pairs.
LEMMA PairsParted ==
    ASSUME NEW x \in Seq(Alphabet), NEW y \in Seq(Alphabet), InPairs(Cat(x, y))
    PROVE  /\ InPairs(x) /\ InPairs(y)
           /\ x # <<>> /\ y # <<>> => (HalfLast(x) <=> HalfFirst(y))
<1> DEFINE z == Cat(x, y)
           m == Len(x)
           n == Len(y)
<1>1. z \in Seq(Alphabet) /\ Len(z) = m + n /\ m \in Nat /\ n \in Nat
  BY CatSize
<1>2. \A i \in 1 .. m : z[i] = x[i]
  BY CatBefore
<1>3. \A i \in 1 .. n : z[m + i] = y[i]
  BY CatAfter
<1>4. \A i \in 1 .. m + n - 1 : z[i] = Head1 <=> z[i + 1] = Tail1
  BY <1>1 DEF InPairs
<1> HIDE DEF z
<1>5. InPairs(x)
  <2> SUFFICES ASSUME NEW i \in 1 .. m - 1 PROVE x[i] = Head1 <=> x[i + 1] = Tail1
    BY DEF InPairs
  <2>1. i \in 1 .. m /\ i + 1 \in 1 .. m /\ i \in 1 .. m + n - 1
    BY <1>1
  <2> QED
    BY <1>2, <1>4, <2>1
<1>6. InPairs(y)
  <2> SUFFICES ASSUME NEW i \in 1 .. n - 1 PROVE y[i] = Head1 <=> y[i + 1] = Tail1
    BY DEF InPairs
  <2>1. i \in 1 .. n /\ i + 1 \in 1 .. n /\ m + i \in 1 .. m + n - 1 /\ (m + i) + 1 = m + (i + 1)
    BY <1>1
  <2> QED
    BY <1>3, <1>4, <2>1
<1>7. ASSUME x # <<>>, y # <<>> PROVE HalfLast(x) <=> HalfFirst(y)
  <2>1. m # 0 /\ n # 0
    BY <1>7
  <2>2. m \in 1 .. m /\ 1 \in 1 .. n /\ m \in 1 .. m + n - 1
    BY <1>1, <2>1
  <2>3. x[m] = Head1 <=> y[1] = Tail1
    BY <1>2, <1>3, <1>4, <2>2
  <2> QED
    BY <1>7, <2>3 DEF HalfLast, HalfFirst
<1> QED
  BY <1>5, <1>6, <1>7

\* Two texts part no character when none of them has a half where they meet.
LEMMA NoHalves ==
    ASSUME NEW x, NEW y, x # <<>> /\ y # <<>> => ~HalfLast(x) /\ ~HalfFirst(y)
    PROVE  Apart(x, y)
  BY DEF Apart, HalfLast, HalfFirst

\* However a text is read, it has as many lines.
LEMMA ReadCount ==
    ASSUME NEW b \in Seq(Alphabet), NEW r \in Seq(Alphabet), NEW t \in Seq(Alphabet), InPairs(Cat(r, t))
    PROVE  Len(LinesOf(Cat(b, Decoded(Cat(r, t))))) = Len(LinesOf(Cat(Cat(b, Decoded(r)), Decoded(t))))
<1>1. /\ InPairs(r) /\ InPairs(t)
      /\ r # <<>> /\ t # <<>> => (HalfLast(r) <=> HalfFirst(t))
  BY PairsParted
<1>2. CASE r # <<>> /\ t # <<>> => ~HalfLast(r) /\ ~HalfFirst(t)
  <2>1. Decoded(Cat(r, t)) = Cat(Decoded(r), Decoded(t))
    BY <1>2, NoHalves, SpellApart
  <2>2. Decoded(r) \in Seq(Alphabet) /\ Decoded(t) \in Seq(Alphabet)
    BY SpellTyped
  <2>3. Cat(Cat(b, Decoded(r)), Decoded(t)) = Cat(b, Cat(Decoded(r), Decoded(t)))
    BY <2>2, CatTwice
  <2> QED
    BY <2>1, <2>3
<1>3. CASE r # <<>> /\ t # <<>> /\ HalfLast(r) /\ HalfFirst(t)
  <2>1. PICK x \in Seq(Alphabet) : r = Cat(x, HeadUnit) /\ ~HalfLast(x)
    BY <1>1, <1>3, LastHalf
  <2>2. PICK y \in Seq(Alphabet) : t = Cat(TailUnit, y) /\ ~HalfFirst(y)
    BY <1>1, <1>3, FirstApart
  <2> DEFINE dx == Decoded(x)
             dy == Decoded(y)
             p == Cat(b, dx)
  <2>3. dx \in Seq(Alphabet) /\ dy \in Seq(Alphabet) /\ p \in Seq(Alphabet)
    BY SpellTyped, CatSize
  <2>4. Cat(r, t) = Cat(x, Cat(PairUnits, y))
    <3>1. Cat(r, t) = Cat(x, Cat(HeadUnit, Cat(TailUnit, y)))
      BY <2>1, <2>2, UnitsTyped, CatTwice, CatSize
    <3>2. Cat(Cat(HeadUnit, TailUnit), y) = Cat(HeadUnit, Cat(TailUnit, y))
      BY UnitsTyped, CatTwice
    <3> QED
      BY <3>1, <3>2, UnitsTyped
  <2>5. /\ Decoded(r) = Cat(dx, OneBroken) /\ Decoded(t) = Cat(OneBroken, dy)
        /\ Decoded(Cat(r, t)) = Cat(dx, Cat(OneAccent, dy))
    BY <2>1, <2>2, <2>4, SpellTorn
  <2> HIDE DEF dx, dy
  <2>6. Cat(b, Cat(dx, Cat(OneAccent, dy))) = Cat(p, Cat(OneAccent, dy))
    <3>1. Cat(OneAccent, dy) \in Seq(Alphabet)
      BY <2>3, UnitsTyped, CatSize
    <3> QED
      BY <2>3, <3>1, CatTwice
  <2>7. Cat(Cat(b, Cat(dx, OneBroken)), Cat(OneBroken, dy)) = Cat(p, Cat(TwoBroken, dy))
    <3>1. Cat(b, Cat(dx, OneBroken)) = Cat(p, OneBroken)
      BY <2>3, UnitsTyped, CatTwice
    <3> HIDE DEF p
    <3>2. Cat(OneBroken, dy) \in Seq(Alphabet)
      BY <2>3, UnitsTyped, CatSize
    <3>3. Cat(Cat(p, OneBroken), Cat(OneBroken, dy)) = Cat(p, Cat(OneBroken, Cat(OneBroken, dy)))
      BY <2>3, <3>2, UnitsTyped, CatTwice
    <3>4. Cat(Cat(OneBroken, OneBroken), dy) = Cat(OneBroken, Cat(OneBroken, dy))
      BY <2>3, UnitsTyped, CatTwice
    <3> QED
      BY <3>1, <3>3, <3>4, UnitsTyped
  <2> HIDE DEF p
  <2>8. Len(LinesOf(Cat(p, Cat(OneAccent, dy)))) = Len(LinesOf(Cat(p, Cat(TwoBroken, dy))))
    <3>1. /\ End \in Alphabet /\ OneAccent \in Seq(Alphabet) /\ OneAccent # <<>> /\ NoEnd(OneAccent)
          /\ TwoBroken \in Seq(Alphabet) /\ TwoBroken # <<>> /\ NoEnd(TwoBroken)
      BY UnitsTyped, InAlphabet
    <3> QED
      BY <2>3, <3>1, CountSame
  <2> QED
    BY <2>5, <2>6, <2>7, <2>8
<1> QED
  BY <1>1, <1>2, <1>3

\* What of the buffer is whole, and what is still to be read with its other half.
HeldText(b, rest) == IF HalfFirst(rest) THEN SubSeq(b, 1, Len(b) - 1) ELSE b
AheadText(rest) == IF HalfFirst(rest) THEN Cat(HeadUnit, rest) ELSE rest

\* The buffer ends in the half of a character.
EndsHalf(b) == b # <<>> /\ b[Len(b)] # End

\* A text and one more unit.
LEMMA AllButLast ==
    ASSUME NEW x \in Seq(Alphabet), NEW u \in Alphabet
    PROVE  /\ Cat(x, <<u>>) # <<>> /\ Len(Cat(x, <<u>>)) = Len(x) + 1
           /\ Cat(x, <<u>>)[Len(x) + 1] = u
           /\ SubSeq(Cat(x, <<u>>), 1, Len(x)) = x
<1>1. Cat(x, <<u>>) = Append(x, u)
  BY DEF Cat
<1>2. Append(x, u) # <<>> /\ Len(Append(x, u)) = Len(x) + 1 /\ Append(x, u)[Len(x) + 1] = u
  OBVIOUS
<1>3. SubSeq(Append(x, u), 1, Len(x)) = x
  OBVIOUS
<1> QED
  BY <1>1, <1>2, <1>3

\* A read that begins with a whole character leaves the text as it is, but for the
\* character it ends in.
LEMMA ReadSame ==
    ASSUME NEW b \in Seq(Alphabet), NEW r \in Seq(Alphabet), NEW t \in Seq(Alphabet), InPairs(Cat(r, t)),
           r # <<>>
    PROVE  /\ Cat(b, Decoded(Cat(r, t))) = Cat(HeldText(Cat(b, Decoded(r)), t), Decoded(AheadText(t)))
           /\ HalfFirst(t) => EndsHalf(Cat(b, Decoded(r)))
<1>1. /\ InPairs(r) /\ InPairs(t)
      /\ r # <<>> /\ t # <<>> => (HalfLast(r) <=> HalfFirst(t))
  BY PairsParted
<1>2. CASE ~HalfFirst(t)
  <2>1. Decoded(Cat(r, t)) = Cat(Decoded(r), Decoded(t))
    BY <1>1, <1>2, NoHalves, SpellApart
  <2>2. Decoded(r) \in Seq(Alphabet) /\ Decoded(t) \in Seq(Alphabet)
    BY SpellTyped
  <2>3. Cat(Cat(b, Decoded(r)), Decoded(t)) = Cat(b, Cat(Decoded(r), Decoded(t)))
    BY <2>2, CatTwice
  <2> QED
    BY <1>2, <2>1, <2>3 DEF HeldText, AheadText
<1>3. CASE HalfFirst(t)
  <2>1. t # <<>>
    BY <1>3 DEF HalfFirst
  <2>2. PICK x \in Seq(Alphabet) : r = Cat(x, HeadUnit) /\ ~HalfLast(x)
    BY <1>1, <1>3, <2>1, LastHalf
  <2>3. PICK y \in Seq(Alphabet) : t = Cat(TailUnit, y) /\ ~HalfFirst(y)
    BY <1>1, <1>3, FirstApart
  <2> DEFINE dx == Decoded(x)
             p == Cat(b, dx)
             w == Cat(PairUnits, y)
             dw == Decoded(w)
  <2>4. /\ dx \in Seq(Alphabet) /\ p \in Seq(Alphabet) /\ w \in Seq(Alphabet) /\ dw \in Seq(Alphabet)
    BY SpellTyped, CatSize, UnitsTyped
  <2>5. Cat(HeadUnit, t) = w
    BY <2>3, UnitsTyped, CatTwice
  <2>6. Cat(r, t) = Cat(x, w)
    BY <2>2, <2>5, UnitsTyped, CatTwice
  <2>7. Decoded(r) = Cat(dx, OneBroken) /\ Decoded(Cat(r, t)) = Cat(dx, dw)
    BY <2>2, <2>3, <2>6, SpellTorn
  <2> HIDE DEF dx, dw
  <2>8. Cat(b, Decoded(r)) = Cat(p, OneBroken) /\ Cat(b, Cat(dx, dw)) = Cat(p, dw)
    BY <2>4, <2>7, UnitsTyped, CatTwice, SMTT(30)
  <2> HIDE DEF p
  <2>9. /\ Cat(p, OneBroken) # <<>> /\ Len(Cat(p, OneBroken)) = Len(p) + 1
        /\ Cat(p, OneBroken)[Len(p) + 1] = Broken
        /\ SubSeq(Cat(p, OneBroken), 1, Len(p)) = p
    BY <2>4, InAlphabet, AllButLast DEF OneBroken
  <2>10. Len(p) + 1 - 1 = Len(p)
    BY <2>4
  <2>11. EndsHalf(Cat(b, Decoded(r)))
    BY <2>8, <2>9, UnitsApart DEF EndsHalf
  <2>12. HeldText(Cat(b, Decoded(r)), t) = p /\ Decoded(AheadText(t)) = dw
    BY <1>3, <2>5, <2>8, <2>9, <2>10 DEF HeldText, AheadText, dw
  <2> QED
    BY <2>7, <2>8, <2>11, <2>12
<1> QED
  BY <1>2, <1>3

\* The first line of a text, and what is after it.
FirstLine(text) == SubSeq(text, 1, FirstEnd(text) - 1)
AfterLine(text) == SubSeq(text, FirstEnd(text) + 1, Len(text))

\* The client takes the first line of a text: the lines of the text are it and those of the rest.
LEMMA LineTaken ==
    ASSUME NEW text \in Seq(Alphabet), ~NoEnd(text), NEW d \in Seq(Alphabet)
    PROVE  /\ FirstLine(text) \in Seq(Alphabet) /\ AfterLine(text) \in Seq(Alphabet)
           /\ text = Cat(FirstLine(text), Cat(LineEnd, AfterLine(text)))
           /\ LinesOf(Cat(text, d)) = IF FirstLine(text) = <<>> THEN LinesOf(Cat(AfterLine(text), d))
                                      ELSE Cat(<<FirstLine(text)>>, LinesOf(Cat(AfterLine(text), d)))
<1> DEFINE a == FirstLine(text)
           b == AfterLine(text)
           q == Cat(b, d)
<1>1. /\ a \in Seq(Alphabet) /\ b \in Seq(Alphabet) /\ NoEnd(a)
      /\ text = Cat(a, Cat(LineEnd, b))
  BY FirstEndParts DEF FirstLine, AfterLine
<1> HIDE DEF a, b
<1>2. q \in Seq(Alphabet) /\ LineEnd \in Seq(Alphabet) /\ Cat(LineEnd, b) \in Seq(Alphabet)
  BY <1>1, CatSize, UnitsTyped
<1>3. Cat(text, d) = Cat(a, Cat(Cat(LineEnd, b), d))
  BY <1>1, <1>2, CatTwice
<1>4. Cat(Cat(LineEnd, b), d) = Cat(LineEnd, q)
  BY <1>1, <1>2, CatTwice
<1> HIDE DEF q
<1>5. LinesOf(Cat(text, d)) = Cat(LinesOf(a), LinesOf(q)) /\ LinesOf(q) \in Seq(Seq(Alphabet))
  BY <1>1, <1>2, <1>3, <1>4, PartedLines, InAlphabet
<1>6. LinesOf(a) = IF a = <<>> THEN <<>> ELSE <<a>>
  BY <1>1, OneLine
<1>7. Cat(<<>>, LinesOf(q)) = LinesOf(q)
  BY <1>5, ConcatEmptySeq DEF Cat
<1> QED
  BY <1>1, <1>5, <1>6, <1>7 DEF a, b, q

\* The half that a text ends in stays behind the lines that are taken.
LEMMA HalfTaken ==
    ASSUME NEW text \in Seq(Alphabet), ~NoEnd(text), EndsHalf(text)
    PROVE  /\ EndsHalf(AfterLine(text))
           /\ SubSeq(text, 1, Len(text) - 1) \in Seq(Alphabet)
           /\ ~NoEnd(SubSeq(text, 1, Len(text) - 1))
           /\ FirstLine(SubSeq(text, 1, Len(text) - 1)) = FirstLine(text)
           /\ AfterLine(SubSeq(text, 1, Len(text) - 1)) = SubSeq(AfterLine(text), 1, Len(AfterLine(text)) - 1)
<1> DEFINE n == Len(text)
           e == FirstEnd(text)
           b == AfterLine(text)
           x == SubSeq(text, 1, n - 1)
<1>1. e \in 1 .. n /\ text[e] = End /\ \A k \in 1 .. e - 1 : text[k] # End
  BY FirstEndParts
<1>2. n \in Nat \ {0} /\ text[n] # End
  BY DEF EndsHalf
<1>3. e \in 1 .. n - 1
  BY <1>1, <1>2
<1> HIDE DEF e
<1>4. b = SubSeq(text, e + 1, n)
  BY DEF AfterLine, e
<1>5. b = [k \in 1 .. n - e |-> text[e + k]] /\ Len(b) = n - e /\ b \in Seq(Alphabet)
  BY <1>2, <1>3, <1>4
<1>6. b[n - e] = text[n] /\ b # <<>>
  <2>1. \A k \in 1 .. n - e : b[k] = text[e + k]
    BY <1>5
  <2>2. n - e \in 1 .. n - e /\ e + (n - e) = n
    BY <1>2, <1>3
  <2>3. b[n - e] = text[n]
    BY <2>1, <2>2
  <2>4. b # <<>>
    <3>1. Len(b) # 0 /\ Len(<<>>) = 0
      BY <1>2, <1>3, <1>5
    <3> QED
      BY <3>1, Zenon
  <2> QED
    BY <2>3, <2>4
<1>7. EndsHalf(b)
  BY <1>2, <1>5, <1>6 DEF EndsHalf
<1>8. x \in Seq(Alphabet) /\ Len(x) = n - 1 /\ x = [k \in 1 .. n - 1 |-> text[k]]
  <2>1. n - 1 \in 0 .. n
    BY <1>2
  <2>2. x = [k \in 1 .. n - 1 |-> text[k]]
    BY <1>2
  <2> HIDE DEF x
  <2>3. \A k \in 1 .. n - 1 : text[k] \in Alphabet
    BY <1>2
  <2>4. x \in [1 .. n - 1 -> Alphabet]
    BY <2>2, <2>3
  <2> QED
    BY <1>2, <2>1, <2>2, <2>4
<1> HIDE DEF x, b
<1>9. x[e] = End /\ \A k \in 1 .. e - 1 : x[k] # End
  BY <1>1, <1>3, <1>8
<1>10. ~NoEnd(x)
  BY <1>3, <1>8, <1>9 DEF NoEnd
<1>11. FirstEnd(x) = e
  <2> DEFINE f == FirstEnd(x)
  <2>1. f \in 1 .. n - 1 /\ x[f] = End /\ \A k \in 1 .. f - 1 : x[k] # End
    BY <1>8, <1>10, FirstEndParts
  <2> HIDE DEF f
  <2>2. ~(f < e) /\ ~(e < f)
    BY <1>3, <1>9, <2>1
  <2> QED
    BY <1>3, <2>1, <2>2 DEF f
<1>12. FirstLine(x) = FirstLine(text)
  <2>1. SubSeq(x, 1, e - 1) = [k \in 1 .. e - 1 |-> text[k]]
    BY <1>2, <1>3, <1>8
  <2>2. SubSeq(text, 1, e - 1) = [k \in 1 .. e - 1 |-> text[k]]
    BY <1>2, <1>3
  <2> QED
    BY <1>11, <2>1, <2>2 DEF FirstLine, e
<1>13. AfterLine(x) = SubSeq(b, 1, Len(b) - 1)
  <2>1. SubSeq(x, e + 1, n - 1) = [k \in 1 .. n - 1 - e |-> text[e + k]]
    <3>1. SubSeq(x, e + 1, n - 1) = [k \in 1 .. n - 1 - e |-> x[e + k]]
      BY <1>2, <1>3, <1>8
    <3>2. \A k \in 1 .. n - 1 - e : x[e + k] = text[e + k]
      BY <1>2, <1>3, <1>8
    <3> QED
      BY <3>1, <3>2
  <2>2. SubSeq(b, 1, n - e - 1) = [k \in 1 .. n - 1 - e |-> text[e + k]]
    <3>1. SubSeq(b, 1, n - e - 1) = [k \in 1 .. n - 1 - e |-> b[k]]
      BY <1>2, <1>3, <1>5
    <3>2. \A k \in 1 .. n - 1 - e : b[k] = text[e + k]
      BY <1>2, <1>3, <1>5
    <3> QED
      BY <3>1, <3>2
  <2> QED
    BY <1>5, <1>8, <1>11, <2>1, <2>2 DEF AfterLine
<1> QED
  BY <1>7, <1>8, <1>10, <1>12, <1>13 DEF x, b

\* A text x trails y: what is after an end of y is no shorter than what is after the
\* last end of x.
Trails(x, y) ==
    /\ Len(x) <= Len(y)
    /\ \A e \in LineEnds(y) : \/ Len(x) <= Len(y) - e
                              \/ \E p \in LineEnds(x) : Len(x) - p <= Len(y) - e

\* Every end of a read is an end of its spelling, no further from the last unit.
LEMMA EndsSpelt ==
    ASSUME NEW r \in Seq(Alphabet), InPairs(r), NEW e \in LineEnds(r)
    PROVE  \E p \in LineEnds(Decoded(r)) : Len(Decoded(r)) - p <= Len(r) - e
<1> DEFINE a == SubSeq(r, 1, e - 1)
           b == SubSeq(r, e + 1, Len(r))
<1>1. e \in 1 .. Len(r) /\ r[e] = End
  BY DEF LineEnds
<1>2. /\ a \in Seq(Alphabet) /\ b \in Seq(Alphabet) /\ Len(b) = Len(r) - e
      /\ r = a \o (<<r[e]>> \o b)
  BY <1>1, PartsAt, ZenonT(60)
<1> HIDE DEF a, b
<1>3. r = Cat(a, Cat(LineEnd, b)) /\ LineEnd \in Seq(Alphabet) /\ Cat(LineEnd, b) \in Seq(Alphabet)
  BY <1>1, <1>2, CatSize, UnitsTyped DEF Cat, LineEnd
<1>4. Len(LineEnd) = 1 /\ LineEnd[1] = End /\ LineEnd # <<>>
  BY DEF LineEnd
<1>5. ~HalfLast(LineEnd) /\ ~HalfFirst(LineEnd)
  BY <1>4, UnitsApart DEF HalfLast, HalfFirst
<1> HIDE DEF LineEnd
<1>6. Cat(LineEnd, b) # <<>> /\ Cat(LineEnd, b)[1] = End
  <2>1. Len(Cat(LineEnd, b)) = 1 + Len(b) /\ Len(b) \in Nat
    BY <1>2, <1>3, <1>4, CatSize
  <2>2. Cat(LineEnd, b)[1] = LineEnd[1]
    <3>1. 1 \in 1 .. Len(LineEnd)
      BY <1>4
    <3> QED
      BY <1>2, <1>3, <3>1, CatBefore
  <2>3. Len(<<>>) = 0
    OBVIOUS
  <2> QED
    BY <1>4, <2>1, <2>2, <2>3
<1>7. ~HalfFirst(Cat(LineEnd, b))
  BY <1>6, UnitsApart DEF HalfFirst
<1>8. Apart(a, Cat(LineEnd, b))
  <2>1. a # <<>> => (HalfLast(a) <=> HalfFirst(Cat(LineEnd, b)))
    BY <1>2, <1>3, <1>6, PairsParted
  <2> QED
    BY <1>7, <2>1, NoHalves
<1>9. Apart(LineEnd, b)
  <2>1. InPairs(Cat(LineEnd, b))
    BY <1>2, <1>3, PairsParted
  <2>2. b # <<>> => (HalfLast(LineEnd) <=> HalfFirst(b))
    BY <1>2, <1>3, <1>4, <2>1, PairsParted
  <2> QED
    BY <1>5, <2>2, NoHalves
<1> DEFINE da == Decoded(a)
           db == Decoded(b)
<1>10. da \in Seq(Alphabet) /\ db \in Seq(Alphabet) /\ Len(db) <= Len(b)
  BY <1>2, SpellTyped
<1>11. Decoded(r) = Cat(da, Cat(LineEnd, db))
  BY <1>2, <1>3, <1>8, <1>9, SpellApart, UnitsSpelt
<1> HIDE DEF da, db
<1>12. /\ Cat(LineEnd, db) \in Seq(Alphabet) /\ Len(Cat(LineEnd, db)) = 1 + Len(db)
       /\ Len(db) \in Nat /\ Len(da) \in Nat
  <2>1. Cat(LineEnd, db) \in Seq(Alphabet) /\ Len(Cat(LineEnd, db)) = Len(LineEnd) + Len(db) /\ Len(db) \in Nat
    BY <1>3, <1>10, CatSize
  <2>2. Len(da) \in Nat
    BY <1>10
  <2> QED
    BY <1>4, <2>1, <2>2
<1>13. Len(Decoded(r)) = Len(da) + (1 + Len(db)) /\ Decoded(r) \in Seq(Alphabet)
  <2>1. /\ Cat(da, Cat(LineEnd, db)) \in Seq(Alphabet)
        /\ Len(Cat(da, Cat(LineEnd, db))) = Len(da) + Len(Cat(LineEnd, db))
    <3> DEFINE q == Cat(LineEnd, db)
    <3>1. q \in Seq(Alphabet)
      BY <1>12
    <3> HIDE DEF q
    <3>2. Cat(da, q) \in Seq(Alphabet) /\ Len(Cat(da, q)) = Len(da) + Len(q)
      BY <1>10, <3>1, CatSize
    <3> QED
      BY <3>2 DEF q
  <2> QED
    BY <1>11, <1>12, <2>1
<1>14. Cat(LineEnd, db)[1] = LineEnd[1]
  <2>1. 1 \in 1 .. Len(LineEnd)
    BY <1>4
  <2> QED
    BY <1>3, <1>10, <2>1, CatBefore
<1>15. Cat(da, Cat(LineEnd, db))[Len(da) + 1] = Cat(LineEnd, db)[1]
  <2>1. 1 \in 1 .. Len(Cat(LineEnd, db))
    BY <1>12
  <2> QED
    BY <1>10, <1>12, <2>1, CatAfter
<1> DEFINE p == Len(da) + 1
<1>16. p \in LineEnds(Decoded(r))
  BY <1>4, <1>11, <1>12, <1>13, <1>14, <1>15 DEF LineEnds
<1>17. Len(Decoded(r)) - p <= Len(r) - e
  BY <1>1, <1>2, <1>10, <1>12, <1>13
<1> QED
  BY <1>16, <1>17

\* What is read next is added to both.
LEMMA TrailsRead ==
    ASSUME NEW x \in Seq(Alphabet), NEW y \in Seq(Alphabet), NEW r \in Seq(Alphabet), Trails(x, y), InPairs(r)
    PROVE  Trails(Cat(x, Decoded(r)), Cat(y, r))
<1> DEFINE d == Decoded(r)
           u == Cat(x, d)
           v == Cat(y, r)
<1>1. d \in Seq(Alphabet) /\ Len(d) <= Len(r)
  BY SpellTyped
<1>2. \A e \in LineEnds(r) : \E p \in LineEnds(d) : Len(d) - p <= Len(r) - e
  BY EndsSpelt
<1> HIDE DEF d
<1>3. u \in Seq(Alphabet) /\ Len(u) = Len(x) + Len(d) /\ Len(x) \in Nat /\ Len(d) \in Nat
  BY <1>1, CatSize
<1>4. v \in Seq(Alphabet) /\ Len(v) = Len(y) + Len(r) /\ Len(y) \in Nat /\ Len(r) \in Nat
  BY CatSize
<1>5. \A i \in 1 .. Len(x) : u[i] = x[i]
  BY <1>1, CatBefore
<1>6. \A i \in 1 .. Len(d) : u[Len(x) + i] = d[i]
  BY <1>1, CatAfter
<1>7. \A i \in 1 .. Len(y) : v[i] = y[i]
  BY CatBefore
<1>8. \A i \in 1 .. Len(r) : v[Len(y) + i] = r[i]
  BY CatAfter
<1> HIDE DEF u, v
<1>9. Len(x) <= Len(y)
  BY DEF Trails
<1>10. Len(u) <= Len(v)
  BY <1>1, <1>3, <1>4, <1>9
<1>11. ASSUME NEW e \in LineEnds(v)
       PROVE  Len(u) <= Len(v) - e \/ \E p \in LineEnds(u) : Len(u) - p <= Len(v) - e
  <2>1. e \in 1 .. Len(v) /\ v[e] = End
    BY <1>11 DEF LineEnds
  <2>2. CASE e <= Len(y)
    <3>1. e \in LineEnds(y) /\ e \in Nat
      BY <1>4, <1>7, <2>1, <2>2 DEF LineEnds
    <3>2. Len(x) <= Len(y) - e \/ \E p \in LineEnds(x) : Len(x) - p <= Len(y) - e
      BY <3>1 DEF Trails
    <3>3. CASE Len(x) <= Len(y) - e
      BY <1>1, <1>3, <1>4, <3>1, <3>3
    <3>4. CASE \E p \in LineEnds(x) : Len(x) - p <= Len(y) - e
      <4>1. PICK p \in LineEnds(x) : Len(x) - p <= Len(y) - e
        BY <3>4
      <4>2. p \in 1 .. Len(x) /\ x[p] = End
        BY <4>1 DEF LineEnds
      <4>3. p \in 1 .. Len(u) /\ u[p] = End
        BY <1>3, <1>5, <4>2
      <4>4. p \in LineEnds(u)
        BY <1>3, <4>3 DEF LineEnds
      <4>5. Len(u) - p <= Len(v) - e
        BY <1>1, <1>3, <1>4, <3>1, <4>1, <4>2
      <4> QED
        BY <4>4, <4>5
    <3> QED
      BY <3>2, <3>3, <3>4
  <2>3. CASE ~(e <= Len(y))
    <3> DEFINE f == e - Len(y)
    <3>1. f \in 1 .. Len(r) /\ e = Len(y) + f
      BY <1>4, <2>1, <2>3
    <3> HIDE DEF f
    <3>2. f \in LineEnds(r)
      BY <1>8, <2>1, <3>1 DEF LineEnds
    <3>3. PICK p \in LineEnds(d) : Len(d) - p <= Len(r) - f
      BY <1>2, <3>2
    <3>4. p \in 1 .. Len(d) /\ d[p] = End
      BY <3>3 DEF LineEnds
    <3>5. Len(x) + p \in 1 .. Len(u) /\ u[Len(x) + p] = End
      BY <1>3, <1>6, <3>4
    <3>6. Len(x) + p \in LineEnds(u)
      BY <1>3, <3>5 DEF LineEnds
    <3>7. Len(u) - (Len(x) + p) <= Len(v) - e
      BY <1>3, <1>4, <3>1, <3>3, <3>4
    <3> QED
      BY <3>6, <3>7
  <2> QED
    BY <2>2, <2>3
<1> QED
  BY <1>10, <1>11 DEF Trails, u, v, d

\* A line is taken from the text that trails.
LEMMA TrailsTaken ==
    ASSUME NEW x \in Seq(Alphabet), NEW y \in Seq(Alphabet), ~NoEnd(x), Trails(x, y)
    PROVE  Trails(AfterLine(x), y) /\ Len(AfterLine(x)) <= Len(x)
<1> DEFINE f == FirstEnd(x)
           b == AfterLine(x)
<1>1. f \in 1 .. Len(x)
  BY FirstEndParts
<1>2. b = SubSeq(x, f + 1, Len(x))
  BY DEF AfterLine
<1> HIDE DEF f, b
<1>3. b \in Seq(Alphabet) /\ Len(b) = Len(x) - f /\ \A k \in 1 .. Len(x) - f : b[k] = x[f + k]
  BY <1>1, <1>2, PartsAt
<1>4. Len(x) \in Nat /\ Len(y) \in Nat /\ Len(x) <= Len(y)
  BY DEF Trails
<1>5. ASSUME NEW e \in LineEnds(y)
      PROVE  Len(b) <= Len(y) - e \/ \E p \in LineEnds(b) : Len(b) - p <= Len(y) - e
  <2>1. e \in 1 .. Len(y)
    BY <1>5 DEF LineEnds
  <2>2. Len(x) <= Len(y) - e \/ \E p \in LineEnds(x) : Len(x) - p <= Len(y) - e
    BY <1>5 DEF Trails
  <2>3. CASE Len(x) <= Len(y) - e
    BY <1>1, <1>3, <1>4, <2>1, <2>3
  <2>4. CASE \E p \in LineEnds(x) : Len(x) - p <= Len(y) - e
    <3>1. PICK p \in LineEnds(x) : Len(x) - p <= Len(y) - e
      BY <2>4
    <3>2. p \in 1 .. Len(x) /\ x[p] = End
      BY <3>1 DEF LineEnds
    <3>3. CASE p <= f
      BY <1>1, <1>3, <1>4, <2>1, <3>1, <3>2, <3>3
    <3>4. CASE ~(p <= f)
      <4> DEFINE q == p - f
      <4>1. q \in 1 .. Len(x) - f /\ f + q = p
        BY <1>1, <3>2, <3>4
      <4> HIDE DEF q
      <4>2. b[q] = End /\ q \in 1 .. Len(b)
        BY <1>3, <3>2, <4>1
      <4>3. q \in LineEnds(b)
        BY <1>3, <4>2 DEF LineEnds
      <4>4. Len(b) - q <= Len(y) - e
        BY <1>1, <1>3, <1>4, <2>1, <3>1, <3>2, <4>1
      <4> QED
        BY <4>3, <4>4
    <3> QED
      BY <3>3, <3>4
  <2> QED
    BY <2>2, <2>3, <2>4
<1>6. Len(b) <= Len(x) /\ Len(b) <= Len(y)
  BY <1>1, <1>3, <1>4
<1> QED
  BY <1>5, <1>6 DEF Trails, b

\* A text without an end trails what is after the last end.
LEMMA TrailsFree ==
    ASSUME NEW x \in Seq(Alphabet), NEW y \in Seq(Alphabet), NoEnd(x), Trails(x, y)
    PROVE  Len(x) <= Len(y) /\ \A k \in Len(y) - Len(x) + 1 .. Len(y) : y[k] # End
<1>1. Len(x) \in Nat /\ Len(y) \in Nat /\ Len(x) <= Len(y)
  BY DEF Trails
<1>2. LineEnds(x) = {}
  BY DEF NoEnd, LineEnds
<1>3. ASSUME NEW k \in Len(y) - Len(x) + 1 .. Len(y), y[k] = End PROVE FALSE
  <2>1. k \in 1 .. Len(y)
    BY <1>1
  <2>2. k \in LineEnds(y)
    BY <1>3, <2>1 DEF LineEnds
  <2>3. Len(x) <= Len(y) - k
    BY <1>2, <2>2 DEF Trails
  <2> QED
    BY <1>1, <2>1, <2>3
<1> QED
  BY <1>1, <1>3

\* A stretch without an end is in a line.
LEMMA LongLine ==
    ASSUME NEW s \in Seq(Alphabet), NEW a \in 1 .. Len(s), NEW b \in a .. Len(s), \A k \in a .. b : s[k] # End
    PROVE  \E line \in Range(LinesOf(s)) : line \in Seq(Alphabet) /\ Len(line) >= b - a + 1
<1> DEFINE from == {i \in 1 .. a : \A k \in i .. a : s[k] # End}
<1>1. from \in SUBSET Nat /\ a \in from
  BY DEF from
<1>2. PICK i \in from : \A j \in from : i <= j
  <2>1. from # {}
    BY <1>1
  <2> HIDE DEF from
  <2> QED
    BY <1>1, <2>1, LeastOf
<1>3. i \in 1 .. a /\ (\A k \in i .. a : s[k] # End)
  BY <1>2
<1>4. i > 1 => s[i - 1] = End
  <2> SUFFICES ASSUME i > 1, s[i - 1] # End PROVE FALSE
    OBVIOUS
  <2>1. i - 1 \in 1 .. a
    BY <1>3
  <2>2. \A k \in i - 1 .. a : s[k] # End
    <3> SUFFICES ASSUME NEW k \in i - 1 .. a PROVE s[k] # End
      OBVIOUS
    <3>1. k = i - 1 \/ k \in i .. a
      BY <1>3
    <3> QED
      BY <1>3, <3>1
  <2>3. i - 1 \in from
    BY <2>1, <2>2
  <2> QED
    BY <1>2, <1>3, <2>3
<1>5. i \in Starts(s) /\ i \in 1 .. Len(s)
  <2>1. i \in 1 .. Len(s) /\ i \in i .. a
    BY <1>3
  <2>2. s[i] # End
    BY <1>3, <2>1
  <2> QED
    BY <1>4, <2>1, <2>2 DEF Starts
<1>6. b \in Unbroken(s, i)
  <2>1. b \in i .. Len(s)
    BY <1>3
  <2>2. \A k \in i .. b : s[k] # End
    <3> SUFFICES ASSUME NEW k \in i .. b PROVE s[k] # End
      OBVIOUS
    <3>1. k \in i .. a \/ k \in a .. b
      BY <1>3
    <3> QED
      BY <1>3, <3>1
  <2> QED
    BY <2>1, <2>2 DEF Unbroken
<1> DEFINE line == LineAt(s, i)
<1>7. line \in Seq(Alphabet) /\ Len(line) = Stop(s, i) - i + 1 /\ b <= Stop(s, i) /\ Stop(s, i) \in i .. Len(s)
  BY <1>5, <1>6, StopsAt
<1>8. Len(line) >= b - a + 1
  BY <1>3, <1>7
<1> HIDE DEF line
<1>9. LinesFrom(s)[i] = <<line>> /\ i \in 1 .. Len(LinesFrom(s))
  BY <1>5 DEF LinesFrom, LineFrom, line
<1>10. /\ LinesOf(s) = FlattenSeq(LinesFrom(s)) /\ LinesFrom(s) \in Seq(Seq(Seq(Alphabet)))
       /\ LinesOf(s) \in Seq(Seq(Alphabet))
  BY LinesFlat
<1> DEFINE ss == LinesFrom(s)
           T == Seq(Alphabet)
           before == FlattenSeq(SubSeq(ss, 1, i - 1))
<1>11. ss \in Seq(Seq(T)) /\ i \in 1 .. Len(ss) /\ ss[i] = <<line>> /\ 1 \in 1 .. Len(ss[i]) /\ ss[i][1] = line
  BY <1>9, <1>10
<1> HIDE DEF ss, T
<1>12. /\ Len(before) + 1 \in 1 .. Len(FlattenSeq(ss))
       /\ FlattenSeq(ss)[Len(before) + 1] = ss[i][1]
  <2>1. /\ Len(FlattenSeq(SubSeq(ss, 1, i - 1))) + 1 \in 1 .. Len(FlattenSeq(ss))
        /\ FlattenSeq(ss)[Len(FlattenSeq(SubSeq(ss, 1, i - 1))) + 1] = ss[i][1]
    <3>1. ss \in Seq(Seq(T)) /\ i \in 1 .. Len(ss) /\ 1 \in 1 .. Len(ss[i])
      BY <1>11
    <3> QED
      BY <3>1, FlattenAt
  <2> QED
    BY <2>1
<1> HIDE DEF before
<1>13. Len(before) + 1 \in DOMAIN LinesOf(s) /\ LinesOf(s)[Len(before) + 1] = line
  BY <1>10, <1>11, <1>12 DEF ss
<1>14. line \in Range(LinesOf(s))
  BY <1>13 DEF Range
<1> QED
  BY <1>7, <1>8, <1>14

\* A text that can be sent: its characters are whole, and it has something in it.
WellFramed(x) ==
    /\ x \in Seq(Alphabet) /\ InPairs(x) /\ ~HalfFirst(x) /\ ~HalfLast(x)
    /\ x # <<>> => \E k \in 1 .. Len(x) : x[k] # End

\* Two such texts joined, or one and a line end.
LEMMA WellFramedJoined ==
    ASSUME NEW x, NEW y, WellFramed(x), x # <<>>, WellFramed(y) \/ y = LineEnd
    PROVE  WellFramed(Cat(x, y))
<1> DEFINE z == Cat(x, y)
           m == Len(x)
           n == Len(y)
<1>1. x \in Seq(Alphabet) /\ InPairs(x) /\ ~HalfFirst(x) /\ ~HalfLast(x)
  BY DEF WellFramed
<1>2. y \in Seq(Alphabet) /\ InPairs(y) /\ ~HalfFirst(y) /\ ~HalfLast(y)
  <2>1. CASE WellFramed(y)
    BY <2>1 DEF WellFramed
  <2>2. CASE y = LineEnd
    <3>1. LineEnd \in Seq(Alphabet) /\ Len(LineEnd) = 1 /\ LineEnd[1] = End
      BY UnitsTyped DEF LineEnd
    <3> QED
      BY <2>2, <3>1, UnitsApart DEF InPairs, HalfFirst, HalfLast
  <2> QED
    BY <2>1, <2>2
<1>3. z \in Seq(Alphabet) /\ Len(z) = m + n /\ m \in Nat /\ n \in Nat
  BY <1>1, <1>2, CatSize
<1>4. \A i \in 1 .. m : z[i] = x[i]
  BY <1>1, <1>2, CatBefore
<1>5. \A i \in 1 .. n : z[m + i] = y[i]
  BY <1>1, <1>2, CatAfter
<1> HIDE DEF z
<1>6. m # 0
  BY <1>1
<1>7. PICK k \in 1 .. m : x[k] # End
  BY DEF WellFramed
<1>8. InPairs(z)
  <2> SUFFICES ASSUME NEW i \in 1 .. m + n - 1 PROVE z[i] = Head1 <=> z[i + 1] = Tail1
    BY <1>3 DEF InPairs
  <2>1. CASE i < m
    <3>1. i \in 1 .. m - 1 /\ i \in 1 .. m /\ i + 1 \in 1 .. m
      BY <1>3, <2>1
    <3> QED
      BY <1>1, <1>4, <3>1 DEF InPairs
  <2>2. CASE i = m
    <3>1. m \in 1 .. m /\ 1 \in 1 .. n
      BY <1>3, <2>2
    <3>2. y # <<>> /\ x # <<>>
      BY <1>2, <1>6, <3>1
    <3>3. x[m] # Head1 /\ y[1] # Tail1
      BY <1>1, <1>2, <3>2 DEF HalfFirst, HalfLast
    <3> QED
      BY <1>4, <1>5, <2>2, <3>1, <3>3
  <2>3. CASE i > m
    <3> DEFINE j == i - m
    <3>1. j \in 1 .. n - 1 /\ j \in 1 .. n /\ j + 1 \in 1 .. n /\ i = m + j /\ i + 1 = m + (j + 1)
      BY <1>3, <2>3
    <3> HIDE DEF j
    <3>2. y[j] = Head1 <=> y[j + 1] = Tail1
      BY <1>2, <3>1 DEF InPairs
    <3> QED
      BY <1>5, <3>1, <3>2
  <2> QED
    BY <1>3, <2>1, <2>2, <2>3
<1>9. ~HalfFirst(z)
  <2>1. z[1] = x[1] /\ x[1] # Tail1
    BY <1>1, <1>3, <1>4, <1>6 DEF HalfFirst
  <2> QED
    BY <2>1 DEF HalfFirst
<1>10. ~HalfLast(z)
  <2>1. CASE n = 0
    <3>1. z[m] = x[m] /\ x[m] # Head1
      BY <1>1, <1>3, <1>4, <1>6 DEF HalfLast
    <3>2. Len(z) = m
      BY <1>3, <2>1
    <3> QED
      BY <3>1, <3>2 DEF HalfLast
  <2>2. CASE n # 0
    <3>1. n \in 1 .. n /\ y # <<>>
      BY <1>2, <1>3, <2>2
    <3>2. z[m + n] = y[n] /\ y[n] # Head1
      BY <1>2, <1>5, <3>1 DEF HalfLast
    <3> QED
      BY <1>3, <3>2 DEF HalfLast
  <2> QED
    BY <2>1, <2>2
<1>11. \E l \in 1 .. Len(z) : z[l] # End
  <2>1. k \in 1 .. Len(z) /\ z[k] # End
    BY <1>3, <1>4, <1>7
  <2> QED
    BY <2>1
<1> QED
  BY <1>3, <1>8, <1>9, <1>10, <1>11 DEF WellFramed, z

\* The lines the gate sends.
LEMMA WellFramedLines ==
    ASSUME NEW l \in SentLines
    PROVE  WellFramed(l) /\ l # <<>>
<1> DEFINE plain == {Brace, "a", "unknown"}
<1>1. \A u \in plain : u # Head1 /\ u # Tail1 /\ u # End
  BY Zenon DEF Brace, Head1, Tail1, End
<1>2. plain \subseteq Alphabet /\ Brace \in plain /\ "a" \in plain /\ "unknown" \in plain
  BY DEF Alphabet
<1>3. ASSUME NEW x, x \in Seq(plain), x # <<>> PROVE WellFramed(x)
  <2> HIDE DEF plain
  <2>1. x \in Seq(Alphabet) /\ Len(x) \in Nat \ {0}
    BY <1>2, <1>3
  <2>2. \A i \in 1 .. Len(x) : x[i] # Head1 /\ x[i] # Tail1 /\ x[i] # End
    BY <1>1, <1>3
  <2>3. 1 \in 1 .. Len(x) /\ Len(x) \in 1 .. Len(x)
    BY <2>1
  <2>4. InPairs(x)
    <3> SUFFICES ASSUME NEW i \in 1 .. Len(x) - 1 PROVE x[i] = Head1 <=> x[i + 1] = Tail1
      BY DEF InPairs
    <3>1. i \in 1 .. Len(x) /\ i + 1 \in 1 .. Len(x)
      BY <2>1
    <3> QED
      BY <2>2, <3>1
  <2> QED
    BY <2>1, <2>2, <2>3, <2>4 DEF WellFramed, HalfFirst, HalfLast
<1>4. ASSUME NEW b \in plain PROVE WellFramed(<<Head1, Tail1, b>>) /\ <<Head1, Tail1, b>> # <<>>
  <2> HIDE DEF plain
  <2> DEFINE x == <<Head1, Tail1, b>>
  <2>1. x \in Seq(Alphabet) /\ Len(x) = 3 /\ x[1] = Head1 /\ x[2] = Tail1 /\ x[3] = b /\ x # <<>>
    BY <1>2, <1>4, InAlphabet
  <2>2. b # Head1 /\ b # Tail1 /\ b # End
    BY <1>1, <1>4
  <2> HIDE DEF x
  <2>3. InPairs(x)
    <3> SUFFICES ASSUME NEW i \in 1 .. 2 PROVE x[i] = Head1 <=> x[i + 1] = Tail1
      BY <2>1 DEF InPairs
    <3>1. i = 1 \/ i = 2
      OBVIOUS
    <3> QED
      BY <2>1, <2>2, <3>1, UnitsApart
  <2>4. ~HalfFirst(x) /\ ~HalfLast(x)
    BY <2>1, <2>2, UnitsApart DEF HalfFirst, HalfLast
  <2>5. 3 \in 1 .. Len(x) /\ x[3] # End
    BY <2>1, <2>2
  <2> QED
    BY <2>1, <2>3, <2>4, <2>5 DEF WellFramed, x
<1>5. \/ l \in Seq(plain) /\ l # <<>>
      \/ \E b \in plain : l = <<Head1, Tail1, b>>
  <2>1. \/ l = <<Brace>> \/ l = <<"a", Brace>> \/ l = <<Head1, Tail1, Brace>>
        \/ l = <<"a", "a", "a", "a", "a", Brace>> \/ l = <<"unknown", Brace>>
    BY Zenon DEF SentLines
  <2> HIDE DEF plain
  <2>2. <<Brace>> \in Seq(plain) /\ <<"a", Brace>> \in Seq(plain) /\ <<"unknown", Brace>> \in Seq(plain)
    BY <1>2
  <2>3. <<"a", "a", "a", "a", "a", Brace>> \in Seq(plain)
    BY <1>2
  <2>4. <<Brace>> # <<>> /\ <<"a", Brace>> # <<>> /\ <<"unknown", Brace>> # <<>>
    OBVIOUS
  <2>5. <<"a", "a", "a", "a", "a", Brace>> # <<>>
    OBVIOUS
  <2> QED
    BY <1>2, <2>1, <2>2, <2>3, <2>4, <2>5, Zenon
<1> HIDE DEF plain
<1> QED
  BY <1>3, <1>4, <1>5

\* Bodies made of lines and their ends.
LEMMA WellFramedFlat ==
    \A ss \in Seq(Seq(Alphabet)) : (\A i \in 1 .. Len(ss) : WellFramed(ss[i]) /\ ss[i] # <<>>)
        => WellFramed(FlattenSeq(ss)) /\ (ss # <<>> => FlattenSeq(ss) # <<>>)
<1> DEFINE Good(ss) == \A i \in 1 .. Len(ss) : WellFramed(ss[i]) /\ ss[i] # <<>>
           P == {n \in Nat : \A ss \in Seq(Seq(Alphabet)) : Len(ss) = n /\ Good(ss) =>
                               WellFramed(FlattenSeq(ss)) /\ (ss # <<>> => FlattenSeq(ss) # <<>>)}
<1>0. WellFramed(<<>>)
  BY DEF WellFramed, InPairs, HalfFirst, HalfLast
<1>1. 0 \in P
  <2> SUFFICES ASSUME NEW ss \in Seq(Seq(Alphabet)), Len(ss) = 0
               PROVE  WellFramed(FlattenSeq(ss)) /\ (ss # <<>> => FlattenSeq(ss) # <<>>)
    OBVIOUS
  <2>1. ss = <<>>
    OBVIOUS
  <2>2. <<>> \in Seq(Alphabet) /\ <<>> \in Seq(Seq(Alphabet))
    OBVIOUS
  <2>3. FlattenSeq(<<>>) = <<>>
    BY <2>2, FlattenAppend
  <2> QED
    BY <1>0, <2>1, <2>3
<1>2. ASSUME NEW n \in P PROVE n + 1 \in P
  <2> SUFFICES ASSUME NEW ss \in Seq(Seq(Alphabet)), Len(ss) = n + 1, Good(ss)
               PROVE  WellFramed(FlattenSeq(ss)) /\ FlattenSeq(ss) # <<>>
    OBVIOUS
  <2> DEFINE front == SubSeq(ss, 1, n)
             last == ss[n + 1]
  <2>1. /\ front \in Seq(Seq(Alphabet)) /\ Len(front) = n /\ last \in Seq(Alphabet)
        /\ ss = Append(front, last) /\ n \in Nat
    BY LastApart
  <2>2. \A i \in 1 .. n : front[i] = ss[i]
    OBVIOUS
  <2>3. Good(front) /\ WellFramed(last) /\ last # <<>>
    BY <2>1, <2>2
  <2> HIDE DEF Good
  <2>4. WellFramed(FlattenSeq(front)) /\ (front # <<>> => FlattenSeq(front) # <<>>)
    BY <2>1, <2>3
  <2> HIDE DEF front, last
  <2>5. FlattenSeq(ss) = Cat(FlattenSeq(front), last)
    BY <2>1, FlattenAppend DEF Cat
  <2>6. CASE front = <<>>
    <3>1. FlattenSeq(<<>>) = <<>>
      <4>1. <<>> \in Seq(Alphabet) /\ <<>> \in Seq(Seq(Alphabet))
        OBVIOUS
      <4> QED
        BY <4>1, FlattenAppend
    <3>2. Cat(<<>>, last) = last
      BY <2>1, CatSize
    <3> QED
      BY <2>3, <2>5, <2>6, <3>1, <3>2
  <2>7. CASE front # <<>>
    <3> DEFINE f == FlattenSeq(front)
    <3>1. WellFramed(f) /\ f # <<>> /\ f \in Seq(Alphabet)
      BY <2>4, <2>7 DEF WellFramed
    <3> HIDE DEF f
    <3>2. WellFramed(Cat(f, last))
      BY <2>3, <3>1, WellFramedJoined
    <3>3. Cat(f, last) # <<>>
      <4>1. Len(Cat(f, last)) = Len(f) + Len(last) /\ Len(f) \in Nat /\ Len(last) \in Nat
        BY <2>1, <3>1, CatSize
      <4>2. Len(f) # 0
        BY <3>1
      <4>3. Len(<<>>) = 0 /\ Len(Cat(f, last)) # 0
        BY <4>1, <4>2
      <4> QED
        BY <4>3, Zenon
    <3> QED
      BY <2>5, <3>2, <3>3 DEF f
  <2> QED
    BY <2>6, <2>7
<1> HIDE DEF P
<1>3. \A n \in Nat : n \in P
  BY <1>1, <1>2, AllNaturals DEF P
<1> SUFFICES ASSUME NEW ss \in Seq(Seq(Alphabet)), Good(ss)
             PROVE  WellFramed(FlattenSeq(ss)) /\ (ss # <<>> => FlattenSeq(ss) # <<>>)
  OBVIOUS
<1>4. Len(ss) \in P
  BY <1>3
<1> QED
  BY <1>4 DEF P

\* Every body the gate may send.
LEMMA WellFramedBodies ==
    ASSUME NEW body \in Bodies
    PROVE  WellFramed(body)
<1>1. ASSUME NEW n \in 0 .. 3, NEW lines \in [1 .. n -> SentLines]
      PROVE  WellFramed(Gather(lines, LAMBDA l : Append(l, End)))
  <2> DEFINE ss == [i \in 1 .. n |-> Append(lines[i], End)]
  <2>1. DOMAIN lines = 1 .. n /\ n \in Nat
    BY <1>1
  <2>2. Gather(lines, LAMBDA l : Append(l, End)) = FlattenSeq(ss)
    BY <2>1 DEF Gather
  <2>3. ASSUME NEW i \in 1 .. n PROVE WellFramed(Append(lines[i], End)) /\ Append(lines[i], End) # <<>>
    <3> DEFINE x == lines[i]
    <3>1. x \in SentLines
      BY <1>1, <2>3
    <3> HIDE DEF x
    <3>2. WellFramed(x) /\ x # <<>> /\ x \in Seq(Alphabet)
      BY <3>1, WellFramedLines DEF WellFramed
    <3>3. Append(x, End) = Cat(x, LineEnd) /\ Append(x, End) # <<>>
      BY <3>2, InAlphabet, SMTT(30) DEF Cat, LineEnd
    <3> QED
      BY <3>2, <3>3, WellFramedJoined DEF x
  <2>4. \A i \in 1 .. n : Append(lines[i], End) \in Seq(Alphabet)
    BY <2>3 DEF WellFramed
  <2>5. ss \in Seq(Seq(Alphabet)) /\ Len(ss) = n /\ \A i \in 1 .. n : WellFramed(ss[i]) /\ ss[i] # <<>>
    BY <2>1, <2>3, <2>4
  <2> HIDE DEF ss
  <2> QED
    BY <2>2, <2>5, WellFramedFlat
<1>2. ASSUME NEW lines \in [1 .. 2 -> SentLines]
      PROVE  WellFramed(lines[1] \o <<End>> \o lines[2])
  <2> DEFINE x == lines[1]
             y == lines[2]
  <2>1. x \in SentLines /\ y \in SentLines
    BY <1>2
  <2> HIDE DEF x, y
  <2>2. WellFramed(x) /\ x # <<>> /\ WellFramed(y) /\ y # <<>> /\ x \in Seq(Alphabet)
    BY <2>1, WellFramedLines DEF WellFramed
  <2>3. WellFramed(Cat(x, LineEnd))
    BY <2>2, WellFramedJoined
  <2>4. Cat(x, LineEnd) # <<>>
    <3>1. Append(x, End) = Cat(x, LineEnd) /\ Append(x, End) # <<>>
      BY <2>2, InAlphabet DEF Cat, LineEnd
    <3> QED
      BY <3>1
  <2>5. WellFramed(Cat(Cat(x, LineEnd), y))
    BY <2>2, <2>3, <2>4, WellFramedJoined
  <2> QED
    BY <2>5 DEF Cat, LineEnd, x, y
<1> QED
  <2> DEFINE ended(n) == {Gather(lines, LAMBDA l : Append(l, End)) : lines \in [1 .. n -> SentLines]}
             open == {lines[1] \o <<End>> \o lines[2] : lines \in [1 .. 2 -> SentLines]}
  <2>1. \A n \in 0 .. 3 : \A b \in ended(n) : WellFramed(b)
    BY <1>1, Zenon
  <2>2. \A b \in open : WellFramed(b)
    BY <1>2, Zenon
  <2> DEFINE whole == UNION {ended(n) : n \in 0 .. 3}
  <2>3. body \in whole \cup open
    BY Zenon DEF Bodies
  <2>4. CASE body \in open
    BY <2>2, <2>4, Zenon
  <2>5. CASE body \in whole
    <3> HIDE DEF ended
    <3>1. PICK sent \in {ended(n) : n \in 0 .. 3} : body \in sent
      BY <2>5
    <3>2. PICK n \in 0 .. 3 : sent = ended(n)
      BY <3>1, Zenon
    <3> QED
      BY <2>1, <3>1, <3>2
  <2> HIDE DEF ended, open, whole
  <2> QED
    BY <2>3, <2>4, <2>5

\* What has been read of a body, and what has not.
ReadPart(body, read) == SubSeq(body, 1, read)
UnreadPart(body, read) == SubSeq(body, read + 1, Len(body))

\* Every line of the body is an event, or is in the buffer or still to be read.
LinesCounted(body, events, buffer, rest) ==
    Len(LinesOf(Decoded(body))) = Len(events) + Len(LinesOf(Cat(buffer, Decoded(rest))))

\* It is there letter for letter, when the half in the buffer joins the one to be read.
Exact(body, events, buffer, rest) ==
    /\ LinesOf(Decoded(body)) = Cat(events, LinesOf(Cat(HeldText(buffer, rest), Decoded(AheadText(rest)))))
    /\ HalfFirst(rest) => EndsHalf(buffer)

\* A body that is being read.
Going(body, read, torn, buffer, events) ==
    /\ Len(buffer) <= MaxLine
    /\ Trails(buffer, ReadPart(body, read))
    /\ LinesCounted(body, events, buffer, UnreadPart(body, read))
    /\ ~torn => Exact(body, events, buffer, UnreadPart(body, read))

\* The events so far are those that were sent.
Told(body, torn, events) ==
    /\ Len(events) <= Len(LinesOf(Decoded(body)))
    /\ ~torn => \A i \in DOMAIN events : events[i] = LinesOf(Decoded(body))[i]

\* Both are texts, and the body is them joined.
LEMMA BodyParts ==
    ASSUME NEW body \in Seq(Alphabet), InPairs(body), NEW read \in 0 .. Len(body)
    PROVE  /\ ReadPart(body, read) \in Seq(Alphabet) /\ Len(ReadPart(body, read)) = read
           /\ \A i \in 1 .. read : ReadPart(body, read)[i] = body[i]
           /\ UnreadPart(body, read) \in Seq(Alphabet) /\ InPairs(UnreadPart(body, read))
           /\ body = Cat(ReadPart(body, read), UnreadPart(body, read))
<1>1. /\ ReadPart(body, read) \in Seq(Alphabet) /\ Len(ReadPart(body, read)) = read
      /\ \A i \in 1 .. read : ReadPart(body, read)[i] = body[i]
      /\ UnreadPart(body, read) \in Seq(Alphabet)
      /\ body = Cat(ReadPart(body, read), UnreadPart(body, read))
  BY Beginnings DEF ReadPart, UnreadPart, Cat
<1>2. InPairs(UnreadPart(body, read))
  BY <1>1, PairsParted
<1> QED
  BY <1>1, <1>2

\* The next read of it.
LEMMA NextRead ==
    ASSUME NEW body \in Seq(Alphabet), InPairs(body), NEW read \in Nat, NEW n \in Nat \ {0},
           read + n <= Len(body)
    PROVE  /\ SubSeq(body, read + 1, read + n) \in Seq(Alphabet) /\ InPairs(SubSeq(body, read + 1, read + n))
           /\ Len(SubSeq(body, read + 1, read + n)) = n
           /\ UnreadPart(body, read) = Cat(SubSeq(body, read + 1, read + n), UnreadPart(body, read + n))
           /\ ReadPart(body, read + n) = Cat(ReadPart(body, read), SubSeq(body, read + 1, read + n))
<1> DEFINE r == SubSeq(body, read + 1, read + n)
           m == read + n
<1>1. m \in 0 .. Len(body) /\ read \in 0 .. Len(body) /\ Len(body) \in Nat
  OBVIOUS
<1>2. /\ ReadPart(body, m) \in Seq(Alphabet) /\ UnreadPart(body, m) \in Seq(Alphabet)
      /\ ReadPart(body, read) \in Seq(Alphabet) /\ UnreadPart(body, read) \in Seq(Alphabet)
      /\ InPairs(UnreadPart(body, read))
  BY <1>1, BodyParts
<1>3. r \in Seq(Alphabet) /\ Len(r) = n /\ r = [k \in 1 .. n |-> body[read + k]]
  <2>1. r = [k \in 1 .. n |-> body[read + k]]
    BY <1>1
  <2>2. \A k \in 1 .. n : body[read + k] \in Alphabet
    BY <1>1
  <2> HIDE DEF r
  <2>3. r \in [1 .. n -> Alphabet]
    BY <2>1, <2>2
  <2> QED
    BY <2>1, <2>3
<1>4. ReadPart(body, m) = Cat(ReadPart(body, read), r)
  <2> DEFINE a == ReadPart(body, read)
             c == ReadPart(body, m)
  <2>1. Len(a) = read /\ Len(c) = m
    BY <1>1, BodyParts
  <2>2. \A i \in 1 .. read : a[i] = body[i]
    BY <1>1, BodyParts
  <2>3. \A i \in 1 .. m : c[i] = body[i]
    BY <1>1, BodyParts
  <2> HIDE DEF a, c
  <2>4. \A i \in 1 .. Len(a) : c[i] = a[i]
    BY <1>1, <2>1, <2>2, <2>3
  <2>5. \A i \in 1 .. Len(r) : c[Len(a) + i] = r[i]
    <3> SUFFICES ASSUME NEW i \in 1 .. n PROVE c[read + i] = r[i]
      BY <1>3, <2>1
    <3>1. read + i \in 1 .. m
      OBVIOUS
    <3>2. r[i] = body[read + i]
      BY <1>3
    <3> QED
      BY <2>3, <3>1, <3>2
  <2>6. a \in Seq(Alphabet) /\ c \in Seq(Alphabet) /\ Len(c) = Len(a) + Len(r)
    BY <1>2, <1>3, <2>1 DEF a, c
  <2> HIDE DEF r
  <2>7. c = a \o r
    BY <1>3, <2>4, <2>5, <2>6, JoinedAt
  <2> QED
    BY <2>7 DEF a, c, Cat
<1>5. UnreadPart(body, read) = Cat(r, UnreadPart(body, m))
  <2> DEFINE a == UnreadPart(body, read)
             c == UnreadPart(body, m)
             l == Len(body)
  <2>1. a = [k \in 1 .. l - read |-> body[read + k]] /\ Len(a) = l - read
    BY <1>1 DEF UnreadPart
  <2>2. c = [k \in 1 .. l - m |-> body[m + k]] /\ Len(c) = l - m
    BY <1>1 DEF UnreadPart
  <2>3. a \in Seq(Alphabet) /\ c \in Seq(Alphabet) /\ l \in Nat /\ m <= l
    BY <1>1, <1>2
  <2> HIDE DEF a, c, l
  <2>4. \A i \in 1 .. Len(r) : a[i] = r[i]
    <3> SUFFICES ASSUME NEW i \in 1 .. n PROVE a[i] = r[i]
      BY <1>3
    <3>1. i \in 1 .. l - read
      BY <2>3
    <3>2. r[i] = body[read + i]
      BY <1>3
    <3> QED
      BY <2>1, <3>1, <3>2
  <2>5. \A i \in 1 .. Len(c) : a[Len(r) + i] = c[i]
    <3> SUFFICES ASSUME NEW i \in 1 .. l - m PROVE a[n + i] = c[i]
      BY <1>3, <2>2
    <3>1. n + i \in 1 .. l - read /\ read + (n + i) = m + i
      BY <2>3
    <3> QED
      BY <2>1, <2>2, <3>1
  <2>6. Len(a) = Len(r) + Len(c)
    BY <1>3, <2>1, <2>2, <2>3
  <2> HIDE DEF r
  <2>7. a = r \o c
    BY <1>3, <2>3, <2>4, <2>5, <2>6, JoinedAt
  <2> QED
    BY <2>7 DEF a, c, Cat
<1> HIDE DEF r
<1>6. InPairs(r)
  BY <1>2, <1>3, <1>5, PairsParted
<1> QED
  BY <1>3, <1>4, <1>5, <1>6 DEF r

\* What is known of the number of lines.
LEMMA SomeLines ==
    ASSUME NEW x \in Seq(Alphabet)
    PROVE  LinesOf(x) \in Seq(Seq(Alphabet)) /\ Len(LinesOf(x)) \in Nat
<1> DEFINE l == LinesOf(x)
<1>1. l \in Seq(Seq(Alphabet))
  BY LinesFlat
<1> HIDE DEF l
<1>2. Len(l) \in Nat
  BY <1>1
<1> QED
  BY <1>1, <1>2 DEF l

\* A call begins with the whole body before it.
LEMMA Begun ==
    ASSUME NEW body, WellFramed(body)
    PROVE  Going(body, 0, FALSE, <<>>, <<>>)
<1> DEFINE d == Decoded(body)
<1>1. body \in Seq(Alphabet) /\ InPairs(body) /\ ~HalfFirst(body) /\ 0 \in 0 .. Len(body)
  BY DEF WellFramed
<1>2. d \in Seq(Alphabet)
  BY <1>1, SpellTyped
<1>3. ReadPart(body, 0) = <<>>
  <2>1. Len(ReadPart(body, 0)) = 0 /\ ReadPart(body, 0) \in Seq(Alphabet)
    BY <1>1, BodyParts
  <2> QED
    BY <2>1
<1>4. UnreadPart(body, 0) = body
  <2>1. UnreadPart(body, 0) \in Seq(Alphabet) /\ body = Cat(ReadPart(body, 0), UnreadPart(body, 0))
    BY <1>1, BodyParts
  <2> QED
    BY <1>3, <2>1, CatSize
<1> HIDE DEF d
<1>5. Cat(<<>>, d) = d
  BY <1>2, CatSize
<1>6. Len(<<>>) = 0 /\ MaxLine \in Nat
  BY ClientAssumption
<1>7. Trails(<<>>, <<>>)
  BY <1>6 DEF Trails, LineEnds
<1>8. LinesCounted(body, <<>>, <<>>, body)
  <2>1. Len(LinesOf(d)) \in Nat
    BY <1>2, SomeLines
  <2> QED
    BY <1>5, <1>6, <2>1 DEF LinesCounted, d
<1>9. Exact(body, <<>>, <<>>, body)
  <2> DEFINE l == LinesOf(d)
             T == Seq(Alphabet)
  <2>1. l \in Seq(T) /\ <<>> \in Seq(T)
    BY <1>2, SomeLines
  <2> HIDE DEF l, T
  <2>2. Cat(<<>>, l) = l
    BY <2>1, CatSize
  <2>3. HeldText(<<>>, body) = <<>> /\ AheadText(body) = body
    BY <1>1 DEF HeldText, AheadText
  <2> QED
    BY <1>1, <1>5, <2>2, <2>3 DEF Exact, l, d
<1> QED
  BY <1>3, <1>4, <1>6, <1>7, <1>8, <1>9 DEF Going

\* Whether a character is torn by now.
TornBy(torn, r, now) == now \in BOOLEAN /\ (now <=> torn \/ r[1] = Tail1)

\* A read adds to the buffer what it spells.
LEMMA ReadStep ==
    ASSUME NEW body \in Seq(Alphabet), InPairs(body), NEW read \in Nat, NEW n \in Nat \ {0},
           read + n <= Len(body), NEW torn \in BOOLEAN, NEW buffer \in Seq(Alphabet), NEW events,
           NEW r, r = SubSeq(body, read + 1, read + n),
           Going(body, read, torn, buffer, events), Len(Cat(buffer, Decoded(r))) <= MaxLine,
           NEW now, TornBy(torn, r, now)
    PROVE  Going(body, read + n, now, Cat(buffer, Decoded(r)), events)
<1> DEFINE m == read + n
           t == UnreadPart(body, m)
           u == Cat(buffer, Decoded(r))
<1>1. /\ r \in Seq(Alphabet) /\ InPairs(r) /\ Len(r) = n
      /\ UnreadPart(body, read) = Cat(r, t) /\ ReadPart(body, m) = Cat(ReadPart(body, read), r)
  BY NextRead
<1>2. /\ m \in 0 .. Len(body) /\ read \in 0 .. Len(body)
  OBVIOUS
<1>3. /\ t \in Seq(Alphabet) /\ InPairs(UnreadPart(body, read)) /\ ReadPart(body, read) \in Seq(Alphabet)
  BY <1>2, BodyParts
<1> HIDE DEF m, t
<1>4. InPairs(Cat(r, t)) /\ r # <<>>
  BY <1>1, <1>3
<1>5. Trails(u, ReadPart(body, m))
  <2>1. Trails(buffer, ReadPart(body, read))
    BY DEF Going
  <2> QED
    BY <1>1, <1>3, <2>1, TrailsRead
<1>6. LinesCounted(body, events, u, t)
  <2>1. Len(LinesOf(Decoded(body))) = Len(events) + Len(LinesOf(Cat(buffer, Decoded(Cat(r, t)))))
    BY <1>1 DEF Going, LinesCounted
  <2>2. Len(LinesOf(Cat(buffer, Decoded(Cat(r, t))))) = Len(LinesOf(Cat(u, Decoded(t))))
    BY <1>1, <1>3, <1>4, ReadCount
  <2> QED
    BY <2>1, <2>2 DEF LinesCounted
<1>8. now \in BOOLEAN /\ (~now => ~torn /\ r[1] # Tail1)
  BY DEF TornBy
<1>7. ASSUME ~torn, r[1] # Tail1 PROVE Exact(body, events, u, t)
  <2>1. Exact(body, events, buffer, Cat(r, t))
    BY <1>1, <1>7 DEF Going
  <2>2. ~HalfFirst(Cat(r, t))
    <3>1. 1 \in 1 .. Len(r)
      BY <1>1
    <3>2. Cat(r, t)[1] = r[1]
      BY <1>1, <1>3, <3>1, CatBefore
    <3> QED
      BY <1>7, <3>2 DEF HalfFirst
  <2>3. HeldText(buffer, Cat(r, t)) = buffer /\ AheadText(Cat(r, t)) = Cat(r, t)
    BY <2>2 DEF HeldText, AheadText
  <2>4. LinesOf(Decoded(body)) = Cat(events, LinesOf(Cat(buffer, Decoded(Cat(r, t)))))
    BY <2>1, <2>3 DEF Exact
  <2>5. /\ Cat(buffer, Decoded(Cat(r, t))) = Cat(HeldText(u, t), Decoded(AheadText(t)))
        /\ HalfFirst(t) => EndsHalf(u)
    BY <1>1, <1>3, <1>4, ReadSame
  <2> QED
    BY <2>4, <2>5 DEF Exact
<1> QED
  BY <1>5, <1>6, <1>7, <1>8 DEF Going, m, t

\* One element between two sequences.
LEMMA AppendedThen ==
    ASSUME NEW T, NEW s \in Seq(T), NEW a \in T, NEW t \in Seq(T)
    PROVE  Cat(Cat(s, <<a>>), t) = Cat(s, Cat(<<a>>, t))
<1> DEFINE one == <<a>>
<1>1. one \in Seq(T)
  OBVIOUS
<1> HIDE DEF one
<1>2. Cat(Cat(s, one), t) = Cat(s, Cat(one, t))
  BY <1>1, CatTwice
<1> QED
  BY <1>2 DEF one

\* The caller's events with a line that is taken.
WithLine(events, line) == IF line = <<>> THEN events ELSE Append(events, line)

\* Taking a line moves it from the buffer to the events.
LEMMA TakeStep ==
    ASSUME NEW body \in Seq(Alphabet), InPairs(body), NEW read \in 0 .. Len(body), NEW torn \in BOOLEAN,
           NEW buffer \in Seq(Alphabet), NEW events \in Seq(Seq(Alphabet)), ~NoEnd(buffer),
           Going(body, read, torn, buffer, events)
    PROVE  Going(body, read, torn, AfterLine(buffer), WithLine(events, FirstLine(buffer)))
<1> DEFINE a == FirstLine(buffer)
           b == AfterLine(buffer)
           v == WithLine(events, a)
           rest == UnreadPart(body, read)
           d == Decoded(rest)
<1>1. a \in Seq(Alphabet) /\ b \in Seq(Alphabet)
  <2>1. <<>> \in Seq(Alphabet)
    OBVIOUS
  <2> QED
    BY <2>1, LineTaken
<1>2. rest \in Seq(Alphabet) /\ ReadPart(body, read) \in Seq(Alphabet) /\ d \in Seq(Alphabet)
  BY BodyParts, SpellTyped
<1>3. Trails(b, ReadPart(body, read)) /\ Len(b) <= Len(buffer)
  BY <1>2, TrailsTaken DEF Going
<1>4. Len(b) <= MaxLine
  <2>1. Len(b) \in Nat /\ Len(buffer) \in Nat /\ MaxLine \in Nat /\ Len(buffer) <= MaxLine
    BY <1>1, ClientAssumption DEF Going
  <2> QED
    BY <1>3, <2>1
<1>5. ASSUME NEW x \in Seq(Alphabet)
      PROVE  LinesOf(Cat(buffer, x)) = IF a = <<>> THEN LinesOf(Cat(b, x)) ELSE Cat(<<a>>, LinesOf(Cat(b, x)))
  BY LineTaken
<1>6. ASSUME NEW x \in Seq(Alphabet)
      PROVE  /\ Len(LinesOf(Cat(b, x))) \in Nat
             /\ Len(events) + Len(LinesOf(Cat(buffer, x))) = Len(v) + Len(LinesOf(Cat(b, x)))
             /\ Cat(events, LinesOf(Cat(buffer, x))) = Cat(v, LinesOf(Cat(b, x)))
  <2> DEFINE T == Seq(Alphabet)
             l == LinesOf(Cat(b, x))
  <2>1. a \in T /\ events \in Seq(T) /\ l \in Seq(T)
    BY <1>1, <1>6, SomeLines, CatSize
  <2>2. LinesOf(Cat(buffer, x)) = IF a = <<>> THEN l ELSE Cat(<<a>>, l)
    BY <1>5, <1>6
  <2> HIDE DEF T, l, a
  <2>3. Len(l) \in Nat /\ Len(events) \in Nat
    BY <2>1
  <2>4. CASE a = <<>>
    BY <2>2, <2>3, <2>4 DEF WithLine, l
  <2>5. CASE a # <<>>
    <3>1. v = Append(events, a) /\ LinesOf(Cat(buffer, x)) = Cat(<<a>>, l)
      BY <2>2, <2>5 DEF WithLine
    <3>2. Append(events, a) = Cat(events, <<a>>) /\ <<a>> \in Seq(T) /\ Len(<<a>>) = 1
      BY <2>1 DEF Cat
    <3>3. Len(Cat(<<a>>, l)) = 1 + Len(l) /\ Len(Append(events, a)) = Len(events) + 1
      BY <2>1, <3>2, CatSize, ZenonT(60)
    <3>4. Cat(Cat(events, <<a>>), l) = Cat(events, Cat(<<a>>, l))
      BY <2>1, <3>2, AppendedThen
    <3>5. Cat(events, LinesOf(Cat(buffer, x))) = Cat(v, l)
      BY <3>1, <3>2, <3>4
    <3>6. Len(events) + Len(LinesOf(Cat(buffer, x))) = Len(v) + Len(l)
      <4>1. Len(v) = Len(events) + 1
        BY <3>1, <3>3
      <4>2. Len(LinesOf(Cat(buffer, x))) = 1 + Len(l)
        BY <3>1, <3>3
      <4> HIDE DEF v
      <4> QED
        BY <2>3, <4>1, <4>2
    <3> QED
      BY <2>3, <3>5, <3>6 DEF l
  <2> QED
    BY <2>4, <2>5
<1>7. LinesCounted(body, v, b, rest)
  <2>1. Len(LinesOf(Decoded(body))) = Len(events) + Len(LinesOf(Cat(buffer, d)))
    BY DEF Going, LinesCounted
  <2> HIDE DEF v, b, d
  <2>2. Len(events) + Len(LinesOf(Cat(buffer, d))) = Len(v) + Len(LinesOf(Cat(b, d)))
    BY <1>2, <1>6
  <2> QED
    BY <2>1, <2>2 DEF LinesCounted, d
<1>8. ASSUME ~torn PROVE Exact(body, v, b, rest)
  <2>1. Exact(body, events, buffer, rest)
    BY <1>8 DEF Going
  <2> DEFINE w == Decoded(AheadText(rest))
  <2>2. w \in Seq(Alphabet)
    <3>1. AheadText(rest) \in Seq(Alphabet)
      BY <1>2, UnitsTyped, CatSize DEF AheadText
    <3> QED
      BY <3>1, SpellTyped
  <2>3. LinesOf(Decoded(body)) = Cat(events, LinesOf(Cat(HeldText(buffer, rest), w)))
    BY <2>1 DEF Exact
  <2>4. CASE ~HalfFirst(rest)
    <3> HIDE DEF v, b, w, rest
    <3>1. HeldText(buffer, rest) = buffer /\ HeldText(b, rest) = b
      BY <2>4 DEF HeldText
    <3>2. Cat(events, LinesOf(Cat(buffer, w))) = Cat(v, LinesOf(Cat(b, w)))
      BY <1>6, <2>2
    <3> QED
      BY <2>3, <2>4, <3>1, <3>2 DEF Exact, w
  <2>5. CASE HalfFirst(rest)
    <3> DEFINE x == SubSeq(buffer, 1, Len(buffer) - 1)
               y == SubSeq(b, 1, Len(b) - 1)
    <3>1. EndsHalf(buffer)
      BY <2>1, <2>5 DEF Exact
    <3>2. /\ EndsHalf(b) /\ x \in Seq(Alphabet) /\ ~NoEnd(x) /\ FirstLine(x) = a /\ AfterLine(x) = y
      BY <3>1, HalfTaken
    <3>3. HeldText(buffer, rest) = x /\ HeldText(b, rest) = y
      BY <2>5 DEF HeldText
    <3> HIDE DEF x, y, w
    <3>4. /\ y \in Seq(Alphabet)
          /\ LinesOf(Cat(x, w)) = IF a = <<>> THEN LinesOf(Cat(y, w)) ELSE Cat(<<a>>, LinesOf(Cat(y, w)))
      BY <2>2, <3>2, LineTaken
    <3> DEFINE T == Seq(Alphabet)
               l == LinesOf(Cat(y, w))
    <3>5. a \in T /\ events \in Seq(T) /\ l \in Seq(T)
      BY <1>1, <2>2, <3>4, SomeLines, CatSize
    <3>6. LinesOf(Cat(x, w)) = IF a = <<>> THEN l ELSE Cat(<<a>>, l)
      BY <3>4
    <3> HIDE DEF T, l, a
    <3>7. Cat(events, LinesOf(Cat(x, w))) = Cat(v, l)
      <4>1. CASE a = <<>>
        BY <3>6, <4>1 DEF WithLine
      <4>2. CASE a # <<>>
        <5>1. v = Append(events, a) /\ LinesOf(Cat(x, w)) = Cat(<<a>>, l)
          BY <3>6, <4>2 DEF WithLine
        <5>2. Append(events, a) = Cat(events, <<a>>) /\ <<a>> \in Seq(T)
          BY <3>5 DEF Cat
        <5>3. Cat(Cat(events, <<a>>), l) = Cat(events, Cat(<<a>>, l))
          BY <3>5, AppendedThen
        <5> QED
          BY <5>1, <5>2, <5>3
      <4> QED
        BY <4>1, <4>2
    <3> HIDE DEF v, b
    <3> QED
      BY <2>3, <3>2, <3>3, <3>7 DEF Exact, w, l
  <2> QED
    BY <2>4, <2>5
<1> QED
  BY <1>3, <1>4, <1>7, <1>8 DEF Going

\* While a body is read the events so far are the first of those sent.
LEMMA ToldSoFar ==
    ASSUME NEW body \in Seq(Alphabet), InPairs(body), NEW read \in 0 .. Len(body), NEW torn \in BOOLEAN,
           NEW buffer \in Seq(Alphabet), NEW events \in Seq(Seq(Alphabet)),
           Going(body, read, torn, buffer, events)
    PROVE  Told(body, torn, events)
<1> DEFINE rest == UnreadPart(body, read)
           d == Decoded(rest)
           sent == LinesOf(Decoded(body))
           T == Seq(Alphabet)
<1>1. rest \in Seq(Alphabet) /\ d \in Seq(Alphabet)
  BY BodyParts, SpellTyped
<1>2. Cat(buffer, d) \in Seq(Alphabet)
  BY <1>1, CatSize
<1>3. Len(LinesOf(Cat(buffer, d))) \in Nat
  BY <1>2, SomeLines
<1>4. Len(sent) = Len(events) + Len(LinesOf(Cat(buffer, d)))
  BY DEF Going, LinesCounted
<1>5. Len(events) \in Nat
  OBVIOUS
<1>6. ASSUME ~torn PROVE \A i \in DOMAIN events : events[i] = sent[i]
  <2> DEFINE l == LinesOf(Cat(HeldText(buffer, rest), Decoded(AheadText(rest))))
  <2>1. sent = Cat(events, l) /\ (HalfFirst(rest) => EndsHalf(buffer))
    BY <1>6 DEF Going, Exact
  <2>2. AheadText(rest) \in Seq(Alphabet)
    BY <1>1, UnitsTyped, CatSize DEF AheadText
  <2>3. HeldText(buffer, rest) \in Seq(Alphabet)
    <3>1. HalfFirst(rest) => Len(buffer) - 1 \in 0 .. Len(buffer)
      BY <2>1 DEF EndsHalf
    <3>2. HalfFirst(rest) => SubSeq(buffer, 1, Len(buffer) - 1) \in Seq(Alphabet)
      BY <3>1, Beginnings
    <3> QED
      BY <3>2 DEF HeldText
  <2>4. Cat(HeldText(buffer, rest), Decoded(AheadText(rest))) \in Seq(Alphabet)
    BY <2>2, <2>3, SpellTyped, CatSize
  <2>5. l \in Seq(T) /\ events \in Seq(T)
    BY <2>4, SomeLines
  <2> HIDE DEF l, T
  <2>6. \A i \in 1 .. Len(events) : Cat(events, l)[i] = events[i]
    BY <2>5, CatBefore
  <2>7. DOMAIN events = 1 .. Len(events)
    BY <2>5
  <2> QED
    BY <2>1, <2>6, <2>7
<1> HIDE DEF sent
<1>7. Len(events) <= Len(sent)
  BY <1>3, <1>4, <1>5
<1> QED
  BY <1>6, <1>7 DEF Told, sent

\* At the end of the body the buffer's line, if it has one, is the last.
LEMMA BodyOver ==
    ASSUME NEW body \in Seq(Alphabet), InPairs(body), NEW torn \in BOOLEAN,
           NEW buffer \in Seq(Alphabet), NEW events \in Seq(Seq(Alphabet)), NoEnd(buffer),
           Going(body, Len(body), torn, buffer, events)
    PROVE  /\ Told(body, torn, WithLine(events, buffer))
           /\ Len(WithLine(events, buffer)) = Len(LinesOf(Decoded(body)))
<1> DEFINE v == WithLine(events, buffer)
           sent == LinesOf(Decoded(body))
           T == Seq(Alphabet)
           l == LinesOf(buffer)
<1>1. Len(body) \in 0 .. Len(body) /\ Len(body) \in Nat
  OBVIOUS
<1>2. UnreadPart(body, Len(body)) = <<>>
  <2>1. SubSeq(body, Len(body) + 1, Len(body)) = <<>>
    BY <1>1
  <2> QED
    BY <2>1 DEF UnreadPart
<1>3. Decoded(<<>>) = <<>> /\ Cat(buffer, <<>>) = buffer
  BY UnitsSpelt, CatSize
<1>4. ~HalfFirst(<<>>)
  BY DEF HalfFirst
<1>5. Len(sent) = Len(events) + Len(l)
  BY <1>2, <1>3 DEF Going, LinesCounted
<1>6. ~torn => sent = Cat(events, l)
  BY <1>2, <1>3, <1>4 DEF Going, Exact, HeldText, AheadText
<1>7. l = IF buffer = <<>> THEN <<>> ELSE <<buffer>>
  BY OneLine
<1>8. events \in Seq(T) /\ buffer \in T
  OBVIOUS
<1> HIDE DEF T, l, sent
<1>9. Len(events) \in Nat /\ Cat(events, <<>>) = events
  BY <1>8, CatSize
<1>10. v \in Seq(T) /\ Len(v) = Len(sent) /\ (~torn => sent = v)
  <2>1. CASE buffer = <<>>
    <3>1. l = <<>> /\ v = events /\ Len(<<>>) = 0
      BY <1>7, <2>1 DEF WithLine
    <3> QED
      BY <1>5, <1>6, <1>8, <1>9, <3>1
  <2>2. CASE buffer # <<>>
    <3>1. l = <<buffer>> /\ v = Append(events, buffer) /\ Len(<<buffer>>) = 1
      BY <1>7, <2>2 DEF WithLine
    <3>2. /\ Append(events, buffer) \in Seq(T) /\ Len(Append(events, buffer)) = Len(events) + 1
          /\ Append(events, buffer) = Cat(events, <<buffer>>)
      BY <1>8 DEF Cat
    <3> QED
      BY <1>5, <1>6, <3>1, <3>2
  <2> QED
    BY <2>1, <2>2
<1> HIDE DEF v
<1>11. Len(v) <= Len(sent)
  <2>1. Len(v) \in Nat
    BY <1>10
  <2> QED
    BY <1>10, <2>1
<1> QED
  BY <1>10, <1>11 DEF Told, sent, v

\* A buffer that has grown beyond the limit holds a line that is long.
LEMMA TooLong ==
    ASSUME NEW body, WellFramed(body), NEW read \in Nat, NEW n \in 1 .. MaxRead,
           read + n <= Len(body), NEW torn \in BOOLEAN, NEW buffer \in Seq(Alphabet), NEW events,
           NoEnd(buffer), Going(body, read, torn, buffer, events),
           NEW r, r = SubSeq(body, read + 1, read + n), Len(Cat(buffer, Decoded(r))) > MaxLine
    PROVE  \E line \in Range(LinesOf(body)) : Len(line) + MaxRead > MaxLine
<1>1. body \in Seq(Alphabet) /\ InPairs(body) /\ read \in 0 .. Len(body) /\ Len(body) \in Nat \ {0}
  BY DEF WellFramed
<1>2. n \in Nat \ {0} /\ n <= MaxRead /\ MaxRead \in Nat /\ MaxLine \in Nat
  BY ClientAssumption
<1>3. r \in Seq(Alphabet) /\ Len(r) = n
  BY <1>1, <1>2, NextRead
<1>4. /\ Decoded(r) \in Seq(Alphabet) /\ Len(Decoded(r)) <= n
  BY <1>3, SpellTyped
<1>5. /\ Len(Cat(buffer, Decoded(r))) = Len(buffer) + Len(Decoded(r))
      /\ Len(buffer) \in Nat /\ Len(Decoded(r)) \in Nat
  BY <1>4, CatSize
<1>6. Len(buffer) + MaxRead > MaxLine
  BY <1>2, <1>4, <1>5
<1> DEFINE y == ReadPart(body, read)
<1>7. y \in Seq(Alphabet) /\ Len(y) = read /\ \A i \in 1 .. read : y[i] = body[i]
  BY <1>1, BodyParts
<1>8. Len(buffer) <= Len(y) /\ \A k \in Len(y) - Len(buffer) + 1 .. Len(y) : y[k] # End
  <2>1. Trails(buffer, y)
    BY DEF Going
  <2> HIDE DEF y
  <2> QED
    BY <1>7, <2>1, TrailsFree
<1> HIDE DEF y
<1>9. CASE buffer = <<>>
  <2>1. body # <<>>
    BY <1>1
  <2>2. PICK k \in 1 .. Len(body) : body[k] # End
    BY <2>1 DEF WellFramed
  <2>3. k \in k .. Len(body) /\ \A j \in k .. k : body[j] # End
    BY <2>2
  <2>4. PICK line \in Range(LinesOf(body)) : line \in Seq(Alphabet) /\ Len(line) >= k - k + 1
    BY <1>1, <2>3, LongLine
  <2>5. Len(line) + MaxRead > MaxLine
    <3>1. Len(line) \in Nat
      BY <2>4
    <3>2. Len(<<>>) = 0 /\ k \in Nat
      OBVIOUS
    <3> QED
      BY <1>2, <1>6, <1>9, <2>4, <3>1, <3>2
  <2> QED
    BY <2>4, <2>5
<1>10. CASE buffer # <<>>
  <2> DEFINE a == read - Len(buffer) + 1
  <2>1. Len(buffer) # 0
    BY <1>10
  <2>2. a \in 1 .. Len(body) /\ read \in a .. Len(body)
    BY <1>1, <1>5, <1>7, <1>8, <2>1
  <2>3. \A k \in a .. read : body[k] # End
    <3> SUFFICES ASSUME NEW k \in a .. read PROVE body[k] # End
      OBVIOUS
    <3>1. k \in 1 .. read /\ k \in Len(y) - Len(buffer) + 1 .. Len(y)
      BY <1>7, <2>2
    <3> QED
      BY <1>7, <1>8, <3>1
  <2>4. read - a + 1 = Len(buffer)
    BY <1>5
  <2> HIDE DEF a
  <2>5. PICK line \in Range(LinesOf(body)) : line \in Seq(Alphabet) /\ Len(line) >= read - a + 1
    BY <1>1, <2>2, <2>3, LongLine
  <2>6. Len(line) \in Nat /\ Len(line) >= Len(buffer)
    BY <2>4, <2>5
  <2>7. Len(line) + MaxRead > MaxLine
    BY <1>2, <1>5, <1>6, <2>6
  <2> QED
    BY <2>5, <2>7
<1> QED
  BY <1>9, <1>10

\* How a call may end.
StreamEndings ==
    {"none", "aborted", "whole", "line too long", "syntax error", "PROTOCOL_INVALID_EVENT",
     "connection lost"}

\* The calls there may be.
StreamRecords ==
    [kind : {"client"}, body : Seq(Alphabet), read : Nat, torn : BOOLEAN, buffer : Seq(Alphabet),
     events : Seq(Seq(Alphabet)), aborted : BOOLEAN, ending : StreamEndings]

\* What is known of a call, however it ends.
CutOK(c) ==
    /\ WellFramed(c.body) /\ c.read <= Len(c.body)
    /\ Told(c.body, c.torn, c.events)
    /\ c.ending = "whole" => Len(c.events) = Len(LinesOf(Decoded(c.body)))
    /\ c.ending = "line too long" => \E line \in Range(LinesOf(c.body)) : Len(line) + MaxRead > MaxLine
    /\ \A i \in DOMAIN c.events : Len(c.events[i]) <= MaxLine
    /\ c.ending = "none" => Going(c.body, c.read, c.torn, c.buffer, c.events)

\* One more line among short ones.
LEMMA WithShort ==
    ASSUME NEW events \in Seq(Seq(Alphabet)), NEW a \in Seq(Alphabet), NEW max, Len(a) <= max,
           \A i \in DOMAIN events : Len(events[i]) <= max
    PROVE  /\ WithLine(events, a) \in Seq(Seq(Alphabet))
           /\ \A i \in DOMAIN WithLine(events, a) : Len(WithLine(events, a)[i]) <= max
<1>1. CASE a = <<>>
  BY <1>1 DEF WithLine
<1>2. CASE a # <<>>
  <2> DEFINE v == Append(events, a)
  <2>1. Len(events) \in Nat /\ DOMAIN events = 1 .. Len(events)
    OBVIOUS
  <2>2. /\ v \in Seq(Seq(Alphabet)) /\ DOMAIN v = 1 .. Len(events) + 1
        /\ \A i \in 1 .. Len(events) : v[i] = events[i]
        /\ v[Len(events) + 1] = a
    OBVIOUS
  <2> HIDE DEF v
  <2>3. ASSUME NEW i \in 1 .. Len(events) + 1 PROVE Len(v[i]) <= max
    <3>1. CASE i \in 1 .. Len(events)
      BY <2>1, <2>2, <3>1
    <3>2. CASE i = Len(events) + 1
      BY <2>2, <3>2
    <3> QED
      BY <2>1, <2>3, <3>1, <3>2
  <2>4. WithLine(events, a) = v
    BY <1>2 DEF WithLine, v
  <2> QED
    BY <2>2, <2>3, <2>4
<1> QED
  BY <1>1, <1>2

\* A read of the socket: it goes on, or the limit is reached.
ReadOf(body, read, n, r) ==
    n \in 1 .. MaxRead /\ read + n <= Len(body) /\ r = SubSeq(body, read + 1, read + n)

\* The values after it.
LEMMA ReadValues ==
    ASSUME NEW body, WellFramed(body), NEW read \in Nat, NEW torn \in BOOLEAN, NEW buffer \in Seq(Alphabet),
           NEW events \in Seq(Seq(Alphabet)), Going(body, read, torn, buffer, events), LineEnds(buffer) = {},
           Told(body, torn, events), NEW n, NEW r, ReadOf(body, read, n, r), NEW now, TornBy(torn, r, now),
           NEW u, u = Cat(buffer, Decoded(r))
    PROVE  /\ Len(r) = n /\ read + n \in Nat /\ u \in Seq(Alphabet)
           /\ Told(body, now, events) /\ now \in BOOLEAN
           /\ Len(u) > MaxLine => \E line \in Range(LinesOf(body)) : Len(line) + MaxRead > MaxLine
           /\ ~(Len(u) > MaxLine) => Going(body, read + n, now, u, events)
<1>1. body \in Seq(Alphabet) /\ InPairs(body) /\ Len(body) \in Nat
  BY DEF WellFramed
<1>2. /\ n \in Nat \ {0} /\ n \in 1 .. MaxRead /\ MaxLine \in Nat /\ read + n <= Len(body)
      /\ r = SubSeq(body, read + 1, read + n)
  BY ClientAssumption DEF ReadOf
<1>10. now \in BOOLEAN /\ (now <=> torn \/ r[1] = Tail1)
  BY DEF TornBy
<1>3. r \in Seq(Alphabet) /\ Len(r) = n
  BY <1>1, <1>2, NextRead
<1>4. u \in Seq(Alphabet) /\ Len(u) \in Nat
  BY <1>3, SpellTyped, CatSize
<1>5. Told(body, now, events)
  BY <1>10 DEF Told
<1>6. NoEnd(buffer)
  BY DEF LineEnds, NoEnd
<1>7. Len(u) > MaxLine => \E line \in Range(LinesOf(body)) : Len(line) + MaxRead > MaxLine
  BY <1>2, <1>6, TooLong
<1>8. ASSUME ~(Len(u) > MaxLine) PROVE Going(body, read + n, now, u, events)
  <2>1. Len(u) <= MaxLine
    BY <1>2, <1>4, <1>8
  <2> QED
    BY <1>1, <1>2, <1>10, <2>1, ReadStep
<1> QED
  BY <1>2, <1>3, <1>4, <1>5, <1>7, <1>8, <1>10

\* A line from the buffer.
LEMMA LineValues ==
    ASSUME NEW body, WellFramed(body), NEW read \in Nat, read <= Len(body), NEW torn \in BOOLEAN,
           NEW buffer \in Seq(Alphabet), NEW events \in Seq(Seq(Alphabet)),
           Going(body, read, torn, buffer, events), LineEnds(buffer) # {},
           \A i \in DOMAIN events : Len(events[i]) <= MaxLine,
           NEW v, v = WithLine(events, FirstLine(buffer))
    PROVE  /\ AfterLine(buffer) \in Seq(Alphabet) /\ v \in Seq(Seq(Alphabet))
           /\ Going(body, read, torn, AfterLine(buffer), v) /\ Told(body, torn, v)
           /\ \A i \in DOMAIN v : Len(v[i]) <= MaxLine
<1> DEFINE a == FirstLine(buffer)
           b == AfterLine(buffer)
           w == Cat(LineEnd, b)
<1>1. body \in Seq(Alphabet) /\ InPairs(body) /\ read \in 0 .. Len(body)
  BY DEF WellFramed
<1>2. ~NoEnd(buffer)
  BY DEF LineEnds, NoEnd
<1>3. a \in Seq(Alphabet) /\ b \in Seq(Alphabet) /\ buffer = Cat(a, w)
  BY <1>2, LineTaken, UnitsTyped
<1>4. Going(body, read, torn, b, v)
  BY <1>1, <1>2, TakeStep
<1>5. w \in Seq(Alphabet)
  BY <1>3, UnitsTyped, CatSize
<1> HIDE DEF a, b, w
<1>6. v = WithLine(events, a)
  BY DEF a
<1>7. Len(a) <= MaxLine
  <2>1. Len(Cat(a, w)) = Len(a) + Len(w) /\ Len(a) \in Nat /\ Len(w) \in Nat
    BY <1>3, <1>5, CatSize
  <2>2. Len(buffer) <= MaxLine /\ MaxLine \in Nat
    BY ClientAssumption DEF Going
  <2> QED
    BY <1>3, <2>1, <2>2
<1>8. v \in Seq(Seq(Alphabet)) /\ \A i \in DOMAIN v : Len(v[i]) <= MaxLine
  BY <1>3, <1>6, <1>7, WithShort
<1>9. Told(body, torn, v)
  BY <1>1, <1>3, <1>4, <1>8, ToldSoFar
<1> QED
  BY <1>3, <1>4, <1>8, <1>9 DEF b

\* Every call that is reached is such a call.
ClientInv == Streamed => scenario \in StreamRecords /\ CutOK(scenario)

\* What the fields of a call are.
LEMMA CallFields ==
    ASSUME NEW c \in StreamRecords, CutOK(c)
    PROVE  /\ c.kind = "client" /\ c.body \in Seq(Alphabet) /\ c.read \in Nat /\ c.torn \in BOOLEAN
           /\ c.buffer \in Seq(Alphabet) /\ c.events \in Seq(Seq(Alphabet)) /\ c.aborted \in BOOLEAN
           /\ WellFramed(c.body) /\ c.read <= Len(c.body)
           /\ Told(c.body, c.torn, c.events)
           /\ \A i \in DOMAIN c.events : Len(c.events[i]) <= MaxLine
           /\ c.ending = "none" => Going(c.body, c.read, c.torn, c.buffer, c.events)
<1>1. /\ c.kind = "client" /\ c.body \in Seq(Alphabet) /\ c.read \in Nat /\ c.torn \in BOOLEAN
      /\ c.buffer \in Seq(Alphabet) /\ c.events \in Seq(Seq(Alphabet)) /\ c.aborted \in BOOLEAN
  BY DEF StreamRecords
<1> QED
  BY <1>1 DEF CutOK

\* A call's record.
ClientCall(body, read, torn, buffer, events, aborted, ending) ==
    [kind |-> "client", body |-> body, read |-> read, torn |-> torn, buffer |-> buffer,
     events |-> events, aborted |-> aborted, ending |-> ending]

\* A step of a call that goes on or ends.
LEMMA CallMade ==
    ASSUME NEW body \in Seq(Alphabet), NEW read \in Nat, NEW torn \in BOOLEAN, NEW buffer \in Seq(Alphabet),
           NEW events \in Seq(Seq(Alphabet)), NEW aborted \in BOOLEAN, NEW ending \in StreamEndings,
           WellFramed(body), read <= Len(body), Told(body, torn, events),
           ending = "whole" => Len(events) = Len(LinesOf(Decoded(body))),
           ending = "line too long" => \E line \in Range(LinesOf(body)) : Len(line) + MaxRead > MaxLine,
           \A i \in DOMAIN events : Len(events[i]) <= MaxLine,
           ending = "none" => Going(body, read, torn, buffer, events)
    PROVE  /\ ClientCall(body, read, torn, buffer, events, aborted, ending) \in StreamRecords
           /\ CutOK(ClientCall(body, read, torn, buffer, events, aborted, ending))
<1> DEFINE e == ClientCall(body, read, torn, buffer, events, aborted, ending)
<1>1. e \in StreamRecords
  BY DEF StreamRecords, ClientCall
<1>2. /\ e.body = body /\ e.read = read /\ e.torn = torn /\ e.buffer = buffer /\ e.events = events
      /\ e.ending = ending
  BY DEF ClientCall
<1> HIDE DEF e
<1>3. CutOK(e)
  BY <1>2 DEF CutOK
<1> QED
  BY <1>1, <1>3 DEF e

\* A call begins.
LEMMA CallAsked == Request => ClientInv'
<1> SUFFICES ASSUME Request PROVE ClientInv'
  OBVIOUS
<1>1. PICK body \in Bodies, aborted \in BOOLEAN :
        scenario' = ClientCall(body, 0, FALSE, <<>>, <<>>, aborted, IF aborted THEN "aborted" ELSE "none")
  BY DEF Request, ClientCall
<1> DEFINE ending == IF aborted THEN "aborted" ELSE "none"
<1>2. WellFramed(body) /\ body \in Seq(Alphabet) /\ InPairs(body) /\ Len(body) \in Nat
  BY <1>1, WellFramedBodies DEF WellFramed
<1> DEFINE none == <<>>
           e == scenario'
<1>3. Going(body, 0, FALSE, none, none)
  BY <1>2, Begun
<1>4. /\ none \in Seq(Alphabet) /\ none \in Seq(Seq(Alphabet)) /\ 0 \in Nat /\ 0 <= Len(body)
      /\ 0 \in 0 .. Len(body) /\ FALSE \in BOOLEAN
  BY <1>2
<1>5. Told(body, FALSE, none)
  BY <1>2, <1>3, <1>4, ToldSoFar
<1>6. ending \in StreamEndings /\ ending # "whole" /\ ending # "line too long"
  BY DEF StreamEndings
<1>7. e = ClientCall(body, 0, FALSE, none, none, aborted, ending)
  BY <1>1
<1>8. \A i \in DOMAIN none : Len(none[i]) <= MaxLine
  OBVIOUS
<1> HIDE DEF ending, none, e
<1>9. e \in StreamRecords /\ CutOK(e)
  BY <1>1, <1>2, <1>3, <1>4, <1>5, <1>6, <1>7, <1>8, CallMade
<1> QED
  BY <1>9 DEF ClientInv, e

\* A call that is under way.
LEMMA UnderWay ==
    ASSUME ClientInv, Connected
    PROVE  scenario \in StreamRecords /\ CutOK(scenario) /\ scenario.ending = "none"
  BY DEF ClientInv, Connected, Streamed

\* A read of the socket, with every way it may end.
LEMMA ReadHeld == ClientInv /\ ReadSocket => ClientInv'
<1> SUFFICES ASSUME ClientInv, ReadSocket PROVE ClientInv'
  OBVIOUS
<1> DEFINE c == scenario
<1>1. c \in StreamRecords /\ CutOK(c) /\ c.ending = "none" /\ LineEnds(c.buffer) = {}
  BY UnderWay DEF ReadSocket, Waiting
<1>2. PICK n \in 1 .. MaxRead : c.read + n <= Len(c.body)
                                /\ scenario' = Receive(SubSeq(c.body, c.read + 1, c.read + n))
  BY DEF ReadSocket
<1> DEFINE r == SubSeq(c.body, c.read + 1, c.read + n)
           u == Cat(c.buffer, Decoded(r))
           ending == IF Len(u) > MaxLine THEN "line too long" ELSE "none"
           e == scenario'
<1>3. e = [c EXCEPT !.read = @ + Len(r), !.buffer = u, !.torn = @ \/ r[1] = Tail1, !.ending = ending]
  BY <1>1, <1>2 DEF Receive, Cat
<1>4. /\ c.kind = "client" /\ c.body \in Seq(Alphabet) /\ c.read \in Nat /\ c.torn \in BOOLEAN
      /\ c.buffer \in Seq(Alphabet) /\ c.events \in Seq(Seq(Alphabet)) /\ c.aborted \in BOOLEAN
      /\ WellFramed(c.body) /\ Told(c.body, c.torn, c.events)
      /\ \A i \in DOMAIN c.events : Len(c.events[i]) <= MaxLine
      /\ Going(c.body, c.read, c.torn, c.buffer, c.events)
  BY <1>1, CallFields
<1>13. ReadOf(c.body, c.read, n, r) /\ u = Cat(c.buffer, Decoded(r))
  BY <1>2 DEF ReadOf
<1> HIDE DEF r, u, ending
<1>14. LineEnds(c.buffer) = {}
  BY <1>1
<1> HIDE DEF c
<1>5. PICK now \in BOOLEAN : TornBy(c.torn, r, now)
  BY DEF TornBy
<1>6. (c.torn \/ r[1] = Tail1) = now
  BY <1>4, <1>5, Zenon DEF TornBy
<1>7. e = [c EXCEPT !.read = @ + Len(r), !.buffer = u, !.torn = now, !.ending = ending]
  BY <1>3, <1>6, Zenon
<1>8. e = ClientCall(c.body, c.read + Len(r), now, u, c.events, c.aborted, ending)
  BY <1>1, <1>7 DEF StreamRecords, ClientCall
<1>9. /\ Len(r) = n /\ c.read + n \in Nat /\ u \in Seq(Alphabet)
      /\ Told(c.body, now, c.events)
      /\ Len(u) > MaxLine => \E line \in Range(LinesOf(c.body)) : Len(line) + MaxRead > MaxLine
      /\ ~(Len(u) > MaxLine) => Going(c.body, c.read + n, now, u, c.events)
  BY <1>4, <1>5, <1>13, <1>14, ReadValues
<1>10. ending \in StreamEndings /\ ending # "whole" /\ (ending = "none" => ~(Len(u) > MaxLine))
       /\ (ending = "line too long" => Len(u) > MaxLine)
  BY DEF StreamEndings, ending
<1> DEFINE read == c.read + n
<1>11. e = ClientCall(c.body, read, now, u, c.events, c.aborted, ending)
       /\ read \in Nat /\ read <= Len(c.body)
  BY <1>2, <1>8, <1>9
<1>15. ending = "none" => Going(c.body, read, now, u, c.events)
  BY <1>9, <1>10
<1>16. ending = "line too long" => \E line \in Range(LinesOf(c.body)) : Len(line) + MaxRead > MaxLine
  BY <1>9, <1>10
<1> HIDE DEF read, e
<1>12. e \in StreamRecords /\ CutOK(e)
  BY <1>4, <1>5, <1>9, <1>10, <1>11, <1>15, <1>16, CallMade, ZenonT(60)
<1> QED
  BY <1>12 DEF ClientInv, e

\* A line of the buffer: an event, an error, or nothing.
LEMMA LineHeld == ClientInv /\ TakeLine => ClientInv'
<1> SUFFICES ASSUME ClientInv, TakeLine PROVE ClientInv'
  OBVIOUS
<1> DEFINE c == scenario
           a == FirstLine(c.buffer)
           b == AfterLine(c.buffer)
           v == WithLine(c.events, a)
           e == scenario'
<1>1. c \in StreamRecords /\ CutOK(c) /\ c.ending = "none" /\ LineEnds(c.buffer) # {}
  BY UnderWay DEF TakeLine, Waiting
<1>2. scenario' = IF a = <<>> THEN [c EXCEPT !.buffer = b] ELSE [Deliverable(a) EXCEPT !.buffer = b]
  BY DEF TakeLine, FirstLine, AfterLine
<1>3. /\ c.kind = "client" /\ c.body \in Seq(Alphabet) /\ c.read \in Nat /\ c.torn \in BOOLEAN
      /\ c.buffer \in Seq(Alphabet) /\ c.events \in Seq(Seq(Alphabet)) /\ c.aborted \in BOOLEAN
      /\ WellFramed(c.body) /\ c.read <= Len(c.body) /\ Told(c.body, c.torn, c.events)
      /\ \A i \in DOMAIN c.events : Len(c.events[i]) <= MaxLine
      /\ Going(c.body, c.read, c.torn, c.buffer, c.events)
  BY <1>1, CallFields
<1>4. /\ b \in Seq(Alphabet) /\ v \in Seq(Seq(Alphabet))
      /\ Going(c.body, c.read, c.torn, b, v) /\ Told(c.body, c.torn, v)
      /\ \A i \in DOMAIN v : Len(v[i]) <= MaxLine
  BY <1>1, <1>3, LineValues
<1>5. \/ e = [c EXCEPT !.buffer = b, !.events = v]
      \/ \E ending \in {"syntax error", "PROTOCOL_INVALID_EVENT"} : e = [c EXCEPT !.buffer = b, !.ending = ending]
  <2>1. c = [c EXCEPT !.events = c.events]
    BY <1>1 DEF StreamRecords
  <2> HIDE DEF a, b
  <2>2. CASE a = <<>>
    <3>1. v = c.events /\ e = [c EXCEPT !.buffer = b]
      BY <1>2, <2>2 DEF WithLine
    <3> HIDE DEF v, e
    <3>2. e = [c EXCEPT !.buffer = b, !.events = c.events]
      BY <1>1, <3>1 DEF StreamRecords
    <3> QED
      BY <3>1, <3>2 DEF e
  <2>3. CASE a # <<>>
    <3>1. v = Append(c.events, a) /\ e = [Deliverable(a) EXCEPT !.buffer = b]
      BY <1>2, <2>3 DEF WithLine
    <3> HIDE DEF v, e
    <3>2. \/ Deliverable(a) = [c EXCEPT !.ending = "syntax error"]
          \/ Deliverable(a) = [c EXCEPT !.ending = "PROTOCOL_INVALID_EVENT"]
          \/ Deliverable(a) = [c EXCEPT !.events = v]
      BY <3>1 DEF Deliverable
    <3>3. CASE Deliverable(a) = [c EXCEPT !.ending = "syntax error"]
      BY <1>1, <3>1, <3>3 DEF StreamRecords, e
    <3>4. CASE Deliverable(a) = [c EXCEPT !.ending = "PROTOCOL_INVALID_EVENT"]
      BY <1>1, <3>1, <3>4 DEF StreamRecords, e
    <3>5. CASE Deliverable(a) = [c EXCEPT !.events = v]
      BY <1>1, <3>1, <3>5 DEF StreamRecords, e
    <3> QED
      BY <3>2, <3>3, <3>4, <3>5
  <2> QED
    BY <2>2, <2>3
<1> HIDE DEF a, b, v
<1>6. e \in StreamRecords /\ CutOK(e)
  <2>1. CASE e = [c EXCEPT !.buffer = b, !.events = v]
    <3>1. e = ClientCall(c.body, c.read, c.torn, b, v, c.aborted, "none")
      BY <1>1, <2>1 DEF StreamRecords, ClientCall
    <3>2. "none" \in StreamEndings /\ "none" # "whole" /\ "none" # "line too long"
      BY DEF StreamEndings
    <3> HIDE DEF c, e
    <3> QED
      BY <1>3, <1>4, <3>1, <3>2, CallMade
  <2>2. CASE \E ending \in {"syntax error", "PROTOCOL_INVALID_EVENT"} : e = [c EXCEPT !.buffer = b, !.ending = ending]
    <3>1. PICK ending \in {"syntax error", "PROTOCOL_INVALID_EVENT"} : e = [c EXCEPT !.buffer = b, !.ending = ending]
      BY <2>2
    <3>2. e = ClientCall(c.body, c.read, c.torn, b, c.events, c.aborted, ending)
      BY <1>1, <3>1 DEF StreamRecords, ClientCall
    <3>3. ending \in StreamEndings /\ ending # "whole" /\ ending # "line too long" /\ ending # "none"
      BY <3>1 DEF StreamEndings
    <3> HIDE DEF c, e
    <3> QED
      BY <1>3, <1>4, <3>2, <3>3, CallMade
  <2> QED
    BY <1>5, <2>1, <2>2
<1> QED
  BY <1>6 DEF ClientInv

\* The end of the body.
LEMMA OverHeld == ClientInv /\ BodyEnds => ClientInv'
<1> SUFFICES ASSUME ClientInv, BodyEnds PROVE ClientInv'
  OBVIOUS
<1> DEFINE c == scenario
           v == WithLine(c.events, c.buffer)
           e == scenario'
           last == IF c.buffer = <<>> THEN c ELSE Deliverable(c.buffer)
<1>1. /\ c \in StreamRecords /\ CutOK(c) /\ c.ending = "none" /\ LineEnds(c.buffer) = {}
      /\ c.read = Len(c.body)
  BY UnderWay DEF BodyEnds, Waiting
<1>2. e = [last EXCEPT !.buffer = <<>>, !.ending = IF @ = "none" THEN "whole" ELSE @]
  BY DEF BodyEnds
<1>3. /\ c.kind = "client" /\ c.body \in Seq(Alphabet) /\ c.read \in Nat /\ c.torn \in BOOLEAN
      /\ c.buffer \in Seq(Alphabet) /\ c.events \in Seq(Seq(Alphabet)) /\ c.aborted \in BOOLEAN
      /\ WellFramed(c.body) /\ InPairs(c.body) /\ c.read <= Len(c.body) /\ Told(c.body, c.torn, c.events)
      /\ \A i \in DOMAIN c.events : Len(c.events[i]) <= MaxLine
      /\ Going(c.body, c.read, c.torn, c.buffer, c.events)
  BY <1>1, CallFields DEF WellFramed
<1>4. NoEnd(c.buffer)
  BY <1>1 DEF LineEnds, NoEnd
<1>5. Told(c.body, c.torn, v) /\ Len(v) = Len(LinesOf(Decoded(c.body)))
  BY <1>1, <1>3, <1>4, BodyOver
<1>6. v \in Seq(Seq(Alphabet)) /\ \A i \in DOMAIN v : Len(v[i]) <= MaxLine
  BY <1>3, WithShort DEF Going
<1>7. \/ e = [c EXCEPT !.buffer = <<>>, !.events = v, !.ending = "whole"]
      \/ \E ending \in {"syntax error", "PROTOCOL_INVALID_EVENT"} : e = [c EXCEPT !.buffer = <<>>, !.ending = ending]
  <2>1. \/ last = c /\ v = c.events
        \/ last = [c EXCEPT !.ending = "syntax error"]
        \/ last = [c EXCEPT !.ending = "PROTOCOL_INVALID_EVENT"]
        \/ last = [c EXCEPT !.events = v]
    BY DEF Deliverable, WithLine
  <2> HIDE DEF last, v, e
  <2>2. CASE last = c /\ v = c.events
    BY <1>1, <1>2, <2>2 DEF StreamRecords
  <2>3. CASE last = [c EXCEPT !.ending = "syntax error"]
    BY <1>1, <1>2, <2>3 DEF StreamRecords
  <2>4. CASE last = [c EXCEPT !.ending = "PROTOCOL_INVALID_EVENT"]
    BY <1>1, <1>2, <2>4 DEF StreamRecords
  <2>5. CASE last = [c EXCEPT !.events = v]
    BY <1>1, <1>2, <2>5 DEF StreamRecords
  <2> QED
    BY <2>1, <2>2, <2>3, <2>4, <2>5
<1> HIDE DEF v, last
<1>8. <<>> \in Seq(Alphabet)
  OBVIOUS
<1>9. e \in StreamRecords /\ CutOK(e)
  <2>1. CASE e = [c EXCEPT !.buffer = <<>>, !.events = v, !.ending = "whole"]
    <3>1. e = ClientCall(c.body, c.read, c.torn, <<>>, v, c.aborted, "whole")
      BY <1>1, <2>1 DEF StreamRecords, ClientCall
    <3>2. "whole" \in StreamEndings /\ "whole" # "none" /\ "whole" # "line too long"
      BY DEF StreamEndings
    <3> HIDE DEF c, e
    <3> QED
      BY <1>3, <1>5, <1>6, <1>8, <3>1, <3>2, CallMade
  <2>2. CASE \E ending \in {"syntax error", "PROTOCOL_INVALID_EVENT"} : e = [c EXCEPT !.buffer = <<>>, !.ending = ending]
    <3>1. PICK ending \in {"syntax error", "PROTOCOL_INVALID_EVENT"} : e = [c EXCEPT !.buffer = <<>>, !.ending = ending]
      BY <2>2
    <3>2. e = ClientCall(c.body, c.read, c.torn, <<>>, c.events, c.aborted, ending)
      BY <1>1, <3>1 DEF StreamRecords, ClientCall
    <3>3. ending \in StreamEndings /\ ending # "whole" /\ ending # "line too long" /\ ending # "none"
      BY <3>1 DEF StreamEndings
    <3> HIDE DEF c, e
    <3> QED
      BY <1>3, <1>8, <3>2, <3>3, CallMade
  <2> QED
    BY <1>7, <2>1, <2>2
<1> QED
  BY <1>9 DEF ClientInv

\* The caller aborts, or the connection is lost.
LEMMA OthersHeld == ClientInv /\ (AbortCall \/ ConnectionLost) => ClientInv'
<1> SUFFICES ASSUME ClientInv, AbortCall \/ ConnectionLost PROVE ClientInv'
  OBVIOUS
<1> DEFINE c == scenario
           e == scenario'
<1>1. c \in StreamRecords /\ CutOK(c) /\ c.ending = "none"
  BY UnderWay DEF AbortCall, ConnectionLost, Waiting
<1>2. /\ c.kind = "client" /\ c.body \in Seq(Alphabet) /\ c.read \in Nat /\ c.torn \in BOOLEAN
      /\ c.buffer \in Seq(Alphabet) /\ c.events \in Seq(Seq(Alphabet)) /\ c.aborted \in BOOLEAN
      /\ WellFramed(c.body) /\ c.read <= Len(c.body) /\ Told(c.body, c.torn, c.events)
      /\ \A i \in DOMAIN c.events : Len(c.events[i]) <= MaxLine
      /\ Going(c.body, c.read, c.torn, c.buffer, c.events)
  BY <1>1, CallFields
<1>3. \E aborted \in BOOLEAN, ending \in {"none", "aborted", "connection lost"} :
        e = ClientCall(c.body, c.read, c.torn, c.buffer, c.events, aborted, ending)
  <2>1. CASE AbortCall
    <3>1. e = [c EXCEPT !.aborted = TRUE]
      BY <2>1 DEF AbortCall
    <3>2. e = ClientCall(c.body, c.read, c.torn, c.buffer, c.events, TRUE, "none")
      BY <1>1, <3>1 DEF StreamRecords, ClientCall
    <3> QED
      BY <3>2
  <2>2. CASE ConnectionLost
    <3> DEFINE ending == IF c.aborted THEN "aborted" ELSE "connection lost"
    <3>1. e = [c EXCEPT !.ending = ending]
      BY <2>2 DEF ConnectionLost
    <3>2. ending \in {"none", "aborted", "connection lost"}
      OBVIOUS
    <3> HIDE DEF ending
    <3>3. e = ClientCall(c.body, c.read, c.torn, c.buffer, c.events, c.aborted, ending)
      BY <1>1, <3>1 DEF StreamRecords, ClientCall
    <3> QED
      BY <1>2, <3>2, <3>3
  <2> QED
    BY <2>1, <2>2
<1>4. PICK aborted \in BOOLEAN, ending \in {"none", "aborted", "connection lost"} :
        e = ClientCall(c.body, c.read, c.torn, c.buffer, c.events, aborted, ending)
  BY <1>3
<1>5. ending \in StreamEndings /\ ending # "whole" /\ ending # "line too long"
  BY DEF StreamEndings
<1> HIDE DEF c, e
<1>6. e \in StreamRecords /\ CutOK(e)
  BY <1>2, <1>4, <1>5, CallMade, ZenonT(60)
<1> QED
  BY <1>6 DEF ClientInv, e

\* A client's calls, with any steps of other cases.
ClientNext == Request \/ ReadSocket \/ TakeLine \/ BodyEnds \/ AbortCall \/ ConnectionLost
ClientSpec == Init /\ [][ClientNext \/ Elsewhere("client")]_scenario

\* It is an invariant of the steps of the client with any of other cases.
LEMMA ClientInvariant == ClientSpec => []ClientInv
<1>1. Init => ClientInv
  BY DEF Init, Idle, ClientInv, Streamed
<1>2. ClientInv /\ [ClientNext \/ Elsewhere("client")]_scenario => ClientInv'
  <2>1. ClientInv /\ Elsewhere("client") => ClientInv'
    BY DEF Elsewhere, ClientInv, Streamed
  <2>2. ClientInv /\ UNCHANGED scenario => ClientInv'
    BY DEF ClientInv, Streamed
  <2> QED
    BY <2>1, <2>2, CallAsked, ReadHeld, LineHeld, OverHeld, OthersHeld DEF ClientNext
<1> QED
  BY <1>1, <1>2, PTL DEF ClientSpec

\* What the caller of every such call is told, and when the limit falls.
LEMMA ClientPart == ClientSpec => [](EventsAsSent /\ LimitForLines)
<1>1. ClientInv => EventsAsSent /\ LimitForLines
  <2> SUFFICES ASSUME ClientInv, Streamed PROVE EventsAsSent /\ LimitForLines
    BY DEF EventsAsSent, LimitForLines
  <2>1. CutOK(scenario)
    BY DEF ClientInv
  <2>2. EventsAsSent
    BY <2>1 DEF CutOK, Told, EventsAsSent
  <2>3. LimitForLines
    BY <2>1 DEF CutOK, LimitForLines
  <2> QED
    BY <2>2, <2>3
<1> QED
  BY <1>1, ClientInvariant, PTL
=============================================================================

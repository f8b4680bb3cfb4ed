--------------------------- MODULE Labels_proofs ---------------------------
(* Proofs about Labels, for any configurations, expressions and messages. *)
EXTENDS Labels, FiniteSetTheorems, WellFoundedInduction, TLAPS

-----------------------------------------------------------------------------
(* Flattened sequences *)

\* Induction up to n, for the members of a set.
LEMMA Reaches ==
  ASSUME NEW n \in Nat, NEW T, 0 \in T, \A i \in 0 .. n - 1 : i \in T => i + 1 \in T
  PROVE  \A i \in 0 .. n : i \in T
<1> DEFINE U == {i \in 0 .. n : i \notin T}
<1> SUFFICES ASSUME U # {} PROVE FALSE
  OBVIOUS
<1>1. U \in SUBSET Nat
  OBVIOUS
<1>2. PICK m \in U : \A k \in U : ~(<<k, m>> \in OpToRel(<, Nat))
  BY <1>1, NatLessThanWellFounded, WFMin
<1>3. \A k \in U : ~(k < m)
  BY <1>1, <1>2 DEF OpToRel
<1>4. m \in 0 .. n /\ m \notin T /\ m # 0
  OBVIOUS
<1>5. m - 1 \in 0 .. n - 1 /\ m - 1 \notin U
  BY <1>3, <1>4
<1>6. m - 1 \in T /\ m = (m - 1) + 1
  BY <1>4, <1>5
<1> QED BY <1>4, <1>5, <1>6

\* The pieces of s one after the other, as FlattenSeq of SequencesExt computes them.
Concatenations(s, n, f) == f = [i \in 1 .. n |-> IF i = 1 THEN s[i] ELSE f[i - 1] \o s[i]]

\* The recursion has a solution.
LEMMA ConcatenationsExist == ASSUME NEW S, NEW s \in Seq(Seq(S)) PROVE \E f : Concatenations(s, Len(s), f)
<1> DEFINE T == {n \in 0 .. Len(s) : \E f : Concatenations(s, n, f)}
<1>1. 0 \in T
  <2>1. Concatenations(s, 0, <<>>)
    BY DEF Concatenations
  <2> QED BY <2>1
<1>2. ASSUME NEW n \in 0 .. Len(s) - 1, n \in T PROVE n + 1 \in T
  <2>1. PICK f : Concatenations(s, n, f)
    BY <1>2
  <2> DEFINE g == [i \in 1 .. n + 1 |-> IF i = 1 THEN s[i] ELSE f[i - 1] \o s[i]]
  <2>2. ASSUME NEW i \in 1 .. n PROVE g[i] = f[i]
    <3>1. g[i] = IF i = 1 THEN s[i] ELSE f[i - 1] \o s[i]
      OBVIOUS
    <3> HIDE DEF g
    <3> QED BY <2>1, <3>1 DEF Concatenations
  <2>3. \A i \in 1 .. n + 1 : i # 1 => i - 1 \in 1 .. n
    OBVIOUS
  <2>4. Concatenations(s, n + 1, g)
    <3>1. \A i \in 1 .. n + 1 : i # 1 => g[i - 1] = f[i - 1]
      BY <2>2, <2>3
    <3> QED BY <3>1 DEF Concatenations
  <2>5. n + 1 \in 0 .. Len(s)
    OBVIOUS
  <2> QED BY <2>4, <2>5
<1> HIDE DEF T
<1>3. Len(s) \in Nat
  OBVIOUS
<1>4. \A i \in 0 .. Len(s) : i \in T
  BY <1>1, <1>2, <1>3, Reaches
<1> QED BY <1>3, <1>4 DEF T

\* Where the pieces of s begin in t: piece i after the first off[i - 1] elements.
Offsets(s, off) ==
  /\ off \in [0 .. Len(s) -> Nat] /\ off[0] = 0
  /\ \A i \in 0 .. Len(s) - 1 : off[i + 1] = off[i] + Len(s[i + 1])
Pieces(s, off, t) ==
  Offsets(s, off) /\ Len(t) = off[Len(s)] /\ \A i \in 1 .. Len(s) : \A p \in 1 .. Len(s[i]) : t[off[i - 1] + p] = s[i][p]

\* Later pieces begin later.
LEMMA OffsetsGrow ==
  ASSUME NEW s, Len(s) \in Nat, \A i \in 1 .. Len(s) : Len(s[i]) \in Nat, NEW off, Offsets(s, off),
         NEW k \in 0 .. Len(s)
  PROVE  \A i \in 0 .. k : off[i] <= off[k]
<1> DEFINE T == {n \in 0 .. Len(s) : \A i \in 0 .. n : off[i] <= off[n]}
<1>0. off \in [0 .. Len(s) -> Nat] /\ \A i \in 0 .. Len(s) - 1 : off[i + 1] = off[i] + Len(s[i + 1])
  BY DEF Offsets
<1>1. 0 \in T
  BY <1>0
<1>2. ASSUME NEW n \in 0 .. Len(s) - 1, n \in T PROVE n + 1 \in T
  <2>1. n + 1 \in 1 .. Len(s) /\ n \in 0 .. Len(s) /\ (n + 1) - 1 = n
    OBVIOUS
  <2>2. off[n + 1] = off[n] + Len(s[n + 1]) /\ off[n] \in Nat /\ off[n + 1] \in Nat /\ Len(s[n + 1]) \in Nat
    BY <1>0, <2>1
  <2>3. ASSUME NEW i \in 0 .. n + 1 PROVE off[i] <= off[n + 1]
    <3>1. CASE i \in 0 .. n
      <4>0. \A j \in 0 .. n : off[j] <= off[n]
        BY <1>2
      <4>1. off[i] \in Nat /\ off[i] <= off[n]
        BY <1>0, <2>1, <3>1, <4>0
      <4> QED BY <2>2, <4>1
    <3>2. CASE i = n + 1
      BY <2>2, <3>2
    <3> QED BY <3>1, <3>2
  <2> QED BY <2>1, <2>3
<1> HIDE DEF T
<1>3. \A i \in 0 .. Len(s) : i \in T
  BY <1>1, <1>2, Reaches
<1> QED BY <1>3 DEF T

\* Every position lies in a piece.
LEMMA Located ==
  ASSUME NEW s, Len(s) \in Nat, \A i \in 1 .. Len(s) : Len(s[i]) \in Nat, NEW off, Offsets(s, off),
         NEW q \in 1 .. off[Len(s)]
  PROVE  \E i \in 1 .. Len(s) : \E p \in 1 .. Len(s[i]) : q = off[i - 1] + p
<1> DEFINE T == {n \in 0 .. Len(s) : off[n] < q}
<1>0. /\ off \in [0 .. Len(s) -> Nat] /\ off[0] = 0
      /\ \A i \in 0 .. Len(s) - 1 : off[i + 1] = off[i] + Len(s[i + 1])
  BY DEF Offsets
<1> SUFFICES ASSUME \A i \in 1 .. Len(s) : \A p \in 1 .. Len(s[i]) : q # off[i - 1] + p PROVE FALSE
  OBVIOUS
<1>q. q \in Nat /\ q >= 1
  BY <1>0
<1>1. 0 \in T
  BY <1>0, <1>q
<1>2. ASSUME NEW n \in 0 .. Len(s) - 1, n \in T PROVE n + 1 \in T
  <2>1. n + 1 \in 1 .. Len(s) /\ n \in 0 .. Len(s) /\ (n + 1) - 1 = n
    OBVIOUS
  <2>2. off[n + 1] = off[n] + Len(s[n + 1]) /\ off[n] \in Nat /\ off[n + 1] \in Nat /\ Len(s[n + 1]) \in Nat
    BY <1>0, <2>1
  <2>3. off[n] < q
    BY <1>2
  <2>4. ASSUME q <= off[n + 1] PROVE FALSE
    <3>1. q - off[n] \in 1 .. Len(s[n + 1]) /\ q = off[n] + (q - off[n])
      BY <1>q, <2>2, <2>3, <2>4
    <3> QED BY <2>1, <3>1
  <2> QED BY <1>q, <2>1, <2>2, <2>4
<1> HIDE DEF T
<1>3. \A i \in 0 .. Len(s) : i \in T
  BY <1>1, <1>2, Reaches
<1>4. off[Len(s)] < q /\ off[Len(s)] \in Nat
  BY <1>0, <1>3 DEF T
<1> QED BY <1>4, <1>q

\* Two pieces one after the other.
LEMMA Joint ==
  ASSUME NEW S, NEW x, NEW y, NEW z, x \in Seq(S), y \in Seq(S), z = x \o y
  PROVE  /\ z \in Seq(S) /\ Len(z) = Len(x) + Len(y) /\ Len(x) \in Nat /\ Len(y) \in Nat
         /\ \A q \in 1 .. Len(x) : q \in 1 .. Len(z) /\ z[q] = x[q]
         /\ \A p \in 1 .. Len(y) : Len(x) + p \in 1 .. Len(z) /\ z[Len(x) + p] = y[p]
OBVIOUS

\* FlattenSeq(s) is the last of the prefixes.
LEMMA LastPrefix ==
  ASSUME NEW S, NEW s \in Seq(Seq(S)), Len(s) # 0
  PROVE  \E g : /\ FlattenSeq(s) = g[Len(s)] /\ g[1] = s[1]
                /\ \A i \in 1 .. Len(s) - 1 : g[i + 1] = g[i] \o s[i + 1]
<1> DEFINE g == CHOOSE f : Concatenations(s, Len(s), f)
           h == CHOOSE f : f = [i \in 1 .. Len(s) |-> IF i = 1 THEN s[i] ELSE f[i - 1] \o s[i]]
<1>0. Len(s) \in Nat
  OBVIOUS
<1>1. Concatenations(s, Len(s), g)
  BY ConcatenationsExist
<1>2. g = h
  BY DEF Concatenations
<1>3. FlattenSeq(s) = g[Len(s)]
  <2>1. FlattenSeq(s) = h[Len(s)]
    BY DEF FlattenSeq
  <2> QED BY <1>2, <2>1
<1> HIDE DEF g, h
<1>4. \A i \in 1 .. Len(s) : g[i] = IF i = 1 THEN s[i] ELSE g[i - 1] \o s[i]
  BY <1>1 DEF Concatenations
<1>5. g[1] = s[1]
  <2>1. 1 \in 1 .. Len(s)
    BY <1>0
  <2> QED BY <1>4, <2>1
<1>6. ASSUME NEW i \in 1 .. Len(s) - 1 PROVE g[i + 1] = g[i] \o s[i + 1]
  <2>1. i + 1 \in 1 .. Len(s) /\ i + 1 # 1 /\ (i + 1) - 1 = i
    BY <1>0
  <2> DEFINE j == i + 1
  <2>2. j \in 1 .. Len(s) /\ j # 1 /\ j - 1 = i
    BY <2>1
  <2> HIDE DEF j
  <2>3. g[j] = g[i] \o s[j]
    BY <1>4, <2>2
  <2> QED BY <2>3 DEF j
<1> QED BY <1>3, <1>5, <1>6

\* The pieces of the last of a row of prefixes.
LEMMA PiecesOfLast ==
  ASSUME NEW S, NEW s, Len(s) \in Nat \ {0}, \A i \in 1 .. Len(s) : s[i] \in Seq(S) /\ Len(s[i]) \in Nat,
         NEW g, g[1] = s[1], \A i \in 1 .. Len(s) - 1 : g[i + 1] = g[i] \o s[i + 1]
  PROVE  g[Len(s)] \in Seq(S) /\ \E off : Pieces(s, off, g[Len(s)])
<1>0. /\ Len(s) \in Nat /\ Len(s) # 0 /\ \A i \in 1 .. Len(s) : s[i] \in Seq(S) /\ Len(s[i]) \in Nat
      /\ g[1] = s[1] /\ \A i \in 1 .. Len(s) - 1 : g[i + 1] = g[i] \o s[i + 1]
  OBVIOUS
<1> DEFINE off == [i \in 0 .. Len(s) |-> IF i = 0 THEN 0 ELSE Len(g[i])]
           Up(n) == /\ g[n] \in Seq(S)
                    /\ n = 1 => off[n] = Len(s[n])
                    /\ n # 1 => off[n] = off[n - 1] + Len(s[n])
                    /\ \A i \in 1 .. n : \A p \in 1 .. Len(s[i]) :
                         off[i - 1] + p \in 1 .. off[n] /\ g[n][off[i - 1] + p] = s[i][p]
           T == {n \in 0 .. Len(s) : n # 0 => Up(n)}
<1>1. 0 \in T
  OBVIOUS
<1>2. ASSUME NEW n \in 0 .. Len(s) - 1, n \in T PROVE n + 1 \in T
  <2>1. n + 1 \in 1 .. Len(s) /\ (n + 1) - 1 = n /\ n \in 0 .. Len(s) /\ s[n + 1] \in Seq(S)
    BY <1>0
  <2>2. CASE n = 0
    <3>1. g[1] = s[1] /\ off[1] = Len(s[1]) /\ off[0] = 0 /\ s[1] \in Seq(S)
      BY <1>0, <2>1, <2>2
    <3>2. \A i \in 1 .. 1 : \A p \in 1 .. Len(s[i]) :
            off[i - 1] + p \in 1 .. off[1] /\ g[1][off[i - 1] + p] = s[i][p]
      <4> HIDE DEF off
      <4> QED BY <3>1
    <3> HIDE DEF off
    <3> QED BY <2>1, <2>2, <3>1, <3>2
  <2>3. CASE n # 0
    <3>1. Up(n)
      BY <1>2, <2>3
    <3>2. g[n + 1] = g[n] \o s[n + 1] /\ n + 1 # 1
      <4>1. n \in 1 .. Len(s) - 1
        BY <1>0, <2>3
      <4>2. g[n + 1] = g[n] \o s[n + 1]
        BY <1>0, <4>1, Zenon
      <4> QED BY <2>3, <4>2
    <3>3. off[n] = Len(g[n]) /\ off[n + 1] = Len(g[n + 1])
      BY <2>1, <2>3
    <3> HIDE DEF off
    <3>4. ASSUME NEW x, NEW y, NEW z, x = g[n], y = s[n + 1], z = g[n + 1]
          PROVE  /\ z \in Seq(S) /\ off[n + 1] = off[n] + Len(y)
                 /\ off[n] \in Nat /\ off[n + 1] \in Nat /\ Len(y) \in Nat
                 /\ \A q \in 1 .. off[n] : q \in 1 .. off[n + 1] /\ z[q] = x[q]
                 /\ \A p \in 1 .. Len(y) : off[n] + p \in 1 .. off[n + 1] /\ z[off[n] + p] = y[p]
      <4>1. x \in Seq(S) /\ y \in Seq(S) /\ z = x \o y /\ off[n] = Len(x) /\ off[n + 1] = Len(z)
        BY <2>1, <3>1, <3>2, <3>3, <3>4, Zenon
      <4>2. /\ z \in Seq(S) /\ Len(z) = Len(x) + Len(y) /\ Len(x) \in Nat /\ Len(y) \in Nat
            /\ \A q \in 1 .. Len(x) : q \in 1 .. Len(z) /\ z[q] = x[q]
            /\ \A p \in 1 .. Len(y) : Len(x) + p \in 1 .. Len(z) /\ z[Len(x) + p] = y[p]
        BY <4>1, Joint
      <4>3. off[n] = Len(x) /\ off[n + 1] = Len(z)
        BY <4>1
      <4> QED BY <4>2, <4>3
    <3>5. ASSUME NEW i \in 1 .. n + 1, NEW p \in 1 .. Len(s[i])
          PROVE  off[i - 1] + p \in 1 .. off[n + 1] /\ g[n + 1][off[i - 1] + p] = s[i][p]
      <4>1. CASE i \in 1 .. n
        <5>1. off[i - 1] + p \in 1 .. off[n] /\ g[n][off[i - 1] + p] = s[i][p]
          BY <3>1, <4>1
        <5>2. \A q \in 1 .. off[n] : q \in 1 .. off[n + 1] /\ g[n + 1][q] = g[n][q]
          BY <3>4
        <5> QED BY <5>1, <5>2, Zenon
      <4>2. CASE i = n + 1
        <5>1. i - 1 = n /\ p \in 1 .. Len(s[n + 1])
          BY <4>2
        <5>2. \A m \in 1 .. Len(s[n + 1]) :
                off[n] + m \in 1 .. off[n + 1] /\ g[n + 1][off[n] + m] = s[n + 1][m]
          BY <3>4
        <5> QED BY <4>2, <5>1, <5>2, Zenon
      <4> QED BY <4>1, <4>2
    <3>6. Up(n + 1)
      <4>1. off[(n + 1) - 1] = off[n]
        BY <2>1
      <4>2. g[n + 1] \in Seq(S) /\ off[n + 1] = off[n] + Len(s[n + 1])
        BY <3>4, Zenon
      <4> QED BY <3>2, <3>5, <4>1, <4>2
    <3> HIDE DEF Up
    <3> QED BY <2>1, <3>6
  <2> QED BY <2>2, <2>3
<1> HIDE DEF T
<1>3. \A i \in 0 .. Len(s) : i \in T
  BY <1>0, <1>1, <1>2, Reaches
<1>4. \A i \in 1 .. Len(s) : Up(i)
  <2> HIDE DEF Up
  <2> QED BY <1>0, <1>3 DEF T
<1>5. off \in [0 .. Len(s) -> Nat] /\ off[0] = 0 /\ off[Len(s)] = Len(g[Len(s)])
  BY <1>0, <1>4
<1> HIDE DEF off
<1>6. \A i \in 0 .. Len(s) - 1 : off[i + 1] = off[i] + Len(s[i + 1])
  <2> SUFFICES ASSUME NEW i \in 0 .. Len(s) - 1 PROVE off[i + 1] = off[i] + Len(s[i + 1])
    OBVIOUS
  <2>1. i + 1 \in 1 .. Len(s) /\ (i + 1) - 1 = i
    BY <1>0
  <2>2. CASE i = 0
    BY <1>0, <1>4, <1>5, <2>1, <2>2
  <2>3. CASE i # 0
    BY <1>0, <1>4, <2>1, <2>3
  <2> QED BY <2>2, <2>3
<1>7. Up(Len(s))
  <2>1. Len(s) \in 1 .. Len(s)
    BY <1>0
  <2> HIDE DEF Up
  <2> QED BY <1>4, <2>1
<1>8. Pieces(s, off, g[Len(s)])
  BY <1>0, <1>5, <1>6, <1>7 DEF Pieces, Offsets
<1> QED BY <1>0, <1>7, <1>8

\* What FlattenSeq makes of the pieces, for every sequence of sequences.
LEMMA Flattened ==
  ASSUME NEW S, NEW s \in Seq(Seq(S))
  PROVE  FlattenSeq(s) \in Seq(S) /\ \E off : Pieces(s, off, FlattenSeq(s))
<1>0. Len(s) \in Nat /\ \A i \in 1 .. Len(s) : s[i] \in Seq(S) /\ Len(s[i]) \in Nat
  OBVIOUS
<1>1. CASE Len(s) = 0
  <2>1. s = <<>> /\ FlattenSeq(s) = <<>>
    BY <1>1 DEF FlattenSeq
  <2>2. Pieces(s, [i \in {0} |-> 0], <<>>)
    BY <2>1 DEF Pieces, Offsets
  <2> QED BY <2>1, <2>2
<1>2. CASE Len(s) # 0
  <2>1. PICK g : /\ FlattenSeq(s) = g[Len(s)] /\ g[1] = s[1]
                 /\ \A i \in 1 .. Len(s) - 1 : g[i + 1] = g[i] \o s[i + 1]
    BY <1>2, LastPrefix
  <2>2. Len(s) \in Nat \ {0}
    BY <1>0, <1>2
  <2> QED BY <1>0, <2>1, <2>2, PiecesOfLast
<1> QED BY <1>0, <1>1, <1>2

\* Pieces of length 1 lie next to each other.
Ones(s, a, m) == \A p \in 1 .. m : Len(s[a + p]) = 1
LEMMA Run ==
  ASSUME NEW s, Len(s) \in Nat, NEW off, Offsets(s, off), NEW a \in Nat, NEW m \in Nat, a + m <= Len(s),
         Ones(s, a, m)
  PROVE  \A p \in 0 .. m : off[a + p] = off[a] + p
<1> DEFINE T == {p \in 0 .. m : off[a + p] = off[a] + p}
<1>0. off \in [0 .. Len(s) -> Nat] /\ \A i \in 0 .. Len(s) - 1 : off[i + 1] = off[i] + Len(s[i + 1])
  BY DEF Offsets
<1>1. 0 \in T
  <2>1. a + 0 = a /\ off[a] \in Nat
    BY <1>0
  <2> QED BY <2>1
<1>2. ASSUME NEW p \in 0 .. m - 1, p \in T PROVE p + 1 \in T
  <2> DEFINE b == a + p
  <2>1. b \in 0 .. Len(s) - 1 /\ a + (p + 1) = b + 1 /\ p + 1 \in 1 .. m
    OBVIOUS
  <2>2. off[b] = off[a] + p /\ off[a] \in Nat
    <3>1. off[a + p] = off[a] + p
      BY <1>2
    <3>2. a \in 0 .. Len(s)
      OBVIOUS
    <3> QED BY <1>0, <3>1, <3>2, Zenon
  <2> HIDE DEF b
  <2>3. off[b + 1] = off[b] + Len(s[b + 1])
    BY <1>0, <2>1
  <2>4. Len(s[b + 1]) = 1
    <3>1. Len(s[a + (p + 1)]) = 1
      BY <2>1 DEF Ones
    <3> QED BY <2>1, <3>1, Zenon
  <2>5. off[a + (p + 1)] = off[a] + (p + 1)
    <3>1. off[b + 1] = off[a] + (p + 1)
      BY <2>2, <2>3, <2>4
    <3> QED BY <2>1, <3>1, Zenon
  <2> QED BY <2>1, <2>5
<1> HIDE DEF T
<1>3. \A i \in 0 .. m : i \in T
  BY <1>1, <1>2, Reaches
<1> QED BY <1>3 DEF T

\* Two texts made of pieces are the same text if Q has a piece for each element of t, and these are,
\* for each piece of P, either the one piece of R or the elements of a piece that R has too.
SamePieceAt(P, off, Q, R, j) ==
  \/ Len(P[j]) = 1 /\ Q[off[j - 1] + 1] = R[j]
  \/ R[j] = P[j] /\ \A p \in 1 .. Len(P[j]) : Len(Q[off[j - 1] + p]) = 1 /\ Q[off[j - 1] + p][1] = P[j][p]
SamePieces(P, off, Q, R) == \A j \in 1 .. Len(P) : SamePieceAt(P, off, Q, R, j)
Lengths(P) == \A j \in 1 .. Len(P) : Len(P[j]) \in Nat
LEMMA SameOffsets ==
  ASSUME NEW P, Len(P) \in Nat, NEW R, Len(R) = Len(P), NEW off, Offsets(P, off),
         NEW Q, Len(Q) = off[Len(P)], NEW offQ, Offsets(Q, offQ), NEW offR, Offsets(R, offR),
         Lengths(P), SamePieces(P, off, Q, R)
  PROVE  \A j \in 0 .. Len(P) : offQ[off[j]] = offR[j]
<1> DEFINE T == {j \in 0 .. Len(P) : offQ[off[j]] = offR[j]}
<1> USE DEF Lengths
<1>0. /\ off \in [0 .. Len(P) -> Nat] /\ off[0] = 0 /\ \A i \in 0 .. Len(P) - 1 : off[i + 1] = off[i] + Len(P[i + 1])
      /\ offR \in [0 .. Len(P) -> Nat] /\ offR[0] = 0 /\ \A i \in 0 .. Len(P) - 1 : offR[i + 1] = offR[i] + Len(R[i + 1])
      /\ offQ \in [0 .. off[Len(P)] -> Nat] /\ offQ[0] = 0
      /\ \A i \in 0 .. off[Len(P)] - 1 : offQ[i + 1] = offQ[i] + Len(Q[i + 1])
  BY DEF Offsets
<1>1. 0 \in T
  BY <1>0
<1>2. ASSUME NEW j \in 0 .. Len(P) - 1, j \in T PROVE j + 1 \in T
  <2>1. j + 1 \in 1 .. Len(P) /\ (j + 1) - 1 = j /\ j \in 0 .. Len(P) /\ Len(P) \in 0 .. Len(P) /\ j + 1 \in 0 .. Len(P)
    OBVIOUS
  <2>2. off[j + 1] = off[j] + Len(P[j + 1]) /\ offR[j + 1] = offR[j] + Len(R[j + 1]) /\ offQ[off[j]] = offR[j]
        /\ off[j] \in Nat /\ Len(P[j + 1]) \in Nat /\ off[j + 1] \in Nat /\ offR[j] \in Nat
    <3>1. off[j + 1] = off[j] + Len(P[j + 1]) /\ offR[j + 1] = offR[j] + Len(R[j + 1])
      BY <1>0
    <3>2. offQ[off[j]] = offR[j]
      BY <1>2
    <3>3. off[j] \in Nat /\ off[j + 1] \in Nat /\ offR[j] \in Nat
      BY <1>0, <2>1, Zenon
    <3>4. Len(P[j + 1]) \in Nat
      BY <2>1
    <3> QED BY <3>1, <3>2, <3>3, <3>4
  <2>3. off[j + 1] <= off[Len(P)]
    BY <2>1, OffsetsGrow
  <2>4. CASE Len(P[j + 1]) = 1 /\ Q[off[j] + 1] = R[j + 1]
    <3>1. off[j] \in 0 .. off[Len(P)] - 1 /\ off[j + 1] = off[j] + 1
      BY <1>0, <2>1, <2>2, <2>3, <2>4
    <3>2. offQ[off[j] + 1] = offQ[off[j]] + Len(Q[off[j] + 1])
      BY <1>0, <3>1
    <3>3. offQ[off[j + 1]] = offR[j + 1]
      BY <2>2, <2>4, <3>1, <3>2
    <3> QED BY <2>1, <3>3
  <2>5. CASE R[j + 1] = P[j + 1] /\ \A p \in 1 .. Len(P[j + 1]) : Len(Q[off[j] + p]) = 1
    <3> DEFINE m == Len(P[j + 1])
    <3>1. m \in Nat /\ off[j] + m = off[j + 1] /\ off[j] + m <= Len(Q) /\ Len(Q) \in Nat
      BY <1>0, <2>1, <2>2, <2>3
    <3>2. \A p \in 0 .. m : offQ[off[j] + p] = offQ[off[j]] + p
      <4>1. \A p \in 1 .. m : Len(Q[off[j] + p]) = 1
        BY <2>5
      <4> DEFINE a == off[j]
      <4>2. a \in Nat /\ \A p \in 1 .. m : Len(Q[a + p]) = 1
        BY <2>2, <4>1
      <4>3. a + m <= Len(Q)
        BY <3>1
      <4> HIDE DEF m, a
      <4>4. m \in Nat /\ Len(Q) \in Nat /\ Offsets(Q, offQ)
        BY <3>1
      <4>5. \A p \in 0 .. m : offQ[a + p] = offQ[a] + p
        <5>1. a \in Nat /\ Ones(Q, a, m)
          BY <4>2 DEF Ones
        <5> QED BY <4>3, <4>4, <5>1, Run
      <4> QED BY <4>5 DEF a
    <3>3. m \in 0 .. m
      BY <3>1
    <3>4. offQ[off[j] + m] = offQ[off[j]] + m
      BY <3>2, <3>3
    <3>5. offQ[off[j + 1]] = offR[j + 1]
      BY <2>2, <2>5, <3>1, <3>4
    <3> QED BY <2>1, <3>5
  <2>6. \/ Len(P[j + 1]) = 1 /\ Q[off[j] + 1] = R[j + 1]
        \/ R[j + 1] = P[j + 1] /\ \A p \in 1 .. Len(P[j + 1]) : Len(Q[off[j] + p]) = 1
    <3>1. \A k \in 1 .. Len(P), i \in 0 .. Len(P) - 1 : k - 1 = i =>
             \/ Len(P[k]) = 1 /\ Q[off[i] + 1] = R[k]
             \/ R[k] = P[k] /\ \A p \in 1 .. Len(P[k]) : Len(Q[off[i] + p]) = 1
      BY DEF SamePieces, SamePieceAt
    <3> QED BY <2>1, <3>1
  <2> QED BY <2>4, <2>5, <2>6
<1> HIDE DEF T
<1>3. \A i \in 0 .. Len(P) : i \in T
  BY <1>1, <1>2, Reaches
<1> QED BY <1>3 DEF T

LEMMA SameText ==
  ASSUME NEW P, Len(P) \in Nat, NEW R, Len(R) = Len(P), NEW off, Offsets(P, off),
         NEW Q, Len(Q) = off[Len(P)], NEW offQ, NEW offR, NEW S, NEW u \in Seq(S), NEW v \in Seq(S),
         Pieces(Q, offQ, u), Pieces(R, offR, v),
         \A j \in 1 .. Len(P) : Len(P[j]) \in Nat /\ Len(R[j]) \in Nat, SamePieces(P, off, Q, R)
  PROVE  u = v
<1>0. Offsets(Q, offQ) /\ Offsets(R, offR) /\ Len(u) = offQ[Len(Q)] /\ Len(v) = offR[Len(R)]
  BY DEF Pieces
<1>1. /\ off \in [0 .. Len(P) -> Nat] /\ offR \in [0 .. Len(P) -> Nat] /\ offQ \in [0 .. off[Len(P)] -> Nat]
      /\ \A i \in 0 .. Len(P) - 1 : off[i + 1] = off[i] + Len(P[i + 1])
  BY <1>0 DEF Offsets
<1>2. \A j \in 0 .. Len(P) : offQ[off[j]] = offR[j]
  <2>1. Lengths(P)
    BY DEF Lengths
  <2> QED BY <1>0, <2>1, SameOffsets
<1>3. Len(P) \in 0 .. Len(P) /\ Len(Q) \in Nat
  BY <1>1
<1>4. Len(u) = Len(v)
  BY <1>0, <1>2, <1>3
<1>5. ASSUME NEW q \in 1 .. Len(v) PROVE u[q] = v[q]
  <2>1. PICK j \in 1 .. Len(P) : \E p \in 1 .. Len(R[j]) : q = offR[j - 1] + p
    <3>1. q \in 1 .. offR[Len(R)] /\ Len(R) \in Nat /\ \A k \in 1 .. Len(R) : Len(R[k]) \in Nat
      BY <1>0
    <3> QED BY <1>0, <3>1, Located
  <2>2. PICK p \in 1 .. Len(R[j]) : q = offR[j - 1] + p
    BY <2>1
  <2>3. v[q] = R[j][p]
    BY <2>2 DEF Pieces
  <2> DEFINE i == j - 1
             a == off[i]
  <2>4. i \in 0 .. Len(P) - 1 /\ i \in 0 .. Len(P) /\ j = i + 1 /\ j \in 0 .. Len(P)
    OBVIOUS
  <2>5. a \in Nat /\ offQ[a] = offR[i] /\ offR[i] \in Nat
    BY <1>1, <1>2, <2>4
  <2>6. a + Len(P[j]) <= Len(Q)
    <3>1. off[j] <= off[Len(P)]
      <4>1. \A k \in 1 .. Len(P) : Len(P[k]) \in Nat
        OBVIOUS
      <4> QED BY <1>3, <2>4, <4>1, OffsetsGrow
    <3>2. off[j] = a + Len(P[j])
      BY <1>1, <2>4
    <3> QED BY <3>1, <3>2
  <2>7. q = offR[i] + p /\ \/ Len(P[j]) = 1 /\ Q[a + 1] = R[j]
                           \/ R[j] = P[j] /\ \A m \in 1 .. Len(P[j]) : Len(Q[a + m]) = 1 /\ Q[a + m][1] = P[j][m]
    BY <2>2 DEF SamePieces, SamePieceAt
  <2> HIDE DEF a, i
  <2>8. CASE Len(P[j]) = 1 /\ Q[a + 1] = R[j]
    <3>1. a + 1 \in 1 .. Len(Q) /\ (a + 1) - 1 = a /\ p \in 1 .. Len(Q[a + 1])
      BY <1>3, <2>5, <2>6, <2>8
    <3>2. u[offQ[(a + 1) - 1] + p] = Q[a + 1][p]
      BY <3>1 DEF Pieces
    <3> QED BY <2>3, <2>5, <2>7, <2>8, <3>1, <3>2
  <2>9. CASE R[j] = P[j] /\ \A m \in 1 .. Len(P[j]) : Len(Q[a + m]) = 1 /\ Q[a + m][1] = P[j][m]
    <3> DEFINE m == Len(P[j])
               b == p - 1
               k == a + p
    <3>1. m \in Nat /\ a + m <= Len(Q) /\ Ones(Q, a, m)
      BY <2>6, <2>9 DEF Ones
    <3>2. p \in 1 .. m /\ b \in 0 .. m /\ k \in 1 .. Len(Q) /\ k - 1 = a + b /\ b + 1 = p
      BY <1>3, <2>5, <2>6, <2>9
    <3>3. Len(Q[k]) = 1 /\ Q[k][1] = P[j][p]
      BY <2>9, <3>2
    <3> HIDE DEF m, b, k
    <3>4. offQ[a + b] = offQ[a] + b
      BY <1>0, <1>3, <2>5, <3>1, <3>2, Run
    <3>5. u[offQ[k - 1] + 1] = Q[k][1]
      BY <3>2, <3>3 DEF Pieces
    <3>6. offQ[k - 1] + 1 = q
      <4>1. offQ[k - 1] = offR[i] + b
        BY <2>5, <3>2, <3>4, Zenon
      <4>2. (offR[i] + b) + 1 = q
        <5>1. q = offR[i] + p
          BY <2>7, Zenon
        <5>2. p = b + 1 /\ b \in Nat
          BY <3>1, <3>2
        <5>3. offR[i] \in Nat
          BY <2>5, Zenon
        <5>4. \A x, y \in Nat : (x + y) + 1 = x + (y + 1)
          OBVIOUS
        <5> QED BY <5>1, <5>2, <5>3, <5>4, Zenon
      <4> QED BY <4>1, <4>2, Zenon
    <3> QED BY <2>3, <2>9, <3>3, <3>5, <3>6
  <2> QED BY <2>7, <2>8, <2>9
<1> QED BY <1>4, <1>5

-----------------------------------------------------------------------------
(* References in a text, and replacing them *)

\* A reference is four tokens.
RefAt(text, i, n) ==
  i + 3 <= Len(text) /\ text[i] = "$" /\ text[i + 1] = "{" /\ text[i + 2] = n /\ text[i + 3] = "}"

LEMMA RefTokens ==
  ASSUME NEW S, NEW text \in Seq(S), NEW i \in 1 .. Len(text), NEW n
  PROVE  StartsAt(text, i, Ref(n)) <=> RefAt(text, i, n)
<1> DEFINE r == Ref(n)
<1>1. Len(r) = 4 /\ r[1] = "$" /\ r[2] = "{" /\ r[3] = n /\ r[4] = "}"
  BY DEF Ref
<1>2. StartsAt(text, i, r) <=> i + 3 <= Len(text) /\ SubSeq(text, i, i + 3) = r
  <2>1. i + 4 - 1 = i + 3
    OBVIOUS
  <2> HIDE DEF r
  <2> QED BY <1>1, <2>1 DEF StartsAt
<1>3. ASSUME i + 3 <= Len(text) PROVE SubSeq(text, i, i + 3) = r <=> RefAt(text, i, n)
  <2> DEFINE u == SubSeq(text, i, i + 3)
  <2>1. u \in Seq(S) /\ Len(u) = 4 /\ u[1] = text[i] /\ u[2] = text[i + 1] /\ u[3] = text[i + 2] /\ u[4] = text[i + 3]
    BY <1>3
  <2> HIDE DEF u
  <2>2. CASE u = r
    <3>1. u[1] = "$" /\ u[2] = "{" /\ u[3] = n /\ u[4] = "}"
      BY <1>1, <2>2, Zenon
    <3>2. RefAt(text, i, n)
      BY <1>3, <2>1, <3>1 DEF RefAt
    <3> QED BY <2>2, <3>2 DEF u
  <2>3. CASE RefAt(text, i, n)
    <3>1. u[1] = "$" /\ u[2] = "{" /\ u[3] = n /\ u[4] = "}"
      BY <2>1, <2>3 DEF RefAt
    <3>2. u = <<u[1], u[2], u[3], u[4]>>
      BY <2>1
    <3>3. u = r
      BY <3>1, <3>2 DEF Ref
    <3> QED BY <2>3, <3>3 DEF u
  <2> QED BY <2>2, <2>3 DEF u
<1> QED BY <1>2, <1>3 DEF RefAt

\* In a well-formed text no two references overlap.
LEMMA RefsApart ==
  ASSUME NEW text \in Seq(STRING), WellFormed(text), NEW i \in 1 .. Len(text), text[i] = "$", NEW d \in 1 .. 3
  PROVE  i + d \in 1 .. Len(text) /\ text[i + d] # "$"
<1>1. i + 3 <= Len(text) /\ text[i + 1] = "{" /\ text[i + 2] \notin {"$", "{", "}"} /\ text[i + 3] = "}"
  <2>1. i \in DOMAIN text
    OBVIOUS
  <2> QED BY <2>1, Zenon DEF WellFormed
<1>2. text[i + 1] # "$" /\ text[i + 2] # "$" /\ text[i + 3] # "$"
  BY <1>1, Zenon
<1>3. i + d \in 1 .. Len(text)
  <2>1. i + 3 <= Len(text)
    BY <1>1, Zenon
  <2> QED BY <2>1
<1>4. d = 1 \/ d = 2 \/ d = 3
  OBVIOUS
<1> QED BY <1>2, <1>3, <1>4, Zenon

\* The references to the names in D replaced, those to others not yet.
HereIn(text, D, i) == {n \in D : StartsAt(text, i, Ref(n))}
InsideOf(text, D, j) == \E d \in 1 .. 3 : j > d /\ HereIn(text, D, j - d) # {}
StagePieces(text, D, value) ==
  [j \in DOMAIN text |-> IF HereIn(text, D, j) # {} THEN value[CHOOSE n \in HereIn(text, D, j) : TRUE]
                         ELSE IF InsideOf(text, D, j) THEN <<>> ELSE <<text[j]>>]
Stage(text, D, value) == FlattenSeq(StagePieces(text, D, value))

\* What is neither a reference to a name in D nor inside of one.
Kept(text, D, j) == HereIn(text, D, j) = {} /\ ~InsideOf(text, D, j)

LEMMA HereIsRef ==
  ASSUME NEW text \in Seq(STRING), NEW D, NEW i \in 1 .. Len(text)
  PROVE  /\ HereIn(text, D, i) = {n \in D : RefAt(text, i, n)}
         /\ HereIn(text, D, i) # {} => text[i] = "$"
<1>1. \A n : StartsAt(text, i, Ref(n)) <=> RefAt(text, i, n)
  BY RefTokens
<1> QED BY <1>1, Zenon DEF HereIn, RefAt

LEMMA InsideIsNoStart ==
  ASSUME NEW text \in Seq(STRING), WellFormed(text), NEW D, NEW j \in 1 .. Len(text), InsideOf(text, D, j)
  PROVE  text[j] # "$"
<1>1. PICK d \in 1 .. 3 : j > d /\ HereIn(text, D, j - d) # {}
  BY DEF InsideOf
<1>2. j - d \in 1 .. Len(text) /\ (j - d) + d = j
  BY <1>1
<1>3. text[j - d] = "$"
  BY <1>1, <1>2, HereIsRef, Zenon
<1> QED BY <1>2, <1>3, RefsApart

\* A reference to no name in D is kept as a whole.
LEMMA OthersKept ==
  ASSUME NEW text \in Seq(STRING), WellFormed(text), NEW D, NEW i \in 1 .. Len(text), text[i] = "$",
         HereIn(text, D, i) = {}, NEW d \in 0 .. 3
  PROVE  i + d \in 1 .. Len(text) /\ Kept(text, D, i + d)
<1>1. CASE d = 0
  BY <1>1, InsideIsNoStart DEF Kept
<1>2. CASE d \in 1 .. 3
  <2>1. i + d \in 1 .. Len(text) /\ text[i + d] # "$"
    BY <1>2, RefsApart
  <2>2. HereIn(text, D, i + d) = {}
    BY <2>1, HereIsRef, Zenon
  <2>3. ASSUME InsideOf(text, D, i + d) PROVE FALSE
    <3>1. PICK e \in 1 .. 3 : i + d > e /\ HereIn(text, D, i + d - e) # {}
      BY <2>3 DEF InsideOf
    <3> DEFINE j == i + d - e
    <3>2. j \in 1 .. Len(text) /\ i + d = j + e
      BY <2>1, <3>1
    <3> HIDE DEF j
    <3>3. text[j] = "$" /\ j # i
      <4>1. HereIn(text, D, j) # {}
        BY <3>1 DEF j
      <4> QED BY <3>2, <4>1, HereIsRef, Zenon
    <3>4. CASE j > i
      <4>1. j - i \in 1 .. 3 /\ i + (j - i) = j
        BY <3>2, <3>4
      <4> QED BY <3>3, <4>1, RefsApart
    <3>5. CASE j < i
      <4>1. i - j \in 1 .. 3 /\ j + (i - j) = i
        BY <3>2, <3>5
      <4> QED BY <3>2, <3>3, <4>1, RefsApart
    <3> QED BY <3>2, <3>3, <3>4, <3>5
  <2> QED BY <2>1, <2>2, <2>3 DEF Kept
<1> QED BY <1>1, <1>2

\* Replacing pieces keeps to the elements of the text and of the values.
LEMMA StageTyped ==
  ASSUME NEW S, NEW text \in Seq(S), NEW D, NEW value, \A n \in D : value[n] \in Seq(S)
  PROVE  /\ StagePieces(text, D, value) \in Seq(Seq(S)) /\ Len(StagePieces(text, D, value)) = Len(text)
         /\ \A j \in 1 .. Len(text) : Len(StagePieces(text, D, value)[j]) \in Nat
         /\ Stage(text, D, value) \in Seq(S)
         /\ \E off : Pieces(StagePieces(text, D, value), off, Stage(text, D, value))
<1> DEFINE P == StagePieces(text, D, value)
<1>1. \A j \in 1 .. Len(text) : P[j] \in Seq(S)
  <2> SUFFICES ASSUME NEW j \in 1 .. Len(text) PROVE P[j] \in Seq(S)
    OBVIOUS
  <2>1. CASE HereIn(text, D, j) # {}
    <3>1. (CHOOSE n \in HereIn(text, D, j) : TRUE) \in D
      BY <2>1 DEF HereIn
    <3>2. P[j] = value[CHOOSE n \in HereIn(text, D, j) : TRUE]
      BY <2>1 DEF StagePieces
    <3> QED BY <3>1, <3>2
  <2>2. CASE HereIn(text, D, j) = {}
    <3>1. P[j] = <<>> \/ P[j] = <<text[j]>>
      BY <2>2 DEF StagePieces
    <3>2. <<>> \in Seq(S) /\ <<text[j]>> \in Seq(S)
      <4>1. text[j] \in S
        OBVIOUS
      <4>2. \A x \in S : <<x>> \in Seq(S)
        OBVIOUS
      <4> QED BY <4>1, <4>2
    <3> HIDE DEF P
    <3> QED BY <3>1, <3>2, Zenon
  <2> QED BY <2>1, <2>2
<1>2. P \in Seq(Seq(S)) /\ Len(P) = Len(text)
  <2>1. P = [j \in 1 .. Len(text) |-> P[j]] /\ Len(text) \in Nat
    BY DEF StagePieces
  <2> HIDE DEF P
  <2> QED BY <1>1, <2>1
<1>3. \A j \in 1 .. Len(text) : Len(P[j]) \in Nat
  <2> HIDE DEF P
  <2> QED BY <1>1
<1>4. FlattenSeq(P) \in Seq(S) /\ \E off : Pieces(P, off, FlattenSeq(P))
  <2> HIDE DEF P
  <2> QED BY <1>2, Flattened
<1> QED BY <1>2, <1>3, <1>4 DEF Stage

\* replaceAll replaces the references to one name.
LEMMA ReplaceOne ==
  ASSUME NEW S, NEW text \in Seq(S), NEW n, NEW value
  PROVE  replaceAll(text, Ref(n), value[n]) = Stage(text, {n}, value)
<1> DEFINE starts == {i \in DOMAIN text : StartsAt(text, i, Ref(n))}
           Covered(j) == \E i \in starts : j \in i .. i + Len(Ref(n)) - 1
           Q == [j \in DOMAIN text |-> IF j \in starts THEN value[n] ELSE IF Covered(j) THEN <<>> ELSE <<text[j]>>]
<1>1. replaceAll(text, Ref(n), value[n]) = FlattenSeq(Q)
  BY DEF replaceAll
<1>2. Len(Ref(n)) = 4
  BY DEF Ref
<1>3. ASSUME NEW j \in DOMAIN text PROVE Q[j] = StagePieces(text, {n}, value)[j]
  <2>0. DOMAIN text = 1 .. Len(text) /\ Len(text) \in Nat
    OBVIOUS
  <2>1. StagePieces(text, {n}, value)[j] =
          IF HereIn(text, {n}, j) # {} THEN value[CHOOSE m \in HereIn(text, {n}, j) : TRUE]
          ELSE IF InsideOf(text, {n}, j) THEN <<>> ELSE <<text[j]>>
    BY DEF StagePieces
  <2>2. \A i \in DOMAIN text : HereIn(text, {n}, i) = IF i \in starts THEN {n} ELSE {}
    BY DEF HereIn
  <2>3. CASE j \in starts
    <3>1. HereIn(text, {n}, j) = {n} /\ (CHOOSE m \in {n} : TRUE) = n
      BY <2>2, <2>3
    <3>2. Q[j] = value[n]
      BY <2>3
    <3> QED BY <2>1, <3>1, <3>2
  <2>4. CASE j \notin starts
    <3>1. Covered(j) <=> InsideOf(text, {n}, j)
      <4>1. ASSUME Covered(j) PROVE InsideOf(text, {n}, j)
        <5>1. PICK i \in starts : j \in i .. i + 3
          BY <1>2, <4>1
        <5>2. j - i \in 1 .. 3 /\ j > j - i /\ j - (j - i) = i /\ i \in DOMAIN text
          BY <2>0, <2>4, <5>1
        <5>3. HereIn(text, {n}, j - (j - i)) # {}
          BY <2>2, <5>1, <5>2
        <5> HIDE DEF starts
        <5> QED BY <5>2, <5>3, Zenon DEF InsideOf
      <4>2. ASSUME InsideOf(text, {n}, j) PROVE Covered(j)
        <5>1. PICK d \in 1 .. 3 : j > d /\ HereIn(text, {n}, j - d) # {}
          BY <4>2 DEF InsideOf
        <5>2. j - d \in DOMAIN text /\ j \in (j - d) .. (j - d) + 3
          BY <2>0, <5>1
        <5>3. j - d \in starts
          BY <2>2, <5>1, <5>2
        <5>4. (j - d) + 4 - 1 = (j - d) + 3
          BY <2>0
        <5> HIDE DEF starts
        <5> QED BY <1>2, <5>2, <5>3, <5>4
      <4> QED BY <4>1, <4>2
    <3>2. HereIn(text, {n}, j) = {}
      BY <2>2, <2>4
    <3>3. Q[j] = IF Covered(j) THEN <<>> ELSE <<text[j]>>
      BY <2>4
    <3>4. StagePieces(text, {n}, value)[j] = IF InsideOf(text, {n}, j) THEN <<>> ELSE <<text[j]>>
      BY <2>1, <3>2
    <3> HIDE DEF Q
    <3> SUFFICES ASSUME NEW C, C = Covered(j) PROVE Q[j] = StagePieces(text, {n}, value)[j]
      OBVIOUS
    <3>5. Q[j] = IF C THEN <<>> ELSE <<text[j]>>
      BY <3>3
    <3>6. C <=> InsideOf(text, {n}, j)
      BY <3>1
    <3> HIDE DEF Covered, starts
    <3> QED BY <3>4, <3>5, <3>6
  <2> QED BY <2>3, <2>4
<1>4. Q = StagePieces(text, {n}, value)
  <2>1. StagePieces(text, {n}, value) = [j \in DOMAIN text |-> StagePieces(text, {n}, value)[j]]
    BY DEF StagePieces
  <2>2. Q = [j \in DOMAIN text |-> Q[j]]
    OBVIOUS
  <2> HIDE DEF Q
  <2> QED BY <1>3, <2>1, <2>2
<1> QED BY <1>1, <1>4 DEF Stage

\* An element of one piece comes before every element of a later piece.
LEMMA Before ==
  ASSUME NEW s, Len(s) \in Nat, Lengths(s), NEW off, Offsets(s, off),
         NEW i \in 1 .. Len(s), NEW j \in 1 .. Len(s), i < j, NEW p \in 1 .. Len(s[i]), NEW q \in 1 .. Len(s[j])
  PROVE  off[i - 1] + p < off[j - 1] + q
<1> DEFINE a == i - 1
           b == j - 1
<1>1. a \in 0 .. Len(s) - 1 /\ b \in 0 .. Len(s) /\ i \in 0 .. b /\ i = a + 1 /\ a \in 0 .. Len(s) /\ i \in 0 .. Len(s)
  OBVIOUS
<1>2. off \in [0 .. Len(s) -> Nat] /\ \A k \in 0 .. Len(s) - 1 : off[k + 1] = off[k] + Len(s[k + 1])
  BY DEF Offsets
<1>3. Len(s[i]) \in Nat /\ Len(s[j]) \in Nat
  BY DEF Lengths
<1> HIDE DEF a, b
<1>4. off[i] = off[a] + Len(s[i]) /\ off[i] \in Nat /\ off[a] \in Nat /\ off[b] \in Nat
  BY <1>1, <1>2
<1>5. off[i] <= off[b]
  BY <1>1, OffsetsGrow DEF Lengths
<1>6. off[a] + p < off[b] + q
  BY <1>3, <1>4, <1>5
<1> QED BY <1>6 DEF a, b

\* An element of t is of one piece only.
LEMMA Apart ==
  ASSUME NEW s, Len(s) \in Nat, Lengths(s), NEW off, Offsets(s, off),
         NEW i \in 1 .. Len(s), NEW j \in 1 .. Len(s), NEW p \in 1 .. Len(s[i]), NEW q \in 1 .. Len(s[j]),
         off[i - 1] + p = off[j - 1] + q
  PROVE  i = j
<1>1. off[i - 1] \in Nat /\ off[j - 1] \in Nat /\ Len(s[i]) \in Nat /\ Len(s[j]) \in Nat
  <2>1. \A k \in 0 .. Len(s) : off[k] \in Nat
    BY DEF Offsets
  <2>2. i - 1 \in 0 .. Len(s) /\ j - 1 \in 0 .. Len(s)
    OBVIOUS
  <2>3. Len(s[i]) \in Nat /\ Len(s[j]) \in Nat
    BY DEF Lengths
  <2> QED BY <2>1, <2>2, <2>3
<1>2. ASSUME i < j PROVE FALSE
  <2>1. off[i - 1] + p < off[j - 1] + q
    BY <1>2, Before
  <2> QED BY <1>1, <2>1
<1>3. ASSUME j < i PROVE FALSE
  <2>1. off[j - 1] + q < off[i - 1] + p
    BY <1>3, Before
  <2> QED BY <1>1, <2>1
<1> QED BY <1>2, <1>3

\* A text t in which the references to D have been replaced, and its pieces.
Staged(text, D, n, value, P, off, t) ==
  /\ text \in Seq(STRING) /\ WellFormed(text) /\ n \notin D
  /\ \A m \in D \cup {n} : value[m] \in Seq(STRING)
  /\ \A m \in D : "$" \notin ToSet(value[m])
  /\ P = StagePieces(text, D, value) /\ t = Stage(text, D, value) /\ Pieces(P, off, t)

LEMMA StagedFacts ==
  ASSUME NEW text, NEW D, NEW n, NEW value, NEW P, NEW off, NEW t, Staged(text, D, n, value, P, off, t)
  PROVE  /\ Len(text) \in Nat /\ Len(P) = Len(text) /\ Lengths(P) /\ Offsets(P, off)
         /\ t \in Seq(STRING) /\ Len(t) = off[Len(P)]
         /\ off \in [0 .. Len(P) -> Nat] /\ \A i \in 0 .. Len(P) - 1 : off[i + 1] = off[i] + Len(P[i + 1])
         /\ \A i \in 1 .. Len(P) : \A p \in 1 .. Len(P[i]) : t[off[i - 1] + p] = P[i][p]
<1>1. /\ text \in Seq(STRING) /\ P = StagePieces(text, D, value) /\ t = Stage(text, D, value) /\ Pieces(P, off, t)
      /\ \A m \in D : value[m] \in Seq(STRING)
  BY DEF Staged
<1>2. Len(P) = Len(text) /\ (\A j \in 1 .. Len(text) : Len(P[j]) \in Nat) /\ t \in Seq(STRING)
  BY <1>1, StageTyped
<1>3. Lengths(P)
  BY <1>2 DEF Lengths
<1> QED BY <1>1, <1>2, <1>3 DEF Pieces, Offsets

\* What each piece is: the value of a name, nothing, or an element of the text.
LEMMA PieceKinds ==
  ASSUME NEW text, NEW D, NEW n, NEW value, NEW P, NEW off, NEW t, Staged(text, D, n, value, P, off, t),
         NEW j \in 1 .. Len(text)
  PROVE  /\ HereIn(text, D, j) # {} => P[j] = value[CHOOSE m \in HereIn(text, D, j) : TRUE] /\ "$" \notin ToSet(P[j])
         /\ HereIn(text, D, j) = {} /\ InsideOf(text, D, j) => P[j] = <<>>
<1>1. P[j] = IF HereIn(text, D, j) # {} THEN value[CHOOSE m \in HereIn(text, D, j) : TRUE]
             ELSE IF InsideOf(text, D, j) THEN <<>> ELSE <<text[j]>>
  <2>1. P = StagePieces(text, D, value) /\ j \in DOMAIN text
    BY DEF Staged
  <2> QED BY <2>1 DEF StagePieces
<1>2. ASSUME HereIn(text, D, j) # {} PROVE "$" \notin ToSet(value[CHOOSE m \in HereIn(text, D, j) : TRUE])
  <2>1. (CHOOSE m \in HereIn(text, D, j) : TRUE) \in D
    BY <1>2 DEF HereIn
  <2> QED BY <2>1 DEF Staged
<1> QED BY <1>1, <1>2, Zenon

LEMMA KeptPiece ==
  ASSUME NEW text, NEW D, NEW n, NEW value, NEW P, NEW off, NEW t, Staged(text, D, n, value, P, off, t),
         NEW j \in 1 .. Len(text), Kept(text, D, j)
  PROVE  P[j] = <<text[j]>> /\ Len(P[j]) = 1 /\ P[j][1] = text[j]
<1>1. P = StagePieces(text, D, value) /\ j \in DOMAIN text /\ HereIn(text, D, j) = {} /\ ~InsideOf(text, D, j)
  BY DEF Staged, Kept
<1>2. P[j] = <<text[j]>>
  BY <1>1 DEF StagePieces
<1> QED BY <1>2

\* A reference that is not replaced yet is in t as it was in the text.
Copied(text, D, off, t, j, d) ==
  /\ j + d \in 1 .. Len(text) /\ Kept(text, D, j + d)
  /\ off[(j + d) - 1] + 1 = (off[j - 1] + 1) + d
  /\ (off[j - 1] + 1) + d \in 1 .. Len(t) /\ t[(off[j - 1] + 1) + d] = text[j + d]
LEMMA RefCopied ==
  ASSUME NEW text, NEW D, NEW n, NEW value, NEW P, NEW off, NEW t, Staged(text, D, n, value, P, off, t),
         NEW j \in 1 .. Len(text), text[j] = "$", HereIn(text, D, j) = {}
  PROVE  \A d \in 0 .. 3 : Copied(text, D, off, t, j, d)
<1>0. text \in Seq(STRING) /\ WellFormed(text)
  BY DEF Staged
<1>1. \A d \in 0 .. 3 : j + d \in 1 .. Len(text) /\ Kept(text, D, j + d)
  BY <1>0, OthersKept
<1>2. \A d \in 0 .. 3 : Len(P[j + d]) = 1 /\ P[j + d][1] = text[j + d]
  <2>1. \A i \in 1 .. Len(text) : Kept(text, D, i) => Len(P[i]) = 1 /\ P[i][1] = text[i]
    BY KeptPiece
  <2> QED BY <1>1, <2>1
<1> DEFINE a == j - 1
           m == 4
<1>3. a \in Nat /\ m \in Nat /\ a + m <= Len(P) /\ Ones(P, a, m)
  <2>1. Len(P) = Len(text) /\ Len(text) \in Nat
    BY StagedFacts
  <2>2. j + 3 \in 1 .. Len(text)
    BY <1>1
  <2>3. \A p \in 1 .. 4 : p - 1 \in 0 .. 3 /\ j + (p - 1) = a + p
    OBVIOUS
  <2>4. \A p \in 1 .. 4 : Len(P[a + p]) = 1
    <3> HIDE DEF a
    <3> QED BY <1>2, <2>3
  <2>5. Ones(P, a, m)
    BY <2>4 DEF Ones
  <2>6. a \in Nat /\ m \in Nat /\ a + m <= Len(P)
    BY <2>1, <2>2
  <2> QED BY <2>5, <2>6
<1>4. \A p \in 0 .. 4 : off[a + p] = off[a] + p
  <2>1. Len(P) \in Nat /\ Offsets(P, off)
    BY StagedFacts
  <2>2. \A p \in 0 .. m : off[a + p] = off[a] + p
    <3> HIDE DEF a, m
    <3> QED BY <1>3, <2>1, Run
  <2> QED BY <2>2
<1>5. SUFFICES ASSUME NEW d \in 0 .. 3
               PROVE  /\ off[(j + d) - 1] + 1 = (off[a] + 1) + d
                      /\ (off[a] + 1) + d \in 1 .. Len(t) /\ t[(off[a] + 1) + d] = text[j + d]
  BY <1>1, Zenon DEF Copied
<1> DEFINE i == j + d
<1>6. i \in 1 .. Len(P) /\ i - 1 = a + d /\ Len(P[i]) = 1 /\ P[i][1] = text[j + d] /\ i = a + (d + 1) /\ Len(P) \in 0 .. Len(P)
  <2>1. Len(P) = Len(text) /\ Len(text) \in Nat
    BY StagedFacts
  <2>2. i \in 1 .. Len(text) /\ Len(P[i]) = 1 /\ P[i][1] = text[j + d]
    BY <1>1, <1>2
  <2> QED BY <2>1, <2>2
<1>7. off[i - 1] = off[a] + d /\ off[i] = off[a] + (d + 1) /\ off[a] \in Nat
  <2>1. d \in 0 .. 4 /\ d + 1 \in 0 .. 4
    OBVIOUS
  <2>2. a \in 0 .. Len(P)
    BY <1>3
  <2>3. off \in [0 .. Len(P) -> Nat]
    BY StagedFacts
  <2> HIDE DEF a, i
  <2> QED BY <1>4, <1>6, <2>1, <2>2, <2>3
<1>8. off[i] <= Len(t) /\ Len(t) \in Nat
  <2>1. i \in 0 .. Len(P) /\ Len(P) \in Nat
    BY <1>6
  <2>2. Lengths(P) /\ Offsets(P, off) /\ Len(t) = off[Len(P)] /\ t \in Seq(STRING)
    BY StagedFacts
  <2>3. off[i] <= off[Len(P)]
    <3> HIDE DEF i
    <3> QED BY <1>6, <2>1, <2>2, OffsetsGrow DEF Lengths
  <2>4. Len(t) \in Nat
    BY <2>2
  <2> QED BY <2>2, <2>3, <2>4
<1>9. t[off[i - 1] + 1] = text[j + d]
  <2>1. \A k \in 1 .. Len(P) : \A p \in 1 .. Len(P[k]) : t[off[k - 1] + p] = P[k][p]
    BY StagedFacts
  <2> HIDE DEF i
  <2>2. 1 \in 1 .. Len(P[i])
    BY <1>6
  <2> QED BY <1>6, <2>1, <2>2
<1> DEFINE b == off[a]
<1>10. off[i - 1] + 1 = (b + 1) + d /\ (b + 1) + d \in 1 .. Len(t)
  <2> HIDE DEF i
  <2>1. b \in Nat /\ off[i - 1] = b + d /\ off[i] = b + (d + 1)
    BY <1>7
  <2> HIDE DEF b
  <2> QED BY <1>8, <2>1
<1> QED BY <1>9, <1>10

\* The same four tokens are a reference to the same name.
LEMMA SameRef ==
  ASSUME NEW u, NEW i, NEW t, NEW k, NEW n, i + 3 <= Len(u), k + 3 <= Len(t),
         u[i] = t[k], u[i + 1] = t[k + 1], u[i + 2] = t[k + 2], u[i + 3] = t[k + 3]
  PROVE  RefAt(u, i, n) <=> RefAt(t, k, n)
BY Zenon DEF RefAt

\* Every "$" of t is one of the text.
From(text, D, off, k, j) == text[j] = "$" /\ HereIn(text, D, j) = {} /\ k = off[j - 1] + 1
LEMMA DollarKept ==
  ASSUME NEW text, NEW D, NEW n, NEW value, NEW P, NEW off, NEW t, Staged(text, D, n, value, P, off, t),
         NEW k \in 1 .. Len(t), t[k] = "$"
  PROVE  \E j \in 1 .. Len(text) : From(text, D, off, k, j)
<1>1. /\ Len(text) \in Nat /\ Len(P) = Len(text) /\ Len(P) \in Nat /\ Lengths(P) /\ Offsets(P, off)
      /\ \A i \in 1 .. Len(P) : \A p \in 1 .. Len(P[i]) : t[off[i - 1] + p] = P[i][p]
      /\ Len(t) = off[Len(P)]
  BY StagedFacts
<1>2. PICK j \in 1 .. Len(P) : \E p \in 1 .. Len(P[j]) : k = off[j - 1] + p
  BY <1>1, Located DEF Lengths
<1>3. PICK p \in 1 .. Len(P[j]) : k = off[j - 1] + p
  BY <1>2
<1>4. P[j][p] = "$" /\ j \in 1 .. Len(text)
  BY <1>1, <1>3
<1>5. ASSUME HereIn(text, D, j) # {} PROVE FALSE
  <2>1. "$" \notin ToSet(P[j]) /\ P[j] = value[CHOOSE m \in HereIn(text, D, j) : TRUE]
    BY <1>4, <1>5, PieceKinds
  <2>2. (CHOOSE m \in HereIn(text, D, j) : TRUE) \in D
    BY <1>5 DEF HereIn
  <2>3. P[j] \in Seq(STRING)
    <3>1. \A m \in D : value[m] \in Seq(STRING)
      BY DEF Staged
    <3> QED BY <2>1, <2>2, <3>1, Zenon
  <2>4. \A s \in Seq(STRING) : \A i \in 1 .. Len(s) : s[i] \in ToSet(s)
    BY DEF ToSet
  <2> QED BY <1>4, <2>1, <2>3, <2>4
<1>6. ASSUME HereIn(text, D, j) = {}, InsideOf(text, D, j) PROVE FALSE
  <2>1. P[j] = <<>>
    BY <1>4, <1>6, PieceKinds
  <2> QED BY <2>1
<1>7. Kept(text, D, j)
  BY <1>5, <1>6 DEF Kept
<1>8. P[j][1] = text[j] /\ Len(P[j]) = 1
  BY <1>4, <1>7, KeptPiece
<1>9. p = 1
  BY <1>8
<1> QED BY <1>3, <1>4, <1>5, <1>8, <1>9 DEF From

\* Every reference to n in t is one of the text ...
LEMMA RefFromText ==
  ASSUME NEW text, NEW D, NEW n, NEW value, NEW P, NEW off, NEW t, Staged(text, D, n, value, P, off, t),
         NEW k \in 1 .. Len(t), RefAt(t, k, n)
  PROVE  \E j \in 1 .. Len(text) : RefAt(text, j, n) /\ From(text, D, off, k, j)
<1>1. t[k] = "$" /\ k + 3 <= Len(t)
  BY Zenon DEF RefAt
<1>2. PICK j \in 1 .. Len(text) : From(text, D, off, k, j)
  BY <1>1, DollarKept
<1>3. \A d \in 0 .. 3 : j + d \in 1 .. Len(text) /\ t[k + d] = text[j + d]
  <2>1. \A d \in 0 .. 3 : j + d \in 1 .. Len(text) /\ t[(off[j - 1] + 1) + d] = text[j + d]
    <3>1. text[j] = "$" /\ HereIn(text, D, j) = {}
      BY <1>2 DEF From
    <3>2. \A d \in 0 .. 3 : Copied(text, D, off, t, j, d)
      BY <3>1, RefCopied
    <3> QED BY <3>2 DEF Copied
  <2> QED BY <1>2, <2>1 DEF From
<1>4. j + 3 <= Len(text) /\ text[j + 1] = t[k + 1] /\ text[j + 2] = t[k + 2] /\ text[j + 3] = t[k + 3]
  <2>1. 1 \in 0 .. 3 /\ 2 \in 0 .. 3 /\ 3 \in 0 .. 3
    OBVIOUS
  <2>2. j + 3 \in 1 .. Len(text) /\ Len(text) \in Nat
    BY <1>3, <2>1, StagedFacts
  <2> QED BY <1>3, <2>1, <2>2
<1>5. RefAt(text, j, n)
  BY <1>1, <1>2, <1>4, SameRef DEF From
<1> QED BY <1>2, <1>5

\* ... and the other way around.
LEMMA RefInText ==
  ASSUME NEW text, NEW D, NEW n, NEW value, NEW P, NEW off, NEW t, Staged(text, D, n, value, P, off, t),
         NEW j \in 1 .. Len(text), RefAt(text, j, n)
  PROVE  text[j] = "$" /\ HereIn(text, D, j) = {} /\ RefAt(t, off[j - 1] + 1, n)
<1>0. text \in Seq(STRING) /\ n \notin D
  BY DEF Staged
<1>1. text[j] = "$" /\ j + 3 <= Len(text) /\ text[j + 2] = n
  BY Zenon DEF RefAt
<1>2. HereIn(text, D, j) = {}
  <2>1. HereIn(text, D, j) = {m \in D : RefAt(text, j, m)}
    BY <1>0, HereIsRef
  <2>2. \A m : RefAt(text, j, m) => m = text[j + 2]
    BY Zenon DEF RefAt
  <2> QED BY <1>0, <1>1, <2>1, <2>2
<1> DEFINE k == off[j - 1] + 1
<1>3. \A d \in 0 .. 3 : k + d \in 1 .. Len(t) /\ t[k + d] = text[j + d]
  <2>1. \A d \in 0 .. 3 : Copied(text, D, off, t, j, d)
    BY <1>1, <1>2, RefCopied
  <2> QED BY <2>1 DEF Copied
<1> HIDE DEF k
<1>4. /\ k + 3 <= Len(t) /\ text[j + 1] = t[k + 1] /\ text[j + 2] = t[k + 2] /\ text[j + 3] = t[k + 3]
      /\ k + 0 \in 1 .. Len(t) /\ t[k + 0] = text[j + 0]
  <2>1. 0 \in 0 .. 3 /\ 1 \in 0 .. 3 /\ 2 \in 0 .. 3 /\ 3 \in 0 .. 3
    OBVIOUS
  <2>2. Len(t) \in Nat
    BY StagedFacts
  <2> QED BY <1>3, <2>1, <2>2
<1>5. t[k] = text[j]
  <2>1. off[j - 1] \in Nat
    <3>1. off \in [0 .. Len(P) -> Nat] /\ Len(P) = Len(text)
      BY StagedFacts
    <3> QED BY <3>1
  <2>2. k + 0 = k /\ j + 0 = j
    BY <2>1 DEF k
  <2> QED BY <1>4, <2>2
<1>6. RefAt(t, k, n)
  BY <1>1, <1>4, <1>5, SameRef
<1> QED BY <1>1, <1>2, <1>6 DEF k

\* A reference to n is there in t where it is in the text ...
LEMMA RefHere ==
  ASSUME NEW text, NEW D, NEW n, NEW value, NEW P, NEW off, NEW t, Staged(text, D, n, value, P, off, t),
         NEW j \in 1 .. Len(text), NEW p \in 1 .. Len(P[j]), NEW k \in 1 .. Len(t), k = off[j - 1] + p
  PROVE  RefAt(t, k, n) <=> p = 1 /\ RefAt(text, j, n)
<1>0. /\ Len(text) \in Nat /\ Len(P) = Len(text) /\ Lengths(P) /\ Offsets(P, off)
      /\ off \in [0 .. Len(P) -> Nat] /\ Len(P) \in Nat
  BY StagedFacts
<1>1. ASSUME RefAt(t, k, n) PROVE p = 1 /\ RefAt(text, j, n)
  <2>1. PICK i \in 1 .. Len(text) : RefAt(text, i, n) /\ From(text, D, off, k, i)
    BY <1>1, RefFromText
  <2>2. k = off[i - 1] + 1 /\ text[i] = "$" /\ HereIn(text, D, i) = {}
    BY <2>1 DEF From
  <2>3. Len(P[i]) = 1
    <3>1. \A d \in 0 .. 3 : Copied(text, D, off, t, i, d)
      BY <2>2, RefCopied
    <3>2. Kept(text, D, i + 0) /\ i + 0 = i
      BY <3>1 DEF Copied
    <3>3. Kept(text, D, i)
      BY <3>2
    <3> QED BY <3>3, KeptPiece
  <2>4. i \in 1 .. Len(P) /\ j \in 1 .. Len(P) /\ 1 \in 1 .. Len(P[i])
    BY <1>0, <2>3
  <2>5. off[j - 1] + p = off[i - 1] + 1
    BY <2>2
  <2>6. i = j
    BY <1>0, <2>4, <2>5, Apart
  <2>7. off[j - 1] \in Nat
    BY <1>0
  <2> QED BY <2>1, <2>5, <2>6, <2>7
<1>2. ASSUME p = 1, RefAt(text, j, n) PROVE RefAt(t, k, n)
  BY <1>2, RefInText
<1> QED BY <1>1, <1>2

LEMMA HereOne ==
  ASSUME NEW text \in Seq(STRING), NEW n, NEW i \in 1 .. Len(text)
  PROVE  HereIn(text, {n}, i) # {} <=> RefAt(text, i, n)
<1>1. HereIn(text, {n}, i) = {m \in {n} : RefAt(text, i, m)}
  BY HereIsRef
<1> QED BY <1>1

\* ... and what was inside of one is inside of one still.
LEMMA RefAround ==
  ASSUME NEW text, NEW D, NEW n, NEW value, NEW P, NEW off, NEW t, Staged(text, D, n, value, P, off, t),
         NEW j \in 1 .. Len(text), NEW k \in 1 .. Len(t), k - off[j - 1] \in 1 .. Len(P[j]),
         InsideOf(t, {n}, k)
  PROVE  InsideOf(text, {n}, j)
<1> DEFINE p == k - off[j - 1]
<1>0. /\ text \in Seq(STRING) /\ Len(text) \in Nat /\ Len(P) = Len(text) /\ Lengths(P) /\ Offsets(P, off)
      /\ off \in [0 .. Len(P) -> Nat] /\ Len(P) \in Nat /\ t \in Seq(STRING)
  <2>1. text \in Seq(STRING)
    BY DEF Staged
  <2> QED BY <2>1, StagedFacts
<1>1. InsideOf(text, {n}, j)
  <2>1. PICK e \in 1 .. 3 : k > e /\ HereIn(t, {n}, k - e) # {}
    BY DEF InsideOf
  <2> DEFINE h == k - e
  <2>2. h \in 1 .. Len(t) /\ k = h + e
    BY <1>0, <2>1
  <2>3. HereIn(t, {n}, h) # {}
    BY <2>1
  <2> HIDE DEF h
  <2>4. RefAt(t, h, n)
    BY <1>0, <2>2, <2>3, HereOne
  <2>5. PICK i \in 1 .. Len(text) : RefAt(text, i, n) /\ From(text, D, off, h, i)
    BY <2>2, <2>4, RefFromText
  <2>6. h = off[i - 1] + 1 /\ text[i] = "$" /\ HereIn(text, D, i) = {}
    BY <2>5 DEF From
  <2>7. Copied(text, D, off, t, i, e)
    <3>1. \A d \in 0 .. 3 : Copied(text, D, off, t, i, d)
      BY <2>6, RefCopied
    <3> QED BY <3>1
  <2> DEFINE g == i + e
  <2>8. g \in 1 .. Len(text) /\ Kept(text, D, g) /\ off[g - 1] + 1 = (off[i - 1] + 1) + e /\ g - e = i
    BY <2>7 DEF Copied
  <2> HIDE DEF g
  <2>9. Len(P[g]) = 1 /\ 1 \in 1 .. Len(P[g])
    BY <2>8, KeptPiece
  <2>10. off[j - 1] + p = off[g - 1] + 1 /\ p \in 1 .. Len(P[j])
    <3>1. off[j - 1] + p = k
      <4>1. j - 1 \in 0 .. Len(P) /\ k \in Int
        BY <1>0
      <4>2. \A x \in 0 .. Len(P) : off[x] \in Nat
        BY <1>0
      <4>3. off[j - 1] \in Nat
        BY <4>1, <4>2
      <4> QED BY <4>1, <4>3
    <3> HIDE DEF p
    <3>2. off[j - 1] + p = off[g - 1] + 1
      BY <2>2, <2>6, <2>8, <3>1
    <3> QED BY <3>2 DEF p
  <2> HIDE DEF p
  <2>11. g = j
    BY <1>0, <2>8, <2>9, <2>10, Apart
  <2>12. HereIn(text, {n}, j - e) # {}
    BY <1>0, <2>5, <2>8, <2>11, HereOne
  <2>13. j > e
    BY <2>8, <2>11
  <2> QED BY <2>12, <2>13 DEF InsideOf
<1> QED BY <1>1

LEMMA RefAroundStill ==
  ASSUME NEW text, NEW D, NEW n, NEW value, NEW P, NEW off, NEW t, Staged(text, D, n, value, P, off, t),
         NEW j \in 1 .. Len(text), 1 \in 1 .. Len(P[j]), NEW k \in 1 .. Len(t), k = off[j - 1] + 1,
         InsideOf(text, {n}, j)
  PROVE  InsideOf(t, {n}, k)
<1>0. /\ text \in Seq(STRING) /\ Len(text) \in Nat /\ Len(P) = Len(text) /\ Lengths(P) /\ Offsets(P, off)
      /\ off \in [0 .. Len(P) -> Nat] /\ Len(P) \in Nat /\ t \in Seq(STRING)
  <2>1. text \in Seq(STRING)
    BY DEF Staged
  <2> QED BY <2>1, StagedFacts
<1>1. InsideOf(t, {n}, k)
  <2>1. PICK e \in 1 .. 3 : j > e /\ HereIn(text, {n}, j - e) # {}
    BY DEF InsideOf
  <2> DEFINE i == j - e
  <2>2. i \in 1 .. Len(text) /\ j = i + e
    BY <1>0, <2>1
  <2>3. HereIn(text, {n}, i) # {}
    BY <2>1
  <2> HIDE DEF i
  <2>4. RefAt(text, i, n)
    BY <1>0, <2>2, <2>3, HereOne
  <2>5. text[i] = "$" /\ HereIn(text, D, i) = {} /\ RefAt(t, off[i - 1] + 1, n)
    BY <2>2, <2>4, RefInText
  <2>6. Copied(text, D, off, t, i, e)
    <3>1. \A d \in 0 .. 3 : Copied(text, D, off, t, i, d)
      BY <2>2, <2>5, RefCopied
    <3> QED BY <3>1
  <2>7. off[j - 1] + 1 = (off[i - 1] + 1) + e
    BY <2>2, <2>6 DEF Copied
  <2>8. off[i - 1] \in Nat
    <3>1. i - 1 \in 0 .. Len(P)
      BY <1>0, <2>2
    <3> QED BY <1>0, <3>1, Zenon
  <2> DEFINE h == off[i - 1] + 1
  <2>9. h \in Nat /\ h >= 1 /\ RefAt(t, h, n)
    BY <2>5, <2>8
  <2>10. k = h + e
    BY <2>7
  <2> HIDE DEF h
  <2>11. k > e /\ k - e = h /\ h \in 1 .. Len(t)
    BY <1>0, <2>9, <2>10
  <2>12. HereIn(t, {n}, k - e) # {}
    BY <1>0, <2>9, <2>11, HereOne
  <2> QED BY <2>11, <2>12 DEF InsideOf
<1> QED BY <1>1

\* The pieces of the text with n replaced as well, against those of t with n replaced.
LEMMA SamePiece ==
  ASSUME NEW text, NEW D, NEW n, NEW value, NEW P, NEW off, NEW t, Staged(text, D, n, value, P, off, t),
         NEW Q, Q = StagePieces(t, {n}, value), NEW R, R = StagePieces(text, D \cup {n}, value),
         NEW j \in 1 .. Len(text)
  PROVE  SamePieceAt(P, off, Q, R, j)
<1> SUFFICES \/ Len(P[j]) = 1 /\ Q[off[j - 1] + 1] = R[j]
             \/ R[j] = P[j] /\ \A p \in 1 .. Len(P[j]) : Len(Q[off[j - 1] + p]) = 1 /\ Q[off[j - 1] + p][1] = P[j][p]
  BY DEF SamePieceAt
<1> DEFINE E == D \cup {n}
           a == off[j - 1]
<1>0. /\ text \in Seq(STRING) /\ WellFormed(text) /\ Len(text) \in Nat /\ Len(P) = Len(text) /\ Lengths(P)
      /\ Offsets(P, off) /\ Len(P) \in Nat /\ t \in Seq(STRING) /\ Len(t) = off[Len(P)] /\ n \notin D
  <2>1. text \in Seq(STRING) /\ WellFormed(text) /\ n \notin D
    BY DEF Staged
  <2> QED BY <2>1, StagedFacts
<1>1. R[j] = IF HereIn(text, E, j) # {} THEN value[CHOOSE m \in HereIn(text, E, j) : TRUE]
             ELSE IF InsideOf(text, E, j) THEN <<>> ELSE <<text[j]>>
  <2>1. j \in DOMAIN text
    BY <1>0
  <2> QED BY <2>1 DEF StagePieces
<1>2. HereIn(text, E, j) = HereIn(text, D, j) \cup HereIn(text, {n}, j)
  BY DEF HereIn
<1>3. InsideOf(text, E, j) <=> InsideOf(text, D, j) \/ InsideOf(text, {n}, j)
  <2>1. \A i : HereIn(text, E, i) = HereIn(text, D, i) \cup HereIn(text, {n}, i)
    BY DEF HereIn
  <2> HIDE DEF E
  <2> QED BY <2>1 DEF InsideOf
<1>4. RefAt(text, j, n) => HereIn(text, D, j) = {} /\ text[j] = "$"
  BY RefInText
<1>5. HereIn(text, {n}, j) # {} <=> RefAt(text, j, n)
  BY <1>0, HereOne
<1>6. text[j] = "$" => ~InsideOf(text, D, j) /\ ~InsideOf(text, {n}, j)
  BY <1>0, InsideIsNoStart
<1>7. ASSUME NEW p \in 1 .. Len(P[j])
      PROVE  a + p \in 1 .. Len(t) /\ t[a + p] = P[j][p]
  <2>1. t[a + p] = P[j][p]
    BY <1>0, StagedFacts
  <2>2. off \in [0 .. Len(P) -> Nat] /\ \A i \in 0 .. Len(P) - 1 : off[i + 1] = off[i] + Len(P[i + 1])
    BY <1>0 DEF Offsets
  <2> DEFINE i == j - 1
  <2>3. i \in 0 .. Len(P) - 1 /\ j = i + 1 /\ j \in 0 .. Len(P) /\ i \in 0 .. Len(P) /\ Len(P) \in 0 .. Len(P)
    BY <1>0
  <2>4. off[j] <= off[Len(P)]
    BY <1>0, <2>3, OffsetsGrow DEF Lengths
  <2>5. off[j] = a + Len(P[j]) /\ a \in Nat /\ off[j] \in Nat /\ off[Len(P)] \in Nat
    <3>1. a = off[i]
      OBVIOUS
    <3> HIDE DEF i, a
    <3> QED BY <2>2, <2>3, <3>1
  <2>6. Len(P[j]) \in Nat
    BY <1>0 DEF Lengths
  <2> HIDE DEF a
  <2>7. a + p \in 1 .. Len(t)
    BY <1>0, <2>4, <2>5, <2>6
  <2> QED BY <2>1, <2>7
<1>8. ASSUME NEW k \in 1 .. Len(t)
      PROVE  /\ RefAt(t, k, n) => Q[k] = value[n]
             /\ ~RefAt(t, k, n) /\ InsideOf(t, {n}, k) => Q[k] = <<>>
             /\ ~RefAt(t, k, n) /\ ~InsideOf(t, {n}, k) => Q[k] = <<t[k]>> /\ Len(Q[k]) = 1 /\ Q[k][1] = t[k]
  <2>1. HereIn(t, {n}, k) # {} <=> RefAt(t, k, n)
    BY <1>0, HereOne
  <2>2. HereIn(t, {n}, k) # {} => (CHOOSE m \in HereIn(t, {n}, k) : TRUE) = n
    BY DEF HereIn
  <2>3. Q[k] = IF HereIn(t, {n}, k) # {} THEN value[CHOOSE m \in HereIn(t, {n}, k) : TRUE]
               ELSE IF InsideOf(t, {n}, k) THEN <<>> ELSE <<t[k]>>
    <3>1. k \in DOMAIN t
      BY <1>0
    <3> QED BY <3>1 DEF StagePieces
  <2>4. \A x : Len(<<x>>) = 1 /\ <<x>>[1] = x
    OBVIOUS
  <2> QED BY <2>1, <2>2, <2>3, <2>4, Zenon
<1>9. CASE HereIn(text, D, j) # {}
  <2>1. ~RefAt(text, j, n) /\ HereIn(text, {n}, j) = {} /\ text[j] = "$"
    BY <1>0, <1>4, <1>5, <1>9, HereIsRef
  <2>2. HereIn(text, E, j) = HereIn(text, D, j)
    BY <1>2, <2>1
  <2>3. R[j] = P[j]
    <3>1. R[j] = value[CHOOSE m \in HereIn(text, D, j) : TRUE]
      BY <1>1, <1>9, <2>2
    <3>2. P[j] = value[CHOOSE m \in HereIn(text, D, j) : TRUE]
      BY <1>9, PieceKinds
    <3> QED BY <3>1, <3>2
  <2>4. ASSUME NEW p \in 1 .. Len(P[j]) PROVE Len(Q[a + p]) = 1 /\ Q[a + p][1] = P[j][p]
    <3> DEFINE k == a + p
    <3>1. k \in 1 .. Len(t) /\ t[k] = P[j][p] /\ k = off[j - 1] + p
      BY <1>7
    <3> HIDE DEF k
    <3>2. ~RefAt(t, k, n) /\ ~InsideOf(t, {n}, k)
      <4> HIDE DEF a, E
      <4>1. ~RefAt(t, k, n)
        BY <2>1, <3>1, RefHere
      <4>2. ~InsideOf(t, {n}, k)
        <5>1. ~InsideOf(text, {n}, j)
          BY <1>6, <2>1
        <5>2. k - off[j - 1] = p
          <6>1. off[j - 1] \in Nat
            BY <1>0 DEF Offsets
          <6> QED BY <3>1, <6>1
        <5>3. InsideOf(t, {n}, k) => InsideOf(text, {n}, j)
          BY <3>1, <5>2, RefAround
        <5> QED BY <5>1, <5>3
      <4> QED BY <4>1, <4>2
    <3>3. Len(Q[k]) = 1 /\ Q[k][1] = P[j][p]
      BY <1>8, <3>1, <3>2
    <3> QED BY <3>3 DEF k
  <2> QED BY <2>3, <2>4
<1>10. CASE HereIn(text, D, j) = {} /\ InsideOf(text, D, j)
  <2>1. P[j] = <<>>
    BY <1>10, PieceKinds
  <2>2. ~RefAt(text, j, n)
    BY <1>4, <1>6, <1>10
  <2>3. R[j] = <<>>
    BY <1>1, <1>2, <1>3, <1>5, <1>10, <2>2
  <2>4. 1 .. Len(P[j]) = {}
    BY <2>1
  <2> QED BY <2>1, <2>3, <2>4
<1>11. CASE Kept(text, D, j)
  <2>0. HereIn(text, D, j) = {} /\ ~InsideOf(text, D, j)
    BY <1>11 DEF Kept
  <2>1. P[j] = <<text[j]>> /\ Len(P[j]) = 1 /\ P[j][1] = text[j] /\ 1 \in 1 .. Len(P[j])
    BY <1>11, KeptPiece
  <2> DEFINE k == a + 1
  <2>2. k \in 1 .. Len(t) /\ t[k] = text[j] /\ k = off[j - 1] + 1
    BY <1>7, <2>1
  <2> HIDE DEF k
  <2> SUFFICES ASSUME NEW p \in 1 .. Len(P[j]), p = 1
               PROVE  \/ Len(P[j]) = 1 /\ Q[a + 1] = R[j]
                      \/ R[j] = P[j] /\ \A q \in 1 .. Len(P[j]) : Len(Q[a + q]) = 1 /\ Q[a + q][1] = P[j][q]
    BY <2>1
  <2>6. k \in 1 .. Len(t) /\ k = off[j - 1] + p
    BY <2>2
  <2>3. RefAt(t, k, n) <=> RefAt(text, j, n)
    <3> HIDE DEF a, E
    <3>1. RefAt(t, k, n) <=> p = 1 /\ RefAt(text, j, n)
      BY <2>6, RefHere
    <3> QED BY <3>1
  <2>4. InsideOf(t, {n}, k) <=> InsideOf(text, {n}, j)
    <3> HIDE DEF a, E
    <3>1. 1 \in 1 .. Len(P[j]) /\ k = off[j - 1] + 1
      BY <2>1, <2>2
    <3>2. off[j - 1] \in Nat
      <4>1. off \in [0 .. Len(P) -> Nat]
        BY <1>0, Zenon DEF Offsets
      <4>2. j - 1 \in 0 .. Len(P)
        BY <1>0
      <4> QED BY <4>1, <4>2, Zenon
    <3>3. k - off[j - 1] \in 1 .. Len(P[j])
      BY <3>1, <3>2
    <3> QED BY <2>6, <3>1, <3>3, RefAround, RefAroundStill
  <2>5. Q[k] = R[j]
    <3>1. CASE RefAt(text, j, n)
      <4>1. HereIn(text, E, j) # {} /\ (CHOOSE m \in HereIn(text, E, j) : TRUE) = n
        <5>1. HereIn(text, E, j) = HereIn(text, {n}, j) /\ HereIn(text, {n}, j) # {}
          BY <1>2, <1>5, <2>0, <3>1
        <5>2. \A m \in HereIn(text, {n}, j) : m = n
          BY DEF HereIn
        <5> QED BY <5>1, <5>2
      <4>2. R[j] = value[n]
        BY <1>1, <4>1, Zenon
      <4> QED BY <1>8, <2>2, <2>3, <3>1, <4>2
    <3>2. CASE ~RefAt(text, j, n)
      <4>1. HereIn(text, E, j) = {}
        BY <1>2, <1>5, <2>0, <3>2
      <4>2. R[j] = IF InsideOf(text, {n}, j) THEN <<>> ELSE <<text[j]>>
        BY <1>1, <1>3, <2>0, <4>1
      <4>3. CASE InsideOf(text, {n}, j)
        BY <1>8, <2>2, <2>3, <2>4, <3>2, <4>2, <4>3
      <4>4. CASE ~InsideOf(text, {n}, j)
        BY <1>8, <2>2, <2>3, <2>4, <3>2, <4>2, <4>4
      <4> QED BY <4>3, <4>4
    <3> QED BY <3>1, <3>2
  <2> QED BY <2>1, <2>2, <2>5
<1> QED BY <1>9, <1>10, <1>11, Zenon DEF Kept

\* Replacing the references to one more name, one occurrence after the other, is replacing them at once.
LEMMA ReplaceNext ==
  ASSUME NEW text \in Seq(STRING), WellFormed(text), NEW D, NEW n, n \notin D, NEW value,
         \A m \in D \cup {n} : value[m] \in Seq(STRING), \A m \in D : "$" \notin ToSet(value[m])
  PROVE  replaceAll(Stage(text, D, value), Ref(n), value[n]) = Stage(text, D \cup {n}, value)
<1> DEFINE P == StagePieces(text, D, value)
           t == Stage(text, D, value)
           Q == StagePieces(t, {n}, value)
           R == StagePieces(text, D \cup {n}, value)
           u == Stage(t, {n}, value)
           v == Stage(text, D \cup {n}, value)
<1>1. t \in Seq(STRING) /\ Len(P) = Len(text) /\ \E off : Pieces(P, off, t)
  BY StageTyped
<1>2. PICK off : Pieces(P, off, t)
  BY <1>1
<1>3. Staged(text, D, n, value, P, off, t)
  BY <1>2 DEF Staged
<1>4. Len(Q) = Len(t) /\ u \in Seq(STRING) /\ \E offQ : Pieces(Q, offQ, u)
  <2> HIDE DEF t
  <2>1. \A m \in {n} : value[m] \in Seq(STRING)
    OBVIOUS
  <2>2. t \in Seq(STRING)
    BY <1>1
  <2> DEFINE E == {n}
  <2>3. \A m \in E : value[m] \in Seq(STRING)
    BY <2>1
  <2> HIDE DEF E
  <2>4. /\ Len(StagePieces(t, E, value)) = Len(t) /\ Stage(t, E, value) \in Seq(STRING)
        /\ \E off1 : Pieces(StagePieces(t, E, value), off1, Stage(t, E, value))
    BY <2>2, <2>3, StageTyped
  <2> QED BY <2>4 DEF E
<1>5. PICK offQ : Pieces(Q, offQ, u)
  BY <1>4
<1>6. /\ Len(R) = Len(text) /\ v \in Seq(STRING) /\ \A j \in 1 .. Len(text) : Len(R[j]) \in Nat
      /\ \E offR : Pieces(R, offR, v)
  <2> DEFINE E == D \cup {n}
  <2>1. \A m \in E : value[m] \in Seq(STRING)
    OBVIOUS
  <2> HIDE DEF E
  <2>2. /\ Len(StagePieces(text, E, value)) = Len(text) /\ Stage(text, E, value) \in Seq(STRING)
        /\ \E off1 : Pieces(StagePieces(text, E, value), off1, Stage(text, E, value))
    BY <2>1, StageTyped
  <2>3. \A j \in 1 .. Len(text) : Len(StagePieces(text, E, value)[j]) \in Nat
    BY <2>1, StageTyped
  <2> QED BY <2>2, <2>3 DEF E
<1>7. PICK offR : Pieces(R, offR, v)
  BY <1>6
<1>8. Len(P) \in Nat /\ Offsets(P, off) /\ Len(t) = off[Len(P)] /\ Lengths(P)
  <2> HIDE DEF P, t
  <2> QED BY <1>3, StagedFacts
<1>9. SamePieces(P, off, Q, R)
  <2> HIDE DEF P, t
  <2>1. \A j \in 1 .. Len(P) : SamePieceAt(P, off, Q, R, j)
    <3> HIDE DEF Q, R
    <3> SUFFICES ASSUME NEW j \in 1 .. Len(text) PROVE SamePieceAt(P, off, Q, R, j)
      BY <1>1
    <3>1. Q = StagePieces(t, {n}, value) /\ R = StagePieces(text, D \cup {n}, value)
      BY DEF Q, R
    <3> QED BY <1>3, <3>1, SamePiece
  <2> HIDE DEF Q, R
  <2> QED BY <2>1 DEF SamePieces
<1>10. u = v
  <2> HIDE DEF P, Q, R, t, u, v
  <2>1. \A j \in 1 .. Len(P) : Len(P[j]) \in Nat /\ Len(R[j]) \in Nat
    BY <1>1, <1>6, <1>8 DEF Lengths
  <2>2. Len(R) = Len(P) /\ Len(Q) = off[Len(P)]
    BY <1>1, <1>4, <1>6, <1>8
  <2> QED BY <1>4, <1>5, <1>6, <1>7, <1>8, <1>9, <2>1, <2>2, SameText
<1>11. replaceAll(t, Ref(n), value[n]) = u
  <2> HIDE DEF t
  <2> QED BY <1>1, ReplaceOne
<1> QED BY <1>10, <1>11

\* With nothing to replace the text stays.
LEMMA StageNone == ASSUME NEW text \in Seq(STRING), NEW value PROVE Stage(text, {}, value) = text
<1> DEFINE P == StagePieces(text, {}, value)
           t == Stage(text, {}, value)
<1>1. t \in Seq(STRING) /\ Len(P) = Len(text) /\ \E off : Pieces(P, off, t)
  BY StageTyped
<1>2. PICK off : Pieces(P, off, t)
  BY <1>1
<1>3. \A j \in 1 .. Len(text) : P[j] = <<text[j]>>
  BY DEF StagePieces, HereIn, InsideOf
<1>4. \A j \in 1 .. Len(text) : Len(P[j]) = 1 /\ P[j][1] = text[j]
  <2> HIDE DEF P
  <2>1. \A x : Len(<<x>>) = 1 /\ <<x>>[1] = x
    OBVIOUS
  <2> QED BY <1>3, <2>1, Zenon
<1> HIDE DEF P, t
<1> DEFINE m == Len(text)
<1>5. m \in Nat /\ Len(P) = m /\ Offsets(P, off) /\ Len(t) = off[m]
      /\ \A j \in 1 .. m : \A p \in 1 .. Len(P[j]) : t[off[j - 1] + p] = P[j][p]
  BY <1>1, <1>2 DEF Pieces
<1>6. \A p \in 0 .. m : off[p] = p
  <2>1. \A p \in 1 .. m : 0 + p = p
    OBVIOUS
  <2>2. Ones(P, 0, m)
    BY <1>4, <2>1 DEF Ones
  <2>3. 0 + m <= Len(P) /\ Len(P) \in Nat
    BY <1>5
  <2>4. \A p \in 0 .. m : off[0 + p] = off[0] + p
    <3> HIDE DEF m
    <3> QED BY <1>5, <2>2, <2>3, Run
  <2>5. off[0] = 0
    BY <1>5 DEF Offsets
  <2>6. \A p \in 0 .. m : 0 + p = p
    OBVIOUS
  <2> QED BY <2>4, <2>5, <2>6
<1>7. Len(t) = m
  BY <1>5, <1>6
<1>8. ASSUME NEW j \in 1 .. m PROVE t[j] = text[j]
  <2>1. j - 1 \in 0 .. m /\ (j - 1) + 1 = j /\ Len(P[j]) = 1 /\ P[j][1] = text[j]
    BY <1>4
  <2>2. t[off[j - 1] + 1] = P[j][1]
    BY <1>5, <2>1
  <2>3. off[j - 1] = j - 1
    BY <1>6, <2>1
  <2> QED BY <2>1, <2>2, <2>3
<1> QED BY <1>1, <1>7, <1>8 DEF t

-----------------------------------------------------------------------------
(* Configurations, variables and values *)

LEMMA Least == ASSUME NEW T \in SUBSET Nat, T # {} PROVE \E m \in T : \A k \in T : m <= k
<1>1. PICK m \in T : \A k \in T : ~(<<k, m>> \in OpToRel(<, Nat))
  BY NatLessThanWellFounded, WFMin
<1>2. \A k \in T : ~(k < m)
  BY <1>1 DEF OpToRel
<1> QED BY <1>2

LEMMA Greatest == ASSUME NEW n \in Nat, NEW T \in SUBSET (1 .. n), T # {} PROVE \E m \in T : \A k \in T : k <= m
<1> DEFINE U == {i \in 0 .. n : n - i \in T}
<1>1. U \in SUBSET Nat /\ U # {}
  <2>1. PICK k \in T : TRUE
    OBVIOUS
  <2>2. n - k \in 0 .. n /\ n - (n - k) = k
    BY <2>1
  <2>3. n - k \in U
    BY <2>2, Zenon
  <2>4. U \in SUBSET Nat
    OBVIOUS
  <2> HIDE DEF U
  <2> QED BY <2>3, <2>4
<1>2. PICK i \in U : \A j \in U : i <= j
  <2> HIDE DEF U
  <2> QED BY <1>1, Least
<1>3. ASSUME NEW k \in T PROVE k <= n - i
  <2>1. n - k \in 0 .. n /\ n - (n - k) = k
    OBVIOUS
  <2>2. i <= n - k
    BY <1>2, <2>1
  <2> QED BY <2>2
<1> QED BY <1>2, <1>3

LEMMA ConfigTyped ==
  ASSUME NEW c \in Configs
  PROVE  /\ c.labels \in Seq(Label) /\ c.variables \in Seq(Variable) /\ c.buckets \in SUBSET Int
         /\ \A i \in DOMAIN c.labels : c.labels[i].key \in ToSet(KeyOrder) /\ c.labels[i].value \in Seq(STRING)
         /\ \A i \in DOMAIN c.variables : /\ c.variables[i].name \in STRING
                                          /\ c.variables[i].target \in {"topic", "payload"}
                                          /\ c.variables[i].regex \in DOMAIN Regex
<1>1. c \in [labels : Seq(Label), variables : Seq(Variable), buckets : SUBSET Int]
  BY ParametersOK, Zenon DEF ParametersOK
<1>2. c.labels \in Seq(Label) /\ c.variables \in Seq(Variable) /\ c.buckets \in SUBSET Int
  BY <1>1
<1>3. (\A i \in DOMAIN c.labels : c.labels[i] \in Label) /\ \A i \in DOMAIN c.variables : c.variables[i] \in Variable
  BY <1>2
<1>4. \A x \in Label : x.key \in ToSet(KeyOrder) /\ x.value \in Seq(STRING)
  BY DEF Label
<1>5. \A x \in Variable : x.name \in STRING /\ x.target \in {"topic", "payload"} /\ x.regex \in DOMAIN Regex
  BY DEF Variable
<1> QED BY <1>2, <1>3, <1>4, <1>5, Zenon

LEMMA NamesFinite == ASSUME NEW c \in Configs PROVE IsFiniteSet(NamesOf(c)) /\ NamesOf(c) \subseteq STRING
<1> DEFINE v == c.variables
           f == [i \in 1 .. Len(v) |-> v[i].name]
<1>1. v \in Seq(Variable) /\ Len(v) \in Nat /\ DOMAIN v = 1 .. Len(v) /\ \A i \in DOMAIN v : v[i].name \in STRING
  BY ConfigTyped
<1> HIDE DEF v
<1>2. NamesOf(c) = {v[i].name : i \in 1 .. Len(v)}
  BY <1>1 DEF NamesOf, v
<1>3. f \in Surjection(1 .. Len(v), NamesOf(c))
  BY <1>2 DEF Surjection
<1>4. IsFiniteSet(NamesOf(c))
  BY <1>1, <1>3, FS_Interval, FS_Surjection
<1> QED BY <1>1, <1>2, <1>4

\* The orders of iteration are sequences of all the names without a repetition.
LEMMA OrderTyped ==
  ASSUME NEW S, IsFiniteSet(S), NEW o \in SetToSeqs(S)
  PROVE  o \in Seq(S) /\ ToSet(o) = S /\ \A i, j \in 1 .. Len(o) : o[i] = o[j] => i = j
<1> DEFINE n == Cardinality(S)
<1>1. n \in Nat
  BY FS_CardinalityType
<1>2. o \in [1 .. n -> S] /\ \A i, j \in 1 .. n : i # j => o[i] # o[j]
  BY DEF SetToSeqs
<1> HIDE DEF n
<1>3. o \in Seq(S) /\ Len(o) = n
  BY <1>1, <1>2
<1>4. o \in Injection(1 .. n, S)
  BY <1>2 DEF Injection, IsInjective
<1>5. IsFiniteSet(1 .. n) /\ Cardinality(1 .. n) = n
  BY <1>1, FS_Interval
<1>6. o \in Surjection(1 .. n, S)
  BY <1>4, <1>5, FS_Injection DEF n
<1>7. ToSet(o) = S
  BY <1>2, <1>6 DEF Surjection, ToSet
<1> QED BY <1>2, <1>3, <1>7

\* Values are parts of the texts that arrive.
LEMMA TextTyped ==
  ASSUME NEW t \in Payloads \cup MessageTopics PROVE t \in Seq(STRING) /\ ToSet(t) \subseteq Tokens /\ ToSet(t) \subseteq STRING
<1>1. t \in Seq(STRING)
  BY ParametersOK, Zenon DEF ParametersOK
<1>2. ToSet(t) \subseteq Tokens
  BY Zenon DEF Tokens
<1> QED BY <1>1, <1>2 DEF ToSet

LEMMA TokensAreStrings == \A w \in Seq(Tokens) : w \in Seq(STRING)
<1>1. Tokens \subseteq STRING
  <2> DEFINE texts == UNION {{d.labels[j].value : j \in DOMAIN d.labels} : d \in Configs}
  <2>1. Tokens = UNION {ToSet(t) : t \in Payloads \cup MessageTopics \cup texts}
    BY DEF Tokens
  <2>2. \A t \in texts : t \in Seq(STRING)
    BY ConfigTyped
  <2>3. \A t \in texts : ToSet(t) \subseteq STRING
    <3> HIDE DEF texts
    <3> QED BY <2>2 DEF ToSet
  <2> HIDE DEF texts
  <2> QED BY <2>1, <2>3, TextTyped
<1>2. ASSUME NEW S, NEW T, S \subseteq T, NEW w \in Seq(S) PROVE w \in Seq(T)
  BY <1>2
<1> QED BY <1>1, <1>2

LEMMA ParseTyped ==
  ASSUME NEW c \in Configs, NEW topic \in MessageTopics, NEW payload \in Payloads
  PROVE  Parse(c.variables, topic, payload) \in [NamesOf(c) -> Seq(Tokens)]
<1> DEFINE v == c.variables
           Source(x) == IF x.target = "topic" THEN topic ELSE payload
           Value(x) == LET m == Regex[x.regex][Source(x)] IN IF m = NoMatch THEN <<>> ELSE m
           IsLast(n, i) == v[i].name = n /\ \A j \in DOMAIN v : v[j].name = n => j <= i
           LastOf(n) == CHOOSE i \in DOMAIN v : IsLast(n, i)
<1>1. /\ v \in Seq(Variable) /\ DOMAIN v = 1 .. Len(v) /\ Len(v) \in Nat
      /\ \A i \in DOMAIN v : v[i].regex \in DOMAIN Regex
  BY ConfigTyped
<1>2. Parse(c.variables, topic, payload) = [n \in NamesOf(c) |-> Value(v[LastOf(n)])]
  BY DEF Parse, NamesOf
<1> HIDE DEF v
<1>3. ASSUME NEW i \in DOMAIN v PROVE Value(v[i]) \in Seq(Tokens)
  <2> DEFINE t == Source(v[i])
             m == Regex[v[i].regex][t]
  <2>1. t \in Payloads \cup MessageTopics
    OBVIOUS
  <2>2. m # NoMatch => m \in Seq(ToSet(t))
    <3>1. v[i].regex \in DOMAIN Regex
      BY <1>1
    <3> HIDE DEF t
    <3> QED BY <2>1, <3>1, ParametersOK, Zenon DEF ParametersOK
  <2>3. ToSet(t) \subseteq Tokens
    <3> HIDE DEF t
    <3> QED BY <2>1, TextTyped
  <2>4. m # NoMatch => m \in Seq(Tokens)
    <3> HIDE DEF m, t
    <3> QED BY <2>2, <2>3
  <2>5. <<>> \in Seq(Tokens)
    OBVIOUS
  <2>6. Value(v[i]) = IF m = NoMatch THEN <<>> ELSE m
    OBVIOUS
  <2> HIDE DEF m, Value
  <2> QED BY <2>4, <2>5, <2>6
<1>4. ASSUME NEW n \in NamesOf(c) PROVE LastOf(n) \in DOMAIN v
  <2> DEFINE T == {i \in 1 .. Len(v) : v[i].name = n}
  <2>1. T \in SUBSET (1 .. Len(v)) /\ T # {}
    BY <1>1 DEF NamesOf, v
  <2>2. PICK i \in T : \A k \in T : k <= i
    <3> HIDE DEF T
    <3> QED BY <1>1, <2>1, Greatest
  <2>3. \E j \in DOMAIN v : IsLast(n, j)
    BY <1>1, <2>2
  <2> HIDE DEF IsLast
  <2> QED BY <2>3
<1> HIDE DEF Value, LastOf
<1> QED BY <1>2, <1>3, <1>4

IsLabelSet(s) == s \in [DOMAIN s -> Seq(Tokens)] /\ DOMAIN s \subseteq ToSet(KeyOrder)

\* The labels with a "$", by position, and the first of a key among them.
Templates(c) == {i \in DOMAIN c.labels : "$" \in ToSet(c.labels[i].value)}
IsFirst(c, i) ==
  i \in Templates(c) /\ \A j \in Templates(c) : c.labels[j].key = c.labels[i].key => i <= j

\* The variable labels are label sets; they have the keys of the labels with a "$", and hold
\* the first text of each.
LEMMA VariableLabelsTyped ==
  ASSUME NEW c \in Configs
  PROVE  /\ IsLabelSet(VariableLabels(c))
         /\ DOMAIN VariableLabels(c) = {c.labels[i].key : i \in Templates(c)}
         /\ \A k \in DOMAIN VariableLabels(c) : VariableLabels(c)[k] \in Seq(STRING)
         /\ \A i : IsFirst(c, i) => VariableLabels(c)[c.labels[i].key] = c.labels[i].value
<1> DEFINE l == c.labels
           variable == Templates(c)
           keys == {l[i].key : i \in variable}
           First(k, i) == l[i].key = k /\ \A j \in variable : l[j].key = k => i <= j
           V == VariableLabels(c)
<1>1. /\ DOMAIN l = 1 .. Len(l) /\ Len(l) \in Nat
      /\ \A i \in DOMAIN l : l[i].key \in ToSet(KeyOrder) /\ l[i].value \in Seq(STRING)
  BY ConfigTyped
<1>2. V = [k \in keys |-> l[CHOOSE i \in variable : First(k, i)].value]
  BY DEF VariableLabels, Templates
<1>3. variable \subseteq DOMAIN l
  BY DEF Templates
<1>4. ASSUME NEW i \in DOMAIN l PROVE l[i].value \in Seq(Tokens)
  <2> DEFINE w == l[i].value
  <2>1. w \in Seq(STRING)
    BY <1>1
  <2>2. ToSet(w) \subseteq Tokens
    <3>1. w \in {c.labels[j].value : j \in DOMAIN c.labels}
      OBVIOUS
    <3> HIDE DEF w, l
    <3> DEFINE texts == UNION {{d.labels[j].value : j \in DOMAIN d.labels} : d \in Configs}
    <3>2. w \in texts
      BY <3>1, Zenon
    <3>3. Tokens = UNION {ToSet(t) : t \in Payloads \cup MessageTopics \cup texts}
      BY DEF Tokens
    <3> HIDE DEF texts
    <3> QED BY <3>2, <3>3, Zenon
  <2> HIDE DEF w
  <2>3. w \in Seq(Tokens)
    <3>1. \A j \in 1 .. Len(w) : w[j] \in ToSet(w)
      BY <2>1 DEF ToSet
    <3> QED BY <2>1, <2>2, <3>1
  <2> QED BY <2>3 DEF w
<1> HIDE DEF variable
<1>5. ASSUME NEW k, NEW m \in variable, First(k, m)
      PROVE  (CHOOSE i \in variable : First(k, i)) = m
  <2>1. \A i \in variable : First(k, i) => i = m
    BY <1>1, <1>3, <1>5
  <2> HIDE DEF First
  <2> QED BY <1>5, <2>1
<1>6. keys \subseteq ToSet(KeyOrder)
  BY <1>1, <1>3
<1>7. ASSUME NEW k \in keys PROVE V[k] \in Seq(Tokens) /\ V[k] \in Seq(STRING)
  <2> DEFINE T == {i \in variable : l[i].key = k}
  <2>1. T \in SUBSET Nat /\ T # {}
    BY <1>1, <1>3
  <2>2. PICK m \in T : \A j \in T : m <= j
    <3> HIDE DEF T
    <3> QED BY <2>1, Least
  <2>3. m \in variable /\ m \in DOMAIN l /\ First(k, m)
    BY <1>3, <2>2
  <2> HIDE DEF First, keys, V, T
  <2>4. V[k] = l[m].value
    BY <1>2, <1>5, <2>3
  <2> QED BY <1>1, <1>4, <2>3, <2>4
<1>8. ASSUME NEW i, IsFirst(c, i) PROVE V[l[i].key] = l[i].value
  <2>1. i \in variable /\ l[i].key \in keys /\ First(l[i].key, i)
    BY <1>8 DEF IsFirst, variable
  <2> HIDE DEF First, keys, V
  <2> QED BY <1>2, <1>5, <2>1
<1>9. DOMAIN V = keys
  <2> HIDE DEF V, First
  <2> QED BY <1>2
<1> HIDE DEF First, keys
<1>10. IsLabelSet(V) /\ \A k \in DOMAIN V : V[k] \in Seq(STRING)
  <2> HIDE DEF V
  <2> QED BY <1>2, <1>6, <1>7, <1>9 DEF IsLabelSet
<1> QED BY <1>8, <1>9, <1>10 DEF keys, variable

-----------------------------------------------------------------------------
(* Types *)

\* What holds in every reachable state of the configuration and the order, of the values and
\* the label sets, and of the counters.
OrderInv ==
  /\ config \in Configs /\ order \in Seq(STRING) /\ ToSet(order) = NamesOf(config)
  /\ \A i, j \in 1 .. Len(order) : order[i] = order[j] => i = j
ValueInv ==
  /\ sent > 0 => parsed \in [NamesOf(config) -> Seq(Tokens)]
  /\ next # 0 => sent > 0 /\ DOMAIN labels = DOMAIN VariableLabels(config)
  /\ IsLabelSet(labels) /\ \A s \in series : IsLabelSet(s) /\ DOMAIN s = DOMAIN VariableLabels(config)
CountInv ==
  /\ next \in 0 .. Len(order) + 1 /\ sent \in 0 .. MaxMessages
  /\ IsFiniteSet(series) /\ Cardinality(series) + (IF next = 0 THEN 0 ELSE 1) <= sent

LEMMA OrderInit == Init => OrderInv
<1> SUFFICES ASSUME Init PROVE OrderInv
  OBVIOUS
<1>1. config \in Configs /\ order \in SetToSeqs(NamesOf(config))
  BY DEF Init
<1>2. IsFiniteSet(NamesOf(config)) /\ NamesOf(config) \subseteq STRING
  BY <1>1, NamesFinite
<1>3. order \in Seq(NamesOf(config)) /\ ToSet(order) = NamesOf(config) /\ \A i, j \in 1 .. Len(order) : order[i] = order[j] => i = j
  BY <1>1, <1>2, OrderTyped
<1>4. order \in Seq(STRING)
  BY <1>2, <1>3
<1> QED BY <1>1, <1>3, <1>4 DEF OrderInv

LEMMA OrderStep == OrderInv /\ [Next]_vars => OrderInv'
<1> SUFFICES ASSUME OrderInv, [Next]_vars PROVE OrderInv'
  OBVIOUS
<1>1. config' = config /\ order' = order
  BY DEF Next, Arrive, Replace, NewSample, vars
<1> QED BY <1>1 DEF OrderInv, NamesOf

LEMMA ReplacedTyped ==
  ASSUME NEW S, NEW text \in Seq(S), NEW n, NEW value, value[n] \in Seq(S)
  PROVE  replaceAll(text, Ref(n), value[n]) \in Seq(S)
<1> DEFINE E == {n}
<1>1. \A m \in E : value[m] \in Seq(S)
  OBVIOUS
<1> HIDE DEF E
<1>2. Stage(text, E, value) \in Seq(S)
  BY <1>1, StageTyped
<1> QED BY <1>2, ReplaceOne DEF E

LEMMA NoLabels == IsLabelSet(<<>>)
<1>1. DOMAIN <<>> = {} /\ <<>> \in [{} -> Seq(Tokens)]
  OBVIOUS
<1> QED BY <1>1 DEF IsLabelSet

LEMMA ValueInit == Init => ValueInv /\ CountInv
<1> SUFFICES ASSUME Init PROVE ValueInv /\ CountInv
  OBVIOUS
<1>1. labels = <<>> /\ next = 0 /\ series = {} /\ sent = 0 /\ order \in Seq(STRING)
  BY OrderInit DEF Init, OrderInv
<1>2. ValueInv
  BY <1>1, NoLabels DEF ValueInv
<1>3. CountInv
  <2>1. IsFiniteSet(series) /\ Cardinality(series) = 0
    BY <1>1, FS_EmptySet
  <2>2. MaxMessages \in Nat /\ Len(order) \in Nat
    BY <1>1, ParametersOK DEF ParametersOK
  <2> QED BY <1>1, <2>1, <2>2 DEF CountInv
<1> QED BY <1>2, <1>3

LEMMA ValueStep == OrderInv /\ ValueInv /\ CountInv /\ [Next]_vars => ValueInv'
<1> SUFFICES ASSUME OrderInv, ValueInv, CountInv, [Next]_vars PROVE ValueInv'
  OBVIOUS
<1>0. /\ config' = config /\ NamesOf(config') = NamesOf(config) /\ VariableLabels(config') = VariableLabels(config)
      /\ config \in Configs /\ sent \in Nat
  <2>1. config' = config
    BY DEF Next, Arrive, Replace, NewSample, vars
  <2>2. config \in Configs /\ sent \in Nat
    BY ParametersOK DEF OrderInv, CountInv, ParametersOK
  <2> QED BY <2>1, <2>2
<1>1. CASE Arrive
  <2>1. PICK topic \in MessageTopics, payload \in Payloads : parsed' = Parse(config.variables, topic, payload)
    BY <1>1 DEF Arrive
  <2>2. parsed' \in [NamesOf(config) -> Seq(Tokens)]
    BY <1>0, <2>1, ParseTyped
  <2>3. labels' = VariableLabels(config) /\ series' = series /\ sent' = sent + 1
    BY <1>1 DEF Arrive
  <2>4. IsLabelSet(labels')
    BY <1>0, <2>3, VariableLabelsTyped
  <2>5. \A s \in series' : IsLabelSet(s) /\ DOMAIN s = DOMAIN VariableLabels(config)
    BY <2>3 DEF ValueInv
  <2>6. sent' > 0 /\ DOMAIN labels' = DOMAIN VariableLabels(config')
    BY <1>0, <2>3
  <2> QED BY <1>0, <2>2, <2>4, <2>5, <2>6 DEF ValueInv
<1>2. CASE Replace
  <2>1. /\ next \in DOMAIN order /\ next' = next + 1 /\ parsed' = parsed /\ series' = series /\ sent' = sent
        /\ labels' = [k \in DOMAIN labels |-> replaceAll(labels[k], Ref(order[next]), parsed[order[next]])]
    BY <1>2 DEF Replace
  <2>2. next # 0 /\ order[next] \in NamesOf(config)
    BY <2>1 DEF OrderInv, ToSet
  <2>3. sent > 0 /\ parsed \in [NamesOf(config) -> Seq(Tokens)] /\ DOMAIN labels = DOMAIN VariableLabels(config)
        /\ labels \in [DOMAIN labels -> Seq(Tokens)] /\ DOMAIN labels \subseteq ToSet(KeyOrder)
    BY <2>2 DEF ValueInv, IsLabelSet
  <2>4. \A k \in DOMAIN labels : replaceAll(labels[k], Ref(order[next]), parsed[order[next]]) \in Seq(Tokens)
    <3>1. parsed[order[next]] \in Seq(Tokens)
      BY <2>2, <2>3
    <3> QED BY <2>3, <3>1, ReplacedTyped
  <2>5. DOMAIN labels' = DOMAIN labels /\ labels' \in [DOMAIN labels -> Seq(Tokens)]
    BY <2>1, <2>4
  <2>6. IsLabelSet(labels')
    BY <2>3, <2>5 DEF IsLabelSet
  <2> QED BY <1>0, <2>1, <2>3, <2>5, <2>6 DEF ValueInv
<1>3. CASE NewSample
  <2>1. next' = 0 /\ series' = series \cup {labels} /\ parsed' = parsed /\ labels' = labels /\ sent' = sent
    BY <1>3 DEF NewSample
  <2>2. next # 0
    BY <1>3 DEF NewSample, Replaced, OrderInv
  <2> QED BY <1>0, <2>1, <2>2 DEF ValueInv
<1>4. CASE UNCHANGED vars
  BY <1>0, <1>4 DEF vars, ValueInv
<1> QED BY <1>1, <1>2, <1>3, <1>4 DEF Next

LEMMA CountStep == OrderInv /\ CountInv /\ [Next]_vars => CountInv'
<1> SUFFICES ASSUME OrderInv, CountInv, [Next]_vars PROVE CountInv'
  OBVIOUS
<1>0. order \in Seq(STRING) /\ Len(order) \in Nat /\ MaxMessages \in Nat /\ IsFiniteSet(series) /\ Cardinality(series) \in Nat
  BY FS_CardinalityType, ParametersOK DEF OrderInv, CountInv, ParametersOK
<1>1. CASE Arrive
  <2>1. next = 0 /\ next' = 1 /\ sent < MaxMessages /\ sent' = sent + 1 /\ series' = series /\ order' = order
    BY <1>1 DEF Arrive
  <2> QED BY <1>0, <2>1 DEF CountInv
<1>2. CASE Replace
  <2>1. next \in DOMAIN order /\ next' = next + 1 /\ sent' = sent /\ series' = series /\ order' = order
    BY <1>2 DEF Replace
  <2>2. next \in 1 .. Len(order)
    BY <1>0, <2>1
  <2> QED BY <1>0, <2>1, <2>2 DEF CountInv
<1>3. CASE NewSample
  <2>1. next = Len(order) + 1 /\ next' = 0 /\ sent' = sent /\ series' = series \cup {labels} /\ order' = order
    BY <1>3 DEF NewSample, Replaced
  <2>2. IsFiniteSet(series') /\ Cardinality(series') <= Cardinality(series) + 1 /\ Cardinality(series') \in Nat
    <3>1. IsFiniteSet(series') /\ Cardinality(series') = IF labels \in series THEN Cardinality(series) ELSE Cardinality(series) + 1
      BY <1>0, <2>1, FS_AddElement
    <3> QED BY <1>0, <3>1
  <2>3. Cardinality(series) + 1 <= sent /\ sent \in 0 .. MaxMessages
    BY <1>0, <2>1 DEF CountInv
  <2> QED BY <1>0, <2>1, <2>2, <2>3 DEF CountInv
<1>4. CASE UNCHANGED vars
  BY <1>4 DEF vars, CountInv
<1> QED BY <1>1, <1>2, <1>3, <1>4 DEF Next

LEMMA TypeInv == Spec => [](OrderInv /\ ValueInv /\ CountInv)
<1>1. Init => OrderInv /\ ValueInv /\ CountInv
  BY OrderInit, ValueInit
<1>2. OrderInv /\ ValueInv /\ CountInv /\ [Next]_vars => (OrderInv /\ ValueInv /\ CountInv)'
  BY OrderStep, ValueStep, CountStep
<1> QED BY <1>1, <1>2, PTL DEF Spec

\* The configuration, the values, the label sets and the counters are of their types: every
\* variable of a message has a value, and a label set holds configured labels only.
THEOREM Typed == Spec => []TypeOK
<1>1. OrderInv /\ ValueInv /\ CountInv => TypeOK
  <2> SUFFICES ASSUME OrderInv, ValueInv, CountInv PROVE TypeOK
    OBVIOUS
  <2>1. config \in Configs /\ ToSet(order) = NamesOf(config) /\ next \in 0 .. Len(order) + 1 /\ sent \in 0 .. MaxMessages
    BY DEF OrderInv, CountInv
  <2>2. sent > 0 => DOMAIN parsed = NamesOf(config)
    BY DEF ValueInv
  <2>3. \A s \in series \cup {labels} : DOMAIN s \subseteq ToSet(KeyOrder) /\ \A k \in DOMAIN s : ToSet(s[k]) \subseteq Tokens
    <3>1. \A w \in Seq(Tokens) : ToSet(w) \subseteq Tokens
      BY DEF ToSet
    <3>2. \A s \in series \cup {labels} : IsLabelSet(s)
      BY DEF ValueInv
    <3> QED BY <3>1, <3>2 DEF IsLabelSet
  <2>4. Cardinality(series) <= sent
    <3>1. Cardinality(series) \in Nat /\ sent \in Nat
      BY <2>1, FS_CardinalityType, ParametersOK DEF CountInv, ParametersOK
    <3> QED BY <3>1 DEF CountInv
  <2> QED BY <2>1, <2>2, <2>3, <2>4 DEF TypeOK
<1> QED BY <1>1, TypeInv, PTL

-----------------------------------------------------------------------------
(* The labels are the configured ones *)

\* While a message is handled, the references to the variables so far are replaced.
StageInv ==
  next # 0 /\ (\A n \in NamesOf(config) : "$" \notin ToSet(parsed[n])) =>
    \A k \in DOMAIN labels : WellFormed(VariableLabels(config)[k]) =>
      labels[k] = Stage(VariableLabels(config)[k], {order[i] : i \in 1 .. next - 1}, parsed)

LEMMA StageStep == OrderInv /\ ValueInv /\ CountInv /\ StageInv /\ [Next]_vars => StageInv'
<1> SUFFICES ASSUME OrderInv, ValueInv, CountInv, StageInv, [Next]_vars PROVE StageInv'
  OBVIOUS
<1>0. config' = config /\ order' = order /\ config \in Configs
  BY DEF Next, Arrive, Replace, NewSample, vars, OrderInv
<1>1. CASE Arrive
  <2>1. next' = 1 /\ labels' = VariableLabels(config)
    BY <1>1 DEF Arrive
  <2>2. {order[i] : i \in 1 .. 1 - 1} = {}
    OBVIOUS
  <2>3. \A k \in DOMAIN labels' : labels'[k] = Stage(VariableLabels(config)[k], {}, parsed')
    BY <1>0, <2>1, VariableLabelsTyped, StageNone
  <2> QED BY <1>0, <2>1, <2>2, <2>3 DEF StageInv
<1>2. CASE Replace
  <2>1. /\ next \in DOMAIN order /\ next' = next + 1 /\ parsed' = parsed
        /\ labels' = [k \in DOMAIN labels |-> replaceAll(labels[k], Ref(order[next]), parsed[order[next]])]
    BY <1>2 DEF Replace
  <2> SUFFICES ASSUME \A n \in NamesOf(config) : "$" \notin ToSet(parsed[n]),
                      NEW k \in DOMAIN labels, WellFormed(VariableLabels(config)[k])
               PROVE  labels'[k] = Stage(VariableLabels(config)[k], {order[i] : i \in 1 .. next}, parsed)
    <3>1. (next + 1) - 1 = next /\ DOMAIN labels' = DOMAIN labels
      BY <2>1 DEF OrderInv
    <3>2. next' - 1 = next /\ order' = order /\ config' = config /\ parsed' = parsed
      BY <1>0, <2>1, <3>1
    <3>3. NamesOf(config') = NamesOf(config) /\ VariableLabels(config') = VariableLabels(config)
      BY <1>0
    <3> HIDE DEF NamesOf, VariableLabels
    <3> QED BY <3>1, <3>2, <3>3, Zenon DEF StageInv
  <2> DEFINE n == order[next]
             D == {order[i] : i \in 1 .. next - 1}
             text == VariableLabels(config)[k]
  <2>2. next # 0 /\ next \in 1 .. Len(order) /\ n \in NamesOf(config)
    BY <2>1 DEF OrderInv, ToSet
  <2>3. sent > 0 /\ parsed \in [NamesOf(config) -> Seq(Tokens)] /\ DOMAIN labels = DOMAIN VariableLabels(config)
    BY <2>2 DEF ValueInv
  <2>4. text \in Seq(STRING)
    BY <1>0, <2>3, VariableLabelsTyped
  <2>5. D \subseteq NamesOf(config) /\ n \notin D
    BY <2>2 DEF OrderInv, ToSet
  <2>6. D \cup {n} = {order[i] : i \in 1 .. next}
    BY <2>2
  <2>7. \A m \in D \cup {n} : parsed[m] \in Seq(STRING)
    BY <2>2, <2>3, <2>5, TokensAreStrings
  <2>8. \A m \in D : "$" \notin ToSet(parsed[m])
    BY <2>5
  <2>9. labels[k] = Stage(text, D, parsed)
    BY <2>2 DEF StageInv
  <2>10. labels'[k] = replaceAll(labels[k], Ref(n), parsed[n])
    BY <2>1
  <2>11. WellFormed(text)
    OBVIOUS
  <2> HIDE DEF D, n, text
  <2>12. replaceAll(Stage(text, D, parsed), Ref(n), parsed[n]) = Stage(text, D \cup {n}, parsed)
    BY <2>4, <2>5, <2>7, <2>8, <2>11, ReplaceNext
  <2>13. labels'[k] = Stage(text, D \cup {n}, parsed)
    BY <2>9, <2>10, <2>12
  <2> QED BY <2>6, <2>13 DEF text
<1>3. CASE NewSample
  BY <1>3 DEF NewSample, StageInv
<1>4. CASE UNCHANGED vars
  BY <1>4 DEF vars, StageInv, NamesOf
<1> QED BY <1>1, <1>2, <1>3, <1>4 DEF Next

\* The labels of a message have the keys of the configured labels with a "$", and only those:
\* the others are dropped.  Each is the first text with a "$" of its key, with every reference
\* replaced by the value of its variable, in whatever order the unordered_map yields the
\* variables, unless a value holds a "$" or a text builds one reference out of another.
THEOREM Configured == Spec => []LabelsAsConfigured
<1>1. Init => StageInv
  BY DEF Init, StageInv
<1>2. OrderInv /\ ValueInv /\ CountInv /\ StageInv => LabelsAsConfigured
  <2> SUFFICES ASSUME OrderInv, ValueInv, CountInv, StageInv, Replaced
               PROVE  LabelsAsConfigured
    BY DEF LabelsAsConfigured
  <2>1. config \in Configs /\ order \in Seq(STRING) /\ ToSet(order) = NamesOf(config) /\ next = Len(order) + 1
    BY DEF OrderInv, Replaced
  <2>2. next # 0 /\ next - 1 = Len(order)
    BY <2>1
  <2>3. DOMAIN labels = {config.labels[i].key : i \in Templates(config)}
    BY <2>1, <2>2, VariableLabelsTyped DEF ValueInv
  <2>4. ASSUME \A n \in NamesOf(config) : "$" \notin ToSet(parsed[n]),
               NEW i, IsFirst(config, i), WellFormed(config.labels[i].value)
        PROVE  labels[config.labels[i].key] = Substituted(config.labels[i].value)
    <3> DEFINE k == config.labels[i].key
               text == config.labels[i].value
    <3>1. k \in DOMAIN labels
      BY <2>3, <2>4 DEF IsFirst
    <3>2. VariableLabels(config)[k] = text
      BY <2>1, <2>4, VariableLabelsTyped
    <3>3. {order[j] : j \in 1 .. next - 1} = NamesOf(config)
      BY <2>1, <2>2 DEF ToSet
    <3> HIDE DEF k, text
    <3>4. labels[k] = Stage(text, NamesOf(config), parsed)
      BY <2>2, <2>4, <3>1, <3>2, <3>3 DEF StageInv, text
    <3>5. Stage(text, NamesOf(config), parsed) = Substituted(text)
      BY Zenon DEF Stage, StagePieces, HereIn, InsideOf, Substituted
    <3> QED BY <3>4, <3>5 DEF k, text
  <2> QED BY <2>3, <2>4, Zenon DEF LabelsAsConfigured, Templates, IsFirst
<1> QED BY <1>1, <1>2, StageStep, TypeInv, PTL DEF Spec

-----------------------------------------------------------------------------
(* What a scrape tells apart *)

\* A value between its quotes.
Between(k, e, q, v, c) == <<k, e, q>> \o v \o <<q, c>>
IsQuoted(x, v, q) == Len(x) = Len(v) + 5 /\ x[Len(v) + 4] = q /\ \A p \in 1 .. Len(v) : x[p + 3] = v[p]
LEMMA QuotedText ==
  ASSUME NEW S, NEW k \in S, NEW e \in S, NEW q \in S, NEW c \in S, NEW v \in Seq(S)
  PROVE  Between(k, e, q, v, c) \in Seq(S) /\ IsQuoted(Between(k, e, q, v, c), v, q)
<1> DEFINE x == Between(k, e, q, v, c)
           l == <<k, e, q>>
           r == <<q, c>>
<1>1. l \in Seq(S) /\ Len(l) = 3 /\ r \in Seq(S) /\ Len(r) = 2 /\ r[1] = q
  OBVIOUS
<1> HIDE DEF l, r
<1> DEFINE y == l \o v
<1>2. y \in Seq(S) /\ Len(y) = Len(v) + 3 /\ \A p \in 1 .. Len(v) : p + 3 \in 1 .. Len(y) /\ y[p + 3] = v[p]
  <2>1. y \in Seq(S) /\ Len(y) = Len(l) + Len(v) /\ \A p \in 1 .. Len(v) : Len(l) + p \in 1 .. Len(y) /\ y[Len(l) + p] = v[p]
    <3>1. y = l \o v
      OBVIOUS
    <3>2. l \in Seq(S) /\ v \in Seq(S)
      BY <1>1
    <3> HIDE DEF y
    <3>3. /\ y \in Seq(S) /\ Len(y) = Len(l) + Len(v) /\ Len(l) \in Nat /\ Len(v) \in Nat
          /\ \A p \in 1 .. Len(l) : p \in 1 .. Len(y) /\ y[p] = l[p]
          /\ \A p \in 1 .. Len(v) : Len(l) + p \in 1 .. Len(y) /\ y[Len(l) + p] = v[p]
      BY <3>1, <3>2, Joint
    <3> QED BY <3>3
  <2>2. \A p \in 1 .. Len(v) : p + 3 = 3 + p
    OBVIOUS
  <2> HIDE DEF y
  <2> QED BY <1>1, <2>1, <2>2
<1>3. x = y \o r
  BY DEF l, r, Between
<1> HIDE DEF y
<1>4. x \in Seq(S) /\ Len(x) = Len(v) + 5 /\ x[Len(v) + 4] = q /\ \A p \in 1 .. Len(v) : x[p + 3] = v[p]
  <2> HIDE DEF x
  <2>0. y \in Seq(S) /\ r \in Seq(S)
    BY <1>1, <1>2
  <2>1. /\ x \in Seq(S) /\ Len(x) = Len(y) + Len(r) /\ Len(y) \in Nat /\ Len(r) \in Nat
        /\ \A p \in 1 .. Len(y) : p \in 1 .. Len(x) /\ x[p] = y[p]
        /\ \A p \in 1 .. Len(r) : Len(y) + p \in 1 .. Len(x) /\ x[Len(y) + p] = r[p]
    BY <1>3, <2>0, Joint
  <2>2. x[Len(y) + 1] = q
    BY <1>1, <2>1
  <2>3. Len(v) \in Nat /\ Len(y) = Len(v) + 3
    BY <1>2
  <2>4. Len(y) + 1 = Len(v) + 4 /\ Len(x) = Len(v) + 5
    BY <1>1, <2>1, <2>3
  <2> QED BY <1>2, <2>1, <2>2, <2>4
<1> QED BY <1>4 DEF IsQuoted

LEMMA Enclosed ==
  ASSUME NEW S, NEW x \in S, NEW y \in S, NEW u \in Seq(S), NEW v \in Seq(S), <<x>> \o u \o <<y>> = <<x>> \o v \o <<y>>
  PROVE  u = v
<1> DEFINE s == <<x>> \o u \o <<y>>
           t == <<x>> \o v \o <<y>>
<1>1. Len(s) = Len(u) + 2 /\ \A p \in 1 .. Len(u) : s[p + 1] = u[p]
  OBVIOUS
<1>2. Len(t) = Len(v) + 2 /\ \A p \in 1 .. Len(v) : t[p + 1] = v[p]
  OBVIOUS
<1>3. s = t
  OBVIOUS
<1> HIDE DEF s, t
<1>4. Len(u) = Len(v)
  BY <1>1, <1>2, <1>3
<1>5. \A p \in 1 .. Len(u) : u[p] = v[p]
  BY <1>1, <1>2, <1>3, <1>4
<1> QED BY <1>4, <1>5

LEMMA Fronts ==
  ASSUME NEW S, NEW u \in Seq(S), NEW v \in Seq(S), Len(u) # 0, Len(v) # 0, Front(u) = Front(v)
  PROVE  Len(u) = Len(v) /\ \A q \in 1 .. Len(u) - 1 : u[q] = v[q]
<1>1. \A s \in Seq(S) : Len(s) # 0 => Len(Front(s)) = Len(s) - 1 /\ \A q \in 1 .. Len(s) - 1 : Front(s)[q] = s[q]
  <2> SUFFICES ASSUME NEW s \in Seq(S), Len(s) # 0
               PROVE  Len(Front(s)) = Len(s) - 1 /\ \A q \in 1 .. Len(s) - 1 : Front(s)[q] = s[q]
    OBVIOUS
  <2>1. Len(s) - 1 \in Nat /\ Len(s) - 1 <= Len(s)
    OBVIOUS
  <2> DEFINE m == Len(s) - 1
  <2>2. Len(SubSeq(s, 1, m)) = m /\ \A q \in 1 .. m : SubSeq(s, 1, m)[q] = s[q]
    <3>1. m \in Nat /\ m <= Len(s)
      BY <2>1
    <3> HIDE DEF m
    <3> QED BY <3>1
  <2> QED BY <2>2 DEF Front
<1> QED BY <1>1

Token == STRING \cup Int \cup {"\"", ",", "=", "{", "}"}
Quoted(key, value) == Between(key, "=", "\"", value, ",")
Pairs(set) ==
  [i \in DOMAIN KeyOrder |-> IF KeyOrder[i] \in DOMAIN set THEN Quoted(KeyOrder[i], set[KeyOrder[i]]) ELSE <<>>]

LEMMA Written ==
  ASSUME NEW set
  PROVE  to_string(set) = IF DOMAIN set = {} THEN <<>> ELSE <<"{">> \o Front(FlattenSeq(Pairs(set))) \o <<"}">>
BY Zenon DEF to_string, Joined, Quoted, Between, Pairs

LEMMA QuotedTyped ==
  ASSUME NEW key \in STRING, NEW value \in Seq(Token)
  PROVE  Quoted(key, value) \in Seq(Token) /\ IsQuoted(Quoted(key, value), value, "\"")
<1>1. key \in Token
  BY Zenon DEF Token
<1>2. "=" \in Token
  BY Zenon DEF Token
<1>3. "\"" \in Token
  BY Zenon DEF Token
<1>4. "," \in Token
  BY Zenon DEF Token
<1>5. ASSUME NEW e \in Token, NEW q \in Token, NEW c \in Token
      PROVE  Between(key, e, q, value, c) \in Seq(Token) /\ IsQuoted(Between(key, e, q, value, c), value, q)
  BY <1>1, QuotedText
<1> QED BY <1>2, <1>3, <1>4, <1>5, Zenon DEF Quoted

Quote == "\""
IsPrintable(set) == (\A k \in DOMAIN set : set[k] \in Seq(Token)) /\ DOMAIN set \subseteq ToSet(KeyOrder)

LEMMA PairsTyped ==
  ASSUME NEW set, IsPrintable(set)
  PROVE  /\ Pairs(set) \in Seq(Seq(Token)) /\ Len(Pairs(set)) = Len(KeyOrder) /\ Len(KeyOrder) \in Nat /\ Lengths(Pairs(set))
         /\ \A i \in 1 .. Len(KeyOrder) :
              /\ KeyOrder[i] \in DOMAIN set => set[KeyOrder[i]] \in Seq(Token) /\ IsQuoted(Pairs(set)[i], set[KeyOrder[i]], Quote)
              /\ KeyOrder[i] \notin DOMAIN set => Pairs(set)[i] = <<>>
<1> DEFINE A == Pairs(set)
<1>1. DOMAIN KeyOrder = 1 .. Len(KeyOrder) /\ Len(KeyOrder) \in Nat /\ \A i \in 1 .. Len(KeyOrder) : KeyOrder[i] \in STRING
  <2>1. KeyOrder \in Seq(STRING)
    BY ParametersOK, Zenon DEF ParametersOK
  <2> QED BY <2>1
<1>2. A = [i \in 1 .. Len(KeyOrder) |->
             IF KeyOrder[i] \in DOMAIN set THEN Quoted(KeyOrder[i], set[KeyOrder[i]]) ELSE <<>>]
  BY <1>1 DEF Pairs
<1> HIDE DEF A
<1>3. ASSUME NEW i \in 1 .. Len(KeyOrder)
      PROVE  /\ KeyOrder[i] \in DOMAIN set => /\ set[KeyOrder[i]] \in Seq(Token)
                                              /\ A[i] \in Seq(Token) /\ IsQuoted(A[i], set[KeyOrder[i]], Quote)
             /\ KeyOrder[i] \notin DOMAIN set => A[i] = <<>>
  <2>1. CASE KeyOrder[i] \in DOMAIN set
    <3> DEFINE w == set[KeyOrder[i]]
    <3>1. w \in Seq(Token) /\ KeyOrder[i] \in STRING
      BY <1>1, <2>1 DEF IsPrintable
    <3>2. A[i] = Quoted(KeyOrder[i], w)
      BY <1>2, <2>1
    <3> HIDE DEF w
    <3>3. A[i] \in Seq(Token) /\ IsQuoted(A[i], w, Quote)
      BY <3>1, <3>2, QuotedTyped, Zenon DEF Quote
    <3> QED BY <2>1, <3>1, <3>3 DEF w
  <2>2. CASE KeyOrder[i] \notin DOMAIN set
    BY <1>2, <2>2
  <2> QED BY <2>1, <2>2
<1>4. \A i \in 1 .. Len(KeyOrder) : A[i] \in Seq(Token)
  <2>1. <<>> \in Seq(Token)
    OBVIOUS
  <2> QED BY <1>3, <2>1, Zenon
<1>5. A \in Seq(Seq(Token)) /\ Len(A) = Len(KeyOrder)
  <2>1. A = [i \in 1 .. Len(KeyOrder) |-> A[i]]
    BY <1>2
  <2> QED BY <1>1, <1>4, <2>1
<1>6. Lengths(A)
  <2>1. \A w \in Seq(Token) : Len(w) \in Nat
    OBVIOUS
  <2> QED BY <1>4, <1>5, <2>1, Zenon DEF Lengths
<1> QED BY <1>1, <1>3, <1>5, <1>6, Zenon DEF A

\* Where a key is in a set, the pieces up to it are not empty.
LEMMA NotEmpty ==
  ASSUME NEW set, IsPrintable(set), DOMAIN set # {}, NEW off, NEW u, Pieces(Pairs(set), off, u)
  PROVE  Len(u) # 0
<1> DEFINE A == Pairs(set)
<1>1. PICK i \in 1 .. Len(KeyOrder) : KeyOrder[i] \in DOMAIN set
  <2>1. PICK k : k \in DOMAIN set
    OBVIOUS
  <2>2. k \in ToSet(KeyOrder)
    BY <2>1 DEF IsPrintable
  <2>3. DOMAIN KeyOrder = 1 .. Len(KeyOrder)
    <3>1. KeyOrder \in Seq(STRING)
      BY ParametersOK, Zenon DEF ParametersOK
    <3> QED BY <3>1
  <2> QED BY <2>1, <2>2, <2>3 DEF ToSet
<1>2. /\ Len(A) = Len(KeyOrder) /\ Len(KeyOrder) \in Nat /\ Lengths(A)
      /\ set[KeyOrder[i]] \in Seq(Token) /\ IsQuoted(A[i], set[KeyOrder[i]], Quote)
  BY <1>1, PairsTyped, Zenon
<1> HIDE DEF A
<1>3. Len(A[i]) >= 5 /\ Len(A[i]) \in Nat
  <2>1. Len(set[KeyOrder[i]]) \in Nat
    BY <1>2
  <2> QED BY <1>2, <2>1 DEF IsQuoted
<1>4. Offsets(A, off) /\ Len(u) = off[Len(A)]
  BY DEF Pieces, A
<1> DEFINE h == i - 1
<1>5. h \in 0 .. Len(A) - 1 /\ i = h + 1 /\ i \in 0 .. Len(A) /\ h \in 0 .. Len(A) /\ Len(A) \in 0 .. Len(A) /\ Len(A) \in Nat
  BY <1>2
<1> HIDE DEF h
<1>6. off[i] = off[h] + Len(A[i]) /\ off[h] \in Nat /\ off[i] \in Nat /\ off[Len(A)] \in Nat
  <2>1. off \in [0 .. Len(A) -> Nat] /\ \A j \in 0 .. Len(A) - 1 : off[j + 1] = off[j] + Len(A[j + 1])
    BY <1>4 DEF Offsets
  <2> QED BY <1>5, <2>1
<1>7. off[i] <= off[Len(A)]
  BY <1>2, <1>4, <1>5, OffsetsGrow DEF Lengths
<1> QED BY <1>3, <1>4, <1>6, <1>7

\* Two texts that are the same up to their last element, and the pieces they are made of.
Alike(A, offA, u, B, offB, v) ==
  Pieces(A, offA, u) /\ Pieces(B, offB, v) /\ Len(u) = Len(v) /\ Len(u) \in Nat /\ \A q \in 1 .. Len(u) - 1 : u[q] = v[q]

LEMMA WrittenAlike ==
  ASSUME NEW a, NEW b, IsPrintable(a), IsPrintable(b), DOMAIN b = DOMAIN a, DOMAIN a # {}, to_string(a) = to_string(b)
  PROVE  \E offA, u, offB, v : Alike(Pairs(a), offA, u, Pairs(b), offB, v)
<1> DEFINE u == FlattenSeq(Pairs(a))
           v == FlattenSeq(Pairs(b))
<1>1. u \in Seq(Token) /\ \E off : Pieces(Pairs(a), off, u)
  <2>1. Pairs(a) \in Seq(Seq(Token))
    BY PairsTyped, Zenon
  <2> QED BY <2>1, Flattened
<1>2. v \in Seq(Token) /\ \E off : Pieces(Pairs(b), off, v)
  <2>1. Pairs(b) \in Seq(Seq(Token))
    BY PairsTyped, Zenon
  <2> QED BY <2>1, Flattened
<1>3. PICK offA : Pieces(Pairs(a), offA, u)
  BY <1>1
<1>4. PICK offB : Pieces(Pairs(b), offB, v)
  BY <1>2
<1>5. <<"{">> \o Front(u) \o <<"}">> = <<"{">> \o Front(v) \o <<"}">>
  BY Written, Zenon
<1> HIDE DEF u, v
<1>6. Len(u) # 0 /\ Len(v) # 0
  BY <1>3, <1>4, NotEmpty, Zenon
<1>7. Front(u) \in Seq(Token) /\ Front(v) \in Seq(Token)
  BY <1>1, <1>2, <1>6 DEF Front
<1>8. Front(u) = Front(v)
  <2>1. "{" \in Token
    BY Zenon DEF Token
  <2>2. "}" \in Token
    BY Zenon DEF Token
  <2> QED BY <1>5, <1>7, <2>1, <2>2, Enclosed, Zenon
<1>9. Len(u) = Len(v) /\ \A q \in 1 .. Len(u) - 1 : u[q] = v[q]
  BY <1>1, <1>2, <1>6, <1>8, Fronts
<1>10. Len(u) \in Nat
  BY <1>1
<1> QED BY <1>3, <1>4, <1>9, <1>10 DEF Alike

\* A value ends at the first quote.
ReadsAt(u, o, x, n) == o + Len(x) <= n /\ \A p \in 1 .. Len(x) : u[o + p] = x[p]
LEMMA NotShorter ==
  ASSUME NEW x, NEW y, NEW a \in Seq(Token), NEW b \in Seq(Token), NEW quote, IsQuoted(x, a, quote), IsQuoted(y, b, quote),
         quote \notin ToSet(b), NEW o \in Nat, NEW n \in Nat, NEW u, NEW v, ReadsAt(u, o, x, n), ReadsAt(v, o, y, n),
         \A q \in 1 .. n - 1 : u[q] = v[q]
  PROVE  Len(b) <= Len(a)
<1> SUFFICES ASSUME Len(a) < Len(b) PROVE FALSE
  OBVIOUS
<1> DEFINE p == Len(a) + 1
           i == p + 3
<1>1. Len(a) \in Nat /\ Len(b) \in Nat /\ p \in 1 .. Len(b) /\ i = Len(a) + 4
  OBVIOUS
<1>2. b[p] # quote
  <2>1. \A j \in 1 .. Len(b) : b[j] \in ToSet(b)
    BY DEF ToSet
  <2> HIDE DEF p
  <2> QED BY <1>1, <2>1
<1>3. x[i] = quote /\ Len(x) = Len(a) + 5
  <2> HIDE DEF p
  <2> QED BY <1>1 DEF IsQuoted
<1>4. y[i] = b[p] /\ Len(y) = Len(b) + 5
  <2>1. \A j \in 1 .. Len(b) : y[j + 3] = b[j]
    BY DEF IsQuoted
  <2> HIDE DEF p
  <2> QED BY <1>1, <2>1 DEF IsQuoted
<1>5. i \in 1 .. Len(x) /\ i \in 1 .. Len(y) /\ o + i \in 1 .. n - 1
  <2>1. o + Len(x) <= n
    BY DEF ReadsAt
  <2> QED BY <1>1, <1>3, <1>4, <2>1
<1> HIDE DEF i, p
<1>6. u[o + i] = x[i] /\ v[o + i] = y[i]
  BY <1>5 DEF ReadsAt
<1> QED BY <1>2, <1>3, <1>4, <1>5, <1>6

LEMMA SameValue ==
  ASSUME NEW x, NEW y, NEW a \in Seq(Token), NEW b \in Seq(Token), NEW quote, IsQuoted(x, a, quote), IsQuoted(y, b, quote),
         quote \notin ToSet(a), quote \notin ToSet(b), NEW o \in Nat, NEW n \in Nat, NEW u, NEW v,
         ReadsAt(u, o, x, n), ReadsAt(v, o, y, n), \A q \in 1 .. n - 1 : u[q] = v[q]
  PROVE  a = b
<1>1. Len(a) = Len(b) /\ Len(a) \in Nat
  <2>1. Len(b) <= Len(a)
    BY NotShorter
  <2>2. \A q \in 1 .. n - 1 : v[q] = u[q]
    OBVIOUS
  <2>3. Len(a) <= Len(b)
    BY <2>2, NotShorter
  <2> QED BY <2>1, <2>3
<1>2. ASSUME NEW p \in 1 .. Len(a) PROVE a[p] = b[p]
  <2> DEFINE i == p + 3
  <2>1. x[i] = a[p] /\ y[i] = b[p] /\ Len(x) = Len(a) + 5 /\ Len(y) = Len(a) + 5
    BY <1>1 DEF IsQuoted
  <2>2. i \in 1 .. Len(x) /\ i \in 1 .. Len(y) /\ o + i \in 1 .. n - 1
    <3>1. o + Len(x) <= n
      BY DEF ReadsAt
    <3> QED BY <1>1, <2>1, <3>1
  <2> HIDE DEF i
  <2>3. u[o + i] = x[i] /\ v[o + i] = y[i]
    BY <2>2 DEF ReadsAt
  <2> QED BY <2>1, <2>2, <2>3
<1> QED BY <1>1, <1>2

\* A piece is read at its offset.
LEMMA PieceRead ==
  ASSUME NEW A, Len(A) \in Nat, Lengths(A), NEW off, NEW u, Pieces(A, off, u), NEW i \in 0 .. Len(A) - 1
  PROVE  /\ ReadsAt(u, off[i], A[i + 1], Len(u)) /\ off[i] \in Nat /\ off[i + 1] = off[i] + Len(A[i + 1])
<1>1. /\ off \in [0 .. Len(A) -> Nat] /\ \A j \in 0 .. Len(A) - 1 : off[j + 1] = off[j] + Len(A[j + 1])
      /\ Len(u) = off[Len(A)] /\ Offsets(A, off)
  BY DEF Pieces, Offsets
<1> DEFINE h == i + 1
<1>2. h \in 1 .. Len(A) /\ h \in 0 .. Len(A) /\ h - 1 = i /\ Len(A) \in 0 .. Len(A) /\ i \in 0 .. Len(A)
  OBVIOUS
<1>3. off[h] = off[i] + Len(A[h]) /\ off[i] \in Nat
  BY <1>1, <1>2
<1> HIDE DEF h
<1>4. off[h] <= off[Len(A)]
  BY <1>1, <1>2, OffsetsGrow DEF Lengths
<1>5. \A p \in 1 .. Len(A[h]) : u[off[i] + p] = A[h][p]
  <2>1. \A p \in 1 .. Len(A[h]) : u[off[h - 1] + p] = A[h][p]
    BY <1>2 DEF Pieces
  <2> QED BY <1>2, <2>1
<1> QED BY <1>1, <1>3, <1>4, <1>5 DEF ReadsAt, h

\* Key by key, two sets that are written alike have the same values.
LEMMA SameValues ==
  ASSUME NEW a, NEW b, IsPrintable(a), IsPrintable(b), DOMAIN b = DOMAIN a,
         \A k \in DOMAIN a : Quote \notin ToSet(a[k]) /\ Quote \notin ToSet(b[k]),
         NEW offA, NEW u, NEW offB, NEW v, Alike(Pairs(a), offA, u, Pairs(b), offB, v)
  PROVE  \A k \in DOMAIN a : a[k] = b[k]
<1> DEFINE A == Pairs(a)
           B == Pairs(b)
           N == Len(KeyOrder)
           Same(i) == KeyOrder[i] \in DOMAIN a => a[KeyOrder[i]] = b[KeyOrder[i]]
           T == {i \in 0 .. N : offA[i] = offB[i] /\ \A j \in 1 .. i : Same(j)}
<1>1. /\ Len(A) = N /\ N \in Nat /\ Lengths(A)
      /\ \A i \in 1 .. N : /\ KeyOrder[i] \in DOMAIN a => a[KeyOrder[i]] \in Seq(Token) /\ IsQuoted(A[i], a[KeyOrder[i]], Quote)
                           /\ KeyOrder[i] \notin DOMAIN a => A[i] = <<>>
  BY PairsTyped, Zenon
<1>2. /\ Len(B) = N /\ Lengths(B)
      /\ \A i \in 1 .. N : /\ KeyOrder[i] \in DOMAIN b => b[KeyOrder[i]] \in Seq(Token) /\ IsQuoted(B[i], b[KeyOrder[i]], Quote)
                           /\ KeyOrder[i] \notin DOMAIN b => B[i] = <<>>
  BY PairsTyped, Zenon
<1>3. /\ Pieces(A, offA, u) /\ Pieces(B, offB, v) /\ Len(u) = Len(v) /\ Len(u) \in Nat
      /\ \A q \in 1 .. Len(u) - 1 : u[q] = v[q]
  BY Zenon DEF Alike
<1> HIDE DEF A, B, N
<1>4. 0 \in T
  <2>1. offA[0] = 0 /\ offB[0] = 0
    BY <1>3 DEF Pieces, Offsets
  <2> QED BY <1>1, <2>1
<1>5. ASSUME NEW i \in 0 .. N - 1, i \in T PROVE i + 1 \in T
  <2>0. offA[i] = offB[i] /\ \A j \in 1 .. i : Same(j)
    BY <1>5
  <2>a. /\ Len(A) = N /\ Len(A) \in Nat /\ Lengths(A) /\ Pieces(A, offA, u) /\ i \in 0 .. Len(A) - 1
        /\ Len(B) = N /\ Len(B) \in Nat /\ Lengths(B) /\ Pieces(B, offB, v) /\ i \in 0 .. Len(B) - 1
    BY <1>1, <1>2, <1>3
  <2>1. ReadsAt(u, offA[i], A[i + 1], Len(u)) /\ offA[i] \in Nat /\ offA[i + 1] = offA[i] + Len(A[i + 1])
    BY <2>a, PieceRead, Zenon
  <2>2. ReadsAt(v, offB[i], B[i + 1], Len(v)) /\ offB[i] \in Nat /\ offB[i + 1] = offB[i] + Len(B[i + 1])
    BY <2>a, PieceRead, Zenon
  <2> DEFINE h == i + 1
             k == KeyOrder[h]
  <2>3. h \in 1 .. N /\ h \in 0 .. N /\ 1 .. h = 1 .. i \cup {h}
    BY <1>1
  <2>4. Same(h) /\ Len(A[h]) = Len(B[h])
    <3>1. CASE k \in DOMAIN a
      <4>1. /\ a[k] \in Seq(Token) /\ b[k] \in Seq(Token) /\ IsQuoted(A[h], a[k], Quote) /\ IsQuoted(B[h], b[k], Quote)
            /\ Quote \notin ToSet(a[k]) /\ Quote \notin ToSet(b[k])
        <5> HIDE DEF h
        <5> QED BY <1>1, <1>2, <2>3, <3>1
      <4>2. ReadsAt(u, offA[i], A[h], Len(u)) /\ ReadsAt(v, offA[i], B[h], Len(u))
        BY <1>3, <2>0, <2>1, <2>2
      <4> HIDE DEF h, k
      <4>3. a[k] = b[k]
        BY <1>3, <2>1, <4>1, <4>2, SameValue
      <4>4. Len(A[h]) = Len(B[h])
        BY <4>1, <4>3 DEF IsQuoted
      <4> QED BY <4>3, <4>4 DEF k
    <3>2. CASE k \notin DOMAIN a
      <4>1. A[h] = <<>> /\ B[h] = <<>>
        <5> HIDE DEF h
        <5> QED BY <1>1, <1>2, <2>3, <3>2
      <4> QED BY <3>2, <4>1
    <3> QED BY <3>1, <3>2
  <2>5. offA[h] = offB[h]
    BY <2>0, <2>1, <2>2, <2>4
  <2>6. \A j \in 1 .. h : Same(j)
    <3> HIDE DEF Same, h
    <3> QED BY <2>0, <2>3, <2>4
  <2> HIDE DEF Same
  <2> QED BY <2>3, <2>5, <2>6
<1> HIDE DEF T
<1>6. \A i \in 0 .. N : i \in T
  BY <1>1, <1>4, <1>5, Reaches
<1>7. \A i \in 1 .. N : Same(i)
  <2>1. N \in 0 .. N
    BY <1>1
  <2> HIDE DEF Same
  <2> QED BY <1>6, <2>1 DEF T
<1>8. ASSUME NEW k \in DOMAIN a PROVE a[k] = b[k]
  <2>1. k \in ToSet(KeyOrder)
    BY DEF IsPrintable
  <2>2. DOMAIN KeyOrder = 1 .. N
    <3>1. KeyOrder \in Seq(STRING)
      BY ParametersOK, Zenon DEF ParametersOK
    <3> QED BY <3>1 DEF N
  <2>3. PICK i \in 1 .. N : KeyOrder[i] = k
    BY <2>1, <2>2 DEF ToSet
  <2> QED BY <1>7, <2>3
<1> QED BY <1>8

\* Pieces of the same lengths lie at the same places.
SameLengths(A, B) == Len(A) \in Nat /\ Len(B) = Len(A) /\ \A i \in 1 .. Len(A) : Len(A[i]) = Len(B[i])
SamePlaces(A, offA, offB) == \A i \in 0 .. Len(A) : offA[i] = offB[i]

LEMMA EqualOffsets ==
  ASSUME NEW A, NEW B, SameLengths(A, B), NEW offA, Offsets(A, offA), NEW offB, Offsets(B, offB)
  PROVE  SamePlaces(A, offA, offB)
<1> DEFINE T == {i \in 0 .. Len(A) : offA[i] = offB[i]}
<1> USE DEF SameLengths
<1>0. /\ offA[0] = 0 /\ \A i \in 0 .. Len(A) - 1 : offA[i + 1] = offA[i] + Len(A[i + 1])
      /\ offB[0] = 0 /\ \A i \in 0 .. Len(A) - 1 : offB[i + 1] = offB[i] + Len(B[i + 1])
  BY DEF Offsets
<1>1. 0 \in T
  BY <1>0
<1>2. ASSUME NEW i \in 0 .. Len(A) - 1, i \in T PROVE i + 1 \in T
  <2>1. i + 1 \in 1 .. Len(A) /\ i + 1 \in 0 .. Len(A)
    OBVIOUS
  <2>2. offA[i] = offB[i] /\ Len(A[i + 1]) = Len(B[i + 1])
    BY <1>2, <2>1
  <2>3. offA[i + 1] = offB[i + 1]
    BY <1>0, <2>2
  <2> QED BY <2>1, <2>3
<1> HIDE DEF T
<1>3. \A i \in 0 .. Len(A) : i \in T
  BY <1>1, <1>2, Reaches
<1> QED BY <1>3 DEF T, SamePlaces

\* Two sets that are written alike and differ in a value of one token only do not differ.
LEMMA SameOne ==
  ASSUME NEW a, NEW b, IsPrintable(a), IsPrintable(b), DOMAIN b = DOMAIN a, NEW key \in DOMAIN a,
         \A k \in DOMAIN a : k # key => a[k] = b[k], Len(a[key]) = 1, Len(b[key]) = 1,
         NEW offA, NEW u, NEW offB, NEW v, Alike(Pairs(a), offA, u, Pairs(b), offB, v)
  PROVE  a[key][1] = b[key][1]
<1> DEFINE A == Pairs(a)
           B == Pairs(b)
           N == Len(KeyOrder)
<1>1. /\ Len(A) = N /\ N \in Nat /\ Lengths(A)
      /\ \A i \in 1 .. N : /\ KeyOrder[i] \in DOMAIN a => a[KeyOrder[i]] \in Seq(Token) /\ IsQuoted(A[i], a[KeyOrder[i]], Quote)
                           /\ KeyOrder[i] \notin DOMAIN a => A[i] = <<>>
  BY PairsTyped, Zenon
<1>2. /\ Len(B) = N /\ Lengths(B)
      /\ \A i \in 1 .. N : /\ KeyOrder[i] \in DOMAIN b => b[KeyOrder[i]] \in Seq(Token) /\ IsQuoted(B[i], b[KeyOrder[i]], Quote)
                           /\ KeyOrder[i] \notin DOMAIN b => B[i] = <<>>
  BY PairsTyped, Zenon
<1>3. /\ Pieces(A, offA, u) /\ Pieces(B, offB, v) /\ Len(u) = Len(v) /\ Len(u) \in Nat
      /\ \A q \in 1 .. Len(u) - 1 : u[q] = v[q]
  BY Zenon DEF Alike
<1> HIDE DEF A, B, N
<1>4. \A i \in 1 .. N : Len(A[i]) = Len(B[i])
  <2> SUFFICES ASSUME NEW i \in 1 .. N PROVE Len(A[i]) = Len(B[i])
    OBVIOUS
  <2> DEFINE k == KeyOrder[i]
  <2>1. CASE k \in DOMAIN a
    <3>1. Len(a[k]) = Len(b[k])
      <4> HIDE DEF k
      <4>1. CASE k = key
        BY <4>1
      <4>2. CASE k # key
        BY <2>1, <4>2
      <4> QED BY <4>1, <4>2
    <3>2. Len(A[i]) = Len(a[k]) + 5 /\ Len(B[i]) = Len(b[k]) + 5
      BY <1>1, <1>2, <2>1 DEF IsQuoted
    <3> QED BY <3>1, <3>2
  <2>2. CASE k \notin DOMAIN a
    BY <1>1, <1>2, <2>2
  <2> QED BY <2>1, <2>2
<1>5. \A i \in 0 .. N : offA[i] = offB[i]
  <2>1. Offsets(A, offA) /\ Offsets(B, offB)
    BY <1>3 DEF Pieces
  <2>2. Len(A) \in Nat /\ Len(B) = Len(A) /\ Len(A) = N
    BY <1>1, <1>2
  <2>3. SameLengths(A, B)
    BY <1>4, <2>2 DEF SameLengths
  <2>4. SamePlaces(A, offA, offB)
    BY <2>1, <2>3, EqualOffsets, Zenon
  <2> QED BY <2>2, <2>4 DEF SamePlaces
<1>6. PICK i \in 1 .. N : KeyOrder[i] = key
  <2>1. key \in ToSet(KeyOrder)
    BY DEF IsPrintable
  <2>2. DOMAIN KeyOrder = 1 .. N
    <3>1. KeyOrder \in Seq(STRING)
      BY ParametersOK, Zenon DEF ParametersOK
    <3> QED BY <3>1 DEF N
  <2> QED BY <2>1, <2>2 DEF ToSet
<1> DEFINE h == i - 1
<1>7. h \in 0 .. N - 1 /\ h \in 0 .. N /\ i = h + 1
  BY <1>1
<1> HIDE DEF h
<1>8. ReadsAt(u, offA[h], A[i], Len(u)) /\ ReadsAt(v, offB[h], B[i], Len(v)) /\ offA[h] \in Nat
  <2>1. ReadsAt(u, offA[h], A[h + 1], Len(u)) /\ offA[h] \in Nat
    BY <1>1, <1>3, <1>7, PieceRead
  <2>2. ReadsAt(v, offB[h], B[h + 1], Len(v))
    BY <1>1, <1>2, <1>3, <1>7, PieceRead
  <2> QED BY <1>7, <2>1, <2>2
<1>9. Len(A[i]) = 6 /\ Len(B[i]) = 6 /\ A[i][4] = a[key][1] /\ B[i][4] = b[key][1]
  <2>1. IsQuoted(A[i], a[key], Quote) /\ IsQuoted(B[i], b[key], Quote)
    BY <1>1, <1>2, <1>6
  <2>2. 1 \in 1 .. 1 /\ 1 + 3 = 4 /\ 1 + 5 = 6
    OBVIOUS
  <2> QED BY <2>1, <2>2 DEF IsQuoted
<1> DEFINE o == offA[h]
<1>10. u[o + 4] = A[i][4] /\ v[o + 4] = B[i][4] /\ o + 4 \in 1 .. Len(u) - 1
  <2>1. offB[h] = o /\ o \in Nat
    BY <1>5, <1>7, <1>8
  <2>2. 4 \in 1 .. 6
    OBVIOUS
  <2>3. u[o + 4] = A[i][4] /\ o + 6 <= Len(u)
    BY <1>8, <1>9, <2>2 DEF ReadsAt
  <2>4. v[o + 4] = B[i][4]
    BY <1>8, <1>9, <2>1, <2>2 DEF ReadsAt
  <2> HIDE DEF o
  <2> QED BY <1>3, <2>1, <2>3, <2>4
<1> QED BY <1>3, <1>9, <1>10

LEMMA LabelSetPrintable == ASSUME NEW s, IsLabelSet(s) PROVE IsPrintable(s)
<1>1. \A w \in Seq(Tokens) : w \in Seq(Token)
  <2>1. STRING \subseteq Token
    BY Zenon DEF Token
  <2>0. ASSUME NEW S, NEW T, S \subseteq T, NEW w \in Seq(S) PROVE w \in Seq(T)
    BY <2>0
  <2>2. \A w \in Seq(STRING) : w \in Seq(Token)
    BY <2>0, <2>1, Zenon
  <2> QED BY <2>2, TokensAreStrings
<1> QED BY <1>1 DEF IsLabelSet, IsPrintable

\* Different series of a family are written differently: as they have the same labels, the first
\* difference is in a value, and a value ends at the first quote.
THEOREM Distinct == Spec => []SeriesDistinct
<1>1. OrderInv /\ ValueInv /\ CountInv => SeriesDistinct
  <2> SUFFICES ASSUME ValueInv, NEW a \in series, NEW b \in series, Quoteless(a), Quoteless(b), to_string(a) = to_string(b)
               PROVE  a = b
    BY DEF SeriesDistinct
  <2>1. /\ IsLabelSet(a) /\ IsLabelSet(b) /\ DOMAIN b = DOMAIN a
        /\ a \in [DOMAIN a -> Seq(Tokens)] /\ b \in [DOMAIN a -> Seq(Tokens)]
    BY DEF ValueInv, IsLabelSet
  <2>2. IsPrintable(a) /\ IsPrintable(b)
    BY <2>1, LabelSetPrintable
  <2>3. CASE DOMAIN a = {}
    BY <2>1, <2>3
  <2>4. CASE DOMAIN a # {}
    <3>1. PICK offA, u, offB, v : Alike(Pairs(a), offA, u, Pairs(b), offB, v)
      BY <2>1, <2>2, <2>4, WrittenAlike
    <3>2. \A k \in DOMAIN a : Quote \notin ToSet(a[k]) /\ Quote \notin ToSet(b[k])
      BY <2>1, Zenon DEF Quoteless, Quote
    <3>3. \A k \in DOMAIN a : a[k] = b[k]
      BY <2>1, <2>2, <3>1, <3>2, SameValues
    <3> QED BY <2>1, <3>3
  <2> QED BY <2>3, <2>4
<1> QED BY <1>1, TypeInv, PTL

\* The buckets of a histogram are written differently, unless their bounds agree up to the
\* sixth decimal or the label "le" is configured.
THEOREM BucketsApart == Spec => []BucketsDistinct
<1>1. OrderInv /\ ValueInv /\ CountInv => BucketsDistinct
  <2> SUFFICES ASSUME OrderInv, ValueInv, NEW s \in series, "le" \notin DOMAIN s,
                      NEW b \in config.buckets, NEW c \in config.buckets, to_string(WithLe(s, b)) = to_string(WithLe(s, c))
               PROVE  b - c \in -9 .. 9
    BY DEF BucketsDistinct
  <2> DEFINE x == WithLe(s, b)
             y == WithLe(s, c)
  <2>1. b \in Int /\ c \in Int
    BY ConfigTyped DEF OrderInv
  <2>2. IsPrintable(s)
    BY LabelSetPrintable DEF ValueInv
  <2>3. /\ DOMAIN x = DOMAIN s \cup {"le"} /\ DOMAIN y = DOMAIN s \cup {"le"}
        /\ \A k \in DOMAIN s : x[k] = s[k] /\ y[k] = s[k]
        /\ x["le"] = <<Decimals(b)>> /\ y["le"] = <<Decimals(c)>>
    BY DEF WithLe
  <2>4. Decimals(b) \in Int /\ Decimals(c) \in Int
    BY <2>1 DEF Decimals
  <2> HIDE DEF x, y
  <2>5. <<Decimals(b)>> \in Seq(Token) /\ <<Decimals(c)>> \in Seq(Token)
    <3>1. \A i \in Int : i \in Token
      BY Zenon DEF Token
    <3>2. \A i \in Token : <<i>> \in Seq(Token)
      OBVIOUS
    <3> QED BY <2>4, <3>1, <3>2, Zenon
  <2>6. "le" \in ToSet(KeyOrder)
    BY ParametersOK, Zenon DEF ParametersOK
  <2>7. IsPrintable(x) /\ IsPrintable(y)
    BY <2>2, <2>3, <2>5, <2>6 DEF IsPrintable
  <2>8. PICK offA, u, offB, v : Alike(Pairs(x), offA, u, Pairs(y), offB, v)
    <3>1. to_string(x) = to_string(y) /\ DOMAIN x # {} /\ DOMAIN y = DOMAIN x
      BY <2>3 DEF x, y
    <3> QED BY <2>7, <3>1, WrittenAlike
  <2>9. x["le"][1] = y["le"][1]
    <3>1. "le" \in DOMAIN x /\ DOMAIN y = DOMAIN x /\ \A k \in DOMAIN x : k # "le" => x[k] = y[k]
      BY <2>3
    <3>2. Len(x["le"]) = 1 /\ Len(y["le"]) = 1
      BY <2>3
    <3> QED BY <2>7, <2>8, <3>1, <3>2, SameOne
  <2>10. Decimals(b) = Decimals(c)
    BY <2>3, <2>9
  <2> QED BY <2>1, <2>10 DEF Decimals
<1> QED BY <1>1, TypeInv, PTL
=============================================================================

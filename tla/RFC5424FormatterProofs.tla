------------------------ MODULE RFC5424FormatterProofs ------------------------
(***************************************************************************)
(* What holds of RFC5424EventFormatter for all events, every size of       *)
(* messages and all limits: what a receiver reads, and what is left out.   *)
(*                                                                         *)
(* The argument, in the order of the sections:                             *)
(*  - texts put together from parts, and functions that make a text of     *)
(*    each member of a text (Image), over which properties of what is put  *)
(*    together reduce to properties of the parts;                          *)
(*  - UTF-16 in which surrogates are Paired: such texts can be joined, and *)
(*    their bytes and their characters determine each other;               *)
(*  - values as they are gathered in buffers: the writes put together are  *)
(*    the shortened value with its escapes;                                *)
(*  - the reader: what it makes of a parameter, an element, the header and *)
(*    the payload as they are written;                                     *)
(*  - FormInv, the inductive invariant: how far the message is written;    *)
(*  - the theorems.                                                        *)
(***************************************************************************)
EXTENDS RFC5424Formatter, TLAPS, FiniteSetTheorems, SequenceTheorems, WellFoundedInduction

-----------------------------------------------------------------------------
(* Induction, for sets: a definition by recursion is reasoned about with   *)
(* the set of the numbers for which a claim holds.                         *)

LEMMA LeastNumber ==
  ASSUME NEW T \in SUBSET Nat, T # {}
  PROVE  \E n \in T : \A m \in T : n <= m
<1> DEFINE below == {1 .. n : n \in T}
<1>1. below \subseteq FiniteSubsetsOf(Nat) /\ below # {}
  <2>1. ASSUME NEW n \in T PROVE 1 .. n \in SUBSET Nat /\ IsFiniteSet(1 .. n)
    <3>1. 1 \in Int /\ n \in Int
      OBVIOUS
    <3>2. QED
      BY <3>1, FS_Interval
  <2>2. QED
    BY <2>1, Zenon DEF FiniteSubsetsOf
<1>2. IsWellFoundedOn(StrictSubsetOrdering(Nat), FiniteSubsetsOf(Nat))
  BY FS_StrictSubsetOrderingWellFounded, Zenon
<1> HIDE DEF below
<1>3. PICK x \in below : \A y \in below : ~ (<<y, x>> \in StrictSubsetOrdering(Nat))
  BY <1>1, <1>2, WFMin, Zenon
<1>4. PICK n \in T : x = 1 .. n
  BY <1>3 DEF below
<1>5. ASSUME NEW m \in T, m < n PROVE FALSE
  <2>1. 1 .. m \in below
    BY DEF below
  <2>2. /\ 1 .. m \subseteq 1 .. n /\ n \in 1 .. n /\ n \notin 1 .. m
        /\ 1 .. m \in SUBSET Nat /\ 1 .. n \in SUBSET Nat
    BY <1>5
  <2>3. <<1 .. m, 1 .. n>> \in StrictSubsetOrdering(Nat)
    BY <2>2, Zenon DEF StrictSubsetOrdering
  <2>4. QED
    BY <1>3, <1>4, <2>1, <2>3
<1>6. QED
  BY <1>4, <1>5

LEMMA SetInduction ==
  ASSUME NEW S, 0 \in S, \A n \in Nat : n \in S => n + 1 \in S
  PROVE  Nat \subseteq S
<1> SUFFICES ASSUME Nat \ S # {} PROVE FALSE
  OBVIOUS
<1>1. PICK n \in Nat \ S : \A m \in Nat \ S : n <= m
  BY LeastNumber
<1>2. n # 0 /\ n - 1 \in Nat /\ n - 1 \notin Nat \ S
  BY <1>1
<1>3. QED
  BY <1>1, <1>2

-----------------------------------------------------------------------------
(* Concatenation of a list of sequences                                    *)

(* F[i] is the concatenation of the first i sequences of the list s. *)
Concats(s, F, S) ==
  /\ F \in [0 .. Len(s) -> Seq(S)]
  /\ F[0] = <<>>
  /\ \A i \in 1 .. Len(s) : F[i] = F[i - 1] \o s[i]

LEMMA ConcatsExist ==
  ASSUME NEW S, NEW s \in Seq(Seq(S))
  PROVE  \E F : Concats(s, F, S)
<1> DEFINE Upto(n, F) == /\ F \in [0 .. n -> Seq(S)] /\ F[0] = <<>>
                         /\ \A i \in 1 .. n : F[i] = F[i - 1] \o s[i]
           T == {n \in Nat : n <= Len(s) => \E F : Upto(n, F)}
<1>1. 0 \in T
  <2>1. <<>> \in Seq(S)
    BY EmptySeq
  <2>2. Upto(0, [i \in {0} |-> <<>>])
    BY <2>1
  <2>3. QED
    BY <2>2
<1>2. ASSUME NEW n \in Nat, n \in T, n + 1 <= Len(s) PROVE \E F : Upto(n + 1, F)
  <2>1. Len(s) \in Nat
    BY LenProperties
  <2>2. n <= Len(s)
    BY <1>2, <2>1
  <2>3. \E F : Upto(n, F)
    BY <1>2, <2>2, Zenon
  <2>4. PICK F : Upto(n, F)
    BY <2>3, Zenon
  <2> DEFINE e == F[n] \o s[n + 1]
             G == [i \in 0 .. n + 1 |-> IF i <= n THEN F[i] ELSE e]
  <2>5. F[n] \in Seq(S) /\ s[n + 1] \in Seq(S)
    BY <1>2, <2>1, <2>4, ElementOfSeq
  <2>6. e \in Seq(S)
    BY <2>5, ConcatProperties
  <2> HIDE DEF e
  <2>7. \A i \in 0 .. n : F[i] \in Seq(S)
    BY <2>4
  <2>8. G \in [0 .. n + 1 -> Seq(S)] /\ G[0] = <<>>
    BY <2>4, <2>6, <2>7
  <2>9. ASSUME NEW i \in 1 .. n + 1 PROVE G[i] = G[i - 1] \o s[i]
    <3> HIDE DEF G
    <3>1. CASE i \in 1 .. n
      <4>1. F[i] = F[i - 1] \o s[i]
        BY <2>4, <3>1
      <4>2. G[i] = F[i] /\ G[i - 1] = F[i - 1]
        BY <3>1 DEF G
      <4>3. QED
        BY <4>1, <4>2, Zenon
    <3>2. CASE i = n + 1
      <4>1. G[n + 1] = e /\ G[n] = F[n]
        BY DEF G
      <4>2. i - 1 = n
        BY <3>2
      <4>3. G[i] = e /\ G[i - 1] = F[n] /\ s[i] = s[n + 1]
        BY <3>2, <4>1, <4>2
      <4>4. QED
        BY <4>3, Zenon DEF e
    <3>3. i \in 1 .. n \/ i = n + 1
      OBVIOUS
    <3>4. QED
      BY <3>1, <3>2, <3>3, Zenon
  <2> HIDE DEF G
  <2>10. Upto(n + 1, G)
    BY <2>8, <2>9
  <2>11. QED
    BY <2>10, Zenon
<1>3. ASSUME NEW n \in Nat, n \in T PROVE n + 1 \in T
  <2>1. n + 1 \in Nat
    OBVIOUS
  <2>2. QED
    BY <1>2, <1>3, <2>1, Zenon
<1>4. Nat \subseteq T
  <2> HIDE DEF T
  <2>1. QED
    BY <1>1, <1>3, SetInduction
<1>5. Len(s) \in Nat /\ Len(s) <= Len(s)
  BY LenProperties
<1>6. \E F : Upto(Len(s), F)
  BY <1>4, <1>5, Zenon
<1>7. QED
  BY <1>6, Zenon DEF Concats

(* The recursion of FlattenSeq has one solution. *)
LEMMA RecursionIsUnique ==
  ASSUME NEW s, Len(s) \in Nat \ {0}, NEW F,
         F[1] = s[1], \A i \in 2 .. Len(s) : F[i] = F[i - 1] \o s[i]
  PROVE  FlattenSeq(s) = F[Len(s)]
<1> DEFINE N == Len(s)
<1>0. N \in Nat \ {0} /\ N # 0 /\ \A i \in 2 .. N : F[i] = F[i - 1] \o s[i]
  OBVIOUS
<1> HIDE DEF N
<1> USE <1>0
<1> DEFINE Rec(g) == g = [i \in 1 .. N |-> IF i = 1 THEN s[i] ELSE g[i - 1] \o s[i]]
           G == [i \in 1 .. N |-> F[i]]
<1>1. Rec(G)
  <2>1. ASSUME NEW i \in 1 .. N PROVE G[i] = IF i = 1 THEN s[i] ELSE G[i - 1] \o s[i]
    <3>1. CASE i = 1
      BY <3>1
    <3>2. CASE i # 1
      <4>1. i \in 2 .. N /\ i - 1 \in 1 .. N
        BY <3>2
      <4>2. G[i] = F[i] /\ G[i - 1] = F[i - 1]
        BY <4>1
      <4>3. QED
        BY <3>2, <4>1, <4>2, Zenon
    <3>3. QED
      BY <3>1, <3>2
  <2>2. G = [i \in 1 .. N |-> G[i]]
    OBVIOUS
  <2> HIDE DEF G
  <2>3. QED
    BY <2>1, <2>2, Zenon
<1>2. ASSUME NEW g, Rec(g) PROVE g = G
  <2> DEFINE T == {n \in Nat : n + 1 <= N => g[n + 1] = F[n + 1]}
  <2>0. \A i \in 1 .. N : g[i] = IF i = 1 THEN s[i] ELSE g[i - 1] \o s[i]
    BY <1>2, Zenon
  <2>1. 0 \in T
    BY <2>0
  <2>2. ASSUME NEW n \in Nat, n \in T PROVE n + 1 \in T
    <3>0. n + 1 \in Nat
      OBVIOUS
    <3> SUFFICES ASSUME (n + 1) + 1 <= N PROVE g[(n + 1) + 1] = F[(n + 1) + 1]
      BY <3>0, Zenon DEF T
    <3> DEFINE k == n + 1
    <3>1. k + 1 \in 2 .. N /\ (k + 1) - 1 = k /\ k \in 1 .. N /\ k + 1 # 1
      OBVIOUS
    <3>2. g[k] = F[k]
      BY <2>2, <3>1
    <3> HIDE DEF k
    <3>3. g[k + 1] = g[(k + 1) - 1] \o s[k + 1]
      <4>1. k + 1 \in 1 .. N
        BY <3>1
      <4>2. QED
        BY <2>0, <3>1, <4>1, Zenon
    <3>4. F[k + 1] = F[(k + 1) - 1] \o s[k + 1]
      BY <3>1
    <3>5. g[k + 1] = F[k + 1]
      BY <3>1, <3>2, <3>3, <3>4, Zenon
    <3>6. QED
      BY <3>5 DEF k
  <2>3. Nat \subseteq T
    <3> HIDE DEF T
    <3>1. QED
      BY <2>1, <2>2, SetInduction
  <2>4. ASSUME NEW i \in 1 .. N PROVE g[i] = F[i]
    <3>1. i - 1 \in Nat /\ (i - 1) + 1 = i /\ i <= N
      OBVIOUS
    <3>2. i - 1 \in T
      BY <2>3, <3>1, Zenon
    <3>3. QED
      BY <3>1, <3>2, Zenon
  <2>5. DOMAIN g = 1 .. N /\ g = [i \in 1 .. N |-> g[i]]
    BY <1>2
  <2>6. QED
    BY <2>4, <2>5, Zenon
<1>3. G[N] = F[N]
  OBVIOUS
<1> HIDE DEF G, Rec
<1>4. (CHOOSE g : Rec(g)) = G
  BY <1>1, <1>2, Zenon
<1>5. FlattenSeq(s) = (CHOOSE g : Rec(g))[N]
  BY <1>0, Zenon DEF FlattenSeq, Rec, N
<1>6. QED
  BY <1>3, <1>4, <1>5, Zenon DEF N

LEMMA FlattenIsConcats ==
  ASSUME NEW S, NEW s \in Seq(Seq(S)), NEW F, Concats(s, F, S)
  PROVE  FlattenSeq(s) = F[Len(s)]
<1>1. Len(s) \in Nat /\ (Len(s) = 0 => s = <<>>)
  BY LenProperties, EmptySeq
<1>2. CASE Len(s) = 0
  <2>1. F[Len(s)] = <<>>
    BY <1>2 DEF Concats
  <2>2. QED
    BY <1>1, <1>2, <2>1, Zenon DEF FlattenSeq
<1>3. CASE Len(s) # 0
  <2>1. F[1] = s[1]
    <3>1. 1 \in 1 .. Len(s) /\ 1 - 1 = 0
      BY <1>1, <1>3
    <3>2. F[1] = F[1 - 1] \o s[1] /\ F[0] = <<>>
      BY <3>1, Zenon DEF Concats
    <3>3. s[1] \in Seq(S)
      BY <3>1, ElementOfSeq
    <3>4. <<>> \o s[1] = s[1]
      BY <3>3, ConcatEmptySeq
    <3>5. QED
      BY <3>1, <3>2, <3>4, Zenon
  <2>2. \A i \in 2 .. Len(s) : F[i] = F[i - 1] \o s[i]
    <3>1. \A i \in 2 .. Len(s) : i \in 1 .. Len(s)
      BY <1>1
    <3>2. QED
      BY <3>1, Zenon DEF Concats
  <2>3. Len(s) \in Nat \ {0}
    BY <1>1, <1>3
  <2>4. QED
    BY <2>1, <2>2, <2>3, RecursionIsUnique, Zenon
<1>4. QED
  BY <1>2, <1>3

LEMMA FlattenIsSeq ==
  ASSUME NEW S, NEW s \in Seq(Seq(S))
  PROVE  FlattenSeq(s) \in Seq(S)
<1>1. PICK F : Concats(s, F, S)
  BY ConcatsExist, Zenon
<1>2. FlattenSeq(s) = F[Len(s)]
  BY <1>1, FlattenIsConcats, Zenon
<1>3. Len(s) \in 0 .. Len(s)
  BY LenProperties
<1>4. QED
  BY <1>1, <1>2, <1>3 DEF Concats

LEMMA Associated ==
  ASSUME NEW S, NEW x \in Seq(S), NEW y \in Seq(S), NEW z \in Seq(S), NEW yz, yz = y \o z
  PROVE  x \o yz = (x \o y) \o z
OBVIOUS

(***************************************************************************)
(* A list of lists is flattened part by part.                              *)
(***************************************************************************)
LEMMA FlattenConcat ==
  ASSUME NEW S, NEW s \in Seq(Seq(S)), NEW t \in Seq(Seq(S))
  PROVE  FlattenSeq(s \o t) = FlattenSeq(s) \o FlattenSeq(t)
<1>1. PICK F : Concats(s, F, S)
  BY ConcatsExist, Zenon
<1>2. PICK G : Concats(t, G, S)
  BY ConcatsExist, Zenon
<1>3. FlattenSeq(s) = F[Len(s)] /\ FlattenSeq(t) = G[Len(t)]
  BY <1>1, <1>2, FlattenIsConcats, Zenon
<1> DEFINE m == Len(s)
           n == Len(t)
           u == s \o t
           E(j) == F[m] \o G[j]
           H == [i \in 0 .. m + n |-> IF i <= m THEN F[i] ELSE E(i - m)]
<1>4. /\ m \in Nat /\ n \in Nat /\ u \in Seq(Seq(S)) /\ Len(u) = m + n
      /\ \A i \in 1 .. m : u[i] = s[i]
      /\ \A j \in 1 .. n : u[m + j] = t[j]
  <2>1. m \in Nat /\ n \in Nat
    BY LenProperties
  <2>2. /\ u \in Seq(Seq(S)) /\ Len(u) = m + n
        /\ \A i \in 1 .. m + n : u[i] = IF i <= m THEN s[i] ELSE t[i - m]
    BY ConcatProperties
  <2> HIDE DEF u, m, n
  <2>3. \A i \in 1 .. m : i \in 1 .. m + n /\ i <= m
    BY <2>1
  <2>4. \A j \in 1 .. n : m + j \in 1 .. m + n /\ ~(m + j <= m) /\ (m + j) - m = j
    BY <2>1
  <2>5. QED
    BY <2>1, <2>2, <2>3, <2>4, Zenon
<1>5. /\ F \in [0 .. m -> Seq(S)] /\ G \in [0 .. n -> Seq(S)]
      /\ F[0] = <<>> /\ G[0] = <<>>
      /\ \A i \in 1 .. m : F[i] = F[i - 1] \o s[i]
      /\ \A j \in 1 .. n : G[j] = G[j - 1] \o t[j]
      /\ \A j \in 1 .. n : t[j] \in Seq(S)
  <2>1. \A j \in 1 .. n : t[j] \in Seq(S)
    BY ElementOfSeq
  <2>2. QED
    BY <1>1, <1>2, <2>1, Zenon DEF Concats
<1> HIDE DEF m, n, u
<1>6. \A j \in 0 .. n : E(j) \in Seq(S)
  BY <1>4, <1>5, ConcatProperties
<1>7. E(0) = F[m]
  <2>1. F[m] \in Seq(S)
    BY <1>4, <1>5
  <2>2. QED
    BY <1>5, <2>1, ConcatEmptySeq
<1>8. \A j \in 1 .. n : E(j) = E(j - 1) \o t[j]
  <2> SUFFICES ASSUME NEW j \in 1 .. n PROVE E(j) = E(j - 1) \o t[j]
    BY Zenon
  <2>1. j - 1 \in 0 .. n /\ m \in 0 .. m
    BY <1>4
  <2>2. F[m] \in Seq(S) /\ G[j - 1] \in Seq(S) /\ t[j] \in Seq(S)
    BY <1>5, <2>1
  <2>3. G[j] = G[j - 1] \o t[j]
    BY <1>5
  <2> DEFINE a == F[m]
             b == G[j - 1]
             c == t[j]
             d == G[j]
  <2> HIDE DEF a, b, c, d
  <2>4. a \in Seq(S) /\ b \in Seq(S) /\ c \in Seq(S) /\ d = b \o c
    BY <2>2, <2>3, Zenon DEF a, b, c, d
  <2>5. a \o d = (a \o b) \o c
    BY <2>4, Associated
  <2>6. QED
    BY <2>5, Zenon DEF a, b, c, d, E
<1> HIDE DEF E
<1>9. H \in [0 .. m + n -> Seq(S)]
  BY <1>4, <1>5, <1>6
<1>10. /\ H[0] = <<>>
       /\ \A i \in 0 .. m : H[i] = F[i]
       /\ \A j \in 0 .. n : H[m + j] = E(j)
  <2>1. \A i \in 0 .. m : H[i] = F[i]
    BY <1>4
  <2>2. \A j \in 1 .. n : H[m + j] = E(j)
    BY <1>4
  <2>3. H[m + 0] = E(0)
    BY <1>4, <1>7
  <2>4. 0 \in 0 .. m /\ \A j \in 0 .. n : j = 0 \/ j \in 1 .. n
    BY <1>4
  <2>5. QED
    BY <1>5, <2>1, <2>2, <2>3, <2>4, Zenon
<1> HIDE DEF H
<1>11. \A i \in 1 .. m + n : H[i] = H[i - 1] \o u[i]
  <2> SUFFICES ASSUME NEW i \in 1 .. m + n PROVE H[i] = H[i - 1] \o u[i]
    BY Zenon
  <2>1. CASE i \in 1 .. m
    <3>1. i \in 0 .. m /\ i - 1 \in 0 .. m
      BY <1>4, <2>1
    <3>2. QED
      BY <1>4, <1>5, <1>10, <2>1, <3>1, Zenon
  <2>2. CASE i \notin 1 .. m
    <3> DEFINE j == i - m
    <3>1. j \in 1 .. n /\ j \in 0 .. n /\ j - 1 \in 0 .. n /\ i = m + j /\ i - 1 = m + (j - 1)
      BY <1>4, <2>2
    <3> HIDE DEF j
    <3>2. H[i] = E(j) /\ H[i - 1] = E(j - 1) /\ u[i] = t[j]
      BY <1>4, <1>10, <3>1, Zenon
    <3>3. QED
      BY <1>8, <3>1, <3>2, Zenon
  <2>3. QED
    BY <2>1, <2>2, Zenon
<1>12. Concats(u, H, S)
  BY <1>4, <1>9, <1>10, <1>11, Zenon DEF Concats
<1>13. FlattenSeq(u) = H[m + n]
  BY <1>4, <1>12, FlattenIsConcats, Zenon
<1>14. n \in 0 .. n
  BY <1>4
<1>15. QED
  BY <1>3, <1>10, <1>13, <1>14, Zenon DEF E, u, m, n


LEMMA FlattenAppend ==
  ASSUME NEW S, NEW s \in Seq(Seq(S)), NEW a \in Seq(S)
  PROVE  /\ FlattenSeq(<<>>) = <<>>
         /\ FlattenSeq(<<a>>) = a
         /\ FlattenSeq(Append(s, a)) = FlattenSeq(s) \o a
<1>1. FlattenSeq(<<>>) = <<>>
  <2>1. Len(<<>>) = 0
    OBVIOUS
  <2>2. QED
    BY <2>1, Zenon DEF FlattenSeq
<1>2. FlattenSeq(<<a>>) = a
  <2> DEFINE t == <<a>>
             F == [i \in 0 .. 1 |-> IF i = 0 THEN <<>> ELSE a]
  <2>1. t \in Seq(Seq(S)) /\ Len(t) = 1 /\ t[1] = a
    OBVIOUS
  <2>2. <<>> \in Seq(S) /\ <<>> \o a = a
    BY EmptySeq, ConcatEmptySeq
  <2>3. F \in [0 .. 1 -> Seq(S)] /\ F[0] = <<>> /\ F[1] = a
    BY <2>2
  <2> HIDE DEF F, t
  <2>4. \A i \in 1 .. 1 : i = 1 /\ i - 1 = 0
    OBVIOUS
  <2>5. Concats(t, F, S)
    BY <2>1, <2>2, <2>3, <2>4, Zenon DEF Concats
  <2>6. FlattenSeq(t) = F[Len(t)]
    BY <2>1, <2>5, FlattenIsConcats, Zenon
  <2>7. QED
    BY <2>1, <2>3, <2>6, Zenon DEF t
<1>3. Append(s, a) = s \o <<a>> /\ <<a>> \in Seq(Seq(S))
  OBVIOUS
<1>4. QED
  BY <1>1, <1>2, <1>3, FlattenConcat

(***************************************************************************)
(* Induction over the length of a sequence.                                *)
(***************************************************************************)
LEMMA SeqInduction ==
  ASSUME NEW C, NEW P, <<>> \in P,
         \A x \in Seq(C) : \A c \in C : x \in P => Append(x, c) \in P
  PROVE  Seq(C) \subseteq P
<1> DEFINE T == {n \in Nat : \A x \in Seq(C) : Len(x) = n => x \in P}
<1>1. 0 \in T
  <2>1. \A x \in Seq(C) : Len(x) = 0 => x = <<>>
    OBVIOUS
  <2>2. QED
    BY <2>1
<1>2. ASSUME NEW n \in Nat, n \in T PROVE n + 1 \in T
  <2> SUFFICES ASSUME NEW x \in Seq(C), Len(x) = n + 1 PROVE x \in P
    OBVIOUS
  <2>1. x # <<>>
    OBVIOUS
  <2>2. PICK y \in Seq(C), c \in C : x = Append(y, c)
    BY <2>1, SequenceEmptyOrAppend
  <2>3. Len(y) = n
    BY <2>2
  <2>4. QED
    BY <1>2, <2>2, <2>3
<1>3. Nat \subseteq T
  <2> HIDE DEF T
  <2>1. \A n \in Nat : n \in T => n + 1 \in T
    BY <1>2
  <2>2. QED
    BY <1>1, <2>1, SetInduction
<1>4. ASSUME NEW x \in Seq(C) PROVE x \in P
  BY <1>3
<1>5. QED
  BY <1>4

-----------------------------------------------------------------------------
(* What a function makes of each member of a sequence                      *)

Maps(G, C, S) == G \in [C -> Seq(S)]

Image(G, x) == FlattenSeq([i \in 1 .. Len(x) |-> G[x[i]]])

LEMMA ImageParts ==
  ASSUME NEW C, NEW S, NEW G, Maps(G, C, S), NEW x \in Seq(C)
  PROVE  /\ [i \in 1 .. Len(x) |-> G[x[i]]] \in Seq(Seq(S))
         /\ Image(G, x) \in Seq(S)
<1>1. \A i \in 1 .. Len(x) : G[x[i]] \in Seq(S)
  BY ElementOfSeq DEF Maps
<1>2. Len(x) \in Nat
  BY LenProperties
<1>3. [i \in 1 .. Len(x) |-> G[x[i]]] \in Seq(Seq(S))
  BY <1>1, <1>2
<1>4. QED
  BY <1>3, FlattenIsSeq DEF Image

LEMMA ImageConcat ==
  ASSUME NEW C, NEW S, NEW G, Maps(G, C, S), NEW x \in Seq(C), NEW y \in Seq(C)
  PROVE  Image(G, x \o y) = Image(G, x) \o Image(G, y)
<1> DEFINE P(z) == [i \in 1 .. Len(z) |-> G[z[i]]]
<1>1. P(x) \in Seq(Seq(S)) /\ P(y) \in Seq(Seq(S))
  BY ImageParts
<1>2. P(x \o y) = P(x) \o P(y)
  OBVIOUS
<1> HIDE DEF P
<1>3. FlattenSeq(P(x \o y)) = FlattenSeq(P(x)) \o FlattenSeq(P(y))
  BY <1>1, <1>2, FlattenConcat
<1>4. QED
  BY <1>3 DEF P, Image

LEMMA ImageIs ==
  ASSUME NEW C, NEW S, NEW G, Maps(G, C, S)
  PROVE  /\ Image(G, <<>>) = <<>>
         /\ \A x \in Seq(C) : Image(G, x) \in Seq(S)
         /\ \A c \in C : Image(G, <<c>>) = G[c]
         /\ \A x, y \in Seq(C) : Image(G, x \o y) = Image(G, x) \o Image(G, y)
         /\ \A x \in Seq(C) : \A c \in C : Image(G, Append(x, c)) = Image(G, x) \o G[c]
<1>1. Image(G, <<>>) = <<>>
  <2>1. [i \in 1 .. Len(<<>>) |-> G[<<>>[i]]] = <<>>
    OBVIOUS
  <2>2. FlattenSeq(<<>>) = <<>>
    <3>1. <<>> \in Seq(Seq(S)) /\ <<>> \in Seq(S)
      BY EmptySeq
    <3>2. QED
      BY <3>1, FlattenAppend
  <2>3. QED
    BY <2>1, <2>2, Zenon DEF Image
<1>2. ASSUME NEW c \in C PROVE Image(G, <<c>>) = G[c]
  <2>1. [i \in 1 .. Len(<<c>>) |-> G[<<c>>[i]]] = <<G[c]>>
    OBVIOUS
  <2>2. G[c] \in Seq(S) /\ <<>> \in Seq(Seq(S))
    BY EmptySeq DEF Maps
  <2>3. FlattenSeq(<<G[c]>>) = G[c]
    BY <2>2, FlattenAppend
  <2>4. QED
    BY <2>1, <2>3, Zenon DEF Image
<1>3. \A x, y \in Seq(C) : Image(G, x \o y) = Image(G, x) \o Image(G, y)
  BY ImageConcat
<1>4. ASSUME NEW x \in Seq(C), NEW c \in C
      PROVE  Image(G, Append(x, c)) = Image(G, x) \o G[c]
  <2>1. Append(x, c) = x \o <<c>> /\ <<c>> \in Seq(C)
    OBVIOUS
  <2>2. QED
    BY <1>2, <1>3, <2>1
<1>5. \A x \in Seq(C) : Image(G, x) \in Seq(S)
  BY ImageParts
<1>6. QED
  BY <1>1, <1>2, <1>3, <1>4, <1>5

(* Parts that are flattened first, or each by itself.                      *)
LEMMA ImageFlatten ==
  ASSUME NEW C, NEW S, NEW G, Maps(G, C, S), NEW s \in Seq(Seq(C))
  PROVE  Image(G, FlattenSeq(s)) = FlattenSeq([i \in 1 .. Len(s) |-> Image(G, s[i])])
<1> DEFINE H == [x \in Seq(C) |-> Image(G, x)]
           P == {t \in Seq(Seq(C)) : Image(G, FlattenSeq(t)) = Image(H, t)}
<1>1. Maps(H, Seq(C), S) /\ \A x \in Seq(C) : H[x] = Image(G, x)
  BY ImageIs DEF Maps
<1>2. <<>> \in P
  <2>1. <<>> \in Seq(Seq(C)) /\ <<>> \in Seq(C)
    BY EmptySeq
  <2>2. FlattenSeq(<<>>) = <<>>
    BY <2>1, FlattenAppend
  <2>3. Image(G, <<>>) = <<>>
    BY ImageIs
  <2> HIDE DEF H
  <2>4. Image(H, <<>>) = <<>>
    BY <1>1, ImageIs
  <2>5. QED
    BY <2>1, <2>2, <2>3, <2>4
<1>3. ASSUME NEW t \in Seq(Seq(C)), NEW a \in Seq(C), t \in P
      PROVE  Append(t, a) \in P
  <2>1. Append(t, a) \in Seq(Seq(C)) /\ FlattenSeq(t) \in Seq(C)
    BY AppendProperties, FlattenIsSeq
  <2>2. FlattenSeq(Append(t, a)) = FlattenSeq(t) \o a
    BY FlattenAppend
  <2>3. \A x, y \in Seq(C) : Image(G, x \o y) = Image(G, x) \o Image(G, y)
    BY ImageIs
  <2>4. Image(G, FlattenSeq(t)) = Image(H, t)
    BY <1>3
  <2> HIDE DEF H
  <2>5. \A x \in Seq(Seq(C)) : \A c \in Seq(C) : Image(H, Append(x, c)) = Image(H, x) \o H[c]
    BY <1>1, ImageIs
  <2>6. Image(G, FlattenSeq(t) \o a) = Image(G, FlattenSeq(t)) \o Image(G, a)
    BY <2>1, <2>3, Zenon
  <2>7. Image(H, Append(t, a)) = Image(H, t) \o H[a]
    BY <2>5, Zenon
  <2>8. Image(G, FlattenSeq(Append(t, a))) = Image(H, Append(t, a))
    BY <1>1, <2>2, <2>4, <2>6, <2>7, Zenon
  <2>9. QED
    BY <2>1, <2>8, Zenon
<1>4. Seq(Seq(C)) \subseteq P
  <2> HIDE DEF P
  <2>1. QED
    BY <1>2, <1>3, SeqInduction
<1>5. [i \in 1 .. Len(s) |-> H[s[i]]] = [i \in 1 .. Len(s) |-> Image(G, s[i])]
  <2>1. \A i \in 1 .. Len(s) : H[s[i]] = Image(G, s[i])
    BY ElementOfSeq
  <2>2. QED
    BY <2>1, Zenon
<1>6. QED
  BY <1>4, <1>5 DEF Image

-----------------------------------------------------------------------------
(* What is in a concatenation, and how long it is                          *)

LEMMA ContainsConcat ==
  ASSUME NEW S, NEW x \in Seq(S), NEW y \in Seq(S), NEW b
  PROVE  Contains(x \o y, b) <=> Contains(x, b) \/ Contains(y, b)
<1>1. /\ Len(x \o y) = Len(x) + Len(y) /\ Len(x) \in Nat /\ Len(y) \in Nat
      /\ \A i \in 1 .. Len(x) : (x \o y)[i] = x[i]
      /\ \A i \in 1 .. Len(y) : (x \o y)[Len(x) + i] = y[i]
  OBVIOUS
<1>2. ASSUME NEW i \in 1 .. Len(x \o y), (x \o y)[i] = b
      PROVE  Contains(x, b) \/ Contains(y, b)
  <2>1. CASE i \in 1 .. Len(x)
    BY <1>1, <1>2, <2>1 DEF Contains
  <2>2. CASE i \notin 1 .. Len(x)
    <3>1. i - Len(x) \in 1 .. Len(y) /\ Len(x) + (i - Len(x)) = i
      BY <1>1, <2>2
    <3>2. y[i - Len(x)] = b
      BY <1>1, <1>2, <3>1
    <3>3. QED
      BY <3>1, <3>2 DEF Contains
  <2>3. QED
    BY <2>1, <2>2
<1>3. ASSUME NEW i \in 1 .. Len(x), x[i] = b PROVE Contains(x \o y, b)
  <2>1. i \in 1 .. Len(x \o y) /\ (x \o y)[i] = b
    BY <1>1, <1>3
  <2>2. QED
    BY <2>1, Zenon DEF Contains
<1>4. ASSUME NEW i \in 1 .. Len(y), y[i] = b PROVE Contains(x \o y, b)
  <2>1. Len(x) + i \in 1 .. Len(x \o y) /\ (x \o y)[Len(x) + i] = b
    BY <1>1, <1>4
  <2>2. QED
    BY <2>1, Zenon DEF Contains
<1>5. QED
  BY <1>2, <1>3, <1>4, Zenon DEF Contains

LEMMA ContainsFlatten ==
  ASSUME NEW S, NEW s \in Seq(Seq(S)), NEW b
  PROVE  Contains(FlattenSeq(s), b) <=> \E i \in 1 .. Len(s) : Contains(s[i], b)
<1> DEFINE Has(t) == \E i \in 1 .. Len(t) : Contains(t[i], b)
           P == {t \in Seq(Seq(S)) : Contains(FlattenSeq(t), b) <=> Has(t)}
<1>1. <<>> \in P
  <2>1. <<>> \in Seq(Seq(S)) /\ <<>> \in Seq(S) /\ Len(<<>>) = 0
    BY EmptySeq
  <2>2. FlattenSeq(<<>>) = <<>>
    BY <2>1, FlattenAppend
  <2>3. ~Has(<<>>) /\ ~Contains(<<>>, b)
    BY <2>1 DEF Contains
  <2>4. QED
    BY <2>1, <2>2, <2>3
<1>2. ASSUME NEW t \in Seq(Seq(S)), NEW a \in Seq(S), t \in P PROVE Append(t, a) \in P
  <2>1. Append(t, a) \in Seq(Seq(S)) /\ FlattenSeq(t) \in Seq(S)
    BY AppendProperties, FlattenIsSeq
  <2>2. FlattenSeq(Append(t, a)) = FlattenSeq(t) \o a
    BY FlattenAppend
  <2>3. Contains(FlattenSeq(t) \o a, b) <=> Contains(FlattenSeq(t), b) \/ Contains(a, b)
    BY <2>1, ContainsConcat
  <2>4. Has(Append(t, a)) <=> Has(t) \/ Contains(a, b)
    <3>1. /\ Len(t) \in Nat /\ Len(Append(t, a)) = Len(t) + 1
          /\ \A i \in 1 .. Len(t) : Append(t, a)[i] = t[i]
          /\ Append(t, a)[Len(t) + 1] = a
      BY AppendProperties, LenProperties
    <3>2. \A i \in 1 .. Len(t) : i \in 1 .. Len(Append(t, a))
      BY <3>1
    <3>3. Len(t) + 1 \in 1 .. Len(Append(t, a))
      BY <3>1
    <3>4. \A i \in 1 .. Len(Append(t, a)) : i \in 1 .. Len(t) \/ i = Len(t) + 1
      BY <3>1
    <3>5. QED
      BY <3>1, <3>2, <3>3, <3>4, Zenon
  <2> HIDE DEF Has
  <2>5. Contains(FlattenSeq(t), b) <=> Has(t)
    BY <1>2
  <2>6. Contains(FlattenSeq(Append(t, a)), b) <=> Has(Append(t, a))
    BY <2>2, <2>3, <2>4, <2>5, Zenon
  <2>7. QED
    BY <2>1, <2>6
<1>3. Seq(Seq(S)) \subseteq P
  <2> HIDE DEF P
  <2>1. QED
    BY <1>1, <1>2, SeqInduction
<1>4. QED
  BY <1>3

(* The first parts, one after the other. *)
Start(s, k) == FlattenSeq([i \in 1 .. k |-> s[i]])

LEMMA StartGrows ==
  ASSUME NEW S, NEW s \in Seq(Seq(S))
  PROVE  /\ Start(s, 0) = <<>> /\ Start(s, Len(s)) = FlattenSeq(s)
         /\ \A k \in 0 .. Len(s) : Start(s, k) \in Seq(S) /\ Len(Start(s, k)) <= Len(FlattenSeq(s))
         /\ \A k \in 1 .. Len(s) : Start(s, k) = Start(s, k - 1) \o s[k]
<1> DEFINE N == Len(s)
           T(k) == [i \in 1 .. k |-> s[i]]
<1>1. /\ N \in Nat /\ \A i \in 1 .. N : s[i] \in Seq(S)
      /\ \A k \in 0 .. N : T(k) \in Seq(Seq(S))
      /\ \A k \in 1 .. N : T(k) = Append(T(k - 1), s[k])
      /\ T(0) = <<>> /\ T(N) = s
  <2>1. N \in Nat /\ (\A i \in 1 .. N : s[i] \in Seq(S)) /\ T(N) = s /\ T(0) = <<>>
    OBVIOUS
  <2>2. \A k \in 0 .. N : T(k) \in Seq(Seq(S)) /\ Len(T(k)) = k
    OBVIOUS
  <2>3. ASSUME NEW k \in 1 .. N PROVE T(k) = Append(T(k - 1), s[k])
    <3>1. T(k - 1) \in Seq(Seq(S)) /\ s[k] \in Seq(S) /\ k \in 0 .. N /\ Len(T(k - 1)) = k - 1
      <4> HIDE DEF T, N
      <4>1. k - 1 \in 0 .. N /\ k \in 0 .. N
        BY <2>1
      <4>2. QED
        BY <2>1, <2>2, <4>1
    <3>2. Append(T(k - 1), s[k]) = [i \in 1 .. (k - 1) + 1 |-> IF i <= k - 1 THEN T(k - 1)[i] ELSE s[k]]
      BY <3>1
    <3>3. \A i \in 1 .. k - 1 : T(k - 1)[i] = s[i]
      OBVIOUS
    <3> HIDE DEF N
    <3>4. QED
      BY <2>1, <3>2, <3>3
  <2>4. QED
    BY <2>1, <2>2, <2>3
<1> HIDE DEF N, T
<1>2. \A k \in 0 .. N : Start(s, k) = FlattenSeq(T(k))
  BY Zenon DEF Start, T
<1>3. \A k \in 0 .. N : Start(s, k) \in Seq(S)
  BY <1>1, <1>2, FlattenIsSeq
<1>4. Start(s, 0) = <<>>
  <2>1. <<>> \in Seq(Seq(S)) /\ <<>> \in Seq(S) /\ 0 \in 0 .. N
    BY <1>1, EmptySeq
  <2>2. FlattenSeq(<<>>) = <<>>
    BY <2>1, FlattenAppend
  <2>3. QED
    BY <1>1, <1>2, <2>1, <2>2
<1>5. Start(s, N) = FlattenSeq(s)
  <2>1. N \in 0 .. N
    BY <1>1
  <2>2. QED
    BY <1>1, <1>2, <2>1
<1>6. ASSUME NEW k \in 1 .. N PROVE Start(s, k) = Start(s, k - 1) \o s[k]
  <2>1. k \in 0 .. N /\ k - 1 \in 0 .. N
    BY <1>1
  <2>2. T(k - 1) \in Seq(Seq(S)) /\ s[k] \in Seq(S) /\ T(k) = Append(T(k - 1), s[k])
    BY <1>1, <2>1
  <2>3. FlattenSeq(Append(T(k - 1), s[k])) = FlattenSeq(T(k - 1)) \o s[k]
    BY <2>2, FlattenAppend
  <2>4. QED
    BY <1>2, <2>1, <2>2, <2>3
<1>7. ASSUME NEW k \in 0 .. N PROVE Len(Start(s, k)) <= Len(Start(s, N))
  <2> DEFINE L(j) == Len(Start(s, j))
             D == {d \in Nat : k + d <= N => L(k) <= L(k + d)}
  <2>1. \A j \in 0 .. N : L(j) \in Nat
    BY <1>3, LenProperties
  <2>2. \A j \in 1 .. N : L(j) = L(j - 1) + Len(s[j]) /\ Len(s[j]) \in Nat
    <3> SUFFICES ASSUME NEW j \in 1 .. N
                 PROVE  L(j) = L(j - 1) + Len(s[j]) /\ Len(s[j]) \in Nat
      OBVIOUS
    <3>1. j - 1 \in 0 .. N
      BY <1>1
    <3>2. Start(s, j - 1) \in Seq(S) /\ s[j] \in Seq(S)
      BY <1>1, <1>3, <3>1
    <3>3. Len(Start(s, j - 1) \o s[j]) = Len(Start(s, j - 1)) + Len(s[j])
      BY <3>2, ConcatProperties
    <3>4. QED
      BY <1>6, <3>2, <3>3, LenProperties
  <2> HIDE DEF L
  <2>3. 0 \in D
    BY <1>1, <2>1
  <2>4. ASSUME NEW d \in Nat, d \in D PROVE d + 1 \in D
    <3>1. CASE k + (d + 1) <= N
      <4>1. k + d <= N /\ k + (d + 1) \in 1 .. N /\ (k + (d + 1)) - 1 = k + d
            /\ k + d \in 0 .. N
        BY <1>1, <3>1
      <4>2. L(k) <= L(k + d)
        BY <2>4, <4>1
      <4>3. L(k + (d + 1)) = L(k + d) + Len(s[k + (d + 1)]) /\ Len(s[k + (d + 1)]) \in Nat
        BY <2>2, <4>1
      <4>4. L(k) <= L(k + (d + 1))
        BY <2>1, <4>1, <4>2, <4>3
      <4>5. QED
        BY <4>4
    <3>2. QED
      BY <3>1
  <2>5. Nat \subseteq D
    <3> HIDE DEF D
    <3>1. QED
      BY <2>3, <2>4, SetInduction
  <2>6. N - k \in Nat /\ k + (N - k) = N
    BY <1>1
  <2>7. L(k) <= L(N)
    <3>1. N - k \in D
      BY <2>5, <2>6
    <3>2. k + (N - k) <= N
      BY <1>1, <2>6
    <3> HIDE DEF N
    <3>3. L(k) <= L(k + (N - k))
      BY <3>1, <3>2
    <3>4. QED
      BY <2>6, <3>3
  <2>8. QED
    BY <2>7 DEF L
<1>8. QED
  BY <1>3, <1>4, <1>5, <1>6, <1>7 DEF N

-----------------------------------------------------------------------------
(* Characters and their bytes                                              *)

Symbols == BMP \union {PAIR}
Converted == Octets \union {BAD}

(* No surrogate is without its other half. *)
Paired(s) ==
  \A i \in 1 .. Len(s) :
    /\ s[i] = HIGH => IsLow(s, i + 1)
    /\ s[i] = LOW => IsHigh(s, i - 1)

ByteSeq(c, n) == [k \in 1 .. n |-> <<c, k>>]

LEMMA UnitIs ==
  ASSUME NEW s \in Seq(CodeUnits), NEW i \in 1 .. Len(s)
  PROVE  /\ s[i] \in BMP \union {HIGH, LOW}
         /\ s[i] \in BMP => /\ CharBytes(s, i) = ByteSeq(s[i], Width[s[i]])
                            /\ CharAt(s, i) = <<s[i]>> /\ Width[s[i]] \in 1 .. 3
         /\ s[i] = HIGH => IF IsLow(s, i + 1)
                           THEN CharBytes(s, i) = ByteSeq(PAIR, 4) /\ CharAt(s, i) = <<PAIR>>
                           ELSE CharBytes(s, i) = <<BAD>> /\ CharAt(s, i) = <<REPLACEMENT>>
         /\ s[i] = LOW => IF IsHigh(s, i - 1)
                          THEN CharBytes(s, i) = <<>> /\ CharAt(s, i) = <<>>
                          ELSE CharBytes(s, i) = <<BAD>> /\ CharAt(s, i) = <<REPLACEMENT>>
<1>1. s[i] \in BMP \union {HIGH, LOW}
  BY ElementOfSeq DEF CodeUnits
<1>2. ASSUME s[i] \in BMP
      PROVE  /\ CharBytes(s, i) = ByteSeq(s[i], Width[s[i]])
             /\ CharAt(s, i) = <<s[i]>> /\ Width[s[i]] \in 1 .. 3
  BY <1>2, Utf16Assumption DEF CharBytes, CharAt, IsHigh, IsLow, ByteSeq
<1>3. ASSUME s[i] = HIGH
      PROVE  IF IsLow(s, i + 1)
             THEN CharBytes(s, i) = ByteSeq(PAIR, 4) /\ CharAt(s, i) = <<PAIR>>
             ELSE CharBytes(s, i) = <<BAD>> /\ CharAt(s, i) = <<REPLACEMENT>>
  <2>1. IsHigh(s, i) /\ ~IsLow(s, i) /\ s[i] \notin BMP
    BY <1>3, Utf16Assumption DEF IsHigh, IsLow
  <2>2. QED
    BY <2>1 DEF CharBytes, CharAt, ByteSeq
<1>4. ASSUME s[i] = LOW
      PROVE  IF IsHigh(s, i - 1)
             THEN CharBytes(s, i) = <<>> /\ CharAt(s, i) = <<>>
             ELSE CharBytes(s, i) = <<BAD>> /\ CharAt(s, i) = <<REPLACEMENT>>
  <2>1. IsLow(s, i) /\ ~IsHigh(s, i) /\ s[i] \notin BMP
    BY <1>4, Utf16Assumption DEF IsHigh, IsLow
  <2>2. QED
    BY <2>1 DEF CharBytes, CharAt
<1>5. QED
  BY <1>1, <1>2, <1>3, <1>4

LEMMA ByteSeqIs ==
  ASSUME NEW c \in Symbols, NEW n \in 1 .. 4
  PROVE  ByteSeq(c, n) \in Seq(Octets) /\ ~Contains(ByteSeq(c, n), BAD)
<1>1. \A k \in 1 .. n : <<c, k>> \in Octets
  BY DEF Octets, Symbols
<1>2. ByteSeq(c, n) \in Seq(Octets)
  BY <1>1 DEF ByteSeq
<1>3. ASSUME NEW k \in 1 .. Len(ByteSeq(c, n)) PROVE ByteSeq(c, n)[k] # BAD
  BY <1>2, ElementOfSeq, FormatterAssumption
<1>4. QED
  BY <1>2, <1>3, Zenon DEF Contains

LEMMA UnitIsTyped ==
  ASSUME NEW s \in Seq(CodeUnits), NEW i \in 1 .. Len(s)
  PROVE  /\ CharBytes(s, i) \in Seq(Converted) /\ CharAt(s, i) \in Seq(Symbols)
         /\ CharBytes(s, i) = <<BAD>> \/ (CharBytes(s, i) \in Seq(Octets) /\ ~Contains(CharBytes(s, i), BAD))
         /\ Len(CharAt(s, i)) <= 1
<1> DEFINE B == CharBytes(s, i)
           A == CharAt(s, i)
<1>1. \/ B = <<BAD>> /\ A = <<REPLACEMENT>>
      \/ B = <<>> /\ A = <<>>
      \/ \E c \in Symbols, n \in 1 .. 4 : B = ByteSeq(c, n) /\ A = <<c>>
  <2>1. CASE s[i] \in BMP
    BY <2>1, UnitIs DEF Symbols
  <2>2. CASE s[i] = HIGH
    BY <2>2, UnitIs DEF Symbols
  <2>3. CASE s[i] = LOW
    BY <2>3, UnitIs
  <2>4. QED
    BY <2>1, <2>2, <2>3, UnitIs
<1>2. REPLACEMENT \in Symbols
  BY FormatterAssumption DEF Symbols
<1>3. <<BAD>> \in Seq(Converted) /\ <<>> \in Seq(Octets) /\ ~Contains(<<>>, BAD)
  BY DEF Converted, Contains
<1> HIDE DEF A, B
<1>4. B = <<BAD>> \/ (B \in Seq(Octets) /\ ~Contains(B, BAD))
  BY <1>1, <1>3, ByteSeqIs
<1>5. B \in Seq(Converted)
  <2>1. Octets \subseteq Converted
    BY DEF Converted
  <2>2. QED
    BY <1>3, <1>4, <2>1, SeqMonotonic
<1>6. A \in Seq(Symbols) /\ Len(A) <= 1
  <2>1. \A c \in Symbols : <<c>> \in Seq(Symbols) /\ Len(<<c>>) = 1
    OBVIOUS
  <2>2. <<>> \in Seq(Symbols) /\ Len(<<>>) = 0
    OBVIOUS
  <2>3. A = <<>> \/ \E c \in Symbols : A = <<c>>
    BY <1>1, <1>2, Zenon
  <2>4. CASE A = <<>>
    BY <2>2, <2>4
  <2>5. ASSUME NEW c \in Symbols, A = <<c>> PROVE A \in Seq(Symbols) /\ Len(A) <= 1
    BY <2>1, <2>5
  <2>6. QED
    BY <2>3, <2>4, <2>5, Zenon
<1>7. QED
  BY <1>4, <1>5, <1>6 DEF A, B

UnitBytes(s) == [i \in 1 .. Len(s) |-> CharBytes(s, i)]
UnitChars(s) == [i \in 1 .. Len(s) |-> CharAt(s, i)]

LEMMA UnitsAre ==
  ASSUME NEW s \in Seq(CodeUnits)
  PROVE  /\ Len(s) \in Nat
         /\ UnitBytes(s) \in Seq(Seq(Converted)) /\ UnitChars(s) \in Seq(Seq(Symbols))
         /\ Len(UnitBytes(s)) = Len(s) /\ Len(UnitChars(s)) = Len(s)
         /\ \A i \in 1 .. Len(s) : UnitBytes(s)[i] = CharBytes(s, i) /\ UnitChars(s)[i] = CharAt(s, i)
         /\ Encode(s) = FlattenSeq(UnitBytes(s)) /\ Characters(s) = FlattenSeq(UnitChars(s))
         /\ Encode(s) \in Seq(Converted) /\ Characters(s) \in Seq(Symbols)
<1>1. \A i \in 1 .. Len(s) : CharBytes(s, i) \in Seq(Converted) /\ CharAt(s, i) \in Seq(Symbols)
  BY UnitIsTyped
<1>2. Len(s) \in Nat
  BY LenProperties
<1>3. UnitBytes(s) \in Seq(Seq(Converted)) /\ Len(UnitBytes(s)) = Len(s)
  BY <1>1, <1>2 DEF UnitBytes
<1>4. UnitChars(s) \in Seq(Seq(Symbols)) /\ Len(UnitChars(s)) = Len(s)
  BY <1>1, <1>2 DEF UnitChars
<1>5. Encode(s) = FlattenSeq(UnitBytes(s)) /\ Characters(s) = FlattenSeq(UnitChars(s))
  BY Zenon DEF Encode, Characters, UnitBytes, UnitChars
<1>6. Encode(s) \in Seq(Converted) /\ Characters(s) \in Seq(Symbols)
  BY <1>3, <1>4, <1>5, FlattenIsSeq
<1>7. \A i \in 1 .. Len(s) : UnitBytes(s)[i] = CharBytes(s, i) /\ UnitChars(s)[i] = CharAt(s, i)
  BY Zenon DEF UnitBytes, UnitChars
<1>8. QED
  BY <1>2, <1>3, <1>4, <1>5, <1>6, <1>7

(***************************************************************************)
(* A text is well formed if its surrogates are in pairs.                   *)
(***************************************************************************)
LEMMA WellFormedIsPaired ==
  ASSUME NEW s \in Seq(CodeUnits)
  PROVE  /\ WellFormed(s) => Paired(s)
         /\ Paired(s) => /\ WellFormed(s) /\ UnitBytes(s) \in Seq(Seq(Octets))
                         /\ Encode(s) \in Seq(Octets)
<1>1. Contains(Encode(s), BAD) <=> \E i \in 1 .. Len(s) : Contains(CharBytes(s, i), BAD)
  <2>1. Contains(FlattenSeq(UnitBytes(s)), BAD) <=>
          \E i \in 1 .. Len(UnitBytes(s)) : Contains(UnitBytes(s)[i], BAD)
    BY UnitsAre, ContainsFlatten
  <2>2. QED
    BY <2>1, UnitsAre
<1>2. Contains(<<BAD>>, BAD)
  BY DEF Contains
<1>3. ASSUME WellFormed(s), NEW i \in 1 .. Len(s)
      PROVE  /\ s[i] = HIGH => IsLow(s, i + 1)
             /\ s[i] = LOW => IsHigh(s, i - 1)
  <2>1. CharBytes(s, i) # <<BAD>>
    BY <1>1, <1>2, <1>3 DEF WellFormed
  <2>2. QED
    BY <2>1, UnitIs
<1>4. ASSUME Paired(s), NEW i \in 1 .. Len(s)
      PROVE  CharBytes(s, i) \in Seq(Octets) /\ ~Contains(CharBytes(s, i), BAD)
  <2>1. CASE s[i] \in BMP
    <3>1. s[i] \in Symbols /\ Width[s[i]] \in 1 .. 4 /\ CharBytes(s, i) = ByteSeq(s[i], Width[s[i]])
      BY <2>1, UnitIs DEF Symbols
    <3>2. QED
      BY <3>1, ByteSeqIs
  <2>2. CASE s[i] = HIGH
    <3>1. CharBytes(s, i) = ByteSeq(PAIR, 4) /\ PAIR \in Symbols /\ 4 \in 1 .. 4
      BY <1>4, <2>2, UnitIs DEF Paired, Symbols
    <3>2. QED
      BY <3>1, ByteSeqIs
  <2>3. CASE s[i] = LOW
    <3>1. CharBytes(s, i) = <<>>
      BY <1>4, <2>3, UnitIs DEF Paired
    <3>2. QED
      BY <3>1 DEF Contains
  <2>4. QED
    BY <2>1, <2>2, <2>3, UnitIs
<1>5. ASSUME Paired(s)
      PROVE  /\ WellFormed(s) /\ UnitBytes(s) \in Seq(Seq(Octets))
             /\ Encode(s) \in Seq(Octets)
  <2>1. \A i \in 1 .. Len(s) : CharBytes(s, i) \in Seq(Octets) /\ ~Contains(CharBytes(s, i), BAD)
    BY <1>4, <1>5
  <2>2. UnitBytes(s) \in Seq(Seq(Octets))
    BY <2>1, UnitsAre DEF UnitBytes
  <2>3. Encode(s) \in Seq(Octets)
    BY <2>2, UnitsAre, FlattenIsSeq
  <2>4. WellFormed(s)
    BY <1>1, <2>1 DEF WellFormed
  <2>5. QED
    BY <2>2, <2>3, <2>4
<1>6. QED
  BY <1>3, <1>5 DEF Paired

-----------------------------------------------------------------------------
(* The bytes of a text and its characters                                  *)

Firsts == [b \in Octets |-> IfFirst(b)]
All == [c \in Symbols |-> AllBytes(c)]

LEMMA FirstsIs ==
  /\ Maps(Firsts, Octets, Symbols)
  /\ \A c \in Symbols : Firsts[<<c, 1>>] = <<c>>
  /\ \A c \in Symbols, k \in 2 .. 4 : Firsts[<<c, k>>] = <<>>
<1>1. ASSUME NEW b \in Octets PROVE IfFirst(b) \in Seq(Symbols)
  <2>1. b[1] \in Symbols
    BY DEF Octets, Symbols
  <2>2. <<>> \in Seq(Symbols) /\ <<b[1]>> \in Seq(Symbols)
    BY <2>1
  <2>3. QED
    BY <2>2, Zenon DEF IfFirst
<1>2. ASSUME NEW c \in Symbols PROVE Firsts[<<c, 1>>] = <<c>>
  <2>1. <<c, 1>> \in Octets
    BY DEF Octets, Symbols
  <2>2. QED
    BY <2>1 DEF Firsts, IfFirst
<1>3. ASSUME NEW c \in Symbols, NEW k \in 2 .. 4 PROVE Firsts[<<c, k>>] = <<>>
  <2>1. <<c, k>> \in Octets /\ k # 1
    BY DEF Octets, Symbols
  <2>2. QED
    BY <2>1 DEF Firsts, IfFirst
<1>4. QED
  BY <1>1, <1>2, <1>3 DEF Firsts, Maps

LEMMA AllIs ==
  /\ Maps(All, Symbols, Octets)
  /\ \A c \in BMP : All[c] = ByteSeq(c, Width[c]) /\ Width[c] \in 1 .. 4 /\ c \in Symbols
  /\ All[PAIR] = ByteSeq(PAIR, 4) /\ PAIR \in Symbols
<1>1. ASSUME NEW c \in BMP
      PROVE  All[c] = ByteSeq(c, Width[c]) /\ Width[c] \in 1 .. 4 /\ c \in Symbols
  <2>1. c # PAIR /\ c \in Symbols /\ Width[c] \in 1 .. 3
    BY Utf16Assumption, FormatterAssumption DEF Symbols
  <2>2. QED
    BY <2>1 DEF All, AllBytes, ByteSeq
<1>2. All[PAIR] = ByteSeq(PAIR, 4) /\ PAIR \in Symbols
  BY DEF All, AllBytes, ByteSeq, Symbols
<1>3. ASSUME NEW c \in Symbols PROVE All[c] \in Seq(Octets)
  <2>1. CASE c \in BMP
    BY <1>1, <2>1, ByteSeqIs
  <2>2. CASE c = PAIR
    <3>1. 4 \in 1 .. 4
      OBVIOUS
    <3>2. ByteSeq(PAIR, 4) \in Seq(Octets)
      BY <1>2, <3>1, ByteSeqIs
    <3>3. QED
      BY <1>2, <2>2, <3>2, Zenon
  <2>3. QED
    BY <2>1, <2>2 DEF Symbols
<1>4. All = [c \in Symbols |-> All[c]]
  BY DEF All
<1>5. All \in [Symbols -> Seq(Octets)]
  BY <1>3, <1>4, Zenon
<1>6. QED
  BY <1>1, <1>2, <1>5 DEF Maps

(* The bytes of a character begin with its first one. *)
LEMMA ByteSeqBegins ==
  ASSUME NEW c \in Symbols, NEW n \in 1 .. 4
  PROVE  Image(Firsts, ByteSeq(c, n)) = <<c>>
<1>1. Image(Firsts, ByteSeq(c, 1)) = <<c>>
  <2>1. ByteSeq(c, 1) = <<<<c, 1>>>>
    BY DEF ByteSeq
  <2>2. <<c, 1>> \in Octets
    BY DEF Octets, Symbols
  <2>3. Image(Firsts, <<<<c, 1>>>>) = Firsts[<<c, 1>>]
    BY <2>2, FirstsIs, ImageIs
  <2>4. QED
    BY <2>1, <2>3, FirstsIs, Zenon
<1>2. ASSUME NEW k \in 1 .. 3, Image(Firsts, ByteSeq(c, k)) = <<c>>
      PROVE  Image(Firsts, ByteSeq(c, k + 1)) = <<c>>
  <2>1. ByteSeq(c, k + 1) = Append(ByteSeq(c, k), <<c, k + 1>>)
    BY DEF ByteSeq
  <2>2. <<c, k + 1>> \in Octets /\ k + 1 \in 2 .. 4 /\ k \in 1 .. 4
    BY DEF Octets, Symbols
  <2>3. ByteSeq(c, k) \in Seq(Octets)
    BY <2>2, ByteSeqIs
  <2>4. Image(Firsts, Append(ByteSeq(c, k), <<c, k + 1>>)) = Image(Firsts, ByteSeq(c, k)) \o Firsts[<<c, k + 1>>]
    <3>1. \A x \in Seq(Octets) : \A b \in Octets : Image(Firsts, Append(x, b)) = Image(Firsts, x) \o Firsts[b]
      BY FirstsIs, ImageIs
    <3>2. QED
      BY <2>2, <2>3, <3>1, Zenon
  <2>5. Firsts[<<c, k + 1>>] = <<>>
    BY <2>2, FirstsIs
  <2>6. <<c>> \o <<>> = <<c>>
    OBVIOUS
  <2>7. QED
    BY <1>2, <2>1, <2>4, <2>5, <2>6, Zenon
<1>3. Image(Firsts, ByteSeq(c, 2)) = <<c>>
  BY <1>1, <1>2
<1>4. Image(Firsts, ByteSeq(c, 3)) = <<c>>
  BY <1>3, <1>2
<1>5. Image(Firsts, ByteSeq(c, 4)) = <<c>>
  BY <1>4, <1>2
<1>6. n = 1 \/ n = 2 \/ n = 3 \/ n = 4
  OBVIOUS
<1>7. QED
  BY <1>1, <1>3, <1>4, <1>5, <1>6, Zenon

(***************************************************************************)
(* A receiver gets the characters of a well-formed text, and the           *)
(* characters have the bytes of the text.                                  *)
(***************************************************************************)
LEMMA BytesAndCharacters ==
  ASSUME NEW s \in Seq(CodeUnits), Paired(s)
  PROVE  /\ Image(Firsts, Encode(s)) = Characters(s)
         /\ Image(All, Characters(s)) = Encode(s)
<1>1. ASSUME NEW i \in 1 .. Len(s)
      PROVE  /\ Image(Firsts, UnitBytes(s)[i]) = UnitChars(s)[i]
             /\ Image(All, UnitChars(s)[i]) = UnitBytes(s)[i]
  <2>1. ASSUME NEW c \in Symbols, NEW n \in 1 .. 4, All[c] = ByteSeq(c, n),
               CharBytes(s, i) = ByteSeq(c, n), CharAt(s, i) = <<c>>
        PROVE  /\ Image(Firsts, CharBytes(s, i)) = CharAt(s, i)
               /\ Image(All, CharAt(s, i)) = CharBytes(s, i)
    <3>1. Image(Firsts, ByteSeq(c, n)) = <<c>>
      BY ByteSeqBegins
    <3>2. Image(All, <<c>>) = All[c]
      BY AllIs, ImageIs
    <3>3. QED
      BY <2>1, <3>1, <3>2, Zenon
  <2>2. CASE s[i] \in BMP
    <3>1. /\ s[i] \in Symbols /\ Width[s[i]] \in 1 .. 4 /\ All[s[i]] = ByteSeq(s[i], Width[s[i]])
          /\ CharBytes(s, i) = ByteSeq(s[i], Width[s[i]]) /\ CharAt(s, i) = <<s[i]>>
      BY <2>2, UnitIs, AllIs
    <3>2. QED
      BY <2>1, <3>1, UnitsAre
  <2>3. CASE s[i] = HIGH
    <3>1. /\ CharBytes(s, i) = ByteSeq(PAIR, 4) /\ CharAt(s, i) = <<PAIR>>
          /\ PAIR \in Symbols /\ 4 \in 1 .. 4 /\ All[PAIR] = ByteSeq(PAIR, 4)
      BY <2>3, UnitIs, AllIs DEF Paired
    <3>2. QED
      BY <2>1, <3>1, UnitsAre
  <2>4. CASE s[i] = LOW
    <3>1. CharBytes(s, i) = <<>> /\ CharAt(s, i) = <<>>
      BY <2>4, UnitIs DEF Paired
    <3>2. Image(Firsts, <<>>) = <<>> /\ Image(All, <<>>) = <<>>
      BY FirstsIs, AllIs, ImageIs
    <3>3. UnitBytes(s)[i] = CharBytes(s, i) /\ UnitChars(s)[i] = CharAt(s, i)
      BY UnitsAre
    <3>4. QED
      BY <3>1, <3>2, <3>3, Zenon
  <2>5. QED
    BY <2>2, <2>3, <2>4, UnitIs
<1>2. Image(Firsts, Encode(s)) = Characters(s)
  <2>1. Image(Firsts, FlattenSeq(UnitBytes(s))) = FlattenSeq([i \in 1 .. Len(UnitBytes(s)) |-> Image(Firsts, UnitBytes(s)[i])])
    BY FirstsIs, WellFormedIsPaired, ImageFlatten
  <2>2. [i \in 1 .. Len(UnitBytes(s)) |-> Image(Firsts, UnitBytes(s)[i])] = UnitChars(s)
    <3>1. Len(UnitBytes(s)) = Len(s) /\ UnitChars(s) = [i \in 1 .. Len(s) |-> UnitChars(s)[i]]
      BY UnitsAre DEF UnitChars
    <3>2. QED
      BY <1>1, <3>1, Zenon
  <2>3. QED
    BY <2>1, <2>2, UnitsAre
<1>3. Image(All, Characters(s)) = Encode(s)
  <2>1. Image(All, FlattenSeq(UnitChars(s))) = FlattenSeq([i \in 1 .. Len(UnitChars(s)) |-> Image(All, UnitChars(s)[i])])
    BY AllIs, UnitsAre, ImageFlatten
  <2>2. [i \in 1 .. Len(UnitChars(s)) |-> Image(All, UnitChars(s)[i])] = UnitBytes(s)
    <3>1. Len(UnitChars(s)) = Len(s) /\ UnitBytes(s) = [i \in 1 .. Len(s) |-> UnitBytes(s)[i]]
      BY UnitsAre DEF UnitBytes
    <3>2. QED
      BY <1>1, <3>1, Zenon
  <2>3. QED
    BY <2>1, <2>2, UnitsAre
<1>4. QED
  BY <1>2, <1>3

LEMMA IsJoined ==
  ASSUME NEW S, NEW x \in Seq(S), NEW y \in Seq(S), NEW z \in Seq(S),
         Len(z) = Len(x) + Len(y),
         \A i \in 1 .. Len(x) : z[i] = x[i],
         \A j \in 1 .. Len(y) : z[Len(x) + j] = y[j]
  PROVE  z = x \o y
<1>1. /\ x \o y \in Seq(S) /\ Len(x \o y) = Len(x) + Len(y)
      /\ \A i \in 1 .. Len(x) + Len(y) : (x \o y)[i] = IF i <= Len(x) THEN x[i] ELSE y[i - Len(x)]
  BY ConcatProperties
<1>2. Len(x) \in Nat /\ Len(y) \in Nat
  BY LenProperties
<1>3. ASSUME NEW i \in 1 .. Len(z) PROVE z[i] = (x \o y)[i]
  <2>1. CASE i <= Len(x)
    <3>1. i \in 1 .. Len(x) /\ i \in 1 .. Len(x) + Len(y)
      BY <1>2, <2>1
    <3>2. QED
      BY <1>1, <2>1, <3>1
  <2>2. CASE ~(i <= Len(x))
    <3>1. i - Len(x) \in 1 .. Len(y) /\ Len(x) + (i - Len(x)) = i /\ i \in 1 .. Len(x) + Len(y)
      BY <1>2, <2>2
    <3>2. z[Len(x) + (i - Len(x))] = y[i - Len(x)]
      BY <3>1
    <3>3. QED
      BY <1>1, <2>2, <3>1, <3>2
  <2>3. QED
    BY <2>1, <2>2
<1>4. QED
  BY <1>1, <1>3, SeqEqual

(***************************************************************************)
(* Texts that are put together: no character comes of two of them.         *)
(***************************************************************************)
LEMMA JoinPaired ==
  ASSUME NEW x \in Seq(CodeUnits), NEW y \in Seq(CodeUnits), Paired(x), Paired(y)
  PROVE  /\ x \o y \in Seq(CodeUnits) /\ Paired(x \o y)
         /\ Encode(x \o y) = Encode(x) \o Encode(y)
         /\ Characters(x \o y) = Characters(x) \o Characters(y)
<1> DEFINE z == x \o y
           m == Len(x)
           n == Len(y)
<1>1. /\ z \in Seq(CodeUnits) /\ Len(z) = m + n /\ m \in Nat /\ n \in Nat
      /\ \A i \in 1 .. m : z[i] = x[i]
      /\ \A j \in 1 .. n : z[m + j] = y[j]
  OBVIOUS
<1> HIDE DEF z
<1>2. ASSUME NEW i \in 1 .. m
      PROVE  /\ z[i] = HIGH => IsLow(z, i + 1)
             /\ z[i] = LOW => IsHigh(z, i - 1)
             /\ CharBytes(z, i) = CharBytes(x, i) /\ CharAt(z, i) = CharAt(x, i)
  <2>1. i \in 1 .. Len(z) /\ z[i] = x[i] /\ i \in 1 .. Len(x)
    BY <1>1
  <2>2. CASE x[i] \in BMP
    <3>1. z[i] # HIGH /\ z[i] # LOW
      BY <2>1, <2>2, Utf16Assumption
    <3>2. CharBytes(x, i) = ByteSeq(x[i], Width[x[i]]) /\ CharAt(x, i) = <<x[i]>>
      BY <2>2, <2>1, UnitIs
    <3>3. CharBytes(z, i) = ByteSeq(z[i], Width[z[i]]) /\ CharAt(z, i) = <<z[i]>>
      BY <2>2, <2>1, <1>1, UnitIs
    <3>4. QED
      BY <2>1, <3>1, <3>2, <3>3
  <2>3. CASE x[i] = HIGH
    <3>1. IsLow(x, i + 1)
      BY <2>1, <2>3 DEF Paired
    <3>2. IsLow(z, i + 1)
      BY <1>1, <3>1 DEF IsLow
    <3>3. CharBytes(x, i) = ByteSeq(PAIR, 4) /\ CharAt(x, i) = <<PAIR>>
      BY <2>3, <2>1, <3>1, UnitIs
    <3>4. CharBytes(z, i) = ByteSeq(PAIR, 4) /\ CharAt(z, i) = <<PAIR>>
      BY <2>3, <2>1, <1>1, <3>2, UnitIs
    <3>5. QED
      BY <2>1, <2>3, <3>2, <3>3, <3>4, Utf16Assumption
  <2>4. CASE x[i] = LOW
    <3>1. IsHigh(x, i - 1)
      BY <2>1, <2>4 DEF Paired
    <3>2. IsHigh(z, i - 1)
      BY <1>1, <3>1 DEF IsHigh
    <3>3. CharBytes(x, i) = <<>> /\ CharAt(x, i) = <<>>
      BY <2>4, <2>1, <3>1, UnitIs
    <3>4. CharBytes(z, i) = <<>> /\ CharAt(z, i) = <<>>
      BY <2>4, <2>1, <1>1, <3>2, UnitIs
    <3>5. QED
      BY <2>1, <2>4, <3>2, <3>3, <3>4, Utf16Assumption
  <2>5. QED
    BY <2>1, <2>2, <2>3, <2>4, UnitIs
<1>3. ASSUME NEW j \in 1 .. n
      PROVE  /\ z[m + j] = HIGH => IsLow(z, (m + j) + 1)
             /\ z[m + j] = LOW => IsHigh(z, (m + j) - 1)
             /\ CharBytes(z, m + j) = CharBytes(y, j) /\ CharAt(z, m + j) = CharAt(y, j)
  <2>1. m + j \in 1 .. Len(z) /\ z[m + j] = y[j] /\ j \in 1 .. Len(y)
    BY <1>1
  <2>2. CASE y[j] \in BMP
    <3>1. z[m + j] # HIGH /\ z[m + j] # LOW
      BY <2>1, <2>2, Utf16Assumption
    <3>2. CharBytes(y, j) = ByteSeq(y[j], Width[y[j]]) /\ CharAt(y, j) = <<y[j]>>
      BY <2>2, <2>1, UnitIs
    <3>3. CharBytes(z, m + j) = ByteSeq(y[j], Width[y[j]]) /\ CharAt(z, m + j) = <<y[j]>>
      BY <2>2, <2>1, <1>1, UnitIs
    <3>4. QED
      BY <2>1, <3>1, <3>2, <3>3
  <2>3. CASE y[j] = HIGH
    <3>1. IsLow(y, j + 1)
      BY <2>1, <2>3 DEF Paired
    <3>2. IsLow(z, (m + j) + 1)
      <4>1. j + 1 \in 1 .. n /\ y[j + 1] = LOW
        BY <3>1 DEF IsLow
      <4>2. m + (j + 1) = (m + j) + 1 /\ (m + j) + 1 \in 1 .. Len(z)
        BY <1>1, <4>1
      <4>3. QED
        BY <1>1, <4>1, <4>2 DEF IsLow
    <3>3. CharBytes(y, j) = ByteSeq(PAIR, 4) /\ CharAt(y, j) = <<PAIR>>
      BY <2>3, <2>1, <3>1, UnitIs
    <3>4. CharBytes(z, m + j) = ByteSeq(PAIR, 4) /\ CharAt(z, m + j) = <<PAIR>>
      BY <2>3, <2>1, <1>1, <3>2, UnitIs
    <3>5. QED
      BY <2>1, <2>3, <3>2, <3>3, <3>4, Utf16Assumption
  <2>4. CASE y[j] = LOW
    <3>1. IsHigh(y, j - 1)
      BY <2>1, <2>4 DEF Paired
    <3>2. IsHigh(z, (m + j) - 1)
      <4>1. j - 1 \in 1 .. n /\ y[j - 1] = HIGH
        BY <3>1 DEF IsHigh
      <4>2. m + (j - 1) = (m + j) - 1 /\ (m + j) - 1 \in 1 .. Len(z)
        BY <1>1, <4>1
      <4>3. QED
        BY <1>1, <4>1, <4>2 DEF IsHigh
    <3>3. CharBytes(y, j) = <<>> /\ CharAt(y, j) = <<>>
      BY <2>4, <2>1, <3>1, UnitIs
    <3>4. CharBytes(z, m + j) = <<>> /\ CharAt(z, m + j) = <<>>
      BY <2>4, <2>1, <1>1, <3>2, UnitIs
    <3>5. QED
      BY <2>1, <2>4, <3>2, <3>3, <3>4, Utf16Assumption
  <2>5. QED
    BY <2>1, <2>2, <2>3, <2>4, UnitIs
<1>4. \A i \in 1 .. Len(z) : i \in 1 .. m \/ \E j \in 1 .. n : i = m + j
  <2>1. \A i \in 1 .. Len(z) : i \notin 1 .. m => i - m \in 1 .. n /\ i = m + (i - m)
    BY <1>1
  <2>2. QED
    BY <2>1, Zenon
<1>5. Paired(z)
  <2> SUFFICES ASSUME NEW i \in 1 .. Len(z)
               PROVE  /\ z[i] = HIGH => IsLow(z, i + 1)
                      /\ z[i] = LOW => IsHigh(z, i - 1)
    BY Zenon DEF Paired
  <2>1. CASE i \in 1 .. m
    BY <1>2, <2>1, Zenon
  <2>2. CASE \E j \in 1 .. n : i = m + j
    BY <1>3, <2>2, Zenon
  <2>3. QED
    BY <1>4, <2>1, <2>2, Zenon
<1>6. UnitBytes(z) = UnitBytes(x) \o UnitBytes(y) /\ UnitChars(z) = UnitChars(x) \o UnitChars(y)
  <2> DEFINE bx == UnitBytes(x)
             by == UnitBytes(y)
             cx == UnitChars(x)
             cy == UnitChars(y)
  <2>1. /\ bx \in Seq(Seq(Converted)) /\ by \in Seq(Seq(Converted))
        /\ cx \in Seq(Seq(Symbols)) /\ cy \in Seq(Seq(Symbols))
        /\ Len(bx) = m /\ Len(cx) = m /\ Len(by) = n /\ Len(cy) = n
        /\ UnitBytes(z) \in Seq(Seq(Converted)) /\ UnitChars(z) \in Seq(Seq(Symbols))
        /\ Len(UnitBytes(z)) = m + n /\ Len(UnitChars(z)) = m + n
    BY <1>1, UnitsAre
  <2>2. /\ \A i \in 1 .. m : bx[i] = CharBytes(x, i) /\ cx[i] = CharAt(x, i)
        /\ \A j \in 1 .. n : by[j] = CharBytes(y, j) /\ cy[j] = CharAt(y, j)
        /\ \A i \in 1 .. Len(z) : UnitBytes(z)[i] = CharBytes(z, i) /\ UnitChars(z)[i] = CharAt(z, i)
    BY <1>1, UnitsAre
  <2> HIDE DEF bx, by, cx, cy, m, n
  <2>3. /\ \A i \in 1 .. m : i \in 1 .. Len(z)
        /\ \A j \in 1 .. n : m + j \in 1 .. Len(z)
    BY <1>1
  <2>4. /\ \A i \in 1 .. m : UnitBytes(z)[i] = bx[i] /\ UnitChars(z)[i] = cx[i]
        /\ \A j \in 1 .. n : UnitBytes(z)[m + j] = by[j] /\ UnitChars(z)[m + j] = cy[j]
    BY <1>2, <1>3, <2>2, <2>3, Zenon
  <2>5. UnitBytes(z) = bx \o by
    <3>1. /\ Len(UnitBytes(z)) = Len(bx) + Len(by)
          /\ \A i \in 1 .. Len(bx) : UnitBytes(z)[i] = bx[i]
          /\ \A j \in 1 .. Len(by) : UnitBytes(z)[Len(bx) + j] = by[j]
      BY <2>1, <2>4, Zenon
    <3>2. QED
      BY <2>1, <3>1, IsJoined, Zenon
  <2>6. UnitChars(z) = cx \o cy
    <3>1. /\ Len(UnitChars(z)) = Len(cx) + Len(cy)
          /\ \A i \in 1 .. Len(cx) : UnitChars(z)[i] = cx[i]
          /\ \A j \in 1 .. Len(cy) : UnitChars(z)[Len(cx) + j] = cy[j]
      BY <2>1, <2>4, Zenon
    <3>2. QED
      BY <2>1, <3>1, IsJoined, Zenon
  <2>7. QED
    BY <2>5, <2>6 DEF bx, by, cx, cy
<1>7. Encode(z) = Encode(x) \o Encode(y)
  <2>1. FlattenSeq(UnitBytes(x) \o UnitBytes(y)) = FlattenSeq(UnitBytes(x)) \o FlattenSeq(UnitBytes(y))
    BY UnitsAre, FlattenConcat
  <2>2. QED
    BY <1>1, <1>6, <2>1, UnitsAre
<1>8. Characters(z) = Characters(x) \o Characters(y)
  <2>1. FlattenSeq(UnitChars(x) \o UnitChars(y)) = FlattenSeq(UnitChars(x)) \o FlattenSeq(UnitChars(y))
    BY UnitsAre, FlattenConcat
  <2>2. QED
    BY <1>1, <1>6, <2>1, UnitsAre
<1>9. QED
  BY <1>1, <1>5, <1>7, <1>8 DEF z

LEMMA FlatPaired ==
  ASSUME NEW ws \in Seq(Seq(CodeUnits)), \A i \in 1 .. Len(ws) : Paired(ws[i])
  PROVE  /\ FlattenSeq(ws) \in Seq(CodeUnits) /\ Paired(FlattenSeq(ws))
         /\ Each(ws, Encode) = Encode(FlattenSeq(ws))
<1> DEFINE Q == {x \in Seq(CodeUnits) : Paired(x)}
           E == [x \in Q |-> Encode(x)]
           P == {t \in Seq(Q) : /\ FlattenSeq(t) \in Q
                                /\ Image(E, t) = Encode(FlattenSeq(t))}
<1>1. Maps(E, Q, Converted) /\ \A x \in Q : E[x] = Encode(x)
  BY UnitsAre DEF Maps
<1>2. Q \subseteq Seq(CodeUnits) /\ Seq(Q) \subseteq Seq(Seq(CodeUnits))
  BY SeqMonotonic
<1>3. <<>> \in P
  <2>1. <<>> \in Seq(Seq(CodeUnits)) /\ <<>> \in Seq(CodeUnits) /\ <<>> \in Seq(Q) /\ Len(<<>>) = 0
    BY EmptySeq
  <2>2. FlattenSeq(<<>>) = <<>>
    BY <2>1, FlattenAppend
  <2>3. <<>> \in Q
    BY <2>1 DEF Paired
  <2>4. Image(E, <<>>) = <<>>
    <3> HIDE DEF E, Q
    <3>1. QED
      BY <1>1, ImageIs
  <2>5. Encode(<<>>) = <<>>
    <3>1. UnitBytes(<<>>) = <<>>
      BY DEF UnitBytes
    <3>2. QED
      BY <2>1, <2>2, <3>1, UnitsAre
  <2> HIDE DEF E, Q
  <2>6. QED
    BY <2>1, <2>2, <2>3, <2>4, <2>5
<1>4. ASSUME NEW t \in Seq(Q), NEW a \in Q, t \in P PROVE Append(t, a) \in P
  <2>1. t \in Seq(Seq(CodeUnits)) /\ a \in Seq(CodeUnits) /\ Paired(a)
    BY <1>2
  <2>2. FlattenSeq(Append(t, a)) = FlattenSeq(t) \o a
    BY <2>1, FlattenAppend
  <2>3. FlattenSeq(t) \in Seq(CodeUnits) /\ Paired(FlattenSeq(t))
    BY <1>4
  <2>4. /\ FlattenSeq(t) \o a \in Seq(CodeUnits) /\ Paired(FlattenSeq(t) \o a)
        /\ Encode(FlattenSeq(t) \o a) = Encode(FlattenSeq(t)) \o Encode(a)
    BY <2>1, <2>3, JoinPaired
  <2>5. FlattenSeq(Append(t, a)) \in Q
    BY <2>2, <2>4
  <2>6. Image(E, t) = Encode(FlattenSeq(t))
    BY <1>4
  <2> HIDE DEF Q, E
  <2>7. \A x \in Seq(Q) : \A c \in Q : Image(E, Append(x, c)) = Image(E, x) \o E[c]
    BY <1>1, ImageIs
  <2>8. Image(E, Append(t, a)) = Encode(FlattenSeq(Append(t, a)))
    BY <1>1, <2>2, <2>4, <2>6, <2>7, Zenon
  <2>9. Append(t, a) \in Seq(Q)
    BY AppendProperties
  <2>10. QED
    BY <2>5, <2>8, <2>9
<1>5. Seq(Q) \subseteq P
  <2> HIDE DEF P, Q
  <2>1. \A x \in Seq(Q) : \A c \in Q : x \in P => Append(x, c) \in P
    BY <1>4, Zenon
  <2>2. QED
    BY <1>3, <2>1, SeqInduction
<1>6. ws \in Seq(Q)
  <2>1. \A i \in 1 .. Len(ws) : ws[i] \in Q
    BY ElementOfSeq
  <2> HIDE DEF Q
  <2>2. QED
    BY <2>1
<1>7. Image(E, ws) = Each(ws, Encode)
  <2>1. \A i \in 1 .. Len(ws) : ws[i] \in Q
    BY ElementOfSeq
  <2>2. \A i \in 1 .. Len(ws) : E[ws[i]] = Encode(ws[i])
    BY <1>1, <2>1, Zenon
  <2>3. [i \in 1 .. Len(ws) |-> E[ws[i]]] = [i \in 1 .. Len(ws) |-> Encode(ws[i])]
    BY <2>2, Zenon
  <2>4. QED
    BY <2>3, Zenon DEF Image, Each
<1>8. ws \in P
  BY <1>5, <1>6, Zenon
<1>9. FlattenSeq(ws) \in Q /\ Image(E, ws) = Encode(FlattenSeq(ws))
  BY <1>8, Zenon
<1>10. QED
  BY <1>7, <1>9

(* Texts without surrogates are as they are. *)
LEMMA PlainText ==
  ASSUME NEW x \in Seq(BMP)
  PROVE  x \in Seq(CodeUnits) /\ Paired(x) /\ Characters(x) = x
<1>1. x \in Seq(CodeUnits)
  <2>1. BMP \subseteq CodeUnits
    BY DEF CodeUnits
  <2>2. QED
    BY <2>1, SeqMonotonic
<1>2. \A i \in 1 .. Len(x) : x[i] \in BMP
  BY ElementOfSeq
<1>3. Paired(x)
  BY <1>2, Utf16Assumption DEF Paired
<1> DEFINE I == [c \in BMP |-> <<c>>]
           P == {y \in Seq(BMP) : Image(I, y) = y}
<1>4. Maps(I, BMP, Symbols) /\ \A c \in BMP : I[c] = <<c>>
  BY DEF Maps, Symbols
<1> HIDE DEF I
<1>5. <<>> \in P
  BY <1>4, ImageIs
<1>6. ASSUME NEW y \in Seq(BMP), NEW c \in BMP, y \in P PROVE Append(y, c) \in P
  <2>1. Image(I, Append(y, c)) = Image(I, y) \o I[c]
    BY <1>4, ImageIs
  <2>2. Image(I, Append(y, c)) = Image(I, y) \o I[c] /\ Image(I, y) = y /\ I[c] = <<c>>
    BY <1>4, <1>6, <2>1, Zenon
  <2>3. y \o <<c>> = Append(y, c) /\ Append(y, c) \in Seq(BMP)
    OBVIOUS
  <2>4. QED
    BY <2>2, <2>3
<1>7. Seq(BMP) \subseteq P
  <2> HIDE DEF P
  <2>1. \A y \in Seq(BMP) : \A c \in BMP : y \in P => Append(y, c) \in P
    BY <1>6, Zenon
  <2>2. QED
    BY <1>5, <2>1, SeqInduction
<1>8. Image(I, x) = Characters(x)
  <2>1. \A i \in 1 .. Len(x) : CharAt(x, i) = <<x[i]>> /\ I[x[i]] = <<x[i]>>
    BY <1>1, <1>2, <1>4, UnitIs
  <2>2. [i \in 1 .. Len(x) |-> I[x[i]]] = [i \in 1 .. Len(x) |-> CharAt(x, i)]
    BY <2>1, Zenon
  <2>3. QED
    BY <2>2, Zenon DEF Image, Characters
<1>9. QED
  BY <1>1, <1>3, <1>7, <1>8

LEMMA PairText ==
  /\ <<HIGH, LOW>> \in Seq(CodeUnits) /\ Paired(<<HIGH, LOW>>)
  /\ Characters(<<HIGH, LOW>>) = <<PAIR>>
<1> DEFINE x == <<HIGH, LOW>>
<1>1. x \in Seq(CodeUnits) /\ Len(x) = 2 /\ x[1] = HIGH /\ x[2] = LOW
  BY DEF CodeUnits
<1> HIDE DEF x
<1>2. IsHigh(x, 1) /\ IsLow(x, 2)
  BY <1>1 DEF IsHigh, IsLow
<1>3. IsLow(x, 1 + 1) /\ IsHigh(x, 2 - 1) /\ 1 \in 1 .. Len(x) /\ 2 \in 1 .. Len(x)
  BY <1>1, <1>2
<1>4. \A i \in 1 .. Len(x) : i = 1 \/ i = 2
  BY <1>1
<1>5. HIGH # LOW
  BY Utf16Assumption
<1>6. Paired(x)
  BY <1>1, <1>3, <1>4, <1>5, Zenon DEF Paired
<1>7. CharAt(x, 1) = <<PAIR>> /\ CharAt(x, 2) = <<>>
  BY <1>1, <1>3, UnitIs
<1>8. UnitChars(x) = <<<<PAIR>>, <<>>>>
  BY <1>1, <1>7 DEF UnitChars
<1>9. FlattenSeq(<<<<PAIR>>, <<>>>>) = <<PAIR>>
  <2>1. <<PAIR>> \in Seq(Symbols) /\ <<>> \in Seq(Symbols) /\ <<<<PAIR>>>> \in Seq(Seq(Symbols))
    BY DEF Symbols
  <2>2. FlattenSeq(Append(<<<<PAIR>>>>, <<>>)) = FlattenSeq(<<<<PAIR>>>>) \o <<>>
    BY <2>1, FlattenAppend
  <2>3. FlattenSeq(<<<<PAIR>>>>) = <<PAIR>>
    BY <2>1, FlattenAppend
  <2>4. <<PAIR>> \o <<>> = <<PAIR>>
    OBVIOUS
  <2>5. \A p : <<p, <<>>>> = Append(<<p>>, <<>>)
    OBVIOUS
  <2>6. QED
    BY <2>2, <2>3, <2>4, <2>5, Zenon
<1>10. Characters(x) = <<PAIR>>
  BY <1>1, <1>8, <1>9, UnitsAre
<1>11. QED
  BY <1>1, <1>6, <1>10 DEF x

-----------------------------------------------------------------------------
(* The value of a parameter                                                *)

Esc == [c \in Symbols |-> IF NeedsEscape(c) THEN <<ESCAPE, c>> ELSE <<c>>]

LEMMA EscIs ==
  /\ Maps(Esc, Symbols, Symbols \union {ESCAPE})
  /\ \A c \in Symbols : Esc[c] = IF NeedsEscape(c) THEN <<ESCAPE, c>> ELSE <<c>>
  /\ REPLACEMENT \in Symbols /\ Esc[REPLACEMENT] = <<REPLACEMENT>>
  /\ PAIR \in Symbols /\ Esc[PAIR] = <<PAIR>>
<1>1. \A c \in Symbols : /\ <<ESCAPE, c>> \in Seq(Symbols \union {ESCAPE})
                         /\ <<c>> \in Seq(Symbols \union {ESCAPE})
  OBVIOUS
<1>2. \A c \in Symbols : Esc[c] = IF NeedsEscape(c) THEN <<ESCAPE, c>> ELSE <<c>>
  BY DEF Esc
<1>3. Maps(Esc, Symbols, Symbols \union {ESCAPE})
  BY <1>1 DEF Esc, Maps
<1>4. REPLACEMENT \in Symbols /\ PAIR \in Symbols /\ ~NeedsEscape(PAIR)
  BY FormatterAssumption DEF Symbols, NeedsEscape
<1>5. ~NeedsEscape(REPLACEMENT)
  BY DEF REPLACEMENT, NeedsEscape, QUOTE, ESCAPE, CLOSE
<1>6. QED
  BY <1>2, <1>3, <1>4, <1>5

(* Nothing is escaped twice, and a replacement is not escaped.             *)
LEMMA OneCharacterIs ==
  ASSUME NEW s \in Seq(CodeUnits), NEW i \in 1 .. Len(s),
         ~(IsLow(s, i) /\ IsHigh(s, i - 1))
  PROVE  /\ OneCharacter(s, i).reads = IF IsHigh(s, i) /\ IsLow(s, i + 1) THEN 2 ELSE 1
         /\ OneCharacter(s, i).puts \in Seq(CodeUnits) /\ Paired(OneCharacter(s, i).puts)
         /\ \E c \in Symbols : CharAt(s, i) = <<c>> /\ Characters(OneCharacter(s, i).puts) = Esc[c]
<1>1. HIGH # LOW /\ HIGH \notin BMP /\ LOW \notin BMP
  BY Utf16Assumption
<1>2. ESCAPE \in BMP /\ REPLACEMENT \in BMP
  BY FormatterAssumption
<1>3. CASE s[i] \in BMP
  <2>1. ~IsHigh(s, i) /\ ~IsLow(s, i)
    BY <1>1, <1>3 DEF IsHigh, IsLow
  <2> DEFINE p == IF NeedsEscape(s[i]) THEN <<ESCAPE, s[i]>> ELSE <<s[i]>>
  <2>2. OneCharacter(s, i) = [reads |-> 1, puts |-> p]
    BY <2>1 DEF OneCharacter
  <2>3. p \in Seq(BMP)
    BY <1>2, <1>3
  <2>4. s[i] \in Symbols /\ Esc[s[i]] = p
    BY <1>3, EscIs DEF Symbols
  <2> HIDE DEF p
  <2>5. CharAt(s, i) = <<s[i]>>
    BY <1>3, UnitIs
  <2>6. p \in Seq(CodeUnits) /\ Paired(p) /\ Characters(p) = p
    BY <2>3, PlainText
  <2>7. OneCharacter(s, i).reads = 1 /\ OneCharacter(s, i).puts = p
    BY <2>2
  <2>8. QED
    BY <2>1, <2>4, <2>5, <2>6, <2>7
<1>4. CASE s[i] = HIGH
  <2>1. IsHigh(s, i) /\ ~IsLow(s, i)
    BY <1>1, <1>4 DEF IsHigh, IsLow
  <2>2. CASE IsLow(s, i + 1)
    <3>1. OneCharacter(s, i) = [reads |-> 2, puts |-> <<HIGH, LOW>>]
      BY <2>1, <2>2 DEF OneCharacter
    <3>2. OneCharacter(s, i).reads = 2 /\ OneCharacter(s, i).puts = <<HIGH, LOW>>
      BY <3>1
    <3>3. CharAt(s, i) = <<PAIR>>
      BY <1>4, <2>2, UnitIs
    <3>4. QED
      BY <2>1, <2>2, <3>2, <3>3, PairText, EscIs, Zenon
  <2>3. CASE ~IsLow(s, i + 1)
    <3>1. OneCharacter(s, i) = [reads |-> 1, puts |-> <<REPLACEMENT>>]
      BY <2>1, <2>3 DEF OneCharacter
    <3>2. OneCharacter(s, i).reads = 1 /\ OneCharacter(s, i).puts = <<REPLACEMENT>>
      BY <3>1
    <3>3. CharAt(s, i) = <<REPLACEMENT>>
      BY <1>4, <2>3, UnitIs
    <3>4. <<REPLACEMENT>> \in Seq(BMP)
      BY <1>2
    <3>5. QED
      BY <2>1, <2>3, <3>2, <3>3, <3>4, PlainText, EscIs, Zenon
  <2>4. QED
    BY <2>2, <2>3
<1>5. CASE s[i] = LOW
  <2>1. IsLow(s, i) /\ ~IsHigh(s, i)
    BY <1>1, <1>5 DEF IsHigh, IsLow
  <2>2. OneCharacter(s, i) = [reads |-> 1, puts |-> <<REPLACEMENT>>]
    BY <2>1 DEF OneCharacter
  <2>3. OneCharacter(s, i).reads = 1 /\ OneCharacter(s, i).puts = <<REPLACEMENT>>
    BY <2>2
  <2>4. CharAt(s, i) = <<REPLACEMENT>>
    BY <1>5, <2>1, UnitIs
  <2>5. <<REPLACEMENT>> \in Seq(BMP)
    BY <1>2
  <2>6. QED
    BY <2>1, <2>3, <2>4, <2>5, PlainText, EscIs, Zenon
<1>6. QED
  BY <1>3, <1>4, <1>5, UnitIs

(* F holds what append_sd_value has gathered after each unit of s. *)
Empty == [next |-> 1, left |-> MaxSdLength, buffer |-> <<>>, writes |-> <<>>]
Gathered(F, s) ==
  /\ F[0] = Empty
  /\ \A i \in 1 .. Len(s) : F[i] = Turn(F[i - 1], s, i)
Flushed(g) == IF g.buffer = <<>> THEN g.writes ELSE Append(g.writes, g.buffer)

LEMMA ValueIsGathered ==
  ASSUME NEW s, Len(s) \in Nat
  PROVE  \E F : Gathered(F, s) /\ ValueWrites(s) = Flushed(F[Len(s)])
<1> DEFINE N == Len(s)
           Rec(n, g) == g = [i \in 0 .. n |-> IF i = 0 THEN Empty ELSE Turn(g[i - 1], s, i)]
           T == {n \in Nat : \E g : Rec(n, g)}
<1>1. 0 \in T
  <2>1. Rec(0, [i \in 0 .. 0 |-> Empty])
    OBVIOUS
  <2>2. QED
    BY <2>1
<1>2. ASSUME NEW n \in Nat, n \in T PROVE n + 1 \in T
  <2>1. PICK g : Rec(n, g)
    BY <1>2
  <2> DEFINE e == Turn(g[n], s, n + 1)
             h == [i \in 0 .. n + 1 |-> IF i <= n THEN g[i] ELSE e]
  <2>2. \A i \in 0 .. n : g[i] = IF i = 0 THEN Empty ELSE Turn(g[i - 1], s, i)
    BY <2>1, Zenon
  <2> HIDE DEF e
  <2>3. (\A i \in 0 .. n : h[i] = g[i]) /\ h[n + 1] = e
    OBVIOUS
  <2>4. DOMAIN h = 0 .. n + 1 /\ h = [i \in 0 .. n + 1 |-> h[i]]
    OBVIOUS
  <2> HIDE DEF h
  <2>5. ASSUME NEW i \in 0 .. n + 1 PROVE h[i] = IF i = 0 THEN Empty ELSE Turn(h[i - 1], s, i)
    <3>1. CASE i = 0
      <4>1. 0 \in 0 .. n
        OBVIOUS
      <4>2. QED
        BY <2>2, <2>3, <3>1, <4>1, Zenon
    <3>2. CASE i \in 1 .. n
      <4>1. i \in 0 .. n /\ i - 1 \in 0 .. n /\ i # 0
        BY <3>2
      <4>2. QED
        BY <2>2, <2>3, <4>1, Zenon
    <3>3. CASE i = n + 1
      <4>1. n \in 0 .. n /\ n + 1 # 0 /\ (n + 1) - 1 = n
        OBVIOUS
      <4>2. QED
        BY <2>3, <3>3, <4>1, Zenon DEF e
    <3>4. QED
      BY <3>1, <3>2, <3>3
  <2>6. Rec(n + 1, h)
    BY <2>4, <2>5, Zenon
  <2>7. QED
    BY <2>6
<1>3. Nat \subseteq T
  <2> HIDE DEF T
  <2>1. \A n \in Nat : n \in T => n + 1 \in T
    BY <1>2
  <2>2. QED
    BY <1>1, <2>1, SetInduction
<1>4. \E g : Rec(N, g)
  BY <1>3
<1> DEFINE F == CHOOSE g : Rec(N, g)
<1>5. Rec(N, F)
  <2> HIDE DEF Rec
  <2>1. QED
    BY <1>4, Zenon
<1>6. \A i \in 0 .. N : F[i] = IF i = 0 THEN Empty ELSE Turn(F[i - 1], s, i)
  <2> HIDE DEF F
  <2>1. QED
    BY <1>5, Zenon
<1>7. ValueWrites(s) = Flushed(F[N])
  BY Zenon DEF ValueWrites, Flushed, Empty
<1> HIDE DEF F
<1>8. Gathered(F, s)
  <2>1. 0 \in 0 .. N /\ \A i \in 1 .. N : i \in 0 .. N /\ i # 0
    OBVIOUS
  <2>2. QED
    BY <1>6, <2>1, Zenon DEF Gathered
<1>9. QED
  BY <1>7, <1>8

ArePaired(ws) == ws \in Seq(Seq(CodeUnits)) /\ \A k \in 1 .. Len(ws) : Paired(ws[k])

IsPaired(g) == /\ g.buffer \in Seq(CodeUnits) /\ Paired(g.buffer)
               /\ ArePaired(g.writes)
SoFar(g) == FlattenSeq(g.writes) \o g.buffer

LEMMA ArePairedAppend ==
  ASSUME NEW ws, ArePaired(ws), NEW w \in Seq(CodeUnits), Paired(w)
  PROVE  ArePaired(Append(ws, w))
<1>1. ws \in Seq(Seq(CodeUnits)) /\ \A k \in 1 .. Len(ws) : Paired(ws[k])
  BY DEF ArePaired
<1>2. /\ Append(ws, w) \in Seq(Seq(CodeUnits)) /\ Len(Append(ws, w)) = Len(ws) + 1 /\ Len(ws) \in Nat
      /\ \A k \in 1 .. Len(ws) : Append(ws, w)[k] = ws[k]
      /\ Append(ws, w)[Len(ws) + 1] = w
  BY <1>1, AppendProperties, LenProperties
<1>3. \A k \in 1 .. Len(Append(ws, w)) : k \in 1 .. Len(ws) \/ k = Len(ws) + 1
  BY <1>2
<1>4. QED
  BY <1>1, <1>2, <1>3, Zenon DEF ArePaired

(* Nothing is lost or doubled when the buffer is written. *)
LEMMA SoFarGrows ==
  ASSUME NEW g, IsPaired(g), NEW p \in Seq(CodeUnits), Paired(p), NEW h,
         \/ h.buffer = g.buffer \o p /\ h.writes = g.writes
         \/ h.buffer = p /\ h.writes = Append(g.writes, g.buffer)
  PROVE  /\ IsPaired(h)
         /\ SoFar(h) \in Seq(CodeUnits) /\ Paired(SoFar(h))
         /\ Characters(SoFar(h)) = Characters(SoFar(g)) \o Characters(p)
<1> DEFINE f == FlattenSeq(g.writes)
           b == g.buffer
<1>1. g.writes \in Seq(Seq(CodeUnits)) /\ \A k \in 1 .. Len(g.writes) : Paired(g.writes[k])
  BY DEF IsPaired, ArePaired
<1>2. f \in Seq(CodeUnits) /\ Paired(f) /\ b \in Seq(CodeUnits) /\ Paired(b)
  BY <1>1, FlatPaired DEF IsPaired
<1>3. ArePaired(g.writes)
  BY DEF IsPaired
<1>4. SoFar(g) = f \o b
  BY DEF SoFar
<1>5. f \o (b \o p) = (f \o b) \o p
  <2> HIDE DEF f, b
  <2>1. QED
    BY <1>2, Associated
<1>6. f \o b \in Seq(CodeUnits) /\ Paired(f \o b)
  BY <1>2, JoinPaired
<1>7. /\ (f \o b) \o p \in Seq(CodeUnits) /\ Paired((f \o b) \o p)
      /\ Characters((f \o b) \o p) = Characters(f \o b) \o Characters(p)
  BY <1>6, JoinPaired
<1>8. CASE h.buffer = b \o p /\ h.writes = g.writes
  <2>1. b \o p \in Seq(CodeUnits) /\ Paired(b \o p)
    BY <1>2, JoinPaired
  <2>2. IsPaired(h)
    BY <1>3, <1>8, <2>1, Zenon DEF IsPaired
  <2>3. SoFar(h) = (f \o b) \o p
    BY <1>5, <1>8, Zenon DEF SoFar
  <2>4. QED
    BY <1>4, <1>7, <2>2, <2>3, Zenon
<1>9. CASE h.buffer = p /\ h.writes = Append(g.writes, b)
  <2>1. ArePaired(Append(g.writes, b))
    BY <1>2, <1>3, ArePairedAppend
  <2>2. IsPaired(h)
    BY <1>9, <2>1, Zenon DEF IsPaired
  <2>3. FlattenSeq(Append(g.writes, b)) = f \o b
    BY <1>1, <1>2, FlattenAppend
  <2>4. SoFar(h) = (f \o b) \o p
    BY <1>9, <2>3, Zenon DEF SoFar
  <2>5. QED
    BY <1>4, <1>7, <2>2, <2>4, Zenon
<1>10. QED
  BY <1>8, <1>9

LEMMA UpToIs ==
  ASSUME NEW S, NEW x \in Seq(S), NEW n \in Nat
  PROVE  /\ UpTo(n, x) \in Seq(S) /\ Len(UpTo(n, x)) <= n /\ Len(UpTo(n, x)) <= Len(x)
         /\ Len(x) <= n => UpTo(n, x) = x
         /\ Len(x) >= n => Len(UpTo(n, x)) = n
<1>1. Len(x) \in Nat
  BY LenProperties
<1>2. CASE Len(x) <= n
  <2>1. UpTo(n, x) = x
    <3>1. CASE Len(x) = n
      <4>1. UpTo(n, x) = SubSeq(x, 1, Len(x))
        BY <1>1, <3>1 DEF UpTo
      <4>2. QED
        BY <4>1
    <3>2. CASE Len(x) < n
      <4>1. UpTo(n, x) = SubSeq(x, 1, Len(x))
        BY <1>1, <3>2 DEF UpTo
      <4>2. QED
        BY <4>1
    <3>3. QED
      BY <1>1, <1>2, <3>1, <3>2
  <2>2. QED
    BY <1>1, <1>2, <2>1
<1>3. CASE ~(Len(x) <= n)
  <2>1. UpTo(n, x) = SubSeq(x, 1, n)
    BY <1>1, <1>3 DEF UpTo
  <2>2. SubSeq(x, 1, n) \in Seq(S) /\ Len(SubSeq(x, 1, n)) = n
    BY <1>1, <1>3
  <2>3. QED
    BY <1>1, <1>3, <2>1, <2>2
<1>4. QED
  BY <1>2, <1>3

LEMMA UpToAppend ==
  ASSUME NEW S, NEW x \in Seq(S), NEW c \in S, NEW n \in Nat
  PROVE  /\ n - Len(UpTo(n, x)) \in Nat
         /\ n - Len(UpTo(n, x)) = 0 => UpTo(n, x \o <<c>>) = UpTo(n, x)
         /\ n - Len(UpTo(n, x)) # 0 => /\ UpTo(n, x) = x /\ UpTo(n, x \o <<c>>) = x \o <<c>>
                                       /\ n - Len(UpTo(n, x \o <<c>>)) = (n - Len(UpTo(n, x))) - 1
<1> DEFINE y == x \o <<c>>
<1>1. y \in Seq(S) /\ Len(y) = Len(x) + 1 /\ Len(x) \in Nat
  OBVIOUS
<1>2. n - Len(UpTo(n, x)) \in Nat
  BY <1>1, UpToIs
<1>3. ASSUME Len(x) >= n PROVE UpTo(n, y) = UpTo(n, x) /\ n - Len(UpTo(n, x)) = 0
  <2>1. UpTo(n, x) = SubSeq(x, 1, n) /\ UpTo(n, y) = SubSeq(y, 1, n)
    <3>1. UpTo(n, y) = SubSeq(y, 1, n)
      BY <1>1, <1>3 DEF UpTo
    <3>2. (IF Len(x) < n THEN Len(x) ELSE n) = n
      BY <1>1, <1>3
    <3>3. QED
      BY <3>1, <3>2, Zenon DEF UpTo
  <2>2. SubSeq(y, 1, n) = SubSeq(x, 1, n)
    BY <1>1, <1>3
  <2>3. Len(UpTo(n, x)) = n
    BY <1>3, UpToIs
  <2>4. UpTo(n, y) = UpTo(n, x)
    BY <2>1, <2>2, Zenon
  <2>5. n - Len(UpTo(n, x)) = 0
    BY <2>3
  <2>6. QED
    BY <2>4, <2>5, Zenon
<1>4. ASSUME Len(x) < n
      PROVE  /\ UpTo(n, x) = x /\ UpTo(n, y) = y /\ n - Len(UpTo(n, x)) # 0
             /\ n - Len(UpTo(n, y)) = (n - Len(UpTo(n, x))) - 1
  <2>1. UpTo(n, x) = x
    BY <1>1, <1>4, UpToIs
  <2>2. Len(y) <= n
    BY <1>1, <1>4
  <2> HIDE DEF y
  <2>3. UpTo(n, y) = y
    BY <1>1, <2>2, UpToIs
  <2>4. QED
    BY <1>1, <1>4, <2>1, <2>3
<1>5. Len(x) >= n \/ Len(x) < n
  BY <1>1
<1>6. QED
  BY <1>2, <1>3, <1>4, <1>5

LEMMA AppendTuple ==
  ASSUME NEW S, NEW x \in S, NEW y \in S
  PROVE  /\ Append(<<x>>, y) = <<x, y>>
         /\ \A z \in S : Append(<<x, y>>, z) = <<x, y, z>>
<1>1. Append(<<x>>, y) = <<x, y>>
  <2>1. <<x>> \in Seq(S) /\ Len(<<x>>) = 1 /\ <<x>>[1] = x
    OBVIOUS
  <2>2. /\ Append(<<x>>, y) \in Seq(S) /\ Len(Append(<<x>>, y)) = 1 + 1
        /\ \A i \in 1 .. 1 : Append(<<x>>, y)[i] = <<x>>[i]
        /\ Append(<<x>>, y)[1 + 1] = y
    BY <2>1, AppendProperties
  <2>3. <<x, y>> \in Seq(S) /\ Len(<<x, y>>) = 2 /\ <<x, y>>[1] = x /\ <<x, y>>[2] = y
    OBVIOUS
  <2>4. \A i \in 1 .. 2 : Append(<<x>>, y)[i] = <<x, y>>[i]
    BY <2>1, <2>2, <2>3
  <2> DEFINE a == Append(<<x>>, y)
             b == <<x, y>>
  <2>5. a \in Seq(S) /\ b \in Seq(S) /\ Len(a) = Len(b) /\ \A i \in 1 .. Len(a) : a[i] = b[i]
    BY <2>2, <2>3, <2>4
  <2> HIDE DEF a, b
  <2>6. a = b
    BY <2>5, SeqEqual
  <2>7. QED
    BY <2>6 DEF a, b
<1>2. ASSUME NEW z \in S PROVE Append(<<x, y>>, z) = <<x, y, z>>
  <2>1. <<x, y>> \in Seq(S) /\ Len(<<x, y>>) = 2 /\ <<x, y>>[1] = x /\ <<x, y>>[2] = y
    OBVIOUS
  <2>2. /\ Append(<<x, y>>, z) \in Seq(S) /\ Len(Append(<<x, y>>, z)) = 2 + 1
        /\ \A i \in 1 .. 2 : Append(<<x, y>>, z)[i] = <<x, y>>[i]
        /\ Append(<<x, y>>, z)[2 + 1] = z
    BY <2>1, AppendProperties
  <2>3. /\ <<x, y, z>> \in Seq(S) /\ Len(<<x, y, z>>) = 3
        /\ <<x, y, z>>[1] = x /\ <<x, y, z>>[2] = y /\ <<x, y, z>>[3] = z
    OBVIOUS
  <2>4. \A i \in 1 .. 3 : Append(<<x, y>>, z)[i] = <<x, y, z>>[i]
    BY <2>1, <2>2, <2>3
  <2> DEFINE a == Append(<<x, y>>, z)
             b == <<x, y, z>>
  <2>5. a \in Seq(S) /\ b \in Seq(S) /\ Len(a) = Len(b) /\ \A i \in 1 .. Len(a) : a[i] = b[i]
    BY <2>2, <2>3, <2>4
  <2> HIDE DEF a, b
  <2>6. a = b
    BY <2>5, SeqEqual
  <2>7. QED
    BY <2>6 DEF a, b
<1>3. QED
  BY <1>1, <1>2

LEMMA ConcatOne ==
  ASSUME NEW S, NEW s \in Seq(S), NEW a \in S
  PROVE  s \o <<a>> = Append(s, a) /\ Append(s, a) # <<>>
<1>1. s \o <<a>> = Append(s, a)
  OBVIOUS
<1>2. Append(s, a) # <<>>
  <2>1. Len(Append(s, a)) = Len(s) + 1 /\ Len(s) \in Nat /\ Len(<<>>) = 0
    BY AppendProperties, LenProperties
  <2>2. QED
    BY <2>1
<1>3. QED
  BY <1>1, <1>2

LEMMA ShortSeq ==
  ASSUME NEW S, NEW t \in Seq(S), Len(t) <= 1
  PROVE  t = <<>> \/ \E c \in S : t = <<c>>
<1>1. CASE t = <<>>
  BY <1>1
<1>2. CASE t # <<>>
  <2>1. Len(t) \in Nat
    BY LenProperties
  <2>2. Len(t) # 0
    BY <1>2, EmptySeq
  <2>3. Len(t) = 1
    <3> DEFINE l == Len(t)
    <3>1. l \in Nat /\ l # 0 /\ l <= 1
      BY <2>1, <2>2
    <3> HIDE DEF l
    <3>2. l = 1
      BY <3>1
    <3>3. QED
      BY <3>2 DEF l
  <2>4. t[1] \in S /\ t = <<t[1]>>
    <3>1. t[1] \in S
      BY <2>3, ElementOfSeq
    <3>2. t = <<t[1]>>
      BY <2>3
    <3>3. QED
      BY <3>1, <3>2
  <2>5. QED
    BY <2>4, Zenon
<1>3. QED
  BY <1>1, <1>2

(* The characters of the first i units of s. *)
Until(s, i) == Start(UnitChars(s), i)

(* After i units the writes and the buffer hold the characters read so far,*)
(* escaped, as many as the limit allows.                                   *)
GatherInv(g, s, i) ==
  /\ g.next \in Nat /\ g.left \in Nat /\ IsPaired(g)
  /\ Characters(SoFar(g)) = Image(Esc, UpTo(MaxSdLength, Until(s, i)))
  /\ g.left = MaxSdLength - Len(UpTo(MaxSdLength, Until(s, i)))
  /\ g.left # 0 => g.next = IF IsHigh(s, i) /\ IsLow(s, i + 1) THEN i + 2 ELSE i + 1

LEMMA UntilIs ==
  ASSUME NEW s \in Seq(CodeUnits)
  PROVE  /\ Until(s, 0) = <<>> /\ Until(s, Len(s)) = Characters(s)
         /\ \A i \in 0 .. Len(s) : Until(s, i) \in Seq(Symbols)
         /\ \A i \in 1 .. Len(s) : Until(s, i) = Until(s, i - 1) \o CharAt(s, i)
<1> DEFINE u == UnitChars(s)
<1>1. /\ u \in Seq(Seq(Symbols)) /\ Len(u) = Len(s) /\ Characters(s) = FlattenSeq(u)
      /\ \A i \in 1 .. Len(s) : u[i] = CharAt(s, i)
  BY UnitsAre
<1> HIDE DEF u
<1>2. /\ Start(u, 0) = <<>> /\ Start(u, Len(u)) = FlattenSeq(u)
      /\ \A k \in 0 .. Len(u) : Start(u, k) \in Seq(Symbols)
      /\ \A k \in 1 .. Len(u) : Start(u, k) = Start(u, k - 1) \o u[k]
  BY <1>1, StartGrows
<1>3. QED
  BY <1>1, <1>2, Zenon DEF u, Until

LEMMA TurnKeeps ==
  ASSUME NEW s \in Seq(CodeUnits), NEW i \in 1 .. Len(s), NEW g, GatherInv(g, s, i - 1)
  PROVE  GatherInv(Turn(g, s, i), s, i)
<1> DEFINE x == Until(s, i - 1)
           y == Until(s, i)
           n == MaxSdLength
<1>1. i \in Nat \ {0} /\ i - 1 \in 0 .. Len(s) /\ (i - 1) + 1 = i /\ (i - 1) + 2 = i + 1
  BY LenProperties
<1>2. n \in Nat
  BY FormatterAssumption
<1>3. x \in Seq(Symbols) /\ y = x \o CharAt(s, i)
  BY <1>1, UntilIs
<1>4. /\ g.next \in Nat /\ g.left \in Nat /\ IsPaired(g)
      /\ Characters(SoFar(g)) = Image(Esc, UpTo(n, x))
      /\ g.left = n - Len(UpTo(n, x))
      /\ g.left # 0 => g.next = IF IsHigh(s, i - 1) /\ IsLow(s, i) THEN i + 1 ELSE i
  BY <1>1 DEF GatherInv
<1>5. CASE g.left = 0
  <2>1. Turn(g, s, i) = g
    BY <1>5 DEF Turn
  <2>2. UpTo(n, y) = UpTo(n, x)
    <3>1. CASE CharAt(s, i) = <<>>
      <4>1. y = x
        BY <1>3, <3>1
      <4>2. QED
        BY <4>1, Zenon
    <3>2. CASE \E c \in Symbols : CharAt(s, i) = <<c>>
      <4>1. PICK c \in Symbols : CharAt(s, i) = <<c>>
        BY <3>2
      <4> HIDE DEF x, y, n
      <4>2. n - Len(UpTo(n, x)) = 0
        BY <1>4, <1>5, Zenon
      <4>4. UpTo(n, x \o <<c>>) = UpTo(n, x)
        <5>1. x \in Seq(Symbols)
          BY <1>3
        <5>2. QED
          BY <1>2, <4>2, <5>1, UpToAppend
      <4>3. QED
        BY <1>3, <4>1, <4>4, Zenon
    <3>3. QED
      <4>1. CharAt(s, i) \in Seq(Symbols) /\ Len(CharAt(s, i)) <= 1
        BY UnitIsTyped
      <4>2. CharAt(s, i) = <<>> \/ \E c \in Symbols : CharAt(s, i) = <<c>>
        BY <4>1, ShortSeq
      <4>3. QED
        BY <3>1, <3>2, <4>2, Zenon
  <2> HIDE DEF x, y, n
  <2>3. GatherInv(g, s, i) <=>
          /\ g.next \in Nat /\ g.left \in Nat /\ IsPaired(g)
          /\ Characters(SoFar(g)) = Image(Esc, UpTo(n, y))
          /\ g.left = n - Len(UpTo(n, y))
          /\ g.left # 0 => g.next = IF IsHigh(s, i) /\ IsLow(s, i + 1) THEN i + 2 ELSE i + 1
    BY Zenon DEF GatherInv, n, y
  <2>4. QED
    BY <1>4, <1>5, <2>1, <2>2, <2>3, Zenon
<1>6. CASE g.left # 0 /\ i < g.next
  <2>1. Turn(g, s, i) = g
    BY <1>6 DEF Turn
  <2>2. IsHigh(s, i - 1) /\ IsLow(s, i) /\ g.next = i + 1
    BY <1>1, <1>4, <1>6
  <2>3. s[i] = LOW /\ ~IsHigh(s, i)
    BY <2>2, Utf16Assumption DEF IsLow, IsHigh
  <2>4. CharAt(s, i) = <<>>
    BY <2>2, <2>3, UnitIs
  <2>5. y = x
    BY <1>3, <2>4
  <2>6. QED
    BY <1>4, <2>1, <2>2, <2>3, <2>5, Zenon DEF GatherInv
<1>7. CASE g.left # 0 /\ ~(i < g.next)
  <2>1. ~(IsLow(s, i) /\ IsHigh(s, i - 1))
    BY <1>1, <1>4, <1>7
  <2> DEFINE r == OneCharacter(s, i).reads
             p == OneCharacter(s, i).puts
             isFull == Len(g.buffer) >= BufferSize
             h == Turn(g, s, i)
  <2>2. /\ r = IF IsHigh(s, i) /\ IsLow(s, i + 1) THEN 2 ELSE 1
        /\ p \in Seq(CodeUnits) /\ Paired(p)
    BY <2>1, OneCharacterIs
  <2>3. PICK c \in Symbols : CharAt(s, i) = <<c>> /\ Characters(p) = Esc[c]
    BY <2>1, OneCharacterIs
  <2>4. h = [next   |-> i + r,
             left   |-> g.left - 1,
             buffer |-> IF isFull THEN p ELSE g.buffer \o p,
             writes |-> IF isFull THEN Append(g.writes, g.buffer) ELSE g.writes]
    BY <1>7, Zenon DEF Turn
  <2> HIDE DEF x, y, n, r, p, isFull, h
  <2>5. /\ h.next = i + r /\ h.left = g.left - 1
        /\ h.buffer = IF isFull THEN p ELSE g.buffer \o p
        /\ h.writes = IF isFull THEN Append(g.writes, g.buffer) ELSE g.writes
    BY <2>4
  <2>6. \/ h.buffer = g.buffer \o p /\ h.writes = g.writes
        \/ h.buffer = p /\ h.writes = Append(g.writes, g.buffer)
    BY <2>5, Zenon
  <2>7. IsPaired(h) /\ Characters(SoFar(h)) = Characters(SoFar(g)) \o Characters(p)
    BY <1>4, <2>2, <2>6, SoFarGrows, Zenon
  <2>8. /\ UpTo(n, x) = x /\ UpTo(n, x \o <<c>>) = x \o <<c>>
        /\ n - Len(UpTo(n, x \o <<c>>)) = (n - Len(UpTo(n, x))) - 1
    BY <1>2, <1>3, <1>4, <1>7, UpToAppend
  <2>9. Image(Esc, x \o <<c>>) = Image(Esc, x) \o Esc[c]
    <3>1. Append(x, c) = x \o <<c>>
      BY <1>3
    <3>2. \A z \in Seq(Symbols) : \A d \in Symbols : Image(Esc, Append(z, d)) = Image(Esc, z) \o Esc[d]
      BY EscIs, ImageIs
    <3>3. QED
      BY <1>3, <3>1, <3>2, Zenon
  <2>10. Characters(SoFar(h)) = Image(Esc, UpTo(n, y))
    BY <1>3, <1>4, <2>3, <2>7, <2>8, <2>9, Zenon
  <2>11. h.left = n - Len(UpTo(n, y))
    BY <1>3, <1>4, <2>3, <2>5, <2>8, Zenon
  <2>12. h.left \in Nat /\ h.next \in Nat
    BY <1>1, <1>4, <1>7, <2>2, <2>5
  <2>13. h.next = IF IsHigh(s, i) /\ IsLow(s, i + 1) THEN i + 2 ELSE i + 1
    BY <2>2, <2>5, Zenon
  <2>14. QED
    BY <2>7, <2>10, <2>11, <2>12, <2>13, Zenon DEF GatherInv, n, y, h
<1>8. QED
  BY <1>5, <1>6, <1>7

(***************************************************************************)
(* append_sd_value writes the characters of the value up to the limit,     *)
(* each whole and escaped, however the buffer is filled and written.       *)
(***************************************************************************)
LEMMA ValueIs ==
  ASSUME NEW s \in Seq(CodeUnits)
  PROVE  /\ ArePaired(ValueWrites(s))
         /\ Characters(FlattenSeq(ValueWrites(s))) = Image(Esc, UpTo(MaxSdLength, Characters(s)))
<1>1. Len(s) \in Nat
  BY LenProperties
<1>2. PICK F : Gathered(F, s) /\ ValueWrites(s) = Flushed(F[Len(s)])
  BY <1>1, ValueIsGathered
<1> DEFINE T == {i \in Nat : i <= Len(s) => GatherInv(F[i], s, i)}
<1>3. GatherInv(Empty, s, 0)
  <2>1. Until(s, 0) = <<>> /\ UpTo(MaxSdLength, <<>>) = <<>> /\ Image(Esc, <<>>) = <<>>
    <3>1. <<>> \in Seq(Symbols) /\ Len(<<>>) = 0 /\ MaxSdLength \in Nat /\ 0 <= MaxSdLength
      BY FormatterAssumption
    <3>2. UpTo(MaxSdLength, <<>>) = <<>>
      BY <3>1, UpToIs
    <3>3. QED
      BY <3>2, UntilIs, EscIs, ImageIs
  <2>2. /\ Empty.next = 1 /\ Empty.left = MaxSdLength /\ Empty.buffer = <<>> /\ Empty.writes = <<>>
        /\ MaxSdLength \in Nat /\ Len(<<>>) = 0
    BY FormatterAssumption DEF Empty
  <2>3. <<>> \in Seq(BMP) /\ <<>> \in Seq(Seq(CodeUnits)) /\ <<>> \in Seq(CodeUnits)
    OBVIOUS
  <2>4. Paired(<<>>) /\ Characters(<<>>) = <<>>
    BY <2>3, PlainText
  <2>5. ArePaired(<<>>)
    BY <2>2, <2>3 DEF ArePaired
  <2>6. IsPaired(Empty)
    BY <2>2, <2>3, <2>4, <2>5, Zenon DEF IsPaired
  <2>7. SoFar(Empty) = <<>>
    <3>1. FlattenSeq(<<>>) = <<>>
      BY <2>3, FlattenAppend
    <3>2. <<>> \o <<>> = <<>>
      OBVIOUS
    <3>3. QED
      BY <2>2, <3>1, <3>2, Zenon DEF SoFar
  <2>8. ~IsHigh(s, 0) /\ 0 + 1 = 1 /\ MaxSdLength - 0 = MaxSdLength
    BY <1>1, <2>2 DEF IsHigh
  <2>9. Empty.next \in Nat /\ Empty.left \in Nat
    BY <2>2
  <2>10. Characters(SoFar(Empty)) = Image(Esc, UpTo(MaxSdLength, Until(s, 0)))
    BY <2>1, <2>4, <2>7, Zenon
  <2>11. Empty.left = MaxSdLength - Len(UpTo(MaxSdLength, Until(s, 0)))
    BY <2>1, <2>2, <2>8, Zenon
  <2>12. Empty.next = IF IsHigh(s, 0) /\ IsLow(s, 0 + 1) THEN 0 + 2 ELSE 0 + 1
    BY <2>2, <2>8, Zenon
  <2>13. QED
    BY <2>6, <2>9, <2>10, <2>11, <2>12, Zenon DEF GatherInv
<1>4. 0 \in T
  BY <1>2, <1>3 DEF Gathered
<1>5. ASSUME NEW i \in Nat, i \in T PROVE i + 1 \in T
  <2> SUFFICES ASSUME i + 1 <= Len(s) PROVE GatherInv(F[i + 1], s, i + 1)
    OBVIOUS
  <2>1. i + 1 \in 1 .. Len(s) /\ (i + 1) - 1 = i /\ i <= Len(s)
    BY <1>1
  <2>2. GatherInv(F[(i + 1) - 1], s, (i + 1) - 1)
    BY <1>5, <2>1
  <2>3. F[i + 1] = Turn(F[(i + 1) - 1], s, i + 1)
    BY <1>2, <2>1, Zenon DEF Gathered
  <2>4. GatherInv(Turn(F[(i + 1) - 1], s, i + 1), s, i + 1)
    BY <2>1, <2>2, TurnKeeps
  <2>5. QED
    BY <2>3, <2>4, Zenon
<1>6. Len(s) \in T
  <2>1. Nat \subseteq T
    <3> HIDE DEF T
    <3>1. \A i \in Nat : i \in T => i + 1 \in T
      BY <1>5, Zenon
    <3>2. QED
      BY <1>4, <3>1, SetInduction
  <2>2. QED
    BY <1>1, <2>1, Zenon
<1> DEFINE g == F[Len(s)]
<1>7. GatherInv(g, s, Len(s))
  BY <1>1, <1>6
<1> HIDE DEF g
<1>8. /\ IsPaired(g)
      /\ Characters(SoFar(g)) = Image(Esc, UpTo(MaxSdLength, Characters(s)))
  BY <1>7, UntilIs, Zenon DEF GatherInv
<1>9. /\ g.buffer \in Seq(CodeUnits) /\ Paired(g.buffer)
      /\ ArePaired(g.writes) /\ g.writes \in Seq(Seq(CodeUnits))
  BY <1>8, Zenon DEF IsPaired, ArePaired
<1>10. ArePaired(Flushed(g)) /\ FlattenSeq(Flushed(g)) = SoFar(g)
  <2>1. CASE g.buffer = <<>>
    <3>1. FlattenSeq(g.writes) \in Seq(CodeUnits)
      BY <1>9, FlattenIsSeq
    <3>2. FlattenSeq(g.writes) \o <<>> = FlattenSeq(g.writes)
      BY <3>1, ConcatEmptySeq
    <3>3. QED
      BY <1>9, <2>1, <3>2, Zenon DEF Flushed, SoFar
  <2>2. CASE g.buffer # <<>>
    <3>1. ArePaired(Append(g.writes, g.buffer))
      BY <1>9, ArePairedAppend
    <3>2. FlattenSeq(Append(g.writes, g.buffer)) = FlattenSeq(g.writes) \o g.buffer
      BY <1>9, FlattenAppend
    <3>3. QED
      BY <2>2, <3>1, <3>2, Zenon DEF Flushed, SoFar
  <2>3. QED
    BY <2>1, <2>2
<1>11. QED
  BY <1>2, <1>8, <1>10, Zenon DEF g

-----------------------------------------------------------------------------
(* Parameters and elements                                                 *)

LEMMA ArePairedConcat ==
  ASSUME NEW xs, NEW ys, ArePaired(xs), ArePaired(ys)
  PROVE  /\ ArePaired(xs \o ys)
         /\ Characters(FlattenSeq(xs \o ys)) = Characters(FlattenSeq(xs)) \o Characters(FlattenSeq(ys))
<1>1. /\ xs \in Seq(Seq(CodeUnits)) /\ ys \in Seq(Seq(CodeUnits))
      /\ \A k \in 1 .. Len(xs) : Paired(xs[k])
      /\ \A k \in 1 .. Len(ys) : Paired(ys[k])
  BY DEF ArePaired
<1>2. /\ xs \o ys \in Seq(Seq(CodeUnits)) /\ Len(xs \o ys) = Len(xs) + Len(ys)
      /\ \A i \in 1 .. Len(xs) + Len(ys) : (xs \o ys)[i] = IF i <= Len(xs) THEN xs[i] ELSE ys[i - Len(xs)]
  BY <1>1, ConcatProperties
<1>3. Len(xs) \in Nat /\ Len(ys) \in Nat
  BY <1>1, LenProperties
<1>4. ASSUME NEW k \in 1 .. Len(xs \o ys) PROVE Paired((xs \o ys)[k])
  <2>1. CASE k <= Len(xs)
    <3>1. k \in 1 .. Len(xs) /\ k \in 1 .. Len(xs) + Len(ys)
      BY <1>2, <1>3, <2>1
    <3>2. QED
      BY <1>1, <1>2, <2>1, <3>1, Zenon
  <2>2. CASE ~(k <= Len(xs))
    <3>1. k - Len(xs) \in 1 .. Len(ys) /\ k \in 1 .. Len(xs) + Len(ys)
      BY <1>2, <1>3, <2>2
    <3>2. QED
      BY <1>1, <1>2, <2>2, <3>1, Zenon
  <2>3. QED
    BY <2>1, <2>2
<1>5. ArePaired(xs \o ys)
  BY <1>2, <1>4, Zenon DEF ArePaired
<1>6. FlattenSeq(xs \o ys) = FlattenSeq(xs) \o FlattenSeq(ys)
  BY <1>1, FlattenConcat
<1>7. /\ FlattenSeq(xs) \in Seq(CodeUnits) /\ Paired(FlattenSeq(xs))
      /\ FlattenSeq(ys) \in Seq(CodeUnits) /\ Paired(FlattenSeq(ys))
  BY <1>1, FlatPaired
<1>8. Characters(FlattenSeq(xs) \o FlattenSeq(ys)) = Characters(FlattenSeq(xs)) \o Characters(FlattenSeq(ys))
  BY <1>7, JoinPaired
<1>9. QED
  BY <1>5, <1>6, <1>8, Zenon

LEMMA PlainTexts ==
  ASSUME NEW ws \in Seq(Seq(BMP))
  PROVE  ArePaired(ws) /\ Characters(FlattenSeq(ws)) = FlattenSeq(ws)
<1>1. Seq(BMP) \subseteq Seq(CodeUnits)
  BY PlainText
<1>2. ws \in Seq(Seq(CodeUnits))
  BY <1>1, SeqMonotonic
<1>3. \A k \in 1 .. Len(ws) : Paired(ws[k])
  BY ElementOfSeq, PlainText
<1>4. FlattenSeq(ws) \in Seq(BMP)
  BY FlattenIsSeq
<1>5. QED
  BY <1>2, <1>3, <1>4, PlainText DEF ArePaired

NameChars == {c \in BMP : c \notin {EQUAL, SP, CLOSE, QUOTE}}
NumberChars == BMP \ {QUOTE, ESCAPE, CLOSE}

LEMMA ParamNameIs ==
  ASSUME NEW s \in Seq(CodeUnits)
  PROVE  ParamName(s) \in Seq(NameChars)
<1> DEFINE chars == UpTo(NameLength, Characters(s))
<1>1. chars \in Seq(Symbols)
  BY UnitsAre, UpToIs, FormatterAssumption
<1>2. REPLACEMENT \in NameChars
  BY FormatterAssumption DEF NameChars, REPLACEMENT, EQUAL, SP, CLOSE, QUOTE
<1>3. \A c : InName(c) => c \in NameChars
  BY DEF InName, NameChars
<1>4. ParamName(s) = [i \in 1 .. Len(chars) |-> IF InName(chars[i]) THEN chars[i] ELSE REPLACEMENT]
  BY DEF ParamName
<1> HIDE DEF chars
<1>5. Len(chars) \in Nat
  BY <1>1, LenProperties
<1>6. \A i \in 1 .. Len(chars) : (IF InName(chars[i]) THEN chars[i] ELSE REPLACEMENT) \in NameChars
  BY <1>2, <1>3, Zenon
<1>7. QED
  BY <1>4, <1>5, <1>6

LEMMA NumberIs ==
  ASSUME NEW v \in Seq(NumberChars)
  PROVE  v \in Seq(BMP) /\ v \in Seq(Symbols) /\ Image(Esc, v) = v
<1> DEFINE P == {y \in Seq(NumberChars) : Image(Esc, y) = y}
<1>1. NumberChars \subseteq BMP /\ NumberChars \subseteq Symbols
  BY DEF NumberChars, Symbols
<1>2. Seq(NumberChars) \subseteq Seq(Symbols) /\ Seq(NumberChars) \subseteq Seq(BMP)
  BY <1>1, SeqMonotonic
<1>3. <<>> \in P
  BY EscIs, ImageIs
<1>4. ASSUME NEW y \in Seq(NumberChars), NEW c \in NumberChars, y \in P PROVE Append(y, c) \in P
  <2>1. \A z \in Seq(Symbols) : \A d \in Symbols : Image(Esc, Append(z, d)) = Image(Esc, z) \o Esc[d]
    BY EscIs, ImageIs
  <2>2. Esc[c] = <<c>>
    <3>1. c \in Symbols /\ ~NeedsEscape(c)
      BY <1>1 DEF NumberChars, NeedsEscape
    <3>2. QED
      BY <3>1, EscIs
  <2>3. Image(Esc, Append(y, c)) = Image(Esc, y) \o Esc[c] /\ Image(Esc, y) = y
    BY <1>1, <1>2, <1>4, <2>1
  <2>4. y \o <<c>> = Append(y, c) /\ Append(y, c) \in Seq(NumberChars)
    OBVIOUS
  <2>5. QED
    BY <2>2, <2>3, <2>4
<1>5. Seq(NumberChars) \subseteq P
  <2> HIDE DEF P
  <2>1. \A y \in Seq(NumberChars) : \A c \in NumberChars : y \in P => Append(y, c) \in P
    BY <1>4, Zenon
  <2>2. QED
    BY <1>3, <2>1, SeqInduction
<1>6. QED
  BY <1>2, <1>5

Params == {p \in Properties : p.number => p.value \in Seq(NumberChars)}
Value(p) == IF p.number THEN p.value ELSE UpTo(MaxSdLength, Characters(p.value))
ParamText(n, v) == (((<<SP>> \o n) \o <<EQUAL, QUOTE>>) \o Image(Esc, v)) \o <<QUOTE>>

LEMMA ParamIs ==
  ASSUME NEW p \in Params
  PROVE  /\ ArePaired(ParamWrites(p)) /\ ParamName(p.name) \in Seq(NameChars) /\ Value(p) \in Seq(Symbols)
         /\ Characters(FlattenSeq(ParamWrites(p))) =
              IF IsWritten(p) THEN ParamText(ParamName(p.name), Value(p)) ELSE <<>>
<1>1. /\ p.name \in Seq(CodeUnits) /\ p.value \in Seq(CodeUnits)
      /\ p.number => p.value \in Seq(NumberChars)
  BY DEF Params, Properties
<1>2. ParamName(p.name) \in Seq(NameChars)
  BY <1>1, ParamNameIs
<1> DEFINE vs == IF p.number THEN <<p.value>> ELSE ValueWrites(p.value)
<1>3. /\ Value(p) \in Seq(Symbols) /\ ArePaired(vs)
      /\ Characters(FlattenSeq(vs)) = Image(Esc, Value(p))
  <2>1. CASE p.number
    <3>1. p.value \in Seq(BMP) /\ p.value \in Seq(Symbols) /\ Image(Esc, p.value) = p.value
      BY <1>1, <2>1, NumberIs
    <3>2. <<p.value>> \in Seq(Seq(BMP)) /\ <<>> \in Seq(Seq(BMP))
      BY <3>1
    <3>3. FlattenSeq(<<p.value>>) = p.value
      BY <3>1, <3>2, FlattenAppend
    <3>4. ArePaired(<<p.value>>) /\ Characters(FlattenSeq(<<p.value>>)) = FlattenSeq(<<p.value>>)
      BY <3>2, PlainTexts
    <3>5. Value(p) = p.value /\ vs = <<p.value>>
      BY <2>1, Zenon DEF Value
    <3>6. QED
      BY <3>1, <3>3, <3>4, <3>5, Zenon
  <2>2. CASE ~p.number
    <3>1. Value(p) = UpTo(MaxSdLength, Characters(p.value)) /\ vs = ValueWrites(p.value)
      BY <2>2, Zenon DEF Value
    <3>2. UpTo(MaxSdLength, Characters(p.value)) \in Seq(Symbols)
      BY <1>1, UnitsAre, UpToIs, FormatterAssumption
    <3>3. /\ ArePaired(ValueWrites(p.value))
          /\ Characters(FlattenSeq(ValueWrites(p.value))) = Image(Esc, UpTo(MaxSdLength, Characters(p.value)))
      BY <1>1, ValueIs
    <3>4. QED
      BY <3>1, <3>2, <3>3, Zenon
  <2>3. QED
    BY <2>1, <2>2
<1>4. CASE IsWritten(p)
  <2> DEFINE a == <<<<SP>>, ParamName(p.name), <<EQUAL, QUOTE>>>>
             z == <<<<QUOTE>>>>
  <2>1. ParamWrites(p) = (a \o vs) \o z
    BY <1>4, Zenon DEF ParamWrites
  <2>2. <<SP>> \in Seq(BMP) /\ <<EQUAL, QUOTE>> \in Seq(BMP) /\ <<QUOTE>> \in Seq(BMP)
    BY FormatterAssumption
  <2>3. ParamName(p.name) \in Seq(BMP)
    <3>1. NameChars \subseteq BMP
      BY DEF NameChars
    <3>2. QED
      BY <1>2, <3>1, SeqMonotonic
  <2>4. a \in Seq(Seq(BMP)) /\ z \in Seq(Seq(BMP))
    BY <2>2, <2>3
  <2>5. FlattenSeq(a) = (<<SP>> \o ParamName(p.name)) \o <<EQUAL, QUOTE>>
    <3> DEFINE n == ParamName(p.name)
    <3> HIDE DEF n
    <3>1. <<<<SP>>, n>> \in Seq(Seq(BMP)) /\ <<<<SP>>>> \in Seq(Seq(BMP))
      BY <2>2, <2>3 DEF n
    <3>2. FlattenSeq(Append(<<<<SP>>, n>>, <<EQUAL, QUOTE>>)) = FlattenSeq(<<<<SP>>, n>>) \o <<EQUAL, QUOTE>>
      BY <2>2, <3>1, FlattenAppend
    <3>3. FlattenSeq(Append(<<<<SP>>>>, n)) = FlattenSeq(<<<<SP>>>>) \o n
      BY <2>3, <3>1, FlattenAppend DEF n
    <3>4. FlattenSeq(<<<<SP>>>>) = <<SP>>
      BY <2>2, <3>1, FlattenAppend
    <3>5. Append(<<<<SP>>, n>>, <<EQUAL, QUOTE>>) = <<<<SP>>, n, <<EQUAL, QUOTE>>>> /\ Append(<<<<SP>>>>, n) = <<<<SP>>, n>>
      <4>1. n \in Seq(BMP)
        BY <2>3 DEF n
      <4>2. QED
        BY <2>2, <4>1, AppendTuple, Zenon
    <3>6. QED
      BY <3>2, <3>3, <3>4, <3>5, Zenon DEF n
  <2>6. FlattenSeq(z) = <<QUOTE>>
    BY <2>2, <2>4, FlattenAppend
  <2>7. /\ ArePaired(a) /\ Characters(FlattenSeq(a)) = FlattenSeq(a)
        /\ ArePaired(z) /\ Characters(FlattenSeq(z)) = FlattenSeq(z)
    BY <2>4, PlainTexts
  <2> HIDE DEF a, z, vs
  <2>8. ArePaired(a \o vs) /\ Characters(FlattenSeq(a \o vs)) = Characters(FlattenSeq(a)) \o Characters(FlattenSeq(vs))
    BY <1>3, <2>7, ArePairedConcat
  <2>9. ArePaired((a \o vs) \o z) /\ Characters(FlattenSeq((a \o vs) \o z)) = Characters(FlattenSeq(a \o vs)) \o Characters(FlattenSeq(z))
    BY <2>7, <2>8, ArePairedConcat
  <2>10. Characters(FlattenSeq(ParamWrites(p))) = ParamText(ParamName(p.name), Value(p))
    BY <1>3, <2>1, <2>5, <2>6, <2>7, <2>8, <2>9, Zenon DEF ParamText
  <2>11. QED
    BY <1>2, <1>3, <1>4, <2>1, <2>9, <2>10, Zenon
<1>5. CASE ~IsWritten(p)
  <2>1. ParamWrites(p) = <<>>
    BY <1>5, Zenon DEF ParamWrites
  <2>2. <<>> \in Seq(Seq(BMP)) /\ <<>> \in Seq(BMP)
    BY EmptySeq
  <2>3. FlattenSeq(<<>>) = <<>>
    BY <2>2, FlattenAppend
  <2>4. ArePaired(<<>>) /\ Characters(FlattenSeq(<<>>)) = FlattenSeq(<<>>)
    BY <2>2, PlainTexts
  <2>5. QED
    BY <1>2, <1>3, <1>5, <2>1, <2>3, <2>4, Zenon
<1>6. QED
  BY <1>4, <1>5

-----------------------------------------------------------------------------
(* The reader                                                              *)

(* F holds what has been read after each of the characters. *)
Readings(F, r, chars) ==
  /\ F[0] = r
  /\ \A i \in 1 .. Len(chars) : F[i] = ReadChar(F[i - 1], chars[i])

LEMMA ReadOnIsReadings ==
  ASSUME NEW r, NEW s, Len(s) \in Nat
  PROVE  \E F : Readings(F, r, s) /\ ReadOn(r, s) = F[Len(s)]
<1> DEFINE N == Len(s)
           Rec(n, g) == g = [i \in 0 .. n |-> IF i = 0 THEN r ELSE ReadChar(g[i - 1], s[i])]
           T == {n \in Nat : \E g : Rec(n, g)}
<1>1. 0 \in T
  <2>1. Rec(0, [i \in 0 .. 0 |-> r])
    OBVIOUS
  <2>2. QED
    BY <2>1
<1>2. ASSUME NEW n \in Nat, n \in T PROVE n + 1 \in T
  <2>1. PICK g : Rec(n, g)
    BY <1>2
  <2> DEFINE e == ReadChar(g[n], s[n + 1])
             h == [i \in 0 .. n + 1 |-> IF i <= n THEN g[i] ELSE e]
  <2>2. \A i \in 0 .. n : g[i] = IF i = 0 THEN r ELSE ReadChar(g[i - 1], s[i])
    BY <2>1, Zenon
  <2> HIDE DEF e
  <2>3. (\A i \in 0 .. n : h[i] = g[i]) /\ h[n + 1] = e
    OBVIOUS
  <2>4. DOMAIN h = 0 .. n + 1 /\ h = [i \in 0 .. n + 1 |-> h[i]]
    OBVIOUS
  <2> HIDE DEF h
  <2>5. ASSUME NEW i \in 0 .. n + 1 PROVE h[i] = IF i = 0 THEN r ELSE ReadChar(h[i - 1], s[i])
    <3>1. CASE i = 0
      <4>1. 0 \in 0 .. n
        OBVIOUS
      <4>2. QED
        BY <2>2, <2>3, <3>1, <4>1, Zenon
    <3>2. CASE i \in 1 .. n
      <4>1. i \in 0 .. n /\ i - 1 \in 0 .. n /\ i # 0
        BY <3>2
      <4>2. QED
        BY <2>2, <2>3, <4>1, Zenon
    <3>3. CASE i = n + 1
      <4>1. n \in 0 .. n /\ n + 1 # 0 /\ (n + 1) - 1 = n
        OBVIOUS
      <4>2. QED
        BY <2>3, <3>3, <4>1, Zenon DEF e
    <3>4. QED
      BY <3>1, <3>2, <3>3
  <2>6. Rec(n + 1, h)
    BY <2>4, <2>5, Zenon
  <2>7. QED
    BY <2>6
<1>3. Nat \subseteq T
  <2> HIDE DEF T
  <2>1. \A n \in Nat : n \in T => n + 1 \in T
    BY <1>2
  <2>2. QED
    BY <1>1, <2>1, SetInduction
<1>4. \E g : Rec(N, g)
  BY <1>3
<1> DEFINE F == CHOOSE g : Rec(N, g)
<1>5. Rec(N, F)
  <2> HIDE DEF Rec
  <2>1. QED
    BY <1>4, Zenon
<1>6. \A i \in 0 .. N : F[i] = IF i = 0 THEN r ELSE ReadChar(F[i - 1], s[i])
  <2> HIDE DEF F
  <2>1. QED
    BY <1>5, Zenon
<1>7. ReadOn(r, s) = F[N]
  BY Zenon DEF ReadOn
<1> HIDE DEF F
<1>8. Readings(F, r, s)
  <2>1. 0 \in 0 .. N /\ \A i \in 1 .. N : i \in 0 .. N /\ i # 0
    OBVIOUS
  <2>2. QED
    BY <1>6, <2>1, Zenon DEF Readings
<1>9. QED
  BY <1>7, <1>8

LEMMA ReadAppend ==
  ASSUME NEW S, NEW r, NEW x \in Seq(S), NEW c \in S
  PROVE  ReadOn(r, Append(x, c)) = ReadChar(ReadOn(r, x), c)
<1> DEFINE y == Append(x, c)
<1>1. /\ Len(x) \in Nat /\ Len(y) = Len(x) + 1
      /\ \A i \in 1 .. Len(x) : y[i] = x[i]
      /\ y[Len(x) + 1] = c
  BY AppendProperties, LenProperties
<1> HIDE DEF y
<1>2. PICK F : Readings(F, r, x) /\ ReadOn(r, x) = F[Len(x)]
  BY <1>1, ReadOnIsReadings
<1>3. PICK G : Readings(G, r, y) /\ ReadOn(r, y) = G[Len(y)]
  <2>1. Len(y) \in Nat
    BY <1>1
  <2>2. QED
    BY <2>1, ReadOnIsReadings
<1> DEFINE T == {n \in Nat : n <= Len(x) => G[n] = F[n]}
<1>4. 0 \in T
  BY <1>2, <1>3 DEF Readings
<1>5. ASSUME NEW n \in Nat, n \in T PROVE n + 1 \in T
  <2> SUFFICES ASSUME n + 1 <= Len(x) PROVE G[n + 1] = F[n + 1]
    OBVIOUS
  <2>1. n + 1 \in 1 .. Len(x) /\ n + 1 \in 1 .. Len(y) /\ (n + 1) - 1 = n
    BY <1>1
  <2>2. G[n] = F[n]
    BY <1>1, <1>5, <2>1
  <2>3. G[n + 1] = ReadChar(G[n], y[n + 1]) /\ F[n + 1] = ReadChar(F[n], x[n + 1])
    BY <1>2, <1>3, <2>1 DEF Readings
  <2>4. QED
    BY <1>1, <2>1, <2>2, <2>3, Zenon
<1>6. Nat \subseteq T
  <2> HIDE DEF T
  <2>1. \A n \in Nat : n \in T => n + 1 \in T
    BY <1>5, Zenon
  <2>2. QED
    BY <1>4, <2>1, SetInduction
<1>7. G[Len(x)] = F[Len(x)]
  BY <1>1, <1>6
<1>8. G[Len(y)] = ReadChar(G[Len(x)], c)
  <2>1. Len(y) \in 1 .. Len(y) /\ Len(y) - 1 = Len(x) /\ y[Len(y)] = c
    BY <1>1
  <2>2. QED
    BY <1>3, <2>1 DEF Readings
<1>9. QED
  BY <1>2, <1>3, <1>7, <1>8, Zenon DEF y

(***************************************************************************)
(* A message is read part by part.                                         *)
(***************************************************************************)
LEMMA ReadIs ==
  ASSUME NEW S
  PROVE  /\ \A r : ReadOn(r, <<>>) = r
         /\ \A r : \A x \in Seq(S) : \A c \in S : ReadOn(r, Append(x, c)) = ReadChar(ReadOn(r, x), c)
         /\ \A r : \A c \in S : ReadOn(r, <<c>>) = ReadChar(r, c)
         /\ \A r : \A x, y \in Seq(S) : ReadOn(r, x \o y) = ReadOn(ReadOn(r, x), y)
<1>1. ASSUME NEW r PROVE ReadOn(r, <<>>) = r
  <2>1. Len(<<>>) = 0 /\ Len(<<>>) \in Nat
    OBVIOUS
  <2>2. PICK F : Readings(F, r, <<>>) /\ ReadOn(r, <<>>) = F[Len(<<>>)]
    BY <2>1, ReadOnIsReadings
  <2>3. QED
    BY <2>1, <2>2 DEF Readings
<1>2. \A r : \A x \in Seq(S) : \A c \in S : ReadOn(r, Append(x, c)) = ReadChar(ReadOn(r, x), c)
  BY ReadAppend
<1>3. ASSUME NEW r, NEW c \in S PROVE ReadOn(r, <<c>>) = ReadChar(r, c)
  <2>1. <<>> \in Seq(S) /\ Append(<<>>, c) = <<c>>
    OBVIOUS
  <2>2. QED
    BY <1>1, <1>2, <2>1
<1>4. ASSUME NEW r, NEW x \in Seq(S), NEW y \in Seq(S)
      PROVE  ReadOn(r, x \o y) = ReadOn(ReadOn(r, x), y)
  <2> DEFINE P == {z \in Seq(S) : ReadOn(r, x \o z) = ReadOn(ReadOn(r, x), z)}
  <2>1. <<>> \in P
    <3>1. x \o <<>> = x /\ <<>> \in Seq(S)
      OBVIOUS
    <3>2. ReadOn(r, x \o <<>>) = ReadOn(ReadOn(r, x), <<>>)
      BY <1>1, <3>1
    <3>3. QED
      BY <3>1, <3>2, Zenon
  <2>2. ASSUME NEW z \in Seq(S), NEW c \in S, z \in P PROVE Append(z, c) \in P
    <3>1. x \o Append(z, c) = Append(x \o z, c) /\ x \o z \in Seq(S) /\ Append(z, c) \in Seq(S)
      OBVIOUS
    <3>2. ReadOn(r, Append(x \o z, c)) = ReadChar(ReadOn(r, x \o z), c)
      BY <1>2, <3>1
    <3>3. ReadOn(ReadOn(r, x), Append(z, c)) = ReadChar(ReadOn(ReadOn(r, x), z), c)
      BY <1>2
    <3>4. ReadOn(r, x \o z) = ReadOn(ReadOn(r, x), z)
      BY <2>2
    <3>5. ReadOn(r, x \o Append(z, c)) = ReadOn(ReadOn(r, x), Append(z, c))
      BY <3>1, <3>2, <3>3, <3>4, Zenon
    <3>6. QED
      BY <3>1, <3>5, Zenon
  <2>3. Seq(S) \subseteq P
    <3> HIDE DEF P
    <3>1. \A z \in Seq(S) : \A c \in S : z \in P => Append(z, c) \in P
      BY <2>2, Zenon
    <3>2. QED
      BY <2>1, <3>1, SeqInduction
  <2>4. QED
    BY <2>3, Zenon
<1>5. QED
  BY <1>1, <1>2, <1>3, <1>4

(* What the reader has read: its state, the header, the elements and the   *)
(* payload; an element; a parameter.                                       *)
St(at, h, es, p) == [at |-> at, header |-> h, elements |-> es, payload |-> p]
El(id, ps) == [id |-> id, params |-> ps]
Pa(n, v) == [name |-> n, value |-> v]

ReadParams == [name : Seq(Symbols), value : Seq(Symbols)]
ReadElements == [id : Seq(Symbols), params : Seq(ReadParams)]

(* Within an element after es, and within a parameter after ps.            *)
In(at, h, es, id, ps) == St(at, h, Append(es, El(id, ps)), <<>>)
At(at, h, es, id, ps, n, v) == In(at, h, es, id, Append(ps, Pa(n, v)))

LEMMA LastIs ==
  ASSUME NEW S, NEW s \in Seq(S), NEW x \in S, NEW y \in S
  PROVE  Last(Append(s, x)) = x /\ UpdateLast(Append(s, x), y) = Append(s, y)
<1> DEFINE a == Append(s, x)
           b == Append(s, y)
<1>1. /\ a \in Seq(S) /\ Len(a) = Len(s) + 1 /\ Len(s) \in Nat
      /\ \A i \in 1 .. Len(s) : a[i] = s[i]
      /\ a[Len(s) + 1] = x
  BY AppendProperties, LenProperties
<1>2. /\ b \in Seq(S) /\ Len(b) = Len(s) + 1
      /\ \A i \in 1 .. Len(s) : b[i] = s[i]
      /\ b[Len(s) + 1] = y
  BY AppendProperties, LenProperties
<1> HIDE DEF a, b
<1>3. Last(a) = x
  BY <1>1 DEF Last
<1>4. UpdateLast(a, y) = b
  <2> DEFINE u == UpdateLast(a, y)
  <2>1. u = [a EXCEPT ![Len(s) + 1] = y]
    BY <1>1 DEF UpdateLast
  <2>2. u \in Seq(S) /\ Len(u) = Len(s) + 1 /\ \A i \in 1 .. Len(s) + 1 : u[i] = IF i = Len(s) + 1 THEN y ELSE a[i]
    BY <1>1, <2>1
  <2> HIDE DEF u
  <2>3. \A i \in 1 .. Len(s) + 1 : i = Len(s) + 1 \/ (i \in 1 .. Len(s) /\ i # Len(s) + 1)
    BY <1>1
  <2>4. \A i \in 1 .. Len(u) : u[i] = b[i]
    BY <1>1, <1>2, <2>2, <2>3, Zenon
  <2>5. u = b
    BY <1>2, <2>2, <2>4, SeqEqual
  <2>6. QED
    BY <2>5 DEF u
<1>5. QED
  BY <1>3, <1>4 DEF a, b

LEMMA CharactersDiffer ==
  /\ SP # OPEN /\ SP # CLOSE /\ SP # EQUAL /\ SP # QUOTE /\ SP # ESCAPE
  /\ OPEN # CLOSE /\ OPEN # EQUAL /\ OPEN # QUOTE /\ OPEN # ESCAPE
  /\ CLOSE # EQUAL /\ CLOSE # QUOTE /\ CLOSE # ESCAPE
  /\ EQUAL # QUOTE /\ EQUAL # ESCAPE /\ QUOTE # ESCAPE
  /\ FIELD \notin {SP, OPEN, CLOSE, EQUAL, QUOTE, ESCAPE}
  /\ SYS \notin {SP, OPEN, CLOSE, EQUAL, QUOTE, ESCAPE}
  /\ EVD \notin {SP, OPEN, CLOSE, EQUAL, QUOTE, ESCAPE}
BY DEF SP, OPEN, CLOSE, EQUAL, QUOTE, ESCAPE, FIELD, SYS, EVD

LEMMA ReadOutside ==
  ASSUME NEW h, NEW es, NEW p, NEW c
  PROVE  /\ c # OPEN => ReadChar(St("header", h, es, p), c) = St("header", Append(h, c), es, p)
         /\ c = OPEN => ReadChar(St("header", h, es, p), c) = St("id", h, Append(es, El(<<>>, <<>>)), p)
         /\ c = OPEN => ReadChar(St("between", h, es, p), c) = St("id", h, Append(es, El(<<>>, <<>>)), p)
         /\ c = SP => ReadChar(St("between", h, es, p), c) = St("payload", h, es, p)
         /\ ReadChar(St("payload", h, es, p), c) = St("payload", h, es, Append(p, c))
<1>1. c # OPEN => ReadChar(St("header", h, es, p), c) = St("header", Append(h, c), es, p)
  BY DEF ReadChar, St
<1>2. ReadChar(St("header", h, es, p), OPEN) = St("id", h, Append(es, El(<<>>, <<>>)), p)
  BY DEF ReadChar, St, El
<1>3. ReadChar(St("between", h, es, p), OPEN) = St("id", h, Append(es, El(<<>>, <<>>)), p)
  BY CharactersDiffer DEF ReadChar, St, El
<1>4. ReadChar(St("between", h, es, p), SP) = St("payload", h, es, p)
  BY CharactersDiffer DEF ReadChar, St, ReadMore
<1>5. ReadChar(St("payload", h, es, p), c) = St("payload", h, es, Append(p, c))
  BY DEF ReadChar, St
<1>6. QED
  BY <1>1, <1>2, <1>3, <1>4, <1>5

LEMMA ReadInElement ==
  ASSUME NEW h, NEW es \in Seq(ReadElements), NEW id \in Seq(Symbols), NEW ps \in Seq(ReadParams),
         NEW at \in {"id", "param"}, NEW c \in Symbols
  PROVE  /\ at = "id" /\ c \notin {SP, CLOSE, EQUAL, QUOTE} =>
              ReadChar(In(at, h, es, id, ps), c) = In("id", h, es, Append(id, c), ps)
         /\ c = SP => ReadChar(In(at, h, es, id, ps), c) = At("name", h, es, id, ps, <<>>, <<>>)
         /\ c = CLOSE => ReadChar(In(at, h, es, id, ps), c) = In("between", h, es, id, ps)
<1> DEFINE e == El(id, ps)
           el == Append(es, e)
<1>1. /\ e \in ReadElements /\ El(Append(id, c), ps) \in ReadElements
      /\ El(id, Append(ps, Pa(<<>>, <<>>))) \in ReadElements
  <2>1. Append(id, c) \in Seq(Symbols) /\ Pa(<<>>, <<>>) \in ReadParams
    BY DEF Pa, ReadParams
  <2>2. Append(ps, Pa(<<>>, <<>>)) \in Seq(ReadParams)
    BY <2>1
  <2>3. QED
    BY <2>1, <2>2 DEF El, ReadElements
<1>2. /\ Last(el) = e
      /\ UpdateLast(el, El(Append(id, c), ps)) = Append(es, El(Append(id, c), ps))
      /\ UpdateLast(el, El(id, Append(ps, Pa(<<>>, <<>>)))) = Append(es, El(id, Append(ps, Pa(<<>>, <<>>))))
  BY <1>1, LastIs
<1>3. e.params = ps /\ e.id = id /\ (\A x : [e EXCEPT !.params = x] = El(id, x))
      /\ \A x : [e EXCEPT !.id = x] = El(x, ps)
  BY DEF El
<1> HIDE DEF e, el
<1>4. ASSUME c \notin {SP, CLOSE, EQUAL, QUOTE}
      PROVE  ReadChar(In("id", h, es, id, ps), c) = In("id", h, es, Append(id, c), ps)
  <2>1. ReadChar(St("id", h, el, <<>>), c) =
          St("id", h, UpdateLast(el, [Last(el) EXCEPT !.id = Append(Last(el).id, c)]), <<>>)
    BY <1>4 DEF ReadChar, St, WithElement
  <2>2. QED
    BY <1>2, <1>3, <2>1, Zenon DEF In, e, el
<1>5. ReadChar(In(at, h, es, id, ps), SP) = At("name", h, es, id, ps, <<>>, <<>>)
  <2>1. ReadChar(St(at, h, el, <<>>), SP) =
          St("name", h, UpdateLast(el, [Last(el) EXCEPT !.params = Append(Last(el).params, [name |-> <<>>, value |-> <<>>])]), <<>>)
    BY CharactersDiffer DEF ReadChar, St, WithElement
  <2>2. QED
    BY <1>2, <1>3, <2>1, Zenon DEF In, At, Pa, e, el
<1>6. ReadChar(In(at, h, es, id, ps), CLOSE) = In("between", h, es, id, ps)
  <2>1. ReadChar(St(at, h, el, <<>>), CLOSE) = St("between", h, el, <<>>)
    BY CharactersDiffer DEF ReadChar, St, ReadMore
  <2>2. QED
    BY <2>1, Zenon DEF In, e, el
<1>7. QED
  BY <1>4, <1>5, <1>6

LEMMA ReadId ==
  ASSUME NEW h, NEW es \in Seq(ReadElements), NEW c \in Symbols, c \notin {SP, CLOSE, EQUAL, QUOTE}
  PROVE  ReadChar(In("id", h, es, <<>>, <<>>), c) = In("id", h, es, <<c>>, <<>>)
<1> DEFINE n == <<>>
           e == El(n, n)
           d == El(<<c>>, n)
           el == Append(es, e)
<1>1. n \in Seq(Symbols) /\ n \in Seq(ReadParams) /\ <<c>> \in Seq(Symbols) /\ Append(n, c) = <<c>>
  OBVIOUS
<1> HIDE DEF n
<1>2. e \in ReadElements /\ d \in ReadElements
  <2> DEFINE x == <<c>>
  <2>1. x \in Seq(Symbols)
    BY <1>1
  <2> HIDE DEF x
  <2>2. El(n, n) \in ReadElements /\ El(x, n) \in ReadElements
    BY <1>1, <2>1 DEF El, ReadElements
  <2>3. QED
    BY <2>2 DEF x
<1>3. e.id = n /\ \A x : [e EXCEPT !.id = x] = El(x, n)
  BY DEF El
<1> HIDE DEF e, d
<1>4. Last(el) = e /\ UpdateLast(el, d) = Append(es, d)
  BY <1>2, LastIs
<1> HIDE DEF el
<1>5. ReadChar(St("id", h, el, <<>>), c) =
        St("id", h, UpdateLast(el, [Last(el) EXCEPT !.id = Append(Last(el).id, c)]), <<>>)
  BY DEF ReadChar, St, WithElement
<1>6. [Last(el) EXCEPT !.id = Append(Last(el).id, c)] = d
  BY <1>1, <1>3, <1>4, Zenon DEF d
<1>7. ReadChar(St("id", h, el, <<>>), c) = St("id", h, Append(es, d), <<>>)
  BY <1>4, <1>5, <1>6, Zenon
<1>8. QED
  BY <1>7, Zenon DEF In, el, e, d, n

LEMMA ReadClose ==
  ASSUME NEW h, NEW es \in Seq(ReadElements), NEW id \in Seq(Symbols), NEW ps \in Seq(ReadParams),
         NEW at \in {"id", "param"}
  PROVE  ReadChar(In(at, h, es, id, ps), CLOSE) = In("between", h, es, id, ps)
<1>1. CLOSE \in Symbols
  BY FormatterAssumption DEF Symbols
<1>2. QED
  BY <1>1, ReadInElement

LEMMA ReadInParam ==
  ASSUME NEW h, NEW es \in Seq(ReadElements), NEW id \in Seq(Symbols), NEW ps \in Seq(ReadParams),
         NEW n \in Seq(Symbols), NEW v \in Seq(Symbols), NEW c \in Symbols
  PROVE  /\ c \notin {EQUAL, SP, CLOSE, QUOTE} =>
              ReadChar(At("name", h, es, id, ps, n, v), c) = At("name", h, es, id, ps, Append(n, c), v)
         /\ ReadChar(At("name", h, es, id, ps, n, v), EQUAL) = At("equal", h, es, id, ps, n, v)
         /\ c = QUOTE => ReadChar(At("equal", h, es, id, ps, n, v), c) = At("value", h, es, id, ps, n, v)
         /\ c \notin {QUOTE, ESCAPE, CLOSE} =>
              ReadChar(At("value", h, es, id, ps, n, v), c) = At("value", h, es, id, ps, n, Append(v, c))
         /\ ReadChar(At("value", h, es, id, ps, n, v), ESCAPE) = At("escape", h, es, id, ps, n, v)
         /\ ReadChar(At("escape", h, es, id, ps, n, v), c) = At("value", h, es, id, ps, n, Append(v, c))
         /\ ReadChar(At("value", h, es, id, ps, n, v), QUOTE) = At("param", h, es, id, ps, n, v)
<1> DEFINE p == Pa(n, v)
           pl == Append(ps, p)
           e == El(id, pl)
           el == Append(es, e)
           WithParam(x) == Append(es, El(id, Append(ps, x)))
<1>1. p \in ReadParams /\ Pa(Append(n, c), v) \in ReadParams /\ Pa(n, Append(v, c)) \in ReadParams
  <2>1. Append(n, c) \in Seq(Symbols) /\ Append(v, c) \in Seq(Symbols)
    OBVIOUS
  <2>2. QED
    BY <2>1 DEF Pa, ReadParams
<1>2. ASSUME NEW x \in ReadParams
      PROVE  /\ Last(pl) = p /\ UpdateLast(pl, x) = Append(ps, x)
             /\ Last(el) = e /\ UpdateLast(el, El(id, Append(ps, x))) = WithParam(x)
  <2>1. Last(pl) = p /\ UpdateLast(pl, x) = Append(ps, x)
    BY <1>1, LastIs
  <2>2. e \in ReadElements /\ El(id, Append(ps, x)) \in ReadElements
    <3>1. pl \in Seq(ReadParams) /\ Append(ps, x) \in Seq(ReadParams)
      BY <1>1, AppendProperties
    <3>2. QED
      BY <3>1 DEF El, ReadElements
  <2>3. Last(el) = e /\ UpdateLast(el, El(id, Append(ps, x))) = WithParam(x)
    BY <2>2, LastIs
  <2>4. QED
    BY <2>1, <2>3
<1>3. /\ e.params = pl /\ \A x : [e EXCEPT !.params = x] = El(id, x)
      /\ p.name = n /\ p.value = v
      /\ \A x : [p EXCEPT !.name = x] = Pa(x, v)
      /\ \A x : [p EXCEPT !.value = x] = Pa(n, x)
  BY DEF El, Pa
<1> HIDE DEF p, pl, e, el
<1>4. Last(el) = e /\ Last(e.params) = p
  BY <1>1, <1>2, <1>3
<1>5. \A at : At(at, h, es, id, ps, n, v) = St(at, h, el, <<>>)
  BY Zenon DEF At, In, el, e, pl, p
<1>6. ASSUME c \notin {EQUAL, SP, CLOSE, QUOTE}
      PROVE  ReadChar(At("name", h, es, id, ps, n, v), c) = At("name", h, es, id, ps, Append(n, c), v)
  <2>1. ReadChar(St("name", h, el, <<>>), c) =
          St("name", h, UpdateLast(el, [Last(el) EXCEPT !.params =
               UpdateLast(Last(el).params, [Last(Last(el).params) EXCEPT !.name = Append(Last(Last(el).params).name, c)])]), <<>>)
    BY <1>6 DEF ReadChar, St, WithElement
  <2>2. ReadChar(St("name", h, el, <<>>), c) = St("name", h, WithParam(Pa(Append(n, c), v)), <<>>)
    <3>1. Last(el) = e /\ e.params = pl /\ Last(pl) = p
      BY <1>3, <1>4
    <3>2. [p EXCEPT !.name = Append(p.name, c)] = Pa(Append(n, c), v)
      BY <1>3
    <3>3. UpdateLast(pl, Pa(Append(n, c), v)) = Append(ps, Pa(Append(n, c), v))
      BY <1>1, <1>2
    <3>4. [e EXCEPT !.params = Append(ps, Pa(Append(n, c), v))] = El(id, Append(ps, Pa(Append(n, c), v)))
      BY <1>3
    <3>5. UpdateLast(el, El(id, Append(ps, Pa(Append(n, c), v)))) = WithParam(Pa(Append(n, c), v))
      BY <1>1, <1>2
    <3> HIDE DEF WithParam
    <3>6. QED
      BY <2>1, <3>1, <3>2, <3>3, <3>4, <3>5, Zenon
  <2>3. QED
    BY <1>5, <2>2, Zenon DEF At, In
<1>7. ReadChar(At("name", h, es, id, ps, n, v), EQUAL) = At("equal", h, es, id, ps, n, v)
  <2>1. ReadChar(St("name", h, el, <<>>), EQUAL) = St("equal", h, el, <<>>)
    BY CharactersDiffer DEF ReadChar, St, ReadMore
  <2>2. QED
    BY <1>5, <2>1, Zenon
<1>8. ReadChar(At("equal", h, es, id, ps, n, v), QUOTE) = At("value", h, es, id, ps, n, v)
  <2>1. ReadChar(St("equal", h, el, <<>>), QUOTE) = St("value", h, el, <<>>)
    BY CharactersDiffer DEF ReadChar, St, ReadMore
  <2>2. QED
    BY <1>5, <2>1, Zenon
<1>9. ASSUME NEW at \in {"value", "escape"},
             ReadChar(St(at, h, el, <<>>), c) =
               St("value", h, UpdateLast(el, [Last(el) EXCEPT !.params =
                    UpdateLast(Last(el).params, [Last(Last(el).params) EXCEPT !.value = Append(Last(Last(el).params).value, c)])]), <<>>)
      PROVE  ReadChar(At(at, h, es, id, ps, n, v), c) = At("value", h, es, id, ps, n, Append(v, c))
  <2>1. ReadChar(St(at, h, el, <<>>), c) = St("value", h, WithParam(Pa(n, Append(v, c))), <<>>)
    <3>1. Last(el) = e /\ e.params = pl /\ Last(pl) = p
      BY <1>3, <1>4
    <3>2. [p EXCEPT !.value = Append(p.value, c)] = Pa(n, Append(v, c))
      BY <1>3
    <3>3. UpdateLast(pl, Pa(n, Append(v, c))) = Append(ps, Pa(n, Append(v, c)))
      BY <1>1, <1>2
    <3>4. [e EXCEPT !.params = Append(ps, Pa(n, Append(v, c)))] = El(id, Append(ps, Pa(n, Append(v, c))))
      BY <1>3
    <3>5. UpdateLast(el, El(id, Append(ps, Pa(n, Append(v, c))))) = WithParam(Pa(n, Append(v, c)))
      BY <1>1, <1>2
    <3> HIDE DEF WithParam
    <3>6. QED
      BY <1>9, <3>1, <3>2, <3>3, <3>4, <3>5, Zenon
  <2>2. QED
    BY <1>5, <2>1, Zenon DEF At, In
<1>10. ASSUME c \notin {QUOTE, ESCAPE, CLOSE}
       PROVE  ReadChar(At("value", h, es, id, ps, n, v), c) = At("value", h, es, id, ps, n, Append(v, c))
  <2>1. ReadChar(St("value", h, el, <<>>), c) =
          St("value", h, UpdateLast(el, [Last(el) EXCEPT !.params =
               UpdateLast(Last(el).params, [Last(Last(el).params) EXCEPT !.value = Append(Last(Last(el).params).value, c)])]), <<>>)
    BY <1>10 DEF ReadChar, St, WithElement
  <2>2. QED
    BY <1>9, <2>1
<1>11. ReadChar(At("value", h, es, id, ps, n, v), ESCAPE) = At("escape", h, es, id, ps, n, v)
  <2>1. ReadChar(St("value", h, el, <<>>), ESCAPE) = St("escape", h, el, <<>>)
    BY CharactersDiffer DEF ReadChar, St, ReadMore
  <2>2. QED
    BY <1>5, <2>1, Zenon
<1>12. ReadChar(At("escape", h, es, id, ps, n, v), c) = At("value", h, es, id, ps, n, Append(v, c))
  <2>1. ReadChar(St("escape", h, el, <<>>), c) =
          St("value", h, UpdateLast(el, [Last(el) EXCEPT !.params =
               UpdateLast(Last(el).params, [Last(Last(el).params) EXCEPT !.value = Append(Last(Last(el).params).value, c)])]), <<>>)
    BY DEF ReadChar, St, WithElement
  <2>2. QED
    BY <1>9, <2>1
<1>13. ReadChar(At("value", h, es, id, ps, n, v), QUOTE) = At("param", h, es, id, ps, n, v)
  <2>1. ReadChar(St("value", h, el, <<>>), QUOTE) = St("param", h, el, <<>>)
    BY CharactersDiffer DEF ReadChar, St, ReadMore
  <2>2. QED
    BY <1>5, <2>1, Zenon
<1>14. QED
  BY <1>6, <1>7, <1>8, <1>10, <1>11, <1>12, <1>13

-----------------------------------------------------------------------------
(* What the reader makes of what the formatter writes                      *)

LEMMA ReadChars ==
  ASSUME NEW C, NEW F, \A x \in Seq(C) : \A c \in C : ReadChar(F[x], c) = F[Append(x, c)]
  PROVE  \A w \in Seq(C) : ReadOn(F[<<>>], w) = F[w]
<1> DEFINE P == {w \in Seq(C) : ReadOn(F[<<>>], w) = F[w]}
<1>1. <<>> \in P
  <2>1. <<>> \in Seq(C) /\ ReadOn(F[<<>>], <<>>) = F[<<>>]
    BY EmptySeq, ReadIs
  <2>2. QED
    BY <2>1
<1>2. ASSUME NEW x \in Seq(C), NEW c \in C, x \in P PROVE Append(x, c) \in P
  <2>1. Append(x, c) \in Seq(C)
    BY AppendProperties
  <2>2. ReadOn(F[<<>>], Append(x, c)) = ReadChar(ReadOn(F[<<>>], x), c)
    BY ReadIs
  <2>3. ReadOn(F[<<>>], x) = F[x]
    BY <1>2
  <2>4. ReadOn(F[<<>>], Append(x, c)) = F[Append(x, c)]
    BY <2>2, <2>3, Zenon
  <2>5. QED
    BY <2>1, <2>4, Zenon
<1>3. Seq(C) \subseteq P
  <2> HIDE DEF P
  <2>1. \A x \in Seq(C) : \A c \in C : x \in P => Append(x, c) \in P
    BY <1>2, Zenon
  <2>2. QED
    BY <1>1, <2>1, SeqInduction
<1>4. QED
  BY <1>3, Zenon

LEMMA ReadEach ==
  ASSUME NEW C, NEW S, NEW G, Maps(G, C, S), NEW F,
         \A x \in Seq(C) : \A c \in C : ReadOn(F[x], G[c]) = F[Append(x, c)]
  PROVE  \A w \in Seq(C) : ReadOn(F[<<>>], Image(G, w)) = F[w]
<1> DEFINE P == {w \in Seq(C) : ReadOn(F[<<>>], Image(G, w)) = F[w]}
<1>1. /\ Image(G, <<>>) = <<>>
      /\ \A x \in Seq(C) : Image(G, x) \in Seq(S)
      /\ \A x \in Seq(C) : \A c \in C : Image(G, Append(x, c)) = Image(G, x) \o G[c]
      /\ \A c \in C : G[c] \in Seq(S)
  BY ImageIs DEF Maps
<1>2. <<>> \in P
  <2>1. <<>> \in Seq(C) /\ ReadOn(F[<<>>], <<>>) = F[<<>>]
    BY EmptySeq, ReadIs
  <2>2. QED
    BY <1>1, <2>1
<1>3. ASSUME NEW x \in Seq(C), NEW c \in C, x \in P PROVE Append(x, c) \in P
  <2>1. Append(x, c) \in Seq(C)
    BY AppendProperties
  <2>2. Image(G, x) \in Seq(S) /\ G[c] \in Seq(S) /\ Image(G, Append(x, c)) = Image(G, x) \o G[c]
    BY <1>1
  <2>3. ReadOn(F[<<>>], Image(G, x) \o G[c]) = ReadOn(ReadOn(F[<<>>], Image(G, x)), G[c])
    BY <2>2, ReadIs
  <2>4. ReadOn(F[<<>>], Image(G, x)) = F[x]
    BY <1>3
  <2>5. ReadOn(F[<<>>], Image(G, Append(x, c))) = F[Append(x, c)]
    BY <2>2, <2>3, <2>4, Zenon
  <2>6. QED
    BY <2>1, <2>5, Zenon
<1>4. Seq(C) \subseteq P
  <2> HIDE DEF P
  <2>1. \A x \in Seq(C) : \A c \in C : x \in P => Append(x, c) \in P
    BY <1>3, Zenon
  <2>2. QED
    BY <1>2, <2>1, SeqInduction
<1>5. QED
  BY <1>4, Zenon

LEMMA ReadTwo ==
  ASSUME NEW S, NEW r, NEW a \in S, NEW b \in S
  PROVE  ReadOn(r, <<a, b>>) = ReadChar(ReadChar(r, a), b)
<1>1. <<a>> \in Seq(S)
  OBVIOUS
<1>2. Append(<<a>>, b) = <<a, b>>
  BY AppendTuple, Zenon
<1>3. ReadOn(r, Append(<<a>>, b)) = ReadChar(ReadOn(r, <<a>>), b)
  <2> DEFINE x == <<a>>
  <2> HIDE DEF x
  <2>1. x \in Seq(S)
    BY <1>1 DEF x
  <2>2. ReadOn(r, Append(x, b)) = ReadChar(ReadOn(r, x), b)
    BY <2>1, ReadAppend
  <2>3. QED
    BY <2>2 DEF x
<1>4. ReadOn(r, <<a>>) = ReadChar(r, a)
  BY ReadIs, Zenon
<1>5. QED
  BY <1>2, <1>3, <1>4, Zenon

(***************************************************************************)
(* A parameter is read with its name and its value: what is escaped in the *)
(* value comes back as it was.                                             *)
(***************************************************************************)
LEMMA ParamIsRead ==
  ASSUME NEW h, NEW es \in Seq(ReadElements), NEW id \in Seq(Symbols), NEW ps \in Seq(ReadParams),
         NEW at \in {"id", "param"}, NEW n \in Seq(NameChars), NEW v \in Seq(Symbols)
  PROVE  ReadOn(In(at, h, es, id, ps), ParamText(n, v)) = At("param", h, es, id, ps, n, v)
<1> DEFINE T == Symbols \union {ESCAPE}
           r0 == In(at, h, es, id, ps)
           A(a, x, y) == At(a, h, es, id, ps, x, y)
<1>1. /\ SP \in Symbols /\ EQUAL \in Symbols /\ QUOTE \in Symbols /\ ESCAPE \in Symbols
      /\ <<>> \in Seq(Symbols) /\ Symbols \subseteq T /\ NameChars \subseteq Symbols
  BY FormatterAssumption DEF Symbols, NameChars
<1>2. /\ <<SP>> \in Seq(T) /\ <<EQUAL, QUOTE>> \in Seq(T) /\ <<QUOTE>> \in Seq(T)
      /\ n \in Seq(T) /\ n \in Seq(Symbols) /\ Image(Esc, v) \in Seq(T)
  <2>1. <<SP>> \in Seq(T) /\ <<EQUAL, QUOTE>> \in Seq(T) /\ <<QUOTE>> \in Seq(T)
    BY <1>1
  <2>2. Seq(NameChars) \subseteq Seq(Symbols) /\ Seq(Symbols) \subseteq Seq(T)
    BY <1>1, SeqMonotonic
  <2>3. Image(Esc, v) \in Seq(T)
    BY EscIs, ImageIs
  <2>4. QED
    BY <2>1, <2>2, <2>3
<1>14. ASSUME NEW x \in Seq(Symbols), NEW y \in Seq(Symbols), NEW c \in Symbols
       PROVE  /\ c \notin {EQUAL, SP, CLOSE, QUOTE} => ReadChar(A("name", x, y), c) = A("name", Append(x, c), y)
              /\ ReadChar(A("name", x, y), EQUAL) = A("equal", x, y)
              /\ ReadChar(A("equal", x, y), QUOTE) = A("value", x, y)
              /\ c \notin {QUOTE, ESCAPE, CLOSE} => ReadChar(A("value", x, y), c) = A("value", x, Append(y, c))
              /\ ReadChar(A("value", x, y), ESCAPE) = A("escape", x, y)
              /\ ReadChar(A("escape", x, y), c) = A("value", x, Append(y, c))
              /\ ReadChar(A("value", x, y), QUOTE) = A("param", x, y)
  <2> HIDE DEF T, r0
  <2>1. c \notin {EQUAL, SP, CLOSE, QUOTE} => ReadChar(A("name", x, y), c) = A("name", Append(x, c), y)
    BY <1>1, ReadInParam
  <2>2. ReadChar(A("name", x, y), EQUAL) = A("equal", x, y)
    BY <1>1, ReadInParam
  <2>3. ReadChar(A("equal", x, y), QUOTE) = A("value", x, y)
    BY <1>1, ReadInParam
  <2>4. c \notin {QUOTE, ESCAPE, CLOSE} => ReadChar(A("value", x, y), c) = A("value", x, Append(y, c))
    BY <1>1, ReadInParam
  <2>5. ReadChar(A("value", x, y), ESCAPE) = A("escape", x, y)
    BY <1>1, ReadInParam
  <2>6. ReadChar(A("escape", x, y), c) = A("value", x, Append(y, c))
    BY <1>1, ReadInParam
  <2>7. ReadChar(A("value", x, y), QUOTE) = A("param", x, y)
    BY <1>1, ReadInParam
  <2>8. QED
    BY <2>1, <2>2, <2>3, <2>4, <2>5, <2>6, <2>7
<1>15. \A r : \A x, y \in Seq(T) : ReadOn(r, x \o y) = ReadOn(ReadOn(r, x), y) /\ x \o y \in Seq(T)
  <2> HIDE DEF T
  <2>1. QED
    BY ReadIs, ConcatProperties
<1>3. ReadOn(r0, <<SP>>) = A("name", <<>>, <<>>)
  <2>1. ReadOn(r0, <<SP>>) = ReadChar(r0, SP)
    BY <1>1, ReadIs
  <2>2. ReadChar(r0, SP) = A("name", <<>>, <<>>)
    BY <1>1, ReadInElement
  <2>3. QED
    BY <2>1, <2>2, Zenon
<1>4. ReadOn(A("name", <<>>, <<>>), n) = A("name", n, <<>>)
  <2> DEFINE F == [x \in Seq(NameChars) |-> A("name", x, <<>>)]
  <2>1. ASSUME NEW x \in Seq(NameChars), NEW c \in NameChars
        PROVE  ReadChar(F[x], c) = F[Append(x, c)]
    <3>1. Append(x, c) \in Seq(NameChars) /\ x \in Seq(Symbols) /\ c \in Symbols
      BY <1>1, AppendProperties, SeqMonotonic
    <3>2. c \notin {EQUAL, SP, CLOSE, QUOTE}
      BY DEF NameChars
    <3>3. ReadChar(A("name", x, <<>>), c) = A("name", Append(x, c), <<>>)
      BY <1>1, <1>14, <3>1, <3>2, Zenon
    <3> HIDE DEF A
    <3>4. QED
      BY <3>1, <3>3
  <2>2. <<>> \in Seq(NameChars)
    OBVIOUS
  <2> HIDE DEF A
  <2>3. F[<<>>] = A("name", <<>>, <<>>) /\ F[n] = A("name", n, <<>>)
    BY <2>2
  <2> HIDE DEF F
  <2>4. ReadOn(F[<<>>], n) = F[n]
    BY <2>1, ReadChars
  <2>5. QED
    BY <2>3, <2>4, Zenon
<1>5. ReadOn(A("name", n, <<>>), <<EQUAL, QUOTE>>) = A("value", n, <<>>)
  <2>1. ReadOn(A("name", n, <<>>), <<EQUAL, QUOTE>>) = ReadChar(ReadChar(A("name", n, <<>>), EQUAL), QUOTE)
    BY <1>1, ReadTwo
  <2>2. /\ ReadChar(A("name", n, <<>>), EQUAL) = A("equal", n, <<>>)
        /\ ReadChar(A("equal", n, <<>>), QUOTE) = A("value", n, <<>>)
    BY <1>1, <1>2, <1>14, Zenon
  <2>3. QED
    BY <2>1, <2>2, Zenon
<1>6. ReadOn(A("value", n, <<>>), Image(Esc, v)) = A("value", n, v)
  <2> DEFINE F == [x \in Seq(Symbols) |-> A("value", n, x)]
  <2>1. ASSUME NEW x \in Seq(Symbols), NEW c \in Symbols
        PROVE  ReadOn(F[x], Esc[c]) = F[Append(x, c)]
    <3>1. Append(x, c) \in Seq(Symbols)
      BY AppendProperties
    <3>2. CASE NeedsEscape(c)
      <4>1. Esc[c] = <<ESCAPE, c>>
        BY <3>2, EscIs
      <4>2. /\ ReadChar(A("value", n, x), ESCAPE) = A("escape", n, x)
            /\ ReadChar(A("escape", n, x), c) = A("value", n, Append(x, c))
        BY <1>2, ReadInParam
      <4>3. ReadOn(A("value", n, x), <<ESCAPE, c>>) = ReadChar(ReadChar(A("value", n, x), ESCAPE), c)
        BY <1>1, ReadTwo
      <4> HIDE DEF A
      <4>4. F[x] = A("value", n, x) /\ F[Append(x, c)] = A("value", n, Append(x, c))
        BY <3>1
      <4>5. QED
        BY <4>1, <4>2, <4>3, <4>4, Zenon
    <3>3. CASE ~NeedsEscape(c)
      <4>1. Esc[c] = <<c>>
        BY <3>3, EscIs
      <4>2. c \notin {QUOTE, ESCAPE, CLOSE}
        BY <3>3 DEF NeedsEscape
      <4>3. ReadChar(A("value", n, x), c) = A("value", n, Append(x, c))
        BY <1>2, <4>2, ReadInParam
      <4>4. ReadOn(A("value", n, x), <<c>>) = ReadChar(A("value", n, x), c)
        BY ReadIs
      <4> HIDE DEF A
      <4>5. F[x] = A("value", n, x) /\ F[Append(x, c)] = A("value", n, Append(x, c))
        BY <3>1
      <4>6. QED
        BY <4>1, <4>3, <4>4, <4>5, Zenon
    <3>4. QED
      BY <3>2, <3>3
  <2> HIDE DEF A
  <2>2. F[<<>>] = A("value", n, <<>>) /\ F[v] = A("value", n, v)
    BY <1>1
  <2> HIDE DEF F
  <2>3. \A w \in Seq(Symbols) : ReadOn(F[<<>>], Image(Esc, w)) = F[w]
    <3>1. Maps(Esc, Symbols, Symbols \union {ESCAPE})
      BY EscIs
    <3>2. QED
      BY <2>1, <3>1, ReadEach
  <2>4. QED
    BY <2>2, <2>3, Zenon
<1>7. ReadOn(A("value", n, v), <<QUOTE>>) = A("param", n, v)
  <2>1. ReadOn(A("value", n, v), <<QUOTE>>) = ReadChar(A("value", n, v), QUOTE)
    BY <1>1, ReadIs
  <2>2. ReadChar(A("value", n, v), QUOTE) = A("param", n, v)
    BY <1>1, <1>2, ReadInParam
  <2>3. QED
    BY <2>1, <2>2, Zenon
<1> DEFINE sp == <<SP>>
           eq == <<EQUAL, QUOTE>>
           qu == <<QUOTE>>
           im == Image(Esc, v)
           x1 == sp \o n
           x2 == x1 \o eq
           x3 == x2 \o im
<1> HIDE DEF A, r0, T, sp, eq, qu, im
<1>16. sp \in Seq(T) /\ eq \in Seq(T) /\ qu \in Seq(T) /\ im \in Seq(T) /\ n \in Seq(T)
  BY <1>2 DEF sp, eq, qu, im
<1>8. ReadOn(r0, x1) = ReadOn(ReadOn(r0, sp), n) /\ x1 \in Seq(T)
  BY <1>15, <1>16
<1> HIDE DEF x1
<1>9. ReadOn(r0, x2) = ReadOn(ReadOn(r0, x1), eq) /\ x2 \in Seq(T)
  BY <1>8, <1>15, <1>16
<1> HIDE DEF x2
<1>10. ReadOn(r0, x3) = ReadOn(ReadOn(r0, x2), im) /\ x3 \in Seq(T)
  BY <1>9, <1>15, <1>16
<1> HIDE DEF x3
<1>11. ReadOn(r0, x3 \o qu) = ReadOn(ReadOn(r0, x3), qu)
  BY <1>10, <1>15, <1>16
<1>12. ReadOn(r0, x3 \o qu) = A("param", n, v)
  BY <1>3, <1>4, <1>5, <1>6, <1>7, <1>8, <1>9, <1>10, <1>11, Zenon DEF sp, eq, qu, im
<1>13. QED
  BY <1>12, Zenon DEF A, r0, sp, eq, qu, im, x1, x2, x3, ParamText

PW == [p \in Params |-> ParamWrites(p)]
IW == [p \in Params |-> IfWritten(p)]
CP == [p \in Params |-> Characters(FlattenSeq(ParamWrites(p)))]

LEMMA PropertiesAre ==
  ASSUME NEW params, AreProperties(params)
  PROVE  params \in Seq(Params)
<1>1. /\ params \in Seq(Properties)
      /\ \A i \in 1 .. Len(params) : params[i].number => params[i].value \in Seq(NumberChars)
  BY DEF AreProperties, NumberChars
<1>2. \A i \in 1 .. Len(params) : params[i] \in Params
  BY <1>1, ElementOfSeq DEF Params
<1> HIDE DEF Params, Properties
<1>3. Len(params) \in Nat /\ params = [i \in 1 .. Len(params) |-> params[i]]
  BY <1>1, LenProperties
<1>4. QED
  BY <1>2, <1>3

LEMMA ParamFunctions ==
  /\ Maps(PW, Params, Seq(CodeUnits)) /\ Maps(IW, Params, ReadParams) /\ Maps(CP, Params, Symbols)
  /\ \A p \in Params : PW[p] = ParamWrites(p) /\ IW[p] = IfWritten(p)
                       /\ CP[p] = Characters(FlattenSeq(ParamWrites(p)))
<1>1. ASSUME NEW p \in Params
      PROVE  /\ ParamWrites(p) \in Seq(Seq(CodeUnits))
             /\ IfWritten(p) \in Seq(ReadParams)
             /\ Characters(FlattenSeq(ParamWrites(p))) \in Seq(Symbols)
  <2>1. ParamWrites(p) \in Seq(Seq(CodeUnits))
    BY ParamIs DEF ArePaired
  <2>2. FlattenSeq(ParamWrites(p)) \in Seq(CodeUnits)
    BY <2>1, FlattenIsSeq
  <2>3. Characters(FlattenSeq(ParamWrites(p))) \in Seq(Symbols)
    BY <2>2, UnitsAre
  <2>4. ParamName(p.name) \in Seq(Symbols) /\ Value(p) \in Seq(Symbols)
    <3>1. NameChars \subseteq Symbols
      BY DEF NameChars, Symbols
    <3>2. QED
      BY <3>1, ParamIs, SeqMonotonic
  <2>5. IfWritten(p) = IF ~IsWritten(p) THEN <<>> ELSE <<[name |-> ParamName(p.name), value |-> Value(p)]>>
    BY Zenon DEF IfWritten, Value
  <2>6. [name |-> ParamName(p.name), value |-> Value(p)] \in ReadParams
    BY <2>4 DEF ReadParams
  <2> DEFINE x == [name |-> ParamName(p.name), value |-> Value(p)]
  <2> HIDE DEF x
  <2>7. <<>> \in Seq(ReadParams) /\ <<x>> \in Seq(ReadParams)
    BY <2>6 DEF x
  <2>8. IfWritten(p) \in Seq(ReadParams)
    BY <2>5, <2>7, Zenon DEF x
  <2>9. QED
    BY <2>1, <2>3, <2>8
<1>2. PW \in [Params -> Seq(Seq(CodeUnits))] /\ \A p \in Params : PW[p] = ParamWrites(p)
  BY <1>1, Zenon DEF PW
<1>3. IW \in [Params -> Seq(ReadParams)] /\ \A p \in Params : IW[p] = IfWritten(p)
  BY <1>1, Zenon DEF IW
<1>4. CP \in [Params -> Seq(Symbols)] /\ \A p \in Params : CP[p] = Characters(FlattenSeq(ParamWrites(p)))
  BY <1>1, Zenon DEF CP
<1>5. QED
  BY <1>2, <1>3, <1>4, Zenon DEF Maps

LEMMA EachParam ==
  ASSUME NEW t \in Seq(Params)
  PROVE  Each(t, ParamWrites) = Image(PW, t) /\ Each(t, IfWritten) = Image(IW, t)
<1>1. \A i \in 1 .. Len(t) : t[i] \in Params
  BY ElementOfSeq
<1>2. \A i \in 1 .. Len(t) : PW[t[i]] = ParamWrites(t[i]) /\ IW[t[i]] = IfWritten(t[i])
  BY <1>1, ParamFunctions, Zenon
<1>3. /\ [i \in 1 .. Len(t) |-> PW[t[i]]] = [i \in 1 .. Len(t) |-> ParamWrites(t[i])]
      /\ [i \in 1 .. Len(t) |-> IW[t[i]]] = [i \in 1 .. Len(t) |-> IfWritten(t[i])]
  BY <1>2, Zenon
<1>4. QED
  BY <1>3, Zenon DEF Each, Image

LEMMA ParamsArePaired ==
  ASSUME NEW t \in Seq(Params)
  PROVE  ArePaired(Image(PW, t)) /\ Characters(FlattenSeq(Image(PW, t))) = Image(CP, t)
<1> DEFINE P == {x \in Seq(Params) : ArePaired(Image(PW, x)) /\ Characters(FlattenSeq(Image(PW, x))) = Image(CP, x)}
<1>1. <<>> \in P
  <2>1. Image(PW, <<>>) = <<>> /\ Image(CP, <<>>) = <<>> /\ <<>> \in Seq(Params)
    BY ParamFunctions, ImageIs, EmptySeq
  <2>2. <<>> \in Seq(Seq(BMP)) /\ <<>> \in Seq(BMP)
    BY EmptySeq
  <2>3. ArePaired(<<>>) /\ Characters(FlattenSeq(<<>>)) = FlattenSeq(<<>>)
    BY <2>2, PlainTexts
  <2>4. FlattenSeq(<<>>) = <<>>
    BY <2>2, FlattenAppend
  <2>5. QED
    BY <2>1, <2>3, <2>4
<1>2. ASSUME NEW x \in Seq(Params), NEW p \in Params, x \in P PROVE Append(x, p) \in P
  <2>1. Append(x, p) \in Seq(Params)
    BY AppendProperties
  <2>2. Image(PW, Append(x, p)) = Image(PW, x) \o PW[p]
    BY ParamFunctions, ImageIs
  <2>3. Image(CP, Append(x, p)) = Image(CP, x) \o CP[p]
    BY ParamFunctions, ImageIs
  <2>4. PW[p] = ParamWrites(p) /\ CP[p] = Characters(FlattenSeq(ParamWrites(p))) /\ ArePaired(ParamWrites(p))
    BY ParamFunctions, ParamIs, Zenon
  <2>5. ArePaired(Image(PW, x)) /\ Characters(FlattenSeq(Image(PW, x))) = Image(CP, x)
    BY <1>2
  <2>6. /\ ArePaired(Image(PW, x) \o ParamWrites(p))
        /\ Characters(FlattenSeq(Image(PW, x) \o ParamWrites(p))) =
             Characters(FlattenSeq(Image(PW, x))) \o Characters(FlattenSeq(ParamWrites(p)))
    BY <2>4, <2>5, ArePairedConcat, Zenon
  <2>7. ArePaired(Image(PW, Append(x, p))) /\ Characters(FlattenSeq(Image(PW, Append(x, p)))) = Image(CP, Append(x, p))
    BY <2>2, <2>3, <2>4, <2>5, <2>6, Zenon
  <2>8. QED
    BY <2>1, <2>7, Zenon
<1>3. Seq(Params) \subseteq P
  <2> HIDE DEF P
  <2>1. \A x \in Seq(Params) : \A p \in Params : x \in P => Append(x, p) \in P
    BY <1>2, Zenon
  <2>2. QED
    BY <1>1, <2>1, SeqInduction
<1>4. QED
  BY <1>3, Zenon

LEMMA ParamsAreRead ==
  ASSUME NEW h, NEW es \in Seq(ReadElements), NEW id \in Seq(Symbols), NEW t \in Seq(Params)
  PROVE  \E at \in {"id", "param"} :
           ReadOn(In("id", h, es, id, <<>>), Image(CP, t)) = In(at, h, es, id, Image(IW, t))
<1> DEFINE I(x) == Image(IW, x)
           at(x) == IF I(x) = <<>> THEN "id" ELSE "param"
           F == [x \in Seq(Params) |-> In(at(x), h, es, id, I(x))]
<1>1. ASSUME NEW x \in Seq(Params), NEW p \in Params
      PROVE  ReadOn(F[x], CP[p]) = F[Append(x, p)]
  <2>1. /\ I(x) \in Seq(ReadParams) /\ I(Append(x, p)) = I(x) \o IW[p]
        /\ Append(x, p) \in Seq(Params)
    BY ParamFunctions, ImageIs, AppendProperties
  <2>2. F[x] = In(at(x), h, es, id, I(x)) /\ F[Append(x, p)] = In(at(Append(x, p)), h, es, id, I(Append(x, p)))
    BY <2>1, Zenon
  <2>3. IW[p] = IfWritten(p) /\ CP[p] = Characters(FlattenSeq(ParamWrites(p)))
    BY ParamFunctions, Zenon
  <2>4. CASE IsWritten(p)
    <3> DEFINE n == ParamName(p.name)
               v == Value(p)
    <3>1. n \in Seq(NameChars) /\ v \in Seq(Symbols) /\ CP[p] = ParamText(n, v)
      BY <2>3, <2>4, ParamIs, Zenon
    <3>2. IW[p] = <<Pa(n, v)>>
      BY <2>3, <2>4, Zenon DEF IfWritten, Value, Pa
    <3>3. Pa(n, v) \in ReadParams
      <4>1. NameChars \subseteq Symbols
        BY DEF NameChars, Symbols
      <4>2. n \in Seq(Symbols)
        BY <3>1, <4>1, SeqMonotonic
      <4> HIDE DEF n, v
      <4>3. QED
        BY <3>1, <4>2 DEF Pa, ReadParams
    <3> HIDE DEF n, v, I, at, F
    <3>4. at(x) \in {"id", "param"}
      BY DEF at
    <3>5. ReadOn(In(at(x), h, es, id, I(x)), ParamText(n, v)) = At("param", h, es, id, I(x), n, v)
      BY <2>1, <3>1, <3>4, ParamIsRead
    <3>6. I(x) \o <<Pa(n, v)>> = Append(I(x), Pa(n, v)) /\ Append(I(x), Pa(n, v)) # <<>>
      BY <2>1, <3>3, ConcatOne, Zenon
    <3>7. I(Append(x, p)) = Append(I(x), Pa(n, v)) /\ at(Append(x, p)) = "param"
      BY <2>1, <3>2, <3>6, Zenon DEF at
    <3>8. QED
      BY <2>2, <3>1, <3>5, <3>7, Zenon DEF At
  <2>5. CASE ~IsWritten(p)
    <3>1. CP[p] = <<>>
      BY <2>3, <2>5, ParamIs, Zenon
    <3>2. IW[p] = <<>>
      BY <2>3, <2>5, Zenon DEF IfWritten
    <3>3. I(x) \o <<>> = I(x)
      BY <2>1, ConcatEmptySeq
    <3>4. I(Append(x, p)) = I(x)
      BY <2>1, <3>2, <3>3, Zenon
    <3>5. ReadOn(F[x], <<>>) = F[x]
      BY ReadIs
    <3> HIDE DEF I, F
    <3>6. QED
      BY <2>2, <3>1, <3>4, <3>5, Zenon
  <2>6. QED
    BY <2>4, <2>5
<1>2. Maps(CP, Params, Symbols)
  BY ParamFunctions
<1>3. F[t] = In(at(t), h, es, id, I(t))
  BY Zenon
<1>4. F[<<>>] = In("id", h, es, id, <<>>)
  <2>1. I(<<>>) = <<>> /\ <<>> \in Seq(Params)
    BY ParamFunctions, ImageIs, EmptySeq
  <2>2. at(<<>>) = "id"
    BY <2>1, Zenon
  <2> HIDE DEF at, I
  <2>3. QED
    BY <2>1, <2>2, Zenon
<1>5. at(t) \in {"id", "param"}
  OBVIOUS
<1> HIDE DEF F, at
<1>6. \A w \in Seq(Params) : ReadOn(F[<<>>], Image(CP, w)) = F[w]
  BY <1>1, <1>2, ReadEach
<1>7. QED
  BY <1>3, <1>4, <1>5, <1>6, Zenon

LEMMA WithoutParams ==
  ASSUME NEW id \in {SYS, EVD}
  PROVE  /\ ArePaired(<<<<OPEN>>, <<id>>>>) /\ Characters(FlattenSeq(<<<<OPEN>>, <<id>>>>)) = <<OPEN, id>>
         /\ ArePaired(<<<<CLOSE>>>>) /\ Characters(FlattenSeq(<<<<CLOSE>>>>)) = <<CLOSE>>
         /\ OPEN \in Symbols /\ CLOSE \in Symbols /\ id \in Symbols /\ <<id>> \in Seq(Symbols)
         /\ id \notin {SP, CLOSE, EQUAL, QUOTE}
<1>1. OPEN \in BMP /\ CLOSE \in BMP /\ id \in BMP
  BY FormatterAssumption
<1>2. <<OPEN>> \in Seq(BMP) /\ <<id>> \in Seq(BMP) /\ <<CLOSE>> \in Seq(BMP)
  BY <1>1
<1>3. <<<<OPEN>>>> \in Seq(Seq(BMP)) /\ <<<<OPEN>>, <<id>>>> \in Seq(Seq(BMP)) /\ <<<<CLOSE>>>> \in Seq(Seq(BMP))
  BY <1>2
<1>4. FlattenSeq(<<<<OPEN>>>>) = <<OPEN>> /\ FlattenSeq(<<<<CLOSE>>>>) = <<CLOSE>>
  BY <1>2, <1>3, FlattenAppend, Zenon
<1>5. FlattenSeq(<<<<OPEN>>, <<id>>>>) = <<OPEN, id>>
  <2>1. Append(<<<<OPEN>>>>, <<id>>) = <<<<OPEN>>, <<id>>>>
    BY <1>2, AppendTuple, Zenon
  <2>2. FlattenSeq(Append(<<<<OPEN>>>>, <<id>>)) = FlattenSeq(<<<<OPEN>>>>) \o <<id>>
    BY <1>2, <1>3, FlattenAppend, Zenon
  <2>3. <<OPEN>> \o <<id>> = Append(<<OPEN>>, id) /\ Append(<<OPEN>>, id) = <<OPEN, id>>
    BY <1>1, <1>2, ConcatOne, AppendTuple, Zenon
  <2>4. QED
    BY <1>4, <2>1, <2>2, <2>3, Zenon
<1>6. OPEN \in Symbols /\ CLOSE \in Symbols /\ id \in Symbols /\ <<id>> \in Seq(Symbols)
  BY <1>1 DEF Symbols
<1>7. id \notin {SP, CLOSE, EQUAL, QUOTE}
  BY CharactersDiffer
<1>8. /\ ArePaired(<<<<OPEN>>, <<id>>>>)
      /\ Characters(FlattenSeq(<<<<OPEN>>, <<id>>>>)) = FlattenSeq(<<<<OPEN>>, <<id>>>>)
  BY <1>3, PlainTexts, Zenon
<1>9. ArePaired(<<<<CLOSE>>>>) /\ Characters(FlattenSeq(<<<<CLOSE>>>>)) = FlattenSeq(<<<<CLOSE>>>>)
  BY <1>3, PlainTexts, Zenon
<1>10. QED
  BY <1>4, <1>5, <1>6, <1>7, <1>8, <1>9, Zenon

LEMMA ElementIsPaired ==
  ASSUME NEW id \in {SYS, EVD}, NEW t \in Seq(Params)
  PROVE  /\ ArePaired(ElementWrites(id, t))
         /\ Characters(FlattenSeq(ElementWrites(id, t))) = (<<OPEN, id>> \o Image(CP, t)) \o <<CLOSE>>
<1> DEFINE a == <<<<OPEN>>, <<id>>>>
           b == Image(PW, t)
           z == <<<<CLOSE>>>>
<1>1. ElementWrites(id, t) = (a \o b) \o z
  <2>1. Each(t, ParamWrites) = b
    BY EachParam
  <2>2. QED
    BY <2>1, Zenon DEF ElementWrites
<1>2. /\ ArePaired(a) /\ Characters(FlattenSeq(a)) = <<OPEN, id>>
      /\ ArePaired(z) /\ Characters(FlattenSeq(z)) = <<CLOSE>>
      /\ ArePaired(b) /\ Characters(FlattenSeq(b)) = Image(CP, t)
  BY WithoutParams, ParamsArePaired, Zenon
<1> HIDE DEF a, b, z
<1>3. ArePaired(a \o b) /\ Characters(FlattenSeq(a \o b)) = Characters(FlattenSeq(a)) \o Characters(FlattenSeq(b))
  BY <1>2, ArePairedConcat, Zenon
<1>4. /\ ArePaired((a \o b) \o z)
      /\ Characters(FlattenSeq((a \o b) \o z)) = Characters(FlattenSeq(a \o b)) \o Characters(FlattenSeq(z))
  BY <1>2, <1>3, ArePairedConcat, Zenon
<1>5. QED
  BY <1>1, <1>2, <1>3, <1>4, Zenon

(***************************************************************************)
(* An element is read with its parameters.                                 *)
(***************************************************************************)
LEMMA ElementIsRead ==
  ASSUME NEW h, NEW es \in Seq(ReadElements), NEW at \in {"header", "between"},
         NEW id \in {SYS, EVD}, NEW t \in Seq(Params)
  PROVE  /\ Element(id, t) \in ReadElements
         /\ ReadOn(St(at, h, es, <<>>), Characters(FlattenSeq(ElementWrites(id, t)))) =
              St("between", h, Append(es, Element(id, t)), <<>>)
<1> DEFINE r0 == St(at, h, es, <<>>)
           r1 == In("id", h, es, <<id>>, <<>>)
           open == <<OPEN, id>>
           mid == Image(CP, t)
           close == <<CLOSE>>
<1>1. /\ OPEN \in Symbols /\ CLOSE \in Symbols /\ id \in Symbols /\ <<id>> \in Seq(Symbols)
      /\ id \notin {SP, CLOSE, EQUAL, QUOTE}
  BY WithoutParams
<1>2. open \in Seq(Symbols) /\ mid \in Seq(Symbols) /\ close \in Seq(Symbols)
  <2>1. open \in Seq(Symbols) /\ close \in Seq(Symbols)
    BY <1>1
  <2>2. mid \in Seq(Symbols)
    BY ParamFunctions, ImageIs
  <2>3. QED
    BY <2>1, <2>2
<1>3. ReadOn(r0, open) = r1
  <2>1. ReadOn(r0, open) = ReadChar(ReadChar(r0, OPEN), id)
    BY <1>1, ReadTwo
  <2>2. ReadChar(r0, OPEN) = In("id", h, es, <<>>, <<>>)
    <3>1. CASE at = "header"
      BY <3>1, ReadOutside DEF In
    <3>2. CASE at = "between"
      BY <3>2, CharactersDiffer DEF In, ReadChar, St, El
    <3>3. QED
      BY <3>1, <3>2
  <2>3. <<>> \in Seq(Symbols) /\ <<>> \in Seq(ReadParams) /\ Append(<<>>, id) = <<id>>
    OBVIOUS
  <2>4. ReadChar(In("id", h, es, <<>>, <<>>), id) = In("id", h, es, <<id>>, <<>>)
    BY <1>1, ReadId
  <2>5. QED
    BY <2>1, <2>2, <2>3, <2>4, Zenon
<1>4. PICK a \in {"id", "param"} : ReadOn(r1, mid) = In(a, h, es, <<id>>, Image(IW, t))
  BY <1>1, ParamsAreRead
<1>5. Image(IW, t) \in Seq(ReadParams)
  BY ParamFunctions, ImageIs
<1>6. ReadOn(In(a, h, es, <<id>>, Image(IW, t)), close) = In("between", h, es, <<id>>, Image(IW, t))
  <2>1. ReadOn(In(a, h, es, <<id>>, Image(IW, t)), close) = ReadChar(In(a, h, es, <<id>>, Image(IW, t)), CLOSE)
    BY <1>1, ReadIs
  <2>2. ReadChar(In(a, h, es, <<id>>, Image(IW, t)), CLOSE) = In("between", h, es, <<id>>, Image(IW, t))
    BY <1>1, <1>5, ReadClose
  <2>3. QED
    BY <2>1, <2>2, Zenon
<1>7. El(<<id>>, Image(IW, t)) = Element(id, t) /\ Element(id, t) \in ReadElements
  <2>1. Element(id, t) = El(<<id>>, Image(IW, t))
    BY EachParam, Zenon DEF Element, El
  <2>2. El(<<id>>, Image(IW, t)) \in ReadElements
    BY <1>1, <1>5 DEF El, ReadElements
  <2>3. QED
    BY <2>1, <2>2, Zenon
<1> HIDE DEF r0, r1, open, mid, close
<1>12. \A r : \A x, y \in Seq(Symbols) : ReadOn(r, x \o y) = ReadOn(ReadOn(r, x), y) /\ x \o y \in Seq(Symbols)
  BY ReadIs, ConcatProperties
<1> DEFINE om == open \o mid
<1>8. ReadOn(r0, om) = ReadOn(ReadOn(r0, open), mid) /\ om \in Seq(Symbols)
  BY <1>2, <1>12
<1> HIDE DEF om
<1>9. ReadOn(r0, om \o close) = ReadOn(ReadOn(r0, om), close)
  BY <1>2, <1>8, <1>12
<1>10. Characters(FlattenSeq(ElementWrites(id, t))) = (open \o mid) \o close
  BY ElementIsPaired, Zenon DEF open, mid, close
<1>11. QED
  BY <1>3, <1>4, <1>6, <1>7, <1>8, <1>9, <1>10, Zenon DEF In, r0, om

-----------------------------------------------------------------------------
(* How far a message has been written                                      *)

WritesOf(e, s) ==
  CASE s = "header" -> HeaderWrites
    [] s = "system" -> ElementWrites(SYS, e.system)
    [] s = "event"  -> ElementWrites(EVD, e.data)
    [] s = "user"   -> <<<<SP, BOM>>>> \o e.user

Encoded(ws) == [i \in 1 .. Len(ws) |-> Encode(ws[i])]
BytesOf(e, s) == FlattenSeq(Encoded(WritesOf(e, s)))
Mandatory(e) == BytesOf(e, "header") \o BytesOf(e, "system")

TooLong(e, c, b, s) == ~(Len(b) + Len(BytesOf(e, s)) <= c /\ ~Contains(BytesOf(e, s), BAD))

(* Whether b can be the text when section s is reached.                    *)
Precedes(e, c, b, s) ==
  \/ s = "header" /\ b = <<>>
  \/ s = "system" /\ b = BytesOf(e, "header")
  \/ s = "event" /\ b = Mandatory(e)
  \/ s = "user" /\ b = Mandatory(e) /\ (e.data = NULL \/ TooLong(e, c, b, "event"))
  \/ s = "user" /\ e.data # NULL /\ b = Mandatory(e) \o BytesOf(e, "event")

(* Within section s after b: everything up to the next write is there, or  *)
(* something could not be written.                                         *)
Written(e, b, s, t, n) ==
  /\ n \in 1 .. Len(WritesOf(e, s)) + 1
  /\ t = b \o Start(Encoded(WritesOf(e, s)), n - 1)
  /\ \A i \in 1 .. n - 1 : WellFormed(WritesOf(e, s)[i])
Failed(e, c, b, s, t, n, o) ==
  /\ TooLong(e, c, b, s)
  /\ \/ s = "event" /\ n = Len(WritesOf(e, s)) /\ Len(t) = c /\ ~o
     \/ s = "user" /\ n > 1 /\ o

(* A message that is done.                                                 *)
Formatted(e, c, t) ==
  \/ Precedes(e, c, t, "user") /\ (e.user = NULL \/ TooLong(e, c, t, "user"))
  \/ \E k \in 0 .. Len(t) :
       LET b == SubSeq(t, 1, k)
       IN  /\ Precedes(e, c, b, "user") /\ e.user # NULL
           /\ t = b \o BytesOf(e, "user") /\ ~Contains(BytesOf(e, "user"), BAD)

Has(e, s) == (s = "event" => e.data # NULL) /\ (s = "user" => e.user # NULL)

Form(e, c, t, m, s, n, o, r) ==
  /\ e \in Events /\ c \in Capacities
  /\ t \in Seq(Converted) /\ Len(t) <= c
  /\ s \in {"header", "system", "event", "user", "done"}
  /\ n \in Nat \ {0}
  /\ o \in BOOLEAN
  /\ s # "done" =>
       /\ r = NULL
       /\ m = NULL => Precedes(e, c, t, s) /\ n = 1 /\ ~o
       /\ m # NULL => LET b == SubSeq(t, 1, m)
                      IN  /\ m \in 0 .. Len(t) /\ Has(e, s)
                          /\ Precedes(e, c, b, s)
                          /\ (Written(e, b, s, t, n) /\ ~o) \/ Failed(e, c, b, s, t, n, o)
  /\ s = "done" => /\ m = NULL
                   /\ \/ r = TRUE /\ Formatted(e, c, t)
                      \/ r = FALSE /\ Len(Mandatory(e)) > c

FormInv == Form(event, capacity, text, mark, section, next, overflow, result)

LEMMA EncodedIs ==
  ASSUME NEW ws \in Seq(Seq(CodeUnits))
  PROVE  /\ Encoded(ws) \in Seq(Seq(Converted)) /\ Len(ws) \in Nat
         /\ Start(Encoded(ws), 0) = <<>> /\ Start(Encoded(ws), Len(ws)) = FlattenSeq(Encoded(ws))
         /\ \A k \in 0 .. Len(ws) : /\ Start(Encoded(ws), k) \in Seq(Converted)
                                    /\ Len(Start(Encoded(ws), k)) <= Len(FlattenSeq(Encoded(ws)))
         /\ \A k \in 1 .. Len(ws) : /\ Encode(ws[k]) \in Seq(Converted)
                                    /\ Start(Encoded(ws), k) = Start(Encoded(ws), k - 1) \o Encode(ws[k])
         /\ Contains(FlattenSeq(Encoded(ws)), BAD) <=> \E k \in 1 .. Len(ws) : ~WellFormed(ws[k])
<1>1. Len(ws) \in Nat /\ \A k \in 1 .. Len(ws) : Encode(ws[k]) \in Seq(Converted)
  <2>1. \A k \in 1 .. Len(ws) : ws[k] \in Seq(CodeUnits)
    BY ElementOfSeq
  <2>2. \A k \in 1 .. Len(ws) : Encode(ws[k]) \in Seq(Converted)
    BY <2>1, UnitsAre
  <2>3. QED
    BY <2>2, LenProperties
<1>2. /\ Encoded(ws) \in Seq(Seq(Converted)) /\ Len(Encoded(ws)) = Len(ws)
      /\ \A k \in 1 .. Len(ws) : Encoded(ws)[k] = Encode(ws[k])
  BY <1>1 DEF Encoded
<1>3. /\ Start(Encoded(ws), 0) = <<>> /\ Start(Encoded(ws), Len(ws)) = FlattenSeq(Encoded(ws))
      /\ \A k \in 0 .. Len(ws) : /\ Start(Encoded(ws), k) \in Seq(Converted)
                                 /\ Len(Start(Encoded(ws), k)) <= Len(FlattenSeq(Encoded(ws)))
      /\ \A k \in 1 .. Len(ws) : Start(Encoded(ws), k) = Start(Encoded(ws), k - 1) \o Encoded(ws)[k]
  BY <1>2, StartGrows
<1>4. Contains(FlattenSeq(Encoded(ws)), BAD) <=> \E k \in 1 .. Len(ws) : Contains(Encoded(ws)[k], BAD)
  BY <1>2, ContainsFlatten
<1>5. \A k \in 1 .. Len(ws) : Start(Encoded(ws), k) = Start(Encoded(ws), k - 1) \o Encode(ws[k])
  BY <1>2, <1>3, Zenon
<1>6. Contains(FlattenSeq(Encoded(ws)), BAD) <=> \E k \in 1 .. Len(ws) : ~WellFormed(ws[k])
  BY <1>2, <1>4, Zenon DEF WellFormed
<1>7. QED
  BY <1>1, <1>2, <1>3, <1>5, <1>6, Zenon

LEMMA LastWrite ==
  ASSUME NEW xs, ArePaired(xs)
  PROVE  LET ws == xs \o <<<<CLOSE>>>>
         IN  /\ Len(ws) \in Nat \ {0} /\ ws[Len(ws)] = <<CLOSE>>
             /\ Len(Encode(<<CLOSE>>)) \in Nat \ {0}
<1> DEFINE z == <<CLOSE>>
<1>1. xs \in Seq(Seq(CodeUnits)) /\ CLOSE \in BMP
  BY FormatterAssumption DEF ArePaired
<1>2. z \in Seq(CodeUnits) /\ Len(z) = 1 /\ z[1] = CLOSE
  BY <1>1 DEF CodeUnits
<1>8. z \in Seq(CodeUnits) /\ 1 \in 1 .. Len(z) /\ UnitBytes(z) = <<CharBytes(z, 1)>>
  BY <1>2 DEF UnitBytes
<1> HIDE DEF z
<1>9. CharBytes(z, 1) \in Seq(Converted) /\ Encode(z) = FlattenSeq(UnitBytes(z))
  BY <1>8, UnitIsTyped, UnitsAre
<1>3. Encode(z) = CharBytes(z, 1)
  <2>1. FlattenSeq(<<CharBytes(z, 1)>>) = CharBytes(z, 1)
    BY <1>9, FlattenAppend, EmptySeq
  <2>2. QED
    BY <1>8, <1>9, <2>1, Zenon
<1>4. CharBytes(z, 1) = ByteSeq(CLOSE, Width[CLOSE]) /\ Width[CLOSE] \in 1 .. 3
  <2>1. z[1] = CLOSE /\ z[1] \in BMP
    BY <1>1, <1>2
  <2>2. CharBytes(z, 1) = ByteSeq(z[1], Width[z[1]]) /\ Width[z[1]] \in 1 .. 3
    BY <1>8, <2>1, UnitIs
  <2>3. QED
    BY <2>1, <2>2, Zenon
<1>5. Len(Encode(z)) \in Nat \ {0}
  <2> DEFINE w == Width[CLOSE]
  <2>1. w \in 1 .. 3 /\ Encode(z) = ByteSeq(CLOSE, w)
    BY <1>3, <1>4
  <2> HIDE DEF w, z
  <2>2. Len(ByteSeq(CLOSE, w)) = w
    BY <2>1 DEF ByteSeq
  <2>3. QED
    BY <2>1, <2>2
<1>6. Len(xs \o <<z>>) = Len(xs) + 1 /\ (xs \o <<z>>)[Len(xs) + 1] = z /\ Len(xs) \in Nat
  <2> HIDE DEF z
  <2>1. <<z>> \in Seq(Seq(CodeUnits))
    BY <1>2
  <2>2. QED
    BY <1>1, <1>2, <2>1
<1>7. QED
  BY <1>5, <1>6 DEF z

LEMMA HeaderIsPlain ==
  HeaderWrites \in Seq(Seq(BMP)) /\ ArePaired(HeaderWrites)
  /\ Characters(FlattenSeq(HeaderWrites)) = FlattenSeq(HeaderWrites)
<1>1. FIELD \in BMP /\ SP \in BMP
  BY FormatterAssumption
<1> DEFINE f == <<FIELD>>
           p == <<SP>>
<1>2. f \in Seq(BMP) /\ p \in Seq(BMP)
  BY <1>1
<1> HIDE DEF f, p
<1>3. <<f, p, f, p, f, p, f, p, f, p, f>> \in Seq(Seq(BMP))
  BY <1>2
<1>4. HeaderWrites \in Seq(Seq(BMP))
  BY <1>3, Zenon DEF f, p, HeaderWrites
<1>5. QED
  BY <1>4, PlainTexts, Zenon

LEMMA EventsAre ==
  ASSUME NEW e \in Events
  PROVE  /\ e.system \in Seq(Params)
         /\ e.data # NULL => e.data \in Seq(Params)
         /\ e.user # NULL => e.user \in Seq(Seq(CodeUnits))
BY FormatterAssumption, PropertiesAre

LEMMA UserWritesAre ==
  ASSUME NEW u \in Seq(Seq(CodeUnits))
  PROVE  /\ <<<<SP, BOM>>>> \o u \in Seq(Seq(CodeUnits)) /\ Len(<<<<SP, BOM>>>> \o u) = Len(u) + 1
         /\ ArePaired(<<<<SP, BOM>>>>) /\ Characters(FlattenSeq(<<<<SP, BOM>>>>)) = <<SP, BOM>>
         /\ SP \in Symbols /\ BOM \in Symbols
<1>1. SP \in BMP /\ BOM \in BMP
  BY FormatterAssumption
<1>2. <<SP, BOM>> \in Seq(BMP)
  BY <1>1
<1>3. <<<<SP, BOM>>>> \in Seq(Seq(BMP))
  BY <1>2
<1>4. ArePaired(<<<<SP, BOM>>>>) /\ Characters(FlattenSeq(<<<<SP, BOM>>>>)) = FlattenSeq(<<<<SP, BOM>>>>)
  BY <1>3, PlainTexts, Zenon
<1>5. FlattenSeq(<<<<SP, BOM>>>>) = <<SP, BOM>>
  BY <1>2, <1>3, FlattenAppend, Zenon
<1>6. <<<<SP, BOM>>>> \in Seq(Seq(CodeUnits))
  BY <1>4, Zenon DEF ArePaired
<1>7. <<<<SP, BOM>>>> \o u \in Seq(Seq(CodeUnits)) /\ Len(<<<<SP, BOM>>>> \o u) = Len(u) + 1
  <2> DEFINE x == <<SP, BOM>>
             y == <<x>>
  <2>1. y \in Seq(Seq(CodeUnits)) /\ Len(y) = 1
    BY <1>6
  <2> HIDE DEF y
  <2>2. y \o u \in Seq(Seq(CodeUnits)) /\ Len(y \o u) = Len(y) + Len(u) /\ Len(u) \in Nat
    BY <2>1, ConcatProperties, LenProperties
  <2>4. Len(y \o u) = Len(u) + 1
    BY <2>1, <2>2
  <2>3. QED
    BY <2>2, <2>4, Zenon DEF y, x
<1>8. SP \in Symbols /\ BOM \in Symbols
  BY <1>1 DEF Symbols
<1>9. QED
  BY <1>4, <1>5, <1>7, <1>8, Zenon

Sections == {"header", "system", "event", "user"}

LEMMA WritesAre ==
  ASSUME NEW e \in Events, NEW s \in Sections, Has(e, s)
  PROVE  /\ WritesOf(e, s) \in Seq(Seq(CodeUnits)) /\ Len(WritesOf(e, s)) \in Nat \ {0}
         /\ s # "user" => \A k \in 1 .. Len(WritesOf(e, s)) : WellFormed(WritesOf(e, s)[k])
         /\ s # "user" => ArePaired(WritesOf(e, s))
         /\ s = "event" => Len(Encode(WritesOf(e, s)[Len(WritesOf(e, s))])) \in Nat \ {0}
<1>1. CASE s = "header"
  <2>1. WritesOf(e, s) = HeaderWrites /\ ArePaired(HeaderWrites)
    BY <1>1, HeaderIsPlain DEF WritesOf
  <2>2. Len(HeaderWrites) = 11
    BY DEF HeaderWrites
  <2>3. \A k \in 1 .. Len(HeaderWrites) : WellFormed(HeaderWrites[k])
    BY <2>1, WellFormedIsPaired, ElementOfSeq DEF ArePaired
  <2>4. Len(HeaderWrites) \in Nat \ {0} /\ HeaderWrites \in Seq(Seq(CodeUnits))
    BY <2>1, <2>2 DEF ArePaired
  <2>5. s # "event"
    BY <1>1
  <2>6. QED
    BY <2>1, <2>3, <2>4, <2>5, Zenon
<1>2. ASSUME NEW id \in {SYS, EVD}, NEW t \in Seq(Params)
      PROVE  LET ws == ElementWrites(id, t)
             IN  /\ ArePaired(ws) /\ Len(ws) \in Nat \ {0} /\ Len(Encode(ws[Len(ws)])) \in Nat \ {0}
                 /\ \A k \in 1 .. Len(ws) : WellFormed(ws[k])
  <2> DEFINE xs == <<<<OPEN>>, <<id>>>> \o Image(PW, t)
  <2>1. ArePaired(xs) /\ ArePaired(ElementWrites(id, t))
    BY WithoutParams, ParamsArePaired, ArePairedConcat, ElementIsPaired, Zenon
  <2>2. ElementWrites(id, t) = xs \o <<<<CLOSE>>>>
    BY EachParam, Zenon DEF ElementWrites
  <2> HIDE DEF xs
  <2>3. /\ Len(ElementWrites(id, t)) \in Nat \ {0}
        /\ ElementWrites(id, t)[Len(ElementWrites(id, t))] = <<CLOSE>>
        /\ Len(Encode(<<CLOSE>>)) \in Nat \ {0}
    BY <2>1, <2>2, LastWrite, Zenon
  <2>4. \A k \in 1 .. Len(ElementWrites(id, t)) : WellFormed(ElementWrites(id, t)[k])
    BY <2>1, WellFormedIsPaired, ElementOfSeq DEF ArePaired
  <2>5. QED
    BY <2>1, <2>3, <2>4, Zenon
<1>3. CASE s = "system"
  <2>1. WritesOf(e, s) = ElementWrites(SYS, e.system) /\ e.system \in Seq(Params)
    BY <1>3, EventsAre DEF WritesOf
  <2>2. QED
    BY <1>2, <1>3, <2>1, Zenon DEF ArePaired
<1>4. CASE s = "event"
  <2>1. WritesOf(e, s) = ElementWrites(EVD, e.data) /\ e.data \in Seq(Params)
    BY <1>4, EventsAre DEF WritesOf, Has
  <2>2. QED
    BY <1>2, <1>4, <2>1, Zenon DEF ArePaired
<1>5. CASE s = "user"
  <2>1. WritesOf(e, s) = <<<<SP, BOM>>>> \o e.user /\ e.user \in Seq(Seq(CodeUnits))
    BY <1>5, EventsAre DEF WritesOf, Has
  <2>2. WritesOf(e, s) \in Seq(Seq(CodeUnits)) /\ Len(WritesOf(e, s)) = Len(e.user) + 1
    BY <2>1, UserWritesAre, Zenon
  <2>3. QED
    BY <1>5, <2>1, <2>2
<1>6. QED
  BY <1>1, <1>3, <1>4, <1>5 DEF Sections

LEMMA Prefix ==
  ASSUME NEW S, NEW x \in Seq(S), NEW y \in Seq(S), NEW m \in 0 .. Len(x)
  PROVE  /\ SubSeq(x \o y, 1, m) = SubSeq(x, 1, m)
         /\ SubSeq(x, 1, m) \in Seq(S) /\ Len(SubSeq(x, 1, m)) = m
         /\ SubSeq(x, 1, Len(x)) = x /\ SubSeq(x, 1, 0) = <<>>
         /\ x \o y \in Seq(S) /\ Len(x \o y) = Len(x) + Len(y)
<1>1. SubSeq(x, 1, m) \in Seq(S) /\ Len(SubSeq(x, 1, m)) = m /\ \A i \in 1 .. m : SubSeq(x, 1, m)[i] = x[i]
  BY SubSeqProperties
<1>2. x \o y \in Seq(S) /\ Len(x \o y) = Len(x) + Len(y) /\ \A i \in 1 .. Len(x) : (x \o y)[i] = x[i]
  BY ConcatProperties
<1>3. /\ SubSeq(x \o y, 1, m) \in Seq(S) /\ Len(SubSeq(x \o y, 1, m)) = m
      /\ \A i \in 1 .. m : SubSeq(x \o y, 1, m)[i] = (x \o y)[i]
  BY <1>2, SubSeqProperties
<1>4. SubSeq(x \o y, 1, m) = SubSeq(x, 1, m)
  BY <1>1, <1>2, <1>3, SeqEqual
<1>5. SubSeq(x, 1, Len(x)) = x
  <2>1. /\ SubSeq(x, 1, Len(x)) \in Seq(S) /\ Len(SubSeq(x, 1, Len(x))) = Len(x)
        /\ \A i \in 1 .. Len(x) : SubSeq(x, 1, Len(x))[i] = x[i]
    BY SubSeqProperties
  <2>2. QED
    BY <2>1, SeqEqual
<1>6. SubSeq(x, 1, 0) = <<>>
  <2>1. SubSeq(x, 1, 0) \in Seq(S) /\ Len(SubSeq(x, 1, 0)) = 0
    BY SubSeqProperties
  <2>2. QED
    BY <2>1, EmptySeq
<1>7. QED
  BY <1>1, <1>2, <1>4, <1>5, <1>6

(***************************************************************************)
(* How far a section has been written: a write that succeeds adds to it,   *)
(* one that fails shows that the section does not fit, and after the last  *)
(* one the section is there.                                               *)
(***************************************************************************)
LEMMA WritesGoOn ==
  ASSUME NEW e \in Events, NEW s \in Sections, Has(e, s), NEW c \in Nat,
         NEW b \in Seq(Converted), NEW t \in Seq(Converted), NEW n, Written(e, b, s, t, n)
  PROVE  LET ws == WritesOf(e, s)
         IN  /\ n \in Nat \ {0} /\ Len(ws) \in Nat
             /\ n <= Len(ws) => Encode(ws[n]) \in Seq(Converted)
             /\ n <= Len(ws) /\ WellFormed(ws[n]) => Written(e, b, s, t \o Encode(ws[n]), n + 1)
             /\ n <= Len(ws) /\ ~(WellFormed(ws[n]) /\ Len(t) + Len(Encode(ws[n])) <= c) => TooLong(e, c, b, s)
             /\ n > Len(ws) => t = b \o BytesOf(e, s) /\ ~Contains(BytesOf(e, s), BAD)
<1> DEFINE ws == WritesOf(e, s)
           x == Encoded(ws)
           w == Encode(ws[n])
<1>1. ws \in Seq(Seq(CodeUnits))
  BY WritesAre
<1> HIDE DEF ws
<1>2. /\ Len(ws) \in Nat
      /\ Start(x, 0) = <<>> /\ Start(x, Len(ws)) = FlattenSeq(x)
      /\ \A k \in 0 .. Len(ws) : Start(x, k) \in Seq(Converted) /\ Len(Start(x, k)) <= Len(FlattenSeq(x))
      /\ \A k \in 1 .. Len(ws) : Encode(ws[k]) \in Seq(Converted) /\ Start(x, k) = Start(x, k - 1) \o Encode(ws[k])
      /\ Contains(FlattenSeq(x), BAD) <=> \E k \in 1 .. Len(ws) : ~WellFormed(ws[k])
  BY <1>1, EncodedIs
<1>3. /\ n \in 1 .. Len(ws) + 1 /\ t = b \o Start(x, n - 1)
      /\ \A i \in 1 .. n - 1 : WellFormed(ws[i])
  BY DEF Written, ws
<1>4. BytesOf(e, s) = FlattenSeq(x)
  BY DEF BytesOf, ws
<1> HIDE DEF x
<1>5. n \in Nat \ {0} /\ n - 1 \in 0 .. Len(ws)
  BY <1>2, <1>3
<1>6. ASSUME n <= Len(ws)
      PROVE  /\ w \in Seq(Converted) /\ Start(x, n - 1) \in Seq(Converted)
             /\ Start(x, n) = Start(x, n - 1) \o w
             /\ Len(t) + Len(w) = Len(b) + Len(Start(x, n)) /\ Len(Start(x, n)) <= Len(FlattenSeq(x))
             /\ t \o w = b \o Start(x, n)
  <2>1. n \in 1 .. Len(ws) /\ n \in 0 .. Len(ws)
    BY <1>2, <1>5, <1>6
  <2>2. /\ w \in Seq(Converted) /\ Start(x, n - 1) \in Seq(Converted)
        /\ Start(x, n) = Start(x, n - 1) \o w /\ Len(Start(x, n)) <= Len(FlattenSeq(x))
    BY <1>2, <1>5, <2>1
  <2> DEFINE y == Start(x, n - 1)
             z == Start(x, n)
  <2> HIDE DEF w, y, z
  <2>3. y \in Seq(Converted) /\ w \in Seq(Converted) /\ z = y \o w /\ t = b \o y
    BY <1>3, <2>2 DEF y, z
  <2>4. b \o z = (b \o y) \o w
    BY <2>3, Associated
  <2>5. Len(t) = Len(b) + Len(y) /\ Len(z) = Len(y) + Len(w)
    BY <2>3, ConcatProperties
  <2>6. Len(t) + Len(w) = Len(b) + Len(z)
    BY <2>3, <2>5
  <2>7. QED
    BY <2>2, <2>3, <2>4, <2>6, Zenon DEF y, z
<1>7. ASSUME n <= Len(ws), WellFormed(ws[n])
      PROVE  Written(e, b, s, t \o w, n + 1)
  <2>1. t \o w = b \o Start(x, n)
    BY <1>6, <1>7
  <2>2. (n + 1) - 1 = n /\ n + 1 \in 1 .. Len(ws) + 1
    BY <1>2, <1>5, <1>7
  <2>3. \A i \in 1 .. n : WellFormed(ws[i])
    <3>1. \A i \in 1 .. n : i \in 1 .. n - 1 \/ i = n
      BY <1>5
    <3>2. QED
      BY <1>3, <1>7, <3>1, Zenon
  <2>4. QED
    BY <2>1, <2>2, <2>3, Zenon DEF Written, ws, x
<1>8. ASSUME n <= Len(ws), ~(WellFormed(ws[n]) /\ Len(t) + Len(w) <= c)
      PROVE  TooLong(e, c, b, s)
  <2>1. CASE ~WellFormed(ws[n])
    <3>1. n \in 1 .. Len(ws)
      BY <1>2, <1>5, <1>8
    <3>2. Contains(BytesOf(e, s), BAD)
      BY <1>2, <1>4, <2>1, <3>1
    <3>3. QED
      BY <3>2 DEF TooLong
  <2>2. CASE ~(Len(t) + Len(w) <= c)
    <3>1. /\ Len(t) + Len(w) = Len(b) + Len(Start(x, n)) /\ Len(Start(x, n)) <= Len(FlattenSeq(x))
          /\ Start(x, n) \in Seq(Converted) /\ FlattenSeq(x) \in Seq(Converted)
      BY <1>2, <1>5, <1>6, <1>8
    <3>2. Len(Start(x, n)) \in Nat /\ Len(FlattenSeq(x)) \in Nat /\ Len(b) \in Nat
      BY <3>1, LenProperties
    <3>3. ~(Len(b) + Len(FlattenSeq(x)) <= c)
      BY <2>2, <3>1, <3>2
    <3>4. QED
      BY <1>4, <3>3 DEF TooLong
  <2>3. QED
    BY <1>8, <2>1, <2>2
<1>9. ASSUME n > Len(ws)
      PROVE  t = b \o BytesOf(e, s) /\ ~Contains(BytesOf(e, s), BAD)
  <2>1. n - 1 = Len(ws)
    BY <1>2, <1>3, <1>9
  <2>2. t = b \o FlattenSeq(x)
    BY <1>2, <1>3, <2>1, Zenon
  <2>3. ~Contains(FlattenSeq(x), BAD)
    BY <1>2, <1>3, <2>1, Zenon
  <2>4. QED
    BY <1>4, <2>2, <2>3, Zenon
<1>10. QED
  BY <1>2, <1>5, <1>6, <1>7, <1>8, <1>9, Zenon DEF ws, w

LEMMA WritesBegin ==
  ASSUME NEW e \in Events, NEW s \in Sections, Has(e, s), NEW b \in Seq(Converted)
  PROVE  Written(e, b, s, b, 1)
<1> DEFINE ws == WritesOf(e, s)
<1>1. ws \in Seq(Seq(CodeUnits))
  BY WritesAre
<1> HIDE DEF ws
<1>2. Len(ws) \in Nat /\ Start(Encoded(ws), 0) = <<>>
  BY <1>1, EncodedIs
<1>3. b \o <<>> = b
  BY ConcatEmptySeq
<1>4. 1 \in 1 .. Len(ws) + 1 /\ 1 - 1 = 0 /\ ~\E i \in 1 .. 1 - 1 : TRUE
  BY <1>2
<1>5. QED
  BY <1>2, <1>3, <1>4, Zenon DEF Written, ws

LEMMA Within ==
  ASSUME FormInv, InSection
  PROVE  LET b == SubSeq(text, 1, mark)
         IN  /\ event \in Events /\ capacity \in Nat /\ section \in Sections /\ Has(event, section)
             /\ text \in Seq(Converted) /\ Len(text) <= capacity /\ Len(text) \in Nat
             /\ b \in Seq(Converted) /\ Len(b) = mark /\ mark \in 0 .. Len(text) /\ mark # NULL
             /\ Precedes(event, capacity, b, section)
             /\ \/ Written(event, b, section, text, next) /\ ~overflow
                \/ Failed(event, capacity, b, section, text, next, overflow)
             /\ Writes(section) = WritesOf(event, section)
             /\ result = NULL
<1>1. /\ event \in Events /\ capacity \in Capacities /\ text \in Seq(Converted) /\ Len(text) <= capacity
      /\ section \in {"header", "system", "event", "user", "done"}
      /\ section # "done" /\ mark # NULL
  BY DEF FormInv, Form, InSection, Running
<1>2. /\ result = NULL /\ mark \in 0 .. Len(text) /\ Has(event, section)
      /\ Precedes(event, capacity, SubSeq(text, 1, mark), section)
      /\ \/ Written(event, SubSeq(text, 1, mark), section, text, next) /\ ~overflow
         \/ Failed(event, capacity, SubSeq(text, 1, mark), section, text, next, overflow)
  BY <1>1, Zenon DEF FormInv, Form
<1>3. SubSeq(text, 1, mark) \in Seq(Converted) /\ Len(SubSeq(text, 1, mark)) = mark
  BY <1>1, <1>2, Prefix
<1>4. capacity \in Nat /\ Len(text) \in Nat
  BY <1>1, FormatterAssumption, LenProperties
<1>5. Writes(section) = WritesOf(event, section)
  BY Zenon DEF Writes, WritesOf
<1>6. section \in Sections
  BY <1>1 DEF Sections
<1>7. QED
  BY <1>1, <1>2, <1>3, <1>4, <1>5, <1>6, Zenon

(* What a write that fails leaves.                                         *)
LEMMA PartIs ==
  ASSUME FormInv, HasWrite, WritePart
  PROVE  /\ text' \in Seq(Converted) /\ Len(text') <= capacity
         /\ SubSeq(text', 1, mark) = SubSeq(text, 1, mark) /\ mark \in 0 .. Len(text')
         /\ WellFormed(Write) => Len(text') = capacity
<1> DEFINE ws == WritesOf(event, section)
           w == Encode(ws[next])
<1>1. /\ event \in Events /\ capacity \in Nat /\ section \in Sections /\ Has(event, section)
      /\ text \in Seq(Converted) /\ Len(text) \in Nat /\ mark \in 0 .. Len(text)
      /\ Writes(section) = ws
  BY Within DEF HasWrite
<1>2. ws \in Seq(Seq(CodeUnits)) /\ Write = ws[next]
  BY <1>1, WritesAre DEF Write
<1>3. next \in Nat \ {0} /\ next <= Len(ws)
  BY <1>1 DEF HasWrite, FormInv, Form
<1> HIDE DEF ws
<1>4. w \in Seq(Converted)
  <2>1. next \in 1 .. Len(ws)
    BY <1>2, <1>3, LenProperties
  <2>2. QED
    BY <1>2, <2>1, EncodedIs
<1>5. PICK n \in 0 .. Len(w) : /\ Len(text) + n = capacity \/ (~WellFormed(Write) /\ Len(text) + n < capacity)
                               /\ text' = text \o SubSeq(w, 1, n)
  BY <1>2 DEF WritePart
<1> HIDE DEF w
<1> DEFINE y == SubSeq(w, 1, n)
<1>6. y \in Seq(Converted) /\ Len(y) = n
  BY <1>4, Prefix
<1> HIDE DEF y
<1>7. text' = text \o y
  BY <1>5 DEF y
<1>8. /\ SubSeq(text \o y, 1, mark) = SubSeq(text, 1, mark)
      /\ text \o y \in Seq(Converted) /\ Len(text \o y) = Len(text) + Len(y)
  BY <1>1, <1>6, Prefix
<1>9. n \in Nat
  BY <1>4, <1>5, LenProperties
<1> DEFINE t == text \o y
<1>10. /\ t \in Seq(Converted) /\ Len(t) = Len(text) + n /\ SubSeq(t, 1, mark) = SubSeq(text, 1, mark)
       /\ text' = t
  BY <1>6, <1>7, <1>8, Zenon
<1> HIDE DEF t
<1>11. Len(t) <= capacity /\ mark \in 0 .. Len(t) /\ (WellFormed(Write) => Len(t) = capacity)
  BY <1>1, <1>5, <1>9, <1>10
<1>12. QED
  BY <1>10, <1>11, Zenon

LEMMA SkipKeeps ==
  ASSUME FormInv, Skip
  PROVE  FormInv'
<1>1. /\ event' = event /\ capacity' = capacity /\ text' = text /\ mark' = NULL /\ overflow' = overflow
      /\ mark = NULL /\ section \in {"event", "user"}
  BY DEF Skip, IsMissing, args
<1>2. /\ event \in Events /\ capacity \in Capacities
      /\ text \in Seq(Converted) /\ Len(text) <= capacity
      /\ result = NULL /\ Precedes(event, capacity, text, section) /\ next = 1 /\ ~overflow /\ overflow \in BOOLEAN
  BY <1>1 DEF FormInv, Form
<1>3. CASE section = "event"
  <2>1. section' = "user" /\ next' = 1 /\ result' = NULL /\ event.data = NULL
    BY <1>2, <1>3 DEF Skip, IsMissing, Enter
  <2>2. Precedes(event, capacity, text, "user")
    BY <1>2, <1>3, <2>1 DEF Precedes
  <2>3. QED
    BY <1>1, <1>2, <2>1, <2>2 DEF FormInv, Form
<1>4. CASE section = "user"
  <2>1. section' = "done" /\ next' = 1 /\ result' = TRUE /\ event.user = NULL
    BY <1>2, <1>4 DEF Skip, IsMissing, Return
  <2>2. Formatted(event, capacity, text)
    BY <1>2, <1>4, <2>1 DEF Formatted
  <2>3. QED
    BY <1>1, <1>2, <2>1, <2>2 DEF FormInv, Form
<1>5. QED
  BY <1>1, <1>3, <1>4

LEMMA BeginKeeps ==
  ASSUME FormInv, Begin
  PROVE  FormInv'
<1>1. /\ event' = event /\ capacity' = capacity /\ text' = text /\ mark' = Len(text) /\ overflow' = overflow
      /\ section' = section /\ next' = next /\ result' = result
      /\ mark = NULL /\ section # "done" /\ ~IsMissing
  BY DEF Begin, Running, args
<1>2. /\ event \in Events /\ capacity \in Capacities
      /\ text \in Seq(Converted) /\ Len(text) <= capacity
      /\ section \in Sections
      /\ result = NULL /\ Precedes(event, capacity, text, section) /\ next = 1 /\ ~overflow /\ overflow \in BOOLEAN
  BY <1>1 DEF FormInv, Form, Sections
<1>3. Has(event, section)
  BY <1>1 DEF IsMissing, Has
<1>4. Written(event, text, section, text, 1)
  BY <1>2, <1>3, WritesBegin
<1>5. SubSeq(text, 1, Len(text)) = text /\ Len(text) \in 0 .. Len(text) /\ Len(text) \in Nat
  <2>1. Len(text) \in Nat /\ Len(text) \in 0 .. Len(text)
    BY <1>2, LenProperties
  <2>2. QED
    BY <1>2, <2>1, Prefix
<1>6. Len(text) # NULL
  BY <1>5, FormatterAssumption
<1>7. QED
  BY <1>1, <1>2, <1>3, <1>4, <1>5, <1>6 DEF FormInv, Form, Sections

LEMMA WriteAllKeeps ==
  ASSUME FormInv, WriteAll
  PROVE  FormInv'
<1> DEFINE b == SubSeq(text, 1, mark)
           ws == WritesOf(event, section)
           w == Encode(ws[next])
<1>1. /\ event \in Events /\ capacity \in Nat /\ section \in Sections /\ Has(event, section)
      /\ text \in Seq(Converted) /\ Len(text) \in Nat /\ mark \in 0 .. Len(text) /\ mark # NULL
      /\ b \in Seq(Converted) /\ Precedes(event, capacity, b, section)
      /\ \/ Written(event, b, section, text, next) /\ ~overflow
         \/ Failed(event, capacity, b, section, text, next, overflow)
      /\ Writes(section) = ws /\ result = NULL
  BY Within DEF WriteAll, HasWrite
<1>2. /\ event' = event /\ capacity' = capacity /\ text' = text \o w /\ mark' = mark /\ overflow' = overflow
      /\ section' = section /\ next' = next + 1 /\ result' = result
      /\ next <= Len(ws) /\ WellFormed(ws[next]) /\ Len(text) + Len(w) <= capacity
      /\ ~(section = "user" /\ next > 1) /\ section # "done"
  BY <1>1 DEF WriteAll, HasWrite, InSection, Running, Succeeds, Write, InXml, args
<1>3. capacity \in Capacities /\ overflow \in BOOLEAN /\ next \in Nat \ {0}
  BY DEF FormInv, Form
<1>4. ~Failed(event, capacity, b, section, text, next, overflow)
  <2>1. section = "event" /\ next = Len(ws) => Len(w) \in Nat \ {0}
    BY <1>1, WritesAre, Zenon
  <2> HIDE DEF w
  <2>2. QED
    BY <1>1, <1>2, <2>1 DEF Failed
<1>5. Written(event, b, section, text, next) /\ ~overflow
  BY <1>1, <1>4
<1> HIDE DEF b
<1>6. w \in Seq(Converted) /\ Written(event, b, section, text \o w, next + 1)
  BY <1>1, <1>2, <1>5, WritesGoOn
<1> HIDE DEF ws, w
<1>7. SubSeq(text \o w, 1, mark) = b /\ text \o w \in Seq(Converted) /\ Len(text \o w) = Len(text) + Len(w)
  BY <1>1, <1>6, Prefix DEF b
<1>8. Len(w) \in Nat
  BY <1>6, LenProperties
<1>9. Len(text \o w) <= capacity /\ mark \in 0 .. Len(text \o w) /\ next + 1 \in Nat \ {0}
  BY <1>1, <1>2, <1>3, <1>7, <1>8
<1> DEFINE t == text \o w
<1> HIDE DEF t
<1>10. Form(event, capacity, t, mark, section, next + 1, overflow, result)
  BY <1>1, <1>2, <1>3, <1>5, <1>6, <1>7, <1>9 DEF Form, Sections, t
<1>11. QED
  BY <1>2, <1>10, Zenon DEF FormInv, t

LEMMA ParamFailsKeeps ==
  ASSUME FormInv, ParamFails
  PROVE  FormInv'
<1> DEFINE b == SubSeq(text, 1, mark)
           ws == WritesOf(event, section)
<1>1. /\ event \in Events /\ capacity \in Nat /\ section \in Sections /\ Has(event, section)
      /\ text \in Seq(Converted) /\ Len(text) \in Nat /\ mark \in 0 .. Len(text) /\ mark # NULL
      /\ b \in Seq(Converted) /\ Precedes(event, capacity, b, section)
      /\ \/ Written(event, b, section, text, next) /\ ~overflow
         \/ Failed(event, capacity, b, section, text, next, overflow)
      /\ Writes(section) = ws /\ result = NULL
  BY Within DEF ParamFails, HasWrite
<1>2. /\ event' = event /\ capacity' = capacity /\ mark' = mark /\ overflow' = overflow
      /\ section' = section /\ next' = Len(ws) /\ result' = result
      /\ next <= Len(ws) /\ ~(WellFormed(ws[next]) /\ Len(text) + Len(Encode(ws[next])) <= capacity)
      /\ section = "event" /\ next < Len(ws) /\ Write = ws[next]
  BY <1>1 DEF ParamFails, HasWrite, Succeeds, Write, InParams, args
<1>3. capacity \in Capacities /\ overflow \in BOOLEAN /\ next \in Nat \ {0}
  BY DEF FormInv, Form
<1>4. Len(ws) \in Nat \ {0} /\ WellFormed(Write)
  <2>1. ws \in Seq(Seq(CodeUnits)) /\ Len(ws) \in Nat \ {0} /\ \A k \in 1 .. Len(ws) : WellFormed(ws[k])
    BY <1>1, <1>2, WritesAre
  <2> HIDE DEF ws
  <2>2. next \in 1 .. Len(ws)
    BY <1>2, <1>3, <2>1
  <2>3. QED
    BY <1>2, <2>1, <2>2
<1>5. Written(event, b, section, text, next) /\ ~overflow
  <2>1. ~Failed(event, capacity, b, section, text, next, overflow)
    <3> HIDE DEF b
    <3>1. next # Len(ws)
      BY <1>2, <1>3
    <3>2. QED
      BY <1>2, <3>1 DEF Failed
  <2>2. QED
    BY <1>1, <2>1
<1>6. TooLong(event, capacity, b, section)
  <2> HIDE DEF b
  <2>1. QED
    BY <1>1, <1>2, <1>5, WritesGoOn
<1>7. /\ text' \in Seq(Converted) /\ Len(text') <= capacity /\ SubSeq(text', 1, mark) = b
      /\ mark \in 0 .. Len(text') /\ Len(text') = capacity
  BY <1>4, PartIs, Zenon DEF ParamFails
<1> HIDE DEF b
<1>8. Failed(event, capacity, b, section, text', next', overflow)
  BY <1>2, <1>5, <1>6, <1>7 DEF Failed
<1>9. QED
  BY <1>1, <1>2, <1>3, <1>4, <1>7, <1>8 DEF FormInv, Form, Sections

LEMMA XmlWriteKeeps ==
  ASSUME FormInv, XmlWrite
  PROVE  FormInv'
<1> DEFINE b == SubSeq(text, 1, mark)
           ws == WritesOf(event, section)
           w == Encode(ws[next])
           ok == WellFormed(ws[next]) /\ Len(text) + Len(w) <= capacity
<1>1. /\ event \in Events /\ capacity \in Nat /\ section \in Sections /\ Has(event, section)
      /\ text \in Seq(Converted) /\ Len(text) \in Nat /\ mark \in 0 .. Len(text) /\ mark # NULL
      /\ b \in Seq(Converted) /\ Precedes(event, capacity, b, section)
      /\ \/ Written(event, b, section, text, next) /\ ~overflow
         \/ Failed(event, capacity, b, section, text, next, overflow)
      /\ Writes(section) = ws /\ result = NULL
  BY Within DEF XmlWrite, HasWrite
<1>2. /\ event' = event /\ capacity' = capacity /\ mark' = mark /\ (overflow' <=> overflow \/ ~ok)
      /\ overflow' \in BOOLEAN
      /\ section' = section /\ next' = next + 1 /\ result' = result
      /\ next <= Len(ws) /\ section = "user" /\ next > 1
      /\ HasWrite /\ (IF ok THEN text' = text \o w ELSE WritePart)
  BY <1>1 DEF XmlWrite, HasWrite, Succeeds, Write, InXml, args, Overflow, FormInv, Form
<1>3. capacity \in Capacities /\ next \in Nat \ {0} /\ next + 1 \in Nat \ {0} /\ next + 1 > 1
  BY <1>2 DEF FormInv, Form
<1>4. next \in 1 .. Len(ws) /\ w \in Seq(Converted)
  <2>1. ws \in Seq(Seq(CodeUnits))
    BY <1>1, WritesAre
  <2> HIDE DEF ws
  <2>2. next \in 1 .. Len(ws)
    BY <1>2, <1>3, <2>1, LenProperties
  <2>3. QED
    BY <2>1, <2>2, EncodedIs
<1>5. /\ text' \in Seq(Converted) /\ Len(text') <= capacity
      /\ SubSeq(text', 1, mark) = b /\ mark \in 0 .. Len(text')
  <2>1. CASE ok
    <3> HIDE DEF b, w
    <3>1. SubSeq(text \o w, 1, mark) = b /\ text \o w \in Seq(Converted) /\ Len(text \o w) = Len(text) + Len(w)
      BY <1>1, <1>4, Prefix DEF b
    <3>2. Len(w) \in Nat
      BY <1>4, LenProperties
    <3>3. text' = text \o w
      BY <1>2, <2>1, Zenon
    <3>4. Len(text \o w) <= capacity /\ mark \in 0 .. Len(text \o w)
      BY <1>1, <2>1, <3>1, <3>2
    <3>5. QED
      BY <3>1, <3>3, <3>4, Zenon
  <2>2. CASE ~ok
    <3>1. WritePart
      BY <1>2, <2>2, Zenon
    <3>2. QED
      BY <1>2, <3>1, PartIs, Zenon
  <2>3. QED
    BY <2>1, <2>2, Zenon
<1>6. \/ Written(event, b, section, text', next') /\ ~overflow'
      \/ Failed(event, capacity, b, section, text', next', overflow')
  <2>1. CASE Failed(event, capacity, b, section, text, next, overflow)
    <3>1. TooLong(event, capacity, b, section) /\ overflow
      BY <1>2, <2>1 DEF Failed
    <3> HIDE DEF b, ok
    <3>2. Failed(event, capacity, b, section, text', next', overflow')
      BY <1>2, <1>3, <3>1 DEF Failed
    <3>3. QED
      BY <3>2
  <2>2. CASE Written(event, b, section, text, next) /\ ~overflow /\ ok
    <3>1. text' = text \o w
      BY <1>2, <2>2, Zenon
    <3> HIDE DEF b
    <3>2. Written(event, b, section, text \o w, next + 1)
      BY <1>1, <1>2, <2>2, WritesGoOn
    <3>3. ~overflow'
      BY <1>2, <2>2, Zenon
    <3>4. QED
      BY <1>2, <3>1, <3>2, <3>3, Zenon
  <2>3. CASE Written(event, b, section, text, next) /\ ~overflow /\ ~ok
    <3> HIDE DEF b
    <3>1. TooLong(event, capacity, b, section)
      BY <1>1, <1>2, <2>3, WritesGoOn
    <3>2. overflow'
      BY <1>2, <2>3, Zenon
    <3> HIDE DEF ok
    <3>3. Failed(event, capacity, b, section, text', next', overflow')
      BY <1>2, <1>3, <3>1, <3>2 DEF Failed
    <3>4. QED
      BY <3>3
  <2>4. QED
    BY <1>1, <2>1, <2>2, <2>3, Zenon
<1> HIDE DEF b, ok, w, ws
<1>7. b = SubSeq(text', 1, mark)
  BY <1>5
<1>8. Form(event, capacity, text', mark, section, next', overflow', result)
  BY <1>1, <1>2, <1>3, <1>5, <1>6, <1>7 DEF Form
<1>9. QED
  BY <1>2, <1>8, Zenon DEF FormInv

LEMMA BytesAre ==
  ASSUME NEW e \in Events
  PROVE  /\ \A s \in Sections : Has(e, s) => /\ BytesOf(e, s) \in Seq(Converted)
                                             /\ s # "user" => ~Contains(BytesOf(e, s), BAD)
         /\ Mandatory(e) \in Seq(Converted)
         /\ Len(Mandatory(e)) = Len(BytesOf(e, "header")) + Len(BytesOf(e, "system"))
<1>1. ASSUME NEW s \in Sections, Has(e, s)
      PROVE  /\ BytesOf(e, s) \in Seq(Converted)
             /\ s # "user" => ~Contains(BytesOf(e, s), BAD)
  <2> DEFINE ws == WritesOf(e, s)
  <2>1. ws \in Seq(Seq(CodeUnits)) /\ (s # "user" => \A k \in 1 .. Len(ws) : WellFormed(ws[k]))
    BY <1>1, WritesAre
  <2> HIDE DEF ws
  <2>2. Start(Encoded(ws), Len(ws)) \in Seq(Converted) /\ Start(Encoded(ws), Len(ws)) = FlattenSeq(Encoded(ws))
    <3>1. Len(ws) \in 0 .. Len(ws)
      BY <2>1, LenProperties
    <3>2. QED
      BY <2>1, <3>1, EncodedIs
  <2>3. s # "user" => ~Contains(FlattenSeq(Encoded(ws)), BAD)
    BY <2>1, EncodedIs
  <2>4. QED
    BY <2>2, <2>3, Zenon DEF BytesOf, ws
<1>2. "header" \in Sections /\ "system" \in Sections /\ Has(e, "header") /\ Has(e, "system")
  BY DEF Sections, Has
<1>3. BytesOf(e, "header") \in Seq(Converted) /\ BytesOf(e, "system") \in Seq(Converted)
  BY <1>1, <1>2
<1>4. /\ Mandatory(e) \in Seq(Converted)
      /\ Len(Mandatory(e)) = Len(BytesOf(e, "header")) + Len(BytesOf(e, "system"))
  BY <1>3, ConcatProperties DEF Mandatory
<1>5. QED
  BY <1>1, <1>4, Zenon

(***************************************************************************)
(* A section is rolled back only if it does not fit; what the builder then *)
(* holds is what preceded it.                                              *)
(***************************************************************************)
LEMMA RollbackKeeps ==
  ASSUME FormInv, InSection, Rollback, TooLong(event, capacity, SubSeq(text, 1, mark), section)
  PROVE  FormInv'
<1> DEFINE b == SubSeq(text, 1, mark)
<1>1. /\ event \in Events /\ capacity \in Nat /\ section \in Sections /\ Has(event, section)
      /\ b \in Seq(Converted) /\ Len(b) = mark /\ mark \in 0 .. Len(text)
      /\ Len(text) <= capacity /\ Len(text) \in Nat
      /\ Precedes(event, capacity, b, section) /\ result = NULL
      /\ \/ Written(event, b, section, text, next) /\ ~overflow
         \/ Failed(event, capacity, b, section, text, next, overflow)
      /\ TooLong(event, capacity, b, section)
  BY Within
<1>2. /\ event' = event /\ capacity' = capacity /\ mark' = NULL /\ overflow' = overflow /\ text' = b
  BY DEF Rollback, args
<1>3. capacity \in Capacities /\ next \in Nat \ {0} /\ overflow \in BOOLEAN
  BY DEF FormInv, Form
<1> HIDE DEF b
<1>4. Len(b) <= capacity
  BY <1>1
<1>5. CASE section \in {"header", "system"}
  <2>1. section' = "done" /\ result' = FALSE /\ next' = next
    BY <1>5 DEF Rollback, Return
  <2>2. Len(Mandatory(event)) > capacity
    <3>1. /\ BytesOf(event, section) \in Seq(Converted) /\ ~Contains(BytesOf(event, section), BAD)
          /\ Len(Mandatory(event)) = Len(BytesOf(event, "header")) + Len(BytesOf(event, "system"))
      BY <1>1, <1>5, BytesAre
    <3>2. ~(Len(b) + Len(BytesOf(event, section)) <= capacity)
      BY <1>1, <3>1 DEF TooLong
    <3>3. BytesOf(event, "header") \in Seq(Converted) /\ BytesOf(event, "system") \in Seq(Converted)
      BY <1>1, BytesAre DEF Sections, Has
    <3>4. Len(BytesOf(event, "header")) \in Nat /\ Len(BytesOf(event, "system")) \in Nat
      BY <3>3, LenProperties
    <3>5. CASE section = "header"
      <4>1. b = <<>>
        BY <1>1, <3>5 DEF Precedes
      <4>2. ~(Len(BytesOf(event, "header")) <= capacity)
        BY <3>2, <3>4, <3>5, <4>1
      <4>3. QED
        BY <1>1, <3>1, <3>4, <4>2
    <3>6. CASE section = "system"
      <4>1. b = BytesOf(event, "header")
        BY <1>1, <3>6 DEF Precedes
      <4>2. ~(Len(BytesOf(event, "header")) + Len(BytesOf(event, "system")) <= capacity)
        BY <3>2, <3>6, <4>1
      <4>3. QED
        BY <1>1, <3>1, <3>4, <4>2
    <3>7. QED
      BY <1>5, <3>5, <3>6
  <2>3. QED
    BY <1>1, <1>2, <1>3, <1>4, <2>1, <2>2 DEF FormInv, Form
<1>6. CASE section = "event"
  <2>1. section' = "user" /\ result' = NULL /\ next' = 1
    BY <1>1, <1>6 DEF Rollback, GoOn, Enter
  <2>2. Precedes(event, capacity, b, "user")
    BY <1>1, <1>6 DEF Precedes
  <2>3. ~overflow
    BY <1>1, <1>6 DEF Failed
  <2>4. QED
    BY <1>1, <1>2, <1>3, <1>4, <2>1, <2>2, <2>3 DEF FormInv, Form
<1>7. CASE section = "user"
  <2>1. section' = "done" /\ result' = TRUE /\ next' = next
    BY <1>7 DEF Rollback, Return
  <2>2. Formatted(event, capacity, b)
    BY <1>1, <1>7 DEF Formatted
  <2>3. QED
    BY <1>1, <1>2, <1>3, <1>4, <2>1, <2>2 DEF FormInv, Form
<1>8. QED
  BY <1>1, <1>5, <1>6, <1>7 DEF Sections

LEMMA WriteFailsKeeps ==
  ASSUME FormInv, WriteFails
  PROVE  FormInv'
<1> DEFINE b == SubSeq(text, 1, mark)
           ws == WritesOf(event, section)
<1>1. /\ event \in Events /\ capacity \in Nat /\ section \in Sections /\ Has(event, section)
      /\ text \in Seq(Converted) /\ b \in Seq(Converted)
      /\ \/ Written(event, b, section, text, next) /\ ~overflow
         \/ Failed(event, capacity, b, section, text, next, overflow)
      /\ Writes(section) = ws
  BY Within DEF WriteFails, HasWrite
<1>2. next <= Len(ws) /\ ~(WellFormed(ws[next]) /\ Len(text) + Len(Encode(ws[next])) <= capacity)
  BY <1>1 DEF WriteFails, HasWrite, Succeeds, Write
<1>3. TooLong(event, capacity, b, section)
  <2>1. CASE Written(event, b, section, text, next)
    <3> HIDE DEF b
    <3>1. QED
      BY <1>1, <1>2, <2>1, WritesGoOn
  <2>2. CASE Failed(event, capacity, b, section, text, next, overflow)
    BY <2>2, Zenon DEF Failed
  <2>3. QED
    BY <1>1, <2>1, <2>2
<1>4. QED
  BY <1>3, RollbackKeeps DEF WriteFails, HasWrite

LEMMA XmlOverflowsKeeps ==
  ASSUME FormInv, XmlOverflows
  PROVE  FormInv'
<1>1. \/ Written(event, SubSeq(text, 1, mark), section, text, next) /\ ~overflow
      \/ Failed(event, capacity, SubSeq(text, 1, mark), section, text, next, overflow)
  BY Within DEF XmlOverflows
<1>2. TooLong(event, capacity, SubSeq(text, 1, mark), section)
  BY <1>1, Zenon DEF XmlOverflows, Failed
<1>3. QED
  BY <1>2, RollbackKeeps DEF XmlOverflows

LEMMA CommitKeeps ==
  ASSUME FormInv, Commit
  PROVE  FormInv'
<1> DEFINE b == SubSeq(text, 1, mark)
           ws == WritesOf(event, section)
<1>1. /\ event \in Events /\ capacity \in Nat /\ section \in Sections /\ Has(event, section)
      /\ text \in Seq(Converted) /\ Len(text) <= capacity /\ Len(text) \in Nat
      /\ b \in Seq(Converted) /\ mark \in 0 .. Len(text)
      /\ Precedes(event, capacity, b, section) /\ result = NULL
      /\ \/ Written(event, b, section, text, next) /\ ~overflow
         \/ Failed(event, capacity, b, section, text, next, overflow)
      /\ Writes(section) = ws
  BY Within DEF Commit
<1>2. /\ event' = event /\ capacity' = capacity /\ mark' = NULL /\ overflow' = overflow /\ text' = text
      /\ next > Len(ws) /\ ~overflow
  BY <1>1 DEF Commit, args
<1>3. capacity \in Capacities /\ next \in Nat \ {0} /\ overflow \in BOOLEAN
  BY DEF FormInv, Form
<1>4. Written(event, b, section, text, next)
  <2>1. Len(ws) \in Nat
    BY <1>1, WritesAre
  <2> HIDE DEF b
  <2>2. ~Failed(event, capacity, b, section, text, next, overflow)
    BY <1>2, <1>3, <2>1 DEF Failed
  <2>3. QED
    BY <1>1, <2>2
<1>5. text = b \o BytesOf(event, section) /\ ~Contains(BytesOf(event, section), BAD)
  <2> HIDE DEF b
  <2>1. QED
    BY <1>1, <1>2, <1>4, WritesGoOn
<1>6. CASE section = "header"
  <2>1. section' = "system" /\ next' = 1 /\ result' = NULL
    BY <1>1, <1>6 DEF Commit, Enter
  <2>2. text = BytesOf(event, "header")
    <3>1. b = <<>>
      BY <1>1, <1>6 DEF Precedes
    <3>2. BytesOf(event, "header") \in Seq(Converted)
      BY <1>1, <1>6, BytesAre
    <3>3. <<>> \o BytesOf(event, "header") = BytesOf(event, "header")
      BY <3>2, ConcatEmptySeq
    <3>4. QED
      BY <1>5, <1>6, <3>1, <3>3, Zenon
  <2>3. Precedes(event, capacity, text, "system")
    BY <2>2 DEF Precedes
  <2>4. QED
    BY <1>1, <1>2, <1>3, <2>1, <2>3 DEF FormInv, Form
<1>7. CASE section = "system"
  <2>1. section' = "event" /\ next' = 1 /\ result' = NULL
    BY <1>1, <1>7 DEF Commit, Enter
  <2>2. b = BytesOf(event, "header")
    BY <1>1, <1>7 DEF Precedes
  <2>3. Precedes(event, capacity, text, "event")
    BY <1>5, <1>7, <2>2, Zenon DEF Precedes, Mandatory
  <2>4. QED
    BY <1>1, <1>2, <1>3, <2>1, <2>3 DEF FormInv, Form
<1>8. CASE section = "event"
  <2>1. section' = "user" /\ next' = 1 /\ result' = NULL
    BY <1>1, <1>8 DEF Commit, Enter
  <2>2. b = Mandatory(event) /\ event.data # NULL
    BY <1>1, <1>8 DEF Precedes, Has
  <2>3. Precedes(event, capacity, text, "user")
    BY <1>5, <1>8, <2>2, Zenon DEF Precedes
  <2>4. QED
    BY <1>1, <1>2, <1>3, <2>1, <2>3 DEF FormInv, Form
<1>9. CASE section = "user"
  <2>1. section' = "done" /\ result' = TRUE /\ next' = next
    BY <1>9 DEF Commit, Return
  <2>2. event.user # NULL
    BY <1>1, <1>9 DEF Has
  <2>3. Formatted(event, capacity, text)
    BY <1>1, <1>5, <1>9, <2>2, Zenon DEF Formatted
  <2>4. QED
    BY <1>1, <1>2, <1>3, <2>1, <2>3 DEF FormInv, Form
<1>10. QED
  BY <1>1, <1>6, <1>7, <1>8, <1>9 DEF Sections

(***************************************************************************)
(* What format writes is known in every state: the sections that are done, *)
(* each whole, and of the one that is written either everything up to the  *)
(* next write, or what shows that it does not fit (FormInv above).  When   *)
(* format returns TRUE the text is the mandatory part, the event data      *)
(* unless it is too long, and the user data unless it is too long after    *)
(* that; it returns FALSE only if the mandatory part is too long.          *)
(***************************************************************************)
THEOREM WhatIsWritten == Spec => []FormInv
<1>1. Init => FormInv
  <2> SUFFICES ASSUME Init PROVE FormInv
    OBVIOUS
  <2>1. /\ event \in Events /\ capacity \in Capacities /\ text = <<>> /\ mark = NULL
        /\ section = "header" /\ next = 1 /\ overflow = FALSE /\ result = NULL
    BY DEF Init
  <2>2. capacity \in Nat /\ Len(text) = 0 /\ text \in Seq(Converted)
    BY <2>1, FormatterAssumption
  <2>3. Precedes(event, capacity, text, "header")
    BY <2>1 DEF Precedes
  <2>4. Len(text) <= capacity /\ 1 \in Nat \ {0} /\ FALSE \in BOOLEAN
        /\ "header" \in {"header", "system", "event", "user", "done"} /\ "header" # "done"
    BY <2>2
  <2>5. Form(event, capacity, text, NULL, "header", 1, FALSE, NULL)
    BY <2>1, <2>2, <2>3, <2>4, Zenon DEF Form
  <2>6. QED
    BY <2>1, <2>5, Zenon DEF FormInv
<1>2. FormInv /\ [Next]_vars => FormInv'
  <2> SUFFICES ASSUME FormInv, [Next]_vars PROVE FormInv'
    OBVIOUS
  <2>1. CASE Skip
    BY <2>1, SkipKeeps
  <2>2. CASE Begin
    BY <2>2, BeginKeeps
  <2>3. CASE WriteAll
    BY <2>3, WriteAllKeeps
  <2>4. CASE ParamFails
    BY <2>4, ParamFailsKeeps
  <2>5. CASE XmlWrite
    BY <2>5, XmlWriteKeeps
  <2>6. CASE WriteFails
    BY <2>6, WriteFailsKeeps
  <2>7. CASE Commit
    BY <2>7, CommitKeeps
  <2>8. CASE XmlOverflows
    BY <2>8, XmlOverflowsKeeps
  <2>9. CASE UNCHANGED vars
    BY <2>9, Zenon DEF vars, args, FormInv
  <2>10. QED
    BY <2>1, <2>2, <2>3, <2>4, <2>5, <2>6, <2>7, <2>8, <2>9 DEF Next
<1>3. QED
  BY <1>1, <1>2, PTL DEF Spec

-----------------------------------------------------------------------------
(* What the receiver reads                                                 *)

Flat(e, s) == FlattenSeq(WritesOf(e, s))
Fields == FlattenSeq(HeaderWrites)

(* t holds the characters that take the reader from Nothing to r.          *)
IsRead(t, r) ==
  \E x \in Seq(CodeUnits) : /\ Paired(x) /\ t = Encode(x)
                            /\ ReadOn(Nothing, Characters(x)) = r

LEMMA SectionIs ==
  ASSUME NEW e \in Events, NEW s \in Sections, Has(e, s), ~Contains(BytesOf(e, s), BAD)
  PROVE  /\ ArePaired(WritesOf(e, s)) /\ Flat(e, s) \in Seq(CodeUnits) /\ Paired(Flat(e, s))
         /\ BytesOf(e, s) = Encode(Flat(e, s))
<1> DEFINE ws == WritesOf(e, s)
<1>1. ws \in Seq(Seq(CodeUnits))
  BY WritesAre
<1>2. ~Contains(FlattenSeq(Encoded(ws)), BAD)
  BY Zenon DEF BytesOf
<1> HIDE DEF ws
<1>3. \A k \in 1 .. Len(ws) : Paired(ws[k])
  <2>1. \A k \in 1 .. Len(ws) : WellFormed(ws[k])
    BY <1>1, <1>2, EncodedIs
  <2>2. QED
    BY <1>1, <2>1, WellFormedIsPaired, ElementOfSeq
<1>4. /\ FlattenSeq(ws) \in Seq(CodeUnits) /\ Paired(FlattenSeq(ws))
      /\ Each(ws, Encode) = Encode(FlattenSeq(ws))
  BY <1>1, <1>3, FlatPaired
<1>5. FlattenSeq(Encoded(ws)) = Each(ws, Encode)
  BY Zenon DEF Encoded, Each
<1>6. QED
  BY <1>1, <1>3, <1>4, <1>5, Zenon DEF ArePaired, Flat, BytesOf, ws

(* Reading goes on with what a section adds.                               *)
LEMMA ReadSection ==
  ASSUME NEW e \in Events, NEW s \in Sections, Has(e, s), ~Contains(BytesOf(e, s), BAD),
         NEW t, NEW r, IsRead(t, r)
  PROVE  IsRead(t \o BytesOf(e, s), ReadOn(r, Characters(Flat(e, s))))
<1>1. PICK x \in Seq(CodeUnits) : Paired(x) /\ t = Encode(x) /\ ReadOn(Nothing, Characters(x)) = r
  BY DEF IsRead
<1> DEFINE y == Flat(e, s)
<1>2. y \in Seq(CodeUnits) /\ Paired(y) /\ BytesOf(e, s) = Encode(y)
  BY SectionIs
<1> HIDE DEF y
<1>3. /\ x \o y \in Seq(CodeUnits) /\ Paired(x \o y) /\ Encode(x \o y) = Encode(x) \o Encode(y)
      /\ Characters(x \o y) = Characters(x) \o Characters(y)
  BY <1>1, <1>2, JoinPaired
<1>4. Characters(x) \in Seq(Symbols) /\ Characters(y) \in Seq(Symbols)
  BY <1>1, <1>2, UnitsAre
<1>5. ReadOn(Nothing, Characters(x) \o Characters(y)) = ReadOn(ReadOn(Nothing, Characters(x)), Characters(y))
  BY <1>4, ReadIs
<1>6. ReadOn(Nothing, Characters(x \o y)) = ReadOn(r, Characters(y))
  BY <1>1, <1>3, <1>5, Zenon
<1>7. t \o BytesOf(e, s) = Encode(x \o y)
  BY <1>1, <1>2, <1>3, Zenon
<1>8. QED
  BY <1>3, <1>6, <1>7, Zenon DEF IsRead, y

(* What the reader has read of a text is what its characters tell, and     *)
(* none of them is cut.                                                    *)
LEMMA IsReadFrom ==
  ASSUME NEW t, NEW r, IsRead(t, r)
  PROVE  LET chars == Each(t, IfFirst)
         IN  Reading(chars) = r /\ t = Each(chars, AllBytes)
<1>1. PICK x \in Seq(CodeUnits) : Paired(x) /\ t = Encode(x) /\ ReadOn(Nothing, Characters(x)) = r
  BY DEF IsRead
<1>2. t \in Seq(Octets) /\ Image(Firsts, t) = Characters(x) /\ Image(All, Characters(x)) = t
  BY <1>1, WellFormedIsPaired, BytesAndCharacters
<1>3. Each(t, IfFirst) = Image(Firsts, t)
  <2>1. \A i \in 1 .. Len(t) : t[i] \in Octets
    BY <1>2, ElementOfSeq
  <2>2. \A i \in 1 .. Len(t) : Firsts[t[i]] = IfFirst(t[i])
    BY <2>1, Zenon DEF Firsts
  <2>3. [i \in 1 .. Len(t) |-> Firsts[t[i]]] = [i \in 1 .. Len(t) |-> IfFirst(t[i])]
    BY <2>2, Zenon
  <2>4. QED
    BY <2>3, Zenon DEF Each, Image
<1>4. Characters(x) \in Seq(Symbols)
  BY <1>1, UnitsAre
<1> DEFINE c == Characters(x)
<1>5. Each(c, AllBytes) = Image(All, c)
  <2> HIDE DEF c
  <2>1. \A i \in 1 .. Len(c) : c[i] \in Symbols
    BY <1>4, ElementOfSeq DEF c
  <2>2. \A i \in 1 .. Len(c) : All[c[i]] = AllBytes(c[i])
    BY <2>1, Zenon DEF All
  <2>3. [i \in 1 .. Len(c) |-> All[c[i]]] = [i \in 1 .. Len(c) |-> AllBytes(c[i])]
    BY <2>2, Zenon
  <2>4. QED
    BY <2>3, Zenon DEF Each, Image
<1>6. QED
  BY <1>1, <1>2, <1>3, <1>5, Zenon DEF Reading

NoSpace == [c \in {FIELD, SP} |-> IfNoSpace(c)]

(* A space and a field more.                                               *)
LEMMA NextField ==
  LET C == {FIELD, SP}
  IN  /\ Maps(NoSpace, C, Symbols)
      /\ NoSpace[FIELD] = <<FIELD>> /\ NoSpace[SP] = <<>> /\ C \subseteq Symbols /\ C \subseteq NumberChars
      /\ \A x \in Seq(C) : LET y == Append(Append(x, SP), FIELD)
                           IN  /\ y \in Seq(C) /\ Len(y) = Len(x) + 2
                               /\ \A i \in 1 .. Len(x) : y[i] = x[i]
                               /\ y[Len(x) + 1] = SP /\ y[Len(x) + 2] = FIELD
                               /\ Image(NoSpace, y) = Append(Image(NoSpace, x), FIELD)
<1> DEFINE C == {FIELD, SP}
<1>1. C \subseteq BMP /\ FIELD # SP /\ C \subseteq Symbols /\ C \subseteq NumberChars
  BY FormatterAssumption, CharactersDiffer DEF Symbols, NumberChars
<1>2. Maps(NoSpace, C, Symbols)
  <2>1. \A c \in C : IfNoSpace(c) \in Seq(Symbols)
    BY <1>1 DEF IfNoSpace
  <2>2. QED
    BY <2>1, Zenon DEF NoSpace, Maps
<1>3. NoSpace[FIELD] = <<FIELD>> /\ NoSpace[SP] = <<>>
  BY <1>1, Zenon DEF NoSpace, IfNoSpace
<1>4. ASSUME NEW x \in Seq(C)
      PROVE  LET y == Append(Append(x, SP), FIELD)
             IN  /\ y \in Seq(C) /\ Len(y) = Len(x) + 2
                 /\ \A i \in 1 .. Len(x) : y[i] = x[i]
                 /\ y[Len(x) + 1] = SP /\ y[Len(x) + 2] = FIELD
                 /\ Image(NoSpace, y) = Append(Image(NoSpace, x), FIELD)
  <2> DEFINE z == Append(x, SP)
             y == Append(z, FIELD)
  <2>1. FIELD \in C /\ SP \in C
    OBVIOUS
  <2> HIDE DEF C
  <2>2. z \in Seq(C) /\ Len(z) = Len(x) + 1 /\ (\A i \in 1 .. Len(x) : z[i] = x[i]) /\ z[Len(x) + 1] = SP
    BY <2>1, AppendProperties
  <2>3. y \in Seq(C) /\ Len(y) = Len(z) + 1 /\ (\A i \in 1 .. Len(z) : y[i] = z[i]) /\ y[Len(z) + 1] = FIELD
    <3> HIDE DEF z
    <3>1. QED
      BY <2>1, <2>2, AppendProperties
  <2>4. Len(x) \in Nat /\ FIELD \in Symbols /\ SP \in Symbols
    BY <1>1, <2>1, LenProperties
  <2> HIDE DEF y, z
  <2>5. /\ y \in Seq(C) /\ Len(y) = Len(x) + 2
        /\ \A i \in 1 .. Len(x) : y[i] = x[i]
        /\ y[Len(x) + 1] = SP /\ y[Len(x) + 2] = FIELD
    BY <2>2, <2>3, <2>4
  <2>6. Image(NoSpace, y) = Append(Image(NoSpace, x), FIELD)
    <3>1. Image(NoSpace, x) \in Seq(Symbols) /\ Image(NoSpace, Append(x, SP)) = Image(NoSpace, x) \o NoSpace[SP]
      BY <1>2, <2>1, ImageIs
    <3>2. Image(NoSpace, Append(z, FIELD)) = Image(NoSpace, z) \o NoSpace[FIELD]
      BY <1>2, <2>1, <2>2, ImageIs
    <3>3. Image(NoSpace, x) \o <<>> = Image(NoSpace, x)
      BY <3>1, ConcatEmptySeq
    <3>4. Image(NoSpace, x) \o <<FIELD>> = Append(Image(NoSpace, x), FIELD)
      BY <2>4, <3>1, ConcatOne, Zenon
    <3>5. QED
      BY <1>3, <3>1, <3>2, <3>3, <3>4, Zenon DEF y, z
  <2>7. QED
    BY <2>5, <2>6, Zenon DEF y, z
<1>5. QED
  BY <1>1, <1>2, <1>3, <1>4, Zenon

(* The header has six fields.                                              *)
LEMMA FieldsAre ==
  Fields \in Seq({FIELD, SP}) /\ Each(Fields, IfNoSpace) = [i \in 1 .. 6 |-> FIELD]
<1> DEFINE C == {FIELD, SP}
           N(x) == Append(Append(x, SP), FIELD)
           I(x) == Image(NoSpace, x)
           x1 == <<FIELD>>
           x2 == N(x1)
           x3 == N(x2)
           x4 == N(x3)
           x5 == N(x4)
           x6 == N(x5)
<1>1. \A x \in Seq(C) : /\ N(x) \in Seq(C) /\ Len(N(x)) = Len(x) + 2
                        /\ \A i \in 1 .. Len(x) : N(x)[i] = x[i]
                        /\ N(x)[Len(x) + 1] = SP /\ N(x)[Len(x) + 2] = FIELD
                        /\ I(N(x)) = Append(I(x), FIELD)
  BY NextField, Zenon
<1>2. x1 \in Seq(C) /\ Len(x1) = 1 /\ x1[1] = FIELD
  OBVIOUS
<1>3. I(x1) = <<FIELD>>
  <2>1. FIELD \in C /\ Maps(NoSpace, C, Symbols) /\ NoSpace[FIELD] = <<FIELD>>
    BY NextField, Zenon
  <2> HIDE DEF C
  <2>2. Image(NoSpace, <<FIELD>>) = NoSpace[FIELD]
    BY <2>1, ImageIs
  <2>3. QED
    BY <2>1, <2>2, Zenon
<1> HIDE DEF N, I, x1, C
<1> DEFINE Alternates(x, n) == /\ x \in Seq(C) /\ Len(x) = n
                               /\ \A i \in 1 .. n : x[i] = IF i \in {1, 3, 5, 7, 9, 11} THEN FIELD ELSE SP
<1>13. ASSUME NEW x, NEW n \in {1, 3, 5, 7, 9}, Alternates(x, n)
       PROVE  Alternates(N(x), n + 2)
  <2>1. /\ N(x) \in Seq(C) /\ Len(N(x)) = n + 2
        /\ \A i \in 1 .. n : N(x)[i] = x[i]
        /\ N(x)[n + 1] = SP /\ N(x)[n + 2] = FIELD
    BY <1>1, <1>13
  <2>2. \A i \in 1 .. n + 2 : i \in 1 .. n \/ i = n + 1 \/ i = n + 2
    OBVIOUS
  <2>3. n + 1 \notin {1, 3, 5, 7, 9, 11} /\ n + 2 \in {1, 3, 5, 7, 9, 11}
    OBVIOUS
  <2>4. \A i \in 1 .. n + 2 : N(x)[i] = IF i \in {1, 3, 5, 7, 9, 11} THEN FIELD ELSE SP
    BY <1>13, <2>1, <2>2, <2>3
  <2>5. QED
    BY <2>1, <2>4
<1>14. Alternates(x1, 1)
  BY <1>2
<1> HIDE DEF Alternates
<1>4. Alternates(x2, 3)
  <2>1. Alternates(N(x1), 1 + 2) /\ 1 + 2 = 3
    BY <1>13, <1>14
  <2>2. QED
    BY <2>1, Zenon
<1>5. Alternates(x3, 5)
  <2>1. Alternates(N(x2), 3 + 2) /\ 3 + 2 = 5
    BY <1>13, <1>4
  <2>2. QED
    BY <2>1, Zenon
<1>6. Alternates(x4, 7)
  <2>1. Alternates(N(x3), 5 + 2) /\ 5 + 2 = 7
    BY <1>13, <1>5
  <2>2. QED
    BY <2>1, Zenon
<1>7. Alternates(x5, 9)
  <2>1. Alternates(N(x4), 7 + 2) /\ 7 + 2 = 9
    BY <1>13, <1>6
  <2>2. QED
    BY <2>1, Zenon
<1>8. Alternates(x6, 11)
  <2>1. Alternates(N(x5), 9 + 2) /\ 9 + 2 = 11
    BY <1>13, <1>7
  <2>2. QED
    BY <2>1, Zenon
<1>15. /\ x1 \in Seq(C) /\ x2 \in Seq(C) /\ x3 \in Seq(C) /\ x4 \in Seq(C) /\ x5 \in Seq(C)
       /\ x6 \in Seq(C) /\ Len(x6) = 11
       /\ \A i \in 1 .. 11 : x6[i] = IF i \in {1, 3, 5, 7, 9, 11} THEN FIELD ELSE SP
  BY <1>14, <1>4, <1>5, <1>6, <1>7, <1>8, Zenon DEF Alternates
<1>9. I(x6) = [i \in 1 .. 6 |-> FIELD]
  <2> DEFINE D == {FIELD}
  <2>1. I(x1) \in Seq(D) /\ Len(I(x1)) = 1
    BY <1>3
  <2>2. \A y \in Seq(D) : Append(y, FIELD) \in Seq(D) /\ Len(Append(y, FIELD)) = Len(y) + 1
    BY AppendProperties
  <2>3. /\ I(x2) = Append(I(x1), FIELD) /\ I(x3) = Append(I(x2), FIELD) /\ I(x4) = Append(I(x3), FIELD)
        /\ I(x5) = Append(I(x4), FIELD) /\ I(x6) = Append(I(x5), FIELD)
    BY <1>1, <1>15, Zenon
  <2> HIDE DEF D, x2, x3, x4, x5, x6
  <2>4. I(x6) \in Seq(D) /\ Len(I(x6)) = 6
    <3>1. I(x2) \in Seq(D) /\ Len(I(x2)) = 2
      <4>1. Append(I(x1), FIELD) \in Seq(D) /\ Len(Append(I(x1), FIELD)) = Len(I(x1)) + 1
        BY <2>1, <2>2, Zenon
      <4>2. Len(I(x1)) + 1 = 2
        BY <2>1
      <4>3. QED
        BY <2>3, <4>1, <4>2, Zenon
    <3>2. I(x3) \in Seq(D) /\ Len(I(x3)) = 3
      BY <3>1, <2>2, <2>3
    <3>3. I(x4) \in Seq(D) /\ Len(I(x4)) = 4
      BY <3>2, <2>2, <2>3
    <3>4. I(x5) \in Seq(D) /\ Len(I(x5)) = 5
      BY <3>3, <2>2, <2>3
    <3>5. QED
      BY <3>4, <2>2, <2>3
  <2>5. \A i \in 1 .. 6 : I(x6)[i] = FIELD
    BY <2>4, ElementOfSeq DEF D
  <2>6. I(x6) = [i \in 1 .. Len(I(x6)) |-> I(x6)[i]]
    BY <2>4
  <2>7. QED
    BY <2>4, <2>5, <2>6
<1> HIDE DEF x6
<1>10. Fields = x6
  <2>1. Image(Esc, x6) = x6
    <3>1. x6 \in Seq(NumberChars)
      BY <1>15, NextField, SeqMonotonic DEF C
    <3>2. QED
      BY <3>1, NumberIs
  <2>2. Esc[FIELD] = <<FIELD>> /\ Esc[SP] = <<SP>>
    BY EscIs, NextField, CharactersDiffer, Zenon DEF NeedsEscape
  <2>3. [i \in 1 .. Len(x6) |-> Esc[x6[i]]] = HeaderWrites
    <3> DEFINE f == <<FIELD>>
               p == <<SP>>
    <3>1. Esc[FIELD] = f /\ Esc[SP] = p
      BY <2>2
    <3> HIDE DEF f, p
    <3>2. [i \in 1 .. 11 |-> Esc[x6[i]]] = <<f, p, f, p, f, p, f, p, f, p, f>>
      BY <1>15, <3>1
    <3>3. QED
      BY <1>15, <3>2, Zenon DEF HeaderWrites, f, p
  <2>4. QED
    BY <2>1, <2>3, Zenon DEF Image, Fields
<1>11. Each(x6, IfNoSpace) = I(x6)
  <2>1. \A i \in 1 .. Len(x6) : x6[i] \in C
    BY <1>15, ElementOfSeq
  <2>2. \A i \in 1 .. Len(x6) : NoSpace[x6[i]] = IfNoSpace(x6[i])
    BY <2>1, Zenon DEF NoSpace, C
  <2>3. [i \in 1 .. Len(x6) |-> NoSpace[x6[i]]] = [i \in 1 .. Len(x6) |-> IfNoSpace(x6[i])]
    BY <2>2, Zenon
  <2>4. QED
    BY <2>3, Zenon DEF Each, Image, I
<1>12. QED
  BY <1>15, <1>9, <1>10, <1>11, Zenon DEF C

LEMMA HeaderIsRead ==
  IsRead(FlattenSeq(Encoded(HeaderWrites)), St("header", Fields, <<>>, <<>>))
<1> DEFINE C == {FIELD, SP}
           F == [x \in Seq(C) |-> St("header", x, <<>>, <<>>)]
<1>1. ASSUME NEW x \in Seq(C), NEW c \in C
      PROVE  ReadChar(F[x], c) = F[Append(x, c)]
  <2>1. Append(x, c) \in Seq(C) /\ c # OPEN
    BY CharactersDiffer
  <2>2. ReadChar(St("header", x, <<>>, <<>>), c) = St("header", Append(x, c), <<>>, <<>>)
    BY <2>1, ReadOutside
  <2>3. F[x] = St("header", x, <<>>, <<>>) /\ F[Append(x, c)] = St("header", Append(x, c), <<>>, <<>>)
    BY <2>1, Zenon
  <2>4. QED
    BY <2>2, <2>3, Zenon
<1>2. Fields \in Seq(C) /\ <<>> \in Seq(C)
  BY FieldsAre
<1>3. F[Fields] = St("header", Fields, <<>>, <<>>) /\ F[<<>>] = Nothing
  BY <1>2, Zenon DEF St, Nothing
<1> HIDE DEF F, C
<1>4. ReadOn(F[<<>>], Fields) = F[Fields]
  BY <1>1, <1>2, ReadChars
<1>5. ReadOn(Nothing, Fields) = St("header", Fields, <<>>, <<>>)
  BY <1>3, <1>4, Zenon
<1>6. /\ Fields \in Seq(CodeUnits) /\ Paired(Fields)
      /\ Each(HeaderWrites, Encode) = Encode(Fields)
  BY HeaderIsPlain, FlatPaired DEF ArePaired, Fields
<1>7. FlattenSeq(Encoded(HeaderWrites)) = Encode(Fields)
  BY <1>6, Zenon DEF Encoded, Each
<1>8. Characters(Fields) = Fields
  BY HeaderIsPlain DEF Fields
<1>9. QED
  BY <1>5, <1>6, <1>7, <1>8, Zenon DEF IsRead

LEMMA AppendConcat ==
  ASSUME NEW S, NEW x \in Seq(S), NEW y \in Seq(S), NEW c \in S
  PROVE  Append(x \o y, c) = x \o Append(y, c)
<1>1. x \o y \in Seq(S) /\ Append(x \o y, c) \in Seq(S) /\ Append(y, c) \in Seq(S) /\ <<c>> \in Seq(S)
  BY AppendProperties, ConcatProperties
<1>2. y \o <<c>> = Append(y, c) /\ (x \o y) \o <<c>> = Append(x \o y, c)
  BY <1>1, ConcatOne, Zenon
<1> DEFINE z == <<c>>
           yz == y \o z
<1>3. z \in Seq(S)
  BY <1>1
<1> HIDE DEF z
<1>4. x \o yz = (x \o y) \o z
  BY <1>3, Associated
<1>5. QED
  BY <1>2, <1>4, Zenon DEF z

(* The user data is read as the payload.                                   *)
LEMMA UserIsRead ==
  ASSUME NEW h, NEW es, NEW e \in Events, e.user # NULL, ~Contains(BytesOf(e, "user"), BAD)
  PROVE  ReadOn(St("between", h, es, <<>>), Characters(Flat(e, "user"))) =
           St("payload", h, es, <<BOM>> \o Characters(FlattenSeq(e.user)))
<1> DEFINE u == e.user
           a == <<<<SP, BOM>>>>
           d == <<BOM>>
           chars == Characters(FlattenSeq(u))
           F == [x \in Seq(Symbols) |-> St("payload", h, es, d \o x)]
           r0 == St("between", h, es, <<>>)
<1>1. u \in Seq(Seq(CodeUnits))
  BY EventsAre
<1>2. /\ a \o u \in Seq(Seq(CodeUnits)) /\ Len(a \o u) = Len(u) + 1
      /\ ArePaired(a) /\ Characters(FlattenSeq(a)) = <<SP, BOM>>
      /\ SP \in Symbols /\ BOM \in Symbols
  BY <1>1, UserWritesAre, Zenon
<1>3. WritesOf(e, "user") = a \o u
  BY DEF WritesOf
<1>4. ArePaired(a \o u)
  <2>1. "user" \in Sections /\ Has(e, "user")
    BY DEF Sections, Has
  <2>2. QED
    BY <1>3, <2>1, SectionIs, Zenon
<1>5. ArePaired(u)
  <2>1. ASSUME NEW k \in 1 .. Len(u) PROVE Paired(u[k])
    <3>1. a \in Seq(Seq(CodeUnits)) /\ Len(a) = 1 /\ Len(u) \in Nat
      BY <1>1, <1>2, LenProperties DEF ArePaired
    <3> HIDE DEF a, u
    <3>2. k + 1 \in 1 .. Len(a \o u) /\ (a \o u)[k + 1] = u[k]
      BY <1>1, <1>2, <3>1, ConcatProperties
    <3>3. QED
      BY <1>4, <3>2, Zenon DEF ArePaired
  <2>2. QED
    BY <1>1, <2>1, Zenon DEF ArePaired
<1>6. chars \in Seq(Symbols)
  <2>1. FlattenSeq(u) \in Seq(CodeUnits)
    BY <1>1, FlattenIsSeq
  <2>2. QED
    BY <2>1, UnitsAre
<1>7. Characters(Flat(e, "user")) = <<SP, BOM>> \o chars
  BY <1>2, <1>3, <1>5, ArePairedConcat, Zenon DEF Flat
<1>8. d \in Seq(Symbols) /\ <<SP, BOM>> \in Seq(Symbols) /\ <<>> \in Seq(Symbols)
  BY <1>2
<1>9. ReadOn(r0, <<SP, BOM>>) = St("payload", h, es, d)
  <2>1. ReadOn(r0, <<SP, BOM>>) = ReadChar(ReadChar(r0, SP), BOM)
    BY <1>2, ReadTwo
  <2>6. \A p, c : /\ c = SP => ReadChar(St("between", h, es, p), c) = St("payload", h, es, p)
                  /\ ReadChar(St("payload", h, es, p), c) = St("payload", h, es, Append(p, c))
    BY ReadOutside
  <2>2. ReadChar(r0, SP) = St("payload", h, es, <<>>)
    BY <2>6, Zenon
  <2>3. ReadChar(St("payload", h, es, <<>>), BOM) = St("payload", h, es, Append(<<>>, BOM))
    BY <2>6, Zenon
  <2>4. Append(<<>>, BOM) = d
    BY <1>2
  <2>5. QED
    BY <2>1, <2>2, <2>3, <2>4, Zenon
<1> HIDE DEF d, chars
<1>10. ASSUME NEW x \in Seq(Symbols), NEW c \in Symbols
       PROVE  ReadChar(F[x], c) = F[Append(x, c)]
  <2>1. Append(x, c) \in Seq(Symbols) /\ Append(d \o x, c) = d \o Append(x, c)
    BY <1>8, AppendProperties, AppendConcat
  <2>2. ReadChar(St("payload", h, es, d \o x), c) = St("payload", h, es, Append(d \o x, c))
    BY ReadOutside
  <2>3. F[x] = St("payload", h, es, d \o x) /\ F[Append(x, c)] = St("payload", h, es, d \o Append(x, c))
    BY <2>1, Zenon
  <2>4. QED
    BY <2>1, <2>2, <2>3, Zenon
<1>11. F[<<>>] = St("payload", h, es, d) /\ F[chars] = St("payload", h, es, d \o chars)
  <2>1. d \o <<>> = d
    BY <1>8, ConcatEmptySeq
  <2>2. QED
    BY <1>6, <1>8, <2>1, Zenon
<1> HIDE DEF F
<1>12. ReadOn(F[<<>>], chars) = F[chars]
  BY <1>6, <1>10, ReadChars
<1> DEFINE b == <<SP, BOM>>
<1>13. b \in Seq(Symbols)
  BY <1>8
<1> HIDE DEF b, r0
<1>14. ReadOn(r0, b \o chars) = ReadOn(ReadOn(r0, b), chars)
  BY <1>6, <1>13, ReadIs
<1>15. QED
  BY <1>7, <1>9, <1>11, <1>12, <1>14, Zenon DEF b, r0, d, chars

SysRead(e) == Element(SYS, e.system)
EvdRead(e) == Element(EVD, e.data)
AfterElements(es) == St("between", Fields, es, <<>>)

(* The mandatory part is read as the header and an element; the event data *)
(* as another one.                                                         *)
LEMMA ElementsAreRead ==
  ASSUME NEW e \in Events
  PROVE  /\ IsRead(Mandatory(e), AfterElements(<<SysRead(e)>>))
         /\ e.data # NULL =>
              IsRead(Mandatory(e) \o BytesOf(e, "event"), AfterElements(<<SysRead(e), EvdRead(e)>>))
<1>1. /\ "header" \in Sections /\ "system" \in Sections /\ "event" \in Sections
      /\ Has(e, "header") /\ Has(e, "system") /\ (e.data # NULL => Has(e, "event"))
      /\ "header" # "user" /\ "system" # "user" /\ "event" # "user"
  BY DEF Sections, Has
<1>2. /\ e.system \in Seq(Params) /\ (e.data # NULL => e.data \in Seq(Params))
      /\ SYS \in {SYS, EVD} /\ EVD \in {SYS, EVD}
  BY EventsAre
<1>3. /\ ~Contains(BytesOf(e, "system"), BAD)
      /\ e.data # NULL => ~Contains(BytesOf(e, "event"), BAD)
  BY <1>1, BytesAre, Zenon
<1>4. /\ Flat(e, "system") = FlattenSeq(ElementWrites(SYS, e.system))
      /\ Flat(e, "event") = FlattenSeq(ElementWrites(EVD, e.data))
      /\ BytesOf(e, "header") = FlattenSeq(Encoded(HeaderWrites))
  BY DEF Flat, WritesOf, BytesOf
<1> DEFINE sys == SysRead(e)
           evd == EvdRead(e)
<1>5. /\ sys \in ReadElements
      /\ ReadOn(St("header", Fields, <<>>, <<>>), Characters(Flat(e, "system"))) = AfterElements(<<sys>>)
  <2> DEFINE es == <<>>
  <2>1. es \in Seq(ReadElements) /\ "header" \in {"header", "between"}
    OBVIOUS
  <2> HIDE DEF es
  <2>2. /\ Element(SYS, e.system) \in ReadElements
        /\ ReadOn(St("header", Fields, es, <<>>), Characters(FlattenSeq(ElementWrites(SYS, e.system)))) =
             St("between", Fields, Append(es, Element(SYS, e.system)), <<>>)
    BY <1>2, <2>1, ElementIsRead
  <2>3. Append(es, sys) = <<sys>>
    BY DEF es
  <2>4. QED
    BY <1>4, <2>2, <2>3, Zenon DEF AfterElements, SysRead, es
<1>6. IsRead(BytesOf(e, "header"), St("header", Fields, <<>>, <<>>))
  BY <1>4, HeaderIsRead, Zenon
<1>7. IsRead(Mandatory(e), AfterElements(<<sys>>))
  <2>1. IsRead(BytesOf(e, "header") \o BytesOf(e, "system"),
               ReadOn(St("header", Fields, <<>>, <<>>), Characters(Flat(e, "system"))))
    BY <1>1, <1>3, <1>6, ReadSection
  <2>2. QED
    BY <1>5, <2>1, Zenon DEF Mandatory
<1>8. ASSUME e.data # NULL
      PROVE  IsRead(Mandatory(e) \o BytesOf(e, "event"), AfterElements(<<sys, evd>>))
  <2>1. /\ evd \in ReadElements
        /\ ReadOn(AfterElements(<<sys>>), Characters(Flat(e, "event"))) = AfterElements(<<sys, evd>>)
    <3> DEFINE es == <<sys>>
    <3>1. es \in Seq(ReadElements) /\ "between" \in {"header", "between"}
      BY <1>5
    <3> HIDE DEF es
    <3>2. /\ Element(EVD, e.data) \in ReadElements
          /\ ReadOn(St("between", Fields, es, <<>>), Characters(FlattenSeq(ElementWrites(EVD, e.data)))) =
               St("between", Fields, Append(es, Element(EVD, e.data)), <<>>)
      BY <1>2, <1>8, <3>1, ElementIsRead
    <3>3. Append(es, evd) = <<sys, evd>>
      BY <1>5, <3>2, AppendTuple, Zenon DEF es, EvdRead
    <3>4. QED
      BY <1>4, <3>2, <3>3, Zenon DEF AfterElements, EvdRead, es
  <2>2. IsRead(Mandatory(e) \o BytesOf(e, "event"), ReadOn(AfterElements(<<sys>>), Characters(Flat(e, "event"))))
    BY <1>1, <1>3, <1>7, <1>8, ReadSection
  <2>3. QED
    BY <2>1, <2>2, Zenon
<1>9. QED
  BY <1>7, <1>8, Zenon

(* What the reader makes of a message that is done, and what was too long. *)
LeftOut(e, c, b, r) ==
  \/ /\ b = Mandatory(e) /\ r.elements = <<SysRead(e)>>
     /\ e.data = NULL \/ TooLong(e, c, b, "event")
  \/ /\ e.data # NULL
     /\ b = Mandatory(e) \o BytesOf(e, "event") /\ r.elements = <<SysRead(e), EvdRead(e)>>
Outcome(e, c, t, r) ==
  /\ IsRead(t, r) /\ r.at \in {"between", "payload"} /\ r.header = Fields
  /\ \E b : /\ LeftOut(e, c, b, r)
            /\ \/ r.payload = <<>> /\ (e.user = NULL \/ TooLong(e, c, b, "user"))
               \/ e.user # NULL /\ r.payload = <<BOM>> \o Characters(FlattenSeq(e.user))

LEMMA PrecedesUser ==
  ASSUME NEW e \in Events, NEW c, NEW b, Precedes(e, c, b, "user")
  PROVE  \E es : /\ IsRead(b, AfterElements(es))
                 /\ \A at, p : LeftOut(e, c, b, St(at, Fields, es, p))
<1>1. \A at, es, p : St(at, Fields, es, p).elements = es
  BY DEF St
<1>2. CASE b = Mandatory(e) /\ (e.data = NULL \/ TooLong(e, c, b, "event"))
  <2>1. IsRead(b, AfterElements(<<SysRead(e)>>))
    BY <1>2, ElementsAreRead
  <2>2. \A at, p : LeftOut(e, c, b, St(at, Fields, <<SysRead(e)>>, p))
    BY <1>1, <1>2, Zenon DEF LeftOut
  <2>3. QED
    BY <2>1, <2>2, Zenon
<1>3. CASE e.data # NULL /\ b = Mandatory(e) \o BytesOf(e, "event")
  <2>1. IsRead(b, AfterElements(<<SysRead(e), EvdRead(e)>>))
    BY <1>3, ElementsAreRead
  <2>2. \A at, p : LeftOut(e, c, b, St(at, Fields, <<SysRead(e), EvdRead(e)>>, p))
    BY <1>1, <1>3, Zenon DEF LeftOut
  <2>3. QED
    BY <2>1, <2>2, Zenon
<1>4. QED
  BY <1>2, <1>3 DEF Precedes

LEMMA FormattedIsRead ==
  ASSUME NEW e \in Events, NEW c, NEW t, Formatted(e, c, t)
  PROVE  \E r : Outcome(e, c, t, r)
<1>2. CASE Precedes(e, c, t, "user") /\ (e.user = NULL \/ TooLong(e, c, t, "user"))
  <2>1. PICK es : /\ IsRead(t, AfterElements(es))
                  /\ \A at, p : LeftOut(e, c, t, St(at, Fields, es, p))
    BY <1>2, PrecedesUser
  <2> DEFINE r == St("between", Fields, es, <<>>)
  <2>2. IsRead(t, r) /\ LeftOut(e, c, t, r)
    BY <2>1, Zenon DEF AfterElements
  <2>3. r.at = "between" /\ r.header = Fields /\ r.payload = <<>>
    BY DEF St
  <2> HIDE DEF r
  <2>4. Outcome(e, c, t, r)
    BY <1>2, <2>2, <2>3, Zenon DEF Outcome
  <2>5. QED
    BY <2>4, Zenon
<1>3. ASSUME NEW b, Precedes(e, c, b, "user"), e.user # NULL,
             t = b \o BytesOf(e, "user"), ~Contains(BytesOf(e, "user"), BAD)
      PROVE  \E r : Outcome(e, c, t, r)
  <2>1. PICK es : /\ IsRead(b, AfterElements(es))
                  /\ \A at, p : LeftOut(e, c, b, St(at, Fields, es, p))
    BY <1>3, PrecedesUser
  <2> DEFINE pl == <<BOM>> \o Characters(FlattenSeq(e.user))
             r == St("payload", Fields, es, pl)
  <2>2. "user" \in Sections /\ Has(e, "user")
    BY <1>3 DEF Sections, Has
  <2>3. IsRead(b \o BytesOf(e, "user"), ReadOn(AfterElements(es), Characters(Flat(e, "user"))))
    BY <1>3, <2>1, <2>2, ReadSection
  <2>4. ReadOn(AfterElements(es), Characters(Flat(e, "user"))) = r
    BY <1>3, UserIsRead, Zenon DEF AfterElements
  <2>5. IsRead(t, r)
    BY <1>3, <2>3, <2>4, Zenon
  <2>6. r.at = "payload" /\ r.header = Fields /\ r.payload = pl
    <3> HIDE DEF pl
    <3>1. QED
      BY DEF St
  <2>9. LeftOut(e, c, b, r)
    BY <2>1, Zenon
  <2> HIDE DEF r
  <2>7. Outcome(e, c, t, r)
    BY <1>3, <2>5, <2>6, <2>9, Zenon DEF Outcome
  <2>8. QED
    BY <2>7, Zenon
<1>4. QED
  BY <1>2, <1>3, Zenon DEF Formatted

LEMMA DoneIsFormatted ==
  ASSUME FormInv
  PROVE  /\ result = TRUE => \E r : Outcome(event, capacity, text, r)
         /\ result = FALSE => Len(Mandatory(event)) > capacity
<1>1. event \in Events /\ (section # "done" => result = NULL)
  BY DEF FormInv, Form
<1>2. result \in BOOLEAN => section = "done"
  BY <1>1, FormatterAssumption
<1>3. section = "done" => \/ result = TRUE /\ Formatted(event, capacity, text)
                          \/ result = FALSE /\ Len(Mandatory(event)) > capacity
  BY Zenon DEF FormInv, Form
<1>4. result = TRUE => Formatted(event, capacity, text)
  BY <1>2, <1>3
<1>5. result = FALSE => Len(Mandatory(event)) > capacity
  BY <1>2, <1>3
<1>6. QED
  BY <1>1, <1>4, <1>5, FormattedIsRead

(***************************************************************************)
(* The message of a format that returns TRUE is read back as the event by  *)
(* any receiver that follows RFC 5424's grammar (ReceiverReadsEvent), for  *)
(* every event, every limit and every text, and whatever a write that      *)
(* fails leaves behind: no character and no escape is cut, and a section   *)
(* is there as a whole or not at all.                                      *)
(***************************************************************************)
THEOREM ReceiverIsTold == Spec => []ReceiverReadsEvent
<1>1. FormInv => ReceiverReadsEvent
  <2> SUFFICES ASSUME FormInv, result = TRUE PROVE ReceiverReadsEvent
    BY Zenon DEF ReceiverReadsEvent
  <2>1. PICK r : Outcome(event, capacity, text, r)
    BY DoneIsFormatted
  <2>2. Reading(Chars) = r /\ WholeCharacters
    <3>1. IsRead(text, r)
      BY <2>1, Zenon DEF Outcome
    <3>2. Reading(Each(text, IfFirst)) = r /\ text = Each(Each(text, IfFirst), AllBytes)
      BY <3>1, IsReadFrom, Zenon
    <3>3. QED
      BY <3>2, Zenon DEF Chars, WholeCharacters
  <2>3. Readable(Chars)
    BY <2>1, <2>2, Zenon DEF Readable, Outcome
  <2>4. Each(r.header, IfNoSpace) = [i \in 1 .. 6 |-> FIELD]
    BY <2>1, FieldsAre, Zenon DEF Outcome
  <2>5. /\ \/ r.elements = <<Element(SYS, event.system)>>
           \/ /\ event.data # NULL
              /\ r.elements = <<Element(SYS, event.system), Element(EVD, event.data)>>
        /\ \/ r.payload = <<>>
           \/ /\ event.user # NULL
              /\ r.payload = <<BOM>> \o Characters(FlattenSeq(event.user))
    BY <2>1, Zenon DEF Outcome, LeftOut, SysRead, EvdRead
  <2>6. QED
    BY <2>2, <2>3, <2>4, <2>5, Zenon DEF ReceiverReadsEvent
<1>2. QED
  BY <1>1, WhatIsWritten, PTL

(***************************************************************************)
(* A message is without its event data or its user data only if that does  *)
(* not fit after what precedes it, or is malformed (LeftOutOnlyIfTooLong). *)
(***************************************************************************)
THEOREM NothingElseIsLeftOut == Spec => []LeftOutOnlyIfTooLong
<1>1. FormInv => LeftOutOnlyIfTooLong
  <2> SUFFICES ASSUME FormInv PROVE LeftOutOnlyIfTooLong
    OBVIOUS
  <2>1. event \in Events
    BY DEF FormInv, Form
  <2> DEFINE mandatory == Len(Bytes("header")) + Len(Bytes("system"))
             r == Reading(Chars)
             hasData == Len(r.elements) = 2
             before == mandatory + IF hasData THEN Len(Bytes("event")) ELSE 0
  <2>2. \A s \in Sections : Bytes(s) = BytesOf(event, s)
    BY Zenon DEF Bytes, BytesOf, Each, Encoded, Writes, WritesOf
  <2>3. mandatory = Len(Mandatory(event))
    <3>1. Bytes("header") = BytesOf(event, "header") /\ Bytes("system") = BytesOf(event, "system")
      BY <2>2 DEF Sections
    <3>2. QED
      BY <2>1, <3>1, BytesAre, Zenon
  <2>4. ASSUME result = TRUE
        PROVE  /\ event.data # NULL /\ ~hasData => ~Fits(mandatory, "event")
               /\ event.user # NULL /\ r.payload = <<>> => ~Fits(before, "user")
    <3>1. PICK x : Outcome(event, capacity, text, x)
      BY <2>4, DoneIsFormatted
    <3>2. r = x
      <4>1. IsRead(text, x)
        BY <3>1, Zenon DEF Outcome
      <4>2. QED
        BY <4>1, IsReadFrom, Zenon DEF Chars
    <3>3. PICK b : /\ LeftOut(event, capacity, b, x)
                   /\ \/ x.payload = <<>> /\ (event.user = NULL \/ TooLong(event, capacity, b, "user"))
                      \/ /\ event.user # NULL
                         /\ x.payload = <<BOM>> \o Characters(FlattenSeq(event.user))
      BY <3>1, Zenon DEF Outcome
    <3> HIDE DEF r
    <3>4. /\ \/ /\ ~hasData /\ b = Mandatory(event)
                /\ event.data = NULL \/ TooLong(event, capacity, b, "event")
             \/ /\ hasData /\ event.data # NULL
                /\ b = Mandatory(event) \o BytesOf(event, "event")
      <4>1. Len(<<SysRead(event)>>) = 1 /\ Len(<<SysRead(event), EvdRead(event)>>) = 2 /\ 1 # 2
        OBVIOUS
      <4>2. QED
        BY <3>2, <3>3, <4>1, Zenon DEF LeftOut
    <3>5. Len(b) = before
      <4>1. CASE ~hasData
        <5>1. Len(Mandatory(event)) \in Nat
          BY <2>1, BytesAre, LenProperties
        <5>2. b = Mandatory(event) /\ before = Len(Mandatory(event)) + 0
          BY <2>3, <3>4, <4>1, Zenon
        <5> HIDE DEF before
        <5>3. QED
          BY <5>1, <5>2
      <4>2. CASE hasData
        <5>1. "event" \in Sections /\ Has(event, "event")
          BY <3>4, <4>2 DEF Sections, Has
        <5>2. Mandatory(event) \in Seq(Converted) /\ BytesOf(event, "event") \in Seq(Converted)
          BY <2>1, <5>1, BytesAre
        <5>3. b = Mandatory(event) \o BytesOf(event, "event")
          BY <3>4, <4>2
        <5>4. Len(b) = Len(Mandatory(event)) + Len(BytesOf(event, "event"))
          BY <5>2, <5>3, ConcatProperties
        <5>5. Bytes("event") = BytesOf(event, "event")
          BY <2>2, <5>1
        <5>6. QED
          BY <2>3, <4>2, <5>4, <5>5, Zenon
      <4>3. QED
        BY <4>1, <4>2
    <3>6. \A n, s : s \in Sections /\ n = Len(b) /\ TooLong(event, capacity, b, s) => ~Fits(n, s)
      BY <2>2, Zenon DEF Fits, TooLong
    <3>7. event.data # NULL /\ ~hasData => ~Fits(mandatory, "event")
      <4>1. "event" \in Sections
        BY DEF Sections
      <4> HIDE DEF hasData, mandatory
      <4>2. QED
        BY <2>3, <3>4, <3>6, <4>1, Zenon
    <3>8. event.user # NULL /\ r.payload = <<>> => ~Fits(before, "user")
      <4>1. "user" \in Sections
        BY DEF Sections
      <4>2. <<BOM>> \o Characters(FlattenSeq(event.user)) # <<>> \/ event.user = NULL
        <5> SUFFICES ASSUME event.user # NULL
                     PROVE  <<BOM>> \o Characters(FlattenSeq(event.user)) # <<>>
          OBVIOUS
        <5> DEFINE y == Characters(FlattenSeq(event.user))
                   d == <<BOM>>
        <5>1. y \in Seq(Symbols) /\ d \in Seq(Symbols) /\ Len(d) = 1
          <6>1. FlattenSeq(event.user) \in Seq(CodeUnits)
            BY <2>1, EventsAre, FlattenIsSeq
          <6>2. y \in Seq(Symbols)
            BY <6>1, UnitsAre
          <6>3. BOM \in Symbols
            BY FormatterAssumption DEF Symbols
          <6>4. QED
            BY <6>2, <6>3
        <5> HIDE DEF y, d
        <5>2. Len(d \o y) = Len(d) + Len(y) /\ Len(y) \in Nat
          BY <5>1, ConcatProperties, LenProperties
        <5>3. Len(d \o y) # 0
          BY <5>1, <5>2
        <5>4. d \o y # <<>>
          BY <5>3, EmptySeq
        <5>5. QED
          BY <5>4, Zenon DEF d, y
      <4> HIDE DEF before
      <4>3. QED
        BY <3>2, <3>3, <3>5, <3>6, <4>1, <4>2, Zenon
    <3>9. QED
      BY <3>7, <3>8
  <2>5. QED
    BY <2>4, Zenon DEF LeftOutOnlyIfTooLong
<1>2. QED
  BY <1>1, WhatIsWritten, PTL

=============================================================================

-------------------------- MODULE EventMessageProofs --------------------------
(***************************************************************************)
(* What holds of EventMessageBuilder for every capacity, every size of     *)
(* fragments and of chunks, and all texts.                                 *)
(***************************************************************************)
EXTENDS EventMessage, TLAPS, FiniteSetTheorems, SequenceTheorems, WellFoundedInduction

-----------------------------------------------------------------------------
(* Induction, for sets: a definition by recursion is reasoned about with   *)
(* the set of the numbers for which a claim holds.                         *)

LEMMA LeastNumber ==
  ASSUME NEW T \in SUBSET Nat, T # {}
  PROVE  \E n \in T : \A m \in T : n <= m
<1> DEFINE below == {1 .. n : n \in T}
<1>1. below \subseteq FiniteSubsetsOf(Nat) /\ below # {}
  <2>1. ASSUME NEW n \in T PROVE 1 .. n \in SUBSET Nat /\ IsFiniteSet(1 .. n)
    <3>1. 1 \in Int /\ n \in Int
      OBVIOUS
    <3>2. QED
      BY <3>1, FS_Interval
  <2>2. QED
    BY <2>1, Zenon DEF FiniteSubsetsOf
<1>2. IsWellFoundedOn(StrictSubsetOrdering(Nat), FiniteSubsetsOf(Nat))
  BY FS_StrictSubsetOrderingWellFounded, Zenon
<1> HIDE DEF below
<1>3. PICK x \in below : \A y \in below : ~ (<<y, x>> \in StrictSubsetOrdering(Nat))
  BY <1>1, <1>2, WFMin, Zenon
<1>4. PICK n \in T : x = 1 .. n
  BY <1>3 DEF below
<1>5. ASSUME NEW m \in T, m < n PROVE FALSE
  <2>1. 1 .. m \in below
    BY DEF below
  <2>2. /\ 1 .. m \subseteq 1 .. n /\ n \in 1 .. n /\ n \notin 1 .. m
        /\ 1 .. m \in SUBSET Nat /\ 1 .. n \in SUBSET Nat
    BY <1>5
  <2>3. <<1 .. m, 1 .. n>> \in StrictSubsetOrdering(Nat)
    BY <2>2, Zenon DEF StrictSubsetOrdering
  <2>4. QED
    BY <1>3, <1>4, <2>1, <2>3
<1>6. QED
  BY <1>4, <1>5

LEMMA SetInduction ==
  ASSUME NEW S, 0 \in S, \A n \in Nat : n \in S => n + 1 \in S
  PROVE  Nat \subseteq S
<1> SUFFICES ASSUME Nat \ S # {} PROVE FALSE
  OBVIOUS
<1>1. PICK n \in Nat \ S : \A m \in Nat \ S : n <= m
  BY LeastNumber
<1>2. n # 0 /\ n - 1 \in Nat /\ n - 1 \notin Nat \ S
  BY <1>1
<1>3. QED
  BY <1>1, <1>2

-----------------------------------------------------------------------------
(* Concatenation of a list of sequences                                    *)

(* F[i] is the concatenation of the first i sequences of the list s. *)
Concats(s, F, S) ==
  /\ F \in [0 .. Len(s) -> Seq(S)]
  /\ F[0] = <<>>
  /\ \A i \in 1 .. Len(s) : F[i] = F[i - 1] \o s[i]

LEMMA ConcatsExist ==
  ASSUME NEW S, NEW s \in Seq(Seq(S))
  PROVE  \E F : Concats(s, F, S)
<1> DEFINE Upto(n, F) == /\ F \in [0 .. n -> Seq(S)] /\ F[0] = <<>>
                         /\ \A i \in 1 .. n : F[i] = F[i - 1] \o s[i]
           T == {n \in Nat : n <= Len(s) => \E F : Upto(n, F)}
<1>1. 0 \in T
  <2>1. <<>> \in Seq(S)
    BY EmptySeq
  <2>2. Upto(0, [i \in {0} |-> <<>>])
    BY <2>1
  <2>3. QED
    BY <2>2
<1>2. ASSUME NEW n \in Nat, n \in T, n + 1 <= Len(s) PROVE \E F : Upto(n + 1, F)
  <2>1. Len(s) \in Nat
    BY LenProperties
  <2>2. n <= Len(s)
    BY <1>2, <2>1
  <2>3. \E F : Upto(n, F)
    BY <1>2, <2>2, Zenon
  <2>4. PICK F : Upto(n, F)
    BY <2>3, Zenon
  <2> DEFINE e == F[n] \o s[n + 1]
             G == [i \in 0 .. n + 1 |-> IF i <= n THEN F[i] ELSE e]
  <2>5. F[n] \in Seq(S) /\ s[n + 1] \in Seq(S)
    BY <1>2, <2>1, <2>4, ElementOfSeq
  <2>6. e \in Seq(S)
    BY <2>5, ConcatProperties
  <2> HIDE DEF e
  <2>7. \A i \in 0 .. n : F[i] \in Seq(S)
    BY <2>4
  <2>8. G \in [0 .. n + 1 -> Seq(S)] /\ G[0] = <<>>
    BY <2>4, <2>6, <2>7
  <2>9. ASSUME NEW i \in 1 .. n + 1 PROVE G[i] = G[i - 1] \o s[i]
    <3> HIDE DEF G
    <3>1. CASE i \in 1 .. n
      <4>1. F[i] = F[i - 1] \o s[i]
        BY <2>4, <3>1
      <4>2. G[i] = F[i] /\ G[i - 1] = F[i - 1]
        BY <3>1 DEF G
      <4>3. QED
        BY <4>1, <4>2, Zenon
    <3>2. CASE i = n + 1
      <4>1. G[n + 1] = e /\ G[n] = F[n]
        BY DEF G
      <4>2. i - 1 = n
        BY <3>2
      <4>3. G[i] = e /\ G[i - 1] = F[n] /\ s[i] = s[n + 1]
        BY <3>2, <4>1, <4>2
      <4>4. QED
        BY <4>3, Zenon DEF e
    <3>3. i \in 1 .. n \/ i = n + 1
      OBVIOUS
    <3>4. QED
      BY <3>1, <3>2, <3>3, Zenon
  <2> HIDE DEF G
  <2>10. Upto(n + 1, G)
    BY <2>8, <2>9
  <2>11. QED
    BY <2>10, Zenon
<1>3. ASSUME NEW n \in Nat, n \in T PROVE n + 1 \in T
  <2>1. n + 1 \in Nat
    OBVIOUS
  <2>2. QED
    BY <1>2, <1>3, <2>1, Zenon
<1>4. Nat \subseteq T
  <2> HIDE DEF T
  <2>1. QED
    BY <1>1, <1>3, SetInduction
<1>5. Len(s) \in Nat /\ Len(s) <= Len(s)
  BY LenProperties
<1>6. \E F : Upto(Len(s), F)
  BY <1>4, <1>5, Zenon
<1>7. QED
  BY <1>6, Zenon DEF Concats

(* The recursion of FlattenSeq has one solution. *)
LEMMA RecursionIsUnique ==
  ASSUME NEW s, Len(s) \in Nat \ {0}, NEW F,
         F[1] = s[1], \A i \in 2 .. Len(s) : F[i] = F[i - 1] \o s[i]
  PROVE  FlattenSeq(s) = F[Len(s)]
<1> DEFINE N == Len(s)
<1>0. N \in Nat \ {0} /\ N # 0 /\ \A i \in 2 .. N : F[i] = F[i - 1] \o s[i]
  OBVIOUS
<1> HIDE DEF N
<1> USE <1>0
<1> DEFINE Rec(g) == g = [i \in 1 .. N |-> IF i = 1 THEN s[i] ELSE g[i - 1] \o s[i]]
           G == [i \in 1 .. N |-> F[i]]
<1>1. Rec(G)
  <2>1. ASSUME NEW i \in 1 .. N PROVE G[i] = IF i = 1 THEN s[i] ELSE G[i - 1] \o s[i]
    <3>1. CASE i = 1
      BY <3>1
    <3>2. CASE i # 1
      <4>1. i \in 2 .. N /\ i - 1 \in 1 .. N
        BY <3>2
      <4>2. G[i] = F[i] /\ G[i - 1] = F[i - 1]
        BY <4>1
      <4>3. QED
        BY <3>2, <4>1, <4>2, Zenon
    <3>3. QED
      BY <3>1, <3>2
  <2>2. G = [i \in 1 .. N |-> G[i]]
    OBVIOUS
  <2> HIDE DEF G
  <2>3. QED
    BY <2>1, <2>2, Zenon
<1>2. ASSUME NEW g, Rec(g) PROVE g = G
  <2> DEFINE T == {n \in Nat : n + 1 <= N => g[n + 1] = F[n + 1]}
  <2>0. \A i \in 1 .. N : g[i] = IF i = 1 THEN s[i] ELSE g[i - 1] \o s[i]
    BY <1>2, Zenon
  <2>1. 0 \in T
    BY <2>0
  <2>2. ASSUME NEW n \in Nat, n \in T PROVE n + 1 \in T
    <3>0. n + 1 \in Nat
      OBVIOUS
    <3> SUFFICES ASSUME (n + 1) + 1 <= N PROVE g[(n + 1) + 1] = F[(n + 1) + 1]
      BY <3>0, Zenon DEF T
    <3> DEFINE k == n + 1
    <3>1. k + 1 \in 2 .. N /\ (k + 1) - 1 = k /\ k \in 1 .. N /\ k + 1 # 1
      OBVIOUS
    <3>2. g[k] = F[k]
      BY <2>2, <3>1
    <3> HIDE DEF k
    <3>3. g[k + 1] = g[(k + 1) - 1] \o s[k + 1]
      <4>1. k + 1 \in 1 .. N
        BY <3>1
      <4>2. QED
        BY <2>0, <3>1, <4>1, Zenon
    <3>4. F[k + 1] = F[(k + 1) - 1] \o s[k + 1]
      BY <3>1
    <3>5. g[k + 1] = F[k + 1]
      BY <3>1, <3>2, <3>3, <3>4, Zenon
    <3>6. QED
      BY <3>5 DEF k
  <2>3. Nat \subseteq T
    <3> HIDE DEF T
    <3>1. QED
      BY <2>1, <2>2, SetInduction
  <2>4. ASSUME NEW i \in 1 .. N PROVE g[i] = F[i]
    <3>1. i - 1 \in Nat /\ (i - 1) + 1 = i /\ i <= N
      OBVIOUS
    <3>2. i - 1 \in T
      BY <2>3, <3>1, Zenon
    <3>3. QED
      BY <3>1, <3>2, Zenon
  <2>5. DOMAIN g = 1 .. N /\ g = [i \in 1 .. N |-> g[i]]
    BY <1>2
  <2>6. QED
    BY <2>4, <2>5, Zenon
<1>3. G[N] = F[N]
  OBVIOUS
<1> HIDE DEF G, Rec
<1>4. (CHOOSE g : Rec(g)) = G
  BY <1>1, <1>2, Zenon
<1>5. FlattenSeq(s) = (CHOOSE g : Rec(g))[N]
  BY <1>0, Zenon DEF FlattenSeq, Rec, N
<1>6. QED
  BY <1>3, <1>4, <1>5, Zenon DEF N

LEMMA FlattenIsConcats ==
  ASSUME NEW S, NEW s \in Seq(Seq(S)), NEW F, Concats(s, F, S)
  PROVE  FlattenSeq(s) = F[Len(s)]
<1>1. Len(s) \in Nat /\ (Len(s) = 0 => s = <<>>)
  BY LenProperties, EmptySeq
<1>2. CASE Len(s) = 0
  <2>1. F[Len(s)] = <<>>
    BY <1>2 DEF Concats
  <2>2. QED
    BY <1>1, <1>2, <2>1, Zenon DEF FlattenSeq
<1>3. CASE Len(s) # 0
  <2>1. F[1] = s[1]
    <3>1. 1 \in 1 .. Len(s) /\ 1 - 1 = 0
      BY <1>1, <1>3
    <3>2. F[1] = F[1 - 1] \o s[1] /\ F[0] = <<>>
      BY <3>1, Zenon DEF Concats
    <3>3. s[1] \in Seq(S)
      BY <3>1, ElementOfSeq
    <3>4. <<>> \o s[1] = s[1]
      BY <3>3, ConcatEmptySeq
    <3>5. QED
      BY <3>1, <3>2, <3>4, Zenon
  <2>2. \A i \in 2 .. Len(s) : F[i] = F[i - 1] \o s[i]
    <3>1. \A i \in 2 .. Len(s) : i \in 1 .. Len(s)
      BY <1>1
    <3>2. QED
      BY <3>1, Zenon DEF Concats
  <2>3. Len(s) \in Nat \ {0}
    BY <1>1, <1>3
  <2>4. QED
    BY <2>1, <2>2, <2>3, RecursionIsUnique, Zenon
<1>4. QED
  BY <1>2, <1>3

LEMMA FlattenIsSeq ==
  ASSUME NEW S, NEW s \in Seq(Seq(S))
  PROVE  FlattenSeq(s) \in Seq(S)
<1>1. PICK F : Concats(s, F, S)
  BY ConcatsExist, Zenon
<1>2. FlattenSeq(s) = F[Len(s)]
  BY <1>1, FlattenIsConcats, Zenon
<1>3. Len(s) \in 0 .. Len(s)
  BY LenProperties
<1>4. QED
  BY <1>1, <1>2, <1>3 DEF Concats

LEMMA Associated ==
  ASSUME NEW S, NEW x \in Seq(S), NEW y \in Seq(S), NEW z \in Seq(S), NEW yz, yz = y \o z
  PROVE  x \o yz = (x \o y) \o z
OBVIOUS

(***************************************************************************)
(* A list of lists is flattened part by part.                              *)
(***************************************************************************)
LEMMA FlattenConcat ==
  ASSUME NEW S, NEW s \in Seq(Seq(S)), NEW t \in Seq(Seq(S))
  PROVE  FlattenSeq(s \o t) = FlattenSeq(s) \o FlattenSeq(t)
<1>1. PICK F : Concats(s, F, S)
  BY ConcatsExist, Zenon
<1>2. PICK G : Concats(t, G, S)
  BY ConcatsExist, Zenon
<1>3. FlattenSeq(s) = F[Len(s)] /\ FlattenSeq(t) = G[Len(t)]
  BY <1>1, <1>2, FlattenIsConcats, Zenon
<1> DEFINE m == Len(s)
           n == Len(t)
           u == s \o t
           E(j) == F[m] \o G[j]
           H == [i \in 0 .. m + n |-> IF i <= m THEN F[i] ELSE E(i - m)]
<1>4. /\ m \in Nat /\ n \in Nat /\ u \in Seq(Seq(S)) /\ Len(u) = m + n
      /\ \A i \in 1 .. m : u[i] = s[i]
      /\ \A j \in 1 .. n : u[m + j] = t[j]
  <2>1. m \in Nat /\ n \in Nat
    BY LenProperties
  <2>2. /\ u \in Seq(Seq(S)) /\ Len(u) = m + n
        /\ \A i \in 1 .. m + n : u[i] = IF i <= m THEN s[i] ELSE t[i - m]
    BY ConcatProperties
  <2> HIDE DEF u, m, n
  <2>3. \A i \in 1 .. m : i \in 1 .. m + n /\ i <= m
    BY <2>1
  <2>4. \A j \in 1 .. n : m + j \in 1 .. m + n /\ ~(m + j <= m) /\ (m + j) - m = j
    BY <2>1
  <2>5. QED
    BY <2>1, <2>2, <2>3, <2>4, Zenon
<1>5. /\ F \in [0 .. m -> Seq(S)] /\ G \in [0 .. n -> Seq(S)]
      /\ F[0] = <<>> /\ G[0] = <<>>
      /\ \A i \in 1 .. m : F[i] = F[i - 1] \o s[i]
      /\ \A j \in 1 .. n : G[j] = G[j - 1] \o t[j]
      /\ \A j \in 1 .. n : t[j] \in Seq(S)
  <2>1. \A j \in 1 .. n : t[j] \in Seq(S)
    BY ElementOfSeq
  <2>2. QED
    BY <1>1, <1>2, <2>1, Zenon DEF Concats
<1> HIDE DEF m, n, u
<1>6. \A j \in 0 .. n : E(j) \in Seq(S)
  BY <1>4, <1>5, ConcatProperties
<1>7. E(0) = F[m]
  <2>1. F[m] \in Seq(S)
    BY <1>4, <1>5
  <2>2. QED
    BY <1>5, <2>1, ConcatEmptySeq
<1>8. \A j \in 1 .. n : E(j) = E(j - 1) \o t[j]
  <2> SUFFICES ASSUME NEW j \in 1 .. n PROVE E(j) = E(j - 1) \o t[j]
    BY Zenon
  <2>1. j - 1 \in 0 .. n /\ m \in 0 .. m
    BY <1>4
  <2>2. F[m] \in Seq(S) /\ G[j - 1] \in Seq(S) /\ t[j] \in Seq(S)
    BY <1>5, <2>1
  <2>3. G[j] = G[j - 1] \o t[j]
    BY <1>5
  <2> DEFINE a == F[m]
             b == G[j - 1]
             c == t[j]
             d == G[j]
  <2> HIDE DEF a, b, c, d
  <2>4. a \in Seq(S) /\ b \in Seq(S) /\ c \in Seq(S) /\ d = b \o c
    BY <2>2, <2>3, Zenon DEF a, b, c, d
  <2>5. a \o d = (a \o b) \o c
    BY <2>4, Associated
  <2>6. QED
    BY <2>5, Zenon DEF a, b, c, d, E
<1> HIDE DEF E
<1>9. H \in [0 .. m + n -> Seq(S)]
  BY <1>4, <1>5, <1>6
<1>10. /\ H[0] = <<>>
       /\ \A i \in 0 .. m : H[i] = F[i]
       /\ \A j \in 0 .. n : H[m + j] = E(j)
  <2>1. \A i \in 0 .. m : H[i] = F[i]
    BY <1>4
  <2>2. \A j \in 1 .. n : H[m + j] = E(j)
    BY <1>4
  <2>3. H[m + 0] = E(0)
    BY <1>4, <1>7
  <2>4. 0 \in 0 .. m /\ \A j \in 0 .. n : j = 0 \/ j \in 1 .. n
    BY <1>4
  <2>5. QED
    BY <1>5, <2>1, <2>2, <2>3, <2>4, Zenon
<1> HIDE DEF H
<1>11. \A i \in 1 .. m + n : H[i] = H[i - 1] \o u[i]
  <2> SUFFICES ASSUME NEW i \in 1 .. m + n PROVE H[i] = H[i - 1] \o u[i]
    BY Zenon
  <2>1. CASE i \in 1 .. m
    <3>1. i \in 0 .. m /\ i - 1 \in 0 .. m
      BY <1>4, <2>1
    <3>2. QED
      BY <1>4, <1>5, <1>10, <2>1, <3>1, Zenon
  <2>2. CASE i \notin 1 .. m
    <3> DEFINE j == i - m
    <3>1. j \in 1 .. n /\ j \in 0 .. n /\ j - 1 \in 0 .. n /\ i = m + j /\ i - 1 = m + (j - 1)
      BY <1>4, <2>2
    <3> HIDE DEF j
    <3>2. H[i] = E(j) /\ H[i - 1] = E(j - 1) /\ u[i] = t[j]
      BY <1>4, <1>10, <3>1, Zenon
    <3>3. QED
      BY <1>8, <3>1, <3>2, Zenon
  <2>3. QED
    BY <2>1, <2>2, Zenon
<1>12. Concats(u, H, S)
  BY <1>4, <1>9, <1>10, <1>11, Zenon DEF Concats
<1>13. FlattenSeq(u) = H[m + n]
  BY <1>4, <1>12, FlattenIsConcats, Zenon
<1>14. n \in 0 .. n
  BY <1>4
<1>15. QED
  BY <1>3, <1>10, <1>13, <1>14, Zenon DEF E, u, m, n

(* The first k fragments of fr, one after the other. *)
Joined(fr, k) == FlattenSeq([i \in 1 .. k |-> fr[i].text])

LEMMA JoinedAlike ==
  ASSUME NEW fr, NEW gr, NEW k, \A i \in 1 .. k : fr[i].text = gr[i].text
  PROVE  Joined(fr, k) = Joined(gr, k)
<1>1. [i \in 1 .. k |-> fr[i].text] = [i \in 1 .. k |-> gr[i].text]
  OBVIOUS
<1>2. QED
  BY <1>1, Zenon DEF Joined

LEMMA JoinedGrows ==
  ASSUME NEW S, NEW fr, Len(fr) \in Nat, \A i \in 1 .. Len(fr) : fr[i].text \in Seq(S)
  PROVE  /\ Joined(fr, 0) = <<>>
         /\ \A k \in 0 .. Len(fr) : Joined(fr, k) \in Seq(S)
         /\ \A k \in 1 .. Len(fr) : Joined(fr, k) = Joined(fr, k - 1) \o fr[k].text
<1> DEFINE N == Len(fr)
           T(k) == [i \in 1 .. k |-> fr[i].text]
<1>1. \A k \in 0 .. N : T(k) \in Seq(Seq(S)) /\ Len(T(k)) = k /\ \A i \in 1 .. k : T(k)[i] = fr[i].text
  OBVIOUS
<1>2. N \in 0 .. N
  OBVIOUS
<1> HIDE DEF T, N
<1>3. PICK F : Concats(T(N), F, S)
  BY <1>1, <1>2, ConcatsExist, Zenon
<1>4. N \in Nat /\ Len(T(N)) = N /\ F \in [0 .. N -> Seq(S)] /\ F[0] = <<>>
  BY <1>1, <1>2, <1>3 DEF Concats, N
<1>5. \A i \in 1 .. N : F[i] = F[i - 1] \o fr[i].text
  BY <1>1, <1>2, <1>3, <1>4, Zenon DEF Concats
<1>6. ASSUME NEW k \in 0 .. N PROVE Joined(fr, k) = F[k]
  <2> DEFINE G == [i \in 0 .. k |-> F[i]]
  <2>1. G \in [0 .. k -> Seq(S)] /\ G[0] = F[0] /\ G[k] = F[k]
    BY <1>4
  <2>2. ASSUME NEW i \in 1 .. k PROVE G[i] = G[i - 1] \o T(k)[i]
    <3>1. i \in 1 .. N /\ i \in 0 .. k /\ i - 1 \in 0 .. k
      BY <1>4
    <3>2. G[i] = F[i] /\ G[i - 1] = F[i - 1]
      BY <3>1
    <3>3. F[i] = F[i - 1] \o fr[i].text /\ T(k)[i] = fr[i].text
      BY <1>1, <1>5, <3>1, Zenon
    <3> HIDE DEF G
    <3>4. QED
      BY <3>2, <3>3, Zenon
  <2> HIDE DEF G
  <2>3. Concats(T(k), G, S)
    BY <1>1, <1>4, <2>1, <2>2, Zenon DEF Concats
  <2>4. FlattenSeq(T(k)) = F[k]
    BY <1>1, <2>1, <2>3, FlattenIsConcats, Zenon
  <2>5. QED
    BY <2>4, Zenon DEF Joined, T
<1>7. \A k \in 1 .. N : k \in 0 .. N /\ k - 1 \in 0 .. N
  BY <1>4
<1>8. 0 \in 0 .. N
  BY <1>4
<1>9. \A k \in 0 .. N : Joined(fr, k) \in Seq(S)
  BY <1>4, <1>6
<1>10. QED
  BY <1>4, <1>5, <1>6, <1>7, <1>8, <1>9, Zenon DEF N

-----------------------------------------------------------------------------
(* The inductive invariant                                                 *)

Fragments == [capacity : Nat, text : Seq(Octets)]

BuilderTypes ==
  /\ fragments \in Seq(Fragments) /\ current \in 1 .. Len(fragments)
  /\ savepoint \in (1 .. current) \union {NULL} /\ offset \in Nat
  /\ savepoint # NULL => offset <= Len(fragments[savepoint].text)
  /\ writing \in BOOLEAN /\ units \in Seq(CodeUnits) /\ bytes \in Seq(Octets)

BuilderInv == BuilderTypes /\ FragmentsPacked

(***************************************************************************)
(* Packed fragments tile the message: those before the current one have    *)
(* the full size and are full, so that the length of the text is known.    *)
(***************************************************************************)
LEMMA TextIsTiled ==
  ASSUME BuilderInv
  PROVE  /\ \A i \in 1 .. current - 1 :
              fragments[i].capacity = MaxFragmentSize /\ Len(fragments[i].text) = MaxFragmentSize
         /\ \A i \in 0 .. current - 1 : Len(Joined(fragments, i)) = i * MaxFragmentSize
         /\ \A i \in current .. Len(fragments) : Joined(fragments, i) = Joined(fragments, current)
         /\ Text = Joined(fragments, current)
         /\ Len(Text) = (current - 1) * MaxFragmentSize + Len(fragments[current].text)
         /\ Len(Text) <= Capacity
<1> DEFINE N == Len(fragments)
           M == MaxFragmentSize
           J(i) == Joined(fragments, i)
<1>1. /\ N \in Nat /\ current \in 1 .. N /\ M \in Nat \ {0} /\ Capacity \in Nat \ {0}
      /\ \A i \in 1 .. N : /\ fragments[i].text \in Seq(Octets)
                           /\ Len(fragments[i].text) \in Nat
                           /\ fragments[i].capacity \in Nat
  <2>1. N \in Nat /\ current \in 1 .. N
    BY LenProperties DEF BuilderInv, BuilderTypes
  <2>2. ASSUME NEW i \in 1 .. N
        PROVE  /\ fragments[i].text \in Seq(Octets) /\ Len(fragments[i].text) \in Nat
               /\ fragments[i].capacity \in Nat
    <3>1. fragments[i] \in Fragments
      BY <2>2, ElementOfSeq DEF BuilderInv, BuilderTypes
    <3>2. fragments[i].text \in Seq(Octets) /\ fragments[i].capacity \in Nat
      BY <3>1 DEF Fragments
    <3>3. QED
      BY <3>2, LenProperties
  <2>3. QED
    BY <2>1, <2>2, MessageAssumption
<1>2. /\ J(0) = <<>>
      /\ \A k \in 0 .. N : J(k) \in Seq(Octets)
      /\ \A k \in 1 .. N : J(k) = J(k - 1) \o fragments[k].text
  BY <1>1, JoinedGrows
<1>3. /\ \A i \in 1 .. N : /\ fragments[i].capacity = LeastOf(M, Capacity - (i - 1) * M)
                           /\ FreeIn(fragments[i]) >= 0
      /\ \A i \in 1 .. current - 1 : FreeIn(fragments[i]) = 0
      /\ \A i \in current + 1 .. N : fragments[i].text = <<>>
  BY DEF BuilderInv, FragmentsPacked
<1>4. Text = J(N)
  BY DEF Text, Joined
<1> HIDE DEF N, M, J
<1>5. Capacity - (current - 1) * M >= 0
  <2> DEFINE q == (current - 1) * M
  <2>1. q \in Int
    BY <1>1
  <2>2. fragments[current].capacity = LeastOf(M, Capacity - q) /\ fragments[current].capacity \in Nat
    BY <1>1, <1>3
  <2> HIDE DEF q
  <2>3. Capacity - q >= 0
    BY <1>1, <2>1, <2>2 DEF LeastOf
  <2>4. QED
    BY <2>3 DEF q
<1>6. ASSUME NEW i \in 1 .. current - 1
      PROVE  fragments[i].capacity = M /\ Len(fragments[i].text) = M
  <2>1. (i - 1) * M + M <= (current - 1) * M
    <3>1. PICK d \in Nat : current - 1 = i + d
      <4>1. (current - 1) - i \in Nat /\ current - 1 = i + ((current - 1) - i)
        BY <1>1
      <4>2. QED
        BY <4>1
    <3>2. (i + d) * M = (i - 1) * M + M + d * M /\ d * M >= 0
      BY <1>1
    <3>3. QED
      BY <1>1, <3>1, <3>2
  <2>2. i \in 1 .. N
    BY <1>1
  <2> DEFINE p == (i - 1) * M
             q == (current - 1) * M
  <2>3. p \in Int /\ q \in Int
    BY <1>1
  <2>4. /\ fragments[i].capacity = LeastOf(M, Capacity - p)
        /\ FreeIn(fragments[i]) = 0 /\ p + M <= q /\ Capacity - q >= 0
    BY <1>3, <1>5, <2>1, <2>2
  <2> HIDE DEF p, q
  <2>5. QED
    BY <1>1, <2>2, <2>3, <2>4 DEF LeastOf, FreeIn
<1>7. \A i \in 0 .. current - 1 : Len(J(i)) = i * M
  <2> DEFINE P == {i \in Nat : i <= current - 1 => Len(J(i)) = i * M}
  <2>1. 0 \in P
    BY <1>1, <1>2
  <2>2. ASSUME NEW i \in Nat, i \in P PROVE i + 1 \in P
    <3>1. CASE i + 1 <= current - 1
      <4>1. i + 1 \in 1 .. current - 1 /\ i + 1 \in 1 .. N /\ i \in 0 .. N /\ (i + 1) - 1 = i
        BY <1>1, <3>1
      <4>2. J(i + 1) = J(i) \o fragments[i + 1].text
        BY <1>2, <4>1, Zenon
      <4>3. Len(fragments[i + 1].text) = M /\ Len(J(i)) = i * M
        BY <1>1, <1>6, <2>2, <3>1, <4>1
      <4>4. J(i) \in Seq(Octets) /\ fragments[i + 1].text \in Seq(Octets)
        BY <1>1, <1>2, <4>1
      <4>5. Len(J(i + 1)) = i * M + M
        BY <4>2, <4>3, <4>4, ConcatProperties
      <4>6. (i + 1) * M = i * M + M
        BY <1>1
      <4>7. QED
        BY <4>5, <4>6
    <3>2. CASE ~(i + 1 <= current - 1)
      BY <3>2
    <3>3. QED
      BY <3>1, <3>2
  <2> HIDE DEF P
  <2>3. Nat \subseteq P
    BY <2>1, <2>2, SetInduction
  <2>4. QED
    BY <1>1, <2>3 DEF P
<1>8. \A i \in current .. N : J(i) = J(current)
  <2> DEFINE P == {i \in Nat : i + current <= N => J(i + current) = J(current)}
  <2>1. 0 \in P
    BY <1>1
  <2>2. ASSUME NEW i \in Nat, i \in P PROVE i + 1 \in P
    <3>1. CASE (i + 1) + current <= N
      <4> DEFINE k == i + current
      <4>1. /\ (i + 1) + current = k + 1 /\ k + 1 \in 1 .. N /\ k + 1 \in current + 1 .. N
            /\ (k + 1) - 1 = k /\ k \in 0 .. N /\ k <= N
        BY <1>1, <3>1
      <4>2. J(k) = J(current)
        BY <2>2, <4>1
      <4> HIDE DEF k
      <4>3. J(k + 1) = J(k) \o fragments[k + 1].text /\ fragments[k + 1].text = <<>>
        BY <1>2, <1>3, <4>1, Zenon
      <4>4. J(k + 1) = J(k) \o <<>> /\ J(k) \in Seq(Octets)
        BY <1>2, <4>1, <4>3, Zenon
      <4>5. J(k) \o <<>> = J(k)
        BY <4>4, ConcatEmptySeq
      <4>6. J((i + 1) + current) = J(current)
        BY <4>1, <4>2, <4>4, <4>5, Zenon
      <4>7. QED
        BY <4>6
    <3>2. CASE ~((i + 1) + current <= N)
      BY <3>2
    <3>3. QED
      BY <3>1, <3>2
  <2> HIDE DEF P
  <2>3. Nat \subseteq P
    BY <2>1, <2>2, SetInduction
  <2> SUFFICES ASSUME NEW i \in current .. N PROVE J(i) = J(current)
    BY Zenon
  <2>4. i - current \in Nat /\ (i - current) + current = i /\ i <= N
    BY <1>1
  <2>5. (i - current) \in P
    BY <2>3, <2>4
  <2>6. QED
    BY <2>4, <2>5, Zenon DEF P
<1>9. Text = J(current)
  <2>1. N \in current .. N
    BY <1>1
  <2>2. QED
    BY <1>4, <1>8, <2>1
<1>10. Len(Text) = (current - 1) * M + Len(fragments[current].text)
  <2>1. current - 1 \in 0 .. N /\ current - 1 \in 0 .. current - 1
    BY <1>1
  <2>2. J(current) = J(current - 1) \o fragments[current].text
    BY <1>1, <1>2
  <2>3. J(current - 1) \in Seq(Octets) /\ Len(J(current - 1)) = (current - 1) * M
    BY <1>2, <1>7, <2>1
  <2>4. QED
    BY <1>1, <1>9, <2>2, <2>3, ConcatProperties
<1>11. Len(Text) <= Capacity
  <2> DEFINE q == (current - 1) * M
  <2>1. q \in Int /\ Len(Text) = q + Len(fragments[current].text)
    BY <1>1, <1>10
  <2>2. fragments[current].capacity = LeastOf(M, Capacity - q) /\ FreeIn(fragments[current]) >= 0
    BY <1>1, <1>3
  <2> HIDE DEF q
  <2>3. QED
    BY <1>1, <2>1, <2>2 DEF LeastOf, FreeIn
<1>12. QED
  BY <1>6, <1>7, <1>8, <1>9, <1>10, <1>11, Zenon DEF N, M, J

-----------------------------------------------------------------------------
(* Conversion by chunks                                                    *)

Converted == Octets \union {BAD}

LEMMA CharIsBytes ==
  ASSUME NEW s \in Seq(CodeUnits), NEW i \in 1 .. Len(s)
  PROVE  CharBytes(s, i) \in Seq(Converted)
<1>1. Len(s) \in Nat /\ s[i] \in BMP \union {HIGH, LOW}
  BY LenProperties, ElementOfSeq DEF CodeUnits
<1>2. CASE s[i] \in BMP
  <2>1. CharBytes(s, i) = [k \in 1 .. Width[s[i]] |-> <<s[i], k>>]
    BY <1>2, Utf16Assumption DEF CharBytes, IsHigh, IsLow
  <2>2. Width[s[i]] \in 1 .. 3
    BY <1>2, Utf16Assumption
  <2>3. \A k \in 1 .. Width[s[i]] : <<s[i], k>> \in Converted
    BY <1>2, <2>2 DEF Converted, Octets
  <2>4. QED
    BY <2>1, <2>2, <2>3
<1>3. CASE s[i] = HIGH
  <2>1. IsHigh(s, i) /\ ~IsLow(s, i) /\ s[i] \notin BMP
    BY <1>3, Utf16Assumption DEF IsHigh, IsLow
  <2>2. CharBytes(s, i) = [k \in 1 .. 4 |-> <<PAIR, k>>] \/ CharBytes(s, i) = <<BAD>>
    BY <2>1 DEF CharBytes
  <2>3. \A k \in 1 .. 4 : <<PAIR, k>> \in Converted
    BY DEF Converted, Octets
  <2>4. [k \in 1 .. 4 |-> <<PAIR, k>>] \in Seq(Converted)
    BY <2>3
  <2>5. <<BAD>> \in Seq(Converted)
    BY DEF Converted
  <2>6. QED
    BY <2>2, <2>4, <2>5
<1>4. CASE s[i] = LOW
  <2>1. IsLow(s, i) /\ ~IsHigh(s, i) /\ s[i] \notin BMP
    BY <1>4, Utf16Assumption DEF IsHigh, IsLow
  <2>2. CharBytes(s, i) = <<>> \/ CharBytes(s, i) = <<BAD>>
    BY <2>1 DEF CharBytes
  <2>3. <<>> \in Seq(Converted) /\ <<BAD>> \in Seq(Converted)
    BY DEF Converted
  <2>4. QED
    BY <2>2, <2>3
<1>5. QED
  BY <1>1, <1>2, <1>3, <1>4

(* A code unit stands for the same bytes wherever its other half is seen.  *)
LEMMA CharAlike ==
  ASSUME NEW s \in Seq(CodeUnits), NEW i \in 1 .. Len(s),
         NEW t \in Seq(CodeUnits), NEW j \in 1 .. Len(t),
         s[i] = t[j],
         s[i] = HIGH => (IsLow(s, i + 1) <=> IsLow(t, j + 1)),
         s[i] = LOW => (IsHigh(s, i - 1) <=> IsHigh(t, j - 1))
  PROVE  CharBytes(s, i) = CharBytes(t, j)
<1>1. s[i] \in BMP \union {HIGH, LOW}
  BY ElementOfSeq DEF CodeUnits
<1>2. CASE s[i] \in BMP
  BY <1>2, Utf16Assumption DEF CharBytes, IsHigh, IsLow
<1>3. CASE s[i] = HIGH
  <2>1. /\ IsHigh(s, i) /\ ~IsLow(s, i) /\ s[i] \notin BMP
        /\ IsHigh(t, j) /\ ~IsLow(t, j) /\ t[j] \notin BMP
    BY <1>3, Utf16Assumption DEF IsHigh, IsLow
  <2>2. QED
    BY <1>3, <2>1 DEF CharBytes
<1>4. CASE s[i] = LOW
  <2>1. /\ IsLow(s, i) /\ ~IsHigh(s, i) /\ s[i] \notin BMP
        /\ IsLow(t, j) /\ ~IsHigh(t, j) /\ t[j] \notin BMP
    BY <1>4, Utf16Assumption DEF IsHigh, IsLow
  <2>2. QED
    BY <1>4, <2>1 DEF CharBytes
<1>5. QED
  BY <1>1, <1>2, <1>3, <1>4

Chars(s) == [i \in 1 .. Len(s) |-> CharBytes(s, i)]

LEMMA EncodeIsSeq ==
  ASSUME NEW s \in Seq(CodeUnits)
  PROVE  /\ Chars(s) \in Seq(Seq(Converted)) /\ Len(Chars(s)) = Len(s)
         /\ \A i \in 1 .. Len(s) : Chars(s)[i] = CharBytes(s, i)
         /\ Encode(s) = FlattenSeq(Chars(s))
         /\ Encode(s) \in Seq(Converted)
         /\ Encode(<<>>) = <<>>
<1>1. \A i \in 1 .. Len(s) : CharBytes(s, i) \in Seq(Converted)
  BY CharIsBytes
<1>2. Len(s) \in Nat
  BY LenProperties
<1>3. Chars(s) \in Seq(Seq(Converted)) /\ Len(Chars(s)) = Len(s)
  BY <1>1, <1>2 DEF Chars
<1>4. Encode(s) = FlattenSeq(Chars(s))
  BY Zenon DEF Encode, Chars
<1>5. Encode(s) \in Seq(Converted)
  BY <1>3, <1>4, FlattenIsSeq
<1>6. Encode(<<>>) = <<>>
  <2>1. [i \in 1 .. Len(<<>>) |-> CharBytes(<<>>, i)] = <<>>
    OBVIOUS
  <2>2. Len(<<>>) = 0
    OBVIOUS
  <2>3. FlattenSeq(<<>>) = <<>>
    BY <2>2, Zenon DEF FlattenSeq
  <2>4. QED
    BY <2>1, <2>3, Zenon DEF Encode
<1>7. \A i \in 1 .. Len(s) : Chars(s)[i] = CharBytes(s, i)
  BY Zenon DEF Chars
<1>8. QED
  BY <1>3, <1>4, <1>5, <1>6, <1>7

(***************************************************************************)
(* A text may be converted in two parts unless the cut is between the      *)
(* halves of a pair.                                                       *)
(***************************************************************************)
LEMMA EncodeSplit ==
  ASSUME NEW s \in Seq(CodeUnits), NEW n \in 0 .. Len(s),
         ~(IsHigh(s, n) /\ IsLow(s, n + 1))
  PROVE  LET a == SubSeq(s, 1, n)
             b == SubSeq(s, n + 1, Len(s))
         IN  /\ a \in Seq(CodeUnits) /\ b \in Seq(CodeUnits)
             /\ Encode(s) = Encode(a) \o Encode(b)
<1> DEFINE a == SubSeq(s, 1, n)
           b == SubSeq(s, n + 1, Len(s))
           m == Len(s) - n
<1>1. /\ Len(s) \in Nat /\ m \in Nat /\ Len(s) = n + m /\ n \in Nat
      /\ a \in Seq(CodeUnits) /\ Len(a) = n /\ \A i \in 1 .. n : a[i] = s[i]
      /\ b \in Seq(CodeUnits) /\ Len(b) = m /\ \A j \in 1 .. m : b[j] = s[n + j]
  <2>1. Len(s) \in Nat /\ m \in Nat /\ Len(s) = n + m /\ n \in Nat
    BY LenProperties
  <2>2. \A i \in 1 .. Len(s) : s[i] \in CodeUnits
    BY ElementOfSeq
  <2>3. a \in Seq(CodeUnits) /\ Len(a) = n /\ \A i \in 1 .. n : a[i] = s[i]
    BY <2>1, <2>2
  <2>4. b \in Seq(CodeUnits) /\ Len(b) = m /\ \A j \in 1 .. m : b[j] = s[n + j]
    <3>1. n + 1 \in Int /\ Len(s) \in Int /\ \A i \in n + 1 .. Len(s) : s[i] \in CodeUnits
      BY <2>1, <2>2
    <3>2. /\ b \in Seq(CodeUnits)
          /\ Len(b) = IF n + 1 <= Len(s) THEN Len(s) - (n + 1) + 1 ELSE 0
          /\ \A j \in 1 .. Len(s) - (n + 1) + 1 : b[j] = s[n + 1 + j - 1]
      BY <3>1, SubSeqProperties
    <3> HIDE DEF b
    <3>3. ASSUME NEW j \in 1 .. m PROVE b[j] = s[n + j]
      <4>1. j \in 1 .. Len(s) - (n + 1) + 1 /\ n + 1 + j - 1 = n + j
        BY <2>1
      <4>2. QED
        BY <3>2, <4>1
    <3>4. Len(b) = m
      <4> DEFINE l == Len(s)
                 r == Len(b)
      <4> HIDE DEF l, r
      <4>1. r = IF n + 1 <= l THEN l - (n + 1) + 1 ELSE 0
        BY <3>2, Zenon DEF l, r
      <4>2. l \in Nat /\ n \in 0 .. l
        BY <2>1, Zenon DEF l
      <4>3. r = l - n
        BY <4>1, <4>2
      <4>4. QED
        BY <4>3, Zenon DEF l, r
    <3>5. QED
      BY <3>2, <3>3, <3>4, Zenon
  <2>5. QED
    BY <2>1, <2>3, <2>4
<1> HIDE DEF a, b, m
<1>2. \A i \in 1 .. n : CharBytes(a, i) = CharBytes(s, i)
  <2> SUFFICES ASSUME NEW i \in 1 .. n PROVE CharBytes(a, i) = CharBytes(s, i)
    BY Zenon
  <2>1. i \in 1 .. Len(s) /\ i \in 1 .. Len(a) /\ a[i] = s[i]
    BY <1>1
  <2>2. a[i] = LOW => (IsHigh(a, i - 1) <=> IsHigh(s, i - 1))
    BY <1>1, <2>1 DEF IsHigh
  <2>3. a[i] = HIGH => (IsLow(a, i + 1) <=> IsLow(s, i + 1))
    <3>1. CASE i = n
      BY <1>1, <2>1, <3>1 DEF IsHigh, IsLow
    <3>2. CASE i + 1 \in 1 .. n
      BY <1>1, <3>2 DEF IsLow
    <3>3. QED
      BY <1>1, <3>1, <3>2
  <2>4. QED
    BY <1>1, <2>1, <2>2, <2>3, CharAlike
<1>3. \A j \in 1 .. m : CharBytes(b, j) = CharBytes(s, n + j)
  <2> SUFFICES ASSUME NEW j \in 1 .. m PROVE CharBytes(b, j) = CharBytes(s, n + j)
    BY Zenon
  <2> DEFINE k == n + j
  <2>1. /\ k \in 1 .. Len(s) /\ j \in 1 .. Len(b) /\ b[j] = s[k] /\ k \in Nat
        /\ j = 1 => k - 1 = n /\ k = n + 1
        /\ j # 1 => j - 1 \in 1 .. m /\ k - 1 = n + (j - 1) /\ k - 1 \in 1 .. Len(s)
        /\ j = m => k = Len(s)
        /\ j # m => j + 1 \in 1 .. m /\ k + 1 = n + (j + 1) /\ k + 1 \in 1 .. Len(s)
    BY <1>1
  <2> HIDE DEF k
  <2>2. b[j] = LOW => (IsHigh(b, j - 1) <=> IsHigh(s, k - 1))
    <3>1. CASE j = 1
      <4>1. j - 1 \notin 1 .. Len(b)
        BY <3>1
      <4>2. b[j] = LOW => IsLow(s, n + 1)
        BY <2>1, <3>1 DEF IsLow
      <4>3. ~IsHigh(b, j - 1)
        BY <4>1 DEF IsHigh
      <4>4. QED
        BY <2>1, <3>1, <4>2, <4>3
    <3>2. CASE j # 1
      <4>1. b[j - 1] = s[k - 1]
        BY <1>1, <2>1, <3>2
      <4>2. QED
        BY <1>1, <2>1, <3>2, <4>1 DEF IsHigh
    <3>3. QED
      BY <3>1, <3>2
  <2>3. b[j] = HIGH => (IsLow(b, j + 1) <=> IsLow(s, k + 1))
    <3>1. CASE j = m
      BY <1>1, <2>1, <3>1 DEF IsLow
    <3>2. CASE j # m
      <4>1. b[j + 1] = s[k + 1]
        BY <1>1, <2>1, <3>2
      <4>2. QED
        BY <1>1, <2>1, <3>2, <4>1 DEF IsLow
    <3>3. QED
      BY <3>1, <3>2
  <2>4. CharBytes(b, j) = CharBytes(s, k)
    BY <1>1, <2>1, <2>2, <2>3, CharAlike
  <2>5. QED
    BY <2>4, Zenon DEF k
<1>4. Chars(s) = Chars(a) \o Chars(b)
  <2>1. /\ Chars(s) \in Seq(Seq(Converted)) /\ Len(Chars(s)) = n + m
        /\ Chars(a) \in Seq(Seq(Converted)) /\ Len(Chars(a)) = n
        /\ Chars(b) \in Seq(Seq(Converted)) /\ Len(Chars(b)) = m
        /\ \A i \in 1 .. n + m : Chars(s)[i] = CharBytes(s, i)
        /\ \A i \in 1 .. n : Chars(a)[i] = CharBytes(a, i)
        /\ \A i \in 1 .. m : Chars(b)[i] = CharBytes(b, i)
    BY <1>1, EncodeIsSeq
  <2> DEFINE x == Chars(a)
             y == Chars(b)
             z == Chars(s)
  <2> HIDE DEF x, y, z
  <2>2. /\ x \o y \in Seq(Seq(Converted)) /\ Len(x \o y) = n + m
        /\ \A i \in 1 .. n + m : (x \o y)[i] = IF i <= n THEN x[i] ELSE y[i - n]
    <3>1. x \in Seq(Seq(Converted)) /\ y \in Seq(Seq(Converted)) /\ Len(x) = n /\ Len(y) = m
      BY <2>1, Zenon DEF x, y
    <3>2. QED
      BY <3>1, ConcatProperties
  <2>3. ASSUME NEW i \in 1 .. n + m PROVE z[i] = (x \o y)[i]
    <3>1. CASE i <= n
      <4>1. i \in 1 .. n
        BY <1>1, <3>1
      <4>2. x[i] = CharBytes(a, i) /\ z[i] = CharBytes(s, i)
        BY <2>1, <4>1, Zenon DEF x, z
      <4>3. QED
        BY <1>2, <2>2, <3>1, <4>1, <4>2, Zenon
    <3>2. CASE ~(i <= n)
      <4>1. i - n \in 1 .. m /\ n + (i - n) = i
        BY <1>1, <3>2
      <4>2. y[i - n] = CharBytes(b, i - n) /\ z[i] = CharBytes(s, i)
        BY <2>1, <4>1, Zenon DEF y, z
      <4>3. CharBytes(b, i - n) = CharBytes(s, i)
        BY <1>3, <4>1
      <4>4. (x \o y)[i] = y[i - n]
        BY <2>2, <3>2, Zenon
      <4>5. QED
        BY <4>2, <4>3, <4>4, Zenon
    <3>3. QED
      BY <3>1, <3>2, Zenon
  <2>4. z \in Seq(Seq(Converted)) /\ Len(z) = n + m
    BY <2>1, Zenon DEF z
  <2> DEFINE w == x \o y
  <2> HIDE DEF w
  <2>5. w \in Seq(Seq(Converted)) /\ Len(w) = n + m /\ \A i \in 1 .. n + m : z[i] = w[i]
    BY <2>2, <2>3, Zenon DEF w
  <2>6. z = w
    BY <2>4, <2>5, SeqEqual
  <2>7. QED
    BY <2>6, Zenon DEF w, x, y, z
<1>5. FlattenSeq(Chars(a) \o Chars(b)) = FlattenSeq(Chars(a)) \o FlattenSeq(Chars(b))
  <2>1. Chars(a) \in Seq(Seq(Converted)) /\ Chars(b) \in Seq(Seq(Converted))
    BY <1>1, EncodeIsSeq
  <2>2. QED
    BY <2>1, FlattenConcat, Zenon
<1>6. Encode(s) = Encode(a) \o Encode(b)
  <2>1. /\ Encode(s) = FlattenSeq(Chars(s)) /\ Encode(a) = FlattenSeq(Chars(a))
        /\ Encode(b) = FlattenSeq(Chars(b))
    BY <1>1, EncodeIsSeq, Zenon
  <2>2. QED
    BY <1>4, <1>5, <2>1, Zenon
<1>7. QED
  BY <1>1, <1>6, Zenon DEF a, b

-----------------------------------------------------------------------------
(* The invariant is inductive                                              *)

LEMMA ChunkIsNoCut ==
  ASSUME NEW s \in Seq(CodeUnits), s # <<>>
  PROVE  /\ ChunkSize(s) \in 0 .. Len(s)
         /\ ~(IsHigh(s, ChunkSize(s)) /\ IsLow(s, ChunkSize(s) + 1))
<1> DEFINE n == LeastOf(Len(s), MaxChunkSize)
<1>1. /\ Len(s) \in Nat \ {0} /\ MaxChunkSize \in Nat \ {0} /\ HIGH # LOW
  BY MessageAssumption, Utf16Assumption, LenProperties, EmptySeq
<1>2. n \in 1 .. Len(s)
  BY <1>1 DEF LeastOf
<1> HIDE DEF n
<1>3. ChunkSize(s) = IF n < Len(s) /\ IsHigh(s, n) THEN n - 1 ELSE n
  BY DEF ChunkSize, n
<1>4. CASE n < Len(s) /\ IsHigh(s, n)
  <2>1. ChunkSize(s) = n - 1 /\ (n - 1) + 1 = n /\ ~IsLow(s, n)
    BY <1>1, <1>2, <1>3, <1>4 DEF IsHigh, IsLow
  <2>2. QED
    BY <1>1, <1>2, <2>1
<1>5. CASE ~(n < Len(s) /\ IsHigh(s, n))
  <2>1. ChunkSize(s) = n
    BY <1>3, <1>5
  <2>2. n < Len(s) \/ n + 1 \notin 1 .. Len(s)
    BY <1>1, <1>2
  <2>3. QED
    BY <1>2, <1>5, <2>1, <2>2 DEF IsLow
<1>6. QED
  BY <1>4, <1>5

LEMMA WellFormedIsOctets ==
  ASSUME NEW s \in Seq(CodeUnits), WellFormed(s)
  PROVE  Encode(s) \in Seq(Octets)
<1> DEFINE e == Encode(s)
<1>1. e \in Seq(Converted)
  BY EncodeIsSeq
<1>2. \A i \in 1 .. Len(e) : e[i] # BAD
  BY Zenon DEF WellFormed, Contains
<1> HIDE DEF e
<1>3. \A i \in 1 .. Len(e) : e[i] \in Octets
  BY <1>1, <1>2, ElementOfSeq DEF Converted
<1>4. QED
  BY <1>1, <1>3 DEF e

(* What the invariant says of each fragment.                               *)
LEMMA FragmentsAre ==
  ASSUME BuilderInv
  PROVE  /\ Len(fragments) \in Nat /\ current \in 1 .. Len(fragments)
         /\ \A i \in 1 .. Len(fragments) :
              /\ fragments[i] \in Fragments
              /\ fragments[i].text \in Seq(Octets) /\ Len(fragments[i].text) \in Nat
              /\ fragments[i].capacity \in Nat
              /\ Len(fragments[i].text) <= fragments[i].capacity
<1>1. Len(fragments) \in Nat /\ current \in 1 .. Len(fragments)
  BY LenProperties DEF BuilderInv, BuilderTypes
<1>2. ASSUME NEW i \in 1 .. Len(fragments)
      PROVE  /\ fragments[i] \in Fragments
             /\ fragments[i].text \in Seq(Octets) /\ Len(fragments[i].text) \in Nat
             /\ fragments[i].capacity \in Nat
             /\ Len(fragments[i].text) <= fragments[i].capacity
  <2>1. fragments[i] \in Fragments
    BY <1>2, ElementOfSeq DEF BuilderInv, BuilderTypes
  <2>2. fragments[i].text \in Seq(Octets) /\ fragments[i].capacity \in Nat
    BY <2>1 DEF Fragments
  <2>3. Len(fragments[i].text) \in Nat
    BY <2>2, LenProperties
  <2>4. FreeIn(fragments[i]) >= 0
    BY <1>2 DEF BuilderInv, FragmentsPacked
  <2>5. QED
    BY <2>1, <2>2, <2>3, <2>4 DEF FreeIn
<1>3. QED
  BY <1>1, <1>2

LEMMA BuilderInit == Init => BuilderInv
<1> SUFFICES ASSUME Init PROVE BuilderInv
  OBVIOUS
<1>1. /\ Capacity \in Nat \ {0} /\ MaxFragmentSize \in Nat \ {0}
  BY MessageAssumption
<1> DEFINE c == LeastOf(MaxFragmentSize, Capacity)
           f == NewFragment(c)
<1>2. c \in Nat
  BY <1>1 DEF LeastOf
<1>3. f \in Fragments /\ f.text = <<>> /\ f.capacity = c
  BY <1>2 DEF NewFragment, Fragments
<1>4. fragments = <<f>> /\ current = 1
  BY DEF Init
<1>5. FreeIn(f) = c
  BY <1>2, <1>3 DEF FreeIn
<1> HIDE DEF c, f
<1>6. Len(fragments) = 1 /\ fragments[1] = f /\ fragments \in Seq(Fragments)
  BY <1>3, <1>4
<1>7. BuilderTypes
  <2>1. current \in 1 .. Len(fragments)
    BY <1>4, <1>6
  <2>2. savepoint = NULL /\ offset \in Nat
    BY DEF Init
  <2>3. units \in Seq(CodeUnits) /\ bytes \in Seq(Octets)
    BY DEF Init
  <2>4. writing \in BOOLEAN
    BY Zenon DEF Init
  <2>5. QED
    BY <1>6, <2>1, <2>2, <2>3, <2>4, Zenon DEF BuilderTypes
<1>8. c = LeastOf(MaxFragmentSize, Capacity - (1 - 1) * MaxFragmentSize)
  BY <1>1 DEF c
<1>9. FragmentsPacked
  <2>1. \A i \in 1 .. 1 : i = 1
    OBVIOUS
  <2>2. 1 .. (1 - 1) = {} /\ (1 + 1) .. 1 = {}
    OBVIOUS
  <2>3. FreeIn(f) >= 0
    BY <1>2, <1>5
  <2>4. QED
    BY <1>3, <1>4, <1>6, <1>8, <2>1, <2>2, <2>3, Zenon DEF FragmentsPacked
<1>10. QED
  BY <1>7, <1>9 DEF BuilderInv

LEMMA CallKeepsInv ==
  ASSUME BuilderInv, UNCHANGED builder,
         writing' \in BOOLEAN, units' \in Seq(CodeUnits), bytes' \in Seq(Octets)
  PROVE  BuilderInv'
BY DEF BuilderInv, BuilderTypes, FragmentsPacked, builder

LEMMA CopyKeepsInv == BuilderInv /\ Copy => BuilderInv'
<1> SUFFICES ASSUME BuilderInv, Copy PROVE BuilderInv'
  OBVIOUS
<1> DEFINE c == current
           f == fragments[c]
           n == LeastOf(Len(bytes), FreeIn(f))
           p == SubSeq(bytes, 1, n)
           t == f.text \o p
<1>1. /\ Len(fragments) \in Nat /\ c \in 1 .. Len(fragments)
      /\ \A i \in 1 .. Len(fragments) :
           /\ fragments[i] \in Fragments
           /\ fragments[i].text \in Seq(Octets) /\ Len(fragments[i].text) \in Nat
           /\ fragments[i].capacity \in Nat
           /\ Len(fragments[i].text) <= fragments[i].capacity
  BY FragmentsAre
<1>2. bytes \in Seq(Octets) /\ Len(bytes) \in Nat /\ fragments \in Seq(Fragments)
  BY LenProperties DEF BuilderInv, BuilderTypes
<1>3. FreeIn(f) = f.capacity - Len(f.text) /\ FreeIn(f) > 0
  BY DEF Copy, FreeIn
<1>4. n \in 0 .. Len(bytes) /\ n <= FreeIn(f) /\ n \in Nat
  BY <1>1, <1>2, <1>3 DEF LeastOf
<1>5. /\ fragments' = [fragments EXCEPT ![c].text = t]
      /\ bytes' = SubSeq(bytes, n + 1, Len(bytes))
      /\ UNCHANGED <<current, savepoint, offset, writing, units, result>>
  BY Zenon DEF Copy
<1>6. bytes' \in Seq(Octets) /\ p \in Seq(Octets) /\ Len(p) = n
  <2> HIDE DEF n
  <2>1. \A i \in 1 .. Len(bytes) : bytes[i] \in Octets
    BY <1>2, ElementOfSeq
  <2>2. SubSeq(bytes, n + 1, Len(bytes)) \in Seq(Octets)
    BY <1>2, <1>4, <2>1
  <2>3. p \in Seq(Octets) /\ Len(p) = n
    BY <1>2, <1>4, <2>1
  <2>4. QED
    BY <1>5, <2>2, <2>3
<1> HIDE DEF n, p
<1>7. t \in Seq(Octets) /\ Len(t) = Len(f.text) + n
  BY <1>1, <1>6, ConcatProperties
<1> HIDE DEF t
<1>8. /\ Len(fragments') = Len(fragments) /\ fragments' \in Seq(Fragments)
      /\ \A i \in 1 .. Len(fragments) : i # c => fragments'[i] = fragments[i]
      /\ fragments'[c] = [fragments[c] EXCEPT !.text = t]
  <2>1. [fragments[c] EXCEPT !.text = t] \in Fragments
    BY <1>1, <1>7 DEF Fragments
  <2>2. QED
    BY <1>1, <1>2, <1>5, <2>1
<1>9. /\ fragments'[c].text = t /\ fragments'[c].capacity = fragments[c].capacity
  BY <1>1, <1>8 DEF Fragments
<1>10. BuilderTypes'
  <2>1. savepoint # NULL => /\ savepoint \in 1 .. Len(fragments)
                            /\ offset <= Len(fragments[savepoint].text) /\ offset \in Nat
    BY <1>1 DEF BuilderInv, BuilderTypes
  <2>2. savepoint # NULL => offset <= Len(fragments'[savepoint].text)
    <3>1. CASE savepoint = c
      <4>1. fragments'[savepoint].text = t
        BY <1>9, <3>1, Zenon
      <4>2. QED
        BY <1>1, <1>4, <1>7, <2>1, <3>1, <4>1
    <3>2. CASE savepoint # c
      BY <1>8, <2>1, <3>2, Zenon
    <3>3. QED
      BY <3>1, <3>2, Zenon
  <2>3. QED
    BY <1>5, <1>6, <1>8, <2>2 DEF BuilderInv, BuilderTypes
<1>11. FragmentsPacked'
  <2>1. ASSUME NEW i \in 1 .. Len(fragments)
        PROVE  fragments'[i].capacity = fragments[i].capacity /\ FreeIn(fragments'[i]) >= 0
    <3>1. CASE i = c
      <4> DEFINE g == fragments'[i]
      <4>1. g.text = t /\ g.capacity = f.capacity
        BY <1>9, <3>1, Zenon
      <4> HIDE DEF g, f
      <4>2. f.capacity - Len(f.text) \in Int /\ f.capacity \in Nat /\ Len(f.text) \in Nat
        BY <1>1 DEF f
      <4>3. FreeIn(g) >= 0
        BY <1>3, <1>4, <1>7, <4>1, <4>2 DEF FreeIn
      <4>4. QED
        BY <3>1, <4>1, <4>3, Zenon DEF g, f
    <3>2. CASE i # c
      BY <1>1, <1>8, <3>2 DEF FreeIn
    <3>3. QED
      BY <3>1, <3>2, Zenon
  <2>2. \A i \in 1 .. (current - 1) : fragments'[i] = fragments[i]
    BY <1>1, <1>8
  <2>3. \A i \in (current + 1) .. Len(fragments) : fragments'[i] = fragments[i]
    BY <1>1, <1>8
  <2> HIDE DEF c, f
  <2>4. QED
    BY <1>5, <1>8, <2>1, <2>2, <2>3 DEF BuilderInv, FragmentsPacked
<1>12. QED
  BY <1>10, <1>11 DEF BuilderInv

LEMMA AppendFragmentKeepsInv == BuilderInv /\ AppendFragment => BuilderInv'
<1> SUFFICES ASSUME BuilderInv, AppendFragment PROVE BuilderInv'
  OBVIOUS
<1> DEFINE N == Len(fragments)
           M == MaxFragmentSize
<1>1. /\ N \in Nat /\ current \in 1 .. N
      /\ \A i \in 1 .. N :
           /\ fragments[i] \in Fragments
           /\ fragments[i].text \in Seq(Octets) /\ Len(fragments[i].text) \in Nat
           /\ fragments[i].capacity \in Nat
           /\ Len(fragments[i].text) <= fragments[i].capacity
  BY FragmentsAre
<1>2. /\ current' = current + 1 /\ UNCHANGED <<savepoint, offset, call>>
      /\ FreeIn(fragments[current]) = 0 /\ FragmentCapacity > 0
  BY Zenon DEF AppendFragment
<1>3. /\ fragments \in Seq(Fragments) /\ offset \in Nat
      /\ savepoint \in (1 .. current) \union {NULL}
      /\ savepoint # NULL => offset <= Len(fragments[savepoint].text)
      /\ writing \in BOOLEAN /\ units \in Seq(CodeUnits) /\ bytes \in Seq(Octets)
  BY Zenon DEF BuilderInv, BuilderTypes
<1>4. /\ \A i \in 1 .. N : /\ fragments[i].capacity = LeastOf(M, Capacity - (i - 1) * M)
                           /\ FreeIn(fragments[i]) >= 0
      /\ \A i \in 1 .. (current - 1) : FreeIn(fragments[i]) = 0
      /\ \A i \in (current + 1) .. N : fragments[i].text = <<>>
  BY Zenon DEF BuilderInv, FragmentsPacked
<1>5. M \in Nat \ {0} /\ Capacity \in Nat \ {0}
  BY MessageAssumption
<1>6. \A i \in 1 .. current : FreeIn(fragments[i]) = 0
  <2>1. \A i \in 1 .. current : i \in 1 .. (current - 1) \/ i = current
    BY <1>1
  <2>2. QED
    BY <1>2, <1>4, <2>1, Zenon
<1>7. \A i \in 1 .. N : i \in 1 .. current \/ i \in (current + 1) .. N
  BY <1>1
<1>8. CASE current < N
  <2>1. fragments' = fragments
    BY <1>8 DEF AppendFragment
  <2>2. current + 1 \in 1 .. N /\ (current + 1) - 1 = current
    BY <1>1, <1>8
  <2>3. BuilderTypes'
    <3>1. savepoint \in (1 .. (current + 1)) \union {NULL}
      BY <1>1, <1>3
    <3>2. QED
      BY <1>2, <1>3, <2>1, <2>2, <3>1, Zenon DEF BuilderTypes, call
  <2>4. \A i \in ((current + 1) + 1) .. N : fragments[i].text = <<>>
    BY <1>1, <1>4
  <2>5. FragmentsPacked'
    BY <1>2, <1>4, <1>6, <2>1, <2>2, <2>4, Zenon DEF FragmentsPacked
  <2>6. QED
    BY <2>3, <2>5 DEF BuilderInv
<1>9. CASE ~(current < N)
  <2>1. current = N
    BY <1>1, <1>9
  <2> DEFINE k == FragmentCapacity
             f == NewFragment(k)
             r == Len(Text)
             q == (N - 1) * M
             l == Len(fragments[N].text)
             c == fragments[N].capacity
  <2>2. r = q + l
    BY <2>1, TextIsTiled
  <2>3. /\ q \in Int /\ l \in Nat /\ c \in Nat /\ c = LeastOf(M, Capacity - q) /\ c - l = 0
        /\ k = LeastOf(M, Capacity - r) /\ k > 0 /\ N * M = q + M
    BY <1>1, <1>2, <1>4, <1>5, <2>1 DEF FreeIn, FragmentCapacity, FreeSpace
  <2> HIDE DEF r, q, l, c, k
  <2>4. k = LeastOf(M, Capacity - (q + M)) /\ k \in Nat
    BY <1>5, <2>2, <2>3 DEF LeastOf
  <2>5. k = LeastOf(M, Capacity - ((N + 1) - 1) * M)
    BY <1>1, <1>5, <2>3, <2>4
  <2>6. f \in Fragments /\ f.capacity = k /\ f.text = <<>>
    BY <2>4 DEF NewFragment, Fragments
  <2>7. FreeIn(f) >= 0
    BY <2>4, <2>6 DEF FreeIn
  <2>8. fragments' = Append(fragments, f)
    BY <1>9, Zenon DEF AppendFragment, k
  <2> HIDE DEF f
  <2>9. /\ fragments' \in Seq(Fragments) /\ Len(fragments') = N + 1
        /\ \A i \in 1 .. N : fragments'[i] = fragments[i]
        /\ fragments'[N + 1] = f
    BY <1>3, <2>6, <2>8, AppendProperties
  <2>10. BuilderTypes'
    <3>1. savepoint' \in (1 .. current') \union {NULL}
      BY <1>1, <1>2, <1>3
    <3>2. current' \in 1 .. Len(fragments')
      BY <1>1, <1>2, <2>1, <2>9
    <3>3. savepoint # NULL => savepoint \in 1 .. N
      BY <1>1, <1>3
    <3>4. savepoint # NULL => fragments'[savepoint] = fragments[savepoint]
      BY <2>9, <3>3, Zenon
    <3>5. QED
      BY <1>2, <1>3, <2>9, <3>1, <3>2, <3>4, Zenon DEF BuilderTypes, call
  <2>11. FragmentsPacked'
    <3>1. ASSUME NEW i \in 1 .. Len(fragments')
          PROVE  /\ fragments'[i].capacity = LeastOf(M, Capacity - (i - 1) * M)
                 /\ FreeIn(fragments'[i]) >= 0
      <4>1. CASE i \in 1 .. N
        BY <1>4, <2>9, <4>1, Zenon
      <4>2. CASE i = N + 1
        BY <2>5, <2>6, <2>7, <2>9, <4>2, Zenon
      <4>3. i \in 1 .. N \/ i = N + 1
        <5>1. i \in 1 .. (N + 1)
          BY <2>9, Zenon
        <5>2. N \in Nat
          BY <1>1
        <5> HIDE DEF N
        <5>3. QED
          BY <5>1, <5>2
      <4>4. QED
        BY <4>1, <4>2, <4>3, Zenon
    <3>2. \A i \in 1 .. (current' - 1) : FreeIn(fragments'[i]) = 0
      <4>1. \A i \in 1 .. (current' - 1) : i \in 1 .. N /\ i \in 1 .. current
        BY <1>1, <1>2, <2>1
      <4>2. QED
        BY <1>6, <2>9, <4>1, Zenon
    <3>3. (current' + 1) .. Len(fragments') = {}
      BY <1>1, <1>2, <2>1, <2>9
    <3>4. QED
      BY <3>1, <3>2, <3>3, Zenon DEF FragmentsPacked
  <2>12. QED
    BY <2>10, <2>11 DEF BuilderInv
<1>10. QED
  BY <1>8, <1>9

(* Where the text that a rollback keeps lies in the fragments.             *)
LEMMA AfterRollback ==
  ASSUME BuilderInv, Rollback
  PROVE  /\ savepoint \in 1 .. current /\ savepoint \in Nat /\ offset \in Nat
         /\ offset <= Len(fragments[savepoint].text)
         /\ fragments' \in Seq(Fragments) /\ Len(fragments') = Len(fragments)
         /\ \A i \in 1 .. Len(fragments) : fragments'[i].capacity = fragments[i].capacity
         /\ \A i \in 1 .. (savepoint - 1) : fragments'[i] = fragments[i]
         /\ fragments'[savepoint].text = SubSeq(fragments[savepoint].text, 1, offset)
         /\ \A i \in (savepoint + 1) .. Len(fragments) : fragments'[i].text = <<>>
<1> DEFINE N == Len(fragments)
           cut(i) == IF i = savepoint THEN offset ELSE 0
           left(i) == SubSeq(fragments[i].text, 1, cut(i))
           new(i) == [fragments[i] EXCEPT !.text = left(i)]
           kept(i) == IF i >= savepoint THEN new(i) ELSE fragments[i]
<1>1. /\ N \in Nat /\ current \in 1 .. N
      /\ \A i \in 1 .. N :
           /\ fragments[i] \in Fragments
           /\ fragments[i].text \in Seq(Octets) /\ Len(fragments[i].text) \in Nat
           /\ fragments[i].capacity \in Nat
           /\ Len(fragments[i].text) <= fragments[i].capacity
  BY FragmentsAre
<1>2. /\ savepoint \in 1 .. current /\ savepoint \in Nat /\ offset \in Nat
      /\ offset <= Len(fragments[savepoint].text)
  BY <1>1 DEF BuilderInv, BuilderTypes, Rollback
<1>3. fragments' = [i \in 1 .. N |-> kept(i)]
  BY DEF Rollback, Emptied
<1>4. ASSUME NEW i \in 1 .. N
      PROVE  /\ left(i) \in Seq(Octets)
             /\ new(i) \in Fragments
             /\ new(i).text = left(i) /\ new(i).capacity = fragments[i].capacity
  <2>1. cut(i) \in 0 .. Len(fragments[i].text)
    BY <1>1, <1>2
  <2>2. \A j \in 1 .. Len(fragments[i].text) : fragments[i].text[j] \in Octets
    BY <1>1, ElementOfSeq
  <2> DEFINE s == fragments[i].text
             n == cut(i)
  <2>3. s \in Seq(Octets) /\ n \in 0 .. Len(s) /\ Len(s) \in Nat
    BY <1>1, <2>1
  <2> HIDE DEF s, n
  <2>4. SubSeq(s, 1, n) \in Seq(Octets)
    BY <2>3
  <2>5. left(i) \in Seq(Octets)
    BY <2>4 DEF s, n
  <2> HIDE DEF left
  <2>6. QED
    BY <1>1, <2>5 DEF Fragments
<1> HIDE DEF N, left, new
<1>5. /\ fragments' \in Seq(Fragments) /\ Len(fragments') = N
      /\ \A i \in 1 .. N : fragments'[i] = kept(i)
  <2>1. \A i \in 1 .. N : kept(i) \in Fragments
    BY <1>1, <1>4
  <2> HIDE DEF kept
  <2>2. QED
    BY <1>1, <1>3, <2>1
<1>6. \A i \in 1 .. N : fragments'[i].capacity = fragments[i].capacity
  BY <1>4, <1>5
<1>7. \A i \in 1 .. (savepoint - 1) : fragments'[i] = fragments[i]
  BY <1>1, <1>2, <1>5
<1>8. fragments'[savepoint].text = left(savepoint)
  BY <1>1, <1>2, <1>4, <1>5
<1>9. \A i \in (savepoint + 1) .. N : fragments'[i].text = left(i) /\ cut(i) = 0
  BY <1>1, <1>2, <1>4, <1>5
<1>10. ASSUME NEW i \in (savepoint + 1) .. N PROVE fragments'[i].text = <<>>
  <2>1. fragments'[i].text = SubSeq(fragments[i].text, 1, 0)
    BY <1>9, Zenon DEF left
  <2>2. i \in 1 .. N
    BY <1>1, <1>2
  <2>3. SubSeq(fragments[i].text, 1, 0) = <<>>
    OBVIOUS
  <2>4. QED
    BY <2>1, <2>3
<1>11. left(savepoint) = SubSeq(fragments[savepoint].text, 1, offset)
  BY Zenon DEF left
<1>12. QED
  BY <1>2, <1>5, <1>6, <1>7, <1>8, <1>10, <1>11, Zenon DEF N

LEMMA RollbackKeepsInv == BuilderInv /\ Rollback => BuilderInv'
<1> SUFFICES ASSUME BuilderInv, Rollback PROVE BuilderInv'
  OBVIOUS
<1> DEFINE N == Len(fragments)
<1>1. /\ N \in Nat /\ current \in 1 .. N
      /\ \A i \in 1 .. N :
           /\ fragments[i].text \in Seq(Octets) /\ Len(fragments[i].text) \in Nat
           /\ fragments[i].capacity \in Nat
           /\ Len(fragments[i].text) <= fragments[i].capacity
  BY FragmentsAre
<1>2. /\ savepoint \in 1 .. current /\ savepoint \in Nat /\ offset \in Nat
      /\ offset <= Len(fragments[savepoint].text)
      /\ fragments' \in Seq(Fragments) /\ Len(fragments') = N
      /\ \A i \in 1 .. N : fragments'[i].capacity = fragments[i].capacity
      /\ \A i \in 1 .. (savepoint - 1) : fragments'[i] = fragments[i]
      /\ fragments'[savepoint].text = SubSeq(fragments[savepoint].text, 1, offset)
      /\ \A i \in (savepoint + 1) .. N : fragments'[i].text = <<>>
  BY AfterRollback
<1>3. current' = savepoint /\ savepoint' = NULL /\ offset' = 0 /\ UNCHANGED call
  BY DEF Rollback
<1>4. BuilderTypes'
  <2>1. savepoint \in 1 .. N
    BY <1>1, <1>2
  <2>2. 0 \in Nat
    OBVIOUS
  <2>3. /\ writing \in BOOLEAN /\ units \in Seq(CodeUnits) /\ bytes \in Seq(Octets)
    BY Zenon DEF BuilderInv, BuilderTypes
  <2>4. QED
    BY <1>2, <1>3, <2>1, <2>2, <2>3, Zenon DEF BuilderTypes, call
<1>5. Len(fragments'[savepoint].text) = offset
  <2> DEFINE s == fragments[savepoint].text
  <2>1. s \in Seq(Octets) /\ Len(s) \in Nat /\ offset \in 0 .. Len(s)
    BY <1>1, <1>2
  <2> HIDE DEF s
  <2>2. Len(SubSeq(s, 1, offset)) = offset
    BY <2>1
  <2>3. QED
    BY <1>2, <2>2 DEF s
<1>6. ASSUME NEW i \in 1 .. N PROVE FreeIn(fragments'[i]) >= 0
  <2> DEFINE g == fragments'[i]
             f == fragments[i]
  <2>1. g.capacity = f.capacity
    BY <1>2
  <2>2. Len(g.text) \in Nat /\ Len(g.text) <= Len(f.text)
    <3>1. CASE i < savepoint
      BY <1>1, <1>2, <3>1
    <3>2. CASE i = savepoint
      BY <1>1, <1>2, <1>5, <3>2
    <3>3. CASE i > savepoint
      <4>1. g.text = <<>>
        BY <1>1, <1>2, <3>3
      <4>2. QED
        BY <1>1, <4>1
    <3>4. QED
      BY <1>1, <1>2, <3>1, <3>2, <3>3
  <2>3. f.capacity \in Nat /\ Len(f.text) \in Nat /\ Len(f.text) <= f.capacity
    BY <1>1
  <2> HIDE DEF f, g
  <2>4. FreeIn(g) >= 0
    BY <2>1, <2>2, <2>3 DEF FreeIn
  <2>5. QED
    BY <2>4 DEF g
<1>7. \A i \in 1 .. (savepoint - 1) : FreeIn(fragments'[i]) = 0
  <2>1. \A i \in 1 .. (savepoint - 1) : i \in 1 .. (current - 1)
    BY <1>1, <1>2
  <2>2. \A i \in 1 .. (current - 1) : FreeIn(fragments[i]) = 0
    BY Zenon DEF BuilderInv, FragmentsPacked
  <2>3. QED
    BY <1>2, <2>1, <2>2, Zenon
<1>8. \A i \in 1 .. N : fragments[i].capacity = LeastOf(MaxFragmentSize, Capacity - (i - 1) * MaxFragmentSize)
  BY Zenon DEF BuilderInv, FragmentsPacked
<1>9. FragmentsPacked'
  BY <1>2, <1>3, <1>6, <1>7, <1>8, Zenon DEF FragmentsPacked
<1>10. QED
  BY <1>4, <1>9 DEF BuilderInv

LEMMA SavepointKeepsInv == BuilderInv /\ (Savepoint \/ Commit) => BuilderInv'
<1> SUFFICES ASSUME BuilderInv, Savepoint \/ Commit PROVE BuilderInv'
  OBVIOUS
<1>1. /\ UNCHANGED <<fragments, current, call>>
      /\ \/ savepoint' = current /\ offset' = Len(fragments[current].text)
         \/ savepoint' = NULL /\ offset' = 0
  BY Zenon DEF Savepoint, Commit
<1>2. /\ Len(fragments) \in Nat /\ current \in 1 .. Len(fragments)
      /\ Len(fragments[current].text) \in Nat
  BY FragmentsAre
<1>3. savepoint' \in (1 .. current) \union {NULL} /\ offset' \in Nat
  BY <1>1, <1>2
<1>4. savepoint' # NULL => offset' <= Len(fragments[savepoint'].text)
  BY <1>1, <1>2
<1>5. BuilderTypes'
  BY <1>1, <1>3, <1>4, Zenon DEF BuilderInv, BuilderTypes, call
<1>6. FragmentsPacked'
  BY <1>1, Zenon DEF BuilderInv, FragmentsPacked
<1>7. QED
  BY <1>5, <1>6 DEF BuilderInv

LEMMA WriteKeepsInv ==
  ASSUME BuilderInv, NEW u \in Seq(CodeUnits), NEW b \in Seq(Octets), Call(u, b)
  PROVE  BuilderInv'
<1>1. UNCHANGED builder /\ units' = u /\ bytes' = b
  BY Zenon DEF Call
<1>2. writing' \in BOOLEAN
  BY Zenon DEF Call
<1>3. QED
  BY <1>1, <1>2, CallKeepsInv

LEMMA ReturnKeepsInv == ASSUME BuilderInv, NEW r, Return(r) PROVE BuilderInv'
<1>1. UNCHANGED builder /\ units' = <<>> /\ bytes' = <<>>
  BY Zenon DEF Return
<1>2. writing' \in BOOLEAN
  BY Zenon DEF Return
<1>3. <<>> \in Seq(CodeUnits) /\ <<>> \in Seq(Octets)
  OBVIOUS
<1>4. QED
  BY <1>1, <1>2, <1>3, CallKeepsInv, Zenon

(* The two parts of the text that a conversion has before it.              *)
LEMMA ChunkIsPart ==
  ASSUME BuilderInv, units # <<>>
  PROVE  LET n == ChunkSize(units)
             chunk == SubSeq(units, 1, n)
             rest == SubSeq(units, n + 1, Len(units))
         IN  /\ chunk \in Seq(CodeUnits) /\ rest \in Seq(CodeUnits)
             /\ Encode(units) = Encode(chunk) \o Encode(rest)
<1>1. units \in Seq(CodeUnits)
  BY DEF BuilderInv, BuilderTypes
<1>2. /\ ChunkSize(units) \in 0 .. Len(units)
      /\ ~(IsHigh(units, ChunkSize(units)) /\ IsLow(units, ChunkSize(units) + 1))
  BY <1>1, ChunkIsNoCut
<1>3. QED
  BY <1>1, <1>2, EncodeSplit

LEMMA ConvertKeepsInv == BuilderInv /\ Convert => BuilderInv'
<1> SUFFICES ASSUME BuilderInv, Convert PROVE BuilderInv'
  OBVIOUS
<1> DEFINE n == ChunkSize(units)
           chunk == SubSeq(units, 1, n)
           rest == SubSeq(units, n + 1, Len(units))
<1>1. units # <<>>
  BY DEF Convert
<1>2. chunk \in Seq(CodeUnits) /\ rest \in Seq(CodeUnits)
  BY <1>1, ChunkIsPart
<1>3. \/ /\ WellFormed(chunk) /\ bytes' = Encode(chunk) /\ units' = rest
         /\ UNCHANGED <<builder, writing, result>>
      \/ Return(FALSE)
  BY Zenon DEF Convert
<1> HIDE DEF chunk, rest
<1>4. CASE Return(FALSE)
  BY <1>4, ReturnKeepsInv
<1>5. CASE WellFormed(chunk) /\ bytes' = Encode(chunk) /\ units' = rest
           /\ UNCHANGED <<builder, writing, result>>
  <2>1. bytes' \in Seq(Octets) /\ units' \in Seq(CodeUnits)
    BY <1>2, <1>5, WellFormedIsOctets
  <2>2. writing' \in BOOLEAN
    BY <1>5, Zenon DEF BuilderInv, BuilderTypes
  <2>3. QED
    BY <1>5, <2>1, <2>2, CallKeepsInv
<1>6. QED
  BY <1>3, <1>4, <1>5, Zenon

LEMMA BuilderStep == BuilderInv /\ [Next]_vars => BuilderInv'
<1> SUFFICES ASSUME BuilderInv, [Next]_vars PROVE BuilderInv'
  OBVIOUS
<1>1. <<>> \in Seq(CodeUnits) /\ <<>> \in Seq(Octets)
  OBVIOUS
<1>2. ASSUME NEW b \in Narrow, Write(b) PROVE BuilderInv'
  <2>1. b \in Seq(Octets)
    BY MessageAssumption
  <2>2. QED
    BY <1>1, <1>2, <2>1, WriteKeepsInv DEF Write
<1>3. ASSUME NEW u \in Wide, WriteWide(u) PROVE BuilderInv'
  <2>1. u \in Seq(CodeUnits)
    BY MessageAssumption
  <2>2. QED
    BY <1>1, <1>3, <2>1, WriteKeepsInv DEF WriteWide
<1>4. CASE Convert
  BY <1>4, ConvertKeepsInv
<1>5. CASE Copy
  BY <1>5, CopyKeepsInv
<1>6. CASE AppendFragment
  BY <1>6, AppendFragmentKeepsInv
<1>7. CASE Overflow \/ Done
  BY <1>7, ReturnKeepsInv DEF Overflow, Done
<1>8. CASE Savepoint \/ Commit
  BY <1>8, SavepointKeepsInv
<1>9. CASE Rollback
  BY <1>9, RollbackKeepsInv
<1>10. CASE UNCHANGED vars
  <2>1. UNCHANGED <<builder, writing, units, bytes>>
    BY <1>10, Zenon DEF vars, call
  <2>2. writing \in BOOLEAN /\ units \in Seq(CodeUnits) /\ bytes \in Seq(Octets)
    BY Zenon DEF BuilderInv, BuilderTypes
  <2>3. QED
    BY <2>1, <2>2, CallKeepsInv, Zenon
<1>11. QED
  BY <1>2, <1>3, <1>4, <1>5, <1>6, <1>7, <1>8, <1>9, <1>10, Zenon DEF Next, WriteStep

(***************************************************************************)
(* The fragments tile the capacity after any sequence of writes, failed    *)
(* writes, savepoints, commits and rollbacks.                              *)
(***************************************************************************)
THEOREM BuilderInvariant == Spec => []BuilderInv
<1>1. QED
  BY BuilderInit, BuilderStep, PTL DEF Spec

THEOREM FragmentsStayPacked == Spec => []FragmentsPacked
<1>1. BuilderInv => FragmentsPacked
  BY DEF BuilderInv
<1>2. QED
  BY <1>1, BuilderInvariant, PTL

-----------------------------------------------------------------------------
(* The builder is a bounded text                                           *)

Mark == IF savepoint = NULL THEN NULL ELSE Len(Joined(fragments, savepoint - 1)) + offset

Pending == IF writing THEN bytes \o Encode(units) ELSE NULL

(* TextIsTiled, for the state after a step as well. *)
Tiled ==
  /\ \A i \in 0 .. current - 1 : Len(Joined(fragments, i)) = i * MaxFragmentSize
  /\ Text = Joined(fragments, current)
  /\ Len(Text) = (current - 1) * MaxFragmentSize + Len(fragments[current].text)
  /\ Len(Text) <= Capacity
  /\ Joined(fragments, 0) = <<>>
  /\ \A k \in 0 .. Len(fragments) : Joined(fragments, k) \in Seq(Octets)
  /\ \A k \in 1 .. Len(fragments) : Joined(fragments, k) = Joined(fragments, k - 1) \o fragments[k].text

LEMMA InvIsTiled == BuilderInv => Tiled
<1> SUFFICES ASSUME BuilderInv PROVE Tiled
  OBVIOUS
<1>1. Len(fragments) \in Nat /\ \A i \in 1 .. Len(fragments) : fragments[i].text \in Seq(Octets)
  BY FragmentsAre
<1>2. /\ Joined(fragments, 0) = <<>>
      /\ \A k \in 0 .. Len(fragments) : Joined(fragments, k) \in Seq(Octets)
      /\ \A k \in 1 .. Len(fragments) : Joined(fragments, k) = Joined(fragments, k - 1) \o fragments[k].text
  BY <1>1, JoinedGrows
<1>3. QED
  BY <1>2, TextIsTiled, Zenon DEF Tiled

(* The invariant holds after a step, and with it the tiling. *)
LEMMA TiledAfter == BuilderInv /\ [Next]_vars => BuilderInv' /\ Tiled'
<1>1. BuilderInv' => Tiled'
  BY InvIsTiled, PTL
<1>2. QED
  BY <1>1, BuilderStep

(* What the fragments hold is a prefix of what more of them hold. *)
LEMMA JoinedIsPrefix ==
  ASSUME NEW S, NEW fr, Len(fr) \in Nat, \A i \in 1 .. Len(fr) : fr[i].text \in Seq(S),
         NEW k \in 0 .. Len(fr), NEW n \in k .. Len(fr)
  PROVE  /\ Len(Joined(fr, k)) <= Len(Joined(fr, n))
         /\ \A i \in 1 .. Len(Joined(fr, k)) : Joined(fr, n)[i] = Joined(fr, k)[i]
<1> DEFINE J(m) == Joined(fr, m)
           l == Len(J(k))
           OK(m) == l <= Len(J(m)) /\ \A i \in 1 .. l : J(m)[i] = J(k)[i]
           T == {d \in Nat : k + d <= Len(fr) => OK(k + d)}
<1>1. /\ \A m \in 0 .. Len(fr) : J(m) \in Seq(S)
      /\ \A m \in 1 .. Len(fr) : J(m) = J(m - 1) \o fr[m].text
  BY JoinedGrows
<1> HIDE DEF J
<1>2. \A m \in 0 .. Len(fr) : Len(J(m)) \in Nat
  BY <1>1, LenProperties
<1>3. 0 \in T
  <2>1. k + 0 = k /\ Len(J(k)) \in Nat
    BY <1>2
  <2>2. QED
    BY <2>1
<1>4. ASSUME NEW d \in Nat, d \in T PROVE d + 1 \in T
  <2>1. CASE k + (d + 1) <= Len(fr)
    <3> DEFINE m == k + d
    <3>1. /\ k + (d + 1) = m + 1 /\ m + 1 \in 1 .. Len(fr) /\ m \in 0 .. Len(fr) /\ (m + 1) - 1 = m
          /\ m <= Len(fr)
      BY <2>1
    <3>2. OK(m)
      BY <1>4, <3>1
    <3> HIDE DEF m
    <3>3. /\ J(m + 1) = J(m) \o fr[m + 1].text /\ J(m) \in Seq(S) /\ fr[m + 1].text \in Seq(S)
      BY <1>1, <3>1
    <3> DEFINE a == J(m)
               b == fr[m + 1].text
               c == J(m + 1)
    <3>4. /\ Len(a) \in Nat /\ Len(c) = Len(a) + Len(b) /\ Len(b) \in Nat
          /\ \A i \in 1 .. Len(a) : c[i] = a[i]
      <4>1. a \in Seq(S) /\ b \in Seq(S) /\ c = a \o b
        BY <3>3, Zenon
      <4> HIDE DEF a, b, c
      <4>2. /\ Len(a) \in Nat /\ Len(b) \in Nat /\ Len(a \o b) = Len(a) + Len(b)
            /\ \A i \in 1 .. Len(a) + Len(b) : (a \o b)[i] = IF i <= Len(a) THEN a[i] ELSE b[i - Len(a)]
        BY <4>1, ConcatProperties, LenProperties
      <4>3. \A i \in 1 .. Len(a) : i \in 1 .. Len(a) + Len(b) /\ i <= Len(a)
        BY <4>2
      <4>4. QED
        BY <4>1, <4>2, <4>3, Zenon
    <3>5. l \in Nat
      BY <1>2
    <3> HIDE DEF a, b, c, l
    <3>6. l <= Len(a) /\ \A i \in 1 .. l : a[i] = J(k)[i]
      BY <3>2, Zenon DEF a
    <3>7. l <= Len(c) /\ \A i \in 1 .. l : c[i] = J(k)[i]
      BY <3>4, <3>5, <3>6
    <3>8. OK(m + 1)
      BY <3>7, Zenon DEF c
    <3>9. QED
      BY <3>1, <3>8
  <2>2. CASE ~(k + (d + 1) <= Len(fr))
    BY <2>2
  <2>3. QED
    BY <2>1, <2>2
<1>5. Nat \subseteq T
  <2> HIDE DEF T
  <2>1. QED
    BY <1>3, <1>4, SetInduction
<1>6. n - k \in Nat /\ k + (n - k) = n /\ n <= Len(fr)
  OBVIOUS
<1> HIDE DEF OK
<1>7. OK(n)
  <2>1. (n - k) \in T
    BY <1>5, <1>6, Zenon
  <2>2. QED
    BY <1>6, <2>1, Zenon
<1>8. QED
  BY <1>7, Zenon DEF OK, J

LEMMA MarkIsText ==
  (IF savepoint = NULL THEN NULL
   ELSE Len(FlattenSeq([i \in 1 .. (savepoint - 1) |-> fragments[i].text])) + offset) = Mark
BY Zenon DEF Mark, Joined

LEMMA WithoutFragments ==
  ASSUME UNCHANGED fragments
  PROVE  /\ Text' = Text
         /\ \A k : Joined(fragments, k)' = Joined(fragments, k)
BY DEF Text, Joined

LEMMA MarkStays ==
  ASSUME BuilderInv, UNCHANGED <<savepoint, offset>>,
         \A i \in 1 .. (current - 1) : fragments'[i] = fragments[i]
  PROVE  Mark' = Mark
<1>1. CASE savepoint = NULL
  BY <1>1 DEF Mark
<1>2. CASE savepoint # NULL
  <2>1. savepoint \in 1 .. current /\ current \in Nat
    BY <1>2, FragmentsAre DEF BuilderInv, BuilderTypes
  <2>2. \A i \in 1 .. (savepoint - 1) : i \in 1 .. (current - 1)
    BY <2>1
  <2>3. \A i \in 1 .. (savepoint - 1) : fragments[i].text = fragments'[i].text
    BY <2>2, Zenon
  <2>4. Joined(fragments, savepoint - 1) = Joined(fragments', savepoint - 1)
    BY <2>3, JoinedAlike
  <2>5. Mark' = Len(Joined(fragments', savepoint - 1)) + offset
    BY <1>2 DEF Mark
  <2>6. QED
    BY <1>2, <2>4, <2>5 DEF Mark
<1>3. QED
  BY <1>1, <1>2

LEMMA PendingIs ==
  ASSUME BuilderInv
  PROVE  /\ bytes \in Seq(Octets) /\ units \in Seq(CodeUnits)
         /\ bytes \in Seq(Converted) /\ Encode(units) \in Seq(Converted)
         /\ bytes \o Encode(units) \in Seq(Converted)
         /\ Pending = NULL <=> ~writing
         /\ bytes = <<>> => bytes \o Encode(units) = Encode(units)
         /\ Encode(<<>>) = <<>>
<1>1. bytes \in Seq(Octets) /\ units \in Seq(CodeUnits)
  BY DEF BuilderInv, BuilderTypes
<1>2. bytes \in Seq(Converted)
  BY <1>1 DEF Converted
<1>3. Encode(units) \in Seq(Converted) /\ Encode(<<>>) = <<>>
  BY <1>1, EncodeIsSeq
<1> DEFINE e == Encode(units)
           p == bytes \o e
<1>4. p \in Seq(Converted)
  BY <1>2, <1>3, ConcatProperties
<1>5. bytes = <<>> => p = e
  BY <1>3, ConcatEmptySeq
<1> HIDE DEF p
<1>6. p # NULL
  BY <1>4, MessageAssumption DEF Converted
<1>7. Pending = NULL <=> ~writing
  BY <1>6, Zenon DEF Pending, p
<1>8. QED
  BY <1>1, <1>2, <1>3, <1>4, <1>5, <1>7, Zenon DEF p

(* What a step is in the abstraction, in terms of Text, Mark and Pending. *)
Stutter == Text' = Text /\ Mark' = Mark /\ Pending' = Pending /\ result' = result

LEMMA BuilderInitiallyEmpty ==
  Init => Text = <<>> /\ Mark = NULL /\ Pending = NULL /\ result = NULL
<1> SUFFICES ASSUME Init PROVE Text = <<>> /\ Mark = NULL /\ Pending = NULL /\ result = NULL
  OBVIOUS
<1>1. /\ savepoint = NULL /\ result = NULL /\ current = 1
      /\ fragments = <<NewFragment(LeastOf(MaxFragmentSize, Capacity))>>
  BY DEF Init
<1>2. Mark = NULL /\ Pending = NULL
  <2>1. ~writing
    BY Zenon DEF Init
  <2>2. QED
    BY <1>1, <2>1, Zenon DEF Mark, Pending
<1>3. Tiled
  BY BuilderInit, InvIsTiled
<1>4. fragments[1].text = <<>> /\ Len(fragments) = 1
  BY <1>1 DEF NewFragment
<1>5. Joined(fragments, 1) = Joined(fragments, 1 - 1) \o <<>> /\ Joined(fragments, 0) = <<>>
  BY <1>3, <1>4 DEF Tiled
<1>6. Text = Joined(fragments, 1)
  BY <1>1, <1>3 DEF Tiled
<1>7. <<>> \o <<>> = <<>> /\ 1 - 1 = 0
  OBVIOUS
<1>8. Text = <<>>
  BY <1>5, <1>6, <1>7, Zenon
<1>9. QED
  BY <1>1, <1>2, <1>8

LEMMA WriteIsWrite ==
  ASSUME BuilderInv, NEW u \in Seq(CodeUnits), NEW b \in Seq(Octets), Call(u, b)
  PROVE  /\ Pending = NULL /\ Pending' = b \o Encode(u) /\ result' = NULL
         /\ Text' = Text /\ Mark' = Mark
<1>1. /\ ~writing /\ writing' = TRUE /\ result' = NULL /\ UNCHANGED builder
      /\ units' = u /\ bytes' = b
  BY Zenon DEF Call
<1>2. UNCHANGED <<fragments, current, savepoint, offset>>
  BY <1>1 DEF builder
<1>3. Text' = Text /\ Mark' = Mark
  BY <1>2, WithoutFragments, MarkStays
<1>4. Encode(units)' = Encode(u)
  BY <1>1 DEF Encode, CharBytes, IsHigh, IsLow
<1>5. Pending' = b \o Encode(u)
  BY <1>1, <1>4, Zenon DEF Pending
<1>6. Pending = NULL
  BY <1>1, PendingIs, Zenon
<1>7. QED
  BY <1>1, <1>3, <1>5, <1>6, Zenon

LEMMA ReturnIsReturn ==
  ASSUME BuilderInv, NEW r, Return(r)
  PROVE  Pending' = NULL /\ result' = r /\ Text' = Text /\ Mark' = Mark
<1>1. ~writing' /\ result' = r /\ UNCHANGED builder
  BY Zenon DEF Return
<1>2. UNCHANGED <<fragments, current, savepoint, offset>>
  BY <1>1 DEF builder
<1>3. Text' = Text /\ Mark' = Mark
  BY <1>2, WithoutFragments, MarkStays
<1>4. Pending' = NULL
  BY <1>1, Zenon DEF Pending
<1>5. QED
  BY <1>1, <1>3, <1>4, Zenon

LEMMA ConvertIsStutterOrFail ==
  ASSUME BuilderInv, Convert
  PROVE  \/ Stutter
         \/ /\ Abstract!Malformed(Pending) /\ Pending # <<>> /\ Pending # NULL
            /\ Pending' = NULL /\ result' = FALSE /\ Text' = Text /\ Mark' = Mark
<1> DEFINE n == ChunkSize(units)
           chunk == SubSeq(units, 1, n)
           rest == SubSeq(units, n + 1, Len(units))
<1>1. writing /\ bytes = <<>> /\ units # <<>>
  BY Zenon DEF Convert
<1>2. /\ chunk \in Seq(CodeUnits) /\ rest \in Seq(CodeUnits)
      /\ Encode(units) = Encode(chunk) \o Encode(rest)
  BY <1>1, ChunkIsPart
<1>3. \/ /\ WellFormed(chunk) /\ bytes' = Encode(chunk) /\ units' = rest
         /\ UNCHANGED <<builder, writing, result>>
      \/ ~WellFormed(chunk) /\ Return(FALSE)
  BY Zenon DEF Convert
<1>4. Pending = Encode(units) /\ Pending # NULL
  <2>1. bytes \o Encode(units) = Encode(units)
    BY <1>1, PendingIs, Zenon
  <2>2. QED
    BY <1>1, <2>1, PendingIs, Zenon DEF Pending
<1> HIDE DEF chunk, rest
<1>5. CASE WellFormed(chunk) /\ bytes' = Encode(chunk) /\ units' = rest
           /\ UNCHANGED <<builder, writing, result>>
  <2>1. UNCHANGED <<fragments, current, savepoint, offset, writing, result>>
    BY <1>5 DEF builder
  <2>2. Text' = Text /\ Mark' = Mark
    BY <2>1, WithoutFragments, MarkStays
  <2>3. Encode(units)' = Encode(rest)
    BY <1>5 DEF Encode, CharBytes, IsHigh, IsLow
  <2>4. Pending' = Encode(chunk) \o Encode(rest)
    <3>1. writing' = writing /\ bytes' = Encode(chunk)
      BY <1>5, Zenon
    <3>2. writing'
      BY <1>1, <3>1, Zenon
    <3>3. Pending' = bytes' \o Encode(units)'
      BY <3>2, Zenon DEF Pending
    <3>4. QED
      BY <2>3, <3>1, <3>3, Zenon
  <2>5. QED
    BY <1>2, <1>4, <2>1, <2>2, <2>4, Zenon DEF Stutter
<1>6. CASE ~WellFormed(chunk) /\ Return(FALSE)
  <2> DEFINE a == Encode(chunk)
             b == Encode(rest)
             p == Pending
  <2>1. PICK i \in 1 .. Len(a) : a[i] = BAD
    BY <1>6, Zenon DEF WellFormed, Contains
  <2>2. a \in Seq(Converted) /\ b \in Seq(Converted)
    BY <1>2, EncodeIsSeq
  <2>3. p = a \o b
    BY <1>2, <1>4, Zenon
  <2> HIDE DEF a, b, p
  <2>4. /\ Len(a) \in Nat /\ Len(b) \in Nat /\ Len(a \o b) = Len(a) + Len(b)
        /\ \A j \in 1 .. Len(a) + Len(b) : (a \o b)[j] = IF j <= Len(a) THEN a[j] ELSE b[j - Len(a)]
    BY <2>2, ConcatProperties, LenProperties
  <2>5. i \in 1 .. Len(a) + Len(b) /\ i <= Len(a)
    BY <2>4
  <2>6. i \in 1 .. Len(p) /\ p[i] = BAD
    BY <2>1, <2>3, <2>4, <2>5, Zenon
  <2>7. Abstract!Malformed(p)
    BY <2>6, Zenon DEF Abstract!Malformed
  <2>8. p # <<>>
    BY <2>6
  <2>9. Pending' = NULL /\ result' = FALSE /\ Text' = Text /\ Mark' = Mark
    BY <1>6, ReturnIsReturn
  <2>10. QED
    BY <1>4, <2>7, <2>8, <2>9, Zenon DEF p
<1>7. QED
  BY <1>3, <1>5, <1>6, Zenon

(* Cutting a concatenation in its first part. *)
LEMMA CutConcat ==
  ASSUME NEW S, NEW b \in Seq(S), NEW e \in Seq(S), NEW n \in 1 .. Len(b)
  PROVE  /\ n \in 1 .. Len(b \o e)
         /\ SubSeq(b \o e, 1, n) = SubSeq(b, 1, n)
         /\ SubSeq(b \o e, n + 1, Len(b \o e)) = SubSeq(b, n + 1, Len(b)) \o e
<1> DEFINE c == b \o e
<1>1. /\ Len(b) \in Nat /\ Len(e) \in Nat /\ c \in Seq(S) /\ Len(c) = Len(b) + Len(e)
      /\ \A j \in 1 .. Len(b) + Len(e) : c[j] = IF j <= Len(b) THEN b[j] ELSE e[j - Len(b)]
  BY ConcatProperties, LenProperties
<1>2. /\ \A i \in 1 .. Len(b) : b[i] \in S
      /\ \A i \in 1 .. Len(e) : e[i] \in S
      /\ \A i \in 1 .. Len(c) : c[i] \in S
  BY <1>1, ElementOfSeq
<1> HIDE DEF c
<1>3. n \in 1 .. Len(c) /\ n \in Nat
  BY <1>1
<1>4. SubSeq(c, 1, n) = SubSeq(b, 1, n)
  <2> DEFINE x == SubSeq(c, 1, n)
             y == SubSeq(b, 1, n)
  <2>1. x \in Seq(S) /\ Len(x) = n /\ \A i \in 1 .. n : x[i] = c[i]
    BY <1>1, <1>2, <1>3
  <2>2. y \in Seq(S) /\ Len(y) = n /\ \A i \in 1 .. n : y[i] = b[i]
    BY <1>1, <1>2, <1>3
  <2>3. \A i \in 1 .. n : c[i] = b[i]
    BY <1>1, <1>3
  <2> HIDE DEF x, y
  <2>4. \A i \in 1 .. n : x[i] = y[i]
    BY <2>1, <2>2, <2>3, Zenon
  <2>5. x = y
    BY <2>1, <2>2, <2>4, SeqEqual
  <2>6. QED
    BY <2>5 DEF x, y
<1>5. SubSeq(c, n + 1, Len(c)) = SubSeq(b, n + 1, Len(b)) \o e
  <2> DEFINE x == SubSeq(c, n + 1, Len(c))
             d == SubSeq(b, n + 1, Len(b))
             y == d \o e
             m == Len(b) - n
  <2>1. x \in Seq(S) /\ Len(x) = m + Len(e) /\ \A i \in 1 .. m + Len(e) : x[i] = c[n + i]
    <3>1. n + 1 \in Int /\ Len(c) \in Int /\ \A i \in n + 1 .. Len(c) : c[i] \in S
      BY <1>1, <1>2, <1>3
    <3>2. /\ x \in Seq(S)
          /\ Len(x) = IF n + 1 <= Len(c) THEN Len(c) - (n + 1) + 1 ELSE 0
          /\ \A j \in 1 .. Len(c) - (n + 1) + 1 : x[j] = c[n + 1 + j - 1]
      BY <3>1, SubSeqProperties
    <3> HIDE DEF x
    <3>3. Len(c) - (n + 1) + 1 = m + Len(e) /\ m \in Nat /\ Len(x) = m + Len(e)
      BY <1>1, <1>3, <3>2
    <3>4. ASSUME NEW j \in 1 .. m + Len(e) PROVE x[j] = c[n + j]
      <4>1. j \in 1 .. Len(c) - (n + 1) + 1 /\ n + 1 + j - 1 = n + j
        BY <1>1, <1>3, <3>3
      <4>2. QED
        BY <3>2, <4>1
    <3>5. QED
      BY <3>2, <3>3, <3>4, Zenon
  <2>2. d \in Seq(S) /\ Len(d) = m /\ \A i \in 1 .. m : d[i] = b[n + i]
    <3>1. n + 1 \in Int /\ Len(b) \in Int /\ \A i \in n + 1 .. Len(b) : b[i] \in S
      BY <1>1, <1>2, <1>3
    <3>2. /\ d \in Seq(S)
          /\ Len(d) = IF n + 1 <= Len(b) THEN Len(b) - (n + 1) + 1 ELSE 0
          /\ \A j \in 1 .. Len(b) - (n + 1) + 1 : d[j] = b[n + 1 + j - 1]
      BY <3>1, SubSeqProperties
    <3> HIDE DEF d
    <3>3. Len(b) - (n + 1) + 1 = m /\ m \in Nat /\ Len(d) = m
      BY <1>1, <1>3, <3>2
    <3>4. ASSUME NEW j \in 1 .. m PROVE d[j] = b[n + j]
      <4>1. j \in 1 .. Len(b) - (n + 1) + 1 /\ n + 1 + j - 1 = n + j
        BY <1>1, <1>3, <3>3
      <4>2. QED
        BY <3>2, <4>1
    <3>5. QED
      BY <3>2, <3>3, <3>4, Zenon
  <2> HIDE DEF x, d
  <2>3. /\ y \in Seq(S) /\ Len(y) = m + Len(e)
        /\ \A i \in 1 .. m + Len(e) : y[i] = IF i <= m THEN d[i] ELSE e[i - m]
    <3>1. /\ y \in Seq(S) /\ Len(y) = Len(d) + Len(e)
          /\ \A i \in 1 .. Len(d) + Len(e) : y[i] = IF i <= Len(d) THEN d[i] ELSE e[i - Len(d)]
      BY <2>2, ConcatProperties
    <3> HIDE DEF y, m
    <3>2. Len(d) = m
      BY <2>2, Zenon
    <3>3. QED
      BY <3>1, <3>2, Zenon
  <2> HIDE DEF y
  <2>4. ASSUME NEW i \in 1 .. m + Len(e) PROVE x[i] = y[i]
    <3>1. m \in Nat /\ n + i \in 1 .. Len(b) + Len(e)
      BY <1>1, <1>3
    <3>2. CASE i <= m
      <4>1. n + i <= Len(b) /\ i \in 1 .. m
        BY <1>1, <1>3, <3>1, <3>2
      <4>2. QED
        BY <1>1, <2>1, <2>2, <2>3, <3>1, <3>2, <4>1, Zenon
    <3>3. CASE ~(i <= m)
      <4>1. ~(n + i <= Len(b)) /\ (n + i) - Len(b) = i - m
        BY <1>1, <1>3, <3>1, <3>3
      <4>2. QED
        BY <1>1, <2>1, <2>3, <3>1, <3>3, <4>1, Zenon
    <3>4. QED
      BY <3>2, <3>3
  <2>5. x = y
    <3>1. m + Len(e) = Len(x) /\ Len(x) = Len(y)
      BY <2>1, <2>3, Zenon
    <3>2. \A i \in 1 .. Len(x) : x[i] = y[i]
      BY <2>4, <3>1, Zenon
    <3>3. QED
      BY <2>1, <2>3, <3>1, <3>2, SeqEqual, Zenon
  <2>6. QED
    BY <2>5, Zenon DEF x, y, d
<1>6. QED
  BY <1>3, <1>4, <1>5, Zenon DEF c

LEMMA CopyIsAppend ==
  ASSUME BuilderInv, Copy
  PROVE  \E n \in 1 .. Len(Pending) :
           /\ Pending # NULL /\ Len(Text) + n <= Capacity
           /\ ~Abstract!Malformed(SubSeq(Pending, 1, n))
           /\ Text' = Text \o SubSeq(Pending, 1, n)
           /\ Pending' = SubSeq(Pending, n + 1, Len(Pending))
           /\ Mark' = Mark /\ result' = result
<1> DEFINE c == current
           f == fragments[c]
           n == LeastOf(Len(bytes), FreeIn(f))
           p == SubSeq(bytes, 1, n)
           t == f.text \o p
           e == Encode(units)
<1>1. /\ Len(fragments) \in Nat /\ c \in 1 .. Len(fragments)
      /\ fragments \in Seq(Fragments)
      /\ f \in Fragments /\ f.text \in Seq(Octets) /\ Len(f.text) \in Nat
      /\ f.capacity \in Nat
  BY FragmentsAre DEF BuilderInv, BuilderTypes
<1>2. /\ bytes \in Seq(Octets) /\ Len(bytes) \in Nat /\ bytes # <<>>
      /\ bytes \in Seq(Converted) /\ e \in Seq(Converted)
  BY PendingIs, LenProperties DEF Copy
<1>3. n \in 1 .. Len(bytes)
  <2>1. FreeIn(f) = f.capacity - Len(f.text) /\ FreeIn(f) > 0
    BY DEF Copy, FreeIn
  <2>2. Len(bytes) > 0
    BY <1>2, EmptySeq
  <2>3. QED
    BY <1>1, <1>2, <2>1, <2>2 DEF LeastOf
<1>4. /\ fragments' = [fragments EXCEPT ![c].text = t]
      /\ bytes' = SubSeq(bytes, n + 1, Len(bytes))
      /\ UNCHANGED <<current, savepoint, offset, writing, units, result>> /\ writing
  BY Zenon DEF Copy
<1> HIDE DEF n
<1>5. /\ n \in 1 .. Len(bytes \o e)
      /\ SubSeq(bytes \o e, 1, n) = p
      /\ SubSeq(bytes \o e, n + 1, Len(bytes \o e)) = SubSeq(bytes, n + 1, Len(bytes)) \o e
  BY <1>2, <1>3, CutConcat
<1>6. Pending = bytes \o e /\ Pending # NULL
  BY <1>4, PendingIs, Zenon DEF Pending
<1>7. Pending' = SubSeq(Pending, n + 1, Len(Pending))
  <2>1. Encode(units)' = e
    BY <1>4 DEF Encode, CharBytes, IsHigh, IsLow
  <2>2. writing'
    BY <1>4, Zenon
  <2>3. Pending' = bytes' \o e
    BY <2>1, <2>2, Zenon DEF Pending
  <2>4. QED
    BY <1>4, <1>5, <1>6, <2>3, Zenon
<1>8. p \in Seq(Octets) /\ Len(p) = n
  <2>1. \A i \in 1 .. Len(bytes) : bytes[i] \in Octets
    BY <1>2, ElementOfSeq
  <2>2. QED
    BY <1>2, <1>3, <2>1
<1> HIDE DEF p, e
<1>9. /\ Len(fragments') = Len(fragments)
      /\ \A i \in 1 .. (c - 1) : fragments'[i] = fragments[i]
      /\ fragments'[c].text = t
  <2>1. Len(fragments') = Len(fragments) /\ \A i \in 1 .. (c - 1) : fragments'[i] = fragments[i]
    BY <1>1, <1>4
  <2> HIDE DEF t
  <2>2. fragments'[c] = [fragments[c] EXCEPT !.text = t]
    BY <1>1, <1>4
  <2>3. fragments'[c].text = t
    BY <1>1, <2>2 DEF Fragments
  <2>4. QED
    BY <2>1, <2>3
<1>10. Mark' = Mark
  BY <1>4, <1>9, MarkStays
<1>11. Tiled /\ Tiled'
  <2>1. Next
    BY Zenon DEF Next, WriteStep
  <2>2. QED
    BY <2>1, InvIsTiled, TiledAfter
<1>12. Text' = Text \o p
  <2> DEFINE x == Joined(fragments, c - 1)
             y == f.text
  <2>1. Text = Joined(fragments, c) /\ Joined(fragments, c) = x \o y /\ x \in Seq(Octets)
    <3>1. c \in 1 .. Len(fragments) /\ c - 1 \in 0 .. Len(fragments)
      BY <1>1
    <3>2. QED
      BY <1>11, <3>1, Zenon DEF Tiled
  <2>2. Joined(fragments', c) = Joined(fragments', c - 1) \o fragments'[c].text
    BY <1>1, <1>4, <1>9, <1>11 DEF Tiled
  <2>3. Text' = Joined(fragments', c)
    BY <1>4, <1>11 DEF Tiled
  <2>4. \A i \in 1 .. (c - 1) : fragments[i].text = fragments'[i].text
    BY <1>9, Zenon
  <2>5. x = Joined(fragments', c - 1)
    BY <2>4, JoinedAlike
  <2>6. Text' = x \o t
    BY <1>9, <2>2, <2>3, <2>5, Zenon
  <2>7. y \in Seq(Octets)
    BY <1>1
  <2> HIDE DEF x, y
  <2>8. t = y \o p
    BY Zenon DEF y
  <2> HIDE DEF t
  <2>9. x \o t = (x \o y) \o p
    <3>1. x \in Seq(Octets) /\ p \in Seq(Octets)
      BY <1>8, <2>1, Zenon
    <3>2. QED
      BY <2>7, <2>8, <3>1, Associated
  <2>10. QED
    BY <2>1, <2>6, <2>9, Zenon
<1>13. Len(Text) + n <= Capacity
  <2>1. Text \in Seq(Octets)
    BY <1>1, <1>11 DEF Tiled
  <2>2. Len(Text \o p) = Len(Text) + n
    BY <1>8, <2>1, ConcatProperties
  <2>3. Len(Text') <= Capacity
    BY <1>11, Zenon DEF Tiled
  <2>4. QED
    BY <1>12, <2>2, <2>3, Zenon
<1>14. ~Abstract!Malformed(p)
  <2>1. \A i \in 1 .. Len(p) : p[i] # BAD
    BY <1>8, ElementOfSeq, MessageAssumption
  <2>2. QED
    BY <2>1, Zenon DEF Abstract!Malformed
<1>15. /\ n \in 1 .. Len(Pending) /\ SubSeq(Pending, 1, n) = p
       /\ result' = result
  BY <1>4, <1>5, <1>6, Zenon
<1>16. QED
  BY <1>6, <1>7, <1>10, <1>12, <1>13, <1>14, <1>15, Zenon

LEMMA AppendFragmentIsStutter ==
  ASSUME BuilderInv, AppendFragment
  PROVE  Stutter
<1>1. /\ UNCHANGED <<savepoint, offset, call>> /\ current' = current + 1
      /\ fragments' = IF current < Len(fragments) THEN fragments
                      ELSE Append(fragments, NewFragment(FragmentCapacity))
  BY Zenon DEF AppendFragment
<1>2. /\ Len(fragments) \in Nat /\ current \in 1 .. Len(fragments)
      /\ fragments \in Seq(Fragments)
  BY FragmentsAre DEF BuilderInv, BuilderTypes
<1>3. UNCHANGED <<writing, units, bytes, result>>
  BY <1>1 DEF call
<1>4. Pending' = Pending
  <2>1. Encode(units)' = Encode(units)
    BY <1>3 DEF Encode, CharBytes, IsHigh, IsLow
  <2>2. writing' = writing /\ bytes' = bytes
    BY <1>3, Zenon
  <2>3. QED
    BY <2>1, <2>2, Zenon DEF Pending
<1>5. BuilderInv' /\ Tiled /\ Tiled'
  <2>1. Next
    BY Zenon DEF Next, WriteStep
  <2>2. QED
    BY <2>1, InvIsTiled, TiledAfter
<1>6. /\ \A i \in 1 .. current : fragments'[i] = fragments[i]
      /\ current + 1 \in 1 .. Len(fragments')
      /\ fragments'[current + 1].text = <<>>
  <2>1. CASE current < Len(fragments)
    <3>1. fragments' = fragments
      BY <1>1, <2>1
    <3>2. current + 1 \in 1 .. Len(fragments)
      BY <1>2, <2>1
    <3>3. fragments[current + 1].text = <<>>
      BY <1>2, <2>1 DEF BuilderInv, FragmentsPacked
    <3>4. QED
      BY <3>1, <3>2, <3>3
  <2>2. CASE ~(current < Len(fragments))
    <3> DEFINE g == NewFragment(FragmentCapacity)
    <3>1. fragments' = Append(fragments, g) /\ current = Len(fragments)
      BY <1>1, <1>2, <2>2
    <3>2. g.text = <<>>
      BY DEF NewFragment
    <3> HIDE DEF g
    <3>3. /\ Len(fragments') = Len(fragments) + 1 /\ fragments'[Len(fragments) + 1] = g
          /\ \A i \in 1 .. Len(fragments) : fragments'[i] = fragments[i]
      BY <1>2, <3>1
    <3>4. QED
      BY <1>2, <3>1, <3>2, <3>3
  <2>3. QED
    BY <2>1, <2>2
<1>7. Mark' = Mark
  <2>1. \A i \in 1 .. (current - 1) : i \in 1 .. current
    BY <1>2
  <2>2. \A i \in 1 .. (current - 1) : fragments'[i] = fragments[i]
    BY <1>6, <2>1
  <2>3. QED
    BY <1>1, <2>2, MarkStays
<1>8. Text' = Text
  <2> DEFINE x == Joined(fragments, current)
  <2>1. \A i \in 1 .. current : fragments[i].text = fragments'[i].text
    BY <1>6, Zenon
  <2>2. x = Joined(fragments', current)
    BY <2>1, JoinedAlike
  <2>3. /\ Joined(fragments', current + 1) = Joined(fragments', (current + 1) - 1) \o fragments'[current + 1].text
        /\ (current + 1) - 1 = current
    <3>1. (current + 1) - 1 = current
      BY <1>2
    <3>2. QED
      BY <1>5, <1>6, <3>1, Zenon DEF Tiled
  <2>4. Text' = Joined(fragments', current + 1) /\ Text = x /\ x \in Seq(Octets)
    BY <1>1, <1>2, <1>5 DEF Tiled
  <2>5. x \o <<>> = x
    BY <2>4, ConcatEmptySeq
  <2>6. QED
    BY <1>6, <2>2, <2>3, <2>4, <2>5, Zenon
<1>9. result' = result
  BY <1>3, Zenon
<1>10. QED
  BY <1>4, <1>7, <1>8, <1>9, Zenon DEF Stutter

LEMMA OverflowIsFail ==
  ASSUME BuilderInv, Overflow
  PROVE  /\ Pending # NULL /\ Pending # <<>> /\ Len(Text) = Capacity
         /\ Pending' = NULL /\ result' = FALSE /\ Text' = Text /\ Mark' = Mark
<1>1. writing /\ bytes # <<>> /\ FragmentCapacity = 0 /\ Return(FALSE)
  BY Zenon DEF Overflow
<1>2. Pending = bytes \o Encode(units) /\ Pending # NULL
  BY <1>1, PendingIs, Zenon DEF Pending
<1>3. Pending # <<>>
  <2> DEFINE e == Encode(units)
  <2>1. bytes \in Seq(Converted) /\ e \in Seq(Converted)
    BY PendingIs
  <2> HIDE DEF e
  <2>2. Len(bytes \o e) = Len(bytes) + Len(e) /\ Len(bytes) \in Nat \ {0} /\ Len(e) \in Nat
    BY <1>1, <2>1, ConcatProperties, LenProperties, EmptySeq
  <2>3. Len(<<>>) = 0 /\ Len(bytes) + Len(e) # 0
    BY <2>2
  <2>4. Len(bytes \o e) # Len(<<>>)
    BY <2>2, <2>3, Zenon
  <2>5. bytes \o e # <<>>
    BY <2>4, Zenon
  <2>6. QED
    BY <1>2, <2>5, Zenon DEF e
<1>4. Len(Text) = Capacity
  <2> DEFINE r == Len(Text)
  <2>1. r <= Capacity
    BY TextIsTiled
  <2>2. r \in Nat
    <3>1. Text \in Seq(Octets)
      BY InvIsTiled, FragmentsAre DEF Tiled
    <3>2. QED
      BY <3>1, LenProperties
  <2>3. LeastOf(MaxFragmentSize, Capacity - r) = 0
    BY <1>1 DEF FragmentCapacity, FreeSpace
  <2> HIDE DEF r
  <2>4. r = Capacity
    BY <2>1, <2>2, <2>3, MessageAssumption DEF LeastOf
  <2>5. QED
    BY <2>4 DEF r
<1>5. QED
  BY <1>1, <1>2, <1>3, <1>4, ReturnIsReturn

LEMMA DoneIsDone ==
  ASSUME BuilderInv, Done
  PROVE  /\ Pending # NULL /\ Pending = <<>>
         /\ Pending' = NULL /\ result' = TRUE /\ Text' = Text /\ Mark' = Mark
<1>1. writing /\ bytes = <<>> /\ units = <<>> /\ Return(TRUE)
  BY Zenon DEF Done
<1>2. Pending = bytes \o Encode(units) /\ Pending # NULL
  BY <1>1, PendingIs, Zenon DEF Pending
<1>3. bytes \o Encode(units) = Encode(units) /\ Encode(units) = <<>>
  BY <1>1, PendingIs, Zenon
<1>4. QED
  BY <1>1, <1>2, <1>3, ReturnIsReturn, Zenon

LEMMA SavepointIsSavepoint ==
  ASSUME BuilderInv, Savepoint
  PROVE  /\ Pending = NULL /\ Mark = NULL /\ Mark' = Len(Text)
         /\ Text' = Text /\ Pending' = Pending /\ result' = result
<1>1. /\ ~writing /\ savepoint = NULL /\ savepoint' = current
      /\ offset' = Len(fragments[current].text)
      /\ UNCHANGED <<fragments, current, writing, units, bytes, result>>
  BY Zenon DEF Savepoint, call
<1>2. /\ Len(fragments) \in Nat /\ current \in 1 .. Len(fragments) /\ current # NULL
      /\ fragments[current].text \in Seq(Octets)
  BY FragmentsAre, MessageAssumption
<1>3. Mark = NULL /\ Pending = NULL /\ Pending' = NULL
  <2>1. ~writing'
    BY <1>1, Zenon
  <2>2. QED
    BY <1>1, <2>1, Zenon DEF Mark, Pending
<1>4. Text' = Text /\ Joined(fragments, current - 1)' = Joined(fragments, current - 1)
  BY <1>1 DEF Text, Joined
<1>5. Mark' = Len(Joined(fragments, current - 1)) + Len(fragments[current].text)
  <2>1. savepoint' # NULL /\ fragments' = fragments /\ savepoint' = current
        /\ offset' = Len(fragments[current].text)
    BY <1>1, <1>2
  <2>2. Mark' = Len(Joined(fragments', savepoint' - 1)) + offset'
    BY <2>1, Zenon DEF Mark
  <2>3. QED
    BY <2>1, <2>2, Zenon
<1>6. Len(Text) = Len(Joined(fragments, current - 1)) + Len(fragments[current].text)
  <2>1. current - 1 \in 0 .. current - 1 /\ current - 1 \in 0 .. Len(fragments)
    BY <1>2
  <2>2. /\ Text = Joined(fragments, current - 1) \o fragments[current].text
        /\ Joined(fragments, current - 1) \in Seq(Octets)
    BY <1>2, <2>1, InvIsTiled, Zenon DEF Tiled
  <2>3. QED
    BY <1>2, <2>2, ConcatProperties
<1>7. QED
  BY <1>1, <1>3, <1>4, <1>5, <1>6, Zenon

LEMMA MarkIsSet ==
  ASSUME BuilderInv, savepoint # NULL
  PROVE  /\ Mark = Len(Joined(fragments, savepoint - 1)) + offset
         /\ Mark \in Nat /\ Mark # NULL
         /\ savepoint - 1 \in 0 .. Len(fragments) /\ savepoint \in 1 .. Len(fragments)
         /\ Joined(fragments, savepoint - 1) \in Seq(Octets)
<1>1. /\ savepoint - 1 \in 0 .. Len(fragments) /\ savepoint \in 1 .. Len(fragments) /\ offset \in Nat
  BY FragmentsAre DEF BuilderInv, BuilderTypes
<1>2. Joined(fragments, savepoint - 1) \in Seq(Octets)
  BY <1>1, InvIsTiled, Zenon DEF Tiled
<1>3. Len(Joined(fragments, savepoint - 1)) \in Nat
  BY <1>2, LenProperties
<1>4. Mark = Len(Joined(fragments, savepoint - 1)) + offset
  BY Zenon DEF Mark
<1>5. Mark \in Nat
  BY <1>1, <1>3, <1>4
<1>6. QED
  BY <1>1, <1>2, <1>4, <1>5, MessageAssumption, Zenon

LEMMA CommitIsCommit ==
  ASSUME BuilderInv, Commit
  PROVE  /\ Pending = NULL /\ Mark # NULL /\ Mark' = NULL
         /\ Text' = Text /\ Pending' = Pending /\ result' = result
<1>1. /\ ~writing /\ savepoint # NULL /\ savepoint' = NULL
      /\ UNCHANGED <<fragments, current, writing, units, bytes, result>>
  BY Zenon DEF Commit, call
<1>2. Mark # NULL
  BY <1>1, MarkIsSet
<1>3. Text' = Text
  BY <1>1 DEF Text
<1>4. Mark' = NULL
  BY <1>1, Zenon DEF Mark
<1>5. Pending = NULL /\ Pending' = NULL
  <2>1. ~writing'
    BY <1>1, Zenon
  <2>2. QED
    BY <1>1, <2>1, Zenon DEF Pending
<1>6. QED
  BY <1>1, <1>2, <1>3, <1>4, <1>5, Zenon

(***************************************************************************)
(* A rollback leaves the text that was there at the savepoint: what lies   *)
(* before the fragment of the savepoint, and offset bytes of that one.     *)
(***************************************************************************)
LEMMA RollbackIsRollback ==
  ASSUME BuilderInv, Rollback
  PROVE  /\ Pending = NULL /\ Mark # NULL /\ Text' = SubSeq(Text, 1, Mark)
         /\ Mark' = NULL /\ Pending' = Pending /\ result' = result
<1> DEFINE s == savepoint
           N == Len(fragments)
           x == Joined(fragments, s - 1)
           y == fragments[s].text
           z == SubSeq(y, 1, offset)
           m == Mark
           v == Text
           w == Text'
           j == Joined(fragments, s)
<1>1. /\ ~writing /\ savepoint # NULL /\ savepoint' = NULL /\ current' = savepoint
      /\ UNCHANGED <<writing, units, bytes, result>>
  BY Zenon DEF Rollback, call
<1>2. Mark' = NULL /\ Pending = NULL /\ Pending' = NULL
  <2>1. ~writing'
    BY <1>1, Zenon
  <2>2. QED
    BY <1>1, <2>1, Zenon DEF Mark, Pending
<1>3. /\ m = Len(x) + offset /\ m \in Nat /\ m # NULL /\ x \in Seq(Octets)
      /\ s - 1 \in 0 .. N /\ s \in 1 .. N
  BY <1>1, MarkIsSet
<1>4. /\ N \in Nat /\ current \in 1 .. N /\ s \in 1 .. current /\ current \in s .. N
      /\ s \in 0 .. N /\ current \in 0 .. N /\ offset \in Nat /\ offset <= Len(y)
      /\ y \in Seq(Octets) /\ Len(y) \in Nat
      /\ \A i \in 1 .. N : fragments[i].text \in Seq(Octets)
  BY <1>3, FragmentsAre, AfterRollback
<1>5. Tiled /\ Tiled'
  <2>1. Next
    BY Zenon DEF Next
  <2>2. QED
    BY <2>1, InvIsTiled, TiledAfter
<1>6. v = Joined(fragments, current) /\ j = x \o y
  BY <1>3, <1>4, <1>5, Zenon DEF Tiled
<1>7. Len(j) <= Len(v) /\ \A i \in 1 .. Len(j) : v[i] = j[i]
  <2>1. /\ Len(j) <= Len(Joined(fragments, current))
        /\ \A i \in 1 .. Len(j) : Joined(fragments, current)[i] = j[i]
    BY <1>4, JoinedIsPrefix
  <2>2. QED
    BY <1>6, <2>1, Zenon
<1>8. w = x \o z
  <2>1. /\ Len(fragments') = N /\ fragments'[s].text = z
        /\ \A i \in 1 .. (s - 1) : fragments[i].text = fragments'[i].text
    BY AfterRollback, Zenon
  <2>2. x = Joined(fragments', s - 1)
    BY <2>1, JoinedAlike
  <2>3. w = Joined(fragments', s)
    BY <1>1, <1>5, Zenon DEF Tiled
  <2>4. Joined(fragments', s) = Joined(fragments', s - 1) \o fragments'[s].text
    BY <1>3, <1>5, <2>1, Zenon DEF Tiled
  <2>5. QED
    BY <2>1, <2>2, <2>3, <2>4, Zenon
<1>9. v \in Seq(Octets)
  BY <1>4, <1>5, <1>6, Zenon DEF Tiled
<1> HIDE DEF x, y, m, v, w, j
<1>10. z \in Seq(Octets) /\ Len(z) = offset /\ \A i \in 1 .. offset : z[i] = y[i]
  <2>1. \A i \in 1 .. Len(y) : y[i] \in Octets
    BY <1>4, ElementOfSeq
  <2>2. offset \in 0 .. Len(y)
    BY <1>4
  <2>3. QED
    BY <1>4, <2>1, <2>2
<1> HIDE DEF z
<1>11. /\ Len(x) \in Nat /\ Len(j) = Len(x) + Len(y)
       /\ \A i \in 1 .. Len(x) + Len(y) : j[i] = IF i <= Len(x) THEN x[i] ELSE y[i - Len(x)]
       /\ w \in Seq(Octets) /\ Len(w) = m
       /\ \A i \in 1 .. m : w[i] = IF i <= Len(x) THEN x[i] ELSE z[i - Len(x)]
  <2>1. Len(x) \in Nat
    BY <1>3, LenProperties
  <2>2. /\ Len(x \o y) = Len(x) + Len(y)
        /\ \A i \in 1 .. Len(x) + Len(y) : (x \o y)[i] = IF i <= Len(x) THEN x[i] ELSE y[i - Len(x)]
    BY <1>3, <1>4, ConcatProperties
  <2>3. /\ x \o z \in Seq(Octets) /\ Len(x \o z) = Len(x) + Len(z)
        /\ \A i \in 1 .. Len(x) + Len(z) : (x \o z)[i] = IF i <= Len(x) THEN x[i] ELSE z[i - Len(x)]
    BY <1>3, <1>10, ConcatProperties
  <2>4. Len(x) + Len(z) = m
    BY <1>3, <1>10, Zenon
  <2>5. QED
    BY <1>6, <1>8, <2>1, <2>2, <2>3, <2>4, Zenon
<1>12. \A i \in 1 .. m : v[i] = w[i]
  <2> SUFFICES ASSUME NEW i \in 1 .. m PROVE v[i] = w[i]
    BY Zenon
  <2>1. i \in 1 .. Len(x) + Len(y) /\ i \in 1 .. Len(j)
    BY <1>3, <1>4, <1>11
  <2>2. v[i] = j[i]
    BY <1>7, <2>1
  <2>3. CASE i <= Len(x)
    BY <1>11, <2>1, <2>2, <2>3, Zenon
  <2>4. CASE ~(i <= Len(x))
    <3>1. i - Len(x) \in 1 .. offset
      BY <1>3, <1>4, <1>11, <2>4
    <3>2. z[i - Len(x)] = y[i - Len(x)]
      BY <1>10, <3>1
    <3>3. QED
      BY <1>11, <2>1, <2>2, <2>4, <3>2, Zenon
  <2>5. QED
    BY <2>3, <2>4
<1>13. m \in 0 .. Len(v)
  <2>1. Len(v) \in Nat
    BY <1>9, LenProperties
  <2>2. QED
    BY <1>3, <1>4, <1>7, <1>11, <2>1
<1>14. w = SubSeq(v, 1, m)
  <2> DEFINE r == SubSeq(v, 1, m)
  <2>1. \A i \in 1 .. Len(v) : v[i] \in Octets
    BY <1>9, ElementOfSeq
  <2>2. r \in Seq(Octets) /\ Len(r) = m /\ \A i \in 1 .. m : r[i] = v[i]
    BY <1>9, <1>13, <2>1
  <2> HIDE DEF r
  <2>3. \A i \in 1 .. Len(w) : w[i] = r[i]
    BY <1>11, <1>12, <2>2, Zenon
  <2>4. Len(w) = Len(r)
    BY <1>11, <2>2, Zenon
  <2>5. w = r
    BY <1>11, <2>2, <2>3, <2>4, SeqEqual, Zenon
  <2>6. QED
    BY <2>5 DEF r
<1>15. QED
  BY <1>1, <1>2, <1>3, <1>14, Zenon DEF m, v, w

(***************************************************************************)
(* The builder implements a bounded text with a savepoint: a conversion or *)
(* a change of fragments is a stutter, a copy appends a piece of what is   *)
(* pending, and a write fails only on a full message or malformed text.    *)
(***************************************************************************)
LEMMA MapsInit == Init => Abstract!Init
<1> SUFFICES ASSUME Init PROVE Abstract!Init
  OBVIOUS
<1>1. Text = <<>> /\ Mark = NULL /\ Pending = NULL /\ result = NULL
  BY BuilderInitiallyEmpty
<1>2. QED
  BY <1>1, MarkIsText, Zenon DEF Abstract!Init, Pending

LEMMA MapsStep == BuilderInv /\ [Next]_vars => [Abstract!Next]_Abstract!vars
<1> SUFFICES ASSUME BuilderInv, [Next]_vars PROVE [Abstract!Next]_Abstract!vars
  OBVIOUS
<1> DEFINE inputs == Narrow \union {Encode(u) : u \in Wide}
           rawMark == IF savepoint = NULL THEN NULL
                      ELSE Len(FlattenSeq([i \in 1 .. (savepoint - 1) |-> fragments[i].text])) + offset
           rawPending == IF writing THEN bytes \o Encode(units) ELSE NULL
<1>1. rawMark = Mark /\ rawPending = Pending
  BY MarkIsText, Zenon DEF Pending
<1>2. rawMark' = Mark' /\ rawPending' = Pending'
  BY Zenon DEF Mark, Joined, Pending
<1>3. ASSUME Stutter PROVE UNCHANGED Abstract!vars
  BY <1>1, <1>2, <1>3, Zenon DEF Abstract!vars, Stutter
<1>4. ASSUME NEW in \in inputs,
             Pending = NULL, Pending' = in, result' = NULL, Text' = Text, Mark' = Mark
      PROVE  Abstract!Next
  BY <1>1, <1>2, <1>4, Zenon DEF Abstract!Next, Abstract!Write
<1>5. ASSUME Pending # NULL, Pending = <<>>,
             Pending' = NULL, result' = TRUE, Text' = Text, Mark' = Mark
      PROVE  Abstract!Next
  BY <1>1, <1>2, <1>5, Zenon DEF Abstract!Next, Abstract!Done, Abstract!Return
<1>6. ASSUME Pending # NULL, Pending # <<>>, Len(Text) = Capacity \/ Abstract!Malformed(Pending),
             Pending' = NULL, result' = FALSE, Text' = Text, Mark' = Mark
      PROVE  Abstract!Next
  BY <1>1, <1>2, <1>6, Zenon DEF Abstract!Next, Abstract!Fail, Abstract!Return
<1>7. ASSUME NEW b \in Narrow, Write(b) PROVE Abstract!Next
  <2>1. b \in Seq(Octets) /\ <<>> \in Seq(CodeUnits) /\ Call(<<>>, b)
    BY <1>7, MessageAssumption DEF Write
  <2>2. /\ Pending = NULL /\ Pending' = b \o Encode(<<>>) /\ result' = NULL
        /\ Text' = Text /\ Mark' = Mark
    BY <2>1, WriteIsWrite, Zenon
  <2>3. Encode(<<>>) = <<>> /\ b \o <<>> = b
    BY <2>1, PendingIs, ConcatEmptySeq, Zenon
  <2>4. b \in inputs
    BY Zenon
  <2>5. QED
    BY <1>4, <2>2, <2>3, <2>4, Zenon
<1>8. ASSUME NEW u \in Wide, WriteWide(u) PROVE Abstract!Next
  <2>1. u \in Seq(CodeUnits) /\ <<>> \in Seq(Octets) /\ Call(u, <<>>)
    BY <1>8, MessageAssumption DEF WriteWide
  <2>2. /\ Pending = NULL /\ Pending' = <<>> \o Encode(u) /\ result' = NULL
        /\ Text' = Text /\ Mark' = Mark
    BY <2>1, WriteIsWrite, Zenon
  <2>3. Encode(u) \in Seq(Converted)
    BY <2>1, EncodeIsSeq
  <2>4. <<>> \o Encode(u) = Encode(u)
    BY <2>3, ConcatEmptySeq, Zenon
  <2>5. Encode(u) \in inputs
    BY Zenon
  <2>6. QED
    BY <1>4, <2>2, <2>4, <2>5, Zenon
<1>9. CASE Convert
  BY <1>3, <1>6, <1>9, ConvertIsStutterOrFail, Zenon
<1>10. CASE Copy
  <2>1. PICK n \in 1 .. Len(Pending) :
           /\ Pending # NULL /\ Len(Text) + n <= Capacity
           /\ ~Abstract!Malformed(SubSeq(Pending, 1, n))
           /\ Text' = Text \o SubSeq(Pending, 1, n)
           /\ Pending' = SubSeq(Pending, n + 1, Len(Pending))
           /\ Mark' = Mark /\ result' = result
    BY <1>10, CopyIsAppend, Zenon
  <2>2. Abstract!AppendSome(n)
    BY <1>1, <1>2, <2>1, Zenon DEF Abstract!AppendSome
  <2>3. Abstract!Next
    BY <1>1, <2>1, <2>2, Zenon DEF Abstract!Next
  <2>4. QED
    BY <2>3, Zenon
<1>11. CASE AppendFragment
  BY <1>3, <1>11, AppendFragmentIsStutter, Zenon
<1>12. CASE Overflow
  BY <1>6, <1>12, OverflowIsFail, Zenon
<1>13. CASE Done
  BY <1>5, <1>13, DoneIsDone, Zenon
<1>14. CASE Savepoint
  <2>1. Abstract!Savepoint
    BY <1>1, <1>2, <1>14, SavepointIsSavepoint, Zenon DEF Abstract!Savepoint
  <2>2. QED
    BY <2>1, Zenon DEF Abstract!Next
<1>15. CASE Commit
  <2>1. Abstract!Commit
    BY <1>1, <1>2, <1>15, CommitIsCommit, Zenon DEF Abstract!Commit
  <2>2. QED
    BY <2>1, Zenon DEF Abstract!Next
<1>16. CASE Rollback
  <2>1. Abstract!Rollback
    BY <1>1, <1>2, <1>16, RollbackIsRollback, Zenon DEF Abstract!Rollback
  <2>2. QED
    BY <2>1, Zenon DEF Abstract!Next
<1>17. CASE UNCHANGED vars
  <2>1. UNCHANGED <<fragments, current, savepoint, offset, writing, units, bytes, result>>
    BY <1>17, Zenon DEF vars, builder, call
  <2>2. Text' = Text /\ Mark' = Mark /\ Pending' = Pending /\ result' = result
    BY <2>1 DEF Text, Mark, Joined, Pending, Encode, CharBytes, IsHigh, IsLow
  <2>3. QED
    BY <1>3, <2>2, Zenon DEF Stutter
<1>18. QED
  BY <1>7, <1>8, <1>9, <1>10, <1>11, <1>12, <1>13, <1>14, <1>15, <1>16, <1>17, Zenon
     DEF Next, WriteStep

(***************************************************************************)
(* What a reader of the message sees does not depend on fragments and      *)
(* chunks: writes append the encoding of their whole text or fail on a     *)
(* full message or malformed text, and a rollback restores the text of the *)
(* savepoint.                                                              *)
(***************************************************************************)
THEOREM BuilderImplementsText == Spec => ImplementsBoundedText
<1>1. QED
  BY BuilderInvariant, MapsInit, MapsStep, PTL DEF Spec, ImplementsBoundedText, Abstract!Spec
=============================================================================

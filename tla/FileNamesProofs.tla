-------------------------- MODULE FileNamesProofs --------------------------
(***************************************************************************)
(* Theorems about FileNames, for every alphabet, every list of reserved    *)
(* names and extensions, and names of any length.                          *)
(***************************************************************************)
EXTENDS FileNames, SequenceTheorems, WellFoundedInduction, TLAPS

(* What a clean name is made of. *)
Kept == Letter \cup {".", Blank, Filler}

(* What a name that is cleaned for the second time may be made of. *)
Char == Kept \cup {Unsafe}

LEMMA Characters ==
    /\ Blank # "." /\ Filler # "." /\ Filler # Blank
    /\ Unsafe # "." /\ Unsafe # Blank /\ Unsafe # Filler
BY Zenon DEF Blank, Filler, Unsafe

-----------------------------------------------------------------------------
(* Sets of numbers.                                                        *)

(* The least number principle, in the place of induction.                  *)
LEMMA LeastNumber ==
    ASSUME NEW I, I \subseteq Nat, I # {}
    PROVE  \E m \in I : \A j \in I : m <= j
<1>1. PICK m \in I : \A j \in I : ~(<<j, m>> \in OpToRel(<, Nat))
  BY NatLessThanWellFounded, WFMin
<1>2. \A j \in I : ~(j < m)
  BY <1>1 DEF OpToRel
<1> QED
  BY <1>2

LEMMA MinLeast ==
    ASSUME NEW I, I \subseteq Nat, I # {}
    PROVE  Min(I) \in I /\ \A j \in I : Min(I) <= j
BY LeastNumber DEF Min

LEMMA MaxGreatest ==
    ASSUME NEW n \in Nat, NEW I, I \subseteq 0..n, I # {}
    PROVE  Max(I) \in I /\ \A j \in I : j <= Max(I)
<1> DEFINE J == {n - i : i \in I}
<1>1. J \subseteq Nat /\ J # {}
  <2>1. \A i \in I : n - i \in Nat
    OBVIOUS
  <2> QED
    BY <2>1
<1>2. PICK m \in J : \A j \in J : m <= j
  BY <1>1, LeastNumber
<1>3. \E x \in I : \A y \in I : x >= y
  <2>1. PICK x \in I : m = n - x
    OBVIOUS
  <2>2. \A y \in I : n - x <= n - y
    BY <1>2, <2>1
  <2> QED
    BY <2>2
<1>4. Max(I) \in I /\ \A y \in I : Max(I) >= y
  BY <1>3 DEF Max
<1> QED
  BY <1>4

(* Induction downwards, for a set of numbers.                              *)
LEMMA Downwards ==
    ASSUME NEW n \in Nat, NEW P \in SUBSET Int, n \in P,
           \A i \in 1..n - 1 : i + 1 \in P /\ (i + 2 <= n => i + 2 \in P) => i \in P
    PROVE  1..n \subseteq P
<1> SUFFICES ASSUME (1..n) \ P # {} PROVE FALSE
  OBVIOUS
<1> DEFINE i == Max((1..n) \ P)
<1>1. i \in (1..n) \ P /\ \A j \in (1..n) \ P : j <= i
  BY MaxGreatest
<1> HIDE DEF i
<1>2. i \in 1..n - 1 /\ i + 1 \in P /\ (i + 2 <= n => i + 2 \in P)
  BY <1>1
<1> QED
  BY <1>1, <1>2

-----------------------------------------------------------------------------
(* The first and the last character outside a set.                         *)

LEMMA TrimLeftDrops ==
    ASSUME NEW S, NEW s \in Seq(S), NEW cut
    PROVE  \E k \in 0..Len(s) :
             /\ TrimLeft(s, cut) \in Seq(S)
             /\ Len(TrimLeft(s, cut)) = Len(s) - k
             /\ \A i \in 1..Len(s) - k : TrimLeft(s, cut)[i] = s[k + i]
             /\ \A i \in 1..k : s[i] \in cut
             /\ k < Len(s) => s[k + 1] \notin cut
<1> DEFINE I == Outside(s, cut) \cup {Len(s) + 1}
           m == Min(I)
<1>1. Len(s) \in Nat /\ \A i \in 1..Len(s) : s[i] \in S
  BY LenProperties, ElementOfSeq
<1>2. I \subseteq Nat /\ I # {}
  BY <1>1 DEF Outside
<1>3. m \in I /\ \A j \in I : m <= j
  BY <1>2, MinLeast
<1>4. TrimLeft(s, cut) = SubSeq(s, m, Len(s))
  BY DEF TrimLeft
<1> HIDE DEF m
<1>5. m \in 1..Len(s) + 1 /\ (m <= Len(s) => s[m] \notin cut)
  BY <1>1, <1>3 DEF Outside
<1>6. \A i \in 1..m - 1 : s[i] \in cut
  BY <1>1, <1>3, <1>5 DEF Outside
<1>7. /\ SubSeq(s, m, Len(s)) \in Seq(S)
      /\ Len(SubSeq(s, m, Len(s))) = IF m <= Len(s) THEN Len(s) - m + 1 ELSE 0
      /\ \A i \in 1..Len(s) - m + 1 : SubSeq(s, m, Len(s))[i] = s[m + i - 1]
  BY <1>1, <1>5, SubSeqProperties
<1> QED
  <2> DEFINE k == m - 1
  <2>1. k \in 0..Len(s) /\ m = k + 1
    BY <1>1, <1>5
  <2> HIDE DEF k
  <2>2. \A i \in 1..Len(s) - k : m + i - 1 = k + i /\ i \in 1..Len(s) - m + 1
    BY <1>1, <2>1
  <2>3. \A i \in 1..Len(s) - k : TrimLeft(s, cut)[i] = s[k + i]
    BY <1>4, <1>7, <2>2
  <2>4. Len(TrimLeft(s, cut)) = Len(s) - k
    BY <1>1, <1>4, <1>7, <2>1
  <2> QED
    BY <1>4, <1>5, <1>6, <1>7, <2>1, <2>3, <2>4

LEMMA TrimRightDrops ==
    ASSUME NEW S, NEW s \in Seq(S), NEW cut
    PROVE  \E k \in 0..Len(s) :
             /\ TrimRight(s, cut) \in Seq(S)
             /\ Len(TrimRight(s, cut)) = k
             /\ \A i \in 1..k : TrimRight(s, cut)[i] = s[i]
             /\ \A i \in k + 1..Len(s) : s[i] \in cut
             /\ k > 0 => s[k] \notin cut
<1> DEFINE I == Outside(s, cut) \cup {0}
           m == Max(I)
<1>1. Len(s) \in Nat /\ \A i \in 1..Len(s) : s[i] \in S
  BY LenProperties, ElementOfSeq
<1>2. I \subseteq 0..Len(s) /\ I # {}
  BY <1>1 DEF Outside
<1>3. m \in I /\ \A j \in I : j <= m
  BY <1>1, <1>2, MaxGreatest
<1>4. TrimRight(s, cut) = SubSeq(s, 1, m)
  BY DEF TrimRight
<1> HIDE DEF m
<1>5. m \in 0..Len(s) /\ (m > 0 => s[m] \notin cut)
  BY <1>1, <1>3 DEF Outside
<1>6. \A i \in m + 1..Len(s) : s[i] \in cut
  BY <1>1, <1>3, <1>5 DEF Outside
<1>7. /\ SubSeq(s, 1, m) \in Seq(S)
      /\ Len(SubSeq(s, 1, m)) = IF 1 <= m THEN m - 1 + 1 ELSE 0
      /\ \A i \in 1..m - 1 + 1 : SubSeq(s, 1, m)[i] = s[1 + i - 1]
  BY <1>1, <1>5, SubSeqProperties
<1> QED
  BY <1>1, <1>4, <1>5, <1>6, <1>7

LEMMA LastDotIsLast ==
    ASSUME NEW S, NEW s \in Seq(S)
    PROVE  /\ LastDot(s) \in 0..Len(s)
           /\ LastDot(s) > 0 => s[LastDot(s)] = "."
           /\ \A i \in LastDot(s) + 1..Len(s) : s[i] # "."
<1> DEFINE I == {i \in 1..Len(s) : s[i] = "."} \cup {0}
<1>1. Len(s) \in Nat
  BY LenProperties
<1>2. I \subseteq 0..Len(s) /\ I # {}
  BY <1>1
<1>3. LastDot(s) \in I /\ \A j \in I : j <= LastDot(s)
  BY <1>1, <1>2, MaxGreatest DEF LastDot
<1> QED
  BY <1>1, <1>3

-----------------------------------------------------------------------------
(* Collapsed.                                                              *)

(* One round of ReplaceAll at position i, when g has done what follows.    *)
Collapse(s, g, i) ==
    IF i > Len(s) THEN <<>>
    ELSE IF i < Len(s) /\ s[i] = "." /\ s[i + 1] = "."
         THEN <<Filler>> \o g[i + 2]
         ELSE <<s[i]>> \o g[i + 1]

(* The recursion of CollapsedFrom defines a function.                      *)
LEMMA CollapsedFromIsDefined ==
    ASSUME NEW S, NEW s \in Seq(S)
    PROVE  CollapsedFrom(s) = [i \in 1..Len(s) + 1 |-> Collapse(s, CollapsedFrom(s), i)]
<1> DEFINE n == Len(s) + 1
           P == {i \in 1..n : \E g : g = [j \in i..n |-> Collapse(s, g, j)]}
<1>1. Len(s) \in Nat
  BY LenProperties
<1>2. n \in P
  <2> DEFINE g == [j \in n..n |-> <<>>]
  <2>1. \A j \in n..n : Collapse(s, g, j) = <<>>
    BY <1>1 DEF Collapse
  <2>2. g = [j \in n..n |-> Collapse(s, g, j)]
    BY <2>1
  <2>3. n \in 1..n
    BY <1>1
  <2> HIDE DEF g, n
  <2> QED
    BY <2>2, <2>3
<1>3. ASSUME NEW i \in 1..n - 1, i + 1 \in P
      PROVE  i \in P
  <2>1. PICK g : g = [j \in i + 1..n |-> Collapse(s, g, j)]
    BY <1>3
  <2> DEFINE h == [j \in i..n |-> IF j = i THEN Collapse(s, g, i) ELSE g[j]]
  <2>2. \A j \in i + 1..n : h[j] = g[j]
    BY <1>1
  <2>3. \A j \in i..n : h[j] = IF j = i THEN Collapse(s, g, i) ELSE Collapse(s, g, j)
    BY <1>1, <2>1
  <2>4. h = [j \in i..n |-> h[j]]
    OBVIOUS
  <2> HIDE DEF h
  <2>5. ASSUME NEW j \in i..n
        PROVE  Collapse(s, h, j) = Collapse(s, g, j)
    <3>1. j <= Len(s) => h[j + 1] = g[j + 1]
      BY <1>1, <2>2
    <3>2. j < Len(s) => h[j + 2] = g[j + 2]
      BY <1>1, <2>2
    <3>3. j \in Int /\ (j > Len(s) \/ j <= Len(s))
      BY <1>1
    <3> QED
      BY <3>1, <3>2, <3>3, Zenon DEF Collapse
  <2>6. h = [j \in i..n |-> Collapse(s, h, j)]
    BY <2>3, <2>4, <2>5
  <2> QED
    BY <1>1, <2>6
<1>4. 1 \in P
  <2>1. n \in Nat /\ 1 \in 1..n /\ P \in SUBSET Int
    BY <1>1
  <2> HIDE DEF P, n
  <2>2. 1..n \subseteq P
    BY <1>2, <1>3, <2>1, Downwards
  <2> QED
    BY <2>1, <2>2
<1>5. \E g : g = [j \in 1..n |-> Collapse(s, g, j)]
  BY <1>4
<1> QED
  BY <1>5 DEF CollapsedFrom, Collapse

LEMMA Prepend ==
    ASSUME NEW S, NEW c \in S, NEW t \in Seq(S)
    PROVE  /\ <<c>> \o t \in Seq(S)
           /\ Len(<<c>> \o t) = Len(t) + 1
           /\ (<<c>> \o t)[1] = c
           /\ \A k \in 2..Len(t) + 1 : (<<c>> \o t)[k] = t[k - 1]
<1>1. <<c>> \in Seq(S) /\ Len(<<c>>) = 1 /\ <<c>>[1] = c /\ Len(t) \in Nat
  BY LenProperties
<1>2. /\ <<c>> \o t \in Seq(S)
      /\ Len(<<c>> \o t) = 1 + Len(t)
      /\ \A k \in 1..1 + Len(t) :
            (<<c>> \o t)[k] = IF k <= 1 THEN <<c>>[k] ELSE t[k - 1]
  BY <1>1, ConcatProperties
<1> QED
  BY <1>1, <1>2

(* No two dots in a row. *)
NoPair(s) == \A i \in 1..Len(s) - 1 : ~(s[i] = "." /\ s[i + 1] = ".")

(* From position i on only blanks and dots up to a dot behind a blank: the *)
(* names that one call does not clean completely.                          *)
Hides(s, i) ==
    \E j \in i..Len(s) - 1 :
        /\ s[j] = Blank /\ s[j + 1] = "."
        /\ \A m \in i..j : s[m] \in {Blank, "."}

(* What is known of t, which Collapsed leaves of s from position i on.     *)
Left(s, i, t) ==
    /\ t \in Seq(Kept) /\ Len(t) <= Len(s) + 1 - i
    /\ NoPair(t)
    /\ Len(t) > 0 /\ t[1] = "." => i <= Len(s) /\ s[i] = "."
    /\ NoPair(s) => /\ Len(t) = Len(s) + 1 - i
                    /\ \A k \in 1..Len(t) : t[k] = s[i + k - 1]
    /\ Hides(t, 1) => Hides(s, i)

LEMMA CollapsePair ==
    ASSUME NEW s \in Seq(Kept), NEW i \in 1..Len(s) - 1, s[i] = ".", s[i + 1] = ".",
           NEW u, Left(s, i + 2, u)
    PROVE  Left(s, i, <<Filler>> \o u)
<1> DEFINE t == <<Filler>> \o u
<1>0. u \in Seq(Kept) /\ Len(u) <= Len(s) + 1 - (i + 2) /\ NoPair(u)
  BY Zenon DEF Left
<1> USE Characters
<1>1. Filler \in Kept /\ Len(s) \in Nat /\ Len(u) \in Nat
  BY <1>0, LenProperties DEF Kept
<1>2. /\ t \in Seq(Kept) /\ Len(t) = Len(u) + 1 /\ t[1] = Filler
      /\ \A k \in 2..Len(u) + 1 : t[k] = u[k - 1]
  BY <1>0, <1>1, Prepend
<1> HIDE DEF t
<1>3. Len(t) <= Len(s) + 1 - i
  BY <1>0, <1>1, <1>2
<1>4. NoPair(t)
  <2> SUFFICES ASSUME NEW k \in 1..Len(t) - 1, t[k] = ".", t[k + 1] = "."
               PROVE  FALSE
    BY DEF NoPair
  <2>1. k # 1
    BY <1>2
  <2>2. k - 1 \in 1..Len(u) - 1 /\ t[k] = u[k - 1] /\ t[k + 1] = u[(k - 1) + 1]
    BY <1>1, <1>2, <2>1
  <2> QED
    BY <1>0, <2>2 DEF NoPair
<1>5. ~NoPair(s)
  BY DEF NoPair
<1>6. ~Hides(t, 1)
  <2> SUFFICES ASSUME NEW j \in 1..Len(t) - 1, t[1] \in {Blank, "."}
               PROVE  FALSE
    BY <1>1, <1>2 DEF Hides
  <2> QED
    BY <1>2
<1>7. t[1] # "."
  BY <1>2
<1> QED
  BY <1>2, <1>3, <1>4, <1>5, <1>6, <1>7, Zenon DEF Left, t

LEMMA CollapseOne ==
    ASSUME NEW s \in Seq(Kept), NEW i \in 1..Len(s),
           ~(i < Len(s) /\ s[i] = "." /\ s[i + 1] = "."),
           NEW u, Left(s, i + 1, u)
    PROVE  Left(s, i, <<s[i]>> \o u)
<1> DEFINE t == <<s[i]>> \o u
<1>0. /\ u \in Seq(Kept) /\ Len(u) <= Len(s) + 1 - (i + 1) /\ NoPair(u)
      /\ Len(u) > 0 /\ u[1] = "." => i + 1 <= Len(s) /\ s[i + 1] = "."
      /\ NoPair(s) => /\ Len(u) = Len(s) + 1 - (i + 1)
                      /\ \A k \in 1..Len(u) : u[k] = s[i + 1 + k - 1]
      /\ Hides(u, 1) => Hides(s, i + 1)
  BY Zenon DEF Left
<1> USE Characters
<1>1. s[i] \in Kept /\ Len(s) \in Nat /\ Len(u) \in Nat
  BY <1>0, LenProperties, ElementOfSeq
<1>2. /\ t \in Seq(Kept) /\ Len(t) = Len(u) + 1 /\ t[1] = s[i]
      /\ \A k \in 2..Len(u) + 1 : t[k] = u[k - 1]
  BY <1>0, <1>1, Prepend
<1> HIDE DEF t
<1>3. Len(t) <= Len(s) + 1 - i
  BY <1>0, <1>1, <1>2
<1>4. Len(t) > 1 /\ t[2] = "." => i < Len(s) /\ s[i + 1] = "."
  BY <1>0, <1>1, <1>2
<1>5. NoPair(t)
  <2> SUFFICES ASSUME NEW k \in 1..Len(t) - 1, t[k] = ".", t[k + 1] = "."
               PROVE  FALSE
    BY DEF NoPair
  <2>1. k # 1
    BY <1>1, <1>2, <1>4
  <2>2. k - 1 \in 1..Len(u) - 1 /\ t[k] = u[k - 1] /\ t[k + 1] = u[(k - 1) + 1]
    BY <1>1, <1>2, <2>1
  <2> QED
    BY <1>0, <2>2 DEF NoPair
<1>6. ASSUME NoPair(s)
      PROVE  Len(t) = Len(s) + 1 - i /\ \A k \in 1..Len(t) : t[k] = s[i + k - 1]
  <2>1. Len(u) = Len(s) + 1 - (i + 1) /\ \A k \in 1..Len(u) : u[k] = s[i + 1 + k - 1]
    BY <1>0, <1>6
  <2>2. ASSUME NEW k \in 1..Len(t), k # 1
        PROVE  t[k] = s[i + k - 1]
    <3>1. k - 1 \in 1..Len(u) /\ t[k] = u[k - 1] /\ i + 1 + (k - 1) - 1 = i + k - 1
      BY <1>1, <1>2, <2>2
    <3> QED
      BY <2>1, <3>1
  <2>3. i + 1 - 1 = i
    OBVIOUS
  <2> QED
    BY <1>1, <1>2, <2>1, <2>2, <2>3
<1>7. ASSUME Hides(t, 1)
      PROVE  Hides(s, i)
  <2>1. PICK j \in 1..Len(t) - 1 : /\ t[j] = Blank /\ t[j + 1] = "."
                                   /\ \A m \in 1..j : t[m] \in {Blank, "."}
    BY <1>7 DEF Hides
  <2>2. s[i] \in {Blank, "."}
    BY <1>2, <2>1
  <2>3. CASE j = 1
    <3>1. s[i] = Blank /\ i < Len(s) /\ s[i + 1] = "."
      BY <1>1, <1>2, <1>4, <2>1, <2>3
    <3> QED
      BY <1>1, <3>1 DEF Hides
  <2>4. CASE j # 1
    <3>1. /\ j - 1 \in 1..Len(u) - 1
          /\ t[j] = u[j - 1] /\ t[j + 1] = u[(j - 1) + 1]
      BY <1>1, <1>2, <2>4
    <3>2. ASSUME NEW m \in 1..j - 1
          PROVE  u[m] \in {Blank, "."}
      <4>1. m + 1 \in 2..Len(u) + 1 /\ m + 1 \in 1..j /\ (m + 1) - 1 = m
        BY <1>1, <3>1
      <4> QED
        BY <1>2, <2>1, <4>1
    <3>3. Hides(u, 1)
      BY <2>1, <3>1, <3>2 DEF Hides
    <3>4. PICK l \in i + 1..Len(s) - 1 : /\ s[l] = Blank /\ s[l + 1] = "."
                                         /\ \A m \in i + 1..l : s[m] \in {Blank, "."}
      BY <1>0, <3>3 DEF Hides
    <3>5. \A m \in i..l : s[m] \in {Blank, "."}
      BY <2>2, <3>4
    <3> QED
      BY <1>1, <3>4, <3>5 DEF Hides
  <2> QED
    BY <2>3, <2>4
<1> QED
  <2>1. Len(t) > 0 /\ t[1] = "." => i <= Len(s) /\ s[i] = "."
    BY <1>2
  <2> QED
    BY <1>2, <1>3, <1>5, <1>6, <1>7, <2>1, Zenon DEF Left, t

LEMMA CollapsedLeft ==
    ASSUME NEW s \in Seq(Kept)
    PROVE  Left(s, 1, Collapsed(s))
<1> DEFINE n == Len(s) + 1
           f == CollapsedFrom(s)
           P == {i \in 1..n : Left(s, i, f[i])}
<1>1. Len(s) \in Nat
  BY LenProperties
<1>2. \A i \in 1..n : f[i] = Collapse(s, f, i)
  BY CollapsedFromIsDefined, Zenon
<1> HIDE DEF f
<1>3. n \in P
  <2>1. n \in 1..n /\ n > Len(s)
    BY <1>1
  <2>2. f[n] = <<>>
    BY <1>2, <2>1, Zenon DEF Collapse
  <2>3. <<>> \in Seq(Kept) /\ Len(<<>>) = 0
    BY EmptySeq
  <2>4. Left(s, n, <<>>)
    BY <1>1, <2>3 DEF Left, NoPair, Hides
  <2> QED
    BY <2>1, <2>2, <2>4
<1>4. ASSUME NEW i \in 1..n - 1, i + 1 \in P, i + 2 <= n => i + 2 \in P
      PROVE  i \in P
  <2>0. i \in 1..n
    BY <1>1
  <2>1. i \in 1..Len(s) /\ ~(i > Len(s))
    BY <1>1
  <2>2. CASE i < Len(s) /\ s[i] = "." /\ s[i + 1] = "."
    <3>1. f[i] = <<Filler>> \o f[i + 2]
      BY <1>2, <2>0, <2>1, <2>2, Zenon DEF Collapse
    <3>2. Left(s, i + 2, f[i + 2])
      BY <1>1, <1>4, <2>2
    <3>3. i \in 1..Len(s) - 1
      BY <1>1, <2>1, <2>2
    <3>4. Left(s, i, f[i])
      BY <2>2, <3>1, <3>2, <3>3, CollapsePair, Zenon
    <3> QED
      BY <2>0, <3>4
  <2>3. CASE ~(i < Len(s) /\ s[i] = "." /\ s[i + 1] = ".")
    <3>1. f[i] = <<s[i]>> \o f[i + 1]
      BY <1>2, <2>0, <2>1, <2>3, Zenon DEF Collapse
    <3>2. Left(s, i + 1, f[i + 1])
      BY <1>4
    <3>3. Left(s, i, f[i])
      BY <2>1, <2>3, <3>1, <3>2, CollapseOne, Zenon
    <3> QED
      BY <2>0, <3>3
  <2> QED
    BY <2>2, <2>3
<1>5. n \in Nat /\ 1 \in 1..n /\ P \in SUBSET Int
  BY <1>1
<1>6. 1 \in P
  <2> HIDE DEF P, n
  <2>1. 1..n \subseteq P
    BY <1>3, <1>4, <1>5, Downwards
  <2> QED
    BY <1>5, <2>1
<1> QED
  BY <1>6 DEF Collapsed, f

-----------------------------------------------------------------------------
(* The other passes.                                                       *)

LEMMA ReplacedChars ==
    ASSUME NEW s \in Seq(Char)
    PROVE  /\ Replaced(s) \in Seq(Kept) /\ Len(Replaced(s)) = Len(s)
           /\ Hides(Replaced(s), 1) => Hides(s, 1)
           /\ (\A i \in 1..Len(s) : s[i] # Unsafe) => Replaced(s) = s
<1> USE Characters
<1>1. /\ Len(s) \in Nat /\ s = [i \in 1..Len(s) |-> s[i]]
      /\ \A i \in 1..Len(s) : s[i] \in Char
  BY LenProperties, ElementOfSeq
<1>2. Replaced(s) \in [1..Len(s) -> Kept]
  BY <1>1 DEF Replaced, Kept, Char
<1>3. Replaced(s) \in Seq(Kept)
  BY <1>1, <1>2, SeqDef
<1>4. Len(Replaced(s)) = Len(s)
  <2>1. DOMAIN Replaced(s) = 1..Len(s) /\ DOMAIN Replaced(s) = 1..Len(Replaced(s))
    BY <1>2, <1>3, LenProperties
  <2>2. Len(Replaced(s)) \in Nat
    BY <1>3, LenProperties
  <2> QED
    BY <1>1, <2>1, <2>2
<1>5. \A i \in 1..Len(s) : Replaced(s)[i] \in {Blank, "."} => s[i] = Replaced(s)[i]
  BY <1>1 DEF Replaced
<1>6. ASSUME Hides(Replaced(s), 1) PROVE Hides(s, 1)
  BY <1>1, <1>4, <1>5, <1>6 DEF Hides
<1>7. ASSUME \A i \in 1..Len(s) : s[i] # Unsafe PROVE Replaced(s) = s
  BY <1>1, <1>7 DEF Replaced
<1> QED
  BY <1>3, <1>4, <1>6, <1>7

Begins(s) == Len(s) > 0 /\ s[1] \notin {".", Blank}

Ends(s) == Len(s) > 0 /\ s[Len(s)] \notin {Blank, "."}

LEMMA TrimmedChars ==
    ASSUME NEW s \in Seq(Kept)
    PROVE  /\ Trimmed(s) \in Seq(Kept) /\ Len(Trimmed(s)) <= Len(s)
           /\ NoPair(s) => NoPair(Trimmed(s))
           /\ Len(Trimmed(s)) > 0 => Ends(Trimmed(s))
           /\ Len(Trimmed(s)) > 0 /\ ~Hides(s, 1) => Begins(Trimmed(s))
<1> USE Characters
<1> DEFINE a == TrimLeft(s, {"."})
           b == TrimRight(a, {Blank, "."})
           t == TrimLeft(b, {Blank})
<1>1. Len(s) \in Nat
  BY LenProperties
<1>2. PICK k \in 0..Len(s) :
        /\ a \in Seq(Kept)
        /\ Len(a) = Len(s) - k
        /\ \A i \in 1..Len(s) - k : a[i] = s[k + i]
        /\ \A i \in 1..k : s[i] \in {"."}
        /\ k < Len(s) => s[k + 1] \notin {"."}
  BY TrimLeftDrops
<1>3. PICK l \in 0..Len(a) :
        /\ b \in Seq(Kept)
        /\ Len(b) = l
        /\ \A i \in 1..l : b[i] = a[i]
        /\ \A i \in l + 1..Len(a) : a[i] \in {Blank, "."}
        /\ l > 0 => a[l] \notin {Blank, "."}
  BY <1>2, TrimRightDrops
<1>4. PICK m \in 0..Len(b) :
        /\ t \in Seq(Kept)
        /\ Len(t) = Len(b) - m
        /\ \A i \in 1..Len(b) - m : t[i] = b[m + i]
        /\ \A i \in 1..m : b[i] \in {Blank}
        /\ m < Len(b) => b[m + 1] \notin {Blank}
  BY <1>3, TrimLeftDrops
<1> HIDE DEF a, b, t
<1>5. Len(t) = l - m /\ l <= Len(s) - k /\ m <= l /\ k \in Nat /\ l \in Nat /\ m \in Nat
  BY <1>1, <1>2, <1>3, <1>4
<1>6. ASSUME NEW i \in 1..l
      PROVE  b[i] = s[k + i] /\ b[i] = a[i]
  BY <1>1, <1>2, <1>3, <1>5
<1>7. ASSUME NEW i \in 1..Len(t)
      PROVE  t[i] = s[(k + m) + i] /\ t[i] = b[m + i]
  <2>1. m + i \in 1..l /\ i \in 1..Len(b) - m /\ k + (m + i) = (k + m) + i
    BY <1>3, <1>4, <1>5
  <2> QED
    BY <1>4, <1>6, <2>1
<1>8. ASSUME NoPair(s) PROVE NoPair(t)
  <2> SUFFICES ASSUME NEW i \in 1..Len(t) - 1, t[i] = ".", t[i + 1] = "."
               PROVE  FALSE
    BY DEF NoPair
  <2>1. i \in 1..Len(t) /\ i + 1 \in 1..Len(t)
    BY <1>5
  <2>2. t[i] = s[(k + m) + i] /\ t[i + 1] = s[(k + m) + (i + 1)]
    BY <1>7, <2>1
  <2>3. (k + m) + (i + 1) = ((k + m) + i) + 1 /\ (k + m) + i \in 1..Len(s) - 1
    BY <1>1, <1>5, <2>1
  <2> QED
    BY <1>8, <2>2, <2>3 DEF NoPair
<1>9. ASSUME Len(t) > 0 PROVE Ends(t)
  <2>1. Len(t) \in 1..Len(t) /\ m + Len(t) = l /\ l \in 1..l
    BY <1>5, <1>9
  <2>2. t[Len(t)] = b[l] /\ b[l] = a[l]
    BY <1>6, <1>7, <2>1
  <2> QED
    BY <1>3, <1>9, <2>1, <2>2 DEF Ends
<1>10. ASSUME Len(t) > 0, ~Hides(s, 1) PROVE Begins(t)
  <2>1. 1 \in 1..Len(t) /\ m + 1 \in 1..l /\ m < Len(b)
    BY <1>3, <1>5, <1>10
  <2>2. t[1] = b[m + 1] /\ t[1] = s[(k + m) + 1] /\ t[1] # Blank
    BY <1>4, <1>7, <2>1
  <2>3. CASE m = 0
    <3>1. s[k + 1] # "." /\ (k + m) + 1 = k + 1
      BY <1>2, <1>5, <2>1, <2>3
    <3> QED
      BY <1>10, <2>2, <3>1 DEF Begins
  <2>4. CASE m > 0
    <3>1. ASSUME NEW i \in 1..m PROVE s[k + i] = Blank
      <4>1. i \in 1..l
        BY <1>5
      <4> QED
        BY <1>4, <1>6, <4>1
    <3>2. ASSUME NEW i \in 1..k + m PROVE s[i] \in {Blank, "."}
      <4>1. CASE i <= k
        BY <1>2, <1>5, <4>1
      <4>2. CASE i > k
        <5>1. i - k \in 1..m /\ k + (i - k) = i
          BY <1>5, <4>2
        <5> QED
          BY <3>1, <5>1
      <4> QED
        BY <1>5, <4>1, <4>2
    <3>3. s[k + m] = Blank /\ k + m \in 1..Len(s) - 1
      BY <1>1, <1>5, <2>1, <2>4, <3>1
    <3>4. s[(k + m) + 1] # "."
      BY <1>10, <3>2, <3>3 DEF Hides
    <3> QED
      BY <1>10, <2>2, <3>4 DEF Begins
  <2> QED
    BY <1>5, <2>3, <2>4
<1>11. Trimmed(s) = t
  BY DEF Trimmed, t, b, a
<1> QED
  BY <1>1, <1>4, <1>5, <1>8, <1>9, <1>10, <1>11

LEMMA TrimLeftKeeps ==
    ASSUME NEW S, NEW s \in Seq(S), NEW cut, Len(s) > 0, s[1] \notin cut
    PROVE  TrimLeft(s, cut) = s
<1>1. PICK k \in 0..Len(s) :
             /\ TrimLeft(s, cut) \in Seq(S)
             /\ Len(TrimLeft(s, cut)) = Len(s) - k
             /\ \A i \in 1..Len(s) - k : TrimLeft(s, cut)[i] = s[k + i]
             /\ \A i \in 1..k : s[i] \in cut
             /\ k < Len(s) => s[k + 1] \notin cut
  BY TrimLeftDrops
<1>2. k = 0 /\ Len(s) \in Nat
  BY <1>1, LenProperties
<1>3. Len(TrimLeft(s, cut)) = Len(s) /\ \A i \in 1..Len(s) : TrimLeft(s, cut)[i] = s[i]
  BY <1>1, <1>2
<1> QED
  BY <1>1, <1>3, SeqEqual

LEMMA TrimRightKeeps ==
    ASSUME NEW S, NEW s \in Seq(S), NEW cut, Len(s) > 0, s[Len(s)] \notin cut
    PROVE  TrimRight(s, cut) = s
<1>1. PICK k \in 0..Len(s) :
             /\ TrimRight(s, cut) \in Seq(S)
             /\ Len(TrimRight(s, cut)) = k
             /\ \A i \in 1..k : TrimRight(s, cut)[i] = s[i]
             /\ \A i \in k + 1..Len(s) : s[i] \in cut
             /\ k > 0 => s[k] \notin cut
  BY TrimRightDrops
<1>2. k = Len(s) /\ Len(s) \in Nat
  BY <1>1, LenProperties
<1> QED
  BY <1>1, <1>2, SeqEqual

LEMMA TrimmedKeeps ==
    ASSUME NEW s \in Seq(Kept), Begins(s), Ends(s)
    PROVE  Trimmed(s) = s
<1>1. TrimLeft(s, {"."}) = s /\ TrimLeft(s, {Blank}) = s
  BY TrimLeftKeeps DEF Begins
<1>2. TrimRight(s, {Blank, "."}) = s
  BY TrimRightKeeps DEF Ends
<1> QED
  BY <1>1, <1>2 DEF Trimmed

LEMMA NamedChars ==
    ASSUME NEW s \in Seq(Kept), Len(s) > 0 => Ends(s)
    PROVE  /\ Named(s) \in Seq(Kept) /\ Ends(Named(s))
           /\ NoPair(s) => NoPair(Named(s))
           /\ (Len(s) > 0 => Begins(s)) => Begins(Named(s))
           /\ Len(s) < MaxLen => Len(Named(s)) < MaxLen
           /\ Len(s) > 0 => Named(s) = s
<1> USE Characters
<1>1. /\ Unnamed \in Seq(Letter) /\ Unnamed # <<>> /\ Len(Unnamed) < MaxLen
      /\ Letter \cap {".", Blank} = {}
  BY Assumptions
<1>2. Len(Unnamed) \in Nat \ {0} /\ \A i \in 1..Len(Unnamed) : Unnamed[i] \in Letter
  BY <1>1, EmptySeq, ElementOfSeq
<1>3. Unnamed \in Seq(Kept)
  BY <1>1, SeqMonotonic DEF Kept
<1>4. \A i \in 1..Len(Unnamed) : Unnamed[i] \notin {".", Blank}
  BY <1>1, <1>2
<1>5. Begins(Unnamed) /\ Ends(Unnamed) /\ NoPair(Unnamed)
  BY <1>2, <1>4 DEF Begins, Ends, NoPair
<1>6. Len(s) \in Nat /\ (Len(s) > 0 <=> s # <<>>)
  BY LenProperties, EmptySeq
<1> QED
  BY <1>1, <1>3, <1>5, <1>6 DEF Named

(* The base of a name begins as the name does.                             *)
LEMMA BaseBegins ==
    ASSUME NEW S, NEW s \in Seq(S), Len(s) > 0
    PROVE  Base(s) \in Seq(S) /\ Len(Base(s)) > 0 /\ Base(s)[1] = s[1]
<1>1. LastDot(s) \in 0..Len(s) /\ Len(s) \in Nat /\ \A i \in 1..Len(s) : s[i] \in S
  BY LastDotIsLast, LenProperties, ElementOfSeq
<1>2. CASE LastDot(s) > 1
  <2> DEFINE n == LastDot(s) - 1
  <2>1. n \in 1..Len(s) /\ \A i \in 1..n : s[i] \in S
    BY <1>1, <1>2
  <2>2. Base(s) = SubSeq(s, 1, n)
    BY <1>2 DEF Base
  <2> HIDE DEF n
  <2>3. /\ SubSeq(s, 1, n) \in Seq(S)
        /\ Len(SubSeq(s, 1, n)) = IF 1 <= n THEN n - 1 + 1 ELSE 0
        /\ \A i \in 1..n - 1 + 1 : SubSeq(s, 1, n)[i] = s[1 + i - 1]
    BY <2>1, SubSeqProperties
  <2>4. Len(Base(s)) = n /\ Base(s)[1] = s[1 + 1 - 1] /\ 1 + 1 - 1 = 1
    BY <1>1, <2>1, <2>2, <2>3
  <2> QED
    BY <2>1, <2>2, <2>3, <2>4
<1>3. CASE ~(LastDot(s) > 1)
  BY <1>3 DEF Base
<1> QED
  BY <1>2, <1>3

LEMMA UnreservedChars ==
    ASSUME NEW s \in Seq(Kept), Ends(s)
    PROVE  /\ Unreserved(s) \in Seq(Kept) /\ Ends(Unreserved(s))
           /\ Len(Unreserved(s)) <= Len(s) + 1
           /\ Begins(s) => Begins(Unreserved(s))
           /\ NoPair(s) => NoPair(Unreserved(s))
           /\ Base(Unreserved(s)) \notin Reserved
<1> USE Characters
<1>1. Len(s) \in Nat /\ Len(s) > 0
  BY LenProperties DEF Ends
<1>2. CASE Base(s) \notin Reserved
  <2>1. Unreserved(s) = s
    BY <1>2 DEF Unreserved
  <2> QED
    BY <1>1, <1>2, <2>1
<1>3. CASE Base(s) \in Reserved
  <2> DEFINE u == <<Filler>> \o s
  <2>1. Unreserved(s) = u
    BY <1>3 DEF Unreserved
  <2>2. /\ u \in Seq(Kept) /\ Len(u) = Len(s) + 1 /\ u[1] = Filler
        /\ \A k \in 2..Len(s) + 1 : u[k] = s[k - 1]
    BY Prepend DEF Kept
  <2> HIDE DEF u
  <2>3. Ends(u)
    <3>1. Len(u) \in 2..Len(s) + 1 /\ Len(u) - 1 = Len(s)
      BY <1>1, <2>2
    <3> QED
      BY <1>1, <2>2, <3>1 DEF Ends
  <2>4. Begins(u)
    BY <1>1, <2>2 DEF Begins
  <2>5. ASSUME NoPair(s) PROVE NoPair(u)
    <3> SUFFICES ASSUME NEW i \in 1..Len(u) - 1, u[i] = ".", u[i + 1] = "."
                 PROVE  FALSE
      BY DEF NoPair
    <3>1. i # 1
      BY <2>2
    <3>2. i - 1 \in 1..Len(s) - 1 /\ u[i] = s[i - 1] /\ u[i + 1] = s[(i - 1) + 1]
      BY <1>1, <2>2, <3>1
    <3> QED
      BY <2>5, <3>2 DEF NoPair
  <2>6. Base(u)[1] = Filler
    BY <1>1, <2>2, BaseBegins
  <2>7. Base(u) \notin Reserved
    BY <2>6, Assumptions
  <2> QED
    BY <1>1, <2>1, <2>2, <2>3, <2>4, <2>5, <2>7
<1> QED
  BY <1>2, <1>3

(* The last character of what is cut is the last one of the name, or of a  *)
(* name without any dot.                                                   *)
LEMMA ShortenedChars ==
    ASSUME NEW s \in Seq(Kept), Ends(s)
    PROVE  /\ Shortened(s) \in Seq(Kept)
           /\ Shortened(s) # NoName => Shortened(s)[Len(Shortened(s))] # "."
<1>1. /\ Len(s) \in Nat /\ Len(s) > 0 /\ MaxLen \in Nat \ {0}
      /\ LastDot(s) \in 0..Len(s) /\ \A i \in 1..Len(s) : s[i] \in Kept
      /\ s[Len(s)] # "."
  BY LenProperties, LastDotIsLast, ElementOfSeq, Assumptions DEF Ends
<1>2. CASE Len(s) <= MaxLen
  BY <1>1, <1>2 DEF Shortened
<1>3. CASE Len(s) > MaxLen /\ LastDot(s) = 0
  <2>1. Ext(s) = <<>> /\ Len(Ext(s)) = 0 /\ <<>> \in Seq(Kept)
    BY <1>3, EmptySeq DEF Ext
  <2>2. /\ SubSeq(s, 1, MaxLen) \in Seq(Kept)
        /\ Len(SubSeq(s, 1, MaxLen)) = IF 1 <= MaxLen THEN MaxLen - 1 + 1 ELSE 0
        /\ \A i \in 1..MaxLen - 1 + 1 : SubSeq(s, 1, MaxLen)[i] = s[1 + i - 1]
    BY <1>1, <1>3, SubSeqProperties
  <2>3. Shortened(s) = SubSeq(s, 1, MaxLen)
    <3>1. Shortened(s) = SubSeq(s, 1, MaxLen - Len(Ext(s))) \o Ext(s)
      BY <1>1, <1>3, <2>1 DEF Shortened
    <3>2. MaxLen - Len(Ext(s)) = MaxLen
      BY <1>1, <2>1
    <3> QED
      BY <2>1, <2>2, <3>1, <3>2, ConcatEmptySeq
  <2>4. Len(Shortened(s)) = MaxLen /\ Shortened(s)[MaxLen] = s[1 + MaxLen - 1]
    BY <1>1, <2>2, <2>3
  <2>5. s[1 + MaxLen - 1] # "."
    <3>1. 1 + MaxLen - 1 \in LastDot(s) + 1..Len(s)
      BY <1>1, <1>3
    <3> QED
      BY <3>1, LastDotIsLast
  <2> QED
    BY <2>2, <2>3, <2>4, <2>5
<1>4. CASE Len(s) > MaxLen /\ LastDot(s) # 0
  <2> DEFINE d == LastDot(s)
             e == SubSeq(s, d, Len(s))
  <2>1. Ext(s) = e
    BY <1>4 DEF Ext
  <2>2. /\ e \in Seq(Kept)
        /\ Len(e) = IF d <= Len(s) THEN Len(s) - d + 1 ELSE 0
        /\ \A i \in 1..Len(s) - d + 1 : e[i] = s[d + i - 1]
    BY <1>1, <1>4, SubSeqProperties
  <2> HIDE DEF d, e
  <2>3. d \in 1..Len(s)
    BY <1>1, <1>4 DEF d
  <2>4. Len(e) = Len(s) - d + 1 /\ Len(e) \in 1..Len(s) /\ e[Len(e)] = s[Len(s)]
    <3>1. Len(e) = Len(s) - d + 1 /\ Len(e) \in 1..Len(s)
      BY <1>1, <2>2, <2>3
    <3>2. e[Len(e)] = s[d + Len(e) - 1] /\ d + Len(e) - 1 = Len(s)
      BY <1>1, <2>2, <2>3, <3>1
    <3> QED
      BY <3>1, <3>2
  <2>5. CASE Len(e) > MaxLen
    <3>1. Shortened(s) = NoName
      BY <1>4, <2>1, <2>5, <1>1 DEF Shortened
    <3> QED
      BY <3>1, EmptySeq DEF NoName
  <2>6. CASE Len(e) <= MaxLen
    <3> DEFINE n == MaxLen - Len(e)
               b == SubSeq(s, 1, n)
    <3>1. n \in 0..Len(s)
      BY <1>1, <1>4, <2>4, <2>6
    <3>2. Shortened(s) = b \o e
      <4>1. ~(Len(s) <= MaxLen) /\ ~(Len(e) > MaxLen)
        BY <1>1, <1>4, <2>4, <2>6
      <4> QED
        BY <2>1, <4>1, Zenon DEF Shortened
    <3> HIDE DEF n
    <3>3. /\ b \in Seq(Kept)
          /\ Len(b) = IF 1 <= n THEN n - 1 + 1 ELSE 0
      BY <1>1, <3>1, SubSeqProperties
    <3> HIDE DEF b
    <3>4. /\ b \o e \in Seq(Kept) /\ Len(b \o e) = Len(b) + Len(e)
          /\ \A i \in 1..Len(b) + Len(e) : (b \o e)[i] =
                 IF i <= Len(b) THEN b[i] ELSE e[i - Len(b)]
      BY <2>2, <3>3, ConcatProperties
    <3>5. Len(b) \in Nat
      BY <3>1, <3>3
    <3>6. /\ Len(b) + Len(e) \in 1..Len(b) + Len(e)
          /\ ~(Len(b) + Len(e) <= Len(b)) /\ (Len(b) + Len(e)) - Len(b) = Len(e)
      BY <2>4, <3>5
    <3>7. (b \o e)[Len(b \o e)] = e[Len(e)]
      BY <3>4, <3>6
    <3> QED
      BY <1>1, <2>4, <3>2, <3>4, <3>7
  <2> QED
    BY <1>1, <2>4, <2>5, <2>6
<1> QED
  BY <1>1, <1>2, <1>3, <1>4

-----------------------------------------------------------------------------
(* SanitizeFileName.                                                       *)

(* What is left of any name: nothing, or a name that does not end in a dot *)
(* and has no unsafe character.                                            *)
LEMMA SanitizedInside ==
    ASSUME NEW s \in Seq(Char)
    PROVE  /\ SanitizeFileName(s) \in Seq(Kept)
           /\ LET f == SanitizeFileName(s)
              IN  f # NoName => f[Len(f)] # "."
<1> DEFINE c == Collapsed(Replaced(s))
           t == Trimmed(c)
           n == Named(t)
           u == Unreserved(n)
<1>1. c \in Seq(Kept)
  BY ReplacedChars, CollapsedLeft DEF Left
<1>2. t \in Seq(Kept) /\ (Len(t) > 0 => Ends(t))
  BY <1>1, TrimmedChars
<1> HIDE DEF c, t
<1>3. n \in Seq(Kept) /\ Ends(n)
  BY <1>2, NamedChars
<1> HIDE DEF n
<1>4. u \in Seq(Kept) /\ Ends(u)
  BY <1>3, UnreservedChars
<1>5. SanitizeFileName(s) = Shortened(u)
  BY DEF SanitizeFileName, u, n, t, c
<1> HIDE DEF u
<1> QED
  BY <1>4, <1>5, ShortenedChars

(* The names SanitizeFileName does not change. *)
Tidy(s) ==
    /\ s \in Seq(Kept) /\ Len(s) <= MaxLen
    /\ NoPair(s) /\ Begins(s) /\ Ends(s)
    /\ Base(s) \notin Reserved

LEMMA SanitizedTidy ==
    ASSUME NEW s \in Seq(Char), Len(s) < MaxLen, ~Hides(s, 1)
    PROVE  Tidy(SanitizeFileName(s))
<1> DEFINE r == Replaced(s)
           c == Collapsed(r)
           t == Trimmed(c)
           n == Named(t)
           u == Unreserved(n)
<1>0. MaxLen \in Nat /\ Len(s) \in Nat
  BY Assumptions, LenProperties
<1>1. r \in Seq(Kept) /\ Len(r) = Len(s) /\ ~Hides(r, 1)
  BY ReplacedChars
<1>2. SanitizeFileName(s) = Shortened(u)
  BY DEF SanitizeFileName
<1> HIDE DEF r
<1>3. Left(r, 1, c)
  BY <1>1, CollapsedLeft
<1>4. c \in Seq(Kept) /\ Len(c) <= Len(s) + 1 - 1 /\ NoPair(c) /\ ~Hides(c, 1)
  BY <1>1, <1>3 DEF Left
<1> HIDE DEF c
<1>5. /\ t \in Seq(Kept) /\ Len(t) <= Len(c) /\ NoPair(t)
      /\ Len(t) > 0 => Begins(t) /\ Ends(t)
  BY <1>4, TrimmedChars
<1> HIDE DEF t
<1>6. Len(t) < MaxLen
  <2>1. Len(t) \in Nat /\ Len(c) \in Nat
    BY <1>4, <1>5, LenProperties
  <2> QED
    BY <1>0, <1>4, <1>5, <2>1
<1>7. n \in Seq(Kept) /\ Len(n) < MaxLen /\ NoPair(n) /\ Begins(n) /\ Ends(n)
  BY <1>5, <1>6, NamedChars
<1> HIDE DEF n
<1>8. /\ u \in Seq(Kept) /\ Len(u) <= Len(n) + 1 /\ NoPair(u) /\ Begins(u) /\ Ends(u)
      /\ Base(u) \notin Reserved
  BY <1>7, UnreservedChars
<1> HIDE DEF u
<1>9. Len(u) <= MaxLen
  <2>1. Len(n) \in Nat /\ Len(u) \in Nat
    BY <1>7, <1>8, LenProperties
  <2> QED
    BY <1>0, <1>7, <1>8, <2>1
<1> QED
  BY <1>2, <1>8, <1>9 DEF Shortened, Tidy

LEMMA TidyIsKept ==
    ASSUME NEW s, Tidy(s)
    PROVE  SanitizeFileName(s) = s
<1>1. s \in Seq(Kept) /\ Len(s) \in Nat /\ Len(s) > 0 /\ Len(s) <= MaxLen
  BY LenProperties DEF Tidy, Begins
<1>2. Replaced(s) = s
  <2>1. s \in Seq(Char)
    BY <1>1, SeqMonotonic DEF Char
  <2>2. Unsafe \notin Kept
    BY Characters, Assumptions DEF Kept
  <2>3. \A i \in 1..Len(s) : s[i] # Unsafe
    BY <1>1, <2>2, ElementOfSeq
  <2> QED
    BY <2>1, <2>3, ReplacedChars
<1>3. Collapsed(s) = s
  <2> DEFINE c == Collapsed(s)
  <2>1. Left(s, 1, c)
    BY <1>1, CollapsedLeft
  <2> HIDE DEF c
  <2>2. c \in Seq(Kept) /\ Len(c) = Len(s) + 1 - 1 /\ \A k \in 1..Len(c) : c[k] = s[1 + k - 1]
    BY <2>1 DEF Left, Tidy
  <2>3. Len(c) = Len(s) /\ \A k \in 1..Len(c) : c[k] = s[k]
    BY <1>1, <2>2
  <2>4. c = s
    BY <1>1, <2>2, <2>3, SeqEqual
  <2> QED
    BY <2>4 DEF c
<1>4. Trimmed(s) = s
  BY TrimmedKeeps DEF Tidy
<1>5. Named(s) = s
  BY <1>1, EmptySeq DEF Named
<1>6. Unreserved(s) = s
  BY DEF Unreserved, Tidy
<1>7. Shortened(s) = s
  BY <1>1 DEF Shortened
<1> QED
  BY <1>2, <1>3, <1>4, <1>5, <1>6, <1>7 DEF SanitizeFileName

(* A name's base that is a device's is all there is before the first dot,  *)
(* for it has neither dots nor blanks.                                     *)
LEMMA ReservedIsStem ==
    ASSUME NEW S, NEW s \in Seq(S), Base(s) \in Reserved
    PROVE  Stem(s) = Base(s)
<1> USE Characters
<1> DEFINE b == Base(s)
           n == Len(b)
<1>1. /\ b \in Seq(Letter) /\ n \in Nat \ {0} /\ \A i \in 1..n : b[i] \notin {".", Blank}
  <2>1. b \in Seq(Letter) /\ b # <<>> /\ Letter \cap {".", Blank} = {}
    BY Assumptions
  <2> HIDE DEF b
  <2> QED
    BY <2>1, EmptySeq, ElementOfSeq, LenProperties
<1>2. /\ LastDot(s) \in 0..Len(s) /\ Len(s) \in Nat
      /\ LastDot(s) > 0 => s[LastDot(s)] = "."
      /\ \A i \in LastDot(s) + 1..Len(s) : s[i] # "."
      /\ \A i \in 1..Len(s) : s[i] \in S
  BY LastDotIsLast, LenProperties, ElementOfSeq
<1>3. /\ n \in 1..Len(s) /\ b = SubSeq(s, 1, n)
      /\ n < Len(s) => s[n + 1] = "."
  <2>1. CASE LastDot(s) > 1
    <3> DEFINE k == LastDot(s) - 1
    <3>1. k \in 1..Len(s) /\ k + 1 = LastDot(s) /\ \A i \in 1..k : s[i] \in S
      BY <1>2, <2>1
    <3>2. b = SubSeq(s, 1, k)
      BY <2>1 DEF Base
    <3>3. s[k + 1] = "."
      BY <1>2, <2>1, <3>1
    <3> HIDE DEF b, k
    <3>4. Len(SubSeq(s, 1, k)) = IF 1 <= k THEN k - 1 + 1 ELSE 0
      BY <3>1, SubSeqProperties
    <3>5. n = k
      BY <3>1, <3>2, <3>4
    <3> QED
      BY <3>1, <3>2, <3>3, <3>5
  <2>2. CASE ~(LastDot(s) > 1)
    <3>1. b = s
      BY <2>2 DEF Base
    <3>2. SubSeq(s, 1, Len(s)) = s
      BY SubSeqFull
    <3> HIDE DEF b
    <3> QED
      BY <1>1, <1>2, <3>1, <3>2
  <2> QED
    BY <2>1, <2>2
<1> HIDE DEF b
<1>4. \A i \in 1..n : s[i] # "."
  <2>1. \A i \in 1..n : s[i] \in S
    BY <1>2, <1>3
  <2>2. \A i \in 1..n - 1 + 1 : SubSeq(s, 1, n)[i] = s[1 + i - 1]
    BY <1>1, <1>2, <1>3, <2>1, SubSeqProperties
  <2>3. \A i \in 1..n : b[i] = s[i]
    BY <1>1, <1>3, <2>2
  <2> QED
    BY <1>1, <2>3
<1>5. FirstDot(s) = n + 1
  <2> DEFINE I == {i \in 1..Len(s) : s[i] = "."} \cup {Len(s) + 1}
  <2>1. I \subseteq Nat /\ I # {}
    BY <1>2
  <2>2. FirstDot(s) \in I /\ \A j \in I : FirstDot(s) <= j
    BY <2>1, MinLeast DEF FirstDot
  <2>3. n + 1 \in I
    BY <1>1, <1>2, <1>3
  <2>4. \A i \in I : n < i
    BY <1>1, <1>2, <1>3, <1>4
  <2>5. FirstDot(s) \in Nat /\ FirstDot(s) <= n + 1 /\ n < FirstDot(s)
    BY <2>1, <2>2, <2>3, <2>4
  <2> QED
    BY <1>1, <2>5
<1>6. SubSeq(s, 1, FirstDot(s) - 1) = b
  BY <1>1, <1>3, <1>5
<1>7. TrimRight(b, {Blank}) = b
  BY <1>1, TrimRightKeeps
<1> QED
  BY <1>6, <1>7 DEF Stem, b

LEMMA TidyIsClean ==
    ASSUME NEW s, Tidy(s)
    PROVE  Clean(s) /\ (Device(s) => Stem(s) # Base(s))
<1>1. s \in Seq(Kept) /\ Len(s) \in 1..MaxLen
  BY LenProperties, Assumptions DEF Tidy, Begins
<1>2. \A i \in 1..Len(s) : s[i] # Unsafe
  <2>1. Unsafe \notin Kept
    BY Characters, Assumptions DEF Kept
  <2> QED
    BY <1>1, <2>1, ElementOfSeq
<1>3. Device(s) => Stem(s) # Base(s)
  BY DEF Device, Tidy
<1>4. /\ s[1] \notin {".", Blank} /\ s[Len(s)] \notin {".", Blank}
      /\ \A i \in 1..Len(s) - 1 : ~(s[i] = "." /\ s[i + 1] = ".")
  BY DEF Tidy, Begins, Ends, NoPair
<1> QED
  BY <1>1, <1>2, <1>3, <1>4 DEF Clean

LEMMA PortableIsTidy ==
    ASSUME NEW s \in Seq(Character), Portable(s)
    PROVE  Tidy(s)
<1> USE Characters
<1>1. /\ Len(s) \in 1..MaxLen /\ Len(s) \in Nat
      /\ \A i \in 1..Len(s) : s[i] \in Character /\ s[i] # Unsafe
  BY LenProperties, ElementOfSeq DEF Portable, Clean
<1>2. s \in Seq(Kept)
  <2>1. \A i \in 1..Len(s) : s[i] \in Kept
    BY <1>1 DEF Character, Kept
  <2>2. s = [i \in 1..Len(s) |-> s[i]]
    BY LenProperties
  <2>3. s \in [1..Len(s) -> Kept]
    BY <2>1, <2>2
  <2> QED
    BY <1>1, <2>3, SeqDef
<1>3. Base(s) \notin Reserved
  BY ReservedIsStem DEF Portable, Device
<1>4. NoPair(s) /\ Begins(s) /\ Ends(s)
  BY <1>1 DEF Portable, Clean, NoPair, Begins, Ends
<1>5. Len(s) <= MaxLen
  BY <1>1, Assumptions
<1> QED
  BY <1>2, <1>3, <1>4, <1>5 DEF Tidy

LEMMA RegularSanitized ==
    ASSUME NEW s \in Seq(Character), Regular(s)
    PROVE  Tidy(SanitizeFileName(s))
<1>1. s \in Seq(Char) /\ Len(s) < MaxLen
  BY SeqMonotonic DEF Character, Kept, Char, Regular
<1>2. ~Hides(s, 1)
  BY Zenon DEF Hides, Regular
<1> QED
  BY <1>1, <1>2, SanitizedTidy

-----------------------------------------------------------------------------
(* The story of one file.                                                  *)

(* Everything goes by the name the first call has left, if that call has   *)
(* cleaned it completely; with the file its link is gone.                  *)
Told ==
    /\ record \in Seq(Char) /\ link \in Seq(Char) /\ file \in Seq(Kept)
    /\ file # NoName => file[Len(file)] # "."
    /\ file = NoName => link = NoName /\ served = NoName
    /\ record # NoName => name \in Seq(Character)
    /\ record # NoName /\ Regular(name) =>
          /\ record = SanitizeFileName(name) /\ file = record
          /\ link \in {NoName, file} /\ served \in {NoName, file}

LEMMA UploadedChars ==
    ASSUME NEW n \in Uploaded
    PROVE  n \in Seq(Character) /\ n \in Seq(Char)
<1>1. PICK m \in 0..MaxName : n \in [1..m -> Character]
  BY DEF Uploaded, SeqOf
<1>2. m \in Nat
  BY Assumptions
<1>3. n \in Seq(Character)
  BY <1>1, <1>2, SeqDef
<1> QED
  BY <1>3, SeqMonotonic DEF Character, Kept, Char

LEMMA SanitizedChars ==
    ASSUME NEW s \in Seq(Char)
    PROVE  /\ SanitizeFileName(s) \in Seq(Kept) /\ SanitizeFileName(s) \in Seq(Char)
           /\ LET f == SanitizeFileName(s)
              IN  f # NoName => f[Len(f)] # "."
<1>1. SanitizeFileName(s) \in Seq(Kept)
  BY SanitizedInside DEF Char
<1> QED
  BY <1>1, SanitizedInside, SeqMonotonic DEF Char

LEMMA ToldInit == Init => Told
<1>1. NoName \in Seq(Char) /\ NoName \in Seq(Kept)
  BY EmptySeq DEF NoName
<1> QED
  BY <1>1, Zenon DEF Init, Told

LEMMA ToldStep == Told /\ [Next]_vars => Told'
<1> SUFFICES ASSUME Told, [Next]_vars PROVE Told'
  OBVIOUS
<1>0. NoName \in Seq(Char) /\ NoName \in Seq(Kept)
  BY EmptySeq DEF NoName
<1>1. ASSUME NEW n \in Uploaded, SaveFile(n) PROVE Told'
  <2> DEFINE c == SanitizeFileName(n)
  <2>1. /\ file = NoName /\ c # NoName
        /\ record' = c /\ file' = SanitizeFileName(c) /\ file' # NoName
        /\ name' = n /\ link' = link /\ served' = served
    BY <1>1, Zenon DEF SaveFile, resolvePath
  <2>2. n \in Seq(Character) /\ n \in Seq(Char)
    BY UploadedChars
  <2>3. c \in Seq(Char) /\ SanitizeFileName(c) \in Seq(Kept) /\ file'[Len(file')] # "."
    BY <2>1, <2>2, SanitizedChars
  <2>4. Regular(n) => SanitizeFileName(c) = c
    BY <2>2, RegularSanitized, TidyIsKept
  <2>5. link' = NoName /\ served' = NoName
    BY <2>1 DEF Told
  <2>6. Regular(name') => Regular(n)
    BY <2>1
  <2> HIDE DEF c
  <2> QED
    BY <1>0, <2>1, <2>2, <2>3, <2>4, <2>5, <2>6 DEF Told, c
<1>2. CASE GenerateSignedLink
  <2>1. /\ file # NoName /\ link' = SanitizeFileName(record)
        /\ UNCHANGED <<name, record, file, served>>
    BY <1>2 DEF GenerateSignedLink
  <2>2. link' \in Seq(Char)
    BY <2>1, SanitizedChars DEF Told
  <2>3. ASSUME record # NoName, Regular(name)
        PROVE  link' = file
    <3>1. Tidy(record) /\ file = record
      BY <2>3, RegularSanitized DEF Told
    <3> QED
      BY <2>1, <3>1, TidyIsKept
  <2>4. Regular(name') <=> Regular(name)
    BY <2>1 DEF Regular
  <2> QED
    BY <2>1, <2>2, <2>3, <2>4 DEF Told
<1>3. CASE SignedDownload
  <2>1. /\ file # NoName /\ link # NoName /\ served' = SanitizeFileName(link)
        /\ UNCHANGED <<name, record, file, link>>
    BY <1>3 DEF SignedDownload, resolvePath
  <2>2. ASSUME record # NoName, Regular(name)
        PROVE  served' = file
    <3>1. Tidy(record) /\ link = record /\ file = record
      BY <2>1, <2>2, RegularSanitized DEF Told
    <3> QED
      BY <2>1, <3>1, TidyIsKept
  <2>3. Regular(name') <=> Regular(name)
    BY <2>1 DEF Regular
  <2> QED
    BY <2>1, <2>2, <2>3 DEF Told
<1>4. CASE DeleteFile
  <2>1. /\ file' = NoName /\ link' = NoName /\ served' = NoName
        /\ IF SanitizeFileName(record) = record
           THEN name' = NoName /\ record' = NoName
           ELSE UNCHANGED <<name, record>>
    BY <1>4, Zenon DEF DeleteFile
  <2>2. CASE record' = NoName
    BY <1>0, <2>1, <2>2 DEF Told
  <2>3. CASE record' # NoName
    <3>1. UNCHANGED <<name, record>> /\ SanitizeFileName(record) # record
      BY <2>1, <2>3
    <3>2. ~Regular(name)
      BY <2>3, <3>1, RegularSanitized, TidyIsKept DEF Told
    <3>3. ~Regular(name')
      BY <3>1, <3>2 DEF Regular
    <3> QED
      BY <1>0, <2>1, <3>1, <3>3 DEF Told
  <2> QED
    BY <2>2, <2>3
<1>5. CASE UNCHANGED vars
  <2>1. Regular(name') <=> Regular(name)
    BY <1>5 DEF vars, Regular
  <2> QED
    BY <1>5, <2>1 DEF vars, Told
<1> QED
  BY <1>1, <1>2, <1>3, <1>4, <1>5 DEF Next

LEMMA ToldCorrect == Spec => []Told
BY ToldInit, ToldStep, PTL DEF Spec

(* Record, file, link and download of a regular name go by one name.       *)
THEOREM OneNameCorrect == Spec => []OneName
<1>1. Told => OneName
  BY DEF Told, OneName
<1> QED
  BY <1>1, ToldCorrect, PTL

(* Whatever the name, its file is one of the upload directory itself.      *)
THEOREM InsideCorrect == Spec => []Inside
<1>1. Told => Inside
  <2> SUFFICES ASSUME Told, file # NoName
               PROVE  /\ file \notin {<<".">>, <<".", ".">>}
                      /\ \A i \in 1..Len(file) : file[i] # Unsafe
    BY DEF Inside
  <2>1. file \in Seq(Kept) /\ file[Len(file)] # "."
    BY DEF Told
  <2>2. Unsafe \notin Kept
    BY Characters, Assumptions DEF Kept
  <2>3. \A i \in 1..Len(file) : file[i] # Unsafe
    BY <2>1, <2>2, ElementOfSeq
  <2>4. Len(<<".">>) = 1 /\ <<".">>[1] = "." /\ Len(<<".", ".">>) = 2 /\ <<".", ".">>[2] = "."
    OBVIOUS
  <2> QED
    BY <2>1, <2>3, <2>4
<1> QED
  BY <1>1, ToldCorrect, PTL

(* A regular name becomes a clean one and a portable one is kept; of the   *)
(* names of devices only those stay whose base, as the service takes it,   *)
(* is not what Windows goes by.                                            *)
THEOREM PortableKeptCorrect == Spec => []PortableKept
<1>1. Told => PortableKept
  <2> SUFFICES ASSUME Told, record # NoName, Regular(name)
               PROVE  /\ Clean(record)
                      /\ Device(record) => Stem(record) # Base(record)
                      /\ Portable(name) => record = name
    BY Zenon DEF PortableKept
  <2>1. name \in Seq(Character) /\ record = SanitizeFileName(name)
    BY DEF Told
  <2>2. Clean(record) /\ (Device(record) => Stem(record) # Base(record))
    BY <2>1, RegularSanitized, TidyIsClean
  <2>3. Portable(name) => record = name
    BY <2>1, PortableIsTidy, TidyIsKept
  <2> QED
    BY <2>2, <2>3
<1> QED
  BY <1>1, ToldCorrect, PTL

-----------------------------------------------------------------------------
(* Cleaning by itself.                                                     *)

(* A regular name is clean after one call, however often resolvePath and   *)
(* the services clean it again.                                            *)
THEOREM CleanOnce ==
    \A s \in Seq(Character) :
        Regular(s) => SanitizeFileName(SanitizeFileName(s)) = SanitizeFileName(s)
BY RegularSanitized, TidyIsKept

(* Two uploads with portable names never get one name, whatever their      *)
(* extensions.                                                             *)
THEOREM PortableApart ==
    \A s, t \in Seq(Character) :
        /\ Portable(s) /\ Portable(t)
        /\ SanitizeFileName(s) = SanitizeFileName(t)
        => s = t
BY PortableIsTidy, TidyIsKept

=============================================================================

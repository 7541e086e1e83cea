------------------------- MODULE CommandParseProofs -------------------------
(***************************************************************************)
(* Proofs about CommandParse, for lines of any length and any names of     *)
(* files.  All the pieces that from_str makes of a line are parts of it,   *)
(* so the proofs speak of places in the line.                              *)
(***************************************************************************)
EXTENDS CommandParse, SequenceTheorems, WellFoundedInduction, TLAPS

\* The tokens of s behind place a up to place b.
Part(s, a, b) == SubSeq(s, a + 1, b)

\* The first t behind place a is behind place m, or there is none up to b = m.
EndsAt(s, t, a, b, m) ==
    /\ m \in a..b
    /\ \A i \in (a + 1)..m : s[i] # t
    /\ m = b \/ s[m + 1] = t

\* The first token that is not a blank is behind place m.
StartsAt(s, a, b, m) ==
    /\ m \in a..b
    /\ \A i \in (a + 1)..m : s[i] = Blank
    /\ m = b \/ s[m + 1] # Blank

\* w stands in s behind place k.
At(s, k, w) ==
    /\ k + Len(w) <= Len(s)
    /\ \A i \in 1..Len(w) : s[k + i] = w[i]

-----------------------------------------------------------------------------
(***************************************************************************)
(* Parts of a line.                                                        *)
(***************************************************************************)

\* A set of numbers that is not empty has a least element.
LEMMA LeastNumber ==
    ASSUME NEW T, T \subseteq Nat, T # {}
    PROVE  /\ Min(T) \in T
           /\ \A y \in T : Min(T) <= y
<1> DEFINE R == OpToRel(<, Nat)
<1>1. IsWellFoundedOn(R, Nat)
  BY NatLessThanWellFounded
<1>2. \A x, y \in Nat : <<y, x>> \in R <=> y < x
  BY DEF OpToRel
<1> HIDE DEF R
<1>3. PICK x \in T : \A y \in T : ~ (<<y, x>> \in R)
  BY <1>1, WFMin
<1>4. ASSUME NEW y \in T PROVE x <= y
  <2>1. x \in Nat /\ y \in Nat
    OBVIOUS
  <2>2. ~ (y < x)
    BY <1>2, <1>3, <2>1
  <2> QED
    BY <2>1, <2>2
<1> QED
  BY <1>3, <1>4 DEF Min

\* The tokens of a part.
LEMMA PartTokens ==
    ASSUME NEW S, NEW s \in Seq(S), NEW a \in Nat, NEW b \in Nat,
           a <= b, b <= Len(s)
    PROVE  /\ Part(s, a, b) \in Seq(S)
           /\ Len(Part(s, a, b)) = b - a
           /\ \A i \in 1..(b - a) : Part(s, a, b)[i] = s[a + i]
<1>1. \A i \in (a + 1)..b : s[i] \in S
  OBVIOUS
<1>2. /\ SubSeq(s, a + 1, b) \in Seq(S)
      /\ Len(SubSeq(s, a + 1, b)) = IF a + 1 <= b THEN b - (a + 1) + 1 ELSE 0
      /\ \A i \in 1..(b - (a + 1) + 1) : SubSeq(s, a + 1, b)[i] = s[(a + 1) + i - 1]
  BY <1>1, SubSeqProperties
<1>3. b - (a + 1) + 1 = b - a
  OBVIOUS
<1>4. Len(SubSeq(s, a + 1, b)) = b - a
  BY <1>2
<1>5. \A i \in 1..(b - a) : (a + 1) + i - 1 = a + i
  OBVIOUS
<1> QED
  BY <1>2, <1>3, <1>4, <1>5 DEF Part

\* The sequences are equal if their tokens are.
LEMMA PartIs ==
    ASSUME NEW S, NEW s \in Seq(S), NEW a \in Nat, NEW b \in Nat,
           a <= b, b <= Len(s), NEW w \in Seq(S), Len(w) = b - a,
           \A i \in 1..(b - a) : w[i] = s[a + i]
    PROVE  w = Part(s, a, b)
<1>1. /\ Part(s, a, b) \in Seq(S)
      /\ Len(Part(s, a, b)) = b - a
      /\ \A i \in 1..(b - a) : Part(s, a, b)[i] = s[a + i]
  BY PartTokens
<1> QED
  BY <1>1, SeqEqual

\* A part of a part is a part.
LEMMA PartOfPart ==
    ASSUME NEW S, NEW s \in Seq(S), NEW a \in Nat, NEW b \in Nat,
           a <= b, b <= Len(s), NEW c \in Nat, NEW d \in Nat, c <= d, a + d <= b
    PROVE  Part(Part(s, a, b), c, d) = Part(s, a + c, a + d)
<1> DEFINE p == Part(s, a, b)
<1>1. /\ p \in Seq(S)
      /\ Len(p) = b - a
      /\ \A i \in 1..(b - a) : p[i] = s[a + i]
  BY PartTokens
<1>2. d <= Len(p)
  BY <1>1
<1> HIDE DEF p
<1>3. PICK q : q = Part(p, c, d)
  OBVIOUS
<1>4. /\ q \in Seq(S)
      /\ Len(q) = d - c
      /\ \A i \in 1..(d - c) : q[i] = p[c + i]
  <2>1. p \in Seq(S)
    BY <1>1
  <2>2. /\ Part(p, c, d) \in Seq(S)
        /\ Len(Part(p, c, d)) = d - c
        /\ \A i \in 1..(d - c) : Part(p, c, d)[i] = p[c + i]
    BY <1>2, <2>1, PartTokens, ZenonT(30)
  <2> QED
    BY <1>3, <2>2
<1>5. \A i \in 1..(d - c) : q[i] = s[(a + c) + i]
  <2> SUFFICES ASSUME NEW i \in 1..(d - c) PROVE q[i] = s[(a + c) + i]
    OBVIOUS
  <2>1. i \in Nat /\ 1 <= i /\ i <= d - c
    OBVIOUS
  <2>2. c + i \in Nat /\ 1 <= c + i /\ c + i <= d
    BY <2>1
  <2>3. d <= b - a /\ b - a \in Nat
    OBVIOUS
  <2>4. c + i \in 1..(b - a)
    BY <2>2, <2>3
  <2>5. a + (c + i) = (a + c) + i
    BY <2>1
  <2> QED
    BY <1>1, <1>4, <2>4, <2>5
<1>6. PICK x \in Nat, y \in Nat : x = a + c /\ y = a + d
  OBVIOUS
<1>7. x <= y /\ y <= Len(s) /\ y - x = d - c
  BY <1>6
<1>8. /\ Len(q) = y - x
      /\ \A i \in 1..(y - x) : q[i] = s[x + i]
  BY <1>4, <1>5, <1>6, <1>7
<1>9. q \in Seq(S)
  BY <1>4
<1>10. q = Part(s, x, y)
  BY <1>7, <1>8, <1>9, PartIs
<1> QED
  BY <1>3, <1>6, <1>10 DEF p

\* The whole line.
LEMMA WholePart ==
    ASSUME NEW S, NEW s \in Seq(S)
    PROVE  s = Part(s, 0, Len(s))
<1>1. 0 + 1 = 1
  OBVIOUS
<1>2. SubSeq(s, 1, Len(s)) = s
  BY SubSeqFull
<1> QED
  BY <1>1, <1>2 DEF Part

\* An empty part.
LEMMA EmptyPart ==
    ASSUME NEW S, NEW s \in Seq(S), NEW a \in 0..Len(s)
    PROVE  Part(s, a, a) = <<>>
BY SubSeqEmpty DEF Part

\* Where the first t is.
LEMMA PlaceIs ==
    ASSUME NEW S, NEW s \in Seq(S), NEW t, NEW m \in Nat, m < Len(s),
           \A i \in 1..m : s[i] # t, s[m + 1] = t
    PROVE  Contains(s, t) /\ Place(s, t) = m + 1
<1> DEFINE I == {i \in 1..Len(s) : s[i] = t}
<1>1. Place(s, t) = IF I # {} THEN Min(I) ELSE 0
  BY DEF Place, SelectInSeq
<1>2. I \subseteq Nat /\ m + 1 \in I
  OBVIOUS
<1> HIDE DEF I
<1>3. Min(I) \in I /\ Min(I) <= m + 1
  BY <1>2, LeastNumber
<1>4. Min(I) \in 1..Len(s) /\ s[Min(I)] = t
  BY <1>3 DEF I
<1>5. Min(I) = m + 1
  BY <1>3, <1>4
<1> QED
  BY <1>1, <1>2, <1>5 DEF Contains

\* What a part of the line is split into at the first t.
LEMMA SplitPart ==
    ASSUME NEW S, NEW s \in Seq(S), NEW a \in Nat, NEW b \in Nat,
           a <= b, b <= Len(s), NEW t, NEW m, EndsAt(s, t, a, b, m)
    PROVE  /\ Before(Part(s, a, b), t) = Part(s, a, m)
           /\ Contains(Part(s, a, b), t) <=> m < b
           /\ m < b => Behind(Part(s, a, b), t) = Part(s, m + 1, b)
           /\ m = b => Behind(Part(s, a, b), t) = <<>>
<1>1. PICK p : p = Part(s, a, b)
  OBVIOUS
<1>2. /\ p \in Seq(S)
      /\ Len(p) = b - a
      /\ \A i \in 1..(b - a) : p[i] = s[a + i]
  BY <1>1, PartTokens
<1>3. /\ m \in Nat /\ a <= m /\ m <= b
      /\ \A i \in (a + 1)..m : s[i] # t
      /\ m = b \/ s[m + 1] = t
  BY DEF EndsAt
<1>4. \A i \in 1..(m - a) : p[i] # t
  <2> SUFFICES ASSUME NEW i \in 1..(m - a) PROVE p[i] # t
    OBVIOUS
  <2>1. i \in 1..(b - a) /\ a + i \in (a + 1)..m
    BY <1>3
  <2> QED
    BY <1>2, <1>3, <2>1
<1>5. CASE m = b
  <2>1. ~ Contains(p, t)
    BY <1>2, <1>4, <1>5 DEF Contains
  <2> QED
    BY <1>1, <1>3, <1>5, <2>1 DEF Before, Behind
<1>6. CASE m < b
  <2>1. PICK k : k = m - a
    OBVIOUS
  <2>2. /\ k \in Nat /\ k + 1 \in Nat /\ k < Len(p)
        /\ 0 <= k /\ k <= Len(p) /\ k + 1 <= Len(p)
        /\ a + k = m /\ a + (k + 1) = m + 1 /\ k + 1 \in 1..(b - a)
    BY <1>2, <1>3, <1>6, <2>1
  <2>3. p[k + 1] = t
    BY <1>2, <1>3, <1>6, <2>2
  <2>4. \A i \in 1..k : p[i] # t
    BY <1>4, <2>1
  <2>5. Contains(p, t) /\ Place(p, t) = k + 1
    BY <1>2, <2>2, <2>3, <2>4, PlaceIs, ZenonT(30)
  <2>6. (k + 1) - 1 = k /\ 0 + 1 = 1
    BY <2>2
  <2>7. Before(p, t) = Part(p, 0, k) /\ Behind(p, t) = Part(p, k + 1, Len(p))
    BY <2>5, <2>6 DEF Before, Behind, Part
  <2>8. Part(p, 0, k) = Part(s, a, m)
    <3>1. a + k <= b /\ a + 0 = a /\ 0 \in Nat
      BY <1>3, <2>2
    <3>2. Part(Part(s, a, b), 0, k) = Part(s, a + 0, a + k)
      BY <2>2, <3>1, PartOfPart
    <3> QED
      BY <1>1, <2>2, <3>1, <3>2
  <2>9. Part(p, k + 1, Len(p)) = Part(s, m + 1, b)
    <3>1. /\ Len(p) \in Nat
          /\ a + Len(p) = b /\ a + Len(p) <= b
      BY <1>2
    <3>2. PICK j \in Nat : j = k + 1
      BY <2>2
    <3>3. j <= Len(p) /\ a + j = m + 1
      BY <2>2, <3>2
    <3>4. Part(Part(s, a, b), j, Len(p)) = Part(s, a + j, a + Len(p))
      BY <3>1, <3>3, PartOfPart
    <3> QED
      BY <1>1, <3>1, <3>2, <3>3, <3>4
  <2>10. m # b
    BY <1>3, <1>6
  <2> QED
    BY <1>1, <1>6, <2>5, <2>7, <2>8, <2>9, <2>10
<1> QED
  BY <1>3, <1>5, <1>6

\* A part of the line without the blanks it begins with.
LEMMA TrimPart ==
    ASSUME NEW S, NEW s \in Seq(S), NEW a \in Nat, NEW b \in Nat,
           a <= b, b <= Len(s), NEW m, StartsAt(s, a, b, m)
    PROVE  Trimmed(Part(s, a, b)) = Part(s, m, b)
<1>1. PICK p : p = Part(s, a, b)
  OBVIOUS
<1>2. /\ p \in Seq(S)
      /\ Len(p) = b - a
      /\ \A i \in 1..(b - a) : p[i] = s[a + i]
  BY <1>1, PartTokens
<1>3. /\ m \in Nat /\ a <= m /\ m <= b
      /\ \A i \in (a + 1)..m : s[i] = Blank
      /\ m = b \/ s[m + 1] # Blank
  BY DEF StartsAt
<1>4. \A i \in 1..(m - a) : p[i] = Blank
  <2> SUFFICES ASSUME NEW i \in 1..(m - a) PROVE p[i] = Blank
    OBVIOUS
  <2>1. i \in 1..(b - a) /\ a + i \in (a + 1)..m
    BY <1>3
  <2> QED
    BY <1>2, <1>3, <2>1
<1> DEFINE I == {i \in 1..Len(p) : p[i] # Blank}
           n == IF I # {} THEN Min(I) ELSE 0
<1>5. Trimmed(p) = IF n = 0 THEN <<>> ELSE SubSeq(p, n, Len(p))
  BY DEF Trimmed, SelectInSeq
<1>6. I \subseteq Nat /\ \A i \in I : i \in 1..(b - a) /\ p[i] # Blank
  BY <1>2
<1>7. CASE m = b
  <2>1. I = {}
    BY <1>4, <1>6, <1>7
  <2>2. Trimmed(p) = <<>>
    BY <1>5, <2>1
  <2>3. Part(s, b, b) = <<>>
    <3>1. b \in 0..Len(s)
      OBVIOUS
    <3> QED
      BY <3>1, EmptyPart
  <2> QED
    BY <1>1, <1>7, <2>2, <2>3
<1>8. CASE m < b
  <2>1. PICK k : k = m - a
    OBVIOUS
  <2>2. /\ k \in Nat /\ k < Len(p) /\ k <= Len(p)
        /\ a + k = m /\ a + (k + 1) = m + 1 /\ k + 1 \in 1..(b - a)
    BY <1>2, <1>3, <1>8, <2>1
  <2>3. k + 1 \in I
    <3>1. p[k + 1] # Blank
      BY <1>2, <1>3, <1>8, <2>2
    <3> QED
      BY <1>2, <2>2, <3>1
  <2> HIDE DEF I
  <2>4. Min(I) \in I /\ Min(I) <= k + 1
    BY <1>6, <2>3, LeastNumber
  <2>5. Min(I) \in Nat /\ ~ (Min(I) \in 1..k)
    BY <1>4, <1>6, <2>1, <2>4
  <2>6. Min(I) \in 1..(b - a)
    BY <1>6, <2>4
  <2>7. Min(I) = k + 1
    BY <2>2, <2>4, <2>5, <2>6
  <2>8. n = k + 1 /\ n # 0
    BY <2>2, <2>3, <2>7
  <2>9. Trimmed(p) = Part(p, k, Len(p))
    BY <1>5, <2>8 DEF Part
  <2>10. /\ Len(p) \in Nat
         /\ a + Len(p) = b /\ a + Len(p) <= b
    BY <1>2
  <2>11. Part(Part(s, a, b), k, Len(p)) = Part(s, a + k, a + Len(p))
    BY <2>2, <2>10, PartOfPart
  <2> QED
    BY <1>1, <2>2, <2>9, <2>10, <2>11
<1> QED
  BY <1>3, <1>7, <1>8

\* Every part of the line has an end for t and a start.
LEMMA EndExists ==
    ASSUME NEW s, NEW t, NEW a \in Nat, NEW b \in Nat, a <= b
    PROVE  \E m \in Nat : EndsAt(s, t, a, b, m)
<1> DEFINE M == {m \in a..b : m = b \/ s[m + 1] = t}
<1>1. M \subseteq Nat /\ b \in M
  OBVIOUS
<1>2. \A m : m \in M <=> m \in a..b /\ (m = b \/ s[m + 1] = t)
  OBVIOUS
<1> HIDE DEF M
<1>3. PICK m \in M : \A y \in M : m <= y
  BY <1>1, LeastNumber
<1>4. m \in a..b /\ m \in Nat /\ (m = b \/ s[m + 1] = t)
  BY <1>2, <1>3
<1>5. ASSUME NEW i \in (a + 1)..m PROVE s[i] # t
  <2>1. PICK y : y = i - 1
    OBVIOUS
  <2>2. y \in a..b /\ y + 1 = i /\ ~ (m <= y)
    BY <1>4, <2>1
  <2>3. y \notin M
    BY <1>3, <2>2
  <2> QED
    BY <1>2, <2>2, <2>3
<1> QED
  BY <1>4, <1>5 DEF EndsAt

LEMMA StartExists ==
    ASSUME NEW s, NEW a \in Nat, NEW b \in Nat, a <= b
    PROVE  \E m \in Nat : StartsAt(s, a, b, m)
<1> DEFINE M == {m \in a..b : m = b \/ s[m + 1] # Blank}
<1>1. M \subseteq Nat /\ b \in M
  OBVIOUS
<1>2. \A m : m \in M <=> m \in a..b /\ (m = b \/ s[m + 1] # Blank)
  OBVIOUS
<1> HIDE DEF M
<1>3. PICK m \in M : \A y \in M : m <= y
  BY <1>1, LeastNumber
<1>4. m \in a..b /\ m \in Nat /\ (m = b \/ s[m + 1] # Blank)
  BY <1>2, <1>3
<1>5. ASSUME NEW i \in (a + 1)..m PROVE s[i] = Blank
  <2>1. PICK y : y = i - 1
    OBVIOUS
  <2>2. y \in a..b /\ y + 1 = i /\ ~ (m <= y)
    BY <1>4, <2>1
  <2>3. y \notin M
    BY <1>3, <2>2
  <2> QED
    BY <1>2, <2>2, <2>3
<1> QED
  BY <1>4, <1>5 DEF StartsAt

-----------------------------------------------------------------------------
(***************************************************************************)
(* What from_str makes of a line.                                          *)
(***************************************************************************)

\* Everything that can be in a line or in the name of a file.
Text == Tokens \cup {Lossy, Replaced}

\* The blank is a token that is not a word of the syntax.
LEMMA BlankIsApart ==
    /\ Blank \in Text
    /\ Blank \notin {"register", "ls_peers", "ls@", "get@", "->"}
<1>1. Blank # "register" /\ Blank # "ls_peers" /\ Blank # "ls@"
  BY Zenon DEF Blank
<1>2. Blank # "get@" /\ Blank # "->"
  BY Zenon DEF Blank
<1> QED
  BY <1>1, <1>2 DEF Text, Tokens, Syntax

\* The first word of s is between m0 and m1, the second between m2 and m3.
Layout(s, m0, m1, m2, m3) ==
    /\ StartsAt(s, 0, Len(s), m0)
    /\ EndsAt(s, Blank, m0, Len(s), m1)
    /\ StartsAt(s, m1, Len(s), m2)
    /\ EndsAt(s, Blank, m2, Len(s), m3)

\* The places are in order, and a word is missing only at the end.
LEMMA LayoutOrder ==
    ASSUME NEW S, NEW s \in Seq(S), NEW m0, NEW m1, NEW m2, NEW m3,
           Layout(s, m0, m1, m2, m3)
    PROVE  /\ m0 \in Nat /\ m1 \in Nat /\ m2 \in Nat /\ m3 \in Nat
           /\ m0 <= m1 /\ m1 <= m2 /\ m2 <= m3 /\ m3 <= Len(s)
           /\ m1 = m2 => m1 = Len(s)
           /\ m0 < Len(s) => m0 < m1
<1>1. /\ m0 \in 0..Len(s) /\ m1 \in m0..Len(s)
      /\ m2 \in m1..Len(s) /\ m3 \in m2..Len(s) /\ Len(s) \in Nat
  BY DEF Layout, StartsAt, EndsAt
<1>2. m1 = m2 => m1 = Len(s)
  BY DEF Layout, StartsAt, EndsAt
<1>3. m0 < Len(s) => m0 # m1
  BY <1>1 DEF Layout, StartsAt, EndsAt
<1> QED
  BY <1>1, <1>2, <1>3

\* split_whitespace finds the two words.
LEMMA WordsAre ==
    ASSUME NEW S, NEW s \in Seq(S), NEW m0, NEW m1, NEW m2, NEW m3,
           Layout(s, m0, m1, m2, m3)
    PROVE  Word1(s) = Part(s, m0, m1) /\ Word2(s) = Part(s, m2, m3)
<1>1. PICK n \in Nat : n = Len(s)
  OBVIOUS
<1>2. /\ m0 \in Nat /\ m1 \in Nat /\ m2 \in Nat /\ m3 \in Nat
      /\ m0 <= m1 /\ m1 <= m2 /\ m2 <= m3 /\ m3 <= n /\ m0 <= n /\ m1 <= n /\ m2 <= n
      /\ m1 = m2 => m1 = n
      /\ n <= Len(s) /\ 0 <= n
  BY <1>1, LayoutOrder
<1>3. /\ StartsAt(s, 0, n, m0)
      /\ EndsAt(s, Blank, m0, n, m1)
      /\ StartsAt(s, m1, n, m2)
      /\ EndsAt(s, Blank, m2, n, m3)
  BY <1>1 DEF Layout
<1>4. Trimmed(s) = Part(s, m0, n)
  <2>1. Trimmed(Part(s, 0, n)) = Part(s, m0, n)
    BY <1>2, <1>3, TrimPart
  <2> QED
    BY <1>1, <2>1, WholePart
<1>5. /\ Before(Part(s, m0, n), Blank) = Part(s, m0, m1)
      /\ m1 < n => Behind(Part(s, m0, n), Blank) = Part(s, m1 + 1, n)
      /\ m1 = n => Behind(Part(s, m0, n), Blank) = <<>>
  BY <1>2, <1>3, SplitPart
<1>6. Trimmed(Behind(Part(s, m0, n), Blank)) = Part(s, m2, n)
  <2>1. CASE m1 < n
    <3>1. PICK k \in Nat : k = m1 + 1
      BY <1>2
    <3>2. k <= n /\ m2 \in k..n
      BY <1>2, <2>1, <3>1
    <3>3. StartsAt(s, k, n, m2)
      <4>1. /\ \A i \in (m1 + 1)..m2 : s[i] = Blank
            /\ m2 = n \/ s[m2 + 1] # Blank
        BY <1>3 DEF StartsAt
      <4>2. \A i \in (k + 1)..m2 : i \in (m1 + 1)..m2
        BY <1>2, <3>1
      <4> QED
        BY <3>2, <4>1, <4>2 DEF StartsAt
    <3>4. Trimmed(Part(s, k, n)) = Part(s, m2, n)
      BY <1>2, <3>2, <3>3, TrimPart
    <3> QED
      BY <1>5, <2>1, <3>1, <3>4
  <2>2. CASE m1 = n
    <3>1. m2 = n
      BY <1>2, <2>2
    <3>2. StartsAt(s, n, n, n)
      BY DEF StartsAt
    <3>3. Trimmed(Part(s, n, n)) = Part(s, n, n)
      BY <1>2, <3>2, TrimPart
    <3>4. Part(s, n, n) = <<>>
      <4>1. n \in 0..Len(s)
        BY <1>1
      <4> QED
        BY <4>1, EmptyPart
    <3> QED
      BY <1>5, <2>2, <3>1, <3>3, <3>4
  <2> QED
    BY <1>2, <2>1, <2>2
<1>7. Before(Part(s, m2, n), Blank) = Part(s, m2, m3)
  BY <1>2, <1>3, SplitPart
<1> QED
  BY <1>4, <1>5, <1>6, <1>7 DEF Word1, Word2

\* A sequence of one token.
LEMMA OneToken ==
    ASSUME NEW S, NEW p \in Seq(S), Len(p) = 1
    PROVE  p = <<p[1]>>
<1>1. p[1] \in S
  OBVIOUS
<1>2. PICK q : q = <<p[1]>>
  OBVIOUS
<1>3. q \in Seq(S) /\ Len(q) = 1 /\ q[1] = p[1]
  BY <1>1, <1>2
<1>4. \A i \in 1..Len(p) : p[i] = q[i]
  BY <1>3
<1> QED
  BY <1>2, <1>3, <1>4, SeqEqual

\* How a word begins, and what follows.
WordAt(s, a, b) ==
    /\ \A x : Part(s, a, b) = <<x>> <=> b = a + 1 /\ s[b] = x
    /\ \A x : IsPrefix(<<x>>, Part(s, a, b)) <=> a < b /\ s[a + 1] = x
    /\ a < b => Tail(Part(s, a, b)) = Part(s, a + 1, b)
    /\ Part(s, a, b) = <<>> <=> a = b

LEMMA WordBegins ==
    ASSUME NEW S, NEW s \in Seq(S), NEW a \in Nat, NEW b \in Nat,
           a <= b, b <= Len(s)
    PROVE  WordAt(s, a, b)
<1>1. PICK p : p = Part(s, a, b)
  OBVIOUS
<1>2. /\ p \in Seq(S)
      /\ Len(p) = b - a
      /\ \A i \in 1..(b - a) : p[i] = s[a + i]
  BY <1>1, PartTokens
<1>3. a < b => p[1] = s[a + 1]
  <2> SUFFICES ASSUME a < b PROVE p[1] = s[a + 1]
    OBVIOUS
  <2>1. 1 \in 1..(b - a)
    OBVIOUS
  <2> QED
    BY <1>2, <2>1
<1>4. a < b <=> Len(p) >= 1
  BY <1>2
<1>5. p = <<>> <=> a = b
  <2>1. p = <<>> <=> Len(p) = 0
    BY <1>2, EmptySeq, ZenonT(30)
  <2> QED
    BY <1>2, <2>1
<1>6. ASSUME NEW x PROVE p = <<x>> <=> b = a + 1 /\ s[b] = x
  <2>1. p = <<x>> <=> Len(p) = 1 /\ p[1] = x
    BY <1>2, OneToken
  <2>2. Len(p) = 1 <=> b = a + 1
    BY <1>2
  <2>3. Len(p) = 1 => p[1] = s[b]
    BY <1>3, <1>4, <2>2
  <2> QED
    BY <2>1, <2>2, <2>3
<1>7. ASSUME NEW x PROVE IsPrefix(<<x>>, p) <=> a < b /\ s[a + 1] = x
  <2>1. Len(<<x>>) = 1 /\ SubSeq(<<x>>, 1, 1) = <<x>>
    <3>1. <<x>> \in Seq({x}) /\ Len(<<x>>) = 1
      OBVIOUS
    <3>2. SubSeq(<<x>>, 1, Len(<<x>>)) = <<x>>
      BY <3>1, SubSeqFull
    <3> QED
      BY <3>1, <3>2
  <2>2. Len(p) >= 1 => SubSeq(p, 1, 1) = <<p[1]>>
    <3> SUFFICES ASSUME Len(p) >= 1 PROVE SubSeq(p, 1, 1) = <<p[1]>>
      OBVIOUS
    <3>1. PICK q : q = SubSeq(p, 1, 1)
      OBVIOUS
    <3>2. \A i \in 1..1 : p[i] \in S
      BY <1>2
    <3>3. q \in Seq(S) /\ Len(q) = 1 /\ \A i \in 1..(1 - 1 + 1) : q[i] = p[1 + i - 1]
      BY <3>1, <3>2, SubSeqProperties
    <3>4. q[1] = p[1]
      BY <3>3
    <3> QED
      BY <3>1, <3>3, <3>4, OneToken
  <2>3. Len(p) >= 1 => (SubSeq(p, 1, 1) = <<x>> <=> p[1] = x)
    BY <2>2
  <2> QED
    BY <1>2, <1>3, <1>4, <2>1, <2>3 DEF IsPrefix
<1>8. a < b => Tail(p) = Part(s, a + 1, b)
  <2> SUFFICES ASSUME a < b PROVE Tail(p) = Part(s, a + 1, b)
    OBVIOUS
  <2>1. a + 1 \in 1..Len(s) /\ b \in (a + 1)..Len(s)
    OBVIOUS
  <2>2. Tail(SubSeq(s, a + 1, b)) = SubSeq(s, (a + 1) + 1, b)
    BY <2>1, HeadTailOfSubSeq
  <2> QED
    BY <1>1, <2>2 DEF Part
<1> QED
  BY <1>1, <1>5, <1>6, <1>7, <1>8 DEF WordAt

\* from_str goes by the first word.
LEMMA FromStrIs ==
    ASSUME NEW S, NEW s \in Seq(S), NEW m0, NEW m1, NEW m2, NEW m3,
           Layout(s, m0, m1, m2, m3)
    PROVE  /\ m1 = m0 + 1 /\ s[m1] = "register" =>
                 FromStr(s) = IF m2 = m3 THEN InvalidCommand
                              ELSE Register(Part(s, m2, m3))
           /\ m1 = m0 + 1 /\ s[m1] = "ls_peers" => FromStr(s) = ListPeers
           /\ m0 < m1 /\ s[m0 + 1] = "ls@" =>
                 FromStr(s) = ListFiles(Part(s, m0 + 1, m1))
           /\ m0 < m1 /\ s[m0 + 1] = "get@" =>
                 FromStr(s) = ParseGetFile(Part(s, m0 + 1, m1))
           /\ \/ FromStr(s) = InvalidCommand
              \/ m1 = m0 + 1 /\ s[m1] \in {"register", "ls_peers"}
              \/ m0 < m1 /\ s[m0 + 1] \in {"ls@", "get@"}
<1>1. /\ m0 \in Nat /\ m1 \in Nat /\ m2 \in Nat /\ m3 \in Nat
      /\ m0 <= m1 /\ m2 <= m3 /\ m1 <= Len(s) /\ m3 <= Len(s)
  BY LayoutOrder
<1>2. Word1(s) = Part(s, m0, m1) /\ Word2(s) = Part(s, m2, m3)
  BY WordsAre
<1>3. PICK w : w = Part(s, m0, m1)
  OBVIOUS
<1>4. /\ \A x : w = <<x>> <=> m1 = m0 + 1 /\ s[m1] = x
      /\ \A x : IsPrefix(<<x>>, w) <=> m0 < m1 /\ s[m0 + 1] = x
      /\ m0 < m1 => Tail(w) = Part(s, m0 + 1, m1)
  <2>1. WordAt(s, m0, m1)
    BY <1>1, WordBegins
  <2> QED
    BY <1>3, <2>1 DEF WordAt
<1>5. Word2(s) = <<>> <=> m2 = m3
  <2>1. WordAt(s, m2, m3)
    BY <1>1, WordBegins
  <2> QED
    BY <1>2, <2>1 DEF WordAt
<1>6. FromStr(s) =
        CASE w = <<"register">>      -> ParseRegister(s)
          [] w = <<"ls_peers">>      -> ListPeers
          [] IsPrefix(<<"ls@">>, w)  -> ListFiles(Tail(w))
          [] IsPrefix(<<"get@">>, w) -> ParseGetFile(Tail(w))
          [] OTHER                   -> InvalidCommand
  BY <1>2, <1>3 DEF FromStr
<1>7. ParseRegister(s) = IF m2 = m3 THEN InvalidCommand
                         ELSE Register(Part(s, m2, m3))
  BY <1>2, <1>5 DEF ParseRegister
<1>8. m1 = m0 + 1 => m0 < m1
  BY <1>1
<1>9. ASSUME m1 = m0 + 1, s[m1] = "register" PROVE FromStr(s) = ParseRegister(s)
  <2>1. s[m0 + 1] = "register"
    BY <1>9
  <2>2. ~ IsPrefix(<<"get@">>, w) /\ ~ IsPrefix(<<"ls@">>, w)
    BY <1>4, <2>1
  <2>3. w = <<"register">> /\ w # <<"ls_peers">>
    BY <1>4, <1>9
  <2> QED
    BY <1>6, <2>2, <2>3
<1>10. ASSUME m1 = m0 + 1, s[m1] = "ls_peers" PROVE FromStr(s) = ListPeers
  <2>1. s[m0 + 1] = "ls_peers"
    BY <1>10
  <2>2. ~ IsPrefix(<<"get@">>, w) /\ ~ IsPrefix(<<"ls@">>, w)
    BY <1>4, <2>1
  <2>3. w = <<"ls_peers">> /\ w # <<"register">>
    BY <1>4, <1>10
  <2> QED
    BY <1>6, <2>2, <2>3
<1>11. ASSUME m0 < m1, s[m0 + 1] = "ls@" PROVE FromStr(s) = ListFiles(Tail(w))
  <2>1. IsPrefix(<<"ls@">>, w) /\ ~ IsPrefix(<<"get@">>, w)
    BY <1>4, <1>11
  <2>2. w # <<"register">> /\ w # <<"ls_peers">>
    BY <1>4, <1>11
  <2> QED
    BY <1>6, <2>1, <2>2
<1>12. ASSUME m0 < m1, s[m0 + 1] = "get@" PROVE FromStr(s) = ParseGetFile(Tail(w))
  <2>1. IsPrefix(<<"get@">>, w) /\ ~ IsPrefix(<<"ls@">>, w)
    BY <1>4, <1>12
  <2>2. w # <<"register">> /\ w # <<"ls_peers">>
    BY <1>4, <1>12
  <2> QED
    BY <1>6, <2>1, <2>2
<1>13. \/ FromStr(s) = InvalidCommand
       \/ m1 = m0 + 1 /\ s[m1] \in {"register", "ls_peers"}
       \/ m0 < m1 /\ s[m0 + 1] \in {"ls@", "get@"}
  BY <1>4, <1>6
<1> QED
  BY <1>4, <1>7, <1>9, <1>10, <1>11, <1>12, <1>13

\* get@ goes by the arrows.
LEMMA ParseGetFileIs ==
    ASSUME NEW S, NEW s \in Seq(S), NEW a \in Nat, NEW b \in Nat,
           a <= b, b <= Len(s), NEW e \in Nat, EndsAt(s, "->", a, b, e)
    PROVE  /\ e = b => ParseGetFile(Part(s, a, b)) = InvalidCommand
           /\ \A f \in Nat :
                 e < b /\ EndsAt(s, "->", e + 1, b, f) =>
                    ParseGetFile(Part(s, a, b)) =
                       GetFile(Part(s, a, e), Part(s, e + 1, f))
<1>1. PICK p : p = Part(s, a, b)
  OBVIOUS
<1>2. /\ Before(p, "->") = Part(s, a, e)
      /\ Contains(p, "->") <=> e < b
      /\ e < b => Behind(p, "->") = Part(s, e + 1, b)
  BY <1>1, SplitPart
<1>3. ASSUME NEW f \in Nat, e < b, EndsAt(s, "->", e + 1, b, f)
      PROVE  Before(Part(s, e + 1, b), "->") = Part(s, e + 1, f)
  <2>1. PICK k \in Nat : k = e + 1
    OBVIOUS
  <2>2. k <= b
    BY <1>3, <2>1
  <2>3. EndsAt(s, "->", k, b, f)
    BY <1>3, <2>1
  <2>4. Before(Part(s, k, b), "->") = Part(s, k, f)
    BY <2>2, <2>3, SplitPart
  <2> QED
    BY <2>1, <2>4
<1> QED
  BY <1>1, <1>2, <1>3 DEF ParseGetFile

-----------------------------------------------------------------------------
(***************************************************************************)
(* What stands in a line.                                                  *)
(***************************************************************************)

\* A part that stands in the line.
LEMMA AtIsPart ==
    ASSUME NEW S, NEW s \in Seq(S), NEW w \in Seq(S), NEW k \in Nat
    PROVE  /\ IsPrefix(w, s) <=> At(s, 0, w)
           /\ At(s, k, w) => w = Part(s, k, k + Len(w))
<1>1. Len(w) \in Nat /\ Len(s) \in Nat
  OBVIOUS
<1>2. ASSUME At(s, k, w) PROVE w = Part(s, k, k + Len(w))
  <2>1. PICK b \in Nat : b = k + Len(w)
    BY <1>1
  <2>2. k <= b /\ b <= Len(s) /\ Len(w) = b - k /\ \A i \in 1..(b - k) : w[i] = s[k + i]
    BY <1>1, <1>2, <2>1 DEF At
  <2>3. w = Part(s, k, b)
    BY <2>2, PartIs
  <2> QED
    BY <2>1, <2>3
<1>3. SubSeq(w, 1, Len(w)) = w
  BY SubSeqFull
<1>4. ASSUME At(s, 0, w) PROVE IsPrefix(w, s)
  <2>1. 0 + Len(w) = Len(w) /\ 0 + 1 = 1 /\ Len(w) <= Len(s)
    BY <1>1, <1>4 DEF At
  <2>2. \A i \in 1..Len(w) : w[i] = s[0 + i]
    BY <1>4 DEF At
  <2>3. 0 <= Len(w) /\ Len(w) = Len(w) - 0 /\ 0 \in Nat
    BY <1>1
  <2>4. w = Part(s, 0, Len(w))
    BY <1>1, <2>1, <2>2, <2>3, PartIs
  <2> QED
    BY <1>3, <2>1, <2>4 DEF IsPrefix, Part
<1>5. ASSUME IsPrefix(w, s) PROVE At(s, 0, w)
  <2>1. Len(w) <= Len(s) /\ w = SubSeq(s, 1, Len(w))
    BY <1>3, <1>5 DEF IsPrefix
  <2>2. PICK n \in Nat : n = Len(w)
    BY <1>1
  <2>3. /\ Len(Part(s, 0, n)) = n - 0
        /\ \A i \in 1..(n - 0) : Part(s, 0, n)[i] = s[0 + i]
    <3>1. 0 \in Nat /\ 0 <= n /\ n <= Len(s)
      BY <2>1, <2>2
    <3> QED
      BY <3>1, PartTokens
  <2>4. Part(s, 0, n) = w /\ n - 0 = n
    BY <2>1, <2>2 DEF Part
  <2> QED
    BY <2>1, <2>2, <2>3, <2>4 DEF At
<1> QED
  BY <1>2, <1>4, <1>5

\* One piece behind the other.
LEMMA AtConcat ==
    ASSUME NEW S, NEW s \in Seq(S), NEW v \in Seq(S), NEW w \in Seq(S), NEW k \in Nat
    PROVE  /\ v \o w \in Seq(S)
           /\ Len(v \o w) = Len(v) + Len(w)
           /\ At(s, k, v \o w) <=> At(s, k, v) /\ At(s, k + Len(v), w)
<1>1. PICK c : c = v \o w
  OBVIOUS
<1>2. PICK l \in Nat, n \in Nat : l = Len(v) /\ n = Len(w)
  OBVIOUS
<1>3. /\ c \in Seq(S)
      /\ Len(c) = l + n
      /\ \A i \in 1..(l + n) : c[i] = IF i <= l THEN v[i] ELSE w[i - l]
  BY <1>1, <1>2, ConcatProperties
<1>4. \A i \in 1..l : i \in 1..(l + n) /\ c[i] = v[i]
  BY <1>3
<1>5. \A i \in 1..n : l + i \in 1..(l + n) /\ c[l + i] = w[i] /\ k + (l + i) = (k + l) + i
  <2> SUFFICES ASSUME NEW i \in 1..n
               PROVE  l + i \in 1..(l + n) /\ c[l + i] = w[i] /\ k + (l + i) = (k + l) + i
    OBVIOUS
  <2>1. l + i \in 1..(l + n) /\ ~ (l + i <= l) /\ (l + i) - l = i /\ k + (l + i) = (k + l) + i
    OBVIOUS
  <2> QED
    BY <1>3, <2>1
<1>6. ASSUME At(s, k, c) PROVE At(s, k, v) /\ At(s, k + l, w)
  <2>1. k + (l + n) <= Len(s) /\ \A i \in 1..(l + n) : s[k + i] = c[i]
    BY <1>3, <1>6 DEF At
  <2>2. k + l <= Len(s) /\ (k + l) + n <= Len(s)
    BY <2>1
  <2>3. \A i \in 1..l : s[k + i] = v[i]
    BY <1>4, <2>1
  <2>4. \A i \in 1..n : s[(k + l) + i] = w[i]
    BY <1>5, <2>1
  <2> QED
    BY <1>2, <2>2, <2>3, <2>4 DEF At
<1>7. ASSUME At(s, k, v), At(s, k + l, w) PROVE At(s, k, c)
  <2>1. (k + l) + n <= Len(s) /\ k + (l + n) = (k + l) + n
    BY <1>2, <1>7 DEF At
  <2>2. ASSUME NEW i \in 1..(l + n) PROVE s[k + i] = c[i]
    <3>1. CASE i <= l
      BY <1>2, <1>4, <1>7, <3>1 DEF At
    <3>2. CASE ~ (i <= l)
      <4>1. PICK j \in 1..n : i = l + j
        <5>1. i - l \in 1..n /\ i = l + (i - l)
          BY <3>2
        <5> QED
          BY <5>1
      <4> QED
        BY <1>2, <1>5, <1>7, <4>1 DEF At
    <3> QED
      BY <3>1, <3>2
  <2> QED
    BY <1>3, <2>1, <2>2 DEF At
<1> QED
  BY <1>1, <1>2, <1>3, <1>6, <1>7

\* One token, and blanks.
LEMMA AtToken ==
    ASSUME NEW s, NEW k \in Nat, NEW x
    PROVE  At(s, k, <<x>>) <=> k + 1 <= Len(s) /\ s[k + 1] = x
<1>1. Len(<<x>>) = 1 /\ <<x>>[1] = x
  OBVIOUS
<1> QED
  BY <1>1 DEF At

LEMMA BlanksAre ==
    ASSUME NEW n \in Nat
    PROVE  /\ Blanks(n) \in Seq(Text) /\ Len(Blanks(n)) = n
           /\ \A i \in 1..n : Blanks(n)[i] = Blank
<1>1. Blank \in Text
  BY BlankIsApart
<1> QED
  BY <1>1 DEF Blanks

\* What stands in the line lacks t just when the line does there.
LEMMA PartLacks ==
    ASSUME NEW S, NEW s \in Seq(S), NEW a \in Nat, NEW b \in Nat,
           a <= b, b <= Len(s), NEW t
    PROVE  ~ Contains(Part(s, a, b), t) <=> \A i \in (a + 1)..b : s[i] # t
<1>1. PICK p : p = Part(s, a, b)
  OBVIOUS
<1>2. /\ p \in Seq(S)
      /\ Len(p) = b - a
      /\ \A i \in 1..(b - a) : p[i] = s[a + i]
  BY <1>1, PartTokens
<1>3. ASSUME ~ Contains(p, t), NEW i \in (a + 1)..b PROVE s[i] # t
  <2>1. PICK j \in 1..(b - a) : i = a + j
    <3>1. i - a \in 1..(b - a) /\ i = a + (i - a)
      OBVIOUS
    <3> QED
      BY <3>1
  <2> QED
    BY <1>2, <1>3, <2>1 DEF Contains
<1>4. ASSUME \A i \in (a + 1)..b : s[i] # t PROVE ~ Contains(p, t)
  <2>1. \A j \in 1..(b - a) : a + j \in (a + 1)..b
    OBVIOUS
  <2> QED
    BY <1>2, <1>4, <2>1 DEF Contains
<1> QED
  BY <1>1, <1>3, <1>4

\* A command that ends at place n ends a word there.
MayFollow(s, n) == n = Len(s) \/ s[n + 1] = Blank

\* Where a line spells a text.
LEMMA SpellsAt ==
    ASSUME NEW s \in Seq(Text), NEW text \in Seq(Text), Spells(s, text)
    PROVE  At(s, 0, text) /\ MayFollow(s, Len(text))
<1>1. PICK n \in Nat : n = Len(text)
  OBVIOUS
<1>2. PICK l \in Nat : l = Len(s)
  OBVIOUS
<1>3. /\ IsPrefix(text, s)
      /\ \A i \in DOMAIN Part(s, n, l) : Part(s, n, l)[i] = Blank
  BY <1>1, <1>2 DEF Spells, Part
<1>4. At(s, 0, text)
  BY <1>3, AtIsPart
<1>5. n <= l
  BY <1>1, <1>2, <1>4 DEF At
<1>6. n < l => s[n + 1] = Blank
  <2> SUFFICES ASSUME n < l PROVE s[n + 1] = Blank
    OBVIOUS
  <2>1. /\ Part(s, n, l) \in Seq(Text)
        /\ Len(Part(s, n, l)) = l - n
        /\ \A i \in 1..(l - n) : Part(s, n, l)[i] = s[n + i]
    <3>1. s \in Seq(Text) /\ n \in Nat /\ l \in Nat /\ n <= l /\ l <= Len(s)
      BY <1>2, <1>5
    <3> QED
      BY <3>1, PartTokens
  <2>2. PICK i \in 1..(l - n) : i = 1
    OBVIOUS
  <2>3. i \in DOMAIN Part(s, n, l) /\ Part(s, n, l)[i] = s[n + i]
    BY <2>1, <2>2
  <2> QED
    BY <1>3, <2>2, <2>3
<1>7. n = l \/ n < l
  BY <1>5
<1> QED
  BY <1>1, <1>2, <1>4, <1>6, <1>7 DEF MayFollow

\* The words of the syntax are text.
LEMMA SyntaxIsText ==
    /\ \A x \in {"register", "ls_peers", "ls@", "get@", "->"} : x \in Text
    /\ \A x \in Text : <<x>> \in Seq(Text)
<1>1. {"register", "ls_peers", "ls@", "get@", "->"} \subseteq Text
  BY DEF Text, Tokens, Syntax
<1> QED
  BY <1>1

\* The places of the words of each command.
Spaced(s, a, b) == \A i \in (a + 1)..b : s[i] = Blank

LEMMA AtBlanks ==
    ASSUME NEW s \in Seq(Text), NEW k \in Nat, NEW n \in Nat
    PROVE  At(s, k, Blanks(n)) <=> k + n <= Len(s) /\ Spaced(s, k, k + n)
<1>1. Len(s) \in Nat
  OBVIOUS
<1>2. At(s, k, Blanks(n)) <=>
          k + n <= Len(s) /\ \A i \in 1..n : s[k + i] = Blank
  BY <1>1, BlanksAre DEF At
<1>3. ASSUME \A i \in 1..n : s[k + i] = Blank, NEW j \in (k + 1)..(k + n)
      PROVE  s[j] = Blank
  <2>1. PICK i \in 1..n : j = k + i
    <3>1. j - k \in 1..n /\ j = k + (j - k)
      OBVIOUS
    <3> QED
      BY <3>1
  <2> QED
    BY <1>3, <2>1
<1>4. ASSUME Spaced(s, k, k + n), NEW i \in 1..n PROVE s[k + i] = Blank
  <2>1. k + i \in (k + 1)..(k + n)
    OBVIOUS
  <2> QED
    BY <1>4, <2>1 DEF Spaced
<1> QED
  BY <1>2, <1>3, <1>4 DEF Spaced

\* A text that begins with blanks and a word of the syntax.
Led(l, x, w) == Blanks(l) \o (<<x>> \o w)

LEMMA AtLead ==
    ASSUME NEW s \in Seq(Text), NEW l \in Nat, NEW x \in Text, NEW w \in Seq(Text)
    PROVE  /\ Led(l, x, w) \in Seq(Text)
           /\ Len(Led(l, x, w)) = (l + 1) + Len(w)
           /\ At(s, 0, Led(l, x, w)) <=>
                 /\ l + 1 <= Len(s)
                 /\ Spaced(s, 0, l)
                 /\ s[l + 1] = x
                 /\ At(s, l + 1, w)
<1>1. Len(s) \in Nat /\ Len(w) \in Nat /\ l + 1 \in Nat /\ 0 + l = l
  OBVIOUS
<1>2. /\ Blanks(l) \in Seq(Text) /\ Len(Blanks(l)) = l
      /\ Len(<<x>>) = 1
  BY <1>1, BlanksAre
<1>3. PICK v : v = <<x>> \o w
  OBVIOUS
<1>4. /\ v \in Seq(Text)
      /\ Len(v) = 1 + Len(w)
      /\ At(s, l, v) <=> At(s, l, <<x>>) /\ At(s, l + 1, w)
  <2>1. PICK y \in Seq(Text) : y = <<x>>
    BY SyntaxIsText
  <2>2. /\ y \o w \in Seq(Text)
        /\ Len(y \o w) = Len(y) + Len(w)
        /\ At(s, l, y \o w) <=> At(s, l, y) /\ At(s, l + Len(y), w)
    BY AtConcat
  <2> QED
    BY <1>2, <1>3, <2>1, <2>2
<1>5. PICK bl : bl = Blanks(l)
  OBVIOUS
<1>6. /\ bl \o v \in Seq(Text)
      /\ Len(bl \o v) = l + Len(v)
      /\ At(s, 0, bl \o v) <=> At(s, 0, bl) /\ At(s, 0 + l, v)
  <2>1. bl \in Seq(Text) /\ Len(bl) = l /\ 0 \in Nat
    BY <1>2, <1>5
  <2>2. /\ bl \o v \in Seq(Text)
        /\ Len(bl \o v) = Len(bl) + Len(v)
        /\ At(s, 0, bl \o v) <=> At(s, 0, bl) /\ At(s, 0 + Len(bl), v)
    BY <1>4, <2>1, AtConcat
  <2> QED
    BY <2>1, <2>2
<1>7. At(s, 0, bl) <=> l <= Len(s) /\ Spaced(s, 0, l)
  <2>1. At(s, 0, Blanks(l)) <=> 0 + l <= Len(s) /\ Spaced(s, 0, 0 + l)
    BY AtBlanks
  <2> QED
    BY <1>1, <1>5, <2>1
<1>8. At(s, l, <<x>>) <=> l + 1 <= Len(s) /\ s[l + 1] = x
  BY AtToken
<1>9. l + 1 <= Len(s) => l <= Len(s)
  BY <1>1
<1>10. l + (1 + Len(w)) = (l + 1) + Len(w)
  BY <1>1
<1> QED
  BY <1>1, <1>3, <1>4, <1>5, <1>6, <1>7, <1>8, <1>9, <1>10 DEF Led

\* Concatenations of texts are regrouped.
LEMMA Regroup ==
    \A x, y, z \in Seq(Text) : (x \o y) \o z = x \o (y \o z)
OBVIOUS

\* The commands as they are written.
LEMMA WrittenAre ==
    ASSUME NEW l \in Nat, NEW g \in Nat
    PROVE  /\ \A u \in Seq(Text) :
                 Written(Register(u), l, g) = Led(l, "register", Blanks(g) \o u)
           /\ Written(ListPeers, l, g) = Led(l, "ls_peers", <<>>)
           /\ \A u \in Seq(Text) : Written(ListFiles(u), l, g) = Led(l, "ls@", u)
           /\ \A u, f \in Seq(Text) :
                 Written(GetFile(u, f), l, g) = Led(l, "get@", u \o (<<"->">> \o f))
<1> SUFFICES ASSUME NEW u \in Seq(Text), NEW f \in Seq(Text)
             PROVE  /\ Written(Register(u), l, g) = Led(l, "register", Blanks(g) \o u)
                    /\ Written(ListPeers, l, g) = Led(l, "ls_peers", <<>>)
                    /\ Written(ListFiles(u), l, g) = Led(l, "ls@", u)
                    /\ Written(GetFile(u, f), l, g) =
                          Led(l, "get@", u \o (<<"->">> \o f))
  <2>1. <<>> \in Seq(Text)
    OBVIOUS
  <2> QED
    BY <2>1
<1>1. Blanks(g) \in Seq(Text)
  BY BlanksAre
<1>2. Written(Register(u), l, g) = Blanks(l) \o ((<<"register">> \o Blanks(g)) \o u)
  BY DEF Written, Register
<1>3. Written(ListPeers, l, g) = Blanks(l) \o <<"ls_peers">>
  BY DEF Written, ListPeers
<1>4. Written(ListFiles(u), l, g) = Blanks(l) \o (<<"ls@">> \o u)
  BY DEF Written, ListFiles
<1>5. Written(GetFile(u, f), l, g) =
          Blanks(l) \o (((<<"get@">> \o u) \o <<"->">>) \o f)
  BY DEF Written, GetFile
<1>6. (<<"register">> \o Blanks(g)) \o u = <<"register">> \o (Blanks(g) \o u)
  <2>1. PICK x \in Seq(Text) : x = <<"register">>
    BY SyntaxIsText
  <2>2. (x \o Blanks(g)) \o u = x \o (Blanks(g) \o u)
    BY <1>1, Regroup
  <2> QED
    BY <2>1, <2>2
<1>7. <<"ls_peers">> \o <<>> = <<"ls_peers">>
  BY SyntaxIsText, ConcatEmptySeq
<1>8. ((<<"get@">> \o u) \o <<"->">>) \o f = <<"get@">> \o (u \o (<<"->">> \o f))
  <2>1. PICK x \in Seq(Text), y \in Seq(Text) : x = <<"get@">> /\ y = <<"->">>
    BY SyntaxIsText
  <2>2. x \o u \in Seq(Text) /\ y \o f \in Seq(Text)
    BY ConcatProperties
  <2>3. ((x \o u) \o y) \o f = (x \o u) \o (y \o f)
    <3>1. PICK v \in Seq(Text) : v = x \o u
      BY <2>2
    <3>2. (v \o y) \o f = v \o (y \o f)
      BY Regroup
    <3> QED
      BY <3>1, <3>2
  <2>4. (x \o u) \o (y \o f) = x \o (u \o (y \o f))
    <3>1. PICK v \in Seq(Text) : v = y \o f
      BY <2>2
    <3>2. (x \o u) \o v = x \o (u \o v)
      BY Regroup
    <3> QED
      BY <3>1, <3>2
  <2> QED
    BY <2>1, <2>3, <2>4
<1> QED
  BY <1>2, <1>3, <1>4, <1>5, <1>6, <1>7, <1>8 DEF Led

\* Where a line has register and a name.
LEMMA RegisterAt ==
    ASSUME NEW s \in Seq(Text), NEW u \in Seq(Text), NEW l \in Nat, NEW g \in Nat
    PROVE  Spells(s, Written(Register(u), l, g)) =>
              /\ l + 1 <= Len(s)
              /\ Spaced(s, 0, l)
              /\ s[l + 1] = "register"
              /\ (l + 1) + g <= Len(s)
              /\ Spaced(s, l + 1, (l + 1) + g)
              /\ At(s, (l + 1) + g, u)
              /\ MayFollow(s, ((l + 1) + g) + Len(u))
<1>1. PICK w, text : w = Blanks(g) \o u /\ text = Written(Register(u), l, g)
  OBVIOUS
<1>2. PICK k \in Nat : k = l + 1
  OBVIOUS
<1>3. /\ w \in Seq(Text)
      /\ Len(w) = g + Len(u)
      /\ At(s, k, w) <=> At(s, k, Blanks(g)) /\ At(s, k + g, u)
  <2>1. PICK b \in Seq(Text) : b = Blanks(g) /\ Len(b) = g
    BY BlanksAre
  <2>2. /\ b \o u \in Seq(Text)
        /\ Len(b \o u) = Len(b) + Len(u)
        /\ At(s, k, b \o u) <=> At(s, k, b) /\ At(s, k + Len(b), u)
    BY AtConcat
  <2> QED
    BY <1>1, <2>1, <2>2
<1>4. text = Led(l, "register", w)
  BY <1>1, WrittenAre
<1>5. /\ text \in Seq(Text)
      /\ Len(text) = (l + 1) + Len(w)
      /\ At(s, 0, text) <=> /\ l + 1 <= Len(s)
                            /\ Spaced(s, 0, l)
                            /\ s[l + 1] = "register"
                            /\ At(s, l + 1, w)
  <2>1. w \in Seq(Text)
    BY <1>3
  <2>2. PICK x \in Text : x = "register"
    BY SyntaxIsText
  <2>3. /\ Led(l, x, w) \in Seq(Text)
        /\ Len(Led(l, x, w)) = (l + 1) + Len(w)
        /\ At(s, 0, Led(l, x, w)) <=> /\ l + 1 <= Len(s)
                                      /\ Spaced(s, 0, l)
                                      /\ s[l + 1] = x
                                      /\ At(s, l + 1, w)
    BY <2>1, AtLead
  <2> QED
    BY <1>4, <2>2, <2>3
<1>6. Len(text) = ((l + 1) + g) + Len(u)
  <2>1. Len(u) \in Nat
    OBVIOUS
  <2> QED
    BY <1>3, <1>5, <2>1
<1>7. At(s, k, Blanks(g)) <=> k + g <= Len(s) /\ Spaced(s, k, k + g)
  BY AtBlanks
<1>8. Spells(s, text) =>
          At(s, 0, text) /\ MayFollow(s, Len(text))
  BY <1>5, SpellsAt
<1> QED
  BY <1>1, <1>2, <1>3, <1>5, <1>6, <1>7, <1>8

\* Where it has ls_peers.
LEMMA ListPeersAt ==
    ASSUME NEW s \in Seq(Text), NEW l \in Nat, NEW g \in Nat
    PROVE  Spells(s, Written(ListPeers, l, g)) =>
              /\ l + 1 <= Len(s)
              /\ Spaced(s, 0, l)
              /\ s[l + 1] = "ls_peers"
              /\ MayFollow(s, l + 1)
<1>1. PICK w, text : w = <<>> /\ text = Written(ListPeers, l, g)
  OBVIOUS
<1>2. w \in Seq(Text) /\ Len(w) = 0
  BY <1>1
<1>3. text = Led(l, "ls_peers", w)
  BY <1>1, <1>2, WrittenAre
<1>4. /\ text \in Seq(Text)
      /\ Len(text) = (l + 1) + Len(w)
      /\ At(s, 0, text) <=> /\ l + 1 <= Len(s)
                            /\ Spaced(s, 0, l)
                            /\ s[l + 1] = "ls_peers"
                            /\ At(s, l + 1, w)
  <2>1. w \in Seq(Text)
    BY <1>2
  <2>2. PICK x \in Text : x = "ls_peers"
    BY SyntaxIsText
  <2>3. /\ Led(l, x, w) \in Seq(Text)
        /\ Len(Led(l, x, w)) = (l + 1) + Len(w)
        /\ At(s, 0, Led(l, x, w)) <=> /\ l + 1 <= Len(s)
                                      /\ Spaced(s, 0, l)
                                      /\ s[l + 1] = x
                                      /\ At(s, l + 1, w)
    BY <2>1, AtLead
  <2> QED
    BY <1>3, <2>2, <2>3
<1>5. Len(text) = l + 1
  BY <1>2, <1>4
<1>6. l + 1 <= Len(s) => At(s, l + 1, w)
  BY <1>2 DEF At
<1>7. Spells(s, text) =>
          At(s, 0, text) /\ MayFollow(s, Len(text))
  BY <1>4, SpellsAt
<1> QED
  BY <1>1, <1>4, <1>5, <1>6, <1>7

\* Where it has ls@ and a name.
LEMMA ListFilesAt ==
    ASSUME NEW s \in Seq(Text), NEW u \in Seq(Text), NEW l \in Nat, NEW g \in Nat
    PROVE  Spells(s, Written(ListFiles(u), l, g)) =>
              /\ l + 1 <= Len(s)
              /\ Spaced(s, 0, l)
              /\ s[l + 1] = "ls@"
              /\ At(s, l + 1, u)
              /\ MayFollow(s, (l + 1) + Len(u))
<1>1. PICK text : text = Written(ListFiles(u), l, g)
  OBVIOUS
<1>2. text = Led(l, "ls@", u)
  BY <1>1, WrittenAre
<1>3. /\ text \in Seq(Text)
      /\ Len(text) = (l + 1) + Len(u)
      /\ At(s, 0, text) <=> /\ l + 1 <= Len(s)
                            /\ Spaced(s, 0, l)
                            /\ s[l + 1] = "ls@"
                            /\ At(s, l + 1, u)
  <2>1. PICK x \in Text : x = "ls@"
    BY SyntaxIsText
  <2>2. /\ Led(l, x, u) \in Seq(Text)
        /\ Len(Led(l, x, u)) = (l + 1) + Len(u)
        /\ At(s, 0, Led(l, x, u)) <=> /\ l + 1 <= Len(s)
                                      /\ Spaced(s, 0, l)
                                      /\ s[l + 1] = x
                                      /\ At(s, l + 1, u)
    BY AtLead
  <2> QED
    BY <1>2, <2>1, <2>2
<1>4. Spells(s, text) =>
          At(s, 0, text) /\ MayFollow(s, Len(text))
  BY <1>3, SpellsAt
<1> QED
  BY <1>1, <1>3, <1>4

\* Where it has get@, a name, an arrow and a name.
GetsAt(s, u, f, l, e) ==
    /\ l + 1 <= Len(s)
    /\ Spaced(s, 0, l)
    /\ s[l + 1] = "get@"
    /\ At(s, l + 1, u)
    /\ e + 1 <= Len(s)
    /\ s[e + 1] = "->"
    /\ At(s, e + 1, f)
    /\ MayFollow(s, (e + 1) + Len(f))

LEMMA GetFileAt ==
    ASSUME NEW s \in Seq(Text), NEW u \in Seq(Text), NEW f \in Seq(Text),
           NEW l \in Nat, NEW g \in Nat, NEW e, e = (l + 1) + Len(u)
    PROVE  Spells(s, Written(GetFile(u, f), l, g)) => GetsAt(s, u, f, l, e)
<1>1. PICK k \in Nat : k = l + 1
  OBVIOUS
<1>2. Len(u) \in Nat /\ Len(f) \in Nat /\ e \in Nat /\ e = k + Len(u)
  BY <1>1
<1>3. PICK a \in Seq(Text) : a = <<"->">> /\ Len(a) = 1
  BY SyntaxIsText
<1>4. PICK v, w, text : /\ v = a \o f /\ w = u \o v
                        /\ text = Written(GetFile(u, f), l, g)
  OBVIOUS
<1>5. /\ v \in Seq(Text)
      /\ Len(v) = Len(a) + Len(f)
      /\ At(s, e, v) <=> At(s, e, a) /\ At(s, e + Len(a), f)
  BY <1>2, <1>4, AtConcat
<1>6. /\ w \in Seq(Text)
      /\ Len(w) = Len(u) + Len(v)
      /\ At(s, k, w) <=> At(s, k, u) /\ At(s, k + Len(u), v)
  <2>1. v \in Seq(Text)
    BY <1>5
  <2>2. /\ u \o v \in Seq(Text)
        /\ Len(u \o v) = Len(u) + Len(v)
        /\ At(s, k, u \o v) <=> At(s, k, u) /\ At(s, k + Len(u), v)
    BY <2>1, AtConcat
  <2> QED
    BY <1>4, <2>2
<1>7. text = Led(l, "get@", w)
  BY <1>3, <1>4, WrittenAre
<1>8. /\ text \in Seq(Text)
      /\ Len(text) = (l + 1) + Len(w)
      /\ At(s, 0, text) <=> /\ l + 1 <= Len(s)
                            /\ Spaced(s, 0, l)
                            /\ s[l + 1] = "get@"
                            /\ At(s, l + 1, w)
  <2>1. w \in Seq(Text)
    BY <1>6
  <2>2. PICK x \in Text : x = "get@"
    BY SyntaxIsText
  <2>3. /\ Led(l, x, w) \in Seq(Text)
        /\ Len(Led(l, x, w)) = (l + 1) + Len(w)
        /\ At(s, 0, Led(l, x, w)) <=> /\ l + 1 <= Len(s)
                                      /\ Spaced(s, 0, l)
                                      /\ s[l + 1] = x
                                      /\ At(s, l + 1, w)
    BY <2>1, AtLead
  <2> QED
    BY <1>7, <2>2, <2>3
<1>9. Len(text) = (e + 1) + Len(f)
  BY <1>1, <1>2, <1>3, <1>5, <1>6, <1>8
<1>10. At(s, e, a) <=> e + 1 <= Len(s) /\ s[e + 1] = "->"
  BY <1>2, <1>3, AtToken
<1>11. Spells(s, text) =>
          At(s, 0, text) /\ MayFollow(s, Len(text))
  BY <1>8, SpellsAt
<1> QED
  BY <1>1, <1>2, <1>3, <1>4, <1>5, <1>6, <1>8, <1>9, <1>10, <1>11 DEF GetsAt

-----------------------------------------------------------------------------
(***************************************************************************)
(* What is written as documented is what from_str takes it for.            *)
(***************************************************************************)

\* The first word settles the layout.
LEMMA LayoutRest ==
    ASSUME NEW s \in Seq(Text), NEW m0 \in Nat, NEW m1 \in Nat,
           StartsAt(s, 0, Len(s), m0), EndsAt(s, Blank, m0, Len(s), m1)
    PROVE  \E m2, m3 : Layout(s, m0, m1, m2, m3)
<1>1. Len(s) \in Nat
  OBVIOUS
<1>2. m1 <= Len(s)
  BY DEF EndsAt
<1>3. PICK m2 \in Nat : StartsAt(s, m1, Len(s), m2)
  BY <1>1, <1>2, StartExists
<1>4. m2 <= Len(s)
  BY <1>3 DEF StartsAt
<1>5. PICK m3 \in Nat : EndsAt(s, Blank, m2, Len(s), m3)
  BY <1>1, <1>4, EndExists
<1> QED
  BY <1>3, <1>5 DEF Layout

\* A word that stands in the line.
LEMMA WordStands ==
    ASSUME NEW s \in Seq(Text), NEW u \in Seq(Text), NEW k \in Nat, At(s, k, u)
    PROVE  /\ Len(u) \in Nat /\ k + Len(u) \in Nat
           /\ k <= k + Len(u) /\ k + Len(u) <= Len(s)
           /\ u = Part(s, k, k + Len(u))
           /\ \A t : ~ Contains(u, t) => \A i \in (k + 1)..(k + Len(u)) : s[i] # t
<1>1. Len(u) \in Nat
  OBVIOUS
<1>2. PICK b \in Nat : b = k + Len(u)
  BY <1>1
<1>3. k <= b /\ b <= Len(s)
  BY <1>1, <1>2 DEF At
<1>4. u = Part(s, k, b)
  BY <1>2, AtIsPart
<1>5. \A t : ~ Contains(u, t) => \A i \in (k + 1)..b : s[i] # t
  BY <1>3, <1>4, PartLacks
<1> QED
  BY <1>1, <1>2, <1>3, <1>4, <1>5

\* register.
LEMMA RegisterParsed ==
    ASSUME NEW s \in Seq(Text), NEW u \in Seq(Text), u # <<>>, ~ Contains(u, Blank),
           NEW l \in Nat, NEW g \in Nat, g >= 1,
           Spells(s, Written(Register(u), l, g))
    PROVE  FromStr(s) = Register(u)
<1>1. PICK m1 \in Nat : m1 = l + 1
  OBVIOUS
<1>2. PICK m2 \in Nat : m2 = m1 + g
  OBVIOUS
<1>3. /\ m1 <= Len(s)
      /\ Spaced(s, 0, l)
      /\ s[m1] = "register"
      /\ m2 <= Len(s)
      /\ Spaced(s, m1, m2)
      /\ At(s, m2, u)
      /\ MayFollow(s, m2 + Len(u))
  BY <1>1, <1>2, RegisterAt
<1>4. PICK m3 : m3 = m2 + Len(u)
  OBVIOUS
<1>5. /\ m3 \in Nat
      /\ m2 <= m3 /\ m3 <= Len(s)
      /\ u = Part(s, m2, m3)
      /\ \A i \in (m2 + 1)..m3 : s[i] # Blank
  BY <1>3, <1>4, WordStands
<1>6. m2 # m3
  <2>1. WordAt(s, m2, m3)
    BY <1>5, WordBegins
  <2> QED
    BY <1>5, <2>1 DEF WordAt
<1>7. m2 < m3 /\ l < m1 /\ m1 < m2 /\ Len(s) \in Nat
  BY <1>1, <1>2, <1>5, <1>6
<1>8. s[m1] # Blank
  BY <1>3, BlankIsApart
<1>9. StartsAt(s, 0, Len(s), l)
  BY <1>1, <1>3, <1>7, <1>8 DEF StartsAt, Spaced
<1>10. EndsAt(s, Blank, l, Len(s), m1)
  <2>1. s[m1 + 1] = Blank
    <3>1. m1 + 1 \in (m1 + 1)..m2
      BY <1>7
    <3> QED
      BY <1>3, <3>1 DEF Spaced
  <2>2. \A i \in (l + 1)..m1 : i = m1
    BY <1>1
  <2>3. m1 \in l..Len(s)
    BY <1>3, <1>7
  <2> QED
    BY <1>8, <2>1, <2>2, <2>3 DEF EndsAt
<1>11. StartsAt(s, m1, Len(s), m2)
  <2>1. m2 + 1 \in (m2 + 1)..m3
    BY <1>5, <1>7
  <2>2. s[m2 + 1] # Blank
    BY <1>5, <2>1
  <2>3. m2 \in m1..Len(s)
    BY <1>3, <1>7
  <2> QED
    BY <1>3, <2>2, <2>3 DEF StartsAt, Spaced
<1>12. EndsAt(s, Blank, m2, Len(s), m3)
  <2>1. m3 \in m2..Len(s)
    BY <1>5, <1>7
  <2>2. m3 = Len(s) \/ s[m3 + 1] = Blank
    BY <1>3, <1>4 DEF MayFollow
  <2> QED
    BY <1>5, <2>1, <2>2 DEF EndsAt
<1>13. Layout(s, l, m1, m2, m3)
  BY <1>9, <1>10, <1>11, <1>12 DEF Layout
<1>14. FromStr(s) = IF m2 = m3 THEN InvalidCommand ELSE Register(Part(s, m2, m3))
  BY <1>1, <1>3, <1>13, FromStrIs
<1> QED
  BY <1>5, <1>6, <1>14

\* ls_peers.
LEMMA ListPeersParsed ==
    ASSUME NEW s \in Seq(Text), NEW l \in Nat, NEW g \in Nat,
           Spells(s, Written(ListPeers, l, g))
    PROVE  FromStr(s) = ListPeers
<1>1. PICK m1 \in Nat : m1 = l + 1
  OBVIOUS
<1>2. /\ m1 <= Len(s)
      /\ Spaced(s, 0, l)
      /\ s[m1] = "ls_peers"
      /\ MayFollow(s, m1)
  BY <1>1, ListPeersAt
<1>3. l < m1 /\ Len(s) \in Nat
  BY <1>1
<1>4. s[m1] # Blank
  BY <1>2, BlankIsApart
<1>5. StartsAt(s, 0, Len(s), l)
  BY <1>1, <1>2, <1>3, <1>4 DEF StartsAt, Spaced
<1>6. EndsAt(s, Blank, l, Len(s), m1)
  <2>1. m1 = Len(s) \/ s[m1 + 1] = Blank
    BY <1>2 DEF MayFollow
  <2>2. \A i \in (l + 1)..m1 : i = m1
    BY <1>1
  <2>3. m1 \in l..Len(s)
    BY <1>2, <1>3
  <2> QED
    BY <1>4, <2>1, <2>2, <2>3 DEF EndsAt
<1>7. PICK m2, m3 : Layout(s, l, m1, m2, m3)
  BY <1>5, <1>6, LayoutRest
<1> QED
  BY <1>1, <1>2, <1>7, FromStrIs

\* ls@.
LEMMA ListFilesParsed ==
    ASSUME NEW s \in Seq(Text), NEW u \in Seq(Text), ~ Contains(u, Blank),
           NEW l \in Nat, NEW g \in Nat,
           Spells(s, Written(ListFiles(u), l, g))
    PROVE  FromStr(s) = ListFiles(u)
<1>1. PICK k \in Nat : k = l + 1
  OBVIOUS
<1>2. /\ k <= Len(s)
      /\ Spaced(s, 0, l)
      /\ s[k] = "ls@"
      /\ At(s, k, u)
      /\ MayFollow(s, k + Len(u))
  BY <1>1, ListFilesAt
<1>3. PICK m1 : m1 = k + Len(u)
  OBVIOUS
<1>4. /\ m1 \in Nat
      /\ k <= m1 /\ m1 <= Len(s)
      /\ u = Part(s, k, m1)
      /\ \A i \in (k + 1)..m1 : s[i] # Blank
  BY <1>2, <1>3, WordStands
<1>5. l < m1 /\ l < k /\ Len(s) \in Nat
  BY <1>1, <1>4
<1>6. s[k] # Blank
  BY <1>2, BlankIsApart
<1>7. StartsAt(s, 0, Len(s), l)
  BY <1>1, <1>2, <1>5, <1>6 DEF StartsAt, Spaced
<1>8. EndsAt(s, Blank, l, Len(s), m1)
  <2>1. m1 = Len(s) \/ s[m1 + 1] = Blank
    BY <1>2, <1>3 DEF MayFollow
  <2>2. \A i \in (l + 1)..m1 : i = k \/ i \in (k + 1)..m1
    BY <1>1, <1>4
  <2>3. m1 \in l..Len(s)
    BY <1>4, <1>5
  <2>4. \A i \in (l + 1)..m1 : s[i] # Blank
    BY <1>4, <1>6, <2>2
  <2> QED
    BY <2>1, <2>3, <2>4 DEF EndsAt
<1>9. PICK m2, m3 : Layout(s, l, m1, m2, m3)
  BY <1>4, <1>7, <1>8, LayoutRest
<1>10. FromStr(s) = ListFiles(Part(s, l + 1, m1))
  BY <1>1, <1>2, <1>5, <1>9, FromStrIs
<1> QED
  BY <1>1, <1>4, <1>10

\* get@.
LEMMA GetFileParsed ==
    ASSUME NEW s \in Seq(Text), NEW u \in Seq(Text), NEW f \in Seq(Text),
           ~ Contains(u, Blank), ~ Contains(u, "->"),
           ~ Contains(f, Blank), ~ Contains(f, "->"),
           NEW l \in Nat, NEW g \in Nat,
           Spells(s, Written(GetFile(u, f), l, g))
    PROVE  FromStr(s) = GetFile(u, f)
<1>1. PICK k \in Nat : k = l + 1
  OBVIOUS
<1>2. PICK e \in Nat : e = k + Len(u)
  OBVIOUS
<1>3. PICK d \in Nat : d = e + 1
  OBVIOUS
<1>4. /\ k <= Len(s)
      /\ Spaced(s, 0, l)
      /\ s[k] = "get@"
      /\ At(s, k, u)
      /\ d <= Len(s)
      /\ s[d] = "->"
      /\ At(s, d, f)
      /\ MayFollow(s, d + Len(f))
  <2>1. e = (l + 1) + Len(u)
    BY <1>1, <1>2
  <2>2. GetsAt(s, u, f, l, e)
    BY <2>1, GetFileAt
  <2> QED
    BY <1>1, <1>3, <2>2 DEF GetsAt
<1>5. PICK n : n = d + Len(f)
  OBVIOUS
<1>6. /\ k <= e /\ e <= Len(s)
      /\ u = Part(s, k, e)
      /\ \A i \in (k + 1)..e : s[i] # Blank
      /\ \A i \in (k + 1)..e : s[i] # "->"
  BY <1>2, <1>4, WordStands
<1>7. /\ n \in Nat
      /\ d <= n /\ n <= Len(s)
      /\ f = Part(s, d, n)
      /\ \A i \in (d + 1)..n : s[i] # Blank
      /\ \A i \in (d + 1)..n : s[i] # "->"
  BY <1>4, <1>5, WordStands
<1>8. s[k] # Blank /\ s[d] # Blank
  BY <1>4, BlankIsApart
<1>9. Len(s) \in Nat
  OBVIOUS
<1>10. PICK m1 \in Nat : EndsAt(s, Blank, n, Len(s), m1)
  BY <1>7, <1>9, EndExists
<1>11. /\ n <= m1 /\ m1 <= Len(s)
       /\ \A i \in (n + 1)..m1 : s[i] # Blank
       /\ m1 = Len(s) \/ s[m1 + 1] = Blank
  BY <1>10 DEF EndsAt
<1>12. StartsAt(s, 0, Len(s), l)
  <2>1. l \in 0..Len(s)
    BY <1>1, <1>4, <1>9
  <2> QED
    BY <1>1, <1>4, <1>8, <2>1 DEF StartsAt, Spaced
<1>13. EndsAt(s, Blank, l, Len(s), m1)
  <2>1. \A i \in (l + 1)..m1 :
            \/ i = k \/ i \in (k + 1)..e
            \/ i = d \/ i \in (d + 1)..n \/ i \in (n + 1)..m1
    BY <1>1, <1>3, <1>6, <1>7, <1>11
  <2>2. \A i \in (l + 1)..m1 : s[i] # Blank
    BY <1>6, <1>7, <1>8, <1>11, <2>1
  <2>3. m1 \in l..Len(s)
    BY <1>1, <1>3, <1>6, <1>7, <1>11
  <2> QED
    BY <1>11, <2>2, <2>3 DEF EndsAt
<1>14. PICK m2, m3 : Layout(s, l, m1, m2, m3)
  BY <1>12, <1>13, LayoutRest
<1>15. k <= m1 /\ e < m1 /\ l < m1 /\ d <= m1
  BY <1>1, <1>3, <1>6, <1>7, <1>11
<1>16. FromStr(s) = ParseGetFile(Part(s, k, m1))
  BY <1>1, <1>4, <1>14, <1>15, FromStrIs
<1>17. EndsAt(s, "->", k, m1, e)
  <2>1. e \in k..m1
    BY <1>6, <1>15
  <2> QED
    BY <1>3, <1>4, <1>6, <2>1 DEF EndsAt
<1>18. EndsAt(s, "->", e + 1, m1, n)
  <2>1. n \in d..m1
    BY <1>7, <1>11
  <2>2. n = m1 \/ s[n + 1] = "->"
    <3>1. CASE n = Len(s)
      BY <1>7, <1>9, <1>11, <3>1
    <3>2. CASE s[n + 1] = Blank
      <4>1. n + 1 \notin (n + 1)..m1
        BY <1>11, <3>2
      <4>2. ~ (n < m1)
        BY <1>7, <4>1
      <4> QED
        BY <1>7, <1>11, <4>2
    <3> QED
      BY <1>4, <1>5, <3>1, <3>2 DEF MayFollow
  <2>3. EndsAt(s, "->", d, m1, n)
    BY <1>7, <2>1, <2>2 DEF EndsAt
  <2> QED
    BY <1>3, <2>3
<1>19. ParseGetFile(Part(s, k, m1)) = GetFile(Part(s, k, e), Part(s, e + 1, n))
  BY <1>7, <1>11, <1>15, <1>17, <1>18, ParseGetFileIs
<1> QED
  BY <1>3, <1>6, <1>7, <1>16, <1>19

\* The pieces that a command can be made of.
LEMMA PiecesAre ==
    ASSUME NEW s \in Seq(Text), NEW w \in SubSeqs(s)
    PROVE  w \in Seq(Text)
<1>1. Len(s) \in Nat
  OBVIOUS
<1>2. PICK i \in 0..Len(s), j \in 0..Len(s) : w = SubSeq(s, i + 1, j)
  BY DEF SubSeqs
<1>3. \A n \in (i + 1)..j : s[n] \in Text
  BY <1>1, <1>2
<1>4. i + 1 \in Int /\ j \in Int
  BY <1>1, <1>2
<1> QED
  BY <1>2, <1>3, <1>4, SubSeqProperties

\* The commands that are documented.
LEMMA DocumentedAre ==
    ASSUME NEW s, NEW c \in Documented(s)
    PROVE  \/ c = ListPeers
           \/ \E u \in SubSeqs(s) : /\ u # <<>> /\ ~ Contains(u, Blank)
                                    /\ c = Register(u)
           \/ \E u \in SubSeqs(s) : ~ Contains(u, Blank) /\ c = ListFiles(u)
           \/ \E u, f \in SubSeqs(s) :
                 /\ ~ Contains(u, Blank) /\ ~ Contains(u, "->")
                 /\ ~ Contains(f, Blank) /\ ~ Contains(f, "->")
                 /\ c = GetFile(u, f)
BY DEF Documented

\* Whatever a line is written as, from_str takes it for.
LEMMA WrittenIsParsed ==
    ASSUME NEW s \in Seq(Text), NEW c \in Documented(s),
           NEW l \in 0..Len(s), NEW g \in 1..Len(s), Spells(s, Written(c, l, g))
    PROVE  FromStr(s) = c
<1>1. Len(s) \in Nat
  OBVIOUS
<1>2. l \in Nat /\ g \in Nat /\ g >= 1
  BY <1>1
<1>3. \A w \in SubSeqs(s) : w \in Seq(Text)
  BY PiecesAre
<1>4. CASE c = ListPeers
  BY <1>2, <1>4, ListPeersParsed
<1>5. ASSUME NEW u \in SubSeqs(s), u # <<>>, ~ Contains(u, Blank), c = Register(u)
      PROVE  FromStr(s) = c
  <2>1. u \in Seq(Text)
    BY <1>3
  <2> QED
    BY <1>2, <1>5, <2>1, RegisterParsed
<1>6. ASSUME NEW u \in SubSeqs(s), ~ Contains(u, Blank), c = ListFiles(u)
      PROVE  FromStr(s) = c
  <2>1. u \in Seq(Text)
    BY <1>3
  <2> QED
    BY <1>2, <1>6, <2>1, ListFilesParsed
<1>7. ASSUME NEW u \in SubSeqs(s), NEW f \in SubSeqs(s),
             ~ Contains(u, Blank), ~ Contains(u, "->"),
             ~ Contains(f, Blank), ~ Contains(f, "->"), c = GetFile(u, f)
      PROVE  FromStr(s) = c
  <2>1. u \in Seq(Text) /\ f \in Seq(Text)
    BY <1>3
  <2> QED
    BY <1>2, <1>7, <2>1, GetFileParsed
<1> QED
  BY <1>4, <1>5, <1>6, <1>7, DocumentedAre

-----------------------------------------------------------------------------
(***************************************************************************)
(* The lines of main.                                                      *)
(***************************************************************************)

\* The line that asks for a file that ls@ has shown.
Asking(u, name) == <<"get@", u, "->">> \o Shown(name)

LineInv ==
    /\ line \in Seq(Text)
    /\ \A c \in wanted : \E u \in Letters, name \in FileNames :
          line = Asking(u, name) /\ c = GetFile(<<u>>, name)

\* A name as it is shown, and the line that asks for it.
LEMMA AskingIs ==
    ASSUME NEW u \in Letters, NEW name \in FileNames
    PROVE  /\ name \in Seq(Text)
           /\ Asking(u, name) \in Seq(Text)
           /\ Len(Asking(u, name)) = 3 + Len(name)
           /\ Asking(u, name)[1] = "get@"
           /\ Asking(u, name)[2] = u
           /\ Asking(u, name)[3] = "->"
           /\ \A i \in 1..Len(name) :
                 Asking(u, name)[3 + i] = IF name[i] = Lossy THEN Replaced ELSE name[i]
<1>1. name \in Seq(Text)
  BY ParseAssumption DEF Text, Tokens
<1>2. PICK n \in Nat : n = Len(name) /\ DOMAIN name = 1..n
  BY <1>1
<1>3. PICK shown : shown = Shown(name)
  OBVIOUS
<1>4. /\ shown \in Seq(Text)
      /\ Len(shown) = n
      /\ \A i \in 1..n : shown[i] = IF name[i] = Lossy THEN Replaced ELSE name[i]
  <2>1. shown = [i \in 1..n |-> IF name[i] = Lossy THEN Replaced ELSE name[i]]
    BY <1>2, <1>3 DEF Shown
  <2>2. \A i \in 1..n : (IF name[i] = Lossy THEN Replaced ELSE name[i]) \in Text
    BY <1>1, <1>2 DEF Text
  <2> QED
    BY <2>1, <2>2
<1>5. PICK h : h = <<"get@", u, "->">>
  OBVIOUS
<1>6. h \in Seq(Text) /\ Len(h) = 3 /\ h[1] = "get@" /\ h[2] = u /\ h[3] = "->"
  <2>1. "get@" \in Text /\ u \in Text /\ "->" \in Text
    BY DEF Text, Tokens, Syntax
  <2> QED
    BY <1>5, <2>1
<1>7. /\ h \o shown \in Seq(Text)
      /\ Len(h \o shown) = 3 + n
      /\ \A i \in 1..(3 + n) : (h \o shown)[i] = IF i <= 3 THEN h[i] ELSE shown[i - 3]
  <2>1. shown \in Seq(Text) /\ h \in Seq(Text)
    BY <1>4, <1>6
  <2>2. /\ h \o shown \in Seq(Text)
        /\ Len(h \o shown) = Len(h) + Len(shown)
        /\ \A i \in 1..(Len(h) + Len(shown)) :
              (h \o shown)[i] = IF i <= Len(h) THEN h[i] ELSE shown[i - Len(h)]
    BY <2>1, ConcatProperties
  <2> QED
    BY <1>4, <1>6, <2>2
<1>8. PICK a : a = h \o shown
  OBVIOUS
<1>9. a = Asking(u, name)
  BY <1>3, <1>5, <1>8 DEF Asking
<1>10. a[1] = "get@" /\ a[2] = u /\ a[3] = "->"
  <2>1. 1 \in 1..(3 + n) /\ 2 \in 1..(3 + n) /\ 3 \in 1..(3 + n)
    OBVIOUS
  <2> QED
    BY <1>6, <1>7, <1>8, <2>1
<1>11. ASSUME NEW i \in 1..n
       PROVE  a[3 + i] = IF name[i] = Lossy THEN Replaced ELSE name[i]
  <2>1. 3 + i \in 1..(3 + n) /\ ~ (3 + i <= 3) /\ (3 + i) - 3 = i
    OBVIOUS
  <2>2. a[3 + i] = shown[i]
    BY <1>7, <1>8, <2>1
  <2> QED
    BY <1>4, <2>2
<1> QED
  BY <1>1, <1>2, <1>7, <1>8, <1>9, <1>10, <1>11

\* The lines are text, and a line made for a file asks for it.
LEMMA LineInvariant == LineSpec => []LineInv
<1>1. LineInit => LineInv
  BY DEF LineInit, LineInv
<1>2. LineInv /\ [LineNext]_lineVars => LineInv'
  <2> SUFFICES ASSUME LineInv, [LineNext]_lineVars PROVE LineInv'
    OBVIOUS
  <2>1. ASSUME NEW t \in Tokens, Type(t) PROVE LineInv'
    <3>1. t \in Text
      BY DEF Text
    <3>2. line' \in Seq(Text) /\ wanted' = {}
      BY <2>1, <3>1 DEF Type, LineInv
    <3> QED
      BY <3>2 DEF LineInv
  <2>2. ASSUME NEW u \in Letters, NEW name \in FileNames, TypeListed(u, name)
        PROVE  LineInv'
    <3>1. line' = Asking(u, name) /\ wanted' = {GetFile(<<u>>, name)}
      BY <2>2 DEF TypeListed, Asking
    <3>2. Asking(u, name) \in Seq(Text)
      BY AskingIs
    <3> QED
      BY <3>1, <3>2 DEF LineInv
  <2>3. CASE HandleInput
    BY <2>3 DEF HandleInput, LineInv
  <2>4. CASE UNCHANGED lineVars
    BY <2>4 DEF lineVars, LineInv
  <2> QED
    BY <2>1, <2>2, <2>3, <2>4 DEF LineNext
<1> QED
  BY <1>1, <1>2, PTL DEF LineSpec

\* A line of any length that is a command written as README.md documents it,
\* with any names that are not empty and have no blank (and, beside an arrow,
\* none of their own), is taken by Command::from_str for that command.
THEOREM LinesParseAsDocumented == LineSpec => []DocumentedLinesParse
<1>1. LineInv => DocumentedLinesParse
  BY WrittenIsParsed DEF LineInv, DocumentedLinesParse
<1> QED
  BY <1>1, LineInvariant, PTL

\* How from_str takes the line that asks for a file: the user is u, and the
\* name goes on to the first blank or arrow.
LEMMA AskingParses ==
    ASSUME NEW u \in Letters, NEW name \in FileNames,
           NEW s, s = Asking(u, name)
    PROVE  \E n \in Nat :
              /\ 3 <= n /\ n <= Len(s)
              /\ FromStr(s) = GetFile(<<u>>, Part(s, 3, n))
              /\ \A i \in 4..n : s[i] # Blank /\ s[i] # "->"
              /\ n = Len(s) \/ s[n + 1] \in {Blank, "->"}
<1>1. /\ s \in Seq(Text) /\ Len(s) \in Nat /\ 3 <= Len(s)
      /\ s[1] = "get@" /\ s[2] = u /\ s[3] = "->"
  <2>1. name \in Seq(Text) /\ Len(s) = 3 + Len(name)
    BY AskingIs
  <2>2. Len(name) \in Nat
    BY <2>1
  <2>3. s \in Seq(Text) /\ s[1] = "get@" /\ s[2] = u /\ s[3] = "->"
    BY AskingIs
  <2> QED
    BY <2>1, <2>2, <2>3
<1>2. /\ s[1] # Blank /\ s[2] # Blank /\ s[3] # Blank
      /\ s[2] # "->"
  <2>1. u # Blank /\ u # "->"
    BY ParseAssumption DEF Syntax
  <2> QED
    BY <1>1, <2>1, BlankIsApart
<1>3. StartsAt(s, 0, Len(s), 0)
  BY <1>1, <1>2 DEF StartsAt
<1>4. PICK m1 \in Nat : EndsAt(s, Blank, 0, Len(s), m1)
  <2>1. 0 \in Nat /\ 0 <= Len(s)
    BY <1>1
  <2> QED
    BY <1>1, <2>1, EndExists
<1>5. 3 <= m1 /\ m1 <= Len(s)
  BY <1>1, <1>2, <1>4 DEF EndsAt
<1>6. FromStr(s) = ParseGetFile(Part(s, 1, m1))
  <2>1. PICK z \in Nat : z = 0
    OBVIOUS
  <2>2. PICK m2, m3 : Layout(s, z, m1, m2, m3)
    BY <1>1, <1>3, <1>4, <2>1, LayoutRest
  <2>3. z < m1 /\ z + 1 = 1
    BY <1>5, <2>1
  <2> QED
    BY <1>1, <2>2, <2>3, FromStrIs
<1>7. EndsAt(s, "->", 1, m1, 2)
  BY <1>1, <1>2, <1>5 DEF EndsAt
<1>8. PICK n \in Nat : EndsAt(s, "->", 3, m1, n)
  BY <1>5, EndExists
<1>9. 3 <= n /\ n <= m1 /\ n <= Len(s)
  BY <1>1, <1>5, <1>8 DEF EndsAt
<1>10. ParseGetFile(Part(s, 1, m1)) = GetFile(Part(s, 1, 2), Part(s, 3, n))
  <2>1. PICK a \in Nat, e \in Nat : a = 1 /\ e = 2
    OBVIOUS
  <2>2. a <= m1 /\ e < m1 /\ EndsAt(s, "->", a, m1, e) /\ EndsAt(s, "->", e + 1, m1, n)
    BY <1>5, <1>7, <1>8, <2>1
  <2>3. ParseGetFile(Part(s, a, m1)) = GetFile(Part(s, a, e), Part(s, e + 1, n))
    BY <1>1, <1>5, <1>9, <2>2, ParseGetFileIs
  <2> QED
    BY <2>1, <2>3
<1>11. Part(s, 1, 2) = <<u>>
  <2>1. 1 <= 2 /\ 2 <= Len(s)
    BY <1>1
  <2>2. PICK a \in Nat, b \in Nat : a = 1 /\ b = 2
    OBVIOUS
  <2>3. s \in Seq(Text) /\ a <= b /\ b <= Len(s)
    BY <1>1, <2>1, <2>2
  <2>4. /\ Part(s, a, b) \in Seq(Text)
        /\ Len(Part(s, a, b)) = b - a
        /\ \A i \in 1..(b - a) : Part(s, a, b)[i] = s[a + i]
    BY <2>3, PartTokens
  <2>5. PICK w : w = Part(s, a, b)
    OBVIOUS
  <2>6. w \in Seq(Text) /\ Len(w) = 1 /\ w[1] = u
    BY <1>1, <2>2, <2>4, <2>5
  <2>7. w = <<w[1]>>
    BY <2>6, OneToken
  <2> QED
    BY <2>2, <2>5, <2>6, <2>7
<1>12. ASSUME NEW i \in 4..n PROVE s[i] # Blank /\ s[i] # "->"
  BY <1>4, <1>8, <1>9 DEF EndsAt
<1>13. n = Len(s) \/ s[n + 1] \in {Blank, "->"}
  BY <1>4, <1>8 DEF EndsAt
<1> QED
  BY <1>6, <1>9, <1>10, <1>11, <1>12, <1>13

\* The name that from_str finds is the file's own just when that has no blank
\* and no arrow, and nothing of it was replaced.
LEMMA AskingFinds ==
    ASSUME NEW u \in Letters, NEW name \in FileNames
    PROVE  FromStr(Asking(u, name)) = GetFile(<<u>>, name) <=>
              ~ \E t \in {Blank, "->", Lossy} : Contains(name, t)
<1>1. PICK s : s = Asking(u, name)
  OBVIOUS
<1>2. PICK k \in Nat : k = Len(name)
  <2>1. name \in Seq(Text)
    BY AskingIs
  <2> QED
    BY <2>1
<1>3. /\ name \in Seq(Text) /\ s \in Seq(Text) /\ Len(s) = 3 + k
      /\ \A i \in 1..k : s[3 + i] = IF name[i] = Lossy THEN Replaced ELSE name[i]
  BY <1>1, <1>2, AskingIs
<1>4. PICK n \in Nat :
         /\ 3 <= n /\ n <= Len(s)
         /\ FromStr(s) = GetFile(<<u>>, Part(s, 3, n))
         /\ \A i \in 4..n : s[i] # Blank /\ s[i] # "->"
         /\ n = Len(s) \/ s[n + 1] \in {Blank, "->"}
  BY <1>1, AskingParses
<1>5. PICK f : f = Part(s, 3, n)
  OBVIOUS
<1>6. Len(f) = n - 3 /\ \A i \in 1..(n - 3) : f[i] = s[3 + i]
  <2>1. PICK a \in Nat : a = 3
    OBVIOUS
  <2>2. s \in Seq(Text) /\ a <= n /\ n <= Len(s)
    BY <1>3, <1>4, <2>1
  <2>3. /\ Len(Part(s, a, n)) = n - a
        /\ \A i \in 1..(n - a) : Part(s, a, n)[i] = s[a + i]
    BY <2>2, PartTokens
  <2> QED
    BY <1>5, <2>1, <2>3
<1>7. FromStr(s) = GetFile(<<u>>, name) <=> f = name
  <2>1. FromStr(s) = GetFile(<<u>>, f)
    BY <1>4, <1>5
  <2>2. GetFile(<<u>>, f).file = f /\ GetFile(<<u>>, name).file = name
    BY DEF GetFile
  <2> QED
    BY <2>1, <2>2
<1>8. ASSUME f = name, NEW i \in 1..k
      PROVE  name[i] # Blank /\ name[i] # "->" /\ name[i] # Lossy
  <2>1. k = n - 3 /\ 3 + i \in 4..n
    BY <1>2, <1>4, <1>6, <1>8
  <2>2. name[i] = s[3 + i]
    BY <1>6, <1>8, <2>1
  <2>3. name[i] # Lossy
    BY <1>3, <2>2, ParseAssumption
  <2> QED
    BY <1>4, <2>1, <2>2, <2>3
<1>9. ASSUME \A i \in 1..k : name[i] # Blank /\ name[i] # "->" /\ name[i] # Lossy
      PROVE  f = name
  <2>1. \A i \in 1..k : s[3 + i] = name[i]
    BY <1>3, <1>9
  <2>2. n = Len(s)
    <3>1. SUFFICES ASSUME n # Len(s) PROVE FALSE
      OBVIOUS
    <3>2. PICK i : i = n - 2
      OBVIOUS
    <3>3. i \in 1..k /\ 3 + i = n + 1
      BY <1>3, <1>4, <3>1, <3>2
    <3>4. s[n + 1] = name[i]
      BY <2>1, <3>3
    <3> QED
      BY <1>4, <1>9, <3>1, <3>3, <3>4
  <2>3. Len(name) = n - 3 /\ \A i \in 1..(n - 3) : name[i] = s[3 + i]
    BY <1>2, <1>3, <2>1, <2>2
  <2>4. PICK a \in Nat : a = 3
    OBVIOUS
  <2>5. /\ s \in Seq(Text) /\ name \in Seq(Text) /\ a <= n /\ n <= Len(s)
        /\ Len(name) = n - a /\ \A i \in 1..(n - a) : name[i] = s[a + i]
    BY <1>3, <1>4, <2>3, <2>4
  <2>6. name = Part(s, a, n)
    BY <2>5, PartIs
  <2> QED
    BY <1>5, <2>4, <2>6
<1>10. (\E t \in {Blank, "->", Lossy} : Contains(name, t)) <=>
       \E i \in 1..k : name[i] = Blank \/ name[i] = "->" \/ name[i] = Lossy
  BY <1>2 DEF Contains
<1> QED
  BY <1>1, <1>7, <1>8, <1>9, <1>10

\* A file that ls@ has shown is fetched by asking for it just when its name has
\* no blank, no arrow, and nothing that to_string_lossy replaces: for every
\* name a file can have.
THEOREM ShownFilesCanBeFetched == LineSpec => []ListedFilesCanBeFetched
<1>1. ASSUME LineInv PROVE ListedFilesCanBeFetched
  <2> SUFFICES ASSUME NEW c \in wanted
               PROVE  FromStr(line) = c <=>
                         ~ \E t \in {Blank, "->", Lossy} : Contains(c.file, t)
    BY DEF ListedFilesCanBeFetched
  <2>1. PICK u \in Letters, name \in FileNames :
           line = Asking(u, name) /\ c = GetFile(<<u>>, name)
    BY <1>1 DEF LineInv
  <2>2. c.file = name
    BY <2>1 DEF GetFile
  <2> QED
    BY <2>1, <2>2, AskingFinds
<1> QED
  BY <1>1, LineInvariant, PTL

\* Every line has a layout.
LEMMA LayoutExists ==
    ASSUME NEW s \in Seq(Text)
    PROVE  \E m0, m1, m2, m3 : Layout(s, m0, m1, m2, m3)
<1>1. PICK z \in Nat : z = 0
  OBVIOUS
<1>2. PICK n \in Nat : n = Len(s)
  OBVIOUS
<1>3. z <= n
  BY <1>1
<1>4. PICK m0 \in Nat : StartsAt(s, z, n, m0)
  BY <1>3, StartExists
<1>5. m0 <= n
  BY <1>4 DEF StartsAt
<1>6. PICK m1 \in Nat : EndsAt(s, Blank, m0, n, m1)
  BY <1>5, EndExists
<1> QED
  BY <1>1, <1>2, <1>4, <1>6, LayoutRest

\* The name that register takes is a word.
LEMMA RegisteredAre ==
    ASSUME NEW s \in Seq(Text), FromStr(s).name = "Register"
    PROVE  \E u \in Seq(Text) : ~ Contains(u, Blank) /\ FromStr(s) = Register(u)
<1>1. PICK m0, m1, m2, m3 : Layout(s, m0, m1, m2, m3)
  BY LayoutExists
<1>2. m2 \in Nat /\ m3 \in Nat /\ m2 <= m3 /\ m3 <= Len(s)
  BY <1>1, LayoutOrder
<1>3. /\ InvalidCommand.name # "Register" /\ ListPeers.name # "Register"
      /\ \A u : ListFiles(u).name # "Register"
      /\ \A rest : ParseGetFile(rest).name # "Register"
  BY DEF InvalidCommand, ListPeers, ListFiles, ParseGetFile, GetFile
<1>4. m1 = m0 + 1 /\ s[m1] = "register"
  BY <1>1, <1>3, FromStrIs
<1>5. FromStr(s) = Register(Part(s, m2, m3))
  BY <1>1, <1>3, <1>4, FromStrIs
<1>6. Part(s, m2, m3) \in Seq(Text)
  BY <1>2, PartTokens
<1>7. \A i \in (m2 + 1)..m3 : s[i] # Blank
  BY <1>1 DEF Layout, EndsAt
<1>8. ~ Contains(Part(s, m2, m3), Blank)
  BY <1>2, <1>7, PartLacks
<1> QED
  BY <1>5, <1>6, <1>8

\* A line without blanks is one word.
LEMMA OneWord ==
    ASSUME NEW s \in Seq(Text), NEW n \in Nat, n = Len(s), n >= 1,
           \A i \in 1..n : s[i] # Blank
    PROVE  /\ s[1] = "ls@" => FromStr(s) = ListFiles(Part(s, 1, n))
           /\ s[1] = "get@" => FromStr(s) = ParseGetFile(Part(s, 1, n))
<1>1. PICK z \in Nat : z = 0
  OBVIOUS
<1>2. z + 1 = 1 /\ z < n
  BY <1>1
<1>3. StartsAt(s, 0, Len(s), z)
  BY <1>1 DEF StartsAt
<1>4. EndsAt(s, Blank, z, Len(s), n)
  BY <1>1 DEF EndsAt
<1>5. PICK m2, m3 : Layout(s, z, n, m2, m3)
  BY <1>3, <1>4, LayoutRest
<1> QED
  BY <1>2, <1>5, FromStrIs

\* A token and a text behind it.
LEMMA TokenFirst ==
    ASSUME NEW x \in Text, NEW u \in Seq(Text), NEW n \in Nat, n = Len(u)
    PROVE  /\ <<x>> \o u \in Seq(Text)
           /\ Len(<<x>> \o u) = n + 1
           /\ (<<x>> \o u)[1] = x
           /\ \A i \in 1..n : (<<x>> \o u)[i + 1] = u[i]
<1>1. PICK h \in Seq(Text) : h = <<x>> /\ Len(h) = 1 /\ h[1] = x
  BY SyntaxIsText
<1>2. PICK w : w = h \o u
  OBVIOUS
<1>3. /\ w \in Seq(Text)
      /\ Len(w) = 1 + n
      /\ \A i \in 1..(1 + n) : w[i] = IF i <= 1 THEN h[i] ELSE u[i - 1]
  <2>1. /\ h \o u \in Seq(Text)
        /\ Len(h \o u) = Len(h) + Len(u)
        /\ \A i \in 1..(Len(h) + Len(u)) :
              (h \o u)[i] = IF i <= Len(h) THEN h[i] ELSE u[i - Len(h)]
    BY ConcatProperties
  <2> QED
    BY <1>1, <1>2, <2>1
<1>4. w[1] = x
  <2>1. 1 \in 1..(1 + n) /\ 1 <= 1
    OBVIOUS
  <2> QED
    BY <1>1, <1>3, <2>1
<1>5. ASSUME NEW i \in 1..n PROVE w[i + 1] = u[i]
  <2>1. i + 1 \in 1..(1 + n) /\ ~ (i + 1 <= 1) /\ (i + 1) - 1 = i
    OBVIOUS
  <2> QED
    BY <1>3, <2>1
<1> QED
  BY <1>1, <1>2, <1>3, <1>4, <1>5

\* ls@ with a word.
LEMMA UserListed ==
    ASSUME NEW u \in Seq(Text), ~ Contains(u, Blank)
    PROVE  FromStr(<<"ls@">> \o u) = ListFiles(u)
<1>1. PICK x \in Text : x = "ls@"
  BY SyntaxIsText
<1>2. PICK n \in Nat : n = Len(u)
  OBVIOUS
<1>3. PICK w : w = <<x>> \o u
  OBVIOUS
<1>4. /\ w \in Seq(Text) /\ Len(w) = n + 1 /\ w[1] = x
      /\ \A i \in 1..n : w[i + 1] = u[i]
  BY <1>2, <1>3, TokenFirst
<1>5. PICK a \in Nat, b \in Nat : a = 1 /\ b = n + 1
  OBVIOUS
<1>6. u = Part(w, a, b)
  <2>1. a <= b /\ b <= Len(w) /\ Len(u) = b - a
    BY <1>2, <1>4, <1>5
  <2>2. \A i \in 1..(b - a) : u[i] = w[a + i]
    BY <1>4, <1>5
  <2> QED
    BY <1>4, <2>1, <2>2, PartIs
<1>7. \A i \in 1..b : w[i] # Blank
  <2>1. \A i \in 1..n : u[i] # Blank
    BY <1>2 DEF Contains
  <2>2. w[1] # Blank
    BY <1>1, <1>4, BlankIsApart
  <2>3. \A i \in 1..b : i = 1 \/ (i - 1 \in 1..n /\ (i - 1) + 1 = i)
    BY <1>5
  <2> QED
    BY <1>4, <2>1, <2>2, <2>3
<1>8. FromStr(w) = ListFiles(Part(w, 1, b))
  <2>1. b = Len(w) /\ b >= 1 /\ w[1] = "ls@"
    BY <1>1, <1>4, <1>5
  <2> QED
    BY <1>4, <1>7, <2>1, OneWord
<1> QED
  BY <1>1, <1>3, <1>5, <1>6, <1>8

\* get@ with a word and a file of one letter.
LEMMA UserAsked ==
    ASSUME NEW u \in Seq(Text), ~ Contains(u, Blank), NEW t \in Letters
    PROVE  FromStr(<<"get@">> \o u \o <<"->", t>>) = GetFile(u, <<t>>) <=>
              ~ Contains(u, "->")
<1>1. PICK x \in Text : x = "get@"
  BY SyntaxIsText
<1>2. PICK n \in Nat : n = Len(u) /\ DOMAIN u = 1..n
  OBVIOUS
<1>3. PICK h, g, w : h = <<x>> \o u /\ g = <<"->", t>> /\ w = h \o g
  OBVIOUS
<1>4. /\ h \in Seq(Text) /\ Len(h) = n + 1 /\ h[1] = x
      /\ \A i \in 1..n : h[i + 1] = u[i]
  BY <1>2, <1>3, TokenFirst
<1>5. g \in Seq(Text) /\ Len(g) = 2 /\ g[1] = "->" /\ g[2] = t
  <2>1. "->" \in Text /\ t \in Text
    BY DEF Text, Tokens, Syntax
  <2> QED
    BY <1>3, <2>1
<1>6. /\ w \in Seq(Text)
      /\ Len(w) = n + 3
      /\ \A i \in 1..(n + 3) : w[i] = IF i <= n + 1 THEN h[i] ELSE g[i - (n + 1)]
  <2>1. /\ h \o g \in Seq(Text)
        /\ Len(h \o g) = Len(h) + Len(g)
        /\ \A i \in 1..(Len(h) + Len(g)) :
              (h \o g)[i] = IF i <= Len(h) THEN h[i] ELSE g[i - Len(h)]
    BY <1>4, <1>5, ConcatProperties
  <2> QED
    BY <1>3, <1>4, <1>5, <2>1
<1>7. /\ w[1] = "get@"
      /\ \A i \in 1..n : w[i + 1] = u[i]
      /\ w[n + 2] = "->"
      /\ w[n + 3] = t
  <2>1. w[1] = "get@"
    <3>1. 1 \in 1..(n + 3) /\ 1 <= n + 1
      OBVIOUS
    <3> QED
      BY <1>1, <1>4, <1>6, <3>1
  <2>2. ASSUME NEW i \in 1..n PROVE w[i + 1] = u[i]
    <3>1. i + 1 \in 1..(n + 3) /\ i + 1 <= n + 1
      OBVIOUS
    <3> QED
      BY <1>4, <1>6, <3>1
  <2>3. n + 2 \in 1..(n + 3) /\ ~ (n + 2 <= n + 1) /\ (n + 2) - (n + 1) = 1
    OBVIOUS
  <2>4. n + 3 \in 1..(n + 3) /\ ~ (n + 3 <= n + 1) /\ (n + 3) - (n + 1) = 2
    OBVIOUS
  <2> QED
    BY <1>5, <1>6, <2>1, <2>2, <2>3, <2>4
<1>8. t # Blank /\ t # "->"
  BY ParseAssumption DEF Syntax
<1>9. PICK a \in Nat, b \in Nat : a = 1 /\ b = n + 3
  OBVIOUS
<1>10. FromStr(w) = ParseGetFile(Part(w, a, b))
  <2>1. \A i \in 1..n : u[i] # Blank
    BY <1>2 DEF Contains
  <2>2. \A i \in 1..b : \/ i = 1 \/ i = n + 2 \/ i = n + 3
                        \/ i - 1 \in 1..n /\ (i - 1) + 1 = i
    BY <1>9
  <2>3. \A i \in 1..b : w[i] # Blank
    <3>1. w[1] # Blank /\ w[n + 2] # Blank /\ w[n + 3] # Blank
      BY <1>7, <1>8, BlankIsApart
    <3>2. \A i \in 1..n : w[i + 1] # Blank
      BY <1>7, <2>1
    <3> QED
      BY <2>2, <3>1, <3>2
  <2>4. b = Len(w) /\ b >= 1
    BY <1>6, <1>9
  <2>5. FromStr(w) = ParseGetFile(Part(w, 1, b))
    BY <1>6, <1>7, <2>3, <2>4, OneWord
  <2> QED
    BY <1>9, <2>5
<1>11. PICK e \in Nat : EndsAt(w, "->", a, b, e)
  <2>1. a <= b
    BY <1>9
  <2> QED
    BY <2>1, EndExists
<1>12. /\ a <= e /\ e <= n + 1
       /\ \A i \in 2..e : w[i] # "->"
       /\ w[e + 1] = "->"
  <2>1. /\ e \in 1..(n + 3)
        /\ \A i \in 2..e : w[i] # "->"
        /\ e = n + 3 \/ w[e + 1] = "->"
    BY <1>9, <1>11 DEF EndsAt
  <2>2. n + 2 \notin 2..e
    BY <1>7, <2>1
  <2>3. e <= n + 1
    BY <2>1, <2>2
  <2> QED
    BY <1>9, <2>1, <2>3
<1>13. PICK f \in Nat : EndsAt(w, "->", e + 1, b, f)
  <2>1. e + 1 \in Nat /\ e + 1 <= b
    BY <1>9, <1>12
  <2> QED
    BY <2>1, EndExists
<1>14. FromStr(w) = GetFile(Part(w, a, e), Part(w, e + 1, f))
  <2>1. a <= b /\ b <= Len(w) /\ e < b
    BY <1>6, <1>9, <1>12
  <2>2. w \in Seq(Text)
    BY <1>6
  <2> QED
    BY <1>10, <1>11, <1>13, <2>1, <2>2, ParseGetFileIs
<1>15. /\ Part(w, a, e) \in Seq(Text)
       /\ Len(Part(w, a, e)) = e - a
  <2>1. a <= e /\ e <= Len(w)
    BY <1>6, <1>12
  <2>2. w \in Seq(Text)
    BY <1>6
  <2> QED
    BY <2>1, <2>2, PartTokens
<1>16. ASSUME Contains(u, "->") PROVE FromStr(w) # GetFile(u, <<t>>)
  <2>1. PICK i \in 1..n : u[i] = "->"
    BY <1>2, <1>16 DEF Contains
  <2>2. w[i + 1] = "->"
    BY <1>7, <2>1
  <2>3. i + 1 \notin 2..e
    BY <1>12, <2>2
  <2>4. e - a < n
    BY <1>9, <1>12, <2>3
  <2>5. Part(w, a, e) # u
    BY <1>2, <1>15, <2>4
  <2> QED
    BY <1>14, <2>5 DEF GetFile
<1>17. ASSUME ~ Contains(u, "->") PROVE FromStr(w) = GetFile(u, <<t>>)
  <2>1. \A i \in 1..n : u[i] # "->"
    BY <1>2, <1>17 DEF Contains
  <2>2. e = n + 1
    <3>1. ~ (e <= n)
      <4> SUFFICES ASSUME e <= n PROVE FALSE
        OBVIOUS
      <4>1. e \in 1..n
        BY <1>9, <1>12
      <4> QED
        BY <1>7, <1>12, <2>1, <4>1
    <3> QED
      BY <1>12, <3>1
  <2>3. f = n + 3
    <3>1. f \in (n + 2)..(n + 3) /\ (f = n + 3 \/ w[f + 1] = "->")
      BY <1>9, <1>13, <2>2 DEF EndsAt
    <3>2. f # n + 2
      <4> SUFFICES ASSUME f = n + 2 PROVE FALSE
        OBVIOUS
      <4>1. f + 1 = n + 3 /\ f # n + 3
        OBVIOUS
      <4> QED
        BY <1>7, <1>8, <3>1, <4>1
    <3> QED
      BY <3>1, <3>2
  <2>4. w \in Seq(Text)
    BY <1>6
  <2>5. u = Part(w, a, e)
    <3>1. a <= e /\ e <= Len(w) /\ Len(u) = e - a
      BY <1>2, <1>6, <1>9, <1>12, <2>2
    <3>2. \A i \in 1..(e - a) : u[i] = w[a + i]
      BY <1>7, <1>9, <2>2
    <3> QED
      BY <2>4, <3>1, <3>2, PartIs
  <2>6. <<t>> = Part(w, e + 1, f)
    <3> PICK c \in Nat : c = e + 1
      OBVIOUS
    <3>1. PICK y \in Seq(Text) : y = <<t>> /\ Len(y) = 1 /\ y[1] = t
      <4>1. t \in Text
        BY DEF Text, Tokens
      <4>2. <<t>> \in Seq(Text) /\ Len(<<t>>) = 1 /\ <<t>>[1] = t
        BY <4>1
      <4> QED
        BY <4>2
    <3>2. c <= f /\ f <= Len(w) /\ Len(y) = f - c
      BY <1>6, <2>2, <2>3, <3>1
    <3>3. \A i \in 1..(f - c) : y[i] = w[c + i]
      <4>1. f - c = 1 /\ c + 1 = n + 3
        BY <2>2, <2>3, <3>1
      <4>2. \A i \in 1..(f - c) : i = 1
        BY <4>1
      <4> QED
        BY <1>7, <3>1, <4>1, <4>2
    <3>4. y = Part(w, c, f)
      BY <2>4, <3>2, <3>3, PartIs
    <3> QED
      BY <3>1, <3>4
  <2> QED
    BY <1>14, <2>5, <2>6
<1> QED
  BY <1>1, <1>3, <1>16, <1>17

\* Whatever word a user registers under, ls@ with that word asks for it, and
\* get@ does just when the word has no arrow.
THEOREM RegisteredUsersAreFound == LineSpec => []RegisteredUsersCanBeAsked
<1>1. ASSUME LineInv PROVE RegisteredUsersCanBeAsked
  <2> SUFFICES ASSUME FromStr(line).name = "Register"
               PROVE  LET c == FromStr(line) IN
                      /\ FromStr(<<"ls@">> \o c.user) = ListFiles(c.user)
                      /\ \A t \in Letters :
                            FromStr(<<"get@">> \o c.user \o <<"->", t>>)
                               = GetFile(c.user, <<t>>)
                            <=> ~ Contains(c.user, "->")
    BY DEF RegisteredUsersCanBeAsked
  <2>1. PICK u \in Seq(Text) : ~ Contains(u, Blank) /\ FromStr(line) = Register(u)
    BY <1>1, RegisteredAre DEF LineInv
  <2>2. FromStr(line).user = u
    BY <2>1 DEF Register
  <2>3. FromStr(<<"ls@">> \o u) = ListFiles(u)
    BY <2>1, UserListed
  <2>4. \A t \in Letters :
           FromStr(<<"get@">> \o u \o <<"->", t>>) = GetFile(u, <<t>>)
           <=> ~ Contains(u, "->")
    BY <2>1, UserAsked
  <2> QED
    BY <2>2, <2>3, <2>4
<1> QED
  BY <1>1, LineInvariant, PTL

=============================================================================

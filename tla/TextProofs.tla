----------------------------- MODULE TextProofs -----------------------------
(***************************************************************************)
(* Proofs about the two texts of macros.py, for every text and for every   *)
(* limit: the scan of a macro-string against the grammar, and the name     *)
(* that is left of what a domain-spec expands to.                          *)
(***************************************************************************)
EXTENDS MacroString, Names, SequenceTheorems, WellFoundedInduction,
        NaturalsInduction, TLAPS

-----------------------------------------------------------------------------
(***************************************************************************)
(* Induction over Nat for a set of numbers, from the least number outside. *)
(* The library's theorem takes a set, so it needs no operator parameter.   *)
(***************************************************************************)
LEMMA LeastNumber ==
  ASSUME NEW S, S \subseteq Nat, S # {}
  PROVE  \E n \in S : \A m \in S : n <= m
  <1> DEFINE R == {p \in Nat \X Nat : p[1] < p[2]}
  <1>1. IsWellFoundedOn(R, Nat)
    BY NatLessThanWellFounded DEF OpToRel
  <1>2. PICK x \in S : \A y \in S : ~(<<y, x>> \in R)
    BY <1>1, WFMin
  <1>3. \A y \in S : ~(y < x)
    BY <1>2
  <1>. QED
    BY <1>3

LEMMA Induct ==
  ASSUME NEW S, 0 \in S, \A n \in Nat : n \in S => n + 1 \in S
  PROVE  \A n \in Nat : n \in S
  <1>1. SUFFICES ASSUME Nat \ S # {} PROVE FALSE
    OBVIOUS
  <1>2. PICK n \in Nat \ S : \A m \in Nat \ S : n <= m
    BY <1>1, LeastNumber
  <1>3. n # 0 /\ n - 1 \in Nat /\ n - 1 \in S
    BY <1>2
  <1>. QED
    BY <1>2, <1>3

\* Min and Max of the community module, which CHOOSE.
LEMMA MinIs ==
  ASSUME NEW S, S \subseteq Nat, S # {}
  PROVE  Min(S) \in S /\ \A m \in S : Min(S) <= m
  <1>1. \E n \in S : \A m \in S : n <= m
    BY LeastNumber
  <1>. QED
    BY <1>1 DEF Min

LEMMA MaxIs ==
  ASSUME NEW S, NEW k \in Nat, S \subseteq 0..k, S # {}
  PROVE  Max(S) \in S /\ \A m \in S : m <= Max(S)
  <1> DEFINE T == {n \in Nat : n <= k /\ k - n \in S}
  <1>1. T # {}
    <2>1. PICK i \in S : TRUE
      OBVIOUS
    <2>2. k - i \in Nat /\ k - i <= k /\ k - (k - i) = i
      OBVIOUS
    <2>. QED
      BY <2>1, <2>2
  <1>2. PICK n \in T : \A m \in T : n <= m
    <2>1. T \subseteq Nat
      OBVIOUS
    <2>. HIDE DEF T
    <2>. QED
      BY <1>1, <2>1, LeastNumber
  <1>3. k - n \in S
    BY <1>2
  <1>4. ASSUME NEW j \in S PROVE j <= k - n
    <2>1. k - j \in Nat /\ k - j <= k /\ k - (k - j) = j
      OBVIOUS
    <2>2. k - j \in T
      BY <2>1
    <2>3. n <= k - j
      BY <1>2, <2>2
    <2>. QED
      BY <2>3
  <1>5. \E x \in S : \A y \in S : x >= y
    BY <1>3, <1>4
  <1>6. Max(S) \in S /\ \A y \in S : Max(S) >= y
    BY <1>5 DEF Max
  <1>. QED
    BY <1>6

-----------------------------------------------------------------------------
(***************************************************************************)
(* Derived() has a solution, and so satisfies its own equation.            *)
(***************************************************************************)
Derives(s, lit, f, n) ==
  \/ n = 0
  \/ n > 0 /\ s[n] \in lit /\ f[n - 1]
  \/ \E i \in 0..(n - 1) : MacroExpand(s, i + 1, n) /\ f[i]

\* f is the recursive function in Derived().
DerivesFn(s, lit, f) == f = [n \in 0..Len(s) |-> Derives(s, lit, f, n)]

LEMMA DerivesExist ==
  ASSUME NEW s \in Seq(Char), NEW lit
  PROVE  \E f : DerivesFn(s, lit, f)
  <1> DEFINE Upto(k, f) == \A n \in 0..k : f[n] = Derives(s, lit, f, n)
             S == {k \in Nat : \E f \in [0..k -> BOOLEAN] : Upto(k, f)}
  <1>1. 0 \in S
    <2>1. Upto(0, [i \in 0..0 |-> TRUE])
      BY DEF Derives
    <2>. QED
      BY <2>1
  <1>2. ASSUME NEW k \in Nat, k \in S PROVE k + 1 \in S
    <2>1. PICK f \in [0..k -> BOOLEAN] : Upto(k, f)
      BY <1>2
    <2> DEFINE g == [i \in 0..(k + 1) |-> IF i <= k THEN f[i] ELSE Derives(s, lit, f, k + 1)]
    <2>2. Derives(s, lit, f, k + 1) \in BOOLEAN
      BY DEF Derives
    <2>3. g \in [0..(k + 1) -> BOOLEAN]
      BY <2>2
    <2>4. ASSUME NEW n \in 0..(k + 1) PROVE g[n] = Derives(s, lit, g, n)
      <3>1. \A i \in 0..(n - 1) : g[i] = f[i]
        OBVIOUS
      <3>2. n > 0 => n - 1 \in 0..(n - 1)
        OBVIOUS
      <3>3. Derives(s, lit, g, n) = Derives(s, lit, f, n)
        <4>. HIDE DEF g
        <4>. QED
          BY <3>1, <3>2 DEF Derives
      <3>4. CASE n \in 0..k
        <4>1. g[n] = f[n]
          BY <3>4
        <4>. QED
          BY <2>1, <3>3, <3>4, <4>1
      <3>5. CASE n = k + 1
        <4>1. g[n] = Derives(s, lit, f, k + 1)
          BY <3>5
        <4>. QED
          BY <3>3, <3>5, <4>1
      <3>. QED
        BY <3>4, <3>5
    <2>. QED
      <3>. HIDE DEF g
      <3>. QED
        BY <2>3, <2>4
  <1>3. Len(s) \in S
    <2>. HIDE DEF S
    <2>. QED
      BY <1>1, <1>2, Induct
  <1>4. PICK f \in [0..Len(s) -> BOOLEAN] : Upto(Len(s), f)
    BY <1>3
  <1>5. f = [n \in 0..Len(s) |-> Derives(s, lit, f, n)]
    BY <1>4
  <1>. QED
    BY <1>5 DEF DerivesFn

\* Derived() is closed under the two rules, and holds nothing else.
LEMMA DerivedIs ==
  ASSUME NEW s \in Seq(Char), NEW lit
  PROVE  /\ Derived(s, lit) \subseteq 0..Len(s)
         /\ \A n \in 0..Len(s) : n \in Derived(s, lit) <=>
              \/ n = 0
              \/ n > 0 /\ s[n] \in lit /\ n - 1 \in Derived(s, lit)
              \/ \E i \in 0..(n - 1) : /\ MacroExpand(s, i + 1, n)
                                       /\ i \in Derived(s, lit)
  <1>1. PICK f : f = CHOOSE g : DerivesFn(s, lit, g)
    OBVIOUS
  <1>2. DerivesFn(s, lit, f)
    BY <1>1, DerivesExist
  <1>3. Derived(s, lit) = {n \in 0..Len(s) : f[n]}
    BY <1>1 DEF Derived, DerivesFn, Derives
  <1>4. \A n \in 0..Len(s) : f[n] = Derives(s, lit, f, n)
    BY <1>2 DEF DerivesFn
  <1>5. ASSUME NEW n \in 0..Len(s)
        PROVE  n \in Derived(s, lit) <=>
                 \/ n = 0
                 \/ n > 0 /\ s[n] \in lit /\ n - 1 \in Derived(s, lit)
                 \/ \E i \in 0..(n - 1) : /\ MacroExpand(s, i + 1, n)
                                          /\ i \in Derived(s, lit)
    <2>1. n > 0 => n - 1 \in 0..Len(s)
      OBVIOUS
    <2>2. \A i \in 0..(n - 1) : i \in 0..Len(s)
      OBVIOUS
    <2>3. n \in Derived(s, lit) <=> Derives(s, lit, f, n)
      BY <1>3, <1>4
    <2>. QED
      BY <1>3, <2>1, <2>2, <2>3 DEF Derives
  <1>. QED
    BY <1>3, <1>5

-----------------------------------------------------------------------------
(***************************************************************************)
(* A macro ends at one place, and none begins inside another.              *)
(***************************************************************************)
BodyChar == Alpha \cup Digit \cup Delim

\* The characters that can stand in braces; "}" and "%" are none of them.
LEMMA BodyChars ==
  ASSUME NEW b \in Seq(Char), IsBody(b), NEW x \in 1..Len(b)
  PROVE  b[x] \in BodyChar
  <1>1. PICK p \in 1..Len(b) :
          LET q == IF p < Len(b) /\ b[p + 1] = "r" THEN p + 1 ELSE p
          IN  /\ \A y \in 2..p : b[y] \in Digit
              /\ \A y \in (q + 1)..Len(b) : b[y] \in Delim
    BY DEF IsBody
  <1>2. "r" \in Alpha
    BY DEF Alpha, ExpOnly
  <1>3. CASE x = 1
    BY <1>3 DEF IsBody, BodyChar
  <1>4. CASE x \in 2..p
    BY <1>1, <1>4 DEF BodyChar
  <1>5. CASE x > p
    <2>1. CASE p < Len(b) /\ b[p + 1] = "r"
      <3>1. x = p + 1 \/ x \in (p + 1 + 1)..Len(b)
        BY <1>5
      <3>. QED
        BY <1>1, <1>2, <2>1, <3>1 DEF BodyChar
    <2>2. CASE ~(p < Len(b) /\ b[p + 1] = "r")
      <3>1. x \in (p + 1)..Len(b)
        BY <1>5
      <3>. QED
        BY <1>1, <2>2, <3>1 DEF BodyChar
    <2>. QED
      BY <2>1, <2>2
  <1>. QED
    BY <1>3, <1>4, <1>5

LEMMA BodyCharIs == "}" \notin BodyChar /\ "%" \notin BodyChar /\ "nl" \notin BodyChar
  BY DEF BodyChar, Alpha, Allowed, ExpOnly, Digit, Delim

\* What stands between the braces of a macro.
LEMMA BodySeq ==
  ASSUME NEW s \in Seq(Char), NEW i \in 1..Len(s), NEW j \in 1..Len(s), j > i + 2
  PROVE  /\ SubSeq(s, i + 2, j - 1) \in Seq(Char)
         /\ Len(SubSeq(s, i + 2, j - 1)) = j - i - 2
         /\ \A x \in (i + 2)..(j - 1) :
              /\ x - i - 1 \in 1..(j - i - 2)
              /\ SubSeq(s, i + 2, j - 1)[x - i - 1] = s[x]
  <1>1. PICK b : b = SubSeq(s, i + 2, j - 1)
    OBVIOUS
  <1>2. i + 2 \in 1..Len(s) /\ j - 1 \in 1..Len(s) /\ i + 2 <= j - 1
    OBVIOUS
  <1>3. /\ b \in Seq(Char) /\ Len(b) = (j - 1) - (i + 2) + 1
        /\ \A x \in 1..((j - 1) - (i + 2) + 1) : b[x] = s[(i + 2) + x - 1]
    BY <1>1, <1>2, SubSeqProperties
  <1>4. (j - 1) - (i + 2) + 1 = j - i - 2
    OBVIOUS
  <1>5. ASSUME NEW x \in (i + 2)..(j - 1)
        PROVE  x - i - 1 \in 1..(j - i - 2) /\ b[x - i - 1] = s[x]
    <2>1. x - i - 1 \in 1..(j - i - 2) /\ (i + 2) + (x - i - 1) - 1 = x
      OBVIOUS
    <2>. QED
      BY <1>3, <1>4, <2>1
  <1>. QED
    BY <1>1, <1>3, <1>4, <1>5

LEMMA MacroShape ==
  ASSUME NEW s \in Seq(Char), NEW i \in 1..Len(s), NEW j \in 1..Len(s), IsMacro(s, i, j)
  PROVE  /\ j > i + 2 /\ s[i] = "%" /\ s[i + 1] = "{" /\ s[j] = "}"
         /\ \A x \in (i + 2)..(j - 1) : s[x] \in BodyChar
  <1>1. j > i + 2 /\ s[i] = "%" /\ s[i + 1] = "{" /\ s[j] = "}"
        /\ IsBody(SubSeq(s, i + 2, j - 1))
    BY DEF IsMacro
  <1>2. ASSUME NEW x \in (i + 2)..(j - 1) PROVE s[x] \in BodyChar
    <2>1. PICK b : b = SubSeq(s, i + 2, j - 1)
      OBVIOUS
    <2>2. b \in Seq(Char) /\ Len(b) = j - i - 2
          /\ x - i - 1 \in 1..(j - i - 2) /\ b[x - i - 1] = s[x]
      BY <1>1, <2>1, BodySeq
    <2>. QED
      BY <1>1, <2>1, <2>2, BodyChars
  <1>. QED
    BY <1>1, <1>2

\* From one "%" there is one macro or escape at most.
LEMMA OneEnd ==
  ASSUME NEW s \in Seq(Char), NEW i \in 1..Len(s), NEW j \in 1..Len(s), NEW k \in 1..Len(s),
         IsEscape(s, i, j) \/ IsMacro(s, i, j), IsEscape(s, i, k) \/ IsMacro(s, i, k)
  PROVE  j = k
  <1>1. CASE IsEscape(s, i, j) /\ IsEscape(s, i, k)
    BY <1>1 DEF IsEscape
  <1>2. ASSUME NEW x \in 1..Len(s), NEW y \in 1..Len(s), IsEscape(s, i, x), IsMacro(s, i, y)
        PROVE  FALSE
    BY <1>2 DEF IsEscape, IsMacro
  <1>3. ASSUME NEW x \in 1..Len(s), NEW y \in 1..Len(s), IsMacro(s, i, x), IsMacro(s, i, y), x < y
        PROVE  FALSE
    <2>1. s[x] = "}" /\ x > i + 2
      BY <1>3, MacroShape
    <2>2. x \in (i + 2)..(y - 1)
      <3>1. x < y /\ x > i + 2
        BY <1>3, <2>1
      <3>. QED
        BY <3>1
    <2>3. s[x] \in BodyChar
      BY <1>3, <2>2, MacroShape
    <2>. QED
      BY <2>1, <2>3, BodyCharIs
  <1>4. CASE IsMacro(s, i, j) /\ IsMacro(s, i, k)
    BY <1>3, <1>4
  <1>. QED
    BY <1>1, <1>2, <1>4

LEMMA EndAfter ==
  ASSUME NEW s \in Seq(Char), NEW i \in 1..Len(s), NEW j \in 1..Len(s),
         IsEscape(s, i, j) \/ IsMacro(s, i, j)
  PROVE  j > i
  <1>1. CASE IsEscape(s, i, j)
    <2>1. j = i + 1
      BY <1>1 DEF IsEscape
    <2>2. i \in Nat /\ i + 1 > i
      OBVIOUS
    <2>. QED
      BY <2>1, <2>2
  <1>2. CASE IsMacro(s, i, j)
    <2>1. j > i + 2
      BY <1>2, MacroShape
    <2>. QED
      BY <2>1
  <1>. QED
    BY <1>1, <1>2

\* MatchEnd() finds it.
LEMMA MatchIs ==
  ASSUME NEW s \in Seq(Char), NEW i \in 1..Len(s)
  PROVE  /\ MatchEnd(s, i) \in i..Len(s)
         /\ MatchEnd(s, i) # i =>
              IsEscape(s, i, MatchEnd(s, i)) \/ IsMacro(s, i, MatchEnd(s, i))
         /\ \A j \in 1..Len(s) :
              IsEscape(s, i, j) \/ IsMacro(s, i, j) => j = MatchEnd(s, i) /\ j > i
  <1> DEFINE ends == {j \in (i + 1)..Len(s) : IsEscape(s, i, j) \/ IsMacro(s, i, j)}
  <1>1. ASSUME NEW j \in 1..Len(s), IsEscape(s, i, j) \/ IsMacro(s, i, j)
        PROVE  j \in ends
    <2>1. j > i
      BY <1>1, EndAfter
    <2>2. j \in (i + 1)..Len(s)
      BY <2>1
    <2>. QED
      BY <1>1, <2>2
  <1>2. CASE ends = {}
    <2>1. MatchEnd(s, i) = i
      BY <1>2 DEF MatchEnd
    <2>. QED
      BY <1>1, <1>2, <2>1
  <1>3. CASE ends # {}
    <2>1. MatchEnd(s, i) = Min(ends)
      BY <1>3 DEF MatchEnd
    <2>2. MatchEnd(s, i) \in ends
      <3>1. ends \subseteq Nat
        OBVIOUS
      <3>. HIDE DEF ends
      <3>. QED
        BY <1>3, <2>1, <3>1, MinIs
    <2>3. MatchEnd(s, i) \in 1..Len(s) /\ MatchEnd(s, i) \in (i + 1)..Len(s)
      BY <2>2
    <2>4. ASSUME NEW j \in 1..Len(s), IsEscape(s, i, j) \/ IsMacro(s, i, j)
          PROVE  j = MatchEnd(s, i) /\ j > i
      <3>1. j = MatchEnd(s, i)
        BY <2>2, <2>3, <2>4, OneEnd
      <3>. QED
        BY <2>3, <3>1
    <2>. QED
      BY <2>2, <2>3, <2>4
  <1>. QED
    BY <1>2, <1>3

LEMMA PercentIs ==
  ASSUME NEW s \in Seq(Char), NEW p \in 1..(Len(s) + 1)
  PROVE  /\ NextPercent(s, p) \in p..(Len(s) + 1)
         /\ \A x \in p..(NextPercent(s, p) - 1) : s[x] # "%"
         /\ NextPercent(s, p) <= Len(s) => s[NextPercent(s, p)] = "%"
  <1> DEFINE at == {i \in p..Len(s) : s[i] = "%"} \cup {Len(s) + 1}
  <1>1. NextPercent(s, p) = Min(at)
    BY DEF NextPercent
  <1>2. Min(at) \in at /\ \A m \in at : Min(at) <= m
    <2>1. at \subseteq Nat /\ at # {}
      OBVIOUS
    <2>. HIDE DEF at
    <2>. QED
      BY <2>1, MinIs
  <1>3. PICK i : i = Min(at)
    OBVIOUS
  <1>4. i \in p..(Len(s) + 1) /\ (i <= Len(s) => s[i] = "%")
    BY <1>2, <1>3
  <1>5. \A x \in p..(i - 1) : s[x] # "%"
    BY <1>2, <1>3, <1>4
  <1>. QED
    BY <1>1, <1>3, <1>4, <1>5

-----------------------------------------------------------------------------
(***************************************************************************)
(* What a scan knows at position p of a derivation of s.                   *)
(***************************************************************************)
\* No macro of a derivation lies across position p.
NoneAcross(s, lit, p) ==
  \A k \in Derived(s, lit), e \in 1..Len(s) :
    k < p - 1 /\ MacroExpand(s, k + 1, e) => e <= p - 1

\* Position p is reached by a derivation, and every one before it that is not
\* is inside a macro of a derivation.
Reached(s, lit, p) ==
  /\ p - 1 \in Derived(s, lit)
  /\ \A n \in 0..(p - 1) :
       \/ n \in Derived(s, lit)
       \/ \E k \in Derived(s, lit), e \in 1..Len(s) :
            k < n /\ n < e /\ MacroExpand(s, k + 1, e)

LEMMA MacroStart ==
  ASSUME NEW s, NEW i, NEW j, MacroExpand(s, i, j)
  PROVE  s[i] = "%" /\ (IsEscape(s, i, j) \/ IsMacro(s, i, j))
  BY DEF MacroExpand, IsEscape, IsMacro

LEMMA LiteralIs == "%" \notin Literal /\ "nl" \notin Literal /\ Literal \subseteq Char
  BY DEF Literal, Alpha, Allowed, ExpOnly, Digit, Delim, Char

\* Nothing is derived from a character on that is no literal and in no macro.
LEMMA Gap ==
  ASSUME NEW s \in Seq(Char), NEW lit, NEW p \in 1..(Len(s) + 1), NoneAcross(s, lit, p),
         NEW x \in p..Len(s), NEW y \in 0..Len(s), s[x] \notin lit,
         \A a \in p..x, n \in x..y : ~MacroExpand(s, a, n)
  PROVE  \A n \in x..y : n \notin Derived(s, lit)
  <1> DEFINE S == {n \in x..y : n \in Derived(s, lit)}
  <1>1. SUFFICES ASSUME S # {} PROVE FALSE
    OBVIOUS
  <1>2. PICK n \in S : \A m \in S : n <= m
    <2>1. S \subseteq Nat
      OBVIOUS
    <2>. HIDE DEF S
    <2>. QED
      BY <1>1, <2>1, LeastNumber
  <1>3. n \in x..y /\ n \in 0..Len(s) /\ n \in 1..Len(s) /\ n # 0
    BY <1>2
  <1>4. \A m \in x..y : m < n => m \notin Derived(s, lit)
    BY <1>2
  <1>5. \/ s[n] \in lit /\ n - 1 \in Derived(s, lit)
        \/ \E i \in 0..(n - 1) : MacroExpand(s, i + 1, n) /\ i \in Derived(s, lit)
    <2>1. n \in Derived(s, lit)
      BY <1>2
    <2>. HIDE DEF S
    <2>. QED
      BY <1>3, <2>1, DerivedIs
  <1>6. CASE s[n] \in lit /\ n - 1 \in Derived(s, lit)
    <2>1. n # x
      BY <1>6
    <2>2. n - 1 \in x..y /\ n - 1 < n
      BY <1>3, <2>1
    <2>. QED
      BY <1>4, <1>6, <2>2
  <1>7. ASSUME NEW i \in 0..(n - 1), MacroExpand(s, i + 1, n), i \in Derived(s, lit)
        PROVE  FALSE
    <2>1. ~(i \in x..y)
      BY <1>3, <1>4, <1>7
    <2>2. i + 1 <= x
      BY <1>3, <2>1
    <2>3. CASE i + 1 >= p
      <3>1. i + 1 \in p..x
        BY <2>2, <2>3
      <3>. QED
        BY <1>3, <1>7, <3>1
    <2>4. CASE ~(i + 1 >= p)
      <3>1. i < p - 1
        BY <2>4
      <3>2. n <= p - 1
        BY <1>3, <1>7, <3>1 DEF NoneAcross
      <3>. QED
        BY <1>3, <3>2
    <2>. QED
      BY <2>3, <2>4
  <1>. QED
    BY <1>5, <1>6, <1>7

\* Literals are derived one after the other.
LEMMA Chain ==
  ASSUME NEW s \in Seq(Char), NEW lit, NEW p \in 1..(Len(s) + 1), NEW m \in 0..Len(s),
         p - 1 \in Derived(s, lit), \A x \in p..m : s[x] \in lit
  PROVE  \A n \in (p - 1)..m : n \in Derived(s, lit)
  <1> DEFINE S == {n \in (p - 1)..m : n \notin Derived(s, lit)}
  <1>1. SUFFICES ASSUME S # {} PROVE FALSE
    OBVIOUS
  <1>2. PICK n \in S : \A k \in S : n <= k
    <2>1. S \subseteq Nat
      OBVIOUS
    <2>. HIDE DEF S
    <2>. QED
      BY <1>1, <2>1, LeastNumber
  <1>3. n # p - 1
    BY <1>2
  <1>4. n \in p..m /\ n - 1 \in (p - 1)..m /\ n - 1 < n /\ n > 0 /\ n \in 0..Len(s)
    BY <1>2, <1>3
  <1>5. n - 1 \in Derived(s, lit)
    BY <1>2, <1>4
  <1>6. n \in Derived(s, lit)
    <2>1. s[n] \in lit
      BY <1>4
    <2>. HIDE DEF S
    <2>. QED
      BY <1>4, <1>5, <2>1, DerivedIs
  <1>. QED
    BY <1>2, <1>6

-----------------------------------------------------------------------------
(***************************************************************************)
(* One turn of the scan at p.                                              *)
(***************************************************************************)
\* If the turn at p rejects the text, no derivation is left.
LEMMA TurnFails ==
  ASSUME NEW s \in Seq(Char), NEW p \in 1..(Len(s) + 1), NoneAcross(s, Literal, p),
         NEW i, i = NextPercent(s, p),
         ~LiteralOk(s, p, i) \/ (i <= Len(s) /\ ~MacroExpand(s, i, MatchEnd(s, i)))
  PROVE  Len(s) \notin Derived(s, Literal)
  <1>1. /\ i \in p..(Len(s) + 1) /\ \A x \in p..(i - 1) : s[x] # "%"
        /\ i <= Len(s) => s[i] = "%"
    BY PercentIs
  <1>2. Len(s) \in 0..Len(s)
    OBVIOUS
  <1>3. CASE ~LiteralOk(s, p, i)
    <2>1. PICK x \in p..(i - 1) : s[x] \notin Literal
      BY <1>3 DEF LiteralOk
    <2>2. x \in p..Len(s) /\ Len(s) \in x..Len(s)
      BY <1>1, <2>1
    <2>3. \A a \in p..x : s[a] # "%"
      BY <1>1, <2>1
    <2>4. \A a \in p..x, n \in x..Len(s) : ~MacroExpand(s, a, n)
      BY <2>3, MacroStart
    <2>. QED
      BY <1>2, <2>1, <2>2, <2>4, Gap
  <1>4. CASE i <= Len(s) /\ ~MacroExpand(s, i, MatchEnd(s, i))
    <2>1. i \in p..Len(s) /\ i \in 1..Len(s) /\ Len(s) \in i..Len(s) /\ s[i] \notin Literal
      BY <1>1, <1>4, LiteralIs
    <2>2. ASSUME NEW a \in p..i, NEW n \in i..Len(s), MacroExpand(s, a, n) PROVE FALSE
      <3>1. s[a] = "%"
        BY <2>2, MacroStart
      <3>2. a = i
        BY <1>1, <2>1, <3>1
      <3>3. n = MatchEnd(s, i)
        BY <2>1, <2>2, <3>2, MacroStart, MatchIs
      <3>. QED
        BY <1>4, <2>2, <3>2, <3>3
    <2>. QED
      BY <1>2, <2>1, <2>2, Gap
  <1>. QED
    BY <1>3, <1>4

\* Without a line feed, LITERAL_OK takes literals.
LEMMA LiteralsOnly ==
  ASSUME NEW s \in Seq(Char), NEW p \in 1..(Len(s) + 1), NEW i \in p..(Len(s) + 1),
         LiteralOk(s, p, i), ~LineFeed(s)
  PROVE  \A x \in p..(i - 1) : s[x] \in Literal
  <1>1. \A x \in p..(i - 1) : x \in 1..Len(s)
    OBVIOUS
  <1>. QED
    BY <1>1 DEF LiteralOk, LineFeed

\* If it takes a macro, the scan keeps up with the derivations.
LEMMA TurnPasses ==
  ASSUME NEW s \in Seq(Char), NEW p \in 1..(Len(s) + 1), NoneAcross(s, Literal, p),
         NEW i, i = NextPercent(s, p), i <= Len(s),
         NEW j, j = MatchEnd(s, i), MacroExpand(s, i, j), LiteralOk(s, p, i)
  PROVE  /\ j + 1 \in 1..(Len(s) + 1)
         /\ NoneAcross(s, Literal, j + 1)
         /\ ~LineFeed(s) /\ Reached(s, Literal, p) => Reached(s, Literal, j + 1)
  <1>1. /\ i \in p..(Len(s) + 1) /\ \A x \in p..(i - 1) : s[x] # "%"
        /\ s[i] = "%"
    BY PercentIs
  <1>2. i \in 1..Len(s) /\ i \in p..Len(s) /\ s[i] \notin Literal
    BY <1>1, LiteralIs
  <1>3. /\ j \in i..Len(s) /\ j \in 1..Len(s)
        /\ \A n \in 1..Len(s) : MacroExpand(s, i, n) => n = j /\ n > i
    <2>1. j \in i..Len(s)
      BY <1>2, MatchIs
    <2>. QED
      BY <1>2, <2>1, MacroStart, MatchIs
  <1>4. j > i
    BY <1>3
  <1>5. \A n \in i..(j - 1) : n \notin Derived(s, Literal)
    <2>1. ASSUME NEW a \in p..i, NEW n \in i..(j - 1), MacroExpand(s, a, n) PROVE FALSE
      <3>1. s[a] = "%"
        BY <2>1, MacroStart
      <3>2. a = i /\ n \in 1..Len(s)
        BY <1>1, <1>2, <1>3, <3>1
      <3>3. n = j
        BY <1>3, <2>1, <3>2
      <3>. QED
        BY <1>3, <3>3
    <2>2. j - 1 \in 0..Len(s)
      BY <1>3
    <2>. QED
      BY <1>2, <2>1, <2>2, Gap
  <1>6. NoneAcross(s, Literal, j + 1)
    <2>1. SUFFICES ASSUME NEW k \in Derived(s, Literal), NEW e \in 1..Len(s),
                          k < (j + 1) - 1, MacroExpand(s, k + 1, e)
                   PROVE  e <= (j + 1) - 1
      BY DEF NoneAcross
    <2>2. k \in 0..Len(s) /\ k < j
      BY <1>3, <2>1, DerivedIs
    <2>3. ~(k \in i..(j - 1))
      BY <1>5
    <2>4. k < i
      BY <1>2, <1>3, <2>2, <2>3
    <2>5. CASE k < p - 1
      <3>1. e <= p - 1
        BY <2>1, <2>5 DEF NoneAcross
      <3>. QED
        BY <1>2, <1>3, <3>1
    <2>6. CASE ~(k < p - 1)
      <3>1. k + 1 \in p..i
        BY <1>2, <2>2, <2>4, <2>6
      <3>2. s[k + 1] = "%"
        BY <2>1, MacroStart
      <3>3. k + 1 = i
        BY <1>1, <1>2, <3>1, <3>2
      <3>4. e = j
        BY <1>3, <2>1, <3>3
      <3>. QED
        BY <1>3, <3>4
    <2>. QED
      BY <2>5, <2>6
  <1>7. ASSUME ~LineFeed(s), Reached(s, Literal, p) PROVE Reached(s, Literal, j + 1)
    <2>1. \A n \in (p - 1)..(i - 1) : n \in Derived(s, Literal)
      <3>1. \A x \in p..(i - 1) : s[x] \in Literal
        BY <1>1, <1>7, LiteralsOnly
      <3>2. i - 1 \in 0..Len(s) /\ p - 1 \in Derived(s, Literal)
        BY <1>2, <1>7 DEF Reached
      <3>. QED
        BY <3>1, <3>2, Chain
    <2>2. i - 1 \in Derived(s, Literal) /\ (i - 1) + 1 = i
      BY <1>2, <2>1
    <2>3. j \in Derived(s, Literal)
      <3>1. j \in 0..Len(s) /\ i - 1 \in 0..(j - 1)
        BY <1>2, <1>3
      <3>. QED
        BY <2>2, <3>1, DerivedIs
    <2>4. ASSUME NEW n \in 0..((j + 1) - 1)
          PROVE  \/ n \in Derived(s, Literal)
                 \/ \E k \in Derived(s, Literal), e \in 1..Len(s) :
                      k < n /\ n < e /\ MacroExpand(s, k + 1, e)
      <3>1. CASE n \in 0..(p - 1)
        BY <1>7, <3>1 DEF Reached
      <3>2. CASE n \in (p - 1)..(i - 1)
        BY <2>1, <3>2
      <3>3. CASE n \in i..(j - 1)
        <4>1. i - 1 < n /\ n < j
          BY <1>2, <1>3, <3>3
        <4>. QED
          BY <1>3, <2>2, <4>1
      <3>4. CASE n = j
        BY <2>3, <3>4
      <3>. QED
        BY <1>2, <1>3, <3>1, <3>2, <3>3, <3>4
    <2>5. (j + 1) - 1 = j
      BY <1>3
    <2>. QED
      BY <2>3, <2>4, <2>5 DEF Reached
  <1>8. j + 1 \in 1..(Len(s) + 1)
    BY <1>3
  <1>. QED
    BY <1>6, <1>7, <1>8

\* If it is the last one, the text is derived.
LEMMA TurnEnds ==
  ASSUME NEW s \in Seq(Char), NEW p \in 1..(Len(s) + 1),
         NEW i, i = NextPercent(s, p), i > Len(s),
         LiteralOk(s, p, i), ~LineFeed(s), Reached(s, Literal, p)
  PROVE  Reached(s, Literal, Len(s) + 1)
  <1>1. i = Len(s) + 1
    BY PercentIs
  <1>2. \A x \in p..(i - 1) : s[x] \in Literal
    BY <1>1, LiteralsOnly
  <1>3. \A n \in (p - 1)..Len(s) : n \in Derived(s, Literal)
    <2>1. p - 1 \in Derived(s, Literal) /\ i - 1 = Len(s) /\ Len(s) \in 0..Len(s)
      BY <1>1 DEF Reached
    <2>. QED
      BY <1>2, <2>1, Chain
  <1>4. ASSUME NEW n \in 0..((Len(s) + 1) - 1)
        PROVE  \/ n \in Derived(s, Literal)
               \/ \E k \in Derived(s, Literal), e \in 1..Len(s) :
                    k < n /\ n < e /\ MacroExpand(s, k + 1, e)
    <2>1. CASE n \in 0..(p - 1)
      BY <2>1 DEF Reached
    <2>2. CASE n \in (p - 1)..Len(s)
      BY <1>3, <2>2
    <2>. QED
      BY <2>1, <2>2
  <1>5. (Len(s) + 1) - 1 = Len(s) /\ Len(s) \in (p - 1)..Len(s)
    OBVIOUS
  <1>. QED
    BY <1>3, <1>4, <1>5 DEF Reached

-----------------------------------------------------------------------------
(***************************************************************************)
(* The two copies of what a macro must be, and the grammar's.              *)
(***************************************************************************)
LEMMA ValidatedIsLegal ==
  ASSUME NEW b
  PROVE  Validated(b) <=> LegalBody(b)
  <1>1. b[1] \in Allowed \cup (IF is_exp THEN ExpOnly ELSE {})
          <=> b[1] \in IF is_exp THEN Allowed \cup ExpOnly ELSE Allowed
    OBVIOUS
  <1>2. ~Zero(b) <=> ((\E x \in 2..Len(b) : b[x] \in Digit)
                        => \E x \in 2..Len(b) : b[x] \in Digit \ {"0"})
    BY DEF Zero
  <1>. QED
    BY <1>1, <1>2 DEF Validated, LegalBody

LEMMA ExpandedIs ==
  ASSUME NEW b
  PROVE  /\ is_exp = TRUE => (Expanded(b) <=> Validated(b))
         /\ is_exp = FALSE /\ Validated(b) => Expanded(b)
  BY DEF Expanded, Validated, Allowed, ExpOnly

\* The branches of Scan() at pos.
Percent == NextPercent(text, pos)
EndOf   == MatchEnd(text, Percent)
Taken(takes) ==
  \/ Percent < Len(text) /\ IsEscape(text, Percent, EndOf)
  \/ Percent < EndOf /\ IsMacro(text, Percent, EndOf) /\ takes

LEMMA ScanIs ==
  ASSUME NEW takes, NEW fails, NEW passes
  PROVE  Scan(takes, fails, passes) <=>
           \/ /\ LiteralOk(text, pos, Percent) /\ Percent <= Len(text) /\ Taken(takes)
              /\ pos' = EndOf + 1
              /\ UNCHANGED <<text, pc, is_exp>>
           \/ /\ LiteralOk(text, pos, Percent) /\ Percent > Len(text)
              /\ pos' = 1 /\ pc' = passes
              /\ UNCHANGED <<text, is_exp>>
           \/ /\ ~LiteralOk(text, pos, Percent) \/ (Percent <= Len(text) /\ ~Taken(takes))
              /\ pc' = fails
              /\ UNCHANGED <<text, pos, is_exp>>
  BY DEF Scan, Taken, Percent, EndOf

LEMMA TakenIs ==
  ASSUME text \in Seq(Char), pos \in 1..(Len(text) + 1), Percent <= Len(text)
  PROVE  Taken(LegalBody(NextBody)) <=> MacroExpand(text, Percent, EndOf)
  <1>1. Percent \in 1..Len(text)
    BY PercentIs DEF Percent
  <1>2. EndOf \in Percent..Len(text)
    BY <1>1, MatchIs DEF EndOf
  <1>3. PICK i \in 1..Len(text), j \in 1..Len(text) : i = Percent /\ j = EndOf
    BY <1>1, <1>2
  <1>4. NextBody = SubSeq(text, i + 2, j - 1)
    BY <1>3 DEF NextBody, Percent, EndOf
  <1>5. IsEscape(text, i, j) => i < Len(text)
    <2>1. IsEscape(text, i, j) => j > i
      BY EndAfter
    <2>. QED
      BY <2>1
  <1>6. IsMacro(text, i, j) => i < j
    <2>1. IsMacro(text, i, j) => j > i
      BY EndAfter
    <2>. QED
      BY <2>1
  <1>. QED
    BY <1>3, <1>4, <1>5, <1>6 DEF Taken, MacroExpand

\* What a turn at p asks of the text, if the macro in it must be legal.
TurnOk(p) ==
  /\ LiteralOk(text, p, NextPercent(text, p))
  /\ NextPercent(text, p) <= Len(text) =>
       MacroExpand(text, NextPercent(text, p), MatchEnd(text, NextPercent(text, p)))

\* A turn of validate_macro_string(), and one of expand() on an exp= text.
LEMMA StrictTurn ==
  ASSUME text \in Seq(Char), pos \in 1..(Len(text) + 1), NEW takes, NEW fails, NEW passes,
         takes <=> LegalBody(NextBody), Scan(takes, fails, passes)
  PROVE  /\ UNCHANGED <<text, is_exp>>
         /\ \/ /\ TurnOk(pos) /\ Percent <= Len(text) /\ MacroExpand(text, Percent, EndOf)
               /\ LiteralOk(text, pos, Percent)
               /\ pos' = EndOf + 1 /\ pc' = pc
            \/ /\ TurnOk(pos) /\ Percent > Len(text) /\ LiteralOk(text, pos, Percent)
               /\ pos' = 1 /\ pc' = passes
            \/ /\ \/ ~LiteralOk(text, pos, Percent)
                  \/ Percent <= Len(text) /\ ~MacroExpand(text, Percent, EndOf)
               /\ pos' = pos /\ pc' = fails
  <1>1. Percent \in Nat
    BY PercentIs DEF Percent
  <1>2. Taken(takes) <=> Taken(LegalBody(NextBody))
    BY DEF Taken
  <1>3. Percent <= Len(text) => (Taken(takes) <=> MacroExpand(text, Percent, EndOf))
    BY <1>2, TakenIs
  <1>4. TurnOk(pos) <=> /\ LiteralOk(text, pos, Percent)
                        /\ Percent <= Len(text) => MacroExpand(text, Percent, EndOf)
    BY DEF TurnOk, Percent, EndOf
  <1>5. CASE /\ LiteralOk(text, pos, Percent) /\ Percent <= Len(text) /\ Taken(takes)
             /\ pos' = EndOf + 1
             /\ UNCHANGED <<text, pc, is_exp>>
    BY <1>3, <1>4, <1>5
  <1>6. CASE /\ LiteralOk(text, pos, Percent) /\ Percent > Len(text)
             /\ pos' = 1 /\ pc' = passes
             /\ UNCHANGED <<text, is_exp>>
    <2>1. ~(Percent <= Len(text))
      BY <1>1, <1>6
    <2>. QED
      BY <1>4, <1>6, <2>1
  <1>7. CASE /\ ~LiteralOk(text, pos, Percent) \/ (Percent <= Len(text) /\ ~Taken(takes))
             /\ pc' = fails
             /\ UNCHANGED <<text, pos, is_exp>>
    BY <1>3, <1>7
  <1>. QED
    BY <1>5, <1>6, <1>7, ScanIs

-----------------------------------------------------------------------------
(***************************************************************************)
(* The invariants of the two scans.                                        *)
(***************************************************************************)
StrType ==
  /\ text \in Seq(Char) /\ pos \in 1..(Len(text) + 1) /\ is_exp \in BOOLEAN
  /\ pc \in {"validate", "check", "rejected", "returned"} => ~is_exp
  /\ pc \in {"filter", "given", "dropped"} => is_exp

\* A domain-spec: P holds the positions of the scan of validate_macro_string(),
\* which that of expand() follows.
SpecInv ==
  /\ ~is_exp => pc # "raised"
  /\ ~is_exp /\ pc \in {"validate", "check", "expand"} =>
       \E P : /\ 1 \in P /\ pos \in P
              /\ \A p \in IF pc = "validate" THEN P \ {pos} ELSE P :
                   /\ TurnOk(p)
                   /\ NextPercent(text, p) <= Len(text)
                        => MatchEnd(text, NextPercent(text, p)) + 1 \in P

LEMMA StrInitInv == StrInit => StrType /\ SpecInv
  <1>. SUFFICES ASSUME StrInit PROVE StrType /\ SpecInv
    OBVIOUS
  <1>1. text \in Seq(Char)
    BY MacroStringAssumption DEF StrInit
  <1>2. StrType
    <2>1. 1 \in 1..(Len(text) + 1)
      BY <1>1
    <2>. QED
      BY <1>1, <2>1 DEF StrInit, StrType
  <1>3. SpecInv
    <2>1. 1 \in {1} /\ pos \in {1} /\ {1} \ {pos} = {}
      BY DEF StrInit
    <2>. QED
      BY <2>1 DEF StrInit, SpecInv
  <1>. QED
    BY <1>2, <1>3

LEMMA NextPosition ==
  ASSUME StrType, Percent <= Len(text), MacroExpand(text, Percent, EndOf)
  PROVE  EndOf + 1 \in 1..(Len(text) + 1)
  <1>1. Percent \in 1..Len(text)
    BY PercentIs DEF Percent, StrType
  <1>2. EndOf \in Percent..Len(text)
    BY <1>1, MatchIs DEF EndOf, StrType
  <1>. QED
    BY <1>1, <1>2

\* The turns of expand() as StrictTurn: on an exp= text, and on a domain-spec
\* whose turn here was made before by validate_macro_string().
LEMMA ExpandTurn ==
  ASSUME StrType, Expand
  PROVE  /\ is_exp => Scan(LegalBody(NextBody), "raised", "filter")
         /\ ~is_exp /\ TurnOk(pos) => Scan(LegalBody(NextBody), "raised", "returned")
  <1>1. Scan(Expanded(NextBody), "raised", IF is_exp THEN "filter" ELSE "returned")
    BY DEF Expand
  <1>2. ASSUME is_exp PROVE Expanded(NextBody) <=> LegalBody(NextBody)
    BY <1>2, ExpandedIs, ValidatedIsLegal DEF StrType
  <1>3. ASSUME ~is_exp, TurnOk(pos), Percent <= Len(text)
        PROVE  Taken(Expanded(NextBody)) /\ Taken(LegalBody(NextBody))
    <2>1. Taken(LegalBody(NextBody))
      BY <1>3, TakenIs DEF TurnOk, Percent, EndOf, StrType
    <2>2. LegalBody(NextBody) => Expanded(NextBody)
      BY <1>3, ExpandedIs, ValidatedIsLegal DEF StrType
    <2>. QED
      BY <2>1, <2>2 DEF Taken
  <1>4. ASSUME is_exp PROVE Scan(LegalBody(NextBody), "raised", "filter")
    <2>1. Taken(Expanded(NextBody)) <=> Taken(LegalBody(NextBody))
      BY <1>2, <1>4 DEF Taken
    <2>. QED
      BY <1>1, <1>4, <2>1, ScanIs
  <1>5. ASSUME ~is_exp, TurnOk(pos) PROVE Scan(LegalBody(NextBody), "raised", "returned")
    <2>1. Percent <= Len(text) => (Taken(Expanded(NextBody)) <=> Taken(LegalBody(NextBody)))
      BY <1>3, <1>5
    <2>. QED
      BY <1>1, <1>5, <2>1, ScanIs
  <1>. QED
    BY <1>4, <1>5

LEMMA StrStep == StrType /\ SpecInv /\ [StrNext]_strVars => StrType' /\ SpecInv'
  <1>. SUFFICES ASSUME StrType, SpecInv, [StrNext]_strVars PROVE StrType' /\ SpecInv'
    OBVIOUS
  <1>1. text \in Seq(Char) /\ pos \in 1..(Len(text) + 1) /\ 1 \in 1..(Len(text) + 1)
    BY DEF StrType
  <1>2. ASSUME Validate PROVE StrType' /\ SpecInv'
    <2>1. pc = "validate" /\ ~is_exp
      BY <1>2 DEF Validate, StrType
    <2>2. /\ UNCHANGED <<text, is_exp>>
          /\ \/ /\ TurnOk(pos) /\ Percent <= Len(text) /\ MacroExpand(text, Percent, EndOf)
                /\ pos' = EndOf + 1 /\ pc' = pc
             \/ /\ TurnOk(pos) /\ Percent > Len(text)
                /\ pos' = 1 /\ pc' = "check"
             \/ /\ pos' = pos /\ pc' = "rejected"
      <3>1. Scan(Validated(NextBody), "rejected", "check")
        BY <1>2 DEF Validate
      <3>2. Validated(NextBody) <=> LegalBody(NextBody)
        BY ValidatedIsLegal
      <3>. QED
        BY <1>1, <3>1, <3>2, StrictTurn
    <2>3. StrType'
      BY <1>1, <2>1, <2>2, NextPosition DEF StrType
    <2>4. PICK P : /\ 1 \in P /\ pos \in P
                   /\ \A p \in P \ {pos} :
                        /\ TurnOk(p)
                        /\ NextPercent(text, p) <= Len(text)
                             => MatchEnd(text, NextPercent(text, p)) + 1 \in P
      BY <2>1 DEF SpecInv
    <2>5. \A p : TurnOk(p)' <=> TurnOk(p)
      BY <2>2 DEF TurnOk, MacroExpand, LegalBody
    <2>6. CASE /\ TurnOk(pos) /\ Percent <= Len(text)
               /\ pos' = EndOf + 1 /\ pc' = pc
      <3> DEFINE Q == P \cup {EndOf + 1}
      <3>1. 1 \in Q /\ pos' \in Q
        BY <2>4, <2>6
      <3>2. ASSUME NEW p \in Q \ {pos'}
            PROVE  /\ TurnOk(p)
                   /\ NextPercent(text, p) <= Len(text)
                        => MatchEnd(text, NextPercent(text, p)) + 1 \in Q
        <4>1. CASE p = pos
          BY <2>6, <4>1 DEF Percent, EndOf
        <4>2. CASE p # pos
          BY <2>4, <2>6, <3>2, <4>2
        <4>. QED
          BY <4>1, <4>2
      <3>3. pc' = "validate"
        BY <2>1, <2>6
      <3>. QED
        BY <2>2, <2>3, <2>5, <3>1, <3>2, <3>3 DEF SpecInv
    <2>7. CASE /\ TurnOk(pos) /\ Percent > Len(text)
               /\ pos' = 1 /\ pc' = "check"
      <3>1. ~(NextPercent(text, pos) <= Len(text))
        <4>1. Percent \in Nat
          BY <1>1, PercentIs DEF Percent
        <4>2. ~(Percent <= Len(text))
          BY <2>7, <4>1
        <4>. QED
          BY <4>2 DEF Percent
      <3>2. ASSUME NEW p \in P
            PROVE  /\ TurnOk(p)
                   /\ NextPercent(text, p) <= Len(text)
                        => MatchEnd(text, NextPercent(text, p)) + 1 \in P
        BY <2>4, <2>7, <3>1
      <3>. QED
        BY <2>2, <2>3, <2>4, <2>5, <2>7, <3>2 DEF SpecInv
    <2>8. CASE pos' = pos /\ pc' = "rejected"
      BY <2>2, <2>3, <2>8 DEF SpecInv
    <2>. QED
      BY <2>2, <2>6, <2>7, <2>8
  <1>3. ASSUME CheckSpec PROVE StrType' /\ SpecInv'
    <2>1. /\ pc = "check" /\ ~is_exp /\ pc' \in {"expand", "rejected"}
          /\ UNCHANGED <<text, pos, is_exp>>
      BY <1>3 DEF CheckSpec, StrType
    <2>2. \A p : TurnOk(p)' <=> TurnOk(p)
      BY <2>1 DEF TurnOk, MacroExpand, LegalBody
    <2>3. StrType'
      BY <1>1, <2>1 DEF StrType
    <2>4. PICK P : /\ 1 \in P /\ pos \in P
                   /\ \A p \in P :
                        /\ TurnOk(p)
                        /\ NextPercent(text, p) <= Len(text)
                             => MatchEnd(text, NextPercent(text, p)) + 1 \in P
      BY <2>1 DEF SpecInv
    <2>. QED
      BY <2>1, <2>2, <2>3, <2>4 DEF SpecInv
  <1>4. ASSUME Expand, ~is_exp PROVE StrType' /\ SpecInv'
    <2>1. pc = "expand"
      BY <1>4 DEF Expand
    <2>2. PICK P : /\ 1 \in P /\ pos \in P
                   /\ \A p \in P :
                        /\ TurnOk(p)
                        /\ NextPercent(text, p) <= Len(text)
                             => MatchEnd(text, NextPercent(text, p)) + 1 \in P
      BY <1>4, <2>1 DEF SpecInv
    <2>3. /\ UNCHANGED <<text, is_exp>>
          /\ \/ /\ Percent <= Len(text) /\ MacroExpand(text, Percent, EndOf)
                /\ pos' = EndOf + 1 /\ pc' = pc
             \/ pos' = 1 /\ pc' = "returned"
      <3>1. TurnOk(pos)
        BY <2>2
      <3>2. Scan(LegalBody(NextBody), "raised", "returned")
        BY <1>4, <3>1, ExpandTurn
      <3>3. /\ LiteralOk(text, pos, Percent)
            /\ Percent <= Len(text) => MacroExpand(text, Percent, EndOf)
        BY <3>1 DEF TurnOk, Percent, EndOf
      <3>. QED
        BY <1>1, <3>2, <3>3, StrictTurn
    <2>4. StrType'
      BY <1>1, <1>4, <2>1, <2>3, NextPosition DEF StrType
    <2>5. \A p : TurnOk(p)' <=> TurnOk(p)
      BY <2>3 DEF TurnOk, MacroExpand, LegalBody
    <2>6. CASE Percent <= Len(text) /\ pos' = EndOf + 1 /\ pc' = pc
      <3>1. pos' \in P
        BY <2>2, <2>6 DEF Percent, EndOf
      <3>. QED
        BY <2>1, <2>2, <2>3, <2>4, <2>5, <2>6, <3>1 DEF SpecInv
    <2>7. CASE pos' = 1 /\ pc' = "returned"
      BY <2>3, <2>4, <2>7 DEF SpecInv
    <2>. QED
      BY <2>3, <2>6, <2>7
  <1>5. ASSUME Expand, is_exp PROVE StrType' /\ SpecInv'
    <2>1. pc = "expand"
      BY <1>5 DEF Expand
    <2>2. Scan(LegalBody(NextBody), "raised", "filter")
      BY <1>5, ExpandTurn
    <2>3. /\ UNCHANGED <<text, is_exp>>
          /\ \/ /\ Percent <= Len(text) /\ MacroExpand(text, Percent, EndOf)
                /\ pos' = EndOf + 1 /\ pc' = pc
             \/ pos' = 1 /\ pc' = "filter"
             \/ pos' = pos /\ pc' = "raised"
      BY <1>1, <2>2, StrictTurn
    <2>. QED
      BY <1>1, <1>5, <2>1, <2>3, NextPosition DEF StrType, SpecInv
  <1>6. ASSUME Filter PROVE StrType' /\ SpecInv'
    BY <1>6 DEF Filter, StrType, SpecInv
  <1>7. ASSUME UNCHANGED strVars PROVE StrType' /\ SpecInv'
    <2>1. \A p : TurnOk(p)' <=> TurnOk(p)
      BY <1>7 DEF strVars, TurnOk, MacroExpand, LegalBody
    <2>. QED
      BY <1>7, <2>1 DEF strVars, StrType, SpecInv
  <1>. QED
    BY <1>2, <1>3, <1>4, <1>5, <1>6, <1>7 DEF StrNext

LEMMA StrInvariant == StrSpec => [](StrType /\ SpecInv)
  BY StrInitInv, StrStep, PTL DEF StrSpec

\* expand() never raises on a domain-spec that validate_macro_string() has
\* passed: the two loops of macros.py take the same macros.
THEOREM MacroValidatedExpands == StrSpec => []ValidatedExpands
  <1>1. SpecInv => ValidatedExpands
    BY DEF SpecInv, ValidatedExpands
  <1>. QED
    BY StrInvariant, <1>1, PTL

-----------------------------------------------------------------------------
(***************************************************************************)
(* The scans follow the grammar of RFC 7208.                               *)
(***************************************************************************)
\* How far the scan has come in a derivation of the text, and what its end says.
ScanInv ==
  pc = "validate" \/ (pc = "expand" /\ is_exp)
    => /\ NoneAcross(text, Literal, pos)
       /\ ~LineFeed(text) => Reached(text, Literal, pos)

Whole == ~LineFeed(text) => Reached(text, Literal, Len(text) + 1)

EndInv ==
  /\ pc \in {"check", "filter", "given", "dropped"} => Whole
  /\ ~is_exp /\ pc \in {"expand", "returned"} => Whole /\ SpecOk(text)
  /\ pc = "rejected" => Len(text) \notin Derived(text, Literal) \/ ~SpecOk(text)
  /\ is_exp /\ pc = "raised" => Len(text) \notin Derived(text, Literal)

GrammarInv == ScanInv /\ EndInv

\* What is said of the text alone stays.
LEMMA SameDerived ==
  ASSUME UNCHANGED <<text, is_exp>>
  PROVE  Derived(text, Literal)' = Derived(text, Literal)
  BY DEF Derived, MacroExpand, LegalBody, IsMacro, IsEscape

LEMMA SameGrammar ==
  ASSUME UNCHANGED <<text, is_exp>>
  PROVE  /\ UNCHANGED <<Derived(text, Literal), SpecOk(text), LineFeed(text)>>
         /\ Reached(text, Literal, pos)' <=> Reached(text, Literal, pos')
         /\ NoneAcross(text, Literal, pos)' <=> NoneAcross(text, Literal, pos')
         /\ Whole' <=> Whole
  <1>1. Derived(text, Literal)' = Derived(text, Literal)
    BY SameDerived
  <1>2. \A i, j : MacroExpand(text, i, j)' <=> MacroExpand(text, i, j)
    BY DEF MacroExpand, LegalBody
  <1>3. Reached(text, Literal, pos)' <=> Reached(text, Literal, pos')
    BY <1>1, <1>2 DEF Reached
  <1>4. NoneAcross(text, Literal, pos)' <=> NoneAcross(text, Literal, pos')
    BY <1>1, <1>2 DEF NoneAcross
  <1>5. Reached(text, Literal, Len(text) + 1)' <=> Reached(text, Literal, Len(text) + 1)
    BY <1>1, <1>2 DEF Reached
  <1>6. SpecOk(text)' = SpecOk(text) /\ LineFeed(text)' = LineFeed(text)
    BY DEF LineFeed
  <1>. QED
    BY <1>1, <1>3, <1>4, <1>5, <1>6 DEF Whole

LEMMA GrammarInit == StrInit => GrammarInv
  <1>. SUFFICES ASSUME StrInit PROVE GrammarInv
    OBVIOUS
  <1>1. text \in Seq(Char) /\ pos = 1 /\ pos - 1 = 0 /\ pc \in {"validate", "expand"}
        /\ (pc = "expand" => is_exp)
    BY StrInitInv DEF StrInit, StrType
  <1>2. 0 \in Derived(text, Literal) /\ Derived(text, Literal) \subseteq 0..Len(text)
    <2>1. 0 \in 0..Len(text)
      BY <1>1
    <2>. QED
      BY <1>1, <2>1, DerivedIs
  <1>3. NoneAcross(text, Literal, pos)
    BY <1>1, <1>2 DEF NoneAcross
  <1>4. Reached(text, Literal, pos)
    <2>1. \A n \in 0..(pos - 1) : n = 0
      BY <1>1
    <2>. QED
      BY <1>1, <1>2, <2>1 DEF Reached
  <1>. QED
    BY <1>1, <1>3, <1>4 DEF GrammarInv, ScanInv, EndInv

\* A turn that asks for legal macros, and what it does to ScanInv.
LEMMA GrammarTurn ==
  ASSUME StrType, NEW fails, NEW passes, Scan(LegalBody(NextBody), fails, passes),
         NoneAcross(text, Literal, pos), ~LineFeed(text) => Reached(text, Literal, pos)
  PROVE  /\ UNCHANGED <<text, is_exp>>
         /\ \/ /\ pc' = pc /\ NoneAcross(text, Literal, pos')
               /\ ~LineFeed(text) => Reached(text, Literal, pos')
            \/ pc' = passes /\ Whole
            \/ pc' = fails /\ Len(text) \notin Derived(text, Literal)
  <1>1. text \in Seq(Char) /\ pos \in 1..(Len(text) + 1)
    BY DEF StrType
  <1>2. /\ UNCHANGED <<text, is_exp>>
        /\ \/ /\ Percent <= Len(text) /\ MacroExpand(text, Percent, EndOf)
              /\ LiteralOk(text, pos, Percent)
              /\ pos' = EndOf + 1 /\ pc' = pc
           \/ /\ Percent > Len(text) /\ LiteralOk(text, pos, Percent)
              /\ pos' = 1 /\ pc' = passes
           \/ /\ \/ ~LiteralOk(text, pos, Percent)
                 \/ Percent <= Len(text) /\ ~MacroExpand(text, Percent, EndOf)
              /\ pos' = pos /\ pc' = fails
    BY <1>1, StrictTurn
  <1>3. PICK i, j : i = NextPercent(text, pos) /\ i = Percent /\ j = MatchEnd(text, i) /\ j = EndOf
    BY DEF Percent, EndOf
  <1>4. CASE /\ Percent <= Len(text) /\ MacroExpand(text, Percent, EndOf)
             /\ LiteralOk(text, pos, Percent)
             /\ pos' = EndOf + 1 /\ pc' = pc
    <2>1. /\ NoneAcross(text, Literal, j + 1)
          /\ ~LineFeed(text) => Reached(text, Literal, j + 1)
      BY <1>1, <1>3, <1>4, TurnPasses
    <2>. QED
      BY <1>2, <1>3, <1>4, <2>1
  <1>5. CASE /\ Percent > Len(text) /\ LiteralOk(text, pos, Percent)
             /\ pos' = 1 /\ pc' = passes
    BY <1>1, <1>2, <1>3, <1>5, TurnEnds DEF Whole
  <1>6. CASE /\ \/ ~LiteralOk(text, pos, Percent)
                \/ Percent <= Len(text) /\ ~MacroExpand(text, Percent, EndOf)
             /\ pos' = pos /\ pc' = fails
    BY <1>1, <1>2, <1>3, <1>6, TurnFails
  <1>. QED
    BY <1>2, <1>4, <1>5, <1>6

LEMMA GrammarStep ==
  StrType /\ SpecInv /\ GrammarInv /\ [StrNext]_strVars => GrammarInv'
  <1>. SUFFICES ASSUME StrType, SpecInv, GrammarInv, [StrNext]_strVars PROVE GrammarInv'
    OBVIOUS
  <1>1. ASSUME Validate PROVE GrammarInv'
    <2>1. pc = "validate" /\ is_exp = FALSE
      BY <1>1 DEF Validate, StrType
    <2>2. Scan(LegalBody(NextBody), "rejected", "check")
      <3>1. Scan(Validated(NextBody), "rejected", "check")
        BY <1>1 DEF Validate
      <3>2. Taken(Validated(NextBody)) <=> Taken(LegalBody(NextBody))
        BY ValidatedIsLegal DEF Taken
      <3>. QED
        BY <3>1, <3>2, ScanIs
    <2>3. /\ UNCHANGED <<text, is_exp>>
          /\ \/ /\ pc' = pc /\ NoneAcross(text, Literal, pos')
                /\ ~LineFeed(text) => Reached(text, Literal, pos')
             \/ pc' = "check" /\ Whole
             \/ pc' = "rejected" /\ Len(text) \notin Derived(text, Literal)
      BY <2>1, <2>2, GrammarTurn DEF GrammarInv, ScanInv
    <2>. QED
      BY <2>1, <2>3, SameGrammar DEF GrammarInv, ScanInv, EndInv
  <1>2. ASSUME CheckSpec PROVE GrammarInv'
    <2>1. /\ pc = "check" /\ is_exp = FALSE /\ UNCHANGED <<text, pos, is_exp>>
          /\ pc' = IF SpecOk(text) THEN "expand" ELSE "rejected"
      BY <1>2 DEF CheckSpec, StrType
    <2>2. Whole
      BY <2>1 DEF GrammarInv, EndInv
    <2>. QED
      BY <2>1, <2>2, SameGrammar DEF GrammarInv, ScanInv, EndInv
  <1>3. ASSUME Expand, is_exp PROVE GrammarInv'
    <2>1. pc = "expand" /\ Scan(LegalBody(NextBody), "raised", "filter")
      BY <1>3, ExpandTurn DEF Expand
    <2>2. /\ UNCHANGED <<text, is_exp>>
          /\ \/ /\ pc' = pc /\ NoneAcross(text, Literal, pos')
                /\ ~LineFeed(text) => Reached(text, Literal, pos')
             \/ pc' = "filter" /\ Whole
             \/ pc' = "raised" /\ Len(text) \notin Derived(text, Literal)
      BY <1>3, <2>1, GrammarTurn DEF GrammarInv, ScanInv
    <2>. QED
      BY <1>3, <2>1, <2>2, SameGrammar DEF GrammarInv, ScanInv, EndInv
  <1>4. ASSUME Expand, ~is_exp PROVE GrammarInv'
    <2>1. pc = "expand" /\ TurnOk(pos) /\ Whole /\ SpecOk(text)
      BY <1>4 DEF Expand, SpecInv, GrammarInv, EndInv
    <2>2. UNCHANGED <<text, is_exp>> /\ pc' \in {"expand", "returned", "raised"}
      <3>1. Scan(Expanded(NextBody), "raised", "returned")
        BY <1>4 DEF Expand
      <3>. QED
        BY <2>1, <3>1 DEF Scan
    <2>. QED
      BY <1>4, <2>1, <2>2, SameGrammar DEF GrammarInv, ScanInv, EndInv
  <1>5. ASSUME Filter PROVE GrammarInv'
    <2>1. /\ pc = "filter" /\ pc' \in {"given", "dropped"} /\ UNCHANGED <<text, is_exp>>
          /\ is_exp
      BY <1>5 DEF Filter, StrType
    <2>. QED
      BY <2>1, SameGrammar DEF GrammarInv, ScanInv, EndInv
  <1>6. ASSUME UNCHANGED strVars PROVE GrammarInv'
    <2>1. UNCHANGED <<text, pos, pc, is_exp>>
      BY <1>6 DEF strVars
    <2>. QED
      BY <2>1, SameGrammar DEF GrammarInv, ScanInv, EndInv
  <1>. QED
    BY <1>1, <1>2, <1>3, <1>4, <1>5, <1>6 DEF StrNext

LEMMA GrammarInvariant == StrSpec => [](StrType /\ GrammarInv)
  BY StrInitInv, StrStep, GrammarInit, GrammarStep, PTL DEF StrSpec

-----------------------------------------------------------------------------
\* What is derived from literals is derived from more literals.
LEMMA MoreLiterals ==
  ASSUME NEW s \in Seq(Char), NEW lit, NEW more, lit \subseteq more
  PROVE  Derived(s, lit) \subseteq Derived(s, more)
  <1> DEFINE S == {n \in 0..Len(s) : n \in Derived(s, lit) /\ n \notin Derived(s, more)}
  <1>1. SUFFICES ASSUME S # {} PROVE FALSE
    <2>1. Derived(s, lit) \subseteq 0..Len(s)
      BY DerivedIs
    <2>. QED
      BY <1>1, <2>1
  <1>2. PICK n \in S : \A k \in S : n <= k
    <2>1. S \subseteq Nat
      OBVIOUS
    <2>. HIDE DEF S
    <2>. QED
      BY <1>1, <2>1, LeastNumber
  <1>3. n \in 0..Len(s) /\ n \in Derived(s, lit) /\ n \notin Derived(s, more)
        /\ \A k \in 0..(n - 1) : k \in Derived(s, lit) => k \in Derived(s, more)
    BY <1>2
  <1>. HIDE DEF S
  <1>4. n # 0
    BY <1>3, DerivedIs
  <1>5. n - 1 \in 0..(n - 1) /\ n > 0
    BY <1>3, <1>4
  <1>6. \/ s[n] \in lit /\ n - 1 \in Derived(s, lit)
        \/ \E i \in 0..(n - 1) : MacroExpand(s, i + 1, n) /\ i \in Derived(s, lit)
    BY <1>3, <1>4, DerivedIs
  <1>7. \/ s[n] \in more /\ n - 1 \in Derived(s, more)
        \/ \E i \in 0..(n - 1) : MacroExpand(s, i + 1, n) /\ i \in Derived(s, more)
    BY <1>3, <1>5, <1>6
  <1>8. n \in Derived(s, more)
    BY <1>3, <1>5, <1>7, DerivedIs
  <1>. QED
    BY <1>3, <1>8

LEMMA WholeIs ==
  ASSUME NEW s \in Seq(Char), Reached(s, Literal, Len(s) + 1)
  PROVE  Len(s) \in Derived(s, Literal)
  <1>1. (Len(s) + 1) - 1 = Len(s)
    OBVIOUS
  <1>. QED
    BY <1>1 DEF Reached

\* An explanation that _explanation() gives was an explain-string of the
\* grammar, and expand() raises on none that is a macro-string.
THEOREM MacroGivenIsLegal == StrSpec => []GivenIsLegal
  <1>1. StrType /\ GrammarInv => GivenIsLegal
    <2>. SUFFICES ASSUME StrType, GrammarInv PROVE GivenIsLegal
      OBVIOUS
    <2>1. ASSUME pc = "given", ~LineFeed(text) PROVE IsExplainString(text)
      <3>1. text \in Seq(Char) /\ Reached(text, Literal, Len(text) + 1)
        BY <2>1 DEF StrType, GrammarInv, EndInv, Whole
      <3>2. Len(text) \in Derived(text, Literal)
        BY <3>1, WholeIs
      <3>3. Derived(text, Literal) \subseteq Derived(text, Literal \cup {"sp"})
        BY <3>1, MoreLiterals
      <3>. QED
        BY <3>2, <3>3 DEF IsExplainString
    <2>. QED
      BY <2>1 DEF GivenIsLegal, GrammarInv, EndInv
  <1>. QED
    BY GrammarInvariant, <1>1, PTL

-----------------------------------------------------------------------------
(***************************************************************************)
(* _validate_domain_spec() and domain-end.                                 *)
(***************************************************************************)
\* The text without its final dot.
LEMMA BodyIs ==
  ASSUME NEW s \in Seq(Char)
  PROVE  /\ Body(s) \in Seq(Char) /\ Len(Body(s)) <= Len(s)
         /\ \A i \in 1..Len(Body(s)) : Body(s)[i] = s[i]
         /\ \/ Body(s) = s
            \/ s # <<>> /\ s[Len(s)] = "." /\ Len(Body(s)) = Len(s) - 1
  <1>1. CASE s # <<>> /\ s[Len(s)] = "."
    <2>1. Len(s) \in Nat /\ Len(s) # 0
      BY <1>1, EmptySeq
    <2>2. Body(s) = SubSeq(s, 1, Len(s) - 1)
      BY <1>1 DEF Body
    <2>3. CASE Len(s) = 1
      <3>1. Body(s) = << >>
        BY <2>2, <2>3, SubSeqEmpty
      <3>2. Body(s) \in Seq(Char) /\ Len(Body(s)) = 0
        BY <3>1, EmptySeq
      <3>3. \A i \in 1..Len(Body(s)) : Body(s)[i] = s[i]
        <4>1. 1..Len(Body(s)) = {}
          BY <3>2
        <4>. QED
          BY <4>1
      <3>4. Len(Body(s)) <= Len(s) /\ Len(Body(s)) = Len(s) - 1
        BY <2>3, <3>2
      <3>. QED
        BY <1>1, <3>2, <3>3, <3>4
    <2>4. CASE Len(s) > 1
      <3>1. 1 \in 1..Len(s) /\ Len(s) - 1 \in 1..Len(s)
        BY <2>1, <2>4
      <3>2. /\ Body(s) \in Seq(Char) /\ Len(Body(s)) = (Len(s) - 1) - 1 + 1
            /\ \A i \in 1..((Len(s) - 1) - 1 + 1) : Body(s)[i] = s[1 + i - 1]
        BY <2>2, <3>1, SubSeqProperties
      <3>3. (Len(s) - 1) - 1 + 1 = Len(s) - 1 /\ \A i \in Nat : 1 + i - 1 = i
        BY <2>1
      <3>. QED
        BY <1>1, <2>1, <3>2, <3>3
    <2>5. Len(s) = 1 \/ Len(s) > 1
      <3>1. \A n \in Nat : n # 0 => n = 1 \/ n > 1
        OBVIOUS
      <3>. QED
        BY <2>1, <3>1
    <2>. QED
      BY <2>3, <2>4, <2>5
  <1>2. CASE ~(s # <<>> /\ s[Len(s)] = ".")
    BY <1>2 DEF Body
  <1>. QED
    BY <1>1, <1>2

\* A macro-expand is one in every text that begins alike.
LEMMA PrefixMacro ==
  ASSUME NEW s \in Seq(Char), NEW b \in Seq(Char), Len(b) <= Len(s),
         \A i \in 1..Len(b) : b[i] = s[i],
         NEW i \in 1..Len(b), NEW j \in 1..Len(b), MacroExpand(b, i, j)
  PROVE  MacroExpand(s, i, j)
  <1>1. b[i] = s[i] /\ b[j] = s[j] /\ i \in 1..Len(s) /\ j \in 1..Len(s)
    OBVIOUS
  <1>2. CASE IsEscape(b, i, j)
    BY <1>1, <1>2 DEF IsEscape, MacroExpand
  <1>3. CASE IsMacro(b, i, j)
    <2>1. j > i + 2 /\ b[i + 1] = s[i + 1]
      <3>1. j > i + 2
        BY <1>3 DEF IsMacro
      <3>. QED
        BY <3>1
    <2>2. SubSeq(b, i + 2, j - 1) = SubSeq(s, i + 2, j - 1)
      <3>1. PICK u, v : u = SubSeq(b, i + 2, j - 1) /\ v = SubSeq(s, i + 2, j - 1)
        OBVIOUS
      <3>2. /\ u \in Seq(Char) /\ Len(u) = j - i - 2
            /\ v \in Seq(Char) /\ Len(v) = j - i - 2
            /\ \A x \in (i + 2)..(j - 1) : u[x - i - 1] = b[x] /\ v[x - i - 1] = s[x]
        BY <1>1, <2>1, <3>1, BodySeq
      <3>3. ASSUME NEW y \in 1..(j - i - 2) PROVE u[y] = v[y]
        <4>1. PICK x \in (i + 2)..(j - 1) : x = y + i + 1
          BY <2>1
        <4>2. y = x - i - 1 /\ x \in 1..Len(b)
          BY <4>1
        <4>. QED
          BY <3>2, <4>2
      <3>4. u = v
        BY <3>2, <3>3, SeqEqual
      <3>. QED
        BY <3>1, <3>4
    <2>3. LegalBody(SubSeq(s, i + 2, j - 1))
      <3>1. IsEscape(b, i, j) => j = i + 1
        BY DEF IsEscape
      <3>2. ~IsEscape(b, i, j)
        BY <2>1, <3>1
      <3>. QED
        BY <2>2, <3>2 DEF MacroExpand
    <2>. QED
      BY <1>1, <1>3, <2>1, <2>2, <2>3 DEF IsMacro, MacroExpand
  <1>. QED
    BY <1>2, <1>3 DEF MacroExpand

\* So is what is derived.
LEMMA PrefixDerived ==
  ASSUME NEW s \in Seq(Char), NEW b \in Seq(Char), Len(b) <= Len(s),
         \A i \in 1..Len(b) : b[i] = s[i]
  PROVE  Derived(b, Literal) \subseteq Derived(s, Literal)
  <1> DEFINE S == {n \in 0..Len(b) : n \in Derived(b, Literal) /\ n \notin Derived(s, Literal)}
  <1>1. SUFFICES ASSUME S # {} PROVE FALSE
    <2>1. Derived(b, Literal) \subseteq 0..Len(b)
      BY DerivedIs
    <2>. QED
      BY <1>1, <2>1
  <1>2. PICK n \in S : \A k \in S : n <= k
    <2>1. S \subseteq Nat
      OBVIOUS
    <2>. HIDE DEF S
    <2>. QED
      BY <1>1, <2>1, LeastNumber
  <1>3. n \in 0..Len(b) /\ n \in Derived(b, Literal) /\ n \notin Derived(s, Literal)
        /\ \A k \in 0..(n - 1) : k \in Derived(b, Literal) => k \in Derived(s, Literal)
    BY <1>2
  <1>. HIDE DEF S
  <1>4. n # 0
    <2>1. 0 \in 0..Len(s)
      OBVIOUS
    <2>. QED
      BY <1>3, <2>1, DerivedIs
  <1>5. n - 1 \in 0..(n - 1) /\ n > 0 /\ n \in 1..Len(b) /\ n \in 0..Len(s)
    BY <1>3, <1>4
  <1>6. \/ b[n] \in Literal /\ n - 1 \in Derived(b, Literal)
        \/ \E i \in 0..(n - 1) : MacroExpand(b, i + 1, n) /\ i \in Derived(b, Literal)
    BY <1>3, <1>4, DerivedIs
  <1>7. \/ s[n] \in Literal /\ n - 1 \in Derived(s, Literal)
        \/ \E i \in 0..(n - 1) : MacroExpand(s, i + 1, n) /\ i \in Derived(s, Literal)
    <2>1. CASE b[n] \in Literal /\ n - 1 \in Derived(b, Literal)
      BY <1>3, <1>5, <2>1
    <2>2. ASSUME NEW i \in 0..(n - 1), MacroExpand(b, i + 1, n), i \in Derived(b, Literal)
          PROVE  MacroExpand(s, i + 1, n) /\ i \in Derived(s, Literal)
      <3>1. i + 1 \in 1..Len(b)
        BY <1>5
      <3>. QED
        BY <1>3, <1>5, <2>2, <3>1, PrefixMacro
    <2>. QED
      BY <1>6, <2>1, <2>2
  <1>8. n \in Derived(s, Literal)
    BY <1>5, <1>7, DerivedIs
  <1>. QED
    BY <1>3, <1>8

\* If no dot of s is in a macro, none of its body is.
LEMMA BodyDots ==
  ASSUME NEW s \in Seq(Char), OuterDots(s) = Dots(s)
  PROVE  OuterDots(Body(s)) = Dots(Body(s))
  <1>1. PICK b : b = Body(s)
    OBVIOUS
  <1>2. b \in Seq(Char) /\ Len(b) <= Len(s) /\ \A i \in 1..Len(b) : b[i] = s[i]
    BY <1>1, BodyIs
  <1>3. ASSUME NEW x \in Dots(b), NEW i \in Derived(b, Literal), NEW j \in x..Len(b),
               i < x, MacroExpand(b, i + 1, j)
        PROVE  FALSE
    <2>1. x \in 1..Len(b) /\ b[x] = "."
      BY DEF Dots
    <2>2. x \in Dots(s)
      BY <1>2, <2>1 DEF Dots
    <2>3. i \in 0..Len(b) /\ i \in Derived(s, Literal)
      BY <1>2, DerivedIs, PrefixDerived
    <2>4. i + 1 \in 1..Len(b) /\ j \in 1..Len(b) /\ j \in x..Len(s)
      BY <1>2, <1>3, <2>1, <2>3
    <2>5. MacroExpand(s, i + 1, j)
      BY <1>2, <1>3, <2>4, PrefixMacro
    <2>6. x \notin OuterDots(s)
      BY <1>3, <2>3, <2>4, <2>5 DEF OuterDots
    <2>. QED
      BY <2>2, <2>6
  <1>4. OuterDots(b) = Dots(b)
    BY <1>3 DEF OuterDots
  <1>. QED
    BY <1>1, <1>4

LEMMA NoChomp ==
  ASSUME NEW s \in Seq(Char), ~LineFeed(s)
  PROVE  Chomp(s) = s
  <1>1. s # <<>> => Len(s) \in 1..Len(s)
    BY EmptySeq
  <1>. QED
    BY <1>1 DEF Chomp, LineFeed

\* A derivation that ends in a macro-expand, and one that ends in a toplabel.
LEMMA MacroEnds ==
  ASSUME NEW s \in Seq(Char), ~LineFeed(s), NEW i \in Derived(s, Literal),
         MacroExpand(s, i + 1, Len(s))
  PROVE  EndsInMacro(s) /\ Len(s) \in Derived(s, Literal) /\ s # <<>>
  <1>1. i \in 0..Len(s) /\ Len(s) \in 0..Len(s)
    BY DerivedIs
  <1>2. IsEscape(s, i + 1, Len(s)) \/ IsMacro(s, i + 1, Len(s))
    BY MacroStart
  <1>3. Len(s) >= i + 2
    <2>1. IsEscape(s, i + 1, Len(s)) => Len(s) = (i + 1) + 1
      BY DEF IsEscape
    <2>2. IsMacro(s, i + 1, Len(s)) => Len(s) > (i + 1) + 2
      BY DEF IsMacro
    <2>. QED
      BY <1>1, <1>2, <2>1, <2>2
  <1>4. i + 1 \in 1..Len(s) /\ i \in 0..(Len(s) - 1) /\ Len(s) # 0
    BY <1>1, <1>3
  <1>5. EndsInMacro(s)
    BY <1>2, <1>4, NoChomp DEF EndsInMacro
  <1>6. Len(s) \in Derived(s, Literal)
    BY <1>1, <1>4, DerivedIs
  <1>7. s # <<>>
    BY <1>4, EmptySeq
  <1>. QED
    BY <1>5, <1>6, <1>7

\* The characters of a toplabel are literals.
LEMMA TopLabelIs ==
  ASSUME NEW t \in Seq(Char), \A i \in 1..Len(t) : t[i] # "nl", IsTopLabel(t)
  PROVE  \A i \in 1..Len(t) : t[i] \in Literal
  <1>1. Chomp(t) = t
    BY NoChomp DEF LineFeed
  <1>2. {t[i] : i \in 1..Len(t)} \subseteq Alpha \cup Digit \cup {"-"}
    BY <1>1 DEF IsTopLabel
  <1>3. Alpha \cup Digit \cup {"-"} \subseteq Literal
    BY DEF Literal, Delim
  <1>. QED
    BY <1>2, <1>3

LEMMA LabelEnds ==
  ASSUME NEW s \in Seq(Char), ~LineFeed(s), NEW dots, dots \subseteq Dots(Body(s)),
         dots # {}, Max(dots) - 1 \in Derived(s, Literal),
         IsTopLabel(SubSeq(Body(s), Max(dots) + 1, Len(Body(s))))
  PROVE  Len(s) \in Derived(s, Literal) /\ s # <<>>
  <1>1. PICK b, x : b = Body(s) /\ x = Max(dots)
    OBVIOUS
  <1>2. /\ b \in Seq(Char) /\ Len(b) <= Len(s) /\ \A i \in 1..Len(b) : b[i] = s[i]
        /\ \/ b = s
           \/ s # <<>> /\ s[Len(s)] = "." /\ Len(b) = Len(s) - 1
    BY <1>1, BodyIs
  <1>3. x \in 1..Len(b) /\ b[x] = "."
    <2>1. dots \subseteq 0..Len(b)
      BY <1>1 DEF Dots
    <2>2. Len(b) \in Nat /\ dots # {} /\ x = Max(dots)
      BY <1>1, <1>2
    <2>3. x \in dots
      BY <2>1, <2>2, MaxIs
    <2>. QED
      BY <1>1, <2>3 DEF Dots
  <1>4. "." \in Literal
    BY DEF Literal, Delim
  <1>5. ASSUME NEW y \in (x + 1)..Len(b) PROVE b[y] \in Literal
    <2>1. PICK t : t = SubSeq(b, x + 1, Len(b))
      OBVIOUS
    <2>2. x + 1 \in 1..Len(b) /\ Len(b) \in 1..Len(b) /\ x + 1 <= Len(b)
      BY <1>2, <1>3
    <2>3. /\ t \in Seq(Char) /\ Len(t) = Len(b) - (x + 1) + 1
          /\ \A i \in 1..(Len(b) - (x + 1) + 1) : t[i] = b[(x + 1) + i - 1]
      BY <1>2, <2>1, <2>2, SubSeqProperties
    <2>4. \A i \in 1..Len(t) : (x + 1) + i - 1 \in 1..Len(b)
      BY <1>2, <1>3, <2>3
    <2>5. \A i \in 1..Len(b) : b[i] # "nl"
      BY <1>2 DEF LineFeed
    <2>6. \A i \in 1..Len(t) : t[i] \in Literal
      <3>1. \A i \in 1..Len(t) : t[i] # "nl"
        BY <2>3, <2>4, <2>5
      <3>2. IsTopLabel(t)
        BY <1>1, <2>1
      <3>. QED
        BY <2>3, <3>1, <3>2, TopLabelIs
    <2>7. y - x \in 1..Len(t) /\ (x + 1) + (y - x) - 1 = y
      BY <1>2, <1>3, <2>3
    <2>. QED
      BY <2>3, <2>6, <2>7
  <1>6. \A y \in x..Len(s) : s[y] \in Literal
    <2>1. \A y \in x..Len(b) : s[y] \in Literal
      <3>1. ASSUME NEW y \in x..Len(b) PROVE s[y] \in Literal
        <4>1. y \in 1..Len(b) /\ (y = x \/ y \in (x + 1)..Len(b))
          BY <1>2, <1>3
        <4>. QED
          BY <1>2, <1>3, <1>4, <1>5, <4>1
      <3>. QED
        BY <3>1
    <2>2. \A y \in x..Len(s) : y \in x..Len(b) \/ (y = Len(s) /\ s[Len(s)] = ".")
      BY <1>2, <1>3
    <2>. QED
      BY <1>4, <2>1, <2>2
  <1>7. x \in 1..(Len(s) + 1) /\ Len(s) \in 0..Len(s) /\ Len(s) \in (x - 1)..Len(s)
        /\ Len(s) # 0
    BY <1>2, <1>3
  <1>8. x - 1 \in Derived(s, Literal)
    BY <1>1
  <1>9. Len(s) \in Derived(s, Literal)
    BY <1>6, <1>7, <1>8, Chain
  <1>. QED
    BY <1>7, <1>9, EmptySeq

\* The last dot before a toplabel is in no macro: the "}" of one would follow.
LEMMA LastDotOuter ==
  ASSUME NEW s \in Seq(Char), ~LineFeed(s), Dots(Body(s)) # {},
         IsTopLabel(SubSeq(Body(s), Max(Dots(Body(s))) + 1, Len(Body(s))))
  PROVE  Max(Dots(Body(s))) \in OuterDots(s)
  <1>1. PICK b, x : b = Body(s) /\ x = Max(Dots(b))
    OBVIOUS
  <1>2. /\ b \in Seq(Char) /\ Len(b) <= Len(s) /\ \A i \in 1..Len(b) : b[i] = s[i]
        /\ \/ b = s
           \/ s # <<>> /\ s[Len(s)] = "." /\ Len(b) = Len(s) - 1
    BY <1>1, BodyIs
  <1>3. x \in 1..Len(b) /\ b[x] = "."
    <2>1. Dots(b) \subseteq 0..Len(b)
      BY DEF Dots
    <2>2. x \in Dots(b)
      BY <1>1, <1>2, <2>1, MaxIs
    <2>. QED
      BY <2>2 DEF Dots
  <1>4. x \in 1..Len(s) /\ s[x] = "." /\ x \in Dots(s)
    BY <1>2, <1>3 DEF Dots
  <1>5. ASSUME NEW y \in (x + 1)..Len(b) PROVE b[y] # "}"
    <2>1. PICK t : t = SubSeq(b, x + 1, Len(b))
      OBVIOUS
    <2>2. x + 1 \in 1..Len(b) /\ Len(b) \in 1..Len(b) /\ x + 1 <= Len(b)
      BY <1>2, <1>3
    <2>3. /\ t \in Seq(Char) /\ Len(t) = Len(b) - (x + 1) + 1
          /\ \A i \in 1..(Len(b) - (x + 1) + 1) : t[i] = b[(x + 1) + i - 1]
      BY <1>2, <2>1, <2>2, SubSeqProperties
    <2>4. \A i \in 1..Len(t) : (x + 1) + i - 1 \in 1..Len(b)
      BY <1>2, <1>3, <2>3
    <2>5. \A i \in 1..Len(b) : b[i] # "nl"
      BY <1>2 DEF LineFeed
    <2>6. \A i \in 1..Len(t) : t[i] # "nl"
      BY <2>3, <2>4, <2>5
    <2>7. Chomp(t) = t
      BY <2>3, <2>6, NoChomp DEF LineFeed
    <2>8. IsTopLabel(t)
      BY <1>1, <2>1
    <2>9. {t[i] : i \in 1..Len(t)} \subseteq Alpha \cup Digit \cup {"-"}
      BY <2>7, <2>8 DEF IsTopLabel
    <2>10. y - x \in 1..Len(t) /\ (x + 1) + (y - x) - 1 = y
      BY <1>2, <1>3, <2>3
    <2>11. b[y] = t[y - x]
      BY <2>3, <2>10
    <2>12. b[y] \in Alpha \cup Digit \cup {"-"}
      BY <2>9, <2>10, <2>11
    <2>. QED
      BY <2>12 DEF Alpha, Allowed, ExpOnly, Digit
  <1>6. ASSUME NEW i \in Derived(s, Literal), NEW j \in x..Len(s), i < x,
               MacroExpand(s, i + 1, j)
        PROVE  FALSE
    <2>1. /\ Len(s) \in Nat /\ i \in Nat /\ i < x
          /\ x \in Nat /\ j \in Nat /\ x <= j /\ j <= Len(s)
      <3>1. Len(s) \in Nat /\ i \in 0..Len(s)
        BY <1>6, DerivedIs
      <3>2. x \in Nat
        BY <1>4, <3>1
      <3>3. j \in x..Len(s)
        BY <1>6
      <3>. QED
        BY <1>6, <3>1, <3>2, <3>3
    <2>2. IsEscape(s, i + 1, j) \/ IsMacro(s, i + 1, j)
      BY <1>6, MacroStart
    <2>3. CASE IsEscape(s, i + 1, j)
      <3>1. j = (i + 1) + 1
        BY <2>3 DEF IsEscape
      <3>2. s[i + 1] = "%" /\ s[j] \in {"%", "_", "-"}
        BY <2>3 DEF IsEscape
      <3>3. x = i + 1 \/ x = j
        BY <2>1, <3>1
      <3>. QED
        BY <1>4, <3>2, <3>3
    <2>4. CASE IsMacro(s, i + 1, j)
      <3>1. s[j] = "}"
        BY <2>4 DEF IsMacro
      <3>2. j # x /\ (j # Len(s) \/ b = s)
        BY <1>2, <1>4, <3>1
      <3>3. j \in (x + 1)..Len(b)
        <4>1. j # x
          BY <1>4, <3>1
        <4>2. Len(b) \in Nat /\ j <= Len(b)
          BY <1>2, <2>1, <3>2
        <4>. QED
          BY <2>1, <4>1, <4>2
      <3>4. b[j] = s[j]
        BY <1>2, <1>3, <3>3
      <3>. QED
        BY <1>5, <3>1, <3>3, <3>4
    <2>. QED
      BY <2>2, <2>3, <2>4
  <1>. QED
    BY <1>1, <1>4, <1>6 DEF OuterDots

\* A derivation of the whole text reaches every dot that is in no macro.
LEMMA DotReached ==
  ASSUME NEW s \in Seq(Char), Reached(s, Literal, Len(s) + 1), NEW x \in OuterDots(s)
  PROVE  x - 1 \in Derived(s, Literal)
  <1>1. x \in 1..Len(s)
    BY DEF OuterDots, Dots
  <1>2. x - 1 \in 0..((Len(s) + 1) - 1)
    BY <1>1
  <1>3. SUFFICES ASSUME NEW k \in Derived(s, Literal), NEW e \in 1..Len(s),
                        k < x - 1, x - 1 < e, MacroExpand(s, k + 1, e)
                 PROVE  FALSE
    BY <1>2 DEF Reached
  <1>4. k \in 0..Len(s)
    BY DerivedIs
  <1>5. k < x /\ e \in x..Len(s)
    BY <1>1, <1>3, <1>4
  <1>. QED
    BY <1>3, <1>5 DEF OuterDots

\* Of the domain-specs without a line feed, the parser takes those of the
\* grammar, cut into labels at every dot, and those that end in a macro found
\* inside "%%", and no others.
THEOREM MacroSpecIsGrammar == StrSpec => []SpecIsGrammar
  <1>1. StrType /\ GrammarInv => SpecIsGrammar
    <2> DEFINE loose == EscapedEnd(text) /\ Len(text) <= MaxSpec
    <2>. SUFFICES ASSUME StrType, GrammarInv, ~is_exp, ~LineFeed(text),
                         pc \in {"returned", "rejected"}
                  PROVE  /\ (pc = "returned")
                              <=> IsDomainSpec(text, Dots(Body(text))) \/ loose
                         /\ ~DottedMacro(text) =>
                              ((pc = "returned")
                                 <=> IsDomainSpec(text, OuterDots(Body(text))) \/ loose)
      BY DEF SpecIsGrammar
    <2>1. text \in Seq(Char) /\ Len(text) \in Nat
      BY DEF StrType
    <2>2. PICK b, x : b = Body(text) /\ x = Max(Dots(b))
      OBVIOUS
    <2>3. ASSUME pc = "returned"
          PROVE  IsDomainSpec(text, Dots(b)) \/ loose
      <3>1. SpecOk(text) /\ Reached(text, Literal, Len(text) + 1)
        BY <2>3 DEF GrammarInv, EndInv, Whole
      <3>2. Len(text) \in Derived(text, Literal)
        <4>1. (Len(text) + 1) - 1 \in Derived(text, Literal)
          BY <3>1 DEF Reached
        <4>2. (Len(text) + 1) - 1 = Len(text)
          BY <2>1
        <4>. QED
          BY <4>1, <4>2
      <3>3. CASE EndsInMacro(text)
        <4>1. Len(text) <= MaxSpec
          BY <3>1 DEF SpecOk
        <4>2. CASE \E i \in Derived(text, Literal) : MacroExpand(text, i + 1, Len(text))
          <5>1. IsDomainSpec(text, Dots(b))
            BY <4>1, <4>2 DEF IsDomainSpec
          <5>. QED
            BY <5>1
        <4>3. CASE ~\E i \in Derived(text, Literal) : MacroExpand(text, i + 1, Len(text))
          BY <3>2, <3>3, <4>1, <4>3 DEF EscapedEnd
        <4>. QED
          BY <4>2, <4>3
      <3>4. CASE ~EndsInMacro(text)
        <4>1. /\ Len(text) <= MaxSpec /\ Dots(b) # {}
              /\ IsTopLabel(SubSeq(b, x + 1, Len(b))) /\ LabelsOk(b, Dots(b))
          BY <2>2, <3>1, <3>4 DEF SpecOk, TopLabel
        <4>2. x \in OuterDots(text)
          BY <2>1, <2>2, <4>1, LastDotOuter
        <4>3. x - 1 \in Derived(text, Literal)
          BY <2>1, <3>1, <4>2, DotReached
        <4>4. IsDomainSpec(text, Dots(b))
          BY <2>2, <4>1, <4>3 DEF IsDomainSpec
        <4>. QED
          BY <4>4
      <3>. QED
        BY <3>3, <3>4
    <2>4. ASSUME pc = "rejected"
          PROVE  ~IsDomainSpec(text, Dots(b)) /\ ~loose
      <3>1. ASSUME loose PROVE FALSE
        <4>1. EndsInMacro(text) /\ Len(text) \in Derived(text, Literal) /\ text # <<>>
          <5>1. EndsInMacro(text) /\ Len(text) \in Derived(text, Literal)
            BY <3>1 DEF EscapedEnd
          <5>2. Chomp(text) = text
            BY <2>1, NoChomp
          <5>3. Len(text) # 0
            BY <2>1, <5>1, <5>2 DEF EndsInMacro
          <5>. QED
            BY <2>1, <5>1, <5>3, EmptySeq
        <4>2. SpecOk(text)
          BY <3>1, <4>1 DEF SpecOk
        <4>. QED
          BY <2>4, <4>1, <4>2 DEF GrammarInv, EndInv
      <3>2. ASSUME IsDomainSpec(text, Dots(b)) PROVE FALSE
        <4>1. Len(text) <= MaxSpec
          BY <3>2 DEF IsDomainSpec
        <4>2. CASE \E i \in Derived(text, Literal) : MacroExpand(text, i + 1, Len(text))
          <5>1. EndsInMacro(text) /\ Len(text) \in Derived(text, Literal) /\ text # <<>>
            BY <2>1, <4>2, MacroEnds
          <5>2. SpecOk(text)
            BY <4>1, <5>1 DEF SpecOk
          <5>. QED
            BY <2>4, <5>1, <5>2 DEF GrammarInv, EndInv
        <4>3. CASE ~\E i \in Derived(text, Literal) : MacroExpand(text, i + 1, Len(text))
          <5>1. /\ Dots(b) # {} /\ x - 1 \in Derived(text, Literal)
                /\ IsTopLabel(SubSeq(b, x + 1, Len(b))) /\ LabelsOk(b, Dots(b))
            BY <2>2, <3>2, <4>3 DEF IsDomainSpec
          <5>2. Len(text) \in Derived(text, Literal) /\ text # <<>>
            BY <2>1, <2>2, <5>1, LabelEnds
          <5>3. SpecOk(text)
            BY <2>2, <4>1, <5>1, <5>2 DEF SpecOk, TopLabel
          <5>. QED
            BY <2>4, <5>2, <5>3 DEF GrammarInv, EndInv
        <4>. QED
          BY <4>2, <4>3
      <3>. QED
        BY <3>1, <3>2
    <2>5. (pc = "returned") <=> IsDomainSpec(text, Dots(b)) \/ loose
      BY <2>3, <2>4
    <2>6. ~DottedMacro(text) => OuterDots(b) = Dots(b)
      BY <2>1, <2>2, BodyDots DEF DottedMacro
    <2>. HIDE DEF loose
    <2>. QED
      BY <2>2, <2>5, <2>6
  <1>. QED
    BY GrammarInvariant, <1>1, PTL

-----------------------------------------------------------------------------
(***************************************************************************)
(* The size of a name, which is a sum over its labels.                     *)
(***************************************************************************)
Sums(s, f) ==
  f = [i \in 0..Len(s) |-> IF i = 0 THEN 0 ELSE f[i - 1] + s[i]]

LEMMA SumsExist ==
  ASSUME NEW s \in Seq(Nat)
  PROVE  \E f : Sums(s, f)
  <1> DEFINE Upto(n, f) == \A i \in 0..n : f[i] = IF i = 0 THEN 0 ELSE f[i - 1] + s[i]
             S == {n \in Nat : n <= Len(s) => \E f \in [0..n -> Nat] : Upto(n, f)}
  <1>1. 0 \in S
    <2>1. Upto(0, [i \in 0..0 |-> 0])
      OBVIOUS
    <2>. QED
      BY <2>1
  <1>2. ASSUME NEW n \in Nat, n \in S PROVE n + 1 \in S
    <2>1. SUFFICES ASSUME n + 1 <= Len(s)
                   PROVE  \E f \in [0..(n + 1) -> Nat] : Upto(n + 1, f)
      OBVIOUS
    <2>2. PICK f \in [0..n -> Nat] : Upto(n, f)
      <3>1. n <= Len(s)
        BY <2>1
      <3>2. \E f \in [0..n -> Nat] : Upto(n, f)
        BY <1>2, <3>1
      <3>. HIDE DEF Upto
      <3>. QED
        BY <3>2
    <2> DEFINE g == [i \in 0..(n + 1) |-> IF i <= n THEN f[i] ELSE f[n] + s[n + 1]]
    <2>3. s[n + 1] \in Nat
      BY <2>1
    <2>4. g \in [0..(n + 1) -> Nat]
      BY <2>2, <2>3
    <2>5. ASSUME NEW i \in 0..(n + 1)
          PROVE  g[i] = IF i = 0 THEN 0 ELSE g[i - 1] + s[i]
      <3>1. CASE i \in 0..n
        <4>1. g[i] = f[i] /\ (i # 0 => g[i - 1] = f[i - 1])
          BY <3>1
        <4>. QED
          BY <2>2, <3>1, <4>1
      <3>2. CASE i = n + 1
        BY <3>2
      <3>. QED
        BY <3>1, <3>2
    <2>. QED
      BY <2>4, <2>5
  <1>3. Len(s) \in S
    <2>. HIDE DEF S
    <2>. QED
      BY <1>1, <1>2, Induct
  <1>4. PICK f \in [0..Len(s) -> Nat] : Upto(Len(s), f)
    BY <1>3
  <1>. QED
    BY <1>4 DEF Sums

\* Size() as the sum that its recursive function computes.
LEMMA SizeIsSum ==
  ASSUME NEW s \in Seq(Nat)
  PROVE  \E f : Sums(s, f) /\ Size(s) = f[Len(s)] + Len(s) - 1
  <1>1. Sums(s, CHOOSE f : Sums(s, f))
    BY SumsExist
  <1>2. Size(s) = (CHOOSE f : Sums(s, f))[Len(s)] + Len(s) - 1
    BY DEF Size, Sums
  <1>. QED
    BY <1>1, <1>2

LEMMA SizeType ==
  ASSUME NEW s \in Seq(Nat)
  PROVE  Size(s) \in Int
  <1>1. PICK f : Sums(s, f) /\ Size(s) = f[Len(s)] + Len(s) - 1
    BY SizeIsSum
  <1> DEFINE S == {n \in Nat : n <= Len(s) => f[n] \in Nat}
  <1>2. \A i \in 0..Len(s) : f[i] = IF i = 0 THEN 0 ELSE f[i - 1] + s[i]
    BY <1>1 DEF Sums
  <1>3. 0 \in S
    BY <1>2
  <1>4. ASSUME NEW n \in Nat, n \in S PROVE n + 1 \in S
    BY <1>2, <1>4
  <1>5. Len(s) \in S
    <2>. HIDE DEF S
    <2>. QED
      BY <1>3, <1>4, Induct
  <1>. QED
    BY <1>1, <1>5

LEMMA SizeOfTwo ==
  ASSUME NEW s \in Seq(Nat), Len(s) = 2
  PROVE  Size(s) = s[1] + s[2] + 1
  <1>1. PICK f : Sums(s, f) /\ Size(s) = f[2] + 2 - 1
    BY SizeIsSum
  <1>2. \A i \in 0..2 : f[i] = IF i = 0 THEN 0 ELSE f[i - 1] + s[i]
    BY <1>1 DEF Sums
  <1>3. f[0] = 0 /\ f[1] = f[0] + s[1] /\ f[2] = f[1] + s[2]
    BY <1>2
  <1>4. s[1] \in Nat /\ s[2] \in Nat
    OBVIOUS
  <1>. QED
    BY <1>1, <1>3, <1>4

-----------------------------------------------------------------------------
\* What is left of s from its k-th label on.
From(s, k) == SubSeq(s, k, Len(s))

GoodLabels(s) == Len(s) > 1 /\ \A i \in DOMAIN s : s[i] \in 1..LabelLimit

\* name is what a number of turns of the loop left of the expanded name: each
\* of them saw a name over the limit, and none of them takes the last label but
\* one of a name with good labels.
NamesInv ==
  /\ expanded \in Seq(Nat) /\ expanded # <<>>
  /\ use \in {"truncate", "looked up", "no match"}
  /\ \E k \in 1..Len(expanded) :
       /\ name = From(expanded, k)
       /\ \A i \in 1..(k - 1) : Size(From(expanded, i)) > NameLimit
       /\ GoodLabels(expanded) => k < Len(expanded)
  /\ GoodLabels(expanded) => use # "no match"

LEMMA FromType ==
  ASSUME NEW s \in Seq(Nat), NEW k \in 1..Len(s)
  PROVE  /\ From(s, k) \in Seq(Nat)
         /\ Len(From(s, k)) = Len(s) - k + 1
         /\ \A i \in 1..(Len(s) - k + 1) : From(s, k)[i] = s[k + i - 1]
  BY DEF From

LEMMA NamesInitInv == NamesInit => NamesInv
  <1>. SUFFICES ASSUME NamesInit PROVE NamesInv
    OBVIOUS
  <1>1. expanded \in Seq(Nat) /\ expanded # <<>>
    BY NamesAssumption DEF NamesInit
  <1>2. 1 \in 1..Len(expanded) /\ name = From(expanded, 1)
    BY <1>1 DEF NamesInit, From
  <1>. QED
    BY <1>1, <1>2 DEF NamesInit, NamesInv, GoodLabels

LEMMA NamesStep == NamesInv /\ [NamesNext]_nameVars => NamesInv'
  <1>. SUFFICES ASSUME NamesInv, [NamesNext]_nameVars PROVE NamesInv'
    OBVIOUS
  <1>1. expanded \in Seq(Nat) /\ expanded # <<>>
    BY DEF NamesInv
  <1>2. PICK k \in 1..Len(expanded) :
          /\ name = From(expanded, k)
          /\ \A i \in 1..(k - 1) : Size(From(expanded, i)) > NameLimit
          /\ GoodLabels(expanded) => k < Len(expanded)
    BY DEF NamesInv
  <1>3. /\ name \in Seq(Nat) /\ Len(name) = Len(expanded) - k + 1
        /\ \A i \in 1..Len(name) : name[i] = expanded[k + i - 1]
    BY <1>1, <1>2, FromType
  <1>4. CASE Trim
    <2>1. Size(name) > NameLimit /\ Len(name) > 1
      BY <1>4 DEF Trim, TooLong
    <2>2. k + 1 \in 1..Len(expanded)
      BY <1>3, <2>1
    <2>3. name' = From(expanded, k + 1)
      BY <1>1, <1>2, <1>4, <2>2 DEF Trim, From
    <2>4. \A i \in 1..k : Size(From(expanded, i)) > NameLimit
      BY <1>2, <2>1
    <2>5. ASSUME GoodLabels(expanded) PROVE k + 1 < Len(expanded)
      <3>1. SUFFICES ASSUME Len(name) = 2 PROVE FALSE
        BY <1>2, <1>3, <2>1, <2>5
      <3>2. name[1] \in 1..LabelLimit /\ name[2] \in 1..LabelLimit
        <4>1. name[1] = expanded[k] /\ name[2] = expanded[k + 1]
          <5>1. name[1] = expanded[k + 1 - 1] /\ name[2] = expanded[k + 2 - 1]
            <6>1. 1 \in 1..Len(name) /\ 2 \in 1..Len(name)
              BY <3>1
            <6>. QED
              BY <1>3, <6>1, Zenon
          <5>2. k + 1 - 1 = k /\ k + 2 - 1 = k + 1
            OBVIOUS
          <5>. QED
            BY <5>1, <5>2
        <4>2. k \in DOMAIN expanded /\ k + 1 \in DOMAIN expanded
          BY <1>1, <2>2
        <4>. QED
          BY <2>5, <4>1, <4>2 DEF GoodLabels
      <3>3. Size(name) = name[1] + name[2] + 1
        BY <1>3, <3>1, SizeOfTwo
      <3>. QED
        BY <2>1, <3>2, <3>3, NamesAssumption
    <2>. QED
      BY <1>1, <1>4, <2>2, <2>3, <2>4, <2>5 DEF Trim, NamesInv
  <1>5. CASE Use
    <2>1. ASSUME GoodLabels(expanded) PROVE Valid(name)
      <3>1. Len(name) > 1
        BY <1>2, <1>3, <2>1
      <3>2. Size(name) <= NameLimit
        <4>1. ~(Size(name) > NameLimit)
          BY <1>5, <3>1 DEF Use, TooLong
        <4>2. Size(name) \in Int
          BY <1>3, SizeType
        <4>. QED
          BY <4>1, <4>2, NamesAssumption
      <3>. QED
        <4>1. ASSUME NEW i \in DOMAIN name PROVE name[i] \in 1..LabelLimit
          <5>1. i \in 1..Len(name) /\ k + i - 1 \in DOMAIN expanded
            <6>1. DOMAIN name = 1..Len(name) /\ DOMAIN expanded = 1..Len(expanded)
              BY <1>1, <1>3
            <6>2. i \in 1..(Len(expanded) - k + 1) /\ Len(expanded) \in Nat
              BY <1>1, <1>3, <6>1
            <6>3. k + i - 1 \in 1..Len(expanded)
              BY <6>2
            <6>. QED
              BY <6>1, <6>3
          <5>. QED
            BY <1>3, <2>1, <5>1 DEF GoodLabels
        <4>. QED
          BY <1>3, <3>1, <3>2, <4>1 DEF Valid
    <2>. QED
      BY <1>1, <1>2, <1>5, <2>1 DEF Use, NamesInv
  <1>6. CASE UNCHANGED nameVars
    BY <1>6 DEF nameVars, NamesInv
  <1>. QED
    BY <1>4, <1>5, <1>6 DEF NamesNext

LEMMA NamesInvariant == NamesSpec => []NamesInv
  BY NamesInitInv, NamesStep, PTL DEF NamesSpec

\* truncate_domain() never makes a name with good labels unfit to look up:
\* it stops before a single label is left.
THEOREM NamesLegalIsLookedUp == NamesSpec => []LegalIsLookedUp
  <1>1. NamesInv => LegalIsLookedUp
    BY DEF NamesInv, LegalIsLookedUp, GoodLabels
  <1>. QED
    BY NamesInvariant, <1>1, PTL

\* IsSuffix() is written with Reverse().
LEMMA ReverseSeq ==
  ASSUME NEW s \in Seq(Nat)
  PROVE  /\ Reverse(s) \in Seq(Nat) /\ Len(Reverse(s)) = Len(s)
         /\ \A i \in 1..Len(s) : Reverse(s)[i] = s[Len(s) - i + 1]
  BY DEF Reverse

LEMMA FromIsSuffix ==
  ASSUME NEW s \in Seq(Nat), NEW k \in 1..Len(s)
  PROVE  IsSuffix(From(s, k), s)
  <1>1. PICK t : t = From(s, k)
    OBVIOUS
  <1>2. PICK n : n = Len(s) - k + 1
    OBVIOUS
  <1>3. /\ t \in Seq(Nat) /\ Len(t) = n /\ n \in 1..Len(s)
        /\ \A i \in 1..n : t[i] = s[k + i - 1]
    <2>1. /\ t \in Seq(Nat) /\ Len(t) = Len(s) - k + 1
          /\ \A i \in 1..(Len(s) - k + 1) : t[i] = s[k + i - 1]
      BY <1>1, FromType
    <2>. QED
      BY <1>2, <2>1
  <1>4. \A i \in 1..n : Reverse(t)[i] = Reverse(s)[i]
    <2>1. SUFFICES ASSUME NEW i \in 1..n PROVE Reverse(t)[i] = Reverse(s)[i]
      OBVIOUS
    <2>2. Reverse(t)[i] = t[n - i + 1]
      BY <1>3, ReverseSeq
    <2>3. Reverse(s)[i] = s[Len(s) - i + 1]
      BY <1>3, ReverseSeq
    <2>4. t[n - i + 1] = s[k + (n - i + 1) - 1]
      BY <1>3
    <2>5. k + (n - i + 1) - 1 = Len(s) - i + 1
      BY <1>2
    <2>. QED
      BY <2>2, <2>3, <2>4, <2>5
  <1>5. /\ Reverse(t) \in Seq(Nat) /\ Len(Reverse(t)) = n
        /\ Reverse(s) \in Seq(Nat) /\ Len(Reverse(s)) = Len(s)
    BY <1>3, ReverseSeq
  <1>6. SubSeq(Reverse(t), 1, n) = SubSeq(Reverse(s), 1, n)
    BY <1>3, <1>4, <1>5
  <1>. QED
    BY <1>1, <1>3, <1>5, <1>6 DEF IsSuffix, IsPrefix

\* What the loop of truncate_domain() leaves is a suffix of the expanded
\* name, and no longer one would have been within the limit.
THEOREM NamesLongestPart == NamesSpec => []LongestPart
  <1>1. NamesInv => LongestPart
    <2>. SUFFICES ASSUME NamesInv PROVE LongestPart
      OBVIOUS
    <2>1. PICK k \in 1..Len(expanded) :
            /\ name = From(expanded, k)
            /\ \A i \in 1..(k - 1) : Size(From(expanded, i)) > NameLimit
      BY DEF NamesInv
    <2>2. expanded \in Seq(Nat) /\ Len(name) = Len(expanded) - k + 1
      BY <2>1, FromType DEF NamesInv
    <2>. QED
      BY <2>1, <2>2, FromIsSuffix DEF LongestPart, From
  <1>. QED
    BY NamesInvariant, <1>1, PTL
=============================================================================

---------------------------- MODULE TermsProofs ----------------------------
(***************************************************************************)
(* Proofs about the terms of a record, for any record: parse_mechanism()   *)
(* and its regular expressions against the grammar of RFC 7208 s12, and    *)
(* the modifiers that parse() keeps.                                       *)
(***************************************************************************)
EXTENDS Terms, TextProofs

-----------------------------------------------------------------------------
(***************************************************************************)
(* Pieces of a sequence of tokens.                                         *)
(***************************************************************************)
\* Find() is the first position that holds one of cs.
LEMMA FindFirst ==
  ASSUME NEW s \in Seq(Token), NEW cs
  PROVE  /\ Find(s, cs) \in 1..(Len(s) + 1)
         /\ \A i \in 1..Len(s) : i < Find(s, cs) => s[i] \notin cs
         /\ Find(s, cs) <= Len(s) => s[Find(s, cs)] \in cs
  <1> DEFINE at == {i \in 1..Len(s) : s[i] \in cs}
  <1>1. CASE at = {}
    <2>1. Find(s, cs) = Len(s) + 1
      BY <1>1 DEF Find
    <2>. QED
      BY <1>1, <2>1
  <1>2. CASE at # {}
    <2>1. \E i \in at : \A j \in at : i <= j
      <3>1. at \subseteq Nat
        OBVIOUS
      <3>. HIDE DEF at
      <3>. QED
        BY <1>2, <3>1, LeastNumber
    <2>2. Find(s, cs) = CHOOSE i \in at : \A j \in at : i <= j
      BY <1>2 DEF Find
    <2>3. Find(s, cs) \in at /\ \A j \in at : Find(s, cs) <= j
      BY <2>1, <2>2
    <2>. QED
      BY <2>3
  <1>. QED
    BY <1>1, <1>2

LEMMA RestSeq ==
  ASSUME NEW s \in Seq(Token), NEW i \in 1..(Len(s) + 1)
  PROVE  /\ Rest(s, i) \in Seq(Token)
         /\ Len(Rest(s, i)) = Len(s) - i + 1
         /\ \A j \in 1..(Len(s) - i + 1) : Rest(s, i)[j] = s[i + j - 1]
         /\ i = Len(s) + 1 => Rest(s, i) = <<>>
  BY DEF Rest

LEMMA RestAfter ==
  ASSUME NEW s \in Seq(Token), NEW m \in 0..Len(s)
  PROVE  /\ Rest(s, m + 1) \in Seq(Token)
         /\ Len(Rest(s, m + 1)) = Len(s) - m
         /\ \A j \in 1..(Len(s) - m) : Rest(s, m + 1)[j] = s[m + j]
  <1>1. m + 1 \in 1..(Len(s) + 1)
    OBVIOUS
  <1>2. PICK t : t = Rest(s, m + 1)
    OBVIOUS
  <1>3. /\ t \in Seq(Token) /\ Len(t) = Len(s) - (m + 1) + 1
        /\ \A j \in 1..(Len(s) - (m + 1) + 1) : t[j] = s[m + 1 + j - 1]
    BY <1>1, <1>2, RestSeq, Zenon
  <1>4. Len(s) - (m + 1) + 1 = Len(s) - m
    OBVIOUS
  <1>5. ASSUME NEW j \in 1..(Len(s) - m) PROVE t[j] = s[m + j]
    <2>1. m + 1 + j - 1 = m + j
      OBVIOUS
    <2>. QED
      BY <1>3, <1>4, <2>1
  <1>. QED
    BY <1>2, <1>3, <1>4, <1>5

LEMMA PrefixSeq ==
  ASSUME NEW s \in Seq(Token), NEW i \in 0..Len(s)
  PROVE  /\ Prefix(i, s) \in Seq(Token)
         /\ Len(Prefix(i, s)) = i
         /\ \A j \in 1..i : Prefix(i, s)[j] = s[j]
         /\ i = 0 => Prefix(i, s) = <<>>
         /\ i = Len(s) => Prefix(i, s) = s
  BY DEF Prefix

LEMMA TailIsRest ==
  ASSUME NEW s \in Seq(Token), s # <<>>
  PROVE  /\ Tail(s) = Rest(s, 2) /\ Tail(s) \in Seq(Token)
         /\ Len(Tail(s)) = Len(s) - 1
         /\ \A j \in 1..(Len(s) - 1) : Tail(s)[j] = s[j + 1]
  BY DEF Rest

NoLine(s) == \A i \in 1..Len(s) : s[i] # "nl"

LEMMA ChompSeq ==
  ASSUME NEW s \in Seq(Token)
  PROVE  /\ Chomp(s) \in Seq(Token)
         /\ Len(Chomp(s)) \in {Len(s), Len(s) - 1}
         /\ \A i \in 1..Len(Chomp(s)) : Chomp(s)[i] = s[i]
         /\ Len(Chomp(s)) = Len(s) - 1 => s[Len(s)] = "nl"
         /\ (s = <<>> \/ s[Len(s)] # "nl") => Chomp(s) = s
         /\ NoLine(s) => Chomp(s) = s
         /\ Len(Chomp(s)) = Len(s) => Chomp(s) = s
  <1>1. CASE s # <<>> /\ s[Len(s)] = "nl"
    <2>1. Chomp(s) = SubSeq(s, 1, Len(s) - 1) /\ Len(s) \in Nat \ {0}
      BY <1>1 DEF Chomp
    <2>2. PICK n \in Nat : n + 1 = Len(s)
      <3>1. Len(s) - 1 \in Nat /\ (Len(s) - 1) + 1 = Len(s)
        BY <2>1
      <3>. QED
        BY <3>1
    <2>3. Len(s) - 1 = n /\ n \in 0..Len(s)
      BY <2>2
    <2>4. Chomp(s) = Prefix(n, s)
      BY <2>1, <2>3 DEF Prefix
    <2>5. /\ Chomp(s) \in Seq(Token) /\ Len(Chomp(s)) = n
          /\ \A i \in 1..n : Chomp(s)[i] = s[i]
      BY <2>3, <2>4, PrefixSeq
    <2>6. ~NoLine(s) /\ Len(Chomp(s)) # Len(s)
      BY <1>1, <2>1, <2>2, <2>5 DEF NoLine
    <2>. QED
      BY <1>1, <2>2, <2>5, <2>6
  <1>2. CASE ~(s # <<>> /\ s[Len(s)] = "nl")
    <2>1. Chomp(s) = s
      BY <1>2 DEF Chomp
    <2>2. Len(s) # Len(s) - 1
      OBVIOUS
    <2>. QED
      BY <2>1, <2>2
  <1>. QED
    BY <1>1, <1>2

-----------------------------------------------------------------------------
(***************************************************************************)
(* _parse_dual_cidr(): what it takes off is a dual-cidr-length, and what   *)
(* it leaves alone ends in none.                                           *)
(***************************************************************************)
\* The end of a domain-spec is not taken for a length.
LEMMA DomainEnd ==
  ASSUME NEW s \in Seq(Token), DomainOk(s)
  PROVE  /\ Len(s) \in Nat \ {0}
         /\ s[Len(s)] \in {"dom", "nl"}
         /\ Chomp(s) # <<>> /\ Chomp(s)[Len(Chomp(s))] = "dom"
  <1>1. Chomp(s) # <<>> /\ Chomp(s)[Len(Chomp(s))] = "dom"
    BY DEF DomainOk, Ends
  <1>2. Len(Chomp(s)) \in Nat \ {0} /\ Len(s) \in Nat
    BY <1>1, ChompSeq
  <1>. QED
    BY <1>1, <1>2, ChompSeq

\* The two searches of _parse_dual_cidr(), apart.
SixAt(c)  == Len(c) > 1 /\ Ends(c) \in Cidr /\ c[Len(c) - 1] = "/"
FourAt(d) == /\ d # <<>> /\ Ends(d) \in Cidr
             /\ Len(d) > 1 => d[Len(d) - 1] # "/"
SixLess(s) == IF SixAt(Chomp(s)) THEN Prefix(Len(Chomp(s)) - 2, Chomp(s)) ELSE s

LEMMA DualCidrIs ==
  ASSUME NEW s, NEW c, c = Chomp(s), NEW r, r = SixLess(s), NEW d, d = Chomp(r)
  PROVE  /\ DualCidr(s).ok <=> /\ SixAt(c) => Ends(c) \in Fits.v6
                               /\ FourAt(d) => Ends(d) \in Fits.v4
         /\ DualCidr(s).ok =>
              DualCidr(s) = Value(IF FourAt(d) THEN Prefix(Len(d) - 1, d) ELSE r,
                                  IF FourAt(d) THEN Ends(d) ELSE "none",
                                  IF SixAt(c) THEN Ends(c) ELSE "none")
  BY DEF DualCidr, SixAt, FourAt, SixLess, Value, Error

\* What ends in no length, has none.
LEMMA NoCidrEnd ==
  ASSUME NEW s \in Seq(Token), s = <<>> \/ Chomp(s)[Len(Chomp(s))] = "dom"
  PROVE  ~SixAt(Chomp(s)) /\ ~FourAt(Chomp(s))
  <1>1. CASE s = <<>>
    <2>1. Chomp(s) = <<>> /\ Len(Chomp(s)) = 0
      BY <1>1, ChompSeq
    <2>. QED
      BY <2>1 DEF SixAt, FourAt
  <1>2. CASE Chomp(s)[Len(Chomp(s))] = "dom"
    BY <1>2 DEF SixAt, FourAt, Ends, Cidr
  <1>. QED
    BY <1>1, <1>2

\* _parse_dual_cidr() of s and the lengths t after it.
LEMMA DualCidrTakes ==
  ASSUME NEW arg \in Seq(Token), NEW m \in 0..Len(arg),
         Rest(arg, m + 1) \in DualCidrs,
         m = 0 \/ DomainOk(Prefix(m, arg))
  PROVE  DualCidr(arg) = Value(Prefix(m, arg), Four(Rest(arg, m + 1)),
                               Six(Rest(arg, m + 1)))
  <1>1. PICK t \in DualCidrs : t = Rest(arg, m + 1)
    OBVIOUS
  <1>2. PICK P : P = Prefix(m, arg)
    OBVIOUS
  <1>3. /\ t \in Seq(Token) /\ Len(t) = Len(arg) - m
        /\ \A j \in 1..(Len(arg) - m) : t[j] = arg[m + j]
    BY <1>1, RestAfter
  <1>4. /\ P \in Seq(Token) /\ Len(P) = m /\ \A j \in 1..m : P[j] = arg[j]
        /\ m = 0 => P = <<>>
        /\ m = Len(arg) => P = arg
    BY <1>2, PrefixSeq
  <1>5. /\ m # 0 => arg[m] \in {"dom", "nl"}
        /\ P = <<>> \/ Chomp(P)[Len(Chomp(P))] = "dom"
    BY <1>2, <1>4, DomainEnd
  <1>6. CASE t = <<>>
    <2>1. m = Len(arg) /\ P = arg
      BY <1>3, <1>4, <1>6
    <2>2. ~SixAt(Chomp(arg)) /\ ~FourAt(Chomp(arg))
      BY <1>5, <2>1, NoCidrEnd
    <2>3. SixLess(arg) = arg
      BY <2>2 DEF SixLess
    <2>4. DualCidr(arg) = Value(arg, "none", "none")
      BY <2>2, <2>3, DualCidrIs
    <2>5. Four(t) = "none" /\ Six(t) = "none"
      BY <1>6 DEF Four, Six
    <2>. QED
      BY <1>1, <1>2, <2>1, <2>4, <2>5
  <1>7. ASSUME NEW c \in Fits.v4, t = <<c>>
        PROVE  DualCidr(arg) = Value(P, Four(t), Six(t))
    <2>1. Len(arg) = m + 1 /\ arg[m + 1] = "/24" /\ c = "/24"
      BY <1>3, <1>7 DEF Fits
    <2>2. Chomp(arg) = arg
      BY <2>1, ChompSeq
    <2>3. m # 0 => arg[m] # "/"
      BY <1>5
    <2>4. ~SixAt(arg) /\ FourAt(arg) /\ Ends(arg) = "/24"
      BY <2>1, <2>3 DEF SixAt, FourAt, Ends, Cidr
    <2>5. SixLess(arg) = arg
      BY <2>2, <2>4 DEF SixLess
    <2>6. Len(arg) - 1 = m
      BY <2>1
    <2>7. DualCidr(arg) = Value(P, "/24", "none")
      BY <1>2, <2>2, <2>4, <2>5, <2>6, DualCidrIs DEF Fits
    <2>8. Four(t) = "/24" /\ Six(t) = "none"
      BY <1>7, <2>1 DEF Four, Six
    <2>. QED
      BY <2>7, <2>8
  <1>8. ASSUME NEW c \in Fits.v6, t = <<"/", c>>
        PROVE  DualCidr(arg) = Value(P, Four(t), Six(t))
    <2>1. Len(arg) = m + 2 /\ arg[m + 1] = "/" /\ arg[m + 2] = c
      BY <1>3, <1>8
    <2>2. Chomp(arg) = arg
      BY <2>1, ChompSeq DEF Fits
    <2>3. m + 2 - 2 = m /\ m + 2 - 1 = m + 1
      OBVIOUS
    <2>4. SixAt(arg) /\ Ends(arg) = c
      BY <2>1, <2>3 DEF SixAt, Ends, Cidr, Fits
    <2>5. SixLess(arg) = P
      BY <1>2, <2>1, <2>2, <2>3, <2>4 DEF SixLess
    <2>6. ~FourAt(Chomp(P))
      BY <1>4, <1>5, NoCidrEnd
    <2>7. DualCidr(arg) = Value(P, "none", c)
      BY <2>2, <2>4, <2>5, <2>6, DualCidrIs
    <2>8. Four(t) = "none" /\ Six(t) = c
      BY <1>8 DEF Four, Six, Ends
    <2>. QED
      BY <2>7, <2>8
  <1>9. ASSUME NEW c \in Fits.v4, NEW e \in Fits.v6, t = <<c, "/", e>>
        PROVE  DualCidr(arg) = Value(P, Four(t), Six(t))
    <2>1. Len(arg) = m + 3 /\ arg[m + 1] = "/24" /\ c = "/24"
          /\ arg[m + 2] = "/" /\ arg[m + 3] = e
      BY <1>3, <1>9 DEF Fits
    <2>2. Chomp(arg) = arg
      BY <2>1, ChompSeq DEF Fits
    <2>3. PICK d : d = Prefix(m + 1, arg)
      OBVIOUS
    <2>4. d \in Seq(Token) /\ Len(d) = m + 1 /\ d[m + 1] = "/24"
          /\ (m # 0 => d[m] # "/") /\ \A j \in 1..(m + 1) : d[j] = arg[j]
      <3>1. m + 1 \in 0..Len(arg)
        BY <2>1
      <3>2. /\ d \in Seq(Token) /\ Len(d) = m + 1
            /\ \A j \in 1..(m + 1) : d[j] = arg[j]
        BY <2>3, <3>1, PrefixSeq
      <3>. QED
        BY <1>5, <2>1, <3>2
    <2>5. Chomp(d) = d
      BY <2>4, ChompSeq
    <2>6. Prefix(m, d) = P
      BY <1>2, <1>4, <2>1, <2>4 DEF Prefix
    <2>7. m + 3 - 2 = m + 1 /\ m + 3 - 1 = m + 2 /\ m + 1 - 1 = m
      OBVIOUS
    <2>8. SixAt(arg) /\ Ends(arg) = e
      BY <2>1, <2>7 DEF SixAt, Ends, Cidr, Fits
    <2>9. SixLess(arg) = d
      BY <2>1, <2>2, <2>3, <2>7, <2>8 DEF SixLess
    <2>10. FourAt(d) /\ Ends(d) = "/24"
      BY <2>4, <2>7 DEF FourAt, Ends, Cidr
    <2>11. DualCidr(arg) = Value(P, "/24", e)
      <3>1. Prefix(Len(d) - 1, d) = P
        BY <2>4, <2>6, <2>7
      <3>2. DualCidr(arg).ok
        BY <2>2, <2>5, <2>8, <2>9, <2>10, DualCidrIs DEF Fits
      <3>. QED
        BY <2>2, <2>5, <2>8, <2>9, <2>10, <3>1, <3>2, DualCidrIs
    <2>12. Four(t) = "/24" /\ Six(t) = e
      BY <1>9, <2>1 DEF Four, Six, Ends
    <2>. QED
      BY <2>11, <2>12
  <1>. QED
    BY <1>1, <1>2, <1>6, <1>7, <1>8, <1>9 DEF DualCidrs

LEMMA Tuple1 ==
  ASSUME NEW s \in Seq(Token), Len(s) = 1
  PROVE  s = <<s[1]>>
  OBVIOUS

LEMMA Tuple2 ==
  ASSUME NEW s \in Seq(Token), Len(s) = 2
  PROVE  s = <<s[1], s[2]>>
  OBVIOUS

LEMMA Tuple3 ==
  ASSUME NEW s \in Seq(Token), Len(s) = 3
  PROVE  s = <<s[1], s[2], s[3]>>
  OBVIOUS

LEMMA NoLineRest ==
  ASSUME NEW s \in Seq(Token), NoLine(s)
  PROVE  /\ \A i \in 1..(Len(s) + 1) : NoLine(Rest(s, i))
         /\ \A i \in 0..Len(s) : NoLine(Prefix(i, s))
  <1>1. ASSUME NEW i \in 1..(Len(s) + 1) PROVE NoLine(Rest(s, i))
    <2>1. /\ Len(Rest(s, i)) = Len(s) - i + 1
          /\ \A j \in 1..(Len(s) - i + 1) : Rest(s, i)[j] = s[i + j - 1]
      BY RestSeq
    <2>2. ASSUME NEW j \in 1..(Len(s) - i + 1) PROVE Rest(s, i)[j] # "nl"
      <3>1. i + j - 1 \in 1..Len(s)
        OBVIOUS
      <3>. QED
        BY <2>1, <3>1 DEF NoLine
    <2>. QED
      BY <2>1, <2>2 DEF NoLine
  <1>2. ASSUME NEW i \in 0..Len(s) PROVE NoLine(Prefix(i, s))
    <2>1. /\ Len(Prefix(i, s)) = i
          /\ \A j \in 1..i : Prefix(i, s)[j] = s[j]
      BY PrefixSeq
    <2>. QED
      BY <2>1 DEF NoLine
  <1>. QED
    BY <1>1, <1>2

\* What it takes is a domain-spec, or nothing, and the lengths after it.
LEMMA DualCidrGives ==
  ASSUME NEW arg \in Seq(Token), NoLine(arg), DualCidr(arg).ok
  PROVE  \E m \in 0..Len(arg) :
           /\ Rest(arg, m + 1) \in DualCidrs
           /\ DualCidr(arg) = Value(Prefix(m, arg), Four(Rest(arg, m + 1)),
                                    Six(Rest(arg, m + 1)))
  <1>1. Chomp(arg) = arg
    BY ChompSeq
  <1>2. CASE ~SixAt(arg) /\ ~FourAt(arg)
    <2>1. SixLess(arg) = arg
      BY <1>1, <1>2 DEF SixLess
    <2>2. DualCidr(arg) = Value(arg, "none", "none")
      BY <1>1, <1>2, <2>1, DualCidrIs
    <2>3. Prefix(Len(arg), arg) = arg /\ Len(arg) \in 0..Len(arg)
      BY PrefixSeq
    <2>4. Rest(arg, Len(arg) + 1) = <<>>
      BY RestSeq
    <2>5. Four(<<>>) = "none" /\ Six(<<>>) = "none" /\ <<>> \in DualCidrs
      BY DEF Four, Six, DualCidrs
    <2>. QED
      BY <2>2, <2>3, <2>4, <2>5
  <1>3. CASE ~SixAt(arg) /\ FourAt(arg)
    <2>1. SixLess(arg) = arg
      BY <1>1, <1>3 DEF SixLess
    <2>2. PICK c : c = Ends(arg)
      OBVIOUS
    <2>3. c \in Fits.v4
      BY <1>1, <1>3, <2>1, <2>2, DualCidrIs
    <2>4. DualCidr(arg) = Value(Prefix(Len(arg) - 1, arg), c, "none")
      BY <1>1, <1>3, <2>1, <2>2, DualCidrIs
    <2>5. PICK m \in 0..Len(arg) : m = Len(arg) - 1
      <3>1. Len(arg) - 1 \in 0..Len(arg)
        BY <1>3 DEF FourAt
      <3>. QED
        BY <3>1
    <2>6. Rest(arg, m + 1) = <<c>>
      <3>1. Len(arg) - m = 1 /\ m + 1 = Len(arg) /\ 1 \in 1..1
        BY <2>5
      <3>2. /\ Rest(arg, m + 1) \in Seq(Token)
            /\ Len(Rest(arg, m + 1)) = Len(arg) - m
            /\ \A j \in 1..(Len(arg) - m) : Rest(arg, m + 1)[j] = arg[m + j]
        BY RestAfter
      <3>3. Rest(arg, m + 1)[1] = c
        BY <2>2, <3>1, <3>2 DEF Ends
      <3>. QED
        BY <3>1, <3>2, <3>3, Tuple1
    <2>7. Four(<<c>>) = c /\ Six(<<c>>) = "none" /\ <<c>> \in DualCidrs
      BY <2>3 DEF Four, Six, DualCidrs, Fits
    <2>. QED
      BY <2>4, <2>5, <2>6, <2>7
  <1>4. CASE SixAt(arg)
    <2>1. PICK e : e = Ends(arg)
      OBVIOUS
    <2>2. e \in Fits.v6
      BY <1>1, <1>4, <2>1, DualCidrIs
    <2>3. PICK n \in 0..Len(arg) : n = Len(arg) - 2
      <3>1. Len(arg) - 2 \in 0..Len(arg)
        BY <1>4 DEF SixAt
      <3>. QED
        BY <3>1
    <2>4. arg[n + 1] = "/" /\ arg[n + 2] = e /\ Len(arg) = n + 2
      <3>1. n + 2 = Len(arg) /\ n + 1 = Len(arg) - 1
        BY <2>3
      <3>. QED
        BY <1>4, <2>1, <3>1 DEF SixAt, Ends
    <2>5. PICK r : r = Prefix(n, arg)
      OBVIOUS
    <2>6. /\ SixLess(arg) = r /\ r \in Seq(Token) /\ Len(r) = n /\ Chomp(r) = r
          /\ \A j \in 1..n : r[j] = arg[j]
      <3>1. SixLess(arg) = r
        BY <1>1, <1>4, <2>3, <2>5 DEF SixLess
      <3>2. NoLine(r)
        BY <2>5, NoLineRest
      <3>. QED
        BY <2>5, <3>1, <3>2, PrefixSeq, ChompSeq
    <2>7. CASE ~FourAt(r)
      <3>1. DualCidr(arg) = Value(r, "none", e)
        BY <1>1, <1>4, <2>1, <2>6, <2>7, DualCidrIs
      <3>2. Rest(arg, n + 1) = <<"/", e>>
        <4>1. Len(arg) - n = 2 /\ 1 \in 1..2 /\ 2 \in 1..2
          BY <2>4
        <4>2. /\ Rest(arg, n + 1) \in Seq(Token)
              /\ Len(Rest(arg, n + 1)) = Len(arg) - n
              /\ \A j \in 1..(Len(arg) - n) : Rest(arg, n + 1)[j] = arg[n + j]
          BY RestAfter
        <4>3. Rest(arg, n + 1)[1] = "/" /\ Rest(arg, n + 1)[2] = e
          BY <2>4, <4>1, <4>2
        <4>. QED
          BY <4>1, <4>2, <4>3, Tuple2
      <3>3. /\ Four(<<"/", e>>) = "none" /\ Six(<<"/", e>>) = e
            /\ <<"/", e>> \in DualCidrs
        BY <2>2 DEF Four, Six, DualCidrs, Ends
      <3>. QED
        BY <2>5, <3>1, <3>2, <3>3
    <2>8. CASE FourAt(r)
      <3>1. PICK c : c = Ends(r)
        OBVIOUS
      <3>2. c \in Fits.v4
        BY <1>1, <2>6, <2>8, <3>1, DualCidrIs
      <3>3. PICK m \in 0..Len(arg) : m = n - 1
        <4>1. n - 1 \in 0..Len(arg)
          BY <2>6, <2>8 DEF FourAt
        <4>. QED
          BY <4>1
      <3>4. DualCidr(arg) = Value(Prefix(m, r), c, e)
        BY <1>1, <1>4, <2>1, <2>6, <2>8, <3>1, <3>3, DualCidrIs
      <3>5. Prefix(m, r) = Prefix(m, arg)
        <4>1. m \in 0..Len(r) /\ m <= n
          BY <2>6, <3>3
        <4>2. /\ Prefix(m, r) \in Seq(Token) /\ Len(Prefix(m, r)) = m
              /\ \A j \in 1..m : Prefix(m, r)[j] = r[j]
          BY <2>6, <4>1, PrefixSeq
        <4>3. /\ Prefix(m, arg) \in Seq(Token) /\ Len(Prefix(m, arg)) = m
              /\ \A j \in 1..m : Prefix(m, arg)[j] = arg[j]
          BY PrefixSeq
        <4>4. \A j \in 1..m : Prefix(m, r)[j] = Prefix(m, arg)[j]
          BY <2>6, <4>1, <4>2, <4>3
        <4>. QED
          BY <4>2, <4>3, <4>4
      <3>6. arg[m + 1] = c
        <4>1. m + 1 = n /\ n \in 1..n
          BY <3>3
        <4>. QED
          BY <2>6, <3>1, <4>1 DEF Ends
      <3>7. Rest(arg, m + 1) = <<c, "/", e>>
        <4>1. Len(arg) - m = 3 /\ m + 2 = n + 1 /\ m + 3 = n + 2
              /\ 1 \in 1..3 /\ 2 \in 1..3 /\ 3 \in 1..3
          BY <2>4, <3>3
        <4>2. /\ Rest(arg, m + 1) \in Seq(Token)
              /\ Len(Rest(arg, m + 1)) = Len(arg) - m
              /\ \A j \in 1..(Len(arg) - m) : Rest(arg, m + 1)[j] = arg[m + j]
          BY RestAfter
        <4>3. Rest(arg, m + 1)[1] = c /\ Rest(arg, m + 1)[2] = "/"
              /\ Rest(arg, m + 1)[3] = e
          BY <2>4, <3>6, <4>1, <4>2
        <4>. QED
          BY <4>1, <4>2, <4>3, Tuple3
      <3>8. /\ Four(<<c, "/", e>>) = c /\ Six(<<c, "/", e>>) = e
            /\ <<c, "/", e>> \in DualCidrs
        BY <2>2, <3>2 DEF Four, Six, DualCidrs, Ends, Fits
      <3>. QED
        BY <3>4, <3>5, <3>7, <3>8
    <2>. QED
      BY <2>7, <2>8
  <1>. QED
    BY <1>2, <1>3, <1>4

\* The argument of a mechanism, after the ":".
LEMMA AfterColon ==
  ASSUME NEW s \in Seq(Token), s # <<>>, NEW m \in 0..(Len(s) - 1)
  PROVE  /\ Prefix(m, Tail(s)) = SubSeq(s, 2, m + 1)
         /\ Rest(Tail(s), m + 1) = Rest(s, m + 2)
  <1>1. Tail(s) \in Seq(Token) /\ Len(Tail(s)) = Len(s) - 1
        /\ \A j \in 1..(Len(s) - 1) : Tail(s)[j] = s[j + 1]
    BY TailIsRest
  <1>2. Prefix(m, Tail(s)) = SubSeq(s, 2, m + 1)
    BY <1>1 DEF Prefix
  <1>3. Rest(Tail(s), m + 1) = Rest(s, m + 2)
    BY <1>1 DEF Rest
  <1>. QED
    BY <1>2, <1>3

-----------------------------------------------------------------------------
(***************************************************************************)
(* One mechanism of each kind reads what the grammar gives it.             *)
(***************************************************************************)
\* a and mx: what the grammar reads, and what Host() reads.
LEMMA HostReadings ==
  ASSUME NEW nm \in {"a", "mx"}, NEW rest, NEW v
  PROVE  v \in Readings(nm, rest) <=>
           \E n \in {0} \cup 2..Len(rest) :
             /\ n = 0 \/ (rest[1] = ":" /\ DomainOk(SubSeq(rest, 2, n)))
             /\ Rest(rest, n + 1) \in DualCidrs
             /\ v = Value(IF n = 0 THEN NoArg ELSE SubSeq(rest, 2, n),
                          Four(Rest(rest, n + 1)), Six(Rest(rest, n + 1)))
  BY DEF Readings

LEMMA DualCidrsStart ==
  ASSUME NEW t \in DualCidrs
  PROVE  ~Starts(t, ":")
  BY DEF DualCidrs, Starts, Fits

\* a, mx: what the grammar derives is parsed, with the value it derives; and
\* what is parsed is derived.
LEMMA HostTakes ==
  ASSUME NEW nm \in {"a", "mx"}, NEW rest \in Seq(Token),
         NEW v \in Readings(nm, rest)
  PROVE  Host(rest) = v /\ v.ok
  <1>1. PICK n \in {0} \cup 2..Len(rest) :
             /\ n = 0 \/ (rest[1] = ":" /\ DomainOk(SubSeq(rest, 2, n)))
             /\ Rest(rest, n + 1) \in DualCidrs
             /\ v = Value(IF n = 0 THEN NoArg ELSE SubSeq(rest, 2, n),
                          Four(Rest(rest, n + 1)), Six(Rest(rest, n + 1)))
    BY HostReadings
  <1>2. CASE n = 0
    <2>1. Rest(rest, 0 + 1) = rest
      BY DEF Rest
    <2>2. ~Starts(rest, ":")
      BY <1>1, <1>2, <2>1, DualCidrsStart
    <2>3. Prefix(0, rest) = <<>> /\ 0 \in 0..Len(rest)
      BY PrefixSeq
    <2>4. DualCidr(rest) = Value(<<>>, Four(Rest(rest, 0 + 1)), Six(Rest(rest, 0 + 1)))
      BY <1>1, <1>2, <2>3, DualCidrTakes
    <2>5. DualCidr(rest) = v /\ v.arg = <<>> /\ v.ok = TRUE
      BY <1>1, <1>2, <2>4 DEF NoArg, Value
    <2>6. Host(rest) = v
      BY <2>2, <2>5 DEF Host
    <2>. QED
      BY <2>5, <2>6
  <1>3. CASE n \in 2..Len(rest)
    <2>1. PICK m \in 0..(Len(rest) - 1) : m + 1 = n /\ m # 0
      <3>1. n - 1 \in 0..(Len(rest) - 1) /\ n - 1 + 1 = n /\ n - 1 # 0
        BY <1>3
      <3>. QED
        BY <3>1
    <2>2. rest # <<>> /\ Starts(rest, ":")
      BY <1>1, <1>3 DEF Starts
    <2>3. PICK arg \in Seq(Token) : arg = Tail(rest) /\ Len(arg) = Len(rest) - 1
      BY <2>2, TailIsRest
    <2>4. n # 0 /\ m + 2 = n + 1
      BY <1>3, <2>1
    <2>5. /\ Prefix(m, arg) = SubSeq(rest, 2, n)
          /\ Rest(arg, m + 1) = Rest(rest, n + 1)
      BY <2>1, <2>2, <2>3, <2>4, AfterColon
    <2>6. m \in 0..Len(arg)
      BY <2>1, <2>3
    <2>7. DualCidr(arg) = v
      BY <1>1, <2>4, <2>5, <2>6, DualCidrTakes
    <2>8. v.ok = TRUE /\ v.arg = SubSeq(rest, 2, n)
      BY <1>1, <2>4 DEF Value
    <2>9. Host(rest) = v
      BY <1>1, <2>2, <2>3, <2>4, <2>7, <2>8 DEF Host
    <2>. QED
      BY <2>8, <2>9
  <1>. QED
    BY <1>2, <1>3

LEMMA HostGives ==
  ASSUME NEW nm \in {"a", "mx"}, NEW rest \in Seq(Token), NoLine(rest),
         Host(rest).ok
  PROVE  Host(rest) \in Readings(nm, rest)
  <1>1. CASE ~Starts(rest, ":")
    <2>1. DualCidr(rest).ok /\ Host(rest) = DualCidr(rest) /\ DualCidr(rest).arg = <<>>
      BY <1>1 DEF Host, Error
    <2>2. PICK m \in 0..Len(rest) :
            /\ Rest(rest, m + 1) \in DualCidrs
            /\ DualCidr(rest) = Value(Prefix(m, rest), Four(Rest(rest, m + 1)),
                                      Six(Rest(rest, m + 1)))
      BY <2>1, DualCidrGives
    <2>3. Prefix(m, rest) = <<>>
      BY <2>1, <2>2 DEF Value
    <2>4. m = 0
      BY <2>3, PrefixSeq
    <2>. QED
      BY <2>1, <2>2, <2>3, <2>4, HostReadings DEF NoArg
  <1>2. CASE Starts(rest, ":")
    <2>1. rest # <<>> /\ rest[1] = ":"
      BY <1>2 DEF Starts
    <2>2. PICK arg \in Seq(Token) : arg = Tail(rest) /\ Len(arg) = Len(rest) - 1
      BY <2>1, TailIsRest
    <2>3. NoLine(arg)
      <3>1. arg = Rest(rest, 2) /\ 2 \in 1..(Len(rest) + 1)
        BY <2>1, <2>2, TailIsRest
      <3>. QED
        BY <3>1, NoLineRest
    <2>4. /\ DualCidr(arg).ok /\ Host(rest) = DualCidr(arg)
          /\ DomainOk(DualCidr(arg).arg)
      BY <1>2, <2>2 DEF Host, Error
    <2>5. PICK m \in 0..Len(arg) :
            /\ Rest(arg, m + 1) \in DualCidrs
            /\ DualCidr(arg) = Value(Prefix(m, arg), Four(Rest(arg, m + 1)),
                                     Six(Rest(arg, m + 1)))
      BY <2>3, <2>4, DualCidrGives
    <2>6. DomainOk(Prefix(m, arg))
      BY <2>4, <2>5 DEF Value
    <2>7. m # 0
      BY <2>6, PrefixSeq, DomainEnd
    <2>8. PICK n \in {0} \cup 2..Len(rest) : n = m + 1 /\ n # 0 /\ n + 1 = m + 2
      <3>1. m + 1 \in 2..Len(rest) /\ m + 1 # 0 /\ m + 1 + 1 = m + 2
        BY <2>2, <2>7
      <3>. QED
        BY <3>1
    <2>9. m \in 0..(Len(rest) - 1)
      BY <2>2
    <2>10. /\ Prefix(m, arg) = SubSeq(rest, 2, n)
           /\ Rest(arg, m + 1) = Rest(rest, n + 1)
      BY <2>1, <2>2, <2>8, <2>9, AfterColon
    <2>. QED
      BY <2>1, <2>4, <2>5, <2>6, <2>8, <2>10, HostReadings
  <1>. QED
    BY <1>1, <1>2

\* include, exists, ptr and all.
LEMMA NoLengths == Four(<<>>) = "none" /\ Six(<<>>) = "none"
  BY DEF Four, Six

LEMMA TailIs ==
  ASSUME NEW rest \in Seq(Token), Len(rest) > 1
  PROVE  Tail(rest) = SubSeq(rest, 2, Len(rest)) /\ Len(rest) \in 2..Len(rest)
         /\ Len(rest) # 0 /\ rest # <<>>
  <1>1. rest # <<>>
    OBVIOUS
  <1>. QED
    BY <1>1, TailIsRest DEF Rest

\* include, exists; ptr; all.
LEMMA DomainReads ==
  ASSUME NEW nm \in {"include", "exists"}, NEW rest \in Seq(Token)
  PROVE  /\ \A v \in Readings(nm, rest) : Mechanism(nm, rest) = v /\ v.ok
         /\ Mechanism(nm, rest).ok => Mechanism(nm, rest) \in Readings(nm, rest)
  <1> DEFINE taken == Len(rest) > 1 /\ rest[1] = ":" /\ DomainOk(Tail(rest))
             val == Value(Tail(rest), "none", "none")
  <1>1. Readings(nm, rest) = IF taken THEN {val} ELSE {}
    <2>1. CASE Len(rest) > 1
      BY <2>1, TailIs, NoLengths DEF Readings
    <2>2. CASE ~(Len(rest) > 1)
      <3>1. Len(rest) \notin 2..Len(rest)
        BY <2>2
      <3>. QED
        BY <2>2, <3>1 DEF Readings
    <2>. QED
      BY <2>1, <2>2
  <1>2. Mechanism(nm, rest) = IF taken THEN val ELSE Error
    <2>1. Len(rest) > 1 => rest # <<>>
      OBVIOUS
    <2>. QED
      BY <2>1 DEF Mechanism, Domain, Starts
  <1>3. val.ok = TRUE /\ Error.ok = FALSE
    BY DEF Value, Error
  <1>. HIDE DEF taken, val
  <1>. QED
    BY <1>1, <1>2, <1>3

LEMMA PtrReads ==
  ASSUME NEW rest \in Seq(Token)
  PROVE  /\ \A v \in Readings("ptr", rest) : Mechanism("ptr", rest) = v /\ v.ok
         /\ Mechanism("ptr", rest).ok => Mechanism("ptr", rest) \in Readings("ptr", rest)
  <1> DEFINE taken == Len(rest) > 1 /\ rest[1] = ":" /\ DomainOk(Tail(rest))
             none == Value(NoArg, "none", "none")
             val == Value(Tail(rest), "none", "none")
  <1>1. Readings("ptr", rest) = IF rest = <<>> THEN {none} ELSE IF taken THEN {val} ELSE {}
    <2>1. CASE Len(rest) > 1
      BY <2>1, TailIs, NoLengths DEF Readings
    <2>2. CASE Len(rest) = 1
      <3>1. Len(rest) \notin 2..Len(rest) /\ Len(rest) # 0 /\ rest # <<>>
        BY <2>2
      <3>. QED
        BY <2>2, <3>1 DEF Readings
    <2>3. CASE rest = <<>>
      <3>1. 2..Len(rest) = {} /\ Len(rest) = 0
        BY <2>3
      <3>. QED
        BY <2>3, <3>1, NoLengths DEF Readings
    <2>4. rest = <<>> \/ Len(rest) = 1 \/ Len(rest) > 1
      OBVIOUS
    <2>. HIDE DEF none, val, taken
    <2>. QED
      BY <2>1, <2>2, <2>3, <2>4
  <1>2. Mechanism("ptr", rest) = IF rest = <<>> THEN none ELSE IF taken THEN val ELSE Error
    BY DEF Mechanism, Domain, Starts, NoValue
  <1>3. val.ok = TRUE /\ Error.ok = FALSE /\ none.ok = TRUE
    BY DEF Value, Error
  <1>. HIDE DEF taken, val, none
  <1>. QED
    BY <1>1, <1>2, <1>3

LEMMA AllReads ==
  ASSUME NEW rest \in Seq(Token)
  PROVE  /\ \A v \in Readings("all", rest) : Mechanism("all", rest) = v /\ v.ok
         /\ Mechanism("all", rest).ok => Mechanism("all", rest) \in Readings("all", rest)
  <1> DEFINE none == Value(NoArg, "none", "none")
  <1>1. Readings("all", rest) = IF rest = <<>> THEN {none} ELSE {}
    BY NoLengths DEF Readings
  <1>2. Mechanism("all", rest) = IF rest = <<>> THEN none ELSE Error
    BY DEF Mechanism, NoValue
  <1>3. Error.ok = FALSE /\ none.ok = TRUE
    BY DEF Value, Error
  <1>. HIDE DEF none
  <1>. QED
    BY <1>1, <1>2, <1>3

\* ip4 and ip6: a network, and perhaps one length.
NetToken == {"net4", "net6"}
Slash    == Cidr \cup {"/"}

LEMMA SlashToken == NetToken \subseteq Token /\ Cidr \subseteq Token /\ ":" \in Token
  BY DEF NetToken, Token

LEMMA OneToken ==
  ASSUME NEW a \in Token
  PROVE  \E s \in Seq(Token) : s = <<a>> /\ Len(s) = 1 /\ s[1] = a
  <1>1. <<a>> \in Seq(Token)
    OBVIOUS
  <1>2. Len(<<a>>) = 1 /\ <<a>>[1] = a
    OBVIOUS
  <1>. QED
    BY <1>1, <1>2, Zenon

LEMMA TwoTokens ==
  ASSUME NEW a \in Token, NEW b \in Token
  PROVE  \E s \in Seq(Token) : s = <<a, b>> /\ Len(s) = 2 /\ s[1] = a /\ s[2] = b
  <1>1. <<a, b>> \in Seq(Token)
    OBVIOUS
  <1>2. Len(<<a, b>>) = 2 /\ <<a, b>>[1] = a /\ <<a, b>>[2] = b
    OBVIOUS
  <1>. QED
    BY <1>1, <1>2, Zenon

LEMMA OneNet ==
  ASSUME NEW net \in NetToken
  PROVE  /\ <<net>> \in Seq(Token)
         /\ Prefix(1, <<net>>) = <<net>> /\ Rest(<<net>>, 2) = <<>>
         /\ Find(<<net>>, Slash) = 2
         /\ Chomp(<<net>>) = <<net>>
  <1>1. PICK s \in Seq(Token) : s = <<net>> /\ Len(s) = 1 /\ s[1] = net
    BY SlashToken, OneToken
  <1>2. Prefix(1, s) = s
    <2>1. 1 \in 0..Len(s) /\ 1 = Len(s)
      BY <1>1
    <2>. QED
      BY <2>1, PrefixSeq
  <1>3. Rest(s, 2) = <<>>
    <2>1. 2 \in 1..(Len(s) + 1) /\ 2 = Len(s) + 1
      BY <1>1
    <2>. QED
      BY <2>1, RestSeq
  <1>4. Find(s, Slash) = 2
    <2>1. net \notin Slash
      BY DEF NetToken, Slash, Cidr
    <2>2. PICK f : f = Find(s, Slash)
      OBVIOUS
    <2>3. f \in 1..(Len(s) + 1) /\ (f <= Len(s) => s[f] \in Slash)
      BY <2>2, FindFirst
    <2>4. f # 1
      BY <1>1, <2>1, <2>3
    <2>. QED
      BY <1>1, <2>2, <2>3, <2>4
  <1>5. Chomp(s) = s
    BY <1>1, ChompSeq DEF NetToken
  <1>. QED
    BY <1>1, <1>2, <1>3, <1>4, <1>5

LEMMA NetAndLength ==
  ASSUME NEW net \in NetToken, NEW c \in Cidr
  PROVE  /\ <<net, c>> \in Seq(Token)
         /\ Prefix(1, <<net, c>>) = <<net>> /\ Rest(<<net, c>>, 2) = <<c>>
         /\ Find(<<net, c>>, Slash) = 2
         /\ Chomp(<<c>>) = <<c>>
  <1>1. PICK s \in Seq(Token) : s = <<net, c>> /\ Len(s) = 2 /\ s[1] = net /\ s[2] = c
    BY SlashToken, TwoTokens
  <1>2. Prefix(1, s) = <<net>>
    <2>1. PICK p : p = Prefix(1, s)
      OBVIOUS
    <2>2. 1 \in 0..Len(s) /\ 1 \in 1..1
      BY <1>1
    <2>3. p \in Seq(Token) /\ Len(p) = 1 /\ p[1] = net
      BY <1>1, <2>1, <2>2, PrefixSeq
    <2>. QED
      BY <2>1, <2>3, Tuple1
  <1>3. Rest(s, 2) = <<c>>
    <2>1. 1 \in 0..Len(s) /\ 1 \in 1..(Len(s) - 1) /\ 1 + 1 = 2 /\ Len(s) - 1 = 1
      BY <1>1
    <2>2. PICK r : r = Rest(s, 1 + 1)
      OBVIOUS
    <2>3. r \in Seq(Token) /\ Len(r) = 1 /\ r[1] = c
      BY <1>1, <2>1, <2>2, RestAfter
    <2>. QED
      BY <2>1, <2>2, <2>3, Tuple1
  <1>4. Find(s, Slash) = 2
    <2>1. net \notin Slash /\ c \in Slash
      BY DEF NetToken, Slash, Cidr
    <2>2. PICK f : f = Find(s, Slash)
      OBVIOUS
    <2>3. /\ f \in 1..(Len(s) + 1) /\ (f <= Len(s) => s[f] \in Slash)
          /\ \A i \in 1..Len(s) : i < f => s[i] \notin Slash
      BY <2>2, FindFirst
    <2>4. f # 1 /\ ~(2 < f)
      BY <1>1, <2>1, <2>3
    <2>. QED
      BY <1>1, <2>2, <2>3, <2>4
  <1>5. Chomp(<<c>>) = <<c>>
    <2>1. PICK r \in Seq(Token) : r = <<c>> /\ Len(r) = 1 /\ r[1] = c
      BY SlashToken, OneToken
    <2>. QED
      BY <2>1, ChompSeq DEF Cidr
  <1>. QED
    BY <1>1, <1>2, <1>3, <1>4, <1>5

LEMMA Concats ==
  ASSUME NEW net \in NetToken
  PROVE  /\ <<":", net>> \o <<>> = <<":", net>>
         /\ \A c \in Cidr : <<":", net>> \o <<c>> = <<":", net, c>>
  <1>1. PICK s \in Seq(Token) : s = <<":", net>> /\ Len(s) = 2 /\ s[1] = ":" /\ s[2] = net
    BY SlashToken, TwoTokens
  <1>2. ASSUME NEW c \in Cidr PROVE s \o <<c>> = <<":", net, c>>
    <2>1. PICK t \in Seq(Token) : t = <<c>> /\ Len(t) = 1 /\ t[1] = c
      BY SlashToken, OneToken
    <2>2. PICK u : u = s \o t
      OBVIOUS
    <2>3. u \in Seq(Token) /\ Len(u) = 3 /\ u[1] = ":" /\ u[2] = net /\ u[3] = c
      BY <1>1, <2>1, <2>2
    <2>. QED
      BY <2>1, <2>2, <2>3, Tuple3
  <1>3. s \o <<>> = s
    OBVIOUS
  <1>. QED
    BY <1>1, <1>2, <1>3

LEMMA Ip4Readings ==
  ASSUME NEW rest, NEW v
  PROVE  v \in Readings("ip4", rest) <=>
           \/ rest = <<":", "net4">> /\ v = Value(<<"net4">>, "none", "none")
           \/ rest = <<":", "net4", "/24">> /\ v = Value(<<"net4">>, "/24", "none")
  <1>1. /\ <<":", "net4">> \o <<>> = <<":", "net4">>
        /\ <<":", "net4">> \o <<"/24">> = <<":", "net4", "/24">>
    BY Concats DEF NetToken, Cidr
  <1>2. Four(<<"/24">>) = "/24"
    BY DEF Four
  <1>3. v \in Readings("ip4", rest) <=>
          \E c \in {<<>>, <<"/24">>} :
            rest = <<":", "net4">> \o c /\ v = Value(<<"net4">>, Four(c), "none")
    BY DEF Readings
  <1>. QED
    BY <1>1, <1>2, <1>3, NoLengths

\* ip4.
LEMMA Ip4Takes ==
  /\ Ip4(<<"net4">>) = Value(<<"net4">>, "none", "none")
  /\ Ip4(<<"net4", "/24">>) = Value(<<"net4">>, "/24", "none")
  <1>1. Chomp(<<>>) = <<>>
    BY DEF Chomp
  <1>2. <<"/24">> # <<>> /\ Len(<<"/24">>) = 1 /\ <<"/24">>[1] = "/24" /\ 2 - 1 = 1
        /\ "/24" \in Fits.v4 /\ "/24" \in Cidr /\ "net4" \in NetToken
    BY DEF Fits, Cidr, NetToken
  <1>3. Ip4(<<"net4">>) = Value(<<"net4">>, "none", "none")
    BY <1>1, <1>2, OneNet DEF Ip4, Slash
  <1>4. Ip4(<<"net4", "/24">>) = Value(<<"net4">>, "/24", "none")
    <2>1. /\ Prefix(1, <<"net4", "/24">>) = <<"net4">>
          /\ Rest(<<"net4", "/24">>, 2) = <<"/24">>
          /\ Find(<<"net4", "/24">>, Slash) = 2
          /\ Chomp(<<"/24">>) = <<"/24">> /\ Chomp(<<"net4">>) = <<"net4">>
      BY <1>2, OneNet, NetAndLength
    <2>. QED
      BY <1>2, <2>1 DEF Ip4, Slash
  <1>. QED
    BY <1>3, <1>4

LEMMA Ip4Gives ==
  ASSUME NEW value \in Seq(Token), NoLine(value), Ip4(value).ok
  PROVE  value = <<"net4">> \/ value = <<"net4", "/24">>
  <1>1. PICK at : at = Find(value, Slash)
    OBVIOUS
  <1>2. at \in 1..(Len(value) + 1)
    BY <1>1, FindFirst
  <1>3. PICK n \in 0..Len(value) : n + 1 = at /\ at - 1 = n
    <2>1. at - 1 \in 0..Len(value) /\ (at - 1) + 1 = at
      BY <1>2
    <2>. QED
      BY <2>1
  <1>4. PICK net, cidr : net = Prefix(n, value) /\ cidr = Rest(value, n + 1)
    OBVIOUS
  <1>5. Chomp(net) = net /\ Chomp(cidr) = cidr
    BY <1>2, <1>3, <1>4, PrefixSeq, RestAfter, NoLineRest, ChompSeq
  <1>6. /\ net = <<"net4">>
        /\ cidr = <<>> \/ (Len(cidr) = 1 /\ cidr[1] \in Fits.v4)
    BY <1>1, <1>3, <1>4, <1>5 DEF Ip4, Slash, Error
  <1>7. net \in Seq(Token) /\ Len(net) = n /\ \A j \in 1..n : net[j] = value[j]
    BY <1>4, PrefixSeq
  <1>8. /\ cidr \in Seq(Token) /\ Len(cidr) = Len(value) - n
        /\ \A j \in 1..(Len(value) - n) : cidr[j] = value[n + j]
    BY <1>4, RestAfter
  <1>9. n = 1 /\ value[1] = "net4"
    <2>1. Len(net) = 1 /\ net[1] = "net4"
      BY <1>6
    <2>. QED
      BY <1>7, <2>1
  <1>10. CASE cidr = <<>>
    <2>1. Len(value) = 1
      BY <1>8, <1>9, <1>10
    <2>. QED
      BY <1>9, <2>1, Tuple1
  <1>11. CASE Len(cidr) = 1 /\ cidr[1] \in Fits.v4
    <2>1. Len(value) = 2 /\ value[2] = cidr[1]
      <3>1. Len(value) = 2
        <4>1. Len(cidr) = 1 /\ Len(cidr) = Len(value) - n /\ n = 1
          BY <1>8, <1>9, <1>11
        <4>2. Len(value) \in Nat
          OBVIOUS
        <4>3. Len(value) - 1 = 1
          BY <4>1
        <4>. QED
          BY <4>2, <4>3
      <3>2. 1 \in 1..(Len(value) - n) /\ n + 1 = 2
        BY <1>9, <3>1
      <3>. QED
        BY <1>8, <3>1, <3>2
    <2>. QED
      BY <1>9, <1>11, <2>1, Tuple2 DEF Fits
  <1>. QED
    BY <1>6, <1>10, <1>11

\* The last slash, or the position after the end.
LastSlash(s) ==
  LET slashes == {i \in 1..Len(s) : s[i] \in Slash}
  IN  IF slashes = {} THEN Len(s) + 1
      ELSE CHOOSE i \in slashes : \A j \in slashes : j <= i

LEMMA LastSlashIs ==
  ASSUME NEW s \in Seq(Token)
  PROVE  /\ LastSlash(s) \in 1..(Len(s) + 1)
         /\ \A i \in 1..Len(s) : LastSlash(s) < i => s[i] \notin Slash
         /\ LastSlash(s) <= Len(s) => s[LastSlash(s)] \in Slash
         /\ LastSlash(s) > Len(s) => \A i \in 1..Len(s) : s[i] \notin Slash
  <1> DEFINE at == {i \in 1..Len(s) : s[i] \in Slash}
  <1>1. CASE at = {}
    <2>1. LastSlash(s) = Len(s) + 1
      BY <1>1 DEF LastSlash
    <2>. QED
      BY <1>1, <2>1
  <1>2. CASE at # {}
    <2>1. \E i \in at : \A j \in at : j <= i
      <3> DEFINE S == {n \in Nat : n <= Len(s) /\ Len(s) - n \in at}
      <3>1. S # {}
        <4>1. PICK i \in at : TRUE
          BY <1>2
        <4>2. Len(s) - i \in Nat /\ Len(s) - i <= Len(s) /\ Len(s) - (Len(s) - i) = i
          OBVIOUS
        <4>. QED
          BY <4>1, <4>2
      <3>2. PICK n \in S : \A m \in S : n <= m
        <4>1. S \subseteq Nat
          OBVIOUS
        <4>. HIDE DEF S
        <4>. QED
          BY <3>1, <4>1, LeastNumber
      <3>3. Len(s) - n \in at
        BY <3>2
      <3>4. ASSUME NEW j \in at PROVE j <= Len(s) - n
        <4>1. Len(s) - j \in S
          <5>1. Len(s) - j \in Nat /\ Len(s) - j <= Len(s) /\ Len(s) - (Len(s) - j) = j
            OBVIOUS
          <5>. QED
            BY <5>1
        <4>2. n <= Len(s) - j
          BY <3>2, <4>1
        <4>. QED
          BY <4>2
      <3>. QED
        BY <3>3, <3>4
    <2>2. LastSlash(s) = CHOOSE i \in at : \A j \in at : j <= i
      BY <1>2 DEF LastSlash
    <2>3. LastSlash(s) \in at /\ \A j \in at : j <= LastSlash(s)
      BY <2>1, <2>2
    <2>. QED
      BY <2>3
  <1>. QED
    BY <1>1, <1>2

LEMMA LastOfNet ==
  ASSUME NEW net \in NetToken
  PROVE  /\ LastSlash(<<net>>) = 2
         /\ \A c \in Cidr : LastSlash(<<net, c>>) = 2
  <1>1. net \notin Slash /\ Cidr \subseteq Slash
    BY DEF NetToken, Slash, Cidr
  <1>2. LastSlash(<<net>>) = 2
    <2>1. PICK s \in Seq(Token) : s = <<net>> /\ Len(s) = 1 /\ s[1] = net
      BY SlashToken, OneToken
    <2>2. PICK f : f = LastSlash(s)
      OBVIOUS
    <2>3. f \in 1..(Len(s) + 1) /\ (f <= Len(s) => s[f] \in Slash)
      BY <2>2, LastSlashIs
    <2>4. f # 1
      BY <1>1, <2>1, <2>3
    <2>. QED
      BY <2>1, <2>2, <2>3, <2>4
  <1>3. ASSUME NEW c \in Cidr PROVE LastSlash(<<net, c>>) = 2
    <2>1. PICK s \in Seq(Token) : s = <<net, c>> /\ Len(s) = 2 /\ s[1] = net /\ s[2] = c
      BY SlashToken, TwoTokens
    <2>2. PICK f : f = LastSlash(s)
      OBVIOUS
    <2>3. /\ f \in 1..(Len(s) + 1) /\ (f <= Len(s) => s[f] \in Slash)
          /\ f > Len(s) => \A i \in 1..Len(s) : s[i] \notin Slash
      BY <2>2, LastSlashIs
    <2>4. f # 1
      BY <1>1, <2>1, <2>3
    <2>5. ~(f > 2)
      BY <1>1, <2>1, <2>3
    <2>. QED
      BY <2>1, <2>2, <2>3, <2>4, <2>5
  <1>. QED
    BY <1>2, <1>3

LEMMA Ip6Is ==
  ASSUME NEW value, NEW at, at = LastSlash(value),
         NEW net, net = Prefix(at - 1, value),
         NEW cidr, cidr = Chomp(Rest(value, at))
  PROVE  Ip6(value) =
           IF \/ at <= Len(value) /\ ~(Len(cidr) = 1 /\ cidr[1] \in Fits.v6)
              \/ net # <<"net6">>
           THEN Error
           ELSE Value(<<"net6">>, "none", IF cidr = <<>> THEN "none" ELSE cidr[1])
  BY DEF Ip6, LastSlash, Slash

\* ip6, whose address and length are cut at the last slash.
LEMMA Ip6Takes ==
  /\ Ip6(<<"net6">>) = Value(<<"net6">>, "none", "none")
  /\ \A c \in Fits.v6 : Ip6(<<"net6", c>>) = Value(<<"net6">>, "none", c)
  <1>1. "net6" \in NetToken /\ Fits.v6 \subseteq Cidr /\ 2 - 1 = 1 /\ ~(2 <= 1)
    BY DEF NetToken, Cidr, Fits
  <1>2. Ip6(<<"net6">>) = Value(<<"net6">>, "none", "none")
    <2>1. /\ LastSlash(<<"net6">>) = 2
          /\ Prefix(1, <<"net6">>) = <<"net6">> /\ Rest(<<"net6">>, 2) = <<>>
      BY <1>1, LastOfNet, OneNet
    <2>2. Chomp(<<>>) = <<>> /\ Len(<<"net6">>) = 1
      BY DEF Chomp
    <2>. QED
      BY <1>1, <2>1, <2>2, Ip6Is
  <1>3. ASSUME NEW c \in Fits.v6 PROVE Ip6(<<"net6", c>>) = Value(<<"net6">>, "none", c)
    <2>1. /\ LastSlash(<<"net6", c>>) = 2
          /\ Prefix(1, <<"net6", c>>) = <<"net6">> /\ Rest(<<"net6", c>>, 2) = <<c>>
          /\ Chomp(<<c>>) = <<c>>
      BY <1>1, LastOfNet, NetAndLength
    <2>2. Len(<<c>>) = 1 /\ <<c>>[1] = c /\ <<c>> # <<>>
      OBVIOUS
    <2>. QED
      BY <1>1, <2>1, <2>2, Ip6Is
  <1>. QED
    BY <1>2, <1>3

LEMMA Ip6Gives ==
  ASSUME NEW value \in Seq(Token), NoLine(value), Ip6(value).ok
  PROVE  value = <<"net6">> \/ \E c \in Fits.v6 : value = <<"net6", c>>
  <1>1. PICK at : at = LastSlash(value)
    OBVIOUS
  <1>2. at \in 1..(Len(value) + 1)
    BY <1>1, LastSlashIs
  <1>3. PICK n \in 0..Len(value) : n + 1 = at /\ at - 1 = n
    <2>1. at - 1 \in 0..Len(value) /\ (at - 1) + 1 = at
      BY <1>2
    <2>. QED
      BY <2>1
  <1>4. PICK net, cidr : net = Prefix(n, value) /\ cidr = Rest(value, n + 1)
    OBVIOUS
  <1>5. Chomp(cidr) = cidr
    BY <1>2, <1>3, <1>4, RestAfter, NoLineRest, ChompSeq
  <1>6. /\ net = <<"net6">>
        /\ at <= Len(value) => Len(cidr) = 1 /\ cidr[1] \in Fits.v6
    BY <1>1, <1>3, <1>4, <1>5, Ip6Is DEF Error
  <1>7. net \in Seq(Token) /\ Len(net) = n /\ \A j \in 1..n : net[j] = value[j]
    BY <1>4, PrefixSeq
  <1>8. /\ cidr \in Seq(Token) /\ Len(cidr) = Len(value) - n
        /\ \A j \in 1..(Len(value) - n) : cidr[j] = value[n + j]
    BY <1>4, RestAfter
  <1>9. n = 1 /\ value[1] = "net6"
    <2>1. Len(net) = 1 /\ net[1] = "net6"
      BY <1>6
    <2>. QED
      BY <1>7, <2>1
  <1>10. CASE ~(at <= Len(value))
    <2>1. Len(value) = 1
      <3>1. at = 2
        BY <1>3, <1>9
      <3>2. PICK k \in Nat : k = Len(value)
        OBVIOUS
      <3>3. 2 \in 1..(k + 1) /\ ~(2 <= k)
        BY <1>2, <1>10, <3>1, <3>2
      <3>4. k = 1
        BY <3>3
      <3>. QED
        BY <3>2, <3>4
    <2>. QED
      BY <1>9, <2>1, Tuple1
  <1>11. CASE at <= Len(value)
    <2>1. Len(value) = 2 /\ value[2] = cidr[1]
      <3>1. Len(value) = 2
        <4>1. Len(value) - 1 = 1 /\ Len(value) \in Nat
          BY <1>6, <1>8, <1>9, <1>11
        <4>. QED
          BY <4>1
      <3>2. 1 \in 1..(Len(value) - n) /\ n + 1 = 2
        BY <1>9, <3>1
      <3>. QED
        BY <1>8, <3>1, <3>2
    <2>2. value = <<"net6", cidr[1]>>
      BY <1>9, <2>1, Tuple2
    <2>. QED
      BY <1>6, <1>11, <2>2
  <1>. QED
    BY <1>10, <1>11

LEMMA Ip6Readings ==
  ASSUME NEW rest, NEW v
  PROVE  v \in Readings("ip6", rest) <=>
           \/ rest = <<":", "net6">> /\ v = Value(<<"net6">>, "none", "none")
           \/ \E c \in Fits.v6 :
                rest = <<":", "net6", c>> /\ v = Value(<<"net6">>, "none", c)
  <1>1. /\ <<":", "net6">> \o <<>> = <<":", "net6">>
        /\ <<":", "net6">> \o <<"/24">> = <<":", "net6", "/24">>
        /\ <<":", "net6">> \o <<"/64">> = <<":", "net6", "/64">>
    BY Concats DEF NetToken, Cidr
  <1>2. Four(<<"/24">>) = "/24" /\ Four(<<"/64">>) = "/64"
    BY DEF Four
  <1>3. v \in Readings("ip6", rest) <=>
          \E c \in {<<>>, <<"/24">>, <<"/64">>} :
            rest = <<":", "net6">> \o c /\ v = Value(<<"net6">>, "none", Four(c))
    BY DEF Readings
  <1>4. Fits.v6 = {"/24", "/64"}
    BY DEF Fits
  <1>. QED
    BY <1>1, <1>2, <1>3, <1>4, NoLengths

LEMMA ColonTail ==
  ASSUME NEW rest \in Seq(Token), NEW a \in Token
  PROVE  /\ rest = <<":", a>> <=> rest # <<>> /\ rest[1] = ":" /\ Tail(rest) = <<a>>
         /\ \A b \in Token : rest = <<":", a, b>> <=>
              rest # <<>> /\ rest[1] = ":" /\ Tail(rest) = <<a, b>>
  <1>1. ASSUME rest # <<>>
        PROVE  /\ Len(Tail(rest)) = Len(rest) - 1 /\ Tail(rest) \in Seq(Token)
               /\ \A j \in 1..(Len(rest) - 1) : Tail(rest)[j] = rest[j + 1]
    BY <1>1, TailIsRest
  <1>2. ASSUME rest = <<":", a>> PROVE rest # <<>> /\ rest[1] = ":" /\ Tail(rest) = <<a>>
    <2>1. Len(rest) = 2 /\ rest # <<>> /\ rest[1] = ":" /\ rest[2] = a
      BY <1>2
    <2>2. 1 \in 1..(Len(rest) - 1) /\ 1 + 1 = 2 /\ Len(rest) - 1 = 1
      BY <2>1
    <2>3. Len(Tail(rest)) = 1 /\ Tail(rest)[1] = a /\ Tail(rest) \in Seq(Token)
      BY <1>1, <2>1, <2>2
    <2>. QED
      BY <2>1, <2>3, Tuple1
  <1>3. ASSUME rest # <<>>, rest[1] = ":", Tail(rest) = <<a>> PROVE rest = <<":", a>>
    <2>1. Len(Tail(rest)) = 1 /\ Tail(rest)[1] = a
      <3>1. Len(<<a>>) = 1 /\ <<a>>[1] = a
        OBVIOUS
      <3>. QED
        BY <1>3, <3>1, Zenon
    <2>2. PICK k \in Nat : k = Len(rest)
      OBVIOUS
    <2>3. k - 1 = 1
      BY <1>1, <1>3, <2>1, <2>2
    <2>4. k = 2 /\ 1 \in 1..(k - 1) /\ 1 + 1 = 2
      BY <2>3
    <2>5. rest[2] = a
      BY <1>1, <1>3, <2>1, <2>2, <2>4
    <2>. QED
      BY <1>3, <2>2, <2>4, <2>5, Tuple2
  <1>4. ASSUME NEW b \in Token, rest = <<":", a, b>>
        PROVE  rest # <<>> /\ rest[1] = ":" /\ Tail(rest) = <<a, b>>
    <2>1. Len(rest) = 3 /\ rest # <<>> /\ rest[1] = ":" /\ rest[2] = a /\ rest[3] = b
      BY <1>4
    <2>2. /\ 1 \in 1..(Len(rest) - 1) /\ 2 \in 1..(Len(rest) - 1)
          /\ 1 + 1 = 2 /\ 2 + 1 = 3 /\ Len(rest) - 1 = 2
      BY <2>1
    <2>3. /\ Len(Tail(rest)) = 2 /\ Tail(rest)[1] = a /\ Tail(rest)[2] = b
          /\ Tail(rest) \in Seq(Token)
      BY <1>1, <2>1, <2>2
    <2>. QED
      BY <2>1, <2>3, Tuple2
  <1>5. ASSUME NEW b \in Token, rest # <<>>, rest[1] = ":", Tail(rest) = <<a, b>>
        PROVE  rest = <<":", a, b>>
    <2>1. Len(Tail(rest)) = 2 /\ Tail(rest)[1] = a /\ Tail(rest)[2] = b
      <3>1. Len(<<a, b>>) = 2 /\ <<a, b>>[1] = a /\ <<a, b>>[2] = b
        OBVIOUS
      <3>. QED
        BY <1>5, <3>1, Zenon
    <2>2. PICK k \in Nat : k = Len(rest)
      OBVIOUS
    <2>3. k - 1 = 2
      BY <1>1, <1>5, <2>1, <2>2
    <2>4. k = 3 /\ 1 \in 1..(k - 1) /\ 2 \in 1..(k - 1) /\ 1 + 1 = 2 /\ 2 + 1 = 3
      BY <2>3
    <2>5. rest[2] = a /\ rest[3] = b
      BY <1>1, <1>5, <2>1, <2>2, <2>4
    <2>. QED
      BY <1>5, <2>2, <2>4, <2>5, Tuple3
  <1>. QED
    BY <1>2, <1>3, <1>4, <1>5

LEMMA GivenIs ==
  ASSUME NEW rest \in Seq(Token)
  PROVE  /\ Starts(rest, ":") <=> rest # <<>> /\ rest[1] = ":"
         /\ rest # <<>> => (Len(rest) > 1 <=> Tail(rest) # <<>>)
  <1>1. ASSUME rest # <<>> PROVE Len(rest) > 1 <=> Tail(rest) # <<>>
    <2>1. Len(Tail(rest)) = Len(rest) - 1 /\ Tail(rest) \in Seq(Token)
      BY <1>1, TailIsRest
    <2>2. Len(rest) \in Nat /\ Len(Tail(rest)) \in Nat
      BY <2>1
    <2>3. Tail(rest) # <<>> <=> Len(Tail(rest)) # 0
      <3>1. \A t \in Seq(Token) : t # <<>> <=> Len(t) # 0
        OBVIOUS
      <3>. QED
        BY <2>1, <3>1, Zenon
    <2>. QED
      BY <2>1, <2>2, <2>3
  <1>. QED
    BY <1>1 DEF Starts

LEMMA NoLineTail ==
  ASSUME NEW s \in Seq(Token), s # <<>>, NoLine(s)
  PROVE  NoLine(Tail(s))
  <1>1. Tail(s) = Rest(s, 2) /\ 2 \in 1..(Len(s) + 1)
    BY TailIsRest
  <1>. QED
    BY <1>1, NoLineRest

LEMMA NetReads ==
  ASSUME NEW nm \in {"ip4", "ip6"}, NEW rest \in Seq(Token)
  PROVE  /\ \A v \in Readings(nm, rest) : Mechanism(nm, rest) = v /\ v.ok
         /\ NoLine(rest) /\ Mechanism(nm, rest).ok
              => Mechanism(nm, rest) \in Readings(nm, rest)
  <1> DEFINE given == rest # <<>> /\ rest[1] = ":" /\ Tail(rest) # <<>>
  <1>1. /\ Mechanism("ip4", rest) = IF given THEN Ip4(Tail(rest)) ELSE Error
        /\ Mechanism("ip6", rest) = IF given THEN Ip6(Tail(rest)) ELSE Error
    BY GivenIs DEF Mechanism
  <1>2. /\ "net4" \in Token /\ "net6" \in Token /\ "/24" \in Token
        /\ Fits.v6 \subseteq Token
    BY DEF Token, Cidr, Fits
  <1>3. \A a : <<a>> # <<>> /\ \A b : <<a, b>> # <<>>
    OBVIOUS
  <1>4. \A a, v4, v6 : Value(a, v4, v6).ok = TRUE /\ Error.ok = FALSE
    BY DEF Value, Error
  <1>5. CASE nm = "ip4"
    <2>1. ASSUME NEW v \in Readings("ip4", rest)
          PROVE  Mechanism("ip4", rest) = v /\ v.ok
      <3>1. CASE rest = <<":", "net4">> /\ v = Value(<<"net4">>, "none", "none")
        <4>1. given /\ Tail(rest) = <<"net4">>
          BY <1>2, <1>3, <3>1, ColonTail
        <4>. QED
          BY <1>1, <1>4, <3>1, <4>1, Ip4Takes
      <3>2. CASE rest = <<":", "net4", "/24">> /\ v = Value(<<"net4">>, "/24", "none")
        <4>1. given /\ Tail(rest) = <<"net4", "/24">>
          BY <1>2, <1>3, <3>2, ColonTail
        <4>. QED
          BY <1>1, <1>4, <3>2, <4>1, Ip4Takes
      <3>. QED
        BY <2>1, <3>1, <3>2, Ip4Readings
    <2>2. ASSUME NoLine(rest), Mechanism("ip4", rest).ok
          PROVE  Mechanism("ip4", rest) \in Readings("ip4", rest)
      <3>1. given /\ Ip4(Tail(rest)).ok /\ Mechanism("ip4", rest) = Ip4(Tail(rest))
        BY <1>1, <1>4, <2>2
      <3>2. Tail(rest) \in Seq(Token) /\ NoLine(Tail(rest))
        BY <2>2, <3>1, TailIsRest, NoLineTail
      <3>3. Tail(rest) = <<"net4">> \/ Tail(rest) = <<"net4", "/24">>
        BY <3>1, <3>2, Ip4Gives
      <3>4. CASE Tail(rest) = <<"net4">>
        <4>1. rest = <<":", "net4">>
          BY <1>2, <3>1, <3>4, ColonTail
        <4>. QED
          BY <3>1, <3>4, <4>1, Ip4Takes, Ip4Readings
      <3>5. CASE Tail(rest) = <<"net4", "/24">>
        <4>1. rest = <<":", "net4", "/24">>
          BY <1>2, <3>1, <3>5, ColonTail
        <4>. QED
          BY <3>1, <3>5, <4>1, Ip4Takes, Ip4Readings
      <3>. QED
        BY <3>3, <3>4, <3>5
    <2>. QED
      BY <1>5, <2>1, <2>2
  <1>6. CASE nm = "ip6"
    <2>1. ASSUME NEW v \in Readings("ip6", rest)
          PROVE  Mechanism("ip6", rest) = v /\ v.ok
      <3>1. CASE rest = <<":", "net6">> /\ v = Value(<<"net6">>, "none", "none")
        <4>1. given /\ Tail(rest) = <<"net6">>
          BY <1>2, <1>3, <3>1, ColonTail
        <4>. QED
          BY <1>1, <1>4, <3>1, <4>1, Ip6Takes
      <3>2. ASSUME NEW c \in Fits.v6, rest = <<":", "net6", c>>,
                   v = Value(<<"net6">>, "none", c)
            PROVE  Mechanism("ip6", rest) = v /\ v.ok
        <4>1. given /\ Tail(rest) = <<"net6", c>>
          BY <1>2, <1>3, <3>2, ColonTail
        <4>. QED
          BY <1>1, <1>4, <3>2, <4>1, Ip6Takes
      <3>. QED
        BY <2>1, <3>1, <3>2, Ip6Readings
    <2>2. ASSUME NoLine(rest), Mechanism("ip6", rest).ok
          PROVE  Mechanism("ip6", rest) \in Readings("ip6", rest)
      <3>1. given /\ Ip6(Tail(rest)).ok /\ Mechanism("ip6", rest) = Ip6(Tail(rest))
        BY <1>1, <1>4, <2>2
      <3>2. Tail(rest) \in Seq(Token) /\ NoLine(Tail(rest))
        BY <2>2, <3>1, TailIsRest, NoLineTail
      <3>3. Tail(rest) = <<"net6">> \/ \E c \in Fits.v6 : Tail(rest) = <<"net6", c>>
        BY <3>1, <3>2, Ip6Gives
      <3>4. CASE Tail(rest) = <<"net6">>
        <4>1. rest = <<":", "net6">>
          BY <1>2, <3>1, <3>4, ColonTail
        <4>. QED
          BY <3>1, <3>4, <4>1, Ip6Takes, Ip6Readings
      <3>5. ASSUME NEW c \in Fits.v6, Tail(rest) = <<"net6", c>>
            PROVE  Mechanism("ip6", rest) \in Readings("ip6", rest)
        <4>1. rest = <<":", "net6", c>>
          BY <1>2, <3>1, <3>5, ColonTail
        <4>. QED
          BY <3>1, <3>5, <4>1, Ip6Takes, Ip6Readings
      <3>. QED
        BY <3>3, <3>4, <3>5
    <2>. QED
      BY <1>6, <2>1, <2>2
  <1>. QED
    BY <1>5, <1>6

\* Each mechanism is read the one way the grammar reads it, or not at all.
LEMMA MechanismReads ==
  ASSUME NEW nm \in Mechanisms, NEW rest \in Seq(Token)
  PROVE  /\ \A v \in Readings(nm, rest) : Mechanism(nm, rest) = v /\ v.ok
         /\ NoLine(rest) /\ Mechanism(nm, rest).ok
              => Mechanism(nm, rest) \in Readings(nm, rest)
  <1>1. CASE nm \in {"a", "mx"}
    <2>1. Mechanism(nm, rest) = Host(rest)
      BY <1>1 DEF Mechanism
    <2>. QED
      BY <1>1, <2>1, HostTakes, HostGives
  <1>2. CASE nm \in {"include", "exists"}
    BY <1>2, DomainReads
  <1>3. CASE nm = "ptr"
    BY <1>3, PtrReads
  <1>4. CASE nm = "all"
    BY <1>4, AllReads
  <1>5. CASE nm \in {"ip4", "ip6"}
    BY <1>5, NetReads
  <1>. QED
    BY <1>1, <1>2, <1>3, <1>4, <1>5 DEF Mechanisms

-----------------------------------------------------------------------------
(***************************************************************************)
(* A whole term.                                                           *)
(***************************************************************************)
Separators == {":", "/"} \cup Cidr

\* The two sets of Legal(): the directive and the modifier a term may be.
Directives(head) ==
  {Term(TRUE, head[1], v) :
     v \in IF head # <<>> /\ head[1] \in Mechanisms
           THEN Readings(head[1], Tail(head)) ELSE {}}

IsNamed(raw, n) ==
  /\ raw[n + 1] = "=" /\ NameOk(Prefix(n, raw))
  /\ MacroOk(Rest(raw, n + 2))
  /\ ModName(Prefix(n, raw)) \in {"redirect", "exp"} => DomainOk(Rest(raw, n + 2))

NamedTerm(raw, n) ==
  Term(FALSE, ModName(Prefix(n, raw)), Value(Rest(raw, n + 2), "none", "none"))

LEMMA LegalIs ==
  ASSUME NEW raw
  PROVE  Legal(raw) = Directives(HeadOf(raw))
                        \cup {NamedTerm(raw, n) :
                                n \in {m \in 1..(Len(raw) - 1) : IsNamed(raw, m)}}
  BY DEF Legal, Directives, IsNamed, NamedTerm

LEMMA HeadSeq ==
  ASSUME NEW raw \in Seq(Token), raw # <<>>
  PROVE  /\ HeadOf(raw) \in Seq(Token)
         /\ NoLine(raw) => NoLine(HeadOf(raw))
         /\ ~Qualified(raw) => HeadOf(raw) = raw
  BY TailIsRest, NoLineTail DEF HeadOf

\* The name of a term is its first token when a separator follows it.
LEMMA SecondIs ==
  ASSUME NEW s \in Seq(Token), NEW cs, s # <<>>, s[1] \notin cs
  PROVE  /\ Find(s, cs) \in 2..(Len(s) + 1)
         /\ Find(s, cs) = 2 <=> Len(s) = 1 \/ s[2] \in cs
  <1>1. PICK f : f = Find(s, cs)
    OBVIOUS
  <1>2. PICK k \in Nat : k = Len(s) /\ k # 0
    OBVIOUS
  <1>3. /\ f \in 1..(k + 1)
        /\ \A i \in 1..k : i < f => s[i] \notin cs
        /\ f <= k => s[f] \in cs
    BY <1>1, <1>2, FindFirst
  <1>4. f # 1
    BY <1>2, <1>3
  <1>5. ASSUME f = 2 PROVE k = 1 \/ s[2] \in cs
    BY <1>2, <1>3, <1>5
  <1>6. ASSUME k = 1 PROVE f = 2
    BY <1>3, <1>4, <1>6
  <1>7. ASSUME s[2] \in cs, k # 1 PROVE f = 2
    <2>1. 2 \in 1..k
      BY <1>2, <1>7
    <2>2. ~(2 < f)
      BY <1>3, <1>7, <2>1
    <2>. QED
      BY <1>3, <1>4, <2>2
  <1>. QED
    BY <1>1, <1>2, <1>3, <1>4, <1>5, <1>6, <1>7

\* Find() stops at the first token of cs.
LEMMA FindIs ==
  ASSUME NEW s \in Seq(Token), NEW cs, NEW k \in 1..Len(s), s[k] \in cs,
         \A i \in 1..(k - 1) : s[i] \notin cs
  PROVE  Find(s, cs) = k
  <1>1. PICK f : f = Find(s, cs)
    OBVIOUS
  <1>2. /\ f \in 1..(Len(s) + 1)
        /\ \A i \in 1..Len(s) : i < f => s[i] \notin cs
        /\ f <= Len(s) => s[f] \in cs
    BY <1>1, FindFirst
  <1>3. f <= k
    BY <1>2
  <1>4. f \notin 1..(k - 1)
    BY <1>2
  <1>. QED
    BY <1>1, <1>2, <1>3, <1>4

\* What the grammar lets follow the name of a mechanism.
LEMMA ReadingsStart ==
  ASSUME NEW nm \in Mechanisms, NEW rest \in Seq(Token),
         Readings(nm, rest) # {}
  PROVE  rest = <<>> \/ rest[1] \in Separators
  <1>1. PICK v \in Readings(nm, rest) : TRUE
    OBVIOUS
  <1>2. ":" \in Separators
    BY DEF Separators
  <1>3. CASE nm \in {"a", "mx"}
    <2>1. PICK n \in {0} \cup 2..Len(rest) :
             /\ n = 0 \/ (rest[1] = ":" /\ DomainOk(SubSeq(rest, 2, n)))
             /\ Rest(rest, n + 1) \in DualCidrs
      BY <1>1, <1>3, HostReadings
    <2>2. CASE n = 0
      <3>1. Rest(rest, 0 + 1) = rest
        BY DEF Rest
      <3>2. rest \in DualCidrs
        BY <2>1, <2>2, <3>1
      <3>3. ASSUME NEW t \in DualCidrs PROVE t = <<>> \/ t[1] \in Separators
        BY <3>3 DEF DualCidrs, Separators, Cidr, Fits
      <3>. QED
        BY <3>2, <3>3
    <2>. QED
      BY <1>2, <2>1, <2>2
  <1>4. CASE nm \in {"include", "exists", "ptr", "ip4", "ip6"}
    <2>1. Mechanism(nm, rest).ok
      BY <1>1, MechanismReads
    <2>. QED
      BY <1>2, <1>4, <2>1, GivenIs
         DEF Mechanism, Domain, NoValue, Error, Value
  <1>5. CASE nm = "all"
    BY <1>1, <1>5 DEF Readings
  <1>. QED
    BY <1>3, <1>4, <1>5 DEF Mechanisms

LEMMA NameTokens ==
  ASSUME NEW x \in Words \cup {"net4"}
  PROVE  x \notin Separators /\ x # "=" /\ x # "+" /\ x # "nl"
  BY DEF Words, TermNames, Mechanisms, Separators, Cidr

\* Whatever the grammar reads, _parse_term() reads.
LEMMA LegalIsParsed ==
  ASSUME NEW raw \in Seq(Token), raw # <<>>, NEW t \in Legal(raw)
  PROVE  TermOf(raw) = t /\ t.ok
  <1>1. PICK head \in Seq(Token) : head = HeadOf(raw)
    BY HeadSeq
  <1>2. CASE t \in Directives(head)
    <2>1. PICK v \in Readings(head[1], Tail(head)) :
            head # <<>> /\ head[1] \in Mechanisms /\ t = Term(TRUE, head[1], v)
      BY <1>2 DEF Directives
    <2>2. PICK rest \in Seq(Token) :
            /\ rest = Tail(head) /\ Len(rest) = Len(head) - 1
            /\ \A j \in 1..(Len(head) - 1) : rest[j] = head[j + 1]
      BY <2>1, TailIsRest
    <2>3. rest = <<>> \/ rest[1] \in Separators
      BY <2>1, <2>2, ReadingsStart
    <2>4. head[1] \notin Separators
      BY <2>1, NameTokens DEF Words, TermNames
    <2>5. Len(head) = 1 \/ head[2] \in Separators
      <3>1. CASE rest = <<>>
        <4>1. PICK k \in Nat : k = Len(head)
          OBVIOUS
        <4>2. k - 1 = 0
          BY <2>2, <3>1, <4>1
        <4>3. k = 1
          BY <4>2
        <4>. QED
          BY <4>1, <4>3, Zenon
      <3>2. CASE rest # <<>> /\ rest[1] \in Separators
        <4>1. 1 \in 1..(Len(head) - 1) /\ 1 + 1 = 2
          BY <2>2, <3>2
        <4>. QED
          BY <2>2, <3>2, <4>1
      <3>. QED
        BY <2>3, <3>1, <3>2
    <2>6. Find(head, Separators) = 2
      BY <2>1, <2>4, <2>5, SecondIs
    <2>7. ~IsModifier(head)
      <3>1. 2..(2 - 1) = {}
        OBVIOUS
      <3>. QED
        BY <2>6, <3>1 DEF IsModifier, Separators
    <2>8. MechName(head) = <<head[1]>>
      <3>1. 2 - 1 = 1 /\ 1 \in 0..Len(head) /\ 1 \in 1..1
        BY <2>1
      <3>2. PICK p : p = Prefix(1, head)
        OBVIOUS
      <3>3. p \in Seq(Token) /\ Len(p) = 1 /\ p[1] = head[1]
        BY <3>1, <3>2, PrefixSeq
      <3>4. MechName(head) = p
        BY <2>6, <3>1, <3>2 DEF MechName, Separators
      <3>. QED
        BY <3>3, <3>4, Tuple1
    <2>9. PICK m : m = MechName(head)
      OBVIOUS
    <2>10. Len(m) = 1 /\ m[1] = head[1]
      BY <2>8, <2>9
    <2>11. Rest(head, Len(m) + 1) = rest
      <3>1. Len(m) + 1 = 2
        BY <2>10
      <3>. QED
        BY <2>1, <2>2, <3>1, TailIsRest
    <2>12. Mechanism(head[1], rest) = v /\ v.ok
      BY <2>1, <2>2, MechanismReads
    <2>13. MechOf(raw) = Term(TRUE, head[1], v)
      BY <1>1, <2>1, <2>9, <2>10, <2>11, <2>12 DEF MechOf
    <2>. QED
      BY <1>1, <2>1, <2>7, <2>13 DEF TermOf, Term
  <1>3. ASSUME NEW n \in 1..(Len(raw) - 1), IsNamed(raw, n), t = NamedTerm(raw, n)
        PROVE  TermOf(raw) = t /\ t.ok
    <2>1. /\ raw[n + 1] = "=" /\ NameOk(Prefix(n, raw))
          /\ MacroOk(Rest(raw, n + 2))
          /\ ModName(Prefix(n, raw)) \in {"redirect", "exp"}
               => DomainOk(Rest(raw, n + 2))
      BY <1>3 DEF IsNamed
    <2>2. /\ n \in 0..Len(raw) /\ n + 1 \in 2..Len(raw) /\ n \in Nat \ {0}
          /\ (n + 1) - 1 = n /\ (n + 1) + 1 = n + 2
      OBVIOUS
    <2>3. \A i \in 1..n : raw[i] \notin Separators /\ raw[i] # "=" /\ raw[i] # "+"
      BY <2>1, <2>2, PrefixSeq, NameTokens DEF NameOk
    <2>4. head = raw /\ ~Qualified(raw)
      BY <1>1, <2>2, <2>3 DEF HeadOf, Qualified
    <2>5. Find(raw, {"="}) = n + 1
      BY <2>1, <2>2, <2>3, FindIs
    <2>6. n + 1 < Find(raw, Separators) /\ Find(raw, Separators) \in Nat
      <3>1. PICK f : f = Find(raw, Separators)
        OBVIOUS
      <3>2. f \in 1..(Len(raw) + 1) /\ (f <= Len(raw) => raw[f] \in Separators)
        BY <3>1, FindFirst
      <3>3. raw[n + 1] \notin Separators
        BY <2>1 DEF Separators, Cidr
      <3>4. f \notin 1..n /\ f # n + 1
        BY <2>2, <2>3, <3>2, <3>3
      <3>. QED
        BY <2>2, <3>1, <3>2, <3>4
    <2>7. IsModifier(raw)
      BY <2>2, <2>5, <2>6 DEF IsModifier, Separators
    <2>8. ModOf(raw) = NamedTerm(raw, n)
      <3>1. PICK eq : eq = Find(HeadOf(raw), {"="}) /\ eq - 1 = n /\ eq + 1 = n + 2
        BY <1>1, <2>2, <2>4, <2>5
      <3>2. PICK P : P = Prefix(n, raw)
        OBVIOUS
      <3>3. PICK R : R = Rest(raw, n + 2)
        OBVIOUS
      <3>4. IF ModName(P) \in {"redirect", "exp"} THEN DomainOk(R) ELSE MacroOk(R)
        BY <2>1, <3>2, <3>3
      <3>5. ModOf(raw) = Term(FALSE, ModName(P), Value(R, "none", "none"))
        BY <1>1, <2>1, <2>4, <3>1, <3>2, <3>3, <3>4 DEF ModOf
      <3>. QED
        BY <3>2, <3>3, <3>5 DEF NamedTerm
    <2>. QED
      BY <1>1, <1>3, <2>4, <2>7, <2>8 DEF TermOf, NamedTerm, Term
  <1>. QED
    BY <1>1, <1>2, <1>3, LegalIs

\* A term that is taken for a modifier or for a mechanism.
LEMMA ModOfIs ==
  ASSUME NEW raw \in Seq(Token), raw # <<>>, IsModifier(HeadOf(raw)), ModOf(raw).ok
  PROVE  \E n \in 1..(Len(raw) - 1) : IsNamed(raw, n) /\ ModOf(raw) = NamedTerm(raw, n)
  <1>1. /\ ~Qualified(raw)
        /\ NameOk(Prefix(Find(HeadOf(raw), {"="}) - 1, HeadOf(raw)))
    BY DEF ModOf, Error
  <1>2. HeadOf(raw) = raw
    BY <1>1 DEF HeadOf
  <1>3. PICK eq : eq = Find(raw, {"="})
    OBVIOUS
  <1>4. eq \in 1..(Len(raw) + 1) /\ (eq <= Len(raw) => raw[eq] = "=")
    BY <1>3, FindFirst
  <1>5. eq \in 2..Len(raw)
    <2>1. PICK f \in 1..(Len(raw) + 1) : f = Find(raw, Separators)
      BY FindFirst
    <2>2. eq \in 2..(f - 1)
      BY <1>2, <1>3, <2>1 DEF IsModifier, Separators
    <2>. QED
      BY <2>1, <2>2
  <1>6. PICK n \in 1..(Len(raw) - 1) : n = eq - 1 /\ eq = n + 1 /\ eq + 1 = n + 2
    <2>1. eq - 1 \in 1..(Len(raw) - 1) /\ eq = (eq - 1) + 1 /\ eq + 1 = (eq - 1) + 2
      BY <1>5
    <2>. QED
      BY <2>1
  <1>7. raw[n + 1] = "=" /\ NameOk(Prefix(n, raw))
    BY <1>1, <1>2, <1>3, <1>4, <1>5, <1>6
  <1>8. IF ModName(Prefix(n, raw)) \in {"redirect", "exp"}
          THEN DomainOk(Rest(raw, n + 2)) ELSE MacroOk(Rest(raw, n + 2))
    BY <1>2, <1>3, <1>6 DEF ModOf, Error
  <1>9. ModOf(raw) = NamedTerm(raw, n)
    BY <1>2, <1>3, <1>6 DEF ModOf, Error, NamedTerm
  <1>. QED
    BY <1>7, <1>8, <1>9 DEF IsNamed, DomainOk

LEMMA MechOfIs ==
  ASSUME NEW raw \in Seq(Token), raw # <<>>, HeadOf(raw) # <<>>, MechOf(raw).ok
  PROVE  /\ HeadOf(raw)[1] \in Mechanisms
         /\ Mechanism(HeadOf(raw)[1], Tail(HeadOf(raw))).ok
         /\ MechOf(raw) = Term(TRUE, HeadOf(raw)[1],
                               Mechanism(HeadOf(raw)[1], Tail(HeadOf(raw))))
  <1>1. PICK head \in Seq(Token) : head = HeadOf(raw)
    BY HeadSeq
  <1>2. PICK m : m = MechName(head)
    OBVIOUS
  <1>3. PICK f \in 1..(Len(head) + 1) : f = Find(head, Separators)
    BY FindFirst
  <1>4. PICK n \in 0..Len(head) : n = f - 1
    <2>1. f - 1 \in 0..Len(head)
      OBVIOUS
    <2>. QED
      BY <2>1
  <1>5. m = Prefix(n, head)
    BY <1>2, <1>3, <1>4 DEF MechName, Separators
  <1>6. /\ Len(m) = n
        /\ \A j \in 1..n : m[j] = head[j]
    BY <1>5, PrefixSeq
  <1>7. Len(m) = 1 /\ m[1] \in Mechanisms /\ Mechanism(m[1], Rest(head, Len(m) + 1)).ok
        /\ MechOf(raw) = Term(TRUE, m[1], Mechanism(m[1], Rest(head, Len(m) + 1)))
    BY <1>1, <1>2 DEF MechOf, Error
  <1>8. m[1] = head[1] /\ Len(m) + 1 = 2
    BY <1>6, <1>7
  <1>9. Rest(head, 2) = Tail(head)
    BY <1>1, TailIsRest
  <1>. QED
    BY <1>1, <1>7, <1>8, <1>9

\* Whatever _parse_term() reads of a term without a line feed, the grammar
\* reads.
LEMMA ParsedIsLegal ==
  ASSUME NEW raw \in Seq(Token), raw # <<>>, NoLine(raw), TermOf(raw).ok
  PROVE  TermOf(raw) \in Legal(raw)
  <1>1. PICK head \in Seq(Token) : head = HeadOf(raw) /\ NoLine(head)
    BY HeadSeq
  <1>2. head # <<>>
    BY <1>1 DEF TermOf, Error
  <1>3. CASE IsModifier(head)
    <2>1. TermOf(raw) = ModOf(raw)
      BY <1>1, <1>2, <1>3 DEF TermOf
    <2>. QED
      BY <1>1, <1>3, <2>1, ModOfIs, LegalIs
  <1>4. CASE ~IsModifier(head)
    <2>1. TermOf(raw) = MechOf(raw)
      BY <1>1, <1>2, <1>4 DEF TermOf
    <2>2. /\ head[1] \in Mechanisms
          /\ Mechanism(head[1], Tail(head)).ok
          /\ MechOf(raw) = Term(TRUE, head[1], Mechanism(head[1], Tail(head)))
      BY <1>1, <1>2, <2>1, MechOfIs
    <2>3. Tail(head) \in Seq(Token) /\ NoLine(Tail(head))
      BY <1>1, <1>2, TailIsRest, NoLineTail
    <2>4. Mechanism(head[1], Tail(head)) \in Readings(head[1], Tail(head))
      BY <2>2, <2>3, MechanismReads
    <2>5. MechOf(raw) \in Directives(head)
      BY <1>2, <2>2, <2>4 DEF Directives
    <2>. QED
      BY <1>1, <2>1, <2>5, LegalIs
  <1>. QED
    BY <1>3, <1>4

-----------------------------------------------------------------------------
(***************************************************************************)
(* parse(): what it has read of the record so far.                         *)
(***************************************************************************)
AllTerms == {TermOf(raw) : raw \in Seq(Token)}

ModInv(field, modName) ==
  /\ field # NoTerm => \E i \in 1..Len(terms) : field = terms[i] /\ terms[i].name = modName
  /\ \A i \in 1..Len(terms) : terms[i].name = modName => field = terms[i]

\* terms holds what TermOf() reads of each term so far, and the fields hold its
\* modifiers; a record is rejected for its next term, which is not appended.
TermsInv ==
  /\ record \in Policies
  /\ terms \in Seq(AllTerms) /\ Len(terms) <= Len(record)
  /\ \A i \in 1..Len(terms) : terms[i] = TermOf(record[i]) /\ terms[i].ok
  /\ ModInv(redirect, "redirect") /\ ModInv(exp, "exp")
  /\ stage \in {"parse", "permerror"} => index = Len(terms) + 1
  /\ stage = "permerror" =>
       /\ index \in 1..Len(record)
       /\ ~TermOf(record[index]).ok \/ Duplicate(TermOf(record[index]))

\* What TermsAssumption says of a record of the run.
LEMMA RecordType ==
  ASSUME NEW r \in Policies
  PROVE  /\ r \in Seq(Seq(Token)) /\ Len(r) \in Nat
         /\ \A i \in 1..Len(r) : /\ r[i] \in Seq(Token) /\ r[i] # <<>>
                                 /\ TermOf(r[i]) # NoTerm
                                 /\ TermOf(r[i]) \in AllTerms
  <1>1. r \in Seq(Seq(Token)) /\ DOMAIN r = 1..Len(r)
    BY TermsAssumption
  <1>2. \A i \in 1..Len(r) : r[i] \in Seq(Token)
    BY <1>1
  <1>. QED
    BY <1>1, <1>2, TermsAssumption DEF AllTerms

LEMMA TermsInitInv == TermInit => TermsInv
  <1>. SUFFICES ASSUME TermInit PROVE TermsInv
    OBVIOUS
  <1>1. Len(record) \in Nat
    BY RecordType DEF TermInit
  <1>2. terms = <<>> /\ terms \in Seq(AllTerms) /\ Len(terms) = 0 /\ 1..Len(terms) = {}
    BY DEF TermInit
  <1>. QED
    BY <1>1, <1>2 DEF TermInit, TermsInv, ModInv

\* Reading one more term t leaves a field as it is, or sets it.
LEMMA ModStep ==
  ASSUME NEW field, NEW fieldNew, NEW modName, NEW t \in AllTerms, t # NoTerm,
         terms \in Seq(AllTerms), terms' = Append(terms, t),
         ModInv(field, modName),
         ~(t.name = modName /\ field # NoTerm),
         \A i \in 1..Len(terms) : terms[i] # NoTerm,
         fieldNew = IF t.name = modName THEN t ELSE field
  PROVE  /\ fieldNew # NoTerm =>
              \E i \in 1..Len(terms') : fieldNew = terms'[i] /\ terms'[i].name = modName
         /\ \A i \in 1..Len(terms') : terms'[i].name = modName => fieldNew = terms'[i]
  <1>1. PICK k \in Nat : k = Len(terms)
    OBVIOUS
  <1>2. /\ Len(terms') = k + 1 /\ terms'[k + 1] = t
        /\ \A i \in 1..k : terms'[i] = terms[i]
    BY <1>1
  <1>3. CASE t.name = modName
    <2>1. \A i \in 1..k : terms[i].name # modName
      BY <1>1, <1>3 DEF ModInv
    <2>. QED
      BY <1>2, <1>3, <2>1
  <1>4. CASE t.name # modName
    <2>1. ASSUME field # NoTerm
          PROVE  \E i \in 1..(k + 1) : field = terms'[i] /\ terms'[i].name = modName
      BY <1>1, <1>2, <2>1 DEF ModInv
    <2>2. \A i \in 1..(k + 1) : terms'[i].name = modName => field = terms'[i]
      BY <1>1, <1>2, <1>4 DEF ModInv
    <2>. QED
      BY <1>2, <1>4, <2>1, <2>2
  <1>. QED
    BY <1>3, <1>4

LEMMA TermsStep == TermsInv /\ [TermNext]_termVars => TermsInv'
  <1>. SUFFICES ASSUME TermsInv, [TermNext]_termVars PROVE TermsInv'
    OBVIOUS
  <1>1. /\ record \in Policies /\ terms \in Seq(AllTerms) /\ Len(terms) <= Len(record)
        /\ \A i \in 1..Len(terms) : terms[i] = TermOf(record[i]) /\ terms[i].ok
        /\ ModInv(redirect, "redirect") /\ ModInv(exp, "exp")
        /\ stage \in {"parse", "permerror"} => index = Len(terms) + 1
    BY DEF TermsInv
  <1>2. /\ Len(record) \in Nat
        /\ \A i \in 1..Len(record) : TermOf(record[i]) # NoTerm /\ TermOf(record[i]) \in AllTerms
    BY <1>1, RecordType
  <1>3. ASSUME ParseTerm PROVE TermsInv'
    <2>1. index \in 1..Len(record) /\ index = Len(terms) + 1
      BY <1>1, <1>3 DEF ParseTerm
    <2>2. PICK t \in AllTerms : t = TermOf(record[index]) /\ t # NoTerm
      BY <1>2, <2>1
    <2>3. CASE ~t.ok \/ (t.ok /\ Duplicate(t))
      <3>1. /\ stage' = "permerror"
            /\ UNCHANGED <<record, index, terms, redirect, exp>>
        BY <1>3, <2>2, <2>3 DEF ParseTerm
      <3>2. Duplicate(t)' <=> Duplicate(t)
        BY <3>1 DEF Duplicate
      <3>3. ~t.ok \/ Duplicate(TermOf(record[index]))'
        BY <2>2, <2>3, <3>1, <3>2 DEF Duplicate
      <3>. QED
        BY <1>1, <2>1, <2>2, <3>1, <3>3 DEF TermsInv, ModInv
    <2>4. CASE ~(~t.ok \/ (t.ok /\ Duplicate(t)))
      <3>1. /\ terms' = Append(terms, t)
            /\ redirect' = IF t.name = "redirect" THEN t ELSE redirect
            /\ exp' = IF t.name = "exp" THEN t ELSE exp
            /\ index' = index + 1
            /\ record' = record /\ stage' = "parse"
        BY <1>3, <2>2, <2>4 DEF ParseTerm
      <3>2. t.ok /\ ~(t.name = "redirect" /\ redirect # NoTerm)
                 /\ ~(t.name = "exp" /\ exp # NoTerm)
        BY <2>4 DEF Duplicate
      <3>3. \A i \in 1..Len(terms) : terms[i] # NoTerm
        BY <1>1, <1>2
      <3>4. ModInv(redirect, "redirect")'
        BY <1>1, <2>2, <3>1, <3>2, <3>3, ModStep DEF ModInv
      <3>5. ModInv(exp, "exp")'
        BY <1>1, <2>2, <3>1, <3>2, <3>3, ModStep DEF ModInv
      <3>6. PICK k \in Nat : k = Len(terms)
        BY <1>1
      <3>7. /\ terms' \in Seq(AllTerms) /\ Len(terms') = k + 1 /\ terms'[k + 1] = t
            /\ \A i \in 1..k : terms'[i] = terms[i]
        BY <1>1, <3>1, <3>6
      <3>8. \A i \in 1..(k + 1) : terms'[i] = TermOf(record[i]) /\ terms'[i].ok
        BY <1>1, <2>1, <2>2, <3>2, <3>6, <3>7
      <3>9. index' = k + 1 + 1 /\ k + 1 <= Len(record)
        BY <2>1, <3>1, <3>6
      <3>. QED
        BY <1>1, <3>1, <3>4, <3>5, <3>7, <3>8, <3>9 DEF TermsInv
    <2>. QED
      BY <2>3, <2>4
  <1>4. ASSUME Parsed PROVE TermsInv'
    BY <1>1, <1>4 DEF Parsed, TermsInv, ModInv
  <1>5. ASSUME MatchTerm PROVE TermsInv'
    <2>1. stage' \notin {"parse", "permerror"} /\ UNCHANGED <<record, terms, redirect, exp>>
      BY <1>5 DEF MatchTerm
    <2>. QED
      BY <1>1, <2>1 DEF TermsInv, ModInv
  <1>6. ASSUME UNCHANGED termVars PROVE TermsInv'
    BY <1>6 DEF termVars, TermsInv, ModInv, Duplicate
  <1>. QED
    BY <1>3, <1>4, <1>5, <1>6 DEF TermNext

LEMMA TermsInvariant == TermSpec => []TermsInv
  BY TermsInitInv, TermsStep, PTL DEF TermSpec

\* parse() keeps every redirect= and exp= it has read: each is the one in its
\* field, so there are never two of a name among the terms.
THEOREM TermModifiersAreTerms == TermSpec => []ModifiersAreTerms
  <1>1. TermsInv => ModifiersAreTerms
    BY DEF TermsInv, ModInv, ModifiersAreTerms
  <1>. QED
    BY TermsInvariant, <1>1, PTL

\* A record without a line feed holds no term with one.
LEMMA LinesIs ==
  ASSUME record \in Policies, ~Lines, NEW i \in 1..Len(record)
  PROVE  NoLine(record[i])
  <1>1. record[i] \in Seq(Token) /\ i \in DOMAIN record
    BY RecordType
  <1>. QED
    BY <1>1 DEF Lines, NoLine

\* parse() reads each term of a record without a line feed in the one way the
\* grammar of RFC 7208 derives it, and rejects a record only for a term that is
\* not derived or for a second redirect= or exp=.
THEOREM TermsGrammar == TermSpec => []TermsAreGrammar
  <1>1. TermsInv => TermsAreGrammar
    <2>. SUFFICES ASSUME TermsInv PROVE TermsAreGrammar
      OBVIOUS
    <2>1. /\ record \in Policies /\ terms \in Seq(AllTerms) /\ Len(terms) <= Len(record)
          /\ \A i \in 1..Len(terms) : terms[i] = TermOf(record[i]) /\ terms[i].ok
          /\ DOMAIN terms = 1..Len(terms)
      BY DEF TermsInv
    <2>2. Len(record) \in Nat
      BY <2>1, RecordType
    <2>3. ASSUME NEW i \in DOMAIN terms, ~Lines PROVE Legal(record[i]) = {terms[i]}
      <3>1. i \in 1..Len(terms) /\ i \in 1..Len(record)
        BY <2>1, <2>2
      <3>2. record[i] \in Seq(Token) /\ record[i] # <<>> /\ NoLine(record[i])
        BY <2>1, <2>3, <3>1, RecordType, LinesIs
      <3>3. terms[i] \in Legal(record[i])
        BY <2>1, <3>1, <3>2, ParsedIsLegal
      <3>4. \A t \in Legal(record[i]) : t = terms[i]
        BY <2>1, <3>1, <3>2, LegalIsParsed
      <3>. QED
        BY <3>3, <3>4
    <2>4. ASSUME stage = "permerror", Legal(record[index]) # {}
          PROVE  \E t \in Legal(record[index]), i \in 1..(index - 1) :
                   t.name \in {"redirect", "exp"} /\ terms[i].name = t.name
      <3>1. /\ index \in 1..Len(record) /\ index = Len(terms) + 1
            /\ ~TermOf(record[index]).ok \/ Duplicate(TermOf(record[index]))
        BY <2>4 DEF TermsInv
      <3>2. record[index] \in Seq(Token) /\ record[index] # <<>>
        BY <2>1, <3>1, RecordType
      <3>3. PICK t \in Legal(record[index]) : t = TermOf(record[index]) /\ t.ok
        BY <2>4, <3>2, LegalIsParsed
      <3>4. PICK m \in {"redirect", "exp"} :
              t.name = m /\ \E i \in 1..Len(terms) : terms[i].name = m
        <4>1. Duplicate(t)
          BY <3>1, <3>3
        <4>. QED
          BY <4>1 DEF Duplicate, TermsInv, ModInv
      <3>5. PICK i \in 1..Len(terms) : terms[i].name = m
        BY <3>4
      <3>6. i \in 1..(index - 1)
        BY <2>1, <3>1
      <3>. QED
        BY <3>3, <3>4, <3>5, <3>6
    <2>. QED
      BY <2>3, <2>4 DEF TermsAreGrammar
  <1>. QED
    BY TermsInvariant, <1>1, PTL
=============================================================================

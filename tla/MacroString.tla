---------------------------- MODULE MacroString ----------------------------
(***************************************************************************)
(* Macro-strings, character by class: the scan of macros.py, written twice *)
(* in the code (validate_macro_string() when a record is parsed, expand()  *)
(* when it is evaluated), the domain-spec checks of the parser, and what   *)
(* _explanation() does to an expanded exp= text.                           *)
(*                                                                         *)
(* A text is a sequence of characters, one standing for each class the     *)
(* code tells apart: "d" is a macro letter every macro-string may use, "c" *)
(* and "r" are for exp= text only ("r" is the reversal flag too), "z" is   *)
(* no macro letter; "nl" is a line feed and "sp" a space.  What a macro    *)
(* expands to is left out: only whether the text is taken.                 *)
(***************************************************************************)
EXTENDS Naturals, Sequences, FiniteSetsExt, SequencesExt, Regex

CONSTANTS
  SpecTexts, \* the domain-specs of a run
  ExpTexts,  \* the TXT answers of an exp= of a run
  MaxSpec,   \* 255 in _validate_domain_spec
  MaxLabel   \* 63

VARIABLES
  text, pos, pc,
  is_exp  \* text is an exp= text (exp=True), or a domain-spec

strVars == <<text, pos, pc, is_exp>>

Allowed == {"d"}
ExpOnly == {"c", "r"}
Alpha   == Allowed \cup ExpOnly \cup {"z"}
Digit   == {"0", "1"}
Delim   == {".", "-", "_"}

\* A macro-literal: visible, and not "%".
Literal == Alpha \cup Digit \cup Delim \cup {"{", "}"}
Char    == Literal \cup {"%", "sp", "nl"}

ASSUME MacroStringAssumption ==
  /\ MaxSpec \in Nat /\ MaxLabel \in Nat
  /\ \A s \in SpecTexts : s \in Seq(Char)
  /\ \A s \in ExpTexts : s \in Seq(Char)

-----------------------------------------------------------------------------
(***************************************************************************)
(* MACRO_RE, LITERAL_OK and the scan.                                      *)
(***************************************************************************)

\* letter, digits, an optional "r", delimiters: what may stand in braces.
IsBody(b) ==
  /\ b # <<>> /\ b[1] \in Alpha
  /\ \E p \in 1..Len(b) :
       LET q == IF p < Len(b) /\ b[p + 1] = "r" THEN p + 1 ELSE p
       IN  /\ \A x \in 2..p : b[x] \in Digit
           /\ \A x \in (q + 1)..Len(b) : b[x] \in Delim

\* s[i..j] is an escape: %%, %_ or %-.
IsEscape(s, i, j) == j = i + 1 /\ s[i] = "%" /\ s[j] \in {"%", "_", "-"}

\* s[i..j] has the shape of %{...}.
IsMacro(s, i, j) ==
  /\ j > i + 2 /\ s[i] = "%" /\ s[i + 1] = "{" /\ s[j] = "}"
  /\ IsBody(SubSeq(s, i + 2, j - 1))

\* Where the match at the "%" in position i ends; i if it is a bad escape.
MatchEnd(s, i) ==
  LET ends == {j \in (i + 1)..Len(s) : IsEscape(s, i, j) \/ IsMacro(s, i, j)}
  IN  IF ends = {} THEN i ELSE Min(ends)

\* The next "%" at or after p, or the position after the text.
NextPercent(s, p) == Min({i \in p..Len(s) : s[i] = "%"} \cup {Len(s) + 1})

\* LITERAL_OK.match(s[p..q-1]): "$" matches before a final line feed as well.
LiteralOk(s, p, q) ==
  \A i \in p..(q - 1) : s[i] \in Literal \/ (i = q - 1 /\ s[i] = "nl")

Zero(b) == LET ds == {x \in 2..Len(b) : b[x] \in Digit}
           IN  ds # {} /\ \A x \in ds : b[x] = "0"

ValidatedAny(b) == b[1] \in Allowed \cup ExpOnly /\ ~Zero(b)  \* mutant
ExpandedShort(b) == b[1] \in Allowed /\ ~Zero(b)  \* mutant: no %{c}, ever

\* The two copies of what a macro must be.
Validated(b) == b[1] \in Allowed \cup (IF is_exp THEN ExpOnly ELSE {}) /\ ~Zero(b)
Expanded(b) ==
  /\ ~(b[1] \in ExpOnly /\ ~is_exp)
  /\ b[1] \in Allowed \cup ExpOnly
  /\ ~Zero(b)

\* What stands in the braces of the next macro.
NextBody ==
  LET i == NextPercent(text, pos)
  IN  SubSeq(text, i + 2, MatchEnd(text, i) - 1)

\* One turn of the loop over finditer(), or the tail after it; takes tells if
\* the next body is one that is accepted.
Scan(takes, fails, passes) ==
  LET i == NextPercent(text, pos)
      j == MatchEnd(text, i)
      taken == \/ i < Len(text) /\ IsEscape(text, i, j)
               \/ i < j /\ IsMacro(text, i, j) /\ takes
  IN  \/ /\ LiteralOk(text, pos, i) /\ i <= Len(text) /\ taken
         /\ pos' = j + 1
         /\ UNCHANGED <<text, pc, is_exp>>
      \/ /\ LiteralOk(text, pos, i) /\ i > Len(text)
         /\ pos' = 1 /\ pc' = passes
         /\ UNCHANGED <<text, is_exp>>
      \/ /\ ~LiteralOk(text, pos, i) \/ (i <= Len(text) /\ ~taken)
         /\ pc' = fails
         /\ UNCHANGED <<text, pos, is_exp>>

-----------------------------------------------------------------------------
(***************************************************************************)
(* _validate_domain_spec(): the checks after validate_macro_string().      *)
(***************************************************************************)

\* MACRO_EXPAND_END_RE.search(): from any "%", escaped or not.
EndsInMacro(s) ==
  LET c == Chomp(s)
  IN  \E i \in 1..Len(c) : IsEscape(c, i, Len(c)) \/ IsMacro(c, i, Len(c))

\* TOPLABEL_RE.
IsTopLabel(s) ==
  LET t == Chomp(s)
      chars == {t[i] : i \in 1..Len(t)}
  IN  \/ chars \subseteq Alpha \cup Digit /\ chars \cap Alpha # {}
      \/ /\ "-" \in chars
         /\ chars \subseteq Alpha \cup Digit \cup {"-"}
         /\ t[1] # "-" /\ t[Len(t)] # "-"

Dots(s) == {i \in 1..Len(s) : s[i] = "."}

\* spec[:-1] if spec.endswith(".")
Body(s) == IF s # <<>> /\ s[Len(s)] = "." THEN SubSeq(s, 1, Len(s) - 1) ELSE s

TopLabel(s) == SubSeq(s, Max(Dots(s)) + 1, Len(s))

\* Every label between the dots in d is there and not too long.
LabelsOk(s, d) ==
  \A a \in d \cup {0} :
    LET b == Min({x \in d : x > a} \cup {Len(s) + 1})
    IN  b - a - 1 \in 1..MaxLabel

\* Mutant: the search finds a macro wherever it ends.
SpecOkAnywhere(s) ==
  /\ s # <<>> /\ Len(s) <= MaxSpec
  /\ \/ \E n \in 1..Len(s) : EndsInMacro(SubSeq(s, 1, n))
     \/ /\ Dots(Body(s)) # {}
        /\ IsTopLabel(TopLabel(Body(s)))
        /\ LabelsOk(Body(s), Dots(Body(s)))

SpecOk(s) ==
  /\ s # <<>> /\ Len(s) <= MaxSpec
  /\ \/ EndsInMacro(s)
     \/ /\ Dots(Body(s)) # {}
        /\ IsTopLabel(TopLabel(Body(s)))
        /\ LabelsOk(Body(s), Dots(Body(s)))

-----------------------------------------------------------------------------
(***************************************************************************)
(* A domain-spec is validated, checked and later expanded.  An exp= text   *)
(* is expanded, and then _explanation() looks at the text again.           *)
(***************************************************************************)
StrInit ==
  /\ \/ is_exp = FALSE /\ text \in SpecTexts /\ pc = "validate"
     \/ is_exp = TRUE /\ text \in ExpTexts /\ pc = "expand"
  /\ pos = 1

Validate == pc = "validate" /\ Scan(Validated(NextBody), "rejected", "check")

CheckSpec ==
  /\ pc = "check"
  /\ pc' = IF SpecOk(text) THEN "expand" ELSE "rejected"
  /\ UNCHANGED <<text, pos, is_exp>>

Expand ==
  /\ pc = "expand"
  /\ Scan(Expanded(NextBody), "raised", IF is_exp THEN "filter" ELSE "returned")

\* Position i is inside some "%{" ... "}", which re.sub() removes.
Removed(s, i) ==
  \E a \in 1..i :
    /\ a < Len(s) /\ s[a] = "%" /\ s[a + 1] = "{"
    /\ \E b \in (a + 2)..Len(s) : s[b] = "}" /\ b >= i
                                   /\ \A x \in (a + 2)..(b - 1) : s[x] # "}"

\* LITERAL_OK.match() of what re.sub() leaves.
Stays(s) ==
  LET left == {i \in 1..Len(s) : ~Removed(s, i)}
  IN  \A i \in left : s[i] \in Literal \/ (s[i] = "nl" /\ i = Max(left))

Filter ==
  /\ pc = "filter"
  /\ pc' = IF Stays(text) THEN "given" ELSE "dropped"
  /\ UNCHANGED <<text, pos, is_exp>>

StrNext == Validate \/ CheckSpec \/ Expand \/ Filter
StrSpec == StrInit /\ [][StrNext]_strVars

-----------------------------------------------------------------------------
(***************************************************************************)
(* The grammar of RFC 7208 s7.1, which asks for a derivation and not for a *)
(* scan.  A derivation exists if some way of cutting the text into         *)
(* macro-expands and literals does.                                        *)
(***************************************************************************)
LegalBody(b) ==
  /\ b[1] \in IF is_exp THEN Allowed \cup ExpOnly ELSE Allowed
  /\ (\E x \in 2..Len(b) : b[x] \in Digit)
       => \E x \in 2..Len(b) : b[x] \in Digit \ {"0"}

MacroExpand(s, i, j) ==
  \/ IsEscape(s, i, j)
  \/ IsMacro(s, i, j) /\ LegalBody(SubSeq(s, i + 2, j - 1))

\* The lengths of the prefixes that are macro-strings over lit.
Derived(s, lit) ==
  LET d[n \in 0..Len(s)] ==
        \/ n = 0
        \/ n > 0 /\ s[n] \in lit /\ d[n - 1]
        \/ \E i \in 0..(n - 1) : MacroExpand(s, i + 1, n) /\ d[i]
  IN  {n \in 0..Len(s) : d[n]}

\* The dots that a derivation leaves outside its macro-expands.
OuterDots(s) ==
  LET d == Derived(s, Literal)
  IN  {x \in Dots(s) : ~\E i \in d, j \in x..Len(s) :
                          i < x /\ MacroExpand(s, i + 1, j)}

\* domain-spec = macro-string domain-end, with no empty or overlong label
\* between the dots in dots unless the end is a macro.
IsDomainSpec(s, dots) ==
  LET d == Derived(s, Literal)
      b == Body(s)
  IN  /\ Len(s) <= MaxSpec
      /\ \/ \E i \in d : MacroExpand(s, i + 1, Len(s))
         \/ /\ dots # {} /\ Max(dots) - 1 \in d
            /\ IsTopLabel(SubSeq(b, Max(dots) + 1, Len(b)))
            /\ LabelsOk(b, dots)

\* explain-string = *( macro-string / SP )
IsExplainString(s) == Len(s) \in Derived(s, Literal \cup {"sp"})

\* A macro-string whose end looks like a macro, and is one only if its "%" is
\* taken from a "%%".
EscapedEnd(s) ==
  /\ EndsInMacro(s) /\ Len(s) \in Derived(s, Literal)
  /\ ~\E i \in Derived(s, Literal) : MacroExpand(s, i + 1, Len(s))

\* A dot is a delimiter of some macro.
DottedMacro(s) == OuterDots(s) # Dots(s)

LineFeed(s) == \E i \in 1..Len(s) : s[i] = "nl"

\* Which texts without a line feed _validate_domain_spec() takes: those of the
\* grammar, and of the right length those that end in the "{...}" of a "%%{...}".
\* It cuts labels at every dot: where a macro has one as a delimiter, the text
\* is taken as if it were the end of a label, and elsewhere those are the dots
\* of the grammar.
SpecIsGrammar ==
  ~is_exp /\ ~LineFeed(text) /\ pc \in {"returned", "rejected"}
    => LET b == Body(text)
           loose == EscapedEnd(text) /\ Len(text) <= MaxSpec
       IN  /\ (pc = "returned") <=> IsDomainSpec(text, Dots(b)) \/ loose
           /\ ~DottedMacro(text) =>
                ((pc = "returned") <=> IsDomainSpec(text, OuterDots(b)) \/ loose)

\* The two copies of the grammar agree: what the parser has validated, no
\* evaluation has to reject when it expands it.
ValidatedExpands == ~is_exp => pc # "raised"

\* An explanation that is given was a legal text (or had a line feed), and no
\* legal macro in it made expand() raise.
GivenIsLegal ==
  /\ pc = "given" /\ ~LineFeed(text) => IsExplainString(text)
  /\ is_exp /\ pc = "raised" => Len(text) \notin Derived(text, Literal)
=============================================================================

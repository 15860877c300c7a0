------------------------------- MODULE Terms -------------------------------
(***************************************************************************)
(* parse() and _parse_term() (src/spftrace/parser.py): a record is a list  *)
(* of raw terms, parsed one after the other until one raises SpfPermError, *)
(* and evaluated once they all have been.                                  *)
(*                                                                         *)
(* A raw term is a sequence of tokens: a name, a qualifier "+", ":", "=",  *)
(* "/", a CIDR length with the slash before it ("/24", "/64", "/129"; "/24"*)
(* fits IPv4 and IPv6, "/64" IPv6, "/129" neither), "dom" (a domain-spec), *)
(* "bad" (what no macro-string may hold), "net4" and "net6" (networks),    *)
(* and "nl", a line feed at the end of the record.  The tokens of a term   *)
(* are read as the code reads the text they stand for, as long as a name   *)
(* stands first and an IPv6 network after a ":".                           *)
(***************************************************************************)
EXTENDS Naturals, Sequences, FiniteSets, Regex

CONSTANTS
  Policies,  \* the records of a run: sequences of raw terms
  NoTerm     \* rec.redirect or rec.exp is None

VARIABLES
  record,         \* raw_terms
  index,          \* the term to parse next; once "parsed", to evaluate next
  terms,          \* rec.terms
  redirect, exp,  \* rec.redirect, rec.exp
  stage

termVars == <<record, index, terms, redirect, exp, stage>>

Mechanisms == {"all", "include", "a", "mx", "ptr", "ip4", "ip6", "exists"}
TermNames  == Mechanisms \cup {"redirect", "exp", "other"}
Fits       == [v4 |-> {"/24"}, v6 |-> {"/24", "/64"}]
Cidr       == {"/24", "/64", "/129"}
Words      == TermNames \cup {"dom"}
NoArg      == <<>>
Token      == TermNames \cup Cidr \cup {"+", ":", "=", "/", "dom", "bad", "net4",
                                       "net6", "nl"}

Prefix(i, s) == SubSeq(s, 1, i)
Rest(s, i) == SubSeq(s, i, Len(s))
Ends(s)    == s[Len(s)]
Starts(s, c) == s # <<>> /\ s[1] = c

\* The first position of a token of cs, or the position after the end.
Find(s, cs) ==
  LET at == {i \in 1..Len(s) : s[i] \in cs}
  IN  IF at = {} THEN Len(s) + 1 ELSE CHOOSE i \in at : \A j \in at : i <= j

-----------------------------------------------------------------------------
(***************************************************************************)
(* The arguments.  A parser returns a record, or Error for SpfPermError.   *)
(***************************************************************************)
Error == [ok |-> FALSE]
Value(arg, v4, v6) == [ok |-> TRUE, arg |-> arg, cidr4 |-> v4, cidr6 |-> v6]

\* validate_macro_string(): LITERAL_OK takes a final line feed.
MacroOk(s) == {Chomp(s)[i] : i \in 1..Len(Chomp(s))} \cap {"bad", "nl"} = {}

\* _validate_domain_spec(): "dom" ends in a toplabel, and what stands before
\* it becomes part of its first label.
DomainOk(s) == MacroOk(s) /\ Chomp(s) # <<>> /\ Ends(Chomp(s)) = "dom"

\* Mutant: the lookbehind is missing, so //n is read as /n as well.
DualCidrGreedy(rest) ==
  LET c == Chomp(rest)
  IN  IF c # <<>> /\ Ends(c) \in Fits.v4
      THEN Value(Prefix(Len(c) - 1, c), Ends(c), "none")
      ELSE Value(rest, "none", "none")

\* _parse_dual_cidr(): //n at the end, then /n that is not the end of a //n.
DualCidr(rest) ==
  LET c == Chomp(rest)
      six == Len(c) > 1 /\ Ends(c) \in Cidr /\ c[Len(c) - 1] = "/"
      c6 == IF six THEN Ends(c) ELSE "none"
      r6 == IF six THEN Prefix(Len(c) - 2, c) ELSE rest
      d == Chomp(r6)
      four == /\ d # <<>> /\ Ends(d) \in Cidr
              /\ Len(d) > 1 => d[Len(d) - 1] # "/"
      c4 == IF four THEN Ends(d) ELSE "none"
      r4 == IF four THEN Prefix(Len(d) - 1, d) ELSE r6
  IN  IF (six /\ c6 \notin Fits.v6) \/ (four /\ c4 \notin Fits.v4) THEN Error
      ELSE Value(r4, c4, c6)

\* _parse_ip4(): one length, and a network that is a dotted quad.
Ip4(value) ==
  LET at == Find(value, Cidr \cup {"/"})
      net == Prefix(at - 1, value)
      cidr == Chomp(Rest(value, at))
  IN  IF \/ cidr # <<>> /\ ~(Len(cidr) = 1 /\ cidr[1] \in Fits.v4)
         \/ Chomp(net) # <<"net4">>
      THEN Error
      ELSE Value(net, IF cidr = <<>> THEN "none" ELSE cidr[1], "none")

\* _parse_ip6(): the length is after the last slash, and IPv6Address() takes
\* no line feed.
Ip6(value) ==
  LET slashes == {i \in 1..Len(value) : value[i] \in Cidr \cup {"/"}}
      at == IF slashes = {} THEN Len(value) + 1
            ELSE CHOOSE i \in slashes : \A j \in slashes : j <= i
      cidr == Chomp(Rest(value, at))
  IN  IF \/ at <= Len(value) /\ ~(Len(cidr) = 1 /\ cidr[1] \in Fits.v6)
         \/ Prefix(at - 1, value) # <<"net6">>
      THEN Error
      ELSE Value(<<"net6">>, "none", IF cidr = <<>> THEN "none" ELSE cidr[1])

NoValue(ok) == IF ok THEN Value(NoArg, "none", "none") ELSE Error
Domain(ok, arg) == IF ok /\ DomainOk(arg) THEN Value(arg, "none", "none") ELSE Error

\* a and mx: an argument and lengths, lengths alone, or nothing.
Host(rest) ==
  LET arg == IF Starts(rest, ":") THEN Tail(rest) ELSE rest
      v == DualCidr(arg)
  IN  CASE ~v.ok -> Error
        [] v.ok /\ Starts(rest, ":") -> IF DomainOk(v.arg) THEN v ELSE Error
        [] v.ok /\ ~Starts(rest, ":") -> IF v.arg = <<>> THEN v ELSE Error

Mechanism(name, rest) ==
  LET given == Starts(rest, ":") /\ Len(rest) > 1
  IN  CASE name = "all" -> NoValue(rest = <<>>)
        [] name = "ip4" -> IF given THEN Ip4(Tail(rest)) ELSE Error
        [] name = "ip6" -> IF given THEN Ip6(Tail(rest)) ELSE Error
        [] name \in {"include", "exists"} ->
             IF given THEN Domain(TRUE, Tail(rest)) ELSE Error
        [] name = "ptr" ->
             IF rest = <<>> THEN NoValue(TRUE) ELSE Domain(given, Tail(rest))
        [] name \in {"a", "mx"} -> Host(rest)

-----------------------------------------------------------------------------
(***************************************************************************)
(* _parse_term().                                                          *)
(***************************************************************************)
Term(is_mechanism, name, value) ==
  [ok |-> TRUE, is_mechanism |-> is_mechanism, name |-> name, value |-> value]

Qualified(raw) == raw[1] = "+"
HeadOf(raw)    == IF Qualified(raw) THEN Tail(raw) ELSE raw

\* An "=" that is not the first character, before any ":" and "/".
IsModifier(head) ==
  Find(head, {"="}) \in 2..(Find(head, {":", "/"} \cup Cidr) - 1)

\* NAME_RE, of a name the tokens can spell: a letter first, and from then on
\* letters, digits, "-", "_" and ".".
NameOk(s) ==
  /\ s # <<>> /\ s[1] \in Words
  /\ \A i \in 1..Len(s) : s[i] \in Words \cup {"net4"}

\* Several tokens run into one another spell a name that is no known one.
ModName(s) == IF Len(s) = 1 THEN s[1] ELSE "other"

MechName(head) == Prefix(Find(head, {":", "/"} \cup Cidr) - 1, head)

\* What the term is: a modifier, a mechanism, or neither.
ModOf(raw) ==
  LET head == HeadOf(raw)
      eq == Find(head, {"="})
      value == Rest(head, eq + 1)
      name == ModName(Prefix(eq - 1, head))
  IN  IF \/ Qualified(raw) \/ ~NameOk(Prefix(eq - 1, head))
         \/ ~(IF name \in {"redirect", "exp"} THEN DomainOk(value)
                                              ELSE MacroOk(value))
      THEN Error
      ELSE Term(FALSE, name, Value(value, "none", "none"))

MechOf(raw) ==
  LET head == HeadOf(raw)
      name == MechName(head)
      v == Mechanism(name[1], Rest(head, Len(name) + 1))
  IN  IF Len(name) # 1 \/ name[1] \notin Mechanisms \/ ~v.ok THEN Error
      ELSE Term(TRUE, name[1], v)

TermOf(raw) ==
  CASE HeadOf(raw) = <<>> -> Error
    [] HeadOf(raw) # <<>> /\ IsModifier(HeadOf(raw)) -> ModOf(raw)
    [] HeadOf(raw) # <<>> /\ ~IsModifier(HeadOf(raw)) -> MechOf(raw)

ASSUME TermsAssumption ==
  \A r \in Policies :
    /\ r \in Seq(Seq(Token))
    /\ \A i \in DOMAIN r : r[i] # <<>> /\ TermOf(r[i]) # NoTerm

-----------------------------------------------------------------------------
TermInit ==
  /\ record \in Policies
  /\ index = 1 /\ terms = <<>>
  /\ redirect = NoTerm /\ exp = NoTerm
  /\ stage = "parse"

DuplicateLast(t) == FALSE  \* mutant: the last redirect= or exp= wins
\* Mutant: a mechanism may not be repeated either.
DuplicateAny(t) == \E i \in DOMAIN terms : terms[i].name = t.name
Duplicate(t) ==
  \/ t.name = "redirect" /\ redirect # NoTerm
  \/ t.name = "exp" /\ exp # NoTerm

\* _parse_term() for the next raw term, in the loop of parse().
ParseTerm ==
  /\ stage = "parse" /\ index <= Len(record)
  /\ LET t == TermOf(record[index])
     IN  IF ~t.ok \/ (t.ok /\ Duplicate(t))
         THEN /\ stage' = "permerror"
              /\ UNCHANGED <<record, index, terms, redirect, exp>>
         ELSE /\ terms' = Append(terms, t)
              /\ redirect' = IF t.name = "redirect" THEN t ELSE redirect
              /\ exp' = IF t.name = "exp" THEN t ELSE exp
              /\ index' = index + 1
              /\ UNCHANGED <<record, stage>>

Parsed ==
  /\ stage = "parse" /\ index > Len(record)
  /\ stage' = "parsed" /\ index' = 1
  /\ UNCHANGED <<record, terms, redirect, exp>>

\* The loop of check_host(), which passes over modifiers, when no mechanism
\* matches.  The ip_network() of _match_ip4() takes what IP4_RE took, but for
\* a line feed: that raises ValueError, which no handler of evaluate() names.
MatchTerm ==
  /\ stage = "parsed" /\ index <= Len(terms)
  /\ LET t == terms[index]
     IN  stage' = IF t.is_mechanism /\ t.name = "ip4" /\ t.value.arg # <<"net4">>
                  THEN "ValueError" ELSE stage
  /\ index' = index + 1
  /\ UNCHANGED <<record, terms, redirect, exp>>

TermNext == ParseTerm \/ Parsed \/ MatchTerm
TermSpec == TermInit /\ [][TermNext]_termVars

-----------------------------------------------------------------------------
(***************************************************************************)
(* The grammar of RFC 7208 s12, as the set of ways to read a term.         *)
(***************************************************************************)
\* [ "/" ip4-cidr ] [ "//" ip6-cidr ]
DualCidrs == {<<>>} \cup {<<c>> : c \in Fits.v4} \cup {<<"/", c>> : c \in Fits.v6}
               \cup {<<c, "/", d>> : c \in Fits.v4, d \in Fits.v6}

Four(s) == IF s # <<>> /\ s[1] # "/" THEN s[1] ELSE "none"
Six(s)  == IF Len(s) > 1 THEN Ends(s) ELSE "none"

\* The values a mechanism name with this rest can have.
Readings(name, rest) ==
  LET domains == {n \in 2..Len(rest) : rest[1] = ":" /\ DomainOk(SubSeq(rest, 2, n))}
      all == Len(rest)
      value(n, s) == Value(IF n = 0 THEN NoArg ELSE SubSeq(rest, 2, n),
                           Four(s), Six(s))
  IN  CASE name = "all" -> IF rest = <<>> THEN {value(0, <<>>)} ELSE {}
        [] name \in {"include", "exists"} ->
             {value(n, <<>>) : n \in domains \cap {all}}
        [] name = "ptr" ->
             {value(n, <<>>) : n \in (domains \cup {0}) \cap {all}}
        [] name \in {"a", "mx"} ->
             {value(n, Rest(rest, n + 1)) :
                n \in {m \in domains \cup {0} : Rest(rest, m + 1) \in DualCidrs}}
        [] name = "ip4" ->
             {Value(<<"net4">>, Four(s), "none") :
                s \in {c \in {<<>>, <<"/24">>} : rest = <<":", "net4">> \o c}}
        [] name = "ip6" ->
             {Value(<<"net6">>, "none", Four(s)) :
                s \in {c \in {<<>>, <<"/24">>, <<"/64">>} :
                         rest = <<":", "net6">> \o c}}

\* directive / modifier
Legal(raw) ==
  LET head == HeadOf(raw)
      mech == {Term(TRUE, head[1], v) :
                 v \in IF head # <<>> /\ head[1] \in Mechanisms
                       THEN Readings(head[1], Tail(head)) ELSE {}}
      named == {n \in 1..(Len(raw) - 1) :
                  /\ raw[n + 1] = "=" /\ NameOk(Prefix(n, raw))
                  /\ MacroOk(Rest(raw, n + 2))
                  /\ ModName(Prefix(n, raw)) \in {"redirect", "exp"}
                       => DomainOk(Rest(raw, n + 2))}
      mod == {Term(FALSE, ModName(Prefix(n, raw)),
                   Value(Rest(raw, n + 2), "none", "none")) : n \in named}
  IN  mech \cup mod

Lines == \E i \in DOMAIN record : "nl" \in {record[i][j] : j \in DOMAIN record[i]}

\* Every accepted term was read the one way the grammar allows, and a record
\* without a line feed is rejected only for a term the grammar does not have
\* or for a second redirect= or exp=.
TermsAreGrammar ==
  /\ \A i \in DOMAIN terms : ~Lines => Legal(record[i]) = {terms[i]}
  /\ stage = "permerror" /\ Legal(record[index]) # {}
       => \E t \in Legal(record[index]), i \in 1..(index - 1) :
            /\ t.name \in {"redirect", "exp"}
            /\ terms[i].name = t.name

\* The modifiers of the record are those terms, and there is one of each.
ModifiersAreTerms ==
  \A i \in DOMAIN terms :
    /\ terms[i].name = "redirect" => redirect = terms[i]
    /\ terms[i].name = "exp" => exp = terms[i]

\* README.md:132: RFC outcomes are never exceptions; a malformed record comes
\* back as a verdict.
MalformedIsVerdict == stage # "ValueError"
=============================================================================

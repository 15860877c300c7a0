------------------------------- MODULE MCText -------------------------------
(***************************************************************************)
(* The readers of text side by side: a behaviour gives one of them one     *)
(* input, and the others are idle.                                         *)
(***************************************************************************)
EXTENDS MacroString, Terms, Names

CONSTANTS
  MaxPieces,  \* bound on the pieces of a text
  MaxLong,    \* the same, for a text of few different pieces
  MaxTail,    \* bound on the tokens after the name of a term
  MaxTerms,   \* bound on the terms of a record
  MaxLabels   \* bound on the labels of a name

\* Every sequence over S of up to n members.
UpTo(n, S) == UNION {[1..m -> S] : m \in 0..n}

\* A piece is a character, or what stands in braces, so that short texts hold
\* whole macros.
C(c) == <<c>>
Brace(b) == <<"{">> \o b \o <<"}">>

SpecPieces == {C("%"), C("_"), C("."), C("d"), C("-"), C("0"),
               Brace(<<"d", "1", "r">>), Brace(<<"d", ".">>),
               Brace(<<"d", ".", ".">>), Brace(<<"d", "0">>), Brace(<<"c">>)}

ExpPieces == {C("%"), C("_"), C("d"), C("."), C("sp"), Brace(<<"c">>),
              Brace(<<"z">>), Brace(<<"d", "r", "-">>)}

\* The few pieces of longer texts: escapes, a macro, dots and labels.
LongSpecs == {C("%"), C("_"), C("."), C("d"), Brace(<<"d", ".">>)}
LongExps  == {C("%"), C("_"), C("d"), C("sp"), Brace(<<"c">>)}

\* A line feed ends the record and so a domain-spec; a TXT answer can hold it
\* anywhere.
SpecFeeds == {w \o <<C("nl")>> : w \in UpTo(3, SpecPieces)}
ExpFeeds  == UpTo(4, {C("nl"), C("d"), C("sp"), Brace(<<"d">>)})

AllSpecs == {FlattenSeq(w) : w \in UpTo(MaxPieces, SpecPieces)
                                    \cup UpTo(MaxLong, LongSpecs) \cup SpecFeeds}
AllExps  == {FlattenSeq(w) : w \in UpTo(MaxPieces, ExpPieces)
                                    \cup UpTo(MaxLong, LongExps) \cup ExpFeeds}

\* Every term that is a name, perhaps qualified, and a tail; every record of
\* a few terms; and records that end in a line feed.
Tails == UpTo(MaxTail, {":", "=", "/", "/24", "/64", "/129", "dom", "bad"})
Nets  == {<<":", n>> \o s : n \in {"net4", "net6"},
            s \in UpTo(2, {"/", "/24", "/64", "/129", "dom", ":"})}
Heads == {<<n>> : n \in TermNames} \cup {<<"+", n>> : n \in TermNames} \cup {<<"+">>}

OneTerm == {<<h \o t>> : h \in Heads, t \in Tails \cup Nets}

Some == {<<"redirect", "=", "dom">>, <<"redirect", "=", "dom", "dom">>,
         <<"exp", "=", "dom">>, <<"other", "=", "/">>, <<"+", "all">>,
         <<"a", "/24">>, <<"+", "exp", "=", "dom">>}

LastTerms ==
  {<<<<"+", "a", ":", "dom">>, h \o t \o <<"nl">>>> :
     h \in {<<n>> : n \in Mechanisms},
     t \in {<<>>, <<":", "dom">>, <<":", "net4">>, <<":", "net6">>, <<"/24">>,
            <<":", "net4", "/24">>, <<":", "net6", "/64">>}}

AllPolicies == OneTerm \cup UpTo(MaxTerms, Some) \cup LastTerms

\* Names with labels around the limit; the last one, the top, is not empty.
AllNames == {s \in UpTo(MaxLabels, 0..(LabelLimit + 1)) : s # <<>> /\ Last(s) # 0}

-----------------------------------------------------------------------------
StrIdle == text = <<>> /\ pos = 1 /\ is_exp = FALSE /\ pc = "idle"
TermIdle ==
  /\ record = <<>> /\ index = 1 /\ terms = <<>>
  /\ redirect = NoTerm /\ exp = NoTerm /\ stage = "idle"
NamesIdle == expanded = <<1, 1>> /\ name = expanded /\ use = "idle"

TextInit ==
  \/ StrInit /\ TermIdle /\ NamesIdle
  \/ StrIdle /\ TermInit /\ NamesIdle
  \/ StrIdle /\ TermIdle /\ NamesInit

TextNext ==
  \/ StrNext /\ UNCHANGED <<termVars, nameVars>>
  \/ TermNext /\ UNCHANGED <<strVars, nameVars>>
  \/ NamesNext /\ UNCHANGED <<strVars, termVars>>

TextSpec == TextInit /\ [][TextNext]_<<strVars, termVars, nameVars>>
=============================================================================

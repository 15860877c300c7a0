----------------------------- MODULE Evaluator -----------------------------
(***************************************************************************)
(* Evaluator (src/spftrace/evaluator.py) with the %{p} expansion of        *)
(* macros.py: one evaluate() call, from the sender domain to the verdict   *)
(* and its explanation.  check_host() recurses through include and         *)
(* redirect, so the model keeps a stack of frames; every await is the      *)
(* session's Query followed by a state in which time can pass and an       *)
(* answer can come.                                                        *)
(*                                                                         *)
(* Policies are abstract: a TXT string is a model value, and PolicyOf says *)
(* what parse() makes of it.  An address is the class of networks it is in *)
(* ("self": the client's own; "near": in its wide network; "far").  An     *)
(* argument is the name it expands to, except that of %{p}, which needs    *)
(* lookups of its own.                                                     *)
(***************************************************************************)
EXTENDS Session

CONSTANTS
  Name,        \* the names valid_domain() accepts
  Malformed,   \* any name that it rejects; also what %{p} gives for "unknown"
  Rev,         \* the reverse_pointer name of the client address
  Below,       \* <<n, d>>: n is d or a subdomain of it
  AddrType,    \* "A" for an IPv4 client, "AAAA" for an IPv6 one
  Text,        \* TXT strings
  PolicyOf,    \* PolicyOf[t]: a policy, NotSpf, or BadSyntax
  NotSpf, BadSyntax,
  ExpOf,       \* ExpOf[t]: what t is as an explanation, a member of ExpKind
  Start,       \* the sender domains evaluate() is called with, and BadIp
  BadIp,
  Override,    \* policy_override, or NoText
  NoText,
  MaxMx, MaxPtr  \* MAX_MX_RECORDS and MAX_PTR_NAMES

\* Argument kinds that are not names.
NoArg    == "no argument"   \* the modifier is absent
Implicit == "<domain>"      \* term.arg is None
PMacro   == "%{p}"          \* the argument is the validated domain

Arg      == Name \cup {Malformed, PMacro}
RType    == {"TXT", "A", "AAAA", "MX", "PTR"}
AddrClass == {"self", "near", "far"}
ExpKind  == {"plain", "pmacro", "bad", "pbad"}
Verdict  == {"none", "neutral", "pass", "fail", "softfail",
             "temperror", "permerror"}
Qualifier == {"pass", "fail", "softfail", "neutral"}

DnsMechanism == {"include", "a", "mx", "ptr", "exists"}

\* A mechanism: "hit" is the set of address classes its network or cidr covers.
TermType ==
  [name : DnsMechanism, qualifier : Qualifier, arg : Arg \cup {Implicit},
   hit : SUBSET AddrClass]
  \cup
  [name : {"all", "ip4", "ip6"}, qualifier : Qualifier, arg : {NoArg},
   hit : SUBSET AddrClass]

PolicyType == [terms : Seq(TermType),
               redirect : Arg \cup {NoArg},
               exp : Arg \cup {NoArg}]

ASSUME EvaluatorAssumption ==
  /\ Key = Name \X RType
  /\ Rev \in Name /\ Malformed \notin Name
  /\ AddrType \in {"A", "AAAA"}
  /\ PolicyOf \in [Text -> PolicyType \cup {NotSpf, BadSyntax}]
  /\ NotSpf \notin PolicyType /\ BadSyntax \notin PolicyType
  /\ NotSpf # BadSyntax
  /\ ExpOf \in [Text -> ExpKind]
  /\ Start \subseteq Name \cup {Malformed, BadIp}
  /\ BadIp \notin Name \cup {Malformed}
  /\ Override \in Text \cup {NoText} /\ NoText \notin Text
  /\ MaxMx \in Nat /\ MaxPtr \in Nat
  /\ \A n \in Name :
       /\ \A a \in Reply[<<n, "TXT">>] : a.answers \in Seq(Text)
       /\ \A t \in {"MX", "PTR"} :
            \A a \in Reply[<<n, t>>] : a.answers \in Seq(Name)
       /\ \A t \in {"A", "AAAA"} :
            \A a \in Reply[<<n, t>>] : a.answers \in Seq(AddrClass)

VARIABLES
  pc,             \* where the coroutine is
  stack,          \* the active check_host() calls, the innermost first
  target,         \* the expanded <target-name> of the current term
  names, found,   \* names still to try; the best %{p} has confirmed so far
  work,           \* who walks names: "mx", "ptr" or "pmacro"
  resume,         \* where %{p} goes on
  ret,            \* what a check_host() that is returning gives its caller
  exp, exp_domain,  \* (exp_term, domain) it returns
  text,           \* the TXT string exp= leads to
  override_used,  \* _override_used
  depth,          \* trace depth: push() and pop()
  result,         \* the verdict, "pending" until there is one
  explanation     \* the exp= text, or NoText

evalVars == <<pc, stack, target, names, found, work, resume, ret, exp,
              exp_domain, text, override_used, depth, result, explanation>>
vars == <<sessionVars, evalVars>>

walkVars  == <<target, names, found, work, resume>>
exitVars  == <<ret, exp, exp_domain, text, result, explanation>>
frameVars == <<stack, override_used, depth>>

-----------------------------------------------------------------------------
NoPolicy == [terms |-> <<>>, redirect |-> NoArg, exp |-> NoArg]

\* A check_host() call: its arguments, the parsed record and the next term.
Frame(d, via, use_exp) ==
  [domain |-> d, via |-> via, use_exp |-> use_exp, policy |-> NoPolicy,
   idx |-> 1]

Top    == Head(stack)
Policy == Top.policy
Past   == Top.idx > Len(Policy.terms)

\* The term being evaluated: a mechanism, or redirect= after the last one.
Term ==
  IF Past THEN [name |-> "redirect", qualifier |-> "neutral",
                arg |-> Policy.redirect, hit |-> {}]
  ELSE Policy.terms[Top.idx]

\* <domain> for macros: the check_host() in progress, or the one that gave exp=.
Domain == IF stack = <<>> THEN exp_domain ELSE Top.domain

EvalInit ==
  /\ SessionInit
  /\ pc = "start"
  /\ stack = <<>>
  /\ target = Malformed /\ names = <<>> /\ found = Malformed
  /\ work = "mx" /\ resume = "apply"
  /\ ret = "none" /\ exp = NoArg /\ exp_domain = Malformed
  /\ text = NoText
  /\ override_used = FALSE
  /\ depth = 0
  /\ result = "pending" /\ explanation = NoText

-----------------------------------------------------------------------------
(***************************************************************************)
(* How a piece of the evaluation ends.                                     *)
(***************************************************************************)

\* SpfPermError, SpfTempError or DnsError: nothing below evaluate() catches
\* them while the verdict is open, so they unwind every check_host() at once.
\* The depth is left where it was.
Raise(e) ==
  /\ result' = e
  /\ stack' = <<>>
  /\ pc' = "finish"
  /\ UNCHANGED <<sessionVars, walkVars, ret, exp, exp_domain, text, explanation,
                 override_used, depth>>

\* check_host() returns v, or raises SpfNoneError when v is "none".
Return(v, e) ==
  /\ ret' = v
  /\ exp' = e
  /\ exp_domain' = Top.domain
  /\ pc' = "return"
  /\ UNCHANGED <<sessionVars, walkVars, text, result, explanation, frameVars>>

Exp == IF Top.use_exp THEN Policy.exp ELSE NoArg

\* _eval_mechanism() returned True.
Match == Return(Term.qualifier, Exp)

\* _eval_mechanism() returned False.
NoMatch ==
  /\ stack' = [stack EXCEPT ![1].idx = @ + 1]
  /\ pc' = "term"
  /\ UNCHANGED <<sessionVars, walkVars, exitVars, override_used, depth>>

\* A lookup, and where the coroutine stands when it is over.
Ask(k, next) ==
  /\ Query(k)
  /\ pc' = next
  /\ UNCHANGED <<walkVars, exitVars, frameVars>>

-----------------------------------------------------------------------------
(***************************************************************************)
(* evaluate() up to check_host().                                          *)
(***************************************************************************)
Begin(d) ==
  /\ pc = "start"
  /\ IF d = BadIp
       THEN pc' = "done" /\ result' = "permerror" /\ stack' = stack
       ELSE pc' = "enter" /\ result' = result
            /\ stack' = <<Frame(d, "top", TRUE)>>
  /\ UNCHANGED <<sessionVars, walkVars, ret, exp, exp_domain, text, explanation,
                 override_used, depth>>

(***************************************************************************)
(* check_host() up to its terms, with _fetch_policy().                     *)
(***************************************************************************)
Parse(t) ==
  IF PolicyOf[t] \in {NotSpf, BadSyntax}
    THEN Raise("permerror")
    ELSE /\ stack' = [stack EXCEPT ![1].policy = PolicyOf[t]]
         /\ pc' = "term"
         /\ UNCHANGED <<sessionVars, walkVars, exitVars, override_used, depth>>

EnterLate ==
  /\ pc = "enter"
  /\ CheckDeadline
  /\ UNCHANGED evalVars

EnterMalformed ==
  /\ pc = "enter" /\ status = "ready" /\ ~expired
  /\ Top.domain \notin Name
  /\ Return("none", NoArg)

TakesOverrideAgain == Override # NoText  \* mutant: it is used for includes too
TakesOverride == Override # NoText /\ ~override_used

EnterOverride ==
  /\ pc = "enter" /\ status = "ready" /\ ~expired
  /\ Top.domain \in Name
  /\ TakesOverride
  /\ override_used' = TRUE
  /\ IF PolicyOf[Override] \in {NotSpf, BadSyntax}
       THEN pc' = "finish" /\ result' = "permerror" /\ stack' = <<>>
       ELSE /\ pc' = "term" /\ result' = result
            /\ stack' = [stack EXCEPT ![1].policy = PolicyOf[Override]]
  /\ UNCHANGED <<sessionVars, walkVars, ret, exp, exp_domain, text, explanation,
                 depth>>

EnterQuery ==
  /\ pc = "enter" /\ ~expired
  /\ Top.domain \in Name
  /\ ~TakesOverride
  /\ Ask(<<Top.domain, "TXT">>, "policy")

\* Where the v=spf1 records are among the answers.
SpfAt == {i \in DOMAIN reply.answers : PolicyOf[reply.answers[i]] # NotSpf}

FetchPolicy ==
  /\ pc = "policy" /\ status = "ready"
  /\ \/ reply = DnsFailure /\ Raise("temperror")
     \/ reply # DnsFailure /\ SpfAt = {} /\ Return("none", NoArg)
     \/ \E i \in SpfAt : SpfAt = {i} /\ Parse(reply.answers[i])
     \/ (\E i, j \in SpfAt : i # j) /\ Raise("permerror")

(***************************************************************************)
(* The loop over the terms, and _eval_mechanism().                         *)
(***************************************************************************)
TermLate ==
  /\ pc = "term" /\ ~Past
  /\ CheckDeadline
  /\ UNCHANGED evalVars

\* all, ip4 and ip6 need no lookup.
Covers ==
  \/ Term.name = "all"
  \/ /\ Term.name = (IF AddrType = "A" THEN "ip4" ELSE "ip6")
     /\ "self" \in Term.hit

LocalTerm ==
  /\ pc = "term" /\ status = "ready" /\ ~expired /\ ~Past
  /\ Term.name \notin DnsMechanism
  /\ IF Covers THEN Match ELSE NoMatch

\* Mutant: redirect= costs no term.
DnsTermFreeRedirect ==
  /\ pc = "term"
  /\ IF Past THEN Policy.redirect # NoArg /\ UNCHANGED sessionVars
             ELSE ~expired /\ Term.name \in DnsMechanism /\ ConsumeTerm
  /\ pc' = "target"
  /\ UNCHANGED <<walkVars, exitVars, frameVars>>

\* consume_term() comes first, for a mechanism and for redirect= alike; only
\* a mechanism has the deadline checked before it.
DnsTerm ==
  /\ pc = "term"
  /\ IF Past THEN Policy.redirect # NoArg
             ELSE ~expired /\ Term.name \in DnsMechanism
  /\ ConsumeTerm
  /\ pc' = "target"
  /\ UNCHANGED <<walkVars, exitVars, frameVars>>

Default ==
  /\ pc = "term" /\ status = "ready"
  /\ Past /\ Policy.redirect = NoArg
  /\ Return("neutral", Exp)

TargetNameAsIs == Term.arg  \* mutant: a term without an argument is expanded
TargetName == IF Term.arg = Implicit THEN Top.domain ELSE Term.arg

\* _target().
Target ==
  /\ pc = "target" /\ status = "ready"
  /\ Term.arg # PMacro
  /\ target' = TargetName
  /\ pc' = "apply"
  /\ UNCHANGED <<sessionVars, names, found, work, resume, exitVars, frameVars>>

\* expand() meets %{p}: validated_domain() asks for the PTR names.
Expand(next) ==
  /\ Query(<<Rev, "PTR">>)
  /\ work' = "pmacro"
  /\ resume' = next
  /\ pc' = "names"
  /\ UNCHANGED <<target, names, found, exitVars, frameVars>>

TargetMacro ==
  /\ pc = "target" /\ Term.arg = PMacro
  /\ Expand("apply")

\* The first lookup of a, mx and exists; an invalid target matches nothing.
AskTarget ==
  /\ pc = "apply" /\ status = "ready"
  /\ Term.name \in {"a", "mx", "exists"}
  /\ IF target \notin Name THEN NoMatch
     ELSE Ask(<<target, CASE Term.name = "a" -> AddrType
                          [] Term.name = "mx" -> "MX"
                          [] Term.name = "exists" -> "A">>,
              IF Term.name = "mx" THEN "exchanges" ELSE "answer")

\* ptr does not validate its target: the names below it are looked for.
AskPtr ==
  /\ pc = "apply" /\ Term.name = "ptr"
  /\ Query(<<Rev, "PTR">>)
  /\ work' = "ptr"
  /\ pc' = "names"
  /\ UNCHANGED <<target, names, found, resume, exitVars, frameVars>>

\* Mutant: the nested check_host() starts with fresh limits.
RecurseFresh ==
  /\ pc = "apply" /\ status = "ready"
  /\ Term.name \in {"include", "redirect"}
  /\ stack' = <<Frame(target, Term.name,
                      Term.name = "redirect" /\ Top.use_exp)>> \o stack
  /\ depth' = depth + 1
  /\ pc' = "enter"
  /\ void_used' = 0
  /\ UNCHANGED <<terms_used, terms_exceeded, void_exceeded, lookupVars,
                 expired, void_exempt, status, reply, walkVars, exitVars,
                 override_used>>

\* include and redirect: push() and the nested check_host().
Recurse ==
  /\ pc = "apply" /\ status = "ready"
  /\ Term.name \in {"include", "redirect"}
  /\ stack' = <<Frame(target, Term.name,
                      Term.name = "redirect" /\ Top.use_exp)>> \o stack
  /\ depth' = depth + 1
  /\ pc' = "enter"
  /\ UNCHANGED <<sessionVars, walkVars, exitVars, override_used>>

Hits == \E i \in DOMAIN reply.answers : reply.answers[i] \in Term.hit

\* The answer to the lookup of a or exists.
Answered ==
  /\ pc = "answer" /\ status = "ready"
  /\ IF reply = DnsFailure THEN Raise("temperror")
     ELSE IF (Term.name = "a" /\ Hits)
              \/ (Term.name = "exists" /\ reply.answers # <<>>)
          THEN Match ELSE NoMatch

\* The exchanges of mx: too many of them are an error, before any is tried.
Exchanges ==
  /\ pc = "exchanges" /\ status = "ready"
  /\ CASE reply = DnsFailure -> Raise("temperror")
       [] reply # DnsFailure /\ Len(reply.answers) > MaxMx -> Raise("permerror")
       [] OTHER ->
            /\ names' = reply.answers
            /\ work' = "mx"
            /\ pc' = "each"
            /\ UNCHANGED <<sessionVars, target, found, resume, exitVars,
                           frameVars>>

(***************************************************************************)
(* The walks over names: mx, ptr and %{p}.                                 *)
(***************************************************************************)
First(n, s) == SubSeq(s, 1, IF Len(s) < n THEN Len(s) ELSE n)

\* The PTR answer: a failure is no names, for ptr and %{p} alike.
PtrNames ==
  /\ pc = "names" /\ status = "ready"
  /\ names' = First(MaxPtr, reply.answers)
  /\ found' = Malformed
  /\ pc' = "each"
  /\ UNCHANGED <<sessionVars, target, work, resume, exitVars, frameVars>>

\* ptr looks only at the names at or below its target.
OutsideTarget == work = "ptr" /\ <<Head(names), target>> \notin Below

NextHost ==
  /\ names' = Tail(names)
  /\ pc' = "each"
  /\ UNCHANGED <<sessionVars, target, work, resume, exitVars, frameVars>>

SkipHost ==
  /\ pc = "each" /\ status = "ready" /\ names # <<>>
  /\ OutsideTarget
  /\ NextHost
  /\ found' = found

AskHost ==
  /\ pc = "each" /\ names # <<>>
  /\ ~OutsideTarget
  /\ Ask(<<Head(names), AddrType>>, "host")

\* Which name %{p} prefers: <domain> itself, then one below it, then any; the
\* first confirmed of its kind.
RankIn(n, d) == CASE n = d -> 0
                  [] n # d /\ <<n, d>> \in Below -> 1
                  [] OTHER -> 2
Rank(n) == RankIn(n, Domain)

BetterLast(n) == found = Malformed \/ Rank(n) <= Rank(found)  \* mutant
Better(n) == found = Malformed \/ Rank(n) < Rank(found)

\* mx gives up on a failure; ptr and %{p} go on to the next name.
HostAnswered ==
  /\ pc = "host" /\ status = "ready"
  /\ LET self == \E i \in DOMAIN reply.answers : reply.answers[i] = "self"
     IN  CASE work = "mx" /\ reply = DnsFailure -> Raise("temperror")
           [] work = "mx" /\ reply # DnsFailure /\ Hits -> Match
           [] work = "ptr" /\ self -> Match
           [] work = "pmacro" /\ self ->
                /\ NextHost
                /\ found' = IF Better(Head(names)) THEN Head(names) ELSE found
           [] OTHER -> NextHost /\ found' = found

NamesSpent ==
  /\ pc = "each" /\ status = "ready"
  /\ names = <<>> /\ work # "pmacro"
  /\ NoMatch

\* "unknown" when no name was confirmed.
MacroDone ==
  /\ pc = "each" /\ status = "ready"
  /\ names = <<>> /\ work = "pmacro"
  /\ target' = found
  /\ pc' = resume
  /\ UNCHANGED <<sessionVars, names, found, work, resume, exitVars, frameVars>>

(***************************************************************************)
(* The end of a nested check_host(), in its caller.                        *)
(***************************************************************************)
PopForgotten == depth  \* mutant

\* Trace.pop() never goes below zero.
Pop == IF depth > 0 THEN depth - 1 ELSE 0

ReturnInclude ==
  /\ pc = "return" /\ Top.via = "include"
  /\ depth' = Pop
  /\ CASE ret = "none" ->
            pc' = "finish" /\ result' = "permerror" /\ stack' = <<>>
       [] ret = "pass" ->
            pc' = "match" /\ result' = result /\ stack' = Tail(stack)
       [] OTHER ->
            /\ pc' = "term" /\ result' = result
            /\ stack' = [Tail(stack) EXCEPT ![1].idx = @ + 1]
  /\ UNCHANGED <<sessionVars, walkVars, ret, exp, exp_domain, text,
                 explanation, override_used>>

IncludeMatch ==
  /\ pc = "match"
  /\ Match

ReturnRedirect ==
  /\ pc = "return" /\ Top.via = "redirect"
  /\ depth' = Pop
  /\ IF ret = "none"
       THEN pc' = "finish" /\ result' = "permerror" /\ stack' = <<>>
       ELSE pc' = pc /\ result' = result /\ stack' = Tail(stack)
  /\ UNCHANGED <<sessionVars, walkVars, ret, exp, exp_domain, text, explanation,
                 override_used>>

\* exp= is fetched on fail only.
WantsExpAlways == exp # NoArg  \* mutant
WantsExp == ret = "fail" /\ exp # NoArg

\* Back in evaluate(): the verdict is known.
ReturnTop ==
  /\ pc = "return" /\ Top.via = "top"
  /\ result' = ret
  /\ stack' = <<>>
  /\ pc' = IF WantsExp THEN "exp" ELSE "finish"
  /\ UNCHANGED <<sessionVars, walkVars, ret, exp, exp_domain, text, explanation,
                 override_used, depth>>

\* Mutant: both exceptions end in the permerror handler.
UnwindAsPerm ==
  /\ status \in Raised
  /\ result = "pending"
  /\ Raise("permerror")

\* The session raised while the verdict was open.
Unwind ==
  /\ status \in Raised
  /\ result = "pending"
  /\ Raise(status)

(***************************************************************************)
(* _explanation(), all of it inside void_exempt().                         *)
(***************************************************************************)
ExpEnter ==
  /\ pc = "exp"
  /\ EnterExempt
  /\ pc' = "exp_target"
  /\ UNCHANGED <<walkVars, exitVars, frameVars>>

ExpTarget ==
  /\ pc = "exp_target" /\ exp # PMacro
  /\ target' = exp
  /\ pc' = "exp_ask"
  /\ UNCHANGED <<sessionVars, names, found, work, resume, exitVars, frameVars>>

ExpTargetMacro ==
  /\ pc = "exp_target" /\ exp = PMacro
  /\ Expand("exp_ask")

\* _explanation() returns; every exit leaves void_exempt() on its way.
ExpReturn(t) ==
  /\ LeaveExempt
  /\ explanation' = t
  /\ pc' = "finish"
  /\ UNCHANGED <<walkVars, ret, exp, exp_domain, text, result, frameVars>>

ExpAsk ==
  /\ pc = "exp_ask" /\ status = "ready"
  /\ IF target \notin Name THEN ExpReturn(NoText)
                           ELSE Ask(<<target, "TXT">>, "exp_reply")

ExpReply ==
  /\ pc = "exp_reply" /\ status = "ready"
  /\ IF reply = DnsFailure \/ Len(reply.answers) # 1
       THEN ExpReturn(NoText)
       ELSE /\ text' = reply.answers[1]
            /\ pc' = "exp_text"
            /\ UNCHANGED <<sessionVars, walkVars, ret, exp, exp_domain, result,
                           explanation, frameVars>>

\* The text itself is expanded, which can take the %{p} lookups once more.
\* "bad" and "pbad" do not expand: they are found out before and after those.
ExpText ==
  /\ pc = "exp_text" /\ ExpOf[text] \in {"plain", "bad"}
  /\ ExpReturn(IF ExpOf[text] = "plain" THEN text ELSE NoText)

ExpTextMacro ==
  /\ pc = "exp_text" /\ ExpOf[text] \in {"pmacro", "pbad"}
  /\ Expand("exp_done")

ExpDone ==
  /\ pc = "exp_done" /\ status = "ready"
  /\ ExpReturn(IF ExpOf[text] = "pmacro" THEN text ELSE NoText)

\* The session raised: _explanation() returns None.
ExpRaised ==
  /\ status \in Raised
  /\ void_exempt
  /\ ExpReturn(NoText)

(***************************************************************************)
(* The end of evaluate(), and the whole evaluation.                        *)
(***************************************************************************)

BreachedTerms == terms_exceeded  \* mutant: the voids are forgotten
Breached == terms_exceeded \/ void_exceeded

\* A limit passed in audit mode, or as an error, is a permerror.
Finish ==
  /\ pc = "finish"
  /\ result' = IF Breached THEN "permerror" ELSE result
  /\ pc' = "done"
  /\ UNCHANGED <<sessionVars, walkVars, ret, exp, exp_domain, text, explanation,
                 frameVars>>

\* The coroutine runs, up to its next await.
Step ==
  \/ \E d \in Start : Begin(d)
  \/ EnterLate \/ EnterMalformed \/ EnterOverride \/ EnterQuery
  \/ FetchPolicy
  \/ TermLate \/ LocalTerm \/ DnsTerm \/ Default
  \/ Target \/ TargetMacro
  \/ AskTarget \/ AskPtr \/ Recurse \/ Answered \/ Exchanges
  \/ PtrNames \/ SkipHost \/ AskHost \/ HostAnswered \/ NamesSpent \/ MacroDone
  \/ ReturnInclude \/ IncludeMatch \/ ReturnRedirect \/ ReturnTop
  \/ Unwind
  \/ ExpEnter \/ ExpTarget \/ ExpTargetMacro \/ ExpAsk \/ ExpReply
  \/ ExpText \/ ExpTextMacro \/ ExpDone \/ ExpRaised
  \/ Finish

\* The event loop: time passes, an answer comes, a timer is due.
Environment ==
  /\ pc \notin {"start", "done"}
  /\ \/ Elapse
     \/ \E k \in Key : \E a \in Reply[k] : Answer(a)
     \/ LookupRaises
     \/ TimeLimit
  /\ UNCHANGED evalVars

Next == Step \/ Environment

Spec == EvalInit /\ [][Next]_vars

\* The coroutine is resumed when it can run, time passes, and a timer that is
\* due is run.  No name server is assumed to answer.
FairSpec ==
  /\ Spec
  /\ WF_vars(Step)
  /\ WF_vars(Elapse /\ Environment)
  /\ WF_vars(TimeLimit /\ Environment)

-----------------------------------------------------------------------------
(***************************************************************************)
(* Properties.  SessionSpec itself is one of them: the evaluation is a     *)
(* client of the session that stops when an exception tells it to.         *)
(***************************************************************************)
MainPc == {"enter", "policy", "term", "target", "apply", "answer", "exchanges",
           "names",
           "each", "host", "return", "match"}
ExpPc  == {"exp_target", "exp_ask", "exp_reply", "exp_text", "exp_done"}
Pc     == {"start", "exp", "finish", "done"} \cup MainPc \cup ExpPc

FrameType == [domain : Name \cup {Malformed},
              via : {"top", "include", "redirect"},
              use_exp : BOOLEAN, policy : PolicyType, idx : Nat \ {0}]

\* The type of every variable.
EvalTypeOK ==
  /\ TypeOK
  /\ pc \in Pc
  /\ stack \in Seq(FrameType)
  /\ target \in Name \cup {Malformed}
  /\ names \in Seq(Name) /\ found \in Name \cup {Malformed}
  /\ work \in {"mx", "ptr", "pmacro"}
  /\ resume \in {"apply", "exp_ask", "exp_done"}
  /\ ret \in Qualifier \cup {"none"}
  /\ exp \in Arg \cup {NoArg} /\ exp_domain \in Name \cup {Malformed}
  /\ text \in Text \cup {NoText}
  /\ override_used \in BOOLEAN
  /\ depth \in Nat
  /\ result \in Verdict \cup {"pending"}
  /\ explanation \in Text \cup {NoText}

\* Each include or redirect that is open was paid for with a DNS term: the
\* recursion cannot be deeper than the terms consumed (evaluator.py:301-302,
\* 474; prefetch.py:107-108 relies on it).
NestingCostsTerms == Len(stack) <= terms_used + 1

\* Out of audit mode an include loop ends at the term limit, not at the depth
\* of the interpreter's stack (evaluator.py:449-456, session.py:101-107).
NestingBounded == ~Audit => Len(stack) <= MaxTerms + 1

\* While the verdict is open the trace indents exactly as deep as the
\* recursion is (evaluator.py:452, 461, 486, 495).
DepthIsNesting ==
  result = "pending" /\ pc # "start" => depth = Len(stack) - 1

\* A limit that was passed is never reported as anything but permerror: audit
\* mode goes on counting but does not change the verdict (session.py:61-63,
\* evaluator.py:144-154).
BreachIsPermerror ==
  pc = "done" /\ (terms_exceeded \/ void_exceeded) => result = "permerror"

\* What the session raises while the verdict is open becomes the verdict: the
\* handlers of ptr, %{p} and include swallow no limit and no deadline.  Only
\* an error that exp= met is lost, and it costs the explanation
\* (evaluator.py:127-138, 410-413, 523-524; macros.py:71-74).
RaisedIsVerdict ==
  pc = "done" /\ status \in Raised =>
    \/ result = status
    \/ result = "permerror" /\ (terms_exceeded \/ void_exceeded)
    \/ result = "fail" /\ exp # NoArg /\ explanation = NoText

\* The README's "expanded exp= text, on fail only" (README.md:168).
ExplanationOnFailOnly ==
  pc = "done" /\ explanation # NoText => result = "fail"

\* Once the verdict is decided the exp= lookups can change neither it nor the
\* limits it depends on (session.py:143-152, evaluator.py:513-522).
ExpIsHarmless ==
  [][void_exempt => UNCHANGED <<result, limitVars>>]_vars

\* Every evaluation ends, although no name server is assumed to answer and
\* the policies may include each other for ever (session.py:95-97, 205-210).
Terminates == pc # "start" ~> pc = "done"
=============================================================================

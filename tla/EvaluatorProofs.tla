-------------------------- MODULE EvaluatorProofs --------------------------
(***************************************************************************)
(* Proofs about Evaluator for every zone, every policy, every behaviour of *)
(* the name servers and every value of the limits: it implements           *)
(* SessionSpec, so that everything proved of the session holds of an       *)
(* evaluation, and its recursion is bounded by the DNS terms it pays for.  *)
(***************************************************************************)
EXTENDS Evaluator, SessionProofs

-----------------------------------------------------------------------------
(***************************************************************************)
(* The inductive typing invariant.                                         *)
(***************************************************************************)

\* Only the outermost check_host() is evaluate()'s own.
Bottom ==
  \A i \in 1..Len(stack) : (stack[i].via = "top") <=> (i = Len(stack))

\* The walks over names are shared: %{p} takes them for exp= too, when no
\* check_host() is active any more.
WalkPc == {"names", "each", "host"}
Nested ==
  \/ pc \in MainPc \ WalkPc
  \/ pc \in WalkPc /\ (work # "pmacro" \/ resume = "apply")

Explains ==
  \/ pc \in {"exp_text", "exp_done"}
  \/ pc \in WalkPc /\ work = "pmacro" /\ resume = "exp_done"

\* What is known where the coroutine stands.
Place ==
  /\ Nested => stack # <<>>
  /\ Explains => text \in Text
  /\ pc = "target" => Term.arg \in Arg \cup {Implicit}
  /\ pc \in {"exp", "exp_target"} => exp \in Arg
  /\ pc = "host" => names # <<>>
  /\ pc = "start" => status = "ready"

TextAwait == pc \in {"policy", "exp_reply"}
NameAwait == pc \in {"exchanges", "names"}

\* The lookup in flight is the one that the coroutine waits for, and the
\* answer it reads is an answer to it.
ReplyFits ==
  /\ status = "await" /\ TextAwait => \E n \in Name : key = <<n, "TXT">>
  /\ status = "await" /\ NameAwait =>
       \E n \in Name : \E t \in {"MX", "PTR"} : key = <<n, t>>
  /\ status = "ready" /\ TextAwait => reply.answers \in Seq(Text)
  /\ status = "ready" /\ NameAwait => reply.answers \in Seq(Name)

EvalInv ==
  /\ TypeInv
  /\ EvalTypeOK
  /\ Bottom
  /\ Place
  /\ ReplyFits

USE DEF MainPc, WalkPc, Nested, Explains, TextAwait, NameAwait

-----------------------------------------------------------------------------
(***************************************************************************)
(* The stack.                                                              *)
(***************************************************************************)
LEMMA EmptyIsSeq ==
  ASSUME NEW S
  PROVE  <<>> \in Seq(S)
  OBVIOUS

LEMMA StackTop ==
  ASSUME stack \in Seq(FrameType), stack # <<>>
  PROVE  /\ Len(stack) \in Nat \ {0}
         /\ DOMAIN stack = 1..Len(stack)
         /\ Top = stack[1] /\ Top \in FrameType
         /\ Tail(stack) \in Seq(FrameType)
         /\ Len(Tail(stack)) = Len(stack) - 1
         /\ \A i \in 1..(Len(stack) - 1) : Tail(stack)[i] = stack[i + 1]
  BY DEF Top

\* A step to the next term, or the record of the top frame, changes that
\* frame only.
LEMMA FramesUpdate ==
  ASSUME NEW q \in Seq(FrameType), q # <<>>, NEW p \in PolicyType
  PROVE  /\ [q EXCEPT ![1].idx = @ + 1] \in Seq(FrameType)
         /\ [q EXCEPT ![1].policy = p] \in Seq(FrameType)
         /\ Len([q EXCEPT ![1].idx = @ + 1]) = Len(q)
         /\ Len([q EXCEPT ![1].policy = p]) = Len(q)
         /\ \A i \in 1..Len(q) :
              /\ [q EXCEPT ![1].idx = @ + 1][i].via = q[i].via
              /\ [q EXCEPT ![1].policy = p][i].via = q[i].via
  <1>1. Len(q) \in Nat \ {0} /\ q[1] \in FrameType
    OBVIOUS
  <1>. QED
    BY <1>1 DEF FrameType

LEMMA StackPush ==
  ASSUME stack \in Seq(FrameType), NEW f \in FrameType
  PROVE  /\ <<f>> \o stack \in Seq(FrameType)
         /\ Len(<<f>> \o stack) = Len(stack) + 1
         /\ (<<f>> \o stack)[1] = f
         /\ \A i \in 2..(Len(stack) + 1) : (<<f>> \o stack)[i] = stack[i - 1]
  OBVIOUS

\* The term under evaluation is one of the record's, or its redirect=.
LEMMA TermTyped ==
  ASSUME EvalTypeOK, stack # <<>>
  PROVE  /\ Term.qualifier \in Qualifier
         /\ Term.arg \in Arg \cup {Implicit, NoArg}
         /\ ~Past /\ Term.name \in DnsMechanism =>
              Term.arg \in Arg \cup {Implicit}
         /\ Past => Term.arg = Policy.redirect
         /\ Policy \in PolicyType
  <1>1. Top \in FrameType
    BY StackTop DEF EvalTypeOK
  <1>2. Policy \in PolicyType /\ Top.idx \in Nat \ {0}
    BY <1>1 DEF FrameType, Policy
  <1>3. CASE Past
    BY <1>2, <1>3 DEF Term, PolicyType, Qualifier
  <1>4. CASE ~Past
    <2>1. Term \in TermType
      BY <1>2, <1>4 DEF Term, Past, PolicyType
    <2>. QED
      BY <1>2, <1>4, <2>1 DEF TermType, DnsMechanism
  <1>. QED
    BY <1>3, <1>4

LEMMA FirstTyped ==
  ASSUME NEW S, NEW s \in Seq(S), NEW n \in Nat
  PROVE  First(n, s) \in Seq(S)
  BY DEF First

-----------------------------------------------------------------------------
(***************************************************************************)
(* Replies.                                                                *)
(***************************************************************************)

\* What a lookup may give its caller: an answer to it, or DnsError.
LEMMA ReplyAnswers ==
  ASSUME NEW n \in Name, NEW t \in RType, NEW r,
         r \in Reply[<<n, t>>] \/ r = DnsFailure
  PROVE  /\ t = "TXT" => r.answers \in Seq(Text)
         /\ t \in {"MX", "PTR"} => r.answers \in Seq(Name)
  <1>1. CASE r = DnsFailure
    BY <1>1 DEF DnsFailure
  <1>2. CASE r \in Reply[<<n, t>>]
    BY <1>2, EvaluatorAssumption
  <1>. QED
    BY <1>1, <1>2

\* A query that is over at once has its answer; one that is not is in flight.
LEMMA QueryReply ==
  ASSUME TypeOK, NEW k \in Key, Query(k)
  PROVE  /\ status' = "await" => key' = k
         /\ status' = "ready" => reply' \in Reply[k]
  BY DEF Query, CacheHit, PastDeadline, OverBudget, Send, TypeOK, limitVars,
         lookupVars

LEMMA KeyIsNameType ==
  ASSUME NEW n \in Name, NEW t \in RType
  PROVE  <<n, t>> \in Key
  BY EvaluatorAssumption

-----------------------------------------------------------------------------
(***************************************************************************)
(* Every step of the evaluation is a step of the session, or none.         *)
(***************************************************************************)
LEMMA HostKeyInKey ==
  ASSUME EvalInv, names # <<>>
  PROVE  <<Head(names), AddrType>> \in Key
  <1>1. Head(names) \in Name
    BY DEF EvalInv, EvalTypeOK
  <1>. QED
    BY <1>1, KeyIsNameType, EvaluatorAssumption DEF RType

LEMMA StepIsSession ==
  ASSUME EvalInv, Step
  PROVE  [SessionNext]_sessionVars
  <1> USE DEF Raise, Return, Match, NoMatch, Ask, Expand, ExpReturn, NextHost
  <1>1. ASSUME NEW d \in Start, Begin(d)
        PROVE  UNCHANGED sessionVars
    BY <1>1 DEF Begin
  <1>2. CASE EnterLate \/ TermLate
    BY <1>2 DEF EnterLate, TermLate, SessionNext
  <1>3. CASE EnterMalformed \/ EnterOverride \/ LocalTerm \/ Default \/ Target
             \/ Recurse
    BY <1>3 DEF EnterMalformed, EnterOverride, LocalTerm, Default, Target,
                Recurse
  <1>4. CASE EnterQuery
    <2>1. <<Top.domain, "TXT">> \in Key
      BY <1>4, KeyIsNameType DEF EnterQuery, RType
    <2>. QED
      BY <1>4, <2>1 DEF EnterQuery, SessionNext
  <1>5. CASE FetchPolicy
    BY <1>5 DEF FetchPolicy, Parse
  <1>6. CASE DnsTerm
    BY <1>6 DEF DnsTerm, SessionNext
  <1>7. CASE TargetMacro \/ AskPtr \/ ExpTargetMacro \/ ExpTextMacro
    <2>1. <<Rev, "PTR">> \in Key
      BY KeyIsNameType, EvaluatorAssumption DEF RType
    <2>2. Query(<<Rev, "PTR">>)
      BY <1>7 DEF TargetMacro, AskPtr, ExpTargetMacro, ExpTextMacro
    <2>. QED
      BY <2>1, <2>2 DEF SessionNext
  <1>8. CASE AskTarget
    <2>1. CASE target \notin Name
      BY <1>8, <2>1 DEF AskTarget
    <2>2. CASE target \in Name
      <3>1. PICK t \in RType : Query(<<target, t>>)
        BY <1>8, <2>2, EvaluatorAssumption DEF AskTarget, RType
      <3>. QED
        BY <2>2, <3>1, KeyIsNameType DEF SessionNext
    <2>. QED
      BY <2>1, <2>2
  <1>9. CASE Answered \/ Exchanges \/ PtrNames \/ SkipHost \/ NamesSpent
             \/ MacroDone
    BY <1>9 DEF Answered, Exchanges, PtrNames, SkipHost, NamesSpent, MacroDone
  <1>10. CASE AskHost
    BY <1>10, HostKeyInKey DEF AskHost, SessionNext
  <1>11. CASE HostAnswered
    BY <1>11 DEF HostAnswered
  <1>12. CASE ReturnInclude \/ IncludeMatch \/ ReturnRedirect \/ ReturnTop
              \/ Unwind \/ ExpTarget \/ Finish
    BY <1>12 DEF ReturnInclude, IncludeMatch, ReturnRedirect, ReturnTop,
                 Unwind, ExpTarget, Finish
  <1>13. CASE ExpEnter
    BY <1>13 DEF ExpEnter, SessionNext
  <1>14. CASE ExpAsk
    <2>1. target \in Name => <<target, "TXT">> \in Key
      BY KeyIsNameType DEF RType
    <2>. QED
      BY <1>14, <2>1 DEF ExpAsk, SessionNext
  <1>15. CASE ExpReply \/ ExpText \/ ExpDone \/ ExpRaised
    BY <1>15 DEF ExpReply, ExpText, ExpDone, ExpRaised, SessionNext
  <1>. QED
    BY <1>1, <1>2, <1>3, <1>4, <1>5, <1>6, <1>7, <1>8, <1>9, <1>10, <1>11,
       <1>12, <1>13, <1>14, <1>15 DEF Step

LEMMA NextIsSession ==
  ASSUME EvalInv, [Next]_vars
  PROVE  [SessionNext]_sessionVars
  <1>1. CASE Environment
    BY <1>1 DEF Environment, SessionNext
  <1>2. CASE UNCHANGED vars
    BY <1>2 DEF vars
  <1>. QED
    BY <1>1, <1>2, StepIsSession DEF Next

-----------------------------------------------------------------------------
(***************************************************************************)
(* The typing invariant is kept by each way a step can end.                *)
(***************************************************************************)
LEMMA RaiseInv ==
  ASSUME EvalInv, TypeInv', NEW e \in Raised, Raise(e)
  PROVE  EvalInv'
  <1>1. EvalTypeOK'
    BY DEF Raise, EvalInv, TypeInv, EvalTypeOK, Raised, Verdict, Pc, walkVars
  <1>2. Bottom' /\ Place' /\ ReplyFits'
    BY DEF Raise, Bottom, Place, ReplyFits
  <1>. QED
    BY <1>1, <1>2 DEF EvalInv

LEMMA ReturnInv ==
  ASSUME EvalInv, TypeInv', stack # <<>>,
         NEW v \in Qualifier \cup {"none"}, NEW e \in Arg \cup {NoArg},
         Return(v, e)
  PROVE  EvalInv'
  <1>1. Top.domain \in Name \cup {Malformed}
    BY StackTop DEF EvalInv, EvalTypeOK, FrameType
  <1>2. EvalTypeOK'
    BY <1>1 DEF Return, EvalInv, TypeInv, EvalTypeOK, Pc, walkVars, frameVars
  <1>3. Bottom' /\ Place' /\ ReplyFits'
    BY DEF Return, EvalInv, Bottom, Place, ReplyFits, frameVars
  <1>. QED
    BY <1>2, <1>3 DEF EvalInv

LEMMA ExpTyped ==
  ASSUME EvalTypeOK, stack # <<>>
  PROVE  Exp \in Arg \cup {NoArg}
  BY TermTyped DEF Exp, PolicyType

LEMMA MatchInv ==
  ASSUME EvalInv, TypeInv', stack # <<>>, Match
  PROVE  EvalInv'
  BY ReturnInv, ExpTyped, TermTyped DEF Match, EvalInv

\* A step that changes the top frame's record or index.
LEMMA UpdateInv ==
  ASSUME EvalInv, TypeInv', stack # <<>>, pc' = "term",
         UNCHANGED <<walkVars, exitVars>>,
         override_used' \in BOOLEAN, depth' = depth,
         \/ stack' = [stack EXCEPT ![1].idx = @ + 1]
         \/ \E p \in PolicyType : stack' = [stack EXCEPT ![1].policy = p]
  PROVE  EvalInv'
  <1>1. PICK p \in PolicyType :
          \/ stack' = [stack EXCEPT ![1].idx = @ + 1]
          \/ stack' = [stack EXCEPT ![1].policy = p]
    <2>1. Policy \in PolicyType
      BY TermTyped DEF EvalInv
    <2>. QED
      BY <2>1
  <1>0. stack \in Seq(FrameType)
    BY DEF EvalInv, EvalTypeOK
  <1>2. /\ stack' \in Seq(FrameType) /\ Len(stack') = Len(stack)
        /\ \A i \in 1..Len(stack) : stack'[i].via = stack[i].via
    <2>1. CASE stack' = [stack EXCEPT ![1].idx = @ + 1]
      BY ONLY <1>0, <2>1, stack # <<>>, p \in PolicyType, FramesUpdate
    <2>2. CASE stack' = [stack EXCEPT ![1].policy = p]
      BY ONLY <1>0, <2>2, stack # <<>>, p \in PolicyType, FramesUpdate
    <2>. QED
      BY <1>1, <2>1, <2>2
  <1>3. stack' # <<>>
    BY <1>2, StackTop DEF EvalInv, EvalTypeOK
  <1>4. EvalTypeOK'
    BY <1>2 DEF EvalInv, TypeInv, EvalTypeOK, Pc, walkVars, exitVars
  <1>5. Bottom' /\ Place' /\ ReplyFits'
    BY <1>2, <1>3 DEF EvalInv, Bottom, Place, ReplyFits
  <1>. QED
    BY <1>4, <1>5 DEF EvalInv

LEMMA NoMatchInv ==
  ASSUME EvalInv, TypeInv', stack # <<>>, NoMatch
  PROVE  EvalInv'
  BY UpdateInv DEF NoMatch, EvalInv, EvalTypeOK

LEMMA ParseInv ==
  ASSUME EvalInv, TypeInv', stack # <<>>, NEW t \in Text, Parse(t)
  PROVE  EvalInv'
  <1>1. CASE PolicyOf[t] \in {NotSpf, BadSyntax}
    BY <1>1, RaiseInv DEF Parse, Raised
  <1>2. CASE PolicyOf[t] \notin {NotSpf, BadSyntax}
    <2>1. PolicyOf[t] \in PolicyType
      BY <1>2, EvaluatorAssumption
    <2>. QED
      BY <1>2, <2>1, UpdateInv DEF Parse, EvalInv, EvalTypeOK
  <1>. QED
    BY <1>1, <1>2

\* A lookup: what is read next fits it.
LEMMA AskInv ==
  ASSUME EvalInv, TypeInv', NEW n \in Name, NEW t \in RType, Query(<<n, t>>),
         UNCHANGED <<target, names, found, exitVars, frameVars>>,
         work' \in {"mx", "ptr", "pmacro"},
         resume' \in {"apply", "exp_ask", "exp_done"},
         pc' \in {"policy", "answer", "exchanges", "names", "host",
                  "exp_reply"},
         TextAwait' => t = "TXT",
         NameAwait' => t \in {"MX", "PTR"},
         pc' = "host" => names # <<>>,
         Nested' => stack # <<>>,
         Explains' => text \in Text
  PROVE  EvalInv'
  <1>1. <<n, t>> \in Key
    BY KeyIsNameType
  <1>2. /\ status' = "await" => key' = <<n, t>>
        /\ status' = "ready" => reply' \in Reply[<<n, t>>]
    BY <1>1, QueryReply DEF EvalInv, TypeInv
  <1>3. ReplyFits'
    BY <1>2, ReplyAnswers DEF ReplyFits
  <1>4. EvalTypeOK'
    BY DEF EvalInv, TypeInv, EvalTypeOK, Pc, ExpPc, exitVars, frameVars
  <1>5. Bottom' /\ Place'
    BY DEF EvalInv, Bottom, Place, exitVars, frameVars
  <1>. QED
    BY <1>3, <1>4, <1>5 DEF EvalInv

\* A step of the coroutine between two lookups.
LEMMA WalkInv ==
  ASSUME EvalInv, TypeInv', UNCHANGED <<exitVars, frameVars>>,
         target' \in Name \cup {Malformed}, names' \in Seq(Name),
         found' \in Name \cup {Malformed}, work' \in {"mx", "ptr", "pmacro"},
         resume' = resume,
         pc' \in {"each", "apply", "exp_ask", "exp_target", "exp_done"},
         pc' = "exp_target" => exp \in Arg,
         Nested' => stack # <<>>,
         Explains' => text \in Text
  PROVE  EvalInv'
  <1>1. EvalTypeOK'
    BY DEF EvalInv, TypeInv, EvalTypeOK, Pc, ExpPc, exitVars, frameVars
  <1>2. Bottom' /\ Place' /\ ReplyFits'
    BY DEF EvalInv, Bottom, Place, ReplyFits, exitVars, frameVars
  <1>. QED
    BY <1>1, <1>2 DEF EvalInv

LEMMA ExpReturnInv ==
  ASSUME EvalInv, TypeInv', NEW t \in Text \cup {NoText}, ExpReturn(t)
  PROVE  EvalInv'
  <1>1. EvalTypeOK'
    BY DEF ExpReturn, EvalInv, TypeInv, EvalTypeOK, Pc, walkVars, frameVars
  <1>2. Bottom' /\ Place' /\ ReplyFits'
    BY DEF ExpReturn, EvalInv, Bottom, Place, ReplyFits, frameVars
  <1>. QED
    BY <1>1, <1>2 DEF EvalInv

-----------------------------------------------------------------------------
(***************************************************************************)
(* Each action keeps the typing invariant.                                 *)
(***************************************************************************)
LEMMA OpenStack ==
  ASSUME EvalInv, Nested
  PROVE  /\ stack # <<>> /\ stack \in Seq(FrameType)
         /\ Top \in FrameType /\ Policy \in PolicyType
  BY StackTop, TermTyped DEF EvalInv, EvalTypeOK, Place

\* The session raises between two terms: only the session changes.
LEMMA LateInv ==
  ASSUME EvalInv, TypeInv', CheckDeadline, UNCHANGED evalVars, pc # "start"
  PROVE  EvalInv'
  <1>1. EvalTypeOK'
    BY DEF EvalInv, TypeInv, EvalTypeOK, evalVars
  <1>2. Bottom' /\ ReplyFits'
    BY DEF EvalInv, Bottom, ReplyFits, evalVars, CheckDeadline, Raised
  <1>3. Place'
    BY DEF EvalInv, Place, evalVars, Term, Past, Policy, Top
  <1>. QED
    BY <1>1, <1>2, <1>3 DEF EvalInv

LEMMA BeginInv ==
  ASSUME EvalInv, TypeInv', NEW d \in Start, Begin(d)
  PROVE  EvalInv'
  <1>1. CASE d = BadIp
    <2>1. EvalTypeOK'
      BY <1>1 DEF Begin, EvalInv, TypeInv, EvalTypeOK, Pc, walkVars, Verdict
    <2>. QED
      BY <1>1, <2>1 DEF Begin, EvalInv, Bottom, Place, ReplyFits
  <1>2. CASE d # BadIp
    <2> DEFINE f == Frame(d, "top", TRUE)
    <2>1. f \in FrameType
      BY <1>2, EvaluatorAssumption
         DEF Frame, FrameType, NoPolicy, PolicyType, Arg
    <2>2. f.via = "top"
      BY DEF Frame
    <2>3. stack' = <<f>> /\ pc' = "enter"
      BY <1>2 DEF Begin
    <2> HIDE DEF f
    <2>4. EvalTypeOK'
      <3>1. <<f>> \in Seq(FrameType)
        BY <2>1
      <3>2. /\ UNCHANGED <<walkVars, ret, exp, exp_domain, text, explanation,
                           override_used, depth>>
            /\ result' = result
        BY <1>2, Zenon DEF Begin
      <3>3. stack' \in Seq(FrameType) /\ pc' \in Pc
        BY <2>3, <3>1 DEF Pc
      <3>. QED
        BY <3>2, <3>3 DEF EvalInv, TypeInv, EvalTypeOK, walkVars
    <2>5. Bottom' /\ Place' /\ ReplyFits'
      BY <2>2, <2>3 DEF Bottom, Place, ReplyFits
    <2>. QED
      BY <2>4, <2>5 DEF EvalInv
  <1>. QED
    BY <1>1, <1>2

LEMMA EnterInv ==
  ASSUME EvalInv, TypeInv',
         EnterMalformed \/ EnterOverride \/ EnterQuery \/ FetchPolicy
  PROVE  EvalInv'
  <1>0. stack # <<>> /\ Top \in FrameType
    BY OpenStack DEF EnterMalformed, EnterOverride, EnterQuery, FetchPolicy
  <1>1. CASE EnterMalformed
    BY <1>0, <1>1, ReturnInv DEF EnterMalformed
  <1>2. CASE EnterOverride
    <2>1. CASE PolicyOf[Override] \in {NotSpf, BadSyntax}
      <3>1. EvalTypeOK'
        BY <1>2, <2>1 DEF EnterOverride, EvalInv, TypeInv, EvalTypeOK, Pc,
                          walkVars, Verdict
      <3>. QED
        BY <1>2, <2>1, <3>1
           DEF EnterOverride, EvalInv, Bottom, Place, ReplyFits
    <2>2. CASE PolicyOf[Override] \notin {NotSpf, BadSyntax}
      <3>1. PolicyOf[Override] \in PolicyType
        BY <1>2, <2>2, EvaluatorAssumption DEF EnterOverride, TakesOverride
      <3>. QED
        BY <1>0, <1>2, <2>2, <3>1, UpdateInv DEF EnterOverride, exitVars
    <2>. QED
      BY <2>1, <2>2
  <1>3. CASE EnterQuery
    <2>1. Top.domain \in Name /\ "TXT" \in RType
      BY <1>3 DEF EnterQuery, RType
    <2>. QED
      BY <1>0, <1>3, <2>1, AskInv
         DEF EnterQuery, Ask, EvalInv, EvalTypeOK, walkVars
  <1>4. CASE FetchPolicy
    <2>1. reply.answers \in Seq(Text)
      BY <1>4 DEF FetchPolicy, EvalInv, ReplyFits
    <2>2. \A i \in SpfAt : reply.answers[i] \in Text
      BY <2>1 DEF SpfAt
    <2>. QED
      BY <1>0, <1>4, <2>2, RaiseInv, ReturnInv, ParseInv
         DEF FetchPolicy, Raised
  <1>. QED
    BY <1>1, <1>2, <1>3, <1>4

LEMMA TermInv ==
  ASSUME EvalInv, TypeInv', LocalTerm \/ DnsTerm \/ Default
  PROVE  EvalInv'
  <1>0. stack # <<>>
    BY OpenStack DEF LocalTerm, DnsTerm, Default
  <1>1. CASE LocalTerm
    BY <1>0, <1>1, MatchInv, NoMatchInv DEF LocalTerm
  <1>2. CASE DnsTerm
    <2>1. Term.arg \in Arg \cup {Implicit}
      BY <1>0, <1>2, TermTyped DEF DnsTerm, EvalInv, EvalTypeOK, PolicyType
    <2>2. Term' = Term /\ stack' = stack
      BY <1>2 DEF DnsTerm, frameVars, Term, Past, Policy, Top
    <2>3. EvalTypeOK'
      BY <1>2 DEF DnsTerm, EvalInv, TypeInv, EvalTypeOK, Pc, walkVars,
                  exitVars, frameVars
    <2>4. Bottom' /\ Place' /\ ReplyFits'
      BY <1>0, <1>2, <2>1, <2>2
         DEF DnsTerm, EvalInv, Bottom, Place, ReplyFits
    <2>. QED
      BY <2>3, <2>4 DEF EvalInv
  <1>3. CASE Default
    BY <1>0, <1>3, ReturnInv, ExpTyped DEF Default, Qualifier, EvalInv
  <1>. QED
    BY <1>1, <1>2, <1>3

\* A nested check_host() is typed, and is not evaluate()'s own.
LEMMA RecurseInv ==
  ASSUME EvalInv, TypeInv', Recurse
  PROVE  EvalInv'
  <1> DEFINE f == Frame(target, Term.name,
                        Term.name = "redirect" /\ Top.use_exp)
  <1>0. stack # <<>> /\ Top \in FrameType /\ stack \in Seq(FrameType)
    BY OpenStack DEF Recurse
  <1>1. f \in FrameType /\ f.via # "top"
    <2>1. Term.name \in {"include", "redirect"}
      BY DEF Recurse
    <2>2. (Term.name = "redirect" /\ Top.use_exp) \in BOOLEAN
      OBVIOUS
    <2>3. target \in Name \cup {Malformed}
      BY DEF EvalInv, EvalTypeOK
    <2>4. NoPolicy \in PolicyType
      BY DEF NoPolicy, PolicyType
    <2>. QED
      BY <2>1, <2>2, <2>3, <2>4 DEF Frame, FrameType
  <1>2. stack' = <<f>> \o stack
    BY DEF Recurse
  <1> HIDE DEF f
  <1>3. /\ stack' \in Seq(FrameType) /\ Len(stack') = Len(stack) + 1
        /\ stack'[1] = f /\ stack' # <<>>
        /\ \A i \in 2..(Len(stack) + 1) : stack'[i] = stack[i - 1]
    BY <1>0, <1>1, <1>2, StackPush
  <1>4. EvalTypeOK'
    BY <1>3 DEF Recurse, EvalInv, TypeInv, EvalTypeOK, Pc, walkVars, exitVars
  <1>5. Bottom'
    <2> SUFFICES ASSUME NEW i \in 1..Len(stack')
                 PROVE  (stack'[i].via = "top") <=> (i = Len(stack'))
      BY DEF Bottom
    <2>0. Len(stack) \in Nat \ {0}
      BY <1>0, StackTop
    <2>1. CASE i = 1
      BY <1>1, <1>3, <2>0, <2>1
    <2>2. CASE i # 1
      <3>1. i - 1 \in 1..Len(stack)
        BY <1>3, <2>0, <2>2
      <3>2. (stack[i - 1].via = "top") <=> (i - 1 = Len(stack))
        BY <3>1 DEF EvalInv, Bottom
      <3>. QED
        BY <1>3, <2>0, <2>2, <3>2
    <2>. QED
      BY <2>1, <2>2
  <1>6. Place' /\ ReplyFits'
    BY <1>3 DEF Recurse, Place, ReplyFits
  <1>. QED
    BY <1>4, <1>5, <1>6 DEF EvalInv

LEMMA TargetInv ==
  ASSUME EvalInv, TypeInv', Target \/ TargetMacro \/ AskTarget \/ AskPtr
  PROVE  EvalInv'
  <1>0. stack # <<>> /\ Top \in FrameType
    BY OpenStack DEF Target, TargetMacro, AskTarget, AskPtr
  <1>1. CASE Target
    <2>1. TargetName \in Name \cup {Malformed}
      BY <1>0, <1>1
         DEF Target, TargetName, EvalInv, Place, FrameType, Arg
    <2>. QED
      BY <1>0, <1>1, <2>1, WalkInv DEF Target, EvalInv, EvalTypeOK
  <1>2. CASE TargetMacro
    <2>1. Rev \in Name /\ "PTR" \in RType
      BY EvaluatorAssumption DEF RType
    <2>. QED
      BY <1>0, <1>2, <2>1, AskInv
         DEF TargetMacro, Expand
  <1>3. CASE AskTarget
    <2>1. CASE target \notin Name
      BY <1>0, <1>3, <2>1, NoMatchInv DEF AskTarget
    <2>2. CASE target \in Name /\ Term.name = "mx"
      <3>1. "MX" \in RType
        BY DEF RType
      <3>. QED
        BY <1>0, <1>3, <2>2, <3>1, AskInv
           DEF AskTarget, Ask, EvalInv, EvalTypeOK, walkVars
    <2>3. CASE target \in Name /\ Term.name # "mx"
      <3>1. PICK t \in RType : Query(<<target, t>>)
        BY <1>3, <2>3, EvaluatorAssumption DEF AskTarget, Ask, RType
      <3>. QED
        BY <1>0, <1>3, <2>3, <3>1, AskInv
           DEF AskTarget, Ask, EvalInv, EvalTypeOK, walkVars
    <2>. QED
      BY <2>1, <2>2, <2>3
  <1>4. CASE AskPtr
    <2>1. Rev \in Name /\ "PTR" \in RType
      BY EvaluatorAssumption DEF RType
    <2>. QED
      BY <1>0, <1>4, <2>1, AskInv
         DEF AskPtr, EvalInv, EvalTypeOK
  <1>. QED
    BY <1>1, <1>2, <1>3, <1>4

LEMMA AnsweredInv ==
  ASSUME EvalInv, TypeInv', Answered \/ Exchanges
  PROVE  EvalInv'
  <1>0. stack # <<>>
    BY OpenStack DEF Answered, Exchanges
  <1>1. CASE Answered
    BY <1>0, <1>1, RaiseInv, MatchInv, NoMatchInv DEF Answered, Raised
  <1>2. CASE Exchanges
    <2>1. reply.answers \in Seq(Name)
      BY <1>2 DEF Exchanges, EvalInv, ReplyFits
    <2>2. CASE Raise("temperror") \/ Raise("permerror")
      BY <2>2, RaiseInv DEF Raised
    <2>3. CASE /\ names' = reply.answers /\ work' = "mx" /\ pc' = "each"
               /\ UNCHANGED <<sessionVars, target, found, resume, exitVars,
                              frameVars>>
      BY <1>0, <2>1, <2>3, WalkInv DEF EvalInv, EvalTypeOK
    <2>. QED
      BY <1>2, <2>2, <2>3 DEF Exchanges
  <1>. QED
    BY <1>1, <1>2

LEMMA WalkStepInv ==
  ASSUME EvalInv, TypeInv',
         PtrNames \/ SkipHost \/ AskHost \/ HostAnswered \/ NamesSpent
           \/ MacroDone
  PROVE  EvalInv'
  <1>1. CASE PtrNames
    <2>1. First(MaxPtr, reply.answers) \in Seq(Name)
      BY <1>1, FirstTyped, EvaluatorAssumption
         DEF PtrNames, EvalInv, ReplyFits
    <2>. QED
      BY <1>1, <2>1, WalkInv DEF PtrNames, EvalInv, EvalTypeOK, Place
  <1>2. CASE NextHost /\ names # <<>> /\ pc \in {"each", "host"}
             /\ found' \in Name \cup {Malformed}
    <2>1. Tail(names) \in Seq(Name)
      BY <1>2 DEF EvalInv, EvalTypeOK
    <2>. QED
      BY <1>2, <2>1, WalkInv DEF NextHost, EvalInv, EvalTypeOK, Place
  <1>3. CASE SkipHost
    BY <1>2, <1>3 DEF SkipHost, EvalInv, EvalTypeOK
  <1>4. CASE AskHost
    <2>1. Head(names) \in Name /\ AddrType \in RType
      BY <1>4, EvaluatorAssumption DEF AskHost, EvalInv, EvalTypeOK, RType
    <2>. QED
      BY <1>4, <2>1, AskInv
         DEF AskHost, Ask, EvalInv, EvalTypeOK, Place, walkVars
  <1>5. CASE HostAnswered
    <2>1. names # <<>> /\ Head(names) \in Name
      BY <1>5 DEF HostAnswered, EvalInv, EvalTypeOK, Place
    <2>2. CASE Raise("temperror")
      BY <2>2, RaiseInv DEF Raised
    <2>3. CASE Match /\ work # "pmacro"
      BY <1>5, <2>3, MatchInv DEF HostAnswered, EvalInv, Place
    <2>4. CASE NextHost /\ found' \in {found, Head(names)}
      BY <1>2, <1>5, <2>1, <2>4 DEF HostAnswered, EvalInv, EvalTypeOK
    <2>. QED
      BY <1>5, <2>2, <2>3, <2>4 DEF HostAnswered
  <1>6. CASE NamesSpent
    BY <1>6, NoMatchInv DEF NamesSpent, EvalInv, Place
  <1>7. CASE MacroDone
    BY <1>7, WalkInv DEF MacroDone, EvalInv, EvalTypeOK, Place
  <1>. QED
    BY <1>1, <1>3, <1>4, <1>5, <1>6, <1>7

\* Dropping a nested frame leaves the outermost one.
LEMMA TailFrames ==
  ASSUME stack \in Seq(FrameType), stack # <<>>, Bottom, Top.via # "top"
  PROVE  /\ Tail(stack) \in Seq(FrameType) /\ Tail(stack) # <<>>
         /\ \A i \in 1..Len(Tail(stack)) :
              (Tail(stack)[i].via = "top") <=> (i = Len(Tail(stack)))
  <1> DEFINE n == Len(stack)
             s == Tail(stack)
  <1>1. /\ n \in Nat \ {0} /\ Top = stack[1]
        /\ s \in Seq(FrameType) /\ Len(s) = n - 1
        /\ \A i \in 1..(n - 1) : s[i] = stack[i + 1]
    BY StackTop
  <1>2. \A i \in 1..n : (stack[i].via = "top") <=> (i = n)
    BY DEF Bottom
  <1> HIDE DEF n, s
  <1>3. n # 1
    <2>1. n = 1 => stack[1].via = "top"
      BY <1>1, <1>2
    <2>. QED
      BY <2>1, <1>1
  <1>4. s # <<>>
    BY <1>1, <1>3
  <1>5. ASSUME NEW i \in 1..(n - 1)
        PROVE  (s[i].via = "top") <=> (i = n - 1)
    <2>1. i + 1 \in 1..n
      BY <1>1
    <2>2. s[i] = stack[i + 1]
      BY <1>1
    <2>3. (stack[i + 1].via = "top") <=> (i + 1 = n)
      BY <1>2, <2>1
    <2>. QED
      BY <1>1, <2>2, <2>3
  <1>6. 1..Len(s) = 1..(n - 1)
    BY <1>1
  <1>7. \A i \in 1..Len(s) : (s[i].via = "top") <=> (i = Len(s))
    BY <1>1, <1>5, <1>6
  <1>. QED
    BY <1>1, <1>4, <1>7 DEF s

\* The caller goes on where it was.
LEMMA ReturnStepInv ==
  ASSUME EvalInv, TypeInv',
         ReturnInclude \/ IncludeMatch \/ ReturnRedirect \/ ReturnTop
  PROVE  EvalInv'
  <1>0. stack # <<>> /\ stack \in Seq(FrameType) /\ depth \in Nat
    BY OpenStack
       DEF ReturnInclude, IncludeMatch, ReturnRedirect, ReturnTop, EvalInv,
           EvalTypeOK
  <1>1. Pop \in Nat
    BY <1>0 DEF Pop
  <1>2. ASSUME Top.via # "top"
        PROVE  /\ Tail(stack) \in Seq(FrameType) /\ Tail(stack) # <<>>
               /\ \A i \in 1..Len(Tail(stack)) :
                    (Tail(stack)[i].via = "top") <=> (i = Len(Tail(stack)))
    BY <1>0, <1>2, TailFrames DEF EvalInv
  <1>3. CASE ReturnInclude
    <2>0. Top.via # "top"
      BY <1>3 DEF ReturnInclude
    <2> DEFINE s == Tail(stack)
               t == [s EXCEPT ![1].idx = @ + 1]
    <2>1. /\ s \in Seq(FrameType) /\ s # <<>>
          /\ \A i \in 1..Len(s) : (s[i].via = "top") <=> (i = Len(s))
      BY <1>2, <2>0
    <2> HIDE DEF s
    <2>2. /\ t \in Seq(FrameType) /\ Len(t) = Len(s)
          /\ \A i \in 1..Len(s) : t[i].via = s[i].via
      <3>1. NoPolicy \in PolicyType
        BY DEF NoPolicy, PolicyType
      <3>. QED
        BY <2>1, <3>1, FramesUpdate
    <2>3. t # <<>> /\ \A i \in 1..Len(t) : (t[i].via = "top") <=> (i = Len(t))
      BY <2>1, <2>2
    <2>4. \/ stack' = <<>> /\ pc' = "finish" /\ result' = "permerror"
          \/ stack' = s /\ pc' = "match" /\ result' = result
          \/ stack' = t /\ pc' = "term" /\ result' = result
      BY <1>3 DEF ReturnInclude, s
    <2> HIDE DEF t
    <2>5. EvalTypeOK'
      <3>1. stack' \in Seq(FrameType)
        BY <2>1, <2>2, <2>4, EmptyIsSeq
      <3>. QED
        BY <1>1, <1>3, <2>4, <3>1
         DEF ReturnInclude, EvalInv, TypeInv, EvalTypeOK, Pc, walkVars, Verdict
    <2>6. Bottom'
      BY <2>1, <2>3, <2>4 DEF Bottom
    <2>7. Place' /\ ReplyFits'
      BY <2>1, <2>3, <2>4 DEF Place, ReplyFits
    <2>. QED
      BY <2>5, <2>6, <2>7 DEF EvalInv
  <1>4. CASE IncludeMatch
    BY <1>0, <1>4, MatchInv DEF IncludeMatch
  <1>5. CASE ReturnRedirect
    <2>0. Top.via # "top"
      BY <1>5 DEF ReturnRedirect
    <2> DEFINE s == Tail(stack)
    <2>1. /\ s \in Seq(FrameType) /\ s # <<>>
          /\ \A i \in 1..Len(s) : (s[i].via = "top") <=> (i = Len(s))
      BY <1>2, <2>0
    <2>2. \/ stack' = <<>> /\ pc' = "finish" /\ result' = "permerror"
          \/ stack' = s /\ pc' = "return" /\ result' = result
      BY <1>5 DEF ReturnRedirect
    <2> HIDE DEF s
    <2>3. EvalTypeOK'
      <3>1. stack' \in Seq(FrameType)
        BY <2>1, <2>2, EmptyIsSeq
      <3>. QED
        BY <1>1, <1>5, <2>2, <3>1
         DEF ReturnRedirect, EvalInv, TypeInv, EvalTypeOK, Pc, walkVars, Verdict
    <2>4. Bottom' /\ Place' /\ ReplyFits'
      BY <2>1, <2>2 DEF Bottom, Place, ReplyFits
    <2>. QED
      BY <2>3, <2>4 DEF EvalInv
  <1>6. CASE ReturnTop
    <2>1. ret \in Verdict
      BY DEF EvalInv, EvalTypeOK, Qualifier, Verdict
    <2>2. pc' = "exp" => exp \in Arg
      BY <1>6 DEF ReturnTop, WantsExp, EvalInv, EvalTypeOK
    <2>3. EvalTypeOK'
      BY <1>6, <2>1
         DEF ReturnTop, EvalInv, TypeInv, EvalTypeOK, Pc, walkVars
    <2>4. Bottom' /\ Place' /\ ReplyFits'
      BY <1>6, <2>2
         DEF ReturnTop, Bottom, Place, ReplyFits
    <2>. QED
      BY <2>3, <2>4 DEF EvalInv
  <1>. QED
    BY <1>3, <1>4, <1>5, <1>6

LEMMA ExpStepInv ==
  ASSUME EvalInv, TypeInv',
         ExpEnter \/ ExpTarget \/ ExpTargetMacro \/ ExpAsk \/ ExpReply
           \/ ExpText \/ ExpTextMacro \/ ExpDone \/ ExpRaised \/ Finish
  PROVE  EvalInv'
  <1>0. NoText \in Text \cup {NoText} /\ Rev \in Name
        /\ "PTR" \in RType /\ "TXT" \in RType
    BY EvaluatorAssumption DEF RType
  <1>1. CASE ExpEnter
    BY <1>1, WalkInv
       DEF ExpEnter, walkVars, EvalInv, EvalTypeOK, Place
  <1>2. CASE ExpTarget
    <2>1. exp \in Name \cup {Malformed}
      BY <1>2 DEF ExpTarget, EvalInv, Place, Arg
    <2>. QED
      BY <1>2, <2>1, WalkInv DEF ExpTarget, EvalInv, EvalTypeOK
  <1>3. CASE ExpTargetMacro
    BY <1>0, <1>3, AskInv DEF ExpTargetMacro, Expand
  <1>4. CASE ExpAsk
    BY <1>0, <1>4, AskInv, ExpReturnInv
       DEF ExpAsk, Ask, EvalInv, EvalTypeOK, walkVars
  <1>5. CASE ExpReply
    <2>1. CASE ExpReturn(NoText)
      BY <1>0, <2>1, ExpReturnInv
    <2>2. CASE ~ExpReturn(NoText)
      <3>1. reply.answers \in Seq(Text) /\ Len(reply.answers) = 1
        BY <1>5, <2>2 DEF ExpReply, EvalInv, ReplyFits
      <3>2. text' \in Text /\ pc' = "exp_text"
        BY <1>5, <2>2, <3>1 DEF ExpReply
      <3>3. EvalTypeOK'
        BY <1>5, <2>2, <3>2
           DEF ExpReply, EvalInv, TypeInv, EvalTypeOK, Pc, ExpPc, walkVars,
               frameVars
      <3>4. Bottom' /\ Place' /\ ReplyFits'
        BY <1>5, <2>2, <3>2
           DEF ExpReply, EvalInv, Bottom, Place, ReplyFits, frameVars
      <3>. QED
        BY <3>3, <3>4 DEF EvalInv
    <2>. QED
      BY <2>1, <2>2
  <1>6. CASE ExpText \/ ExpDone
    <2>1. text \in Text
      BY <1>6 DEF ExpText, ExpDone, EvalInv, Place
    <2>. QED
      BY <1>0, <1>6, <2>1, ExpReturnInv DEF ExpText, ExpDone
  <1>7. CASE ExpTextMacro
    BY <1>0, <1>7, AskInv
       DEF ExpTextMacro, Expand, EvalInv, Place
  <1>8. CASE ExpRaised
    BY <1>0, <1>8, ExpReturnInv DEF ExpRaised
  <1>9. CASE Finish
    <2>1. EvalTypeOK'
      BY <1>9 DEF Finish, EvalInv, TypeInv, EvalTypeOK, Pc, Verdict, walkVars,
                  frameVars
    <2>. QED
      BY <1>9, <2>1 DEF Finish, EvalInv, Bottom, Place, ReplyFits, frameVars
  <1>. QED
    BY <1>1, <1>2, <1>3, <1>4, <1>5, <1>6, <1>7, <1>8, <1>9

\* The answer that comes is an answer to the lookup in flight.
LEMMA EnvironmentInv ==
  ASSUME EvalInv, TypeInv', Environment
  PROVE  EvalInv'
  <1>1. EvalTypeOK'
    BY DEF Environment, EvalInv, TypeInv, EvalTypeOK, evalVars
  <1>2. Bottom' /\ Place'
    BY DEF Environment, EvalInv, Bottom, Place, evalVars, Term, Past, Policy,
           Top
  <1>3. pc' = pc
    BY DEF Environment, evalVars
  <1>4. ASSUME Elapse
        PROVE  ReplyFits'
    BY <1>3, <1>4 DEF Elapse, EvalInv, ReplyFits, lookupVars
  <1>5. ASSUME TimeLimit
        PROVE  ReplyFits'
    BY <1>3, <1>5 DEF TimeLimit, EvalInv, ReplyFits
  <1>6. ASSUME \/ LookupRaises
               \/ \E k \in Key : \E a \in Reply[k] : Answer(a)
        PROVE  ReplyFits'
    <2>1. /\ status = "await" /\ status' # "await"
          /\ reply' \in Reply[key] \/ reply' = DnsFailure
      BY <1>6 DEF LookupRaises, Answer, Raised
    <2>2. TextAwait => reply'.answers \in Seq(Text)
      BY <2>1, ReplyAnswers DEF EvalInv, ReplyFits, RType
    <2>3. NameAwait => reply'.answers \in Seq(Name)
      BY <2>1, ReplyAnswers DEF EvalInv, ReplyFits, RType
    <2>. QED
      BY <1>3, <2>1, <2>2, <2>3 DEF ReplyFits
  <1>7. ReplyFits'
    BY <1>4, <1>5, <1>6 DEF Environment
  <1>. QED
    BY <1>1, <1>2, <1>7 DEF EvalInv

LEMMA EvalStep == EvalInv /\ [Next]_vars => EvalInv'
  <1> SUFFICES ASSUME EvalInv, [Next]_vars
               PROVE  EvalInv'
    OBVIOUS
  <1>0. TypeInv'
    BY NextIsSession, TypeStep DEF EvalInv
  <1>1. ASSUME NEW d \in Start, Begin(d)
        PROVE  EvalInv'
    BY <1>0, <1>1, BeginInv
  <1>2. CASE EnterLate \/ TermLate
    BY <1>0, <1>2, LateInv DEF EnterLate, TermLate
  <1>3. CASE Unwind
    BY <1>0, <1>3, RaiseInv DEF Unwind
  <1>4. CASE Environment
    BY <1>0, <1>4, EnvironmentInv
  <1>5. CASE UNCHANGED vars
    <2>1. EvalTypeOK' /\ Bottom'
      BY <1>0, <1>5
         DEF vars, evalVars, EvalInv, EvalTypeOK, TypeInv, Bottom
    <2>2. Place'
      BY <1>5 DEF vars, evalVars, sessionVars, EvalInv, Place, Term, Past,
                  Policy, Top
    <2>3. ReplyFits'
      BY <1>5 DEF vars, evalVars, sessionVars, lookupVars, EvalInv, ReplyFits
    <2>. QED
      BY <1>0, <2>1, <2>2, <2>3 DEF EvalInv
  <1>. QED
    BY <1>0, <1>1, <1>2, <1>3, <1>4, <1>5, EnterInv, TermInv, TargetInv,
       RecurseInv, AnsweredInv, WalkStepInv, ReturnStepInv, ExpStepInv
       DEF Next, Step

LEMMA EvalInitInv == EvalInit => EvalInv
  <1> SUFFICES ASSUME EvalInit
               PROVE  EvalInv
    OBVIOUS
  <1>1. TypeInv
    BY TypeInit DEF EvalInit
  <1>2. EvalTypeOK
    BY <1>1, EmptyIsSeq DEF EvalInit, EvalTypeOK, TypeInv, Pc
  <1>3. Bottom /\ Place /\ ReplyFits
    BY DEF EvalInit, SessionInit, Bottom, Place, ReplyFits
  <1>. QED
    BY <1>1, <1>2, <1>3 DEF EvalInv

LEMMA EvalHolds == Spec => []EvalInv
  BY EvalInitInv, EvalStep, PTL DEF Spec

\* Every variable of an evaluation keeps its type, whatever the zone answers
\* and however deep it includes (evaluator.py:179-251).
THEOREM EvaluatorTypeOK == Spec => []EvalTypeOK
  <1>1. EvalInv => EvalTypeOK
    BY DEF EvalInv
  <1>. QED
    BY <1>1, EvalHolds, PTL

\* An evaluation is a client of the session that obeys its exceptions: the
\* session never sees a call it did not expect, and no step of the evaluation
\* changes the session but through its methods (evaluator.py:65-156).
THEOREM EvaluatorImplementsSession == Spec => SessionSpec
  <1>1. EvalInit => SessionInit
    BY DEF EvalInit
  <1>. QED
    BY <1>1, EvalHolds, NextIsSession, PTL DEF Spec, SessionSpec

\* So the limits, the flags, the budget and the void count of SessionProofs
\* are those of every evaluation (session.py:75-111, 182-220, 279-303).
THEOREM EvaluatorKeepsLimits ==
  Spec => [](BudgetRespected /\ FlagsTellBreach /\ StopsAtBreach
               /\ VoidCountExact /\ AskedOnce /\ PaidFor)
  BY EvaluatorImplementsSession, SessionBudget, SessionFlags,
     SessionStopsAtBreach, SessionVoidCount, SessionAskedOnce, SessionPaidFor,
     PTL

-----------------------------------------------------------------------------
(***************************************************************************)
(* The recursion.  A nested check_host() is entered at one place only,     *)
(* where the include or redirect it is for has just consumed a DNS term.   *)
(***************************************************************************)

\* The term under evaluation has been paid for, and its target is being made.
Paid ==
  \/ pc \in {"target", "apply"}
  \/ pc \in WalkPc /\ work = "pmacro" /\ resume = "apply"

PaidNesting ==
  /\ Len(stack) <= terms_used + 1
  /\ Paid => Len(stack) <= terms_used

\* evaluate() starts with an empty trace.
DepthInv ==
  /\ pc = "start" => depth = 0
  /\ DepthIsNesting

NestInv ==
  /\ EvalInv
  /\ LimitInv
  /\ PaidNesting
  /\ NestingBounded
  /\ DepthInv

\* The steps that leave the recursion as it is.
Level ==
  /\ Len(stack') = Len(stack)
  /\ depth' = depth
  /\ terms_used' = terms_used
  /\ Paid' => Paid
  /\ pc # "start" /\ pc' # "start"
  /\ result' = result \/ result' # "pending"

\* The steps that end it.
Empties ==
  /\ stack' = <<>>
  /\ terms_used' = terms_used
  /\ pc' \in {"exp", "finish"}
  /\ result' # "pending"

LEMMA QueryTerms ==
  ASSUME NEW k, Query(k)
  PROVE  terms_used' = terms_used
  BY DEF Query, CacheHit, PastDeadline, OverBudget, Send, limitVars

LEMMA RaiseEmpties ==
  ASSUME NEW e \in Raised, Raise(e)
  PROVE  Empties
  BY DEF Raise, Empties, Raised, sessionVars, limitVars

LEMMA ReturnLevel ==
  ASSUME NEW v, NEW e, Return(v, e), pc # "start"
  PROVE  Level
  BY DEF Return, Level, Paid, sessionVars, limitVars, frameVars, exitVars

LEMMA NoMatchLevel ==
  ASSUME EvalInv, stack # <<>>, NoMatch, pc # "start"
  PROVE  Level
  <1>1. Policy \in PolicyType /\ stack \in Seq(FrameType)
    BY TermTyped DEF EvalInv, EvalTypeOK
  <1>2. Len([stack EXCEPT ![1].idx = @ + 1]) = Len(stack)
    BY <1>1, FramesUpdate
  <1>. QED
    BY <1>2 DEF NoMatch, Level, Paid, sessionVars, limitVars, exitVars

LEMMA ParseLevel ==
  ASSUME EvalInv, stack # <<>>, NEW t \in Text, Parse(t), pc # "start"
  PROVE  Level \/ Empties
  <1>1. CASE PolicyOf[t] \in {NotSpf, BadSyntax}
    BY <1>1, RaiseEmpties DEF Parse, Raised
  <1>2. CASE PolicyOf[t] \notin {NotSpf, BadSyntax}
    <2>1. PolicyOf[t] \in PolicyType /\ stack \in Seq(FrameType)
      BY <1>2, EvaluatorAssumption DEF EvalInv, EvalTypeOK
    <2>2. Len([stack EXCEPT ![1].policy = PolicyOf[t]]) = Len(stack)
      BY <2>1, FramesUpdate
    <2>. QED
      BY <1>2, <2>2 DEF Parse, Level, Paid, sessionVars, limitVars, exitVars
  <1>. QED
    BY <1>1, <1>2

LEMMA ExpReturnLevel ==
  ASSUME NEW t, ExpReturn(t), pc # "start"
  PROVE  Level
  BY DEF ExpReturn, LeaveExempt, Level, Paid, limitVars, frameVars

\* Every step but these five leaves the recursion as it is, or ends it.
LEMMA StepLevel ==
  ASSUME EvalInv, Step
  PROVE  \/ Level \/ Empties
         \/ \E d \in Start : Begin(d)
         \/ DnsTerm \/ Recurse \/ ReturnInclude \/ ReturnRedirect
  <1>1. CASE EnterLate \/ TermLate
    BY <1>1 DEF EnterLate, TermLate, CheckDeadline, Level, Paid, evalVars,
                limitVars
  <1>2. CASE EnterMalformed \/ LocalTerm \/ Default \/ IncludeMatch
    BY <1>2, OpenStack, ReturnLevel, NoMatchLevel
       DEF EnterMalformed, LocalTerm, Default, IncludeMatch, Match
  <1>3. CASE EnterOverride
    <2>1. stack # <<>> /\ stack \in Seq(FrameType)
      BY <1>3, OpenStack DEF EnterOverride
    <2>2. CASE PolicyOf[Override] \in {NotSpf, BadSyntax}
      BY <1>3, <2>2 DEF EnterOverride, Empties, sessionVars, limitVars
    <2>3. CASE PolicyOf[Override] \notin {NotSpf, BadSyntax}
      <3>1. PolicyOf[Override] \in PolicyType
        BY <1>3, <2>3, EvaluatorAssumption DEF EnterOverride, TakesOverride
      <3>2. Len([stack EXCEPT ![1].policy = PolicyOf[Override]]) = Len(stack)
        BY <2>1, <3>1, FramesUpdate
      <3>. QED
        BY <1>3, <2>3, <3>2
           DEF EnterOverride, Level, Paid, sessionVars, limitVars
    <2>. QED
      BY <2>2, <2>3
  <1>4. CASE EnterQuery \/ AskHost
    BY <1>4, QueryTerms
       DEF EnterQuery, AskHost, Ask, Level, Paid, walkVars, exitVars, frameVars
  <1>5. CASE FetchPolicy
    <2>1. stack # <<>> /\ reply.answers \in Seq(Text)
      BY <1>5, OpenStack DEF FetchPolicy, EvalInv, ReplyFits
    <2>2. \A i \in SpfAt : reply.answers[i] \in Text
      BY <2>1 DEF SpfAt
    <2>. QED
      BY <1>5, <2>1, <2>2, RaiseEmpties, ReturnLevel, ParseLevel
         DEF FetchPolicy, Raised
  <1>6. CASE Target \/ MacroDone \/ PtrNames \/ SkipHost
    BY <1>6 DEF Target, MacroDone, PtrNames, SkipHost, NextHost, Level, Paid,
                sessionVars, limitVars, exitVars, frameVars, EvalInv,
                EvalTypeOK
  <1>7. CASE TargetMacro \/ AskPtr \/ ExpTargetMacro \/ ExpTextMacro
    BY <1>7, QueryTerms
       DEF TargetMacro, AskPtr, ExpTargetMacro, ExpTextMacro, Expand, Level,
           Paid, exitVars, frameVars
  <1>8. CASE AskTarget
    <2>1. CASE NoMatch
      BY <1>8, <2>1, OpenStack, NoMatchLevel DEF AskTarget
    <2>2. CASE ~NoMatch
      BY <1>8, <2>2, QueryTerms
         DEF AskTarget, Ask, Level, Paid, exitVars, frameVars
    <2>. QED
      BY <2>1, <2>2
  <1>9. CASE Answered
    BY <1>9, OpenStack, RaiseEmpties, ReturnLevel, NoMatchLevel
       DEF Answered, Match, Raised
  <1>10. CASE Exchanges
    <2>1. CASE Raise("temperror") \/ Raise("permerror")
      BY <2>1, RaiseEmpties DEF Raised
    <2>2. CASE ~(Raise("temperror") \/ Raise("permerror"))
      BY <1>10, <2>2
         DEF Exchanges, Level, Paid, sessionVars, limitVars, exitVars, frameVars
    <2>. QED
      BY <2>1, <2>2
  <1>11. CASE HostAnswered
    <2>1. CASE Raise("temperror")
      BY <2>1, RaiseEmpties DEF Raised
    <2>2. CASE Match
      BY <1>11, <2>2, ReturnLevel DEF Match, HostAnswered
    <2>3. CASE NextHost
      BY <1>11, <2>3 DEF HostAnswered, NextHost, Level, Paid, sessionVars,
                         limitVars, exitVars, frameVars
    <2>. QED
      BY <1>11, <2>1, <2>2, <2>3 DEF HostAnswered
  <1>12. CASE NamesSpent
    BY <1>12, NoMatchLevel DEF NamesSpent, EvalInv, Place
  <1>13. CASE ReturnTop
    <2>1. ret # "pending"
      BY DEF EvalInv, EvalTypeOK, Qualifier
    <2>. QED
      BY <1>13, <2>1 DEF ReturnTop, Empties, sessionVars, limitVars
  <1>14. CASE Unwind
    BY <1>14, RaiseEmpties DEF Unwind
  <1>15. CASE ExpEnter \/ ExpTarget \/ Finish
    BY <1>15 DEF ExpEnter, EnterExempt, ExpTarget, Finish, Level, Paid,
                 sessionVars, limitVars, exitVars, frameVars
  <1>16. CASE ExpAsk
    <2>1. CASE ExpReturn(NoText)
      BY <1>16, <2>1, ExpReturnLevel DEF ExpAsk
    <2>2. CASE ~ExpReturn(NoText)
      BY <1>16, <2>2, QueryTerms
         DEF ExpAsk, Ask, Level, Paid, exitVars, frameVars
    <2>. QED
      BY <2>1, <2>2
  <1>17. CASE ExpReply
    <2>1. CASE ExpReturn(NoText)
      BY <1>17, <2>1, ExpReturnLevel DEF ExpReply
    <2>2. CASE ~ExpReturn(NoText)
      BY <1>17, <2>2
         DEF ExpReply, Level, Paid, sessionVars, limitVars, frameVars
    <2>. QED
      BY <2>1, <2>2
  <1>18. CASE ExpText \/ ExpDone
    BY <1>18, ExpReturnLevel DEF ExpText, ExpDone
  <1>19. CASE ExpRaised
    <2>1. pc # "start"
      BY <1>19 DEF ExpRaised, EvalInv, Place, Raised
    <2>. QED
      BY <1>19, <2>1, ExpReturnLevel DEF ExpRaised
  <1>. QED
    BY <1>1, <1>2, <1>3, <1>4, <1>5, <1>6, <1>7, <1>8, <1>9, <1>10, <1>11,
       <1>12, <1>13, <1>14, <1>15, <1>16, <1>17, <1>18, <1>19 DEF Step

LEMMA NestStep == NestInv /\ [Next]_vars => NestInv'
  <1> SUFFICES ASSUME NestInv, [Next]_vars
               PROVE  NestInv'
    OBVIOUS
  <1>0. EvalInv' /\ LimitInv'
    BY EvalStep, NextIsSession, LimitStep DEF NestInv
  <1>1. /\ stack \in Seq(FrameType) /\ Len(stack) \in Nat
        /\ terms_used \in Nat /\ terms_used' \in Nat /\ depth \in Nat
        /\ MaxTerms \in Nat /\ Len(<<>>) = 0
    <2>1. stack \in Seq(FrameType)
      BY DEF NestInv, EvalInv, EvalTypeOK
    <2>. QED
      BY <1>0, <2>1, SessionAssumption
         DEF NestInv, EvalInv, EvalTypeOK, TypeInv, TypeOK
  <1>. SUFFICES PaidNesting' /\ NestingBounded' /\ DepthInv'
    BY <1>0 DEF NestInv
  <1> USE DEF PaidNesting, NestingBounded, DepthInv, DepthIsNesting
  <1>2. CASE Level
    BY <1>1, <1>2 DEF Level, NestInv
  <1>3. CASE Empties
    BY <1>1, <1>3 DEF Empties, NestInv, Paid
  <1>4. ASSUME NEW d \in Start, Begin(d)
        PROVE  PaidNesting' /\ NestingBounded' /\ DepthInv'
    <2>1. CASE d = BadIp
      BY <1>1, <1>4, <2>1
         DEF Begin, NestInv, Paid, sessionVars, limitVars
    <2>2. CASE d # BadIp
      <3>1. /\ Len(stack') = 1 /\ pc' = "enter" /\ depth' = depth
            /\ terms_used' = terms_used /\ pc = "start"
        BY <1>4, <2>2 DEF Begin, sessionVars, limitVars
      <3>. QED
        BY <1>1, <3>1 DEF NestInv, Paid
    <2>. QED
      BY <2>1, <2>2
  <1>5. CASE DnsTerm
    <2>1. /\ terms_used' = terms_used + 1 /\ stack' = stack /\ depth' = depth
          /\ pc # "start" /\ pc' # "start" /\ result' = result
      BY <1>5 DEF DnsTerm, ConsumeTerm, frameVars, exitVars
    <2>. QED
      BY <1>1, <2>1 DEF NestInv
  <1>6. CASE Recurse
    \* The term limit is not breached: the session would have raised.
    <2>1. ~Audit => terms_used <= MaxTerms
      BY <1>1, <1>6
         DEF Recurse, NestInv, LimitInv, StopsAtBreach, FlagsTellBreach
    <2>2. /\ Len(stack') = Len(stack) + 1 /\ depth' = depth + 1
          /\ pc = "apply" /\ pc' = "enter" /\ result' = result
          /\ terms_used' = terms_used
      <3>1. ASSUME NEW f
            PROVE  Len(<<f>> \o stack) = Len(stack) + 1
        BY <1>1
      <3>. QED
        BY <1>6, <3>1 DEF Recurse, sessionVars, limitVars, exitVars
    <2>. QED
      BY <1>1, <2>1, <2>2 DEF NestInv, Paid
  <1>7. CASE ReturnInclude \/ ReturnRedirect
    <2>1. /\ stack # <<>> /\ Top.via # "top" /\ pc = "return"
          /\ result' = result \/ result' # "pending"
      BY <1>7, OpenStack DEF ReturnInclude, ReturnRedirect, NestInv
    <2>2. Tail(stack) \in Seq(FrameType) /\ Tail(stack) # <<>>
      BY <1>1, <2>1, TailFrames DEF NestInv, EvalInv
    <2>3. Len(Tail(stack)) = Len(stack) - 1 /\ Len(Tail(stack)) \in Nat \ {0}
      BY <1>1, <2>1, <2>2, StackTop
    <2>4. Len([Tail(stack) EXCEPT ![1].idx = @ + 1]) = Len(Tail(stack))
      <3>1. NoPolicy \in PolicyType
        BY DEF NoPolicy, PolicyType
      <3>. QED
        BY <2>2, <3>1, FramesUpdate
    <2>5. /\ \/ Len(stack') = Len(stack) - 1 /\ result' = result
             \/ stack' = <<>> /\ result' # "pending"
          /\ terms_used' = terms_used /\ ~Paid' /\ pc' # "start"
          /\ depth' = Pop
      BY <1>7, <2>3, <2>4
         DEF ReturnInclude, ReturnRedirect, sessionVars, limitVars, Paid
    <2>6. CASE Len(stack') = Len(stack) - 1 /\ result' = result
      <3>1. result = "pending" => depth' = depth - 1
        BY <1>1, <2>1, <2>3, <2>5 DEF NestInv, Pop
      <3>2. PaidNesting' /\ NestingBounded'
        BY <1>1, <2>3, <2>5, <2>6 DEF NestInv
      <3>3. result = "pending" => depth = Len(stack) - 1
        BY <2>1 DEF NestInv
      <3>4. DepthInv'
        BY <1>1, <2>5, <2>6, <3>1, <3>3
      <3>. QED
        BY <3>2, <3>4
    <2>7. CASE stack' = <<>> /\ result' # "pending"
      BY <1>1, <2>5, <2>7
    <2>. QED
      BY <2>5, <2>6, <2>7
  <1>8. CASE Environment
    <2>1. terms_used' = terms_used
      BY <1>8 DEF Environment, Elapse, Answer, LookupRaises, TimeLimit,
                  limitVars
    <2>. QED
      BY <1>8, <2>1 DEF Environment, evalVars, Paid, NestInv
  <1>9. CASE UNCHANGED vars
    BY <1>9 DEF vars, evalVars, sessionVars, limitVars, Paid, NestInv
  <1>10. CASE Step
    BY <1>2, <1>3, <1>4, <1>5, <1>6, <1>7, <1>10, StepLevel DEF NestInv
  <1>. QED
    BY <1>8, <1>9, <1>10 DEF Next

LEMMA NestHolds == Spec => []NestInv
  <1>1. EvalInit => NestInv
    <2> SUFFICES ASSUME EvalInit
                 PROVE  NestInv
      OBVIOUS
    <2>1. EvalInv
      BY EvalInitInv
    <2>2. LimitInv
      BY TypeInit, SessionAssumption
         DEF EvalInit, SessionInit, LimitInv, BudgetRespected,
             FlagsTellBreach, StopsAtBreach
    <2>3. Len(stack) = 0 /\ MaxTerms \in Nat
      BY SessionAssumption DEF EvalInit
    <2>. QED
      BY <2>1, <2>2, <2>3
         DEF EvalInit, SessionInit, NestInv, PaidNesting, NestingBounded,
             DepthInv, DepthIsNesting, Paid
  <1>. QED
    BY <1>1, NestStep, PTL DEF Spec

\* The recursion is never deeper than the DNS terms consumed, whatever the
\* zone includes and redirects to (evaluator.py:301-302, 474).
THEOREM EvaluatorNestingCostsTerms == Spec => []NestingCostsTerms
  <1>1. NestInv => NestingCostsTerms
    BY DEF NestInv, PaidNesting, NestingCostsTerms
  <1>. QED
    BY <1>1, NestHolds, PTL

\* Out of audit mode an include loop ends at the term limit
\* (evaluator.py:449-456, session.py:101-107).
THEOREM EvaluatorNestingBounded == Spec => []NestingBounded
  <1>1. NestInv => NestingBounded
    BY DEF NestInv
  <1>. QED
    BY <1>1, NestHolds, PTL

\* While the verdict is open, the trace is as deep as the recursion
\* (evaluator.py:452, 461, 486, 495).
THEOREM EvaluatorDepthIsNesting == Spec => []DepthIsNesting
  <1>1. NestInv => DepthIsNesting
    BY DEF NestInv, DepthInv
  <1>. QED
    BY <1>1, NestHolds, PTL

-----------------------------------------------------------------------------
(***************************************************************************)
(* What becomes of a limit that was passed, of an exception and of an      *)
(* explanation, whatever the zone answers, over the invariants above.      *)
(***************************************************************************)
\* The coroutine is inside _explanation(), where a %{p} may have led it.
Explaining ==
  \/ pc \in ExpPc
  \/ pc \in WalkPc /\ work = "pmacro" /\ resume # "apply"

\* void_exempt() is on exactly there.
Exempts == void_exempt <=> Explaining

\* The verdict is open as long as a check_host() may still decide it.
Undecided == (result = "pending") <=> (pc = "start" \/ Nested)

\* Where no exception can be pending, and where no lookup can be.
Settled ==
  /\ pc \in {"start", "return", "match", "exp", "exp_target", "exp_text"} =>
       status = "ready"
  /\ pc \in {"finish", "done"} => status # "await"

\* An explanation is looked for on fail only, and is there when it is over.
OnFail ==
  /\ pc = "exp" \/ Explaining => result = "fail" /\ exp # NoArg
  /\ pc \notin {"finish", "done"} => explanation = NoText
  /\ pc = "finish" /\ explanation # NoText => result = "fail"

\* What was raised is the verdict, or cost a fail its explanation.
Ending ==
  pc = "finish" /\ status \in Raised =>
    /\ explanation = NoText
    /\ result = status \/ (result = "fail" /\ exp # NoArg)

Reported ==
  /\ BreachIsPermerror
  /\ RaisedIsVerdict
  /\ ~Audit => ExplanationOnFailOnly

VerdictInv ==
  /\ Exempts
  /\ Undecided
  /\ Settled
  /\ OnFail
  /\ Ending
  /\ Reported

USE DEF MainPc, WalkPc, ExpPc, Nested, Explaining

-----------------------------------------------------------------------------
(***************************************************************************)
(* The ways a step can end.                                                *)
(***************************************************************************)

\* The verdict stays open.
LEMMA OpenStep ==
  ASSUME VerdictInv, pc = "start" \/ Nested, Nested',
         UNCHANGED <<result, explanation, void_exempt>>,
         pc' \in {"return", "match"} => status' = "ready"
  PROVE  VerdictInv'
  BY DEF VerdictInv, Exempts, Undecided, Settled, OnFail, Ending, Reported,
         BreachIsPermerror, RaisedIsVerdict, ExplanationOnFailOnly

\* An error decides it.
LEMMA ErrorStep ==
  ASSUME VerdictInv, Nested, pc' = "finish",
         UNCHANGED <<sessionVars, explanation>>, status # "await",
         result' \in {"permerror", "temperror"},
         status \in Raised => result' = status
  PROVE  VerdictInv'
  BY DEF VerdictInv, Exempts, Undecided, Settled, OnFail, Ending, Reported,
         BreachIsPermerror, RaisedIsVerdict, ExplanationOnFailOnly,
         sessionVars

\* _explanation() goes on.
LEMMA ExplainStep ==
  ASSUME VerdictInv, Explaining, Explaining',
         UNCHANGED <<result, exp, explanation, void_exempt>>,
         pc' \in {"exp_target", "exp_text"} => status' = "ready"
  PROVE  VerdictInv'
  BY DEF VerdictInv, Exempts, Undecided, Settled, OnFail, Ending, Reported,
         BreachIsPermerror, RaisedIsVerdict, ExplanationOnFailOnly

\* _explanation() returns: an exception it met gives no text.
LEMMA ExplainedStep ==
  ASSUME VerdictInv, NEW t, ExpReturn(t), status \in Raised => t = NoText
  PROVE  VerdictInv'
  BY DEF VerdictInv, Exempts, Undecided, Settled, OnFail, Ending, Reported,
         BreachIsPermerror, RaisedIsVerdict, ExplanationOnFailOnly,
         ExpReturn, LeaveExempt, frameVars

\* A call of query() leaves the flags of the evaluation alone.
LEMMA QueryFrame ==
  ASSUME NEW k, Query(k)
  PROVE  void_exempt' = void_exempt /\ limitVars' = limitVars
  BY DEF Query, CacheHit, PastDeadline, OverBudget, Send, limitVars

LEMMA OpenRaise ==
  ASSUME VerdictInv, Nested, NEW e \in Raised, Raise(e), status = "ready"
  PROVE  VerdictInv'
  BY ErrorStep DEF Raise, Raised

LEMMA OpenReturn ==
  ASSUME VerdictInv, Nested, NEW v, NEW e, Return(v, e), status = "ready"
  PROVE  VerdictInv'
  BY OpenStep DEF Return, sessionVars

LEMMA OpenNoMatch ==
  ASSUME VerdictInv, Nested, NoMatch
  PROVE  VerdictInv'
  BY OpenStep DEF NoMatch, exitVars, sessionVars

-----------------------------------------------------------------------------
(***************************************************************************)
(* The steps of check_host().                                              *)
(***************************************************************************)
LEMMA EnterVerdict ==
  ASSUME EvalInv, VerdictInv,
         \/ \E d \in Start : Begin(d)
         \/ EnterLate \/ EnterMalformed \/ EnterOverride \/ EnterQuery
         \/ FetchPolicy
  PROVE  VerdictInv'
  <1>1. ASSUME NEW d \in Start, Begin(d)
        PROVE  VerdictInv'
    <2>1. CASE d = BadIp
      BY <1>1, <2>1
         DEF Begin, VerdictInv, Exempts, Undecided, Settled, OnFail, Ending,
             Reported, BreachIsPermerror, RaisedIsVerdict,
             ExplanationOnFailOnly, sessionVars, Raised
    <2>2. CASE d # BadIp
      BY <1>1, <2>2, OpenStep DEF Begin, sessionVars
    <2>. QED
      BY <2>1, <2>2
  <1>2. CASE EnterLate
    BY <1>2, OpenStep DEF EnterLate, CheckDeadline, evalVars
  <1>3. CASE EnterMalformed
    BY <1>3, OpenReturn DEF EnterMalformed
  <1>4. CASE EnterOverride
    <2>1. CASE PolicyOf[Override] \in {NotSpf, BadSyntax}
      BY <1>4, <2>1, ErrorStep DEF EnterOverride, Raised
    <2>2. CASE PolicyOf[Override] \notin {NotSpf, BadSyntax}
      BY <1>4, <2>2, OpenStep DEF EnterOverride, sessionVars
    <2>. QED
      BY <2>1, <2>2
  <1>5. CASE EnterQuery
    BY <1>5, OpenStep, QueryFrame DEF EnterQuery, Ask, exitVars
  <1>6. CASE FetchPolicy
    <2>1. Nested /\ status = "ready"
      BY <1>6 DEF FetchPolicy
    <2>2. ASSUME NEW t, Parse(t)
          PROVE  VerdictInv'
      BY <2>1, <2>2, OpenRaise, OpenStep
         DEF Parse, Raised, exitVars, sessionVars
    <2>. QED
      BY <1>6, <2>1, <2>2, OpenRaise, OpenReturn DEF FetchPolicy, Raised
  <1>. QED
    BY <1>1, <1>2, <1>3, <1>4, <1>5, <1>6

LEMMA TermVerdict ==
  ASSUME EvalInv, VerdictInv,
         \/ TermLate \/ LocalTerm \/ DnsTerm \/ Default
         \/ Target \/ TargetMacro
         \/ AskTarget \/ AskPtr \/ Recurse \/ Answered \/ Exchanges
  PROVE  VerdictInv'
  <1>1. CASE TermLate
    BY <1>1, OpenStep DEF TermLate, CheckDeadline, evalVars
  <1>2. CASE LocalTerm \/ Default
    BY <1>2, OpenReturn, OpenNoMatch DEF LocalTerm, Default, Match
  <1>3. CASE DnsTerm
    BY <1>3, OpenStep DEF DnsTerm, ConsumeTerm, exitVars
  <1>4. CASE Target \/ Recurse
    BY <1>4, OpenStep DEF Target, Recurse, exitVars, sessionVars
  <1>5. CASE TargetMacro \/ AskPtr
    BY <1>5, OpenStep, QueryFrame DEF TargetMacro, AskPtr, Expand, exitVars
  <1>6. CASE AskTarget
    <2>1. CASE target \notin Name
      BY <1>6, <2>1, OpenNoMatch DEF AskTarget
    <2>2. CASE target \in Name
      BY <1>6, <2>2, OpenStep, QueryFrame DEF AskTarget, Ask, exitVars
    <2>. QED
      BY <2>1, <2>2
  <1>7. CASE Answered
    BY <1>7, OpenRaise, OpenReturn, OpenNoMatch DEF Answered, Match, Raised
  <1>8. CASE Exchanges
    BY <1>8, OpenRaise, OpenStep
       DEF Exchanges, Raised, exitVars, sessionVars
  <1>. QED
    BY <1>1, <1>2, <1>3, <1>4, <1>5, <1>6, <1>7, <1>8

\* The walk over names is check_host()'s or, for %{p}, _explanation()'s.
LEMMA WalkVerdict ==
  ASSUME EvalInv, VerdictInv,
         \/ PtrNames \/ SkipHost \/ AskHost \/ HostAnswered \/ NamesSpent
         \/ MacroDone
  PROVE  VerdictInv'
  <1>1. /\ work \in {"mx", "ptr", "pmacro"}
        /\ resume \in {"apply", "exp_ask", "exp_done"}
    BY DEF EvalInv, EvalTypeOK
  <1>2. Nested \/ Explaining
    BY <1>1 DEF PtrNames, SkipHost, AskHost, HostAnswered, NamesSpent,
                MacroDone
  <1>3. CASE PtrNames
    BY <1>2, <1>3, OpenStep, ExplainStep DEF PtrNames, exitVars, sessionVars
  <1>4. CASE SkipHost
    BY <1>2, <1>4, OpenStep, ExplainStep
       DEF SkipHost, NextHost, exitVars, sessionVars
  <1>5. CASE AskHost
    BY <1>2, <1>5, OpenStep, ExplainStep, QueryFrame
       DEF AskHost, Ask, exitVars, walkVars
  <1>6. CASE HostAnswered
    <2>1. status = "ready"
      BY <1>6 DEF HostAnswered
    <2>2. CASE NextHost
      BY <1>2, <1>6, <2>2, OpenStep, ExplainStep
         DEF HostAnswered, NextHost, exitVars, sessionVars
    <2>3. CASE work # "pmacro" /\ ~NextHost
      <3>1. Nested
        BY <1>6, <2>3 DEF HostAnswered
      <3>. QED
        BY <1>6, <2>1, <2>3, <3>1, OpenRaise, OpenReturn
           DEF HostAnswered, Match, Raised
    <2>. QED
      BY <1>6, <2>2, <2>3 DEF HostAnswered
  <1>7. CASE NamesSpent
    BY <1>7, OpenNoMatch DEF NamesSpent
  <1>8. CASE MacroDone
    BY <1>1, <1>2, <1>8, OpenStep, ExplainStep
       DEF MacroDone, exitVars, sessionVars
  <1>. QED
    BY <1>3, <1>4, <1>5, <1>6, <1>7, <1>8

LEMMA ReturnVerdict ==
  ASSUME EvalInv, VerdictInv,
         \/ ReturnInclude \/ IncludeMatch \/ ReturnRedirect \/ ReturnTop
         \/ Unwind
  PROVE  VerdictInv'
  <1>1. pc \in {"return", "match"} => status = "ready"
    BY DEF VerdictInv, Settled
  <1>2. CASE ReturnInclude
    <2>1. CASE ret = "none"
      BY <1>1, <1>2, <2>1, ErrorStep DEF ReturnInclude, Raised
    <2>2. CASE ret # "none"
      BY <1>1, <1>2, <2>2, OpenStep DEF ReturnInclude, sessionVars
    <2>. QED
      BY <2>1, <2>2
  <1>3. CASE IncludeMatch
    BY <1>1, <1>3, OpenReturn DEF IncludeMatch, Match
  <1>4. CASE ReturnRedirect
    <2>1. CASE ret = "none"
      BY <1>1, <1>4, <2>1, ErrorStep DEF ReturnRedirect, Raised
    <2>2. CASE ret # "none"
      BY <1>1, <1>4, <2>2, OpenStep DEF ReturnRedirect, sessionVars
    <2>. QED
      BY <2>1, <2>2
  <1>5. CASE ReturnTop
    <2>1. ret # "pending" /\ status = "ready"
      BY <1>1, <1>5 DEF ReturnTop, EvalInv, EvalTypeOK, Qualifier
    <2>. QED
      BY <1>5, <2>1
         DEF ReturnTop, WantsExp, VerdictInv, Exempts, Undecided, Settled,
             OnFail, Ending, Reported, BreachIsPermerror, RaisedIsVerdict,
             ExplanationOnFailOnly, sessionVars, Raised
  <1>6. CASE Unwind
    <2>1. Nested
      BY <1>6 DEF Unwind, VerdictInv, Undecided, Settled, Raised
    <2>. QED
      BY <1>6, <2>1, ErrorStep DEF Unwind, Raise, Raised
  <1>. QED
    BY <1>2, <1>3, <1>4, <1>5, <1>6

-----------------------------------------------------------------------------
(***************************************************************************)
(* The steps of _explanation() and the end of evaluate().                  *)
(***************************************************************************)
LEMMA ExplainVerdict ==
  ASSUME EvalInv, VerdictInv,
         \/ ExpEnter \/ ExpTarget \/ ExpTargetMacro \/ ExpAsk \/ ExpReply
         \/ ExpText \/ ExpTextMacro \/ ExpDone \/ ExpRaised
  PROVE  VerdictInv'
  <1>1. CASE ExpEnter
    BY <1>1 DEF ExpEnter, EnterExempt, VerdictInv, Exempts, Undecided,
                Settled, OnFail, Ending, Reported, BreachIsPermerror,
                RaisedIsVerdict, ExplanationOnFailOnly, exitVars
  <1>2. CASE ExpTarget
    BY <1>2, ExplainStep DEF ExpTarget, exitVars, sessionVars
  <1>3. CASE ExpTargetMacro \/ ExpTextMacro
    BY <1>3, ExplainStep, QueryFrame
       DEF ExpTargetMacro, ExpTextMacro, Expand, exitVars
  <1>4. CASE ExpAsk
    <2>1. CASE target \notin Name
      BY <1>4, <2>1, ExplainedStep DEF ExpAsk, Raised
    <2>2. CASE target \in Name
      BY <1>4, <2>2, ExplainStep, QueryFrame DEF ExpAsk, Ask, exitVars
    <2>. QED
      BY <2>1, <2>2
  <1>5. CASE ExpReply
    <2>1. CASE reply = DnsFailure \/ Len(reply.answers) # 1
      BY <1>5, <2>1, ExplainedStep DEF ExpReply, Raised
    <2>2. CASE ~(reply = DnsFailure \/ Len(reply.answers) # 1)
      BY <1>5, <2>2, ExplainStep DEF ExpReply, sessionVars
    <2>. QED
      BY <2>1, <2>2
  <1>6. CASE ExpText
    <2>1. status = "ready"
      BY <1>6 DEF ExpText, VerdictInv, Settled
    <2>. QED
      BY <1>6, <2>1, ExplainedStep DEF ExpText, Raised
  <1>7. CASE ExpDone
    BY <1>7, ExplainedStep DEF ExpDone, Raised
  <1>8. CASE ExpRaised
    BY <1>8, ExplainedStep DEF ExpRaised
  <1>. QED
    BY <1>1, <1>2, <1>3, <1>4, <1>5, <1>6, <1>7, <1>8

\* The override of the verdict, which the session's stop at a breach keeps
\* from an evaluation that is no audit and has an explanation.
LEMMA FinishVerdict ==
  ASSUME EvalInv, VerdictInv, StopsAtBreach, Finish
  PROVE  VerdictInv'
  <1>1. ~Audit /\ Breached => status = "permerror"
    BY DEF StopsAtBreach, Breached
  <1>2. /\ Exempts' /\ Undecided' /\ Settled' /\ OnFail' /\ Ending'
    BY DEF Finish, VerdictInv, Exempts, Undecided, Settled, OnFail, Ending,
           sessionVars
  <1>3. BreachIsPermerror' /\ RaisedIsVerdict'
    BY DEF Finish, Breached, VerdictInv, OnFail, Ending, BreachIsPermerror,
           RaisedIsVerdict, sessionVars, limitVars
  <1>4. ~Audit => ExplanationOnFailOnly'
    BY <1>1 DEF Finish, VerdictInv, OnFail, Ending, ExplanationOnFailOnly,
                Raised
  <1>. QED
    BY <1>2, <1>3, <1>4 DEF VerdictInv, Reported

LEMMA EnvironmentVerdict ==
  ASSUME EvalInv, VerdictInv, Environment
  PROVE  VerdictInv'
  <1>1. /\ void_exempt' = void_exempt
        /\ status # "await" => status' = status
    BY DEF Environment, Elapse, Answer, LookupRaises, TimeLimit
  <1>. QED
    BY <1>1 DEF Environment, VerdictInv, Exempts, Undecided, Settled, OnFail,
                Ending, Reported, BreachIsPermerror, RaisedIsVerdict,
                ExplanationOnFailOnly, evalVars

LEMMA VerdictStep ==
  EvalInv /\ StopsAtBreach /\ VerdictInv /\ [Next]_vars => VerdictInv'
  <1> SUFFICES ASSUME EvalInv, StopsAtBreach, VerdictInv, [Next]_vars
               PROVE  VerdictInv'
    OBVIOUS
  <1>1. CASE Step
    BY <1>1, EnterVerdict, TermVerdict, WalkVerdict, ReturnVerdict,
       ExplainVerdict, FinishVerdict DEF Step
  <1>2. CASE UNCHANGED vars
    BY <1>2 DEF vars, evalVars, sessionVars, limitVars, VerdictInv, Exempts,
                Undecided, Settled, OnFail, Ending, Reported,
                BreachIsPermerror, RaisedIsVerdict, ExplanationOnFailOnly
  <1>. QED
    BY <1>1, <1>2, EnvironmentVerdict DEF Next

LEMMA VerdictHolds == Spec => []VerdictInv
  <1>1. EvalInit => VerdictInv
    BY DEF EvalInit, SessionInit, VerdictInv, Exempts, Undecided, Settled,
           OnFail, Ending, Reported, BreachIsPermerror, RaisedIsVerdict,
           ExplanationOnFailOnly
  <1>2. Spec => []StopsAtBreach
    BY EvaluatorImplementsSession, SessionStopsAtBreach, PTL
  <1>. QED
    BY <1>1, <1>2, EvalHolds, VerdictStep, PTL DEF Spec

-----------------------------------------------------------------------------
\* A limit that was passed, in audit mode or out of it, is never reported as
\* anything but permerror (session.py:61-63, evaluator.py:144-154).
THEOREM EvaluatorBreachIsPermerror == Spec => []BreachIsPermerror
  <1>1. VerdictInv => BreachIsPermerror
    BY DEF VerdictInv, Reported
  <1>. QED
    BY <1>1, VerdictHolds, PTL

\* Nothing below evaluate() swallows what the session raised, but exp=
\* (evaluator.py:127-138, 410-413, 523-524; macros.py:71-74).
THEOREM EvaluatorRaisedIsVerdict == Spec => []RaisedIsVerdict
  <1>1. VerdictInv => RaisedIsVerdict
    BY DEF VerdictInv, Reported
  <1>. QED
    BY <1>1, VerdictHolds, PTL

\* Out of audit mode an explanation comes with a fail and with nothing else
\* (evaluator.py:123-126, 144-156); in audit mode it need not.
THEOREM EvaluatorExplanationOnFail ==
  Spec => [](~Audit => ExplanationOnFailOnly)
  <1>1. VerdictInv => (~Audit => ExplanationOnFailOnly)
    BY DEF VerdictInv, Reported
  <1>. QED
    BY <1>1, VerdictHolds, PTL

\* While an explanation is looked for, neither the verdict nor a limit moves
\* (session.py:143-158, 219, 254).
THEOREM EvaluatorExpIsHarmless == Spec => ExpIsHarmless
  <1>1. ASSUME EvalInv, VerdictInv, [Next]_vars, void_exempt
        PROVE  UNCHANGED <<result, limitVars>>
    <2>1. Explaining /\ result # "pending"
      BY <1>1 DEF VerdictInv, Exempts, OnFail
    <2>2. CASE Environment
      <3>1. ASSUME NEW a, Answer(a)
            PROVE  void_used' = void_used /\ void_exceeded' = void_exceeded
        <4>1. ~Counts(a) /\ ~Breaches(a)
          BY <1>1 DEF Counts, Breaches
        <4>2. void_exceeded \in BOOLEAN
          BY <1>1 DEF EvalInv, EvalTypeOK, TypeOK
        <4>. QED
          BY <3>1, <4>1, <4>2 DEF Answer
      <3>2. UNCHANGED <<terms_used, terms_exceeded>>
        BY <2>2 DEF Environment, Elapse, Answer, LookupRaises, TimeLimit,
                    limitVars
      <3>3. void_used' = void_used /\ void_exceeded' = void_exceeded
        BY <2>2, <3>1 DEF Environment, Elapse, LookupRaises, TimeLimit,
                          limitVars
      <3>. QED
        BY <2>2, <3>2, <3>3 DEF Environment, evalVars, limitVars
    <2>3. CASE PtrNames \/ SkipHost \/ HostAnswered \/ MacroDone \/ ExpTarget
               \/ ExpReply \/ ExpText \/ ExpDone \/ ExpRaised
      BY <2>1, <2>3
         DEF PtrNames, SkipHost, HostAnswered, NextHost, MacroDone, ExpTarget,
             ExpReply, ExpText, ExpDone, ExpRaised, ExpReturn, LeaveExempt,
             exitVars, sessionVars
    <2>4. CASE AskHost \/ ExpTargetMacro \/ ExpAsk \/ ExpTextMacro
      BY <2>4, QueryFrame
         DEF AskHost, ExpTargetMacro, ExpAsk, ExpTextMacro, Ask, Expand,
             ExpReturn, LeaveExempt, exitVars
    <2>5. CASE UNCHANGED vars
      BY <2>5 DEF vars, evalVars, sessionVars
    <2>6. CASE Step
      BY <2>1, <2>3, <2>4, <2>6
         DEF Step, Begin, EnterLate, EnterMalformed, EnterOverride, EnterQuery,
             FetchPolicy, TermLate, LocalTerm, DnsTerm, Default, Target,
             TargetMacro, AskTarget, AskPtr, Recurse, Answered, Exchanges,
             NamesSpent, ReturnInclude, IncludeMatch, ReturnRedirect,
             ReturnTop, Unwind, ExpEnter, Finish
    <2>. QED
      BY <1>1, <2>2, <2>5, <2>6 DEF Next
  <1>2. EvalInv /\ VerdictInv /\ [Next]_vars =>
          [void_exempt => UNCHANGED <<result, limitVars>>]_vars
    BY <1>1
  <1>. QED
    BY <1>2, EvalHolds, VerdictHolds, PTL DEF Spec, ExpIsHarmless
=============================================================================

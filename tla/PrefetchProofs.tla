--------------------------- MODULE PrefetchProofs ---------------------------
(***************************************************************************)
(* Proofs about Prefetch for every zone, every policy, any number of slots *)
(* and any cap: an evaluation that speculates is an evaluation, its caller *)
(* cannot tell it from a sequential one, and it says what the reference    *)
(* says; speculation stays within its cap and its slots, a done-callback   *)
(* runs before the evaluator that awaits the same lookup, close() leaves   *)
(* nothing behind, and speculation predicts what the evaluator looks up.   *)
(***************************************************************************)
EXTENDS Prefetch, ReferenceProofs, SequenceTheorems

-----------------------------------------------------------------------------
(***************************************************************************)
(* Every step is a step of the evaluation, or none.                        *)
(***************************************************************************)

\* What is known of the evaluation before every step.
EvalKnown == EvalInv /\ LimitInv /\ VerdictInv

LEMMA InFlightPlace ==
  ASSUME EvalKnown, status = "await"
  PROVE  pc \notin {"start", "done", "finish"} /\ key \in Key
  BY DEF EvalKnown, VerdictInv, Settled, EvalInv, Place, TypeInv, Awaiting

LEMMA ResumeIsEval ==
  ASSUME EvalKnown, ResumeLive \/ ResumeTask \/ ResumeLate
  PROVE  [Next]_vars
  <1>1. ASSUME Answer(got[key]) \/ (\E a \in Reply[key] : Answer(a))
                 \/ LookupRaises \/ TimeLimit,
               UNCHANGED evalVars
        PROVE  Next
    <2>1. status = "await"
      BY <1>1 DEF Answer, LookupRaises, TimeLimit
    <2>2. (\E a \in Reply[key] : Answer(a)) \/ LookupRaises \/ TimeLimit
      BY <1>1 DEF Answer
    <2>. QED
      BY <1>1, <2>1, <2>2, InFlightPlace DEF Next, Environment
  <1>2. CASE ResumeLive
    BY <1>1, <1>2 DEF ResumeLive, Resumed
  <1>3. CASE ResumeLate
    BY <1>1, <1>3 DEF ResumeLate
  <1>4. CASE ResumeTask
    <2>1. \/ Answer(got[key]) /\ Resumed
          \/ LookupRaises /\ Resumed
          \/ TimeLimit /\ Resumed
          \/ UNCHANGED vars
      BY <1>4 DEF ResumeTask, OutcomeReaches
    <2>. QED
      BY <1>1, <2>1 DEF Resumed
  <1>. QED
    BY <1>2, <1>3, <1>4

LEMMA LoopIsStutter ==
  ASSUME Speculate \/ Close \/ CallerCancels
  PROVE  UNCHANGED vars
  <1>1. ASSUME NEW k, NEW o, NEW a, End(k, o, a)
        PROVE  UNCHANGED vars
    BY <1>1 DEF End
  <1>2. CASE RunJob \/ SkipJob \/ Hook
    BY <1>2 DEF RunJob, SkipJob, Hook
  <1>3. CASE Acquire
    BY <1>1, <1>3 DEF Acquire
  <1>4. ASSUME NEW k \in Key, FetchEnds(k)
        PROVE  UNCHANGED vars
    BY <1>1, <1>4 DEF FetchEnds
  <1>5. ASSUME NEW s \in side, StartSide(s) \/ ResumeSide(s)
        PROVE  UNCHANGED vars
    BY <1>5 DEF StartSide, ResumeSide
  <1>6. CASE CloseStart \/ CloseDone \/ CallerCancels
    BY <1>6 DEF CloseStart, CloseDone, CallerCancels
  <1>7. ASSUME NEW k \in Key, Cancel(k)
        PROVE  UNCHANGED vars
    BY <1>1, <1>7 DEF Cancel
  <1>. QED
    BY <1>2, <1>3, <1>4, <1>5, <1>6, <1>7 DEF Speculate, Close

LEMMA PfStepIsEval ==
  ASSUME EvalKnown, [PfNext]_allVars
  PROVE  [Next]_vars
  <1>1. CASE Evaluate
    BY <1>1 DEF Evaluate, EvaluateBegin, EvaluateStep, Next, Step
  <1>2. CASE Resume \/ ResumeLate
    BY <1>2, ResumeIsEval DEF Resume
  <1>3. CASE Clock
    BY <1>3 DEF Clock, Next, Environment
  <1>4. CASE UNCHANGED allVars
    BY <1>4 DEF allVars
  <1>. QED
    BY <1>1, <1>2, <1>3, <1>4, LoopIsStutter DEF PfNext

LEMMA EvalKnownStep == EvalKnown /\ [PfNext]_allVars => EvalKnown'
  <1> SUFFICES ASSUME EvalKnown, [PfNext]_allVars
               PROVE  EvalKnown'
    OBVIOUS
  <1>1. [Next]_vars
    BY PfStepIsEval
  <1>2. EvalInv'
    BY <1>1, EvalStep DEF EvalKnown
  <1>3. LimitInv'
    BY <1>1, NextIsSession, LimitStep DEF EvalKnown
  <1>4. VerdictInv'
    BY <1>1, VerdictStep DEF EvalKnown, LimitInv
  <1>. QED
    BY <1>2, <1>3, <1>4 DEF EvalKnown

LEMMA EvalKnownInit == PfInit => EvalKnown
  <1>1. SessionInit => LimitInv
    BY TypeInit, SessionAssumption
       DEF SessionInit, LimitInv, FlagsTellBreach, StopsAtBreach,
           BudgetRespected
  <1>2. EvalInit => VerdictInv
    BY DEF EvalInit, SessionInit, VerdictInv, Exempts, Undecided, Settled,
           OnFail, Ending, Reported, BreachIsPermerror, RaisedIsVerdict,
           ExplanationOnFailOnly, Nested, Explaining, MainPc, ExpPc, WalkPc
  <1>. QED
    BY <1>1, <1>2, EvalInitInv DEF PfInit, EvalInit, EvalKnown

LEMMA EvalKnownHolds == PfSpec => []EvalKnown
  BY EvalKnownInit, EvalKnownStep, PTL DEF PfSpec

\* An evaluation with prefetch on is an evaluation: all that is proved of
\* Evaluator and of Session holds of it (evaluator.py:65-156, prefetch.py).
THEOREM PrefetchImplementsEvaluator == PfSpec => Spec
  <1>1. PfInit => EvalInit
    BY DEF PfInit
  <1>. QED
    BY <1>1, EvalKnownHolds, PfStepIsEval, PTL DEF PfSpec, Spec

-----------------------------------------------------------------------------
(***************************************************************************)
(* The sequential evaluation: the same state without the mark that says    *)
(* who answered a lookup.  Only the session reads or sets the mark.        *)
(***************************************************************************)
LEMMA UnmarkedAppend ==
  ASSUME EvalInv, NEW k \in Key, NEW a, NEW src \in Source,
         a.rcode \in RCode,
         queries' = Append(queries, QueryRecord(k, a, src))
  PROVE  Unmarked' = Append(Unmarked,
           QueryRecord(k, a, IF src = "prefetch" THEN "dns" ELSE src))
  <1> DEFINE r == QueryRecord(k, a, src)
             R == [key : Key, rcode : RCode, void : BOOLEAN,
                   source : Source, exempt : BOOLEAN]
             plain(x) == [x EXCEPT !.source = IF @ = "prefetch" THEN "dns" ELSE @]
  <1>1. queries \in Seq(R) /\ r \in R
    BY DEF EvalInv, EvalTypeOK, TypeOK, QueryRecord, IsVoid
  <1>2. plain(r) = QueryRecord(k, a, IF src = "prefetch" THEN "dns" ELSE src)
    BY DEF QueryRecord
  <1>3. /\ DOMAIN queries = 1..Len(queries) /\ Len(queries) \in Nat
        /\ DOMAIN queries' = 1..(Len(queries) + 1)
        /\ queries'[Len(queries) + 1] = r
        /\ \A i \in 1..Len(queries) : queries'[i] = queries[i]
    BY <1>1
  <1>4. Unmarked = [i \in 1..Len(queries) |-> plain(queries[i])]
    BY <1>3 DEF Unmarked
  <1>5. Unmarked' = [i \in 1..(Len(queries) + 1) |-> plain(queries'[i])]
    BY <1>3 DEF Unmarked
  <1>6. \A i \in 1..Len(queries) : plain(queries[i]) \in R
    <2>1. ASSUME NEW x \in R
          PROVE  plain(x) \in R
      <3>1. (IF x.source = "prefetch" THEN "dns" ELSE x.source) \in Source
        BY DEF Source
      <3>. QED
        BY <3>1
    <2>. HIDE DEF plain, R
    <2>2. \A i \in 1..Len(queries) : queries[i] \in R
      BY <1>1
    <2>. QED
      BY <2>1, <2>2
  <1>7. Unmarked \in Seq(R) /\ Len(Unmarked) = Len(queries)
    BY <1>3, <1>4, <1>6
  <1>8. /\ Append(Unmarked, plain(r))
             = [i \in 1..(Len(queries) + 1) |->
                  IF i = Len(queries) + 1 THEN plain(r) ELSE Unmarked[i]]
    BY <1>1, <1>3, <1>7
  <1>9. \A i \in 1..(Len(queries) + 1) :
          plain(queries'[i])
            = IF i = Len(queries) + 1 THEN plain(r) ELSE Unmarked[i]
    BY <1>3, <1>4
  <1>. QED
    BY <1>2, <1>5, <1>8, <1>9

LEMMA UnmarkedStutter ==
  ASSUME UNCHANGED queries
  PROVE  UNCHANGED Unmarked
  BY DEF Unmarked

LEMMA SameSession ==
  ASSUME UNCHANGED sessionVars
  PROVE  UNCHANGED Seq1!sessionVars
  BY UnmarkedStutter
     DEF sessionVars, limitVars, lookupVars, Seq1!sessionVars, Seq1!limitVars,
         Seq1!lookupVars

\* The session's calls that make no lookup.
LEMMA SameCalls ==
  /\ CheckDeadline => Seq1!CheckDeadline
  /\ ConsumeTerm => Seq1!ConsumeTerm
  /\ EnterExempt => Seq1!EnterExempt
  /\ LeaveExempt => Seq1!LeaveExempt
  /\ Elapse => Seq1!Elapse
  /\ TimeLimit => Seq1!TimeLimit
  /\ LookupRaises => Seq1!LookupRaises
  <1> USE UnmarkedStutter DEF limitVars, lookupVars, Seq1!limitVars, Seq1!lookupVars
  <1>1. CheckDeadline => Seq1!CheckDeadline
    BY DEF CheckDeadline, Seq1!CheckDeadline
  <1>2. ConsumeTerm => Seq1!ConsumeTerm
    BY DEF ConsumeTerm, Seq1!ConsumeTerm, TermRefused, Seq1!TermRefused,
           OverTerms, Seq1!OverTerms
  <1>3. EnterExempt => Seq1!EnterExempt
    BY DEF EnterExempt, Seq1!EnterExempt
  <1>4. LeaveExempt => Seq1!LeaveExempt
    BY DEF LeaveExempt, Seq1!LeaveExempt
  <1>5. Elapse => Seq1!Elapse
    BY DEF Elapse, Seq1!Elapse
  <1>6. TimeLimit => Seq1!TimeLimit
    BY DEF TimeLimit, Seq1!TimeLimit
  <1>7. LookupRaises => Seq1!LookupRaises
    BY DEF LookupRaises, Seq1!LookupRaises, DnsFailure, Seq1!DnsFailure
  <1>. QED
    BY <1>1, <1>2, <1>3, <1>4, <1>5, <1>6, <1>7

LEMMA SameQuery ==
  ASSUME EvalInv, NEW k \in Key, Query(k)
  PROVE  Seq1!Query(k)
  <1> USE DEF Query, Seq1!Query, NoAnswer, Seq1!NoAnswer, limitVars, lookupVars,
              Seq1!limitVars, Seq1!lookupVars
  <1>1. CASE CacheHit(k)
    <2>1. cache[k] \in Reply[k]
      BY <1>1 DEF EvalInv, EvalTypeOK, TypeOK, CacheHit
    <2>2. Unmarked' = Append(Unmarked, Seq1!QueryRecord(k, cache[k], "cache"))
      BY <1>1, <2>1, UnmarkedAppend, SessionAssumption
         DEF CacheHit, Source, QueryRecord, Seq1!QueryRecord, IsVoid, Seq1!IsVoid
    <2>. QED
      BY <1>1, <2>2 DEF CacheHit, Seq1!CacheHit
  <1>2. CASE PastDeadline(k)
    BY <1>2, UnmarkedStutter
       DEF PastDeadline, Seq1!PastDeadline, DeadlinePassed, Seq1!DeadlinePassed
  <1>3. CASE OverBudget(k)
    BY <1>3, UnmarkedStutter
       DEF OverBudget, Seq1!OverBudget, DeadlinePassed, Seq1!DeadlinePassed,
           BudgetSpent, Seq1!BudgetSpent
  <1>4. CASE Send(k)
    BY <1>4, UnmarkedStutter
       DEF Send, Seq1!Send, DeadlinePassed, Seq1!DeadlinePassed, BudgetSpent,
           Seq1!BudgetSpent
  <1>. QED
    BY <1>1, <1>2, <1>3, <1>4

LEMMA SameAnswer ==
  ASSUME EvalInv, NEW a, Answer(a)
  PROVE  Seq1!Answer(a)
  <1>1. key \in Key /\ a \in Reply[key] /\ source \in {"dns", "prefetch"}
    BY DEF EvalInv, TypeInv, TypeOK, Awaiting, Answer
  <1>2. a.rcode \in RCode
    BY <1>1, SessionAssumption
  <1>3. Unmarked' = Append(Unmarked, Seq1!QueryRecord(key, a, "dns"))
    BY <1>1, <1>2, UnmarkedAppend
       DEF Answer, Source, QueryRecord, Seq1!QueryRecord, IsVoid, Seq1!IsVoid
  <1>. QED
    BY <1>3 DEF Answer, Seq1!Answer, Cacheable, Seq1!Cacheable, Counts,
      Seq1!Counts, Breaches, Seq1!Breaches, Enforced, Seq1!Enforced, IsVoid,
      Seq1!IsVoid, Definite, Seq1!Definite, DnsFailure, Seq1!DnsFailure

LEMMA SameEnvironment ==
  ASSUME EvalInv, Environment
  PROVE  Seq1!Environment
  BY SameCalls, SameAnswer
     DEF Environment, Seq1!Environment, evalVars, Seq1!evalVars

\* What the coroutine reads is the same.
LEMMA SameState ==
  /\ Seq1!Top = Top /\ Seq1!Policy = Policy /\ (Seq1!Past <=> Past)
  /\ Seq1!Term = Term /\ Seq1!Exp = Exp /\ Seq1!Domain = Domain
  /\ Seq1!TargetName = TargetName
  /\ (Seq1!TakesOverride <=> TakesOverride)
  /\ Seq1!SpfAt = SpfAt
  /\ (Seq1!WantsExp <=> WantsExp) /\ Seq1!Pop = Pop
  /\ (Seq1!Breached <=> Breached)
  <1>1. Seq1!Top = Top /\ Seq1!Policy = Policy
    BY DEF Top, Seq1!Top, Policy, Seq1!Policy
  <1>2. Seq1!Past <=> Past
    BY <1>1 DEF Past, Seq1!Past
  <1>3. Seq1!Term = Term
    BY <1>1, <1>2 DEF Term, Seq1!Term
  <1>4. Seq1!Exp = Exp
    BY <1>1 DEF Exp, Seq1!Exp, NoArg, Seq1!NoArg
  <1>5. Seq1!Domain = Domain
    BY <1>1 DEF Domain, Seq1!Domain
  <1>6. Seq1!TargetName = TargetName
    BY <1>1, <1>3 DEF TargetName, Seq1!TargetName, Implicit, Seq1!Implicit
  <1>7. Seq1!TakesOverride <=> TakesOverride
    BY DEF TakesOverride, Seq1!TakesOverride
  <1>8. Seq1!SpfAt = SpfAt
    BY DEF SpfAt, Seq1!SpfAt
  <1>9. (Seq1!WantsExp <=> WantsExp) /\ Seq1!Pop = Pop
    BY DEF WantsExp, Seq1!WantsExp, NoArg, Seq1!NoArg, Pop, Seq1!Pop
  <1>10. Seq1!Breached <=> Breached
    BY DEF Breached, Seq1!Breached
  <1>. QED
    BY <1>1, <1>2, <1>3, <1>4, <1>5, <1>6, <1>7, <1>8, <1>9, <1>10

LEMMA SameTests ==
  /\ Seq1!Covers <=> Covers
  /\ Seq1!Hits <=> Hits
  /\ Seq1!OutsideTarget <=> OutsideTarget
  /\ \A n : Seq1!Better(n) <=> Better(n)
  /\ \A n, s : Seq1!First(n, s) = First(n, s)
  /\ \A d, v, e : Seq1!Frame(d, v, e) = Frame(d, v, e)
  <1>1. Seq1!Covers <=> Covers
    BY SameState DEF Covers, Seq1!Covers
  <1>2. Seq1!Hits <=> Hits
    BY SameState DEF Hits, Seq1!Hits
  <1>3. Seq1!OutsideTarget <=> OutsideTarget
    BY DEF OutsideTarget, Seq1!OutsideTarget
  <1>4. ASSUME NEW n
        PROVE  Seq1!Better(n) <=> Better(n)
    BY SameState DEF Better, Seq1!Better, Rank, Seq1!Rank, RankIn, Seq1!RankIn
  <1>5. ASSUME NEW n, NEW s
        PROVE  Seq1!First(n, s) = First(n, s)
    BY DEF First, Seq1!First
  <1>6. ASSUME NEW d, NEW v, NEW e
        PROVE  Seq1!Frame(d, v, e) = Frame(d, v, e)
    BY DEF Frame, Seq1!Frame, NoPolicy, Seq1!NoPolicy, NoArg, Seq1!NoArg
  <1>. QED
    BY <1>1, <1>2, <1>3, <1>4, <1>5, <1>6

\* How a piece of the evaluation ends.
LEMMA SameEnds ==
  /\ \A e : Raise(e) => Seq1!Raise(e)
  /\ \A v, e : Return(v, e) => Seq1!Return(v, e)
  /\ Match => Seq1!Match
  /\ NoMatch => Seq1!NoMatch
  /\ NextHost => Seq1!NextHost
  /\ \A t : ExpReturn(t) => Seq1!ExpReturn(t)
  <1> USE DEF walkVars, Seq1!walkVars, exitVars, Seq1!exitVars, frameVars,
              Seq1!frameVars
  <1>1. ASSUME NEW e, Raise(e)
        PROVE  Seq1!Raise(e)
    BY <1>1, SameSession DEF Raise, Seq1!Raise
  <1>2. ASSUME NEW v, NEW e, Return(v, e)
        PROVE  Seq1!Return(v, e)
    BY <1>2, SameSession, SameState DEF Return, Seq1!Return
  <1>3. Match => Seq1!Match
    BY <1>2, SameState DEF Match, Seq1!Match
  <1>4. NoMatch => Seq1!NoMatch
    BY SameSession DEF NoMatch, Seq1!NoMatch
  <1>5. NextHost => Seq1!NextHost
    BY SameSession DEF NextHost, Seq1!NextHost
  <1>6. ASSUME NEW t, ExpReturn(t)
        PROVE  Seq1!ExpReturn(t)
    BY <1>6, SameCalls DEF ExpReturn, Seq1!ExpReturn
  <1>. QED
    BY <1>1, <1>2, <1>3, <1>4, <1>5, <1>6

LEMMA SameAsk ==
  ASSUME EvalInv
  PROVE  /\ \A k \in Key : \A n : Ask(k, n) => Seq1!Ask(k, n)
         /\ \A n : Expand(n) => Seq1!Expand(n)
  <1> USE DEF exitVars, Seq1!exitVars, frameVars, Seq1!frameVars
  <1>1. ASSUME NEW k \in Key, NEW n, Ask(k, n)
        PROVE  Seq1!Ask(k, n)
    BY <1>1, SameQuery DEF Ask, Seq1!Ask, walkVars, Seq1!walkVars
  <1>2. ASSUME NEW n, Expand(n)
        PROVE  Seq1!Expand(n)
    <2>1. <<Rev, "PTR">> \in Key
      BY KeyIsNameType, EvaluatorAssumption DEF RType
    <2>. QED
      BY <1>2, <2>1, SameQuery DEF Expand, Seq1!Expand
  <1>. QED
    BY <1>1, <1>2

\* The steps of check_host() that make no lookup.
LEMMA SameStart ==
  ASSUME EvalInv,
         \/ \E d \in Start : Begin(d)
         \/ EnterLate \/ EnterMalformed \/ EnterOverride \/ EnterQuery
         \/ FetchPolicy
  PROVE  Seq1!Step
  <1> USE SameSession, SameState, SameTests
      DEF walkVars, Seq1!walkVars, exitVars, Seq1!exitVars, frameVars,
          Seq1!frameVars
  <1>1. ASSUME NEW d \in Start, Begin(d)
        PROVE  Seq1!Begin(d)
    BY <1>1 DEF Begin, Seq1!Begin
  <1>2. EnterLate => Seq1!EnterLate
    BY SameCalls DEF EnterLate, Seq1!EnterLate, evalVars, Seq1!evalVars
  <1>3. EnterMalformed => Seq1!EnterMalformed
    BY SameEnds DEF EnterMalformed, Seq1!EnterMalformed, NoArg, Seq1!NoArg
  <1>4. EnterOverride => Seq1!EnterOverride
    BY DEF EnterOverride, Seq1!EnterOverride
  <1>5. EnterQuery => Seq1!EnterQuery
    BY KeyIsNameType, SameAsk DEF EnterQuery, Seq1!EnterQuery, RType
  <1>6. FetchPolicy => Seq1!FetchPolicy
    <2>1. ASSUME NEW t, Parse(t)
          PROVE  Seq1!Parse(t)
      BY <2>1, SameEnds DEF Parse, Seq1!Parse
    <2>. QED
      BY <2>1, SameEnds
         DEF FetchPolicy, Seq1!FetchPolicy, DnsFailure, Seq1!DnsFailure, NoArg,
             Seq1!NoArg
  <1>. QED
    BY <1>1, <1>2, <1>3, <1>4, <1>5, <1>6 DEF Seq1!Step

LEMMA SameTerm ==
  ASSUME EvalInv,
         \/ TermLate \/ LocalTerm \/ DnsTerm \/ Default
         \/ Target \/ TargetMacro
         \/ AskTarget \/ AskPtr \/ Recurse \/ Answered \/ Exchanges
  PROVE  Seq1!Step
  <1> USE SameSession, SameState, SameTests
      DEF walkVars, Seq1!walkVars, exitVars, Seq1!exitVars, frameVars,
          Seq1!frameVars
  <1>1. TermLate => Seq1!TermLate
    BY SameCalls DEF TermLate, Seq1!TermLate, evalVars, Seq1!evalVars
  <1>2. LocalTerm => Seq1!LocalTerm
    BY SameEnds
       DEF LocalTerm, Seq1!LocalTerm, DnsMechanism, Seq1!DnsMechanism
  <1>3. DnsTerm => Seq1!DnsTerm
    BY SameCalls
       DEF DnsTerm, Seq1!DnsTerm, DnsMechanism, Seq1!DnsMechanism, NoArg,
           Seq1!NoArg
  <1>4. Default => Seq1!Default
    BY SameEnds DEF Default, Seq1!Default, NoArg, Seq1!NoArg
  <1>5. Target => Seq1!Target
    BY DEF Target, Seq1!Target, PMacro, Seq1!PMacro
  <1>6. TargetMacro => Seq1!TargetMacro
    BY SameAsk DEF TargetMacro, Seq1!TargetMacro, PMacro, Seq1!PMacro
  <1>7. AskTarget => Seq1!AskTarget
    <2>1. CASE target \notin Name
      BY <2>1, SameEnds DEF AskTarget, Seq1!AskTarget
    <2>2. CASE target \in Name
      <3>1. \A t \in {"MX", "A", AddrType} : <<target, t>> \in Key
        BY <2>2, KeyIsNameType, EvaluatorAssumption DEF RType
      <3>. QED
        BY <2>2, <3>1, SameAsk DEF AskTarget, Seq1!AskTarget
    <2>. QED
      BY <2>1, <2>2
  <1>8. AskPtr => Seq1!AskPtr
    <2>1. <<Rev, "PTR">> \in Key
      BY KeyIsNameType, EvaluatorAssumption DEF RType
    <2>. QED
      BY <2>1, SameQuery DEF AskPtr, Seq1!AskPtr
  <1>9. Recurse => Seq1!Recurse
    BY DEF Recurse, Seq1!Recurse
  <1>10. Answered => Seq1!Answered
    BY SameEnds DEF Answered, Seq1!Answered, DnsFailure, Seq1!DnsFailure
  <1>11. Exchanges => Seq1!Exchanges
    BY SameEnds DEF Exchanges, Seq1!Exchanges, DnsFailure, Seq1!DnsFailure
  <1>. QED
    BY <1>1, <1>2, <1>3, <1>4, <1>5, <1>6, <1>7, <1>8, <1>9, <1>10, <1>11
       DEF Seq1!Step

LEMMA SameWalk ==
  ASSUME EvalInv,
         \/ PtrNames \/ SkipHost \/ AskHost \/ HostAnswered \/ NamesSpent
         \/ MacroDone
  PROVE  Seq1!Step
  <1> USE SameSession, SameTests
      DEF exitVars, Seq1!exitVars, frameVars, Seq1!frameVars
  <1>1. PtrNames => Seq1!PtrNames
    BY DEF PtrNames, Seq1!PtrNames
  <1>2. SkipHost => Seq1!SkipHost
    BY SameEnds DEF SkipHost, Seq1!SkipHost
  <1>3. AskHost => Seq1!AskHost
    BY HostKeyInKey, SameAsk DEF AskHost, Seq1!AskHost
  <1>4. HostAnswered => Seq1!HostAnswered
    BY SameEnds
       DEF HostAnswered, Seq1!HostAnswered, DnsFailure, Seq1!DnsFailure
  <1>5. NamesSpent => Seq1!NamesSpent
    BY SameEnds DEF NamesSpent, Seq1!NamesSpent
  <1>6. MacroDone => Seq1!MacroDone
    BY DEF MacroDone, Seq1!MacroDone
  <1>. QED
    BY <1>1, <1>2, <1>3, <1>4, <1>5, <1>6 DEF Seq1!Step

LEMMA SameReturn ==
  ASSUME EvalInv,
         \/ ReturnInclude \/ IncludeMatch \/ ReturnRedirect \/ ReturnTop
         \/ Unwind
  PROVE  Seq1!Step
  <1> USE SameSession, SameState DEF walkVars, Seq1!walkVars
  <1>1. ReturnInclude => Seq1!ReturnInclude
    BY DEF ReturnInclude, Seq1!ReturnInclude
  <1>2. IncludeMatch => Seq1!IncludeMatch
    BY SameEnds DEF IncludeMatch, Seq1!IncludeMatch
  <1>3. ReturnRedirect => Seq1!ReturnRedirect
    BY DEF ReturnRedirect, Seq1!ReturnRedirect
  <1>4. ReturnTop => Seq1!ReturnTop
    BY DEF ReturnTop, Seq1!ReturnTop
  <1>5. Unwind => Seq1!Unwind
    BY SameEnds DEF Unwind, Seq1!Unwind, Raised, Seq1!Raised
  <1>. QED
    BY <1>1, <1>2, <1>3, <1>4, <1>5 DEF Seq1!Step

LEMMA SameExplain ==
  ASSUME EvalInv,
         \/ ExpEnter \/ ExpTarget \/ ExpTargetMacro \/ ExpAsk \/ ExpReply
         \/ ExpText \/ ExpTextMacro \/ ExpDone \/ ExpRaised
         \/ Finish
  PROVE  Seq1!Step
  <1> USE SameSession, SameEnds
      DEF walkVars, Seq1!walkVars, exitVars, Seq1!exitVars, frameVars,
          Seq1!frameVars
  <1>1. ExpEnter => Seq1!ExpEnter
    BY SameCalls DEF ExpEnter, Seq1!ExpEnter
  <1>2. ExpTarget => Seq1!ExpTarget
    BY DEF ExpTarget, Seq1!ExpTarget, PMacro, Seq1!PMacro
  <1>3. ExpTargetMacro => Seq1!ExpTargetMacro
    BY SameAsk DEF ExpTargetMacro, Seq1!ExpTargetMacro, PMacro, Seq1!PMacro
  <1>4. ExpAsk => Seq1!ExpAsk
    BY KeyIsNameType, SameAsk DEF ExpAsk, Seq1!ExpAsk, RType
  <1>5. ExpReply => Seq1!ExpReply
    BY DEF ExpReply, Seq1!ExpReply, DnsFailure, Seq1!DnsFailure
  <1>6. ExpText => Seq1!ExpText
    BY DEF ExpText, Seq1!ExpText
  <1>7. ExpTextMacro => Seq1!ExpTextMacro
    BY SameAsk DEF ExpTextMacro, Seq1!ExpTextMacro
  <1>8. ExpDone => Seq1!ExpDone
    BY DEF ExpDone, Seq1!ExpDone
  <1>9. ExpRaised => Seq1!ExpRaised
    BY DEF ExpRaised, Seq1!ExpRaised, Raised, Seq1!Raised
  <1>10. Finish => Seq1!Finish
    BY SameState DEF Finish, Seq1!Finish
  <1>. QED
    BY <1>1, <1>2, <1>3, <1>4, <1>5, <1>6, <1>7, <1>8, <1>9, <1>10
       DEF Seq1!Step

LEMMA SameNext ==
  ASSUME EvalInv, [Next]_vars
  PROVE  [Seq1!Next]_(Seq1!vars)
  <1>1. CASE Step
    BY <1>1, SameStart, SameTerm, SameWalk, SameReturn, SameExplain
       DEF Step, Seq1!Next
  <1>2. CASE Environment
    BY <1>2, SameEnvironment DEF Seq1!Next
  <1>3. CASE UNCHANGED vars
    BY <1>3, SameSession DEF vars, Seq1!vars, evalVars, Seq1!evalVars
  <1>. QED
    BY <1>1, <1>2, <1>3 DEF Next

LEMMA SameInit ==
  ASSUME EvalInit
  PROVE  Seq1!EvalInit
  <1>1. Unmarked = <<>>
    BY DEF EvalInit, SessionInit, Unmarked
  <1>. QED
    BY <1>1 DEF EvalInit, Seq1!EvalInit, SessionInit, Seq1!SessionInit,
      NoAnswer, Seq1!NoAnswer, NoArg, Seq1!NoArg

\* "The verdict, the term count, the void count and the order of the trace are
\* identical to a sequential run" (README.md:205), for every zone, every set of
\* speculative lookups and every way they end (prefetch.py:148-187).
THEOREM PrefetchSequential == PfSpec => Sequential
  <1>1. Spec => Seq1!Spec
    BY SameInit, SameNext, EvalHolds, PTL DEF Spec, Seq1!Spec
  <1>. QED
    BY <1>1, PrefetchImplementsEvaluator DEF Sequential

\* Speculation does not change what a record means: with a prefetcher too the
\* verdict and the explanation are those of the reference, for every zone.
THEOREM PrefetchVerdictIsReference ==
  Steady => (PfSpec => []VerdictIsReference)
  BY PrefetchImplementsEvaluator, EvaluatorVerdictIsReference

-----------------------------------------------------------------------------
(***************************************************************************)
(* Queues that hold a thing once.                                          *)
(***************************************************************************)
Once(s) == \A i, j \in DOMAIN s : s[i] = s[j] => i = j
Holds(s, x) == \E i \in DOMAIN s : s[i] = x

LEMMA WithoutAt ==
  ASSUME NEW S, NEW s \in Seq(S), NEW x, Holds(s, x)
  PROVE  \E i \in 1..Len(s) :
           /\ s[i] = x
           /\ Without(s, x) = [j \in 1..(Len(s) - 1) |->
                                 IF j < i THEN s[j] ELSE s[j + 1]]
  <1> DEFINE i == CHOOSE j \in DOMAIN s : s[j] = x
  <1>1. i \in DOMAIN s /\ s[i] = x
    BY DEF Holds
  <1>2. Without(s, x) = [j \in 1..(Len(s) - 1) |->
                                 IF j < i THEN s[j] ELSE s[j + 1]]
    BY Zenon DEF Without, Holds
  <1>3. DOMAIN s = 1..Len(s)
    OBVIOUS
  <1> HIDE DEF i
  <1>. QED
    BY <1>1, <1>2, <1>3

LEMMA WithoutHolds ==
  ASSUME NEW S, NEW s \in Seq(S), NEW x, Once(s)
  PROVE  /\ Without(s, x) \in Seq(S)
         /\ Once(Without(s, x))
         /\ \A y : Holds(Without(s, x), y) <=> Holds(s, y) /\ y # x
  <1>1. CASE ~Holds(s, x)
    BY <1>1 DEF Without, Holds
  <1>2. CASE Holds(s, x)
    <2>1. PICK i \in 1..Len(s) :
            /\ s[i] = x
            /\ Without(s, x) = [j \in 1..(Len(s) - 1) |->
                                 IF j < i THEN s[j] ELSE s[j + 1]]
      BY <1>2, WithoutAt
    <2> DEFINE t == [j \in 1..(Len(s) - 1) |->
                       IF j < i THEN s[j] ELSE s[j + 1]]
               n == Len(s)
    <2>2. n \in Nat /\ i \in 1..n /\ DOMAIN s = 1..n
          /\ \A j \in 1..n : s[j] \in S
      OBVIOUS
    <2>3. /\ DOMAIN t = 1..(n - 1)
          /\ \A j \in 1..(n - 1) : t[j] = IF j < i THEN s[j] ELSE s[j + 1]
      OBVIOUS
    <2>4. t \in Seq(S)
      <3>1. \A j \in 1..(n - 1) : t[j] \in S
        BY <2>2
      <3>2. n - 1 \in Nat
        BY <2>2
      <3>. QED
        BY <3>1, <3>2
    <2> HIDE DEF t, n
    <2>5. Once(t)
      <3> SUFFICES ASSUME NEW j \in 1..(n - 1), NEW k \in 1..(n - 1),
                          t[j] = t[k]
                   PROVE  j = k
        BY <2>3 DEF Once
      <3> DEFINE at(m) == IF m < i THEN m ELSE m + 1
      <3>1. at(j) \in 1..n /\ at(k) \in 1..n
        BY <2>2
      <3>2. t[j] = s[at(j)] /\ t[k] = s[at(k)]
        BY <2>3
      <3>3. at(j) = at(k)
        BY <2>2, <3>1, <3>2 DEF Once
      <3>. QED
        BY <2>2, <3>3
    <2>6. ASSUME NEW y, Holds(t, y)
          PROVE  Holds(s, y) /\ y # x
      <3>1. PICK j \in 1..(n - 1) : t[j] = y
        BY <2>3, <2>6 DEF Holds
      <3>2. PICK m \in 1..n : m # i /\ s[m] = y
        <4>1. CASE j < i
          BY <2>2, <2>3, <3>1, <4>1
        <4>2. CASE j >= i
          <5>1. j + 1 \in 1..n /\ j + 1 # i
            BY <2>2, <4>2
          <5>2. s[j + 1] = y
            BY <2>2, <2>3, <3>1, <4>2
          <5>. QED
            BY <5>1, <5>2
        <4>. QED
          BY <2>2, <4>1, <4>2
      <3>3. s[i] = x
        BY <2>1
      <3>. QED
        BY <2>2, <3>2, <3>3 DEF Holds, Once
    <2>7. ASSUME NEW y, Holds(s, y), y # x
          PROVE  Holds(t, y)
      <3>1. PICK j \in 1..n : s[j] = y
        BY <2>2, <2>7 DEF Holds
      <3>2. CASE j < i
        BY <2>2, <2>3, <3>1, <3>2 DEF Holds
      <3>3. CASE j > i
        <4>1. j - 1 \in 1..(n - 1) /\ t[j - 1] = y
          BY <2>2, <2>3, <3>1, <3>3
        <4>. QED
          BY <2>3, <4>1 DEF Holds
      <3>. QED
        BY <2>1, <2>2, <2>7, <3>1, <3>2, <3>3
    <2>. QED
      BY <2>1, <2>4, <2>5, <2>6, <2>7 DEF t
  <1>. QED
    BY <1>1, <1>2
\* Also when s holds x more than once.
LEMMA WithoutKeeps ==
  ASSUME NEW S, NEW s \in Seq(S), NEW x
  PROVE  /\ Without(s, x) \in Seq(S)
         /\ \A i \in DOMAIN Without(s, x) :
              \E j \in DOMAIN s : s[j] = Without(s, x)[i]
  <1>1. CASE ~Holds(s, x)
    BY <1>1 DEF Without, Holds
  <1>2. CASE Holds(s, x)
    <2>1. PICK i \in 1..Len(s) :
            Without(s, x) = [j \in 1..(Len(s) - 1) |->
                               IF j < i THEN s[j] ELSE s[j + 1]]
      BY <1>2, WithoutAt
    <2> DEFINE t == [j \in 1..(Len(s) - 1) |->
                       IF j < i THEN s[j] ELSE s[j + 1]]
               n == Len(s)
    <2>2. n \in Nat /\ i \in 1..n /\ DOMAIN s = 1..n
          /\ \A j \in 1..n : s[j] \in S
      OBVIOUS
    <2>3. \A j \in 1..(n - 1) : t[j] = s[j] \/ t[j] = s[j + 1]
      OBVIOUS
    <2>4. \A j \in 1..(n - 1) : j \in 1..n /\ j + 1 \in 1..n
      BY <2>2
    <2>5. t \in Seq(S)
      <3>1. \A j \in 1..(n - 1) : t[j] \in S
        BY <2>2
      <3>2. n - 1 \in Nat
        BY <2>2
      <3>. QED
        BY <3>1, <3>2
    <2>6. DOMAIN t = 1..(n - 1)
      OBVIOUS
    <2>7. \A j \in DOMAIN t : \E m \in DOMAIN s : s[m] = t[j]
      <3> HIDE DEF t, n
      <3>. QED
        BY <2>2, <2>3, <2>4, <2>6
    <2>. QED
      BY <2>1, <2>5, <2>7
  <1>. QED
    BY <1>1, <1>2

LEMMA OneSeq ==
  ASSUME NEW S, NEW x \in S
  PROVE  <<x>> \in Seq(S)
  OBVIOUS

LEMMA AppendHolds ==
  ASSUME NEW S, NEW s \in Seq(S), NEW x \in S
  PROVE  /\ Append(s, x) \in Seq(S)
         /\ \A y : Holds(Append(s, x), y) <=> Holds(s, y) \/ y = x
         /\ Once(s) /\ ~Holds(s, x) => Once(Append(s, x))
  <1> DEFINE t == Append(s, x)
             n == Len(s)
  <1>1. n \in Nat /\ DOMAIN s = 1..n
    OBVIOUS
  <1>2. /\ t \in Seq(S) /\ DOMAIN t = 1..(n + 1) /\ t[n + 1] = x
        /\ \A i \in 1..n : t[i] = s[i]
    OBVIOUS
  <1> HIDE DEF t, n
  <1>3. \A y : Holds(t, y) <=> Holds(s, y) \/ y = x
    <2>1. ASSUME NEW y, Holds(s, y) \/ y = x
          PROVE  Holds(t, y)
      BY <1>1, <1>2, <2>1 DEF Holds
    <2>2. ASSUME NEW y, Holds(t, y)
          PROVE  Holds(s, y) \/ y = x
      BY <1>1, <1>2, <2>2 DEF Holds
    <2>. QED
      BY <2>1, <2>2
  <1>4. Once(s) /\ ~Holds(s, x) => Once(t)
    BY <1>1, <1>2 DEF Holds, Once
  <1>. QED
    BY <1>2, <1>3, <1>4 DEF t

LEMMA TailHolds ==
  ASSUME NEW S, NEW s \in Seq(S), s # <<>>, Once(s)
  PROVE  /\ Head(s) \in S /\ Holds(s, Head(s))
         /\ Tail(s) \in Seq(S) /\ Once(Tail(s))
         /\ \A y : Holds(Tail(s), y) <=> Holds(s, y) /\ y # Head(s)
  <1> DEFINE t == Tail(s)
             n == Len(s)
  <1>1. n \in Nat \ {0} /\ DOMAIN s = 1..n /\ Head(s) = s[1] /\ s[1] \in S
    OBVIOUS
  <1>2. /\ t \in Seq(S) /\ DOMAIN t = 1..(n - 1)
        /\ \A i \in 1..(n - 1) : t[i] = s[i + 1]
    OBVIOUS
  <1> HIDE DEF t, n
  <1>3. Once(t)
    <2> SUFFICES ASSUME NEW i \in 1..(n - 1), NEW j \in 1..(n - 1),
                        t[i] = t[j]
                 PROVE  i = j
      BY <1>2 DEF Once
    <2>1. i + 1 \in 1..n /\ j + 1 \in 1..n /\ s[i + 1] = s[j + 1]
      BY <1>1, <1>2
    <2>2. i + 1 = j + 1
      BY <1>1, <2>1 DEF Once
    <2>. QED
      BY <1>1, <2>2
  <1>4. ASSUME NEW y, Holds(t, y)
        PROVE  Holds(s, y) /\ y # Head(s)
    <2>1. PICK i \in 1..(n - 1) : s[i + 1] = y
      BY <1>2, <1>4 DEF Holds
    <2>2. i + 1 \in 1..n /\ i + 1 # 1
      BY <1>1
    <2>. QED
      BY <1>1, <2>1, <2>2 DEF Holds, Once
  <1>5. ASSUME NEW y, Holds(s, y), y # Head(s)
        PROVE  Holds(t, y)
    <2>1. PICK i \in 1..n : s[i] = y /\ i # 1
      BY <1>1, <1>5 DEF Holds
    <2>2. i - 1 \in 1..(n - 1) /\ t[i - 1] = y
      BY <1>1, <1>2, <2>1
    <2>. QED
      BY <1>2, <2>2 DEF Holds
  <1>6. Holds(s, Head(s))
    BY <1>1 DEF Holds
  <1>. QED
    BY <1>1, <1>2, <1>3, <1>4, <1>5, <1>6 DEF t

-----------------------------------------------------------------------------
(***************************************************************************)
(* The tasks: the queue for the semaphore, the cap and the slots.          *)
(***************************************************************************)
FetchState == {"none"} \cup Live \cup Ended
Made == {k \in Key : fetch[k] # "none"}

QueueInv ==
  /\ fetch \in [Key -> FetchState]
  /\ sem \in Seq(Key) /\ Once(sem)
  /\ \A k \in Key : fetch[k] = "queued" <=> Holds(sem, k)

CapInv == IsFiniteSet(Made) /\ CapExact

SlotInv == IsFiniteSet(Sending) /\ Cardinality(Sending) <= Concurrency

PoolInv == QueueInv /\ CapInv /\ SlotInv

LEMMA IssuePool ==
  ASSUME PoolInv, NEW k \in Key, Issue(k)
  PROVE  PoolInv'
  <1>1. CASE ~CanIssue(k)
    BY <1>1 DEF Issue, issueVars, PoolInv, QueueInv, CapInv, CapExact, SlotInv,
                Made, Sending
  <1>2. CASE CanIssue(k)
    <2>1. /\ fetch[k] = "none" /\ fetch' = [fetch EXCEPT ![k] = "queued"]
          /\ sem' = Append(sem, k) /\ issued' = issued + 1 /\ ~Capped
      BY <1>2 DEF CanIssue, Issue
    <2>2. fetch \in [Key -> FetchState] /\ fetch' \in [Key -> FetchState]
      BY <2>1 DEF PoolInv, QueueInv, FetchState, Live
    <2>3. ~Holds(sem, k) /\ sem \in Seq(Key) /\ Once(sem)
      BY <2>1 DEF PoolInv, QueueInv
    <2>4. QueueInv'
      <3>1. /\ sem' \in Seq(Key) /\ Once(sem')
            /\ \A y : Holds(sem', y) <=> Holds(sem, y) \/ y = k
        BY <2>1, <2>3, AppendHolds
      <3>2. ASSUME NEW m \in Key
            PROVE  fetch'[m] = "queued" <=> Holds(sem', m)
        BY <2>1, <2>2, <3>1 DEF PoolInv, QueueInv
      <3>. QED
        BY <2>2, <3>1, <3>2 DEF QueueInv
    <2>5. Made' = Made \cup {k} /\ k \notin Made
      BY <2>1, <2>2 DEF Made
    <2>6. CapInv'
      <3>1. /\ IsFiniteSet(Made) /\ issued = Cardinality(Made)
            /\ MaxQueries # NoCap => issued <= MaxQueries
        BY DEF PoolInv, CapInv, CapExact, Made
      <3>2. IsFiniteSet(Made') /\ Cardinality(Made') = Cardinality(Made) + 1
        BY <2>5, <3>1, FS_AddElement
      <3>3. MaxQueries # NoCap => issued' <= MaxQueries
        <4>1. issued \in Nat
          BY <3>1, FS_CardinalityType
        <4>. QED
          BY <2>1, <4>1, SessionAssumption DEF Capped
      <3>. QED
        BY <2>1, <3>1, <3>2, <3>3 DEF CapInv, CapExact, Made
    <2>7. Sending' = Sending
      BY <2>1, <2>2 DEF Sending
    <2>. QED
      BY <2>4, <2>6, <2>7 DEF PoolInv, SlotInv
  <1>. QED
    BY <1>1, <1>2

\* A task is over: it leaves the queue, and its slot.
LEMMA EndPool ==
  ASSUME PoolInv, NEW K \in SUBSET Key, NEW o \in Ended,
         \A k \in K : fetch[k] \in Live,
         fetch' = [k \in Key |-> IF k \in K THEN o ELSE fetch[k]],
         sem' \in Seq(Key), Once(sem'),
         \A y \in Key : Holds(sem', y) <=> Holds(sem, y) /\ y \notin K,
         issued' = issued
  PROVE  PoolInv'
  <1>1. fetch' \in [Key -> FetchState]
    BY DEF PoolInv, QueueInv, FetchState
  <1>2. QueueInv'
    <2>1. ASSUME NEW m \in Key
          PROVE  fetch'[m] = "queued" <=> Holds(sem', m)
      BY DEF PoolInv, QueueInv, Ended
    <2>. QED
      BY <1>1, <2>1 DEF QueueInv
  <1>3. Made' = Made
    BY DEF Made, Live, Ended
  <1>4. Sending' \subseteq Sending
    BY DEF Sending, Ended
  <1>5. SlotInv'
    <2>1. IsFiniteSet(Sending) /\ Cardinality(Sending) <= Concurrency
      BY DEF PoolInv, SlotInv
    <2>2. IsFiniteSet(Sending') /\ Cardinality(Sending') <= Cardinality(Sending)
      BY <1>4, <2>1, FS_Subset
    <2>3. Cardinality(Sending) \in Nat /\ Cardinality(Sending') \in Nat
      BY <2>1, <2>2, FS_CardinalityType
    <2>. QED
      BY <2>1, <2>2, <2>3, PrefetchAssumption DEF SlotInv
  <1>6. CapInv'
    BY <1>3 DEF PoolInv, CapInv, CapExact, Made
  <1>. QED
    BY <1>2, <1>5, <1>6 DEF PoolInv

LEMMA KeepPool ==
  ASSUME PoolInv, UNCHANGED issueVars
  PROVE  PoolInv'
  BY DEF issueVars, PoolInv, QueueInv, CapInv, CapExact, SlotInv, Made, Sending

LEMMA EndOnePool ==
  ASSUME PoolInv, NEW k \in Key, NEW o \in Ended, NEW a, fetch[k] \in Live,
         End(k, o, a),
         sem' = NotKey(k) \/ (sem' = sem /\ fetch[k] = "sent")
           \/ (sem # <<>> /\ k = Head(sem) /\ sem' = Tail(sem))
  PROVE  PoolInv'
  <1>1. sem \in Seq(Key) /\ Once(sem) /\ fetch \in [Key -> FetchState]
    BY DEF PoolInv, QueueInv
  <1>2. /\ sem' \in Seq(Key) /\ Once(sem')
        /\ \A y \in Key : Holds(sem', y) <=> Holds(sem, y) /\ y # k
    <2>1. CASE sem' = NotKey(k)
      BY <1>1, <2>1, WithoutHolds DEF NotKey
    <2>2. CASE sem' = sem /\ fetch[k] = "sent"
      BY <1>1, <2>2 DEF PoolInv, QueueInv
    <2>3. CASE sem # <<>> /\ k = Head(sem) /\ sem' = Tail(sem)
      BY <1>1, <2>3, TailHolds
    <2>. QED
      BY <2>1, <2>2, <2>3
  <1>3. fetch' = [m \in Key |-> IF m \in {k} THEN o ELSE fetch[m]]
    BY <1>1 DEF End
  <1> DEFINE K == {k}
  <1>4. K \in SUBSET Key /\ \A m \in K : fetch[m] \in Live
    OBVIOUS
  <1>5. \A y \in Key : Holds(sem', y) <=> Holds(sem, y) /\ y \notin K
    BY <1>2
  <1>6. issued' = issued
    BY DEF End
  <1>7. fetch' = [m \in Key |-> IF m \in K THEN o ELSE fetch[m]]
    BY <1>3
  <1> HIDE DEF K
  <1>. QED
    BY <1>2, <1>4, <1>5, <1>6, <1>7, EndPool

LEMMA AcquirePool ==
  ASSUME PoolInv, Acquire
  PROVE  PoolInv'
  <1> DEFINE k == Head(sem)
  <1>1. sem \in Seq(Key) /\ Once(sem) /\ fetch \in [Key -> FetchState]
    BY DEF PoolInv, QueueInv
  <1>2. /\ k \in Key /\ Holds(sem, k) /\ sem' \in Seq(Key) /\ Once(sem')
        /\ \A y : Holds(sem', y) <=> Holds(sem, y) /\ y # k
    BY <1>1, TailHolds DEF Acquire
  <1>3. fetch[k] = "queued"
    BY <1>2 DEF PoolInv, QueueInv
  <1>4. CASE expired
    BY <1>2, <1>3, <1>4, EndOnePool DEF Acquire, Live, Ended
  <1>5. CASE ~expired
    <2>1. fetch' = [fetch EXCEPT ![k] = "sent"] /\ issued' = issued /\ SlotFree
      BY <1>5 DEF Acquire
    <2> HIDE DEF k
    <2>2. fetch' \in [Key -> FetchState]
      BY <1>1, <2>1 DEF FetchState, Live
    <2>3. QueueInv'
      <3>1. ASSUME NEW m \in Key
            PROVE  fetch'[m] = "queued" <=> Holds(sem', m)
        BY <1>1, <1>2, <2>1 DEF PoolInv, QueueInv
      <3>. QED
        BY <1>2, <2>2, <3>1 DEF QueueInv
    <2>4. Made' = Made
      BY <1>1, <1>2, <1>3, <2>1 DEF Made
    <2>5. CapInv'
      BY <2>1, <2>4 DEF PoolInv, CapInv, CapExact, Made
    <2>6. Sending' = Sending \cup {k}
      BY <1>1, <1>2, <2>1 DEF Sending
    <2>7. SlotInv'
      <3>1. IsFiniteSet(Sending) /\ k \notin Sending
        BY <1>3 DEF PoolInv, SlotInv, Sending
      <3>2. /\ IsFiniteSet(Sending')
            /\ Cardinality(Sending') = Cardinality(Sending) + 1
        BY <2>6, <3>1, FS_AddElement
      <3>3. Cardinality(Sending) \in Nat
        BY <3>1, FS_CardinalityType
      <3>. QED
        BY <2>1, <3>2, <3>3, PrefetchAssumption DEF SlotInv, SlotFree
    <2>. QED
      BY <2>3, <2>5, <2>7 DEF PoolInv
  <1>. QED
    BY <1>4, <1>5

\* The evaluator gives up on the lookup it awaits.
LEMMA DropPool ==
  ASSUME PoolInv, DropAwaited
  PROVE  PoolInv'
  <1>1. sem \in Seq(Key) /\ Once(sem) /\ fetch \in [Key -> FetchState]
    BY DEF PoolInv, QueueInv
  <1> DEFINE K == Shared \cap Key
  <1>2. /\ sem' \in Seq(Key) /\ Once(sem')
        /\ \A y \in Key : Holds(sem', y) <=> Holds(sem, y) /\ y \notin K
    <2>1. CASE Shared = {}
      BY <1>1, <2>1 DEF DropAwaited
    <2>2. CASE Shared = {key}
      BY <1>1, <2>2, WithoutHolds DEF DropAwaited
    <2>. QED
      BY <2>1, <2>2 DEF Shared
  <1>3. fetch' = [k \in Key |-> IF k \in K THEN "cancelled" ELSE fetch[k]]
    BY DEF DropAwaited
  <1>4. \A k \in K : fetch[k] \in Live
    BY DEF Shared
  <1>5. "cancelled" \in Ended /\ K \in SUBSET Key /\ issued' = issued
    BY DEF Ended, DropAwaited
  <1> HIDE DEF K
  <1>. QED
    BY <1>2, <1>3, <1>4, <1>5, EndPool

-----------------------------------------------------------------------------
(***************************************************************************)
(* What the tasks return, and what is made of it.                          *)
(***************************************************************************)
AnyAnswer == (UNION {Reply[k] : k \in Key}) \cup {NoAnswer}

GotInv ==
  /\ got \in [Key -> AnyAnswer]
  /\ \A k \in Key : got[k] \in Reply[k] \cup {NoAnswer}

\* Only a TXT has a done-callback.
HookInv ==
  /\ level \in [Key -> Nat]
  /\ ready \in Seq(Key \cup {NoKey})
  /\ \A k \in Key : level[k] > 0 => \E n \in Name : k = <<n, "TXT">>
  /\ \A i \in DOMAIN ready : ready[i] # NoKey => level[ready[i]] > 0

BurstInv == burst \in Seq(JobType) /\ seen \subseteq Name \cup {Malformed}

TaskOk(s) ==
  /\ s \in TaskType
  /\ s.at = "host" => s.names # <<>>
  /\ s.at = "answer" => s.job.name \in {"mx", "ptr"} /\ s.job.arg \in Name

SideInv == \A s \in side : TaskOk(s)

DataInv == GotInv /\ HookInv /\ BurstInv /\ SideInv

LEMMA GotAnswers ==
  ASSUME GotInv, NEW n \in Name
  PROVE  /\ got[<<n, "TXT">>].answers \in Seq(Text)
         /\ got[<<n, "MX">>].answers \in Seq(Name)
         /\ got[<<n, "PTR">>].answers \in Seq(Name)
  <1>1. \A t \in {"TXT", "MX", "PTR"} : <<n, t>> \in Key
    BY KeyIsNameType DEF RType
  <1>2. NoAnswer.answers = <<>>
    BY DEF NoAnswer
  <1>3. \A S : <<>> \in Seq(S)
    OBVIOUS
  <1>4. ASSUME NEW t \in {"TXT", "MX", "PTR"}, NEW S,
               \A a \in Reply[<<n, t>>] : a.answers \in Seq(S)
        PROVE  got[<<n, t>>].answers \in Seq(S)
    <2>1. got[<<n, t>>] \in Reply[<<n, t>>] \cup {NoAnswer}
      BY <1>1 DEF GotInv
    <2>. QED
      BY <1>2, <1>3, <1>4, <2>1
  <1>5. /\ \A a \in Reply[<<n, "TXT">>] : a.answers \in Seq(Text)
        /\ \A a \in Reply[<<n, "MX">>] : a.answers \in Seq(Name)
        /\ \A a \in Reply[<<n, "PTR">>] : a.answers \in Seq(Name)
    BY EvaluatorAssumption
  <1>. QED
    BY <1>4, <1>5

LEMMA JobsTyped ==
  ASSUME NEW domain \in Name \cup {Malformed}, NEW p \in PolicyType,
         NEW d \in Nat
  PROVE  Jobs(domain, p, d) \in Seq(JobType)
  <1> DEFINE last == [name |-> "redirect", arg |-> p.redirect]
             terms == p.terms \o <<last>>
             n == Len(p.terms)
             job(i) == Job(terms[i].name,
                           IF terms[i].arg = Implicit THEN domain
                                                      ELSE terms[i].arg,
                           TRUE, domain, d + 1)
             AnyName == DnsMechanism \cup {"all", "ip4", "ip6", "redirect",
                                           "exchange", "pointer"}
  <1>1. p.terms \in Seq(TermType) /\ p.redirect \in Arg \cup {NoArg}
    BY DEF PolicyType
  <1>2. /\ n \in Nat /\ DOMAIN terms = 1..(n + 1) /\ terms[n + 1] = last
        /\ \A i \in 1..n : terms[i] = p.terms[i] /\ p.terms[i] \in TermType
    BY <1>1
  <1>3. ASSUME NEW t \in TermType
        PROVE  t.name \in AnyName /\ t.arg \in Arg \cup {NoArg, Implicit}
    BY DEF TermType, DnsMechanism
  <1>4. last.name \in AnyName /\ last.arg \in Arg \cup {NoArg}
    BY <1>1
  <1>5. \A i \in 1..(n + 1) :
          /\ terms[i].name \in AnyName
          /\ terms[i].arg \in Arg \cup {NoArg, Implicit}
    <2> HIDE DEF terms, last, AnyName
    <2>. QED
      BY <1>2, <1>3, <1>4
  <1>6. domain \in Arg /\ d + 1 \in Nat
    BY DEF Arg
  <1>7. \A i \in 1..(n + 1) : job(i) \in JobType
    <2> HIDE DEF terms
    <2>. QED
      BY <1>5, <1>6 DEF Job, JobType
  <1>8. Jobs(domain, p, d) = [i \in 1..(n + 1) |-> job(i)]
    BY <1>2 DEF Jobs
  <1> HIDE DEF job, n
  <1>. QED
    BY <1>2, <1>7, <1>8

LEMMA ChildrenTyped ==
  ASSUME BurstInv, NEW domain \in Name \cup {Malformed}, NEW t \in Text,
         NEW d \in Nat, IssueChildren(domain, t, d)
  PROVE  BurstInv'
  <1>1. \/ PolicyOf[t] \in {NotSpf, BadSyntax}
        \/ PolicyOf[t] \in PolicyType /\ PolicyOf[t] \notin {NotSpf, BadSyntax}
    BY EvaluatorAssumption
  <1>2. <<>> \in Seq(JobType)
    OBVIOUS
  <1>. QED
    BY <1>1, <1>2, JobsTyped DEF IssueChildren, BurstInv

\* A step that leaves what speculation has to do alone.
LEMMA KeepData ==
  ASSUME DataInv, UNCHANGED <<got, level, burst, side, seen>>,
         ready' \in Seq(Key \cup {NoKey}),
         \A i \in DOMAIN ready' : ready'[i] # NoKey =>
           \E j \in DOMAIN ready : ready[j] = ready'[i]
  PROVE  DataInv'
  BY DEF DataInv, GotInv, HookInv, BurstInv, SideInv

LEMMA EndData ==
  ASSUME DataInv, NEW k \in Key, NEW o, NEW a \in Reply[k] \cup {NoAnswer},
         End(k, o, a)
  PROVE  DataInv'
  <1>1. GotInv'
    <2>1. got' = [got EXCEPT ![k] = a] /\ a \in AnyAnswer
      BY DEF End, AnyAnswer
    <2>. QED
      BY <2>1 DEF DataInv, GotInv
  <1>2. HookInv'
    <2> DEFINE hook == IF level[k] > 0 /\ o = "done" THEN <<k>> ELSE <<>>
               wake == IF wait = "task" /\ key = k THEN <<NoKey>> ELSE <<>>
               S == {x \in Key \cup {NoKey} : x # NoKey => level[x] > 0}
    <2>1. hook \in Seq(S) /\ wake \in Seq(S)
      <3>1. level[k] > 0 => k \in S
        OBVIOUS
      <3>2. NoKey \in S
        OBVIOUS
      <3>. HIDE DEF S
      <3>. QED
        BY <3>1, <3>2
    <2>2. ready \in Seq(S)
      <3>1. \A i \in 1..Len(ready) : ready[i] \in S
        BY DEF DataInv, HookInv
      <3>. HIDE DEF S
      <3>. QED
        BY <3>1 DEF DataInv, HookInv
    <2>3. ready' = (ready \o hook) \o wake /\ level' = level
      BY DEF End
    <2>4. ready' \in Seq(S)
      <3>. HIDE DEF S, hook, wake
      <3>. QED
        BY <2>1, <2>2, <2>3
    <2>5. ready' \in Seq(Key \cup {NoKey})
      BY <2>4
    <2>6. \A i \in DOMAIN ready' : ready'[i] \in S
      <3>. HIDE DEF S
      <3>. QED
        BY <2>4
    <2>. QED
      BY <2>3, <2>5, <2>6 DEF DataInv, HookInv
  <1>. QED
    BY <1>1, <1>2 DEF DataInv, End, BurstInv, SideInv

LEMMA StartTyped ==
  ASSUME NEW d \in Start, d # BadIp
  PROVE  d \in Name \cup {Malformed}
  BY EvaluatorAssumption

LEMMA BeginData ==
  ASSUME DataInv, EvaluateBegin
  PROVE  DataInv'
  <1>1. PICK d \in Start : /\ Begin(d)
                           /\ \/ d = BadIp /\ UNCHANGED pfVars
                              \/ d # BadIp
    BY DEF EvaluateBegin
  <1>2. CASE UNCHANGED pfVars
    BY <1>2 DEF pfVars, DataInv, GotInv, HookInv, BurstInv, SideInv
  <1>3. CASE ~(UNCHANGED pfVars)
    <2>1. PICK e \in Start :
            /\ e # BadIp
            /\ \/ burst' = <<Job("include", e, FALSE, e, 0)>> /\ seen' = seen
               \/ Override # NoText /\ IssueChildren(e, Override, 0)
            /\ UNCHANGED <<issueVars, got, level, ready, side>>
      BY <1>3 DEF EvaluateBegin
    <2>2. e \in Name \cup {Malformed} /\ e \in Arg
      BY <2>1, StartTyped DEF Arg
    <2>3. BurstInv'
      <3>1. CASE burst' = <<Job("include", e, FALSE, e, 0)>> /\ seen' = seen
        <4>1. Job("include", e, FALSE, e, 0) \in JobType
          BY <2>2 DEF Job, JobType, DnsMechanism
        <4>2. burst' \in Seq(JobType)
          BY <3>1, <4>1, OneSeq
        <4>. QED
          BY <3>1, <4>2 DEF DataInv, BurstInv
      <3>2. CASE Override # NoText /\ IssueChildren(e, Override, 0)
        BY <2>2, <3>2, ChildrenTyped, EvaluatorAssumption DEF DataInv
      <3>. QED
        BY <2>1, <3>1, <3>2
    <2>. QED
      BY <2>1, <2>3 DEF DataInv, GotInv, HookInv, SideInv
  <1>. QED
    BY <1>2, <1>3

LEMMA HookData ==
  ASSUME DataInv, Hook
  PROVE  DataInv'
  <1> DEFINE k == Head(ready)
  <1>1. /\ k \in Key /\ level[k] > 0 /\ ready' = Tail(ready)
        /\ ready # <<>> /\ ready \in Seq(Key \cup {NoKey})
        /\ UNCHANGED <<got, level, side>>
    BY DEF Hook, DataInv, HookInv
  <1>2. PICK n \in Name : k = <<n, "TXT">>
    BY <1>1 DEF DataInv, HookInv
  <1>3. got[k].answers \in Seq(Text)
    BY <1>2, GotAnswers DEF DataInv
  <1>4. level[k] - 1 \in Nat
    BY <1>1 DEF DataInv, HookInv
  <1>5. \/ \E t \in Text : IssueChildren(n, t, level[k] - 1)
        \/ UNCHANGED <<seen, burst>>
    BY <1>2, <1>3 DEF Hook
  <1>6. BurstInv'
    BY <1>4, <1>5, ChildrenTyped DEF DataInv, BurstInv
  <1>7. HookInv'
    BY <1>1 DEF DataInv, HookInv
  <1>. QED
    BY <1>1, <1>6, <1>7 DEF DataInv, GotInv, SideInv

\* A job of the burst: the key it asks for, and the task it leaves.
LEMMA WantedKey ==
  ASSUME NEW j, Wanted(j)
  PROVE  KeyOf(j) \in Key
  <1>1. CASE j.name = "ptr"
    <2>1. KeyOf(j) = <<Rev, "PTR">>
      BY <1>1 DEF KeyOf, RevKey, IsPolicy
    <2>. QED
      BY <2>1, KeyIsNameType, EvaluatorAssumption DEF RType
  <1>2. CASE j.name # "ptr"
    <2>1. j.arg \in Name
      BY <1>2 DEF Wanted
    <2>2. \E t \in RType : KeyOf(j) = <<j.arg, t>>
      BY <1>2, EvaluatorAssumption DEF KeyOf, Host, RType, IsPolicy
    <2>. QED
      BY <2>1, <2>2, KeyIsNameType
  <1>. QED
    BY <1>1, <1>2

LEMMA TaskTyped ==
  ASSUME NEW j \in JobType, NEW at \in {"start", "answer"},
         at = "answer" => j.name \in {"mx", "ptr"} /\ j.arg \in Name
  PROVE  TaskOk(Task(j, at))
  <1>1. <<>> \in Seq(Name)
    OBVIOUS
  <1>. QED
    BY <1>1 DEF Task, TaskType, TaskOk

LEMMA JobData ==
  ASSUME DataInv, RunJob \/ SkipJob
  PROVE  DataInv'
  <1> DEFINE j == Head(burst)
  <1>1. /\ burst \in Seq(JobType) /\ burst # <<>> /\ burst' = Tail(burst)
        /\ UNCHANGED <<got, ready, seen>>
    BY DEF RunJob, SkipJob, DataInv, BurstInv
  <1>2. j \in JobType /\ BurstInv'
    BY <1>1 DEF DataInv, BurstInv
  <1>3. SideInv'
    <2>1. \/ side' = side
          \/ Spawn(Task(j, "start"))
          \/ /\ j.name \in {"mx", "ptr"} /\ j.arg \in Name
             /\ Spawn(Task(j, "answer"))
      BY DEF RunJob, SkipJob
    <2>. QED
      BY <1>2, <2>1, TaskTyped DEF DataInv, SideInv, Spawn
  <1>4. HookInv'
    <2>1. CASE level' = level
      BY <1>1, <2>1 DEF DataInv, HookInv
    <2>2. CASE level' # level
      <3>1. /\ Wanted(j) /\ IsPolicy(j)
            /\ level' = [level EXCEPT ![KeyOf(j)] = j.depth + 1]
        BY <2>2 DEF RunJob, SkipJob
      <3>2. KeyOf(j) = <<j.arg, "TXT">> /\ j.arg \in Name
        BY <3>1 DEF KeyOf, IsPolicy, Wanted
      <3>3. KeyOf(j) \in Key /\ j.depth + 1 \in Nat /\ j.depth + 1 > 0
        BY <1>2, <3>1, WantedKey DEF JobType
      <3>. HIDE DEF j
      <3>4. \A k \in Key : level[k] > 0 => level'[k] > 0
        BY <3>1, <3>3 DEF DataInv, HookInv
      <3>5. level' \in [Key -> Nat]
        BY <3>1, <3>3 DEF DataInv, HookInv
      <3>6. \A k \in Key : level'[k] > 0 => \E n \in Name : k = <<n, "TXT">>
        BY <3>1, <3>2, <3>3 DEF DataInv, HookInv
      <3>7. \A i \in DOMAIN ready : ready[i] # NoKey => level'[ready[i]] > 0
        BY <3>4 DEF DataInv, HookInv
      <3>. QED
        BY <1>1, <3>5, <3>6, <3>7 DEF DataInv, HookInv
    <2>. QED
      BY <2>1, <2>2
  <1>. QED
    BY <1>1, <1>2, <1>3, <1>4 DEF DataInv, GotInv

LEMMA RevInKey == RevKey \in Key
  BY KeyIsNameType, EvaluatorAssumption DEF RevKey, RType

LEMMA HostInKey ==
  ASSUME NEW n \in Name
  PROVE  Host(n) \in Key
  BY KeyIsNameType, EvaluatorAssumption DEF Host, RType

LEMMA AnswersTyped ==
  ASSUME DataInv
  PROVE  Answers(RevKey) \in Seq(Name)
  <1>1. got[RevKey].answers \in Seq(Name)
    BY GotAnswers, EvaluatorAssumption DEF DataInv, RevKey
  <1>2. <<>> \in Seq(Name)
    OBVIOUS
  <1>. QED
    BY <1>1, <1>2 DEF Answers

\* How a side task goes on: with a lookup, or with the burst it ends in.
LEMMA EndsTyped ==
  ASSUME DataInv, NEW s \in side, NEW jobs \in Seq(JobType), EndsIn(s, jobs),
         UNCHANGED <<got, level, ready, seen>>
  PROVE  DataInv' /\ UNCHANGED issueVars
  BY DEF EndsIn, Become, DataInv, GotInv, HookInv, BurstInv, SideInv

LEMMA BecomeTyped ==
  ASSUME DataInv, NEW s \in side, NEW t, TaskOk(t), Become(s, {t}),
         UNCHANGED <<got, level, ready, seen, burst>>
  PROVE  DataInv'
  BY DEF Become, DataInv, GotInv, HookInv, BurstInv, SideInv

LEMMA AdvanceTyped ==
  ASSUME DataInv, NEW s \in side, NEW hosts \in Seq(Name),
         NEW best \in Name \cup {Malformed}, Advance(s, hosts, best),
         UNCHANGED <<got, level, ready, seen>>
  PROVE  DataInv' /\ (UNCHANGED issueVars \/ \E k \in Key : Issue(k))
  <1>1. s \in TaskType /\ s.job \in JobType
    BY DEF DataInv, SideInv, TaskOk, TaskType
  <1>2. CASE hosts = <<>>
    <2>1. [s.job EXCEPT !.arg = best, !.raw = FALSE] \in JobType
      BY <1>1 DEF JobType, Arg
    <2>. QED
      BY <1>2, <2>1, OneSeq, EndsTyped DEF Advance
  <1>3. CASE hosts # <<>>
    <2>1. Head(hosts) \in Name
      BY <1>3
    <2>2. Issue(Host(Head(hosts)))
      BY <1>3 DEF Advance
    <2>3. TaskOk([s EXCEPT !.at = "host", !.names = hosts, !.found = best])
      BY <1>1, <1>3 DEF TaskType, TaskOk
    <2>. QED
      BY <1>3, <2>1, <2>2, <2>3, HostInKey, BecomeTyped DEF Advance
  <1>. QED
    BY <1>2, <1>3

LEMMA FollowTyped ==
  ASSUME DataInv, NEW s \in side, s.at = "answer", FollowUp(s),
         UNCHANGED <<got, level, ready, seen>>
  PROVE  DataInv' /\ UNCHANGED issueVars
  <1> DEFINE all == got[Awaits(s)].answers
             mx == s.job.name = "mx"
             used == IF mx THEN (IF Len(all) > MaxMx THEN <<>> ELSE all)
                           ELSE First(MaxPtr, all)
             job(i) == Job(IF mx THEN "exchange" ELSE "pointer", used[i], FALSE,
                           s.job.arg, 0)
  <1>1. s.job.name \in {"mx", "ptr"} /\ s.job.arg \in Name
    BY DEF DataInv, SideInv, TaskOk
  <1>2. Awaits(s) = <<s.job.arg, "MX">> \/ Awaits(s) = RevKey
    BY <1>1 DEF Awaits, KeyOf, IsPolicy
  <1>3. all \in Seq(Name)
    BY <1>1, <1>2, GotAnswers, EvaluatorAssumption DEF DataInv, RevKey
  <1>4. used \in Seq(Name)
    <2>1. <<>> \in Seq(Name)
      OBVIOUS
    <2>2. First(MaxPtr, all) \in Seq(Name)
      BY <1>3, FirstTyped, EvaluatorAssumption
    <2> HIDE DEF all
    <2>. QED
      BY <1>3, <2>1, <2>2
  <1>5. EndsIn(s, [i \in DOMAIN used |-> job(i)])
    BY DEF FollowUp
  <1> HIDE DEF used
  <1>6. DOMAIN used = 1..Len(used) /\ Len(used) \in Nat
    BY <1>4
  <1>7. \A i \in DOMAIN used : job(i) \in JobType
    BY <1>1, <1>4 DEF Job, JobType, Arg
  <1>8. [i \in DOMAIN used |-> job(i)] \in Seq(JobType)
    <2> HIDE DEF job
    <2>. QED
      BY <1>6, <1>7
  <1>. QED
    BY <1>5, <1>8, EndsTyped

LEMMA StartSideTyped ==
  ASSUME DataInv, NEW s \in side, StartSide(s)
  PROVE  DataInv' /\ (UNCHANGED issueVars \/ \E k \in Key : Issue(k))
  <1>1. s \in TaskType /\ s.job \in JobType
    BY DEF DataInv, SideInv, TaskOk, TaskType
  <1>2. UNCHANGED <<got, level, ready, seen>>
    BY DEF StartSide
  <1>3. CASE s.job.arg = PMacro
    <2>1. TaskOk([s EXCEPT !.at = "names"])
      BY <1>1 DEF TaskOk, TaskType
    <2>2. Issue(RevKey) /\ Become(s, {[s EXCEPT !.at = "names"]}) /\ burst' = burst
      BY <1>3 DEF StartSide
    <2>. QED
      BY <1>2, <2>1, <2>2, RevInKey, BecomeTyped
  <1>4. CASE s.job.arg # PMacro
    <2>1. [s.job EXCEPT !.raw = FALSE] \in JobType
      BY <1>1 DEF JobType
    <2>. QED
      BY <1>2, <1>4, <2>1, OneSeq, EndsTyped DEF StartSide
  <1>. QED
    BY <1>3, <1>4

LEMMA ResumeSideTyped ==
  ASSUME DataInv, NEW s \in side, ResumeSide(s)
  PROVE  DataInv' /\ (UNCHANGED issueVars \/ \E k \in Key : Issue(k))
  <1>1. s \in TaskType /\ TaskOk(s)
    BY DEF DataInv, SideInv, TaskOk
  <1>2. UNCHANGED <<got, level, ready, seen>> /\ s.at # "start"
    BY DEF ResumeSide
  <1>3. CASE EndsIn(s, <<>>)
    <2>1. <<>> \in Seq(JobType)
      OBVIOUS
    <2>. QED
      BY <1>2, <1>3, <2>1, EndsTyped
  <1>4. CASE s.at = "answer" /\ FollowUp(s)
    BY <1>2, <1>4, FollowTyped
  <1>5. CASE Advance(s, First(MaxPtr, Answers(RevKey)), Malformed)
    <2>1. First(MaxPtr, Answers(RevKey)) \in Seq(Name)
      BY AnswersTyped, FirstTyped, EvaluatorAssumption
    <2>. QED
      BY <1>2, <1>5, <2>1, AdvanceTyped
  <1>6. CASE s.at = "host" /\ Advance(s, Tail(s.names), Keeps(s))
    <2>1. /\ s.names \in Seq(Name) /\ s.names # <<>>
          /\ s.found \in Name \cup {Malformed}
      BY <1>1, <1>6 DEF TaskOk, TaskType
    <2>2. Tail(s.names) \in Seq(Name) /\ Keeps(s) \in Name \cup {Malformed}
      BY <2>1 DEF Keeps
    <2>. QED
      BY <1>2, <1>6, <2>2, AdvanceTyped
  <1>7. s.at \in {"answer", "names", "host"}
    BY <1>1, <1>2 DEF TaskType
  <1>8. \/ EndsIn(s, <<>>)
        \/ s.at = "answer" /\ FollowUp(s)
        \/ Advance(s, First(MaxPtr, Answers(RevKey)), Malformed)
        \/ s.at = "host" /\ Advance(s, Tail(s.names), Keeps(s))
    BY <1>7 DEF ResumeSide
  <1>. QED
    BY <1>3, <1>4, <1>5, <1>6, <1>8

-----------------------------------------------------------------------------
(***************************************************************************)
(* Every step keeps them.                                                  *)
(***************************************************************************)
PlainInv ==
  /\ served \in Nat /\ cancelled \in Nat
  /\ phase \in {"off", "open", "closing", "closed"}
  /\ gathered \subseteq Key
  /\ wait \in {"no", "live", "task", "inline", "fallback"}
  /\ abandoned \in BOOLEAN

LoopInv == PoolInv /\ DataInv /\ PlainInv

LEMMA ClaimLoop ==
  ASSUME LoopInv, NEW k, Claim(k)
  PROVE  LoopInv'
  <1>1. PoolInv'
    BY KeepPool DEF Claim, LoopInv
  <1>2. DataInv'
    <2>1. ready \in Seq(Key \cup {NoKey}) /\ NoKey \in Key \cup {NoKey}
      BY DEF LoopInv, DataInv, HookInv
    <2>2. ready' = ready \/ ready' = Append(ready, NoKey)
      BY DEF Claim
    <2>3. ready' \in Seq(Key \cup {NoKey})
      BY <2>1, <2>2, AppendHolds
    <2>4. \A y : Holds(ready', y) => Holds(ready, y) \/ y = NoKey
      BY <2>1, <2>2, AppendHolds
    <2>. QED
      BY <2>3, <2>4, KeepData DEF Claim, LoopInv, Holds
  <1>3. PlainInv'
    BY DEF Claim, LoopInv, PlainInv, closeVars
  <1>. QED
    BY <1>1, <1>2, <1>3 DEF LoopInv

LEMMA EvaluateLoop ==
  ASSUME LoopInv, Evaluate
  PROVE  LoopInv'
  <1>1. CASE EvaluateBegin
    <2>1. PoolInv'
      BY <1>1, KeepPool DEF EvaluateBegin, LoopInv, pfVars
    <2>2. PlainInv'
      BY <1>1 DEF EvaluateBegin, LoopInv, PlainInv, pfVars, closeVars
    <2>. QED
      BY <1>1, <2>1, <2>2, BeginData DEF LoopInv
  <1>2. CASE EvaluateStep
    <2>1. CASE UNCHANGED pfVars
      <3>1. DataInv'
        BY <2>1 DEF LoopInv, pfVars, DataInv, GotInv, HookInv, BurstInv, SideInv
      <3>. QED
        BY <2>1, <3>1, KeepPool DEF LoopInv, pfVars, PlainInv, closeVars
    <2>. QED
      BY <1>2, <2>1, ClaimLoop DEF EvaluateStep
  <1>. QED
    BY <1>1, <1>2 DEF Evaluate

\* The lookups of the loop.
LEMMA LookupLoop ==
  ASSUME LoopInv,
         \/ Acquire
         \/ \E k \in Key : FetchEnds(k) \/ Cancel(k)
  PROVE  LoopInv'
  <1>1. ASSUME NEW k \in Key, NEW o \in Ended, NEW a \in Reply[k] \cup {NoAnswer},
               fetch[k] \in Live, End(k, o, a),
               sem' = NotKey(k) \/ (sem' = sem /\ fetch[k] = "sent")
        PROVE  LoopInv'
    BY <1>1, EndOnePool, EndData DEF LoopInv, PlainInv, End, closeVars
  <1>2. ASSUME NEW k \in Key, FetchEnds(k)
        PROVE  LoopInv'
    BY <1>1, <1>2 DEF FetchEnds, Ended, Live
  <1>3. ASSUME NEW k \in Key, Cancel(k)
        PROVE  LoopInv'
    BY <1>1, <1>3 DEF Cancel, Ended
  <1>4. CASE Acquire
    <2>1. PoolInv'
      BY <1>4, AcquirePool DEF LoopInv
    <2>2. PlainInv'
      BY <1>4 DEF Acquire, End, LoopInv, PlainInv, closeVars
    <2>3. DataInv'
      <3>1. CASE expired
        <4>1. Head(sem) \in Key /\ End(Head(sem), "timeout", NoAnswer)
          BY <1>4, <3>1 DEF Acquire, LoopInv, PoolInv, QueueInv
        <4>. QED
          BY <4>1, EndData DEF LoopInv
      <3>2. CASE ~expired
        <4>1. UNCHANGED <<got, level, ready, burst, side, seen>>
          BY <1>4, <3>2 DEF Acquire
        <4>. QED
          BY <4>1 DEF LoopInv, DataInv, GotInv, HookInv, BurstInv, SideInv
      <3>. QED
        BY <3>1, <3>2
    <2>. QED
      BY <2>1, <2>2, <2>3 DEF LoopInv
  <1>. QED
    BY <1>2, <1>3, <1>4

\* Bursts, callbacks and side tasks.
LEMMA TaskLoop ==
  ASSUME LoopInv,
         RunJob \/ SkipJob \/ Hook \/ \E s \in side : StartSide(s) \/ ResumeSide(s)
  PROVE  LoopInv'
  <1>1. PlainInv'
    BY DEF RunJob, SkipJob, Hook, StartSide, ResumeSide, LoopInv, PlainInv,
           closeVars
  <1>2. DataInv'
    BY JobData, HookData, StartSideTyped, ResumeSideTyped DEF LoopInv
  <1>3. PoolInv'
    <2>1. UNCHANGED issueVars \/ \E k \in Key : Issue(k)
      <3>1. CASE RunJob
        BY <3>1, WantedKey DEF RunJob
      <3>2. CASE SkipJob \/ Hook
        BY <3>2 DEF SkipJob, Hook
      <3>. QED
        BY <3>1, <3>2, StartSideTyped, ResumeSideTyped DEF LoopInv
    <2>. QED
      BY <2>1, KeepPool, IssuePool DEF LoopInv
  <1>. QED
    BY <1>1, <1>2, <1>3 DEF LoopInv

\* The evaluator is resumed, or gives up.
LEMMA ResumeLoop ==
  ASSUME LoopInv, Resume \/ ResumeLate \/ CallerCancels
  PROVE  LoopInv'
  <1>1. ready \in Seq(Key \cup {NoKey})
    BY DEF LoopInv, DataInv, HookInv
  <1>2. CASE Resume
    <2>1. /\ UNCHANGED <<issueVars, got, level, burst, side, seen, served,
                         closeVars>>
          /\ \/ ready' = ready
             \/ ready # <<>> /\ ready' = Tail(ready)
          /\ wait' \in {"no", "fallback"}
      BY <1>2 DEF Resume, ResumeLive, ResumeTask, OutcomeReaches, Resumed
    <2>2. DataInv'
      <3>1. CASE ready' = ready
        BY <1>1, <2>1, <3>1, KeepData DEF LoopInv
      <3>2. CASE ready # <<>> /\ ready' = Tail(ready)
        <4>1. ready' \in Seq(Key \cup {NoKey})
          BY <1>1, <3>2
        <4>2. \A i \in DOMAIN ready' :
                i + 1 \in DOMAIN ready /\ ready'[i] = ready[i + 1]
          BY <1>1, <3>2
        <4>. QED
          BY <2>1, <4>1, <4>2, KeepData DEF LoopInv
      <3>. QED
        BY <2>1, <3>1, <3>2
    <2>. QED
      BY <2>1, <2>2, KeepPool DEF LoopInv, PlainInv, closeVars
  <1>3. CASE ResumeLate \/ CallerCancels
    <2>1. /\ DropAwaited /\ UNCHANGED <<cancelled, phase, gathered>>
          /\ abandoned' = abandoned \/ abandoned' = TRUE
      BY <1>3 DEF ResumeLate, CallerCancels, closeVars
    <2>2. PoolInv'
      BY <2>1, DropPool DEF LoopInv
    <2>3. DataInv'
      <3>1. ready' = Without(ready, NoKey)
        BY <2>1 DEF DropAwaited
      <3>2. /\ ready' \in Seq(Key \cup {NoKey})
            /\ \A i \in DOMAIN ready' : \E j \in DOMAIN ready : ready[j] = ready'[i]
        BY <1>1, <3>1, WithoutKeeps
      <3>. QED
        BY <2>1, <3>2, KeepData DEF LoopInv, DropAwaited
    <2>. QED
      BY <2>1, <2>2, <2>3 DEF LoopInv, PlainInv, DropAwaited
  <1>. QED
    BY <1>2, <1>3

LEMMA CloseLoop ==
  ASSUME LoopInv, CloseStart \/ CloseDone \/ Clock \/ UNCHANGED pfVars
  PROVE  LoopInv'
  <1>1. UNCHANGED <<issueVars, got, level, ready, burst, seen>>
    BY DEF CloseStart, CloseDone, Clock, pfVars
  <1>2. PoolInv'
    BY <1>1, KeepPool DEF LoopInv
  <1>3. side' = side \/ side' = {}
    BY DEF CloseStart, CloseDone, Clock, pfVars
  <1>4. DataInv'
    BY <1>1, <1>3 DEF LoopInv, DataInv, GotInv, HookInv, BurstInv, SideInv
  <1>5. PlainInv'
    <2>1. CASE CloseStart
      <3>1. Unended \subseteq Made
        BY DEF Unended, Made, Live
      <3>2. IsFiniteSet(Made)
        BY DEF LoopInv, PoolInv, CapInv
      <3>3. Cardinality(Unended) \in Nat
        BY <3>1, <3>2, FS_Subset, FS_CardinalityType
      <3>4. cancelled' \in Nat
        BY <2>1, <3>3 DEF CloseStart, LoopInv, PlainInv
      <3>. QED
        BY <2>1, <3>4 DEF CloseStart, LoopInv, PlainInv
    <2>2. CASE CloseDone \/ Clock \/ UNCHANGED pfVars
      BY <2>2 DEF CloseDone, Clock, pfVars, closeVars, LoopInv, PlainInv
    <2>. QED
      BY <2>1, <2>2
  <1>. QED
    BY <1>2, <1>4, <1>5 DEF LoopInv

LEMMA LoopStep == LoopInv /\ [PfNext]_allVars => LoopInv'
  <1> SUFFICES ASSUME LoopInv, [PfNext]_allVars
               PROVE  LoopInv'
    OBVIOUS
  <1>1. CASE Speculate
    BY <1>1, LookupLoop, TaskLoop DEF Speculate
  <1>2. CASE Close
    BY <1>2, LookupLoop, CloseLoop DEF Close
  <1>3. CASE UNCHANGED allVars
    BY <1>3, CloseLoop DEF allVars
  <1>. QED
    BY <1>1, <1>2, <1>3, EvaluateLoop, ResumeLoop, CloseLoop DEF PfNext

LEMMA LoopInit == PfInit => LoopInv
  <1> SUFFICES ASSUME PfInit
               PROVE  LoopInv
    OBVIOUS
  <1>1. Made = {} /\ Sending = {}
    BY DEF PfInit, Made, Sending
  <1>2. PoolInv
    <2>1. CapInv
      <3>1. issued = Cardinality({k \in Key : fetch[k] # "none"})
        BY <1>1, FS_EmptySet DEF PfInit, Made
      <3>. QED
        BY <1>1, <3>1, FS_EmptySet, SessionAssumption
           DEF PfInit, CapInv, CapExact
    <2>2. SlotInv
      BY <1>1, FS_EmptySet, PrefetchAssumption DEF SlotInv
    <2>3. QueueInv
      <3>1. <<>> \in Seq(Key) /\ Once(<<>>) /\ \A k : ~Holds(<<>>, k)
        BY DEF Once, Holds
      <3>. QED
        BY <3>1 DEF PfInit, QueueInv, FetchState
    <2>. QED
      BY <2>1, <2>2, <2>3 DEF PoolInv
  <1>3. DataInv
    <2>1. NoAnswer \in AnyAnswer
      BY DEF AnyAnswer
    <2>2. GotInv
      BY <2>1 DEF PfInit, GotInv
    <2>3. HookInv
      BY DEF PfInit, HookInv
    <2>4. BurstInv /\ SideInv
      BY DEF PfInit, BurstInv, SideInv
    <2>. QED
      BY <2>2, <2>3, <2>4 DEF DataInv
  <1>4. PlainInv
    BY DEF PfInit, PlainInv
  <1>. QED
    BY <1>2, <1>3, <1>4 DEF LoopInv

LEMMA LoopHolds == PfSpec => []LoopInv
  BY LoopInit, LoopStep, PTL DEF PfSpec

\* The type of every variable, and the semaphore's queue: it holds each task
\* that waits for a slot once and no other, also when one in the middle of it
\* is cancelled (prefetch.py:200-213).
THEOREM PrefetchTypeOK == PfSpec => []PfTypeOK
  <1>1. LoopInv => PfTypeOK
    <2> SUFFICES ASSUME LoopInv
                 PROVE  PfTypeOK
      OBVIOUS
    <2>1. issued \in Nat
      BY FS_CardinalityType DEF LoopInv, PoolInv, CapInv, CapExact, Made
    <2>2. side \subseteq TaskType
      BY DEF LoopInv, DataInv, SideInv, TaskOk
    <2>3. /\ fetch \in [Key -> {"none"} \cup Live \cup Ended]
          /\ sem \in Seq(Key)
          /\ \A k \in Key : fetch[k] = "queued" <=> \E i \in DOMAIN sem : sem[i] = k
          /\ \A i, j \in DOMAIN sem : sem[i] = sem[j] => i = j
      BY DEF LoopInv, PoolInv, QueueInv, FetchState, Holds, Once
    <2>. QED
      BY <2>1, <2>2, <2>3
         DEF PfTypeOK, LoopInv, DataInv, GotInv, HookInv, BurstInv, PlainInv
  <1>. QED
    BY <1>1, LoopHolds, PTL

\* The cap on speculative lookups is exact, however many side tasks issue
\* (prefetch.py:192-198).
THEOREM PrefetchCapExact == PfSpec => []CapExact
  <1>1. LoopInv => CapExact
    BY DEF LoopInv, PoolInv, CapInv
  <1>. QED
    BY <1>1, LoopHolds, PTL

\* No more than prefetch_concurrency speculative lookups and the evaluator's
\* own one are with the resolver at once (prefetch.py:204).
THEOREM PrefetchInFlightBounded == PfSpec => []InFlightBounded
  <1>1. LoopInv => InFlightBounded
    <2> SUFFICES ASSUME LoopInv
                 PROVE  InFlightBounded
      OBVIOUS
    <2>1. Cardinality(Sending) \in Nat /\ Cardinality(Sending) <= Concurrency
      BY FS_CardinalityType DEF LoopInv, PoolInv, SlotInv
    <2>. QED
      BY <2>1, PrefetchAssumption DEF InFlightBounded
  <1>. QED
    BY <1>1, LoopHolds, PTL

-----------------------------------------------------------------------------
(***************************************************************************)
(* close().                                                                *)
(***************************************************************************)
Closing == phase \in {"closing", "closed"}

CloseInv ==
  /\ Closing => /\ side = {} /\ burst = <<>>
                /\ \A k \in Key : fetch[k] # "none" => k \in gathered
                /\ ~abandoned => pc \in {"finish", "done"}
  /\ phase = "closed" => /\ ready = <<>>
                         /\ \A k \in gathered : fetch[k] \in Ended
  /\ pc = "start" => phase = "off"

\* The coroutine does not come back to its start, and once it is at its end it
\* makes no lookup.
LEMMA StepPlace ==
  ASSUME EvalKnown, Step
  PROVE  /\ pc' # "start"
         /\ pc \in {"finish", "done"} => pc' = "done" /\ status' = status
  <1> USE DEF Raise, Return, Match, NoMatch, Ask, Expand, ExpReturn, NextHost
  <1>1. ASSUME NEW d \in Start, Begin(d)
        PROVE  pc' # "start" /\ pc \notin {"finish", "done"}
    BY <1>1 DEF Begin
  <1>2. CASE EnterLate \/ EnterMalformed \/ EnterOverride \/ EnterQuery
             \/ FetchPolicy
    BY <1>2 DEF EnterLate, EnterMalformed, EnterOverride, EnterQuery,
                FetchPolicy, Parse, evalVars
  <1>3. CASE TermLate \/ LocalTerm \/ DnsTerm \/ Default \/ Target
             \/ TargetMacro \/ AskTarget \/ AskPtr \/ Recurse
    BY <1>3 DEF TermLate, LocalTerm, DnsTerm, Default, Target, TargetMacro,
                AskTarget, AskPtr, Recurse, evalVars
  <1>4. CASE Answered \/ Exchanges \/ PtrNames \/ SkipHost \/ AskHost
             \/ HostAnswered \/ NamesSpent
    BY <1>4 DEF Answered, Exchanges, PtrNames, SkipHost, AskHost, HostAnswered,
                NamesSpent
  <1>5. CASE MacroDone
    BY <1>5 DEF MacroDone, EvalKnown, EvalInv, EvalTypeOK
  <1>6. CASE ReturnInclude \/ IncludeMatch \/ ReturnRedirect \/ ReturnTop
    BY <1>6 DEF ReturnInclude, IncludeMatch, ReturnRedirect, ReturnTop
  <1>7. CASE Unwind
    <2>1. pc = "start" \/ Nested
      BY <1>7 DEF Unwind, EvalKnown, VerdictInv, Undecided
    <2>. QED
      BY <1>7, <2>1 DEF Unwind, Nested, MainPc, WalkPc
  <1>8. CASE ExpEnter \/ ExpTarget \/ ExpTargetMacro \/ ExpAsk \/ ExpReply
             \/ ExpText \/ ExpTextMacro \/ ExpDone
    BY <1>8 DEF ExpEnter, ExpTarget, ExpTargetMacro, ExpAsk, ExpReply, ExpText,
                ExpTextMacro, ExpDone
  <1>9. CASE ExpRaised
    <2>1. Explaining
      BY <1>9 DEF ExpRaised, EvalKnown, VerdictInv, Exempts
    <2>. QED
      BY <1>9, <2>1 DEF ExpRaised, Explaining, ExpPc, WalkPc
  <1>10. CASE Finish
    BY <1>10 DEF Finish, sessionVars
  <1>. QED
    BY <1>1, <1>2, <1>3, <1>4, <1>5, <1>6, <1>7, <1>8, <1>9, <1>10 DEF Step

\* A step that starts nothing and leaves close() as far as it is.
LEMMA CloseKept ==
  ASSUME CloseInv, LoopInv, UNCHANGED <<phase, gathered, side, burst>>,
         abandoned => abandoned',
         \A k \in Key : fetch'[k] = fetch[k]
                          \/ (fetch[k] \in Live /\ fetch'[k] # "none"),
         phase = "closed" => ready' = <<>>,
         Closing /\ ~abandoned' => pc' \in {"finish", "done"},
         pc' = "start" => pc = "start"
  PROVE  CloseInv'
  <1>1. ASSUME NEW k \in Key, fetch'[k] # "none", Closing
        PROVE  k \in gathered
    BY <1>1 DEF CloseInv, Live
  <1>2. ASSUME NEW k \in gathered, phase = "closed"
        PROVE  fetch'[k] \in Ended
    <2>1. k \in Key
      BY DEF LoopInv, PlainInv
    <2>. QED
      BY <1>2, <2>1 DEF CloseInv, Ended, Live
  <1>. QED
    BY <1>1, <1>2 DEF CloseInv, Closing

LEMMA EvaluateClose ==
  ASSUME EvalKnown, LoopInv, CloseInv, Evaluate
  PROVE  CloseInv'
  <1>1. CASE EvaluateBegin
    <2>1. pc = "start" /\ pc' # "start" /\ phase = "off"
      BY <1>1 DEF EvaluateBegin, Begin, CloseInv
    <2>2. phase' \in {"off", "open"}
      BY <1>1, <2>1 DEF EvaluateBegin, pfVars, closeVars
    <2>. QED
      BY <2>1, <2>2 DEF CloseInv, Closing
  <1>2. CASE EvaluateStep
    <2>1. /\ pc' # "start"
          /\ pc \in {"finish", "done"} => pc' = "done" /\ status' = status
      BY <1>2, StepPlace DEF EvaluateStep
    <2>2. UNCHANGED <<fetch, phase, gathered, abandoned, side, burst>>
      BY <1>2 DEF EvaluateStep, Claim, pfVars, issueVars, closeVars
    <2>3. Closing => pc \in {"finish", "done"} /\ ready' = ready
      BY <1>2, <2>1 DEF CloseInv, EvaluateStep, Sends, pfVars
    <2>. QED
      BY <2>1, <2>2, <2>3, CloseKept DEF CloseInv, Closing
  <1>. QED
    BY <1>1, <1>2 DEF Evaluate

LEMMA ResumeClose ==
  ASSUME EvalKnown, LoopInv, CloseInv, Resume \/ ResumeLate \/ CallerCancels
  PROVE  CloseInv'
  <1>1. CASE Resume
    <2>1. /\ UNCHANGED <<fetch, phase, gathered, abandoned, side, burst, pc>>
          /\ ready' = ready \/ (ready # <<>> /\ ready' = Tail(ready))
      BY <1>1 DEF Resume, ResumeLive, ResumeTask, OutcomeReaches, Resumed,
                  issueVars, closeVars, evalVars, vars
    <2>. QED
      BY <2>1, CloseKept DEF CloseInv, Closing
  <1>2. CASE ResumeLate \/ CallerCancels
    <2>1. /\ UNCHANGED <<phase, gathered, side, burst, pc>>
          /\ abandoned => abandoned' /\ (phase = "open" \/ abandoned' = abandoned)
          /\ ready' = Without(ready, NoKey)
          /\ fetch' = [k \in Key |-> IF k \in Shared THEN "cancelled" ELSE fetch[k]]
      BY <1>2 DEF ResumeLate, CallerCancels, DropAwaited, evalVars, closeVars, vars
    <2>2. ready = <<>> => ready' = <<>>
      BY <2>1 DEF Without
    <2>3. \A k \in Key : fetch'[k] = fetch[k]
                           \/ (fetch[k] \in Live /\ fetch'[k] # "none")
      BY <2>1 DEF Shared
    <2>4. Closing /\ ~abandoned' => pc' \in {"finish", "done"}
      BY <1>2, <2>1 DEF CloseInv, Closing, ResumeLate, CallerCancels
    <2>. QED
      BY <1>2, <2>1, <2>2, <2>3, <2>4, CloseKept
         DEF CloseInv, ResumeLate, CallerCancels, closeVars
  <1>. QED
    BY <1>1, <1>2

LEMMA SpeculateClose ==
  ASSUME EvalKnown, LoopInv, CloseInv, Speculate \/ (\E k \in Key : Cancel(k))
  PROVE  CloseInv'
  <1>0. UNCHANGED <<pc, phase, gathered, abandoned>>
    <2>1. pc' = pc
      BY LoopIsStutter DEF Close, vars, evalVars
    <2>. QED
      BY <2>1 DEF Speculate, RunJob, SkipJob, Acquire, FetchEnds, Hook, StartSide,
             ResumeSide, Cancel, End, closeVars
  <1>1. CASE ~Closing
    BY <1>0, <1>1 DEF CloseInv, Closing
  <1>2. CASE Closing
    <2>1. burst = <<>> /\ side = {} /\ phase # "open"
      BY <1>2 DEF CloseInv, Closing
    <2>2. ASSUME NEW k \in Key, FetchEnds(k) \/ Cancel(k)
          PROVE  CloseInv'
      <3>1. PICK o, a : o \in Ended /\ End(k, o, a)
        BY <2>2 DEF FetchEnds, Cancel, Ended
      <3>2. fetch[k] \in Live
        BY <2>2 DEF FetchEnds, Cancel, Live
      <3>3. fetch' = [fetch EXCEPT ![k] = o] /\ UNCHANGED <<side, burst>>
        BY <3>1 DEF End
      <3>4. phase # "closed"
        BY <3>2 DEF CloseInv, Closing, Live, Ended
      <3>5. \A m \in Key : fetch'[m] = fetch[m]
                             \/ (fetch[m] \in Live /\ fetch'[m] # "none")
        BY <3>1, <3>2, <3>3 DEF LoopInv, PoolInv, QueueInv, Ended
      <3>. QED
        BY <1>0, <3>3, <3>4, <3>5, CloseKept DEF CloseInv
    <2>3. CASE Hook
      <3>1. UNCHANGED <<burst, side, fetch>> /\ ready # <<>>
        BY <1>2, <2>3
           DEF Hook, IssueChildren, Refuses, Closing, issueVars
      <3>. QED
        BY <1>0, <2>1, <3>1, CloseKept DEF CloseInv
    <2>4. ~(RunJob \/ SkipJob \/ Acquire \/ \E s \in side : StartSide(s) \/ ResumeSide(s))
      BY <2>1 DEF RunJob, SkipJob, Acquire
    <2>. QED
      BY <2>2, <2>3, <2>4 DEF Speculate
  <1>. QED
    BY <1>1, <1>2

LEMMA CloseStep == CloseInv /\ EvalKnown /\ LoopInv /\ [PfNext]_allVars => CloseInv'
  <1> SUFFICES ASSUME CloseInv, EvalKnown, LoopInv, [PfNext]_allVars
               PROVE  CloseInv'
    OBVIOUS
  <1>1. CASE CloseStart
    <2>1. /\ phase' = "closing" /\ side' = {} /\ burst' = <<>>
          /\ gathered' = {k \in Key : fetch'[k] # "none"}
          /\ UNCHANGED <<pc, abandoned>> /\ (pc = "finish" \/ abandoned)
      BY <1>1 DEF CloseStart, issueVars, vars, evalVars
    <2>2. pc # "start"
      BY <1>1 DEF CloseStart, CloseInv
    <2>. QED
      BY <2>1, <2>2 DEF CloseInv, Closing
  <1>2. CASE CloseDone
    <2>1. /\ phase = "closing" /\ phase' = "closed" /\ ready' = <<>>
          /\ \A k \in gathered : fetch[k] \in Ended
          /\ UNCHANGED <<pc, abandoned, fetch, gathered, side, burst>>
      BY <1>2 DEF CloseDone, issueVars, vars, evalVars
    <2>. QED
      BY <2>1 DEF CloseInv, Closing
  <1>3. CASE Clock \/ UNCHANGED allVars
    BY <1>3 DEF Clock, allVars, pfVars, issueVars, closeVars, vars, evalVars,
                CloseInv, Closing
  <1>. QED
    BY <1>1, <1>2, <1>3, EvaluateClose, ResumeClose, SpeculateClose
       DEF PfNext, Close

\* Nothing outlives the evaluation: when close() is over no lookup, callback or
\* side task is left, also of what a burst, a callback or a cancelled task had
\* begun (prefetch.py:130-146).
THEOREM PrefetchNothingLeft == PfSpec => []NothingLeft
  <1>1. PfInit => CloseInv
    BY DEF PfInit, CloseInv, Closing
  <1>2. LoopInv /\ CloseInv => NothingLeft
    <2> SUFFICES ASSUME LoopInv, CloseInv, phase = "closed"
                 PROVE  /\ Unended = {} /\ ready = <<>>
                        /\ burst = <<>> /\ side = {}
      BY DEF NothingLeft
    <2>. QED
      BY DEF CloseInv, Closing, Unended, Live, Ended
  <1>. QED
    BY <1>1, <1>2, CloseStep, LoopHolds, EvalKnownHolds, PTL DEF PfSpec

-----------------------------------------------------------------------------
(***************************************************************************)
(* The done-callback of a lookup and the wakeup of the evaluator that      *)
(* awaits it.                                                              *)
(***************************************************************************)

\* Nothing that is due after the wakeup is the callback of c.
Behind(r, c) ==
  \A i, j \in DOMAIN r : r[i] = NoKey /\ i < j => r[j] # c

OrderInv ==
  /\ wait # "no" => status = "await"
  /\ ~Inline => wait # "inline"
  /\ Once(ready)
  /\ \A k \in Key : Holds(ready, k) => fetch[k] \in Ended
  /\ Holds(ready, NoKey) => wait = "task" /\ fetch[key] \in Ended
  /\ Behind(ready, key)

\* The coroutine is not resumed while it waits.
LEMMA AwaitNoStep ==
  ASSUME EvalKnown, status = "await"
  PROVE  ~Step
  <1> SUFFICES ASSUME Step
               PROVE  FALSE
    OBVIOUS
  <1>0. pc \notin {"start", "return", "match", "exp", "exp_target", "exp_text",
                   "finish", "done"}
    BY DEF EvalKnown, VerdictInv, Settled
  <1> USE DEF Ask, Expand, ExpReturn, LeaveExempt, Query
  <1>1. CASE \E d \in Start : Begin(d)
    BY <1>0, <1>1 DEF Begin
  <1>2. CASE EnterLate \/ EnterMalformed \/ EnterOverride \/ EnterQuery
             \/ FetchPolicy
    BY <1>2 DEF EnterLate, CheckDeadline, EnterMalformed, EnterOverride,
                EnterQuery, FetchPolicy
  <1>3. CASE TermLate \/ LocalTerm \/ DnsTerm \/ Default \/ Target
             \/ TargetMacro \/ AskTarget \/ AskPtr \/ Recurse
    BY <1>3 DEF TermLate, CheckDeadline, LocalTerm, DnsTerm, ConsumeTerm,
                Default, Target, TargetMacro, AskTarget, AskPtr, Recurse
  <1>4. CASE Answered \/ Exchanges \/ PtrNames \/ SkipHost \/ AskHost
             \/ HostAnswered \/ NamesSpent \/ MacroDone
    BY <1>4 DEF Answered, Exchanges, PtrNames, SkipHost, AskHost, HostAnswered,
                NamesSpent, MacroDone
  <1>5. CASE ReturnInclude \/ IncludeMatch \/ ReturnRedirect \/ ReturnTop
             \/ ExpEnter \/ ExpTarget \/ ExpTargetMacro \/ ExpText
             \/ ExpTextMacro \/ Finish
    BY <1>0, <1>5 DEF ReturnInclude, IncludeMatch, ReturnRedirect, ReturnTop,
         ExpEnter, ExpTarget, ExpTargetMacro, ExpText, ExpTextMacro, Finish
  <1>6. CASE Unwind \/ ExpAsk \/ ExpReply \/ ExpDone \/ ExpRaised
    BY <1>6 DEF Unwind, ExpAsk, ExpReply, ExpDone, ExpRaised, Raised
  <1>. QED
    BY <1>1, <1>2, <1>3, <1>4, <1>5, <1>6 DEF Step

\* It comes to wait, or changes key, by sending a lookup only.
LEMMA StepSends ==
  ASSUME EvalKnown, Step, ~Sends
  PROVE  status # "await" /\ status' # "await"
  <1>1. status # "await"
    BY AwaitNoStep
  <1>2. status \notin {"await", "ready"} => status' # "await"
    <2> SUFFICES ASSUME status \in Raised, status' = "await"
                 PROVE  FALSE
      BY <1>1 DEF EvalKnown, EvalInv, EvalTypeOK, TypeOK
    <2>1. [SessionNext]_sessionVars
      BY StepIsSession DEF EvalKnown
    <2>. QED
      BY <2>1 DEF SessionNext, Elapse, CheckDeadline, ConsumeTerm, Query, Answer,
           LookupRaises, TimeLimit, EnterExempt, LeaveExempt, sessionVars,
           Raised
  <1>. QED
    BY <1>1, <1>2 DEF Sends

LEMMA BehindAppend ==
  ASSUME NEW S, NEW r \in Seq(S), NEW x, NEW c, Behind(r, c),
         x # c \/ ~Holds(r, NoKey)
  PROVE  Behind(Append(r, x), c)
  <1> DEFINE t == Append(r, x)
             n == Len(r)
  <1>1. /\ n \in Nat /\ DOMAIN r = 1..n /\ DOMAIN t = 1..(n + 1)
        /\ t[n + 1] = x /\ \A i \in 1..n : t[i] = r[i]
    OBVIOUS
  <1> HIDE DEF t, n
  <1> SUFFICES ASSUME NEW i \in 1..(n + 1), NEW j \in 1..(n + 1),
                      t[i] = NoKey, i < j
               PROVE  t[j] # c
    BY <1>1 DEF Behind, t
  <1>2. i \in 1..n
    BY <1>1
  <1>3. CASE j = n + 1
    BY <1>1, <1>2, <1>3 DEF Holds
  <1>4. CASE j \in 1..n
    BY <1>1, <1>2, <1>4 DEF Behind
  <1>. QED
    BY <1>1, <1>3, <1>4

LEMMA BehindNoWake ==
  ASSUME NEW r, NEW c, ~Holds(r, NoKey)
  PROVE  Behind(r, c)
  BY DEF Behind, Holds

LEMMA BehindTail ==
  ASSUME NEW S, NEW r \in Seq(S), r # <<>>, NEW c, Behind(r, c)
  PROVE  Behind(Tail(r), c)
  <1> DEFINE t == Tail(r)
             n == Len(r)
  <1>1. /\ n \in Nat /\ DOMAIN r = 1..n /\ DOMAIN t = 1..(n - 1)
        /\ \A i \in 1..(n - 1) : t[i] = r[i + 1]
    OBVIOUS
  <1> HIDE DEF t, n
  <1> SUFFICES ASSUME NEW i \in 1..(n - 1), NEW j \in 1..(n - 1),
                      t[i] = NoKey, i < j
               PROVE  t[j] # c
    BY <1>1 DEF Behind, t
  <1>2. i + 1 \in 1..n /\ j + 1 \in 1..n /\ i + 1 < j + 1
    BY <1>1
  <1>. QED
    BY <1>1, <1>2 DEF Behind

\* A step that ends no task and resumes nobody.
LEMMA OrderKept ==
  ASSUME EvalKnown, OrderInv, UNCHANGED <<ready, wait, key, status>>,
         \A k \in Key : fetch[k] \in Ended => fetch'[k] = fetch[k]
  PROVE  OrderInv'
  <1>1. wait = "task" => key \in Key
    BY InFlightPlace DEF OrderInv
  <1>. QED
    BY <1>1 DEF OrderInv, Once, Holds, Behind

\* A step after which no wakeup is due.
LEMMA OrderAwake ==
  ASSUME OrderInv, Once(ready'), ~Holds(ready', NoKey),
         \A k \in Key : Holds(ready', k) => Holds(ready, k),
         \A k \in Key : fetch[k] \in Ended => fetch'[k] = fetch[k],
         wait' # "no" => status' = "await" /\ wait' # "inline"
  PROVE  OrderInv'
  <1>1. Behind(ready', key')
    BY BehindNoWake
  <1>. QED
    BY <1>1 DEF OrderInv

LEMMA IssueEnds ==
  ASSUME NEW k, Issue(k), NEW m \in Key, fetch[m] \in Ended, QueueInv
  PROVE  fetch'[m] = fetch[m]
  BY DEF Issue, CanIssue, issueVars, QueueInv, Ended

LEMMA EvaluateOrder ==
  ASSUME EvalKnown, LoopInv, OrderInv, Evaluate
  PROVE  OrderInv'
  <1>1. fetch' = fetch
    BY DEF Evaluate, EvaluateBegin, EvaluateStep, Claim, pfVars, issueVars
  <1>2. CASE EvaluateBegin
    <2>1. UNCHANGED <<ready, wait, key, status>>
      BY <1>2 DEF EvaluateBegin, Begin, pfVars, sessionVars, lookupVars
    <2>. QED
      BY <1>1, <2>1, OrderKept
  <1>3. CASE EvaluateStep /\ ~Sends
    <2>1. status # "await" /\ UNCHANGED <<ready, wait>>
      BY <1>3, StepSends DEF EvaluateStep, pfVars
    <2>2. wait = "no" /\ ~Holds(ready, NoKey)
      BY <2>1 DEF OrderInv
    <2>. QED
      BY <1>1, <2>1, <2>2, OrderAwake DEF OrderInv
  <1>4. CASE EvaluateStep /\ Sends
    <2>1. status = "ready" /\ status' = "await" /\ Claim(key')
      BY <1>4 DEF EvaluateStep, Sends
    <2>2. ~Holds(ready, NoKey) /\ Once(ready)
      BY <2>1 DEF OrderInv
    <2>3. CASE ready' = ready
      <3>1. Behind(ready', key')
        BY <2>2, <2>3, BehindNoWake
      <3>2. ~Inline => wait' # "inline"
        BY <2>1 DEF Claim
      <3>. QED
        BY <1>1, <2>1, <2>2, <2>3, <3>1, <3>2 DEF OrderInv
    <2>4. CASE ready' # ready
      <3>1. /\ ready' = Append(ready, NoKey) /\ wait' = "task"
            /\ fetch[key'] \in Ended
        BY <2>1, <2>4 DEF Claim
      <3>2. ready \in Seq(Key \cup {NoKey})
        BY DEF LoopInv, DataInv, HookInv
      <3>3. Once(ready') /\ \A y : Holds(ready', y) <=> Holds(ready, y) \/ y = NoKey
        BY <2>2, <3>1, <3>2, AppendHolds
      <3>4. Behind(ready', key')
        BY <2>2, <3>1, <3>2, BehindNoWake, BehindAppend
      <3>. QED
        BY <1>1, <2>1, <3>1, <3>3, <3>4, SessionAssumption DEF OrderInv
    <2>. QED
      BY <2>3, <2>4
  <1>. QED
    BY <1>2, <1>3, <1>4 DEF Evaluate

LEMMA ResumeOrder ==
  ASSUME EvalKnown, LoopInv, OrderInv, Resume \/ ResumeLate \/ CallerCancels
  PROVE  OrderInv'
  <1>1. ready \in Seq(Key \cup {NoKey}) /\ Once(ready)
    BY DEF LoopInv, DataInv, HookInv, OrderInv
  <1>2. CASE Resume
    <2>1. /\ fetch' = fetch
          /\ wait' = "no" \/ (wait' = "fallback" /\ status' = status /\ wait # "no")
      BY <1>2 DEF Resume, ResumeLive, ResumeTask, OutcomeReaches, Resumed,
                  issueVars, vars, sessionVars
    <2>2. CASE ready' = ready /\ wait # "task"
      BY <2>1, <2>2, OrderAwake DEF OrderInv
    <2>3. CASE ready # <<>> /\ Head(ready) = NoKey /\ ready' = Tail(ready)
      <3>1. /\ Once(ready')
            /\ \A y : Holds(ready', y) <=> Holds(ready, y) /\ y # NoKey
        BY <1>1, <2>3, TailHolds
      <3>. QED
        BY <2>1, <3>1, OrderAwake DEF OrderInv
    <2>. QED
      BY <1>2, <2>2, <2>3 DEF Resume, ResumeLive, ResumeTask
  <1>3. CASE ResumeLate \/ CallerCancels
    <2>1. DropAwaited
      BY <1>3 DEF ResumeLate, CallerCancels
    <2>2. /\ Once(ready')
          /\ \A y : Holds(ready', y) <=> Holds(ready, y) /\ y # NoKey
      BY <1>1, <2>1, WithoutHolds DEF DropAwaited
    <2>3. \A k \in Key : fetch[k] \in Ended => fetch'[k] = fetch[k]
      BY <2>1 DEF DropAwaited, Shared, Live, Ended
    <2>. QED
      BY <2>1, <2>2, <2>3, OrderAwake DEF DropAwaited
  <1>. QED
    BY <1>2, <1>3

LEMMA EndOrder ==
  ASSUME EvalKnown, LoopInv, OrderInv, NEW k \in Key, NEW o \in Ended, NEW a,
         fetch[k] \in Live, End(k, o, a)
  PROVE  OrderInv'
  <1> DEFINE hooked == level[k] > 0 /\ o = "done"
             woken == wait = "task" /\ key = k
             mid == IF hooked THEN Append(ready, k) ELSE ready
             S == Key \cup {NoKey}
  <1>1. ready \in Seq(S) /\ Once(ready) /\ k \in S /\ NoKey \in S /\ k # NoKey
    BY SessionAssumption DEF LoopInv, DataInv, HookInv, OrderInv
  <1>2. ready' = IF woken THEN Append(mid, NoKey) ELSE mid
    <2>1. /\ ready \o <<k>> = Append(ready, k) /\ ready \o <<>> = ready
          /\ mid \in Seq(S)
      BY <1>1
    <2>2. mid \o <<NoKey>> = Append(mid, NoKey) /\ mid \o <<>> = mid
      <3> HIDE DEF mid
      <3>. QED
        BY <1>1, <2>1
    <2>3. ready' = (ready \o (IF hooked THEN <<k>> ELSE <<>>))
                     \o (IF woken THEN <<NoKey>> ELSE <<>>)
      BY DEF End
    <2>4. ready \o (IF hooked THEN <<k>> ELSE <<>>) = mid
      BY <2>1
    <2> HIDE DEF mid
    <2>. QED
      BY <2>2, <2>3, <2>4
  <1>3. ~Holds(ready, k)
    BY DEF OrderInv, Live, Ended
  <1>4. key = k => ~Holds(ready, NoKey)
    BY DEF OrderInv, Live, Ended
  <1>5. /\ mid \in Seq(S) /\ Once(mid) /\ Behind(mid, key)
        /\ \A y : Holds(mid, y) => Holds(ready, y) \/ y = k
    <2>1. CASE hooked
      BY <1>1, <1>3, <1>4, <2>1, AppendHolds, BehindAppend DEF OrderInv
    <2>2. CASE ~hooked
      BY <1>1, <2>2 DEF OrderInv
    <2>. QED
      BY <2>1, <2>2
  <1> HIDE DEF mid, S
  <1>6. /\ Once(ready') /\ Behind(ready', key)
        /\ \A y : Holds(ready', y) =>
             Holds(ready, y) \/ y = k \/ (woken /\ y = NoKey)
    <2>1. CASE woken
      <3>1. ~Holds(mid, NoKey)
        BY <1>1, <1>4, <1>5, <2>1
      <3>. QED
        BY <1>1, <1>2, <1>5, <2>1, <3>1, AppendHolds, BehindAppend
    <2>2. CASE ~woken
      BY <1>2, <1>5, <2>2
    <2>. QED
      BY <2>1, <2>2
  <1>7. /\ fetch' = [fetch EXCEPT ![k] = o] /\ fetch \in [Key -> FetchState]
        /\ UNCHANGED <<wait, key, status>>
    BY DEF End, LoopInv, PoolInv, QueueInv, vars, sessionVars, lookupVars
  <1>8. \A m \in Key : m = k \/ fetch[m] \in Ended => fetch'[m] \in Ended
    BY <1>7
  <1>9. wait = "task" => key \in Key
    BY InFlightPlace DEF OrderInv
  <1>10. ASSUME NEW m \in Key, Holds(ready', m)
         PROVE  fetch'[m] \in Ended
    <2>1. Holds(ready, m) \/ m = k
      BY <1>6, <1>10, SessionAssumption
    <2>. QED
      BY <1>8, <2>1 DEF OrderInv
  <1>11. ASSUME Holds(ready', NoKey)
         PROVE  wait = "task" /\ fetch'[key] \in Ended
    <2>1. Holds(ready, NoKey) \/ woken
      BY <1>1, <1>6, <1>11
    <2>. QED
      BY <1>8, <1>9, <2>1 DEF OrderInv
  <1> HIDE DEF woken, hooked
  <1>. QED
    BY <1>6, <1>7, <1>10, <1>11 DEF OrderInv

LEMMA SpeculateOrder ==
  ASSUME EvalKnown, LoopInv, OrderInv,
         Speculate \/ CloseStart \/ CloseDone \/ \E k \in Key : Cancel(k)
  PROVE  OrderInv'
  <1>0. UNCHANGED <<key, status>>
    BY LoopIsStutter DEF Close, vars, sessionVars, lookupVars
  <1>q. QueueInv
    BY DEF LoopInv, PoolInv
  <1>1. CASE RunJob \/ SkipJob \/ CloseStart \/ CloseDone
             \/ \E s \in side : StartSide(s) \/ ResumeSide(s)
    <2>1. UNCHANGED <<ready, wait>>
      BY <1>1 DEF RunJob, SkipJob, CloseStart, CloseDone, StartSide, ResumeSide
    <2>2. UNCHANGED issueVars \/ \E k \in Key : Issue(k)
      <3>1. CASE RunJob
        BY <3>1, WantedKey DEF RunJob
      <3>2. CASE SkipJob \/ CloseStart \/ CloseDone
        BY <3>2 DEF SkipJob, CloseStart, CloseDone
      <3>. QED
        BY <1>1, <3>1, <3>2, StartSideTyped, ResumeSideTyped DEF LoopInv
    <2>3. \A m \in Key : fetch[m] \in Ended => fetch'[m] = fetch[m]
      BY <1>q, <2>2, IssueEnds DEF issueVars
    <2>. QED
      BY <1>0, <2>1, <2>3, OrderKept
  <1>2. ASSUME NEW k \in Key, FetchEnds(k) \/ Cancel(k)
        PROVE  OrderInv'
    <2>1. PICK o, a : o \in Ended /\ End(k, o, a)
      BY <1>2 DEF FetchEnds, Cancel, Ended
    <2>2. fetch[k] \in Live
      BY <1>2 DEF FetchEnds, Cancel, Live
    <2>. QED
      BY <2>1, <2>2, EndOrder
  <1>3. CASE Acquire
    <2>1. Head(sem) \in Key /\ fetch[Head(sem)] = "queued"
      BY <1>3, <1>q, TailHolds DEF Acquire, QueueInv
    <2>2. CASE expired
      BY <1>3, <2>1, <2>2, EndOrder DEF Acquire, Live, Ended
    <2>3. CASE ~expired
      <3>1. /\ fetch' = [fetch EXCEPT ![Head(sem)] = "sent"]
            /\ UNCHANGED <<ready, wait>>
        BY <1>3, <2>3 DEF Acquire
      <3>2. \A m \in Key : fetch[m] \in Ended => fetch'[m] = fetch[m]
        BY <1>q, <2>1, <3>1 DEF QueueInv, Ended
      <3>. QED
        BY <1>0, <3>1, <3>2, OrderKept
    <2>. QED
      BY <2>2, <2>3
  <1>4. CASE Hook
    <2>1. /\ ready # <<>> /\ ready' = Tail(ready) /\ UNCHANGED <<fetch, wait>>
          /\ ready \in Seq(Key \cup {NoKey}) /\ Once(ready)
      BY <1>4 DEF Hook, issueVars, LoopInv, DataInv, HookInv, OrderInv
    <2>2. /\ Once(ready')
          /\ \A y : Holds(ready', y) => Holds(ready, y)
      BY <2>1, TailHolds
    <2>3. Behind(ready', key)
      BY <2>1, BehindTail DEF OrderInv
    <2>. QED
      BY <1>0, <2>1, <2>2, <2>3 DEF OrderInv
  <1>. QED
    BY <1>1, <1>2, <1>3, <1>4 DEF Speculate

LEMMA OrderStep == OrderInv /\ EvalKnown /\ LoopInv /\ [PfNext]_allVars => OrderInv'
  <1> SUFFICES ASSUME OrderInv, EvalKnown, LoopInv, [PfNext]_allVars
               PROVE  OrderInv'
    OBVIOUS
  <1>1. CASE Clock \/ UNCHANGED allVars
    <2>1. UNCHANGED <<ready, wait, key, status, fetch>>
      BY <1>1 DEF Clock, Elapse, allVars, pfVars, issueVars, vars, sessionVars,
                  lookupVars
    <2>. QED
      BY <2>1, OrderKept
  <1>. QED
    BY <1>1, EvaluateOrder, ResumeOrder, SpeculateOrder DEF PfNext, Close

\* Where wait_for() awaits in a task of its own (before Python 3.12), the
\* children of a record are issued before the evaluator resumes from its TXT:
\* the callback comes first, also when the lookup ended before the evaluator
\* came to claim it (prefetch.py:20-26, evaluator.py:205-210).
THEOREM PrefetchChildrenFirst ==
  ASSUME Inline = FALSE
  PROVE  PfSpec => ChildrenFirst
  <1>1. PfInit => OrderInv
    BY DEF PfInit, OrderInv, Once, Holds, Behind
  <1>2. OrderInv /\ EvalKnown /\ LoopInv /\ [PfNext]_allVars =>
          [(wait \in {"task", "inline"} /\ status # status' /\ status' = "ready")
             => (\A i \in DOMAIN ready : ready[i] # key)]_allVars
    <2> SUFFICES ASSUME OrderInv, EvalKnown, LoopInv, PfNext,
                        wait \in {"task", "inline"}, status # status',
                        status' = "ready"
                 PROVE  \A i \in DOMAIN ready : ready[i] # key
      OBVIOUS
    <2>1. wait = "task" /\ status = "await" /\ key \in Key
      BY InFlightPlace DEF OrderInv
    <2>2. ~Evaluate
      BY <2>1, AwaitNoStep DEF Evaluate, EvaluateBegin, EvaluateStep, Step
    <2>3. ~(Speculate \/ Close \/ CallerCancels \/ Clock)
      BY LoopIsStutter DEF Clock, Elapse, vars, sessionVars
    <2>4. ~(ResumeLate \/ ResumeLive)
      BY <2>1 DEF ResumeLate, TimeLimit, ResumeLive
    <2>5. ready # <<>> /\ Head(ready) = NoKey
      BY <2>1, <2>2, <2>3, <2>4 DEF PfNext, Resume, ResumeTask
    <2>6. ready \in Seq(Key \cup {NoKey})
      BY DEF LoopInv, DataInv, HookInv
    <2>7. /\ 1 \in DOMAIN ready /\ ready[1] = NoKey
          /\ \A i \in DOMAIN ready : i = 1 \/ 1 < i
      BY <2>5, <2>6
    <2>. QED
      BY <2>1, <2>7, SessionAssumption DEF OrderInv, Behind
  <1>. QED
    BY <1>1, <1>2, OrderStep, LoopHolds, EvalKnownHolds, PTL
       DEF PfSpec, ChildrenFirst

-----------------------------------------------------------------------------
(***************************************************************************)
(* Predicted, of a zone that answers a question in one way.  Which lookups *)
(* an evaluation can come to is a closure: that of the root's policy under *)
(* what each term of a policy looks up.  The evaluator stays within it,    *)
(* and what the prefetcher has issued contains it once it is Quiet.        *)
(***************************************************************************)
OneAnswer == \A k \in Key : \A a, b \in Reply[k] : a = b

\* What the zone says.
Oracle ==
  [k \in Key |-> IF AlwaysFails(k) THEN DnsFailure
                                   ELSE CHOOSE a \in Reply[k] : TRUE]

\* The zone, and what speculation does not know of: an override of the
\* policy, and ptr names below a target that is not a name.
Predictable ==
  /\ Steady /\ OneAnswer
  /\ Override = NoText
  /\ \A n \in Name : <<n, Malformed>> \notin Below

\* p is the policy of d.
HasPolicy(d, p) ==
  LET s == Records(Oracle, <<d, "TXT">>)
  IN  \E i \in DOMAIN s :
        /\ {j \in DOMAIN s : PolicyOf[s[j]] # NotSpf} = {i}
        /\ p = PolicyOf[s[i]] /\ p \in PolicyType

\* The hosts that mx and ptr go on to.
HostsOf(name, n) ==
  LET mxs == Records(Oracle, <<n, "MX">>)
  IN  IF name = "ptr" THEN PtrHosts(Oracle)
      ELSE IF Len(mxs) > MaxMx THEN <<>> ELSE mxs

\* A mechanism with target n looks up k.
Owes(name, n, k) ==
  \/ (name = "ptr" \/ n \in Name) /\ k = KeyOf([name |-> name, arg |-> n])
  \/ /\ name = "ptr" \/ (name = "mx" /\ n \in Name)
     /\ \E i \in DOMAIN HostsOf(name, n) :
          /\ k = Host(HostsOf(name, n)[i])
          /\ name = "ptr" => <<HostsOf(name, n)[i], n>> \in Below

\* The term t of the policy of d looks up k.
Needs(d, t, k) ==
  \/ k \in ArgKeys(Oracle, t.arg)
  \/ Owes(t.name, RefArg(Oracle, t.arg, d), k)

Asking(t) == Spends(t) /\ (t.name = "redirect" => t.arg # NoArg)

Closed(S) ==
  \A d \in Name, p \in PolicyType, i \in Nat \ {0}, k \in Key :
    <<d, "TXT">> \in S /\ HasPolicy(d, p) /\ Asking(TermAt(p, i))
      /\ Needs(d, TermAt(p, i), k) => k \in S

\* What an evaluation of d can need.
Needed(d) ==
  {k \in Key : \A S \in SUBSET Key :
                 (d \in Name => <<d, "TXT">> \in S) /\ Closed(S) => k \in S}

-----------------------------------------------------------------------------
(***************************************************************************)
(* The evaluator stays on the path.                                        *)
(***************************************************************************)
Root == stack[Len(stack)].domain

\* The open calls.
OnCalls ==
  /\ \A i \in 1..Len(stack) :
       stack[i].domain \in Name => <<stack[i].domain, "TXT">> \in Needed(Root)
  /\ \A i \in 2..Len(stack) :
       stack[i].domain \in Name /\ HasPolicy(stack[i].domain, stack[i].policy)

OnWalk ==
  CASE work = "pmacro" -> AtMacro(Oracle, Key)
    [] OTHER -> \E j \in 0..Len(HostsOf(work, target)) :
                  names = Left(HostsOf(work, target), j)

\* The term.
OnTerm ==
  /\ pc \in DnsPc \cup {"term", "match"} =>
       Top.domain \in Name /\ HasPolicy(Top.domain, Policy)
  /\ pc \in DnsPc => Asking(Term)
  /\ pc \in {"apply", "answer", "exchanges"}
       \/ (pc \in WalkPc /\ work # "pmacro") =>
         target = RefArg(Oracle, Term.arg, Top.domain)
  /\ pc = "exchanges" => Term.name = "mx" /\ target \in Name
  /\ pc \in WalkPc => Walking
  /\ pc \in {"each", "host"} => OnWalk
  /\ pc = "host" => ~OutsideTarget

OnPath == result = "pending" /\ pc # "start" => OnCalls /\ OnTerm

-----------------------------------------------------------------------------
(***************************************************************************)
(* The zone.                                                               *)
(***************************************************************************)
LEMMA OracleAnswers ==
  ASSUME NEW k \in Key, ~AlwaysFails(k)
  PROVE  Oracle[k] \in Reply[k] /\ (OneAnswer => \A a \in Reply[k] : Oracle[k] = a)
  <1>1. \E a \in Reply[k] : TRUE
    BY DEF AlwaysFails
  <1>2. Oracle[k] = CHOOSE a \in Reply[k] : TRUE
    BY DEF Oracle
  <1>3. Oracle[k] \in Reply[k]
    BY <1>1, <1>2
  <1>. QED
    BY <1>3 DEF OneAnswer

LEMMA OracleFails ==
  ASSUME NEW k \in Key, AlwaysFails(k)
  PROVE  Oracle[k] = DnsFailure /\ Records(Oracle, k) = <<>>
  BY DEF Oracle, Records, DnsFailure

LEMMA OracleZone == IsZone(Oracle)
  <1>1. ASSUME NEW k \in Key
        PROVE  Oracle[k] \in Reply[k] \cup {DnsFailure}
    BY OracleAnswers, OracleFails
  <1>. QED
    BY <1>1 DEF IsZone

\* What the evaluator is told is what the zone says.
LEMMA KnownIs ==
  ASSUME Predictable, EvalInv, Heard, Await, pc \in AwaitPc, status = "ready"
  PROVE  /\ reply = Oracle[AskedKey] /\ AskedKey \in Key
         /\ reply.answers = Records(Oracle, AskedKey)
  <1> PICK k : k = AskedKey
    OBVIOUS
  <1>1. k \in Key /\ Known(k, reply)
    BY DEF Await
  <1>2. AlwaysFails(k) /\ reply = DnsFailure => reply = Oracle[k]
    BY <1>1, OracleFails
  <1>3. ASSUME cache[k] # NoAnswer, cache[k] = reply
        PROVE  reply = Oracle[k]
    <2>1. reply \in Reply[k] /\ reply.rcode \in Definite
      BY <1>1, <1>3 DEF EvalInv, TypeInv, TypeOK, Heard
    <2>2. ~AlwaysFails(k)
      BY <2>1 DEF AlwaysFails
    <2>. QED
      BY <1>1, <2>1, <2>2, OracleAnswers DEF Predictable
  <1>4. reply = Oracle[k]
    BY <1>1, <1>2, <1>3 DEF Known
  <1>. QED
    BY <1>1, <1>4 DEF Records

LEMMA NeededIs ==
  ASSUME NEW d
  PROVE  /\ Needed(d) \subseteq Key
         /\ d \in Name => <<d, "TXT">> \in Needed(d)
         /\ Closed(Needed(d))
  <1>1. Needed(d) \subseteq Key /\ (d \in Name => <<d, "TXT">> \in Needed(d))
    BY KeyTypes DEF Needed
  <1>2. ASSUME NEW e \in Name, NEW p \in PolicyType, NEW i \in Nat \ {0},
               NEW k \in Key, <<e, "TXT">> \in Needed(d), HasPolicy(e, p),
               Asking(TermAt(p, i)), Needs(e, TermAt(p, i), k)
        PROVE  k \in Needed(d)
    <2>1. ASSUME NEW S \in SUBSET Key, d \in Name => <<d, "TXT">> \in S, Closed(S)
          PROVE  k \in S
      <3>1. <<e, "TXT">> \in S
        BY <1>2, <2>1 DEF Needed
      <3>. QED
        BY <1>2, <2>1, <3>1 DEF Closed
    <2>. QED
      BY <2>1 DEF Needed
  <1>. QED
    BY <1>1, <1>2 DEF Closed

LEMMA NeededWithin ==
  ASSUME NEW d, NEW S \in SUBSET Key, d \in Name => <<d, "TXT">> \in S, Closed(S)
  PROVE  Needed(d) \subseteq S
  BY DEF Needed

-----------------------------------------------------------------------------
(***************************************************************************)
(* Where an open verdict stands.                                           *)
(***************************************************************************)
Stands ==
  /\ OnCalls /\ OnTerm
  /\ Nested /\ ~Explaining /\ ~void_exempt
  /\ stack # <<>> /\ stack \in Seq(FrameType)
  /\ Len(stack) \in Nat \ {0} /\ DOMAIN stack = 1..Len(stack)
  /\ Top = stack[1] /\ Top \in FrameType
  /\ Policy = Top.policy /\ Policy \in PolicyType
  /\ Top.domain \in Domains /\ Domain = Top.domain /\ Top.idx \in Nat \ {0}
  /\ Term = TermAt(Policy, Top.idx) /\ Term \in RefTermType

LEMMA PathStands ==
  ASSUME EvalKnown, OnPath, result = "pending", pc # "start"
  PROVE  Stands
  <1>1. Nested /\ ~Explaining
    BY OpenNested DEF EvalKnown
  <1>2. /\ stack # <<>> /\ stack \in Seq(FrameType)
        /\ Top \in FrameType /\ Policy \in PolicyType
        /\ Top = stack[1] /\ Len(stack) \in Nat \ {0}
        /\ DOMAIN stack = 1..Len(stack)
    BY <1>1, OpenStack, StackTop DEF EvalKnown
  <1>3. /\ Policy = Top.policy /\ Top.domain \in Domains
        /\ Top.idx \in Nat \ {0} /\ Domain = Top.domain
    BY <1>2 DEF Policy, FrameType, Domains, Domain
  <1>4. Term = TermAt(Policy, Top.idx) /\ Term \in RefTermType
    BY <1>2, <1>3, TermIsAt, TermAtTyped
  <1>5. ~void_exempt
    BY <1>1 DEF EvalKnown, VerdictInv, Exempts
  <1>. QED
    BY <1>1, <1>2, <1>3, <1>4, <1>5 DEF Stands, OnPath

\* What the term looks up can be needed.
LEMMA TermNeeds ==
  ASSUME Stands, pc \in DnsPc, NEW k \in Key, Needs(Top.domain, Term, k)
  PROVE  k \in Needed(Root)
  <1>1. /\ Top.domain \in Name /\ HasPolicy(Top.domain, Policy) /\ Asking(Term)
    BY DEF Stands, OnTerm
  <1>2. <<Top.domain, "TXT">> \in Needed(Root)
    BY <1>1 DEF Stands, OnCalls
  <1>3. /\ Policy \in PolicyType /\ Top.idx \in Nat \ {0}
        /\ Term = TermAt(Policy, Top.idx)
    BY DEF Stands
  <1>4. Closed(Needed(Root))
    BY NeededIs
  <1>. QED
    BY <1>1, <1>2, <1>3, <1>4 DEF Closed

LEMMA CallsKept ==
  ASSUME Stands, stack' \in Seq(FrameType), Len(stack') = Len(stack),
         \A i \in 1..Len(stack) : /\ stack'[i].domain = stack[i].domain
                                  /\ i # 1 => stack'[i].policy = stack[i].policy
  PROVE  OnCalls'
  <1>1. Root' = Root
    BY DEF Root, Stands
  <1>2. ASSUME NEW i \in 1..Len(stack), stack'[i].domain \in Name
        PROVE  <<stack'[i].domain, "TXT">> \in Needed(Root)
    BY <1>2 DEF OnCalls, Stands
  <1>3. ASSUME NEW i \in 2..Len(stack)
        PROVE  stack'[i].domain \in Name
               /\ HasPolicy(stack'[i].domain, stack'[i].policy)
    <2>1. i \in 1..Len(stack) /\ i # 1
      BY DEF Stands
    <2>. QED
      BY <2>1 DEF OnCalls, Stands
  <1>. QED
    BY <1>1, <1>2, <1>3 DEF OnCalls

LEMMA NoMatchPath ==
  ASSUME Stands, NoMatch, pc \in DnsPc \cup {"term"}
  PROVE  OnPath'
  <1>0. stack' = [stack EXCEPT ![1].idx = @ + 1] /\ pc' = "term"
    BY DEF NoMatch
  <1>1. /\ stack' \in Seq(FrameType) /\ Len(stack') = Len(stack)
        /\ \A i \in 1..Len(stack) : /\ stack'[i].domain = stack[i].domain
                                    /\ stack'[i].policy = stack[i].policy
    <2>0. stack \in Seq(FrameType) /\ stack # <<>> /\ NoPolicy \in PolicyType
      BY NoPolicyTyped DEF Stands
    <2>1. stack' \in Seq(FrameType) /\ Len(stack') = Len(stack)
      BY <1>0, <2>0, FramesUpdate
    <2>2. ASSUME NEW i \in 1..Len(stack)
          PROVE  /\ stack'[i].domain = stack[i].domain
                 /\ stack'[i].policy = stack[i].policy
      <3>1. CASE i = 1
        <4>1. stack[1] \in FrameType /\ stack'[1] = [stack[1] EXCEPT !.idx = @ + 1]
          BY <1>0, <2>0, <3>1
        <4>. QED
          BY <3>1, <4>1 DEF FrameType
      <3>2. CASE i # 1
        BY <1>0, <2>0, <3>2
      <3>. QED
        BY <3>1, <3>2
    <2>. QED
      BY <2>1, <2>2
  <1>2. OnCalls'
    BY <1>1, CallsKept
  <1>3. Top' = stack'[1]
    BY <1>1 DEF Top, Stands
  <1>4. Top'.domain = Top.domain /\ Policy' = Policy
    BY <1>1, <1>3 DEF Policy, Stands
  <1>5. Top.domain \in Name /\ HasPolicy(Top.domain, Policy)
    BY DEF Stands, OnTerm
  <1>6. OnTerm'
    BY <1>0, <1>4, <1>5 DEF OnTerm, DnsPc, WalkPc
  <1>. QED
    BY <1>2, <1>6 DEF OnPath

LEMMA StackKept ==
  ASSUME Stands, stack' = stack
  PROVE  /\ OnCalls' /\ Top' = Top /\ Policy' = Policy /\ Term' = Term
         /\ Root' = Root /\ Past' = Past
  BY DEF Stands, OnCalls, Root, Top, Policy, Term, Past

LEMMA ReturnPath ==
  ASSUME Stands, NEW v, NEW e, Return(v, e)
  PROVE  OnPath'
  <1>1. OnCalls' /\ pc' = "return"
    BY StackKept DEF Return, frameVars
  <1>2. OnTerm'
    BY <1>1 DEF OnTerm, DnsPc, WalkPc
  <1>. QED
    BY <1>1, <1>2 DEF OnPath

LEMMA ClosedPath ==
  ASSUME result' # "pending"
  PROVE  OnPath'
  BY DEF OnPath

\* Nothing of it changes but where the code is.
LEMMA MovePath ==
  ASSUME Stands, UNCHANGED <<target, names, found, work, stack>>, OnTerm'
  PROVE  OnPath'
  BY StackKept DEF OnPath

-----------------------------------------------------------------------------
(***************************************************************************)
(* Every step of an open verdict.                                          *)
(***************************************************************************)
LEMMA SamePath ==
  ASSUME OnPath, UNCHANGED evalVars
  PROVE  OnPath'
  <1>1. /\ Top' = Top /\ Policy' = Policy /\ Term' = Term /\ Root' = Root
        /\ Past' = Past /\ Domain' = Domain
    BY DEF evalVars, Top, Policy, Term, Past, Root, Domain
  <1>2. OnCalls' <=> OnCalls
    BY <1>1 DEF OnCalls, evalVars
  <1>3. OnWalk' <=> OnWalk
    BY <1>1 DEF OnWalk, AtMacro, evalVars
  <1>4. OnTerm' <=> OnTerm
    BY <1>1, <1>3 DEF OnTerm, evalVars, Walking, OutsideTarget
  <1>. QED
    BY <1>2, <1>4 DEF OnPath, evalVars

LEMMA RaisePath ==
  ASSUME NEW e, Raise(e), e \in {"permerror", "temperror"}
  PROVE  OnPath'
  BY ClosedPath DEF Raise

LEMMA EnterPath ==
  ASSUME Predictable, Stands,
         EnterLate \/ EnterMalformed \/ EnterOverride \/ EnterQuery
  PROVE  OnPath'
  <1>1. CASE EnterLate
    BY <1>1, SamePath DEF EnterLate, Stands, OnPath
  <1>2. CASE EnterMalformed
    BY <1>2, ReturnPath DEF EnterMalformed
  <1>3. ~EnterOverride
    BY DEF EnterOverride, TakesOverride, Predictable
  <1>4. CASE EnterQuery
    <2>1. pc' = "policy" /\ UNCHANGED <<walkVars, frameVars>>
      BY <1>4 DEF EnterQuery, Ask
    <2>2. OnTerm'
      BY <2>1 DEF OnTerm, DnsPc, WalkPc
    <2>. QED
      BY <2>1, <2>2, StackKept DEF OnPath, frameVars
  <1>. QED
    BY <1>1, <1>2, <1>3, <1>4

\* The policy that was found is the one the zone has.
LEMMA FetchPath ==
  ASSUME Predictable, EvalKnown, Heard, Await, Stands, FetchPolicy
  PROVE  OnPath'
  <1>0. pc = "policy" /\ status = "ready" /\ EvalInv
    BY DEF FetchPolicy, EvalKnown
  <1>1. CASE reply = DnsFailure /\ Raise("temperror")
    BY <1>1, RaisePath
  <1>2. CASE Return("none", NoArg)
    BY <1>2, ReturnPath
  <1>3. CASE Raise("permerror")
    BY <1>3, RaisePath
  <1>4. ASSUME NEW i \in SpfAt, SpfAt = {i}, Parse(reply.answers[i])
        PROVE  OnPath'
    <2> PICK d : d = Top.domain
      OBVIOUS
    <2> PICK s : s = Records(Oracle, <<d, "TXT">>)
      OBVIOUS
    <2>1. AskedKey = <<d, "TXT">>
      BY <1>0 DEF AskedKey
    <2>2. reply.answers = s /\ <<d, "TXT">> \in Key
      BY <1>0, <2>1, KnownIs DEF AwaitPc
    <2>3. d \in Name
      BY <2>2, EvaluatorAssumption
    <2>4. i \in DOMAIN s /\ {j \in DOMAIN s : PolicyOf[s[j]] # NotSpf} = {i}
      BY <1>4, <2>2 DEF SpfAt
    <2>5. s[i] \in Text
      <3>1. s \in Seq(Text)
        BY <2>3, OracleZone, RecordsTyped
      <3>. QED
        BY <2>4, <3>1
    <2>6. CASE PolicyOf[s[i]] \in {NotSpf, BadSyntax}
      BY <1>4, <2>2, <2>6, RaisePath DEF Parse
    <2>7. CASE PolicyOf[s[i]] \notin {NotSpf, BadSyntax}
      <3> PICK p : p = PolicyOf[s[i]]
        OBVIOUS
      <3>1. p \in PolicyType
        BY <2>5, <2>7, EvaluatorAssumption
      <3>2. HasPolicy(d, p)
        BY <2>4, <3>1 DEF HasPolicy
      <3>3. stack' = [stack EXCEPT ![1].policy = p] /\ pc' = "term"
        BY <1>4, <2>2, <2>7 DEF Parse
      <3>4. /\ stack' \in Seq(FrameType) /\ Len(stack') = Len(stack)
            /\ \A x \in 1..Len(stack) :
                 /\ stack'[x].domain = stack[x].domain
                 /\ x # 1 => stack'[x].policy = stack[x].policy
            /\ stack'[1].policy = p
        <4>0. stack \in Seq(FrameType) /\ stack # <<>>
          BY DEF Stands
        <4>1. stack' \in Seq(FrameType) /\ Len(stack') = Len(stack)
          BY <3>1, <3>3, <4>0, FramesUpdate
        <4>2. stack[1] \in FrameType /\ stack'[1] = [stack[1] EXCEPT !.policy = p]
          BY <3>3, <4>0
        <4>3. \A x \in 1..Len(stack) : x # 1 => stack'[x] = stack[x]
          BY <3>3, <4>0
        <4>4. stack'[1].domain = stack[1].domain /\ stack'[1].policy = p
          BY <4>2 DEF FrameType
        <4>. QED
          BY <4>1, <4>3, <4>4
      <3>5. OnCalls'
        BY <3>4, CallsKept
      <3>6. Top' = stack'[1]
        BY <3>4 DEF Top, Stands
      <3>7. Top'.domain = d /\ Policy' = p
        BY <3>4, <3>6 DEF Policy, Stands
      <3>8. OnTerm'
        BY <2>3, <3>2, <3>3, <3>7 DEF OnTerm, DnsPc, WalkPc
      <3>. QED
        BY <3>5, <3>8 DEF OnPath
    <2>. QED
      BY <2>6, <2>7
  <1>. QED
    BY <1>1, <1>2, <1>3, <1>4 DEF FetchPolicy

LEMMA OnPolicy ==
  ASSUME Stands, pc \in DnsPc \cup {"term", "match"}
  PROVE  Top.domain \in Name /\ HasPolicy(Top.domain, Policy)
  BY DEF Stands, OnTerm

LEMMA LocalPath ==
  ASSUME Stands, TermLate \/ LocalTerm \/ Default
  PROVE  OnPath'
  <1>1. CASE TermLate
    BY <1>1, SamePath DEF TermLate, Stands, OnPath
  <1>2. CASE LocalTerm
    BY <1>2, ReturnPath, NoMatchPath DEF LocalTerm, Match
  <1>3. CASE Default
    BY <1>3, ReturnPath DEF Default
  <1>. QED
    BY <1>1, <1>2, <1>3

LEMMA DnsTermPath ==
  ASSUME Stands, DnsTerm
  PROVE  OnPath'
  <1>0. /\ pc = "term" /\ pc' = "target"
        /\ UNCHANGED <<walkVars, exitVars, frameVars>>
        /\ IF Past THEN Policy.redirect # NoArg ELSE Term.name \in DnsMechanism
    BY DEF DnsTerm
  <1>1. /\ OnCalls' /\ Top' = Top /\ Policy' = Policy /\ Term' = Term
    BY <1>0, StackKept DEF frameVars
  <1>2. Top.domain \in Name /\ HasPolicy(Top.domain, Policy)
    BY <1>0, OnPolicy
  <1>3. Asking(Term)
    <2>1. CASE Past
      BY <1>0, <2>1 DEF Asking, Spends, Term
    <2>2. CASE ~Past
      BY <1>0, <2>2 DEF Asking, Spends, DnsMechanism
    <2>. QED
      BY <2>1, <2>2
  <1>4. OnTerm'
    BY <1>0, <1>1, <1>2, <1>3 DEF OnTerm, DnsPc, WalkPc
  <1>. QED
    BY <1>1, <1>4 DEF OnPath

\* A step within the term.
LEMMA WithinTerm ==
  ASSUME Stands, pc \in DnsPc, stack' = stack, pc' \in DnsPc,
         /\ pc' \in {"apply", "answer", "exchanges"}
              \/ (pc' \in WalkPc /\ work' # "pmacro") =>
                target' = RefArg(Oracle, Term.arg, Top.domain)
         /\ pc' = "exchanges" => Term.name = "mx" /\ target' \in Name
         /\ pc' \in WalkPc => Walking'
         /\ pc' \in {"each", "host"} => OnWalk'
         /\ pc' = "host" => ~OutsideTarget'
  PROVE  OnPath'
  <1>1. /\ OnCalls' /\ Top' = Top /\ Policy' = Policy /\ Term' = Term
    BY StackKept
  <1>2. /\ Top.domain \in Name /\ HasPolicy(Top.domain, Policy) /\ Asking(Term)
    BY DEF Stands, OnTerm
  <1>3. OnTerm'
    BY <1>1, <1>2 DEF OnTerm
  <1>. QED
    BY <1>1, <1>3 DEF OnPath

LEMMA TargetPath ==
  ASSUME Stands, Target \/ TargetMacro
  PROVE  OnPath'
  <1>0. pc = "target" /\ pc \in DnsPc
    BY DEF Target, TargetMacro, DnsPc
  <1>1. CASE Target
    <2>1. pc' = "apply" /\ stack' = stack /\ target' = TargetName
          /\ Term.arg # PMacro
      BY <1>1 DEF Target, frameVars
    <2>2. target' = RefArg(Oracle, Term.arg, Top.domain)
      BY <2>1 DEF TargetName, RefArg, Implicit, PMacro
    <2>. QED
      BY <1>0, <2>1, <2>2, WithinTerm DEF DnsPc, WalkPc
  <1>2. CASE TargetMacro
    <2>1. /\ pc' = "names" /\ stack' = stack /\ work' = "pmacro"
          /\ Term.arg = PMacro
      BY <1>2 DEF TargetMacro, Expand, frameVars
    <2>2. Term' = Term
      BY <2>1, StackKept
    <2>3. Walking'
      BY <2>1, <2>2 DEF Walking
    <2>. QED
      BY <1>0, <2>1, <2>3, WithinTerm DEF DnsPc, WalkPc
  <1>. QED
    BY <1>1, <1>2

LEMMA AskTargetPath ==
  ASSUME Stands, AskTarget \/ AskPtr
  PROVE  OnPath'
  <1>0. /\ pc = "apply" /\ pc \in DnsPc
        /\ target = RefArg(Oracle, Term.arg, Top.domain)
    BY DEF AskTarget, AskPtr, DnsPc, Stands, OnTerm
  <1>1. CASE AskTarget /\ target \notin Name
    BY <1>0, <1>1, NoMatchPath DEF AskTarget
  <1>2. CASE AskTarget /\ target \in Name
    <2>1. /\ pc' \in {"answer", "exchanges"} /\ stack' = stack /\ target' = target
          /\ pc' = "exchanges" => Term.name = "mx"
      BY <1>2 DEF AskTarget, Ask, frameVars, walkVars
    <2>. QED
      BY <1>0, <1>2, <2>1, WithinTerm DEF DnsPc, WalkPc
  <1>3. CASE AskPtr
    <2>1. /\ pc' = "names" /\ stack' = stack /\ work' = "ptr" /\ target' = target
          /\ Term.name = "ptr"
      BY <1>3 DEF AskPtr, frameVars
    <2>2. Term' = Term
      BY <2>1, StackKept
    <2>3. Walking'
      BY <2>1, <2>2 DEF Walking
    <2>. QED
      BY <1>0, <2>1, <2>3, WithinTerm DEF DnsPc, WalkPc
  <1>. QED
    BY <1>1, <1>2, <1>3

\* A nested call asks for what the term needs.
LEMMA RecursePath ==
  ASSUME EvalKnown, Stands, Recurse
  PROVE  OnPath'
  <1> DEFINE f == Frame(target, Term.name, Term.name = "redirect" /\ Top.use_exp)
  <1>0. /\ pc = "apply" /\ pc \in DnsPc /\ pc' = "enter"
        /\ Term.name \in {"include", "redirect"}
        /\ target = RefArg(Oracle, Term.arg, Top.domain)
        /\ stack' = <<f>> \o stack
    BY DEF Recurse, DnsPc, Stands, OnTerm
  <1>1. f.domain = target
    BY DEF Frame
  <1> HIDE DEF f
  <1>2. /\ stack \in Seq(FrameType) /\ Len(stack) \in Nat \ {0}
        /\ Len(stack') = Len(stack) + 1 /\ stack'[1] = f
        /\ \A i \in 2..(Len(stack) + 1) : stack'[i] = stack[i - 1]
    BY <1>0 DEF Stands
  <1>3. Root' = Root
    <2>1. Len(stack) + 1 \in 2..(Len(stack) + 1)
      BY <1>2
    <2>. QED
      BY <1>2, <2>1 DEF Root
  <1>4. target \in Name => <<target, "TXT">> \in Needed(Root)
    <2> SUFFICES ASSUME target \in Name
                 PROVE  <<target, "TXT">> \in Needed(Root)
      OBVIOUS
    <2>1. KeyOf([name |-> Term.name, arg |-> target]) = <<target, "TXT">>
      BY <1>0 DEF KeyOf, IsPolicy
    <2>2. Needs(Top.domain, Term, <<target, "TXT">>)
      BY <1>0, <2>1 DEF Needs, Owes
    <2>. QED
      BY <1>0, <2>2, KeyTypes, TermNeeds
  <1>5. \A i \in 1..Len(stack') :
          stack'[i].domain \in Name =>
            <<stack'[i].domain, "TXT">> \in Needed(Root)
    <2> TAKE i \in 1..Len(stack')
    <2>1. CASE i = 1
      BY <1>1, <1>2, <1>4, <2>1
    <2>2. CASE i # 1
      <3>1. i \in 2..(Len(stack) + 1) /\ i - 1 \in 1..Len(stack)
        BY <1>2, <2>2
      <3>. QED
        BY <1>2, <3>1 DEF Stands, OnCalls
    <2>. QED
      BY <2>1, <2>2
  <1>6. \A i \in 2..Len(stack') :
          stack'[i].domain \in Name
            /\ HasPolicy(stack'[i].domain, stack'[i].policy)
    <2> TAKE i \in 2..Len(stack')
    <2>1. i \in 2..(Len(stack) + 1) /\ stack'[i] = stack[i - 1]
      BY <1>2
    <2>2. CASE i = 2
      <3>1. stack'[i] = Top
        BY <2>1, <2>2 DEF Stands
      <3>. QED
        BY <1>0, <3>1, OnPolicy DEF Stands
    <2>3. CASE i # 2
      <3>1. i - 1 \in 2..Len(stack)
        BY <1>2, <2>1, <2>3
      <3>. QED
        BY <2>1, <3>1 DEF Stands, OnCalls
    <2>. QED
      BY <2>2, <2>3
  <1>7. OnCalls'
    BY <1>3, <1>5, <1>6 DEF OnCalls
  <1>8. OnTerm'
    BY <1>0 DEF OnTerm, DnsPc, WalkPc
  <1>. QED
    BY <1>7, <1>8 DEF OnPath

LEMMA AnsweredPath ==
  ASSUME Stands, Answered
  PROVE  OnPath'
  <1>0. pc \in DnsPc
    BY DEF Answered, DnsPc
  <1>1. CASE Raise("temperror")
    BY <1>1, RaisePath
  <1>2. CASE Match
    BY <1>2, ReturnPath DEF Match
  <1>3. CASE NoMatch
    BY <1>0, <1>3, NoMatchPath
  <1>. QED
    BY <1>1, <1>2, <1>3 DEF Answered

\* The names that are walked.
LEMMA HostsTyped ==
  ASSUME NEW name, NEW n, name = "ptr" \/ n \in Name
  PROVE  HostsOf(name, n) \in Seq(Name) /\ Len(HostsOf(name, n)) \in Nat
  <1>1. PtrHosts(Oracle) \in Seq(Name)
    BY OracleZone, PtrHostsTyped
  <1>2. name # "ptr" => Records(Oracle, <<n, "MX">>) \in Seq(Name)
    BY OracleZone, RecordsTyped
  <1>. QED
    BY <1>1, <1>2, EmptyIsSeq DEF HostsOf

LEMMA ExchangesPath ==
  ASSUME Predictable, EvalKnown, Heard, Await, Stands, Exchanges
  PROVE  OnPath'
  <1>0. /\ pc = "exchanges" /\ pc \in DnsPc /\ pc \in AwaitPc /\ status = "ready"
        /\ EvalInv
    BY DEF Exchanges, DnsPc, AwaitPc, EvalKnown
  <1>1. CASE Raise("temperror")
    BY <1>1, RaisePath
  <1>2. CASE Raise("permerror")
    BY <1>2, RaisePath
  <1>3. CASE /\ ~(Len(reply.answers) > MaxMx)
             /\ names' = reply.answers /\ work' = "mx" /\ pc' = "each"
             /\ target' = target /\ UNCHANGED frameVars
    <2>1. /\ target = RefArg(Oracle, Term.arg, Top.domain)
          /\ Term.name = "mx" /\ target \in Name
      BY <1>0 DEF Stands, OnTerm
    <2>2. reply.answers = Records(Oracle, <<target, "MX">>)
      BY <1>0, KnownIs DEF AskedKey
    <2>3. names' = HostsOf("mx", target)
      BY <1>3, <2>2 DEF HostsOf
    <2>4. HostsOf("mx", target) \in Seq(Name) /\ Len(HostsOf("mx", target)) \in Nat
      BY <2>1, HostsTyped
    <2>5. names' = Left(HostsOf("mx", target), 0)
          /\ 0 \in 0..Len(HostsOf("mx", target))
      BY <2>3, <2>4, LeftIs
    <2>6. OnWalk'
      BY <1>3, <2>5 DEF OnWalk
    <2>7. stack' = stack /\ Term' = Term
      BY <1>3, StackKept DEF frameVars
    <2>8. Walking'
      BY <1>3, <2>1, <2>7 DEF Walking
    <2>. QED
      BY <1>0, <1>3, <2>1, <2>6, <2>7, <2>8, WithinTerm DEF DnsPc
  <1>. QED
    BY <1>1, <1>2, <1>3 DEF Exchanges

LEMMA PtrNamesPath ==
  ASSUME Predictable, EvalKnown, Heard, Await, Stands, PtrNames
  PROVE  OnPath'
  <1>0. /\ pc = "names" /\ pc \in DnsPc /\ pc \in AwaitPc /\ status = "ready"
        /\ pc \in WalkPc /\ pc' = "each" /\ found' = Malformed
        /\ names' = First(MaxPtr, reply.answers)
        /\ target' = target /\ work' = work /\ stack' = stack
    BY DEF PtrNames, DnsPc, AwaitPc, WalkPc, frameVars
  <1>1. /\ Walking /\ EvalInv
        /\ work # "pmacro" => target = RefArg(Oracle, Term.arg, Top.domain)
    BY <1>0 DEF Stands, OnTerm, EvalKnown
  <1>2. work \in {"ptr", "pmacro"}
    BY <1>0, <1>1 DEF Walking, EvalInv, EvalTypeOK
  <1>3. names' = PtrHosts(Oracle)
    BY <1>0, <1>1, KnownIs DEF AskedKey, PtrHosts
  <1>4. Term' = Term /\ Top' = Top
    BY <1>0, StackKept
  <1>5. Walking'
    BY <1>0, <1>1, <1>2, <1>4 DEF Walking
  <1>6. OnWalk'
    <2>1. CASE work = "ptr"
      <3>1. HostsOf("ptr", target) = PtrHosts(Oracle)
        BY DEF HostsOf
      <3>2. PtrHosts(Oracle) \in Seq(Name) /\ Len(PtrHosts(Oracle)) \in Nat
        BY OracleZone, PtrHostsTyped
      <3>3. names' = Left(PtrHosts(Oracle), 0) /\ 0 \in 0..Len(PtrHosts(Oracle))
        BY <1>3, <3>2, LeftIs
      <3>. QED
        BY <1>0, <2>1, <3>1, <3>3 DEF OnWalk
    <2>2. CASE work = "pmacro"
      <3>1. Domain' = Domain /\ Domain \in Domains
        BY <1>0, <1>4 DEF Domain, Stands
      <3>2. PtrKey \in Key
        BY KeyTypes, EvaluatorAssumption
      <3>3. AtMacro(Oracle, Key)'
        BY <1>0, <1>3, <3>1, <3>2, OracleZone, MacroBegins
      <3>. QED
        BY <1>0, <2>2, <3>3 DEF OnWalk
    <2>. QED
      BY <1>2, <2>1, <2>2
  <1>. QED
    BY <1>0, <1>1, <1>5, <1>6, WithinTerm DEF DnsPc

\* What is known in the walk of a term.
LEMMA WalkKnown ==
  ASSUME EvalKnown, Stands, pc \in {"each", "host"}
  PROVE  /\ pc \in DnsPc /\ Walking /\ OnWalk
         /\ work \in {"mx", "ptr", "pmacro"}
         /\ work # "pmacro" => /\ target = RefArg(Oracle, Term.arg, Top.domain)
                               /\ HostsOf(work, target) \in Seq(Name)
         /\ work = "mx" => Term.name = "mx" /\ target \in Name
         /\ work = "ptr" => Term.name = "ptr"
         /\ work = "pmacro" => Term.arg = PMacro /\ AtMacro(Oracle, Key)
         /\ pc = "host" => names # <<>>
  <1>1. Walking /\ OnWalk
        /\ (work # "pmacro" => target = RefArg(Oracle, Term.arg, Top.domain))
    BY DEF Stands, OnTerm, WalkPc
  <1>2. work \in {"mx", "ptr", "pmacro"} /\ (pc = "host" => names # <<>>)
    BY DEF EvalKnown, EvalInv, EvalTypeOK, Place
  <1>3. /\ work = "mx" => Term.name = "mx" /\ target \in Name
        /\ work = "ptr" => Term.name = "ptr"
        /\ work = "pmacro" => Term.arg = PMacro /\ AtMacro(Oracle, Key)
    BY <1>1 DEF Walking, OnWalk
  <1>4. work # "pmacro" => HostsOf(work, target) \in Seq(Name)
    BY <1>2, <1>3, HostsTyped
  <1>. QED
    BY <1>1, <1>2, <1>3, <1>4 DEF DnsPc

LEMMA NextHostPath ==
  ASSUME EvalKnown, Stands, pc \in {"each", "host"}, names # <<>>, NextHost,
         work = "pmacro" => AtMacro(Oracle, Key)'
  PROVE  OnPath'
  <1>0. /\ pc' = "each" /\ names' = Tail(names) /\ target' = target
        /\ work' = work /\ stack' = stack
    BY DEF NextHost, frameVars
  <1>1. Term' = Term /\ Top' = Top
    BY <1>0, StackKept
  <1>2. Walking'
    BY <1>0, <1>1, WalkKnown DEF Walking
  <1>3. OnWalk'
    <2>1. CASE work = "pmacro"
      BY <1>0, <2>1 DEF OnWalk
    <2>2. CASE work # "pmacro"
      <3> PICK s : s = HostsOf(work, target)
        OBVIOUS
      <3>1. s \in Seq(Name) /\ Len(s) \in Nat
        BY <2>2, WalkKnown
      <3>2. PICK j \in 0..Len(s) : names = Left(s, j)
        BY <2>2, WalkKnown DEF OnWalk
      <3>3. names' = Left(s, j + 1) /\ j + 1 \in 0..Len(s)
        BY <1>0, <3>1, <3>2, LeftIs
      <3>. QED
        BY <1>0, <2>2, <3>3 DEF OnWalk
    <2>. QED
      BY <2>1, <2>2
  <1>. QED
    BY <1>0, <1>2, <1>3, WalkKnown, WithinTerm DEF DnsPc

LEMMA AskHostPath ==
  ASSUME EvalKnown, Stands, AskHost
  PROVE  OnPath'
  <1>0. /\ pc = "each" /\ pc' = "host" /\ UNCHANGED <<walkVars, frameVars>>
        /\ ~OutsideTarget
    BY DEF AskHost, Ask
  <1>1. /\ stack' = stack /\ names' = names /\ target' = target /\ work' = work
        /\ found' = found
    BY <1>0 DEF walkVars, frameVars
  <1>2. Term' = Term /\ Top' = Top /\ Domain' = Domain
    BY <1>1, StackKept DEF Stands, Domain
  <1>3. Walking' /\ ~OutsideTarget'
    BY <1>0, <1>1, <1>2, WalkKnown DEF Walking, OutsideTarget
  <1>4. OnWalk'
    BY <1>0, <1>1, <1>2, WalkKnown DEF OnWalk, AtMacro
  <1>. QED
    BY <1>0, <1>1, <1>3, <1>4, WalkKnown, WithinTerm DEF DnsPc

LEMMA HostAnsweredPath ==
  ASSUME Predictable, EvalKnown, Heard, Await, Stands, HostAnswered
  PROVE  OnPath'
  <1> DEFINE self == \E i \in DOMAIN reply.answers : reply.answers[i] = "self"
  <1>0. pc = "host" /\ pc \in AwaitPc /\ status = "ready" /\ EvalInv
    BY DEF HostAnswered, AwaitPc, EvalKnown
  <1>1. /\ pc \in DnsPc /\ names # <<>> /\ work \in {"mx", "ptr", "pmacro"}
        /\ work = "pmacro" => AtMacro(Oracle, Key)
    BY <1>0, WalkKnown
  <1>2. self <=> In(Oracle, Head(names), {"self"})
    <2>1. reply.answers = Records(Oracle, HostKey(Head(names)))
      BY <1>0, KnownIs DEF AskedKey
    <2>. QED
      BY <2>1 DEF In
  <1>. HIDE DEF self
  <1>3. CASE Raise("temperror")
    BY <1>3, RaisePath
  <1>4. CASE Match
    BY <1>4, ReturnPath DEF Match
  <1>5. CASE NextHost /\ (IF work = "pmacro" /\ self /\ Better(Head(names))
                          THEN found' = Head(names) ELSE found' = found)
    <2>1. ASSUME work = "pmacro"
          PROVE  AtMacro(Oracle, Key)'
      <3>1. names' = Tail(names) /\ stack' = stack
        BY <1>5 DEF NextHost, frameVars
      <3>2. Domain' = Domain /\ Domain \in Domains
        BY <3>1, StackKept DEF Domain, Stands
      <3>3. HostKey(Head(names)) \in Key
        BY <1>1, <2>1, OracleZone, MacroHost, ArgKeysTyped
      <3>. QED
        BY <1>1, <1>2, <1>5, <2>1, <3>1, <3>2, <3>3, OracleZone, MacroNext
    <2>. QED
      BY <1>0, <1>1, <1>5, <2>1, NextHostPath
  <1>6. \/ Raise("temperror") \/ Match
        \/ NextHost /\ (IF work = "pmacro" /\ self /\ Better(Head(names))
                        THEN found' = Head(names) ELSE found' = found)
    BY DEF HostAnswered, self
  <1>. QED
    BY <1>3, <1>4, <1>5, <1>6

LEMMA WalkPath ==
  ASSUME EvalKnown, Stands, SkipHost \/ NamesSpent \/ MacroDone
  PROVE  OnPath'
  <1>1. CASE SkipHost
    <2>1. work = "ptr" /\ names # <<>> /\ NextHost /\ pc = "each"
      BY <1>1 DEF SkipHost, OutsideTarget
    <2>. QED
      BY <2>1, NextHostPath
  <1>2. CASE NamesSpent
    BY <1>2, NoMatchPath DEF NamesSpent, DnsPc
  <1>3. CASE MacroDone
    <2>1. /\ pc = "each" /\ work = "pmacro" /\ names = <<>>
          /\ pc' = resume /\ target' = found /\ stack' = stack
      BY <1>3 DEF MacroDone, frameVars
    <2>2. resume = "apply"
      BY <2>1 DEF Stands, Nested, MainPc, WalkPc
    <2>3. Term.arg = PMacro /\ AtMacro(Oracle, Key)
      BY <2>1, WalkKnown
    <2>4. found = RefP(Oracle, Domain)
      BY <2>1, <2>3, OracleZone, MacroEnds
    <2>5. target' = RefArg(Oracle, Term.arg, Top.domain)
      BY <2>1, <2>3, <2>4 DEF RefArg, PMacro, Implicit, Stands
    <2>. QED
      BY <2>1, <2>2, <2>5, WalkKnown, WithinTerm DEF DnsPc, WalkPc
  <1>. QED
    BY <1>1, <1>2, <1>3

\* Back in the caller, which is as it was but for its next term.
LEMMA PopPath ==
  ASSUME Stands, EvalInv, Top.via # "top", pc' \in {"return", "match", "term"},
         \/ stack' = Tail(stack)
         \/ stack' = [Tail(stack) EXCEPT ![1].idx = @ + 1]
  PROVE  OnPath'
  <1>0. PICK q : q = Tail(stack)
    OBVIOUS
  <1>1. q \in Seq(FrameType) /\ q # <<>>
    BY <1>0, TailFrames DEF Stands, EvalInv
  <1>2. /\ Len(q) = Len(stack) - 1 /\ Len(q) \in Nat \ {0}
        /\ \A i \in 1..Len(q) : q[i] = stack[i + 1]
    BY <1>0, <1>1 DEF Stands
  <1>3. /\ Len(stack') = Len(q)
        /\ \A i \in 1..Len(q) : /\ stack'[i].domain = q[i].domain
                                /\ stack'[i].policy = q[i].policy
    <2>1. CASE stack' = q
      BY <2>1
    <2>2. CASE stack' = [q EXCEPT ![1].idx = @ + 1]
      <3>1. Len(stack') = Len(q)
        BY <1>1, <2>2, NoPolicyTyped, FramesUpdate
      <3>2. q[1] \in FrameType /\ stack'[1] = [q[1] EXCEPT !.idx = @ + 1]
        <4>1. q \in Seq(FrameType) /\ Len(q) \in Nat \ {0}
          BY <1>1, <1>2
        <4>2. 1 \in DOMAIN q
          BY <4>1
        <4>. QED
          BY <2>2, <4>1, <4>2
      <3>3. \A i \in 1..Len(q) : i # 1 => stack'[i] = q[i]
        BY <1>1, <2>2
      <3>4. stack'[1].domain = q[1].domain /\ stack'[1].policy = q[1].policy
        BY <3>2 DEF FrameType
      <3>. QED
        BY <3>1, <3>3, <3>4
    <2>. QED
      BY <1>0, <2>1, <2>2
  <1>4. \A i \in 1..(Len(stack) - 1) :
          /\ stack'[i].domain = stack[i + 1].domain
          /\ stack'[i].policy = stack[i + 1].policy
    BY <1>2, <1>3
  <1>5. Len(stack') = Len(stack) - 1 /\ Len(stack) \in Nat /\ Len(stack) > 1
    BY <1>2, <1>3 DEF Stands
  <1>6. Root' = Root
    BY <1>4, <1>5 DEF Root
  <1>7. OnCalls'
    <2>1. ASSUME NEW i \in 1..Len(stack')
          PROVE  stack'[i].domain \in Name => <<stack'[i].domain, "TXT">> \in Needed(Root)
      <3>1. i + 1 \in 1..Len(stack) /\ i \in 1..(Len(stack) - 1)
        BY <1>5
      <3>. QED
        BY <1>4, <3>1 DEF Stands, OnCalls
    <2>2. ASSUME NEW i \in 2..Len(stack')
          PROVE  /\ stack'[i].domain \in Name
                 /\ HasPolicy(stack'[i].domain, stack'[i].policy)
      <3>1. i + 1 \in 2..Len(stack) /\ i \in 1..(Len(stack) - 1)
        BY <1>5
      <3>. QED
        BY <1>4, <3>1 DEF Stands, OnCalls
    <2>. QED
      BY <1>6, <2>1, <2>2 DEF OnCalls
  <1>8. Top' = stack'[1]
    BY <1>5 DEF Top
  <1>9. Top'.domain \in Name /\ HasPolicy(Top'.domain, Policy')
    BY <1>4, <1>5, <1>8 DEF Stands, OnCalls, Policy
  <1>10. OnTerm'
    BY <1>9 DEF OnTerm, DnsPc, WalkPc
  <1>. QED
    BY <1>7, <1>10 DEF OnPath

LEMMA ReturnsPath ==
  ASSUME EvalKnown, Stands,
         ReturnInclude \/ IncludeMatch \/ ReturnRedirect \/ ReturnTop \/ Unwind
  PROVE  OnPath'
  <1>0. EvalInv
    BY DEF EvalKnown
  <1>1. CASE ReturnInclude
    <2>1. result' = "permerror" \/
          /\ Top.via # "top" /\ pc' \in {"return", "match", "term"}
          /\ \/ stack' = Tail(stack)
             \/ stack' = [Tail(stack) EXCEPT ![1].idx = @ + 1]
      BY <1>1 DEF ReturnInclude
    <2>. QED
      BY <1>0, <2>1, PopPath, ClosedPath
  <1>2. CASE IncludeMatch
    BY <1>2, ReturnPath DEF IncludeMatch, Match
  <1>3. CASE ReturnRedirect
    <2>1. \/ result' = "permerror"
          \/ Top.via # "top" /\ pc' = "return" /\ stack' = Tail(stack)
      BY <1>3 DEF ReturnRedirect
    <2>. QED
      BY <1>0, <2>1, PopPath, ClosedPath
  <1>4. CASE ReturnTop
    <2>1. ret # "pending"
      BY <1>0 DEF EvalInv, EvalTypeOK, Qualifier
    <2>. QED
      BY <1>4, <2>1, ClosedPath DEF ReturnTop
  <1>5. CASE Unwind
    BY <1>5, RaisePath DEF Unwind, Raised
  <1>. QED
    BY <1>1, <1>2, <1>3, <1>4, <1>5

LEMMA BeginPath ==
  ASSUME NEW d, Begin(d)
  PROVE  OnPath'
  <1>1. CASE d = BadIp
    BY <1>1, ClosedPath DEF Begin
  <1>2. CASE d # BadIp
    <2>1. stack' = <<Frame(d, "top", TRUE)>> /\ pc' = "enter"
      BY <1>2 DEF Begin
    <2>2. Len(stack') = 1 /\ stack'[1].domain = d
      BY <2>1 DEF Frame
    <2>3. Root' = d
      BY <2>2 DEF Root
    <2>4. OnCalls'
      BY <2>2, <2>3, NeededIs DEF OnCalls
    <2>5. OnTerm'
      BY <2>1 DEF OnTerm, DnsPc, WalkPc
    <2>. QED
      BY <2>4, <2>5 DEF OnPath
  <1>. QED
    BY <1>1, <1>2

\* A verdict that is known stays known.
LEMMA ClosedStays ==
  ASSUME EvalKnown, Step, result # "pending"
  PROVE  result' # "pending"
  <1>0. ret # "pending"
    BY DEF EvalKnown, EvalInv, EvalTypeOK, Qualifier
  <1>1. ASSUME NEW e, Raise(e), e # "pending" PROVE result' # "pending"
    BY <1>1 DEF Raise
  <1>2. ASSUME NEW v, NEW e, Return(v, e) PROVE result' # "pending"
    BY <1>2 DEF Return
  <1>3. NoMatch => result' # "pending"
    BY DEF NoMatch, exitVars
  <1>4. Match => result' # "pending"
    BY <1>2 DEF Match
  <1>5. NextHost => result' # "pending"
    BY DEF NextHost, exitVars
  <1>6. ASSUME NEW k, NEW n, Ask(k, n) PROVE result' # "pending"
    BY <1>6 DEF Ask, exitVars
  <1>7. ASSUME NEW n, Expand(n) PROVE result' # "pending"
    BY <1>7 DEF Expand, exitVars
  <1>8. ASSUME NEW t, ExpReturn(t) PROVE result' # "pending"
    BY <1>8 DEF ExpReturn
  <1>9. CASE \/ \E d \in Start : Begin(d)
             \/ EnterLate \/ EnterMalformed \/ EnterOverride \/ EnterQuery
    BY <1>2, <1>6, <1>9 DEF Begin, EnterLate, EnterMalformed, EnterOverride,
                            EnterQuery, evalVars
  <1>10. CASE FetchPolicy
    BY <1>1, <1>2, <1>10 DEF FetchPolicy, Parse, exitVars
  <1>11. CASE TermLate \/ LocalTerm \/ DnsTerm \/ Default
    BY <1>2, <1>3, <1>4, <1>11 DEF TermLate, LocalTerm, DnsTerm, Default,
                                   evalVars, exitVars
  <1>12. CASE Target \/ TargetMacro \/ AskTarget \/ AskPtr \/ Recurse
    BY <1>3, <1>6, <1>7, <1>12 DEF Target, TargetMacro, AskTarget, AskPtr,
                                   Recurse, exitVars
  <1>13. CASE Answered \/ Exchanges
    BY <1>1, <1>3, <1>4, <1>13 DEF Answered, Exchanges, exitVars
  <1>14. CASE PtrNames \/ SkipHost \/ AskHost \/ NamesSpent \/ MacroDone
    BY <1>3, <1>5, <1>6, <1>14 DEF PtrNames, SkipHost, AskHost, NamesSpent,
                                   MacroDone, exitVars
  <1>15. CASE HostAnswered
    BY <1>1, <1>4, <1>5, <1>15 DEF HostAnswered
  <1>16. CASE ReturnInclude \/ IncludeMatch \/ ReturnRedirect \/ ReturnTop
    BY <1>0, <1>4, <1>16 DEF ReturnInclude, IncludeMatch, ReturnRedirect,
                             ReturnTop
  <1>17. CASE Unwind
    BY <1>17 DEF Unwind
  <1>18. CASE ExpEnter \/ ExpTarget \/ ExpTargetMacro \/ ExpAsk \/ ExpReply
    BY <1>6, <1>7, <1>8, <1>18 DEF ExpEnter, ExpTarget, ExpTargetMacro, ExpAsk,
                                   ExpReply, exitVars
  <1>19. CASE ExpText \/ ExpTextMacro \/ ExpDone \/ ExpRaised \/ Finish
    BY <1>7, <1>8, <1>19 DEF ExpText, ExpTextMacro, ExpDone, ExpRaised, Finish
  <1>. QED
    BY <1>9, <1>10, <1>11, <1>12, <1>13, <1>14, <1>15, <1>16, <1>17, <1>18,
       <1>19 DEF Step

Learned == EvalKnown /\ Heard /\ Await

\* The steps of an open verdict.
LEMMA OpenSteps ==
  ASSUME Stands, Step, pc # "start"
  PROVE  \/ EnterLate \/ EnterMalformed \/ EnterOverride \/ EnterQuery
         \/ FetchPolicy
         \/ TermLate \/ LocalTerm \/ DnsTerm \/ Default
         \/ Target \/ TargetMacro
         \/ AskTarget \/ AskPtr \/ Recurse \/ Answered \/ Exchanges
         \/ PtrNames \/ SkipHost \/ AskHost \/ HostAnswered \/ NamesSpent
         \/ MacroDone
         \/ ReturnInclude \/ IncludeMatch \/ ReturnRedirect \/ ReturnTop
         \/ Unwind
  <1>1. pc \in MainPc /\ ~void_exempt
    BY DEF Stands, Nested, MainPc, WalkPc
  <1>2. pc \notin ExpPc \cup {"exp", "finish"}
    BY <1>1 DEF MainPc, ExpPc
  <1>3. ~ExpRaised
    BY <1>1 DEF ExpRaised
  <1>4. ~(\/ ExpEnter \/ ExpTarget \/ ExpTargetMacro \/ ExpAsk \/ ExpReply
          \/ ExpText \/ ExpTextMacro \/ ExpDone \/ Finish)
    BY <1>2 DEF ExpEnter, ExpTarget, ExpTargetMacro, ExpAsk, ExpReply, ExpText,
                ExpTextMacro, ExpDone, Finish, ExpPc
  <1>5. \A d : ~Begin(d)
    BY DEF Begin
  <1>. QED
    BY <1>3, <1>4, <1>5 DEF Step

LEMMA PathStep ==
  ASSUME Predictable, Learned, OnPath, [Next]_vars
  PROVE  OnPath'
  <1>0. EvalKnown /\ Heard /\ Await /\ EvalInv /\ VerdictInv
    BY DEF Learned, EvalKnown
  <1>1. CASE UNCHANGED evalVars
    BY <1>1, SamePath
  <1>2. CASE Step /\ result # "pending"
    BY <1>0, <1>2, ClosedStays, ClosedPath
  <1>3. CASE Step /\ pc = "start"
    <2>1. PICK d \in Start : Begin(d)
      BY <1>0, <1>3, StartBegins DEF Next
    <2>. QED
      BY <2>1, BeginPath
  <1>4. CASE Step /\ result = "pending" /\ pc # "start"
    <2>1. Stands
      BY <1>0, <1>4, PathStands
    <2>2. CASE EnterLate \/ EnterMalformed \/ EnterOverride \/ EnterQuery
      BY <2>1, <2>2, EnterPath
    <2>3. CASE FetchPolicy
      BY <1>0, <2>1, <2>3, FetchPath
    <2>4. CASE TermLate \/ LocalTerm \/ Default
      BY <2>1, <2>4, LocalPath
    <2>5. CASE DnsTerm
      BY <2>1, <2>5, DnsTermPath
    <2>6. CASE Target \/ TargetMacro
      BY <2>1, <2>6, TargetPath
    <2>7. CASE AskTarget \/ AskPtr
      BY <2>1, <2>7, AskTargetPath
    <2>8. CASE Recurse
      BY <1>0, <2>1, <2>8, RecursePath
    <2>9. CASE Answered
      BY <2>1, <2>9, AnsweredPath
    <2>10. CASE Exchanges
      BY <1>0, <2>1, <2>10, ExchangesPath
    <2>11. CASE PtrNames
      BY <1>0, <2>1, <2>11, PtrNamesPath
    <2>12. CASE AskHost
      BY <1>0, <2>1, <2>12, AskHostPath
    <2>13. CASE HostAnswered
      BY <1>0, <2>1, <2>13, HostAnsweredPath
    <2>14. CASE SkipHost \/ NamesSpent \/ MacroDone
      BY <1>0, <2>1, <2>14, WalkPath
    <2>15. CASE \/ ReturnInclude \/ IncludeMatch \/ ReturnRedirect \/ ReturnTop
                \/ Unwind
      BY <1>0, <2>1, <2>15, ReturnsPath
    <2>. QED
      BY <1>4, <2>1, <2>2, <2>3, <2>4, <2>5, <2>6, <2>7, <2>8, <2>9, <2>10,
         <2>11, <2>12, <2>13, <2>14, <2>15, OpenSteps
  <1>. QED
    BY <1>1, <1>2, <1>3, <1>4 DEF Next, Environment, vars

LEMMA PathInit == EvalInit => OnPath
  BY DEF EvalInit, OnPath

\* Every lookup that can be told from the answers, so every one but those of
\* exp=, is one that can be needed.
LEMMA SentKey ==
  ASSUME EvalInv, NEW k \in Key, Query(k), Sends
  PROVE  key' = k
  BY QueryReply DEF EvalInv, TypeInv, Sends

LEMMA HostNeeded ==
  ASSUME EvalKnown, Stands, AskHost
  PROVE  HostKey(Head(names)) \in Needed(Root)
  <1> PICK h : h = Head(names)
    OBVIOUS
  <1>0. /\ pc = "each" /\ pc \in DnsPc /\ names # <<>> /\ ~OutsideTarget
        /\ HostKey(h) = Host(h)
    BY DEF AskHost, DnsPc, HostKey, Host
  <1>1. CASE work = "pmacro"
    <2>1. Term.arg = PMacro /\ AtMacro(Oracle, Key)
      BY <1>0, <1>1, WalkKnown
    <2>2. HostKey(h) \in ArgKeys(Oracle, Term.arg)
      BY <1>0, <2>1, OracleZone, MacroHost
    <2>. QED
      BY <1>0, <2>2, OracleZone, ArgKeysTyped, TermNeeds DEF Needs
  <1>2. CASE work # "pmacro"
    <2> PICK s : s = HostsOf(work, target)
      OBVIOUS
    <2>1. /\ work \in {"mx", "ptr"} /\ Term.name = work
          /\ target = RefArg(Oracle, Term.arg, Top.domain)
          /\ s \in Seq(Name) /\ Len(s) \in Nat /\ DOMAIN s = 1..Len(s)
          /\ work = "mx" => target \in Name
      BY <1>0, <1>2, WalkKnown
    <2>2. PICK j \in 0..Len(s) : names = Left(s, j)
      BY <1>0, <1>2, WalkKnown DEF OnWalk
    <2>3. j + 1 \in DOMAIN s /\ h = s[j + 1] /\ h \in Name
      BY <1>0, <2>1, <2>2, LeftIs
    <2>4. work = "ptr" => <<h, target>> \in Below
      BY <1>0 DEF OutsideTarget
    <2>5. Owes(Term.name, target, HostKey(h))
      BY <1>0, <2>1, <2>3, <2>4 DEF Owes
    <2>6. HostKey(h) \in Key
      BY <2>3, KeyTypes
    <2>. QED
      BY <1>0, <2>1, <2>5, <2>6, TermNeeds DEF Needs
  <1>. QED
    BY <1>1, <1>2

LEMMA AskedNeeded ==
  ASSUME Predictable, Learned, OnPath, Step, Sends, ~void_exempt
  PROVE  key' \in Needed(Root) /\ Stands
  <1>0. EvalKnown /\ EvalInv /\ VerdictInv
    BY DEF Learned, EvalKnown
  <1>1. pc # "start"
    <2> SUFFICES ASSUME pc = "start" PROVE FALSE
      OBVIOUS
    <2>1. PICK d \in Start : Begin(d)
      BY <1>0, StartBegins DEF Next
    <2>. QED
      BY <2>1 DEF Begin, sessionVars, Sends
  <1>2. Stands
    <2>1. ~Explaining
      BY <1>0 DEF VerdictInv, Exempts
    <2>2. pc \notin {"exp", "finish", "done"}
      <3>1. pc # "exp"
        <4> SUFFICES ASSUME pc = "exp" PROVE FALSE
          OBVIOUS
        <4>1. status' = status
          BY DEF Step, Begin, EnterLate, EnterMalformed, EnterOverride,
             EnterQuery, FetchPolicy, TermLate, LocalTerm, DnsTerm, Default,
             Target, TargetMacro, AskTarget, AskPtr, Recurse, Answered,
             Exchanges, PtrNames, SkipHost, AskHost, HostAnswered, NamesSpent,
             MacroDone, ReturnInclude, IncludeMatch, ReturnRedirect, ReturnTop,
             Unwind, ExpEnter, EnterExempt, ExpTarget, ExpTargetMacro, ExpAsk,
             ExpReply, ExpText, ExpTextMacro, ExpDone, ExpRaised, Finish, Sends,
             Raised
        <4>. QED
          BY <4>1 DEF Sends
      <3>. QED
        BY <1>0, <3>1, StepPlace DEF Sends
    <2>3. result = "pending"
      BY <1>0, <1>1, <2>1, <2>2 DEF VerdictInv, Undecided, Nested, Explaining,
         EvalInv, EvalTypeOK, Pc, MainPc, ExpPc, WalkPc
    <2>. QED
      BY <1>0, <1>1, <2>3, PathStands
  <1>3. CASE EnterQuery
    <2>1. Top.domain \in Name /\ Query(<<Top.domain, "TXT">>)
      BY <1>3 DEF EnterQuery, Ask
    <2>2. key' = <<Top.domain, "TXT">>
      BY <1>0, <2>1, KeyTypes, SentKey
    <2>3. 1 \in 1..Len(stack)
      BY <1>2 DEF Stands
    <2>. QED
      BY <1>2, <2>1, <2>2, <2>3 DEF Stands, OnCalls
  <1>4. CASE TargetMacro \/ AskPtr
    <2>1. PtrKey = <<Rev, "PTR">> /\ PtrKey \in Key /\ RevKey = PtrKey
      BY KeyTypes, EvaluatorAssumption DEF PtrKey, RevKey
    <2>2. key' = PtrKey /\ pc \in DnsPc
      BY <1>0, <1>4, <2>1, SentKey DEF TargetMacro, Expand, AskPtr, DnsPc
    <2>3. Needs(Top.domain, Term, PtrKey)
      <3>1. CASE TargetMacro
        BY <3>1 DEF TargetMacro, Needs, ArgKeys
      <3>2. CASE AskPtr
        <4> PICK n : n = RefArg(Oracle, Term.arg, Top.domain)
          OBVIOUS
        <4>1. Term.name = "ptr"
          BY <3>2 DEF AskPtr
        <4>2. KeyOf([name |-> Term.name, arg |-> n]) = RevKey
          BY <4>1 DEF KeyOf, IsPolicy
        <4>3. Owes(Term.name, n, PtrKey)
          BY <2>1, <4>1, <4>2 DEF Owes
        <4>. QED
          BY <4>3 DEF Needs
      <3>. QED
        BY <1>4, <3>1, <3>2
    <2>. QED
      BY <1>2, <2>1, <2>2, <2>3, TermNeeds
  <1>5. CASE AskTarget
    <2> PICK k : k = KeyOf([name |-> Term.name, arg |-> target])
      OBVIOUS
    <2>1. /\ pc = "apply" /\ pc \in DnsPc /\ target \in Name
          /\ Term.name \in {"a", "mx", "exists"}
      BY <1>5 DEF AskTarget, NoMatch, sessionVars, Sends, DnsPc
    <2>2. k = <<target, CASE Term.name = "a" -> AddrType
                         [] Term.name = "mx" -> "MX"
                         [] Term.name = "exists" -> "A">>
      BY <2>1 DEF KeyOf, IsPolicy, Host
    <2>3. Query(k) /\ k \in Key
      BY <1>5, <2>1, <2>2, KeyTypes DEF AskTarget, Ask
    <2>4. target = RefArg(Oracle, Term.arg, Top.domain)
      BY <1>2, <2>1 DEF Stands, OnTerm
    <2>5. Needs(Top.domain, Term, k)
      BY <2>1, <2>4 DEF Needs, Owes
    <2>. QED
      BY <1>0, <1>2, <2>1, <2>3, <2>5, SentKey, TermNeeds
  <1>6. CASE AskHost
    <2>1. Query(HostKey(Head(names))) /\ HostKey(Head(names)) \in Key
      BY <1>0, <1>6, HostKeyInKey DEF AskHost, Ask, HostKey
    <2>. QED
      BY <1>0, <1>2, <1>6, <2>1, SentKey, HostNeeded
  <1>7. status = "ready" /\ status' = "await"
    BY DEF Sends
  <1>8. ASSUME UNCHANGED sessionVars PROVE FALSE
    BY <1>7, <1>8 DEF sessionVars
  <1>9. /\ \A e : ~Raise(e)
        /\ \A v, e : ~Return(v, e)
        /\ ~NoMatch /\ ~NextHost /\ ~Match /\ \A t : ~Parse(t)
    BY <1>8 DEF Raise, Return, NoMatch, NextHost, Match, Parse
  <1>10. ~CheckDeadline /\ ~ConsumeTerm
    BY <1>7 DEF CheckDeadline, ConsumeTerm
  <1>11. ~(\/ EnterLate \/ EnterMalformed \/ EnterOverride \/ FetchPolicy
           \/ TermLate \/ LocalTerm \/ DnsTerm \/ Default \/ Target \/ Recurse
           \/ Answered \/ Exchanges \/ PtrNames)
    BY <1>8, <1>9, <1>10 DEF EnterLate, EnterMalformed, EnterOverride,
       FetchPolicy, TermLate, LocalTerm, DnsTerm, Default, Target, Recurse,
       Answered, Exchanges, PtrNames
  <1>12. ~(\/ SkipHost \/ HostAnswered \/ NamesSpent \/ MacroDone
           \/ ReturnInclude \/ IncludeMatch \/ ReturnRedirect \/ ReturnTop
           \/ Unwind)
    BY <1>8, <1>9 DEF SkipHost, HostAnswered, NamesSpent, MacroDone,
       ReturnInclude, IncludeMatch, ReturnRedirect, ReturnTop, Unwind
  <1>. QED
    BY <1>1, <1>2, <1>3, <1>4, <1>5, <1>6, <1>11, <1>12, OpenSteps

-----------------------------------------------------------------------------
(***************************************************************************)
(* What the prefetcher has under way: B are the jobs left of the burst, T  *)
(* the side tasks and M the lookups that were issued.                      *)
(***************************************************************************)
Issued(M, j) == Wanted(j) => KeyOf(j) \in M

Chases(j) == j.name \in {"mx", "ptr"} /\ j.arg \in Name

\* The jobs of the hosts that mx or ptr goes on to.
HostJob(j, h) ==
  Job(IF j.name = "mx" THEN "exchange" ELSE "pointer", h, FALSE, j.arg, 0)

HostJobs(j) ==
  {HostJob(j, HostsOf(j.name, j.arg)[i]) : i \in DOMAIN HostsOf(j.name, j.arg)}

HostsLooked(B, M, j) == \A h \in HostJobs(j) : h \in B \/ Issued(M, h)

\* A job whose argument is expanded.
LookedUp(B, T, M, j) ==
  \/ j \in B
  \/ /\ Issued(M, j)
     /\ Chases(j) => Task(j, "answer") \in T \/ HostsLooked(B, M, j)

Expanded(j) ==
  [j EXCEPT !.raw = FALSE,
            !.arg = IF j.arg = PMacro THEN RefP(Oracle, j.domain) ELSE j.arg]

\* %{p} has tried m hosts and asks for the next.
Confirming(M, s, m) ==
  /\ m < Len(PtrHosts(Oracle))
  /\ s.names = Left(PtrHosts(Oracle), m)
  /\ s.found = Preferred(PtrHosts(Oracle), Confirmed(Oracle) \cap (1..m),
                         s.job.domain)
  /\ {PtrKey} \cup HostKeys(PtrHosts(Oracle), 1..(m + 1)) \subseteq M

\* The side task s is on its way to the argument.
Expands(M, s) ==
  \/ s.at = "start"
  \/ s.at = "names" /\ s.job.arg = PMacro /\ RevKey \in M
  \/ s.at = "host" /\ s.job.arg = PMacro /\ \E m \in Nat : Confirming(M, s, m)

ExpandsIn(T, M, j) == \E s \in T : s.job = j /\ Expands(M, s)

\* A job of a record.
Handled(B, T, M, j) ==
  \/ j \in B
  \/ ~Unexpanded(j) /\ LookedUp(B, T, M, j)
  \/ /\ Unexpanded(j)
     /\ \/ ExpandsIn(T, M, j)
        \/ ArgKeys(Oracle, j.arg) \subseteq M /\ LookedUp(B, T, M, Expanded(j))

Burst == {burst[i] : i \in DOMAIN burst}

\* A lookup may be missing.
Hindered ==
  \/ Capped \/ TooDeep \/ expired \/ abandoned \/ Refuses
  \/ \E k \in Key : fetch[k] = "defect"

\* A speculative lookup says what the zone does.
Looking ==
  /\ \A k \in Key : fetch[k] \in {"none", "done", "dnserror"} \cup Live
  /\ \A k \in Key : fetch[k] = "dnserror" => k \in Raises
  /\ \A k \in Key : fetch[k] = "done" => got[k] \in Reply[k]
  /\ \A d \in Name : fetch[<<d, "TXT">>] # "none" => level[<<d, "TXT">>] > 0

\* Every policy that was looked up is seen, or about to be.
Seeing ==
  \A d \in Name :
    fetch[<<d, "TXT">>] = "done" /\ (\E p : HasPolicy(d, p)) =>
      d \in seen \/ Holds(ready, <<d, "TXT">>)

\* All that it leads to is looked up.
AllHandled(B, T, M, d, p) ==
  \E n \in Nat : /\ n < MaxDepth
                 /\ \A i \in DOMAIN Jobs(d, p, n) :
                      Handled(B, T, M, Jobs(d, p, n)[i])

Handling ==
  \A d \in Name : \A p \in PolicyType :
    d \in seen /\ HasPolicy(d, p) => AllHandled(Burst, side, Made, d, p)

\* So is the policy the evaluation starts with.
RootJob == Job("include", Root, FALSE, Root, 0)

Rooted ==
  stack # <<>> /\ pc # "start" /\ Root \in Name =>
    RootJob \in Burst \/ <<Root, "TXT">> \in Made

Speculated == Looking /\ Seeing /\ Handling /\ Rooted

SpeculatedInv ==
  /\ \A k \in Key : fetch[k] = "none" => level[k] = 0
  /\ pc = "start" => burst = <<>>
  /\ Hindered \/ Speculated

-----------------------------------------------------------------------------
LEMMA PtrIsRev ==
  PtrKey = RevKey /\ RevKey \in Key /\ \A h : HostKey(h) = Host(h)
  BY KeyTypes, EvaluatorAssumption DEF PtrKey, RevKey, HostKey, Host

\* What speculation is told.
LEMMA ToldIs ==
  ASSUME Predictable, GotInv, Looking, NEW k \in Key, fetch[k] \in Ended
  PROVE  /\ Answers(k) = Records(Oracle, k)
         /\ \/ Records(Oracle, k) = <<>>
            \/ got[k].answers = Records(Oracle, k)
  <1>1. fetch[k] \in {"done", "dnserror"}
    BY DEF Looking, Ended, Live
  <1>2. CASE AlwaysFails(k)
    <2>1. Records(Oracle, k) = <<>>
      BY <1>2, OracleFails
    <2>2. got[k].rcode \notin Definite
      BY <1>2 DEF GotInv, AlwaysFails, NoAnswer, Definite
    <2>. QED
      BY <2>1, <2>2 DEF Answers
  <1>3. CASE ~AlwaysFails(k)
    <2>1. k \notin Raises /\ \A a \in Reply[k] : a.rcode \in Definite
      BY <1>3 DEF Predictable, Steady
    <2>2. got[k] \in Reply[k]
      BY <1>1, <2>1 DEF Looking
    <2>3. got[k] = Oracle[k]
      BY <1>3, <2>2, OracleAnswers DEF Predictable
    <2>. QED
      BY <2>1, <2>2, <2>3 DEF Answers, Records
  <1>. QED
    BY <1>2, <1>3

LEMMA ExpandsGrows ==
  ASSUME NEW M, NEW M2, M \subseteq M2, NEW s, Expands(M, s)
  PROVE  Expands(M2, s)
  BY DEF Expands, Confirming

LEMMA IssuedGrows ==
  ASSUME NEW M, NEW M2, M \subseteq M2, NEW j, Issued(M, j)
  PROVE  Issued(M2, j)
  BY DEF Issued

\* A step that forgets nothing: a job that leaves the burst is looked up and
\* followed, or its expansion is begun, and so is what a side task was at.
JobKept(B2, T2, M2, j) ==
  /\ Unexpanded(j) => Task(j, "start") \in T2
  /\ ~Unexpanded(j) => /\ Issued(M2, j)
                       /\ Chases(j) => Task(j, "answer") \in T2

TaskKept(B2, T2, M, M2, s) ==
  /\ \A j : s = Task(j, "answer") /\ Chases(j) /\ KeyOf(j) \in M
              => HostsLooked(B2, M2, j)
  /\ s.job.domain \in Name /\ Unexpanded(s.job) /\ Expands(M, s) =>
       \/ ExpandsIn(T2, M2, s.job)
       \/ ArgKeys(Oracle, s.job.arg) \subseteq M2 /\ Expanded(s.job) \in B2

Forgets(B, T, M, B2, T2, M2) ==
  \/ ~(M \subseteq M2)
  \/ \E j \in B \ B2 : ~JobKept(B2, T2, M2, j)
  \/ \E s \in T \ T2 : ~TaskKept(B2, T2, M, M2, s)

LEMMA HostJobTyped ==
  ASSUME NEW j, NEW h
  PROVE  ~Unexpanded(HostJob(j, h))
  BY DEF HostJob, Job, Unexpanded

LEMMA LookedUpKept ==
  ASSUME NEW B, NEW T, NEW M, NEW B2, NEW T2, NEW M2,
         ~Forgets(B, T, M, B2, T2, M2), NEW j, ~Unexpanded(j),
         LookedUp(B, T, M, j)
  PROVE  LookedUp(B2, T2, M2, j)
  <1>1. M \subseteq M2
    BY DEF Forgets
  <1>2. ASSUME j \in B, j \notin B2
        PROVE  LookedUp(B2, T2, M2, j)
    BY <1>2 DEF Forgets, JobKept, LookedUp
  <1>3. ASSUME HostsLooked(B, M, j)
        PROVE  HostsLooked(B2, M2, j)
    <2> SUFFICES ASSUME NEW h \in HostJobs(j), h \notin B2
                 PROVE  Issued(M2, h)
      BY DEF HostsLooked
    <2>1. ~Unexpanded(h)
      BY HostJobTyped DEF HostJobs
    <2>2. h \in B \/ Issued(M, h)
      BY <1>3 DEF HostsLooked
    <2>. QED
      BY <1>1, <2>1, <2>2, IssuedGrows DEF Forgets, JobKept
  <1>4. ASSUME Issued(M, j), Chases(j), Task(j, "answer") \in T
        PROVE  Task(j, "answer") \in T2 \/ HostsLooked(B2, M2, j)
    <2>1. Wanted(j)
      BY <1>4 DEF Wanted, Chases, DnsMechanism, IsPolicy
    <2>2. KeyOf(j) \in M
      BY <1>4, <2>1 DEF Issued
    <2>. QED
      BY <1>4, <2>2 DEF Forgets, TaskKept
  <1>. QED
    BY <1>1, <1>2, <1>3, <1>4, IssuedGrows DEF LookedUp

LEMMA HandledKept ==
  ASSUME NEW B, NEW T, NEW M, NEW B2, NEW T2, NEW M2,
         ~Forgets(B, T, M, B2, T2, M2), NEW j, j.domain \in Name,
         \E n, a, r, d, e : j = Job(n, a, r, d, e),
         Handled(B, T, M, j)
  PROVE  Handled(B2, T2, M2, j)
  <1>1. M \subseteq M2
    BY DEF Forgets
  <1>2. CASE ~Unexpanded(j)
    <2>1. LookedUp(B, T, M, j)
      BY <1>2 DEF Handled, LookedUp
    <2>2. LookedUp(B2, T2, M2, j)
      BY <1>2, <2>1, LookedUpKept
    <2>. QED
      BY <1>2, <2>2 DEF Handled
  <1>3. CASE Unexpanded(j) /\ j \in B /\ j \notin B2
    <2>1. Task(j, "start") \in T2
      BY <1>3 DEF Forgets, JobKept
    <2>2. ExpandsIn(T2, M2, j)
      BY <2>1 DEF ExpandsIn, Expands, Task
    <2>. QED
      BY <1>3, <2>2 DEF Handled
  <1>4. ~Unexpanded(Expanded(j))
    <2>1. Expanded(j).raw = FALSE
      BY DEF Expanded, Job
    <2>. QED
      BY <2>1 DEF Unexpanded
  <1>5. ASSUME Unexpanded(j), NEW s \in T, s.job = j, Expands(M, s)
        PROVE  Handled(B2, T2, M2, j)
    <2>1. CASE s \in T2
      BY <1>1, <1>5, <2>1, ExpandsGrows DEF Handled, ExpandsIn
    <2>2. CASE s \notin T2
      <3>1. \/ ExpandsIn(T2, M2, j)
            \/ ArgKeys(Oracle, j.arg) \subseteq M2 /\ Expanded(j) \in B2
        BY <1>5, <2>2 DEF Forgets, TaskKept
      <3>. QED
        BY <1>5, <3>1 DEF Handled, LookedUp
    <2>. QED
      BY <2>1, <2>2
  <1>6. ASSUME Unexpanded(j), ArgKeys(Oracle, j.arg) \subseteq M,
               LookedUp(B, T, M, Expanded(j))
        PROVE  Handled(B2, T2, M2, j)
    <2>1. LookedUp(B2, T2, M2, Expanded(j))
      BY <1>4, <1>6, LookedUpKept
    <2>. QED
      BY <1>1, <1>6, <2>1 DEF Handled
  <1>. QED
    BY <1>2, <1>3, <1>5, <1>6 DEF Handled, ExpandsIn

-----------------------------------------------------------------------------
(***************************************************************************)
(* When nothing is under way everything is issued.                         *)
(***************************************************************************)
\* The job of the i-th term of the policy p of d.
JobOf(d, t, n) ==
  Job(t.name, IF t.arg = Implicit THEN d ELSE t.arg, TRUE, d, n + 1)

LEMMA TermHasJob ==
  ASSUME NEW d, NEW p \in PolicyType, NEW n, NEW i \in Nat \ {0},
         Asking(TermAt(p, i))
  PROVE  \E x \in DOMAIN Jobs(d, p, n) : Jobs(d, p, n)[x] = JobOf(d, TermAt(p, i), n)
  <1> DEFINE r == [name |-> "redirect", arg |-> p.redirect]
             terms == p.terms \o <<r>>
  <1>1. /\ p.terms \in Seq(TermType) /\ Len(p.terms) \in Nat
        /\ DOMAIN p.terms = 1..Len(p.terms)
    BY DEF PolicyType
  <1>2. /\ Len(terms) = Len(p.terms) + 1 /\ DOMAIN terms = 1..(Len(p.terms) + 1)
        /\ \A x \in 1..Len(p.terms) : terms[x] = p.terms[x]
        /\ terms[Len(p.terms) + 1] = r
    BY <1>1
  <1>3. /\ DOMAIN Jobs(d, p, n) = DOMAIN terms
        /\ \A x \in DOMAIN terms : Jobs(d, p, n)[x] = JobOf(d, terms[x], n)
    BY DEF Jobs, JobOf
  <1>. HIDE DEF terms
  <1>4. CASE i \in DOMAIN p.terms
    BY <1>1, <1>2, <1>3, <1>4 DEF TermAt
  <1>5. CASE i \notin DOMAIN p.terms
    <2> DEFINE x == Len(p.terms) + 1
    <2>1. x \in DOMAIN terms /\ terms[x] = r
      BY <1>1, <1>2
    <2>2. TermAt(p, i).name = r.name /\ TermAt(p, i).arg = r.arg
      BY <1>5 DEF TermAt
    <2>3. JobOf(d, r, n) = JobOf(d, TermAt(p, i), n)
      BY <2>2 DEF JobOf
    <2>. QED
      BY <1>3, <2>1, <2>3
  <1>. QED
    BY <1>4, <1>5

\* A job whose argument is expanded has looked up what its mechanism owes.
LEMMA OwedIssued ==
  ASSUME Predictable, NEW M, NEW e, ~Unexpanded(e), LookedUp({}, {}, M, e),
         e.name \in DnsMechanism \cup {"redirect"}, e.depth <= MaxDepth,
         e.arg \in Domains, NEW k, Owes(e.name, e.arg, k)
  PROVE  k \in M
  <1>1. e.name # "pointer"
    BY DEF DnsMechanism
  <1>2. ASSUME e.name = "ptr" \/ e.arg \in Name
        PROVE  KeyOf(e) \in M
    BY <1>1, <1>2 DEF LookedUp, Issued, Wanted
  <1>3. ASSUME e.name = "ptr" \/ e.arg \in Name,
               k = KeyOf([name |-> e.name, arg |-> e.arg])
        PROVE  k \in M
    <2>1. k = KeyOf(e)
      BY <1>3 DEF KeyOf, IsPolicy
    <2>. QED
      BY <1>2, <1>3, <2>1
  <1>4. ASSUME e.name = "ptr" \/ (e.name = "mx" /\ e.arg \in Name),
               NEW i \in DOMAIN HostsOf(e.name, e.arg),
               k = Host(HostsOf(e.name, e.arg)[i]),
               e.name = "ptr" => <<HostsOf(e.name, e.arg)[i], e.arg>> \in Below
        PROVE  k \in M
    <2> DEFINE h == HostsOf(e.name, e.arg)[i]
               j == HostJob(e, h)
    <2>1. h \in Name
      BY <1>4, HostsTyped
    <2>2. e.arg \in Name
      BY <1>4, <2>1 DEF Predictable, Domains
    <2>3. Chases(e)
      BY <1>4, <2>2 DEF Chases
    <2>4. HostsLooked({}, M, e)
      BY <2>3 DEF LookedUp
    <2>5. Issued(M, j)
      BY <1>4, <2>4 DEF HostsLooked, HostJobs
    <2>6. /\ j.name = (IF e.name = "mx" THEN "exchange" ELSE "pointer")
          /\ j.arg = h /\ j.raw = FALSE /\ j.domain = e.arg
      BY DEF HostJob, Job
    <2>. HIDE DEF h, j
    <2>7. Wanted(j)
      <3>1. j.name = "pointer" => <<j.arg, j.domain>> \in Below
        BY <1>4, <2>6 DEF h
      <3>. QED
        BY <2>1, <2>6, <3>1 DEF Wanted, Unexpanded, IsPolicy
    <2>8. KeyOf(j) = Host(h)
      BY <2>6 DEF KeyOf, IsPolicy
    <2>. QED
      BY <1>4, <2>5, <2>7, <2>8 DEF Issued, h
  <1>. QED
    BY <1>3, <1>4 DEF Owes

LEMMA NeedIssued ==
  ASSUME Predictable, NEW d \in Name, NEW p \in PolicyType,
         NEW i \in Nat \ {0}, NEW M, AllHandled({}, {}, M, d, p),
         Asking(TermAt(p, i)), NEW k, Needs(d, TermAt(p, i), k)
  PROVE  k \in M
  <1> PICK t : t = TermAt(p, i)
    OBVIOUS
  <1>1. PICK n \in Nat : /\ n < MaxDepth
                         /\ \A x \in DOMAIN Jobs(d, p, n) :
                              Handled({}, {}, M, Jobs(d, p, n)[x])
    BY DEF AllHandled
  <1> PICK j : j = JobOf(d, t, n)
    OBVIOUS
  <1>2. Handled({}, {}, M, j)
    BY <1>1, TermHasJob
  <1>3. MaxDepth \in Nat /\ n + 1 <= MaxDepth
    BY <1>1, SessionAssumption DEF MaxDepth
  <1>4. t \in RefTermType /\ t.name \in DnsMechanism \cup {"redirect"}
    BY TermAtTyped DEF Asking, Spends
  <1>5. t.arg \in Arg \cup {Implicit}
    <2>1. t.name = "redirect" => t.arg \in Arg
      BY <1>4, RefTermArg DEF Asking
    <2>. QED
      BY <1>4, <2>1, RefTermArg
  <1>6. /\ j.name = t.name /\ j.raw = TRUE /\ j.domain = d /\ j.depth = n + 1
        /\ j.arg = IF t.arg = Implicit THEN d ELSE t.arg
    BY DEF JobOf, Job
  <1>7. PMacro \notin Name /\ PMacro # Implicit
    BY PrefetchAssumption DEF PMacro, Implicit
  <1>8. j.arg = PMacro <=> t.arg = PMacro
    BY <1>6, <1>7
  <1> PICK a : a = RefArg(Oracle, t.arg, d)
    OBVIOUS
  <1>9. a \in Domains
    BY <1>5, OracleZone, RefArgTyped DEF Domains
  <1>10. a = IF j.arg = PMacro THEN RefP(Oracle, d) ELSE j.arg
    BY <1>6, <1>7 DEF RefArg
  <1>11. ArgKeys(Oracle, j.arg) = ArgKeys(Oracle, t.arg)
    BY <1>8 DEF ArgKeys
  <1>12. CASE Unexpanded(j)
    <2>1. ArgKeys(Oracle, t.arg) \subseteq M /\ LookedUp({}, {}, M, Expanded(j))
      BY <1>2, <1>11, <1>12 DEF Handled, ExpandsIn
    <2> PICK e : e = Expanded(j)
      OBVIOUS
    <2>2. /\ e.name = t.name /\ e.arg = a /\ e.depth = n + 1 /\ e.raw = FALSE
      BY <1>6, <1>10 DEF Expanded, JobOf, Job
    <2>3. Owes(t.name, a, k) => k \in M
      BY <1>3, <1>4, <1>9, <2>1, <2>2, OwedIssued DEF Unexpanded
    <2>. QED
      BY <2>1, <2>3 DEF Needs
  <1>13. CASE ~Unexpanded(j)
    <2>1. t.arg # PMacro /\ a = j.arg
      BY <1>6, <1>8, <1>10, <1>13 DEF Unexpanded
    <2>2. LookedUp({}, {}, M, j)
      BY <1>2, <1>13 DEF Handled
    <2>3. Owes(t.name, a, k) => k \in M
      BY <1>3, <1>4, <1>6, <1>9, <1>13, <2>1, <2>2, OwedIssued
    <2>. QED
      BY <2>1, <2>3 DEF Needs, ArgKeys
  <1>. QED
    BY <1>12, <1>13

LEMMA QuietClosed ==
  ASSUME Predictable, LoopInv, Speculated, Quiet, burst = <<>>
  PROVE  Closed(Made)
  <1> SUFFICES ASSUME NEW d \in Name, NEW p \in PolicyType, NEW i \in Nat \ {0},
                      NEW k \in Key, <<d, "TXT">> \in Made, HasPolicy(d, p),
                      Asking(TermAt(p, i)), Needs(d, TermAt(p, i), k)
               PROVE  k \in Made
    BY DEF Closed
  <1> PICK x : x = <<d, "TXT">>
    OBVIOUS
  <1>1. x \in Key /\ fetch[x] # "none" /\ level[x] > 0
    BY KeyTypes DEF Made, Speculated, Looking
  <1>2. fetch[x] \notin Live
    <2>1. level[x] # 0
      BY <1>1 DEF LoopInv, DataInv, HookInv
    <2>. QED
      BY <1>1, <2>1 DEF Quiet, Unended
  <1>3. fetch[x] # "dnserror"
    <2> SUFFICES ASSUME fetch[x] = "dnserror" PROVE FALSE
      OBVIOUS
    <2>1. x \in Raises
      BY <1>1 DEF Speculated, Looking
    <2>2. AlwaysFails(x)
      BY <1>1, <2>1 DEF Predictable, Steady
    <2>3. Records(Oracle, x) = <<>>
      BY <1>1, <2>2, OracleFails
    <2>. QED
      BY <2>3 DEF HasPolicy
  <1>4. fetch[x] = "done"
    BY <1>1, <1>2, <1>3 DEF Speculated, Looking
  <1>5. d \in seen
    BY <1>4 DEF Speculated, Seeing, Quiet, Holds
  <1>6. Burst = {} /\ side = {}
    BY DEF Burst, Quiet
  <1>7. AllHandled({}, {}, Made, d, p)
    BY <1>5, <1>6 DEF Speculated, Handling
  <1>. QED
    BY <1>7, NeedIssued

\* An open verdict has asked for nothing that is not there.
LEMMA QuietHas ==
  ASSUME Predictable, LoopInv, Speculated, Quiet, burst = <<>>, stack # <<>>,
         pc # "start"
  PROVE  Needed(Root) \subseteq Made
  <1>1. Root \in Name => <<Root, "TXT">> \in Made
    BY DEF Speculated, Rooted, Burst
  <1>2. Made \in SUBSET Key
    BY DEF Made
  <1>. QED
    BY <1>1, <1>2, QuietClosed, NeededWithin

\* The evaluator asks for itself only what speculation may lack.
LEMMA PredictedStep ==
  ASSUME Predictable, Learned, OnPath, LoopInv, CloseInv, SpeculatedInv,
         PfNext, wait = "no", wait' = "live", Quiet
  PROVE  void_exempt \/ Capped \/ TooDeep \/ (\E k \in Key : fetch[k] = "defect")
  <1> SUFFICES ASSUME ~void_exempt, ~Capped, ~TooDeep,
                      ~(\E k \in Key : fetch[k] = "defect")
               PROVE  FALSE
    OBVIOUS
  <1>1. EvaluateStep /\ Sends /\ ~Claimable(key')
    <2>1. ~(Resume \/ ResumeLate \/ CallerCancels)
      BY DEF Resume, ResumeLive, ResumeTask, Resumed, OutcomeReaches, ResumeLate,
             CallerCancels, DropAwaited
    <2>2. ~Speculate
      BY DEF Speculate, RunJob, SkipJob, Acquire, Hook, FetchEnds, End,
             StartSide, ResumeSide
    <2>3. ~(Close \/ Clock)
      BY DEF Close, CloseStart, CloseDone, Cancel, End, Clock, pfVars
    <2>4. ~EvaluateBegin
      BY DEF EvaluateBegin, pfVars
    <2>. QED
      BY <2>1, <2>2, <2>3, <2>4 DEF PfNext, Evaluate, EvaluateStep, Claim, pfVars
  <1>2. /\ Step /\ burst = <<>> /\ ~abandoned /\ pc # "start"
        /\ EvalKnown /\ Await
    BY <1>1 DEF EvaluateStep, Learned
  <1>3. key' \in Needed(Root) /\ stack # <<>>
    BY <1>1, <1>2, AskedNeeded DEF Stands
  <1>4. ~expired
    <2>1. ~UNCHANGED sessionVars
      BY <1>1 DEF Sends, sessionVars
    <2>2. [SessionNext]_sessionVars
      BY <1>2, StepIsSession DEF EvalKnown
    <2>. QED
      BY <1>1, <2>1, <2>2 DEF Sends, SessionNext, Elapse, CheckDeadline,
         ConsumeTerm, Query, CacheHit, PastDeadline, OverBudget, Send, Answer,
         LookupRaises, TimeLimit, EnterExempt, LeaveExempt, DeadlinePassed
  <1>5. ~Refuses
    BY <1>1, <1>2, StepPlace DEF CloseInv, Closing, Refuses, Sends
  <1>6. Speculated
    BY <1>2, <1>4, <1>5 DEF SpeculatedInv, Hindered
  <1>7. key' \in Made
    BY <1>2, <1>3, <1>6, QuietHas
  <1>. QED
    BY <1>1, <1>6, <1>7 DEF Made, Claimable, Speculated, Looking

-----------------------------------------------------------------------------
(***************************************************************************)
(* What only grows.                                                        *)
(***************************************************************************)
\* A task is made once, and changes no more when it is over.
Moves(k) ==
  \/ fetch'[k] = fetch[k] /\ level'[k] = level[k]
  \/ /\ fetch[k] = "none" /\ fetch'[k] = "queued" /\ CanIssue(k)
     /\ level'[k] = level[k] \/ level'[k] \in Nat \ {0}
  \/ /\ fetch[k] \in Live /\ fetch'[k] \in Ended \cup {"sent"}
     /\ level'[k] = level[k]

LEMMA IssueMoves ==
  ASSUME LoopInv, NEW m \in Key, Issue(m), level' = level
  PROVE  \A k \in Key : Moves(k)
  BY DEF Issue, CanIssue, Moves, issueVars, LoopInv, PoolInv, QueueInv

LEMMA EndMoves ==
  ASSUME LoopInv, NEW m \in Key, fetch[m] \in Live, NEW o \in Ended, NEW a,
         End(m, o, a)
  PROVE  \A k \in Key : Moves(k)
  BY DEF End, Moves, LoopInv, PoolInv, QueueInv

LEMMA SpeculateMoves ==
  ASSUME LoopInv, Speculate
  PROVE  (\A k \in Key : Moves(k)) /\ UNCHANGED closeVars
  <1>1. CASE RunJob
    <2> PICK j : j = Head(burst)
      OBVIOUS
    <2>0. j \in JobType
      BY <1>1 DEF RunJob, LoopInv, DataInv, BurstInv
    <2> PICK m : m = KeyOf(j)
      OBVIOUS
    <2>1. /\ m \in Key /\ Issue(m) /\ UNCHANGED closeVars
          /\ \/ level' = level
             \/ CanIssue(m) /\ level' = [level EXCEPT ![m] = j.depth + 1]
      BY <1>1, WantedKey DEF RunJob
    <2>2. CASE level' = level
      BY <2>1, <2>2, IssueMoves
    <2>3. CASE CanIssue(m) /\ level' = [level EXCEPT ![m] = j.depth + 1]
      <3>1. j.depth + 1 \in Nat \ {0}
        BY <2>0 DEF JobType
      <3>2. fetch \in [Key -> FetchState] /\ level \in [Key -> Nat]
        BY DEF LoopInv, PoolInv, QueueInv, DataInv, HookInv
      <3>3. fetch' = [fetch EXCEPT ![m] = "queued"] /\ fetch[m] = "none"
        BY <2>1, <2>3 DEF Issue, CanIssue
      <3>4. ASSUME NEW k \in Key PROVE Moves(k)
        <4>1. CASE k = m
          BY <2>1, <2>3, <3>1, <3>2, <3>3, <4>1 DEF Moves
        <4>2. CASE k # m
          BY <2>1, <2>3, <3>2, <3>3, <4>2 DEF Moves
        <4>. QED
          BY <4>1, <4>2
      <3>. QED
        BY <2>1, <3>4
    <2>. QED
      BY <2>1, <2>2, <2>3
  <1>2. CASE SkipJob \/ Hook
    BY <1>2 DEF SkipJob, Hook, Moves, issueVars
  <1>3. CASE Acquire
    <2>1. Head(sem) \in Key /\ fetch[Head(sem)] = "queued"
      <3>1. sem \in Seq(Key) /\ Once(sem) /\ sem # <<>>
        BY <1>3 DEF Acquire, LoopInv, PoolInv, QueueInv
      <3>. QED
        BY <3>1, TailHolds DEF LoopInv, PoolInv, QueueInv
    <2>2. CASE End(Head(sem), "timeout", NoAnswer)
      BY <2>1, <2>2, EndMoves DEF Live, Ended, End
    <2>3. CASE fetch' = [fetch EXCEPT ![Head(sem)] = "sent"]
               /\ UNCHANGED <<level, closeVars>>
      BY <2>1, <2>3 DEF Moves, Live, LoopInv, PoolInv, QueueInv
    <2>. QED
      BY <1>3, <2>2, <2>3 DEF Acquire
  <1>4. ASSUME NEW k \in Key, FetchEnds(k)
        PROVE  (\A m \in Key : Moves(m)) /\ UNCHANGED closeVars
    <2>1. PICK o, a : o \in Ended /\ End(k, o, a)
      BY <1>4 DEF FetchEnds, Ended
    <2>2. fetch[k] \in Live
      BY <1>4 DEF FetchEnds, Live
    <2>. QED
      BY <2>1, <2>2, EndMoves DEF End
  <1>5. ASSUME NEW s \in side, StartSide(s) \/ ResumeSide(s)
        PROVE  (\A m \in Key : Moves(m)) /\ UNCHANGED closeVars
    <2>1. /\ UNCHANGED <<level, closeVars>>
          /\ UNCHANGED issueVars \/ \E k \in Key : Issue(k)
      BY <1>5, StartSideTyped, ResumeSideTyped DEF StartSide, ResumeSide, LoopInv
    <2>. QED
      BY <2>1, IssueMoves DEF Moves, issueVars
  <1>. QED
    BY <1>1, <1>2, <1>3, <1>4, <1>5 DEF Speculate

LEMMA NextMoves ==
  ASSUME LoopInv, CloseInv, [PfNext]_allVars
  PROVE  (\A k \in Key : Moves(k)) /\ (Refuses => Refuses') /\ (abandoned => abandoned')
  <1>1. CASE EvaluateBegin
    <2>1. UNCHANGED <<fetch, level, abandoned>>
      BY <1>1 DEF EvaluateBegin, pfVars, issueVars, closeVars
    <2>2. ~Refuses
      BY <1>1 DEF EvaluateBegin, Begin, CloseInv, Refuses
    <2>. QED
      BY <2>1, <2>2 DEF Moves
  <1>2. CASE EvaluateStep \/ Resume \/ Clock \/ UNCHANGED allVars
    <2>1. UNCHANGED <<fetch, level, phase, abandoned>>
      BY <1>2 DEF EvaluateStep, Claim, Resume, ResumeLive, ResumeTask, Clock,
                  allVars, pfVars, issueVars, closeVars
    <2>. QED
      BY <2>1 DEF Moves, Refuses
  <1>3. CASE ResumeLate \/ CallerCancels
    <2>1. /\ UNCHANGED <<level, phase>> /\ (abandoned => abandoned')
          /\ fetch' = [k \in Key |-> IF k \in Shared THEN "cancelled" ELSE fetch[k]]
      BY <1>3 DEF ResumeLate, CallerCancels, DropAwaited, closeVars
    <2>2. \A k \in Shared : fetch[k] \in Live
      BY DEF Shared
    <2>. QED
      BY <2>1, <2>2 DEF Moves, Refuses, Ended
  <1>4. CASE CloseStart \/ CloseDone
    BY <1>4 DEF CloseStart, CloseDone, Moves, Refuses, issueVars
  <1>5. ASSUME NEW k \in Key, Cancel(k)
        PROVE  (\A m \in Key : Moves(m)) /\ UNCHANGED closeVars
    <2>1. fetch[k] \in Live /\ End(k, "cancelled", NoAnswer) /\ "cancelled" \in Ended
      BY <1>5 DEF Cancel, Ended
    <2>. QED
      BY <2>1, EndMoves DEF End
  <1>6. CASE Speculate
    BY <1>6, SpeculateMoves DEF Refuses, closeVars
  <1>. QED
    BY <1>1, <1>2, <1>3, <1>4, <1>5, <1>6
       DEF PfNext, Evaluate, Close, Refuses, closeVars

\* What is issued stays, and what hinders speculation does.
LEMMA Grows ==
  ASSUME EvalKnown, LoopInv, LoopInv', CloseInv, SpeculatedInv, [PfNext]_allVars
  PROVE  /\ Made \subseteq Made'
         /\ \A k \in Key : fetch'[k] = "none" => level'[k] = 0
         /\ Hindered => Hindered'
  <1>1. /\ \A k \in Key : Moves(k)
        /\ Refuses => Refuses'
        /\ abandoned => abandoned'
    BY NextMoves
  <1>2. Made \subseteq Made'
    <2>1. \A k \in Key : fetch[k] # "none" => fetch'[k] # "none"
      BY <1>1 DEF Moves, Ended
    <2>. QED
      BY <2>1 DEF Made
  <1>3. \A k \in Key : fetch[k] = "none" => level[k] = 0
    BY DEF SpeculatedInv
  <1>4. \A k \in Key : fetch'[k] = "none" => level'[k] = 0
    BY <1>1, <1>3 DEF Moves, Ended
  <1>5. Capped => Capped'
    <2>1. IsFiniteSet(Made') /\ issued' = Cardinality(Made')
      BY DEF LoopInv, PoolInv, CapInv, CapExact, Made
    <2>2. issued = Cardinality(Made)
      BY DEF LoopInv, PoolInv, CapInv, CapExact, Made
    <2>3. /\ issued \in Nat /\ issued' \in Nat /\ issued <= issued'
      BY <1>2, <2>1, <2>2, FS_Subset, FS_CardinalityType
    <2>. QED
      BY <2>3, SessionAssumption DEF Capped
  <1>6. TooDeep => TooDeep'
    <2>1. ASSUME NEW k \in Key, level[k] > MaxDepth
          PROVE  level'[k] = level[k]
      <3>1. level[k] # 0
        BY <2>1, SessionAssumption DEF MaxDepth, LoopInv, DataInv, HookInv
      <3>. QED
        BY <1>1, <1>3, <3>1 DEF Moves
    <2>. QED
      BY <2>1 DEF TooDeep
  <1>7. expired => expired'
    <2>1. [SessionNext]_sessionVars /\ TypeInv
      BY PfStepIsEval, NextIsSession DEF EvalKnown, EvalInv
    <2>. QED
      BY <2>1, Monotone
  <1>8. (\E k \in Key : fetch[k] = "defect") => \E k \in Key : fetch'[k] = "defect"
    <2>1. \A k \in Key : fetch[k] = "defect" => fetch'[k] = "defect"
      BY <1>1 DEF Moves, Live
    <2>. QED
      BY <2>1
  <1>. QED
    BY <1>1, <1>2, <1>4, <1>5, <1>6, <1>7, <1>8 DEF Hindered

\* Nothing is speculated before the evaluation begins.
LEMMA IdleAtStart ==
  ASSUME EvalKnown, CloseInv, SpeculatedInv, [PfNext]_allVars, pc' = "start"
  PROVE  burst' = <<>>
  <1>1. ~Evaluate
    BY StepPlace DEF Evaluate, EvaluateBegin, Begin, EvaluateStep
  <1>2. pc = "start"
    <2>1. CASE Speculate \/ Close \/ CallerCancels \/ UNCHANGED allVars
      BY <2>1, LoopIsStutter DEF allVars, vars, evalVars
    <2>2. CASE Resume \/ ResumeLate \/ Clock
      BY <2>2 DEF Resume, ResumeLive, ResumeTask, OutcomeReaches, Resumed,
                  ResumeLate, Clock, vars, evalVars
    <2>. QED
      BY <1>1, <2>1, <2>2 DEF PfNext
  <1>3. burst = <<>> /\ phase = "off" /\ status # "await"
    BY <1>2, InFlightPlace DEF SpeculatedInv, CloseInv
  <1>4. ~Suspended
    BY <1>3 DEF Suspended
  <1>5. ~Speculate
    BY <1>3, <1>4 DEF Speculate, RunJob, SkipJob, Acquire, Hook, FetchEnds,
                      StartSide, ResumeSide
  <1>6. ~Close
    BY <1>3, <1>4 DEF Close, CloseStart, CloseDone, Cancel
  <1>. QED
    BY <1>1, <1>3, <1>5, <1>6
       DEF PfNext, Resume, ResumeLive, ResumeTask, ResumeLate, CallerCancels,
           DropAwaited, Clock, allVars, pfVars
-----------------------------------------------------------------------------
(***************************************************************************)
(* The steps that forget nothing.                                          *)
(***************************************************************************)
LEMMA AllHandledKept ==
  ASSUME ~Forgets(Burst, side, Made, Burst', side', Made'),
         NEW d \in Name, NEW p, AllHandled(Burst, side, Made, d, p)
  PROVE  AllHandled(Burst', side', Made', d, p)
  <1>1. PICK n \in Nat :
          /\ n < MaxDepth
          /\ \A i \in DOMAIN Jobs(d, p, n) :
               Handled(Burst, side, Made, Jobs(d, p, n)[i])
    BY DEF AllHandled
  <1>2. ASSUME NEW i \in DOMAIN Jobs(d, p, n)
        PROVE  Handled(Burst', side', Made', Jobs(d, p, n)[i])
    <2> PICK j : j = Jobs(d, p, n)[i]
      OBVIOUS
    <2>1. j.domain = d /\ \E m, a, r, g, e : j = Job(m, a, r, g, e)
      BY DEF Jobs, Job
    <2>2. Handled(Burst, side, Made, j)
      BY <1>1
    <2>. QED
      BY <2>1, <2>2, HandledKept
  <1>. QED
    BY <1>1, <1>2 DEF AllHandled

LEMMA HandlingKept ==
  ASSUME Handling, ~Forgets(Burst, side, Made, Burst', side', Made'), seen' = seen
  PROVE  Handling'
  BY AllHandledKept DEF Handling

\* A lookup that ends is seen, or its done-callback is due.
LEMMA SeeingKept ==
  ASSUME Seeing, seen \subseteq seen',
         \A d \in Name :
           /\ fetch'[<<d, "TXT">>] = "done" =>
                fetch[<<d, "TXT">>] = "done" \/ Holds(ready', <<d, "TXT">>)
           /\ Holds(ready, <<d, "TXT">>) /\ (\E p : HasPolicy(d, p)) =>
                Holds(ready', <<d, "TXT">>) \/ d \in seen'
  PROVE  Seeing'
  BY DEF Seeing

LEMMA RootedKept ==
  ASSUME Rooted, UNCHANGED <<stack, pc>>, Made \subseteq Made',
         RootJob \in Burst /\ Root \in Name =>
           RootJob \in Burst' \/ <<Root, "TXT">> \in Made'
  PROVE  Rooted'
  <1>1. Root' = Root /\ RootJob' = RootJob
    BY DEF Root, RootJob
  <1>. QED
    BY <1>1 DEF Rooted

LEMMA RootIssued ==
  ASSUME NEW M, Issued(M, RootJob), Root \in Name
  PROVE  <<Root, "TXT">> \in M
  <1>1. /\ RootJob.name = "include" /\ RootJob.arg = Root
        /\ RootJob.raw = FALSE /\ RootJob.depth = 0
    BY DEF RootJob, Job
  <1>2. MaxDepth \in Nat
    BY SessionAssumption DEF MaxDepth
  <1>3. Wanted(RootJob) /\ KeyOf(RootJob) = <<Root, "TXT">>
    BY <1>1, <1>2 DEF Wanted, Unexpanded, IsPolicy, DnsMechanism, KeyOf
  <1>. QED
    BY <1>3 DEF Issued

\* The evaluation of its own.
LEMMA NothingForgotten ==
  ASSUME NEW B, NEW T, NEW M
  PROVE  ~Forgets(B, T, M, B, T, M)
  BY DEF Forgets

LEMMA StandsStill ==
  ASSUME Speculated, UNCHANGED <<fetch, level, got, burst, side, seen>>,
         \A d \in Name : Holds(ready, <<d, "TXT">>) => Holds(ready', <<d, "TXT">>),
         Rooted'
  PROVE  Speculated'
  <1>1. Burst' = Burst /\ Made' = Made
    BY DEF Burst, Made
  <1>2. Handling'
    BY <1>1, HandlingKept, NothingForgotten DEF Speculated
  <1>3. Seeing'
    BY SeeingKept DEF Speculated
  <1>4. Looking'
    BY DEF Looking, Speculated
  <1>. QED
    BY <1>2, <1>3, <1>4 DEF Speculated

-----------------------------------------------------------------------------
(***************************************************************************)
(* The evaluation.                                                         *)
(***************************************************************************)
StackMoves ==
  \/ stack' = stack \/ stack' = <<>>
  \/ /\ Nested
     /\ \/ stack' = [stack EXCEPT ![1].idx = @ + 1]
        \/ \E p \in PolicyType : stack' = [stack EXCEPT ![1].policy = p]
        \/ \E f \in FrameType : stack' = <<f>> \o stack
        \/ /\ Top.via # "top"
           /\ \/ stack' = Tail(stack)
              \/ stack' = [Tail(stack) EXCEPT ![1].idx = @ + 1]

LEMMA StepStack ==
  ASSUME EvalKnown, Step, pc # "start"
  PROVE  StackMoves
  <1>0. EvalInv /\ EvalTypeOK /\ VerdictInv
    BY DEF EvalKnown, EvalInv
  <1>1. \A t \in Text : PolicyOf[t] \in PolicyType \cup {NotSpf, BadSyntax}
    BY EvaluatorAssumption
  <1>2. ASSUME NEW e, Raise(e) PROVE StackMoves
    BY <1>2 DEF Raise, StackMoves
  <1>3. ASSUME NEW v, NEW e, Return(v, e) PROVE StackMoves
    BY <1>3 DEF Return, frameVars, StackMoves
  <1>4. Match => StackMoves
    BY <1>3 DEF Match
  <1>5. NextHost => StackMoves
    BY DEF NextHost, frameVars, StackMoves
  <1>6. ASSUME NEW k, NEW n, Ask(k, n) PROVE StackMoves
    BY <1>6 DEF Ask, frameVars, StackMoves
  <1>7. ASSUME NEW n, Expand(n) PROVE StackMoves
    BY <1>7 DEF Expand, frameVars, StackMoves
  <1>8. ASSUME NEW t, ExpReturn(t) PROVE StackMoves
    BY <1>8 DEF ExpReturn, frameVars, StackMoves
  <1>9. ASSUME NoMatch, Nested PROVE StackMoves
    BY <1>9 DEF NoMatch, StackMoves
  <1>10. CASE EnterLate \/ EnterMalformed \/ EnterQuery
    BY <1>3, <1>6, <1>10 DEF EnterLate, EnterMalformed, EnterQuery, evalVars,
                             StackMoves
  <1>11. CASE EnterOverride
    <2>1. TakesOverride => Override \in Text
      BY EvaluatorAssumption DEF TakesOverride
    <2>2. /\ TakesOverride /\ Nested
          /\ \/ stack' = <<>>
             \/ /\ PolicyOf[Override] \notin {NotSpf, BadSyntax}
                /\ stack' = [stack EXCEPT ![1].policy = PolicyOf[Override]]
      BY <1>11 DEF EnterOverride, Nested, MainPc, WalkPc
    <2>. QED
      BY <1>1, <2>1, <2>2 DEF StackMoves
  <1>12. CASE FetchPolicy
    <2>1. pc = "policy" /\ status = "ready" /\ Nested
      BY <1>12 DEF FetchPolicy, Nested, MainPc, WalkPc
    <2>2. ASSUME NEW i \in SpfAt, Parse(reply.answers[i]) PROVE StackMoves
      <3>1. reply.answers[i] \in Text
        <4>1. reply.answers \in Seq(Text)
          BY <1>0, <2>1 DEF EvalInv, ReplyFits, TextAwait
        <4>. QED
          BY <2>2, <4>1 DEF SpfAt
      <3>2. \/ stack' = <<>>
            \/ /\ PolicyOf[reply.answers[i]] \notin {NotSpf, BadSyntax}
               /\ stack' = [stack EXCEPT ![1].policy = PolicyOf[reply.answers[i]]]
        BY <2>2 DEF Parse, Raise
      <3>. QED
        BY <1>1, <2>1, <3>1, <3>2 DEF StackMoves
    <2>. QED
      BY <1>2, <1>3, <1>12, <2>2 DEF FetchPolicy
  <1>13. CASE TermLate \/ LocalTerm \/ DnsTerm \/ Default
    <2>1. Nested
      BY <1>13 DEF TermLate, LocalTerm, DnsTerm, Default, Nested, MainPc, WalkPc
    <2>. QED
      BY <1>3, <1>4, <1>9, <1>13, <2>1
         DEF TermLate, LocalTerm, DnsTerm, Default, evalVars, frameVars, StackMoves
  <1>14. CASE Target \/ TargetMacro \/ AskTarget \/ AskPtr
    <2>1. Nested
      BY <1>14 DEF Target, TargetMacro, AskTarget, AskPtr, Expand, Nested, MainPc, WalkPc
    <2>. QED
      BY <1>6, <1>7, <1>9, <1>14, <2>1
         DEF Target, TargetMacro, AskTarget, AskPtr, frameVars, StackMoves
  <1>15. CASE Recurse
    <2> DEFINE f == Frame(target, Term.name, Term.name = "redirect" /\ Top.use_exp)
    <2>1. Nested /\ stack' = <<f>> \o stack /\ Term.name \in {"include", "redirect"}
      BY <1>15 DEF Recurse, Nested, MainPc, WalkPc
    <2>2. f \in FrameType
      BY <1>0, <2>1, NoPolicyTyped DEF EvalTypeOK, Frame, FrameType
    <2>. HIDE DEF f
    <2>. QED
      BY <2>1, <2>2 DEF StackMoves
  <1>16. CASE Answered \/ Exchanges
    <2>1. Nested
      BY <1>16 DEF Answered, Exchanges, Nested, MainPc, WalkPc
    <2>. QED
      BY <1>2, <1>4, <1>9, <1>16, <2>1 DEF Answered, Exchanges, frameVars, StackMoves
  <1>17. CASE PtrNames \/ SkipHost \/ AskHost \/ MacroDone
    BY <1>5, <1>6, <1>17 DEF PtrNames, SkipHost, AskHost, MacroDone, frameVars,
                             StackMoves
  <1>18. CASE NamesSpent
    BY <1>9, <1>18 DEF NamesSpent, Nested, MainPc, WalkPc
  <1>19. CASE HostAnswered
    BY <1>2, <1>4, <1>5, <1>19 DEF HostAnswered
  <1>20. CASE ReturnInclude \/ ReturnRedirect
    <2>1. Nested /\ Top.via # "top"
      BY <1>20 DEF ReturnInclude, ReturnRedirect, Nested, MainPc, WalkPc
    <2>. QED
      BY <1>20, <2>1 DEF ReturnInclude, ReturnRedirect, StackMoves
  <1>21. CASE IncludeMatch \/ ReturnTop \/ Unwind
    BY <1>2, <1>4, <1>21 DEF IncludeMatch, ReturnTop, Unwind, StackMoves
  <1>22. CASE \/ ExpEnter \/ ExpTarget \/ ExpTargetMacro \/ ExpAsk \/ ExpReply
              \/ ExpText \/ ExpTextMacro \/ ExpDone \/ ExpRaised \/ Finish
    BY <1>6, <1>7, <1>8, <1>22 DEF ExpEnter, ExpTarget, ExpTargetMacro, ExpAsk,
       ExpReply, ExpText, ExpTextMacro, ExpDone, ExpRaised, Finish, frameVars,
       StackMoves
  <1>23. \A d : ~Begin(d)
    BY DEF Begin
  <1>. QED
    BY <1>10, <1>11, <1>12, <1>13, <1>14, <1>15, <1>16, <1>17, <1>18, <1>19,
       <1>20, <1>21, <1>22, <1>23 DEF Step

\* The outermost check_host() is the same until the verdict is known.
LEMMA RootStays ==
  ASSUME EvalKnown, Step, pc # "start", stack' # <<>>
  PROVE  stack # <<>> /\ Root' = Root
  <1>1. CASE stack' = stack
    BY <1>1 DEF Root
  <1>2. CASE stack' # stack
    <2>0. EvalInv /\ Nested
      BY <1>2, StepStack DEF StackMoves, EvalKnown
    <2>1. /\ stack \in Seq(FrameType) /\ stack # <<>> /\ Len(stack) \in Nat \ {0}
          /\ \A i \in 1..Len(stack) : stack[i] \in FrameType
      BY <2>0, OpenStack, StackTop
    <2>2. ASSUME NEW q \in Seq(FrameType), q # <<>>,
                 q[Len(q)].domain = Root,
                 \/ stack' = [q EXCEPT ![1].idx = @ + 1]
                 \/ \E p \in PolicyType : stack' = [q EXCEPT ![1].policy = p]
          PROVE  Root' = Root
      <3>1. Len(q) \in Nat \ {0} /\ DOMAIN q = 1..Len(q) /\ \A i \in 1..Len(q) : q[i] \in FrameType
        BY <2>2
      <3>2. Len(stack') = Len(q)
        BY <2>2, NoPolicyTyped, FramesUpdate
      <3>3. stack'[Len(q)].domain = q[Len(q)].domain
        <4>1. CASE Len(q) # 1
          BY <2>2, <3>1, <4>1
        <4>2. CASE Len(q) = 1
          BY <2>2, <3>1, <4>2 DEF FrameType
        <4>. QED
          BY <4>1, <4>2
      <3>. QED
        BY <2>2, <3>2, <3>3 DEF Root
    <2>3. CASE \/ stack' = [stack EXCEPT ![1].idx = @ + 1]
               \/ \E p \in PolicyType : stack' = [stack EXCEPT ![1].policy = p]
      BY <2>1, <2>2, <2>3 DEF Root
    <2>4. ASSUME NEW f \in FrameType, stack' = <<f>> \o stack
          PROVE  Root' = Root
      <3>1. Len(stack') = Len(stack) + 1 /\ stack'[Len(stack) + 1] = stack[Len(stack)]
        BY <2>1, <2>4
      <3>. QED
        BY <3>1 DEF Root
    <2>5. CASE /\ Top.via # "top"
               /\ \/ stack' = Tail(stack)
                  \/ stack' = [Tail(stack) EXCEPT ![1].idx = @ + 1]
      <3>1. Tail(stack) \in Seq(FrameType) /\ Tail(stack) # <<>>
        BY <2>0, <2>1, <2>5, TailFrames DEF EvalInv
      <3>2. Len(Tail(stack)) = Len(stack) - 1 /\ Len(Tail(stack)) \in Nat \ {0}
        BY <2>1, <3>1
      <3>3. Tail(stack)[Len(stack) - 1] = stack[Len(stack)]
        BY <2>1, <3>2
      <3>4. Tail(stack)[Len(Tail(stack))].domain = Root
        BY <3>2, <3>3 DEF Root
      <3>5. CASE stack' = Tail(stack)
        BY <2>1, <3>4, <3>5 DEF Root
      <3>6. CASE stack' = [Tail(stack) EXCEPT ![1].idx = @ + 1]
        BY <2>1, <2>2, <3>1, <3>4, <3>6
      <3>. QED
        BY <2>1, <2>5, <3>5, <3>6
    <2>. QED
      BY <1>2, <2>1, <2>3, <2>4, <2>5, StepStack DEF StackMoves
  <1>. QED
    BY <1>1, <1>2

LEMMA TailKeeps ==
  ASSUME NEW S, NEW s \in Seq(S), s # <<>>, NEW x, Holds(s, x), x # Head(s)
  PROVE  Holds(Tail(s), x)
  <1>1. PICK i \in 1..Len(s) : s[i] = x
    BY DEF Holds
  <1>2. i # 1
    BY <1>1
  <1>3. i - 1 \in DOMAIN Tail(s) /\ Tail(s)[i - 1] = x
    BY <1>1, <1>2
  <1>. QED
    BY <1>3 DEF Holds

\* The evaluator moves, or is resumed.
LEMMA EvaluateKept ==
  ASSUME EvalKnown, LoopInv, Speculated, EvaluateStep
  PROVE  Speculated'
  <1>1. /\ Step /\ pc # "start"
        /\ UNCHANGED <<fetch, level, got, burst, side, seen>>
        /\ ready' = ready \/ ready' = Append(ready, NoKey)
    BY DEF EvaluateStep, Claim, pfVars, issueVars
  <1>2. \A d \in Name : Holds(ready, <<d, "TXT">>) => Holds(ready', <<d, "TXT">>)
    <2>1. ready \in Seq(Key \cup {NoKey})
      BY DEF LoopInv, DataInv, HookInv
    <2>2. NoKey \in Key \cup {NoKey}
      OBVIOUS
    <2>3. \A y : Holds(Append(ready, NoKey), y) <=> Holds(ready, y) \/ y = NoKey
      BY ONLY <2>1, <2>2, AppendHolds
    <2>. QED
      BY <1>1, <2>3
  <1>3. Rooted'
    <2> SUFFICES ASSUME stack' # <<>>, Root' \in Name
                 PROVE  (RootJob \in Burst)' \/ (<<Root, "TXT">> \in Made)'
      BY DEF Rooted
    <2>1. stack # <<>> /\ Root' = Root
      BY <1>1, RootStays
    <2>2. RootJob' = RootJob /\ Burst' = Burst /\ Made' = Made
      BY <1>1, <2>1 DEF RootJob, Burst, Made
    <2>3. RootJob \in Burst \/ <<Root, "TXT">> \in Made
      BY <1>1, <2>1 DEF Speculated, Rooted
    <2>. QED
      BY <2>1, <2>2, <2>3
  <1>. QED
    BY <1>1, <1>2, <1>3, StandsStill

LEMMA ResumeKept ==
  ASSUME LoopInv, Speculated, Resume \/ UNCHANGED allVars
  PROVE  Speculated'
  <1>1. /\ UNCHANGED <<fetch, level, got, burst, side, seen, stack, pc>>
        /\ \/ ready' = ready
           \/ ready # <<>> /\ Head(ready) = NoKey /\ ready' = Tail(ready)
    BY DEF Resume, ResumeLive, ResumeTask, OutcomeReaches, Resumed, issueVars,
           evalVars, vars, pfVars, allVars
  <1>2. \A d \in Name : Holds(ready, <<d, "TXT">>) => Holds(ready', <<d, "TXT">>)
    <2>1. ready \in Seq(Key \cup {NoKey})
      BY DEF LoopInv, DataInv, HookInv
    <2>2. \A d \in Name : <<d, "TXT">> # NoKey
      BY KeyTypes, SessionAssumption
    <2>. QED
      BY <1>1, <2>1, <2>2, TailKeeps
  <1>3. Burst' = Burst /\ Made' = Made
    BY <1>1 DEF Burst, Made
  <1>4. RootJob \in Burst => RootJob \in Burst' \/ KeyOf(RootJob) \in Made'
    BY <1>3
  <1>5. Rooted'
    BY <1>1, <1>3, <1>4, RootedKept DEF Speculated
  <1>. QED
    BY <1>1, <1>2, <1>5, StandsStill

LEMMA BeginKept ==
  ASSUME Predictable, Fresh, SpeculatedInv, Speculated, EvaluateBegin
  PROVE  Speculated'
  <1>1. PICK d \in Start :
          /\ Begin(d)
          /\ IF d = BadIp THEN UNCHANGED pfVars
             ELSE /\ burst' = <<Job("include", d, FALSE, d, 0)>> /\ seen' = seen
                  /\ UNCHANGED <<fetch, got, level, ready, side>>
    BY DEF EvaluateBegin, Predictable, issueVars
  <1>2. pc = "start" /\ burst = <<>> /\ stack = <<>>
    BY <1>1 DEF Begin, Fresh, SpeculatedInv
  <1>3. UNCHANGED <<fetch, got, level, ready, side, seen>>
    BY <1>1 DEF pfVars, issueVars
  <1>4. Made' = Made
    BY <1>3 DEF Made
  <1>5. Handling'
    <2>1. Burst = {}
      BY <1>2 DEF Burst
    <2>2. ~Forgets(Burst, side, Made, Burst', side', Made')
      BY <1>3, <1>4, <2>1 DEF Forgets
    <2>. QED
      BY <1>3, <2>2, HandlingKept DEF Speculated
  <1>6. Looking' /\ Seeing'
    BY <1>3 DEF Speculated, Looking, Seeing
  <1>7. Rooted'
    <2>1. CASE d = BadIp
      BY <1>1, <1>2, <2>1 DEF Begin, Rooted
    <2>2. CASE d # BadIp
      <3>1. /\ stack' = <<Frame(d, "top", TRUE)>>
            /\ burst' = <<Job("include", d, FALSE, d, 0)>>
        BY <1>1, <2>2 DEF Begin
      <3>2. Root' = d
        BY <3>1 DEF Root, Frame
      <3>3. RootJob' = Job("include", d, FALSE, d, 0)
        BY <3>2 DEF RootJob
      <3>4. (RootJob \in Burst)'
        <4>1. 1 \in DOMAIN burst' /\ burst'[1] = RootJob'
          BY <3>1, <3>3
        <4>. QED
          BY <4>1 DEF Burst
      <3>. QED
        BY <3>4 DEF Rooted
    <2>. QED
      BY <2>1, <2>2
  <1>. QED
    BY <1>5, <1>6, <1>7 DEF Speculated

-----------------------------------------------------------------------------
(***************************************************************************)
(* Lookups.                                                                *)
(***************************************************************************)
LEMMA ConcatHolds ==
  ASSUME NEW S, NEW s \in Seq(S), NEW t \in Seq(S), NEW x, Holds(s, x) \/ Holds(t, x)
  PROVE  Holds(s \o t, x)
  <1>1. /\ Len(s) \in Nat /\ Len(t) \in Nat /\ Len(s \o t) = Len(s) + Len(t)
        /\ DOMAIN (s \o t) = 1..(Len(s) + Len(t))
        /\ \A i \in 1..Len(s) : (s \o t)[i] = s[i]
        /\ \A i \in 1..Len(t) : (s \o t)[Len(s) + i] = t[i]
    OBVIOUS
  <1>2. CASE Holds(s, x)
    <2>1. PICK i \in 1..Len(s) : s[i] = x
      BY <1>2 DEF Holds
    <2>2. i \in DOMAIN (s \o t)
      BY <1>1
    <2>. QED
      BY <1>1, <2>1, <2>2 DEF Holds
  <1>3. CASE Holds(t, x)
    <2>1. PICK i \in 1..Len(t) : t[i] = x
      BY <1>3 DEF Holds
    <2>2. Len(s) + i \in DOMAIN (s \o t)
      BY <1>1
    <2>. QED
      BY <1>1, <2>1, <2>2 DEF Holds
  <1>. QED
    BY <1>2, <1>3

LEMMA EndReady ==
  ASSUME LoopInv, NEW k \in Key, NEW o, NEW a, End(k, o, a)
  PROVE  /\ \A x : Holds(ready, x) => Holds(ready', x)
         /\ level[k] > 0 /\ o = "done" => Holds(ready', k)
  <1> DEFINE hook == IF level[k] > 0 /\ o = "done" THEN <<k>> ELSE <<>>
             wake == IF wait = "task" /\ key = k THEN <<NoKey>> ELSE <<>>
             S == Key \cup {NoKey}
  <1>1. ready \in Seq(S) /\ hook \in Seq(S) /\ wake \in Seq(S)
    BY OneSeq, EmptyIsSeq DEF LoopInv, DataInv, HookInv
  <1>2. ready' = (ready \o hook) \o wake
    BY DEF End
  <1>3. level[k] > 0 /\ o = "done" => Holds(hook, k)
    BY DEF Holds
  <1> HIDE DEF hook, wake, S
  <1>4. ready \o hook \in Seq(S)
    BY <1>1
  <1>5. ASSUME NEW x, Holds(ready, x) \/ Holds(hook, x)
        PROVE  Holds(ready', x)
    <2>1. Holds(ready \o hook, x)
      BY <1>1, <1>5, ConcatHolds
    <2>. QED
      BY ONLY <1>1, <1>2, <1>4, <2>1, ConcatHolds
  <1>. QED
    BY <1>3, <1>5

LEMMA AcquireKept ==
  ASSUME LoopInv, Speculated, ~Hindered', Acquire
  PROVE  Speculated'
  <1> PICK k : k = Head(sem)
    OBVIOUS
  <1>1. k \in Key /\ fetch[k] = "queued"
    <2>1. sem \in Seq(Key) /\ Once(sem) /\ sem # <<>>
      BY DEF Acquire, LoopInv, PoolInv, QueueInv
    <2>. QED
      BY <2>1, TailHolds DEF LoopInv, PoolInv, QueueInv
  <1>2. UNCHANGED vars /\ ~expired
    <2>1. UNCHANGED vars
      BY LoopIsStutter DEF Speculate
    <2>. QED
      BY <2>1 DEF Hindered, vars, sessionVars
  <1>3. /\ fetch' = [fetch EXCEPT ![k] = "sent"]
        /\ UNCHANGED <<got, level, ready, burst, side, seen, stack, pc>>
    BY <1>2 DEF Acquire, vars, evalVars
  <1>4. fetch \in [Key -> FetchState]
    BY DEF LoopInv, PoolInv, QueueInv
  <1>5. Burst' = Burst /\ Made' = Made
    BY <1>1, <1>3, <1>4 DEF Burst, Made
  <1>6. Looking'
    <2>1. \A m \in Key : fetch'[m] = fetch[m] \/ (fetch'[m] = "sent" /\ fetch[m] # "none")
      BY <1>1, <1>3, <1>4
    <2>2. \A d \in Name : <<d, "TXT">> \in Key
      BY KeyTypes
    <2>. QED
      BY <1>3, <2>1, <2>2 DEF Speculated, Looking, Live
  <1>7. Seeing'
    <2>1. \A m \in Key : fetch'[m] = "done" => fetch[m] = "done"
      BY <1>3, <1>4
    <2>2. \A d \in Name : <<d, "TXT">> \in Key
      BY KeyTypes
    <2>. QED
      BY <1>3, <2>1, <2>2, SeeingKept DEF Speculated
  <1>8. Handling'
    BY <1>3, <1>5, HandlingKept, NothingForgotten DEF Speculated
  <1>9. Rooted'
    BY <1>3, <1>5, RootedKept DEF Speculated
  <1>. QED
    BY <1>6, <1>7, <1>8, <1>9 DEF Speculated

LEMMA FetchEndsKept ==
  ASSUME LoopInv, Speculated, ~Hindered', NEW k \in Key, FetchEnds(k)
  PROVE  Speculated'
  <1>1. UNCHANGED vars /\ ~expired
    <2>1. UNCHANGED vars
      BY LoopIsStutter DEF Speculate
    <2>. QED
      BY <2>1 DEF Hindered, vars, sessionVars
  <1>2. fetch \in [Key -> FetchState] /\ fetch[k] = "sent"
        /\ got \in [Key -> AnyAnswer]
    BY DEF LoopInv, PoolInv, QueueInv, DataInv, GotInv, FetchEnds
  <1>3. PICK o, a : /\ End(k, o, a)
                    /\ \/ o = "done" /\ a \in Reply[k]
                       \/ o = "dnserror" /\ k \in Raises
    <2>1. ASSUME End(k, "defect", NoAnswer) PROVE FALSE
      <3>1. fetch'[k] = "defect"
        BY <1>2, <2>1 DEF End
      <3>. QED
        BY <3>1 DEF Hindered
    <2>. QED
      BY <1>1, <2>1 DEF FetchEnds
  <1>4. /\ fetch' = [fetch EXCEPT ![k] = o] /\ got' = [got EXCEPT ![k] = a]
        /\ UNCHANGED <<level, burst, side, seen, stack, pc>>
    BY <1>1, <1>3 DEF End, vars, evalVars
  <1>5. Burst' = Burst /\ Made' = Made
    BY <1>2, <1>3, <1>4 DEF Burst, Made
  <1>6. /\ fetch'[k] = o /\ got'[k] = a
        /\ \A m \in Key : m # k => fetch'[m] = fetch[m] /\ got'[m] = got[m]
    BY <1>2, <1>4
  <1>7. \A d \in Name : <<d, "TXT">> \in Key
    BY KeyTypes
  <1>8. Looking'
    <2>1. \A m \in Key : fetch'[m] \in {"none", "done", "dnserror"} \cup Live
      BY <1>3, <1>6 DEF Speculated, Looking
    <2>2. \A m \in Key : fetch'[m] = "dnserror" => m \in Raises
      BY <1>3, <1>6 DEF Speculated, Looking
    <2>3. \A m \in Key : fetch'[m] = "done" => got'[m] \in Reply[m]
      BY <1>3, <1>6 DEF Speculated, Looking
    <2>4. \A m \in Key : fetch'[m] # "none" => fetch[m] # "none"
      BY <1>2, <1>6
    <2>. QED
      BY <1>4, <1>7, <2>1, <2>2, <2>3, <2>4 DEF Speculated, Looking
  <1>9. Seeing'
    <2>1. /\ \A x : Holds(ready, x) => Holds(ready', x)
          /\ level[k] > 0 /\ o = "done" => Holds(ready', k)
      BY <1>3, EndReady
    <2>2. ASSUME NEW d \in Name, fetch'[<<d, "TXT">>] = "done"
          PROVE  fetch[<<d, "TXT">>] = "done" \/ Holds(ready', <<d, "TXT">>)
      <3>1. CASE k = <<d, "TXT">>
        <4>1. level[k] > 0 /\ o = "done"
          BY <1>2, <1>6, <2>2, <3>1 DEF Speculated, Looking
        <4>. QED
          BY <2>1, <3>1, <4>1
      <3>2. CASE k # <<d, "TXT">>
        BY <1>6, <1>7, <2>2, <3>2
      <3>. QED
        BY <3>1, <3>2
    <2>. QED
      BY <1>4, <2>1, <2>2, SeeingKept DEF Speculated
  <1>10. Handling'
    BY <1>4, <1>5, HandlingKept, NothingForgotten DEF Speculated
  <1>11. Rooted'
    BY <1>4, <1>5, RootedKept DEF Speculated
  <1>. QED
    BY <1>8, <1>9, <1>10, <1>11 DEF Speculated

\* Nothing hinders it, so what is asked for is issued.
LEMMA IssueMakes ==
  ASSUME LoopInv, ~Hindered, NEW k \in Key, Issue(k)
  PROVE  /\ k \in Made' /\ Made \subseteq Made' /\ HasTask(k)
         /\ \A m \in Key : \/ fetch'[m] = fetch[m]
                           \/ /\ m = k /\ CanIssue(k)
                              /\ fetch[m] = "none" /\ fetch'[m] = "queued"
  <1>1. fetch \in [Key -> FetchState]
    BY DEF LoopInv, PoolInv, QueueInv
  <1>2. fetch[k] = "none" <=> CanIssue(k)
    BY DEF Hindered, CanIssue
  <1>3. CASE CanIssue(k)
    BY <1>1, <1>2, <1>3 DEF Issue, Made, HasTask
  <1>4. CASE ~CanIssue(k)
    BY <1>2, <1>4 DEF Issue, issueVars, Made, HasTask
  <1>. QED
    BY <1>3, <1>4

LEMMA TxtKey ==
  ASSUME NEW j, NEW d, KeyOf(j) = <<d, "TXT">>
  PROVE  IsPolicy(j)
  BY EvaluatorAssumption DEF KeyOf, RevKey, Host

\* The lookups of a step that issues at most one more.
LEMMA IssueLooking ==
  ASSUME Looking, got' = got, NEW k \in Key,
         \A m \in Key : \/ fetch'[m] = fetch[m]
                        \/ m = k /\ fetch[m] = "none" /\ fetch'[m] = "queued",
         \A m \in Key : level[m] > 0 => level'[m] > 0,
         \A d \in Name : k = <<d, "TXT">> /\ fetch[k] = "none" /\ fetch'[k] # "none"
                           => level'[k] > 0
  PROVE  Looking' /\ \A m \in Key : fetch'[m] = "done" => fetch[m] = "done"
  <1>1. \A m \in Key : fetch'[m] \in {"none", "done", "dnserror"} \cup Live
    BY DEF Looking, Live
  <1>2. \A m \in Key : /\ fetch'[m] = "dnserror" => fetch[m] = "dnserror"
                       /\ fetch'[m] = "done" => fetch[m] = "done"
    OBVIOUS
  <1>3. ASSUME NEW d \in Name, fetch'[<<d, "TXT">>] # "none"
        PROVE  level'[<<d, "TXT">>] > 0
    <2>1. <<d, "TXT">> \in Key
      BY KeyTypes
    <2>2. CASE fetch[<<d, "TXT">>] # "none"
      BY <2>1, <2>2 DEF Looking
    <2>3. CASE fetch[<<d, "TXT">>] = "none"
      BY <1>3, <2>1, <2>3
    <2>. QED
      BY <2>2, <2>3
  <1>. QED
    BY <1>1, <1>2, <1>3 DEF Looking

\* A step with a burst or a side task in it.
LEMMA WorkKept ==
  ASSUME Speculated, UNCHANGED <<stack, pc, seen, ready>>, Looking',
         \A m \in Key : fetch'[m] = "done" => fetch[m] = "done",
         ~Forgets(Burst, side, Made, Burst', side', Made')
  PROVE  Speculated'
  <1>1. Made \subseteq Made'
    BY DEF Forgets
  <1>2. Handling'
    BY HandlingKept DEF Speculated
  <1>3. Seeing'
    <2>1. \A d \in Name : <<d, "TXT">> \in Key
      BY KeyTypes
    <2>. QED
      BY <2>1, SeeingKept DEF Speculated
  <1>4. Rooted'
    <2>1. ASSUME RootJob \in Burst, RootJob \notin Burst', Root \in Name
          PROVE  <<Root, "TXT">> \in Made'
      <3>1. ~Unexpanded(RootJob)
        BY DEF RootJob, Job, Unexpanded
      <3>2. Issued(Made', RootJob)
        BY <2>1, <3>1 DEF Forgets, JobKept
      <3>. QED
        BY <2>1, <3>2, RootIssued
    <2>. QED
      BY <1>1, <2>1, RootedKept DEF Speculated
  <1>. QED
    BY <1>2, <1>3, <1>4 DEF Speculated

LEMMA TailBurst ==
  ASSUME burst \in Seq(JobType), burst # <<>>, burst' = Tail(burst)
  PROVE  Head(burst) \in JobType /\ \A j \in Burst : j = Head(burst) \/ j \in Burst'
  <1>1. Head(burst) \in JobType
    OBVIOUS
  <1>2. ASSUME NEW j \in Burst, j # Head(burst)
        PROVE  j \in Burst'
    <2>1. Holds(burst, j)
      BY DEF Burst, Holds
    <2>2. Holds(burst', j)
      BY <1>2, <2>1, TailKeeps
    <2>. QED
      BY <2>2 DEF Burst, Holds
  <1>. QED
    BY <1>1, <1>2

LEMMA RunJobKept ==
  ASSUME LoopInv, Speculated, ~Hindered, RunJob
  PROVE  Speculated'
  <1> PICK j : j = Head(burst)
    OBVIOUS
  <1> PICK k : k = KeyOf(j)
    OBVIOUS
  <1>1. /\ Wanted(j) /\ Issue(k) /\ k \in Key
        /\ UNCHANGED <<stack, pc, got, seen, ready>>
        /\ burst' = Tail(burst) /\ burst # <<>> /\ burst \in Seq(JobType)
    BY WantedKey DEF RunJob, LoopInv, DataInv, BurstInv, vars, evalVars
  <1>2. /\ k \in Made' /\ Made \subseteq Made' /\ HasTask(k)
        /\ \A m \in Key : \/ fetch'[m] = fetch[m]
                          \/ /\ m = k /\ CanIssue(k)
                             /\ fetch[m] = "none" /\ fetch'[m] = "queued"
    BY <1>1, IssueMakes
  <1>3. j \in JobType /\ \A i \in Burst : i = j \/ i \in Burst'
    BY <1>1, TailBurst
  <1>4. /\ side \subseteq side'
        /\ Chases(j) => Task(j, "answer") \in side'
    BY <1>2 DEF RunJob, Spawn, Chases, Hindered
  <1>5. JobKept(Burst', side', Made', j)
    BY <1>1, <1>2, <1>4 DEF JobKept, Issued, Wanted
  <1>6. ~Forgets(Burst, side, Made, Burst', side', Made')
    BY <1>2, <1>3, <1>4, <1>5 DEF Forgets
  <1>7. /\ \A m \in Key : level[m] > 0 => level'[m] > 0
        /\ \A d \in Name : k = <<d, "TXT">> /\ fetch[k] = "none" /\ fetch'[k] # "none"
                             => level'[k] > 0
    <2>1. level \in [Key -> Nat] /\ j.depth + 1 \in Nat /\ j.depth + 1 > 0
      BY <1>3 DEF LoopInv, DataInv, HookInv, JobType
    <2>2. \/ level' = level
          \/ level' = [level EXCEPT ![k] = j.depth + 1]
      BY DEF RunJob
    <2>3. ASSUME NEW d \in Name, k = <<d, "TXT">>, fetch[k] = "none", fetch'[k] # "none"
          PROVE  level'[k] > 0
      <3>1. IsPolicy(j) /\ CanIssue(k)
        BY <1>1, <1>2, <2>3, TxtKey
      <3>2. level' = [level EXCEPT ![k] = j.depth + 1]
        BY <3>1 DEF RunJob
      <3>. QED
        BY <1>1, <2>1, <3>2
    <2>. QED
      BY <1>1, <2>1, <2>2, <2>3
  <1>8. Looking' /\ \A m \in Key : fetch'[m] = "done" => fetch[m] = "done"
    BY <1>1, <1>2, <1>7, IssueLooking DEF Speculated
  <1>. QED
    BY <1>1, <1>6, <1>8, WorkKept

LEMMA SkipJobKept ==
  ASSUME LoopInv, Speculated, ~Hindered, SkipJob
  PROVE  Speculated'
  <1> PICK j : j = Head(burst)
    OBVIOUS
  <1>1. /\ ~Wanted(j)
        /\ UNCHANGED <<stack, pc, got, seen, ready, fetch, level>>
        /\ burst' = Tail(burst) /\ burst # <<>> /\ burst \in Seq(JobType)
    BY DEF SkipJob, LoopInv, DataInv, BurstInv, vars, evalVars, issueVars
  <1>2. j \in JobType /\ \A i \in Burst : i = j \/ i \in Burst'
    BY <1>1, TailBurst
  <1>3. /\ side \subseteq side'
        /\ Unexpanded(j) => Task(j, "start") \in side'
    BY DEF SkipJob, Spawn, Hindered
  <1>4. Chases(j) => Unexpanded(j)
    BY <1>1 DEF Wanted, Chases, DnsMechanism, IsPolicy
  <1>5. JobKept(Burst', side', Made', j)
    BY <1>1, <1>3, <1>4 DEF JobKept, Issued
  <1>6. Made' = Made
    BY <1>1 DEF Made
  <1>7. ~Forgets(Burst, side, Made, Burst', side', Made')
    BY <1>2, <1>3, <1>5, <1>6 DEF Forgets
  <1>8. Looking'
    BY <1>1 DEF Speculated, Looking
  <1>. QED
    BY <1>1, <1>7, <1>8, WorkKept

\* The done-callback of a policy.
LEMMA HookKept ==
  ASSUME Predictable, LoopInv, OrderInv, Speculated, ~Hindered, Hook
  PROVE  Speculated'
  <1> PICK k : k = Head(ready)
    OBVIOUS
  <1>1. /\ ready # <<>> /\ k # NoKey /\ ready' = Tail(ready) /\ burst = <<>>
        /\ ready \in Seq(Key \cup {NoKey}) /\ k \in Key
        /\ UNCHANGED <<fetch, got, level, side, stack, pc>>
    BY DEF Hook, Suspended, LoopInv, DataInv, HookInv, vars, evalVars, issueVars
  <1>2. level[k] > 0 /\ level[k] \in Nat /\ Holds(ready, k)
    <2>1. ready[1] = k /\ 1 \in DOMAIN ready
      BY <1>1
    <2>. QED
      BY <1>1, <2>1 DEF LoopInv, DataInv, HookInv, Holds
  <1>3. PICK n \in Name : k = <<n, "TXT">>
    BY <1>1, <1>2 DEF LoopInv, DataInv, HookInv
  <1> PICK t : t = got[k].answers
    OBVIOUS
  <1> DEFINE spf == {i \in DOMAIN t : PolicyOf[t[i]] # NotSpf}
             e == level[k] - 1
  <1>4. \/ \E i \in spf : spf = {i} /\ IssueChildren(n, t[i], e)
        \/ Cardinality(spf) # 1 /\ UNCHANGED <<seen, burst>>
    BY <1>3 DEF Hook
  <1>5. e \in Nat /\ e < MaxDepth /\ MaxDepth \in Nat /\ ~Refuses
    BY <1>1, <1>2, SessionAssumption DEF MaxDepth, Hindered, TooDeep
  <1>6. seen \subseteq seen'
    BY <1>4 DEF IssueChildren
  <1>7. ASSUME NEW p, HasPolicy(n, p), n \notin seen
        PROVE  n \in seen' /\ burst' = Jobs(n, p, e)
    <2>1. fetch[k] \in Ended
      BY <1>1, <1>2 DEF OrderInv
    <2>2. t = Records(Oracle, k)
      <3>1. Records(Oracle, k) # <<>>
        BY <1>3, <1>7 DEF HasPolicy
      <3>. QED
        BY <1>1, <2>1, <3>1, ToldIs DEF LoopInv, DataInv, Speculated
    <2>3. PICK i \in DOMAIN t : spf = {i} /\ p = PolicyOf[t[i]] /\ p \in PolicyType
      BY <1>3, <1>7, <2>2 DEF HasPolicy
    <2>4. Cardinality(spf) = 1
      BY <2>3, FS_Singleton
    <2>5. IssueChildren(n, t[i], e)
      BY <1>4, <2>3, <2>4
    <2>6. p \notin {NotSpf, BadSyntax}
      BY <2>3, EvaluatorAssumption
    <2>. QED
      BY <1>5, <1>7, <2>3, <2>5, <2>6 DEF IssueChildren
  <1> HIDE DEF spf, e
  <1>8. Seeing'
    <2>1. ASSUME NEW d \in Name, Holds(ready, <<d, "TXT">>), NEW p, HasPolicy(d, p)
          PROVE  Holds(ready', <<d, "TXT">>) \/ d \in seen'
      <3>1. CASE d = n
        BY <1>6, <1>7, <2>1, <3>1
      <3>2. CASE d # n
        BY <1>1, <1>3, <2>1, <3>2, TailKeeps
      <3>. QED
        BY <3>1, <3>2
    <2>. QED
      BY <1>1, <1>6, <2>1, SeeingKept DEF Speculated
  <1>9. Burst = {} /\ Made' = Made
    BY <1>1 DEF Burst, Made
  <1>10. ~Forgets(Burst, side, Made, Burst', side', Made')
    BY <1>1, <1>9 DEF Forgets
  <1>11. Handling'
    <2> SUFFICES ASSUME NEW d \in Name, NEW p \in PolicyType,
                        d \in seen', HasPolicy(d, p)
                 PROVE  AllHandled(Burst', side', Made', d, p)
      BY DEF Handling
    <2>1. CASE d \in seen
      BY <1>10, <2>1, AllHandledKept DEF Speculated, Handling
    <2>2. CASE d \notin seen
      <3>1. d = n
        BY <1>4, <2>2 DEF IssueChildren
      <3>2. burst' = Jobs(d, p, e)
        BY <1>7, <2>2, <3>1
      <3>3. ASSUME NEW i \in DOMAIN Jobs(d, p, e)
            PROVE  Handled(Burst', side', Made', Jobs(d, p, e)[i])
        BY <3>2 DEF Handled, Burst
      <3>. QED
        BY <1>5, <3>3 DEF AllHandled
    <2>. QED
      BY <2>1, <2>2
  <1>12. Looking'
    BY <1>1 DEF Speculated, Looking
  <1>13. Rooted'
    BY <1>1, <1>9, RootedKept DEF Speculated
  <1>. QED
    BY <1>8, <1>11, <1>12, <1>13 DEF Speculated

-----------------------------------------------------------------------------
(***************************************************************************)
(* Side tasks.                                                             *)
(***************************************************************************)
\* What they look up is no policy.
LEMMA AdvanceIssues ==
  ASSUME NEW s, NEW hosts \in Seq(Name), NEW best, Advance(s, hosts, best)
  PROVE  \/ UNCHANGED issueVars
         \/ \E k \in Key : Issue(k) /\ \A d : k # <<d, "TXT">>
  <1>1. CASE hosts = <<>>
    BY <1>1 DEF Advance, EndsIn
  <1>2. CASE hosts # <<>>
    <2>1. Head(hosts) \in Name /\ Issue(Host(Head(hosts)))
      BY <1>2 DEF Advance
    <2>2. \A d : Host(Head(hosts)) # <<d, "TXT">>
      BY EvaluatorAssumption DEF Host
    <2>. QED
      BY <2>1, <2>2, HostInKey
  <1>. QED
    BY <1>1, <1>2

LEMMA SideIssues ==
  ASSUME LoopInv, NEW s \in side, StartSide(s) \/ ResumeSide(s)
  PROVE  \/ UNCHANGED issueVars
         \/ \E k \in Key : Issue(k) /\ \A d : k # <<d, "TXT">>
  <1>0. DataInv /\ TaskOk(s) /\ s \in TaskType
    BY DEF LoopInv, DataInv, SideInv, TaskOk
  <1>1. CASE StartSide(s)
    <2>1. \A d : RevKey # <<d, "TXT">>
      BY DEF RevKey
    <2>. QED
      BY <1>1, <2>1, RevInKey DEF StartSide, EndsIn
  <1>2. CASE ResumeSide(s)
    <2>1. CASE Advance(s, First(MaxPtr, Answers(RevKey)), Malformed)
      <3>1. First(MaxPtr, Answers(RevKey)) \in Seq(Name)
        BY <1>0, AnswersTyped, FirstTyped, EvaluatorAssumption
      <3>. QED
        BY <2>1, <3>1, AdvanceIssues
    <2>2. CASE s.at = "host" /\ Advance(s, Tail(s.names), Keeps(s))
      <3>1. s.names \in Seq(Name) /\ s.names # <<>>
        BY <1>0, <2>2 DEF TaskOk, TaskType
      <3>2. Tail(s.names) \in Seq(Name)
        BY <3>1
      <3>. QED
        BY <2>2, <3>2, AdvanceIssues
    <2>3. CASE EndsIn(s, <<>>) \/ FollowUp(s)
      BY <2>3 DEF FollowUp, EndsIn
    <2>4. s.at \in {"answer", "names", "host"}
      BY <1>0, <1>2 DEF TaskType, ResumeSide
    <2>. QED
      BY <1>2, <2>1, <2>2, <2>3, <2>4 DEF ResumeSide
  <1>. QED
    BY <1>1, <1>2

LEMMA SideKept ==
  ASSUME LoopInv, Speculated, ~Hindered, NEW s \in side,
         StartSide(s) \/ ResumeSide(s),
         TaskKept(Burst', side', Made, Made', s)
  PROVE  Speculated'
  <1>1. /\ UNCHANGED <<stack, pc, seen, ready, got, level>> /\ burst = <<>>
        /\ side \ {s} \subseteq side'
    <2>1. UNCHANGED <<stack, pc, seen, ready, got, level>> /\ burst = <<>>
      BY DEF StartSide, ResumeSide, Suspended, vars, evalVars
    <2>2. \E S : Become(s, S)
      BY DEF StartSide, ResumeSide, Advance, EndsIn, FollowUp
    <2>. QED
      BY <2>1, <2>2 DEF Become
  <1>2. Looking' /\ Made \subseteq Made' /\ \A m \in Key : fetch'[m] = "done" => fetch[m] = "done"
    <2>1. CASE UNCHANGED issueVars
      BY <1>1, <2>1 DEF issueVars, Speculated, Looking, Made
    <2>2. ASSUME NEW k \in Key, Issue(k), \A d : k # <<d, "TXT">>
          PROVE  Looking' /\ Made \subseteq Made'
                 /\ \A m \in Key : fetch'[m] = "done" => fetch[m] = "done"
      <3>1. /\ Made \subseteq Made'
            /\ \A m \in Key : \/ fetch'[m] = fetch[m]
                              \/ m = k /\ fetch[m] = "none" /\ fetch'[m] = "queued"
        BY <2>2, IssueMakes
      <3>. QED
        BY <1>1, <2>2, <3>1, IssueLooking DEF Speculated
    <2>. QED
      BY <2>1, <2>2, SideIssues
  <1>3. Burst = {}
    BY <1>1 DEF Burst
  <1>4. ~Forgets(Burst, side, Made, Burst', side', Made')
    BY <1>1, <1>2, <1>3 DEF Forgets
  <1>. QED
    BY <1>1, <1>2, <1>4, WorkKept

\* A burst of one.
LEMMA OneBurst ==
  ASSUME NEW j, burst' = <<j>>
  PROVE  j \in Burst'
  <1>1. 1 \in DOMAIN burst' /\ burst'[1] = j
    OBVIOUS
  <1>. QED
    BY <1>1 DEF Burst

LEMMA StartSideKept ==
  ASSUME LoopInv, Speculated, ~Hindered, NEW s \in side, StartSide(s)
  PROVE  Speculated'
  <1>0. s \in TaskType /\ s.job \in JobType /\ s.at = "start"
    BY DEF LoopInv, DataInv, SideInv, TaskOk, TaskType, StartSide
  <1>1. \A j : s # Task(j, "answer")
    BY <1>0 DEF Task
  <1>2. CASE s.job.arg = PMacro
    <2> PICK t : t = [s EXCEPT !.at = "names"]
      OBVIOUS
    <2>1. Issue(RevKey) /\ Become(s, {t})
      BY <1>2 DEF StartSide
    <2>2. RevKey \in Made' /\ t \in side'
      BY <2>1, RevInKey, IssueMakes DEF Become
    <2>3. t.job = s.job /\ t.at = "names"
      BY <1>0 DEF TaskType
    <2>4. ExpandsIn(side', Made', s.job)
      BY <1>2, <2>2, <2>3 DEF ExpandsIn, Expands
    <2>5. TaskKept(Burst', side', Made, Made', s)
      BY <1>1, <2>4 DEF TaskKept
    <2>. QED
      BY <2>5, SideKept
  <1>3. CASE s.job.arg # PMacro
    <2>1. burst' = <<[s.job EXCEPT !.raw = FALSE]>>
      BY <1>3 DEF StartSide, EndsIn
    <2>2. Expanded(s.job) = [s.job EXCEPT !.raw = FALSE]
      BY <1>0, <1>3 DEF Expanded, JobType
    <2>3. Expanded(s.job) \in Burst'
      BY <2>1, <2>2, OneBurst
    <2>4. ArgKeys(Oracle, s.job.arg) \subseteq Made'
      BY <1>3 DEF ArgKeys
    <2>5. TaskKept(Burst', side', Made, Made', s)
      BY <1>1, <2>3, <2>4 DEF TaskKept
    <2>. QED
      BY <2>5, SideKept
  <1>. QED
    BY <1>2, <1>3

\* %{p} goes on to its next host, or has its argument.
LEMMA AdvanceKept ==
  ASSUME Predictable, LoopInv, ~Hindered, NEW s \in side,
         s.job.arg = PMacro, NEW m \in 0..Len(PtrHosts(Oracle)),
         {PtrKey} \cup HostKeys(PtrHosts(Oracle), 1..m) \subseteq Made,
         NEW best,
         best = Preferred(PtrHosts(Oracle), Confirmed(Oracle) \cap (1..m),
                          s.job.domain),
         Advance(s, Left(PtrHosts(Oracle), m), best)
  PROVE  \/ ExpandsIn(side', Made', s.job)
         \/ ArgKeys(Oracle, s.job.arg) \subseteq Made' /\ Expanded(s.job) \in Burst'
  <1> PICK H : H = PtrHosts(Oracle)
    OBVIOUS
  <1>0. H \in Seq(Name) /\ Len(H) \in Nat /\ DOMAIN H = 1..Len(H)
    BY OracleZone, PtrHostsTyped
  <1>1. s \in TaskType /\ s.job \in JobType
    BY DEF LoopInv, DataInv, SideInv, TaskOk, TaskType
  <1>2. CASE m = Len(H)
    <2>1. Left(H, m) = <<>>
      BY <1>0, <1>2, LeftIs
    <2>2. Confirmed(Oracle) \cap (1..m) = Confirmed(Oracle)
      BY <1>0, <1>2 DEF Confirmed
    <2>3. best = RefP(Oracle, s.job.domain)
      BY <2>2 DEF RefP
    <2>4. burst' = <<[s.job EXCEPT !.arg = best, !.raw = FALSE]>>
          /\ UNCHANGED issueVars
      BY <2>1 DEF Advance, EndsIn
    <2>5. Expanded(s.job) = [s.job EXCEPT !.arg = best, !.raw = FALSE]
      BY <1>1, <2>3 DEF Expanded, JobType
    <2>6. Expanded(s.job) \in Burst'
      BY <2>4, <2>5, OneBurst
    <2>7. ArgKeys(Oracle, s.job.arg) \subseteq Made
      BY <1>0, <1>2 DEF ArgKeys
    <2>8. Made' = Made
      BY <2>4 DEF issueVars, Made
    <2>. QED
      BY <2>6, <2>7, <2>8
  <1>3. CASE m # Len(H)
    <2> DEFINE t == [s EXCEPT !.at = "host", !.names = Left(H, m), !.found = best]
    <2>0. m \in 0..Len(H) /\ m \in Nat /\ m < Len(H)
      <3>1. \A L \in Nat : \A x \in 0..L : x # L => x \in Nat /\ x < L
        OBVIOUS
      <3>2. m \in 0..Len(H) /\ Len(H) \in Nat
        BY <1>0
      <3>. QED
        BY ONLY <1>3, <3>1, <3>2
    <2>1. /\ Left(H, m) # <<>> /\ Head(Left(H, m)) = H[m + 1] /\ H[m + 1] \in Name
          /\ m \in Nat /\ m < Len(H)
      BY <1>0, <1>3, <2>0, LeftIs
    <2>2. Issue(Host(H[m + 1])) /\ Become(s, {t})
      BY <2>1 DEF Advance
    <2>3. Host(H[m + 1]) \in Made' /\ Made \subseteq Made'
      BY <2>1, <2>2, HostInKey, IssueMakes
    <2>4. {PtrKey} \cup HostKeys(H, 1..(m + 1)) \subseteq Made'
      BY <2>1, <2>3, HostKeysStep, PtrIsRev
    <2>5. /\ t.job = s.job /\ t.at = "host" /\ t.names = Left(H, m)
          /\ t.found = best
      BY <1>1 DEF TaskType
    <2>6. t \in side'
      BY <2>2 DEF Become
    <2> HIDE DEF t
    <2>7. Confirming(Made', t, m)
      BY <2>1, <2>4, <2>5 DEF Confirming
    <2>. QED
      BY <2>1, <2>5, <2>6, <2>7 DEF ExpandsIn, Expands
  <1>. QED
    BY <1>2, <1>3

\* The hosts of mx or ptr are in the burst.
LEMMA FollowUpKept ==
  ASSUME Predictable, LoopInv, Speculated, NEW s \in side, ResumeSide(s),
         NEW j, s = Task(j, "answer"), Chases(j), KeyOf(j) \in Made
  PROVE  HostsLooked(Burst', Made', j)
  <1> PICK k : k = KeyOf(j)
    OBVIOUS
  <1>1. /\ s.at = "answer" /\ s.job = j /\ Awaits(s) = k
        /\ TaskOk(s) /\ j \in JobType
    BY DEF Task, Awaits, LoopInv, DataInv, SideInv, TaskOk, TaskType
  <1>2. k \in Key /\ k = (IF j.name = "ptr" THEN RevKey ELSE <<j.arg, "MX">>)
    BY RevInKey, KeyTypes DEF Chases, KeyOf, IsPolicy
  <1>3. fetch[k] \in Ended /\ fetch[k] # "cancelled"
    BY <1>1, <1>2 DEF ResumeSide, Speculated, Looking, Live, Made
  <1>4. FollowUp(s)
    BY <1>1, <1>3 DEF ResumeSide
  <1> DEFINE mx == j.name = "mx"
             all == got[k].answers
             used == IF mx THEN (IF Len(all) > MaxMx THEN <<>> ELSE all)
                           ELSE First(MaxPtr, all)
  <1>5. burst' = [i \in DOMAIN used |-> HostJob(j, used[i])]
    BY <1>1, <1>4 DEF FollowUp, EndsIn, HostJob
  <1>6. CASE Records(Oracle, k) # <<>>
    <2>1. all = Records(Oracle, k)
      BY <1>2, <1>3, <1>6, ToldIs DEF LoopInv, DataInv, Speculated
    <2>2. used = HostsOf(j.name, j.arg)
      BY <1>2, <2>1, PtrIsRev DEF HostsOf, PtrHosts, Chases
    <2> HIDE DEF used
    <2>3. ASSUME NEW i \in DOMAIN used
          PROVE  HostJob(j, used[i]) \in Burst'
      BY <1>5, <2>3 DEF Burst
    <2>. QED
      BY <2>2, <2>3 DEF HostsLooked, HostJobs
  <1>7. CASE Records(Oracle, k) = <<>>
    <2>1. HostsOf(j.name, j.arg) = <<>>
      <3>1. First(MaxPtr, <<>>) = <<>>
        BY EvaluatorAssumption DEF First
      <3>. QED
        BY <1>2, <1>7, <3>1, PtrIsRev DEF HostsOf, PtrHosts, Chases
    <2>. QED
      BY <2>1 DEF HostsLooked, HostJobs
  <1>. QED
    BY <1>6, <1>7

\* %{p} has the names of the client.
LEMMA NamesKept ==
  ASSUME Predictable, LoopInv, Speculated, ~Hindered, NEW s \in side,
         ResumeSide(s), s.at = "names", s.job.arg = PMacro, RevKey \in Made
  PROVE  \/ ExpandsIn(side', Made', s.job)
         \/ ArgKeys(Oracle, s.job.arg) \subseteq Made' /\ Expanded(s.job) \in Burst'
  <1> PICK H : H = PtrHosts(Oracle)
    OBVIOUS
  <1>0. H \in Seq(Name) /\ Len(H) \in Nat /\ 0 \in 0..Len(H)
    BY OracleZone, PtrHostsTyped
  <1>1. Awaits(s) = RevKey
    BY DEF Awaits
  <1>2. fetch[RevKey] \in Ended /\ fetch[RevKey] # "cancelled"
    BY <1>1, RevInKey DEF ResumeSide, Speculated, Looking, Live, Made
  <1>3. Answers(RevKey) = Records(Oracle, RevKey)
    BY <1>2, RevInKey, ToldIs DEF LoopInv, DataInv, Speculated
  <1>4. First(MaxPtr, Answers(RevKey)) = Left(H, 0)
    <2>1. First(MaxPtr, Answers(RevKey)) = H
      BY <1>3, PtrIsRev DEF PtrHosts
    <2>. QED
      BY <1>0, <2>1, LeftIs
  <1>5. Advance(s, Left(H, 0), Malformed)
    BY <1>1, <1>2, <1>4 DEF ResumeSide
  <1>6. Confirmed(Oracle) \cap (1..0) = {}
    OBVIOUS
  <1>7. Malformed = Preferred(H, Confirmed(Oracle) \cap (1..0), s.job.domain)
    BY <1>6 DEF Preferred
  <1>8. {PtrKey} \cup HostKeys(H, 1..0) \subseteq Made
    <2>1. HostKeys(H, 1..0) = {}
      BY DEF HostKeys
    <2>. QED
      BY <2>1, PtrIsRev
  <1>. QED
    BY <1>0, <1>5, <1>7, <1>8, AdvanceKept

\* %{p} has the addresses of a host.
LEMMA HostsKept ==
  ASSUME Predictable, LoopInv, Speculated, ~Hindered, NEW s \in side,
         ResumeSide(s), s.at = "host", s.job.arg = PMacro, s.job.domain \in Name,
         NEW m \in Nat, Confirming(Made, s, m)
  PROVE  \/ ExpandsIn(side', Made', s.job)
         \/ ArgKeys(Oracle, s.job.arg) \subseteq Made' /\ Expanded(s.job) \in Burst'
  <1> PICK H : H = PtrHosts(Oracle)
    OBVIOUS
  <1>0. H \in Seq(Name) /\ Len(H) \in Nat
    BY OracleZone, PtrHostsTyped
  <1>1. /\ m < Len(H) /\ s.names = Left(H, m)
        /\ s.found = Preferred(H, Confirmed(Oracle) \cap (1..m), s.job.domain)
        /\ {PtrKey} \cup HostKeys(H, 1..(m + 1)) \subseteq Made
    BY DEF Confirming
  <1>2. m \in 0..Len(H) /\ m + 1 \in 0..Len(H) /\ m + 1 \in 1..Len(H) /\ m # Len(H)
    BY <1>0, <1>1
  <1> PICK h : h = H[m + 1]
    OBVIOUS
  <1>3. /\ h \in Name /\ Head(s.names) = h /\ Tail(s.names) = Left(H, m + 1)
    BY <1>0, <1>1, <1>2, LeftIs
  <1>4. Awaits(s) = Host(h) /\ Host(h) \in Key /\ Host(h) \in Made
    <2>1. Host(h) \in HostKeys(H, 1..(m + 1))
      BY <1>2, PtrIsRev DEF HostKeys
    <2>. QED
      BY <1>1, <1>3, <2>1, HostInKey DEF Awaits
  <1>5. fetch[Host(h)] \in Ended /\ fetch[Host(h)] # "cancelled"
    BY <1>4 DEF ResumeSide, Speculated, Looking, Live, Made
  <1>6. Answers(Host(h)) = Records(Oracle, Host(h))
    BY <1>4, <1>5, ToldIs DEF LoopInv, DataInv, Speculated
  <1>7. Advance(s, Left(H, m + 1), Keeps(s))
    BY <1>3, <1>4, <1>5 DEF ResumeSide
  <1> DEFINE ok == Confirmed(Oracle) \cap (1..m)
             self == In(Oracle, h, {"self"})
             d == s.job.domain
  <1>8. Keeps(s) = IF self /\ (s.found = Malformed
                                 \/ RankIn(h, d) < RankIn(s.found, d))
                     THEN h ELSE s.found
    <2>1. self <=> \E i \in DOMAIN Answers(Host(h)) : Answers(Host(h))[i] = "self"
      BY <1>6, PtrIsRev DEF In
    <2> HIDE DEF self
    <2>. QED
      BY <1>3, <2>1 DEF Keeps
  <1>9. Confirmed(Oracle) \cap (1..(m + 1)) = IF self THEN ok \cup {m + 1} ELSE ok
    <2>1. m + 1 \in Confirmed(Oracle) <=> self
      BY <1>0, <1>2 DEF Confirmed
    <2>2. 1..(m + 1) = (1..m) \cup {m + 1}
      BY <1>2
    <2>. QED
      BY <2>1, <2>2
  <1>10. Keeps(s) = Preferred(H, Confirmed(Oracle) \cap (1..(m + 1)), d)
    <2>0. ok \in SUBSET (1..m) /\ d \in Domains /\ s.found = Preferred(H, ok, d)
      BY <1>1 DEF Domains
    <2> HIDE DEF ok, self, d
    <2>1. Preferred(H, ok \cup {m + 1}, d) =
            IF s.found = Malformed \/ RankIn(h, d) < RankIn(s.found, d)
              THEN h ELSE s.found
      BY <1>0, <1>2, <2>0, PreferredStep
    <2>2. CASE self
      BY <1>8, <1>9, <2>1, <2>2
    <2>3. CASE ~self
      BY <1>8, <1>9, <2>0, <2>3
    <2>. QED
      BY <2>2, <2>3
  <1>. QED
    BY <1>1, <1>2, <1>7, <1>10, AdvanceKept

LEMMA ResumeSideKept ==
  ASSUME Predictable, LoopInv, Speculated, ~Hindered, NEW s \in side, ResumeSide(s)
  PROVE  Speculated'
  <1>1. s \in TaskType /\ s.at # "start"
    BY DEF LoopInv, DataInv, SideInv, TaskOk, ResumeSide
  <1>2. ASSUME NEW j, s = Task(j, "answer"), Chases(j), KeyOf(j) \in Made
        PROVE  HostsLooked(Burst', Made', j)
    BY <1>2, FollowUpKept
  <1>3. ASSUME s.job.domain \in Name, Expands(Made, s)
        PROVE  \/ ExpandsIn(side', Made', s.job)
               \/ /\ ArgKeys(Oracle, s.job.arg) \subseteq Made'
                  /\ Expanded(s.job) \in Burst'
    <2>1. CASE s.at = "names" /\ s.job.arg = PMacro /\ RevKey \in Made
      BY <2>1, NamesKept
    <2>2. ASSUME s.at = "host", s.job.arg = PMacro, NEW m \in Nat,
                 Confirming(Made, s, m)
          PROVE  \/ ExpandsIn(side', Made', s.job)
                 \/ /\ ArgKeys(Oracle, s.job.arg) \subseteq Made'
                    /\ Expanded(s.job) \in Burst'
      BY <1>3, <2>2, HostsKept
    <2>. QED
      BY <1>1, <1>3, <2>1, <2>2 DEF Expands
  <1>4. TaskKept(Burst', side', Made, Made', s)
    BY <1>2, <1>3 DEF TaskKept
  <1>. QED
    BY <1>4, SideKept

-----------------------------------------------------------------------------
(***************************************************************************)
(* What a Quiet prefetcher has issued.                                     *)
(***************************************************************************)
LEMMA SpeculatedInit == PfInit => SpeculatedInv
  <1> SUFFICES ASSUME PfInit PROVE SpeculatedInv
    OBVIOUS
  <1>1. /\ fetch = [k \in Key |-> "none"] /\ level = [k \in Key |-> 0]
        /\ burst = <<>> /\ seen = {} /\ pc = "start"
    BY DEF PfInit, EvalInit
  <1>2. Looking
    BY <1>1, KeyTypes DEF Looking
  <1>3. Seeing
    BY <1>1, KeyTypes DEF Seeing
  <1>4. Handling /\ Rooted
    BY <1>1 DEF Handling, Rooted
  <1>. QED
    BY <1>1, <1>2, <1>3, <1>4 DEF SpeculatedInv, Speculated

\* What speculation needs of one step: a step that hinders nothing.
LEMMA SpeculatedKept ==
  ASSUME Predictable, EvalKnown, LoopInv, CloseInv, OrderInv, Fresh,
         SpeculatedInv, [PfNext]_allVars, Speculated, ~Hindered, ~Hindered'
  PROVE  Speculated'
  <1>1. CASE Evaluate
    BY <1>1, BeginKept, EvaluateKept DEF Evaluate
  <1>2. CASE Resume \/ UNCHANGED allVars
    BY <1>2, ResumeKept
  <1>3. CASE Speculate
    BY <1>3, RunJobKept, SkipJobKept, AcquireKept, FetchEndsKept, HookKept,
       StartSideKept, ResumeSideKept DEF Speculate
  <1>4. ~ResumeLate
    BY DEF ResumeLate, TimeLimit, DeadlinePassed, Hindered
  <1>5. ~CallerCancels
    BY DEF CallerCancels, Hindered
  <1>6. ~Close
    <2>1. ~Refuses /\ ~Refuses'
      BY DEF Hindered
    <2>. QED
      BY <2>1 DEF Close, CloseStart, CloseDone, Cancel, Refuses
  <1>7. ~Clock
    BY DEF Clock, Elapse, Hindered
  <1>. QED
    BY <1>1, <1>2, <1>3, <1>4, <1>5, <1>6, <1>7 DEF PfNext

LEMMA SpeculatedStep ==
  Predictable /\ EvalKnown /\ LoopInv /\ LoopInv' /\ CloseInv /\ OrderInv
    /\ Fresh /\ SpeculatedInv /\ [PfNext]_allVars => SpeculatedInv'
  <1> SUFFICES ASSUME Predictable, EvalKnown, LoopInv, LoopInv', CloseInv,
                      OrderInv, Fresh, SpeculatedInv, [PfNext]_allVars
               PROVE  SpeculatedInv'
    OBVIOUS
  <1>1. /\ \A k \in Key : fetch'[k] = "none" => level'[k] = 0
        /\ Hindered => Hindered'
    BY Grows
  <1>2. pc' = "start" => burst' = <<>>
    BY IdleAtStart
  <1>3. Hindered' \/ Speculated'
    BY <1>1, SpeculatedKept DEF SpeculatedInv
  <1>. QED
    BY <1>1, <1>2, <1>3 DEF SpeculatedInv

\* The prefetcher "predicts every lookup the evaluator could need"
\* (prefetch.py:12), in a zone that answers a question in one way: once it has
\* nothing left to do, the evaluator sends a lookup of its own only for exp=,
\* past the cap, below a policy that is too deep, or where speculation failed,
\* whatever the policies are and however the loop has interleaved them.
THEOREM PrefetchPredicted == Predictable => (PfSpec => Predicted)
  <1> SUFFICES ASSUME Predictable
               PROVE  PfSpec => Predicted
    OBVIOUS
  <1>1. PfInit => /\ EvalInit /\ CloseInv /\ OrderInv /\ SpeculatedInv
                  /\ OnCourse /\ OnPath
    <2> SUFFICES ASSUME PfInit
                 PROVE  /\ EvalInit /\ CloseInv /\ OrderInv /\ SpeculatedInv
                        /\ OnCourse /\ OnPath
      OBVIOUS
    <2>1. EvalInit /\ CloseInv /\ OrderInv
      BY DEF PfInit, CloseInv, Closing, OrderInv, Once, Holds, Behind
    <2>. QED
      BY <2>1, SpeculatedInit, OnCourseInit, PathInit
  <1>2. /\ CloseInv /\ EvalKnown /\ LoopInv /\ [PfNext]_allVars => CloseInv'
        /\ OrderInv /\ EvalKnown /\ LoopInv /\ [PfNext]_allVars => OrderInv'
    BY CloseStep, OrderStep
  <1>3. /\ NestInv /\ NestInv' /\ EvalKnown /\ OnCourse /\ [PfNext]_allVars
             => OnCourse'
        /\ EvalKnown /\ OnCourse => Learned /\ Fresh
    BY PfStepIsEval, OnCourseStep DEF EvalKnown, OnCourse, Learned, Predictable
  <1>4. Learned /\ OnPath /\ [PfNext]_allVars => OnPath'
    BY PfStepIsEval, PathStep DEF Learned
  <1>5. EvalKnown /\ LoopInv /\ LoopInv' /\ CloseInv /\ OrderInv /\ Fresh
          /\ SpeculatedInv /\ [PfNext]_allVars => SpeculatedInv'
    BY SpeculatedStep
  <1>6. Learned /\ OnPath /\ LoopInv /\ CloseInv /\ SpeculatedInv
          /\ [PfNext]_allVars =>
        [wait = "no" /\ wait' = "live" /\ Quiet
           => void_exempt \/ Capped \/ TooDeep
              \/ (\E k \in Key : fetch[k] = "defect")]_allVars
    BY PredictedStep
  <1>. QED
    BY <1>1, <1>2, <1>3, <1>4, <1>5, <1>6, LoopHolds, EvalKnownHolds,
       PrefetchImplementsEvaluator, NestHolds, PTL DEF PfSpec, Predicted
=============================================================================

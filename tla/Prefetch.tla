------------------------------ MODULE Prefetch ------------------------------
(***************************************************************************)
(* Prefetcher (src/spftrace/prefetch.py) composed with the evaluation it   *)
(* runs ahead of: one evaluate() call with Limits.prefetch on.             *)
(*                                                                         *)
(* Everything shares one event loop.  The evaluating coroutine runs alone  *)
(* from one await to the next (Evaluate).  While it is suspended the loop  *)
(* runs the speculative lookups, their done-callbacks and the side tasks.  *)
(* A record is speculated in one uninterrupted burst: "burst" holds what   *)
(* is left of it, and nothing else moves until it is empty.                *)
(***************************************************************************)
EXTENDS Evaluator

CONSTANTS
  Concurrency,  \* Limits.prefetch_concurrency
  Macros,       \* the names that policies write with a macro, %{p} apart
  Defects,      \* keys whose speculation may fail for a reason other than DNS
  Inline        \* wait_for() awaits in its caller's task (Python 3.12 on)

ASSUME PrefetchAssumption ==
  /\ Prefetch = TRUE
  /\ Concurrency \in Nat \ {0}
  /\ Macros \subseteq Name /\ Defects \subseteq Key
  /\ PMacro \notin Name
  /\ Inline \in BOOLEAN

VARIABLES
  fetch,      \* fetch[k]: how far the task for k in _lookups is
  got,        \* got[k]: what it returned
  sem,        \* the tasks waiting for the semaphore, first come first served
  level,      \* level[k] > 0: it has a done-callback, for depth level[k] - 1
  ready,      \* callbacks and wakeups that are due, in the loop's order: k is
              \* the done-callback of k, NoKey wakes the evaluator
  burst,      \* what is left of the burst in progress
  side,       \* _tasks
  seen,       \* _seen
  issued, served, cancelled,  \* stats
  phase,      \* off, open, closing (_closed, in gather), closed
  gathered,   \* the lookups that close() waits for
  wait,       \* what the evaluator's query() awaits
  abandoned   \* the caller has cancelled evaluate()

issueVars == <<fetch, sem, issued>>
closeVars == <<cancelled, phase, gathered, abandoned>>
pfVars == <<issueVars, got, level, ready, burst, side, seen, served, closeVars,
            wait>>
allVars == <<vars, pfVars>>

Ended == {"done", "dnserror", "timeout", "defect", "cancelled"}
Live  == {"queued", "sent"}
Sending == {k \in Key : fetch[k] = "sent"}
Unended == {k \in Key : fetch[k] \in Live}

RevKey   == <<Rev, "PTR">>
Host(n)  == <<n, AddrType>>
MaxDepth == IF Audit THEN AuditMaxTerms ELSE MaxTerms

PfInit ==
  /\ EvalInit
  /\ fetch = [k \in Key |-> "none"]
  /\ got = [k \in Key |-> NoAnswer]
  /\ sem = <<>> /\ ready = <<>> /\ burst = <<>> /\ side = {} /\ seen = {}
  /\ level = [k \in Key |-> 0]
  /\ issued = 0 /\ served = 0 /\ cancelled = 0
  /\ phase = "off" /\ gathered = {}
  /\ wait = "no"
  /\ abandoned = FALSE

-----------------------------------------------------------------------------
(***************************************************************************)
(* _issue(), and the burst that a record or an answer gives.               *)
(***************************************************************************)
RefusesLate == phase = "closed"  \* mutant: _closed is set after the gather
Refuses == phase \in {"closing", "closed"}

CappedLate == MaxQueries # NoCap /\ issued > MaxQueries  \* mutant
Capped == MaxQueries # NoCap /\ issued >= MaxQueries

CanIssue(k) == fetch[k] = "none" /\ ~Refuses /\ ~Capped /\ ~expired

\* _issue() returned a task, new or already there.
HasTask(k) == fetch[k] # "none" \/ CanIssue(k)

Issue(k) ==
  IF CanIssue(k)
    THEN /\ fetch' = [fetch EXCEPT ![k] = "queued"]
         /\ sem' = Append(sem, k)
         /\ issued' = issued + 1
    ELSE UNCHANGED issueVars

\* A job is one term of a record, or one host of an mx or ptr ("exchange",
\* "pointer").  It is raw while its argument is as the record has it.
Job(name, arg, raw, domain, d) ==
  [name |-> name, arg |-> arg, raw |-> raw, domain |-> domain, depth |-> d]

\* Mutant: redirect= is not speculated.
JobsMechanisms(domain, policy, d) ==
  [i \in DOMAIN policy.terms |->
     Job(policy.terms[i].name,
         IF policy.terms[i].arg = Implicit THEN domain ELSE policy.terms[i].arg,
         TRUE, domain, d + 1)]

\* redirect= comes last, wherever the record has it.
Jobs(domain, policy, d) ==
  LET terms == policy.terms \o <<[name |-> "redirect", arg |-> policy.redirect]>>
  IN  [i \in DOMAIN terms |->
         Job(terms[i].name,
             IF terms[i].arg = Implicit THEN domain ELSE terms[i].arg,
             TRUE, domain, d + 1)]

Unexpanded(j) == j.raw /\ j.arg \in Macros \cup {PMacro}
IsPolicy(j)   == j.name \in {"include", "redirect"}

\* ptr depends on the client only: it is looked up whatever its target.  all,
\* ip4 and ip6 need nothing, and neither does a policy that is too deep.
Wanted(j) ==
  /\ ~Unexpanded(j)
  /\ j.name \in DnsMechanism \cup {"redirect", "exchange", "pointer"}
  /\ j.arg \in Name \/ j.name = "ptr"
  /\ IsPolicy(j) => j.depth <= MaxDepth
  /\ j.name = "pointer" => <<j.arg, j.domain>> \in Below

KeyOf(j) ==
  CASE j.name = "ptr" -> RevKey
    [] IsPolicy(j) -> <<j.arg, "TXT">>
    [] j.name = "mx" -> <<j.arg, "MX">>
    [] j.name = "exists" -> <<j.arg, "A">>
    [] OTHER -> Host(j.arg)

\* A side task: it expands a macro (start, names, host) or waits for the
\* answer of an mx or ptr (answer).
Task(j, at) == [job |-> j, at |-> at, names |-> <<>>, found |-> Malformed]

\* _spawn().  Two tasks that differ in nothing are one here.
Spawn(s) == side' = IF Refuses THEN side ELSE side \cup {s}

\* _dispatch() of the next job.
RunJob ==
  /\ burst # <<>>
  /\ LET j == Head(burst) IN
       /\ Wanted(j)
       /\ Issue(KeyOf(j))
       /\ level' = IF IsPolicy(j) /\ CanIssue(KeyOf(j))
                     THEN [level EXCEPT ![KeyOf(j)] = j.depth + 1] ELSE level
       /\ IF j.name \in {"mx", "ptr"} /\ j.arg \in Name /\ HasTask(KeyOf(j))
            THEN Spawn(Task(j, "answer")) ELSE side' = side
  /\ burst' = Tail(burst)
  /\ UNCHANGED <<vars, got, ready, seen, served, closeVars, wait>>

SkipJob ==
  /\ burst # <<>>
  /\ ~Wanted(Head(burst))
  /\ IF Unexpanded(Head(burst)) THEN Spawn(Task(Head(burst), "start"))
                                ELSE side' = side
  /\ burst' = Tail(burst)
  /\ UNCHANGED <<vars, issueVars, got, level, ready, seen, served, closeVars,
                 wait>>

\* _issue_children(): seen is marked before the record is parsed.
IssueChildren(domain, t, d) ==
  IF ~Refuses /\ d <= MaxDepth /\ domain \notin seen
    THEN /\ seen' = seen \cup {domain}
         /\ burst' = IF PolicyOf[t] \in {NotSpf, BadSyntax} THEN <<>>
                     ELSE Jobs(domain, PolicyOf[t], d)
    ELSE UNCHANGED <<seen, burst>>

-----------------------------------------------------------------------------
(***************************************************************************)
(* The evaluating coroutine: the end of query() that claim() decides.      *)
(***************************************************************************)

\* Not one that was cancelled or that failed for a reason other than DNS.
Claimable(k) == fetch[k] \in Live \cup {"done", "dnserror"}

\* A task that has ended is awaited without a pause, or in a task of its own
\* that starts when the loop comes to it.
Claim(k) ==
  /\ source' = IF Claimable(k) THEN "prefetch" ELSE "dns"
  /\ served' = IF Claimable(k) THEN served + 1 ELSE served
  /\ wait' = CASE ~Claimable(k) -> "live"
               [] Claimable(k) /\ fetch[k] \in Ended /\ Inline -> "inline"
               [] OTHER -> "task"
  /\ ready' = IF Claimable(k) /\ fetch[k] \in Ended /\ ~Inline
                THEN Append(ready, NoKey) ELSE ready
  /\ UNCHANGED <<issueVars, got, level, burst, side, seen, closeVars>>

Sends == status = "ready" /\ status' = "await"

\* evaluate() up to check_host(): the prefetcher is started first.
EvaluateBegin ==
  \E d \in Start :
    /\ Begin(d)
    /\ IF d = BadIp THEN UNCHANGED pfVars
       ELSE /\ phase' = "open"
            /\ IF Override = NoText
                 THEN /\ burst' = <<Job("include", d, FALSE, d, 0)>>
                      /\ seen' = seen
                 ELSE IssueChildren(d, Override, 0)
            /\ UNCHANGED <<issueVars, got, level, ready, side, served,
                           cancelled, gathered, abandoned, wait>>

\* The evaluator runs: no burst is in progress, and it is not in close().
EvaluateStep ==
  /\ pc # "start"
  /\ burst = <<>> /\ ~abandoned
  /\ pc = "finish" => phase = "closed"
  /\ Step
  /\ IF Sends THEN Claim(key') ELSE UNCHANGED pfVars

\* It waits for the loop: for an answer, or in the gather of close().
Suspended ==
  /\ burst = <<>>
  /\ \/ status = "await" /\ wait # "inline"
     \/ phase = "closing"

-----------------------------------------------------------------------------
(***************************************************************************)
(* The loop: speculative lookups.                                          *)
(***************************************************************************)
\* s without x, which it holds once at most.
Without(s, x) ==
  IF \E i \in DOMAIN s : s[i] = x
    THEN LET i == CHOOSE j \in DOMAIN s : s[j] = x
         IN  [j \in 1..(Len(s) - 1) |-> IF j < i THEN s[j] ELSE s[j + 1]]
    ELSE s

NotKeyKept(k) == sem  \* mutant: a cancelled task keeps its place in the queue
NotKey(k) == Without(sem, k)

\* Mutant: the evaluator is woken before the done-callback.
EndHookLast(k, outcome, a) ==
  /\ fetch' = [fetch EXCEPT ![k] = outcome]
  /\ got' = [got EXCEPT ![k] = a]
  /\ ready' = ready \o (IF wait = "task" /\ key = k THEN <<NoKey>> ELSE <<>>)
                    \o (IF level[k] > 0 /\ outcome = "done" THEN <<k>> ELSE <<>>)
  /\ UNCHANGED <<vars, issued, level, burst, side, seen, served, closeVars, wait>>

\* A task is over.  Its done-callback, registered when it was issued, comes
\* before the wakeup of an evaluator that awaits it.  The callback of a task
\* without an answer does nothing.
End(k, outcome, a) ==
  /\ fetch' = [fetch EXCEPT ![k] = outcome]
  /\ got' = [got EXCEPT ![k] = a]
  /\ ready' = ready \o (IF level[k] > 0 /\ outcome = "done" THEN <<k>> ELSE <<>>)
                    \o (IF wait = "task" /\ key = k THEN <<NoKey>> ELSE <<>>)
  /\ UNCHANGED <<vars, issued, level, burst, side, seen, served, closeVars, wait>>

SlotFreeLate == Cardinality(Sending) <= Concurrency  \* mutant
SlotFree == Cardinality(Sending) < Concurrency

\* The first in the queue gets a slot; only now is its timeout computed.
Acquire ==
  /\ Suspended /\ phase = "open"
  /\ sem # <<>> /\ SlotFree
  /\ sem' = Tail(sem)
  /\ IF expired THEN End(Head(sem), "timeout", NoAnswer)
     ELSE /\ fetch' = [fetch EXCEPT ![Head(sem)] = "sent"]
          /\ UNCHANGED <<vars, issued, got, level, ready, burst, side, seen,
                         served, closeVars, wait>>

\* The answer of a lookup that was sent, or its failure.
FetchEnds(k) ==
  /\ Suspended
  /\ fetch[k] = "sent"
  /\ \/ \E a \in Reply[k] : End(k, "done", a)
     \/ k \in Raises /\ End(k, "dnserror", NoAnswer)
     \/ k \in Defects /\ End(k, "defect", NoAnswer)
     \/ expired /\ End(k, "timeout", NoAnswer)
  /\ sem' = sem

\* The done-callback of a TXT: _on_policy().
Hook ==
  /\ Suspended
  /\ ready # <<>> /\ Head(ready) # NoKey
  /\ ready' = Tail(ready)
  /\ LET k   == Head(ready)
         txt == got[k].answers
         spf == {i \in DOMAIN txt : PolicyOf[txt[i]] # NotSpf}
     IN  \/ \E i \in spf : spf = {i} /\ IssueChildren(k[1], txt[i], level[k] - 1)
         \/ Cardinality(spf) # 1 /\ UNCHANGED <<seen, burst>>
  /\ UNCHANGED <<vars, issueVars, got, level, side, served, closeVars, wait>>

-----------------------------------------------------------------------------
(***************************************************************************)
(* The loop: side tasks.  What they only gather at their end changes       *)
(* nothing and is left out.  The loop may come to one at any time.         *)
(***************************************************************************)
Become(s, S) == side' = (side \ {s}) \cup S

\* A side task ends in the burst of its follow-up.
EndsIn(s, jobs) ==
  /\ Become(s, {})
  /\ burst' = jobs
  /\ UNCHANGED issueVars

\* The next lookup of %{p}, or the target it has found.
Advance(s, hosts, best) ==
  IF hosts = <<>>
    THEN EndsIn(s, <<[s.job EXCEPT !.arg = best, !.raw = FALSE]>>)
    ELSE /\ Issue(Host(Head(hosts)))
         /\ Become(s, {[s EXCEPT !.at = "host", !.names = hosts, !.found = best]})
         /\ burst' = burst

StartSide(s) ==
  /\ Suspended /\ phase = "open"
  /\ s.at = "start"
  /\ IF s.job.arg = PMacro
       THEN /\ Issue(RevKey)
            /\ Become(s, {[s EXCEPT !.at = "names"]})
            /\ burst' = burst
       ELSE EndsIn(s, <<[s.job EXCEPT !.raw = FALSE]>>)
  /\ UNCHANGED <<vars, got, level, ready, seen, served, closeVars, wait>>

Awaits(s) == CASE s.at = "answer" -> KeyOf(s.job)
               [] s.at = "names" -> RevKey
               [] OTHER -> Host(Head(s.names))

\* What _MacroSession gives: a refused or failed lookup is no answer.
Answers(k) == IF got[k].rcode \in Definite THEN got[k].answers ELSE <<>>

\* Which confirmed name %{p} keeps.
Keeps(s) ==
  LET n == Head(s.names)
      b == s.found
      self == \E i \in DOMAIN Answers(Host(n)) : Answers(Host(n))[i] = "self"
  IN  IF self /\ (b = Malformed
                    \/ RankIn(n, s.job.domain) < RankIn(b, s.job.domain))
        THEN n ELSE b

\* _follow_mx() and _follow_ptr().
FollowUp(s) ==
  LET all  == got[Awaits(s)].answers
      mx   == s.job.name = "mx"
      used == IF mx THEN (IF Len(all) > MaxMx THEN <<>> ELSE all)
                    ELSE First(MaxPtr, all)
  IN  EndsIn(s, [i \in DOMAIN used |->
                   Job(IF mx THEN "exchange" ELSE "pointer", used[i], FALSE,
                       s.job.arg, 0)])

\* What it awaits is there, or was refused.  One whose lookup was cancelled
\* is over.
ResumeSide(s) ==
  /\ Suspended /\ phase = "open"
  /\ s.at # "start"
  /\ fetch[Awaits(s)] \in Ended \cup {"none"}
  /\ CASE fetch[Awaits(s)] = "cancelled" -> EndsIn(s, <<>>)
       [] fetch[Awaits(s)] # "cancelled" /\ s.at = "answer" -> FollowUp(s)
       [] fetch[Awaits(s)] # "cancelled" /\ s.at = "names" ->
            Advance(s, First(MaxPtr, Answers(RevKey)), Malformed)
       [] OTHER -> Advance(s, Tail(s.names), Keeps(s))
  /\ UNCHANGED <<vars, got, level, ready, seen, served, closeVars, wait>>

-----------------------------------------------------------------------------
(***************************************************************************)
(* The loop: the evaluator is resumed.                                     *)
(***************************************************************************)
Resumed == wait' = "no" /\ UNCHANGED evalVars

\* A lookup of its own is answered.
ResumeLive ==
  /\ ~abandoned /\ burst = <<>>
  /\ wait \in {"live", "fallback"}
  /\ (\E a \in Reply[key] : Answer(a)) \/ LookupRaises
  /\ Resumed
  /\ UNCHANGED <<issueVars, got, level, ready, burst, side, seen, served,
                 closeVars>>

\* Mutant: a defect of speculation reaches the evaluation as a DnsError.
OutcomeReachesRaw ==
  CASE fetch[key] = "done" -> Answer(got[key]) /\ Resumed
    [] fetch[key] = "timeout" -> TimeLimit /\ Resumed
    [] OTHER -> /\ status' = "ready" /\ reply' = DnsFailure
                /\ UNCHANGED <<limitVars, lookupVars, expired, void_exempt>>
                /\ Resumed

\* _serve() falls back to a lookup of its own on a defect.
OutcomeReaches ==
  CASE fetch[key] = "done" -> Answer(got[key]) /\ Resumed
    [] fetch[key] = "dnserror" -> LookupRaises /\ Resumed
    [] fetch[key] = "timeout" -> TimeLimit /\ Resumed
    [] OTHER -> wait' = "fallback" /\ UNCHANGED vars

\* A speculative lookup hands over what it came to.
ResumeTask ==
  /\ ~abandoned /\ burst = <<>>
  /\ \/ wait = "inline" /\ ready' = ready
     \/ /\ wait = "task" /\ ready # <<>> /\ Head(ready) = NoKey
        /\ ready' = Tail(ready)
  /\ OutcomeReaches
  /\ UNCHANGED <<issueVars, got, level, burst, side, seen, served, closeVars>>

\* The task that is being awaited is cancelled with the one that awaits it.
Shared == IF wait = "task" /\ fetch[key] \in Live THEN {key} ELSE {}

DropAwaited ==
  /\ fetch' = [k \in Key |-> IF k \in Shared THEN "cancelled" ELSE fetch[k]]
  /\ sem' = IF Shared = {} THEN sem ELSE Without(sem, key)
  /\ ready' = Without(ready, NoKey)
  /\ wait' = "no"
  /\ UNCHANGED <<issued, got, level, burst, side, seen, served>>

\* The deadline of query(): the awaited task is cancelled too.
ResumeLate ==
  /\ ~abandoned /\ burst = <<>>
  /\ wait \in {"live", "fallback", "task"}
  /\ TimeLimit
  /\ UNCHANGED evalVars
  /\ DropAwaited
  /\ UNCHANGED closeVars

-----------------------------------------------------------------------------
(***************************************************************************)
(* close(), and a caller that cancels evaluate().                          *)
(***************************************************************************)

\* The verdict is known, or an exception leaves evaluate().  The side tasks
\* are cancelled; none of them does anything more.
CloseStart ==
  /\ burst = <<>> /\ phase = "open"
  /\ pc = "finish" \/ abandoned
  /\ phase' = "closing"
  /\ side' = {}
  /\ gathered' = {k \in Key : fetch[k] # "none"}
  /\ cancelled' = cancelled + Cardinality(Unended)
  /\ UNCHANGED <<vars, issueVars, got, level, ready, burst, seen, served, wait,
                 abandoned>>

\* Mutant: a lookup that was sent is waited for, not cancelled.
CancelUnsent(k) ==
  /\ Suspended /\ phase = "closing"
  /\ k \in gathered /\ fetch[k] = "queued"
  /\ End(k, "cancelled", NoAnswer)
  /\ sem' = NotKey(k)

\* A cancelled lookup learns of it; its answer may still come first.
Cancel(k) ==
  /\ Suspended /\ phase = "closing"
  /\ k \in gathered /\ fetch[k] \in Live
  /\ End(k, "cancelled", NoAnswer)
  /\ sem' = NotKey(k)

CloseDone ==
  /\ Suspended /\ phase = "closing"
  /\ ready = <<>>
  /\ \A k \in gathered : fetch[k] \in Ended
  /\ phase' = "closed"
  /\ UNCHANGED <<vars, issueVars, got, level, ready, burst, side, seen, served,
                 cancelled, gathered, wait, abandoned>>

CallerCancels ==
  /\ Suspended /\ phase = "open" /\ ~abandoned
  /\ abandoned' = TRUE
  /\ DropAwaited
  /\ UNCHANGED <<vars, cancelled, phase, gathered>>

Clock ==
  /\ pc \notin {"start", "done"}
  /\ Elapse
  /\ UNCHANGED <<evalVars, pfVars>>

-----------------------------------------------------------------------------
Evaluate == EvaluateBegin \/ EvaluateStep
Resume   == ResumeLive \/ ResumeTask
Speculate ==
  \/ RunJob \/ SkipJob
  \/ Acquire \/ Hook
  \/ \E k \in Key : FetchEnds(k)
  \/ \E s \in side : StartSide(s) \/ ResumeSide(s)
Close == CloseStart \/ CloseDone \/ \E k \in Key : Cancel(k)

PfNext ==
  \/ Evaluate \/ Resume \/ ResumeLate \/ Speculate \/ Close \/ CallerCancels
  \/ Clock

PfSpec == PfInit /\ [][PfNext]_allVars

\* The loop runs what is due.  Neither a name server nor a speculative lookup
\* is assumed to come to an end.
PfFairSpec ==
  /\ PfSpec
  /\ WF_allVars(Evaluate)
  /\ WF_allVars(ResumeTask)
  /\ WF_allVars(ResumeLate)
  /\ WF_allVars(RunJob \/ SkipJob)
  /\ WF_allVars(Hook)
  /\ WF_allVars(Close)
  /\ WF_allVars(Clock)

-----------------------------------------------------------------------------
(***************************************************************************)
(* Properties.                                                             *)
(***************************************************************************)
JobType ==
  [name : DnsMechanism \cup {"all", "ip4", "ip6", "redirect", "exchange",
                             "pointer"},
   arg : Arg \cup {NoArg}, raw : BOOLEAN, domain : Arg, depth : Nat]

TaskType == [job : JobType, at : {"start", "names", "host", "answer"},
             names : Seq(Name), found : Name \cup {Malformed}]

\* The type of every variable, and the semaphore's queue: it holds each task
\* that waits for a slot once, and no other.
PfTypeOK ==
  /\ fetch \in [Key -> {"none"} \cup Live \cup Ended]
  /\ \A k \in Key : got[k] \in Reply[k] \cup {NoAnswer}
  /\ sem \in Seq(Key)
  /\ \A k \in Key : fetch[k] = "queued" <=> \E i \in DOMAIN sem : sem[i] = k
  /\ \A i, j \in DOMAIN sem : sem[i] = sem[j] => i = j
  /\ level \in [Key -> Nat]
  /\ ready \in Seq(Key \cup {NoKey})
  /\ burst \in Seq(JobType)
  /\ side \subseteq TaskType
  /\ seen \subseteq Name \cup {Malformed}
  /\ issued \in Nat /\ served \in Nat /\ cancelled \in Nat
  /\ phase \in {"off", "open", "closing", "closed"}
  /\ gathered \subseteq Key
  /\ wait \in {"no", "live", "task", "inline", "fallback"}
  /\ abandoned \in BOOLEAN

\* The evaluation as the caller sees it, without the mark that says who
\* answered a lookup.
Unmarked ==
  [i \in DOMAIN queries |->
     [queries[i] EXCEPT !.source = IF @ = "prefetch" THEN "dns" ELSE @]]

Seq1 == INSTANCE Evaluator WITH
          Prefetch <- FALSE, source <- "dns", queries <- Unmarked

\* "The verdict, the term count, the void count and the order of the trace are
\* identical to a sequential run" (README.md:205): every evaluation with
\* prefetch on is one that the sequential evaluator can make, whatever
\* speculation found, missed, broke or left unfinished.
Sequential == Seq1!Spec

\* The cap on speculative traffic is exact: every task is counted when it is
\* made, by a burst or by a side task, and there are never more than
\* max_queries (prefetch.py:192-198).
CapExact ==
  /\ issued = Cardinality({k \in Key : fetch[k] # "none"})
  /\ MaxQueries # NoCap => issued <= MaxQueries

\* The resolver never sees more than the agreed number of lookups at once,
\* and the evaluator's own one (session.py:40-43, prefetch.py:204).
InFlightBounded ==
  Cardinality(Sending) + (IF wait \in {"live", "fallback"} THEN 1 ELSE 0)
    <= Concurrency + 1

\* Nothing outlives the evaluation: when close() is over no lookup, callback
\* or side task is left, also when callbacks were due as it began
\* (prefetch.py:130-146).
NothingLeft ==
  phase = "closed" => Unended = {} /\ ready = <<>> /\ burst = <<>> /\ side = {}

\* The children of a record are issued before the evaluator, resuming from
\* its TXT, iterates its terms (prefetch.py:22-26).
ChildrenFirst ==
  [][(wait \in {"task", "inline"} /\ status # status' /\ status' = "ready")
       => (\A i \in DOMAIN ready : ready[i] # key)]_allVars

\* Nothing that speculates is under way.
Quiet ==
  /\ side = {} /\ ready = <<>>
  /\ \A k \in Unended : level[k] = 0

\* A policy was looked up at the depth limit, so those it leads to are not.
\* Its depth is that of the first path that came to it, not of the shortest.
TooDeep == \E k \in Key : level[k] > MaxDepth

\* The prefetcher "predicts every lookup the evaluator could need"
\* (prefetch.py:12): once it has nothing left to do, the evaluator sends a
\* lookup of its own only for exp=, past the cap, below a policy that is too
\* deep, or where speculation failed.
Predicted ==
  [][wait = "no" /\ wait' = "live" /\ Quiet
       => void_exempt \/ Capped \/ TooDeep \/ (\E k \in Key : fetch[k] = "defect")
    ]_allVars

\* Every evaluation ends and closes its prefetcher, though neither a name
\* server nor a speculative lookup is assumed to end, and though the caller
\* may cancel it (evaluator.py:139-142).
EndsClosed ==
  pc # "start" ~> /\ pc = "done" \/ abandoned
                  /\ phase \in {"off", "closed"}
=============================================================================

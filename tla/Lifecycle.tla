----------------------------- MODULE Lifecycle -----------------------------
(***************************************************************************)
(* Several evaluate() calls (src/spftrace/evaluator.py), on one Evaluator  *)
(* one after another, on one of their own each as acheck() makes them, or  *)
(* overlapping on one.  A call reaches its limits, session, trace and      *)
(* override flag through attributes of the Evaluator, which every call     *)
(* replaces as it begins; only query() holds on to the session it was      *)
(* called on.  The resolver is shared by all and has no state.             *)
(*                                                                         *)
(* What a call looks up is left open: it consumes terms and sends lookups  *)
(* as it likes, and "own" counts what it did.                              *)
(***************************************************************************)
EXTENDS Naturals, FiniteSets

CONSTANTS
  Call,         \* the calls of evaluate()
  Machine, On,  \* the Evaluator objects; On[c] is the one that c is a call of
  Overlap,      \* a call may begin while another one on its Evaluator runs
  WithOverride, \* the Evaluators made with a policy_override
  Prefetch,     \* Limits.prefetch
  MaxTerms, MaxVoid, MaxQueries,  \* Limits
  MaxWork,      \* bound: terms and lookups of one call
  None

ASSUME LifecycleAssumption ==
  /\ On \in [Call -> Machine]
  /\ WithOverride \subseteq Machine
  /\ {Overlap, Prefetch} \subseteq BOOLEAN
  /\ {MaxTerms, MaxVoid, MaxQueries, MaxWork} \subseteq Nat
  /\ None \notin Call

VARIABLES
  bound,     \* bound[m]: the call whose state m's attributes refer to
  stats,     \* stats[m]: whose prefetcher _prefetch_stats is of
  state,     \* state[c]: what c's _begin() made
  pc,        \* where the coroutine of c is
  record,    \* the policy it evaluates first
  awaiting,  \* whose state the method it awaits belongs to
  verdict, result,  \* what it has found, and what it returned
  own        \* what it did itself

lifeVars == <<bound, stats, state, pc, record, awaiting, verdict, result, own>>

Counts == [terms |-> 0, sent |-> 0, voids |-> 0]

\* Limits.fresh() and a new EvaluationSession, with a prefetcher or without.
Fresh == [counts |-> Counts, override_used |-> FALSE,
          prefetcher |-> IF Prefetch THEN "running" ELSE "none"]

LifeInit ==
  /\ bound = [m \in Machine |-> None]
  /\ stats = [m \in Machine |-> None]
  /\ state = [c \in Call |-> Fresh]
  /\ pc = [c \in Call |-> "idle"]
  /\ record = [c \in Call |-> "none"]
  /\ awaiting = [c \in Call |-> None]
  /\ verdict = [c \in Call |-> "none"]
  /\ result = [c \in Call |-> None]
  /\ own = [c \in Call |-> Counts]

-----------------------------------------------------------------------------
Go(c, where) == pc' = [pc EXCEPT ![c] = where]

\* One coroutine at a time runs, up to its next await.
Idle == \A c \in Call : pc[c] \in {"idle", "await", "closing", "done"}

SelfOfResolver(c) == CHOOSE d \in Call : TRUE  \* mutant: state on the resolver
Self(c) == bound[On[c]]

\* Mutant: the limits and the session are made once, by the constructor.
BeginOnce(c) ==
  /\ Idle /\ pc[c] = "idle"
  /\ Overlap \/ \A d \in Call : On[d] = On[c] => pc[d] \in {"idle", "done"}
  /\ bound' = IF bound[On[c]] = None THEN [bound EXCEPT ![On[c]] = c] ELSE bound
  /\ stats' = [stats EXCEPT ![On[c]] = None]
  /\ Go(c, "run")
  /\ UNCHANGED <<state, record, awaiting, verdict, result, own>>

\* _begin(), and the start of the prefetcher.
Begin(c) ==
  /\ Idle /\ pc[c] = "idle"
  /\ Overlap \/ \A d \in Call : On[d] = On[c] => pc[d] \in {"idle", "done"}
  /\ bound' = [bound EXCEPT ![On[c]] = c]
  /\ stats' = [stats EXCEPT ![On[c]] = None]
  /\ Go(c, "run")
  /\ UNCHANGED <<state, record, awaiting, verdict, result, own>>

Count(c, what) ==
  /\ state' = [state EXCEPT ![Self(c)].counts[what] = @ + 1]
  /\ own' = [own EXCEPT ![c][what] = @ + 1]

Fail(c) == verdict' = [verdict EXCEPT ![c] = "permerror"] /\ Go(c, "close")

\* The call of _fetch_policy() for the sender domain.
TakeOverride(c) ==
  /\ pc[c] = "run" /\ record[c] = "none"
  /\ On[c] \in WithOverride /\ ~state[Self(c)].override_used
  /\ state' = [state EXCEPT ![Self(c)].override_used = TRUE]
  /\ record' = [record EXCEPT ![c] = "override"]
  /\ UNCHANGED <<bound, stats, pc, awaiting, verdict, result, own>>

AskRecord(c) ==
  /\ pc[c] = "run" /\ record[c] = "none"
  /\ On[c] \notin WithOverride \/ state[Self(c)].override_used
  /\ record' = [record EXCEPT ![c] = "published"]
  /\ UNCHANGED <<bound, stats, state, pc, awaiting, verdict, result, own>>

\* consume_term().
ConsumeTerm(c) ==
  /\ pc[c] = "run" /\ record[c] # "none"
  /\ own[c].terms < MaxWork
  /\ Count(c, "terms")
  /\ IF state[Self(c)].counts.terms >= MaxTerms THEN Fail(c)
                                                ELSE UNCHANGED <<pc, verdict>>
  /\ UNCHANGED <<bound, stats, record, awaiting, result>>

\* query() up to its await: the session it is called on is "self" from here.
Query(c) ==
  /\ pc[c] = "run" /\ record[c] # "none"
  /\ own[c].sent < MaxWork
  /\ IF state[Self(c)].counts.sent >= MaxQueries
       THEN Fail(c) /\ UNCHANGED <<state, own, awaiting>>
       ELSE /\ Count(c, "sent")
            /\ awaiting' = [awaiting EXCEPT ![c] = Self(c)]
            /\ Go(c, "await")
            /\ UNCHANGED verdict
  /\ UNCHANGED <<bound, stats, record, result>>

\* query() after its await, with an answer that is void or not.
Answer(c) ==
  /\ Idle /\ pc[c] = "await"
  /\ \/ Go(c, "run") /\ UNCHANGED <<state, own, verdict>>
     \/ /\ state' = [state EXCEPT ![awaiting[c]].counts.voids = @ + 1]
        /\ own' = [own EXCEPT ![c].voids = @ + 1]
        /\ IF state[awaiting[c]].counts.voids >= MaxVoid
             THEN Fail(c) ELSE Go(c, "run") /\ UNCHANGED verdict
  /\ UNCHANGED <<bound, stats, record, awaiting, result>>

\* The caller cancels the task that runs evaluate().
Cancel(c) ==
  /\ Idle /\ pc[c] = "await"
  /\ verdict' = [verdict EXCEPT ![c] = "cancelled"]
  /\ Go(c, "close")
  /\ UNCHANGED <<bound, stats, state, record, awaiting, result, own>>

Conclude(c) ==
  /\ pc[c] = "run" /\ record[c] # "none"
  /\ verdict' = [verdict EXCEPT ![c] = "found"]
  /\ Go(c, "close")
  /\ UNCHANGED <<bound, stats, state, record, awaiting, result, own>>

\* Mutant: close() is not in a finally block.
CloseUnlessRaised(c) ==
  /\ pc[c] = "close"
  /\ IF state[Self(c)].prefetcher = "running" /\ verdict[c] = "found"
       THEN /\ state' = [state EXCEPT ![Self(c)].prefetcher = "closed"]
            /\ awaiting' = [awaiting EXCEPT ![c] = Self(c)]
            /\ Go(c, "closing")
       ELSE Go(c, "report") /\ UNCHANGED <<state, awaiting>>
  /\ UNCHANGED <<bound, stats, record, verdict, result, own>>

\* The finally block: the prefetcher of the session that is bound now.  A
\* prefetcher that another call has closed gives its stats without a pause.
Close(c) ==
  /\ pc[c] = "close"
  /\ IF state[Self(c)].prefetcher = "running"
       THEN /\ state' = [state EXCEPT ![Self(c)].prefetcher = "closed"]
            /\ awaiting' = [awaiting EXCEPT ![c] = Self(c)]
            /\ Go(c, "closing")
            /\ UNCHANGED stats
       ELSE /\ stats' = IF Prefetch THEN [stats EXCEPT ![On[c]] = Self(c)]
                                    ELSE stats
            /\ Go(c, "report") /\ UNCHANGED <<state, awaiting>>
  /\ UNCHANGED <<bound, record, verdict, result, own>>

Closed(c) ==
  /\ Idle /\ pc[c] = "closing"
  /\ stats' = [stats EXCEPT ![On[c]] = awaiting[c]]
  /\ Go(c, "report")
  /\ UNCHANGED <<bound, state, record, awaiting, verdict, result, own>>

\* _result(); a call that was cancelled returns nothing.
Report(c) ==
  /\ pc[c] = "report"
  /\ result' = [result EXCEPT ![c] =
                  IF verdict[c] = "cancelled" THEN None
                  ELSE [counts |-> state[Self(c)].counts,
                        prefetch |-> stats[On[c]]]]
  /\ Go(c, "done")
  /\ UNCHANGED <<bound, stats, state, record, awaiting, verdict, own>>

-----------------------------------------------------------------------------
LifeStep(c) ==
  \/ Begin(c) \/ TakeOverride(c) \/ AskRecord(c) \/ ConsumeTerm(c) \/ Query(c)
  \/ Answer(c) \/ Cancel(c) \/ Conclude(c) \/ Close(c) \/ Closed(c) \/ Report(c)

LifeNext == \E c \in Call : LifeStep(c)

LifeSpec == LifeInit /\ [][LifeNext]_lifeVars

-----------------------------------------------------------------------------
(***************************************************************************)
(* Properties.                                                             *)
(***************************************************************************)
Returned(c) == pc[c] = "done" /\ result[c] # None

\* "Every call to evaluate() takes a fresh copy, so counters never carry
\* between runs" (session.py:50): what a call reports, and the prefetcher it
\* reports on, are its own.
ReportsItself ==
  \A c \in Call : Returned(c) =>
    result[c] = [counts |-> own[c], prefetch |-> IF Prefetch THEN c ELSE None]

\* What one check does never changes what another decides
\* (test_lifecycle.py:5): a call fails on its own terms, voids and budget.
FailsByItself ==
  \A c \in Call : verdict[c] = "permerror" =>
    \/ own[c].terms > MaxTerms
    \/ own[c].voids > MaxVoid
    \/ own[c].sent >= MaxQueries

\* The policy override is the first record of every call, not of the first
\* one only (evaluator.py:68-70).
OverrideEveryTime ==
  \A c \in Call : On[c] \in WithOverride => record[c] # "published"

\* A call that is over, by whatever way, leaves no prefetcher running
\* (evaluator.py:139-142).
PrefetcherClosed ==
  \A c \in Call : pc[c] = "done" => state[c].prefetcher # "running"
=============================================================================

# Formal models of spftrace

TLA+ models of [spftrace](../src), an SPF (RFC 7208) evaluator that returns a
verdict together with a full trace, with model checking by TLC and proofs by
TLAPS. Source paths below are relative to the repository; `session.py` stands
for `src/spftrace/session.py`, and so on.

## 1. The system

`acheck()` builds an `Evaluator`, whose `evaluate()` coroutine walks the sender
domain's policy, recursing through `include` and `redirect`. All DNS goes
through one `EvaluationSession`, which counts, caches, records and enforces the
limits. An optional `Prefetcher` speculates the same lookups ahead of time.
Everything runs on one asyncio event loop: code between two awaits is atomic,
and the interleavings are between the evaluating coroutine, the answers of the
name servers, the clock, and (with prefetch) the speculative tasks and their
callbacks.

| Component | State | Operations | Talks to |
| --- | --- | --- | --- |
| `Limits` (session.py 46-111) | `terms_used`, `void_used`, two breach flags, the clock | `consume_term`, `check_deadline`, `remaining`, `fresh` | called by the evaluator and the session |
| `EvaluationSession` (session.py 114-303) | `network_queries`, `_cache`, `queries`, `_void_exempt` | `query`, `void_exempt`, `_enforce_void` | awaits the resolver or a prefetcher task under `wait_for` |
| `Evaluator` (evaluator.py) | trace, `_override_used`, the Python call stack of `check_host` | `evaluate`, `check_host`, one `_match_*` per mechanism, `_eval_redirect`, `_explanation` | the session; raises and catches the SPF exceptions |
| `Prefetcher` (prefetch.py) | `_lookups`, `_tasks`, `_seen`, stats, semaphore | `start`, `claim`, `_issue`, `_on_policy`, `close` | resolver; done-callbacks race the evaluator on the same task |
| Macros (macros.py) | none | `expand`, `validated_domain`, `truncate_domain` | `%{p}` queries through the session (or the prefetcher) |
| Parser (parser.py) | none | `parse` | pure |
| Resolvers (resolver.py) | configuration only | `_lookup` | the network, or a zone in memory |
| Trace, records (trace.py) | `events`, `depth` | `add`, `push`, `pop` | pure |
| API, CLI (`__init__.py`, cli.py) | none | `acheck`, `check`, `run` | builds the above |

What is hard here, and what makes each part correct:

* **Session.** A limit is met *inside* a term, after an await, under an include,
  or while fetching an explanation; a void must be counted once however often it
  is met; the deadline races a late answer; a failure must be retried and an
  answer must not. Correct means: counters, flags, cache and record always agree;
  the first breach stops the evaluation there and then; no lookup is sent when
  its answer can no longer matter; every lookup ends.
* **Evaluator.** Five exception types cross a recursion whose levels each catch
  a different one; audit mode keeps walking after the verdict is already lost.
  Correct means: what the session raises becomes the verdict and nothing
  swallows it; recursion is bounded by a counter, not by the interpreter; the
  verdict is what the answers say, independently of order, cache and mode.
* **Prefetcher.** Callback order, tasks shared between the evaluator and side
  tasks, cancellation from three sides (`close()`, a deadline, the caller) and a
  semaphore. Correct means: it can change latency and nothing else, its traffic
  is bounded, and nothing of it outlives the evaluation.
* **Evaluator reuse.** `evaluate()` rebinds its state on `self` and then reads it
  through `self` after every await. Correct means: a call reports and fails by
  itself, and the override and the prefetcher are its own.
* **Text.** The grammar is written as regular expressions and slicing, the macro
  part of it twice, and is read from the left by one function and from the right
  by the next. Correct means: a record is read the one way RFC 7208 reads it.

`PROJECT.json` lists the hazards one by one, at their lines, with the properties
that would catch each of them, or with what no property covers.

## 2. Modules

| Module | Models | Role |
| --- | --- | --- |
| `Session` | `Limits` and `EvaluationSession` | the session under its most general obedient client; the abstract specification `SessionSpec` |
| `MCSession` | | constants and bounds for TLC |
| `SessionProofs` | | theorems about `SessionSpec` |
| `Evaluator` | `Evaluator`, `%{p}` of macros.py, the depth of trace.py | one `evaluate()` call, EXTENDS `Session`; implements `SessionSpec` |
| `MCEvaluator` | | a zone of four names whose replies are chosen as it runs |
| `EvaluatorProofs` | | refinement, recursion, and what becomes of a breach or an exception |
| `Reference` | what an evaluation *should* say | a function of the zone, with no session and no control state |
| `MCReference` | | generated policies for comparing the two |
| `ReferenceProofs` | | every verdict and explanation is the reference's |
| `Prefetch` | `Prefetcher`, its tasks and callbacks, and the caller's cancellation | EXTENDS `Evaluator`; one `evaluate()` call with prefetch on, implements the one with prefetch off |
| `MCPrefetch` | | a zone of four names and a choice of root policies |
| `PrefetchProofs` | | that refinement; the cap, the semaphore, the callbacks and `close()`; that speculation predicts the evaluator's lookups |
| `Lifecycle` | several `evaluate()` calls on one Evaluator or several | what is shared through `self`, with the lookups of a call left open |
| `MCLifecycle`, `LifecycleProofs` | | three calls; the theorems for any number |
| `MacroString` | the scans of macros.py, `_validate_domain_spec()`, the filter of `_explanation()` | texts character by character class, against a derivation in the RFC grammar |
| `Terms` | `parse()`, `_parse_term()` and the argument parsers | records token by token, against the set of readings of the RFC grammar |
| `Names` | `truncate_domain()`, `valid_domain()` | a name as the lengths of its labels |
| `Zone`, `ZoneProofs` | `ZoneResolver._lookup()` | the CNAME chase, against reachability |
| `Regex` | what `$` means in a regular expression | used by `MacroString` and `Terms` |
| `TextProofs`, `TermsProofs` | | the scans of macros.py and the trimming of a name; the terms of a record |
| `MCText`, `MCZone` | | every input up to a size; `MCText` runs `MacroString`, `Terms` and `Names` side by side |

### Session

One action per method, split at the await: `Query` is `query()` up to its
await (`CacheHit`, `PastDeadline`, `OverBudget`, `Send`), `Answer`,
`LookupRaises` and `TimeLimit` are the three ways the await ends, each with all
that follows in the code (cache, count, record, enforcement, exception).
`status` is how the last call left its caller: `ready`, `await`, or the
exception it raised. `reply` is the value `query()` returned, with `DnsFailure`
for a `DnsError`. `SessionNext` lets a client make any call at any time while no
exception is pending, which is more than the evaluator does: what holds here
holds of every client.

The clock is one bit, `expired`: the code only ever asks whether the deadline
has passed. `wait_for` may deliver an answer that arrives as the timer is due,
so `Answer` stays enabled after `expired`. With `Prefetch`, `Send` chooses
freely whether `claim()` finds a speculative task; either way the lookup is
charged and its answer is processed alike. The `exempt` field of a query record
is an annotation of the model, so that properties can tell the voids that count.

### Evaluator

`stack` is the recursion of `check_host()`; `pc` is where the coroutine stands,
with a separate value for each await. An action runs from one await, or call
into the session, to the next. An exception empties the stack (`Raise`,
`Unwind`), except the one caught on the way: `SpfNoneError`, modelled as
`check_host()` returning `"none"`, which `ReturnInclude` and `ReturnRedirect`
turn into permerror one level up and `ReturnTop` into the verdict none.
`mx`, `ptr` and `%{p}` share the walk over names (`names`, `work`, `resume`);
`%{p}` is met in a mechanism's argument, in `redirect=`, in `exp=`, and in the
explanation's text.

Data is abstracted to what the verdict depends on:

* a TXT string is a model value; `PolicyOf` gives what `parse()` makes of it (a
  policy, a syntax error, or not SPF), `ExpOf` what it is as an explanation:
  `plain`, with a `%{p}` (`pmacro`), not expandable (`bad`), or found not
  expandable after the lookups of a `%{p}` (`pbad`);
* an address is the class of networks it lies in: the client's own (`self`), its
  wide network (`near`), or neither (`far`); a term carries the set its cidr covers;
* an argument is the name it expands to, or exactly `%{p}`. Labels around or
  transformers on a `%{p}`, and several of them in one argument, are not modelled.
  `parse()` validates macro strings, so expanding a term's argument cannot fail;
* MX and PTR answers are valid names. `Malformed` stands for every name
  `valid_domain()` rejects, the `unknown` of `%{p}` among them;
* local parts, warnings, event contents and wording are left out.

### Reference

A zone is a function `z` that gives each lookup its answer or `DnsFailure`.
`RefCheck` says what `check_host()` should give in it, with the terms spent and
the set of names looked up on the way; `RefTerm` is one term of a policy, given
the walks of the rest of the policy and of the policies the term leads to.
`Walk` ties the rest of a policy to itself, a recursive function of how many
terms are left, and `Walks` ties the policies to one another, a recursive
function of how often one can lead to another: each time costs a term, so
`MaxTerms + 1` is enough. Limits are judged at the end: permerror if more than
`MaxTerms` terms or `MaxVoid` names without records were needed. There is no
cache, no audit mode, no exception and no order of enforcement in it, which is
the point of the comparison.

`VerdictIsReference` compares a finished evaluation with the reference for the
zone it met (`Met`): a definite answer is read from the cache, so a name without
one has failed. A name that fails once and answers later has two answers, and
is outside the comparison (`Steady`, which `MCReference` assumes of its zones
and the theorem names).

### Prefetch

`fetch[k]` is the life of the task for key `k` in `_lookups`: `queued` at the
semaphore, `sent`, then `done`, `dnserror`, `timeout`, `defect` or `cancelled`.
`ready` is the part of the event loop's queue in which order matters: the
done-callback of a TXT task, and the wakeup of the evaluator when it awaits a
task. `End` puts them there in the order of registration, `Hook` and
`ResumeTask` take them from the head. `_issue_children()` runs without an await;
`burst` is what is left of it, one job per term, and every other action waits
until it is empty (`Suspended`). Side tasks (`side`) expand a macro or wait for
an mx or ptr. `EvaluateStep` is a step of `Evaluator` unchanged, with `claim()`
added where `query()` sends; `ResumeLive`, `ResumeTask` and `ResumeLate` are the
ends of that await, for a lookup of its own, a claimed one, and the deadline.

What `wait_for()` does with a claim that is already over depends on Python:
before 3.12 it wraps it in a task, so the evaluator resumes a turn of the loop
later; from 3.12 on it awaits it in place. `Inline` selects one. Against the
code the model allows more in two places: the loop may come to a side task, or
to an answer of the evaluator's own lookup, at any time and not in queue order.
It leaves out what changes nothing: the lookups a side task only gathers at its
end, and a second side task that is equal to one there is. A second cancellation
while `close()` is gathering is not modelled.

### Lifecycle

`bound[m]` is the call whose `_begin()` made the objects that the attributes of
Evaluator `m` refer to, so `Self(c)` is whose limits and session call `c`
reaches. A coroutine runs alone between awaits (`Idle`). `query()` keeps the
session it was called on in a local (`awaiting`), everything else goes through
`Self`. What a call looks up is arbitrary; `own[c]` counts what it did. `Overlap`
lets a call begin while another one on the same Evaluator runs.

### MacroString, Terms, Names, Zone

Each is the loop of the code with one action per turn, started on every input,
and a definition of what the answer should be that does not loop. In
`MacroString` a character stands for a class (a letter every macro may use, one
for exp= only, a digit, a delimiter, "%", ...), and the reference asks whether
*some* way of cutting the text derives it. In `Terms` a token stands for a name,
a domain-spec, a network or a CIDR length that fits both families, IPv6 only or
neither; the reference is the set of readings the grammar gives a term, and an
accepted term must have exactly one. `Names` abstracts a name to its label
lengths with the limits scaled down. A regular expression that ends in `$` is
modelled as Python reads it: it matches before a final line feed too (`Chomp`).

## 3. Runs

| Run | Question | Bounds |
| --- | --- | --- |
| `session_rfc` | do counters, flags, cache and record agree, and does the first breach stop everything, for any client? | 3 names, `MaxTerms` 1, `MaxVoid` 1, budget 3, 4 records and 4 lookups; every lookup answers |
| `eval_rfc` | does a whole evaluation obey the session, bound its recursion, report what was raised, and end? | 4 names, 10 TXT strings, `MaxTerms` 4, `MaxVoid` 2, budget 7 |
| `eval_explanation` | is an explanation returned on fail only? **No** in audit mode | `MaxTerms` 1, `MaxVoid` 0, ceiling 4, an override |
| `ref_rfc` | is every verdict and explanation that of the reference? | every R policy of 1-2 of 5 terms with or without `redirect`, `exp`; every I policy of 0-1 of 4 terms; every zone, with one MX and one PTR answer longer than `MaxMx` and `MaxPtr` |
| `ref_audit` | the same in audit mode, past the limits, under a caller's policy that can include its own domain; is a breach a permerror, and the ceiling the end? | `MaxTerms` 2, `MaxVoid` 0, ceiling 6, a host that always fails |
| `pf_order` | are the queue, the slots, the cap and the callbacks kept, is nothing left after `close()`, does every evaluation end? | 4 names, concurrency 2, budget 5, an mx and an include, a lookup that may fail, a caller that may cancel |
| `pf_verdict` | is every prefetched evaluation a sequential one, and every lookup predicted? | concurrency 2, budget 6, roots with `%{p}` and `redirect`, with `exp`, and with ptr; defective speculation of one host |
| `pf_callback` | do the children of a record always come first? **No** where `wait_for()` awaits in place | as `pf_verdict`, the root with `exp` |
| `life` | does nothing carry over from one call to the next, or to one beside it? | 3 calls on 2 Evaluators, one of them with a policy override and two calls; limits of 1, budget 2, up to 3 terms and lookups a call |
| `texts` | does the code take what the grammar derives, read it the one way the grammar does, and expand what it took? | every text of up to 4 pieces of 11 (8 for exp=), of up to 6 of 5, or with line feeds; every term name with up to 4 tokens of 8; every record of up to 4 of 7 terms; every name of up to 5 labels; labels up to 4 in a text and 3 in a name |
| `terms_newline` | does a malformed record always come back as a verdict? **No**: see below | the records of `texts` |
| `zone` | does the CNAME chase end at the right name? | every zone of 3 names |

The session in audit mode and with prefetched answers is run under the evaluator
(`ref_audit`, `pf_order`), and so is a resolver that raises (`eval_rfc`); for any
client it is proved.

Bounds. `MaxRecords` and `MaxSent` (session runs) cap the length of a behaviour:
3 or 4 lookups over three names let a limit of one be reached, passed, and
passed again, a name be met twice, a failure be retried and the budget run out.
In the evaluator runs nothing is capped by the model: every behaviour is finite
because the term limit (or audit ceiling) is. `MaxMx` and `MaxPtr` are 2, with
answers of 3 names, so both boundaries are met. R's policy
can include itself (`include:R`) or redirect to itself at one term a level
(`redirect=%{p}` with a PTR that names R), so recursion runs into the limit. Replies are chosen when the lookup is
answered, so one run covers every zone over the listed replies. The evaluator
runs use an IPv4 client; the address family only selects `A` or `AAAA` and which
of `ip4` and `ip6` can match. Deadlock is not checked in the runs whose system
stops by design: an evaluation ends, and a session that raised is not called
again.

The prefetch runs differ in the root policy, chosen so that records are
speculated while others are evaluated: with concurrency 2 and three or more keys
the semaphore's queue is used, an include of the root makes `seen` and the depth
limit matter, and replies are chosen as they are answered, so a callback, a
wakeup, a cancellation and the clock meet in every order. Three calls are
enough for `Lifecycle`: one to follow another on its Evaluator, and one beside
them on another; the theorems have no such bound. The longer texts have 6 pieces of
5, enough for an escape, a macro, a dot and a toplabel. `MaxLabel` is 4 there, so that
what stands before a dot inside a macro can be a label of its own (`%{d.}.d`): a
smaller limit would hide that the code then takes a domain-spec.

Fairness. `WF` on the clock (`Elapse`): time passes. `WF` on `TimeLimit`: the
event loop runs a timer that is due, which is what `asyncio.wait_for` relies on.
`WF` on `Step`: a coroutine that can run is resumed. `PfFairSpec` adds what the
event loop owes: `WF` on the evaluator's steps and wakeups, on due callbacks, on
the rest of a burst, and on `Close` (a cancelled task learns of it); not on
`Acquire`, side tasks, or any answer. `ZoneFairSpec` says that a loop without an
await runs on. Nothing is assumed of name servers: `Answer` has no fairness, so
`Terminates` and `EndsClosed` hold although no server ever replies.

Every property of a passing run has a mutant of the code in the same module
(`CacheHitCounts`, `EnforcedLate`, `PopForgotten`, ...), defined just before the
definition it would replace; `PROJECT.json` pairs them, and TLC finds the
property violated with the mutant in place.

### Disagreements found

Three are shown by runs:

1. **An explanation without a fail** (`eval_explanation`). README.md:168 promises
   an explanation "on `fail` only". In audit mode `evaluate()` fetches it for the
   observed fail and then replaces the verdict by permerror
   (evaluator.py:123-126, 144-154), returning both.
2. **The evaluator before the callback** (`pf_callback`). On Python 3.12 and later
   a claim of a task that has just ended is awaited in place, and the evaluator
   passes its callback (prefetch.py:20-26). It costs latency, never the verdict.
3. **An exception out of evaluate()** (`terms_newline`). A record that ends in a
   line feed after an ip4 network is parsed, and `ip_network()` raises ValueError
   when the term is evaluated (parser.py:18, evaluator.py:342), against
   README.md:132.

The models have the behaviour behind the following as well, and no run for it:

* The trace stays indented: `pop()` is called on return and on `SpfNoneError` only
  (evaluator.py:457-461, 491-495), so after any other exception below an include
  the last events carry the depth of the failed recursion (trace.py:28).
  `DepthIsNesting` holds while the verdict is open.
* The query that met the deadline is not recorded (session.py:205-210, against 222).
* `served` can exceed `issued`: a key whose answer is not cached is claimed again
  (prefetch.py:164, trace.py:74-75).
* Queued lookups are sent after the verdict, while `exp=` is fetched
  (evaluator.py:123-141, against README.md:210).
* A claimed lookup waits for a slot under the evaluation's deadline
  (prefetch.py:204, session.py:206), so an evaluation can be a temperror whose
  sequential run had time to spare. `Sequential` still holds: some sequential run
  meets the deadline there.
* The prefetcher does not predict "every lookup the evaluator could need"
  (prefetch.py:12). A policy is speculated at the depth of the path that issued it
  first, which depends on latency (prefetch.py:246-252): where that one is too deep
  a shorter path finds the policies below it unspeculated. An override marks its
  own domain in `_seen` (prefetch.py:280), so that what an include of the domain
  leads to is not speculated. And `ptr` with an invalid target, as `%{p}` gives for
  no name, still makes the evaluator look up the names below it
  (evaluator.py:401-417), and the prefetcher not (prefetch.py:323-325). `Predicted`
  excludes the first and says so; the runs do not reach the others, and
  `PrefetchPredicted` excludes them by hypothesis.
* Overlapping calls on one Evaluator: the counters of the later one end up in the
  result of the earlier one (evaluator.py:72, session.py:50-51). With
  `Overlap = TRUE` and both on one Evaluator, `Lifecycle` violates `ReportsItself`.
  `acheck()` is safe: it makes an Evaluator for each call.
* The grammar: `foo%%{d}` is taken for a domain-spec that ends in a macro, and
  `%{d..}.d` is rejected for an empty label (parser.py:53, 61); where the
  dots of a macro cut it short enough, as in a macro longer than a label, the
  same search takes a text whose label is too long. `SpecIsGrammar` says that this
  is all: the texts taken are those the grammar derives when every dot ends a
  label, inside a macro or not (`IsDomainSpec` with `Dots` in place of
  `OuterDots`), and the macro-strings of the right length with an escape that the
  search reads as a macro (`EscapedEnd`). Without a dot in a macro, only the
  latter differ from the grammar.
* Explanations that are not given: a text with an escape is expanded and dropped
  (evaluator.py:525); one with a space is an error to `expand()` (macros.py:133),
  though the grammar has spaces there. `GivenIsLegal` is what does hold.

## 4. Proofs

All theorems are about arbitrary constants: any set of names, any policies, any
replies, any limits, audit on or off, prefetch on or off, any calls, any zone,
under the assumption each module names (`SessionAssumption`,
`EvaluatorAssumption`, `PrefetchAssumption`, `LifecycleAssumption`,
`ZoneAssumption`, `MacroStringAssumption`, `TermsAssumption`, `NamesAssumption`:
the types of its constants), which the runs evaluate.

**SessionProofs.** Three inductive invariants.
`TypeInv` strengthens `TypeOK` with `Awaiting`: the lookup in flight is for a real
name for which the cache has no answer yet. `LimitInv` is the flags, the budget and the stop at a breach, and
is inductive on top of it. `CountInv` relates the record to the counters: the
void count is the cardinality of the set of recorded voids, the recorded
lookups are paid for and, if the resolver raises nothing, the lookups paid for are
recorded, all but the one the deadline cut off, and every definite recorded answer is in the cache
(`Remembered`), which is what makes a repetition impossible. Its difficult step
is `Answer`: appending a record adds exactly one index to `Sent`, and one to
`CountedVoids` exactly when the count goes up (`CountAnswer`).
Results: `SessionTypeOK`, `SessionBudget`, `SessionFlags`, `SessionStopsAtBreach`,
`SessionVoidCount`, `SessionAskedOnce`, `SessionPaidFor`, and the action property
`SessionNoPacketWithoutUse`.

**EvaluatorProofs.** `EvalInv` is the type invariant with what is known at each
`pc` (a nested call is on the stack, the reply fits the lookup that was asked,
only the outermost frame is `evaluate()`'s). Every step of the evaluation is a
session step or a stutter (`NextIsSession`), so `Spec => SessionSpec`
(`EvaluatorImplementsSession`) and the session's theorems hold of every
evaluation (`EvaluatorKeepsLimits`). `NestInv` adds that a term under evaluation
has been paid for (`Paid`), which the bound on the recursion needs: the stack
grows in `Recurse` only, one term after `ConsumeTerm`. Results:
`EvaluatorNestingCostsTerms`, `EvaluatorNestingBounded`, `EvaluatorDepthIsNesting`.

In the same module, `VerdictInv` places the verdict in the control flow: it is
open exactly while a `check_host()` may still decide it, `void_exempt` is on
exactly inside `_explanation()`, an exception can be pending only where the code
lets one through, and what was raised is already the result when `Finish` is
reached, unless it cost a fail its explanation. `Finish` needs one fact from the
session, `StopsAtBreach`, taken over by the refinement: out of audit mode a
breach has been raised, so no explanation can survive it. Results:
`EvaluatorBreachIsPermerror`, `EvaluatorRaisedIsVerdict`,
`EvaluatorExplanationOnFail` (out of audit mode; with audit it is false, see
disagreement 1), and the action property `EvaluatorExpIsHarmless`.

**ReferenceProofs.** What the evaluator says is what the reference says:
`EvaluatorVerdictIsReference`, over everything the code has in between them
(the stack of frames and the exceptions that unwind it, the walks over MX and
PTR names with their early exits, the cache, the counters, audit mode). The
inductive invariant is `OnCourse`, on top of `NestInv` and `VerdictInv`:

* `RefInv` is its core. While the verdict is open, the reference's value for the
  whole evaluation is what the frames on the stack make (`Chained`, `After`) of
  the value of the innermost call from where the code is in it (`At`, one clause
  for each group of `pc`). Once it is decided, it is the value, and `Explained`
  follows `exp=` in the same way. What the reference gives depends on lookups
  that have not been made, so `RefInv` quantifies over every zone that gives the
  answers heard so far (`Agrees`): a step without an answer keeps the zones and
  changes the point in the walk, and an answer only rules zones out. At the end
  the zone that was met is one of them.
* `K` is the set of lookups the reference has made at that point. Each was
  answered, the void count is the number of voids among them, and nothing else is
  in the cache: so the limit on voids, which the code enforces in the middle and
  the reference at the end, is the same limit.
* With the term limit passed nothing is said of the point in the walk: the code is
  unwinding or, in audit mode, goes on, and what matters is only that the reference
  needs too many terms in every zone that agrees.
* `Heard` says that the cache has definite answers only, `LimitRaised` that nothing
  but a limit raises before the deadline and within the budget, `Await` which
  lookup each `pc` waits for, and `Fresh` that the session is new at the start.

The evaluator's own recursion is a stack and the reference's a recursive function,
and `WalksAre` is the bridge: `Walk` and `Walks` have a solution, by a primitive
recursion proved once with `WFMin` (`PrimRec`), and every term costs one, so the
walk for the frames left never runs out (`Fuel`). A mechanism is a loop in the
code and a set of positions in the reference (`Tried`); `MxTried` and `PtrTried`
say what the loop has found out after `j` names.

The one hypothesis is `Steady`: a lookup always fails (raises, or has an rcode that
is not cached) or never does. Without it the theorem is false as a statement of the
cache alone: a name that failed for one mechanism and answered for a later one has
one entry in the cache and two answers in the evaluation. The property itself
leaves out the evaluations that the deadline or the query budget may have cut.

**PrefetchProofs.** Every step of `PfNext` is a step of the evaluator or leaves
its variables alone (`PrefetchImplementsEvaluator`), so all of the above holds
with prefetch on. `PrefetchSequential` is the stronger one: with the source of
each query record read as `dns`, it is a step of the evaluator with prefetch
*off*. Its argument is that an outcome a speculative task hands over is one the
live lookup could have had: a `done` task holds a member of `Reply`, a
`dnserror` one is of a key in `Raises`, a `timeout` one has met the deadline.
`PrefetchVerdictIsReference` follows from the first: speculation does not change
what a record means.

In the same module, `PoolInv` is the queue (each queued key once, no other), the
count of issued tasks and the slots; `DataInv` the types of what tasks, callbacks,
bursts and side tasks hold. `CloseInv` says what each phase of `close()` still
waits for: the tasks it gathered are all there are, because `_closed` is set
before the gather and every way to make one asks it. `OrderInv` places the
callback of a key before the wakeup for it in `ready`. Results:
`PrefetchTypeOK`, `PrefetchCapExact`, `PrefetchInFlightBounded`,
`PrefetchNothingLeft`, and `PrefetchChildrenFirst` for `Inline = FALSE` (with
`TRUE` it is false, see disagreement 2).

The last part of the module proves `Predicted` (`PrefetchPredicted`), for any
policies, limits, concurrency and order of the loop. What an evaluation can look up
is a closure (`Closed`, `Needed`): the root's TXT, and whatever each term of a
policy in it owes. Two invariants close in on it:

* `OnPath`, of the evaluator: every open call is of a policy the zone has, reached
  by terms that look up, and so every lookup it sends before `exp=` is in `Needed`
  (`AskedNeeded`).
* `SpeculatedInv`, of the prefetcher: unless something hinders it (`Hindered`: the
  cap, the deadline, a defect, a policy too deep, `close()`, the caller's
  cancellation), every policy looked up is seen or its done-callback is due
  (`Seeing`), and every job of a policy seen is in the burst, looked up and followed,
  or on its way through a side task (`Handling`); one that is expanding `%{p}` has
  confirmed exactly the names behind it (`Confirming`). A step may move a job from
  one of these places to the next but never drop it (`Forgets`).

With nothing under way the places are empty, so the lookups made are closed
(`QuietClosed`) and contain `Needed` (`QuietHas`). Where the evaluator sends a
lookup the deadline, `close()` and a cancellation have not come, which leaves the
exceptions that `Predicted` names. Here the two readings of a record,
the evaluator's and the burst's, are shown to owe the same lookups (`TermHasJob`,
`OwedIssued`). `Predictable` is the hypothesis: the zone is `Steady` and gives a
question one answer, no override is set, and no name is below an invalid target.
The last two are the gaps named under the disagreements. The first is needed
because the evaluator may be ahead and ask for itself: if the later speculative
lookup is answered differently, the two are about different policies. `pf_verdict`,
with several answers to a question, checks what the theorem leaves out; with one
answer for each question its zone is `Predictable`.

**LifecycleProofs.** Under `Alone` (the calls of one Evaluator do not overlap, or
each call has an Evaluator of its own), for any number of calls and Evaluators.
The invariant says of each call that what it reaches through `self` is its own
while it runs, what it has done at each `pc`, and, in `Apart`, that two running
calls have two Evaluators, which is what keeps a step of one from the other
(`Frame`). Results: `CallsReportThemselves`, `CallsFailByThemselves`,
`CallsTakeTheOverride`, `CallsCloseTheirPrefetcher`.

**ZoneProofs.** `ChaseInv`: the names followed so far and the current one are in
the chain of the name that was asked, and every followed one is an alias whose
target is there too. `ZoneLookupIsChase` follows for every set of names.

**TextProofs.** The two scans of macros.py, for texts and limits of any size.
`StrType` and `SpecInv`: there is a set of positions that the scan of the parser
went through, each of them passes its turn (`TurnOk`) and leads to the next, and
the scan of `expand()` walks in that set. The two copies of the test agree on the
macros of a domain-spec, and the set says that they are put to the same macros,
which is why a validated domain-spec cannot raise (`MacroValidatedExpands`).
`GrammarInv` follows the scan through the grammar: the position reached is one a
derivation reaches (`Reached`), and no macro of any derivation lies across it
(`NoneAcross`), so a scan that stops has shown that there is no derivation and
one that ends has found one. The lemmas behind it say that a macro-expand ends at
one place only (`OneEnd`), that the regular expression finds it (`MatchIs`) and
that a derivation is a chain of literals and macro-expands (`Chain`).
Results: `MacroGivenIsLegal`, and `MacroSpecIsGrammar`, whose remaining part is
about dots: the last one before a toplabel is in no macro, since the `}` of one
would follow (`LastDotOuter`), a derivation reaches every dot that is in none
(`DotReached`), and if no macro has a dot the dots of the code are those of the
grammar (`BodyDots`). For `Names`,
`NamesInv` says that the name is what a number of turns left of the expanded one
and that every longer suffix was over the limit: `NamesLongestPart`,
`NamesLegalIsLookedUp`.

**TermsProofs.** For every record, `TermsInv`: the terms so far are what
`_parse_term()` makes of the record's, the two fields hold its modifiers, and a
rejected record was rejected for its next term. What makes it the grammar is
said of one term, in both directions: whatever the grammar reads is what
`_parse_term()` returns, so there are never two readings (`LegalIsParsed`), and
what it returns for a term without a line feed is one the grammar has
(`ParsedIsLegal`). Each argument parser has a lemma for each direction
(`HostTakes` and `HostGives`, `Ip4Takes` and `Ip4Gives`, ...): the first slash
ends an `a`'s domain and the last one an `ip6`'s network, and both cut where the
grammar does. Results: `TermsGrammar`, `TermModifiersAreTerms`.

The derivations of `MacroString` and the sizes of `Names` are recursive
functions, and what they hold is proved by induction with the library's
`WFMin` over a set of numbers (`LeastNumber`, `Induct`): first that the recursive
equation has a solution (`DerivesExist`, `SumsExist`), then what every solution
satisfies.

**Only model-checked**:

* `LookupEnds`, `Terminates` and `EndsClosed`: liveness under fairness is beyond
  TLAPS.
* everything in the violation runs, which are counterexamples.

Not covered, though the code is exposed to it: overlapping calls on one Evaluator
(violated when allowed, see section 3), the temperror that waiting for a slot can
cause, and which lookups go unspeculated because of latency.

## 5. Not modelled

* The values of macros: `_transform`, `_url_escape`, the IP forms. Which name a
  macro expands to is a parameter of `Evaluator`; that an argument names it is
  all the verdict needs.
* Address arithmetic (`ip_network`, `ip_address`): Python's, and one choice per
  term here. `IPv6Address` also takes a scope id (`fe80::1%eth0`), which the
  tokens of `Terms` do not show.
* Case and trailing dots of names: keys are compared by identity.
* `acheck()`'s range checks, `check()`'s test for a running loop, and cli.py:
  single guards, argument parsing and rendering.
* `LiveResolver`: dnspython I/O behind the interface that `Session` models.
* Event contents, timestamps, JSON, warnings, and the test harness.

What is left of the plan: macro values with label transformers against the RFC's
description, and a second cancellation during `close()`.

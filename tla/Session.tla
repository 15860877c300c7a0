------------------------------ MODULE Session ------------------------------
(***************************************************************************)
(* Limits and EvaluationSession (src/spftrace/session.py): the state that  *)
(* belongs to one check_host() run.  The session counts DNS terms, network *)
(* queries and void lookups, keeps the lookup cache and the query record,  *)
(* and is the only place where the RFC 7208 limits, the query budget and   *)
(* the deadline are enforced.                                              *)
(*                                                                         *)
(* This module puts no restriction on the order of the calls: Next is the  *)
(* most general client that obeys the exceptions it is given (it makes no  *)
(* further call once SpfPermError or SpfTempError has been raised).        *)
(* Evaluator.tla is one such client, and implements SessionSpec.           *)
(***************************************************************************)
EXTENDS Naturals, Sequences, FiniteSets

CONSTANTS
  Key,            \* (name, rtype) pairs, already lower-cased
  NoKey,          \* no lookup has been asked for yet
  Reply,          \* Reply[k]: the (rcode, answers) pairs _lookup may return
  Raises,         \* the keys whose _lookup may raise DnsError itself
  MaxTerms,       \* Limits.max_terms
  MaxVoid,        \* Limits.max_void
  MaxQueries,     \* Limits.max_queries, or NoCap for None
  NoCap,
  Audit,          \* Limits.audit
  AuditMaxTerms,  \* Limits.audit_max_terms
  Prefetch        \* Limits.prefetch: claim() may hand out an answer

RCode == {"NOERROR", "NXDOMAIN", "SERVFAIL", "TIMEOUT"}

\* Rcodes that are answers; every other one is raised as DnsError.
Definite == {"NOERROR", "NXDOMAIN"}

ASSUME SessionAssumption ==
  /\ NoKey \notin Key
  /\ \A k \in Key : \A a \in Reply[k] : a.rcode \in RCode
  /\ Raises \subseteq Key
  /\ MaxTerms \in Nat /\ MaxVoid \in Nat /\ AuditMaxTerms \in Nat
  /\ NoCap \notin Nat
  /\ MaxQueries \in Nat \cup {NoCap}
  /\ Audit \in BOOLEAN /\ Prefetch \in BOOLEAN

VARIABLES
  terms_used, terms_exceeded,  \* Limits: DNS terms
  void_used, void_exceeded,    \* Limits: void lookups
  expired,                     \* Limits.remaining() <= 0
  network_queries,             \* lookups that were not answered by the cache
  cache,                       \* _cache: Key -> answer or NoAnswer
  queries,                     \* one record per lookup that returned
  void_exempt,                 \* inside void_exempt()
  key, source,                 \* the lookup last sent, and who answers it
  status,                      \* how the last call left its caller
  reply                        \* what the last query() gave its caller

limitVars   == <<terms_used, terms_exceeded, void_used, void_exceeded>>
lookupVars  == <<network_queries, cache, queries, key, source>>
sessionVars == <<limitVars, lookupVars, expired, void_exempt, status, reply>>

NoAnswer   == [rcode |-> "NONE", answers |-> <<>>]
DnsFailure == [rcode |-> "DNSERROR", answers |-> <<>>]   \* DnsError raised
Raised     == {"permerror", "temperror"}

-----------------------------------------------------------------------------
SessionInit ==
  /\ terms_used = 0 /\ terms_exceeded = FALSE
  /\ void_used = 0 /\ void_exceeded = FALSE
  /\ expired = FALSE
  /\ network_queries = 0
  /\ cache = [k \in Key |-> NoAnswer]
  /\ queries = <<>>
  /\ void_exempt = FALSE
  /\ key = NoKey /\ source = "dns"
  /\ status = "ready"
  /\ reply = NoAnswer

(***************************************************************************)
(* Limits.                                                                 *)
(***************************************************************************)

\* The clock passes started + time_limit.
Elapse ==
  /\ ~expired
  /\ expired' = TRUE
  /\ UNCHANGED <<limitVars, lookupVars, void_exempt, status, reply>>

\* The test of check_deadline(), which query() makes as well.
QueryUnchecked == FALSE  \* mutant: query() leaves the deadline to its caller
DeadlinePassed == expired

\* check_deadline() between terms; it changes nothing unless it raises.
CheckDeadline ==
  /\ status = "ready"
  /\ expired
  /\ status' = "temperror"
  /\ UNCHANGED <<limitVars, lookupVars, expired, void_exempt, reply>>

OverTermsLate == terms_used > MaxTerms  \* mutant: off by one
OverTerms == terms_used >= MaxTerms

\* Mutant: an audit has no ceiling of its own.
TermRefusedUncapped == OverTerms /\ ~Audit
TermRefused == OverTerms /\ (~Audit \/ terms_used >= AuditMaxTerms)

\* consume_term(): the count is taken even when the term is refused.
ConsumeTerm ==
  /\ status = "ready"
  /\ terms_used' = terms_used + 1
  /\ terms_exceeded' = (terms_exceeded \/ OverTerms)
  /\ status' = IF TermRefused THEN "permerror" ELSE "ready"
  /\ UNCHANGED <<void_used, void_exceeded, lookupVars, expired, void_exempt,
                 reply>>

(***************************************************************************)
(* EvaluationSession.query(), up to its await.                             *)
(***************************************************************************)

IsVoid(a) == a.rcode = "NXDOMAIN" \/ (a.rcode = "NOERROR" /\ a.answers = <<>>)

\* DnsQueryRecord.  "exempt" is an annotation of the model: the code does not
\* store it, but whether the void was counted is what the properties are about.
QueryRecord(k, a, src) ==
  [key |-> k, rcode |-> a.rcode, void |-> IsVoid(a), source |-> src,
   exempt |-> void_exempt]

\* Mutant: a void is counted again when the cache serves it.
CacheHitCounts(k) ==
  /\ cache[k] # NoAnswer
  /\ queries' = Append(queries, QueryRecord(k, cache[k], "cache"))
  /\ reply' = cache[k]
  /\ void_used' = IF IsVoid(cache[k]) THEN void_used + 1 ELSE void_used
  /\ UNCHANGED <<terms_used, terms_exceeded, void_exceeded, network_queries,
                 cache, key, source, expired, void_exempt, status>>

CacheHit(k) ==
  /\ cache[k] # NoAnswer
  /\ queries' = Append(queries, QueryRecord(k, cache[k], "cache"))
  /\ reply' = cache[k]
  /\ UNCHANGED <<limitVars, network_queries, cache, key, source, expired,
                 void_exempt, status>>

PastDeadline(k) ==
  /\ cache[k] = NoAnswer
  /\ DeadlinePassed
  /\ status' = "temperror"
  /\ UNCHANGED <<limitVars, lookupVars, expired, void_exempt, reply>>

BudgetSpentLate == MaxQueries # NoCap /\ network_queries > MaxQueries  \* mutant
BudgetSpent == MaxQueries # NoCap /\ network_queries >= MaxQueries

OverBudget(k) ==
  /\ cache[k] = NoAnswer
  /\ ~DeadlinePassed
  /\ BudgetSpent
  /\ status' = "permerror"
  /\ UNCHANGED <<limitVars, lookupVars, expired, void_exempt, reply>>

\* claim() decides who answers: a speculative lookup or a live one.  Either
\* way it is one more network query.
Send(k) ==
  /\ cache[k] = NoAnswer
  /\ ~DeadlinePassed
  /\ ~BudgetSpent
  /\ network_queries' = network_queries + 1
  /\ key' = k
  /\ source' \in IF Prefetch THEN {"dns", "prefetch"} ELSE {"dns"}
  /\ status' = "await"
  /\ UNCHANGED <<limitVars, cache, queries, expired, void_exempt, reply>>

Query(k) ==
  /\ status = "ready"
  /\ CacheHit(k) \/ PastDeadline(k) \/ OverBudget(k) \/ Send(k)

(***************************************************************************)
(* EvaluationSession.query(), after its await.                             *)
(***************************************************************************)

CacheablePositive(a) == a.rcode = "NOERROR"  \* mutant
Cacheable(a) == a.rcode \in Definite

\* A void that counts: it was not served by the cache, which never awaits.
CountsExempt(a) == IsVoid(a)  \* mutant: void_exempt() is forgotten
Counts(a) == IsVoid(a) /\ ~void_exempt

\* _enforce_void(): the first void over the limit, and every one after it.
Breaches(a) == Counts(a) /\ void_used + 1 > MaxVoid

\* It raises at once, unless this is an audit.
EnforcedLate(a) == void_exceeded /\ ~Audit  \* mutant: the flag is read too soon
Enforced(a) == Breaches(a) /\ ~Audit

\* Mutant: the limit is enforced before the record is made.
AnswerUnrecorded(a) ==
  /\ status = "await"
  /\ a \in Reply[key]
  /\ cache' = IF Cacheable(a) THEN [cache EXCEPT ![key] = a] ELSE cache
  /\ void_used' = IF Counts(a) THEN void_used + 1 ELSE void_used
  /\ queries' = IF Enforced(a) THEN queries
                                ELSE Append(queries, QueryRecord(key, a, source))
  /\ void_exceeded' = (void_exceeded \/ Breaches(a))
  /\ status' = IF Enforced(a) THEN "permerror" ELSE "ready"
  /\ reply' = IF a.rcode \in Definite THEN a ELSE DnsFailure
  /\ UNCHANGED <<terms_used, terms_exceeded, network_queries, key, source,
                 expired, void_exempt>>

Answer(a) ==
  /\ status = "await"
  /\ a \in Reply[key]
  /\ cache' = IF Cacheable(a) THEN [cache EXCEPT ![key] = a] ELSE cache
  /\ void_used' = IF Counts(a) THEN void_used + 1 ELSE void_used
  /\ queries' = Append(queries, QueryRecord(key, a, source))
  /\ void_exceeded' = (void_exceeded \/ Breaches(a))
  /\ status' = IF Enforced(a) THEN "permerror" ELSE "ready"
  /\ reply' = IF a.rcode \in Definite THEN a ELSE DnsFailure
  /\ UNCHANGED <<terms_used, terms_exceeded, network_queries, key, source,
                 expired, void_exempt>>

\* _lookup raised DnsError itself: nothing after the await is executed.
LookupRaises ==
  /\ status = "await"
  /\ key \in Raises
  /\ status' = "ready"
  /\ reply' = DnsFailure
  /\ UNCHANGED <<limitVars, lookupVars, expired, void_exempt>>

TimeLimitLost == FALSE  \* mutant: no timeout is given to the await

\* wait_for() gives up at the deadline.
TimeLimit ==
  /\ status = "await"
  /\ expired
  /\ status' = "temperror"
  /\ UNCHANGED <<limitVars, lookupVars, expired, void_exempt, reply>>

(***************************************************************************)
(* void_exempt(): leaving the block restores the flag, raised or not.      *)
(***************************************************************************)
EnterExempt ==
  /\ status = "ready"
  /\ ~void_exempt
  /\ void_exempt' = TRUE
  /\ UNCHANGED <<limitVars, lookupVars, expired, status, reply>>

LeaveExempt ==
  /\ status # "await"
  /\ void_exempt
  /\ void_exempt' = FALSE
  /\ UNCHANGED <<limitVars, lookupVars, expired, status, reply>>

-----------------------------------------------------------------------------
SessionNext ==
  \/ Elapse
  \/ CheckDeadline
  \/ ConsumeTerm
  \/ \E k \in Key : Query(k)
  \/ \E k \in Key : \E a \in Reply[k] : Answer(a)
  \/ LookupRaises
  \/ TimeLimit
  \/ EnterExempt
  \/ LeaveExempt

SessionSpec == SessionInit /\ [][SessionNext]_sessionVars

\* Time passes, and the event loop runs a timer that is due.  Nothing is
\* assumed of the name servers: an answer may never come.
SessionFairSpec ==
  SessionSpec /\ WF_sessionVars(Elapse) /\ WF_sessionVars(TimeLimit)

-----------------------------------------------------------------------------
(***************************************************************************)
(* Properties.                                                             *)
(***************************************************************************)
Source == {"dns", "prefetch", "cache"}

\* The records that stand for a lookup the network answered, and those of
\* them that are void lookups the limit is about.
Sent == {i \in DOMAIN queries : queries[i].source # "cache"}
CountedVoids == {i \in Sent : queries[i].void /\ ~queries[i].exempt}

\* The type of every variable, with what the cache may hold.
TypeOK ==
  /\ terms_used \in Nat /\ terms_exceeded \in BOOLEAN
  /\ void_used \in Nat /\ void_exceeded \in BOOLEAN
  /\ expired \in BOOLEAN
  /\ network_queries \in Nat
  /\ cache \in [Key -> (UNION {Reply[k] : k \in Key}) \cup {NoAnswer}]
  /\ \A k \in Key : cache[k] \in Reply[k] \cup {NoAnswer}
  /\ queries \in Seq([key : Key, rcode : RCode, void : BOOLEAN,
                      source : Source, exempt : BOOLEAN])
  /\ void_exempt \in BOOLEAN
  /\ key \in Key \cup {NoKey} /\ source \in {"dns", "prefetch"}
  /\ status \in {"ready", "await"} \cup Raised

\* No evaluation sends more lookups than its budget, however the answers
\* arrive and wherever the budget runs out (session.py:182-190).
BudgetRespected == MaxQueries # NoCap => network_queries <= MaxQueries

\* void_used is the number of recorded void lookups that were really sent and
\* not made for exp=: nothing is counted twice, and a void served by the cache
\* or by the enclosing include is not counted again (session.py:215-220).
VoidCountExact == void_used = Cardinality(CountedVoids)

\* A name that got a definite answer is never sent again: two records of the
\* same lookup that both reached the network were both failures before the
\* second was made, so one name is at most one void (session.py:174, 212-213).
AskedOnce ==
  \A i, j \in Sent :
    i < j /\ queries[i].key = queries[j].key
      => queries[i].rcode \notin Definite

\* Every recorded lookup was paid for, and so is the one in flight; and every
\* lookup that was paid for is in the record, the one that breached a limit
\* included: only the one that the deadline cut off leaves no trace, because
\* wait_for() raises before the record is made.  A resolver that raises leaves
\* none either, so the second half is about resolvers that answer
\* (session.py:190, 204-209, 222-224).
PaidFor ==
  LET known == Cardinality(Sent) + (IF status = "await" THEN 1 ELSE 0)
      cut   == IF status = "temperror" THEN 1 ELSE 0
  IN  /\ known <= network_queries
      /\ Raises = {} => network_queries <= known + cut

\* The flags the verdict is decided from say exactly whether the counters are
\* over their limits, in audit mode and out of it (session.py:75-76, 99-111,
\* 279-281).
FlagsTellBreach ==
  /\ terms_exceeded <=> terms_used > MaxTerms
  /\ void_exceeded <=> void_used > MaxVoid

\* Out of audit mode the first term or void over its limit is the last: it
\* raises permerror there and then.  In audit mode the terms still have a
\* ceiling (session.py:103, 299).
StopsAtBreach ==
  /\ ~Audit =>
       /\ terms_used <= MaxTerms + 1
       /\ void_used <= MaxVoid + 1
       /\ terms_exceeded \/ void_exceeded => status = "permerror"
  /\ Audit /\ status # "permerror" =>
       terms_used <= MaxTerms \/ terms_used <= AuditMaxTerms

\* A lookup leaves only while the evaluation may still use its answer: never
\* after the deadline, and never after a breach that was enforced
\* (session.py:182, 254-264).
NoPacketWithoutUse ==
  [][network_queries' # network_queries
       => /\ ~expired
          /\ terms_exceeded \/ void_exceeded => Audit]_sessionVars
=============================================================================

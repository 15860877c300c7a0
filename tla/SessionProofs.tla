--------------------------- MODULE SessionProofs ---------------------------
(***************************************************************************)
(* Proofs about Session for every set of names, every behaviour of the     *)
(* name servers and every value of the limits.                             *)
(***************************************************************************)
EXTENDS Session, FiniteSetTheorems, TLAPS

\* The lookup in flight is for a real name that has no answer yet.
Awaiting == status = "await" => key \in Key /\ cache[key] = NoAnswer

\* A recorded definite answer is in the cache.
Remembered ==
  \A i \in Sent : queries[i].rcode \in Definite
                    => cache[queries[i].key] # NoAnswer

TypeInv == TypeOK /\ Awaiting

Record == [key : Key, rcode : RCode, void : BOOLEAN,
           source : Source, exempt : BOOLEAN]

-----------------------------------------------------------------------------
(***************************************************************************)
(* Typing.                                                                 *)
(***************************************************************************)

\* An answer that may come for a key is typed, and is never NoAnswer.
LEMMA ReplyType ==
  ASSUME NEW k \in Key, NEW a \in Reply[k]
  PROVE  /\ a.rcode \in RCode
         /\ a # NoAnswer
         /\ a \in UNION {Reply[x] : x \in Key}
  BY SessionAssumption DEF RCode, NoAnswer

\* Appending a record changes neither the records before it nor their type.
LEMMA AppendType ==
  ASSUME NEW q \in Seq(Record), NEW r \in Record
  PROVE  /\ Append(q, r) \in Seq(Record)
         /\ DOMAIN q = 1..Len(q) /\ Len(q) \in Nat
         /\ DOMAIN Append(q, r) = 1..(Len(q) + 1)
         /\ \A i \in 1..Len(q) : Append(q, r)[i] = q[i]
         /\ Append(q, r)[Len(q) + 1] = r
  OBVIOUS

\* A cached key was answered: its entry is a reply of its own or another key.
LEMMA CacheHitType ==
  ASSUME TypeOK, NEW k \in Key, cache[k] # NoAnswer
  PROVE  QueryRecord(k, cache[k], "cache") \in Record
  <1>1. PICK x \in Key : cache[k] \in Reply[x]
    BY DEF TypeOK
  <1>2. cache[k].rcode \in RCode
    BY <1>1, ReplyType
  <1>. QED
    BY <1>2 DEF QueryRecord, Record, IsVoid, Source, TypeOK

LEMMA TypeStep == TypeInv /\ [SessionNext]_sessionVars => TypeInv'
  <1> SUFFICES ASSUME TypeInv, [SessionNext]_sessionVars
               PROVE  TypeInv'
    OBVIOUS
  <1> USE SessionAssumption DEF TypeInv, TypeOK, Awaiting, limitVars,
          lookupVars, Raised, Source
  <1>1. CASE Elapse
    BY <1>1 DEF Elapse
  <1>2. CASE CheckDeadline
    BY <1>2 DEF CheckDeadline
  <1>3. CASE ConsumeTerm
    BY <1>3 DEF ConsumeTerm, OverTerms, TermRefused
  <1>4. ASSUME NEW k \in Key, Query(k)
        PROVE  TypeInv'
    <2>1. CASE CacheHit(k)
      <3>1. queries' \in Seq(Record)
        BY <2>1, CacheHitType, AppendType DEF CacheHit, Record
      <3>. QED
        BY <1>4, <2>1, <3>1 DEF CacheHit, Record, Query
    <2>2. CASE PastDeadline(k)
      BY <2>2 DEF PastDeadline, DeadlinePassed
    <2>3. CASE OverBudget(k)
      BY <2>3 DEF OverBudget
    <2>4. CASE Send(k)
      BY <2>4 DEF Send
    <2>. QED
      BY <1>4, <2>1, <2>2, <2>3, <2>4 DEF Query
  <1>5. ASSUME NEW k \in Key, NEW a \in Reply[k], Answer(a)
        PROVE  TypeInv'
    <2>0. key \in Key /\ a \in Reply[key]
      BY <1>5 DEF Answer
    <2>1. QueryRecord(key, a, source) \in Record
      BY <2>0, ReplyType DEF QueryRecord, Record, IsVoid
    <2>2. queries' \in Seq(Record)
      BY <1>5, <2>1, AppendType DEF Answer, Record
    <2>3. cache' \in [Key -> (UNION {Reply[x] : x \in Key}) \cup {NoAnswer}]
      BY <1>5, <2>0, ReplyType DEF Answer
    <2>4. void_used' \in Nat /\ void_exceeded' \in BOOLEAN
      BY <1>5 DEF Answer, Breaches, Counts, Enforced
    <2>. QED
      BY <1>5, <2>2, <2>3, <2>4 DEF Answer, Record
  <1>6. CASE LookupRaises
    BY <1>6 DEF LookupRaises
  <1>7. CASE TimeLimit
    BY <1>7 DEF TimeLimit
  <1>8. CASE EnterExempt
    BY <1>8 DEF EnterExempt
  <1>9. CASE LeaveExempt
    BY <1>9 DEF LeaveExempt
  <1>10. CASE UNCHANGED sessionVars
    BY <1>10 DEF sessionVars
  <1>. QED
    BY <1>1, <1>2, <1>3, <1>4, <1>5, <1>6, <1>7, <1>8, <1>9, <1>10
       DEF SessionNext

LEMMA TypeInit == SessionInit => TypeInv
  <1> SUFFICES ASSUME SessionInit
               PROVE  TypeInv
    OBVIOUS
  <1>1. queries \in Seq(Record)
    BY DEF SessionInit
  <1>2. /\ cache \in [Key -> (UNION {Reply[x] : x \in Key}) \cup {NoAnswer}]
        /\ \A k \in Key : cache[k] \in Reply[k] \cup {NoAnswer}
    BY DEF SessionInit
  <1>3. /\ terms_used \in Nat /\ void_used \in Nat /\ network_queries \in Nat
        /\ terms_exceeded \in BOOLEAN /\ void_exceeded \in BOOLEAN
        /\ expired \in BOOLEAN /\ void_exempt \in BOOLEAN
        /\ source \in {"dns", "prefetch"} /\ key \in Key \cup {NoKey}
        /\ status \in {"ready", "await"} \cup Raised
    BY DEF SessionInit
  <1>4. Awaiting
    BY DEF SessionInit, Awaiting
  <1>. QED
    BY <1>1, <1>2, <1>3, <1>4 DEF TypeInv, TypeOK, Record

\* The variables keep their types, and a lookup in flight is always one that
\* had no cached answer (session.py:174-178).
THEOREM SessionTypeCorrect == SessionSpec => []TypeInv
  <1>1. SessionInit => TypeInv
    BY TypeInit
  <1>. QED
    BY <1>1, TypeStep, PTL DEF SessionSpec

\* Every variable keeps its type (the invariant TypeOK of the runs).
THEOREM SessionTypeOK == SessionSpec => []TypeOK
  <1>1. TypeInv => TypeOK
    BY DEF TypeInv
  <1>. QED
    BY <1>1, SessionTypeCorrect, PTL

-----------------------------------------------------------------------------
(***************************************************************************)
(* The limits.                                                             *)
(***************************************************************************)
LimitInv ==
  /\ TypeInv
  /\ BudgetRespected
  /\ FlagsTellBreach
  /\ StopsAtBreach

LEMMA LimitStep == LimitInv /\ [SessionNext]_sessionVars => LimitInv'
  <1> SUFFICES ASSUME LimitInv, [SessionNext]_sessionVars
               PROVE  LimitInv'
    OBVIOUS
  <1>0. TypeInv'
    BY TypeStep DEF LimitInv
  <1> USE SessionAssumption DEF LimitInv, TypeInv, TypeOK, BudgetRespected,
          FlagsTellBreach, StopsAtBreach, limitVars, lookupVars, Raised
  <1>1. CASE Elapse
    BY <1>0, <1>1 DEF Elapse
  <1>2. CASE CheckDeadline
    BY <1>0, <1>2 DEF CheckDeadline
  <1>3. CASE ConsumeTerm
    <2>1. ~Audit => ~terms_exceeded /\ ~void_exceeded /\ terms_used <= MaxTerms
      BY <1>3 DEF ConsumeTerm, OverTerms, TermRefused
    <2>2. FlagsTellBreach'
      <3>1. terms_exceeded' <=> terms_exceeded \/ terms_used >= MaxTerms
        BY ONLY <1>3, Zenon DEF ConsumeTerm, OverTerms, TermRefused
      <3>2. terms_exceeded' <=> terms_used' > MaxTerms
        BY <1>3, <3>1 DEF ConsumeTerm, OverTerms, TermRefused
      <3>. QED
        BY <1>3, <3>2 DEF ConsumeTerm, OverTerms, TermRefused
    <2>3. StopsAtBreach'
      BY <1>3, <2>1 DEF ConsumeTerm, OverTerms, TermRefused
    <2>. QED
      BY <1>0, <1>3, <2>2, <2>3 DEF ConsumeTerm, OverTerms, TermRefused
  <1>4. ASSUME NEW k \in Key, Query(k)
        PROVE  LimitInv'
    BY <1>0, <1>4 DEF Query, CacheHit, PastDeadline, OverBudget, Send,
                      BudgetSpent
  <1>5. ASSUME NEW k \in Key, NEW a \in Reply[k], Answer(a)
        PROVE  LimitInv'
    <2>1. ~Audit => ~terms_exceeded /\ ~void_exceeded /\ void_used <= MaxVoid
      BY <1>5 DEF Answer
    <2>2. FlagsTellBreach'
      <3>1. void_exceeded' <=> void_exceeded \/ Breaches(a)
        BY ONLY <1>5, Zenon DEF Answer
      <3>2. void_used' = IF Counts(a) THEN void_used + 1 ELSE void_used
        BY <1>5 DEF Answer
      <3>3. Breaches(a) <=> Counts(a) /\ void_used + 1 > MaxVoid
        BY DEF Breaches
      <3>4. void_exceeded' <=> void_used' > MaxVoid
        BY <3>1, <3>2, <3>3
      <3>. QED
        BY <1>5, <3>4 DEF Answer
    <2>3. StopsAtBreach'
      BY <1>5, <2>1 DEF Answer, Breaches, Counts, Enforced
    <2>. QED
      BY <1>0, <1>5, <2>2, <2>3 DEF Answer
  <1>6. CASE LookupRaises
    BY <1>0, <1>6 DEF LookupRaises
  <1>7. CASE TimeLimit
    BY <1>0, <1>7 DEF TimeLimit
  <1>8. CASE EnterExempt
    BY <1>0, <1>8 DEF EnterExempt
  <1>9. CASE LeaveExempt
    BY <1>0, <1>9 DEF LeaveExempt
  <1>10. CASE UNCHANGED sessionVars
    BY <1>0, <1>10 DEF sessionVars
  <1>. QED
    BY <1>1, <1>2, <1>3, <1>4, <1>5, <1>6, <1>7, <1>8, <1>9, <1>10
       DEF SessionNext

LEMMA LimitsHold == SessionSpec => []LimitInv
  <1>1. SessionInit => TypeInv
    BY TypeInit
  <1>2. SessionInit => LimitInv
    BY <1>1, SessionAssumption
       DEF SessionInit, LimitInv, BudgetRespected, FlagsTellBreach,
           StopsAtBreach
  <1>. QED
    BY <1>2, LimitStep, PTL DEF SessionSpec

\* The evaluation never sends more lookups than Limits.max_queries, whatever
\* the order of its calls (session.py:182-190).
THEOREM SessionBudget == SessionSpec => []BudgetRespected
  <1>1. LimitInv => BudgetRespected
    BY DEF LimitInv
  <1>. QED
    BY <1>1, LimitsHold, PTL

\* terms_exceeded and void_exceeded, which decide the verdict, say exactly
\* whether the counters passed their limits (session.py:75-76).
THEOREM SessionFlags == SessionSpec => []FlagsTellBreach
  <1>1. LimitInv => FlagsTellBreach
    BY DEF LimitInv
  <1>. QED
    BY <1>1, LimitsHold, PTL

\* The first breach ends an evaluation that is not an audit, and no counter
\* ever passes its limit by more than one (session.py:99-111, 279-303).
THEOREM SessionStopsAtBreach == SessionSpec => []StopsAtBreach
  <1>1. LimitInv => StopsAtBreach
    BY DEF LimitInv
  <1>. QED
    BY <1>1, LimitsHold, PTL

\* No lookup is sent after the deadline, or after a breach that was enforced
\* (session.py:182, 254-264).
THEOREM SessionNoPacketWithoutUse == SessionSpec => NoPacketWithoutUse
  <1>1. LimitInv /\ [SessionNext]_sessionVars
          => [network_queries' # network_queries
               => /\ ~expired
                  /\ terms_exceeded \/ void_exceeded => Audit]_sessionVars
    BY DEF LimitInv, StopsAtBreach, SessionNext, Elapse, CheckDeadline,
           ConsumeTerm, Query, CacheHit, PastDeadline, OverBudget, Send,
           Answer, LookupRaises, TimeLimit, EnterExempt, LeaveExempt,
           DeadlinePassed, limitVars, lookupVars, Raised
  <1>. QED
    BY <1>1, LimitsHold, PTL DEF SessionSpec, NoPacketWithoutUse

-----------------------------------------------------------------------------
(***************************************************************************)
(* The record against the counters.  CountInv is inductive: VoidCountExact *)
(* and PaidFor need the finiteness of the index sets, and AskedOnce needs  *)
(* Remembered, because a lookup is only sent when the cache has no answer. *)
(***************************************************************************)
CountInv ==
  /\ TypeInv
  /\ Remembered
  /\ AskedOnce
  /\ VoidCountExact
  /\ PaidFor

\* The index sets are finite.
LEMMA IndexSets ==
  ASSUME TypeOK
  PROVE  /\ IsFiniteSet(Sent) /\ IsFiniteSet(CountedVoids)
         /\ Cardinality(Sent) \in Nat /\ Cardinality(CountedVoids) \in Nat
         /\ Len(queries) + 1 \notin Sent
         /\ Len(queries) + 1 \notin CountedVoids
         /\ Sent \subseteq 1..Len(queries)
  <1>1. /\ Len(queries) \in Nat /\ DOMAIN queries = 1..Len(queries)
    BY DEF TypeOK
  <1>2. IsFiniteSet(1..Len(queries))
    BY <1>1, FS_Interval
  <1>3. Sent \in SUBSET (1..Len(queries)) /\ CountedVoids \in SUBSET Sent
    BY <1>1 DEF Sent, CountedVoids
  <1>4. IsFiniteSet(Sent)
    BY <1>2, <1>3, FS_Subset
  <1>5. IsFiniteSet(CountedVoids)
    BY <1>3, <1>4, FS_Subset
  <1>. QED
    BY <1>1, <1>3, <1>4, <1>5, FS_CardinalityType

\* What one more record does to the index sets.
LEMMA AppendRecord ==
  ASSUME TypeOK, NEW r \in Record, queries' = Append(queries, r)
  PROVE  /\ Sent' = IF r.source # "cache" THEN Sent \cup {Len(queries) + 1}
                                          ELSE Sent
         /\ CountedVoids' =
              IF r.source # "cache" /\ r.void /\ ~r.exempt
                THEN CountedVoids \cup {Len(queries) + 1} ELSE CountedVoids
  <1> DEFINE n == Len(queries)
  <1>1. /\ queries \in Seq(Record) /\ n \in Nat /\ DOMAIN queries = 1..n
        /\ DOMAIN queries' = 1..(n + 1)
        /\ \A i \in 1..n : queries'[i] = queries[i]
        /\ queries'[n + 1] = r
    BY AppendType DEF TypeOK, Record
  <1>2. 1..(n + 1) = (1..n) \cup {n + 1}
    BY <1>1
  <1> HIDE DEF n
  <1>3. Sent' = IF r.source # "cache" THEN Sent \cup {n + 1} ELSE Sent
    BY <1>1, <1>2 DEF Sent
  <1>4. ASSUME NEW i
        PROVE  i \in CountedVoids' <=>
                 \/ i \in CountedVoids
                 \/ /\ i = n + 1
                    /\ r.source # "cache" /\ r.void /\ ~r.exempt
    <2>0. n + 1 \notin 1..n
      BY <1>1
    <2>1. CASE i = n + 1
      BY <2>0, <2>1, <1>1, <1>2 DEF Sent, CountedVoids
    <2>2. CASE i \in 1..n
      BY <2>0, <2>2, <1>1, <1>2 DEF Sent, CountedVoids
    <2>3. CASE i \notin 1..(n + 1)
      BY <2>3, <1>1, <1>2 DEF Sent, CountedVoids
    <2>. QED
      BY <2>1, <2>2, <2>3, <1>2
  <1>5. CountedVoids' = IF r.source # "cache" /\ r.void /\ ~r.exempt
                        THEN CountedVoids \cup {n + 1} ELSE CountedVoids
    BY <1>4
  <1>. QED
    BY <1>3, <1>5 DEF n

\* A step that touches neither the record nor the counters keeps CountInv.
LEMMA CountStutter ==
  ASSUME CountInv, TypeInv',
         UNCHANGED <<queries, void_used, cache>>,
         \/ network_queries' = network_queries /\ status' = status
         \/ /\ network_queries' = network_queries
            /\ status = "ready" /\ status' \in Raised
         \/ /\ network_queries' = network_queries
            /\ status = "await" /\ status' # "await"
            /\ status' = "temperror" \/ Raises # {}
         \/ /\ network_queries' = network_queries + 1
            /\ status = "ready" /\ status' = "await"
  PROVE  CountInv'
  <1>1. Sent' = Sent /\ CountedVoids' = CountedVoids
    BY DEF CountInv, Sent, CountedVoids
  <1>2. Remembered' /\ AskedOnce' /\ VoidCountExact'
    BY <1>1 DEF CountInv, Remembered, AskedOnce, VoidCountExact
  <1>3. PaidFor'
    BY <1>1, IndexSets DEF CountInv, TypeInv, TypeOK, PaidFor, Raised
  <1>. QED
    BY <1>2, <1>3 DEF CountInv

LEMMA CountCacheHit ==
  ASSUME CountInv, TypeInv', NEW k \in Key, status = "ready", CacheHit(k)
  PROVE  CountInv'
  <1> DEFINE r == QueryRecord(k, cache[k], "cache")
  <1>0. r \in Record /\ queries' = Append(queries, r) /\ r.source = "cache"
    BY CacheHitType DEF CountInv, TypeInv, CacheHit, QueryRecord
  <1> HIDE DEF r
  <1>1. Sent' = Sent /\ CountedVoids' = CountedVoids
    BY <1>0, AppendRecord DEF CountInv, TypeInv
  <1>2. \A i \in Sent : queries'[i] = queries[i]
    BY <1>0, IndexSets, AppendType DEF CountInv, TypeInv, TypeOK, Record
  <1>3. UNCHANGED <<void_used, network_queries, cache, status>>
    BY DEF CacheHit, limitVars
  <1>4. Remembered'
    BY <1>1, <1>2, <1>3 DEF CountInv, Remembered
  <1>5. AskedOnce'
    BY <1>1, <1>2 DEF CountInv, AskedOnce
  <1>6. VoidCountExact' /\ PaidFor'
    BY <1>1, <1>3 DEF CountInv, VoidCountExact, PaidFor
  <1>. QED
    BY <1>4, <1>5, <1>6 DEF CountInv

LEMMA CountAnswer ==
  ASSUME CountInv, TypeInv', NEW k \in Key, NEW a \in Reply[k], Answer(a)
  PROVE  CountInv'
  <1> DEFINE r == QueryRecord(key, a, source)
             n == Len(queries)
  <1>0. key \in Key /\ a \in Reply[key] /\ cache[key] = NoAnswer
    BY DEF Answer, CountInv, TypeInv, Awaiting
  <1>1. /\ r \in Record /\ queries' = Append(queries, r)
        /\ r.source # "cache" /\ r.key = key /\ r.rcode = a.rcode
        /\ r.void = IsVoid(a) /\ r.exempt = void_exempt
    BY <1>0, ReplyType
       DEF QueryRecord, Record, IsVoid, Answer, CountInv, TypeInv, TypeOK,
           Source
  <1> HIDE DEF r
  <1>2. /\ queries \in Seq(Record) /\ n \in Nat
        /\ \A i \in 1..n : queries'[i] = queries[i]
        /\ queries'[n + 1] = r
    BY <1>1, AppendType DEF CountInv, TypeInv, TypeOK, Record
  <1>3. /\ Sent' = Sent \cup {n + 1}
        /\ CountedVoids' = IF Counts(a) THEN CountedVoids \cup {n + 1}
                                        ELSE CountedVoids
    BY <1>1, AppendRecord DEF CountInv, TypeInv, Counts
  <1>4. /\ Sent \subseteq 1..n /\ n + 1 \notin Sent
        /\ IsFiniteSet(Sent) /\ IsFiniteSet(CountedVoids)
        /\ Cardinality(Sent) \in Nat /\ Cardinality(CountedVoids) \in Nat
        /\ n + 1 \notin CountedVoids
    BY IndexSets DEF CountInv, TypeInv
  <1> HIDE DEF n
  <1>5. /\ cache' = IF a.rcode \in Definite THEN [cache EXCEPT ![key] = a]
                                            ELSE cache
        /\ a # NoAnswer
        /\ cache \in [Key -> (UNION {Reply[x] : x \in Key}) \cup {NoAnswer}]
    BY <1>0, ReplyType DEF Answer, Cacheable, CountInv, TypeInv, TypeOK
  <1>6. \A i \in Sent : queries[i].key \in Key
    <2>1. \A i \in Sent : queries[i] \in Record
      BY <1>2, <1>4 DEF n
    <2>. QED
      BY <2>1 DEF Record
  <1>7. Remembered'
    <2> SUFFICES ASSUME NEW i \in Sent', queries'[i].rcode \in Definite
                 PROVE  cache'[queries'[i].key] # NoAnswer
      BY DEF Remembered
    <2>1. CASE i = n + 1
      BY <2>1, <1>0, <1>1, <1>2, <1>5
    <2>2. CASE i \in Sent
      <3>1. queries'[i] = queries[i] /\ cache[queries[i].key] # NoAnswer
        BY <2>2, <1>2, <1>4 DEF CountInv, Remembered
      <3>. QED
        BY <3>1, <2>2, <1>0, <1>5, <1>6
    <2>. QED
      BY <2>1, <2>2, <1>3
  <1>8. AskedOnce'
    <2> SUFFICES ASSUME NEW i \in Sent', NEW j \in Sent', i < j,
                        queries'[i].key = queries'[j].key
                 PROVE  queries'[i].rcode \notin Definite
      BY DEF AskedOnce
    <2>1. i \in Sent
      BY <1>2, <1>3, <1>4
    <2>2. queries'[i] = queries[i]
      BY <2>1, <1>2, <1>4
    <2>3. CASE j = n + 1
      <3>1. cache[queries[i].key] = NoAnswer
        BY <2>2, <2>3, <1>0, <1>1, <1>2
      <3>. QED
        BY <3>1, <2>1, <2>2 DEF CountInv, Remembered
    <2>4. CASE j \in Sent
      BY <2>1, <2>2, <2>4, <1>2, <1>4 DEF CountInv, AskedOnce
    <2>. QED
      BY <2>3, <2>4, <1>3
  <1>9. VoidCountExact'
    <2>1. void_used' = IF Counts(a) THEN void_used + 1 ELSE void_used
      BY DEF Answer
    <2>2. Cardinality(CountedVoids \cup {n + 1}) = Cardinality(CountedVoids) + 1
      BY <1>4, FS_AddElement
    <2>. QED
      BY <2>1, <2>2, <1>3 DEF CountInv, VoidCountExact
  <1>10. PaidFor'
    <2>1. Cardinality(Sent \cup {n + 1}) = Cardinality(Sent) + 1
      BY <1>4, FS_AddElement
    <2>2. /\ network_queries' = network_queries
          /\ status = "await" /\ status' # "await"
          /\ network_queries \in Nat
      BY DEF Answer, CountInv, TypeInv, TypeOK
    <2>3. /\ Cardinality(Sent) + 1 <= network_queries
          /\ Raises = {} => network_queries <= Cardinality(Sent) + 1
      BY <1>4, <2>2 DEF CountInv, PaidFor
    <2>. QED
      BY <2>1, <2>2, <2>3, <1>3, <1>4 DEF PaidFor
  <1>. QED
    BY <1>7, <1>8, <1>9, <1>10 DEF CountInv

LEMMA CountStep == CountInv /\ [SessionNext]_sessionVars => CountInv'
  <1> SUFFICES ASSUME CountInv, [SessionNext]_sessionVars
               PROVE  CountInv'
    OBVIOUS
  <1>0. TypeInv'
    BY TypeStep DEF CountInv
  <1>1. ASSUME NEW k \in Key, Query(k)
        PROVE  CountInv'
    <2>1. CASE CacheHit(k)
      BY <1>0, <1>1, <2>1, CountCacheHit DEF Query
    <2>2. CASE PastDeadline(k) \/ OverBudget(k) \/ Send(k)
      BY <1>0, <1>1, <2>2, CountStutter
         DEF Query, PastDeadline, OverBudget, Send, limitVars, lookupVars, Raised
    <2>. QED
      BY <1>1, <2>1, <2>2 DEF Query
  <1>2. ASSUME NEW k \in Key, NEW a \in Reply[k], Answer(a)
        PROVE  CountInv'
    BY <1>0, <1>2, CountAnswer
  <1>3. CASE Elapse \/ EnterExempt \/ LeaveExempt \/ UNCHANGED sessionVars
    BY <1>0, <1>3, CountStutter
       DEF Elapse, EnterExempt, LeaveExempt, sessionVars, limitVars, lookupVars
  <1>4. CASE CheckDeadline
    BY <1>0, <1>4, CountStutter DEF CheckDeadline, lookupVars, limitVars, Raised
  <1>5. CASE ConsumeTerm
    <2>1. status = "ready" /\ (status' = status \/ status' \in Raised)
      BY <1>5 DEF ConsumeTerm, Raised
    <2>2. UNCHANGED <<queries, void_used, cache, network_queries>>
      BY <1>5 DEF ConsumeTerm, lookupVars
    <2>. QED
      BY <1>0, <2>1, <2>2, CountStutter
  <1>6. CASE LookupRaises
    <2>1. Raises # {} /\ status = "await" /\ status' = "ready"
      BY <1>6 DEF LookupRaises
    <2>2. UNCHANGED <<queries, void_used, cache, network_queries>>
      BY <1>6 DEF LookupRaises, lookupVars, limitVars
    <2>. QED
      BY <1>0, <2>1, <2>2, CountStutter
  <1>7. CASE TimeLimit
    BY <1>0, <1>7, CountStutter DEF TimeLimit, lookupVars, limitVars
  <1>. QED
    BY <1>1, <1>2, <1>3, <1>4, <1>5, <1>6, <1>7 DEF SessionNext

LEMMA CountsHold == SessionSpec => []CountInv
  <1>1. SessionInit => CountInv
    <2> SUFFICES ASSUME SessionInit
                 PROVE  CountInv
      OBVIOUS
    <2>1. Sent = {} /\ CountedVoids = {}
      BY DEF SessionInit, Sent, CountedVoids
    <2>. QED
      BY <2>1, TypeInit, FS_EmptySet
         DEF SessionInit, CountInv, Remembered, AskedOnce, VoidCountExact,
             PaidFor
  <1>. QED
    BY <1>1, CountStep, PTL DEF SessionSpec

\* Voids are counted once per lookup that was sent outside exp=, and never
\* for a cache hit, however deep the includes (session.py:215-220).
THEOREM SessionVoidCount == SessionSpec => []VoidCountExact
  <1>1. CountInv => VoidCountExact
    BY DEF CountInv
  <1>. QED
    BY <1>1, CountsHold, PTL

\* A name that got a definite answer is not sent again (session.py:174, 212).
THEOREM SessionAskedOnce == SessionSpec => []AskedOnce
  <1>1. CountInv => AskedOnce
    BY DEF CountInv
  <1>. QED
    BY <1>1, CountsHold, PTL

\* Every record of a sent lookup, and the lookup in flight, was counted as a
\* network query, and, if the resolver raises nothing, every network query is
\* one of these but for the one the deadline cut off (session.py:190, 204-209,
\* 222-224).
THEOREM SessionPaidFor == SessionSpec => []PaidFor
  <1>1. CountInv => PaidFor
    BY DEF CountInv
  <1>. QED
    BY <1>1, CountsHold, PTL
=============================================================================

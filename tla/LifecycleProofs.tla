--------------------------- MODULE LifecycleProofs ---------------------------
(***************************************************************************)
(* Any number of evaluate() calls on any number of Evaluators, all on one  *)
(* resolver: as long as no call begins while another one on its Evaluator  *)
(* runs, each reports and fails by itself, takes the override and closes   *)
(* its prefetcher.  Calls on Evaluators of their own may overlap.          *)
(***************************************************************************)
EXTENDS Lifecycle, TLAPS

\* The calls of one Evaluator do not overlap, or there is one call on each.
Alone == Overlap = FALSE \/ \A c, d \in Call : On[c] = On[d] => c = d

Active(c) == pc[c] \notin {"idle", "done"}

Pc == {"idle", "run", "await", "close", "closing", "report", "done"}
CountsType == [terms : Nat, sent : Nat, voids : Nat]
StateType == [counts : CountsType, override_used : BOOLEAN,
              prefetcher : {"none", "running", "closed"}]

LifeType ==
  /\ bound \in [Machine -> Call \cup {None}]
  /\ stats \in [Machine -> Call \cup {None}]
  /\ state \in [Call -> StateType]
  /\ pc \in [Call -> Pc]
  /\ record \in [Call -> {"none", "override", "published"}]
  /\ awaiting \in [Call -> Call \cup {None}]
  /\ verdict \in [Call -> {"none", "permerror", "cancelled", "found"}]
  /\ DOMAIN result = Call
  /\ own \in [Call -> CountsType]

\* The state that a call reaches is the one its own _begin() made.
OwnState(c) ==
  /\ Active(c) => Self(c) = c
  /\ pc[c] \in {"await", "closing"} => awaiting[c] = c
  /\ state[c].counts = own[c]

\* What has been done by the time a call is at pc[c].
Stage(c) ==
  /\ pc[c] = "idle" => record[c] = "none" /\ verdict[c] = "none"
  /\ pc[c] \in {"run", "await"} => verdict[c] = "none"
  /\ On[c] \in WithOverride => record[c] # "published"
  /\ record[c] = "none" => ~state[c].override_used
  /\ ~Prefetch => state[c].prefetcher = "none"
  /\ pc[c] = "closing" => Prefetch
  /\ pc[c] \in {"closing", "report", "done"} => state[c].prefetcher # "running"
  /\ ~Prefetch /\ Active(c) => stats[On[c]] = None
  /\ Prefetch /\ pc[c] = "report" => stats[On[c]] = c

Reports(c) ==
  Returned(c) =>
    result[c] = [counts |-> own[c], prefetch |-> IF Prefetch THEN c ELSE None]

Fails(c) ==
  verdict[c] = "permerror" =>
    \/ own[c].terms > MaxTerms
    \/ own[c].voids > MaxVoid
    \/ own[c].sent >= MaxQueries

CallInv(c) == OwnState(c) /\ Stage(c) /\ Reports(c) /\ Fails(c)

\* Two calls that run are calls of two Evaluators.
Apart == \A c, d \in Call : Active(c) /\ Active(d) /\ On[c] = On[d] => c = d

LifeInv == LifeType /\ Apart /\ \A c \in Call : CallInv(c)

LEMMA LifeInitInv == LifeInit => LifeInv
  BY LifecycleAssumption
     DEF LifeInit, LifeInv, LifeType, CallInv, OwnState, Stage, Apart, Reports,
         Fails, Returned, Active, Self, Fresh, Counts, Pc, CountsType, StateType

\* One more term, lookup or void of a call.
LEMMA OwnBump ==
  ASSUME NEW F \in [Call -> CountsType], NEW c \in Call,
         NEW w \in {"terms", "sent", "voids"}
  PROVE  [F EXCEPT ![c][w] = @ + 1] \in [Call -> CountsType]
  <1>1. F[c] \in CountsType
    OBVIOUS
  <1>2. [F[c] EXCEPT ![w] = @ + 1] \in CountsType
    <2>1. CASE w = "terms"
      BY <1>1, <2>1 DEF CountsType
    <2>2. CASE w = "sent"
      BY <1>1, <2>2 DEF CountsType
    <2>3. CASE w = "voids"
      BY <1>1, <2>3 DEF CountsType
    <2>. QED
      BY <2>1, <2>2, <2>3
  <1>. QED
    BY <1>2

LEMMA StateBump ==
  ASSUME NEW F \in [Call -> StateType], NEW c \in Call,
         NEW w \in {"terms", "sent", "voids"}
  PROVE  [F EXCEPT ![c].counts[w] = @ + 1] \in [Call -> StateType]
  <1>1. F[c] \in StateType /\ F[c].counts \in CountsType
    BY DEF StateType
  <1>2. [F[c].counts EXCEPT ![w] = @ + 1] \in CountsType
    <2>1. CASE w = "terms"
      BY <1>1, <2>1 DEF CountsType
    <2>2. CASE w = "sent"
      BY <1>1, <2>2 DEF CountsType
    <2>3. CASE w = "voids"
      BY <1>1, <2>3 DEF CountsType
    <2>. QED
      BY <2>1, <2>2, <2>3
  <1>3. [F[c] EXCEPT !.counts[w] = @ + 1] \in StateType
    BY <1>1, <1>2 DEF StateType
  <1>. QED
    BY <1>3

LEMMA TypeStep ==
  ASSUME LifeInv, NEW c \in Call, LifeStep(c)
  PROVE  LifeType'
  <1>1. /\ LifeType
        /\ On[c] \in Machine
        /\ Active(c) => Self(c) = c
        /\ pc[c] \in {"await", "closing"} => awaiting[c] = c
    BY LifecycleAssumption DEF LifeInv, CallInv, OwnState
  <1>2. CASE Begin(c)
    BY <1>1, <1>2 DEF Begin, Go, LifeType, Pc
  <1>3. CASE TakeOverride(c)
    <2>1. [state EXCEPT ![c].override_used = TRUE] \in [Call -> StateType]
      BY <1>1 DEF LifeType, StateType
    <2>. QED
      BY <1>1, <1>3, <2>1 DEF TakeOverride, LifeType, Active
  <1>4. CASE AskRecord(c)
    BY <1>1, <1>4 DEF AskRecord, LifeType
  <1>5. CASE ConsumeTerm(c)
    <2>1. Count(c, "terms") /\ Self(c) = c
      BY <1>1, <1>5 DEF ConsumeTerm, Active
    <2>2. state' \in [Call -> StateType] /\ own' \in [Call -> CountsType]
      BY <1>1, <2>1, OwnBump, StateBump DEF Count, LifeType
    <2>3. Fail(c) \/ UNCHANGED <<pc, verdict>>
      BY <1>5 DEF ConsumeTerm
    <2>. QED
      BY <1>1, <1>5, <2>2, <2>3 DEF ConsumeTerm, Fail, Go, LifeType, Pc
  <1>6. CASE Query(c)
    <2>1. CASE Fail(c) /\ UNCHANGED <<state, own, awaiting>>
      BY <1>1, <1>6, <2>1 DEF Query, Fail, Go, LifeType, Pc
    <2>2. CASE /\ Count(c, "sent") /\ Go(c, "await") /\ UNCHANGED verdict
               /\ awaiting' = [awaiting EXCEPT ![c] = Self(c)]
      <3>1. Self(c) = c
        BY <1>1, <1>6 DEF Query, Active
      <3>2. state' \in [Call -> StateType] /\ own' \in [Call -> CountsType]
        BY <1>1, <2>2, <3>1, OwnBump, StateBump DEF Count, LifeType
      <3>. QED
        BY <1>1, <1>6, <2>2, <3>1, <3>2 DEF Query, Go, LifeType, Pc
    <2>. QED
      BY <1>6, <2>1, <2>2 DEF Query
  <1>7. CASE Answer(c)
    <2>1. CASE Go(c, "run") /\ UNCHANGED <<state, own, verdict>>
      BY <1>1, <1>7, <2>1 DEF Answer, Go, LifeType, Pc
    <2>2. CASE /\ state' = [state EXCEPT ![awaiting[c]].counts.voids = @ + 1]
               /\ own' = [own EXCEPT ![c].voids = @ + 1]
               /\ IF state[awaiting[c]].counts.voids >= MaxVoid
                    THEN Fail(c) ELSE Go(c, "run") /\ UNCHANGED verdict
      <3>1. awaiting[c] = c
        BY <1>1, <1>7 DEF Answer
      <3>2. state' \in [Call -> StateType] /\ own' \in [Call -> CountsType]
        <4>1. [state EXCEPT ![c].counts["voids"] = @ + 1] \in [Call -> StateType]
          BY <1>1, StateBump DEF LifeType
        <4>2. [own EXCEPT ![c]["voids"] = @ + 1] \in [Call -> CountsType]
          BY <1>1, OwnBump DEF LifeType
        <4>. QED
          BY <2>2, <3>1, <4>1, <4>2
      <3>. QED
        BY <1>1, <1>7, <2>2, <3>2 DEF Answer, Fail, Go, LifeType, Pc
    <2>. QED
      BY <1>7, <2>1, <2>2, Zenon DEF Answer
  <1>8. CASE Cancel(c)
    BY <1>1, <1>8 DEF Cancel, Go, LifeType, Pc
  <1>9. CASE Conclude(c)
    BY <1>1, <1>9 DEF Conclude, Go, LifeType, Pc
  <1>10. CASE Close(c)
    <2>1. Self(c) = c
      BY <1>1, <1>10 DEF Close, Active
    <2>2. [state EXCEPT ![c].prefetcher = "closed"] \in [Call -> StateType]
      BY <1>1 DEF LifeType, StateType
    <2>3. [awaiting EXCEPT ![c] = c] \in [Call -> Call \cup {None}]
      BY <1>1 DEF LifeType
    <2>4. [stats EXCEPT ![On[c]] = c] \in [Machine -> Call \cup {None}]
      BY <1>1 DEF LifeType
    <2>5. /\ state' \in [Call -> StateType]
          /\ awaiting' \in [Call -> Call \cup {None}]
          /\ stats' \in [Machine -> Call \cup {None}]
      BY <1>1, <1>10, <2>1, <2>2, <2>3, <2>4 DEF Close, LifeType
    <2>6. pc' \in [Call -> Pc]
      BY <1>1, <1>10 DEF Close, Go, LifeType, Pc
    <2>. QED
      BY <1>1, <1>10, <2>5, <2>6 DEF Close, LifeType
  <1>11. CASE Closed(c)
    BY <1>1, <1>11 DEF Closed, Go, LifeType, Pc
  <1>12. CASE Report(c)
    BY <1>1, <1>12 DEF Report, Go, LifeType, Pc
  <1>. QED
    BY <1>2, <1>3, <1>4, <1>5, <1>6, <1>7, <1>8, <1>9, <1>10, <1>11, <1>12
       DEF LifeStep

\* A step of one call leaves the others, and the other Evaluators, alone.
LEMMA Frame ==
  ASSUME LifeInv, NEW c \in Call, LifeStep(c)
  PROVE  /\ \A d \in Call \ {c} :
              /\ pc'[d] = pc[d] /\ state'[d] = state[d]
              /\ record'[d] = record[d] /\ awaiting'[d] = awaiting[d]
              /\ verdict'[d] = verdict[d] /\ result'[d] = result[d]
              /\ own'[d] = own[d]
         /\ \A m \in Machine \ {On[c]} : bound'[m] = bound[m] /\ stats'[m] = stats[m]
  <1>1. /\ LifeType
        /\ On[c] \in Machine
        /\ Active(c) => Self(c) = c
        /\ pc[c] \in {"await", "closing"} => awaiting[c] = c
    BY LifecycleAssumption DEF LifeInv, CallInv, OwnState
  <1>2. CASE Begin(c)
    BY <1>1, <1>2 DEF Begin, Go, LifeType
  <1>3. CASE TakeOverride(c) \/ AskRecord(c)
    BY <1>1, <1>3 DEF TakeOverride, AskRecord, LifeType, Active
  <1>5. CASE ConsumeTerm(c)
    BY <1>1, <1>5 DEF ConsumeTerm, Count, Fail, Go, LifeType, Active
  <1>6. CASE Query(c)
    BY <1>1, <1>6 DEF Query, Count, Fail, Go, LifeType, Active
  <1>7. CASE Answer(c)
    BY <1>1, <1>7 DEF Answer, Fail, Go, LifeType
  <1>8. CASE Cancel(c) \/ Conclude(c)
    BY <1>1, <1>8 DEF Cancel, Conclude, Go, LifeType
  <1>10. CASE Close(c)
    BY <1>1, <1>10 DEF Close, Go, LifeType, Active
  <1>11. CASE Closed(c) \/ Report(c)
    BY <1>1, <1>11 DEF Closed, Report, Go, LifeType
  <1>. QED
    BY <1>2, <1>3, <1>5, <1>6, <1>7, <1>8, <1>10, <1>11 DEF LifeStep

LEMMA ApartStep ==
  ASSUME LifeInv, Alone, NEW c \in Call, LifeStep(c)
  PROVE  Apart'
  <1>1. \A d \in Call \ {c} : pc'[d] = pc[d]
    BY Frame
  <1>2. CASE Begin(c)
    <2>1. CASE Overlap = FALSE
      <3>1. \A d \in Call : On[d] = On[c] => ~Active(d)
        BY <1>2, <2>1 DEF Begin, Active
      <3>. QED
        BY <1>1, <3>1 DEF Apart, Active, LifeInv
    <2>2. CASE \A d, e \in Call : On[d] = On[e] => d = e
      BY <2>2 DEF Apart
    <2>. QED
      BY <2>1, <2>2 DEF Alone
  <1>3. CASE ~Begin(c)
    <2>1. Active(c)
      BY <1>3 DEF LifeStep, TakeOverride, AskRecord, ConsumeTerm, Query, Answer,
                  Cancel, Conclude, Close, Closed, Report, Active
    <2>. QED
      BY <1>1, <2>1 DEF Apart, Active, LifeInv
  <1>. QED
    BY <1>2, <1>3

\* What a call counts reaches its own limits and nothing else of its state.
LEMMA CountOwn ==
  ASSUME LifeType, NEW c \in Call, NEW w \in {"terms", "sent", "voids"},
         state[c].counts = own[c],
         state' = [state EXCEPT ![c].counts[w] = @ + 1],
         own' = [own EXCEPT ![c][w] = @ + 1]
  PROVE  /\ state'[c].counts = own'[c]
         /\ state'[c].override_used = state[c].override_used
         /\ state'[c].prefetcher = state[c].prefetcher
         /\ own'[c][w] = own[c][w] + 1
         /\ own[c][w] \in Nat
  <1>1. own[c] \in CountsType /\ state[c] \in StateType
    BY DEF LifeType
  <1>2. /\ state'[c] = [state[c] EXCEPT !.counts[w] = @ + 1]
        /\ own'[c] = [own[c] EXCEPT ![w] = @ + 1]
    BY DEF LifeType
  <1>3. state'[c].counts = [state[c].counts EXCEPT ![w] = @ + 1]
    BY <1>1, <1>2 DEF StateType
  <1>4. /\ state'[c].override_used = state[c].override_used
        /\ state'[c].prefetcher = state[c].prefetcher
    BY <1>1, <1>2 DEF StateType
  <1>5. own'[c][w] = own[c][w] + 1 /\ own[c][w] \in Nat
    BY <1>1, <1>2 DEF CountsType
  <1>. QED
    BY <1>2, <1>3, <1>4, <1>5

LEMMA CallStep ==
  ASSUME LifeInv, NEW c \in Call, LifeStep(c)
  PROVE  CallInv(c)'
  <1>1. LifeType /\ LifeType' /\ On[c] \in Machine /\ CallInv(c)
    BY LifecycleAssumption, TypeStep DEF LifeInv
  <1>2. {MaxTerms, MaxVoid, MaxQueries} \subseteq Nat
    BY LifecycleAssumption
  <1> USE DEF CallInv, OwnState, Stage, Reports, Fails, Returned, Active, Self
  <1>3. CASE Begin(c)
    BY <1>1, <1>3 DEF Begin, Go, LifeType
  <1>4. CASE TakeOverride(c)
    <2>1. /\ state'[c].counts = state[c].counts
          /\ state'[c].prefetcher = state[c].prefetcher
          /\ record'[c] = "override"
      BY <1>1, <1>4 DEF TakeOverride, LifeType, StateType
    <2>. QED
      BY <1>1, <1>4, <2>1 DEF TakeOverride
  <1>13. CASE AskRecord(c)
    <2>1. Self(c) = c /\ ~state[c].override_used
      BY <1>1, <1>13 DEF AskRecord
    <2>2. On[c] \notin WithOverride
      BY <1>13, <2>1, Zenon DEF AskRecord
    <2>3. record'[c] = "published"
      BY <1>1, <1>13 DEF AskRecord, LifeType
    <2>. QED
      BY <1>1, <1>13, <2>2, <2>3 DEF AskRecord
  <1>5. CASE ConsumeTerm(c)
    <2>1. Count(c, "terms") /\ Self(c) = c
      BY <1>1, <1>5 DEF ConsumeTerm
    <2>2. /\ state'[c].counts = own'[c]
          /\ state'[c].override_used = state[c].override_used
          /\ state'[c].prefetcher = state[c].prefetcher
          /\ own'[c].terms = own[c].terms + 1
          /\ own[c].terms \in Nat
      BY <1>1, <2>1, CountOwn DEF Count
    <2>3. CASE state[c].counts.terms >= MaxTerms /\ Fail(c)
      BY <1>1, <1>2, <1>5, <2>2, <2>3 DEF ConsumeTerm, Fail, Go, LifeType
    <2>4. CASE UNCHANGED <<pc, verdict>>
      BY <1>1, <1>5, <2>2, <2>4 DEF ConsumeTerm
    <2>. QED
      BY <1>5, <2>1, <2>3, <2>4 DEF ConsumeTerm
  <1>6. CASE Query(c)
    <2>1. Self(c) = c
      BY <1>1, <1>6 DEF Query
    <2>2. CASE /\ state[c].counts.sent >= MaxQueries
               /\ Fail(c) /\ UNCHANGED <<state, own, awaiting>>
      BY <1>1, <1>6, <2>2 DEF Query, Fail, Go, LifeType
    <2>3. CASE /\ Count(c, "sent") /\ Go(c, "await") /\ UNCHANGED verdict
               /\ awaiting' = [awaiting EXCEPT ![c] = c]
      <3>1. /\ state'[c].counts = own'[c]
            /\ state'[c].override_used = state[c].override_used
            /\ state'[c].prefetcher = state[c].prefetcher
        BY <1>1, <2>1, <2>3, CountOwn DEF Count
      <3>. QED
        BY <1>1, <1>6, <2>1, <2>3, <3>1 DEF Query, Go, LifeType
    <2>. QED
      BY <1>6, <2>1, <2>2, <2>3 DEF Query
  <1>7. CASE Answer(c)
    <2>1. awaiting[c] = c
      BY <1>1, <1>7 DEF Answer
    <2>2. CASE Go(c, "run") /\ UNCHANGED <<state, own, verdict>>
      BY <1>1, <1>7, <2>2 DEF Answer, Go, LifeType
    <2>3. CASE /\ state' = [state EXCEPT ![awaiting[c]].counts.voids = @ + 1]
               /\ own' = [own EXCEPT ![c].voids = @ + 1]
               /\ IF state[awaiting[c]].counts.voids >= MaxVoid
                    THEN Fail(c) ELSE Go(c, "run") /\ UNCHANGED verdict
      <3>1. /\ state' = [state EXCEPT ![c].counts["voids"] = @ + 1]
            /\ own' = [own EXCEPT ![c]["voids"] = @ + 1]
        BY <2>1, <2>3
      <3>2. /\ state'[c].counts = own'[c]
            /\ state'[c].override_used = state[c].override_used
            /\ state'[c].prefetcher = state[c].prefetcher
            /\ own'[c].voids = own[c].voids + 1
            /\ own[c].voids \in Nat
        BY <1>1, <3>1, CountOwn
      <3>3. CASE state[c].counts.voids >= MaxVoid /\ Fail(c)
        BY <1>1, <1>2, <1>7, <3>2, <3>3 DEF Answer, Fail, Go, LifeType
      <3>4. CASE Go(c, "run") /\ UNCHANGED verdict
        BY <1>1, <1>7, <3>2, <3>4 DEF Answer, Go, LifeType
      <3>. QED
        BY <2>1, <2>3, <3>3, <3>4
    <2>. QED
      BY <1>7, <2>2, <2>3, Zenon DEF Answer
  <1>8. CASE Cancel(c)
    BY <1>1, <1>8 DEF Cancel, Go, LifeType
  <1>9. CASE Conclude(c)
    BY <1>1, <1>9 DEF Conclude, Go, LifeType
  <1>10. CASE Close(c)
    <2>1. Self(c) = c /\ state[c] \in StateType
      BY <1>1, <1>10 DEF Close, LifeType
    <2>2. CASE state[c].prefetcher = "running"
      BY <1>1, <1>10, <2>1, <2>2 DEF Close, Go, LifeType, StateType
    <2>3. CASE state[c].prefetcher # "running"
      BY <1>1, <1>10, <2>1, <2>3 DEF Close, Go, LifeType
    <2>. QED
      BY <2>2, <2>3
  <1>11. CASE Closed(c)
    BY <1>1, <1>11 DEF Closed, Go, LifeType
  <1>12. CASE Report(c)
    BY <1>1, <1>12 DEF Report, Go, LifeType
  <1>. QED
    BY <1>3, <1>4, <1>5, <1>6, <1>7, <1>8, <1>9, <1>10, <1>11, <1>12, <1>13
       DEF LifeStep

LEMMA OthersStep ==
  ASSUME LifeInv, Apart', NEW c \in Call, LifeStep(c), NEW d \in Call \ {c}
  PROVE  CallInv(d)'
  <1>1. /\ pc'[d] = pc[d] /\ state'[d] = state[d]
        /\ record'[d] = record[d] /\ awaiting'[d] = awaiting[d]
        /\ verdict'[d] = verdict[d] /\ result'[d] = result[d]
        /\ own'[d] = own[d]
    BY Frame
  <1>2. Active(d) => bound'[On[d]] = bound[On[d]] /\ stats'[On[d]] = stats[On[d]]
    <2>1. CASE On[d] # On[c]
      BY <2>1, Frame, LifecycleAssumption
    <2>2. CASE On[d] = On[c] /\ Active(d)
      <3>1. ~Active(c) /\ ~Active(c)'
        BY <1>1, <2>2 DEF LifeInv, Apart, Active
      <3>2. Begin(c)
        BY <3>1 DEF LifeStep, TakeOverride, AskRecord, ConsumeTerm, Query, Answer,
                    Cancel, Conclude, Close, Closed, Report, Active
      <3>. QED
        BY <3>1, <3>2 DEF Begin, Go, Active, LifeInv, LifeType
    <2>. QED
      BY <2>1, <2>2
  <1>3. CallInv(d)
    BY DEF LifeInv
  <1>. QED
    BY <1>1, <1>2, <1>3
       DEF CallInv, OwnState, Stage, Reports, Fails, Returned, Active, Self

LEMMA LifeInvariant ==
  ASSUME Alone
  PROVE  LifeSpec => []LifeInv
  <1>1. LifeInv /\ LifeNext => LifeInv'
    <2> SUFFICES ASSUME LifeInv, NEW c \in Call, LifeStep(c)
                 PROVE  LifeInv'
      BY DEF LifeNext
    <2>1. LifeType' /\ Apart' /\ CallInv(c)'
      BY TypeStep, ApartStep, CallStep
    <2>2. \A d \in Call \ {c} : CallInv(d)'
      BY <2>1, OthersStep
    <2>. QED
      BY <2>1, <2>2 DEF LifeInv
  <1>2. LifeInv /\ UNCHANGED lifeVars => LifeInv'
    BY DEF lifeVars, LifeInv, LifeType, Apart, CallInv, OwnState, Stage, Reports,
           Fails, Returned, Active, Self
  <1>. QED
    BY LifeInitInv, <1>1, <1>2, PTL DEF LifeSpec

\* However many calls there are, what one reports is what it did itself.
THEOREM CallsReportThemselves ==
  ASSUME Alone
  PROVE  LifeSpec => []ReportsItself
  <1>1. LifeInv => ReportsItself
    BY DEF LifeInv, CallInv, Reports, ReportsItself
  <1>. QED
    BY LifeInvariant, <1>1, PTL

\* No call fails on the terms, the voids or the budget of another one.
THEOREM CallsFailByThemselves ==
  ASSUME Alone
  PROVE  LifeSpec => []FailsByItself
  <1>1. LifeInv => FailsByItself
    BY DEF LifeInv, CallInv, Fails, FailsByItself
  <1>. QED
    BY LifeInvariant, <1>1, PTL

\* Every call evaluates the policy override first, not only the first call.
THEOREM CallsTakeTheOverride ==
  ASSUME Alone
  PROVE  LifeSpec => []OverrideEveryTime
  <1>1. LifeInv => OverrideEveryTime
    BY DEF LifeInv, CallInv, Stage, OverrideEveryTime
  <1>. QED
    BY LifeInvariant, <1>1, PTL

\* A call that found a verdict, raised or was cancelled closed its prefetcher.
THEOREM CallsCloseTheirPrefetcher ==
  ASSUME Alone
  PROVE  LifeSpec => []PrefetcherClosed
  <1>1. LifeInv => PrefetcherClosed
    BY DEF LifeInv, CallInv, Stage, PrefetcherClosed
  <1>. QED
    BY LifeInvariant, <1>1, PTL
=============================================================================

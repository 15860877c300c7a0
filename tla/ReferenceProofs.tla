-------------------------- MODULE ReferenceProofs --------------------------
(***************************************************************************)
(* The evaluator says what the reference says, for every zone, every       *)
(* policy and every value of the limits, in audit mode and out of it.      *)
(*                                                                         *)
(* The invariant compares the code, in the middle of a policy, with the    *)
(* walk of the reference from where the code is: whatever the lookups not  *)
(* made yet will give, the frames on the stack make of the walk of the     *)
(* innermost one just what the reference makes of the whole.  It is stated *)
(* for every zone that gives the answers in the cache (Agrees), so that a  *)
(* step that asks picks no answer and one that gets an answer only leaves  *)
(* fewer zones.                                                            *)
(***************************************************************************)
EXTENDS Reference, EvaluatorProofs, WellFoundedInduction

-----------------------------------------------------------------------------
(***************************************************************************)
(* Induction and recursion over the naturals.                              *)
(***************************************************************************)
LEMMA LeastNumber ==
  ASSUME NEW S, S \subseteq Nat, S # {}
  PROVE  \E n \in S : \A m \in S : n <= m
  <1> DEFINE R == {p \in Nat \X Nat : p[1] < p[2]}
  <1>1. IsWellFoundedOn(R, Nat)
    BY NatLessThanWellFounded DEF OpToRel
  <1>2. PICK x \in S : \A y \in S : ~(<<y, x>> \in R)
    BY <1>1, WFMin
  <1>3. \A y \in S : ~(y < x)
    BY <1>2
  <1>. QED
    BY <1>3

LEMMA Induct ==
  ASSUME NEW S, 0 \in S, \A n \in Nat : n \in S => n + 1 \in S
  PROVE  \A n \in Nat : n \in S
  <1>1. SUFFICES ASSUME Nat \ S # {} PROVE FALSE
    OBVIOUS
  <1>2. PICK n \in Nat \ S : \A m \in Nat \ S : n <= m
    BY <1>1, LeastNumber
  <1>3. n # 0 /\ n - 1 \in Nat /\ n - 1 \in S
    BY <1>2
  <1>. QED
    BY <1>2, <1>3

LEMMA MinIs ==
  ASSUME NEW S, S \subseteq Nat, S # {}
  PROVE  Min(S) \in S /\ \A m \in S : Min(S) <= m
  <1>1. \E n \in S : \A m \in S : n <= m
    BY LeastNumber
  <1>. QED
    BY <1>1 DEF Min

\* A function of the naturals defined by primitive recursion exists: its
\* beginnings do, and agree with each other.
Begins(g, k, S, base, step) ==
  /\ g \in [0..k -> S]
  /\ g[0] = base
  /\ \A n \in 0..(k - 1) : g[n + 1] = step[<<n, g[n]>>]

LEMMA BeginningExists ==
  ASSUME NEW S, NEW base \in S, NEW step \in [Nat \X S -> S]
  PROVE  \A k \in Nat : \E g : Begins(g, k, S, base, step)
  <1> DEFINE T == {k \in Nat : \E g : Begins(g, k, S, base, step)}
  <1>1. 0 \in T
    <2> DEFINE g0 == [n \in 0..0 |-> base]
    <2>1. Begins(g0, 0, S, base, step)
      BY DEF Begins
    <2>. QED
      BY <2>1
  <1>2. ASSUME NEW k \in Nat, k \in T
        PROVE  k + 1 \in T
    <2>1. PICK g : Begins(g, k, S, base, step)
      BY <1>2
    <2> DEFINE h == [n \in 0..(k + 1) |->
                       IF n = k + 1 THEN step[<<k, g[k]>>] ELSE g[n]]
    <2>2. g[k] \in S /\ step[<<k, g[k]>>] \in S
      BY <2>1 DEF Begins
    <2>3. h \in [0..(k + 1) -> S]
      BY <2>1, <2>2 DEF Begins
    <2>4. h[0] = base
      BY <2>1 DEF Begins
    <2>5. ASSUME NEW n \in 0..k
          PROVE  h[n + 1] = step[<<n, h[n]>>]
      <3>1. CASE n = k
        <4>1. k \in 0..(k + 1) /\ k + 1 \in 0..(k + 1) /\ k # k + 1
          OBVIOUS
        <4>. QED
          BY <3>1, <4>1
      <3>2. CASE n # k
        <4>1. n \in 0..(k - 1) /\ n + 1 \in 0..(k + 1) /\ n + 1 # k + 1
              /\ n # k + 1 /\ n \in 0..(k + 1)
          BY <3>2
        <4>2. h[n + 1] = g[n + 1] /\ h[n] = g[n]
          BY <4>1
        <4>. QED
          BY <4>1, <4>2, <2>1 DEF Begins
      <3>. QED
        BY <3>1, <3>2
    <2>6. Begins(h, k + 1, S, base, step)
      <3>. HIDE DEF h
      <3>. QED
        BY <2>3, <2>4, <2>5 DEF Begins
    <2>. QED
      BY <2>6
  <1>. HIDE DEF T
  <1>3. \A k \in Nat : k \in T
    BY <1>1, <1>2, Induct
  <1>. QED
    BY <1>3 DEF T

LEMMA BeginningsAgree ==
  ASSUME NEW S, NEW base, NEW step, NEW k \in Nat, NEW m \in Nat, k <= m,
         NEW g, NEW h, Begins(g, k, S, base, step), Begins(h, m, S, base, step)
  PROVE  g[k] = h[k]
  <1> DEFINE T == {n \in Nat : n <= k => g[n] = h[n]}
  <1>1. 0 \in T
    BY DEF Begins
  <1>2. ASSUME NEW n \in Nat, n \in T
        PROVE  n + 1 \in T
    <2>1. SUFFICES ASSUME n + 1 <= k PROVE g[n + 1] = h[n + 1]
      OBVIOUS
    <2>2. n \in 0..(k - 1) /\ n \in 0..(m - 1) /\ n <= k
      BY <2>1
    <2>3. g[n + 1] = step[<<n, g[n]>>] /\ h[n + 1] = step[<<n, h[n]>>]
      BY <2>2 DEF Begins
    <2>. QED
      BY <1>2, <2>2, <2>3
  <1>. HIDE DEF T
  <1>3. k \in T
    BY <1>1, <1>2, Induct
  <1>. QED
    BY <1>3 DEF T

IsStep(step, S) == step \in [Nat \X S -> S]

Recurs(f, S, base, step) ==
  /\ f \in [Nat -> S]
  /\ f[0] = base
  /\ \A n \in Nat : f[n + 1] = step[<<n, f[n]>>]

LEMMA PrimRec ==
  ASSUME NEW S, NEW base \in S, NEW step, IsStep(step, S)
  PROVE  \E f : Recurs(f, S, base, step)
  <1> DEFINE b(k) == CHOOSE g : Begins(g, k, S, base, step)
             f == [n \in Nat |-> b(n)[n]]
  <1>1. ASSUME NEW k \in Nat PROVE Begins(b(k), k, S, base, step)
    BY BeginningExists DEF IsStep
  <1>. HIDE DEF b
  <1>2. f \in [Nat -> S]
    BY <1>1 DEF Begins
  <1>3. f[0] = base
    BY <1>1 DEF Begins
  <1>4. ASSUME NEW n \in Nat PROVE f[n + 1] = step[<<n, f[n]>>]
    <2>1. b(n)[n] = b(n + 1)[n]
      BY <1>1, BeginningsAgree
    <2>2. b(n + 1)[n + 1] = step[<<n, b(n + 1)[n]>>]
      BY <1>1 DEF Begins
    <2>. QED
      BY <2>1, <2>2
  <1>. HIDE DEF f
  <1>. QED
    BY <1>2, <1>3, <1>4 DEF Recurs

-----------------------------------------------------------------------------
(***************************************************************************)
(* The types of the reference, for every zone.                             *)
(***************************************************************************)
IsZone(z) == \A k \in Key : z[k] \in Reply[k] \cup {DnsFailure}

Domains == Name \cup {Malformed}

Outcomes == [v : Verdict, exp : Arg \cup {NoArg}, domain : Domains,
             terms : Nat, keys : SUBSET Key]

\* What a mechanism says is never "include" or "redirect".
Outs == [says : {"hit", "miss", "temperror", "permerror"}, keys : SUBSET Key]

\* A walk forgets no lookup.
Walkers == {g \in [WalkArgs -> Outcomes] : \A a \in WalkArgs :
                                             a.keys \subseteq g[a].keys}

RefTermType ==
  TermType \cup [name : {"redirect"}, qualifier : {"neutral"},
                 arg : Arg \cup {NoArg}, hit : {{}}]

LEMMA KeyTypes ==
  ASSUME NEW n \in Name
  PROVE  /\ <<n, AddrType>> \in Key /\ HostKey(n) \in Key
         /\ <<n, "TXT">> \in Key /\ <<n, "A">> \in Key /\ <<n, "MX">> \in Key
         /\ PtrKey \in Key
  BY EvaluatorAssumption DEF RType, HostKey, PtrKey

LEMMA RecordsTyped ==
  ASSUME NEW z, IsZone(z), NEW n \in Name
  PROVE  /\ Records(z, <<n, "TXT">>) \in Seq(Text)
         /\ Records(z, <<n, "MX">>) \in Seq(Name)
         /\ Records(z, <<n, "PTR">>) \in Seq(Name)
         /\ Records(z, HostKey(n)) \in Seq(AddrClass)
         /\ Records(z, <<n, "A">>) \in Seq(AddrClass)
  <1>1. ASSUME NEW t \in RType
        PROVE  z[<<n, t>>] \in Reply[<<n, t>>] \cup {DnsFailure}
    BY KeyIsNameType DEF IsZone
  <1>2. DnsFailure.answers = <<>>
    BY DEF DnsFailure
  <1>3. /\ "TXT" \in RType /\ "MX" \in RType /\ "PTR" \in RType
        /\ "A" \in RType /\ AddrType \in RType /\ AddrType \in {"A", "AAAA"}
    BY EvaluatorAssumption DEF RType
  <1>4. /\ \A a \in Reply[<<n, "TXT">>] : a.answers \in Seq(Text)
        /\ \A t \in {"MX", "PTR"} :
             \A a \in Reply[<<n, t>>] : a.answers \in Seq(Name)
        /\ \A t \in {"A", "AAAA"} :
             \A a \in Reply[<<n, t>>] : a.answers \in Seq(AddrClass)
    BY EvaluatorAssumption
  <1>5. <<>> \in Seq(Text) /\ <<>> \in Seq(Name) /\ <<>> \in Seq(AddrClass)
    OBVIOUS
  <1>. QED
    BY ONLY <1>1, <1>2, <1>3, <1>4, <1>5 DEF Records, HostKey

LEMMA PtrHostsTyped ==
  ASSUME NEW z, IsZone(z)
  PROVE  PtrHosts(z) \in Seq(Name)
  BY RecordsTyped, FirstTyped, EvaluatorAssumption DEF PtrHosts, PtrKey

\* What %{p} prefers is the domain, or one of the names.
LEMMA PreferredTyped ==
  ASSUME NEW s \in Seq(Name), NEW ok \in SUBSET (DOMAIN s), NEW d \in Domains
  PROVE  /\ Preferred(s, ok, d) \in Domains
         /\ Preferred(s, ok, d) = Malformed <=> ok = {}
  <1> DEFINE under == {i \in ok : <<s[i], d>> \in Below}
  <1>0. Malformed \notin Name
    BY EvaluatorAssumption
  <1>1. CASE ok = {}
    BY <1>1 DEF Preferred, Domains
  <1>2. CASE ok # {} /\ \E i \in ok : s[i] = d
    <2>1. Preferred(s, ok, d) = d /\ d \in Name
      BY <1>2 DEF Preferred
    <2>. QED
      BY <1>0, <1>2, <2>1 DEF Domains
  <1>3. CASE ok # {} /\ ~\E i \in ok : s[i] = d
    <2>1. Preferred(s, ok, d) = s[Min(IF under # {} THEN under ELSE ok)]
      BY <1>3 DEF Preferred
    <2>2. ok \subseteq Nat /\ under \subseteq Nat
      OBVIOUS
    <2>3. Min(IF under # {} THEN under ELSE ok) \in ok
      BY <1>3, <2>2, MinIs
    <2>. QED
      BY <1>0, <1>3, <2>1, <2>3 DEF Domains
  <1>. QED
    BY <1>1, <1>2, <1>3

LEMMA RefPTyped ==
  ASSUME NEW z, IsZone(z), NEW d \in Domains
  PROVE  RefP(z, d) \in Domains
  BY PtrHostsTyped, PreferredTyped DEF RefP, Confirmed

LEMMA RefArgTyped ==
  ASSUME NEW z, IsZone(z), NEW d \in Domains, NEW arg \in Arg \cup {Implicit}
  PROVE  RefArg(z, arg, d) \in Domains
  BY RefPTyped DEF RefArg, Arg, Domains

LEMMA HostKeysTyped ==
  ASSUME NEW s \in Seq(Name), NEW at \in SUBSET (DOMAIN s)
  PROVE  HostKeys(s, at) \subseteq Key
  <1>1. ASSUME NEW i \in at PROVE HostKey(s[i]) \in Key
    <2>1. s[i] \in Name
      OBVIOUS
    <2>. QED
      BY <2>1, KeyTypes
  <1>. QED
    BY <1>1 DEF HostKeys

LEMMA ArgKeysTyped ==
  ASSUME NEW z, IsZone(z), NEW arg
  PROVE  ArgKeys(z, arg) \subseteq Key
  BY PtrHostsTyped, HostKeysTyped, KeyTypes, EvaluatorAssumption DEF ArgKeys

Said == {"hit", "miss", "temperror", "permerror"}

LEMMA OutTyped ==
  ASSUME NEW says \in Said,
         NEW keys \in SUBSET Key
  PROVE  Out(says, keys) \in Outs
  BY DEF Out, Outs, Said

LEMMA MechanismTyped ==
  ASSUME NEW z, IsZone(z), NEW t \in RefTermType, NEW d \in Domains,
         t.name \notin {"include", "redirect"}
  PROVE  RefMechanism(z, t, d) \in Outs
  <1> DEFINE n == RefArg(z, t.arg, d)
  <1>0. t \in TermType
    BY DEF RefTermType
  <1>1. CASE t.name \notin DnsMechanism
    <2>1. \E says \in Said : RefLocal(t) = Out(says, {})
      BY DEF RefLocal, Hit, Said
    <2>2. RefMechanism(z, t, d) = RefLocal(t)
      BY <1>1 DEF RefMechanism, DnsMechanism
    <2>. QED
      BY <2>1, <2>2, OutTyped
  <1>2. CASE t.name = "ptr"
    <2>1. RefMechanism(z, t, d) = RefPtr(z, n)
      BY <1>2 DEF RefMechanism, DnsMechanism
    <2>2. PtrKey \in Key /\ PtrHosts(z) \in Seq(Name)
      BY PtrHostsTyped, KeyTypes, EvaluatorAssumption
    <2>. HIDE DEF n
    <2> DEFINE s == PtrHosts(z)
               hits == {h \in Name : <<h, n>> \in Below /\ In(z, h, {"self"})}
               tried == {i \in Tried(s, hits) : <<s[i], n>> \in Below}
    <2>3. tried \in SUBSET (DOMAIN s)
      BY DEF Tried
    <2>4. RefPtr(z, n) = Out(Hit(\E i \in tried : s[i] \in hits),
                             {PtrKey} \cup HostKeys(s, tried))
      BY DEF RefPtr
    <2>. HIDE DEF tried, hits, s
    <2>6. \E says \in Said : RefPtr(z, n) =
                               Out(says, {PtrKey} \cup HostKeys(s, tried))
      BY <2>4 DEF Hit, Said
    <2>5. HostKeys(s, tried) \subseteq Key
      BY <2>2, <2>3, HostKeysTyped DEF s
    <2>. QED
      BY <2>1, <2>2, <2>6, <2>5, OutTyped
  <1>3. CASE t.name \in {"a", "mx", "exists"} /\ n \notin Name
    BY <1>3 DEF RefMechanism, DnsMechanism, Out, Outs
  <1>4. CASE t.name = "a" /\ n \in Name
    <2>1. RefMechanism(z, t, d) = RefA(z, t, n)
      BY <1>4 DEF RefMechanism, DnsMechanism
    <2>. HIDE DEF n
    <2>. QED
      BY <1>4, <2>1, KeyTypes, OutTyped DEF RefA, Hit, Said
  <1>5. CASE t.name = "exists" /\ n \in Name
    <2>1. RefMechanism(z, t, d) = RefExists(z, n)
      BY <1>5 DEF RefMechanism, DnsMechanism
    <2>. HIDE DEF n
    <2>. QED
      BY <1>5, <2>1, KeyTypes, OutTyped DEF RefExists, Hit, Said
  <1>6. CASE t.name = "mx" /\ n \in Name
    <2>1. RefMechanism(z, t, d) = RefMx(z, t, n)
      BY <1>6 DEF RefMechanism, DnsMechanism
    <2>2. Records(z, <<n, "MX">>) \in Seq(Name)
      BY <1>6, RecordsTyped
    <2> DEFINE mxs == Records(z, <<n, "MX">>)
               fails == {h \in Name : Failed(z, HostKey(h))}
               hits  == {h \in Name : In(z, h, t.hit)}
               tried == Tried(mxs, fails \cup hits)
    <2>3. {<<n, "MX">>} \in SUBSET Key
      BY <1>6, KeyTypes
    <2>4. tried \in SUBSET (DOMAIN mxs)
      BY DEF Tried
    <2>5. RefMx(z, t, n) =
            IF Failed(z, <<n, "MX">>) THEN Out("temperror", {<<n, "MX">>})
            ELSE IF Len(mxs) > MaxMx THEN Out("permerror", {<<n, "MX">>})
            ELSE Out(IF \E i \in tried : mxs[i] \in fails THEN "temperror"
                     ELSE Hit(\E i \in tried : mxs[i] \in hits),
                     {<<n, "MX">>} \cup HostKeys(mxs, tried))
      BY DEF RefMx
    <2>. HIDE DEF n, mxs, fails, hits, tried
    <2>7. \E says \in Said :
             \/ RefMx(z, t, n) = Out(says, {<<n, "MX">>})
             \/ RefMx(z, t, n) =
                  Out(says, {<<n, "MX">>} \cup HostKeys(mxs, tried))
      BY <2>5 DEF Hit, Said
    <2>6. {<<n, "MX">>} \cup HostKeys(mxs, tried) \in SUBSET Key
      BY <2>2, <2>3, <2>4, HostKeysTyped DEF mxs
    <2>. QED
      BY <2>1, <2>3, <2>7, <2>6, OutTyped
  <1>. QED
    BY <1>0, <1>1, <1>2, <1>3, <1>4, <1>5, <1>6 DEF TermType, DnsMechanism

Fetches == [says : {"policy", "none", "temperror", "permerror"},
            policy : PolicyType, keys : SUBSET Key]

LEMMA NoPolicyTyped == NoPolicy \in PolicyType
  BY DEF NoPolicy, PolicyType, Arg

LEMMA ParseTyped ==
  ASSUME NEW t \in Text, NEW keys \in SUBSET Key
  PROVE  RefParse(t, keys) \in Fetches /\ RefParse(t, keys).keys = keys
  BY NoPolicyTyped, EvaluatorAssumption DEF RefParse, Fetched, Fetches

LEMMA FetchTyped ==
  ASSUME NEW z, IsZone(z), NEW d \in Domains, NEW override \in Text \cup {NoText}
  PROVE  RefFetch(z, d, override) \in Fetches
  <1> DEFINE txt == <<d, "TXT">>
             s   == Records(z, txt)
             spf == {i \in DOMAIN s : PolicyOf[s[i]] # NotSpf}
  <1>1. CASE d \notin Name
    BY <1>1, NoPolicyTyped DEF RefFetch, Fetched, Fetches
  <1>2. CASE d \in Name /\ override # NoText
    BY <1>2, ParseTyped DEF RefFetch
  <1>3. CASE d \in Name /\ override = NoText
    <2>1. s \in Seq(Text) /\ {txt} \in SUBSET Key
      BY <1>3, RecordsTyped, KeyTypes
    <2>2. spf # {} => RefParse(s[CHOOSE i \in spf : TRUE], {txt}) \in Fetches
      <3>1. spf # {} => s[CHOOSE i \in spf : TRUE] \in Text
        BY <2>1
      <3>. QED
        BY <2>1, <3>1, ParseTyped
    <2>. QED
      BY <1>3, <2>1, <2>2, NoPolicyTyped DEF RefFetch, Fetched, Fetches
  <1>. QED
    BY <1>1, <1>2, <1>3

LEMMA CheckTyped ==
  ASSUME NEW z, IsZone(z), NEW walk \in [Nat -> Walkers], NEW d \in Domains,
         NEW override \in Text \cup {NoText}, NEW terms \in Nat,
         NEW keys \in SUBSET Key
  PROVE  /\ RefCheck(z, walk, d, override, terms, keys) \in Outcomes
         /\ keys \subseteq RefCheck(z, walk, d, override, terms, keys).keys
  <1> DEFINE f == RefFetch(z, d, override)
             w == RefCheck(z, walk, d, override, terms, keys)
             a == Args(f.policy, d, terms, keys \cup f.keys)
  <1>1. f \in Fetches
    BY FetchTyped
  <1>. HIDE DEF f
  <1>2. CASE f.says = "policy"
    <2>1. w = walk[Len(f.policy.terms)][a]
      BY <1>2 DEF RefCheck, f
    <2>2. a \in WalkArgs /\ Len(f.policy.terms) \in Nat /\ keys \subseteq a.keys
      BY <1>1 DEF Fetches, PolicyType, WalkArgs, Args, Domains
    <2>3. walk[Len(f.policy.terms)] \in Walkers
      BY <2>2
    <2>. HIDE DEF a, w
    <2>. QED
      BY <2>1, <2>2, <2>3 DEF Walkers, w
  <1>3. CASE f.says # "policy"
    <2>1. w = Outcome(f.says, NoArg, d, terms, keys \cup f.keys)
      BY <1>3 DEF RefCheck, f
    <2>. HIDE DEF w
    <2>. QED
      BY <1>1, <1>3, <2>1 DEF Fetches, Outcome, Outcomes, Verdict, w
  <1>. QED
    BY <1>2, <1>3

-----------------------------------------------------------------------------
(***************************************************************************)
(* What one term makes of what it is given.                                *)
(***************************************************************************)
LEMMA ArgsTyped ==
  ASSUME NEW p \in PolicyType, NEW d \in Domains, NEW terms \in Nat,
         NEW keys \in SUBSET Key
  PROVE  Args(p, d, terms, keys) \in WalkArgs
  BY DEF Args, WalkArgs, Domains

LEMMA ArgsFields ==
  ASSUME NEW a \in WalkArgs
  PROVE  /\ a.policy \in PolicyType /\ a.domain \in Domains /\ a.terms \in Nat
         /\ a.keys \in SUBSET Key
         /\ a = Args(a.policy, a.domain, a.terms, a.keys)
  BY DEF Args, WalkArgs, Domains

LEMMA OutcomeTyped ==
  ASSUME NEW v \in Verdict, NEW e \in Arg \cup {NoArg}, NEW d \in Domains,
         NEW terms \in Nat, NEW keys \in SUBSET Key
  PROVE  Outcome(v, e, d, terms, keys) \in Outcomes
  BY DEF Outcome, Outcomes

LEMMA OutcomeFields ==
  ASSUME NEW v, NEW e, NEW d, NEW terms, NEW keys
  PROVE  /\ Outcome(v, e, d, terms, keys).v = v
         /\ Outcome(v, e, d, terms, keys).exp = e
         /\ Outcome(v, e, d, terms, keys).domain = d
         /\ Outcome(v, e, d, terms, keys).terms = terms
         /\ Outcome(v, e, d, terms, keys).keys = keys
  BY DEF Outcome

LEMMA TermAtTyped ==
  ASSUME NEW p \in PolicyType, NEW i
  PROVE  /\ TermAt(p, i) \in RefTermType
         /\ i \in DOMAIN p.terms => TermAt(p, i) \in TermType
         /\ i \notin DOMAIN p.terms => TermAt(p, i).name = "redirect"
         /\ TermAt(p, i).qualifier \in Verdict
  BY DEF TermAt, RefTermType, PolicyType, TermType, Verdict, Qualifier,
         DnsMechanism

\* Only redirect= has no argument, of what costs a term.
LEMMA RefTermArg ==
  ASSUME NEW t \in RefTermType
  PROVE  /\ t.qualifier \in Verdict
         /\ t.name \in DnsMechanism => t.arg \in Arg \cup {Implicit}
         /\ t.name = "redirect" => t.arg \in Arg \cup {NoArg}
         /\ t.name = "redirect" \/ t \in TermType
  BY DEF RefTermType, TermType, Verdict, Qualifier, DnsMechanism

LEMMA NoneIsErrorTyped ==
  ASSUME NEW w \in Outcomes
  PROVE  /\ NoneIsError(w) \in Outcomes
         /\ NoneIsError(w).keys = w.keys /\ NoneIsError(w).terms = w.terms
         /\ NoneIsError(w).exp = w.exp /\ NoneIsError(w).domain = w.domain
         /\ w.v # "none" => NoneIsError(w) = w
         /\ w.v = "none" => NoneIsError(w).v = "permerror"
  BY DEF NoneIsError, Outcomes, Verdict

LEMMA WalkerTyped ==
  ASSUME NEW g \in Walkers, NEW p \in PolicyType, NEW d \in Domains,
         NEW terms \in Nat, NEW keys \in SUBSET Key
  PROVE  /\ g[Args(p, d, terms, keys)] \in Outcomes
         /\ keys \subseteq g[Args(p, d, terms, keys)].keys
  <1>1. Args(p, d, terms, keys) \in WalkArgs
    BY ArgsTyped
  <1>2. Args(p, d, terms, keys).keys = keys
    BY DEF Args
  <1>. QED
    BY <1>1, <1>2 DEF Walkers

LEMMA IncludedTyped ==
  ASSUME NEW next \in Walkers, NEW w \in Outcomes, NEW t,
         t.qualifier \in Verdict, NEW p \in PolicyType, NEW d \in Domains
  PROVE  /\ RefIncluded(next, w, t, p, d) \in Outcomes
         /\ w.keys \subseteq RefIncluded(next, w, t, p, d).keys
  <1>0. w.terms \in Nat /\ w.keys \in SUBSET Key /\ p.exp \in Arg \cup {NoArg}
    BY DEF Outcomes, PolicyType
  <1>1. CASE w.v = "pass"
    <2>1. RefIncluded(next, w, t, p, d) =
            Outcome(t.qualifier, p.exp, d, w.terms, w.keys)
      BY <1>1 DEF RefIncluded
    <2>. QED
      BY <1>0, <2>1, OutcomeTyped, OutcomeFields
  <1>2. CASE w.v \in {"fail", "softfail", "neutral"}
    <2>1. RefIncluded(next, w, t, p, d) = next[Args(p, d, w.terms, w.keys)]
      BY <1>2 DEF RefIncluded
    <2>. QED
      BY <1>0, <2>1, WalkerTyped
  <1>3. CASE w.v \notin {"pass", "fail", "softfail", "neutral"}
    <2>1. RefIncluded(next, w, t, p, d) = NoneIsError(w)
      BY <1>3 DEF RefIncluded
    <2>. QED
      BY <2>1, NoneIsErrorTyped
  <1>. QED
    BY <1>1, <1>2, <1>3

LEMMA MatchedTyped ==
  ASSUME NEW next \in Walkers, NEW m \in Outs, NEW t,
         t.qualifier \in Verdict, NEW p \in PolicyType, NEW d \in Domains,
         NEW terms \in Nat, NEW keys \in SUBSET Key
  PROVE  /\ RefMatched(next, m, t, p, d, terms, keys) \in Outcomes
         /\ keys \subseteq RefMatched(next, m, t, p, d, terms, keys).keys
  <1>0. p.exp \in Arg \cup {NoArg} /\ NoArg \in Arg \cup {NoArg}
    BY DEF PolicyType
  <1>1. CASE m.says = "hit"
    <2>1. RefMatched(next, m, t, p, d, terms, keys) =
            Outcome(t.qualifier, p.exp, d, terms, keys)
      BY <1>1 DEF RefMatched
    <2>. QED
      BY <1>0, <2>1, OutcomeTyped, OutcomeFields
  <1>2. CASE m.says = "miss"
    <2>1. RefMatched(next, m, t, p, d, terms, keys) =
            next[Args(p, d, terms, keys)]
      BY <1>2 DEF RefMatched
    <2>. QED
      BY <2>1, WalkerTyped
  <1>3. CASE m.says \notin {"hit", "miss"}
    <2>1. RefMatched(next, m, t, p, d, terms, keys) =
            Outcome(m.says, NoArg, d, terms, keys)
      BY <1>3 DEF RefMatched
    <2>2. m.says \in Verdict
      BY <1>3 DEF Outs, Verdict
    <2>. QED
      BY <1>0, <2>1, <2>2, OutcomeTyped, OutcomeFields
  <1>. QED
    BY <1>1, <1>2, <1>3

-----------------------------------------------------------------------------
(***************************************************************************)
(* RefTerm, case by case.                                                  *)
(***************************************************************************)
Spends(t) == t.name \in DnsMechanism \cup {"redirect"}

\* What include and redirect= lead to.
RefNested(z, inner, t, p, d, terms, keys) ==
  RefCheck(z, inner, RefArg(z, t.arg, d), NoText, terms + 1,
           keys \cup ArgKeys(z, t.arg))

LEMMA TermDefault ==
  ASSUME NEW z, NEW inner, NEW next, NEW t, NEW p, NEW d, NEW terms, NEW keys,
         t.name = "redirect", t.arg = NoArg
  PROVE  RefTerm(z, inner, next, t, Args(p, d, terms, keys)) =
           Outcome("neutral", p.exp, d, terms, keys)
  BY DEF RefTerm, Args

LEMMA TermLocal ==
  ASSUME NEW z, NEW inner, NEW next, NEW t, NEW p, NEW d, NEW terms, NEW keys,
         ~Spends(t)
  PROVE  RefTerm(z, inner, next, t, Args(p, d, terms, keys)) =
           RefMatched(next, RefMechanism(z, t, d), t, p, d, terms, keys)
  BY DEF RefTerm, Args, Spends

LEMMA TermOver ==
  ASSUME NEW z, NEW inner, NEW next, NEW t, NEW p, NEW d, NEW terms, NEW keys,
         Spends(t), t.name = "redirect" => t.arg # NoArg, terms + 1 > MaxTerms
  PROVE  RefTerm(z, inner, next, t, Args(p, d, terms, keys)) =
           Outcome("permerror", NoArg, d, terms + 1, keys)
  BY DEF RefTerm, Args, Spends

LEMMA TermRedirect ==
  ASSUME NEW z, NEW inner, NEW next, NEW t, NEW p, NEW d, NEW terms, NEW keys,
         t.name = "redirect", t.arg # NoArg, ~(terms + 1 > MaxTerms)
  PROVE  RefTerm(z, inner, next, t, Args(p, d, terms, keys)) =
           NoneIsError(RefNested(z, inner, t, p, d, terms, keys))
  BY DEF RefTerm, Args, RefNested

LEMMA TermInclude ==
  ASSUME NEW z, NEW inner, NEW next, NEW t, NEW p, NEW d, NEW terms, NEW keys,
         t.name = "include", ~(terms + 1 > MaxTerms)
  PROVE  RefTerm(z, inner, next, t, Args(p, d, terms, keys)) =
           RefIncluded(next, RefNested(z, inner, t, p, d, terms, keys), t, p, d)
  BY DEF RefTerm, Args, RefNested, DnsMechanism

LEMMA TermMechanism ==
  ASSUME NEW z, NEW inner, NEW next, NEW t, NEW p, NEW d, NEW terms, NEW keys,
         t.name \in DnsMechanism \ {"include"}, ~(terms + 1 > MaxTerms)
  PROVE  RefTerm(z, inner, next, t, Args(p, d, terms, keys)) =
           RefMatched(next, RefMechanism(z, t, d), t, p, d, terms + 1,
                      keys \cup ArgKeys(z, t.arg) \cup RefMechanism(z, t, d).keys)
  BY DEF RefTerm, Args, DnsMechanism

\* What follows redirect= does not matter.
LEMMA RedirectIsLast ==
  ASSUME NEW z, NEW inner, NEW n1, NEW n2, NEW t, NEW a, t.name = "redirect"
  PROVE  RefTerm(z, inner, n1, t, a) = RefTerm(z, inner, n2, t, a)
  BY DEF RefTerm

LEMMA NestedTyped ==
  ASSUME NEW z, IsZone(z), NEW inner \in [Nat -> Walkers], NEW t,
         t.arg \in Arg \cup {Implicit}, NEW p, NEW d \in Domains,
         NEW terms \in Nat, NEW keys \in SUBSET Key
  PROVE  /\ RefNested(z, inner, t, p, d, terms, keys) \in Outcomes
         /\ keys \subseteq RefNested(z, inner, t, p, d, terms, keys).keys
  <1>1. RefArg(z, t.arg, d) \in Domains /\ ArgKeys(z, t.arg) \subseteq Key
    BY RefArgTyped, ArgKeysTyped
  <1>2. terms + 1 \in Nat /\ keys \cup ArgKeys(z, t.arg) \in SUBSET Key
    BY <1>1
  <1>. QED
    BY <1>1, <1>2, CheckTyped DEF RefNested

LEMMA RefTermTyped ==
  ASSUME NEW z, IsZone(z), NEW inner \in [Nat -> Walkers], NEW t \in RefTermType,
         NEW next, t.name # "redirect" => next \in Walkers, NEW a \in WalkArgs
  PROVE  /\ RefTerm(z, inner, next, t, a) \in Outcomes
         /\ a.keys \subseteq RefTerm(z, inner, next, t, a).keys
  <1> DEFINE p == a.policy
             d == a.domain
             w == RefNested(z, inner, t, p, d, a.terms, a.keys)
             m == RefMechanism(z, t, d)
  <1>1. /\ p \in PolicyType /\ d \in Domains /\ a.terms \in Nat
        /\ a.keys \in SUBSET Key
        /\ a = Args(p, d, a.terms, a.keys)
    BY ArgsFields
  <1>2. a.terms + 1 \in Nat /\ MaxTerms \in Nat /\ NoArg \in Arg \cup {NoArg}
        /\ p.exp \in Arg \cup {NoArg}
        /\ "neutral" \in Verdict /\ "permerror" \in Verdict
    BY <1>1, SessionAssumption DEF PolicyType, Verdict
  <1>3. /\ t.qualifier \in Verdict
        /\ t.name \in DnsMechanism => t.arg \in Arg \cup {Implicit}
        /\ t.name = "redirect" => t.arg \in Arg \cup {NoArg}
    BY RefTermArg
  <1>. HIDE DEF p, d
  <1>4. CASE t.name = "redirect" /\ t.arg = NoArg
    BY <1>1, <1>2, <1>4, TermDefault, OutcomeTyped, OutcomeFields
  <1>5. CASE ~Spends(t)
    <2>1. m \in Outs
      BY <1>1, <1>5, MechanismTyped DEF Spends, DnsMechanism
    <2>2. RefTerm(z, inner, next, t, a) =
            RefMatched(next, m, t, p, d, a.terms, a.keys)
      BY <1>1, <1>5, TermLocal
    <2>3. next \in Walkers
      BY <1>5 DEF Spends
    <2>. QED
      BY <1>1, <1>3, <2>1, <2>2, <2>3, MatchedTyped
  <1>6. CASE /\ Spends(t) /\ (t.name = "redirect" => t.arg # NoArg)
             /\ a.terms + 1 > MaxTerms
    <2>1. RefTerm(z, inner, next, t, a) =
            Outcome("permerror", NoArg, d, a.terms + 1, a.keys)
      BY <1>1, <1>6, TermOver
    <2>. QED
      BY <1>1, <1>2, <2>1, OutcomeTyped, OutcomeFields
  <1>7. CASE t.name = "redirect" /\ t.arg # NoArg /\ ~(a.terms + 1 > MaxTerms)
    <2>1. RefTerm(z, inner, next, t, a) = NoneIsError(w)
      BY <1>1, <1>7, TermRedirect
    <2>2. t.arg \in Arg \cup {Implicit}
      BY <1>3, <1>7
    <2>3. w \in Outcomes /\ a.keys \subseteq w.keys
      BY <1>1, <2>2, NestedTyped
    <2>. HIDE DEF w
    <2>. QED
      BY <2>1, <2>3, NoneIsErrorTyped
  <1>8. CASE t.name = "include" /\ ~(a.terms + 1 > MaxTerms)
    <2>1. RefTerm(z, inner, next, t, a) = RefIncluded(next, w, t, p, d)
      BY <1>1, <1>8, TermInclude
    <2>2. t.arg \in Arg \cup {Implicit} /\ next \in Walkers
      BY <1>3, <1>8 DEF DnsMechanism
    <2>3. w \in Outcomes /\ a.keys \subseteq w.keys
      BY <1>1, <2>2, NestedTyped
    <2>. HIDE DEF w
    <2>. QED
      BY <1>1, <1>3, <2>1, <2>2, <2>3, IncludedTyped
  <1>9. CASE t.name \in DnsMechanism \ {"include"} /\ ~(a.terms + 1 > MaxTerms)
    <2> DEFINE all == a.keys \cup ArgKeys(z, t.arg) \cup m.keys
    <2>1. m \in Outs /\ next \in Walkers
      BY <1>1, <1>9, MechanismTyped DEF DnsMechanism
    <2>2. all \in SUBSET Key /\ a.keys \subseteq all
      BY <1>1, <2>1, ArgKeysTyped DEF Outs
    <2>3. RefTerm(z, inner, next, t, a) =
            RefMatched(next, m, t, p, d, a.terms + 1, all)
      BY <1>1, <1>9, TermMechanism
    <2>. HIDE DEF all, m
    <2>. QED
      BY <1>1, <1>2, <1>3, <2>1, <2>2, <2>3, MatchedTyped
  <1>. QED
    BY <1>4, <1>5, <1>6, <1>7, <1>8, <1>9 DEF Spends

\* A lookup that the term makes anyway can be counted before it.
LEMMA TermGrows ==
  ASSUME NEW z, NEW inner, NEW next, NEW t, NEW p, NEW d, NEW terms, NEW keys,
         Spends(t), t.name = "redirect" => t.arg # NoArg,
         ~(terms + 1 > MaxTerms), NEW k,
         \/ k \in ArgKeys(z, t.arg)
         \/ t.name \in DnsMechanism \ {"include"}
              /\ k \in RefMechanism(z, t, d).keys
  PROVE  RefTerm(z, inner, next, t, Args(p, d, terms, keys)) =
         RefTerm(z, inner, next, t, Args(p, d, terms, keys \cup {k}))
  <1>1. CASE t.name \in {"redirect", "include"}
    <2>1. (keys \cup {k}) \cup ArgKeys(z, t.arg) = keys \cup ArgKeys(z, t.arg)
      BY <1>1 DEF DnsMechanism
    <2>2. RefNested(z, inner, t, p, d, terms, keys) =
          RefNested(z, inner, t, p, d, terms, keys \cup {k})
      BY <2>1 DEF RefNested
    <2>. QED
      BY <1>1, <2>2, TermRedirect, TermInclude
  <1>2. CASE t.name \in DnsMechanism \ {"include"}
    <2> DEFINE m == RefMechanism(z, t, d)
    <2>1. (keys \cup {k}) \cup ArgKeys(z, t.arg) \cup m.keys =
          keys \cup ArgKeys(z, t.arg) \cup m.keys
      BY <1>2 DEF DnsMechanism
    <2>2. RefTerm(z, inner, next, t, Args(p, d, terms, keys)) =
            RefMatched(next, m, t, p, d, terms + 1,
                       keys \cup ArgKeys(z, t.arg) \cup m.keys)
      BY <1>2, TermMechanism
    <2>3. RefTerm(z, inner, next, t, Args(p, d, terms, keys \cup {k})) =
            RefMatched(next, m, t, p, d, terms + 1,
                       (keys \cup {k}) \cup ArgKeys(z, t.arg) \cup m.keys)
      BY <1>2, TermMechanism
    <2>. QED
      BY <2>1, <2>2, <2>3
  <1>. QED
    BY <1>1, <1>2 DEF Spends

LEMMA CheckGrows ==
  ASSUME NEW z, NEW walk, NEW d \in Name, NEW terms, NEW keys
  PROVE  RefCheck(z, walk, d, NoText, terms, keys) =
         RefCheck(z, walk, d, NoText, terms, keys \cup {<<d, "TXT">>})
  <1> DEFINE f == RefFetch(z, d, NoText)
  <1>1. f.keys = {<<d, "TXT">>}
    BY DEF RefFetch, RefParse, Fetched
  <1>. HIDE DEF f
  <1>2. (keys \cup {<<d, "TXT">>}) \cup f.keys = keys \cup f.keys
    BY <1>1
  <1>. QED
    BY <1>2 DEF RefCheck, f

-----------------------------------------------------------------------------
(***************************************************************************)
(* The walks exist, as the recursive functions that define them.           *)
(***************************************************************************)
\* The term of p when so many are left, and its walk given the rest's.
TermLeft(p, left) == TermAt(p, Len(p.terms) + 1 - left)

WalkTerm(z, inner, next, left) ==
  [a \in WalkArgs |-> RefTerm(z, inner, next, TermLeft(a.policy, left), a)]

LEMMA WalkTermTyped ==
  ASSUME NEW z, IsZone(z), NEW inner \in [Nat -> Walkers], NEW next,
         NEW left \in Nat, left # 0 => next \in Walkers
  PROVE  WalkTerm(z, inner, next, left) \in Walkers
  <1>1. ASSUME NEW a \in WalkArgs
        PROVE  /\ RefTerm(z, inner, next, TermLeft(a.policy, left), a)
                    \in Outcomes
               /\ a.keys \subseteq
                    RefTerm(z, inner, next, TermLeft(a.policy, left), a).keys
    <2>1. a.policy \in PolicyType
      BY ArgsFields
    <2>2. TermLeft(a.policy, left) \in RefTermType
      BY <2>1, TermAtTyped DEF TermLeft
    <2>3. TermLeft(a.policy, left).name # "redirect" => next \in Walkers
      <3>1. CASE left = 0
        <4>1. Len(a.policy.terms) + 1 - left \notin DOMAIN a.policy.terms
          BY <2>1, <3>1 DEF PolicyType
        <4>. QED
          BY <2>1, <4>1, TermAtTyped DEF TermLeft
      <3>. QED
        BY <3>1
    <2>. QED
      BY <2>2, <2>3, RefTermTyped
  <1>. QED
    BY <1>1 DEF WalkTerm, Walkers

LEMMA WalkTermLast ==
  ASSUME NEW z, NEW inner, NEW n1, NEW n2
  PROVE  WalkTerm(z, inner, n1, 0) = WalkTerm(z, inner, n2, 0)
  <1>1. ASSUME NEW a \in WalkArgs
        PROVE  RefTerm(z, inner, n1, TermLeft(a.policy, 0), a) =
               RefTerm(z, inner, n2, TermLeft(a.policy, 0), a)
    <2>1. a.policy \in PolicyType
      BY ArgsFields
    <2>2. Len(a.policy.terms) + 1 - 0 \notin DOMAIN a.policy.terms
      BY <2>1 DEF PolicyType
    <2>3. TermLeft(a.policy, 0).name = "redirect"
      BY <2>1, <2>2, TermAtTyped DEF TermLeft
    <2>. QED
      BY <2>3, RedirectIsLast
  <1>. QED
    BY <1>1 DEF WalkTerm

WalkEq(z, inner, f) ==
  f = [left \in Nat |-> WalkTerm(z, inner, f[left - 1], left)]

LEMMA WalkDef ==
  ASSUME NEW z, NEW inner
  PROVE  Walk(z, inner) = CHOOSE f : WalkEq(z, inner, f)
  BY DEF Walk, WalkEq, WalkTerm, TermLeft

LEMMA WalkExists ==
  ASSUME NEW z, IsZone(z), NEW inner \in [Nat -> Walkers]
  PROVE  \E f : WalkEq(z, inner, f)
  <1> DEFINE base == WalkTerm(z, inner, 0, 0)
             step == [x \in Nat \X Walkers |->
                        WalkTerm(z, inner, x[2], x[1] + 1)]
  <1>1. base \in Walkers
    BY WalkTermTyped
  <1>2. step \in [Nat \X Walkers -> Walkers]
    <2>1. ASSUME NEW x \in Nat \X Walkers
          PROVE  WalkTerm(z, inner, x[2], x[1] + 1) \in Walkers
      <3>1. x[1] + 1 \in Nat /\ x[2] \in Walkers
        OBVIOUS
      <3>. QED
        BY <3>1, WalkTermTyped
    <2>. QED
      BY <2>1
  <1>. HIDE DEF base, step
  <1>3. PICK f : Recurs(f, Walkers, base, step)
    BY <1>1, <1>2, PrimRec DEF IsStep
  <1>4. ASSUME NEW left \in Nat
        PROVE  f[left] = WalkTerm(z, inner, f[left - 1], left)
    <2>1. CASE left = 0
      BY <1>3, <2>1, WalkTermLast DEF base, Recurs
    <2>2. CASE left # 0
      <3>1. left - 1 \in Nat /\ (left - 1) + 1 = left
        BY <2>2
      <3>2. f[left] = step[<<left - 1, f[left - 1]>>]
        BY <1>3, <3>1 DEF Recurs
      <3>3. <<left - 1, f[left - 1]>> \in Nat \X Walkers
        BY <1>3, <3>1 DEF Recurs
      <3>. QED
        BY <3>1, <3>2, <3>3 DEF step
    <2>. QED
      BY <2>1, <2>2
  <1>5. f = [left \in Nat |-> WalkTerm(z, inner, f[left - 1], left)]
    BY <1>3, <1>4 DEF Recurs
  <1>. QED
    BY <1>5 DEF WalkEq

LEMMA WalkIs ==
  ASSUME NEW z, IsZone(z), NEW inner \in [Nat -> Walkers]
  PROVE  /\ Walk(z, inner) \in [Nat -> Walkers]
         /\ \A left \in Nat : \A a \in WalkArgs :
              Walk(z, inner)[left][a] =
                RefTerm(z, inner, Walk(z, inner)[left - 1],
                        TermLeft(a.policy, left), a)
  <1> DEFINE f == Walk(z, inner)
             T == {left \in Nat : f[left] \in Walkers}
  <1>1. WalkEq(z, inner, f)
    BY WalkDef, WalkExists
  <1>. HIDE DEF f
  <1>2. ASSUME NEW left \in Nat
        PROVE  f[left] = WalkTerm(z, inner, f[left - 1], left)
    BY <1>1 DEF WalkEq
  <1>3. 0 \in T
    BY <1>2, WalkTermTyped
  <1>4. ASSUME NEW n \in Nat, n \in T PROVE n + 1 \in T
    <2>1. f[n + 1] = WalkTerm(z, inner, f[n], n + 1)
      BY <1>2
    <2>. QED
      BY <1>4, <2>1, WalkTermTyped
  <1>. HIDE DEF T
  <1>5. \A n \in Nat : f[n] \in Walkers
    <2>1. \A n \in Nat : n \in T
      BY <1>3, <1>4, Induct
    <2>. QED
      BY <2>1 DEF T
  <1>6. f \in [Nat -> Walkers]
    BY <1>1, <1>5 DEF WalkEq
  <1>7. ASSUME NEW left \in Nat, NEW a \in WalkArgs
        PROVE  f[left][a] = RefTerm(z, inner, f[left - 1],
                                    TermLeft(a.policy, left), a)
    BY <1>2 DEF WalkTerm
  <1>. QED
    BY <1>6, <1>7 DEF f

Unreached ==
  [left \in Nat |->
     [a \in WalkArgs |-> Outcome("permerror", NoArg, a.domain, a.terms, a.keys)]]

WalksEq(z, f) ==
  f = [n \in Nat |-> IF n = 0 THEN Unreached ELSE Walk(z, f[n - 1])]

LEMMA WalksDef ==
  ASSUME NEW z
  PROVE  Walks(z) = CHOOSE f : WalksEq(z, f)
  BY DEF Walks, WalksEq, Unreached

LEMMA UnreachedTyped == Unreached \in [Nat -> Walkers]
  <1>1. ASSUME NEW a \in WalkArgs
        PROVE  /\ Outcome("permerror", NoArg, a.domain, a.terms, a.keys)
                    \in Outcomes
               /\ a.keys \subseteq
                    Outcome("permerror", NoArg, a.domain, a.terms, a.keys).keys
    <2>1. "permerror" \in Verdict /\ NoArg \in Arg \cup {NoArg}
      BY DEF Verdict
    <2>. QED
      BY <2>1, ArgsFields, OutcomeTyped, OutcomeFields
  <1>. QED
    BY <1>1 DEF Unreached, Walkers

LEMMA WalksExist ==
  ASSUME NEW z, IsZone(z)
  PROVE  \E f : WalksEq(z, f)
  <1> DEFINE S == [Nat -> Walkers]
             step == [x \in Nat \X S |-> Walk(z, x[2])]
  <1>1. step \in [Nat \X S -> S]
    BY WalkIs
  <1>2. Unreached \in S
    BY UnreachedTyped
  <1>. HIDE DEF S, step
  <1>3. PICK f : Recurs(f, S, Unreached, step)
    BY <1>1, <1>2, PrimRec DEF IsStep
  <1>4. ASSUME NEW n \in Nat
        PROVE  f[n] = IF n = 0 THEN Unreached ELSE Walk(z, f[n - 1])
    <2>1. CASE n = 0
      BY <1>3, <2>1 DEF Recurs
    <2>2. CASE n # 0
      <3>1. n - 1 \in Nat /\ (n - 1) + 1 = n
        BY <2>2
      <3>2. f[n] = step[<<n - 1, f[n - 1]>>]
        BY <1>3, <3>1 DEF Recurs
      <3>3. <<n - 1, f[n - 1]>> \in Nat \X S
        BY <1>3, <3>1 DEF Recurs
      <3>. QED
        BY <2>2, <3>2, <3>3 DEF step
    <2>. QED
      BY <2>1, <2>2
  <1>5. f = [n \in Nat |-> IF n = 0 THEN Unreached ELSE Walk(z, f[n - 1])]
    BY <1>3, <1>4 DEF Recurs
  <1>. QED
    BY <1>5 DEF WalksEq

LEMMA WalksAre ==
  ASSUME NEW z, IsZone(z)
  PROVE  /\ Walks(z) \in [Nat -> [Nat -> Walkers]]
         /\ \A n \in Nat \ {0} : Walks(z)[n] = Walk(z, Walks(z)[n - 1])
  <1> DEFINE f == Walks(z)
             T == {n \in Nat : f[n] \in [Nat -> Walkers]}
  <1>1. WalksEq(z, f)
    BY WalksDef, WalksExist
  <1>. HIDE DEF f
  <1>2. ASSUME NEW n \in Nat
        PROVE  f[n] = IF n = 0 THEN Unreached ELSE Walk(z, f[n - 1])
    BY <1>1 DEF WalksEq
  <1>3. 0 \in T
    BY <1>2, UnreachedTyped
  <1>4. ASSUME NEW n \in Nat, n \in T PROVE n + 1 \in T
    <2>1. f[n + 1] = Walk(z, f[n])
      BY <1>2
    <2>. QED
      BY <1>4, <2>1, WalkIs
  <1>. HIDE DEF T
  <1>5. \A n \in Nat : f[n] \in [Nat -> Walkers]
    <2>1. \A n \in Nat : n \in T
      BY <1>3, <1>4, Induct
    <2>. QED
      BY <2>1 DEF T
  <1>6. f \in [Nat -> [Nat -> Walkers]]
    BY <1>1, <1>5 DEF WalksEq
  <1>. QED
    BY <1>2, <1>6 DEF f

-----------------------------------------------------------------------------
\* The policy p of d from its i-th term on, n includes and redirects deep.
Rest(z, n, p, i) == Walks(z)[n][Len(p.terms) + 1 - i]

RefFrom(z, n, p, i, d, terms, keys) == Rest(z, n, p, i)[Args(p, d, terms, keys)]

LEMMA RestTyped ==
  ASSUME NEW z, IsZone(z), NEW n \in Nat, NEW p \in PolicyType,
         NEW i \in 1..(Len(p.terms) + 1)
  PROVE  Rest(z, n, p, i) \in Walkers
  <1>1. Len(p.terms) + 1 - i \in Nat
    BY DEF PolicyType
  <1>. QED
    BY <1>1, WalksAre DEF Rest

LEMMA FromTyped ==
  ASSUME NEW z, IsZone(z), NEW n \in Nat, NEW p \in PolicyType,
         NEW i \in 1..(Len(p.terms) + 1), NEW d \in Domains,
         NEW terms \in Nat, NEW keys \in SUBSET Key
  PROVE  /\ RefFrom(z, n, p, i, d, terms, keys) \in Outcomes
         /\ keys \subseteq RefFrom(z, n, p, i, d, terms, keys).keys
  BY RestTyped, WalkerTyped DEF RefFrom

LEMMA FromIs ==
  ASSUME NEW z, IsZone(z), NEW n \in Nat \ {0}, NEW p \in PolicyType,
         NEW i \in 1..(Len(p.terms) + 1), NEW d \in Domains,
         NEW terms \in Nat, NEW keys \in SUBSET Key
  PROVE  RefFrom(z, n, p, i, d, terms, keys) =
           RefTerm(z, Walks(z)[n - 1], Rest(z, n, p, i + 1), TermAt(p, i),
                   Args(p, d, terms, keys))
  <1> DEFINE a == Args(p, d, terms, keys)
             left == Len(p.terms) + 1 - i
             W == Walks(z)[n]
             inner == Walks(z)[n - 1]
  <1>1. Len(p.terms) \in Nat /\ left \in Nat
    BY DEF PolicyType
  <1>2. a \in WalkArgs /\ a.policy = p
    BY ArgsTyped DEF Args
  <1>3. W = Walk(z, inner) /\ inner \in [Nat -> Walkers]
    BY WalksAre
  <1>4. Len(p.terms) + 1 - left = i /\ Len(p.terms) + 1 - (i + 1) = left - 1
    <2> DEFINE len == Len(p.terms)
    <2>1. len \in Nat /\ i \in 1..(len + 1) /\ left = len + 1 - i
      BY <1>1
    <2>. HIDE DEF len, left
    <2>2. len + 1 - left = i /\ len + 1 - (i + 1) = left - 1
      BY <2>1
    <2>. QED
      BY <2>2 DEF len
  <1>5. TermLeft(p, left) = TermAt(p, i) /\ Rest(z, n, p, i + 1) = W[left - 1]
    BY <1>4 DEF TermLeft, Rest
  <1>. HIDE DEF left, a, W, inner
  <1>6. W[left][a] = RefTerm(z, inner, W[left - 1], TermLeft(a.policy, left), a)
    BY <1>1, <1>2, <1>3, WalkIs
  <1>7. RefFrom(z, n, p, i, d, terms, keys) = W[left][a]
    BY DEF RefFrom, Rest, W, left, a
  <1>. QED
    BY <1>2, <1>5, <1>6, <1>7 DEF inner, a

\* check_host() goes on with the first term of the policy it has fetched.
LEMMA CheckIs ==
  ASSUME NEW z, IsZone(z), NEW n \in Nat, NEW d \in Domains,
         NEW override \in Text \cup {NoText}, NEW terms, NEW keys
  PROVE  LET f == RefFetch(z, d, override)
             w == RefCheck(z, Walks(z)[n], d, override, terms, keys)
         IN  /\ f.says = "policy" =>
                  w = RefFrom(z, n, f.policy, 1, d, terms, keys \cup f.keys)
             /\ f.says # "policy" =>
                  w = Outcome(f.says, NoArg, d, terms, keys \cup f.keys)
  <1> DEFINE f == RefFetch(z, d, override)
  <1>1. f.policy \in PolicyType
    BY FetchTyped DEF Fetches
  <1>2. Len(f.policy.terms) + 1 - 1 = Len(f.policy.terms)
    BY <1>1 DEF PolicyType
  <1>. QED
    BY <1>2 DEF RefCheck, RefFrom, Rest

-----------------------------------------------------------------------------
(***************************************************************************)
(* The check_host() calls in progress: what the innermost gives decides    *)
(* what each of its callers gives, up to evaluate().                       *)
(***************************************************************************)
CallTerm(f) == TermAt(f.policy, f.idx)

\* What the call f gives, from what the call its term has led to gives.
After(z, f, n, w) ==
  IF CallTerm(f).name = "include"
    THEN RefIncluded(Rest(z, n, f.policy, f.idx + 1), w, CallTerm(f), f.policy,
                     f.domain)
    ELSE NoneIsError(w)

Calling(f) == CallTerm(f).name \in {"include", "redirect"}
Callers(q) == \A i \in 2..Len(q) : Calling(q[i])

\* How deep the calls of the i-th frame of q may still go.
Fuel(q, i) == MaxTerms + 1 + i - Len(q)

Chain(d, q, z, W) ==
  /\ W \in [1..Len(q) -> Outcomes]
  /\ W[Len(q)] = RefEvaluate(z, d)
  /\ \A i \in 1..(Len(q) - 1) :
       W[i + 1] = After(z, q[i + 1], Fuel(q, i + 1), W[i])

Chained(d, q, z, w) == \E W : Chain(d, q, z, W) /\ W[1] = w

\* A stack of calls that TERMS terms can pay for.
Stacked(q) ==
  /\ q \in Seq(FrameType) /\ q # <<>>
  /\ Callers(q)
  /\ Len(q) <= MaxTerms + 1

LEMMA StackedFacts ==
  ASSUME NEW q, Stacked(q)
  PROVE  /\ Len(q) \in Nat \ {0} /\ MaxTerms \in Nat
         /\ \A i \in 1..Len(q) : q[i] \in FrameType
         /\ \A i \in 1..Len(q) : Fuel(q, i) \in Nat \ {0}
  <1>1. Len(q) \in Nat \ {0} /\ MaxTerms \in Nat
        /\ \A i \in 1..Len(q) : q[i] \in FrameType
    BY SessionAssumption DEF Stacked
  <1>2. ASSUME NEW i \in 1..Len(q) PROVE Fuel(q, i) \in Nat \ {0}
    <2>1. Len(q) <= MaxTerms + 1
      BY DEF Stacked
    <2>. QED
      BY <1>1, <2>1 DEF Fuel
  <1>. QED
    BY <1>1, <1>2

LEMMA AfterTyped ==
  ASSUME NEW z, IsZone(z), NEW f \in FrameType, Calling(f), NEW n \in Nat,
         NEW w \in Outcomes
  PROVE  /\ After(z, f, n, w) \in Outcomes
         /\ w.keys \subseteq After(z, f, n, w).keys
         /\ w.v \in {"permerror", "temperror"} => After(z, f, n, w) = w
  <1> DEFINE p == f.policy
  <1>0. p \in PolicyType /\ f.idx \in Nat \ {0} /\ f.domain \in Domains
    BY DEF FrameType, Domains
  <1>1. CASE CallTerm(f).name = "include"
    <2>1. f.idx \in DOMAIN p.terms
      BY <1>0, <1>1, TermAtTyped DEF CallTerm
    <2>2. f.idx + 1 \in 1..(Len(p.terms) + 1)
      BY <1>0, <2>1 DEF PolicyType
    <2>3. Rest(z, n, p, f.idx + 1) \in Walkers
      BY <1>0, <2>2, RestTyped
    <2>4. CallTerm(f).qualifier \in Verdict
      BY <1>0, TermAtTyped DEF CallTerm
    <2>5. After(z, f, n, w) =
            RefIncluded(Rest(z, n, p, f.idx + 1), w, CallTerm(f), p, f.domain)
      BY <1>1 DEF After
    <2>6. w.v \in {"permerror", "temperror"} => After(z, f, n, w) = NoneIsError(w)
      BY <2>5 DEF RefIncluded
    <2>. HIDE DEF p
    <2>. QED
      BY <1>0, <2>3, <2>4, <2>5, <2>6, IncludedTyped, NoneIsErrorTyped
  <1>2. CASE CallTerm(f).name # "include"
    <2>1. After(z, f, n, w) = NoneIsError(w)
      BY <1>2 DEF After
    <2>. QED
      BY <2>1, NoneIsErrorTyped
  <1>. QED
    BY <1>1, <1>2

\* The record and the next term of the innermost call are its own business.
LEMMA ChainKeep ==
  ASSUME NEW d, NEW q, NEW r, NEW z, NEW w, Len(r) = Len(q), Len(q) \in Nat,
         \A i \in 2..Len(q) : r[i] = q[i], Chained(d, q, z, w)
  PROVE  Chained(d, r, z, w)
  <1>1. PICK W : Chain(d, q, z, W) /\ W[1] = w
    BY DEF Chained
  <1>2. ASSUME NEW i \in 1..(Len(q) - 1)
        PROVE  r[i + 1] = q[i + 1] /\ Fuel(r, i + 1) = Fuel(q, i + 1)
    BY DEF Fuel
  <1>3. Chain(d, r, z, W)
    BY <1>1, <1>2 DEF Chain
  <1>. QED
    BY <1>1, <1>3 DEF Chained

LEMMA ChainPush ==
  ASSUME NEW d, NEW q \in Seq(FrameType), q # <<>>, NEW z, NEW f \in FrameType,
         NEW w, NEW v \in Outcomes,
         Chained(d, q, z, w), w = After(z, q[1], Fuel(q, 1), v)
  PROVE  Chained(d, <<f>> \o q, z, v)
  <1> DEFINE r == <<f>> \o q
             n == Len(q)
  <1>1. /\ n \in Nat \ {0} /\ Len(r) = n + 1
        /\ \A i \in 1..n : r[i + 1] = q[i]
    OBVIOUS
  <1>2. PICK W : Chain(d, q, z, W) /\ W[1] = w
    BY DEF Chained
  <1> DEFINE V == [i \in 1..(n + 1) |-> IF i = 1 THEN v ELSE W[i - 1]]
  <1>3. W \in [1..n -> Outcomes] /\ W[n] = RefEvaluate(z, d)
    BY <1>2 DEF Chain
  <1>4. V \in [1..(n + 1) -> Outcomes]
    <2>1. ASSUME NEW i \in 1..(n + 1), i # 1 PROVE i - 1 \in 1..n
      BY <2>1, <1>1
    <2>. QED
      BY <1>3, <2>1
  <1>5. V[n + 1] = RefEvaluate(z, d)
    BY <1>1, <1>3
  <1>. HIDE DEF r
  <1>6. ASSUME NEW i \in 1..n
        PROVE  V[i + 1] = After(z, r[i + 1], Fuel(r, i + 1), V[i])
    <2>1. r[i + 1] = q[i] /\ Fuel(r, i + 1) = Fuel(q, i) /\ V[i + 1] = W[i]
      <3>1. i + 1 \in 1..(n + 1) /\ i + 1 # 1 /\ (i + 1) - 1 = i
        BY <1>1
      <3>2. MaxTerms + 1 + (i + 1) - (n + 1) = MaxTerms + 1 + i - n
        BY <1>1, SessionAssumption
      <3>. QED
        BY <1>1, <3>1, <3>2 DEF Fuel
    <2>2. CASE i = 1
      BY <1>2, <2>1, <2>2, <1>1
    <2>3. CASE i # 1
      <3>1. i - 1 \in 1..(n - 1) /\ (i - 1) + 1 = i /\ i \in 1..(n + 1)
        BY <1>1, <2>3
      <3>2. W[i] = After(z, q[i], Fuel(q, i), W[i - 1])
        BY <1>2, <3>1 DEF Chain
      <3>3. V[i] = W[i - 1]
        BY <2>3, <3>1
      <3>. QED
        BY <2>1, <3>2, <3>3
    <2>. QED
      BY <2>2, <2>3
  <1>7. V[1] = v
    BY <1>1
  <1>8. Len(r) - 1 = n
    BY <1>1
  <1>. HIDE DEF V, n
  <1>9. Chain(d, r, z, V)
    BY <1>1, <1>4, <1>5, <1>6, <1>8 DEF Chain
  <1>. QED
    BY <1>7, <1>9 DEF Chained, r

LEMMA ChainPop ==
  ASSUME NEW d, NEW q, Stacked(q), Len(q) # 1, NEW z, IsZone(z), NEW w,
         Chained(d, q, z, w)
  PROVE  /\ Stacked(Tail(q)) /\ Len(Tail(q)) = Len(q) - 1
         /\ Tail(q)[1] = q[2] /\ Fuel(q, 2) = Fuel(Tail(q), 1)
         /\ After(z, q[2], Fuel(q, 2), w) \in Outcomes
         /\ Chained(d, Tail(q), z, After(z, q[2], Fuel(q, 2), w))
  <1> DEFINE r == Tail(q)
             n == Len(q)
  <1>1. /\ n \in Nat /\ n >= 2 /\ Len(r) = n - 1
        /\ \A i \in 1..(n - 1) : r[i] = q[i + 1]
        /\ r \in Seq(FrameType) /\ r # <<>>
    <2>1. q \in Seq(FrameType) /\ q # <<>> /\ n \in Nat /\ n # 0 /\ n # 1
      BY StackedFacts DEF Stacked
    <2>2. n >= 2
      <3>. HIDE DEF n
      <3>. QED
        BY <2>1
    <2>. QED
      BY <2>1, <2>2
  <1>2. \A i \in 1..(n - 1) : Fuel(r, i) = Fuel(q, i + 1)
    <2>1. ASSUME NEW i \in 1..(n - 1)
          PROVE  MaxTerms + 1 + i - (n - 1) = MaxTerms + 1 + (i + 1) - n
      BY <1>1, SessionAssumption
    <2>. QED
      BY <1>1, <2>1 DEF Fuel
  <1>. HIDE DEF r
  <1>3. PICK W : Chain(d, q, z, W) /\ W[1] = w
    BY DEF Chained
  <1> DEFINE V == [i \in 1..(n - 1) |-> W[i + 1]]
  <1>4. W \in [1..n -> Outcomes] /\ W[n] = RefEvaluate(z, d)
        /\ \A i \in 1..(n - 1) :
             W[i + 1] = After(z, q[i + 1], Fuel(q, i + 1), W[i])
    BY <1>3 DEF Chain
  <1>5. V \in [1..(n - 1) -> Outcomes] /\ V[n - 1] = RefEvaluate(z, d)
    BY <1>1, <1>4
  <1>6. ASSUME NEW i \in 1..(n - 2)
        PROVE  V[i + 1] = After(z, r[i + 1], Fuel(r, i + 1), V[i])
    <2>1. i + 1 \in 1..(n - 1) /\ i \in 1..(n - 1)
      BY <1>1
    <2>2. W[(i + 1) + 1] = After(z, q[(i + 1) + 1], Fuel(q, (i + 1) + 1), W[i + 1])
      BY <1>4, <2>1
    <2>. QED
      BY <1>1, <1>2, <2>1, <2>2
  <1>7. 1 \in 1..(n - 1) /\ (n - 1) - 1 = n - 2 /\ 1 + 1 = 2
    BY <1>1
  <1>8. V[1] = After(z, q[2], Fuel(q, 2), w)
    BY <1>3, <1>4, <1>7
  <1>. HIDE DEF V
  <1>9. Chain(d, r, z, V)
    BY <1>1, <1>5, <1>6, <1>7 DEF Chain
  <1>10. V[1] \in Outcomes
    BY <1>5, <1>7
  <1>11. Callers(r)
    <2>1. ASSUME NEW i \in 2..(n - 1) PROVE Calling(r[i])
      <3>1. i \in 1..(n - 1) /\ i + 1 \in 2..n
        BY <1>1
      <3>. QED
        BY <1>1, <3>1 DEF Stacked, Callers
    <2>. QED
      BY <1>1, <2>1 DEF Callers
  <1>12. Stacked(r)
    BY <1>1, <1>11, SessionAssumption DEF Stacked
  <1>. QED
    BY <1>1, <1>2, <1>7, <1>8, <1>9, <1>10, <1>12 DEF Chained, r

LEMMA ChainRoot ==
  ASSUME NEW d, NEW q, Len(q) = 1, NEW z, NEW w, Chained(d, q, z, w)
  PROVE  w = RefEvaluate(z, d)
  BY DEF Chained, Chain

\* An error of the innermost call is the verdict; in any case every lookup it
\* made counts.
LEMMA ChainEnd ==
  ASSUME NEW d, NEW q, Stacked(q), NEW z, IsZone(z), NEW w, Chained(d, q, z, w)
  PROVE  /\ RefEvaluate(z, d) \in Outcomes
         /\ w.keys \subseteq RefEvaluate(z, d).keys
         /\ w.v \in {"permerror", "temperror"} => RefEvaluate(z, d) = w
  <1> DEFINE n == Len(q)
  <1>1. n \in Nat \ {0} /\ \A i \in 1..n : q[i] \in FrameType
                        /\ Fuel(q, i) \in Nat
    BY StackedFacts
  <1>2. PICK W : Chain(d, q, z, W) /\ W[1] = w
    BY DEF Chained
  <1>3. W \in [1..n -> Outcomes] /\ W[n] = RefEvaluate(z, d)
        /\ \A i \in 1..(n - 1) :
             W[i + 1] = After(z, q[i + 1], Fuel(q, i + 1), W[i])
    BY <1>2 DEF Chain
  <1> DEFINE Ok(x) == /\ w.keys \subseteq x.keys
                      /\ w.v \in {"permerror", "temperror"} => x = w
             T == {j \in Nat : j + 1 <= n => Ok(W[j + 1])}
  <1>4. 0 \in T
    BY <1>2
  <1>5. ASSUME NEW j \in Nat, j \in T PROVE j + 1 \in T
    <2>1. SUFFICES ASSUME (j + 1) + 1 <= n PROVE Ok(W[(j + 1) + 1])
      OBVIOUS
    <2> DEFINE i == j + 1
    <2>2. i \in 1..(n - 1) /\ i \in 1..n /\ i + 1 \in 2..n /\ i + 1 \in 1..n
      BY <1>1, <2>1
    <2>3. Ok(W[i])
      BY <1>5, <2>2
    <2>4. W[i + 1] = After(z, q[i + 1], Fuel(q, i + 1), W[i]) /\ W[i] \in Outcomes
      BY <1>3, <2>2
    <2>5. q[i + 1] \in FrameType /\ Calling(q[i + 1]) /\ Fuel(q, i + 1) \in Nat
      BY <1>1, <2>2 DEF Stacked, Callers
    <2>. HIDE DEF i
    <2>6. /\ W[i].keys \subseteq W[i + 1].keys
          /\ W[i].v \in {"permerror", "temperror"} => W[i + 1] = W[i]
      BY <2>4, <2>5, AfterTyped
    <2>. QED
      BY <2>3, <2>6 DEF i
  <1>6. n - 1 \in Nat /\ (n - 1) + 1 = n /\ n \in 1..n
    BY <1>1
  <1>. HIDE DEF T
  <1>7. n - 1 \in T
    BY <1>4, <1>5, <1>6, Induct
  <1>8. Ok(W[n])
    BY <1>6, <1>7 DEF T
  <1>. QED
    BY <1>3, <1>6, <1>8

-----------------------------------------------------------------------------
(***************************************************************************)
(* The walks over names.                                                   *)
(***************************************************************************)
\* What is left of s after j of its names.
Left(s, j) == SubSeq(s, j + 1, Len(s))

LEMMA LeftIs ==
  ASSUME NEW S, NEW s \in Seq(S), NEW j \in 0..Len(s)
  PROVE  /\ Left(s, 0) = s
         /\ Left(s, j) = <<>> <=> j = Len(s)
         /\ Left(s, j) # <<>> =>
              /\ j + 1 \in 1..Len(s) /\ s[j + 1] \in S
              /\ Head(Left(s, j)) = s[j + 1]
              /\ Tail(Left(s, j)) = Left(s, j + 1)
  <1>1. Len(Left(s, j)) = Len(s) - j /\ Left(s, j) \in Seq(S)
        /\ \A i \in 1..(Len(s) - j) : Left(s, j)[i] = s[j + i]
    BY DEF Left
  <1>2. Left(s, 0) = s
    BY DEF Left
  <1>3. Left(s, j) = <<>> <=> j = Len(s)
    BY <1>1
  <1>4. ASSUME Left(s, j) # <<>>
        PROVE  /\ j + 1 \in 1..Len(s) /\ s[j + 1] \in S
               /\ Head(Left(s, j)) = s[j + 1]
               /\ Tail(Left(s, j)) = Left(s, j + 1)
    <2>1. j + 1 \in 1..Len(s)
      BY <1>3, <1>4
    <2>2. Head(Left(s, j)) = s[j + 1]
      BY <1>1, <1>4, <2>1
    <2>3. Tail(Left(s, j)) = Left(s, j + 1)
      BY <1>1, <1>4, <2>1 DEF Left
    <2>. QED
      BY <2>1, <2>2, <2>3
  <1>. QED
    BY <1>2, <1>3, <1>4

\* mx: the exchanges before j did not match.
MxMissed(z, t, s, j) ==
  \A i \in 1..j : ~Failed(z, HostKey(s[i])) /\ ~In(z, s[i], t.hit)

LEMMA FailedHasNone ==
  ASSUME NEW z, NEW n, NEW c, Failed(z, HostKey(n))
  PROVE  ~In(z, n, c)
  BY DEF Failed, In, Records, DnsFailure

\* What m then is, for the mx of n, with exchanges s.
MxTells(z, t, n, s, j, m) ==
  /\ j = Len(s) => m = Out("miss", {<<n, "MX">>} \cup HostKeys(s, 1..j))
  /\ j # Len(s) => HostKey(s[j + 1]) \in m.keys
  /\ j # Len(s) /\ Failed(z, HostKey(s[j + 1])) =>
       m = Out("temperror", {<<n, "MX">>} \cup HostKeys(s, 1..(j + 1)))
  /\ j # Len(s) /\ In(z, s[j + 1], t.hit) =>
       m = Out("hit", {<<n, "MX">>} \cup HostKeys(s, 1..(j + 1)))

LEMMA MxTried ==
  ASSUME NEW z, IsZone(z), NEW t, NEW n \in Name,
         ~Failed(z, <<n, "MX">>), Len(Records(z, <<n, "MX">>)) <= MaxMx,
         NEW j \in 0..Len(Records(z, <<n, "MX">>)),
         MxMissed(z, t, Records(z, <<n, "MX">>), j)
  PROVE  MxTells(z, t, n, Records(z, <<n, "MX">>), j, RefMx(z, t, n))
  <1> DEFINE s == Records(z, <<n, "MX">>)
             h == s[j + 1]
             fails == {x \in Name : Failed(z, HostKey(x))}
             hits  == {x \in Name : In(z, x, t.hit)}
             tried == Tried(s, fails \cup hits)
             m == RefMx(z, t, n)
  <1>1. s \in Seq(Name) /\ Len(s) \in Nat /\ MaxMx \in Nat /\ DOMAIN s = 1..Len(s)
    <2>1. s \in Seq(Name)
      BY RecordsTyped
    <2>2. MaxMx \in Nat
      BY EvaluatorAssumption
    <2>. HIDE DEF s
    <2>. QED
      BY <2>1, <2>2
  <1>9. ~(Len(s) > MaxMx)
    <2>1. Len(s) <= MaxMx
      OBVIOUS
    <2>. HIDE DEF s
    <2>. QED
      BY <1>1, <2>1
  <1>2. m = Out(IF \E i \in tried : s[i] \in fails THEN "temperror"
                ELSE Hit(\E i \in tried : s[i] \in hits),
                {<<n, "MX">>} \cup HostKeys(s, tried))
    BY <1>9 DEF RefMx
  <1>3. \A i \in 1..Len(s) : s[i] \in Name
    BY <1>1
  <1>4. \A i \in 1..j : s[i] \notin fails /\ s[i] \notin hits
    BY DEF MxMissed
  <1>5. tried = {i \in 1..Len(s) : \A k \in 1..(i - 1) : s[k] \notin fails \cup hits}
    <2>. HIDE DEF s, fails, hits
    <2>. QED
      BY <1>1 DEF Tried
  <1>. HIDE DEF s, fails, hits, tried, m
  <1>6. \A i \in 1..Len(s) : i <= j + 1 => i \in tried
    <2>1. ASSUME NEW i \in 1..Len(s), i <= j + 1, NEW k \in 1..(i - 1)
          PROVE  k \in 1..j
      BY <1>1, <2>1
    <2>. QED
      BY <1>4, <1>5, <2>1
  <1>7. CASE j = Len(s)
    <2>1. tried = 1..j
      BY <1>1, <1>5, <1>6, <1>7
    <2>2. (\A i \in tried : s[i] \notin fails) /\ \A i \in tried : s[i] \notin hits
      BY <1>4, <2>1
    <2>3. m = Out("miss", {<<n, "MX">>} \cup HostKeys(s, tried))
      BY <1>2, <2>2 DEF Hit
    <2>. QED
      BY <1>7, <2>1, <2>3 DEF s, m, MxTells
  <1>8. CASE j # Len(s)
    <2>6. j \in 0..Len(s)
      BY DEF s
    <2>0. j + 1 \in 1..Len(s) /\ h \in Name
      <3>1. j + 1 \in 1..Len(s)
        <4>1. Len(s) \in Nat /\ j \in 0..Len(s) /\ j # Len(s)
          BY <1>1, <1>8, <2>6
        <4>. QED
          BY ONLY <4>1
      <3>. QED
        BY <1>3, <3>1
    <2>1. j + 1 \in tried
      BY <1>6, <2>0
    <2>2. HostKey(h) \in m.keys
      BY <1>2, <2>1 DEF Out, HostKeys
    <2>3. ASSUME h \in fails \cup hits
          PROVE  tried = 1..(j + 1)
      <3>1. ASSUME NEW i \in 1..Len(s), i > j + 1
            PROVE  i \notin tried
        <4>1. j + 1 \in 1..(i - 1)
          BY <1>1, <3>1
        <4>. QED
          BY <1>5, <2>3, <4>1
      <3>. QED
        BY <1>1, <1>5, <1>6, <2>0, <3>1
    <2>4. ASSUME Failed(z, HostKey(h))
          PROVE  m = Out("temperror", {<<n, "MX">>} \cup HostKeys(s, 1..(j + 1)))
      <3>1. h \in fails
        BY <2>0, <2>4 DEF fails
      <3>. QED
        BY <1>2, <2>1, <2>3, <3>1
    <2>5. ASSUME In(z, h, t.hit)
          PROVE  m = Out("hit", {<<n, "MX">>} \cup HostKeys(s, 1..(j + 1)))
      <3>1. h \in hits /\ h \notin fails
        BY <2>0, <2>5, FailedHasNone DEF hits, fails
      <3>2. tried = 1..(j + 1)
        BY <2>3, <3>1
      <3>3. \A i \in tried : s[i] \notin fails
        <4>1. ASSUME NEW i \in 1..(j + 1), i # j + 1 PROVE i \in 1..j
          BY <4>1
        <4>. QED
          BY <1>4, <3>1, <3>2, <4>1
      <3>4. \E i \in tried : s[i] \in hits
        BY <2>1, <3>1
      <3>. QED
        BY <1>2, <3>2, <3>3, <3>4 DEF Hit
    <2>. QED
      BY <1>8, <2>2, <2>4, <2>5 DEF s, m, MxTells
  <1>. QED
    BY <1>7, <1>8

\* ptr: none of the names before j is the client's.
PtrMissed(z, n, s, j) ==
  \A i \in 1..j : <<s[i], n>> \in Below => ~In(z, s[i], {"self"})

LEMMA PtrTried ==
  ASSUME NEW z, IsZone(z), NEW n, NEW j \in 0..Len(PtrHosts(z)),
         PtrMissed(z, n, PtrHosts(z), j)
  PROVE  LET s == PtrHosts(z)
             h == s[j + 1]
             m == RefPtr(z, n)
             under(k) == {i \in 1..k : <<s[i], n>> \in Below}
         IN  /\ j = Len(s) =>
                  m = Out("miss", {PtrKey} \cup HostKeys(s, under(j)))
             /\ j # Len(s) /\ <<h, n>> \in Below => HostKey(h) \in m.keys
             /\ j # Len(s) /\ <<h, n>> \in Below /\ In(z, h, {"self"}) =>
                  m = Out("hit", {PtrKey} \cup HostKeys(s, under(j + 1)))
  <1> DEFINE s == PtrHosts(z)
             h == s[j + 1]
             hits == {x \in Name : <<x, n>> \in Below /\ In(z, x, {"self"})}
             tried == {i \in Tried(s, hits) : <<s[i], n>> \in Below}
             under(k) == {i \in 1..k : <<s[i], n>> \in Below}
             m == RefPtr(z, n)
  <1>1. s \in Seq(Name) /\ Len(s) \in Nat
    BY PtrHostsTyped
  <1>2. m = Out(Hit(\E i \in tried : s[i] \in hits),
                {PtrKey} \cup HostKeys(s, tried))
    BY DEF RefPtr
  <1>3. \A i \in 1..Len(s) : s[i] \in Name
    BY <1>1
  <1>4. \A i \in 1..j : s[i] \notin hits
    BY DEF PtrMissed
  <1>5. tried = {i \in 1..Len(s) : /\ \A k \in 1..(i - 1) : s[k] \notin hits
                                   /\ <<s[i], n>> \in Below}
    BY <1>1 DEF Tried
  <1>. HIDE DEF s, hits, tried, m
  <1>6. \A i \in 1..Len(s) : i <= j + 1 /\ <<s[i], n>> \in Below => i \in tried
    <2>1. ASSUME NEW i \in 1..Len(s), i <= j + 1, NEW k \in 1..(i - 1)
          PROVE  k \in 1..j
      BY <1>1, <2>1
    <2>. QED
      BY <1>4, <1>5, <2>1
  <1>7. CASE j = Len(s)
    <2>1. tried = under(j)
      BY <1>1, <1>5, <1>6, <1>7
    <2>2. \A i \in tried : s[i] \notin hits
      BY <1>4, <2>1
    <2>3. m = Out("miss", {PtrKey} \cup HostKeys(s, tried))
      BY <1>2, <2>2 DEF Hit
    <2>. QED
      BY <1>7, <2>1, <2>3 DEF s, m
  <1>8. CASE j # Len(s)
    <2>0. j + 1 \in 1..Len(s) /\ h \in Name
      BY <1>1, <1>3, <1>8 DEF s
    <2>1. ASSUME <<h, n>> \in Below
          PROVE  j + 1 \in tried
      BY <1>6, <2>0, <2>1
    <2>2. <<h, n>> \in Below => HostKey(h) \in m.keys
      BY <1>2, <2>1 DEF Out, HostKeys
    <2>3. ASSUME <<h, n>> \in Below, In(z, h, {"self"})
          PROVE  m = Out("hit", {PtrKey} \cup HostKeys(s, under(j + 1)))
      <3>0. h \in hits
        BY <2>0, <2>3 DEF hits
      <3>1. ASSUME NEW i \in 1..Len(s), i > j + 1
            PROVE  i \notin tried
        <4>1. j + 1 \in 1..(i - 1)
          BY <1>1, <3>1
        <4>. QED
          BY <1>5, <3>0, <4>1
      <3>2. tried = under(j + 1)
        BY <1>1, <1>5, <1>6, <2>0, <3>1
      <3>3. \E i \in tried : s[i] \in hits
        BY <2>1, <2>3, <3>0
      <3>. QED
        BY <1>2, <3>2, <3>3 DEF Hit
    <2>. QED
      BY <1>8, <2>2, <2>3 DEF s, m
  <1>. QED
    BY <1>7, <1>8

\* %{p}: what is preferred of the first j names, and of one more.
LEMMA PreferredStep ==
  ASSUME NEW s \in Seq(Name), NEW j \in 0..Len(s), j # Len(s),
         NEW ok \in SUBSET (1..j), NEW d \in Domains
  PROVE  LET f == Preferred(s, ok, d)
             n == s[j + 1]
         IN  Preferred(s, ok \cup {j + 1}, d) =
               IF f = Malformed \/ RankIn(n, d) < RankIn(f, d) THEN n ELSE f
  <1> DEFINE f == Preferred(s, ok, d)
             n == s[j + 1]
             new == ok \cup {j + 1}
             g == Preferred(s, new, d)
             old(i) == {x \in i : <<s[x], d>> \in Below}
  <1>1. /\ j + 1 \in DOMAIN s /\ n \in Name /\ ok \subseteq DOMAIN s
        /\ ok \subseteq Nat /\ new \subseteq Nat /\ new # {}
        /\ \A i \in ok : i < j + 1
    OBVIOUS
  <1>2. f = Malformed <=> ok = {}
    BY <1>1, PreferredTyped
  <1>3. ASSUME NEW S, S \subseteq ok, S # {}
        PROVE  Min(S \cup {j + 1}) = Min(S) /\ Min(S) \in S
    <2>1. Min(S) \in S /\ \A x \in S : Min(S) <= x
      BY <1>1, <1>3, MinIs
    <2>2. /\ Min(S \cup {j + 1}) \in S \cup {j + 1}
          /\ \A x \in S \cup {j + 1} : Min(S \cup {j + 1}) <= x
      <3>1. S \cup {j + 1} \subseteq Nat /\ S \cup {j + 1} # {}
        BY <1>1, <1>3
      <3>. QED
        BY ONLY <3>1, MinIs
    <2>3. Min(S) \in Nat /\ Min(S \cup {j + 1}) \in Nat /\ Min(S) < j + 1
      BY <1>1, <1>3, <2>1, <2>2
    <2>0. Min(S) \in S \cup {j + 1}
      BY <2>1
    <2>6. Min(S \cup {j + 1}) <= Min(S)
      BY <2>0, <2>2
    <2>4. Min(S \cup {j + 1}) <= Min(S) /\ Min(S \cup {j + 1}) # j + 1
      BY <2>6, <2>3
    <2>5. Min(S) <= Min(S \cup {j + 1})
      BY <2>1, <2>2, <2>4
    <2>. QED
      BY <2>1, <2>3, <2>4, <2>5
  <1>4. Min({j + 1}) = j + 1
    <2>1. Min({j + 1}) \in {j + 1}
      <3>1. {j + 1} \subseteq Nat /\ {j + 1} # {}
        OBVIOUS
      <3>. QED
        BY <3>1, MinIs
    <2>. QED
      BY <2>1
  <1>5. CASE ok = {}
    <2>1. new = {j + 1}
      BY <1>5
    <2>2. old(new) = {} \/ old(new) = {j + 1}
      BY <2>1
    <2>3. g = n
      <3>1. CASE n = d
        BY <2>1, <3>1 DEF Preferred
      <3>2. CASE n # d
        <4>1. g = s[Min(IF old(new) # {} THEN old(new) ELSE new)]
          BY <2>1, <3>2 DEF Preferred
        <4>. QED
          BY <1>4, <2>1, <2>2, <4>1
      <3>. QED
        BY <3>1, <3>2
    <2>. QED
      BY <1>2, <1>5, <2>3
  <1>6. CASE ok # {} /\ \E i \in ok : s[i] = d
    <2>1. f = d /\ g = d
      BY <1>6 DEF Preferred
    <2>2. ~(RankIn(n, d) < RankIn(f, d))
      BY <2>1 DEF RankIn
    <2>. QED
      BY <1>2, <1>6, <2>1, <2>2
  <1>7. CASE ok # {} /\ ~\E i \in ok : s[i] = d
    <2>1. f = s[Min(IF old(ok) # {} THEN old(ok) ELSE ok)]
      BY <1>7 DEF Preferred
    <2>2. CASE n = d
      <3>1. g = d
        BY <2>2 DEF Preferred
      <3>2. f # d
        <4>1. Min(IF old(ok) # {} THEN old(ok) ELSE ok) \in ok
          BY <1>3, <1>7
        <4>. QED
          BY <1>7, <2>1, <4>1
      <3>3. RankIn(n, d) < RankIn(f, d)
        BY <2>2, <3>2 DEF RankIn
      <3>. QED
        BY <2>2, <3>1, <3>3
    <2>3. CASE n # d
      <3>1. g = s[Min(IF old(new) # {} THEN old(new) ELSE new)]
        BY <1>7, <2>3 DEF Preferred
      <3>2. CASE old(ok) # {}
        <4>1. Min(old(ok)) \in old(ok) /\ Min(old(ok) \cup {j + 1}) = Min(old(ok))
          BY <1>3, <3>2
        <4>2. old(new) = old(ok) \/ old(new) = old(ok) \cup {j + 1}
          OBVIOUS
        <4>3. f = s[Min(old(ok))] /\ g = s[Min(old(ok))]
          BY <2>1, <3>1, <3>2, <4>1, <4>2
        <4>4. f # d /\ <<f, d>> \in Below
          BY <1>7, <4>1, <4>3
        <4>5. ~(RankIn(n, d) < RankIn(f, d))
          BY <2>3, <4>4 DEF RankIn
        <4>. QED
          BY <1>2, <1>7, <4>3, <4>5
      <3>3. CASE old(ok) = {}
        <4>1. Min(ok) \in ok /\ Min(new) = Min(ok)
          BY <1>3, <1>7
        <4>2. f = s[Min(ok)] /\ f # d /\ <<f, d>> \notin Below
          BY <1>7, <2>1, <3>3, <4>1
        <4>3. CASE <<n, d>> \in Below
          <5>1. old(new) = {j + 1}
            BY <3>3, <4>3
          <5>2. g = n
            BY <1>4, <3>1, <5>1
          <5>3. RankIn(n, d) < RankIn(f, d)
            BY <2>3, <4>2, <4>3 DEF RankIn
          <5>. QED
            BY <5>2, <5>3
        <4>4. CASE <<n, d>> \notin Below
          <5>1. old(new) = {}
            BY <3>3, <4>4
          <5>2. g = f
            BY <3>1, <4>1, <4>2, <5>1
          <5>3. ~(RankIn(n, d) < RankIn(f, d))
            BY <2>3, <4>2, <4>4 DEF RankIn
          <5>. QED
            BY <1>2, <1>7, <5>2, <5>3
        <4>. QED
          BY <4>3, <4>4
      <3>. QED
        BY <3>2, <3>3
    <2>. QED
      BY <2>2, <2>3
  <1>. QED
    BY <1>5, <1>6, <1>7

-----------------------------------------------------------------------------
(***************************************************************************)
(* What the evaluation has heard of the zone so far.                       *)
(***************************************************************************)
Cached == {k \in Key : cache[k] # NoAnswer}

\* The zone z gives what was heard, and fails what always fails.
Agrees(z) ==
  /\ IsZone(z)
  /\ \A k \in Key : /\ cache[k] # NoAnswer => z[k] = cache[k]
                    /\ AlwaysFails(k) => z[k] = DnsFailure

\* Every zone that agrees gives k the reply r.
Known(k, r) == \/ cache[k] # NoAnswer /\ cache[k] = r
               \/ AlwaysFails(k) /\ r = DnsFailure

Resolved(k) == cache[k] # NoAnswer \/ AlwaysFails(k)

Voids(K) == {k \in K : IsVoid(cache[k])}

\* The cache holds definite answers, and finitely many.
Heard == /\ \A k \in Key : cache[k] # NoAnswer => cache[k].rcode \in Definite
         /\ IsFiniteSet(Cached)

\* Only a limit raises before the deadline and within the budget.
LimitRaised ==
  ~expired /\ ~BudgetSpent /\ status \in Raised =>
    terms_exceeded \/ void_exceeded

\* The lookup the coroutine is about.
AwaitPc == {"policy", "answer", "exchanges", "names", "host", "exp_reply"}

AskedKey ==
  CASE pc = "policy" -> <<Top.domain, "TXT">>
    [] pc = "answer" -> <<target, IF Term.name = "a" THEN AddrType ELSE "A">>
    [] pc = "exchanges" -> <<target, "MX">>
    [] pc = "names" -> PtrKey
    [] pc = "host" -> HostKey(Head(names))
    [] pc = "exp_reply" -> <<target, "TXT">>

Asked == IF pc \in AwaitPc THEN {AskedKey} ELSE {}

\* It is the one in flight, and what was replied is known of it.
Await ==
  /\ pc \in AwaitPc => AskedKey \in Key
  /\ status = "await" => pc \in AwaitPc /\ key = AskedKey
  /\ pc \in AwaitPc /\ status = "ready" => Known(AskedKey, reply)

Fresh == pc = "start" => SessionInit /\ override_used = FALSE /\ stack = <<>>

-----------------------------------------------------------------------------
(***************************************************************************)
(* The open calls of a verdict that is pending.                            *)
(***************************************************************************)
DnsPc == {"target", "apply", "answer", "exchanges", "names", "each", "host"}

\* Each call is what the term of its caller says; the explanation is that of
\* evaluate() and of what it redirects to.
Linked(q) ==
  /\ q[Len(q)].use_exp
  /\ \A i \in 2..Len(q) :
       /\ Calling(q[i])
       /\ q[i - 1].via = CallTerm(q[i]).name
       /\ q[i - 1].via = "redirect" /\ q[i].use_exp => q[i - 1].use_exp

\* Who walks names, and for which term.
Walking ==
  CASE work = "mx" -> pc # "names" /\ Term.name = "mx" /\ target \in Name
    [] work = "ptr" -> Term.name = "ptr"
    [] work = "pmacro" -> Term.arg = PMacro

\* What the code is at, and for which term.
Placed ==
  /\ pc \in {"enter", "policy"} => Top.idx = 1
  /\ pc = "policy" => Top.domain \in Name
  /\ pc \in DnsPc \cup {"term"} => Top.idx <= Len(Policy.terms) + 1
  /\ pc \in DnsPc =>
       /\ Spends(Term) /\ terms_used > 0
       /\ Term.name = "redirect" => Term.arg # NoArg
  /\ pc = "answer" => Term.name \in {"a", "exists"} /\ target \in Name
  /\ pc = "exchanges" => Term.name = "mx" /\ target \in Name
  /\ pc \in WalkPc => Walking
  /\ pc = "host" => ~OutsideTarget
  /\ pc = "match" => Term.name = "include"

Form ==
  /\ Linked(stack)
  /\ TakesOverride => Len(stack) = 1 /\ pc \in {"enter", "return"}
  /\ Placed

-----------------------------------------------------------------------------
(***************************************************************************)
(* Where the code is in the reference: w is what the innermost call gives  *)
(* for the zone z, when the lookups K were made.                           *)
(***************************************************************************)
N == Fuel(stack, 1)

AtCheck(z, K, w) ==
  w = RefCheck(z, Walks(z)[N], Top.domain,
               IF TakesOverride THEN Override ELSE NoText, terms_used, K)

\* What is left of the policy, when so many terms were spent before.
AtFrom(z, K, w, terms) ==
  w = RefFrom(z, N, Policy, Top.idx, Top.domain, terms, K)

AtTarget(z, K) ==
  /\ target = RefArg(z, Term.arg, Top.domain)
  /\ ArgKeys(z, Term.arg) \subseteq K

AtMacro(z, K) ==
  LET s == PtrHosts(z)
  IN  \E j \in 0..Len(s) :
        /\ names = Left(s, j)
        /\ found = Preferred(s, Confirmed(z) \cap (1..j), Domain)
        /\ {PtrKey} \cup HostKeys(s, 1..j) \subseteq K

AtMx(z, K) ==
  LET s == Records(z, <<target, "MX">>)
  IN  /\ ~Failed(z, <<target, "MX">>) /\ Len(s) <= MaxMx
      /\ \E j \in 0..Len(s) :
           /\ names = Left(s, j)
           /\ MxMissed(z, Term, s, j)
           /\ {<<target, "MX">>} \cup HostKeys(s, 1..j) \subseteq K

AtPtr(z, K) ==
  LET s == PtrHosts(z)
  IN  \E j \in 0..Len(s) :
        /\ names = Left(s, j)
        /\ PtrMissed(z, target, s, j)
        /\ {PtrKey} \cup HostKeys(s, {i \in 1..j : <<s[i], target>> \in Below})
             \subseteq K

AtWalk(z, K) ==
  CASE work = "mx" -> AtMx(z, K)
    [] work = "ptr" -> AtPtr(z, K)
    [] work = "pmacro" -> AtMacro(z, K)

AtReturn(w, K) ==
  /\ w.v = ret /\ w.domain = exp_domain /\ w.terms = terms_used /\ w.keys = K
  /\ Top.use_exp => w.exp = exp

At(z, K, w) ==
  /\ pc \in {"enter", "policy"} => AtCheck(z, K, w)
  /\ pc = "term" => AtFrom(z, K, w, terms_used)
  /\ pc \in DnsPc => AtFrom(z, K, w, terms_used - 1)
  /\ pc \in {"apply", "answer", "exchanges"} => AtTarget(z, K)
  /\ pc \in WalkPc /\ work # "pmacro" => AtTarget(z, K)
  /\ pc \in {"each", "host"} => AtWalk(z, K)
  /\ pc = "match" => w = Outcome(Term.qualifier, Policy.exp, Top.domain,
                                 terms_used, K)
  /\ pc = "return" => AtReturn(w, K)

Run(z, d, K, w) == w \in Outcomes /\ Chained(d, stack, z, w) /\ At(z, K, w)

-----------------------------------------------------------------------------
(***************************************************************************)
(* Where the code is when the verdict is decided.                          *)
(***************************************************************************)
\* The TXT string that exp= leads to is text.
TextIs(z, r) ==
  LET n == RefExpTarget(z, r)
      s == Records(z, <<n, "TXT">>)
  IN  n \in Name /\ Len(s) = 1 /\ s[1] = text

Explained(z, r) ==
  /\ pc = "exp" \/ Explaining =>
       exp = r.exp /\ exp_domain = r.domain /\ exp \in Arg
  /\ pc \in WalkPc => /\ resume = "exp_ask" => exp = PMacro
                      /\ resume = "exp_done" =>
                           TextIs(z, r) /\ ExpOf[text] \in {"pmacro", "pbad"}
  /\ pc \in {"each", "host"} => AtMacro(z, Key)
  /\ pc \in {"exp_ask", "exp_reply"} => target = RefExpTarget(z, r)
  /\ pc = "exp_text" => TextIs(z, r)
  /\ pc = "exp_done" => TextIs(z, r) /\ ExpOf[text] \in {"pmacro", "pbad"}
  /\ pc \in {"finish", "done"} => explanation = RefExplanation(z, r)

\* The verdict is that of the reference for z, unless too many voids raised.
Settles(z, d, K) ==
  LET r == RefEvaluate(z, d)
  IN  /\ K \subseteq r.keys
      /\ ~void_exceeded =>
           /\ r.terms <= MaxTerms /\ r.keys = K /\ r.v = result
           /\ result = "fail" => Explained(z, r)

-----------------------------------------------------------------------------
Looked(K) ==
  /\ K \in SUBSET Key
  /\ \A k \in K : Resolved(k)
  /\ void_used = Cardinality(Voids(K))

Says(z, d, K) == IF result = "pending" THEN \E w : Run(z, d, K \cup Asked, w)
                                       ELSE Settles(z, d, K)

\* The lookups K are those the reference makes for each zone that agrees.
Follows(d) ==
  \E K : /\ Looked(K)
         /\ result = "pending" =>
              /\ Form /\ Cached \subseteq K
              /\ status = "ready" => Asked \subseteq K
         /\ result # "pending" => stack = <<>>
         /\ \A z : Agrees(z) => Says(z, d, K)

RefInv ==
  ~expired /\ ~BudgetSpent /\ pc # "start" =>
    \E d \in Start :
      IF terms_exceeded THEN \A z : Agrees(z) => RefEvaluate(z, d).terms > MaxTerms
                        ELSE Follows(d)

\* An evaluation is on its way to what the reference says, over the
\* invariants NestInv and VerdictInv.
OnCourse ==
  /\ Heard
  /\ LimitRaised
  /\ Await
  /\ Fresh
  /\ RefInv

-----------------------------------------------------------------------------
(***************************************************************************)
(* What the session keeps.                                                 *)
(***************************************************************************)
LEMMA HeardStep ==
  ASSUME TypeInv, Heard, [SessionNext]_sessionVars
  PROVE  Heard'
  <1>1. CASE cache' = cache
    BY <1>1 DEF Heard, Cached
  <1>2. ASSUME NEW k \in Key, NEW a \in Reply[k], Answer(a), cache' # cache
        PROVE  Heard'
    <2>1. key \in Key /\ a.rcode \in Definite
          /\ cache' = [cache EXCEPT ![key] = a]
      BY <1>2 DEF Answer, TypeInv, Awaiting, Cacheable
    <2>2. cache \in [Key -> (UNION {Reply[x] : x \in Key}) \cup {NoAnswer}]
      BY DEF TypeInv, TypeOK
    <2>3. \A x \in Key : cache'[x] = IF x = key THEN a ELSE cache[x]
      BY <2>1, <2>2
    <2>4. Cached' \subseteq Cached \cup {key}
      BY <2>3 DEF Cached
    <2>5. IsFiniteSet(Cached \cup {key})
      BY FS_AddElement DEF Heard
    <2>6. IsFiniteSet(Cached')
      BY <2>4, <2>5, FS_Subset
    <2>. QED
      BY <2>1, <2>3, <2>6 DEF Heard
  <1>3. cache' = cache \/ \E k \in Key : \E a \in Reply[k] : Answer(a)
    BY DEF SessionNext, sessionVars, lookupVars, Elapse, CheckDeadline,
           ConsumeTerm, Query, CacheHit, PastDeadline, OverBudget, Send,
           LookupRaises, TimeLimit, EnterExempt, LeaveExempt
  <1>. QED
    BY <1>1, <1>2, <1>3

LEMMA LimitRaisedStep ==
  ASSUME LimitInv, LimitRaised, [SessionNext]_sessionVars
  PROVE  LimitRaised'
  <1>0. /\ terms_used \in Nat /\ network_queries \in Nat
        /\ terms_exceeded \in BOOLEAN /\ void_exceeded \in BOOLEAN
        /\ MaxTerms \in Nat /\ expired \in BOOLEAN
        /\ MaxQueries \in Nat \cup {NoCap} /\ NoCap \notin Nat
    BY SessionAssumption DEF LimitInv, TypeInv, TypeOK
  <1>1. CASE UNCHANGED sessionVars \/ Elapse \/ EnterExempt \/ LeaveExempt
    BY <1>1 DEF sessionVars, limitVars, lookupVars, Elapse, EnterExempt,
                LeaveExempt, LimitRaised, BudgetSpent
  <1>2. CASE CheckDeadline \/ TimeLimit
    BY <1>2 DEF CheckDeadline, TimeLimit, LimitRaised
  <1>3. CASE ConsumeTerm
    BY <1>0, <1>3 DEF ConsumeTerm, TermRefused, LimitRaised, Raised
  <1>4. ASSUME NEW k \in Key, Query(k)
        PROVE  LimitRaised'
    BY <1>0, <1>4 DEF Query, CacheHit, PastDeadline, OverBudget, Send,
       DeadlinePassed, LimitRaised, Raised, BudgetSpent, lookupVars, limitVars
  <1>5. ASSUME NEW k \in Key, NEW a \in Reply[k], Answer(a)
        PROVE  LimitRaised'
    BY <1>5 DEF Answer, Enforced, LimitRaised, Raised
  <1>6. CASE LookupRaises
    BY <1>6 DEF LookupRaises, LimitRaised, Raised
  <1>. QED
    BY <1>1, <1>2, <1>3, <1>4, <1>5, <1>6 DEF SessionNext

LEMMA NeverStart ==
  ASSUME EvalInv, Next
  PROVE  pc' # "start"
  <1>1. CASE Environment
    BY <1>1 DEF Environment, evalVars
  <1>2. CASE Step
    <2>1. Level => pc' # "start"
      BY DEF Level
    <2>2. Empties => pc' # "start"
      BY DEF Empties
    <2>3. (\E d \in Start : Begin(d)) => pc' # "start"
      BY DEF Begin
    <2>4. DnsTerm \/ Recurse => pc' # "start"
      BY DEF DnsTerm, Recurse
    <2>5. ReturnInclude \/ ReturnRedirect => pc' # "start"
      BY DEF ReturnInclude, ReturnRedirect
    <2>. QED
      BY <1>2, <2>1, <2>2, <2>3, <2>4, <2>5, StepLevel
  <1>. QED
    BY <1>1, <1>2 DEF Next

LEMMA FreshStep ==
  ASSUME EvalInv, Fresh, [Next]_vars
  PROVE  Fresh'
  <1>1. CASE Next
    BY <1>1, NeverStart DEF Fresh
  <1>2. CASE UNCHANGED vars
    BY <1>2 DEF Fresh, SessionInit, vars, evalVars, sessionVars, limitVars,
                lookupVars
  <1>. QED
    BY <1>1, <1>2

-----------------------------------------------------------------------------
(***************************************************************************)
(* Lookups.                                                                *)
(***************************************************************************)
\* Whoever asks waits for the answer.
Asks(k) == Query(k) /\ k \in Key /\ pc' \in AwaitPc /\ AskedKey' = k

LEMMA EnterAsks ==
  ASSUME EnterQuery
  PROVE  Asks(<<Top.domain, "TXT">>) /\ pc' = "policy"
  <1>1. <<Top.domain, "TXT">> \in Key
    BY KeyTypes DEF EnterQuery
  <1>. QED
    BY <1>1 DEF EnterQuery, Ask, Asks, AwaitPc, AskedKey, frameVars, Top

LEMMA ExpandAsks ==
  ASSUME NEW next, Expand(next)
  PROVE  Asks(PtrKey) /\ pc' = "names"
  <1>1. PtrKey \in Key
    BY KeyTypes, EvaluatorAssumption
  <1>. QED
    BY <1>1 DEF Expand, Asks, AwaitPc, AskedKey, PtrKey

LEMMA AskPtrAsks ==
  ASSUME AskPtr
  PROVE  Asks(PtrKey) /\ pc' = "names"
  <1>1. PtrKey \in Key
    BY KeyTypes, EvaluatorAssumption
  <1>. QED
    BY <1>1 DEF AskPtr, Asks, AwaitPc, AskedKey, PtrKey

LEMMA AskTargetAsks ==
  ASSUME AskTarget, target \in Name
  PROVE  /\ Term.name = "a" => Asks(HostKey(target)) /\ pc' = "answer"
         /\ Term.name = "exists" => Asks(<<target, "A">>) /\ pc' = "answer"
         /\ Term.name = "mx" => Asks(<<target, "MX">>) /\ pc' = "exchanges"
         /\ UNCHANGED <<walkVars, exitVars, frameVars>>
  <1>0. HostKey(target) \in Key /\ <<target, "A">> \in Key
        /\ <<target, "MX">> \in Key
    BY KeyTypes
  <1>1. Term' = Term
    BY DEF AskTarget, Ask, frameVars, Term, Past, Policy, Top
  <1>2. target' = target
    BY DEF AskTarget, Ask, walkVars
  <1>3. CASE Term.name = "a"
    BY <1>0, <1>1, <1>2, <1>3
       DEF AskTarget, Ask, Asks, AwaitPc, AskedKey, HostKey
  <1>4. CASE Term.name = "exists"
    BY <1>0, <1>1, <1>2, <1>4 DEF AskTarget, Ask, Asks, AwaitPc, AskedKey
  <1>5. CASE Term.name = "mx"
    BY <1>0, <1>1, <1>2, <1>5 DEF AskTarget, Ask, Asks, AwaitPc, AskedKey
  <1>6. UNCHANGED <<walkVars, exitVars, frameVars>>
    BY DEF AskTarget, Ask
  <1>. QED
    BY <1>3, <1>4, <1>5, <1>6

LEMMA AskHostAsks ==
  ASSUME EvalInv, AskHost
  PROVE  Asks(HostKey(Head(names))) /\ pc' = "host"
  <1>1. HostKey(Head(names)) \in Key
    BY HostKeyInKey DEF AskHost, HostKey
  <1>. QED
    BY <1>1 DEF AskHost, Ask, Asks, AwaitPc, AskedKey, HostKey, walkVars

LEMMA ExpAskAsks ==
  ASSUME ExpAsk, target \in Name
  PROVE  Asks(<<target, "TXT">>) /\ pc' = "exp_reply"
  BY KeyTypes DEF ExpAsk, Ask, Asks, AwaitPc, AskedKey, walkVars

LEMMA AsksAwait ==
  ASSUME TypeOK, NEW k, Asks(k)
  PROVE  Await'
  <1>1. AskedKey' = k /\ k \in Key /\ Query(k)
    BY DEF Asks
  <1>2. status' = "await" => key' = k
    BY <1>1, QueryReply
  <1>3. status' = "ready" => cache'[k] # NoAnswer /\ reply' = cache'[k]
    BY <1>1 DEF Query, CacheHit, PastDeadline, OverBudget, Send
  <1>. QED
    BY <1>1, <1>2, <1>3 DEF Await, Asks, Known

LEMMA AwaitStep ==
  ASSUME Steady, EvalInv, VerdictInv, Await, [Next]_vars
  PROVE  Await'
  <1>0. TypeOK
    BY DEF EvalInv, TypeInv
  <1>1. ASSUME NEW k, Asks(k) PROVE Await'
    BY <1>0, <1>1, AsksAwait
  <1>2. ASSUME pc' \notin AwaitPc, status' # "await" PROVE Await'
    BY <1>2 DEF Await
  <1>3. ASSUME NEW t, ExpReturn(t) PROVE Await'
    BY <1>2, <1>3 DEF ExpReturn, LeaveExempt, AwaitPc
  <1>4. ASSUME NEW e, Raise(e), status # "await" PROVE Await'
    BY <1>2, <1>4 DEF Raise, AwaitPc, sessionVars
  <1>5. ASSUME NEW v, NEW e, Return(v, e), status # "await" PROVE Await'
    BY <1>2, <1>5 DEF Return, AwaitPc, sessionVars
  <1>6. ASSUME NoMatch, status # "await" PROVE Await'
    BY <1>2, <1>6 DEF NoMatch, AwaitPc, sessionVars
  <1>7. ASSUME NEW t, Parse(t), status # "await" PROVE Await'
    BY <1>2, <1>4, <1>7 DEF Parse, AwaitPc, sessionVars
  <1>8. CASE UNCHANGED vars
    <2>1. AskedKey' = AskedKey
      BY <1>8 DEF AskedKey, vars, evalVars, Term, Past, Policy, Top
    <2>2. Known(AskedKey, reply)' <=> Known(AskedKey, reply)
      BY <1>8, <2>1 DEF Known, vars, sessionVars, lookupVars
    <2>. QED
      BY <1>8, <2>1, <2>2 DEF Await, vars, evalVars, sessionVars, lookupVars
  <1>9. CASE Environment
    <2>0. pc' = pc
      BY <1>9 DEF Environment, evalVars
    <2>1. AskedKey' = AskedKey
      BY <1>9 DEF Environment, AskedKey, evalVars, Term, Past, Policy, Top
    <2>2. CASE Elapse
      <3>1. Known(AskedKey, reply)' <=> Known(AskedKey, reply)
        BY <2>1, <2>2 DEF Elapse, Known, lookupVars
      <3>. QED
        BY <2>0, <2>1, <2>2, <3>1 DEF Await, Elapse, lookupVars
    <2>3. CASE TimeLimit
      BY <2>0, <2>1, <2>3 DEF Await, TimeLimit
    <2>4. ASSUME NEW k \in Key, NEW a \in Reply[k], Answer(a)
          PROVE  Await'
      <3>1. key = AskedKey /\ key \in Key /\ a \in Reply[key] /\ pc \in AwaitPc
        BY <2>4 DEF Answer, Await, EvalInv, TypeInv, Awaiting
      <3>2. CASE a.rcode \in Definite
        <4>1. cache'[key] = a /\ reply' = a
          BY <1>0, <2>4, <3>1, <3>2 DEF Answer, Cacheable, TypeOK
        <4>2. a # NoAnswer
          BY <3>2 DEF NoAnswer, Definite
        <4>. QED
          BY <2>0, <2>1, <2>4, <3>1, <4>1, <4>2 DEF Answer, Await, Known
      <3>3. CASE a.rcode \notin Definite
        <4>1. AlwaysFails(key) /\ reply' = DnsFailure
          BY <2>4, <3>1, <3>3 DEF Steady, Answer
        <4>. QED
          BY <2>0, <2>1, <2>4, <3>1, <4>1 DEF Answer, Await, Known
      <3>. QED
        BY <3>2, <3>3
    <2>5. CASE LookupRaises
      <3>1. key = AskedKey /\ key \in Key /\ pc \in AwaitPc
        BY <2>5 DEF LookupRaises, Await, EvalInv, TypeInv, Awaiting
      <3>2. AlwaysFails(key) /\ reply' = DnsFailure
        BY <2>5, <3>1 DEF Steady, LookupRaises
      <3>. QED
        BY <2>0, <2>1, <2>5, <3>1, <3>2 DEF LookupRaises, Await, Known
    <2>. QED
      BY <1>9, <2>2, <2>3, <2>4, <2>5 DEF Environment
  <1>10. ASSUME NEW d \in Start, Begin(d) PROVE Await'
    BY <1>2, <1>10 DEF Begin, AwaitPc, sessionVars, EvalInv, Place
  <1>11. CASE EnterLate \/ TermLate
    BY <1>2, <1>11 DEF EnterLate, TermLate, CheckDeadline, AwaitPc, evalVars
  <1>12. CASE EnterMalformed \/ LocalTerm \/ Default
    BY <1>5, <1>6, <1>12 DEF EnterMalformed, LocalTerm, Default, Match
  <1>13. CASE EnterOverride
    BY <1>2, <1>13 DEF EnterOverride, AwaitPc, sessionVars
  <1>14. CASE FetchPolicy
    <2>1. status # "await"
      BY <1>14 DEF FetchPolicy
    <2>. QED
      BY <1>4, <1>5, <1>7, <1>14, <2>1 DEF FetchPolicy
  <1>15. CASE DnsTerm
    BY <1>2, <1>15 DEF DnsTerm, ConsumeTerm, AwaitPc
  <1>16. CASE Target \/ SkipHost \/ Recurse \/ PtrNames \/ MacroDone
    BY <1>2, <1>16 DEF Target, SkipHost, NextHost, Recurse, PtrNames,
       MacroDone, AwaitPc, sessionVars, EvalInv, EvalTypeOK
  <1>17. CASE Answered
    BY <1>4, <1>5, <1>6, <1>17 DEF Answered, Match
  <1>18. CASE Exchanges
    BY <1>2, <1>4, <1>18 DEF Exchanges, AwaitPc, sessionVars
  <1>19. CASE HostAnswered
    BY <1>2, <1>4, <1>5, <1>19 DEF HostAnswered, Match, NextHost, AwaitPc,
       sessionVars
  <1>20. CASE NamesSpent
    BY <1>6, <1>20 DEF NamesSpent
  <1>21. CASE EnterQuery \/ TargetMacro \/ AskPtr \/ AskHost
              \/ ExpTargetMacro \/ ExpTextMacro
    BY <1>1, <1>21, EnterAsks, ExpandAsks, AskPtrAsks, AskHostAsks
       DEF TargetMacro, ExpTargetMacro, ExpTextMacro
  <1>22. CASE AskTarget
    <2>1. CASE target \notin Name
      BY <1>6, <1>22, <2>1 DEF AskTarget
    <2>2. CASE target \in Name
      <3>1. Term.name \in {"a", "mx", "exists"}
        BY <1>22 DEF AskTarget
      <3>. QED
        BY <1>1, <1>22, <2>2, <3>1, AskTargetAsks
    <2>. QED
      BY <2>1, <2>2
  <1>23. CASE ReturnInclude \/ IncludeMatch \/ ReturnRedirect \/ ReturnTop
    <2>1. status = "ready"
      BY <1>23 DEF ReturnInclude, IncludeMatch, ReturnRedirect, ReturnTop,
                   VerdictInv, Settled
    <2>. QED
      BY <1>2, <1>5, <1>23, <2>1
         DEF ReturnInclude, IncludeMatch, ReturnRedirect, ReturnTop, Match,
             AwaitPc, sessionVars
  <1>24. CASE Unwind
    BY <1>4, <1>24 DEF Unwind, Raised
  <1>25. CASE ExpEnter \/ ExpTarget
    BY <1>2, <1>25 DEF ExpEnter, EnterExempt, ExpTarget, AwaitPc, sessionVars,
       VerdictInv, Settled
  <1>26. CASE ExpAsk
    BY <1>1, <1>3, <1>26, ExpAskAsks DEF ExpAsk
  <1>27. CASE ExpReply
    BY <1>2, <1>3, <1>27 DEF ExpReply, AwaitPc, sessionVars
  <1>28. CASE ExpText \/ ExpDone \/ ExpRaised
    BY <1>3, <1>28 DEF ExpText, ExpDone, ExpRaised
  <1>29. CASE Finish
    BY <1>2, <1>29 DEF Finish, AwaitPc, sessionVars, VerdictInv, Settled
  <1>. QED
    BY <1>8, <1>9, <1>10, <1>11, <1>12, <1>13, <1>14, <1>15, <1>16, <1>17,
       <1>18, <1>19, <1>20, <1>21, <1>22, <1>23, <1>24, <1>25, <1>26, <1>27,
       <1>28, <1>29 DEF Next, Step

-----------------------------------------------------------------------------
(***************************************************************************)
(* What is known while the verdict is open.                                *)
(***************************************************************************)
Opened(d, K) ==
  /\ Looked(K) /\ Form /\ Cached \subseteq K
  /\ status = "ready" => Asked \subseteq K
  /\ \A z : Agrees(z) => \E w : Run(z, d, K \cup Asked, w)

\* Innermost call, its term and what may still be spent.
Here ==
  /\ stack \in Seq(FrameType) /\ stack # <<>> /\ Stacked(stack)
  /\ Len(stack) \in Nat \ {0} /\ Len(stack) <= terms_used + 1
  /\ Top = stack[1] /\ Top \in FrameType
  /\ Policy = Top.policy /\ Policy \in PolicyType
  /\ Top.domain \in Domains /\ Top.idx \in Nat \ {0}
  /\ Domain = Top.domain
  /\ Term = TermAt(Policy, Top.idx) /\ Term = CallTerm(Top)
  /\ Term \in RefTermType
  /\ N = Fuel(stack, 1) /\ N \in Nat \ {0}
  /\ terms_used \in Nat /\ MaxTerms \in Nat /\ terms_used <= MaxTerms
  /\ Top.via = "top" <=> Len(stack) = 1
  /\ ~void_exempt

LEMMA OpenNested ==
  ASSUME VerdictInv, result = "pending", pc # "start"
  PROVE  Nested /\ ~Explaining
  BY DEF VerdictInv, Undecided, Nested, Explaining, MainPc, ExpPc, WalkPc

LEMMA TermIsAt ==
  ASSUME Policy \in PolicyType, Top.idx \in Nat \ {0}
  PROVE  Term = TermAt(Policy, Top.idx)
  <1>1. Len(Policy.terms) \in Nat /\ DOMAIN Policy.terms = 1..Len(Policy.terms)
    BY DEF PolicyType
  <1>2. Past <=> Top.idx \notin DOMAIN Policy.terms
    BY <1>1 DEF Past
  <1>. QED
    BY <1>2 DEF Term, TermAt

LEMMA OpenHere ==
  ASSUME NestInv, VerdictInv, result = "pending", pc # "start",
         ~terms_exceeded, Form
  PROVE  Here
  <1>1. Nested /\ ~Explaining
    BY OpenNested
  <1>2. /\ stack # <<>> /\ stack \in Seq(FrameType)
        /\ Top \in FrameType /\ Policy \in PolicyType
        /\ Top = stack[1] /\ Len(stack) \in Nat \ {0}
    BY <1>1, OpenStack, StackTop DEF NestInv
  <1>3. /\ terms_used \in Nat /\ MaxTerms \in Nat /\ terms_used <= MaxTerms
        /\ Len(stack) <= terms_used + 1
    BY SessionAssumption DEF NestInv, PaidNesting, LimitInv, FlagsTellBreach,
                             TypeInv, TypeOK
  <1>4. /\ Policy = Top.policy /\ Top.domain \in Domains
        /\ Top.idx \in Nat \ {0} /\ Domain = Top.domain
    BY <1>2 DEF Policy, FrameType, Domains, Domain
  <1>5. Term = TermAt(Policy, Top.idx) /\ Term = CallTerm(Top)
        /\ Term \in RefTermType
    BY <1>2, <1>4, TermIsAt, TermAtTyped DEF CallTerm
  <1>6. Stacked(stack)
    <2>1. Len(stack) <= MaxTerms + 1
      BY <1>2, <1>3
    <2>2. Callers(stack)
      BY DEF Form, Linked, Callers
    <2>. QED
      BY <1>2, <2>1, <2>2 DEF Stacked
  <1>7. N = Fuel(stack, 1) /\ N \in Nat \ {0}
    <2>1. 1 \in 1..Len(stack)
      BY <1>2
    <2>. QED
      BY <1>6, <2>1, StackedFacts DEF N
  <1>8. Top.via = "top" <=> Len(stack) = 1
    <2>1. 1 \in 1..Len(stack)
      BY <1>2
    <2>. QED
      BY <1>2, <2>1 DEF NestInv, EvalInv, Bottom
  <1>9. ~void_exempt
    BY <1>1 DEF VerdictInv, Exempts
  <1>. QED
    BY <1>2, <1>3, <1>4, <1>5, <1>6, <1>7, <1>8, <1>9 DEF Here

LEMMA ZoneIs ==
  ASSUME NEW z, Agrees(z)
  PROVE  IsZone(z)
  BY DEF Agrees

\* What was replied is what every zone that agrees says.
LEMMA ReplyIs ==
  ASSUME Await, pc \in AwaitPc, status = "ready", NEW z, Agrees(z)
  PROVE  z[AskedKey] = reply /\ AskedKey \in Key
  BY DEF Await, Known, Agrees

LEMMA AskedInKey ==
  ASSUME Await
  PROVE  Asked \subseteq Key
  BY DEF Await, Asked

-----------------------------------------------------------------------------
(***************************************************************************)
(* How a step of an open verdict can end.                                  *)
(***************************************************************************)
LEMMA SilentStep ==
  ASSUME UNCHANGED <<cache, void_used>>, NEW K
  PROVE  /\ Cached' = Cached /\ (Looked(K)' <=> Looked(K))
         /\ \A z : Agrees(z)' <=> Agrees(z)
  BY DEF Cached, Looked, Resolved, Voids, Agrees

\* It stays open, and asks for nothing.
LEMMA StepStays ==
  ASSUME NEW d, NEW K, Opened(d, K), status = "ready",
         UNCHANGED <<cache, void_used, status>>, result' = "pending", pc' \notin AwaitPc, Form',
         \A z : \A w : Agrees(z) /\ Run(z, d, K, w) => \E v : Run(z, d, K, v)'
  PROVE  Follows(d)'
  <1>1. Looked(K)' /\ (Cached \subseteq K)' /\ \A z : Agrees(z)' <=> Agrees(z)
    BY SilentStep DEF Opened
  <1>2. Asked' = {} /\ K \cup Asked = K /\ status' = "ready"
    BY DEF Asked, Opened
  <1>3. ASSUME NEW z, Agrees(z)'
        PROVE  Says(z, d, K)'
    <2>1. PICK w : Run(z, d, K, w)
      BY <1>1, <1>2, <1>3 DEF Opened
    <2>2. PICK v : Run(z, d, K, v)'
      BY <1>1, <1>3, <2>1
    <2>3. (K \cup Asked)' = K
      BY <1>2
    <2>. QED
      BY <2>2, <2>3 DEF Says
  <1>. QED
    BY <1>1, <1>2, <1>3 DEF Follows

LEMMA StepOpen ==
  ASSUME NEW d, NEW K, Opened(d, K), status = "ready", UNCHANGED sessionVars,
         result' = "pending", pc' \notin AwaitPc, Form',
         \A z : \A w : Agrees(z) /\ Run(z, d, K, w) => \E v : Run(z, d, K, v)'
  PROVE  Follows(d)'
  <1>1. UNCHANGED <<cache, void_used, status>>
    BY DEF sessionVars, lookupVars, limitVars
  <1>. QED
    BY <1>1, StepStays

\* It stays open, and asks for k.
LEMMA AskOpen ==
  ASSUME NEW d, NEW K, Opened(d, K), NEW k, Asks(k), ~expired', ~BudgetSpent',
         expired \in BOOLEAN, result' = "pending", Form',
         \A z : \A w : Agrees(z) /\ Run(z, d, K, w) =>
                         \E v : Run(z, d, K \cup {k}, v)'
  PROVE  Follows(d)'
  <1>1. /\ cache' = cache /\ void_used' = void_used
        /\ status' = "ready" => cache[k] # NoAnswer
        /\ status = "ready" /\ k \in Key
    BY DEF Asks, Query, CacheHit, PastDeadline, OverBudget, Send, limitVars,
           lookupVars, BudgetSpent, DeadlinePassed
  <1>2. Looked(K)' /\ (Cached \subseteq K)' /\ \A z : Agrees(z)' <=> Agrees(z)
    BY <1>1 DEF Opened, Cached, Looked, Resolved, Voids, Agrees
  <1>3. Asked' = {k} /\ K \cup Asked = K
    BY <1>1 DEF Asks, Asked, Opened
  <1>4. status' = "ready" => {k} \subseteq K
    BY <1>1 DEF Opened, Cached
  <1>5. ASSUME NEW z, Agrees(z)'
        PROVE  Says(z, d, K)'
    <2>1. PICK w : Run(z, d, K, w)
      BY <1>2, <1>3, <1>5 DEF Opened
    <2>2. PICK v : Run(z, d, K \cup {k}, v)'
      BY <1>2, <1>5, <2>1
    <2>3. (K \cup Asked)' = K \cup {k}
      BY <1>3
    <2>. QED
      BY <2>2, <2>3 DEF Says
  <1>. QED
    BY <1>2, <1>3, <1>4, <1>5 DEF Follows

\* An error decides it.
LEMMA ErrorEnds ==
  ASSUME NEW d, NEW K, Opened(d, K), Here, status = "ready",
         UNCHANGED sessionVars, result' \in {"permerror", "temperror"},
         stack' = <<>>,
         \A z : \A w : Agrees(z) /\ Run(z, d, K, w) =>
           \E q : \E v : /\ Stacked(q) /\ Chained(d, q, z, v)
                         /\ v.v = result' /\ v.terms = terms_used /\ v.keys = K
  PROVE  Follows(d)'
  <1>0. UNCHANGED <<cache, void_used>>
    BY DEF sessionVars, lookupVars, limitVars
  <1>1. Looked(K)' /\ \A z : Agrees(z)' <=> Agrees(z)
    BY <1>0, SilentStep DEF Opened
  <1>2. K \cup Asked = K
    BY DEF Opened
  <1>3. ASSUME NEW z, Agrees(z)'
        PROVE  Settles(z, d, K)'
    <2>1. PICK w : Run(z, d, K, w)
      BY <1>1, <1>2, <1>3 DEF Opened
    <2>2. PICK q, v : /\ Stacked(q) /\ Chained(d, q, z, v)
                      /\ v.v = result' /\ v.terms = terms_used /\ v.keys = K
      BY <1>1, <1>3, <2>1
    <2>3. IsZone(z)
      BY <1>1, <1>3, ZoneIs
    <2>4. RefEvaluate(z, d) = v
      BY <2>2, <2>3, ChainEnd
    <2>. QED
      BY <2>2, <2>4 DEF Settles, Here
  <1>4. \A z : Agrees(z)' => Says(z, d, K)'
    BY <1>3 DEF Says
  <1>. QED
    BY <1>1, <1>4 DEF Follows

\* A check_host() returns.
LEMMA ReturnOpen ==
  ASSUME NEW d, NEW K, Opened(d, K), Here, result = "pending",
         status = "ready", NEW v, NEW e, Return(v, e),
         pc # "enter" => ~TakesOverride,
         \A z : \A w : Agrees(z) /\ Run(z, d, K, w) =>
           /\ w.v = v /\ w.domain = Top.domain /\ w.terms = terms_used
           /\ w.keys = K /\ (Top.use_exp => w.exp = e)
  PROVE  Follows(d)'
  <1>1. /\ pc' = "return" /\ stack' = stack /\ Top' = Top
        /\ (TakesOverride' <=> TakesOverride) /\ result' = "pending"
        /\ terms_used' = terms_used /\ UNCHANGED sessionVars
        /\ ret' = v /\ exp' = e /\ exp_domain' = Top.domain
    BY DEF Return, frameVars, TakesOverride, Top, sessionVars, limitVars
  <1>2. Form'
    <2>1. Linked(stack')
      BY <1>1 DEF Opened, Form
    <2>2. Placed'
      BY <1>1 DEF Placed, DnsPc, WalkPc
    <2>3. (TakesOverride => Len(stack) = 1 /\ pc \in {"enter", "return"})'
      BY <1>1 DEF Opened, Form
    <2>. QED
      BY <2>1, <2>2, <2>3 DEF Form
  <1>3. ASSUME NEW z, NEW w, Agrees(z), Run(z, d, K, w)
        PROVE  Run(z, d, K, w)'
    <2>1. At(z, K, w)'
      BY <1>1, <1>3 DEF At, AtReturn, DnsPc, WalkPc
    <2>. QED
      BY <1>1, <1>3, <2>1 DEF Run
  <1>4. pc' \notin AwaitPc
    BY <1>1 DEF AwaitPc
  <1>. QED
    BY <1>1, <1>2, <1>3, <1>4, StepOpen

\* The record and the next term of the innermost call link nothing.
LEMMA LinkedKeep ==
  ASSUME NEW q, NEW r, Len(r) = Len(q), Len(q) \in Nat \ {0},
         \A i \in 2..Len(q) : r[i] = q[i], r[1].via = q[1].via,
         r[1].use_exp = q[1].use_exp, Linked(q)
  PROVE  Linked(r)
  <1>1. r[Len(q)].use_exp
    <2>1. CASE Len(q) = 1
      BY <2>1 DEF Linked
    <2>2. CASE Len(q) # 1
      <3>1. Len(q) \in 2..Len(q)
        BY <2>2
      <3>. QED
        BY <3>1 DEF Linked
    <2>. QED
      BY <2>1, <2>2
  <1>2. ASSUME NEW i \in 2..Len(q)
        PROVE  r[i] = q[i] /\ r[i - 1].via = q[i - 1].via
               /\ r[i - 1].use_exp = q[i - 1].use_exp
    <2>1. CASE i = 2
      <3>1. i - 1 = 1
        BY <2>1
      <3>. QED
        BY <3>1
    <2>2. CASE i # 2
      <3>1. Len(q) \in Nat /\ i \in 2..Len(q) /\ i # 2
        BY <2>2
      <3>2. i - 1 \in 2..Len(q)
        BY ONLY <3>1
      <3>. QED
        BY <3>2
    <2>. QED
      BY <2>1, <2>2
  <1>. QED
    BY <1>1, <1>2 DEF Linked

\* The code goes on with the next term.
LEMMA NextOpen ==
  ASSUME NEW d, NEW K, Opened(d, K), Here, result = "pending",
         status = "ready", NoMatch, pc \notin {"enter", "return"},
         Top.idx <= Len(Policy.terms),
         \A z : \A w : Agrees(z) /\ Run(z, d, K, w) =>
           w = RefFrom(z, N, Policy, Top.idx + 1, Top.domain, terms_used, K)
  PROVE  Follows(d)'
  <1>1. /\ stack' = [stack EXCEPT ![1].idx = @ + 1] /\ pc' = "term"
        /\ result' = "pending" /\ terms_used' = terms_used
        /\ UNCHANGED sessionVars
        /\ (TakesOverride' <=> TakesOverride)
    BY DEF NoMatch, exitVars, sessionVars, limitVars, TakesOverride
  <1>2. /\ Len(stack') = Len(stack) /\ stack' # <<>>
        /\ \A i \in 2..Len(stack) : stack'[i] = stack[i]
        /\ Top' = [Top EXCEPT !.idx = @ + 1]
    <2>1. stack \in Seq(FrameType) /\ stack # <<>> /\ Len(stack) \in Nat \ {0}
          /\ Top = stack[1] /\ Top \in FrameType
      BY DEF Here
    <2>2. stack[1].idx \in Nat
      BY <2>1 DEF FrameType
    <2>3. Len(stack') = Len(stack) /\ stack' # <<>>
      BY <1>1, <2>1
    <2>4. \A i \in 1..Len(stack) :
            stack'[i] = IF i = 1 THEN [stack[1] EXCEPT !.idx = @ + 1] ELSE stack[i]
      BY <1>1, <2>1
    <2>5. Head(stack') = stack'[1]
      BY <1>1, <2>1
    <2>6. Top' = [Top EXCEPT !.idx = @ + 1]
      BY <2>1, <2>4, <2>5 DEF Top
    <2>. QED
      BY <2>1, <2>3, <2>4, <2>6
  <1>3. /\ Policy' = Policy /\ Top'.idx = Top.idx + 1 /\ Top'.domain = Top.domain
        /\ Top'.use_exp = Top.use_exp /\ Top'.via = Top.via
    BY <1>2 DEF Policy, Here, FrameType
  <1>4. N' = N
    BY <1>2 DEF N, Fuel
  <1>5. Form'
    <2>0. Linked(stack) /\ Len(stack) \in Nat \ {0}
          /\ Top = stack[1] /\ Top' = stack'[1]
      <3>1. Top' = stack'[1]
        BY <1>2 DEF Top
      <3>. QED
        BY <3>1 DEF Opened, Form, Here
    <2>1. Linked(stack')
      <3>1. stack'[1].via = stack[1].via /\ stack'[1].use_exp = stack[1].use_exp
        BY <1>3, <2>0
      <3>. QED
        BY <1>2, <2>0, <3>1, LinkedKeep
    <2>2. Placed'
      <3>1. Top.idx + 1 <= Len(Policy.terms) + 1
        BY DEF Here, PolicyType
      <3>. QED
        BY <1>1, <1>3, <3>1 DEF Placed, DnsPc, WalkPc
    <2>3. ~TakesOverride'
      BY <1>1 DEF Opened, Form
    <2>. QED
      BY <2>1, <2>2, <2>3 DEF Form
  <1>6. ASSUME NEW z, NEW w, Agrees(z), Run(z, d, K, w)
        PROVE  Run(z, d, K, w)'
    <2>1. w = RefFrom(z, N, Policy, Top.idx + 1, Top.domain, terms_used, K)
      BY <1>6
    <2>2. AtFrom(z, K, w, terms_used)'
      BY <1>1, <1>3, <1>4, <2>1 DEF AtFrom
    <2>3. At(z, K, w)'
      BY <1>1, <2>2 DEF At, DnsPc, WalkPc
    <2>4. Chained(d, stack', z, w)
      BY <1>2, <1>6, ChainKeep DEF Run, Here
    <2>. QED
      BY <1>6, <2>3, <2>4 DEF Run
  <1>7. pc' \notin AwaitPc
    BY <1>1 DEF AwaitPc
  <1>. QED
    BY <1>1, <1>5, <1>6, <1>7, StepOpen

-----------------------------------------------------------------------------
(***************************************************************************)
(* A step of an open verdict, within the deadline and the budget.          *)
(***************************************************************************)
Situation(d, K) ==
  /\ NestInv /\ VerdictInv /\ Heard /\ LimitRaised /\ Await
  /\ d \in Start /\ Opened(d, K) /\ Here
  /\ result = "pending" /\ pc # "start" /\ ~terms_exceeded
  /\ ~expired' /\ ~BudgetSpent'

LEMMA Typed ==
  ASSUME NEW d, NEW K, Situation(d, K)
  PROVE  /\ TypeOK /\ EvalTypeOK /\ EvalInv /\ expired \in BOOLEAN
         /\ K \in SUBSET Key
         /\ \A z : Agrees(z) => IsZone(z)
  BY ZoneIs DEF Situation, NestInv, EvalInv, TypeInv, TypeOK, Opened, Looked

LEMMA TermRun ==
  ASSUME Here, Top.idx <= Len(Policy.terms) + 1, NEW z, IsZone(z),
         NEW K \in SUBSET Key, NEW terms \in Nat
  PROVE  RefFrom(z, N, Policy, Top.idx, Top.domain, terms, K) =
           RefTerm(z, Walks(z)[N - 1], Rest(z, N, Policy, Top.idx + 1), Term,
                   Args(Policy, Top.domain, terms, K))
  <1>1. Top.idx \in 1..(Len(Policy.terms) + 1)
    <2>1. Len(Policy.terms) \in Nat /\ Top.idx \in Nat \ {0}
      BY DEF Here, PolicyType
    <2>. QED
      BY <2>1
  <1>2. /\ Policy \in PolicyType /\ N \in Nat \ {0} /\ Top.domain \in Domains
        /\ Term = TermAt(Policy, Top.idx)
    BY DEF Here
  <1>. QED
    BY <1>1, <1>2, FromIs

LEMMA MatchOpen ==
  ASSUME NEW d, NEW K, Opened(d, K), Here, result = "pending",
         status = "ready", pc \notin {"enter", "return"}, Match,
         \A z : \A w : Agrees(z) /\ Run(z, d, K, w) =>
           w = Outcome(Term.qualifier, Policy.exp, Top.domain, terms_used, K)
  PROVE  Follows(d)'
  <1>1. ~TakesOverride
    BY DEF Opened, Form
  <1>2. ASSUME NEW z, NEW w, Agrees(z), Run(z, d, K, w)
        PROVE  /\ w.v = Term.qualifier /\ w.domain = Top.domain
               /\ w.terms = terms_used /\ w.keys = K
               /\ Top.use_exp => w.exp = Exp
    <2>1. w = Outcome(Term.qualifier, Policy.exp, Top.domain, terms_used, K)
      BY <1>2
    <2>. QED
      BY <2>1, OutcomeFields DEF Exp
  <1>. QED
    BY <1>1, <1>2, ReturnOpen DEF Match

\* The record of the policy has come.
LEMMA ParsedOpen ==
  ASSUME NEW d, NEW K, Opened(d, K), Here, status = "ready",
         result' = "pending", UNCHANGED sessionVars, NEW p \in PolicyType,
         stack' = [stack EXCEPT ![1].policy = p], pc' = "term",
         ~TakesOverride', Top.idx = 1,
         \A z : \A w : Agrees(z) /\ Run(z, d, K, w) =>
           w = RefFrom(z, N, p, 1, Top.domain, terms_used, K)
  PROVE  Follows(d)'
  <1>1. /\ Len(stack') = Len(stack)
        /\ \A i \in 2..Len(stack) : stack'[i] = stack[i]
        /\ Top' = stack'[1] /\ Top' = [Top EXCEPT !.policy = p]
    <2>1. stack \in Seq(FrameType) /\ stack # <<>> /\ Len(stack) \in Nat \ {0}
          /\ Top = stack[1] /\ Top \in FrameType
      BY DEF Here
    <2>2. Len(stack') = Len(stack) /\ stack' # <<>>
      BY <2>1
    <2>3. \A i \in 1..Len(stack) :
            stack'[i] = IF i = 1 THEN [stack[1] EXCEPT !.policy = p] ELSE stack[i]
      BY <2>1
    <2>4. Head(stack') = stack'[1]
      BY <2>1
    <2>. QED
      BY <2>1, <2>2, <2>3, <2>4 DEF Top
  <1>2. /\ Policy' = p /\ Top'.idx = 1 /\ Top'.domain = Top.domain
        /\ stack'[1].use_exp = stack[1].use_exp /\ stack'[1].via = stack[1].via
    BY <1>1 DEF Policy, Here, FrameType
  <1>3. N' = N /\ terms_used' = terms_used
    BY <1>1 DEF N, Fuel, sessionVars, limitVars
  <1>4. Form'
    <2>1. Linked(stack')
      <3>1. Linked(stack) /\ Len(stack) \in Nat \ {0}
        BY DEF Opened, Form, Here
      <3>. QED
        BY ONLY <1>1, <1>2, <3>1, LinkedKeep
    <2>2. Placed'
      <3>1. 1 <= Len(p.terms) + 1
        BY DEF PolicyType
      <3>. QED
        BY <1>2, <3>1 DEF Placed, DnsPc, WalkPc
    <2>. QED
      BY <2>1, <2>2 DEF Form
  <1>5. ASSUME NEW z, NEW w, Agrees(z), Run(z, d, K, w)
        PROVE  Run(z, d, K, w)'
    <2>1. w = RefFrom(z, N, p, 1, Top.domain, terms_used, K)
      BY <1>5
    <2>2. AtFrom(z, K, w, terms_used)'
      BY <1>2, <1>3, <2>1 DEF AtFrom
    <2>3. At(z, K, w)'
      BY <2>2 DEF At, DnsPc, WalkPc
    <2>4. Chained(d, stack', z, w)
      BY <1>1, <1>5, ChainKeep DEF Run, Here
    <2>. QED
      BY <1>5, <2>3, <2>4 DEF Run
  <1>6. pc' \notin AwaitPc
    BY DEF AwaitPc
  <1>. QED
    BY <1>4, <1>5, <1>6, StepOpen

-----------------------------------------------------------------------------
(***************************************************************************)
(* check_host() up to its terms.                                           *)
(***************************************************************************)
LEMMA CheckRun ==
  ASSUME NEW d, NEW K, Situation(d, K), pc \in {"enter", "policy"}, NEW z,
         Agrees(z), NEW w, Run(z, d, K, w)
  PROVE  LET o == IF TakesOverride THEN Override ELSE NoText
             f == RefFetch(z, Top.domain, o)
         IN  /\ w = RefCheck(z, Walks(z)[N], Top.domain, o, terms_used, K)
             /\ f.says = "policy" =>
                  w = RefFrom(z, N, f.policy, 1, Top.domain, terms_used,
                              K \cup f.keys)
             /\ f.says # "policy" =>
                  w = Outcome(f.says, NoArg, Top.domain, terms_used,
                              K \cup f.keys)
  <1> DEFINE o == IF TakesOverride THEN Override ELSE NoText
  <1>1. o \in Text \cup {NoText}
    BY EvaluatorAssumption
  <1>2. w = RefCheck(z, Walks(z)[N], Top.domain, o, terms_used, K)
    BY DEF Run, At, AtCheck
  <1>3. Top.domain \in Domains /\ N \in Nat /\ IsZone(z)
    BY Typed DEF Situation, Here
  <1> DEFINE f == RefFetch(z, Top.domain, o)
             n == N
             t == Top.domain
  <1>. HIDE DEF o, n, t
  <1>4. /\ f.says = "policy" =>
             RefCheck(z, Walks(z)[n], t, o, terms_used, K) =
               RefFrom(z, n, f.policy, 1, t, terms_used, K \cup f.keys)
        /\ f.says # "policy" =>
             RefCheck(z, Walks(z)[n], t, o, terms_used, K) =
               Outcome(f.says, NoArg, t, terms_used, K \cup f.keys)
    <2>1. n \in Nat /\ t \in Domains /\ IsZone(z) /\ f = RefFetch(z, t, o)
      BY <1>3 DEF n, t
    <2>. HIDE DEF f
    <2>. QED
      BY ONLY <1>1, <2>1, CheckIs
  <1>. QED
    BY <1>2, <1>4 DEF o, n, t

LEMMA EnterMalformedOpen ==
  ASSUME NEW d, NEW K, Situation(d, K), EnterMalformed
  PROVE  Follows(d)'
  <1>0. /\ Opened(d, K) /\ Here /\ result = "pending" /\ status = "ready"
        /\ Return("none", NoArg) /\ pc = "enter"
    BY DEF Situation, EnterMalformed
  <1>1. ASSUME NEW z, NEW w, Agrees(z), Run(z, d, K, w)
        PROVE  /\ w.v = "none" /\ w.domain = Top.domain
               /\ w.terms = terms_used /\ w.keys = K
               /\ Top.use_exp => w.exp = NoArg
    <2> DEFINE f == RefFetch(z, Top.domain,
                             IF TakesOverride THEN Override ELSE NoText)
    <2>1. f = Fetched("none", NoPolicy, {})
      BY DEF EnterMalformed, RefFetch
    <2>2. f.says = "none" /\ f.keys = {}
      BY <2>1 DEF Fetched
    <2>3. w = Outcome(f.says, NoArg, Top.domain, terms_used, K \cup f.keys)
      BY <1>0, <1>1, <2>2, CheckRun
    <2>. HIDE DEF f
    <2>. QED
      BY <2>2, <2>3, OutcomeFields
  <1>. QED
    BY <1>0, <1>1, ReturnOpen

\* Parsing a TXT string, for the code and for the reference.
LEMMA ParseIs ==
  ASSUME NEW t \in Text, NEW keys
  PROVE  LET f == RefParse(t, keys)
         IN  /\ f.keys = keys
             /\ PolicyOf[t] \in {NotSpf, BadSyntax} => f.says = "permerror"
             /\ PolicyOf[t] \notin {NotSpf, BadSyntax} =>
                  /\ f.says = "policy" /\ f.policy = PolicyOf[t]
                  /\ PolicyOf[t] \in PolicyType
  BY EvaluatorAssumption DEF RefParse, Fetched

\* An error that check_host() meets itself.
LEMMA ErrorOpen ==
  ASSUME NEW d, NEW K, Situation(d, K), status = "ready",
         UNCHANGED sessionVars, result' \in {"permerror", "temperror"},
         stack' = <<>>,
         \A z : \A w : Agrees(z) /\ Run(z, d, K, w) =>
           /\ w.v = result' /\ w.terms = terms_used /\ w.keys = K
  PROVE  Follows(d)'
  <1>1. ASSUME NEW z, NEW w, Agrees(z), Run(z, d, K, w)
        PROVE  /\ Stacked(stack) /\ Chained(d, stack, z, w)
               /\ w.v = result' /\ w.terms = terms_used /\ w.keys = K
    BY <1>1 DEF Situation, Here, Run
  <1>. QED
    BY <1>1, ErrorEnds DEF Situation

LEMMA EnterOverrideOpen ==
  ASSUME NEW d, NEW K, Situation(d, K), EnterOverride
  PROVE  Follows(d)'
  <1>0. /\ Opened(d, K) /\ Here /\ result = "pending" /\ status = "ready"
        /\ pc = "enter" /\ Top.idx = 1 /\ Override \in Text
        /\ TakesOverride /\ ~TakesOverride'
    BY EvaluatorAssumption
       DEF Situation, EnterOverride, TakesOverride, Opened, Form, Placed
  <1>1. ASSUME NEW z, NEW w, Agrees(z), Run(z, d, K, w)
        PROVE  /\ PolicyOf[Override] \in {NotSpf, BadSyntax} =>
                    w = Outcome("permerror", NoArg, Top.domain, terms_used, K)
               /\ PolicyOf[Override] \notin {NotSpf, BadSyntax} =>
                    w = RefFrom(z, N, PolicyOf[Override], 1, Top.domain,
                                terms_used, K)
    <2> DEFINE f == RefFetch(z, Top.domain,
                             IF TakesOverride THEN Override ELSE NoText)
    <2>1. f = RefParse(Override, {})
      BY <1>0 DEF EnterOverride, RefFetch, TakesOverride
    <2>2. /\ f.says = "policy" =>
               w = RefFrom(z, N, f.policy, 1, Top.domain, terms_used,
                           K \cup f.keys)
          /\ f.says # "policy" =>
               w = Outcome(f.says, NoArg, Top.domain, terms_used, K \cup f.keys)
      BY <1>0, <1>1, CheckRun
    <2>. HIDE DEF f
    <2>3. K \cup f.keys = K
      BY <1>0, <2>1, ParseIs
    <2>. QED
      BY <1>0, <2>1, <2>2, <2>3, ParseIs
  <1>2. CASE PolicyOf[Override] \in {NotSpf, BadSyntax}
    <2>1. ASSUME NEW z, NEW w, Agrees(z), Run(z, d, K, w)
          PROVE  w.v = "permerror" /\ w.terms = terms_used /\ w.keys = K
      <3>1. w = Outcome("permerror", NoArg, Top.domain, terms_used, K)
        BY <1>1, <1>2, <2>1
      <3>. QED
        BY <3>1, OutcomeFields
    <2>2. result' = "permerror" /\ stack' = <<>> /\ UNCHANGED sessionVars
      BY <1>2 DEF EnterOverride
    <2>. QED
      BY <1>0, <2>1, <2>2, ErrorOpen
  <1>3. CASE PolicyOf[Override] \notin {NotSpf, BadSyntax}
    <2>1. PolicyOf[Override] \in PolicyType
      BY <1>0, <1>3, ParseIs
    <2>2. /\ pc' = "term" /\ result' = "pending" /\ UNCHANGED sessionVars
          /\ stack' = [stack EXCEPT ![1].policy = PolicyOf[Override]]
      BY <1>0, <1>3 DEF EnterOverride
    <2>. QED
      BY <1>0, <1>1, <1>3, <2>1, <2>2, ParsedOpen
  <1>. QED
    BY <1>2, <1>3

LEMMA EnterQueryOpen ==
  ASSUME NEW d, NEW K, Situation(d, K), EnterQuery
  PROVE  Follows(d)'
  <1> PICK k : k = <<Top.domain, "TXT">>
    OBVIOUS
  <1>0. /\ pc = "enter" /\ Top.domain \in Name /\ ~TakesOverride
        /\ UNCHANGED <<walkVars, exitVars, frameVars>>
        /\ Asks(k) /\ pc' = "policy" /\ result' = "pending"
        /\ Top.idx = 1
    BY EnterAsks DEF EnterQuery, Ask, Situation, exitVars, Opened, Form, Placed
  <1>1. /\ stack' = stack /\ Top' = Top /\ N' = N
        /\ (TakesOverride' <=> TakesOverride) /\ terms_used' = terms_used
    BY <1>0, QueryFrame DEF frameVars, Top, N, TakesOverride, Asks, limitVars
  <1>2. Form'
    <2>1. Placed'
      BY <1>0, <1>1 DEF Placed, DnsPc, WalkPc
    <2>. QED
      BY <1>0, <1>1, <2>1 DEF Situation, Opened, Form
  <1>3. ASSUME NEW z, NEW w, Agrees(z), Run(z, d, K, w)
        PROVE  Run(z, d, K \cup {k}, w)'
    <2>1. w = RefCheck(z, Walks(z)[N], Top.domain, NoText, terms_used, K)
      BY <1>0, <1>3, CheckRun
    <2>2. w = RefCheck(z, Walks(z)[N], Top.domain, NoText, terms_used, K \cup {k})
      BY <1>0, <2>1, CheckGrows
    <2>3. AtCheck(z, K \cup {k}, w)'
      BY <1>0, <1>1, <2>2 DEF AtCheck
    <2>4. At(z, K \cup {k}, w)'
      BY <1>0, <2>3 DEF At, DnsPc, WalkPc
    <2>. QED
      BY <1>1, <1>3, <2>4 DEF Run
  <1>4. \A z : \A w : Agrees(z) /\ Run(z, d, K, w) =>
                        \E v : Run(z, d, K \cup {k}, v)'
    BY <1>3
  <1>5. Opened(d, K) /\ ~expired' /\ ~BudgetSpent' /\ expired \in BOOLEAN
    BY Typed DEF Situation
  <1>. QED
    BY <1>0, <1>2, <1>4, <1>5, AskOpen

LEMMA FetchPolicyOpen ==
  ASSUME NEW d, NEW K, Situation(d, K), FetchPolicy
  PROVE  Follows(d)'
  <1> DEFINE k == <<Top.domain, "TXT">>
             s == reply.answers
  <1>0. /\ Opened(d, K) /\ Here /\ result = "pending" /\ status = "ready"
        /\ pc = "policy" /\ Top.idx = 1 /\ Top.domain \in Name
        /\ ~TakesOverride /\ K \cup {k} = K
    <2>1. pc = "policy" /\ status = "ready"
      BY DEF FetchPolicy
    <2>2. Asked = {k}
      BY <2>1 DEF Asked, AskedKey, AwaitPc
    <2>. QED
      BY <2>1, <2>2 DEF Situation, Opened, Form, Placed
  <1>1. s \in Seq(Text)
    BY <1>0, Typed DEF EvalInv, ReplyFits, TextAwait
  <1> DEFINE F(f) ==
        /\ f.says = "policy" =>
             \A z : \A w : Agrees(z) /\ Run(z, d, K, w) =>
               w = RefFrom(z, N, f.policy, 1, Top.domain, terms_used, K)
        /\ f.says # "policy" =>
             \A z : \A w : Agrees(z) /\ Run(z, d, K, w) =>
               w = Outcome(f.says, NoArg, Top.domain, terms_used, K)
  <1>2. ASSUME NEW f, f.keys = {k},
               \A z : Agrees(z) => RefFetch(z, Top.domain, NoText) = f
        PROVE  F(f)
    BY <1>0, <1>2, CheckRun
  <1>3. ASSUME NEW z, Agrees(z)
        PROVE  /\ Failed(z, k) <=> reply = DnsFailure
               /\ Records(z, k) = s
    <2>1. z[k] = reply
      BY <1>0, <1>3, ReplyIs DEF Situation, AwaitPc, AskedKey
    <2>. QED
      BY <2>1 DEF Failed, Records
  <1>4. ASSUME NEW z, Agrees(z)
        PROVE  RefFetch(z, Top.domain, NoText) =
                 IF reply = DnsFailure THEN Fetched("temperror", NoPolicy, {k})
                 ELSE IF SpfAt = {} THEN Fetched("none", NoPolicy, {k})
                 ELSE IF \E i, j \in SpfAt : i # j
                        THEN Fetched("permerror", NoPolicy, {k})
                 ELSE RefParse(s[CHOOSE i \in SpfAt : TRUE], {k})
    <2>1. {i \in DOMAIN Records(z, k) : PolicyOf[Records(z, k)[i]] # NotSpf}
            = SpfAt
      BY <1>3, <1>4 DEF SpfAt
    <2>. QED
      BY <1>0, <1>3, <1>4, <2>1 DEF RefFetch
  <1>. HIDE DEF F
  <1>5. ASSUME NEW e \in {"temperror", "permerror"}, Raise(e),
               \A z : Agrees(z) =>
                 RefFetch(z, Top.domain, NoText).says = e
                 /\ RefFetch(z, Top.domain, NoText).keys = {k}
        PROVE  Follows(d)'
    <2>1. result' = e /\ stack' = <<>> /\ UNCHANGED sessionVars
      BY <1>5 DEF Raise
    <2>2. ASSUME NEW z, NEW w, Agrees(z), Run(z, d, K, w)
          PROVE  w.v = e /\ w.terms = terms_used /\ w.keys = K
      <3>1. w = Outcome(e, NoArg, Top.domain, terms_used, K)
        BY <1>0, <1>5, <2>2, CheckRun
      <3>. QED
        BY <3>1, OutcomeFields
    <2>. QED
      BY <1>0, <2>1, <2>2, ErrorOpen
  <1>6. CASE reply = DnsFailure /\ Raise("temperror")
    <2>1. ASSUME NEW z, Agrees(z)
          PROVE  RefFetch(z, Top.domain, NoText) =
                   Fetched("temperror", NoPolicy, {k})
      BY <1>4, <1>6, <2>1
    <2>. QED
      BY <1>5, <1>6, <2>1 DEF Fetched
  <1>7. CASE reply # DnsFailure /\ SpfAt = {} /\ Return("none", NoArg)
    <2>1. ASSUME NEW z, Agrees(z)
          PROVE  RefFetch(z, Top.domain, NoText) = Fetched("none", NoPolicy, {k})
      BY <1>4, <1>7, <2>1
    <2>2. F(Fetched("none", NoPolicy, {k}))
      BY <1>2, <2>1 DEF Fetched
    <2>3. ASSUME NEW z, NEW w, Agrees(z), Run(z, d, K, w)
          PROVE  /\ w.v = "none" /\ w.domain = Top.domain
                 /\ w.terms = terms_used /\ w.keys = K
                 /\ Top.use_exp => w.exp = NoArg
      <3>1. w = Outcome("none", NoArg, Top.domain, terms_used, K)
        BY <2>2, <2>3 DEF F, Fetched
      <3>. QED
        BY <3>1, OutcomeFields
    <2>. QED
      BY <1>0, <1>7, <2>3, ReturnOpen
  <1>8. ASSUME NEW i \in SpfAt, SpfAt = {i}, Parse(s[i])
        PROVE  Follows(d)'
    <2>0. s[i] \in Text /\ reply # DnsFailure
      <3>1. i \in DOMAIN s
        BY DEF SpfAt
      <3>2. s # <<>>
        BY <3>1, <1>1
      <3>. QED
        BY <1>1, <3>1, <3>2 DEF DnsFailure
    <2>1. ASSUME NEW z, Agrees(z)
          PROVE  RefFetch(z, Top.domain, NoText) = RefParse(s[i], {k})
      <3>1. (CHOOSE x \in SpfAt : TRUE) = i
        BY <1>8
      <3>2. SpfAt # {} /\ ~(\E x, y \in SpfAt : x # y)
        BY <1>8
      <3>. QED
        BY <1>4, <2>0, <2>1, <3>1, <3>2
    <2>2. CASE PolicyOf[s[i]] \in {NotSpf, BadSyntax}
      <3>1. Raise("permerror")
        BY <1>8, <2>2 DEF Parse
      <3>. QED
        BY <1>5, <2>0, <2>1, <2>2, <3>1, ParseIs
    <2>3. CASE PolicyOf[s[i]] \notin {NotSpf, BadSyntax}
      <3>1. /\ stack' = [stack EXCEPT ![1].policy = PolicyOf[s[i]]]
            /\ pc' = "term" /\ result' = "pending"
            /\ UNCHANGED sessionVars /\ ~TakesOverride'
        BY <1>0, <1>8, <2>3 DEF Parse, exitVars, TakesOverride
      <3>2. F(RefParse(s[i], {k}))
        BY <1>2, <2>0, <2>1, ParseIs
      <3>3. RefParse(s[i], {k}).says = "policy"
            /\ RefParse(s[i], {k}).policy = PolicyOf[s[i]]
            /\ PolicyOf[s[i]] \in PolicyType
        BY <2>0, <2>3, ParseIs
      <3>4. \A z : \A w : Agrees(z) /\ Run(z, d, K, w) =>
              w = RefFrom(z, N, PolicyOf[s[i]], 1, Top.domain, terms_used, K)
        BY <3>2, <3>3 DEF F
      <3>. QED
        BY <1>0, <3>1, <3>3, <3>4, ParsedOpen
    <2>. QED
      BY <2>2, <2>3
  <1>9. CASE (\E i, j \in SpfAt : i # j) /\ Raise("permerror")
    <2>0. reply # DnsFailure /\ SpfAt # {}
      <3>1. PICK i \in SpfAt : TRUE
        BY <1>9
      <3>2. i \in DOMAIN s
        BY <3>1 DEF SpfAt
      <3>3. s # <<>>
        BY <3>2, <1>1
      <3>. QED
        BY <1>9, <3>3 DEF DnsFailure
    <2>1. ASSUME NEW z, Agrees(z)
          PROVE  RefFetch(z, Top.domain, NoText) =
                   Fetched("permerror", NoPolicy, {k})
      BY <1>4, <1>9, <2>0, <2>1
    <2>. QED
      BY <1>5, <1>9, <2>1 DEF Fetched
  <1>. QED
    BY <1>6, <1>7, <1>8, <1>9 DEF FetchPolicy

-----------------------------------------------------------------------------
(***************************************************************************)
(* The loop over the terms.                                                *)
(***************************************************************************)
LEMMA PastIs ==
  ASSUME Here
  PROVE  /\ Past => Term.name = "redirect" /\ Term.arg = Policy.redirect
         /\ ~Past => Term \in TermType /\ Top.idx <= Len(Policy.terms)
         /\ Len(Policy.terms) \in Nat /\ Top.idx \in Nat \ {0}
  <1>1. Len(Policy.terms) \in Nat /\ Top.idx \in Nat \ {0}
        /\ Policy \in PolicyType /\ DOMAIN Policy.terms = 1..Len(Policy.terms)
    BY DEF Here, PolicyType
  <1>2. CASE Past
    BY <1>1, <1>2 DEF Term
  <1>3. CASE ~Past
    <2>1. Top.idx \in DOMAIN Policy.terms
      BY <1>1, <1>3 DEF Past
    <2>. QED
      <3>1. TermAt(Policy, Top.idx) \in TermType
        BY <1>1, <2>1, TermAtTyped
      <3>2. Top.idx <= Len(Policy.terms)
        BY <1>1, <1>3 DEF Past
      <3>. QED
        BY <1>1, <1>3, <3>1, <3>2 DEF Here
  <1>. QED
    BY <1>1, <1>2, <1>3

\* What a mechanism that looked up nothing but K says of the policy.
LEMMA MatchedIs ==
  ASSUME NEW z, NEW K, NEW m, NEW w,
         w = RefMatched(Rest(z, N, Policy, Top.idx + 1), m, Term, Policy,
                        Top.domain, terms_used, K)
  PROVE  /\ m.says = "hit" =>
              w = Outcome(Term.qualifier, Policy.exp, Top.domain, terms_used, K)
         /\ m.says = "miss" =>
              w = RefFrom(z, N, Policy, Top.idx + 1, Top.domain, terms_used, K)
         /\ m.says \notin {"hit", "miss"} =>
              w = Outcome(m.says, NoArg, Top.domain, terms_used, K)
  BY DEF RefMatched, RefFrom

\* Where a term begins.
LEMMA TermBegins ==
  ASSUME NEW d, NEW K, Situation(d, K), pc = "term", NEW z, Agrees(z), NEW w,
         Run(z, d, K, w)
  PROVE  w = RefTerm(z, Walks(z)[N - 1], Rest(z, N, Policy, Top.idx + 1), Term,
                     Args(Policy, Top.domain, terms_used, K))
  <1>1. w = RefFrom(z, N, Policy, Top.idx, Top.domain, terms_used, K)
    BY DEF Run, At, AtFrom
  <1>2. Top.idx <= Len(Policy.terms) + 1 /\ terms_used \in Nat /\ Here
    BY DEF Situation, Opened, Form, Placed, Here
  <1>3. IsZone(z) /\ K \in SUBSET Key
    BY Typed
  <1>. QED
    BY <1>1, <1>2, <1>3, TermRun

LEMMA LocalTermOpen ==
  ASSUME NEW d, NEW K, Situation(d, K), LocalTerm
  PROVE  Follows(d)'
  <1>0. /\ Opened(d, K) /\ Here /\ result = "pending" /\ status = "ready"
        /\ pc = "term"
    BY DEF Situation, LocalTerm
  <1>1. Term \in TermType /\ Top.idx <= Len(Policy.terms)
    BY <1>0, PastIs DEF LocalTerm
  <1>2. Term.name \in {"all", "ip4", "ip6"} /\ ~Spends(Term)
    BY <1>1 DEF LocalTerm, TermType, DnsMechanism, Spends
  <1>3. ASSUME NEW z, NEW w, Agrees(z), Run(z, d, K, w)
        PROVE  /\ Covers =>
                    w = Outcome(Term.qualifier, Policy.exp, Top.domain,
                                terms_used, K)
               /\ ~Covers =>
                    w = RefFrom(z, N, Policy, Top.idx + 1, Top.domain,
                                terms_used, K)
    <2> DEFINE m == RefMechanism(z, Term, Top.domain)
    <2>1. w = RefMatched(Rest(z, N, Policy, Top.idx + 1), m, Term, Policy,
                         Top.domain, terms_used, K)
      BY <1>0, <1>2, <1>3, TermBegins, TermLocal
    <2>2. m = RefLocal(Term)
      BY <1>2 DEF RefMechanism, DnsMechanism
    <2>3. /\ Covers => m.says = "hit"
          /\ ~Covers => m.says = "miss"
      BY <1>2, <2>2, EvaluatorAssumption DEF Covers, RefLocal, Out, Hit
    <2>. HIDE DEF m
    <2>. QED
      BY <2>1, <2>3, MatchedIs
  <1>4. CASE Covers
    BY <1>0, <1>3, <1>4, MatchOpen DEF LocalTerm
  <1>5. CASE ~Covers
    BY <1>0, <1>1, <1>3, <1>5, NextOpen DEF LocalTerm
  <1>. QED
    BY <1>4, <1>5

LEMMA DefaultOpen ==
  ASSUME NEW d, NEW K, Situation(d, K), Default
  PROVE  Follows(d)'
  <1>0. /\ Opened(d, K) /\ Here /\ result = "pending" /\ status = "ready"
        /\ pc = "term" /\ Return("neutral", Exp)
    BY DEF Situation, Default
  <1>1. Term.name = "redirect" /\ Term.arg = NoArg
    BY <1>0, PastIs DEF Default
  <1>2. ASSUME NEW z, NEW w, Agrees(z), Run(z, d, K, w)
        PROVE  /\ w.v = "neutral" /\ w.domain = Top.domain
               /\ w.terms = terms_used /\ w.keys = K
               /\ Top.use_exp => w.exp = Exp
    <2>1. w = Outcome("neutral", Policy.exp, Top.domain, terms_used, K)
      BY <1>0, <1>1, <1>2, TermBegins, TermDefault
    <2>. QED
      BY <2>1, OutcomeFields DEF Exp
  <1>3. ~TakesOverride
    BY <1>0 DEF Opened, Form
  <1>. QED
    BY <1>0, <1>2, <1>3, ReturnOpen

\* The term is counted: one too many ends the walk of the reference here.
LEMMA DnsTermOpen ==
  ASSUME NEW d, NEW K, Situation(d, K), DnsTerm
  PROVE  /\ ~terms_exceeded' => Follows(d)'
         /\ terms_exceeded' =>
              \A z : Agrees(z)' => RefEvaluate(z, d).terms > MaxTerms
  <1>0. /\ Opened(d, K) /\ Here /\ result = "pending" /\ status = "ready"
        /\ pc = "term" /\ pc' = "target" /\ result' = "pending"
        /\ stack' = stack /\ override_used' = override_used
        /\ terms_used' = terms_used + 1
        /\ (terms_exceeded' <=> OverTerms)
        /\ UNCHANGED <<cache, void_used>>
        /\ status' = IF TermRefused THEN "permerror" ELSE "ready"
    BY DEF Situation, DnsTerm, ConsumeTerm, exitVars, frameVars, lookupVars
  <1>1. Spends(Term) /\ (Term.name = "redirect" => Term.arg # NoArg)
    <2>1. CASE Past
      BY <1>0, <2>1, PastIs DEF DnsTerm, Spends
    <2>2. CASE ~Past
      BY <2>2 DEF DnsTerm, Spends, DnsMechanism
    <2>. QED
      BY <2>1, <2>2
  <1>2. terms_used \in Nat /\ MaxTerms \in Nat /\ terms_used <= MaxTerms
    BY <1>0 DEF Here
  <1>3. CASE OverTerms
    <2>1. ASSUME NEW z, Agrees(z)'
          PROVE  RefEvaluate(z, d).terms > MaxTerms
      <3>1. Agrees(z) /\ IsZone(z)
        BY <1>0, <2>1, SilentStep, Typed
      <3>2. PICK w : Run(z, d, K, w)
        <4>1. K \cup Asked = K
          BY <1>0 DEF Opened
        <4>. QED
          BY <1>0, <3>1, <4>1 DEF Opened
      <3>3. w = Outcome("permerror", NoArg, Top.domain, terms_used + 1, K)
        BY <1>0, <1>1, <1>2, <1>3, <3>1, <3>2, TermBegins, TermOver
           DEF OverTerms
      <3>4. RefEvaluate(z, d) = w
        BY <1>0, <3>1, <3>2, <3>3, ChainEnd, OutcomeFields DEF Run, Here
      <3>. QED
        BY <1>2, <1>3, <3>3, <3>4, OutcomeFields DEF OverTerms
    <2>. QED
      BY <1>0, <1>3, <2>1
  <1>4. CASE ~OverTerms
    <2>1. status' = "ready"
      BY <1>0, <1>4 DEF TermRefused
    <2>2. Top' = Top /\ Term' = Term /\ N' = N /\ Policy' = Policy
          /\ (TakesOverride' <=> TakesOverride)
      BY <1>0 DEF Top, Term, Past, Policy, N, TakesOverride
    <2>3. Form'
      <3>1. Placed'
        <4>1. terms_used' > 0
          BY <1>0, <1>2
        <4>. QED
          BY <1>0, <1>1, <2>2, <4>1
             DEF Placed, DnsPc, WalkPc, Opened, Form
      <3>. QED
        BY <1>0, <2>2, <3>1 DEF Opened, Form
    <2>4. ASSUME NEW z, NEW w, Agrees(z), Run(z, d, K, w)
          PROVE  Run(z, d, K, w)'
      <3>1. w = RefFrom(z, N, Policy, Top.idx, Top.domain, terms_used, K)
        BY <1>0, <2>4 DEF Run, At, AtFrom
      <3>2. terms_used' - 1 = terms_used
        BY <1>0, <1>2
      <3>3. AtFrom(z, K, w, terms_used - 1)'
        BY <2>2, <3>1, <3>2 DEF AtFrom
      <3>4. At(z, K, w)'
        BY <1>0, <3>3 DEF At, DnsPc, WalkPc
      <3>. QED
        BY <1>0, <2>4, <3>4 DEF Run
    <2>5. pc' \notin AwaitPc
      BY <1>0 DEF AwaitPc
    <2>6. Follows(d)'
      BY <1>0, <2>1, <2>3, <2>4, <2>5, StepStays
    <2>. QED
      BY <1>0, <1>4, <2>6
  <1>. QED
    BY <1>3, <1>4

-----------------------------------------------------------------------------
(***************************************************************************)
(* A term that costs one.                                                  *)
(***************************************************************************)
LEMMA FrameIs ==
  ASSUME UNCHANGED <<frameVars, exitVars>>
  PROVE  /\ Top' = Top /\ Term' = Term /\ Policy' = Policy /\ N' = N
         /\ Domain' = Domain /\ Past' = Past
         /\ (TakesOverride' <=> TakesOverride)
         /\ stack' = stack /\ result' = result
  BY DEF frameVars, exitVars, Top, Term, Past, Policy, N, Domain, TakesOverride

\* The term that is being evaluated, and what was spent before it.
LEMMA MechBegins ==
  ASSUME NEW d, NEW K, Situation(d, K), status = "ready", pc \in DnsPc,
         NEW z, Agrees(z), NEW w, Run(z, d, K, w)
  PROVE  /\ w = RefTerm(z, Walks(z)[N - 1], Rest(z, N, Policy, Top.idx + 1),
                        Term, Args(Policy, Top.domain, terms_used - 1, K))
         /\ terms_used - 1 \in Nat /\ (terms_used - 1) + 1 = terms_used
         /\ ~((terms_used - 1) + 1 > MaxTerms)
  <1>1. w = RefFrom(z, N, Policy, Top.idx, Top.domain, terms_used - 1, K)
    BY DEF Run, At, AtFrom
  <1>2. /\ terms_used \in Nat /\ MaxTerms \in Nat /\ terms_used <= MaxTerms
        /\ terms_used > 0 /\ Top.idx <= Len(Policy.terms) + 1 /\ Here
    BY DEF Situation, Opened, Form, Placed, Here
  <1>3. /\ terms_used - 1 \in Nat /\ (terms_used - 1) + 1 = terms_used
        /\ ~((terms_used - 1) + 1 > MaxTerms)
    BY <1>2
  <1>4. IsZone(z) /\ K \in SUBSET Key
    BY Typed
  <1>. QED
    BY <1>1, <1>2, <1>3, <1>4, TermRun

LEMMA DnsForm ==
  ASSUME NEW d, NEW K, Situation(d, K), pc \in DnsPc
  PROVE  /\ Spends(Term) /\ Top.idx <= Len(Policy.terms) + 1
         /\ Term.name = "redirect" => Term.arg # NoArg
         /\ terms_used > 0 /\ ~TakesOverride
  BY DEF Situation, Opened, Form, Placed, DnsPc

\* What the mechanism says, when it looked up nothing but K.
Gave(z, K, says) ==
  /\ Term.name \in DnsMechanism \ {"include"}
  /\ ArgKeys(z, Term.arg) \subseteq K
  /\ RefMechanism(z, Term, Top.domain).says = says
  /\ RefMechanism(z, Term, Top.domain).keys \subseteq K

LEMMA GaveIs ==
  ASSUME NEW d, NEW K, Situation(d, K), status = "ready", pc \in DnsPc,
         NEW z, Agrees(z), NEW w, Run(z, d, K, w), NEW says, Gave(z, K, says)
  PROVE  /\ says = "hit" =>
              w = Outcome(Term.qualifier, Policy.exp, Top.domain, terms_used, K)
         /\ says = "miss" =>
              w = RefFrom(z, N, Policy, Top.idx + 1, Top.domain, terms_used, K)
         /\ says \notin {"hit", "miss"} =>
              w = Outcome(says, NoArg, Top.domain, terms_used, K)
  <1> DEFINE m == RefMechanism(z, Term, Top.domain)
             all == K \cup ArgKeys(z, Term.arg) \cup m.keys
  <1>1. w = RefMatched(Rest(z, N, Policy, Top.idx + 1), m, Term, Policy,
                       Top.domain, (terms_used - 1) + 1, all)
    BY MechBegins, TermMechanism DEF Gave
  <1>2. all = K
    BY DEF Gave
  <1>3. w = RefMatched(Rest(z, N, Policy, Top.idx + 1), m, Term, Policy,
                       Top.domain, terms_used, K)
    <2>1. (terms_used - 1) + 1 = terms_used
      BY MechBegins
    <2>. QED
      BY <1>1, <1>2, <2>1
  <1>4. m.says = says
    BY DEF Gave
  <1>. HIDE DEF m
  <1>. QED
    BY <1>3, <1>4, MatchedIs

LEMMA HitOpen ==
  ASSUME NEW d, NEW K, Situation(d, K), status = "ready", pc \in DnsPc, Match,
         \A z : \A w : Agrees(z) /\ Run(z, d, K, w) => Gave(z, K, "hit")
  PROVE  Follows(d)'
  <1>1. \A z : \A w : Agrees(z) /\ Run(z, d, K, w) =>
          w = Outcome(Term.qualifier, Policy.exp, Top.domain, terms_used, K)
    BY GaveIs
  <1>2. pc \notin {"enter", "return"}
    BY DEF DnsPc
  <1>. QED
    BY <1>1, <1>2, MatchOpen DEF Situation

LEMMA MissOpen ==
  ASSUME NEW d, NEW K, Situation(d, K), status = "ready", pc \in DnsPc, NoMatch,
         Term.name \in DnsMechanism,
         \A z : \A w : Agrees(z) /\ Run(z, d, K, w) => Gave(z, K, "miss")
  PROVE  Follows(d)'
  <1>1. \A z : \A w : Agrees(z) /\ Run(z, d, K, w) =>
          w = RefFrom(z, N, Policy, Top.idx + 1, Top.domain, terms_used, K)
    BY GaveIs
  <1>2. pc \notin {"enter", "return"}
    BY DEF DnsPc
  <1>3. Top.idx <= Len(Policy.terms)
    BY PastIs DEF Situation, DnsMechanism
  <1>. QED
    BY <1>1, <1>2, <1>3, NextOpen DEF Situation

LEMMA FailOpen ==
  ASSUME NEW d, NEW K, Situation(d, K), status = "ready", pc \in DnsPc,
         NEW e \in {"permerror", "temperror"}, Raise(e),
         \A z : \A w : Agrees(z) /\ Run(z, d, K, w) => Gave(z, K, e)
  PROVE  Follows(d)'
  <1>1. ASSUME NEW z, NEW w, Agrees(z), Run(z, d, K, w)
        PROVE  w.v = e /\ w.terms = terms_used /\ w.keys = K
    <2>1. w = Outcome(e, NoArg, Top.domain, terms_used, K)
      BY <1>1, GaveIs
    <2>. QED
      BY <2>1, OutcomeFields
  <1>2. result' = e /\ stack' = <<>> /\ UNCHANGED sessionVars
    BY DEF Raise
  <1>. QED
    BY <1>1, <1>2, ErrorOpen

\* Another step of the same term, without a lookup.
LEMMA StayOpen ==
  ASSUME NEW d, NEW K, Situation(d, K), status = "ready", pc \in DnsPc,
         pc' \in {"apply", "each"}, UNCHANGED <<sessionVars, exitVars, frameVars>>,
         pc' = "each" => Walking',
         \A z : \A w : Agrees(z) /\ Run(z, d, K, w) =>
           /\ pc' = "apply" \/ work' # "pmacro" => AtTarget(z, K)'
           /\ pc' = "each" => AtWalk(z, K)'
  PROVE  Follows(d)'
  <1>1. /\ Top' = Top /\ Term' = Term /\ Policy' = Policy /\ N' = N
        /\ (TakesOverride' <=> TakesOverride)
        /\ stack' = stack /\ result' = result
    BY FrameIs
  <1>2. /\ terms_used' = terms_used /\ pc' \notin AwaitPc
        /\ pc' \in DnsPc /\ pc' # "host"
    BY DEF sessionVars, limitVars, AwaitPc, DnsPc
  <1>3. Form'
    <2>1. Placed'
      BY <1>1, <1>2, DnsForm DEF Placed, DnsPc, WalkPc
    <2>. QED
      BY <1>1, <2>1, DnsForm DEF Situation, Opened, Form
  <1>4. ASSUME NEW z, NEW w, Agrees(z), Run(z, d, K, w)
        PROVE  Run(z, d, K, w)'
    <2>1. AtFrom(z, K, w, terms_used - 1)
      BY <1>4 DEF Run, At
    <2>2. AtFrom(z, K, w, terms_used - 1)'
      BY <1>1, <1>2, <2>1 DEF AtFrom
    <2>3. /\ pc' = "apply" \/ work' # "pmacro" => AtTarget(z, K)'
          /\ pc' = "each" => AtWalk(z, K)'
      BY <1>4
    <2>4. At(z, K, w)'
      BY <2>2, <2>3 DEF At, DnsPc, WalkPc
    <2>. QED
      BY <1>1, <1>4, <2>4 DEF Run
  <1>. QED
    BY <1>1, <1>2, <1>3, <1>4, StepOpen DEF Situation

\* Another step of the same term, with a lookup that it needs.
LEMMA AskStays ==
  ASSUME NEW d, NEW K, Situation(d, K), pc \in DnsPc, NEW k, Asks(k),
         pc' \in {"answer", "exchanges", "names", "host"},
         UNCHANGED <<exitVars, frameVars>>,
         pc' = "answer" => Term.name \in {"a", "exists"} /\ target' \in Name,
         pc' = "exchanges" => Term.name = "mx" /\ target' \in Name,
         pc' \in WalkPc => Walking', pc' = "host" => ~OutsideTarget',
         \A z : \A w : Agrees(z) /\ Run(z, d, K, w) =>
           /\ \/ k \in ArgKeys(z, Term.arg)
              \/ Term.name \in DnsMechanism \ {"include"}
                   /\ k \in RefMechanism(z, Term, Top.domain).keys
           /\ pc' \in {"answer", "exchanges"} \/ work' # "pmacro" =>
                AtTarget(z, K \cup {k})'
           /\ pc' = "host" => AtWalk(z, K \cup {k})'
  PROVE  Follows(d)'
  <1>1. /\ Top' = Top /\ Term' = Term /\ Policy' = Policy /\ N' = N
        /\ (TakesOverride' <=> TakesOverride)
        /\ stack' = stack /\ result' = result
    BY FrameIs
  <1>2. /\ terms_used' = terms_used /\ pc' \in DnsPc /\ pc' # "each"
        /\ status = "ready" /\ k \in Key
    BY QueryFrame DEF Asks, Query, limitVars, DnsPc
  <1>3. Form'
    <2>1. Placed'
      BY <1>1, <1>2, DnsForm DEF Placed, DnsPc, WalkPc
    <2>. QED
      BY <1>1, <2>1, DnsForm DEF Situation, Opened, Form
  <1>4. ASSUME NEW z, NEW w, Agrees(z), Run(z, d, K, w)
        PROVE  Run(z, d, K \cup {k}, w)'
    <2>0. /\ pc' \in {"answer", "exchanges"} \/ work' # "pmacro" =>
               AtTarget(z, K \cup {k})'
          /\ pc' = "host" => AtWalk(z, K \cup {k})'
          /\ \/ k \in ArgKeys(z, Term.arg)
             \/ Term.name \in DnsMechanism \ {"include"}
                  /\ k \in RefMechanism(z, Term, Top.domain).keys
      BY <1>4
    <2> PICK inner, next, terms : /\ inner = Walks(z)[N - 1]
                                  /\ next = Rest(z, N, Policy, Top.idx + 1)
                                  /\ terms = terms_used - 1
      OBVIOUS
    <2>1. w = RefTerm(z, inner, next, Term, Args(Policy, Top.domain, terms, K))
          /\ ~(terms + 1 > MaxTerms) /\ terms \in Nat
      BY <1>2, <1>4, MechBegins
    <2>2. Spends(Term) /\ (Term.name = "redirect" => Term.arg # NoArg)
      BY DnsForm
    <2>3. w = RefTerm(z, inner, next, Term,
                      Args(Policy, Top.domain, terms, K \cup {k}))
      <3>1. \/ k \in ArgKeys(z, Term.arg)
            \/ Term.name \in DnsMechanism \ {"include"}
                 /\ k \in RefMechanism(z, Term, Top.domain).keys
        BY <2>0
      <3>. QED
        BY ONLY <2>1, <2>2, <3>1, TermGrows
    <2>4. w = RefFrom(z, N, Policy, Top.idx, Top.domain, terms_used - 1,
                      K \cup {k})
      <3>1. Here /\ Top.idx <= Len(Policy.terms) + 1 /\ IsZone(z)
            /\ K \cup {k} \in SUBSET Key
        BY <1>2, <1>4, DnsForm, Typed DEF Situation
      <3>. QED
        BY <2>1, <2>3, <3>1, TermRun
    <2>5. AtFrom(z, K \cup {k}, w, terms_used - 1)'
      BY <1>1, <1>2, <2>4 DEF AtFrom
    <2>6. At(z, K \cup {k}, w)'
      BY <2>0, <2>5 DEF At, DnsPc, WalkPc
    <2>. QED
      BY <1>1, <1>4, <2>6 DEF Run
  <1>5. \A z : \A w : Agrees(z) /\ Run(z, d, K, w) =>
                        \E v : Run(z, d, K \cup {k}, v)'
    BY <1>4
  <1>6. /\ Opened(d, K) /\ ~expired' /\ ~BudgetSpent' /\ expired \in BOOLEAN
        /\ result' = "pending"
    BY <1>1, Typed DEF Situation
  <1>. QED
    BY <1>3, <1>5, <1>6, AskOpen

-----------------------------------------------------------------------------
(***************************************************************************)
(* The target of a term, and its first lookup.                             *)
(***************************************************************************)
LEMMA TargetOpen ==
  ASSUME NEW d, NEW K, Situation(d, K), Target
  PROVE  Follows(d)'
  <1>0. /\ status = "ready" /\ pc = "target" /\ pc' = "apply"
        /\ UNCHANGED <<sessionVars, exitVars, frameVars>> /\ pc \in DnsPc
        /\ Term' = Term /\ Top' = Top
    BY FrameIs DEF Target, DnsPc
  <1>1. ASSUME NEW z, NEW w, Agrees(z), Run(z, d, K, w)
        PROVE  AtTarget(z, K)'
    <2>1. target' = RefArg(z, Term.arg, Top.domain)
      BY DEF Target, TargetName, RefArg, Implicit, PMacro
    <2>2. ArgKeys(z, Term.arg) = {}
      BY DEF Target, ArgKeys
    <2>. QED
      BY <1>0, <2>1, <2>2 DEF AtTarget
  <1>. QED
    BY <1>0, <1>1, StayOpen

LEMMA TargetMacroOpen ==
  ASSUME NEW d, NEW K, Situation(d, K), TargetMacro
  PROVE  Follows(d)'
  <1>0. /\ pc = "target" /\ pc' = "names" /\ work' = "pmacro"
        /\ UNCHANGED <<exitVars, frameVars>> /\ pc \in DnsPc
        /\ Term' = Term /\ Term.arg = PMacro /\ Asks(PtrKey)
    BY FrameIs, ExpandAsks DEF TargetMacro, Expand, DnsPc
  <1>1. Walking'
    BY <1>0 DEF Walking
  <1>2. \A z : PtrKey \in ArgKeys(z, Term.arg)
    BY <1>0 DEF ArgKeys
  <1>. QED
    BY <1>0, <1>1, <1>2, AskStays

\* What a mechanism is about its target.
LEMMA MechIs ==
  ASSUME NEW z, NEW K, AtTarget(z, K)
  PROVE  LET m == RefMechanism(z, Term, Top.domain)
         IN  /\ Term.name = "ptr" => m = RefPtr(z, target)
             /\ Term.name \in {"a", "mx", "exists"} /\ target \notin Name =>
                  m = Out("miss", {})
             /\ Term.name = "a" /\ target \in Name => m = RefA(z, Term, target)
             /\ Term.name = "exists" /\ target \in Name =>
                  m = RefExists(z, target)
             /\ Term.name = "mx" /\ target \in Name => m = RefMx(z, Term, target)
             /\ ArgKeys(z, Term.arg) \subseteq K
  BY DEF AtTarget, RefMechanism, DnsMechanism

LEMMA FirstKey ==
  ASSUME NEW z, NEW t, NEW n
  PROVE  /\ RefA(z, t, n).keys = {HostKey(n)}
         /\ RefExists(z, n).keys = {<<n, "A">>}
         /\ <<n, "MX">> \in RefMx(z, t, n).keys
         /\ PtrKey \in RefPtr(z, n).keys
  BY DEF RefA, RefExists, RefMx, RefPtr, Out

LEMMA AtTargetGrows ==
  ASSUME NEW z, NEW K, NEW L, K \subseteq L, AtTarget(z, K),
         target' = target, Term' = Term, Top' = Top
  PROVE  AtTarget(z, L)'
  BY DEF AtTarget

LEMMA AskTargetOpen ==
  ASSUME NEW d, NEW K, Situation(d, K), AskTarget
  PROVE  Follows(d)'
  <1>0. /\ status = "ready" /\ pc = "apply" /\ pc \in DnsPc
        /\ Term.name \in {"a", "mx", "exists"}
    BY DEF AskTarget, DnsPc
  <1>1. ASSUME NEW z, NEW w, Agrees(z), Run(z, d, K, w)
        PROVE  AtTarget(z, K)
    BY <1>0, <1>1 DEF Run, At
  <1>2. CASE target \notin Name
    <2>1. NoMatch /\ Term.name \in DnsMechanism
      BY <1>0, <1>2 DEF AskTarget, DnsMechanism
    <2>2. ASSUME NEW z, NEW w, Agrees(z), Run(z, d, K, w)
          PROVE  Gave(z, K, "miss")
      <3>1. AtTarget(z, K)
        BY <1>1, <2>2
      <3>2. RefMechanism(z, Term, Top.domain) = Out("miss", {})
            /\ ArgKeys(z, Term.arg) \subseteq K
        BY <1>0, <1>2, <3>1, MechIs
      <3>. QED
        BY <1>0, <3>2 DEF Gave, Out, DnsMechanism
    <2>. QED
      BY <1>0, <2>1, <2>2, MissOpen
  <1>3. CASE target \in Name
    <2> PICK k : k = CASE Term.name = "a" -> HostKey(target)
                       [] Term.name = "exists" -> <<target, "A">>
                       [] Term.name = "mx" -> <<target, "MX">>
      OBVIOUS
    <2>1. /\ Asks(k) /\ pc' = IF Term.name = "mx" THEN "exchanges" ELSE "answer"
          /\ UNCHANGED <<walkVars, exitVars, frameVars>>
      BY <1>0, <1>3, AskTargetAsks
    <2>2. Term' = Term /\ Top' = Top /\ target' = target
      BY <2>1, FrameIs DEF walkVars
    <2>3. ASSUME NEW z, NEW w, Agrees(z), Run(z, d, K, w)
          PROVE  /\ Term.name \in DnsMechanism \ {"include"}
                 /\ k \in RefMechanism(z, Term, Top.domain).keys
                 /\ AtTarget(z, K \cup {k})'
      <3>1. AtTarget(z, K)
        BY <1>1, <2>3
      <3>2. k \in RefMechanism(z, Term, Top.domain).keys
        BY <1>0, <1>3, <3>1, MechIs, FirstKey
      <3>. QED
        BY <1>0, <2>2, <3>1, <3>2, AtTargetGrows DEF DnsMechanism
    <2>. QED
      BY <1>0, <1>3, <2>1, <2>2, <2>3, AskStays DEF WalkPc
  <1>. QED
    BY <1>2, <1>3

LEMMA AskPtrOpen ==
  ASSUME NEW d, NEW K, Situation(d, K), AskPtr
  PROVE  Follows(d)'
  <1>0. /\ pc = "apply" /\ pc \in DnsPc /\ Term.name = "ptr"
        /\ Asks(PtrKey) /\ pc' = "names" /\ work' = "ptr"
        /\ UNCHANGED <<exitVars, frameVars>>
        /\ Term' = Term /\ Top' = Top /\ target' = target
    BY AskPtrAsks, FrameIs DEF AskPtr, DnsPc
  <1>1. Walking'
    BY <1>0 DEF Walking
  <1>2. ASSUME NEW z, NEW w, Agrees(z), Run(z, d, K, w)
        PROVE  /\ Term.name \in DnsMechanism \ {"include"}
               /\ PtrKey \in RefMechanism(z, Term, Top.domain).keys
               /\ AtTarget(z, K \cup {PtrKey})'
    <2>1. AtTarget(z, K)
      BY <1>0, <1>2 DEF Run, At
    <2>2. PtrKey \in RefMechanism(z, Term, Top.domain).keys
      BY <1>0, <2>1, MechIs, FirstKey
    <2>. QED
      BY <1>0, <2>1, <2>2, AtTargetGrows DEF DnsMechanism
  <1>. QED
    BY <1>0, <1>1, <1>2, AskStays

\* The lookup the coroutine is about was made, and its answer is that of the
\* zone.
LEMMA AskedOpen ==
  ASSUME NEW d, NEW K, Situation(d, K), status = "ready", pc \in AwaitPc
  PROVE  /\ AskedKey \in K
         /\ \A z : Agrees(z) => /\ z[AskedKey] = reply
                                /\ Failed(z, AskedKey) <=> reply = DnsFailure
                                /\ Records(z, AskedKey) = reply.answers
  <1>1. AskedKey \in K
    BY DEF Situation, Opened, Asked
  <1>2. \A z : Agrees(z) => z[AskedKey] = reply
    BY ReplyIs DEF Situation
  <1>. QED
    BY <1>1, <1>2 DEF Failed, Records

LEMMA AnsweredOpen ==
  ASSUME NEW d, NEW K, Situation(d, K), Answered
  PROVE  Follows(d)'
  <1>0. /\ status = "ready" /\ pc = "answer" /\ pc \in DnsPc /\ pc \in AwaitPc
        /\ Term.name \in {"a", "exists"} /\ target \in Name
        /\ Term.name \in DnsMechanism \ {"include"}
    BY DEF Answered, DnsPc, AwaitPc, Situation, Opened, Form, Placed,
           DnsMechanism
  <1> DEFINE k == AskedKey
             m(z) == RefMechanism(z, Term, Top.domain)
             hit == \/ Term.name = "a" /\ Hits
                    \/ Term.name = "exists" /\ reply.answers # <<>>
  <1>1. k = IF Term.name = "a" THEN HostKey(target) ELSE <<target, "A">>
    BY <1>0 DEF AskedKey, HostKey
  <1>2. ASSUME NEW z, NEW w, Agrees(z), Run(z, d, K, w)
        PROVE  /\ ArgKeys(z, Term.arg) \subseteq K
               /\ m(z).keys \subseteq K
               /\ m(z).says = IF reply = DnsFailure THEN "temperror"
                              ELSE IF hit THEN "hit" ELSE "miss"
    <2>1. AtTarget(z, K)
      BY <1>0, <1>2 DEF Run, At
    <2>2. /\ k \in K /\ (Failed(z, k) <=> reply = DnsFailure)
          /\ Records(z, k) = reply.answers
      BY <1>0, <1>2, AskedOpen
    <2>. HIDE DEF k
    <2>3. CASE Term.name = "a"
      <3>1. m(z) = RefA(z, Term, target)
        BY <1>0, <2>1, <2>3, MechIs
      <3>2. Hits <=> In(z, target, Term.hit)
        BY <1>1, <2>2, <2>3 DEF Hits, In
      <3>3. k = HostKey(target)
        BY <1>1, <2>3
      <3>. QED
        BY <2>1, <2>2, <2>3, <3>1, <3>2, <3>3, MechIs DEF RefA, Out, Hit
    <2>4. CASE Term.name = "exists"
      <3>1. m(z) = RefExists(z, target)
        BY <1>0, <2>1, <2>4, MechIs
      <3>3. k = <<target, "A">>
        BY <1>1, <2>4
      <3>. QED
        BY <2>1, <2>2, <2>4, <3>1, <3>3, MechIs DEF RefExists, Out, Hit
    <2>. QED
      BY <1>0, <2>3, <2>4
  <1>3. CASE reply = DnsFailure
    <2>1. Raise("temperror")
      BY <1>3 DEF Answered
    <2>2. \A z : \A w : Agrees(z) /\ Run(z, d, K, w) => Gave(z, K, "temperror")
      BY <1>0, <1>2, <1>3 DEF Gave
    <2>. QED
      BY <1>0, <2>1, <2>2, FailOpen
  <1>4. CASE reply # DnsFailure /\ hit
    <2>1. Match
      BY <1>4 DEF Answered
    <2>2. \A z : \A w : Agrees(z) /\ Run(z, d, K, w) => Gave(z, K, "hit")
      BY <1>0, <1>2, <1>4 DEF Gave
    <2>. QED
      BY <1>0, <2>1, <2>2, HitOpen
  <1>5. CASE reply # DnsFailure /\ ~hit
    <2>1. NoMatch
      BY <1>5 DEF Answered
    <2>2. \A z : \A w : Agrees(z) /\ Run(z, d, K, w) => Gave(z, K, "miss")
      BY <1>0, <1>2, <1>5 DEF Gave
    <2>. QED
      BY <1>0, <2>1, <2>2, MissOpen
  <1>. QED
    BY <1>3, <1>4, <1>5

LEMMA ExchangesOpen ==
  ASSUME NEW d, NEW K, Situation(d, K), Exchanges
  PROVE  Follows(d)'
  <1>0. /\ status = "ready" /\ pc = "exchanges" /\ pc \in DnsPc /\ pc \in AwaitPc
        /\ Term.name = "mx" /\ target \in Name
        /\ Term.name \in DnsMechanism \ {"include"}
    BY DEF Exchanges, DnsPc, AwaitPc, Situation, Opened, Form, Placed,
           DnsMechanism
  <1> DEFINE k == <<target, "MX">>
             m(z) == RefMechanism(z, Term, Top.domain)
             many == Len(reply.answers) > MaxMx
  <1>1. AskedKey = k
    BY <1>0 DEF AskedKey
  <1>2. ASSUME NEW z, NEW w, Agrees(z), Run(z, d, K, w)
        PROVE  /\ AtTarget(z, K) /\ k \in K
               /\ ArgKeys(z, Term.arg) \subseteq K
               /\ Failed(z, k) <=> reply = DnsFailure
               /\ Records(z, k) = reply.answers
               /\ m(z) = RefMx(z, Term, target)
    <2>1. AtTarget(z, K)
      BY <1>0, <1>2 DEF Run, At
    <2>. QED
      BY <1>0, <1>1, <1>2, <2>1, AskedOpen, MechIs
  <1>3. CASE reply = DnsFailure
    <2>1. Raise("temperror")
      BY <1>3 DEF Exchanges
    <2>2. ASSUME NEW z, NEW w, Agrees(z), Run(z, d, K, w)
          PROVE  Gave(z, K, "temperror")
      <3>1. m(z) = Out("temperror", {k})
        BY <1>2, <1>3, <2>2 DEF RefMx
      <3>. QED
        BY <1>0, <1>2, <2>2, <3>1 DEF Gave, Out
    <2>. QED
      BY <1>0, <2>1, <2>2, FailOpen
  <1>4. CASE reply # DnsFailure /\ many
    <2>1. Raise("permerror")
      BY <1>4 DEF Exchanges
    <2>2. ASSUME NEW z, NEW w, Agrees(z), Run(z, d, K, w)
          PROVE  Gave(z, K, "permerror")
      <3>1. m(z) = Out("permerror", {k})
        BY <1>2, <1>4, <2>2 DEF RefMx
      <3>. QED
        BY <1>0, <1>2, <2>2, <3>1 DEF Gave, Out
    <2>. QED
      BY <1>0, <2>1, <2>2, FailOpen
  <1>5. CASE reply # DnsFailure /\ ~many
    <2>1. /\ names' = reply.answers /\ work' = "mx" /\ pc' = "each"
          /\ UNCHANGED <<sessionVars, target, exitVars, frameVars>>
      BY <1>5 DEF Exchanges
    <2>2. Term' = Term /\ Top' = Top /\ target' = target
      BY <2>1, FrameIs
    <2>3. Walking'
      BY <1>0, <2>1, <2>2 DEF Walking
    <2>4. ASSUME NEW z, NEW w, Agrees(z), Run(z, d, K, w)
          PROVE  AtTarget(z, K)' /\ AtWalk(z, K)'
      <3>1. AtTarget(z, K)'
        BY <1>2, <2>2, <2>4, AtTargetGrows
      <3>2. AtMx(z, K)'
        <4> PICK s : s = Records(z, k)
          OBVIOUS
        <4>1. s \in Seq(Name) /\ ~Failed(z, k) /\ k \in K
              /\ s = reply.answers /\ Len(s) <= MaxMx
          <5>1. s \in Seq(Name)
            BY <1>0, <2>4, RecordsTyped, Typed
          <5>. QED
            BY <1>2, <1>5, <2>4, <5>1, EvaluatorAssumption
        <4>2. 0 \in 0..Len(s) /\ names' = Left(s, 0)
          BY <2>1, <4>1, LeftIs
        <4>3. MxMissed(z, Term, s, 0)
          BY DEF MxMissed
        <4>4. {k} \cup HostKeys(s, 1..0) \subseteq K
          BY <4>1 DEF HostKeys
        <4>. QED
          BY <2>2, <4>1, <4>2, <4>3, <4>4 DEF AtMx
      <3>. QED
        BY <2>1, <3>1, <3>2 DEF AtWalk
    <2>. QED
      BY <1>0, <2>1, <2>3, <2>4, StayOpen
  <1>. QED
    BY <1>3, <1>4, <1>5

-----------------------------------------------------------------------------
(***************************************************************************)
(* The walk of %{p}, for a term or for an explanation.                     *)
(***************************************************************************)
LEMMA MacroBegins ==
  ASSUME NEW z, IsZone(z), NEW K, PtrKey \in K, Domain \in Domains,
         Domain' = Domain, names' = PtrHosts(z), found' = Malformed
  PROVE  AtMacro(z, K)'
  <1> PICK s : s = PtrHosts(z)
    OBVIOUS
  <1>1. s \in Seq(Name)
    BY PtrHostsTyped
  <1>2. 0 \in 0..Len(s) /\ names' = Left(s, 0)
    BY <1>1, LeftIs
  <1>3. found' = Preferred(s, Confirmed(z) \cap (1..0), Domain)
    <2>1. Confirmed(z) \cap (1..0) = {}
      OBVIOUS
    <2>. QED
      BY <1>1, <2>1, PreferredTyped
  <1>4. {PtrKey} \cup HostKeys(s, 1..0) \subseteq K
    BY DEF HostKeys
  <1>. QED
    BY <1>2, <1>3, <1>4 DEF AtMacro

LEMMA HostKeysStep ==
  ASSUME NEW s, NEW j \in Nat
  PROVE  HostKeys(s, 1..(j + 1)) = HostKeys(s, 1..j) \cup {HostKey(s[j + 1])}
  <1>1. 1..(j + 1) = (1..j) \cup {j + 1}
    OBVIOUS
  <1>. QED
    BY <1>1 DEF HostKeys

LEMMA MacroNext ==
  ASSUME NEW z, IsZone(z), NEW K, AtMacro(z, K), names # <<>>,
         HostKey(Head(names)) \in K, Domain \in Domains, Domain' = Domain,
         names' = Tail(names),
         found' = IF In(z, Head(names), {"self"}) /\ Better(Head(names))
                    THEN Head(names) ELSE found
  PROVE  AtMacro(z, K)'
  <1> PICK s : s = PtrHosts(z)
    OBVIOUS
  <1>0. s \in Seq(Name) /\ Len(s) \in Nat
    BY PtrHostsTyped
  <1>1. PICK j \in 0..Len(s) :
          /\ names = Left(s, j)
          /\ found = Preferred(s, Confirmed(z) \cap (1..j), Domain)
          /\ {PtrKey} \cup HostKeys(s, 1..j) \subseteq K
    BY DEF AtMacro
  <1> DEFINE h == s[j + 1]
             ok == Confirmed(z) \cap (1..j)
  <1>2. /\ j + 1 \in 1..Len(s) /\ Head(names) = h
        /\ names' = Left(s, j + 1) /\ j # Len(s) /\ j \in Nat
    BY <1>0, <1>1, LeftIs
  <1>3. {PtrKey} \cup HostKeys(s, 1..(j + 1)) \subseteq K
    BY <1>1, <1>2, HostKeysStep
  <1>4. Confirmed(z) \cap (1..(j + 1)) =
          IF In(z, h, {"self"}) THEN ok \cup {j + 1} ELSE ok
    <2>1. j + 1 \in Confirmed(z) <=> In(z, h, {"self"})
      BY <1>0, <1>2 DEF Confirmed
    <2>2. 1..(j + 1) = (1..j) \cup {j + 1}
      BY <1>2
    <2>. QED
      BY <2>1, <2>2
  <1>5. found' = Preferred(s, Confirmed(z) \cap (1..(j + 1)), Domain)
    <2>1. CASE In(z, h, {"self"})
      <3>1. Preferred(s, ok \cup {j + 1}, Domain) =
              IF found = Malformed \/ RankIn(h, Domain) < RankIn(found, Domain)
                THEN h ELSE found
        <4>1. ok \in SUBSET (1..j)
          OBVIOUS
        <4>. HIDE DEF ok
        <4>2. found = Preferred(s, ok, Domain)
          BY <1>1 DEF ok
        <4>. QED
          BY <1>0, <1>2, <4>1, <4>2, PreferredStep
      <3>. QED
        BY <1>2, <1>4, <2>1, <3>1 DEF Better, Rank
    <2>2. CASE ~In(z, h, {"self"})
      BY <1>1, <1>2, <1>4, <2>2
    <2>. QED
      BY <2>1, <2>2
  <1>6. j + 1 \in 0..Len(s)
    BY <1>0, <1>2
  <1>. QED
    BY <1>2, <1>3, <1>5, <1>6 DEF AtMacro

LEMMA MacroEnds ==
  ASSUME NEW z, IsZone(z), NEW K, AtMacro(z, K), names = <<>>
  PROVE  found = RefP(z, Domain) /\ ArgKeys(z, PMacro) \subseteq K
  <1> PICK s : s = PtrHosts(z)
    OBVIOUS
  <1>0. s \in Seq(Name) /\ Len(s) \in Nat /\ DOMAIN s = 1..Len(s)
    BY PtrHostsTyped
  <1>1. PICK j \in 0..Len(s) :
          /\ names = Left(s, j)
          /\ found = Preferred(s, Confirmed(z) \cap (1..j), Domain)
          /\ {PtrKey} \cup HostKeys(s, 1..j) \subseteq K
    BY DEF AtMacro
  <1>2. j = Len(s)
    BY <1>0, <1>1, LeftIs
  <1>3. Confirmed(z) \cap (1..j) = Confirmed(z)
    BY <1>0, <1>2 DEF Confirmed
  <1>. QED
    BY <1>0, <1>1, <1>2, <1>3 DEF RefP, ArgKeys

\* The host it asks about is one that %{p} needs.
LEMMA MacroHost ==
  ASSUME NEW z, IsZone(z), NEW K, AtMacro(z, K), names # <<>>
  PROVE  HostKey(Head(names)) \in ArgKeys(z, PMacro)
  <1> PICK s : s = PtrHosts(z)
    OBVIOUS
  <1>0. s \in Seq(Name) /\ Len(s) \in Nat /\ DOMAIN s = 1..Len(s)
    BY PtrHostsTyped
  <1>1. PICK j \in 0..Len(s) : names = Left(s, j)
    BY DEF AtMacro
  <1>2. j + 1 \in 1..Len(s) /\ Head(names) = s[j + 1]
    BY <1>0, <1>1, LeftIs
  <1>. QED
    BY <1>0, <1>2 DEF ArgKeys, HostKeys

-----------------------------------------------------------------------------
(***************************************************************************)
(* The walks over names, for a term.                                       *)
(***************************************************************************)
LEMMA WalkForm ==
  ASSUME NEW d, NEW K, Situation(d, K), pc \in WalkPc
  PROVE  /\ Walking /\ pc \in DnsPc /\ work \in {"mx", "ptr", "pmacro"}
         /\ (pc = "host" => ~OutsideTarget /\ names # <<>>)
         /\ work = "pmacro" => resume = "apply"
         /\ Domain \in Domains /\ Domain = Top.domain
         /\ names \in Seq(Name) /\ found \in Domains
  <1>1. Nested
    BY OpenNested DEF Situation
  <1>2. EvalTypeOK /\ EvalInv
    BY Typed
  <1>3. Walking /\ (pc = "host" => ~OutsideTarget)
    BY DEF Situation, Opened, Form, Placed
  <1>4. pc = "host" => names # <<>>
    BY <1>2 DEF EvalInv, Place
  <1>5. Domain \in Domains /\ Domain = Top.domain
    BY DEF Situation, Here
  <1>6. /\ work \in {"mx", "ptr", "pmacro"}
        /\ names \in Seq(Name) /\ found \in Domains
    BY <1>2 DEF EvalTypeOK, Domains
  <1>7. pc \in DnsPc
    BY DEF DnsPc, WalkPc
  <1>8. work = "pmacro" => resume = "apply"
    BY <1>1 DEF Nested, MainPc, WalkPc
  <1>. QED
    BY <1>3, <1>4, <1>5, <1>6, <1>7, <1>8

LEMMA WalkTarget ==
  ASSUME NEW z, NEW d, NEW K, NEW w, Run(z, d, K, w), pc \in WalkPc
  PROVE  /\ work # "pmacro" => AtTarget(z, K)
         /\ pc \in {"each", "host"} => AtWalk(z, K)
  BY DEF Run, At

LEMMA AtWalkGrows ==
  ASSUME NEW z, NEW K, NEW L, K \subseteq L, AtWalk(z, K),
         work \in {"mx", "ptr", "pmacro"},
         UNCHANGED <<walkVars, exitVars, frameVars>>
  PROVE  AtWalk(z, L)'
  <1>1. /\ target' = target /\ names' = names /\ found' = found
        /\ work' = work /\ Term' = Term /\ Domain' = Domain
    BY FrameIs DEF walkVars
  <1>2. CASE work = "mx"
    <2>1. AtMx(z, K)
      BY <1>2 DEF AtWalk
    <2>2. AtMx(z, L)'
      BY <1>1, <2>1 DEF AtMx
    <2>. QED
      BY <1>1, <1>2, <2>2 DEF AtWalk
  <1>3. CASE work = "ptr"
    <2>1. AtPtr(z, K)
      BY <1>3 DEF AtWalk
    <2>2. AtPtr(z, L)'
      BY <1>1, <2>1 DEF AtPtr
    <2>. QED
      BY <1>1, <1>3, <2>2 DEF AtWalk
  <1>4. CASE work = "pmacro"
    <2>1. AtMacro(z, K)
      BY <1>4 DEF AtWalk
    <2>2. AtMacro(z, L)'
      BY <1>1, <2>1 DEF AtMacro
    <2>. QED
      BY <1>1, <1>4, <2>2 DEF AtWalk
  <1>. QED
    BY <1>2, <1>3, <1>4

LEMMA PtrNamesOpen ==
  ASSUME NEW d, NEW K, Situation(d, K), PtrNames
  PROVE  Follows(d)'
  <1>0. /\ status = "ready" /\ pc = "names" /\ pc \in WalkPc /\ pc \in DnsPc
        /\ pc \in AwaitPc /\ pc' = "each"
        /\ names' = First(MaxPtr, reply.answers) /\ found' = Malformed
        /\ UNCHANGED <<sessionVars, target, work, exitVars, frameVars>>
    BY DEF PtrNames, DnsPc, WalkPc, AwaitPc
  <1>f. Term' = Term /\ Top' = Top /\ Domain' = Domain
    BY <1>0, FrameIs
  <1>1. Walking'
    BY <1>0, <1>f, WalkForm DEF Walking
  <1>2. ASSUME NEW z, NEW w, Agrees(z), Run(z, d, K, w)
        PROVE  /\ work' # "pmacro" => AtTarget(z, K)'
               /\ AtWalk(z, K)'
    <2>1. work' # "pmacro" => AtTarget(z, K)'
      BY <1>0, <1>f, <1>2, WalkTarget, AtTargetGrows
    <2>2. PtrKey \in K /\ names' = PtrHosts(z) /\ IsZone(z)
      <3>1. AskedKey = PtrKey
        BY <1>0, <1>f DEF AskedKey
      <3>. QED
        BY <1>0, <1>f, <1>2, <3>1, AskedOpen, ZoneIs DEF PtrHosts
    <2>3. CASE work = "ptr"
      <3> PICK s : s = PtrHosts(z)
        OBVIOUS
      <3>1. s \in Seq(Name)
        BY <2>2, PtrHostsTyped
      <3>2. 0 \in 0..Len(s) /\ names' = Left(s, 0)
        BY <2>2, <3>1, LeftIs
      <3>3. PtrMissed(z, target, s, 0)
        BY DEF PtrMissed
      <3>4. {PtrKey} \cup
              HostKeys(s, {i \in 1..0 : <<s[i], target>> \in Below}) \subseteq K
        BY <2>2 DEF HostKeys
      <3>5. AtPtr(z, K)'
        BY <1>0, <1>f, <3>2, <3>3, <3>4 DEF AtPtr
      <3>. QED
        BY <1>0, <1>f, <2>1, <2>3, <3>5 DEF AtWalk
    <2>4. CASE work = "pmacro"
      <3>1. AtMacro(z, K)'
        BY <1>0, <1>f, <2>2, WalkForm, MacroBegins
      <3>. QED
        BY <1>0, <1>f, <2>1, <2>4, <3>1 DEF AtWalk
    <2>. QED
      BY <1>0, <1>f, <2>3, <2>4, WalkForm DEF Walking
  <1>. QED
    BY <1>0, <1>f, <1>1, <1>2, StayOpen

\* The next of the names of ptr.
LEMMA PtrNext ==
  ASSUME NEW z, IsZone(z), NEW K, AtPtr(z, K), names # <<>>,
         names' = Tail(names), target' = target,
         <<Head(names), target>> \in Below =>
           HostKey(Head(names)) \in K /\ ~In(z, Head(names), {"self"})
  PROVE  AtPtr(z, K)'
  <1> PICK s : s = PtrHosts(z)
    OBVIOUS
  <1>0. s \in Seq(Name) /\ Len(s) \in Nat
    BY PtrHostsTyped
  <1>1. PICK j \in 0..Len(s) :
          /\ names = Left(s, j)
          /\ PtrMissed(z, target, s, j)
          /\ {PtrKey} \cup HostKeys(s, {i \in 1..j : <<s[i], target>> \in Below})
               \subseteq K
    BY DEF AtPtr
  <1>2. /\ j + 1 \in 1..Len(s) /\ Head(names) = s[j + 1]
        /\ names' = Left(s, j + 1) /\ j \in Nat
    BY <1>0, <1>1, LeftIs
  <1>3. 1..(j + 1) = (1..j) \cup {j + 1} /\ j + 1 \in 0..Len(s)
    BY <1>0, <1>2
  <1>4. PtrMissed(z, target, s, j + 1)
    BY <1>1, <1>2, <1>3 DEF PtrMissed
  <1>5. {PtrKey} \cup
          HostKeys(s, {i \in 1..(j + 1) : <<s[i], target>> \in Below}) \subseteq K
    BY <1>1, <1>2, <1>3 DEF HostKeys
  <1>. QED
    BY <1>2, <1>3, <1>4, <1>5 DEF AtPtr

\* The next of the exchanges of mx.
LEMMA MxNext ==
  ASSUME NEW z, IsZone(z), NEW K, target \in Name, AtMx(z, K), names # <<>>,
         names' = Tail(names), target' = target, Term' = Term,
         HostKey(Head(names)) \in K, ~Failed(z, HostKey(Head(names))),
         ~In(z, Head(names), Term.hit)
  PROVE  AtMx(z, K)'
  <1> PICK s : s = Records(z, <<target, "MX">>)
    OBVIOUS
  <1>0. s \in Seq(Name) /\ Len(s) \in Nat
    <2>1. Records(z, <<target, "MX">>) \in Seq(Name)
      BY RecordsTyped
    <2>. QED
      BY <2>1
  <1>1. PICK j \in 0..Len(s) :
          /\ names = Left(s, j)
          /\ MxMissed(z, Term, s, j)
          /\ {<<target, "MX">>} \cup HostKeys(s, 1..j) \subseteq K
    BY DEF AtMx
  <1>2. /\ j + 1 \in 1..Len(s) /\ Head(names) = s[j + 1]
        /\ names' = Left(s, j + 1) /\ j \in Nat
    <2>1. names # <<>> /\ names' = Tail(names) /\ names = Left(s, j)
      BY <1>1
    <2>. QED
      BY ONLY <1>0, <2>1, LeftIs
  <1>3. 1..(j + 1) = (1..j) \cup {j + 1} /\ j + 1 \in 0..Len(s)
    BY <1>0, <1>2
  <1>4. MxMissed(z, Term, s, j + 1)
    BY <1>1, <1>2, <1>3 DEF MxMissed
  <1>5. {<<target, "MX">>} \cup HostKeys(s, 1..(j + 1)) \subseteq K
    BY <1>1, <1>2, HostKeysStep
  <1>6. ~Failed(z, <<target, "MX">>) /\ Len(s) <= MaxMx
    BY DEF AtMx
  <1>. QED
    BY <1>2, <1>3, <1>4, <1>5, <1>6 DEF AtMx

LEMMA SkipHostOpen ==
  ASSUME NEW d, NEW K, Situation(d, K), SkipHost
  PROVE  Follows(d)'
  <1>0. /\ status = "ready" /\ pc = "each" /\ pc \in WalkPc /\ pc \in DnsPc
        /\ pc' = "each" /\ work = "ptr" /\ names # <<>>
        /\ <<Head(names), target>> \notin Below /\ names' = Tail(names)
        /\ UNCHANGED <<sessionVars, target, work, exitVars, frameVars>>
    BY DEF SkipHost, NextHost, OutsideTarget, DnsPc, WalkPc
  <1>f. Term' = Term /\ Top' = Top
    BY <1>0, FrameIs
  <1>1. Walking'
    BY <1>0, <1>f, WalkForm DEF Walking
  <1>2. ASSUME NEW z, NEW w, Agrees(z), Run(z, d, K, w)
        PROVE  AtTarget(z, K)' /\ AtWalk(z, K)'
    <2>1. AtTarget(z, K) /\ AtPtr(z, K)
      BY <1>0, <1>f, <1>2, WalkTarget DEF AtWalk
    <2>2. AtPtr(z, K)'
      BY <1>0, <1>f, <1>2, <2>1, ZoneIs, PtrNext
    <2>. QED
      BY <1>0, <1>f, <2>1, <2>2, AtTargetGrows DEF AtWalk
  <1>. QED
    BY <1>0, <1>f, <1>1, <1>2, StayOpen

\* What mx says, in the middle of its exchanges.
LEMMA MxSays ==
  ASSUME NEW z, IsZone(z), NEW K, target \in Name, AtMx(z, K)
  PROVE  LET m == RefMx(z, Term, target)
             h == Head(names)
         IN  /\ names = <<>> => m.says = "miss" /\ m.keys \subseteq K
             /\ names # <<>> => HostKey(h) \in m.keys
             /\ names # <<>> /\ HostKey(h) \in K /\ Failed(z, HostKey(h)) =>
                  m.says = "temperror" /\ m.keys \subseteq K
             /\ names # <<>> /\ HostKey(h) \in K /\ In(z, h, Term.hit) =>
                  m.says = "hit" /\ m.keys \subseteq K
  <1> PICK s, t, n, m : /\ s = Records(z, <<target, "MX">>) /\ t = Term
                        /\ n = target /\ m = RefMx(z, Term, target)
    OBVIOUS
  <1>0. s \in Seq(Name) /\ Len(s) \in Nat
    <2>1. Records(z, <<target, "MX">>) \in Seq(Name)
      BY RecordsTyped
    <2>. QED
      BY <2>1
  <1>1. PICK j \in 0..Len(s) :
          /\ names = Left(s, j)
          /\ MxMissed(z, t, s, j)
          /\ {<<n, "MX">>} \cup HostKeys(s, 1..j) \subseteq K
    BY DEF AtMx
  <1>2. /\ ~Failed(z, <<n, "MX">>) /\ Len(s) <= MaxMx /\ n \in Name
        /\ s = Records(z, <<n, "MX">>) /\ m = RefMx(z, t, n)
    BY DEF AtMx
  <1>3. /\ j = Len(s) => m = Out("miss", {<<n, "MX">>} \cup HostKeys(s, 1..j))
        /\ j # Len(s) => HostKey(s[j + 1]) \in m.keys
        /\ j # Len(s) /\ Failed(z, HostKey(s[j + 1])) =>
             m = Out("temperror", {<<n, "MX">>} \cup HostKeys(s, 1..(j + 1)))
        /\ j # Len(s) /\ In(z, s[j + 1], t.hit) =>
             m = Out("hit", {<<n, "MX">>} \cup HostKeys(s, 1..(j + 1)))
    <2>1. /\ IsZone(z) /\ n \in Name
          /\ j \in 0..Len(Records(z, <<n, "MX">>))
          /\ MxMissed(z, t, Records(z, <<n, "MX">>), j)
          /\ ~Failed(z, <<n, "MX">>) /\ Len(Records(z, <<n, "MX">>)) <= MaxMx
      BY <1>1, <1>2
    <2>2. MxTells(z, t, n, Records(z, <<n, "MX">>), j, RefMx(z, t, n))
      BY ONLY <2>1, MxTried
    <2>. QED
      BY <1>2, <2>2 DEF MxTells
  <1>4. /\ names = <<>> <=> j = Len(s)
        /\ names # <<>> => Head(names) = s[j + 1]
    BY <1>0, <1>1, LeftIs
  <1>5. HostKeys(s, 1..(j + 1)) = HostKeys(s, 1..j) \cup {HostKey(s[j + 1])}
    BY <1>0, HostKeysStep
  <1>. QED
    BY <1>1, <1>3, <1>4, <1>5 DEF Out

\* What ptr says, in the middle of its names.
LEMMA PtrSays ==
  ASSUME NEW z, IsZone(z), NEW K, AtPtr(z, K)
  PROVE  LET m == RefPtr(z, target)
             h == Head(names)
         IN  /\ names = <<>> => m.says = "miss" /\ m.keys \subseteq K
             /\ names # <<>> /\ <<h, target>> \in Below => HostKey(h) \in m.keys
             /\ names # <<>> /\ <<h, target>> \in Below /\ HostKey(h) \in K
                  /\ In(z, h, {"self"}) => m.says = "hit" /\ m.keys \subseteq K
  <1> PICK s, n, m : /\ s = PtrHosts(z) /\ n = target /\ m = RefPtr(z, target)
    OBVIOUS
  <1> DEFINE under(k) == {i \in 1..k : <<s[i], n>> \in Below}
  <1>0. s \in Seq(Name) /\ Len(s) \in Nat
    BY PtrHostsTyped
  <1>1. PICK j \in 0..Len(s) :
          /\ names = Left(s, j)
          /\ PtrMissed(z, n, s, j)
          /\ {PtrKey} \cup HostKeys(s, under(j)) \subseteq K
    BY DEF AtPtr
  <1>2. m = RefPtr(z, n) /\ s = PtrHosts(z)
    OBVIOUS
  <1>3. /\ j = Len(s) => m = Out("miss", {PtrKey} \cup HostKeys(s, under(j)))
        /\ j # Len(s) /\ <<s[j + 1], n>> \in Below =>
             HostKey(s[j + 1]) \in m.keys
        /\ j # Len(s) /\ <<s[j + 1], n>> \in Below /\ In(z, s[j + 1], {"self"}) =>
             m = Out("hit", {PtrKey} \cup HostKeys(s, under(j + 1)))
    <2>1. /\ IsZone(z) /\ j \in 0..Len(PtrHosts(z))
          /\ PtrMissed(z, n, PtrHosts(z), j)
      BY <1>1, <1>2
    <2>2. LET a == PtrHosts(z)
              q == RefPtr(z, n)
              below(k) == {i \in 1..k : <<a[i], n>> \in Below}
          IN  /\ j = Len(a) =>
                   q = Out("miss", {PtrKey} \cup HostKeys(a, below(j)))
              /\ j # Len(a) /\ <<a[j + 1], n>> \in Below =>
                   HostKey(a[j + 1]) \in q.keys
              /\ /\ j # Len(a) /\ <<a[j + 1], n>> \in Below
                 /\ In(z, a[j + 1], {"self"})
                 => q = Out("hit", {PtrKey} \cup HostKeys(a, below(j + 1)))
      BY ONLY <2>1, PtrTried
    <2>. QED
      BY <1>2, <2>2
  <1>4. /\ names = <<>> <=> j = Len(s)
        /\ names # <<>> => Head(names) = s[j + 1]
    BY <1>0, <1>1, LeftIs
  <1>5. under(j + 1) \subseteq under(j) \cup {j + 1}
    BY <1>0
  <1>6. HostKeys(s, under(j + 1)) \subseteq
          HostKeys(s, under(j)) \cup {HostKey(s[j + 1])}
    BY <1>5 DEF HostKeys
  <1> PICK U, V : U = HostKeys(s, under(j)) /\ V = HostKeys(s, under(j + 1))
    OBVIOUS
  <1>7. /\ {PtrKey} \cup U \subseteq K /\ V \subseteq U \cup {HostKey(s[j + 1])}
        /\ j = Len(s) => m = Out("miss", {PtrKey} \cup U)
        /\ j # Len(s) /\ <<s[j + 1], n>> \in Below =>
             HostKey(s[j + 1]) \in m.keys
        /\ j # Len(s) /\ <<s[j + 1], n>> \in Below /\ In(z, s[j + 1], {"self"}) =>
             m = Out("hit", {PtrKey} \cup V)
    BY <1>1, <1>3, <1>6
  <1>8. m = RefPtr(z, target) /\ n = target
    OBVIOUS
  <1>. HIDE DEF under
  <1>. QED
    BY <1>4, <1>7, <1>8 DEF Out

\* Which walk it is, and what it needs.
LEMMA WalkNeeds ==
  ASSUME NEW d, NEW K, Situation(d, K), pc \in {"each", "host"}, NEW z,
         Agrees(z), NEW w, Run(z, d, K, w)
  PROVE  /\ work = "mx" =>
              /\ AtMx(z, K) /\ AtTarget(z, K)
              /\ Term.name \in DnsMechanism \ {"include"} /\ target \in Name
              /\ RefMechanism(z, Term, Top.domain) = RefMx(z, Term, target)
              /\ ArgKeys(z, Term.arg) \subseteq K
         /\ work = "ptr" =>
              /\ AtPtr(z, K) /\ AtTarget(z, K)
              /\ Term.name \in DnsMechanism \ {"include"}
              /\ RefMechanism(z, Term, Top.domain) = RefPtr(z, target)
              /\ ArgKeys(z, Term.arg) \subseteq K
         /\ work = "pmacro" => AtMacro(z, K) /\ Term.arg = PMacro
         /\ IsZone(z)
  <1>1. pc \in WalkPc
    BY DEF WalkPc
  <1>2. /\ work # "pmacro" => AtTarget(z, K)
        /\ AtWalk(z, K)
    BY <1>1, WalkTarget
  <1>3. Walking
    BY <1>1, WalkForm
  <1>4. CASE work = "mx"
    <2>1. AtMx(z, K) /\ AtTarget(z, K) /\ Term.name = "mx" /\ target \in Name
      BY <1>2, <1>3, <1>4 DEF AtWalk, Walking
    <2>. QED
      BY <1>4, <2>1, MechIs, ZoneIs DEF DnsMechanism
  <1>5. CASE work = "ptr"
    <2>1. AtPtr(z, K) /\ AtTarget(z, K) /\ Term.name = "ptr"
      BY <1>2, <1>3, <1>5 DEF AtWalk, Walking
    <2>. QED
      BY <1>5, <2>1, MechIs, ZoneIs DEF DnsMechanism
  <1>6. CASE work = "pmacro"
    BY <1>2, <1>3, <1>6, ZoneIs DEF AtWalk, Walking
  <1>. QED
    BY <1>4, <1>5, <1>6, ZoneIs

LEMMA AskHostOpen ==
  ASSUME NEW d, NEW K, Situation(d, K), AskHost
  PROVE  Follows(d)'
  <1> PICK k : k = HostKey(Head(names))
    OBVIOUS
  <1>0. /\ pc = "each" /\ pc \in WalkPc /\ pc \in DnsPc /\ names # <<>>
        /\ ~OutsideTarget /\ pc' = "host"
        /\ UNCHANGED <<walkVars, exitVars, frameVars>>
    BY DEF AskHost, Ask, WalkPc, DnsPc
  <1>1. Asks(k)
    BY Typed, AskHostAsks
  <1>2. Term' = Term /\ Top' = Top
    BY <1>0, FrameIs
  <1>3. /\ target' = target /\ names' = names /\ work' = work
        /\ ~OutsideTarget'
    BY <1>0 DEF walkVars, OutsideTarget
  <1>4. Walking'
    BY <1>0, <1>2, <1>3, WalkForm DEF Walking
  <1>5. work \in {"mx", "ptr", "pmacro"}
    BY <1>0, WalkForm
  <1>6. ASSUME NEW z, NEW w, Agrees(z), Run(z, d, K, w)
        PROVE  /\ \/ k \in ArgKeys(z, Term.arg)
                  \/ Term.name \in DnsMechanism \ {"include"}
                       /\ k \in RefMechanism(z, Term, Top.domain).keys
               /\ work' # "pmacro" => AtTarget(z, K \cup {k})'
               /\ AtWalk(z, K \cup {k})'
    <2>1. AtWalk(z, K)
      BY <1>0, <1>6, WalkTarget
    <2>2. AtWalk(z, K \cup {k})'
      BY <1>0, <1>5, <2>1, AtWalkGrows
    <2>3. work # "pmacro" => AtTarget(z, K)
      BY <1>0, <1>6, WalkTarget
    <2>4. work' # "pmacro" => AtTarget(z, K \cup {k})'
      BY <1>2, <1>3, <2>3, AtTargetGrows
    <2>5. CASE work = "mx"
      BY <1>0, <1>6, <2>2, <2>4, <2>5, WalkNeeds, MxSays
    <2>6. CASE work = "ptr"
      <3>1. <<Head(names), target>> \in Below
        BY <1>0, <2>6 DEF OutsideTarget
      <3>. QED
        BY <1>0, <1>6, <2>2, <2>4, <2>6, <3>1, WalkNeeds, PtrSays
    <2>7. CASE work = "pmacro"
      BY <1>0, <1>6, <2>2, <2>4, <2>7, WalkNeeds, MacroHost
    <2>. QED
      BY <1>5, <2>5, <2>6, <2>7
  <1>. QED
    BY <1>0, <1>1, <1>3, <1>4, <1>6, AskStays

LEMMA NamesSpentOpen ==
  ASSUME NEW d, NEW K, Situation(d, K), NamesSpent
  PROVE  Follows(d)'
  <1>0. /\ status = "ready" /\ pc = "each" /\ pc \in WalkPc /\ pc \in DnsPc
        /\ names = <<>> /\ work # "pmacro" /\ NoMatch
    BY DEF NamesSpent, WalkPc, DnsPc
  <1>1. work \in {"mx", "ptr"}
    BY <1>0, WalkForm
  <1>2. Term.name \in DnsMechanism
    BY <1>0, <1>1, WalkForm DEF Walking, DnsMechanism
  <1>3. ASSUME NEW z, NEW w, Agrees(z), Run(z, d, K, w)
        PROVE  Gave(z, K, "miss")
    <2>1. CASE work = "mx"
      BY <1>0, <1>3, <2>1, WalkNeeds, MxSays DEF Gave
    <2>2. CASE work = "ptr"
      BY <1>0, <1>3, <2>2, WalkNeeds, PtrSays DEF Gave
    <2>. QED
      BY <1>1, <2>1, <2>2
  <1>. QED
    BY <1>0, <1>2, <1>3, MissOpen

LEMMA MacroDoneOpen ==
  ASSUME NEW d, NEW K, Situation(d, K), MacroDone
  PROVE  Follows(d)'
  <1>0. /\ status = "ready" /\ pc = "each" /\ pc \in WalkPc /\ pc \in DnsPc
        /\ names = <<>> /\ work = "pmacro" /\ target' = found /\ pc' = resume
        /\ UNCHANGED <<sessionVars, names, found, work, resume, exitVars,
                       frameVars>>
    BY DEF MacroDone, WalkPc, DnsPc
  <1>1. pc' = "apply" /\ Domain = Top.domain
    BY <1>0, WalkForm
  <1>2. Term' = Term /\ Top' = Top
    BY <1>0, FrameIs
  <1>3. ASSUME NEW z, NEW w, Agrees(z), Run(z, d, K, w)
        PROVE  AtTarget(z, K)'
    <2>1. AtMacro(z, K) /\ Term.arg = PMacro /\ IsZone(z)
      BY <1>0, <1>3, WalkNeeds
    <2>2. found = RefP(z, Domain) /\ ArgKeys(z, PMacro) \subseteq K
      BY <1>0, <2>1, MacroEnds
    <2>. QED
      BY <1>0, <1>1, <1>2, <2>1, <2>2
         DEF AtTarget, RefArg, PMacro, Implicit
  <1>4. UNCHANGED <<sessionVars, exitVars, frameVars>>
    BY <1>0
  <1>. QED
    BY <1>0, <1>1, <1>3, <1>4, StayOpen

LEMMA HostAnsweredOpen ==
  ASSUME NEW d, NEW K, Situation(d, K), HostAnswered
  PROVE  Follows(d)'
  <1> PICK h : h = Head(names)
    OBVIOUS
  <1> DEFINE self == \E i \in DOMAIN reply.answers : reply.answers[i] = "self"
  <1>0. /\ status = "ready" /\ pc = "host" /\ pc \in WalkPc /\ pc \in DnsPc
        /\ pc \in AwaitPc
    BY DEF HostAnswered, WalkPc, DnsPc, AwaitPc
  <1>1. /\ names # <<>> /\ work \in {"mx", "ptr", "pmacro"}
        /\ work = "ptr" => <<h, target>> \in Below
        /\ Domain \in Domains
    BY <1>0, WalkForm DEF OutsideTarget
  <1>2. AskedKey = HostKey(h)
    BY <1>0 DEF AskedKey
  <1>3. ASSUME NEW z, Agrees(z)
        PROVE  /\ HostKey(h) \in K
               /\ Failed(z, HostKey(h)) <=> reply = DnsFailure
               /\ In(z, h, {"self"}) <=> self
               /\ In(z, h, Term.hit) <=> Hits
    <2>1. /\ HostKey(h) \in K
          /\ Failed(z, HostKey(h)) <=> reply = DnsFailure
          /\ Records(z, HostKey(h)) = reply.answers
      BY <1>0, <1>2, <1>3, AskedOpen
    <2>. QED
      BY <2>1 DEF In, Hits
  <1>. HIDE DEF self
  <1>4. CASE work = "mx" /\ reply = DnsFailure
    <2>1. Raise("temperror")
      BY <1>4 DEF HostAnswered
    <2>2. ASSUME NEW z, NEW w, Agrees(z), Run(z, d, K, w)
          PROVE  Gave(z, K, "temperror")
      BY <1>0, <1>1, <1>3, <1>4, <2>2, WalkNeeds, MxSays DEF Gave
    <2>. QED
      BY <1>0, <2>1, <2>2, FailOpen
  <1>5. CASE work = "mx" /\ reply # DnsFailure /\ Hits
    <2>1. Match
      BY <1>5 DEF HostAnswered
    <2>2. ASSUME NEW z, NEW w, Agrees(z), Run(z, d, K, w)
          PROVE  Gave(z, K, "hit")
      BY <1>0, <1>1, <1>3, <1>5, <2>2, WalkNeeds, MxSays DEF Gave
    <2>. QED
      BY <1>0, <2>1, <2>2, HitOpen
  <1>6. CASE work = "ptr" /\ self
    <2>1. Match
      BY <1>6 DEF HostAnswered, self
    <2>2. ASSUME NEW z, NEW w, Agrees(z), Run(z, d, K, w)
          PROVE  Gave(z, K, "hit")
      BY <1>0, <1>1, <1>3, <1>6, <2>2, WalkNeeds, PtrSays DEF Gave
    <2>. QED
      BY <1>0, <2>1, <2>2, HitOpen
  <1>7. ASSUME NextHost,
               work = "mx" => reply # DnsFailure /\ ~Hits,
               work = "ptr" => ~self,
               work = "pmacro" =>
                 found' = IF self /\ Better(h) THEN h ELSE found
        PROVE  Follows(d)'
    <2>1. /\ names' = Tail(names) /\ pc' = "each"
          /\ UNCHANGED <<sessionVars, target, work, exitVars, frameVars>>
      BY <1>7 DEF NextHost
    <2>2. Term' = Term /\ Top' = Top /\ Domain' = Domain
      BY <2>1, FrameIs
    <2>3. Walking'
      BY <1>0, <2>1, <2>2, WalkForm DEF Walking
    <2>4. ASSUME NEW z, NEW w, Agrees(z), Run(z, d, K, w)
          PROVE  /\ work' # "pmacro" => AtTarget(z, K)'
                 /\ AtWalk(z, K)'
      <3>1. work' # "pmacro" => AtTarget(z, K)'
        BY <1>0, <2>1, <2>2, <2>4, WalkTarget, AtTargetGrows
      <3>2. CASE work = "mx"
        <4>1. AtMx(z, K) /\ IsZone(z) /\ target \in Name
          BY <1>0, <2>4, <3>2, WalkNeeds
        <4>2. ~Failed(z, HostKey(h)) /\ ~In(z, h, Term.hit) /\ HostKey(h) \in K
          BY <1>3, <1>7, <2>4, <3>2
        <4>3. AtMx(z, K)'
          BY <1>1, <2>1, <2>2, <4>1, <4>2, MxNext
        <4>. QED
          BY <2>1, <3>1, <3>2, <4>3 DEF AtWalk
      <3>3. CASE work = "ptr"
        <4>1. AtPtr(z, K) /\ IsZone(z)
          BY <1>0, <2>4, <3>3, WalkNeeds
        <4>2. ~In(z, h, {"self"}) /\ HostKey(h) \in K
          BY <1>3, <1>7, <2>4, <3>3
        <4>3. AtPtr(z, K)'
          BY <1>1, <2>1, <4>1, <4>2, PtrNext
        <4>. QED
          BY <2>1, <3>1, <3>3, <4>3 DEF AtWalk
      <3>4. CASE work = "pmacro"
        <4>1. AtMacro(z, K) /\ IsZone(z)
          BY <1>0, <2>4, <3>4, WalkNeeds
        <4>2. found' = (IF In(z, h, {"self"}) /\ Better(h) THEN h ELSE found)
              /\ HostKey(h) \in K
          BY <1>3, <1>7, <2>4, <3>4
        <4>3. AtMacro(z, K)'
          BY <1>1, <2>1, <2>2, <4>1, <4>2, MacroNext
        <4>. QED
          BY <2>1, <3>1, <3>4, <4>3 DEF AtWalk
      <3>. QED
        BY <1>1, <3>2, <3>3, <3>4
    <2>. QED
      BY <1>0, <2>1, <2>3, <2>4, StayOpen
  <1>8. CASE work = "pmacro" /\ self
    <2>1. NextHost /\ found' = IF Better(h) THEN h ELSE found
      BY <1>8 DEF HostAnswered, self
    <2>. QED
      BY <1>7, <1>8, <2>1
  <1>9. CASE \/ work = "mx" /\ reply # DnsFailure /\ ~Hits
             \/ work \in {"ptr", "pmacro"} /\ ~self
    <2>1. NextHost /\ found' = found
      BY <1>9 DEF HostAnswered, self
    <2>. QED
      BY <1>7, <1>9, <2>1
  <1>. QED
    BY <1>1, <1>4, <1>5, <1>6, <1>8, <1>9

-----------------------------------------------------------------------------
(***************************************************************************)
(* Nested calls.                                                           *)
(***************************************************************************)
LEMMA LinkedPush ==
  ASSUME NEW q \in Seq(FrameType), q # <<>>, Linked(q), NEW f \in FrameType,
         Calling(q[1]), f.via = CallTerm(q[1]).name,
         f.via = "redirect" /\ q[1].use_exp => f.use_exp
  PROVE  Linked(<<f>> \o q)
  <1> DEFINE r == <<f>> \o q
             n == Len(q)
  <1>1. /\ n \in Nat \ {0} /\ Len(r) = n + 1 /\ r[1] = f
        /\ \A i \in 1..n : r[i + 1] = q[i]
    OBVIOUS
  <1>. HIDE DEF r
  <1>2. r[n + 1] = q[n]
    BY <1>1
  <1>3. ASSUME NEW i \in 2..(n + 1)
        PROVE  /\ Calling(r[i])
               /\ r[i - 1].via = CallTerm(r[i]).name
               /\ r[i - 1].via = "redirect" /\ r[i].use_exp => r[i - 1].use_exp
    <2>1. CASE i = 2
      <3>1. r[i] = q[1] /\ r[i - 1] = f
        <4>1. 1 \in 1..n /\ 1 + 1 = i /\ i - 1 = 1
          BY <1>1, <2>1
        <4>. QED
          BY <1>1, <4>1
      <3>. QED
        BY <3>1
    <2>2. CASE i # 2
      <3>0. n \in Nat /\ i \in 2..(n + 1) /\ i # 2
        BY <1>1, <2>2
      <3>1. /\ i - 1 \in 2..n /\ i - 1 \in 1..n /\ (i - 1) + 1 = i
            /\ (i - 1) - 1 \in 1..n /\ ((i - 1) - 1) + 1 = i - 1
        BY ONLY <3>0
      <3>2. r[i] = q[i - 1] /\ r[i - 1] = q[(i - 1) - 1]
        <4>1. r[(i - 1) + 1] = q[i - 1] /\ r[((i - 1) - 1) + 1] = q[(i - 1) - 1]
          BY <1>1, <3>1
        <4>. QED
          BY <3>1, <4>1
      <3>3. /\ Calling(q[i - 1])
            /\ q[(i - 1) - 1].via = CallTerm(q[i - 1]).name
            /\ q[(i - 1) - 1].via = "redirect" /\ q[i - 1].use_exp =>
                 q[(i - 1) - 1].use_exp
        BY <3>1 DEF Linked
      <3>. QED
        BY <3>2, <3>3
    <2>. QED
      BY <2>1, <2>2
  <1>. QED
    BY <1>1, <1>2, <1>3 DEF Linked, r

\* include and redirect= go on with what the nested call gives.
LEMMA NestsIn ==
  ASSUME NEW d, NEW K, Situation(d, K), status = "ready", pc = "apply",
         Term.name \in {"include", "redirect"}, NEW z, Agrees(z), NEW w,
         Run(z, d, K, w)
  PROVE  LET v == RefCheck(z, Walks(z)[N - 1], target, NoText, terms_used, K)
         IN  w = After(z, stack[1], N, v) /\ v \in Outcomes
  <1>0. pc \in DnsPc
    BY DEF DnsPc
  <1> PICK inner, next, terms : /\ inner = Walks(z)[N - 1]
                                /\ next = Rest(z, N, Policy, Top.idx + 1)
                                /\ terms = terms_used - 1
    OBVIOUS
  <1>1. /\ w = RefTerm(z, inner, next, Term, Args(Policy, Top.domain, terms, K))
        /\ ~(terms + 1 > MaxTerms) /\ terms \in Nat /\ terms + 1 = terms_used
    BY <1>0, MechBegins
  <1>2. /\ Spends(Term) /\ (Term.name = "redirect" => Term.arg # NoArg)
        /\ Term.arg \in Arg \cup {Implicit}
    <2>1. Spends(Term) /\ (Term.name = "redirect" => Term.arg # NoArg)
      BY <1>0, DnsForm
    <2>2. Term \in RefTermType
      BY DEF Situation, Here
    <2>. QED
      BY <2>1, <2>2, RefTermArg DEF DnsMechanism
  <1> DEFINE v == RefNested(z, inner, Term, Policy, Top.domain, terms, K)
  <1>3. v = RefCheck(z, inner, target, NoText, terms_used, K)
    <2>1. AtTarget(z, K)
      BY DEF Run, At
    <2>2. target = RefArg(z, Term.arg, Top.domain)
          /\ K \cup ArgKeys(z, Term.arg) = K
      BY <2>1 DEF AtTarget
    <2>. QED
      BY <1>1, <2>2 DEF RefNested
  <1>4. v \in Outcomes
    <2>1. IsZone(z) /\ K \in SUBSET Key /\ Top.domain \in Domains
          /\ N \in Nat \ {0}
      BY Typed DEF Situation, Here
    <2>2. inner \in [Nat -> Walkers]
      <3>1. N - 1 \in Nat
        BY <2>1
      <3>. QED
        BY <2>1, <3>1, WalksAre
    <2>. QED
      BY <1>1, <1>2, <2>1, <2>2, NestedTyped
  <1>5. w = After(z, stack[1], N, v)
    <2>0. /\ stack[1] = Top /\ CallTerm(Top) = Term /\ Policy = Top.policy
      BY DEF Situation, Here
    <2>1. CASE Term.name = "include"
      <3>1. w = RefIncluded(next, v, Term, Policy, Top.domain)
        BY <1>1, <2>1, TermInclude
      <3>. QED
        BY <2>0, <2>1, <3>1 DEF After
    <2>2. CASE Term.name = "redirect"
      <3>1. w = NoneIsError(v)
        BY <1>1, <1>2, <2>2, TermRedirect
      <3>. QED
        BY <2>0, <2>2, <3>1 DEF After
    <2>. QED
      BY <2>1, <2>2
  <1>. HIDE DEF v
  <1>. QED
    BY <1>3, <1>4, <1>5

LEMMA RecurseOpen ==
  ASSUME NEW d, NEW K, Situation(d, K), Recurse
  PROVE  Follows(d)'
  <1> PICK f : f = Frame(target, Term.name, Term.name = "redirect" /\ Top.use_exp)
    OBVIOUS
  <1>0. /\ status = "ready" /\ pc = "apply" /\ pc' = "enter"
        /\ Term.name \in {"include", "redirect"}
        /\ stack' = <<f>> \o stack /\ result' = "pending"
        /\ UNCHANGED sessionVars /\ terms_used' = terms_used
        /\ (TakesOverride' <=> TakesOverride) /\ pc \in DnsPc
    BY DEF Recurse, Situation, exitVars, sessionVars, limitVars, TakesOverride,
           DnsPc
  <1>1. /\ stack \in Seq(FrameType) /\ stack # <<>> /\ Len(stack) \in Nat \ {0}
        /\ Top = stack[1] /\ CallTerm(Top) = Term /\ Top.use_exp \in BOOLEAN
    BY DEF Situation, Here, FrameType
  <1>2. f \in FrameType /\ f.via = Term.name /\ f.domain = target /\ f.idx = 1
        /\ f.use_exp = (Term.name = "redirect" /\ Top.use_exp)
    <2>1. target \in Name \cup {Malformed}
      BY Typed DEF EvalTypeOK
    <2>. QED
      BY <1>0, <1>1, <2>1, NoPolicyTyped DEF Frame, FrameType
  <1>3. Len(stack') = Len(stack) + 1 /\ stack' # <<>> /\ Top' = f
    <2>1. Len(<<f>> \o stack) = Len(stack) + 1 /\ <<f>> \o stack # <<>>
          /\ Head(<<f>> \o stack) = f
      BY <1>1, <1>2
    <2>. QED
      BY <1>0, <2>1 DEF Top
  <1>4. N' = N - 1
    <2>1. MaxTerms \in Nat /\ Len(stack) \in Nat
      BY <1>1 DEF Situation, Here
    <2>2. MaxTerms + 1 + 1 - (Len(stack) + 1) = (MaxTerms + 1 + 1 - Len(stack)) - 1
      BY <2>1
    <2>. QED
      BY <1>3, <2>2 DEF N, Fuel
  <1>5. Form'
    <2>1. Linked(stack')
      <3>1. Linked(stack) /\ Calling(stack[1])
            /\ f.via = CallTerm(stack[1]).name
            /\ (f.via = "redirect" /\ stack[1].use_exp => f.use_exp)
        BY <1>0, <1>1, <1>2 DEF Situation, Opened, Form, Calling
      <3>. QED
        BY ONLY <1>0, <1>1, <1>2, <3>1, LinkedPush
    <2>2. Placed'
      BY <1>0, <1>2, <1>3 DEF Placed, DnsPc, WalkPc
    <2>3. ~TakesOverride'
      BY <1>0, DnsForm
    <2>. QED
      BY <2>1, <2>2, <2>3 DEF Form
  <1>6. ASSUME NEW z, NEW w, Agrees(z), Run(z, d, K, w)
        PROVE  \E v : Run(z, d, K, v)'
    <2> PICK v : v = RefCheck(z, Walks(z)[N - 1], target, NoText, terms_used, K)
      OBVIOUS
    <2>1. w = After(z, stack[1], N, v) /\ v \in Outcomes
      BY <1>0, <1>6, NestsIn
    <2>2. Chained(d, stack, z, w) /\ N = Fuel(stack, 1)
      BY <1>6 DEF Run, N
    <2>3. Chained(d, stack', z, v)
      <3>1. Chained(d, <<f>> \o stack, z, v)
        BY ONLY <1>1, <1>2, <2>1, <2>2, ChainPush
      <3>. QED
        BY <1>0, <3>1
    <2>4. AtCheck(z, K, v)'
      <3>1. ~TakesOverride'
        BY <1>0, DnsForm
      <3>. QED
        BY <1>0, <1>2, <1>3, <1>4, <3>1 DEF AtCheck
    <2>5. At(z, K, v)'
      BY <1>0, <2>4 DEF At, DnsPc, WalkPc
    <2>6. Run(z, d, K, v)'
      BY <2>1, <2>3, <2>5 DEF Run
    <2>. QED
      BY <2>6
  <1>7. pc' \notin AwaitPc
    BY <1>0 DEF AwaitPc
  <1>. QED
    BY <1>0, <1>5, <1>6, <1>7, StepOpen DEF Situation

LEMMA LinkedPop ==
  ASSUME NEW q, Stacked(q), Linked(q), Len(q) # 1
  PROVE  /\ Tail(q) \in Seq(FrameType) /\ Tail(q) # <<>>
         /\ Len(Tail(q)) \in Nat \ {0}
         /\ Tail(q)[1] = Head(Tail(q)) /\ Tail(q)[1] \in FrameType
         /\ Linked(Tail(q)) /\ Calling(Tail(q)[1])
         /\ q[1].via = CallTerm(Tail(q)[1]).name
         /\ q[1].via = "redirect" /\ Tail(q)[1].use_exp => q[1].use_exp
  <1> DEFINE r == Tail(q)
             n == Len(q)
  <1>1. /\ n \in Nat /\ n >= 2 /\ Len(r) = n - 1
        /\ \A i \in 1..(n - 1) : r[i] = q[i + 1]
        /\ r \in Seq(FrameType) /\ r # <<>>
    <2>1. q \in Seq(FrameType) /\ q # <<>> /\ n \in Nat /\ n # 0 /\ n # 1
      BY StackedFacts DEF Stacked
    <2>2. n >= 2
      <3>. HIDE DEF n
      <3>. QED
        BY <2>1
    <2>. QED
      BY <2>1, <2>2
  <1>2. r[1] = q[2] /\ r[1] = Head(r) /\ r[1] \in FrameType
        /\ Len(r) \in Nat \ {0}
    <2>1. Len(r) \in Nat \ {0} /\ 1 \in 1..(n - 1) /\ 1 + 1 = 2
      BY <1>1
    <2>. HIDE DEF r
    <2>. QED
      BY <1>1, <2>1
  <1>. HIDE DEF r
  <1>3. /\ Calling(q[2]) /\ q[1].via = CallTerm(q[2]).name
        /\ q[1].via = "redirect" /\ q[2].use_exp => q[1].use_exp
    <2>1. 2 \in 2..n /\ 2 - 1 = 1
      BY <1>1
    <2>. QED
      BY <2>1 DEF Linked
  <1>4. Linked(r)
    <2>1. r[n - 1].use_exp
      <3>1. n - 1 \in 1..(n - 1) /\ (n - 1) + 1 = n
        BY <1>1
      <3>2. r[n - 1] = q[n]
        BY <1>1, <3>1
      <3>. QED
        BY <3>2 DEF Linked
    <2>2. ASSUME NEW i \in 2..(n - 1)
          PROVE  /\ Calling(r[i])
                 /\ r[i - 1].via = CallTerm(r[i]).name
                 /\ r[i - 1].via = "redirect" /\ r[i].use_exp => r[i - 1].use_exp
      <3>0. n \in Nat /\ i \in 2..(n - 1)
        BY <1>1
      <3>1. /\ i \in 1..(n - 1) /\ i - 1 \in 1..(n - 1) /\ i + 1 \in 2..n
            /\ (i - 1) + 1 = (i + 1) - 1
        BY ONLY <3>0
      <3>2. r[i] = q[i + 1] /\ r[i - 1] = q[(i + 1) - 1]
        <4>1. r[i - 1] = q[(i - 1) + 1]
          BY <1>1, <3>1
        <4>. QED
          BY <1>1, <3>1, <4>1
      <3>. QED
        BY <3>1, <3>2 DEF Linked
    <2>. QED
      BY <1>1, <2>1, <2>2 DEF Linked
  <1>. QED
    BY <1>1, <1>2, <1>3, <1>4 DEF r

\* A nested call returns to its caller.
LEMMA Popped ==
  ASSUME NEW d, NEW K, Situation(d, K), pc = "return", Top.via # "top",
         NEW q, q = Tail(stack)
  PROVE  /\ status = "ready" /\ ~TakesOverride
         /\ q \in Seq(FrameType) /\ q # <<>> /\ Len(q) \in Nat \ {0}
         /\ q[1] = Head(q) /\ q[1] \in FrameType
         /\ Linked(q) /\ Calling(q[1]) /\ Top.via = CallTerm(q[1]).name
         /\ Top.via = "redirect" /\ q[1].use_exp => Top.use_exp
         /\ Fuel(q, 1) \in Nat
  <1>1. /\ status = "ready" /\ Stacked(stack) /\ Linked(stack) /\ Len(stack) # 1
        /\ Top = stack[1] /\ (TakesOverride => Len(stack) = 1)
    BY DEF Situation, VerdictInv, Settled, Here, Opened, Form
  <1>2. Fuel(q, 1) \in Nat
    <2>1. Len(q) = Len(stack) - 1 /\ Len(stack) \in Nat
          /\ Len(stack) <= MaxTerms + 1 /\ MaxTerms \in Nat
      BY <1>1, StackedFacts DEF Stacked
    <2>. QED
      BY <2>1 DEF Fuel
  <1>. QED
    BY <1>1, <1>2, LinkedPop

LEMMA PoppedRun ==
  ASSUME NEW d, NEW K, Situation(d, K), pc = "return", Top.via # "top",
         NEW q, q = Tail(stack), NEW z, Agrees(z), NEW w, Run(z, d, K, w)
  PROVE  /\ AtReturn(w, K) /\ Stacked(q) /\ w \in Outcomes
         /\ After(z, q[1], Fuel(q, 1), w) \in Outcomes
         /\ Chained(d, q, z, After(z, q[1], Fuel(q, 1), w))
  <1>1. /\ Stacked(stack) /\ Len(stack) # 1 /\ Chained(d, stack, z, w)
        /\ AtReturn(w, K) /\ w \in Outcomes
    BY DEF Situation, Here, Run, At
  <1>2. IsZone(z)
    BY Typed
  <1>3. /\ Stacked(Tail(stack)) /\ Tail(stack)[1] = stack[2]
        /\ Fuel(stack, 2) = Fuel(Tail(stack), 1)
        /\ After(z, stack[2], Fuel(stack, 2), w) \in Outcomes
        /\ Chained(d, Tail(stack), z, After(z, stack[2], Fuel(stack, 2), w))
    BY <1>1, <1>2, ChainPop
  <1>. QED
    BY <1>1, <1>3

\* A nested call without a policy is an error of its caller.
LEMMA NoneEnds ==
  ASSUME NEW d, NEW K, Situation(d, K), pc = "return", Top.via # "top",
         ret = "none", UNCHANGED sessionVars, result' = "permerror",
         stack' = <<>>
  PROVE  Follows(d)'
  <1> PICK q : q = Tail(stack)
    OBVIOUS
  <1>0. /\ status = "ready" /\ Calling(q[1])
    BY Popped
  <1>1. ASSUME NEW z, NEW w, Agrees(z), Run(z, d, K, w)
        PROVE  \E r : \E v : /\ Stacked(r) /\ Chained(d, r, z, v)
                             /\ v.v = result' /\ v.terms = terms_used /\ v.keys = K
    <2> PICK v : v = After(z, q[1], Fuel(q, 1), w)
      OBVIOUS
    <2>1. /\ AtReturn(w, K) /\ Stacked(q) /\ w \in Outcomes
          /\ v \in Outcomes /\ Chained(d, q, z, v)
      BY <1>1, PoppedRun
    <2>2. w.v = "none" /\ w.terms = terms_used /\ w.keys = K
      BY <2>1 DEF AtReturn
    <2>3. v = NoneIsError(w)
      BY <2>2 DEF After, RefIncluded
    <2>4. v.v = "permerror" /\ v.terms = terms_used /\ v.keys = K
      <3>1. w \in Outcomes
        BY <2>1
      <3>2. NoneIsError(w).v = "permerror" /\ NoneIsError(w).terms = w.terms
            /\ NoneIsError(w).keys = w.keys
        BY ONLY <2>2, <3>1, NoneIsErrorTyped
      <3>. QED
        BY <2>2, <2>3, <3>2
    <2>. QED
      BY <2>1, <2>4
  <1>. QED
    BY <1>0, <1>1, ErrorEnds DEF Situation

\* The caller is the innermost call again.
LEMMA PoppedStep ==
  ASSUME NEW d, NEW K, Situation(d, K), pc = "return", Top.via # "top",
         NEW q, q = Tail(stack), Len(stack') = Len(q), Linked(stack'),
         \A i \in 2..Len(q) : stack'[i] = q[i],
         UNCHANGED <<sessionVars, override_used, result>>,
         pc' \in {"return", "match", "term"}, Placed',
         \A z : \A w : Agrees(z) /\ Run(z, d, K, w) =>
           At(z, K, After(z, q[1], Fuel(q, 1), w))'
  PROVE  Follows(d)'
  <1>1. Form'
    <2>1. ~TakesOverride'
      BY Popped DEF TakesOverride
    <2>. QED
      BY <2>1 DEF Form
  <1>2. ASSUME NEW z, NEW w, Agrees(z), Run(z, d, K, w)
        PROVE  \E v : Run(z, d, K, v)'
    <2> PICK v : v = After(z, q[1], Fuel(q, 1), w)
      OBVIOUS
    <2>1. v \in Outcomes /\ Chained(d, q, z, v)
      BY <1>2, PoppedRun
    <2>2. Chained(d, stack', z, v)
      <3>1. Len(q) \in Nat
        BY Popped
      <3>. QED
        BY <2>1, <3>1, ChainKeep
    <2>3. At(z, K, v)'
      BY <1>2
    <2>4. Run(z, d, K, v)'
      BY <2>1, <2>2, <2>3 DEF Run
    <2>. QED
      BY <2>4
  <1>3. pc' \notin AwaitPc /\ status = "ready"
    BY Popped DEF AwaitPc
  <1>. QED
    BY <1>1, <1>2, <1>3, StepOpen DEF Situation

LEMMA ReturnRedirectOpen ==
  ASSUME NEW d, NEW K, Situation(d, K), ReturnRedirect
  PROVE  Follows(d)'
  <1> PICK q : q = Tail(stack)
    OBVIOUS
  <1>0. /\ pc = "return" /\ Top.via = "redirect" /\ Top.via # "top"
        /\ UNCHANGED sessionVars
    BY DEF ReturnRedirect
  <1>1. CASE ret = "none"
    BY <1>0, <1>1, NoneEnds DEF ReturnRedirect
  <1>2. CASE ret # "none"
    <2>1. /\ pc' = "return" /\ result' = result /\ stack' = q
          /\ UNCHANGED <<sessionVars, override_used, ret, exp, exp_domain>>
          /\ terms_used' = terms_used
      BY <1>0, <1>2 DEF ReturnRedirect, sessionVars, limitVars
    <2>2. Linked(q) /\ Top' = q[1] /\ (q[1].use_exp => Top.use_exp)
          /\ Top.via = CallTerm(q[1]).name
      BY <1>0, <2>1, Popped DEF Top
    <2>3. Placed'
      BY <2>1 DEF Placed, DnsPc, WalkPc
    <2>4. ASSUME NEW z, NEW w, Agrees(z), Run(z, d, K, w)
          PROVE  At(z, K, After(z, q[1], Fuel(q, 1), w))'
      <3>1. AtReturn(w, K) /\ w \in Outcomes
        BY <1>0, <2>4, PoppedRun
      <3>2. After(z, q[1], Fuel(q, 1), w) = w
        <4>1. w.v # "none"
          BY <1>2, <3>1 DEF AtReturn
        <4>2. CallTerm(q[1]).name # "include"
          BY <1>0, <2>2
        <4>. QED
          BY <3>1, <4>1, <4>2, NoneIsErrorTyped DEF After
      <3>3. AtReturn(w, K)'
        BY <2>1, <2>2, <3>1 DEF AtReturn
      <3>4. At(z, K, w)'
        BY <2>1, <3>3 DEF At, DnsPc, WalkPc
      <3> PICK v : v = After(z, q[1], Fuel(q, 1), w)
        OBVIOUS
      <3>. QED
        BY <3>2, <3>4
    <2>5. Len(stack') = Len(q) /\ Linked(stack')
          /\ \A i \in 2..Len(q) : stack'[i] = q[i]
      BY <2>1, <2>2
    <2>. QED
      BY <1>0, <2>1, <2>3, <2>4, <2>5, PoppedStep
  <1>. QED
    BY <1>1, <1>2

-----------------------------------------------------------------------------
(***************************************************************************)
(* A verdict returns to its caller.                                        *)
(***************************************************************************)
LEMMA PolicyLen ==
  ASSUME NEW p \in PolicyType
  PROVE  Len(p.terms) \in Nat /\ DOMAIN p.terms = 1..Len(p.terms)
  BY DEF PolicyType

LEMMA ReturnIncludeOpen ==
  ASSUME NEW d, NEW K, Situation(d, K), ReturnInclude
  PROVE  Follows(d)'
  <1> PICK q : q = Tail(stack)
    OBVIOUS
  <1> PICK f : f = q[1]
    OBVIOUS
  <1>0. /\ pc = "return" /\ Top.via = "include" /\ Top.via # "top"
        /\ UNCHANGED <<sessionVars, override_used>> /\ result = "pending"
        /\ terms_used' = terms_used /\ ret \in Qualifier \cup {"none"}
    BY Typed DEF ReturnInclude, sessionVars, limitVars, Situation, EvalTypeOK
  <1>1. /\ q \in Seq(FrameType) /\ q # <<>> /\ Len(q) \in Nat \ {0}
        /\ f = Head(q) /\ f \in FrameType /\ Linked(q)
        /\ CallTerm(f).name = "include" /\ Fuel(q, 1) \in Nat
    BY <1>0, Popped
  <1>2. /\ f.policy \in PolicyType /\ f.idx \in Nat \ {0}
        /\ f.idx <= Len(f.policy.terms) /\ Len(f.policy.terms) \in Nat
        /\ f.idx \in DOMAIN f.policy.terms /\ ~(f.idx > Len(f.policy.terms))
    <2>1. f.policy \in PolicyType /\ f.idx \in Nat \ {0}
      BY <1>1 DEF FrameType
    <2>2. f.idx \in DOMAIN f.policy.terms
      BY <1>1, <2>1, TermAtTyped DEF CallTerm
    <2>3. /\ Len(f.policy.terms) \in Nat
          /\ DOMAIN f.policy.terms = 1..Len(f.policy.terms)
      BY <2>1, PolicyLen
    <2>. QED
      BY ONLY <2>1, <2>2, <2>3
  <1>3. ASSUME NEW z, NEW w, Agrees(z), Run(z, d, K, w)
        PROVE  /\ ret = "pass" =>
                    After(z, f, Fuel(q, 1), w) =
                      Outcome(CallTerm(f).qualifier, f.policy.exp, f.domain,
                              terms_used, K)
               /\ ret \in {"fail", "softfail", "neutral"} =>
                    After(z, f, Fuel(q, 1), w) =
                      RefFrom(z, Fuel(q, 1), f.policy, f.idx + 1, f.domain,
                              terms_used, K)
    <2>1. AtReturn(w, K)
      BY <1>0, <1>3, PoppedRun
    <2>2. w.v = ret /\ w.terms = terms_used /\ w.keys = K
      BY <2>1 DEF AtReturn
    <2>. QED
      BY <1>1, <2>2 DEF After, RefIncluded, RefFrom
  <1>4. CASE ret = "none"
    BY <1>0, <1>4, NoneEnds DEF ReturnInclude
  <1>5. CASE ret = "pass"
    <2>1. pc' = "match" /\ result' = result /\ stack' = q
      BY <1>5 DEF ReturnInclude
    <2>2. Top' = f /\ Policy' = f.policy
      BY <1>1, <2>1 DEF Top, Policy
    <2>3. Term' = CallTerm(f)
      <3>1. Term' = TermAt(f.policy, f.idx)
        <4>1. (Policy \in PolicyType /\ Top.idx \in Nat \ {0})'
          BY <1>2, <2>2
        <4>2. (Term = TermAt(Policy, Top.idx))'
          BY <1>2, <2>2 DEF Term, Past, TermAt
        <4>. QED
          BY <2>2, <4>2
      <3>. QED
        BY <3>1 DEF CallTerm
    <2>4. Placed'
      BY <1>1, <2>1, <2>3 DEF Placed, DnsPc, WalkPc
    <2>5. ASSUME NEW z, NEW w, Agrees(z), Run(z, d, K, w)
          PROVE  At(z, K, After(z, q[1], Fuel(q, 1), w))'
      <3> PICK v : v = After(z, q[1], Fuel(q, 1), w)
        OBVIOUS
      <3>1. v = Outcome(CallTerm(f).qualifier, f.policy.exp, f.domain,
                        terms_used, K)
        BY <1>3, <1>5, <2>5
      <3>2. At(z, K, v)'
        BY <1>0, <2>1, <2>2, <2>3, <3>1 DEF At, DnsPc, WalkPc
      <3>. QED
        BY <3>2
    <2>6. Len(stack') = Len(q) /\ Linked(stack')
          /\ \A i \in 2..Len(q) : stack'[i] = q[i]
      BY <1>1, <2>1
    <2>. QED
      BY <1>0, <2>1, <2>4, <2>5, <2>6, PoppedStep
  <1>6. CASE ret \in {"fail", "softfail", "neutral"}
    <2>1. pc' = "term" /\ result' = result
          /\ stack' = [q EXCEPT ![1].idx = @ + 1]
      BY <1>6 DEF ReturnInclude
    <2>2. /\ Len(stack') = Len(q) /\ stack' # <<>>
          /\ \A i \in 2..Len(q) : stack'[i] = q[i]
          /\ stack'[1] = [f EXCEPT !.idx = @ + 1] /\ Top' = stack'[1]
      <3>0. q \in Seq(FrameType) /\ q # <<>> /\ Len(q) \in Nat \ {0}
        BY <1>1
      <3>1. Len(stack') = Len(q) /\ stack' # <<>>
        BY ONLY <2>1, <3>0
      <3>2. \A i \in 1..Len(q) :
              stack'[i] = IF i = 1 THEN [q[1] EXCEPT !.idx = @ + 1] ELSE q[i]
        BY ONLY <2>1, <3>0
      <3>3. Head(stack') = stack'[1]
        BY <1>1, <2>1
      <3>. QED
        BY <1>1, <3>1, <3>2, <3>3 DEF Top
    <2>3. /\ Policy' = f.policy /\ Top'.idx = f.idx + 1 /\ Top'.domain = f.domain
          /\ stack'[1].use_exp = q[1].use_exp /\ stack'[1].via = q[1].via
      BY <1>1, <2>2 DEF Policy, FrameType
    <2>4. Linked(stack')
      BY ONLY <1>1, <2>2, <2>3, LinkedKeep
    <2>5. Placed'
      <3>1. f.idx + 1 <= Len(f.policy.terms) + 1
        BY ONLY <1>2
      <3>. QED
        BY <2>1, <2>3, <3>1 DEF Placed, DnsPc, WalkPc
    <2>6. N' = Fuel(q, 1)
      BY <2>2 DEF N, Fuel
    <2>7. ASSUME NEW z, NEW w, Agrees(z), Run(z, d, K, w)
          PROVE  At(z, K, After(z, q[1], Fuel(q, 1), w))'
      <3> PICK v : v = After(z, q[1], Fuel(q, 1), w)
        OBVIOUS
      <3>1. v = RefFrom(z, Fuel(q, 1), f.policy, f.idx + 1, f.domain,
                        terms_used, K)
        BY <1>3, <1>6, <2>7
      <3>2. AtFrom(z, K, v, terms_used)'
        BY <1>0, <2>3, <2>6, <3>1 DEF AtFrom
      <3>3. At(z, K, v)'
        BY <2>1, <3>2 DEF At, DnsPc, WalkPc
      <3>. QED
        BY <3>3
    <2>8. /\ Len(stack') = Len(q) /\ \A i \in 2..Len(q) : stack'[i] = q[i]
          /\ UNCHANGED <<sessionVars, override_used, result>>
      BY <1>0, <2>1, <2>2
    <2>. QED
      BY <1>0, <2>1, <2>4, <2>5, <2>7, <2>8, PoppedStep
  <1>. QED
    BY <1>0, <1>4, <1>5, <1>6 DEF Qualifier

LEMMA IncludeMatchOpen ==
  ASSUME NEW d, NEW K, Situation(d, K), IncludeMatch
  PROVE  Follows(d)'
  <1>1. /\ status = "ready" /\ pc = "match" /\ pc \notin {"enter", "return"}
        /\ Match
    BY DEF Situation, VerdictInv, Settled, IncludeMatch
  <1>2. \A z : \A w : Agrees(z) /\ Run(z, d, K, w) =>
          w = Outcome(Term.qualifier, Policy.exp, Top.domain, terms_used, K)
    BY <1>1 DEF Run, At
  <1>. QED
    BY <1>1, <1>2, MatchOpen DEF Situation

\* evaluate() has its verdict.
LEMMA ReturnTopOpen ==
  ASSUME NEW d, NEW K, Situation(d, K), ReturnTop
  PROVE  Follows(d)'
  <1>0. /\ status = "ready" /\ pc = "return" /\ Top.via = "top"
        /\ result' = ret /\ stack' = <<>> /\ UNCHANGED sessionVars
        /\ ret \in Qualifier \cup {"none"} /\ exp \in Arg \cup {NoArg}
        /\ pc' = (IF WantsExp THEN "exp" ELSE "finish")
        /\ UNCHANGED <<exp, exp_domain, explanation>>
        /\ terms_used' = terms_used /\ explanation = NoText
    BY Typed DEF Situation, VerdictInv, Settled, OnFail, ReturnTop, EvalTypeOK,
                 sessionVars, limitVars
  <1>1. Len(stack) = 1 /\ Top.use_exp
    BY <1>0 DEF Situation, Here, Opened, Form, Linked
  <1>2. UNCHANGED <<cache, void_used>> /\ K \cup Asked = K
    BY <1>0 DEF sessionVars, lookupVars, limitVars, Situation, Opened
  <1>3. Looked(K)' /\ \A z : Agrees(z)' <=> Agrees(z)
    BY <1>2, SilentStep DEF Situation, Opened
  <1>4. ASSUME NEW z, Agrees(z)'
        PROVE  Settles(z, d, K)'
    <2>1. PICK w : Run(z, d, K, w)
      BY <1>2, <1>3, <1>4 DEF Situation, Opened
    <2>2. RefEvaluate(z, d) = w
      BY <1>1, <2>1, ChainRoot DEF Run
    <2>3. AtReturn(w, K)
      BY <1>0, <2>1 DEF Run, At
    <2>4. /\ w.v = ret /\ w.domain = exp_domain /\ w.terms = terms_used
          /\ w.keys = K /\ w.exp = exp
      BY <1>1, <2>3 DEF AtReturn
    <2>5. terms_used <= MaxTerms
      BY DEF Situation, Here
    <2>6. Explained(z, w)' \/ ret # "fail"
      <3>1. CASE ret = "fail" /\ exp # NoArg
        <4>1. pc' = "exp"
          BY <1>0, <3>1 DEF WantsExp
        <4>. QED
          BY <1>0, <2>4, <3>1, <4>1 DEF Explained, Explaining, ExpPc, WalkPc
      <3>2. CASE ret = "fail" /\ exp = NoArg
        <4>1. pc' = "finish"
          BY <1>0, <3>2 DEF WantsExp
        <4>2. RefExplanation(z, w) = NoText
          BY <2>4, <3>2 DEF RefExplanation
        <4>. QED
          BY <1>0, <4>1, <4>2 DEF Explained, Explaining, ExpPc, WalkPc
      <3>. QED
        BY <3>1, <3>2
    <2>. QED
      BY <1>0, <2>2, <2>4, <2>5, <2>6 DEF Settles
  <1>5. result' # "pending"
    BY <1>0 DEF Qualifier
  <1>6. \A z : Agrees(z)' => Says(z, d, K)'
    BY <1>4, <1>5 DEF Says
  <1>. QED
    BY <1>0, <1>3, <1>5, <1>6 DEF Follows

-----------------------------------------------------------------------------
(***************************************************************************)
(* The lookups of a call, and one that raises.                             *)
(***************************************************************************)
\* No lookup of a call is forgotten.
LEMMA RunKeys ==
  ASSUME Here, Form, result = "pending", VerdictInv, pc # "start", NEW d,
         NEW K \in SUBSET Key, NEW z, IsZone(z), NEW w, Run(z, d, K, w)
  PROVE  K \subseteq w.keys
  <1>0. /\ Policy \in PolicyType /\ N \in Nat /\ Top.domain \in Domains
        /\ terms_used \in Nat /\ Top.idx \in Nat \ {0}
    BY DEF Here
  <1>1. CASE pc \in {"enter", "policy"}
    <2> PICK o : o = IF TakesOverride THEN Override ELSE NoText
      OBVIOUS
    <2>1. w = RefCheck(z, Walks(z)[N], Top.domain, o, terms_used, K)
      BY <1>1 DEF Run, At, AtCheck
    <2>2. o \in Text \cup {NoText} /\ Walks(z)[N] \in [Nat -> Walkers]
      BY <1>0, WalksAre, EvaluatorAssumption
    <2>. QED
      BY <1>0, <2>1, <2>2, CheckTyped
  <1>2. CASE pc \in DnsPc \cup {"term"}
    <2>1. Top.idx \in 1..(Len(Policy.terms) + 1)
      <3>1. Top.idx <= Len(Policy.terms) + 1
        BY <1>2 DEF Form, Placed
      <3>2. Len(Policy.terms) \in Nat
        BY <1>0, PolicyLen
      <3>. QED
        BY <1>0, <3>1, <3>2
    <2>2. PICK terms \in Nat : w = RefFrom(z, N, Policy, Top.idx, Top.domain,
                                           terms, K)
      <3>1. CASE pc = "term"
        BY <1>0, <3>1 DEF Run, At, AtFrom
      <3>2. CASE pc \in DnsPc
        <4>1. terms_used - 1 \in Nat
          <5>1. terms_used > 0
            BY <3>2 DEF Form, Placed
          <5>. QED
            BY <1>0, <5>1
        <4>. QED
          BY <3>2, <4>1 DEF Run, At, AtFrom
      <3>. QED
        BY <1>2, <3>1, <3>2
    <2>. QED
      BY <1>0, <2>1, <2>2, FromTyped
  <1>3. CASE pc = "match"
    BY <1>3, OutcomeFields DEF Run, At
  <1>4. CASE pc = "return"
    BY <1>4 DEF Run, At, AtReturn
  <1>5. pc \in {"enter", "policy", "term", "match", "return"} \cup DnsPc
    BY OpenNested DEF Nested, MainPc, WalkPc, DnsPc
  <1>. QED
    BY <1>1, <1>2, <1>3, <1>4, <1>5

\* What the session raises: too many voids, if not too many terms.
LEMMA UnwindOpen ==
  ASSUME NEW d, NEW K, Situation(d, K), Unwind
  PROVE  Follows(d)'
  <1>0. /\ status \in Raised /\ result' = status /\ stack' = <<>>
        /\ UNCHANGED sessionVars
    BY DEF Unwind, Raise
  <1>1. UNCHANGED <<cache, void_used, void_exceeded, expired, network_queries>>
    BY <1>0 DEF sessionVars, lookupVars, limitVars
  <1>2. Looked(K)' /\ \A z : Agrees(z)' <=> Agrees(z)
    BY <1>1, SilentStep DEF Situation, Opened
  <1>3. void_exceeded'
    BY <1>0, <1>1 DEF Situation, LimitRaised, BudgetSpent
  <1>4. ASSUME NEW z, Agrees(z)'
        PROVE  Settles(z, d, K)'
    <2>1. Agrees(z) /\ IsZone(z)
      BY <1>2, <1>4, Typed
    <2> PICK L : L = K \cup Asked
      OBVIOUS
    <2>2. PICK w : Run(z, d, L, w)
      BY <2>1 DEF Situation, Opened
    <2>3. L \in SUBSET Key
      BY Typed, AskedInKey DEF Situation
    <2>4. L \subseteq w.keys
      BY <2>1, <2>2, <2>3, RunKeys DEF Situation, Opened
    <2>5. w.keys \subseteq RefEvaluate(z, d).keys
      <3>1. Stacked(stack) /\ Chained(d, stack, z, w)
        BY <2>2 DEF Situation, Here, Run
      <3>. QED
        BY <2>1, <3>1, ChainEnd
    <2>6. K \subseteq RefEvaluate(z, d).keys
      BY <2>4, <2>5
    <2>. QED
      BY <1>3, <2>6 DEF Settles
  <1>5. result' # "pending"
    BY <1>0 DEF Raised
  <1>6. \A z : Agrees(z)' => Says(z, d, K)'
    BY <1>4, <1>5 DEF Says
  <1>. QED
    BY <1>0, <1>2, <1>5, <1>6 DEF Follows

\* evaluate() calls check_host().
LEMMA BeginOpen ==
  ASSUME Fresh, VerdictInv, NEW d \in Start, Begin(d)
  PROVE  ~terms_exceeded' /\ Follows(d)'
  <1>0. /\ UNCHANGED sessionVars /\ SessionInit /\ override_used = FALSE
        /\ stack = <<>> /\ override_used' = override_used
        /\ explanation' = explanation /\ result = "pending"
    BY DEF Begin, Fresh, VerdictInv, Undecided
  <1>1. /\ cache' = [k \in Key |-> NoAnswer] /\ void_used' = 0
        /\ terms_used' = 0 /\ terms_exceeded' = FALSE /\ status' = "ready"
    BY <1>0 DEF SessionInit, sessionVars, limitVars, lookupVars
  <1>2. Cached' = {} /\ Looked({})'
    <2>1. Cached' = {} /\ Voids({})' = {}
      BY <1>1 DEF Cached, Voids
    <2>. QED
      BY <1>1, <2>1, FS_EmptySet DEF Looked
  <1>3. CASE d = BadIp
    <2>1. pc' = "done" /\ result' = "permerror" /\ stack' = <<>>
      BY <1>0, <1>3 DEF Begin
    <2>2. ASSUME NEW z PROVE Settles(z, d, {})'
      <3> PICK r : r = RefEvaluate(z, d)
        OBVIOUS
      <3>1. r = Outcome("permerror", NoArg, Malformed, 0, {})
        BY <1>3 DEF RefEvaluate
      <3>2. r.v = "permerror" /\ r.terms = 0 /\ r.keys = {}
        BY <3>1, OutcomeFields
      <3>. QED
        BY <2>1, <3>2, SessionAssumption DEF Settles
    <2>3. \A z : Agrees(z)' => Says(z, d, {})'
      BY <2>1, <2>2 DEF Says
    <2>. QED
      BY <1>1, <1>2, <2>1, <2>3 DEF Follows
  <1>4. CASE d # BadIp
    <2> PICK f : f = Frame(d, "top", TRUE)
      OBVIOUS
    <2>1. pc' = "enter" /\ result' = "pending" /\ stack' = <<f>>
      BY <1>0, <1>4 DEF Begin
    <2>2. /\ f.domain = d /\ f.use_exp = TRUE /\ f.idx = 1 /\ d \in Domains
      BY <1>4, EvaluatorAssumption DEF Frame, Domains
    <2>3. Len(stack') = 1 /\ Top' = f /\ stack'[1] = f
      BY <2>1 DEF Top
    <2>4. N' = MaxTerms + 1 /\ MaxTerms + 1 \in Nat
      <3>1. MaxTerms + 1 + 1 - 1 = MaxTerms + 1 /\ MaxTerms + 1 \in Nat
        BY SessionAssumption
      <3>. QED
        BY <2>3, <3>1 DEF N, Fuel
    <2>5. Form'
      <3>1. Linked(stack')
        <4>1. stack'[Len(stack')].use_exp /\ 2..Len(stack') = {}
          <5>1. 2..1 = {}
            OBVIOUS
          <5>2. f.use_exp
            BY <2>2
          <5>. QED
            BY <2>3, <5>1, <5>2
        <4>. QED
          BY ONLY <4>1 DEF Linked
      <3>2. Placed'
        BY <2>1, <2>2, <2>3 DEF Placed, DnsPc, WalkPc
      <3>. QED
        BY <2>1, <2>3, <3>1, <3>2 DEF Form
    <2>6. Asked' = {}
      BY <2>1 DEF Asked, AwaitPc
    <2>7. ASSUME NEW z, Agrees(z)'
          PROVE  \E w : Run(z, d, {}, w)'
      <3> PICK w : w = RefEvaluate(z, d)
        OBVIOUS
      <3>1. w = RefCheck(z, Walks(z)[MaxTerms + 1], d, Override, 0, {})
        BY <1>4 DEF RefEvaluate
      <3>2. w \in Outcomes
        <4>1. IsZone(z)
          BY <2>7 DEF Agrees
        <4>2. Walks(z)[MaxTerms + 1] \in [Nat -> Walkers]
          BY <2>4, <4>1, WalksAre
        <4>3. Override \in Text \cup {NoText}
          BY EvaluatorAssumption
        <4>. QED
          BY <2>2, <3>1, <4>1, <4>2, <4>3, CheckTyped
      <3>3. Chained(d, stack', z, w)
        <4> PICK W : W = [i \in 1..1 |-> w]
          OBVIOUS
        <4>1. W \in [1..1 -> Outcomes] /\ W[1] = w /\ 1..0 = {}
          BY <3>2
        <4>2. Chain(d, stack', z, W)
          BY <2>3, <4>1 DEF Chain
        <4>. QED
          BY <4>1, <4>2 DEF Chained
      <3>4. (IF TakesOverride THEN Override ELSE NoText)' = Override
        BY <1>0 DEF TakesOverride
      <3>5. AtCheck(z, {}, w)'
        BY <1>1, <2>2, <2>3, <2>4, <3>1, <3>4 DEF AtCheck
      <3>6. At(z, {}, w)'
        BY <2>1, <3>5 DEF At, DnsPc, WalkPc
      <3>7. Run(z, d, {}, w)'
        BY <3>2, <3>3, <3>6 DEF Run
      <3>. QED
        BY <3>7
    <2>8. \A z : Agrees(z)' => Says(z, d, {})'
      <3>1. ({} \cup Asked)' = {}
        BY <2>6
      <3>. QED
        BY <2>1, <2>7, <3>1 DEF Says
    <2>. QED
      BY <1>1, <1>2, <2>1, <2>5, <2>6, <2>8 DEF Follows
  <1>. QED
    BY <1>3, <1>4

-----------------------------------------------------------------------------
(***************************************************************************)
(* An answer.                                                              *)
(***************************************************************************)
\* What an answer to the lookup k changes of what was heard.
Hears(k) ==
  /\ k \in Key /\ status = "await" /\ status' # "await" /\ key = k
  /\ terms_used' = terms_used /\ (terms_exceeded' <=> terms_exceeded)
  /\ \A x \in Key : x # k => cache'[x] = cache[x]
  /\ cache[k] = NoAnswer
  /\ \/ cache'[k] = NoAnswer /\ AlwaysFails(k) /\ void_used' = void_used
     \/ /\ cache'[k] # NoAnswer /\ ~AlwaysFails(k)
        /\ void_used' = IF Counts(cache'[k]) THEN void_used + 1 ELSE void_used

LEMMA AnswerHears ==
  ASSUME Steady, TypeInv, ~expired', Environment
  PROVE  Hears(key)
  <1>0. /\ cache \in [Key -> (UNION {Reply[x] : x \in Key}) \cup {NoAnswer}]
        /\ terms_exceeded \in BOOLEAN
    BY DEF TypeInv, TypeOK
  <1>1. CASE Elapse \/ TimeLimit
    BY <1>1 DEF Elapse, TimeLimit
  <1>2. ASSUME NEW k \in Key, NEW a \in Reply[k], Answer(a)
        PROVE  Hears(key)
    <2>1. /\ key \in Key /\ a \in Reply[key] /\ status = "await"
          /\ cache[key] = NoAnswer /\ terms_used' = terms_used
          /\ terms_exceeded' = terms_exceeded /\ status' # "await"
      BY <1>2 DEF Answer, TypeInv, Awaiting
    <2>2. CASE a.rcode \in Definite
      <3>1. ~AlwaysFails(key) /\ a # NoAnswer
        BY <2>1, <2>2 DEF AlwaysFails, NoAnswer, Definite
      <3>2. cache' = [cache EXCEPT ![key] = a]
            /\ void_used' = IF Counts(a) THEN void_used + 1 ELSE void_used
        BY <1>2, <2>2 DEF Answer, Cacheable
      <3>3. cache'[key] = a /\ \A x \in Key : x # key => cache'[x] = cache[x]
        BY <1>0, <2>1, <3>2
      <3>. QED
        BY <2>1, <3>1, <3>2, <3>3 DEF Hears
    <2>3. CASE a.rcode \notin Definite
      <3>1. AlwaysFails(key)
        BY <2>1, <2>3 DEF Steady
      <3>2. cache' = cache /\ void_used' = void_used
        BY <1>2, <2>3 DEF Answer, Cacheable, Counts, IsVoid, Definite
      <3>. QED
        BY <2>1, <3>1, <3>2 DEF Hears
    <2>. QED
      BY <2>2, <2>3
  <1>3. CASE LookupRaises
    <2>1. /\ key \in Key /\ cache[key] = NoAnswer /\ AlwaysFails(key)
      BY <1>3 DEF LookupRaises, TypeInv, Awaiting, Steady
    <2>2. /\ status = "await" /\ status' # "await"
          /\ UNCHANGED <<terms_used, terms_exceeded, void_used, cache>>
      BY <1>3 DEF LookupRaises, limitVars, lookupVars
    <2>. QED
      BY <2>1, <2>2 DEF Hears
  <1>. QED
    BY <1>1, <1>2, <1>3 DEF Environment

\* A zone that agrees with what is heard now agreed with what was before.
LEMMA HearsAgrees ==
  ASSUME NEW k, Hears(k), NEW z, Agrees(z)'
  PROVE  Agrees(z)
  BY DEF Hears, Agrees

LEMMA NoAnswerIsNoVoid == ~IsVoid(NoAnswer)
  BY DEF IsVoid, NoAnswer

LEMMA HearsLooked ==
  ASSUME TypeOK, Heard, NEW k, Hears(k), NEW K, Looked(K), ~void_exempt
  PROVE  Looked(K \cup {k})'
  <1>0. /\ void_used = Cardinality(Voids(K)) /\ K \in SUBSET Key /\ k \in Key
        /\ \A x \in K : Resolved(x)
    BY DEF Looked, Hears
  <1>1. Voids(K) \subseteq Cached /\ k \notin Voids(K)
    BY <1>0, NoAnswerIsNoVoid DEF Voids, Cached, Hears
  <1>2. IsFiniteSet(Voids(K))
    BY <1>1, FS_Subset DEF Heard
  <1>3. Voids(K \cup {k})' = IF IsVoid(cache'[k]) THEN Voids(K) \cup {k}
                                                  ELSE Voids(K)
    <2>1. \A x \in K : x # k => cache'[x] = cache[x]
      BY <1>0 DEF Hears
    <2>. QED
      BY <1>1, <2>1 DEF Voids
  <1>4. void_used' = Cardinality(Voids(K \cup {k})')
    <2>1. CASE IsVoid(cache'[k])
      <3>1. void_used' = void_used + 1
        BY <2>1, NoAnswerIsNoVoid DEF Hears, Counts
      <3>2. Cardinality(Voids(K) \cup {k}) = Cardinality(Voids(K)) + 1
        BY <1>1, <1>2, FS_AddElement
      <3>. QED
        BY <1>0, <1>3, <2>1, <3>1, <3>2
    <2>2. CASE ~IsVoid(cache'[k])
      <3>1. void_used' = void_used
        BY <2>2 DEF Hears, Counts
      <3>. QED
        BY <1>0, <1>3, <2>2, <3>1
    <2>. QED
      BY <2>1, <2>2
  <1>5. \A x \in K \cup {k} : Resolved(x)'
    BY <1>0 DEF Hears, Resolved
  <1>. QED
    BY <1>0, <1>4, <1>5 DEF Looked

LEMMA HearsOpen ==
  ASSUME NEW d, NEW K, Situation(d, K), Hears(key), UNCHANGED evalVars
  PROVE  Follows(d)'
  <1> PICK k : k = key
    OBVIOUS
  <1>0. /\ Hears(k) /\ ~void_exempt /\ TypeOK /\ Heard /\ Looked(K) /\ Await
        /\ Opened(d, K) /\ result = "pending" /\ result' = "pending"
        /\ K \in SUBSET Key
    BY Typed DEF Situation, Here, Opened, evalVars
  <1>1. Looked(K \cup {k})'
    BY <1>0, HearsLooked
  <1>2. (Cached \subseteq K \cup {k})'
    BY <1>0 DEF Opened, Cached, Hears
  <1>3. pc \in AwaitPc /\ k = AskedKey /\ Asked = {k} /\ Asked' = {k}
    <2>1. pc \in AwaitPc /\ k = AskedKey
      BY <1>0 DEF Hears, Await
    <2>2. AskedKey' = AskedKey /\ pc' = pc
      BY DEF evalVars, AskedKey, Term, Past, Policy, Top
    <2>. QED
      BY <2>1, <2>2 DEF Asked
  <1>4. Form'
    <2>1. (Form <=> Form')
      <3>1. /\ stack' = stack /\ pc' = pc /\ Top' = Top /\ Term' = Term
            /\ Policy' = Policy /\ (TakesOverride' <=> TakesOverride)
            /\ target' = target /\ work' = work /\ names' = names
            /\ terms_used' = terms_used
        BY <1>0 DEF evalVars, Top, Term, Past, Policy, TakesOverride, Hears
      <3>2. (Placed <=> Placed')
        BY <3>1 DEF Placed, Walking, OutsideTarget
      <3>. QED
        BY <3>1, <3>2 DEF Form
    <2>. QED
      BY <1>0, <2>1 DEF Opened
  <1>5. ASSUME NEW z, Agrees(z)'
        PROVE  \E w : Run(z, d, K \cup {k}, w)'
    <2>1. Agrees(z)
      BY <1>0, <1>5, HearsAgrees
    <2>2. PICK w : Run(z, d, K \cup {k}, w)
      BY <1>0, <1>3, <2>1 DEF Opened
    <2>3. At(z, K \cup {k}, w)'
      <3>1. /\ stack' = stack /\ pc' = pc /\ Top' = Top /\ Term' = Term
            /\ Policy' = Policy /\ (TakesOverride' <=> TakesOverride) /\ N' = N
            /\ terms_used' = terms_used
        BY <1>0 DEF evalVars, Top, Term, Past, Policy, TakesOverride, N, Hears
      <3>2. Domain' = Domain
        BY DEF evalVars, Domain, Top
      <3>3. UNCHANGED <<target, names, found, work, ret, exp, exp_domain>>
        BY DEF evalVars
      <3> PICK L : L = K \cup {k}
        OBVIOUS
      <3>4. /\ AtCheck(z, L, w)' <=> AtCheck(z, L, w)
            /\ AtFrom(z, L, w, terms_used)' <=> AtFrom(z, L, w, terms_used)
            /\ AtFrom(z, L, w, terms_used - 1)' <=> AtFrom(z, L, w, terms_used - 1)
            /\ AtTarget(z, L)' <=> AtTarget(z, L)
        BY <3>1, <3>3 DEF AtCheck, AtFrom, AtTarget
      <3>5. AtWalk(z, L)' <=> AtWalk(z, L)
        BY <3>1, <3>2, <3>3 DEF AtWalk, AtMx, AtPtr, AtMacro
      <3>6. AtReturn(w, L)' <=> AtReturn(w, L)
        BY <3>1, <3>3 DEF AtReturn
      <3>7. At(z, L, w)
        BY <2>2 DEF Run
      <3>8. At(z, L, w)'
        BY <3>1, <3>3, <3>4, <3>5, <3>6, <3>7 DEF At
      <3>. QED
        BY <3>8
    <2>4. Chained(d, stack', z, w)
      BY <2>2 DEF Run, evalVars
    <2>. QED
      BY <2>2, <2>3, <2>4 DEF Run
  <1>6. \A z : Agrees(z)' => Says(z, d, K \cup {k})'
    <2>1. ((K \cup {k}) \cup Asked)' = K \cup {k}
      BY <1>3
    <2>. QED
      BY <1>0, <1>5, <2>1 DEF Says
  <1>7. Asked' \subseteq K \cup {k}
    BY <1>3
  <1>. QED
    BY <1>0, <1>1, <1>2, <1>4, <1>6, <1>7 DEF Follows

-----------------------------------------------------------------------------
(***************************************************************************)
(* Every step of an open verdict.                                          *)
(***************************************************************************)
\* What RefInv says once evaluate() was called with d.
FollowsOrOver(d) ==
  IF terms_exceeded THEN \A z : Agrees(z) => RefEvaluate(z, d).terms > MaxTerms
                    ELSE Follows(d)

\* Only a DNS term makes terms_exceeded true.
LEMMA OnlyDnsTerm ==
  ASSUME NestInv, NestInv', Step, ~DnsTerm
  PROVE  terms_used' = terms_used /\ (terms_exceeded' <=> terms_exceeded)
  <1>1. terms_used' = terms_used
    <2>1. Level \/ Empties => terms_used' = terms_used
      BY DEF Level, Empties
    <2>2. (\E d \in Start : Begin(d)) \/ Recurse \/ ReturnInclude
             \/ ReturnRedirect => terms_used' = terms_used
      BY DEF Begin, Recurse, ReturnInclude, ReturnRedirect, sessionVars,
             limitVars
    <2>. QED
      BY <2>1, <2>2, StepLevel DEF NestInv
  <1>2. /\ terms_exceeded <=> terms_used > MaxTerms
        /\ terms_exceeded' <=> terms_used' > MaxTerms
    BY DEF NestInv, LimitInv, FlagsTellBreach
  <1>. QED
    BY <1>1, <1>2

LEMMA OpenMoves ==
  ASSUME NEW d, NEW K, Situation(d, K), Step, ~DnsTerm
  PROVE  Follows(d)'
  <1>0. Nested /\ ~Explaining /\ result = "pending" /\ pc # "start"
        /\ ~void_exempt /\ ~expired'
    BY OpenNested DEF Situation, Here
  <1>1. ~EnterLate /\ ~TermLate /\ ~ExpRaised
    BY <1>0 DEF EnterLate, TermLate, CheckDeadline, ExpRaised
  <1>2. ~(\E x \in Start : Begin(x)) /\ ~Finish /\ ~ExpEnter /\ ~ExpTarget
        /\ ~ExpTargetMacro /\ ~ExpAsk /\ ~ExpReply /\ ~ExpText
        /\ ~ExpTextMacro /\ ~ExpDone
    BY <1>0 DEF Begin, Finish, ExpEnter, ExpTarget, ExpTargetMacro, ExpAsk,
                ExpReply, ExpText, ExpTextMacro, ExpDone, Nested, MainPc, WalkPc
  <1>3. CASE EnterMalformed \/ EnterOverride \/ EnterQuery \/ FetchPolicy
    BY <1>3, EnterMalformedOpen, EnterOverrideOpen, EnterQueryOpen,
       FetchPolicyOpen
  <1>4. CASE LocalTerm \/ Default \/ Target \/ TargetMacro
    BY <1>4, LocalTermOpen, DefaultOpen, TargetOpen, TargetMacroOpen
  <1>5. CASE AskTarget \/ AskPtr \/ Recurse \/ Answered \/ Exchanges
    BY <1>5, AskTargetOpen, AskPtrOpen, RecurseOpen, AnsweredOpen,
       ExchangesOpen
  <1>6. CASE PtrNames \/ SkipHost \/ AskHost \/ HostAnswered \/ NamesSpent
             \/ MacroDone
    BY <1>6, PtrNamesOpen, SkipHostOpen, AskHostOpen, HostAnsweredOpen,
       NamesSpentOpen, MacroDoneOpen
  <1>7. CASE ReturnInclude \/ IncludeMatch \/ ReturnRedirect \/ ReturnTop
             \/ Unwind
    BY <1>7, ReturnIncludeOpen, IncludeMatchOpen, ReturnRedirectOpen,
       ReturnTopOpen, UnwindOpen
  <1>. QED
    BY <1>1, <1>2, <1>3, <1>4, <1>5, <1>6, <1>7 DEF Step

LEMMA OpenNext ==
  ASSUME Steady, NestInv', NEW d, NEW K, Situation(d, K), Next
  PROVE  FollowsOrOver(d)'
  <1>0. ~terms_exceeded /\ NestInv /\ ~expired'
    BY DEF Situation
  <1>1. CASE DnsTerm
    BY <1>1, DnsTermOpen DEF FollowsOrOver
  <1>2. CASE Step /\ ~DnsTerm
    <2>1. ~terms_exceeded'
      BY <1>0, <1>2, OnlyDnsTerm
    <2>. QED
      BY <1>2, <2>1, OpenMoves DEF FollowsOrOver
  <1>3. CASE Environment
    <2>1. Hears(key) /\ UNCHANGED evalVars
      BY <1>0, <1>3, AnswerHears DEF NestInv, EvalInv, Environment
    <2>2. ~terms_exceeded'
      BY <1>0, <2>1 DEF Hears
    <2>3. Follows(d)'
      BY <2>1, HearsOpen
    <2>. QED
      BY <2>2, <2>3 DEF FollowsOrOver
  <1>. QED
    BY <1>1, <1>2, <1>3 DEF Next

-----------------------------------------------------------------------------
(***************************************************************************)
(* Every step after the verdict.                                           *)
(***************************************************************************)
\* A step of a decided verdict, within the deadline and the budget.
Decided(d, K) ==
  /\ NestInv /\ VerdictInv /\ LimitRaised /\ Await
  /\ result # "pending" /\ pc # "start" /\ stack = <<>> /\ Looked(K)
  /\ \A z : Agrees(z) => Settles(z, d, K)
  /\ ~terms_exceeded /\ ~expired /\ ~BudgetSpent

\* Only _explanation() is left.
LEMMA DecidedPlace ==
  ASSUME NEW d, NEW K, Decided(d, K)
  PROVE  /\ pc \in {"exp", "finish", "done"} \cup ExpPc \cup WalkPc
         /\ pc \in WalkPc => /\ work = "pmacro" /\ Explaining
                             /\ resume \in {"exp_ask", "exp_done"}
         /\ EvalInv /\ EvalTypeOK /\ TypeOK
         /\ Domain = exp_domain /\ Domain \in Domains
         /\ void_exempt <=> Explaining
  <1>1. EvalInv /\ EvalTypeOK /\ TypeOK /\ ~Nested /\ pc # "start"
    BY DEF Decided, NestInv, EvalInv, TypeInv, VerdictInv, Undecided
  <1>2. pc \in Pc /\ resume \in {"apply", "exp_ask", "exp_done"}
        /\ exp_domain \in Domains
    BY <1>1 DEF EvalTypeOK, Domains
  <1>3. pc \in {"exp", "finish", "done"} \cup ExpPc \cup WalkPc
    BY <1>1, <1>2 DEF Pc, Nested, MainPc
  <1>4. pc \in WalkPc => /\ work = "pmacro" /\ Explaining
                         /\ resume \in {"exp_ask", "exp_done"}
    BY <1>1, <1>2 DEF Nested, Explaining
  <1>5. Domain = exp_domain
    BY DEF Decided, Domain
  <1>. QED
    BY <1>1, <1>2, <1>3, <1>4, <1>5 DEF Decided, VerdictInv, Exempts

\* No check_host() is active.
LEMMA DecidedSteps ==
  ASSUME NEW d, NEW K, Decided(d, K), Step
  PROVE  \/ ExpEnter \/ ExpTarget \/ ExpTargetMacro \/ ExpAsk \/ ExpReply
         \/ ExpText \/ ExpTextMacro \/ ExpDone \/ ExpRaised
         \/ pc \in WalkPc /\ (PtrNames \/ AskHost \/ HostAnswered \/ MacroDone)
         \/ Finish
  <1>0. /\ pc \in {"exp", "finish", "done"} \cup ExpPc \cup WalkPc
        /\ pc \in WalkPc => work = "pmacro"
        /\ result # "pending" /\ pc # "start"
    BY DecidedPlace DEF Decided
  <1>1. ~(\E x \in Start : Begin(x)) /\ ~EnterLate /\ ~EnterMalformed
        /\ ~EnterOverride /\ ~EnterQuery /\ ~FetchPolicy
    BY <1>0 DEF Begin, EnterLate, EnterMalformed, EnterOverride, EnterQuery,
                FetchPolicy, ExpPc, WalkPc
  <1>2. ~TermLate /\ ~LocalTerm /\ ~DnsTerm /\ ~Default /\ ~Target
        /\ ~TargetMacro /\ ~AskTarget /\ ~AskPtr /\ ~Recurse /\ ~Answered
        /\ ~Exchanges
    BY <1>0 DEF TermLate, LocalTerm, DnsTerm, Default, Target, TargetMacro,
                AskTarget, AskPtr, Recurse, Answered, Exchanges, ExpPc, WalkPc
  <1>3. ~ReturnInclude /\ ~IncludeMatch /\ ~ReturnRedirect /\ ~ReturnTop
        /\ ~Unwind
    BY <1>0 DEF ReturnInclude, IncludeMatch, ReturnRedirect, ReturnTop,
                Unwind, ExpPc, WalkPc
  <1>4. ~SkipHost /\ ~NamesSpent
    BY <1>0 DEF SkipHost, NamesSpent, OutsideTarget, WalkPc
  <1>5. PtrNames \/ AskHost \/ HostAnswered \/ MacroDone => pc \in WalkPc
    BY DEF PtrNames, AskHost, HostAnswered, MacroDone, WalkPc
  <1>. QED
    BY <1>1, <1>2, <1>3, <1>4, <1>5 DEF Step

-----------------------------------------------------------------------------
\* The explanation so far is that of the reference.
LEMMA ExpStart ==
  ASSUME NEW z, NEW r, Explained(z, r),
         ExpEnter \/ ExpTarget \/ ExpTargetMacro \/ ExpTextMacro
  PROVE  Explained(z, r)'
  <1>0. exp = r.exp /\ exp_domain = r.domain /\ exp \in Arg
    BY DEF Explained, ExpEnter, ExpTarget, ExpTargetMacro, ExpTextMacro,
           Explaining, ExpPc
  <1>1. exp' = exp /\ exp_domain' = exp_domain /\ text' = text
    BY DEF ExpEnter, ExpTarget, ExpTargetMacro, ExpTextMacro, Expand, exitVars
  <1>2. CASE ExpEnter
    <2>1. pc' = "exp_target"
      BY <1>2 DEF ExpEnter
    <2>. QED
      BY <1>0, <1>1, <2>1 DEF Explained, WalkPc
  <1>3. CASE ExpTarget
    <2>1. pc' = "exp_ask" /\ target' = RefExpTarget(z, r)
      BY <1>0, <1>3 DEF ExpTarget, RefExpTarget
    <2>. QED
      BY <1>0, <1>1, <2>1 DEF Explained, WalkPc
  <1>4. CASE ExpTargetMacro
    <2>1. pc' = "names" /\ resume' = "exp_ask" /\ exp = PMacro
      BY <1>4 DEF ExpTargetMacro, Expand
    <2>. QED
      BY <1>0, <1>1, <2>1 DEF Explained, WalkPc
  <1>5. CASE ExpTextMacro
    <2>1. pc' = "names" /\ resume' = "exp_done" /\ pc = "exp_text"
          /\ ExpOf[text] \in {"pmacro", "pbad"}
      BY <1>5 DEF ExpTextMacro, Expand
    <2>2. TextIs(z, r)
      BY <2>1 DEF Explained
    <2>3. TextIs(z, r)'
      BY <1>1, <2>2 DEF TextIs
    <2>. QED
      BY <1>0, <1>1, <2>1, <2>3 DEF Explained, WalkPc
  <1>. QED
    BY <1>2, <1>3, <1>4, <1>5

\* What is left when _explanation() returns.
LEMMA ExpReturned ==
  ASSUME NEW z, NEW r, NEW t, ExpReturn(t), t = RefExplanation(z, r)
  PROVE  Explained(z, r)'
  BY DEF ExpReturn, Explained, Explaining, ExpPc, WalkPc

LEMMA ExpTextSays ==
  ASSUME NEW z, NEW r, TextIs(z, r), r.exp # NoArg
  PROVE  RefExplanation(z, r) =
           IF ExpOf[text] \in {"plain", "pmacro"} THEN text ELSE NoText
  BY DEF TextIs, RefExplanation

LEMMA ExpAskStays ==
  ASSUME NEW d, NEW K, Decided(d, K), NEW z, NEW r, Explained(z, r), ExpAsk
  PROVE  Explained(z, r)'
  <1>0. /\ exp = r.exp /\ exp_domain = r.domain /\ exp \in Arg
        /\ target = RefExpTarget(z, r)
    BY DEF Explained, ExpAsk, Explaining, ExpPc
  <1>1. CASE target \notin Name
    <2>1. ExpReturn(NoText) /\ RefExplanation(z, r) = NoText
      BY <1>0, <1>1 DEF ExpAsk, RefExplanation
    <2>. QED
      BY <2>1, ExpReturned
  <1>2. CASE target \in Name
    <2>1. pc' = "exp_reply" /\ exp' = exp /\ exp_domain' = exp_domain
          /\ target' = target
      BY <1>2 DEF ExpAsk, Ask, exitVars, walkVars
    <2>. QED
      BY <1>0, <2>1 DEF Explained, WalkPc
  <1>. QED
    BY <1>1, <1>2

LEMMA ExpReplyStays ==
  ASSUME NEW d, NEW K, Decided(d, K), NEW z, Agrees(z), NEW r,
         Explained(z, r), ExpReply
  PROVE  Explained(z, r)'
  <1>0. /\ exp = r.exp /\ exp_domain = r.domain /\ exp \in Arg
        /\ target = RefExpTarget(z, r) /\ pc = "exp_reply"
    BY DEF Explained, ExpReply, Explaining, ExpPc
  <1>1. r.exp # NoArg
    BY <1>0 DEF Decided, VerdictInv, OnFail, Explaining, ExpPc
  <1>2. z[<<target, "TXT">>] = reply /\ target \in Name
    <2>1. AskedKey = <<target, "TXT">>
      BY <1>0 DEF AskedKey
    <2>2. z[AskedKey] = reply /\ AskedKey \in Key
      BY <1>0, ReplyIs DEF Decided, ExpReply, AwaitPc
    <2>. QED
      BY <2>1, <2>2, EvaluatorAssumption
  <1>3. CASE reply = DnsFailure \/ Len(reply.answers) # 1
    <2>1. Len(reply.answers) # 1
      BY <1>3 DEF DnsFailure
    <2>2. RefExplanation(z, r) = NoText
      BY <1>0, <1>1, <1>2, <2>1 DEF RefExplanation, Records
    <2>3. ExpReturn(NoText)
      BY <1>3 DEF ExpReply
    <2>. QED
      BY <2>2, <2>3, ExpReturned
  <1>4. CASE ~(reply = DnsFailure \/ Len(reply.answers) # 1)
    <2>1. pc' = "exp_text" /\ text' = reply.answers[1]
          /\ exp' = exp /\ exp_domain' = exp_domain
      BY <1>4 DEF ExpReply
    <2>2. TextIs(z, r)'
      BY <1>0, <1>2, <1>4, <2>1 DEF TextIs, Records
    <2>. QED
      BY <1>0, <2>1, <2>2 DEF Explained, WalkPc
  <1>. QED
    BY <1>3, <1>4

LEMMA ExpTextStays ==
  ASSUME NEW d, NEW K, Decided(d, K), NEW z, NEW r, Explained(z, r),
         ExpText \/ ExpDone
  PROVE  Explained(z, r)'
  <1>0. TextIs(z, r) /\ exp = r.exp
    BY DEF Explained, ExpText, ExpDone, Explaining, ExpPc
  <1>1. r.exp # NoArg
    BY <1>0 DEF Decided, VerdictInv, OnFail, Explaining, ExpPc, ExpText, ExpDone
  <1>2. RefExplanation(z, r) =
          IF ExpOf[text] \in {"plain", "pmacro"} THEN text ELSE NoText
    BY <1>0, <1>1, ExpTextSays
  <1>3. CASE ExpText
    <2>1. ExpReturn(RefExplanation(z, r))
      BY <1>2, <1>3 DEF ExpText
    <2>. QED
      BY <2>1, ExpReturned
  <1>4. CASE ExpDone
    <2>1. ExpOf[text] \in {"pmacro", "pbad"}
      BY <1>4 DEF ExpDone, Explained
    <2>2. ExpReturn(RefExplanation(z, r))
      BY <1>2, <1>4, <2>1 DEF ExpDone
    <2>. QED
      BY <2>2, ExpReturned
  <1>. QED
    BY <1>3, <1>4

-----------------------------------------------------------------------------
(***************************************************************************)
(* The steps of exp=.                                                      *)
(***************************************************************************)
\* The walk over the client's names that exp= needs.
LEMMA ExpWalks ==
  ASSUME NEW d, NEW K, Decided(d, K), NEW z, NEW r, Explained(z, r),
         pc \in WalkPc
  PROVE  /\ exp = r.exp /\ exp_domain = r.domain /\ exp \in Arg
         /\ work = "pmacro" /\ resume \in {"exp_ask", "exp_done"}
         /\ resume = "exp_ask" => exp = PMacro
         /\ resume = "exp_done" =>
              TextIs(z, r) /\ ExpOf[text] \in {"pmacro", "pbad"}
         /\ pc \in {"each", "host"} => AtMacro(z, Key)
         /\ Domain = exp_domain /\ Domain \in Domains
  BY DecidedPlace DEF Explained

\* A step of it.
LEMMA ExpWalkKeeps ==
  ASSUME NEW d, NEW K, Decided(d, K), NEW z, NEW r, Explained(z, r),
         pc \in WalkPc, pc' \in {"each", "host"}, AtMacro(z, Key)',
         UNCHANGED <<resume, exitVars>>
  PROVE  Explained(z, r)'
  <1>1. exp' = exp /\ exp_domain' = exp_domain /\ text' = text
    BY DEF exitVars
  <1>2. TextIs(z, r)' <=> TextIs(z, r)
    BY <1>1 DEF TextIs
  <1>. QED
    BY <1>1, <1>2, ExpWalks DEF Explained

LEMMA DomainKept ==
  ASSUME NEW d, NEW K, Decided(d, K), UNCHANGED <<exitVars, frameVars>>
  PROVE  Domain' = Domain
  BY DEF Domain, Top, exitVars, frameVars

LEMMA ExpWalkStays ==
  ASSUME NEW d, NEW K, Decided(d, K), NEW z, Agrees(z), NEW r,
         Explained(z, r), pc \in WalkPc,
         PtrNames \/ AskHost \/ HostAnswered \/ MacroDone
  PROVE  Explained(z, r)'
  <1>0. /\ work = "pmacro" /\ Domain \in Domains /\ IsZone(z) /\ EvalInv
        /\ exp = r.exp /\ exp_domain = r.domain /\ Domain = exp_domain
        /\ exp \in Arg
    BY DecidedPlace, ExpWalks, ZoneIs
  <1>1. PtrKey \in Key
    BY KeyTypes, EvaluatorAssumption
  <1>2. CASE PtrNames
    <2>1. /\ pc = "names" /\ status = "ready" /\ pc' = "each"
          /\ names' = First(MaxPtr, reply.answers) /\ found' = Malformed
          /\ UNCHANGED <<resume, exitVars, frameVars>>
      BY <1>2 DEF PtrNames
    <2>2. z[PtrKey] = reply
      <3>1. AskedKey = PtrKey
        BY <2>1 DEF AskedKey
      <3>. QED
        BY <2>1, <3>1, ReplyIs DEF Decided, AwaitPc
    <2>3. names' = PtrHosts(z) /\ Domain' = Domain
      BY <2>1, <2>2, DomainKept DEF PtrHosts, Records
    <2>4. AtMacro(z, Key)'
      BY <1>0, <1>1, <2>1, <2>3, MacroBegins
    <2>. QED
      BY <2>1, <2>4, ExpWalkKeeps
  <1>3. CASE AskHost
    <2>1. /\ pc = "each" /\ pc' = "host"
          /\ UNCHANGED <<walkVars, exitVars, frameVars>>
      BY <1>3 DEF AskHost, Ask
    <2>2. Domain' = Domain /\ names' = names /\ found' = found /\ resume' = resume
      BY <2>1, DomainKept DEF walkVars
    <2>3. AtMacro(z, Key)
      BY <2>1, ExpWalks
    <2>4. AtMacro(z, Key)'
      BY <2>2, <2>3 DEF AtMacro
    <2>. QED
      BY <2>1, <2>2, <2>4, ExpWalkKeeps
  <1>4. CASE HostAnswered
    <2> PICK h : h = Head(names)
      OBVIOUS
    <2> DEFINE self == \E i \in DOMAIN reply.answers : reply.answers[i] = "self"
    <2>1. /\ pc = "host" /\ status = "ready" /\ NextHost
          /\ found' = IF self /\ Better(h) THEN h ELSE found
      BY <1>0, <1>4 DEF HostAnswered
    <2>2. /\ pc' = "each" /\ names' = Tail(names)
          /\ UNCHANGED <<resume, exitVars, frameVars>>
      BY <2>1 DEF NextHost
    <2>3. names # <<>>
      BY <1>0, <2>1 DEF EvalInv, Place
    <2>4. z[HostKey(h)] = reply /\ HostKey(h) \in Key
      <3>1. AskedKey = HostKey(h)
        BY <2>1 DEF AskedKey
      <3>. QED
        BY <2>1, <3>1, ReplyIs DEF Decided, AwaitPc
    <2>5. In(z, h, {"self"}) <=> self
      BY <2>4 DEF In, Records
    <2>. HIDE DEF self
    <2>6. Domain' = Domain /\ AtMacro(z, Key)
      BY <2>1, <2>2, DomainKept, ExpWalks
    <2>7. found' = IF In(z, Head(names), {"self"}) /\ Better(Head(names))
                     THEN Head(names) ELSE found
      BY <2>1, <2>5
    <2>8. AtMacro(z, Key)'
      BY <1>0, <2>2, <2>3, <2>4, <2>6, <2>7, MacroNext
    <2>. QED
      BY <2>2, <2>8, ExpWalkKeeps
  <1>5. CASE MacroDone
    <2>1. /\ pc = "each" /\ pc' = resume /\ names = <<>> /\ target' = found
          /\ UNCHANGED <<resume, exitVars, frameVars>>
      BY <1>5 DEF MacroDone
    <2>2. exp' = exp /\ exp_domain' = exp_domain /\ text' = text
      BY <2>1 DEF exitVars
    <2>3. found = RefP(z, r.domain)
      BY <1>0, <2>1, ExpWalks, MacroEnds
    <2>4. CASE resume = "exp_ask"
      <3>1. target' = RefExpTarget(z, r)
        BY <1>0, <2>1, <2>3, <2>4, ExpWalks DEF RefExpTarget
      <3>. QED
        BY <1>0, <2>1, <2>2, <2>4, <3>1 DEF Explained, WalkPc
    <2>5. CASE resume = "exp_done"
      <3>1. TextIs(z, r) /\ ExpOf[text] \in {"pmacro", "pbad"}
        BY <2>5, ExpWalks
      <3>2. TextIs(z, r)' /\ ExpOf[text'] \in {"pmacro", "pbad"}
        BY <2>2, <3>1 DEF TextIs
      <3>. QED
        BY <1>0, <2>1, <2>2, <2>5, <3>2 DEF Explained, WalkPc
    <2>. QED
      BY <2>4, <2>5, ExpWalks
  <1>. QED
    BY <1>2, <1>3, <1>4, <1>5

-----------------------------------------------------------------------------
\* What every step of a decided verdict leaves alone.
Kept ==
  /\ UNCHANGED <<cache, void_used, void_exceeded>> /\ stack' = <<>>
  /\ result' # "pending"
  /\ ~void_exceeded => result' = result

LEMMA QueryKept ==
  ASSUME NEW k, Query(k), UNCHANGED <<stack, result>>, result # "pending",
         stack = <<>>
  PROVE  Kept
  BY DEF Kept, Query, CacheHit, PastDeadline, OverBudget, Send, limitVars,
         lookupVars

LEMMA ExpReturnKept ==
  ASSUME NEW t, ExpReturn(t), result # "pending", stack = <<>>
  PROVE  Kept
  BY DEF Kept, ExpReturn, LeaveExempt, limitVars, lookupVars, frameVars

LEMMA SilentKept ==
  ASSUME UNCHANGED <<sessionVars, frameVars, result>>, result # "pending",
         stack = <<>>
  PROVE  Kept
  BY DEF Kept, sessionVars, limitVars, lookupVars, frameVars

LEMMA DecidedKept ==
  ASSUME NEW d, NEW K, Decided(d, K), Step
  PROVE  Kept
  <1>0. result # "pending" /\ stack = <<>> /\ ~terms_exceeded
    BY DEF Decided
  <1>1. CASE ExpEnter
    BY <1>0, <1>1 DEF Kept, ExpEnter, EnterExempt, limitVars, lookupVars,
                      frameVars, exitVars
  <1>2. CASE ExpTarget \/ PtrNames \/ MacroDone
    BY <1>0, <1>2, SilentKept DEF ExpTarget, PtrNames, MacroDone, exitVars
  <1>3. CASE ExpTargetMacro \/ ExpTextMacro
    BY <1>0, <1>3, QueryKept DEF ExpTargetMacro, ExpTextMacro, Expand,
                                 exitVars, frameVars
  <1>4. CASE ExpAsk
    BY <1>0, <1>4, QueryKept, ExpReturnKept DEF ExpAsk, Ask, exitVars,
                                                frameVars
  <1>5. CASE ExpReply
    BY <1>0, <1>5, SilentKept, ExpReturnKept DEF ExpReply
  <1>6. CASE ExpText \/ ExpDone \/ ExpRaised
    BY <1>0, <1>6, ExpReturnKept DEF ExpText, ExpDone, ExpRaised
  <1>7. CASE AskHost
    BY <1>0, <1>7, QueryKept DEF AskHost, Ask, exitVars, frameVars
  <1>8. CASE pc \in WalkPc /\ HostAnswered
    <2>1. NextHost
      BY <1>8, DecidedPlace DEF HostAnswered
    <2>. QED
      BY <1>0, <2>1, SilentKept DEF NextHost, exitVars
  <1>9. CASE Finish
    BY <1>0, <1>9 DEF Kept, Finish, Breached, sessionVars, limitVars,
                      lookupVars, frameVars
  <1>. QED
    BY <1>1, <1>2, <1>3, <1>4, <1>5, <1>6, <1>7, <1>8, <1>9, DecidedSteps

LEMMA DecidedStays ==
  ASSUME NEW d, NEW K, Decided(d, K), Step, NEW z, Agrees(z), NEW r,
         Explained(z, r), ~void_exceeded
  PROVE  Explained(z, r)'
  <1>1. ~ExpRaised
    BY DEF ExpRaised, Decided, LimitRaised
  <1>2. CASE Finish
    BY <1>2 DEF Finish, Explained, Explaining, ExpPc, WalkPc
  <1>. QED
    BY <1>1, <1>2, DecidedSteps, ExpStart, ExpAskStays, ExpReplyStays,
       ExpTextStays, ExpWalkStays

LEMMA DecidedStep ==
  ASSUME NEW d, NEW K, Decided(d, K), Step
  PROVE  Follows(d)'
  <1>1. Kept
    BY DecidedKept
  <1>2. Looked(K)' /\ \A z : Agrees(z)' <=> Agrees(z)
    BY <1>1, SilentStep DEF Kept, Decided
  <1>3. ASSUME NEW z, Agrees(z)'
        PROVE  Settles(z, d, K)'
    <2> PICK r : r = RefEvaluate(z, d)
      OBVIOUS
    <2>1. /\ K \subseteq r.keys
          /\ ~void_exceeded =>
               /\ r.terms <= MaxTerms /\ r.keys = K /\ r.v = result
               /\ result = "fail" => Explained(z, r)
      BY <1>2, <1>3 DEF Decided, Settles
    <2>2. ~void_exceeded /\ result = "fail" => Explained(z, r)'
      BY <1>2, <1>3, <2>1, DecidedStays
    <2>3. (void_exceeded' <=> void_exceeded) /\ (~void_exceeded => result' = result)
      BY <1>1 DEF Kept
    <2>. QED
      BY <2>1, <2>2, <2>3 DEF Settles
  <1>4. result' # "pending" /\ stack' = <<>>
    BY <1>1 DEF Kept
  <1>5. \A z : Agrees(z)' => Says(z, d, K)'
    BY <1>3, <1>4 DEF Says
  <1>. QED
    BY <1>2, <1>4, <1>5 DEF Follows

-----------------------------------------------------------------------------
\* The lookups for exp= count as no voids.
LEMMA HearsSettled ==
  ASSUME NEW k, Hears(k), void_exempt, NEW K, Looked(K)
  PROVE  Looked(K)' /\ void_used' = void_used
  <1>0. K \in SUBSET Key /\ \A x \in K : Resolved(x)
    BY DEF Looked
  <1>1. void_used' = void_used
    BY DEF Hears, Counts
  <1>2. \A x \in K : cache'[x] = cache[x]
    <2>1. ASSUME NEW x \in K
          PROVE  cache'[x] = cache[x]
      <3>1. CASE x # k
        BY <1>0, <3>1 DEF Hears
      <3>2. CASE x = k
        BY <1>0, <3>2 DEF Hears, Resolved
      <3>. QED
        BY <3>1, <3>2
    <2>. QED
      BY <2>1
  <1>3. Voids(K)' = Voids(K)
    BY <1>2 DEF Voids
  <1>4. \A x \in K : Resolved(x)'
    BY <1>0, <1>2 DEF Resolved
  <1>. QED
    BY <1>0, <1>1, <1>3, <1>4 DEF Looked

LEMMA HearsDecided ==
  ASSUME NEW d, NEW K, Decided(d, K), Hears(key), UNCHANGED evalVars,
         NestInv'
  PROVE  Follows(d)'
  <1> PICK k : k = key
    OBVIOUS
  <1>0. Hears(k) /\ Looked(K) /\ status = "await" /\ Await
    BY DEF Hears, Decided
  <1>1. void_exempt
    <2>1. pc \in AwaitPc
      BY <1>0 DEF Await
    <2>. QED
      BY <2>1, DecidedPlace DEF AwaitPc, Explaining, ExpPc, WalkPc
  <1>2. Looked(K)' /\ void_used' = void_used
    BY <1>0, <1>1, HearsSettled
  <1>3. void_exceeded' <=> void_exceeded
    BY <1>2 DEF Decided, NestInv, LimitInv, FlagsTellBreach
  <1>4. ASSUME NEW z, Agrees(z)'
        PROVE  Settles(z, d, K)'
    <2> PICK r : r = RefEvaluate(z, d)
      OBVIOUS
    <2>1. Agrees(z)
      BY <1>0, <1>4, HearsAgrees
    <2>2. Settles(z, d, K)
      BY <2>1 DEF Decided
    <2>3. Explained(z, r)' <=> Explained(z, r)
      <3>1. UNCHANGED <<pc, work, resume, exp, exp_domain, text, target,
                        explanation, names, found>>
        BY DEF evalVars
      <3>2. Domain' = Domain
        BY DEF evalVars, Domain, Top
      <3>3. /\ AtMacro(z, Key)' <=> AtMacro(z, Key)
            /\ TextIs(z, r)' <=> TextIs(z, r)
        BY <3>1, <3>2 DEF AtMacro, TextIs
      <3>4. Explaining' <=> Explaining
        BY <3>1 DEF Explaining
      <3>. QED
        BY <3>1, <3>3, <3>4 DEF Explained
    <2>. QED
      BY <1>3, <2>2, <2>3 DEF Settles, evalVars
  <1>5. result' # "pending" /\ stack' = <<>>
    BY DEF evalVars, Decided
  <1>6. \A z : Agrees(z)' => Says(z, d, K)'
    BY <1>4, <1>5 DEF Says
  <1>. QED
    BY <1>2, <1>5, <1>6 DEF Follows

LEMMA DecidedNext ==
  ASSUME Steady, NestInv', ~expired', NEW d, NEW K, Decided(d, K), Next
  PROVE  FollowsOrOver(d)'
  <1>1. CASE Step
    <2>1. ~DnsTerm
      BY DecidedPlace DEF DnsTerm, ExpPc, WalkPc
    <2>2. ~terms_exceeded'
      BY <1>1, <2>1, OnlyDnsTerm DEF Decided
    <2>. QED
      BY <1>1, <2>2, DecidedStep DEF FollowsOrOver
  <1>2. CASE Environment
    <2>1. Hears(key) /\ UNCHANGED evalVars
      BY <1>2, AnswerHears DEF Decided, NestInv, EvalInv, Environment
    <2>2. ~terms_exceeded'
      BY <2>1 DEF Hears, Decided
    <2>. QED
      BY <2>1, <2>2, HearsDecided DEF FollowsOrOver
  <1>. QED
    BY <1>1, <1>2 DEF Next

-----------------------------------------------------------------------------
(***************************************************************************)
(* Nothing happens.                                                        *)
(***************************************************************************)
LEMMA SameCode ==
  ASSUME UNCHANGED vars
  PROVE  /\ Asked' = Asked /\ (Form' <=> Form)
         /\ \A z, d, L, w : Run(z, d, L, w)' <=> Run(z, d, L, w)
         /\ \A z, r : Explained(z, r)' <=> Explained(z, r)
  <1>1. /\ UNCHANGED <<stack, pc, target, names, found, work, resume, ret, exp,
                       exp_domain, text, explanation>>
        /\ Top' = Top /\ Term' = Term /\ Policy' = Policy /\ N' = N
        /\ Domain' = Domain /\ (TakesOverride' <=> TakesOverride)
        /\ terms_used' = terms_used
    BY DEF vars, evalVars, sessionVars, limitVars, Top, Term, Past, Policy, N,
           Domain, TakesOverride
  <1>2. Asked' = Asked
    <2>1. AskedKey' = AskedKey
      BY <1>1 DEF AskedKey
    <2>. QED
      BY <1>1, <2>1 DEF Asked
  <1>3. Form' <=> Form
    <2>1. Placed' <=> Placed
      BY <1>1 DEF Placed, Walking, OutsideTarget
    <2>. QED
      BY <1>1, <2>1 DEF Form
  <1>4. ASSUME NEW z, NEW d, NEW L, NEW w
        PROVE  Run(z, d, L, w)' <=> Run(z, d, L, w)
    <2>1. /\ AtCheck(z, L, w)' <=> AtCheck(z, L, w)
          /\ AtFrom(z, L, w, terms_used)' <=> AtFrom(z, L, w, terms_used)
          /\ AtFrom(z, L, w, terms_used - 1)' <=> AtFrom(z, L, w, terms_used - 1)
          /\ AtTarget(z, L)' <=> AtTarget(z, L)
      BY <1>1 DEF AtCheck, AtFrom, AtTarget
    <2>2. AtWalk(z, L)' <=> AtWalk(z, L)
      BY <1>1 DEF AtWalk, AtMx, AtPtr, AtMacro
    <2>3. AtReturn(w, L)' <=> AtReturn(w, L)
      BY <1>1 DEF AtReturn
    <2>4. At(z, L, w)' <=> At(z, L, w)
      BY <1>1, <2>1, <2>2, <2>3 DEF At
    <2>. QED
      BY <1>1, <2>4 DEF Run
  <1>5. ASSUME NEW z, NEW r
        PROVE  Explained(z, r)' <=> Explained(z, r)
    <2>1. /\ AtMacro(z, Key)' <=> AtMacro(z, Key)
          /\ TextIs(z, r)' <=> TextIs(z, r)
      BY <1>1 DEF AtMacro, TextIs
    <2>2. Explaining' <=> Explaining
      BY <1>1 DEF Explaining
    <2>. QED
      BY <1>1, <2>1, <2>2 DEF Explained
  <1>. QED
    BY <1>2, <1>3, <1>4, <1>5

LEMMA FollowsStutters ==
  ASSUME UNCHANGED vars, NEW d, Follows(d)
  PROVE  Follows(d)'
  <1>0. /\ UNCHANGED <<cache, void_used, void_exceeded, status, result, stack>>
        /\ Asked' = Asked /\ (Form' <=> Form)
    BY SameCode DEF vars, sessionVars, limitVars, lookupVars, evalVars
  <1>1. PICK K : /\ Looked(K)
                 /\ result = "pending" =>
                      /\ Form /\ Cached \subseteq K
                      /\ status = "ready" => Asked \subseteq K
                 /\ result # "pending" => stack = <<>>
                 /\ \A z : Agrees(z) => Says(z, d, K)
    BY DEF Follows
  <1>2. /\ Cached' = Cached /\ Looked(K)' /\ \A z : Agrees(z)' <=> Agrees(z)
    BY <1>0, <1>1, SilentStep
  <1>3. ASSUME NEW z, Agrees(z)'
        PROVE  Says(z, d, K)'
    <2>1. Says(z, d, K)
      BY <1>1, <1>2, <1>3
    <2>2. CASE result = "pending"
      <3> PICK L : L = K \cup Asked
        OBVIOUS
      <3>1. PICK w : Run(z, d, L, w)
        BY <2>1, <2>2 DEF Says
      <3>2. Run(z, d, L, w)'
        BY <3>1, SameCode
      <3>3. (K \cup Asked)' = L
        BY <1>0
      <3>. QED
        BY <1>0, <2>2, <3>2, <3>3 DEF Says
    <2>3. CASE result # "pending"
      <3> PICK r : r = RefEvaluate(z, d)
        OBVIOUS
      <3>1. Settles(z, d, K)
        BY <2>1, <2>3 DEF Says
      <3>2. Explained(z, r)' <=> Explained(z, r)
        BY SameCode
      <3>3. Settles(z, d, K)'
        BY <1>0, <3>1, <3>2 DEF Settles
      <3>. QED
        BY <1>0, <2>3, <3>3 DEF Says
    <2>. QED
      BY <2>2, <2>3
  <1>. QED
    BY <1>0, <1>1, <1>2, <1>3 DEF Follows

-----------------------------------------------------------------------------
(***************************************************************************)
(* Every step.                                                             *)
(***************************************************************************)
\* What was heard stays, the clock goes on, and what was spent is spent.
LEMMA Monotone ==
  ASSUME TypeInv, [SessionNext]_sessionVars
  PROVE  /\ \A k \in Key : cache[k] # NoAnswer => cache'[k] = cache[k]
         /\ ~expired' => ~expired
         /\ ~BudgetSpent' => ~BudgetSpent
         /\ terms_exceeded => terms_exceeded'
  <1>0. /\ network_queries \in Nat
        /\ cache \in [Key -> (UNION {Reply[x] : x \in Key}) \cup {NoAnswer}]
    BY DEF TypeInv, TypeOK
  <1>1. CASE UNCHANGED sessionVars \/ Elapse \/ EnterExempt \/ LeaveExempt
             \/ CheckDeadline \/ TimeLimit \/ LookupRaises
    <2>1. /\ UNCHANGED <<cache, network_queries, terms_exceeded>>
          /\ expired => expired'
      BY <1>1 DEF sessionVars, limitVars, lookupVars, Elapse, EnterExempt,
                  LeaveExempt, CheckDeadline, TimeLimit, LookupRaises
    <2>. QED
      BY <2>1 DEF BudgetSpent
  <1>5. CASE ConsumeTerm
    <2>1. /\ UNCHANGED <<cache, network_queries, expired>>
          /\ terms_exceeded => terms_exceeded'
      BY <1>5 DEF ConsumeTerm, lookupVars
    <2>. QED
      BY <2>1 DEF BudgetSpent
  <1>2. ASSUME NEW k \in Key, Query(k)
        PROVE  /\ cache' = cache /\ expired' = expired
               /\ terms_exceeded' = terms_exceeded
               /\ ~BudgetSpent' => ~BudgetSpent
    <2>1. /\ cache' = cache /\ expired' = expired
          /\ terms_exceeded' = terms_exceeded
      BY <1>2 DEF Query, CacheHit, PastDeadline, OverBudget, Send, lookupVars,
                  limitVars
    <2>2. network_queries' = network_queries \/ ~BudgetSpent
      BY <1>2 DEF Query, CacheHit, PastDeadline, OverBudget, Send, lookupVars
    <2>. QED
      BY <2>1, <2>2 DEF BudgetSpent
  <1>3. ASSUME NEW k \in Key, NEW a \in Reply[k], Answer(a)
        PROVE  /\ \A x \in Key : cache[x] # NoAnswer => cache'[x] = cache[x]
               /\ UNCHANGED <<expired, network_queries, terms_exceeded>>
    <2>1. key \in Key /\ cache[key] = NoAnswer
      BY <1>3 DEF Answer, TypeInv, Awaiting
    <2>2. cache' = cache \/ cache' = [cache EXCEPT ![key] = a]
      BY <1>3 DEF Answer
    <2>3. \A x \in Key : x # key => cache'[x] = cache[x]
      BY <1>0, <2>1, <2>2
    <2>. QED
      BY <1>3, <2>1, <2>3 DEF Answer
  <1>4. CASE \E k \in Key : \E a \in Reply[k] : Answer(a)
    BY <1>3, <1>4 DEF BudgetSpent
  <1>. QED
    BY <1>1, <1>2, <1>4, <1>5 DEF SessionNext

LEMMA StartBegins ==
  ASSUME EvalInv, VerdictInv, pc = "start", Next
  PROVE  \E d \in Start : Begin(d)
  <1>1. status = "ready" /\ ~void_exempt
    BY DEF EvalInv, Place, VerdictInv, Exempts, Explaining, ExpPc, WalkPc
  <1>2. ~Environment
    BY DEF Environment
  <1>3. ~EnterLate /\ ~EnterMalformed /\ ~EnterOverride /\ ~EnterQuery
        /\ ~FetchPolicy /\ ~TermLate /\ ~LocalTerm /\ ~DnsTerm /\ ~Default
        /\ ~Target /\ ~TargetMacro
    BY DEF EnterLate, EnterMalformed, EnterOverride, EnterQuery, FetchPolicy,
           TermLate, LocalTerm, DnsTerm, Default, Target, TargetMacro
  <1>4. ~AskTarget /\ ~AskPtr /\ ~Recurse /\ ~Answered /\ ~Exchanges
        /\ ~PtrNames /\ ~SkipHost /\ ~AskHost /\ ~HostAnswered /\ ~NamesSpent
        /\ ~MacroDone
    BY DEF AskTarget, AskPtr, Recurse, Answered, Exchanges, PtrNames,
           SkipHost, AskHost, HostAnswered, NamesSpent, MacroDone
  <1>5. ~ReturnInclude /\ ~IncludeMatch /\ ~ReturnRedirect /\ ~ReturnTop
        /\ ~Unwind /\ ~Finish /\ ~ExpRaised
    BY <1>1 DEF ReturnInclude, IncludeMatch, ReturnRedirect, ReturnTop,
                Unwind, Finish, ExpRaised, Raised
  <1>6. ~ExpEnter /\ ~ExpTarget /\ ~ExpTargetMacro /\ ~ExpAsk /\ ~ExpReply
        /\ ~ExpText /\ ~ExpTextMacro /\ ~ExpDone
    BY DEF ExpEnter, ExpTarget, ExpTargetMacro, ExpAsk, ExpReply, ExpText,
           ExpTextMacro, ExpDone
  <1>. QED
    BY <1>2, <1>3, <1>4, <1>5, <1>6 DEF Next, Step

LEMMA RefStep ==
  ASSUME Steady, NestInv, NestInv', VerdictInv, OnCourse, Next
  PROVE  RefInv'
  <1> SUFFICES ASSUME ~expired', ~BudgetSpent'
               PROVE  \E d \in Start : FollowsOrOver(d)'
    BY DEF RefInv, FollowsOrOver
  <1>0. EvalInv /\ TypeInv /\ [SessionNext]_sessionVars
    BY NextIsSession DEF NestInv, EvalInv
  <1>1. /\ \A k \in Key : cache[k] # NoAnswer => cache'[k] = cache[k]
        /\ ~expired /\ ~BudgetSpent
        /\ terms_exceeded => terms_exceeded'
    BY <1>0, Monotone
  <1>2. CASE pc = "start"
    <2>1. PICK d \in Start : Begin(d)
      BY <1>0, <1>2, StartBegins
    <2>2. ~terms_exceeded' /\ Follows(d)'
      BY <2>1, BeginOpen DEF OnCourse
    <2>. QED
      BY <2>2 DEF FollowsOrOver
  <1>3. CASE pc # "start"
    <2>1. PICK d \in Start : FollowsOrOver(d)
      BY <1>1, <1>3 DEF OnCourse, RefInv, FollowsOrOver
    <2>2. CASE terms_exceeded
      <3>1. \A z : Agrees(z)' => Agrees(z)
        BY <1>1 DEF Agrees
      <3>2. \A z : Agrees(z) => RefEvaluate(z, d).terms > MaxTerms
        BY <2>1, <2>2 DEF FollowsOrOver
      <3>. QED
        BY <1>1, <2>2, <3>1, <3>2 DEF FollowsOrOver
    <2>3. CASE ~terms_exceeded
      <3>1. PICK K : /\ Looked(K)
                     /\ result = "pending" =>
                          /\ Form /\ Cached \subseteq K
                          /\ status = "ready" => Asked \subseteq K
                     /\ result # "pending" => stack = <<>>
                     /\ \A z : Agrees(z) => Says(z, d, K)
        BY <2>1, <2>3 DEF FollowsOrOver, Follows
      <3>2. CASE result = "pending"
        <4>1. Opened(d, K)
          <5>1. \A z : Agrees(z) => \E w : Run(z, d, K \cup Asked, w)
            BY <3>1, <3>2 DEF Says
          <5>. QED
            BY <3>1, <3>2, <5>1 DEF Opened
        <4>2. Here
          BY <1>3, <2>3, <3>1, <3>2, OpenHere
        <4>3. Situation(d, K)
          BY <1>3, <2>3, <3>2, <4>1, <4>2 DEF Situation, OnCourse
        <4>. QED
          BY <4>3, OpenNext
      <3>3. CASE result # "pending"
        <4>1. \A z : Agrees(z) => Settles(z, d, K)
          BY <3>1, <3>3 DEF Says
        <4>2. Decided(d, K)
          BY <1>1, <1>3, <2>3, <3>1, <3>3, <4>1 DEF Decided, OnCourse
        <4>. QED
          BY <4>2, DecidedNext
      <3>. QED
        BY <3>2, <3>3
    <2>. QED
      BY <2>2, <2>3
  <1>. QED
    BY <1>2, <1>3

LEMMA RefStutters ==
  ASSUME RefInv, UNCHANGED vars
  PROVE  RefInv'
  <1>1. /\ UNCHANGED <<expired, network_queries, pc, terms_exceeded, cache>>
    BY DEF vars, sessionVars, limitVars, lookupVars, evalVars
  <1>2. \A z : Agrees(z)' <=> Agrees(z)
    BY <1>1 DEF Agrees
  <1> SUFFICES ASSUME ~expired', ~BudgetSpent', pc' # "start"
               PROVE  \E d \in Start : FollowsOrOver(d)'
    BY DEF RefInv, FollowsOrOver
  <1>3. PICK d \in Start : FollowsOrOver(d)
    BY <1>1 DEF RefInv, FollowsOrOver, BudgetSpent
  <1>4. FollowsOrOver(d)'
    BY <1>1, <1>2, <1>3, FollowsStutters DEF FollowsOrOver
  <1>. QED
    BY <1>4

LEMMA OnCourseStep ==
  Steady /\ NestInv /\ NestInv' /\ VerdictInv /\ OnCourse /\ [Next]_vars
    => OnCourse'
  <1> SUFFICES ASSUME Steady, NestInv, NestInv', VerdictInv, OnCourse,
                      [Next]_vars
               PROVE  OnCourse'
    OBVIOUS
  <1>1. EvalInv /\ TypeInv /\ LimitInv /\ [SessionNext]_sessionVars
    BY NextIsSession DEF NestInv, EvalInv
  <1>2. Heard' /\ LimitRaised'
    BY <1>1, HeardStep, LimitRaisedStep DEF OnCourse
  <1>3. Await' /\ Fresh'
    BY <1>1, AwaitStep, FreshStep DEF OnCourse
  <1>4. RefInv'
    BY RefStep, RefStutters DEF OnCourse
  <1>. QED
    BY <1>2, <1>3, <1>4 DEF OnCourse

LEMMA OnCourseInit == EvalInit => OnCourse
  <1> SUFFICES ASSUME EvalInit
               PROVE  OnCourse
    OBVIOUS
  <1>1. Heard
    <2>1. \A k \in Key : cache[k] = NoAnswer
      BY DEF EvalInit, SessionInit
    <2>2. Cached = {}
      BY <2>1 DEF Cached
    <2>. QED
      BY <2>1, <2>2, FS_EmptySet DEF Heard
  <1>2. LimitRaised /\ Await
    BY DEF EvalInit, SessionInit, LimitRaised, Await, AwaitPc, Raised
  <1>3. Fresh /\ RefInv
    BY DEF EvalInit, Fresh, RefInv
  <1>. QED
    BY <1>1, <1>2, <1>3 DEF OnCourse

-----------------------------------------------------------------------------
(***************************************************************************)
(* The verdict.                                                            *)
(***************************************************************************)
LEMMA MetAgrees ==
  ASSUME TypeOK, Heard
  PROVE  Agrees(Met)
  <1>1. ASSUME NEW k \in Key
        PROVE  /\ Met[k] \in Reply[k] \cup {DnsFailure}
               /\ cache[k] # NoAnswer => Met[k] = cache[k]
               /\ AlwaysFails(k) => Met[k] = DnsFailure
    <2>1. Met[k] = IF cache[k] = NoAnswer THEN DnsFailure ELSE cache[k]
      BY DEF Met
    <2>2. cache[k] \in Reply[k] \cup {NoAnswer}
      BY DEF TypeOK
    <2>3. cache[k] # NoAnswer => ~AlwaysFails(k)
      BY <2>2 DEF Heard, AlwaysFails
    <2>. QED
      BY <2>1, <2>2, <2>3
  <1>. QED
    BY <1>1 DEF Agrees, IsZone

LEMMA EvaluateTyped ==
  ASSUME NEW z, IsZone(z), NEW d \in Start
  PROVE  RefEvaluate(z, d) \in Outcomes
  <1>1. CASE d = BadIp
    BY <1>1 DEF RefEvaluate, Outcome, Outcomes, Verdict, Domains
  <1>2. CASE d # BadIp
    <2>1. d \in Domains /\ MaxTerms + 1 \in Nat /\ Override \in Text \cup {NoText}
      BY <1>2, EvaluatorAssumption, SessionAssumption DEF Domains
    <2>2. Walks(z)[MaxTerms + 1] \in [Nat -> Walkers]
      BY <2>1, WalksAre
    <2>3. RefCheck(z, Walks(z)[MaxTerms + 1], d, Override, 0, {}) \in Outcomes
      BY <2>1, <2>2, CheckTyped
    <2>. QED
      BY <1>2, <2>3 DEF RefEvaluate
  <1>. QED
    BY <1>1, <1>2

\* The voids of the reference are those that were met.
LEMMA MetVoids ==
  ASSUME NEW L \in SUBSET Key, Heard
  PROVE  RefVoids(Met, L) = Voids(L) /\ IsFiniteSet(Voids(L))
  <1>1. ASSUME NEW k \in Key
        PROVE  Met[k] # DnsFailure /\ IsVoid(Met[k]) <=> IsVoid(cache[k])
    <2>1. Met[k] = IF cache[k] = NoAnswer THEN DnsFailure ELSE cache[k]
      BY DEF Met
    <2>2. ~IsVoid(DnsFailure) /\ ~IsVoid(NoAnswer)
      BY DEF IsVoid, DnsFailure, NoAnswer
    <2>. QED
      BY <2>1, <2>2
  <1>2. RefVoids(Met, L) = Voids(L)
    BY <1>1 DEF RefVoids, Voids
  <1>3. Voids(L) \subseteq Cached
    BY NoAnswerIsNoVoid DEF Voids, Cached
  <1>. QED
    BY <1>2, <1>3, FS_Subset DEF Heard

LEMMA OnCourseVerdict ==
  ASSUME NestInv, VerdictInv, OnCourse
  PROVE  VerdictIsReference
  <1> SUFFICES ASSUME pc = "done", ~expired, ~BudgetSpent
               PROVE  \E d \in Start :
                        LET w == RefEvaluate(Met, d)
                        IN  /\ result = RefResult(Met, w)
                            /\ result = "fail" =>
                                 explanation = RefExplanation(Met, w)
    BY DEF VerdictIsReference
  <1>0. /\ TypeOK /\ Heard /\ result # "pending" /\ BreachIsPermerror
        /\ (void_exceeded <=> void_used > MaxVoid) /\ RefInv
        /\ void_used \in Nat /\ MaxVoid \in Nat /\ MaxTerms \in Nat
    <2>1. ~Nested /\ pc # "start"
      BY DEF Nested, MainPc, WalkPc
    <2>. QED
      BY <2>1, SessionAssumption
         DEF NestInv, EvalInv, TypeInv, LimitInv, FlagsTellBreach, VerdictInv,
             Undecided, Reported, OnCourse, TypeOK
  <1>1. PICK d \in Start : FollowsOrOver(d)
    BY <1>0 DEF RefInv, FollowsOrOver
  <1> PICK r : r = RefEvaluate(Met, d)
    OBVIOUS
  <1>2. Agrees(Met) /\ r.keys \subseteq Key /\ r.terms \in Nat
    <2>1. r \in Outcomes /\ Agrees(Met)
      BY <1>0, MetAgrees, EvaluateTyped, ZoneIs
    <2>. QED
      BY <2>1 DEF Outcomes
  <1>3. CASE terms_exceeded
    <2>1. r.terms > MaxTerms /\ result = "permerror"
      BY <1>0, <1>1, <1>2, <1>3 DEF FollowsOrOver, BreachIsPermerror
    <2>2. RefResult(Met, r) = "permerror"
      BY <2>1 DEF RefResult
    <2>. QED
      BY <2>1, <2>2
  <1>4. CASE ~terms_exceeded
    <2>1. PICK K : Looked(K) /\ Settles(Met, d, K)
      BY <1>0, <1>1, <1>2, <1>4 DEF FollowsOrOver, Follows, Says
    <2>2. /\ K \in SUBSET Key /\ void_used = Cardinality(Voids(K))
          /\ K \subseteq r.keys
          /\ ~void_exceeded =>
               /\ r.terms <= MaxTerms /\ r.keys = K /\ r.v = result
               /\ result = "fail" => Explained(Met, r)
      BY <2>1 DEF Looked, Settles
    <2>3. /\ RefVoids(Met, r.keys) = Voids(r.keys)
          /\ IsFiniteSet(Voids(r.keys))
      BY <1>0, <1>2, MetVoids
    <2>4. CASE void_exceeded
      <3>1. Cardinality(Voids(K)) <= Cardinality(Voids(r.keys))
            /\ Cardinality(Voids(K)) \in Nat /\ Cardinality(Voids(r.keys)) \in Nat
        <4>1. Voids(K) \subseteq Voids(r.keys)
          BY <2>2 DEF Voids
        <4>. QED
          BY <2>3, <4>1, FS_Subset, FS_CardinalityType
      <3>2. Cardinality(RefVoids(Met, r.keys)) > MaxVoid
        BY <1>0, <2>2, <2>3, <2>4, <3>1
      <3>3. RefResult(Met, r) = "permerror" /\ result = "permerror"
        BY <1>0, <2>4, <3>2 DEF RefResult, BreachIsPermerror
      <3>. QED
        BY <3>3
    <2>5. CASE ~void_exceeded
      <3>1. ~(r.terms > MaxTerms) /\ ~(Cardinality(RefVoids(Met, r.keys)) > MaxVoid)
        BY <1>0, <1>2, <2>2, <2>3, <2>5
      <3>2. RefResult(Met, r) = result
        BY <2>2, <2>5, <3>1 DEF RefResult
      <3>3. result = "fail" => explanation = RefExplanation(Met, r)
        BY <2>2, <2>5 DEF Explained
      <3>. QED
        BY <3>2, <3>3
    <2>. QED
      BY <2>4, <2>5
  <1>. QED
    BY <1>3, <1>4

-----------------------------------------------------------------------------
\* Whatever the zone holds and whatever the limits are, an evaluation that
\* neither the deadline nor the query budget cuts says what the reference says
\* of the answers it got, if a lookup that fails once would always fail: the
\* cache, the order of the lookups, audit mode and the exceptions that unwind
\* the recursion change neither the verdict nor the explanation
\* (session.py:61-63, evaluator.py:99-156).
THEOREM EvaluatorVerdictIsReference == Steady => (Spec => []VerdictIsReference)
  <1> SUFFICES ASSUME Steady
               PROVE  Spec => []VerdictIsReference
    OBVIOUS
  <1>1. NestInv /\ NestInv' /\ VerdictInv /\ OnCourse /\ [Next]_vars => OnCourse'
    BY OnCourseStep
  <1>2. NestInv /\ VerdictInv /\ OnCourse => VerdictIsReference
    BY OnCourseVerdict
  <1>. QED
    BY <1>1, <1>2, OnCourseInit, NestHolds, VerdictHolds, PTL DEF Spec
=============================================================================

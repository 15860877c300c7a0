----------------------------- MODULE Reference -----------------------------
(***************************************************************************)
(* What an evaluation should say, as a function of the zone: no program    *)
(* counter, no session, no cache, no audit mode and no exceptions.  A zone *)
(* is a function z that gives each lookup its answer, or DnsFailure.       *)
(*                                                                         *)
(* A mechanism is a hit, a miss or an error, and a set of names it looked  *)
(* up; a policy is the first of its mechanisms that is not a miss.  The    *)
(* limits come last: a verdict stands if the walk that gave it needed at   *)
(* most MaxTerms terms and met at most MaxVoid names that do not exist.    *)
(***************************************************************************)
EXTENDS Evaluator, FiniteSetsExt

Failed(z, k)  == z[k] = DnsFailure
Records(z, k) == z[k].answers
HostKey(n)    == <<n, AddrType>>
PtrKey        == <<Rev, "PTR">>

\* Host n has an address in one of the classes.
In(z, n, classes) ==
  \E i \in DOMAIN Records(z, HostKey(n)) : Records(z, HostKey(n))[i] \in classes

\* The positions of s up to the first name in stops.
Tried(s, stops) == {i \in DOMAIN s : \A j \in 1..(i - 1) : s[j] \notin stops}

-----------------------------------------------------------------------------
(***************************************************************************)
(* Arguments.                                                              *)
(***************************************************************************)
PtrHosts(z)  == First(MaxPtr, Records(z, PtrKey))
Confirmed(z) == {i \in DOMAIN PtrHosts(z) : In(z, PtrHosts(z)[i], {"self"})}

\* Of the positions ok of s: d itself, or the first name below d, or the first.
Preferred(s, ok, d) ==
  LET under == {i \in ok : <<s[i], d>> \in Below}
  IN  CASE ok = {} -> Malformed
        [] \E i \in ok : s[i] = d -> d
        [] OTHER -> s[Min(IF under # {} THEN under ELSE ok)]

\* %{p} in the policy of d.
RefP(z, d) == Preferred(PtrHosts(z), Confirmed(z), d)

RefArg(z, arg, d) ==
  CASE arg = Implicit -> d
    [] arg = PMacro -> RefP(z, d)
    [] OTHER -> arg

HostKeys(s, at) == {HostKey(s[i]) : i \in at}

\* What expanding the argument looks up.
ArgKeys(z, arg) ==
  IF arg = PMacro THEN {PtrKey} \cup HostKeys(PtrHosts(z), DOMAIN PtrHosts(z))
                  ELSE {}

-----------------------------------------------------------------------------
(***************************************************************************)
(* Mechanisms other than include, with n for their target.                 *)
(***************************************************************************)
Out(says, keys) == [says |-> says, keys |-> keys]
Hit(b) == IF b THEN "hit" ELSE "miss"

RefLocal(t) ==
  Out(Hit(\/ t.name = "all"
          \/ /\ (t.name = "ip4") <=> (AddrType = "A")
             /\ "self" \in t.hit), {})

RefA(z, t, n) ==
  Out(IF Failed(z, HostKey(n)) THEN "temperror" ELSE Hit(In(z, n, t.hit)),
      {HostKey(n)})

RefExists(z, n) ==
  Out(IF Failed(z, <<n, "A">>) THEN "temperror"
                               ELSE Hit(Records(z, <<n, "A">>) # <<>>),
      {<<n, "A">>})

\* The exchanges are asked up to the first that matches or fails.
RefMx(z, t, n) ==
  LET mxs == Records(z, <<n, "MX">>)
      fails == {h \in Name : Failed(z, HostKey(h))}
      hits  == {h \in Name : In(z, h, t.hit)}
      tried == Tried(mxs, fails \cup hits)
  IN  IF Failed(z, <<n, "MX">>) THEN Out("temperror", {<<n, "MX">>})
      ELSE IF Len(mxs) > MaxMx THEN Out("permerror", {<<n, "MX">>})
      ELSE Out(IF \E i \in tried : mxs[i] \in fails THEN "temperror"
               ELSE Hit(\E i \in tried : mxs[i] \in hits),
               {<<n, "MX">>} \cup HostKeys(mxs, tried))

\* Of the names of the client those at or below n, up to one that is its own.
RefPtr(z, n) ==
  LET s == PtrHosts(z)
      hits  == {h \in Name : <<h, n>> \in Below /\ In(z, h, {"self"})}
      tried == {i \in Tried(s, hits) : <<s[i], n>> \in Below}
  IN  Out(Hit(\E i \in tried : s[i] \in hits), {PtrKey} \cup HostKeys(s, tried))

RefMechanism(z, t, d) ==
  LET n == RefArg(z, t.arg, d)
  IN  CASE t.name \notin DnsMechanism -> RefLocal(t)
        [] t.name = "ptr" -> RefPtr(z, n)
        [] t.name \in {"a", "mx", "exists"} /\ n \notin Name -> Out("miss", {})
        [] t.name = "a" /\ n \in Name -> RefA(z, t, n)
        [] t.name = "exists" /\ n \in Name -> RefExists(z, n)
        [] t.name = "mx" /\ n \in Name -> RefMx(z, t, n)

-----------------------------------------------------------------------------
(***************************************************************************)
(* Policies.  A walk says what is left of a policy of which so many terms  *)
(* are left, after "terms" terms and the lookups "keys".                   *)
(***************************************************************************)

\* What a check_host() gives, and all that was spent to get it.
Outcome(v, e, d, terms, keys) ==
  [v |-> v, exp |-> e, domain |-> d, terms |-> terms, keys |-> keys]

WalkArgs == [policy : PolicyType, domain : Name \cup {Malformed},
             terms : Nat, keys : SUBSET Key]

Args(p, d, terms, keys) ==
  [policy |-> p, domain |-> d, terms |-> terms, keys |-> keys]

\* The policy of d, or the verdict if it has none.
Fetched(says, p, keys) == [says |-> says, policy |-> p, keys |-> keys]

RefParse(t, keys) ==
  IF PolicyOf[t] \in {NotSpf, BadSyntax} THEN Fetched("permerror", NoPolicy, keys)
                                         ELSE Fetched("policy", PolicyOf[t], keys)

RefFetch(z, d, override) ==
  LET txt == <<d, "TXT">>
      s   == Records(z, txt)
      spf == {i \in DOMAIN s : PolicyOf[s[i]] # NotSpf}
  IN  CASE d \notin Name -> Fetched("none", NoPolicy, {})
        [] d \in Name /\ override # NoText -> RefParse(override, {})
        [] OTHER ->
             IF Failed(z, txt) THEN Fetched("temperror", NoPolicy, {txt})
             ELSE IF spf = {} THEN Fetched("none", NoPolicy, {txt})
             ELSE IF \E i, j \in spf : i # j
                    THEN Fetched("permerror", NoPolicy, {txt})
             ELSE RefParse(s[CHOOSE i \in spf : TRUE], {txt})

\* check_host(d) after "terms" terms and the lookups "keys".
RefCheck(z, walk, d, override, terms, keys) ==
  LET f   == RefFetch(z, d, override)
      all == keys \cup f.keys
  IN  IF f.says = "policy"
        THEN walk[Len(f.policy.terms)][Args(f.policy, d, terms, all)]
        ELSE Outcome(f.says, NoArg, d, terms, all)

\* The i-th term of p, and redirect= after the last one.
TermAt(p, i) ==
  IF i \in DOMAIN p.terms THEN p.terms[i]
  ELSE [name |-> "redirect", qualifier |-> "neutral", arg |-> p.redirect,
        hit |-> {}]

\* An outcome that is none is permerror for who asked for it.
NoneIsError(w) == IF w.v = "none" THEN [w EXCEPT !.v = "permerror"] ELSE w

\* What an include with outcome w makes of the policy p of d: next is the rest
\* of p, after the term t.
RefIncluded(next, w, t, p, d) ==
  CASE w.v = "pass" -> Outcome(t.qualifier, p.exp, d, w.terms, w.keys)
    [] w.v \in {"fail", "softfail", "neutral"} ->
         next[Args(p, d, w.terms, w.keys)]
    [] OTHER -> NoneIsError(w)

\* What another mechanism makes of it, with outcome m.
RefMatched(next, m, t, p, d, terms, keys) ==
  CASE m.says = "miss" -> next[Args(p, d, terms, keys)]
    [] m.says = "hit" -> Outcome(t.qualifier, p.exp, d, terms, keys)
    [] OTHER -> Outcome(m.says, NoArg, d, terms, keys)

\* The policy from its term t on: inner walks the policies it leads to, next
\* the rest of it.
RefTerm(z, inner, next, t, a) ==
  LET p     == a.policy
      d     == a.domain
      spent == a.terms + 1
      asked == a.keys \cup ArgKeys(z, t.arg)
      m     == RefMechanism(z, t, d)
      w     == RefCheck(z, inner, RefArg(z, t.arg, d), NoText, spent, asked)
  IN  CASE t.name = "redirect" /\ t.arg = NoArg ->
             Outcome("neutral", p.exp, d, a.terms, a.keys)
        [] t.name \notin DnsMechanism \cup {"redirect"} ->
             RefMatched(next, m, t, p, d, a.terms, a.keys)
        [] OTHER ->
             IF spent > MaxTerms
               THEN Outcome("permerror", NoArg, d, spent, a.keys)
             ELSE IF t.name = "redirect" THEN NoneIsError(w)
             ELSE IF t.name = "include" THEN RefIncluded(next, w, t, p, d)
             ELSE RefMatched(next, m, t, p, d, spent, asked \cup m.keys)

\* The walks of policies, given those of the policies they lead to.
Walk(z, inner) ==
  LET from[left \in Nat] ==
        [a \in WalkArgs |->
           RefTerm(z, inner, from[left - 1],
                   TermAt(a.policy, Len(a.policy.terms) + 1 - left), a)]
  IN  from

\* The same where a policy can lead to others so many times; the last of them
\* is never reached.
Walks(z) ==
  LET upto[n \in Nat] ==
        IF n = 0
          THEN [left \in Nat |->
                  [a \in WalkArgs |->
                     Outcome("permerror", NoArg, a.domain, a.terms, a.keys)]]
          ELSE Walk(z, upto[n - 1])
  IN  upto

\* evaluate(d): each include or redirect costs a term.
RefEvaluate(z, d) ==
  IF d = BadIp THEN Outcome("permerror", NoArg, Malformed, 0, {})
               ELSE RefCheck(z, Walks(z)[MaxTerms + 1], d, Override, 0, {})

\* The names among keys that are void lookups.
RefVoids(z, keys) == {k \in keys : z[k] # DnsFailure /\ IsVoid(z[k])}

RefResult(z, w) ==
  IF w.terms > MaxTerms \/ Cardinality(RefVoids(z, w.keys)) > MaxVoid
    THEN "permerror" ELSE w.v

\* The name exp= leads to.
RefExpTarget(z, w) == IF w.exp = PMacro THEN RefP(z, w.domain) ELSE w.exp

RefExplanation(z, w) ==
  LET n == RefExpTarget(z, w)
      s == Records(z, <<n, "TXT">>)
  IN  CASE w.exp = NoArg \/ n \notin Name -> NoText
        [] w.exp # NoArg /\ n \in Name ->
             IF Len(s) = 1 /\ ExpOf[s[1]] \in {"plain", "pmacro"}
               THEN s[1] ELSE NoText

-----------------------------------------------------------------------------
\* A lookup always fails or never does, so that what it gave in a behaviour
\* can be read off the cache.
AlwaysFails(k) == \A a \in Reply[k] : a.rcode \notin Definite

Steady ==
  \A k \in Key : \/ AlwaysFails(k)
                 \/ k \notin Raises /\ \A a \in Reply[k] : a.rcode \in Definite

\* The zone as the evaluation met it: a lookup with no answer failed.
Met == [k \in Key |-> IF cache[k] = NoAnswer THEN DnsFailure ELSE cache[k]]

\* An evaluation that neither the deadline nor the query budget cuts says
\* exactly what the answers it got say, in audit mode and out of it: the order
\* of the lookups, the cache, the counters and audit mode's walk past the
\* limits change nothing (session.py:61-63: "this changes visibility, never
\* the verdict").
VerdictIsReference ==
  pc = "done" /\ ~expired /\ ~BudgetSpent =>
    \E d \in Start :
      LET w == RefEvaluate(Met, d)
      IN  /\ result = RefResult(Met, w)
          /\ result = "fail" => explanation = RefExplanation(Met, w)
=============================================================================

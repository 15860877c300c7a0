----------------------------- MODULE ZoneProofs -----------------------------
(***************************************************************************)
(* The CNAME chase of ZoneResolver is right in every zone, of any size and *)
(* with any loops: "seen" and the current name are the chain of the name   *)
(* that was asked, once the chase returns.                                 *)
(***************************************************************************)
EXTENDS Zone, TLAPS

\* The names the chase has come to.
Visited == seen \cup {current}

\* The chase visits names of the chain only, leaves none out behind it, and
\* stops where it cannot go on.
ChaseInv ==
  /\ zone \in [Name -> Entry]
  /\ asked \in Name /\ current \in Name /\ seen \subseteq Name
  /\ asked \in Visited /\ Visited \subseteq Chain(asked)
  /\ \A m \in seen : IsAlias(m) /\ Target(m) \in Visited
  /\ result # Pending => /\ ~(IsAlias(current) /\ Follows(current))
                         /\ result = AnswerOf(zone[current])

LEMMA TargetIsName ==
  ASSUME zone \in [Name -> Entry], NEW m \in Name, IsAlias(m)
  PROVE  Target(m) \in Name
  BY DEF IsAlias, Target, Records

LEMMA ChainHasTarget ==
  ASSUME zone \in [Name -> Entry], NEW n \in Name, NEW m \in Chain(n), IsAlias(m)
  PROVE  Target(m) \in Chain(n)
  <1>1. m \in Name /\ Target(m) \in Name
    BY TargetIsName DEF Chain
  <1>2. ASSUME NEW S \in SUBSET Name, n \in S, Closed(S)
        PROVE  Target(m) \in S
    <2>1. m \in S
      BY <1>2 DEF Chain
    <2>. QED
      BY <1>2, <2>1 DEF Closed
  <1>. QED
    BY <1>1, <1>2 DEF Chain

LEMMA ChaseInit == ZoneInit => ChaseInv
  BY DEF ZoneInit, ChaseInv, Visited, Chain

LEMMA ChaseStep == ChaseInv /\ [ZoneNext]_zoneVars => ChaseInv'
  <1> SUFFICES ASSUME ChaseInv, [ZoneNext]_zoneVars
               PROVE  ChaseInv'
    OBVIOUS
  <1>0. /\ zone' = zone /\ asked' = asked
        /\ Chain(asked)' = Chain(asked)
        /\ \A m : IsAlias(m)' = IsAlias(m) /\ Target(m)' = Target(m)
    BY DEF ZoneNext, Follow, Return, zoneVars, Chain, Closed, IsAlias, Target
  <1>1. CASE Follow
    <2>1. /\ IsAlias(current) /\ seen' = Visited /\ current' = Target(current)
          /\ result' = Pending
      BY <1>1 DEF Follow, Visited
    <2>2. current' \in Name /\ current' \in Chain(asked)
      BY <2>1, TargetIsName, ChainHasTarget DEF ChaseInv, Visited
    <2>3. \A m \in seen' : IsAlias(m) /\ Target(m) \in Visited'
      BY <2>1 DEF ChaseInv, Visited
    <2>4. /\ asked \in Visited' /\ Visited' \subseteq Chain(asked)
          /\ seen' \subseteq Name
      BY <2>1, <2>2 DEF ChaseInv, Visited
    <2>. QED
      BY <1>0, <2>1, <2>2, <2>3, <2>4 DEF ChaseInv
  <1>2. CASE Return
    <2>1. UNCHANGED <<current, seen>> /\ Visited' = Visited
      BY <1>2 DEF Return, Visited
    <2>2. /\ ~(IsAlias(current) /\ Follows(current))
          /\ result' = AnswerOf(zone[current])
      BY <1>2 DEF Return
    <2>3. Follows(current)' = Follows(current)
      BY <2>1 DEF Follows
    <2>. QED
      BY <1>0, <2>1, <2>2, <2>3 DEF ChaseInv
  <1>3. CASE UNCHANGED zoneVars
    BY <1>0, <1>3 DEF zoneVars, ChaseInv, Visited, Follows
  <1>. QED
    BY <1>1, <1>2, <1>3 DEF ZoneNext

\* In every zone the lookup answers as the only name of the chain that is no
\* alias does; a chain that never leaves its aliases is an empty NOERROR
\* (resolver.py:90-109).
THEOREM ZoneLookupIsChase == ZoneSpec => []LookupIsChase
  <1>1. ChaseInv => LookupIsChase
    <2> SUFFICES ASSUME ChaseInv, result # Pending
                 PROVE  /\ \A m \in Chain(asked) :
                             ~IsAlias(m) => result = AnswerOf(zone[m])
                        /\ (\A m \in Chain(asked) : IsAlias(m)) =>
                             result = Returns("NOERROR", FALSE)
      BY DEF LookupIsChase
    <2>1. Closed(Visited)
      BY DEF ChaseInv, Closed, Visited, Follows
    <2>2. \A m \in Chain(asked) : m \in Visited
      BY <2>1 DEF ChaseInv, Visited, Chain
    <2>3. ASSUME NEW m \in Chain(asked), ~IsAlias(m)
          PROVE  result = AnswerOf(zone[m])
      BY <2>2, <2>3 DEF ChaseInv, Visited
    <2>4. ASSUME IsAlias(current)
          PROVE  result = Returns("NOERROR", FALSE)
      BY <2>4, ZoneAssumption DEF ChaseInv, AnswerOf, IsAlias
    <2>. QED
      BY <2>3, <2>4 DEF ChaseInv, Visited
  <1>. QED
    BY <1>1, ChaseInit, ChaseStep, PTL DEF ZoneSpec

=============================================================================

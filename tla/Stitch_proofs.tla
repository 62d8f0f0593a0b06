---------------------------- MODULE Stitch_proofs ----------------------------
(***************************************************************************)
(* Proofs about Stitch for every number of frontends, every set of names   *)
(* and settings, every set of designs and wherever the rounds are cut off: *)
(* its variables keep their types, no -y search supplies what another      *)
(* language's sources define, what is missing is exactly that, each root   *)
(* is asked for, the tree is complete, nothing is fetched in vain, and the *)
(* rounds end before they are used up.                                     *)
(*                                                                         *)
(* There are two layers.  IInv is about what the stitcher lists, asks for  *)
(* and complains of, and is inductive.  Completing adds what the rounds    *)
(* arrive at, by an argument of growth: a fragment is what its frontend's  *)
(* roots reach (Rooted), so that elaborating again with more roots and     *)
(* more files keeps it; an instance is elaborated or routed; and a round   *)
(* in which routing finds nothing new leaves every frontend with its roots *)
(* elaborated.  Rounds counts the roots.                                   *)
(***************************************************************************)
EXTENDS Stitch, WellFoundedInduction, FiniteSetTheorems, TLAPS

USE FrontendsAssumption, DesignsAssumption

-----------------------------------------------------------------------------
(* The helpers. *)

\* The names of units are units.
LEMMA NamesOfUnits ==
  ASSUME NEW S \in SUBSET Units
  PROVE  NamesOf(S) \in SUBSET Names
BY DEF NamesOf, Units

\* Reach elaborates units it has a definition for, whatever is instantiated.
LEMMA ReachIsAvailable ==
  ASSUME NEW starts, NEW available
  PROVE  /\ Reach(starts, available) \in SUBSET Units
         /\ NamesOf(Reach(starts, available)) \subseteq available
BY DEF Reach, NamesOf

\* What a frontend can load has names, and what is loaded stays.
LEMMA AvailableType ==
  ASSUME TypeOK, NEW f \in Frontends, NEW elsewhere
  PROVE  /\ Available(f, elsewhere) \in SUBSET Names
         /\ loaded[f] \subseteq Available(f, elsewhere)
BY DEF Available, TypeOK, DesignType

\* The units a frontend starts from are units.
LEMMA StartsType ==
  ASSUME TypeOK, NEW f \in Frontends
  PROVE  Starts(f) \in SUBSET Units
BY DEF Starts, TypeOK, DesignType, Units, IsAuto

\* What a frontend lists is defined elsewhere for every other.
LEMMA ElsewhereHolds ==
  ASSUME NEW f \in Frontends, NEW g \in Frontends, f # g
  PROVE  units[g] \subseteq DefinedElsewhere(f)
BY DEF DefinedElsewhere

\* A provider is asked only when nobody but the asker is known to define the name.
LEMMA ProvidersUnclaimed ==
  ASSUME NEW n, NEW source, NEW g \in Providers(n, source)
  PROVE  /\ g \in Frontends
         /\ \A h \in Frontends \ {source} : n \notin units[h]
BY DEF Providers, Asked, Claimants

\* None is told from every frontend.
LEMMA NoneIsNoFrontend == None \notin Frontends
BY DEF None, Frontends

\* A set of positions in `inputs' that is not empty has a first one.
LEMMA FirstExists ==
  ASSUME NEW S \in SUBSET Frontends, S # {}
  PROVE  \E g \in S : \A h \in S : g <= h
<1>1. S \subseteq Nat
  BY DEF Frontends
<1>2. PICK g \in S : \A h \in S : ~(<<h, g>> \in OpToRel(<, Nat))
  BY <1>1, NatLessThanWellFounded, WFMin
<1>3. \A h \in S : ~(h < g)
  BY <1>1, <1>2 DEF OpToRel
<1> QED
  BY <1>1, <1>3

\* Providing keeps types.
LEMMA AfterTypes ==
  ASSUME TypeOK, NEW n \in Names, NEW source
  PROVE  /\ LoadedAfter(n, source) \in [Frontends -> SUBSET Names]
         /\ UnitsAfter(n, source) \in [Frontends -> SUBSET Names]
BY DEF LoadedAfter, UnitsAfter, TypeOK, DesignType

\* Handing on the turn keeps the types.
LEMMA NextTurnType ==
  ASSUME TypeOK, NextTurn, unresolved' \in [Frontends -> SUBSET Units]
  PROVE  pc' \in {"elaborate", "route", pc} /\ turn' \in Frontends /\ todo' \subseteq Names
<1>1. CASE turn < N
  BY <1>1 DEF NextTurn, TypeOK, Frontends
<1>2. CASE ~(turn < N)
  <2>1. unresolved'[1] \in SUBSET Units
    BY DEF Frontends
  <2>2. NamesOf(unresolved'[1]) \in SUBSET Names
    BY <2>1, NamesOfUnits
  <2> QED
    BY <1>2, <2>2 DEF NextTurn, Frontends
<1> QED
  BY <1>1, <1>2

-----------------------------------------------------------------------------
(* Type correctness. *)

\* Types at the start.
LEMMA InitType == Init => TypeOK
<1> SUFFICES ASSUME Init
             PROVE  TypeOK
  OBVIOUS
<1>1. design \in DesignType
  BY DEF Init
<1>2. design.src \in [Frontends -> SUBSET Names] /\ design.tops \subseteq Names
  BY <1>1 DEF DesignType
<1>3. turn \in Frontends /\ round \in 1..MaxRounds
  BY DEF Init, Frontends
<1> QED
  BY <1>1, <1>2, <1>3 DEF Init, TypeOK

\* Every variable of a run keeps its type: no root, unresolved name or missing
\* module is anything but a unit of the design, and run() stays in its loops.
THEOREM TypeCorrect == Spec => []TypeOK
<1>1. Init => TypeOK
  BY InitType
<1>2. TypeOK /\ [Next]_vars => TypeOK'
  <2> SUFFICES ASSUME TypeOK, [Next]_vars
               PROVE  TypeOK'
    OBVIOUS
  <2>1. CASE AssignTop
    <3>1. PICK n \in todo :
            /\ roots' = [roots EXCEPT ![IF Definer(n, None) = None
                                        THEN CatchAll ELSE Definer(n, None)]
                                        = @ \union {<<n, Default>>}]
            /\ loaded' = LoadedAfter(n, None)
            /\ units' = UnitsAfter(n, None)
            /\ todo' = todo \ {n}
      BY <2>1 DEF AssignTop
    <3>2. n \in Names /\ <<n, Default>> \in Units
      BY DEF TypeOK, Units
    <3>3. roots' \in [Frontends -> SUBSET Units]
      BY <3>1, <3>2 DEF TypeOK
    <3> QED
      BY <2>1, <3>1, <3>2, <3>3, AfterTypes DEF TypeOK, AssignTop, loopVars
  <2>2. CASE Begin
    BY <2>2 DEF Begin, TypeOK
  <2>3. CASE Elaborate
    <3> DEFINE available == Available(turn, DefinedElsewhere(turn))
               got == Reach(Starts(turn), available)
               left == {u \in UNION {design.uses[v] : v \in got} : u[1] \notin available}
    <3>1. turn \in Frontends
      BY DEF TypeOK
    <3>2. got \in SUBSET Units /\ NamesOf(got) \in SUBSET Names
      BY ReachIsAvailable, NamesOfUnits
    <3>3. left \in SUBSET Units
      BY <3>2 DEF TypeOK, DesignType
    <3> HIDE DEF got, left
    <3>4. /\ reached' = [reached EXCEPT ![turn] = got]
          /\ loaded' = [loaded EXCEPT ![turn] = @ \union NamesOf(got)]
          /\ unresolved' = [unresolved EXCEPT ![turn] = left]
      BY <2>3 DEF Elaborate, got, left
    <3>5. unresolved' \in [Frontends -> SUBSET Units]
      BY <3>3, <3>4 DEF TypeOK
    <3>6. pc' \in {"elaborate", "route", pc} /\ turn' \in Frontends /\ todo' \subseteq Names
      BY <2>3, <3>5, NextTurnType DEF Elaborate
    <3> QED
      BY <2>3, <3>1, <3>2, <3>4, <3>5, <3>6 DEF TypeOK, Elaborate
  <2>4. CASE SkipUnchanged
    <3>1. unresolved' \in [Frontends -> SUBSET Units]
      BY <2>4 DEF SkipUnchanged, TypeOK
    <3>2. pc' \in {"elaborate", "route", pc} /\ turn' \in Frontends /\ todo' \subseteq Names
      BY <2>4, <3>1, NextTurnType DEF SkipUnchanged
    <3> QED
      BY <2>4, <3>2 DEF SkipUnchanged, TypeOK
  <2>5. CASE Route
    <3>1. PICK n \in todo :
            /\ todo' = todo \ {n}
            /\ loaded' = LoadedAfter(n, turn)
            /\ units' = UnitsAfter(n, turn)
            /\ IF Definer(n, turn) = None
               THEN UNCHANGED <<roots, changed>>
               ELSE AddRoots(Definer(n, turn), {u \in unresolved[turn] : u[1] = n})
      BY <2>5 DEF Route
    <3> DEFINE uses == {u \in unresolved[turn] : u[1] = n}
    <3>2. n \in Names /\ uses \in SUBSET Units
      BY DEF TypeOK
    <3> HIDE DEF uses
    <3>3. roots' \in [Frontends -> SUBSET Units] /\ changed' \in BOOLEAN
      <4>1. CASE UNCHANGED <<roots, changed>>
        BY <4>1 DEF TypeOK
      <4>2. CASE AddRoots(Definer(n, turn), uses)
        <5>1. roots' \in [Frontends -> SUBSET Units]
          BY <4>2, <3>2 DEF TypeOK, AddRoots
        <5>2. changed' \in BOOLEAN
          BY <4>2 DEF TypeOK, AddRoots
        <5> QED
          BY <5>1, <5>2
      <4> QED
        BY <3>1, <4>1, <4>2 DEF uses
    <3>4. loaded' \in [Frontends -> SUBSET Names] /\ units' \in [Frontends -> SUBSET Names]
      BY <3>1, <3>2, AfterTypes
    <3> QED
      BY <2>5, <3>1, <3>3, <3>4 DEF TypeOK, Route
  <2>6. CASE RouteNextFragment
    <3>1. turn + 1 \in Frontends
      BY <2>6 DEF RouteNextFragment, TypeOK, Frontends
    <3>2. NamesOf(unresolved[turn + 1]) \in SUBSET Names
      BY <3>1, NamesOfUnits DEF TypeOK
    <3> QED
      BY <2>6, <3>1, <3>2 DEF RouteNextFragment, TypeOK
  <2>7. CASE NextRound
    <3>1. round' \in 1..MaxRounds /\ turn' \in Frontends
      BY <2>7 DEF NextRound, TypeOK, Frontends
    <3> QED
      BY <2>7, <3>1 DEF NextRound, TypeOK
  <2>8. CASE Merge
    <3>1. \A f \in Frontends : NamesOf(unresolved[f]) \in SUBSET Names
      BY NamesOfUnits DEF TypeOK
    <3> QED
      BY <2>8, <3>1 DEF Merge, TypeOK
  <2>9. CASE UNCHANGED vars
    BY <2>9 DEF vars, TypeOK
  <2> QED
    BY <2>1, <2>2, <2>3, <2>4, <2>5, <2>6, <2>7, <2>8, <2>9 DEF Next, Merged
<1> QED
  BY <1>1, <1>2, PTL DEF Spec

-----------------------------------------------------------------------------
(* The inductive invariant: why no two languages fetch the same unit, and why *)
(* dropping complaints by a lagging list of units loses none.                 *)

\* Between a frontend's sources and what its files define now lies what the
\* stitcher knows of, and beyond its -y files there is nothing.
Lag ==
  \A f \in Frontends : /\ design.src[f] \subseteq units[f]
                       /\ units[f] \subseteq loaded[f]
                       /\ loaded[f] \subseteq design.src[f] \union design.lib[f]

\* A frontend complains about a unit it could supply only when it was told that
\* another language defines it.
Complaints ==
  \A f \in Frontends : \A u \in unresolved[f] :
    /\ u[1] \notin design.src[f]
    /\ u[1] \in design.lib[f] => u[1] \in DefinedElsewhere(f)

\* A fragment complains about nothing else than its instances, and about every
\* instance that no input defines.
Fragments ==
  \A f \in Frontends :
    LET used == UNION {design.uses[v] : v \in reached[f]}
    IN  /\ unresolved[f] \subseteq used
        /\ \A u \in used :
             (\A g \in Frontends : u[1] \notin design.src[g] \union design.lib[g])
               => u \in unresolved[f]

\* The outcome of routing a name: the stitcher knows another language defines it,
\* or none does.
Settled(n, f) ==
  \/ n \in DefinedElsewhere(f)
  \/ \A g \in Frontends \ {f} : n \notin design.src[g] \union design.lib[g]

Routing ==
  pc = "route" =>
    /\ todo \subseteq NamesOf(unresolved[turn])
    /\ \A f \in Frontends : \A u \in unresolved[f] :
         f < turn \/ (f = turn /\ u[1] \notin todo) => Settled(u[1], f)

IInv ==
  /\ TypeOK
  /\ design \in Designs
  /\ Lag
  /\ SourcesWin
  /\ Complaints
  /\ Fragments
  /\ Routing
  /\ MissingIsExact

-----------------------------------------------------------------------------
(* What asking for a name does to the stitcher's view: common to AssignTop and *)
(* Route.                                                                      *)

Asks(n, source) ==
  /\ n \in Names
  /\ source = None \/ (source \in Frontends /\ n \notin design.src[source])
  /\ design' = design
  /\ loaded' = LoadedAfter(n, source)
  /\ units' = UnitsAfter(n, source)

\* Asking never makes the stitcher forget a unit, and never loads one that some
\* sources define.
LEMMA AskingKeepsView ==
  ASSUME IInv, NEW n, NEW source, Asks(n, source)
  PROVE  /\ Lag'
         /\ SourcesWin'
         /\ \A f \in Frontends : units[f] \subseteq units'[f]
<1> USE DEF Asks
<1>1. \A g \in Frontends :
        /\ loaded'[g] = loaded[g] \union
              (IF g \in Providers(n, source) THEN {n} \intersect design.lib[g] ELSE {})
        /\ units'[g] = IF g \in Providers(n, source) THEN loaded'[g] ELSE units[g]
  BY DEF LoadedAfter, UnitsAfter
<1>2. ASSUME NEW g \in Providers(n, source), NEW h \in Frontends
      PROVE  n \notin design.src[h]
  <2>1. CASE h = source
    BY <2>1, NoneIsNoFrontend
  <2>2. CASE h # source
    BY <2>2, ProvidersUnclaimed DEF IInv, Lag
  <2> QED
    BY <2>1, <2>2
<1>3. Lag' /\ \A f \in Frontends : units[f] \subseteq units'[f]
  BY <1>1 DEF IInv, Lag
<1>4. SourcesWin'
  BY <1>1, <1>2 DEF IInv, SourcesWin
<1> QED
  BY <1>3, <1>4

\* When _definer has looked a name up, either the stitcher lists it for another
\* language or no other language defines it.
LEMMA AskingSettles ==
  ASSUME IInv, NEW n, NEW source \in Frontends, Asks(n, source)
  PROVE  Settled(n, source)'
<1> USE DEF Asks
<1>1. \A f \in Frontends : units[f] \subseteq units'[f]
  BY AskingKeepsView
<1>2. CASE Claimants(n, source) # {}
  BY <1>1, <1>2 DEF Claimants, Settled, DefinedElsewhere
<1>3. CASE Claimants(n, source) = {}
  <2> DEFINE owners == {g \in Frontends \ {source} : n \in design.lib[g]}
  <2>1. CASE owners = {}
    <3>1. \A g \in Frontends \ {source} : n \notin design.src[g]
      BY <1>3 DEF Claimants, IInv, Lag
    <3> QED
      BY <2>1, <3>1 DEF Settled
  <2>2. CASE owners # {}
    <3>1. PICK g \in owners : \A h \in owners : g <= h
      BY <2>2, FirstExists
    <3>2. g \in Frontends \ {source} /\ n \in design.lib[g]
      OBVIOUS
    <3>3. g \in Asked(n, source)
      BY <1>3, <3>1, <3>2 DEF Asked, Frontends
    <3>4. n \in design.offers[g]
      BY <3>2, DesignsAssumption DEF IInv
    <3>5. g \in Providers(n, source)
      BY <3>3, <3>4 DEF Providers
    <3>6. n \in units'[g]
      BY <3>2, <3>5 DEF UnitsAfter, LoadedAfter
    <3> QED
      BY <3>2, <3>6 DEF Settled, DefinedElsewhere
  <2> QED
    BY <2>1, <2>2
<1> QED
  BY <1>2, <1>3

\* A unit listed for another language stays so.
LEMMA SettledStays ==
  ASSUME NEW n, NEW f \in Frontends, Settled(n, f), design' = design,
         \A g \in Frontends : units[g] \subseteq units'[g]
  PROVE  Settled(n, f)'
BY DEF Settled, DefinedElsewhere

\* A complaint that holds goes on to hold.
LEMMA ComplaintsStay ==
  ASSUME Complaints, design' = design, unresolved' = unresolved,
         \A g \in Frontends : units[g] \subseteq units'[g]
  PROVE  Complaints'
BY DEF Complaints, DefinedElsewhere

-----------------------------------------------------------------------------
(* The invariant's steps that change more than the place in the loops. *)

\* Every step keeps IInv: elaborating,
LEMMA ElaborateKeepsIInv ==
  ASSUME IInv, TypeOK', Elaborate
  PROVE  IInv'
<1> DEFINE available == Available(turn, DefinedElsewhere(turn))
           got == Reach(Starts(turn), available)
           used == UNION {design.uses[v] : v \in got}
           left == {u \in used : u[1] \notin available}
<1> USE DEF IInv
<1>1. turn \in Frontends
  BY DEF TypeOK
<1>2. NamesOf(got) \subseteq available
  BY ReachIsAvailable
<1>3. available = loaded[turn] \union (design.lib[turn] \ DefinedElsewhere(turn))
  BY DEF Available
<1>4. /\ reached' = [reached EXCEPT ![turn] = got]
      /\ loaded' = [loaded EXCEPT ![turn] = @ \union NamesOf(got)]
      /\ unresolved' = [unresolved EXCEPT ![turn] = left]
      /\ NextTurn
      /\ UNCHANGED <<design, units>>
      /\ pc = "elaborate"
  BY DEF Elaborate
<1> HIDE DEF got, available
<1>5. Lag'
  BY <1>1, <1>2, <1>3, <1>4 DEF Lag, TypeOK
<1>6. SourcesWin'
  <2> SUFFICES ASSUME NEW f \in Frontends, NEW g \in Frontends, f # g,
                      NEW n \in design.src[g] \ design.src[f], n \in loaded'[f]
               PROVE  FALSE
    BY <1>4 DEF SourcesWin
  <2>1. n \notin loaded[f]
    BY DEF SourcesWin
  <2>2. f = turn /\ n \in design.lib[turn] \ DefinedElsewhere(turn)
    BY <1>1, <1>2, <1>3, <1>4, <2>1 DEF TypeOK
  <2> QED
    BY <2>2, ElsewhereHolds DEF Lag
<1>7. \A f \in Frontends : f # turn => /\ unresolved'[f] = unresolved[f]
                                      /\ reached'[f] = reached[f]
  BY <1>4 DEF TypeOK
<1>8. unresolved'[turn] = left /\ reached'[turn] = got
  BY <1>1, <1>4 DEF TypeOK
<1>9. Complaints'
  <2> SUFFICES ASSUME NEW f \in Frontends, NEW u \in unresolved'[f]
               PROVE  /\ u[1] \notin design.src[f]
                      /\ u[1] \in design.lib[f] => u[1] \in DefinedElsewhere(f)
    BY <1>4 DEF Complaints, DefinedElsewhere
  <2>1. CASE f = turn
    BY <1>3, <1>8, <2>1 DEF Lag
  <2>2. CASE f # turn
    BY <1>7, <2>2 DEF Complaints
  <2> QED
    BY <2>1, <2>2
<1>10. Fragments'
  <2> SUFFICES ASSUME NEW f \in Frontends
               PROVE  LET uses == UNION {design.uses[v] : v \in reached'[f]}
                      IN  /\ unresolved'[f] \subseteq uses
                          /\ \A u \in uses :
                               (\A g \in Frontends :
                                  u[1] \notin design.src[g] \union design.lib[g])
                                 => u \in unresolved'[f]
    BY <1>4 DEF Fragments
  <2>1. CASE f = turn
    <3>1. available \subseteq design.src[turn] \union design.lib[turn]
      BY <1>1, <1>3 DEF Lag
    <3> QED
      BY <1>8, <2>1, <3>1
  <2>2. CASE f # turn
    BY <1>7, <2>2 DEF Fragments
  <2> QED
    BY <2>1, <2>2
<1>11. Routing'
  <2>1. CASE turn < N
    BY <1>4, <2>1 DEF NextTurn, Routing
  <2>2. CASE ~(turn < N)
    <3>1. turn' = 1 /\ todo' = NamesOf(unresolved'[1])
      BY <1>4, <2>2 DEF NextTurn
    <3> QED
      BY <3>1 DEF Routing, NamesOf, Frontends
  <2> QED
    BY <2>1, <2>2
<1>12. pc' # "merged"
  BY <1>4 DEF NextTurn
<1> QED
  BY <1>4, <1>5, <1>6, <1>9, <1>10, <1>11, <1>12 DEF MissingIsExact

\* assigning a top,
LEMMA AssignTopKeepsIInv ==
  ASSUME IInv, TypeOK', AssignTop
  PROVE  IInv'
<1>1. PICK n \in todo : loaded' = LoadedAfter(n, None) /\ units' = UnitsAfter(n, None)
  BY DEF AssignTop
<1>2. Asks(n, None)
  BY <1>1 DEF Asks, AssignTop, IInv, TypeOK
<1>3. /\ Lag'
      /\ SourcesWin'
      /\ \A f \in Frontends : units[f] \subseteq units'[f]
  BY <1>2, AskingKeepsView
<1>4. Complaints'
  BY <1>3, ComplaintsStay DEF AssignTop, IInv
<1>5. Fragments'
  BY DEF IInv, Fragments, AssignTop
<1>6. Routing' /\ MissingIsExact'
  BY DEF AssignTop, Routing, MissingIsExact, loopVars
<1> QED
  BY <1>3, <1>4, <1>5, <1>6 DEF IInv, AssignTop

\* routing,
LEMMA RouteKeepsIInv ==
  ASSUME IInv, TypeOK', Route
  PROVE  IInv'
<1>1. PICK n \in todo : /\ todo' = todo \ {n}
                       /\ loaded' = LoadedAfter(n, turn)
                       /\ units' = UnitsAfter(n, turn)
  BY DEF Route
<1>2. turn \in Frontends /\ pc = "route" /\ pc' = "route"
  BY DEF IInv, TypeOK, Route
<1>3. PICK w \in unresolved[turn] : w[1] = n
  BY <1>1, <1>2 DEF IInv, Routing, NamesOf
<1>4. Asks(n, turn)
  BY <1>1, <1>2, <1>3 DEF Asks, IInv, TypeOK, Complaints, Route
<1>5. /\ Lag'
      /\ SourcesWin'
      /\ \A f \in Frontends : units[f] \subseteq units'[f]
  BY <1>4, AskingKeepsView
<1>6. Complaints'
  BY <1>5, ComplaintsStay DEF Route, IInv
<1>7. Fragments'
  BY DEF IInv, Fragments, Route
<1>8. Routing'
  <2>1. todo' \subseteq NamesOf(unresolved'[turn'])
    BY <1>1, <1>2 DEF IInv, Routing, Route
  <2>2. ASSUME NEW f \in Frontends, NEW u \in unresolved[f],
               f < turn \/ (f = turn /\ u[1] \notin todo')
        PROVE  Settled(u[1], f)'
    <3>1. CASE f = turn /\ u[1] = n
      BY <1>2, <1>4, <3>1, AskingSettles
    <3>2. CASE ~(f = turn /\ u[1] = n)
      <4>1. Settled(u[1], f)
        BY <1>1, <1>2, <2>2, <3>2 DEF IInv, Routing
      <4> QED
        BY <1>5, <4>1, SettledStays DEF Route
    <3> QED
      BY <3>1, <3>2
  <2> QED
    BY <2>1, <2>2 DEF Routing, Route
<1>9. MissingIsExact'
  BY <1>2 DEF MissingIsExact
<1> QED
  BY <1>5, <1>6, <1>7, <1>8, <1>9 DEF IInv, Route

\* merging.
LEMMA MergeKeepsIInv ==
  ASSUME IInv, TypeOK', Merge
  PROVE  IInv'
<1>1. /\ UNCHANGED <<design, loaded, units, reached, unresolved>>
      /\ pc = "route" /\ pc' = "merged" /\ todo = {} /\ turn = N
      /\ missing' = UNION {NamesOf(unresolved[f]) \ DefinedElsewhere(f) : f \in Frontends}
  BY DEF Merge
<1> DEFINE nowhere(n) == \A f \in Frontends : n \notin design.src[f] \union design.lib[f]
<1>2. ASSUME NEW n \in missing'
      PROVE  n \in NamesOf(Instantiated) /\ nowhere(n)
  <2>1. PICK f \in Frontends : n \in NamesOf(unresolved[f]) /\ n \notin DefinedElsewhere(f)
    BY <1>1, <1>2
  <2>2. PICK u \in unresolved[f] : u[1] = n
    BY <2>1 DEF NamesOf
  <2>3. Settled(n, f)
    BY <1>1, <2>1, <2>2 DEF IInv, Routing, Frontends
  <2>4. \A g \in Frontends \ {f} : n \notin design.src[g] \union design.lib[g]
    BY <2>1, <2>3 DEF Settled
  <2>5. n \notin design.src[f] \union design.lib[f]
    BY <2>1, <2>2 DEF IInv, Complaints
  <2>6. u \in Instantiated
    BY <2>2 DEF IInv, Fragments, Instantiated
  <2> QED
    BY <2>2, <2>4, <2>5, <2>6 DEF NamesOf
<1>3. ASSUME NEW n \in NamesOf(Instantiated), nowhere(n)
      PROVE  n \in missing'
  <2>1. PICK f \in Frontends : \E v \in reached[f] : \E u \in design.uses[v] : u[1] = n
    BY DEF NamesOf, Instantiated
  <2> PICK v \in reached[f] : \E u \in design.uses[v] : u[1] = n
    BY <2>1
  <2> PICK u \in design.uses[v] : u[1] = n
    OBVIOUS
  <2>2. u \in unresolved[f]
    BY <1>3, <2>1 DEF IInv, Fragments
  <2>3. n \notin DefinedElsewhere(f)
    BY <1>3 DEF IInv, Lag, DefinedElsewhere
  <2> QED
    BY <1>1, <2>1, <2>2, <2>3 DEF NamesOf
<1>4. MissingIsExact'
  <2>1. missing' = {n \in NamesOf(Instantiated) : nowhere(n)}
    BY <1>2, <1>3
  <2> QED
    BY <1>1, <2>1 DEF MissingIsExact, NamesOf, Instantiated
<1>5. Lag' /\ SourcesWin' /\ Fragments'
  BY <1>1 DEF IInv, Lag, SourcesWin, Fragments
<1>6. Complaints' /\ Routing'
  BY <1>1 DEF IInv, Complaints, DefinedElsewhere, Routing
<1> QED
  BY <1>1, <1>4, <1>5, <1>6 DEF IInv

-----------------------------------------------------------------------------
\* The inductive invariant.
LEMMA IInvInductive == Spec => []IInv
<1>1. Init => IInv
  <2> SUFFICES ASSUME Init
               PROVE  IInv
    OBVIOUS
  <2>1. TypeOK
    BY InitType
  <2>2. design \in Designs /\ Lag /\ SourcesWin /\ MissingIsExact
    BY DEF Init, Lag, SourcesWin, MissingIsExact
  <2>3. Complaints /\ Fragments /\ Routing
    BY DEF Init, Complaints, Fragments, Routing
  <2> QED
    BY <2>1, <2>2, <2>3 DEF IInv
<1>2. IInv /\ TypeOK' /\ [Next]_vars => IInv'
  <2> SUFFICES ASSUME IInv, TypeOK', [Next]_vars
               PROVE  IInv'
    OBVIOUS
  <2>1. CASE AssignTop
    BY <2>1, AssignTopKeepsIInv
  <2>2. CASE Elaborate
    BY <2>2, ElaborateKeepsIInv
  <2>3. CASE Route
    BY <2>3, RouteKeepsIInv
  <2>4. CASE Merge
    BY <2>4, MergeKeepsIInv
  <2>5. CASE /\ UNCHANGED <<design, loaded, units, reached, unresolved>>
             /\ pc' # "merged" \/ UNCHANGED <<pc, missing>>
             /\ Routing'
    BY <2>5 DEF IInv, Lag, SourcesWin, Complaints, DefinedElsewhere, Fragments,
                MissingIsExact, Instantiated, NamesOf
  <2>6. CASE Begin
    BY <2>5, <2>6 DEF Begin, Routing
  <2>7. CASE SkipUnchanged
    <3>1. Routing'
      BY <2>7 DEF SkipUnchanged, NextTurn, Routing, IInv, TypeOK, Frontends, NamesOf
    <3> QED
      BY <2>5, <2>7, <3>1 DEF SkipUnchanged, NextTurn
  <2>8. CASE RouteNextFragment
    <3>1. Routing'
      <4>1. \A f \in Frontends : f < turn + 1 => f < turn \/ (f = turn /\ todo = {})
        BY <2>8 DEF RouteNextFragment, IInv, TypeOK, Frontends
      <4>2. /\ turn' = turn + 1
            /\ todo' = NamesOf(unresolved[turn'])
            /\ pc = "route"
            /\ UNCHANGED <<design, units, unresolved>>
        BY <2>8 DEF RouteNextFragment
      <4>3. ASSUME NEW f \in Frontends, NEW u \in unresolved[f],
                   f < turn' \/ (f = turn' /\ u[1] \notin todo')
            PROVE  Settled(u[1], f)'
        <5>1. f # turn' \/ u[1] \in todo'
          BY <4>2 DEF NamesOf
        <5>2. Settled(u[1], f)
          BY <4>1, <4>2, <4>3, <5>1 DEF IInv, Routing
        <5> QED
          BY <4>2, <5>2, SettledStays
      <4> QED
        BY <4>2, <4>3 DEF Routing
    <3> QED
      BY <2>5, <2>8, <3>1 DEF RouteNextFragment
  <2>9. CASE NextRound
    BY <2>5, <2>9 DEF NextRound, Routing
  <2>10. CASE UNCHANGED vars
    BY <2>5, <2>10 DEF vars, IInv, Routing, Settled, DefinedElsewhere, NamesOf
  <2> QED
    BY <2>1, <2>2, <2>3, <2>4, <2>6, <2>7, <2>8, <2>9, <2>10 DEF Next, Merged
<1> QED
  BY <1>1, <1>2, TypeCorrect, PTL DEF Spec

\* No -y supplies what the sources of another language define, however many
\* languages take part and in whatever order they ask (libdirs.md, "Sources
\* always win"; _Stitcher._definer and defined_elsewhere).
THEOREM SourcesAlwaysWin == Spec => []SourcesWin
<1>1. IInv => SourcesWin
  BY DEF IInv
<1> QED
  BY <1>1, IInvInductive, PTL

\* The merged result reports exactly the instantiated units that no input of any
\* language defines, also when the rounds were cut off (_Stitcher._merge).
THEOREM MissingIsExactAlways == Spec => []MissingIsExact
<1>1. IInv => MissingIsExact
  BY DEF IInv
<1> QED
  BY <1>1, IInvInductive, PTL

-----------------------------------------------------------------------------
(* The invariant of the rounds. *)

\* A unit no input of any language defines.
Nowhere(n) == \A f \in Frontends : n \notin design.src[f] \union design.lib[f]

\* A fragment only grows: what it held is reached from the roots there are now, even if
\* no more files are loaded.
Rooted == \A f \in Frontends : reached[f] \subseteq Reach(Starts(f), loaded[f])

\* Every instance in a fragment is elaborated in it or complained about.
Resolved ==
  \A f \in Frontends : \A w \in reached[f] :
    design.uses[w] \subseteq reached[f] \union unresolved[f]

\* A root is given to a frontend that is known to define it, unless none does, ...
RootsDefined ==
  \A f \in Frontends : \A u \in roots[f] : u[1] \in units[f] \/ Nowhere(u[1])

\* ... so that elaborating the roots reaches them.
DoneReached ==
  \A f \in Frontends : \A u \in done[f] : u \in reached[f] \/ Nowhere(u[1])

\* What -y supplied is elaborated, or asked for by a root.
FetchedForRoot ==
  \A f \in Frontends : Fetched(f) \subseteq NamesOf(reached[f] \union roots[f])

\* In a round, the frontends before `turn' have elaborated their roots, and all have
\* as long as the routing finds nothing new.
UpToDate ==
  /\ pc = "tops" => turn = 1 /\ todo \subseteq design.tops
  /\ pc \in {"tops", "elaborate"} => ~changed
  /\ pc = "elaborate" => \A f \in Frontends : f < turn => done[f] = roots[f]
  /\ pc \in {"route", "merged"} /\ ~changed => \A f \in Frontends : done[f] = roots[f]

\* What was routed in this round is a root, if any language defines it.
Routed ==
  /\ pc = "route" =>
       \A f \in Frontends : \A u \in unresolved[f] :
         f < turn \/ (f = turn /\ u[1] \notin todo)
           => Nowhere(u[1]) \/ \E g \in Frontends : u \in roots[g]
  /\ pc = "merged" =>
       \A f \in Frontends : \A u \in unresolved[f] :
         Nowhere(u[1]) \/ \E g \in Frontends : u \in roots[g]

\* What the rounds keep.
Completing ==
  /\ Rooted
  /\ Resolved
  /\ RootsDefined
  /\ DoneReached
  /\ FetchedForRoot
  /\ UpToDate
  /\ Routed
  /\ RootsAreJustified

\* The roots of all frontends, and how they bound the rounds: each but the last adds one.
AllRoots == {r \in Frontends \X Units : r[2] \in roots[r[1]]}
Rounds ==
  /\ round <= 1 + Cardinality(AllRoots)
  /\ changed => round <= Cardinality(AllRoots)
  /\ pc = "merged" /\ changed => round = MaxRounds

-----------------------------------------------------------------------------
(* The fragments. *)

\* More roots, and more units to find, never make a fragment smaller.
LEMMA ReachGrows ==
  ASSUME NEW starts, NEW more, NEW available, NEW wider,
         starts \subseteq more, available \subseteq wider
  PROVE  Reach(starts, available) \subseteq Reach(more, wider)
<1> DEFINE narrow == {u \in Units : u[1] \in available}
           wide == {u \in Units : u[1] \in wider}
<1> SUFFICES ASSUME NEW u \in Reach(starts, available), NEW S \in SUBSET wide,
                    more \intersect wide \subseteq S,
                    \A v \in S : design.uses[v] \intersect wide \subseteq S
             PROVE  u \in S
  BY DEF Reach
<1>1. narrow \subseteq wide
  OBVIOUS
<1>2. starts \intersect narrow \subseteq S \intersect narrow
  BY <1>1
<1>3. \A v \in S \intersect narrow : design.uses[v] \intersect narrow \subseteq S \intersect narrow
  BY <1>1
<1>4. S \intersect narrow \in SUBSET narrow
  OBVIOUS
<1>5. u \in S \intersect narrow
  BY <1>2, <1>3, <1>4 DEF Reach
<1> QED
  BY <1>5

\* A fragment holds the roots that are available, and with a unit its instances.
LEMMA ReachIsClosed ==
  ASSUME NEW starts, NEW available
  PROVE  /\ \A u \in starts \intersect Units :
              u[1] \in available => u \in Reach(starts, available)
         /\ \A u \in Reach(starts, available) : \A v \in design.uses[u] \intersect Units :
              v[1] \in available => v \in Reach(starts, available)
<1> DEFINE candidates == {u \in Units : u[1] \in available}
           Closed(S) == /\ starts \intersect candidates \subseteq S
                        /\ \A u \in S : design.uses[u] \intersect candidates \subseteq S
<1>1. Reach(starts, available) =
        {u \in candidates : \A S \in SUBSET candidates : Closed(S) => u \in S}
  BY DEF Reach
<1>2. ASSUME NEW u \in starts \intersect Units, u[1] \in available
      PROVE  u \in Reach(starts, available)
  <2>1. u \in starts \intersect candidates
    BY <1>2
  <2> QED
    BY <1>1, <2>1
<1>3. ASSUME NEW u \in Reach(starts, available), NEW v \in design.uses[u] \intersect Units,
             v[1] \in available
      PROVE  v \in Reach(starts, available)
  <2>1. v \in design.uses[u] \intersect candidates
    BY <1>3
  <2>2. \A S \in SUBSET candidates : Closed(S) => u \in S
    BY <1>1
  <2>3. \A S \in SUBSET candidates : Closed(S) => v \in S
    BY <2>1, <2>2
  <2> QED
    BY <1>1, <2>1, <2>3
<1> QED
  BY <1>2, <1>3

\* Nothing but the units in a fragment was needed to reach them.
LEMMA ReachIsOwn ==
  ASSUME NEW starts, NEW available
  PROVE  Reach(starts, available) \subseteq Reach(starts, NamesOf(Reach(starts, available)))
<1> DEFINE got == Reach(starts, available)
           candidates == {u \in Units : u[1] \in available}
           own == {u \in Units : u[1] \in NamesOf(got)}
<1>1. got \subseteq Units /\ NamesOf(got) \subseteq available /\ got \subseteq candidates
  <2>1. got \subseteq candidates
    BY DEF Reach
  <2> QED
    BY <2>1, ReachIsAvailable
<1>2. got \subseteq own
  BY <1>1 DEF NamesOf
<1> SUFFICES ASSUME NEW u \in got, NEW S \in SUBSET own,
                    starts \intersect own \subseteq S,
                    \A v \in S : design.uses[v] \intersect own \subseteq S
             PROVE  u \in S
  BY <1>2 DEF Reach
<1>3. starts \intersect candidates \subseteq S \intersect got
  <2> SUFFICES ASSUME NEW v \in starts \intersect candidates
               PROVE  v \in S \intersect got
    OBVIOUS
  <2>1. v \in got
    BY ReachIsClosed
  <2> QED
    BY <1>2, <2>1
<1>4. \A v \in S \intersect got : design.uses[v] \intersect candidates \subseteq S \intersect got
  <2> SUFFICES ASSUME NEW v \in S \intersect got, NEW w \in design.uses[v] \intersect candidates
               PROVE  w \in S \intersect got
    OBVIOUS
  <2>1. w \in got
    BY ReachIsClosed
  <2> QED
    BY <1>2, <2>1
<1>5. S \intersect got \in SUBSET candidates
  BY <1>1
<1>6. u \in S \intersect got
  BY <1>3, <1>4, <1>5 DEF Reach
<1> QED
  BY <1>6

-----------------------------------------------------------------------------
(* Whom _definer finds. *)

\* The first of the frontends found is one of them.
LEMMA FirstIsOne ==
  ASSUME NEW S \in SUBSET Frontends, S # {}
  PROVE  First(S) \in S
<1>1. \E g \in S : \A h \in S : g <= h
  BY FirstExists
<1> QED
  BY <1>1 DEF First

\* _definer finds a frontend or none.
LEMMA DefinerType ==
  ASSUME NEW n, NEW source
  PROVE  Definer(n, source) \in Frontends \union {None}
<1>1. /\ Claimants(n, source) \in SUBSET Frontends
      /\ {g \in Providers(n, source) : n \in design.lib[g]} \in SUBSET Frontends
  BY DEF Claimants, Providers, Asked
<1>2. \A S \in SUBSET Frontends : First(S) \in Frontends \union {None}
  BY FirstIsOne DEF First
<1> QED
  BY <1>1, <1>2 DEF Definer

\* A frontend that _definer finds lists the name from then on.
LEMMA DefinerDefines ==
  ASSUME IInv, NEW n, NEW source, Asks(n, source), Definer(n, source) # None
  PROVE  Definer(n, source) \in Frontends /\ n \in units'[Definer(n, source)]
<1> DEFINE providing == {g \in Providers(n, source) : n \in design.lib[g]}
<1>1. CASE Claimants(n, source) # {}
  <2>1. Definer(n, source) \in Claimants(n, source)
    BY <1>1, FirstIsOne DEF Definer, Claimants
  <2>2. \A f \in Frontends : units[f] \subseteq units'[f]
    BY AskingKeepsView
  <2> QED
    BY <2>1, <2>2 DEF Claimants
<1>2. CASE Claimants(n, source) = {}
  <2>1. providing \subseteq Frontends /\ Definer(n, source) = First(providing)
    BY <1>2 DEF Definer, Providers, Asked
  <2>2. providing # {}
    BY <2>1 DEF First
  <2>3. Definer(n, source) \in providing
    BY <2>1, <2>2, FirstIsOne
  <2> QED
    BY <2>1, <2>3 DEF Asks, UnitsAfter, LoadedAfter
<1> QED
  BY <1>1, <1>2

\* If it finds none, no other language defines the name.
LEMMA NobodyDefines ==
  ASSUME IInv, NEW n, NEW source, Definer(n, source) = None
  PROVE  /\ Claimants(n, source) = {}
         /\ \A g \in Frontends \ {source} : n \notin design.src[g] \union design.lib[g]
<1> DEFINE providing == {g \in Providers(n, source) : n \in design.lib[g]}
           owners == {g \in Frontends \ {source} : n \in design.lib[g]}
<1>1. Claimants(n, source) = {}
  <2> SUFFICES ASSUME Claimants(n, source) # {}
               PROVE  FALSE
    OBVIOUS
  <2>1. First(Claimants(n, source)) \in Frontends
    BY FirstIsOne DEF Claimants
  <2> QED
    BY <2>1, NoneIsNoFrontend DEF Definer
<1>2. \A g \in Frontends \ {source} : n \notin design.src[g]
  BY <1>1 DEF Claimants, IInv, Lag
<1>3. owners = {}
  <2> SUFFICES ASSUME owners # {}
               PROVE  FALSE
    OBVIOUS
  <2>1. PICK g \in owners : \A h \in owners : g <= h
    BY FirstExists
  <2>2. g \in Frontends \ {source} /\ n \in design.lib[g] /\ n \in design.offers[g]
    BY DesignsAssumption DEF IInv
  <2>3. g \in Asked(n, source)
    BY <1>1, <2>1, <2>2 DEF Asked, Frontends
  <2>4. g \in providing
    BY <2>2, <2>3 DEF Providers
  <2>5. providing \subseteq Frontends
    BY DEF Providers, Asked
  <2>6. First(providing) \in Frontends
    BY <2>4, <2>5, FirstIsOne
  <2> QED
    BY <1>1, <2>6, NoneIsNoFrontend DEF Definer
<1> QED
  BY <1>1, <1>2, <1>3

\* Of the frontends that are asked to provide a name, only the one that defines it
\* loads a file for it.
LEMMA OnlyDefinerLoads ==
  ASSUME IInv, NEW n, NEW source, Asks(n, source), NEW g \in Frontends, NEW m \in loaded'[g]
  PROVE  m \in loaded[g] \/ (m = n /\ g = Definer(n, source))
<1> SUFFICES ASSUME m \notin loaded[g]
             PROVE  m = n /\ g = Definer(n, source)
  OBVIOUS
<1> DEFINE providing == {h \in Providers(n, source) : n \in design.lib[h]}
<1>1. m = n /\ g \in providing
  BY DEF Asks, LoadedAfter
<1>2. Claimants(n, source) = {}
  BY <1>1 DEF Providers, Asked
<1>3. \A h \in providing : h = g
  <2> SUFFICES ASSUME NEW h \in providing
               PROVE  h = g
    OBVIOUS
  <2>1. /\ h \in Frontends \ {source} /\ g \in Frontends \ {source}
        /\ n \in design.lib[h] /\ n \in design.lib[g]
    BY <1>1 DEF Providers, Asked
  <2>2. ~(h < g) /\ ~(g < h)
    BY <1>1, <1>2, <2>1 DEF Providers, Asked
  <2> QED
    BY <2>1, <2>2 DEF Frontends
<1>4. First(providing) = g
  BY <1>1, <1>3, FirstIsOne DEF Providers, Asked
<1> QED
  BY <1>1, <1>2, <1>4 DEF Definer

-----------------------------------------------------------------------------
(* The steps. *)

\* Roots and files that are added take nothing from a fragment.
LEMMA RootedStays ==
  ASSUME Rooted, design' = design, reached' = reached,
         \A f \in Frontends : roots[f] \subseteq roots'[f] /\ loaded[f] \subseteq loaded'[f]
  PROVE  Rooted'
<1> SUFFICES ASSUME NEW f \in Frontends
             PROVE  reached'[f] \subseteq Reach(Starts(f), loaded[f])'
  BY DEF Rooted
<1>1. Reach(Starts(f), loaded[f])' = Reach(Starts(f)', loaded'[f])
  BY DEF Reach
<1>2. Starts(f) \subseteq Starts(f)'
  BY DEF Starts, IsAuto
<1>3. Reach(Starts(f), loaded[f]) \subseteq Reach(Starts(f)', loaded'[f])
  BY <1>2, ReachGrows
<1> QED
  BY <1>1, <1>3 DEF Rooted

\* Elaborating the roots there are now keeps the fragment and adds what they reach.
LEMMA ElaborateCompletes ==
  ASSUME IInv, Completing, Elaborate
  PROVE  Completing'
<1> DEFINE available == Available(turn, DefinedElsewhere(turn))
           got == Reach(Starts(turn), available)
           left == {u \in UNION {design.uses[v] : v \in got} : u[1] \notin available}
<1>1. /\ turn \in Frontends /\ design \in DesignType /\ got \in SUBSET Units
      /\ roots[turn] \in SUBSET Units /\ design.uses \in [Units -> SUBSET Units]
  BY ReachIsAvailable DEF IInv, TypeOK, DesignType
<1>2. \A f \in Frontends :
        /\ reached'[f] = IF f = turn THEN got ELSE reached[f]
        /\ unresolved'[f] = IF f = turn THEN left ELSE unresolved[f]
        /\ loaded'[f] = loaded[f] \union (IF f = turn THEN NamesOf(got) ELSE {})
        /\ done'[f] = IF f = turn THEN roots[f] ELSE done[f]
  BY DEF Elaborate, IInv, TypeOK
<1>3. /\ NextTurn
      /\ UNCHANGED <<design, units, roots, round, changed>>
      /\ pc = "elaborate"
  BY DEF Elaborate
<1>4. loaded[turn] \subseteq available
  BY DEF Available
<1>5. \A u \in roots[turn] \union got : u \in Units
  BY <1>1
<1> HIDE DEF available
<1>6. /\ \A u \in roots[turn] : u[1] \in available => u \in got
      /\ \A u \in got : \A v \in design.uses[u] : v[1] \in available => v \in got
  <2>1. roots[turn] \subseteq Starts(turn)
    BY DEF Starts
  <2> QED
    BY <1>1, <2>1, ReachIsClosed
<1>7. reached[turn] \subseteq got
  <2>1. reached[turn] \subseteq Reach(Starts(turn), loaded[turn])
    BY <1>1 DEF Completing, Rooted
  <2> QED
    BY <1>4, <2>1, ReachGrows
<1>8. Rooted'
  <2> SUFFICES ASSUME NEW f \in Frontends
               PROVE  reached'[f] \subseteq Reach(Starts(f), loaded[f])'
    BY DEF Rooted
  <2>1. Reach(Starts(f), loaded[f])' = Reach(Starts(f), loaded'[f])
    BY <1>3 DEF Reach, Starts, IsAuto
  <2>2. CASE f = turn
    <3>1. got \subseteq Reach(Starts(f), NamesOf(got))
      BY <2>2, ReachIsOwn
    <3>2. Reach(Starts(f), NamesOf(got)) \subseteq Reach(Starts(f), loaded'[f])
      <4>1. NamesOf(got) \subseteq loaded'[f]
        BY <1>2, <2>2
      <4> QED
        BY <4>1, ReachGrows
    <3> QED
      BY <1>2, <2>1, <2>2, <3>1, <3>2
  <2>3. CASE f # turn
    <3>1. reached'[f] = reached[f] /\ loaded'[f] = loaded[f]
      BY <1>2, <2>3
    <3>2. reached[f] \subseteq Reach(Starts(f), loaded[f])
      BY DEF Completing, Rooted
    <3> QED
      BY <2>1, <3>1, <3>2
  <2> QED
    BY <2>2, <2>3
<1> HIDE DEF got
<1>9. Resolved'
  <2> SUFFICES ASSUME NEW f \in Frontends, NEW w \in reached'[f], NEW v \in design.uses[w]
               PROVE  v \in reached'[f] \union unresolved'[f]
    BY <1>3 DEF Resolved
  <2>1. CASE f = turn
    <3>1. reached'[f] = got /\ unresolved'[f] = left
      BY <1>2, <2>1
    <3>2. CASE v[1] \in available
      BY <1>6, <3>1, <3>2
    <3>3. CASE v[1] \notin available
      BY <3>1, <3>3
    <3> QED
      BY <3>2, <3>3
  <2>2. CASE f # turn
    BY <1>2, <2>2 DEF Completing, Resolved
  <2> QED
    BY <2>1, <2>2
<1>10. RootsDefined'
  BY <1>3 DEF Completing, RootsDefined, Nowhere
<1>11. DoneReached'
  <2> SUFFICES ASSUME NEW f \in Frontends, NEW u \in done'[f]
               PROVE  u \in reached'[f] \/ Nowhere(u[1])
    BY <1>3 DEF DoneReached, Nowhere
  <2>1. CASE f = turn
    <3>1. u \in roots[turn]
      BY <1>2, <2>1
    <3>2. u[1] \in units[turn] \/ Nowhere(u[1])
      BY <1>1, <3>1 DEF Completing, RootsDefined
    <3>3. units[turn] \subseteq available
      BY <1>1, <1>4 DEF IInv, Lag
    <3> QED
      BY <1>2, <1>6, <2>1, <3>1, <3>2, <3>3
  <2>2. CASE f # turn
    BY <1>2, <2>2 DEF Completing, DoneReached
  <2> QED
    BY <2>1, <2>2
<1>12. FetchedForRoot'
  <2> SUFFICES ASSUME NEW f \in Frontends, NEW m \in loaded'[f] \ design.src[f]
               PROVE  m \in NamesOf(reached'[f] \union roots[f])
    BY <1>3 DEF FetchedForRoot, Fetched
  <2>1. CASE m \in loaded[f]
    <3>1. m \in NamesOf(reached[f] \union roots[f])
      BY <2>1 DEF Completing, FetchedForRoot, Fetched
    <3>2. reached[f] \subseteq reached'[f]
      BY <1>2, <1>7
    <3> QED
      BY <3>1, <3>2 DEF NamesOf
  <2>2. CASE m \notin loaded[f]
    <3>1. m \in NamesOf(got) /\ reached'[f] = got
      BY <1>2, <2>2
    <3> QED
      BY <3>1 DEF NamesOf
  <2> QED
    BY <2>1, <2>2
<1>13. UpToDate'
  <2>1. \A f \in Frontends : f < turn \/ f = turn => done'[f] = roots'[f]
    BY <1>2, <1>3 DEF Completing, UpToDate
  <2>2. ~changed'
    BY <1>3 DEF Completing, UpToDate
  <2>3. CASE turn < N
    <3>1. turn' = turn + 1 /\ pc' = "elaborate"
      BY <1>3, <2>3 DEF NextTurn
    <3>2. \A f \in Frontends : f < turn + 1 => f < turn \/ f = turn
      BY <1>1 DEF Frontends
    <3> QED
      BY <2>1, <2>2, <3>1, <3>2 DEF UpToDate
  <2>4. CASE ~(turn < N)
    <3>1. pc' = "route"
      BY <1>3, <2>4 DEF NextTurn
    <3>2. \A f \in Frontends : f < turn \/ f = turn
      BY <1>1, <2>4 DEF Frontends
    <3> QED
      BY <2>1, <3>1, <3>2 DEF UpToDate
  <2> QED
    BY <2>3, <2>4
<1>14. Routed'
  <2>1. CASE turn < N
    BY <1>3, <2>1 DEF NextTurn, Routed
  <2>2. CASE ~(turn < N)
    <3>1. turn' = 1 /\ todo' = NamesOf(unresolved'[1]) /\ pc' = "route"
      BY <1>3, <2>2 DEF NextTurn
    <3> QED
      BY <3>1 DEF Routed, NamesOf, Frontends
  <2> QED
    BY <2>1, <2>2
<1>15. RootsAreJustified'
  <2>1. \A f \in Frontends : reached[f] \subseteq reached'[f]
    BY <1>2, <1>7
  <2> QED
    BY <1>3, <2>1 DEF Completing, RootsAreJustified, Requested, Instantiated
<1> QED
  BY <1>8, <1>9, <1>10, <1>11, <1>12, <1>13, <1>14, <1>15 DEF Completing

\* What AssignTop and Route have in common: a name is looked up, and its units become
\* roots of the frontend that defines it.
LEMMA RootsFollowDefiner ==
  ASSUME IInv, Completing, NEW n, NEW source, Asks(n, source),
         NEW owner \in Frontends, NEW new \in SUBSET Units,
         new # {}, \A u \in new : u[1] = n,
         owner = Definer(n, source) \/ (Definer(n, source) = None /\ Nowhere(n)),
         roots' = [roots EXCEPT ![owner] = @ \union new],
         UNCHANGED <<reached, unresolved, done>>
  PROVE  /\ Rooted' /\ Resolved' /\ RootsDefined' /\ DoneReached' /\ FetchedForRoot'
         /\ \A f \in Frontends : roots[f] \subseteq roots'[f]
         /\ new \subseteq roots'[owner]
<1>1. design' = design /\ \A f \in Frontends : loaded[f] \subseteq loaded'[f] /\ units[f] \subseteq units'[f]
  BY AskingKeepsView DEF Asks, LoadedAfter
<1>2. \A f \in Frontends : roots'[f] = roots[f] \union (IF f = owner THEN new ELSE {})
  BY DEF IInv, TypeOK
<1>3. Rooted'
  BY <1>1, <1>2, RootedStays DEF Completing
<1>4. Resolved' /\ DoneReached'
  BY <1>1 DEF Completing, Resolved, DoneReached, Nowhere
<1>5. RootsDefined'
  <2>1. owner = Definer(n, source) => n \in units'[owner]
    BY DefinerDefines, NoneIsNoFrontend
  <2> QED
    BY <1>1, <1>2, <2>1 DEF Completing, RootsDefined, Nowhere
<1>6. FetchedForRoot'
  <2> SUFFICES ASSUME NEW f \in Frontends, NEW m \in loaded'[f] \ design.src[f]
               PROVE  m \in NamesOf(reached[f] \union roots'[f])
    BY <1>1 DEF FetchedForRoot, Fetched
  <2>1. CASE m \in loaded[f]
    BY <1>2, <2>1 DEF Completing, FetchedForRoot, Fetched, NamesOf
  <2>2. CASE m \notin loaded[f]
    <3>1. m = n /\ f = Definer(n, source)
      BY <2>2, OnlyDefinerLoads
    <3>2. f = owner
      BY <3>1, NoneIsNoFrontend
    <3> QED
      BY <1>2, <3>1, <3>2 DEF NamesOf
  <2> QED
    BY <2>1, <2>2
<1> QED
  BY <1>2, <1>3, <1>4, <1>5, <1>6

\* A --top becomes a root of the frontend that defines it, or of the catch-all.
LEMMA AssignTopCompletes ==
  ASSUME IInv, Completing, AssignTop
  PROVE  Completing'
<1>1. PICK n \in todo :
        /\ roots' = [roots EXCEPT ![IF Definer(n, None) = None
                                    THEN CatchAll ELSE Definer(n, None)]
                                    = @ \union {<<n, Default>>}]
        /\ loaded' = LoadedAfter(n, None)
        /\ units' = UnitsAfter(n, None)
        /\ todo' = todo \ {n}
  BY DEF AssignTop
<1> DEFINE owner == IF Definer(n, None) = None THEN CatchAll ELSE Definer(n, None)
           new == {<<n, Default>>}
<1>2. /\ pc = "tops" /\ n \in Names /\ n \in design.tops
      /\ UNCHANGED <<design, ran, done, reached, unresolved, loopVars, missing>>
  BY <1>1 DEF AssignTop, IInv, TypeOK, Completing, UpToDate
<1>3. new \in SUBSET Units /\ new # {} /\ \A u \in new : u[1] = n
  BY <1>2 DEF Units
<1>4. Asks(n, None)
  BY <1>1, <1>2 DEF Asks
<1>5. /\ owner \in Frontends
      /\ owner = Definer(n, None) \/ (Definer(n, None) = None /\ Nowhere(n))
  <2>1. CASE Definer(n, None) = None
    <3>1. \A g \in Frontends \ {None} : n \notin design.src[g] \union design.lib[g]
      BY <2>1, NobodyDefines
    <3> QED
      BY <2>1, <3>1, NoneIsNoFrontend DEF Nowhere
  <2>2. CASE Definer(n, None) # None
    BY <2>2, <1>4, DefinerDefines
  <2> QED
    BY <2>1, <2>2
<1>6. roots' = [roots EXCEPT ![owner] = @ \union new]
  BY <1>1
<1> HIDE DEF owner, new
<1>7. Rooted' /\ Resolved' /\ RootsDefined' /\ DoneReached' /\ FetchedForRoot'
  BY <1>2, <1>3, <1>4, <1>5, <1>6, RootsFollowDefiner
<1>8. UpToDate' /\ Routed'
  BY <1>1, <1>2 DEF Completing, UpToDate, Routed, loopVars
<1>9. RootsAreJustified'
  BY <1>2, <1>6 DEF Completing, RootsAreJustified, Requested, Instantiated, IInv, TypeOK, new
<1> QED
  BY <1>7, <1>8, <1>9 DEF Completing

\* An unresolved name becomes roots of the frontend that defines it, in each setting;
\* where there is none, no language defines it.
LEMMA RouteCompletes ==
  ASSUME IInv, Completing, Route
  PROVE  Completing'
<1>1. PICK n \in todo :
        /\ todo' = todo \ {n}
        /\ loaded' = LoadedAfter(n, turn)
        /\ units' = UnitsAfter(n, turn)
        /\ IF Definer(n, turn) = None
           THEN UNCHANGED <<roots, changed>>
           ELSE AddRoots(Definer(n, turn), {u \in unresolved[turn] : u[1] = n})
  BY DEF Route
<1> DEFINE owner == Definer(n, turn)
           new == {u \in unresolved[turn] : u[1] = n}
<1>2. /\ pc = "route" /\ turn \in Frontends /\ n \in Names /\ new \in SUBSET Units
      /\ UNCHANGED <<design, ran, done, reached, unresolved, round, pc, turn, missing>>
  BY <1>1 DEF Route, IInv, TypeOK
<1>3. new # {} /\ \A u \in new : u[1] = n
  BY <1>1, <1>2 DEF IInv, Routing, NamesOf
<1>4. Asks(n, turn)
  BY <1>1, <1>2, <1>3 DEF Asks, IInv, Complaints
<1>5. new \subseteq Instantiated
  BY <1>2 DEF IInv, Fragments, Instantiated
<1>6. \A f \in Frontends : \A u \in unresolved[f] :
        f < turn \/ (f = turn /\ u[1] \notin todo') =>
          \/ f = turn /\ u \in new
          \/ Nowhere(u[1]) \/ \E g \in Frontends : u \in roots[g]
  BY <1>1, <1>2 DEF Completing, Routed
<1> HIDE DEF owner, new
<1>7. CASE owner = None
  <2>1. roots' = roots /\ changed' = changed
    BY <1>1, <1>7 DEF owner
  <2>2. Nowhere(n)
    <3>1. /\ Claimants(n, turn) = {}
          /\ \A g \in Frontends \ {turn} : n \notin design.src[g] \union design.lib[g]
      BY <1>7, NobodyDefines DEF owner
    <3>2. n \notin design.src[turn]
      BY <1>2, <1>4, NoneIsNoFrontend DEF Asks
    <3>3. n \in design.lib[turn] => n \in DefinedElsewhere(turn)
      BY <1>2, <1>3 DEF IInv, Complaints, new
    <3> QED
      BY <3>1, <3>2, <3>3 DEF Nowhere, Claimants, DefinedElsewhere
  <2>3. \A g \in Frontends : \A m \in loaded'[g] : m \in loaded[g]
    BY <1>4, <1>7, OnlyDefinerLoads, NoneIsNoFrontend DEF owner
  <2>4. \A f \in Frontends : loaded[f] \subseteq loaded'[f] /\ units[f] \subseteq units'[f]
    BY <1>1, <1>4, AskingKeepsView DEF LoadedAfter
  <2>5. Rooted'
    BY <1>2, <2>1, <2>4, RootedStays DEF Completing
  <2>6. Resolved' /\ DoneReached' /\ FetchedForRoot' /\ RootsAreJustified'
    BY <1>2, <2>1, <2>3 DEF Completing, Resolved, DoneReached, FetchedForRoot, Fetched,
       RootsAreJustified, Requested, Instantiated, Nowhere
  <2>7. RootsDefined'
    BY <1>2, <2>1, <2>4 DEF Completing, RootsDefined, Nowhere
  <2>8. UpToDate'
    BY <1>2, <2>1 DEF Completing, UpToDate
  <2>9. Routed'
    BY <1>2, <1>3, <1>6, <2>1, <2>2 DEF Routed, Nowhere
  <2> QED
    BY <2>5, <2>6, <2>7, <2>8, <2>9 DEF Completing
<1>8. CASE owner # None
  <2>1. AddRoots(owner, new)
    BY <1>1, <1>8 DEF owner, new
  <2>2. owner \in Frontends
    BY <1>4, <1>8, DefinerDefines DEF owner
  <2>3. roots' = [roots EXCEPT ![owner] = @ \union new]
    BY <2>1 DEF AddRoots
  <2>4. /\ Rooted' /\ Resolved' /\ RootsDefined' /\ DoneReached' /\ FetchedForRoot'
        /\ \A f \in Frontends : roots[f] \subseteq roots'[f]
        /\ new \subseteq roots'[owner]
    BY <1>2, <1>3, <1>4, <2>2, <2>3, RootsFollowDefiner DEF owner
  <2>5. UpToDate'
    <3>1. changed' = (changed \/ ~(new \subseteq roots[owner]))
      BY <2>1 DEF AddRoots
    <3>2. ~changed' => roots' = roots /\ ~changed
      BY <2>2, <2>3, <3>1 DEF IInv, TypeOK
    <3> QED
      BY <1>2, <3>2 DEF Completing, UpToDate
  <2>6. Routed'
    BY <1>2, <1>6, <2>2, <2>4 DEF Routed, Nowhere
  <2>7. RootsAreJustified'
    BY <1>2, <1>5, <2>2, <2>3 DEF Completing, RootsAreJustified, Requested, Instantiated, IInv, TypeOK
  <2> QED
    BY <2>4, <2>5, <2>6, <2>7 DEF Completing
<1> QED
  BY <1>7, <1>8

\* Once nothing new was routed, every fragment holds its roots.
LEMMA RootsAreReached ==
  ASSUME Completing, pc \in {"route", "merged"}, ~changed
  PROVE  \A f \in Frontends : \A u \in roots[f] : u \in reached[f] \/ Nowhere(u[1])
BY DEF Completing, UpToDate, DoneReached

\* The frontends' fragments, their roots and what was routed, in every reachable state.
LEMMA CompletingInvariant == Spec => []Completing
<1>1. Init => Completing
  BY DEF Init, Completing, Rooted, Resolved, RootsDefined, DoneReached, FetchedForRoot, Fetched,
         UpToDate, Routed, RootsAreJustified
<1>2. IInv /\ Completing /\ [Next]_vars => Completing'
  <2> SUFFICES ASSUME IInv, Completing, [Next]_vars
               PROVE  Completing'
    OBVIOUS
  <2>1. CASE AssignTop
    BY <2>1, AssignTopCompletes
  <2>2. CASE Elaborate
    BY <2>2, ElaborateCompletes
  <2>3. CASE Route
    BY <2>3, RouteCompletes
  <2>4. CASE /\ UNCHANGED <<design, loaded, units, roots, done, reached, unresolved>>
             /\ UpToDate' /\ Routed'
    <3>1. Rooted'
      BY <2>4, RootedStays DEF Completing
    <3> QED
      BY <2>4, <3>1 DEF Completing, Resolved, RootsDefined, DoneReached, FetchedForRoot, Fetched,
         Nowhere, RootsAreJustified, Requested, Instantiated
  <2>5. CASE Begin
    <3>1. UpToDate' /\ Routed'
      BY <2>5 DEF Begin, Completing, UpToDate, Routed, Frontends
    <3> QED
      BY <2>4, <2>5, <3>1 DEF Begin
  <2>6. CASE SkipUnchanged
    <3>1. /\ pc = "elaborate" /\ done[turn] = roots[turn] /\ NextTurn /\ turn \in Frontends
          /\ UNCHANGED <<design, roots, done, unresolved, changed>>
      BY <2>6 DEF SkipUnchanged, IInv, TypeOK
    <3>2. CASE turn < N
      <4>1. turn' = turn + 1 /\ pc' = "elaborate"
        BY <3>1, <3>2 DEF NextTurn
      <4>2. \A f \in Frontends : f < turn + 1 => f < turn \/ f = turn
        BY <3>1 DEF Frontends
      <4>3. UpToDate' /\ Routed'
        BY <3>1, <4>1, <4>2 DEF Completing, UpToDate, Routed
      <4> QED
        BY <2>4, <2>6, <4>3 DEF SkipUnchanged
    <3>3. CASE ~(turn < N)
      <4>1. turn' = 1 /\ todo' = NamesOf(unresolved'[1]) /\ pc' = "route"
        BY <3>1, <3>3 DEF NextTurn
      <4>2. \A f \in Frontends : f < turn \/ f = turn
        BY <3>1, <3>3 DEF Frontends
      <4>3. UpToDate'
        BY <3>1, <4>1, <4>2 DEF Completing, UpToDate
      <4>4. Routed'
        BY <4>1 DEF Routed, NamesOf, Frontends
      <4> QED
        BY <2>4, <2>6, <4>3, <4>4 DEF SkipUnchanged
    <3> QED
      BY <3>2, <3>3
  <2>7. CASE RouteNextFragment
    <3>1. /\ pc = "route" /\ todo = {} /\ turn' = turn + 1 /\ todo' = NamesOf(unresolved[turn + 1])
          /\ turn \in Frontends
          /\ UNCHANGED <<design, roots, done, unresolved, changed, pc>>
      BY <2>7 DEF RouteNextFragment, IInv, TypeOK
    <3>2. UpToDate'
      BY <3>1 DEF Completing, UpToDate
    <3>3. Routed'
      <4>1. \A f \in Frontends : f < turn + 1 => f < turn \/ f = turn
        BY <3>1 DEF Frontends
      <4>2. \A u \in unresolved[turn + 1] : u[1] \in NamesOf(unresolved[turn + 1])
        BY DEF NamesOf
      <4> QED
        BY <3>1, <4>1, <4>2 DEF Completing, Routed, Nowhere
    <3> QED
      BY <2>4, <2>7, <3>2, <3>3 DEF RouteNextFragment
  <2>8. CASE NextRound
    <3>1. UpToDate' /\ Routed'
      BY <2>8 DEF NextRound, UpToDate, Routed, Frontends
    <3> QED
      BY <2>4, <2>8, <3>1 DEF NextRound
  <2>9. CASE Merge
    <3>1. /\ pc = "route" /\ todo = {} /\ turn = N /\ pc' = "merged"
          /\ UNCHANGED <<design, roots, done, unresolved, changed>>
      BY <2>9 DEF Merge
    <3>2. UpToDate'
      BY <3>1 DEF Completing, UpToDate
    <3>3. Routed'
      <4>1. \A f \in Frontends : f < turn \/ f = turn
        BY <3>1 DEF Frontends
      <4> QED
        BY <3>1, <4>1 DEF Completing, Routed, Nowhere
    <3> QED
      BY <2>4, <2>9, <3>2, <3>3 DEF Merge
  <2>10. CASE UNCHANGED vars
    <3>1. UpToDate' /\ Routed'
      BY <2>10 DEF vars, Completing, UpToDate, Routed, Nowhere
    <3> QED
      BY <2>4, <2>10, <3>1 DEF vars
  <2> QED
    BY <2>1, <2>2, <2>3, <2>5, <2>6, <2>7, <2>8, <2>9, <2>10 DEF Next, Merged
<1> QED
  BY <1>1, <1>2, IInvInductive, PTL DEF Spec

\* No frontend is ever given a root that nothing in the current fragments asks for:
\* a fragment that replaces an older one holds all of it (_Stitcher.run, _route).
THEOREM RootsAlwaysJustified == Spec => []RootsAreJustified
<1>1. Completing => RootsAreJustified
  BY DEF Completing
<1> QED
  BY <1>1, CompletingInvariant, PTL

\* Once a round finds nothing new, every instance of every elaborated unit is
\* elaborated by some frontend, in its very setting, or reported missing
\* (_Stitcher.run, _route and _merge).
THEOREM TreeIsAlwaysComplete == Spec => []TreeIsComplete
<1>1. IInv /\ Completing => TreeIsComplete
  <2> SUFFICES ASSUME IInv, Completing, pc = "merged", ~changed, NEW v \in Instantiated
               PROVE  \/ \E f \in Frontends : v \in reached[f]
                      \/ v[1] \in missing
    BY DEF TreeIsComplete
  <2>1. PICK f \in Frontends : v \in reached[f] \/ v \in unresolved[f]
    BY DEF Completing, Resolved, Instantiated
  <2>2. Nowhere(v[1]) => v[1] \in missing
    BY DEF IInv, MissingIsExact, Nowhere, NamesOf
  <2>3. ASSUME NEW g \in Frontends, v \in roots[g]
        PROVE  v \in reached[g] \/ Nowhere(v[1])
    BY <2>3, RootsAreReached
  <2> QED
    BY <2>1, <2>2, <2>3 DEF Completing, Routed
<1> QED
  BY <1>1, IInvInductive, CompletingInvariant, PTL

\* No file is pulled in for nothing: what a frontend took from -y, by itself or asked
\* by _definer, is in its last fragment.
THEOREM FetchedIsAlwaysUsed == Spec => []FetchedIsUsed
<1>1. IInv /\ Completing => FetchedIsUsed
  <2> SUFFICES ASSUME IInv, Completing, pc = "merged", ~changed,
                      NEW f \in Frontends, NEW n \in Fetched(f)
               PROVE  n \in NamesOf(reached[f])
    BY DEF FetchedIsUsed
  <2>1. PICK u \in reached[f] \union roots[f] : u[1] = n
    BY DEF Completing, FetchedForRoot, NamesOf
  <2>2. ~Nowhere(n)
    BY DEF IInv, Lag, Fetched, Nowhere
  <2>3. u \in reached[f]
    BY <2>1, <2>2, RootsAreReached
  <2> QED
    BY <2>1, <2>3 DEF NamesOf
<1> QED
  BY <1>1, IInvInductive, CompletingInvariant, PTL

-----------------------------------------------------------------------------
(* How many rounds there are. *)

\* A root that is new makes the roots more.
LEMMA NewRootCounts ==
  ASSUME TypeOK, TypeOK', IsFiniteSet(Frontends \X Units),
         \A f \in Frontends : roots[f] \subseteq roots'[f]
  PROVE  /\ Cardinality(AllRoots) \in Nat /\ Cardinality(AllRoots') \in Nat
         /\ Cardinality(AllRoots) <= Cardinality(AllRoots')
         /\ AllRoots # AllRoots' => Cardinality(AllRoots) < Cardinality(AllRoots')
         /\ Cardinality(AllRoots') <= Cardinality(Frontends \X Units)
<1>1. AllRoots \subseteq AllRoots' /\ AllRoots' \subseteq Frontends \X Units
  BY DEF AllRoots
<1>2. IsFiniteSet(AllRoots) /\ IsFiniteSet(AllRoots')
  BY <1>1, FS_Subset
<1>3. Cardinality(AllRoots) \in Nat /\ Cardinality(AllRoots') \in Nat
  BY <1>2, FS_CardinalityType
<1>4. /\ Cardinality(AllRoots) <= Cardinality(AllRoots')
      /\ Cardinality(AllRoots') = Cardinality(AllRoots) => AllRoots' = AllRoots
  BY <1>1, <1>2, FS_Subset
<1>5. Cardinality(AllRoots') <= Cardinality(Frontends \X Units)
  BY <1>1, FS_Subset
<1> HIDE DEF AllRoots
<1> QED
  BY <1>3, <1>4, <1>5

\* Each round but the last adds a root that no frontend had: routing a name again is
\* no news (_Stitcher._route).
LEMMA RoundsAddRoots ==
  ASSUME IsFiniteSet(Frontends \X Units)
  PROVE  Spec => []Rounds
<1>1. Init => Rounds
  <2> SUFFICES ASSUME Init
               PROVE  Rounds
    OBVIOUS
  <2>1. AllRoots = {}
    BY DEF Init, AllRoots
  <2>2. Cardinality(AllRoots) = 0
    BY <2>1, FS_EmptySet
  <2> QED
    BY <2>2 DEF Init, Rounds
<1>2. IInv /\ TypeOK' /\ Completing /\ Rounds /\ [Next]_vars => Rounds'
  <2> SUFFICES ASSUME IInv, TypeOK', Completing, Rounds, [Next]_vars
               PROVE  Rounds'
    OBVIOUS
  <2> DEFINE count == Cardinality(AllRoots)
  <2>1. TypeOK /\ round \in Nat /\ changed \in BOOLEAN
    BY DEF IInv, TypeOK
  <2>2. CASE AssignTop
    <3>1. UNCHANGED <<round, changed, pc>> /\ \A f \in Frontends : roots[f] \subseteq roots'[f]
      BY <2>1, <2>2 DEF AssignTop, TypeOK, loopVars
    <3>2. count \in Nat /\ count' \in Nat /\ count <= count'
      BY <2>1, <3>1, NewRootCounts
    <3> HIDE DEF count
    <3>3. round <= 1 + count' /\ (changed => round <= count')
      BY <2>1, <3>2 DEF Rounds, count
    <3> QED
      BY <2>2, <3>1, <3>3 DEF Rounds, count, AssignTop
  <2>3. CASE Route
    <3>1. PICK n \in todo :
            IF Definer(n, turn) = None
            THEN UNCHANGED <<roots, changed>>
            ELSE AddRoots(Definer(n, turn), {u \in unresolved[turn] : u[1] = n})
      BY <2>3 DEF Route
    <3> DEFINE owner == Definer(n, turn)
               new == {u \in unresolved[turn] : u[1] = n}
    <3>2. owner \in Frontends \union {None}
      BY DefinerType
    <3> HIDE DEF owner, new
    <3>3. /\ \A f \in Frontends : roots[f] \subseteq roots'[f]
          /\ changed' => changed \/ (\E f \in Frontends : roots'[f] # roots[f])
      <4>1. CASE owner = None
        BY <3>1, <4>1 DEF owner, new
      <4>2. CASE owner # None
        <5>1. /\ roots' = [roots EXCEPT ![owner] = @ \union new]
              /\ changed' = (changed \/ ~(new \subseteq roots[owner]))
          BY <3>1, <4>2 DEF AddRoots, owner, new
        <5> QED
          BY <2>1, <3>2, <4>2, <5>1 DEF TypeOK
      <4> QED
        BY <4>1, <4>2
    <3>4. (\E f \in Frontends : roots'[f] # roots[f]) => AllRoots' # AllRoots
      <4> SUFFICES ASSUME NEW f \in Frontends, roots'[f] # roots[f]
                   PROVE  AllRoots' # AllRoots
        OBVIOUS
      <4>1. PICK u \in roots'[f] : u \notin roots[f]
        BY <3>3
      <4>2. <<f, u>> \in AllRoots' /\ <<f, u>> \notin AllRoots
        BY <4>1 DEF AllRoots, TypeOK
      <4> QED
        BY <4>2
    <3>5. /\ count \in Nat /\ count' \in Nat /\ count <= count'
          /\ AllRoots # AllRoots' => count < count'
      BY <2>1, <3>3, NewRootCounts
    <3>6. round' = round /\ pc' = "route"
      BY <2>3 DEF Route
    <3> HIDE DEF count
    <3>7. round <= 1 + count /\ (changed => round <= count)
      BY DEF Rounds, count
    <3>8. round <= 1 + count' /\ (changed' => round <= count')
      <4>1. CASE AllRoots' # AllRoots
        <5>1. count < count'
          BY <3>5, <4>1
        <5> QED
          <6>1. \A r, a, b \in Nat : r <= 1 + a /\ a < b => r <= b /\ r <= 1 + b
            OBVIOUS
          <6>2. round <= count' /\ round <= 1 + count'
            BY <2>1, <3>5, <3>7, <5>1, <6>1
          <6> QED
            BY <6>2
      <4>2. CASE AllRoots' = AllRoots
        <5>1. count' = count
          BY <4>2 DEF count
        <5>2. changed' => changed
          BY <3>3, <3>4, <4>2
        <5> QED
          BY <3>7, <5>1, <5>2
      <4> QED
        BY <4>1, <4>2
    <3> QED
      BY <3>6, <3>8 DEF Rounds, count
  <2>4. CASE NextRound
    <3>1. changed /\ round' = round + 1 /\ changed' = FALSE /\ pc' = "elaborate" /\ roots' = roots
      BY <2>4 DEF NextRound
    <3>2. count' = count
      BY <3>1 DEF AllRoots
    <3>3. round <= count /\ count \in Nat
      BY <2>1, <3>1, NewRootCounts DEF Rounds
    <3> HIDE DEF count
    <3>4. round + 1 <= 1 + count'
      BY <2>1, <3>2, <3>3
    <3> QED
      BY <3>1, <3>4 DEF Rounds, count
  <2>5. CASE /\ UNCHANGED <<roots, round, changed>>
             /\ pc' = "merged" /\ changed => pc = "merged" \/ round = MaxRounds
    <3>1. AllRoots' = AllRoots
      BY <2>5 DEF AllRoots
    <3> QED
      BY <2>5, <3>1 DEF Rounds
  <2>6. CASE Begin \/ Elaborate \/ SkipUnchanged \/ RouteNextFragment \/ Merge
    BY <2>5, <2>6 DEF Begin, Elaborate, SkipUnchanged, NextTurn, RouteNextFragment, Merge
  <2>7. CASE UNCHANGED vars
    BY <2>5, <2>7 DEF vars
  <2> QED
    BY <2>2, <2>3, <2>4, <2>6, <2>7 DEF Next, Merged
<1> QED
  BY <1>1, <1>2, IInvInductive, CompletingInvariant, TypeCorrect, PTL DEF Spec

\* A design with finitely many settings is done before the rounds are used up: its
\* roots, one for a frontend and a unit, bound the rounds (_MAX_ROUNDS).
THEOREM ConvergesBeforeTheCut ==
  ASSUME IsFiniteSet(Names), IsFiniteSet(Settings),
         N * (Cardinality(Names) * Cardinality(Settings)) < MaxRounds
  PROVE  Spec => []ConvergesInTime
<1>1. /\ IsFiniteSet(Frontends \X Units)
      /\ Cardinality(Frontends \X Units) = N * (Cardinality(Names) * Cardinality(Settings))
  <2>1. IsFiniteSet(Frontends) /\ Cardinality(Frontends) = N
    BY FS_Interval DEF Frontends
  <2>2. IsFiniteSet(Units) /\ Cardinality(Units) = Cardinality(Names) * Cardinality(Settings)
    BY FS_Product DEF Units
  <2> QED
    BY <2>1, <2>2, FS_Product
<1>2. TypeOK /\ Rounds => ConvergesInTime
  <2> SUFFICES ASSUME TypeOK, Rounds
               PROVE  ConvergesInTime
    OBVIOUS
  <2>1. /\ AllRoots \subseteq Frontends \X Units
        /\ AllRoots = {r \in Frontends \X Units : r[2] \in roots[r[1]]}
    BY DEF AllRoots
  <2>2. Cardinality(AllRoots) \in Nat /\ Cardinality(AllRoots) < MaxRounds
    <3>1. IsFiniteSet(AllRoots) /\ Cardinality(AllRoots) <= Cardinality(Frontends \X Units)
      BY <1>1, <2>1, FS_Subset
    <3>2. Cardinality(AllRoots) \in Nat /\ Cardinality(Frontends \X Units) \in Nat
      BY <1>1, <3>1, FS_CardinalityType
    <3> HIDE DEF AllRoots
    <3> QED
      BY <1>1, <3>1, <3>2
  <2>3. pc = "merged" => ~changed
    BY <2>2 DEF Rounds
  <2> QED
    BY <2>1, <2>3 DEF Rounds, ConvergesInTime
<1> QED
  BY <1>1, <1>2, RoundsAddRoots, TypeCorrect, PTL
=============================================================================

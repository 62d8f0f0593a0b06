------------------------------- MODULE Stitch -------------------------------
(***************************************************************************)
(* The stitcher of src/svhier/frontends.py (class _Stitcher): several      *)
(* language frontends elaborate in rounds, and what one cannot resolve     *)
(* becomes a root of the frontend that defines it, until a round finds     *)
(* nothing new.                                                            *)
(*                                                                         *)
(* A frontend is its position in `inputs'.  What a run is given - sources, *)
(* -y directories, instances, --top - is a design, fixed at the start.     *)
(* Names are lowercased unit names, and a library file defines one unit.   *)
(* A frontend is modelled by the contract it keeps (Frontend, lines        *)
(* 56-105): it elaborates what its roots reach, takes missing units from   *)
(* its own -y unless they are defined elsewhere, and reports the rest.     *)
(***************************************************************************)
EXTENDS Naturals, FiniteSets

CONSTANTS
  N,          \* How many frontends take part.
  CatchAll,   \* The one that gets the tops nobody defines.
  Names,      \* Unit names.
  Settings,   \* Parameter settings a unit can be elaborated with.
  Default,    \* The setting of a root nothing passes values to.
  MaxRounds,  \* _MAX_ROUNDS, 20 in the code.
  Designs     \* The inputs considered.

Frontends == 1..N
None == 0
Units == Names \X Settings    \* A unit with its setting: what a Root names.

\* src, lib: what the sources and the -y files of a frontend define.
\* offers: names its -y index finds.  The index reads text, so it may offer a
\*         name the file turns out not to define (a package, an `ifdef).
\* own: the roots it finds by itself with auto.  uses: what a unit instantiates.
DesignType ==
  [src : [Frontends -> SUBSET Names],
   lib : [Frontends -> SUBSET Names],
   offers : [Frontends -> SUBSET Names],
   own : [Frontends -> SUBSET Names],
   uses : [Units -> SUBSET Units],
   tops : SUBSET Names]

ASSUME FrontendsAssumption ==
  /\ N \in Nat \ {0, 1}  \* With one frontend, stitch() just calls it.
  /\ CatchAll \in Frontends
  /\ Default \in Settings
  /\ MaxRounds \in Nat \ {0}

ASSUME DesignsAssumption ==
  \A d \in Designs :
    /\ d \in DesignType
    /\ \A f \in Frontends : /\ d.lib[f] \subseteq d.offers[f]
                            /\ d.own[f] \subseteq d.src[f]

VARIABLES
  design,     \* The inputs of the run.
  loaded,     \* What each frontend's files define now; elaborating may add to them.
  units,      \* The stitcher's copy of that, self.units: it can lag behind.
  roots,      \* self.requests[f].roots.
  ran,        \* Whether `done' has an entry for f ...
  done,       \* ... and the roots f last elaborated.
  reached,    \* The units of f's last fragment,
  unresolved, \* and what they instantiate that f has no definition for.
  round,
  changed,    \* Whether this round added a root.
  pc,
  turn,       \* The frontend whose turn it is in either loop of a round.
  todo,       \* Names left in the loop over tops, or over one fragment's unresolved.
  missing     \* The merged result's missing modules.

frontendVars == <<loaded, reached, unresolved>>
loopVars == <<round, changed, pc, turn>>
vars == <<design, loaded, units, roots, ran, done, reached, unresolved,
          round, changed, pc, turn, todo, missing>>

NamesOf(S) == {u[1] : u \in S}
IsAuto == design.tops = {}

-----------------------------------------------------------------------------
(* What a frontend does, by its contract. *)

\* Names a frontend's own inputs and -y may answer: never what other languages define.
Available(f, elsewhere) == loaded[f] \union (design.lib[f] \ elsewhere)

\* Mutant of Starts: only the roots that are new.
StartsNewOnly(f) ==
  (roots[f] \ done[f]) \union (IF IsAuto THEN {<<n, Default>> : n \in design.own[f]} ELSE {})

Starts(f) ==
  roots[f] \union (IF IsAuto THEN {<<n, Default>> : n \in design.own[f]} ELSE {})

\* The least set of available units that holds the roots and is closed under
\* instantiation.
Reach(starts, available) ==
  LET candidates == {u \in Units : u[1] \in available}
      Closed(S) == /\ starts \intersect candidates \subseteq S
                   /\ \A u \in S : design.uses[u] \intersect candidates \subseteq S
  IN  {u \in candidates : \A S \in SUBSET candidates : Closed(S) => u \in S}

\* request.defined_elsewhere.
DefinedElsewhere(f) == UNION {units[g] : g \in Frontends \ {f}}

-----------------------------------------------------------------------------
(* _definer: which frontend other than `source' defines a name. *)

Claimants(n, source) == {g \in Frontends \ {source} : n \in units[g]}

\* Mutant of Asked: ask each frontend in turn, before looking at the next one's sources.
AskedInTurn(n, source) ==
  {g \in Frontends \ {source} :
     /\ n \notin units[g]
     /\ \A h \in Frontends \ {source} : h < g => n \notin units[h] \union design.lib[h]}

\* Mutant of Asked: ask all of them, also after one defines the name.
AskedAll(n, source) ==
  IF Claimants(n, source) # {} THEN {} ELSE Frontends \ {source}

\* The frontends whose provide() is called: in order, until one defines the name.
Asked(n, source) ==
  IF Claimants(n, source) # {} THEN {}
  ELSE {g \in Frontends \ {source} :
          \A h \in Frontends \ {source} : h < g => n \notin design.lib[h]}

\* Of those, the ones that added a file and so had their units listed again.
Providers(n, source) == {g \in Asked(n, source) : n \in design.offers[g]}

First(S) == IF S = {} THEN None ELSE CHOOSE g \in S : \A h \in S : g <= h

Definer(n, source) ==
  IF Claimants(n, source) # {}
  THEN First(Claimants(n, source))
  ELSE First({g \in Providers(n, source) : n \in design.lib[g]})

LoadedAfter(n, source) ==
  [g \in Frontends |->
     loaded[g] \union (IF g \in Providers(n, source) THEN {n} \intersect design.lib[g] ELSE {})]

\* Mutant of UnitsAfter: no new listing after provide().
UnitsStale(n, source) == units

UnitsAfter(n, source) ==
  [g \in Frontends |->
     IF g \in Providers(n, source) THEN LoadedAfter(n, source)[g] ELSE units[g]]

-----------------------------------------------------------------------------
Init ==
  /\ design \in Designs
  /\ loaded = design.src
  /\ units = design.src
  /\ roots = [f \in Frontends |-> {}]
  /\ ran = [f \in Frontends |-> FALSE]
  /\ done = [f \in Frontends |-> {}]
  /\ reached = [f \in Frontends |-> {}]
  /\ unresolved = [f \in Frontends |-> {}]
  /\ round = 1
  /\ changed = FALSE
  /\ pc = "tops"
  /\ turn = 1
  /\ todo = design.tops
  /\ missing = {}

\* One --top: it goes to the frontend that defines it, or else to the catch-all.
AssignTop ==
  /\ pc = "tops"
  /\ \E n \in todo :
       LET owner == IF Definer(n, None) = None THEN CatchAll ELSE Definer(n, None)
       IN  /\ roots' = [roots EXCEPT ![owner] = @ \union {<<n, Default>>}]
           /\ loaded' = LoadedAfter(n, None)
           /\ units' = UnitsAfter(n, None)
           /\ todo' = todo \ {n}
  /\ UNCHANGED <<design, ran, done, reached, unresolved, loopVars, missing>>

Begin ==
  /\ pc = "tops"
  /\ todo = {}
  /\ pc' = "elaborate"
  /\ UNCHANGED <<design, loaded, units, roots, ran, done, reached, unresolved,
                 round, changed, turn, todo, missing>>

\* Mutant of NextTurn: one turn too many.
NextTurnPastEnd ==
  IF turn <= N
  THEN turn' = turn + 1 /\ pc' = pc /\ todo' = todo
  ELSE turn' = 1 /\ pc' = "route" /\ todo' = NamesOf(unresolved'[1])

\* After each frontend's turn to elaborate: the next one, or the routing loop.
NextTurn ==
  IF turn < N
  THEN turn' = turn + 1 /\ pc' = pc /\ todo' = todo
  ELSE turn' = 1 /\ pc' = "route" /\ todo' = NamesOf(unresolved'[1])

Elaborate ==
  /\ pc = "elaborate"
  /\ ~ran[turn] \/ done[turn] # roots[turn]
  /\ LET available == Available(turn, DefinedElsewhere(turn))
         got == Reach(Starts(turn), available)
     IN  /\ reached' = [reached EXCEPT ![turn] = got]
         /\ loaded' = [loaded EXCEPT ![turn] = @ \union NamesOf(got)]
         /\ unresolved' = [unresolved EXCEPT ![turn] =
              {u \in UNION {design.uses[v] : v \in got} : u[1] \notin available}]
  /\ ran' = [ran EXCEPT ![turn] = TRUE]
  /\ done' = [done EXCEPT ![turn] = roots[turn]]
  /\ NextTurn
  /\ UNCHANGED <<design, units, roots, round, changed, missing>>

SkipUnchanged ==
  /\ pc = "elaborate"
  /\ ran[turn] /\ done[turn] = roots[turn]
  /\ UNCHANGED <<design, loaded, units, roots, ran, done, reached, unresolved>>
  /\ NextTurn
  /\ UNCHANGED <<round, changed, missing>>

\* Mutant of AddRoots: a name that is a root in one setting is not added in another.
AddRootsByName(f, uses) ==
  IF NamesOf(uses) \subseteq NamesOf(roots[f])
  THEN UNCHANGED <<roots, changed>>
  ELSE roots' = [roots EXCEPT ![f] = @ \union uses] /\ changed' = TRUE

\* Mutant of AddRoots: a name that is routed again counts as news.
AddRootsAgain(f, uses) ==
  roots' = [roots EXCEPT ![f] = @ \union uses] /\ changed' = TRUE

\* The roots one unresolved name adds to the frontend that defines it.
AddRoots(f, uses) ==
  /\ roots' = [roots EXCEPT ![f] = @ \union uses]
  /\ changed' = (changed \/ ~(uses \subseteq roots[f]))

\* _route for one unresolved name, in each of the settings it is used with.
Route ==
  /\ pc = "route"
  /\ \E n \in todo :
       LET definer == Definer(n, turn)
       IN  /\ todo' = todo \ {n}
           /\ loaded' = LoadedAfter(n, turn)
           /\ units' = UnitsAfter(n, turn)
           /\ IF definer = None
              THEN UNCHANGED <<roots, changed>>
              ELSE AddRoots(definer, {u \in unresolved[turn] : u[1] = n})
  /\ UNCHANGED <<design, ran, done, reached, unresolved, round, pc, turn, missing>>

RouteNextFragment ==
  /\ pc = "route"
  /\ todo = {}
  /\ turn < N
  /\ turn' = turn + 1
  /\ todo' = NamesOf(unresolved[turn + 1])
  /\ UNCHANGED <<design, loaded, units, roots, ran, done, reached, unresolved,
                 round, changed, pc, missing>>

\* Mutant of NextRound: a while loop that does not reset its flag.
NextRoundUnbounded ==
  /\ pc = "route"
  /\ todo = {}
  /\ turn = N
  /\ changed
  /\ turn' = 1
  /\ pc' = "elaborate"
  /\ UNCHANGED <<design, loaded, units, roots, ran, done, reached, unresolved,
                 round, changed, todo, missing>>

NextRound ==
  /\ pc = "route"
  /\ todo = {}
  /\ turn = N
  /\ changed
  /\ round < MaxRounds
  /\ round' = round + 1
  /\ changed' = FALSE
  /\ turn' = 1
  /\ pc' = "elaborate"
  /\ UNCHANGED <<design, loaded, units, roots, ran, done, reached, unresolved,
                 todo, missing>>

\* Mutant of Merge: drop only what the sources of another frontend define.
MergeBySources ==
  /\ pc = "route"
  /\ todo = {}
  /\ turn = N
  /\ ~changed \/ round = MaxRounds
  /\ missing' = UNION {NamesOf(unresolved[f]) \ UNION {design.src[g] : g \in Frontends \ {f}} :
                         f \in Frontends}
  /\ pc' = "merged"
  /\ UNCHANGED <<design, loaded, units, roots, ran, done, reached, unresolved,
                 round, changed, turn, todo>>

\* _merge: a complaint stays unless another frontend defines the name.
Merge ==
  /\ pc = "route"
  /\ todo = {}
  /\ turn = N
  /\ ~changed \/ round = MaxRounds
  /\ missing' = UNION {NamesOf(unresolved[f]) \ DefinedElsewhere(f) : f \in Frontends}
  /\ pc' = "merged"
  /\ UNCHANGED <<design, loaded, units, roots, ran, done, reached, unresolved,
                 round, changed, turn, todo>>

Merged == pc = "merged" /\ UNCHANGED vars

Next ==
  \/ AssignTop
  \/ Begin
  \/ Elaborate
  \/ SkipUnchanged
  \/ Route
  \/ RouteNextFragment
  \/ NextRound
  \/ Merge
  \/ Merged

Spec == Init /\ [][Next]_vars

\* A sequential program that is running takes its next step.
FairSpec == Spec /\ WF_vars(Next)

-----------------------------------------------------------------------------
Fetched(f) == loaded[f] \ design.src[f]     \* What -y supplied.
Instantiated == UNION {design.uses[u] : u \in UNION {reached[f] : f \in Frontends}}
Requested == {<<n, Default>> : n \in design.tops}

\* The type of every variable: what _Stitcher and its requests hold, and where
\* run() is.
TypeOK ==
  /\ design \in DesignType
  /\ loaded \in [Frontends -> SUBSET Names]
  /\ units \in [Frontends -> SUBSET Names]
  /\ roots \in [Frontends -> SUBSET Units]
  /\ ran \in [Frontends -> BOOLEAN]
  /\ done \in [Frontends -> SUBSET Units]
  /\ reached \in [Frontends -> SUBSET Units]
  /\ unresolved \in [Frontends -> SUBSET Units]
  /\ round \in 1..MaxRounds
  /\ changed \in BOOLEAN
  /\ pc \in {"tops", "elaborate", "route", "merged"}
  /\ turn \in Frontends
  /\ todo \subseteq Names
  /\ missing \subseteq Names

\* "Sources always win" (docs/guide/libdirs.md): no -y supplies a unit that the
\* sources of another language define - neither a frontend searching for its own
\* instances nor the stitcher asking it to provide one, in whatever order.
SourcesWin ==
  \A f, g \in Frontends :
    f # g => (design.src[g] \ design.src[f]) \intersect loaded[f] = {}

\* Once a round finds nothing new, every instance of every elaborated unit is
\* elaborated by some frontend, in the very setting it is used with, or is
\* reported missing.  What a frontend could not resolve in an early round is in
\* no tree unless routing hands over each setting and the owner runs again.
TreeIsComplete ==
  pc = "merged" /\ ~changed =>
    \A v \in Instantiated : \/ \E f \in Frontends : v \in reached[f]
                            \/ v[1] \in missing

\* "Not found" holds exactly what is instantiated and no source or -y file of any
\* language defines, although complaints are dropped by the stitcher's lagging
\* list of units.
MissingIsExact ==
  pc = "merged" =>
    missing = {n \in NamesOf(Instantiated) :
                 \A f \in Frontends : n \notin design.src[f] \union design.lib[f]}

\* No file is pulled in for nothing: what a frontend took from -y, by itself or
\* asked by the stitcher, is in the hierarchy it elaborated in the end.
FetchedIsUsed ==
  pc = "merged" /\ ~changed =>
    \A f \in Frontends : Fetched(f) \subseteq NamesOf(reached[f])

\* No frontend is given a root that nothing in the current fragments asks for:
\* a fragment that replaces an older one never takes back an instance.
RootsAreJustified ==
  \A f \in Frontends : roots[f] \subseteq Requested \union Instantiated

\* Every round but the last brings a new root, so a design with finitely many
\* settings is done before the rounds are used up: a name routed again is no news.
ConvergesInTime ==
  /\ round <= 1 + Cardinality({r \in Frontends \X Units : r[2] \in roots[r[1]]})
  /\ pc = "merged" => ~changed

\* The loops over tops, frontends, names and rounds all end.
Terminates == <>(pc = "merged")
=============================================================================

----------------------------- MODULE Libraries -----------------------------
(***************************************************************************)
(* assign_libraries in svhier_ghdl: which VHDL library each file belongs   *)
(* to, from how the files refer to each other.  Named references place     *)
(* files, then libraries spread along references to work and from an       *)
(* architecture to its entity until nothing changes.                       *)
(***************************************************************************)
EXTENDS Naturals, SequencesExt

CONSTANTS
  NPaths,     \* Files, in sorted order.
  LibNames,   \* Libraries.
  UnitNames,  \* Units and entities.
  Dirs,       \* Directories.
  Work,       \* work, in a reference.
  Default,    \* --vhdl-work.
  Scans       \* What the worker reports of the files.

Paths == 1..NPaths

\* Per file: the units it defines, its references to a unit of a library in order, the
\* entities it has architectures of, the libraries it declares, and its directory, which
\* may have the name of a library.
ReportType ==
  [units : SUBSET UnitNames, refs : Seq((LibNames \union {Work}) \X UnitNames),
   arch_of : Seq(UnitNames), libs : SUBSET (LibNames \union {Work}), dir : Dirs]

ASSUME LibrariesAssumption ==
  /\ NPaths \in Nat
  /\ Scans \subseteq [Paths -> ReportType]

VARIABLES
  reports,
  step,     \* "named", "spread" or "placed".
  left,     \* The positions of the references this pass has not looked at yet.
  changed,
  placed,   \* The library of each file placed so far.
  doubts    \* The files noted as part of two libraries.

libVars == <<reports, step, left, changed, placed, doubts>>

DefinersOf(unit) == {p \in Paths : unit \in reports[p].units}
Declared == UNION {reports[p].libs : p \in Paths} \ {Work}

\* A file's references, and after them its architectures, each a reference to work.
Refs(p) ==
  reports[p].refs \o [i \in DOMAIN reports[p].arch_of |-> <<Work, reports[p].arch_of[i]>>]

\* A reference is where it is: a file and a position in it.
Positions == UNION {{p} \X DOMAIN Refs(p) : p \in Paths}
Library(x) == Refs(x[1])[x[2]][1]
Unit(x) == Refs(x[1])[x[2]][2]

\* The two loops pass over other libraries and units that nothing defines.
NamedRefs == {x \in Positions : Library(x) \in Declared /\ DefinersOf(Unit(x)) # {}}
LocalRefs == {x \in Positions : Library(x) = Work /\ DefinersOf(Unit(x)) # {}}

\* File by file, and in order in each.
FirstOf(xs) == CHOOSE x \in xs : \A y \in xs : x[1] < y[1] \/ (x[1] = y[1] /\ x[2] <= y[2])

\* _pick_named: a directory named after the library breaks ties.
PickNamed(unit, library) ==
  LET inDirectory == {p \in DefinersOf(unit) : reports[p].dir = library}
  IN  Min(IF inDirectory # {} THEN inDirectory ELSE DefinersOf(unit))

\* _pick_local: the file itself, the only one, one nearby, or one of the same library;
\* none, as an empty set, if it is not clear.
PickLocal(p, unit) ==
  LET all == DefinersOf(unit)
      near == {c \in all : reports[c].dir = reports[p].dir}
      same == {c \in all : c \in DOMAIN placed /\ p \in DOMAIN placed /\ placed[c] = placed[p]}
  IN  IF p \in all THEN {p}
      ELSE IF Cardinality(all) = 1 THEN all
      ELSE IF near # {} THEN {Min(near)}
      ELSE IF same # {} THEN {Min(same)}
      ELSE {}

LibInit ==
  /\ reports \in Scans
  /\ step = "named" /\ left = NamedRefs
  /\ changed = FALSE /\ placed = <<>> /\ doubts = {}

Place(p, library) == placed' = [f \in DOMAIN placed \union {p} |-> IF f = p THEN library ELSE placed[f]]

\* _place_named: the first reference wins.
PlaceNamed ==
  /\ step = "named" /\ left # {}
  /\ LET x == FirstOf(left)
         target == PickNamed(Unit(x), Library(x))
     IN  /\ IF target \notin DOMAIN placed THEN Place(target, Library(x)) /\ UNCHANGED doubts
            ELSE /\ doubts' = IF placed[target] = Library(x) THEN doubts ELSE doubts \union {target}
                 /\ UNCHANGED placed
         /\ left' = left \ {x}
  /\ UNCHANGED <<reports, step, changed>>

\* Mutant of Spread: libraries only spread to what is referred to.
SpreadForward ==
  /\ step = "spread" /\ left # {}
  /\ LET x == FirstOf(left)
         path == x[1]
         targets == PickLocal(path, Unit(x)) \ {path}
         forward(t) == path \in DOMAIN placed /\ t \notin DOMAIN placed
     IN  /\ \/ \E t \in targets : forward(t) /\ Place(t, placed[path]) /\ changed' = TRUE
            \/ (\A t \in targets : ~forward(t)) /\ UNCHANGED <<placed, changed>>
         /\ left' = left \ {x}
  /\ UNCHANGED <<reports, step, doubts>>

\* A step of _spread_local, either way along a reference.
Spread ==
  /\ step = "spread" /\ left # {}
  /\ LET x == FirstOf(left)
         path == x[1]
         targets == PickLocal(path, Unit(x)) \ {path}
         forward(t) == path \in DOMAIN placed /\ t \notin DOMAIN placed
         backward(t) == t \in DOMAIN placed /\ path \notin DOMAIN placed
     IN  /\ \/ \E t \in targets : forward(t) /\ Place(t, placed[path]) /\ changed' = TRUE
            \/ \E t \in targets : backward(t) /\ Place(path, placed[t]) /\ changed' = TRUE
            \/ (\A t \in targets : ~forward(t) /\ ~backward(t)) /\ UNCHANGED <<placed, changed>>
         /\ left' = left \ {x}
  /\ UNCHANGED <<reports, step, doubts>>

\* Another pass, if the last one changed anything.
Pass ==
  /\ step \in {"named", "spread"} /\ left = {}
  /\ IF step = "named" \/ changed THEN step' = "spread" /\ left' = LocalRefs
     ELSE step' = "placed" /\ UNCHANGED left
  /\ changed' = FALSE
  /\ UNCHANGED <<reports, placed, doubts>>

LibraryOf(p) == IF p \in DOMAIN placed THEN placed[p] ELSE Default

LibNext == PlaceNamed \/ Spread \/ Pass
LibSpec == LibInit /\ [][LibNext]_libVars

-----------------------------------------------------------------------------
NamedFor(p) == {Library(x) : x \in {y \in NamedRefs : PickNamed(Unit(y), Library(y)) = p}}

\* A file is linked with what it refers to: with all files that may be meant, or only with
\* one that must be, because no other file defines the unit.
Links(mayBe) ==
  UNION {{x[1]} \X {q \in DefinersOf(Unit(x)) : mayBe \/ DefinersOf(Unit(x)) = {q}} :
           x \in {y \in LocalRefs : y[1] \notin DefinersOf(Unit(y))}}

\* The files linked with one, directly or through others: all that are in every set
\* with it that no link leaves.
LinkedWith(p, links) ==
  {q \in Paths : \A S \in SUBSET Paths :
     p \in S /\ (\A e \in links : e[1] \in S <=> e[2] \in S) => q \in S}

\* Where the references leave no choice, neither does the order of the files or of the
\* references: files linked with each other are all in the one library that any of them
\* is named for, and in the default if none is.  A file is in no library that no reference
\* gives it, and if two do, the user is told.
LibrariesAgree ==
  step = "placed" =>
    LET mustBe == Links(FALSE)
        mayBe == Links(TRUE)
    IN  \A p \in Paths :
          LET must == UNION {NamedFor(q) : q \in LinkedWith(p, mustBe)}
              may == UNION {NamedFor(q) : q \in LinkedWith(p, mayBe)}
          IN  /\ must # {} => LibraryOf(p) \in may
              /\ LibraryOf(p) \in may \union {Default}
              /\ NamedFor(p) # {} => LibraryOf(p) \in NamedFor(p)
              /\ p \in doubts <=> \E l, m \in NamedFor(p) : l # m
=============================================================================

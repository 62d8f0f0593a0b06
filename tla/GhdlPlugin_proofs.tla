-------------------------- MODULE GhdlPlugin_proofs ---------------------------
(***************************************************************************)
(* Theorems about Libraries and ParseTree, for any number of files, any    *)
(* reports and any listing; and the plugin implements its parts, so their  *)
(* theorems and those of GhdlFrontend_proofs are the plugin's.             *)
(*                                                                         *)
(* LibInv is the invariant of assign_libraries.  What is placed is Founded *)
(* on a name, through links; a pass that changes nothing has Settled that  *)
(* no link leads from a placed file to one that is not.  ParseInv is the   *)
(* invariant of parse_tree: what comes between two levels is indented at   *)
(* least like the lower one, so a line that closes a level is not below    *)
(* what came after it either.                                              *)
(***************************************************************************)
EXTENDS GhdlPlugin, GhdlFrontend_proofs, FiniteSetTheorems, WellFoundedInduction, TLAPS

USE LibrariesAssumption

-----------------------------------------------------------------------------
(* Least and greatest numbers. *)

\* Numbers have a least one, ...
LEMMA LeastExists ==
  ASSUME NEW S \in SUBSET Nat, S # {}
  PROVE  \E m \in S : \A n \in S : m <= n
<1>1. PICK m \in S : \A n \in S : ~(<<n, m>> \in OpToRel(<, Nat))
  BY NatLessThanWellFounded, WFMin
<1>2. \A n \in S : ~(n < m)
  BY <1>1 DEF OpToRel
<1>3. m \in Nat /\ \A n \in S : n \in Nat
  OBVIOUS
<1>4. \A n \in S : m <= n
  BY <1>2, <1>3
<1> QED
  BY <1>4

\* ... which Min gives.
LEMMA MinIsLeast ==
  ASSUME NEW S \in SUBSET Nat, S # {}
  PROVE  Min(S) \in S
BY LeastExists DEF Min

\* Numbers up to a bound have a greatest one, and that is what Max gives.
LEMMA MaxIsGreatest ==
  ASSUME NEW S \in SUBSET Nat, S # {}, NEW b \in Nat, \A s \in S : s <= b
  PROVE  Max(S) \in S /\ \A s \in S : s <= Max(S)
<1> DEFINE bounds == {u \in Nat : \A s \in S : s <= u}
<1>1. PICK u \in bounds : \A v \in bounds : u <= v
  <2>1. bounds \in SUBSET Nat /\ b \in bounds
    OBVIOUS
  <2> QED
    BY <2>1, LeastExists
<1>2. u \in S
  <2> SUFFICES ASSUME u \notin S
               PROVE  FALSE
    OBVIOUS
  <2>1. u \in Nat /\ \A s \in S : s \in Nat /\ s <= u /\ s # u
    BY <1>1
  <2>2. u # 0
    <3>1. PICK s \in S : TRUE
      OBVIOUS
    <3> QED
      BY <2>1, <3>1
  <2>3. u - 1 \in bounds
    BY <2>1, <2>2
  <2> QED
    BY <1>1, <2>2, <2>3
<1>3. \A s \in S : u >= s
  BY <1>1
<1> QED
  BY <1>2, <1>3 DEF Max

-----------------------------------------------------------------------------
(* Libraries: what a pass reads. *)

\* The file a named reference places.
Target(x) == PickNamed(Unit(x), Library(x))

\* The named references that are still to be looked at.
Waiting == IF step = "named" THEN left ELSE {}

LibTypes ==
  /\ reports \in Scans
  /\ step \in {"named", "spread", "placed"}
  /\ step = "named" => left \subseteq NamedRefs
  /\ step = "spread" => left \subseteq LocalRefs
  /\ step = "placed" => left = {}
  /\ changed \in BOOLEAN
  /\ DOMAIN placed \subseteq Paths

\* Every file that a named reference looked at places is placed, in a library that it is
\* named for; by named references, no other file is.
NamedPlaced ==
  /\ \A x \in NamedRefs \ Waiting : Target(x) \in DOMAIN placed
  /\ \A p \in DOMAIN placed : NamedFor(p) # {} => placed[p] \in NamedFor(p)
  /\ step = "named" => \A p \in DOMAIN placed : NamedFor(p) # {}

\* A note says of a file that another of its references names another library.
DoubtsTold ==
  \A p \in Paths :
    p \in doubts <=> \E x \in NamedRefs \ Waiting : Target(x) = p /\ Library(x) # placed[p]

\* A file's library is one that a file linked with it is named for.
Founded ==
  \A p \in DOMAIN placed : \E q \in LinkedWith(p, Links(TRUE)) : placed[p] \in NamedFor(q)

\* After a pass that changes nothing, both ends of a reference are placed, or none.
Even(x) == \A t \in PickLocal(x[1], Unit(x)) : x[1] \in DOMAIN placed <=> t \in DOMAIN placed
Settled ==
  /\ step = "spread" /\ ~changed => \A x \in LocalRefs \ left : Even(x)
  /\ step = "placed" => \A x \in LocalRefs : Even(x)

LibInv == LibTypes /\ NamedPlaced /\ DoubtsTold /\ Founded /\ Settled

\* What a scan reports.
LEMMA ReportsHaveTypes ==
  ASSUME reports \in Scans
  PROVE  /\ \A p \in Paths : DOMAIN Refs(p) \subseteq Nat
         /\ \A unit : DefinersOf(unit) \subseteq Paths /\ DefinersOf(unit) \subseteq Nat
         /\ Paths \subseteq Nat /\ IsFiniteSet(Paths)
<1>1. reports \in [Paths -> ReportType]
  OBVIOUS
<1>2. ASSUME NEW p \in Paths
      PROVE  DOMAIN Refs(p) \subseteq Nat
  <2>1. reports[p] \in ReportType
    BY <1>1
  <2> DEFINE refs == reports[p].refs
             archs == [i \in DOMAIN reports[p].arch_of |-> <<Work, reports[p].arch_of[i]>>]
  <2>2. refs \in Seq((LibNames \union {Work}) \X UnitNames)
    BY <2>1 DEF ReportType
  <2>3. reports[p].arch_of \in Seq(UnitNames)
    BY <2>1 DEF ReportType
  <2>4. archs \in Seq({Work} \X UnitNames)
    BY <2>3
  <2>5. refs \in Seq(((LibNames \union {Work}) \union {Work}) \X UnitNames)
    BY <2>2
  <2>6. archs \in Seq(((LibNames \union {Work}) \union {Work}) \X UnitNames)
    BY <2>3
  <2> HIDE DEF refs, archs
  <2>7. refs \o archs \in Seq(((LibNames \union {Work}) \union {Work}) \X UnitNames)
    BY <2>5, <2>6
  <2>8. Refs(p) = refs \o archs
    BY DEF Refs, refs, archs
  <2> QED
    BY <2>7, <2>8
<1>3. IsFiniteSet(Paths)
  BY FS_Interval DEF Paths
<1> QED
  BY <1>2, <1>3 DEF DefinersOf, Paths

\* The first of the references left is one of them.
LEMMA FirstIsOneOf ==
  ASSUME reports \in Scans, NEW xs \in SUBSET Positions, xs # {}
  PROVE  FirstOf(xs) \in xs
<1>1. \A x \in xs : x[1] \in Paths /\ x[2] \in DOMAIN Refs(x[1])
  BY DEF Positions
<1>2. \A x \in xs : x[1] \in Nat /\ x[2] \in Nat
  BY <1>1, ReportsHaveTypes
<1> DEFINE firsts == {x[1] : x \in xs}
<1>3. PICK p \in firsts : \A q \in firsts : p <= q
  <2>1. firsts \in SUBSET Nat /\ firsts # {}
    BY <1>2
  <2> QED
    BY <2>1, LeastExists
<1> DEFINE seconds == {x[2] : x \in {y \in xs : y[1] = p}}
<1>4. PICK i \in seconds : \A j \in seconds : i <= j
  <2>1. seconds \in SUBSET Nat /\ seconds # {}
    BY <1>2
  <2> QED
    BY <2>1, LeastExists
<1>5. PICK x \in xs : x[1] = p /\ x[2] = i
  OBVIOUS
<1>6. \A y \in xs : x[1] < y[1] \/ (x[1] = y[1] /\ x[2] <= y[2])
  <2> SUFFICES ASSUME NEW y \in xs
               PROVE  x[1] < y[1] \/ (x[1] = y[1] /\ x[2] <= y[2])
    OBVIOUS
  <2>1. p <= y[1] /\ p \in Nat /\ y[1] \in Nat
    BY <1>2, <1>3
  <2>2. y[1] = p => i <= y[2]
    BY <1>4
  <2> QED
    BY <1>5, <2>1, <2>2
<1> QED
  BY <1>5, <1>6 DEF FirstOf

\* _pick_named picks a file that defines the unit.
LEMMA PickNamedDefines ==
  ASSUME reports \in Scans, NEW unit, NEW library, DefinersOf(unit) # {}
  PROVE  PickNamed(unit, library) \in DefinersOf(unit)
<1>1. DefinersOf(unit) \subseteq Nat
  BY ReportsHaveTypes
<1> QED
  BY <1>1, MinIsLeast DEF PickNamed

\* _pick_local picks the file itself, or another that defines the unit if it does not.
LEMMA PickLocalDefines ==
  ASSUME reports \in Scans, NEW p, NEW unit, NEW t \in PickLocal(p, unit), t # p
  PROVE  p \notin DefinersOf(unit) /\ t \in DefinersOf(unit)
<1> DEFINE all == DefinersOf(unit)
           near == {c \in all : reports[c].dir = reports[p].dir}
           same == {c \in all : c \in DOMAIN placed /\ p \in DOMAIN placed /\ placed[c] = placed[p]}
<1>1. /\ near \in SUBSET Nat /\ same \in SUBSET Nat
  BY ReportsHaveTypes
<1>2. p \notin all
  BY DEF PickLocal
<1>3. \/ t \in all
      \/ near # {} /\ t = Min(near)
      \/ same # {} /\ t = Min(same)
  BY <1>2 DEF PickLocal
<1> QED
  BY <1>1, <1>2, <1>3, MinIsLeast

\* It picks the only one there is.
LEMMA PickLocalSole ==
  ASSUME NEW p, NEW unit, NEW q, DefinersOf(unit) = {q}, p # q
  PROVE  PickLocal(p, unit) = {q}
<1>1. Cardinality({q}) = 1
  BY FS_Singleton
<1> QED
  BY <1>1 DEF PickLocal

-----------------------------------------------------------------------------
(* Libraries: links. *)

\* A reference links a file to another that it may mean.
LEMMA ReferencesLink ==
  ASSUME reports \in Scans, NEW x \in LocalRefs, NEW t \in DefinersOf(Unit(x)),
         x[1] \notin DefinersOf(Unit(x))
  PROVE  /\ <<x[1], t>> \in Links(TRUE)
         /\ DefinersOf(Unit(x)) = {t} => <<x[1], t>> \in Links(FALSE)
<1> DEFINE near(mayBe) == {q \in DefinersOf(Unit(x)) : mayBe \/ DefinersOf(Unit(x)) = {q}}
<1>1. \A mayBe \in BOOLEAN : \A e \in {x[1]} \X near(mayBe) : e \in Links(mayBe)
  BY DEF Links
<1>2. t \in near(TRUE) /\ (DefinersOf(Unit(x)) = {t} => t \in near(FALSE))
  OBVIOUS
<1> QED
  BY <1>1, <1>2

\* Nothing else does.
LEMMA LinksAreReferences ==
  ASSUME reports \in Scans, NEW mayBe \in BOOLEAN, NEW e \in Links(mayBe)
  PROVE  \E x \in LocalRefs : \E q \in DefinersOf(Unit(x)) :
           /\ e = <<x[1], q>> /\ x[1] \in Paths /\ q \in Paths
           /\ x[1] \notin DefinersOf(Unit(x)) /\ (mayBe \/ DefinersOf(Unit(x)) = {q})
<1>1. PICK x \in {y \in LocalRefs : y[1] \notin DefinersOf(Unit(y))} :
        e \in {x[1]} \X {q \in DefinersOf(Unit(x)) : mayBe \/ DefinersOf(Unit(x)) = {q}}
  BY DEF Links
<1>2. x \in LocalRefs /\ x[1] \in Paths
  BY DEF LocalRefs, Positions
<1>3. \A q \in DefinersOf(Unit(x)) : q \in Paths
  BY ReportsHaveTypes
<1> QED
  BY <1>1, <1>2, <1>3

\* A file is linked with itself, and two files that a reference links with the same ones.
LEMMA LinkedIsShared ==
  ASSUME NEW links, NEW a \in Paths, NEW b \in Paths
  PROVE  /\ a \in LinkedWith(a, links)
         /\ <<a, b>> \in links => LinkedWith(a, links) = LinkedWith(b, links)
<1> DEFINE Closed(S) == \A e \in links : e[1] \in S <=> e[2] \in S
<1>1. \A p : LinkedWith(p, links) =
        {q \in Paths : \A S \in SUBSET Paths : p \in S /\ Closed(S) => q \in S}
  BY DEF LinkedWith
<1>2. <<a, b>> \in links => \A S \in SUBSET Paths : Closed(S) => (a \in S <=> b \in S)
  OBVIOUS
<1> HIDE DEF Closed
<1> QED
  BY <1>1, <1>2

\* A set that no link leaves holds all that a file in it is linked with.
LEMMA LinkedStaysIn ==
  ASSUME NEW links, NEW S \in SUBSET Paths, \A e \in links : e[1] \in S <=> e[2] \in S,
         NEW p \in S, NEW q \in LinkedWith(p, links)
  PROVE  q \in S
BY DEF LinkedWith

-----------------------------------------------------------------------------
(* Libraries: the steps. *)

\* What is read of the scan does not change.
LEMMA ScanStays ==
  ASSUME reports' = reports
  PROVE  /\ NamedRefs' = NamedRefs /\ LocalRefs' = LocalRefs
         /\ \A x : Target(x)' = Target(x) /\ Library(x)' = Library(x) /\ Unit(x)' = Unit(x)
         /\ \A p : NamedFor(p)' = NamedFor(p)
         /\ \A mayBe : Links(mayBe)' = Links(mayBe)
         /\ \A p : LinkedWith(p, Links(TRUE))' = LinkedWith(p, Links(TRUE))
<1>1. /\ NamedRefs' = NamedRefs /\ LocalRefs' = LocalRefs
      /\ \A x : Target(x)' = Target(x) /\ Library(x)' = Library(x) /\ Unit(x)' = Unit(x)
  BY DEF NamedRefs, LocalRefs, Positions, Target, PickNamed, Library, Unit, Refs, DefinersOf, Declared
<1>2. \A p : NamedFor(p)' = NamedFor(p)
  BY DEF NamedFor, NamedRefs, Positions, PickNamed, Library, Unit, Refs, DefinersOf, Declared
<1>3. \A mayBe : Links(mayBe)' = Links(mayBe)
  BY DEF Links, LocalRefs, Positions, Library, Unit, Refs, DefinersOf
<1> QED
  BY <1>1, <1>2, <1>3 DEF LinkedWith

\* Placing a file leaves the others where they are.
LEMMA PlaceAdds ==
  ASSUME NEW p, NEW library, Place(p, library), p \notin DOMAIN placed
  PROVE  /\ DOMAIN placed' = DOMAIN placed \union {p}
         /\ placed'[p] = library
         /\ \A q \in DOMAIN placed : placed'[q] = placed[q]
BY DEF Place

\* The first reference to a file places it, the next ones may be told of.
LEMMA PlaceNamedKeeps ==
  ASSUME LibInv, PlaceNamed
  PROVE  LibInv'
<1> DEFINE x == FirstOf(left)
           target == Target(x)
<1>1. /\ step = "named" /\ step' = "named" /\ left # {} /\ left \subseteq NamedRefs
      /\ left' = left \ {x} /\ reports' = reports /\ changed' = changed
      /\ reports \in Scans
  BY DEF PlaceNamed, LibInv, LibTypes
<1>2. IF target \notin DOMAIN placed THEN Place(target, Library(x)) /\ doubts' = doubts
      ELSE /\ doubts' = IF placed[target] = Library(x) THEN doubts ELSE doubts \union {target}
           /\ placed' = placed
  BY DEF PlaceNamed, Target
<1>3. x \in left
  BY <1>1, FirstIsOneOf DEF NamedRefs
<1>4. target \in Paths
  BY <1>1, <1>3, PickNamedDefines, ReportsHaveTypes DEF NamedRefs, Target
<1>5. Library(x) \in NamedFor(target)
  BY <1>1, <1>3 DEF NamedFor, Target
<1> HIDE DEF x, target
<1>6. /\ DOMAIN placed' = DOMAIN placed \union {target}
      /\ \A q \in DOMAIN placed : placed'[q] = placed[q]
      /\ target \notin DOMAIN placed => placed'[target] = Library(x)
  BY <1>2, PlaceAdds
<1>7. /\ NamedRefs \ Waiting = NamedRefs \ left
      /\ (NamedRefs \ Waiting)' = (NamedRefs \ left) \union {x}
  BY <1>1, <1>3, ScanStays DEF Waiting
<1>8. LibTypes'
  BY <1>1, <1>3, <1>4, <1>6, ScanStays DEF LibInv, LibTypes
<1>9. NamedPlaced'
  <2>1. \A y \in (NamedRefs \ left) \union {x} : Target(y) \in DOMAIN placed'
    BY <1>6, <1>7 DEF LibInv, NamedPlaced, target
  <2>2. \A p \in DOMAIN placed' : NamedFor(p) # {} /\ placed'[p] \in NamedFor(p)
    BY <1>1, <1>5, <1>6 DEF LibInv, NamedPlaced
  <2> QED
    BY <1>1, <1>7, <2>1, <2>2, ScanStays DEF NamedPlaced
<1>10. DoubtsTold'
  <2> SUFFICES ASSUME NEW p \in Paths
               PROVE  p \in doubts' <=>
                        \E y \in (NamedRefs \ left) \union {x} : Target(y) = p /\ Library(y) # placed'[p]
    BY <1>1, <1>7, ScanStays DEF DoubtsTold
  <2>1. p \in doubts <=> \E y \in NamedRefs \ left : Target(y) = p /\ Library(y) # placed[p]
    BY <1>7 DEF LibInv, DoubtsTold
  <2>2. \A y \in NamedRefs \ left : Target(y) \in DOMAIN placed
    BY <1>7 DEF LibInv, NamedPlaced
  <2>3. Target(x) = target
    BY DEF target
  <2>4. CASE p # target
    BY <1>2, <1>6, <2>1, <2>2, <2>3, <2>4
  <2>5. CASE p = target /\ target \in DOMAIN placed
    BY <1>2, <1>6, <2>1, <2>3, <2>5
  <2>6. CASE p = target /\ target \notin DOMAIN placed
    BY <1>2, <1>6, <2>1, <2>2, <2>3, <2>6
  <2> QED
    BY <2>4, <2>5, <2>6
<1>11. Founded'
  <2> SUFFICES ASSUME NEW p \in DOMAIN placed'
               PROVE  \E q \in LinkedWith(p, Links(TRUE)) : placed'[p] \in NamedFor(q)
    BY <1>1, ScanStays DEF Founded
  <2>1. CASE p \in DOMAIN placed
    BY <1>6, <2>1 DEF LibInv, Founded
  <2>2. CASE p = target /\ target \notin DOMAIN placed
    BY <1>4, <1>5, <1>6, <2>2, LinkedIsShared
  <2> QED
    BY <1>6, <2>1, <2>2
<1>12. Settled'
  BY <1>1 DEF Settled
<1> QED
  BY <1>8, <1>9, <1>10, <1>11, <1>12 DEF LibInv

\* A library spreads to a file that has none, from one it is linked with.
LEMMA SpreadingFounds ==
  ASSUME LibInv, reports' = reports, NEW x \in LocalRefs, NEW t \in PickLocal(x[1], Unit(x)), t # x[1],
         NEW from \in {x[1], t}, NEW to \in {x[1], t} \ {from},
         from \in DOMAIN placed, to \notin DOMAIN placed, Place(to, placed[from])
  PROVE  /\ DOMAIN placed' = DOMAIN placed \union {to} /\ to \in Paths
         /\ \A q \in DOMAIN placed : placed'[q] = placed[q]
         /\ Founded'
<1>1. reports \in Scans
  BY DEF LibInv, LibTypes
<1>2. /\ DOMAIN placed' = DOMAIN placed \union {to}
      /\ placed'[to] = placed[from]
      /\ \A q \in DOMAIN placed : placed'[q] = placed[q]
  BY PlaceAdds
<1>3. x[1] \notin DefinersOf(Unit(x)) /\ t \in DefinersOf(Unit(x))
  BY <1>1, PickLocalDefines
<1>4. x[1] \in Paths /\ t \in Paths
  BY <1>1, <1>3, ReportsHaveTypes DEF LocalRefs, Positions
<1>5. LinkedWith(from, Links(TRUE)) = LinkedWith(to, Links(TRUE))
  <2>1. LinkedWith(x[1], Links(TRUE)) = LinkedWith(t, Links(TRUE))
    BY <1>1, <1>3, <1>4, ReferencesLink, LinkedIsShared
  <2> QED
    BY <2>1
<1>6. Founded'
  <2> SUFFICES ASSUME NEW p \in DOMAIN placed'
               PROVE  \E q \in LinkedWith(p, Links(TRUE)) : placed'[p] \in NamedFor(q)
    BY ScanStays DEF Founded
  <2>1. \A p_1 \in DOMAIN placed : \E q \in LinkedWith(p_1, Links(TRUE)) : placed[p_1] \in NamedFor(q)
    BY DEF LibInv, Founded
  <2>2. CASE p \in DOMAIN placed
    BY <1>2, <2>1, <2>2
  <2>3. CASE p = to
    BY <1>2, <1>5, <2>1, <2>3
  <2> QED
    BY <1>2, <2>2, <2>3
<1> QED
  BY <1>2, <1>4, <1>6

\* Once the named references are done, what is placed stays.
LEMMA PlacedStays ==
  ASSUME LibInv, reports' = reports, step # "named", step' # "named", doubts' = doubts,
         DOMAIN placed \subseteq DOMAIN placed', \A q \in DOMAIN placed : placed'[q] = placed[q]
  PROVE  NamedPlaced' /\ DoubtsTold'
<1>1. NamedRefs \ Waiting = NamedRefs /\ (NamedRefs \ Waiting)' = NamedRefs
  BY ScanStays DEF Waiting
<1>2. \A x \in NamedRefs : Target(x) \in DOMAIN placed
  BY <1>1 DEF LibInv, NamedPlaced
<1>3. \A p : NamedFor(p) # {} => p \in DOMAIN placed
  BY <1>2 DEF NamedFor, Target
<1>4. NamedPlaced'
  BY <1>1, <1>2, <1>3, ScanStays DEF LibInv, NamedPlaced
<1>5. DoubtsTold'
  <2> SUFFICES ASSUME NEW p \in Paths
               PROVE  p \in doubts <=> \E x \in NamedRefs : Target(x) = p /\ Library(x) # placed'[p]
    BY <1>1, ScanStays DEF DoubtsTold
  <2>1. p \in doubts <=> \E x \in NamedRefs : Target(x) = p /\ Library(x) # placed[p]
    BY <1>1 DEF LibInv, DoubtsTold
  <2> QED
    BY <1>2, <2>1
<1> QED
  BY <1>4, <1>5

\* A reference spreads a library one way or the other, or has nothing to spread.
LEMMA SpreadKeeps ==
  ASSUME LibInv, Spread
  PROVE  LibInv'
<1> DEFINE x == FirstOf(left)
           path == x[1]
           targets == PickLocal(path, Unit(x)) \ {path}
<1>1. /\ step = "spread" /\ step' = "spread" /\ left # {} /\ left \subseteq LocalRefs
      /\ left' = left \ {x} /\ reports' = reports /\ doubts' = doubts /\ reports \in Scans
  BY DEF Spread, LibInv, LibTypes
<1>2. x \in left /\ x \in LocalRefs
  BY <1>1, FirstIsOneOf DEF LocalRefs
<1>3. \/ \E t \in targets : /\ path \in DOMAIN placed /\ t \notin DOMAIN placed
                            /\ Place(t, placed[path]) /\ changed'
      \/ \E t \in targets : /\ t \in DOMAIN placed /\ path \notin DOMAIN placed
                            /\ Place(path, placed[t]) /\ changed'
      \/ /\ \A t \in targets : path \in DOMAIN placed <=> t \in DOMAIN placed
         /\ placed' = placed /\ changed' = changed
  BY DEF Spread
<1>4. \A t \in targets : t \in PickLocal(x[1], Unit(x)) /\ t # x[1]
  OBVIOUS
<1>5. \A t \in PickLocal(x[1], Unit(x)) : t \in targets \/ t = path
  OBVIOUS
<1>6. path = x[1]
  OBVIOUS
<1>7. changed' \in BOOLEAN
  BY <1>3 DEF LibInv, LibTypes
<1> HIDE DEF x, path, targets
<1>8. CASE placed' # placed
  <2>1. /\ DOMAIN placed \subseteq DOMAIN placed' /\ DOMAIN placed' \subseteq Paths
        /\ \A q \in DOMAIN placed : placed'[q] = placed[q]
        /\ Founded' /\ changed'
    <3>1. CASE \E t \in targets : /\ path \in DOMAIN placed /\ t \notin DOMAIN placed
                                  /\ Place(t, placed[path]) /\ changed'
      <4>1. PICK t \in targets : /\ path \in DOMAIN placed /\ t \notin DOMAIN placed
                                 /\ Place(t, placed[path]) /\ changed'
        BY <3>1
      <4>2. /\ DOMAIN placed' = DOMAIN placed \union {t} /\ t \in Paths
            /\ \A q \in DOMAIN placed : placed'[q] = placed[q]
            /\ Founded'
        <5>1. t \in PickLocal(x[1], Unit(x)) /\ t # x[1]
          BY <1>4
        <5>2. path \in {x[1], t} /\ t \in {x[1], t} \ {path}
          BY <1>6, <5>1
        <5> QED
          BY ONLY LibInv, <1>1, <1>2, <4>1, <5>1, <5>2, SpreadingFounds
      <4> QED
        BY <4>1, <4>2 DEF LibInv, LibTypes
    <3>2. CASE \E t \in targets : /\ t \in DOMAIN placed /\ path \notin DOMAIN placed
                                  /\ Place(path, placed[t]) /\ changed'
      <4>1. PICK t \in targets : /\ t \in DOMAIN placed /\ path \notin DOMAIN placed
                                 /\ Place(path, placed[t]) /\ changed'
        BY <3>2
      <4>2. /\ DOMAIN placed' = DOMAIN placed \union {path} /\ path \in Paths
            /\ \A q \in DOMAIN placed : placed'[q] = placed[q]
            /\ Founded'
        <5>1. t \in PickLocal(x[1], Unit(x)) /\ t # x[1]
          BY <1>4
        <5>2. t \in {x[1], t} /\ path \in {x[1], t} \ {t}
          BY <1>6, <5>1
        <5> QED
          BY ONLY LibInv, <1>1, <1>2, <4>1, <5>1, <5>2, SpreadingFounds
      <4> QED
        BY <4>1, <4>2 DEF LibInv, LibTypes
    <3> QED
      BY <1>3, <1>8, <3>1, <3>2
  <2>2. NamedPlaced' /\ DoubtsTold'
    BY <1>1, <2>1, PlacedStays
  <2>3. LibTypes'
    BY <1>1, <1>7, <2>1, ScanStays DEF LibInv, LibTypes
  <2>4. Settled'
    BY <1>1, <2>1 DEF Settled
  <2> QED
    BY <2>1, <2>2, <2>3, <2>4 DEF LibInv
<1>9. CASE placed' = placed
  <2>1. NamedPlaced' /\ DoubtsTold'
    BY <1>1, <1>9, PlacedStays
  <2>2. LibTypes'
    BY <1>1, <1>7, <1>9, ScanStays DEF LibInv, LibTypes
  <2>3. Founded'
    BY <1>1, <1>9, ScanStays DEF LibInv, Founded
  <2>4. Settled'
    <3>1. \A y : Even(y)' <=> Even(y)
      BY <1>1, <1>9 DEF Even, PickLocal, Unit, Refs, DefinersOf
    <3>2. ~changed' => ~changed /\ \A t \in targets : path \in DOMAIN placed <=> t \in DOMAIN placed
      BY <1>3, <1>9 DEF LibInv, LibTypes
    <3>3. ~changed' => Even(x)
      BY <1>5, <1>6, <3>2 DEF Even
    <3>4. ~changed' => \A y \in LocalRefs \ left' : Even(y)
      BY <1>1, <3>2, <3>3 DEF LibInv, Settled
    <3> QED
      BY <1>1, <3>1, <3>4, ScanStays DEF Settled
  <2> QED
    BY <2>1, <2>2, <2>3, <2>4 DEF LibInv
<1> QED
  BY <1>8, <1>9

\* A pass that changed nothing leaves no reference with something to spread.
LEMMA PassKeeps ==
  ASSUME LibInv, Pass
  PROVE  LibInv'
<1>1. /\ step \in {"named", "spread"} /\ left = {} /\ changed' = FALSE
      /\ reports' = reports /\ placed' = placed /\ doubts' = doubts
      /\ \/ step' = "spread" /\ left' = LocalRefs
         \/ step = "spread" /\ ~changed /\ step' = "placed" /\ left' = left
  BY DEF Pass
<1>2. (NamedRefs \ Waiting)' = NamedRefs /\ NamedRefs \ Waiting = NamedRefs
  BY <1>1, ScanStays DEF Waiting
<1>3. LibTypes'
  BY <1>1, ScanStays DEF LibInv, LibTypes
<1>4. NamedPlaced' /\ DoubtsTold' /\ Founded'
  <2>1. NamedPlaced'
    BY <1>1, <1>2, ScanStays DEF LibInv, NamedPlaced
  <2>2. DoubtsTold'
    BY <1>1, <1>2, ScanStays DEF LibInv, DoubtsTold
  <2>3. Founded'
    BY <1>1, ScanStays DEF LibInv, Founded
  <2> QED
    BY <2>1, <2>2, <2>3
<1>5. Settled'
  <2>1. \A y : Even(y)' <=> Even(y)
    BY <1>1 DEF Even, PickLocal, Unit, Refs, DefinersOf
  <2>2. CASE step' = "spread"
    BY <1>1, <2>2, ScanStays DEF Settled
  <2>3. CASE step' = "placed"
    BY <1>1, <2>1, <2>3, ScanStays DEF LibInv, Settled
  <2> QED
    BY <1>1, <2>2, <2>3
<1> QED
  BY <1>3, <1>4, <1>5 DEF LibInv

\* The inductive invariant of assign_libraries.
LEMMA LibInvInductive == LibSpec => []LibInv
<1>1. LibInit => LibInv
  <2> SUFFICES ASSUME LibInit
               PROVE  LibInv
    OBVIOUS
  <2>1. DOMAIN placed = {} /\ NamedRefs \ Waiting = {}
    BY DEF LibInit, Waiting
  <2> QED
    BY <2>1 DEF LibInit, LibInv, LibTypes, NamedPlaced, DoubtsTold, Founded, Settled
<1>2. LibInv /\ [LibNext]_libVars => LibInv'
  <2> SUFFICES ASSUME LibInv, [LibNext]_libVars
               PROVE  LibInv'
    OBVIOUS
  <2>1. CASE UNCHANGED libVars
    <3>1. \A y : Even(y)' <=> Even(y)
      BY <2>1 DEF libVars, Even, PickLocal, Unit, Refs, DefinersOf
    <3>2. reports' = reports /\ (NamedRefs \ Waiting)' = NamedRefs \ Waiting
      BY <2>1, ScanStays DEF libVars, Waiting
    <3>3. LibTypes'
      BY <2>1, ScanStays DEF libVars, LibInv, LibTypes
    <3>4. NamedPlaced'
      BY <2>1, <3>2, ScanStays DEF libVars, LibInv, NamedPlaced
    <3>5. DoubtsTold'
      BY <2>1, <3>2, ScanStays DEF libVars, LibInv, DoubtsTold
    <3>6. Founded'
      BY <2>1, ScanStays DEF libVars, LibInv, Founded
    <3>7. Settled'
      BY <2>1, <3>1, ScanStays DEF libVars, LibInv, Settled
    <3> QED
      BY <3>3, <3>4, <3>5, <3>6, <3>7 DEF LibInv
  <2> QED
    BY <2>1, PlaceNamedKeeps, SpreadKeeps, PassKeeps DEF LibNext
<1> QED
  BY <1>1, <1>2, PTL DEF LibSpec

\* Where assign_libraries ends, each file is in a library that a reference gives it or a
\* file linked with it; files that must share a library with a file that has one have
\* one; a name for a file itself comes first, and a second name for it is told.
THEOREM LibrariesAlwaysAgree == LibSpec => []LibrariesAgree
<1>1. LibInv => LibrariesAgree
  <2> SUFFICES ASSUME LibInv, step = "placed", NEW p \in Paths
               PROVE  LET must == UNION {NamedFor(q) : q \in LinkedWith(p, Links(FALSE))}
                          may == UNION {NamedFor(q) : q \in LinkedWith(p, Links(TRUE))}
                      IN  /\ must # {} => LibraryOf(p) \in may
                          /\ LibraryOf(p) \in may \union {Default}
                          /\ NamedFor(p) # {} => LibraryOf(p) \in NamedFor(p)
                          /\ p \in doubts <=> \E l, m \in NamedFor(p) : l # m
    BY DEF LibrariesAgree
  <2> DEFINE must == UNION {NamedFor(q) : q \in LinkedWith(p, Links(FALSE))}
             may == UNION {NamedFor(q) : q \in LinkedWith(p, Links(TRUE))}
  <2>1. reports \in Scans /\ NamedRefs \ Waiting = NamedRefs
    BY DEF LibInv, LibTypes, Waiting
  <2>2. \A q : NamedFor(q) # {} => q \in DOMAIN placed
    BY <2>1 DEF LibInv, NamedPlaced, NamedFor, Target
  <2>3. p \in DOMAIN placed => LibraryOf(p) = placed[p] /\ placed[p] \in may
    BY DEF LibInv, Founded, LibraryOf
  <2>4. p \notin DOMAIN placed => LibraryOf(p) = Default
    BY DEF LibraryOf
  <2>5. must # {} => p \in DOMAIN placed
    <3> SUFFICES ASSUME must # {}, p \notin DOMAIN placed
                 PROVE  FALSE
      OBVIOUS
    <3>1. PICK q \in LinkedWith(p, Links(FALSE)) : NamedFor(q) # {}
      OBVIOUS
    <3> DEFINE rest == Paths \ DOMAIN placed
    <3>2. \A e \in Links(FALSE) : e[1] \in rest <=> e[2] \in rest
      <4> SUFFICES ASSUME NEW e \in Links(FALSE)
                   PROVE  e[1] \in rest <=> e[2] \in rest
        OBVIOUS
      <4>0. PICK x \in LocalRefs : \E t \in DefinersOf(Unit(x)) :
              /\ e = <<x[1], t>> /\ x[1] \in Paths /\ t \in Paths
              /\ x[1] \notin DefinersOf(Unit(x)) /\ DefinersOf(Unit(x)) = {t}
        BY <2>1, LinksAreReferences
      <4>1. PICK t \in DefinersOf(Unit(x)) :
              /\ e = <<x[1], t>> /\ x[1] \in Paths /\ t \in Paths
              /\ x[1] \notin DefinersOf(Unit(x)) /\ DefinersOf(Unit(x)) = {t}
        BY <4>0
      <4>2. PickLocal(x[1], Unit(x)) = {t}
        BY <4>1, PickLocalSole
      <4>3. Even(x)
        BY DEF LibInv, Settled
      <4> QED
        BY <4>1, <4>2, <4>3 DEF Even
    <3>3. q \in rest
      BY <3>1, <3>2, LinkedStaysIn
    <3> QED
      BY <2>2, <3>1, <3>3
  <2>6. NamedFor(p) # {} => LibraryOf(p) \in NamedFor(p)
    BY <2>2, <2>3 DEF LibInv, NamedPlaced
  <2>7. p \in doubts <=> \E l, m \in NamedFor(p) : l # m
    <3>1. p \in doubts <=> \E x \in NamedRefs : Target(x) = p /\ Library(x) # placed[p]
      BY <2>1 DEF LibInv, DoubtsTold
    <3>2. \A l : l \in NamedFor(p) <=> \E x \in NamedRefs : Target(x) = p /\ Library(x) = l
      BY DEF NamedFor, Target
    <3>3. p \in doubts <=> \E l \in NamedFor(p) : l # placed[p]
      BY <3>1, <3>2
    <3>4. NamedFor(p) # {} => placed[p] \in NamedFor(p)
      BY <2>2 DEF LibInv, NamedPlaced
    <3> QED
      BY <3>3, <3>4
  <2> QED
    BY <2>3, <2>4, <2>5, <2>6, <2>7
<1> QED
  BY <1>1, LibInvInductive, PTL

-----------------------------------------------------------------------------
(* ParseTree. *)

\* How much the line of a node is indented.
Indent(tree, m) == tree[m].line.indent

NodeType == [line : Lines, generics : SUBSET Items, parent : Nat]

ParseTypes ==
  /\ unread \in Seq(Lines)
  /\ nodes \in Seq(NodeType)
  /\ levels \in Seq(DOMAIN nodes)

\* The levels lead to the last node, each one after the one above it, and indented more.
LevelsDescend ==
  /\ nodes # <<>> => levels # <<>> /\ Last(levels) = Len(nodes)
  /\ \A i, j \in DOMAIN levels :
       i < j => levels[i] < levels[j] /\ Indent(nodes, levels[i]) < Indent(nodes, levels[j])

\* What comes between two levels is not indented less than the lower one.
BetweenLevels ==
  \A k \in DOMAIN levels : \A m \in DOMAIN nodes :
    m < levels[k] /\ (k = 1 \/ levels[k - 1] < m) => Indent(nodes, levels[k]) <= Indent(nodes, m)

ParseInv == ParseTypes /\ LevelsDescend /\ BetweenLevels /\ ParentIsNearest

\* The types of what is read.
LEMMA NodesHaveTypes ==
  ASSUME ParseTypes
  PROVE  /\ DOMAIN nodes = 1..Len(nodes) /\ Len(nodes) \in Nat
         /\ DOMAIN levels = 1..Len(levels) /\ Len(levels) \in Nat
         /\ \A i \in DOMAIN levels : levels[i] \in DOMAIN nodes
         /\ \A n \in DOMAIN nodes : n \in Nat /\ Indent(nodes, n) \in Nat
         /\ \A line \in Lines : line.indent \in Nat
<1>1. \A line \in Lines : line.indent \in Nat /\ line.item \in Items
  BY DEF Lines
<1>2. \A n \in DOMAIN nodes : nodes[n].line \in Lines
  <2>1. \A n \in DOMAIN nodes : nodes[n] \in NodeType
    BY DEF ParseTypes
  <2> QED
    BY <2>1 DEF NodeType
<1> QED
  BY <1>1, <1>2 DEF ParseTypes, Indent

\* Storing a generic changes neither a line nor where it is.
LEMMA SkipObjectKeeps ==
  ASSUME ParseInv, SkipObject
  PROVE  ParseInv'
<1> DEFINE line == Head(unread)
           last == Len(nodes)
<1>1. /\ unread' = Tail(unread) /\ unread # <<>> /\ levels' = levels
      /\ \/ nodes' = nodes
         \/ last # 0 /\ nodes' = [nodes EXCEPT ![last].generics = @ \union {line.item}]
  BY DEF SkipObject
<1>2. line \in Lines /\ unread' \in Seq(Lines)
  BY <1>1 DEF ParseInv, ParseTypes
<1>3. /\ nodes' \in Seq(NodeType)
      /\ Len(nodes') = Len(nodes) /\ DOMAIN nodes' = DOMAIN nodes
      /\ \A n \in DOMAIN nodes : nodes'[n].line = nodes[n].line /\ nodes'[n].parent = nodes[n].parent
  <2>1. CASE nodes' = nodes
    BY <2>1 DEF ParseInv, ParseTypes
  <2>2. CASE last # 0 /\ nodes' = [nodes EXCEPT ![last].generics = @ \union {line.item}]
    <3>1. line.item \in Items
      BY <1>2 DEF Lines
    <3>2. nodes \in Seq(NodeType)
      BY DEF ParseInv, ParseTypes
    <3>3. last \in DOMAIN nodes /\ nodes[last] \in NodeType
      BY <2>2, <3>2
    <3> DEFINE node == [nodes[last] EXCEPT !.generics = @ \union {line.item}]
    <3>4. nodes' = [nodes EXCEPT ![last] = node]
      BY <2>2
    <3>5. node \in NodeType /\ node.line = nodes[last].line /\ node.parent = nodes[last].parent
      BY <3>1, <3>3 DEF NodeType
    <3> HIDE DEF line, node, last
    <3> QED
      BY <3>2, <3>3, <3>4, <3>5
  <2> QED
    BY <1>1, <2>1, <2>2
<1>4. \A n \in DOMAIN nodes : Indent(nodes', n) = Indent(nodes, n)
  BY <1>3 DEF Indent
<1>5. \A k \in DOMAIN levels : levels[k] \in DOMAIN nodes
  BY DEF ParseInv, ParseTypes
<1>6. ParseTypes'
  BY <1>1, <1>2, <1>3 DEF ParseInv, ParseTypes
<1>7. LevelsDescend'
  BY <1>1, <1>3, <1>4, <1>5 DEF ParseInv, ParseTypes, LevelsDescend, Last
<1>8. BetweenLevels'
  BY <1>1, <1>3, <1>4, <1>5 DEF ParseInv, BetweenLevels
<1>9. ParentIsNearest'
  <2>1. \A n \in DOMAIN nodes : \A m \in 1..(n - 1) : m \in DOMAIN nodes
    BY DEF ParseInv, ParseTypes
  <2>2. \A n \in DOMAIN nodes :
          /\ nodes[n].parent \in 0..(n - 1)
          /\ nodes[n].parent # 0 => Indent(nodes, nodes[n].parent) < Indent(nodes, n)
          /\ \A m \in (nodes[n].parent + 1)..(n - 1) : Indent(nodes, m) >= Indent(nodes, n)
    BY DEF ParseInv, ParentIsNearest, Indent
  <2>3. \A n \in DOMAIN nodes :
          /\ nodes[n].parent # 0 => nodes[n].parent \in DOMAIN nodes
          /\ \A m \in (nodes[n].parent + 1)..(n - 1) : m \in DOMAIN nodes
    BY <2>1, <2>2 DEF ParseInv, ParseTypes
  <2>4. \A n \in DOMAIN nodes' :
          /\ nodes'[n].parent \in 0..(n - 1)
          /\ nodes'[n].parent # 0 => Indent(nodes', nodes'[n].parent) < Indent(nodes', n)
          /\ \A m \in (nodes'[n].parent + 1)..(n - 1) : Indent(nodes', m) >= Indent(nodes', n)
    <3> SUFFICES ASSUME NEW n \in DOMAIN nodes
                 PROVE  /\ nodes'[n].parent \in 0..(n - 1)
                        /\ nodes'[n].parent # 0 => Indent(nodes', nodes'[n].parent) < Indent(nodes', n)
                        /\ \A m \in (nodes'[n].parent + 1)..(n - 1) : Indent(nodes', m) >= Indent(nodes', n)
      BY <1>3
    <3>1. nodes'[n].parent = nodes[n].parent
      BY <1>3
    <3> QED
      BY <1>4, <2>2, <2>3, <3>1
  <2> QED
    BY <2>4 DEF ParentIsNearest, Indent
<1> QED
  BY <1>6, <1>7, <1>8, <1>9 DEF ParseInv

\* The levels left open by a line are those indented less than it, and each node after the
\* last of them is not.
LEMMA EnclosingIndentsLess ==
  ASSUME ParseInv, NEW line \in Lines
  PROVE  \E k \in 0..Len(levels) :
           /\ Enclosing(line) = SubSeq(levels, 1, k)
           /\ \A i \in 1..k : Indent(nodes, levels[i]) < line.indent
           /\ \A m \in DOMAIN nodes : k = 0 \/ levels[k] < m => line.indent <= Indent(nodes, m)
<1> DEFINE less == {i \in DOMAIN levels : nodes[levels[i]].line.indent < line.indent}
           k == Max({0} \union less)
<1>1. /\ levels \in Seq(DOMAIN nodes) /\ DOMAIN levels = 1..Len(levels) /\ Len(levels) \in Nat
      /\ DOMAIN nodes = 1..Len(nodes) /\ Len(nodes) \in Nat
      /\ \A n \in DOMAIN nodes : Indent(nodes, n) \in Nat
      /\ \A i \in DOMAIN levels : levels[i] \in DOMAIN nodes
      /\ line.indent \in Nat
  BY NodesHaveTypes DEF ParseInv, ParseTypes
<1>2. k \in {0} \union less /\ \A s \in {0} \union less : s <= k
  <2>1. {0} \union less \in SUBSET Nat /\ \A s \in {0} \union less : s <= Len(levels)
    BY <1>1
  <2> HIDE DEF less
  <2> QED
    BY <1>1, <2>1, MaxIsGreatest
<1>3. \A i \in DOMAIN levels : i \in less <=> Indent(nodes, levels[i]) < line.indent
  BY DEF Indent
<1>4. Enclosing(line) = SubSeq(levels, 1, k)
  BY DEF Enclosing
<1> HIDE DEF less, k
<1>5. k \in 0..Len(levels) /\ less \subseteq DOMAIN levels
  BY <1>1, <1>2 DEF less
<1>6. \A i \in 1..k : Indent(nodes, levels[i]) < line.indent
  <2> SUFFICES ASSUME NEW i \in 1..k
               PROVE  Indent(nodes, levels[i]) < line.indent
    OBVIOUS
  <2>1. k \in less /\ k \in DOMAIN levels /\ i \in DOMAIN levels
    BY <1>1, <1>2, <1>5
  <2>2. i = k \/ Indent(nodes, levels[i]) < Indent(nodes, levels[k])
    BY <1>5, <2>1 DEF ParseInv, LevelsDescend
  <2> QED
    BY <1>1, <1>3, <2>1, <2>2
<1>7. ASSUME NEW m \in DOMAIN nodes, k = 0 \/ levels[k] < m
      PROVE  line.indent <= Indent(nodes, m)
  <2> DEFINE reached == {j \in DOMAIN levels : m <= levels[j]}
  <2>1. PICK j \in reached : \A i \in reached : j <= i
    <3>1. Len(levels) \in DOMAIN levels /\ levels[Len(levels)] = Len(nodes)
      BY <1>1 DEF ParseInv, LevelsDescend, Last
    <3>2. reached \in SUBSET Nat /\ reached # {}
      BY <1>1, <3>1
    <3> QED
      BY <3>2, LeastExists
  <2>2. k < j
    <3> SUFFICES ASSUME j <= k
                 PROVE  FALSE
      BY <1>1, <1>5
    <3>1. k \in DOMAIN levels /\ j \in DOMAIN levels /\ m <= levels[j] /\ levels[k] < m
      BY <1>1, <1>5, <1>7
    <3>2. j = k \/ levels[j] < levels[k]
      BY <1>5, <3>1 DEF ParseInv, LevelsDescend
    <3> QED
      BY <1>1, <3>1, <3>2
  <2>3. line.indent <= Indent(nodes, levels[j])
    <3>1. j \notin less
      BY <1>1, <1>2, <1>5, <2>2
    <3> QED
      BY <1>1, <1>3, <3>1
  <2>4. Indent(nodes, levels[j]) <= Indent(nodes, m)
    <3>1. CASE m = levels[j]
      BY <1>1, <3>1
    <3>2. CASE m # levels[j]
      <4>1. j = 1 \/ levels[j - 1] < m
        <5>1. j # 1 => j - 1 \in DOMAIN levels /\ j - 1 \notin reached
          BY <1>1, <2>1
        <5> QED
          BY <1>1, <5>1
      <4> QED
        BY <1>1, <3>2, <4>1 DEF ParseInv, BetweenLevels
    <3> QED
      BY <3>1, <3>2
  <2> QED
    BY <1>1, <2>1, <2>3, <2>4
<1> QED
  BY <1>4, <1>5, <1>6, <1>7

\* A node goes below the last level left open.
LEMMA AddNodeKeeps ==
  ASSUME ParseInv, AddNode
  PROVE  ParseInv'
<1> DEFINE line == Head(unread)
           above == Enclosing(line)
           node == [line |-> line, generics |-> {}, parent |-> IF above = <<>> THEN 0 ELSE Last(above)]
           n == Len(nodes) + 1
<1>1. /\ unread # <<>> /\ unread' = Tail(unread)
      /\ nodes' = Append(nodes, node) /\ levels' = Append(above, n)
  BY DEF AddNode
<1>2. line \in Lines /\ unread' \in Seq(Lines)
  BY <1>1 DEF ParseInv, ParseTypes
<1>3. /\ levels \in Seq(DOMAIN nodes) /\ DOMAIN levels = 1..Len(levels) /\ Len(levels) \in Nat
      /\ nodes \in Seq(NodeType)
      /\ DOMAIN nodes = 1..Len(nodes) /\ Len(nodes) \in Nat
      /\ \A m \in DOMAIN nodes : Indent(nodes, m) \in Nat
      /\ \A i \in DOMAIN levels : levels[i] \in DOMAIN nodes
      /\ line.indent \in Nat
  BY <1>2, NodesHaveTypes DEF ParseInv, ParseTypes
<1>4. PICK k \in 0..Len(levels) :
        /\ above = SubSeq(levels, 1, k)
        /\ \A i \in 1..k : Indent(nodes, levels[i]) < line.indent
        /\ \A m \in DOMAIN nodes : k = 0 \/ levels[k] < m => line.indent <= Indent(nodes, m)
  BY <1>2, EnclosingIndentsLess
<1>5. /\ above \in Seq(DOMAIN nodes) /\ Len(above) = k
      /\ \A i \in 1..k : above[i] = levels[i]
  BY <1>3, <1>4
<1>6. /\ node.line = line /\ node.generics = {}
      /\ node.parent = IF k = 0 THEN 0 ELSE levels[k]
  BY <1>3, <1>4, <1>5 DEF Last
<1>7. node \in NodeType
  <2>1. node.parent \in Nat
    BY <1>3, <1>4, <1>6
  <2> QED
    BY <1>2, <2>1 DEF NodeType
<1> HIDE DEF line, above, node
<1>8. /\ nodes' \in Seq(NodeType)
      /\ Len(nodes') = n /\ DOMAIN nodes' = DOMAIN nodes \union {n} /\ nodes'[n] = node
      /\ \A m \in DOMAIN nodes : nodes'[m] = nodes[m]
  BY <1>1, <1>3, <1>7
<1>9. /\ levels' \in Seq(DOMAIN nodes')
      /\ Len(levels') = k + 1 /\ DOMAIN levels' = 1..(k + 1) /\ levels'[k + 1] = n
      /\ \A i \in 1..k : levels'[i] = levels[i] /\ levels[i] \in DOMAIN nodes
  <2>1. above \in Seq(DOMAIN nodes') /\ n \in DOMAIN nodes'
    BY <1>5, <1>8
  <2> QED
    BY <1>1, <1>3, <1>4, <1>5, <2>1
<1>10. Indent(nodes', n) = line.indent /\ \A m \in DOMAIN nodes : Indent(nodes', m) = Indent(nodes, m)
  BY <1>6, <1>8 DEF Indent
<1>11. \A m \in DOMAIN nodes : m \in Nat /\ m < n
  BY <1>3
<1> HIDE DEF n
<1>12. ParseTypes'
  BY <1>2, <1>8, <1>9 DEF ParseTypes
<1>13. LevelsDescend'
  <2>1. Last(levels)' = Len(nodes)' /\ levels' # <<>>
    BY <1>8, <1>9 DEF Last
  <2>2. ASSUME NEW i \in 1..(k + 1), NEW j \in 1..(k + 1), i < j
        PROVE  levels'[i] < levels'[j] /\ Indent(nodes', levels'[i]) < Indent(nodes', levels'[j])
    <3>1. CASE j = k + 1
      BY <1>4, <1>9, <1>10, <1>11, <2>2, <3>1
    <3>2. CASE j # k + 1
      <4>1. i \in 1..k /\ j \in 1..k /\ i \in DOMAIN levels /\ j \in DOMAIN levels
        BY <1>3, <2>2, <3>2
      <4> QED
        BY <1>9, <1>10, <2>2, <4>1 DEF ParseInv, LevelsDescend
    <3> QED
      BY <3>1, <3>2
  <2> QED
    BY <1>9, <2>1, <2>2 DEF LevelsDescend
<1>14. BetweenLevels'
  <2> SUFFICES ASSUME NEW j \in 1..(k + 1), NEW m \in DOMAIN nodes',
                      m < levels'[j], j = 1 \/ levels'[j - 1] < m
               PROVE  Indent(nodes', levels'[j]) <= Indent(nodes', m)
    BY <1>9 DEF BetweenLevels
  <2>1. CASE j = k + 1
    <3>1. m \in DOMAIN nodes
      BY <1>3, <1>8, <1>9, <2>1 DEF n
    <3>2. k = 0 \/ levels[k] < m
      BY <1>9, <2>1
    <3> QED
      BY <1>4, <1>9, <1>10, <2>1, <3>1, <3>2
  <2>2. CASE j # k + 1
    <3>1. j \in 1..k /\ j \in DOMAIN levels /\ (j # 1 => j - 1 \in 1..k)
      BY <1>3, <2>2
    <3>2. m \in DOMAIN nodes
      BY <1>3, <1>8, <1>9, <1>11, <3>1
    <3> QED
      BY <1>9, <1>10, <3>1, <3>2 DEF ParseInv, BetweenLevels
  <2> QED
    BY <2>1, <2>2
<1>15. ParentIsNearest'
  <2> SUFFICES ASSUME NEW m \in DOMAIN nodes'
               PROVE  /\ nodes'[m].parent \in 0..(m - 1)
                      /\ nodes'[m].parent # 0 => Indent(nodes', nodes'[m].parent) < Indent(nodes', m)
                      /\ \A i \in (nodes'[m].parent + 1)..(m - 1) : Indent(nodes', i) >= Indent(nodes', m)
    BY DEF ParentIsNearest, Indent
  <2>1. CASE m = n
    <3>1. nodes'[m].parent = IF k = 0 THEN 0 ELSE levels[k]
      BY <1>6, <1>8, <2>1
    <3>2. k # 0 => k \in 1..k /\ levels[k] \in DOMAIN nodes
      BY <1>9
    <3>3. \A i \in (nodes'[m].parent + 1)..(m - 1) : i \in DOMAIN nodes /\ (k = 0 \/ levels[k] < i)
      BY <1>3, <2>1, <3>1, <3>2 DEF n
    <3>4. \A i \in (nodes'[m].parent + 1)..(m - 1) : Indent(nodes', i) >= Indent(nodes', m)
      BY <1>3, <1>4, <1>10, <2>1, <3>3
    <3>5. nodes'[m].parent \in 0..(m - 1)
      BY <1>3, <2>1, <3>1, <3>2 DEF n
    <3>6. nodes'[m].parent # 0 => Indent(nodes', nodes'[m].parent) < Indent(nodes', m)
      BY <1>4, <1>10, <2>1, <3>1, <3>2
    <3> QED
      BY <3>4, <3>5, <3>6
  <2>2. CASE m # n
    <3>1. m \in DOMAIN nodes /\ nodes'[m] = nodes[m]
      BY <1>8, <2>2
    <3>2. /\ nodes[m].parent \in 0..(m - 1)
          /\ nodes[m].parent # 0 => Indent(nodes, nodes[m].parent) < Indent(nodes, m)
          /\ \A i \in (nodes[m].parent + 1)..(m - 1) : Indent(nodes, i) >= Indent(nodes, m)
      BY <3>1 DEF ParseInv, ParentIsNearest, Indent
    <3>3. /\ nodes[m].parent # 0 => nodes[m].parent \in DOMAIN nodes
          /\ \A i \in (nodes[m].parent + 1)..(m - 1) : i \in DOMAIN nodes
      BY <1>3, <3>1, <3>2
    <3> QED
      BY <1>10, <3>1, <3>2, <3>3
  <2> QED
    BY <2>1, <2>2
<1> QED
  BY <1>12, <1>13, <1>14, <1>15 DEF ParseInv

\* The levels that are kept are enough, whatever GHDL prints: each node is below the nearest
\* one before it that is indented less.
THEOREM ParentIsAlwaysNearest == ParseSpec => []ParentIsNearest
<1>1. ParseInit => ParseInv
  <2> SUFFICES ASSUME ParseInit
               PROVE  ParseInv
    OBVIOUS
  <2>1. unread \in Seq(Lines) /\ nodes = <<>> /\ levels = <<>>
    BY ListingsAssumption DEF ParseInit
  <2> QED
    BY <2>1 DEF ParseInv, ParseTypes, LevelsDescend, BetweenLevels, ParentIsNearest
<1>2. ParseInv /\ [ParseNext]_parseVars => ParseInv'
  <2> SUFFICES ASSUME ParseInv, [ParseNext]_parseVars
               PROVE  ParseInv'
    OBVIOUS
  <2>1. CASE UNCHANGED parseVars
    BY <2>1 DEF parseVars, ParseInv, ParseTypes, LevelsDescend, BetweenLevels, ParentIsNearest, Indent
  <2> QED
    BY <2>1, SkipObjectKeeps, AddNodeKeeps DEF ParseNext
<1>3. ParseInv => ParentIsNearest
  BY DEF ParseInv
<1> QED
  BY <1>1, <1>2, <1>3, PTL DEF ParseSpec

-----------------------------------------------------------------------------
(* The plugin. *)

\* The parts' initial states, for the cases considered.
LEMMA PluginStartsItsParts == PluginInit => Init /\ LibInit /\ ParseInit
  BY DEF PluginInit

\* A step of the plugin is a step of a part, or changes nothing of it.
LEMMA PluginStepsItsParts ==
  ASSUME [PluginNext]_<<vars, libVars, parseVars>>
  PROVE  [Next]_vars /\ [LibNext]_libVars /\ [ParseNext]_parseVars
<1>1. CASE AssignLibraries
  BY <1>1 DEF AssignLibraries
<1>2. CASE ParseLines
  BY <1>2 DEF ParseLines
<1>3. CASE Calling
  BY <1>3 DEF Calling
<1>4. CASE UNCHANGED <<vars, libVars, parseVars>>
  BY <1>4
<1> QED
  BY <1>1, <1>2, <1>3, <1>4 DEF PluginNext

\* The plugin implements the frontend, assign_libraries and parse_tree, in the order it
\* runs them.
THEOREM PluginImplementsItsParts == PluginSpec => Spec /\ LibSpec /\ ParseSpec
<1>1. PluginInit => Init /\ LibInit /\ ParseInit
  BY PluginStartsItsParts
<1>2. [PluginNext]_<<vars, libVars, parseVars>> => [Next]_vars /\ [LibNext]_libVars /\ [ParseNext]_parseVars
  BY PluginStepsItsParts
<1> QED
  BY <1>1, <1>2, PTL DEF PluginSpec, Spec, LibSpec, ParseSpec

\* What holds of the parts holds in the plugin: elaborated results are those of the sources
\* as they are, a fragment is whole and loses nothing, complaints are true, components yield
\* to other languages, the libraries are what the references say, and the tree is what the
\* indents say.
THEOREM PluginIsCorrect ==
  PluginSpec => [](/\ TypeOK /\ CacheIsFresh /\ FragmentIsWhole /\ NothingIsLost
                   /\ NoFalseComplaint /\ ComponentsYield /\ LibrariesAgree /\ ParentIsNearest)
<1>1. Spec => [](/\ TypeOK /\ CacheIsFresh /\ FragmentIsWhole /\ NothingIsLost
                 /\ NoFalseComplaint /\ ComponentsYield)
  BY TypeCorrect, CacheIsAlwaysFresh, FragmentIsAlwaysWhole, NothingIsEverLost, NoComplaintIsFalse,
     ComponentsAlwaysYield, PTL
<1> QED
  BY <1>1, LibrariesAlwaysAgree, ParentIsAlwaysNearest, PluginImplementsItsParts, PTL
=============================================================================

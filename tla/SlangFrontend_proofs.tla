------------------------ MODULE SlangFrontend_proofs ------------------------
(***************************************************************************)
(* What holds of the slang frontend (SlangFrontend) for every design, any  *)
(* roots in any order, any number of calls and of loads: its types, that   *)
(* each root is answered and nothing else elaborated, and that -y is       *)
(* searched to the end.                                                    *)
(*                                                                         *)
(* Elaborating is a sequence of compilations.  The inductive invariant     *)
(* says what those so far have to show for it:                             *)
(*   TypeInv      types, with all fields of a result;                      *)
(*   RootsInv     roots are defined, and listed if units are;              *)
(*   CompileInv   each setting asked for is to be compiled, or was, with   *)
(*                its result or its failure (SettingsInv); what the tops   *)
(*                of the compilation under way are for (JobInv); what the  *)
(*                plain roots come to in the end (PlainInv);               *)
(*   FragmentInv  the theorems, of what elaborate returned;                *)
(*   PullInv      a round is only used for a file or a header that came    *)
(*                in, and a result lacks nothing -y has.                   *)
(***************************************************************************)
EXTENDS SlangFrontend, FiniteSetTheorems, WellFoundedInduction, TLAPS

Froms == {"none", "setting", "auto", "probe", "again", "plain", "nothing"}

\* A compilation's result, and a fragment.
ResultType ==
  [loaded : SUBSET Names, walk : SUBSET Settings, insts : SUBSET (Settings \X Settings),
   top_variant : UNION {[D -> BOOLEAN] : D \in SUBSET Names}, missing : SUBSET Names,
   errors : SUBSET Names, needed : SUBSET Names]

FragmentType ==
  [loaded : SUBSET Names, walk : SUBSET Settings, insts : SUBSET (Settings \X Settings),
   top_variant : UNION {[D -> BOOLEAN] : D \in SUBSET Names}, missing : SUBSET Names,
   errors : SUBSET Names, needed : SUBSET Names, rejected : SUBSET Names]

TypeInv ==
  /\ design \in Designs
  /\ files \subseteq Names /\ design.src \subseteq files
  /\ inc_dirs \subseteq files
  /\ units \in [read : BOOLEAN, names : SUBSET Names]
  /\ calls \in 0..MaxCalls
  /\ pc \in {"idle", "settings", "load", "merge", "returned", "merged"}
  /\ request \subseteq Roots
  /\ job \in [tops : SUBSET Names, given : BOOLEAN, library : BOOLEAN, from : Froms]
  /\ pulls \in 0..MaxPulls
  /\ settings \subseteq Settings
  /\ results \in Seq(ResultType)
  /\ picked \in Seq(ResultType) /\ Len(picked) \in {0, 1}
  /\ failed \subseteq Names /\ worked \subseteq Names /\ rejected \subseteq Names
  /\ fragment \in FragmentType

\* Roots other languages ask for; the settings asked for; those that need a compilation
\* of their own.
RootNames == {r.name : r \in {x \in request : ~x.requested}}
AskedFor == {<<r.name, Given(r)>> : r \in request}
Wanted == {<<r.name, Given(r)>> : r \in WithValues(request)}

RootsInv ==
  /\ units.names \subseteq Defined
  /\ RootNames \subseteq Defined
  /\ units.read => RootNames \subseteq units.names
  /\ \A r \in request : r.requested => r.generics = "none" /\ r.name \in design.tops

\* A result that covers its own walk and the roots.
Sound(r) ==
  /\ IsResult(r)
  /\ RootNames \subseteq r.loaded
  /\ ~design.auto => {s[1] : s \in r.walk} \subseteq r.needed

\* Nothing in a result but what is asked for, what that instantiates and, with automatic
\* tops, what nobody uses with values.
Justified(r) ==
  \A s \in r.walk :
    s \in AskedFor \/ (\E e \in r.insts : e[2] = s) \/ (design.auto /\ s[1] \notin SetElsewhere)

\* The setting compiled now.
Doing == IF pc = "load" /\ job.from = "setting" THEN job.tops \X {job.given} ELSE {}

SettingsInv ==
  /\ settings \union Doing \subseteq Wanted
  /\ pc # "settings" /\ Doing = {} => settings = {}
  /\ \A s \in Wanted \ (settings \union Doing) :
       IF Takes(s[1], s[2]) THEN s[1] \in worked /\ \E r \in ToSet(results) : s \in r.walk
       ELSE s[1] \in failed
  /\ \A n \in worked : \E r \in ToSet(results) : \E g \in BOOLEAN : <<n, g>> \in r.walk
  /\ \A n \in failed \union rejected : n \in RootNames /\ ~Takes(n, FALSE)
  /\ \A r \in ToSet(results) : Sound(r) /\ Justified(r)
  /\ \A r \in ToSet(picked) : Sound(r)

\* The result of automatic tops: it has the plain roots slang can take, as tops of their
\* own if anything reaches them.
TopsFit(r) ==
  /\ (DOMAIN r.top_variant) \X {FALSE} \subseteq r.walk
  /\ \A s \in r.walk : s \in (DOMAIN r.top_variant) \X {FALSE} \/ \E e \in r.insts : e[2] = s
  /\ \A n \in Plain(request) : Takes(n, FALSE) => n \in DOMAIN r.top_variant \/ Unreachable(n)

\* What becomes of plain roots.
PlainInv ==
  /\ \A n \in Plain(request) :
       IF Takes(n, FALSE) THEN Unreachable(n) \/ \E r \in ToSet(picked) : <<n, FALSE>> \in r.walk
       ELSE n \in rejected \/ \E r \in ToSet(picked) : n \in r.errors
  /\ \A n \in Required :
       Takes(n, FALSE) => /\ Len(picked) = 1
                          /\ n \in DOMAIN picked[1].top_variant
                          /\ picked[1].top_variant[n] = FALSE
  /\ \A r \in ToSet(picked) : Justified(r)

\* The compilation under way, by where it was started from.
JobInv ==
  /\ pc = "settings" => picked = <<>> /\ rejected = {}
  /\ pc = "load" /\ job.from # "setting" => job.given = FALSE
  /\ pc = "load" => (job.library <=> job.from # "nothing")
  /\ pc = "load" =>
       \/ /\ job.from = "setting" /\ picked = <<>> /\ rejected = {}
          /\ \E s \in Wanted \ settings : job.tops = {s[1]} /\ job.given = s[2]
       \/ job.from = "auto" /\ job.tops = {} /\ design.auto /\ picked = <<>> /\ rejected = {}
       \/ /\ job.from = "probe" /\ job.tops = Plain(request) /\ job.tops # {} /\ design.auto
          /\ Len(picked) = 1 /\ rejected = {} /\ TopsFit(picked[1])
       \/ /\ job.from = "again" /\ design.auto /\ picked = <<>> /\ job.tops # {}
          /\ \A t \in job.tops : t \in SetElsewhere => t \in Plain(request)
          /\ \A n \in Plain(request) :
               IF Takes(n, FALSE) THEN n \in job.tops \/ Unreachable(n) ELSE n \in rejected
       \/ /\ job.from = "plain" /\ ~design.auto /\ picked = <<>>
          /\ job.tops = Plain(request) \ rejected /\ job.tops # {}
          /\ rejected \intersect Required = {}
       \/ job.from = "nothing" /\ job.tops = {} /\ picked = <<>> /\ results = <<>> /\ PlainInv

CompileInv ==
  /\ Busy => SettingsInv /\ JobInv /\ (request # {} \/ design.auto)
  /\ pc = "merge" => PlainInv
  /\ ~Busy => /\ settings = {} /\ results = <<>> /\ failed = {} /\ worked = {}
              /\ picked = <<>> /\ rejected = {}

\* Each round pulls a file or a header at least.
Pulled == Cardinality(files \ design.src) + Cardinality(inc_dirs)
Limit == Pulled >= MaxPulls
\* The last compilation found no more headers, and a result none of its modules.
Settled == FoundDirs = {} \/ Limit
Complete(r) == r.missing \intersect (design.src \union design.lib) \subseteq design.elsewhere \/ Limit

PullInv ==
  /\ pulls <= Pulled
  /\ \A r \in ToSet(picked) \union ToSet(results) : Complete(r)
  /\ pc = "settings" => settings = Wanted \/ Settled
  /\ pc = "load" /\ job.from = "nothing" => Settled
  /\ pc \in {"merge", "returned", "merged"} => Settled
  /\ pc = "returned" => Complete(fragment)
  /\ PulledToTheEnd

-----------------------------------------------------------------------------
(* Designs, walks and results. *)

\* What the assumption says of the design at hand.
LEMMA DesignsAreTyped ==
  ASSUME TypeInv
  PROVE  /\ design.src \subseteq Names /\ design.lib \subseteq Names /\ design.offers \subseteq Names
         /\ design.elsewhere \subseteq Names /\ design.kids \in [Settings -> SUBSET Settings]
         /\ design.takes \subseteq Names /\ design.needs \subseteq design.takes
         /\ design.lib \subseteq design.offers
         /\ design.auto \in BOOLEAN /\ design.tops \subseteq Names
         /\ design.auto => design.tops = {}
<1>1. design \in DesignType
  BY SlangAssumption DEF SlangAssumption, TypeInv
<1>2. design.lib \subseteq design.offers /\ design.needs \subseteq design.takes /\ (design.auto => design.tops = {})
  BY SlangAssumption DEF SlangAssumption, TypeInv
<1> QED
  BY <1>1, <1>2 DEF DesignType

\* Pairs that all have the same second part.
LEMMA PairWith ==
  ASSUME NEW D, NEW v, NEW s \in D \X {v}
  PROVE  s = <<s[1], v>> /\ s[1] \in D
<1>1. PICK a \in D, b \in {v} : s = <<a, b>>
  OBVIOUS
<1>2. s[1] = a /\ b = v
  BY <1>1
<1> QED
  BY <1>1, <1>2

\* Reached is the least set that has its start and is closed under its edges.
LEMMA ReachedIsLeast ==
  ASSUME NEW from \in SUBSET Settings, NEW edges \in SUBSET (Settings \X Settings)
  PROVE  /\ from \subseteq Reached[[from |-> from, edges |-> edges]]
         /\ Reached[[from |-> from, edges |-> edges]] \subseteq Settings
         /\ \A e \in edges : e[1] \in Reached[[from |-> from, edges |-> edges]] => e[2] \in Reached[[from |-> from, edges |-> edges]]
         /\ \A S \in SUBSET Settings :
              from \subseteq S /\ (\A e \in edges : e[1] \in S => e[2] \in S)
                => Reached[[from |-> from, edges |-> edges]] \subseteq S
<1> DEFINE Closed(S) == from \subseteq S /\ \A e \in edges : e[1] \in S => e[2] \in S
           R == Reached[[from |-> from, edges |-> edges]]
<1>1. R = {s \in Settings : \A S \in {T \in SUBSET Settings : Closed(T)} : s \in S}
  BY DEF Reached, GraphType
<1>2. ASSUME NEW e \in edges, e[1] \in R
      PROVE  e[2] \in R
  <2>1. e[2] \in Settings
    OBVIOUS
  <2>2. ASSUME NEW S \in SUBSET Settings, Closed(S)
        PROVE  e[2] \in S
    BY <1>1, <1>2, <2>2
  <2> QED
    BY <1>1, <2>1, <2>2
<1>3. from \subseteq R
  BY <1>1
<1>4. \A S \in SUBSET Settings : Closed(S) => R \subseteq S
  BY <1>1
<1> QED
  BY <1>1, <1>2, <1>3, <1>4

\* A walk has the tops, goes on from them only, and stays within what trimming keeps.
LEMMA WalkIsClosed ==
  ASSUME TypeInv
  PROVE  /\ Tops \subseteq Defined \X BOOLEAN
         /\ Tops \subseteq Walk
         /\ Walk \subseteq Defined \X BOOLEAN
         /\ Instances(Walk) \subseteq Walk \X Settings
         /\ \A s \in Walk : s \in Tops \/ \E e \in Instances(Walk) : e[2] = s
         /\ Trimmed \subseteq Defined
         /\ job.tops # {} => {s[1] : s \in Walk} \subseteq Trimmed
<1> DEFINE known == Defined \X BOOLEAN
           edges == UNION {{s} \X {c \in Children(s) : c[1] \in Defined} : s \in known}
<1>1. Defined \subseteq Names /\ known \subseteq Settings
  BY DesignsAreTyped DEF Defined, TypeInv, Settings
<1>2. \A s \in Settings : Children(s) \subseteq Settings
  BY DesignsAreTyped DEF Children
<1>3. Tops \subseteq known
  BY DEF Tops, AutoTops, Takes, TypeInv
<1>4. edges \in SUBSET (known \X known)
  BY <1>1, <1>2 DEF Settings
<1>5. Walk = Reached[[from |-> Tops, edges |-> edges]]
  BY DEF Walk
<1>6. Tops \in SUBSET Settings /\ edges \in SUBSET (Settings \X Settings)
  BY <1>1, <1>3, <1>4
<1>7. Walk \subseteq known
  <2>1. known \in SUBSET Settings /\ Tops \subseteq known
    BY <1>1, <1>3
  <2>2. \A e \in edges : e[2] \in known
    BY <1>4
  <2> HIDE DEF known, edges
  <2> QED
    BY <1>5, <1>6, <2>1, <2>2, ReachedIsLeast
<1>8. Tops \subseteq Walk
  <2> HIDE DEF edges
  <2> QED
    BY <1>5, <1>6, ReachedIsLeast
<1>9. ASSUME NEW s \in Walk
      PROVE  s \in Tops \/ \E e \in Instances(Walk) : e[2] = s
  <2> DEFINE S == Tops \union {t \in Settings : \E e \in Instances(Walk) : e[2] = t}
  <2>1. S \in SUBSET Settings
    BY <1>6
  <2>2. Tops \subseteq S
    OBVIOUS
  <2>3. ASSUME NEW e \in edges, e[1] \in S \intersect Walk
        PROVE  e[2] \in S \intersect Walk
    <3>1. e[2] \in Walk
      <4> HIDE DEF edges
      <4> QED
        BY <1>5, <1>6, <2>3, ReachedIsLeast
    <3>2. PICK t \in known, c \in Settings : e = <<t, c>> /\ c \in Children(t)
      BY <1>1, <1>2
    <3>3. <<t, c>> \in Instances(Walk)
      BY <2>3, <3>2 DEF Instances
    <3>4. e[2] \in Settings
      BY <1>6
    <3> QED
      BY <3>1, <3>2, <3>3, <3>4
  <2>4. S \intersect Walk \in SUBSET Settings /\ Tops \subseteq S \intersect Walk
    BY <1>8, <2>1
  <2>5. Walk \subseteq S \intersect Walk
    <3> HIDE DEF edges, S
    <3> QED
      BY <1>5, <1>6, <2>3, <2>4, ReachedIsLeast
  <2> QED
    BY <2>5
<1>10. Instances(Walk) \subseteq Walk \X Settings
  BY <1>1, <1>2, <1>7 DEF Instances
<1> DEFINE named(s) == {c \in known : \E v \in BOOLEAN : <<c[1], v>> \in Children(s)}
           others == UNION {{s} \X named(s) : s \in known}
           asked == {s \in known : s[1] \in job.tops}
<1>11. Trimmed = {s[1] : s \in Reached[[from |-> asked, edges |-> others]]}
  BY DEF Trimmed
<1>12. asked \in SUBSET Settings /\ others \in SUBSET (Settings \X Settings)
  BY <1>1
<1>13. Trimmed \subseteq Defined
  <2>1. known \in SUBSET Settings /\ asked \subseteq known /\ \A e \in others : e[2] \in known
    BY <1>1
  <2>2. Reached[[from |-> asked, edges |-> others]] \subseteq known
    <3> HIDE DEF known, asked, others
    <3> QED
      BY <1>12, <2>1, ReachedIsLeast
  <2> QED
    BY <1>11, <2>2
<1>14. ASSUME job.tops # {}
       PROVE  {s[1] : s \in Walk} \subseteq Trimmed
  <2> DEFINE R == Reached[[from |-> asked, edges |-> others]]
  <2>1. Tops \subseteq R
    <3>1. Tops \subseteq asked
      BY <1>14 DEF Tops, Takes, TypeInv
    <3> HIDE DEF asked, others
    <3> QED
      BY <1>12, <3>1, ReachedIsLeast
  <2>2. ASSUME NEW e \in edges, e[1] \in R
        PROVE  e[2] \in R
    <3>1. PICK s \in known, c \in Settings : e = <<s, c>> /\ c \in Children(s) /\ c[1] \in Defined
      BY <1>1, <1>2
    <3>2. c \in known
      BY <3>1 DEF Settings
    <3>3. c \in named(s)
      <4>1. c = <<c[1], c[2]>> /\ c[2] \in BOOLEAN
        BY <3>2
      <4> QED
        BY <3>1, <3>2, <4>1
    <3>4. e \in others
      BY <3>1, <3>3
    <3> HIDE DEF asked, others
    <3> QED
      BY <1>12, <2>2, <3>4, ReachedIsLeast
  <2>3. R \in SUBSET Settings
    <3> HIDE DEF asked, others
    <3> QED
      BY <1>12, ReachedIsLeast
  <2>4. Walk \subseteq R
    <3> HIDE DEF R, edges
    <3> QED
      BY <1>5, <1>6, <2>1, <2>2, <2>3, ReachedIsLeast
  <2> QED
    BY <1>11, <2>4
<1> QED
  BY <1>3, <1>7, <1>8, <1>9, <1>10, <1>13, <1>14

-----------------------------------------------------------------------------
\* Appending adds one element.
LEMMA AppendingAdds ==
  ASSUME NEW S, NEW q \in Seq(S), NEW e \in S
  PROVE  ToSet(Append(q, e)) = ToSet(q) \union {e}
<1>1. Len(q) \in Nat /\ DOMAIN q = 1..Len(q)
  OBVIOUS
<1>2. DOMAIN Append(q, e) = 1..(Len(q) + 1) /\ Append(q, e)[Len(q) + 1] = e
  OBVIOUS
<1>3. \A i \in 1..Len(q) : Append(q, e)[i] = q[i]
  OBVIOUS
<1>4. 1..(Len(q) + 1) = 1..Len(q) \union {Len(q) + 1}
  BY <1>1
<1> QED
  BY <1>1, <1>2, <1>3, <1>4 DEF ToSet

\* The elements of no sequence, of two in a row, and their type.
LEMMA ElementsOf ==
  ASSUME NEW S, NEW p \in Seq(S), NEW q \in Seq(S)
  PROVE  /\ ToSet(<<>>) = {}
         /\ ToSet(p \o q) = ToSet(p) \union ToSet(q)
         /\ ToSet(q) \subseteq S
<1>1. ToSet(<<>>) = {}
  BY DEF ToSet
<1>2. ToSet(p \o q) = ToSet(p) \union ToSet(q)
  <2> DEFINE m == Len(p)
             n == Len(q)
  <2>1. m \in Nat /\ n \in Nat /\ DOMAIN p = 1..m /\ DOMAIN q = 1..n
    OBVIOUS
  <2>2. /\ DOMAIN (p \o q) = 1..(m + n)
        /\ \A i \in 1..(m + n) : (p \o q)[i] = IF i <= m THEN p[i] ELSE q[i - m]
    OBVIOUS
  <2> HIDE DEF m, n
  <2>3. \A i \in 1..(m + n) : i \in 1..m \/ (i - m \in 1..n /\ ~(i <= m))
    BY <2>1
  <2>4. ToSet(p \o q) \subseteq ToSet(p) \union ToSet(q)
    BY <2>1, <2>2, <2>3 DEF ToSet
  <2>5. ASSUME NEW i \in 1..m
        PROVE  p[i] \in ToSet(p \o q)
    <3>1. i \in 1..(m + n) /\ i <= m
      BY <2>1
    <3> QED
      BY <2>2, <3>1 DEF ToSet
  <2>6. ASSUME NEW i \in 1..n
        PROVE  q[i] \in ToSet(p \o q)
    <3>1. i + m \in 1..(m + n) /\ ~(i + m <= m) /\ (i + m) - m = i
      BY <2>1
    <3> QED
      BY <2>2, <3>1 DEF ToSet
  <2> QED
    BY <2>1, <2>4, <2>5, <2>6 DEF ToSet
<1>3. ToSet(q) \subseteq S
  BY DEF ToSet
<1> QED
  BY <1>1, <1>2, <1>3

\* What a compilation returns: a result as typed, of its own walk, that covers the roots.
LEMMA ResultFits ==
  ASSUME TypeInv, RootsInv
  PROVE  /\ Result \in ResultType
         /\ Result.loaded = files /\ Result.walk = Walk /\ Result.insts = Instances(Walk)
         /\ DOMAIN Result.top_variant = {s[1] : s \in Tops}
         /\ \A t \in DOMAIN Result.top_variant : Result.top_variant[t] = job.given
         /\ Result.missing = MissingModules /\ Result.errors = Invalid /\ Result.needed = Trimmed
         /\ IsResult(Result)
         /\ job.tops # {} \/ design.auto => Sound(Result)
<1>1. /\ Tops \subseteq Defined \X BOOLEAN
      /\ Walk \subseteq Defined \X BOOLEAN
      /\ Instances(Walk) \subseteq Walk \X Settings
      /\ Trimmed \subseteq Defined
      /\ job.tops # {} => {s[1] : s \in Walk} \subseteq Trimmed
  BY WalkIsClosed
<1>2. /\ Defined \subseteq files /\ files \subseteq Names /\ job.given \in BOOLEAN
      /\ job.tops \subseteq Names
  BY DEF Defined, TypeInv
<1> DEFINE topNames == {s[1] : s \in Tops}
           variants == [t \in topNames |-> job.given]
<1>3. topNames \subseteq Defined
  BY <1>1
<1>4. variants \in UNION {[D -> BOOLEAN] : D \in SUBSET Names}
  <2>1. variants \in [topNames -> BOOLEAN] /\ topNames \in SUBSET Names
    BY <1>2, <1>3
  <2> HIDE DEF variants, topNames
  <2> QED
    BY <2>1
<1>5. /\ Result.loaded = files /\ Result.walk = Walk /\ Result.insts = Instances(Walk)
      /\ Result.top_variant = variants
      /\ Result.missing = MissingModules /\ Result.errors = Invalid /\ Result.needed = Trimmed
  BY DEF Result
<1>6. MissingModules \subseteq Names /\ Invalid \subseteq Names
  BY <1>1, <1>2 DEF MissingModules, Invalid, Settings
<1>7. Result \in ResultType
  <2>1. Walk \in SUBSET Settings /\ Instances(Walk) \in SUBSET (Settings \X Settings)
    BY <1>1, <1>2 DEF Settings
  <2>2. Result = [loaded |-> files, walk |-> Walk, insts |-> Instances(Walk), top_variant |-> variants,
                  missing |-> MissingModules, errors |-> Invalid, needed |-> Trimmed]
    BY DEF Result
  <2> HIDE DEF variants
  <2> QED
    BY <1>1, <1>2, <1>4, <1>6, <2>1, <2>2 DEF ResultType
<1>8. IsResult(Result)
  BY <1>1, <1>2, <1>3, <1>5 DEF IsResult, Settings
<1>9. RootNames \subseteq files
  BY <1>2 DEF RootsInv
<1> QED
  BY <1>1, <1>5, <1>7, <1>8, <1>9 DEF Sound

\* Files that come in change nothing about the roots, which are defined already.
LEMMA WhatIsKept ==
  ASSUME TypeInv, RootsInv, UNCHANGED <<design, request>>, files \subseteq files', files' \subseteq Names
  PROVE  /\ UNCHANGED <<Wanted, AskedFor, RootNames, Plain(request), Required, SetElsewhere>>
         /\ \A n \in RootNames : \A g \in BOOLEAN : Takes(n, g)' <=> Takes(n, g)
         /\ \A n \in Names : Unreachable(n)' <=> Unreachable(n)
         /\ \A r \in ResultType : Sound(r) => Sound(r)'
         /\ \A r \in ResultType : Justified(r)' <=> Justified(r)
         /\ Defined \subseteq Defined'
<1>1. \A r \in request : Given(r)' = Given(r)
  BY DEF Given
<1>2. UNCHANGED <<Wanted, AskedFor, RootNames, Plain(request), Required, SetElsewhere>>
  BY <1>1 DEF Wanted, AskedFor, RootNames, Plain, Required, SetElsewhere, WithValues
<1>3. Defined \subseteq Defined'
  BY DEF Defined
<1>4. \A n \in RootNames : \A g \in BOOLEAN : Takes(n, g)' <=> Takes(n, g)
  BY <1>3 DEF Takes, RootsInv
<1>5. \A n \in Names : Unreachable(n)' <=> Unreachable(n)
  BY DEF Unreachable
<1>6. \A r \in ResultType : Sound(r) => Sound(r)'
  BY <1>2 DEF Sound, IsResult
<1>7. \A r \in ResultType : Justified(r)' <=> Justified(r)
  BY <1>2 DEF Justified
<1> QED
  BY <1>2, <1>3, <1>4, <1>5, <1>6, <1>7

\* Roots with values come from another language, as all do with automatic tops.
LEMMA RootsComeFromOthers ==
  ASSUME TypeInv, RootsInv
  PROVE  /\ Wanted \subseteq RootNames \X BOOLEAN
         /\ SetElsewhere = {s[1] : s \in Wanted}
         /\ design.auto => Plain(request) \subseteq RootNames /\ Required = {}
         /\ Plain(request) \subseteq RootNames \union Required
         /\ RootNames \subseteq Names /\ Required \subseteq Plain(request)
         /\ \A n \in Plain(request) : <<n, FALSE>> \in AskedFor
         /\ Wanted \subseteq AskedFor
<1>1. \A r \in request : Given(r) \in BOOLEAN /\ (r.generics = "none" => Given(r) = FALSE)
  BY DEF Given
<1>2. \A r \in WithValues(request) : ~r.requested /\ r \in request /\ r.name \in RootNames
  BY DEF WithValues, RootsInv, RootNames
<1>3. Wanted \subseteq RootNames \X BOOLEAN
  BY <1>1, <1>2 DEF Wanted
<1>4. SetElsewhere = {s[1] : s \in Wanted}
  <2>1. \A r \in WithValues(request) : <<r.name, Given(r)>> \in Wanted
    BY DEF Wanted
  <2>2. ASSUME NEW n \in SetElsewhere
        PROVE  n \in {s[1] : s \in Wanted}
    <3>1. PICK r \in WithValues(request) : n = r.name
      BY DEF SetElsewhere
    <3>2. <<n, Given(r)>> \in Wanted /\ <<n, Given(r)>>[1] = n
      BY <2>1, <3>1
    <3> QED
      BY <3>2
  <2>3. ASSUME NEW s \in Wanted
        PROVE  s[1] \in SetElsewhere
    BY DEF Wanted, SetElsewhere
  <2> QED
    BY <2>2, <2>3
<1>5. \A r \in request : design.auto => ~r.requested
  BY DesignsAreTyped DEF RootsInv
<1>6. design.auto => Plain(request) \subseteq RootNames /\ Required = {}
  BY <1>5 DEF Plain, RootNames, Required
<1>7. Plain(request) \subseteq RootNames \union Required /\ Required \subseteq Plain(request)
  BY DEF Plain, RootNames, Required, RootsInv
<1>8. RootNames \subseteq Names
  BY DEF RootNames, TypeInv, Roots
<1>9. (\A n \in Plain(request) : <<n, FALSE>> \in AskedFor) /\ Wanted \subseteq AskedFor
  <2>1. ASSUME NEW n \in Plain(request)
        PROVE  <<n, FALSE>> \in AskedFor
    <3>1. PICK r \in request : r.generics = "none" /\ r.name = n
      BY DEF Plain
    <3>2. <<r.name, Given(r)>> \in AskedFor /\ Given(r) = FALSE
      BY <1>1, <3>1 DEF AskedFor
    <3> QED
      BY <3>1, <3>2
  <2>2. ASSUME NEW r \in WithValues(request)
        PROVE  <<r.name, Given(r)>> \in AskedFor
    BY DEF AskedFor, WithValues
  <2>3. Wanted \subseteq AskedFor
    BY <2>2 DEF Wanted
  <2> QED
    BY <2>1, <2>3
<1> QED
  BY <1>3, <1>4, <1>6, <1>7, <1>8, <1>9

\* A set of numbers has its minimum.
LEMMA MinOfNat ==
  ASSUME NEW S \in SUBSET Nat, S # {}
  PROVE  Min(S) \in S /\ \A y \in S : Min(S) <= y
<1>1. \E x \in S : \A y \in S : <<y, x>> \notin OpToRel(<, Nat)
  BY WFMin, NatLessThanWellFounded, Zenon
<1>2. PICK x \in S : \A y \in S : ~(y < x)
  BY <1>1, Zenon DEF OpToRel
<1>3. \A y \in S : x <= y
  BY <1>2
<1> QED
  BY <1>3 DEF Min

Compiled == ToSet(picked) \union ToSet(results)

\* Merging keeps all that the results have, and the settings of the first one's tops.
\* A merged result is all results together, with the first one's settings of tops.
LEMMA MergedFits ==
  ASSUME TypeInv, Ordered # <<>>, NEW m, m = Merged(Ordered)
  PROVE  /\ Compiled # {} /\ Compiled \subseteq ResultType
         /\ m \in ResultType
         /\ m.loaded = UNION {r.loaded : r \in Compiled}
         /\ m.walk = UNION {r.walk : r \in Compiled}
         /\ m.insts = UNION {r.insts : r \in Compiled}
         /\ m.missing = UNION {r.missing : r \in Compiled}
         /\ m.errors = UNION {r.errors : r \in Compiled}
         /\ m.needed = UNION {r.needed : r \in Compiled}
         /\ DOMAIN m.top_variant = UNION {DOMAIN r.top_variant : r \in Compiled}
         /\ Len(picked) = 1 =>
              \A t \in DOMAIN picked[1].top_variant : m.top_variant[t] = picked[1].top_variant[t]
<1> DEFINE having(t) == {i \in DOMAIN Ordered : t \in DOMAIN Ordered[i].top_variant}
           tops == UNION {DOMAIN r.top_variant : r \in Compiled}
           variants == [t \in tops |-> Ordered[Min(having(t))].top_variant[t]]
<1>1. Ordered \in Seq(ResultType) /\ picked \in Seq(ResultType) /\ results \in Seq(ResultType)
  BY DEF Ordered, TypeInv
<1>2. ToSet(Ordered) = Compiled
  <2>1. \A p, q \in Seq(ResultType) : ToSet(p \o q) = ToSet(p) \union ToSet(q)
    BY ElementsOf
  <2> QED
    BY <1>1, <2>1 DEF Ordered, Compiled
<1>3. Compiled # {} /\ Compiled \subseteq ResultType
  <2>1. Len(Ordered) \in Nat /\ DOMAIN Ordered = 1..Len(Ordered) /\ Len(Ordered) # 0
    BY <1>1
  <2>2. 1 \in DOMAIN Ordered
    BY <2>1
  <2>3. \A i \in DOMAIN Ordered : Ordered[i] \in ResultType
    BY <1>1
  <2> QED
    BY <1>2, <2>2, <2>3 DEF ToSet
<1>4. m = [loaded |-> UNION {r.loaded : r \in Compiled}, walk |-> UNION {r.walk : r \in Compiled},
           insts |-> UNION {r.insts : r \in Compiled}, top_variant |-> variants,
           missing |-> UNION {r.missing : r \in Compiled}, errors |-> UNION {r.errors : r \in Compiled},
           needed |-> UNION {r.needed : r \in Compiled}]
  BY <1>2 DEF Merged
<1>5. ASSUME NEW t \in tops
      PROVE  /\ having(t) \in SUBSET Nat /\ Min(having(t)) \in having(t)
             /\ 1 \in having(t) => Min(having(t)) = 1
  <2>1. DOMAIN Ordered = 1..Len(Ordered) /\ Len(Ordered) \in Nat
    BY <1>1
  <2>2. having(t) \in SUBSET (Nat \ {0})
    BY <2>1
  <2>3. having(t) # {}
    BY <1>2 DEF ToSet
  <2> HIDE DEF having
  <2> QED
    BY <2>2, <2>3, MinOfNat
<1>6. \A r \in Compiled : DOMAIN r.top_variant \subseteq Names
                      /\ \A t \in DOMAIN r.top_variant : r.top_variant[t] \in BOOLEAN
  BY <1>3 DEF ResultType
<1>7. variants \in [tops -> BOOLEAN] /\ tops \in SUBSET Names
  <2>1. ASSUME NEW t \in tops
        PROVE  Ordered[Min(having(t))].top_variant[t] \in BOOLEAN
    <3>1. Min(having(t)) \in having(t)
      BY <1>5
    <3>2. Ordered[Min(having(t))] \in Compiled
      BY <1>2, <3>1 DEF ToSet
    <3> QED
      BY <1>6, <3>1, <3>2
  <2>2. tops \in SUBSET Names
    BY <1>6
  <2> HIDE DEF tops, having
  <2> QED
    BY <2>1, <2>2
<1>8. m \in ResultType
  <2>1. /\ UNION {r.loaded : r \in Compiled} \in SUBSET Names
        /\ UNION {r.walk : r \in Compiled} \in SUBSET Settings
        /\ UNION {r.insts : r \in Compiled} \in SUBSET (Settings \X Settings)
        /\ UNION {r.missing : r \in Compiled} \in SUBSET Names
        /\ UNION {r.errors : r \in Compiled} \in SUBSET Names
        /\ UNION {r.needed : r \in Compiled} \in SUBSET Names
    BY <1>3 DEF ResultType
  <2>2. variants \in UNION {[D -> BOOLEAN] : D \in SUBSET Names}
    <3> HIDE DEF variants, tops
    <3> QED
      BY <1>7
  <2> HIDE DEF variants
  <2> QED
    BY <1>4, <2>1, <2>2 DEF ResultType
<1>9. ASSUME Len(picked) = 1, NEW t \in DOMAIN picked[1].top_variant
      PROVE  m.top_variant[t] = picked[1].top_variant[t]
  <2>1. 1 \in DOMAIN Ordered /\ Ordered[1] = picked[1]
    <3>1. Len(results) \in Nat /\ DOMAIN (picked \o results) = 1..(Len(picked) + Len(results))
      BY <1>1
    <3>2. 1 \in 1..(Len(picked) + Len(results)) /\ (picked \o results)[1] = picked[1]
      BY <1>1, <1>9, <3>1
    <3> QED
      BY <3>1, <3>2 DEF Ordered
  <2>2. 1 \in having(t) /\ t \in tops
    BY <1>2, <2>1 DEF ToSet
  <2>3. Min(having(t)) = 1
    BY <1>5, <2>2
  <2>4. m.top_variant[t] = Ordered[Min(having(t))].top_variant[t]
    BY <1>4, <2>2
  <2> QED
    BY <2>1, <2>3, <2>4
<1>10. /\ m.loaded = UNION {r.loaded : r \in Compiled}
       /\ m.walk = UNION {r.walk : r \in Compiled}
       /\ m.insts = UNION {r.insts : r \in Compiled}
       /\ m.missing = UNION {r.missing : r \in Compiled}
       /\ m.errors = UNION {r.errors : r \in Compiled}
       /\ m.needed = UNION {r.needed : r \in Compiled}
       /\ DOMAIN m.top_variant = UNION {DOMAIN r.top_variant : r \in Compiled}
  BY <1>4
<1> QED
  BY <1>2, <1>3, <1>8, <1>9, <1>10

-----------------------------------------------------------------------------
(* Types. *)

\* Types at the start.
LEMMA InitHasTypes == Init => TypeInv
<1> SUFFICES ASSUME Init
             PROVE  TypeInv
  OBVIOUS
<1>1. design \in DesignType /\ design \in Designs
  BY SlangAssumption DEF SlangAssumption, Init
<1>2. design.src \subseteq Names /\ design.tops \subseteq Names
  BY <1>1 DEF DesignType
<1>3. request \subseteq Roots
  BY <1>2 DEF Init, Roots
<1>4. <<>> \in UNION {[D -> BOOLEAN] : D \in SUBSET Names}
  <2>1. <<>> \in [{} -> BOOLEAN] /\ {} \in SUBSET Names
    OBVIOUS
  <2> QED
    BY <2>1
<1>5. fragment \in FragmentType
  BY <1>4 DEF Init, NoFragment, FragmentType
<1>6. calls \in 0..MaxCalls /\ pulls \in 0..MaxPulls
  BY SlangAssumption DEF SlangAssumption, Init
<1>7. results = <<>> /\ picked = <<>> /\ <<>> \in Seq(ResultType) /\ Len(<<>>) = 0
  BY DEF Init
<1>8. job \in [tops : SUBSET Names, given : BOOLEAN, library : BOOLEAN, from : Froms]
  BY DEF Init, NoJob, Froms
<1> QED
  BY <1>1, <1>2, <1>3, <1>5, <1>6, <1>7, <1>8 DEF Init, TypeInv, NotRead

\* Starting a compilation keeps the types.
LEMMA CompilingHasTypes ==
  ASSUME NEW tops \in SUBSET Names, NEW given \in BOOLEAN, NEW library \in BOOLEAN,
         NEW from \in Froms, Compile(tops, given, library, from)
  PROVE  /\ job' \in [tops : SUBSET Names, given : BOOLEAN, library : BOOLEAN, from : Froms]
         /\ pulls' \in 0..MaxPulls /\ pc' = "load"
<1>1. 0 \in 0..MaxPulls
  BY SlangAssumption DEF SlangAssumption
<1> QED
  BY <1>1 DEF Compile

\* Returning a typed result keeps the types.
LEMMA ReturningHasTypes ==
  ASSUME TypeInv, RootsInv, NEW m, m \in ResultType, Return(m)
  PROVE  TypeInv'
<1> DEFINE needed == IF design.auto THEN m.loaded ELSE m.needed \union (Rejected \intersect units'.names)
<1>1. units' \in [read : BOOLEAN, names : SUBSET Names]
  <2>1. Defined \subseteq Names
    BY DEF Defined, TypeInv
  <2>2. units \in [read : BOOLEAN, names : SUBSET Names] /\ [read |-> TRUE, names |-> Defined] \in [read : BOOLEAN, names : SUBSET Names]
    BY <2>1 DEF TypeInv
  <2>3. units' = units \/ units' = [read |-> TRUE, names |-> Defined]
    BY DEF Return, ReadUnits
  <2> QED
    BY <2>2, <2>3
<1>2. Rejected \subseteq Names
  BY DEF Rejected, TypeInv
<1>3. needed \subseteq Names
  BY <1>2 DEF ResultType
<1>4. fragment' = [loaded |-> m.loaded, walk |-> m.walk, insts |-> m.insts,
                   top_variant |-> m.top_variant, missing |-> m.missing,
                   errors |-> m.errors, rejected |-> Rejected, needed |-> needed]
  BY DEF Return
<1> HIDE DEF needed
<1>5. fragment' \in FragmentType
  BY <1>2, <1>3, <1>4 DEF FragmentType, ResultType
<1>6. 0 \in 0..MaxPulls
  BY SlangAssumption DEF SlangAssumption
<1>7. /\ pc' = "returned" /\ job' = NoJob /\ pulls' = 0 /\ settings' = {} /\ results' = <<>>
      /\ failed' = {} /\ worked' = {} /\ picked' = <<>> /\ rejected' = {}
      /\ UNCHANGED <<design, files, inc_dirs, calls, request>>
  BY DEF Return
<1>8. job' \in [tops : SUBSET Names, given : BOOLEAN, library : BOOLEAN, from : Froms]
  BY <1>7 DEF NoJob, Froms
<1>9. <<>> \in Seq(ResultType) /\ Len(<<>>) = 0
  OBVIOUS
<1> QED
  BY <1>1, <1>5, <1>6, <1>7, <1>8, <1>9 DEF TypeInv

\* The result without anything elaborated is typed.
LEMMA NothingHasTypes ==
  ASSUME TypeInv, RootsInv
  PROVE  /\ NothingElaborated \in ResultType
         /\ NothingElaborated.loaded = files /\ NothingElaborated.walk = {}
         /\ NothingElaborated.insts = {} /\ NothingElaborated.missing = {}
         /\ NothingElaborated.errors = Invalid /\ NothingElaborated.needed = {}
         /\ NothingElaborated.top_variant = <<>>
<1>1. Result \in ResultType /\ Result.loaded = files /\ Result.errors = Invalid
  BY ResultFits
<1>2. NothingElaborated = [loaded |-> Result.loaded, walk |-> {}, insts |-> {}, top_variant |-> <<>>,
                           missing |-> {}, errors |-> Result.errors, needed |-> {}]
  <2> DEFINE empty == <<>>
             r1 == [Result EXCEPT !.walk = {}]
             r2 == [r1 EXCEPT !.insts = {}]
             r3 == [r2 EXCEPT !.top_variant = empty]
             r4 == [r3 EXCEPT !.missing = {}]
  <2> HIDE DEF empty
  <2>1. Result = [loaded |-> Result.loaded, walk |-> Result.walk, insts |-> Result.insts,
                  top_variant |-> Result.top_variant, missing |-> Result.missing,
                  errors |-> Result.errors, needed |-> Result.needed]
    BY <1>1 DEF ResultType
  <2>2. r1 = [loaded |-> Result.loaded, walk |-> {}, insts |-> Result.insts,
              top_variant |-> Result.top_variant, missing |-> Result.missing,
              errors |-> Result.errors, needed |-> Result.needed]
    BY <2>1
  <2> HIDE DEF r1
  <2>3. r2 = [loaded |-> Result.loaded, walk |-> {}, insts |-> {},
              top_variant |-> Result.top_variant, missing |-> Result.missing,
              errors |-> Result.errors, needed |-> Result.needed]
    BY <2>2
  <2> HIDE DEF r2
  <2>4. r3 = [loaded |-> Result.loaded, walk |-> {}, insts |-> {}, top_variant |-> empty,
              missing |-> Result.missing, errors |-> Result.errors, needed |-> Result.needed]
    BY <2>3
  <2> HIDE DEF r3
  <2>5. r4 = [loaded |-> Result.loaded, walk |-> {}, insts |-> {}, top_variant |-> empty,
              missing |-> {}, errors |-> Result.errors, needed |-> Result.needed]
    BY <2>4
  <2>6. NothingElaborated = [r4 EXCEPT !.needed = {}]
    BY DEF NothingElaborated, empty, r1, r2, r3, r4
  <2> HIDE DEF r4
  <2> QED
    BY <2>5, <2>6 DEF empty
<1>3. <<>> \in UNION {[D -> BOOLEAN] : D \in SUBSET Names}
  <2>1. <<>> \in [{} -> BOOLEAN] /\ {} \in SUBSET Names
    OBVIOUS
  <2> QED
    BY <2>1
<1> QED
  BY <1>1, <1>2, <1>3 DEF ResultType

\* Listing units keeps their type.
LEMMA UnitsHaveType ==
  ASSUME TypeInv
  PROVE  [read |-> TRUE, names |-> Defined] \in [read : BOOLEAN, names : SUBSET Names]
BY DEF Defined, TypeInv

\* Another root keeps the type of the request.
LEMMA RequestHasType ==
  ASSUME TypeInv, Call, NewRequest
  PROVE  request' \subseteq Roots /\ calls' \in 0..MaxCalls
<1>1. request' \subseteq Roots
  BY DEF NewRequest, TypeInv
<1>2. calls' \in 0..MaxCalls
  BY SlangAssumption DEF SlangAssumption, Call, TypeInv
<1> QED
  BY <1>1, <1>2

\* If a result is picked, it is the only one.
LEMMA OnePicked ==
  ASSUME TypeInv, Len(picked) = 1
  PROVE  picked[1] \in ResultType /\ ToSet(picked) = {picked[1]}
<1>1. picked \in Seq(ResultType)
  BY DEF TypeInv
<1>2. DOMAIN picked = {1}
  <2>1. DOMAIN picked = 1..1
    BY <1>1
  <2>2. 1..1 = {1}
    OBVIOUS
  <2> QED
    BY <2>1, <2>2
<1> QED
  BY <1>1, <1>2 DEF ToSet

\* Every step keeps the types.
LEMMA StepsKeepTypes ==
  ASSUME TypeInv, RootsInv, CompileInv, [Next]_vars
  PROVE  TypeInv'
<1>1. /\ Plain(request) \subseteq Names /\ SetElsewhere \subseteq Names
      /\ Invalid \subseteq Names /\ Found \subseteq Names
      /\ FoundDirs \subseteq files \union Found
  BY DesignsAreTyped DEF Plain, SetElsewhere, WithValues, Roots, TypeInv, Invalid, Found, FoundDirs,
     MissingIncludes, Defined
<1>2. Result \in ResultType /\ Result.loaded = files
  BY ResultFits
<1>3. /\ {"setting", "auto", "probe", "again", "plain", "nothing"} \subseteq Froms
  BY DEF Froms
<1>4. CASE ListUnits
  BY <1>4, UnitsHaveType DEF ListUnits, ReadUnits, TypeInv, compileVars
<1>5. CASE Provide
  <2>1. files' \subseteq Names /\ files \subseteq files'
    BY <1>5, DesignsAreTyped DEF Provide, TypeInv
  <2>2. calls' \in 0..MaxCalls
    BY <1>5, SlangAssumption DEF SlangAssumption, Provide, Call, TypeInv
  <2>3. units' \in [read : BOOLEAN, names : SUBSET Names]
    BY <1>5 DEF Provide, NotRead
  <2> QED
    BY <1>5, <2>1, <2>2, <2>3 DEF Provide, TypeInv, compileVars
<1>6. CASE ElaborateNothing
  <2>1. request' \subseteq Roots /\ calls' \in 0..MaxCalls
    BY <1>6, RequestHasType DEF ElaborateNothing
  <2>2. NoFragment \in FragmentType
    <3>1. <<>> \in UNION {[D -> BOOLEAN] : D \in SUBSET Names}
      <4>1. <<>> \in [{} -> BOOLEAN] /\ {} \in SUBSET Names
        OBVIOUS
      <4> QED
        BY <4>1
    <3> QED
      BY <3>1 DEF NoFragment, FragmentType
  <2> QED
    BY <1>6, <2>1, <2>2 DEF ElaborateNothing, TypeInv, compileVars
<1>7. CASE Elaborate
  <2>1. request' \subseteq Roots /\ calls' \in 0..MaxCalls
    BY <1>7, RequestHasType DEF Elaborate
  <2>2. units' \in [read : BOOLEAN, names : SUBSET Names]
    BY <1>7, UnitsHaveType DEF Elaborate, ReadUnits, TypeInv
  <2>3. settings' \subseteq Settings
    <3>1. \A r \in WithValues(request') :
            r.name \in Names /\ Overrides(r, units'.names) \in BOOLEAN
      BY <2>1 DEF WithValues, Roots, Overrides
    <3>2. settings' = {<<r.name, Overrides(r, units'.names)>> : r \in WithValues(request')}
      BY <1>7 DEF Elaborate
    <3> QED
      BY <3>1, <3>2 DEF Settings
  <2> QED
    BY <1>7, <2>1, <2>2, <2>3 DEF Elaborate, TypeInv
<1>8. CASE CompileSetting
  <2>1. PICK s \in settings : settings' = settings \ {s} /\ Compile({s[1]}, s[2], TRUE, "setting")
    BY <1>8 DEF CompileSetting
  <2>2. {s[1]} \in SUBSET Names /\ s[2] \in BOOLEAN
    BY <2>1 DEF TypeInv, Settings
  <2>3. /\ job' \in [tops : SUBSET Names, given : BOOLEAN, library : BOOLEAN, from : Froms]
        /\ pulls' \in 0..MaxPulls /\ pc' = "load"
    BY <1>3, <2>1, <2>2, CompilingHasTypes
  <2>4. /\ settings' \subseteq settings
        /\ UNCHANGED <<design, files, inc_dirs, units, calls, request, results, failed, worked,
                       picked, rejected, fragment>>
    BY <1>8, <2>1 DEF CompileSetting
  <2> QED
    BY <2>3, <2>4 DEF TypeInv
<1>9. CASE AfterSettings
  <2>1. /\ job' \in [tops : SUBSET Names, given : BOOLEAN, library : BOOLEAN, from : Froms]
        /\ pulls' \in 0..MaxPulls /\ pc' \in {"load", "merge"}
    <3>1. CASE Compile({}, FALSE, TRUE, "auto") \/ Compile(Plain(request), FALSE, TRUE, "plain")
      BY <1>1, <1>3, <3>1, CompilingHasTypes
    <3>2. CASE pc' = "merge" /\ UNCHANGED <<job, pulls>>
      BY <3>2 DEF TypeInv
    <3> QED
      BY <1>9, <3>1, <3>2 DEF AfterSettings
  <2> QED
    BY <1>9, <2>1 DEF AfterSettings, TypeInv, compileVars
<1>10. CASE Pull
  <2>1. files' = files \union Found /\ inc_dirs' = inc_dirs \union FoundDirs
    BY <1>10 DEF Pull
  <2>2. pulls' \in 0..MaxPulls
    BY <1>10, SlangAssumption DEF SlangAssumption, Pull, Again, TypeInv
  <2> QED
    BY <1>1, <1>10, <2>1, <2>2 DEF Pull, TypeInv, compileVars
<1>11. CASE SettingCompiled
  <2>1. results' \in Seq(ResultType)
    <3>1. results \in Seq(ResultType)
      BY DEF TypeInv
    <3>2. Append(results, Result) \in Seq(ResultType)
      BY <1>2, <3>1
    <3>3. results' = results \/ results' = Append(results, Result)
      BY <1>11 DEF SettingCompiled
    <3> QED
      BY <3>1, <3>2, <3>3
  <2>2. failed' \subseteq Names /\ worked' \subseteq Names
    BY <1>11 DEF SettingCompiled, TypeInv
  <2>3. /\ pc' = "settings"
        /\ UNCHANGED <<design, files, inc_dirs, units, calls, request, job, pulls, settings,
                       picked, rejected, fragment>>
    BY <1>11 DEF SettingCompiled
  <2> QED
    BY <2>1, <2>2, <2>3 DEF TypeInv
<1>12. ASSUME NEW r \in ResultType, PickTops(r)
       PROVE  /\ job' \in [tops : SUBSET Names, given : BOOLEAN, library : BOOLEAN, from : Froms]
              /\ pulls' \in 0..MaxPulls /\ pc' \in {"load", "merge"}
              /\ picked' \in Seq(ResultType) /\ Len(picked') \in {0, 1}
  <2> DEFINE tops == {t \in DOMAIN r.top_variant : t \in SetElsewhere => t \in Plain(request)}
  <2>1. tops \in SUBSET Names
    BY DEF ResultType
  <2>2. \/ picked' = <<r>> /\ pc' = "merge" /\ UNCHANGED <<job, pulls>>
        \/ picked' = <<>> /\ pc' = "merge" /\ UNCHANGED <<job, pulls>>
        \/ picked' = <<>> /\ Compile(tops, FALSE, TRUE, "again")
    BY <1>12 DEF PickTops
  <2> HIDE DEF tops
  <2>3. picked' \in Seq(ResultType) /\ Len(picked') \in {0, 1}
    <3>1. <<r>> \in Seq(ResultType) /\ Len(<<r>>) = 1 /\ <<>> \in Seq(ResultType) /\ Len(<<>>) = 0
      OBVIOUS
    <3> QED
      BY <2>2, <3>1
  <2>4. CASE Compile(tops, FALSE, TRUE, "again")
    BY <1>3, <2>1, <2>3, <2>4, CompilingHasTypes
  <2>5. CASE pc' = "merge" /\ UNCHANGED <<job, pulls>>
    BY <2>3, <2>5 DEF TypeInv
  <2> QED
    BY <2>2, <2>4, <2>5
<1>13. CASE AutoCompiled
  <2>1. /\ job' \in [tops : SUBSET Names, given : BOOLEAN, library : BOOLEAN, from : Froms]
        /\ pulls' \in 0..MaxPulls /\ pc' \in {"load", "merge"}
        /\ picked' \in Seq(ResultType) /\ Len(picked') \in {0, 1}
    <3>1. CASE PickTops(Result)
      BY <1>2, <1>12, <3>1
    <3>2. CASE picked' = <<Result>> /\ Compile(Plain(request), FALSE, TRUE, "probe")
      <4>1. picked' \in Seq(ResultType) /\ Len(picked') \in {0, 1}
        BY <1>2, <3>2
      <4> QED
        BY <1>1, <1>3, <3>2, <4>1, CompilingHasTypes
    <3> QED
      BY <1>13, <3>1, <3>2 DEF AutoCompiled
  <2> QED
    BY <1>13, <2>1 DEF AutoCompiled, TypeInv
<1>14. CASE ProbeCompiled
  <2>1. Len(picked) = 1
    BY <1>14 DEF ProbeCompiled, Loaded, CompileInv, Busy, JobInv
  <2>2. picked[1] \in ResultType
    BY <2>1, OnePicked
  <2>3. rejected' \subseteq Names /\ PickTops(picked[1])
    BY <1>1, <1>14 DEF ProbeCompiled
  <2>4. /\ job' \in [tops : SUBSET Names, given : BOOLEAN, library : BOOLEAN, from : Froms]
        /\ pulls' \in 0..MaxPulls /\ pc' \in {"load", "merge"}
        /\ picked' \in Seq(ResultType) /\ Len(picked') \in {0, 1}
    BY <1>12, <2>2, <2>3
  <2> QED
    BY <1>14, <2>3, <2>4 DEF ProbeCompiled, TypeInv
<1>15. CASE AgainCompiled
  <2>1. picked' \in Seq(ResultType) /\ Len(picked') = 1
    BY <1>2, <1>15 DEF AgainCompiled
  <2> QED
    BY <1>15, <2>1 DEF AgainCompiled, TypeInv
<1>16. CASE PlainCompiled
  <2>1. rejected' \subseteq Names
    BY <1>1, <1>16 DEF PlainCompiled, TypeInv
  <2>2. /\ picked' \in Seq(ResultType) /\ Len(picked') \in {0, 1}
    <3>1. <<Result>> \in Seq(ResultType) /\ Len(<<Result>>) = 1
      BY <1>2
    <3>2. picked' = <<Result>> \/ picked' = picked
      BY <1>16 DEF PlainCompiled
    <3> QED
      BY <3>1, <3>2 DEF TypeInv
  <2> DEFINE remaining == Plain(request) \ rejected'
  <2>3. \/ pc' = "merge" /\ UNCHANGED <<job, pulls>>
        \/ Compile(remaining, FALSE, TRUE, "plain")
    BY <1>16 DEF PlainCompiled
  <2>4. remaining \in SUBSET Names
    BY <1>1
  <2> HIDE DEF remaining
  <2>5. /\ job' \in [tops : SUBSET Names, given : BOOLEAN, library : BOOLEAN, from : Froms]
        /\ pulls' \in 0..MaxPulls /\ pc' \in {"load", "merge"}
    <3>1. CASE Compile(remaining, FALSE, TRUE, "plain")
      BY <1>3, <2>4, <3>1, CompilingHasTypes
    <3>2. CASE pc' = "merge" /\ UNCHANGED <<job, pulls>>
      BY <3>2 DEF TypeInv
    <3> QED
      BY <2>3, <3>1, <3>2
  <2>6. UNCHANGED <<design, files, inc_dirs, units, calls, request, settings, results, failed,
                    worked, fragment>>
    BY <1>16 DEF PlainCompiled
  <2> QED
    BY <2>1, <2>2, <2>5, <2>6 DEF TypeInv
<1>17. CASE MergeResults
  <2>1. Merged(Ordered) \in ResultType
    BY <1>17, MergedFits DEF MergeResults
  <2> QED
    BY <1>17, <2>1, ReturningHasTypes DEF MergeResults
<1>18. CASE NothingLeft
  <2>1. {} \in SUBSET Names
    OBVIOUS
  <2>2. /\ job' \in [tops : SUBSET Names, given : BOOLEAN, library : BOOLEAN, from : Froms]
        /\ pulls' \in 0..MaxPulls /\ pc' = "load"
    BY <1>3, <1>18, <2>1, CompilingHasTypes DEF NothingLeft
  <2> QED
    BY <1>18, <2>2 DEF NothingLeft, TypeInv, compileVars
<1>19. CASE ReturnNothing
  <2>1. NothingElaborated \in ResultType
    BY NothingHasTypes
  <2> QED
    BY <1>19, <2>1, ReturningHasTypes DEF ReturnNothing
<1>20. CASE DropResolved
  <2>1. fragment' \in FragmentType
    BY <1>20 DEF DropResolved, FragmentType, TypeInv
  <2> QED
    BY <1>20, <2>1 DEF DropResolved, TypeInv, compileVars
<1>21. CASE UNCHANGED vars
  BY <1>21 DEF vars, compileVars, TypeInv
<1> QED
  BY <1>4, <1>5, <1>6, <1>7, <1>8, <1>9, <1>10, <1>11, <1>13, <1>14, <1>15, <1>16, <1>17, <1>18,
     <1>19, <1>20, <1>21 DEF Next, Finished

-----------------------------------------------------------------------------
(* The roots. *)

\* A new root is one of a module that is listed.
LEMMA NewRootsAreKnown ==
  ASSUME TypeInv, RootsInv, NewRequest, UNCHANGED <<design, files>>,
         \/ units' = units
         \/ units' = [read |-> TRUE, names |-> Defined] /\ ~units.read
  PROVE  RootsInv' /\ Defined' = Defined
<1>1. Defined' = Defined
  BY DEF Defined
<1>2. \A r \in request' : r \in request \/ (units.read /\ r.name \in units.names /\ ~r.requested)
  BY DEF NewRequest
<1>3. RootNames' \subseteq Defined
  BY <1>2 DEF RootNames, RootsInv
<1>4. units'.names \subseteq Defined
  BY DEF RootsInv
<1>5. units'.read => RootNames' \subseteq units'.names
  <2>1. CASE units' = units
    BY <1>2, <2>1 DEF RootNames, RootsInv
  <2>2. CASE units' = [read |-> TRUE, names |-> Defined]
    BY <1>3, <2>2
  <2> QED
    BY <2>1, <2>2
<1>6. \A r \in request' : r.requested => r.generics = "none" /\ r.name \in design.tops
  BY <1>2 DEF RootsInv
<1> QED
  BY <1>1, <1>3, <1>4, <1>5, <1>6 DEF RootsInv

\* Every step keeps the roots defined, and listed if units are.
LEMMA StepsKeepRoots ==
  ASSUME TypeInv, RootsInv, CompileInv, [Next]_vars
  PROVE  RootsInv'
<1> DEFINE Same == /\ UNCHANGED <<design, request>> /\ files \subseteq files'
                   /\ units'.names \subseteq Defined'
                   /\ units'.read => RootNames \subseteq units'.names
<1>1. ASSUME Same
      PROVE  RootsInv'
  <2>1. Defined \subseteq Defined'
    BY <1>1 DEF Defined
  <2>2. RootNames' = RootNames
    BY <1>1 DEF RootNames
  <2> QED
    BY <1>1, <2>1, <2>2 DEF RootsInv
<1>2. UNCHANGED units \/ ReadUnits => (Defined \subseteq Defined' => units'.names \subseteq Defined')
                                       /\ (units'.read => RootNames \subseteq units'.names)
  BY DEF ReadUnits, RootsInv
<1>3. files \subseteq files' /\ UNCHANGED design => Defined \subseteq Defined'
  BY DEF Defined
<1>4. CASE ListUnits
  BY <1>1, <1>2, <1>3, <1>4 DEF ListUnits
<1>5. CASE Provide
  <2>1. UNCHANGED <<design, request>> /\ files \subseteq files' /\ units' = NotRead
    BY <1>5 DEF Provide
  <2> QED
    BY <1>1, <2>1 DEF NotRead
<1>6. CASE ElaborateNothing
  BY <1>6, NewRootsAreKnown DEF ElaborateNothing
<1>7. CASE Elaborate
  <2>1. units' = units \/ (units' = [read |-> TRUE, names |-> Defined] /\ ~units.read)
    BY <1>7 DEF Elaborate, ReadUnits
  <2>2. NewRequest /\ UNCHANGED <<design, files>>
    BY <1>7 DEF Elaborate
  <2> QED
    BY <2>1, <2>2, NewRootsAreKnown
<1>8. CASE Pull
  <2>1. UNCHANGED <<design, request, units>> /\ files \subseteq files'
    BY <1>8 DEF Pull
  <2> QED
    BY <1>1, <1>2, <1>3, <2>1
<1>9. CASE CompileSetting \/ AfterSettings \/ SettingCompiled \/ AutoCompiled \/ ProbeCompiled
           \/ AgainCompiled \/ PlainCompiled \/ NothingLeft \/ DropResolved \/ UNCHANGED vars
  <2>1. UNCHANGED <<design, request, units, files>>
    BY <1>9 DEF CompileSetting, AfterSettings, SettingCompiled, AutoCompiled, ProbeCompiled,
       AgainCompiled, PlainCompiled, NothingLeft, DropResolved, vars
  <2> QED
    BY <1>1, <1>2, <1>3, <2>1
<1>10. CASE MergeResults \/ ReturnNothing
  <2>1. UNCHANGED <<design, request, files>> /\ (UNCHANGED units \/ ReadUnits)
    BY <1>10 DEF MergeResults, ReturnNothing, Return
  <2> QED
    BY <1>1, <1>2, <1>3, <2>1
<1> QED
  BY <1>4, <1>5, <1>6, <1>7, <1>8, <1>9, <1>10 DEF Next, Finished

-----------------------------------------------------------------------------
(* Compilations. *)

\* What is done of the settings stays done.
LEMMA SettingsStayDone ==
  ASSUME TypeInv, RootsInv, SettingsInv,
         UNCHANGED <<design, request, results, failed, worked>>,
         files \subseteq files', files' \subseteq Names,
         (settings \union Doing)' = settings \union Doing,
         pc' # "settings" /\ Doing' = {} => settings' = {},
         \A r \in ToSet(picked') : r \in ResultType /\ (r \in ToSet(picked) \/ Sound(r)),
         \A n \in rejected' : n \in rejected \/ (n \in RootNames /\ ~Takes(n, FALSE))
  PROVE  SettingsInv'
<1>1. /\ UNCHANGED <<Wanted, AskedFor, RootNames, Plain(request), Required, SetElsewhere>>
      /\ \A n \in RootNames : \A g \in BOOLEAN : Takes(n, g)' <=> Takes(n, g)
      /\ \A r \in ResultType : Sound(r) => Sound(r)'
      /\ \A r \in ResultType : Justified(r)' <=> Justified(r)
  BY WhatIsKept
<1>2. Wanted \subseteq RootNames \X BOOLEAN
  BY RootsComeFromOthers
<1>3. ToSet(results') = ToSet(results) /\ ToSet(results) \subseteq ResultType
  BY ElementsOf DEF TypeInv
<1>4. (settings \union Doing)' \subseteq Wanted'
  BY <1>1 DEF SettingsInv
<1>5. ASSUME NEW s \in Wanted' \ (settings \union Doing)'
      PROVE  IF Takes(s[1], s[2])' THEN s[1] \in worked' /\ \E r \in ToSet(results') : s \in r.walk
             ELSE s[1] \in failed'
  <2>1. s \in Wanted \ (settings \union Doing) /\ s[1] \in RootNames /\ s[2] \in BOOLEAN
    BY <1>1, <1>2
  <2>2. Takes(s[1], s[2])' <=> Takes(s[1], s[2])
    BY <1>1, <2>1
  <2> QED
    BY <1>3, <2>1, <2>2 DEF SettingsInv
<1>6. \A n \in worked' : \E r \in ToSet(results') : \E g \in BOOLEAN : <<n, g>> \in r.walk
  BY <1>3 DEF SettingsInv
<1>7. \A n \in failed' \union rejected' : n \in RootNames' /\ ~Takes(n, FALSE)'
  BY <1>1 DEF SettingsInv
<1>8. \A r \in ToSet(results') : Sound(r)' /\ Justified(r)'
  BY <1>1, <1>3 DEF SettingsInv
<1>9. \A r \in ToSet(picked') : Sound(r)'
  BY <1>1 DEF SettingsInv
<1>10. pc' # "settings" /\ Doing' = {} => settings' = {}
  OBVIOUS
<1> HIDE DEF SettingsInv
<1> QED
  BY <1>4, <1>5, <1>6, <1>7, <1>8, <1>9, <1>10 DEF SettingsInv

\* The settings to compile are those the roots ask for.
LEMMA ElaborateWantsAll ==
  ASSUME Elaborate, RootsInv'
  PROVE  settings' = Wanted'
<1>1. /\ settings' = {<<r.name, Overrides(r, units'.names)>> : r \in WithValues(request')}
      /\ IF \E r \in request' : ~r.requested THEN ReadUnits ELSE UNCHANGED units
      /\ UNCHANGED design
  BY DEF Elaborate
<1>2. ASSUME NEW r \in WithValues(request')
      PROVE  Overrides(r, units'.names) = Given(r)'
  <2>1. r \in request' /\ ~r.requested
    BY DEF WithValues, RootsInv
  <2>2. units'.read
    BY <1>1, <2>1 DEF ReadUnits
  <2>3. r.name \in RootNames'
    BY <2>1 DEF RootNames
  <2>4. r.name \in units'.names
    BY <2>2, <2>3 DEF RootsInv
  <2> QED
    BY <1>1, <2>4 DEF Overrides, Given
<1>3. WithValues(request)' = WithValues(request')
  BY DEF WithValues
<1> QED
  BY <1>1, <1>2, <1>3 DEF Wanted

\* CompileInv, from step to step: elaborate starts with every setting to compile;
LEMMA ElaborateStarts ==
  ASSUME TypeInv, RootsInv, CompileInv, Elaborate, RootsInv'
  PROVE  CompileInv'
<1>1. /\ pc' = "settings" /\ (request' # {} \/ design.auto)
      /\ UNCHANGED <<design, results, failed, worked, picked, rejected>>
  BY DEF Elaborate
<1>2. results' = <<>> /\ failed' = {} /\ worked' = {} /\ picked' = <<>> /\ rejected' = {}
  BY <1>1 DEF Elaborate, Call, Idle, CompileInv, Busy
<1>3. settings' = Wanted'
  BY ElaborateWantsAll
<1>4. Doing' = {} /\ ToSet(results') = {} /\ ToSet(picked') = {}
  BY <1>1, <1>2 DEF Doing, ToSet
<1>5. SettingsInv'
  BY <1>1, <1>2, <1>3, <1>4 DEF SettingsInv
<1>6. JobInv'
  BY <1>1, <1>2 DEF JobInv
<1> QED
  BY <1>1, <1>5, <1>6 DEF CompileInv, Busy

\* a setting is compiled;
LEMMA CompilingStarts ==
  ASSUME TypeInv, RootsInv, CompileInv, CompileSetting
  PROVE  CompileInv'
<1>1. PICK s \in settings : settings' = settings \ {s} /\ Compile({s[1]}, s[2], TRUE, "setting")
  BY DEF CompileSetting
<1>2. /\ pc = "settings" /\ pc' = "load"
      /\ job' = [tops |-> {s[1]}, given |-> s[2], library |-> TRUE, from |-> "setting"]
      /\ UNCHANGED <<design, files, request, results, failed, worked, picked, rejected>>
  BY <1>1 DEF CompileSetting, Compile
<1>3. SettingsInv /\ JobInv /\ (request # {} \/ design.auto)
  BY <1>2 DEF CompileInv, Busy
<1>4. s = <<s[1], s[2]>>
  BY DEF TypeInv, Settings
<1>5. Doing = {} /\ Doing' = {s}
  BY <1>2, <1>4 DEF Doing
<1>6. (settings \union Doing)' = settings \union Doing
  BY <1>1, <1>5
<1>7. files' \subseteq Names
  BY <1>2 DEF TypeInv
<1>8. ToSet(picked') \subseteq ResultType
  BY <1>2, ElementsOf DEF TypeInv
<1>9. SettingsInv'
  BY <1>2, <1>3, <1>5, <1>6, <1>7, <1>8, SettingsStayDone
<1>10. s \in Wanted' \ settings'
  <2>1. Wanted' = Wanted
    BY <1>2, <1>7, WhatIsKept
  <2> QED
    BY <1>1, <1>3, <2>1 DEF SettingsInv
<1>11. JobInv'
  BY <1>2, <1>3, <1>10 DEF JobInv
<1> QED
  BY <1>2, <1>3, <1>9, <1>11 DEF CompileInv, Busy

\* What a step needs to keep of the compilations when it leaves the inputs and the settings
\* alone, and does not compile a setting.
LEMMA OthersCompile ==
  ASSUME TypeInv, RootsInv, SettingsInv, settings = {}, Doing = {}, Doing' = {}, pc' # "settings",
         UNCHANGED <<design, files, request, settings, results, failed, worked>>,
         \A r \in ToSet(picked') : r \in ResultType /\ (r \in ToSet(picked) \/ Sound(r)),
         \A n \in rejected' : n \in rejected \/ (n \in RootNames /\ ~Takes(n, FALSE))
  PROVE  SettingsInv'
<1>1. files' \subseteq Names /\ (settings \union Doing)' = settings \union Doing
  BY DEF TypeInv
<1> QED
  BY <1>1, SettingsStayDone

\* after the settings, the plain roots are compiled;
LEMMA AfterSettingsGoesOn ==
  ASSUME TypeInv, RootsInv, CompileInv, AfterSettings
  PROVE  CompileInv'
<1>1. /\ pc = "settings" /\ settings = {}
      /\ UNCHANGED <<design, files, request, settings, results, failed, worked, picked, rejected>>
  BY DEF AfterSettings, compileVars
<1>2. SettingsInv /\ JobInv /\ (request # {} \/ design.auto) /\ picked = <<>> /\ rejected = {}
  BY <1>1 DEF CompileInv, Busy, JobInv
<1>3. \/ design.auto /\ Compile({}, FALSE, TRUE, "auto")
      \/ ~design.auto /\ Plain(request) # {} /\ Compile(Plain(request), FALSE, TRUE, "plain")
      \/ ~design.auto /\ Plain(request) = {} /\ pc' = "merge" /\ UNCHANGED <<job, pulls>>
  BY DEF AfterSettings
<1>4. Doing = {} /\ Doing' = {} /\ pc' \in {"load", "merge"}
  BY <1>1, <1>3 DEF Doing, Compile
<1>5. ToSet(picked') = {}
  BY <1>1, <1>2 DEF ToSet
<1>6. SettingsInv'
  BY <1>1, <1>2, <1>4, <1>5, OthersCompile
<1>7. UNCHANGED <<Plain(request), Required>>
  BY <1>1 DEF Plain, Required
<1>8. JobInv'
  <2>1. CASE design.auto /\ Compile({}, FALSE, TRUE, "auto")
    BY <1>1, <1>2, <2>1 DEF JobInv, Compile
  <2>2. CASE ~design.auto /\ Plain(request) # {} /\ Compile(Plain(request), FALSE, TRUE, "plain")
    BY <1>1, <1>2, <1>7, <2>2 DEF JobInv, Compile
  <2>3. CASE pc' = "merge"
    BY <2>3 DEF JobInv
  <2> QED
    BY <1>3, <2>1, <2>2, <2>3
<1>9. ASSUME pc' = "merge"
      PROVE  PlainInv'
  <2>1. Plain(request)' = {} /\ Required' = {}
    BY <1>3, <1>7, <1>9, RootsComeFromOthers DEF Compile
  <2> QED
    BY <1>5, <2>1 DEF PlainInv
<1> QED
  BY <1>1, <1>2, <1>4, <1>6, <1>8, <1>9 DEF CompileInv, Busy

\* files come in;
LEMMA PullingKeepsCompileInv ==
  ASSUME TypeInv, RootsInv, CompileInv, Pull, TypeInv'
  PROVE  CompileInv'
<1>1. /\ pc = "load" /\ pc' = "load" /\ job.library /\ files \subseteq files'
      /\ UNCHANGED <<design, request, job, settings, results, failed, worked, picked, rejected>>
  BY DEF Pull, Again, compileVars
<1>2. SettingsInv /\ JobInv /\ (request # {} \/ design.auto)
  BY <1>1 DEF CompileInv, Busy
<1>3. files' \subseteq Names
  BY DEF TypeInv
<1>4. /\ UNCHANGED <<Wanted, AskedFor, RootNames, Plain(request), Required, SetElsewhere>>
      /\ \A n \in RootNames : \A g \in BOOLEAN : Takes(n, g)' <=> Takes(n, g)
      /\ \A n \in Names : Unreachable(n)' <=> Unreachable(n)
  BY <1>1, <1>3, WhatIsKept
<1>5. Doing' = Doing
  BY <1>1 DEF Doing
<1>6. SettingsInv'
  <2>1. (settings \union Doing)' = settings \union Doing
    BY <1>1, <1>5
  <2>2. Doing = {} => settings = {}
    BY <1>1, <1>2 DEF SettingsInv
  <2>3. ToSet(picked') = ToSet(picked) /\ ToSet(picked) \subseteq ResultType
    BY <1>1, ElementsOf DEF TypeInv
  <2> QED
    BY <1>1, <1>2, <1>3, <1>5, <2>1, <2>2, <2>3, SettingsStayDone
<1>7. design.auto => Plain(request) \subseteq RootNames /\ RootNames \subseteq Names
  BY RootsComeFromOthers
<1>8. TopsFit(picked[1]) /\ design.auto => TopsFit(picked[1])'
  <2>1. picked'[1] = picked[1]
    BY <1>1
  <2> QED
    BY <1>4, <1>7, <2>1 DEF TopsFit
<1>9. JobInv'
  <2>1. job.from # "nothing"
    BY <1>1, <1>2 DEF JobInv
  <2>2. CASE job.from = "setting" \/ job.from = "auto" \/ job.from = "plain"
    BY <1>1, <1>2, <1>4, <2>2 DEF JobInv
  <2>3. CASE job.from = "probe"
    BY <1>1, <1>2, <1>4, <1>8, <2>3 DEF JobInv
  <2>4. CASE job.from = "again"
    BY <1>1, <1>2, <1>4, <1>7, <2>4 DEF JobInv
  <2> QED
    BY <1>1, <1>2, <2>1, <2>2, <2>3, <2>4 DEF JobInv
<1> QED
  BY <1>1, <1>2, <1>6, <1>9 DEF CompileInv, Busy

\* a setting has failed or worked;
LEMMA SettingIsDone ==
  ASSUME TypeInv, RootsInv, CompileInv, SettingCompiled
  PROVE  CompileInv'
<1>1. /\ pc = "load" /\ pc' = "settings" /\ job.from = "setting"
      /\ UNCHANGED <<design, files, request, settings, picked, rejected>>
      /\ \/ Invalid # {} /\ failed' = failed \union job.tops /\ UNCHANGED <<results, worked>>
         \/ /\ Invalid = {} /\ worked' = worked \union job.tops
            /\ results' = Append(results, Result) /\ UNCHANGED failed
  BY DEF SettingCompiled, Loaded
<1>2. SettingsInv /\ JobInv /\ (request # {} \/ design.auto)
  BY <1>1 DEF CompileInv, Busy
<1>3. PICK s \in Wanted \ settings : job.tops = {s[1]} /\ job.given = s[2]
  BY <1>1, <1>2 DEF JobInv
<1>4. Wanted \subseteq RootNames \X BOOLEAN /\ Wanted \subseteq AskedFor
  BY RootsComeFromOthers
<1>5. s = <<s[1], s[2]>> /\ s[1] \in RootNames /\ s[2] \in BOOLEAN
  BY <1>4
<1>6. Doing = {s} /\ Doing' = {}
  BY <1>1, <1>3, <1>5 DEF Doing
<1>7. Invalid = {} <=> Takes(s[1], s[2])
  BY <1>3 DEF Invalid
<1>8. files' \subseteq Names
  BY <1>1 DEF TypeInv
<1>9. /\ UNCHANGED <<Wanted, RootNames>>
      /\ \A n \in RootNames : \A g \in BOOLEAN : Takes(n, g)' <=> Takes(n, g)
      /\ \A r \in ResultType : Sound(r) => Sound(r)'
      /\ \A r \in ResultType : Justified(r)' <=> Justified(r)
  BY <1>1, <1>8, WhatIsKept
<1>10. /\ Result \in ResultType /\ Sound(Result) /\ Result.walk = Walk
       /\ Result.insts = Instances(Walk)
  BY <1>3, ResultFits
<1>11. ASSUME Invalid = {}
       PROVE  Tops = {s}
  <2>1. {t \in job.tops : Takes(t, job.given)} = {s[1]} /\ job.tops # {}
    BY <1>3, <1>7, <1>11
  <2>2. Tops = {s[1]} \X {s[2]}
    BY <1>3, <2>1 DEF Tops
  <2> QED
    BY <1>5, <2>2
<1>12. ASSUME Invalid = {}
       PROVE  s \in Result.walk /\ Justified(Result)
  BY <1>4, <1>10, <1>11, <1>12, WalkIsClosed DEF Justified
<1>13. /\ Invalid # {} => results' = results
       /\ Invalid = {} => ToSet(results') = ToSet(results) \union {Result}
       /\ ToSet(results) \subseteq ResultType
       /\ ToSet(picked') \subseteq ResultType
  <2>1. results \in Seq(ResultType) /\ picked \in Seq(ResultType)
    BY DEF TypeInv
  <2>2. ToSet(Append(results, Result)) = ToSet(results) \union {Result}
    BY <1>10, <2>1, AppendingAdds
  <2>3. ToSet(results) \subseteq ResultType /\ ToSet(picked) \subseteq ResultType
    BY <2>1, ElementsOf
  <2> QED
    BY <1>1, <2>2, <2>3
<1>14. ToSet(results) \subseteq ToSet(results') /\ failed \subseteq failed' /\ worked \subseteq worked'
  BY <1>1, <1>13
<1>15. ASSUME NEW t \in Wanted' \ (settings \union Doing)'
       PROVE  IF Takes(t[1], t[2])' THEN t[1] \in worked' /\ \E r \in ToSet(results') : t \in r.walk
              ELSE t[1] \in failed'
  <2>1. t \in Wanted /\ t[1] \in RootNames /\ t[2] \in BOOLEAN
    BY <1>4, <1>9
  <2>2. Takes(t[1], t[2])' <=> Takes(t[1], t[2])
    BY <1>9, <2>1
  <2>3. CASE t = s
    BY <1>1, <1>3, <1>7, <1>12, <1>13, <2>2, <2>3
  <2>4. CASE t # s
    <3>1. t \in Wanted \ (settings \union Doing)
      BY <1>1, <1>6, <2>1, <2>4
    <3> QED
      BY <1>2, <1>14, <2>2, <3>1 DEF SettingsInv
  <2> QED
    BY <2>3, <2>4
<1>16. ASSUME NEW n \in worked'
       PROVE  \E r \in ToSet(results') : \E g \in BOOLEAN : <<n, g>> \in r.walk
  <2>1. CASE n \in worked
    BY <1>2, <1>14, <2>1 DEF SettingsInv
  <2>2. CASE n \notin worked
    <3>1. Invalid = {} /\ n = s[1]
      BY <1>1, <1>3, <2>2
    <3> QED
      BY <1>5, <1>12, <1>13, <3>1
  <2> QED
    BY <2>1, <2>2
<1>17. ASSUME NEW n \in failed' \union rejected'
       PROVE  n \in RootNames' /\ ~Takes(n, FALSE)'
  <2>1. CASE n \in failed \union rejected
    BY <1>2, <1>9, <2>1 DEF SettingsInv
  <2>2. CASE n \notin failed \union rejected
    <3>1. Invalid # {} /\ n = s[1]
      BY <1>1, <1>3, <2>2
    <3>2. ~Takes(s[1], s[2])
      BY <1>7, <3>1
    <3>3. ~Takes(s[1], FALSE)
      BY <3>2 DEF Takes
    <3> QED
      BY <1>5, <1>9, <3>1, <3>3
  <2> QED
    BY <2>1, <2>2
<1>18. \A r \in ToSet(results') : Sound(r)' /\ Justified(r)'
  BY <1>1, <1>2, <1>9, <1>10, <1>12, <1>13 DEF SettingsInv
<1>19. \A r \in ToSet(picked') : Sound(r)'
  BY <1>1, <1>2, <1>9, <1>13 DEF SettingsInv
<1>20. (settings \union Doing)' \subseteq Wanted'
  BY <1>1, <1>2, <1>6, <1>9 DEF SettingsInv
<1>21. SettingsInv'
  BY <1>1, <1>15, <1>16, <1>17, <1>18, <1>19, <1>20 DEF SettingsInv
<1>22. JobInv'
  BY <1>1, <1>2 DEF JobInv
<1> QED
  BY <1>1, <1>2, <1>21, <1>22 DEF CompileInv, Busy

\* Automatic tops: what slang picks, and what it does not take as a top of its own.
LEMMA AutoTopsFit ==
  ASSUME TypeInv, RootsInv, job.tops = {}, design.auto
  PROVE  TopsFit(Result)
<1>1. Tops = AutoTops \X {FALSE} /\ {s[1] : s \in Tops} = AutoTops
  <2>1. Tops = AutoTops \X {FALSE}
    BY DEF Tops
  <2>2. ASSUME NEW n \in AutoTops
        PROVE  n \in {s[1] : s \in Tops}
    <3>1. <<n, FALSE>> \in Tops /\ <<n, FALSE>>[1] = n
      BY <2>1
    <3> QED
      BY <3>1
  <2>3. \A s \in Tops : s[1] \in AutoTops
    BY <2>1
  <2> QED
    BY <2>1, <2>2, <2>3
<1>2. /\ Result.walk = Walk /\ Result.insts = Instances(Walk)
      /\ DOMAIN Result.top_variant = AutoTops
  BY <1>1, ResultFits
<1>3. ASSUME NEW n \in Plain(request), Takes(n, FALSE)
      PROVE  n \in AutoTops \/ Unreachable(n)
  <2>1. n \in Defined /\ n \notin design.needs
    BY <1>3 DEF Takes
  <2>2. CASE n \in {c[1] : c \in UNION {Children(s) : s \in Defined \X BOOLEAN}}
    <3>1. PICK s \in Defined \X BOOLEAN, c \in Settings : c \in Children(s) /\ n = c[1]
      <4>1. \A s \in Defined \X BOOLEAN : Children(s) \subseteq Settings
        BY DesignsAreTyped DEF Children, Settings, Defined, TypeInv
      <4> QED
        BY <2>2, <4>1
    <3>2. s \in Names \X BOOLEAN /\ c \in design.kids[s]
      BY <3>1 DEF Children, Defined, TypeInv
    <3>3. c = <<n, c[2]>> /\ c[2] \in BOOLEAN
      BY <3>1 DEF Settings
    <3> QED
      BY <3>2, <3>3 DEF Unreachable
  <2> QED
    BY <2>1, <2>2 DEF AutoTops
<1> QED
  BY <1>1, <1>2, <1>3, WalkIsClosed DEF TopsFit

\* The tops of an automatic result, without those others only use with values.
LEMMA PickingTops ==
  ASSUME TypeInv, RootsInv, SettingsInv, settings = {}, Doing = {}, pc = "load", design.auto,
         UNCHANGED <<design, files, request, settings, results, failed, worked>>,
         NEW r \in ResultType, Sound(r), TopsFit(r), PickTops(r),
         \A n \in rejected' : n \in RootNames /\ ~Takes(n, FALSE),
         \A n \in Plain(request) : ~Takes(n, FALSE) => n \in rejected'
  PROVE  SettingsInv' /\ JobInv' /\ (pc' = "merge" => PlainInv') /\ pc' \in {"load", "merge"}
<1> DEFINE tops == {t \in DOMAIN r.top_variant : t \in SetElsewhere => t \in Plain(request)}
<1>1. \/ SetElsewhere \subseteq Plain(request) /\ picked' = <<r>> /\ pc' = "merge"
      \/ tops = {} /\ picked' = <<>> /\ pc' = "merge"
      \/ tops # {} /\ picked' = <<>> /\ Compile(tops, FALSE, TRUE, "again")
  BY DEF PickTops
<1>2. /\ UNCHANGED <<Wanted, AskedFor, RootNames, Plain(request), Required, SetElsewhere>>
      /\ \A n \in Names : Unreachable(n)' <=> Unreachable(n)
      /\ \A x \in ResultType : Justified(x)' <=> Justified(x)
  BY WhatIsKept DEF TypeInv
<1>3. \A n \in Names : Takes(n, FALSE)' <=> Takes(n, FALSE)
  BY DEF Takes, Defined
<1>4. /\ Plain(request) \subseteq Names /\ Required = {}
      /\ \A n \in Plain(request) : <<n, FALSE>> \in AskedFor
  BY RootsComeFromOthers
<1>5. ToSet(<<r>>) = {r} /\ ToSet(<<>>) = {}
  BY DEF ToSet
<1>6. Doing' = {} /\ pc' \in {"load", "merge"}
  BY <1>1 DEF Doing, Compile
<1>7. SettingsInv'
  <2>1. \A x \in ToSet(picked') : x = r
    BY <1>1, <1>5
  <2> QED
    BY <1>6, <2>1, OthersCompile
<1>8. JobInv'
  <2>1. CASE pc' = "merge"
    BY <2>1 DEF JobInv
  <2>2. CASE tops # {} /\ picked' = <<>> /\ Compile(tops, FALSE, TRUE, "again")
    <3>1. \A t \in tops : t \in SetElsewhere => t \in Plain(request)
      OBVIOUS
    <3>2. \A n \in Plain(request) : Takes(n, FALSE) => n \in tops \/ Unreachable(n)
      BY DEF TopsFit
    <3> HIDE DEF tops
    <3>3. /\ job' = [tops |-> tops, given |-> FALSE, library |-> TRUE, from |-> "again"]
          /\ pc' = "load" /\ picked' = <<>>
      BY <2>2 DEF Compile
    <3>4. \A n \in Plain(request)' :
             IF Takes(n, FALSE)' THEN n \in job'.tops \/ Unreachable(n)' ELSE n \in rejected'
      BY <1>2, <1>3, <1>4, <3>2, <3>3
    <3>5. \A t \in job'.tops : t \in SetElsewhere' => t \in Plain(request)'
      BY <1>2, <3>1, <3>3
    <3> QED
      BY <2>2, <3>3, <3>4, <3>5 DEF JobInv
  <2> QED
    BY <1>1, <2>1, <2>2
<1>9. ASSUME pc' = "merge"
      PROVE  PlainInv'
  <2>1. CASE SetElsewhere \subseteq Plain(request) /\ picked' = <<r>>
    <3>1. \A n \in Plain(request) : Takes(n, FALSE) => Unreachable(n) \/ <<n, FALSE>> \in r.walk
      BY DEF TopsFit
    <3>2. Justified(r)
      <4> SUFFICES ASSUME NEW s \in r.walk, ~\E e \in r.insts : e[2] = s
                   PROVE  s \in AskedFor \/ (design.auto /\ s[1] \notin SetElsewhere)
        BY DEF Justified
      <4>1. s \in (DOMAIN r.top_variant) \X {FALSE}
        BY DEF TopsFit
      <4>2. s = <<s[1], FALSE>>
        BY <4>1, PairWith
      <4> QED
        BY <1>4, <2>1, <4>2
    <3> QED
      BY <1>2, <1>3, <1>4, <1>5, <2>1, <3>1, <3>2 DEF PlainInv
  <2>2. CASE tops = {} /\ picked' = <<>>
    <3>1. \A n \in Plain(request) : Takes(n, FALSE) => Unreachable(n)
      BY <2>2 DEF TopsFit
    <3> QED
      BY <1>2, <1>3, <1>4, <1>5, <2>2, <3>1 DEF PlainInv
  <2> QED
    BY <1>1, <1>9, <2>1, <2>2 DEF Compile
<1> QED
  BY <1>6, <1>7, <1>8, <1>9

\* What the lemmas below start from, when a compilation is ready.
LEMMA CompilationReady ==
  ASSUME TypeInv, RootsInv, CompileInv, pc = "load", job.from # "setting"
  PROVE  /\ SettingsInv /\ JobInv /\ (request # {} \/ design.auto)
         /\ Doing = {} /\ settings = {} /\ job.given = FALSE
         /\ ToSet(picked) \subseteq ResultType
         /\ Result \in ResultType /\ (job.tops # {} \/ design.auto => Sound(Result))
         /\ \A n \in Invalid : n \in job.tops /\ ~Takes(n, FALSE)
         /\ \A n \in job.tops : Takes(n, FALSE) \/ n \in Invalid
<1>1. SettingsInv /\ JobInv /\ (request # {} \/ design.auto)
  BY DEF CompileInv, Busy
<1>2. Doing = {} /\ settings = {} /\ job.given = FALSE
  BY <1>1 DEF Doing, SettingsInv, JobInv
<1>3. ToSet(picked) \subseteq ResultType
  BY ElementsOf DEF TypeInv
<1>4. Result \in ResultType /\ (job.tops # {} \/ design.auto => Sound(Result))
  BY ResultFits
<1> QED
  BY <1>1, <1>2, <1>3, <1>4 DEF Invalid

\* automatic tops are compiled, and go on to a probe of the plain roots, if any;
LEMMA AutomaticIsDone ==
  ASSUME TypeInv, RootsInv, CompileInv, AutoCompiled
  PROVE  CompileInv'
<1>1. /\ pc = "load" /\ job.from = "auto"
      /\ UNCHANGED <<design, files, request, settings, results, failed, worked, rejected>>
  BY DEF AutoCompiled, Loaded
<1>2. /\ SettingsInv /\ Doing = {} /\ settings = {} /\ Result \in ResultType
      /\ design.auto /\ job.tops = {} /\ picked = <<>> /\ rejected = {}
  BY <1>1, CompilationReady DEF JobInv
<1>3. Sound(Result) /\ TopsFit(Result)
  BY <1>1, <1>2, CompilationReady, AutoTopsFit
<1>4. CASE Plain(request) = {} /\ PickTops(Result)
  <2>1. rejected' = {}
    BY <1>1, <1>2
  <2>2. SettingsInv' /\ JobInv' /\ (pc' = "merge" => PlainInv') /\ pc' \in {"load", "merge"}
    BY <1>1, <1>2, <1>3, <1>4, <2>1, PickingTops
  <2> QED
    BY <1>1, <1>2, <2>2, CompilationReady DEF CompileInv, Busy
<1>5. CASE /\ Plain(request) # {} /\ picked' = <<Result>>
           /\ Compile(Plain(request), FALSE, TRUE, "probe")
  <2>1. /\ job' = [tops |-> Plain(request), given |-> FALSE, library |-> TRUE, from |-> "probe"]
        /\ pc' = "load"
    BY <1>5 DEF Compile
  <2>2. Doing' = {}
    BY <2>1 DEF Doing
  <2>3. ToSet(picked') = {Result} /\ Len(picked') = 1 /\ picked'[1] = Result
    BY <1>5 DEF ToSet
  <2>4. SettingsInv'
    BY <1>1, <1>2, <1>3, <2>1, <2>2, <2>3, OthersCompile
  <2>5. /\ UNCHANGED <<Plain(request)>>
        /\ \A n \in Names : Unreachable(n)' <=> Unreachable(n)
    BY <1>1, WhatIsKept DEF TypeInv
  <2>6. \A n \in Names : Takes(n, FALSE)' <=> Takes(n, FALSE)
    BY <1>1 DEF Takes, Defined
  <2>7. Plain(request) \subseteq Names
    BY <1>2, RootsComeFromOthers
  <2>8. PICK r \in ResultType : r = Result
    BY <1>2
  <2>9. TopsFit(r) /\ picked'[1] = r
    BY <1>3, <2>3, <2>8
  <2>10. TopsFit(picked[1])'
    BY <2>5, <2>6, <2>7, <2>9 DEF TopsFit
  <2>11. JobInv'
    BY <1>1, <1>2, <1>5, <2>1, <2>3, <2>5, <2>10 DEF JobInv
  <2> QED
    BY <1>1, <1>2, <2>1, <2>4, <2>11, CompilationReady DEF CompileInv, Busy
<1> QED
  BY <1>4, <1>5 DEF AutoCompiled

\* the probe tells which plain roots slang rejects;
LEMMA ProbeIsDone ==
  ASSUME TypeInv, RootsInv, CompileInv, ProbeCompiled
  PROVE  CompileInv'
<1>1. /\ pc = "load" /\ job.from = "probe" /\ rejected' = Invalid /\ PickTops(picked[1])
      /\ UNCHANGED <<design, files, request, settings, results, failed, worked>>
  BY DEF ProbeCompiled, Loaded
<1>2. /\ SettingsInv /\ Doing = {} /\ settings = {} /\ (request # {} \/ design.auto)
      /\ design.auto /\ job.tops = Plain(request) /\ Len(picked) = 1 /\ TopsFit(picked[1])
      /\ \A n \in Invalid : n \in job.tops /\ ~Takes(n, FALSE)
      /\ \A n \in job.tops : Takes(n, FALSE) \/ n \in Invalid
  BY <1>1, CompilationReady DEF JobInv
<1>3. PICK r \in ResultType : r = picked[1] /\ r \in ToSet(picked)
  BY <1>2, OnePicked
<1>4. Sound(r) /\ TopsFit(r) /\ PickTops(r)
  BY <1>1, <1>2, <1>3 DEF SettingsInv
<1>5. Plain(request) \subseteq RootNames
  BY <1>2, RootsComeFromOthers
<1>6. /\ \A n \in rejected' : n \in RootNames /\ ~Takes(n, FALSE)
      /\ \A n \in Plain(request) : ~Takes(n, FALSE) => n \in rejected'
  BY <1>1, <1>2, <1>5
<1>7. SettingsInv' /\ JobInv' /\ (pc' = "merge" => PlainInv') /\ pc' \in {"load", "merge"}
  BY <1>1, <1>2, <1>4, <1>6, PickingTops
<1> QED
  BY <1>1, <1>2, <1>7 DEF CompileInv, Busy

\* the tops that are left are compiled again;
LEMMA AgainIsDone ==
  ASSUME TypeInv, RootsInv, CompileInv, AgainCompiled
  PROVE  CompileInv'
<1>1. /\ pc = "load" /\ job.from = "again" /\ picked' = <<Result>> /\ pc' = "merge"
      /\ UNCHANGED <<design, files, request, settings, results, failed, worked, rejected>>
  BY DEF AgainCompiled, Loaded
<1>2. /\ SettingsInv /\ Doing = {} /\ settings = {} /\ design.auto /\ job.given = FALSE
      /\ Result \in ResultType /\ Sound(Result) /\ job.tops # {}
      /\ \A t \in job.tops : t \in SetElsewhere => t \in Plain(request)
      /\ \A n \in Plain(request) :
           IF Takes(n, FALSE) THEN n \in job.tops \/ Unreachable(n) ELSE n \in rejected
  BY <1>1, CompilationReady DEF JobInv
<1>3. PICK r \in ResultType : r = Result
  BY <1>2
<1>4. r.walk = Walk /\ r.insts = Instances(Walk)
  BY <1>3, ResultFits
<1>5. /\ \A s \in Tops : s[1] \in job.tops /\ s = <<s[1], FALSE>>
      /\ \A n \in job.tops : Takes(n, FALSE) => <<n, FALSE>> \in Tops
  <2>1. Tops = {t \in job.tops : Takes(t, FALSE)} \X {FALSE}
    BY <1>2 DEF Tops
  <2> QED
    BY <2>1, PairWith
<1>6. /\ UNCHANGED <<Wanted, AskedFor, RootNames, Plain(request), Required, SetElsewhere>>
      /\ \A n \in Names : Unreachable(n)' <=> Unreachable(n)
      /\ \A x \in ResultType : Justified(x)' <=> Justified(x)
  BY <1>1, WhatIsKept DEF TypeInv
<1>7. \A n \in Names : Takes(n, FALSE)' <=> Takes(n, FALSE)
  BY <1>1 DEF Takes, Defined
<1>8. /\ Plain(request) \subseteq Names /\ Required = {}
      /\ \A n \in Plain(request) : <<n, FALSE>> \in AskedFor
  BY <1>2, RootsComeFromOthers
<1>9. ToSet(picked') = {r}
  BY <1>1, <1>3 DEF ToSet
<1>10. SettingsInv'
  <2>1. Doing' = {}
    BY <1>1 DEF Doing
  <2> QED
    BY <1>1, <1>2, <1>3, <1>9, <2>1, OthersCompile
<1>11. Justified(r)
  <2> SUFFICES ASSUME NEW s \in r.walk, ~\E e \in r.insts : e[2] = s
               PROVE  s \in AskedFor \/ (design.auto /\ s[1] \notin SetElsewhere)
    BY DEF Justified
  <2>1. s \in Tops
    BY <1>4, WalkIsClosed
  <2>2. s[1] \in job.tops /\ s = <<s[1], FALSE>>
    BY <1>5, <2>1
  <2> QED
    BY <1>2, <1>8, <2>2
<1>12. \A n \in Plain(request) : Takes(n, FALSE) => Unreachable(n) \/ <<n, FALSE>> \in r.walk
  BY <1>2, <1>4, <1>5, WalkIsClosed
<1>13. PlainInv'
  <2>1. \A n \in Plain(request)' :
          IF Takes(n, FALSE)' THEN Unreachable(n)' \/ \E x \in ToSet(picked') : <<n, FALSE>> \in x.walk
          ELSE n \in rejected'
    BY <1>1, <1>2, <1>6, <1>7, <1>8, <1>9, <1>12
  <2> QED
    BY <1>6, <1>8, <1>9, <1>11, <2>1 DEF PlainInv
<1>14. JobInv'
  BY <1>1 DEF JobInv
<1> QED
  BY <1>1, <1>2, <1>10, <1>13, <1>14 DEF CompileInv, Busy

\* plain roots are compiled, without those rejected so far;
LEMMA PlainIsDone ==
  ASSUME TypeInv, RootsInv, CompileInv, PlainCompiled
  PROVE  CompileInv'
<1> DEFINE bad == Invalid \ Required
<1>1. /\ pc = "load" /\ job.from = "plain" /\ rejected' = rejected \union bad
      /\ UNCHANGED <<design, files, request, settings, results, failed, worked>>
  BY DEF PlainCompiled, Loaded
<1>2. \/ bad = {} /\ picked' = <<Result>> /\ pc' = "merge"
      \/ bad # {} /\ Plain(request) \ rejected' = {} /\ pc' = "merge" /\ picked' = picked
      \/ /\ bad # {} /\ Plain(request) \ rejected' # {} /\ picked' = picked
         /\ Compile(Plain(request) \ rejected', FALSE, TRUE, "plain")
  BY DEF PlainCompiled
<1>3. /\ SettingsInv /\ Doing = {} /\ settings = {} /\ ~design.auto /\ job.given = FALSE
      /\ (request # {} \/ design.auto)
      /\ Result \in ResultType /\ Sound(Result) /\ job.tops # {} /\ picked = <<>>
      /\ job.tops = Plain(request) \ rejected /\ rejected \intersect Required = {}
      /\ \A n \in Invalid : n \in job.tops /\ ~Takes(n, FALSE)
      /\ \A n \in job.tops : Takes(n, FALSE) \/ n \in Invalid
  BY <1>1, CompilationReady DEF JobInv
<1>4. PICK r \in ResultType : r = Result
  BY <1>3
<1>5. /\ r.walk = Walk /\ r.insts = Instances(Walk) /\ r.errors = Invalid
      /\ DOMAIN r.top_variant = {s[1] : s \in Tops}
      /\ \A t \in DOMAIN r.top_variant : r.top_variant[t] = FALSE
  BY <1>3, <1>4, ResultFits
<1>6. /\ \A s \in Tops : s[1] \in job.tops /\ s = <<s[1], FALSE>>
      /\ \A n \in job.tops : Takes(n, FALSE) => <<n, FALSE>> \in Tops
  <2>1. Tops = {t \in job.tops : Takes(t, FALSE)} \X {FALSE}
    BY <1>3 DEF Tops
  <2> QED
    BY <2>1, PairWith
<1>7. /\ UNCHANGED <<Wanted, AskedFor, RootNames, Plain(request), Required, SetElsewhere>>
      /\ \A n \in Names : Unreachable(n)' <=> Unreachable(n)
      /\ \A x \in ResultType : Justified(x)' <=> Justified(x)
  BY <1>1, WhatIsKept DEF TypeInv
<1>8. \A n \in Names : Takes(n, FALSE)' <=> Takes(n, FALSE)
  BY <1>1 DEF Takes, Defined
<1>9. /\ Plain(request) \subseteq RootNames \union Required /\ Plain(request) \subseteq Names
      /\ Required \subseteq Plain(request)
      /\ \A n \in Plain(request) : <<n, FALSE>> \in AskedFor
  <2>1. Plain(request) \subseteq Names
    BY DEF Plain, Roots, TypeInv
  <2> QED
    BY <2>1, RootsComeFromOthers
<1>10. Doing' = {} /\ pc' \in {"load", "merge"}
  BY <1>1, <1>2 DEF Doing, Compile
<1>11. /\ picked' = <<Result>> => ToSet(picked') = {r} /\ Len(picked') = 1 /\ picked'[1] = r
       /\ picked' = picked => ToSet(picked') = {}
  BY <1>3, <1>4 DEF ToSet
<1>12. bad \subseteq RootNames /\ \A n \in bad : ~Takes(n, FALSE)
  BY <1>3, <1>9
<1> HIDE DEF bad
<1>13. SettingsInv'
  <2>1. picked' = <<Result>> \/ picked' = picked
    BY <1>2
  <2>2. \A x \in ToSet(picked') : x = r
    BY <1>11, <2>1
  <2> QED
    BY <1>1, <1>3, <1>4, <1>10, <1>12, <2>2, OthersCompile
<1>14. \A n \in rejected' : ~Takes(n, FALSE)
  BY <1>1, <1>3, <1>12 DEF SettingsInv
<1>15. JobInv'
  <2>1. CASE pc' = "merge"
    BY <2>1 DEF JobInv
  <2>2. CASE /\ Plain(request) \ rejected' # {} /\ picked' = picked
             /\ Compile(Plain(request) \ rejected', FALSE, TRUE, "plain")
    <3>1. rejected' \intersect Required = {}
      BY <1>1, <1>3 DEF bad
    <3> QED
      BY <1>1, <1>3, <1>7, <2>2, <3>1 DEF JobInv, Compile
  <2> QED
    BY <1>2, <2>1, <2>2
<1>16. ASSUME pc' = "merge"
       PROVE  PlainInv'
  <2>1. CASE bad = {} /\ picked' = <<Result>>
    <3>1. ASSUME NEW n \in Plain(request), Takes(n, FALSE)
          PROVE  <<n, FALSE>> \in r.walk /\ n \in DOMAIN r.top_variant
      <4>1. n \in job.tops
        BY <1>3, <3>1 DEF SettingsInv
      <4>2. <<n, FALSE>> \in Tops /\ <<n, FALSE>>[1] = n
        BY <1>6, <3>1, <4>1
      <4> QED
        BY <1>5, <4>2, WalkIsClosed
    <3>2. \A n \in Plain(request) : ~Takes(n, FALSE) => n \in rejected \/ n \in r.errors
      BY <1>3, <1>5
    <3>3. Justified(r)
      <4> SUFFICES ASSUME NEW s \in r.walk, ~\E e \in r.insts : e[2] = s
                   PROVE  s \in AskedFor
        BY DEF Justified
      <4>1. s \in Tops
        BY <1>5, WalkIsClosed
      <4>2. s[1] \in job.tops /\ s = <<s[1], FALSE>>
        BY <1>6, <4>1
      <4> QED
        BY <1>3, <1>9, <4>2
    <3>4. \A n \in Plain(request)' :
            IF Takes(n, FALSE)' THEN Unreachable(n)' \/ \E x \in ToSet(picked') : <<n, FALSE>> \in x.walk
            ELSE n \in rejected' \/ \E x \in ToSet(picked') : n \in x.errors
      BY <1>1, <1>7, <1>8, <1>9, <1>11, <2>1, <3>1, <3>2
    <3>5. \A n \in Required' :
            Takes(n, FALSE)' => /\ Len(picked') = 1 /\ n \in DOMAIN picked'[1].top_variant
                                /\ picked'[1].top_variant[n] = FALSE
      BY <1>5, <1>7, <1>8, <1>9, <1>11, <2>1, <3>1
    <3>6. \A x \in ToSet(picked') : Justified(x)'
      BY <1>7, <1>11, <2>1, <3>3
    <3> QED
      BY <3>4, <3>5, <3>6 DEF PlainInv
  <2>2. CASE Plain(request) \ rejected' = {} /\ picked' = picked
    <3>1. \A n \in Plain(request) : n \in rejected' /\ ~Takes(n, FALSE)
      BY <1>14, <2>2
    <3> QED
      BY <1>7, <1>8, <1>9, <1>11, <2>2, <3>1 DEF PlainInv
  <2> QED
    BY <1>2, <1>16, <2>1, <2>2 DEF Compile
<1> QED
  BY <1>1, <1>3, <1>10, <1>13, <1>15, <1>16 DEF CompileInv, Busy

\* The files, without what elaborating found: nothing was left to compile.
LEMMA NothingIsLeft ==
  ASSUME TypeInv, RootsInv, CompileInv, NothingLeft
  PROVE  CompileInv'
<1>1. /\ pc = "merge" /\ Ordered = <<>> /\ pc' = "load"
      /\ job' = [tops |-> {}, given |-> FALSE, library |-> FALSE, from |-> "nothing"]
      /\ UNCHANGED <<design, files, request, settings, results, failed, worked, picked, rejected>>
  BY DEF NothingLeft, Compile, compileVars
<1>2. SettingsInv /\ JobInv /\ (request # {} \/ design.auto) /\ PlainInv
  BY <1>1 DEF CompileInv, Busy
<1>3. Doing = {} /\ Doing' = {} /\ settings = {}
  BY <1>1, <1>2 DEF Doing, SettingsInv
<1>4. picked = <<>> /\ results = <<>>
  <2>1. picked \in Seq(ResultType) /\ results \in Seq(ResultType)
    BY DEF TypeInv
  <2> QED
    BY <1>1, <2>1 DEF Ordered
<1>5. ToSet(picked) = {}
  BY <1>4 DEF ToSet
<1>6. SettingsInv'
  <2>1. \A x \in ToSet(picked') : FALSE
    BY <1>1, <1>5
  <2> QED
    BY <1>1, <1>2, <1>3, <2>1, OthersCompile DEF SettingsInv
<1>7. /\ UNCHANGED <<Plain(request), Required>>
      /\ \A n \in Names : Unreachable(n)' <=> Unreachable(n)
  BY <1>1, WhatIsKept DEF TypeInv
<1>8. \A n \in Names : Takes(n, FALSE)' <=> Takes(n, FALSE)
  BY <1>1 DEF Takes, Defined
<1>9. Plain(request) \subseteq Names /\ Required \subseteq Plain(request)
  <2>1. Plain(request) \subseteq Names
    BY DEF Plain, Roots, TypeInv
  <2> QED
    BY <2>1, RootsComeFromOthers
<1>10. PlainInv'
  BY <1>1, <1>2, <1>4, <1>5, <1>7, <1>8, <1>9 DEF PlainInv
<1>11. JobInv'
  BY <1>1, <1>4, <1>10 DEF JobInv
<1> QED
  BY <1>1, <1>2, <1>6, <1>11 DEF CompileInv, Busy

\* and so every step keeps CompileInv.
LEMMA StepsKeepCompileInv ==
  ASSUME TypeInv, RootsInv, CompileInv, [Next]_vars, TypeInv', RootsInv'
  PROVE  CompileInv'
<1>1. CASE ListUnits \/ Provide \/ ElaborateNothing
  <2>1. ~Busy /\ ~Busy' /\ pc # "merge" /\ pc' # "merge"
    BY <1>1 DEF ListUnits, Provide, ElaborateNothing, Call, Idle, Busy
  <2>2. UNCHANGED <<settings, results, failed, worked, picked, rejected>>
    BY <1>1 DEF ListUnits, Provide, ElaborateNothing, compileVars
  <2> QED
    BY <2>1, <2>2 DEF CompileInv
<1>2. CASE DropResolved
  <2>1. ~Busy /\ ~Busy' /\ pc # "merge" /\ pc' # "merge"
    BY <1>2 DEF DropResolved, Busy
  <2>2. UNCHANGED <<settings, results, failed, worked, picked, rejected>>
    BY <1>2 DEF DropResolved, compileVars
  <2> QED
    BY <2>1, <2>2 DEF CompileInv
<1>3. CASE Elaborate
  BY <1>3, ElaborateStarts
<1>4. CASE CompileSetting
  BY <1>4, CompilingStarts
<1>5. CASE AfterSettings
  BY <1>5, AfterSettingsGoesOn
<1>6. CASE Pull
  BY <1>6, PullingKeepsCompileInv
<1>7. CASE SettingCompiled
  BY <1>7, SettingIsDone
<1>8. CASE AutoCompiled
  BY <1>8, AutomaticIsDone
<1>9. CASE ProbeCompiled
  BY <1>9, ProbeIsDone
<1>10. CASE AgainCompiled
  BY <1>10, AgainIsDone
<1>11. CASE PlainCompiled
  BY <1>11, PlainIsDone
<1>12. CASE NothingLeft
  BY <1>12, NothingIsLeft
<1>13. CASE MergeResults \/ ReturnNothing
  <2>1. /\ pc' = "returned" /\ settings' = {} /\ results' = <<>> /\ failed' = {} /\ worked' = {}
        /\ picked' = <<>> /\ rejected' = {}
    BY <1>13 DEF MergeResults, ReturnNothing, Return
  <2> QED
    BY <2>1 DEF CompileInv, Busy
<1>14. CASE UNCHANGED vars
  <2>1. UNCHANGED <<design, files, pc, request, job, settings, results, failed, worked, picked, rejected>>
    BY <1>14 DEF vars, compileVars
  <2>2. CASE ~Busy
    BY <2>1, <2>2 DEF CompileInv, Busy
  <2>3. CASE Busy
    <3>1. SettingsInv /\ JobInv /\ (request # {} \/ design.auto) /\ (pc = "merge" => PlainInv)
      BY <2>3 DEF CompileInv
    <3>2. /\ UNCHANGED <<Wanted, AskedFor, Plain(request), Required, SetElsewhere>>
          /\ \A n \in Names : Unreachable(n)' <=> Unreachable(n)
          /\ \A x \in ResultType : Justified(x)' <=> Justified(x)
      BY <2>1, WhatIsKept DEF TypeInv
    <3>3. \A n \in Names : Takes(n, FALSE)' <=> Takes(n, FALSE)
      BY <2>1 DEF Takes, Defined
    <3>4. Plain(request) \subseteq Names /\ Required \subseteq Plain(request)
      <4>1. Plain(request) \subseteq Names
        BY DEF Plain, Roots, TypeInv
      <4> QED
        BY <4>1, RootsComeFromOthers
    <3>5. Doing' = Doing /\ ToSet(picked') = ToSet(picked) /\ ToSet(picked) \subseteq ResultType
      BY <2>1, ElementsOf DEF Doing, TypeInv
    <3>6. SettingsInv'
      <4>1. /\ files \subseteq files' /\ files' \subseteq Names
            /\ (settings \union Doing)' = settings \union Doing
        BY <2>1, <3>5 DEF TypeInv
      <4>2. pc' # "settings" /\ Doing' = {} => settings' = {}
        BY <2>1, <3>1, <3>5 DEF SettingsInv
      <4> QED
        BY <2>1, <3>1, <3>5, <4>1, <4>2, SettingsStayDone
    <3>7. PlainInv => PlainInv'
      <4>1. picked' = picked /\ rejected' = rejected
        BY <2>1
      <4> QED
        BY <3>2, <3>3, <3>4, <3>5, <4>1 DEF PlainInv
    <3>8. TopsFit(picked[1])' <=> TopsFit(picked[1])
      <4>1. picked'[1] = picked[1]
        BY <2>1
      <4> QED
        BY <3>2, <3>3, <3>4, <4>1 DEF TopsFit
    <3>9. JobInv'
      BY <2>1, <3>1, <3>2, <3>3, <3>4, <3>7, <3>8 DEF JobInv
    <3> QED
      BY <2>1, <3>1, <3>6, <3>7, <3>9 DEF CompileInv, Busy
  <2> QED
    BY <2>2, <2>3
<1> QED
  BY <1>1, <1>2, <1>3, <1>4, <1>5, <1>6, <1>7, <1>8, <1>9, <1>10, <1>11, <1>12, <1>13, <1>14
     DEF Next, Finished

-----------------------------------------------------------------------------
(* What elaborate returns. *)

FragmentInv ==
  /\ IsResult(fragment)
  /\ RootsAreAnswered
  /\ NothingUnasked

\* m stands for what elaborate returns: everything compiled, together.
Together(m) ==
  /\ m \in ResultType /\ m.loaded \subseteq files
  /\ RootNames \subseteq m.loaded
  /\ \A r \in Compiled : r.loaded \subseteq m.loaded
  /\ m.walk = UNION {r.walk : r \in Compiled}
  /\ m.insts = UNION {r.insts : r \in Compiled}
  /\ \A r \in Compiled : r.errors \subseteq m.errors
  /\ m.missing = UNION {r.missing : r \in Compiled}
  /\ m.needed = UNION {r.needed : r \in Compiled}
  /\ DOMAIN m.top_variant = UNION {DOMAIN r.top_variant : r \in Compiled}
  /\ Len(picked) = 1 =>
       \A t \in DOMAIN picked[1].top_variant : m.top_variant[t] = picked[1].top_variant[t]

\* What is there when elaborate is about to return.
LEMMA AllOfIt ==
  ASSUME TypeInv, RootsInv, CompileInv,
         pc = "merge" \/ (pc = "load" /\ job.from = "nothing")
  PROVE  /\ SettingsInv /\ PlainInv /\ settings = {} /\ Doing = {}
         /\ \A r \in Compiled : r \in ResultType /\ Sound(r) /\ Justified(r)
         /\ \A r \in ToSet(picked) \union ToSet(results) : r \in Compiled
         /\ pc = "load" => picked = <<>> /\ Compiled = {} /\ job.tops = {}
<1>1. SettingsInv /\ JobInv
  BY DEF CompileInv, Busy
<1>2. PlainInv /\ (pc = "load" => picked = <<>> /\ results = <<>> /\ job.tops = {})
  BY <1>1 DEF CompileInv, JobInv
<1>3. settings = {} /\ Doing = {}
  BY <1>1 DEF SettingsInv, Doing
<1>4. ToSet(<<>>) = {}
  BY DEF ToSet
<1>5. ToSet(picked) \subseteq ResultType /\ ToSet(results) \subseteq ResultType
  BY ElementsOf DEF TypeInv
<1> QED
  BY <1>1, <1>2, <1>3, <1>4, <1>5 DEF Compiled, SettingsInv, PlainInv

\* elaborate returns everything compiled: the merged results,
LEMMA MergedIsTogether ==
  ASSUME TypeInv, RootsInv, CompileInv, MergeResults
  PROVE  \E m : Together(m) /\ Return(m)
<1>1. PICK m : m = Merged(Ordered)
  OBVIOUS
<1>2. pc = "merge" /\ Ordered # <<>> /\ Return(m)
  BY <1>1 DEF MergeResults
<1>3. \A r \in Compiled : r.loaded \subseteq files /\ RootNames \subseteq r.loaded
  BY <1>2, AllOfIt DEF Sound, IsResult
<1>4. Together(m)
  BY <1>1, <1>2, <1>3, MergedFits DEF Together
<1> QED
  BY <1>2, <1>4

\* or nothing if there are none.
LEMMA NothingIsTogether ==
  ASSUME TypeInv, RootsInv, CompileInv, ReturnNothing
  PROVE  \E m : Together(m) /\ Return(m)
<1>1. pc = "load" /\ job.from = "nothing" /\ Return(NothingElaborated)
  BY DEF ReturnNothing, Loaded
<1>2. Compiled = {} /\ picked = <<>> /\ Len(picked) = 0
  BY <1>1, AllOfIt
<1>3. RootNames \subseteq files
  BY DEF RootsInv, Defined
<1>4. DOMAIN NothingElaborated.top_variant = {}
  BY NothingHasTypes
<1>5. Together(NothingElaborated)
  BY <1>2, <1>3, <1>4, NothingHasTypes DEF Together
<1> QED
  BY <1>1, <1>5

\* If it returns everything compiled, the theorems hold of it.
LEMMA ReturningAnswers ==
  ASSUME TypeInv, RootsInv, CompileInv,
         pc = "merge" \/ (pc = "load" /\ job.from = "nothing"),
         NEW m, Together(m), Return(m)
  PROVE  FragmentInv'
<1>1. /\ SettingsInv /\ PlainInv /\ settings = {} /\ Doing = {}
      /\ \A r \in Compiled : r \in ResultType /\ Sound(r) /\ Justified(r)
      /\ \A r \in ToSet(picked) \union ToSet(results) : r \in Compiled
  BY AllOfIt
<1>2. /\ fragment'.loaded = m.loaded /\ fragment'.walk = m.walk /\ fragment'.insts = m.insts
      /\ fragment'.top_variant = m.top_variant /\ fragment'.missing = m.missing
      /\ fragment'.errors = m.errors /\ fragment'.rejected = Rejected
      /\ fragment'.needed =
           IF design.auto THEN m.loaded ELSE m.needed \union (Rejected \intersect units'.names)
  BY DEF Return
<1>3. UNCHANGED <<design, files, request>> /\ Defined' = Defined
  BY DEF Return, Defined
<1>4. \A n \in Rejected : n \in RootNames /\ ~Takes(n, FALSE) /\ n \notin worked
  BY <1>1 DEF Rejected, SettingsInv
<1>5. \A n \in failed \union rejected : n \in Rejected \/ n \in worked
  BY DEF Rejected
<1>6. \A n \in worked : \E g \in BOOLEAN : <<n, g>> \in m.walk
  BY <1>1 DEF SettingsInv, Together
<1>7. \A n \in Names : \A g \in BOOLEAN : (Takes(n, g)' <=> Takes(n, g)) /\ (Unreachable(n)' <=> Unreachable(n))
  BY <1>3 DEF Takes, Unreachable
<1>8. \A r \in request : r.name \in Names /\ Given(r) \in BOOLEAN /\ Given(r)' = Given(r)
  BY <1>3 DEF Given, TypeInv, Roots
<1>9. ASSUME NEW r \in request
      PROVE  IF Takes(r.name, Given(r))
             THEN /\ <<r.name, Given(r)>> \in m.walk \/ (~Given(r) /\ Unreachable(r.name))
                  /\ r.name \notin Rejected
             ELSE \/ r.name \in Rejected \union m.errors
                  \/ \E g \in BOOLEAN : <<r.name, g>> \in m.walk
  <2>1. CASE r.generics # "none"
    <3>1. <<r.name, Given(r)>> \in Wanted \ (settings \union Doing)
      BY <1>1, <2>1 DEF Wanted, WithValues
    <3>2. IF Takes(r.name, Given(r))
          THEN r.name \in worked /\ \E x \in ToSet(results) : <<r.name, Given(r)>> \in x.walk
          ELSE r.name \in failed
      <4>1. <<r.name, Given(r)>>[1] = r.name /\ <<r.name, Given(r)>>[2] = Given(r)
        OBVIOUS
      <4> DEFINE s == <<r.name, Given(r)>>
      <4>2. IF Takes(s[1], s[2]) THEN s[1] \in worked /\ \E x \in ToSet(results) : s \in x.walk
            ELSE s[1] \in failed
        BY <1>1, <3>1 DEF SettingsInv
      <4> QED
        BY <4>1, <4>2
    <3>3. CASE Takes(r.name, Given(r))
      BY <1>1, <1>4, <3>2, <3>3 DEF Together
    <3>4. CASE ~Takes(r.name, Given(r))
      BY <1>5, <1>6, <3>2, <3>4
    <3> QED
      BY <3>3, <3>4
  <2>2. CASE r.generics = "none"
    <3>1. Given(r) = FALSE /\ r.name \in Plain(request)
      BY <2>2 DEF Given, Plain
    <3>2. CASE Takes(r.name, FALSE)
      <4>1. Unreachable(r.name) \/ \E x \in ToSet(picked) : <<r.name, FALSE>> \in x.walk
        BY <1>1, <3>1, <3>2 DEF PlainInv
      <4>2. Unreachable(r.name) \/ <<r.name, FALSE>> \in m.walk
        BY <1>1, <4>1 DEF Together
      <4> QED
        BY <1>4, <3>1, <3>2, <4>2
    <3>3. CASE ~Takes(r.name, FALSE)
      <4>1. r.name \in rejected \/ \E x \in ToSet(picked) : r.name \in x.errors
        BY <1>1, <3>1, <3>3 DEF PlainInv
      <4>2. r.name \in rejected \/ r.name \in m.errors
        BY <1>1, <4>1 DEF Together
      <4> QED
        BY <1>5, <1>6, <3>1, <3>3, <4>2
    <3> QED
      BY <3>1, <3>2, <3>3
  <2> QED
    BY <2>1, <2>2
<1>10. {s[1] : s \in m.walk} \subseteq fragment'.needed
  <2> SUFFICES ASSUME NEW r \in Compiled, NEW s \in r.walk
               PROVE  s[1] \in fragment'.needed
    BY <1>1 DEF Together
  <2>1. s[1] \in m.loaded
    BY <1>1 DEF Sound, IsResult, Together
  <2>2. ~design.auto => s[1] \in m.needed
    BY <1>1 DEF Sound, Together
  <2> QED
    BY <1>2, <2>1, <2>2
<1>11. Rejected \intersect Defined \subseteq fragment'.needed
  <2>1. CASE design.auto
    BY <1>2, <1>4, <2>1 DEF Together
  <2>2. CASE ~design.auto
    <3> SUFFICES ASSUME NEW n \in Rejected, n \in Defined
                 PROVE  n \in units'.names
      BY <1>2, <2>2
    <3>1. ReadUnits
      BY <2>2 DEF Return
    <3> QED
      BY <1>4, <3>1 DEF ReadUnits, RootsInv
  <2> QED
    BY <2>1, <2>2
<1>12. \A r \in request : r.requested /\ Takes(r.name, FALSE) => m.top_variant[r.name] = FALSE
  <2> SUFFICES ASSUME NEW r \in request, r.requested, Takes(r.name, FALSE)
               PROVE  m.top_variant[r.name] = FALSE
    OBVIOUS
  <2>1. r.name \in Required
    BY DEF Required
  <2>2. /\ Len(picked) = 1 /\ r.name \in DOMAIN picked[1].top_variant
        /\ picked[1].top_variant[r.name] = FALSE
    BY <1>1, <2>1 DEF PlainInv
  <2> QED
    BY <2>2 DEF Together
<1>13. RootsAreAnswered'
  <2>1. ASSUME NEW r \in request'
        PROVE  IF Takes(r.name, Given(r))'
               THEN /\ <<r.name, Given(r)'>> \in fragment'.walk \/ (~Given(r)' /\ Unreachable(r.name)')
                    /\ r.name \notin fragment'.rejected
               ELSE \/ r.name \in fragment'.rejected \union fragment'.errors
                    \/ \E g \in BOOLEAN : <<r.name, g>> \in fragment'.walk
    <3>1. r \in request /\ Given(r)' = Given(r) /\ Given(r) \in BOOLEAN /\ r.name \in Names
      BY <1>3, <1>8
    <3>2. Takes(r.name, Given(r))' <=> Takes(r.name, Given(r))
      BY <1>3, <3>1 DEF Takes
    <3>3. Unreachable(r.name)' <=> Unreachable(r.name)
      BY <1>7, <3>1
    <3> QED
      BY <1>2, <1>9, <3>1, <3>2, <3>3
  <2>2. {s[1] : s \in fragment'.walk} \union (fragment'.rejected \intersect Defined') \subseteq fragment'.needed
    BY <1>2, <1>3, <1>10, <1>11
  <2>3. \A r \in request' : r.requested /\ Takes(r.name, FALSE)' => fragment'.top_variant[r.name] = FALSE
    BY <1>2, <1>3, <1>7, <1>8, <1>12
  <2> QED
    BY <2>1, <2>2, <2>3 DEF RootsAreAnswered
<1>14. NothingUnasked'
  <2>1. SetElsewhere' = SetElsewhere
    BY <1>3 DEF SetElsewhere, WithValues
  <2>2. ASSUME NEW s \in m.walk
        PROVE  \/ \E r \in request : s = <<r.name, Given(r)>>
               \/ \E e \in m.insts : e[2] = s
               \/ design.auto /\ s[1] \notin SetElsewhere
    <3>1. PICK r \in Compiled : s \in r.walk
      BY DEF Together
    <3>2. s \in AskedFor \/ (\E e \in r.insts : e[2] = s) \/ (design.auto /\ s[1] \notin SetElsewhere)
      BY <1>1, <3>1 DEF Justified
    <3>3. r.insts \subseteq m.insts
      BY DEF Together
    <3> QED
      BY <3>2, <3>3 DEF AskedFor
  <2>3. ASSUME NEW s \in fragment'.walk
        PROVE  \/ \E r \in request' : s = <<r.name, Given(r)'>>
               \/ \E e \in fragment'.insts : e[2] = s
               \/ design'.auto /\ s[1] \notin SetElsewhere'
    BY <1>2, <1>3, <1>8, <2>1, <2>2
  <2> QED
    BY <2>3 DEF NothingUnasked
<1>15. IsResult(fragment)'
  <2>1. /\ m.walk \subseteq Settings /\ m.insts \subseteq m.walk \X Settings
        /\ {s[1] : s \in m.walk} \subseteq m.loaded
    BY <1>1 DEF Together, Sound, IsResult
  <2>2. DOMAIN m.top_variant \subseteq m.loaded /\ m.needed \subseteq m.loaded
    BY <1>1 DEF Together, Sound, IsResult
  <2>3. fragment'.needed \subseteq m.loaded
    BY <1>2, <1>4, <2>2 DEF Together
  <2> QED
    BY <1>2, <1>3, <2>1, <2>2, <2>3 DEF Together, IsResult
<1> QED
  BY <1>13, <1>14, <1>15 DEF FragmentInv

\* They go on to hold of it until the next call.
LEMMA StepsKeepFragments ==
  ASSUME TypeInv, RootsInv, CompileInv, FragmentInv, [Next]_vars, TypeInv'
  PROVE  FragmentInv'
<1>1. ASSUME UNCHANGED fragment, files \subseteq files', pc' # "returned"
      PROVE  FragmentInv'
  BY <1>1 DEF FragmentInv, IsResult, RootsAreAnswered, NothingUnasked
<1>2. CASE Provide
  BY <1>1, <1>2 DEF Provide
<1>3. CASE Elaborate
  BY <1>1, <1>3 DEF Elaborate
<1>4. CASE CompileSetting \/ AfterSettings
  BY <1>1, <1>4 DEF CompileSetting, AfterSettings, Compile
<1>5. CASE Pull
  BY <1>1, <1>5 DEF Pull
<1>6. CASE SettingCompiled \/ AgainCompiled \/ PlainCompiled \/ NothingLeft
  BY <1>1, <1>6 DEF SettingCompiled, AgainCompiled, PlainCompiled, NothingLeft, Compile
<1>7. CASE AutoCompiled \/ ProbeCompiled
  <2>1. UNCHANGED <<fragment, files>> /\ pc = "load"
    BY <1>7 DEF AutoCompiled, ProbeCompiled, Loaded
  <2>2. pc' # "returned"
    BY <1>7 DEF AutoCompiled, ProbeCompiled, PickTops, Compile
  <2> QED
    BY <1>1, <2>1, <2>2
<1>8. CASE ElaborateNothing
  <2>1. pc' # "returned" /\ fragment' = NoFragment
    BY <1>8 DEF ElaborateNothing
  <2>2. IsResult(fragment)'
    BY <2>1 DEF IsResult, NoFragment
  <2> QED
    BY <2>1, <2>2 DEF FragmentInv, RootsAreAnswered, NothingUnasked
<1>9. CASE DropResolved
  <2>1. pc' # "returned" /\ files' = files
    BY <1>9 DEF DropResolved
  <2>2. /\ fragment'.walk = fragment.walk /\ fragment'.insts = fragment.insts
        /\ fragment'.loaded = fragment.loaded /\ fragment'.needed = fragment.needed
        /\ fragment'.top_variant = fragment.top_variant
    BY <1>9 DEF DropResolved, TypeInv, FragmentType
  <2> QED
    BY <2>1, <2>2 DEF FragmentInv, IsResult, RootsAreAnswered, NothingUnasked
<1>10. CASE MergeResults
  <2>1. PICK m : Together(m) /\ Return(m)
    BY <1>10, MergedIsTogether
  <2>2. pc = "merge"
    BY <1>10 DEF MergeResults
  <2> QED
    BY <2>1, <2>2, ReturningAnswers
<1>11. CASE ReturnNothing
  <2>1. PICK m : Together(m) /\ Return(m)
    BY <1>11, NothingIsTogether
  <2>2. pc = "load" /\ job.from = "nothing"
    BY <1>11 DEF ReturnNothing, Loaded
  <2> QED
    BY <2>1, <2>2, ReturningAnswers
<1>12. CASE ListUnits \/ UNCHANGED vars
  <2>1. UNCHANGED <<design, files, request, pc, fragment>>
    BY <1>12 DEF ListUnits, vars
  <2>2. /\ \A n \in Names : \A g \in BOOLEAN : (Takes(n, g)' <=> Takes(n, g)) /\ (Unreachable(n)' <=> Unreachable(n))
        /\ \A r \in request : r.name \in Names /\ Given(r) \in BOOLEAN /\ Given(r)' = Given(r)
        /\ Defined' = Defined /\ SetElsewhere' = SetElsewhere
    BY <2>1 DEF Takes, Unreachable, Given, Defined, SetElsewhere, WithValues, TypeInv, Roots
  <2>3. IsResult(fragment)'
    BY <2>1 DEF FragmentInv, IsResult
  <2>4. NothingUnasked'
    BY <2>1, <2>2 DEF FragmentInv, NothingUnasked
  <2>5. ASSUME pc = "returned", NEW r \in request
        PROVE  IF Takes(r.name, Given(r))'
               THEN /\ <<r.name, Given(r)'>> \in fragment'.walk \/ (~Given(r)' /\ Unreachable(r.name)')
                    /\ r.name \notin fragment'.rejected
               ELSE \/ r.name \in fragment'.rejected \union fragment'.errors
                    \/ \E g \in BOOLEAN : <<r.name, g>> \in fragment'.walk
    <3>1. Takes(r.name, Given(r))' <=> Takes(r.name, Given(r))
      BY <2>1, <2>2 DEF Takes
    <3>2. IF Takes(r.name, Given(r))
          THEN /\ <<r.name, Given(r)>> \in fragment.walk \/ (~Given(r) /\ Unreachable(r.name))
               /\ r.name \notin fragment.rejected
          ELSE \/ r.name \in fragment.rejected \union fragment.errors
               \/ \E g \in BOOLEAN : <<r.name, g>> \in fragment.walk
      BY <2>5 DEF FragmentInv, RootsAreAnswered
    <3> QED
      BY <2>1, <2>2, <3>1, <3>2
  <2>6. RootsAreAnswered'
    <3>1. pc = "returned" =>
            {s[1] : s \in fragment.walk} \union (fragment.rejected \intersect Defined) \subseteq fragment.needed
      BY DEF FragmentInv, RootsAreAnswered
    <3>2. pc = "returned" =>
            \A r \in request : r.requested /\ Takes(r.name, FALSE) => fragment.top_variant[r.name] = FALSE
      BY DEF FragmentInv, RootsAreAnswered
    <3> QED
      BY <2>1, <2>2, <2>5, <3>1, <3>2 DEF RootsAreAnswered
  <2> QED
    BY <2>3, <2>4, <2>6 DEF FragmentInv
<1> QED
  BY <1>2, <1>3, <1>4, <1>5, <1>6, <1>7, <1>8, <1>9, <1>10, <1>11, <1>12 DEF Next, Finished

\* At the start there is nothing to answer.
LEMMA InitAnswers == Init => TypeInv /\ RootsInv /\ CompileInv /\ FragmentInv
<1> SUFFICES ASSUME Init
             PROVE  RootsInv /\ CompileInv /\ FragmentInv
  BY InitHasTypes
<1>1. TypeInv
  BY InitHasTypes
<1>2. RootsInv
  <2>1. \A r \in request : r.requested /\ r.generics = "none" /\ r.name \in design.tops
    BY DEF Init
  <2>2. RootNames = {}
    BY <2>1 DEF RootNames
  <2>3. units = [read |-> FALSE, names |-> {}]
    BY DEF Init, NotRead
  <2> QED
    BY <2>1, <2>2, <2>3 DEF RootsInv
<1>3. CompileInv
  BY DEF Init, CompileInv, Busy
<1>4. IsResult(fragment)
  BY DEF Init, IsResult, NoFragment
<1>5. FragmentInv
  BY <1>4 DEF Init, FragmentInv, RootsAreAnswered, NothingUnasked
<1> QED
  BY <1>2, <1>3, <1>5

\* The inductive invariant.
LEMMA Invariant == Spec => [](TypeInv /\ RootsInv /\ CompileInv /\ FragmentInv)
<1>1. Init => TypeInv /\ RootsInv /\ CompileInv /\ FragmentInv
  BY InitAnswers
<1>2. TypeInv /\ RootsInv /\ CompileInv /\ FragmentInv /\ [Next]_vars
        => (TypeInv /\ RootsInv /\ CompileInv /\ FragmentInv)'
  <2> SUFFICES ASSUME TypeInv, RootsInv, CompileInv, FragmentInv, [Next]_vars
               PROVE  TypeInv' /\ RootsInv' /\ CompileInv' /\ FragmentInv'
    OBVIOUS
  <2>1. TypeInv'
    BY StepsKeepTypes
  <2>2. RootsInv'
    BY StepsKeepRoots
  <2>3. CompileInv'
    BY <2>1, <2>2, StepsKeepCompileInv
  <2>4. FragmentInv'
    BY <2>1, StepsKeepFragments
  <2> QED
    BY <2>1, <2>2, <2>3, <2>4
<1> QED
  BY <1>1, <1>2, PTL DEF Spec

\* Types, and results that only have what was loaded.
THEOREM TypeCorrect == Spec => []TypeOK
<1>1. TypeInv /\ RootsInv /\ CompileInv /\ FragmentInv => TypeOK
  <2> SUFFICES ASSUME TypeInv, RootsInv, CompileInv, FragmentInv
               PROVE  TypeOK
    OBVIOUS
  <2>1. design \in DesignType
    BY SlangAssumption DEF SlangAssumption, TypeInv
  <2>2. units.names \subseteq files
    BY DEF RootsInv, Defined
  <2>3. job.tops \subseteq Names /\ fragment.rejected \subseteq Names
    BY DEF TypeInv, FragmentType
  <2>4. picked \in Seq(ResultType) /\ results \in Seq(ResultType)
    BY DEF TypeInv
  <2>5. ASSUME NEW i \in DOMAIN Ordered
        PROVE  IsResult(Ordered[i])
    <3>1. Ordered[i] \in ToSet(Ordered)
      BY DEF ToSet
    <3>2. Ordered[i] \in ToSet(picked) \union ToSet(results)
      BY <2>4, <3>1, ElementsOf DEF Ordered
    <3>3. CASE Busy
      BY <3>2, <3>3 DEF CompileInv, SettingsInv, Sound
    <3>4. CASE ~Busy
      <4>1. picked = <<>> /\ results = <<>>
        BY <3>4 DEF CompileInv
      <4>2. ToSet(picked) = {} /\ ToSet(results) = {}
        BY <4>1 DEF ToSet
      <4> QED
        BY <3>2, <4>2
    <3> QED
      BY <3>3, <3>4
  <2>6. IsResult(fragment)
    BY DEF FragmentInv
  <2> QED
    BY <2>1, <2>2, <2>3, <2>5, <2>6 DEF TypeInv, TypeOK
<1> QED
  BY <1>1, Invariant, PTL

\* Each root is in what elaborate returns, in its setting, or the user is told, however
\* many compilations failed or were repeated on the way (elaborate, _elaborate_settings,
\* _elaborate_auto and _elaborate_plain).
THEOREM RootsAlwaysAnswered == Spec => []RootsAreAnswered
<1>1. FragmentInv => RootsAreAnswered
  BY DEF FragmentInv
<1> QED
  BY <1>1, Invariant, PTL

\* No setting is in what elaborate returns unless a root asks for it, something that is
\* there instantiates it, or slang's own tops do (_elaborate_auto, _nothing_elaborated).
THEOREM NothingIsUnasked == Spec => []NothingUnasked
<1>1. FragmentInv => NothingUnasked
  BY DEF FragmentInv
<1> QED
  BY <1>1, Invariant, PTL

-----------------------------------------------------------------------------
(* Pulling in files from -y. *)

\* With finitely many names, what was pulled can be counted.
LEMMA PulledIsNumber ==
  ASSUME IsFiniteSet(Names), TypeInv
  PROVE  Pulled \in Nat
<1>1. IsFiniteSet(files \ design.src) /\ IsFiniteSet(inc_dirs)
  <2>1. files \ design.src \subseteq Names /\ inc_dirs \subseteq Names
    BY DEF TypeInv
  <2> QED
    BY <2>1, FS_Subset
<1> QED
  BY <1>1, FS_CardinalityType DEF Pulled

\* What was pulled only grows, with each file and each header.
LEMMA MoreIsPulled ==
  ASSUME IsFiniteSet(Names), TypeInv, TypeInv',
         UNCHANGED design, files \subseteq files', inc_dirs \subseteq inc_dirs'
  PROVE  /\ Pulled \in Nat /\ Pulled' \in Nat /\ Pulled <= Pulled'
         /\ files' # files \/ inc_dirs' # inc_dirs => Pulled < Pulled'
         /\ Limit => Limit'
         /\ \A r \in ResultType \union FragmentType : Complete(r) => Complete(r)'
<1> DEFINE F == files \ design.src
           G == files' \ design.src
<1>1. F \subseteq G /\ G \subseteq Names /\ inc_dirs \subseteq inc_dirs' /\ inc_dirs' \subseteq Names
  BY DEF TypeInv
<1>2. IsFiniteSet(G) /\ IsFiniteSet(inc_dirs') /\ IsFiniteSet(F) /\ IsFiniteSet(inc_dirs)
  BY <1>1, FS_Subset
<1>3. /\ Cardinality(F) \in Nat /\ Cardinality(G) \in Nat
      /\ Cardinality(inc_dirs) \in Nat /\ Cardinality(inc_dirs') \in Nat
  BY <1>2, FS_CardinalityType
<1>4. Cardinality(F) <= Cardinality(G) /\ (Cardinality(F) = Cardinality(G) => F = G)
  BY <1>1, <1>2, FS_Subset
<1>5. /\ Cardinality(inc_dirs) <= Cardinality(inc_dirs')
      /\ Cardinality(inc_dirs) = Cardinality(inc_dirs') => inc_dirs = inc_dirs'
  BY <1>1, <1>2, FS_Subset
<1>6. F = G => files' = files
  BY DEF TypeInv
<1>7. Pulled = Cardinality(F) + Cardinality(inc_dirs) /\ Pulled' = Cardinality(G) + Cardinality(inc_dirs')
  BY DEF Pulled
<1> HIDE DEF F, G
<1>8. Pulled \in Nat /\ Pulled' \in Nat /\ Pulled <= Pulled'
  BY <1>3, <1>4, <1>5, <1>7
<1>9. files' # files \/ inc_dirs' # inc_dirs => Pulled < Pulled'
  BY <1>3, <1>4, <1>5, <1>6, <1>7
<1>10. Limit => Limit'
  BY <1>8, SlangAssumption DEF SlangAssumption, Limit
<1>11. \A r \in ResultType \union FragmentType : Complete(r) => Complete(r)'
  BY <1>10 DEF Complete
<1> QED
  BY <1>8, <1>9, <1>10, <1>11

\* Once a load has nothing more to pull, its result is complete.
LEMMA LoadedIsComplete ==
  ASSUME IsFiniteSet(Names), TypeInv, RootsInv, PullInv, pc = "load", job.library, ~Again
  PROVE  Settled /\ \A r \in ResultType : r = Result => Complete(r)
<1>1. Pulled \in Nat
  BY PulledIsNumber
<1>2. Limit \/ (Found = {} /\ FoundDirs = {})
  BY <1>1, SlangAssumption DEF SlangAssumption, TypeInv, Again, PullInv, Limit
<1>3. ASSUME Found = {}
      PROVE  MissingModules \intersect (design.src \union design.lib) \subseteq design.elsewhere
  <2> SUFFICES ASSUME NEW n \in MissingModules, n \in design.src \union design.lib, n \notin design.elsewhere
               PROVE  FALSE
    OBVIOUS
  <2>1. n \notin files
    BY DEF MissingModules, Defined
  <2>2. n \in design.offers
    BY <2>1, DesignsAreTyped DEF TypeInv
  <2> QED
    BY <1>3, <2>1, <2>2 DEF Found
<1>4. Result.missing = MissingModules
  BY ResultFits
<1> QED
  BY <1>2, <1>3, <1>4 DEF Settled, Complete

\* Steps that pull nothing.
LEMMA NothingPulled ==
  ASSUME IsFiniteSet(Names), TypeInv, TypeInv', PullInv,
         UNCHANGED <<design, files, inc_dirs>>, pulls' \in {0, pulls},
         \A r \in ToSet(picked') \union ToSet(results') :
           r \in ToSet(picked) \union ToSet(results) \/ (r \in ResultType /\ Complete(r)),
         pc' = "settings" => settings' = Wanted' \/ Settled,
         pc' = "load" /\ job'.from = "nothing" => Settled,
         pc' \in {"merge", "returned"} => Settled,
         pc' = "returned" => Complete(fragment'),
         pc' # "merged"
  PROVE  PullInv'
<1>1. /\ Pulled \in Nat /\ Pulled' = Pulled /\ Limit' = Limit
  BY MoreIsPulled DEF Pulled, Limit
<1>2. Settled' = Settled
  BY <1>1 DEF Settled, FoundDirs, MissingIncludes, Defined
<1>3. \A r \in ResultType \union FragmentType : Complete(r)' <=> Complete(r)
  BY <1>1 DEF Complete
<1>4. ToSet(picked) \subseteq ResultType /\ ToSet(results) \subseteq ResultType
  BY ElementsOf DEF TypeInv
<1>5. \A r \in ToSet(picked') \union ToSet(results') : Complete(r)'
  BY <1>3, <1>4 DEF PullInv
<1>6. pc' = "returned" => Complete(fragment)'
  <2>1. fragment' \in FragmentType
    BY DEF TypeInv
  <2> QED
    BY <1>1, <1>3, <2>1 DEF Complete
<1>7. pulls' <= Pulled'
  BY <1>1 DEF PullInv
<1>8. PulledToTheEnd'
  BY DEF PulledToTheEnd
<1> QED
  BY <1>2, <1>5, <1>6, <1>7, <1>8 DEF PullInv

\* A round pulls something.
LEMMA PullCounts ==
  ASSUME IsFiniteSet(Names), TypeInv, TypeInv', RootsInv, CompileInv, PullInv, Pull
  PROVE  PullInv'
<1>1. /\ pc = "load" /\ pc' = "load" /\ job.library /\ Found \union FoundDirs # {}
      /\ files' = files \union Found /\ inc_dirs' = inc_dirs \union FoundDirs /\ pulls' = pulls + 1
      /\ UNCHANGED <<design, job, picked, results>>
  BY DEF Pull, Again, compileVars
<1>2. files' # files \/ inc_dirs' # inc_dirs
  BY <1>1 DEF Found, FoundDirs, MissingIncludes
<1>3. /\ Pulled \in Nat /\ Pulled' \in Nat /\ Pulled < Pulled'
      /\ \A r \in ResultType \union FragmentType : Complete(r) => Complete(r)'
  BY <1>1, <1>2, MoreIsPulled
<1>4. pulls' <= Pulled'
  BY <1>1, <1>3 DEF PullInv, TypeInv
<1>5. ToSet(picked) \subseteq ResultType /\ ToSet(results) \subseteq ResultType
  BY ElementsOf DEF TypeInv
<1>6. \A r \in ToSet(picked') \union ToSet(results') : Complete(r)'
  BY <1>1, <1>3, <1>5 DEF PullInv
<1>7. job.from # "nothing"
  BY <1>1 DEF CompileInv, Busy, JobInv
<1> QED
  BY <1>1, <1>4, <1>6, <1>7 DEF PullInv, PulledToTheEnd

\* So each compilation that ends has a complete result.
LEMMA CompiledIsComplete ==
  ASSUME IsFiniteSet(Names), TypeInv, RootsInv, CompileInv, PullInv,
         NEW from \in Froms \ {"nothing"}, Loaded(from)
  PROVE  Settled /\ Result \in ResultType /\ Complete(Result)
<1>1. pc = "load" /\ ~Again /\ job.library
  BY DEF Loaded, CompileInv, Busy, JobInv
<1>2. PICK r \in ResultType : r = Result
  BY ResultFits
<1> QED
  BY <1>1, <1>2, LoadedIsComplete

\* Every step keeps PullInv.
LEMMA StepsPull ==
  ASSUME IsFiniteSet(Names), TypeInv, RootsInv, CompileInv, PullInv, [Next]_vars,
         TypeInv', RootsInv'
  PROVE  PullInv'
<1> DEFINE Old == ToSet(picked) \union ToSet(results)
<1>1. CASE Provide
  <2>1. /\ pc' = "idle" /\ ~Busy /\ files \subseteq files'
        /\ UNCHANGED <<design, inc_dirs, pulls, picked, results>>
    BY <1>1 DEF Provide, Call, Idle, Busy, compileVars
  <2>2. Pulled \in Nat /\ Pulled' \in Nat /\ Pulled <= Pulled'
    BY <2>1, MoreIsPulled
  <2>3. ToSet(picked') = {} /\ ToSet(results') = {}
    BY <2>1 DEF CompileInv, ToSet
  <2>4. pulls' <= Pulled'
    BY <2>1, <2>2 DEF PullInv, TypeInv
  <2> QED
    BY <2>1, <2>3, <2>4 DEF PullInv, PulledToTheEnd
<1>2. CASE ListUnits \/ ElaborateNothing
  <2>1. /\ UNCHANGED <<design, files, inc_dirs, pulls, picked, results>>
        /\ pc' = "idle" \/ (pc' = pc /\ fragment' = fragment)
        /\ pc # "merged" /\ pc # "load" /\ pc # "settings" /\ pc # "merge"
    BY <1>2 DEF ListUnits, ElaborateNothing, Call, Idle, compileVars
  <2> QED
    BY <2>1, NothingPulled DEF PullInv
<1>3. CASE Elaborate
  <2>1. /\ UNCHANGED <<design, files, inc_dirs, pulls, picked, results>>
        /\ pc' = "settings" /\ settings' = Wanted'
    BY <1>3, ElaborateWantsAll DEF Elaborate
  <2> QED
    BY <2>1, NothingPulled
<1>4. CASE CompileSetting
  <2>1. /\ UNCHANGED <<design, files, inc_dirs, picked, results>>
        /\ pc' = "load" /\ job'.from = "setting" /\ pulls' = 0
    BY <1>4 DEF CompileSetting, Compile
  <2> QED
    BY <2>1, NothingPulled
<1>5. CASE AfterSettings
  <2>1. /\ UNCHANGED <<design, files, inc_dirs, picked, results>> /\ pc = "settings" /\ settings = {}
        /\ \/ pc' = "load" /\ job'.from \in {"auto", "plain"} /\ pulls' = 0
           \/ ~design.auto /\ Plain(request) = {} /\ pc' = "merge" /\ pulls' = pulls
    BY <1>5 DEF AfterSettings, Compile, compileVars
  <2>2. ASSUME ~design.auto, Plain(request) = {}
        PROVE  Settled
    <3>1. PICK r \in request : TRUE
      BY <2>1, <2>2 DEF CompileInv, Busy
    <3>2. r \in WithValues(request)
      BY <2>2 DEF Plain, WithValues
    <3>3. Wanted # {}
      BY <3>2 DEF Wanted
    <3> QED
      BY <2>1, <3>3 DEF PullInv
  <2> QED
    BY <2>1, <2>2, NothingPulled
<1>6. CASE Pull
  BY <1>6, PullCounts
<1>7. CASE SettingCompiled
  <2>1. /\ UNCHANGED <<design, files, inc_dirs, pulls, picked>> /\ pc' = "settings"
        /\ results' = results \/ results' = Append(results, Result)
        /\ Loaded("setting")
    BY <1>7 DEF SettingCompiled
  <2>2. Settled /\ Result \in ResultType /\ Complete(Result)
    BY <2>1, CompiledIsComplete DEF Froms
  <2>3. ToSet(results') \subseteq ToSet(results) \union {Result}
    <3>1. ToSet(Append(results, Result)) = ToSet(results) \union {Result}
      BY <2>2, AppendingAdds DEF TypeInv
    <3> QED
      BY <2>1, <3>1
  <2> QED
    BY <2>1, <2>2, <2>3, NothingPulled
<1>8. CASE AutoCompiled \/ ProbeCompiled \/ AgainCompiled \/ PlainCompiled
  <2>1. /\ UNCHANGED <<design, files, inc_dirs, results>>
        /\ Loaded("auto") \/ Loaded("probe") \/ Loaded("again") \/ Loaded("plain")
    BY <1>8 DEF AutoCompiled, ProbeCompiled, AgainCompiled, PlainCompiled
  <2>2. Settled /\ Result \in ResultType /\ Complete(Result)
    BY <2>1, CompiledIsComplete DEF Froms
  <2>3. /\ pulls' \in {0, pulls} /\ pc' \in {"load", "merge"}
        /\ pc' = "load" => job'.from # "nothing"
    BY <1>8 DEF AutoCompiled, ProbeCompiled, AgainCompiled, PlainCompiled, PickTops, Compile
  <2>4. picked' \in {picked, <<>>, <<Result>>} \/ (Loaded("probe") /\ picked' = <<picked[1]>>)
    BY <1>8 DEF AutoCompiled, ProbeCompiled, AgainCompiled, PlainCompiled, PickTops
  <2>5. ToSet(<<>>) = {} /\ ToSet(<<Result>>) = {Result} /\ ToSet(<<picked[1]>>) = {picked[1]}
    BY DEF ToSet
  <2>6. Loaded("probe") => picked[1] \in ToSet(picked)
    <3>1. Loaded("probe") => Len(picked) = 1
      BY DEF Loaded, CompileInv, Busy, JobInv
    <3> QED
      BY <3>1, OnePicked
  <2>7. \A r \in ToSet(picked') : r \in ToSet(picked) \/ r = Result
    BY <2>4, <2>5, <2>6
  <2> QED
    BY <2>1, <2>2, <2>3, <2>7, NothingPulled
<1>9. CASE MergeResults \/ ReturnNothing
  <2>1. PICK m : Together(m) /\ Return(m)
    BY <1>9, MergedIsTogether, NothingIsTogether
  <2>2. pc = "merge" \/ (pc = "load" /\ job.from = "nothing")
    BY <1>9 DEF MergeResults, ReturnNothing, Loaded
  <2>3. /\ UNCHANGED <<design, files, inc_dirs>> /\ pc' = "returned" /\ pulls' = 0
        /\ picked' = <<>> /\ results' = <<>> /\ fragment'.missing = m.missing
    BY <2>1 DEF Return
  <2>4. Settled
    BY <2>2 DEF PullInv
  <2>5. \A r \in Compiled : Complete(r)
    BY DEF PullInv, Compiled
  <2>6. Complete(fragment')
    BY <2>1, <2>3, <2>5 DEF Complete, Together
  <2>7. ToSet(picked') = {} /\ ToSet(results') = {}
    BY <2>3 DEF ToSet
  <2> QED
    BY <2>3, <2>4, <2>6, <2>7, NothingPulled
<1>10. CASE NothingLeft
  <2>1. /\ UNCHANGED <<design, files, inc_dirs, picked, results>> /\ pc = "merge"
        /\ pc' = "load" /\ job'.from = "nothing" /\ pulls' = 0
    BY <1>10 DEF NothingLeft, Compile, compileVars
  <2> QED
    BY <2>1, NothingPulled DEF PullInv
<1>11. CASE DropResolved
  <2>1. /\ UNCHANGED <<design, files, inc_dirs, pulls, picked, results>>
        /\ pc = "returned" /\ pc' = "merged"
        /\ fragment'.missing = fragment.missing \ design.elsewhere
    BY <1>11 DEF DropResolved, compileVars, TypeInv, FragmentType
  <2>2. /\ Settled /\ Complete(fragment) /\ pulls <= Pulled
        /\ \A r \in ToSet(picked) \union ToSet(results) : Complete(r)
    BY <2>1 DEF PullInv
  <2>3. /\ Pulled' = Pulled /\ Limit' = Limit /\ MissingIncludes' = MissingIncludes /\ Defined' = Defined
        /\ FoundDirs' = FoundDirs
    BY <2>1 DEF Pulled, Limit, MissingIncludes, Defined, FoundDirs
  <2>4. Settled' /\ \A r \in ToSet(picked') \union ToSet(results') : Complete(r)'
    BY <2>1, <2>2, <2>3 DEF Settled, Complete
  <2>5. PulledToTheEnd'
    <3>1. CASE Limit
      BY <2>3, <3>1 DEF PulledToTheEnd, Limit, Pulled
    <3>2. CASE ~Limit
      <4>1. fragment.missing \intersect (design.src \union design.lib) \subseteq design.elsewhere
        BY <2>2, <3>2 DEF Complete
      <4>2. Defined \subseteq design.src \union design.lib
        BY DEF Defined
      <4>3. fragment'.missing \intersect (Defined' \union design'.lib \union design'.elsewhere) = {}
        BY <2>1, <2>3, <4>1, <4>2
      <4>4. (MissingIncludes \intersect design.headers)' = {}
        BY <2>1, <2>2, <2>3, <3>2 DEF Settled, FoundDirs
      <4> QED
        BY <4>3, <4>4 DEF PulledToTheEnd
    <3> QED
      BY <3>1, <3>2
  <2> QED
    BY <2>1, <2>2, <2>3, <2>4, <2>5 DEF PullInv
<1>12. CASE UNCHANGED vars
  <2>1. /\ UNCHANGED <<design, files, inc_dirs, pulls, picked, results, pc, fragment, job, settings, request>>
    BY <1>12 DEF vars, compileVars
  <2>2. /\ UNCHANGED <<Pulled, Limit, MissingIncludes, Defined, FoundDirs, Wanted>>
    BY <2>1 DEF Pulled, Limit, MissingIncludes, Defined, FoundDirs, Wanted, WithValues, Given
  <2>3. /\ UNCHANGED Settled /\ Complete(fragment)' = Complete(fragment)
        /\ \A r \in Old : Complete(r)' <=> Complete(r)
    BY <2>1, <2>2 DEF Settled, Complete
  <2>4. PulledToTheEnd'
    BY <2>1, <2>2 DEF PullInv, PulledToTheEnd, Limit, Pulled
  <2> QED
    BY <2>1, <2>2, <2>3, <2>4 DEF PullInv
<1> QED
  BY <1>1, <1>2, <1>3, <1>4, <1>5, <1>6, <1>7, <1>8, <1>9, <1>10, <1>11, <1>12 DEF Next, Finished

\* The loading loop does not stop before -y has nothing more to give, unless its rounds
\* are used up (_elaborate and _pull_missing in parser.py).
THEOREM AllIsPulled ==
  ASSUME IsFiniteSet(Names)
  PROVE  Spec => []PulledToTheEnd
<1>1. Init => PullInv
  <2> SUFFICES ASSUME Init
               PROVE  PullInv
    OBVIOUS
  <2>1. Pulled \in Nat
    BY InitHasTypes, PulledIsNumber
  <2>2. pulls <= Pulled
    BY <2>1 DEF Init
  <2>3. ToSet(picked) = {} /\ ToSet(results) = {}
    BY DEF Init, ToSet
  <2> QED
    BY <2>2, <2>3 DEF Init, PullInv, PulledToTheEnd
<1>2. /\ TypeInv /\ RootsInv /\ CompileInv /\ FragmentInv /\ PullInv /\ [Next]_vars
      /\ (TypeInv /\ RootsInv /\ CompileInv /\ FragmentInv)'
      => PullInv'
  BY StepsPull
<1>3. PullInv => PulledToTheEnd
  BY DEF PullInv
<1> QED
  BY <1>1, <1>2, <1>3, Invariant, PTL DEF Spec
=============================================================================

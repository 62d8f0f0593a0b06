----------------------------- MODULE Tree_proofs -----------------------------
(* For every hierarchy: the units marked as being expanded are those on the     *)
(* stack, so the walk never goes deeper than there are units in a setting, and  *)
(* each open level is at one of its children or at their end.  What the walk    *)
(* yields is what the recursive definition of the tree gives.                   *)
EXTENDS Tree, SequenceTheorems, FiniteSetTheorems, WellFoundedInduction, TLAPS

LevelType == [key : Keys, next : Nat \ {0}, indent : Seq(BOOLEAN)]

IInv ==
  /\ hierarchy \in HierarchyType
  /\ stack \in Seq(LevelType)
  /\ ExpandingIsTheStack

-----------------------------------------------------------------------------
(* The helpers. *)

\* Choosing an instance's children gives a unit in one of its settings.
LEMMA LevelHasType ==
  ASSUME hierarchy \in HierarchyType,
         NEW m \in Modules, NEW variant \in Variants, NEW indent \in Seq(BOOLEAN)
  PROVE  /\ Level(m, variant, indent) \in LevelType
         /\ Level(m, variant, indent).key = SelectChildren(m, variant)
<1>1. hierarchy.variants[m] \subseteq ParamSettings
  BY DEF HierarchyType
<1>2. SelectChildren(m, variant) \in Keys
  BY <1>1 DEF SelectChildren, Keys, Variants
<1> QED
  BY <1>2 DEF Level, LevelType

\* The children of a node are instances.
LEMMA ChildrenType ==
  ASSUME hierarchy \in HierarchyType, NEW key \in Keys
  PROVE  ChildrenOf(key) \in Seq(TreeInstances)
<1>1. key[1] \in Modules /\ key[2] \in Variants /\ key = <<key[1], key[2]>>
  BY DEF Keys
<1>2. CASE key[2] = NoSetting
  BY <1>1, <1>2 DEF ChildrenOf, HierarchyType
<1>3. CASE key[2] # NoSetting
  <2>1. key \in Modules \X ParamSettings
    BY <1>1, <1>3 DEF Variants
  <2> QED
    BY <2>1, <1>3 DEF ChildrenOf, HierarchyType
<1> QED
  BY <1>2, <1>3

\* The child whose turn it is, and the level it would open.
LEMMA PendingChild ==
  ASSUME IInv, Pending
  PROVE  /\ Child \in TreeInstances
         /\ Guide \in Seq(BOOLEAN)
         /\ Below \in LevelType
<1>1. Len(stack) \in 1..Len(stack) /\ Current \in LevelType
  BY DEF IInv, Pending, Current, Last
<1>2. Current.key \in Keys /\ Current.next \in Nat \ {0} /\ Current.indent \in Seq(BOOLEAN)
  BY <1>1 DEF LevelType
<1>3. ChildrenOf(Current.key) \in Seq(TreeInstances)
  BY <1>2, ChildrenType DEF IInv
<1>4. Child \in TreeInstances
  BY <1>2, <1>3 DEF Child, Pending
<1>5. Guide \in Seq(BOOLEAN)
  BY <1>2 DEF Guide
<1>6. Child.mod_name \in Modules /\ Child.variant \in Variants
  BY <1>4 DEF TreeInstances
<1> QED
  BY <1>4, <1>5, <1>6, LevelHasType DEF Below, IInv

\* Moving on to the next child changes neither the units nor their order.
LEMMA AdvancedKeepsKeys ==
  ASSUME stack \in Seq(LevelType), stack # <<>>
  PROVE  /\ Advanced \in Seq(LevelType)
         /\ Len(Advanced) = Len(stack)
         /\ \A i \in 1..Len(stack) : Advanced[i].key = stack[i].key
<1>1. Len(stack) \in 1..Len(stack) /\ Len(stack) \in Nat
  OBVIOUS
<1>2. ASSUME NEW i \in 1..Len(stack)
      PROVE  Advanced[i] \in LevelType /\ Advanced[i].key = stack[i].key
  <2>1. stack[i] \in LevelType
    OBVIOUS
  <2>2. CASE i = Len(stack)
    <3>1. Advanced[i] = [stack[i] EXCEPT !.next = @ + 1]
      BY <2>2 DEF Advanced
    <3>2. stack[i].next + 1 \in Nat \ {0}
      BY <2>1 DEF LevelType
    <3>3. Advanced[i] = [key |-> stack[i].key, next |-> stack[i].next + 1,
                         indent |-> stack[i].indent]
      BY <2>1, <3>1 DEF LevelType
    <3> QED
      BY <2>1, <3>2, <3>3 DEF LevelType
  <2>3. CASE i # Len(stack)
    BY <2>1, <2>3 DEF Advanced
  <2> QED
    BY <2>2, <2>3
<1>3. DOMAIN Advanced = 1..Len(stack)
  BY DEF Advanced
<1>4. Advanced \in [1..Len(stack) -> LevelType]
  BY <1>2, <1>3 DEF Advanced
<1>5. Advanced \in Seq(LevelType)
  BY <1>1, <1>4
<1> QED
  BY <1>1, <1>2, <1>3, <1>5

-----------------------------------------------------------------------------
\* IInv at the start.
LEMMA InitIInv == TreeInit => IInv
<1> SUFFICES ASSUME TreeInit
             PROVE  IInv
  OBVIOUS
<1>1. hierarchy \in HierarchyType
  BY SettingsAssumption DEF TreeInit
<1>2. stack = <<>> /\ expanding = {} /\ DOMAIN stack = {}
  BY DEF TreeInit
<1> QED
  BY <1>1, <1>2 DEF IInv, ExpandingIsTheStack

\* Every step keeps IInv: starting a top,
LEMMA StartTopKeepsIInv ==
  ASSUME IInv, StartTop
  PROVE  IInv'
<1> DEFINE top == Head(tops)
           level == Level(top, hierarchy.top_variant[top], <<>>)
<1>1. top \in Modules
  BY DEF StartTop, IsTop, Definitions, ToSet, HierarchyType, IInv
<1>2. hierarchy.top_variant[top] \in Variants
  BY <1>1 DEF IInv, HierarchyType
<1>3. level \in LevelType
  <2>1. <<>> \in Seq(BOOLEAN)
    OBVIOUS
  <2> QED
    BY <1>1, <1>2, <2>1, LevelHasType DEF IInv
<1> HIDE DEF level
<1>4. stack' = <<level>> /\ expanding' = {level.key} /\ hierarchy' = hierarchy
  BY DEF StartTop, level
<1> QED
  BY <1>3, <1>4 DEF IInv, ExpandingIsTheStack

\* Blackbox and Cycle only move on.
LEMMA AdvancingKeepsIInv ==
  ASSUME IInv, stack # <<>>, stack' = Advanced, UNCHANGED <<hierarchy, expanding>>
  PROVE  IInv'
<1>1. /\ stack' \in Seq(LevelType)
      /\ Len(stack') = Len(stack)
      /\ \A i \in 1..Len(stack) : stack'[i].key = stack[i].key
  BY AdvancedKeepsKeys DEF IInv
<1>2. DOMAIN stack = 1..Len(stack) /\ DOMAIN stack' = 1..Len(stack)
  BY <1>1 DEF IInv
<1> QED
  BY <1>1, <1>2 DEF IInv, ExpandingIsTheStack

\* going down,
LEMMA DescendKeepsIInv ==
  ASSUME IInv, Descend
  PROVE  IInv'
<1> DEFINE n == Len(stack)
<1>1. /\ Pending
      /\ Below.key \notin expanding
      /\ stack' = Append(Advanced, Below)
      /\ expanding' = expanding \union {Below.key}
      /\ hierarchy' = hierarchy
  BY DEF Descend, Open
<1>2. stack # <<>> /\ stack \in Seq(LevelType) /\ n \in Nat
  BY <1>1 DEF Pending, IInv
<1>3. Below \in LevelType
  BY <1>1, PendingChild
<1>4. /\ Advanced \in Seq(LevelType)
      /\ Len(Advanced) = n
      /\ \A i \in 1..n : Advanced[i].key = stack[i].key
  BY <1>2, AdvancedKeepsKeys
<1>5. /\ stack' \in Seq(LevelType)
      /\ Len(stack') = n + 1
      /\ \A i \in 1..n : stack'[i] = Advanced[i]
      /\ stack'[n + 1] = Below
  BY <1>1, <1>3, <1>4, AppendProperties
<1>6. DOMAIN stack = 1..n /\ DOMAIN stack' = 1..(n + 1)
  BY <1>2, <1>5
<1>7. \A i \in 1..n : stack'[i].key = stack[i].key /\ stack[i].key \in expanding
  BY <1>4, <1>5, <1>6 DEF IInv, ExpandingIsTheStack
<1>8. \A i \in 1..(n + 1) : i \in 1..n \/ i = n + 1
  BY <1>2
<1>9. expanding' = {stack'[i].key : i \in DOMAIN stack'}
  <2>1. expanding = {stack[i].key : i \in 1..n}
    BY <1>6 DEF IInv, ExpandingIsTheStack
  <2>2. 1..n \subseteq 1..(n + 1) /\ n + 1 \in 1..(n + 1)
    BY <1>2
  <2>3. {stack'[i].key : i \in 1..(n + 1)} =
          {stack[i].key : i \in 1..n} \union {stack'[n + 1].key}
    BY <1>7, <1>8, <2>2
  <2> QED
    BY <1>1, <1>5, <1>6, <2>1, <2>3
<1>10. ASSUME NEW i \in 1..(n + 1), NEW j \in 1..(n + 1), stack'[i].key = stack'[j].key
       PROVE  i = j
  <2>1. CASE i \in 1..n /\ j \in 1..n
    BY <1>6, <1>7, <1>10, <2>1 DEF IInv, ExpandingIsTheStack
  <2>2. CASE i \in 1..n /\ j = n + 1
    BY <1>1, <1>5, <1>7, <1>10, <2>2
  <2>3. CASE i = n + 1 /\ j \in 1..n
    BY <1>1, <1>5, <1>7, <1>10, <2>3
  <2> QED
    BY <1>8, <2>1, <2>2, <2>3
<1> QED
  BY <1>1, <1>5, <1>6, <1>9, <1>10 DEF IInv, ExpandingIsTheStack

\* and going up again.
LEMMA AscendKeepsIInv ==
  ASSUME IInv, Ascend
  PROVE  IInv'
<1> DEFINE n == Len(stack)
<1>1. /\ stack # <<>>
      /\ expanding' = expanding \ {stack[n].key}
      /\ stack' = SubSeq(stack, 1, n - 1)
      /\ hierarchy' = hierarchy
  BY DEF Ascend, Current, Last, Front
<1>2. stack \in Seq(LevelType) /\ DOMAIN stack = 1..n
  BY DEF IInv
<1>3. n \in Nat \ {0}
  BY <1>1, <1>2
<1>4. /\ stack' \in Seq(LevelType)
      /\ DOMAIN stack' = 1..(n - 1)
      /\ \A i \in 1..(n - 1) : stack'[i] = stack[i]
  BY <1>1, <1>2, <1>3
<1> HIDE DEF n
<1>5. /\ \A i \in 1..n : i \in 1..(n - 1) \/ i = n
      /\ \A i \in 1..(n - 1) : i \in 1..n /\ i # n
      /\ n \in 1..n
  BY <1>3
<1>6. expanding' = {stack'[i].key : i \in DOMAIN stack'}
  <2>1. expanding = {stack[i].key : i \in 1..n}
    BY <1>2 DEF IInv, ExpandingIsTheStack
  <2>2. \A i \in 1..(n - 1) : stack[i].key # stack[n].key
    BY <1>2, <1>5 DEF IInv, ExpandingIsTheStack
  <2> QED
    BY <1>1, <1>4, <1>5, <2>1, <2>2
<1>7. \A i, j \in DOMAIN stack' : stack'[i].key = stack'[j].key => i = j
  BY <1>2, <1>4, <1>5 DEF IInv, ExpandingIsTheStack
<1> QED
  BY <1>1, <1>4, <1>6, <1>7 DEF IInv, ExpandingIsTheStack

\* The inductive invariant.
LEMMA IInvInductive == TreeSpec => []IInv
<1>1. IInv /\ [TreeNext]_treeVars => IInv'
  <2> SUFFICES ASSUME IInv, [TreeNext]_treeVars
               PROVE  IInv'
    OBVIOUS
  <2>1. CASE StartTop
    BY <2>1, StartTopKeepsIInv
  <2>2. CASE SkipTop
    BY <2>2 DEF SkipTop, IInv, ExpandingIsTheStack
  <2>3. CASE Blackbox \/ Cycle
    BY <2>3, AdvancingKeepsIInv DEF Blackbox, Cycle, Pending
  <2>4. CASE Descend
    BY <2>4, DescendKeepsIInv
  <2>5. CASE Ascend
    BY <2>5, AscendKeepsIInv
  <2>6. CASE UNCHANGED treeVars
    BY <2>6 DEF treeVars, IInv, ExpandingIsTheStack
  <2> QED
    BY <2>1, <2>2, <2>3, <2>4, <2>5, <2>6 DEF TreeNext, Exhausted
<1> QED
  BY <1>1, InitIInv, PTL DEF TreeSpec

-----------------------------------------------------------------------------
\* In every hierarchy, _iter_subtree's `expanding' holds exactly the units on the
\* stack, each there once: nothing stays marked and nothing is expanded inside of
\* itself.
THEOREM ExpandingIsTheStackAlways == TreeSpec => []ExpandingIsTheStack
<1>1. IInv => ExpandingIsTheStack
  BY DEF IInv
<1> QED
  BY <1>1, IInvInductive, PTL

-----------------------------------------------------------------------------
(* The children left at each level. *)

\* What TreeTypeOK adds to IInv.
Within ==
  /\ tops \in Seq(Modules)
  /\ \A i \in DOMAIN stack : stack[i].next <= Len(ChildrenOf(stack[i].key)) + 1

\* A level starts before the end of its children, and a list of children has an end.
LEMMA LevelStartsWithin ==
  ASSUME IInv, NEW level \in LevelType, level.next = 1
  PROVE  level.next <= Len(ChildrenOf(level.key)) + 1
<1>1. ChildrenOf(level.key) \in Seq(TreeInstances)
  BY ChildrenType DEF IInv, LevelType
<1>2. Len(ChildrenOf(level.key)) \in Nat
  BY <1>1
<1> QED
  BY <1>2

\* Taking a child moves on to the next, or to the end.
LEMMA AdvancedStaysWithin ==
  ASSUME IInv, Within, Pending
  PROVE  \A i \in 1..Len(stack) : Advanced[i].next <= Len(ChildrenOf(Advanced[i].key)) + 1
<1> SUFFICES ASSUME NEW i \in 1..Len(stack)
             PROVE  Advanced[i].next <= Len(ChildrenOf(Advanced[i].key)) + 1
  OBVIOUS
<1>1. stack \in Seq(LevelType) /\ stack # <<>> /\ stack[i] \in LevelType /\ i \in DOMAIN stack
  BY DEF IInv, Pending
<1>2. Advanced[i].key = stack[i].key
  BY <1>1, AdvancedKeepsKeys
<1>3. CASE i = Len(stack)
  <2>1. stack[i].next <= Len(ChildrenOf(stack[i].key))
    BY <1>3 DEF Pending, Current, Last
  <2>2. Len(ChildrenOf(stack[i].key)) \in Nat
    <3>1. ChildrenOf(stack[i].key) \in Seq(TreeInstances)
      BY <1>1, ChildrenType DEF IInv, LevelType
    <3> QED
      BY <3>1
  <2>3. Advanced[i].next = stack[i].next + 1 /\ stack[i].next \in Nat
    BY <1>1, <1>3 DEF Advanced, LevelType
  <2> QED
    BY <1>2, <2>1, <2>2, <2>3
<1>4. CASE i # Len(stack)
  <2>1. Advanced[i] = stack[i]
    BY <1>1, <1>4 DEF Advanced
  <2> QED
    BY <1>1, <2>1 DEF Within
<1> QED
  BY <1>3, <1>4

\* Every step stays within.
LEMMA StepStaysWithin ==
  ASSUME IInv, IInv', Within, [TreeNext]_treeVars
  PROVE  Within'
<1>1. hierarchy' = hierarchy /\ \A key : ChildrenOf(key)' = ChildrenOf(key)
  BY DEF TreeNext, StartTop, SkipTop, Blackbox, Cycle, Descend, Ascend, Exhausted, treeVars, ChildrenOf
<1>2. tops' \in Seq(Modules)
  <2>1. tops' = tops \/ (tops # <<>> /\ tops' = Tail(tops))
    BY DEF TreeNext, StartTop, SkipTop, Blackbox, Cycle, Descend, Ascend, Exhausted, treeVars
  <2> QED
    BY <2>1 DEF Within
<1>3. SUFFICES ASSUME NEW i \in DOMAIN stack'
               PROVE  stack'[i].next <= Len(ChildrenOf(stack'[i].key)) + 1
  BY <1>1, <1>2 DEF Within
<1>4. stack' \in Seq(LevelType) /\ stack \in Seq(LevelType) /\ i \in 1..Len(stack')
  BY DEF IInv
<1>5. CASE StartTop
  <2>1. stack' = <<stack'[1]>> /\ stack'[1].next = 1
    BY <1>5 DEF StartTop, Level
  <2>2. i = 1 /\ stack'[i] \in LevelType
    BY <1>4, <2>1
  <2> QED
    BY <2>1, <2>2, LevelStartsWithin
<1>6. CASE Blackbox \/ Cycle
  <2>1. Pending /\ stack' = Advanced
    BY <1>6 DEF Blackbox, Cycle
  <2>2. stack # <<>>
    BY <2>1 DEF Pending
  <2>3. Len(stack') = Len(stack)
    BY <1>4, <2>1, <2>2, AdvancedKeepsKeys
  <2> QED
    BY <1>4, <2>1, <2>3, AdvancedStaysWithin
<1>7. CASE Descend
  <2>1. Pending /\ stack' = Append(Advanced, Below) /\ Below.next = 1
    BY <1>7 DEF Descend, Below, Level
  <2>2. stack # <<>>
    BY <2>1 DEF Pending
  <2>3. Advanced \in Seq(LevelType) /\ Len(Advanced) = Len(stack) /\ Below \in LevelType
    BY <1>4, <2>1, <2>2, AdvancedKeepsKeys, PendingChild
  <2>4. CASE i = Len(stack) + 1
    <3>1. stack'[i] = Below
      BY <2>1, <2>3, <2>4
    <3> QED
      BY <2>1, <2>3, <3>1, LevelStartsWithin
  <2>5. CASE i # Len(stack) + 1
    <3>1. i \in 1..Len(stack) /\ stack'[i] = Advanced[i]
      BY <1>4, <2>1, <2>3, <2>5
    <3> QED
      BY <2>1, <3>1, AdvancedStaysWithin
  <2> QED
    BY <2>4, <2>5
<1>8. CASE Ascend
  <2>1. stack # <<>> /\ stack' = SubSeq(stack, 1, Len(stack) - 1)
    BY <1>8 DEF Ascend, Front
  <2>2. i \in DOMAIN stack /\ stack'[i] = stack[i]
    BY <1>4, <2>1
  <2> QED
    BY <2>2 DEF Within
<1>9. CASE SkipTop \/ UNCHANGED treeVars
  BY <1>9 DEF SkipTop, treeVars, Within
<1> QED
  BY <1>5, <1>6, <1>7, <1>8, <1>9 DEF TreeNext, Exhausted

\* Whatever hierarchy is walked, iter_tree's and _iter_subtree's variables keep their
\* types, and no level runs past its last child.
THEOREM TreeTypeCorrect == TreeSpec => []TreeTypeOK
<1>1. TreeInit => Within
  <2> SUFFICES ASSUME TreeInit
               PROVE  Within
    OBVIOUS
  <2>1. hierarchy \in HierarchyType /\ stack = <<>> /\ DOMAIN stack = {}
    BY SettingsAssumption DEF TreeInit
  <2> QED
    BY <2>1 DEF TreeInit, Within, HierarchyType
<1>2. IInv /\ Within => TreeTypeOK
  <2> SUFFICES ASSUME IInv, Within
               PROVE  TreeTypeOK
    OBVIOUS
  <2>1. expanding \subseteq Keys
    <3>1. \A i \in DOMAIN stack : stack[i] \in LevelType
      BY DEF IInv
    <3> QED
      BY <3>1 DEF IInv, ExpandingIsTheStack, LevelType
  <2> QED
    BY <2>1 DEF IInv, Within, TreeTypeOK, LevelType
<1>3. IInv /\ IInv' /\ Within /\ [TreeNext]_treeVars => Within'
  BY StepStaysWithin
<1> QED
  BY <1>1, <1>2, <1>3, IInvInductive, PTL DEF TreeSpec

\* Whatever the cycles, the walk is never deeper than there are definitions in a
\* setting: _iter_subtree's stack is bounded by the design, not by its recursion.
THEOREM DepthIsBounded ==
  IsFiniteSet(Keys) => (TreeSpec => [](Len(stack) <= Cardinality(Keys)))
<1> SUFFICES ASSUME IsFiniteSet(Keys)
             PROVE  TreeSpec => [](Len(stack) <= Cardinality(Keys))
  OBVIOUS
<1>1. IInv => Len(stack) <= Cardinality(Keys)
  <2> SUFFICES ASSUME IInv, ~(Len(stack) <= Cardinality(Keys))
               PROVE  FALSE
    OBVIOUS
  <2> DEFINE n == Len(stack)
             keyAt == [i \in 1..n |-> stack[i].key]
  <2>1. n \in Nat /\ DOMAIN stack = 1..n /\ keyAt \in [1..n -> Keys]
    <3>1. \A i \in 1..n : stack[i] \in LevelType
      BY DEF IInv
    <3> QED
      BY <3>1 DEF IInv, LevelType
  <2>2. IsFiniteSet(1..n) /\ Cardinality(1..n) = n
    BY <2>1, FS_Interval
  <2>3. Cardinality(Keys) < n
    BY <2>1, FS_CardinalityType
  <2> HIDE DEF keyAt
  <2>4. \E i, j \in 1..n : i # j /\ keyAt[i] = keyAt[j]
    BY <2>1, <2>2, <2>3, FS_PigeonHole
  <2> USE DEF keyAt
  <2> QED
    BY <2>1, <2>4 DEF IInv, ExpandingIsTheStack
<1> QED
  BY <1>1, IInvInductive, PTL

-----------------------------------------------------------------------------
(* Sequences of sequences, one after the other. *)

\* Numbers have a least one.
LEMMA LeastExists ==
  ASSUME NEW S \in SUBSET Nat, S # {}
  PROVE  \E m \in S : \A n \in S : m <= n
<1>1. PICK m \in S : \A n \in S : ~(<<n, m>> \in OpToRel(<, Nat))
  BY NatLessThanWellFounded, WFMin
<1>2. \A n \in S : ~(n < m)
  BY <1>1 DEF OpToRel
<1>3. m \in Nat /\ \A n \in S : n \in Nat
  OBVIOUS
<1>4. \A n \in S : m <= n
  BY <1>2, <1>3
<1> QED
  BY <1>4

\* In what order sequences are put together does not matter.
Associates(S) == \A a, b, c \in S : (a \o b) \o c = a \o (b \o c)
LEMMA SequencesAssociate ==
  ASSUME NEW X
  PROVE  Associates(Seq(X))
<1> SUFFICES ASSUME NEW a \in Seq(X), NEW b \in Seq(X), NEW c \in Seq(X)
             PROVE  (a \o b) \o c = a \o (b \o c)
  BY DEF Associates
<1> QED
  BY ConcatAssociative

\* What FlattenSeq builds up, from the first n of some sequences.
Flattened(f, s, n) == f = [i \in 1..n |-> IF i = 1 THEN s[i] ELSE f[i - 1] \o s[i]]

\* There is such a function, ...
LEMMA FlattenedExists ==
  ASSUME NEW s, NEW n \in Nat
  PROVE  \E f : Flattened(f, s, n)
<1> DEFINE bad == {m \in Nat : ~\E f : Flattened(f, s, m)}
<1> SUFFICES bad = {}
  OBVIOUS
<1> SUFFICES ASSUME bad # {}
             PROVE  FALSE
  OBVIOUS
<1>1. PICK m \in bad : \A k \in bad : m <= k
  BY LeastExists
<1>2. CASE m = 0
  <2>1. Flattened([i \in 1..0 |-> 0], s, 0)
    BY DEF Flattened
  <2> QED
    BY <1>1, <1>2, <2>1
<1>3. CASE m # 0
  <2>1. m \in Nat /\ m - 1 \in Nat /\ m - 1 \notin bad
    BY <1>1, <1>3
  <2>2. PICK f : Flattened(f, s, m - 1)
    BY <2>1
  <2> DEFINE g == [i \in 1..m |-> IF i < m THEN f[i] ELSE IF i = 1 THEN s[i] ELSE f[i - 1] \o s[i]]
  <2>3. \A i \in 1..(m - 1) : f[i] = IF i = 1 THEN s[i] ELSE f[i - 1] \o s[i]
    BY <2>2 DEF Flattened
  <2>4. \A i \in 1..m : i < m => i \in 1..(m - 1)
    BY <2>1
  <2>5. \A i \in 1..m : i # 1 => i - 1 \in 1..m /\ i - 1 < m
    BY <2>1
  <2>6. \A i \in 1..m : g[i] = IF i = 1 THEN s[i] ELSE g[i - 1] \o s[i]
    BY <2>3, <2>4, <2>5
  <2>7. Flattened(g, s, m)
    BY <2>6 DEF Flattened
  <2> QED
    BY <1>1, <2>7
<1> QED
  BY <1>2, <1>3

\* ... which FlattenSeq takes.
LEMMA FlattenSeqTakes ==
  ASSUME NEW s, Len(s) \in Nat, Len(s) # 0
  PROVE  \E f : Flattened(f, s, Len(s)) /\ FlattenSeq(s) = f[Len(s)]
<1> DEFINE f == CHOOSE f : f = [i \in 1..Len(s) |-> IF i = 1 THEN s[i] ELSE f[i - 1] \o s[i]]
<1>1. \E g : g = [i \in 1..Len(s) |-> IF i = 1 THEN s[i] ELSE g[i - 1] \o s[i]]
  BY FlattenedExists DEF Flattened
<1>2. f = [i \in 1..Len(s) |-> IF i = 1 THEN s[i] ELSE f[i - 1] \o s[i]]
  BY <1>1
<1>3. FlattenSeq(s) = f[Len(s)]
  BY DEF FlattenSeq
<1> HIDE DEF f
<1> QED
  BY <1>2, <1>3 DEF Flattened

\* Sequences of some elements are flattened to one of them.
LEMMA FlattenType ==
  ASSUME NEW X, NEW s \in Seq(Seq(X))
  PROVE  FlattenSeq(s) \in Seq(X)
<1>1. CASE s = <<>>
  BY <1>1 DEF FlattenSeq
<1>2. CASE s # <<>>
  <2>1. Len(s) \in Nat /\ Len(s) # 0 /\ Len(s) \in 1..Len(s)
    BY <1>2
  <2>2. PICK f : Flattened(f, s, Len(s)) /\ FlattenSeq(s) = f[Len(s)]
    BY <2>1, FlattenSeqTakes
  <2> DEFINE bad == {m \in 1..Len(s) : f[m] \notin Seq(X)}
  <2> SUFFICES ASSUME bad # {}
               PROVE  FALSE
    BY <2>1, <2>2
  <2>3. PICK m \in bad : \A j \in bad : m <= j
    <3>1. bad \in SUBSET Nat
      OBVIOUS
    <3> QED
      BY <3>1, LeastExists
  <2>4. f[m] = IF m = 1 THEN s[m] ELSE f[m - 1] \o s[m]
    BY <2>2 DEF Flattened
  <2>5. s[m] \in Seq(X)
    OBVIOUS
  <2>6. m # 1 => f[m - 1] \in Seq(X)
    <3>1. m # 1 => m - 1 \in 1..Len(s) /\ m - 1 \notin bad
      BY <2>1, <2>3
    <3> QED
      BY <3>1
  <2>7. CASE m = 1
    BY <2>4, <2>5, <2>7
  <2>8. CASE m # 1
    <3>1. f[m - 1] \o s[m] \in Seq(X)
      BY <2>5, <2>6, <2>8, ConcatProperties
    <3> QED
      BY <2>4, <2>8, <3>1
  <2> QED
    BY <2>7, <2>8
<1> QED
  BY <1>1, <1>2

\* The first sequence, and then the others.
LEMMA FlattenHead ==
  ASSUME NEW X, NEW s \in Seq(Seq(X)), s # <<>>
  PROVE  FlattenSeq(s) = s[1] \o FlattenSeq(Tail(s))
<1> DEFINE n == Len(s)
           t == Tail(s)
<1>1. /\ n \in Nat /\ n # 0 /\ 1 \in 1..n /\ s[1] \in Seq(X)
      /\ t \in Seq(Seq(X)) /\ Len(t) = n - 1
      /\ \A i \in 1..(n - 1) : t[i] = s[i + 1] /\ t[i] \in Seq(X)
  OBVIOUS
<1>2. PICK f : Flattened(f, s, n) /\ FlattenSeq(s) = f[n]
  BY <1>1, FlattenSeqTakes
<1>3. \A i \in 1..n : f[i] = IF i = 1 THEN s[i] ELSE f[i - 1] \o s[i]
  BY <1>2 DEF Flattened
<1>4. CASE n = 1
  <2>1. f[n] = s[1]
    BY <1>1, <1>3, <1>4
  <2>2. t = <<>>
    <3>1. t \in Seq(Seq(X)) /\ Len(t) = 0
      BY <1>1, <1>4
    <3> HIDE DEF t
    <3> QED
      BY <3>1, EmptySeq
  <2>3. FlattenSeq(<<>>) = <<>>
    BY DEF FlattenSeq
  <2>4. s[1] \o <<>> = s[1]
    BY <1>1, ConcatEmptySeq
  <2> HIDE DEF t
  <2> QED
    BY <1>2, <2>1, <2>2, <2>3, <2>4 DEF t
<1>5. CASE n # 1
  <2>1. Len(t) \in Nat /\ Len(t) # 0 /\ n - 1 \in 1..(n - 1)
    BY <1>1, <1>5
  <2> HIDE DEF t, n
  <2>2. PICK g : Flattened(g, t, n - 1) /\ FlattenSeq(t) = g[n - 1]
    BY <1>1, <2>1, FlattenSeqTakes
  <2>3. \A i \in 1..(n - 1) : g[i] = IF i = 1 THEN t[i] ELSE g[i - 1] \o t[i]
    BY <2>2 DEF Flattened
  <2> DEFINE good(i) == g[i] \in Seq(X) /\ f[i + 1] = s[1] \o g[i]
             bad == {i \in 1..(n - 1) : ~good(i)}
  <2>4. bad = {}
    <3> SUFFICES ASSUME bad # {}
                 PROVE  FALSE
      OBVIOUS
    <3>1. PICK m \in bad : \A i \in bad : m <= i
      <4>1. \A i \in bad : i \in 1..(n - 1)
        OBVIOUS
      <4>2. \A i \in 1..(n - 1) : i \in Nat
        OBVIOUS
      <4> HIDE DEF bad
      <4>3. bad \in SUBSET Nat
        BY <4>1, <4>2
      <4> QED
        BY <4>3, LeastExists
    <3>2. m \in 1..(n - 1) /\ m + 1 \in 1..n /\ m + 1 # 1 /\ (m + 1) - 1 = m
      BY <1>1
    <3>3. t[m] = s[m + 1] /\ t[m] \in Seq(X)
      BY <1>1, <3>2
    <3>4. f[m + 1] = f[m] \o t[m]
      BY <1>3, <3>2, <3>3
    <3>5. CASE m = 1
      <4>1. f[1] = s[1]
        BY <1>1, <1>3
      <4>2. g[1] = t[1]
        BY <2>3, <3>2, <3>5
      <4> QED
        BY <3>3, <3>4, <3>5, <4>1, <4>2
    <3>6. CASE m # 1
      <4>1. m - 1 \in 1..(n - 1) /\ m - 1 \notin bad /\ (m - 1) + 1 = m
        <5>1. n \in Nat /\ m \in Nat /\ m # 1 /\ m >= 1 /\ m <= n - 1
          BY <1>1, <3>2, <3>6
        <5>2. m - 1 \in 1..(n - 1) /\ (m - 1) + 1 = m /\ ~(m <= m - 1)
          BY <5>1
        <5> QED
          BY <3>1, <5>2
      <4>2. g[m - 1] \in Seq(X) /\ f[m] = s[1] \o g[m - 1]
        BY <4>1
      <4>3. g[m] = g[m - 1] \o t[m]
        BY <2>3, <3>2, <3>6
      <4>4. g[m] \in Seq(X)
        BY <3>3, <4>2, <4>3, ConcatProperties
      <4>5. (s[1] \o g[m - 1]) \o t[m] = s[1] \o (g[m - 1] \o t[m])
        <5>1. s[1] \in Seq(X) /\ g[m - 1] \in Seq(X) /\ t[m] \in Seq(X)
          BY <1>1, <3>3, <4>2
        <5>2. Associates(Seq(X))
          BY SequencesAssociate
        <5> QED
          BY ONLY <5>1, <5>2 DEF Associates
      <4> QED
        BY <3>4, <4>2, <4>3, <4>4, <4>5
    <3> QED
      BY <3>5, <3>6
  <2>5. good(n - 1)
    BY <2>1, <2>4
  <2>6. (n - 1) + 1 = n
    BY <1>1
  <2> QED
    BY <1>2, <2>2, <2>5, <2>6 DEF t, n
<1> QED
  BY <1>4, <1>5

\* What is left of a sequence: all of it, an element and then the rest, nothing.
LEMMA LeftOf ==
  ASSUME NEW X, NEW s \in Seq(X), NEW n \in Nat \ {0}
  PROVE  /\ SubSeq(s, n, Len(s)) \in Seq(X)
         /\ SubSeq(s, 1, Len(s)) = s
         /\ n <= Len(s) => /\ SubSeq(s, n, Len(s)) # <<>>
                           /\ SubSeq(s, n, Len(s))[1] = s[n]
                           /\ Tail(SubSeq(s, n, Len(s))) = SubSeq(s, n + 1, Len(s))
         /\ n > Len(s) => SubSeq(s, n, Len(s)) = <<>>
<1>1. Len(s) \in Nat /\ SubSeq(s, 1, Len(s)) = s
  BY SubSeqFull
<1>2. CASE n > Len(s)
  BY <1>1, <1>2, SubSeqEmpty
<1>3. CASE n <= Len(s)
  <2> DEFINE u == SubSeq(s, n, Len(s))
  <2>1. n \in 1..Len(s) /\ Len(s) \in n..Len(s)
    BY <1>1, <1>3
  <2>2. Head(u) = s[n] /\ Tail(u) = SubSeq(s, n + 1, Len(s))
    BY <2>1, HeadTailOfSubSeq
  <2>3. u \in Seq(X) /\ u # <<>>
    <3>1. \A i \in n..Len(s) : s[i] \in X
      BY <1>1
    <3>2. u \in Seq(X) /\ Len(u) = (Len(s) - n) + 1
      BY <1>1, <1>3, <3>1, SubSeqProperties
    <3>3. Len(u) # 0
      BY <1>1, <1>3, <3>2
    <3> HIDE DEF u
    <3> QED
      BY <3>2, <3>3, EmptySeq
  <2> QED
    BY <1>1, <1>3, <2>2, <2>3
<1> QED
  BY <1>1, <1>2, <1>3
-----------------------------------------------------------------------------
(* Lines, and lines below others. *)

LineType ==
  [guide : Seq(BOOLEAN), name : Nat \union Modules, module : Modules,
   marker : {"root", "blackbox", "cycle", "none"}]

LEMMA LinesAssociate == \A a, b, c \in Seq(LineType) : (a \o b) \o c = a \o (b \o c)
BY SequencesAssociate DEF Associates

Deeper(guide, line) == [line EXCEPT !.guide = guide \o @]

\* A line that is drawn deeper is a line.
LEMMA DeeperLine ==
  ASSUME NEW guide \in Seq(BOOLEAN), NEW line \in LineType
  PROVE  /\ Deeper(guide, line) \in LineType
         /\ Deeper(guide, line).guide = guide \o line.guide
         /\ Deeper(<<>>, line) = line
         /\ \A outer \in Seq(BOOLEAN) :
              Deeper(outer, Deeper(guide, line)) = Deeper(outer \o guide, line)
<1>1. line.guide \in Seq(BOOLEAN)
  BY DEF LineType
<1>2. guide \o line.guide \in Seq(BOOLEAN) /\ <<>> \o line.guide = line.guide
  BY <1>1, ConcatProperties, ConcatEmptySeq
<1>3. /\ Deeper(guide, line) \in LineType
      /\ Deeper(guide, line).guide = guide \o line.guide
  BY <1>2 DEF Deeper, LineType
<1>4. Deeper(<<>>, line) = line
  BY <1>2 DEF Deeper, LineType
<1>5. ASSUME NEW outer \in Seq(BOOLEAN)
      PROVE  Deeper(outer, Deeper(guide, line)) = Deeper(outer \o guide, line)
  <2>1. outer \o (guide \o line.guide) = (outer \o guide) \o line.guide
    <3>1. Associates(Seq(BOOLEAN))
      BY SequencesAssociate
    <3> QED
      BY <1>1, <3>1 DEF Associates
  <2> QED
    BY <1>3, <2>1 DEF Deeper, LineType
<1> QED
  BY <1>3, <1>4, <1>5

\* Each line is drawn deeper, and nothing else changes.
LEMMA IndentedLines ==
  ASSUME NEW guide \in Seq(BOOLEAN), NEW below \in Seq(LineType)
  PROVE  /\ Indented(guide, below) \in Seq(LineType)
         /\ Len(Indented(guide, below)) = Len(below)
         /\ \A i \in 1..Len(below) : Indented(guide, below)[i] = Deeper(guide, below[i])
<1>1. DOMAIN below = 1..Len(below) /\ Len(below) \in Nat
  OBVIOUS
<1>2. Indented(guide, below) = [i \in 1..Len(below) |-> Deeper(guide, below[i])]
  BY <1>1 DEF Indented, Deeper
<1>3. \A i \in 1..Len(below) : Deeper(guide, below[i]) \in LineType
  BY DeeperLine
<1> QED
  BY <1>1, <1>2, <1>3

\* Lines after lines are drawn deeper one after the other.
LEMMA IndentedConcat ==
  ASSUME NEW guide \in Seq(BOOLEAN), NEW a \in Seq(LineType), NEW b \in Seq(LineType)
  PROVE  Indented(guide, a \o b) = Indented(guide, a) \o Indented(guide, b)
<1> DEFINE u == Indented(guide, a \o b)
           v == Indented(guide, a)
           w == Indented(guide, b)
<1>1. /\ a \o b \in Seq(LineType) /\ Len(a \o b) = Len(a) + Len(b)
      /\ \A i \in 1..(Len(a) + Len(b)) : (a \o b)[i] = IF i <= Len(a) THEN a[i] ELSE b[i - Len(a)]
  BY ConcatProperties
<1>2. /\ u \in Seq(LineType) /\ Len(u) = Len(a) + Len(b)
      /\ \A i \in 1..(Len(a) + Len(b)) : u[i] = Deeper(guide, (a \o b)[i])
  BY <1>1, IndentedLines
<1>3. /\ v \in Seq(LineType) /\ Len(v) = Len(a) /\ \A i \in 1..Len(a) : v[i] = Deeper(guide, a[i])
      /\ w \in Seq(LineType) /\ Len(w) = Len(b) /\ \A i \in 1..Len(b) : w[i] = Deeper(guide, b[i])
  BY IndentedLines
<1> HIDE DEF u, v, w
<1>4. /\ v \o w \in Seq(LineType) /\ Len(v \o w) = Len(a) + Len(b)
      /\ \A i \in 1..(Len(a) + Len(b)) : (v \o w)[i] = IF i <= Len(a) THEN v[i] ELSE w[i - Len(a)]
  <2>1. v \in Seq(LineType) /\ w \in Seq(LineType) /\ Len(v) = Len(a) /\ Len(w) = Len(b)
    BY <1>3
  <2>2. /\ v \o w \in Seq(LineType) /\ Len(v \o w) = Len(v) + Len(w)
        /\ \A i \in 1..(Len(v) + Len(w)) : (v \o w)[i] = IF i <= Len(v) THEN v[i] ELSE w[i - Len(v)]
    BY <2>1, ConcatProperties
  <2> QED
    BY <2>1, <2>2
<1>5. \A i \in 1..(Len(a) + Len(b)) : u[i] = (v \o w)[i]
  <2> SUFFICES ASSUME NEW i \in 1..(Len(a) + Len(b))
               PROVE  u[i] = (v \o w)[i]
    OBVIOUS
  <2>1. Len(a) \in Nat /\ Len(b) \in Nat
    OBVIOUS
  <2>2. CASE i <= Len(a)
    <3>1. i \in 1..Len(a)
      BY <2>1, <2>2
    <3> QED
      BY <1>1, <1>2, <1>3, <1>4, <2>2, <3>1
  <2>3. CASE ~(i <= Len(a))
    <3>1. i - Len(a) \in 1..Len(b)
      BY <2>1, <2>3
    <3> QED
      BY <1>1, <1>2, <1>3, <1>4, <2>3, <3>1
  <2> QED
    BY <2>2, <2>3
<1>6. u = v \o w
  BY <1>2, <1>4, <1>5, SeqEqual
<1> QED
  BY <1>6 DEF u, v, w

\* Lines below lines below others, and below nothing.
LEMMA IndentedTwice ==
  ASSUME NEW outer \in Seq(BOOLEAN), NEW guide \in Seq(BOOLEAN), NEW below \in Seq(LineType)
  PROVE  /\ Indented(outer, Indented(guide, below)) = Indented(outer \o guide, below)
         /\ Indented(<<>>, below) = below
         /\ Indented(guide, <<>>) = <<>>
<1> DEFINE u == Indented(guide, below)
           v == Indented(outer, u)
           w == Indented(outer \o guide, below)
           x == Indented(<<>>, below)
<1>1. /\ u \in Seq(LineType) /\ Len(u) = Len(below)
      /\ \A i \in 1..Len(below) : u[i] = Deeper(guide, below[i])
  BY IndentedLines
<1>2. outer \o guide \in Seq(BOOLEAN) /\ <<>> \in Seq(BOOLEAN)
  BY ConcatProperties
<1> HIDE DEF u
<1>3. /\ v \in Seq(LineType) /\ Len(v) = Len(below)
      /\ \A i \in 1..Len(below) : v[i] = Deeper(outer, u[i])
  BY <1>1, IndentedLines
<1>4. /\ w \in Seq(LineType) /\ Len(w) = Len(below)
      /\ \A i \in 1..Len(below) : w[i] = Deeper(outer \o guide, below[i])
  BY <1>2, IndentedLines
<1>5. /\ x \in Seq(LineType) /\ Len(x) = Len(below)
      /\ \A i \in 1..Len(below) : x[i] = Deeper(<<>>, below[i])
  BY <1>2, IndentedLines
<1> HIDE DEF v, w, x
<1>6. \A i \in 1..Len(below) : v[i] = w[i] /\ x[i] = below[i]
  <2> SUFFICES ASSUME NEW i \in 1..Len(below)
               PROVE  v[i] = w[i] /\ x[i] = below[i]
    OBVIOUS
  <2>1. below[i] \in LineType
    OBVIOUS
  <2> QED
    BY <1>1, <1>3, <1>4, <1>5, <2>1, DeeperLine
<1>7. v = w
  BY <1>3, <1>4, <1>6, SeqEqual
<1>8. x = below
  BY <1>5, <1>6, SeqEqual
<1>9. Indented(guide, <<>>) = <<>>
  BY DEF Indented
<1> QED
  BY <1>7, <1>8, <1>9 DEF u, v, w, x
-----------------------------------------------------------------------------
(* What to print is defined: the tree below a unit ends. *)

\* The children shown are those of a unit in one of its settings, ...
LEMMA ShownAsType ==
  ASSUME hierarchy \in HierarchyType, NEW m \in Modules, NEW variant \in Variants
  PROVE  ShownAs(m, variant) \in Keys
<1>1. CASE variant \in hierarchy.variants[m] \/ ~\E s \in ParamSettings : hierarchy.variants[m] = {s}
  BY <1>1 DEF ShownAs, Keys, Variants
<1>2. ASSUME NEW s \in ParamSettings, hierarchy.variants[m] = {s}
      PROVE  (CHOOSE k \in {m} \X ParamSettings : hierarchy.variants[m] = {k[2]}) \in Keys
  <2>1. <<m, s>> \in {m} \X ParamSettings /\ hierarchy.variants[m] = {<<m, s>>[2]}
    BY <1>2
  <2>2. (CHOOSE k \in {m} \X ParamSettings : hierarchy.variants[m] = {k[2]}) \in {m} \X ParamSettings
    BY <2>1
  <2> QED
    BY <2>2 DEF Keys, Variants
<1> QED
  BY <1>1, <1>2 DEF ShownAs, Keys, Variants

\* ... as _select_children chooses them.
LEMMA ShownAsSelected ==
  ASSUME hierarchy \in HierarchyType, IsFiniteSet(ParamSettings),
         NEW m \in Modules, NEW variant \in Variants
  PROVE  SelectChildren(m, variant) = ShownAs(m, variant)
<1> DEFINE known == hierarchy.variants[m]
<1>1. known \subseteq ParamSettings /\ NoSetting \notin known
  BY SettingsAssumption DEF HierarchyType
<1>2. Cardinality(known) = 1 <=> \E s \in known : known = {s}
  <2>1. IsFiniteSet(known)
    BY <1>1, FS_Subset
  <2>2. IsFiniteSet(known) /\ Cardinality(known) = 1 <=> \E s : known = {s}
    BY FS_Singleton
  <2> QED
    BY <2>1, <2>2
<1>3. CASE variant \in known
  <2>1. variant # NoSetting
    BY <1>1, <1>3
  <2> QED
    BY <1>3, <2>1 DEF SelectChildren, ShownAs
<1>4. CASE variant = NoSetting /\ Cardinality(known) = 1
  <2>1. PICK s \in ParamSettings : known = {s}
    BY <1>1, <1>2, <1>4
  <2>2. (CHOOSE r \in known : TRUE) = s /\ (CHOOSE r \in known : TRUE) \in known
    BY <2>1
  <2>3. SelectChildren(m, variant) = <<m, s>>
    BY <1>4, <2>2 DEF SelectChildren
  <2> DEFINE key == CHOOSE k \in {m} \X ParamSettings : known = {k[2]}
  <2>4. key \in {m} \X ParamSettings /\ known = {key[2]}
    <3>1. <<m, s>> \in {m} \X ParamSettings /\ known = {<<m, s>>[2]}
      BY <2>1
    <3> QED
      BY <3>1
  <2>5. key = <<m, s>>
    <3>1. key[2] = s
      BY <2>1, <2>4
    <3> HIDE DEF key
    <3> QED
      BY <2>4, <3>1
  <2>6. ShownAs(m, variant) = key
    BY <1>1, <1>4, <2>1 DEF ShownAs
  <2> QED
    BY <2>3, <2>5, <2>6
<1>5. CASE variant \notin known /\ ~(variant = NoSetting /\ Cardinality(known) = 1)
  <2>1. ~(variant = NoSetting /\ \E s \in ParamSettings : known = {s})
    <3>1. \A s \in ParamSettings : known = {s} => s \in known
      OBVIOUS
    <3> QED
      BY <1>2, <1>5, <3>1
  <2>2. ShownAs(m, variant) = <<m, NoSetting>>
    BY <1>5, <2>1 DEF ShownAs
  <2> QED
    BY <1>5, <2>2 DEF SelectChildren
<1> QED
  BY <1>3, <1>4, <1>5

\* A child: an instance, and what would be shown of it.
LEMMA ChildOf ==
  ASSUME hierarchy \in HierarchyType, NEW key \in Keys, NEW i \in DOMAIN ChildrenOf(key)
  PROVE  /\ DOMAIN ChildrenOf(key) = 1..Len(ChildrenOf(key)) /\ Len(ChildrenOf(key)) \in Nat
         /\ ChildrenOf(key)[i].mod_name \in Modules
         /\ ChildrenOf(key)[i].inst_name \in Nat
         /\ ChildrenOf(key)[i].variant \in Variants
         /\ ShownAs(ChildrenOf(key)[i].mod_name, ChildrenOf(key)[i].variant) \in Keys
<1>1. ChildrenOf(key) \in Seq(TreeInstances)
  BY ChildrenType
<1>2. ChildrenOf(key)[i] \in TreeInstances
  BY <1>1
<1>3. /\ ChildrenOf(key)[i].mod_name \in Modules
      /\ ChildrenOf(key)[i].inst_name \in Nat
      /\ ChildrenOf(key)[i].variant \in Variants
  BY <1>2 DEF TreeInstances
<1>4. DOMAIN ChildrenOf(key) = 1..Len(ChildrenOf(key)) /\ Len(ChildrenOf(key)) \in Nat
  BY <1>1
<1> QED
  BY <1>3, <1>4, ShownAsType

\* The line of a child is one line.
LEMMA RowOfType ==
  ASSUME hierarchy \in HierarchyType, NEW key \in Keys, NEW i \in DOMAIN ChildrenOf(key),
         NEW marker \in {"blackbox", "cycle", "none"}
  PROVE  RowOf(key, i, marker) \in Seq(LineType)
<1> DEFINE guide == <<i = Len(ChildrenOf(key))>>
           line == Line(guide, ChildrenOf(key)[i].inst_name, ChildrenOf(key)[i].mod_name, marker)
<1>1. guide \in Seq(BOOLEAN)
  OBVIOUS
<1> HIDE DEF guide
<1>2. line \in LineType
  BY <1>1, ChildOf DEF Line, LineType
<1>3. RowOf(key, i, marker) = <<line>>
  BY DEF RowOf, guide
<1> HIDE DEF line
<1> QED
  BY <1>2, <1>3

\* The lines with a child are lines, if those below it are.
LEMMA RowsOfType ==
  ASSUME hierarchy \in HierarchyType, NEW f, NEW open \in SUBSET Keys, NEW key \in Keys,
         NEW i \in DOMAIN ChildrenOf(key),
         \A shown \in Keys \ open : f[<<open \union {shown}, shown>>] \in Seq(LineType)
  PROVE  RowsOf(f, open, key, i) \in Seq(LineType)
<1> DEFINE kid == ChildrenOf(key)[i]
           shown == ShownAs(kid.mod_name, kid.variant)
           guide == <<i = Len(ChildrenOf(key))>>
<1>1. shown \in Keys
  BY ChildOf
<1>2. \A marker \in {"blackbox", "cycle", "none"} : RowOf(key, i, marker) \in Seq(LineType)
  BY RowOfType
<1>3. guide \in Seq(BOOLEAN)
  OBVIOUS
<1>4. CASE kid.mod_name \notin Definitions \/ shown \in open
  BY <1>2, <1>4 DEF RowsOf
<1>5. CASE kid.mod_name \in Definitions /\ shown \notin open
  <2> DEFINE below == f[<<open \union {shown}, shown>>]
  <2>1. RowsOf(f, open, key, i) = RowOf(key, i, "none") \o Indented(guide, below)
    BY <1>5 DEF RowsOf
  <2>2. below \in Seq(LineType)
    BY <1>1, <1>5
  <2> HIDE DEF below, guide
  <2>3. Indented(guide, below) \in Seq(LineType)
    BY <1>3, <2>2, IndentedLines
  <2>4. RowOf(key, i, "none") \in Seq(LineType)
    BY <1>2
  <2> QED
    BY <2>1, <2>3, <2>4, ConcatProperties
<1> QED
  BY <1>4, <1>5

RowsBelow(f, open, key) == FlattenSeq([i \in DOMAIN ChildrenOf(key) |-> RowsOf(f, open, key, i)])

\* The lines below a unit depend on nothing but what is below its children.
LEMMA RowsAgree ==
  ASSUME hierarchy \in HierarchyType, NEW f, NEW g, NEW open \in SUBSET Keys, NEW key \in Keys,
         \A shown \in Keys \ open :
           f[<<open \union {shown}, shown>>] = g[<<open \union {shown}, shown>>]
  PROVE  RowsBelow(f, open, key) = RowsBelow(g, open, key)
<1>1. ASSUME NEW i \in DOMAIN ChildrenOf(key)
      PROVE  RowsOf(f, open, key, i) = RowsOf(g, open, key, i)
  <2>1. ShownAs(ChildrenOf(key)[i].mod_name, ChildrenOf(key)[i].variant) \in Keys
    BY ChildOf
  <2> QED
    BY <2>1 DEF RowsOf
<1> QED
  BY <1>1 DEF RowsBelow

\* Inside of one more unit, fewer units are left.
LEMMA FewerLeft ==
  ASSUME IsFiniteSet(Keys), NEW open \in SUBSET Keys, NEW shown \in Keys \ open
  PROVE  /\ Cardinality(Keys \ open) \in Nat
         /\ Cardinality(Keys \ (open \union {shown})) \in Nat
         /\ Cardinality(Keys \ (open \union {shown})) < Cardinality(Keys \ open)
         /\ Cardinality(Keys \ open) <= Cardinality(Keys)
<1>1. IsFiniteSet(Keys \ open) /\ IsFiniteSet(Keys \ (open \union {shown}))
  BY FS_Subset
<1>2. /\ Cardinality(Keys \ open) \in Nat /\ Cardinality(Keys \ (open \union {shown})) \in Nat
  BY <1>1, FS_CardinalityType
<1>3. Cardinality(Keys \ (open \union {shown})) < Cardinality(Keys \ open)
  <2>1. /\ Keys \ (open \union {shown}) \subseteq Keys \ open
        /\ Keys \ (open \union {shown}) # Keys \ open
    OBVIOUS
  <2> QED
    BY <1>1, <1>2, <2>1, FS_Subset
<1>4. Cardinality(Keys \ open) <= Cardinality(Keys)
  BY FS_Subset
<1> QED
  BY <1>2, <1>3, <1>4

\* A function that is right where fewer than n units are left.
Points == (SUBSET Keys) \X Keys
RightUpTo(f, n) ==
  /\ f = [at \in Points |-> f[at]]
  /\ \A open \in SUBSET Keys, key \in Keys :
       Cardinality(Keys \ open) < n => f[<<open, key>>] = RowsBelow(f, open, key)

\* From one that is right up to n, the definition gives one that is right up to n + 1, ...
LEMMA RightOneFurther ==
  ASSUME IsFiniteSet(Keys), hierarchy \in HierarchyType, NEW n \in Nat,
         NEW f, RightUpTo(f, n)
  PROVE  RightUpTo([at \in Points |-> RowsBelow(f, at[1], at[2])], n + 1)
<1> DEFINE g == [at \in Points |-> RowsBelow(f, at[1], at[2])]
<1>1. \A open \in SUBSET Keys, key \in Keys : g[<<open, key>>] = RowsBelow(f, open, key)
  BY DEF Points
<1>2. g = [at \in Points |-> g[at]]
  OBVIOUS
<1> HIDE DEF g
<1>3. ASSUME NEW open \in SUBSET Keys, NEW key \in Keys, Cardinality(Keys \ open) < n + 1
      PROVE  g[<<open, key>>] = RowsBelow(g, open, key)
  <2>1. ASSUME NEW shown \in Keys \ open
        PROVE  f[<<open \union {shown}, shown>>] = g[<<open \union {shown}, shown>>]
    <3>1. open \union {shown} \in SUBSET Keys /\ shown \in Keys
      OBVIOUS
    <3>2. Cardinality(Keys \ (open \union {shown})) < n
      <4> DEFINE left == Cardinality(Keys \ (open \union {shown}))
                 all == Cardinality(Keys \ open)
      <4>1. left \in Nat /\ all \in Nat /\ left < all
        BY FewerLeft
      <4>2. all < n + 1
        BY <1>3
      <4> HIDE DEF left, all
      <4>3. left < n
        BY <4>1, <4>2
      <4> QED
        BY <4>3 DEF left
    <3>3. f[<<open \union {shown}, shown>>] = RowsBelow(f, open \union {shown}, shown)
      BY <3>1, <3>2 DEF RightUpTo
    <3> QED
      BY <1>1, <3>1, <3>3
  <2>2. RowsBelow(f, open, key) = RowsBelow(g, open, key)
    BY <2>1, RowsAgree
  <2> QED
    BY <1>1, <2>2
<1>4. RightUpTo(g, n + 1)
  BY <1>2, <1>3 DEF RightUpTo
<1> QED
  BY <1>4 DEF g

\* ... so one is right everywhere, and TreeBelow is what its definition says.
LEMMA TreeBelowIs ==
  ASSUME IsFiniteSet(Keys), hierarchy \in HierarchyType
  PROVE  TreeBelow = [at \in Points |-> RowsBelow(TreeBelow, at[1], at[2])]
<1> DEFINE bad == {n \in Nat : ~\E f : RightUpTo(f, n)}
<1>1. bad = {}
  <2> SUFFICES ASSUME bad # {}
               PROVE  FALSE
    OBVIOUS
  <2>1. PICK n \in bad : \A m \in bad : n <= m
    BY LeastExists
  <2>2. CASE n = 0
    <3> DEFINE f == [at \in Points |-> <<>>]
    <3>1. f = [at \in Points |-> f[at]]
      OBVIOUS
    <3>2. \A open \in SUBSET Keys : ~(Cardinality(Keys \ open) < 0)
      <4> SUFFICES ASSUME NEW open \in SUBSET Keys
                   PROVE  ~(Cardinality(Keys \ open) < 0)
        OBVIOUS
      <4>1. Cardinality(Keys \ open) \in Nat
        BY FS_Subset, FS_CardinalityType
      <4> QED
        BY <4>1
    <3>3. RightUpTo(f, 0)
      BY <3>1, <3>2 DEF RightUpTo
    <3> QED
      BY <2>1, <2>2, <3>3
  <2>3. CASE n # 0
    <3>1. n \in Nat /\ n - 1 \in Nat /\ n - 1 \notin bad /\ (n - 1) + 1 = n
      BY <2>1, <2>3
    <3>2. PICK f : RightUpTo(f, n - 1)
      BY <3>1
    <3>3. RightUpTo([at \in Points |-> RowsBelow(f, at[1], at[2])], (n - 1) + 1)
      BY <3>1, <3>2, RightOneFurther
    <3> QED
      BY <2>1, <3>1, <3>3
  <2> QED
    BY <2>2, <2>3
<1>2. Cardinality(Keys) \in Nat
  BY FS_CardinalityType
<1>3. PICK f : RightUpTo(f, Cardinality(Keys) + 1)
  <2>1. Cardinality(Keys) + 1 \in Nat
    BY <1>2
  <2> QED
    BY <1>1, <2>1
<1>4. \A open \in SUBSET Keys, key \in Keys : f[<<open, key>>] = RowsBelow(f, open, key)
  <2> SUFFICES ASSUME NEW open \in SUBSET Keys, NEW key \in Keys
               PROVE  f[<<open, key>>] = RowsBelow(f, open, key)
    OBVIOUS
  <2>1. Cardinality(Keys \ open) \in Nat /\ Cardinality(Keys \ open) <= Cardinality(Keys)
    BY FS_Subset, FS_CardinalityType
  <2>2. Cardinality(Keys \ open) < Cardinality(Keys) + 1
    BY <1>2, <2>1
  <2> QED
    BY <1>3, <2>2 DEF RightUpTo
<1>5. f = [at \in Points |-> RowsBelow(f, at[1], at[2])]
  <2>1. \A at \in Points : f[at] = RowsBelow(f, at[1], at[2])
    BY <1>4 DEF Points
  <2> QED
    BY <1>3, <2>1 DEF RightUpTo
<1> DEFINE Is(h) == h = [at \in (SUBSET Keys) \X Keys |->
                           FlattenSeq([i \in DOMAIN ChildrenOf(at[2]) |-> RowsOf(h, at[1], at[2], i)])]
<1>6. \E h : Is(h)
  BY <1>5 DEF RowsBelow, Points
<1>7. TreeBelow = CHOOSE h : Is(h)
  BY DEF TreeBelow
<1> HIDE DEF Is
<1>8. Is(TreeBelow)
  BY <1>6, <1>7
<1> QED
  BY <1>8 DEF Is, RowsBelow, Points

\* The lines below a unit are lines.
LEMMA TreeBelowType ==
  ASSUME IsFiniteSet(Keys), hierarchy \in HierarchyType
  PROVE  \A open \in SUBSET Keys, key \in Keys :
           /\ TreeBelow[<<open, key>>] = RowsBelow(TreeBelow, open, key)
           /\ TreeBelow[<<open, key>>] \in Seq(LineType)
<1>1. \A open \in SUBSET Keys, key \in Keys :
        TreeBelow[<<open, key>>] = RowsBelow(TreeBelow, open, key)
  <2> SUFFICES ASSUME NEW open \in SUBSET Keys, NEW key \in Keys
               PROVE  TreeBelow[<<open, key>>] = RowsBelow(TreeBelow, open, key)
    OBVIOUS
  <2>1. <<open, key>> \in Points
    BY DEF Points
  <2>2. [at \in Points |-> RowsBelow(TreeBelow, at[1], at[2])][<<open, key>>]
          = RowsBelow(TreeBelow, open, key)
    BY <2>1
  <2> QED
    BY <2>2, TreeBelowIs
<1> DEFINE typed(open, key) == TreeBelow[<<open, key>>] \in Seq(LineType)
           bad == {n \in Nat : \E open \in SUBSET Keys, key \in Keys :
                                 Cardinality(Keys \ open) = n /\ ~typed(open, key)}
<1>2. ASSUME bad # {}
      PROVE  FALSE
  <2>1. PICK n \in bad : \A m \in bad : n <= m
    BY <1>2, LeastExists
  <2>2. PICK open \in SUBSET Keys, key \in Keys : Cardinality(Keys \ open) = n /\ ~typed(open, key)
    BY <2>1
  <2>3. \A shown \in Keys \ open : TreeBelow[<<open \union {shown}, shown>>] \in Seq(LineType)
    <3> SUFFICES ASSUME NEW shown \in Keys \ open
                 PROVE  typed(open \union {shown}, shown)
      OBVIOUS
    <3> DEFINE m == Cardinality(Keys \ (open \union {shown}))
    <3>1. m \in Nat /\ n \in Nat /\ m < n /\ open \union {shown} \in SUBSET Keys /\ shown \in Keys
      BY <2>2, FewerLeft
    <3>2. m \notin bad
      <4>1. m \in bad => n <= m
        BY <2>1
      <4> HIDE DEF bad, m
      <4> QED
        BY <3>1, <4>1
    <3> QED
      BY <3>1, <3>2
  <2> DEFINE rows == [i \in DOMAIN ChildrenOf(key) |-> RowsOf(TreeBelow, open, key, i)]
  <2>4. rows \in Seq(Seq(LineType))
    <3>1. ChildrenOf(key) \in Seq(TreeInstances)
      BY ChildrenType
    <3>2. DOMAIN ChildrenOf(key) = 1..Len(ChildrenOf(key)) /\ Len(ChildrenOf(key)) \in Nat
      BY <3>1
    <3>3. \A i \in DOMAIN ChildrenOf(key) : RowsOf(TreeBelow, open, key, i) \in Seq(LineType)
      BY <2>3, RowsOfType
    <3> QED
      BY <3>2, <3>3
  <2>5. FlattenSeq(rows) \in Seq(LineType)
    <3> HIDE DEF rows
    <3> QED
      BY <2>4, FlattenType
  <2>6. TreeBelow[<<open, key>>] = FlattenSeq(rows)
    BY <1>1 DEF RowsBelow
  <2> QED
    BY <2>2, <2>5, <2>6
<1>3. ASSUME NEW open \in SUBSET Keys, NEW key \in Keys
      PROVE  typed(open, key)
  <2>1. Cardinality(Keys \ open) \in Nat
    BY FS_Subset, FS_CardinalityType
  <2> HIDE DEF typed
  <2>2. Cardinality(Keys \ open) \notin bad
    BY <1>2
  <2> QED
    BY <2>1, <2>2
<1> QED
  BY <1>1, <1>3
-----------------------------------------------------------------------------
(* What is left to print: of a level, of the levels that are open, of the tops. *)

Rows(open, key) == [i \in DOMAIN ChildrenOf(key) |-> RowsOf(TreeBelow, open, key, i)]
RowsLeft(open, key, n) == FlattenSeq(SubSeq(Rows(open, key), n, Len(ChildrenOf(key))))
LevelLeft(open, level) == Indented(level.indent, RowsLeft(open, level.key, level.next))
OpenAt(levels, k) == {levels[j].key : j \in 1..k}

\* From the innermost level outwards.
LevelsLeft(levels) ==
  [j \in 1..Len(levels) |->
     LevelLeft(OpenAt(levels, Len(levels) + 1 - j), levels[Len(levels) + 1 - j])]
StackLeft(levels) == FlattenSeq(LevelsLeft(levels))

\* Before the first child all is left, past the last one nothing, and in between
\* the lines with one child come before those with the next.
LEMMA RowsLeftIs ==
  ASSUME IsFiniteSet(Keys), hierarchy \in HierarchyType,
         NEW open \in SUBSET Keys, NEW key \in Keys, NEW n \in Nat \ {0}
  PROVE  /\ RowsLeft(open, key, n) \in Seq(LineType)
         /\ RowsLeft(open, key, 1) = TreeBelow[<<open, key>>]
         /\ n <= Len(ChildrenOf(key)) =>
              /\ n \in DOMAIN ChildrenOf(key)
              /\ RowsOf(TreeBelow, open, key, n) \in Seq(LineType)
              /\ RowsLeft(open, key, n) = RowsOf(TreeBelow, open, key, n) \o RowsLeft(open, key, n + 1)
         /\ n > Len(ChildrenOf(key)) => RowsLeft(open, key, n) = <<>>
<1> DEFINE rows == Rows(open, key)
<1>1. DOMAIN ChildrenOf(key) = 1..Len(ChildrenOf(key)) /\ Len(ChildrenOf(key)) \in Nat
  <2>1. ChildrenOf(key) \in Seq(TreeInstances)
    BY ChildrenType
  <2> QED
    BY <2>1
<1>2. \A i \in DOMAIN ChildrenOf(key) : RowsOf(TreeBelow, open, key, i) \in Seq(LineType)
  <2>1. \A shown \in Keys \ open : TreeBelow[<<open \union {shown}, shown>>] \in Seq(LineType)
    <3>1. \A shown \in Keys \ open : open \union {shown} \in SUBSET Keys /\ shown \in Keys
      OBVIOUS
    <3> QED
      BY <3>1, TreeBelowType
  <2> QED
    BY <2>1, RowsOfType
<1>3. rows \in Seq(Seq(LineType)) /\ Len(rows) = Len(ChildrenOf(key))
  BY <1>1, <1>2 DEF Rows
<1>4. \A i \in DOMAIN ChildrenOf(key) : rows[i] = RowsOf(TreeBelow, open, key, i)
  BY DEF Rows
<1>5. RowsBelow(TreeBelow, open, key) = FlattenSeq(rows)
  BY DEF RowsBelow, Rows
<1> HIDE DEF rows
<1>6. \A k \in Nat \ {0} : RowsLeft(open, key, k) = FlattenSeq(SubSeq(rows, k, Len(rows)))
  BY <1>3 DEF RowsLeft, rows
<1>7. RowsLeft(open, key, n) \in Seq(LineType)
  <2>1. SubSeq(rows, n, Len(rows)) \in Seq(Seq(LineType))
    BY <1>3, LeftOf
  <2> QED
    BY <1>6, <2>1, FlattenType
<1>8. RowsLeft(open, key, 1) = TreeBelow[<<open, key>>]
  <2>1. SubSeq(rows, 1, Len(rows)) = rows
    BY <1>3, LeftOf
  <2>2. 1 \in Nat \ {0}
    OBVIOUS
  <2> QED
    BY <1>5, <1>6, <2>1, <2>2, TreeBelowType
<1>9. ASSUME n <= Len(ChildrenOf(key))
      PROVE  /\ n \in DOMAIN ChildrenOf(key)
             /\ RowsOf(TreeBelow, open, key, n) \in Seq(LineType)
             /\ RowsLeft(open, key, n) = RowsOf(TreeBelow, open, key, n) \o RowsLeft(open, key, n + 1)
  <2>1. n \in DOMAIN ChildrenOf(key)
    BY <1>1, <1>9
  <2> DEFINE u == SubSeq(rows, n, Len(rows))
  <2>2. /\ u \in Seq(Seq(LineType)) /\ u # <<>> /\ u[1] = rows[n]
        /\ Tail(u) = SubSeq(rows, n + 1, Len(rows))
    BY <1>3, <1>9, LeftOf
  <2> HIDE DEF u
  <2>3. FlattenSeq(u) = u[1] \o FlattenSeq(Tail(u))
    BY <2>2, FlattenHead
  <2>4. n + 1 \in Nat \ {0}
    OBVIOUS
  <2>5. RowsLeft(open, key, n) = FlattenSeq(u) /\ RowsLeft(open, key, n + 1) = FlattenSeq(Tail(u))
    BY <1>6, <2>2, <2>4 DEF u
  <2> QED
    BY <1>2, <1>4, <2>1, <2>2, <2>3, <2>5
<1>10. ASSUME n > Len(ChildrenOf(key))
       PROVE  RowsLeft(open, key, n) = <<>>
  <2>1. SubSeq(rows, n, Len(rows)) = <<>>
    BY <1>3, <1>10, LeftOf
  <2> QED
    BY <1>6, <2>1 DEF FlattenSeq
<1> QED
  BY <1>7, <1>8, <1>9, <1>10

\* The same of a level.
LEMMA LevelLeftIs ==
  ASSUME IsFiniteSet(Keys), hierarchy \in HierarchyType,
         NEW open \in SUBSET Keys, NEW level \in LevelType
  PROVE  /\ LevelLeft(open, level) \in Seq(LineType)
         /\ level.next = 1 =>
              LevelLeft(open, level) = Indented(level.indent, TreeBelow[<<open, level.key>>])
         /\ level.next <= Len(ChildrenOf(level.key)) =>
              /\ level.next \in DOMAIN ChildrenOf(level.key)
              /\ RowsOf(TreeBelow, open, level.key, level.next) \in Seq(LineType)
              /\ LevelLeft(open, level)
                   = Indented(level.indent, RowsOf(TreeBelow, open, level.key, level.next))
                       \o LevelLeft(open, [level EXCEPT !.next = @ + 1])
         /\ level.next > Len(ChildrenOf(level.key)) => LevelLeft(open, level) = <<>>
<1>1. level.key \in Keys /\ level.next \in Nat \ {0} /\ level.indent \in Seq(BOOLEAN)
  BY DEF LevelType
<1>2. RowsLeft(open, level.key, level.next) \in Seq(LineType)
  BY <1>1, RowsLeftIs
<1>3. LevelLeft(open, level) \in Seq(LineType)
  BY <1>1, <1>2, IndentedLines DEF LevelLeft
<1>4. level.next = 1 =>
        LevelLeft(open, level) = Indented(level.indent, TreeBelow[<<open, level.key>>])
  BY <1>1, RowsLeftIs DEF LevelLeft
<1>5. ASSUME level.next <= Len(ChildrenOf(level.key))
      PROVE  /\ level.next \in DOMAIN ChildrenOf(level.key)
             /\ RowsOf(TreeBelow, open, level.key, level.next) \in Seq(LineType)
             /\ LevelLeft(open, level)
                  = Indented(level.indent, RowsOf(TreeBelow, open, level.key, level.next))
                      \o LevelLeft(open, [level EXCEPT !.next = @ + 1])
  <2> DEFINE row == RowsOf(TreeBelow, open, level.key, level.next)
             after == [level EXCEPT !.next = @ + 1]
             rest == RowsLeft(open, level.key, level.next + 1)
  <2>1. /\ level.next \in DOMAIN ChildrenOf(level.key)
        /\ row \in Seq(LineType)
        /\ RowsLeft(open, level.key, level.next) = row \o rest
    BY <1>1, <1>5, RowsLeftIs
  <2>2. rest \in Seq(LineType)
    <3>1. level.next + 1 \in Nat \ {0}
      BY <1>1
    <3> QED
      BY <1>1, <3>1, RowsLeftIs
  <2>3. LevelLeft(open, after) = Indented(level.indent, rest)
    <3>1. after.indent = level.indent /\ after.key = level.key /\ after.next = level.next + 1
      BY DEF LevelType
    <3> QED
      BY <3>1 DEF LevelLeft
  <2> HIDE DEF row, rest
  <2>4. Indented(level.indent, row \o rest) = Indented(level.indent, row) \o Indented(level.indent, rest)
    BY <1>1, <2>1, <2>2, IndentedConcat
  <2>5. LevelLeft(open, level) = Indented(level.indent, row \o rest)
    BY <2>1 DEF LevelLeft
  <2> QED
    BY <2>1, <2>3, <2>4, <2>5 DEF row
<1>6. ASSUME level.next > Len(ChildrenOf(level.key))
      PROVE  LevelLeft(open, level) = <<>>
  <2>1. RowsLeft(open, level.key, level.next) = <<>>
    BY <1>1, <1>6, RowsLeftIs
  <2>2. <<>> \in Seq(LineType)
    OBVIOUS
  <2> QED
    BY <1>1, <2>1, <2>2, IndentedTwice DEF LevelLeft
<1> QED
  BY <1>3, <1>4, <1>5, <1>6

\* One more level comes before those around it, and leaves them as they are.
LEMMA StackLeftPush ==
  ASSUME IsFiniteSet(Keys), hierarchy \in HierarchyType,
         NEW levels \in Seq(LevelType), NEW level \in LevelType
  PROVE  /\ StackLeft(levels) \in Seq(LineType)
         /\ OpenAt(levels, Len(levels)) \union {level.key} \in SUBSET Keys
         /\ StackLeft(<<>>) = <<>>
         /\ StackLeft(Append(levels, level))
              = LevelLeft(OpenAt(levels, Len(levels)) \union {level.key}, level) \o StackLeft(levels)
<1> DEFINE n == Len(levels)
           more == Append(levels, level)
           u == LevelsLeft(more)
           v == LevelsLeft(levels)
<1>1. n \in Nat /\ n + 1 \in Nat
  OBVIOUS
<1>2. /\ more \in Seq(LevelType) /\ Len(more) = n + 1 /\ more[n + 1] = level
      /\ \A i \in 1..n : more[i] = levels[i] /\ i \in 1..(n + 1)
  OBVIOUS
<1>3. level.key \in Keys /\ \A i \in 1..n : levels[i] \in LevelType /\ levels[i].key \in Keys
  <2>1. \A i \in 1..n : levels[i] \in LevelType
    OBVIOUS
  <2>2. \A l \in LevelType : l.key \in Keys
    BY DEF LevelType
  <2> HIDE DEF n
  <2> QED
    BY <2>1, <2>2
<1> HIDE DEF more, n
<1>4. OpenAt(levels, n) \union {level.key} \in SUBSET Keys
  BY <1>3 DEF OpenAt
<1>5. OpenAt(more, n + 1) = OpenAt(levels, n) \union {level.key}
  <2>1. \A i \in 1..(n + 1) : i = n + 1 \/ i \in 1..n
    BY <1>1
  <2>2. n + 1 \in 1..(n + 1)
    BY <1>1
  <2> QED
    BY <1>2, <2>1, <2>2 DEF OpenAt
<1>6. \A k \in 1..n : OpenAt(more, k) = OpenAt(levels, k) /\ OpenAt(levels, k) \in SUBSET Keys
  <2> SUFFICES ASSUME NEW k \in 1..n
               PROVE  OpenAt(more, k) = OpenAt(levels, k) /\ OpenAt(levels, k) \in SUBSET Keys
    OBVIOUS
  <2>1. \A j \in 1..k : j \in 1..n
    BY <1>1
  <2> QED
    BY <1>2, <1>3, <2>1 DEF OpenAt
<1>7. /\ v \in Seq(Seq(LineType)) /\ Len(v) = n
      /\ \A j \in 1..n : v[j] = LevelLeft(OpenAt(levels, n + 1 - j), levels[n + 1 - j])
  <2>1. v = [j \in 1..n |-> LevelLeft(OpenAt(levels, n + 1 - j), levels[n + 1 - j])]
    BY DEF LevelsLeft, n
  <2>2. \A j \in 1..n : n + 1 - j \in 1..n
    BY <1>1
  <2>3. \A j \in 1..n : LevelLeft(OpenAt(levels, n + 1 - j), levels[n + 1 - j]) \in Seq(LineType)
    BY <1>3, <1>6, <2>2, LevelLeftIs
  <2> HIDE DEF v
  <2> QED
    BY <1>1, <2>1, <2>3
<1>8. u = [j \in 1..(n + 1) |-> LevelLeft(OpenAt(more, n + 2 - j), more[n + 2 - j])]
  <2>1. \A j \in 1..(n + 1) : (n + 1) + 1 - j = n + 2 - j
    BY <1>1
  <2> QED
    BY <1>2, <2>1 DEF LevelsLeft
<1> HIDE DEF u, v
<1>9. u[1] = LevelLeft(OpenAt(levels, n) \union {level.key}, level) /\ u[1] \in Seq(LineType)
  <2>1. 1 \in 1..(n + 1) /\ n + 2 - 1 = n + 1
    BY <1>1
  <2>2. u[1] = LevelLeft(OpenAt(more, n + 1), more[n + 1])
    BY <1>8, <2>1
  <2> DEFINE open == OpenAt(levels, n) \union {level.key}
  <2>3. u[1] = LevelLeft(open, level)
    BY <1>2, <1>5, <2>2
  <2>4. open \in SUBSET Keys
    BY <1>4
  <2> HIDE DEF open
  <2>5. LevelLeft(open, level) \in Seq(LineType)
    BY <2>4, LevelLeftIs
  <2> QED
    BY <2>3, <2>5 DEF open
<1>10. \A j \in 1..n : u[j + 1] = v[j] /\ u[j + 1] \in Seq(LineType)
  <2> SUFFICES ASSUME NEW j \in 1..n
               PROVE  u[j + 1] = v[j] /\ u[j + 1] \in Seq(LineType)
    OBVIOUS
  <2>1. j + 1 \in 1..(n + 1) /\ n + 2 - (j + 1) = n + 1 - j /\ n + 1 - j \in 1..n
    BY <1>1
  <2>2. u[j + 1] = LevelLeft(OpenAt(more, n + 1 - j), more[n + 1 - j])
    BY <1>8, <2>1
  <2>3. v[j] \in Seq(LineType)
    BY <1>7
  <2> QED
    BY <1>2, <1>6, <1>7, <2>1, <2>2, <2>3
<1>11. u \in Seq(Seq(LineType)) /\ Len(u) = n + 1
  <2>1. \A i \in 1..(n + 1) : u[i] \in Seq(LineType)
    <3>1. \A i \in 1..(n + 1) : i = 1 \/ (i - 1 \in 1..n /\ (i - 1) + 1 = i)
      BY <1>1
    <3> QED
      BY <1>9, <1>10, <3>1
  <2>2. u = [i \in 1..(n + 1) |-> u[i]]
    BY <1>8
  <2> QED
    BY <1>1, <2>1, <2>2
<1>12. u # <<>> /\ Tail(u) = v
  <2>1. u # <<>>
    BY <1>1, <1>11
  <2>2. Tail(u) \in Seq(Seq(LineType)) /\ Len(Tail(u)) = n
    BY <1>1, <1>11, <2>1
  <2>3. \A j \in 1..n : Tail(u)[j] = u[j + 1]
    BY <1>1, <1>11, <2>1
  <2>4. \A j \in 1..n : Tail(u)[j] = v[j]
    BY <1>10, <2>3
  <2>5. v \in Seq(Seq(LineType)) /\ Len(v) = n
    BY <1>7
  <2> QED
    BY ONLY <2>1, <2>2, <2>4, <2>5, SeqEqual
<1>13. FlattenSeq(u) = u[1] \o FlattenSeq(v)
  BY <1>11, <1>12, FlattenHead
<1>14. FlattenSeq(v) \in Seq(LineType)
  BY <1>7, FlattenType
<1>15. StackLeft(<<>>) = <<>>
  BY DEF StackLeft, LevelsLeft, FlattenSeq
<1> QED
  BY <1>4, <1>9, <1>13, <1>14, <1>15 DEF StackLeft, u, v, more, n

\* The trees of the tops, one after the other.
LEMMA TreesOfIs ==
  ASSUME IsFiniteSet(Keys), hierarchy \in HierarchyType, NEW ms \in Seq(Modules)
  PROVE  /\ TreesOf(ms) \in Seq(LineType)
         /\ TreesOf(<<>>) = <<>>
         /\ ms # <<>> =>
              TreesOf(ms) = (IF Shown(Head(ms)) THEN TreeOf(Head(ms)) ELSE <<>>) \o TreesOf(Tail(ms))
<1> DEFINE tree(m) == IF Shown(m) THEN TreeOf(m) ELSE <<>>
           u == [i \in DOMAIN ms |-> tree(ms[i])]
           v == [i \in DOMAIN Tail(ms) |-> tree(Tail(ms)[i])]
<1>1. ASSUME NEW m \in Modules
      PROVE  tree(m) \in Seq(LineType)
  <2> DEFINE shown == ShownAs(m, hierarchy.top_variant[m])
             root == Line(<<>>, m, m, "root")
  <2>1. shown \in Keys /\ {shown} \in SUBSET Keys
    <3>1. hierarchy.top_variant[m] \in Variants
      BY DEF HierarchyType
    <3> QED
      BY <3>1, ShownAsType
  <2>2. TreeBelow[<<{shown}, shown>>] \in Seq(LineType)
    BY <2>1, TreeBelowType
  <2>3. <<root>> \in Seq(LineType)
    <3>1. root \in LineType
      BY DEF Line, LineType
    <3> QED
      BY <3>1
  <2>4. TreeOf(m) = <<root>> \o TreeBelow[<<{shown}, shown>>]
    BY DEF TreeOf
  <2>5. TreeOf(m) \in Seq(LineType)
    BY <2>2, <2>3, <2>4, ConcatProperties
  <2> QED
    BY <2>5
<1> HIDE DEF tree
<1>2. u \in Seq(Seq(LineType)) /\ Len(u) = Len(ms) /\ \A i \in 1..Len(ms) : u[i] = tree(ms[i])
  <2>1. DOMAIN ms = 1..Len(ms) /\ Len(ms) \in Nat /\ \A i \in 1..Len(ms) : ms[i] \in Modules
    OBVIOUS
  <2> QED
    BY <1>1, <2>1
<1>3. TreesOf(ms) = FlattenSeq(u) /\ FlattenSeq(u) \in Seq(LineType)
  <2>1. TreesOf(ms) = FlattenSeq(u)
    BY DEF TreesOf, tree
  <2> HIDE DEF u
  <2> QED
    BY <1>2, <2>1, FlattenType
<1>4. TreesOf(<<>>) = <<>>
  BY DEF TreesOf, FlattenSeq
<1>5. ASSUME ms # <<>>
      PROVE  TreesOf(ms) = tree(Head(ms)) \o TreesOf(Tail(ms))
  <2>1. /\ Tail(ms) \in Seq(Modules) /\ Len(Tail(ms)) = Len(ms) - 1 /\ Head(ms) = ms[1]
        /\ 1 \in 1..Len(ms) /\ Len(ms) \in Nat
        /\ \A i \in 1..(Len(ms) - 1) : Tail(ms)[i] = ms[i + 1] /\ i + 1 \in 1..Len(ms)
    BY <1>5
  <2>2. v \in Seq(Seq(LineType)) /\ Len(v) = Len(ms) - 1
        /\ \A i \in 1..(Len(ms) - 1) : v[i] = tree(ms[i + 1])
    <3>1. DOMAIN Tail(ms) = 1..(Len(ms) - 1) /\ Len(ms) - 1 \in Nat
      BY <1>5, <2>1
    <3>2. \A i \in 1..(Len(ms) - 1) : ms[i + 1] \in Modules
      BY <2>1
    <3>3. v = [i \in 1..(Len(ms) - 1) |-> tree(ms[i + 1])]
      BY <2>1, <3>1
    <3> HIDE DEF v
    <3> QED
      BY <1>1, <3>1, <3>2, <3>3
  <2>3. TreesOf(Tail(ms)) = FlattenSeq(v)
    BY DEF TreesOf, tree
  <2> HIDE DEF u, v
  <2>4. u # <<>>
    BY <1>2, <2>1
  <2>5. Tail(u) \in Seq(Seq(LineType)) /\ Len(Tail(u)) = Len(ms) - 1
        /\ \A i \in 1..(Len(ms) - 1) : Tail(u)[i] = u[i + 1]
    BY <1>2, <2>1, <2>4
  <2>6. \A i \in 1..(Len(ms) - 1) : Tail(u)[i] = v[i]
    BY <1>2, <2>1, <2>2, <2>5
  <2>7. Tail(u) = v
    BY <2>2, <2>5, <2>6, SeqEqual
  <2>8. FlattenSeq(u) = u[1] \o FlattenSeq(v)
    BY <1>2, <2>4, <2>7, FlattenHead
  <2> QED
    BY <1>2, <1>3, <2>1, <2>3, <2>8
<1> QED
  BY <1>3, <1>4, <1>5 DEF tree

\* The tops that are walked are those to be shown.
LEMMA ShownIsTop ==
  ASSUME hierarchy \in HierarchyType, NEW m \in Modules
  PROVE  Shown(m) <=> IsTop(m)
<1>1. \A p \in Definitions : /\ p \in Modules
                         /\ hierarchy.insts[p] \in Seq(TreeInstances)
  <2>1. hierarchy.defs \in Seq(Modules) /\ hierarchy.insts \in [Modules -> Seq(TreeInstances)]
    BY DEF HierarchyType
  <2>2. \A p \in Definitions : p \in Modules
    BY <2>1 DEF Definitions, ToSet
  <2> QED
    BY <2>1, <2>2
<1>2. m \in Instantiated
        <=> \E p \in Definitions : \E i \in DOMAIN hierarchy.insts[p] : hierarchy.insts[p][i].mod_name = m
  BY DEF Instantiated, ToSet
<1> QED
  BY <1>2 DEF Shown, IsTop

\* The line of a level's child, drawn below the levels around it.
LEMMA RowDrawn ==
  ASSUME hierarchy \in HierarchyType, NEW key \in Keys, NEW indent \in Seq(BOOLEAN),
         NEW i \in DOMAIN ChildrenOf(key), NEW marker \in {"blackbox", "cycle", "none"}
  PROVE  /\ Indented(indent, RowOf(key, i, marker))
              = <<Line(Append(indent, i = Len(ChildrenOf(key))),
                       ChildrenOf(key)[i].inst_name, ChildrenOf(key)[i].mod_name, marker)>>
         /\ Append(indent, i = Len(ChildrenOf(key))) \in Seq(BOOLEAN)
         /\ Append(indent, i = Len(ChildrenOf(key))) = indent \o <<i = Len(ChildrenOf(key))>>
         /\ Indented(indent, RowOf(key, i, marker)) \in Seq(LineType)
<1> DEFINE last == i = Len(ChildrenOf(key))
           name == ChildrenOf(key)[i].inst_name
           mod == ChildrenOf(key)[i].mod_name
           row == RowOf(key, i, marker)
<1>1. last \in BOOLEAN
  OBVIOUS
<1>2. name \in Nat /\ mod \in Modules
  BY ChildOf
<1>3. row = <<Line(<<last>>, name, mod, marker)>> /\ row \in Seq(LineType)
  BY RowOfType DEF RowOf
<1> HIDE DEF last, name, mod, row
<1>4. /\ Append(indent, last) \in Seq(BOOLEAN) /\ <<last>> \in Seq(BOOLEAN)
      /\ Append(indent, last) = indent \o <<last>>
  BY <1>1, AppendProperties, AppendIsConcat
<1>5. Line(<<last>>, name, mod, marker) \in LineType
  BY <1>2, <1>4 DEF Line, LineType
<1>6. Deeper(indent, Line(<<last>>, name, mod, marker)) = Line(indent \o <<last>>, name, mod, marker)
  <2> DEFINE line == Line(<<last>>, name, mod, marker)
             deep == Deeper(indent, line)
  <2>1. deep \in LineType /\ deep.guide = indent \o <<last>>
    BY <1>5, DeeperLine DEF Line
  <2>2. deep.name = name /\ deep.module = mod /\ deep.marker = marker
    BY DEF Deeper, Line
  <2>3. deep = [guide |-> deep.guide, name |-> deep.name, module |-> deep.module,
                marker |-> deep.marker]
    <3> HIDE DEF deep
    <3> QED
      BY <2>1 DEF LineType
  <2> HIDE DEF deep
  <2>4. deep = Line(indent \o <<last>>, name, mod, marker)
    BY <2>1, <2>2, <2>3 DEF Line
  <2> QED
    BY <2>4 DEF deep
<1>7. /\ Indented(indent, row) \in Seq(LineType) /\ Len(Indented(indent, row)) = 1
      /\ Indented(indent, row)[1] = Deeper(indent, row[1])
  <2>1. Len(row) = 1 /\ 1 \in 1..Len(row)
    BY <1>3
  <2> QED
    BY <1>3, <2>1, IndentedLines
<1>8. row[1] = Line(<<last>>, name, mod, marker)
  BY <1>3
<1>9. Indented(indent, row) = <<Line(Append(indent, last), name, mod, marker)>>
  BY <1>4, <1>6, <1>7, <1>8
<1> QED
  BY <1>4, <1>7, <1>9 DEF last, name, mod, row
-----------------------------------------------------------------------------
(* Every step prints the first of the lines that are left. *)

\* The stack is its innermost level on the levels around it.
LEMMA InnermostLevel ==
  ASSUME IInv, stack # <<>>
  PROVE  /\ Front(stack) \in Seq(LevelType) /\ Current \in LevelType
         /\ stack = Append(Front(stack), Current)
         /\ Advanced = Append(Front(stack), [Current EXCEPT !.next = @ + 1])
         /\ [Current EXCEPT !.next = @ + 1] \in LevelType
         /\ expanding = OpenAt(Front(stack), Len(Front(stack))) \union {Current.key}
         /\ expanding \in SUBSET Keys
<1> DEFINE n == Len(stack)
           base == Front(stack)
           after == [Current EXCEPT !.next = @ + 1]
<1>1. stack \in Seq(LevelType) /\ n \in Nat /\ n # 0 /\ n \in 1..n
  BY DEF IInv
<1>2. Current = stack[n] /\ Current \in LevelType
  BY <1>1 DEF Current, Last
<1>3. /\ base \in Seq(LevelType) /\ Len(base) = n - 1
      /\ \A i \in 1..(n - 1) : base[i] = stack[i]
  <2>1. base = SubSeq(stack, 1, n - 1)
    BY DEF Front
  <2>2. n - 1 \in Int /\ 1 \in Int /\ \A i \in 1..(n - 1) : stack[i] \in LevelType
    BY <1>1
  <2> HIDE DEF base, n
  <2>3. SubSeq(stack, 1, n - 1) \in Seq(LevelType) /\ Len(SubSeq(stack, 1, n - 1)) = n - 1
    BY <1>1, <2>2, SubSeqProperties
  <2>4. \A i \in 1..(n - 1) : SubSeq(stack, 1, n - 1)[i] = stack[i]
    BY <1>1
  <2> QED
    BY <2>1, <2>3, <2>4
<1>4. after \in LevelType /\ after = [stack[n] EXCEPT !.next = @ + 1]
  BY <1>2 DEF LevelType
<1> HIDE DEF base, after
<1>5. stack = Append(base, Current)
  <2>1. /\ Append(base, Current) \in Seq(LevelType) /\ Len(Append(base, Current)) = n
        /\ \A i \in 1..n : Append(base, Current)[i] = IF i <= n - 1 THEN base[i] ELSE Current
    BY <1>1, <1>2, <1>3
  <2>2. \A i \in 1..n : stack[i] = Append(base, Current)[i]
    <3>1. \A i \in 1..n : i \in 1..(n - 1) \/ i = n
      BY <1>1
    <3> QED
      BY <1>1, <1>2, <1>3, <2>1, <3>1
  <2> QED
    BY <1>1, <2>1, <2>2, SeqEqual
<1>6. Advanced = Append(base, after)
  <2>1. Advanced = [stack EXCEPT ![n] = after]
    BY <1>1, <1>4 DEF Advanced
  <2>2. /\ Advanced \in Seq(LevelType) /\ Len(Advanced) = n
        /\ \A i \in 1..n : Advanced[i] = IF i = n THEN after ELSE stack[i]
    BY <1>1, <1>4, <2>1
  <2>3. /\ Append(base, after) \in Seq(LevelType) /\ Len(Append(base, after)) = n
        /\ \A i \in 1..n : Append(base, after)[i] = IF i <= n - 1 THEN base[i] ELSE after
    BY <1>1, <1>3, <1>4
  <2>4. \A i \in 1..n : Advanced[i] = Append(base, after)[i]
    <3>1. \A i \in 1..n : (i \in 1..(n - 1) /\ i # n /\ i <= n - 1) \/ (i = n /\ ~(i <= n - 1))
      BY <1>1
    <3> QED
      BY <1>3, <2>2, <2>3, <3>1
  <2> QED
    BY <2>2, <2>3, <2>4, SeqEqual
<1>7. expanding = OpenAt(base, n - 1) \union {Current.key}
  <2>1. expanding = {stack[i].key : i \in 1..n}
    BY <1>1 DEF IInv, ExpandingIsTheStack
  <2>2. \A i \in 1..n : i \in 1..(n - 1) \/ i = n
    BY <1>1
  <2>3. \A i \in 1..(n - 1) : i \in 1..n
    BY <1>1
  <2> QED
    BY <1>1, <1>2, <1>3, <2>1, <2>2, <2>3 DEF OpenAt
<1>8. expanding \in SUBSET Keys
  <2>1. \A i \in 1..n : stack[i] \in LevelType
    BY <1>1
  <2>2. \A l \in LevelType : l.key \in Keys
    BY DEF LevelType
  <2>3. expanding = {stack[i].key : i \in 1..n}
    BY <1>1 DEF IInv, ExpandingIsTheStack
  <2> QED
    BY <2>1, <2>2, <2>3
<1> QED
  BY <1>2, <1>3, <1>4, <1>5, <1>6, <1>7, <1>8 DEF base, after

\* A level that moves on has printed the lines with the child it was at.
LEMMA MovingOn ==
  ASSUME IsFiniteSet(Keys), IInv, Pending
  PROVE  /\ Current.key \in Keys /\ Current.next \in DOMAIN ChildrenOf(Current.key)
         /\ Current.indent \in Seq(BOOLEAN)
         /\ RowsOf(TreeBelow, expanding, Current.key, Current.next) \in Seq(LineType)
         /\ StackLeft(stack) \in Seq(LineType) /\ StackLeft(Advanced) \in Seq(LineType)
         /\ Advanced \in Seq(LevelType)
         /\ expanding = OpenAt(Advanced, Len(Advanced))
         /\ StackLeft(stack)
              = Indented(Current.indent, RowsOf(TreeBelow, expanding, Current.key, Current.next))
                  \o StackLeft(Advanced)
<1> DEFINE base == Front(stack)
           after == [Current EXCEPT !.next = @ + 1]
           rows == RowsOf(TreeBelow, expanding, Current.key, Current.next)
<1>1. /\ base \in Seq(LevelType) /\ Current \in LevelType /\ after \in LevelType
      /\ stack = Append(base, Current) /\ Advanced = Append(base, after)
      /\ expanding = OpenAt(base, Len(base)) \union {Current.key} /\ expanding \in SUBSET Keys
  BY InnermostLevel DEF Pending
<1>2. hierarchy \in HierarchyType
  BY DEF IInv
<1>3. Current.key \in Keys /\ Current.indent \in Seq(BOOLEAN) /\ after.key = Current.key
  BY <1>1 DEF LevelType
<1> HIDE DEF base, rows
<1>4. /\ StackLeft(base) \in Seq(LineType)
      /\ StackLeft(stack) = LevelLeft(expanding, Current) \o StackLeft(base)
  BY <1>1, <1>2, StackLeftPush
<1>5. StackLeft(Advanced) = LevelLeft(expanding, after) \o StackLeft(base)
  <2> HIDE DEF after
  <2>1. StackLeft(Append(base, after))
          = LevelLeft(OpenAt(base, Len(base)) \union {after.key}, after) \o StackLeft(base)
    BY <1>1, <1>2, StackLeftPush
  <2> QED
    BY <1>1, <1>3, <2>1 DEF after
<1>6. /\ Current.next \in DOMAIN ChildrenOf(Current.key)
      /\ rows \in Seq(LineType)
      /\ LevelLeft(expanding, Current) = Indented(Current.indent, rows) \o LevelLeft(expanding, after)
      /\ LevelLeft(expanding, Current) \in Seq(LineType)
  <2>1. Current.next <= Len(ChildrenOf(Current.key))
    BY DEF Pending
  <2> QED
    BY <1>1, <1>2, <2>1, LevelLeftIs DEF rows
<1>7. LevelLeft(expanding, after) \in Seq(LineType)
  <2> HIDE DEF after
  <2> QED
    BY <1>1, <1>2, LevelLeftIs
<1> HIDE DEF after
<1>8. Indented(Current.indent, rows) \in Seq(LineType)
  BY <1>3, <1>6, IndentedLines
<1>9. (Indented(Current.indent, rows) \o LevelLeft(expanding, after)) \o StackLeft(base)
        = Indented(Current.indent, rows) \o (LevelLeft(expanding, after) \o StackLeft(base))
  BY <1>4, <1>7, <1>8, LinesAssociate
<1>10. StackLeft(stack) \in Seq(LineType) /\ StackLeft(Advanced) \in Seq(LineType)
  BY <1>4, <1>5, <1>6, <1>7, ConcatProperties
<1>11. Advanced \in Seq(LevelType)
  BY <1>1
<1>12. expanding = OpenAt(Advanced, Len(Advanced))
  <2> DEFINE n == Len(base)
  <2>1. /\ n \in Nat /\ Len(Advanced) = n + 1 /\ Advanced[n + 1] = after
        /\ \A i \in 1..n : Advanced[i] = base[i]
    BY <1>1
  <2> HIDE DEF n
  <2>2. \A i \in 1..(n + 1) : i \in 1..n \/ i = n + 1
    BY <2>1
  <2>3. n + 1 \in 1..(n + 1) /\ \A i \in 1..n : i \in 1..(n + 1)
    BY <2>1
  <2>4. OpenAt(Advanced, n + 1) = OpenAt(base, n) \union {Current.key}
    BY <1>3, <2>1, <2>2, <2>3 DEF OpenAt
  <2> QED
    BY <1>1, <2>1, <2>4 DEF n
<1> QED
  BY <1>3, <1>4, <1>5, <1>6, <1>9, <1>10, <1>11, <1>12 DEF rows

\* What has been printed and what is left are the trees of the tops.
Printed ==
  /\ lines \in Seq(LineType)
  /\ lines \o (StackLeft(stack) \o TreesOf(tops)) = TreesOf(TopsOrAll)

\* No step changes the hierarchy, and so what is to be printed of it.
LEMMA SameTrees ==
  ASSUME hierarchy' = hierarchy
  PROVE  /\ StackLeft(stack)' = StackLeft(stack')
         /\ TreesOf(tops)' = TreesOf(tops')
         /\ TreesOf(TopsOrAll)' = TreesOf(TopsOrAll)
<1>1. TreeBelow' = TreeBelow
  BY DEF TreeBelow, RowsOf, RowOf, ChildrenOf, ShownAs, Definitions, Indented, Line
<1>2. StackLeft(stack)' = StackLeft(stack')
  BY <1>1 DEF StackLeft, LevelsLeft, LevelLeft, RowsLeft, Rows, OpenAt,
              RowsOf, RowOf, ChildrenOf, ShownAs, Definitions, Indented, Line
<1>3. TreesOf(tops)' = TreesOf(tops')
  BY <1>1 DEF TreesOf, TreeOf, Shown, ShownAs, Definitions, Line
<1>4. TreesOf(TopsOrAll)' = TreesOf(TopsOrAll)
  BY <1>1 DEF TreesOf, TreeOf, TopsOrAll, Shown, ShownAs, Definitions, Line
<1> QED
  BY <1>2, <1>3, <1>4

\* A step that prints the first of the lines that are left keeps Printed.
LEMMA PrintsNext ==
  ASSUME Printed, hierarchy' = hierarchy, NEW new \in Seq(LineType),
         StackLeft(stack') \in Seq(LineType), TreesOf(tops') \in Seq(LineType),
         StackLeft(stack) \o TreesOf(tops) = (new \o StackLeft(stack')) \o TreesOf(tops'),
         lines' = lines \o new
  PROVE  Printed'
<1>1. /\ lines \o ((new \o StackLeft(stack')) \o TreesOf(tops'))
           = (lines \o new) \o (StackLeft(stack') \o TreesOf(tops'))
      /\ lines \o new \in Seq(LineType)
  <2>1. lines \in Seq(LineType)
    BY DEF Printed
  <2>2. \A x, y, z \in Seq(LineType) : (x \o y) \o z = x \o (y \o z)
    BY LinesAssociate
  <2> DEFINE s == StackLeft(stack')
             t == TreesOf(tops')
  <2>3. new \in Seq(LineType) /\ s \in Seq(LineType) /\ t \in Seq(LineType)
    OBVIOUS
  <2> HIDE DEF s, t
  <2>4. lines \o ((new \o s) \o t) = (lines \o new) \o (s \o t)
    <3>1. (new \o s) \o t = new \o (s \o t)
      BY <2>2, <2>3
    <3>2. s \o t \in Seq(LineType)
      BY <2>3, ConcatProperties
    <3>3. lines \o (new \o (s \o t)) = (lines \o new) \o (s \o t)
      <4> DEFINE st == s \o t
      <4>1. st \in Seq(LineType)
        BY <3>2
      <4> HIDE DEF st
      <4>2. lines \o (new \o st) = (lines \o new) \o st
        BY <2>1, <2>2, <2>3, <4>1
      <4> QED
        BY <4>2 DEF st
    <3> QED
      BY <3>1, <3>3
  <2>5. lines \o new \in Seq(LineType)
    BY <2>1, <2>3, ConcatProperties
  <2> QED
    BY <2>4, <2>5 DEF s, t
<1>2. lines \o (StackLeft(stack) \o TreesOf(tops)) = TreesOf(TopsOrAll)
  BY DEF Printed
<1>3. lines' \o (StackLeft(stack') \o TreesOf(tops')) = TreesOf(TopsOrAll)
  BY <1>1, <1>2
<1>4. lines' \in Seq(LineType)
  BY <1>1
<1> QED
  BY <1>3, <1>4, SameTrees DEF Printed

LEMMA StartTopPrints ==
  ASSUME IsFiniteSet(Keys), IsFiniteSet(ParamSettings), IInv, tops \in Seq(Modules), Printed, StartTop
  PROVE  Printed'
<1> DEFINE top == Head(tops)
           variant == hierarchy.top_variant[top]
           shown == ShownAs(top, variant)
           level == Level(top, variant, <<>>)
           root == Line(<<>>, top, top, "root")
           below == TreeBelow[<<{shown}, shown>>]
<1>1. hierarchy \in HierarchyType /\ hierarchy' = hierarchy
  BY DEF IInv, StartTop
<1>2. /\ top \in Modules /\ tops # <<>> /\ Tail(tops) \in Seq(Modules)
      /\ stack = <<>> /\ IsTop(top)
      /\ lines' = Append(lines, root) /\ stack' = <<level>> /\ tops' = Tail(tops)
  BY DEF StartTop
<1>3. variant \in Variants /\ shown \in Keys /\ {shown} \in SUBSET Keys
  <2>1. variant \in Variants
    BY <1>1, <1>2 DEF HierarchyType
  <2> QED
    BY <1>1, <1>2, <2>1, ShownAsType
<1>4. below \in Seq(LineType) /\ <<root>> \in Seq(LineType) /\ root \in LineType
  <2>1. below \in Seq(LineType)
    BY <1>1, <1>3, TreeBelowType
  <2>2. root \in LineType
    BY <1>2 DEF Line, LineType
  <2> HIDE DEF root, below
  <2> QED
    BY <2>1, <2>2
<1>5. TreesOf(tops) = (<<root>> \o below) \o TreesOf(tops')
  <2>1. Shown(top)
    BY <1>1, <1>2, ShownIsTop
  <2>2. TreeOf(top) = <<root>> \o below
    BY DEF TreeOf
  <2> QED
    BY <1>1, <1>2, <2>1, <2>2, TreesOfIs
<1>6. StackLeft(stack) = <<>> /\ TreesOf(tops') \in Seq(LineType) /\ TreesOf(tops) \in Seq(LineType)
  <2>1. StackLeft(<<>>) = <<>>
    BY DEF StackLeft, LevelsLeft, FlattenSeq
  <2> QED
    BY <1>1, <1>2, <2>1, TreesOfIs
<1>7. StackLeft(stack') = below
  <2>1. level \in LevelType /\ level.key = shown /\ level.next = 1 /\ level.indent = <<>>
    <3>1. <<>> \in Seq(BOOLEAN)
      OBVIOUS
    <3>2. level \in LevelType /\ level.key = SelectChildren(top, variant)
      BY <1>1, <1>2, <1>3, <3>1, LevelHasType
    <3>3. SelectChildren(top, variant) = shown
      BY <1>1, <1>2, <1>3, ShownAsSelected
    <3> QED
      BY <3>2, <3>3 DEF Level
  <2> HIDE DEF level, shown
  <2>2. LevelLeft({shown}, level) = Indented(<<>>, TreeBelow[<<{shown}, shown>>])
    BY <1>1, <1>3, <2>1, LevelLeftIs
  <2>3. Indented(<<>>, TreeBelow[<<{shown}, shown>>]) = below
    <3>1. <<>> \in Seq(BOOLEAN)
      OBVIOUS
    <3>2. \A b \in Seq(LineType) : Indented(<<>>, b) = b
      BY <3>1, IndentedTwice
    <3> QED
      BY <1>4, <3>2
  <2>4. /\ OpenAt(<<>>, 0) = {} /\ <<>> \in Seq(LevelType) /\ Len(<<>>) = 0
        /\ <<level>> = Append(<<>>, level)
    BY <2>1 DEF OpenAt
  <2>5. StackLeft(<<level>>) = LevelLeft(OpenAt(<<>>, Len(<<>>)) \union {level.key}, level) \o StackLeft(<<>>)
    BY <1>1, <2>1, <2>4, StackLeftPush
  <2>6. OpenAt(<<>>, Len(<<>>)) \union {level.key} = {shown}
    BY <2>1, <2>4
  <2>7. StackLeft(<<>>) = <<>>
    BY <1>1, <2>1, <2>4, StackLeftPush
  <2>8. below \o <<>> = below
    BY <1>4, ConcatEmptySeq
  <2> QED
    BY <1>2, <2>2, <2>3, <2>5, <2>6, <2>7, <2>8
<1> HIDE DEF root, below, level
<1>8. StackLeft(stack) \o TreesOf(tops) = (<<root>> \o StackLeft(stack')) \o TreesOf(tops')
  BY <1>5, <1>6, <1>7, ConcatEmptySeq
<1>9. lines' = lines \o <<root>>
  BY <1>2, <1>4, AppendIsConcat DEF Printed
<1> QED
  BY <1>1, <1>4, <1>6, <1>7, <1>8, <1>9, PrintsNext

LEMMA SkipTopPrints ==
  ASSUME IsFiniteSet(Keys), IInv, tops \in Seq(Modules), Printed, SkipTop
  PROVE  Printed'
<1>1. /\ hierarchy \in HierarchyType /\ hierarchy' = hierarchy /\ lines' = lines /\ stack' = stack
      /\ tops # <<>> /\ ~IsTop(Head(tops)) /\ tops' = Tail(tops) /\ Head(tops) \in Modules
      /\ Tail(tops) \in Seq(Modules)
  BY DEF IInv, SkipTop
<1>2. ~Shown(Head(tops))
  BY <1>1, ShownIsTop
<1>3. TreesOf(tops) = <<>> \o TreesOf(tops') /\ TreesOf(tops') \in Seq(LineType)
  BY <1>1, <1>2, TreesOfIs
<1>4. TreesOf(tops) = TreesOf(tops')
  BY <1>3, ConcatEmptySeq
<1> QED
  BY <1>1, <1>4, SameTrees DEF Printed

\* Blackbox and Cycle.
LEMMA RowPrints ==
  ASSUME IsFiniteSet(Keys), IInv, tops \in Seq(Modules), Printed, Pending,
         NEW marker \in {"blackbox", "cycle"},
         RowsOf(TreeBelow, expanding, Current.key, Current.next)
           = RowOf(Current.key, Current.next, marker),
         Yield(marker), stack' = Advanced, UNCHANGED <<hierarchy, tops>>
  PROVE  Printed'
<1> DEFINE line == Line(Guide, Child.inst_name, Child.mod_name, marker)
<1>1. hierarchy \in HierarchyType /\ hierarchy' = hierarchy /\ tops' = tops
  BY DEF IInv
<1>2. /\ Current.key \in Keys /\ Current.next \in DOMAIN ChildrenOf(Current.key)
      /\ Current.indent \in Seq(BOOLEAN)
      /\ StackLeft(stack') \in Seq(LineType)
      /\ StackLeft(stack)
           = Indented(Current.indent, RowOf(Current.key, Current.next, marker)) \o StackLeft(stack')
  BY MovingOn
<1>3. /\ Indented(Current.indent, RowOf(Current.key, Current.next, marker)) = <<line>>
      /\ Indented(Current.indent, RowOf(Current.key, Current.next, marker)) \in Seq(LineType)
  <2>1. marker \in {"blackbox", "cycle", "none"}
    OBVIOUS
  <2>2. Guide = Append(Current.indent, Current.next = Len(ChildrenOf(Current.key)))
    BY DEF Guide
  <2>3. Child = ChildrenOf(Current.key)[Current.next]
    BY DEF Child
  <2> QED
    BY <1>1, <1>2, <2>1, <2>2, <2>3, RowDrawn
<1>4. lines' = Append(lines, line)
  BY DEF Yield
<1> HIDE DEF line
<1>5. <<line>> \in Seq(LineType) /\ line \in LineType
  <2>1. <<line>> \in Seq(LineType)
    BY <1>3
  <2>2. Len(<<line>>) = 1 /\ <<line>>[1] = line /\ 1 \in 1..1
    OBVIOUS
  <2> QED
    BY <2>1, <2>2
<1>6. lines' = lines \o <<line>>
  BY <1>4, <1>5, AppendIsConcat DEF Printed
<1>7. TreesOf(tops') \in Seq(LineType)
  BY <1>1, TreesOfIs
<1>8. StackLeft(stack) \o TreesOf(tops) = (<<line>> \o StackLeft(stack')) \o TreesOf(tops')
  BY <1>1, <1>2, <1>3
<1> QED
  BY <1>1, <1>2, <1>5, <1>6, <1>7, <1>8, PrintsNext

\* The child whose turn it is, as _select_children chooses its children.
LEMMA ChildShown ==
  ASSUME IsFiniteSet(ParamSettings), IInv, Pending
  PROVE  Below.key = ShownAs(Child.mod_name, Child.variant)
<1>1. Child.mod_name \in Modules /\ Child.variant \in Variants
  BY PendingChild DEF TreeInstances
<1>2. SelectChildren(Child.mod_name, Child.variant) = ShownAs(Child.mod_name, Child.variant)
  BY <1>1, ShownAsSelected DEF IInv
<1> QED
  BY <1>2 DEF Below, Level

LEMMA BlackboxPrints ==
  ASSUME IsFiniteSet(Keys), IInv, tops \in Seq(Modules), Printed, Blackbox
  PROVE  Printed'
<1>1. RowsOf(TreeBelow, expanding, Current.key, Current.next)
        = RowOf(Current.key, Current.next, "blackbox")
  BY DEF Blackbox, Child, RowsOf
<1>2. Pending /\ Yield("blackbox") /\ stack' = Advanced /\ UNCHANGED <<hierarchy, tops>>
  BY DEF Blackbox
<1>3. "blackbox" \in {"blackbox", "cycle"}
  OBVIOUS
<1> QED
  BY <1>1, <1>2, <1>3, RowPrints

LEMMA CyclePrints ==
  ASSUME IsFiniteSet(Keys), IsFiniteSet(ParamSettings), IInv, tops \in Seq(Modules), Printed, Cycle
  PROVE  Printed'
<1>1. Pending /\ Yield("cycle") /\ stack' = Advanced /\ UNCHANGED <<hierarchy, tops>>
  BY DEF Cycle
<1>2. Child.mod_name \in Definitions /\ ShownAs(Child.mod_name, Child.variant) \in expanding
  BY <1>1, ChildShown DEF Cycle, Open
<1>3. RowsOf(TreeBelow, expanding, Current.key, Current.next)
        = RowOf(Current.key, Current.next, "cycle")
  BY <1>2 DEF Child, RowsOf
<1>4. "cycle" \in {"blackbox", "cycle"}
  OBVIOUS
<1> QED
  BY <1>1, <1>3, <1>4, RowPrints

LEMMA DescendPrints ==
  ASSUME IsFiniteSet(Keys), IsFiniteSet(ParamSettings), IInv, tops \in Seq(Modules), Printed, Descend
  PROVE  Printed'
<1> DEFINE shown == ShownAs(Child.mod_name, Child.variant)
           open == expanding \union {shown}
           last == <<Current.next = Len(ChildrenOf(Current.key))>>
           row == RowOf(Current.key, Current.next, "none")
           below == TreeBelow[<<open, shown>>]
           deep == Indented(Guide, below)
           line == Line(Guide, Child.inst_name, Child.mod_name, "none")
<1>1. /\ hierarchy \in HierarchyType /\ hierarchy' = hierarchy /\ tops' = tops
      /\ Pending /\ Child.mod_name \in Definitions /\ Below.key \notin expanding
      /\ lines' = Append(lines, line) /\ stack' = Append(Advanced, Below)
  BY DEF IInv, Descend, Open, Yield
<1>2. /\ Below \in LevelType /\ Guide \in Seq(BOOLEAN)
      /\ Below.key = shown /\ Below.next = 1 /\ Below.indent = Guide
  BY <1>1, PendingChild, ChildShown DEF Below, Level
<1>3. shown \in Keys /\ open \in SUBSET Keys
  <2>1. shown \in Keys
    BY <1>2 DEF LevelType
  <2>2. expanding \in SUBSET Keys
    BY <1>1, InnermostLevel DEF Pending
  <2> HIDE DEF shown
  <2> QED
    BY <2>1, <2>2
<1>4. below \in Seq(LineType)
  <2> HIDE DEF open, shown
  <2> QED
    BY <1>1, <1>3, TreeBelowType
<1>5. RowsOf(TreeBelow, expanding, Current.key, Current.next) = row \o Indented(last, below)
  BY <1>1, <1>2 DEF Child, RowsOf
<1>6. /\ Current.key \in Keys /\ Current.next \in DOMAIN ChildrenOf(Current.key)
      /\ Current.indent \in Seq(BOOLEAN)
      /\ StackLeft(Advanced) \in Seq(LineType) /\ Advanced \in Seq(LevelType)
      /\ expanding = OpenAt(Advanced, Len(Advanced))
      /\ StackLeft(stack)
           = Indented(Current.indent, RowsOf(TreeBelow, expanding, Current.key, Current.next))
               \o StackLeft(Advanced)
  BY <1>1, MovingOn
<1>7. /\ Indented(Current.indent, row) = <<line>> /\ Indented(Current.indent, row) \in Seq(LineType)
      /\ Guide = Current.indent \o last
  <2>1. "none" \in {"blackbox", "cycle", "none"}
    OBVIOUS
  <2>2. Guide = Append(Current.indent, Current.next = Len(ChildrenOf(Current.key)))
    BY DEF Guide
  <2>3. Child = ChildrenOf(Current.key)[Current.next]
    BY DEF Child
  <2>4. /\ Current.key \in Keys /\ Current.next \in DOMAIN ChildrenOf(Current.key)
        /\ Current.indent \in Seq(BOOLEAN)
    BY <1>6
  <2>5. /\ row = RowOf(Current.key, Current.next, "none")
        /\ last = <<Current.next = Len(ChildrenOf(Current.key))>>
        /\ line = Line(Guide, Child.inst_name, Child.mod_name, "none")
    OBVIOUS
  <2> HIDE DEF row, last, line, shown, open, below, deep
  <2>6. /\ Indented(Current.indent, RowOf(Current.key, Current.next, "none"))
             = <<Line(Guide, Child.inst_name, Child.mod_name, "none")>>
        /\ Indented(Current.indent, RowOf(Current.key, Current.next, "none")) \in Seq(LineType)
    <3>1. hierarchy \in HierarchyType
      BY <1>1
    <3> QED
      BY ONLY <2>1, <2>2, <2>3, <2>4, <3>1, RowDrawn
  <2>7. Append(Current.indent, Current.next = Len(ChildrenOf(Current.key)))
          = Current.indent \o <<Current.next = Len(ChildrenOf(Current.key))>>
    BY <1>1, <2>1, <2>4, RowDrawn
  <2> QED
    BY <2>2, <2>5, <2>6, <2>7
<1>8. last \in Seq(BOOLEAN) /\ row \in Seq(LineType)
  <2>1. row \in Seq(LineType)
    BY <1>1, <1>6, RowOfType
  <2>2. last \in Seq(BOOLEAN)
    OBVIOUS
  <2> QED
    BY <2>1, <2>2
<1> HIDE DEF shown, open, last, row, below, line
<1>9. Indented(last, below) \in Seq(LineType) /\ deep \in Seq(LineType)
  BY <1>2, <1>4, <1>8, IndentedLines
<1>10. Indented(Current.indent, row \o Indented(last, below)) = <<line>> \o deep
  <2>1. Indented(Current.indent, row \o Indented(last, below))
          = Indented(Current.indent, row) \o Indented(Current.indent, Indented(last, below))
    BY <1>6, <1>8, <1>9, IndentedConcat
  <2>2. Indented(Current.indent, Indented(last, below)) = deep
    BY <1>4, <1>6, <1>7, <1>8, IndentedTwice
  <2> QED
    BY <1>7, <2>1, <2>2
<1> HIDE DEF deep
<1>11. StackLeft(stack') = deep \o StackLeft(Advanced) /\ StackLeft(stack') \in Seq(LineType)
  <2>1. StackLeft(Append(Advanced, Below))
          = LevelLeft(OpenAt(Advanced, Len(Advanced)) \union {Below.key}, Below) \o StackLeft(Advanced)
    BY <1>1, <1>2, <1>6, StackLeftPush
  <2>2. OpenAt(Advanced, Len(Advanced)) \union {Below.key} = open
    BY <1>2, <1>6 DEF open
  <2>3. LevelLeft(open, Below) = deep
    BY <1>1, <1>2, <1>3, LevelLeftIs DEF deep, below
  <2>4. StackLeft(stack') = deep \o StackLeft(Advanced)
    BY <1>1, <2>1, <2>2, <2>3
  <2> QED
    BY <1>6, <1>9, <2>4, ConcatProperties
<1>12. <<line>> \in Seq(LineType) /\ line \in LineType
  <2>1. <<line>> \in Seq(LineType)
    BY <1>7
  <2>2. Len(<<line>>) = 1 /\ <<line>>[1] = line /\ 1 \in 1..1
    OBVIOUS
  <2> QED
    BY <2>1, <2>2
<1>13. StackLeft(stack) = <<line>> \o StackLeft(stack')
  <2>1. StackLeft(stack) = (<<line>> \o deep) \o StackLeft(Advanced)
    BY <1>5, <1>6, <1>10
  <2>2. (<<line>> \o deep) \o StackLeft(Advanced) = <<line>> \o (deep \o StackLeft(Advanced))
    BY <1>6, <1>9, <1>12, LinesAssociate
  <2> QED
    BY <1>11, <2>1, <2>2
<1>14. lines' = lines \o <<line>>
  BY <1>1, <1>12, AppendIsConcat DEF Printed
<1>15. TreesOf(tops') \in Seq(LineType)
  BY <1>1, TreesOfIs
<1>16. StackLeft(stack) \o TreesOf(tops) = (<<line>> \o StackLeft(stack')) \o TreesOf(tops')
  BY <1>1, <1>13
<1> QED
  BY <1>1, <1>11, <1>12, <1>14, <1>15, <1>16, PrintsNext

LEMMA AscendPrints ==
  ASSUME IsFiniteSet(Keys), IInv, tops \in Seq(Modules), Printed, Ascend
  PROVE  Printed'
<1> DEFINE base == Front(stack)
<1>1. /\ hierarchy \in HierarchyType /\ hierarchy' = hierarchy /\ tops' = tops /\ lines' = lines
      /\ stack # <<>> /\ ~Pending /\ stack' = base
  BY DEF IInv, Ascend
<1>2. /\ base \in Seq(LevelType) /\ Current \in LevelType /\ stack = Append(base, Current)
      /\ expanding = OpenAt(base, Len(base)) \union {Current.key} /\ expanding \in SUBSET Keys
  BY <1>1, InnermostLevel
<1>3. Current.next > Len(ChildrenOf(Current.key))
  <2>1. Current.next \in Nat /\ Current.key \in Keys
    BY <1>2 DEF LevelType
  <2>2. ChildrenOf(Current.key) \in Seq(TreeInstances)
    BY <1>1, <2>1, ChildrenType
  <2>3. Len(ChildrenOf(Current.key)) \in Nat
    BY <2>2
  <2> QED
    BY <1>1, <2>1, <2>3 DEF Pending
<1> HIDE DEF base
<1>4. StackLeft(stack) = LevelLeft(expanding, Current) \o StackLeft(base)
      /\ StackLeft(base) \in Seq(LineType)
  BY <1>1, <1>2, StackLeftPush
<1>5. LevelLeft(expanding, Current) = <<>>
  BY <1>1, <1>2, <1>3, LevelLeftIs
<1>6. StackLeft(stack) = StackLeft(stack')
  BY <1>1, <1>4, <1>5, ConcatEmptySeq
<1> QED
  BY <1>1, <1>6, SameTrees DEF Printed

\* iter_tree prints, in order and drawn as deep as it is, what the definition of the
\* tree gives: whatever the cycles and the settings, for every hierarchy of finitely
\* many definitions.
THEOREM TheTreeIsPrinted ==
  IsFiniteSet(Modules) /\ IsFiniteSet(ParamSettings) => (TreeSpec => []LinesAreTheTree)
<1> SUFFICES ASSUME IsFiniteSet(Modules), IsFiniteSet(ParamSettings)
             PROVE  TreeSpec => []LinesAreTheTree
  OBVIOUS
<1>1. IsFiniteSet(Keys)
  <2>1. IsFiniteSet(Variants)
    BY FS_AddElement DEF Variants
  <2> QED
    BY <2>1, FS_Product DEF Keys
<1>2. TreeInit => Printed
  <2> SUFFICES ASSUME TreeInit
               PROVE  Printed
    OBVIOUS
  <2>1. /\ hierarchy \in HierarchyType /\ lines = <<>> /\ stack = <<>> /\ tops = TopsOrAll
    BY SettingsAssumption DEF TreeInit, TopsOrAll
  <2>2. TopsOrAll \in Seq(Modules)
    BY <2>1 DEF TopsOrAll, HierarchyType
  <2>3. StackLeft(<<>>) = <<>>
    BY DEF StackLeft, LevelsLeft, FlattenSeq
  <2>4. TreesOf(TopsOrAll) \in Seq(LineType) /\ <<>> \in Seq(LineType)
    BY <1>1, <2>1, <2>2, TreesOfIs
  <2>5. <<>> \o (<<>> \o TreesOf(TopsOrAll)) = TreesOf(TopsOrAll)
    BY <2>4, ConcatEmptySeq
  <2> QED
    BY <2>1, <2>3, <2>4, <2>5 DEF Printed
<1>3. IInv /\ TreeTypeOK /\ Printed /\ [TreeNext]_treeVars => Printed'
  <2> SUFFICES ASSUME IInv, TreeTypeOK, Printed, [TreeNext]_treeVars
               PROVE  Printed'
    OBVIOUS
  <2>1. tops \in Seq(Modules)
    BY DEF TreeTypeOK
  <2>2. CASE StartTop
    BY <1>1, <2>1, <2>2, StartTopPrints
  <2>3. CASE SkipTop
    BY <1>1, <2>1, <2>3, SkipTopPrints
  <2>4. CASE Blackbox
    BY <1>1, <2>1, <2>4, BlackboxPrints
  <2>5. CASE Cycle
    BY <1>1, <2>1, <2>5, CyclePrints
  <2>6. CASE Descend
    BY <1>1, <2>1, <2>6, DescendPrints
  <2>7. CASE Ascend
    BY <1>1, <2>1, <2>7, AscendPrints
  <2>8. CASE UNCHANGED treeVars
    BY <2>8, SameTrees DEF treeVars, Printed
  <2> QED
    BY <2>2, <2>3, <2>4, <2>5, <2>6, <2>7, <2>8 DEF TreeNext, Exhausted
<1>4. IInv /\ Printed => LinesAreTheTree
  <2> SUFFICES ASSUME IInv, Printed, Done
               PROVE  lines = TreesOf(TopsOrAll)
    BY DEF LinesAreTheTree
  <2>1. stack = <<>> /\ tops = <<>> /\ hierarchy \in HierarchyType
    BY DEF Done, IInv
  <2>2. StackLeft(<<>>) = <<>> /\ TreesOf(<<>>) = <<>>
    BY DEF StackLeft, LevelsLeft, TreesOf, FlattenSeq
  <2>3. <<>> \o <<>> = <<>> /\ lines \o <<>> = lines
    BY ConcatEmptySeq DEF Printed
  <2> QED
    BY <2>1, <2>2, <2>3 DEF Printed
<1> QED
  BY <1>2, <1>3, <1>4, IInvInductive, TreeTypeCorrect, PTL DEF TreeSpec
=============================================================================

-------------------------------- MODULE Tree --------------------------------
(***************************************************************************)
(* The instance tree: iter_tree, _iter_subtree and _select_children in     *)
(* src/svhier/cli.py.  A stack of open units walks the merged hierarchy    *)
(* and yields a line per instance; the hierarchy has cycles, modules that  *)
(* nothing defines, and the children of each parameter setting.            *)
(***************************************************************************)
EXTENDS SequencesExt

CONSTANTS
  Modules,        \* Module names.
  ParamSettings,  \* The parameter settings of a definition.
  NoSetting,      \* No setting, Python's None: the children of all settings, merged.
  Hierarchies     \* The results considered.

Variants == ParamSettings \union {NoSetting}
Keys == Modules \X Variants
TreeInstances == [mod_name : Modules, inst_name : Nat, variant : Variants]

\* defs: the modules with a definition, in file order.
\* insts: the merged children.  variants: the settings each has, and the
\* children in each.  top_variant: the setting of a top.
\* tops: the tops asked for, or <<>> for None.
HierarchyType ==
  [defs : Seq(Modules),
   insts : [Modules -> Seq(TreeInstances)],
   variants : [Modules -> SUBSET ParamSettings],
   children : [Modules \X ParamSettings -> Seq(TreeInstances)],
   top_variant : [Modules -> Variants],
   tops : Seq(Modules)]

ASSUME SettingsAssumption ==
  /\ NoSetting \notin ParamSettings
  /\ Hierarchies \subseteq HierarchyType

VARIABLES
  hierarchy,  \* The argument of iter_tree.
  tops,       \* Tops not walked yet, or the modules that may be one.
  stack,      \* The open levels: key, the position of the next child, indent.
  expanding,  \* Their keys.
  lines       \* What has been yielded.

treeVars == <<hierarchy, tops, stack, expanding, lines>>

Definitions == ToSet(hierarchy.defs)

\* Which setting's children to show.
SelectChildren(m, variant) ==
  LET known == hierarchy.variants[m]
      v == IF variant = NoSetting /\ Cardinality(known) = 1
           THEN CHOOSE s \in known : TRUE ELSE variant
  IN  <<m, IF v \in known THEN v ELSE NoSetting>>

ChildrenOf(key) ==
  IF key[2] = NoSetting THEN hierarchy.insts[key[1]] ELSE hierarchy.children[key]

Level(m, variant, indent) ==
  [key |-> SelectChildren(m, variant), next |-> 1, indent |-> indent]

\* A guide is, for the child and each level above it, whether it is the last there:
\* an elbow or a gap, else a tee or a pipe.
Line(guide, name, m, marker) ==
  [guide |-> guide, name |-> name, module |-> m, marker |-> marker]

\* Where no tops were asked for, they are the definitions that nothing instantiates.
Instantiated == {i.mod_name : i \in UNION {ToSet(hierarchy.insts[m]) : m \in Definitions}}
IsTop(m) == m \in Definitions /\ (hierarchy.tops = <<>> => m \notin Instantiated)

TreeInit ==
  /\ hierarchy \in Hierarchies
  /\ tops = IF hierarchy.tops # <<>> THEN hierarchy.tops ELSE hierarchy.defs
  /\ stack = <<>>
  /\ expanding = {}
  /\ lines = <<>>

-----------------------------------------------------------------------------
StartTop ==
  /\ stack = <<>> /\ tops # <<>>
  /\ IsTop(Head(tops))
  /\ LET top == Head(tops)
         level == Level(top, hierarchy.top_variant[top], <<>>)
     IN  /\ lines' = Append(lines, Line(<<>>, top, top, "root"))
         /\ stack' = <<level>>
         /\ expanding' = {level.key}
  /\ tops' = Tail(tops)
  /\ UNCHANGED hierarchy

\* A top asked for that nothing defines was warned about before.
SkipTop ==
  /\ stack = <<>> /\ tops # <<>>
  /\ ~IsTop(Head(tops))
  /\ tops' = Tail(tops)
  /\ UNCHANGED <<hierarchy, stack, expanding, lines>>

Current == Last(stack)
Pending == stack # <<>> /\ Current.next <= Len(ChildrenOf(Current.key))
Child == ChildrenOf(Current.key)[Current.next]
Guide == Append(Current.indent, Current.next = Len(ChildrenOf(Current.key)))
Below == Level(Child.mod_name, Child.variant, Guide)
Yield(marker) ==
  lines' = Append(lines, Line(Guide, Child.inst_name, Child.mod_name, marker))

\* Mutant of Advanced: the iterator and the loop both move on.
AdvancedTwice == [stack EXCEPT ![Len(stack)].next = @ + 2]

Advanced == [stack EXCEPT ![Len(stack)].next = @ + 1]

Blackbox ==
  /\ Pending
  /\ Child.mod_name \notin Definitions
  /\ Yield("blackbox")
  /\ stack' = Advanced
  /\ UNCHANGED <<hierarchy, tops, expanding>>

\* Mutant of Open: a module is cut off whatever its setting.
OpenByName(key) == \E k \in expanding : k[1] = key[1]

Open(key) == key \in expanding

Cycle ==
  /\ Pending
  /\ Child.mod_name \in Definitions
  /\ Open(Below.key)
  /\ Yield("cycle")
  /\ stack' = Advanced
  /\ UNCHANGED <<hierarchy, tops, expanding>>

Descend ==
  /\ Pending
  /\ Child.mod_name \in Definitions
  /\ ~Open(Below.key)
  /\ Yield("none")
  /\ expanding' = expanding \union {Below.key}
  /\ stack' = Append(Advanced, Below)
  /\ UNCHANGED <<hierarchy, tops>>

\* Mutant of Ascend: the unit stays marked.
AscendMarked ==
  /\ stack # <<>> /\ ~Pending
  /\ stack' = Front(stack)
  /\ UNCHANGED <<hierarchy, tops, expanding, lines>>

\* Mutant of Ascend: the level stays open.
AscendOpen ==
  /\ stack # <<>> /\ ~Pending
  /\ expanding' = expanding \ {Current.key}
  /\ UNCHANGED <<hierarchy, tops, stack, lines>>

Ascend ==
  /\ stack # <<>> /\ ~Pending
  /\ expanding' = expanding \ {Current.key}
  /\ stack' = Front(stack)
  /\ UNCHANGED <<hierarchy, tops, lines>>

Done == stack = <<>> /\ tops = <<>>
Exhausted == Done /\ UNCHANGED treeVars

TreeNext == StartTop \/ SkipTop \/ Blackbox \/ Cycle \/ Descend \/ Ascend \/ Exhausted

TreeSpec == TreeInit /\ [][TreeNext]_treeVars

-----------------------------------------------------------------------------
(* What to print, as docs/dev/result-format.md says it.  No stack here. *)

\* 1. a setting the definition has; 2. its only setting; 3. the merged children.
ShownAs(m, variant) ==
  IF variant \in hierarchy.variants[m] THEN <<m, variant>>
  ELSE IF variant = NoSetting /\ \E s \in ParamSettings : hierarchy.variants[m] = {s}
       THEN CHOOSE k \in {m} \X ParamSettings : hierarchy.variants[m] = {k[2]}
  ELSE <<m, NoSetting>>

\* Lines below others: deeper by what is drawn for those.
Indented(guide, below) == [i \in DOMAIN below |-> [below[i] EXCEPT !.guide = guide \o @]]

\* The line of a unit's child, and with it what is below, inside of what is open.
RowOf(key, i, marker) ==
  LET kid == ChildrenOf(key)[i]
  IN  <<Line(<<i = Len(ChildrenOf(key))>>, kid.inst_name, kid.mod_name, marker)>>

RowsOf(below, open, key, i) ==
  LET kid == ChildrenOf(key)[i]
      shown == ShownAs(kid.mod_name, kid.variant)
  IN  IF kid.mod_name \notin Definitions THEN RowOf(key, i, "blackbox")
      ELSE IF shown \in open THEN RowOf(key, i, "cycle")
      ELSE RowOf(key, i, "none")
             \o Indented(<<i = Len(ChildrenOf(key))>>, below[<<open \union {shown}, shown>>])

\* The lines below a unit inside of what is open, the unit itself included.
TreeBelow ==
  LET below[at \in (SUBSET Keys) \X Keys] ==
        FlattenSeq([i \in DOMAIN ChildrenOf(at[2]) |-> RowsOf(below, at[1], at[2], i)])
  IN  below

TreeOf(top) ==
  LET shown == ShownAs(top, hierarchy.top_variant[top])
  IN  <<Line(<<>>, top, top, "root")>> \o TreeBelow[<<{shown}, shown>>]

\* The tops, in order: those asked for, or else all that nothing instantiates.
TopsOrAll == IF hierarchy.tops # <<>> THEN hierarchy.tops ELSE hierarchy.defs
Shown(m) ==
  /\ m \in Definitions
  /\ hierarchy.tops # <<>>
       \/ \A p \in Definitions : \A i \in DOMAIN hierarchy.insts[p] : hierarchy.insts[p][i].mod_name # m

TreesOf(ms) ==
  FlattenSeq([i \in DOMAIN ms |-> IF Shown(ms[i]) THEN TreeOf(ms[i]) ELSE <<>>])

TreeTypeOK ==
  /\ hierarchy \in HierarchyType
  /\ tops \in Seq(Modules)
  /\ stack \in Seq([key : Keys, next : Nat \ {0}, indent : Seq(BOOLEAN)])
  /\ \A i \in DOMAIN stack : stack[i].next <= Len(ChildrenOf(stack[i].key)) + 1
  /\ expanding \subseteq Keys

\* The units marked as being expanded are those on the stack, each there once: a
\* unit that stayed marked would be cut off as a cycle where it is none, one
\* unmarked too early would be expanded for ever.
ExpandingIsTheStack ==
  /\ expanding = {stack[i].key : i \in DOMAIN stack}
  /\ \A i, j \in DOMAIN stack : stack[i].key = stack[j].key => i = j

\* The walk yields, in order and with the right guides, what the recursive
\* definition gives: recursion that parameters end is shown in full, merged data
\* stops at the first repeat of a name.
LinesAreTheTree == Done => lines = TreesOf(TopsOrAll)
=============================================================================

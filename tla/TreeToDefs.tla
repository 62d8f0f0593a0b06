---------------------------- MODULE TreeToDefs -----------------------------
(***************************************************************************)
(* tree_to_defs in svhier_ghdl: from the tree of ParseTree to the          *)
(* instances of each entity.  The body of a generate statement is not      *)
(* indented, so it is told from what is beside it by its marker.  The      *)
(* elaborated design, and what GHDL prints of it, are here as well.        *)
(***************************************************************************)
EXTENDS ParseTree, Functions

\* A design is an architecture: its entity and the statements in it.  A statement is
\*   - an instance: label, component, generics with whether their value can be read,
\*     and what it is bound to, an architecture in a sequence, or <<>>,
\*   - a for-generate: label, its first index, whether that goes up, a body for each,
\*   - an if- or case-generate or a block: label, its bodies, one without a marker for a
\*     block,
\*   - a process or another object, which has no instances.
Instance(label, component, generics, bound) ==
  [kind |-> "instance", label |-> label, component |-> component, generics |-> generics, bound |-> bound]
For(label, low, up, bodies) ==
  [kind |-> "for", label |-> label, low |-> low, up |-> up, bodies |-> bodies]
Scope(label, marked, body) == [kind |-> "scope", label |-> label, marked |-> marked, body |-> body]
Object == [kind |-> "object"]

-----------------------------------------------------------------------------
(* What GHDL prints. *)

LineOf(indent, kind, item) == [indent |-> indent, kind |-> kind, item |-> item]
Body(indent) == <<LineOf(indent, "body", Object)>>

RECURSIVE Printed(_, _), PrintedArch(_, _)

PrintedArch(arch, indent) ==
  <<LineOf(indent, "arch", arch), LineOf(indent, "object", Object)>> \o Printed(arch.body, indent + 1)

Printed(statements, indent) ==
  LET lines(s) ==
        CASE s.kind = "instance" ->
               <<LineOf(indent, "instance", s)>>
                 \o [i \in DOMAIN s.generics |-> LineOf(indent, "generic", s.generics[i])]
                 \o <<LineOf(indent, "object", Object)>>
                 \o FlattenSeq([i \in DOMAIN s.bound |-> PrintedArch(s.bound[i], indent + 1)])
          [] s.kind = "for" ->
               <<LineOf(indent, "for", s)>>
                 \o FlattenSeq([i \in DOMAIN s.bodies |->
                                  Body(indent + 1) \o Printed(s.bodies[i], indent + 1)])
          [] s.kind = "scope" ->
               <<LineOf(indent, "scope", s), LineOf(indent, "generic", [name |-> "p", known |-> TRUE])>>
                 \o (IF s.marked THEN Body(indent + 1) ELSE <<>>) \o Printed(s.body, indent + 1)
          [] OTHER -> <<LineOf(indent, "object", s)>>
  IN  FlattenSeq([i \in DOMAIN statements |-> lines(statements[i])])

-----------------------------------------------------------------------------
(* tree_to_defs. *)

Kind(n) == nodes[n].line.kind
Item(n) == nodes[n].line.item

\* The nodes below another, in order.
NodesBelow(n) == SelectSeq([i \in DOMAIN nodes |-> i], LAMBDA i : nodes[i].parent = n)

\* _split_bodies: a body is what follows its marker, and what is below the marker.
SplitBodies(below) ==
  FoldLeft(LAMBDA bodies, n :
             IF Kind(n) = "body" THEN Append(bodies, NodesBelow(n))
             ELSE IF bodies = <<>> THEN bodies
             ELSE [bodies EXCEPT ![Len(bodies)] = Append(@, n)],
           <<>>, below)

\* _scan: the instances below a scope, with their path.
RECURSIVE ScanBelow(_, _)
ScanBelow(below, prefix) ==
  LET bodies(n) == SplitBodies(NodesBelow(n))
      label(n) == Item(n).label
      index(n, offset) == Item(n).low + (IF Item(n).up THEN offset ELSE 0 - offset)
      found(n) ==
        CASE Kind(n) = "instance" ->
               {[path |-> Append(prefix, label(n)), node |-> n]}
          [] Kind(n) = "for" ->
               UNION {ScanBelow(bodies(n)[k], Append(prefix, <<label(n), index(n, k - 1)>>)) :
                        k \in DOMAIN bodies(n)}
          [] Kind(n) = "scope" /\ bodies(n) # <<>> ->
               UNION {ScanBelow(bodies(n)[k], Append(prefix, label(n))) : k \in DOMAIN bodies(n)}
          [] Kind(n) = "scope" -> ScanBelow(NodesBelow(n), Append(prefix, label(n)))
          [] OTHER -> {}
  IN  UNION {found(below[i]) : i \in DOMAIN below}

ArchBelow(n) == SelectSeq(NodesBelow(n), LAMBDA i : Kind(i) = "arch")

\* visit: the architectures there are, and what each contributes to its entity.  A bound
\* instance is of the entity, another one of the component, with the generics of its use.
RECURSIVE Visited(_)
Visited(arch) ==
  {arch} \union UNION {Visited(ArchBelow(i.node)[1]) :
                         i \in {x \in ScanBelow(NodesBelow(arch), <<>>) : ArchBelow(x.node) # <<>>}}

Defs ==
  LET archs == UNION {Visited(n) : n \in ToSet(ArchBelow(0))}
      inst(i) ==
        IF ArchBelow(i.node) # <<>>
        THEN [path |-> i.path, of |-> Item(ArchBelow(i.node)[1]).entity, use |-> {}]
        ELSE [path |-> i.path, of |-> Item(i.node).component, use |-> nodes[i.node].generics]
  IN  [e \in {Item(a).entity : a \in archs} |->
         {inst(i) : i \in UNION {ScanBelow(NodesBelow(a), <<>>) : a \in {x \in archs : Item(x).entity = e}}}]

-----------------------------------------------------------------------------
(* The instances as the design has them. *)

RECURSIVE InstancesIn(_, _), ArchsIn(_)

InstancesIn(statements, prefix) ==
  UNION {LET s == statements[i]
         IN  CASE s.kind = "instance" -> {[path |-> Append(prefix, s.label), inst |-> s]}
               [] s.kind = "for" ->
                    UNION {InstancesIn(s.bodies[k],
                             Append(prefix, <<s.label, IF s.up THEN s.low + k - 1 ELSE s.low - k + 1>>)) :
                             k \in DOMAIN s.bodies}
               [] s.kind = "scope" -> InstancesIn(s.body, Append(prefix, s.label))
               [] OTHER -> {} : i \in DOMAIN statements}

ArchsIn(arch) ==
  {arch} \union UNION {ArchsIn(i.inst.bound[1]) :
                         i \in {x \in InstancesIn(arch.body, <<>>) : x.inst.bound # <<>>}}

\* Each entity of the design, wherever in it, gets the instances it has, under the names
\* slang would use, whatever objects, generics and generate bodies come in between; an
\* instance that nothing is bound to is of its component, with its own generics.
DefsAreTheDesign ==
  unread = <<>> =>
    LET of(i) ==
          IF i.inst.bound # <<>> THEN [path |-> i.path, of |-> i.inst.bound[1].entity, use |-> {}]
          ELSE [path |-> i.path, of |-> i.inst.component, use |-> ToSet(i.inst.generics)]
        archs == ArchsIn(elaborated)
    IN  Defs = [e \in {a.entity : a \in archs} |->
                  {of(i) : i \in UNION {InstancesIn(a.body, <<>>) : a \in {x \in archs : x.entity = e}}}]
=============================================================================

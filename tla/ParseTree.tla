----------------------------- MODULE ParseTree -----------------------------
(***************************************************************************)
(* parse_tree in svhier_ghdl: from the lines GHDL prints of an elaborated  *)
(* design, one by one, to a tree.  The indent of a line tells what it is   *)
(* below.                                                                  *)
(***************************************************************************)
EXTENDS Naturals, SequencesExt

CONSTANTS
  Items,    \* What lines are about.
  Listings  \* The elaborated designs considered, each with the lines about it.

\* Lines that become nodes: all but the objects of an instance, generics among them.
Structures == {"arch", "instance", "for", "scope", "body"}
Lines == [indent : Nat, kind : Structures \union {"generic", "object"}, item : Items]

ASSUME ListingsAssumption == \A l \in Listings : l.lines \in Seq(Lines)

VARIABLES
  elaborated,  \* The design,
  unread,      \* and the lines about it not parsed yet.
  nodes,       \* The tree: for each node its line, parent and generics; the root is 0.
  levels       \* The nodes that may get children, outermost first, but for the root.

parseVars == <<elaborated, unread, nodes, levels>>

ParseInit ==
  /\ \E l \in Listings : elaborated = l.design /\ unread = l.lines
  /\ nodes = <<>> /\ levels = <<>>

\* Generics printed right after an instance are stored on it; other objects are dropped.
SkipObject ==
  /\ unread # <<>> /\ Head(unread).kind \notin Structures
  /\ unread' = Tail(unread)
  /\ LET line == Head(unread)
         last == Len(nodes)
     IN  nodes' = IF /\ line.kind = "generic" /\ last # 0
                     /\ nodes[last].line.kind = "instance" /\ nodes[last].line.indent = line.indent
                     /\ Last(levels) = last
                  THEN [nodes EXCEPT ![last].generics = @ \union {line.item}]
                  ELSE nodes
  /\ UNCHANGED <<elaborated, levels>>

\* Mutant of Enclosing: a line is below the one before if that is not indented more.
EnclosingOrBeside(line) ==
  SubSeq(levels, 1, Max({0} \union {i \in DOMAIN levels : nodes[levels[i]].line.indent <= line.indent}))

\* The levels left open by a line: the last ones are popped up to one indented less.
Enclosing(line) ==
  SubSeq(levels, 1, Max({0} \union {i \in DOMAIN levels : nodes[levels[i]].line.indent < line.indent}))

AddNode ==
  /\ unread # <<>> /\ Head(unread).kind \in Structures
  /\ unread' = Tail(unread)
  /\ LET line == Head(unread)
         above == Enclosing(line)
     IN  /\ nodes' = Append(nodes, [line |-> line, generics |-> {},
                                    parent |-> IF above = <<>> THEN 0 ELSE Last(above)])
         /\ levels' = Append(above, Len(nodes) + 1)
  /\ UNCHANGED elaborated

ParseNext == SkipObject \/ AddNode
ParseSpec == ParseInit /\ [][ParseNext]_parseVars

-----------------------------------------------------------------------------
\* The levels that are kept are enough: a node is below the last one before it that is
\* indented less, if there is one, however deep the lines in between went.
ParentIsNearest ==
  \A n \in DOMAIN nodes :
    LET indent(m) == nodes[m].line.indent
        parent == nodes[n].parent
    IN  /\ parent \in 0..(n - 1)
        /\ parent # 0 => indent(parent) < indent(n)
        /\ \A m \in (parent + 1)..(n - 1) : indent(m) >= indent(n)
=============================================================================

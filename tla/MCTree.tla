------------------------------- MODULE MCTree -------------------------------
(* Hierarchies for Tree: two definitions that instantiate each other and       *)
(* themselves in two settings, and a module nothing defines.                   *)
EXTENDS Tree

MCModules == {"a", "b", "x"}
MCSettings == {"s", "t"}

I(m, name, v) == [mod_name |-> m, inst_name |-> name, variant |-> v]
Kids == {<<>>, <<I("b", 1, "s")>>, <<I("a", 1, "t")>>,
         <<I("b", 1, "t"), I("x", 2, NoSetting)>>,
         <<I("a", 1, "s"), I("b", 2, NoSetting)>>}

\* insts: without the settings, and without repeats.
Merge(one, two) ==
  LET Bared(kids) == [i \in DOMAIN kids |-> [kids[i] EXCEPT !.variant = NoSetting]]
      first == Bared(one)
  IN  first \o SelectSeq(Bared(two), LAMBDA i : i \notin ToSet(first))

\* The settings of a definition, with the children of each; none for a plugin that
\* gives the merged children only.
OneSetting ==
  {[variants |-> {}, s |-> k, t |-> <<>>] : k \in Kids}
    \union {[variants |-> {"s"}, s |-> k, t |-> <<>>] : k \in Kids}
Shapes == OneSetting \union {[variants |-> {"s", "t"}, s |-> j, t |-> k] : j, k \in Kids}

NoShape == [variants |-> {}, s |-> <<>>, t |-> <<>>]

Hierarchy(a, b, asked, v) ==
  LET shape == [m \in MCModules |-> CASE m = "a" -> a [] m = "b" -> b [] OTHER -> NoShape]
  IN  [defs |-> <<"a", "b">>,
       insts |-> [m \in MCModules |-> Merge(shape[m].s, shape[m].t)],
       variants |-> [m \in MCModules |-> shape[m].variants],
       children |-> [k \in MCModules \X MCSettings |->
                       IF k[2] = "s" THEN shape[k[1]].s ELSE shape[k[1]].t],
       top_variant |-> [m \in MCModules |-> IF m = "a" THEN v ELSE NoSetting],
       tops |-> asked]

\* Without tops, all of them, or one in a setting.
AllHierarchies ==
  {Hierarchy(a, b, asked, NoSetting) : a \in Shapes, b \in OneSetting, asked \in {<<>>, <<"x", "b", "a">>}}
  \union {Hierarchy(a, b, <<"a">>, v) : a \in Shapes, b \in Shapes, v \in MCSettings}

\* TLC evaluates a definition that stands for a constant each time, any other one once.
MCHierarchies == AllHierarchies
=============================================================================

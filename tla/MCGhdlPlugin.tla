---------------------------- MODULE MCGhdlPlugin ----------------------------
(* The designs of MCGhdlFrontend for the frontend, and cases for Libraries and *)
(* ParseTree: four files that refer to each other in many ways, and an         *)
(* architecture with up to three statements, nested, as GHDL prints it.        *)
EXTENDS MCGhdlFrontend, GhdlPlugin, TreeToDefs

MCLibNames == {"k", "l"}
MCUnitNames == {"a", "b", "c"}
MCDirs == {"d", "e", "l"}

Report(defines, refs, of, dir) ==
  [units |-> defines, refs |-> refs, arch_of |-> of, libs |-> {r[1] : r \in ToSet(refs)} \ {"work"},
   dir |-> dir]

References ==
  {<<>>, <<<<"l", "a">>>>, <<<<"work", "a">>>>, <<<<"work", "b">>>>,
   <<<<"l", "b">>, <<"work", "c">>>>, <<<<"k", "a">>, <<"work", "b">>>>}

\* One or two files define a; b and c are somewhere.
LinkedScans ==
  {[p \in 1..4 |->
      CASE p = 1 -> Report({"a"}, r1, <<>>, "d")
        [] p = 2 -> Report(second, r2, <<>>, dir)
        [] p = 3 -> Report({"c"}, r3, <<>>, dir)
        [] OTHER -> Report({}, r4, of, "e")] :
     r1 \in References, r2 \in References, r3 \in References, r4 \in {<<<<"k", "c">>>>},
     second \in {{"b"}, {"a", "b"}}, dir \in {"d", "l"}, of \in {<<"a">>, <<"b">>}}

Arch(entity, body) == [entity |-> entity, body |-> body]
Generic(name, known) == [name |-> name, known |-> known]

Unbound1 == Instance("u", "x", <<Generic("g", TRUE), Generic("h", FALSE)>>, <<>>)
Bound1(body) == Instance("v", "comp", <<Generic("g", TRUE)>>, <<Arch("leaf", body)>>)

\* Statements in which others are.
Flat == {<<>>, <<Unbound1>>, <<Object, Bound1(<<>>)>>, <<Bound1(<<Unbound1>>), Unbound1>>}
Nested ==
  {<<Scope("s", marked, b)>> : marked \in BOOLEAN, b \in Flat}
  \union {<<For("f", 1, up, <<b, c>>)>> : up \in BOOLEAN, b \in Flat, c \in {<<>>, <<Unbound1>>}}
Deep ==
  Flat \union Nested
  \union {<<For("f", 2, TRUE, <<b, <<>>, b>>)>> : b \in Nested}
  \union {<<Scope("t", TRUE, b)>> : b \in Nested}
  \union {<<Bound1(b)>> : b \in Nested}

Architectures ==
  {Arch(e, b \o c) : e \in {"top", "leaf"}, b \in Deep, c \in {<<>>, <<Unbound1>>}}

AllListings == {[design |-> a, lines |-> PrintedArch(a, 0)] : a \in Architectures \union {Arch("top", <<>>)}}
AllItems == UNION {{l.lines[i].item : i \in DOMAIN l.lines} : l \in AllListings}

NoDesign ==
  [Design("none", "none", [n \in MCNames |-> Leaf], Smooth, TRUE, {}, FALSE) EXCEPT !.src = {}]
NoScan == [p \in 1..4 |-> Report({}, <<>>, <<>>, "d")]
NoArch == Arch("top", <<>>)

AllCases ==
  (AllDesigns \X {NoScan} \X {NoArch}) \union ({NoDesign} \X LinkedScans \X {NoArch})
    \union ({NoDesign} \X {NoScan} \X Architectures)
DesignsOrNone == AllDesigns \union {NoDesign}
ScansOrNone == LinkedScans \union {NoScan}

\* The constants' values, each evaluated once (see MCGhdlFrontend).
MCItems == AllItems
MCListings == AllListings
PluginDesigns == DesignsOrNone
PluginScans == ScansOrNone
MCCases == AllCases
=============================================================================

------------------------------ MODULE MCProgram ------------------------------
(* Small SystemVerilog designs for SlangFrontend: three modules, the first in  *)
(* the sources, the others anywhere, which instantiate each other.  And small  *)
(* invocations for Cli: two command files, and results of three files.  The    *)
(* hierarchies are those of MCTree.                                            *)
EXTENDS Program, MCTree

MCNames == {"a", "b", "c"}

\* Where a module is: a source, -y, both -y and a source elsewhere, an index entry
\* whose file does not define it, nowhere.
Homes == {"src", "lib", "rival", "liar", "none"}

\* Which modules instantiate which: chains, and modules used with a value, without, or
\* both.  given: what a module instantiates when its own parameter has a value.
Graph(a, b, c, given) ==
  LET default == [a |-> a, b |-> b, c |-> c]
  IN  [s \in MCNames \X BOOLEAN |->
         IF s[2] /\ s[1] \in DOMAIN given THEN given[s[1]] ELSE default[s[1]]]

Chain == Graph({<<"b", FALSE>>}, {<<"c", FALSE>>}, {}, <<>>)
Graphs ==
  {Chain,
   Graph({<<"b", TRUE>>}, {}, {}, [b |-> {<<"c", TRUE>>}]),
   Graph({<<"b", FALSE>>, <<"b", TRUE>>}, {<<"c", FALSE>>}, {}, <<>>),
   Graph({<<"b", FALSE>>}, {}, {<<"b", TRUE>>}, [a |-> {<<"c", FALSE>>}]),
   Graph({}, {<<"c", FALSE>>}, {}, <<>>)}

Design(b, c, kids, needs, includes, headers, asked) ==
  LET home == [n \in MCNames |-> CASE n = "a" -> "src" [] n = "b" -> b [] OTHER -> c]
  IN  [src |-> {n \in MCNames : home[n] = "src"},
       lib |-> {n \in MCNames : home[n] \in {"lib", "rival"}},
       offers |-> {n \in MCNames : home[n] \in {"lib", "rival", "liar"}},
       elsewhere |-> {n \in MCNames : home[n] = "rival"},
       kids |-> kids, takes |-> {"a", "b"} \union needs, needs |-> needs,
       includes |-> includes, headers |-> headers, auto |-> asked[1], tops |-> asked[2]]

\* slang picks the tops, or the user, or another language instantiates all there is.
Asked == {<<TRUE, {}>>, <<FALSE, {}>>, <<FALSE, {"a"}>>, <<FALSE, {"b", "c"}>>}

\* Modules are in several places, or one needs a value, or one includes a header.
SlangDesigns ==
  {Design(at[1], at[2], kids, {}, {}, {}, asked) :
     at \in {<<"src", "src">>, <<"src", "none">>, <<"lib", "lib">>, <<"rival", "lib">>,
            <<"liar", "lib">>, <<"lib", "rival">>},
     kids \in Graphs, asked \in Asked}
  \union
  {Design(at, at, kids, {n}, {}, {}, asked) :
     at \in {"src", "lib"}, kids \in Graphs, n \in MCNames, asked \in Asked}
  \union
  {Design("lib", "lib", kids, {}, {n}, headers, asked) :
     kids \in {Chain}, n \in {"a", "b"}, headers \in {{}, MCNames}, asked \in Asked}

-----------------------------------------------------------------------------
(* Invocations: where what is read and written is the point, the design is empty. *)

File(dir, stem, suffix) == <<dir, [stem |-> stem, suffix |-> suffix]>>
Token(flag, sub, stem, suffix) == [flag |-> flag, sub |-> sub, name |-> [stem |-> stem, suffix |-> suffix]]
Entry(suffix) == Token("entry", ".", "m", suffix)

\* A file of each kind, in both directories.
Disk == {File(d, "m", s) : d \in {"cwd", "rtl"}, s \in {"sv", "vhdl", "txt"}}

One == File("rtl", "one", "f")
Two == File("rtl", "two", "f")

\* What the first command file lists: perhaps itself, another or one that cannot be read, and
\* entries after it.
Texts ==
  {[p \in {One, Two} |-> IF p = One THEN one ELSE <<Entry(s)>>] :
     one \in {<<Entry("sv")>>, <<Entry("vhdl")>>, <<Entry("txt"), Entry("vhdl")>>, <<>>}
             \union {<<Token(flag, sub, stem, "f"), Entry("vhdl")>> :
                       flag \in {"-f", "-F"}, sub \in {".", "rtl"}, stem \in {"one", "two", "gone"}},
     s \in {"sv", "vhdl"}}

Commands ==
  {<<>>, <<Token("-f", "rtl", "one", "f")>>, <<Token("-F", "rtl", "one", "f")>>,
   <<Token("-f", "rtl", "two", "f"), Token("-F", "rtl", "one", "f")>>,
   <<Token("-F", "rtl", "one", "f"), Token("-f", "rtl", "one", "f")>>,
   <<Token("-f", "rtl", "one", "f"), Token("-f", "rtl", "gone", "f")>>}

Invocation(paths, dirs, commands, text, usable, library, yaml, list, tree, stitched) ==
  [paths |-> paths, dirs |-> dirs, commands |-> commands, text |-> text, disk |-> Disk,
   ignored |-> {File("cwd", "m", "txt")}, usable |-> usable, library |-> library,
   yaml |-> yaml, filelist |-> list, tree |-> tree, results |-> stitched]

\* Files from all over; and a frontend that has only a -y.
Reading ==
  {Invocation(from[1], from[2], commands, text, usable, {}, "none", "none", "no", {Failed}) :
     from \in {<<{}, {}>>, <<{File("cwd", "m", "vhdl"), File("rtl", "m", "txt")}, {}>>, <<{}, {"rtl"}>>},
     commands \in Commands, text \in Texts, usable \in SUBSET Languages}
  \union
  {Invocation({}, dirs, <<Token("-F", "rtl", "one", "f")>>, text, usable, {"vhdl"}, "none", "none", "no",
     {Failed}) :
     dirs \in {{}, {"rtl"}}, text \in Texts, usable \in SUBSET Languages}

\* m and n are defined somewhere, m perhaps twice; f3 may not be needed, or depended on
\* by one that is.
SourceFile(name, defines, shadowed, uses, depends_on) ==
  [name |-> name, defines |-> defines, shadowed |-> shadowed, uses |-> uses, depends_on |-> depends_on]

Stitched3 ==
  {[failed |-> FALSE, has_errors |-> FALSE, all |-> all, needed |-> {"f1", "f2"},
    files |-> <<SourceFile("f1", {"m"}, first, u1, {}), SourceFile("f2", {"n"}, {}, u2, d2),
                SourceFile("f3", {"m"}, {"m"} \ first, {}, d3)>>] :
     all \in BOOLEAN, first \in {{}, {"m"}}, u1 \in SUBSET {"m", "n"}, u2 \in SUBSET {"m"},
     d2 \in {{}, {"f3"}}, d3 \in {{}, {"f2"}}}

Writing ==
  {Invocation({}, {"rtl"}, <<>>, <<>>, {"sv"}, {}, out[1], out[2], out[3],
     {[r EXCEPT !.has_errors = bad] : r \in {CHOOSE x \in Stitched3 : TRUE}}) :
     out \in {"none", "file", "stdout"} \X {"none", "file", "stdout"} \X {"yes", "no", "default"},
     bad \in BOOLEAN}
  \union {Invocation({}, {"rtl"}, <<>>, <<>>, {"sv"}, {}, "none", "stdout", "no", Stitched3)}

Unread == Invocation({}, {"rtl"}, <<>>, <<>>, {"sv"}, {}, "none", "none", "no", {Failed})
Printed == Invocation({}, {"rtl"}, <<>>, <<>>, {"sv"}, {}, "none", "none", "yes",
            {[(CHOOSE x \in Stitched3 : TRUE) EXCEPT !.has_errors = TRUE]})

\* The same file listed relative to two directories.
TwoUses ==
  Invocation({}, {}, <<Token("-f", "rtl", "one", "f"), Token("-F", "rtl", "one", "f")>>,
    [p \in {One, Two} |-> <<Entry("vhdl")>>], Languages, {}, "none", "none", "no", {Failed})

AllInvocations == {Unread, Printed, TwoUses} \union Reading \union Writing

\* A case has much to do in one part.
Nothing == [Design("none", "none", Chain, {}, {}, {}, <<FALSE, {}>>) EXCEPT !.src = {}]
Bare == Hierarchy(NoShape, NoShape, <<>>, NoSetting)
AllDesigns == {Nothing} \union SlangDesigns
AllCases ==
  (AllInvocations \X {Nothing} \X {Bare}) \union ({Unread} \X SlangDesigns \X {Bare})
    \union ({Printed} \X {Nothing} \X AllHierarchies)

\* The constants' values, each evaluated once (see MCTree).
MCInvocations == AllInvocations
MCDesigns == AllDesigns
MCCases == AllCases
TwoUsesCases == {<<TwoUses, Nothing, Bare>>}
=============================================================================

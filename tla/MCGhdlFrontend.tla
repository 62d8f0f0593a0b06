--------------------------- MODULE MCGhdlFrontend ---------------------------
(* Small VHDL designs for GhdlFrontend: three entities, the first in the       *)
(* sources, the others anywhere, and one thing at a time the tool fails at.    *)
EXTENDS GhdlFrontend

MCNames == {"a", "b", "c"}

\* Where an entity is: a source, -y, both a source elsewhere and -y, an index entry
\* whose file does not define it, nowhere.
Homes == {"src", "lib", "rival", "liar", "none"}

Calls == {[comps |-> {"b"}, named |-> {}], [comps |-> {}, named |-> {"b"}],
          [comps |-> {"b"}, named |-> {"c"}]}
Below == {[comps |-> {}, named |-> {}], [comps |-> {"c"}, named |-> {}],
          [comps |-> {}, named |-> {"c"}]}
Leaf == [comps |-> {}, named |-> {}]
Back == [comps |-> {}, named |-> {"b"}]

Fine == [n \in MCNames |-> "answers"]
Smooth == [unset |-> {}, scanning |-> Fine, running |-> Fine]
Trouble ==
  {[Smooth EXCEPT !.unset = {"a"}], [Smooth EXCEPT !.unset = {"b"}],
   [Smooth EXCEPT !.running["b"] = "crashes"],
   [Smooth EXCEPT !.running["c"] = "garbles"],
   [Smooth EXCEPT !.scanning["b"] = "crashes"], [Smooth EXCEPT !.scanning["c"] = "hangs"]}

\* A top that times out does not say which generics have no value; else it is as if it crashed.
Stuck == [Smooth EXCEPT !.running["b"] = "hangs", !.unset = {"b"}]

\* What nothing defines instantiates nothing.
Design(b, c, kids, tool, stitched, tops, auto) ==
  LET home == [n \in MCNames |-> CASE n = "a" -> "src" [] n = "b" -> b [] OTHER -> c]
      kid == [n \in MCNames |-> IF home[n] \in {"liar", "none"} THEN Leaf ELSE kids[n]]
  IN  [src |-> {n \in MCNames : home[n] = "src"},
       lib |-> {n \in MCNames : home[n] \in {"lib", "rival"}},
       offers |-> {n \in MCNames : home[n] \in {"lib", "rival", "liar"}},
       elsewhere |-> {n \in MCNames : home[n] = "rival"},
       comps |-> [n \in MCNames |-> kid[n].comps],
       named |-> [n \in MCNames |-> kid[n].named],
       unset |-> tool.unset, scanning |-> tool.scanning, running |-> tool.running,
       stitched |-> stitched, auto |-> auto, tops |-> tops]

\* Either the tool has trouble, or the third entity instantiates the second, or
\* neither.
Stitched ==
  {Design(b, c, [a |-> i, b |-> j, c |-> Leaf], tool, TRUE, {}, auto) :
     b \in {"src", "lib"}, c \in {"src", "lib", "rival"}, i \in Calls, j \in Below,
     tool \in Trouble, auto \in BOOLEAN}
  \union
  {Design(b, c, [a |-> i, b |-> j, c |-> k], Smooth, TRUE, {}, auto) :
     b \in Homes, c \in Homes, i \in Calls, j \in Below, k \in {Leaf, Back}, auto \in BOOLEAN}

\* VHDL alone: the tops may be in -y only, or nowhere.
Alone ==
  {Design(b, c, [a |-> i, b |-> j, c |-> Leaf], tool, FALSE, tops, tops = {}) :
     b \in {"src", "lib"}, c \in {"lib", "liar", "none"}, i \in Calls, j \in Below,
     tool \in Trouble \union {Smooth, Stuck}, tops \in {{}, {"b"}, {"b", "c"}}}

AllDesigns == Stitched \union Alone

\* TLC evaluates a definition that stands for a constant each time, any other one once.
MCDesigns == AllDesigns
=============================================================================

------------------------------ MODULE MCStitch ------------------------------
(* Small designs for Stitch: three languages and three units, each unit with any  *)
(* of these homes, in hierarchies that are deep, shared or recursive.             *)
EXTENDS Stitch

MCNames == {"a", "b", "c"}
MCSettings == {0, 1}

\* Where a unit is defined: <<frontends whose sources define it, frontends whose
\* -y does, frontends whose -y only seems to>>.
Homes == {<<{1}, {}, {}>>, <<{2}, {}, {}>>, <<{3}, {}, {}>>,
          <<{}, {1}, {}>>, <<{}, {3}, {}>>, <<{}, {2, 3}, {}>>,
          <<{2}, {1, 3}, {}>>, <<{3}, {2}, {}>>, <<{1, 3}, {2}, {}>>,
          <<{}, {3}, {1, 2}>>, <<{}, {}, {}>>}

\* An instance: the child, and whether its parameter is given the default, the
\* parent's value or the parent's value plus one.
Child(n, mode) == [name |-> n, mode |-> mode]
SettingOf(mode, s) ==
  CASE mode = "default" -> 0 [] mode = "same" -> s [] mode = "next" -> (s + 1) % 2

Tops == {{Child("b", "default")}, {Child("b", "next"), Child("c", "default")}}
Below ==
  [b : {{}, {Child("c", "same")}, {Child("c", "next")}, {Child("a", "next")}},
   c : {{}, {Child("b", "next")}, {Child("c", "next"), Child("b", "same")}}]

Design(homes, a, below, tops) ==
  LET children == [n \in MCNames |-> IF n = "a" THEN a ELSE below[n]]
      src == [f \in Frontends |-> {n \in MCNames : f \in homes[n][1]}]
      lib == [f \in Frontends |-> {n \in MCNames : f \in homes[n][2]}]
      used(f) == {c.name : c \in UNION {children[n] : n \in src[f]}}
  IN  [src |-> src,
       lib |-> lib,
       offers |-> [f \in Frontends |-> {n \in MCNames : f \in homes[n][2] \union homes[n][3]}],
       own |-> [f \in Frontends |-> src[f] \ used(f)],
       uses |-> [u \in MCNames \X MCSettings |->
                   {<<c.name, SettingOf(c.mode, u[2])>> : c \in children[u[1]]}],
       tops |-> tops]

DesignsWith(homes, below) ==
  {Design(h, a, b, tops) :
     h \in [MCNames -> homes], a \in Tops, b \in below, tops \in {{}, {"a"}}}

MCDesigns == DesignsWith(Homes, Below)

\* Designs that need more rounds than MaxRounds = 2 allows.
MCDesignsToCut ==
  DesignsWith({<<{1}, {}, {}>>, <<{2}, {}, {}>>, <<{}, {2}, {}>>},
              {[b |-> {Child("c", "next")}, c |-> {Child("b", "next")}],
               [b |-> {Child("a", "next")}, c |-> {Child("b", "same")}]})
=============================================================================

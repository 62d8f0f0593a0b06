----------------------------- MODULE Cli_proofs -----------------------------
(***************************************************************************)
(* What holds of main (Cli) for every command line, whatever is on disk,   *)
(* in command files that refer to each other and in what stitch returns:   *)
(* each file has a reader, a filelist can be compiled in its order, and    *)
(* exit code 0 means that all is written.                                  *)
(*                                                                         *)
(* The inductive invariants say                                            *)
(*   WriteInv  what is written at each stage;                              *)
(*   ReadInv   that what is left to read of command files is something     *)
(*             slang reads too, and that of each file seen, all it lists   *)
(*             relative to one directory was looked at, or is left;        *)
(*   RouteInv  what Route made of that;                                    *)
(*   FilelistInv  that a filelist is one of those of the result kept.      *)
(***************************************************************************)
EXTENDS Cli, FiniteSetTheorems, WellFoundedInduction, TLAPS

Asked == {o \in {"yaml", "filelist"} : run[o] # "none"}

WriteInv ==
  /\ stage \in {"read", "stitch", "yaml", "filelist", "tree", "end", "exited"}
  /\ stage # "exited" => exit = Running
  /\ stage \in {"yaml", "filelist", "tree", "end"} => ~result.failed
  /\ stage \in {"filelist", "tree", "end"} => Asked \intersect {"yaml"} \subseteq written
  /\ stage \in {"tree", "end"} \/ printing => Asked \subseteq written
  /\ stage = "end" /\ ShowTree => "tree" \in written
  /\ exit = 0 => Asked \subseteq written /\ (ShowTree => "tree" \in written) /\ ~result.failed /\ ~result.has_errors

\* Writing an output adds it, or main exits.
LEMMA WriteAdds ==
  ASSUME NEW output, NEW to, NEW next, Write(output, to, next)
  PROVE  \/ stage' = next /\ exit' = exit /\ written \subseteq written' /\ (to # "none" => output \in written')
         \/ stage' = "exited" /\ exit' = 1 /\ written' = written
  BY DEF Write, Exit

\* Each step keeps WriteInv.
LEMMA WriteInvKept ==
  ASSUME WriteInv, [CliNext]_cliVars
  PROVE  WriteInv'
<1> USE DEF WriteInv, Running
<1>1. CASE BeforeStitch
  <2>1. UNCHANGED <<run, writeVars>> /\ stage = "read"
    BY <1>1 DEF BeforeStitch, OpenCommandFile, TakeEntry, Route
  <2>2. \/ stage' = "exited" /\ exit' \in {1, 2}
        \/ stage' \in {"read", "stitch"} /\ UNCHANGED exit
    BY <1>1 DEF BeforeStitch, OpenCommandFile, TakeEntry, Route, Exit
  <2> QED
    BY <2>1, <2>2 DEF writeVars, Asked, ShowTree
<1>2. CASE Stitch
  BY <1>2 DEF Stitch, Exit, readVars, inputVars, Asked, ShowTree
<1>3. CASE WriteYaml
  <2>1. run' = run /\ result' = result /\ printing' = printing /\ stage = "yaml" /\ Write("yaml", run.yaml, "filelist")
    BY <1>3 DEF WriteYaml
  <2> QED
    BY <2>1, WriteAdds DEF Asked, ShowTree
<1>4. CASE WriteFilelist
  <2>1. run' = run /\ result' = result /\ printing' = printing /\ stage = "filelist" /\ Write("filelist", run.filelist, "tree")
    BY <1>4 DEF WriteFilelist
  <2> QED
    BY <2>1, WriteAdds DEF Asked, ShowTree
<1>5. CASE BeginTree
  BY <1>5 DEF BeginTree, Asked, ShowTree
<1>6. CASE PrintTree
  BY <1>6 DEF PrintTree, Exit, Asked, ShowTree
<1>7. CASE EndMain
  BY <1>7 DEF EndMain, Exit, writeVars, Asked, ShowTree
<1>8. CASE UNCHANGED cliVars
  BY <1>8 DEF cliVars, writeVars, Asked, ShowTree
<1> QED
  BY <1>1, <1>2, <1>3, <1>4, <1>5, <1>6, <1>7, <1>8 DEF CliNext, AfterStitch, Exited

\* Exit code 0 means that every output asked for is complete and that the result is
\* without error; the tree is begun when all else is written.
THEOREM ExitTellsWhatIsWritten == CliSpec => []OutputsAreWhole
<1>1. CliInit => WriteInv
  BY DEF CliInit, WriteInv, Running, Asked, ShowTree
<1>2. WriteInv => OutputsAreWhole
  BY DEF WriteInv, OutputsAreWhole, Asked
<1> QED
  BY <1>1, <1>2, WriteInvKept, PTL DEF CliSpec
-----------------------------------------------------------------------------
(* Sequences. *)

\* A sequence of elements of a set is one of elements of a larger set.
LEMMA SequencesOfMore ==
  ASSUME NEW S, NEW T, S \subseteq T
  PROVE  \A s \in Seq(S) : s \in Seq(T)
  OBVIOUS

\* The elements of a sequence are its head and those of its tail.
LEMMA ElementsOfTail ==
  ASSUME NEW S, NEW q \in Seq(S), q # <<>>
  PROVE  Tail(q) \in Seq(S) /\ Head(q) \in S /\ ToSet(q) = {Head(q)} \union ToSet(Tail(q))
<1>1. Len(q) \in Nat \ {0} /\ DOMAIN q = 1..Len(q) /\ Head(q) = q[1] /\ Head(q) \in S
  OBVIOUS
<1>2. Tail(q) \in Seq(S) /\ DOMAIN Tail(q) = 1..(Len(q) - 1) /\ \A i \in 1..(Len(q) - 1) : Tail(q)[i] = q[i + 1]
  OBVIOUS
<1>3. \A i \in 2..Len(q) : i - 1 \in DOMAIN Tail(q) /\ Tail(q)[i - 1] = q[i]
  BY <1>1, <1>2
<1>4. ToSet(q) \subseteq {Head(q)} \union ToSet(Tail(q))
  <2> SUFFICES ASSUME NEW i \in 1..Len(q) PROVE q[i] \in {Head(q)} \union ToSet(Tail(q))
    BY <1>1 DEF ToSet
  <2>1. CASE i = 1
    BY <2>1, <1>1
  <2>2. CASE i # 1
    <3>1. i \in 2..Len(q)
      BY <2>2, <1>1
    <3> QED
      BY <3>1, <1>3 DEF ToSet
  <2> QED
    BY <2>1, <2>2
<1>5. {Head(q)} \union ToSet(Tail(q)) \subseteq ToSet(q)
  <2>1. Head(q) \in ToSet(q)
    BY <1>1 DEF ToSet
  <2>2. ASSUME NEW i \in 1..(Len(q) - 1) PROVE Tail(q)[i] \in ToSet(q)
    BY <2>2, <1>1, <1>2 DEF ToSet
  <2> QED
    BY <2>1, <2>2, <1>2 DEF ToSet
<1> QED
  BY <1>1, <1>2, <1>4, <1>5

\* The elements of two sequences in a row.
LEMMA ElementsOfBoth ==
  ASSUME NEW S, NEW p \in Seq(S), NEW q \in Seq(S)
  PROVE  p \o q \in Seq(S) /\ ToSet(p \o q) = ToSet(p) \union ToSet(q)
<1> DEFINE r == p \o q
<1>1. /\ r \in Seq(S) /\ Len(r) = Len(p) + Len(q) /\ Len(p) \in Nat /\ Len(q) \in Nat
      /\ DOMAIN p = 1..Len(p) /\ DOMAIN q = 1..Len(q) /\ DOMAIN r = 1..(Len(p) + Len(q))
  OBVIOUS
<1>2. \A i \in 1..Len(p) : r[i] = p[i]
  OBVIOUS
<1>3. \A i \in 1..Len(q) : r[Len(p) + i] = q[i]
  OBVIOUS
<1> HIDE DEF r
<1>4. ToSet(p) \union ToSet(q) \subseteq ToSet(r)
  <2>1. ASSUME NEW i \in 1..Len(p) PROVE p[i] \in ToSet(r)
    BY <1>1, <1>2 DEF ToSet
  <2>2. ASSUME NEW i \in 1..Len(q) PROVE q[i] \in ToSet(r)
    <3>1. Len(p) + i \in DOMAIN r
      BY <1>1
    <3> QED
      BY <3>1, <1>3 DEF ToSet
  <2> QED
    BY <2>1, <2>2, <1>1 DEF ToSet
<1>5. ToSet(r) \subseteq ToSet(p) \union ToSet(q)
  <2> SUFFICES ASSUME NEW i \in 1..(Len(p) + Len(q)) PROVE r[i] \in ToSet(p) \union ToSet(q)
    BY <1>1 DEF ToSet
  <2>1. CASE i <= Len(p)
    BY <2>1, <1>1, <1>2 DEF ToSet
  <2>2. CASE i > Len(p)
    <3>1. i - Len(p) \in 1..Len(q) /\ Len(p) + (i - Len(p)) = i
      BY <2>2, <1>1
    <3>2. r[i] = q[i - Len(p)]
      BY <3>1, <1>3
    <3> QED
      BY <3>1, <3>2, <1>1 DEF ToSet
  <2> QED
    BY <2>1, <2>2, <1>1
<1> QED
  BY <1>1, <1>4, <1>5 DEF r

\* Tokens relative to a directory.
LEMMA ElementsRelative ==
  ASSUME NEW S, NEW tokens \in Seq(S), NEW base
  PROVE  /\ Relative(tokens, base) \in Seq([token : S, base : {base}])
         /\ ToSet(Relative(tokens, base)) = {[token |-> t, base |-> base] : t \in ToSet(tokens)}
<1>1. Len(tokens) \in Nat /\ DOMAIN tokens = 1..Len(tokens) /\ \A i \in 1..Len(tokens) : tokens[i] \in S
  OBVIOUS
<1>2. \A i \in 1..Len(tokens) : [token |-> tokens[i], base |-> base] \in [token : S, base : {base}]
  BY <1>1
<1>3. Relative(tokens, base) = [i \in 1..Len(tokens) |-> [token |-> tokens[i], base |-> base]]
  BY <1>1 DEF Relative
<1>4. Relative(tokens, base) \in Seq([token : S, base : {base}])
  BY <1>1, <1>2, <1>3
<1> QED
  BY <1>1, <1>3, <1>4 DEF ToSet
-----------------------------------------------------------------------------
(* What slang reads. *)

UseOf(t, base) == <<Join(base, t), IF t.flag = "-F" THEN Join(base, t)[1] ELSE base>>
Bases == {"cwd"} \union {path[1] : path \in DOMAIN run.text}
Tokens == ToSet(run.commands) \union UNION {ToSet(run.text[p]) : p \in DOMAIN run.text}
Items == [token : Tokens, base : Bases]

\* Command files are sequences of tokens, and the command line has none but flags.
LEMMA TokensAreTyped ==
  ASSUME run \in Invocations
  PROVE  /\ run.commands \in Seq(Tokens)
         /\ \A p \in DOMAIN run.text : run.text[p] \in Seq(Tokens)
         /\ \A t \in ToSet(run.commands) : t.flag # "entry"
<1>1. run.commands \in Seq(ToSet(run.commands)) /\ ToSet(run.commands) \subseteq Tokens
  BY CliAssumption DEF CliAssumption, Tokens
<1>2. ASSUME NEW p \in DOMAIN run.text
      PROVE  run.text[p] \in Seq(ToSet(run.text[p])) /\ ToSet(run.text[p]) \subseteq Tokens
  <2>1. run.text[p] \in Range(run.text)
    BY <1>2 DEF Range
  <2> QED
    BY <2>1, <1>2, CliAssumption DEF CliAssumption, Tokens
<1>3. \A t \in ToSet(run.commands) : t.flag # "entry"
  BY CliAssumption DEF CliAssumption, ToSet
<1> QED
  BY <1>1, <1>2, <1>3, SequencesOfMore

\* What the command line asks for.
CommandLine == Uses(run.commands, "cwd")

\* Opened is the least set with that and with what it asks for.
LEMMA OpenedIsLeast ==
  ASSUME run \in Invocations
  PROVE  /\ Opened \subseteq CommandUses(run) /\ HoldsUses(run, CommandLine, Opened)
         /\ \A s \in SUBSET CommandUses(run) : HoldsUses(run, CommandLine, s) => Opened \subseteq s
<1> DEFINE c == CommandsOf(run)
<1>1. c \in {CommandsOf(r) : r \in Invocations} /\ c.commands = run.commands /\ c.text = run.text
  BY DEF CommandsOf
<1> HIDE DEF c
<1>2. Opened = OpenedFrom(c, CommandLine)
  BY <1>1 DEF Opened, OpenedIn, CommandLine, c
<1>3. /\ CommandUses(c) = CommandUses(run)
      /\ \A s : HoldsUses(c, CommandLine, s) = HoldsUses(run, CommandLine, s)
  BY <1>1 DEF CommandUses, HoldsUses, UsesBelow
<1>4. Opened = {use \in CommandUses(run) :
                  \A s \in SUBSET CommandUses(run) : HoldsUses(run, CommandLine, s) => use \in s}
  BY <1>2, <1>3 DEF OpenedFrom
<1> HIDE DEF Opened
<1>5. \A s \in SUBSET CommandUses(run) : HoldsUses(run, CommandLine, s) => Opened \subseteq s
  BY <1>4
<1>6. HoldsUses(run, CommandLine, Opened)
  <2> SUFFICES ASSUME NEW use \in CommandUses(run), use \in CommandLine \union UsesBelow(run, Opened)
               PROVE  use \in Opened
    BY DEF HoldsUses
  <2> SUFFICES ASSUME NEW s \in SUBSET CommandUses(run), HoldsUses(run, CommandLine, s) PROVE use \in s
    BY <1>4
  <2>1. use \in CommandLine \union UsesBelow(run, s)
    BY <1>5 DEF UsesBelow
  <2> QED
    BY <2>1 DEF HoldsUses
<1> QED
  BY <1>4, <1>5, <1>6

\* A use has a directory of its own.
LEMMA UsesHaveBases ==
  ASSUME NEW p \in CommandUses(run)
  PROVE  p = <<p[1], p[2]>> /\ p[1] \in DOMAIN run.text /\ p[2] \in Bases
  BY DEF CommandUses, Bases

\* A file that can be read is used relative to a directory of its own.
LEMMA UseIsOne ==
  ASSUME NEW t, NEW base \in Bases, Join(base, t) \in DOMAIN run.text
  PROVE  UseOf(t, base) \in CommandUses(run)
<1>1. (IF t.flag = "-F" THEN Join(base, t)[1] ELSE base) \in Bases
  BY DEF Bases
<1> QED
  BY <1>1 DEF UseOf, CommandUses, Bases

\* What the command line, or a file that is opened, names is opened.
LEMMA NamedIsOpened ==
  ASSUME run \in Invocations
  PROVE  /\ \A t \in ToSet(run.commands) :
              Join("cwd", t) \in DOMAIN run.text => UseOf(t, "cwd") \in Opened
         /\ \A p \in Opened : \A t \in ToSet(run.text[p[1]]) :
              t.flag # "entry" /\ Join(p[2], t) \in DOMAIN run.text => UseOf(t, p[2]) \in Opened
<1>1. ASSUME NEW t \in ToSet(run.commands), Join("cwd", t) \in DOMAIN run.text
      PROVE  UseOf(t, "cwd") \in Opened
  <2>1. UseOf(t, "cwd") \in CommandUses(run)
    BY <1>1, UseIsOne DEF Bases
  <2>2. UseOf(t, "cwd") \in CommandLine
    BY <1>1, TokensAreTyped DEF UseOf, Uses, CommandLine
  <2> QED
    BY <2>1, <2>2, OpenedIsLeast DEF HoldsUses
<1>2. ASSUME NEW p \in Opened, NEW t \in ToSet(run.text[p[1]]),
             t.flag # "entry", Join(p[2], t) \in DOMAIN run.text
      PROVE  UseOf(t, p[2]) \in Opened
  <2>1. UseOf(t, p[2]) \in CommandUses(run)
    BY <1>2, UseIsOne, UsesHaveBases, OpenedIsLeast
  <2>2. UseOf(t, p[2]) \in Uses(run.text[p[1]], p[2])
    BY <1>2 DEF UseOf, Uses
  <2> QED
    BY <2>1, <2>2, OpenedIsLeast DEF HoldsUses, UsesBelow
<1> QED
  BY <1>1, <1>2

-----------------------------------------------------------------------------
(* Reading command files. *)

Looked(t, base) == IF t.flag = "entry" THEN Join(base, t) \in entries ELSE Join(base, t) \in seen
Left(t, base) == [token |-> t, base |-> base] \in ToSet(todo)

\* Each file seen was used so, and what these uses hold was looked at, or is left.
ReadSoFar(uses) ==
  /\ \A path \in seen \intersect DOMAIN run.text : \E u \in uses : u[1] = path
  /\ \A u \in uses : \A t \in ToSet(run.text[u[1]]) : Looked(t, u[2]) \/ Left(t, u[2])

ReadInv ==
  /\ run \in Invocations
  /\ todo \in Seq(Items)
  /\ entries \subseteq Listed
  /\ \A x \in ToSet(todo) :
       IF x.token.flag = "entry" THEN Join(x.base, x.token) \in Listed
       ELSE Join(x.base, x.token) \in DOMAIN run.text => UseOf(x.token, x.base) \in Opened
  /\ \A t \in ToSet(run.commands) : Looked(t, "cwd") \/ Left(t, "cwd")
  /\ \E uses \in SUBSET Opened : ReadSoFar(uses)

\* At first, all of the command line is left.
LEMMA ReadInvInit ==
  ASSUME CliInit
  PROVE  ReadInv
<1>1. run \in Invocations /\ todo = Relative(run.commands, "cwd") /\ seen = {} /\ entries = {}
  BY DEF CliInit
<1>2. run.commands \in Seq(Tokens) /\ \A t \in ToSet(run.commands) : t.flag # "entry"
  BY <1>1, TokensAreTyped
<1>3. todo \in Seq([token : Tokens, base : {"cwd"}])
  BY <1>1, <1>2, ElementsRelative
<1>4. ToSet(todo) = {[token |-> t, base |-> "cwd"] : t \in ToSet(run.commands)}
  <2>1. \A s \in Seq(Tokens) : ToSet(Relative(s, "cwd")) = {[token |-> t, base |-> "cwd"] : t \in ToSet(s)}
    BY ElementsRelative, ZenonT(30)
  <2> QED
    BY <2>1, <1>1, <1>2
<1>5. todo \in Seq(Items)
  <2>1. [token : Tokens, base : {"cwd"}] \subseteq Items
    BY DEF Items, Bases
  <2> QED
    BY <1>3, <2>1, SequencesOfMore
<1>6. \A x \in ToSet(todo) : x.token.flag # "entry" /\ (Join(x.base, x.token) \in DOMAIN run.text => UseOf(x.token, x.base) \in Opened)
  BY <1>1, <1>2, <1>4, NamedIsOpened
<1>7. \A t \in ToSet(run.commands) : Left(t, "cwd")
  BY <1>4 DEF Left
<1>8. ReadSoFar({})
  BY <1>1 DEF ReadSoFar
<1> QED
  BY <1>1, <1>5, <1>6, <1>7, <1>8 DEF ReadInv

\* Taking an entry.
LEMMA TakeEntryKeepsReadInv ==
  ASSUME ReadInv, TakeEntry
  PROVE  ReadInv'
<1> DEFINE x == Head(todo)
<1>1. /\ todo # <<>> /\ x.token.flag = "entry" /\ entries' = entries \union {Join(x.base, x.token)}
      /\ todo' = Tail(todo) /\ UNCHANGED <<run, seen>>
  BY DEF TakeEntry
<1>2. todo' \in Seq(Items) /\ x \in Items /\ ToSet(todo) = {x} \union ToSet(todo')
  BY <1>1, ElementsOfTail DEF ReadInv
<1>3. UNCHANGED <<Opened, Listed, Items>>
  BY <1>1 DEF Opened, Listed, ListedBy, Items, Tokens, Bases
<1> HIDE DEF x
<1>4. ASSUME NEW t, NEW base, Looked(t, base) \/ Left(t, base)
      PROVE  Looked(t, base)' \/ Left(t, base)'
  <2>1. CASE Looked(t, base)
    BY <2>1, <1>1 DEF Looked
  <2>2. CASE [token |-> t, base |-> base] = x
    BY <2>2, <1>1 DEF Looked
  <2>3. CASE [token |-> t, base |-> base] \in ToSet(todo')
    BY <2>3 DEF Left
  <2> QED
    BY <1>4, <1>2, <2>1, <2>2, <2>3 DEF Left
<1>5. entries' \subseteq Listed
  BY <1>1, <1>2 DEF ReadInv
<1>6. \A uses : ReadSoFar(uses) => ReadSoFar(uses)'
  BY <1>1, <1>4 DEF ReadSoFar
<1>7. \E uses \in SUBSET Opened' : ReadSoFar(uses)'
  BY <1>3, <1>6 DEF ReadInv
<1> QED
  BY <1>1, <1>2, <1>3, <1>4, <1>5, <1>7 DEF ReadInv

\* Opening a file, or finding that it was, or that it cannot be read.
LEMMA OpenKeepsReadInv ==
  ASSUME ReadInv, OpenCommandFile
  PROVE  ReadInv'
<1> DEFINE x == Head(todo)
           path == Join(x.base, x.token)
           base == BaseOf(x.token.flag, path, x.base)
           more == Relative(run.text[path], base)
<1>1. /\ todo # <<>> /\ x.token.flag # "entry" /\ seen' = seen \union {path}
      /\ UNCHANGED <<run, entries>>
  BY DEF OpenCommandFile
<1>2. todo' = IF path \in seen \/ path \notin DOMAIN run.text THEN Tail(todo) ELSE more \o Tail(todo)
  BY DEF OpenCommandFile
<1>3. Tail(todo) \in Seq(Items) /\ x \in Items /\ ToSet(todo) = {x} \union ToSet(Tail(todo))
  BY <1>1, ElementsOfTail DEF ReadInv
<1>4. UNCHANGED <<Opened, Listed, Items>>
  BY <1>1 DEF Opened, Listed, ListedBy, Items, Tokens, Bases
<1>5. x.token \in Tokens /\ x.base \in Bases
  BY <1>3 DEF Items
<1>6. UseOf(x.token, x.base) = <<path, base>>
  BY DEF UseOf, BaseOf
<1>7. path \in DOMAIN run.text => <<path, base>> \in Opened /\ base \in Bases
  <2>1. x \in ToSet(todo)
    BY <1>3
  <2>2. path \in DOMAIN run.text => UseOf(x.token, x.base) \in Opened
    BY <2>1, <1>1 DEF ReadInv
  <2>3. path \in DOMAIN run.text => base \in Bases
    BY <1>5 DEF BaseOf, Bases
  <2> QED
    BY <2>2, <2>3, <1>6
<1>8. ASSUME NEW t, NEW b, Looked(t, b) \/ Left(t, b)
      PROVE  Looked(t, b)' \/ [token |-> t, base |-> b] \in ToSet(Tail(todo))
  <2>1. CASE Looked(t, b)
    BY <2>1, <1>1 DEF Looked
  <2>2. CASE [token |-> t, base |-> b] = x
    BY <2>2, <1>1 DEF Looked
  <2> QED
    BY <1>8, <1>3, <2>1, <2>2 DEF Left
<1>9. CASE path \in seen \/ path \notin DOMAIN run.text
  <2>1. todo' = Tail(todo)
    BY <1>2, <1>9
  <2>2. ASSUME NEW t, NEW b, Looked(t, b) \/ Left(t, b) PROVE Looked(t, b)' \/ Left(t, b)'
    BY <2>2, <1>8, <2>1 DEF Left
  <2> HIDE DEF x, path
  <2>3. \A uses : ReadSoFar(uses) => ReadSoFar(uses)'
    BY <1>1, <1>9, <2>2 DEF ReadSoFar
  <2>4. \E uses \in SUBSET Opened' : ReadSoFar(uses)'
    BY <1>4, <2>3 DEF ReadInv
  <2> QED
    BY <1>1, <1>3, <1>4, <2>1, <2>2, <2>4 DEF ReadInv
<1>10. CASE path \notin seen /\ path \in DOMAIN run.text
  <2>1. run.text[path] \in Seq(Tokens)
    BY <1>10, TokensAreTyped DEF ReadInv
  <2>2. more \in Seq([token : Tokens, base : {base}]) /\ ToSet(more) = {[token |-> t, base |-> base] : t \in ToSet(run.text[path])}
    BY <2>1, ElementsRelative
  <2>3. more \in Seq(Items)
    <3>1. [token : Tokens, base : {base}] \subseteq Items
      BY <1>7, <1>10 DEF Items
    <3> HIDE DEF more, base
    <3> QED
      BY <2>2, <3>1, SequencesOfMore
  <2>4. todo' \in Seq(Items) /\ ToSet(todo') = ToSet(more) \union ToSet(Tail(todo))
    <3>1. todo' = more \o Tail(todo)
      BY <1>2, <1>10
    <3> HIDE DEF more
    <3>2. \A p, q \in Seq(Items) : p \o q \in Seq(Items) /\ ToSet(p \o q) = ToSet(p) \union ToSet(q)
      BY ElementsOfBoth
    <3> QED
      BY <1>3, <2>3, <3>1, <3>2
  <2>5. <<path, base>> \in Opened
    BY <1>7, <1>10
  <2> HIDE DEF more, base, path, x
  <2>6. ASSUME NEW t \in ToSet(run.text[path])
        PROVE  IF t.flag = "entry" THEN Join(base, t) \in Listed
               ELSE Join(base, t) \in DOMAIN run.text => UseOf(t, base) \in Opened
    <3> DEFINE p == <<path, base>>
    <3>1. p \in Opened /\ p[1] = path /\ p[2] = base
      BY <2>5
    <3> HIDE DEF p
    <3>2. CASE t.flag = "entry"
      <4>1. Join(base, t) \in {Join(p[2], u) : u \in {v \in ToSet(run.text[p[1]]) : v.flag = "entry"}}
        BY <3>1, <3>2, <2>6
      <4> QED
        BY <3>1, <3>2, <4>1 DEF Listed, ListedBy
    <3>3. CASE t.flag # "entry"
      BY <3>1, <3>3, <2>6, NamedIsOpened DEF ReadInv
    <3> QED
      BY <3>2, <3>3
  <2>7. \A y \in ToSet(todo') :
          IF y.token.flag = "entry" THEN Join(y.base, y.token) \in Listed
          ELSE Join(y.base, y.token) \in DOMAIN run.text => UseOf(y.token, y.base) \in Opened
    <3> SUFFICES ASSUME NEW y \in ToSet(todo')
                 PROVE  IF y.token.flag = "entry" THEN Join(y.base, y.token) \in Listed
                        ELSE Join(y.base, y.token) \in DOMAIN run.text => UseOf(y.token, y.base) \in Opened
      OBVIOUS
    <3>1. CASE y \in ToSet(Tail(todo))
      BY <3>1, <1>3 DEF ReadInv
    <3>2. CASE y \in ToSet(more)
      <4>1. PICK t \in ToSet(run.text[path]) : y = [token |-> t, base |-> base]
        BY <3>2, <2>2
      <4>2. y.token = t /\ y.base = base
        BY <4>1
      <4> QED
        BY <4>2, <2>6
    <3> QED
      BY <3>1, <3>2, <2>4
  <2>8. ASSUME NEW t, NEW b, Looked(t, b) \/ Left(t, b) PROVE Looked(t, b)' \/ Left(t, b)'
    BY <2>8, <1>8, <2>4 DEF Left
  <2>9. PICK uses \in SUBSET Opened : ReadSoFar(uses)
    BY DEF ReadInv
  <2>10. PICK use : use \in Opened /\ use[1] = path /\ use[2] = base
    <3>1. <<path, base>>[1] = path /\ <<path, base>>[2] = base
      OBVIOUS
    <3> QED
      BY <2>5, <3>1
  <2>11. uses \union {use} \subseteq Opened'
    BY <1>4, <2>10
  <2>12. ReadSoFar(uses \union {use})'
    <3>1. ASSUME NEW t \in ToSet(run.text[use[1]])
          PROVE  Looked(t, use[2])' \/ Left(t, use[2])'
      <4>1. [token |-> t, base |-> base] \in ToSet(more)
        BY <2>2, <2>10
      <4> QED
        BY <4>1, <2>4, <2>10 DEF Left
    <3>2. \A u \in uses : \A t \in ToSet(run.text[u[1]]) : Looked(t, u[2])' \/ Left(t, u[2])'
      BY <2>8, <2>9 DEF ReadSoFar
    <3>3. \A q \in seen' \intersect DOMAIN run.text : \E u \in uses \union {use} : u[1] = q
      BY <1>1, <2>9, <2>10 DEF ReadSoFar
    <3> QED
      BY <1>1, <3>1, <3>2, <3>3 DEF ReadSoFar
  <2> QED
    BY <1>1, <1>4, <2>4, <2>7, <2>8, <2>11, <2>12 DEF ReadInv
<1> QED
  BY <1>9, <1>10
-----------------------------------------------------------------------------
(* Routing. *)

RouteInv ==
  /\ stage = "read" => command_files = (run.commands # <<>>)
  /\ stage \notin {"read", "exited"} =>
       /\ todo = <<>>
       /\ command_files = (run.commands # <<>> /\ ~(Foreign # {} /\ "sv" \in run.usable /\ ~HasSources))
       /\ routed = [l \in Languages |-> {f \in Collected : ReaderOf(f, run.usable) = l}]
       /\ skipped = {f \in Collected : Suffix(f) \in KnownSuffixes \ run.usable}
       /\ \A l \in run.usable : routed[l] # {} \/ (l = "sv" /\ command_files) => l \in joined
       /\ joined \subseteq run.usable

\* Route reads all of the above from what is read and asked for.
LEMMA RouteMakesRouteInv ==
  ASSUME RouteInv, Route
  PROVE  RouteInv'
<1>1. stage = "read" /\ todo = <<>> /\ UNCHANGED <<run, readVars>>
  BY DEF Route
<1>2. UNCHANGED <<Foreign, HasSources, Collected, todo>>
  BY <1>1 DEF Foreign, HasSources, SlangRejects, Collected, Listed, ListedBy, Opened, readVars
<1>3. /\ command_files' = (command_files /\ ~(Foreign # {} /\ "sv" \in run.usable /\ ~HasSources))
      /\ routed' = [l \in Languages |-> {f \in Collected : ReaderOf(f, run.usable) = l}]
      /\ skipped' = {f \in Collected : Suffix(f) \in KnownSuffixes \ run.usable}
      /\ joined' = IF \A l \in run.usable : ~HasInputs(l) THEN {}
                   ELSE {l \in run.usable : HasInputs(l) \/ l \in run.library}
      /\ stage' # "read"
  BY DEF Route, Exit
<1>4. \A l : HasInputs(l) <=> routed'[l] # {} \/ (l = "sv" /\ command_files')
  BY DEF HasInputs
<1> HIDE DEF Route
<1>5. command_files' = (run.commands # <<>> /\ ~(Foreign # {} /\ "sv" \in run.usable /\ ~HasSources))
  BY <1>1, <1>3 DEF RouteInv
<1>6. joined' \subseteq run.usable /\ \A l \in run.usable : routed'[l] # {} \/ (l = "sv" /\ command_files') => l \in joined'
  BY <1>3, <1>4
<1>7. run' = run /\ todo' = <<>>
  BY <1>1, <1>2
<1> QED
  BY <1>2, <1>3, <1>5, <1>6, <1>7 DEF RouteInv

\* Reading comes before, and nothing after changes what it is about.
LEMMA RouteInvKept ==
  ASSUME RouteInv, [CliNext]_cliVars
  PROVE  RouteInv'
<1>1. CASE OpenCommandFile \/ TakeEntry
  BY <1>1 DEF OpenCommandFile, TakeEntry, inputVars, RouteInv
<1>2. CASE Route
  BY <1>2, RouteMakesRouteInv
<1>3. CASE Stitch \/ AfterStitch \/ UNCHANGED cliVars
  <2>1. UNCHANGED <<run, readVars, inputVars>> /\ (stage = "read" <=> stage' = "read") /\ (stage = "exited" => stage' = "exited")
    BY <1>3 DEF Stitch, AfterStitch, WriteYaml, WriteFilelist, Write, BeginTree, PrintTree, EndMain, Exit, cliVars
  <2>2. UNCHANGED <<Foreign, HasSources, Collected, todo>>
    BY <2>1 DEF Foreign, HasSources, SlangRejects, Collected, Listed, ListedBy, Opened, readVars
  <2> QED
    BY <2>1, <2>2 DEF RouteInv, inputVars
<1> QED
  BY <1>1, <1>2, <1>3 DEF CliNext, BeforeStitch, Exited

\* ReadInv is about reading alone.
LEMMA ReadInvKept ==
  ASSUME ReadInv, [CliNext]_cliVars
  PROVE  ReadInv'
<1>1. CASE ~(OpenCommandFile \/ TakeEntry)
  <2>1. UNCHANGED <<run, readVars>>
    BY <1>1 DEF CliNext, BeforeStitch, Route, Exited, Stitch, AfterStitch, WriteYaml, WriteFilelist, BeginTree,
                PrintTree, EndMain, cliVars
  <2>2. UNCHANGED <<Opened, Listed, Items, seen, entries, todo>>
    BY <2>1 DEF Opened, Listed, ListedBy, Items, Tokens, Bases, readVars
  <2>3. \A uses : ReadSoFar(uses)' = ReadSoFar(uses)
    BY <2>1, <2>2 DEF ReadSoFar, Looked, Left
  <2> QED
    BY <2>1, <2>2, <2>3 DEF ReadInv, Looked, Left
<1> QED
  BY <1>1, OpenKeepsReadInv, TakeEntryKeepsReadInv

\* Each file that the command line, or one of these uses, asks for is used.
Reads(uses) ==
  \A use \in CommandLine \union UsesBelow(run, uses) :
    use[1] \in DOMAIN run.text => \E u \in uses : u[1] = use[1]

\* When nothing is left, each file that is asked for was read, and what it lists was taken.
LEMMA AllIsListed ==
  ASSUME ReadInv, todo = <<>>
  PROVE  \E uses \in SUBSET Opened : Reads(uses) /\ ListedBy(uses) \subseteq entries
<1>1. \A t, base : ~Left(t, base)
  BY DEF Left, ToSet
<1>2. PICK uses \in SUBSET Opened : ReadSoFar(uses)
  BY DEF ReadInv
<1>3. ASSUME NEW use \in CommandLine \union UsesBelow(run, uses), use[1] \in DOMAIN run.text
      PROVE  \E u \in uses : u[1] = use[1]
  <2>1. CASE use \in CommandLine
    <3>1. PICK t \in ToSet(run.commands) : t.flag # "entry" /\ use = UseOf(t, "cwd")
      BY <2>1 DEF CommandLine, Uses, UseOf
    <3>2. Join("cwd", t) \in seen
      BY <3>1, <1>1 DEF ReadInv, Looked
    <3>3. use[1] \in seen
      BY <3>1, <3>2 DEF UseOf
    <3> QED
      BY <3>3, <1>2, <1>3 DEF ReadSoFar
  <2>2. ASSUME NEW p \in uses, use \in Uses(run.text[p[1]], p[2])
        PROVE  \E u \in uses : u[1] = use[1]
    <3>1. PICK t \in ToSet(run.text[p[1]]) : t.flag # "entry" /\ use = UseOf(t, p[2])
      BY <2>2 DEF Uses, UseOf
    <3>2. Join(p[2], t) \in seen
      BY <3>1, <1>1, <1>2 DEF ReadSoFar, Looked
    <3>3. use[1] \in seen
      BY <3>1, <3>2 DEF UseOf
    <3> QED
      BY <3>3, <1>2, <1>3 DEF ReadSoFar
  <2> QED
    BY <1>3, <2>1, <2>2 DEF UsesBelow
<1>4. ASSUME NEW p \in uses, NEW t \in ToSet(run.text[p[1]]), t.flag = "entry"
      PROVE  Join(p[2], t) \in entries
  BY <1>1, <1>2, <1>4 DEF ReadSoFar, Looked
<1>5. ListedBy(uses) \subseteq entries
  BY <1>4 DEF ListedBy
<1> QED
  BY <1>3, <1>5 DEF Reads

\* Slang reads something, if only the command line names a file for it.
LEMMA ListedIsAsked ==
  ASSUME ReadInv, Listed # {}
  PROVE  run.commands # <<>>
<1> SUFFICES ASSUME run.commands = <<>> PROVE FALSE
  OBVIOUS
<1>1. CommandLine = {}
  BY DEF CommandLine, Uses, ToSet
<1>2. HoldsUses(run, CommandLine, {})
  BY <1>1 DEF HoldsUses, UsesBelow
<1>3. Opened = {}
  BY <1>2, OpenedIsLeast DEF ReadInv
<1> QED
  BY <1>3 DEF Listed, ListedBy

\* What has been read is what EveryFileHasAReader asks for, and Route routes it.
LEMMA RoutingIsRight ==
  ASSUME ReadInv, RouteInv
  PROVE  EveryFileHasAReader
<1> SUFFICES ASSUME stage \notin {"read", "exited"} PROVE EveryFileHasAReader
  BY DEF EveryFileHasAReader
<1> DEFINE there == run.disk \ run.ignored
           goes(f) == IF "vhdl" \in joined THEN f \in routed["vhdl"] ELSE f \in skipped
<1>1. /\ todo = <<>>
      /\ command_files = (run.commands # <<>> /\ ~(Foreign # {} /\ "sv" \in run.usable /\ ~HasSources))
      /\ routed = [l \in Languages |-> {f \in Collected : ReaderOf(f, run.usable) = l}]
      /\ skipped = {f \in Collected : Suffix(f) \in KnownSuffixes \ run.usable}
      /\ \A l \in run.usable : routed[l] # {} \/ (l = "sv" /\ command_files) => l \in joined
      /\ joined \subseteq run.usable
  BY DEF RouteInv
<1>2. /\ routed["sv"] = {f \in Collected : ReaderOf(f, run.usable) = "sv"}
      /\ routed["vhdl"] = {f \in Collected : ReaderOf(f, run.usable) = "vhdl"}
  BY <1>1 DEF Languages
<1>3. ASSUME NEW f \in (run.paths \union entries) \intersect there, Suffix(f) = "vhdl"
      PROVE  goes(f)
  <2>1. f \in run.paths \/ f \in Foreign
    BY <1>3 DEF Foreign
  <2>2. f \in Collected
    BY <2>1 DEF Collected
  <2>3. CASE "vhdl" \in run.usable
    <3>1. f \in routed["vhdl"]
      BY <2>2, <2>3, <1>2, <1>3 DEF ReaderOf
    <3> QED
      BY <3>1, <2>3, <1>1
  <2>4. CASE "vhdl" \notin run.usable
    BY <2>2, <2>4, <1>1, <1>3 DEF KnownSuffixes
  <2> QED
    BY <2>3, <2>4
<1>4. ASSUME NEW f \in (run.paths \union Listed) \intersect there, Suffix(f) # "vhdl", "sv" \in run.usable
      PROVE  "sv" \in joined /\ (f \in routed["sv"] \/ (f \in Listed /\ command_files))
  <2>1. CASE f \in run.paths
    <3>1. f \in Collected
      BY <2>1 DEF Collected
    <3>2. Suffix(f) \in run.usable => Suffix(f) = "sv"
      BY <1>4, CliAssumption DEF CliAssumption, Languages, ReadInv
    <3>3. f \in routed["sv"]
      BY <3>1, <3>2, <1>2, <1>4 DEF ReaderOf, KnownSuffixes
    <3> QED
      BY <3>3, <1>1, <1>4
  <2>2. CASE f \in Listed
    <3>1. HasSources
      BY <2>2, <1>4 DEF HasSources
    <3>2. command_files
      BY <3>1, <2>2, <1>1, ListedIsAsked
    <3> QED
      BY <3>2, <2>2, <1>1, <1>4
  <2> QED
    BY <2>1, <2>2
<1>5. routed["sv"] \intersect (routed["vhdl"] \union skipped) = {}
  <2>1. \A f : Suffix(f) \in KnownSuffixes \ run.usable => ReaderOf(f, run.usable) = "nobody"
    BY DEF ReaderOf
  <2> QED
    BY <2>1, <1>1, <1>2
<1>6. ASSUME NEW l \in Languages, routed[l] # {}
      PROVE  l \in joined
  <2>1. PICK f \in Collected : ReaderOf(f, run.usable) = l
    BY <1>6, <1>1
  <2>2. l \in run.usable
    BY <2>1 DEF ReaderOf, Languages
  <2> QED
    BY <2>2, <1>6, <1>1
<1>7. PICK uses \in SUBSET Opened : Reads(uses) /\ ListedBy(uses) \subseteq entries
  BY <1>1, AllIsListed
<1>8. \A f \in (run.paths \union ListedBy(uses)) \intersect there : Suffix(f) = "vhdl" => goes(f)
  BY <1>3, <1>7
<1> QED
  BY <1>4, <1>5, <1>6, <1>7, <1>8 DEF EveryFileHasAReader, Reads, CommandLine

\* Each file on the command line, and all that a command file lists relative to one directory
\* at least, goes to one reader that is there, or is warned about; slang gets what it lists
\* relative to any.  Command files refer to each other as they like, and to themselves.
THEOREM EveryNamedFileIsRead == CliSpec => []EveryFileHasAReader
<1>1. CliInit => ReadInv
  BY ReadInvInit
<1>2. CliInit => RouteInv
  BY DEF CliInit, RouteInv
<1>3. ReadInv /\ [CliNext]_cliVars => ReadInv'
  BY ReadInvKept
<1>4. RouteInv /\ [CliNext]_cliVars => RouteInv'
  BY RouteInvKept
<1>5. ReadInv /\ RouteInv => EveryFileHasAReader
  BY RoutingIsRight
<1> QED
  BY <1>1, <1>2, <1>3, <1>4, <1>5, PTL DEF CliSpec
-----------------------------------------------------------------------------
(* Orders. *)

\* A set of numbers has a least one.
LEMMA LeastNumber ==
  ASSUME NEW S \in SUBSET Nat, S # {}
  PROVE  \E x \in S : \A y \in S : x <= y
<1>1. \E x \in S : \A y \in S : <<y, x>> \notin OpToRel(<, Nat)
  BY WFMin, NatLessThanWellFounded, Zenon
<1>2. PICK x \in S : \A y \in S : ~(y < x)
  BY <1>1, Zenon DEF OpToRel
<1> QED
  BY <1>2

\* A set of numbers with a bound has a greatest one.
LEMMA MaxOfNumbers ==
  ASSUME NEW n \in Nat, NEW S \in SUBSET (1..n), S # {}
  PROVE  Max(S) \in S /\ \A y \in S : y <= Max(S)
<1> DEFINE bounds == {k \in Nat : \A y \in S : y <= k}
<1>1. PICK k \in bounds : \A b \in bounds : k <= b
  <2>1. n \in bounds
    OBVIOUS
  <2> QED
    BY <2>1, LeastNumber
<1>2. k \in S
  <2> SUFFICES ASSUME k \notin S PROVE FALSE
    OBVIOUS
  <2>1. k \in Nat \ {0} /\ \A y \in S : y <= k - 1
    <3>1. k \in Nat /\ \A y \in S : y \in 1..n /\ y <= k /\ y # k
      BY <1>1
    <3>2. PICK y \in S : TRUE
      OBVIOUS
    <3> QED
      BY <3>1, <3>2
  <2>2. k - 1 \in bounds
    BY <2>1
  <2> QED
    BY <1>1, <2>1, <2>2
<1>3. k \in S /\ \A y \in S : k >= y
  BY <1>1, <1>2
<1>4. \A x \in S : (\A y \in S : x >= y) => x = k
  BY <1>3
<1> HIDE DEF bounds
<1> QED
  BY <1>3, <1>4 DEF Max

\* What a function makes of a finite set is finite.
LEMMA ImageIsFinite ==
  ASSUME NEW S, IsFiniteSet(S), NEW f
  PROVE  IsFiniteSet({f[x] : x \in S})
<1> DEFINE T == {f[x] : x \in S}
           g == [x \in S |-> f[x]]
<1>1. g \in Surjection(S, T)
  BY DEF Surjection
<1> QED
  BY <1>1, FS_Surjection

\* k elements in order, with all that they wait for.
Sorted(o, k, N, R) ==
  /\ o \in [1..k -> N]
  /\ \A i, j \in 1..k : o[i] = o[j] => i = j
  /\ \A i \in 1..k : \A d \in N : <<d, o[i]>> \in R => \E j \in 1..(i - 1) : o[j] = d

\* One more can be sorted: an element that waits for none of those left.
LEMMA OneMore ==
  ASSUME NEW N, IsFiniteSet(N), NEW R,
         \A s \in SUBSET N : s # {} => \E x \in s : \A g \in s : <<g, x>> \notin R,
         NEW k \in Nat, k < Cardinality(N), NEW o, Sorted(o, k, N, R)
  PROVE  \E p : Sorted(p, k + 1, N, R)
<1> DEFINE left == N \ {o[i] : i \in 1..k}
<1>1. left # {}
  <2> SUFFICES ASSUME left = {} PROVE FALSE
    OBVIOUS
  <2>1. o \in Surjection(1..k, N)
    BY DEF Surjection, Sorted
  <2>2. IsFiniteSet(1..k) /\ Cardinality(1..k) = k
    BY FS_Interval
  <2>3. Cardinality(N) <= k
    BY <2>1, <2>2, FS_Surjection
  <2> QED
    BY <2>3, FS_CardinalityType
<1>2. PICK x \in left : \A g \in left : <<g, x>> \notin R
  BY <1>1
<1> HIDE DEF left
<1>3. x \in N /\ (\A i \in 1..k : o[i] # x) /\ \A d \in N : <<d, x>> \in R => \E j \in 1..k : o[j] = d
  BY <1>2 DEF left
<1> DEFINE p == [i \in 1..(k + 1) |-> IF i <= k THEN o[i] ELSE x]
<1>4. p \in [1..(k + 1) -> N]
  BY <1>3 DEF Sorted
<1>5. (\A i \in 1..k : p[i] = o[i]) /\ p[k + 1] = x
  OBVIOUS
<1> HIDE DEF p
<1>6. ASSUME NEW i \in 1..(k + 1), NEW j \in 1..(k + 1), p[i] = p[j]
      PROVE  i = j
  <2>1. CASE i \in 1..k /\ j \in 1..k
    BY <2>1, <1>5, <1>6 DEF Sorted
  <2>2. CASE i = k + 1 \/ j = k + 1
    BY <2>2, <1>3, <1>5, <1>6
  <2> QED
    BY <2>1, <2>2
<1>7. ASSUME NEW i \in 1..(k + 1), NEW d \in N, <<d, p[i]>> \in R
      PROVE  \E j \in 1..(i - 1) : p[j] = d
  <2>1. CASE i \in 1..k
    <3>1. PICK j \in 1..(i - 1) : o[j] = d
      BY <2>1, <1>5, <1>7 DEF Sorted
    <3> QED
      BY <3>1, <2>1, <1>5
  <2>2. CASE i = k + 1
    <3>1. PICK j \in 1..k : o[j] = d
      BY <2>2, <1>3, <1>5, <1>7
    <3> QED
      BY <3>1, <2>2, <1>5
  <2> QED
    BY <2>1, <2>2
<1> QED
  BY <1>4, <1>6, <1>7 DEF Sorted

\* Finitely many elements have an order, unless some go round in a circle.
LEMMA OrdersExist ==
  ASSUME NEW N, IsFiniteSet(N), NEW R,
         \A s \in SUBSET N : s # {} => \E x \in s : \A g \in s : <<g, x>> \notin R
  PROVE  Orders(N, R) # {}
<1> DEFINE n == Cardinality(N)
           bad == {k \in Nat : k <= n /\ \A o : ~Sorted(o, k, N, R)}
<1>1. n \in Nat
  BY FS_CardinalityType
<1>2. 0 \notin bad
  <2> DEFINE o == [i \in 1..0 |-> i]
  <2>1. o \in [1..0 -> N]
    OBVIOUS
  <2>2. Sorted(o, 0, N, R)
    BY <2>1 DEF Sorted
  <2> HIDE DEF o
  <2> QED
    BY <2>2
<1>3. bad = {}
  <2> SUFFICES ASSUME bad # {} PROVE FALSE
    OBVIOUS
  <2>1. PICK k \in bad : \A b \in bad : k <= b
    BY LeastNumber
  <2>2. k \in Nat \ {0} /\ k - 1 \in Nat /\ k <= n
    BY <2>1, <1>2
  <2>3. k - 1 \notin bad
    BY <2>1, <2>2
  <2>4. PICK o : Sorted(o, k - 1, N, R)
    BY <2>2, <2>3, <1>1
  <2>5. k - 1 < n /\ (k - 1) + 1 = k
    BY <2>2, <1>1
  <2>6. \E p : Sorted(p, (k - 1) + 1, N, R)
    BY <2>2, <2>4, <2>5, OneMore
  <2>7. \E p : Sorted(p, k, N, R)
    BY <2>5, <2>6
  <2> QED
    BY <2>1, <2>7
<1>4. PICK o : Sorted(o, n, N, R)
  BY <1>1, <1>3
<1> HIDE DEF n, bad
<1>5. DOMAIN o = 1..n /\ \A i \in 1..n : o[i] \in N
  BY <1>4 DEF Sorted
<1>6. ASSUME NEW i \in 1..n, NEW j \in 1..n, <<o[i], o[j]>> \in R
      PROVE  i < j
  <2>1. PICK h \in 1..(j - 1) : o[h] = o[i]
    BY <1>4, <1>5, <1>6 DEF Sorted
  <2>2. h = i
    BY <2>1, <1>1, <1>4 DEF Sorted
  <2> QED
    BY <2>1, <2>2
<1>7. o \in SetToSeqs(N)
  BY <1>4 DEF Sorted, SetToSeqs, n
<1> QED
  BY <1>5, <1>6, <1>7 DEF Orders

\* An order has each element once.
LEMMA OrdersAreWhole ==
  ASSUME NEW N, IsFiniteSet(N), NEW R, NEW o \in Orders(N, R)
  PROVE  /\ IsInjective(o) /\ ToSet(o) = N
         /\ \A i, j \in DOMAIN o : <<o[i], o[j]>> \in R => i < j
<1> DEFINE n == Cardinality(N)
<1>1. n \in Nat
  BY FS_CardinalityType
<1>2. o \in [1..n -> N] /\ IsInjective(o)
  BY DEF Orders, SetToSeqs, IsInjective
<1>3. IsFiniteSet(1..n) /\ Cardinality(1..n) = n
  BY <1>1, FS_Interval
<1>4. o \in Injection(1..n, N)
  BY <1>2 DEF Injection
<1>5. o \in Surjection(1..n, N)
  BY <1>3, <1>4, FS_Injection
<1>6. ToSet(o) = N
  BY <1>2, <1>5 DEF Surjection, ToSet
<1> QED
  BY <1>2, <1>6 DEF Orders
-----------------------------------------------------------------------------
(* The filelist. *)

FilelistInv ==
  /\ stage \in {"read", "stitch", "yaml", "filelist", "tree", "end", "exited"}
  /\ run \in Invocations
  /\ stage \notin {"read", "stitch", "exited"} => result \in run.results /\ ~result.failed
  /\ stage \in {"tree", "end"} /\ run.filelist # "none" => filelist \in Filelists

\* A filelist is made of the result that is kept.
LEMMA FilelistInvKept ==
  ASSUME FilelistInv, [CliNext]_cliVars
  PROVE  FilelistInv'
<1>1. CASE BeforeStitch
  <2>1. run' = run /\ stage' \in {"read", "stitch", "exited"}
    BY <1>1 DEF BeforeStitch, OpenCommandFile, TakeEntry, Route, Exit
  <2> QED
    BY <2>1 DEF FilelistInv
<1>2. CASE Stitch
  <2>1. result' \in run.results \/ result'.failed
    BY <1>2 DEF Stitch, Failed
  <2> QED
    BY <1>2, <2>1 DEF Stitch, Exit, FilelistInv
<1>3. CASE AfterStitch \/ UNCHANGED cliVars
  <2>1. UNCHANGED <<run, result>>
    BY <1>3 DEF AfterStitch, WriteYaml, WriteFilelist, BeginTree, PrintTree, EndMain, writeVars, cliVars
  <2>2. UNCHANGED Filelists
    BY <2>1 DEF Filelists, KeptNames, Before, InputOrder, FileDeps, Definers, Kept
  <2>3. CASE WriteFilelist
    <3>1. stage = "filelist" /\ stage' \in {"tree", "exited"} /\ (run.filelist # "none" => filelist' \in Filelists)
      BY <2>3 DEF WriteFilelist, Write, Exit
    <3> QED
      BY <3>1, <2>1, <2>2 DEF FilelistInv
  <2>4. CASE ~WriteFilelist
    <3>1. /\ filelist' = filelist
          /\ \/ stage' = stage \/ stage' = "exited" \/ (stage = "yaml" /\ stage' = "filelist")
             \/ (stage = "tree" /\ stage' = "end")
      BY <1>3, <2>4 DEF AfterStitch, WriteYaml, Write, BeginTree, PrintTree, EndMain, Exit, writeVars, cliVars
    <3> QED
      BY <3>1, <2>1, <2>2 DEF FilelistInv
  <2> QED
    BY <2>3, <2>4
<1> QED
  BY <1>1, <1>2, <1>3 DEF CliNext, Exited

\* The files kept are finitely many, with finitely many to depend on.
LEMMA NodesAreFinite ==
  ASSUME AreEntries(result.files)
  PROVE  /\ \E n \in Nat : Kept \subseteq 1..n
         /\ IsFiniteSet(KeptNames) /\ IsFiniteSet(KeptNames \union {e[1] : e \in Before})
<1> DEFINE file == result.files
<1>1. Len(file) \in Nat /\ DOMAIN file = 1..Len(file)
  BY DEF AreEntries
<1>2. Kept \subseteq 1..Len(file)
  BY <1>1 DEF Kept
<1>3. IsFiniteSet(Kept)
  <2>1. IsFiniteSet(1..Len(file))
    BY <1>1, FS_Interval
  <2> QED
    BY <2>1, <1>2, FS_Subset
<1>4. IsFiniteSet(KeptNames)
  <2> DEFINE name == [i \in Kept |-> file[i].name]
  <2>1. IsFiniteSet({name[i] : i \in Kept})
    BY <1>3, ImageIsFinite
  <2>2. KeptNames = {name[i] : i \in Kept}
    BY DEF KeptNames
  <2> QED
    BY <2>1, <2>2
<1>5. \A n \in Nat : \A D \in SUBSET (1..n) : D # {} => Max(D) \in D
  BY MaxOfNumbers
<1>6. ASSUME NEW i \in Kept
      PROVE  IsFiniteSet(FileDeps(file[i]))
  <2>1. IsFiniteSet(KeptNames \union file[i].depends_on)
    BY <1>4, FS_Union DEF AreEntries, Kept
  <2>2. FileDeps(file[i]) \subseteq KeptNames \union file[i].depends_on
    <3>1. ASSUME NEW n, Definers(n) # {}
          PROVE  Max(Definers(n)) \in Kept
      <4>1. Definers(n) \in SUBSET (1..Len(file)) /\ Definers(n) \subseteq Kept
        BY <1>2 DEF Definers
      <4> QED
        BY <1>1, <1>5, <3>1, <4>1
    <3> QED
      BY <3>1 DEF FileDeps, KeptNames
  <2> QED
    BY <2>1, <2>2, FS_Subset
<1>7. IsFiniteSet(UNION {FileDeps(file[i]) : i \in Kept})
  <2> DEFINE deps == [i \in Kept |-> FileDeps(file[i])]
  <2>1. IsFiniteSet({deps[i] : i \in Kept})
    BY <1>3, ImageIsFinite
  <2>2. \A D \in {deps[i] : i \in Kept} : IsFiniteSet(D)
    BY <1>6
  <2>3. IsFiniteSet(UNION {deps[i] : i \in Kept})
    BY <2>1, <2>2, FS_UNION
  <2>4. {deps[i] : i \in Kept} = {FileDeps(file[i]) : i \in Kept}
    OBVIOUS
  <2> QED
    BY <2>3, <2>4
<1>8. {e[1] : e \in Before} \subseteq UNION {FileDeps(file[i]) : i \in Kept}
  BY DEF Before
<1> QED
  BY <1>1, <1>2, <1>4, <1>7, <1>8, FS_Subset, FS_Union
\* What the file i needs, as FilelistCompiles says: the last copies of what it uses that are
\* not shadowed, and what it depends on.
Copies(n) == {i \in Kept : n \in result.files[i].defines /\ n \notin result.files[i].shadowed}
Used(n) == {i \in Copies(n) : \A j \in Copies(n) : j <= i}
NeededBy(i) ==
  result.files[i].depends_on \union {result.files[j].name : j \in UNION {Used(n) : n \in result.files[i].uses}}
Needs == UNION {{result.files[i].name} \X (NeededBy(i) \ {result.files[i].name}) : i \in Kept}

\* These are the edges of compute_filelist.
LEMMA NeedsAreBefore ==
  ASSUME AreEntries(result.files)
  PROVE  Needs = {<<e[2], e[1]>> : e \in Before}
<1> DEFINE file == result.files
<1>1. PICK len \in Nat : Kept \subseteq 1..len
  BY NodesAreFinite
<1>2. ASSUME NEW n
      PROVE  Used(n) = IF Definers(n) = {} THEN {} ELSE {Max(Definers(n))}
  <2>1. Copies(n) = Definers(n) /\ Copies(n) \in SUBSET (1..len)
    BY <1>1 DEF Copies, Definers
  <2>2. CASE Definers(n) = {}
    BY <2>1, <2>2 DEF Used
  <2>3. CASE Definers(n) # {}
    <3>1. Max(Definers(n)) \in Copies(n) /\ \A j \in Copies(n) : j <= Max(Definers(n))
      BY <2>1, <2>3, MaxOfNumbers
    <3> DEFINE m == Max(Definers(n))
    <3> HIDE DEF m
    <3>2. \A i \in Copies(n) : (\A j \in Copies(n) : j <= i) => i = m
      BY <3>1, <2>1 DEF m
    <3> QED
      BY <3>1, <3>2, <2>3 DEF Used, m
  <2> QED
    BY <2>2, <2>3
<1>3. ASSUME NEW i \in Kept
      PROVE  NeededBy(i) \ {file[i].name} = FileDeps(file[i])
  <2>1. UNION {Used(n) : n \in file[i].uses} = {Max(Definers(n)) : n \in {u \in file[i].uses : Definers(u) # {}}}
    BY <1>2
  <2>2. {file[j].name : j \in UNION {Used(n) : n \in file[i].uses}}
          = {file[Max(Definers(n))].name : n \in {u \in file[i].uses : Definers(u) # {}}}
    BY <2>1
  <2> QED
    BY <2>2 DEF NeededBy, FileDeps
<1>4. Needs = UNION {{file[i].name} \X FileDeps(file[i]) : i \in Kept}
  BY <1>3 DEF Needs
<1>5. ASSUME NEW f, NEW D
      PROVE  {f} \X D = {<<e[2], e[1]>> : e \in D \X {f}}
  <2>1. ASSUME NEW d \in D
        PROVE  <<d, f>> \in D \X {f} /\ <<f, d>> \in {<<e[2], e[1]>> : e \in D \X {f}}
    <3> DEFINE e == <<d, f>>
    <3>1. e \in D \X {f} /\ e[2] = f /\ e[1] = d
      OBVIOUS
    <3> HIDE DEF e
    <3>2. <<f, d>> \in {<<x[2], x[1]>> : x \in D \X {f}}
      BY <3>1
    <3> QED
      BY <3>2
  <2>2. ASSUME NEW x \in {f} \X D
        PROVE  \E d \in D : x = <<f, d>>
    OBVIOUS
  <2>3. ASSUME NEW e \in D \X {f}
        PROVE  <<e[2], e[1]>> \in {f} \X D
    BY <2>3
  <2>4. {f} \X D \subseteq {<<e[2], e[1]>> : e \in D \X {f}}
    BY <2>1, <2>2
  <2>5. {<<e[2], e[1]>> : e \in D \X {f}} \subseteq {f} \X D
    BY <2>3
  <2> QED
    BY <2>4, <2>5
<1>6. UNION {{file[i].name} \X FileDeps(file[i]) : i \in Kept} = {<<e[2], e[1]>> : e \in Before}
  BY <1>5 DEF Before
<1> QED
  BY <1>4, <1>6

\* An order of compute_filelist is one in which each file comes after what it needs.
LEMMA FilelistsCompile ==
  ASSUME AreEntries(result.files), NEW o \in Filelists
  PROVE  /\ IsInjective(o)
         /\ KeptNames \subseteq ToSet(o)
         /\ ToSet(o) \subseteq KeptNames \union {p[2] : p \in Needs}
         /\ \/ \E s \in SUBSET KeptNames : s # {} /\ \A f \in s : \E g \in s : <<f, g>> \in Needs
            \/ \A i, j \in DOMAIN o : <<o[i], o[j]>> \in Needs => j < i
<1> DEFINE nodes == KeptNames \union {e[1] : e \in Before}
           circle == \E s \in SUBSET KeptNames : s # {} /\ \A f \in s : \E g \in s : <<f, g>> \in Needs
<1>1. IsFiniteSet(KeptNames) /\ IsFiniteSet(nodes)
  BY NodesAreFinite
<1>2. \A e \in Before : e = <<e[1], e[2]>> /\ e[2] \in KeptNames
  BY DEF Before, KeptNames
<1>3. \A f, g : <<f, g>> \in Needs <=> <<g, f>> \in Before
  BY <1>2, NeedsAreBefore
<1>4. \A p \in Needs : p = <<p[1], p[2]>> /\ <<p[2], p[1]>> \in Before
  BY <1>2, NeedsAreBefore
<1>5. {e[1] : e \in Before} \subseteq {p[2] : p \in Needs}
  <2> SUFFICES ASSUME NEW e \in Before PROVE e[1] \in {p[2] : p \in Needs}
    OBVIOUS
  <2> DEFINE p == <<e[2], e[1]>>
  <2>1. p \in Needs /\ p[2] = e[1]
    BY <1>2, <1>3
  <2> HIDE DEF p
  <2> QED
    BY <2>1
<1>6. {p[2] : p \in Needs} \subseteq {e[1] : e \in Before}
  <2> SUFFICES ASSUME NEW p \in Needs PROVE p[2] \in {e[1] : e \in Before}
    OBVIOUS
  <2> DEFINE e == <<p[2], p[1]>>
  <2>1. e \in Before /\ e[1] = p[2]
    BY <1>4
  <2> HIDE DEF e
  <2> QED
    BY <2>1
<1>7. CASE Orders(nodes, Before) # {}
  <2>1. o \in Orders(nodes, Before)
    BY <1>7 DEF Filelists
  <2>2. /\ IsInjective(o) /\ ToSet(o) = nodes
        /\ \A i, j \in DOMAIN o : <<o[i], o[j]>> \in Before => i < j
    BY <1>1, <2>1, OrdersAreWhole
  <2> QED
    BY <2>2, <1>3, <1>5, <1>6
<1>8. CASE Orders(nodes, Before) = {}
  <2>1. o \in Orders(KeptNames, InputOrder)
    BY <1>8 DEF Filelists
  <2>2. IsInjective(o) /\ ToSet(o) = KeptNames
    BY <1>1, <2>1, OrdersAreWhole
  <2>3. PICK s \in SUBSET nodes : s # {} /\ \A x \in s : \E g \in s : <<g, x>> \in Before
    BY <1>1, <1>8, OrdersExist
  <2>4. s \in SUBSET KeptNames
    BY <2>3, <1>2
  <2>5. \A f \in s : \E g \in s : <<f, g>> \in Needs
    BY <2>3, <1>3
  <2>6. circle
    BY <2>3, <2>4, <2>5
  <2> QED
    BY <2>2, <2>6
<1> QED
  BY <1>7, <1>8

\* What compute_filelist returns has every needed file once, after those it needs, unless
\* files go round in a circle, whichever of the orders networkx gives.
THEOREM FilelistAlwaysCompiles == CliSpec => []FilelistCompiles
<1>1. CliInit => FilelistInv
  BY DEF CliInit, FilelistInv
<1>2. FilelistInv /\ [CliNext]_cliVars => FilelistInv'
  BY FilelistInvKept
<1>3. FilelistInv => FilelistCompiles
  <2> SUFFICES ASSUME FilelistInv, stage \notin {"read", "stitch", "yaml", "filelist", "exited"}, run.filelist # "none"
               PROVE  FilelistCompiles
    BY DEF FilelistCompiles
  <2>1. AreEntries(result.files) /\ filelist \in Filelists
    BY CliAssumption DEF CliAssumption, FilelistInv
  <2>2. /\ IsInjective(filelist)
        /\ KeptNames \subseteq ToSet(filelist)
        /\ ToSet(filelist) \subseteq KeptNames \union {p[2] : p \in Needs}
        /\ \/ \E s \in SUBSET KeptNames : s # {} /\ \A f \in s : \E g \in s : <<f, g>> \in Needs
           \/ \A i, j \in DOMAIN filelist : <<filelist[i], filelist[j]>> \in Needs => j < i
    BY <2>1, FilelistsCompile
  <2> QED
    BY <2>2 DEF FilelistCompiles, Needs, NeededBy, Used, Copies
<1> QED
  BY <1>1, <1>2, <1>3, PTL DEF CliSpec
=============================================================================

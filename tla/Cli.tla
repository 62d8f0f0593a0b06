-------------------------------- MODULE Cli --------------------------------
(***************************************************************************)
(* main in src/svhier/cli.py around the stitcher: which files there are    *)
(* (files_in_command_files and _read_foreign_entries of slang_frontend.py, *)
(* collect_source_files), which frontend reads each (_route_files), and,   *)
(* for a stitched result, what is written, with the order of the filelist  *)
(* (filelist.py), and the exit code.                                       *)
(*                                                                         *)
(* There are slang's frontend, "sv", which takes the files of unknown      *)
(* suffixes, and "vhdl".  Warnings and tables other than the warning about *)
(* a skipped file are left out.                                            *)
(***************************************************************************)
EXTENDS Integers, FiniteSets, SequencesExt

CONSTANT Invocations  \* The command lines considered, with what is on disk.

Languages == {"sv", "vhdl"}
KnownSuffixes == {"sv", "vhdl"}

\* A path is a directory and a name, which has a suffix.  A token of a command file is an
\* entry or a flag, with a name in the directory it is relative to, or in sub below it.
Suffix(path) == path[2].suffix
Join(base, token) == <<IF token.sub = "." THEN base ELSE token.sub, token.name>>

\* What stitch returns has one entry of a file.
AreEntries(files) ==
  /\ files \in Seq(ToSet(files))
  /\ \A i, j \in DOMAIN files : files[i].name = files[j].name => i = j
  /\ \A i \in DOMAIN files : IsFiniteSet(files[i].depends_on)

\* paths, dirs: files and directories on the command line.  commands: its -f and -F.
\* text: the tokens of each command file that can be read.  disk: the files.  ignored: by -x.
\* usable, library: the frontends that can run, those with a -y.
\* yaml, filelist: "none", "file" or "stdout".  tree: "yes", "no" or "default".
\* results: what stitch may return; it raises if a result has failed.
ASSUME CliAssumption ==
  \A r \in Invocations :
    /\ r.usable \subseteq Languages /\ r.library \subseteq Languages
    /\ \A i \in DOMAIN r.commands : r.commands[i].flag # "entry"
    /\ \A s \in {r.commands} \union Range(r.text) : s \in Seq(ToSet(s))
    /\ \A x \in r.results : x.failed \/ AreEntries(x.files)
    /\ {r.yaml, r.filelist} \subseteq {"none", "file", "stdout"} /\ r.tree \in {"yes", "no", "default"}

VARIABLES
  run,      \* The command line and the disk.
  stage,
  todo,     \* Tokens of command files not looked at, each with its directory.
  seen,     \* Command files read,
  entries,  \* and what they list.
  command_files,  \* Whether slang gets them.
  routed,   \* The files of each frontend,
  joined,   \* the frontends stitch gets,
  skipped,  \* and the files warned about.
  result,   \* What stitch returned.
  filelist, \* What compute_filelist returned.
  written,  \* The outputs that are complete,
  printing, \* and whether the tree was begun.
  exit

readVars == <<todo, seen, entries>>
inputVars == <<command_files, routed, joined, skipped>>
writeVars == <<result, filelist, written, printing>>
cliVars == <<run, stage, readVars, inputVars, writeVars, exit>>

Running == -1  \* No exit code yet.
Failed == [failed |-> TRUE]

Relative(tokens, base) == [i \in DOMAIN tokens |-> [token |-> tokens[i], base |-> base]]

CliInit ==
  /\ run \in Invocations
  /\ stage = "read"
  /\ todo = Relative(run.commands, "cwd")
  /\ seen = {} /\ entries = {}
  /\ command_files = (run.commands # <<>>)
  /\ routed = [l \in Languages |-> {}] /\ joined = {} /\ skipped = {}
  /\ result = Failed /\ filelist = <<>> /\ written = {} /\ printing = FALSE
  /\ exit = Running

Exit(code) == stage' = "exited" /\ exit' = code

-----------------------------------------------------------------------------
(* Command files. *)

\* Mutant of BaseOf: entries are relative to the same directory, whatever the flag.
BaseOfNone(flag, path, base) == base

BaseOf(flag, path, base) == IF flag = "-F" THEN path[1] ELSE base

\* A command file is read once, in place, if it can be read.
OpenCommandFile ==
  /\ stage = "read" /\ todo # <<>>
  /\ LET token == Head(todo).token
         base == Head(todo).base
         path == Join(base, token)
     IN  /\ token.flag # "entry"
         /\ seen' = seen \union {path}
         /\ todo' = IF path \in seen \/ path \notin DOMAIN run.text THEN Tail(todo)
                    ELSE Relative(run.text[path], BaseOf(token.flag, path, base)) \o Tail(todo)
  /\ UNCHANGED <<run, stage, entries, inputVars, writeVars, exit>>

TakeEntry ==
  /\ stage = "read" /\ todo # <<>> /\ Head(todo).token.flag = "entry"
  /\ entries' = entries \union {Join(Head(todo).base, Head(todo).token)}
  /\ todo' = Tail(todo)
  /\ UNCHANGED <<run, stage, seen, inputVars, writeVars, exit>>

\* Slang reads the same command files by itself: a file each time it is named, relative to a
\* directory each time.  A use is a file with that directory.
Uses(tokens, base) ==
  {<<Join(base, t), IF t.flag = "-F" THEN Join(base, t)[1] ELSE base>> :
     t \in {x \in ToSet(tokens) : x.flag # "entry"}}

\* The uses of files that can be read, and what the command line, or one in a set, asks for.
CommandUses(r) == (DOMAIN r.text) \X ({"cwd"} \union {path[1] : path \in DOMAIN r.text})
UsesBelow(r, opened) == UNION {Uses(r.text[p[1]], p[2]) : p \in opened}

\* Sets with each use that is asked for from outside, or by one in the set.
HoldsUses(r, asked, opened) ==
  CommandUses(r) \intersect (asked \union UsesBelow(r, opened)) \subseteq opened

OpenedFrom(r, asked) ==
  {use \in CommandUses(r) : \A s \in SUBSET CommandUses(r) : HoldsUses(r, asked, s) => use \in s}

\* The uses there are, and what some of them list.
CommandsOf(r) == [commands |-> r.commands, text |-> r.text]
OpenedIn == [c \in {CommandsOf(r) : r \in Invocations} |-> OpenedFrom(c, Uses(c.commands, "cwd"))]
Opened == OpenedIn[CommandsOf(run)]
ListedBy(uses) ==
  UNION {{Join(p[2], t) : t \in {x \in ToSet(run.text[p[1]]) : x.flag = "entry"}} : p \in uses}
Listed == ListedBy(Opened)

\* Slang rejects a file that cannot be read, or that is used within itself.
RejectionIn ==
  [c \in DOMAIN OpenedIn |->
     LET asked == Uses(c.commands, "cwd") \union UsesBelow(c, OpenedIn[c])
     IN  \/ \E use \in asked : use[1] \notin DOMAIN c.text
         \/ \E use \in OpenedIn[c] :
              \E below \in OpenedFrom(c, UsesBelow(c, {use})) : below[1] = use[1]]
SlangRejects == RejectionIn[CommandsOf(run)]

\* What another language reads, and whether slang has anything left to read, or to reject.
Foreign == {e \in entries : Suffix(e) = "vhdl"}
HasSources == SlangRejects \/ \E e \in entries \union Listed : Suffix(e) # "vhdl"

-----------------------------------------------------------------------------
(* Routing. *)

\* collect_source_files: directories are searched for what any frontend reads.
Collected ==
  {f \in run.disk \ run.ignored :
     \/ f \in run.paths \union Foreign
     \/ f[1] \in run.dirs /\ Suffix(f) \in KnownSuffixes}

ReaderOf(f, usable) ==
  IF Suffix(f) \in usable THEN Suffix(f)
  ELSE IF Suffix(f) \notin KnownSuffixes /\ "sv" \in usable THEN "sv"
  ELSE "nobody"

HasInputs(l) == routed'[l] # {} \/ (l = "sv" /\ command_files')

\* The rest of _read_foreign_entries, and main up to stitch.  A frontend with only -y
\* joins in if another has inputs.
Route ==
  /\ stage = "read" /\ todo = <<>>
  /\ command_files' = (command_files /\ ~(Foreign # {} /\ "sv" \in run.usable /\ ~HasSources))
  /\ routed' = [l \in Languages |-> {f \in Collected : ReaderOf(f, run.usable) = l}]
  /\ skipped' = {f \in Collected : Suffix(f) \in KnownSuffixes \ run.usable}
  /\ joined' = IF \A l \in run.usable : ~HasInputs(l) THEN {}
               ELSE {l \in run.usable : HasInputs(l) \/ l \in run.library}
  /\ IF run.paths = {} /\ run.dirs = {} /\ Foreign = {} /\ ~command_files' THEN Exit(2)
     ELSE IF joined' = {} THEN Exit(1)
     ELSE stage' = "stitch" /\ UNCHANGED exit
  /\ UNCHANGED <<run, readVars, writeVars>>

Stitch ==
  /\ stage = "stitch"
  /\ result' \in IF command_files /\ "sv" \in joined /\ SlangRejects THEN {Failed} ELSE run.results
  /\ IF result'.failed THEN Exit(1) ELSE stage' = "yaml" /\ UNCHANGED exit
  /\ UNCHANGED <<run, readVars, inputVars, filelist, written, printing>>

-----------------------------------------------------------------------------
(* The filelist.  A result has its files in order, each with the names it defines, those of *)
(* which another file's copy is used, the names it uses and the files it depends on.        *)

Kept == {i \in DOMAIN result.files : result.all \/ result.files[i].name \in result.needed}

\* Mutant of Definers: a copy is as good as another.
DefinersAll(n) == {i \in Kept : n \in result.files[i].defines}

Definers(n) == {i \in Kept : n \in result.files[i].defines \ result.files[i].shadowed}

\* The last file that defines a name wins.
FileDeps(f) ==
  ({result.files[Max(Definers(n))].name : n \in {u \in f.uses : Definers(u) # {}}} \union f.depends_on)
    \ {f.name}

\* Every order of the elements of S that puts the first of each pair first.
Orders(S, before) == {o \in SetToSeqs(S) : \A i, j \in DOMAIN o : <<o[i], o[j]>> \in before => i < j}

KeptNames == {result.files[i].name : i \in Kept}
Before == UNION {FileDeps(result.files[i]) \X {result.files[i].name} : i \in Kept}
InputOrder == {<<result.files[p[1]].name, result.files[p[2]].name>> : p \in {q \in Kept \X Kept : q[1] < q[2]}}

\* compute_filelist: any order networkx may give, or the input order if there is none.
Filelists ==
  LET sorted == Orders(KeptNames \union {e[1] : e \in Before}, Before)
  IN  IF sorted # {} THEN sorted ELSE Orders(KeptNames, InputOrder)

-----------------------------------------------------------------------------
(* _write_outputs, and the end of main. *)

\* A file may not be writable; nothing after it is written then.
Write(output, to, next) ==
  IF to = "none" THEN stage' = next /\ UNCHANGED <<written, exit>>
  ELSE \/ written' = written \union {output} /\ stage' = next /\ UNCHANGED exit
       \/ to = "file" /\ Exit(1) /\ UNCHANGED written

WriteYaml ==
  /\ stage = "yaml"
  /\ Write("yaml", run.yaml, "filelist")
  /\ UNCHANGED <<run, readVars, inputVars, result, filelist, printing>>

WriteFilelist ==
  /\ stage = "filelist"
  /\ IF run.filelist = "none" THEN UNCHANGED filelist ELSE filelist' \in Filelists
  /\ Write("filelist", run.filelist, "tree")
  /\ UNCHANGED <<run, readVars, inputVars, result, printing>>

ShowTree ==
  run.tree = "yes" \/ (run.tree = "default" /\ "stdout" \notin {run.yaml, run.filelist})

\* Mutant of PrintTree: a reader that goes away is taken for the end of the tree.
PrintTreeQuietly ==
  /\ stage = "tree" /\ printing
  /\ written' = written \union {"tree"} \/ UNCHANGED written
  /\ stage' = "end"
  /\ UNCHANGED <<run, readVars, inputVars, result, filelist, printing, exit>>

BeginTree ==
  /\ stage = "tree" /\ ~printing
  /\ IF ShowTree THEN printing' = TRUE /\ UNCHANGED stage ELSE stage' = "end" /\ UNCHANGED printing
  /\ UNCHANGED <<run, readVars, inputVars, result, filelist, written, exit>>

\* _print_tree: to the end, or until the reader goes away.
PrintTree ==
  /\ stage = "tree" /\ printing
  /\ \/ written' = written \union {"tree"} /\ stage' = "end" /\ UNCHANGED exit
     \/ Exit(1) /\ UNCHANGED written
  /\ UNCHANGED <<run, readVars, inputVars, result, filelist, printing>>

\* The tables, which are left out, come before the outputs.
EndMain ==
  /\ stage = "end"
  /\ Exit(IF result.has_errors THEN 1 ELSE 0)
  /\ UNCHANGED <<run, readVars, inputVars, writeVars>>

BeforeStitch == OpenCommandFile \/ TakeEntry \/ Route
AfterStitch == WriteYaml \/ WriteFilelist \/ BeginTree \/ PrintTree \/ EndMain
Exited == stage = "exited" /\ UNCHANGED cliVars

CliNext == BeforeStitch \/ Stitch \/ AfterStitch \/ Exited
CliSpec == CliInit /\ [][CliNext]_cliVars

-----------------------------------------------------------------------------
\* Each VHDL file on the command line goes to the VHDL frontend or is warned about; and with
\* it, of each command file that the command line names, or a file so read, all that it lists
\* relative to one directory at least.  Slang gets each other file that the user, or any
\* command file, names, itself or in a command file; no file has two readers.
EveryFileHasAReader ==
  stage \notin {"read", "exited"} =>
    LET there == run.disk \ run.ignored
        reads(uses) ==
          \A use \in Uses(run.commands, "cwd") \union UsesBelow(run, uses) :
            use[1] \in DOMAIN run.text => \E u \in uses : u[1] = use[1]
        goes(f) == IF "vhdl" \in joined THEN f \in routed["vhdl"] ELSE f \in skipped
    IN  /\ \E uses \in SUBSET Opened :
             /\ reads(uses)
             /\ \A f \in (run.paths \union ListedBy(uses)) \intersect there : Suffix(f) = "vhdl" => goes(f)
        /\ \A f \in (run.paths \union Listed) \intersect there :
             Suffix(f) # "vhdl" /\ "sv" \in run.usable =>
               "sv" \in joined /\ (f \in routed["sv"] \/ (f \in Listed /\ command_files))
        /\ routed["sv"] \intersect (routed["vhdl"] \union skipped) = {}
        /\ \A l \in Languages : routed[l] # {} => l \in joined

\* "`.vhd` and `.vhdl` entries go to the VHDL plugin instead of slang" or "they're skipped with
\* a warning" (docs/guide/inputs.md): each entry that slang finds, following nested -f and -F.
EveryEntryIsFound ==
  stage \notin {"read", "exited"} =>
    \A f \in Listed \intersect (run.disk \ run.ignored) :
      Suffix(f) = "vhdl" => f \in routed["vhdl"] \union skipped

\* A filelist has each needed file once, and nothing but those and what they depend on.
\* A file comes after the one whose copy of a name is used, which is the last one that is
\* not shadowed, unless the files go round in a circle.
FilelistCompiles ==
  stage \notin {"read", "stitch", "yaml", "filelist", "exited"} /\ run.filelist # "none" =>
    LET file == result.files
        copies(n) == {i \in Kept : n \in file[i].defines /\ n \notin file[i].shadowed}
        used(n) == {i \in copies(n) : \A j \in copies(n) : j <= i}
        needed(i) == file[i].depends_on \union {file[j].name : j \in UNION {used(n) : n \in file[i].uses}}
        needs == UNION {{file[i].name} \X (needed(i) \ {file[i].name}) : i \in Kept}
        circle == \E s \in SUBSET KeptNames : s # {} /\ \A f \in s : \E g \in s : <<f, g>> \in needs
    IN  /\ IsInjective(filelist)
        /\ KeptNames \subseteq ToSet(filelist)
        /\ ToSet(filelist) \subseteq KeptNames \union {p[2] : p \in needs}
        /\ ~circle => \A i, j \in DOMAIN filelist : <<filelist[i], filelist[j]>> \in needs => j < i

\* Exit code 0 means that all that was asked for is written and nothing is wrong in it.
\* The tree comes last: stopping it does not cost a file.
OutputsAreWhole ==
  LET wanted == {o \in {"yaml", "filelist"} : run[o] # "none"}
  IN  /\ printing => wanted \subseteq written
      /\ exit = 0 => /\ wanted \union (IF ShowTree THEN {"tree"} ELSE {}) \subseteq written
                     /\ ~result.failed /\ ~result.has_errors
=============================================================================

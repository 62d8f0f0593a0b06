# A verification model of svhier

svhier prints the instance hierarchy of SystemVerilog, Verilog and VHDL designs.
The program elaborates with slang (SystemVerilog) and, through a plugin, with
GHDL (VHDL), and links the two hierarchies where they meet. This directory holds
TLA+ models of its parts, the TLC configurations that check them on small
instances, and TLAPS proofs for every instance.

    tlc -workers 2 -config MCStitch.cfg MCStitch.tla     # a run
    tlapm Stitch_proofs.tla                              # the proofs

`PROJECT.json` lists the components, runs, mutants (small bugs in a definition
that each make one property fail), findings, hazards and theorems, and maps every
definition to the lines of the source it models.

## The system

Paths are relative to the repository root. GHDL is short for
`plugins/svhier-ghdl/src/svhier_ghdl/`.

| Component | Source | State | Operations | Talks to |
|---|---|---|---|---|
| Stitcher | `src/svhier/frontends.py` | requests (roots, defined elsewhere), the units each frontend defines, what was elaborated with which roots | assign tops, elaborate in rounds, route unresolved names, merge | frontends: `units`, `provide`, `elaborate` |
| slang frontend | `src/svhier/slang_frontend.py`, `parser.py` | files, libraries, the hierarchy | units, provide, elaborate: settings one compilation at a time, automatic tops, rejected roots | slang, library search |
| GHDL frontend | GHDL `__init__.py` 507-789 | scan of each file, libraries, cache of elaborations | units, provide, elaborate: pull from `-y`, one top at a time | tool, library search |
| GHDL tool, program side | GHDL `__init__.py` 348-505 | one server, its sources, the sources a server failed for | run, serve, start and stop a server, a process of its own | the server, over two pipes |
| GHDL worker server | GHDL `worker.py` 263-345 | the sources read, the pending SIGCHLD | read a line, load, fork a child per request, wait with a timeout, answer | the program, the child |
| Library assignment | GHDL `__init__.py` 147-222 | the library of each file | place what is referred to by library, spread over other references | scans |
| Hierarchy parsing | GHDL `__init__.py` 225-323 | a stack of indents | tree of instances, definitions with their children | - |
| Library search | `src/svhier/libsearch.py` | index of `-y` files, definers found | resolve a name, resolve missing ones | the frontends |
| Instance tree | `src/svhier/cli.py` 218-281 | a stack of frames, the units being expanded | walk, select the children of a setting | the merged hierarchy |
| Routing and outputs | `src/svhier/cli.py` 504-611 | which frontend gets which file, exit code | route files, order the outputs | everything above |
| Filelist | `src/svhier/filelist.py` | a graph of files | dependency order of the files kept | the hierarchy |
| Command files | `src/svhier/slang_frontend.py` 113-142 | the files seen | nested `-f` and `-F` | file system |
| Plugin discovery, rendering, the libghdl bindings | `frontends.py`, `cli.py`, GHDL`worker.py` | - | entry points; tables and YAML; ctypes calls | - |

What makes each correct, and what is hard about it (`hazards` in `PROJECT.json`
has each at its line):

- **Stitcher.** Frontends change while they are asked: elaborating and `provide`
  add files from `-y`. The stitcher works with a copy of what each one defines
  (`self.units`), which lags behind. It must still hand every instance to the
  language that defines it, in each parameter setting; never let a `-y` search
  answer for another language's sources; drop a complaint only if another
  language really has the unit; fetch nothing in vain; and stop.
- **GHDL tool and server.** Two processes and a forked child over two pipes.
  Either end may die, be stopped, be killed or time out at every system call.
  Every answer must be the one a fresh process would have given, no answer may
  be taken for the answer to another request, nothing may be left running, no
  child may outlive its answer, and every run must return.
- **GHDL frontend.** A file pulled in later changes what earlier results mean, so
  every pull must clear the cache. Entities are also elaborated on their own, and
  whether such a failure counts depends on what other runs reach: nothing may
  vanish, and nothing may be blamed for lacking its parent. Scanning a file and
  elaborating it are two runs of the tool, of which one may fail alone. Pulling must follow all
  references, stop, and leave alone what other languages define; and `elaborate`
  must not raise for a bad design.
- **slang frontend.** One request takes several compilations: one per parameter
  setting, one for automatic tops and one to find out what slang would reject, or
  several to drop what it rejects. Each loads the sources again while `-y` has what
  is missing, up to a cap. Every root must be answered, in its setting, by the
  hierarchy or by a message; no compilation may show what nobody asked for; none
  may go on for ever; and nothing may be missing that `-y` has.
- **Routing and outputs.** Every file the user names, on the command line or in a
  command file within a command file, must reach exactly one reader or be warned
  about; so must what the same command file lists when it is named again, relative to
  another directory. Exit code 0 must mean that everything asked for was written.
- **Library assignment, filelist, hierarchy parsing, tree walk.** Sequential
  algorithms over graphs with cycles, duplicates and names nobody defines, or over
  lines whose indents say only half of what belongs to what. Their results must not
  depend on the order of their inputs where the inputs leave no choice.

## Modules

Written, in the order they were written:

| Module | Models |
|---|---|
| `Stitch` | the stitcher, with frontends by their contract |
| `MCStitch` | the small designs TLC links |
| `Stitch_proofs` | theorems about `Stitch` for all designs: what is routed, and the rounds |
| `ToolPromise` | what `GhdlWorkerTool.run` promises its caller: abstract, no servers |
| `WorkerServer` | the program, its servers and their children; implements `ToolPromise` |
| `MCWorkerServer` | what GHDL does with each set of sources, and how long they are |
| `WorkerServer_proofs` | theorems about `WorkerServer` for all sources, faults and lengths, and that it implements `ToolPromise` |
| `Tree` | the walk of the instance tree, and the recursive definition of its lines |
| `MCTree` | the small hierarchies TLC walks (in the runs of `MCProgram`) |
| `Tree_proofs` | theorems about `Tree` for all hierarchies |
| `GhdlFrontend` | pulling from `-y`, elaborating, the cache and what is reported |
| `MCGhdlFrontend` | small VHDL designs, and what the tool fails at |
| `GhdlFrontend_proofs` | theorems about `GhdlFrontend` for all designs |
| `SlangFrontend` | the compilations of an elaboration, with loading and the walk of `parser.py` and the search of `libsearch.py` |
| `SlangFrontend_proofs` | theorems about `SlangFrontend` for all designs |
| `Cli` | `main` around the stitcher: command files, routing, the filelist, outputs, exit code |
| `Cli_proofs` | theorems about `Cli` for all command lines and results |
| `Program` | `Cli` with `SlangFrontend` called while `main` is in `stitch`, and `Tree` while it prints |
| `Program_proofs` | `Program` implements its parts, so their theorems are its own |
| `MCProgram` | small SystemVerilog designs, command lines, stitched results, and the hierarchies of `MCTree` |
| `Libraries` | `assign_libraries`, a reference at a time |
| `ParseTree` | `parse_tree`, a line at a time |
| `TreeToDefs` | `tree_to_defs` on the tree of `ParseTree`, and what GHDL prints of a design |
| `GhdlPlugin` | `GhdlFrontend` with `Libraries` and `ParseTree`, its two passive parts |
| `GhdlPlugin_proofs` | theorems about `Libraries` and `ParseTree` for all scans and listings, and that `GhdlPlugin` implements its parts |
| `MCGhdlPlugin` | the designs of `MCGhdlFrontend`, scans of four files, and nested designs |

`WorkerServer` and `ToolPromise` are composed by refinement. `GhdlFrontend` sees of
the tool only what `ToolPromise` lets it see (an answer, an error or a timeout), and
`Stitch` sees of a frontend only its contract.

`Program` and `GhdlPlugin` are compositions of another kind: parts that run one after
the other in one process, each with variables of its own. The data between two parts
is a choice of the model (`Stitch` in `Cli` returns one of the invocation's results, whose
tree is the case's hierarchy;
`GhdlFrontend` takes the worker's answers whole), so a case in an MC module gives
work to one part, and the others run through theirs with nothing to do. The runs
therefore cost the sum of the parts' states and not their product.

Planned, most important first:

1. A composition of `Stitch` with `GhdlFrontend` or `SlangFrontend` in place of the
   contract, to show where a frontend keeps it.
2. Packages and the retry without objects in `GhdlFrontend`; include directories.

Of the invariants the runs check only `DefsAreTheDesign` has no theorem: `TreeToDefs`
recurses into a design in four ways at once, over records nested in sequences.

### Stitch

A frontend is a number, its position in `inputs`. `design` is everything a run is
given: the units its sources define (`src`), the units its `-y` files define (`lib`)
and those its index seems to offer (`offers`: the index reads text, `provide` may
find nothing in the file), the roots it would pick by itself (`own`), the
instances of each unit per parameter setting (`uses`), and `--top`.

| Variable | Code |
|---|---|
| `loaded[f]` | `frontend.units(...)` if asked now |
| `units[f]` | `self.units[f]`, the stitcher's copy |
| `roots[f]` | `self.requests[f].roots` |
| `ran[f]`, `done[f]` | the entries of `done` in `run` |
| `reached[f]`, `unresolved[f]` | the last fragment of `f` |
| `round`, `changed`, `turn`, `todo`, `pc` | the loops of `__init__`, `run` and `_route` |
| `missing` | the names `_merge` leaves unresolved |

`AssignTop` is one step of the loop over tops; `Elaborate` and `SkipUnchanged` are
a frontend's turn; `Route` is `_route` for one name, with `_definer` and every
`provide` it calls (`Asked`, `Providers`), the new listing after it (`UnitsAfter`)
and the roots it adds; `RouteNextFragment`, `NextRound` and `Merge` are the loops'
other exits. The order in which names of one fragment are routed is left open:
Python iterates a set there for tops and names, so any order can happen.

What a frontend does is its contract (`Request` and `Frontend`): `Reach` is the
least set of available units that contains the roots and is closed under
instantiation, where a unit is available if the frontend's files define it or its
`-y` does and no other language does. A unit takes parameter settings, so a
recursive unit whose setting grows without end is a design outside the model
(the round cap, `stitch_cut`, is what the code has against it).

Abstractions: names are lowercased unit names; a library file defines one unit;
spelling, notes and the concatenation of fragments in `_merge` are left out.

### ToolPromise and WorkerServer

`ToolPromise` says what a run may return for a request: what a process of its own
would have returned (`OnceResults`), or a timeout if it really lasted that long.

`WorkerServer` has an action per system call of either end: `Run`, `Reuse`,
`Renew`, `Spawn`, `Send`, `ReadReady`, `ReadPart`, `ReadLast`, `GiveUp`, `RunOnce`,
closing (`CloseDescriptors`, `KillGroup`, `WaitForServer`) and `Exit` in the
program; `ReadLine`, `Load`, `Fork`, `Poll`, `KillChild`, `Wake`, `Write`, `SeeEnd`
in the server; `ChildCloses` and `ChildEnds` in the child. The surroundings crash a
server, stop it, fail to start one, interrupt or kill the program, as `Faults`
allows. The request pipe holds `Capacity` pieces, a line takes `Size` of them. A
message carries the run it belongs to, which the real one does not: only
`AnswersLineUp` looks at it, no action does.

Refinement: `Promise == INSTANCE ToolPromise WITH state, overdue`; `GivesOnceAnswers`
checks that every step of the program is a step of the promise or a stutter.

Abstractions: the pipe back to the program is unbounded (answers fit, or the
program is reading); interrupts come while the program writes, reads or runs a
process of its own, not inside `__init__` and `_stop_server`; `_can_serve` only
selects `run_once` for good and is left out; the timeout of a process of its own
is the run's clock.

### Tree

The state is the stack of generators' frames in `_iter_subtree` (`stack`), the units
being expanded (`expanding`), the tops left (`tops`) and the lines yielded so far
(`lines`). `StartTop` and `SkipTop` are the loop of `iter_tree`; without tops asked for
it goes through all definitions, and `IsTop` skips what something instantiates, which
the code filters out before it starts. `Blackbox`, `Cycle`
and `Descend` are the three things that can follow a child's line, `Ascend` is the
end of a frame. `SelectChildren` is `_select_children`, with its fallback for
settings the definition does not list. A line is the instance's name and
module, what marks it (root, black box, cycle), and for it and each level above it
whether it is the last there; colours and wording are left out. `LinesAreTheTree`
compares the lines with `TreeOf`, which follows the documented result format and has
no stack: a recursive function of a unit and the units open above it (`TreeBelow`).

### GhdlFrontend

A file defines one entity and has its name. `design` holds where each entity is
(`src`, `lib`), what the index seems to offer (`offers`), what other languages define
(`elsewhere`), what each entity instantiates through components (`comps`) and directly
(`named`), which need values for generics (`unset`), what the tool does
(`scanning`, `running`), and who calls: the stitcher, or, where VHDL is the only
language, `stitch` itself, once and with every `--top` (`stitched`, `tops`).

| Variable | Code |
|---|---|
| `files` | the list that the stitcher passes and the frontend appends to |
| `scan`, `units`, `cache`, `alone` | `_scan`, `_units`, `_cache`, `_alone_notes` |
| `request` | the roots of the request; they only grow |
| `pending`, `seen`, `pulled` | the locals of `_pull_needed`; `caller` is where it returns to |
| `todo`, `defs`, `failed`, `soft` | the loops and locals of `_elaborate_all` |
| `fragment` | what `elaborate` returned |

`ListUnits`, `Provide` and `Elaborate` are the stitcher's calls. `Requests` are the roots
it may ask for next: it adds entities that the frontend lists, while `stitch` alone asks for
tops that only `-y` defines, or nothing. `PullFile` and
`FollowReferences` are a step of the loop in `_pull_needed`, with and without a file
to pull; `RunRequested` and `RunAuto` are a call of `run`; `EndRuns` decides which
failures count, `BeginRuns` elaborates again if something was pulled, `Return` ends.
`FragmentOf` is what `_fragment` makes of what was merged, without the definitions whose
file no scan told of, and `failed_tops`. `Raise` is an exception nobody catches. GHDL is `Elaborated`: it reports the closure
of the top over the files it is given, or nothing if one of them does not compile.

Abstractions: packages, library names, architectures in other files, messages, and
the retry without objects are left out; a top's instances are not merged one by one. Of
the files of a fragment only the definitions are kept.
The order of Python's sets and stacks is left open.

### SlangFrontend

A file defines one module and has its name. A module has at most one parameter, and a
setting is whether it has a value (`Settings`). `design` holds where each module is
(`src`, `lib`, `offers`, `elsewhere`), what it instantiates in each setting (`kids`),
which modules have a parameter (`takes`) and which one without a default (`needs`),
which include a header that slang needs to see their instances (`includes`,
`headers`), and whether slang or the user picks tops (`auto`, `tops`).

| Variable | Code |
|---|---|
| `files`, `inc_dirs` | the stitcher's list of files, and `self.inc_dirs`; both grow while parsing |
| `units` | `self._units` and `self._modules`, read together |
| `request` | `request.roots`; they only grow |
| `job`, `pulls` | the arguments of the current `_parse`, and the turn of the loop of parser.py's `_elaborate` |
| `settings`, `results`, `failed`, `worked` | the loop and locals of `_elaborate_settings` |
| `picked`, `rejected` | what `_elaborate_auto` or `_elaborate_plain` returns |
| `fragment` | what `elaborate` returned |

`ListUnits`, `Provide` and `Elaborate` (or `ElaborateNothing`) are the stitcher's
calls. A compilation is a `Compile`, a `Pull` for each further load, and an action
that takes the result: `SettingCompiled`, `AutoCompiled`, `ProbeCompiled` (the
compilation that only tells which plain roots slang rejects), `AgainCompiled`,
`PlainCompiled` or `ReturnNothing`. `MergeResults` is the end of `elaborate`.
`DropResolved` is the stitcher's merge.

slang is modelled by what it makes of tops and files: which tops it takes (`Takes`),
which it picks when it is given none (`AutoTops`: what nothing instantiates and needs
no value), and which settings are below them (`Walk`).

`RootsAreAnswered` has an exception, `Unreachable`: with automatic tops, a plain root
that slang counts as instantiated, but only by a module it does not elaborate, is
neither shown nor rejected. The code has no way to see it (the probe says that slang
would take the root, and slang does not pick it), and no document promises it.

Abstractions: packages and interfaces, which are searched for like modules; macros,
notes, duplicates and spelling; how an index ranks its candidates (an index entry is
right or leads to a file that does not define the name).

### Cli and Program

| Variable | Code |
|---|---|
| `todo`, `seen`, `entries` | the recursion of `files_in_command_files`: what is left of each file on the stack, `seen`, `found` |
| `command_files` | `self.command_files` of slang's frontend, not empty |
| `routed`, `joined`, `skipped` | `_route_files`: `routed`, what it returns, the warnings |
| `result`, `filelist` | `hierarchy`, `ordered` |
| `written`, `printing`, `exit` | the outputs that were finished, whether the tree was begun, the exit code |
| `stage` | where `main` is |

`Program` adds the variables of `SlangFrontend` and of `Tree`. `Printing` is a step of the
walk within `_print_tree`, which ends as `PrintTree` says: when the walk is done, or when the
reader goes away, and then in the middle of the walk.

A path is a directory and a name with a suffix; an entry of a command file is a name
relative to a directory. `Filelists` is every order networkx could return. An
unwritable file and a reader that goes away are alternatives of `Write` and
`PrintTree`. A reader of the YAML or the filelist that goes away is left out: nothing in
the code handles it, and Python ends with an exit code of its own.

Command files are read twice: by the program, which keeps a set of files seen, and by
slang. A use of a command file is the file with the directory its entries are relative
to. What slang reads is `Opened`, the least set of uses that holds what the command line
and its own members name; `Listed` is what they list. Slang rejects a command line
(`SlangRejects`) where a file that is named cannot be read, or is named, however
indirectly, within itself. The code asks slang itself whether anything is left for it, or
rejected (`command_files_have_sources`), so `HasSources` looks at both; with a rejected
command file that was kept, slang's frontend fails and so does `Stitch`.

`EveryFileHasAReader` compares `entries` with what the uses list. For slang that is
`Listed`. For VHDL it asks for some uses of `Opened` that are closed in the same way but for
the directory: each file that is named, by the command line or by a file so used, is used
relative to one directory at least, and all that it lists relative to that one is routed.
That every use counts, as the documents say, is `EveryEntryIsFound`, and does not hold
(`program_two_uses`).

### Libraries, ParseTree and GhdlPlugin

| Variable | Code |
|---|---|
| `reports` | `scan` |
| `left`, `changed`, `step` | the loops of `_place_named` and `_spread_local` |
| `placed`, `doubts` | `placed`, and the files of the notes |
| `unread`, `levels`, `nodes` | the lines, `stack` and the nodes of `parse_tree` |

Files are numbers in sorted order. A reference is a position: a file, and a place in its
references followed by its architectures (`Refs`). `left` holds the positions a loop has
not come to, of which it takes the first (`FirstOf`), so the order is the code's.
`PlaceNamed` and `Spread` follow one reference, `Pass` is the `while`. `LibrariesAgree` does not run the algorithm: it takes the
connected files. Two notions of connected bracket what the code may do: files that
must be linked, as nothing else defines the unit, and files that may be. A file of a
component named for one library is in that one; where references disagree or are
ambiguous the result may depend on the order, and the property only asks for a
library that some reference gives.

A design in `TreeToDefs` is a nested record; `Printed` are the lines GHDL prints of it,
with the marker of a generate body at the indent of its contents, and objects at the
indent of what they belong to. `ParseTree` takes any `Listings` and knows only the indent
and the kind of a line; `MCGhdlPlugin` gives it what is printed of each design. `SkipObject`
and `AddNode` take a line each, `Enclosing` is the `while` that pops the stack. `Defs` is
`tree_to_defs`. `DefsAreTheDesign` compares it with `InstancesIn` and `ArchsIn`, which
follow the design and know no lines. Text is left out: a line is its indent, kind and
item.

## Runs

| Run | Question | Bounds |
|---|---|---|
| `stitch` | Is the linked tree complete and exact for every small design? | 3 frontends, 3 units, 2 settings; 63,888 designs: each unit in any of eleven homes (sources of one or two languages, `-y` of several, an index that lies, nowhere), hierarchies deep, shared and recursive, tops given or automatic |
| `stitch_cut` | What holds when the rounds run out? | 2 frontends, `MaxRounds` 2, designs that need more |
| `worker_faults` | Is every answer right and nothing left over, whatever fails? Is a server that failed tried again? | 2 runs, 2 servers, 2 sets of sources, one of which kills GHDL and needs several writes; every fault |
| `worker_live` | Does every run return, and every orphan end? | 2 runs; servers stopped or not starting, the program killed; fairness |
| `worker_blocked_send` | finding: a write without a deadline | 1 run, a line longer than the pipe |
| `worker_orphan` | finding: sources GHDL never finishes, and a killed program | 1 run |
| `ghdl` | Are kept results still true, and is a fragment whole, with nothing lost and nothing blamed unduly? Do libraries follow references? Is the parsed tree the design? | 3 entities, 2,472 designs, 1,296 of them of VHDL alone with tops in `-y` or nowhere; 3 calls of `provide` and `elaborate`, one thing the tool fails at; 4 files in every combination of 6 lists of references; generate statements, blocks and bound instances within each other |
| `program` | Is every file read, every root answered, everything written? Is what is printed the tree, and does it end? | 3 modules in 5 sorts of homes, 2 calls, 2 further loads in a compilation; 2 command files that may refer to each other, themselves or one that is not there; results of 3 files; 2 definitions in 2 settings with up to two children each: each other, themselves, a module nothing defines; tops asked for or not |
| `ghdl_raises` | finding: a scan that hangs | 1 call |
| `ghdl_sources` | finding: a direct instance of what another language defines | 1 call |
| `ghdl_unscanned` | finding: a file that is elaborated but could not be scanned | 1 call |
| `program_two_uses` | finding: a command file named relative to two directories | 1 command line |

Why the bounds are enough: three frontends are the least in which an asker, a
definer and a bystander differ (asking order matters only then), three units give a
chain across all three languages plus a cycle, and two settings distinguish a name
from its setting. Two runs are the least in which one run's leftovers can meet the
next, and a server can be refused to the second for what it did in the first; with more
of either, `NoServerTwice` and the other theorems take over. A capacity of one piece makes a
writer block as soon as it can. Two definitions give every kind of recursion: direct,
mutual, and through a setting that ends it. Three entities give a component that is
only known once another was elaborated, a cycle of direct instances, and an entity
that works only inside its parent; three calls let a file come in between two
elaborations. Two loads after the first are what a chain of three modules needs, and
one too few if the first of them also includes a header: pulling both finishes and is
cut off. In the second call of `program` a root joins with a value, with none, or with a
value its module does not take. Two command files give a file within a file and a circle;
three source files give a shadowed copy, a circle of files, and a dependency that is not
needed itself. Four files let a library spread over three links in either direction, past
a file with two candidates.

`MaxRuns`, `MaxServers` and `MaxCalls` bound the program's calls; `MaxRounds` and `MaxPulls`
are the code's `_MAX_ROUNDS` and `_MAX_LIB_ROUNDS`, smaller. Deadlock is checked in every
passing run: `Merged` in `Stitch` and the ends of the program in `WorkerServer` are
explicit, as are `Finished` in `GhdlFrontend` and the exit of `main` (`Ended`) in `Program`. `worker_blocked_send` turns it off, for there the system
really stops.

**Fairness.** `Stitch!FairSpec` assumes only that the running program takes its next step, `GhdlFrontend!FairSpec` that it does so within a call;
`PluginSpec` and `ProgramSpec` say the same of `GhdlPlugin` and `Program`, so a call once
begun goes on, and whether another comes is open. `ProgramSpec` also says it of the walk
that is being printed, as long as its reader is there. `WorkerServer!FairSpec` assumes that
of each process the kernel schedules, that time passes, and that a killed process dies; nothing is assumed of faults, of a
stopped server, or of a child that hangs.

**Findings.** Six statements of the source or its documents do not hold. `run` says that whatever
stops a server, a process of its own gives the answer; but the write of a line
longer than a pipe has no deadline (`worker_blocked_send`). `_serve` says that a
killed program leaves nothing behind for longer than a request's timeout; but reading
the sources has no timeout in the server (`worker_orphan`). A frontend must not raise
for a bad design; but a scan that times out raises out of `elaborate`, as nothing
around it catches the exception (`ghdl_raises`). Sources always win over `-y`; but a
direct instance (`entity work.x`) pulls `x` from `-y` whatever other languages define
(`ghdl_sources`). A name that a frontend has no definition for is unresolved; but an entity
whose file was elaborated and could not be scanned is dropped from the fragment, and is
neither unresolved nor an error (`ghdl_unscanned`). Command files are followed as slang does;
but one that is named again, relative to another directory, is not read again
(`program_two_uses`).

What remains true is checked: a component never searches `-y` for what another language
defines (`ComponentsYield`), a root is shown or an error unless its own file was not scanned
(`NothingIsLost`), and each command file is followed relative to one directory at least
(`EveryFileHasAReader`). In `worker_live`, runs return when lines fit into the pipe, and every server that gets
past reading the sources ends.

## Proofs

`Stitch_proofs` proves, for any number of frontends, units, settings, rounds and any
set of designs that satisfies `DesignsAssumption` (an index offers what its files
define, automatic roots come from sources):

- `TypeCorrect`: `Spec => []TypeOK`.
- `SourcesAlwaysWin`: `Spec => []SourcesWin`.
- `MissingIsExactAlways`: `Spec => []MissingIsExact`.

Neither of the last two is inductive. `IInv` adds:

- `Lag`: what the stitcher lists for a frontend lies between its sources and what its
  files define now. So a name the stitcher finds unclaimed is in nobody's sources,
  and `provide` is asked only for such names.
- `Complaints`: a fragment complains about a unit its own `-y` has only if the request
  said that another language defines it. So dropping that complaint is right.
- `Fragments`: complaints are instances, and all those no input defines.
- `Routing`: a name already routed is listed for another language or defined by no
  other (`Settled`), and stays so. That is why merging by the lagging list is exact,
  even when the rounds are cut off.

`AskingKeepsView` and `AskingSettles` say what one `_definer` call does to these; the
only induction is the existence of a first frontend that can provide a name
(`FirstExists`, from the well-foundedness of `<`).

About the rounds, `Completing` goes on from `IInv`:

- `RootsAlwaysJustified`: `Spec => []RootsAreJustified`, which is inductive next to the
  rest of `Completing`. `Rooted` says that each unit of a fragment is reached from the
  roots its frontend has now: what is reached (`Reach`, a least closed set) only grows
  with roots and files, so an instance that was the reason for a root is not lost.
- `TreeIsAlwaysComplete`: `Spec => []TreeIsComplete`. An instance is elaborated or
  complained about (`Resolved`); a complaint that was routed is some frontend's root or
  defined nowhere (`Routed`); a root is given to a frontend that defines it
  (`RootsDefined`), so elaborating it reaches it (`DoneReached`); and a round that
  changes nothing has elaborated all roots (`UpToDate`).
- `FetchedIsAlwaysUsed`: `Spec => []FetchedIsUsed`. What `-y` supplied is elaborated, or
  asked for by a root (`FetchedForRoot`).
- `ConvergesBeforeTheCut`: with finitely many names and settings, and `MaxRounds`
  above the number of frontends times names times settings, `Spec => []ConvergesInTime`.
  Each round but the last adds a root, so the rounds are at most one more than the
  roots (`Rounds`).

`IInv` was checked by TLC on the designs of `stitch` before it was proved.

`Tree_proofs` proves, for every hierarchy:

- `ExpandingIsTheStackAlways`: `TreeSpec => []ExpandingIsTheStack`. It is inductive
  together with the types of the variables.
- `DepthIsBounded`: for finitely many modules and settings, the stack is never longer
  than there are units, by the injection from the stack into `expanding`.
- `TreeTypeCorrect`: `TreeSpec => []TreeTypeOK`. Its hard part is `Within`, that no level is ever past
  the end of its children: only the last level moves on, and only while it has a child.
- `TheTreeIsPrinted`: for finitely many modules and settings, `TreeSpec => []LinesAreTheTree`.
  The invariant `Printed` says that what has been yielded, then what is left at each open
  level from the innermost outwards (`StackLeft`), then the trees of the tops to come
  (`TreesOf`), are the trees of all tops. Each step yields the first lines of what is
  left (`MovingOn` for the innermost level, `StackLeftPush` for one that is opened), with
  their guides (`IndentedConcat`, `IndentedTwice`). That `TreeBelow` is
  what its equation says, and that its values are lines, is proved by the number of units
  not yet open, which each unit on the way down makes smaller (`RightOneFurther`,
  `TreeBelowIs`, `TreeBelowType`); `FlattenSeq` by its length (`FlattenHead`). `Printed` was
  checked by TLC on the hierarchies of `MCTree` before it was proved.

`GhdlFrontend_proofs` proves, for every design that satisfies `GhdlAssumption` and any
number of calls:

- `CacheIsAlwaysFresh`: `Spec => []CacheIsFresh`, which is inductive.
- `ComponentsAlwaysYield`: `Spec => []ComponentsYield`. The invariant `YInv` adds
  `Known` (entities known, and roots that the stitcher asks for, are in files scanned, and
  a scan is never taken back; without a stitcher there is no other language) and `WantedOnly` (each name about to be searched for is defined by no
  other language, or scanned already, or named directly by an entity known).

- `TypeCorrect`, `FragmentIsAlwaysWhole`, `NothingIsEverLost`, `NoComplaintIsFalse`:
  `Spec => []P` for `TypeOK`, `FragmentIsWhole`, `NothingIsLost` and
  `NoFalseComplaint`. `FragmentInv` follows a call of `elaborate`. `Merging` holds while
  roots are run: what is merged holds all instances that are known, and a root that was
  run is in it or has failed. `Whole` holds while `-y` is searched for what is unbound:
  what would be returned now leaves nothing out but the names still pending, and roots
  that failed, or failed alone, are not shown as anyone's instance unless asked for. What is
  returned is `FragmentOf` that. A definition it drops is in a file that was not scanned, so
  `NothingIsLost` excepts roots in such files; a top that `failed_tops` names is known and
  not among the definitions, so its run failed.

`WorkerServer_proofs` proves, for any sources, faults, lengths of lines and capacity of
a pipe: `TypeCorrect`, `OneServer`, `ExitLeavesNothing`, `WakeupsArrive`,
`NoServerTwice`, `ChildrenReaped`, `AnswersFit`, which are `Spec => []P` for the
invariants of the worker's runs, and `Implementation`, `Spec => GivesOnceAnswers`: the
protocol implements the safety part of `ToolPromise`. The invariant has four layers, each
inductive relative to those before:

- `TypeInv`: types;
- `LivesInv`: every server but the current one is gone, with its children, or not yet
  started (`ServersInv`); a server has a child only while it waits for one, and a child
  that ended has its signal pending unless the server is about to look (`ChildInv`);
- `SourcesInv`: which sources the last server was started for, and that sources that
  failed are not served again;
- `TalkInv`: between requests the pipes are empty and the server holds the sources the
  program thinks it does (`KeptInv`); in a request, what is on its way is the rest of
  the line (`LineInv`) and the next parts of the answer to it (`RepliesInv`, `WorkInv`).
  So what the program reads is its answer, and a step that takes it is a step of
  `ToolPromise`.

`SlangFrontend_proofs` proves, for every design that satisfies `SlangAssumption` and any
number of calls and loads: `TypeCorrect`, `RootsAlwaysAnswered`, `NothingIsUnasked`,
and, with finitely many names, `AllIsPulled`, for `TypeOK`, `RootsAreAnswered`,
`NothingUnasked` and `PulledToTheEnd`. The invariant says what the compilations so far
have to show for themselves: `RootsInv` (roots are defined, and listed), `SettingsInv`
(each setting asked for is still to be compiled, or its result or failure is kept),
`JobInv` (what the tops of the compilation under way are for), `PlainInv` (what the
plain roots come to, also through a probe or several drops), `FragmentInv` (the
theorems) and `PullInv` (each turn of the loading loop brought a file or a header).

`Cli_proofs` proves, for all command lines, disks, command files and stitched results
that satisfy `CliAssumption`:

- `EveryNamedFileIsRead`: `CliSpec => []EveryFileHasAReader`. The program reads depth
  first with a set of files seen, slang's `Opened` is a least closed set; `ReadInv`
  joins them. Each token left to read belongs to a member of `Opened`, and so does what was
  taken; and there are uses in `Opened`, one of each file seen, of which each token was
  looked at or is left (`ReadSoFar`). A file that is opened adds its use, with what it lists
  left to read; one seen before adds nothing, which is why only one of its uses is sure.
  When nothing is left, the uses are the ones the theorem asks for. For slang, the command
  files are only dropped when `HasSources` finds nothing in `Listed` and nothing to reject.
- `FilelistAlwaysCompiles`: `CliSpec => []FilelistCompiles`. `OrdersExist` is the
  existence of a topological order: where a set of files has no order, some of them go
  round in a circle. So the fallback to the input order is only taken for a circle.
- `ExitTellsWhatIsWritten`: `CliSpec => []OutputsAreWhole`.

`GhdlPlugin_proofs` proves, for any number of files, any reports of a scan and any listing:

- `LibrariesAlwaysAgree`: `LibSpec => []LibrariesAgree`. `LibInv` has five parts: types;
  `NamedPlaced` (what a named reference looked at places is placed, in a library it is named
  for); `DoubtsTold` (a note for each file that another reference names otherwise);
  `Founded` (what is placed was named, or is linked with a file that was, in that library);
  and `Settled` (in a pass that changed nothing, and so at the end, both ends of every
  reference looked at are placed, or none). From the last it follows that the files without
  a library are a set no sure link leaves (`LinkedStaysIn`): if one of them were linked with
  a named file, that file would be in the set, and have no library either.
- `ParentIsAlwaysNearest`: `ParseSpec => []ParentIsNearest`: a node is below the nearest node
  before it that is indented less. `ParseInv` adds that the levels are indented more and
  more and end with the last node (`LevelsDescend`), and that what came between two levels
  is indented at least like the lower one (`BetweenLevels`), so that popping a level loses
  nobody's parent.
- `PluginImplementsItsParts`, `PluginIsCorrect`: the plugin implements `GhdlFrontend`,
  `Libraries` and `ParseTree`, so the invariants of the run `ghdl`, `DefsAreTheDesign` left
  out, are theorems of it.

`Program_proofs` proves that `Program` implements `Cli`, `SlangFrontend` and `Tree`
(`ProgramImplementsItsParts`), so that all invariants of the run `program` are
theorems of it (`ProgramIsCorrect`).

The inductive invariants of `GhdlFrontend`, `SlangFrontend`, `Cli`, `Libraries` and
`ParseTree` were checked by TLC on the cases of `ghdl` and `program` before or while they
were proved.

What the proofs changed in the models. Two cases of `Part` in
`WorkerServer` overlapped, for a server that gets ready with the flag of a timeout set:
no state has that, but only the proof's invariant says so. One conjunct of
`SlangAssumption` was bracketed so that it said less than meant. `Cli` let slang read only
the first use of a command file, as the program does; where a nested file is
found from the second use alone, that would drop the command files from slang and
lose a file, which is not what the code does, as it asks slang. The property about command
files left out all of them as soon as one was used relative to two directories; in the
proof, only the second use of that one is lost. The filelist's
property counted each copy of a name that is not shadowed, while the code, like GHDL,
uses the last; and a file that depends on itself counted as a circle. Operators that were
recursive without need (the closure in `SlangFrontend`, merging of results, the files
kept) are now least sets and functions of positions. In `Libraries` the references were
sequences put together by folds and consumed from the front; they are now sets of
positions, and the files linked with one are the least set that no link leaves.
`ParseTree` was one module with `TreeToDefs`, whose recursive operators kept it from being
reasoned about. `Tree` chose its tops by `SelectSeq` before it began; it now skips those
that are none, and what it is compared with leaves out what is not `Shown`. The recursive
definition of a tree was an operator on top of another; it is now one function, of the open
units and the unit, whose equation can be solved.

**Assumptions.** Besides the named ones of the modules: finiteness of `Names`, of
`Modules` and of the settings, in the theorems that count rounds, levels or units left.
`LibrariesAssumption` and `ListingsAssumption` only give the types of what
the worker reports and of the lines. `CliAssumption` says that a command line has
only flags and files of its own, that a result has one entry of a file (the code merges by
name), and that what a file depends on is finite.

**Model-checked only.** Liveness, and anything about `ENABLED` (`EveryRunReturns`,
`KilledLeavesNoRunningServer`, `CallsReturn`, `Terminates`, `TreeEnds`), is out of the
prover's reach. So is `DefsAreTheDesign`, which compares `tree_to_defs` with the design
through recursive operators over nested data: an induction over data, with operators
the prover has no backend for.

## Not modelled

What slang and GHDL compute; the libghdl bindings; plugin discovery; rendering; include
directories and other file system paths; how the index of `-y` reads files and ranks
candidates; notes, tables and texts. `PROJECT.json` names for each component what is left
out, and keeps the one hazard without a property: two languages that each pull a unit
of the same name in the same round, where no document says which one should win.

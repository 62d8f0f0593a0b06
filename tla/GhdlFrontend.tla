---------------------------- MODULE GhdlFrontend ----------------------------
(***************************************************************************)
(* GhdlFrontend in svhier_ghdl/__init__.py: what the VHDL frontend does    *)
(* when the stitcher calls units, provide and elaborate, several times and *)
(* with roots that grow.  It pulls files from -y while it elaborates, and  *)
(* keeps the results of earlier elaborations.                              *)
(*                                                                         *)
(* A file defines one entity and has its name; an architecture is in the   *)
(* file of its entity.  GHDL is modelled by what it makes of a top and the *)
(* files it is given (Elaborated).  Messages, notes other than those about *)
(* entities that fail alone, and library names are left out.               *)
(***************************************************************************)
EXTENDS Naturals, FiniteSets, Functions

CONSTANTS
  Names,     \* Entity names, in lower case, and the files defining them.
  Designs,   \* The inputs considered.
  MaxCalls   \* Bound on the stitcher's calls of provide and elaborate.

Roots == [name : Names, given : BOOLEAN]  \* given: whether with values for its generics.

\* src: what the VHDL sources define.  lib: what the -y files define.
\* offers: what the -y index finds; it reads text, so it may find more.
\* elsewhere: what sources in other languages define.
\* comps, named: what an entity instantiates, through a component (found or not)
\*   or directly, which GHDL cannot compile without.
\* unset: the entities with generics that have no default.
\* scanning, running: what the tool makes of scanning a file, elaborating a top.
\* stitched: whether there is another language, and thus a stitcher that calls.
\* auto, tops: whether tops are picked, and what --top names.
DesignType ==
  [src : SUBSET Names, lib : SUBSET Names, offers : SUBSET Names, elsewhere : SUBSET Names,
   comps : [Names -> SUBSET Names], named : [Names -> SUBSET Names], unset : SUBSET Names,
   scanning : [Names -> {"answers", "crashes", "hangs"}],
   running : [Names -> {"answers", "crashes", "garbles", "hangs"}],
   stitched : BOOLEAN, auto : BOOLEAN, tops : SUBSET Names]

ASSUME GhdlAssumption ==
  /\ Designs \subseteq DesignType
  /\ \A d \in Designs :
       /\ d.lib \subseteq d.offers
       /\ ~d.stitched => d.elsewhere = {} /\ (d.auto <=> d.tops = {})
  /\ MaxCalls \in Nat \ {0}

NotRead == [read |-> FALSE, names |-> {}]  \* Python's None in _units.

VARIABLES
  design,
  files,     \* The list of files, shared with the stitcher.
  scan,      \* self._scan: the files whose entities are known.
  units,     \* self._units.
  cache,     \* self._cache: the result of each root elaborated.
  calls,
  pc,
  request,   \* The roots of the current elaborate,
  caller,    \* what _pull_needed goes back to, and what an exception came from,
  pending, seen, pulled,  \* and its variables.
  todo,      \* Roots left in _elaborate_all,
  defs, failed, soft,     \* what it has merged, and which of its runs had errors.
  alone,     \* self._alone_notes: entities that fail without a parent.
  fragment   \* What elaborate returned.

pullVars == <<caller, pending, seen, pulled>>
runVars == <<todo, defs, failed, soft>>
vars == <<design, files, scan, units, cache, calls, pc, request, pullVars, runVars,
          alone, fragment>>

-----------------------------------------------------------------------------
(* The tool. *)

Contents(fs) == fs \intersect (design.src \union design.lib)
Insts(n) == design.comps[n] \union design.named[n]

\* The entities a top's hierarchy consists of.
Hierarchy(top, fs) ==
  LET Closed(S) == top \in S /\ \A n \in S : Insts(n) \intersect Contents(fs) \subseteq S
  IN  {n \in Contents(fs) : \A S \in SUBSET Names : Closed(S) => n \in S}

\* elaborate_one: GHDL stops at an entity it cannot compile, at generics without a
\* value, or for reasons of its own, and then reports no hierarchy at all.
Elaborated(root, fs) ==
  LET all == Hierarchy(root.name, fs)
      isUnset == root.name \in design.unset /\ ~root.given
      works == /\ root.name \in Contents(fs)
               /\ \A n \in all : design.named[n] \subseteq Contents(fs)
               /\ ~isUnset
               /\ design.running[root.name] = "answers"
  IN  [defs |-> IF works THEN all ELSE {}, errors |-> ~works,
       unset |-> isUnset /\ root.name \in Contents(fs) /\ design.running[root.name] # "hangs"]

\* Output that cannot be decoded is an exception nobody catches.
Escapes(root) == design.running[root.name] = "garbles"

\* _read_units: one worker scans all new files, or fails for all of them.
ScanHangs(fs) == \E n \in fs \ scan : design.scanning[n] = "hangs"
ScanAfter(fs) ==
  IF \E n \in fs \ scan : design.scanning[n] # "answers" THEN scan ELSE fs
Entities(scanned) == [read |-> TRUE, names |-> Contents(scanned)]

-----------------------------------------------------------------------------
Init ==
  /\ design \in Designs
  /\ files = design.src
  /\ scan = {} /\ units = NotRead /\ cache = <<>>
  /\ calls = 0 /\ pc = "idle" /\ request = {}
  /\ caller = "run" /\ pending = {} /\ seen = {} /\ pulled = FALSE
  /\ todo = {} /\ defs = {} /\ failed = {} /\ soft = {}
  /\ alone = {} /\ fragment = [defs |-> {}, errors |-> {}, unresolved |-> {}, failed_tops |-> {}]

\* An exception ends the program.
Raise(by) ==
  /\ pc' = "raised" /\ caller' = by
  /\ UNCHANGED <<design, files, scan, units, cache, request, pending, seen, pulled, runVars,
                 alone, fragment>>

\* units: read once, until a file is pulled in.
ReadUnits ==
  IF units.read
  THEN UNCHANGED <<scan, units>>
  ELSE scan' = ScanAfter(files) /\ units' = Entities(scan')

\* VHDL alone is elaborated once, and asked nothing else.
CallsLeft == calls < (IF design.stitched THEN MaxCalls ELSE 1)
Call == pc = "idle" /\ CallsLeft /\ calls' = calls + 1

ListUnits ==
  /\ pc = "idle" /\ ~units.read /\ design.stitched
  /\ UNCHANGED calls
  /\ IF ScanHangs(files)
     THEN Raise("units")
     ELSE /\ ReadUnits
          /\ UNCHANGED <<design, files, cache, pc, request, pullVars, runVars,
                         alone, fragment>>

StartPull(names, from) ==
  /\ pc' = "pull" /\ caller' = from
  /\ pending' = names /\ seen' = {} /\ pulled' = FALSE

\* provide: the stitcher asks for what no language defines.
Provide ==
  /\ Call
  /\ units.read
  /\ \E n \in design.offers \ (units.names \union design.elsewhere) : StartPull({n}, "provide")
  /\ UNCHANGED <<design, files, scan, units, cache, request, runVars, alone, fragment>>

NothingMerged == todo' = {} /\ defs' = {} /\ failed' = {} /\ soft' = {}

\* The roots of the next request.  The stitcher adds an entity that it knows of; values are
\* told apart only where there must be some.  Without it, stitch asks for every --top, though
\* only -y may define it, or nothing.
Requests(known) ==
  IF design.stitched
  THEN {request} \union {request \union {r} :
          r \in {x \in Roots : x.name \in known /\ (x.given => x.name \in design.unset)}}
  ELSE {{[name |-> t, given |-> FALSE] : t \in design.tops}}

\* Some roots are requested, and with auto any entity is one.
Elaborate ==
  /\ Call
  /\ IF ~units.read /\ ScanHangs(files)
     THEN Raise("run")
     ELSE /\ ReadUnits
          /\ request' \in Requests(units'.names)
          /\ StartPull({r.name : r \in request'}
                         \union (IF design.auto THEN Contents(scan') ELSE {}), "run")
          /\ NothingMerged
          /\ UNCHANGED <<design, files, cache, alone, fragment>>

\* Mutant of Reread: the entities are not read again.
StayUnread == NotRead

\* _pull_needed calls units after pulling a file.
Reread == Entities(scan')

\* Mutant of Forget: the results of earlier elaborations are kept.
ForgetNothing == cache

\* What a pulled file leaves of the cache.
Forget == <<>>

\* A step of the loop of _pull_needed.
PullFile ==
  /\ pc = "pull"
  /\ \E n \in pending \ seen :
       /\ n \in design.offers /\ n \notin Contents(scan) /\ n \notin files
       /\ IF ScanHangs(files \union {n})
          THEN Raise(caller)
          ELSE /\ files' = files \union {n}
               /\ scan' = ScanAfter(files')
               /\ units' = Reread
               /\ cache' = Forget
               /\ pulled' = TRUE
               /\ seen' = seen \union {n}
               /\ pending' = (pending \ {n})
                    \union (IF n \in Contents(scan') THEN design.named[n] ELSE {})
               /\ UNCHANGED <<design, pc, request, caller, runVars, alone, fragment>>
  /\ UNCHANGED calls

\* Mutant of FollowReferences: without remembering what was seen.
FollowAgain ==
  /\ pc = "pull"
  /\ \E n \in pending :
       /\ n \notin design.offers \/ n \in Contents(scan) \/ n \in files
       /\ pending' = (pending \ {n})
            \union (IF n \in Contents(scan) THEN design.named[n] ELSE {})
  /\ UNCHANGED <<design, files, scan, units, cache, calls, pc, request, caller, seen, pulled,
                 runVars, alone, fragment>>

FollowReferences ==
  /\ pc = "pull"
  /\ \E n \in pending \ seen :
       /\ n \notin design.offers \/ n \in Contents(scan) \/ n \in files
       /\ seen' = seen \union {n}
       /\ pending' = (pending \ {n})
            \union (IF n \in Contents(scan) THEN design.named[n] ELSE {})
  /\ UNCHANGED <<design, files, scan, units, cache, calls, pc, request, caller, pulled,
                 runVars, alone, fragment>>

\* _elaborate_all starts with nothing merged.
StartRuns ==
  /\ pc' = "run"
  /\ todo' = request /\ defs' = {} /\ failed' = {} /\ soft' = {}

Pulled == pc = "pull" /\ pending \subseteq seen

Provided ==
  /\ Pulled /\ caller = "provide"
  /\ units' = NotRead
  /\ pc' = "idle" /\ pending' = {} /\ seen' = {} /\ pulled' = FALSE
  /\ UNCHANGED <<design, files, scan, cache, calls, request, caller, runVars,
                 alone, fragment>>

BeginRuns ==
  /\ Pulled
  /\ caller = "run" \/ (caller = "unbound" /\ pulled)
  /\ StartRuns
  /\ UNCHANGED <<design, files, scan, units, cache, calls, request, pullVars,
                 alone, fragment>>

\* run(): a root in the cache is not elaborated again.
ResultOf(root) == IF root \in DOMAIN cache THEN cache[root] ELSE Elaborated(root, files)

RunRoot(root, isSoft) ==
  IF root \notin DOMAIN cache /\ Escapes(root)
  THEN Raise(caller)
  ELSE LET result == ResultOf(root)
       IN  /\ cache' = [r \in DOMAIN cache \union {root} |-> IF r = root THEN result ELSE cache[r]]
           /\ defs' = defs \union result.defs
           /\ soft' = IF isSoft THEN soft \union {root.name} ELSE soft
           /\ failed' = IF result.errors /\ ~isSoft THEN failed \union {root.name} ELSE failed
           /\ todo' = todo \ {root}
           /\ UNCHANGED <<design, files, scan, units, pc, request, pullVars, alone, fragment>>

RunRequested ==
  /\ pc = "run"
  /\ \E root \in todo : RunRoot(root, FALSE)
  /\ UNCHANGED calls

\* With auto, what no earlier run has reached is a top of its own.
Unreached == units.names \ (defs \union soft)

RunAuto ==
  /\ pc = "run" /\ todo = {} /\ design.auto
  /\ \E n \in Unreached : RunRoot([name |-> n, given |-> FALSE], TRUE)
  /\ UNCHANGED calls

Instantiated(ns) == UNION {Insts(n) : n \in ns}

\* Mutant of AloneFailures: without asking whether something instantiates them.
AloneFailuresAll == {n \in soft : cache[[name |-> n, given |-> FALSE]].errors}

\* Mutant of AloneFailures: those without a value for a generic only.
AloneFailuresUnset == {n \in soft \ Instantiated(defs) : cache[[name |-> n, given |-> FALSE]].unset}

\* Entities that failed alone and that nothing instantiates.
AloneFailures ==
  {n \in soft \ Instantiated(defs) : cache[[name |-> n, given |-> FALSE]].errors}

\* Mutant of Unbound: also what sources in another language define.
UnboundAnywhere(ns) == Instantiated(ns) \ ns

Unbound(ns) == (Instantiated(ns) \ ns) \ design.elsewhere

\* _fragment drops what is in no file whose scan told of it, and what it instantiates;
\* neither counts as unresolved while a run reported it.  Of the tops, elaborate adds those
\* that are known but not shown.
FragmentOf ==
  [defs |-> defs \intersect units.names, errors |-> failed,
   unresolved |-> Instantiated((defs \ alone) \intersect units.names) \ defs,
   failed_tops |-> {r.name : r \in request} \intersect design.tops \intersect (units.names \ defs)]

\* Some fail for want of a value only a parent gives: a note, and an entry in the
\* result without instances.  The others are errors.
EndRuns ==
  /\ pc = "run" /\ todo = {}
  /\ design.auto => Unreached = {}
  /\ alone' = {n \in AloneFailures : cache[[name |-> n, given |-> FALSE]].unset}
  /\ defs' = defs \union alone'
  /\ failed' = failed \union (AloneFailures \ alone')
  /\ StartPull(Unbound(defs), "unbound")
  /\ UNCHANGED <<design, files, scan, units, cache, calls, request, todo, soft, fragment>>

\* What is left of the local variables when elaborate returns.
Leave == pc' = "idle" /\ pending' = {} /\ seen' = {} /\ soft' = {}

\* Mutant of Return: without another elaboration after pulling something.
ReturnAtOnce ==
  /\ Pulled /\ caller = "unbound"
  /\ fragment' = FragmentOf
  /\ Leave
  /\ UNCHANGED <<design, files, scan, units, cache, calls, request, caller, pulled,
                 todo, defs, failed, alone>>

Return ==
  /\ Pulled /\ caller = "unbound" /\ ~pulled
  /\ fragment' = FragmentOf
  /\ Leave
  /\ UNCHANGED <<design, files, scan, units, cache, calls, request, caller, pulled,
                 todo, defs, failed, alone>>

Finished == (pc = "raised" \/ (pc = "idle" /\ ~CallsLeft)) /\ UNCHANGED vars

Next ==
  \/ ListUnits \/ Provide \/ Elaborate
  \/ PullFile \/ FollowReferences \/ Provided
  \/ BeginRuns \/ RunRequested \/ RunAuto \/ EndRuns \/ Return
  \/ Finished

Spec == Init /\ [][Next]_vars

\* A call that has begun goes on.  Whether another one comes is up to the stitcher.
FairSpec == Spec /\ WF_vars(pc # "idle" /\ Next)

-----------------------------------------------------------------------------
TypeOK ==
  /\ design \in DesignType
  /\ files \subseteq Names /\ scan \subseteq files
  /\ units \in [read : BOOLEAN, names : SUBSET Names]
  /\ DOMAIN cache \subseteq Roots
  /\ \A r \in DOMAIN cache : cache[r] \in [defs : SUBSET Names, errors : BOOLEAN, unset : BOOLEAN]
  /\ calls \in 0..MaxCalls
  /\ pc \in {"idle", "pull", "run", "raised"}
  /\ pc \in {"pull", "run"} => units.read
  /\ request \subseteq Roots /\ todo \subseteq request
  /\ caller \in {"units", "provide", "run", "unbound"}
  /\ pending \subseteq Names /\ seen \subseteq Names /\ pulled \in BOOLEAN
  /\ defs \subseteq Names /\ failed \subseteq Names /\ soft \subseteq Names
  /\ alone \subseteq Names
  /\ fragment \in [defs : SUBSET Names, errors : SUBSET Names, unresolved : SUBSET Names,
                   failed_tops : SUBSET Names]

\* A result that is kept is what GHDL would report for the files there are now: a
\* file pulled in, by provide between two rounds or by elaborate itself, can bind
\* what was unbound and compile what failed.
CacheIsFresh == \A r \in DOMAIN cache : cache[r] = Elaborated(r, files)

Returned == pc = "idle" /\ caller = "unbound"

\* The fragment is the whole hierarchy of what could be elaborated, with all that -y
\* has: every instance in it of a known entity is expanded, and none is left to
\* search for, unless another language defines it.
FragmentIsWhole ==
  Returned =>
    \A n \in Instantiated(fragment.defs \ alone) :
      /\ n \in units.names => n \in fragment.defs
      /\ n \in design.offers => n \in files \union design.elsewhere

\* Nothing fails silently: what elaborate returns shows each root asked for, or has an error
\* for it, and so for each entity known if auto; entities without an error that are not
\* elaborated have a note; and a top that main calls failed has an error.  A root is neither
\* only if its file is one that the tool elaborates but could not scan (UnresolvedIsComplete).
NothingIsLost ==
  Returned =>
    LET shown == fragment.defs \ alone
    IN  /\ {r.name : r \in request} \subseteq shown \union fragment.errors \union (files \ scan)
        /\ design.auto => units.names \subseteq shown \union fragment.errors \union alone
        /\ fragment.failed_tops \subseteq fragment.errors

\* An entity that works inside of another is no error because it fails alone, and no
\* note says that its children are not shown.
NoFalseComplaint ==
  Returned =>
    \A n \in failed \union alone :
      n \in Instantiated(defs \ alone) => n \in {r.name : r \in request}

\* What sources in another language define is pulled in only where VHDL names it
\* directly: a component never is a reason to search -y for it.
ComponentsYield ==
  \A n \in files \ design.src :
    n \in design.elsewhere => \E m \in Contents(files) : n \in design.named[m]

\* Elaborating and pulling end.
CallsReturn == (pc # "idle") ~> (pc \in {"idle", "raised"})

\* "Must not raise for bad designs; report in diagnostics" (Frontend in frontends.py):
\* elaborate does not, whatever the tool makes of the files.
ElaborateNeverRaises == pc = "raised" => caller \notin {"run", "unbound"}

\* "If a source file in either language defines a name, -y isn't searched for it"
\* (docs/guide/libdirs.md).
SourcesAlwaysWin == files \intersect design.elsewhere \subseteq design.src

\* "``unresolved`` -- ... for every instantiated name the frontend has no definition for"
\* (Frontend in frontends.py): an instance in the fragment is of what the fragment defines, or
\* of something unresolved.
UnresolvedIsComplete ==
  Returned =>
    Instantiated(fragment.defs \ alone) \subseteq fragment.defs \union fragment.unresolved
=============================================================================

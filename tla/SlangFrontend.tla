---------------------------- MODULE SlangFrontend ----------------------------
(***************************************************************************)
(* SlangFrontend in src/svhier/slang_frontend.py, with the loading and the *)
(* walk of src/svhier/parser.py and the search of -y in libsearch.py: what *)
(* the SystemVerilog frontend does when the stitcher calls units, provide  *)
(* and elaborate, with roots that grow.  Elaborating is several            *)
(* compilations, each loading the sources again while -y has what is       *)
(* missing.                                                                *)
(*                                                                         *)
(* A file defines one module and has its name, and a module has at most    *)
(* one parameter: an instance or a root gives it a value, or its default   *)
(* holds.  slang is modelled by what it makes of tops and files: which     *)
(* tops it takes, what each setting instantiates, what it cannot find.     *)
(* Packages and interfaces (searched for like modules), spelling, macros   *)
(* and notes are left out.                                                 *)
(***************************************************************************)
EXTENDS Naturals, FiniteSets, Functions, SequencesExt

CONSTANTS
  Names,      \* Module names, and the files defining them.
  Designs,    \* The inputs considered.
  MaxPulls,   \* _MAX_LIB_ROUNDS.
  MaxCalls    \* Bound on the stitcher's calls of provide and elaborate.

Settings == Names \X BOOLEAN  \* A module, and whether its parameter has a value.

\* generics: without values, with one for the parameter, or for one it does not have.
Roots == [name : Names, generics : {"none", "own", "other"}, requested : BOOLEAN]

\* src: what the inputs define.  lib: what the -y files define.
\* offers: what the -y index finds; it reads text, so it may find more.
\* elsewhere: what sources in other languages define.
\* kids: what a module instantiates in each setting, with a value or without.
\* takes, needs: the modules with a parameter, and those with one without a default.
\* includes, headers: the modules that include a header of their own, without which
\*   slang sees none of their instances, and those whose header -y has.
\* auto: whether slang picks tops of its own.  tops: those the user asked slang for.
DesignType ==
  [src : SUBSET Names, lib : SUBSET Names, offers : SUBSET Names, elsewhere : SUBSET Names,
   kids : [Settings -> SUBSET Settings], takes : SUBSET Names, needs : SUBSET Names,
   includes : SUBSET Names, headers : SUBSET Names, auto : BOOLEAN, tops : SUBSET Names]

ASSUME SlangAssumption ==
  /\ Designs \subseteq DesignType
  /\ \A d \in Designs :
       /\ d.lib \subseteq d.offers
       /\ d.needs \subseteq d.takes
       /\ d.auto => d.tops = {}
  /\ MaxPulls \in Nat /\ MaxCalls \in Nat

NotRead == [read |-> FALSE, names |-> {}]  \* Python's None in _units.

VARIABLES
  design,
  files,     \* The list of files, shared with the stitcher.
  inc_dirs,  \* self.inc_dirs: the modules whose header is found.
  units,     \* self._units and self._modules.
  calls,
  pc,
  request,   \* The roots of the current elaborate.
  job,       \* The current compilation: its tops, their value, whether -y is searched,
  pulls,     \* and how often it has pulled.
  settings,  \* Settings not compiled yet,
  results,   \* the results so far, and the modules that failed or worked.
  failed, worked,
  picked,    \* The result of automatic or plain tops, if any.
  rejected,  \* The plain roots slang rejected.
  fragment   \* What elaborate returned.

compileVars == <<settings, results, failed, worked, picked, rejected>>
vars == <<design, files, inc_dirs, units, calls, pc, request, job, pulls, compileVars, fragment>>

-----------------------------------------------------------------------------
(* slang, with the files and include directories there are. *)

Defined == files \intersect (design.src \union design.lib)

\* The instances directly below a module: none that a header hides.
Children(s) ==
  IF s[1] \in design.includes \ inc_dirs THEN {} ELSE design.kids[s]

\* With no tops slang takes what nothing instantiates, in any setting, and silently
\* leaves out modules that need a value.
AutoTops ==
  Defined \ (design.needs \union {c[1] : c \in UNION {Children(s) : s \in Defined \X BOOLEAN}})

Takes(top, given) == top \in Defined /\ (top \in design.needs => given)

\* What a compilation elaborates, each with its setting.
Tops ==
  IF job.tops = {} THEN AutoTops \X {FALSE}
  ELSE {t \in job.tops : Takes(t, job.given)} \X {job.given}

Invalid == {t \in job.tops : ~Takes(t, job.given)}

\* The settings reached from some of them along edges.
GraphType == [from : SUBSET Settings, edges : SUBSET (Settings \X Settings)]

Reached[graph \in GraphType] ==
  LET closed == {S \in SUBSET Settings :
                   graph.from \subseteq S /\ \A e \in graph.edges : e[1] \in S => e[2] \in S}
  IN  {s \in Settings : \A S \in closed : s \in S}

\* _walk_instances: every setting reached from the tops, once.
Walk ==
  LET below(s) == {c \in Children(s) : c[1] \in Defined}
  IN  Reached[[from |-> Tops, edges |-> UNION {{s} \X below(s) : s \in Defined \X BOOLEAN}]]

Instances(walk) == UNION {{<<s, c>> : c \in Children(s)} : s \in walk}

MissingModules == {e[2][1] : e \in Instances(Walk)} \ Defined
MissingIncludes == (Defined \intersect design.includes) \ inc_dirs

\* What slang's trimming keeps: the files the tops refer to, in any setting.
Trimmed ==
  LET all == Defined \X BOOLEAN
      named(s) == {c \in all : \E v \in BOOLEAN : <<c[1], v>> \in Children(s)}
  IN  {s[1] : s \in Reached[[from |-> {s \in all : s[1] \in job.tops},
                            edges |-> UNION {{s} \X named(s) : s \in all}]]}

\* _result: what a compilation returns.
Result ==
  LET walk == Walk
  IN  [loaded |-> files,
       walk |-> walk,
       insts |-> Instances(walk),
       top_variant |-> [t \in {s[1] : s \in Tops} |-> job.given],
       missing |-> MissingModules,
       errors |-> Invalid,
       needed |-> Trimmed]

\* _merge_results: everything is added; the first compilation's settings of tops win.
Merged(many) ==
  LET each == ToSet(many)
      first(t) == Min({i \in DOMAIN many : t \in DOMAIN many[i].top_variant})
  IN  [loaded |-> UNION {r.loaded : r \in each},
       walk |-> UNION {r.walk : r \in each},
       insts |-> UNION {r.insts : r \in each},
       top_variant |-> [t \in UNION {DOMAIN r.top_variant : r \in each} |-> many[first(t)].top_variant[t]],
       missing |-> UNION {r.missing : r \in each},
       errors |-> UNION {r.errors : r \in each},
       needed |-> UNION {r.needed : r \in each}]

\* _nothing_elaborated: the files, without what elaborating found.
NothingElaborated ==
  [Result EXCEPT !.walk = {}, !.insts = {}, !.top_variant = <<>>, !.missing = {}, !.needed = {}]

NoFragment ==
  [loaded |-> {}, walk |-> {}, insts |-> {}, top_variant |-> <<>>, missing |-> {},
   errors |-> {}, needed |-> {}, rejected |-> {}]

-----------------------------------------------------------------------------
NoJob == [tops |-> {}, given |-> FALSE, library |-> FALSE, from |-> "none"]

Init ==
  /\ design \in Designs
  /\ files = design.src /\ inc_dirs = {} /\ units = NotRead
  /\ calls = 0 /\ pc = "idle"
  /\ request = [name : design.tops, generics : {"none"}, requested : {TRUE}]
  /\ job = NoJob /\ pulls = 0
  /\ settings = {} /\ results = <<>> /\ failed = {} /\ worked = {}
  /\ picked = <<>> /\ rejected = {}
  /\ fragment = NoFragment

Idle == pc \in {"idle", "returned"}
Busy == pc \in {"settings", "load", "merge"}

\* units: read once, until provide pulls a file in.
ReadUnits == units' = IF units.read THEN units ELSE [read |-> TRUE, names |-> Defined]

ListUnits ==
  /\ Idle /\ ~units.read
  /\ ReadUnits
  /\ UNCHANGED <<design, files, inc_dirs, calls, pc, request, job, pulls, compileVars, fragment>>

Call == Idle /\ calls < MaxCalls /\ calls' = calls + 1

\* provide: the stitcher asks for what no language defines, as far as it knows.
Provide ==
  /\ Call
  /\ units.read
  /\ \E n \in design.offers \ (units.names \union design.elsewhere) : files' = files \union {n}
  /\ units' = NotRead
  /\ pc' = "idle"
  /\ UNCHANGED <<design, inc_dirs, request, job, pulls, compileVars, fragment>>

\* _overrides: slang would ignore values for what the module does not have.
Overrides(root, known) == root.generics = "own" /\ root.name \in design.takes \intersect known

Plain(roots) == {r.name : r \in {x \in roots : x.generics = "none"}}
WithValues(roots) == {r \in roots : r.generics # "none"}
Required == {r.name : r \in {x \in request : x.requested}}

\* _parse, up to the first load.
Compile(tops, given, library, from) ==
  /\ job' = [tops |-> tops, given |-> given, library |-> library, from |-> from]
  /\ pulls' = 0
  /\ pc' = "load"

\* The roots of a call: those of the calls before, and perhaps one more, of a module
\* this frontend defines.
NewRequest ==
  request' \in {request} \union
    {request \union {r} : r \in {x \in Roots : units.read /\ x.name \in units.names /\ ~x.requested}}

\* The user asked for other languages' units only, or there are no files yet.
ElaborateNothing ==
  /\ Call /\ NewRequest
  /\ files = {} \/ (request' = {} /\ ~design.auto)
  /\ fragment' = NoFragment
  /\ pc' = "idle"
  /\ UNCHANGED <<design, files, inc_dirs, units, job, pulls, compileVars>>

\* elaborate: units are read first if a root comes from another language.
Elaborate ==
  /\ Call /\ NewRequest
  /\ files # {} /\ (request' # {} \/ design.auto)
  /\ IF \E r \in request' : ~r.requested THEN ReadUnits ELSE UNCHANGED units
  /\ pc' = "settings"
  /\ settings' = {<<r.name, Overrides(r, units'.names)>> : r \in WithValues(request')}
  /\ UNCHANGED <<design, files, inc_dirs, job, pulls, results, failed, worked, picked,
                 rejected, fragment>>

\* A step of _elaborate_settings: one compilation per setting.
CompileSetting ==
  /\ pc = "settings"
  /\ \E s \in settings :
       /\ settings' = settings \ {s}
       /\ Compile({s[1]}, s[2], TRUE, "setting")
  /\ UNCHANGED <<design, files, inc_dirs, units, calls, request, results, failed, worked,
                 picked, rejected, fragment>>

AfterSettings ==
  /\ pc = "settings" /\ settings = {}
  /\ IF design.auto THEN Compile({}, FALSE, TRUE, "auto")
     ELSE IF Plain(request) # {} THEN Compile(Plain(request), FALSE, TRUE, "plain")
     ELSE pc' = "merge" /\ UNCHANGED <<job, pulls>>
  /\ UNCHANGED <<design, files, inc_dirs, units, calls, request, compileVars, fragment>>

-----------------------------------------------------------------------------
(* A compilation: load, pull, load again (_elaborate in parser.py). *)

\* resolve_missing: a name whose file is loaded already stays missing.
Found == {n \in MissingModules \ design.elsewhere : n \in design.offers /\ n \notin files}
FoundDirs == MissingIncludes \intersect design.headers

\* Mutant of Again: only files are worth another load.
AgainForFiles == job.library /\ pulls < MaxPulls /\ Found # {}

\* Mutant of Again: asked once more for what is missing, found or not.
AgainForMissing == job.library /\ MissingModules # {}

Again == job.library /\ pulls < MaxPulls /\ (Found # {} \/ FoundDirs # {})

\* _pull_missing after a load, before the next.
Pull ==
  /\ pc = "load" /\ Again
  /\ files' = files \union Found
  /\ inc_dirs' = inc_dirs \union FoundDirs
  /\ pulls' = pulls + 1
  /\ UNCHANGED <<design, units, calls, pc, request, job, compileVars, fragment>>

Loaded(from) == pc = "load" /\ job.from = from /\ ~Again

SettingCompiled ==
  /\ Loaded("setting")
  /\ pc' = "settings"
  /\ IF Invalid # {}
     THEN failed' = failed \union job.tops /\ UNCHANGED <<results, worked>>
     ELSE /\ worked' = worked \union job.tops
          /\ results' = Append(results, Result)
          /\ UNCHANGED failed
  /\ UNCHANGED <<design, files, inc_dirs, units, calls, request, job, pulls, settings,
                 picked, rejected, fragment>>

\* The modules that come with values.
SetElsewhere == {r.name : r \in WithValues(request)}

\* The rest of _elaborate_auto: without modules only used with given values.
PickTops(result) ==
  IF SetElsewhere \subseteq Plain(request)
  THEN pc' = "merge" /\ picked' = <<result>> /\ UNCHANGED <<job, pulls>>
  ELSE LET tops == {t \in DOMAIN result.top_variant : t \in SetElsewhere => t \in Plain(request)}
       IN  /\ picked' = <<>>
           /\ IF tops = {} THEN pc' = "merge" /\ UNCHANGED <<job, pulls>>
              ELSE Compile(tops, FALSE, TRUE, "again")

AutoCompiled ==
  /\ Loaded("auto")
  /\ IF Plain(request) = {} THEN PickTops(Result)
     ELSE picked' = <<Result>> /\ Compile(Plain(request), FALSE, TRUE, "probe")
  /\ UNCHANGED <<design, files, inc_dirs, units, calls, request, settings, results, failed,
                 worked, rejected, fragment>>

ProbeCompiled ==
  /\ Loaded("probe")
  /\ rejected' = Invalid
  /\ PickTops(picked[1])
  /\ UNCHANGED <<design, files, inc_dirs, units, calls, request, settings, results, failed,
                 worked, fragment>>

AgainCompiled ==
  /\ Loaded("again")
  /\ picked' = <<Result>> /\ pc' = "merge"
  /\ UNCHANGED <<design, files, inc_dirs, units, calls, request, job, pulls, settings, results,
                 failed, worked, rejected, fragment>>

\* Mutant of PlainCompiled: the rejected roots are compiled again with the others.
PlainCompiledAgain ==
  /\ Loaded("plain")
  /\ LET bad == Invalid \ Required
     IN  IF bad = {} THEN picked' = <<Result>> /\ pc' = "merge" /\ UNCHANGED <<job, pulls>>
         ELSE UNCHANGED picked /\ Compile(Plain(request), FALSE, TRUE, "plain")
  /\ UNCHANGED <<design, files, inc_dirs, units, calls, request, settings, results, failed,
                 worked, rejected, fragment>>

\* A step of the loop of _elaborate_plain.  No tops would make slang pick its own.
PlainCompiled ==
  /\ Loaded("plain")
  /\ LET bad == Invalid \ Required
         remaining == Plain(request) \ rejected'
     IN  /\ rejected' = rejected \union bad
         /\ IF bad = {} THEN picked' = <<Result>> /\ pc' = "merge" /\ UNCHANGED <<job, pulls>>
            ELSE IF remaining = {} THEN pc' = "merge" /\ UNCHANGED <<picked, job, pulls>>
            ELSE UNCHANGED picked /\ Compile(remaining, FALSE, TRUE, "plain")
  /\ UNCHANGED <<design, files, inc_dirs, units, calls, request, settings, results, failed,
                 worked, fragment>>

-----------------------------------------------------------------------------
\* Mutant of Rejected: a setting that fails rejects the module.
RejectedByAny == failed \union rejected

Rejected == (failed \ worked) \union (rejected \ worked)

\* The end of elaborate, and _fragment.  A rejected module's file is still needed.
Return(merged) ==
  /\ IF Rejected # {} /\ ~design.auto THEN ReadUnits ELSE UNCHANGED units
  /\ fragment' =
       [loaded |-> merged.loaded, walk |-> merged.walk, insts |-> merged.insts,
        top_variant |-> merged.top_variant, missing |-> merged.missing,
        errors |-> merged.errors, rejected |-> Rejected,
        needed |-> IF design.auto THEN merged.loaded
                   ELSE merged.needed \union (Rejected \intersect units'.names)]
  /\ pc' = "returned" /\ job' = NoJob /\ pulls' = 0
  /\ settings' = {} /\ results' = <<>> /\ failed' = {} /\ worked' = {} /\ picked' = <<>>
  /\ rejected' = {}
  /\ UNCHANGED <<design, files, inc_dirs, calls, request>>

Ordered == picked \o results

MergeResults ==
  /\ pc = "merge" /\ Ordered # <<>>
  /\ Return(Merged(Ordered))

NothingLeft ==
  /\ pc = "merge" /\ Ordered = <<>>
  /\ Compile({}, FALSE, FALSE, "nothing")
  /\ UNCHANGED <<design, files, inc_dirs, units, calls, request, compileVars, fragment>>

\* Mutant of ReturnNothing: what slang elaborates on its own is kept.
ReturnElaborated == Loaded("nothing") /\ Return(Result)

ReturnNothing == Loaded("nothing") /\ Return(NothingElaborated)

\* drop_resolved, when the stitcher merges: no complaints about what others define.
DropResolved ==
  /\ pc = "returned"
  /\ fragment' = [fragment EXCEPT !.missing = @ \ design.elsewhere]
  /\ pc' = "merged"
  /\ UNCHANGED <<design, files, inc_dirs, units, calls, request, job, pulls, compileVars>>

Finished == (pc = "merged" \/ (Idle /\ calls = MaxCalls)) /\ UNCHANGED vars

Next ==
  \/ ListUnits \/ Provide \/ ElaborateNothing \/ Elaborate
  \/ CompileSetting \/ AfterSettings \/ Pull
  \/ SettingCompiled \/ AutoCompiled \/ ProbeCompiled \/ AgainCompiled \/ PlainCompiled
  \/ MergeResults \/ NothingLeft \/ ReturnNothing
  \/ DropResolved \/ Finished

Spec == Init /\ [][Next]_vars

-----------------------------------------------------------------------------
IsResult(r) ==
  /\ r.walk \subseteq Settings /\ r.insts \subseteq r.walk \X Settings
  /\ {s[1] : s \in r.walk} \subseteq r.loaded
  /\ DOMAIN r.top_variant \subseteq r.loaded
  /\ r.needed \subseteq r.loaded /\ r.loaded \subseteq files

TypeOK ==
  /\ design \in DesignType
  /\ files \subseteq Names /\ design.src \subseteq files
  /\ inc_dirs \subseteq files
  /\ units \in [read : BOOLEAN, names : SUBSET Names] /\ units.names \subseteq files
  /\ calls \in 0..MaxCalls
  /\ pc \in {"idle", "settings", "load", "merge", "returned", "merged"}
  /\ request \subseteq Roots
  /\ job.tops \subseteq Names /\ pulls \in 0..MaxPulls
  /\ settings \subseteq Settings
  /\ \A i \in DOMAIN Ordered : IsResult(Ordered[i])
  /\ failed \union worked \union rejected \subseteq Names
  /\ IsResult(fragment) /\ fragment.rejected \subseteq Names

Given(root) == root.generics = "own" /\ root.name \in design.takes

\* A module slang counts as instantiated and does not reach either, as when what
\* instantiates it needs a value nobody gives: no top of its own.
Unreachable(n) ==
  /\ design.auto
  /\ \E s \in Names \X BOOLEAN : \E g \in BOOLEAN : <<n, g>> \in design.kids[s]

\* Every root asked for is elaborated in its setting.  If slang does not take it like
\* that, the user is told, or the module is there in another setting; a module is only
\* rejected if it works in none of the settings asked for.  Whatever is elaborated or
\* rejected is in a file that is needed.  A top the user asked for is shown with its
\* defaults, whatever values others give it.
RootsAreAnswered ==
  pc = "returned" =>
    /\ \A r \in request :
         IF Takes(r.name, Given(r))
         THEN /\ <<r.name, Given(r)>> \in fragment.walk \/ (~Given(r) /\ Unreachable(r.name))
              /\ r.name \notin fragment.rejected
         ELSE \/ r.name \in fragment.rejected \union fragment.errors
              \/ \E g \in BOOLEAN : <<r.name, g>> \in fragment.walk
    /\ {s[1] : s \in fragment.walk} \union (fragment.rejected \intersect Defined) \subseteq fragment.needed
    /\ \A r \in request : r.requested /\ Takes(r.name, FALSE) => fragment.top_variant[r.name] = FALSE

\* Nothing else is elaborated: neither what slang would pick when no root is left nor,
\* with automatic tops, a module with its defaults that others only use with values.
NothingUnasked ==
  pc = "returned" =>
    \A s \in fragment.walk :
      \/ \E r \in request : s = <<r.name, Given(r)>>
      \/ \E e \in fragment.insts : e[2] = s
      \/ design.auto /\ s[1] \notin SetElsewhere

\* In the end no module is missing that the files, -y or another language has, and no
\* header that -y has, unless the rounds are used up, one for each file or header that
\* came in at least.
PulledToTheEnd ==
  pc = "merged" =>
    \/ /\ fragment.missing \intersect (Defined \union design.lib \union design.elsewhere) = {}
       /\ MissingIncludes \intersect design.headers = {}
    \/ Cardinality(files \ design.src) + Cardinality(inc_dirs) >= MaxPulls

\* Elaborating ends.
CallsReturn == Busy ~> ~Busy
=============================================================================

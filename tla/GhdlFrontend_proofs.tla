------------------------ MODULE GhdlFrontend_proofs -------------------------
(* Theorems about GhdlFrontend, for every design and every MaxCalls: the cached  *)
(* results are fresh, components yield to the other languages, types, and the   *)
(* fragment that elaborate returns.                                             *)
(*                                                                             *)
(* The fragment's invariant, FragmentInv, says what is true between the runs of *)
(* one call of elaborate: Merging, while the roots are run, of the roots not    *)
(* yet run; Whole, while -y is searched for what is unbound, of the entities    *)
(* still pending.  FragmentIsWhole, NothingIsLost and NoFalseComplaint are what *)
(* remains of them when nothing is left to run and nothing is pending.  YInv    *)
(* is the invariant of the search in -y.                                        *)
EXTENDS GhdlFrontend, TLAPS

\* A result that is new is what GHDL reports now, the others are left alone.
LEMMA RunKeepsFresh ==
  ASSUME CacheIsFresh, NEW root, NEW isSoft, RunRoot(root, isSoft)
  PROVE CacheIsFresh'
<1>1. CASE root \notin DOMAIN cache /\ Escapes(root)
  <2>1. UNCHANGED <<cache, design, files>>  BY <1>1 DEF RunRoot, Raise
  <2> QED  BY <2>1 DEF CacheIsFresh, Elaborated, Hierarchy, Contents, Insts
<1>2. CASE ~(root \notin DOMAIN cache /\ Escapes(root))
  <2>1. /\ cache' = [r \in DOMAIN cache \union {root} |->
                       IF r = root THEN ResultOf(root) ELSE cache[r]]
        /\ UNCHANGED <<design, files>>
    BY <1>2 DEF RunRoot
  <2>2. \A r : Elaborated(r, files)' = Elaborated(r, files)
    BY <2>1 DEF Elaborated, Hierarchy, Contents, Insts
  <2>3. ResultOf(root) = Elaborated(root, files)  BY DEF ResultOf, CacheIsFresh
  <2>4. \A r \in DOMAIN cache \union {root} : cache'[r] = Elaborated(r, files)
    BY <2>1, <2>3 DEF CacheIsFresh
  <2>5. DOMAIN cache' = DOMAIN cache \union {root}  BY <2>1
  <2> QED  BY <2>2, <2>4, <2>5 DEF CacheIsFresh
<1> QED  BY <1>1, <1>2

\* What leaves files and cache alone keeps results fresh.
LEMMA UntouchedStaysFresh ==
  ASSUME CacheIsFresh, UNCHANGED <<cache, design, files>>
  PROVE CacheIsFresh'
BY DEF CacheIsFresh, Elaborated, Hierarchy, Contents, Insts

\* Whatever is pulled in, by provide between two calls or by elaborate itself, no
\* result that GHDL would no longer report is ever used (_cache in __init__.py).
THEOREM CacheIsAlwaysFresh == Spec => []CacheIsFresh
<1>1. Init => CacheIsFresh  BY DEF Init, CacheIsFresh
<1>2. CacheIsFresh /\ [Next]_vars => CacheIsFresh'
  <2> SUFFICES ASSUME CacheIsFresh, [Next]_vars PROVE CacheIsFresh'  OBVIOUS
  <2>1. CASE ListUnits  BY <2>1, UntouchedStaysFresh DEF ListUnits, Raise
  <2>2. CASE Provide  BY <2>2, UntouchedStaysFresh DEF Provide
  <2>3. CASE Elaborate  BY <2>3, UntouchedStaysFresh DEF Elaborate, Raise
  <2>4. CASE PullFile
    <3>1. PICK n \in pending \ seen :
            IF ScanHangs(files \union {n})
            THEN Raise(caller)
            ELSE cache' = Forget
      BY <2>4 DEF PullFile
    <3>2. CASE Raise(caller)  BY <3>2, UntouchedStaysFresh DEF Raise
    <3>3. CASE cache' = Forget  BY <3>3 DEF Forget, CacheIsFresh
    <3> QED  BY <3>1, <3>2, <3>3
  <2>5. CASE FollowReferences  BY <2>5, UntouchedStaysFresh DEF FollowReferences
  <2>6. CASE Provided  BY <2>6, UntouchedStaysFresh DEF Provided
  <2>7. CASE BeginRuns  BY <2>7, UntouchedStaysFresh DEF BeginRuns
  <2>8. CASE RunRequested
    <3>1. PICK root \in todo : RunRoot(root, FALSE)  BY <2>8 DEF RunRequested
    <3> QED  BY <3>1, RunKeepsFresh
  <2>9. CASE RunAuto
    <3>1. PICK n \in Unreached : RunRoot([name |-> n, given |-> FALSE], TRUE)
      BY <2>9 DEF RunAuto
    <3> QED  BY <3>1, RunKeepsFresh
  <2>10. CASE EndRuns  BY <2>10, UntouchedStaysFresh DEF EndRuns
  <2>11. CASE Return  BY <2>11, UntouchedStaysFresh DEF Return
  <2>12. CASE Finished  BY <2>12, UntouchedStaysFresh DEF Finished, vars
  <2>13. CASE UNCHANGED vars  BY <2>13, UntouchedStaysFresh DEF vars
  <2> QED  BY <2>1, <2>2, <2>3, <2>4, <2>5, <2>6, <2>7, <2>8, <2>9, <2>10, <2>11, <2>12, <2>13
        DEF Next
<1> QED  BY <1>1, <1>2, PTL DEF Spec

-----------------------------------------------------------------------------
\* ComponentsYield says nothing of what is about to be pulled in, and what that is
\* depends on the entities scanned so far.

\* Entities known are in files scanned, and so are the roots a stitcher asks for; without
\* one there is no other language.
Known ==
  /\ scan \subseteq files
  /\ units.names \subseteq Contents(scan)
  /\ units.read => Contents(scan) \subseteq units.names
  /\ IF design.stitched THEN \A r \in request : r.name \in Contents(scan)
     ELSE design.elsewhere = {}

\* What a name needs so that searching -y for it is right.
Wanted(n) ==
  n \in design.elsewhere =>
    n \in Contents(scan) \/ \E m \in Contents(files) : n \in design.named[m]

WantedOnly == \A n \in pending : Wanted(n)

YInv == Known /\ WantedOnly /\ ComponentsYield

\* Files come in and are scanned, and nothing is taken back.
LEMMA GrowingKeepsWanted ==
  ASSUME design' = design, files \subseteq files', scan \subseteq scan', NEW n, Wanted(n)
  PROVE Wanted(n)'
<1>1. Contents(scan) \subseteq Contents(scan)'  BY DEF Contents
<1>2. Contents(files) \subseteq Contents(files)'  BY DEF Contents
<1> QED  BY <1>1, <1>2 DEF Wanted

\* A scan only adds, and only files that are there.
LEMMA ScanGrows ==
  ASSUME NEW fs, scan \subseteq fs
  PROVE scan \subseteq ScanAfter(fs) /\ ScanAfter(fs) \subseteq fs
BY DEF ScanAfter

\* ReadUnits reads what it lists.
LEMMA ReadingKeepsKnown ==
  ASSUME Known, ReadUnits, UNCHANGED <<design, files>>
  PROVE /\ scan \subseteq scan' /\ scan' \subseteq files'
        /\ units'.names = Contents(scan)'
<1>1. CASE units.read  BY <1>1 DEF ReadUnits, Known, Contents
<1>2. CASE ~units.read
  <2>1. scan' = ScanAfter(files) /\ units'.names = Contents(scan')
    BY <1>2 DEF ReadUnits, Entities
  <2> QED  BY <2>1, ScanGrows DEF Known, Contents
<1> QED  BY <1>1, <1>2

\* Steps that leave the files, the scan and the request alone keep YInv;
LEMMA UntouchedKeepsYInv ==
  ASSUME YInv, UNCHANGED <<design, files, scan, request>>,
         units' = units \/ units' = NotRead, pending' \subseteq pending
  PROVE YInv'
<1>1. Known'  BY DEF YInv, Known, Contents, NotRead
<1>2. WantedOnly'  BY GrowingKeepsWanted DEF YInv, WantedOnly
<1>3. ComponentsYield'  BY DEF YInv, ComponentsYield, Contents
<1> QED  BY <1>1, <1>2, <1>3 DEF YInv

\* so does running the tool,
LEMMA RunKeepsYInv ==
  ASSUME YInv, NEW root, NEW isSoft, RunRoot(root, isSoft)
  PROVE YInv'
BY UntouchedKeepsYInv DEF RunRoot, Raise, pullVars

\* The loop goes on with what the file of n names.
LEMMA FollowingIsWanted ==
  ASSUME WantedOnly, scan' \subseteq files', design' = design,
         files \subseteq files', scan \subseteq scan', NEW n,
         pending' = (pending \ {n})
           \union (IF n \in Contents(scan') THEN design.named[n] ELSE {})
  PROVE WantedOnly'
<1> SUFFICES ASSUME NEW x \in pending' PROVE Wanted(x)'  BY DEF WantedOnly
<1>1. CASE x \in pending  BY <1>1, GrowingKeepsWanted DEF WantedOnly
<1>2. CASE n \in Contents(scan') /\ x \in design.named[n]
  <2>1. n \in Contents(files)'  BY <1>2 DEF Contents
  <2> QED  BY <1>2, <2>1 DEF Wanted
<1> QED  BY <1>1, <1>2

\* pulling in a file,
LEMMA PullFileKeepsYInv ==
  ASSUME YInv, PullFile
  PROVE YInv'
<1>1. CASE Raise(caller)  BY <1>1, UntouchedKeepsYInv DEF Raise
<1>2. CASE ~Raise(caller)
  <2>1. PICK n \in pending \ seen :
          /\ n \notin Contents(scan)
          /\ files' = files \union {n} /\ scan' = ScanAfter(files') /\ units' = Reread
          /\ pending' = (pending \ {n})
               \union (IF n \in Contents(scan') THEN design.named[n] ELSE {})
          /\ UNCHANGED <<design, request>>
    BY <1>2 DEF PullFile
  <2>2. scan \subseteq scan' /\ scan' \subseteq files'
    BY <2>1, ScanGrows DEF YInv, Known
  <2>3. Known'
    <3>1. units'.names = Contents(scan)'  BY <2>1 DEF Reread, Entities, Contents
    <3>2. Contents(scan) \subseteq Contents(scan)'  BY <2>1, <2>2 DEF Contents
    <3> QED  BY <2>1, <2>2, <3>1, <3>2 DEF YInv, Known
  <2>4. WantedOnly'  BY <2>1, <2>2, FollowingIsWanted DEF YInv
  <2>5. ComponentsYield'
    <3>1. Wanted(n)  BY <2>1 DEF YInv, WantedOnly
    <3>2. Contents(files) \subseteq Contents(files)'  BY <2>1 DEF Contents
    <3> QED  BY <2>1, <3>1, <3>2 DEF YInv, ComponentsYield, Wanted
  <2> QED  BY <2>3, <2>4, <2>5 DEF YInv
<1> QED  BY <1>1, <1>2

\* and elaborating.
LEMMA ElaborateKeepsYInv ==
  ASSUME YInv, Elaborate
  PROVE YInv'
<1>1. CASE Raise("run")  BY <1>1, UntouchedKeepsYInv DEF Raise
<1>2. CASE ~Raise("run")
  <2>1. /\ ReadUnits /\ UNCHANGED <<design, files>>
        /\ request' \in Requests(units'.names)
        /\ pending' = {r.name : r \in request'}
                         \union (IF design.auto THEN Contents(scan') ELSE {})
    BY <1>2 DEF Elaborate, StartPull
  <2>2. /\ scan \subseteq scan' /\ scan' \subseteq files'
        /\ units'.names = Contents(scan)'
    BY <2>1, ReadingKeepsKnown DEF YInv
  <2>3. Contents(scan) \subseteq Contents(scan)'  BY <2>1, <2>2 DEF Contents
  <2>4. ASSUME design.stitched, NEW r \in request'
        PROVE  r.name \in Contents(scan)'
    <3>1. \A x \in request : x.name \in Contents(scan)  BY <2>4 DEF YInv, Known
    <3>2. r \in request \/ r.name \in units'.names  BY <2>1, <2>4 DEF Requests
    <3> QED  BY <2>2, <2>3, <3>1, <3>2
  <2>5. Known'  BY <2>1, <2>2, <2>4 DEF YInv, Known
  <2>6. WantedOnly'
    <3>1. CASE design.stitched
      <4>1. \A n \in pending' : n \in Contents(scan)'  BY <2>1, <2>4, <3>1 DEF Contents
      <4> QED  BY <4>1 DEF WantedOnly, Wanted
    <3>2. CASE ~design.stitched  BY <2>1, <2>5, <3>2 DEF Known, WantedOnly, Wanted
    <3> QED  BY <3>1, <3>2
  <2>7. ComponentsYield'  BY <2>1 DEF YInv, ComponentsYield, Contents
  <2> QED  BY <2>5, <2>6, <2>7 DEF YInv
<1> QED  BY <1>1, <1>2

\* What is searched for in -y may be, in every reachable state.
LEMMA YInvariant == Spec => []YInv
<1>1. Init => YInv
  BY GhdlAssumption DEF Init, YInv, Known, WantedOnly, ComponentsYield, NotRead
<1>2. YInv /\ [Next]_vars => YInv'
  <2> SUFFICES ASSUME YInv, [Next]_vars PROVE YInv'  OBVIOUS
  <2>1. CASE ListUnits
    <3>1. CASE Raise("units")  BY <3>1, UntouchedKeepsYInv DEF Raise
    <3>2. CASE ~Raise("units")
      <4>1. ReadUnits /\ UNCHANGED <<design, files, request, pending>>
        BY <2>1, <3>2 DEF ListUnits, pullVars
      <4>2. /\ scan \subseteq scan' /\ scan' \subseteq files'
            /\ units'.names = Contents(scan)'
        BY <4>1, ReadingKeepsKnown DEF YInv
      <4>3. Known'  BY <4>1, <4>2 DEF YInv, Known, Contents
      <4>4. WantedOnly'  BY <4>1, <4>2, GrowingKeepsWanted DEF YInv, WantedOnly
      <4>5. ComponentsYield'  BY <4>1 DEF YInv, ComponentsYield, Contents
      <4> QED  BY <4>3, <4>4, <4>5 DEF YInv
    <3> QED  BY <3>1, <3>2
  <2>2. CASE Provide
    <3>1. PICK n \in design.offers \ (units.names \union design.elsewhere) : pending' = {n}
      BY <2>2 DEF Provide, StartPull
    <3>2. UNCHANGED <<design, files, scan, units, request>>  BY <2>2 DEF Provide
    <3>3. Known' /\ ComponentsYield'
      BY <3>2 DEF YInv, Known, ComponentsYield, Contents
    <3>4. WantedOnly'  BY <3>1, <3>2 DEF WantedOnly, Wanted
    <3> QED  BY <3>3, <3>4 DEF YInv
  <2>3. CASE Elaborate  BY <2>3, ElaborateKeepsYInv
  <2>4. CASE PullFile  BY <2>4, PullFileKeepsYInv
  <2>5. CASE FollowReferences
    <3>1. UNCHANGED <<design, files, scan, units, request>>  BY <2>5 DEF FollowReferences
    <3>2. PICK n \in pending \ seen :
            pending' = (pending \ {n})
              \union (IF n \in Contents(scan) THEN design.named[n] ELSE {})
      BY <2>5 DEF FollowReferences
    <3>3. WantedOnly'
      <4>1. Contents(scan') = Contents(scan)  BY <3>1
      <4> QED  BY <3>1, <3>2, <4>1, FollowingIsWanted DEF YInv, Known
    <3>4. Known' /\ ComponentsYield'
      BY <3>1 DEF YInv, Known, ComponentsYield, Contents
    <3> QED  BY <3>3, <3>4 DEF YInv
  <2>6. CASE Provided  BY <2>6, UntouchedKeepsYInv DEF Provided
  <2>7. CASE BeginRuns  BY <2>7, UntouchedKeepsYInv DEF BeginRuns, pullVars
  <2>8. CASE RunRequested  BY <2>8, RunKeepsYInv DEF RunRequested
  <2>9. CASE RunAuto
    <3>1. PICK n \in Unreached : RunRoot([name |-> n, given |-> FALSE], TRUE)
      BY <2>9 DEF RunAuto
    <3> QED  BY <3>1, RunKeepsYInv
  <2>10. CASE EndRuns
    <3>1. /\ UNCHANGED <<design, files, scan, units, request>>
          /\ pending' = Unbound(defs)
      BY <2>10 DEF EndRuns, StartPull
    <3>2. Known' /\ ComponentsYield'
      BY <3>1 DEF YInv, Known, ComponentsYield, Contents
    <3>3. WantedOnly'  BY <3>1 DEF WantedOnly, Wanted, Unbound
    <3> QED  BY <3>2, <3>3 DEF YInv
  <2>11. CASE Return  BY <2>11, UntouchedKeepsYInv DEF Return, Leave
  <2>12. CASE Finished  BY <2>12, UntouchedKeepsYInv DEF Finished, vars, pullVars
  <2>13. CASE UNCHANGED vars  BY <2>13, UntouchedKeepsYInv DEF vars, pullVars
  <2> QED  BY <2>1, <2>2, <2>3, <2>4, <2>5, <2>6, <2>7, <2>8, <2>9, <2>10, <2>11, <2>12, <2>13
        DEF Next
<1> QED  BY <1>1, <1>2, PTL DEF Spec

\* A component never makes the frontend search -y for what the sources of another
\* language define (defined_elsewhere in elaborate): only entities that VHDL names
\* directly do, and the names that provide is asked for are not such names.
THEOREM ComponentsAlwaysYield == Spec => []ComponentsYield
<1>1. YInv => ComponentsYield  BY DEF YInv
<1> QED  BY <1>1, YInvariant, PTL

-----------------------------------------------------------------------------
(* Types. *)

\* The hierarchy of a top consists of entities that the files define; it holds the top
\* and with an entity what that instantiates, as far as the files go.
LEMMA HierarchyIsClosed ==
  ASSUME NEW top, NEW fs, design \in DesignType
  PROVE  /\ Hierarchy(top, fs) \subseteq Contents(fs)
         /\ Contents(fs) \subseteq Names
         /\ top \in Contents(fs) => top \in Hierarchy(top, fs)
         /\ \A m \in Hierarchy(top, fs) :
              Insts(m) \intersect Contents(fs) \subseteq Hierarchy(top, fs)
<1> DEFINE Closed(S) == top \in S /\ \A n \in S : Insts(n) \intersect Contents(fs) \subseteq S
<1>1. Hierarchy(top, fs) = {n \in Contents(fs) : \A S \in SUBSET Names : Closed(S) => n \in S}
  BY DEF Hierarchy
<1>2. Contents(fs) \subseteq Names
  BY DEF Contents, DesignType
<1>3. ASSUME NEW m \in Hierarchy(top, fs), NEW n \in Insts(m) \intersect Contents(fs)
      PROVE  n \in Hierarchy(top, fs)
  <2>1. \A S \in SUBSET Names : Closed(S) => m \in S
    BY <1>1
  <2>2. \A S \in SUBSET Names : Closed(S) => n \in S
    BY <2>1
  <2> QED
    BY <1>1, <2>2
<1> QED
  BY <1>1, <1>2, <1>3

\* A run reports a hierarchy, and whether there were errors.
LEMMA ElaboratedType ==
  ASSUME NEW root, NEW fs, design \in DesignType
  PROVE  Elaborated(root, fs) \in [defs : SUBSET Names, errors : BOOLEAN, unset : BOOLEAN]
BY HierarchyIsClosed DEF Elaborated

\* A run reports errors, or a hierarchy with the root in it.
LEMMA ElaboratedIsClosed ==
  ASSUME NEW root, NEW fs, design \in DesignType
  PROVE  LET result == Elaborated(root, fs)
         IN  /\ result.defs \subseteq Contents(fs)
             /\ \A m \in result.defs : Insts(m) \intersect Contents(fs) \subseteq result.defs
             /\ result.errors \/ root.name \in result.defs
<1> DEFINE works == ~Elaborated(root, fs).errors
<1>1. Elaborated(root, fs).defs = IF works THEN Hierarchy(root.name, fs) ELSE {}
  BY DEF Elaborated
<1>2. works => root.name \in Contents(fs)
  BY DEF Elaborated
<1> QED
  BY <1>1, <1>2, HierarchyIsClosed

\* Elaborating a root, or taking it from the cache, keeps the types.
LEMMA RunKeepsTypes ==
  ASSUME TypeOK, CacheIsFresh, pc = "run", NEW root \in Roots, NEW isSoft \in BOOLEAN,
         RunRoot(root, isSoft), UNCHANGED calls
  PROVE  TypeOK'
<1>1. CASE Raise(caller)
  BY <1>1 DEF Raise, TypeOK, runVars
<1>2. CASE ~Raise(caller)
  <2> DEFINE result == ResultOf(root)
  <2>1. result = Elaborated(root, files)
    BY DEF ResultOf, CacheIsFresh
  <2>2. result \in [defs : SUBSET Names, errors : BOOLEAN, unset : BOOLEAN]
    BY <2>1, ElaboratedType DEF TypeOK
  <2>3. root.name \in Names
    BY DEF Roots
  <2>4. /\ cache' = [r \in DOMAIN cache \union {root} |-> IF r = root THEN result ELSE cache[r]]
        /\ defs' = defs \union result.defs
        /\ soft' = IF isSoft THEN soft \union {root.name} ELSE soft
        /\ failed' = IF result.errors /\ ~isSoft THEN failed \union {root.name} ELSE failed
        /\ todo' = todo \ {root}
        /\ UNCHANGED <<design, files, scan, units, pc, request, caller, pending, seen, pulled,
                       alone, fragment>>
    BY <1>2 DEF RunRoot, pullVars
  <2> HIDE DEF result
  <2>5. /\ DOMAIN cache' \subseteq Roots
        /\ \A r \in DOMAIN cache' :
             cache'[r] \in [defs : SUBSET Names, errors : BOOLEAN, unset : BOOLEAN]
    BY <2>2, <2>4 DEF TypeOK
  <2>6. defs' \subseteq Names /\ soft' \subseteq Names /\ failed' \subseteq Names /\ todo' \subseteq request
    BY <2>2, <2>3, <2>4 DEF TypeOK
  <2> QED
    BY <2>4, <2>5, <2>6 DEF TypeOK
<1> QED
  BY <1>1, <1>2

\* Scanning reads no file that is not there.
LEMMA ReadingTypes ==
  ASSUME TypeOK, ReadUnits
  PROVE  /\ scan \subseteq scan' /\ scan' \subseteq files
         /\ units' \in [read : {TRUE}, names : SUBSET Names]
         /\ Contents(scan') \subseteq Names
<1>1. Contents(scan') \subseteq Names
  BY DEF TypeOK, DesignType, Contents
<1>2. CASE units.read
  BY <1>1, <1>2 DEF ReadUnits, TypeOK
<1>3. CASE ~units.read
  <2>1. scan' = ScanAfter(files) /\ units' = Entities(scan')
    BY <1>3 DEF ReadUnits
  <2>2. Entities(scan') = [read |-> TRUE, names |-> Contents(scan')]
    BY DEF Entities
  <2> QED
    BY <1>1, <2>1, <2>2, ScanGrows DEF TypeOK
<1> QED
  BY <1>2, <1>3

\* What a file names directly, and what a set of entities instantiates, are names.
LEMMA ReferencesAreNames ==
  ASSUME design \in DesignType
  PROVE  /\ \A n \in Names : design.named[n] \subseteq Names /\ Insts(n) \subseteq Names
         /\ \A ns \in SUBSET Names : Instantiated(ns) \subseteq Names
         /\ design.offers \subseteq Names
BY DEF DesignType, Insts, Instantiated

\* Every variable of a frontend keeps its type, whatever the tool makes of the files,
\* and _pull_needed and _elaborate_all only run with the entities read.
THEOREM TypeCorrect == Spec => []TypeOK
<1>1. Init => TypeOK
  <2> SUFFICES ASSUME Init
               PROVE  TypeOK
    OBVIOUS
  <2>1. design \in DesignType /\ design.src \subseteq Names
    BY GhdlAssumption DEF Init, DesignType
  <2>2. DOMAIN cache = {}
    BY DEF Init
  <2>3. calls \in 0..MaxCalls /\ units \in [read : BOOLEAN, names : SUBSET Names]
    BY GhdlAssumption DEF Init, NotRead
  <2> QED
    BY <2>1, <2>2, <2>3 DEF Init, TypeOK
<1>2. TypeOK /\ CacheIsFresh /\ [Next]_vars => TypeOK'
  <2> SUFFICES ASSUME TypeOK, CacheIsFresh, [Next]_vars
               PROVE  TypeOK'
    OBVIOUS
  <2>a. ASSUME NEW by \in {"units", "provide", "run", "unbound"}, Raise(by), calls' \in 0..MaxCalls
        PROVE  TypeOK'
    BY <2>a DEF Raise, TypeOK, runVars
  <2>b. Call => calls' \in 0..MaxCalls
    BY GhdlAssumption DEF Call, CallsLeft, TypeOK
  <2>1. CASE ListUnits
    <3>1. CASE Raise("units")
      BY <2>1, <2>a, <3>1 DEF ListUnits, TypeOK
    <3>2. CASE ~Raise("units")
      BY <2>1, <3>2, ReadingTypes DEF ListUnits, TypeOK, pullVars, runVars
    <3> QED
      BY <3>1, <3>2
  <2>2. CASE Provide
    <3>1. PICK n \in design.offers : StartPull({n}, "provide")
      BY <2>2 DEF Provide
    <3>2. n \in Names
      BY ReferencesAreNames DEF TypeOK
    <3> QED
      BY <2>2, <2>b, <3>1, <3>2 DEF Provide, StartPull, TypeOK, runVars
  <2>3. CASE Elaborate
    <3>1. CASE Raise("run")
      BY <2>3, <2>a, <2>b, <3>1 DEF Elaborate
    <3>2. CASE ~Raise("run")
      <4>1. /\ ReadUnits /\ UNCHANGED <<design, files, cache, alone, fragment>>
            /\ request' \in Requests(units'.names)
            /\ StartPull({r.name : r \in request'}
                           \union (IF design.auto THEN Contents(scan') ELSE {}), "run")
            /\ NothingMerged
        BY <2>3, <3>2 DEF Elaborate
      <4>2. request' \subseteq Roots
        <5>1. design.tops \subseteq Names
          BY DEF TypeOK, DesignType
        <5>2. \A t \in Names : [name |-> t, given |-> FALSE] \in Roots
          BY DEF Roots
        <5> QED
          BY <4>1, <5>1, <5>2 DEF TypeOK, Requests
      <4>3. {r.name : r \in request'} \subseteq Names
        BY <4>2 DEF Roots
      <4> QED
        BY <2>3, <2>b, <4>1, <4>2, <4>3, ReadingTypes DEF Elaborate, StartPull, NothingMerged, TypeOK
    <3> QED
      BY <3>1, <3>2
  <2>4. CASE PullFile
    <3>1. PICK n \in pending \ seen :
            /\ n \in design.offers
            /\ IF ScanHangs(files \union {n})
               THEN Raise(caller)
               ELSE /\ files' = files \union {n}
                    /\ scan' = ScanAfter(files')
                    /\ units' = Reread
                    /\ cache' = Forget
                    /\ pulled' = TRUE
                    /\ seen' = seen \union {n}
                    /\ pending' = (pending \ {n})
                         \union (IF n \in Contents(scan') THEN design.named[n] ELSE {})
                    /\ UNCHANGED <<design, pc, request, caller, runVars, alone, fragment>>
      BY <2>4 DEF PullFile
    <3>2. calls' = calls
      BY <2>4 DEF PullFile
    <3>3. CASE Raise(caller)
      BY <2>a, <3>2, <3>3 DEF TypeOK
    <3>4. CASE ~Raise(caller)
      <4>1. n \in Names /\ design.named[n] \subseteq Names
        BY ReferencesAreNames DEF TypeOK
      <4>2. files' \subseteq Names /\ scan' \subseteq files'
        BY <3>1, <3>4, <4>1, ScanGrows DEF TypeOK
      <4>3. units' \in [read : {TRUE}, names : SUBSET Names]
        <5>1. Contents(scan') \subseteq Names
          BY DEF Contents, TypeOK, DesignType
        <5>2. units' = [read |-> TRUE, names |-> Contents(scan')]
          BY <3>1, <3>4 DEF Reread, Entities
        <5> QED
          BY <5>1, <5>2
      <4>4. DOMAIN cache' = {}
        BY <3>1, <3>4 DEF Forget
      <4>5. pending' \subseteq Names /\ seen' \subseteq Names
        BY <3>1, <3>4, <4>1 DEF TypeOK
      <4> QED
        BY <3>1, <3>2, <3>4, <4>2, <4>3, <4>4, <4>5 DEF TypeOK, runVars
    <3> QED
      BY <3>3, <3>4
  <2>5. CASE FollowReferences
    <3>1. PICK n \in pending \ seen :
            /\ seen' = seen \union {n}
            /\ pending' = (pending \ {n})
                 \union (IF n \in Contents(scan) THEN design.named[n] ELSE {})
      BY <2>5 DEF FollowReferences
    <3>2. n \in Names /\ design.named[n] \subseteq Names
      BY ReferencesAreNames DEF TypeOK
    <3>3. pending' \subseteq Names /\ seen' \subseteq Names
      BY <3>1, <3>2 DEF TypeOK
    <3> QED
      BY <2>5, <3>3 DEF FollowReferences, TypeOK, runVars
  <2>6. CASE Provided
    BY <2>6 DEF Provided, TypeOK, NotRead, runVars
  <2>7. CASE BeginRuns
    BY <2>7 DEF BeginRuns, Pulled, StartRuns, TypeOK, pullVars
  <2>8. CASE RunRequested
    <3>1. PICK root \in todo : RunRoot(root, FALSE)
      BY <2>8 DEF RunRequested
    <3> QED
      BY <2>8, <3>1, RunKeepsTypes DEF RunRequested, TypeOK
  <2>9. CASE RunAuto
    <3>1. PICK n \in Unreached : RunRoot([name |-> n, given |-> FALSE], TRUE)
      BY <2>9 DEF RunAuto
    <3>2. [name |-> n, given |-> FALSE] \in Roots
      BY DEF Unreached, TypeOK, Roots
    <3> QED
      BY <2>9, <3>1, <3>2, RunKeepsTypes DEF RunAuto
  <2>10. CASE EndRuns
    <3>1. /\ AloneFailures \subseteq Names /\ Unbound(defs) \subseteq Names
      BY ReferencesAreNames DEF AloneFailures, Unbound, TypeOK
    <3> QED
      BY <2>10, <3>1 DEF EndRuns, StartPull, TypeOK
  <2>11. CASE Return
    <3>1. /\ defs \intersect units.names \subseteq Names
          /\ Instantiated((defs \ alone) \intersect units.names) \ defs \subseteq Names
          /\ {r.name : r \in request} \intersect design.tops \intersect (units.names \ defs) \subseteq Names
      BY ReferencesAreNames DEF TypeOK
    <3>2. FragmentOf \in [defs : SUBSET Names, errors : SUBSET Names, unresolved : SUBSET Names,
                          failed_tops : SUBSET Names]
      BY <3>1 DEF FragmentOf, TypeOK
    <3> QED
      BY <2>11, <3>2 DEF Return, Pulled, Leave, TypeOK
  <2>12. CASE UNCHANGED vars
    BY <2>12 DEF vars, TypeOK, pullVars, runVars
  <2> QED
    BY <2>1, <2>2, <2>3, <2>4, <2>5, <2>6, <2>7, <2>8, <2>9, <2>10, <2>11, <2>12
       DEF Next, Finished
<1> QED
  BY <1>1, <1>2, CacheIsAlwaysFresh, PTL DEF Spec

-----------------------------------------------------------------------------
(* What a fragment shows. *)

\* The names of the roots asked for.
Named(rs) == {r.name : r \in rs}

\* What a fragment shows is closed under instantiation, as far as it is known.
ClosedFragment(ns) == \A m \in ns : Insts(m) \intersect Contents(files) \subseteq defs

\* While the roots are elaborated: what is merged, what has failed, what failed alone.
Merging ==
  pc = "run" =>
    /\ defs \subseteq Contents(files) /\ ClosedFragment(defs)
    /\ \A r \in request \ todo : r.name \in defs \union failed
    /\ failed \subseteq Named(request)
    /\ soft # {} => todo = {}
    /\ soft \intersect Named(request) \subseteq failed
    /\ soft \subseteq units.names
    /\ \A n \in soft : LET root == [name |-> n, given |-> FALSE]
                       IN  root \in DOMAIN cache /\ (cache[root].errors \/ n \in defs)

\* What elaborate would return now, with what is left to search for.
Whole(left) ==
  /\ defs \subseteq Contents(files) /\ ClosedFragment(defs \ alone)
  /\ alone \intersect Named(request) \subseteq failed
  /\ \A n \in Instantiated(defs \ alone) \intersect design.offers :
       n \in files \union design.elsewhere \union left
  /\ Named(request) \subseteq defs \union failed
  /\ design.auto => units.names \subseteq defs \union failed \union alone
  /\ (failed \union alone) \intersect Instantiated(defs \ alone) \subseteq Named(request)

\* What the loop of _pull_needed and _elaborate_all keep, and elaborate returns.
FragmentInv ==
  /\ pc = "pull" => seen \intersect design.offers \subseteq files
  /\ Merging
  /\ pc = "pull" /\ caller = "unbound" /\ ~pulled => Whole(pending)
  /\ Returned => units.read /\ fragment = FragmentOf /\ Whole({})

\* A root that is elaborated, or taken from the cache, adds its whole hierarchy, or has
\* failed.
LEMMA RunKeepsMerging ==
  ASSUME TypeOK, CacheIsFresh, Merging, pc = "run", NEW root \in Roots, NEW isSoft \in BOOLEAN,
         RunRoot(root, isSoft),
         isSoft => todo = {} /\ root.given = FALSE /\ root.name \in units.names \ defs,
         ~isSoft => root \in todo
  PROVE  Merging'
<1>1. CASE Raise(caller)
  BY <1>1 DEF Raise, Merging
<1>2. CASE ~Raise(caller)
  <2> DEFINE result == ResultOf(root)
  <2>1. result = Elaborated(root, files)
    BY DEF ResultOf, CacheIsFresh
  <2>2. /\ result.defs \subseteq Contents(files)
        /\ \A m \in result.defs : Insts(m) \intersect Contents(files) \subseteq result.defs
        /\ result.errors \/ root.name \in result.defs
    BY <2>1, ElaboratedIsClosed DEF TypeOK
  <2>3. /\ cache' = [r \in DOMAIN cache \union {root} |-> IF r = root THEN result ELSE cache[r]]
        /\ defs' = defs \union result.defs
        /\ soft' = IF isSoft THEN soft \union {root.name} ELSE soft
        /\ failed' = IF result.errors /\ ~isSoft THEN failed \union {root.name} ELSE failed
        /\ todo' = todo \ {root}
        /\ UNCHANGED <<design, files, units, pc, request>>
    BY <1>2 DEF RunRoot
  <2> HIDE DEF result
  <2>4. Contents(files)' = Contents(files) /\ \A m : Insts(m)' = Insts(m)
    BY <2>3 DEF Contents, Insts
  <2>5. defs' \subseteq Contents(files)' /\ ClosedFragment(defs)'
    BY <2>2, <2>3, <2>4 DEF Merging, ClosedFragment
  <2>6. \A r \in request \ todo' : r.name \in defs' \union failed'
    <3>1. ~isSoft => root.name \in defs' \union failed'
      BY <2>2, <2>3
    <3>2. \A r \in request \ todo' : r \in request \ todo \/ (~isSoft /\ r = root)
      BY <2>3
    <3>3. \A r \in request \ todo : r.name \in defs' \union failed'
      BY <2>3 DEF Merging
    <3> QED
      BY <3>1, <3>2, <3>3
  <2>7. failed' \subseteq Named(request)
    BY <2>3 DEF Merging, Named, TypeOK
  <2>8. ASSUME NEW n \in soft'
        PROVE  LET alonely == [name |-> n, given |-> FALSE]
               IN  alonely \in DOMAIN cache' /\ (cache'[alonely].errors \/ n \in defs')
    <3> DEFINE alonely == [name |-> n, given |-> FALSE]
    <3>1. CASE alonely = root
      BY <2>2, <2>3, <3>1
    <3>2. CASE alonely # root
      <4>1. n \in soft
        BY <2>3, <2>8, <3>2 DEF Roots
      <4> QED
        BY <2>3, <3>2, <4>1 DEF Merging
    <3> QED
      BY <3>1, <3>2
  <2>9. /\ soft' # {} => todo' = {}
        /\ soft' \subseteq units'.names
        /\ soft' \intersect Named(request') \subseteq failed'
    <3>1. CASE isSoft
      <4>1. \A r \in request : r.name \in defs \union failed
        BY <3>1 DEF Merging
      <4>2. root.name \in Named(request) => root.name \in failed
        BY <3>1, <4>1 DEF Named
      <4> QED
        BY <2>3, <3>1, <4>2 DEF Merging
    <3>2. CASE ~isSoft
      BY <2>3, <3>2 DEF Merging
    <3> QED
      BY <3>1, <3>2
  <2> QED
    BY <2>3, <2>5, <2>6, <2>7, <2>8, <2>9 DEF Merging
<1> QED
  BY <1>1, <1>2

\* Following a reference leaves nothing unsearched that -y offers.
LEMMA FollowingKeepsWhole ==
  ASSUME TypeOK, NEW left, NEW rest, Whole(left), design' = design, files' = files, units' = units,
         UNCHANGED <<request, defs, failed, alone>>,
         \A n \in left \intersect design.offers : n \in rest \/ n \in files
  PROVE  Whole(rest)'
<1>1. Contents(files)' = Contents(files) /\ \A m : Insts(m)' = Insts(m)
  BY DEF Contents, Insts
<1>2. Instantiated(defs \ alone)' = Instantiated(defs \ alone)
  BY <1>1 DEF Instantiated
<1>3. ClosedFragment(defs \ alone)'
  BY <1>1 DEF Whole, ClosedFragment
<1>4. defs' \subseteq Contents(files)'
  BY <1>1 DEF Whole
<1> QED
  BY <1>2, <1>3, <1>4 DEF Whole, Named

\* When all runs have ended, the fragment is whole but for what is then searched for in
\* -y: an entity that failed alone is in it with its parent, or has a note or an error.
LEMMA EndingWhole ==
  ASSUME TypeOK, YInv, FragmentInv, EndRuns
  PROVE  FragmentInv'
<1>1. /\ pc = "run" /\ todo = {}
      /\ design.auto => Unreached = {}
      /\ alone' = {n \in AloneFailures : cache[[name |-> n, given |-> FALSE]].unset}
      /\ defs' = defs \union alone'
      /\ failed' = failed \union (AloneFailures \ alone')
      /\ pc' = "pull" /\ caller' = "unbound" /\ pending' = Unbound(defs) /\ seen' = {} /\ pulled' = FALSE
      /\ UNCHANGED <<design, files, scan, units, cache, calls, request, todo, soft, fragment>>
  BY DEF EndRuns, StartPull
<1>2. /\ alone' \subseteq AloneFailures
      /\ AloneFailures \subseteq soft \ Instantiated(defs)
      /\ \A n \in soft \ Instantiated(defs) :
           cache[[name |-> n, given |-> FALSE]].errors => n \in AloneFailures
  BY <1>1 DEF AloneFailures
<1>3. Merging
  BY DEF FragmentInv
<1>4. Instantiated(defs' \ alone') \subseteq Instantiated(defs) /\ defs' \ alone' \subseteq defs
  BY <1>1 DEF Instantiated
<1>5. Contents(files)' = Contents(files) /\ \A m : Insts(m)' = Insts(m)
  BY <1>1 DEF Contents, Insts
<1>6. Instantiated(defs \ alone)' \subseteq Instantiated(defs)
  BY <1>4, <1>5 DEF Instantiated
<1>7. ClosedFragment(defs \ alone)'
  BY <1>1, <1>3, <1>4, <1>5 DEF Merging, ClosedFragment
<1>8. ASSUME NEW n \in Instantiated(defs) \intersect design.offers
      PROVE  n \in files \union design.elsewhere \union Unbound(defs)
  BY <1>1, <1>3 DEF Merging, Unbound, Contents
<1>9. Named(request) \subseteq defs' \union failed'
  BY <1>1, <1>3 DEF Merging, Named
<1>10. ASSUME design.auto, NEW n \in units.names
       PROVE  n \in defs' \union failed' \union alone'
  <2>1. n \in defs \/ n \in soft
    BY <1>1, <1>10 DEF Unreached
  <2>2. n \in Contents(files)
    BY DEF YInv, Known, Contents
  <2>3. n \in Instantiated(defs) => n \in defs
    BY <1>1, <1>3, <2>2 DEF Merging, ClosedFragment, Instantiated
  <2>4. CASE n \in soft \ Instantiated(defs) /\ n \notin defs
    <3>1. n \in AloneFailures
      BY <1>1, <1>2, <1>3, <2>4 DEF Merging
    <3> QED
      BY <1>1, <3>1
  <2> QED
    BY <1>1, <2>1, <2>3, <2>4
<1>11. (failed' \union alone') \intersect Instantiated(defs) \subseteq Named(request)
  BY <1>1, <1>2, <1>3 DEF Merging
<1>12. Whole(pending)'
  <2>1. \A n \in Instantiated(defs \ alone)' \intersect design.offers :
          n \in files \union design.elsewhere \union pending'
    BY <1>1, <1>6, <1>8
  <2>2. (failed' \union alone') \intersect Instantiated(defs \ alone)' \subseteq Named(request)
    BY <1>6, <1>11
  <2>3. defs' \subseteq Contents(files)'
    <3>1. alone' \subseteq Contents(files)
      BY <1>1, <1>2, <1>3 DEF Merging, YInv, Known, Contents
    <3> QED
      BY <1>1, <1>3, <1>5, <3>1 DEF Merging
  <2>4. alone' \intersect Named(request) \subseteq failed'
    BY <1>1, <1>2, <1>3 DEF Merging
  <2>5. design.auto => units.names \subseteq defs' \union failed' \union alone'
    BY <1>10
  <2> QED
    BY <1>1, <1>7, <1>9, <2>1, <2>2, <2>3, <2>4, <2>5 DEF Whole, Named
<1> QED
  BY <1>1, <1>12 DEF FragmentInv, Merging, Returned

\* What elaborate returns is whole, complains of nothing that works and loses nothing,
\* whichever roots it was given before and whatever was pulled in between.
LEMMA FragmentInvariant == Spec => []FragmentInv
<1>1. Init => FragmentInv
  BY DEF Init, FragmentInv, Merging, Returned
<1>2. TypeOK /\ TypeOK' /\ CacheIsFresh /\ YInv /\ FragmentInv /\ [Next]_vars => FragmentInv'
  <2> SUFFICES ASSUME TypeOK, TypeOK', CacheIsFresh, YInv, FragmentInv, [Next]_vars
               PROVE  FragmentInv'
    OBVIOUS
  <2>a. CASE pc' = "raised"
    BY <2>a DEF FragmentInv, Merging, Returned
  <2>b. ASSUME pc' = "pull", caller' # "unbound", seen' = {}
        PROVE  FragmentInv'
    BY <2>b DEF FragmentInv, Merging, Returned
  <2>c. ASSUME pc' = "idle", caller' # "unbound"
        PROVE  FragmentInv'
    BY <2>c DEF FragmentInv, Merging, Returned
  <2>1. CASE ListUnits
    <3>1. CASE Raise("units")
      BY <2>a, <3>1 DEF Raise
    <3>2. CASE ~Raise("units")
      BY <2>1, <2>c, <3>2 DEF ListUnits, FragmentInv, Returned, pullVars
    <3> QED
      BY <3>1, <3>2
  <2>2. CASE Provide
    BY <2>2, <2>b DEF Provide, StartPull
  <2>3. CASE Elaborate
    BY <2>3, <2>a, <2>b DEF Elaborate, StartPull, Raise
  <2>4. CASE PullFile
    <3>1. CASE Raise(caller)
      BY <2>a, <3>1 DEF Raise
    <3>2. CASE ~Raise(caller)
      <4>1. PICK n \in pending \ seen :
              /\ files' = files \union {n} /\ seen' = seen \union {n} /\ pulled' = TRUE
              /\ UNCHANGED <<pc, design>>
        BY <2>4, <3>2 DEF PullFile
      <4>2. pc = "pull"
        BY <2>4 DEF PullFile
      <4> QED
        BY <4>1, <4>2 DEF FragmentInv, Merging, Returned
    <3> QED
      BY <3>1, <3>2
  <2>5. CASE FollowReferences
    <3>1. PICK n \in pending \ seen :
            /\ n \notin design.offers \/ n \in Contents(scan) \/ n \in files
            /\ seen' = seen \union {n}
            /\ pending' = (pending \ {n})
                 \union (IF n \in Contents(scan) THEN design.named[n] ELSE {})
      BY <2>5 DEF FollowReferences
    <3>2. /\ pc = "pull"
          /\ UNCHANGED <<pc, design, files, units, caller, pulled, request, defs, failed, alone>>
      BY <2>5 DEF FollowReferences, runVars
    <3>3. n \in design.offers => n \in files
      BY <3>1 DEF TypeOK, Contents
    <3>4. caller = "unbound" /\ ~pulled => Whole(pending)'
      <4>1. \A m \in pending \intersect design.offers : m \in pending' \/ m \in files
        BY <3>1, <3>3
      <4> QED
        BY <3>2, <4>1, FollowingKeepsWhole DEF FragmentInv
    <3> QED
      BY <3>1, <3>2, <3>3, <3>4 DEF FragmentInv, Merging, Returned
  <2>6. CASE Provided
    BY <2>6, <2>c DEF Provided
  <2>7. CASE BeginRuns
    BY <2>7 DEF BeginRuns, StartRuns, FragmentInv, Merging, Returned, ClosedFragment, Named
  <2>8. CASE RunRequested
    <3>1. PICK root \in todo : RunRoot(root, FALSE)
      BY <2>8 DEF RunRequested
    <3>2. Merging'
      BY <2>8, <3>1, RunKeepsMerging DEF RunRequested, TypeOK, FragmentInv
    <3>3. pc' \in {"run", "raised"}
      BY <2>8, <3>1 DEF RunRequested, RunRoot, Raise
    <3> QED
      BY <3>2, <3>3 DEF FragmentInv, Returned
  <2>9. CASE RunAuto
    <3>1. PICK n \in Unreached : RunRoot([name |-> n, given |-> FALSE], TRUE)
      BY <2>9 DEF RunAuto
    <3>2. [name |-> n, given |-> FALSE] \in Roots
      BY DEF Unreached, TypeOK, Roots
    <3>3. Merging'
      BY <2>9, <3>1, <3>2, RunKeepsMerging DEF RunAuto, Unreached, FragmentInv
    <3>4. pc' \in {"run", "raised"}
      BY <2>9, <3>1 DEF RunAuto, RunRoot, Raise
    <3> QED
      BY <3>3, <3>4 DEF FragmentInv, Returned
  <2>10. CASE EndRuns
    BY <2>10, EndingWhole
  <2>11. CASE Return
    <3>1. /\ pc = "pull" /\ pending \subseteq seen /\ caller = "unbound" /\ ~pulled
          /\ fragment' = FragmentOf
          /\ pc' = "idle"
          /\ UNCHANGED <<design, files, units, request, defs, failed, alone>>
      BY <2>11 DEF Return, Pulled, Leave
    <3>2. \A n \in pending \intersect design.offers : n \in {} \/ n \in files
      BY <3>1 DEF FragmentInv
    <3>3. Whole({})'
      BY <3>1, <3>2, FollowingKeepsWhole DEF FragmentInv
    <3>4. units'.read
      BY <3>1 DEF TypeOK
    <3>5. FragmentOf' = FragmentOf
      BY <3>1 DEF FragmentOf, Instantiated, Insts
    <3> QED
      BY <3>1, <3>3, <3>4, <3>5 DEF FragmentInv, Merging
  <2>12. CASE UNCHANGED vars
    <3>1. UNCHANGED <<design, files, units, cache, pc, request, caller, pending, seen, pulled, todo,
                      defs, failed, soft, alone, fragment>>
      BY <2>12 DEF vars, pullVars, runVars
    <3>2. FragmentOf' = FragmentOf
      BY <3>1 DEF FragmentOf, Instantiated, Insts
    <3>3. \A left : Whole(left)' = Whole(left)
      BY <3>1 DEF Whole, ClosedFragment, Named, Contents, Insts, Instantiated
    <3>4. Merging' = Merging
      BY <3>1 DEF Merging, ClosedFragment, Named, Contents, Insts
    <3>5. Returned' = Returned
      BY <3>1 DEF Returned
    <3> QED
      BY <3>1, <3>2, <3>3, <3>4, <3>5 DEF FragmentInv
  <2> QED
    BY <2>1, <2>2, <2>3, <2>4, <2>5, <2>6, <2>7, <2>8, <2>9, <2>10, <2>11, <2>12
       DEF Next, Finished
<1> QED
  BY <1>1, <1>2, TypeCorrect, CacheIsAlwaysFresh, YInvariant, PTL DEF Spec

\* The fragment that elaborate returns is the whole hierarchy of what could be
\* elaborated: every instance of a known entity is expanded, and none is left that -y
\* has, unless another language defines it (_elaborate_all and _pull_needed).
THEOREM FragmentIsAlwaysWhole == Spec => []FragmentIsWhole
<1>1. YInv /\ FragmentInv => FragmentIsWhole
  <2> SUFFICES ASSUME YInv, FragmentInv, Returned,
                      NEW n \in Instantiated(fragment.defs \ alone)
               PROVE  /\ n \in units.names => n \in fragment.defs
                      /\ n \in design.offers => n \in files \union design.elsewhere
    BY DEF FragmentIsWhole
  <2>1. Whole({}) /\ fragment.defs = defs \intersect units.names
    BY DEF FragmentInv, FragmentOf
  <2>2. PICK m \in defs \ alone : n \in Insts(m)
    BY <2>1 DEF Instantiated
  <2>3. n \in units.names => n \in Contents(files)
    BY DEF YInv, Known, Contents
  <2>4. n \in Instantiated(defs \ alone)
    BY <2>2 DEF Instantiated
  <2> QED
    BY <2>1, <2>2, <2>3, <2>4 DEF Whole, ClosedFragment
<1> QED
  BY <1>1, YInvariant, FragmentInvariant, PTL

\* Nothing fails silently: elaborate shows each root asked for, also one that only -y may
\* have, or has an error for it, and so for each entity known if auto, which may have a note
\* instead; a top that main calls failed has an error.  The exception is what the tool
\* elaborates but could not scan (_elaborate_all and _fragment).
THEOREM NothingIsEverLost == Spec => []NothingIsLost
<1>1. YInv /\ FragmentInv => NothingIsLost
  <2> SUFFICES ASSUME YInv, FragmentInv, Returned
               PROVE  LET shown == fragment.defs \ alone
                      IN  /\ Named(request) \subseteq shown \union fragment.errors \union (files \ scan)
                          /\ design.auto => units.names \subseteq shown \union fragment.errors \union alone
                          /\ fragment.failed_tops \subseteq fragment.errors
    BY DEF NothingIsLost, Named
  <2>1. /\ Whole({}) /\ units.read
        /\ fragment.defs = defs \intersect units.names /\ fragment.errors = failed
        /\ fragment.failed_tops = Named(request) \intersect design.tops \intersect (units.names \ defs)
    BY DEF FragmentInv, FragmentOf, Named
  <2>2. \A n \in defs \ (files \ scan) : n \in units.names
    BY <2>1 DEF Whole, YInv, Known, Contents
  <2> QED
    BY <2>1, <2>2 DEF Whole
<1> QED
  BY <1>1, YInvariant, FragmentInvariant, PTL

\* An entity that works inside of another is no error because it fails alone, and no
\* note says that its children are not shown (_alone_notes).
THEOREM NoComplaintIsFalse == Spec => []NoFalseComplaint
<1>1. FragmentInv => NoFalseComplaint
  BY DEF FragmentInv, NoFalseComplaint, Whole, Named
<1> QED
  BY <1>1, FragmentInvariant, PTL
=============================================================================

--------------------------- MODULE Program_proofs ---------------------------
(***************************************************************************)
(* The program implements its parts: what main does around the stitcher,   *)
(* what slang's frontend does when the stitcher calls it, and how the tree *)
(* is walked while it is printed, is what Cli, SlangFrontend and Tree say  *)
(* of them alone.  So their theorems are the program's, for every command  *)
(* line, design and hierarchy.                                             *)
(***************************************************************************)
EXTENDS Program, SlangFrontend_proofs, Cli_proofs, Tree_proofs

\* The parts' initial states, for the command lines, designs and hierarchies considered.
LEMMA ProgramStartsItsParts == ProgramInit => Init /\ CliInit /\ TreeInit
  BY DEF ProgramInit

\* A step of the program is a step of each part, or changes nothing of it.
LEMMA ProgramStepsItsParts ==
  ASSUME [ProgramNext]_<<vars, cliVars, treeVars>>
  PROVE  [Next]_vars /\ [CliNext]_cliVars /\ [TreeNext]_treeVars
<1>1. CASE BeforeStitching
  BY <1>1 DEF BeforeStitching, CliNext
<1>2. CASE Stitching
  BY <1>2 DEF Stitching
<1>3. CASE Stitched
  BY <1>3 DEF Stitched, CliNext
<1>4. CASE AfterStitching
  BY <1>4 DEF AfterStitching, CliNext
<1>5. CASE Printing
  BY <1>5 DEF Printing
<1>6. CASE Ended
  BY <1>6 DEF Ended, CliNext
<1>7. CASE UNCHANGED <<vars, cliVars, treeVars>>
  BY <1>7
<1> QED
  BY <1>1, <1>2, <1>3, <1>4, <1>5, <1>6, <1>7 DEF ProgramNext

\* The program implements slang's frontend, main and the walk of the tree: Program's
\* interleaving adds no step to any of them, whichever calls the stitcher makes.
THEOREM ProgramImplementsItsParts == ProgramSpec => Spec /\ CliSpec /\ TreeSpec
<1>1. ProgramInit => Init /\ CliInit /\ TreeInit
  BY ProgramStartsItsParts
<1>2. [ProgramNext]_<<vars, cliVars, treeVars>> => [Next]_vars /\ [CliNext]_cliVars /\ [TreeNext]_treeVars
  BY ProgramStepsItsParts
<1> QED
  BY <1>1, <1>2, PTL DEF ProgramSpec, Spec, CliSpec, TreeSpec

\* What holds of the parts holds while the program runs them: files have readers, roots are
\* answered, nothing else is elaborated, -y is searched to the end, a filelist compiles, what
\* exit code 0 promises is written, and what is printed is the tree.
THEOREM ProgramIsCorrect ==
  ASSUME IsFiniteSet(Names), IsFiniteSet(Modules), IsFiniteSet(ParamSettings)
  PROVE  ProgramSpec => [](/\ TypeOK /\ RootsAreAnswered /\ NothingUnasked /\ PulledToTheEnd
                           /\ EveryFileHasAReader /\ FilelistCompiles /\ OutputsAreWhole
                           /\ TreeTypeOK /\ ExpandingIsTheStack /\ LinesAreTheTree)
<1>1. Spec => [](TypeOK /\ RootsAreAnswered /\ NothingUnasked /\ PulledToTheEnd)
  BY TypeCorrect, RootsAlwaysAnswered, NothingIsUnasked, AllIsPulled, PTL
<1>2. CliSpec => [](EveryFileHasAReader /\ FilelistCompiles /\ OutputsAreWhole)
  BY EveryNamedFileIsRead, FilelistAlwaysCompiles, ExitTellsWhatIsWritten, PTL
<1>3. TreeSpec => [](TreeTypeOK /\ ExpandingIsTheStack /\ LinesAreTheTree)
  BY TreeTypeCorrect, ExpandingIsTheStackAlways, TheTreeIsPrinted, PTL
<1> QED
  BY <1>1, <1>2, <1>3, ProgramImplementsItsParts, PTL
=============================================================================

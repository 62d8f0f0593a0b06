------------------------------- MODULE Program -------------------------------
(***************************************************************************)
(* svhier as a whole, for SystemVerilog: main (Cli) up to the stitcher,    *)
(* the stitcher's calls of slang's frontend (SlangFrontend), main again    *)
(* with the result, and the walk of its tree (Tree) while it is printed.   *)
(* Which result that is comes from the case; Stitch and GhdlFrontend model *)
(* the rest of stitching.                                                  *)
(***************************************************************************)
EXTENDS SlangFrontend, Cli, Tree

CONSTANT Cases  \* The invocations considered, each with a design and a result's tree.

ProgramInit ==
  /\ \E c \in Cases : run = c[1] /\ design = c[2] /\ hierarchy = c[3]
  /\ Init /\ CliInit /\ TreeInit

\* main's steps, the frontend's while main is in stitch, and the walk's in _print_tree.
BeforeStitching == BeforeStitch /\ UNCHANGED <<vars, treeVars>>
Stitching == stage = "stitch" /\ Next /\ UNCHANGED <<cliVars, treeVars>>
Stitched == (pc = "merged" \/ (Idle /\ calls = MaxCalls)) /\ Stitch /\ UNCHANGED <<vars, treeVars>>
AfterStitching == AfterStitch /\ ("tree" \in written' => Done) /\ UNCHANGED <<vars, treeVars>>
Printing == stage = "tree" /\ printing /\ ~Done /\ TreeNext /\ UNCHANGED <<vars, cliVars>>
Ended == Exited /\ UNCHANGED <<vars, treeVars>>

ProgramNext == BeforeStitching \/ Stitching \/ Stitched \/ AfterStitching \/ Printing \/ Ended

\* The stitcher may stop calling; what it has called goes on.  The tree is printed line after
\* line, unless the reader goes away.
ProgramSpec ==
  /\ ProgramInit /\ [][ProgramNext]_<<vars, cliVars, treeVars>>
  /\ WF_vars(Busy /\ Stitching)
  /\ WF_treeVars(Printing)

\* Whatever the cycles, a tree that is begun ends, or its reader goes away before.
TreeEnds == printing ~> (Done \/ stage = "exited")
=============================================================================

----------------------------- MODULE GhdlPlugin -----------------------------
(***************************************************************************)
(* The GHDL plugin: its frontend (GhdlFrontend), and what that does with   *)
(* the worker's reports, which choose libraries (Libraries), and with the  *)
(* lines of a run (ParseTree).  The frontend's model takes the answers of  *)
(* the worker whole, so a case gives work to one of the three.             *)
(***************************************************************************)
EXTENDS GhdlFrontend, Libraries, ParseTree

CONSTANT Cases  \* A design, the reports of a scan, and the elaborated design of a run.

PluginInit ==
  /\ \E c \in Cases : design = c[1] /\ reports = c[2] /\ elaborated = c[3]
  /\ Init /\ LibInit /\ ParseInit

Assigned == step = "placed"
Parsed == unread = <<>>

AssignLibraries == LibNext /\ UNCHANGED <<vars, parseVars>>
ParseLines == Assigned /\ ParseNext /\ UNCHANGED <<vars, libVars>>
Calling == Assigned /\ Parsed /\ Next /\ UNCHANGED <<libVars, parseVars>>

PluginNext == AssignLibraries \/ ParseLines \/ Calling

\* What is called goes on, up to its end.
PluginSpec ==
  /\ PluginInit /\ [][PluginNext]_<<vars, libVars, parseVars>>
  /\ WF_vars(pc # "idle" /\ Calling)
=============================================================================

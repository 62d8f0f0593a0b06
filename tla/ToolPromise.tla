----------------------------- MODULE ToolPromise -----------------------------
(***************************************************************************)
(* What the GHDL frontend may rely on when it calls GhdlWorkerTool.run     *)
(* (src/plugins/svhier-ghdl/src/svhier_ghdl/__init__.py): each run gives   *)
(* the answer a process of its own would give (run_once), however many     *)
(* servers it takes or loses.  No servers, pipes or signals here.          *)
(***************************************************************************)
CONSTANTS
  Sources,    \* The sets of sources an elaboration can be about.
  Loads,      \* What reading them does to GHDL: "loads", "dies" or "hangs".
  Behaviours  \* What elaborations do: "answers", "crashes", "garbles", "hangs".

VARIABLES
  state,    \* "idle", "busy" with a run, or "left": the program has ended.
  request,  \* The run: its op, its sources and what its elaboration does.
  overdue,  \* Whether the run has lasted for _TIMEOUT_S.
  result    \* What the last run returned or raised.

promiseVars == <<state, request, overdue, result>>

Requests == [op : {"elaborate", "scan"}, source : Sources, does : Behaviours]
Results == {"none", "answers", "crashes", "garbles", "timeout"}

\* What a process of its own makes of a request.  "crashes" is a nonzero exit,
\* "garbles" is output that cannot be decoded.
OnceResults(r) ==
  IF r.op = "scan" THEN {"answers", "crashes", "timeout"}
  ELSE CASE Loads[r.source] = "hangs" -> {"timeout"}
         [] Loads[r.source] = "dies" -> {"crashes", "timeout"}
         [] OTHER -> ({r.does} \ {"hangs"}) \union {"timeout"}

PromiseInit ==
  /\ state = "idle"
  /\ request \in Requests
  /\ overdue = FALSE
  /\ result = "none"

Ask ==
  /\ state = "idle"
  /\ state' = "busy"
  /\ request' \in Requests
  /\ overdue' = FALSE
  /\ UNCHANGED result

Wait ==
  /\ state = "busy"
  /\ overdue' = TRUE
  /\ UNCHANGED <<state, request, result>>

\* A timeout is no excuse before its time.
Answer ==
  /\ state = "busy"
  /\ \E r \in OnceResults(request) :
       /\ r = "timeout" => overdue
       /\ result' = r
  /\ state' = "idle"
  /\ UNCHANGED <<request, overdue>>

Leave ==
  /\ state # "left"
  /\ state' = "left"
  /\ UNCHANGED <<request, overdue, result>>

PromiseNext == Ask \/ Wait \/ Answer \/ Leave

PromiseSpec == PromiseInit /\ [][PromiseNext]_promiseVars

\* A run does not last for ever.
Returns == (state = "busy") ~> (state # "busy")

LivePromise == PromiseSpec /\ Returns
=============================================================================

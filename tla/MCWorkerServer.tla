--------------------------- MODULE MCWorkerServer ---------------------------
(* Small instances of WorkerServer: two sets of sources, named by what GHDL *)
(* makes of them.                                                           *)
EXTENDS WorkerServer, TLC

\* Both read well, one of them in more pieces than the pipe holds.
BothLoad == ("s" :> "loads") @@ ("t" :> "loads")
OneDies == ("s" :> "loads") @@ ("t" :> "dies")
OneHangs == ("s" :> "loads") @@ ("t" :> "hangs")
Small == [s \in {"s", "t"} |-> 1]
OneLarge == ("s" :> 1) @@ ("t" :> 2)
=============================================================================

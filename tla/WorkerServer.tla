---------------------------- MODULE WorkerServer ----------------------------
(***************************************************************************)
(* The server that answers the GHDL frontend's elaborations, from both     *)
(* ends: GhdlWorkerTool.run and _WorkerServer in svhier_ghdl/__init__.py   *)
(* (the program), and _serve and _wait_for in svhier_ghdl/worker.py (the   *)
(* server, which forks a child for each request).                          *)
(*                                                                         *)
(* Program, servers and children interleave at system calls: writing to    *)
(* and reading from the two pipes, closing them, fork, kill, waitpid and   *)
(* sigtimedwait.  Servers can be killed, stopped or fail to start; the     *)
(* program can be interrupted or killed.  Servers are numbered as they are *)
(* started.  A message is a token for each part that may arrive alone.     *)
(***************************************************************************)
EXTENDS Naturals, Sequences, FiniteSets

CONSTANTS
  Sources,     \* Sets of sources: {std, work, files, libraries}.
  NoSources,   \* Python's None.
  Loads,       \* What reading them does to GHDL: "loads", "dies" or "hangs".
  Size,        \* How many pieces a line about them takes through the pipe.
  Capacity,    \* How many pieces the request pipe holds.
  Behaviours,  \* What elaborations do: "answers", "crashes", "garbles", "hangs".
  MaxRuns,     \* Bound on the program's calls of run.
  MaxServers,  \* Bound on the servers it starts.
  Faults       \* What the surroundings do: see the assumption.

ASSUME ServerAssumption ==
  /\ NoSources \notin Sources
  /\ Loads \in [Sources -> {"loads", "dies", "hangs"}]
  /\ Size \in [Sources -> Nat \ {0}]
  /\ Capacity \in Nat \ {0}
  /\ Behaviours \subseteq {"answers", "crashes", "garbles", "hangs"}
  /\ MaxRuns \in Nat
  /\ MaxServers \in Nat /\ MaxRuns <= MaxServers  \* A run starts at most one.
  /\ Faults \subseteq {"crash", "stop", "spawn", "interrupt", "kill"}

Servers == 1..MaxServers
None == 0

VARIABLES
  \* The program.
  pc,       \* Where it is in GhdlWorkerTool.run and what that calls.
  request,  \* The request of the current run, ...
  run,      \* ... and its number.
  clock,    \* "early", "late": past the deadline, "over": past the grace too.
  toSend,   \* Pieces of the line still to write.
  want,     \* The part of an answer it reads next.
  header,   \* The header read.
  after,    \* Where it goes once the server is closed.
  server,   \* self._server, or None.
  sources,  \* self._sources.
  failed,   \* self._failed_sources.
  result,   \* What the last run returned or raised.
  \* The servers and their pipes.
  started,  \* How many were started,
  startedFor, \* and, for the properties, for which sources.
  closed,   \* Whether the program has closed its ends of the pipes.
  requests, \* What is in the pipe to the server,
  replies,  \* and what is in the pipe back, or read but not used yet.
  phase,    \* Where a server is in worker._serve and _wait_for.
  stopped,  \* Whether it got SIGSTOP.
  holds,    \* The sources it reads.
  job,      \* The request it answers.
  child,    \* Its child: "none", "forked" (with the pipes open), "running" or "zombie".
  expired,  \* Whether the request's timeout has passed.
  timedOut, \* What _wait_for returned.
  sigchld   \* Whether a SIGCHLD is pending.

programVars == <<pc, request, run, clock, toSend, want, header, after, server,
                 sources, failed, result>>
startVars == <<started, startedFor>>
pipeVars == <<closed, requests, replies>>
serverVars == <<phase, stopped, holds, job, child, expired, timedOut, sigchld>>
vars == <<pc, request, run, clock, toSend, want, header, after, server, sources, failed,
          result, started, startedFor, closed, requests, replies, phase, stopped, holds, job,
          child, expired, timedOut, sigchld>>

Requests == [op : {"elaborate", "scan"}, source : Sources, does : Behaviours]

\* What the program promises its caller, and where that leaves a run.
PromiseState == IF pc = "idle" THEN "idle"
                ELSE IF pc \in {"exited", "killed"} \/ after = "exited" THEN "left"
                ELSE "busy"
Promise == INSTANCE ToolPromise WITH state <- PromiseState, overdue <- clock # "early"

Alive(g) == phase[g] \notin {"none", "dead"}
\* A child holds the server's ends of the pipes until it has closed its copies.
ServerEndOpen(g) == Alive(g) \/ child[g] = "forked"

Piece(last) == [source |-> request.source, run |-> run, does |-> request.does, last |-> last]
NoPart == [part |-> "none", run |-> 0, source |-> NoSources, result |-> "none"]

-----------------------------------------------------------------------------
Init ==
  /\ pc = "idle" /\ request \in Requests /\ run = 0 /\ clock = "early"
  /\ toSend = 0 /\ want = "ready" /\ header = NoPart /\ after = "idle"
  /\ server = None /\ sources = NoSources /\ failed = NoSources /\ result = "none"
  /\ started = 0
  /\ startedFor = [g \in Servers |-> NoSources]
  /\ closed = [g \in Servers |-> FALSE]
  /\ requests = [g \in Servers |-> <<>>]
  /\ replies = [g \in Servers |-> <<>>]
  /\ phase = [g \in Servers |-> "none"]
  /\ stopped = [g \in Servers |-> FALSE]
  /\ holds = [g \in Servers |-> NoSources]
  /\ job = [g \in Servers |-> [source |-> NoSources, run |-> 0, does |-> "none"]]
  /\ child = [g \in Servers |-> "none"]
  /\ expired = [g \in Servers |-> FALSE]
  /\ timedOut = [g \in Servers |-> FALSE]
  /\ sigchld = [g \in Servers |-> FALSE]

-----------------------------------------------------------------------------
(* The program: GhdlWorkerTool and _WorkerServer. *)

\* run: an elaboration goes to a server unless one failed for its sources.
Run ==
  /\ pc = "idle" /\ run < MaxRuns
  /\ run' = run + 1
  /\ request' \in Requests
  /\ clock' = "early"
  /\ pc' = IF request'.op = "elaborate" /\ request'.source # failed THEN "serve" ELSE "once"
  /\ after' = "idle"
  /\ UNCHANGED <<toSend, want, header, server, sources, failed, result,
                 startVars, pipeVars, serverVars>>

\* Mutant of Reuse: whatever sources the server has read.
ReuseAny ==
  /\ pc = "serve"
  /\ server # None
  /\ pc' = "send" /\ want' = "header" /\ toSend' = Size[request.source]
  /\ UNCHANGED <<request, run, clock, header, after, server, sources, failed, result,
                 startVars, pipeVars, serverVars>>

\* _serve with the server of an earlier run.
Reuse ==
  /\ pc = "serve"
  /\ server # None /\ sources = request.source
  /\ pc' = "send" /\ want' = "header" /\ toSend' = Size[request.source]
  /\ UNCHANGED <<request, run, clock, header, after, server, sources, failed, result,
                 startVars, pipeVars, serverVars>>

\* _serve with other sources: the old server goes first.
Renew ==
  /\ pc = "serve"
  /\ server = None \/ sources # request.source
  /\ pc' = IF server = None THEN "spawn" ELSE "close"
  /\ after' = "spawn"
  /\ UNCHANGED <<request, run, clock, toSend, want, header, server, sources, failed,
                 result, startVars, pipeVars, serverVars>>

\* _WorkerServer.__init__.
Spawn ==
  /\ pc = "spawn" /\ started < MaxServers
  /\ started' = started + 1
  /\ startedFor' = [startedFor EXCEPT ![started'] = request.source]
  /\ server' = started'
  /\ phase' = [phase EXCEPT ![started'] = "sources"]
  /\ pc' = "send" /\ want' = "ready" /\ toSend' = Size[request.source]
  /\ after' = "idle"
  /\ UNCHANGED <<request, run, clock, header, sources, failed, result, pipeVars,
                 stopped, holds, job, child, expired, timedOut, sigchld>>

\* Popen raised: both pipes are closed again and there is no server to close.
SpawnFails ==
  /\ pc = "spawn" /\ started < MaxServers
  /\ "spawn" \in Faults
  /\ started' = started + 1
  /\ startedFor' = [startedFor EXCEPT ![started'] = request.source]
  /\ phase' = [phase EXCEPT ![started'] = "dead"]
  /\ closed' = [closed EXCEPT ![started'] = TRUE]
  /\ failed' = request.source
  /\ pc' = "once" /\ after' = "idle"
  /\ UNCHANGED <<request, run, clock, toSend, want, header, server, sources, result,
                 requests, replies, stopped, holds, job, child, expired, timedOut, sigchld>>

\* Mutant of Send: one piece too many.
SendOneMore ==
  /\ pc = "send"
  /\ ServerEndOpen(server)
  /\ Len(requests[server]) < Capacity
  /\ requests' = [requests EXCEPT ![server] = Append(@, Piece(toSend = 1))]
  /\ toSend' = toSend - 1
  /\ pc' = IF toSend = 0 THEN "read" ELSE "send"
  /\ UNCHANGED <<request, run, clock, want, header, after, server, sources, failed, result,
                 startVars, closed, replies, serverVars>>

\* _send: os.write blocks while the pipe is full.  It has no deadline.
Send ==
  /\ pc = "send"
  /\ ServerEndOpen(server)
  /\ Len(requests[server]) < Capacity
  /\ requests' = [requests EXCEPT ![server] = Append(@, Piece(toSend = 1))]
  /\ toSend' = toSend - 1
  /\ pc' = IF toSend = 1 THEN "read" ELSE "send"
  /\ UNCHANGED <<request, run, clock, want, header, after, server, sources, failed, result,
                 startVars, closed, replies, serverVars>>

\* Mutant of GiveUp: the failure is not remembered.
GiveUpForgetting ==
  /\ pc' = "close" /\ after' = "once"
  /\ UNCHANGED <<request, run, clock, toSend, want, header, server, sources, failed, result,
                 startVars, pipeVars, serverVars>>

\* The except clause of run: give the server up, and remember for which sources.
GiveUp ==
  /\ failed' = request.source
  /\ pc' = "close" /\ after' = "once"
  /\ UNCHANGED <<request, run, clock, toSend, want, header, server, sources, result,
                 startVars, pipeVars, serverVars>>

SendBreaks == pc = "send" /\ ~ServerEndOpen(server) /\ GiveUp

\* _read_more sees the end of the pipe only after what is in it.
ReadBreaks ==
  /\ pc = "read"
  /\ replies[server] = <<>> /\ ~ServerEndOpen(server)
  /\ GiveUp

\* Mutant of ReadTimesOut: loading gets no deadline.
ReadTimesOutLoaded ==
  /\ pc = "read"
  /\ replies[server] = <<>>
  /\ want # "ready" /\ clock = "over"
  /\ GiveUp

\* poll: nothing to read by the deadline, which has a grace for requests.
ReadTimesOut ==
  /\ pc = "read"
  /\ replies[server] = <<>>
  /\ IF want = "ready" THEN clock # "early" ELSE clock = "over"
  /\ GiveUp

NextPart(p) == CASE p = "header" -> "stdout" [] p = "stdout" -> "stderr"

\* load's _read_line, after which the request is sent.
ReadReady ==
  /\ pc = "read" /\ want = "ready"
  /\ replies[server] # <<>>
  /\ replies' = [replies EXCEPT ![server] = Tail(@)]
  /\ sources' = request.source
  /\ pc' = "send" /\ want' = "header" /\ toSend' = Size[request.source]
  /\ UNCHANGED <<request, run, clock, header, after, server, failed, result,
                 startVars, closed, requests, serverVars>>

\* Mutant of ReadPart: raise for a timeout as soon as the header tells of it.
ReadPartRaising ==
  /\ pc = "read" /\ want \in {"header", "stdout"}
  /\ replies[server] # <<>>
  /\ replies' = [replies EXCEPT ![server] = Tail(@)]
  /\ header' = IF want = "header" THEN Head(replies[server]) ELSE header
  /\ IF header'.result = "timeout"
     THEN pc' = "idle" /\ result' = "timeout" /\ UNCHANGED want
     ELSE want' = NextPart(want) /\ UNCHANGED <<pc, result>>
  /\ UNCHANGED <<request, run, clock, toSend, after, server, sources, failed,
                 startVars, closed, requests, serverVars>>

\* request's reads: the header, then as much of each output as it says.
ReadPart ==
  /\ pc = "read" /\ want \in {"header", "stdout"}
  /\ replies[server] # <<>>
  /\ replies' = [replies EXCEPT ![server] = Tail(@)]
  /\ header' = IF want = "header" THEN Head(replies[server]) ELSE header
  /\ want' = NextPart(want)
  /\ UNCHANGED <<pc, request, run, clock, toSend, after, server, sources, failed, result,
                 startVars, closed, requests, serverVars>>

\* Only with the whole answer read does request raise for a timeout, or for
\* output it cannot decode.  Either leaves run, and the server stays.
ReadLast ==
  /\ pc = "read" /\ want = "stderr"
  /\ replies[server] # <<>>
  /\ replies' = [replies EXCEPT ![server] = Tail(@)]
  /\ result' = header.result
  /\ pc' = "idle"
  /\ UNCHANGED <<request, run, clock, toSend, want, header, after, server, sources, failed,
                 startVars, closed, requests, serverVars>>

\* run_once, with a timeout of its own.
RunOnce ==
  /\ pc = "once"
  /\ \E r \in Promise!OnceResults(request) :
       /\ r = "timeout" => clock # "early"
       /\ result' = r
  /\ pc' = "idle"
  /\ UNCHANGED <<request, run, clock, toSend, want, header, after, server, sources, failed,
                 startVars, pipeVars, serverVars>>

\* _stop_server, in its three steps.
CloseDescriptors ==
  /\ pc = "close"
  /\ closed' = [closed EXCEPT ![server] = TRUE]
  /\ pc' = "killpg"
  /\ UNCHANGED <<request, run, clock, toSend, want, header, after, server, sources, failed,
                 result, startVars, requests, replies, serverVars>>

\* Mutant of KillGroup: kill the server alone.
KillServerOnly ==
  /\ pc = "killpg"
  /\ phase' = [phase EXCEPT ![server] = "dead"]
  /\ pc' = "wait"
  /\ UNCHANGED <<request, run, clock, toSend, want, header, after, server, sources, failed,
                 result, startVars, pipeVars, stopped, holds, job, child, expired, timedOut,
                 sigchld>>

\* The group: the server, and a child it leaves behind.
KillGroup ==
  /\ pc = "killpg"
  /\ phase' = [phase EXCEPT ![server] = "dead"]
  /\ child' = [child EXCEPT ![server] = "none"]
  /\ pc' = "wait"
  /\ UNCHANGED <<request, run, clock, toSend, want, header, after, server, sources, failed,
                 result, startVars, pipeVars, stopped, holds, job, expired, timedOut, sigchld>>

WaitForServer ==
  /\ pc = "wait"
  /\ ~Alive(server)
  /\ server' = None
  /\ pc' = after
  /\ UNCHANGED <<request, run, clock, toSend, want, header, after, sources, failed,
                 result, startVars, pipeVars, serverVars>>

\* Mutant of Exit: no finalizer.
ExitAtOnce ==
  /\ \/ pc = "idle"
     \/ "interrupt" \in Faults /\ pc \in {"send", "read", "once"}
  /\ pc' = "exited"
  /\ after' = "exited"
  /\ UNCHANGED <<request, run, clock, toSend, want, header, server, sources, failed,
                 result, startVars, pipeVars, serverVars>>

\* The program ends, with its finalizers: normally, or by an interrupt in a run.
Exit ==
  /\ \/ pc = "idle"
     \/ "interrupt" \in Faults /\ pc \in {"send", "read", "once"}
  /\ pc' = IF server = None THEN "exited" ELSE "close"
  /\ after' = "exited"
  /\ UNCHANGED <<request, run, clock, toSend, want, header, server, sources, failed,
                 result, startVars, pipeVars, serverVars>>

-----------------------------------------------------------------------------
(* The server: worker._serve. *)

Runs(g) == Alive(g) /\ ~stopped[g]

\* One piece of a line; a whole line is acted on.
ReadLine(g) ==
  /\ Runs(g) /\ phase[g] \in {"sources", "requests"}
  /\ requests[g] # <<>>
  /\ requests' = [requests EXCEPT ![g] = Tail(@)]
  /\ LET piece == Head(requests[g]) IN
       IF ~piece.last THEN UNCHANGED <<phase, holds, job>>
       ELSE IF phase[g] = "sources"
       THEN /\ holds' = [holds EXCEPT ![g] = piece.source]
            /\ phase' = [phase EXCEPT ![g] = "load"]
            /\ UNCHANGED job
       ELSE /\ job' = [job EXCEPT ![g] = [source |-> piece.source, run |-> piece.run,
                                          does |-> piece.does]]
            /\ phase' = [phase EXCEPT ![g] = "fork"]
            /\ UNCHANGED holds
  /\ UNCHANGED <<programVars, startVars, closed, replies, stopped, child, expired,
                 timedOut, sigchld>>

\* Mutant of SeeEnd: the server inherits the program's end, so the pipe stays open.
SeeEndOfOwnPipe(g) ==
  /\ Runs(g) /\ phase[g] \in {"sources", "requests"}
  /\ requests[g] = <<>> /\ closed[g] /\ ~ServerEndOpen(g)
  /\ phase' = [phase EXCEPT ![g] = "dead"]
  /\ UNCHANGED <<programVars, startVars, pipeVars, stopped, holds, job, child, expired,
                 timedOut, sigchld>>

\* The end of the pipe ends the server, in the middle of a line with an error.
SeeEnd(g) ==
  /\ Runs(g) /\ phase[g] \in {"sources", "requests"}
  /\ requests[g] = <<>> /\ closed[g]
  /\ phase' = [phase EXCEPT ![g] = "dead"]
  /\ UNCHANGED <<programVars, startVars, pipeVars, stopped, holds, job, child, expired,
                 timedOut, sigchld>>

\* _load_quietly: GHDL reads the sources, or the server dies of them, or never ends.
Load(g) ==
  /\ Runs(g) /\ phase[g] = "load"
  /\ Loads[holds[g]] # "hangs"
  /\ phase' = [phase EXCEPT ![g] = IF Loads[holds[g]] = "loads" THEN "ready" ELSE "dead"]
  /\ UNCHANGED <<programVars, startVars, pipeVars, stopped, holds, job, child, expired,
                 timedOut, sigchld>>

\* What the server writes in each phase, and the phase that follows.
PhaseAfter(p) ==
  CASE p = "ready" -> "requests" [] p = "header" -> "stdout"
    [] p = "stdout" -> "stderr" [] p = "stderr" -> "requests"

Part(g) ==
  [part |-> phase[g],
   run |-> IF phase[g] = "ready" THEN 0 ELSE job[g].run,
   source |-> holds[g],
   result |-> CASE phase[g] = "ready" -> "none"
                [] phase[g] # "ready" /\ timedOut[g] -> "timeout"
                [] OTHER -> job[g].does]

\* Writing to a program that is gone kills the server.
Write(g) ==
  /\ Runs(g) /\ phase[g] \in {"ready", "header", "stdout", "stderr"}
  /\ IF closed[g]
     THEN /\ phase' = [phase EXCEPT ![g] = "dead"]
          /\ UNCHANGED replies
     ELSE /\ phase' = [phase EXCEPT ![g] = PhaseAfter(phase[g])]
          /\ replies' = [replies EXCEPT ![g] = Append(@, Part(g))]
  /\ UNCHANGED <<programVars, startVars, closed, requests, stopped, holds, job, child,
                 expired, timedOut, sigchld>>

Fork(g) ==
  /\ Runs(g) /\ phase[g] = "fork"
  /\ child' = [child EXCEPT ![g] = "forked"]
  /\ expired' = [expired EXCEPT ![g] = FALSE]
  /\ phase' = [phase EXCEPT ![g] = "poll"]
  /\ UNCHANGED <<programVars, startVars, pipeVars, stopped, holds, job, timedOut, sigchld>>

\* _wait_for: waitpid with WNOHANG.
Poll(g) ==
  /\ Runs(g) /\ phase[g] = "poll"
  /\ IF child[g] = "zombie"
     THEN /\ child' = [child EXCEPT ![g] = "none"]
          /\ timedOut' = [timedOut EXCEPT ![g] = FALSE]
          /\ phase' = [phase EXCEPT ![g] = "header"]
     ELSE /\ phase' = [phase EXCEPT ![g] = "remaining"]
          /\ UNCHANGED <<child, timedOut>>
  /\ UNCHANGED <<programVars, startVars, pipeVars, stopped, holds, job, expired, sigchld>>

\* Mutant of KillChild: signalled, but not reaped.
KillChildOnly(g) ==
  /\ Runs(g) /\ phase[g] = "remaining"
  /\ expired[g]
  /\ child' = [child EXCEPT ![g] = "zombie"]
  /\ sigchld' = [sigchld EXCEPT ![g] = TRUE]
  /\ timedOut' = [timedOut EXCEPT ![g] = TRUE]
  /\ phase' = [phase EXCEPT ![g] = "header"]
  /\ UNCHANGED <<programVars, startVars, pipeVars, stopped, holds, job, expired>>

\* No time left: SIGKILL, then waitpid reaps.  Its SIGCHLD stays pending.
KillChild(g) ==
  /\ Runs(g) /\ phase[g] = "remaining"
  /\ expired[g]
  /\ child' = [child EXCEPT ![g] = "none"]
  /\ sigchld' = [sigchld EXCEPT ![g] = TRUE]
  /\ timedOut' = [timedOut EXCEPT ![g] = TRUE]
  /\ phase' = [phase EXCEPT ![g] = "header"]
  /\ UNCHANGED <<programVars, startVars, pipeVars, stopped, holds, job, expired>>

TimeLeft(g) ==
  /\ Runs(g) /\ phase[g] = "remaining"
  /\ ~expired[g]
  /\ phase' = [phase EXCEPT ![g] = "sigwait"]
  /\ UNCHANGED <<programVars, startVars, pipeVars, stopped, holds, job, child, expired,
                 timedOut, sigchld>>

\* sigtimedwait takes a pending SIGCHLD, also one left from an earlier child.
Wake(g) ==
  /\ Runs(g) /\ phase[g] = "sigwait"
  /\ sigchld[g] \/ expired[g]
  /\ sigchld' = [sigchld EXCEPT ![g] = FALSE]
  /\ phase' = [phase EXCEPT ![g] = "poll"]
  /\ UNCHANGED <<programVars, startVars, pipeVars, stopped, holds, job, child, expired,
                 timedOut>>

-----------------------------------------------------------------------------
(* The child, time and faults. *)

ChildCloses(g) ==
  /\ child[g] = "forked"
  /\ child' = [child EXCEPT ![g] = "running"]
  /\ UNCHANGED <<programVars, startVars, pipeVars, phase, stopped, holds, job, expired,
                 timedOut, sigchld>>

\* Mutant of ChildEnds: SIGCHLD is not blocked, so it is lost outside sigtimedwait.
ChildEndsUnblocked(g) ==
  /\ child[g] = "running" /\ job[g].does # "hangs"
  /\ child' = [child EXCEPT ![g] = IF Alive(g) THEN "zombie" ELSE "none"]
  /\ sigchld' = [sigchld EXCEPT ![g] = phase[g] = "sigwait"]
  /\ UNCHANGED <<programVars, startVars, pipeVars, phase, stopped, holds, job, expired,
                 timedOut>>

\* Without its server, init reaps it.
ChildEnds(g) ==
  /\ child[g] = "running" /\ job[g].does # "hangs"
  /\ child' = [child EXCEPT ![g] = IF Alive(g) THEN "zombie" ELSE "none"]
  /\ sigchld' = [sigchld EXCEPT ![g] = @ \/ Alive(g)]
  /\ UNCHANGED <<programVars, startVars, pipeVars, phase, stopped, holds, job, expired,
                 timedOut>>

Tick ==
  /\ pc \in {"send", "read", "once"}
  /\ clock # "over"
  /\ clock' = IF clock = "early" THEN "late" ELSE "over"
  /\ UNCHANGED <<pc, request, run, toSend, want, header, after, server, sources, failed,
                 result, startVars, pipeVars, serverVars>>

\* The server counts from when it got the request, so never ends before the program.
Expire(g) ==
  /\ phase[g] \in {"poll", "remaining", "sigwait"}
  /\ ~expired[g]
  /\ clock # "early" \/ pc \notin {"send", "read"}
  /\ expired' = [expired EXCEPT ![g] = TRUE]
  /\ UNCHANGED <<programVars, startVars, pipeVars, phase, stopped, holds, job, child,
                 timedOut, sigchld>>

\* Out of memory, a kill from outside, or a fork that fails.
Crash(g) ==
  /\ "crash" \in Faults
  /\ Alive(g)
  /\ phase' = [phase EXCEPT ![g] = "dead"]
  /\ child' = [child EXCEPT ![g] = IF @ = "zombie" THEN "none" ELSE @]
  /\ UNCHANGED <<programVars, startVars, pipeVars, stopped, holds, job, expired, timedOut,
                 sigchld>>

Stop(g) ==
  /\ "stop" \in Faults
  /\ Runs(g)
  /\ stopped' = [stopped EXCEPT ![g] = TRUE]
  /\ UNCHANGED <<programVars, startVars, pipeVars, phase, holds, job, child, expired,
                 timedOut, sigchld>>

\* SIGKILL: no finalizers run, but its ends of the pipes are closed.
Kill ==
  /\ "kill" \in Faults
  /\ pc \notin {"exited", "killed"}
  /\ pc' = "killed"
  /\ closed' = [g \in Servers |-> closed[g] \/ g <= started]
  /\ UNCHANGED <<request, run, clock, toSend, want, header, after, server, sources, failed,
                 result, startVars, requests, replies, serverVars>>

-----------------------------------------------------------------------------
ProgramSteps ==
  \/ Reuse \/ Renew \/ Spawn \/ SpawnFails
  \/ Send \/ SendBreaks \/ ReadBreaks \/ ReadTimesOut
  \/ ReadReady \/ ReadPart \/ ReadLast \/ RunOnce
  \/ CloseDescriptors \/ KillGroup \/ WaitForServer

ServerSteps(g) ==
  \/ ReadLine(g) \/ SeeEnd(g) \/ Load(g) \/ Write(g) \/ Fork(g)
  \/ Poll(g) \/ KillChild(g) \/ TimeLeft(g) \/ Wake(g)

ChildSteps(g) == ChildCloses(g) \/ ChildEnds(g)

\* The program has ended.
Ended == pc \in {"exited", "killed"} /\ UNCHANGED vars

Next ==
  \/ Run \/ ProgramSteps \/ Exit \/ Tick \/ Kill \/ Ended
  \/ \E g \in Servers :
       ServerSteps(g) \/ ChildSteps(g) \/ Expire(g) \/ Crash(g) \/ Stop(g)

Spec == Init /\ [][Next]_vars

\* Every process that can take a step does, and time passes.
Fairness ==
  /\ WF_vars(ProgramSteps)
  /\ WF_vars(Tick)
  /\ \A g \in Servers : /\ WF_vars(ServerSteps(g))
                        /\ WF_vars(ChildSteps(g))
                        /\ WF_vars(Expire(g))

FairSpec == Spec /\ Fairness
-----------------------------------------------------------------------------
Left(g) == ~Alive(g) /\ child[g] = "none"    \* Nothing is left of server g.

PartType == [part : {"none", "ready", "header", "stdout", "stderr"}, run : 0..MaxRuns,
             source : Sources \union {NoSources},
             result : {"none", "answers", "crashes", "garbles", "hangs", "timeout"}]
PieceType == [source : Sources, run : 0..MaxRuns, does : Behaviours, last : BOOLEAN]
JobType == [source : Sources \union {NoSources}, run : 0..MaxRuns,
            does : Behaviours \union {"none"}]
Phases == {"none", "sources", "load", "ready", "requests", "fork", "poll", "remaining", "sigwait",
           "header", "stdout", "stderr", "dead"}

\* The type of every variable, and the bounds of the pipe and the counters.
TypeOK ==
  /\ pc \in {"idle", "serve", "spawn", "send", "read", "once", "close", "killpg", "wait",
             "exited", "killed"}
  /\ request \in Requests
  /\ run \in 0..MaxRuns
  /\ clock \in {"early", "late", "over"}
  /\ toSend \in Nat
  /\ want \in {"ready", "header", "stdout", "stderr"}
  /\ header \in PartType
  /\ after \in {"idle", "spawn", "once", "exited"}
  /\ server \in 0..started
  /\ sources \in Sources \union {NoSources}
  /\ failed \in Sources \union {NoSources}
  /\ result \in {"none", "answers", "crashes", "garbles", "hangs", "timeout"}
  /\ started \in 0..MaxServers
  /\ startedFor \in [Servers -> Sources \union {NoSources}]
  /\ closed \in [Servers -> BOOLEAN]
  /\ requests \in [Servers -> Seq(PieceType)]
  /\ \A g \in Servers : Len(requests[g]) <= Capacity
  /\ replies \in [Servers -> Seq(PartType)]
  /\ phase \in [Servers -> Phases]
  /\ stopped \in [Servers -> BOOLEAN]
  /\ holds \in [Servers -> Sources \union {NoSources}]
  /\ job \in [Servers -> JobType]
  /\ child \in [Servers -> {"none", "forked", "running", "zombie"}]
  /\ expired \in [Servers -> BOOLEAN]
  /\ timedOut \in [Servers -> BOOLEAN]
  /\ sigchld \in [Servers -> BOOLEAN]

\* What the program is about to read is the part it wants, of the answer to this
\* very run, from a server that read this run's sources - also after a run that
\* timed out, could not be decoded or fell back.
AnswersLineUp ==
  pc = "read" /\ replies[server] # <<>> =>
    LET part == Head(replies[server])
    IN  /\ part.part = want
        /\ part.source = request.source
        /\ want # "ready" => part.run = run

\* At most one server, with its child, exists at any time: the one before is
\* gone, child included, before the next starts.
OneServerAtATime ==
  \A g, h \in Servers : ~Left(g) /\ ~Left(h) => g = h
\* "It has ended and been reaped on return" (worker.py, _wait_for): when run has
\* returned or raised, a timeout above all, no child of any server still runs,
\* nor while a process of its own gives the answer instead.
ChildReapedOnReturn == pc \in {"idle", "once"} => \A g \in Servers : child[g] = "none"

\* _wait_for cannot sleep through the end of its child: the signal is pending
\* whenever there is a zombie to reap, although one from an earlier child may
\* have been taken instead.
NoLostWakeup ==
  \A g \in Servers : phase[g] = "sigwait" /\ child[g] = "zombie" => sigchld[g]

\* A server is never tried again for the sources the last one failed or served:
\* the program starts one only when the sources change.
ServersDiffer ==
  \A g \in Servers : 1 < g /\ g <= started =>
    startedFor[g] # startedFor[g - 1]

\* A program that ends by itself, also by an interrupt in the middle of a request,
\* leaves neither a server nor a child.
NothingLeftOnExit == pc = "exited" => \A g \in Servers : Left(g)

\* Each answer is one that a process of its own would have given, and a timeout
\* is raised only after its time.
GivesOnceAnswers == Promise!PromiseSpec

\* "Where there can be no server, or whatever stops it, a process of its own gives
\* the answer" (run): every run returns, whatever happens to the servers.
EveryRunReturns == Promise!Returns

\* "A killed program leaves nothing behind for longer than a request's timeout"
\* (worker.py, _serve).
KilledLeavesNothing == pc = "killed" ~> \A g \in Servers : Left(g)

\* The same unless a server was stopped, which only a signal to it can end.
KilledLeavesNoRunningServer ==
  pc = "killed" ~> \A g \in Servers : Left(g) \/ stopped[g]
=============================================================================

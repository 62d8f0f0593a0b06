------------------------ MODULE WorkerServer_proofs ------------------------
(***************************************************************************)
(* What holds of the GHDL worker server and its program (WorkerServer) for *)
(* every set of sources, every length of their lines and capacity of the   *)
(* pipe, every fault, and any number of runs and servers: the safety       *)
(* properties of that module, and that it implements ToolPromise.          *)
(*                                                                         *)
(* The inductive invariant Inv is built up in four layers, each inductive  *)
(* with the ones before it:                                                *)
(*   TypeInv    types, and that there is a server to talk to;              *)
(*   LivesInv   which processes are alive, and which signal is pending;    *)
(*   SourcesInv the sources the last server was started for;               *)
(*   TalkInv    what is in the pipes, and which part of an answer is due.  *)
(***************************************************************************)
EXTENDS WorkerServer, TLAPS

USE ServerAssumption DEF Servers, None

-----------------------------------------------------------------------------
(* Sequences, and the parts of a message. *)

\* What is read off a pipe was in it, and leaves the rest.
LEMMA TailOfPipe ==
  ASSUME NEW S, NEW q \in Seq(S), q # <<>>
  PROVE  /\ Head(q) \in S /\ Head(q) = q[1]
         /\ Tail(q) \in Seq(S) /\ Len(Tail(q)) = Len(q) - 1
         /\ Len(q) \in Nat \ {0}
         /\ \A i \in 1..Len(Tail(q)) : Tail(q)[i] = q[i + 1]
OBVIOUS

\* A pipe with nothing left in it is empty.
LEMMA EmptyPipe ==
  ASSUME NEW S, NEW q \in Seq(S)
  PROVE  q = <<>> <=> Len(q) = 0
OBVIOUS

\* What is written to a pipe comes last.
LEMMA AppendToPipe ==
  ASSUME NEW S, NEW q \in Seq(S), NEW e \in S
  PROVE  /\ Append(q, e) \in Seq(S) /\ Len(Append(q, e)) = Len(q) + 1
         /\ Append(q, e) # <<>> /\ Append(q, e)[Len(q) + 1] = e
         /\ \A i \in 1..Len(q) : Append(q, e)[i] = q[i]
BY SMTT(30)

\* The same of the pipe to a server ...
LEMMA PieceRead ==
  ASSUME TypeOK, NEW g \in Servers, requests[g] # <<>>
  PROVE  /\ Head(requests[g]) \in PieceType /\ Head(requests[g]) = requests[g][1]
         /\ Tail(requests[g]) \in Seq(PieceType)
         /\ Len(requests[g]) \in Nat \ {0}
         /\ Len(Tail(requests[g])) = Len(requests[g]) - 1
         /\ Len(Tail(requests[g])) <= Capacity
         /\ \A i \in 1..Len(Tail(requests[g])) : Tail(requests[g])[i] = requests[g][i + 1]
<1>1. requests[g] \in Seq(PieceType) /\ Len(requests[g]) <= Capacity
  BY DEF TypeOK
<1> QED
  BY <1>1, TailOfPipe

\* A piece of the line that _send writes keeps the type of the pipe.
LEMMA PieceWritten ==
  ASSUME TypeOK, NEW g \in Servers, Len(requests[g]) < Capacity, NEW last \in BOOLEAN
  PROVE  /\ Append(requests[g], Piece(last)) \in Seq(PieceType)
         /\ Len(Append(requests[g], Piece(last))) = Len(requests[g]) + 1
         /\ Len(Append(requests[g], Piece(last))) <= Capacity
         /\ Append(requests[g], Piece(last)) # <<>>
         /\ Append(requests[g], Piece(last))[Len(requests[g]) + 1] = Piece(last)
         /\ \A i \in 1..Len(requests[g]) : Append(requests[g], Piece(last))[i] = requests[g][i]
<1>1. requests[g] \in Seq(PieceType) /\ Len(requests[g]) \in Nat
  BY DEF TypeOK
<1>2. Piece(last) \in PieceType
  BY DEF TypeOK, Piece, PieceType, Requests
<1> QED
  BY <1>1, <1>2, AppendToPipe

\* ... and of the pipe from it.
LEMMA PartRead ==
  ASSUME TypeOK, NEW g \in Servers, replies[g] # <<>>
  PROVE  /\ Head(replies[g]) \in PartType /\ Head(replies[g]) = replies[g][1]
         /\ Tail(replies[g]) \in Seq(PartType)
         /\ Len(replies[g]) \in Nat \ {0}
         /\ Len(Tail(replies[g])) = Len(replies[g]) - 1
         /\ \A i \in 1..Len(Tail(replies[g])) : Tail(replies[g])[i] = replies[g][i + 1]
<1>1. replies[g] \in Seq(PartType)
  BY DEF TypeOK
<1> QED
  BY <1>1, TailOfPipe

\* A line has at least one piece.
LEMMA LineSize ==
  ASSUME TypeOK
  PROVE  Size[request.source] \in Nat \ {0}
BY DEF TypeOK, Requests

\* What worker._serve writes in each phase: the part of that phase, of the request it
\* works on, with a timeout if _wait_for returned one.
LEMMA PartHasType ==
  ASSUME TypeOK, NEW g \in Servers, phase[g] \in {"ready", "header", "stdout", "stderr"}
  PROVE  /\ Part(g) \in PartType
         /\ Part(g).part = phase[g] /\ Part(g).source = holds[g]
         /\ phase[g] # "ready" => Part(g).run = job[g].run
         /\ phase[g] # "ready" => Part(g).result = IF timedOut[g] THEN "timeout" ELSE job[g].does
<1>1. /\ phase[g] = "ready" => Part(g).run = 0 /\ Part(g).result = "none"
      /\ phase[g] # "ready" => Part(g).run = job[g].run
      /\ phase[g] # "ready" => Part(g).result = IF timedOut[g] THEN "timeout" ELSE job[g].does
      /\ Part(g).part = phase[g] /\ Part(g).source = holds[g]
  <2>1. timedOut[g] \in BOOLEAN
    BY DEF TypeOK
  <2> QED
    BY <2>1 DEF Part
<1>2. Part(g) = [part |-> Part(g).part, run |-> Part(g).run, source |-> Part(g).source,
                 result |-> Part(g).result]
  BY DEF Part
<1>3. Part(g).run \in 0..MaxRuns
  BY <1>1 DEF TypeOK, JobType
<1>4. Part(g).result \in {"none", "answers", "crashes", "garbles", "hangs", "timeout"}
  BY <1>1 DEF TypeOK, JobType
<1> QED
  BY <1>1, <1>2, <1>3, <1>4 DEF TypeOK, PartType

\* Writing it puts it last in the pipe to the program.
LEMMA PartWritten ==
  ASSUME TypeOK, NEW g \in Servers, phase[g] \in {"ready", "header", "stdout", "stderr"}
  PROVE  /\ Append(replies[g], Part(g)) \in Seq(PartType)
         /\ Len(replies[g]) \in Nat
         /\ Len(Append(replies[g], Part(g))) = Len(replies[g]) + 1
         /\ Append(replies[g], Part(g))[Len(replies[g]) + 1] = Part(g)
         /\ \A i \in 1..Len(replies[g]) : Append(replies[g], Part(g))[i] = replies[g][i]
<1>1. replies[g] \in Seq(PartType) /\ Len(replies[g]) \in Nat
  BY DEF TypeOK
<1>2. Part(g) \in PartType
  BY PartHasType
<1> QED
  BY <1>1, <1>2, AppendToPipe

\* The parts of an answer are written in their order, ...
LEMMA PhaseAfterType ==
  ASSUME NEW p \in {"ready", "header", "stdout", "stderr"}
  PROVE  /\ p \in {"ready", "stderr"} => PhaseAfter(p) = "requests"
         /\ p = "header" => PhaseAfter(p) = "stdout"
         /\ p = "stdout" => PhaseAfter(p) = "stderr"
BY DEF PhaseAfter

\* ... and read in it.
LEMMA NextPartType ==
  ASSUME NEW p \in {"header", "stdout"}
  PROVE  NextPart(p) = IF p = "header" THEN "stdout" ELSE "stderr"
BY DEF NextPart

\* run_once answers, fails or times out; it never returns "hangs".
LEMMA OnceResultTypes ==
  ASSUME NEW r \in Requests
  PROVE  Promise!OnceResults(r) \subseteq {"answers", "crashes", "garbles", "timeout"}
<1>1. CASE r.op = "scan"
  BY <1>1 DEF Promise!OnceResults
<1>2. CASE r.op # "scan" /\ Loads[r.source] = "hangs"
  BY <1>2 DEF Promise!OnceResults
<1>3. CASE r.op # "scan" /\ Loads[r.source] = "dies"
  BY <1>3 DEF Promise!OnceResults
<1>4. CASE r.op # "scan" /\ Loads[r.source] = "loads"
  BY <1>4 DEF Promise!OnceResults, Requests
<1> QED
  BY <1>1, <1>2, <1>3, <1>4 DEF Requests

-----------------------------------------------------------------------------
(* Types. *)

TalkPcs == {"send", "read"}                  \* In a request to the server.
StopPcs == {"close", "killpg", "wait"}       \* In _stop_server.

\* What keeps the types: a piece is only written while one is left, and there is a
\* server to write to, to read from and to stop.
TypeInv ==
  /\ TypeOK
  /\ pc = "send" => toSend > 0
  /\ pc \in TalkPcs \union StopPcs => server # None

\* The types hold before the first run, ...
LEMMA InitTypes == Init => TypeInv
BY DEF Init, TypeInv, TypeOK, Requests, PartType, NoPart, JobType, Phases, TalkPcs, StopPcs

\* ... each step of the program keeps them, ...
LEMMA ProgramKeepsTypes ==
  ASSUME TypeInv, Run \/ ProgramSteps \/ Exit \/ Tick \/ Kill
  PROVE  TypeInv'
<1>a. TypeOK /\ Size[request.source] \in Nat \ {0} /\ request.source \in Sources
  BY LineSize DEF TypeInv, TypeOK, Requests
<1>b. pc \in TalkPcs \union StopPcs => server \in Servers
  BY DEF TypeInv, TypeOK
<1>c. ASSUME server \in Servers, replies[server] # <<>>
      PROVE  Head(replies[server]) \in PartType /\ Tail(replies[server]) \in Seq(PartType)
  BY <1>a, <1>c, PartRead
<1> USE DEF TypeInv, TypeOK, TalkPcs, StopPcs
<1>1. CASE Run
  BY <1>1 DEF Run, startVars, pipeVars, serverVars
<1>2. CASE Reuse
  BY <1>2, <1>a DEF Reuse, startVars, pipeVars, serverVars
<1>3. CASE Renew
  BY <1>3 DEF Renew, startVars, pipeVars, serverVars
<1>4. CASE Spawn
  <2>1. started' \in 0..MaxServers /\ server' \in 0..started' /\ started' \in Servers
        /\ server' # None
    BY <1>4, SMTT(30) DEF Spawn
  <2>2. startedFor' \in [Servers -> Sources \union {NoSources}]
    BY <1>4, <1>a, <2>1 DEF Spawn
  <2>3. toSend' \in Nat /\ toSend' > 0 /\ phase' \in [Servers -> Phases]
    BY <1>4, <1>a DEF Spawn, Phases
  <2> QED
    BY <1>4, <2>1, <2>2, <2>3 DEF Spawn, pipeVars
<1>5. CASE SpawnFails
  <2>1. phase' \in [Servers -> Phases]
    BY <1>5 DEF SpawnFails, Phases
  <2> QED
    BY <1>5, <1>a, <2>1, SMTT(30) DEF SpawnFails
<1>6. CASE Send
  <2>1. /\ Append(requests[server], Piece(toSend = 1)) \in Seq(PieceType)
        /\ Len(Append(requests[server], Piece(toSend = 1))) <= Capacity
    BY <1>6, <1>a, <1>b, PieceWritten DEF Send
  <2>2. requests' \in [Servers -> Seq(PieceType)]
    BY <1>6, <2>1 DEF Send
  <2>3. \A h \in Servers : Len(requests'[h]) <= Capacity
    BY <1>6, <2>1 DEF Send
  <2>4. toSend' \in Nat /\ (pc' = "send" => toSend' > 0)
    BY <1>6 DEF Send
  <2> QED
    BY <1>6, <2>2, <2>3, <2>4, SMTT(30) DEF Send, startVars, serverVars
<1>7. CASE SendBreaks \/ ReadBreaks \/ ReadTimesOut
  <2>1. GiveUp /\ pc \in TalkPcs
    BY <1>7 DEF SendBreaks, ReadBreaks, ReadTimesOut
  <2> QED
    BY <2>1, <1>a DEF GiveUp, startVars, pipeVars, serverVars
<1>8. CASE ReadReady
  <2>1. replies' \in [Servers -> Seq(PartType)]
    BY <1>8, <1>b, <1>c DEF ReadReady
  <2> QED
    BY <1>8, <1>a, <2>1, SMTT(30) DEF ReadReady, startVars, serverVars
<1>9. CASE ReadPart
  <2>1. replies' \in [Servers -> Seq(PartType)]
    BY <1>9, <1>b, <1>c DEF ReadPart
  <2>2. want' \in {"stdout", "stderr"}
    <3>1. want \in {"header", "stdout"} /\ want' = NextPart(want)
      BY <1>9 DEF ReadPart
    <3> QED
      BY <3>1, NextPartType
  <2>3. header' \in PartType
    BY <1>9, <1>b, <1>c DEF ReadPart
  <2> QED
    BY <1>9, <2>1, <2>2, <2>3 DEF ReadPart, startVars, serverVars
<1>10. CASE ReadLast
  <2>1. replies' \in [Servers -> Seq(PartType)]
    BY <1>10, <1>b, <1>c DEF ReadLast
  <2>2. result' \in {"none", "answers", "crashes", "garbles", "hangs", "timeout"}
    BY <1>10 DEF ReadLast, PartType
  <2> QED
    BY <1>10, <2>1, <2>2 DEF ReadLast, startVars, serverVars
<1>11. CASE RunOnce
  BY <1>11, OnceResultTypes DEF RunOnce, startVars, pipeVars, serverVars
<1>12. CASE CloseDescriptors
  BY <1>12 DEF CloseDescriptors, startVars, serverVars
<1>13. CASE KillGroup
  BY <1>13, ZenonT(40) DEF KillGroup, startVars, pipeVars, Phases
<1>14. CASE WaitForServer
  BY <1>14 DEF WaitForServer, startVars, pipeVars, serverVars
<1>15. CASE Exit
  BY <1>15 DEF Exit, startVars, pipeVars, serverVars
<1>16. CASE Tick
  BY <1>16 DEF Tick, startVars, pipeVars, serverVars
<1>17. CASE Kill
  BY <1>17 DEF Kill, startVars, serverVars
<1> QED
  BY <1>1, <1>2, <1>3, <1>4, <1>5, <1>6, <1>7, <1>8, <1>9, <1>10, <1>11, <1>12, <1>13,
     <1>14, <1>15, <1>16, <1>17
     DEF ProgramSteps

\* ... and each step of a server or its child, and what befalls them.
LEMMA ServersKeepTypes ==
  ASSUME TypeInv, NEW g \in Servers,
         ServerSteps(g) \/ ChildSteps(g) \/ Expire(g) \/ Crash(g) \/ Stop(g)
  PROVE  TypeInv'
<1>a. TypeOK
  BY DEF TypeInv
<1>b. UNCHANGED <<programVars, startVars, closed>>
  BY DEF ServerSteps, ChildSteps, ReadLine, SeeEnd, Load, Write, Fork, Poll, KillChild,
         TimeLeft, Wake, ChildCloses, ChildEnds, Expire, Crash, Stop, pipeVars
<1> SUFFICES /\ requests' \in [Servers -> Seq(PieceType)]
             /\ \A h \in Servers : Len(requests'[h]) <= Capacity
             /\ replies' \in [Servers -> Seq(PartType)]
             /\ phase' \in [Servers -> Phases]
             /\ stopped' \in [Servers -> BOOLEAN]
             /\ holds' \in [Servers -> Sources \union {NoSources}]
             /\ job' \in [Servers -> JobType]
             /\ child' \in [Servers -> {"none", "forked", "running", "zombie"}]
             /\ expired' \in [Servers -> BOOLEAN]
             /\ timedOut' \in [Servers -> BOOLEAN]
             /\ sigchld' \in [Servers -> BOOLEAN]
  BY <1>b DEF TypeInv, TypeOK, programVars, startVars
<1>1. CASE ReadLine(g)
  <2>1. /\ Head(requests[g]) \in PieceType /\ Tail(requests[g]) \in Seq(PieceType)
        /\ Len(Tail(requests[g])) <= Capacity
    BY <1>1, <1>a, PieceRead DEF ReadLine
  <2>2. requests' \in [Servers -> Seq(PieceType)]
    BY <1>1, <2>1 DEF ReadLine, TypeInv, TypeOK
  <2>3. \A h \in Servers : Len(requests'[h]) <= Capacity
    BY <1>1, <2>1 DEF ReadLine, TypeInv, TypeOK
  <2>4. phase' \in [Servers -> Phases]
    BY <1>1, SMTT(30) DEF ReadLine, Phases, TypeInv, TypeOK
  <2>5. holds' \in [Servers -> Sources \union {NoSources}]
    BY <1>1, <2>1 DEF ReadLine, PieceType, TypeInv, TypeOK
  <2>6. job' \in [Servers -> JobType]
    <3>1. [source |-> Head(requests[g]).source, run |-> Head(requests[g]).run,
           does |-> Head(requests[g]).does] \in JobType
      BY <2>1 DEF PieceType, JobType
    <3>2. job \in [Servers -> JobType]
      BY DEF TypeInv, TypeOK
    <3> QED
      BY <1>1, <3>1, <3>2 DEF ReadLine
  <2> QED
    BY <1>1, <2>2, <2>3, <2>4, <2>5, <2>6 DEF ReadLine, TypeInv, TypeOK
<1>2. CASE Write(g)
  <2>1. phase[g] \in {"ready", "header", "stdout", "stderr"}
    BY <1>2 DEF Write
  <2>2. PhaseAfter(phase[g]) \in Phases
    BY <2>1, PhaseAfterType DEF Phases
  <2>3. Append(replies[g], Part(g)) \in Seq(PartType)
    BY <1>a, <2>1, PartWritten
  <2>4. phase' \in [Servers -> Phases]
    BY <1>2, <2>2, SMTT(30) DEF Write, TypeInv, TypeOK, Phases
  <2>5. replies' \in [Servers -> Seq(PartType)]
    <3>1. replies \in [Servers -> Seq(PartType)]
      BY DEF TypeInv, TypeOK
    <3>2. UNCHANGED replies \/ replies' = [replies EXCEPT ![g] = Append(@, Part(g))]
      BY <1>2 DEF Write
    <3> QED
      BY <2>3, <3>1, <3>2
  <2> QED
    BY <1>2, <2>4, <2>5 DEF Write, TypeInv, TypeOK
<1>3. CASE SeeEnd(g) \/ Load(g)
  BY <1>3 DEF SeeEnd, Load, Phases, TypeInv, TypeOK, pipeVars
<1>4. CASE Fork(g)
  BY <1>4 DEF Fork, Phases, TypeInv, TypeOK, pipeVars
<1>5. CASE TimeLeft(g) \/ Wake(g)
  BY <1>5, ZenonT(40) DEF TimeLeft, Wake, Phases, TypeInv, TypeOK, pipeVars
<1>6. CASE Poll(g)
  BY <1>6 DEF Poll, Phases, TypeInv, TypeOK, pipeVars
<1>7. CASE KillChild(g)
  BY <1>7 DEF KillChild, Phases, TypeInv, TypeOK, pipeVars
<1>8. CASE ChildSteps(g)
  BY <1>8 DEF ChildSteps, ChildCloses, ChildEnds, Alive, TypeInv, TypeOK, pipeVars
<1>9. CASE Expire(g) \/ Crash(g) \/ Stop(g)
  BY <1>9, ZenonT(40) DEF Expire, Crash, Stop, Phases, TypeInv, TypeOK, pipeVars
<1> QED
  BY <1>1, <1>2, <1>3, <1>4, <1>5, <1>6, <1>7, <1>8, <1>9 DEF ServerSteps

\* The types, and a server to talk to, in every reachable state.
THEOREM TypeInvariant == Spec => []TypeInv
<1>1. TypeInv /\ [Next]_vars => TypeInv'
  <2>1. ASSUME TypeInv, UNCHANGED vars PROVE TypeInv'
    BY <2>1 DEF vars, TypeInv, TypeOK, TalkPcs, StopPcs
  <2> QED
    BY <2>1, ProgramKeepsTypes, ServersKeepTypes DEF Next, Ended
<1> QED
  BY <1>1, InitTypes, PTL DEF Spec

\* Every variable keeps its type, and the request pipe never holds more than its
\* capacity: _send waits while it is full.
THEOREM TypeCorrect == Spec => []TypeOK
<1>1. TypeInv => TypeOK
  BY DEF TypeInv
<1> QED
  BY <1>1, TypeInvariant, PTL
-----------------------------------------------------------------------------
(* Who is alive. *)

ServedPcs == {"idle", "serve", "once"}       \* Between requests to a server.

\* What the program's place in the code says of its own variables.
ProgramInv ==
  /\ server \in {None, started}
  /\ pc \in {"spawn", "exited"} => server = None
  /\ pc \in StopPcs => after \in {"spawn", "once", "exited"}
  /\ pc \in ServedPcs \union TalkPcs \union {"spawn"} => after # "exited"
  /\ pc \in {"serve", "spawn"} \union TalkPcs => request.op = "elaborate"
  /\ pc \in StopPcs /\ after = "spawn" => request.op = "elaborate"

\* Every server but the current one is gone, and those to come have left no trace.
Placed(g) ==
  /\ started < g => /\ phase[g] = "none" /\ child[g] = "none"
                    /\ ~closed[g] /\ requests[g] = <<>> /\ replies[g] = <<>>
  /\ g # server => Left(g)
  /\ g = server /\ pc \notin {"killpg", "wait", "killed"} => ~closed[g]
  /\ g = server /\ pc = "wait" => Left(g)
ServersInv == \A g \in Servers : Placed(g)

\* A server has a child only while it waits for one, and the signal of a child
\* that ended is pending, unless the server is about to look.
ChildInv ==
  \A g \in Servers :
    /\ child[g] = "zombie" => /\ Alive(g)
                              /\ job[g].does # "hangs"
                              /\ phase[g] = "poll" \/ sigchld[g]
    /\ Alive(g) /\ child[g] # "none" => phase[g] \in {"poll", "remaining", "sigwait"}

LivesInv == ProgramInv /\ ServersInv /\ ChildInv

\* Nothing is alive before the first run.
LEMMA InitLives == Init => LivesInv
BY DEF Init, LivesInv, ProgramInv, ServersInv, Placed, ChildInv, Left, Alive, TalkPcs, StopPcs,
       ServedPcs

\* A server shares nothing with the program but the pipes.
LEMMA ServerStepFrame ==
  ASSUME NEW g \in Servers,
         ServerSteps(g) \/ ChildSteps(g) \/ Expire(g) \/ Crash(g) \/ Stop(g)
  PROVE  /\ UNCHANGED <<pc, request, run, clock, toSend, want, header, after, server, sources,
                        failed, result, started, startedFor, closed>>
BY DEF ServerSteps, ChildSteps, ReadLine, SeeEnd, Load, Write, Fork, Poll, KillChild,
       TimeLeft, Wake, ChildCloses, ChildEnds, Expire, Crash, Stop, pipeVars, programVars,
       startVars

\* Every step keeps where the program stands in GhdlWorkerTool.run, ...
LEMMA ProgramInvStep ==
  ASSUME TypeInv, ProgramInv, [Next]_vars
  PROVE  ProgramInv'
<1> USE DEF ProgramInv, TalkPcs, StopPcs, ServedPcs
<1>a. server \in 0..started /\ started \in 0..MaxServers /\ request \in Requests
      /\ (pc \in TalkPcs \union StopPcs => server # None)
  BY DEF TypeInv, TypeOK
<1>1. CASE Run
  BY <1>1, <1>a DEF Run, startVars, Requests
<1>2. CASE Reuse \/ Renew
  BY <1>2, <1>a DEF Reuse, Renew, startVars
<1>3. CASE Spawn \/ SpawnFails
  BY <1>3, <1>a DEF Spawn, SpawnFails
<1>4. CASE Send
  BY <1>4, <1>a DEF Send, startVars
<1>5. CASE SendBreaks \/ ReadBreaks \/ ReadTimesOut
  BY <1>5, <1>a DEF SendBreaks, ReadBreaks, ReadTimesOut, GiveUp, startVars
<1>6. CASE ReadReady \/ ReadPart \/ ReadLast
  BY <1>6, <1>a DEF ReadReady, ReadPart, ReadLast, startVars
<1>7. CASE RunOnce
  BY <1>7, <1>a DEF RunOnce, startVars
<1>8. CASE CloseDescriptors \/ KillGroup \/ WaitForServer
  BY <1>8, <1>a DEF CloseDescriptors, KillGroup, WaitForServer, startVars
<1>9. CASE Exit \/ Tick \/ Kill
  BY <1>9, <1>a DEF Exit, Tick, Kill, startVars
<1>10. ASSUME UNCHANGED <<pc, request, after, server, started>> PROVE ProgramInv'
  BY <1>10
<1> QED
  BY <1>1, <1>2, <1>3, <1>4, <1>5, <1>6, <1>7, <1>8, <1>9, <1>10, ServerStepFrame
     DEF Next, ProgramSteps, Ended, vars

\* ... that every server but the current one is gone, ...
LEMMA ServersInvStep ==
  ASSUME TypeInv, ProgramInv, ServersInv, [Next]_vars
  PROVE  ServersInv'
<1>a. /\ server \in 0..started /\ started \in 0..MaxServers
      /\ server \in {None, started}
      /\ pc \in {"send", "read", "close", "killpg", "wait"} => server \in Servers
      /\ pc = "spawn" => server = None
  BY DEF TypeInv, TypeOK, ProgramInv, TalkPcs, StopPcs
<1>b. /\ phase \in [Servers -> Phases] /\ closed \in [Servers -> BOOLEAN]
      /\ child \in [Servers -> {"none", "forked", "running", "zombie"}]
      /\ DOMAIN requests = Servers /\ DOMAIN replies = Servers
      /\ requests = [g \in Servers |-> requests[g]] /\ replies = [g \in Servers |-> replies[g]]
  BY DEF TypeInv, TypeOK
<1> SUFFICES ASSUME NEW h \in Servers
             PROVE  Placed(h)'
  BY DEF ServersInv
<1>c. Placed(h)
  BY DEF ServersInv
<1> USE DEF Placed, Left, Alive
<1>1. CASE Run
  BY <1>1, <1>c DEF Run, startVars, pipeVars, serverVars
<1>2. CASE Reuse \/ Renew
  BY <1>2, <1>a, <1>c DEF Reuse, Renew, startVars, pipeVars, serverVars
<1>3. CASE Spawn
  BY <1>3, <1>a, <1>b, <1>c DEF Spawn, pipeVars
<1>4. CASE SpawnFails
  BY <1>4, <1>a, <1>b, <1>c DEF SpawnFails
<1>5. CASE Send
  BY <1>5, <1>a, <1>b, <1>c DEF Send, startVars, serverVars
<1>6. CASE SendBreaks \/ ReadBreaks \/ ReadTimesOut
  BY <1>6, <1>c DEF SendBreaks, ReadBreaks, ReadTimesOut, GiveUp, startVars, pipeVars, serverVars
<1>7. CASE ReadReady \/ ReadPart \/ ReadLast
  BY <1>7, <1>a, <1>b, <1>c DEF ReadReady, ReadPart, ReadLast, startVars, serverVars
<1>8. CASE RunOnce \/ Tick
  BY <1>8, <1>c DEF RunOnce, Tick, startVars, pipeVars, serverVars
<1>9. CASE CloseDescriptors
  BY <1>9, <1>a, <1>b, <1>c DEF CloseDescriptors, startVars, serverVars
<1>10. CASE KillGroup
  BY <1>10, <1>a, <1>b, <1>c DEF KillGroup, startVars, pipeVars
<1>11. CASE WaitForServer
  BY <1>11, <1>a, <1>c DEF WaitForServer, startVars, pipeVars, serverVars
<1>12. CASE Exit
  BY <1>12, <1>c DEF Exit, startVars, pipeVars, serverVars
<1>13. CASE Kill
  BY <1>13, <1>a, <1>b, <1>c DEF Kill, startVars, serverVars
<1>14. ASSUME NEW g \in Servers,
              ServerSteps(g) \/ ChildSteps(g) \/ Expire(g) \/ Crash(g) \/ Stop(g)
       PROVE  Placed(h)'
  <2>1. UNCHANGED <<pc, server, started, closed>>
    BY <1>14, ServerStepFrame
  <2>2. CASE ReadLine(g)
    BY <2>1, <2>2, <1>b, <1>c DEF ReadLine, Runs
  <2>3. CASE SeeEnd(g) \/ Load(g)
    BY <2>1, <2>3, <1>b, <1>c DEF SeeEnd, Load, Runs, pipeVars
  <2>4. CASE Write(g)
    BY <2>1, <2>4, <1>b, <1>c DEF Write, Runs
  <2>5. CASE Fork(g)
    BY <2>1, <2>5, <1>b, <1>c DEF Fork, Runs, pipeVars
  <2>6. CASE Poll(g) \/ KillChild(g)
    BY <2>1, <2>6, <1>b, <1>c DEF Poll, KillChild, Runs, pipeVars
  <2>7. CASE TimeLeft(g) \/ Wake(g)
    BY <2>1, <2>7, <1>b, <1>c DEF TimeLeft, Wake, Runs, pipeVars
  <2>8. CASE ChildSteps(g)
    BY <2>1, <2>8, <1>b, <1>c DEF ChildSteps, ChildCloses, ChildEnds, pipeVars
  <2>9. CASE Expire(g) \/ Crash(g) \/ Stop(g)
    BY <2>1, <2>9, <1>b, <1>c DEF Expire, Crash, Stop, Runs, pipeVars
  <2> QED
    BY <1>14, <2>2, <2>3, <2>4, <2>5, <2>6, <2>7, <2>8, <2>9 DEF ServerSteps
<1>15. CASE UNCHANGED vars
  BY <1>15, <1>c DEF vars
<1> QED
  BY <1>1, <1>2, <1>3, <1>4, <1>5, <1>6, <1>7, <1>8, <1>9, <1>10, <1>11, <1>12, <1>13,
     <1>14, <1>15
     DEF Next, ProgramSteps, Ended

\* ... and that the end of a child is signalled until _wait_for looks.
LEMMA ChildInvStep ==
  ASSUME TypeInv, LivesInv, [Next]_vars
  PROVE  ChildInv'
<1> USE DEF ChildInv, Alive
<1>a. /\ phase \in [Servers -> Phases] /\ job \in [Servers -> JobType]
      /\ child \in [Servers -> {"none", "forked", "running", "zombie"}]
      /\ sigchld \in [Servers -> BOOLEAN]
      /\ started \in 0..MaxServers
  BY DEF TypeInv, TypeOK
<1>b. ChildInv /\ \A g \in Servers : started < g => child[g] = "none"
  BY DEF LivesInv, ServersInv, Placed
<1>1. CASE UNCHANGED serverVars
  BY <1>1, <1>b DEF serverVars
<1>2. CASE Spawn \/ SpawnFails
  <2>1. PICK p \in {"sources", "dead"} : phase' = [phase EXCEPT ![started + 1] = p]
    BY <1>2 DEF Spawn, SpawnFails
  <2>2. UNCHANGED <<child, job, sigchld>>
    BY <1>2 DEF Spawn, SpawnFails
  <2>3. \A g \in Servers : phase'[g] = phase[g] \/ child[g] = "none"
    BY <2>1, <1>a, <1>b
  <2> QED
    BY <2>2, <2>3, <1>a, <1>b
<1>3. CASE KillGroup
  BY <1>3, <1>a, <1>b DEF KillGroup
<1>4. ASSUME NEW g \in Servers,
              ServerSteps(g) \/ ChildSteps(g) \/ Expire(g) \/ Crash(g) \/ Stop(g)
       PROVE  ChildInv'
  <2>1. CASE ReadLine(g)
    BY <2>1, <1>a, <1>b DEF ReadLine, Runs
  <2>2. CASE SeeEnd(g) \/ Load(g)
    BY <2>2, <1>a, <1>b DEF SeeEnd, Load, Runs
  <2>3. CASE Write(g)
    BY <2>3, <1>a, <1>b DEF Write, Runs
  <2>4. CASE Fork(g)
    BY <2>4, <1>a, <1>b DEF Fork, Runs
  <2>5. CASE Poll(g) \/ KillChild(g)
    BY <2>5, <1>a, <1>b DEF Poll, KillChild, Runs
  <2>6. CASE TimeLeft(g) \/ Wake(g)
    BY <2>6, <1>a, <1>b DEF TimeLeft, Wake, Runs
  <2>7. CASE ChildSteps(g)
    BY <2>7, <1>a, <1>b, ZenonT(40) DEF ChildSteps, ChildCloses, ChildEnds
  <2>8. CASE Expire(g) \/ Crash(g) \/ Stop(g)
    BY <2>8, <1>a, <1>b DEF Expire, Crash, Stop
  <2> QED
    BY <1>4, <2>1, <2>2, <2>3, <2>4, <2>5, <2>6, <2>7, <2>8 DEF ServerSteps
<1>5. ASSUME Run \/ ProgramSteps \/ Exit \/ Tick \/ Kill PROVE ChildInv'
  BY <1>1, <1>2, <1>3, <1>5
     DEF ProgramSteps, Run, Reuse, Renew, Send, SendBreaks, ReadBreaks, ReadTimesOut, GiveUp,
         ReadReady, ReadPart, ReadLast, RunOnce, CloseDescriptors, WaitForServer, Exit, Tick, Kill
<1> QED
  BY <1>1, <1>4, <1>5 DEF Next, Ended, vars, serverVars

\* Who is alive, in every reachable state.
THEOREM LivesInvariant == Spec => []LivesInv
<1>1. TypeInv /\ LivesInv /\ [Next]_vars => LivesInv'
  BY ProgramInvStep, ServersInvStep, ChildInvStep DEF LivesInv
<1> QED
  BY <1>1, InitLives, TypeInvariant, PTL DEF Spec

\* At most one server, with its child, exists at any time: GhdlWorkerTool._serve stops
\* the one before, child included, before it starts the next.
THEOREM OneServer == Spec => []OneServerAtATime
<1>1. LivesInv => OneServerAtATime
  BY DEF LivesInv, ServersInv, Placed, OneServerAtATime
<1> QED
  BY <1>1, LivesInvariant, PTL

\* A program that ends by itself, also by an interrupt in the middle of a request,
\* leaves neither a server nor a child: _stop_server runs as a finalizer.
THEOREM ExitLeavesNothing == Spec => []NothingLeftOnExit
<1>1. LivesInv => NothingLeftOnExit
  BY DEF LivesInv, ProgramInv, ServersInv, Placed, NothingLeftOnExit
<1> QED
  BY <1>1, LivesInvariant, PTL

\* _wait_for never sleeps in sigtimedwait through the end of its child, although it may
\* take the signal of an earlier one there.
THEOREM WakeupsArrive == Spec => []NoLostWakeup
<1>1. LivesInv => NoLostWakeup
  BY DEF LivesInv, ChildInv, NoLostWakeup
<1> QED
  BY <1>1, LivesInvariant, PTL
-----------------------------------------------------------------------------
(* Which sources a server is started for. *)

\* `failed' and `sources' follow the server started last, so that the next one is
\* for other sources.
LastStartInv ==
  0 < started =>
    /\ pc \in ServedPcs => startedFor[started] = IF server = None THEN failed ELSE sources
    /\ pc \in TalkPcs => startedFor[started] = request.source
    /\ pc = "spawn" => startedFor[started] # request.source
    /\ pc \in StopPcs /\ after = "spawn" => startedFor[started] # request.source
    /\ pc \in StopPcs /\ after = "once" => startedFor[started] = failed
SourcesInv ==
  /\ ServersDiffer
  /\ LastStartInv
  /\ pc = "serve" => request.source # failed
  /\ pc \in TalkPcs /\ want # "ready" => sources = request.source

\* Every step keeps that.
LEMMA SourcesInvStep ==
  ASSUME TypeInv, ProgramInv, SourcesInv, [Next]_vars
  PROVE  SourcesInv'
<1>a. /\ server \in 0..started /\ started \in 0..MaxServers
      /\ server \in {None, started}
      /\ pc \in {"send", "read", "close", "killpg", "wait"} => server = started /\ 0 < started
      /\ pc \in {"spawn", "exited"} => server = None
      /\ startedFor \in [Servers -> Sources \union {NoSources}]
      /\ pc \in StopPcs => after \in {"spawn", "once", "exited"}
  BY DEF TypeInv, TypeOK, ProgramInv, TalkPcs, StopPcs
<1> USE DEF SourcesInv, ServersDiffer, LastStartInv, TalkPcs, StopPcs, ServedPcs
<1>1. CASE Run
  BY <1>1, <1>a DEF Run, startVars
<1>2. CASE Reuse
  BY <1>2, <1>a DEF Reuse, startVars
<1>3. CASE Renew
  BY <1>3, <1>a DEF Renew, startVars
<1>b. ASSUME Spawn \/ SpawnFails
      PROVE  /\ started' = started + 1 /\ started' \in Servers
             /\ startedFor'[started'] = request.source
             /\ \A g \in 1..started : startedFor'[g] = startedFor[g]
             /\ ServersDiffer'
  <2>1. started' = started + 1 /\ started < MaxServers
        /\ startedFor' = [startedFor EXCEPT ![started + 1] = request.source]
    BY <1>b DEF Spawn, SpawnFails
  <2>2. started + 1 \in Servers /\ \A g \in 1..started : g \in Servers /\ g # started + 1
    BY <2>1, <1>a
  <2>3. /\ startedFor'[started + 1] = request.source
        /\ \A g \in 1..started : startedFor'[g] = startedFor[g]
    BY <2>1, <2>2, <1>a
  <2>4. 0 < started => startedFor[started] # request.source
    BY <1>b DEF Spawn, SpawnFails
  <2>5. ASSUME NEW g \in Servers, 1 < g, g <= started + 1
        PROVE  startedFor'[g] # startedFor'[g - 1]
    <3>1. CASE g = started + 1
      BY <3>1, <2>3, <2>4, <2>5, <1>a
    <3>2. CASE g # started + 1
      <4>1. g \in 1..started /\ g - 1 \in 1..started
        BY <3>2, <2>5, <1>a
      <4> QED
        BY <4>1, <2>3, <2>5
    <3> QED
      BY <3>1, <3>2
  <2> QED
    BY <2>1, <2>2, <2>3, <2>5
<1>4. CASE Spawn
  BY <1>4, <1>a, <1>b DEF Spawn
<1>5. CASE SpawnFails
  BY <1>5, <1>a, <1>b DEF SpawnFails
<1>6. CASE Send
  BY <1>6, <1>a DEF Send, startVars
<1>7. CASE SendBreaks \/ ReadBreaks \/ ReadTimesOut
  BY <1>7, <1>a DEF SendBreaks, ReadBreaks, ReadTimesOut, GiveUp, startVars
<1>8. CASE ReadReady
  BY <1>8, <1>a DEF ReadReady, startVars
<1>9. CASE ReadPart
  BY <1>9, <1>a DEF ReadPart, startVars
<1>10. CASE ReadLast
  BY <1>10, <1>a DEF ReadLast, startVars
<1>11. CASE RunOnce \/ Tick
  BY <1>11, <1>a DEF RunOnce, Tick, startVars
<1>12. CASE CloseDescriptors \/ KillGroup
  BY <1>12, <1>a DEF CloseDescriptors, KillGroup, startVars
<1>13. CASE WaitForServer
  BY <1>13, <1>a DEF WaitForServer, startVars
<1>14. CASE Exit \/ Kill
  BY <1>14, <1>a DEF Exit, Kill, startVars
<1>15. ASSUME UNCHANGED <<pc, request, after, server, started, startedFor, sources, failed, want>>
       PROVE  SourcesInv'
  BY <1>15
<1> QED
  BY <1>1, <1>2, <1>3, <1>4, <1>5, <1>6, <1>7, <1>8, <1>9, <1>10, <1>11, <1>12, <1>13,
     <1>14, <1>15, ServerStepFrame
     DEF Next, ProgramSteps, Ended, vars

\* The program never starts a server for the sources of the one before: it reuses that
\* one, or, once it has failed, remembers so in self._failed_sources.
THEOREM NoServerTwice == Spec => []ServersDiffer
<1>1. Init => SourcesInv
  BY DEF Init, SourcesInv, ServersDiffer, LastStartInv, TalkPcs
<1>2. LivesInv => ProgramInv
  BY DEF LivesInv
<1>3. SourcesInv => ServersDiffer
  BY DEF SourcesInv
<1> QED
  BY <1>1, <1>2, <1>3, SourcesInvStep, TypeInvariant, LivesInvariant, PTL DEF Spec
-----------------------------------------------------------------------------
(* Requests and answers line up. *)

\* The parts a server writes, numbered: "ready" once, then an answer for each request.
PartNo(p) == IF p = "ready" THEN 0 ELSE IF p = "header" THEN 1
             ELSE IF p = "stdout" THEN 2 ELSE IF p = "stderr" THEN 3 ELSE 4

\* The number of the part that the program's server writes next; 4 after the last.
Due == PartNo(want) + Len(replies[server])

Waiting == {"poll", "remaining", "sigwait"}      \* A server in _wait_for.
Answering == {"header", "stdout", "stderr"}

\* A result that the answer to the current request may have.
FitResult(r) == \/ r = "timeout" /\ clock # "early"
                \/ r = request.does /\ r # "hangs"
\* A part that the program may read in the current request.
FitPart(p) == /\ p.source = request.source
              /\ p.part # "ready" => p.run = run /\ FitResult(p.result)
\* A piece of the line written for it.
FitPiece(p) == p.source = request.source /\ p.run = run /\ p.does = request.does

\* Between requests, the server that is kept has nothing to do and nothing left over.
KeptInv ==
  pc \in ServedPcs /\ server # None =>
    /\ Alive(server) => phase[server] = "requests" /\ requests[server] = <<>>
    /\ replies[server] = <<>>
    /\ child[server] = "none"
    /\ sources = holds[server] /\ sources \in Sources /\ Loads[sources] = "loads"

\* In a request, what is in the pipe to the server is the line of this run, ...
LineInv ==
  pc \in TalkPcs /\ Alive(server) =>
    /\ \A i \in 1..Len(requests[server]) :
         /\ FitPiece(requests[server][i])
         /\ requests[server][i].last <=> (pc = "read" /\ i = Len(requests[server]))
    /\ pc = "send" => phase[server] = IF want = "ready" THEN "sources" ELSE "requests"
    /\ pc = "read" => (requests[server] # <<>> <=>
                         \/ phase[server] = "sources"
                         \/ phase[server] = "requests" /\ want = "header" /\ Due = 1)

\* ... what is in the pipe back are the next parts of its answer, and the server is
\* about to write the one after them.
RepliesInv ==
  pc \in TalkPcs =>
    /\ \A i \in 1..Len(replies[server]) :
         /\ PartNo(replies[server][i].part) = PartNo(want) + i - 1
         /\ FitPart(replies[server][i])
    /\ Due <= 4 /\ (want = "ready" => Due <= 1)
    /\ pc = "send" => replies[server] = <<>> /\ want \in {"ready", "header"}
    /\ phase[server] \in {"sources", "load", "ready"} => Due = 0
    /\ phase[server] = "requests" => Due \in {1, 4}
    /\ phase[server] \in Waiting \union {"fork", "header"} => Due = 1 /\ want = "header"
    /\ phase[server] = "stdout" => Due = 2
    /\ phase[server] = "stderr" => Due = 3
    /\ want \in {"stdout", "stderr"} => FitResult(header.result)

\* What the server works on is the request of this run, with its sources.
WorkInv ==
  pc \in TalkPcs =>
    /\ phase[server] \in {"load", "ready"} \/ 0 < Due => holds[server] = request.source
    /\ phase[server] = "ready" \/ 0 < Due => Loads[request.source] = "loads"
    /\ want = "ready" \/ Due # 1 => child[server] = "none"
    /\ phase[server] \in Waiting \union Answering \union {"fork"} =>
         job[server] = [source |-> request.source, run |-> run, does |-> request.does]
    /\ phase[server] \in Waiting /\ expired[server] => clock # "early"
    /\ phase[server] \in Answering =>
         IF timedOut[server] THEN clock # "early" ELSE request.does # "hangs"

TalkInv == KeptInv /\ LineInv /\ RepliesInv /\ WorkInv
Inv == TypeInv /\ LivesInv /\ SourcesInv /\ TalkInv

\* A process that is gone takes no step: only the current server and its child do.
LEMMA OnlyOneSteps ==
  ASSUME LivesInv, NEW g \in Servers,
         ServerSteps(g) \/ ChildSteps(g) \/ Expire(g) \/ Crash(g) \/ Stop(g)
  PROVE  g = server
<1>1. Alive(g) \/ child[g] # "none"
  BY DEF ServerSteps, ChildSteps, ReadLine, SeeEnd, Load, Write, Fork, Poll, KillChild,
         TimeLeft, Wake, ChildCloses, ChildEnds, Expire, Crash, Stop, Runs, Alive
<1> QED
  BY <1>1 DEF LivesInv, ServersInv, Placed, Left

\* Between requests a server can only be killed or stopped.
LEMMA KeptStep ==
  ASSUME Inv, NEW g \in Servers,
         ServerSteps(g) \/ ChildSteps(g) \/ Expire(g) \/ Crash(g) \/ Stop(g),
         pc \in ServedPcs
  PROVE  TalkInv'
<1>1. g = server /\ server # None
  BY OnlyOneSteps DEF Inv
<1>2. /\ phase \in [Servers -> Phases]
      /\ child \in [Servers -> {"none", "forked", "running", "zombie"}]
  BY DEF Inv, TypeInv, TypeOK
<1>3. ~closed[g] /\ child[g] = "none" /\ (Alive(g) => phase[g] = "requests" /\ requests[g] = <<>>)
  BY <1>1 DEF Inv, LivesInv, ServersInv, Placed, TalkInv, KeptInv, ServedPcs
<1>4. Crash(g) \/ Stop(g)
  BY <1>3 DEF ServerSteps, ChildSteps, ReadLine, SeeEnd, Load, Write, Fork, Poll, KillChild,
         TimeLeft, Wake, ChildCloses, ChildEnds, Expire, Runs, Alive
<1>5. /\ UNCHANGED <<pc, server, sources, requests, replies, holds>>
      /\ phase'[g] \in {phase[g], "dead"} /\ child'[g] = "none"
  BY <1>2, <1>3, <1>4 DEF Crash, Stop, programVars, pipeVars
<1> QED
  BY <1>1, <1>3, <1>5
     DEF Inv, TalkInv, KeptInv, LineInv, RepliesInv, WorkInv, ServedPcs, TalkPcs, Alive

\* In a request, each step of the server, its child and what befalls them.
LEMMA TalkStep ==
  ASSUME Inv, NEW g \in Servers,
         ServerSteps(g) \/ ChildSteps(g) \/ Expire(g) \/ Crash(g) \/ Stop(g),
         pc \in TalkPcs
  PROVE  TalkInv'
<1>a. g = server /\ ~closed[g] /\ TypeOK
  <2>1. g = server
    BY OnlyOneSteps DEF Inv
  <2> QED
    BY <2>1 DEF Inv, LivesInv, ServersInv, Placed, TalkPcs, TypeInv
<1>b. /\ phase \in [Servers -> Phases] /\ job \in [Servers -> JobType]
      /\ child \in [Servers -> {"none", "forked", "running", "zombie"}]
      /\ requests \in [Servers -> Seq(PieceType)] /\ replies \in [Servers -> Seq(PartType)]
      /\ holds \in [Servers -> Sources \union {NoSources}]
      /\ expired \in [Servers -> BOOLEAN] /\ timedOut \in [Servers -> BOOLEAN]
      /\ want \in {"ready", "header", "stdout", "stderr"}
      /\ Loads \in [Sources -> {"loads", "dies", "hangs"}]
      /\ clock \in {"early", "late", "over"}
  BY <1>a DEF TypeOK
<1>c. UNCHANGED <<pc, request, run, clock, want, header, server, sources>>
  BY ServerStepFrame
<1>d. PartNo(want) \in 0..3 /\ Len(replies[server]) \in Nat /\ Due \in Nat
  BY <1>a, <1>b DEF PartNo, Due
<1>e. LineInv /\ RepliesInv /\ WorkInv
  BY DEF Inv, TalkInv
<1>f. /\ child[g] = "zombie" => Alive(g) /\ job[g].does # "hangs"
      /\ Alive(g) /\ child[g] # "none" => phase[g] \in Waiting
  BY DEF Inv, LivesInv, ChildInv, Waiting
<1>g. KeptInv'
  BY <1>c DEF KeptInv, TalkPcs, ServedPcs
<1>1. CASE ReadLine(g)
  <2>a. /\ Head(requests[g]) = requests[g][1]
        /\ Len(requests[g]) \in Nat \ {0}
        /\ Len(Tail(requests[g])) = Len(requests[g]) - 1
        /\ \A i \in 1..Len(Tail(requests[g])) : Tail(requests[g])[i] = requests[g][i + 1]
        /\ Tail(requests[g]) \in Seq(PieceType)
    BY <1>1, <1>a, PieceRead DEF ReadLine
  <2>b. /\ requests'[g] = Tail(requests[g]) /\ Alive(g)
        /\ UNCHANGED <<replies, child, expired, timedOut>>
        /\ phase[g] \in {"sources", "requests"}
    BY <1>1, <1>b DEF ReadLine, Runs
  <2>c. Due' = Due
    BY <2>b, <1>c DEF Due
  <2>d. /\ FitPiece(Head(requests[g]))
        /\ Head(requests[g]).last <=> (pc = "read" /\ Len(requests[g]) = 1)
    <3>1. 1 \in 1..Len(requests[g])
      BY <2>a
    <3> QED
      BY <3>1, <2>a, <2>b, <1>a, <1>e, ZenonT(40) DEF LineInv
  <2>1. CASE pc = "read" /\ Len(requests[g]) = 1
    <3>1. Head(requests[g]).last /\ requests'[g] = <<>> /\ Len(requests'[g]) = 0
      <4>1. Len(Tail(requests[g])) = 0
        BY <2>1, <2>a
      <4> QED
        BY <4>1, <2>1, <2>a, <2>b, <2>d, EmptyPipe
    <3>2. CASE phase[g] = "sources"
      <4>1. /\ holds'[g] = request.source /\ phase'[g] = "load" /\ job' = job
            /\ Due = 0
        BY <1>1, <3>1, <3>2, <2>d, <1>a, <1>b, <1>e DEF ReadLine, FitPiece, RepliesInv
      <4>2. LineInv'
        BY <4>1, <3>1, <2>1, <1>a, <1>c DEF LineInv
      <4>3. RepliesInv'
        BY <4>1, <2>b, <2>c, <1>a, <1>c, <1>e DEF RepliesInv, FitPart, FitResult, Waiting
      <4>4. WorkInv'
        BY <4>1, <2>b, <2>c, <1>a, <1>c, <1>e, <3>2 DEF WorkInv, Waiting, Answering
      <4> QED
        BY <4>2, <4>3, <4>4, <1>g DEF TalkInv
    <3>3. CASE phase[g] = "requests"
      <4>1. /\ phase'[g] = "fork" /\ holds' = holds
            /\ job'[g] = [source |-> request.source, run |-> run, does |-> request.does]
        BY <1>1, <3>1, <3>3, <2>d, <1>a, <1>b, <1>e DEF ReadLine, FitPiece
      <4>2. want = "header" /\ Due = 1
        BY <3>3, <2>1, <2>a, <2>b, <1>a, <1>e DEF LineInv
      <4>3. LineInv'
        BY <4>1, <3>1, <2>1, <1>a, <1>c DEF LineInv
      <4>4. RepliesInv'
        BY <4>1, <4>2, <2>b, <2>c, <1>a, <1>c, <1>e
           DEF RepliesInv, FitPart, FitResult, Waiting
      <4>5. WorkInv'
        BY <4>1, <4>2, <2>b, <2>c, <1>a, <1>c, <1>e, <3>3 DEF WorkInv, Waiting, Answering
      <4> QED
        BY <4>3, <4>4, <4>5, <1>g DEF TalkInv
    <3> QED
      BY <3>2, <3>3, <2>b
  <2>2. CASE ~(pc = "read" /\ Len(requests[g]) = 1)
    <3>1. UNCHANGED <<phase, holds, job>>
      BY <1>1, <2>2, <2>d DEF ReadLine
    <3>2. ASSUME NEW i \in 1..Len(requests'[g])
          PROVE  /\ FitPiece(requests'[g][i])
                 /\ requests'[g][i].last <=> (pc = "read" /\ i = Len(requests'[g]))
      <4>1. i + 1 \in 1..Len(requests[g]) /\ requests'[g][i] = requests[g][i + 1]
        BY <2>a, <2>b
      <4> QED
        BY <4>1, <2>a, <2>b, <1>a, <1>e DEF LineInv
    <3>3. pc = "read" => requests'[g] # <<>>
      <4>1. pc = "read" => Len(requests'[g]) # 0
        BY <2>a, <2>b, <2>2
      <4> QED
        BY <4>1
    <3>4. LineInv'
      BY <3>1, <3>2, <3>3, <2>a, <2>b, <2>c, <1>a, <1>c, <1>e DEF LineInv, FitPiece
    <3>5. RepliesInv' /\ WorkInv'
      BY <3>1, <2>b, <2>c, <1>c, <1>e DEF RepliesInv, WorkInv, FitPart, FitResult
    <3> QED
      BY <3>4, <3>5, <1>g DEF TalkInv
  <2> QED
    BY <2>1, <2>2
<1>2. CASE SeeEnd(g)
  BY <1>2, <1>a DEF SeeEnd
<1>3. CASE Load(g)
  <2>1. /\ phase'[g] = IF Loads[request.source] = "loads" THEN "ready" ELSE "dead"
        /\ UNCHANGED <<requests, replies, holds, job, child, expired, timedOut>>
        /\ phase[g] = "load" /\ Due = 0
    BY <1>3, <1>a, <1>b, <1>e DEF Load, Runs, pipeVars, WorkInv, RepliesInv
  <2>2. Due' = Due
    BY <2>1, <1>c DEF Due
  <2> QED
    BY <2>1, <2>2, <1>a, <1>c, <1>d, <1>e, <1>g
       DEF TalkInv, LineInv, RepliesInv, WorkInv, FitPiece, FitPart, FitResult, Waiting,
           Answering, Alive
<1>4. CASE Write(g)
  <2>a. /\ phase[g] \in {"ready", "header", "stdout", "stderr"} /\ Alive(g)
        /\ UNCHANGED <<requests, holds, job, child, expired, timedOut>>
        /\ phase'[g] = PhaseAfter(phase[g]) /\ replies'[g] = Append(replies[g], Part(g))
    BY <1>4, <1>a, <1>b DEF Write, Runs
  <2>b. /\ Len(replies'[g]) = Len(replies[g]) + 1
        /\ replies'[g][Len(replies[g]) + 1] = Part(g)
        /\ \A i \in 1..Len(replies[g]) : replies'[g][i] = replies[g][i]
    BY <2>a, <1>a, PartWritten
  <2>c. Due' = Due + 1
    BY <2>b, <1>a, <1>c, <1>d DEF Due
  <2>d. /\ phase[g] \in {"ready", "stderr"} => phase'[g] = "requests"
        /\ phase[g] = "header" => phase'[g] = "stdout"
        /\ phase[g] = "stdout" => phase'[g] = "stderr"
    BY <2>a, PhaseAfterType
  <2>e. /\ Part(g).part = phase[g] /\ Part(g).source = holds[g]
        /\ phase[g] # "ready" => Part(g).run = job[g].run
        /\ phase[g] # "ready" => Part(g).result = IF timedOut[g] THEN "timeout" ELSE job[g].does
    BY <1>a, <2>a, PartHasType
  <2>f. Due = PartNo(phase[g])
    BY <2>a, <1>a, <1>e DEF RepliesInv, PartNo
  <2>g. want = "ready" <=> phase[g] = "ready"
    BY <2>a, <2>f, <1>a, <1>b, <1>d, <1>e DEF RepliesInv, PartNo, Due
  <2>h. FitPart(Part(g))
    BY <2>a, <2>e, <2>f, <1>a, <1>b, <1>e DEF WorkInv, FitPart, FitResult, Answering, PartNo
  <2>i. requests[g] = <<>> /\ pc = "read"
    BY <2>a, <1>a, <1>e DEF LineInv, TalkPcs
  <2>1. LineInv'
    BY <2>a, <2>c, <2>d, <2>f, <2>g, <2>i, <1>a, <1>c DEF LineInv, Alive, PartNo
  <2>2. RepliesInv'
    <3>1. ASSUME NEW i \in 1..Len(replies'[g])
          PROVE  /\ PartNo(replies'[g][i].part) = PartNo(want) + i - 1
                 /\ FitPart(replies'[g][i])
      <4>1. CASE i = Len(replies[g]) + 1
        BY <4>1, <2>b, <2>e, <2>f, <2>h, <1>a, <1>d DEF Due
      <4>2. CASE i # Len(replies[g]) + 1
        <5>1. i \in 1..Len(replies[g])
          BY <4>2, <2>b, <1>a, <1>d
        <5> QED
          BY <5>1, <2>b, <1>a, <1>e DEF RepliesInv
      <4> QED
        BY <4>1, <4>2
    <3>2. Due' <= 4 /\ (want = "ready" => Due' <= 1)
      BY <2>a, <2>c, <2>f, <2>g DEF PartNo
    <3>3. /\ phase'[g] = "requests" => Due' \in {1, 4}
          /\ phase'[g] = "stdout" => Due' = 2
          /\ phase'[g] = "stderr" => Due' = 3
          /\ phase'[g] \in {"requests", "stdout", "stderr"}
      BY <2>a, <2>c, <2>d, <2>f DEF PartNo
    <3> QED
      BY <3>1, <3>2, <3>3, <2>i, <1>a, <1>c, <1>e
         DEF RepliesInv, FitPart, FitResult, Waiting
  <2>3. WorkInv'
    BY <2>a, <2>c, <2>d, <2>f, <2>g, <1>a, <1>b, <1>c, <1>d, <1>e, <1>f
       DEF WorkInv, PartNo, Waiting, Answering, FitResult
  <2> QED
    BY <2>1, <2>2, <2>3, <1>g DEF TalkInv
<1>5. CASE Fork(g) \/ TimeLeft(g) \/ Wake(g) \/ Poll(g) \/ KillChild(g)
  <2>1. /\ phase[g] \in Waiting \union {"fork"}
        /\ phase'[g] \in Waiting \union {"header"}
        /\ phase[g] = "fork" => expired'[g] = FALSE
        /\ phase[g] # "fork" => UNCHANGED expired
        /\ UNCHANGED <<requests, replies, holds, job>>
        /\ phase'[g] = "header" =>
             \/ timedOut'[g] = FALSE /\ child[g] = "zombie"
             \/ timedOut'[g] = TRUE /\ phase[g] \in Waiting /\ expired[g]
    BY <1>5, <1>b DEF Fork, TimeLeft, Wake, Poll, KillChild, Waiting, pipeVars
  <2>2. Due' = Due /\ Due = 1 /\ want = "header"
    BY <2>1, <1>a, <1>c, <1>e DEF Due, RepliesInv
  <2>3. pc = "read" /\ requests[g] = <<>>
    BY <2>1, <1>a, <1>e DEF LineInv, TalkPcs, Alive, Waiting
  <2>4. LineInv' /\ RepliesInv'
    BY <2>1, <2>2, <2>3, <1>a, <1>c, <1>e
       DEF LineInv, RepliesInv, FitPiece, FitPart, FitResult, Waiting, Alive
  <2>5. WorkInv'
    <3>1. /\ holds[g] = request.source /\ Loads[request.source] = "loads"
          /\ job[g] = [source |-> request.source, run |-> run, does |-> request.does]
      BY <2>1, <2>2, <1>a, <1>e DEF WorkInv
    <3>2. phase'[g] \in Waiting /\ expired'[g] => clock # "early"
      BY <2>1, <1>a, <1>e DEF WorkInv, Waiting
    <3>3. phase'[g] \in Answering =>
            IF timedOut'[g] THEN clock # "early" ELSE request.does # "hangs"
      <4>1. phase[g] \in Waiting /\ expired[g] => clock # "early"
        BY <1>a, <1>e DEF WorkInv
      <4>2. child[g] = "zombie" => request.does # "hangs"
        BY <3>1, <1>f
      <4> QED
        BY <4>1, <4>2, <2>1 DEF Waiting, Answering
    <3> QED
      BY <3>1, <3>2, <3>3, <2>1, <2>2, <1>a, <1>c DEF WorkInv
  <2> QED
    BY <2>4, <2>5, <1>g DEF TalkInv
<1>6. CASE ChildSteps(g) \/ Stop(g)
  <2>1. /\ UNCHANGED <<phase, requests, replies, holds, job, expired, timedOut>>
        /\ child[g] = "none" => child'[g] = "none"
    BY <1>6, <1>b DEF ChildSteps, ChildCloses, ChildEnds, Stop, pipeVars
  <2> QED
    BY <2>1, <1>a, <1>c, <1>e, <1>g
       DEF TalkInv, LineInv, RepliesInv, WorkInv, Due, FitPiece, FitPart, FitResult, Alive
<1>7. CASE Expire(g)
  <2>1. /\ UNCHANGED <<phase, requests, replies, holds, job, child, timedOut>>
        /\ phase[g] \in Waiting
    BY <1>7 DEF Expire, Waiting, pipeVars
  <2>2. clock # "early"
    BY <1>7 DEF Expire, TalkPcs
  <2> QED
    BY <2>1, <2>2, <1>a, <1>c, <1>e, <1>g
       DEF TalkInv, LineInv, RepliesInv, WorkInv, Due, FitPiece, FitPart, FitResult, Alive
<1>8. CASE Crash(g)
  <2>1. /\ UNCHANGED <<requests, replies, holds, job, expired, timedOut>>
        /\ child[g] = "none" => child'[g] = "none"
        /\ phase'[g] = "dead"
    BY <1>8, <1>b DEF Crash, pipeVars
  <2> QED
    BY <2>1, <1>a, <1>c, <1>e, <1>g
       DEF TalkInv, LineInv, RepliesInv, WorkInv, Due, FitPart, FitResult, Alive, Waiting,
           Answering
<1> QED
  BY <1>1, <1>2, <1>3, <1>4, <1>5, <1>6, <1>7, <1>8 DEF ServerSteps

\* Each step of the program.
LEMMA ProgramTalkStep ==
  ASSUME Inv, Run \/ ProgramSteps \/ Exit \/ Tick \/ Kill
  PROVE  TalkInv'
<1>a. /\ TypeOK /\ server \in 0..started /\ started \in 0..MaxServers
      /\ server \in {None, started}
      /\ pc \in TalkPcs \union StopPcs => server \in Servers
      /\ pc \in StopPcs => after \in {"spawn", "once", "exited"}
      /\ pc = "spawn" => server = None
  BY DEF Inv, TypeInv, TypeOK, LivesInv, ProgramInv, TalkPcs, StopPcs
<1>b. /\ phase \in [Servers -> Phases]
      /\ requests \in [Servers -> Seq(PieceType)] /\ replies \in [Servers -> Seq(PartType)]
      /\ \A g \in Servers : Len(replies[g]) \in Nat /\ Len(requests[g]) \in Nat
      /\ want \in {"ready", "header", "stdout", "stderr"}
      /\ request.source \in Sources
      /\ clock \in {"early", "late", "over"}
  BY <1>a DEF TypeOK, Requests
<1>d. pc \in TalkPcs => /\ PartNo(want) \in 0..3 /\ Len(replies[server]) \in Nat
                       /\ Due \in Nat /\ Due = PartNo(want) + Len(replies[server])
  BY <1>a, <1>b DEF PartNo, Due
<1>e. KeptInv /\ LineInv /\ RepliesInv /\ WorkInv
  BY DEF Inv, TalkInv
<1>1. CASE pc' \notin TalkPcs \union ServedPcs \/ (pc' \in ServedPcs /\ server' = None)
  BY <1>1 DEF TalkInv, KeptInv, LineInv, RepliesInv, WorkInv, TalkPcs, ServedPcs
<1>2. CASE Run \/ RunOnce
  <2>1. /\ pc \in ServedPcs /\ pc' \in ServedPcs
        /\ UNCHANGED <<server, sources, requests, replies, phase, holds, child>>
    BY <1>2 DEF Run, RunOnce, ServedPcs, pipeVars, serverVars
  <2> QED
    BY <2>1, <1>e DEF TalkInv, KeptInv, LineInv, RepliesInv, WorkInv, TalkPcs, ServedPcs, Alive
<1>3. CASE Reuse
  <2>1. /\ pc = "serve" /\ pc' = "send" /\ want' = "header" /\ server \in Servers
        /\ sources = request.source
        /\ UNCHANGED <<server, sources, request, requests, replies, phase, holds, child>>
    BY <1>3, <1>a DEF Reuse, pipeVars, serverVars
  <2>2. Due' = 1 /\ replies'[server] = <<>>
    BY <2>1, <1>e DEF Due, PartNo, KeptInv, ServedPcs
  <2>3. phase[server] \in {"requests", "none", "dead"}
    BY <2>1, <1>e DEF KeptInv, ServedPcs, Alive
  <2> QED
    BY <2>1, <2>2, <2>3, <1>e
       DEF TalkInv, KeptInv, LineInv, RepliesInv, WorkInv, TalkPcs, ServedPcs, Alive, PartNo,
           Waiting, Answering
<1>4. CASE Spawn
  <2>1. /\ pc' = "send" /\ want' = "ready" /\ server' \in Servers /\ started < server'
        /\ phase'[server'] = "sources"
        /\ UNCHANGED <<request, requests, replies, child>>
    BY <1>4, <1>a, <1>b DEF Spawn, pipeVars
  <2>2. replies[server'] = <<>> /\ requests[server'] = <<>> /\ child[server'] = "none"
    BY <2>1 DEF Inv, LivesInv, ServersInv, Placed
  <2>3. Due' = 0
    BY <2>1, <2>2 DEF Due, PartNo
  <2> QED
    BY <2>1, <2>2, <2>3
       DEF TalkInv, KeptInv, LineInv, RepliesInv, WorkInv, TalkPcs, ServedPcs, Alive, PartNo,
           Waiting, Answering
<1>5. CASE Send
  <2>1. /\ pc = "send" /\ pc' = IF toSend = 1 THEN "read" ELSE "send"
        /\ requests'[server] = Append(requests[server], Piece(toSend = 1))
        /\ UNCHANGED <<request, run, clock, want, header, server, sources, replies, serverVars>>
    BY <1>5, <1>a, <1>b DEF Send, TalkPcs
  <2>2. /\ Len(requests'[server]) = Len(requests[server]) + 1
        /\ requests'[server] # <<>>
        /\ requests'[server][Len(requests[server]) + 1] = Piece(toSend = 1)
        /\ \A i \in 1..Len(requests[server]) : requests'[server][i] = requests[server][i]
    <3>1. server \in Servers /\ Len(requests[server]) < Capacity /\ (toSend = 1) \in BOOLEAN
      BY <1>5, <1>a DEF Send, TalkPcs
    <3>2. /\ Len(Append(requests[server], Piece(toSend = 1))) = Len(requests[server]) + 1
          /\ Append(requests[server], Piece(toSend = 1)) # <<>>
          /\ Append(requests[server], Piece(toSend = 1))[Len(requests[server]) + 1]
               = Piece(toSend = 1)
          /\ \A i \in 1..Len(requests[server]) :
               Append(requests[server], Piece(toSend = 1))[i] = requests[server][i]
      BY <3>1, <1>a, PieceWritten
    <3> QED
      BY <2>1, <3>2
  <2>3. Due' = Due
    BY <2>1 DEF Due
  <2>4. LineInv'
    <3>1. ASSUME Alive(server), NEW i \in 1..Len(requests'[server])
          PROVE  /\ FitPiece(requests'[server][i])
                 /\ requests'[server][i].last <=> (pc' = "read" /\ i = Len(requests'[server]))
      <4>1. CASE i = Len(requests[server]) + 1
        <5>1. FitPiece(Piece(toSend = 1)) /\ (Piece(toSend = 1).last <=> toSend = 1)
          BY DEF Piece, FitPiece
        <5> QED
          BY <4>1, <5>1, <2>1, <2>2
      <4>2. CASE i # Len(requests[server]) + 1
        <5>1. i \in 1..Len(requests[server]) /\ i # Len(requests'[server])
          BY <4>2, <2>2, <1>a, <1>b, <2>1 DEF TalkPcs
        <5> QED
          BY <5>1, <3>1, <2>1, <2>2, <1>e DEF LineInv, TalkPcs
      <4> QED
        BY <4>1, <4>2
    <3>2. Alive(server) =>
            \/ phase[server] = "sources"
            \/ phase[server] = "requests" /\ want = "header" /\ Due = 1
      <4>1. replies[server] = <<>> /\ want \in {"ready", "header"}
        BY <2>1, <1>e DEF RepliesInv, TalkPcs
      <4>2. want = "header" => Due = 1
        BY <4>1 DEF Due, PartNo
      <4> QED
        BY <4>1, <4>2, <2>1, <1>d, <1>e DEF LineInv, TalkPcs
    <3>3. Alive(server) /\ pc' = "send" =>
            phase[server] = IF want = "ready" THEN "sources" ELSE "requests"
      BY <2>1, <1>e DEF LineInv, TalkPcs
    <3> QED
      BY <3>1, <3>2, <3>3, <2>1, <2>2, <2>3 DEF LineInv, FitPiece, Alive, serverVars
  <2>5. RepliesInv' /\ WorkInv'
    BY <2>1, <2>3, <1>e DEF RepliesInv, WorkInv, FitPart, FitResult, TalkPcs, serverVars
  <2> QED
    BY <2>1, <2>4, <2>5 DEF TalkInv, KeptInv, ServedPcs
<1>6. CASE ReadReady
  <2>1. /\ pc = "read" /\ want = "ready" /\ replies[server] # <<>>
        /\ replies'[server] = Tail(replies[server])
        /\ sources' = request.source /\ pc' = "send" /\ want' = "header"
        /\ UNCHANGED <<request, server, requests, serverVars>>
    BY <1>6, <1>a, <1>b DEF ReadReady, TalkPcs
  <2>2. Len(replies[server]) = 1 /\ Due = 1
    <3>1. Len(replies[server]) \in Nat \ {0}
      BY <2>1, <1>a, PartRead DEF TalkPcs
    <3>2. PartNo(want) = 0
      BY <2>1 DEF PartNo
    <3>3. Due <= 1
      BY <2>1, <1>e DEF RepliesInv, TalkPcs
    <3>4. Due = 0 + Len(replies[server])
      BY <2>1, <3>1, <3>2, <1>d DEF TalkPcs
    <3>5. \A n \in Nat \ {0} : Due = 0 + n /\ Due <= 1 => n = 1 /\ Due = 1
      OBVIOUS
    <3> QED
      BY <3>1, <3>3, <3>4, <3>5
  <2>3. replies'[server] = <<>> /\ Len(replies'[server]) = 0
    <3>1. Len(Tail(replies[server])) = Len(replies[server]) - 1
      BY <2>1, <1>a, PartRead DEF TalkPcs
    <3>2. Len(replies'[server]) = 0
      BY <3>1, <2>1, <2>2
    <3>3. replies'[server] \in Seq(PartType)
      BY <2>1, <1>a, PartRead DEF TalkPcs
    <3> QED
      BY <3>2, <3>3, EmptyPipe
  <2>4. Due' = 1
    BY <2>1, <2>3 DEF Due, PartNo
  <2>5. phase[server] \in {"requests", "none", "dead"} /\ (Alive(server) => requests[server] = <<>>)
    BY <2>1, <2>2, <1>a, <1>b, <1>e DEF RepliesInv, LineInv, TalkPcs, Phases, Waiting, Alive
  <2> QED
    BY <2>1, <2>2, <2>3, <2>4, <2>5, <1>e
       DEF TalkInv, KeptInv, LineInv, RepliesInv, WorkInv, TalkPcs, ServedPcs, Alive,
           Waiting, Answering, serverVars
<1>7. CASE ReadPart
  <2>1. /\ pc = "read" /\ pc' = "read" /\ want \in {"header", "stdout"} /\ replies[server] # <<>>
        /\ replies'[server] = Tail(replies[server])
        /\ header' = IF want = "header" THEN replies[server][1] ELSE header
        /\ want' = NextPart(want)
        /\ UNCHANGED <<request, run, clock, server, sources, requests, serverVars>>
    BY <1>7, <1>a, <1>b, PartRead DEF ReadPart, TalkPcs
  <2>2. want' = IF want = "header" THEN "stdout" ELSE "stderr"
    BY <2>1, NextPartType
  <2>3. PartNo(want') = PartNo(want) + 1 /\ PartNo(want) \in 1..2
    BY <2>1, <2>2 DEF PartNo
  <2>4. /\ Len(replies[server]) \in Nat \ {0}
        /\ Len(replies'[server]) = Len(replies[server]) - 1
        /\ \A i \in 1..Len(replies'[server]) : replies'[server][i] = replies[server][i + 1]
    BY <2>1, <1>a, PartRead DEF TalkPcs
  <2>5. Due' = Due /\ Due # 1
    <3>1. Due' = PartNo(want') + Len(replies'[server])
      BY <2>1 DEF Due
    <3> QED
      BY <3>1, <2>3, <2>4 DEF Due
  <2>6. FitResult(header'.result)
    <3>1. CASE want = "header"
      <4>1. PartNo(replies[server][1].part) = 1 /\ FitPart(replies[server][1])
        BY <3>1, <2>1, <2>4, <1>e DEF RepliesInv, PartNo, TalkPcs
      <4> QED
        BY <4>1, <3>1, <2>1 DEF FitPart, PartNo
    <3>2. CASE want = "stdout"
      BY <3>2, <2>1, <1>e DEF RepliesInv, TalkPcs
    <3> QED
      BY <3>1, <3>2, <2>1
  <2>7. RepliesInv'
    <3>1. ASSUME NEW i \in 1..Len(replies'[server])
          PROVE  /\ PartNo(replies'[server][i].part) = PartNo(want') + i - 1
                 /\ FitPart(replies'[server][i])
      <4>1. i + 1 \in 1..Len(replies[server])
        BY <2>4
      <4>2. PartNo(replies[server][i + 1].part) = PartNo(want) + (i + 1) - 1
            /\ FitPart(replies[server][i + 1])
        BY <4>1, <2>1, <1>e DEF RepliesInv, TalkPcs
      <4> QED
        BY <4>1, <4>2, <2>3, <2>4
    <3> QED
      BY <3>1, <2>1, <2>2, <2>5, <2>6, <1>e
         DEF RepliesInv, FitPart, FitResult, TalkPcs, Waiting, serverVars
  <2>8. LineInv' /\ WorkInv'
    BY <2>1, <2>2, <2>5, <1>e
       DEF LineInv, WorkInv, FitPiece, TalkPcs, Waiting, Answering, Alive, serverVars
  <2> QED
    BY <2>1, <2>7, <2>8 DEF TalkInv, KeptInv, ServedPcs
<1>8. CASE ReadLast
  <2>1. /\ pc = "read" /\ pc' = "idle" /\ want = "stderr" /\ replies[server] # <<>>
        /\ replies'[server] = Tail(replies[server])
        /\ UNCHANGED <<request, server, sources, requests, serverVars>>
    BY <1>8, <1>a, <1>b DEF ReadLast, TalkPcs
  <2>2. Len(replies[server]) = 1 /\ Due = 4
    <3>1. Len(replies[server]) \in Nat \ {0}
      BY <2>1, <1>a, PartRead DEF TalkPcs
    <3>2. PartNo(want) = 3
      BY <2>1 DEF PartNo
    <3>3. Due <= 4
      BY <2>1, <1>e DEF RepliesInv, TalkPcs
    <3>4. Due = 3 + Len(replies[server])
      BY <2>1, <3>1, <3>2, <1>d DEF TalkPcs
    <3>5. \A n \in Nat \ {0} : Due = 3 + n /\ Due <= 4 => n = 1 /\ Due = 4
      OBVIOUS
    <3> QED
      BY <3>1, <3>3, <3>4, <3>5
  <2>3. replies'[server] = <<>>
    <3>1. Tail(replies[server]) \in Seq(PartType) /\ Len(Tail(replies[server])) = 0
      BY <2>1, <2>2, <1>a, PartRead DEF TalkPcs
    <3> QED
      BY <3>1, <2>1, EmptyPipe
  <2>4. Alive(server) => phase[server] = "requests" /\ requests[server] = <<>>
    BY <2>1, <2>2, <1>a, <1>b, <1>e DEF RepliesInv, LineInv, TalkPcs, Phases, Waiting, Alive
  <2>5. sources = request.source
    BY <2>1 DEF Inv, SourcesInv, TalkPcs
  <2> QED
    BY <2>1, <2>2, <2>3, <2>4, <2>5, <1>b, <1>e
       DEF TalkInv, KeptInv, LineInv, RepliesInv, WorkInv, TalkPcs, ServedPcs, Alive, serverVars
<1>9. CASE Tick
  <2>1. /\ clock' # "early"
        /\ UNCHANGED <<pc, request, run, want, header, server, sources, requests, replies,
                       serverVars>>
    BY <1>9 DEF Tick, pipeVars
  <2> QED
    BY <2>1, <1>e
       DEF TalkInv, KeptInv, LineInv, RepliesInv, WorkInv, Due, FitPiece, FitPart, FitResult,
           Alive, serverVars
<1>10. ASSUME Renew \/ SpawnFails \/ SendBreaks \/ ReadBreaks \/ ReadTimesOut
              \/ CloseDescriptors \/ KillGroup \/ WaitForServer \/ Exit \/ Kill
       PROVE  pc' \notin TalkPcs \union ServedPcs \/ (pc' \in ServedPcs /\ server' = None)
  BY <1>10, <1>a DEF Renew, SpawnFails, SendBreaks, ReadBreaks, ReadTimesOut, GiveUp,
     CloseDescriptors, KillGroup, WaitForServer, Exit, Kill, TalkPcs, ServedPcs, StopPcs
<1> QED
  BY <1>1, <1>2, <1>3, <1>4, <1>5, <1>6, <1>7, <1>8, <1>9, <1>10 DEF ProgramSteps

\* The whole invariant, in every reachable state.
THEOREM Invariant == Spec => []Inv
<1>1. Init => SourcesInv /\ TalkInv
  BY DEF Init, SourcesInv, ServersDiffer, LastStartInv, TalkInv, KeptInv, LineInv, RepliesInv,
         WorkInv, TalkPcs
<1>2. Inv /\ [Next]_vars => TalkInv' /\ SourcesInv'
  <2> SUFFICES ASSUME Inv, [Next]_vars
               PROVE  TalkInv' /\ SourcesInv'
    OBVIOUS
  <2>1. SourcesInv'
    BY SourcesInvStep DEF Inv, LivesInv
  <2>2. ASSUME NEW g \in Servers,
               ServerSteps(g) \/ ChildSteps(g) \/ Expire(g) \/ Crash(g) \/ Stop(g)
        PROVE  TalkInv'
    <3>1. CASE pc \in ServedPcs
      BY <2>2, <3>1, KeptStep
    <3>2. CASE pc \in TalkPcs
      BY <2>2, <3>2, TalkStep
    <3>3. CASE pc \notin ServedPcs \union TalkPcs
      BY <2>2, <3>3, ServerStepFrame DEF TalkInv, KeptInv, LineInv, RepliesInv, WorkInv
    <3> QED
      BY <3>1, <3>2, <3>3
  <2>3. CASE UNCHANGED vars
    <3>1. UNCHANGED <<pc, request, run, clock, want, header, server, sources, requests, replies,
                      phase, holds, job, child, expired, timedOut>>
      BY <2>3 DEF vars
    <3>2. KeptInv'
      BY <3>1 DEF Inv, TalkInv, KeptInv, Alive
    <3>3. LineInv'
      BY <3>1 DEF Inv, TalkInv, LineInv, FitPiece, Due, Alive
    <3>4. RepliesInv'
      BY <3>1 DEF Inv, TalkInv, RepliesInv, FitPart, FitResult, Due
    <3>5. WorkInv'
      BY <3>1 DEF Inv, TalkInv, WorkInv, Due
    <3> QED
      BY <2>1, <3>2, <3>3, <3>4, <3>5 DEF TalkInv
  <2> QED
    BY <2>1, <2>2, <2>3, ProgramTalkStep DEF Next, Ended
<1>3. LivesInv /\ TypeInv /\ SourcesInv /\ TalkInv <=> Inv
  BY DEF Inv
<1> QED
  BY <1>1, <1>2, <1>3, TypeInvariant, LivesInvariant, PTL DEF Spec

\* When run has returned or raised, and while a process of its own gives the answer
\* instead, no child of any server is left: _wait_for has reaped it, or _stop_server
\* has killed its group.
THEOREM ChildrenReaped == Spec => []ChildReapedOnReturn
<1>1. Inv => ChildReapedOnReturn
  <2> SUFFICES ASSUME Inv, pc \in {"idle", "once"}, NEW g \in Servers
               PROVE  child[g] = "none"
    BY DEF ChildReapedOnReturn
  <2>1. CASE g = server
    BY <2>1 DEF Inv, TalkInv, KeptInv, ServedPcs
  <2>2. CASE g # server
    BY <2>2 DEF Inv, LivesInv, ServersInv, Placed, Left
  <2> QED
    BY <2>1, <2>2
<1> QED
  BY <1>1, Invariant, PTL

\* What the program is about to read is the part it wants, of the answer to this very
\* run, from a server that read this run's sources: however the runs before it ended,
\* nothing of theirs is left in the pipe.
THEOREM AnswersFit == Spec => []AnswersLineUp
<1>1. Inv => AnswersLineUp
  <2> SUFFICES ASSUME Inv, pc = "read", replies[server] # <<>>
               PROVE  LET part == Head(replies[server])
                      IN  /\ part.part = want
                          /\ part.source = request.source
                          /\ want # "ready" => part.run = run
    BY DEF AnswersLineUp
  <2>1. TypeOK /\ server \in Servers
    BY DEF Inv, TypeInv, TypeOK, TalkPcs
  <2>2. 1 \in 1..Len(replies[server]) /\ Head(replies[server]) = replies[server][1]
        /\ Head(replies[server]) \in PartType
    BY <2>1, PartRead
  <2>3. /\ PartNo(Head(replies[server]).part) = PartNo(want)
        /\ FitPart(Head(replies[server]))
    <3>1. PartNo(want) \in 0..3
      BY <2>1 DEF PartNo, TypeOK
    <3> QED
      BY <3>1, <2>2 DEF Inv, TalkInv, RepliesInv, TalkPcs
  <2>4. Head(replies[server]).part = want
    <3>1. want \in {"ready", "header", "stdout", "stderr"}
      BY <2>1 DEF TypeOK
    <3> QED
      BY <3>1, <2>3 DEF PartNo
  <2> QED
    BY <2>3, <2>4 DEF FitPart
<1> QED
  BY <1>1, Invariant, PTL

-----------------------------------------------------------------------------
(* The promise. *)

\* Where each place in the code leaves a run, for the caller.
LEMMA StateValues ==
  /\ pc = "idle" => PromiseState = "idle"
  /\ pc \in {"exited", "killed"} => PromiseState = "left"
  /\ pc # "idle" /\ after = "exited" => PromiseState = "left"
  /\ pc \notin {"idle", "exited", "killed"} /\ after # "exited" => PromiseState = "busy"
BY DEF PromiseState

\* What the last part of an answer has run return is what a process of its own may
\* return, and a timeout only past the deadline.
LEMMA Answers ==
  ASSUME Inv, ReadLast
  PROVE  /\ result' \in Promise!OnceResults(request)
         /\ result' = "timeout" => clock # "early"
<1>1. pc = "read" /\ want = "stderr" /\ result' = header.result /\ replies[server] # <<>>
  BY DEF ReadLast
<1>2. FitResult(header.result) /\ request.op = "elaborate" /\ request \in Requests
      /\ request.does # "timeout"
  BY <1>1 DEF Inv, TypeInv, TypeOK, LivesInv, ProgramInv, TalkInv, RepliesInv, TalkPcs, Requests
<1>3. Loads[request.source] = "loads"
  <2>1. PartNo(want) = 3 /\ Len(replies[server]) \in Nat
    BY <1>1, PartRead DEF PartNo, Inv, TypeInv, TypeOK, TalkPcs
  <2>2. 0 < Due
    BY <2>1 DEF Due
  <2> QED
    BY <1>1, <2>2 DEF Inv, TalkInv, WorkInv, TalkPcs
<1>4. Promise!OnceResults(request) = ({request.does} \ {"hangs"}) \union {"timeout"}
  BY <1>2, <1>3 DEF Promise!OnceResults
<1> QED
  BY <1>1, <1>2, <1>4 DEF FitResult

\* The program and its servers implement ToolPromise: each call of run asks, its return
\* answers as run_once would, its end leaves, and every other step, of the servers
\* above all, is a stutter.
THEOREM Implementation == Spec => GivesOnceAnswers
<1>1. Init => Promise!PromiseInit
  BY StateValues DEF Init, Promise!PromiseInit, Requests, Promise!Requests
<1>2. Inv /\ [Next]_vars => [Promise!PromiseNext]_(Promise!promiseVars)
  <2> SUFFICES ASSUME Inv, [Next]_vars
               PROVE  [Promise!PromiseNext]_(Promise!promiseVars)
    OBVIOUS
  <2>a. /\ pc \in StopPcs => after \in {"spawn", "once", "exited"}
        /\ pc \in ServedPcs \union TalkPcs \union {"spawn"} => after # "exited"
    BY DEF Inv, LivesInv, ProgramInv
  <2>b. ASSUME UNCHANGED <<PromiseState, request, clock, result>>
        PROVE  UNCHANGED Promise!promiseVars
    BY <2>b DEF Promise!promiseVars
  <2>1. CASE Run
    <3>1. PromiseState = "idle" /\ PromiseState' = "busy"
      BY <2>1, StateValues DEF Run, PromiseState
    <3> QED
      BY <2>1, <3>1 DEF Run, Promise!PromiseNext, Promise!Ask, Promise!Requests, Requests
  <2>2. CASE Tick
    <3>1. PromiseState = "busy" /\ PromiseState' = "busy"
      BY <2>2, <2>a DEF Tick, PromiseState, ServedPcs, TalkPcs
    <3> QED
      BY <2>2, <3>1 DEF Tick, Promise!PromiseNext, Promise!Wait
  <2>3. CASE RunOnce \/ ReadLast
    <3>1. PromiseState = "busy" /\ PromiseState' = "idle" /\ UNCHANGED <<request, clock>>
      BY <2>3, <2>a DEF RunOnce, ReadLast, PromiseState, ServedPcs, TalkPcs
    <3>2. /\ result' \in Promise!OnceResults(request)
          /\ result' = "timeout" => clock # "early"
      BY <2>3, Answers DEF RunOnce
    <3> QED
      BY <3>1, <3>2 DEF Promise!PromiseNext, Promise!Answer
  <2>4. CASE Exit \/ Kill
    <3>1. (PromiseState # "left" /\ PromiseState' = "left") \/ UNCHANGED PromiseState
      BY <2>4, <2>a DEF Exit, Kill, PromiseState, ServedPcs, TalkPcs
    <3>2. UNCHANGED <<request, clock, result>>
      BY <2>4 DEF Exit, Kill
    <3> QED
      BY <3>1, <3>2, <2>b DEF Promise!PromiseNext, Promise!Leave
  <2>5. CASE Reuse \/ Renew \/ Spawn \/ SpawnFails
    <3>1. UNCHANGED <<PromiseState, request, clock, result>>
      BY <2>5, <2>a DEF Reuse, Renew, Spawn, SpawnFails, PromiseState, ServedPcs
    <3> QED
      BY <3>1, <2>b
  <2>6. CASE Send \/ SendBreaks \/ ReadBreaks \/ ReadTimesOut \/ ReadReady \/ ReadPart
    <3>1. UNCHANGED <<PromiseState, request, clock, result>>
      BY <2>6, <2>a DEF Send, SendBreaks, ReadBreaks, ReadTimesOut, GiveUp, ReadReady, ReadPart,
         PromiseState, TalkPcs
    <3> QED
      BY <3>1, <2>b
  <2>7. CASE CloseDescriptors \/ KillGroup \/ WaitForServer
    <3>1. UNCHANGED <<PromiseState, request, clock, result>>
      BY <2>7, <2>a DEF CloseDescriptors, KillGroup, WaitForServer, PromiseState, StopPcs
    <3> QED
      BY <3>1, <2>b
  <2>8. ASSUME UNCHANGED <<pc, after, request, clock, result>>
        PROVE  UNCHANGED Promise!promiseVars
    BY <2>8, <2>b DEF PromiseState
  <2> QED
    BY <2>1, <2>2, <2>3, <2>4, <2>5, <2>6, <2>7, <2>8, ServerStepFrame
       DEF Next, ProgramSteps, Ended, vars
<1> QED
  BY <1>1, <1>2, Invariant, PTL DEF Spec, GivesOnceAnswers, Promise!PromiseSpec
=============================================================================

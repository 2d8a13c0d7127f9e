-------------------------- MODULE LiveSession_proofs --------------------------
(***************************************************************************)
(* Proofs about LiveSession, for a hold of any length.                     *)
(***************************************************************************)
EXTENDS LiveSession, FiniteSetTheorems, TLAPS

-----------------------------------------------------------------------------
(* The inductive invariant.  Of a server that is gone it says only what    *)
(* was read before: the injector may then go on for a while, since a       *)
(* remote thread of a server that exited with 0 seems to have returned     *)
(* DWRT_HOST_OK, and nothing it believes of the host need be true.         *)

Alive == server = "alive"
Finishing == {"finish", "terminate", "free", "ended"}
Initialized == {"gate", "mount", "reset", "first", "hold", "poll", "final"}
Mounted == {"reset", "first", "hold", "poll", "final"}
Measured == {"first", "hold", "poll", "final"}

\* Besides the shutdown, one remote thread at most has not returned, even of
\* those that took too long,
Alone == \A c, d \in Calls \ {"shutdown"} : Running(c) /\ Running(d) => c = d

\* and until the injector gives up it is the one that it waits for.
Awaited == Alive /\ at \in Working => \A c \in Calls : Running(c) => waiting /\ c = Call

ShutdownLast == thread["shutdown"] # "none" => at \in Finishing

\* The host is in what the calls that succeeded say, and they succeeded in
\* the order of the stages.
Prepared ==
  Alive /\ at \in Working =>
    /\ thread["initialize"] = "ok" => host.initialized /\ host.hooked = options.install
    /\ thread["mount"] = "ok" => host.mounted
    /\ thread["reset"] = "ok" => host.clean
    /\ at \in Initialized => thread["initialize"] = "ok"
    /\ at \in Mounted => thread["mount"] = "ok"
    /\ at \in Measured => thread["reset"] = "ok"

\* What a passing session needs of a report, the hooks being asked for or not.
Earned(s, install) ==
  /\ s.by = "final"
  /\ s.host.initialized /\ s.host.hooked = install
  /\ s.host.mounted /\ s.host.clean

\* The report that has just been written, and those read before it.
Written == Alive /\ at = "final" /\ waiting /\ thread[Call] = "ok" => Earned(buffer[Call], options.install)
Collected == at = "final" => \A i \in 1 .. report - 1 : Earned(seen[Order[i]], options.install)

Undecided == at \in Working => verdict = "none"

Gone == at = "free" \/ blocks = "freed" \/ (at = "ended" /\ job) => ~Alive

\* What each theorem is proved from: the calls, and what the reports hold.
CallsInv == TypeOK /\ Alone /\ Awaited /\ ShutdownLast
PassInv == CallsInv /\ Prepared /\ Written /\ Collected /\ Undecided /\ PassIsEarned

-----------------------------------------------------------------------------
(* The calls of the stages.                                                *)

LEMMA OrderOfReports ==
  /\ Order[1] = "snapshot" /\ Order[2] = "probe" /\ Order[3] = "walker"
  /\ Order[4] = "fire" /\ Order[5] = "target"
  /\ Reports = {"snapshot", "probe", "walker", "fire", "target"}
  /\ \A i, j \in 1 .. 5 : Order[i] = Order[j] => i = j
<1>1. /\ Order[1] = "snapshot" /\ Order[2] = "probe" /\ Order[3] = "walker"
      /\ Order[4] = "fire" /\ Order[5] = "target"
  BY DEF Order
<1>2. \A i \in 1 .. 5 : i = 1 \/ i = 2 \/ i = 3 \/ i = 4 \/ i = 5
  OBVIOUS
<1>3. Reports = {"snapshot", "probe", "walker", "fire", "target"}
  <2>1. \A r \in Reports : r \in {"snapshot", "probe", "walker", "fire", "target"}
    BY <1>1, <1>2 DEF Reports
  <2>2. \A i \in 1 .. 5 : Order[i] \in Reports
    BY DEF Reports
  <2>3. 1 \in 1 .. 5 /\ 2 \in 1 .. 5 /\ 3 \in 1 .. 5 /\ 4 \in 1 .. 5 /\ 5 \in 1 .. 5
    OBVIOUS
  <2>4. QED
    BY <1>1, <2>1, <2>2, <2>3
<1>4. \A i, j \in 1 .. 5 : Order[i] = Order[j] => i = j
  BY <1>1, <1>2
<1> QED
  BY <1>1, <1>3, <1>4

LEMMA Commands ==
  /\ DOMAIN Command = {"load", "initialize", "mount", "reset", "finish"}
  /\ \A stage \in {"load", "initialize", "mount", "reset"} : Command[stage] = stage
  /\ Command["finish"] = "shutdown"
BY DEF Command

LEMMA NextStages ==
  /\ After["initialize"] = "gate" /\ After["gate"] = "mount" /\ After["mount"] = "reset"
  /\ After["reset"] = "first" /\ After["first"] = "hold" /\ After["poll"] = "hold"
  /\ After["final"] = "finish"
  /\ DOMAIN After = {"initialize", "gate", "mount", "reset", "first", "poll", "final"}
BY DEF After

LEMMA CallFacts ==
  ASSUME TypeOK
  PROVE  /\ at \in Calling => Call \in Calls
         /\ at \in Rounds => Call = Order[report] /\ Call \in Reports
         /\ at \in {"load", "initialize", "mount", "reset"} => Call = at
         /\ at = "finish" => Call = "shutdown"
         /\ at \in Calling /\ at # "finish" => Call # "shutdown"
         /\ Calling = {"gate", "first", "poll", "final", "load", "initialize", "mount", "reset", "finish"}
<1>1. Calling = {"gate", "first", "poll", "final", "load", "initialize", "mount", "reset", "finish"}
  BY Commands DEF Calling, Rounds
<1>2. at \in Rounds => Call = Order[report] /\ Call \in Reports
  BY DEF TypeOK, Call, Reports
<1>3. at \in {"load", "initialize", "mount", "reset"} => Call = at
  BY Commands DEF Call, Rounds
<1>4. at = "finish" => Call = "shutdown"
  BY Commands DEF Call, Rounds
<1>5. at \in Calling => at \in Rounds \/ at \in {"load", "initialize", "mount", "reset"} \/ at = "finish"
  BY <1>1 DEF Rounds
<1> QED
  BY <1>1, <1>2, <1>3, <1>4, <1>5, OrderOfReports DEF Calls

-----------------------------------------------------------------------------
(* Types.                                                                  *)

LEMMA InitTyped == Init => TypeOK
<1>1. Nothing \in Snapshots /\ NoHost \in HostType
  BY DEF Nothing, NoHost, Snapshots, HostType, Stages
<1>2. 0 \in 0 .. HoldTime
  BY LiveAssumption
<1>3. SUFFICES ASSUME Init PROVE TypeOK
  OBVIOUS
<1>4. /\ seen \in [Reports -> Snapshots] /\ buffer \in [Reports -> Snapshots]
      /\ thread \in [Calls -> Threads]
  BY <1>1, <1>3 DEF Init, Threads
<1>5. at \in Stages /\ report \in 1 .. 5 /\ elapsed \in 0 .. HoldTime
  BY <1>2, <1>3 DEF Init, Stages
<1>6. QED
  BY <1>1, <1>3, <1>4, <1>5 DEF Init, TypeOK

LEMMA Entered ==
  ASSUME NEW stage \in Stages, Enter(stage)
  PROVE  at' = stage /\ report' \in 1 .. 5
BY DEF Enter, FirstReport

LEMMA Finished ==
  ASSUME NEW v, Finish(v)
  PROVE  at' \in {"terminate", "finish"} /\ at' \in Stages /\ report' = 1 /\ verdict' = v
<1>1. Enter(IF at \in {"start", "load"} THEN "terminate" ELSE "finish") /\ verdict' = v
  BY DEF Finish
<1>2. QED
  BY <1>1 DEF Enter, Rounds, Stages

\* What the types say of the injector, and of the process with the server.
InjectorType ==
  /\ options \in Options /\ job \in BOOLEAN
  /\ at \in Stages /\ report \in 1 .. 5 /\ waiting \in BOOLEAN /\ elapsed \in 0 .. HoldTime
  /\ seen \in [Reports -> Snapshots]
  /\ verdict \in {"none", "error", "gate", "recursion", "pass"}
  /\ blocks \in {"none", "allocated", "freed"}
  /\ waiting => at \in Calling
ProcessType ==
  /\ thread \in [Calls -> Threads] /\ mutex \in {"none", "initialize"}
  /\ buffer \in [Reports -> Snapshots]
  /\ host \in HostType /\ server \in {"alive", "exited 0", "crashed"}

LEMMA InjectorTypeStep ==
  ASSUME TypeOK, Injector
  PROVE  InjectorType'
<1>a. /\ options \in Options /\ job \in BOOLEAN /\ waiting \in BOOLEAN
      /\ at \in Stages /\ report \in 1 .. 5 /\ elapsed \in 0 .. HoldTime
      /\ waiting => at \in Calling
  BY DEF TypeOK
<1>0. /\ Calling = {"gate", "first", "poll", "final", "load", "initialize", "mount", "reset", "finish"}
      /\ \A v \in {"error", "gate", "recursion", "pass"} : Finish(v) =>
            at' \in Stages /\ report' \in 1 .. 5 /\ verdict' \in {"none", "error", "gate", "recursion", "pass"}
      /\ \A stage \in Stages : Enter(stage) => at' \in Stages /\ report' \in 1 .. 5
      /\ \A stage \in DOMAIN After : After[stage] \in Stages
  <2>1. \A stage \in DOMAIN After : After[stage] \in Stages
    BY NextStages DEF Stages
  <2>2. \A stage \in Stages : Enter(stage) => at' \in Stages /\ report' \in 1 .. 5
    BY Entered
  <2>3. \A v \in {"error", "gate", "recursion", "pass"} : Finish(v) =>
            at' \in Stages /\ report' \in 1 .. 5 /\ verdict' \in {"none", "error", "gate", "recursion", "pass"}
    <3>1. \A v : Finish(v) => at' \in Stages /\ report' = 1 /\ verdict' = v
      BY Finished
    <3>2. QED
      BY <3>1
  <2>4. QED
    BY <2>1, <2>2, <2>3, CallFacts
<1> USE DEF TypeOK, InjectorType
<1>1. CASE GiveUp
  BY <1>0, <1>1 DEF GiveUp
<1>2. CASE FindServer
  BY <1>0, <1>2 DEF FindServer, Stages
<1>3. CASE StartCall
  BY <1>3 DEF StartCall
<1>4. CASE Timeout
  BY <1>0, <1>4 DEF Timeout, Stages
<1>5. CASE LoadEnds
  BY <1>0, <1>5 DEF LoadEnds, Stages
<1>6. CASE CommandEnds
  <2>1. at \in DOMAIN After
    BY <1>6 DEF CommandEnds, After
  <2>2. QED
    BY <1>0, <1>6, <2>1 DEF CommandEnds
<1>7. CASE ReadEnds
  <2>1. at \in DOMAIN After /\ Call \in Reports
    BY <1>7, CallFacts DEF ReadEnds, After, Rounds
  <2>2. UNCHANGED <<options, job, elapsed, blocks>> /\ waiting' = FALSE
    BY <1>7 DEF ReadEnds
  <2>3. seen' \in [Reports -> Snapshots]
    BY <1>7, <2>1 DEF ReadEnds
  <2>4. /\ at' \in Stages /\ report' \in 1 .. 5
        /\ verdict' \in {"none", "error", "gate", "recursion", "pass"}
    <3>1. CASE ~(Status(Call) /\ CanRead)
      BY <1>0, <1>7, <3>1 DEF ReadEnds
    <3>2. CASE report < LastReport(at) /\ Status(Call) /\ CanRead
      <4>1. report' = report + 1 /\ UNCHANGED <<at, verdict>>
        BY <1>7, <3>2 DEF ReadEnds
      <4>2. QED
        <5>1. LastReport(at) \in {1, 5}
          BY DEF LastReport
        <5>2. report' \in 1 .. 5
          <6> HIDE DEF TypeOK
          <6>1. QED
            BY <1>a, <3>2, <4>1, <5>1
        <5>3. QED
          BY <4>1, <5>2
    <3>3. CASE ~(report < LastReport(at)) /\ Status(Call) /\ CanRead
      <4>1. CASE at = "gate" /\ ~GateHolds(seen'["snapshot"].host)
        BY <1>0, <1>7, <3>3, <4>1 DEF ReadEnds
      <4>2. CASE at = "final"
        BY <1>0, <1>7, <3>3, <4>2 DEF ReadEnds
      <4>3. CASE ~(at = "gate" /\ ~GateHolds(seen'["snapshot"].host)) /\ at # "final"
        BY <1>0, <1>7, <2>1, <3>3, <4>3 DEF ReadEnds
      <4>4. QED
        BY <4>1, <4>2, <4>3
    <3>4. QED
      BY <3>1, <3>2, <3>3
  <2>5. QED
    BY <2>2, <2>3, <2>4
<1>8. CASE ShutdownEnds
  BY <1>0, <1>8 DEF ShutdownEnds, Stages
<1>9. CASE SkipShutdown
  BY <1>0, <1>9 DEF SkipShutdown, Stages
<1>10. CASE Hold
  <2>1. waiting = FALSE
    BY <1>0, <1>10 DEF Hold
  <2>2. elapsed' \in 0 .. HoldTime
    <3>1. \/ elapsed' = elapsed \/ elapsed' = elapsed + 1 \/ elapsed' \in (elapsed + 1) .. HoldTime
      BY <1>10 DEF Hold
    <3>2. elapsed < HoldTime /\ elapsed \in 0 .. HoldTime
      BY <1>10 DEF Hold, HoldGoesOn
    <3> HIDE DEF TypeOK
    <3>3. QED
      BY <3>1, <3>2, LiveAssumption
  <2>3. /\ at' \in Stages /\ report' \in 1 .. 5
        /\ verdict' \in {"none", "error", "gate", "recursion", "pass"}
    <3>1. \/ Finish("error")
          \/ UNCHANGED <<at, report, verdict>>
          \/ Enter("poll") /\ UNCHANGED verdict
          \/ Enter("final") /\ UNCHANGED verdict
      BY <1>10 DEF Hold
    <3>2. QED
      BY <1>0, <3>1 DEF Stages
  <2>4. QED
    BY <1>10, <2>1, <2>2, <2>3 DEF Hold
<1>11. CASE EndHold
  BY <1>0, <1>11 DEF EndHold, Stages
<1>12. CASE Terminate
  BY <1>0, <1>12 DEF Terminate, Stages
<1>13. CASE Free
  BY <1>0, <1>13 DEF Free, Stages
<1>14. QED
  BY <1>1, <1>2, <1>3, <1>4, <1>5, <1>6, <1>7, <1>8, <1>9, <1>10, <1>11, <1>12, <1>13 DEF Injector

LEMMA ProcessTypeStep ==
  ASSUME TypeOK, Next
  PROVE  ProcessType'
<1> USE DEF TypeOK, ProcessType
<1>1. CASE Injector
  <2>1. CASE StartCall
    BY <2>1, CallFacts DEF StartCall, Threads
  <2>2. CASE Terminate
    BY <2>2 DEF Terminate
  <2>3. CASE UNCHANGED process
    BY <2>3 DEF process
  <2>4. QED
    BY <1>1, <2>1, <2>2, <2>3 DEF Injector, GiveUp, FindServer, Timeout, LoadEnds, CommandEnds,
       ReadEnds, ShutdownEnds, SkipShutdown, Hold, EndHold, Free
<1>2. CASE InjectorDies
  BY <1>2 DEF InjectorDies, CloseJob
<1>3. CASE LoadLibrary
  BY <1>3 DEF LoadLibrary, Return, Threads, HostType
<1>4. CASE InitializeBegins
  BY <1>4 DEF InitializeBegins, Return, Threads
<1>5. CASE InitializeEnds
  <2>1. PICK initialized \in BOOLEAN, status \in {"ok", "failed"} :
          /\ Return("initialize", status)
          /\ host' = [host EXCEPT !.initialized = initialized,
                                  !.hooked = initialized /\ options.install]
    BY <1>5 DEF InitializeEnds
  <2>2. host' \in HostType
    BY <2>1 DEF HostType
  <2>3. thread' \in [Calls -> Threads]
    BY <2>1 DEF Return, Threads
  <2>4. QED
    BY <1>5, <2>2, <2>3 DEF InitializeEnds
<1>6. CASE Mount
  BY <1>6 DEF Mount, Return, Threads, HostType
<1>7. CASE Reset
  BY <1>7 DEF Reset, Return, Threads, HostType
<1>8. ASSUME NEW r \in Reports, Report(r)
      PROVE  ProcessType'
  <2>1. [by |-> at, host |-> host] \in Snapshots
    BY DEF Snapshots
  <2>2. thread' \in [Calls -> Threads] /\ buffer' \in [Reports -> Snapshots]
    BY <1>8, <2>1 DEF Report, Return, Threads
  <2>3. QED
    BY <1>8, <2>2 DEF Report
<1>9. CASE Shutdown
  BY <1>9 DEF Shutdown, Return, Threads, HostType
<1>10. CASE RecursiveCallback
  BY <1>10 DEF RecursiveCallback, HostType
<1>11. CASE ServerExits
  BY <1>11 DEF ServerExits
<1>12. QED
  BY <1>1, <1>2, <1>3, <1>4, <1>5, <1>6, <1>7, <1>8, <1>9, <1>10, <1>11 DEF Next, Process

LEMMA TypeStep ==
  ASSUME TypeOK, [Next]_vars
  PROVE  TypeOK'
<1>1. CASE UNCHANGED vars
  BY <1>1 DEF vars, injector, process, TypeOK
<1>2. CASE Injector
  BY <1>2, InjectorTypeStep, ProcessTypeStep, Zenon DEF Next, TypeOK, InjectorType, ProcessType
<1>3. CASE InjectorDies
  <2>1. InjectorType'
    BY <1>3, Entered DEF InjectorDies, TypeOK, InjectorType, Stages
  <2>2. QED
    BY <1>3, <2>1, ProcessTypeStep, Zenon DEF Next, TypeOK, InjectorType, ProcessType
<1>4. CASE Process
  <2>1. UNCHANGED injector
    BY <1>4 DEF Process, LoadLibrary, InitializeBegins, InitializeEnds, Mount, Reset, Report,
       Shutdown, RecursiveCallback, ServerExits
  <2>2. InjectorType'
    BY <2>1 DEF injector, TypeOK, InjectorType
  <2>3. QED
    BY <1>4, <2>2, ProcessTypeStep, Zenon DEF Next, TypeOK, InjectorType, ProcessType
<1>5. QED
  BY <1>1, <1>2, <1>3, <1>4 DEF Next

\* TypeOK: every stage, call and snapshot is one the injector and the host
\* have, whatever the length of the hold.
THEOREM TypeCorrect == Spec => []TypeOK
BY InitTyped, TypeStep, PTL DEF Spec

-----------------------------------------------------------------------------
(* What the steps of the injector and of the process do to each other.     *)

LEMMA StageFacts ==
  /\ Working = Stages \ Finishing /\ Finishing \subseteq Stages
  /\ Working = {"start", "load", "initialize", "gate", "mount", "reset", "first", "hold", "poll", "final"}
BY DEF Working, Stages, Finishing

\* At what stage a call is.
LEMMA CallAt ==
  ASSUME TypeOK, at \in Calling
  PROVE  /\ \A stage \in {"load", "initialize", "mount", "reset"} : Call = stage => at = stage
         /\ Call = "shutdown" <=> at = "finish"
         /\ Call \in Reports <=> at \in Rounds
<1>1. at \in Rounds \/ at \in {"load", "initialize", "mount", "reset"} \/ at = "finish"
  BY CallFacts DEF Rounds
<1>2. QED
  BY <1>1, CallFacts, OrderOfReports

\* The injector goes on from a call of a living server only with the answer.
LEMMA InjectorMoves ==
  ASSUME TypeOK, Injector, ~StartCall
  PROVE  /\ UNCHANGED <<options, job, thread, mutex, buffer, host>> /\ (Alive' => Alive)
         /\ waiting' = FALSE
         /\ at' \in Working => at \in Working
         /\ at' \in Working /\ waiting /\ Alive => ~Running(Call)
<1> USE DEF process, Alive
<1>0. /\ \A v : Finish(v) => at' \in Finishing
      /\ \A stage : Enter(stage) => at' = stage
      /\ \A stage \in Finishing : stage \notin Working
      /\ at \in Calling => at \in Working \/ at = "finish"
  <2>1. \A v : Finish(v) => at' \in Finishing
    BY Finished DEF Finishing
  <2>2. \A stage : Enter(stage) => at' = stage
    BY DEF Enter
  <2>3. QED
    BY <2>1, <2>2, CallFacts, StageFacts
<1>1. CASE GiveUp
  BY <1>0, <1>1 DEF GiveUp
<1>2. CASE FindServer
  BY <1>0, <1>2, CallFacts, StageFacts DEF FindServer, TypeOK
<1>3. CASE Timeout
  <2>1. at' \in Finishing
    BY <1>0, <1>3 DEF Timeout, Finishing
  <2>2. QED
    BY <1>0, <1>3, <2>1 DEF Timeout
<1>4. CASE LoadEnds
  <2>1. at = "load" /\ Call = "load" /\ at \in Working
    BY <1>4, CallFacts, StageFacts DEF LoadEnds
  <2>2. QED
    BY <1>4, <2>1 DEF LoadEnds, Ended
<1>5. CASE CommandEnds
  <2>1. at \in Working
    BY <1>5, StageFacts DEF CommandEnds
  <2>2. QED
    BY <1>5, <2>1 DEF CommandEnds, Ended
<1>6. CASE ReadEnds
  <2>1. at \in Working
    BY <1>6, StageFacts DEF ReadEnds, Rounds
  <2>2. QED
    BY <1>6, <2>1 DEF ReadEnds, Ended
<1>7. CASE ShutdownEnds
  BY <1>0, <1>7, StageFacts DEF ShutdownEnds, Finishing
<1>8. CASE SkipShutdown
  BY <1>0, <1>8, StageFacts DEF SkipShutdown, Finishing, TypeOK
<1>9. CASE Hold
  <2>1. at \in Working /\ waiting = FALSE
    BY <1>9, CallFacts, StageFacts DEF Hold, TypeOK
  <2>2. QED
    BY <1>9, <2>1 DEF Hold
<1>10. CASE EndHold
  <2>1. at \in Working /\ waiting = FALSE
    BY <1>10, CallFacts, StageFacts DEF EndHold, TypeOK
  <2>2. QED
    BY <1>10, <2>1 DEF EndHold
<1>11. CASE Terminate
  <2>1. at' \notin Working /\ waiting = FALSE
    BY <1>0, <1>11, CallFacts, StageFacts DEF Terminate, TypeOK
  <2>2. QED
    BY <1>11, <2>1 DEF Terminate
<1>12. CASE Free
  <2>1. at' \notin Working /\ waiting = FALSE
    BY <1>0, <1>12, CallFacts, StageFacts DEF Free, TypeOK
  <2>2. QED
    BY <1>12, <2>1 DEF Free
<1>13. QED
  BY <1>1, <1>2, <1>3, <1>4, <1>5, <1>6, <1>7, <1>8, <1>9, <1>10, <1>11, <1>12 DEF Injector

\* A remote thread only goes on, and only in a living server.
LEMMA ProcessMoves ==
  ASSUME TypeOK, Process
  PROVE  /\ UNCHANGED injector /\ Alive
         /\ \A c \in Calls : Running(c)' => Running(c)
         /\ \A c \in Calls : thread'[c] # thread[c] => Running(c)
<1> USE DEF TypeOK, Alive, Running, Runs, RunsLocked, Return, Calls
<1>1. CASE LoadLibrary
  BY <1>1 DEF LoadLibrary
<1>2. CASE InitializeBegins
  BY <1>2 DEF InitializeBegins
<1>3. CASE InitializeEnds
  <2>1. PICK status \in {"ok", "failed"} : thread' = [thread EXCEPT !["initialize"] = status]
    BY <1>3 DEF InitializeEnds
  <2>2. QED
    BY <1>3, <2>1 DEF InitializeEnds
<1>4. CASE Mount
  BY <1>4 DEF Mount
<1>5. CASE Reset
  BY <1>5 DEF Reset
<1>6. ASSUME NEW r \in Reports, Report(r)
      PROVE  /\ UNCHANGED injector /\ Alive
             /\ \A c \in Calls : Running(c)' => Running(c)
             /\ \A c \in Calls : thread'[c] # thread[c] => Running(c)
  <2>1. PICK status \in {"ok", "failed"} : thread' = [thread EXCEPT ![r] = status]
    BY <1>6 DEF Report
  <2>2. UNCHANGED injector /\ server = "alive" /\ thread[r] = "ready"
    BY <1>6 DEF Report
  <2>3. QED
    BY <2>1, <2>2
<1>7. CASE Shutdown
  BY <1>7 DEF Shutdown
<1>8. CASE RecursiveCallback
  BY <1>8 DEF RecursiveCallback
<1>9. CASE ServerExits
  BY <1>9 DEF ServerExits
<1>10. QED
  BY <1>1, <1>2, <1>3, <1>4, <1>5, <1>6, <1>7, <1>8, <1>9 DEF Process

\* The death of the injector, or nothing at all, keeps it from going on.
LEMMA DeathStops ==
  ASSUME InjectorDies
  PROVE  /\ at' = "ended" /\ at' \notin Working /\ waiting' = FALSE
         /\ UNCHANGED <<options, job, seen, verdict, blocks, thread, buffer, host>>
         /\ job => ~Alive'
BY StageFacts DEF InjectorDies, Enter, CloseJob, Alive, Finishing

LEMMA StartedCall ==
  ASSUME TypeOK, StartCall
  PROVE  /\ UNCHANGED <<options, job, at, report, seen, verdict, blocks, buffer, host, server>>
         /\ at \in Calling /\ ~waiting /\ waiting' = TRUE /\ Alive /\ Call' = Call /\ Call \in Calls
         /\ thread'[Call] = "ready" /\ \A c \in Calls : c # Call => thread'[c] = thread[c]
BY CallFacts DEF TypeOK, StartCall, Alive, Call

-----------------------------------------------------------------------------
(* One call at a time.                                                     *)

LEMMA AloneStep ==
  ASSUME TypeOK, Alone, Awaited, [Next]_vars
  PROVE  Alone'
<1>1. CASE thread' = thread
  BY <1>1 DEF Alone, Running
<1>2. CASE StartCall
  <2>1. CASE at = "finish"
    <3>1. \A c \in Calls \ {"shutdown"} : thread'[c] = thread[c]
      BY <1>2, <2>1, StartedCall, CallFacts
    <3>2. QED
      BY <3>1 DEF Alone, Running
  <2>2. CASE at # "finish"
    <3>1. at \in Working
      BY <1>2, <2>2, StartedCall, CallFacts, StageFacts
    <3>2. \A c \in Calls : ~Running(c)
      BY <1>2, <3>1, StartedCall DEF Awaited
    <3>3. \A c \in Calls : Running(c)' => c = Call
      BY <1>2, <3>2, StartedCall DEF Running
    <3>4. \A c, d \in Calls : Running(c)' /\ Running(d)' => c = d
      BY <3>3
    <3>5. QED
      BY <3>4 DEF Alone
  <2>3. QED
    BY <2>1, <2>2
<1>3. CASE Process
  BY <1>3, ProcessMoves DEF Alone
<1>4. QED
  BY <1>1, <1>2, <1>3, InjectorMoves, DeathStops DEF Next, vars, process

LEMMA AwaitedStep ==
  ASSUME TypeOK, Awaited, [Next]_vars
  PROVE  Awaited'
<1> SUFFICES ASSUME Alive', at' \in Working, NEW c \in Calls, Running(c)'
             PROVE  waiting' /\ c = Call'
  BY DEF Awaited
<1>1. CASE UNCHANGED vars
  BY <1>1 DEF Awaited, vars, injector, process, Alive, Running, Call
<1>2. CASE StartCall
  BY <1>2, StartedCall DEF Awaited, Running
<1>3. CASE Injector /\ ~StartCall
  <2>1. at \in Working /\ Alive /\ Running(c)
    BY <1>3, InjectorMoves DEF Running
  <2>2. waiting /\ c = Call
    BY <2>1 DEF Awaited
  <2>3. QED
    BY <1>3, <2>1, <2>2, InjectorMoves
<1>4. CASE InjectorDies
  BY <1>4, DeathStops
<1>5. CASE Process
  <2>1. Call' = Call /\ waiting' = waiting /\ at' = at
    BY <1>5, ProcessMoves DEF injector, Call
  <2>2. QED
    BY <1>5, <2>1, ProcessMoves DEF Awaited
<1>6. QED
  BY <1>1, <1>2, <1>3, <1>4, <1>5 DEF Next

LEMMA ShutdownStep ==
  ASSUME TypeOK, ShutdownLast, [Next]_vars
  PROVE  ShutdownLast'
<1>0. at' \in Stages /\ "shutdown" \in Calls
  BY TypeStep DEF TypeOK, Calls
<1>1. CASE UNCHANGED vars
  BY <1>1 DEF ShutdownLast, vars, injector, process
<1>2. CASE StartCall
  <2>1. CASE Call = "shutdown"
    BY <1>2, <2>1, StartedCall, CallAt DEF ShutdownLast, Finishing
  <2>2. CASE Call # "shutdown"
    BY <1>0, <1>2, <2>2, StartedCall DEF ShutdownLast
  <2>3. QED
    BY <2>1, <2>2
<1>3. CASE Injector /\ ~StartCall
  BY <1>0, <1>3, InjectorMoves, StageFacts DEF ShutdownLast
<1>4. CASE InjectorDies
  BY <1>4, DeathStops DEF ShutdownLast, Finishing
<1>5. CASE Process
  <2>1. thread'["shutdown"] # thread["shutdown"] => thread["shutdown"] # "none"
    BY <1>0, <1>5, ProcessMoves DEF Running
  <2>2. QED
    BY <1>5, <2>1, ProcessMoves DEF ShutdownLast, injector
<1>6. QED
  BY <1>1, <1>2, <1>3, <1>4, <1>5 DEF Next

LEMMA AloneCounts ==
  ASSUME TypeOK, Alone
  PROVE  Cardinality({c \in Calls : Alive /\ Running(c)} \ {"shutdown"}) <= 1
<1> DEFINE S == {c \in Calls : Alive /\ Running(c)} \ {"shutdown"}
<1>1. \A c, d \in S : c = d
  BY DEF Alone
<1>2. CASE S = {}
  BY <1>2, FS_EmptySet
<1>3. ASSUME NEW c \in S
      PROVE  Cardinality(S) <= 1
  <2>1. S = {c}
    BY <1>1, <1>3
  <2>2. Cardinality({c}) = 1
    BY FS_Singleton
  <2> HIDE DEF S
  <2>3. QED
    BY <2>1, <2>2
<1> HIDE DEF S
<1>4. QED
  BY <1>2, <1>3 DEF S

LEMMA CallsAreAlone ==
  ASSUME CallsInv
  PROVE  OneCallAtATime
<1> DEFINE running == {c \in Calls : server = "alive" /\ Running(c)}
<1>1. Cardinality(running \ {"shutdown"}) <= 1
  BY AloneCounts DEF CallsInv, Alive
<1>2. "shutdown" \in running => at \in Finishing
  BY DEF CallsInv, ShutdownLast, Running
<1>3. ASSUME ~waiting, NEW c \in running
      PROVE  at \in Finishing
  BY <1>3, StageFacts DEF CallsInv, TypeOK, Awaited, Alive
<1>4. QED
  BY <1>1, <1>2, <1>3 DEF OneCallAtATime, Finishing

\* OneCallAtATime: of the functions of the host only the shutdown may run
\* beside another, one that took too long (finish after a time out of
\* run_remote_thread).
THEOREM CallsDoNotOverlap == Spec => []OneCallAtATime
<1>1. Init => CallsInv
  <2>1. Init => Alone /\ Awaited /\ ShutdownLast
    BY DEF Init, Alone, Awaited, ShutdownLast, Running, Calls
  <2>2. QED
    BY <2>1, InitTyped DEF CallsInv
<1>2. CallsInv /\ [Next]_vars => CallsInv'
  BY TypeStep, AloneStep, AwaitedStep, ShutdownStep DEF CallsInv
<1>3. QED
  BY <1>1, <1>2, CallsAreAlone, PTL DEF Spec

-----------------------------------------------------------------------------
(* The end of the session: the server is gone before the memory is given   *)
(* back and before the injector is.                                        *)

LEMMA GoneStep ==
  ASSUME TypeOK, Gone, [Next]_vars
  PROVE  Gone'
<1> USE DEF Gone
<1>1. CASE UNCHANGED vars
  BY <1>1 DEF vars, injector, process, Alive
<1>2. CASE StartCall
  BY <1>2, StartedCall DEF Alive
<1>3. CASE Injector /\ ~StartCall
  <2>1. (Alive' => Alive) /\ job' = job
    BY <1>3, InjectorMoves
  <2>2. \A v : Finish(v) => at' \notin {"free", "ended"}
    BY Finished
  <2>3. \A stage : Enter(stage) => at' = stage
    BY DEF Enter
  <2>4. CASE Terminate
    BY <2>3, <2>4 DEF Terminate, Alive
  <2>5. CASE Free
    BY <2>1, <2>3, <2>5 DEF Free
  <2>6. CASE CommandEnds \/ ReadEnds
    <3>1. at' \notin {"free", "ended"}
      <4>1. After[at] \notin {"free", "ended"} \/ at \notin DOMAIN After
        BY NextStages
      <4>2. at \in DOMAIN After
        BY <2>6, NextStages DEF CommandEnds, ReadEnds, Rounds
      <4>3. CASE CommandEnds
        BY <2>2, <2>3, <4>1, <4>2, <4>3 DEF CommandEnds
      <4>4. CASE ReadEnds
        <5>1. at \notin {"free", "ended"}
          BY <4>2, NextStages
        <5>2. CASE ~(Status(Call) /\ CanRead)
          BY <2>2, <4>4, <5>2 DEF ReadEnds
        <5>3. CASE report < LastReport(at) /\ Status(Call) /\ CanRead
          BY <4>4, <5>1, <5>3 DEF ReadEnds
        <5>4. CASE ~(report < LastReport(at)) /\ Status(Call) /\ CanRead
          <6>1. (\E v : Finish(v)) \/ Enter(After[at])
            BY <4>4, <5>4, Zenon DEF ReadEnds
          <6>2. QED
            BY <2>2, <2>3, <4>1, <4>2, <6>1
        <5>5. QED
          BY <5>2, <5>3, <5>4
      <4>5. QED
        BY <2>6, <4>3, <4>4
    <3>2. blocks' = blocks
      BY <2>6 DEF CommandEnds, ReadEnds
    <3>3. QED
      BY <2>1, <3>1, <3>2
  <2>7. CASE Hold
    <3>1. at' \notin {"free", "ended"} /\ blocks' = blocks
      BY <2>2, <2>3, <2>7 DEF Hold
    <3>2. QED
      BY <2>1, <3>1
  <2>8. CASE GiveUp \/ FindServer \/ Timeout \/ LoadEnds \/ ShutdownEnds \/ SkipShutdown \/ EndHold
    <3>1. at' \notin {"free", "ended"} /\ blocks' \in {blocks, "allocated"}
      BY <2>2, <2>3, <2>8 DEF GiveUp, FindServer, Timeout, LoadEnds, ShutdownEnds, SkipShutdown, EndHold
    <3>2. QED
      BY <2>1, <3>1
  <2>9. QED
    BY <1>3, <2>4, <2>5, <2>6, <2>7, <2>8 DEF Injector
<1>4. CASE InjectorDies
  <2>1. Alive' => Alive
    BY <1>4 DEF InjectorDies, CloseJob, Alive
  <2>2. QED
    BY <1>4, <2>1, DeathStops
<1>5. CASE Process
  BY <1>5, ProcessMoves DEF injector
<1>6. QED
  BY <1>1, <1>2, <1>3, <1>4, <1>5 DEF Next

LEMMA AlwaysGone == Spec => []Gone
<1>1. Init => Gone
  BY DEF Init, Gone
<1>2. QED
  BY <1>1, GoneStep, TypeCorrect, PTL DEF Spec

\* BlocksOutliveThreads: the memory of the remote threads is given back only
\* when no server is left to run them (TerminateProcess before the
\* destructors of RemoteAllocation).
THEOREM BlocksAreSafe == Spec => []BlocksOutliveThreads
<1>1. Gone => BlocksOutliveThreads
  BY DEF Gone, Alive, BlocksOutliveThreads
<1>2. QED
  BY <1>1, AlwaysGone, PTL

\* ServerEndsWithInjector: however the injector ends, a server in its job is
\* gone by then (assign_kill_on_close_job).
THEOREM ServerEnds == Spec => []ServerEndsWithInjector
<1>1. Gone => ServerEndsWithInjector
  BY DEF Gone, Alive, ServerEndsWithInjector
<1>2. QED
  BY <1>1, AlwaysGone, PTL

-----------------------------------------------------------------------------
(* What a session has been told when it passes.                            *)

\* The injector reaches a stage after the call that the stage needs.
LEMMA StagesInOrder ==
  ASSUME TypeOK, Injector, ~StartCall, at' \in Working
  PROVE  /\ Alive /\ at' \in Initialized => at \in Initialized \/ thread["initialize"] = "ok"
         /\ Alive /\ at' \in Mounted => at \in Mounted \/ thread["mount"] = "ok"
         /\ Alive /\ at' \in Measured => at \in Measured \/ thread["reset"] = "ok"
         /\ verdict' = verdict
<1>0. /\ \A v : Finish(v) => FALSE
      /\ \A stage : Enter(stage) => at' = stage
      /\ ~Enter("terminate") /\ ~Enter("free") /\ ~Enter("ended")
      /\ \A c : Alive /\ Status(c) => thread[c] = "ok"
  <2>1. \A v : ~Finish(v)
    BY Finished, StageFacts DEF Finishing
  <2>2. \A stage : Enter(stage) => at' = stage
    BY DEF Enter
  <2>3. \A c : Alive /\ Status(c) => thread[c] = "ok"
    BY DEF Status, Alive
  <2>4. QED
    BY <2>1, <2>2, <2>3, StageFacts DEF Finishing
<1> USE DEF Initialized, Mounted, Measured
<1>1. CASE ReadEnds
  <2>1. at \in {"gate", "first", "poll", "final"}
    BY <1>1 DEF ReadEnds, Rounds
  <2>2. CASE report < LastReport(at)
    BY <1>0, <1>1, <2>2 DEF ReadEnds
  <2>3. CASE ~(report < LastReport(at))
    <3>1. Enter(After[at]) /\ verdict' = verdict
      BY <1>0, <1>1, <2>3, Zenon DEF ReadEnds
    <3>2. at' = After[at]
      BY <1>0, <3>1
    <3>3. QED
      BY <2>1, <3>1, <3>2, NextStages
  <2>4. QED
    BY <2>2, <2>3
<1>2. CASE CommandEnds
  <2>1. at \in {"initialize", "mount", "reset"} /\ Status(Call) /\ Enter(After[at]) /\ verdict' = verdict
    BY <1>0, <1>2 DEF CommandEnds
  <2>2. Call = at /\ (Alive => thread[at] = "ok") /\ at' = After[at]
    BY <1>0, <2>1, CallFacts
  <2>3. QED
    BY <2>1, <2>2, NextStages
<1>3. CASE Hold
  BY <1>0, <1>3 DEF Hold
<1>4. CASE GiveUp \/ FindServer \/ Timeout \/ LoadEnds \/ ShutdownEnds \/ SkipShutdown \/ EndHold
           \/ Terminate \/ Free
  BY <1>0, <1>4 DEF GiveUp, FindServer, Timeout, LoadEnds, ShutdownEnds, SkipShutdown, EndHold, Terminate, Free
<1>5. QED
  BY <1>1, <1>2, <1>3, <1>4 DEF Injector

\* While the injector works, a running call is the one it waits for.
LEMMA RunningCall ==
  ASSUME TypeOK, Awaited, Alive, at \in Working, NEW c \in Calls, Running(c)
  PROVE  /\ waiting /\ c = Call /\ at \in Calling /\ c # "shutdown"
         /\ c \in {"load", "initialize", "mount", "reset"} => at = c
         /\ c \in Reports => at \in Rounds
<1>1. waiting /\ c = Call /\ at \in Calling
  BY DEF Awaited, TypeOK
<1>2. at # "finish"
  BY StageFacts DEF Finishing
<1>3. QED
  BY <1>1, <1>2, CallAt

LEMMA PreparedByProcess ==
  ASSUME TypeOK, Awaited, Prepared, Process
  PROVE  Prepared'
<1> SUFFICES ASSUME Alive', at' \in Working
             PROVE  Prepared'
  BY DEF Prepared
<1>0. /\ at' = at /\ options' = options /\ Alive /\ at \in Working
      /\ \A c \in Calls : thread'[c] # thread[c] => Running(c)
  BY ProcessMoves DEF injector
<1>a. /\ "initialize" \in Calls /\ "mount" \in Calls /\ "reset" \in Calls /\ "load" \in Calls
      /\ "shutdown" \in Calls
  BY DEF Calls
<1>b. /\ thread["initialize"] = "ok" => host.initialized /\ host.hooked = options.install
      /\ thread["mount"] = "ok" => host.mounted
      /\ thread["reset"] = "ok" => host.clean
      /\ at \in Initialized => thread["initialize"] = "ok"
      /\ at \in Mounted => thread["mount"] = "ok"
      /\ at \in Measured => thread["reset"] = "ok"
  BY <1>0 DEF Prepared
<1>c. /\ Running("initialize") => at = "initialize"
      /\ Running("mount") => at = "mount"
      /\ Running("reset") => at = "reset"
      /\ ~Running("shutdown")
  BY <1>0, <1>a, RunningCall
<1>d. \A c \in Calls : thread[c] = "ok" => thread'[c] = "ok"
  BY <1>0 DEF Running
<1>e. /\ at \in Initialized => thread'["initialize"] = "ok"
      /\ at \in Mounted => thread'["mount"] = "ok"
      /\ at \in Measured => thread'["reset"] = "ok"
  BY <1>a, <1>b, <1>d
<1>f. thread \in [Calls -> Threads] /\ host \in HostType /\ options \in Options
  BY DEF TypeOK
<1>1. CASE LoadLibrary
  <2>1. PICK loaded \in BOOLEAN : host' = [host EXCEPT !.loaded = loaded]
    BY <1>1 DEF LoadLibrary
  <2>2. /\ host'.initialized = host.initialized /\ host'.hooked = host.hooked
        /\ host'.mounted = host.mounted /\ host'.clean = host.clean
    BY <1>f, <2>1 DEF HostType
  <2>3. \A c \in {"initialize", "mount", "reset"} : thread'[c] = thread[c]
    BY <1>1, <1>f, <1>a DEF LoadLibrary, Return
  <2>4. QED
    BY <1>0, <1>b, <1>e, <2>2, <2>3 DEF Prepared
<1>2. CASE InitializeBegins
  <2>1. host' = host /\ thread' = [thread EXCEPT !["initialize"] = "inside"]
    BY <1>2 DEF InitializeBegins, Return
  <2>2. \A c \in {"initialize", "mount", "reset"} : thread'[c] = "ok" => thread[c] = "ok"
    BY <1>f, <1>a, <2>1
  <2>3. QED
    BY <1>0, <1>b, <1>e, <2>1, <2>2 DEF Prepared
<1>3. CASE InitializeEnds
  <2>1. PICK initialized \in BOOLEAN, status \in {"ok", "failed"} :
          /\ status = "ok" => initialized
          /\ thread' = [thread EXCEPT !["initialize"] = status]
          /\ host' = [host EXCEPT !.initialized = initialized,
                                  !.hooked = initialized /\ options.install]
    BY <1>3 DEF InitializeEnds, Return
  <2>2. at = "initialize"
    BY <1>3, <1>c DEF InitializeEnds, Running
  <2>3. at \notin Initialized /\ at \notin Mounted /\ at \notin Measured
    BY <2>2 DEF Initialized, Mounted, Measured
  <2>4. /\ host'.initialized = initialized /\ host'.hooked = (initialized /\ options.install)
        /\ host'.mounted = host.mounted /\ host'.clean = host.clean
    BY <1>f, <2>1 DEF HostType
  <2>5. /\ thread'["mount"] = thread["mount"] /\ thread'["reset"] = thread["reset"]
        /\ thread'["initialize"] = status
    BY <1>f, <1>a, <2>1
  <2>6. thread'["initialize"] = "ok" => host'.initialized /\ host'.hooked = options.install
    <3>1. options.install \in BOOLEAN
      BY <1>f DEF Options
    <3>2. QED
      BY <2>1, <2>4, <2>5, <3>1
  <2>7. QED
    BY <1>0, <1>b, <2>3, <2>4, <2>5, <2>6 DEF Prepared
<1>4. CASE Mount
  <2>1. /\ thread["mount"] = "ready" /\ host' = [host EXCEPT !.mounted = host.initialized]
        /\ thread' = [thread EXCEPT !["mount"] = IF host.initialized THEN "ok" ELSE "failed"]
    BY <1>4 DEF Mount, RunsLocked, Runs, Return
  <2>2. at = "mount"
    BY <1>c, <2>1 DEF Running
  <2>3. /\ host'.initialized = host.initialized /\ host'.hooked = host.hooked
        /\ host'.mounted = host.initialized /\ host'.clean = host.clean
    BY <1>f, <2>1 DEF HostType
  <2>4. /\ thread'["initialize"] = thread["initialize"] /\ thread'["reset"] = thread["reset"]
        /\ thread'["mount"] = "ok" => host.initialized
    BY <1>f, <1>a, <2>1
  <2>5. QED
    BY <1>0, <1>b, <1>e, <2>3, <2>4 DEF Prepared
<1>5. CASE Reset
  <2>1. /\ thread["reset"] = "ready" /\ host' = [host EXCEPT !.clean = host.initialized /\ host.mounted]
        /\ thread' = [thread EXCEPT !["reset"] = IF host.initialized THEN "ok" ELSE "failed"]
    BY <1>5 DEF Reset, RunsLocked, Runs, Return
  <2>2. at = "reset"
    BY <1>c, <2>1 DEF Running
  <2>3. host.mounted /\ host.initialized
    BY <1>b, <2>2 DEF Mounted, Initialized
  <2>4. /\ host'.initialized = host.initialized /\ host'.hooked = host.hooked
        /\ host'.mounted = host.mounted /\ host'.clean
    BY <1>f, <2>1, <2>3 DEF HostType
  <2>5. /\ thread'["initialize"] = thread["initialize"] /\ thread'["mount"] = thread["mount"]
    BY <1>f, <1>a, <2>1
  <2>6. QED
    BY <1>0, <1>b, <1>e, <2>4, <2>5 DEF Prepared
<1>6. ASSUME NEW r \in Reports, Report(r)
      PROVE  Prepared'
  <2>1. PICK status : thread' = [thread EXCEPT ![r] = status]
    BY <1>6, Zenon DEF Report, Return
  <2>2. host' = host
    BY <1>6 DEF Report
  <2>3. \A c \in {"initialize", "mount", "reset"} : thread'[c] = thread[c]
    BY <1>a, <1>f, <2>1, OrderOfReports
  <2>4. QED
    BY <1>0, <1>b, <1>e, <2>2, <2>3 DEF Prepared
<1>7. CASE Shutdown
  BY <1>7, <1>c DEF Shutdown, RunsLocked, Runs, Running
<1>8. CASE RecursiveCallback
  <2>1. thread' = thread /\ host' = [host EXCEPT !.recursive = TRUE]
    BY <1>8 DEF RecursiveCallback
  <2>2. /\ host'.initialized = host.initialized /\ host'.hooked = host.hooked
        /\ host'.mounted = host.mounted /\ host'.clean = host.clean
    BY <1>f, <2>1 DEF HostType
  <2>3. QED
    BY <1>0, <1>b, <2>1, <2>2 DEF Prepared
<1>9. CASE ServerExits
  BY <1>9 DEF ServerExits, Alive
<1>10. QED
  BY <1>1, <1>2, <1>3, <1>4, <1>5, <1>6, <1>7, <1>8, <1>9 DEF Process

LEMMA PreparedStep ==
  ASSUME TypeOK, Awaited, Prepared, [Next]_vars
  PROVE  Prepared'
<1>1. CASE UNCHANGED vars
  BY <1>1 DEF Prepared, vars, injector, process, Alive
<1>2. CASE StartCall
  <2>1. /\ at' = at /\ host' = host /\ options' = options /\ Alive /\ Call \in Calls /\ at \in Calling
        /\ thread'[Call] = "ready" /\ \A c \in Calls : c # Call => thread'[c] = thread[c]
    BY <1>2, StartedCall
  <2>2. /\ Call = "initialize" => at \notin Initialized
        /\ Call = "mount" => at \notin Mounted
        /\ Call = "reset" => at \notin Measured
    BY <2>1, CallAt DEF Initialized, Mounted, Measured
  <2>3. "initialize" \in Calls /\ "mount" \in Calls /\ "reset" \in Calls
    BY DEF Calls
  <2>4. QED
    BY <2>1, <2>2, <2>3 DEF Prepared
<1>3. CASE Injector /\ ~StartCall
  <2> SUFFICES ASSUME Alive', at' \in Working
               PROVE  Prepared'
    BY DEF Prepared
  <2>1. UNCHANGED <<options, thread, host>> /\ Alive /\ at \in Working
    BY <1>3, InjectorMoves
  <2>2. /\ at' \in Initialized => at \in Initialized \/ thread["initialize"] = "ok"
        /\ at' \in Mounted => at \in Mounted \/ thread["mount"] = "ok"
        /\ at' \in Measured => at \in Measured \/ thread["reset"] = "ok"
    BY <1>3, <2>1, StagesInOrder
  <2>3. QED
    BY <2>1, <2>2 DEF Prepared
<1>4. CASE InjectorDies
  BY <1>4, DeathStops DEF Prepared
<1>5. CASE Process
  BY <1>5, PreparedByProcess
<1>6. QED
  BY <1>1, <1>2, <1>3, <1>4, <1>5 DEF Next

LEMMA UndecidedStep ==
  ASSUME TypeOK, Undecided, [Next]_vars
  PROVE  Undecided'
<1>1. CASE UNCHANGED vars
  BY <1>1 DEF Undecided, vars, injector
<1>2. CASE StartCall
  BY <1>2, StartedCall DEF Undecided
<1>3. CASE Injector /\ ~StartCall
  BY <1>3, InjectorMoves, StagesInOrder DEF Undecided
<1>4. CASE InjectorDies
  BY <1>4, DeathStops DEF Undecided
<1>5. CASE Process
  BY <1>5, ProcessMoves DEF Undecided, injector
<1>6. QED
  BY <1>1, <1>2, <1>3, <1>4, <1>5 DEF Next

LEMMA WrittenStep ==
  ASSUME TypeOK, Awaited, Prepared, Written, [Next]_vars
  PROVE  Written'
<1>1. CASE UNCHANGED vars
  BY <1>1 DEF Written, vars, injector, process, Alive, Call, Earned
<1>2. CASE StartCall
  BY <1>2, StartedCall DEF Written
<1>3. CASE Injector /\ ~StartCall
  BY <1>3, InjectorMoves DEF Written
<1>4. CASE InjectorDies
  BY <1>4, DeathStops DEF Written
<1>5. CASE Process
  <2> SUFFICES ASSUME at = "final", waiting, thread'[Call] = "ok"
               PROVE  Earned(buffer'[Call], options.install)
    <3>1. at' = at /\ waiting' = waiting /\ Call' = Call /\ options' = options
      BY <1>5, ProcessMoves DEF injector, Call
    <3>2. QED
      BY <3>1 DEF Written
  <2>1. /\ at \in Working /\ at \in Rounds /\ Call \in Reports /\ Call \in Calls /\ Alive
        /\ at \in Measured /\ at \in Mounted /\ at \in Initialized
    BY <1>5, ProcessMoves, StageFacts, CallFacts DEF Rounds, Calls, Measured, Mounted, Initialized
  <2>2. host.initialized /\ host.hooked = options.install /\ host.mounted /\ host.clean
    BY <2>1 DEF Prepared
  <2>3. thread \in [Calls -> Threads] /\ buffer \in [Reports -> Snapshots]
    BY DEF TypeOK
  <2>4. ASSUME NEW r \in Reports, Report(r)
        PROVE  Earned(buffer'[Call], options.install)
    <3>1. r \in Calls /\ thread[r] = "ready" /\ r = Call
      <4>1. r \in Calls /\ thread[r] = "ready"
        BY <2>4 DEF Report, Runs, RunsLocked, Calls
      <4>2. QED
        BY <2>1, <4>1, RunningCall DEF Running
    <3>2. ~(r = "probe" /\ ~host.initialized)
      BY <2>2
    <3>3. buffer' = [buffer EXCEPT ![r] = [by |-> at, host |-> host]]
      BY <2>4, <3>2 DEF Report
    <3>4. buffer'[Call] = [by |-> at, host |-> host]
      BY <2>3, <3>1, <3>3
    <3>5. QED
      BY <2>2, <3>4 DEF Earned
  <2>5. ASSUME ~\E r \in Reports : Report(r)
        PROVE  buffer' = buffer /\ thread'[Call] = thread[Call]
    <3>1. \A c \in {"load", "initialize", "mount", "reset", "shutdown"} : c # Call
      BY <2>1, OrderOfReports
    <3>2. CASE InitializeEnds
      <4>1. PICK status : thread' = [thread EXCEPT !["initialize"] = status]
        BY <3>2 DEF InitializeEnds, Return
      <4>2. buffer' = buffer
        BY <3>2 DEF InitializeEnds
      <4>3. QED
        BY <2>1, <2>3, <3>1, <4>1, <4>2
    <3>3. CASE ~InitializeEnds
      BY <1>5, <2>1, <2>3, <2>5, <3>1, <3>3 DEF Process, LoadLibrary, InitializeBegins, Mount, Reset,
         Shutdown, RecursiveCallback, ServerExits, Return
    <3>4. QED
      BY <3>2, <3>3
  <2>6. QED
    BY <2>1, <2>4, <2>5 DEF Written
<1>6. QED
  BY <1>1, <1>2, <1>3, <1>4, <1>5 DEF Next

\* The injector reads a report only from a living server, after the answer.
LEMMA ReadFacts ==
  ASSUME TypeOK, ReadEnds
  PROVE  \/ (\E v \in {"error"} : Finish(v)) /\ seen' = seen
         \/ /\ Alive /\ waiting /\ at \in Rounds /\ Call \in Reports /\ Call = Order[report]
            /\ thread[Call] = "ok"
            /\ seen' = [seen EXCEPT ![Call] = buffer[Call]]
            /\ \/ report < LastReport(at) /\ report' = report + 1 /\ UNCHANGED <<at, verdict>>
               \/ /\ ~(report < LastReport(at)) /\ at' # "final"
                  /\ verdict' = "pass" => \/ verdict = "pass"
                                          \/ at = "final" /\ Acceptable(seen'["snapshot"].host)
<1>1. waiting /\ at \in Rounds /\ Call \in Reports /\ Call = Order[report]
  BY CallFacts DEF ReadEnds
<1>2. CASE ~(Status(Call) /\ CanRead)
  BY <1>2 DEF ReadEnds
<1>3. CASE Status(Call) /\ CanRead
  <2>1. Alive /\ thread[Call] = "ok" /\ seen' = [seen EXCEPT ![Call] = buffer[Call]]
    BY <1>3 DEF ReadEnds, CanRead, Alive, Status
  <2>2. CASE report < LastReport(at)
    <3>1. report' = report + 1 /\ UNCHANGED <<at, verdict>>
      BY <1>3, <2>2 DEF ReadEnds
    <3>2. QED
      BY <1>1, <2>1, <2>2, <3>1
  <2>3. CASE ~(report < LastReport(at))
    <3>0. (\A v : Finish(v) => at' # "final" /\ verdict' = v) /\ \A stage : Enter(stage) => at' = stage
      BY Finished DEF Enter
    <3>1. CASE at = "gate" /\ ~GateHolds(seen'["snapshot"].host)
      <4>1. Finish("gate")
        BY <1>3, <2>3, <3>1 DEF ReadEnds
      <4>2. at' # "final" /\ verdict' # "pass"
        BY <3>0, <4>1
      <4>3. QED
        BY <1>1, <2>1, <2>3, <4>2
    <3>2. CASE at = "final"
      <4>1. Finish(IF Acceptable(seen'["snapshot"].host) THEN "pass" ELSE "recursion")
        BY <1>3, <2>3, <3>2 DEF ReadEnds
      <4>2. at' # "final" /\ verdict' = IF Acceptable(seen'["snapshot"].host) THEN "pass" ELSE "recursion"
        BY <3>0, <4>1
      <4>3. QED
        BY <1>1, <2>1, <2>3, <3>2, <4>2
    <3>3. CASE at # "final" /\ ~(at = "gate" /\ ~GateHolds(seen'["snapshot"].host))
      <4>1. Enter(After[at]) /\ verdict' = verdict
        BY <1>3, <2>3, <3>3 DEF ReadEnds
      <4>2. at' # "final"
        BY <1>1, <3>0, <4>1, NextStages DEF Rounds
      <4>3. verdict' = "pass" => verdict = "pass"
        BY <4>1
      <4>4. QED
        BY <1>1, <2>1, <2>3, <4>2, <4>3
    <3>4. QED
      BY <3>1, <3>2, <3>3
  <2>4. QED
    BY <2>2, <2>3
<1>4. QED
  BY <1>2, <1>3

\* The reports read in a round, with the one that is being read.
LEMMA ReadCollects ==
  ASSUME TypeOK, Written, Collected, at = "final", Alive, waiting, thread[Call] = "ok",
         seen' = [seen EXCEPT ![Call] = buffer[Call]]
  PROVE  \A i \in 1 .. report : Earned(seen'[Order[i]], options.install)
<1>1. Call = Order[report] /\ report \in 1 .. 5 /\ seen \in [Reports -> Snapshots]
  BY CallFacts DEF Rounds, TypeOK
<1>2. TAKE i \in 1 .. report
<1>3. i \in 1 .. 5 /\ Order[i] \in Reports
  BY <1>1 DEF Reports
<1>4. CASE i = report
  BY <1>1, <1>3, <1>4 DEF Written
<1>5. CASE i # report
  <2>1. i \in 1 .. report - 1 /\ Order[i] # Call
    BY <1>1, <1>3, <1>5, OrderOfReports
  <2>2. seen'[Order[i]] = seen[Order[i]]
    BY <1>1, <1>3, <2>1
  <2>3. QED
    BY <2>1, <2>2 DEF Collected
<1>6. QED
  BY <1>4, <1>5

LEMMA CollectedStep ==
  ASSUME TypeOK, Written, Collected, [Next]_vars
  PROVE  Collected'
<1> SUFFICES ASSUME at' = "final"
             PROVE  \A i \in 1 .. report' - 1 : Earned(seen'[Order[i]], options'.install)
  BY DEF Collected
<1>1. CASE UNCHANGED <<at, report, seen, options>>
  BY <1>1 DEF Collected
<1>2. CASE Injector /\ ~StartCall
  <2>0. /\ options' = options
        /\ \A v : ~Finish(v)
        /\ \A stage : Enter(stage) => stage = "final" /\ report' = 1
    <3>1. \A v : ~Finish(v)
      BY Finished
    <3>2. \A stage : Enter(stage) => stage = "final" /\ report' = 1
      BY DEF Enter, FirstReport, Rounds
    <3>3. QED
      BY <1>2, <3>1, <3>2, InjectorMoves
  <2>1. CASE report' = 1
    BY <2>1
  <2>2. CASE ReadEnds
    <3>1. /\ Alive /\ waiting /\ at = "final" /\ thread[Call] = "ok"
          /\ seen' = [seen EXCEPT ![Call] = buffer[Call]] /\ report' = report + 1
      BY <2>0, <2>2, ReadFacts
    <3>2. \A i \in 1 .. report : Earned(seen'[Order[i]], options.install)
      BY <3>1, ReadCollects
    <3>3. report \in 1 .. 5
      BY DEF TypeOK
    <3>4. QED
      BY <2>0, <3>1, <3>2, <3>3
  <2>3. CASE Hold
    <3>1. report' = 1
      BY <2>0, <2>3 DEF Hold
    <3>2. QED
      BY <3>1
  <2>4. CASE ~ReadEnds /\ ~Hold
    <3>1. report' = 1
      BY <1>2, <2>0, <2>4 DEF Injector, GiveUp, FindServer, Timeout, LoadEnds, CommandEnds,
         ShutdownEnds, SkipShutdown, EndHold, Terminate, Free
    <3>2. QED
      BY <3>1
  <2>5. QED
    BY <2>2, <2>3, <2>4
<1>3. CASE InjectorDies
  BY <1>3, DeathStops
<1>4. QED
  BY <1>1, <1>2, <1>3, StartedCall, ProcessMoves DEF Next, vars, injector

\* Nothing but the last read makes a session pass.
LEMMA PassStep ==
  ASSUME TypeOK, Written, Collected, Undecided, PassIsEarned, [Next]_vars
  PROVE  PassIsEarned'
<1> SUFFICES ASSUME verdict' = "pass"
             PROVE  /\ \A r \in Reports : Earned(seen'[r], options'.install)
                    /\ seen'["snapshot"].host.recursive => options'.allow_recursive
  BY DEF PassIsEarned, Earned
<1>1. CASE UNCHANGED <<verdict, seen, options>>
  BY <1>1 DEF PassIsEarned, Earned
<1>2. CASE ReadEnds
  <2>1. at \in Working /\ verdict = "none"
    BY <1>2, StageFacts DEF Undecided, ReadEnds, Rounds
  <2>2. \A v \in {"error"} : ~Finish(v)
    BY Finished
  <2>3. /\ Alive /\ waiting /\ at = "final" /\ thread[Call] = "ok"
        /\ seen' = [seen EXCEPT ![Call] = buffer[Call]]
        /\ ~(report < LastReport(at)) /\ Acceptable(seen'["snapshot"].host)
    BY <1>2, <2>1, <2>2, ReadFacts
  <2>4. \A i \in 1 .. report : Earned(seen'[Order[i]], options.install)
    BY <2>3, ReadCollects
  <2>5. report = 5
    <3>1. report \in 1 .. 5
      BY DEF TypeOK
    <3>2. LastReport(at) = 5
      BY <2>3 DEF LastReport
    <3>3. QED
      BY <2>3, <3>1, <3>2
  <2>6. options' = options
    BY <1>2 DEF ReadEnds
  <2>7. QED
    BY <2>3, <2>4, <2>5, <2>6 DEF Reports, Acceptable
<1>3. CASE Injector /\ ~ReadEnds
  <2>1. \A v \in {"error"} : ~Finish(v)
    BY Finished
  <2>2. UNCHANGED <<verdict, seen, options>>
    BY <1>3, <2>1 DEF Injector, GiveUp, FindServer, StartCall, Timeout, LoadEnds, CommandEnds,
       ShutdownEnds, SkipShutdown, Hold, EndHold, Terminate, Free
  <2>3. QED
    BY <1>1, <2>2
<1>4. QED
  BY <1>1, <1>2, <1>3, DeathStops, ProcessMoves DEF Next, vars, injector

\* PassIsEarned: a session that passes has read all five reports after the
\* hold, from a host in the state that was asked for, whatever timed out or
\* exited on the way (refresh_*_snapshot, run_remote_thread).
THEOREM PassesAreEarned == Spec => []PassIsEarned
<1>1. Init => PassInv
  <2>1. Init => Alone /\ Awaited /\ ShutdownLast
    BY DEF Init, Alone, Awaited, ShutdownLast, Running, Calls
  <2>2. Init => Prepared /\ Written /\ Collected /\ Undecided /\ PassIsEarned
    BY DEF Init, Prepared, Written, Collected, Undecided, PassIsEarned, Calls, Initialized, Mounted, Measured
  <2>3. QED
    BY <2>1, <2>2, InitTyped DEF PassInv, CallsInv
<1>2. PassInv /\ [Next]_vars => PassInv'
  BY TypeStep, AloneStep, AwaitedStep, ShutdownStep, PreparedStep, WrittenStep, CollectedStep,
     UndecidedStep, PassStep DEF PassInv, CallsInv
<1>3. PassInv => PassIsEarned
  BY DEF PassInv
<1>4. QED
  BY <1>1, <1>2, <1>3, PTL DEF Spec
=============================================================================

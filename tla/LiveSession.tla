----------------------------- MODULE LiveSession -----------------------------
(***************************************************************************)
(* A session of inject_smoke.cpp: the injector starts a server, runs the   *)
(* host's functions in it one after the other on remote threads, with a    *)
(* time limit each, holds, reads what was counted, and ends the server.    *)
(* The server may exit at any time, a remote thread may take longer than   *)
(* its limit, the injector may be killed, and the game calls the detours   *)
(* as soon as they are hooked.  The host is as HostLifecycle has it        *)
(* between its control calls.                                              *)
(***************************************************************************)
EXTENDS Naturals, FiniteSets

CONSTANT HoldTime  \* --hold-seconds, in turns of the hold loop

ASSUME LiveAssumption == HoldTime \in Nat

VARIABLES
  options,  \* --install-probe-hooks, --allow-recursive-callbacks
  job,      \* the server is in a job that is killed with its last handle
  at,       \* what the injector is at
  report,   \* and the report it reads there
  waiting,  \* it waits for the remote thread of that call
  elapsed,  \* of the hold
  seen,     \* [Reports -> Snapshots], as read last
  verdict,  \* how the session ends
  blocks,   \* the memory in the server that remote threads use
  thread,   \* [Calls -> Threads]
  mutex,    \* the call that holds g_state_mutex, or "none"
  buffer,   \* [Reports -> Snapshots], as written last in the server
  host,     \* what dwrt_host.dll is in
  server    \* "alive", or how it exited

injector == <<options, job, at, report, waiting, elapsed, seen, verdict, blocks>>
process == <<thread, mutex, buffer, host, server>>
vars == <<injector, process>>

\* The five snapshots of the host, in the order they are read.
Order == <<"snapshot", "probe", "walker", "fire", "target">>
Reports == {Order[i] : i \in 1 .. 5}
Calls == Reports \union {"load", "initialize", "mount", "reset", "shutdown"}
Threads == {"none", "ready", "inside", "ok", "failed"}  \* ok, failed: it has returned
HostType == [loaded : BOOLEAN, initialized : BOOLEAN, hooked : BOOLEAN,
             mounted : BOOLEAN,   \* the asked probe mask is set
             clean : BOOLEAN,     \* and the counters were reset since
             recursive : BOOLEAN] \* g_callback_recursive_entries # 0

\* What of the command line matters here.
Options == [install : BOOLEAN, allow_recursive : BOOLEAN]

\* The stages in order; at some a command is run, at some reports are read.
Stages == {"start", "load", "initialize", "gate", "mount", "reset", "first", "hold",
           "poll", "final", "finish", "terminate", "free", "ended"}
Command == [load |-> "load", initialize |-> "initialize", mount |-> "mount",
            reset |-> "reset", finish |-> "shutdown"]
Rounds == {"gate", "first", "poll", "final"}
FirstReport(round) == IF round = "first" THEN 2 ELSE 1
LastReport(round) == IF round = "gate" THEN 1 ELSE 5
After == [initialize |-> "gate", gate |-> "mount", mount |-> "reset", reset |-> "first",
          first |-> "hold", poll |-> "hold", final |-> "finish"]
Working == Stages \ {"finish", "terminate", "free", "ended"}
Calling == Rounds \union DOMAIN Command

NoHost == [loaded |-> FALSE, initialized |-> FALSE, hooked |-> FALSE, mounted |-> FALSE,
           clean |-> FALSE, recursive |-> FALSE]
Nothing == [by |-> "start", host |-> NoHost]

Init ==
  /\ options \in Options /\ job \in BOOLEAN
  /\ at = "start" /\ report = 1 /\ waiting = FALSE /\ elapsed = 0
  /\ seen = [r \in Reports |-> Nothing] /\ verdict = "none" /\ blocks = "none"
  /\ thread = [c \in Calls |-> "none"] /\ mutex = "none"
  /\ buffer = [r \in Reports |-> Nothing] /\ host = NoHost /\ server = "alive"

-----------------------------------------------------------------------------
(* The injector (wmain).                                                   *)

\* The call it is at.
Call == IF at \in Rounds THEN Order[report] ELSE Command[at]

Enter(stage) ==
  /\ at' = stage
  /\ report' = IF stage \in Rounds THEN FirstReport(stage) ELSE 1

\* finish: the host, if it was seen to be loaded, is shut down before the
\* server is terminated.
Finish(v) ==
  /\ Enter(IF at \in {"start", "load"} THEN "terminate" ELSE "finish")
  /\ verdict' = v

\* An allocation, an export, a remote thread or a file that cannot be had.
GiveUp ==
  /\ at \in Working /\ ~waiting
  /\ Finish("error")
  /\ UNCHANGED <<options, job, waiting, elapsed, seen, blocks, process>>

\* wait_for_module, and the first allocation.
FindServer ==
  /\ at = "start" /\ server = "alive"
  /\ Enter("load") /\ blocks' = "allocated"
  /\ UNCHANGED <<options, job, waiting, elapsed, seen, verdict, process>>

\* run_remote_thread, up to the wait.
StartCall ==
  /\ at \in Calling /\ ~waiting /\ server = "alive"
  /\ waiting' = TRUE
  /\ thread' = [thread EXCEPT ![Call] = "ready"]
  /\ UNCHANGED <<options, job, at, report, elapsed, seen, verdict, blocks,
                 mutex, buffer, host, server>>

Running(c) == thread[c] \in {"ready", "inside"}

\* Seeded fault: only the shutdown is given a limit.
TimeoutOfShutdown ==
  /\ waiting /\ at = "finish" /\ Running(Call) /\ server = "alive"
  /\ waiting' = FALSE /\ Enter("terminate")
  /\ UNCHANGED <<options, job, elapsed, seen, verdict, blocks, process>>

\* Seeded fault: a call that takes too long is passed over.
TimeoutPassedOver ==
  /\ waiting /\ Running(Call) /\ server = "alive"
  /\ waiting' = FALSE
  /\ Enter(IF at \in DOMAIN After THEN After[at] ELSE "terminate")
  /\ UNCHANGED <<options, job, elapsed, seen, verdict, blocks, process>>

\* The limit of the wait is over; the remote thread goes on.
Timeout ==
  /\ waiting /\ Running(Call) /\ server = "alive"
  /\ waiting' = FALSE
  /\ IF at = "finish" THEN Enter("terminate") /\ UNCHANGED verdict ELSE Finish("error")
  /\ UNCHANGED <<options, job, elapsed, seen, blocks, process>>

\* The remote thread has ended, perhaps because the server did: its exit code
\* is then that of the server.
Ended(c) == ~Running(c) \/ server # "alive"
Status(c) == IF Running(c) THEN server = "exited 0" ELSE thread[c] = "ok"

\* Seeded fault: it is not looked at whether ReadProcessMemory succeeds.
CanReadAnything == TRUE

CanRead == server = "alive"

\* The gate on the first snapshot.
GateHolds(h) == h.initialized /\ h.hooked = options.install /\ ~h.recursive

\* The last check of the session.
Acceptable(h) == options.allow_recursive \/ ~h.recursive

LoadEnds ==
  /\ waiting /\ at = "load" /\ Ended("load") /\ waiting' = FALSE
  /\ IF server = "alive" /\ host.loaded
     THEN Enter("initialize") /\ UNCHANGED verdict ELSE Finish("error")
  /\ UNCHANGED <<options, job, elapsed, seen, blocks, process>>

CommandEnds ==
  /\ waiting /\ at \in {"initialize", "mount", "reset"} /\ Ended(Call) /\ waiting' = FALSE
  /\ IF Status(Call) THEN Enter(After[at]) /\ UNCHANGED verdict ELSE Finish("error")
  /\ UNCHANGED <<options, job, elapsed, seen, blocks, process>>

\* refresh_*_snapshot, and what is done with the reports when the round is over.
ReadEnds ==
  /\ waiting /\ at \in Rounds /\ Ended(Call) /\ waiting' = FALSE
  /\ IF ~(Status(Call) /\ CanRead) THEN Finish("error") /\ UNCHANGED seen
     ELSE /\ seen' = [seen EXCEPT ![Call] = buffer[Call]]
          /\ IF report < LastReport(at)
             THEN report' = report + 1 /\ UNCHANGED <<at, verdict>>
             ELSE CASE at = "gate" /\ ~GateHolds(seen'["snapshot"].host) -> Finish("gate")
                    [] at = "final" -> Finish(IF Acceptable(seen'["snapshot"].host)
                                              THEN "pass" ELSE "recursion")
                    [] OTHER -> Enter(After[at]) /\ UNCHANGED verdict
  /\ UNCHANGED <<options, job, elapsed, blocks, process>>

ShutdownEnds ==
  /\ waiting /\ at = "finish" /\ Ended("shutdown")
  /\ waiting' = FALSE /\ Enter("terminate")
  /\ UNCHANGED <<options, job, elapsed, seen, verdict, blocks, process>>

\* Without a remote thread for the shutdown.
SkipShutdown ==
  /\ at = "finish" /\ ~waiting /\ Enter("terminate")
  /\ UNCHANGED <<options, job, waiting, elapsed, seen, verdict, blocks, process>>

\* Seeded fault: one turn too many.
HoldsOneMore == elapsed <= HoldTime

HoldGoesOn == elapsed < HoldTime

\* A turn of the hold loop; a poll may take longer than a turn.
Hold ==
  /\ at = "hold" /\ HoldGoesOn
  /\ IF server # "alive" THEN Finish("error") /\ UNCHANGED elapsed
     ELSE /\ UNCHANGED verdict
          /\ \/ elapsed' = elapsed + 1 /\ UNCHANGED <<at, report>>
             \/ elapsed' \in (elapsed + 1) .. HoldTime /\ Enter("poll")
             \/ Enter("final") /\ UNCHANGED elapsed  \* the stop file
  /\ UNCHANGED <<options, job, waiting, seen, blocks, process>>

EndHold ==
  /\ at = "hold" /\ ~HoldGoesOn /\ Enter("final")
  /\ UNCHANGED <<options, job, waiting, elapsed, seen, verdict, blocks, process>>

\* Seeded fault: the server is left to its job.
TerminateNot ==
  /\ at = "terminate" /\ Enter("free")
  /\ UNCHANGED <<options, job, waiting, elapsed, seen, verdict, blocks, process>>

Terminate ==
  /\ at = "terminate" /\ Enter("free")
  /\ server' = IF server = "alive" THEN "exited 0" ELSE server
  /\ UNCHANGED <<options, job, waiting, elapsed, seen, verdict, blocks,
                 thread, mutex, buffer, host>>

\* The destructors of the RemoteAllocations, when wmain returns.
Free ==
  /\ at = "free" /\ Enter("ended") /\ blocks' = "freed"
  /\ UNCHANGED <<options, job, waiting, elapsed, seen, verdict, process>>

Injector ==
  \/ GiveUp \/ FindServer \/ StartCall \/ Timeout
  \/ LoadEnds \/ CommandEnds \/ ReadEnds \/ ShutdownEnds \/ SkipShutdown
  \/ Hold \/ EndHold \/ Terminate \/ Free

\* Seeded fault: the job does not have the limit KILL_ON_JOB_CLOSE.
CloseJobOnly == UNCHANGED server

CloseJob == server' = IF job /\ server = "alive" THEN "exited 0" ELSE server

\* The injector is killed: its handles are closed, and nothing else is done.
InjectorDies ==
  /\ at # "ended" /\ Enter("ended") /\ waiting' = FALSE /\ CloseJob
  /\ UNCHANGED <<options, job, elapsed, seen, verdict, blocks, thread, mutex, buffer, host>>

-----------------------------------------------------------------------------
(* The remote threads, with the functions of the host.                     *)

Return(c, status) == thread' = [thread EXCEPT ![c] = status]

\* The thread of c has not begun, and nothing holds it up.
Runs(c) == server = "alive" /\ thread[c] = "ready"
RunsLocked(c) == Runs(c) /\ mutex = "none"

LoadLibrary ==
  /\ Runs("load") /\ Return("load", "ok")
  /\ \E loaded \in BOOLEAN : host' = [host EXCEPT !.loaded = loaded]
  /\ UNCHANGED <<injector, mutex, buffer, server>>

InitializeBegins ==
  /\ RunsLocked("initialize") /\ mutex' = "initialize" /\ Return("initialize", "inside")
  /\ UNCHANGED <<injector, buffer, host, server>>

\* It fails, or it succeeds but for the summary, which it cannot write.
InitializeEnds ==
  /\ server = "alive" /\ thread["initialize"] = "inside" /\ mutex' = "none"
  /\ \E initialized \in BOOLEAN, status \in {"ok", "failed"} :
       /\ status = "ok" => initialized
       /\ Return("initialize", status)
       /\ host' = [host EXCEPT !.initialized = initialized,
                               !.hooked = initialized /\ options.install]
  /\ UNCHANGED <<injector, buffer, server>>

Mount ==
  /\ RunsLocked("mount") /\ Return("mount", IF host.initialized THEN "ok" ELSE "failed")
  /\ host' = [host EXCEPT !.mounted = host.initialized]
  /\ UNCHANGED <<injector, mutex, buffer, server>>

Reset ==
  /\ RunsLocked("reset") /\ Return("reset", IF host.initialized THEN "ok" ELSE "failed")
  /\ host' = [host EXCEPT !.clean = host.initialized /\ host.mounted]
  /\ UNCHANGED <<injector, mutex, buffer, server>>

\* The host's and the probes' report are taken under the lock; only the probes'
\* may be refused.
Report(r) ==
  /\ IF r \in {"snapshot", "probe"} THEN RunsLocked(r) ELSE Runs(r)
  /\ IF r = "probe" /\ ~host.initialized
     THEN Return(r, "failed") /\ UNCHANGED buffer
     ELSE Return(r, "ok") /\ buffer' = [buffer EXCEPT ![r] = [by |-> at, host |-> host]]
  /\ UNCHANGED <<injector, mutex, host, server>>

Shutdown ==
  /\ RunsLocked("shutdown") /\ Return("shutdown", "ok")
  /\ host' = [host EXCEPT !.initialized = FALSE, !.hooked = FALSE, !.mounted = FALSE, !.clean = FALSE]
  /\ UNCHANGED <<injector, mutex, buffer, server>>

\* The game calls a detour from within a detour (CallbackScope).
RecursiveCallback ==
  /\ server = "alive" /\ host.hooked
  /\ host' = [host EXCEPT !.recursive = TRUE]
  /\ UNCHANGED <<injector, thread, mutex, buffer, server>>

ServerExits ==
  /\ server = "alive" /\ server' \in {"exited 0", "crashed"}
  /\ UNCHANGED <<injector, thread, mutex, buffer, host>>

Process ==
  \/ LoadLibrary \/ InitializeBegins \/ InitializeEnds \/ Mount \/ Reset
  \/ (\E r \in Reports : Report(r)) \/ Shutdown \/ RecursiveCallback \/ ServerExits

Next == Injector \/ InjectorDies \/ Process

\* The injector is one thread that only waits with a limit; a remote thread may
\* hang, and the server does what it likes.
Spec == Init /\ [][Next]_vars /\ WF_vars(Injector)
-----------------------------------------------------------------------------
Snapshots == [by : Stages, host : HostType]

TypeOK ==
  /\ options \in Options /\ job \in BOOLEAN
  /\ at \in Stages /\ report \in 1 .. 5 /\ waiting \in BOOLEAN /\ elapsed \in 0 .. HoldTime
  /\ seen \in [Reports -> Snapshots] /\ buffer \in [Reports -> Snapshots]
  /\ verdict \in {"none", "error", "gate", "recursion", "pass"}
  /\ blocks \in {"none", "allocated", "freed"}
  /\ thread \in [Calls -> Threads] /\ mutex \in {"none", "initialize"}
  /\ host \in HostType /\ server \in {"alive", "exited 0", "crashed"}
  /\ waiting => at \in Calling

(* A session passes only when all five reports were read after the hold,   *)
(* from an initialized host with the hooks that were asked for, its mask   *)
(* mounted and the counters reset after that; whatever exits or times out, *)
(* and although a remote thread of a server that exits with 0 seems to     *)
(* return DWRT_HOST_OK (refresh_*_snapshot, run_remote_thread).            *)
PassIsEarned ==
  verdict = "pass" =>
    /\ \A r \in Reports : /\ seen[r].by = "final"
                          /\ seen[r].host.initialized /\ seen[r].host.hooked = options.install
                          /\ seen[r].host.mounted /\ seen[r].host.clean
    /\ seen["snapshot"].host.recursive => options.allow_recursive

(* The host's functions never run side by side, except that the shutdown   *)
(* may while a call that took too long is still there (finish after a time *)
(* out of run_remote_thread).                                              *)
OneCallAtATime ==
  LET running == {c \in Calls : server = "alive" /\ Running(c)}
  IN /\ Cardinality(running \ {"shutdown"}) <= 1
     /\ "shutdown" \in running => at \in {"finish", "terminate", "free", "ended"}
     /\ ~waiting /\ running # {} => at \in {"finish", "terminate", "free", "ended"}

(* The memory a remote thread uses is freed only when there is no server   *)
(* any more, even if the thread outlives the wait for it (the destructors  *)
(* of RemoteAllocation run after TerminateProcess).                        *)
BlocksOutliveThreads == blocks = "freed" => server # "alive"

(* A server that could be put in a job never outlives its injector, even   *)
(* one that is killed (assign_kill_on_close_job).                          *)
ServerEndsWithInjector == at = "ended" /\ job => server # "alive"

(* Every session ends, also when a call hangs or the server is gone (the   *)
(* limits of run_remote_thread, the hold loop).                            *)
SessionEnds == <>(at = "ended")
=============================================================================

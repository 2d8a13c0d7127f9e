---------------------------- MODULE HostLifecycle ----------------------------
(***************************************************************************)
(* dwrt_host_initialize and dwrt_host_shutdown, which the injector runs on *)
(* a thread of its own, step by step between the steps of the detours that *)
(* the game's threads are in.  g_state_mutex keeps the control calls       *)
(* apart; a detour never takes it.  Calls that are rejected before they    *)
(* change anything (bad argument, already initialized) are left out, and   *)
(* so is what a summary or a snapshot says.                                *)
(***************************************************************************)
EXTENDS Naturals, FiniteSets

CONSTANTS
  Hooks,        \* the functions install_probe_hooks hooks
  Recording,    \* those whose detour records a probe event
  Borrowing,    \* those whose detour may call the original of Lender before its own: the filter
  Lender,       \* a function hooked, and unhooked, after those: the identity classifier
  Calls,        \* game calls that can be under way at once
  Configs,      \* configurations initialize is called with
  MaxSessions   \* bound: calls of initialize

ConfigType == [runtime_path : BOOLEAN, require_runtime : BOOLEAN,
               require_signatures : BOOLEAN, allow_mapped : BOOLEAN,
               allow_drift : BOOLEAN, install : BOOLEAN]

ASSUME HostAssumption ==
  /\ Recording \subseteq Hooks /\ Borrowing \subseteq Hooks /\ Lender \in Hooks \ Borrowing
  /\ Configs \subseteq ConfigType
  /\ MaxSessions \in Nat

Null == 0
Sessions == 1 .. MaxSessions  \* they name the runtime and trampolines they make

VARIABLES
  pc,          \* where the control call is, "idle" between calls
  purpose,     \* what it unhooks or unloads for
  config,      \* of the last initialize
  session,     \* calls of initialize so far
  initialized, \* g_state.initialized
  probe_ok,    \* g_state.runtime_probe_ok
  server,      \* the module the signatures were resolved in, or "none"
  matches,     \* [Hooks -> Matches], where each signature was found
  failing,     \* signature_required_failures # 0
  runtime,     \* DwrtShadowShim::runtime_, Null or the session it is of
  objects,     \* runtimes allocated and not freed
  todo,        \* hooks still to install
  failures,    \* hooks that could not be installed
  enabled,     \* hooked functions: calls of them enter the detour
  trampoline,  \* [Hooks -> session of the live trampoline, or Null]
  original,    \* [Hooks -> g_original_*, Null or the session it is of]
  calls        \* [Calls -> CallType], the game calls inside a detour

control == <<pc, purpose, config, session>>
found == <<server, matches, failing>>
library == <<runtime, objects, probe_ok>>
hooking == <<todo, failures, enabled, trampoline, original>>
vars == <<control, found, library, hooking, initialized, calls>>

Matches == {"none", "drifted", "expected"}  \* none: not found, or more than once
Phases == {"out", "entered", "recording", "recorded", "borrowing", "ready", "calling", "returning",
           "freed_runtime", "freed_original", "freed_borrowed"}

CallType == [phase : Phases, hook : Hooks,
             pointer : Sessions \union {Null}, \* what it loaded to use next
             ran : BOOLEAN,                    \* it ran the original
             overtaken : SUBSET Hooks]         \* hooks that were taken away meanwhile

Out(h) == [phase |-> "out", hook |-> h, pointer |-> Null, ran |-> FALSE, overtaken |-> {}]

\* The hooks whose originals a call in the detour of h uses.
Uses(h) == {h} \union IF h \in Borrowing THEN {Lender} ELSE {}

Init ==
  /\ pc = "idle" /\ purpose = "initialize" /\ config \in Configs /\ session = 0
  /\ initialized = FALSE /\ probe_ok = FALSE
  /\ server = "none" /\ matches = [h \in Hooks |-> "none"] /\ failing = FALSE
  /\ runtime = Null /\ objects = {}
  /\ todo = {} /\ failures = {} /\ enabled = {}
  /\ trampoline = [h \in Hooks |-> Null] /\ original = [h \in Hooks |-> Null]
  /\ \E h \in Hooks : calls = [c \in Calls |-> Out(h)]

-----------------------------------------------------------------------------
(* dwrt_host_initialize.                                                   *)

\* hooks.reset and the g_original_* cleared, where no hook is enabled.
Unhooked ==
  /\ failures' = {} /\ enabled' = {}
  /\ trampoline' = [h \in Hooks |-> Null] /\ original' = [h \in Hooks |-> Null]

\* It has failed, which ends the call only if the configuration says so.
FailOr(fatal, next) == pc' = IF fatal THEN "idle" ELSE next

Initialize(c) ==
  /\ pc = "idle" /\ ~initialized /\ session < MaxSessions
  /\ IF c.runtime_path THEN pc' = "free" ELSE FailOr(c.require_runtime, "resolve")
  /\ session' = session + 1 /\ config' = c /\ purpose' = "initialize"
  /\ server' = "none" /\ matches' = [h \in Hooks |-> "none"] /\ failing' = FALSE
  /\ probe_ok' = FALSE /\ todo' = {} /\ Unhooked
  /\ UNCHANGED <<initialized, runtime, objects, calls>>

\* Seeded fault: load and shutdown do not free the runtime.
FreeNothing ==
  /\ pc = "free" /\ pc' = "null"
  /\ UNCHANGED <<purpose, config, session, found, library, hooking, initialized, calls>>

\* destroy_runtime, from unload: the runtime is freed ...
FreeRuntime ==
  /\ pc = "free" /\ pc' = "null"
  /\ objects' = objects \ {runtime}
  /\ UNCHANGED <<purpose, config, session, found, runtime, probe_ok, hooking, initialized, calls>>

\* ... and then the pointer to it cleared.
NullRuntime ==
  /\ pc = "null" /\ pc' = IF purpose = "shutdown" THEN "clear" ELSE "load"
  /\ runtime' = Null
  /\ UNCHANGED <<purpose, config, session, found, objects, probe_ok, hooking, initialized, calls>>

\* The library cannot be loaded, is of another version or makes no runtime.
LoadFails ==
  /\ pc = "load" /\ FailOr(config.require_runtime, "resolve")
  /\ UNCHANGED <<purpose, config, session, found, library, hooking, initialized, calls>>

\* Seeded fault: the outcome of exercise_probe_abi is not looked at.
LoadRuntimeUntested(ok) ==
  /\ pc = "load" /\ pc' = "resolve"
  /\ runtime' = session /\ objects' = objects \union {session} /\ probe_ok' = ok
  /\ UNCHANGED <<purpose, config, session, found, hooking, initialized, calls>>

\* create_runtime, then exercise_probe_abi with the outcome ok.
LoadRuntime(ok) ==
  /\ pc = "load" /\ FailOr(~ok /\ config.require_runtime, "resolve")
  /\ runtime' = session /\ objects' = objects \union {session} /\ probe_ok' = ok
  /\ UNCHANGED <<purpose, config, session, found, hooking, initialized, calls>>

\* resolve_server_signatures without a module to look in.
ServerMissing ==
  /\ pc = "resolve" /\ FailOr(config.require_signatures, "finish")
  /\ UNCHANGED <<purpose, config, session, found, library, hooking, initialized, calls>>

Acceptable(match) == match = "expected" \/ (match = "drifted" /\ config.allow_drift)

Refused(m, fails) == \/ config.require_signatures /\ fails
                     \/ config.install /\ m = "mapped"

\* resolve_server_signatures in the module m, up to install_probe_hooks; others
\* are failures of required signatures of functions that are not hooked.
Resolve(m, found_at, others) ==
  LET fails == others \/ \E h \in Hooks : ~Acceptable(found_at[h])
      installs == config.install /\ ~Refused(m, fails)
  IN /\ pc = "resolve" /\ (m = "mapped" => config.allow_mapped)
     /\ server' = m /\ matches' = found_at /\ failing' = fails
     /\ IF Refused(m, fails) THEN FailOr(config.require_signatures, "finish")
        ELSE pc' = IF installs THEN "install" ELSE "finish"
     /\ IF installs THEN todo' = Hooks /\ Unhooked ELSE UNCHANGED hooking
     /\ UNCHANGED <<purpose, config, session, library, initialized, calls>>

Finish ==
  /\ pc = "finish" /\ pc' = "idle"
  /\ initialized' = TRUE
  /\ UNCHANGED <<purpose, config, session, found, library, hooking, calls>>

-----------------------------------------------------------------------------
(* install_probe_hooks: each hook in turn is created, its original made    *)
(* known, and only then enabled.  HookBackend keeps the order of the       *)
(* installs, and reset follows it; only that of Lender matters.            *)

InTurn(h, others) == h = Lender => others \intersect Borrowing = {}

\* The trampoline of h is freed; the calls that may yet use it are not waited for.
Overtake(h) ==
  calls' = [c \in Calls |-> IF calls[c].phase # "out" /\ h \in Uses(calls[c].hook)
                            THEN [calls[c] EXCEPT !.overtaken = @ \union {h}] ELSE calls[c]]

\* Seeded fault: the original becomes known once the hook is enabled.
CreateHookUnpublished(h) ==
  /\ pc = "install" /\ h \in todo /\ InTurn(h, todo) /\ matches[h] # "none"
  /\ trampoline' = [trampoline EXCEPT ![h] = session]
  /\ pc' = "enable"
  /\ UNCHANGED <<purpose, config, session, found, library, original, todo, failures, enabled, initialized, calls>>

CreateHook(h) ==
  /\ pc = "install" /\ h \in todo /\ InTurn(h, todo) /\ matches[h] # "none"
  /\ trampoline' = [trampoline EXCEPT ![h] = session]
  /\ original' = [original EXCEPT ![h] = session]
  /\ pc' = "enable"
  /\ UNCHANGED <<purpose, config, session, found, library, todo, failures, enabled, initialized, calls>>

EnableHook(h) ==
  /\ pc = "enable" /\ h \in todo /\ trampoline[h] # Null
  /\ enabled' = enabled \union {h} /\ todo' = todo \ {h}
  /\ pc' = "install"
  /\ UNCHANGED <<purpose, config, session, found, library, failures, trampoline, original, initialized, calls>>

Skip(h) ==
  /\ failures' = failures \union {h} /\ todo' = todo \ {h}
  /\ pc' = "install"
  /\ UNCHANGED <<purpose, config, session, found, library, enabled, initialized>>

\* There is no address to hook, or the hook cannot be created.
CreateFails(h) ==
  /\ pc = "install" /\ h \in todo /\ InTurn(h, todo)
  /\ Skip(h)
  /\ UNCHANGED <<trampoline, original, calls>>

\* Seeded fault: the original stays known when the hook cannot be enabled.
EnableFailsKnown(h) ==
  /\ pc = "enable" /\ h \in todo /\ trampoline[h] # Null
  /\ trampoline' = [trampoline EXCEPT ![h] = Null]
  /\ Skip(h) /\ Overtake(h)
  /\ UNCHANGED original

\* It cannot be enabled: its original is known no more, and its trampoline
\* freed, under the detours that are live already.
EnableFails(h) ==
  /\ pc = "enable" /\ h \in todo /\ trampoline[h] # Null
  /\ trampoline' = [trampoline EXCEPT ![h] = Null]
  /\ original' = [original EXCEPT ![h] = Null]
  /\ Skip(h) /\ Overtake(h)

\* Seeded fault: hooks that could be installed stay when another could not.
EndInstallPartial ==
  /\ pc = "install" /\ todo = {} /\ pc' = "finish"
  /\ UNCHANGED <<purpose, config, session, found, library, hooking, initialized, calls>>

EndInstall ==
  /\ pc = "install" /\ todo = {}
  /\ IF failures = {} THEN pc' = "finish" /\ UNCHANGED purpose
     ELSE pc' = "unhook" /\ purpose' = "rollback"
  /\ UNCHANGED <<config, session, found, library, hooking, initialized, calls>>

-----------------------------------------------------------------------------
(* hooks.reset and the g_original_* cleared after it, to roll back an      *)
(* install or in dwrt_host_shutdown.                                       *)

Shutdown ==
  /\ pc = "idle" /\ pc' = "unhook" /\ purpose' = "shutdown"
  /\ UNCHANGED <<config, session, found, library, hooking, initialized, calls>>

\* The function is restored and the trampoline freed.
Unhook(h) ==
  /\ pc = "unhook" /\ h \in enabled /\ InTurn(h, enabled)
  /\ enabled' = enabled \ {h} /\ trampoline' = [trampoline EXCEPT ![h] = Null]
  /\ Overtake(h)
  /\ UNCHANGED <<control, found, library, todo, failures, original, initialized>>

EndUnhook ==
  /\ pc = "unhook" /\ enabled = {} /\ pc' = "forget"
  /\ UNCHANGED <<purpose, config, session, found, library, hooking, initialized, calls>>

ForgetOriginal(h) ==
  /\ pc = "forget" /\ original[h] # Null
  /\ original' = [original EXCEPT ![h] = Null]
  /\ UNCHANGED <<control, found, library, todo, failures, enabled, trampoline, initialized, calls>>

EndForget ==
  /\ pc = "forget" /\ \A h \in Hooks : original[h] = Null
  /\ IF purpose = "shutdown" THEN pc' = "free" ELSE FailOr(config.require_signatures, "finish")
  /\ UNCHANGED <<purpose, config, session, found, library, hooking, initialized, calls>>

\* The rest of dwrt_host_shutdown, after FreeRuntime and NullRuntime.
Clear ==
  /\ pc = "clear" /\ pc' = "idle"
  /\ initialized' = FALSE /\ probe_ok' = FALSE
  /\ server' = "none" /\ matches' = [h \in Hooks |-> "none"] /\ failing' = FALSE
  /\ failures' = {}
  /\ UNCHANGED <<purpose, config, session, runtime, objects, todo, enabled, trampoline, original, calls>>

-----------------------------------------------------------------------------
(* The detours: a probe event, then the original.                          *)

Step(c, call) ==
  /\ calls' = [calls EXCEPT ![c] = call]
  /\ UNCHANGED <<control, found, library, hooking, initialized>>

EnterDetour(c, h) ==
  /\ calls[c].phase = "out" /\ h \in enabled
  /\ Step(c, [Out(h) EXCEPT !.phase = "entered"])

\* Seeded fault: runtime_ is not tested.
ReadRuntimeUntested(c) ==
  /\ calls[c].phase = "entered" /\ calls[c].hook \in Recording
  /\ Step(c, [calls[c] EXCEPT !.phase = "recording", !.pointer = runtime])

\* probe_record_* of the shim: runtime_ is tested and loaded.
ReadRuntime(c) ==
  /\ calls[c].phase = "entered" /\ calls[c].hook \in Recording /\ runtime # Null
  /\ Step(c, [calls[c] EXCEPT !.phase = "recording", !.pointer = runtime])

\* Nothing is recorded: in a recursive callback, without a runtime, or by a
\* detour that never does.
SkipRecord(c) ==
  /\ calls[c].phase = "entered"
  /\ Step(c, [calls[c] EXCEPT !.phase = "recorded"])

UseRuntime(c) ==
  /\ calls[c].phase = "recording"
  /\ Step(c, [calls[c] EXCEPT !.phase = IF calls[c].pointer \in objects
                                           THEN "recorded" ELSE "freed_runtime"])

\* The filter loads g_original_target_identity_classifier for maybe_allow_target_bitset ...
ReadBorrowed(c) ==
  /\ calls[c].phase = "recorded" /\ calls[c].hook \in Borrowing
  /\ Step(c, [calls[c] EXCEPT !.phase = "borrowing", !.pointer = original[Lender]])

\* ... which returns without a use of it: by its options, the teams, or for want of one of its arguments ...
SkipBorrowed(c) ==
  /\ calls[c].phase = "borrowing"
  /\ Step(c, [calls[c] EXCEPT !.phase = "ready"])

\* ... or tests and calls it.
CallBorrowed(c) ==
  /\ calls[c].phase = "borrowing" /\ calls[c].pointer # Null
  /\ Step(c, [calls[c] EXCEPT !.phase = IF trampoline[Lender] = calls[c].pointer
                                           THEN "ready" ELSE "freed_borrowed"])

\* Its own g_original_* is tested and loaded.
ReadOriginal(c) ==
  LET o == original[calls[c].hook]
  IN /\ calls[c].phase = IF calls[c].hook \in Borrowing THEN "ready" ELSE "recorded"
     /\ Step(c, [calls[c] EXCEPT !.phase = IF o = Null THEN "returning" ELSE "calling", !.pointer = o])

CallOriginal(c) ==
  /\ calls[c].phase = "calling"
  /\ Step(c, IF trampoline[calls[c].hook] = calls[c].pointer
             THEN [calls[c] EXCEPT !.phase = "returning", !.ran = TRUE]
             ELSE [calls[c] EXCEPT !.phase = "freed_original"])

LeaveDetour(c) ==
  /\ calls[c].phase = "returning"
  /\ Step(c, Out(calls[c].hook))

-----------------------------------------------------------------------------
Control ==
  \/ \E c \in Configs : Initialize(c)
  \/ FreeRuntime \/ NullRuntime \/ LoadFails
  \/ \E ok \in BOOLEAN : LoadRuntime(ok)
  \/ ServerMissing
  \/ \E m \in {"live", "mapped"}, found_at \in [Hooks -> Matches], others \in BOOLEAN :
       Resolve(m, found_at, others)
  \/ Finish
  \/ \E h \in Hooks : CreateHook(h) \/ EnableHook(h) \/ CreateFails(h) \/ EnableFails(h)
  \/ EndInstall \/ Shutdown
  \/ \E h \in Hooks : Unhook(h) \/ ForgetOriginal(h)
  \/ EndUnhook \/ EndForget \/ Clear

Detour(c) ==
  \/ \E h \in Hooks : EnterDetour(c, h)
  \/ ReadRuntime(c) \/ SkipRecord(c) \/ UseRuntime(c)
  \/ ReadBorrowed(c) \/ SkipBorrowed(c) \/ CallBorrowed(c)
  \/ ReadOriginal(c) \/ CallOriginal(c) \/ LeaveDetour(c)

Next == Control \/ \E c \in Calls : Detour(c)

Spec == Init /\ [][Next]_vars
-----------------------------------------------------------------------------
Steps == {"idle", "free", "null", "load", "resolve", "install", "enable",
          "finish", "unhook", "forget", "clear"}

TypeOK ==
  /\ pc \in Steps /\ purpose \in {"initialize", "rollback", "shutdown"}
  /\ config \in Configs /\ session \in 0 .. MaxSessions
  /\ initialized \in BOOLEAN /\ probe_ok \in BOOLEAN /\ failing \in BOOLEAN
  /\ server \in {"none", "live", "mapped"} /\ matches \in [Hooks -> Matches]
  /\ runtime \in Sessions \union {Null} /\ objects \subseteq Sessions
  /\ todo \subseteq Hooks /\ failures \subseteq Hooks /\ enabled \subseteq Hooks
  /\ trampoline \in [Hooks -> Sessions \union {Null}]
  /\ original \in [Hooks -> Sessions \union {Null}]
  /\ calls \in [Calls -> CallType]
  /\ \A c \in Calls : calls[c].phase \in {"recording", "calling"} => calls[c].pointer # Null

(* A game call whose own function is not unhooked meanwhile runs the       *)
(* original exactly as if there were no detour: it never finds its         *)
(* g_original_* empty, never calls a trampoline of its own that is gone    *)
(* and never records into a freed runtime, however installs, rollbacks and *)
(* shutdowns are interleaved with it.  The trampoline that the filter      *)
(* borrows from the classifier is there as well unless, during the call,   *)
(* the classifier was unhooked or its hook, already known, could not be    *)
(* enabled: install_inline then frees it without waiting for the filter,   *)
(* whose own hook is live.                                                 *)
UndisturbedCallsComplete ==
  \A c \in Calls :
    /\ calls[c].hook \notin calls[c].overtaken =>
         /\ calls[c].phase \notin {"freed_runtime", "freed_original"}
         /\ calls[c].phase = "returning" => calls[c].ran
    /\ Lender \notin calls[c].overtaken => calls[c].phase # "freed_borrowed"

(* When no control call is under way the server has all the hooks or none, *)
(* hooks only in its live module, only while the host is initialized, and  *)
(* only at functions that were found (install_probe_hooks rolls back,      *)
(* resolve_server_signatures refuses).                                     *)
AllHooksOrNone ==
  pc = "idle" /\ enabled # {} =>
    /\ enabled = Hooks /\ initialized
    /\ server = "live" /\ \A h \in Hooks : matches[h] # "none"

(* An initialized host has everything its configuration requires: a        *)
(* runtime that passed exercise_probe_abi, acceptable signatures and, if   *)
(* asked for, the hooks (the early returns of dwrt_host_initialize).       *)
InitializedAsRequired ==
  pc = "idle" /\ initialized =>
    /\ config.require_runtime => probe_ok /\ runtime \in objects
    /\ config.require_signatures =>
         /\ ~failing /\ server # "none"
         /\ config.install => enabled = Hooks

(* No runtime is lost: the shim still points to every one that has not     *)
(* been freed, across failed calls of initialize (DwrtShadowShim::load,    *)
(* create_runtime).                                                        *)
NoRuntimeLost == objects \subseteq {runtime}

(* A runtime that was freed is never used again (the safety condition of   *)
(* dwrt_runtime_free).                                                     *)
FreedRuntimeNotUsed == \A c \in Calls : calls[c].phase # "freed_runtime"
=============================================================================

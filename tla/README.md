# DWRT in TLA+

This directory is a formal model of DWRT, the Deadlock Walker RunTime of this repository: a
Rust core for message interest, a C++ host DLL that is injected into a game server, hooks some of its
functions and counts what passes through them, and the programs that check signatures and drive a live
session. The modules are translated from the code; every property names the function it is about, and
`PROJECT.json` maps every definition to the lines it stands for. Paths below are relative to `src/`; the
host's sources are in `native/dwrt-host/`.

To check one model, `tlc -config TeamDetours.cfg MCTeamDetours`; to check the proofs of one module,
`tlapm TeamDetours_proofs.tla`.

## The system

| Part | State | Operations | What is hard about it |
|---|---|---|---|
| **Net interest** (`crates/dwrt-core/src/interest`, `.../net`) | a reference count for each id of six tables; `active_ids` of each table; `total_active_tables`, the gate of the packet path | `add_*`, `remove_*`, `route_message` | Relaxed atomics: a call changes three counters in three instructions, on any thread; a route reads up to five |
| **Team detours** (`dwrt_friendly_fire.cpp`, `dwrt_target_probe.cpp`, detours of `dwrt_host.cpp`) | `m_iTeamNum` of the game's entities, the scope objects on the stack, one classifier slot per thread | begin and finish of each detour, around the original | the original runs other detours on the same entities; undoing must be last in, first out; a slot that an inner call closes |
| **Detour counters** (the same files, and `crates/dwrt-runtime/src/probe.rs`) | 85 atomic counters (arrays taken as one) | what each detour counts, reset, snapshot | each outcome counted once; lists kept in several places; reset and snapshot run between a call's increments |
| **Walker patrol** (`dwrt_walker_patrol.cpp`) | 13 counters, stride, waypoints | configure, damage callback, reset, snapshot | several threads share the index; a teleport sets off callbacks; unsigned arithmetic on the index |
| **Host lifecycle** (`dwrt_host.cpp`, `dwrt_hook_backend.cpp`, `dwrt_shadow_shim.cpp`) | the shim's runtime, hooks and trampolines, `g_original_*`, `initialized` | `dwrt_host_initialize`, `dwrt_host_shutdown`, the entry of every detour | the control calls run on an injected thread while the game is in the detours, without a lock they share; any step may fail after others have taken effect |
| **Live session** (`inject_smoke.cpp`) | stage, remote threads and their memory, the job, the snapshots read, the verdict | one remote call after the other, with a limit each; hold; finish | the server exits, a call hangs, the injector is killed; the exit code of a dead server reads as success |
| **Signature scanner** (`dwrt_signature_scanner.cpp`, `smoke.cpp`, `dwrt_host.cpp`) | resolutions, required failures, hooks | scan of file and module, verdict of the smoke program, resolution and installation in the host | borders of sections, what the loader cuts or fills, the limit on matches; several ways to fail after something passed |

How they interact:

- The **live session** calls the exports of the **host lifecycle** on remote threads and reads five
  snapshots: those of the host, the runtime's probes, the walker patrol, friendly fire and the target probe.
- The **host lifecycle** resolves its functions with the **signature scanner**, installs the detours, and
  resets the **counters** and the **patrol** when it initializes.
- A **detour** opens a `CallbackScope` (recursion guard), changes teams (**team detours**), counts
  (**detour counters**, **walker patrol**), records an event in the runtime (**host lifecycle**: the
  pointer; **detour counters**: what is counted) and runs the original.
- **Net interest** is what the runtime offers to plugins through its C interface; the host does not call it
  yet, so it is a model of its own.

## Modules

Each part is checked on its own, with the others reduced to what they can do to it: this is what keeps the
instances complete, and each interface is the set of calls listed above. The order in which they were written
is that of the table: first what is concurrent and decides what the game does, then what is counted and
reported, then the tools around it.

| Module | Models | Correspondence |
|---|---|---|
| `RefCountedInterest` | what the tables promise | a mount or unmount in one step, with its answer |
| `NetInterest` | `interest/mod.rs`, `net/mod.rs`, bounds checks of `exports/mod.rs` | one action per atomic instruction; `pc` and `rpc` are where each thread is, `key`, `current`, `serialized` its locals. `MCNetInterest` instantiates it; `NetInterest_proofs` proves |
| `TeamDetours` | writes of `m_iTeamNum` and of the classifier slot by all seven detours | `stack` is the server thread's stack of scope objects; an action is a begin, a finish, or an assignment by the game; `base` is history. `MCTeamDetours`, `TeamDetours_proofs` |
| `HostLifecycle` | `dwrt_host_initialize`, `dwrt_host_shutdown`, `install_inline`, `DwrtShadowShim::load/create_runtime/destroy_runtime`, the shape of the detours, of which the filter's calls a second original | `pc` is where the control thread is; a game call goes through `phase`. `MCHostLifecycle`, `HostLifecycle_proofs` |
| `LiveSession` | `wmain` of `inject_smoke.cpp` and the helpers it uses | `at` is the stage of the injector, `thread` the remote threads, `host` what the exports leave behind. `LiveSession_proofs` |
| `DetourPaths` | which counters a call advances, in which order, for every input | one operator per detour, built of one per helper; `BalancesOf` says which counters have to add up, with the probe and without; no state. `DetourPaths_proofs` |
| `CallCounters` | counters under calls, resets and snapshots | one action per atomic instruction; a call is a path of `DetourPaths`. `MCDetourCounters` composes the two; `CallCounters_proofs` |
| `WalkerPatrol` | `dwrt_walker_patrol.cpp` | one action per atomic instruction; `thread` is where each callback is. `MCWalkerPatrol`, `WalkerPatrol_proofs` |
| `SignatureScan` | `dwrt_signature_scanner.cpp`, the loader | pure operators, and the reference definitions `CodeMatches` and `FileMatches` that they are checked against |
| `SignatureCheck` | `smoke.cpp`, `resolve_server_signatures`, `install_probe_hooks` | one descriptor a step. `MCSignatureCheck`, `SignatureCheck_proofs` (of both modules) |

Definitions marked "Seeded fault" are not part of any specification. They are plausible errors in the code
(a dropped guard, a swapped order, an off-by-one), one or more for each property of each run: with the
definition replaced by the fault, TLC must find the property violated. `PROJECT.json` lists the pairs.

## Assumptions

- **Atomics interleave.** The code uses `Relaxed` atomics; the models interleave single instructions in
  one global order. Each read-modify-write is atomic in either view. For different counters this is what x86,
  the only target of the host, gives to writers that use locked instructions; the compiler could in
  principle reorder Relaxed accesses of different counters, and the model has no such reordering.
- **One server thread** enters the detours in `TeamDetours` (README.md:26). `CallCounters`,
  `WalkerPatrol` and `HostLifecycle` do not rely on it.
- **Control calls** are serialised by `g_state_mutex` in `HostLifecycle`, and by the injector, which waits
  for each call, in `LiveSession`; the latter is checked (`OneCallAtATime`), not assumed.
- **Entities** keep existing while a detour is in its original, and the game may change any team at any time
  inside it. A write to a team does not fault.
- **The hook library** creates a hook disabled and enables it in one step (external definitions).
- **The loader** maps sections as their headers say and fills the rest with zeros (external definition
  `Memory`). It takes only images whose sections lie behind the headers, inside the file, and share neither
  addresses nor bytes of the file (`Loadable`): what a linker produces, and what makes the conversion of a file
  offset to an address one to one.
- **Finite sets** of threads, calls, counters and hooks, and a nonempty order of counters in each scenario
  (`WalkerAssumption`, `CounterAssumption`): lists in the code, and threads of a process.

## Runs

Passing runs enumerate all reachable states of the instance. `CHECK_DEADLOCK FALSE` is set where a run ends
by itself: the session is over, the program has returned, or the calls of the bound have been made.

**net_interest_control** (`NetInterestControl.cfg`) - three controllers on two tables of one id each, two
mounts of a key at a time, ids inside and outside the table, exchanges that fail spuriously. Three threads
are what it takes for an add, the remove that overtakes it and a bystander; two tables tell `active_ids` from
the total. W = 16 is above every count, and subtracting below zero wraps. Shows that no update is lost and no
count goes below zero (`CountersAccounted`, `TypeOK`), that the counters are exact once calls settle
(`ExactWhenSettled`), that the gate is shut over mounted interest only while an add is short of `track`
(`ShutOnlyWhileAdding`), and that every call takes effect in one step of `RefCountedInterest`, with the
answer that step gives (`ImplementsRefCounts`).

**net_interest_routing** - one router and two controllers over three tables, so that one message can match by
direction, by kind and through its nested user message. A route that nobody disturbs is exact, and one that
is disturbed never asks for work that nobody wanted during the call.

**net_interest_progress** - the compare-exchange loop of `remove` is lock-free: under weak fairness of
every thread inside a call, calls keep returning. The fairness is that of a preemptive scheduler; no
fairness is assumed for callers. Exchanges do not fail spuriously here: the host is x86, whose
`lock cmpxchg` fails only if the value differs.

**net_interest_gate** (violation) - two controllers, two ids of one table; see the first finding.

**team_detours** - two entities, one of them an objective; detours two deep; null pointers; all spoofs at
once, with the probe disabled, and with neutralization to a team that is spoofed in turn. Depth two
is the smallest at which one spoof is on top of another; that depth adds nothing is what the proof of
`TeamRestored` says. Shows that no spoof outlives its call, that the classifier slot is never
left to a call it does not belong to, and that friendly fire flips only what really is on the local team.

**team_detours_recursive** (violation) - the same detours in one environment; see the second finding.

**host_lifecycle** - three hooks: one that records, the filter, and the classifier whose original the filter
also uses; one game call at a time, since calls do not read one another's state; four configurations (the live
one, that of the bootstrap smoke, one that requires nothing, one without a runtime); three calls of
initialize, so that one meets what a failed or ended one left, and a call that began in the first can last into
the third. Every step can fail and shutdown can come at any time.

**host_lifecycle_freed** (violation) - two hooks, one game call; see the third finding.

**live_session** - all sessions with a hold of two turns (one that polls and one that does not): remote
threads that never end, exits and crashes of the server at every step, allocations and calls that fail,
recursive callbacks, a stop file, an injector that is killed. `SessionEnds` assumes weak fairness of the
injector only: it is one thread whose every wait has a limit. The remote threads, the host and the server may
stop for good.

**detour_counters** - four scenarios: `one_call`, every input of every detour in five environments that
between them reach every counter, one call; `controlled`, one call for each of the 85 counters, with a
reset or a snapshot around and within it; `disabled`, any two calls in the same environments with the probe
disabled; `overlap`, two calls on two threads or nested, with two resets or snapshots between any two
instructions, on the counters of the damage detour and, with the probe disabled, of the filter. Balances (each
call has one outcome, each spoof an undoing) hold whenever no call is in progress and the last reset met none;
each scenario names those it expects. With `DWRT_DISABLE_TARGET_PROBE` all hooks are installed and
`finish_target_filter` still counts its results, while `begin_target_filter` counts no call, so the balance of
filter calls and results is not among those of the last two (`BalancesOf`); all others are. `ControlsReachAll`
compares the lists of reset and snapshot with the counters that the calls of `one_call` advance, also those
that are in no balance.

**walker_patrol** - three scenarios: `turns`, five callbacks on two threads in 40 environments with
unset, zero, too large and valid strides, no, too many and invalid vectors; `refused`, every reason to leave
a victim alone; `controlled`, a reset and a snapshot between any two instructions. The limits of the code
are scaled down (default stride 16 to 2, largest stride 100000 to 4, 8 waypoints to 3) so that
values below, at and above each of them are few; five callbacks at stride 1 go round the waypoints and start again.

**signature_check** - every file of six bytes over three values (the first is the header) in four layouts:
padding with zeros, a section shorter than its bytes, no virtual size, a section cut off by or beyond the
image; every pattern of up to three tokens with wildcards, bad tokens and the empty pattern. Then
manifests of three descriptors on a few files with all options of the smoke program and the host. A pattern
of three bytes can end at, before and after every border of such a file, and one byte
repeated five times exceeds the limit of three matches.

## Proofs

TLC says these properties hold in the instances above; TLAPS proves them for every value of the constants
that satisfies the named `ASSUME` of the module: any number of threads, any depth, any images. All safety
properties of all passing runs are proved.

- `NetInterest_proofs`, counters. The inductive invariant is `CountersAccounted`: types, and for each table and
  for the total an equation between the counter, the number of mounted keys and the threads that
  have changed a count but not yet the counter, modulo W. The exact statements alone
  (`ExactWhenSettled`) are not inductive, since between two instructions they are false. Each step moves one
  thread between two of the sets and one counter by one; lemmas on cardinalities do the rest. From it follow
  `TypeCorrect`, `CountersCorrect`, `SettledExact`, `ShutIsTransient`, and `Refinement`: every step of
  `NetInterest` is a step of `RefCountedInterest` or leaves counts and answers alone. The assumption is that
  keys and controllers together are fewer than W (2^32), and the bound `MaxRefs` is below W.
- `NetInterest_proofs`, routing. `RoutesKnow` says what a route in progress has learned: its window covers what
  is wanted now and what its loads have found, and as long as nobody disturbed it, the loads it
  has made are still true. A route reads up to five values in as many steps, so what the first said has to be
  carried to the last. `RoutesExact` and `RoutesInventNothing` are the action properties of the run.
- `TeamDetours_proofs`. `TypeOK` and `TeamRestored` are inductive together: for an entity that no frame spoofs,
  the team is `base`; for one that some frame spoofs, the outermost of those frames holds `base`. The second
  conjunct is the strengthening: it says what the last frame to leave will write. `SlotIsInnermost` needs no
  strengthening: every filter call that ends clears the slot, also for the calls around it. `FlipsAreOwn` needs
  the recursion guard (`FlipsOutermost`): a flip is made only with no scope below it, so what the detour reads is
  the team that the entity really has. All for any depth, any set of entities and every environment.
- `HostLifecycle_proofs`. The inductive invariant `IInv` says what each control step has made sure of: which
  hooks are enabled in which phase, that a live trampoline's original is known, that the shim's pointer is
  the only runtime, and, for every game call, that what it loaded is still there unless it was overtaken:
  `OwnKnown` of its own original, `BorrowedKnown` of the classifier's that the filter loads. The two differ: the
  filter's own hook keeps its own trampoline, but not the classifier's, which a failed enable frees, so a call
  of the filter is overtaken by either. From it follow `TypeCorrect`, `CallsComplete`, `AllOrNone`,
  `AsConfigured`, `NoneLost`, for any hooks, calls and number of sessions.
- `LiveSession_proofs`. `CallsDoNotOverlap`: until the injector gives up, only the thread it waits for can be
  running, and after that no call but the shutdown is made. `BlocksAreSafe` and `ServerEnds`: memory is given back
  and the injector ends only when the server is gone. `PassesAreEarned`: stage by stage, what the calls
  that succeeded have made of the host and what the reports read so far hold (`Prepared`, `Written`,
  `Collected`), as long as the server is alive; of one that is gone nothing the injector believes need
  be true, since its exit code may read as success, and the session must find out before it passes.
- `WalkerPatrol_proofs`. Between two increments the sums of the counters are off, and by exactly the threads that
  are there: `Accounted` is the four sums of `PatrolAccounts` with the number of threads in the phases between
  as a correction, and `Shared` is `EvenTurns` with the turns that have been given and not yet taken.
  `Resetting` and `Copying` say what a reset or a snapshot that met no callback has done so far. `Bounded`
  keeps counters within the callbacks made, for `TypeCorrect`. For any threads, strides, waypoints
  and environments.
- `CallCounters_proofs`. The same idea for paths that are data: what has been counted of a set of counters plus
  what the calls in progress have yet to count of it is the same for both sides of each balance. This needs of
  the paths that each advances both sides of its scenario's balances equally often, and only counters in the
  order (`PathsEven`), a condition on the constants. `Zeroed` and `Copied` carry a reset and a snapshot that met
  no call through the order; at its end they give `ControlsComplete`.
- `DetourPaths_proofs` proves that condition of the code's paths (`PathsBalance`), for every environment and
  every input, by cutting each path into the pieces its helpers contribute and counting each piece. The
  exception is the filter with the probe disabled: its path is one result, which is even in every balance but
  that of filter calls and results (`DisabledFilterFair`), and `BalancesOf(FALSE)` is without it.
  `DetoursBalanceAtRest`, `DetoursBalancedSnapshots` and `DetoursControlsComplete` have as hypothesis
  (`OfDetours`) that each scenario consists of calls of the detours, all with the probe or all without, expects
  no other balances than these, and that its order names what the calls advance: what the definitions of
  `MCDetourCounters` show.
- `SignatureCheck_proofs`. The scans are recursive functions over the offsets and over the sections; that they
  exist and what they return is shown by induction. The library's induction theorems cannot be applied here, so
  `Induct` derives induction from facts on finite cardinalities, for sets instead of predicates, and `Iteration`
  derives recursion from it. `FindPatternRvasLists`: the scan of a module returns exactly the matches in its
  code, up to the limit, each once. Then `ScansAgree`: a match whose bytes are from the file is where the file has
  one, and the conversion of that offset gives the address back. The programs' `IInv` says that what has been
  resolved is right and in order, that zero failures means that nothing failed, and what each stage came
  through. From these follow `TypeCorrect`, `MappedResolvesUnique`, `ScannersAgree`, `SmokeIsSafe`
  and `HooksAreSafe`, for any images the loader takes, manifests of any length and all options.

Only model-checked: `CallsKeepReturning` and `SessionEnds`, because they are about fairness, which the prover does
not handle; the finite bounds and lists of the MC modules, which are data.

## Findings

1. `net_interest_gate`: the gate of the packet path can be shut over an id that is mounted and that nobody
   is touching. With id 0 mounted, a thread adds id 1 and has raised its count but not yet the total; another
   removes id 1 and lowers the total to 0. Until the first goes on, messages with id 0 are routed as
   `NoInterest`, although the comment on the hot path (`interest/mod.rs:5-7`) says that `has_any` asks whether
   anything is mounted. It lasts only until the add goes on (`ShutOnlyWhileAdding`, proved).
2. `team_detours_recursive`: `research/server-book/runtime-testpoints.md:19` has every recursive callback fall
   back to the original unless it is proven safe to re-enter; the target filter ignores `recursive()` and
   spoofs. The proof of `TeamRestored` shows that its teams are restored nevertheless.
3. `host_lifecycle_freed`: shutdown frees the runtime while a detour that has tested `runtime_` is about
   to use it, against `exports/mod.rs:25-26`.

Noticed while modelling, in places the models leave out or that no property is about:

- `dwrt_host.cpp:327`: `hooks_installed` keeps its count after a rollback, and later reports show it.
- `dwrt_host.cpp:745`: initialize returns an error when only the summary could not be written, with the host
  initialized and hooked. (`LiveSession` has this outcome.)
- `dwrt_host.cpp:861`: shutdown resets the counters of the walker patrol only.
- `dwrt_host.cpp:208`: the filter detour calls the classifier through its trampoline, so that this call is
  not seen by the classifier detour. The pointer is known from `dwrt_hook_backend.cpp:35` on, and if the
  classifier cannot be enabled then, its trampoline is freed (`:37-41`) under a filter call that has loaded
  it, with the filter's own hook live throughout: with `DWRT_TARGET_PROBE_ALLOW_TARGET_BITSET` set, the call goes
  through a freed trampoline. `UndisturbedCallsComplete` excepts it by its last premise; without that premise
  TLC shows the case.
- `dwrt_target_probe.cpp:972`: with the probe disabled the filter's results are still counted and its calls
  are not.
- `inject_smoke.cpp:1453`: `hold_seconds * 1000` is 32 bits wide and wraps for holds over 49 days;
  `:1475`: polls are scheduled from the last due time, so that after a slow poll several follow at once.
- `dwrt_walker_patrol.cpp:282` calls through an entry of the entity's vtable that it does not check, and
  `dwrt_signature_scanner.cpp:333-334` reads the module's sections without a guard.
- `interest/mod.rs:54`: 2^32 mounts of one id wrap its count to zero. The model bounds mounts by `MaxRefs`.
- A reset while a call is in its original leaves applied and restored off by one until the next reset,
  while `research/server-book/ffa-validation-tests.md:283` has a test pass only when they are equal.
- The shim's route counters are plain integers and lose increments if detours run on two threads.

## Not modelled

- Values seen last, histograms beyond "one of the array", timing, the text summary with its list of counters,
  JSON and log output: nothing is decided by them.
- Faults when a team is written (an entity freed inside the original): the game's address space is outside
  the models.
- Forced verdicts (`same_allow`, `objective_allow`, `secondary_allow`) in `TeamDetours`: no team depends on
  them; `DetourPaths` counts them.
- Command lines, PE headers and hashes in the smoke programs.
- `usercmd` policy: three independent masks that a route reads once; nothing can interleave.
- Hook registry, memory facts, entity schema, engine policy and trace: sequential catalogues and pure
  functions behind `&mut` or `const fn`, with unit tests, that the host does not call.
- The C interface: null checks and constants around what is modelled.
- Bootstrap and shim smoke drivers: straight-line programs whose configurations are instances of
  `HostLifecycle`.
- The vendored hook library, scripts, benchmarks and research notes.

---------------------------- MODULE WalkerPatrol ----------------------------
(***************************************************************************)
(* The walker patrol of dwrt-host (dwrt_walker_patrol.cpp): every stride-th*)
(* damage callback on a walker teleports it by the next of a few vectors.  *)
(* Callbacks run on any thread of the game, one atomic instruction a step; *)
(* the injector's thread resets and copies the counters meanwhile.         *)
(***************************************************************************)
EXTENDS Naturals, Sequences, FiniteSets, FiniteSetsExt

CONSTANTS
  Threads,        \* threads of the game
  Scenarios,      \* by name: environments, of the server, each [mode, stride, vectors]; victims, what
                  \* the callbacks find, Refusals or a walker; threads, those that deal damage; and the
                  \* bounds calls (damage callbacks in all) and controls (resets and snapshots in all)
  Unset,          \* a variable that is not set, or does not fit its buffer
  DefaultStride,  \* 16 in the code
  MaxStride,      \* 100000
  MaxWaypoints    \* 8

Refusals == {"skipped_recursive", "missing_identity", "missing_designer_name", "non_walker_victims"}

ASSUME WalkerAssumption ==
  /\ {DefaultStride, MaxStride, MaxWaypoints} \subseteq Nat \ {0}
  /\ IsFiniteSet(Threads)
  /\ \A n \in DOMAIN Scenarios :
       /\ Scenarios[n].threads \subseteq Threads
       /\ Scenarios[n].victims \subseteq Refusals \union {"walker"}
       /\ {Scenarios[n].calls, Scenarios[n].controls} \subseteq Nat
       /\ \A env \in Scenarios[n].environments :
            /\ env.mode \in {"velocity", "origin"}
            /\ env.stride = Unset \/ env.stride \in Nat
            /\ env.vectors = Unset \/ env.vectors \in Seq(STRING)

VARIABLES
  scenario, \* a name
  config,   \* [mode, stride, waypoints]
  count,    \* [Counters -> Nat]
  thread,   \* [Threads -> [at, index]], what each does in a callback
  made,     \* callbacks so far
  copy,     \* the snapshot
  control,  \* what the injector's thread does, where in Order it is, how often it may yet
  served,   \* history: how often each waypoint had its turn since the last clean reset
  clean,    \* history: the last reset met no callback
  settled   \* history: there is a snapshot, it met no callback, and was taken when clean

vars == <<scenario, config, count, thread, made, copy, control, served, clean, settled>>

Bound == Scenarios[scenario]

Order ==
  <<"damage_callbacks", "candidate_walkers", "non_walker_victims", "skipped_recursive", "missing_identity",
    "missing_designer_name", "teleport_attempts", "teleport_calls", "body_component_missing",
    "scene_node_missing", "origin_read_attempts", "origin_read_successes", "origin_read_failures">>
Counters == {Order[i] : i \in DOMAIN Order}

-----------------------------------------------------------------------------
(* configure_walker_patrol_from_environment.                               *)

\* Seeded fault: a stride of 0 is taken as it is.
StrideAsGiven(text) == IF text = Unset \/ text > MaxStride THEN DefaultStride ELSE text

\* env_u32_or.
Stride(text) == IF text = Unset \/ text > MaxStride THEN DefaultStride ELSE Max({1, text})

\* Four by the axes; how far depends on the mode.
DefaultVectors == <<"+x", "+y", "-x", "-y">>

\* parse_vector_environment: the first of the items that are vectors.
Waypoints(items) ==
  LET valid == IF items = Unset THEN {} ELSE {i \in DOMAIN items : items[i] \notin {"empty", "bad"}}
      nth(n) == CHOOSE i \in valid : Cardinality({j \in valid : j <= i}) = n
  IN IF valid = {} THEN DefaultVectors
     ELSE [n \in 1 .. Min({Cardinality(valid), MaxWaypoints}) |-> items[nth(n)]]

Configured(env) == [mode |-> env.mode, stride |-> Stride(env.stride), waypoints |-> Waypoints(env.vectors)]

NoTurns == [w \in 1 .. Max({4, MaxWaypoints}) |-> 0]

Init ==
  /\ scenario \in DOMAIN Scenarios
  /\ config \in {Configured(env) : env \in Bound.environments}
  /\ count = [k \in Counters |-> 0] /\ copy = [k \in Counters |-> 0]
  /\ thread = [t \in Threads |-> [at |-> "none", index |-> 0]] /\ made = 0
  /\ control = [op |-> "none", next |-> 1, left |-> Bound.controls]
  /\ served = NoTurns /\ clean = TRUE /\ settled = FALSE

AtRest == \A t \in Threads : thread[t].at = "none"

-----------------------------------------------------------------------------
(* maybe_apply_walker_patrol_on_damage.                                    *)

Counted(k) == count' = [count EXCEPT ![k] = @ + 1]
Goes(t, at) == thread' = [thread EXCEPT ![t].at = at]
Steps(t, from, k, to) ==
  /\ thread[t].at = from /\ Counted(k) /\ Goes(t, to)
  /\ UNCHANGED <<scenario, config, made, copy, control, served, clean, settled>>

\* A callback: its victim decides how it goes on.
Damage(t, victim) ==
  /\ thread[t].at = "none" /\ made < Bound.calls
  /\ Counted("damage_callbacks") /\ Goes(t, victim) /\ made' = made + 1
  /\ clean' = (clean /\ control.op # "reset")
  /\ settled' = (settled /\ control.op # "snapshot")
  /\ UNCHANGED <<scenario, config, copy, control, served>>

Refuse(t) == \E k \in Refusals : Steps(t, k, k, "none")

\* Every walker has an index of its own.
Candidate(t) ==
  LET index == count["candidate_walkers"] + 1
  IN /\ thread[t].at = "walker" /\ Counted("candidate_walkers")
     /\ thread' = [thread EXCEPT ![t] =
                     [at |-> IF index % config.stride = 0 /\ config.waypoints # <<>> THEN "turn" ELSE "none",
                      index |-> index]]
     /\ UNCHANGED <<scenario, config, made, copy, control, served, clean, settled>>

\* Seeded fault: the first turn is that of the second waypoint.
WaypointLate(index) == ((index \div config.stride) % Len(config.waypoints)) + 1

Waypoint(index) == (((index \div config.stride) - 1) % Len(config.waypoints)) + 1

Attempt(t) ==
  /\ thread[t].at = "turn" /\ Counted("teleport_attempts")
  /\ Goes(t, IF config.mode = "origin" THEN "origin" ELSE "teleport")
  /\ served' = [served EXCEPT ![Waypoint(thread[t].index)] = @ + 1]
  /\ UNCHANGED <<scenario, config, made, copy, control, clean, settled>>

\* read_entity_abs_origin: what it finds on its way to the origin.
ReadOrigin(t) ==
  \E found \in {"body_component_missing", "scene_node_missing", "implausible", "read"} :
     Steps(t, "origin", "origin_read_attempts", found)

\* Seeded fault: without a scene node the read is not counted as failed.
MissingOnly(t) ==
  \/ Steps(t, "body_component_missing", "body_component_missing", "implausible")
  \/ Steps(t, "scene_node_missing", "scene_node_missing", "none")

Missing(t) ==
  \E k \in {"body_component_missing", "scene_node_missing"} : Steps(t, k, k, "implausible")
Failure(t) == Steps(t, "implausible", "origin_read_failures", "none")
Success(t) == Steps(t, "read", "origin_read_successes", "teleport")

\* The teleported walker may be damaged in turn: a callback within the callback.
Nested(t) ==
  /\ thread[t].at = "teleport" /\ made < Bound.calls
  /\ Counted("damage_callbacks") /\ Goes(t, "nested") /\ made' = made + 1
  /\ UNCHANGED <<scenario, config, copy, control, served, clean, settled>>
NestedReturns(t) == Steps(t, "nested", "skipped_recursive", "teleport")

Teleported(t) == Steps(t, "teleport", "teleport_calls", "none")

-----------------------------------------------------------------------------
(* reset_walker_patrol_counters and walker_patrol_snapshot, by the injector.*)

BeginControl(op) ==
  /\ control.op = "none" /\ control.left > 0
  /\ control' = [op |-> op, next |-> 1, left |-> control.left - 1]
  /\ UNCHANGED <<scenario, config, count, thread, made, copy>>

BeginReset ==
  /\ BeginControl("reset")
  /\ clean' = AtRest /\ served' = NoTurns
  /\ UNCHANGED settled

BeginSnapshot ==
  /\ BeginControl("snapshot")
  /\ settled' = (clean /\ AtRest)
  /\ UNCHANGED <<served, clean>>

At == Order[control.next]
StepControl ==
  control' = IF control.next < Len(Order) THEN [control EXCEPT !.next = @ + 1]
             ELSE [control EXCEPT !.op = "none", !.next = 1]

Store ==
  /\ control.op = "reset" /\ StepControl
  /\ count' = [count EXCEPT ![At] = 0]
  /\ UNCHANGED <<scenario, config, thread, made, copy, served, clean, settled>>

\* Seeded fault: the counter added last is missing in the snapshot.
LoadAllButOne ==
  /\ control.op = "snapshot" /\ StepControl
  /\ copy' = [copy EXCEPT ![At] = IF control.next = Len(Order) THEN @ ELSE count[At]]
  /\ UNCHANGED <<scenario, config, count, thread, made, served, clean, settled>>

Load ==
  /\ control.op = "snapshot" /\ StepControl
  /\ copy' = [copy EXCEPT ![At] = count[At]]
  /\ UNCHANGED <<scenario, config, count, thread, made, served, clean, settled>>

Next ==
  \/ \E t \in Bound.threads :
       \/ \E victim \in Bound.victims : Damage(t, victim)
       \/ Refuse(t) \/ Candidate(t) \/ Attempt(t)
       \/ ReadOrigin(t) \/ Missing(t) \/ Failure(t) \/ Success(t)
       \/ Nested(t) \/ NestedReturns(t) \/ Teleported(t)
  \/ BeginReset \/ BeginSnapshot \/ Store \/ Load

Spec == Init /\ [][Next]_vars
-----------------------------------------------------------------------------
\* What a set n of counters should satisfy.
Accounts(n) ==
  /\ n["damage_callbacks"] = n["skipped_recursive"] + n["missing_identity"] + n["missing_designer_name"]
                              + n["non_walker_victims"] + n["candidate_walkers"]
  /\ n["teleport_attempts"] = n["candidate_walkers"] \div config.stride
  /\ n["teleport_attempts"] = n["teleport_calls"] + n["origin_read_failures"]
  /\ n["origin_read_attempts"] = n["origin_read_successes"] + n["origin_read_failures"]

Phases == Refusals \union
  {"none", "walker", "turn", "origin", "body_component_missing", "scene_node_missing", "implausible",
   "read", "teleport", "nested"}

TypeOK ==
  /\ scenario \in DOMAIN Scenarios
  /\ config.mode \in {"velocity", "origin"} /\ config.stride \in 1 .. Max({DefaultStride, MaxStride})
  /\ DOMAIN config.waypoints = 1 .. Len(config.waypoints)
  /\ Len(config.waypoints) \in 1 .. Max({4, MaxWaypoints})
  /\ count \in [Counters -> 0 .. Bound.calls] /\ copy \in [Counters -> 0 .. Bound.calls]
  /\ thread \in [Threads -> [at : Phases, index : 0 .. Bound.calls]]
  /\ made \in 0 .. Bound.calls
  /\ control \in [op : {"none", "reset", "snapshot"}, next : 1 .. Len(Order), left : 0 .. Bound.controls]
  /\ served \in [DOMAIN NoTurns -> 0 .. Bound.calls] /\ clean \in BOOLEAN /\ settled \in BOOLEAN

(* When no callback and no reset is in progress, every callback is counted *)
(* with what became of it and every stride-th walker was teleported or its *)
(* origin could not be read, on however many threads the callbacks were    *)
(* and whatever the teleports set off, unless the last reset met one.      *)
PatrolAccounts == clean /\ AtRest /\ control.op # "reset" => Accounts(count)

(* The waypoints take turns: with all turns taken, each had as many as in  *)
(* a round robin from the first one, although the callbacks take their     *)
(* index, their vector and their turn in separate steps.                   *)
EvenTurns ==
  clean /\ AtRest /\ control.op # "reset" =>
    \A w \in DOMAIN config.waypoints :
      served[w] = Cardinality({k \in 1 .. count["teleport_attempts"] : (k - 1) % Len(config.waypoints) = w - 1})

(* A snapshot that met no callback adds up as the counters do.             *)
SnapshotAccounts == settled /\ control.op # "snapshot" => Accounts(copy)
=============================================================================

---------------------------- MODULE CallCounters ----------------------------
(***************************************************************************)
(* The counters of a probe of dwrt-host.  Calls of the detours advance     *)
(* them one atomic increment after the other; meanwhile the injector's     *)
(* remote thread resets them, or copies them to a snapshot, one after the  *)
(* other as well and without a lock that the detours know.  What a call    *)
(* advances is a sequence, its path (DetourPaths has those of the code).   *)
(***************************************************************************)
EXTENDS Naturals, Sequences, FiniteSets

CONSTANTS
  Counters,  \* the counters of the probe
  Calls,     \* bound: calls in progress at once, nested or on other threads
  Scenarios  \* by name: order, the sequence of counters that are reset and copied; paths, what one
             \* call may advance; balances, pairs of sets of counters that should add up to the same;
             \* at, the Calls there are; and the bounds calls (in all) and controls (resets and snapshots)

ASSUME CounterAssumption ==
  /\ IsFiniteSet(Counters) /\ IsFiniteSet(Calls)
  /\ \A n \in DOMAIN Scenarios :
       LET s == Scenarios[n]
       IN /\ s.order \in Seq(Counters) /\ s.order # <<>> /\ s.paths \subseteq Seq(Counters)
          /\ \A b \in s.balances : b.whole \subseteq Counters /\ b.parts \subseteq Counters
          /\ s.at \subseteq Calls /\ s.calls \in Nat /\ s.controls \in Nat

VARIABLES
  scenario, \* a name
  count,    \* [Counters -> Nat]
  copy,     \* [Counters -> Nat], the snapshot
  todo,     \* [Calls -> Seq(Counters)], what is left of the call's path
  made,     \* calls begun
  control,  \* what the injector's thread does, where in Order it is, and how often it may yet
  clean,    \* history: the last reset met no call
  settled   \* history: there is a snapshot, it met no call, and was taken when clean

vars == <<scenario, count, copy, todo, made, control, clean, settled>>

Order == Scenarios[scenario].order
AtRest == \A c \in Calls : todo[c] = <<>>
Idle == control.op = "none"

Init ==
  /\ scenario \in DOMAIN Scenarios
  /\ count = [k \in Counters |-> 0] /\ copy = [k \in Counters |-> 0]
  /\ todo = [c \in Calls |-> <<>>] /\ made = 0
  /\ control = [op |-> "none", next |-> 1, left |-> Scenarios[scenario].controls]
  /\ clean = TRUE /\ settled = FALSE

-----------------------------------------------------------------------------
Begin(c, path) ==
  /\ todo[c] = <<>> /\ path # <<>> /\ made < Scenarios[scenario].calls
  /\ todo' = [todo EXCEPT ![c] = path] /\ made' = made + 1
  /\ clean' = (clean /\ control.op # "reset")
  /\ settled' = (settled /\ control.op # "snapshot")
  /\ UNCHANGED <<scenario, count, copy, control>>

\* fetch_add(1).
Advance(c) ==
  /\ todo[c] # <<>>
  /\ count' = [count EXCEPT ![Head(todo[c])] = @ + 1]
  /\ todo' = [todo EXCEPT ![c] = Tail(@)]
  /\ UNCHANGED <<scenario, copy, made, control, clean, settled>>

\* The injector's thread, under g_state_mutex or alone in the host.
BeginControl(op) ==
  /\ Idle /\ control.left > 0
  /\ control' = [op |-> op, next |-> 1, left |-> control.left - 1]

BeginReset ==
  /\ BeginControl("reset")
  /\ clean' = AtRest
  /\ UNCHANGED <<scenario, count, copy, todo, made, settled>>

BeginSnapshot ==
  /\ BeginControl("snapshot")
  /\ settled' = (clean /\ AtRest)
  /\ UNCHANGED <<scenario, count, copy, todo, made, clean>>

At == Order[control.next]

\* Seeded fault: one too many.
StepControlPastTheLast ==
  control' = IF control.next <= Len(Order) THEN [control EXCEPT !.next = @ + 1]
             ELSE [control EXCEPT !.op = "none", !.next = 1]

StepControl ==
  control' = IF control.next < Len(Order) THEN [control EXCEPT !.next = @ + 1]
             ELSE [control EXCEPT !.op = "none", !.next = 1]

\* store(0) of the next counter.
Store ==
  /\ control.op = "reset" /\ StepControl
  /\ count' = [count EXCEPT ![At] = 0]
  /\ UNCHANGED <<scenario, copy, todo, made, clean, settled>>

\* Seeded fault: the counter added last is missing in the snapshot.
LoadAllButOne ==
  /\ control.op = "snapshot" /\ StepControl
  /\ copy' = [copy EXCEPT ![At] = IF control.next = Len(Order) THEN @ ELSE count[At]]
  /\ UNCHANGED <<scenario, count, todo, made, clean, settled>>

\* load() of the next counter.
Load ==
  /\ control.op = "snapshot" /\ StepControl
  /\ copy' = [copy EXCEPT ![At] = count[At]]
  /\ UNCHANGED <<scenario, count, todo, made, clean, settled>>

Next ==
  \/ \E c \in Scenarios[scenario].at : Advance(c) \/ \E p \in Scenarios[scenario].paths : Begin(c, p)
  \/ BeginReset \/ BeginSnapshot \/ Store \/ Load

Spec == Init /\ [][Next]_vars
-----------------------------------------------------------------------------
Balances == Scenarios[scenario].balances

\* What the counters n say of some of them together: one unit for each advance.
Units(n, some) == UNION {{k} \X (1 .. n[k]) : k \in some}
Balanced(n) == \A b \in Balances : Cardinality(Units(n, b.whole)) = Cardinality(Units(n, b.parts))

TypeOK ==
  LET s == Scenarios[scenario]
      Numbers == 0 .. 3 * s.calls
  IN /\ scenario \in DOMAIN Scenarios
     /\ count \in [Counters -> Numbers] /\ copy \in [Counters -> Numbers]
     /\ todo \in [Calls -> Seq(Counters)]
     /\ made \in 0 .. s.calls
     /\ control \in [op : {"none", "reset", "snapshot"}, next : 1 .. Len(Order), left : 0 .. s.controls]
     /\ clean \in BOOLEAN /\ settled \in BOOLEAN

(* Whenever no call and no reset is in progress the counters add up: calls *)
(* to their outcomes, spoofs to their undoings, as the balances of the     *)
(* scenario say, however the calls interleaved, unless the last reset met  *)
(* a call: then they may not, until one meets none.  (With the target      *)
(* probe disabled the results of the filter are in no balance:             *)
(* finish_target_filter counts them although no call was counted.)         *)
BalancedAtRest == clean /\ AtRest /\ control.op # "reset" => Balanced(count)

(* A snapshot that met no call, taken since a reset that met none, shows   *)
(* counters that add up in the same way, whatever calls there were between *)
(* the two and have been since.                                            *)
SnapshotBalanced == settled /\ control.op # "snapshot" => Balanced(copy)

(* A reset that met no call leaves every counter that a call can advance   *)
(* at zero, and a snapshot that met none, taken since such a reset, shows  *)
(* every one as it is, those too that nothing has to add up to (the lists  *)
(* of reset_*_counters and *_snapshot are complete).                       *)
ControlsReachAll ==
  [][/\ Idle' /\ control.op = "reset" /\ clean => \A k \in Counters : count'[k] = 0
     /\ Idle' /\ control.op = "snapshot" /\ settled => \A k \in Counters : copy'[k] = count[k]]_vars
=============================================================================

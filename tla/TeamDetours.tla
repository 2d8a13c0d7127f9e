----------------------------- MODULE TeamDetours -----------------------------
(***************************************************************************)
(* The detours of dwrt-host that write m_iTeamNum: the damage detour with  *)
(* its friendly-fire spoof, the target filter with its source, target and  *)
(* classifier spoofs, and the detours that neutralize what they are        *)
(* called with.  The game calls them on its server thread and nests them:  *)
(* each runs the code it replaces, which calls others.  A spoof lasts for  *)
(* that code; a team the game or a neutralization gives lasts.             *)
(*                                                                         *)
(* The counters of the probes are left out, and so are the verdicts of the *)
(* detours: no team depends on them.                                       *)
(***************************************************************************)
EXTENDS Integers, Sequences

CONSTANTS
  Entities,    \* entities of the game, at addresses that can be read
  NoEntity,    \* a null pointer, or one that cannot be read
  Objectives,  \* entities with an objective's designer name
  Teams,       \* values of m_iTeamNum
  Configs,     \* environments the host may be started in
  Detours,     \* kinds of detour the game reaches (bounds the inputs)
  Arguments,   \* pointers it passes to them (bounds the inputs)
  MaxDepth     \* bound: detours nested on the server thread

Pointers == Entities \union {NoEntity}
AnyTeam == 0        \* DWRT_FRIENDLY_FIRE_LOCAL_TEAM=0
OpposingTeam == -1  \* kInvalidTeam: the team opposing the source

\* Seeded fault: "no opposing team" is not mapped to a team.
OpposingUnmapped(t) == CASE t = 2 -> 3 [] t = 3 -> 2 [] OTHER -> -1

Opposing(t) == CASE t = 2 -> 3 [] t = 3 -> 2 [] OTHER -> 0
Kinds == {"damage", "io", "filter", "caller", "secondary", "classifier"}

ASSUME DetourAssumption ==
  /\ NoEntity \notin Entities
  /\ Objectives \subseteq Entities
  /\ Teams \subseteq 0 .. 255 /\ {0, 2, 3} \subseteq Teams
  /\ Configs \subseteq [probe : BOOLEAN, source_spoof : BOOLEAN, target_spoof : BOOLEAN,
                        spoof_team : Teams \union {OpposingTeam}, classifier : BOOLEAN,
                        neutralize : BOOLEAN, neutral_team : Teams,
                        friendly_fire : BOOLEAN, local_team : Teams]
  /\ Detours \subseteq Kinds /\ Arguments \subseteq Pointers
  /\ MaxDepth \in Nat

VARIABLES
  config,  \* what configure_*_from_environment read
  team,    \* [Entities -> Teams], m_iTeamNum
  base,    \* history: the last team given to stay, by the game or a neutralization
  stack,   \* the detours in progress, innermost last
  slot     \* g_classifier_spoof_scope.target, NoEntity when it is inactive

vars == <<config, team, base, stack, slot>>

(* A detour in progress: its arguments, and of the scope object the parts  *)
(* that its return reads.  A damage frame's victim is its target.          *)
Frames == [kind : Kinds,
           phase : {"entered", "original"}, recursive : BOOLEAN,
           source : Pointers, target : Pointers, third : Pointers,
           source_applied : BOOLEAN, original_source_team : Teams,
           target_applied : BOOLEAN, original_target_team : Teams,
           spoofs_classifier : BOOLEAN]

Frame(kind, recursive, source, target, third) ==
  [kind |-> kind, phase |-> "original", recursive |-> recursive,
   source |-> source, target |-> target, third |-> third,
   source_applied |-> FALSE, original_source_team |-> 0,
   target_applied |-> FALSE, original_target_team |-> 0, spoofs_classifier |-> FALSE]

\* The frame has overwritten the team of e and will write Saved(f, e) back.
Spoofs(f, e) == \/ f.source_applied /\ f.source = e
                \/ f.target_applied /\ f.target = e
Saved(f, e) == IF f.target_applied /\ f.target = e
               THEN f.original_target_team ELSE f.original_source_team
Spoofed(st, e) == \E i \in 1 .. Len(st) : Spoofs(st[i], e)

Init ==
  /\ config \in Configs
  /\ team \in [Entities -> Teams]
  /\ base = team
  /\ stack = <<>>
  /\ slot = NoEntity

-----------------------------------------------------------------------------
Top == stack[Len(stack)]
TopIs(kind, phase) == stack # <<>> /\ Top.kind = kind /\ Top.phase = phase

\* CallbackScope: some scope is open on this thread.  The classifier has none.
Recursive == \E i \in 1 .. Len(stack) : stack[i].kind # "classifier"

Push(f) == /\ f.kind \in Detours /\ Len(stack) < MaxDepth
           /\ stack' = Append(stack, f)
Pop == stack' = SubSeq(stack, 1, Len(stack) - 1)
ReplaceTop(f) == stack' = [stack EXCEPT ![Len(stack)] = f]

\* maybe_global_neutralize_entity on the pointers P.
Neutralized(P) ==
  IF config.probe /\ config.neutralize
  THEN [e \in Entities |-> IF e \in P THEN config.neutral_team ELSE team[e]]
  ELSE team

\* The teams tm are given to stay, unless a spoof will overwrite them.
Stays(tm) == base' = [e \in Entities |-> IF Spoofed(stack, e) THEN base[e] ELSE tm[e]]
Gives(tm) == team' = tm /\ Stays(tm)

\* The game assigns a team: at rest, or inside the code that a detour calls.
GameSetsTeam(e, t) ==
  /\ Gives([team EXCEPT ![e] = t])
  /\ UNCHANGED <<config, stack, slot>>

-----------------------------------------------------------------------------
(* detour_take_damage_old.  Its patrol may call Teleport, which is game    *)
(* code, before the friendly-fire scope begins.                            *)

EnterDamage(victim) ==
  /\ Push([Frame("damage", Recursive, NoEntity, victim, NoEntity) EXCEPT !.phase = "entered"])
  /\ Gives(IF Recursive THEN team ELSE Neutralized({victim}))
  /\ UNCHANGED <<config, slot>>

\* Seeded fault: the recursion guard of begin_friendly_fire_damage is dropped.
FriendlyFireAppliesNested(f) ==
  /\ config.friendly_fire
  /\ f.target \in Objectives
  /\ config.local_team \in {AnyTeam, team[f.target]}
  /\ Opposing(team[f.target]) # 0

\* begin_friendly_fire_damage gets past its early returns.
FriendlyFireApplies(f) ==
  /\ config.friendly_fire /\ ~f.recursive
  /\ f.target \in Objectives
  /\ config.local_team \in {AnyTeam, team[f.target]}
  /\ Opposing(team[f.target]) # 0

BeginDamage ==
  LET f == [Top EXCEPT !.phase = "original"]
  IN /\ TopIs("damage", "entered")
     /\ IF FriendlyFireApplies(f)
        THEN /\ team' = [team EXCEPT ![f.target] = Opposing(@)]
             /\ ReplaceTop([f EXCEPT !.target_applied = TRUE,
                                     !.original_target_team = team[f.target]])
        ELSE UNCHANGED team /\ ReplaceTop(f)
     /\ UNCHANGED <<config, base, slot>>

\* end_friendly_fire_damage.
LeaveDamage ==
  /\ TopIs("damage", "original")
  /\ team' = IF Top.target_applied
             THEN [team EXCEPT ![Top.target] = Top.original_target_team] ELSE team
  /\ Pop
  /\ UNCHANGED <<config, base, slot>>

-----------------------------------------------------------------------------
(* detour_accept_input and detour_fire_output_internal.                    *)

EnterIo(self, activator, caller) ==
  /\ Push(Frame("io", Recursive, self, activator, caller))
  /\ Gives(IF Recursive THEN team ELSE Neutralized({self, activator, caller}))
  /\ UNCHANGED <<config, slot>>

LeaveIo == TopIs("io", "original") /\ Pop /\ UNCHANGED <<config, team, base, slot>>

-----------------------------------------------------------------------------
(* detour_target_friendly_fire_filter.                                     *)

\* Seeded fault: begin_target_filter remembers the teams after the spoof.
FilterScopeLate(source, target, now, after) ==
  [Frame("filter", Recursive, source, target, NoEntity) EXCEPT
     !.phase = "entered",
     !.original_source_team = IF source \in Entities THEN after[source] ELSE 0,
     !.original_target_team = IF target \in Entities THEN after[target] ELSE 0]

\* The scope that begin_target_filter fills in, now being the teams it reads
\* and after those it leaves; the applied flags are set by EnterFilter.
FilterScope(source, target, now, after) ==
  [Frame("filter", Recursive, source, target, NoEntity) EXCEPT
     !.phase = "entered",
     !.original_source_team = IF source \in Entities THEN now[source] ELSE 0,
     !.original_target_team = IF target \in Entities THEN now[target] ELSE 0]

SpoofTeam(source_team) ==
  IF config.spoof_team = OpposingTeam THEN Opposing(source_team) ELSE config.spoof_team

\* begin_target_filter; the detour calls it with recursive = false.
EnterFilter(source, target) ==
  LET now == Neutralized({source, target})
      same == {source, target} \subseteq Entities /\ now[source] = now[target]
      spoofs_source == /\ config.source_spoof /\ same /\ source # target
                       /\ Opposing(now[target]) # 0
      spoofs_target == config.target_spoof /\ same /\ source # target
      after == [e \in Entities |->
                  CASE spoofs_source /\ e = source -> Opposing(now[target])
                    [] spoofs_target /\ e = target -> SpoofTeam(now[source])
                    [] OTHER -> now[e]]
  IN /\ Push(IF config.probe
             THEN [FilterScope(source, target, now, after) EXCEPT
                     !.source_applied = spoofs_source, !.target_applied = spoofs_target,
                     !.spoofs_classifier = /\ config.classifier /\ target # NoEntity
                                           /\ same \/ target \in Objectives]
             ELSE [Frame("filter", Recursive, NoEntity, NoEntity, NoEntity) EXCEPT
                     !.phase = "entered"])
     /\ team' = IF config.probe THEN after ELSE team
     /\ Stays(now)
     /\ UNCHANGED <<config, slot>>

\* begin_target_classifier_spoof_scope, after maybe_allow_target_bitset has
\* called the original classifier.
BeginFilter ==
  /\ TopIs("filter", "entered")
  /\ slot' = IF Top.spoofs_classifier THEN Top.target ELSE NoEntity
  /\ ReplaceTop([Top EXCEPT !.phase = "original"])
  /\ UNCHANGED <<config, team, base>>

\* Seeded fault: the slot is not cleared when the filter returns.
CloseSlotNever == UNCHANGED slot

\* end_target_classifier_spoof_scope.
CloseSlot == slot' = NoEntity

\* ... and finish_target_filter.
LeaveFilter ==
  /\ TopIs("filter", "original")
  /\ team' = [e \in Entities |-> IF Spoofs(Top, e) THEN Saved(Top, e) ELSE team[e]]
  /\ Pop /\ CloseSlot
  /\ UNCHANGED <<config, base>>

-----------------------------------------------------------------------------
(* detour_target_friendly_fire_caller and ..._secondary_friendly_fire_gate *)
(* record after the call, the classifier after it and recursive or not.    *)

EnterObserver(kind, source, target, third) ==
  /\ Push(Frame(kind, Recursive, source, target, third))
  /\ UNCHANGED <<config, team, base, slot>>

LeaveObserver ==
  /\ stack # <<>> /\ Top.kind \in {"caller", "secondary", "classifier"}
  /\ Gives(IF Top.kind # "classifier" /\ Top.recursive THEN team
           ELSE Neutralized({Top.source, Top.target, Top.third}))
  /\ Pop
  /\ UNCHANGED <<config, slot>>

-----------------------------------------------------------------------------
Next ==
  \/ \E e \in Entities, t \in Teams : GameSetsTeam(e, t)
  \/ \E p \in Arguments : EnterDamage(p)
  \/ BeginDamage \/ LeaveDamage
  \/ \E p, q, r \in Arguments : EnterIo(p, q, r)
  \/ LeaveIo
  \/ \E p, q \in Arguments : EnterFilter(p, q)
  \/ BeginFilter \/ LeaveFilter
  \/ \E p, q \in Arguments : EnterObserver("caller", p, q, NoEntity)
  \/ \E p, q, r \in Arguments : EnterObserver("secondary", p, q, r)
  \/ \E p \in Arguments : EnterObserver("classifier", NoEntity, p, NoEntity)
  \/ LeaveObserver

Spec == Init /\ [][Next]_vars
-----------------------------------------------------------------------------
(* What its kind and phase say of the scope of a detour in progress. *)
ScopeOf(f) ==
  /\ f.source_applied => f.kind = "filter" /\ f.source \in Entities
  /\ f.target_applied => f.kind \in {"damage", "filter"} /\ f.target \in Entities
  /\ f.kind = "damage" /\ f.phase = "entered" => ~f.target_applied

TypeOK ==
  /\ config \in Configs
  /\ team \in [Entities -> Teams] /\ base \in [Entities -> Teams]
  /\ stack \in Seq(Frames)
  /\ \A i \in 1 .. Len(stack) : ScopeOf(stack[i])
  /\ slot \in Pointers

Restored(e) ==
  /\ ~Spoofed(stack, e) => team[e] = base[e]
  /\ \A i \in 1 .. Len(stack) :
       (Spoofs(stack[i], e) /\ \A j \in 1 .. i - 1 : ~Spoofs(stack[j], e))
         => Saved(stack[i], e) = base[e]

(* Once no detour in progress spoofs an entity, its team is the one it was *)
(* last given to stay, and until then the outermost of them holds that     *)
(* team: however the detours nest and whatever the game writes inside      *)
(* them, no spoof outlives its call (end_friendly_fire_damage,             *)
(* finish_target_filter).                                                  *)
TeamRestored == \A e \in Entities : Restored(e)

Begun(i) == stack[i].kind = "filter" /\ stack[i].phase = "original"

(* The thread's one classifier slot is never left over from a filter call  *)
(* that has returned, and names the target of the innermost one whose      *)
(* original runs: no other call's classification is spoofed                *)
(* (begin_ and end_target_classifier_spoof_scope).                         *)
SlotBelongsToInnermost ==
  slot # NoEntity =>
    \E i \in 1 .. Len(stack) :
      /\ Begun(i) /\ stack[i].target = slot /\ stack[i].spoofs_classifier
      /\ \A j \in i + 1 .. Len(stack) : ~Begun(j)

(* A victim is spoofed only away from the team it really has, and only if  *)
(* that is the local team: an enemy's objective is never flipped, not even *)
(* one that an outer filter call has spoofed onto the local team           *)
(* (begin_friendly_fire_damage).                                           *)
OnlyOwnObjectivesFlipped ==
  \A i \in 1 .. Len(stack) :
    LET f == stack[i]
    IN f.kind = "damage" /\ f.target_applied =>
         f.original_target_team = base[f.target]
         /\ config.local_team \in {AnyTeam, base[f.target]}

(* A callback that starts inside another falls back to the original: it    *)
(* writes no team of its own.                                              *)
RecursiveFallsBack ==
  [][Len(stack') > Len(stack) /\ Recursive => team' = team]_vars
=============================================================================

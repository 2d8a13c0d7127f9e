----------------------------- MODULE DetourPaths -----------------------------
(***************************************************************************)
(* What one call of a detour of dwrt-host counts: for an environment cf    *)
(* and an input in, the counters of the target probe, of friendly fire and *)
(* of the runtime in the order in which the detour advances them.  Arrays  *)
(* of counters are one counter; the values seen last, which do not add up  *)
(* to anything, are left out.  Teams are as the detour finds them;         *)
(* TeamDetours has what it makes of them.                                  *)
(***************************************************************************)
EXTENDS Naturals, Sequences

(* ProbeState of the runtime.  The mount mask may change at any time; a    *)
(* call reads it once.                                                     *)

Seen(event) ==
  CASE event = "damage" -> "damage_seen"        [] event = "entity_input" -> "entity_input_seen"
    [] event = "entity_output" -> "entity_output_seen" [] event = "entity_touch" -> "entity_touch_seen"
Counted(event) ==
  CASE event = "damage" -> "damage_counted"     [] event = "entity_input" -> "entity_input_counted"
    [] event = "entity_output" -> "entity_output_counted" [] event = "entity_touch" -> "entity_touch_counted"

Events == {"damage", "entity_input", "entity_output", "entity_touch"}

\* record_if_mounted.
Record(cf, event) == IF event \in cf.mounts THEN <<Seen(event), Counted(event)>> ELSE <<>>

-----------------------------------------------------------------------------
\* Entities as the detours see them.
Null == [null |-> TRUE, readable |-> FALSE, team |-> 0]
Unreadable == [null |-> FALSE, readable |-> FALSE, team |-> 0]
OfTeam(t) == [null |-> FALSE, readable |-> TRUE, team |-> t]

When(condition, counter) == IF condition THEN <<counter>> ELSE <<>>
Opposing(t) == CASE t = 2 -> 3 [] t = 3 -> 2 [] OTHER -> 0

\* maybe_global_neutralize_entity, record_global_neutralize_original_team.
Neutralize(cf, e) ==
  IF ~(cf.probe /\ cf.neutralize) THEN <<>>
  ELSE <<"neutralize_attempts">> \o
       (IF e.null THEN <<"neutralize_null">>
        ELSE IF ~e.readable THEN <<"neutralize_invalid_team">>
        ELSE <<IF e.team < 8 THEN "neutralize_teams" ELSE "neutralize_teams_overflow",
               IF e.team = cf.neutral_team THEN "neutralize_already" ELSE "neutralize_applied">>)

\* The entity after that.
After(cf, e) == IF cf.probe /\ cf.neutralize /\ e.readable THEN OfTeam(cf.neutral_team) ELSE e

SameTeam(e, f) == e.readable /\ f.readable /\ e.team = f.team

-----------------------------------------------------------------------------
(* detour_target_friendly_fire_filter.  in: source, target, one (they are  *)
(* the same pointer), name (designer name of the target), unit, bit (what  *)
(* the classifier's original says of the target, or that it faults),       *)
(* result (of the original).                                               *)

Name(prefix, name) ==
  When(name = "objective", prefix[1]) \o When(name = "neutral", prefix[2])
    \o When(name = "midboss", prefix[3])

BeginFilter(cf, in, same) ==
  LET spoofs == same /\ ~in.one
  IN Neutralize(cf, in.source) \o Neutralize(cf, IF in.one THEN After(cf, in.source) ELSE in.target)
       \o <<"filter_calls">>
       \o When(~in.source.readable, "filter_invalid_source_team")
       \o When(~in.target.readable, "filter_invalid_target_team")
       \o <<IF in.unit < 32 THEN "filter_unit_types" ELSE "filter_unit_type_overflow">>
       \o When(same, "same_team_calls")
       \o Name(<<"objective_calls", "filter_neutral", "filter_midboss">>, in.name)
       \o (IF cf.source_spoof /\ spoofs /\ Opposing(After(cf, in.target).team) # 0
           THEN <<"source_spoof_attempts", "source_spoof_applied">> ELSE <<>>)
       \o (IF cf.target_spoof /\ spoofs
           THEN <<"target_spoof_attempts", "target_spoof_applied">> ELSE <<>>)

\* maybe_allow_target_bitset; the original filter runs after it.
AllowBitset(cf, in, same) ==
  IF ~(cf.bitset_allow /\ (same \/ in.name = "objective")) THEN <<>>
  ELSE <<"bitset_attempts",
         IF in.target.null \/ in.bit = "invalid" THEN "bitset_failures" ELSE "bitset_applied">>

Forced(cf, in, same) ==
  ~in.result /\ ((cf.same_allow /\ same) \/ (cf.objective_allow /\ in.name = "objective"))

\* record_result_common.
Result(in, same, allowed) ==
  <<IF allowed THEN "filter_allowed" ELSE "filter_denied">>
    \o When(same, IF allowed THEN "same_team_allowed" ELSE "same_team_denied")
    \o When(in.name = "objective", IF allowed THEN "objective_allowed" ELSE "objective_denied")

\* Seeded fault: a spoof is only undone when the filter allows.
FinishFilterAllowed(cf, in, same) ==
  LET allowed == in.result \/ Forced(cf, in, same)
      spoofs == same /\ ~in.one
  IN When(Forced(cf, in, same), "filter_forced") \o Result(in, same, allowed)
       \o (IF cf.source_spoof /\ spoofs /\ Opposing(After(cf, in.target).team) # 0
           THEN <<IF allowed THEN "source_spoof_allowed" ELSE "source_spoof_denied">>
                  \o When(allowed, "source_spoof_restored") ELSE <<>>)
       \o (IF cf.target_spoof /\ spoofs
           THEN <<IF allowed THEN "target_spoof_allowed" ELSE "target_spoof_denied",
                  "target_spoof_restored">> ELSE <<>>)

FinishFilter(cf, in, same) ==
  LET allowed == in.result \/ Forced(cf, in, same)
      spoofs == same /\ ~in.one
  IN When(Forced(cf, in, same), "filter_forced") \o Result(in, same, allowed)
       \o (IF cf.source_spoof /\ spoofs /\ Opposing(After(cf, in.target).team) # 0
           THEN <<IF allowed THEN "source_spoof_allowed" ELSE "source_spoof_denied",
                  "source_spoof_restored">> ELSE <<>>)
       \o (IF cf.target_spoof /\ spoofs
           THEN <<IF allowed THEN "target_spoof_allowed" ELSE "target_spoof_denied",
                  "target_spoof_restored">> ELSE <<>>)

\* With the probe disabled there is no scope, and the result is counted all the same.
FilterPath(cf, in) ==
  LET same == SameTeam(After(cf, in.source), After(cf, in.target))
  IN IF cf.probe
     THEN BeginFilter(cf, in, same) \o AllowBitset(cf, in, same) \o FinishFilter(cf, in, same)
     ELSE <<IF in.result THEN "filter_allowed" ELSE "filter_denied">>

-----------------------------------------------------------------------------
(* The other detours of the target filter.                                 *)

\* finish_target_identity_classifier.  in: target, bit, spoofed (there is a
\* scope for this target).
ClassifierPath(cf, in) ==
  IF ~cf.probe THEN <<>>
  ELSE Neutralize(cf, in.target) \o <<"classifier_calls">>
         \o When(in.bit = "invalid", "classifier_invalid")
         \o (IF cf.classifier /\ in.spoofed
             THEN <<"classifier_spoof_attempts", "classifier_spoof_applied">> ELSE <<>>)

\* record_target_filter_caller.
CallerPath(cf, in) ==
  LET same == SameTeam(After(cf, in.source), After(cf, in.target))
      forced == Forced(cf, in, same)
  IN IF ~cf.probe THEN <<>>
     ELSE Neutralize(cf, in.source) \o Neutralize(cf, IF in.one THEN After(cf, in.source) ELSE in.target)
            \o When(forced, "caller_forced") \o <<"caller_calls">>
            \o <<IF in.result \/ forced THEN "caller_allowed" ELSE "caller_denied">>
            \o When(in.unit = 26, "caller_0x1a_candidates")

\* record_secondary_target_gate.
SecondaryPath(cf, in) ==
  LET forced == ~in.result /\ cf.secondary_allow
  IN IF ~cf.probe THEN <<>>
     ELSE Neutralize(cf, in.source) \o Neutralize(cf, in.target) \o Neutralize(cf, in.third)
            \o When(forced, "secondary_forced") \o <<"secondary_calls">>
            \o <<IF in.result \/ forced THEN "secondary_allowed" ELSE "secondary_denied">>

\* detour_accept_input and detour_fire_output_internal, not recursive.
IoPath(cf, event, in) ==
  Neutralize(cf, in.self) \o Neutralize(cf, in.activator) \o Neutralize(cf, in.caller) \o Record(cf, event)

-----------------------------------------------------------------------------
(* detour_take_damage_old.  in: recursive, victim, name, unit, attacker    *)
(* (Null when its handle does not resolve), self (it is the victim),       *)
(* inflictor (its handle resolves).                                        *)

Relation(attacker, victim) ==
  CASE SameTeam(attacker, victim) -> <<"attacker_same_team">>
    [] attacker.readable /\ victim.readable /\ {attacker.team, victim.team} = {2, 3} -> <<"attacker_opposing">>
    [] OTHER -> <<"attacker_other_team">>

\* record_damage_victim.
VictimPath(cf, in) ==
  LET victim == After(cf, in.victim)
      attacker == IF in.self THEN victim ELSE in.attacker
      same == SameTeam(attacker, victim)
      unit == IF in.unit < 64 THEN "victim_unit_types" ELSE "victim_unit_type_overflow"
  IN IF ~cf.probe \/ in.recursive THEN <<>>
     ELSE Neutralize(cf, in.victim) \o <<"victim_calls">>
            \o When(~victim.readable, "victim_invalid_team") \o <<unit>>
            \o Name(<<"victim_objective", "victim_neutral", "victim_midboss">>, in.name)
            \o <<IF in.inflictor THEN "inflictor_valid" ELSE "inflictor_invalid">>
            \o (IF attacker.null THEN <<"attacker_invalid">>
                ELSE <<"attacker_valid", "attacker_unit_types">> \o When(in.self, "attacker_self")
                       \o Relation(attacker, victim) \o When(same, "same_team_unit_types")
                       \o When(same /\ in.name = "objective", "same_team_objective"))

\* begin_friendly_fire_damage, its early returns.
Refusal(victim, in) ==
  IF in.recursive THEN <<"skipped_recursive">>
  ELSE IF victim.null \/ in.name = "no_identity" THEN <<"missing_identity">>
  ELSE IF in.name = "unnamed" THEN <<"missing_designer_name">>
  ELSE When(in.name # "objective", "non_objective_victims")

\* An objective's spoof.
SpoofPath(cf, victim) ==
  IF cf.local_team \notin {0, victim.team} THEN <<>>
  ELSE IF Opposing(victim.team) = 0 THEN <<"invalid_team">>
  ELSE <<"team_spoof_attempts", "team_spoof_applied">>

FriendlyFirePath(cf, in) ==
  LET victim == After(cf, in.victim)
      refusal == Refusal(victim, in)
  IN IF ~cf.friendly_fire THEN <<>>
     ELSE <<"damage_callbacks">> \o
          (IF refusal # <<>> THEN refusal ELSE <<"objective_candidates">> \o SpoofPath(cf, victim))

\* scope.applied.
Applied(cf, in) ==
  LET victim == After(cf, in.victim)
  IN /\ cf.friendly_fire /\ Refusal(victim, in) = <<>>
     /\ cf.local_team \in {0, victim.team} /\ Opposing(victim.team) # 0

\* Of the patrol before the spoof see WalkerPatrol.  end_friendly_fire_damage follows the original.
DamagePath(cf, in) ==
  VictimPath(cf, in) \o FriendlyFirePath(cf, in) \o (IF in.recursive THEN <<>> ELSE Record(cf, "damage"))
    \o When(Applied(cf, in), "team_spoof_restored")

-----------------------------------------------------------------------------
\* What the counters of a call should add up to.
Adds(whole, parts) == [whole |-> whole, parts |-> parts]
FilterResults == Adds({"filter_calls"}, {"filter_allowed", "filter_denied"})
AllBalances ==
  {Adds({Seen(event)}, {Counted(event)}) : event \in Events} \union
  {Adds({"damage_callbacks"}, {"skipped_recursive", "missing_identity", "missing_designer_name",
                               "non_objective_victims", "objective_candidates"}),
   Adds({"team_spoof_attempts"}, {"team_spoof_applied"}),
   Adds({"team_spoof_applied"}, {"team_spoof_restored"}),
   FilterResults,
   Adds({"filter_calls"}, {"filter_unit_types", "filter_unit_type_overflow"}),
   Adds({"same_team_calls"}, {"same_team_allowed", "same_team_denied"}),
   Adds({"objective_calls"}, {"objective_allowed", "objective_denied"}),
   Adds({"source_spoof_attempts"}, {"source_spoof_applied"}),
   Adds({"source_spoof_applied"}, {"source_spoof_restored"}),
   Adds({"source_spoof_applied"}, {"source_spoof_allowed", "source_spoof_denied"}),
   Adds({"target_spoof_applied"}, {"target_spoof_restored"}),
   Adds({"target_spoof_applied"}, {"target_spoof_allowed", "target_spoof_denied"}),
   Adds({"bitset_attempts"}, {"bitset_applied", "bitset_failures"}),
   Adds({"classifier_spoof_attempts"}, {"classifier_spoof_applied"}),
   Adds({"neutralize_attempts"}, {"neutralize_applied", "neutralize_already", "neutralize_null",
                                  "neutralize_invalid_team"}),
   Adds({"neutralize_applied", "neutralize_already"}, {"neutralize_teams", "neutralize_teams_overflow"}),
   Adds({"secondary_calls"}, {"secondary_allowed", "secondary_denied"}),
   Adds({"caller_calls"}, {"caller_allowed", "caller_denied"}),
   Adds({"victim_calls"}, {"victim_unit_types", "victim_unit_type_overflow"}),
   Adds({"victim_calls"}, {"attacker_valid", "attacker_invalid"}),
   Adds({"victim_calls"}, {"inflictor_valid", "inflictor_invalid"}),
   Adds({"attacker_valid"}, {"attacker_same_team", "attacker_opposing", "attacker_other_team"}),
   Adds({"attacker_valid"}, {"attacker_unit_types"}),
   Adds({"attacker_same_team"}, {"same_team_unit_types"})}

\* With the probe disabled the filter counts results and no calls.
BalancesOf(probe) == IF probe THEN AllBalances ELSE AllBalances \ {FilterResults}
=============================================================================

-------------------------- MODULE MCDetourCounters --------------------------
(***************************************************************************)
(* The counters of the target probe and of friendly fire, for TLC: calls   *)
(* on entities of a few teams in environments that reach every counter.    *)
(***************************************************************************)
EXTENDS DetourPaths, CallCounters

CONSTANTS c1, c2

\* The counters in the order of reset_friendly_fire_counters and of
\* reset_target_probe_counters; the snapshots have the same.
FriendlyFireOrder ==
  <<"damage_callbacks", "skipped_recursive", "missing_identity", "missing_designer_name",
    "non_objective_victims", "objective_candidates", "invalid_team",
    "team_spoof_attempts", "team_spoof_applied", "team_spoof_restored">>

\* Of reset_counters of the runtime.
RuntimeOrder ==
  <<"damage_seen", "damage_counted", "entity_input_seen", "entity_input_counted",
    "entity_output_seen", "entity_output_counted", "entity_touch_seen", "entity_touch_counted">>

\* Seeded fault: one is missing.
VictimOrderShort ==
  <<"victim_calls", "victim_objective", "victim_midboss", "victim_invalid_team",
    "victim_unit_types", "victim_unit_type_overflow">>

VictimOrder ==
  <<"victim_calls", "victim_objective", "victim_neutral", "victim_midboss", "victim_invalid_team",
    "victim_unit_types", "victim_unit_type_overflow">>

TargetOrder ==
  <<"filter_calls", "filter_allowed", "filter_denied",
    "same_team_calls", "same_team_allowed", "same_team_denied",
    "objective_calls", "objective_allowed", "objective_denied", "filter_neutral", "filter_midboss",
    "filter_invalid_source_team", "filter_invalid_target_team",
    "source_spoof_attempts", "source_spoof_applied", "source_spoof_restored",
    "source_spoof_allowed", "source_spoof_denied",
    "target_spoof_attempts", "target_spoof_applied", "target_spoof_restored",
    "target_spoof_allowed", "target_spoof_denied",
    "bitset_attempts", "bitset_applied", "bitset_failures",
    "classifier_calls", "classifier_invalid", "classifier_spoof_attempts", "classifier_spoof_applied",
    "neutralize_attempts", "neutralize_applied", "neutralize_already", "neutralize_null",
    "neutralize_invalid_team", "neutralize_teams", "neutralize_teams_overflow",
    "filter_forced", "caller_forced", "secondary_forced",
    "secondary_calls", "secondary_allowed", "secondary_denied",
    "caller_calls", "caller_allowed", "caller_denied", "caller_0x1a_candidates",
    "filter_unit_types", "filter_unit_type_overflow">> \o VictimOrder \o
  <<"attacker_valid", "attacker_invalid", "inflictor_valid", "inflictor_invalid",
    "attacker_same_team", "attacker_opposing", "attacker_other_team", "attacker_self",
    "same_team_objective", "attacker_unit_types", "same_team_unit_types">>

Probe == [probe |-> TRUE, neutralize |-> FALSE, neutral_team |-> 4, source_spoof |-> FALSE,
          target_spoof |-> FALSE, bitset_allow |-> FALSE, classifier |-> FALSE, same_allow |-> FALSE,
          objective_allow |-> FALSE, secondary_allow |-> FALSE, friendly_fire |-> FALSE, local_team |-> 2, mounts |-> {}]
Environments ==
  {Probe,
   [Probe EXCEPT !.source_spoof = TRUE, !.friendly_fire = TRUE, !.mounts = {"damage", "entity_input"}],
   [Probe EXCEPT !.target_spoof = TRUE, !.classifier = TRUE, !.friendly_fire = TRUE, !.local_team = 0],
   [Probe EXCEPT !.bitset_allow = TRUE, !.same_allow = TRUE, !.objective_allow = TRUE,
                 !.secondary_allow = TRUE, !.mounts = Events],
   [Probe EXCEPT !.neutralize = TRUE, !.source_spoof = TRUE, !.target_spoof = TRUE]}

\* The same with DWRT_DISABLE_TARGET_PROBE: the hooks are installed as ever.
Disabled == {[cf EXCEPT !.probe = FALSE] : cf \in Environments}

Entities == {Null, OfTeam(2), OfTeam(3), OfTeam(4), OfTeam(9)}
Bits == {"valid", "invalid"}

FilterInputs ==
  {in \in [source : Entities, target : Entities \union {Unreadable}, one : BOOLEAN,
           name : {"objective", "neutral", "midboss", "other"}, unit : {26, 40}, bit : Bits, result : BOOLEAN] :
     /\ in.one => in.source = in.target
     /\ ~in.target.readable => in.name = "other"}
ClassifierInputs == [target : Entities, bit : Bits, spoofed : BOOLEAN]
SecondaryInputs == [source : Entities, target : {Unreadable, OfTeam(3)}, third : {Null}, result : BOOLEAN]
IoInputs == [self : Entities, activator : Entities, caller : {Null, OfTeam(4)}]
DamageInputs ==
  {in \in [recursive : BOOLEAN, victim : Entities, unit : {40, 70},
           name : {"no_identity", "unnamed", "objective", "neutral", "midboss"},
           attacker : Entities, self : BOOLEAN, inflictor : BOOLEAN] :
     /\ in.victim.null => in.name = "no_identity" /\ ~in.self
     /\ in.self => in.attacker = in.victim}

Paths(environments) ==
  UNION {{FilterPath(cf, in) : in \in FilterInputs} \union
         {CallerPath(cf, in) : in \in FilterInputs} \union
         {ClassifierPath(cf, in) : in \in ClassifierInputs} \union
         {SecondaryPath(cf, in) : in \in SecondaryInputs} \union
         {IoPath(cf, event, in) : event \in {"entity_input", "entity_output"}, in \in IoInputs} \union
         {Record(cf, event) : event \in Events} \union
         {DamagePath(cf, in) : in \in DamageInputs} : cf \in environments}
AllPaths == Paths(Environments)
DisabledPaths == Paths(Disabled)

\* The counters they advance, whatever the lists say.
Used(paths) == UNION {{p[i] : i \in DOMAIN p} : p \in paths}
UsedCounters == Used(AllPaths)
\* TLC evaluates the definition that a constant is given at every use: this one is a name.
AllCounters == UsedCounters
\* Of the paths, one for each counter.
CoveringPaths == {CHOOSE p \in AllPaths : \E i \in DOMAIN p : p[i] = k : k \in AllCounters}

\* A few, for calls that overlap: damage on a building, once from within another, and the filter.
Spoofing == [Probe EXCEPT !.probe = FALSE, !.friendly_fire = TRUE, !.mounts = {"damage"}]
Hit == [recursive |-> FALSE, victim |-> OfTeam(2), unit |-> 40, name |-> "objective",
        attacker |-> OfTeam(2), self |-> FALSE, inflictor |-> TRUE]
Asked == [source |-> OfTeam(2), target |-> OfTeam(2), one |-> FALSE, name |-> "objective",
          unit |-> 26, bit |-> "valid", result |-> FALSE]
FewPaths == {DamagePath(Spoofing, Hit), DamagePath(Spoofing, [Hit EXCEPT !.recursive = TRUE]),
             FilterPath(Spoofing, Asked)}

AllOrder == RuntimeOrder \o FriendlyFireOrder \o TargetOrder
FewOrder == SelectSeq(AllOrder, LAMBDA k : k \in Used(FewPaths))

-----------------------------------------------------------------------------
Scenario(paths, order, balances, at, calls, controls) ==
  [paths |-> paths, order |-> order, balances |-> balances, at |-> at, calls |-> calls, controls |-> controls]
AllCalls == {c1, c2}
AllScenarios ==
  [\* any call with the probe enabled
   one_call   |-> Scenario(AllPaths, AllOrder, BalancesOf(TRUE), {c1}, 1, 0),
   \* a reset or a snapshot around any counter
   controlled |-> Scenario(CoveringPaths, AllOrder, BalancesOf(TRUE), {c1}, 1, 1),
   \* any two calls with the probe disabled
   disabled   |-> Scenario(DisabledPaths, AllOrder, BalancesOf(FALSE), AllCalls, 2, 0),
   overlap    |-> Scenario(FewPaths, FewOrder, BalancesOf(FALSE), AllCalls, 2, 2)]
=============================================================================

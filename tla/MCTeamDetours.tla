---------------------------- MODULE MCTeamDetours ----------------------------
(***************************************************************************)
(* Instances of TeamDetours for TLC: the environments of the experiments.  *)
(***************************************************************************)
EXTENDS TeamDetours

MCTeams == {0, 2, 3, 4}

Off == [probe |-> TRUE, source_spoof |-> FALSE, target_spoof |-> FALSE,
        spoof_team |-> OpposingTeam, classifier |-> FALSE,
        neutralize |-> FALSE, neutral_team |-> 3,
        friendly_fire |-> FALSE, local_team |-> 2]

\* Every spoof at once; with the probe disabled; with neutralization to a
\* team that is spoofed in turn.
AllSpoofs == [Off EXCEPT !.source_spoof = TRUE, !.target_spoof = TRUE,
                         !.classifier = TRUE, !.friendly_fire = TRUE]
ProbeDisabled == [AllSpoofs EXCEPT !.probe = FALSE, !.local_team = AnyTeam]
Neutralizing == [AllSpoofs EXCEPT !.neutralize = TRUE, !.neutral_team = 2, !.spoof_team = 0]

NestedConfigs == {AllSpoofs, ProbeDisabled, Neutralizing}
OneConfig == {AllSpoofs}
=============================================================================

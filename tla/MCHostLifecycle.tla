--------------------------- MODULE MCHostLifecycle ---------------------------
(***************************************************************************)
(* Instances of HostLifecycle for TLC: the configurations of the smoke     *)
(* drivers and ones that require less.                                     *)
(***************************************************************************)
EXTENDS HostLifecycle

\* inject_smoke.cpp with -InstallProbeHooks.
Live == [runtime_path |-> TRUE, require_runtime |-> TRUE, require_signatures |-> TRUE,
         allow_mapped |-> FALSE, allow_drift |-> FALSE, install |-> TRUE]

\* bootstrap_smoke.cpp.
Bootstrap == [Live EXCEPT !.allow_mapped = TRUE, !.install = FALSE]

\* Nothing is required: every failure is passed over.
Lenient == [runtime_path |-> TRUE, require_runtime |-> FALSE, require_signatures |-> FALSE,
            allow_mapped |-> TRUE, allow_drift |-> FALSE, install |-> TRUE]
NoRuntime == [Lenient EXCEPT !.runtime_path = FALSE, !.allow_drift = TRUE]

FourConfigs == {Live, Bootstrap, Lenient, NoRuntime}
LiveOnly == {Live}
=============================================================================

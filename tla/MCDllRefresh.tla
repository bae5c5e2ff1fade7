----------------------------- MODULE MCDllRefresh -----------------------------
(* Three versions, two of which share a build, for TLC. *)
EXTENDS DllRefreshProps

CONSTANTS v1, v2, v3, d1, d2, d3, d4

MCVersions == {v1, v2, v3}
MCDlls == {d1, d2, d3, d4}
MCBuilds ==
  [v \in MCVersions |-> CASE v = v1 -> {d1, d2} [] v = v2 -> {d2, d3} [] v = v3 -> {d4}]
=============================================================================

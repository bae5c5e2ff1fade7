----------------------------- MODULE MCKindAudit -----------------------------
(***************************************************************************)
(* Three kinds that are gaps unless handled, and one that is a token.      *)
(***************************************************************************)
EXTENDS KindAuditProps, TLC

CONSTANTS k1, k2, k3, token

Gaps == {k1, k2, k3}
MCKinds == Gaps \cup {token}
MCDefaultSkipped == {token}
Symmetry == Permutations(Gaps)
=============================================================================

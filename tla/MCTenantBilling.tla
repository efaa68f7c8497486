-------------------------- MODULE MCTenantBilling --------------------------
(***************************************************************************)
(* Two payments, the first of them notified twice, a notice of the         *)
(* subscription and a change by the staff.                                 *)
(***************************************************************************)
EXTENDS TenantBilling, TLC

CONSTANTS p1, p2, n1, n2, n3, s1, a1

MCPayments == {p1, p2}
MCPayNotices == {n1, n2, n3}
MCPaymentOf == [n \in MCPayNotices |-> IF n = n3 THEN p2 ELSE p1]
MCSubNotices == {s1}
MCPatches == {a1}
MCPatchEnds == {2}
MCPatchStatuses == {}
MCPatchPolicies == {"BLOCK"}
MCSymmetry == Permutations({n1, n2})
=============================================================================

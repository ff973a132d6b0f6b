----------------------------- MODULE MCConsole -----------------------------
(***************************************************************************)
(* Instances of Console for TLC: two tenants with a key and an agent each. *)
(***************************************************************************)
EXTENDS Console, TLC

CONSTANTS k1, k2, t1, t2, a1, a2

MCTenantOf == k1 :> t1 @@ k2 :> t2

MCAgentsOf == t1 :> {a1} @@ t2 :> {a2}
=============================================================================

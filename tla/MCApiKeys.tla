------------------------------ MODULE MCApiKeys ------------------------------
(* The instance of ApiKeys that TLC checks: a route for the admin alone, one for
   keys alone and the routes for both that manage keys.  Callers, keys and
   applications are told apart by nothing but their identity. *)
EXTENDS ApiKeys, TLC

MCRoute == {RouteOf("create", "none", "admin"), RouteOf("add", "users:write", "key"),
            RouteOf("issue", "keys:manage", "both"), RouteOf("revoke", "keys:manage", "both")}

Symmetry == Permutations(Caller) \cup Permutations(App) \cup Permutations(Key)
=============================================================================

----------------------------- MODULE MCSessions -----------------------------
(* The instances of Sessions that TLC checks; users, sessions and handlers are
   model values.  No symmetry: it is unsound for the liveness they check. *)
EXTENDS Sessions
=============================================================================

--------------------------- MODULE MCAuthLockout ---------------------------
(* The instances of AuthLockout that TLC checks; callers are model values. *)
EXTENDS AuthLockout
=============================================================================

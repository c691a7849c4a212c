--------------------------- MODULE MCOtpDelivery ---------------------------
(* The instances of OtpDelivery that TLC checks; their constants are model
   values, and no symmetry is used because liveness is checked. *)
EXTENDS OtpDelivery
=============================================================================

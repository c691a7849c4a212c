---------------------------- MODULE MCOtpService ----------------------------
(* The instance of OtpService that TLC checks: one phone, and two configurations
   that enforce: one allows another country alone and caps the sends, the other
   blocks a device seen with two phones.  No property names a handler
   or a device. *)
EXTENDS OtpService, TLC

CONSTANT phone1

MCCountry == phone1 :> "US"

MCLimit == [rule \in {"otp-req-phone", "otp-req-app", "verify-phone"} |-> IF rule = "otp-req-phone" THEN 1 ELSE 2]

BarsUS == [defaultRiskConfig EXCEPT !.mode = "enforce", !.allowedCountries = {"IN"}, !.sendCapPerHour = 1]

BlocksSharing == [defaultRiskConfig EXCEPT !.mode = "enforce", !.deviceVelocity = [challenge |-> 2, block |-> 2]]

MCConfig == {BarsUS, BlocksSharing}

Symmetry == Permutations(Handler) \cup Permutations(Device)
=============================================================================

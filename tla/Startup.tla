------------------------------- MODULE Startup -------------------------------
(***************************************************************************)
(* How the server and the worker start: lib/env.ts checks the environment      *)
(* once and the process exits when a check fails, then providers/index.ts      *)
(* chooses a provider for every channel from the same settings.  A setting is  *)
(* in "settings" when it is not blank, a switch when it is true.  A restart is  *)
(* another behaviour of the module.                                          *)
(***************************************************************************)
CONSTANTS
  Secret,      \* values of the three secrets
  Placeholder  \* those that look like a placeholder

VARIABLES env, phase, providers

vars == <<env, phase, providers>>

SecretNames == {"OTP_HASH_SECRET", "JWT_SECRET", "ADMIN_TOKEN"}

Settings == {"MOCK_OUTBOX_REDIS", "ALLOW_MOCK_PROVIDERS", "WEBHOOK_ALLOW_PRIVATE_URLS",
             "TWILIO_ACCOUNT_SID", "TWILIO_AUTH_TOKEN",
             "SMTP_HOST", "SMTP_PORT", "SMTP_USER", "SMTP_PASS"}

Environments == [NODE_ENV : {"development", "test", "production"},
                 DEPLOY_ENV : {"staging", "production"},
                 secrets : [SecretNames -> Secret],
                 settings : SUBSET Settings]

OtpChannel == {"sms", "whatsapp", "voice", "email"}

Has(e, name) == name \in e.settings

Production(e) == e.NODE_ENV = "production"

-----------------------------------------------------------------------------
(* The checks of checkedSchema. *)
SecretsSound(e) ==
  \A name \in SecretNames :
    /\ e.secrets[name] \notin Placeholder
    /\ \A other \in SecretNames \ {name} : e.secrets[other] # e.secrets[name]

PairsComplete(e) ==
  /\ Has(e, "SMTP_USER") <=> Has(e, "SMTP_PASS")
  /\ Has(e, "TWILIO_ACCOUNT_SID") <=> Has(e, "TWILIO_AUTH_TOKEN")

\* Staging may run on mock phone channels
MocksAllowed(e) == Has(e, "ALLOW_MOCK_PROVIDERS") /\ e.DEPLOY_ENV = "staging"

ProductionSafe(e) ==
  Production(e) =>
    /\ ~Has(e, "WEBHOOK_ALLOW_PRIVATE_URLS")
    /\ ~Has(e, "MOCK_OUTBOX_REDIS")
    /\ Has(e, "ALLOW_MOCK_PROVIDERS") => e.DEPLOY_ENV = "staging"
    /\ Has(e, "SMTP_HOST")
    /\ MocksAllowed(e) \/ Has(e, "TWILIO_ACCOUNT_SID")

Accepted(e) == SecretsSound(e) /\ PairsComplete(e) /\ ProductionSafe(e)

buildProviders(e) ==
  [ch \in OtpChannel |->
     IF ch = "email"
     THEN IF Has(e, "SMTP_HOST") /\ Has(e, "SMTP_PORT") THEN "smtp" ELSE "mock"
     ELSE IF Has(e, "TWILIO_ACCOUNT_SID") /\ Has(e, "TWILIO_AUTH_TOKEN") THEN "twilio" ELSE "mock"]

-----------------------------------------------------------------------------
Init ==
  /\ env \in Environments
  /\ phase = "starting"
  /\ providers = [ch \in OtpChannel |-> "none"]

Start ==
  /\ phase = "starting" /\ Accepted(env)
  /\ phase' = "running"
  /\ providers' = buildProviders(env)
  /\ UNCHANGED env

\* process.exit(1)
Exit ==
  /\ phase = "starting" /\ ~Accepted(env)
  /\ phase' = "exited"
  /\ UNCHANGED <<env, providers>>

Next == Start \/ Exit

Spec == Init /\ [][Next]_vars

-----------------------------------------------------------------------------
Live == phase = "running" /\ Production(env) /\ env.DEPLOY_ENV = "production"

(* "The mock provider must never be the real delivery path in production"
   (env.ts:118).  Violated: the checks ask for SMTP_HOST, buildProviders for
   SMTP_PORT too. *)
NeverMockInProduction == Live => \A ch \in OtpChannel : providers[ch] # "mock"

(* What the checks do ensure: in production the phone channels are Twilio's, or
   it is staging; the mock never writes codes to Redis; email is real once the
   port is set. *)
RealButForThePort ==
  phase = "running" /\ Production(env) =>
    /\ ~Has(env, "MOCK_OUTBOX_REDIS") /\ ~Has(env, "WEBHOOK_ALLOW_PRIVATE_URLS")
    /\ env.DEPLOY_ENV = "production" => \A ch \in OtpChannel \ {"email"} : providers[ch] = "twilio"
    /\ Has(env, "SMTP_PORT") => providers["email"] = "smtp"

SInv == phase = "running" => Accepted(env) /\ providers = buildProviders(env)
=============================================================================

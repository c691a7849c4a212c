------------------------------ MODULE OtpLogin ------------------------------
(***************************************************************************)
(* What the one-time-code login promises its users, without rows, locks or *)
(* handlers: a user has at most one code that can log them in, a code can  *)
(* be guessed a bounded number of times, only a code that is live when it  *)
(* is accepted wins, and a winning code opens at most one session.         *)
(*                                                                         *)
(* OtpCodes implements this specification.                                 *)
(***************************************************************************)
EXTENDS Naturals

CONSTANTS User, Code, MaxAttempts

VARIABLES
  live,      \* live[u]: the codes that can log user u in
  issued,    \* the codes that were ever issued
  tries,     \* tries[c]: how many guesses were compared with code c
  winning,   \* the codes that won a login whose session is not open yet
  opened     \* opened[c]: how many sessions code c has opened

vars == <<live, issued, tries, winning, opened>>

Init ==
  /\ live = [u \in User |-> {}]
  /\ issued = {}
  /\ tries = [c \in Code |-> 0]
  /\ winning = {}
  /\ opened = [c \in Code |-> 0]

\* A fresh code replaces whatever the user could log in with.
Issue(u, c) ==
  /\ c \notin issued
  /\ issued' = issued \cup {c}
  /\ live' = [live EXCEPT ![u] = {c}]
  /\ UNCHANGED <<tries, winning, opened>>

\* A guess at the user's live code, right or wrong, uses up a try.
Guess(u, c) ==
  /\ c \in live[u]
  /\ tries[c] < MaxAttempts
  /\ tries' = [tries EXCEPT ![c] = @ + 1]
  /\ UNCHANGED <<live, issued, winning, opened>>

\* A code that is still live and was guessed wins the login and is used up.
Accept(u, c) ==
  /\ c \in live[u]
  /\ tries[c] > 0
  /\ live' = [live EXCEPT ![u] = {}]
  /\ winning' = winning \cup {c}
  /\ UNCHANGED <<issued, tries, opened>>

OpenSession(c) ==
  /\ c \in winning
  /\ winning' = winning \ {c}
  /\ opened' = [opened EXCEPT ![c] = @ + 1]
  /\ UNCHANGED <<live, issued, tries>>

\* The server fails after the code was used up: the login is lost, not repeated.
LoseLogin(c) ==
  /\ c \in winning
  /\ winning' = winning \ {c}
  /\ UNCHANGED <<live, issued, tries, opened>>

\* Old codes are forgotten, whoever they belong to.
Forget(old) ==
  /\ live' = [u \in User |-> live[u] \ old]
  /\ UNCHANGED <<issued, tries, winning, opened>>

Next ==
  \/ \E u \in User, c \in Code : Issue(u, c) \/ Guess(u, c) \/ Accept(u, c)
  \/ \E c \in Code : OpenSession(c) \/ LoseLogin(c)
  \/ \E old \in SUBSET Code : Forget(old)

Spec == Init /\ [][Next]_vars
=============================================================================

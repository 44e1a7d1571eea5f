------------------------------ MODULE Identity ------------------------------
(***************************************************************************)
(* One member of staff (IdentityService with its repository and the Redis  *)
(* state of its challenges): signing in with a password and then a code of *)
(* the authenticator, raising the trust of a session with another code,    *)
(* sessions and their end, and password resets by mailed tokens.  Requests *)
(* read, compare and write in separate transactions, so they interleave.   *)
(*                                                                         *)
(* A code is named by the time step it is valid for.  Passwords are        *)
(* counted: a request knows the one it was checked against.                *)
(***************************************************************************)
EXTENDS Naturals, FiniteSets

CONSTANTS
  Logins,       \* requests that sign in, each opens a challenge
  Completions,  \* requests that complete a challenge, each may open a session
  StepUps,      \* requests that raise the trust of a session
  Tokens,       \* tokens of password resets, in the order they are created
  MaxStep,      \* bound of the model: time steps of the authenticator
  MaxAttempts,  \* wrong codes that end a challenge: 5 in the code
  Drift         \* steps around the present one that are accepted

VARIABLES
  step,         \* the present time step
  password,     \* how often the password was changed
  lastAccepted, \* last_accepted_step of the credential, 0 before any
  challenges,   \* challenges in Redis, by login
  requests,     \* requests under way: where they are and what they read
  overtaken,    \* sign-ins a password reset found without a session
  sessions,     \* rows of session, by completion
  elevated,     \* sessions with a step-up in Redis
  tokens,       \* verification_token rows of password resets
  uses          \* who was accepted for each step

vars == <<step, password, lastAccepted, challenges, requests, overtaken, sessions, elevated, tokens, uses>>

Idle       == [at |-> "idle", password |-> 0, step |-> 0, subject |-> "none"]
NoSession  == [state |-> "absent", login |-> "none"]
Requests   == Logins \cup Completions \cup StepUps

Init ==
  /\ step = 1 /\ password = 0 /\ lastAccepted = 0
  /\ challenges = [c \in Logins |-> [state |-> "absent", attempts |-> 0]]
  /\ requests = [r \in Requests |-> Idle]
  /\ overtaken = {}
  /\ sessions = [s \in Completions |-> NoSession]
  /\ elevated = {}
  /\ tokens = [t \in Tokens |-> "absent"]
  /\ uses = [n \in 0..MaxStep + Drift |-> {}]

Goes(r, at) == requests' = [requests EXCEPT ![r].at = at]
Ends(r)     == requests' = [requests EXCEPT ![r] = [Idle EXCEPT !.at = "done"]]
At(r, at)   == requests[r].at = at

Tick ==
  /\ step < MaxStep
  /\ step' = step + 1
  /\ UNCHANGED <<password, lastAccepted, challenges, requests, overtaken, sessions, elevated,
                 tokens, uses>>

(* totp.verify: a step around the present one, later than the last the     *)
(* request read.                                                           *)
Valid(n) == n + Drift >= step /\ n <= step + Drift /\ n > lastAccepted

-----------------------------------------------------------------------------
credentials == <<password, lastAccepted, tokens, uses>>
trust       == <<overtaken, sessions, elevated>>

(* login: the password was right when it was compared.                     *)
Login(r) ==
  /\ At(r, "idle")
  /\ requests' = [requests EXCEPT ![r].at = "compared", ![r].password = password]
  /\ UNCHANGED <<step, challenges, credentials, trust>>

CreateChallenge(r) ==
  /\ At(r, "compared") /\ Goes(r, "challenged")
  /\ challenges' = [challenges EXCEPT ![r].state = "open"]
  /\ UNCHANGED <<step, credentials, trust>>

ChallengeExpires(c) ==
  /\ challenges[c].state = "open"
  /\ challenges' = [challenges EXCEPT ![c].state = "gone"]
  /\ UNCHANGED <<step, requests, credentials, trust>>

Verified(n, subject) == [at |-> "verified", password |-> 0, step |-> n, subject |-> subject]

(* completeStaffTotp, as far as the code's verification.                   *)
VerifyCode(r, c, n) ==
  /\ At(r, "idle") /\ challenges[c].state = "open" /\ Valid(n)
  /\ requests' = [requests EXCEPT ![r] = Verified(n, c)]
  /\ UNCHANGED <<step, challenges, credentials, trust>>

WrongCode(c) ==
  LET tried == challenges[c].attempts + 1 IN
  /\ challenges[c].state = "open"
  /\ challenges' = [challenges EXCEPT ![c] =
       [attempts |-> tried, state |-> IF tried >= MaxAttempts THEN "gone" ELSE "open"]]
  /\ UNCHANGED <<step, requests, credentials, trust>>

(* consumeChallenge: a script takes it once.                               *)
ConsumeChallenge(r) ==
  /\ r \in Completions /\ At(r, "verified")
  /\ IF challenges[requests[r].subject].state = "open"
     THEN /\ Goes(r, "consumed")
          /\ challenges' = [challenges EXCEPT ![requests[r].subject].state = "gone"]
     ELSE Ends(r) /\ UNCHANGED challenges
  /\ UNCHANGED <<step, credentials, trust>>

(* acceptTotpStep: one conditional update.                                 *)
LaterOrSame(n) == n >= lastAccepted
Later(n) == n > lastAccepted

AcceptStep(r) ==
  /\ IF Later(requests[r].step)
     THEN /\ lastAccepted' = requests[r].step
          /\ uses' = [uses EXCEPT ![requests[r].step] = @ \cup {r}]
          /\ Goes(r, "accepted")
     ELSE Ends(r) /\ UNCHANGED <<lastAccepted, uses>>
  /\ UNCHANGED <<step, password, challenges, tokens, trust>>

AcceptLogin(r)  == r \in Completions /\ At(r, "consumed") /\ AcceptStep(r)
AcceptStepUp(r) == r \in StepUps /\ At(r, "verified") /\ AcceptStep(r)

CreateSession(r) ==
  /\ r \in Completions /\ At(r, "accepted") /\ Ends(r)
  /\ sessions' = [sessions EXCEPT ![r] = [state |-> "live", login |-> requests[r].subject]]
  /\ UNCHANGED <<step, challenges, credentials, overtaken, elevated>>

-----------------------------------------------------------------------------
(* requestStepUp by a session that was authenticated when it began.        *)
VerifyStepUp(r, s, n) ==
  /\ At(r, "idle") /\ sessions[s].state = "live" /\ Valid(n)
  /\ requests' = [requests EXCEPT ![r] = Verified(n, s)]
  /\ UNCHANGED <<step, challenges, credentials, trust>>

MarkStepUp(r) ==
  /\ r \in StepUps /\ At(r, "accepted") /\ Ends(r)
  /\ elevated' = elevated \cup {requests[r].subject}
  /\ UNCHANGED <<step, challenges, credentials, overtaken, sessions>>

StepUpExpires(s) ==
  /\ s \in elevated
  /\ elevated' = elevated \ {s}
  /\ UNCHANGED <<step, challenges, requests, credentials, overtaken, sessions>>

-----------------------------------------------------------------------------
(* revokeSession and logout; the sessions' own expiry.                     *)
SessionEnds(s) ==
  /\ sessions[s].state = "live"
  /\ sessions' = [sessions EXCEPT ![s].state = "ended"]
  /\ UNCHANGED <<step, challenges, requests, credentials, overtaken, elevated>>

NoneEnded == sessions
Ended == [s \in Completions |->
  IF sessions[s].state = "live" THEN [sessions[s] EXCEPT !.state = "ended"] ELSE sessions[s]]

LogoutAll ==
  /\ \E s \in Completions : sessions[s].state = "live"
  /\ sessions' = Ended
  /\ UNCHANGED <<step, challenges, requests, credentials, overtaken, elevated>>

(* requestPasswordReset: earlier tokens are used up; of two requests at    *)
(* once neither sees the other's.                                          *)
UsedUp(seen) == [t \in Tokens |-> IF tokens[t] = "open" /\ t \in seen THEN "used" ELSE tokens[t]]

RequestReset(t, seen) ==
  /\ tokens[t] = "absent"
  /\ tokens' = [UsedUp(seen) EXCEPT ![t] = "open"]
  /\ UNCHANGED <<step, challenges, requests, password, lastAccepted, uses, trust>>

TokenExpires(t) ==
  /\ tokens[t] = "open"
  /\ tokens' = UsedUp({t})
  /\ UNCHANGED <<step, challenges, requests, password, lastAccepted, uses, trust>>

(* confirmPasswordReset is one transaction; the conditional update of the  *)
(* token lets one of two confirmations pass.  A sign-in whose password was *)
(* compared before has no row to revoke yet.                               *)
CompleteReset(t) ==
  /\ tokens[t] = "open"
  /\ password' = password + 1
  /\ tokens' = UsedUp(Tokens)
  /\ sessions' = Ended
  /\ overtaken' = overtaken \cup
       {r \in Logins : ~At(r, "idle") /\ \A s \in Completions : sessions[s].login # r}
  /\ UNCHANGED <<step, challenges, requests, lastAccepted, uses, elevated>>

Codes == 1..MaxStep + Drift

Next ==
  \/ Tick \/ LogoutAll
  \/ \E c \in Logins : Login(c) \/ CreateChallenge(c) \/ ChallengeExpires(c) \/ WrongCode(c)
  \/ \E r \in Completions, c \in Logins, n \in Codes : VerifyCode(r, c, n)
  \/ \E r \in Completions : ConsumeChallenge(r) \/ AcceptLogin(r) \/ CreateSession(r)
  \/ \E r \in StepUps, s \in Completions, n \in Codes : VerifyStepUp(r, s, n)
  \/ \E r \in StepUps : AcceptStepUp(r) \/ MarkStepUp(r)
  \/ \E s \in Completions : SessionEnds(s) \/ StepUpExpires(s)
  \/ \E t \in Tokens, seen \in SUBSET Tokens : RequestReset(t, seen)
  \/ \E t \in Tokens : TokenExpires(t) \/ CompleteReset(t)

Spec == Init /\ [][Next]_vars

-----------------------------------------------------------------------------
TypeOK ==
  /\ step \in 1..MaxStep /\ password \in 0..Cardinality(Tokens)
  /\ lastAccepted \in 0..MaxStep + Drift
  /\ challenges \in [Logins -> [state : {"absent", "open", "gone"}, attempts : 0..MaxAttempts]]
  /\ requests \in [Requests -> [at : {"idle", "compared", "challenged", "verified", "consumed",
                                      "accepted", "done"}, password : Nat, step : Nat,
                                subject : Logins \cup Completions \cup {"none"}]]
  /\ overtaken \subseteq Logins
  /\ sessions \in [Completions -> [state : {"absent", "live", "ended"},
                                   login : Logins \cup {"none"}]]
  /\ elevated \subseteq Completions
  /\ tokens \in [Tokens -> {"absent", "open", "used"}]
  /\ uses \in [0..MaxStep + Drift -> SUBSET Requests]

Opened == {s \in Completions : sessions[s].state # "absent"}

\* A code is worth one sign-in or one step-up, whatever requests read the
\* credential before another of them wrote it; every session has a code of its
\* own, and no two sessions come of one challenge.
EachCodeOnce ==
  /\ \A n \in DOMAIN uses : Cardinality(uses[n]) <= 1
  /\ \A s \in Opened : \E n \in DOMAIN uses : s \in uses[n]
  /\ \A s, t \in Opened : sessions[s].login = sessions[t].login => s = t

\* After a password reset no session lives on that was opened with an earlier
\* password, except one whose sign-in had compared the password already and
\* created its row only afterwards.
ResetEndsSessions ==
  \A s \in Completions :
    sessions[s].state = "live" =>
      sessions[s].login \in overtaken \/ requests[sessions[s].login].password = password
=============================================================================

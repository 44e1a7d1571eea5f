-------------------------- MODULE FrontOfficeProofs --------------------------
(***************************************************************************)
(* For every number of requests, runs, entities, categories, edits,        *)
(* confirmations and lines:                                                *)
(*   - a code is accepted once, and a password reset ends the sessions     *)
(*     begun before it, except those whose sign-in it overtook;            *)
(*   - a newsletter link works only for the request it was minted for;     *)
(*   - an address that was public leads to its entity or redirects to it;  *)
(*   - the path of a category spells its place in the tree, unless edits   *)
(*     were interleaved;                                                   *)
(*   - a coupon is used within its limits, and discount and tax of the     *)
(*     lines add up to those of the order.                                 *)
(***************************************************************************)
EXTENDS Identity, Newsletter, CatalogLinks, CategoryTree, Pricing, SequenceTheorems, SumTheorems

(* Requests of different kinds are different, and steps are numbers.       *)
Separate ==
  /\ Logins \cap Completions = {} /\ Logins \cap StepUps = {} /\ Completions \cap StepUps = {}
  /\ "none" \notin Logins
  /\ MaxStep \in Nat /\ Drift \in Nat

Steps == 0..MaxStep + Drift
Sent  == [at : {"idle", "compared", "challenged", "verified", "consumed", "accepted", "done"},
          password : Nat, step : Nat, subject : Logins \cup Completions \cup {"none"}]
Types ==
  /\ lastAccepted \in Nat /\ password \in Nat
  /\ challenges \in [Logins -> [state : {"absent", "open", "gone"}, attempts : Nat]]
  /\ requests \in [Requests -> Sent]
  /\ sessions \in [Completions -> [state : {"absent", "live", "ended"},
                                   login : Logins \cup {"none"}]]
  /\ uses \in [Steps -> SUBSET Requests]

(* Where the requests of each kind can be, and with what.                  *)
Phases ==
  /\ \A r \in Logins : requests[r].at \in {"idle", "compared", "challenged"}
  /\ \A r \in Completions :
       /\ requests[r].at \in {"idle", "verified", "consumed", "accepted", "done"}
       /\ requests[r].at \in {"verified", "consumed", "accepted"} =>
            requests[r].subject \in Logins /\ requests[r].step \in Steps
  /\ \A r \in StepUps :
       /\ requests[r].at \in {"idle", "verified", "accepted", "done"}
       /\ requests[r].at = "verified" => requests[r].step \in Steps

\* Steps are accepted in their order.
CodesInOrder ==
  /\ \A n \in Steps : n > lastAccepted => uses[n] = {}
  /\ \A n \in Steps : \A r, q \in uses[n] : r = q

HasSession(s) == sessions[s].state # "absent"

SessionsHaveCodes ==
  \A r \in Completions :
    requests[r].at = "accepted" \/ HasSession(r) => \E n \in Steps : r \in uses[n]

SessionsAreDone ==
  \A s \in Completions :
    IF HasSession(s) THEN requests[s].at = "done" /\ sessions[s].login \in Logins
    ELSE sessions[s].login = "none"

\* A challenge is consumed once, for one session.
Holds(r, c) ==
  \/ requests[r].at \in {"consumed", "accepted"} /\ requests[r].subject = c
  \/ sessions[r].login = c
ChallengesAreConsumed ==
  \A r \in Completions, c \in Logins : Holds(r, c) => challenges[c].state = "gone"
OneHolder == \A r, q \in Completions, c \in Logins : Holds(r, c) /\ Holds(q, c) => r = q

\* A challenge exists after the password was compared, and is not created again.
ChallengesFollowLogins ==
  \A c \in Logins : requests[c].at \in {"idle", "compared"} => challenges[c].state = "absent"

\* A sign-in without a session has compared the password of today, or was overtaken.
Without(c) == \A s \in Completions : sessions[s].login # c
PasswordsAreKnown ==
  \A c \in Logins :
    requests[c].at # "idle" /\ Without(c) => c \in overtaken \/ requests[c].password = password

IInv ==
  /\ Types /\ Phases /\ CodesInOrder /\ SessionsHaveCodes /\ SessionsAreDone
  /\ ChallengesAreConsumed /\ OneHolder /\ ChallengesFollowLogins
  /\ PasswordsAreKnown /\ ResetEndsSessions

LEMMA InitIInv ==
  ASSUME Separate, Init
  PROVE  IInv
<1> USE DEF Init, Separate, Requests, Idle, NoSession
<1>1. Types
  BY DEF Types, Sent, Steps
<1>2. Phases /\ ChallengesFollowLogins /\ PasswordsAreKnown
  BY DEF Phases, ChallengesFollowLogins, PasswordsAreKnown
<1>3. CodesInOrder
  BY DEF CodesInOrder, Steps
<1>4. SessionsHaveCodes /\ SessionsAreDone /\ ResetEndsSessions
  BY DEF SessionsHaveCodes, SessionsAreDone, HasSession, ResetEndsSessions
<1>5. ChallengesAreConsumed /\ OneHolder
  BY DEF ChallengesAreConsumed, OneHolder, Holds
<1> QED BY <1>1, <1>2, <1>3, <1>4, <1>5 DEF IInv

-----------------------------------------------------------------------------
(* Challenges that end, and what the invariant does not speak of.          *)
LEMMA ChallengesKeepIInv ==
  ASSUME Separate, IInv, UNCHANGED <<lastAccepted, password, requests, overtaken, sessions, uses>>,
         challenges' \in [Logins -> [state : {"absent", "open", "gone"}, attempts : Nat]],
         \A c \in Logins : challenges[c].state # "open" => challenges'[c].state = challenges[c].state
  PROVE  IInv'
<1> USE DEF IInv
<1>1. Types' /\ Phases' /\ CodesInOrder'
  BY DEF Types, Phases, CodesInOrder
<1>2. SessionsHaveCodes' /\ SessionsAreDone' /\ ResetEndsSessions' /\ PasswordsAreKnown'
  BY DEF SessionsHaveCodes, SessionsAreDone, HasSession, ResetEndsSessions, PasswordsAreKnown, Without
<1>3. ChallengesAreConsumed' /\ OneHolder' /\ ChallengesFollowLogins'
  BY DEF ChallengesAreConsumed, OneHolder, Holds, ChallengesFollowLogins
<1> QED BY <1>1, <1>2, <1>3

(* The password is compared, then the challenge is created.                *)
LEMMA LoginKeepsIInv ==
  ASSUME Separate, IInv, NEW c \in Logins, Login(c) \/ CreateChallenge(c)
  PROVE  IInv'
<1> USE DEF IInv
<1>1. UNCHANGED <<lastAccepted, password, overtaken, sessions, uses>>
  BY DEF Login, CreateChallenge, credentials, trust
<1>2. /\ requests' \in [Requests -> Sent]
      /\ \A r \in Requests \ {c} : requests'[r] = requests[r]
      /\ \/ requests'[c].at = "compared" /\ requests'[c].password = password
         \/ /\ requests[c].at = "compared" /\ requests'[c].at = "challenged"
            /\ requests'[c].password = requests[c].password
  <2>1. requests[c] \in Sent /\ c \in Requests
    BY DEF Types, Requests
  <2>2. CASE Login(c)
    <3> DEFINE m == [requests[c] EXCEPT !.at = "compared", !.password = password]
    <3>1. requests' = [requests EXCEPT ![c] = m]
      BY <2>2 DEF Login
    <3>2. m \in Sent /\ m.at = "compared" /\ m.password = password
      BY <2>1 DEF Sent, Types
    <3> QED BY <2>1, <3>1, <3>2 DEF Types
  <2>3. CASE CreateChallenge(c)
    <3> DEFINE m == [requests[c] EXCEPT !.at = "challenged"]
    <3>1. requests' = [requests EXCEPT ![c] = m] /\ requests[c].at = "compared"
      BY <2>3 DEF CreateChallenge, Goes, At
    <3>2. m \in Sent /\ m.at = "challenged" /\ m.password = requests[c].password
      BY <2>1 DEF Sent
    <3> QED BY <2>1, <3>1, <3>2 DEF Types
  <2> QED BY <2>2, <2>3
<1>3. /\ challenges' \in [Logins -> [state : {"absent", "open", "gone"}, attempts : Nat]]
      /\ \A d \in Logins \ {c} : challenges'[d].state = challenges[d].state
      /\ requests'[c].at = "compared" => challenges'[c].state = challenges[c].state
  BY DEF Login, CreateChallenge, Goes, At, Types, Requests, Sent
<1>4. requests[c].at \in {"idle", "compared"} /\ challenges[c].state = "absent"
  BY DEF Login, CreateChallenge, At, ChallengesFollowLogins
<1>5. \A r \in Completions \cup StepUps : requests'[r] = requests[r]
  BY <1>2 DEF Separate, Requests
<1>6. \A r \in Logins \ {c} : requests'[r] = requests[r]
  BY <1>2 DEF Requests
<1>7. Types' /\ CodesInOrder'
  BY <1>1, <1>2, <1>3 DEF Types, CodesInOrder
<1>8. Phases'
  BY <1>2, <1>5, <1>6 DEF Phases
<1>9. SessionsHaveCodes' /\ SessionsAreDone'
  BY <1>1, <1>5 DEF SessionsHaveCodes, SessionsAreDone, HasSession
<1>10. \A r \in Completions, d \in Logins : Holds(r, d)' <=> Holds(r, d)
  BY <1>1, <1>5 DEF Holds
<1>11. ChallengesAreConsumed'
  BY <1>3, <1>4, <1>10 DEF ChallengesAreConsumed
<1>12. OneHolder'
  BY <1>10 DEF OneHolder
<1>13. ChallengesFollowLogins'
  BY <1>2, <1>3, <1>4, <1>6 DEF ChallengesFollowLogins
<1>14. \A d \in Logins : Without(d)' <=> Without(d)
  BY <1>1 DEF Without
<1>15. PasswordsAreKnown'
  BY <1>1, <1>2, <1>6, <1>14 DEF PasswordsAreKnown
<1>16. ResetEndsSessions'
  <2>1. ~\E s \in Completions : sessions[s].login = c
    BY <1>4 DEF ChallengesAreConsumed, Holds
  <2> QED BY <1>1, <1>6, <2>1 DEF ResetEndsSessions, SessionsAreDone, HasSession
<1> QED BY <1>7, <1>8, <1>9, <1>11, <1>12, <1>13, <1>15, <1>16

(* A request verifies a code, or ends.                                     *)
LEMMA RequestKeepsIInv ==
  ASSUME Separate, IInv, NEW r \in Completions \cup StepUps, NEW m \in Sent,
         m.at \in {"verified", "done"}, requests' = [requests EXCEPT ![r] = m],
         m.at = "verified" => /\ requests[r].at = "idle" /\ m.step \in Steps
                              /\ r \in Completions => m.subject \in Logins,
         UNCHANGED <<lastAccepted, password, challenges, overtaken, sessions, uses>>
  PROVE  IInv'
<1> USE DEF IInv
<1>1. /\ requests'[r] = m
      /\ \A q \in Requests \ {r} : requests'[q] = requests[q]
      /\ requests' \in [Requests -> Sent]
  BY DEF Types, Requests
<1>2. \A c \in Logins : requests'[c] = requests[c]
  BY <1>1 DEF Separate, Requests
<1>3. \A q \in (Completions \cup StepUps) \ {r} : requests'[q] = requests[q]
  BY <1>1 DEF Requests
<1>4. Types' /\ CodesInOrder'
  BY <1>1 DEF Types, CodesInOrder
<1>5. Phases'
  BY <1>1, <1>2, <1>3 DEF Phases, Separate
<1>6. SessionsHaveCodes'
  BY <1>1, <1>3 DEF SessionsHaveCodes, HasSession
<1>7. SessionsAreDone'
  BY <1>1, <1>3 DEF SessionsAreDone, HasSession
<1>8. \A q \in Completions, c \in Logins : Holds(q, c)' => Holds(q, c)
  BY <1>1, <1>3 DEF Holds
<1>9. ChallengesAreConsumed' /\ OneHolder'
  BY <1>8 DEF ChallengesAreConsumed, OneHolder
<1>10. ChallengesFollowLogins' /\ PasswordsAreKnown'
  BY <1>2 DEF ChallengesFollowLogins, PasswordsAreKnown, Without
<1>11. ResetEndsSessions'
  BY <1>2 DEF ResetEndsSessions, SessionsAreDone, HasSession
<1> QED BY <1>4, <1>5, <1>6, <1>7, <1>9, <1>10, <1>11

(* The challenge is taken by one completion.                               *)
LEMMA ConsumeKeepsIInv ==
  ASSUME Separate, IInv, NEW r \in Completions, ConsumeChallenge(r),
         challenges[requests[r].subject].state = "open"
  PROVE  IInv'
<1> USE DEF IInv
<1> DEFINE c == requests[r].subject
<1>1. /\ requests' = [requests EXCEPT ![r].at = "consumed"] /\ requests[r].at = "verified"
      /\ challenges' = [challenges EXCEPT ![c].state = "gone"]
      /\ UNCHANGED <<lastAccepted, password, overtaken, sessions, uses>>
  BY DEF ConsumeChallenge, Goes, At, credentials, trust
<1>2. c \in Logins
  BY <1>1 DEF Phases
<1>3. /\ requests' \in [Requests -> Sent]
      /\ requests'[r].at = "consumed" /\ requests'[r].subject = c /\ requests'[r].step = requests[r].step
      /\ \A q \in Requests \ {r} : requests'[q] = requests[q]
  BY <1>1 DEF Types, Sent, Requests
<1>4. /\ challenges' \in [Logins -> [state : {"absent", "open", "gone"}, attempts : Nat]]
      /\ challenges'[c].state = "gone"
      /\ \A d \in Logins \ {c} : challenges'[d] = challenges[d]
  BY <1>1, <1>2 DEF Types
<1>5. \A d \in Logins : requests'[d] = requests[d]
  BY <1>3 DEF Separate, Requests
<1>6. \A q \in (Completions \cup StepUps) \ {r} : requests'[q] = requests[q]
  BY <1>3 DEF Requests
<1>7. Types' /\ CodesInOrder'
  BY <1>1, <1>3, <1>4 DEF Types, CodesInOrder
<1>8. Phases'
  BY <1>1, <1>2, <1>3, <1>5, <1>6 DEF Phases, Separate
<1>9. SessionsHaveCodes' /\ SessionsAreDone'
  BY <1>1, <1>3, <1>6 DEF SessionsHaveCodes, SessionsAreDone, HasSession
<1>10. \A q \in Completions, d \in Logins : Holds(q, d)' <=> Holds(q, d) \/ (q = r /\ d = c)
  BY <1>1, <1>2, <1>3, <1>6 DEF Holds, SessionsAreDone, HasSession, Separate
<1>11. \A q \in Completions : ~Holds(q, c)
  BY <1>2 DEF ChallengesAreConsumed
<1>12. ChallengesAreConsumed'
  BY <1>4, <1>10 DEF ChallengesAreConsumed
<1>13. OneHolder'
  BY <1>10, <1>11 DEF OneHolder
<1>14. ChallengesFollowLogins'
  BY <1>2, <1>4, <1>5 DEF ChallengesFollowLogins
<1>15. PasswordsAreKnown'
  BY <1>1, <1>5 DEF PasswordsAreKnown, Without
<1>16. ResetEndsSessions'
  BY <1>1, <1>5 DEF ResetEndsSessions, SessionsAreDone, HasSession
<1> QED BY <1>7, <1>8, <1>9, <1>12, <1>13, <1>14, <1>15, <1>16

(* The conditional update of the credential.                               *)
LEMMA AcceptKeepsIInv ==
  ASSUME Separate, IInv, NEW r \in Completions \cup StepUps, AcceptStep(r), Later(requests[r].step),
         requests[r].step \in Steps, requests[r].at \in {"verified", "consumed"},
         r \in Completions => requests[r].at = "consumed"
  PROVE  IInv'
<1> USE DEF IInv
<1> DEFINE n == requests[r].step
<1>1. /\ lastAccepted' = n /\ n > lastAccepted
      /\ uses' = [uses EXCEPT ![n] = @ \cup {r}]
      /\ requests' = [requests EXCEPT ![r].at = "accepted"]
      /\ UNCHANGED <<password, challenges, overtaken, sessions>>
  BY DEF AcceptStep, Later, Goes, trust
<1>2. uses[n] = {} /\ n \in Nat
  BY <1>1 DEF CodesInOrder, Steps, Separate
<1>3. /\ uses' \in [Steps -> SUBSET Requests] /\ uses'[n] = {r}
      /\ \A k \in Steps \ {n} : uses'[k] = uses[k]
  BY <1>1, <1>2 DEF Types, Requests
<1>4. /\ requests' \in [Requests -> Sent]
      /\ requests'[r].at = "accepted" /\ requests'[r].subject = requests[r].subject
      /\ requests'[r].step = n
      /\ \A q \in Requests \ {r} : requests'[q] = requests[q]
  BY <1>1 DEF Types, Sent, Requests
<1>5. \A c \in Logins : requests'[c] = requests[c]
  BY <1>4 DEF Separate, Requests
<1>6. \A q \in (Completions \cup StepUps) \ {r} : requests'[q] = requests[q]
  BY <1>4 DEF Requests
<1>7. Types'
  BY <1>1, <1>2, <1>3, <1>4 DEF Types
<1>8. Phases'
  BY <1>4, <1>5, <1>6 DEF Phases, Separate
<1>9. CodesInOrder'
  <2>1. \A k \in Steps : k > lastAccepted' => uses'[k] = {}
    BY <1>1, <1>2, <1>3 DEF CodesInOrder, Steps, Separate, Types
  <2>2. \A k \in Steps : \A p, q \in uses'[k] : p = q
    BY <1>3 DEF CodesInOrder
  <2> QED BY <2>1, <2>2 DEF CodesInOrder
<1>10. \A k \in Steps : uses[k] \subseteq uses'[k]
  BY <1>2, <1>3
<1>11. SessionsHaveCodes'
  BY <1>1, <1>3, <1>4, <1>6, <1>10 DEF SessionsHaveCodes, HasSession
<1>12. SessionsAreDone'
  BY <1>1, <1>4, <1>6 DEF SessionsAreDone, HasSession
<1>13. \A q \in Completions, c \in Logins : Holds(q, c)' => Holds(q, c)
  BY <1>1, <1>4, <1>6 DEF Holds
<1>14. ChallengesAreConsumed' /\ OneHolder'
  BY <1>1, <1>13 DEF ChallengesAreConsumed, OneHolder
<1>15. ChallengesFollowLogins' /\ PasswordsAreKnown'
  BY <1>1, <1>5 DEF ChallengesFollowLogins, PasswordsAreKnown, Without
<1>16. ResetEndsSessions'
  BY <1>1, <1>5 DEF ResetEndsSessions, SessionsAreDone, HasSession
<1> QED BY <1>7, <1>8, <1>9, <1>11, <1>12, <1>14, <1>15, <1>16

(* The session of a completion whose code was accepted.                    *)
LEMMA CreateKeepsIInv ==
  ASSUME Separate, IInv, NEW r \in Completions, CreateSession(r)
  PROVE  IInv'
<1> USE DEF IInv
<1> DEFINE c == requests[r].subject
           row == [state |-> "live", login |-> c]
           end == [Idle EXCEPT !.at = "done"]
<1>1. /\ requests' = [requests EXCEPT ![r] = end] /\ requests[r].at = "accepted"
      /\ sessions' = [sessions EXCEPT ![r] = row]
      /\ UNCHANGED <<lastAccepted, password, challenges, overtaken, uses>>
  BY DEF CreateSession, Ends, At, credentials
<1>2. c \in Logins
  BY <1>1 DEF Phases
<1>3. /\ requests' \in [Requests -> Sent] /\ requests'[r].at = "done"
      /\ \A q \in Requests \ {r} : requests'[q] = requests[q]
  BY <1>1 DEF Types, Sent, Requests, Idle
<1>4. /\ sessions' \in [Completions -> [state : {"absent", "live", "ended"},
                                        login : Logins \cup {"none"}]]
      /\ sessions'[r] = row
      /\ \A s \in Completions \ {r} : sessions'[s] = sessions[s]
  BY <1>1, <1>2 DEF Types
<1>5. \A d \in Logins : requests'[d] = requests[d]
  BY <1>3 DEF Separate, Requests
<1>6. \A q \in (Completions \cup StepUps) \ {r} : requests'[q] = requests[q]
  BY <1>3 DEF Requests
<1>7. Types' /\ CodesInOrder'
  BY <1>1, <1>3, <1>4 DEF Types, CodesInOrder
<1>8. Phases'
  BY <1>3, <1>5, <1>6 DEF Phases, Separate
<1>9. SessionsHaveCodes'
  BY <1>1, <1>3, <1>4, <1>6 DEF SessionsHaveCodes, HasSession
<1>10. SessionsAreDone'
  BY <1>2, <1>3, <1>4, <1>6 DEF SessionsAreDone, HasSession
<1>11. sessions[r].login = "none"
  BY <1>1 DEF SessionsAreDone, HasSession
<1>12. \A q \in Completions, d \in Logins : Holds(q, d)' <=> Holds(q, d)
  BY <1>1, <1>3, <1>4, <1>6, <1>11 DEF Holds, Separate
<1>13. ChallengesAreConsumed' /\ OneHolder'
  BY <1>1, <1>12 DEF ChallengesAreConsumed, OneHolder
<1>14. ChallengesFollowLogins'
  BY <1>1, <1>5 DEF ChallengesFollowLogins
<1>15. \A d \in Logins : Without(d)' => Without(d)
  BY <1>4, <1>11 DEF Without, Separate
<1>16. PasswordsAreKnown'
  BY <1>1, <1>5, <1>15 DEF PasswordsAreKnown
<1>17. Holds(r, c) /\ requests[c].at # "idle"
  BY <1>1, <1>2 DEF Holds, ChallengesAreConsumed, ChallengesFollowLogins
<1>18. Without(c)
  BY <1>2, <1>11, <1>17 DEF Without, OneHolder, Holds, Separate
<1>19. ResetEndsSessions'
  <2> SUFFICES ASSUME NEW s \in Completions, sessions'[s].state = "live"
               PROVE  \/ sessions'[s].login \in overtaken'
                      \/ requests'[sessions'[s].login].password = password'
    BY DEF ResetEndsSessions
  <2>1. CASE s = r
    <3>1. c \in overtaken \/ requests[c].password = password
      BY <1>2, <1>17, <1>18 DEF PasswordsAreKnown
    <3> QED BY <1>1, <1>2, <1>4, <1>5, <2>1, <3>1
  <2>2. CASE s # r
    <3>1. sessions'[s] = sessions[s] /\ sessions[s].login \in Logins
      BY <1>4, <2>2 DEF SessionsAreDone, HasSession
    <3>2. sessions[s].login \in overtaken \/ requests[sessions[s].login].password = password
      BY <3>1 DEF ResetEndsSessions
    <3>3. requests'[sessions'[s].login].password = requests[sessions[s].login].password
      BY <1>5, <3>1
    <3> QED BY <1>1, <3>1, <3>2, <3>3
  <2> QED BY <2>1, <2>2
<1> QED BY <1>7, <1>8, <1>9, <1>10, <1>13, <1>14, <1>16, <1>19

(* Sessions end, one or all of them, and a reset changes the password.     *)
LEMMA EndKeepsIInv ==
  ASSUME Separate, IInv, UNCHANGED <<lastAccepted, challenges, requests, uses>>,
         sessions' \in [Completions -> [state : {"absent", "live", "ended"},
                                        login : Logins \cup {"none"}]],
         \A s \in Completions : /\ sessions'[s].login = sessions[s].login
                                /\ sessions'[s].state = "absent" <=> sessions[s].state = "absent",
         password' \in Nat, PasswordsAreKnown', ResetEndsSessions'
  PROVE  IInv'
<1> USE DEF IInv
<1>1. Types' /\ Phases' /\ CodesInOrder'
  BY DEF Types, Phases, CodesInOrder
<1>2. SessionsHaveCodes' /\ SessionsAreDone'
  BY DEF SessionsHaveCodes, SessionsAreDone, HasSession
<1>3. ChallengesAreConsumed' /\ OneHolder' /\ ChallengesFollowLogins'
  BY DEF ChallengesAreConsumed, OneHolder, Holds, ChallengesFollowLogins
<1> QED BY <1>1, <1>2, <1>3

LEMMA SessionsKeepIInv ==
  ASSUME Separate, IInv, (\E s \in Completions : SessionEnds(s)) \/ LogoutAll
  PROVE  IInv'
<1>1. /\ UNCHANGED <<lastAccepted, password, challenges, requests, overtaken, uses>>
      /\ \/ \E s \in Completions : /\ sessions[s].state = "live"
                                   /\ sessions' = [sessions EXCEPT ![s].state = "ended"]
         \/ sessions' = Ended
  BY DEF SessionEnds, LogoutAll, credentials
<1>2. /\ sessions' \in [Completions -> [state : {"absent", "live", "ended"},
                                        login : Logins \cup {"none"}]]
      /\ \A s \in Completions : /\ sessions'[s].login = sessions[s].login
                                /\ sessions'[s].state = "absent" <=> sessions[s].state = "absent"
                                /\ sessions'[s].state = "live" => sessions[s].state = "live"
  BY <1>1 DEF IInv, Types, Ended
<1>3. PasswordsAreKnown'
  BY <1>1, <1>2 DEF IInv, PasswordsAreKnown, Without
<1>4. ResetEndsSessions'
  BY <1>1, <1>2 DEF IInv, ResetEndsSessions
<1>5. password' \in Nat
  BY <1>1 DEF IInv, Types
<1> QED BY <1>1, <1>2, <1>3, <1>4, <1>5, EndKeepsIInv

LEMMA ResetKeepsIInv ==
  ASSUME Separate, IInv, NEW t \in Tokens, CompleteReset(t)
  PROVE  IInv'
<1>1. /\ UNCHANGED <<lastAccepted, challenges, requests, uses>>
      /\ password' = password + 1 /\ sessions' = Ended
      /\ overtaken' = overtaken \cup
           {r \in Logins : requests[r].at # "idle" /\ \A s \in Completions : sessions[s].login # r}
  BY DEF CompleteReset, At
<1>2. /\ sessions' \in [Completions -> [state : {"absent", "live", "ended"},
                                        login : Logins \cup {"none"}]]
      /\ \A s \in Completions : /\ sessions'[s].login = sessions[s].login
                                /\ sessions'[s].state = "absent" <=> sessions[s].state = "absent"
                                /\ sessions'[s].state # "live"
  BY <1>1 DEF IInv, Types, Ended
<1>3. PasswordsAreKnown'
  BY <1>1, <1>2 DEF PasswordsAreKnown, Without
<1>4. ResetEndsSessions'
  BY <1>2 DEF ResetEndsSessions
<1>5. password' \in Nat
  BY <1>1 DEF IInv, Types
<1> QED BY <1>1, <1>2, <1>3, <1>4, <1>5, EndKeepsIInv

-----------------------------------------------------------------------------
LEMMA NextIInv ==
  ASSUME Separate, IInv, [Next]_vars
  PROVE  IInv'
<1> USE DEF IInv, credentials, trust
<1>1. CASE \/ Tick \/ UNCHANGED vars
           \/ \E c \in Logins : ChallengeExpires(c) \/ WrongCode(c)
           \/ \E s \in Completions : StepUpExpires(s)
           \/ \E u \in Tokens, seen \in SUBSET Tokens : RequestReset(u, seen)
           \/ \E u \in Tokens : TokenExpires(u)
  <2>1. UNCHANGED <<lastAccepted, password, requests, overtaken, sessions, uses>>
    BY <1>1 DEF Tick, vars, ChallengeExpires, WrongCode, StepUpExpires, RequestReset, TokenExpires
  <2>2. /\ challenges' \in [Logins -> [state : {"absent", "open", "gone"}, attempts : Nat]]
        /\ \A c \in Logins : challenges[c].state # "open" => challenges'[c].state = challenges[c].state
    <3>1. ASSUME NEW c \in Logins, ChallengeExpires(c) \/ WrongCode(c)
          PROVE  \E m \in [state : {"open", "gone"}, attempts : Nat] :
                   challenges' = [challenges EXCEPT ![c] = m] /\ challenges[c].state = "open"
      <4>1. CASE ChallengeExpires(c)
        BY <4>1 DEF ChallengeExpires, Types
      <4>2. CASE WrongCode(c)
        <5> DEFINE m == [attempts |-> challenges[c].attempts + 1,
                         state |-> IF challenges[c].attempts + 1 >= MaxAttempts THEN "gone" ELSE "open"]
        <5>1. m \in [state : {"open", "gone"}, attempts : Nat]
          BY DEF Types
        <5>2. challenges' = [challenges EXCEPT ![c] = m] /\ challenges[c].state = "open"
          BY <4>2 DEF WrongCode
        <5> HIDE DEF m
        <5> QED BY <5>1, <5>2
      <4> QED BY <3>1, <4>1, <4>2
    <3>2. CASE \E c \in Logins : ChallengeExpires(c) \/ WrongCode(c)
      BY <3>1, <3>2 DEF Types
    <3>3. CASE challenges' = challenges
      BY <3>3 DEF Types
    <3> QED BY <1>1, <3>2, <3>3 DEF Tick, vars, StepUpExpires, RequestReset, TokenExpires
  <2> QED BY <2>1, <2>2, ChallengesKeepIInv
<1>2. ASSUME NEW c \in Logins, Login(c) \/ CreateChallenge(c)
      PROVE  IInv'
  BY <1>2, LoginKeepsIInv
<1>3. ASSUME NEW r \in Completions, NEW c \in Logins, NEW n \in Codes, VerifyCode(r, c, n)
      PROVE  IInv'
  <2> DEFINE m == Verified(n, c)
  <2>1. m \in Sent /\ m.at = "verified" /\ m.step \in Steps /\ m.subject \in Logins
    BY DEF Verified, Sent, Codes, Steps, Separate
  <2>2. /\ requests' = [requests EXCEPT ![r] = m] /\ requests[r].at = "idle"
        /\ UNCHANGED <<lastAccepted, password, challenges, overtaken, sessions, uses>>
    BY <1>3 DEF VerifyCode, At
  <2> HIDE DEF m
  <2> QED BY <2>1, <2>2, RequestKeepsIInv
<1>4. ASSUME NEW r \in StepUps, NEW s \in Completions, NEW n \in Codes, VerifyStepUp(r, s, n)
      PROVE  IInv'
  <2> DEFINE m == Verified(n, s)
  <2>1. m \in Sent /\ m.at = "verified" /\ m.step \in Steps
    BY DEF Verified, Sent, Codes, Steps, Separate
  <2>2. /\ requests' = [requests EXCEPT ![r] = m] /\ requests[r].at = "idle"
        /\ UNCHANGED <<lastAccepted, password, challenges, overtaken, sessions, uses>>
    BY <1>4 DEF VerifyStepUp, At
  <2>3. r \notin Completions
    BY DEF Separate
  <2> HIDE DEF m
  <2> QED BY <2>1, <2>2, <2>3, RequestKeepsIInv
<1>5. ASSUME NEW r \in Completions \cup StepUps, Ends(r),
             UNCHANGED <<lastAccepted, password, challenges, overtaken, sessions, uses>>
      PROVE  IInv'
  <2> DEFINE m == [Idle EXCEPT !.at = "done"]
  <2>1. m \in Sent /\ m.at = "done"
    BY DEF Idle, Sent
  <2>2. requests' = [requests EXCEPT ![r] = m]
    BY <1>5 DEF Ends
  <2> HIDE DEF m
  <2> QED BY <1>5, <2>1, <2>2, RequestKeepsIInv
<1>6. ASSUME NEW r \in Completions, ConsumeChallenge(r)
      PROVE  IInv'
  <2>1. CASE challenges[requests[r].subject].state = "open"
    BY <1>6, <2>1, ConsumeKeepsIInv
  <2>2. CASE challenges[requests[r].subject].state # "open"
    BY <1>5, <1>6, <2>2 DEF ConsumeChallenge
  <2> QED BY <2>1, <2>2
<1>7. ASSUME NEW r \in Completions \cup StepUps, AcceptLogin(r) \/ AcceptStepUp(r)
      PROVE  IInv'
  <2>1. /\ AcceptStep(r) /\ requests[r].at \in {"verified", "consumed"} /\ requests[r].step \in Steps
        /\ r \in Completions => requests[r].at = "consumed"
    BY <1>7 DEF AcceptLogin, AcceptStepUp, At, Phases, Separate
  <2>2. CASE Later(requests[r].step)
    BY <2>1, <2>2, AcceptKeepsIInv
  <2>3. CASE ~Later(requests[r].step)
    BY <1>5, <2>1, <2>3 DEF AcceptStep
  <2> QED BY <2>2, <2>3
<1>8. ASSUME NEW r \in Completions, CreateSession(r)
      PROVE  IInv'
  BY <1>8, CreateKeepsIInv
<1>9. ASSUME NEW r \in StepUps, MarkStepUp(r)
      PROVE  IInv'
  BY <1>5, <1>9 DEF MarkStepUp
<1>10. CASE (\E s \in Completions : SessionEnds(s)) \/ LogoutAll
  BY <1>10, SessionsKeepIInv
<1>11. ASSUME NEW t \in Tokens, CompleteReset(t)
       PROVE  IInv'
  BY <1>11, ResetKeepsIInv
<1> QED BY <1>1, <1>2, <1>3, <1>4, <1>6, <1>7, <1>8, <1>9, <1>10, <1>11 DEF Next

\* The inductive invariant: steps are accepted in their order, a challenge is
\* consumed for one session, and a sign-in that has no session yet compared the
\* password of today or was overtaken by a reset.
THEOREM IdentityInvariant ==
  ASSUME Separate
  PROVE  Spec => []IInv
BY InitIInv, NextIInv, PTL DEF Spec

LEMMA CodesHaveOneUse ==
  ASSUME IInv
  PROVE  EachCodeOnce
<1>1. DOMAIN uses = Steps
  BY DEF IInv, Types
<1>2. ASSUME NEW n \in Steps
      PROVE  Cardinality(uses[n]) <= 1
  <2>1. CASE uses[n] = {}
    BY <2>1, FS_EmptySet
  <2>2. ASSUME NEW r \in uses[n]
        PROVE  Cardinality(uses[n]) <= 1
    <3>1. uses[n] = {r}
      BY DEF IInv, CodesInOrder
    <3>2. Cardinality({r}) = 1
      BY FS_Singleton
    <3> QED BY <3>1, <3>2
  <2> QED BY <2>1, <2>2
<1>3. \A s \in Opened : \E n \in Steps : s \in uses[n]
  BY DEF IInv, SessionsHaveCodes, Opened, HasSession
<1>4. ASSUME NEW s \in Opened, NEW t \in Opened, sessions[s].login = sessions[t].login
      PROVE  s = t
  <2>1. sessions[s].login \in Logins /\ s \in Completions /\ t \in Completions
    BY DEF IInv, SessionsAreDone, Opened, HasSession
  <2>2. Holds(s, sessions[s].login) /\ Holds(t, sessions[s].login)
    BY <1>4 DEF Holds
  <2> QED BY <2>1, <2>2 DEF IInv, OneHolder
<1> QED BY <1>1, <1>2, <1>3, <1>4 DEF EachCodeOnce

\* acceptTotpStep lets one request pass with a code, however many verified it
\* before; sessions have codes and challenges of their own.
THEOREM CodesUsedOnce ==
  ASSUME Separate
  PROVE  Spec => []EachCodeOnce
BY CodesHaveOneUse, IdentityInvariant, PTL

\* confirmPasswordReset revokes what was opened with an earlier password; only
\* sign-ins it overtook may open a session afterwards.
THEOREM ResetEnds ==
  ASSUME Separate
  PROVE  Spec => []ResetEndsSessions
<1>1. IInv => ResetEndsSessions
  BY DEF IInv
<1> QED BY <1>1, IdentityInvariant, PTL

------------------------------------------------------------------------------
(* Requests and runs are numbered.                                         *)
Numbered == MaxRequests \in Nat /\ MaxRuns \in Nat

LinkFor(code) ==
  IF code = "newsletter-confirm" THEN subscription.confirmation ELSE subscription.unsubscribe

\* A run that has begun is about a mail, and a mail that was sent is in the inbox.
RunsAreMails ==
  \A r \in Runs :
    /\ runs[r].at # "unborn" => runs[r].key \in Keys
    /\ runs[r].at = "sent" => r \in inbox

\* The link that confirms was minted for the present request.
ConfirmationIsOwn ==
  subscription.confirmation.hash # Unset =>
    /\ runs[subscription.confirmation.hash].at # "unborn"
    /\ runs[subscription.confirmation.hash].key = <<"newsletter-confirm", subscription.request>>

\* The run that holds the lease of a mail is the one whose link the row knows.
LeaseHolderHasLink ==
  \A k \in Keys :
    /\ k[2] = subscription.request
    /\ deliveries[k].status = "QUEUED" /\ deliveries[k].lease # Unset
    => LinkFor(k[1]).hash = deliveries[k].lease

NoMailBeforeRequest == \A k \in Keys : k[2] > subscription.request => deliveries[k] = Absent

LettersInv ==
  /\ LettersTypeOK /\ RunsAreMails /\ ConfirmationIsOwn /\ LeaseHolderHasLink
  /\ NoMailBeforeRequest /\ LinksFollowConsent

Delivery == [status : {"ABSENT", "QUEUED", "FAILED", "SENT"}, lease : Runs \cup {Unset}, leased : BOOLEAN]
Row == [status : {"NONE", "PENDING", "CONFIRMED", "UNSUBSCRIBED"}, request : 0..MaxRequests,
        confirmation : LinkOf, unsubscribe : LinkOf]
Run == [key : Keys \cup {<<>>}, at : {"unborn", "prepared", "sent", "caught", "done"}]

LEMMA LettersTypes ==
  LettersTypeOK <=> /\ subscription \in Row /\ deliveries \in [Keys -> Delivery]
                    /\ recent \in BOOLEAN /\ runs \in [Runs -> Run]
                    /\ inbox \subseteq Runs /\ consent \in Consents \cup {Unset}
BY DEF LettersTypeOK, Row, Delivery, Run

LEMMA InitLetters ==
  ASSUME Numbered, LettersInit
  PROVE  LettersInv
<1> USE DEF LettersInit, Absent, NoLink, Unset
<1>1. LettersTypeOK
  <2>1. subscription \in Row /\ deliveries \in [Keys -> Delivery]
    BY DEF Numbered, Row, Delivery, LinkOf
  <2>2. runs \in [Runs -> Run]
    BY DEF Run
  <2> QED
    BY <2>1, <2>2, LettersTypes
<1>2. RunsAreMails /\ ConfirmationIsOwn /\ LeaseHolderHasLink /\ NoMailBeforeRequest
  BY DEF RunsAreMails, ConfirmationIsOwn, LeaseHolderHasLink, NoMailBeforeRequest
<1>3. LinksFollowConsent
  BY DEF LinksFollowConsent, ConfirmedByItsOwnLink, SentLinkWorks
<1> QED
  BY <1>1, <1>2, <1>3 DEF LettersInv

(* What keeps the request and the hashes of its links, and settles a mail  *)
(* only with the link that the row knows.                                  *)
LEMMA LettersKept ==
  ASSUME Numbered, LettersInv,
         subscription' \in Row, subscription'.request = subscription.request,
         subscription'.status = "CONFIRMED" => consent' = subscription.request,
         subscription'.confirmation.hash = subscription.confirmation.hash,
         subscription'.unsubscribe.hash = subscription.unsubscribe.hash,
         deliveries' \in [Keys -> Delivery],
         \A k \in Keys :
           \/ /\ deliveries'[k].status = deliveries[k].status
              /\ deliveries'[k].lease = deliveries[k].lease
              /\ deliveries'[k].leased = deliveries[k].leased \/ deliveries[k].leased
           \/ /\ k[2] <= subscription.request
              /\ deliveries'[k].lease = Unset
              /\ \/ deliveries'[k].status # "SENT"
                 \/ k[2] = subscription.request => LinkFor(k[1]).hash \in inbox,
         runs' \in [Runs -> Run],
         \A r \in Runs :
           \/ runs'[r] = runs[r]
           \/ /\ runs[r].at # "unborn" /\ runs'[r].at # "unborn" /\ runs'[r].key = runs[r].key
              /\ runs'[r].at = "sent" => r \in inbox',
         recent' \in BOOLEAN, inbox \subseteq inbox', inbox' \subseteq Runs,
         consent' \in Consents \cup {Unset}
  PROVE  LettersInv'
<1> USE DEF LettersInv
<1>1. LettersTypeOK /\ LettersTypeOK'
  BY LettersTypes DEF LettersTypeOK, Row, Delivery, Run
<1>2. /\ subscription \in Row /\ deliveries \in [Keys -> Delivery] /\ runs \in [Runs -> Run]
      /\ inbox \subseteq Runs
  BY <1>1, LettersTypes
<1>3. RunsAreMails'
  BY <1>2 DEF RunsAreMails
<1>4. ConfirmationIsOwn'
  BY <1>2 DEF ConfirmationIsOwn, Row, LinkOf
<1>5. LeaseHolderHasLink'
  BY <1>2 DEF LeaseHolderHasLink, LinkFor
<1>6. NoMailBeforeRequest'
  <2> SUFFICES ASSUME NEW k \in Keys, k[2] > subscription.request
               PROVE  deliveries'[k] = Absent
    BY DEF NoMailBeforeRequest
  <2>1. deliveries[k] = Absent /\ deliveries'[k] \in Delivery /\ deliveries[k] \in Delivery
    BY <1>2 DEF NoMailBeforeRequest
  <2>2. k[2] \in Nat /\ subscription.request \in Nat
    BY <1>2 DEF Keys, Consents, Row
  <2>3. /\ deliveries'[k].status = "ABSENT" /\ deliveries'[k].lease = Unset
        /\ deliveries'[k].leased = FALSE
    BY <2>1, <2>2 DEF Absent
  <2> QED
    BY <2>1, <2>3 DEF Absent, Delivery
<1>7. ConfirmedByItsOwnLink'
  BY DEF ConfirmedByItsOwnLink
<1>8. SentLinkWorks'
  <2>1. SentLinkWorks
    BY DEF LinksFollowConsent
  <2> SUFFICES ASSUME NEW code \in Templates, subscription.request # Unset,
                      deliveries'[<<code, subscription.request>>].status = "SENT"
               PROVE  IF code = "newsletter-confirm"
                      THEN subscription.confirmation.hash \in inbox'
                      ELSE subscription.unsubscribe.hash \in inbox'
    BY DEF SentLinkWorks
  <2>2. <<code, subscription.request>> \in Keys
    BY <1>2 DEF Keys, Consents, Row, Unset, Numbered
  <2>3. \/ deliveries[<<code, subscription.request>>].status = "SENT"
        \/ LinkFor(code).hash \in inbox
    BY <2>2
  <2> QED
    BY <2>1, <2>3 DEF SentLinkWorks, LinkFor
<1> QED
  BY <1>1, <1>3, <1>4, <1>5, <1>6, <1>7, <1>8 DEF LinksFollowConsent

LEMMA SubscriberKeepsLetters ==
  ASSUME Numbered, LettersInv,
         MinutePasses \/ LinkExpires \/ \E r \in Runs : Confirm(r) \/ Unsubscribe(r)
  PROVE  LettersInv'
<1> USE DEF LettersInv
<1>1. /\ subscription \in Row /\ deliveries \in [Keys -> Delivery] /\ runs \in [Runs -> Run]
      /\ inbox \subseteq Runs /\ recent \in BOOLEAN /\ consent \in Consents \cup {Unset}
      /\ subscription.status = "CONFIRMED" => consent = subscription.request
  BY LettersTypes DEF LinksFollowConsent, ConfirmedByItsOwnLink
<1>2. CASE MinutePasses
  BY <1>1, <1>2, LettersKept DEF MinutePasses
<1>3. CASE LinkExpires
  <2>1. /\ subscription' \in Row /\ subscription'.request = subscription.request
        /\ subscription'.status = subscription.status
        /\ subscription'.confirmation.hash = subscription.confirmation.hash
        /\ subscription'.unsubscribe.hash = subscription.unsubscribe.hash
    <3>1. \/ subscription' = [subscription EXCEPT !.confirmation.open = FALSE]
          \/ subscription' = [subscription EXCEPT !.unsubscribe.open = FALSE]
      BY <1>3 DEF LinkExpires
    <3>2. /\ subscription.confirmation \in LinkOf /\ subscription.unsubscribe \in LinkOf
          /\ [subscription.confirmation EXCEPT !.open = FALSE] \in LinkOf
          /\ [subscription.unsubscribe EXCEPT !.open = FALSE] \in LinkOf
      BY <1>1 DEF Row, LinkOf
    <3>3. CASE subscription' = [subscription EXCEPT !.confirmation.open = FALSE]
      <4>1. subscription' = [subscription EXCEPT
                               !.confirmation = [subscription.confirmation EXCEPT !.open = FALSE]]
        BY <3>3
      <4>2. [subscription.confirmation EXCEPT !.open = FALSE].hash = subscription.confirmation.hash
        BY <3>2 DEF LinkOf
      <4> QED
        BY <1>1, <3>2, <4>1, <4>2 DEF Row
    <3>4. CASE subscription' = [subscription EXCEPT !.unsubscribe.open = FALSE]
      <4>1. subscription' = [subscription EXCEPT
                               !.unsubscribe = [subscription.unsubscribe EXCEPT !.open = FALSE]]
        BY <3>4
      <4>2. [subscription.unsubscribe EXCEPT !.open = FALSE].hash = subscription.unsubscribe.hash
        BY <3>2 DEF LinkOf
      <4> QED
        BY <1>1, <3>2, <4>1, <4>2 DEF Row
    <3> QED
      BY <3>1, <3>3, <3>4
  <2> QED
    BY <1>1, <1>3, <2>1, LettersKept DEF LinkExpires
<1>4. ASSUME NEW r \in Runs, Unsubscribe(r)
      PROVE  LettersInv'
  <2>1. /\ subscription' \in Row /\ subscription'.request = subscription.request
        /\ subscription'.status = "UNSUBSCRIBED"
        /\ subscription'.confirmation.hash = subscription.confirmation.hash
        /\ subscription'.unsubscribe.hash = subscription.unsubscribe.hash
    BY <1>1, <1>4 DEF Unsubscribe, Row
  <2> QED
    BY <1>1, <1>4, <2>1, LettersKept DEF Unsubscribe
<1>5. ASSUME NEW r \in Runs, Confirm(r)
      PROVE  LettersInv'
  <2>1. /\ subscription.confirmation.hash = r /\ subscription.status = "PENDING"
        /\ subscription' = [subscription EXCEPT !.status = "CONFIRMED", !.confirmation.open = FALSE]
        /\ deliveries' = [deliveries EXCEPT ![<<"newsletter-welcome", subscription.request>>] = Queued]
        /\ consent' = runs[r].key[2] /\ UNCHANGED <<recent, runs, inbox>>
    BY <1>5 DEF Confirm, Link, Enqueued
  <2>2. /\ subscription' \in Row /\ subscription'.request = subscription.request
        /\ subscription'.confirmation.hash = subscription.confirmation.hash
        /\ subscription'.unsubscribe.hash = subscription.unsubscribe.hash
    BY <1>1, <2>1 DEF Row, LinkOf
  <2>3. r # Unset
    BY DEF Runs, Unset, Numbered
  <2>4. runs[r].key = <<"newsletter-confirm", subscription.request>> /\ runs[r].key \in Keys
    BY <2>1, <2>3 DEF ConfirmationIsOwn, RunsAreMails
  <2>5. consent' = subscription.request /\ subscription.request \in Consents
    BY <2>1, <2>4 DEF Keys
  <2>6. Queued \in Delivery /\ Queued.lease = Unset /\ Queued.status = "QUEUED"
    BY DEF Queued, Delivery
  <2>7. /\ deliveries' \in [Keys -> Delivery]
        /\ \A k \in Keys :
             \/ deliveries'[k] = deliveries[k]
             \/ k[2] = subscription.request /\ deliveries'[k] = Queued
    <3> DEFINE key == <<"newsletter-welcome", subscription.request>>
    <3>1. key[2] = subscription.request
      OBVIOUS
    <3>2. deliveries' = [deliveries EXCEPT ![key] = Queued]
      BY <2>1
    <3> HIDE DEF key
    <3> QED
      BY <1>1, <2>6, <3>1, <3>2
  <2>8. subscription.request <= subscription.request
    BY <1>1 DEF Row
  <2>9. \A k \in Keys :
           \/ /\ deliveries'[k].status = deliveries[k].status
              /\ deliveries'[k].lease = deliveries[k].lease
              /\ deliveries'[k].leased = deliveries[k].leased \/ deliveries[k].leased
           \/ /\ k[2] <= subscription.request
              /\ deliveries'[k].lease = Unset
              /\ \/ deliveries'[k].status # "SENT"
                 \/ k[2] = subscription.request => LinkFor(k[1]).hash \in inbox
    BY <2>6, <2>7, <2>8
  <2> QED
    BY <1>1, <2>1, <2>2, <2>5, <2>7, <2>9, LettersKept
<1> QED
  BY <1>2, <1>3, <1>4, <1>5

(* A fresh consent forgets the links, and what is queued for it is new.    *)
LEMMA RequestKeepsLetters ==
  ASSUME Numbered, LettersInv, RequestSubscription
  PROVE  LettersInv'
<1> USE DEF LettersInv
<1>1. /\ subscription \in Row /\ deliveries \in [Keys -> Delivery] /\ runs \in [Runs -> Run]
      /\ inbox \subseteq Runs /\ consent \in Consents \cup {Unset}
  BY LettersTypes
<1> DEFINE n == subscription.request + 1
<1>2. /\ subscription.request < MaxRequests
      /\ subscription' = Resubscribed(n)
      /\ deliveries' = [deliveries EXCEPT ![<<"newsletter-confirm", n>>] = Queued]
      /\ recent' = TRUE /\ UNCHANGED <<runs, inbox, consent>>
  BY DEF RequestSubscription, Enqueued
<1>3. n \in Consents /\ n > subscription.request /\ subscription.request \in Nat
  BY <1>1, <1>2 DEF Row, Consents, Numbered
<1> HIDE DEF n
<1>4. /\ subscription'.request = n /\ subscription'.status = "PENDING"
      /\ subscription'.confirmation.hash = Unset /\ subscription' \in Row
  BY <1>2, <1>3 DEF Resubscribed, NoLink, Row, LinkOf, Consents
<1>5. Queued \in Delivery /\ Queued.lease = Unset /\ Queued.status = "QUEUED"
  BY DEF Queued, Delivery
<1>6. deliveries' \in [Keys -> Delivery]
  BY <1>1, <1>2, <1>5
<1>7. \A k \in Keys : k[2] = n => deliveries'[k] \in {Absent, Queued}
  BY <1>1, <1>2, <1>3 DEF NoMailBeforeRequest
<1>8. LettersTypeOK'
  BY <1>1, <1>2, <1>4, <1>6, LettersTypes DEF LettersTypeOK, Row, Delivery, Run
<1>9. RunsAreMails' /\ ConfirmationIsOwn'
  BY <1>2, <1>4 DEF RunsAreMails, ConfirmationIsOwn
<1>10. LeaseHolderHasLink'
  BY <1>4, <1>5, <1>7 DEF LeaseHolderHasLink, Absent
<1>11. NoMailBeforeRequest'
  <2> SUFFICES ASSUME NEW k \in Keys, k[2] > n
               PROVE  deliveries'[k] = Absent
    BY <1>4 DEF NoMailBeforeRequest
  <2>1. k # <<"newsletter-confirm", n>> /\ k[2] > subscription.request
    BY <1>3 DEF Keys, Consents
  <2> QED
    BY <1>1, <1>2, <2>1 DEF NoMailBeforeRequest
<1>12. LinksFollowConsent'
  <2>1. ConfirmedByItsOwnLink'
    BY <1>4 DEF ConfirmedByItsOwnLink
  <2>2. \A code \in Templates : deliveries'[<<code, n>>].status # "SENT"
    <3>1. \A code \in Templates : <<code, n>> \in Keys
      BY <1>3 DEF Keys
    <3> QED
      BY <1>5, <1>7, <3>1 DEF Absent
  <2>3. SentLinkWorks'
    BY <1>4, <2>2 DEF SentLinkWorks
  <2> QED
    BY <2>1, <2>3 DEF LinksFollowConsent
<1> QED
  BY <1>8, <1>9, <1>10, <1>11, <1>12

(* A run mints the link and takes the lease in one transaction.            *)
LEMMA PrepareKeepsLetters ==
  ASSUME Numbered, LettersInv, NEW r \in Runs, NEW key \in Keys, PrepareNewsletter(r, key)
  PROVE  LettersInv'
<1> USE DEF LettersInv
<1>1. /\ subscription \in Row /\ deliveries \in [Keys -> Delivery] /\ runs \in [Runs -> Run]
      /\ inbox \subseteq Runs /\ consent \in Consents \cup {Unset}
  BY LettersTypes
<1> DEFINE row == [status |-> "QUEUED", lease |-> r, leased |-> TRUE]
           run == [key |-> key, at |-> "prepared"]
<1>2. /\ runs[r].at = "unborn" /\ key[2] = subscription.request
      /\ deliveries' = [deliveries EXCEPT ![key] = row]
      /\ subscription' = IF key[1] = "newsletter-confirm"
                         THEN [subscription EXCEPT !.confirmation = Link(r)]
                         ELSE [subscription EXCEPT !.unsubscribe = Link(r)]
      /\ runs' = [runs EXCEPT ![r] = run]
      /\ UNCHANGED <<recent, inbox, consent>>
  BY DEF PrepareNewsletter, Superseded
<1>3. /\ row \in Delivery /\ row.status = "QUEUED" /\ row.lease = r
      /\ run \in Run /\ run.at = "prepared" /\ run.key = key
  BY DEF Delivery, Run
<1> HIDE DEF row, run
<1>4. r # Unset /\ Link(r) \in LinkOf /\ Link(r).hash = r
  BY DEF Runs, Unset, Numbered, Link, LinkOf
<1>5. /\ key = <<key[1], subscription.request>> /\ key[1] \in Templates
      /\ subscription.request \in Consents
  BY <1>2 DEF Keys
<1>6. /\ subscription' \in Row /\ subscription'.request = subscription.request
      /\ subscription'.status = subscription.status
      /\ LinkFor(key[1])'.hash = r
      /\ \A code \in Templates \ {key[1]} : LinkFor(code)' = LinkFor(code)
  <2>1. CASE key[1] = "newsletter-confirm"
    <3>1. subscription' = [subscription EXCEPT !.confirmation = Link(r)]
      BY <1>2, <2>1
    <3> QED
      BY <1>1, <1>4, <2>1, <3>1 DEF Row, LinkFor, Templates
  <2>2. CASE key[1] # "newsletter-confirm"
    <3>1. subscription' = [subscription EXCEPT !.unsubscribe = Link(r)]
      BY <1>2, <2>2
    <3>2. key[1] = "newsletter-welcome"
      BY <1>5, <2>2 DEF Templates
    <3> QED
      BY <1>1, <1>4, <3>1, <3>2 DEF Row, LinkFor, Templates
  <2> QED
    BY <2>1, <2>2
<1>7. /\ deliveries' \in [Keys -> Delivery] /\ deliveries'[key] = row
      /\ \A k \in Keys \ {key} : deliveries'[k] = deliveries[k]
  BY <1>1, <1>2, <1>3
<1>8. /\ runs' \in [Runs -> Run] /\ runs'[r] = run
      /\ \A q \in Runs \ {r} : runs'[q] = runs[q]
  BY <1>1, <1>2, <1>3
<1>9. LettersTypeOK'
  BY <1>1, <1>2, <1>6, <1>7, <1>8, LettersTypes DEF LettersTypeOK, Row, Delivery, Run
<1>10. RunsAreMails'
  BY <1>2, <1>3, <1>8 DEF RunsAreMails
<1>11. ConfirmationIsOwn'
  <2>1. CASE key[1] = "newsletter-confirm"
    <3>1. subscription'.confirmation.hash = r
      BY <1>6, <2>1 DEF LinkFor
    <3> QED
      BY <1>3, <1>5, <1>6, <1>8, <2>1, <3>1 DEF ConfirmationIsOwn
  <2>2. CASE key[1] # "newsletter-confirm"
    <3>1. subscription'.confirmation = subscription.confirmation
      BY <1>1, <1>2, <2>2 DEF Row
    <3>2. subscription.confirmation.hash \in Runs \cup {Unset}
      BY <1>1 DEF Row, LinkOf
    <3> QED
      BY <1>2, <1>6, <1>8, <3>1, <3>2 DEF ConfirmationIsOwn
  <2> QED
    BY <2>1, <2>2
<1>12. LeaseHolderHasLink'
  <2> SUFFICES ASSUME NEW k \in Keys, k[2] = subscription.request,
                      deliveries'[k].status = "QUEUED", deliveries'[k].lease # Unset
               PROVE  LinkFor(k[1])'.hash = deliveries'[k].lease
    BY <1>6 DEF LeaseHolderHasLink
  <2>1. CASE k = key
    BY <1>3, <1>6, <1>7, <2>1
  <2>2. CASE k # key
    <3>1. k[1] # key[1] /\ k[1] \in Templates
      BY <1>5, <2>2 DEF Keys
    <3> QED
      BY <1>6, <1>7, <2>2, <3>1 DEF LeaseHolderHasLink
  <2> QED
    BY <2>1, <2>2
<1>13. NoMailBeforeRequest'
  <2>1. \A k \in Keys : k[2] > subscription.request => k # key
    BY <1>1, <1>2 DEF Row
  <2> QED
    BY <1>6, <1>7, <2>1 DEF NoMailBeforeRequest
<1>14. LinksFollowConsent'
  <2>1. ConfirmedByItsOwnLink'
    BY <1>2, <1>6 DEF ConfirmedByItsOwnLink, LinksFollowConsent
  <2>2. SentLinkWorks'
    <3> SUFFICES ASSUME NEW code \in Templates, subscription.request # Unset,
                        deliveries'[<<code, subscription.request>>].status = "SENT"
                 PROVE  LinkFor(code)'.hash \in inbox
      BY <1>2, <1>6 DEF SentLinkWorks, LinkFor
    <3>1. code # key[1]
      BY <1>3, <1>5, <1>7
    <3>2. <<code, subscription.request>> \in Keys \ {key}
      BY <1>5, <3>1 DEF Keys
    <3>3. deliveries[<<code, subscription.request>>].status = "SENT"
      BY <1>7, <3>2
    <3>4. LinkFor(code).hash \in inbox
      BY <3>3 DEF LinksFollowConsent, SentLinkWorks, LinkFor
    <3> QED
      BY <1>6, <3>1, <3>4
  <2> QED
    BY <2>1, <2>2 DEF LinksFollowConsent
<1> QED
  BY <1>9, <1>10, <1>11, <1>12, <1>13, <1>14

(* A mail the run still holds the lease of belongs to no later request.    *)
LEMMA HeldIsRequested ==
  ASSUME Numbered, LettersInv, NEW k \in Keys, deliveries[k].status # "ABSENT"
  PROVE  k[2] <= subscription.request
<1>1. ~ k[2] > subscription.request
  BY DEF LettersInv, NoMailBeforeRequest, Absent
<1>2. k[2] \in Nat /\ subscription.request \in Nat
  BY LettersTypes DEF LettersInv, Keys, Consents, Row
<1> QED
  BY <1>1, <1>2

LEMMA FinishedDeliveries ==
  ASSUME Numbered, LettersInv, NEW r \in Runs, runs[r].key \in Keys,
         NEW outcome \in {"FAILED", "SENT"}, outcome = "SENT" => r \in inbox,
         deliveries' = Finished(r, outcome)
  PROVE  /\ deliveries' \in [Keys -> Delivery]
         /\ \A k \in Keys :
              \/ deliveries'[k] = deliveries[k]
              \/ /\ k[2] <= subscription.request
                 /\ deliveries'[k].lease = Unset
                 /\ \/ deliveries'[k].status # "SENT"
                    \/ k[2] = subscription.request => LinkFor(k[1]).hash \in inbox
<1>1. deliveries \in [Keys -> Delivery]
  BY LettersTypes DEF LettersInv
<1> DEFINE key == runs[r].key
           row == [status |-> outcome, lease |-> Unset, leased |-> FALSE]
<1>2. row \in Delivery /\ row.lease = Unset /\ row.status = outcome
  BY DEF Delivery
<1>3. r # Unset /\ key \in Keys
  BY DEF Runs, Unset, Numbered
<1>4. deliveries' = IF deliveries[key].lease = r /\ deliveries[key].status = "QUEUED"
                    THEN [deliveries EXCEPT ![key] = row] ELSE deliveries
  BY DEF Finished
<1> HIDE DEF key, row
<1>5. CASE deliveries[key].lease = r /\ deliveries[key].status = "QUEUED"
  <2>1. key[2] <= subscription.request
    BY <1>3, <1>5, HeldIsRequested
  <2>2. key[2] = subscription.request => LinkFor(key[1]).hash = r
    BY <1>3, <1>5 DEF LettersInv, LeaseHolderHasLink
  <2> QED
    BY <1>1, <1>2, <1>3, <1>4, <1>5, <2>1, <2>2
<1>6. CASE ~ (deliveries[key].lease = r /\ deliveries[key].status = "QUEUED")
  BY <1>1, <1>4, <1>6
<1> QED
  BY <1>5, <1>6

LEMMA WorkerKeepsLetters ==
  ASSUME Numbered, LettersInv, NEW r \in Runs,
         \/ Send(r) \/ SendThrows(r) \/ FinishSent(r) \/ FinishSentThrows(r)
         \/ FinishUnsent(r) \/ RunDies(r)
  PROVE  LettersInv'
<1> USE DEF LettersInv
<1>1. /\ subscription \in Row /\ deliveries \in [Keys -> Delivery] /\ runs \in [Runs -> Run]
      /\ inbox \subseteq Runs /\ recent \in BOOLEAN /\ consent \in Consents \cup {Unset}
      /\ subscription.status = "CONFIRMED" => consent = subscription.request
  BY LettersTypes DEF LinksFollowConsent, ConfirmedByItsOwnLink
<1>2. UNCHANGED <<subscription, recent, consent>>
  BY DEF Send, SendThrows, FinishSent, FinishSentThrows, FinishUnsent, RunDies
<1>3. inbox \subseteq inbox' /\ inbox' \subseteq Runs
  BY <1>1 DEF Send, SendThrows, FinishSent, FinishSentThrows, FinishUnsent, RunDies
<1>4. PICK at \in {"sent", "caught", "done"} :
        /\ runs' = [runs EXCEPT ![r].at = at] /\ runs[r].at # "unborn"
        /\ at = "sent" => r \in inbox'
  BY DEF Send, SendThrows, FinishSent, FinishSentThrows, FinishUnsent, RunDies
<1>5. runs[r].key \in Keys
  BY <1>4 DEF RunsAreMails
<1>6. /\ runs' \in [Runs -> Run]
      /\ \A q \in Runs :
           \/ runs'[q] = runs[q]
           \/ /\ runs[q].at # "unborn" /\ runs'[q].at # "unborn" /\ runs'[q].key = runs[q].key
              /\ runs'[q].at = "sent" => q \in inbox'
  <2> DEFINE m == [runs[r] EXCEPT !.at = at]
  <2>1. m \in Run /\ m.at = at /\ m.key = runs[r].key
    BY <1>1 DEF Run
  <2>2. runs' = [runs EXCEPT ![r] = m]
    BY <1>4
  <2> HIDE DEF m
  <2> QED
    BY <1>1, <1>4, <2>1, <2>2
<1>7. /\ deliveries' \in [Keys -> Delivery]
      /\ \A k \in Keys :
           \/ deliveries'[k] = deliveries[k]
           \/ /\ k[2] <= subscription.request
              /\ deliveries'[k].lease = Unset
              /\ \/ deliveries'[k].status # "SENT"
                 \/ k[2] = subscription.request => LinkFor(k[1]).hash \in inbox
  <2>1. CASE FinishSent(r)
    <3>1. r \in inbox /\ deliveries' = Finished(r, "SENT")
      BY <2>1 DEF FinishSent, RunsAreMails
    <3> QED
      BY <1>5, <3>1, FinishedDeliveries
  <2>2. CASE FinishUnsent(r)
    <3>1. deliveries' = Finished(r, "FAILED")
      BY <2>2 DEF FinishUnsent
    <3> QED
      BY <1>5, <3>1, FinishedDeliveries
  <2>3. CASE ~ FinishSent(r) /\ ~ FinishUnsent(r)
    BY <1>1, <2>3 DEF Send, SendThrows, FinishSentThrows, RunDies
  <2> QED
    BY <2>1, <2>2, <2>3
<1> QED
  BY <1>1, <1>2, <1>3, <1>6, <1>7, LettersKept

LEMMA NextLetters ==
  ASSUME Numbered, LettersInv, [LettersNext]_letterVars
  PROVE  LettersInv'
<1>1. CASE UNCHANGED letterVars
  BY <1>1 DEF letterVars, LettersInv, LettersTypeOK, RunsAreMails, ConfirmationIsOwn,
     LeaseHolderHasLink, LinkFor, NoMailBeforeRequest, LinksFollowConsent,
     ConfirmedByItsOwnLink, SentLinkWorks
<1>2. ASSUME NEW k \in Keys, LeaseLapses(k)
      PROVE  LettersInv'
  <2>1. /\ subscription \in Row /\ deliveries \in [Keys -> Delivery] /\ runs \in [Runs -> Run]
        /\ inbox \subseteq Runs /\ recent \in BOOLEAN /\ consent \in Consents \cup {Unset}
        /\ subscription.status = "CONFIRMED" => consent = subscription.request
    BY LettersTypes DEF LettersInv, LinksFollowConsent, ConfirmedByItsOwnLink
  <2> DEFINE row == [deliveries[k] EXCEPT !.leased = FALSE]
  <2>2. /\ deliveries' = [deliveries EXCEPT ![k] = row] /\ deliveries[k].leased
        /\ UNCHANGED <<subscription, recent, runs, inbox, consent>>
    BY <1>2 DEF LeaseLapses
  <2>3. /\ row \in Delivery /\ row.status = deliveries[k].status
        /\ row.lease = deliveries[k].lease
    BY <2>1 DEF Delivery
  <2> HIDE DEF row
  <2>4. /\ deliveries' \in [Keys -> Delivery]
        /\ \A j \in Keys :
             /\ deliveries'[j].status = deliveries[j].status
             /\ deliveries'[j].lease = deliveries[j].lease
             /\ (deliveries'[j].leased = deliveries[j].leased \/ deliveries[j].leased)
    BY <2>1, <2>2, <2>3
  <2> QED
    BY <2>1, <2>2, <2>4, LettersKept
<1> QED
  BY <1>1, <1>2, SubscriberKeepsLetters, RequestKeepsLetters, PrepareKeepsLetters,
     WorkerKeepsLetters DEF LettersNext

\* The inductive invariant of the letters.
THEOREM LettersInvariant ==
  ASSUME Numbered
  PROVE  LettersSpec => []LettersInv
BY InitLetters, NextLetters, PTL DEF LettersSpec

------------------------------------------------------------------------------
(* What stands for no entity and no slug is neither.                       *)
Addressed == None \notin Entities \cup Slugs

LinkEditStates ==
  [at : {"idle", "read", "checked", "target"}, entity : Entities \cup {None},
   slug : Slugs \cup {None}, status : {"DRAFT", "PUBLISHED", "ARCHIVED"},
   old : Slugs \cup {None}, target : {"PUBLISHED", "ARCHIVED"}]

\* The unique index: no two entities have one slug.
OneOwner == \A e, f \in Entities : slug[e] = slug[f] /\ slug[e] # None => e = f

\* A slug in use redirects nowhere else, unless it is disputed.
NoDiversion ==
  \A e \in Entities :
    slug[e] # None /\ slug[e] \notin disputed => history[slug[e]] \in {None, e}

\* An address that was public leads to its entity, unless that is archived or
\* the address disputed.
StillLeads ==
  \A s \in Slugs, e \in Entities :
    <<s, e>> \in shown =>
      /\ status[e] # "DRAFT"
      /\ status[e] = "PUBLISHED" /\ s \notin disputed => slug[e] = s \/ history[s] = e

\* An edit under way is about an entity, an upsert about a slug as well.
LinkEditWhole(u) ==
  LET edit == edits[u] IN
  /\ edit.at # "idle" => edit.entity \in Entities
  /\ edit.at \in {"read", "checked"} => edit.slug \in Slugs

LinksInv ==
  /\ LinksTypeOK /\ OneOwner /\ NoDiversion /\ StillLeads
  /\ \A u \in Edits : LinkEditWhole(u)

LEMMA InitLinks ==
  ASSUME Addressed, LinksInit
  PROVE  LinksInv
<1> USE DEF LinksInit, Addressed, NoLinkEdit
<1>1. LinksTypeOK
  BY DEF LinksTypeOK, Kinds
<1>2. OneOwner /\ NoDiversion /\ StillLeads
  BY DEF OneOwner, NoDiversion, StillLeads
<1>3. \A u \in Edits : LinkEditWhole(u)
  BY DEF LinkEditWhole
<1> QED
  BY <1>1, <1>2, <1>3 DEF LinksInv

(* An edit goes on as m: the edits stay whole.                             *)
LEMMA EditsStayWhole ==
  ASSUME LinksInv, NEW u \in Edits, NEW m \in LinkEditStates,
         edits' = [edits EXCEPT ![u] = m],
         m.at # "idle" => m.entity \in Entities,
         m.at \in {"read", "checked"} => m.slug \in Slugs
  PROVE  edits' \in [Edits -> LinkEditStates] /\ \A v \in Edits : LinkEditWhole(v)'
<1>1. edits \in [Edits -> LinkEditStates] /\ \A v \in Edits : LinkEditWhole(v)
  BY DEF LinksInv, LinksTypeOK, LinkEditStates
<1>2. edits'[u] = m /\ \A v \in Edits \ {u} : edits'[v] = edits[v]
  BY <1>1
<1> QED
  BY <1>1, <1>2 DEF LinkEditWhole

LEMMA EndedEditsStayWhole ==
  ASSUME LinksInv, NEW u \in Edits, LinkEditEnds(u)
  PROVE  edits' \in [Edits -> LinkEditStates] /\ \A v \in Edits : LinkEditWhole(v)'
<1>1. NoLinkEdit.at = "idle" /\ NoLinkEdit \in LinkEditStates
  BY DEF NoLinkEdit, LinkEditStates
<1> QED
  BY <1>1, EditsStayWhole DEF LinkEditEnds

(* An edit begins, goes on or ends without a change others can see.        *)
LEMMA ReadsKeepLinks ==
  ASSUME Addressed, LinksInv, NEW u \in Edits,
         \/ \E e \in Entities, s \in Slugs : ReadStatus(u, e, s)
         \/ CheckSlug(u) \/ LinkEditFails(u)
         \/ \E e \in Entities, target \in {"PUBLISHED", "ARCHIVED"} : CheckTransition(u, e, target)
  PROVE  LinksInv'
<1>1. UNCHANGED <<kind, status, slug, history, shown, disputed>>
  BY DEF ReadStatus, CheckSlug, LinkEditFails, CheckTransition
<1>2. edits' \in [Edits -> LinkEditStates] /\ \A v \in Edits : LinkEditWhole(v)'
  <2>1. edits \in [Edits -> LinkEditStates] /\ NoLinkEdit \in LinkEditStates
    BY DEF LinksInv, LinksTypeOK, LinkEditStates, NoLinkEdit
  <2>2. CASE \E e \in Entities, s \in Slugs : ReadStatus(u, e, s)
    <3>1. PICK e \in Entities, s \in Slugs : ReadStatus(u, e, s)
      BY <2>2
    <3> DEFINE m == [NoLinkEdit EXCEPT !.at = "read", !.entity = e, !.slug = s, !.status = status[e]]
    <3>2. m.at = "read" /\ m.entity = e /\ m.slug = s /\ m \in LinkEditStates
      BY DEF NoLinkEdit, LinkEditStates, LinksInv, LinksTypeOK
    <3>3. edits' = [edits EXCEPT ![u] = m]
      BY <3>1 DEF ReadStatus
    <3> HIDE DEF m
    <3> QED
      BY <3>2, <3>3, EditsStayWhole
  <2>3. CASE CheckSlug(u)
    <3> DEFINE old == OldSlug(edits[u].entity, edits[u].slug)
               m == [edits[u] EXCEPT !.at = "checked", !.old = old]
    <3>1. /\ edits[u].at = "read"
          /\ edits' = [edits EXCEPT ![u].at = "checked", ![u].old = old]
      BY <2>3 DEF CheckSlug
    <3>2. edits[u].entity \in Entities /\ edits[u].slug \in Slugs
      BY <3>1 DEF LinksInv, LinkEditWhole
    <3>3. old \in Slugs \cup {None}
      BY <3>2 DEF OldSlug, LinksInv, LinksTypeOK
    <3>4. edits' = [edits EXCEPT ![u] = m]
      BY <2>1, <3>1
    <3>5. m.at = "checked" /\ m.entity = edits[u].entity /\ m.slug = edits[u].slug
          /\ m \in LinkEditStates
      BY <2>1, <3>3 DEF LinkEditStates
    <3> HIDE DEF m
    <3> QED
      BY <3>2, <3>4, <3>5, EditsStayWhole
  <2>4. CASE LinkEditFails(u)
    BY <2>4, EndedEditsStayWhole DEF LinkEditFails
  <2>5. CASE \E e \in Entities, target \in {"PUBLISHED", "ARCHIVED"} : CheckTransition(u, e, target)
    <3>1. PICK e \in Entities, target \in {"PUBLISHED", "ARCHIVED"} : CheckTransition(u, e, target)
      BY <2>5
    <3> DEFINE m == [NoLinkEdit EXCEPT !.at = "target", !.entity = e, !.target = target]
    <3>2. m.at = "target" /\ m.entity = e /\ m \in LinkEditStates
      BY DEF NoLinkEdit, LinkEditStates
    <3>3. edits' = [edits EXCEPT ![u] = m]
      BY <3>1 DEF CheckTransition
    <3> HIDE DEF m
    <3> QED
      BY <3>2, <3>3, EditsStayWhole
  <2> QED
    BY <2>2, <2>3, <2>4, <2>5
<1>3. LinksTypeOK'
  BY <1>1, <1>2 DEF LinksInv, LinksTypeOK, LinkEditStates
<1>4. OneOwner' /\ NoDiversion' /\ StillLeads'
  BY <1>1 DEF LinksInv, OneOwner, NoDiversion, StillLeads
<1> QED
  BY <1>2, <1>3, <1>4 DEF LinksInv

(* A transition writes: what was shown of an entity that it revives is     *)
(* disputed, and what it shows for the first time is the entity's slug.    *)
LEMMA TransitionKeepsLinks ==
  ASSUME Addressed, LinksInv, NEW u \in Edits, Transition(u)
  PROVE  LinksInv'
<1> USE DEF LinksInv
<1> DEFINE e == edits[u].entity
           target == edits[u].target
<1>1. /\ edits[u].at = "target" /\ status' = [status EXCEPT ![e] = target]
      /\ shown' = ShownAfter(status', slug)
      /\ disputed' = IF Revives(u) THEN disputed \cup {s \in Slugs : <<s, e>> \in shown}
                     ELSE disputed
      /\ UNCHANGED <<kind, slug, history>>
  BY DEF Transition
<1>2. /\ edits' \in [Edits -> LinkEditStates] /\ \A v \in Edits : LinkEditWhole(v)'
  BY EndedEditsStayWhole DEF Transition
<1>3. e \in Entities /\ target \in {"PUBLISHED", "ARCHIVED"}
  BY <1>1 DEF LinkEditWhole, LinksTypeOK
<1>4. /\ shown' \subseteq Slugs \X Entities
      /\ disputed' \subseteq Slugs /\ disputed \subseteq disputed'
      /\ status' \in [Entities -> {"DRAFT", "PUBLISHED", "ARCHIVED"}]
      /\ status'[e] = target /\ \A f \in Entities \ {e} : status'[f] = status[f]
  BY <1>1, <1>3 DEF ShownAfter, Public, LinksTypeOK
<1>5. LinksTypeOK'
  BY <1>1, <1>2, <1>4 DEF LinksTypeOK, LinkEditStates
<1>6. OneOwner' /\ NoDiversion'
  BY <1>1, <1>4 DEF OneOwner, NoDiversion
<1>7. ASSUME NEW s \in Slugs, NEW f \in Entities, <<s, f>> \in shown'
      PROVE  /\ status'[f] # "DRAFT"
             /\ status'[f] = "PUBLISHED" /\ s \notin disputed' => slug'[f] = s \/ history'[s] = f
  <2>1. CASE <<s, f>> \in shown
    <3>1. /\ status[f] # "DRAFT"
          /\ status[f] = "PUBLISHED" /\ s \notin disputed => slug[f] = s \/ history[s] = f
      BY <2>1 DEF StillLeads
    <3>2. CASE f # e
      BY <1>1, <1>4, <3>1, <3>2
    <3>3. CASE f = e /\ status[e] = "PUBLISHED"
      BY <1>1, <1>3, <1>4, <3>1, <3>3
    <3>4. CASE f = e /\ status[e] = "ARCHIVED"
      <4>1. status'[f] = "PUBLISHED" => s \in disputed'
        BY <1>1, <1>4, <2>1, <3>4 DEF Revives
      <4> QED
        BY <1>3, <1>4, <3>4, <4>1
    <3> QED
      BY <1>3, <3>1, <3>2, <3>3, <3>4 DEF LinksTypeOK
  <2>2. CASE <<s, f>> \notin shown
    BY <1>1, <1>7, <2>2 DEF ShownAfter, Public
  <2> QED
    BY <2>1, <2>2
<1> QED
  BY <1>2, <1>5, <1>6, <1>7 DEF StillLeads

(* An upsert writes: what it replaces is remembered for its entity, or it  *)
(* is not public, or it is disputed.                                       *)
LEMMA UpsertKeepsLinks ==
  ASSUME Addressed, LinksInv, NEW u \in Edits, NEW remembers \in BOOLEAN, Upsert(u, remembers),
         edits[u].status = "PUBLISHED" => remembers
  PROVE  LinksInv'
<1> USE DEF LinksInv
<1> DEFINE e == edits[u].entity
           s == edits[u].slug
           old == edits[u].old
<1>1. /\ edits[u].at = "checked"
      /\ \A f \in Entities \ {e} : slug[f] # s
      /\ slug' = [slug EXCEPT ![e] = s]
      /\ history' = IF remembers THEN Remembered(old, e) ELSE history
      /\ shown' = ShownAfter(status, slug')
      /\ disputed' = IF UpsertMistaken(u) THEN disputed \cup ({s, old, slug[e]} \ {None})
                     ELSE disputed
      /\ UNCHANGED <<kind, status>>
  BY DEF Upsert
<1>2. /\ edits' \in [Edits -> LinkEditStates] /\ \A v \in Edits : LinkEditWhole(v)'
  BY EndedEditsStayWhole DEF Upsert
<1>3. e \in Entities /\ s \in Slugs /\ old \in Slugs \cup {None} /\ slug[e] \in Slugs \cup {None}
  BY <1>1 DEF LinkEditWhole, LinksTypeOK
<1>4. slug'[e] = s /\ \A f \in Entities \ {e} : slug'[f] = slug[f]
  BY <1>1, <1>3 DEF LinksTypeOK
<1>5. ~ UpsertMistaken(u) =>
        /\ history[s] \in {None, e} /\ old = IF slug[e] = s THEN None ELSE slug[e]
        /\ status[e] = "PUBLISHED" => remembers
  BY DEF UpsertMistaken, SlugAvailable, OldSlug
<1>6. disputed \subseteq disputed' /\ disputed' \subseteq Slugs
      /\ (UpsertMistaken(u) => ({s, old, slug[e]} \ {None}) \subseteq disputed')
  BY <1>1, <1>3 DEF LinksTypeOK
<1> HIDE DEF e, s, old
<1>7. /\ history' \in [Slugs -> Entities \cup {None}]
      /\ shown' \subseteq Slugs \X Entities /\ slug' \in [Entities -> Slugs \cup {None}]
  BY <1>1, <1>3 DEF Remembered, ShownAfter, Public, LinksTypeOK
<1>8. LinksTypeOK'
  BY <1>1, <1>2, <1>6, <1>7 DEF LinksTypeOK, LinkEditStates
<1>9. OneOwner'
  BY <1>1, <1>3, <1>4 DEF OneOwner
<1>10. \A t \in Slugs : \/ history'[t] = history[t]
                        \/ t = old /\ history[t] = None /\ history'[t] = e
  BY <1>1, <1>3 DEF Remembered, LinksTypeOK
<1>11. ASSUME NEW t \in Slugs, t \notin disputed'
       PROVE  /\ t \notin disputed
              /\ t = s => history[t] \in {None, e}
              /\ t = slug[e] /\ t # s => t = old /\ (status[e] = "PUBLISHED" => remembers)
              /\ t = old => slug[e] = t /\ t # s
  BY <1>3, <1>5, <1>6, <1>11 DEF Addressed
<1>12. ASSUME NEW f \in Entities, slug'[f] # None, slug'[f] \notin disputed'
       PROVE  history'[slug'[f]] \in {None, f}
  <2>1. CASE f = e
    BY <1>3, <1>4, <1>10, <1>11, <1>12, <2>1
  <2>2. CASE f # e
    <3>1. slug'[f] = slug[f] /\ slug[f] \in Slugs /\ slug[f] # slug[e]
      BY <1>3, <1>4, <1>12, <2>2 DEF OneOwner, LinksTypeOK
    <3>2. history[slug[f]] \in {None, f}
      BY <1>11, <1>12, <3>1 DEF NoDiversion
    <3> QED
      BY <1>10, <1>11, <1>12, <3>1, <3>2
  <2> QED
    BY <2>1, <2>2
<1>13. ASSUME NEW t \in Slugs, NEW f \in Entities, <<t, f>> \in shown'
       PROVE  /\ status'[f] # "DRAFT"
              /\ status'[f] = "PUBLISHED" /\ t \notin disputed' => slug'[f] = t \/ history'[t] = f
  <2>1. CASE <<t, f>> \notin shown
    BY <1>1, <1>13, <2>1 DEF ShownAfter, Public
  <2>2. CASE <<t, f>> \in shown
    <3>1. /\ status'[f] = status[f] /\ status[f] # "DRAFT"
          /\ status[f] = "PUBLISHED" /\ t \notin disputed => slug[f] = t \/ history[t] = f
      BY <1>1, <2>2 DEF StillLeads
    <3>2. ASSUME status[f] = "PUBLISHED", t \notin disputed'
          PROVE  slug'[f] = t \/ history'[t] = f
      <4>1. CASE slug[f] = t
        <5>1. CASE f # e
          BY <1>4, <4>1, <5>1
        <5>2. CASE f = e /\ t = s
          BY <1>4, <5>2
        <5>3. CASE f = e /\ t # s
          <6>1. t = old /\ remembers /\ history[t] \in {None, e}
            BY <1>11, <3>2, <4>1, <5>3 DEF NoDiversion, Addressed
          <6> QED
            BY <1>1, <5>3, <6>1 DEF Remembered, LinksTypeOK, Addressed
        <5> QED
          BY <5>1, <5>2, <5>3
      <4>2. CASE history[t] = f
        BY <1>10, <4>2 DEF Addressed
      <4> QED
        BY <1>11, <3>1, <3>2, <4>1, <4>2
    <3> QED
      BY <3>1, <3>2
  <2> QED
    BY <2>1, <2>2
<1> QED
  BY <1>2, <1>8, <1>9, <1>12, <1>13 DEF NoDiversion, StillLeads

LEMMA NextLinks ==
  ASSUME Addressed, LinksInv, [LinksNext]_linkVars
  PROVE  LinksInv'
<1>1. ASSUME NEW u \in Edits,
             \/ \E e \in Entities, s \in Slugs : ReadStatus(u, e, s)
             \/ CheckSlug(u) \/ LinkEditFails(u)
             \/ \E e \in Entities, target \in {"PUBLISHED", "ARCHIVED"} :
                  CheckTransition(u, e, target)
      PROVE  LinksInv'
  BY <1>1, ReadsKeepLinks
<1>2. ASSUME NEW u \in Edits, UpsertProductTranslation(u) \/ UpsertCollectionTranslation(u)
      PROVE  LinksInv'
  BY <1>2, UpsertKeepsLinks DEF UpsertProductTranslation, UpsertCollectionTranslation
<1>3. ASSUME NEW u \in Edits, UpsertCategoryTranslation(u)
      PROVE  LinksInv'
  BY <1>3, UpsertKeepsLinks DEF UpsertCategoryTranslation
<1>4. ASSUME NEW u \in Edits, TransitionProduct(u) \/ TransitionCollection(u)
      PROVE  LinksInv'
  BY <1>4, TransitionKeepsLinks DEF TransitionProduct, TransitionCollection
<1>5. ASSUME UNCHANGED linkVars
      PROVE  LinksInv'
  BY <1>5 DEF linkVars, LinksInv, LinksTypeOK, OneOwner, NoDiversion, StillLeads, LinkEditWhole
<1> QED
  BY <1>1, <1>2, <1>3, <1>4, <1>5 DEF LinksNext

LEMMA AddressesLead ==
  ASSUME Addressed, LinksInv
  PROVE  LinksNeverBreak
<1> SUFFICES ASSUME NEW l \in shown, Public(l[2], status, slug), l[1] \notin disputed
             PROVE  Resolved(l[1]) = {l[2]}
  BY DEF LinksNeverBreak
<1>1. PICK s \in Slugs, e \in Entities : l = <<s, e>>
  BY DEF LinksInv, LinksTypeOK
<1>2. /\ status[e] = "PUBLISHED" /\ slug[e] # None /\ l[1] = s /\ l[2] = e /\ s \notin disputed
      /\ slug[e] = s \/ history[s] = e
  BY <1>1 DEF LinksInv, StillLeads, Public
<1>3. \A f \in Entities : slug[f] = s => f = e
  BY <1>2 DEF LinksInv, OneOwner, NoDiversion, Addressed
<1> QED
  BY <1>1, <1>2, <1>3 DEF Resolved, Public

\* The inductive invariant of the addresses.
THEOREM LinksInvariant ==
  ASSUME Addressed
  PROVE  LinksSpec => []LinksInv
BY InitLinks, NextLinks, PTL DEF LinksSpec

\* CatalogService and its repository: a public address never stops to lead to its
\* entity, but for the slugs of upserts that acted on what was not true any more
\* and of archived entities that a late publication revived.
THEOREM AddressesNeverBreak ==
  ASSUME Addressed
  PROVE  LinksSpec => []LinksNeverBreak
<1>1. LinksInv => LinksNeverBreak
  BY AddressesLead
<1> QED
  BY <1>1, LinksInvariant, PTL

------------------------------------------------------------------------------
(* The root is no category.                                                *)
Rooted == Root \notin Categories /\ MaximumDepth \in Nat

TreePaths == [Categories -> Seq(Categories)]
EditPaths == {<<>>} \cup UNION {[D -> Seq(Categories)] : D \in SUBSET Categories}
EditStates ==
  [at : {"idle", "read", "written"}, category : Categories \cup {Root},
   parent : Categories \cup {Root}, paths : EditPaths]
TreeTypes ==
  /\ parents \in [Categories -> Categories \cup {Root}] /\ paths \in TreePaths
  /\ treeEdits \in [TreeEdits -> EditStates]

\* A path ends with its category, and is the path of its parent and it.
Spelt ==
  \A c \in Categories : Exists(c) =>
    /\ parents[c] # Root => Exists(parents[c])
    /\ paths[c] = PathUnder(parents[c], c)
    /\ Len(paths[c]) <= MaximumDepth

\* Every category on a path has the path up to it.
Begins(p, q) == Len(p) <= Len(q) /\ \A i \in 1..Len(p) : p[i] = q[i]
Ancestral ==
  \A c \in Categories : \A i \in 1..Len(paths[c]) :
    Len(paths[paths[c][i]]) = i /\ Begins(paths[paths[c][i]], paths[c])

(* What a transaction asked of the tree when it read it.                   *)
MayCreate(c, parent) ==
  /\ ~ Exists(c)
  /\ parent # Root => parent # c /\ Exists(parent)
  /\ Len(PathUnder(parent, c)) <= MaximumDepth

MayMove(c, parent) ==
  /\ c # parent /\ Exists(c)
  /\ parent # Root => Exists(parent) /\ ~ IsPrefix(paths[c], paths[parent])
  /\ \A h \in Heights(c) : Len(PathUnder(parent, c)) + h <= MaximumDepth

Fits(c, parent, rewritten) ==
  \/ MayCreate(c, parent) /\ rewritten = [d \in {c} |-> PathUnder(parent, c)]
  \/ MayMove(c, parent) /\ rewritten = Rewritten(c, PathUnder(parent, c))

EditIsCurrent(e) ==
  /\ treeEdits[e].category \in Categories
  /\ Fits(treeEdits[e].category, treeEdits[e].parent, treeEdits[e].paths)

EditsAreCurrent == \A e \in TreeEdits : treeEdits[e].at # "idle" => EditIsCurrent(e)

TreeInv ==
  /\ TreeTypes /\ interleaved \in BOOLEAN
  /\ ~ interleaved => Spelt /\ Ancestral /\ EditsAreCurrent

-----------------------------------------------------------------------------
LEMMA PrefixBegins ==
  ASSUME NEW S, NEW p \in Seq(S), NEW q \in Seq(S)
  PROVE  IsPrefix(p, q) <=> Begins(p, q)
<1>1. ASSUME IsPrefix(p, q)
      PROVE  Begins(p, q)
  BY <1>1 DEF IsPrefix, Begins
<1>2. ASSUME Begins(p, q)
      PROVE  IsPrefix(p, q)
  BY <1>2 DEF IsPrefix, Begins
<1> QED
  BY <1>1, <1>2

LEMMA PathUnderIs ==
  ASSUME TreeTypes, NEW c \in Categories, NEW parent \in Categories \cup {Root}
  PROVE  /\ PathUnder(parent, c) \in Seq(Categories) /\ Len(PathUnder(parent, c)) \in Nat \ {0}
         /\ parent = Root => Len(PathUnder(parent, c)) = 1
         /\ parent # Root =>
              /\ Len(PathUnder(parent, c)) = Len(paths[parent]) + 1
              /\ \A i \in 1..Len(paths[parent]) : PathUnder(parent, c)[i] = paths[parent][i]
         /\ PathUnder(parent, c)[Len(PathUnder(parent, c))] = c
BY DEF TreeTypes, TreePaths, PathUnder

LEMMA SamePath ==
  ASSUME NEW S, NEW p \in Seq(S), NEW q \in Seq(S), Len(p) = Len(q),
         \A i \in 1..Len(p) : p[i] = q[i]
  PROVE  p = q
OBVIOUS

LEMMA TailIs ==
  ASSUME NEW S, NEW p \in Seq(S), NEW k \in 0..Len(p)
  PROVE  LET tail == SubSeq(p, k + 1, Len(p)) IN
         /\ tail \in Seq(S) /\ Len(tail) = Len(p) - k
         /\ \A i \in 1..Len(p) - k : tail[i] = p[k + i]
<1> DEFINE tail == SubSeq(p, k + 1, Len(p))
<1>1. tail \in Seq(S)
  OBVIOUS
<1>2. Len(tail) = Len(p) - k
  OBVIOUS
<1>3. \A i \in 1..Len(p) - k : tail[i] = p[k + i]
  OBVIOUS
<1> QED
  BY <1>1, <1>2, <1>3

\* The sequence q with its first k elements replaced by a path.
Shifted(r, q, k, path) ==
  /\ Len(r) = Len(path) + Len(q) - k
  /\ \A i \in 1..Len(path) : r[i] = path[i]
  /\ \A i \in 1..Len(q) - k : r[Len(path) + i] = q[k + i]

LEMMA RewrittenIs ==
  ASSUME TreeTypes, NEW c \in Categories, NEW path \in Seq(Categories), NEW d \in {c} \cup Descendants(c)
  PROVE  /\ Rewritten(c, path)[d] \in Seq(Categories)
         /\ Shifted(Rewritten(c, path)[d], paths[d], Len(paths[c]), path)
<1> DEFINE tail == SubSeq(paths[d], Len(paths[c]) + 1, Len(paths[d]))
<1>1. /\ paths[c] \in Seq(Categories) /\ paths[d] \in Seq(Categories)
      /\ Len(paths[c]) <= Len(paths[d])
  BY PrefixBegins DEF TreeTypes, TreePaths, Descendants, Begins
<1>2. /\ tail \in Seq(Categories) /\ Len(tail) = Len(paths[d]) - Len(paths[c])
      /\ \A i \in 1..Len(tail) : tail[i] = paths[d][Len(paths[c]) + i]
  <2>1. Len(paths[c]) \in 0..Len(paths[d])
    BY <1>1
  <2>2. /\ tail \in Seq(Categories) /\ Len(tail) = Len(paths[d]) - Len(paths[c])
        /\ \A i \in 1..Len(paths[d]) - Len(paths[c]) : tail[i] = paths[d][Len(paths[c]) + i]
    BY <1>1, <2>1, TailIs
  <2> QED
    BY <2>2
<1>3. Rewritten(c, path)[d] = path \o tail
  BY DEF Rewritten
<1>4. Len(path) \in Nat /\ Len(tail) \in Nat /\ Len(paths[c]) \in Nat /\ Len(paths[d]) \in Nat
  BY <1>1, <1>2
<1> HIDE DEF tail
<1>5. /\ path \o tail \in Seq(Categories) /\ Len(path \o tail) = Len(path) + Len(tail)
      /\ \A i \in 1..Len(path) + Len(tail) :
           (path \o tail)[i] = IF i <= Len(path) THEN path[i] ELSE tail[i - Len(path)]
  BY <1>2, ConcatProperties
<1>6. Shifted(path \o tail, paths[d], Len(paths[c]), path)
  BY <1>2, <1>4, <1>5 DEF Shifted
<1> QED
  BY <1>3, <1>5, <1>6

LEMMA ShiftedBegin ==
  ASSUME NEW S, NEW q1 \in Seq(S), NEW q2 \in Seq(S), NEW r1 \in Seq(S), NEW r2 \in Seq(S),
         NEW k \in Nat, k <= Len(q1), NEW path \in Seq(S), Begins(q1, q2),
         Shifted(r1, q1, k, path), Shifted(r2, q2, k, path)
  PROVE  Begins(r1, r2)
<1> DEFINE n == Len(path)
<1>1. n \in Nat /\ Len(q1) \in Nat /\ Len(q2) \in Nat
  OBVIOUS
<1>2. Len(r1) = n + Len(q1) - k /\ Len(r2) = n + Len(q2) - k /\ Len(q1) <= Len(q2)
  BY DEF Shifted, Begins
<1> HIDE DEF n
<1>3. ASSUME NEW i \in 1..Len(r1)
      PROVE  r1[i] = r2[i]
  <2>1. CASE i <= n
    BY <1>1, <2>1 DEF Shifted, n
  <2>2. CASE i > n
    <3>1. PICK j \in 1..Len(q1) - k : i = n + j
      <4>1. i - n \in 1..Len(q1) - k /\ i = n + (i - n)
        BY <1>1, <1>2, <2>2
      <4> QED
        BY <4>1
    <3>2. j \in 1..Len(q2) - k /\ k + j \in 1..Len(q1)
      BY <1>1, <1>2
    <3>3. r1[n + j] = q1[k + j] /\ r2[n + j] = q2[k + j]
      BY <3>2 DEF Shifted, n
    <3>4. q1[k + j] = q2[k + j]
      BY <3>2 DEF Begins
    <3> QED
      BY <3>1, <3>3, <3>4
  <2> QED
    BY <1>1, <2>1, <2>2
<1>4. Len(r1) <= Len(r2)
  BY <1>1, <1>2
<1> QED
  BY <1>3, <1>4 DEF Begins

LEMMA ShiftedAppend ==
  ASSUME NEW S, NEW q \in Seq(S), NEW e \in S, NEW r1 \in Seq(S), NEW r2 \in Seq(S),
         NEW k \in Nat, k <= Len(q), NEW path \in Seq(S),
         Shifted(r1, q, k, path), Shifted(r2, Append(q, e), k, path)
  PROVE  r2 = Append(r1, e)
<1> DEFINE p == Append(q, e)
<1>1. p \in Seq(S) /\ Len(p) = Len(q) + 1 /\ p[Len(q) + 1] = e /\ Begins(q, p)
  BY DEF Begins
<1>2. Len(q) \in Nat /\ Len(path) \in Nat
  OBVIOUS
<1> HIDE DEF p
<1>3. Shifted(r2, p, k, path)
  BY DEF p
<1>4. Begins(r1, r2)
  BY <1>1, <1>3, ShiftedBegin
<1>5. Len(r2) = Len(r1) + 1
  BY <1>1, <1>2, <1>3 DEF Shifted
<1>6. r2[Len(r2)] = e
  <2> DEFINE j == Len(q) + 1 - k
  <2>1. j \in 1..Len(p) - k /\ k + j = Len(q) + 1 /\ Len(path) + j = Len(r2)
    BY <1>1, <1>2, <1>3 DEF Shifted
  <2> HIDE DEF j
  <2>2. r2[Len(path) + j] = p[k + j]
    BY <1>3, <2>1 DEF Shifted
  <2> QED
    BY <1>1, <2>1, <2>2
<1>7. ASSUME NEW i \in 1..Len(r2)
      PROVE  r2[i] = Append(r1, e)[i]
  <2>1. CASE i \in 1..Len(r1)
    BY <1>4, <2>1 DEF Begins
  <2>2. CASE i = Len(r1) + 1
    BY <1>5, <1>6, <2>2
  <2> QED
    BY <1>5, <2>1, <2>2
<1> QED
  BY <1>5, <1>7, SamePath

-----------------------------------------------------------------------------
LEMMA InitTree ==
  ASSUME Rooted, TreeInit
  PROVE  TreeInv
<1> USE DEF TreeInit
<1>1. TreeTypes
  BY DEF TreeTypes, TreePaths, NoEdit, EditStates, EditPaths
<1>2. Spelt /\ Ancestral /\ EditsAreCurrent
  BY DEF Spelt, Ancestral, EditsAreCurrent, Exists, NoEdit
<1> QED
  BY <1>1, <1>2 DEF TreeInv

(* What leaves the tree as it is.                                          *)
LEMMA FitsStill ==
  ASSUME UNCHANGED paths, NEW c, NEW parent, NEW rewritten
  PROVE  Fits(c, parent, rewritten)' = Fits(c, parent, rewritten)
<1>1. PathUnder(parent, c)' = PathUnder(parent, c)
  BY DEF PathUnder
<1>2. MayCreate(c, parent)' = MayCreate(c, parent) /\ MayMove(c, parent)' = MayMove(c, parent)
  BY DEF MayCreate, MayMove, Heights, Descendants, Exists, PathUnder
<1>3. Rewritten(c, PathUnder(parent, c))' = Rewritten(c, PathUnder(parent, c))
  BY <1>1 DEF Rewritten, Descendants, Exists
<1> QED
  BY <1>1, <1>2, <1>3 DEF Fits

LEMMA TreeStands ==
  ASSUME TreeInv, UNCHANGED <<parents, paths, interleaved>>, NEW e \in TreeEdits,
         NEW m \in EditStates, treeEdits' = [treeEdits EXCEPT ![e] = m],
         (~ interleaved /\ m.at # "idle") => EditIsCurrent(e)'
  PROVE  TreeInv'
<1>1. TreeTypes'
  BY DEF TreeInv, TreeTypes
<1>2. \A f \in TreeEdits : treeEdits'[f] = IF f = e THEN m ELSE treeEdits[f]
  BY DEF TreeInv, TreeTypes
<1>3. ASSUME ~ interleaved
      PROVE  Spelt' /\ Ancestral' /\ EditsAreCurrent'
  <2>1. Spelt' /\ Ancestral'
    BY <1>3 DEF TreeInv, Spelt, Ancestral, Exists, PathUnder, Begins
  <2>2. ASSUME NEW f \in TreeEdits, treeEdits'[f].at # "idle"
        PROVE  EditIsCurrent(f)'
    <3>1. CASE f = e
      BY <1>2, <1>3, <2>2, <3>1
    <3>2. CASE f # e
      <4>1. treeEdits'[f] = treeEdits[f] /\ EditIsCurrent(f)
        BY <1>2, <1>3, <2>2, <3>2 DEF TreeInv, EditsAreCurrent
      <4> QED
        BY <4>1, FitsStill DEF EditIsCurrent
    <3> QED
      BY <3>1, <3>2
  <2> QED
    BY <2>1, <2>2 DEF EditsAreCurrent
<1> QED
  BY <1>1, <1>3 DEF TreeInv

LEMMA ReadKeepsTree ==
  ASSUME Rooted, TreeInv, NEW e \in TreeEdits, NEW c \in Categories,
         NEW parent \in Categories \cup {Root},
         CreateCategory(e, c, parent) \/ MoveCategory(e, c, parent)
  PROVE  TreeInv'
<1> DEFINE path == PathUnder(parent, c)
<1>1. path \in Seq(Categories) /\ TreeTypes
  BY PathUnderIs DEF TreeInv
<1>2. PICK rewritten :
        /\ Read(e, c, parent, rewritten)
        /\ \/ MayCreate(c, parent) /\ rewritten = [d \in {c} |-> path]
           \/ MayMove(c, parent) /\ rewritten = Rewritten(c, path)
  BY DEF CreateCategory, MoveCategory, MayCreate, MayMove
<1> DEFINE m == [at |-> "read", category |-> c, parent |-> parent, paths |-> rewritten]
<1>3. rewritten \in EditPaths
  <2>1. CASE rewritten = [d \in {c} |-> path]
    <3>1. rewritten \in [{c} -> Seq(Categories)] /\ {c} \in SUBSET Categories
      BY <1>1, <2>1
    <3> QED
      BY <3>1 DEF EditPaths
  <2>2. CASE rewritten = Rewritten(c, path)
    <3> DEFINE D == {c} \cup Descendants(c)
    <3>1. D \in SUBSET Categories
      BY DEF Descendants
    <3>2. \A d \in D : Rewritten(c, path)[d] \in Seq(Categories)
      BY <1>1, RewrittenIs
    <3>3. Rewritten(c, path) = [d \in D |-> Rewritten(c, path)[d]]
      BY DEF Rewritten
    <3> HIDE DEF D
    <3>4. rewritten \in [D -> Seq(Categories)]
      BY <2>2, <3>2, <3>3
    <3> QED
      BY <3>1, <3>4 DEF EditPaths
  <2> QED
    BY <1>2, <2>1, <2>2
<1>4. /\ m \in EditStates /\ m.at = "read" /\ m.category = c /\ m.parent = parent
      /\ m.paths = rewritten
  BY <1>3 DEF EditStates
<1> HIDE DEF m
<1>5. treeEdits' = [treeEdits EXCEPT ![e] = m] /\ UNCHANGED <<parents, paths, interleaved>>
  BY <1>2 DEF Read, m
<1>6. treeEdits'[e] = m
  BY <1>5 DEF TreeInv, TreeTypes
<1>7. EditIsCurrent(e)'
  BY <1>2, <1>4, <1>5, <1>6, FitsStill DEF EditIsCurrent, Fits
<1> QED
  BY <1>4, <1>5, <1>7, TreeStands

LEMMA WriteKeepsTree ==
  ASSUME TreeInv, NEW e \in TreeEdits, Write(e) \/ Rollback(e)
  PROVE  TreeInv'
<1>1. CASE Write(e)
  <2> DEFINE m == [treeEdits[e] EXCEPT !.at = "written"]
  <2>1. treeEdits[e] \in EditStates
    BY DEF TreeInv, TreeTypes
  <2>2. /\ treeEdits' = [treeEdits EXCEPT ![e] = m] /\ treeEdits[e].at # "idle"
        /\ UNCHANGED <<parents, paths, interleaved>>
    BY <1>1 DEF Write
  <2>3. /\ m \in EditStates /\ m.category = treeEdits[e].category
        /\ m.parent = treeEdits[e].parent /\ m.paths = treeEdits[e].paths
    BY <2>1 DEF EditStates
  <2> HIDE DEF m
  <2>4. treeEdits'[e] = m
    BY <2>2 DEF TreeInv, TreeTypes
  <2>5. ASSUME ~ interleaved
        PROVE  EditIsCurrent(e)'
    <3>1. EditIsCurrent(e)
      BY <2>2, <2>5 DEF TreeInv, EditsAreCurrent
    <3> QED
      BY <2>2, <2>3, <2>4, <3>1, FitsStill DEF EditIsCurrent
  <2> QED
    BY <2>2, <2>3, <2>5, TreeStands
<1>2. CASE Rollback(e)
  <2>1. NoEdit \in EditStates /\ NoEdit.at = "idle"
    BY DEF NoEdit, EditStates, EditPaths
  <2> QED
    BY <1>2, <2>1, TreeStands DEF Rollback
<1> QED
  BY <1>1, <1>2

-----------------------------------------------------------------------------
(* What the paths say of the categories on them.                           *)
LEMMA OnAPath ==
  ASSUME TreeTypes, Ancestral, NEW d \in Categories, NEW i \in 1..Len(paths[d])
  PROVE  LET x == paths[d][i] IN
         /\ x \in Categories /\ Exists(x) /\ paths[x] \in Seq(Categories)
         /\ Len(paths[x]) = i /\ \A j \in 1..i : paths[x][j] = paths[d][j]
<1>1. paths[d] \in Seq(Categories) /\ paths[d][i] \in Categories
  BY DEF TreeTypes, TreePaths
<1>2. paths[paths[d][i]] \in Seq(Categories)
  BY <1>1 DEF TreeTypes, TreePaths
<1>3. Len(paths[paths[d][i]]) = i /\ \A j \in 1..i : paths[paths[d][i]][j] = paths[d][j]
  BY <1>1 DEF Ancestral, Begins
<1>4. Exists(paths[d][i])
  BY <1>2, <1>3 DEF Exists
<1> QED
  BY <1>1, <1>2, <1>3, <1>4

LEMMA EndsWithItself ==
  ASSUME TreeTypes, Spelt, NEW d \in Categories, Exists(d)
  PROVE  /\ paths[d] \in Seq(Categories) /\ Len(paths[d]) \in Nat \ {0}
         /\ paths[d][Len(paths[d])] = d
<1>1. parents[d] \in Categories \cup {Root} /\ paths[d] = PathUnder(parents[d], d)
  BY DEF Spelt, TreeTypes
<1>2. paths[d][Len(paths[d])] = d
  <2>1. PathUnder(parents[d], d)[Len(PathUnder(parents[d], d))] = d
    BY <1>1, PathUnderIs
  <2> QED
    BY <1>1, <2>1
<1>3. paths[d] \in Seq(Categories) /\ Len(paths[d]) \in Nat \ {0}
  BY DEF Exists, TreeTypes, TreePaths
<1> QED
  BY <1>2, <1>3

LEMMA CreateSpells ==
  ASSUME Rooted, TreeTypes, Spelt, Ancestral, NEW c \in Categories,
         NEW parent \in Categories \cup {Root}, MayCreate(c, parent),
         parents' = [parents EXCEPT ![c] = parent],
         paths' = [d \in Categories |-> IF d = c THEN PathUnder(parent, c) ELSE paths[d]]
  PROVE  Spelt' /\ Ancestral'
<1> DEFINE path == PathUnder(parent, c)
<1>1. /\ path \in Seq(Categories) /\ Len(path) <= MaximumDepth /\ path[Len(path)] = c
      /\ parent = Root => Len(path) = 1
      /\ parent # Root =>
           /\ Exists(parent) /\ parent # c /\ Len(path) = Len(paths[parent]) + 1
           /\ \A i \in 1..Len(paths[parent]) : path[i] = paths[parent][i]
  BY PathUnderIs DEF MayCreate
<1>2. /\ paths'[c] = path /\ parents'[c] = parent /\ ~ Exists(c)
      /\ \A d \in Categories \ {c} : paths'[d] = paths[d] /\ parents'[d] = parents[d]
  BY DEF TreeTypes, MayCreate
<1>3. PathUnder(parent, c)' = path
  BY <1>1, <1>2 DEF PathUnder
<1>4. Spelt'
  <2> SUFFICES ASSUME NEW d \in Categories, Exists(d)'
               PROVE  /\ parents'[d] # Root => Exists(parents[d])'
                      /\ paths'[d] = PathUnder(parents[d], d)'
                      /\ Len(paths'[d]) <= MaximumDepth
    BY DEF Spelt
  <2>1. CASE d = c
    BY <1>1, <1>2, <1>3, <2>1 DEF Exists, PathUnder
  <2>2. CASE d # c
    <3>1. /\ paths'[d] = paths[d] /\ parents'[d] = parents[d] /\ Exists(d)
          /\ parents[d] \in Categories \cup {Root}
      BY <1>2, <2>2 DEF Exists, TreeTypes
    <3>2. /\ parents[d] # Root => Exists(parents[d]) /\ parents[d] # c
          /\ paths[d] = PathUnder(parents[d], d) /\ Len(paths[d]) <= MaximumDepth
      BY <1>2, <3>1 DEF Spelt
    <3>3. parents[d] # Root => paths'[parents[d]] = paths[parents[d]]
      BY <1>2, <3>1, <3>2
    <3> QED
      BY <3>1, <3>2, <3>3 DEF Exists, PathUnder
  <2> QED
    BY <2>1, <2>2
<1> HIDE DEF path
<1>5. ASSUME NEW d \in Categories \ {c}, NEW i \in 1..Len(paths[d])
      PROVE  LET x == paths[d][i] IN
             /\ x # c /\ x \in Categories /\ paths'[x] = paths[x] /\ Len(paths[x]) = i
             /\ \A j \in 1..i : paths[x][j] = paths[d][j]
  BY <1>2, OnAPath
<1>6. ASSUME NEW d \in Categories, NEW i \in 1..Len(paths'[d])
      PROVE  LET x == paths'[d][i] IN
             Len(paths'[x]) = i /\ \A j \in 1..i : paths'[x][j] = paths'[d][j]
  <2>1. CASE d # c
    BY <1>2, <1>5, <2>1
  <2>2. CASE d = c /\ i = Len(path)
    BY <1>1, <1>2, <2>2
  <2>3. CASE d = c /\ i # Len(path)
    <3>1. parent # Root /\ i \in 1..Len(paths[parent]) /\ parent \in Categories \ {c}
      <4>1. paths[parent] \in Seq(Categories) \/ parent = Root
        BY DEF TreeTypes, TreePaths
      <4> QED
        BY <1>1, <1>2, <1>6, <2>3, <4>1
    <3>2. LET x == paths[parent][i] IN
          /\ paths'[x] = paths[x] /\ Len(paths[x]) = i
          /\ \A j \in 1..i : paths[x][j] = paths[parent][j]
      BY <1>5, <3>1
    <3>3. \A j \in 1..i : j \in 1..Len(paths[parent])
      BY <3>1 DEF TreeTypes, TreePaths
    <3> QED
      BY <1>1, <1>2, <2>3, <3>1, <3>2, <3>3
  <2> QED
    BY <2>1, <2>2, <2>3
<1>7. Ancestral'
  <2> SUFFICES ASSUME NEW d \in Categories, NEW i \in 1..Len(paths'[d])
               PROVE  LET x == paths'[d][i] IN Len(paths'[x]) = i /\ Begins(paths'[x], paths'[d])
    BY DEF Ancestral, Begins
  <2>1. Len(paths'[d]) \in Nat
    BY <1>1, <1>2 DEF TreeTypes, TreePaths
  <2> QED
    BY <1>6, <2>1 DEF Begins
<1> QED
  BY <1>4, <1>7

(* The categories whose paths a move rewrites are those below the one that *)
(* moves.                                                                  *)
LEMMA BelowIs ==
  ASSUME TreeTypes, NEW c \in Categories, Exists(c), NEW d \in Categories
  PROVE  d \in {c} \cup Descendants(c) <=> Exists(d) /\ Begins(paths[c], paths[d])
<1>1. paths[c] \in Seq(Categories) /\ paths[d] \in Seq(Categories)
  BY DEF TreeTypes, TreePaths
<1>2. IsPrefix(paths[c], paths[d]) <=> Begins(paths[c], paths[d])
  BY <1>1, PrefixBegins
<1>3. Begins(paths[c], paths[c])
  BY <1>1 DEF Begins
<1> QED
  BY <1>2, <1>3 DEF Descendants

LEMMA BelowParent ==
  ASSUME TreeTypes, Spelt, NEW c \in Categories, Exists(c), NEW d \in Descendants(c)
  PROVE  /\ parents[d] # Root /\ parents[d] \in {c} \cup Descendants(c)
         /\ paths[d] = Append(paths[parents[d]], d)
<1> DEFINE q == parents[d]
<1>1. /\ d \in Categories /\ Exists(d) /\ d # c /\ q \in Categories \cup {Root}
      /\ Begins(paths[c], paths[d])
  BY BelowIs DEF Descendants, TreeTypes
<1>2. /\ paths[c] \in Seq(Categories) /\ Len(paths[c]) \in Nat \ {0}
      /\ paths[c][Len(paths[c])] = c
      /\ paths[d] \in Seq(Categories) /\ Len(paths[d]) \in Nat \ {0}
      /\ paths[d][Len(paths[d])] = d
  BY <1>1, EndsWithItself
<1>3. Len(paths[c]) < Len(paths[d])
  BY <1>1, <1>2 DEF Begins
<1>4. q # Root /\ Exists(q) /\ paths[d] = Append(paths[q], d)
  <2>1. paths[d] = PathUnder(q, d) /\ (q # Root => Exists(q))
    BY <1>1 DEF Spelt
  <2>2. q # Root
    BY <1>2, <1>3, <2>1 DEF PathUnder
  <2> QED
    BY <2>1, <2>2 DEF PathUnder
<1>5. paths[q] \in Seq(Categories) /\ q \in Categories
  BY <1>1, <1>4 DEF TreeTypes, TreePaths
<1>6. Len(paths[d]) = Len(paths[q]) + 1 /\ \A i \in 1..Len(paths[q]) : paths[d][i] = paths[q][i]
  BY <1>4, <1>5
<1>7. Begins(paths[c], paths[q])
  BY <1>1, <1>2, <1>3, <1>5, <1>6 DEF Begins
<1> QED
  BY <1>4, <1>5, <1>7, BelowIs

\* The rows a move writes.
Moves(c, parent) ==
  /\ MayMove(c, parent)
  /\ parents' = [parents EXCEPT ![c] = parent]
  /\ paths' = [d \in Categories |-> IF d \in {c} \cup Descendants(c)
                                    THEN Rewritten(c, PathUnder(parent, c))[d] ELSE paths[d]]

LEMMA MovedPaths ==
  ASSUME TreeTypes, Spelt, NEW c \in Categories, NEW parent \in Categories \cup {Root}, Moves(c, parent)
  PROVE  LET path  == PathUnder(parent, c)
             Below == {c} \cup Descendants(c)
         IN /\ \A d \in Below :
                 /\ d \in Categories /\ paths'[d] \in Seq(Categories)
                 /\ Shifted(paths'[d], paths[d], Len(paths[c]), path)
                 /\ Begins(paths[c], paths[d])
            /\ \A d \in Categories \ Below : paths'[d] = paths[d]
            /\ paths'[c] = path
<1> DEFINE path  == PathUnder(parent, c)
           Below == {c} \cup Descendants(c)
<1>1. /\ Exists(c) /\ path \in Seq(Categories) /\ paths[c] \in Seq(Categories)
      /\ Below \subseteq Categories
  BY PathUnderIs DEF Moves, MayMove, TreeTypes, TreePaths, Descendants
<1>2. /\ \A d \in Below : paths'[d] = Rewritten(c, path)[d]
      /\ \A d \in Categories \ Below : paths'[d] = paths[d]
  BY <1>1 DEF Moves
<1>3. ASSUME NEW d \in Below
      PROVE  /\ d \in Categories /\ paths'[d] \in Seq(Categories)
             /\ Shifted(paths'[d], paths[d], Len(paths[c]), path)
             /\ Begins(paths[c], paths[d])
  BY <1>1, <1>2, RewrittenIs, BelowIs
<1>4. paths'[c] = path
  <2>1. Shifted(paths'[c], paths[c], Len(paths[c]), path) /\ paths'[c] \in Seq(Categories)
    BY <1>3
  <2>2. Len(paths'[c]) = Len(path) /\ \A i \in 1..Len(path) : paths'[c][i] = path[i]
    BY <1>1, <2>1 DEF Shifted
  <2> QED
    BY <1>1, <2>1, <2>2, SamePath
<1> QED
  BY <1>2, <1>3, <1>4

(* A category that is not below the one that moves has none on its path    *)
(* that is.                                                                *)
LEMMA NoneBelow ==
  ASSUME TreeTypes, Ancestral, NEW c \in Categories, Exists(c), NEW d \in Categories,
         d \notin {c} \cup Descendants(c), NEW i \in 1..Len(paths[d])
  PROVE  paths[d][i] \notin {c} \cup Descendants(c)
<1> DEFINE x == paths[d][i]
<1>1. /\ x \in Categories /\ Len(paths[x]) = i /\ \A j \in 1..i : paths[x][j] = paths[d][j]
  BY OnAPath
<1>2. /\ paths[d] \in Seq(Categories) /\ paths[c] \in Seq(Categories)
      /\ Len(paths[d]) \in Nat /\ Len(paths[c]) \in Nat /\ Exists(d)
  BY DEF TreeTypes, TreePaths, Exists
<1>3. ~ Begins(paths[c], paths[d])
  BY <1>2, BelowIs
<1> HIDE DEF x
<1>4. ~ Begins(paths[c], paths[x])
  BY <1>1, <1>2, <1>3 DEF Begins
<1> QED
  BY <1>1, <1>4, BelowIs DEF x

LEMMA MoveSpells ==
  ASSUME Rooted, TreeTypes, Spelt, NEW c \in Categories, Ancestral,
         NEW parent \in Categories \cup {Root}, Moves(c, parent)
  PROVE  Spelt'
<1> DEFINE path  == PathUnder(parent, c)
           Below == {c} \cup Descendants(c)
<1>1. /\ Exists(c) /\ c # parent
      /\ parent # Root => Exists(parent) /\ ~ IsPrefix(paths[c], paths[parent])
      /\ \A h \in Heights(c) : Len(path) + h <= MaximumDepth
  BY DEF Moves, MayMove
<1>2. /\ \A d \in Below :
           /\ d \in Categories /\ paths'[d] \in Seq(Categories)
           /\ Shifted(paths'[d], paths[d], Len(paths[c]), path)
           /\ Begins(paths[c], paths[d])
      /\ \A d \in Categories \ Below : paths'[d] = paths[d]
      /\ paths'[c] = path
  BY MovedPaths
<1>3. \A d \in Categories : paths[d] \in Seq(Categories) /\ Len(paths[d]) \in Nat
  BY DEF TreeTypes, TreePaths
<1>4. path \in Seq(Categories) /\ Len(path) \in Nat \ {0}
  BY PathUnderIs
<1>5. parents'[c] = parent /\ \A d \in Categories \ {c} : parents'[d] = parents[d]
  BY DEF Moves, TreeTypes
<1>6. parent # Root => parent \in Categories \ Below
  <2>1. parent # Root => ~ Begins(paths[c], paths[parent])
    BY <1>1, <1>3, PrefixBegins
  <2> QED
    BY <1>1, <2>1, BelowIs
<1>7. c \in Below
  OBVIOUS
<1>8. ASSUME NEW d \in Below
      PROVE  Exists(d)' /\ Len(paths'[d]) <= MaximumDepth
  <2>1. Len(paths[d]) - Len(paths[c]) \in Heights(c)
    BY <1>3 DEF Heights
  <2>2. Len(path) + (Len(paths[d]) - Len(paths[c])) <= MaximumDepth
    BY <1>1, <2>1
  <2>3. /\ Len(paths'[d]) = Len(path) + Len(paths[d]) - Len(paths[c])
        /\ Len(paths[d]) \in Nat /\ Len(paths[c]) \in Nat /\ Len(paths[c]) <= Len(paths[d])
    BY <1>2, <1>3 DEF Shifted, Begins
  <2>4. Len(paths'[d]) <= MaximumDepth /\ Len(paths'[d]) # 0
    <3>1. Len(paths'[d]) = Len(path) + (Len(paths[d]) - Len(paths[c]))
      BY <1>4, <2>3
    <3>2. Len(paths'[d]) <= MaximumDepth
      BY <2>2, <3>1
    <3>3. Len(paths[d]) - Len(paths[c]) \in Nat
      BY <2>3
    <3>4. Len(paths'[d]) # 0
      BY <1>4, <3>1, <3>3
    <3> QED
      BY <3>2, <3>4
  <2>5. paths'[d] # <<>>
    BY <2>4
  <2> QED
    BY <2>4, <2>5 DEF Exists
<1> HIDE DEF Below
<1>9. PathUnder(parent, c)' = path
  BY <1>2, <1>6 DEF PathUnder
<1> HIDE DEF path
<1> SUFFICES ASSUME NEW d \in Categories, Exists(d)'
             PROVE  /\ parents'[d] # Root => Exists(parents[d])'
                    /\ paths'[d] = PathUnder(parents[d], d)'
                    /\ Len(paths'[d]) <= MaximumDepth
  BY DEF Spelt
<1>10. CASE d = c
  <2>1. parent # Root => Exists(parent)'
    BY <1>1, <1>2, <1>6 DEF Exists
  <2>2. PathUnder(parents[c], c)' = PathUnder(parent, c)'
    BY <1>5 DEF PathUnder
  <2>3. parents'[c] # Root => Exists(parents[c])'
    BY <1>5, <2>1 DEF Exists
  <2> QED
    BY <1>2, <1>7, <1>8, <1>9, <1>10, <2>2, <2>3
<1>11. CASE d \in Below /\ d # c
  <2> DEFINE q == parents[d]
  <2>1. q # Root /\ q \in Below /\ paths[d] = Append(paths[q], d)
    BY <1>1, <1>11, BelowParent DEF Below
  <2>2. parents'[d] = q /\ paths'[q] # <<>>
    BY <1>5, <1>8, <1>11, <2>1 DEF Exists
  <2> HIDE DEF q
  <2>3. /\ paths[q] \in Seq(Categories) /\ paths'[q] \in Seq(Categories)
        /\ paths'[d] \in Seq(Categories) /\ Len(paths[c]) \in Nat
        /\ Len(paths[c]) <= Len(paths[q])
        /\ Shifted(paths'[q], paths[q], Len(paths[c]), path)
        /\ Shifted(paths'[d], Append(paths[q], d), Len(paths[c]), path)
    BY <1>2, <1>3, <1>11, <2>1 DEF Begins
  <2>4. paths'[d] = Append(paths'[q], d)
    BY <1>4, <2>3, ShiftedAppend
  <2>5. PathUnder(parents[d], d)' = Append(paths'[q], d)
    BY <2>1, <2>2 DEF PathUnder
  <2>6. Exists(parents[d])'
    BY <2>2 DEF Exists
  <2> QED
    BY <1>8, <1>11, <2>4, <2>5, <2>6
<1>12. CASE d \notin Below
  <2> DEFINE q == parents[d]
  <2>1. /\ paths'[d] = paths[d] /\ parents'[d] = q /\ Exists(d) /\ q \in Categories \cup {Root}
    BY <1>2, <1>5, <1>7, <1>12 DEF Exists, TreeTypes
  <2>2. /\ q # Root => Exists(q)
        /\ paths[d] = PathUnder(q, d) /\ Len(paths[d]) <= MaximumDepth
    BY <2>1 DEF Spelt
  <2> HIDE DEF q
  <2>3. ASSUME q # Root
        PROVE  q \notin Below
    <3>1. q \in Categories /\ paths[d] = Append(paths[q], d) /\ Exists(q)
      BY <2>1, <2>2, <2>3 DEF PathUnder
    <3>2. paths[q][Len(paths[q])] = q /\ Len(paths[q]) \in Nat \ {0} /\ paths[q] \in Seq(Categories)
      BY <3>1, EndsWithItself
    <3>3. paths[d][Len(paths[q])] = q /\ Len(paths[q]) \in 1..Len(paths[d])
      BY <3>1, <3>2
    <3> QED
      BY <1>1, <1>12, <3>3, NoneBelow DEF Below
  <2>4. q # Root => paths'[q] = paths[q]
    BY <1>2, <2>1, <2>3
  <2>5. PathUnder(parents[d], d)' = PathUnder(q, d) /\ (parents'[d] # Root => Exists(parents[d])')
    BY <2>1, <2>2, <2>4 DEF PathUnder, Exists
  <2> QED
    BY <2>1, <2>2, <2>5
<1> QED
  BY <1>10, <1>11, <1>12

LEMMA MoveIsAncestral ==
  ASSUME Rooted, TreeTypes, Spelt, NEW c \in Categories, Ancestral,
         NEW parent \in Categories \cup {Root}, Moves(c, parent)
  PROVE  Ancestral'
<1> DEFINE path  == PathUnder(parent, c)
           Below == {c} \cup Descendants(c)
           k == Len(paths[c])
           n == Len(path)
<1>1. Exists(c) /\ c # parent /\ (parent # Root => Exists(parent) /\ ~ IsPrefix(paths[c], paths[parent]))
  BY DEF Moves, MayMove
<1>2. /\ \A d \in Below :
           /\ d \in Categories /\ paths'[d] \in Seq(Categories)
           /\ Shifted(paths'[d], paths[d], k, path)
           /\ Begins(paths[c], paths[d])
      /\ \A d \in Categories \ Below : paths'[d] = paths[d]
      /\ paths'[c] = path
  BY MovedPaths
<1>3. \A d \in Categories : paths[d] \in Seq(Categories) /\ Len(paths[d]) \in Nat
  BY DEF TreeTypes, TreePaths
<1>4. /\ path \in Seq(Categories) /\ path[n] = c /\ n \in Nat /\ k \in Nat
      /\ parent = Root => n = 1
      /\ parent # Root => /\ n = Len(paths[parent]) + 1
                         /\ \A i \in 1..Len(paths[parent]) : path[i] = paths[parent][i]
  BY <1>3, PathUnderIs
<1>5. parent # Root => parent \in Categories \ Below
  <2>1. parent # Root => ~ Begins(paths[c], paths[parent])
    BY <1>1, <1>3, PrefixBegins
  <2> QED
    BY <1>1, <2>1, BelowIs
<1>6. ASSUME NEW d \in Categories \ Below, NEW i \in 1..Len(paths[d])
      PROVE  /\ paths'[paths[d][i]] = paths[paths[d][i]] /\ Len(paths[paths[d][i]]) = i
             /\ \A j \in 1..i : paths[paths[d][i]][j] = paths[d][j]
  <2>1. paths[d][i] \notin Below
    BY <1>1, NoneBelow
  <2> QED
    BY <1>2, <2>1, OnAPath
<1>7. \A x \in Categories : x \in Below <=> Exists(x) /\ Begins(paths[c], paths[x])
  BY <1>1, BelowIs
<1>8. c \in Below
  OBVIOUS
<1> HIDE DEF Below, path, k, n
<1> SUFFICES ASSUME NEW d \in Categories, NEW i \in 1..Len(paths'[d])
             PROVE  Len(paths'[paths'[d][i]]) = i /\ Begins(paths'[paths'[d][i]], paths'[d])
  BY DEF Ancestral
<1>9. CASE d \notin Below
  <2>1. paths'[d] = paths[d] /\ i \in 1..Len(paths[d]) /\ Len(paths[d]) \in Nat
    BY <1>2, <1>3, <1>9
  <2> QED
    BY <1>6, <1>9, <2>1 DEF Begins
<1>10. CASE d \in Below
  <2>1. /\ paths'[d] \in Seq(Categories) /\ Shifted(paths'[d], paths[d], k, path)
        /\ Begins(paths[c], paths[d]) /\ Len(paths'[d]) \in Nat /\ Len(paths'[d]) >= n
    <3>1. /\ paths'[d] \in Seq(Categories) /\ Shifted(paths'[d], paths[d], k, path)
          /\ Begins(paths[c], paths[d])
      BY <1>2, <1>10
    <3>2. Len(paths'[d]) = n + Len(paths[d]) - k /\ k <= Len(paths[d])
      BY <3>1 DEF Shifted, Begins, k, n
    <3>3. Len(paths'[d]) \in Nat /\ Len(paths'[d]) >= n
      BY <1>3, <1>4, <3>1, <3>2
    <3> QED
      BY <3>1, <3>3
  <2>2. \A j \in 1..n : paths'[d][j] = path[j]
    BY <2>1 DEF Shifted, n
  <2>3. CASE i < n
    <3>1. parent # Root /\ i \in 1..Len(paths[parent]) /\ parent \in Categories \ Below
      BY <1>3, <1>4, <1>5, <2>1, <2>3
    <3>2. paths'[d][i] = paths[parent][i] /\ \A j \in 1..i : paths'[d][j] = paths[parent][j]
      <4>1. ASSUME NEW j \in 1..i
            PROVE  j \in 1..n /\ j \in 1..Len(paths[parent])
        BY <1>3, <1>4, <2>3, <3>1
      <4>2. \A j \in 1..i : paths'[d][j] = path[j]
        BY <2>2, <4>1
      <4>3. \A j \in 1..i : path[j] = paths[parent][j]
        BY <1>4, <3>1, <4>1
      <4>4. i \in 1..i
        BY <3>1, <1>3
      <4> QED
        BY <4>2, <4>3, <4>4
    <3>3. /\ paths'[paths[parent][i]] = paths[paths[parent][i]] /\ Len(paths[paths[parent][i]]) = i
          /\ \A j \in 1..i : paths[paths[parent][i]][j] = paths[parent][j]
      BY <1>6, <3>1
    <3> QED
      BY <2>1, <3>2, <3>3 DEF Begins
  <2>4. CASE i = n
    <3>1. paths'[d][i] = c
      BY <1>4, <2>2, <2>4
    <3> QED
      BY <1>2, <2>1, <2>2, <2>4, <3>1 DEF Begins, n
  <2>5. CASE i > n
    <3>1. PICK m \in 1..Len(paths[d]) - k : i = n + m
      <4>1. i - n \in 1..Len(paths[d]) - k /\ i = n + (i - n)
        BY <1>3, <1>4, <2>1, <2>5 DEF Shifted, n
      <4> QED
        BY <4>1
    <3>2. paths'[d][i] = paths[d][k + m]
      BY <2>1, <3>1 DEF Shifted, n
    <3>3. k + m \in 1..Len(paths[d])
      BY <1>3, <1>4
    <3> DEFINE x == paths[d][k + m]
    <3>4. /\ x \in Categories /\ Exists(x) /\ Len(paths[x]) = k + m
          /\ \A j \in 1..k + m : paths[x][j] = paths[d][j]
      BY <3>3, OnAPath
    <3> HIDE DEF x
    <3>5. Begins(paths[x], paths[d]) /\ Begins(paths[c], paths[x]) /\ k <= Len(paths[x])
      BY <1>3, <1>4, <2>1, <3>3, <3>4 DEF Begins, k
    <3>6. x \in Below
      BY <1>7, <3>4, <3>5
    <3>7. Shifted(paths'[x], paths[x], k, path) /\ paths'[x] \in Seq(Categories)
      BY <1>2, <3>6
    <3>8. Len(paths'[x]) = i
      BY <1>4, <3>1, <3>4, <3>7 DEF Shifted, n
    <3>9. Begins(paths'[x], paths'[d])
      BY <1>3, <1>4, <2>1, <3>4, <3>5, <3>7, ShiftedBegin
    <3> QED
      BY <3>2, <3>8, <3>9 DEF x
  <2> QED
    BY <1>4, <2>3, <2>4, <2>5
<1> QED
  BY <1>9, <1>10

LEMMA CommitKeepsTree ==
  ASSUME Rooted, TreeInv, NEW e \in TreeEdits, Commit(e)
  PROVE  TreeInv'
<1> DEFINE edit == treeEdits[e]
           c == edit.category
           parent == edit.parent
<1>1. /\ edit.at = "written"
      /\ parents' = [parents EXCEPT ![c] = parent]
      /\ paths' = [d \in Categories |-> IF d \in DOMAIN edit.paths THEN edit.paths[d] ELSE paths[d]]
      /\ interleaved' = (interleaved \/ \E f \in TreeEdits \ {e} : treeEdits[f].at # "idle")
      /\ treeEdits' = [treeEdits EXCEPT ![e] = NoEdit]
  BY DEF Commit
<1>2. edit \in EditStates /\ TreeTypes
  BY DEF TreeInv, TreeTypes
<1>3. NoEdit \in EditStates /\ NoEdit.at = "idle"
  BY DEF NoEdit, EditStates, EditPaths
<1>4. TreeTypes'
  <2>1. parents' \in [Categories -> Categories \cup {Root}]
    BY <1>1, <1>2 DEF TreeTypes, EditStates
  <2>2. \A d \in DOMAIN edit.paths : edit.paths[d] \in Seq(Categories)
    BY <1>2 DEF EditStates, EditPaths
  <2>3. paths' \in TreePaths
    BY <1>1, <1>2, <2>2 DEF TreeTypes, TreePaths
  <2>4. treeEdits' \in [TreeEdits -> EditStates]
    BY <1>1, <1>2, <1>3 DEF TreeTypes
  <2> QED
    BY <2>1, <2>3, <2>4 DEF TreeTypes
<1>5. interleaved' \in BOOLEAN
  BY <1>1
<1>6. ASSUME ~ interleaved'
      PROVE  Spelt' /\ Ancestral' /\ EditsAreCurrent'
  <2>1. ~ interleaved /\ \A f \in TreeEdits \ {e} : treeEdits[f].at = "idle"
    BY <1>1, <1>6 DEF TreeInv
  <2>2. Spelt /\ Ancestral /\ EditIsCurrent(e)
    BY <1>1, <2>1 DEF TreeInv, EditsAreCurrent
  <2>3. EditsAreCurrent'
    BY <1>1, <1>2, <1>3, <2>1 DEF EditsAreCurrent, TreeTypes
  <2>4. c \in Categories /\ parent \in Categories \cup {Root}
    BY <1>2, <2>2 DEF EditIsCurrent, EditStates
  <2>5. CASE MayCreate(c, parent) /\ edit.paths = [d \in {c} |-> PathUnder(parent, c)]
    <3>1. paths' = [d \in Categories |-> IF d = c THEN PathUnder(parent, c) ELSE paths[d]]
      BY <1>1, <2>5
    <3> HIDE DEF edit, c, parent
    <3>2. Spelt' /\ Ancestral'
      BY <1>1, <1>2, <2>2, <2>4, <2>5, <3>1, CreateSpells
    <3> QED
      BY <2>3, <3>2
  <2>6. CASE MayMove(c, parent) /\ edit.paths = Rewritten(c, PathUnder(parent, c))
    <3>1. DOMAIN edit.paths = {c} \cup Descendants(c)
      BY <2>6 DEF Rewritten
    <3>2. Moves(c, parent)
      BY <1>1, <2>6, <3>1 DEF Moves
    <3> HIDE DEF edit, c, parent
    <3>3. Spelt' /\ Ancestral'
      BY <1>2, <2>2, <2>4, <3>2, MoveSpells, MoveIsAncestral
    <3> QED
      BY <2>3, <3>3
  <2> QED
    BY <2>2, <2>5, <2>6 DEF EditIsCurrent, Fits
<1> QED
  BY <1>4, <1>5, <1>6 DEF TreeInv

LEMMA NextTree ==
  ASSUME Rooted, TreeInv, [TreeNext]_treeVars
  PROVE  TreeInv'
<1>1. CASE UNCHANGED treeVars
  <2>1. UNCHANGED <<parents, paths, treeEdits, interleaved>>
    BY <1>1 DEF treeVars
  <2>2. TreeTypes' /\ (~ interleaved => Spelt /\ Ancestral)'
    BY <2>1 DEF TreeInv, TreeTypes, Spelt, Ancestral, Exists, PathUnder, Begins
  <2>3. (~ interleaved => EditsAreCurrent)'
    BY <2>1, FitsStill DEF TreeInv, EditsAreCurrent, EditIsCurrent
  <2> QED
    BY <2>1, <2>2, <2>3 DEF TreeInv
<1> QED
  BY <1>1, ReadKeepsTree, WriteKeepsTree, CommitKeepsTree DEF TreeNext

LEMMA PathsAreChains ==
  ASSUME TreeInv
  PROVE  PathsSpellTheTree
<1> SUFFICES ASSUME ~ interleaved, NEW c \in Categories, Exists(c)
             PROVE  /\ paths[c] = PathUnder(parents[c], c)
                    /\ Len(paths[c]) <= MaximumDepth
                    /\ IsInjective(paths[c])
  BY DEF PathsSpellTheTree
<1>1. Spelt /\ Ancestral /\ TreeTypes
  BY DEF TreeInv
<1>2. \A i \in 1..Len(paths[c]) : Len(paths[paths[c][i]]) = i
  BY <1>1 DEF Ancestral
<1>3. DOMAIN paths[c] = 1..Len(paths[c])
  BY <1>1 DEF TreeTypes, TreePaths
<1>4. IsInjective(paths[c])
  BY <1>2, <1>3 DEF IsInjective
<1> QED
  BY <1>1, <1>4 DEF Spelt

\* The inductive invariant of the tree.
THEOREM TreeInvariant ==
  ASSUME Rooted
  PROVE  TreeSpec => []TreeInv
BY InitTree, NextTree, PTL DEF TreeSpec

------------------------------------------------------------------------------
(* Amounts, quantities, values and rates are numbers of units, and a basis *)
(* point is a part of the whole.                                           *)
Payable ==
  /\ IsFiniteSet(Lines) /\ Lines \subseteq Nat
  /\ Quantities \subseteq Nat /\ Amounts \subseteq Nat
  /\ BasisPoints \in Nat \ {0}
  /\ \A k \in CouponKinds : k.value \in Nat /\ k.cap \in Nat
                            /\ k.type \in {"FREE_SHIPPING", "PERCENT", "FIXED"}
  /\ \A r \in TaxRates : r.bps \in Nat
  /\ IsFiniteSet(Confirms) /\ UsageLimitTotal \in Nat /\ UsageLimitPerUser \in Nat

\* Rows are what staff can have made of them.
RowsPayable ==
  /\ \A p \in prices : p.amount \in Amounts
  /\ rates \subseteq TaxRates
  /\ DOMAIN coupon = {"kind", "usedCount"} /\ coupon.kind \in CouponKinds
  /\ coupon.usedCount \in Nat

\* One confirmation has the coupon in hand, its redemption is not there yet, and
\* what it read of the limits after it had the lock is still so.
LockHeld ==
  /\ redeemed \subseteq Confirms /\ stage \in [Confirms -> {"idle", "priced", "redeemed"}]
  /\ \A c, d \in UnderWay : c = d
  /\ \A c \in UnderWay : c \notin redeemed
  /\ \A c \in Confirms : stage[c] = "redeemed" => UsesLeft(c)

PricingInv == RowsPayable /\ LockHeld /\ CouponWithinLimits /\ SaleIsExact

-----------------------------------------------------------------------------
LEMMA CouponEffectIs ==
  ASSUME Payable, NEW k \in CouponKinds, NEW s \in Nat
  PROVE  CouponEffect(k, s) \in Nat /\ CouponEffect(k, s) <= s
<1>1. ASSUME NEW n \in Nat, NEW d \in Nat, d > 0
      PROVE  DivideRoundHalfUp(n, d) \in Nat
  <2>1. d \div 2 \in Nat
    BY Quotient
  <2>2. n + d \div 2 \in Nat
    BY <2>1
  <2> QED BY <1>1, <2>2, Quotient DEF DivideRoundHalfUp
<1> DEFINE q == s * k.value
<1>2. q \in Nat
  BY TimesSum DEF Payable
<1> HIDE DEF q
<1>3. DivideRoundHalfUp(q, BasisPoints) \in Nat
  BY <1>1, <1>2 DEF Payable
<1>4. k.value \in Nat /\ k.cap \in Nat /\ k.type \in {"FREE_SHIPPING", "PERCENT", "FIXED"}
  BY DEF Payable
<1>5. CouponEffect(k, s) \in {Least(s, Least(0, k.cap)),
         Least(s, Least(DivideRoundHalfUp(q, BasisPoints), k.cap)),
         Least(s, Least(k.value, k.cap))}
  BY <1>4 DEF CouponEffect, q
<1> QED BY <1>3, <1>4, <1>5 DEF Least

\* Sums over the lines of numbers of units are numbers of units.
LEMMA Units ==
  ASSUME Payable, NEW f, NEW P \in SUBSET Lines, \A l \in P : f[l] \in Nat
  PROVE  SumFunctionOnSet(f, P) \in Nat /\ IsFiniteSet(P)
BY SumNat, FS_Subset DEF Payable

\* The order of a set of lines.
LEMMA LinesInOrder ==
  ASSUME Payable, NEW P \in SUBSET Lines
  PROVE  TotallyOrdered(P, [l \in P |-> {k \in P : k < l}])
<1> DEFINE before == [l \in P |-> {k \in P : k < l}]
<1>1. P \subseteq Nat
  BY DEF Payable
<1>2. \A x, y \in P : x \in before[y] <=> x < y
  OBVIOUS
<1>3. before \in [P -> SUBSET P]
  OBVIOUS
<1> HIDE DEF before
<1>4. \A x, y \in P : x < y \/ y < x \/ x = y
  BY <1>1
<1>5. \A x \in P : x \notin before[x]
  BY <1>1, <1>2
<1>6. ASSUME NEW x \in P, NEW y \in P, x \in before[y], NEW z \in before[x]
      PROVE  z \in before[y]
  BY <1>1, <1>2, <1>3, <1>6
<1> QED BY <1>2, <1>3, <1>4, <1>5, <1>6 DEF TotallyOrdered

\* The order of the lines by what was left over.
LEMMA RemaindersInOrder ==
  ASSUME Payable, NEW left, \A l \in Lines : left[l] \in Nat
  PROVE  TotallyOrdered(Lines, [l \in Lines |->
           {k \in Lines : left[k] > left[l] \/ (left[k] = left[l] /\ k < l)}])
<1> DEFINE before == [l \in Lines |->
             {k \in Lines : left[k] > left[l] \/ (left[k] = left[l] /\ k < l)}]
<1>1. Lines \subseteq Nat
  BY DEF Payable
<1>2. \A x, y \in Lines : x \in before[y] <=> left[x] > left[y] \/ (left[x] = left[y] /\ x < y)
  OBVIOUS
<1>3. before \in [Lines -> SUBSET Lines]
  OBVIOUS
<1> HIDE DEF before
<1>4. \A x, y \in Lines : x = y \/ x \in before[y] \/ y \in before[x]
  BY <1>1, <1>2
<1>5. \A x \in Lines : x \notin before[x]
  BY <1>1, <1>2
<1>6. ASSUME NEW x \in Lines, NEW y \in Lines, x \in before[y], NEW z \in before[x]
      PROVE  z \in before[y]
  <2>1. z \in Lines
    BY <1>3, <1>6
  <2>2. z \in Nat /\ x \in Nat /\ y \in Nat /\ left[x] \in Nat /\ left[y] \in Nat /\ left[z] \in Nat
    BY <1>1, <2>1
  <2> QED BY <1>2, <1>6, <2>1, <2>2
<1>7. TotallyOrdered(Lines, before)
  BY <1>3, <1>4, <1>5, <1>6 DEF TotallyOrdered
<1> QED BY <1>7 DEF before

-----------------------------------------------------------------------------
\* What the allocation of a discount promises.
Allocated(subtotal, eligible, discount, shares) ==
  LET S == SumFunctionOnSet(subtotal, eligible) IN
  /\ SumFunctionOnSet(shares, Lines) = discount
  /\ \A l \in Lines :
       /\ shares[l] \in Nat /\ shares[l] <= subtotal[l]
       /\ l \notin eligible => shares[l] = 0
       /\ l \in eligible /\ S > 0 => WithinOneUnit(shares[l], discount, subtotal[l], S)

LEMMA AllocationIsExact ==
  ASSUME Payable, NEW subtotal \in [Lines -> Nat], NEW eligible \in SUBSET Lines,
         NEW discount \in Nat, discount <= SumFunctionOnSet(subtotal, eligible)
  PROVE  Allocated(subtotal, eligible, discount, Allocation(subtotal, eligible, discount))
<1> DEFINE S == SumFunctionOnSet(subtotal, eligible)
           paying == {l \in eligible : subtotal[l] > 0}
           shares == Allocation(subtotal, eligible, discount)
           before == [l \in paying |-> {k \in paying : k < l}]
           base == [l \in paying |-> (discount * subtotal[l]) \div S]
           rest == discount - SumFunctionOnSet(base, paying)
<1>1. paying \in SUBSET Lines /\ IsFiniteSet(paying) /\ IsFiniteSet(eligible) /\ IsFiniteSet(Lines)
  BY FS_Subset DEF Payable
<1>2. S \in Nat
  BY Units
<1>3. Sum(Restrict(subtotal, eligible)) = S
  <2>1. DOMAIN Restrict(subtotal, eligible) = eligible
        /\ \A l \in eligible : Restrict(subtotal, eligible)[l] = subtotal[l]
    BY DEF Restrict
  <2> QED BY <1>1, <2>1, SumSame DEF Sum
<1>4. SumFunctionOnSet(subtotal, paying) = S
  <2>1. \A l \in eligible : subtotal[l] \in Nat /\ (l \notin paying => subtotal[l] = 0)
    OBVIOUS
  <2> QED BY <1>1, <2>1, SumSupport
<1>5. shares = [l \in Lines |-> IF l \in paying /\ discount > 0
                 THEN base[l] + (IF Cardinality({k \in paying : k < l}) < rest THEN 1 ELSE 0) ELSE 0]
  BY <1>3 DEF Allocation, Sum
<1>6. CASE discount = 0
  <2>1. \A l \in Lines : shares[l] = 0
    BY <1>5, <1>6
  <2>2. SumFunctionOnSet(shares, Lines) = 0
    <3> DEFINE zero == [l \in Lines |-> 0]
    <3>1. \A l \in Lines : shares[l] = zero[l]
      BY <2>1
    <3> HIDE DEF zero, shares
    <3> QED BY <1>1, <3>1, SumSame, SumZero DEF zero
  <2>3. \A l \in Lines : WithinOneUnit(0, 0, subtotal[l], S)
    BY <1>2 DEF WithinOneUnit
  <2> HIDE DEF S, shares
  <2> QED BY <1>6, <2>1, <2>2, <2>3 DEF Allocated, S, shares
<1>7. CASE discount > 0
  <2>1. S > 0 /\ S # 0
    BY <1>2, <1>7
  <2>2. Portions(paying, subtotal, discount, S, before, shares)
    BY <1>1, <1>5, <1>7 DEF Portions
  <2>3. TotallyOrdered(paying, before)
    BY <1>1, LinesInOrder
  <2> HIDE DEF S, paying, shares, before
  <2>4. \A l \in paying : subtotal[l] \in Nat /\ subtotal[l] > 0
    BY <1>1 DEF paying
  <2>5. /\ SumFunctionOnSet(shares, paying) = discount
        /\ \A l \in paying :
             /\ shares[l] \in Nat
             /\ shares[l] * S - discount * subtotal[l] <= S
             /\ discount * subtotal[l] - shares[l] * S <= S
             /\ discount <= S /\ subtotal[l] > 0 => shares[l] <= subtotal[l]
    BY <1>1, <1>4, <2>1, <2>2, <2>3, <2>4, PortionsSum
  <2>6. \A l \in Lines \ paying : shares[l] = 0
    BY <1>5
  <2>7. \A l \in Lines : shares[l] \in Nat
    BY <2>5, <2>6
  <2>8. SumFunctionOnSet(shares, Lines) = discount
    BY <1>1, <2>5, <2>6, <2>7, SumSupport
  <2>9. \A l \in Lines : shares[l] <= subtotal[l] /\ (l \notin eligible => shares[l] = 0)
    BY <2>4, <2>5, <2>6 DEF S, paying
  <2>10. ASSUME NEW l \in eligible
         PROVE  WithinOneUnit(shares[l], discount, subtotal[l], S)
    <3>1. CASE l \in paying
      <4>1. shares[l] * S \in Int /\ discount * subtotal[l] \in Int
        BY <1>1, <1>2, <2>4, <2>5, <3>1
      <4> QED BY <1>2, <2>5, <3>1, <4>1 DEF WithinOneUnit
    <3>2. CASE l \notin paying
      <4>1. subtotal[l] = 0 /\ shares[l] = 0
        BY <2>6, <3>2 DEF paying
      <4> QED BY <1>2, <4>1 DEF WithinOneUnit
    <3> QED BY <3>1, <3>2
  <2> QED BY <2>7, <2>8, <2>9, <2>10 DEF Allocated, S, shares
<1> QED BY <1>6, <1>7

LEMMA TaxIs ==
  ASSUME Payable, NEW rate \in TaxRates, NEW amount \in Nat
  PROVE  Tax(amount, rate) \in Nat /\ (amount = 0 => Tax(amount, rate) = 0)
<1> DEFINE d == IF rate.inclusive THEN BasisPoints + rate.bps ELSE BasisPoints
           n == amount * rate.bps
<1>1. d \in Nat /\ d > 0 /\ rate.bps \in Nat
  BY DEF Payable
<1>2. n \in Nat /\ (amount = 0 => n = 0)
  BY <1>1, TimesSum
<1>3. Tax(amount, rate) = (n + d \div 2) \div d
  BY DEF Tax, DivideRoundHalfUp
<1> HIDE DEF d, n
<1>4. d \div 2 \in Nat /\ d % 2 \in 0..1 /\ d = 2 * (d \div 2) + (d % 2)
  BY <1>1, Quotient
<1>5. n + d \div 2 \in Nat
  BY <1>2, <1>4
<1> DEFINE m == n + d \div 2
           q == m \div d
           r == m % d
<1>6. q \in Nat /\ r \in 0..d - 1 /\ m = d * q + r
  BY <1>1, <1>5, Quotient
<1>7. ASSUME n = 0
      PROVE  q = 0
  <2>1. m < d * 1 /\ m \in Nat
    BY <1>1, <1>4, <1>5, <1>7
  <2> HIDE DEF m, q, r
  <2>2. d * q < d * 1
    BY <1>1, <1>6, <2>1
  <2>3. q < 1
    BY <1>1, <1>6, <2>2, Factors
  <2> QED BY <1>6, <2>3
<1> QED BY <1>2, <1>3, <1>6, <1>7

\* What the distribution of a tax promises.
Distributed(amounts, tax, shares) ==
  LET W == SumFunctionOnSet(amounts, Lines) IN
  /\ SumFunctionOnSet(shares, Lines) = tax
  /\ W > 0 => \A l \in Lines : WithinOneUnit(shares[l], tax, amounts[l], W)

LEMMA TaxSharesAreExact ==
  ASSUME Payable, NEW amounts \in [Lines -> Nat], NEW tax \in Nat,
         SumFunctionOnSet(amounts, Lines) = 0 => tax = 0
  PROVE  Distributed(amounts, tax, TaxShares(amounts, tax))
<1> DEFINE W == SumFunctionOnSet(amounts, Lines)
           shares == TaxShares(amounts, tax)
           left == [l \in Lines |-> (tax * amounts[l]) % W]
           before == [l \in Lines |->
             {k \in Lines : left[k] > left[l] \/ (left[k] = left[l] /\ k < l)}]
<1>1. W \in Nat /\ IsFiniteSet(Lines)
  BY SumNat DEF Payable
<1>2. CASE W = 0 \/ tax = 0
  <2>1. tax = 0
    BY <1>2
  <2>2. shares = [l \in Lines |-> 0]
    BY <2>1 DEF TaxShares
  <2>3. SumFunctionOnSet(shares, Lines) = 0
    BY <1>1, <2>2, SumZero
  <2>4. \A l \in Lines : WithinOneUnit(0, 0, amounts[l], W)
    BY <1>1 DEF WithinOneUnit
  <2> HIDE DEF W, shares
  <2> QED BY <2>1, <2>2, <2>3, <2>4 DEF Distributed, W, shares
<1>3. CASE W # 0 /\ tax # 0
  <2>1. \A l \in Lines : left[l] \in Nat
    <3> TAKE l \in Lines
    <3>1. tax * amounts[l] \in Nat
      BY TimesSum
    <3> QED BY <1>1, <1>3, <3>1, Quotient
  <2>2. TotallyOrdered(Lines, before)
    <3> HIDE DEF left
    <3> QED BY <2>1, RemaindersInOrder
  <2>3. Portions(Lines, amounts, tax, W, before, shares)
    <3>1. Sum(amounts) = W
      BY DEF Sum
    <3> QED BY <1>3, <3>1 DEF Portions, TaxShares, Sum
  <2> HIDE DEF W, shares, before
  <2>4. /\ SumFunctionOnSet(shares, Lines) = tax
        /\ \A l \in Lines :
             /\ shares[l] \in Nat
             /\ shares[l] * W - tax * amounts[l] <= W
             /\ tax * amounts[l] - shares[l] * W <= W
    BY <1>1, <1>3, <2>2, <2>3, PortionsSum DEF W
  <2>5. ASSUME NEW l \in Lines
        PROVE  WithinOneUnit(shares[l], tax, amounts[l], W)
    <3>1. shares[l] * W \in Int /\ tax * amounts[l] \in Int
      BY <1>1, <2>4
    <3> QED BY <1>1, <2>4, <3>1 DEF WithinOneUnit
  <2> QED BY <2>4, <2>5 DEF Distributed, W, shares
<1> QED BY <1>2, <1>3

LEMMA PricedIsExact ==
  ASSUME Payable, coupon.kind \in CouponKinds, NEW subtotal \in [Lines -> Nat],
         NEW rate \in TaxRates, sale' = Priced(subtotal, rate)
  PROVE  SaleIsExact'
<1> DEFINE eligible == Eligible(coupon.kind)
           S == SumFunctionOnSet(subtotal, eligible)
           discount == CouponEffect(coupon.kind, Sum(Restrict(subtotal, eligible)))
           shares == Allocation(subtotal, eligible, discount)
           total == [l \in Lines |-> subtotal[l] - shares[l]]
           tax == Tax(Sum(total), rate)
           taxShares == TaxShares(total, tax)
<1>1. /\ sale'.subtotal = subtotal /\ sale'.eligible = eligible /\ sale'.discount = discount
      /\ sale'.shares = shares /\ sale'.total = total /\ sale'.tax = tax
      /\ sale'.taxShares = taxShares
  BY DEF Priced
<1>2. eligible \in SUBSET Lines
  BY DEF Eligible
<1>3. DOMAIN shares = Lines /\ DOMAIN taxShares = Lines
  BY DEF Allocation, TaxShares
<1> HIDE DEF eligible
<1>4. S \in Nat /\ IsFiniteSet(eligible)
  BY <1>2, Units
<1>5. Sum(Restrict(subtotal, eligible)) = S
  <2>1. DOMAIN Restrict(subtotal, eligible) = eligible
        /\ \A l \in eligible : Restrict(subtotal, eligible)[l] = subtotal[l]
    BY DEF Restrict
  <2> QED BY <1>4, <2>1, SumSame DEF Sum
<1>6. discount \in Nat /\ discount <= S
  BY <1>4, <1>5, CouponEffectIs
<1> HIDE DEF discount, shares, S, taxShares
<1>7. Allocated(subtotal, eligible, discount, shares)
  BY <1>2, <1>6, AllocationIsExact DEF shares, S
<1>8. \A l \in Lines : shares[l] \in Nat /\ shares[l] <= subtotal[l]
  BY <1>7 DEF Allocated
<1>9. total \in [Lines -> Nat] /\ DOMAIN total = Lines
  BY <1>8
<1> HIDE DEF total
<1>10. Sum(total) = SumFunctionOnSet(total, Lines) /\ Sum(total) \in Nat
  BY <1>9, Units DEF Sum
<1>11. tax \in Nat /\ (Sum(total) = 0 => tax = 0)
  BY <1>10, TaxIs
<1> HIDE DEF tax
<1>12. Distributed(total, tax, taxShares)
  BY <1>9, <1>10, <1>11, TaxSharesAreExact DEF taxShares
<1>13. Sum(shares) = discount /\ Sum(taxShares) = tax
  BY <1>3, <1>7, <1>12 DEF Sum, Allocated, Distributed
<1>14. \A l \in Lines :
         /\ shares[l] <= subtotal[l]
         /\ l \notin eligible => shares[l] = 0
         /\ l \in eligible /\ S > 0 => WithinOneUnit(shares[l], discount, subtotal[l], S)
  BY <1>7 DEF Allocated, S
<1>15. Sum(total) > 0 => \A l \in Lines : WithinOneUnit(taxShares[l], tax, total[l], Sum(total))
  BY <1>10, <1>12 DEF Distributed
<1> QED BY <1>1, <1>5, <1>6, <1>13, <1>14, <1>15 DEF SaleIsExact, Sum

-----------------------------------------------------------------------------
LEMMA InitPricing ==
  ASSUME Payable, PricingInit
  PROVE  PricingInv
<1>1. RowsPayable
  BY DEF PricingInit, RowsPayable
<1>2. UnderWay = {} /\ LockHeld
  BY DEF PricingInit, LockHeld, UnderWay
<1>3. \A u : UsesOf(u) = 0
  <2>1. \A u : {c \in redeemed : CustomerOf[c] = u} = {}
    BY DEF PricingInit
  <2> QED BY <2>1, FS_EmptySet DEF UsesOf
<1>4. CouponWithinLimits
  BY <1>3, FS_EmptySet DEF PricingInit, Payable, CouponWithinLimits
<1>5. SaleIsExact
  BY DEF PricingInit, SaleIsExact, Nothing
<1> QED BY <1>1, <1>2, <1>4, <1>5 DEF PricingInv

\* Prices and rates are rows of their own.
LEMMA RowsKeepPricing ==
  ASSUME Payable, PricingInv, RowsPayable', UNCHANGED <<coupon, redeemed, stage, sale>>
  PROVE  PricingInv'
<1>1. UnderWay' = UnderWay /\ (\A c : UsesLeft(c)' = UsesLeft(c)) /\ (\A u : UsesOf(u)' = UsesOf(u))
  BY DEF UnderWay, UsesLeft, UsesOf
<1>2. LockHeld'
  BY <1>1 DEF PricingInv, LockHeld
<1>3. CouponWithinLimits'
  BY <1>1 DEF PricingInv, CouponWithinLimits
<1>4. SaleIsExact'
  BY DEF PricingInv, SaleIsExact
<1> QED BY <1>2, <1>3, <1>4 DEF PricingInv

LEMMA PricedKeepsPricing ==
  ASSUME Payable, PricingInv, NEW c \in Confirms, NEW q \in [Lines -> Quantities], NEW g,
         PriceCheckout(c, q, g)
  PROVE  PricingInv'
<1>1. /\ stage[c] = "idle" /\ c \notin redeemed /\ UnderWay = {}
      /\ stage' = [stage EXCEPT ![c] = "priced"]
      /\ UNCHANGED <<clock, prices, rates, coupon, redeemed>>
  BY DEF PriceCheckout, CouponFree
<1>2. PICK p \in [Lines -> prices], rate \in Applicable(g) :
        sale' = Priced([l \in Lines |-> p[l].amount * q[l]], rate)
  BY DEF PriceCheckout
<1>3. RowsPayable'
  BY <1>1 DEF PricingInv, RowsPayable
<1>4. LockHeld'
  <2>1. UnderWay' = {c}
    BY <1>1 DEF UnderWay, PricingInv, LockHeld
  <2>2. \A d \in Confirms : stage'[d] = "redeemed" => stage[d] = "redeemed"
    BY <1>1 DEF PricingInv, LockHeld
  <2>3. \A d : UsesLeft(d)' = UsesLeft(d)
    BY <1>1 DEF UsesLeft, UsesOf
  <2>4. stage' \in [Confirms -> {"idle", "priced", "redeemed"}] /\ redeemed' \subseteq Confirms
    BY <1>1 DEF PricingInv, LockHeld
  <2> QED BY <1>1, <2>1, <2>2, <2>3, <2>4 DEF PricingInv, LockHeld
<1>5. CouponWithinLimits'
  BY <1>1 DEF PricingInv, CouponWithinLimits, UsesOf
<1>6. SaleIsExact'
  <2>1. rate \in TaxRates
    BY <1>2 DEF Applicable, PricingInv, RowsPayable
  <2>2. [l \in Lines |-> p[l].amount * q[l]] \in [Lines -> Nat]
    <3>1. ASSUME NEW l \in Lines
          PROVE  p[l].amount * q[l] \in Nat
      <4>1. p[l].amount \in Nat /\ q[l] \in Nat
        BY <1>2 DEF PricingInv, RowsPayable, Payable
      <4> QED BY <4>1, TimesSum
    <3> QED BY <3>1
  <2>3. coupon.kind \in CouponKinds
    BY DEF PricingInv, RowsPayable
  <2> QED BY <1>2, <2>1, <2>2, <2>3, PricedIsExact
<1> QED BY <1>3, <1>4, <1>5, <1>6 DEF PricingInv

\* A transaction under way goes on or ends.
LEMMA StageKeepsPricing ==
  ASSUME Payable, PricingInv, NEW c \in Confirms, RedeemCoupon(c) \/ EndsUnredeemed(c)
  PROVE  PricingInv'
<1>1. /\ UNCHANGED <<clock, prices, rates, coupon, redeemed>> /\ sale' = Nothing
      /\ c \in UnderWay
  BY DEF RedeemCoupon, EndsUnredeemed, UnderWay
<1>2. PICK s \in {"idle", "redeemed"} :
        stage' = [stage EXCEPT ![c] = s] /\ (s = "redeemed" => UsesLeft(c))
  BY DEF RedeemCoupon, EndsUnredeemed
<1>3. \A d : UsesLeft(d)' = UsesLeft(d)
  BY <1>1 DEF UsesLeft, UsesOf
<1>4. UnderWay' \subseteq UnderWay
  BY <1>1, <1>2 DEF UnderWay, PricingInv, LockHeld
<1>5. \A d \in Confirms : stage'[d] = "redeemed" => UsesLeft(d)'
  BY <1>2, <1>3 DEF PricingInv, LockHeld
<1>6. stage' \in [Confirms -> {"idle", "priced", "redeemed"}]
  BY <1>2 DEF PricingInv, LockHeld
<1>7. LockHeld'
  BY <1>1, <1>4, <1>5, <1>6 DEF PricingInv, LockHeld
<1>8. RowsPayable' /\ CouponWithinLimits' /\ SaleIsExact'
  BY <1>1 DEF PricingInv, RowsPayable, CouponWithinLimits, UsesOf, SaleIsExact, Nothing
<1> QED BY <1>7, <1>8 DEF PricingInv

LEMMA CommitKeepsPricing ==
  ASSUME Payable, PricingInv, NEW c \in Confirms, CommitRedemption(c)
  PROVE  PricingInv'
<1>1. /\ stage[c] = "redeemed" /\ redeemed' = redeemed \cup {c}
      /\ coupon' = [coupon EXCEPT !.usedCount = @ + 1]
      /\ stage' = [stage EXCEPT ![c] = "idle"] /\ UNCHANGED <<clock, prices, rates, sale>>
  BY DEF CommitRedemption
<1>2. c \in UnderWay /\ c \notin redeemed /\ UsesLeft(c) /\ redeemed \subseteq Confirms
      /\ IsFiniteSet(redeemed)
  BY <1>1, FS_Subset DEF UnderWay, PricingInv, LockHeld, Payable
<1>3. /\ coupon.usedCount \in Nat /\ coupon'.usedCount = coupon.usedCount + 1
      /\ coupon'.kind = coupon.kind /\ DOMAIN coupon' = DOMAIN coupon
  BY <1>1 DEF PricingInv, RowsPayable
<1>4. RowsPayable'
  BY <1>1, <1>3 DEF PricingInv, RowsPayable
<1>5. LockHeld'
  <2>1. UnderWay' = {}
    BY <1>1, <1>2 DEF UnderWay, PricingInv, LockHeld
  <2>2. \A d \in Confirms : stage'[d] # "redeemed"
    BY <2>1 DEF UnderWay
  <2>3. stage' \in [Confirms -> {"idle", "priced", "redeemed"}] /\ redeemed' \subseteq Confirms
    BY <1>1 DEF PricingInv, LockHeld
  <2> QED BY <2>1, <2>2, <2>3 DEF LockHeld
<1>6. Cardinality(redeemed') = Cardinality(redeemed) + 1
  BY <1>1, <1>2, FS_AddElement
<1>7. ASSUME NEW u \in Range(CustomerOf) \ {"guest"}
      PROVE  UsesOf(u)' <= UsageLimitPerUser
  <2> DEFINE own == {d \in redeemed : CustomerOf[d] = u}
  <2>1. IsFiniteSet(own) /\ Cardinality(own) \in Nat /\ Cardinality(own) <= UsageLimitPerUser
    BY <1>2, FS_Subset, FS_CardinalityType DEF PricingInv, CouponWithinLimits, UsesOf
  <2>2. CASE CustomerOf[c] = u
    <3>1. UsesOf(u)' = Cardinality(own \cup {c})
      <4>1. {d \in redeemed' : CustomerOf[d] = u} = own \cup {c}
        BY <1>1, <2>2
      <4> QED BY <4>1 DEF UsesOf
    <3>2. Cardinality(own) < UsageLimitPerUser
      BY <1>2, <2>2 DEF UsesLeft, UsesOf
    <3>3. Cardinality(own \cup {c}) = Cardinality(own) + 1
      BY <1>2, <2>1, FS_AddElement
    <3> HIDE DEF own
    <3> QED BY <2>1, <3>1, <3>2, <3>3 DEF Payable
  <2>3. CASE CustomerOf[c] # u
    <3>1. {d \in redeemed' : CustomerOf[d] = u} = own
      BY <1>1, <2>3
    <3> QED BY <2>1, <3>1 DEF UsesOf
  <2> QED BY <2>2, <2>3
<1>8. CouponWithinLimits'
  <2>1. coupon.usedCount < UsageLimitTotal /\ coupon.usedCount = Cardinality(redeemed)
    BY <1>2 DEF UsesLeft, PricingInv, CouponWithinLimits
  <2> QED BY <1>3, <1>6, <1>7, <2>1 DEF CouponWithinLimits, Payable
<1>9. SaleIsExact'
  BY <1>1 DEF PricingInv, SaleIsExact
<1> QED BY <1>4, <1>5, <1>8, <1>9 DEF PricingInv

LEMMA NextPricing ==
  ASSUME Payable, PricingInv, [PricingNext]_pricingVars
  PROVE  PricingInv'
<1>1. CASE UNCHANGED pricingVars
  BY <1>1, RowsKeepPricing DEF pricingVars, PricingInv, RowsPayable
<1>2. CASE TimePasses
  BY <1>2, RowsKeepPricing DEF TimePasses, PricingInv, RowsPayable
<1>3. ASSUME NEW l \in Lines, NEW a \in Amounts, NEW w \in Windows, CreateVariantPrice(l, a, w)
      PROVE  PricingInv'
  BY <1>3, RowsKeepPricing DEF CreateVariantPrice, PricingInv, RowsPayable
<1>4. ASSUME NEW r \in TaxRates, CreateTaxRate(r)
      PROVE  PricingInv'
  BY <1>4, RowsKeepPricing DEF CreateTaxRate, PricingInv, RowsPayable
<1> QED
  BY <1>1, <1>2, <1>3, <1>4, PricedKeepsPricing, StageKeepsPricing, CommitKeepsPricing
     DEF PricingNext

\* The inductive invariant of pricing, with CouponWithinLimits and SaleIsExact.
THEOREM PricingInvariant ==
  ASSUME Payable
  PROVE  PricingSpec => []PricingInv
BY InitPricing, NextPricing, PTL DEF PricingSpec

------------------------------------------------------------------------------
(* Types, and the bounds of the counters among them.                       *)
Dated ==
  MaxTime \in Nat /\ \A w \in Windows : w[1] \in 0..MaxTime /\ w[2] \in 1..MaxTime + 1

LEMMA InitPricingTypes ==
  ASSUME Payable, Dated, PricingInit
  PROVE  PricingTypeOK
<1>1. Cardinality(Confirms) \in Nat
  BY FS_CardinalityType DEF Payable
<1> QED BY <1>1 DEF PricingInit, PricingTypeOK, Dated

LEMMA NextPricingTypes ==
  ASSUME Payable, Dated, PricingInv', PricingTypeOK, [PricingNext]_pricingVars
  PROVE  PricingTypeOK'
<1>1. clock' \in 0..MaxTime
  BY DEF PricingTypeOK, PricingNext, pricingVars, TimePasses, CreateVariantPrice, CreateTaxRate,
         PriceCheckout, RedeemCoupon, CommitRedemption, EndsUnredeemed, Dated
<1>2. prices' \subseteq [line : Lines, amount : Amounts, from : 0..MaxTime, to : 1..MaxTime + 1]
  BY DEF PricingTypeOK, PricingNext, pricingVars, TimePasses, CreateVariantPrice, CreateTaxRate,
         PriceCheckout, RedeemCoupon, CommitRedemption, EndsUnredeemed, Dated
<1>3. rates' \subseteq TaxRates /\ redeemed' \subseteq Confirms
      /\ stage' \in [Confirms -> {"idle", "priced", "redeemed"}]
  BY DEF PricingInv, RowsPayable, LockHeld
<1>4. coupon' \in [kind : CouponKinds, usedCount : 0..Cardinality(Confirms)]
  <2>1. coupon'.usedCount <= Cardinality(Confirms) /\ Cardinality(Confirms) \in Nat
    BY <1>3, FS_Subset, FS_CardinalityType DEF PricingInv, CouponWithinLimits, Payable
  <2>2. coupon'.usedCount \in Nat /\ coupon'.kind \in CouponKinds
    BY DEF PricingInv, RowsPayable
  <2>3. coupon' = coupon \/ coupon' = [coupon EXCEPT !.usedCount = @ + 1]
    BY DEF PricingNext, pricingVars, TimePasses, CreateVariantPrice, CreateTaxRate,
         PriceCheckout, RedeemCoupon, CommitRedemption, EndsUnredeemed
  <2> QED BY <2>1, <2>2, <2>3 DEF PricingTypeOK
<1>5. sale' = Nothing \/ sale'.priced
  <2>1. ASSUME NEW c \in Confirms, NEW q \in [Lines -> Quantities], NEW g, PriceCheckout(c, q, g)
        PROVE  sale'.priced
    <3>1. PICK subtotal, rate : sale' = Priced(subtotal, rate)
      BY <2>1 DEF PriceCheckout
    <3> QED BY <3>1 DEF Priced
  <2>2. sale' = sale \/ sale' = Nothing \/ sale'.priced
    BY <2>1 DEF PricingNext, pricingVars, TimePasses, CreateVariantPrice, CreateTaxRate,
                RedeemCoupon, CommitRedemption, EndsUnredeemed
  <2> QED BY <2>2 DEF PricingTypeOK
<1> QED BY <1>1, <1>2, <1>3, <1>4, <1>5 DEF PricingTypeOK

LEMMA TreeTypesCorrect ==
  ASSUME TreeInv
  PROVE  TreeTypeOK
BY DEF TreeInv, TreeTypes, TreePaths, EditStates, EditPaths, TreeTypeOK

\* Tokens are finitely many; there is a step, and a challenge survives no wrong code for ever.
Staffed == IsFiniteSet(Tokens) /\ MaxStep \in Nat \ {0} /\ MaxAttempts \in Nat \ {0}

\* A challenge that is open has attempts left, a step-up is of a session, and
\* a token was used for every password but the first.
Spent == {t \in Tokens : tokens[t] = "used"}
StaffTypes ==
  /\ TypeOK
  /\ \A c \in Logins : challenges[c].state # "gone" => challenges[c].attempts < MaxAttempts
  /\ \A r \in StepUps : requests[r].at \in {"verified", "accepted"} =>
                          requests[r].subject \in Completions
  /\ password <= Cardinality(Spent)

LEMMA InitStaffTypes ==
  ASSUME Separate, Staffed, Init
  PROVE  StaffTypes
<1>1. Cardinality(Tokens) \in Nat
  BY FS_CardinalityType DEF Staffed
<1>2. TypeOK
  BY <1>1 DEF Init, Separate, Staffed, TypeOK, Idle, NoSession, Requests
<1>3. Spent = {}
  BY DEF Init, Spent
<1> QED BY <1>2, <1>3, FS_EmptySet DEF Init, Separate, Staffed, StaffTypes, Requests, Idle

LEMMA NextStaffTypes ==
  ASSUME Separate, Staffed, IInv, IInv', StaffTypes, [Next]_vars
  PROVE  StaffTypes'
<1>0. /\ step \in 1..MaxStep /\ lastAccepted \in 0..MaxStep + Drift
      /\ challenges \in [Logins -> [state : {"absent", "open", "gone"}, attempts : 0..MaxAttempts]]
      /\ \A c \in Logins : challenges[c].state # "gone" => challenges[c].attempts < MaxAttempts
      /\ requests \in [Requests -> Sent]
      /\ \A r \in StepUps : requests[r].at \in {"verified", "accepted"} =>
                             requests[r].subject \in Completions
      /\ overtaken \subseteq Logins /\ elevated \subseteq Completions
      /\ tokens \in [Tokens -> {"absent", "open", "used"}] /\ password <= Cardinality(Spent)
      /\ password \in 0..Cardinality(Tokens)
  BY DEF StaffTypes, TypeOK, IInv, Types
<1>1. lastAccepted' \in 0..MaxStep + Drift /\ step' \in 1..MaxStep
  <2>0. step' = step \/ (step < MaxStep /\ step' = step + 1)
    BY DEF Next, vars, Tick, LogoutAll, Login, CreateChallenge, ChallengeExpires, WrongCode,
       VerifyCode, ConsumeChallenge, AcceptLogin, AcceptStep, CreateSession, VerifyStepUp, AcceptStepUp,
       MarkStepUp, SessionEnds, StepUpExpires, RequestReset, TokenExpires, CompleteReset
  <2>1. step' \in 1..MaxStep
    BY <1>0, <2>0 DEF Staffed
  <2>2. ASSUME NEW r, AcceptLogin(r) \/ AcceptStepUp(r)
        PROVE  lastAccepted' \in 0..MaxStep + Drift
    <3>1. requests[r].step \in Steps
      BY <2>2 DEF AcceptLogin, AcceptStepUp, At, IInv, Phases
    <3>2. lastAccepted' \in {lastAccepted, requests[r].step}
      BY <2>2 DEF AcceptLogin, AcceptStepUp, AcceptStep
    <3> QED BY <1>0, <3>1, <3>2 DEF Steps
  <2>3. lastAccepted' \in 0..MaxStep + Drift
    BY <1>0, <2>2 DEF Next, vars, Tick, LogoutAll, Login, CreateChallenge, ChallengeExpires, WrongCode,
       VerifyCode, ConsumeChallenge, CreateSession, VerifyStepUp,
       MarkStepUp, SessionEnds, StepUpExpires, RequestReset, TokenExpires, CompleteReset, credentials
  <2> QED BY <2>1, <2>3
<1>2. /\ requests' \in [Requests -> Sent] /\ uses' \in [Steps -> SUBSET Requests]
      /\ sessions' \in [Completions -> [state : {"absent", "live", "ended"},
                                        login : Logins \cup {"none"}]]
  BY DEF IInv, Types
<1>3. \A r \in StepUps : requests'[r].at \in {"verified", "accepted"} =>
                         requests'[r].subject \in Completions
  <2> SUFFICES ASSUME NEW r \in StepUps, requests'[r].at \in {"verified", "accepted"},
                      requests'[r] # requests[r]
               PROVE  requests'[r].subject \in Completions
    BY <1>0
  <2>1. ASSUME NEW s \in Completions, NEW n \in Codes, VerifyStepUp(r, s, n)
        PROVE  requests'[r].subject \in Completions
    BY <1>0, <2>1 DEF VerifyStepUp, Verified, Requests
  <2>2. ASSUME AcceptStepUp(r)
        PROVE  requests'[r].subject \in Completions
    <3>1. requests[r] \in Sent /\ r \in Requests /\ requests[r].subject \in Completions
      BY <1>0, <2>2 DEF AcceptStepUp, At, Requests
    <3>2. \/ requests' = [requests EXCEPT ![r].at = "accepted"]
          \/ requests' = [requests EXCEPT ![r] = [Idle EXCEPT !.at = "done"]]
      BY <2>2 DEF AcceptStepUp, AcceptStep, Goes, Ends
    <3>3. \/ requests'[r] = [requests[r] EXCEPT !.at = "accepted"]
          \/ requests'[r] = [Idle EXCEPT !.at = "done"]
      BY <1>0, <3>1, <3>2
    <3> QED BY <3>1, <3>3 DEF Idle, Sent
  <2>3. ~ MarkStepUp(r)
    BY <1>0 DEF MarkStepUp, Ends, Idle, Requests
  <2>4. ASSUME NEW q \in Requests \ {r},
               \/ Goes(q, "challenged") \/ Goes(q, "consumed") \/ Goes(q, "accepted") \/ Ends(q)
               \/ \E m : requests' = [requests EXCEPT ![q] = m]
               \/ requests' = [requests EXCEPT ![q].at = "compared", ![q].password = password]
        PROVE  FALSE
    <3>1. requests'[r] = requests[r]
      BY <1>0, <2>4 DEF Goes, Ends, Requests
    <3> QED BY <3>1
  <2>5. ASSUME NEW q \in Logins \cup Completions,
               \/ Login(q) \/ CreateChallenge(q) \/ ConsumeChallenge(q) \/ AcceptLogin(q)
               \/ CreateSession(q) \/ \E c \in Logins, n \in Codes : VerifyCode(q, c, n)
        PROVE  FALSE
    <3>1. q \in Requests \ {r}
      BY <2>5 DEF Requests, Separate
    <3> QED
      BY <2>4, <2>5, <3>1 DEF Login, CreateChallenge, ConsumeChallenge, AcceptLogin, AcceptStep,
                              CreateSession, VerifyCode
  <2>6. ASSUME NEW q \in StepUps \ {r},
               \/ AcceptStepUp(q) \/ MarkStepUp(q)
               \/ \E s \in Completions, n \in Codes : VerifyStepUp(q, s, n)
        PROVE  FALSE
    <3>1. q \in Requests \ {r}
      BY DEF Requests
    <3> QED
      BY <2>4, <2>6, <3>1 DEF AcceptStepUp, AcceptStep, MarkStepUp, VerifyStepUp
  <2>7. \/ \E q \in Logins \cup Completions :
             \/ Login(q) \/ CreateChallenge(q) \/ ConsumeChallenge(q) \/ AcceptLogin(q)
             \/ CreateSession(q) \/ \E c \in Logins, n \in Codes : VerifyCode(q, c, n)
        \/ \E q \in StepUps :
             \/ AcceptStepUp(q) \/ MarkStepUp(q)
             \/ \E s \in Completions, n \in Codes : VerifyStepUp(q, s, n)
    <3>1. requests' # requests
      OBVIOUS
    <3> QED
      BY <3>1 DEF Next, vars, Tick, LogoutAll, ChallengeExpires, WrongCode, SessionEnds, StepUpExpires,
                  RequestReset, TokenExpires, CompleteReset
  <2>8. PICK q \in StepUps : \/ AcceptStepUp(q) \/ MarkStepUp(q)
                             \/ \E s \in Completions, n \in Codes : VerifyStepUp(q, s, n)
    BY <2>5, <2>7
  <2>9. q = r
    BY <2>6, <2>8
  <2> QED
    BY <2>1, <2>2, <2>3, <2>8, <2>9
<1>4. /\ challenges' \in [Logins -> [state : {"absent", "open", "gone"}, attempts : 0..MaxAttempts]]
      /\ \A c \in Logins : challenges'[c].state # "gone" => challenges'[c].attempts < MaxAttempts
  <2> DEFINE Challenge == [state : {"absent", "open", "gone"}, attempts : 0..MaxAttempts]
             Left(row) == row.state # "gone" => row.attempts < MaxAttempts
  <2>1. ASSUME NEW c \in Logins, NEW row \in Challenge, Left(row), challenges' = [challenges EXCEPT ![c] = row]
        PROVE  challenges' \in [Logins -> Challenge] /\ \A d \in Logins : Left(challenges'[d])
    BY <1>0, <2>1
  <2>2. ASSUME NEW c \in Logins, ChallengeExpires(c) \/ WrongCode(c) \/ CreateChallenge(c)
        PROVE  challenges' \in [Logins -> Challenge] /\ \A d \in Logins : Left(challenges'[d])
    <3>1. challenges[c] \in Challenge
      BY <1>0
    <3>2. CASE ChallengeExpires(c)
      BY <2>1, <3>1, <3>2 DEF ChallengeExpires
    <3>3. CASE WrongCode(c)
      <4>0. challenges[c].attempts \in Nat /\ challenges[c].attempts < MaxAttempts
            /\ MaxAttempts \in Nat
        BY <1>0, <3>1, <3>3 DEF WrongCode, Staffed
      <4>1. challenges[c].attempts + 1 \in 0..MaxAttempts
        BY <4>0
      <4> DEFINE row == [attempts |-> challenges[c].attempts + 1,
                         state |-> IF challenges[c].attempts + 1 >= MaxAttempts THEN "gone" ELSE "open"]
      <4>2. challenges' = [challenges EXCEPT ![c] = row]
        BY <3>3 DEF WrongCode
      <4>3. row \in Challenge /\ Left(row)
        BY <4>0, <4>1
      <4> HIDE DEF row
      <4> QED BY <2>1, <4>2, <4>3
    <3>4. CASE CreateChallenge(c)
      <4>1. challenges[c].attempts < MaxAttempts
        BY <1>0, <3>4 DEF CreateChallenge, At, IInv, ChallengesFollowLogins
      <4> QED BY <2>1, <3>1, <3>4, <4>1 DEF CreateChallenge
    <3> QED BY <2>2, <3>2, <3>3, <3>4
  <2>3. ASSUME NEW r \in Completions, ConsumeChallenge(r)
        PROVE  challenges' \in [Logins -> Challenge] /\ \A d \in Logins : Left(challenges'[d])
    <3>1. requests[r].subject \in Logins
      BY <2>3 DEF ConsumeChallenge, At, IInv, Phases
    <3>2. challenges[requests[r].subject] \in Challenge
      BY <1>0, <3>1
    <3> DEFINE row == [challenges[requests[r].subject] EXCEPT !.state = "gone"]
    <3>3. row \in Challenge /\ Left(row)
      BY <3>2
    <3>4. challenges' = challenges \/ challenges' = [challenges EXCEPT ![requests[r].subject] = row]
      BY <2>3 DEF ConsumeChallenge
    <3> HIDE DEF row
    <3> QED BY <1>0, <2>1, <3>1, <3>3, <3>4
  <2>4. challenges' = challenges \/
        (challenges' \in [Logins -> Challenge] /\ \A d \in Logins : Left(challenges'[d]))
    BY <2>2, <2>3 DEF Next, vars, Tick, LogoutAll, Login,
       VerifyCode, AcceptLogin, AcceptStep, CreateSession, VerifyStepUp, AcceptStepUp,
       MarkStepUp, SessionEnds, StepUpExpires, RequestReset, TokenExpires, CompleteReset
  <2> QED BY <1>0, <2>4
<1>5. overtaken' \subseteq Logins /\ elevated' \subseteq Completions
  <2>1. ASSUME NEW r \in StepUps, MarkStepUp(r)
        PROVE  elevated' \subseteq Completions
    BY <1>0, <2>1 DEF MarkStepUp, At
  <2>2. elevated' \subseteq Completions
    BY <1>0, <2>1 DEF Next, vars, Tick, LogoutAll, Login, CreateChallenge, ChallengeExpires, WrongCode,
       VerifyCode, ConsumeChallenge, AcceptLogin, AcceptStep, CreateSession, VerifyStepUp, AcceptStepUp,
       SessionEnds, StepUpExpires, RequestReset, TokenExpires, CompleteReset, trust
  <2>3. overtaken' \subseteq Logins
    BY <1>0 DEF Next, vars, Tick, LogoutAll, Login, CreateChallenge, ChallengeExpires, WrongCode,
       VerifyCode, ConsumeChallenge, AcceptLogin, AcceptStep, CreateSession, VerifyStepUp, AcceptStepUp,
       MarkStepUp, SessionEnds, StepUpExpires, RequestReset, TokenExpires, CompleteReset, trust
  <2> QED BY <2>2, <2>3
<1>6. /\ tokens' \in [Tokens -> {"absent", "open", "used"}]
      /\ password' <= Cardinality(Spent') /\ password' \in 0..Cardinality(Tokens)
  <2>1. IsFiniteSet(Tokens) /\ IsFiniteSet(Spent) /\ Cardinality(Spent) \in Nat /\ password \in Nat
    BY FS_Subset, FS_CardinalityType DEF Staffed, Spent, IInv, Types
  <2>2. ASSUME tokens' \in [Tokens -> {"absent", "open", "used"}], password' \in Nat,
               password' <= Cardinality(Spent')
        PROVE  password' \in 0..Cardinality(Tokens)
    <3>1. Cardinality(Spent') <= Cardinality(Tokens) /\ Cardinality(Spent') \in Nat
          /\ Cardinality(Tokens) \in Nat
      BY <2>1, FS_Subset, FS_CardinalityType DEF Spent
    <3> QED BY <2>2, <3>1
  <2>3. ASSUME Spent \subseteq Spent', tokens' \in [Tokens -> {"absent", "open", "used"}]
        PROVE  Cardinality(Spent') \in Nat /\ Cardinality(Spent) <= Cardinality(Spent')
    <3>1. IsFiniteSet(Spent')
      BY <2>1, FS_Subset DEF Spent
    <3> QED BY <2>3, <3>1, FS_Subset, FS_CardinalityType
  <2>4. CASE \E t \in Tokens, seen \in SUBSET Tokens : RequestReset(t, seen) \/ TokenExpires(t)
    <3>0. PICK t \in Tokens, seen \in SUBSET Tokens : RequestReset(t, seen) \/ TokenExpires(t)
      BY <2>4
    <3>1. UsedUp(seen) \in [Tokens -> {"absent", "open", "used"}]
          /\ UsedUp({t}) \in [Tokens -> {"absent", "open", "used"}]
      BY <1>0 DEF UsedUp
    <3>2. password' = password /\ tokens' \in [Tokens -> {"absent", "open", "used"}]
      BY <3>0, <3>1 DEF RequestReset, TokenExpires
    <3>3. Spent \subseteq Spent'
      BY <3>0 DEF RequestReset, TokenExpires, UsedUp, Spent
    <3> QED BY <1>0, <2>1, <2>2, <2>3, <3>2, <3>3
  <2>5. ASSUME NEW t \in Tokens, CompleteReset(t)
        PROVE  /\ tokens' \in [Tokens -> {"absent", "open", "used"}]
               /\ password' <= Cardinality(Spent') /\ password' \in 0..Cardinality(Tokens)
    <3>1. password' = password + 1 /\ tokens' \in [Tokens -> {"absent", "open", "used"}]
      BY <1>0, <2>5 DEF CompleteReset, UsedUp
    <3>2. t \notin Spent /\ Spent \cup {t} \subseteq Spent'
      BY <2>5 DEF CompleteReset, UsedUp, Spent
    <3>3. IsFiniteSet(Spent')
      BY <2>1, FS_Subset DEF Spent
    <3>4. Cardinality(Spent \cup {t}) = Cardinality(Spent) + 1
      BY <2>1, <3>2, FS_AddElement
    <3>5. Cardinality(Spent \cup {t}) <= Cardinality(Spent') /\ Cardinality(Spent') \in Nat
      BY <3>2, <3>3, FS_Subset, FS_CardinalityType
    <3>6. password' <= Cardinality(Spent') /\ password' \in Nat
      BY <1>0, <2>1, <3>1, <3>4, <3>5
    <3> QED BY <2>2, <3>1, <3>6
  <2>6. CASE UNCHANGED <<tokens, password>>
    <3>1. Spent' = Spent
      BY <2>6 DEF Spent
    <3> QED BY <1>0, <2>6, <3>1
  <2>7. UNCHANGED <<tokens, password>> \/
        \E t \in Tokens, seen \in SUBSET Tokens : RequestReset(t, seen) \/ TokenExpires(t) \/ CompleteReset(t)
    BY DEF Next, vars, Tick, LogoutAll, Login, CreateChallenge, ChallengeExpires, WrongCode,
       VerifyCode, ConsumeChallenge, AcceptLogin, AcceptStep, CreateSession, VerifyStepUp, AcceptStepUp,
       MarkStepUp, SessionEnds, StepUpExpires, credentials
  <2> QED BY <2>4, <2>5, <2>6, <2>7
<1> QED BY <1>1, <1>2, <1>3, <1>4, <1>5, <1>6 DEF Sent, Steps, StaffTypes, TypeOK
==============================================================================

------------------------------- MODULE Identity -------------------------------
(***************************************************************************)
(* One account and its sessions: AuthService, ProfileService and           *)
(* AdminUsersService over PrismaIdentityRepository.  Every handler reads,  *)
(* then writes; a change of password or status and the revocation of the   *)
(* sessions are one transaction, and so atomic here, but the request that  *)
(* issues a session read the account before.  Codes and passwords are      *)
(* right or wrong, a new password is a new number, a refresh token is the  *)
(* number of its rotation.                                                 *)
(***************************************************************************)
EXTENDS Naturals

CONSTANTS
  Workers, Sessions, Challenges,
  None,
  MaxAttempts,  \* otpMaxAttempts
  MaxOps,       \* bound: requests received
  MaxFaults     \* bound: expiries

VARIABLES
  account,      \* [status, password, mfa] or None
  sessions,     \* [Sessions -> [current, previous, made, age, revoked] or None]
  challenges,   \* [Challenges -> [attempts, consumed, live] or None]: of an MFA login
  signup,       \* the latest signup OTP: [token, consumed]
  reset,        \* the latest reset OTP: [verified, consumed]
  op, left, faults

vars == <<account, sessions, challenges, signup, reset, op, left, faults>>

Statuses == {"ACTIVE", "SUSPENDED", "RESTRICTED", "DELETED"}

Idle == [pc |-> "idle", seen |-> None, session |-> None, challenge |-> None, value |-> 0,
         status |-> None]

Fresh == [status |-> "ACTIVE", password |-> 0, mfa |-> FALSE]

Init ==
  /\ account \in {None, Fresh, [Fresh EXCEPT !.mfa = TRUE]}
  /\ sessions = [s \in Sessions |-> None]
  /\ challenges = [c \in Challenges |-> None]
  /\ signup = [token |-> 0, consumed |-> FALSE]
  /\ reset = [verified |-> FALSE, consumed |-> TRUE]
  /\ op = [w \in Workers |-> Idle]
  /\ left = MaxOps /\ faults = MaxFaults

At(w, pc) == op[w].pc = pc

Become(w, self) == op' = [op EXCEPT ![w] = self]

Goto(w, pc) == Become(w, [op[w] EXCEPT !.pc = pc])

Done(w) == Become(w, Idle)

Receive(w) == At(w, "idle") /\ left > 0 /\ left' = left - 1 /\ UNCHANGED faults

Step == UNCHANGED <<left, faults>>

\* findUserById and findUserByIdentifier do not see a deleted account.
Found == account # None /\ account.status # "DELETED"

ActiveAccount == Found /\ account.status = "ACTIVE"

-----------------------------------------------------------------------------
\* login with the right password (a wrong one leaves the brute-force counter only).
LoginRead(w) ==
  /\ Receive(w) /\ ActiveAccount
  /\ Become(w, [Idle EXCEPT !.pc = IF account.mfa THEN "challenge" ELSE "issue",
                            !.seen = account])
  /\ UNCHANGED <<account, sessions, challenges, signup, reset>>

\* beginMfaLogin.
Challenge(w, c) ==
  /\ At(w, "challenge") /\ challenges[c] = None
  /\ challenges' = [challenges EXCEPT ![c] = [attempts |-> 0, consumed |-> FALSE, live |-> TRUE]]
  /\ Done(w) /\ Step
  /\ UNCHANGED <<account, sessions, signup, reset>>

\* verifyMfaLogin.
VerifyRead(w, c, right) ==
  LET it == challenges[c] IN
  /\ Receive(w) /\ it # None /\ ~it.consumed /\ it.live /\ it.attempts < MaxAttempts
  /\ Become(w, [Idle EXCEPT !.pc = IF right THEN "consume" ELSE "fail",
                            !.challenge = c, !.value = it.attempts])
  /\ UNCHANGED <<account, sessions, challenges, signup, reset>>

FailChallenge(w) ==
  /\ At(w, "fail") /\ Done(w) /\ Step
  /\ challenges' = [challenges EXCEPT ![op[w].challenge].attempts = op[w].value + 1]
  /\ UNCHANGED <<account, sessions, signup, reset>>

\* Mutation: the challenge is consumed by id, whatever became of it since it was read.
ById(it) == TRUE

Consumable(it) == ~it.consumed /\ it.live

ConsumeChallenge(w) ==
  LET c == op[w].challenge IN
  /\ At(w, "consume") /\ Step
  /\ IF Consumable(challenges[c])
     THEN challenges' = [challenges EXCEPT ![c].consumed = TRUE] /\ Goto(w, "user")
     ELSE Done(w) /\ UNCHANGED challenges
  /\ UNCHANGED <<account, sessions, signup, reset>>

ReadUser(w) ==
  /\ At(w, "user") /\ Step
  /\ IF Found THEN Become(w, [op[w] EXCEPT !.pc = "issue", !.seen = account]) ELSE Done(w)
  /\ UNCHANGED <<account, sessions, challenges, signup, reset>>

Admitted(seen) == seen.status = "ACTIVE"

\* issueSession: the status of the account as it was read, then the new row.
Issue(w, s) ==
  /\ At(w, "issue") /\ Done(w) /\ Step
  /\ sessions[s] = None
  /\ sessions' = IF Admitted(op[w].seen)
                 THEN [sessions EXCEPT ![s] = [current |-> 1, previous |-> 0, made |-> 1,
                                               age |-> "live", revoked |-> FALSE]]
                 ELSE sessions
  /\ UNCHANGED <<account, challenges, signup, reset>>

-----------------------------------------------------------------------------
\* refresh: an old session is revoked, so is one whose previous token comes back; the
\* current token goes on to the account and the rotation.
RefreshRead(w, s, t) ==
  LET it == sessions[s] IN
  /\ Receive(w) /\ it # None /\ t \in 1..it.made /\ ~it.revoked
  /\ \/ /\ it.age = "over"
        /\ Become(w, [Idle EXCEPT !.pc = "revoke", !.session = s])
     \/ /\ it.age # "over" /\ t # it.current /\ t = it.previous
        /\ Become(w, [Idle EXCEPT !.pc = "revoke", !.session = s])
     \/ /\ it.age = "live" /\ t = it.current
        /\ Become(w, [Idle EXCEPT !.pc = "owner", !.session = s, !.value = t])
  /\ UNCHANGED <<account, sessions, challenges, signup, reset>>

RefreshOwner(w) ==
  /\ At(w, "owner") /\ Step
  /\ IF ActiveAccount THEN Goto(w, "rotate") ELSE Done(w)
  /\ UNCHANGED <<account, sessions, challenges, signup, reset>>

Rotated(it, used) == [it EXCEPT !.current = it.made + 1, !.previous = used, !.made = @ + 1,
                                !.age = IF @ = "over" THEN @ ELSE "live"]

Rotate(w) ==
  /\ At(w, "rotate") /\ Done(w) /\ Step
  /\ sessions' = [sessions EXCEPT ![op[w].session] = Rotated(@, op[w].value)]
  /\ UNCHANGED <<account, challenges, signup, reset>>

Revoked(it) == IF it = None THEN None ELSE [it EXCEPT !.revoked = TRUE]

RevokeWrite(w) ==
  /\ At(w, "revoke") /\ Done(w) /\ Step
  /\ sessions' = [sessions EXCEPT ![op[w].session] = Revoked(@)]
  /\ UNCHANGED <<account, challenges, signup, reset>>

\* logout, revokeDevice.
Logout(w, s) ==
  /\ Receive(w) /\ sessions[s] # None
  /\ sessions' = [sessions EXCEPT ![s] = Revoked(@)]
  /\ UNCHANGED <<account, challenges, signup, reset, op>>

AllRevoked(retained) == [s \in Sessions |-> IF s = retained THEN sessions[s] ELSE Revoked(sessions[s])]

\* revokeOtherDevices, and revokeSessions of an administrator (retaining none).
RevokeAll(w, retained) ==
  /\ Receive(w) /\ Found
  /\ sessions' = AllRevoked(retained)
  /\ UNCHANGED <<account, challenges, signup, reset, op>>

-----------------------------------------------------------------------------
\* changeStatus and deleteMe.
StatusRead(w, status) ==
  /\ Receive(w) /\ IF status = "DELETED" THEN ActiveAccount ELSE Found
  /\ Become(w, [Idle EXCEPT !.pc = "status", !.status = status])
  /\ UNCHANGED <<account, sessions, challenges, signup, reset>>

StatusWrite(w) ==
  /\ At(w, "status") /\ Done(w) /\ Step
  /\ account' = [account EXCEPT !.status = op[w].status]
  /\ sessions' = IF op[w].status = "ACTIVE" THEN sessions ELSE AllRevoked(None)
  /\ UNCHANGED <<challenges, signup, reset>>

\* ProfileService.updatePassword keeps the session it came from.
ChangeRead(w, s) ==
  /\ Receive(w) /\ ActiveAccount
  /\ sessions[s] # None /\ ~sessions[s].revoked
  /\ Become(w, [Idle EXCEPT !.pc = "password", !.session = s])
  /\ UNCHANGED <<account, sessions, challenges, signup, reset>>

ResetRead(w) ==
  /\ Receive(w) /\ Found /\ reset.verified /\ ~reset.consumed
  /\ Become(w, [Idle EXCEPT !.pc = "password"])
  /\ UNCHANGED <<account, sessions, challenges, signup, reset>>

\* PrismaIdentityRepository.updatePassword; a reset then consumes its code.
PasswordWrite(w) ==
  LET retained == op[w].session IN
  /\ At(w, "password") /\ Step
  /\ IF retained = None THEN Goto(w, "used") ELSE Done(w)
  /\ account' = [account EXCEPT !.password = @ + 1]
  /\ sessions' = AllRevoked(retained)
  /\ UNCHANGED <<challenges, signup, reset>>

ConsumeReset(w) ==
  /\ At(w, "used") /\ Done(w) /\ Step
  /\ reset' = [reset EXCEPT !.consumed = TRUE]
  /\ UNCHANGED <<account, sessions, challenges, signup>>

RequestReset(w) ==
  /\ Receive(w) /\ Found /\ reset.consumed
  /\ reset' = [verified |-> FALSE, consumed |-> FALSE]
  /\ UNCHANGED <<account, sessions, challenges, signup, op>>

VerifyReset(w) ==
  /\ Receive(w) /\ ~reset.consumed
  /\ reset' = [reset EXCEPT !.verified = TRUE]
  /\ UNCHANGED <<account, sessions, challenges, signup, op>>

-----------------------------------------------------------------------------
\* verifySignupOtp: the code stays good, and each use of it issues another token.
VerifySignup(w) ==
  /\ Receive(w) /\ account = None /\ ~signup.consumed
  /\ signup' = [signup EXCEPT !.token = @ + 1]
  /\ UNCHANGED <<account, sessions, challenges, reset, op>>

RegisterRead(w, t) ==
  /\ Receive(w) /\ ~Found /\ t \in 1..signup.token
  /\ Become(w, [Idle EXCEPT !.pc = "signup", !.value = t])
  /\ UNCHANGED <<account, sessions, challenges, signup, reset>>

\* consumeSignupToken: one conditional update.
ConsumeSignup(w) ==
  /\ At(w, "signup") /\ Step
  /\ IF op[w].value = signup.token /\ ~signup.consumed
     THEN signup' = [signup EXCEPT !.consumed = TRUE] /\ Goto(w, "create")
     ELSE Done(w) /\ UNCHANGED signup
  /\ UNCHANGED <<account, sessions, challenges, reset>>

\* createLocalUser: the unique e-mail counts deleted accounts too.
CreateAccount(w) ==
  /\ At(w, "create") /\ Step
  /\ IF account = None
     THEN account' = Fresh /\ Become(w, [op[w] EXCEPT !.pc = "issue", !.seen = Fresh])
     ELSE Done(w) /\ UNCHANGED account
  /\ UNCHANGED <<sessions, challenges, signup, reset>>

\* activateMfaFactor and disableMfa: the factor and the flag change in one transaction.
SetMfa(w, on) ==
  /\ Receive(w) /\ Found /\ account.mfa # on
  /\ account' = [account EXCEPT !.mfa = on]
  /\ UNCHANGED <<sessions, challenges, signup, reset, op>>

-----------------------------------------------------------------------------
\* expiresAt, then absoluteExpiresAt, of a session passes; or a challenge's.
Age(s) ==
  /\ sessions[s] # None /\ sessions[s].age # "over" /\ faults > 0 /\ faults' = faults - 1
  /\ \E age \in {"stale", "over"} : sessions' = [sessions EXCEPT ![s].age = age]
  /\ UNCHANGED <<account, challenges, signup, reset, op, left>>

Lapse(c) ==
  /\ challenges[c] # None /\ challenges[c].live /\ faults > 0 /\ faults' = faults - 1
  /\ challenges' = [challenges EXCEPT ![c].live = FALSE]
  /\ UNCHANGED <<account, sessions, signup, reset, op, left>>

Next ==
  \/ \E w \in Workers :
       \/ LoginRead(w) \/ FailChallenge(w) \/ ConsumeChallenge(w) \/ ReadUser(w)
       \/ RefreshOwner(w) \/ Rotate(w) \/ RevokeWrite(w) \/ StatusWrite(w)
       \/ ResetRead(w) \/ PasswordWrite(w) \/ ConsumeReset(w) \/ RequestReset(w)
       \/ VerifyReset(w) \/ VerifySignup(w) \/ ConsumeSignup(w) \/ CreateAccount(w)
       \/ \E c \in Challenges : Challenge(w, c) \/ \E right \in BOOLEAN : VerifyRead(w, c, right)
       \/ \E s \in Sessions : Issue(w, s) \/ Logout(w, s) \/ ChangeRead(w, s)
       \/ \E s \in Sessions, t \in 1..MaxOps : RefreshRead(w, s, t)
       \/ \E s \in Sessions \cup {None} : RevokeAll(w, s)
       \/ \E status \in Statuses : StatusRead(w, status)
       \/ \E t \in 1..MaxOps : RegisterRead(w, t)
       \/ \E on \in BOOLEAN : SetMfa(w, on)
  \/ \E s \in Sessions : Age(s)
  \/ \E c \in Challenges : Lapse(c)

Spec == Init /\ [][Next]_vars

-----------------------------------------------------------------------------
Accounts == [status : Statuses, password : Nat, mfa : BOOLEAN]

SessionRows ==
  [current : 1..MaxOps, previous : 0..MaxOps, made : 1..MaxOps, age : {"live", "stale", "over"},
   revoked : BOOLEAN]

LoginChallenges == [attempts : 0..MaxAttempts, consumed : BOOLEAN, live : BOOLEAN]

\* The account, its sessions, challenges and codes, and the requests have their shapes.
TypeOK ==
  /\ account \in Accounts \cup {None}
  /\ sessions \in [Sessions -> SessionRows \cup {None}]
  /\ challenges \in [Challenges -> LoginChallenges \cup {None}]
  /\ signup \in [token : 0..MaxOps, consumed : BOOLEAN]
  /\ reset \in [verified : BOOLEAN, consumed : BOOLEAN]
  /\ \A w \in Workers : op[w].seen \in Accounts \cup {None}
  /\ left \in 0..MaxOps /\ faults \in 0..MaxFaults

=============================================================================

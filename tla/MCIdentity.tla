------------------------------ MODULE MCIdentity ------------------------------
(***************************************************************************)
(* Identity with history variables: what each session was issued on, and   *)
(* which requests overlapped.                                              *)
(***************************************************************************)
EXTENDS Identity, FiniteSets

VARIABLES
  basis,      \* [Sessions -> [password, challenge]]: what the session was issued on
  overtaken,  \* sessions issued by a request the account changed under
  raced       \* sessions refreshed by two requests at a time

MCVars == <<vars, basis, overtaken, raced>>

MCInit ==
  /\ Init
  /\ basis = [s \in Sessions |-> None] /\ overtaken = {} /\ raced = {}

Issued == {s \in Sessions : sessions[s] = None /\ sessions'[s] # None}

Issuer == CHOOSE w \in Workers : At(w, "issue") /\ op'[w] # op[w]

\* The session a change of password retains is then on the new password.
Retained(s) == account' # account /\ \E w \in Workers : At(w, "password") /\ op[w].session = s
                                                  /\ op'[w] # op[w]

MCNext ==
  /\ Next
  /\ basis' = [s \in Sessions |->
       IF s \in Issued THEN [password |-> op[Issuer].seen.password, challenge |-> op[Issuer].challenge]
       ELSE IF Retained(s) THEN [basis[s] EXCEPT !.password = account'.password]
       ELSE basis[s]]
  /\ overtaken' = overtaken
       \cup {s \in Issued : [op[Issuer].seen EXCEPT !.mfa = account.mfa] # account}
  /\ raced' = raced \cup
       {s \in Sessions : Cardinality({w \in Workers : op'[w].session = s
                                        /\ op'[w].pc \in {"owner", "rotate"}}) > 1}

MCSpec == MCInit /\ [][MCNext]_MCVars

LiveSessions == {s \in Sessions : sessions[s] # None /\ ~sessions[s].revoked}

\* A session that is not revoked belongs to an active account and was issued on its
\* present password: suspending, deleting or re-keying an account signs it out
\* everywhere, however refreshes, logouts and second factors interleave, unless the
\* request that issued the session had read the account before the change.
SignedOutUnlessOvertaken ==
  \A s \in LiveSessions \ overtaken :
    account.status = "ACTIVE" /\ basis[s].password = account.password

\* However its verifications overlap, a login challenge issues at most one session.
OneSessionPerChallenge ==
  \A s, t \in Sessions :
    /\ s # t /\ basis[s] # None /\ basis[t] # None /\ basis[s].challenge # None
    => basis[s].challenge # basis[t].challenge

\* The last refresh token handed out is the one the session accepts, and the one
\* before it the one whose return revokes the session, unless two refreshes overlapped.
HandedOutUnlessRaced ==
  \A s \in LiveSessions \ raced :
    sessions[s].current = sessions[s].made /\ sessions[s].previous + 1 = sessions[s].made

=============================================================================

-------------------------------- MODULE SignIn --------------------------------
(***************************************************************************)
(* Accounts and sessions: the routes under src/app/api/v1/auth over        *)
(* server/auth, on the PostgreSQL repositories.  A password account is     *)
(* made by several inserts of their own, a Google account by one           *)
(* transaction; a Google callback looks an account up by its subject       *)
(* first and by its email only to refuse, and the unique indexes settle    *)
(* the races that remain.                                                  *)
(*                                                                         *)
(* A user is named by the email it was created with: users_email_uidx      *)
(* keeps it unique, and nothing changes or deletes users.email.  Tokens,   *)
(* hashes and signatures are as good as their parties: a token names its   *)
(* session, a signed transaction its browser.                              *)
(***************************************************************************)
EXTENDS Naturals, FiniteSets

CONSTANTS
    Browsers,
    Subjects,      \* Google accounts, by the sub claim
    Emails,
    Googles,       \* sign-ins with Google, from the start route to the callback's answer
    Signups,       \* requests to create a password account
    Logins,        \* requests with an email and its password
    MaxLogouts,    \* bound: requests to log out
    MaxFaults      \* bound: database calls that fail and processes that die

Requests == Googles \cup Signups \cup Logins

ASSUME SignInAssumption ==
    /\ Googles \cap Signups = {} /\ Googles \cap Logins = {} /\ Signups \cap Logins = {}
    /\ "none" \notin Requests \cup Subjects \cup Emails \cup Browsers
    /\ {MaxLogouts, MaxFaults} \subseteq Nat

VARIABLES
    accounts,    \* users: how the account of an email was made
    members,     \* tenant_memberships: accounts that have a workspace
    identities,  \* auth_identities: the account of a subject
    sessions,    \* sessions, by the request that opened them
    cookies,     \* candidarc_session of a browser: whose session it names
    txns,        \* candidarc_google_oauth of a browser: the sign-in it was set by
    requests,
    count        \* how much of each bound is used

vars == <<accounts, members, identities, sessions, cookies, txns, requests, count>>

-----------------------------------------------------------------------------

Pcs == {"idle", "at_google", "find", "email", "recheck", "create", "raced", "tenant", "member",
        "revoke", "open", "answer", "done", "lost"}

Answers == {"none", "signed_in", "txn_invalid", "link_required", "email_in_use", "refused", "failed"}

\* previous: the session in the cookie the request came with; user: the account found or made.
Idle == [pc |-> "idle", browser |-> "none", subject |-> "none", email |-> "none",
         previous |-> "none", user |-> "none", answer |-> "none"]

SignInTypeOK ==
    /\ accounts \in [Emails -> {"none", "password", "google"}]
    /\ members \subseteq Emails
    /\ identities \in [Subjects -> Emails \cup {"none"}]
    /\ sessions \in [Requests -> {"none", "live", "revoked"}]
    /\ cookies \in [Browsers -> Requests \cup {"none"}]
    /\ txns \in [Browsers -> Googles \cup {"none"}]
    /\ requests \in [Requests -> [pc : Pcs, browser : Browsers \cup {"none"},
                                  subject : Subjects \cup {"none"}, email : Emails \cup {"none"},
                                  previous : Requests \cup {"none"}, user : Emails \cup {"none"},
                                  answer : Answers]]
    /\ count \in [logouts : 0..MaxLogouts, faults : 0..MaxFaults]

Init ==
    /\ accounts = [e \in Emails |-> "none"]
    /\ members = {}
    /\ identities = [s \in Subjects |-> "none"]
    /\ sessions = [r \in Requests |-> "none"]
    /\ cookies = [b \in Browsers |-> "none"]
    /\ txns = [b \in Browsers |-> "none"]
    /\ requests = [r \in Requests |-> Idle]
    /\ count = [logouts |-> 0, faults |-> 0]

At(r, pc) == requests[r].pc = pc

Goes(r, pc) == requests' = [requests EXCEPT ![r].pc = pc]

\* The account is known; what is left is the session.
Found(r, user) == requests' = [requests EXCEPT ![r].pc = "revoke", ![r].user = user]

\* The request ends without a session.  The callback's errors clear the transaction's cookie.
Refuse(r, answer) ==
    /\ requests' = [requests EXCEPT ![r].pc = "done", ![r].answer = answer]
    /\ txns' = IF r \in Googles THEN [txns EXCEPT ![requests[r].browser] = "none"] ELSE txns

-----------------------------------------------------------------------------
(* Google.                                                                  *)

\* The start route: a new transaction replaces the browser's.
Begin(g, b) ==
    /\ At(g, "idle")
    /\ requests' = [requests EXCEPT ![g].pc = "at_google", ![g].browser = b]
    /\ txns' = [txns EXCEPT ![b] = g]
    /\ UNCHANGED <<accounts, members, identities, sessions, cookies, count>>

\* The callback as far as the verified claims.  A subject's email is Google's and may change.
Return(g, s, e) ==
    /\ At(g, "at_google")
    /\ txns[requests[g].browser] = g
    /\ requests' = [requests EXCEPT
                      ![g].pc = "find", ![g].subject = s, ![g].email = e,
                      ![g].previous = cookies[requests[g].browser]]
    /\ UNCHANGED <<accounts, members, identities, sessions, cookies, txns, count>>

\* The cookie is gone, or another tab's: no transaction, or GOOGLE_STATE_MISMATCH.
ReturnMismatched(g) ==
    /\ At(g, "at_google")
    /\ txns[requests[g].browser] # g
    /\ Refuse(g, "txn_invalid")
    /\ UNCHANGED <<accounts, members, identities, sessions, cookies, count>>

\* The person cancels, or Google answers no usable token.
ReturnDenied(g) ==
    /\ At(g, "at_google")
    /\ Refuse(g, "refused")
    /\ UNCHANGED <<accounts, members, identities, sessions, cookies, count>>

FindIdentity(g) ==
    /\ At(g, "find")
    /\ IF identities[requests[g].subject] # "none"
       THEN Found(g, identities[requests[g].subject])
       ELSE Goes(g, "email")
    /\ UNCHANGED <<accounts, members, identities, sessions, cookies, txns, count>>

FindEmailOwner(g) ==
    /\ At(g, "email")
    /\ Goes(g, IF accounts[requests[g].email] # "none" THEN "recheck" ELSE "create")
    /\ UNCHANGED <<accounts, members, identities, sessions, cookies, txns, count>>

\* Mutant: the email's account is taken for the subject's.
RecheckLinks(g) ==
    /\ At(g, "recheck")
    /\ identities' = [identities EXCEPT ![requests[g].subject] = requests[g].email]
    /\ Found(g, requests[g].email)
    /\ UNCHANGED <<accounts, members, sessions, cookies, txns, count>>

\* Mutant: no second look for the subject.
RecheckSkipped(g) ==
    /\ At(g, "recheck")
    /\ Refuse(g, "link_required")
    /\ UNCHANGED <<accounts, members, identities, sessions, cookies, count>>

\* The email has an account: it is this subject's by now, or somebody else's.
Recheck(g) ==
    /\ At(g, "recheck")
    /\ IF identities[requests[g].subject] # "none"
       THEN /\ Found(g, identities[requests[g].subject])
            /\ UNCHANGED txns
       ELSE Refuse(g, "link_required")
    /\ UNCHANGED <<accounts, members, identities, sessions, cookies, count>>

\* createUserWithGoogleIdentity: user, tenant, membership and identity, or none of them.
CreateGoogleUser(g) ==
    LET s == requests[g].subject
        e == requests[g].email IN
    /\ At(g, "create")
    /\ IF accounts[e] = "none" /\ identities[s] = "none"
       THEN /\ accounts' = [accounts EXCEPT ![e] = "google"]
            /\ members' = members \cup {e}
            /\ identities' = [identities EXCEPT ![s] = e]
            /\ Found(g, e)
       ELSE /\ Goes(g, "raced")
            /\ UNCHANGED <<accounts, members, identities>>
    /\ UNCHANGED <<sessions, cookies, txns, count>>

\* Mutant: the winner of the race is taken to be the email's account.
LoadEmailWinner(g) ==
    /\ At(g, "raced")
    /\ IF accounts[requests[g].email] # "none"
       THEN /\ Found(g, requests[g].email)
            /\ UNCHANGED txns
       ELSE Refuse(g, "failed")
    /\ UNCHANGED <<accounts, members, identities, sessions, cookies, count>>

\* Mutant: the error's own code goes to the browser, not the safe one for it.
LoadRaceWinnerRaw(g) ==
    /\ At(g, "raced")
    /\ Refuse(g, "identity_conflict")
    /\ UNCHANGED <<accounts, members, identities, sessions, cookies, count>>

\* The insert threw: the subject has an account by now, or the conflict was over the email.
LoadRaceWinner(g) ==
    /\ At(g, "raced")
    /\ IF identities[requests[g].subject] # "none"
       THEN /\ Found(g, identities[requests[g].subject])
            /\ UNCHANGED txns
       ELSE Refuse(g, "failed")
    /\ UNCHANGED <<accounts, members, identities, sessions, cookies, count>>

-----------------------------------------------------------------------------
(* Passwords.                                                               *)

\* The signup's look at the email.
CheckEmail(p, b, e) ==
    LET taken == accounts[e] # "none" IN
    /\ At(p, "idle")
    /\ requests' = [requests EXCEPT
         ![p] = [Idle EXCEPT !.browser = b, !.email = e,
                             !.pc = IF taken THEN "done" ELSE "create",
                             !.answer = IF taken THEN "email_in_use" ELSE "none"]]
    /\ UNCHANGED <<accounts, members, identities, sessions, cookies, txns, count>>

CreateUser(p) ==
    /\ At(p, "create")
    /\ IF accounts[requests[p].email] = "none"
       THEN /\ accounts' = [accounts EXCEPT ![requests[p].email] = "password"]
            /\ requests' = [requests EXCEPT ![p].pc = "tenant", ![p].user = requests[p].email]
       ELSE /\ Refuse(p, "failed")
            /\ UNCHANGED accounts
    /\ UNCHANGED <<members, identities, sessions, cookies, txns, count>>

\* The tenant's row is of no account until there is a membership.
CreateTenant(p) ==
    /\ At(p, "tenant")
    /\ Goes(p, "member")
    /\ UNCHANGED <<accounts, members, identities, sessions, cookies, txns, count>>

CreateMembership(p) ==
    /\ At(p, "member")
    /\ members' = members \cup {requests[p].user}
    /\ Goes(p, "open")
    /\ UNCHANGED <<accounts, identities, sessions, cookies, txns, count>>

\* The login with the password of e: the user, then its memberships.
Login(l, b, e) ==
    LET passes == accounts[e] = "password" /\ e \in members IN
    /\ At(l, "idle")
    /\ requests' = [requests EXCEPT
         ![l] = [Idle EXCEPT !.browser = b, !.email = e, !.previous = cookies[b],
                             !.user = IF passes THEN e ELSE "none",
                             !.pc = IF passes THEN "revoke" ELSE "done",
                             !.answer = IF passes THEN "none" ELSE "refused"]]
    /\ UNCHANGED <<accounts, members, identities, sessions, cookies, txns, count>>

-----------------------------------------------------------------------------
(* Sessions.                                                                *)

\* Mutant: the session in the cookie is left alone.
KeepPrevious(r) ==
    /\ At(r, "revoke")
    /\ Goes(r, "open")
    /\ UNCHANGED <<accounts, members, identities, sessions, cookies, txns, count>>

\* The callback and the login revoke the session the request came with.
RevokePrevious(r) ==
    /\ At(r, "revoke")
    /\ sessions' = IF requests[r].previous = "none" THEN sessions
                   ELSE [sessions EXCEPT ![requests[r].previous] = "revoked"]
    /\ Goes(r, "open")
    /\ UNCHANGED <<accounts, members, identities, cookies, txns, count>>

\* The callback draws a UUID for its session.  createSession draws "ses_..." when it is given none,
\* as by the signup and the login.
SessionIdIsUuid(r) == r \in Googles

\* sessions.id is a uuid column: any other id is an error of the insert.  On PostgreSQL a signup
\* therefore makes the account and answers that it failed, and a login never opens a session.
OpenSession(r) ==
    /\ At(r, "open")
    /\ IF SessionIdIsUuid(r)
       THEN /\ sessions' = [sessions EXCEPT ![r] = "live"]
            /\ Goes(r, "answer")
            /\ UNCHANGED txns
       ELSE /\ Refuse(r, "failed")
            /\ UNCHANGED sessions
    /\ UNCHANGED <<accounts, members, identities, cookies, count>>

\* The answer reaches the browser: the session's cookie is set, the transaction's cleared.
Answer(r) ==
    LET b == requests[r].browser IN
    /\ At(r, "answer")
    /\ requests' = [requests EXCEPT ![r].pc = "done", ![r].answer = "signed_in"]
    /\ cookies' = [cookies EXCEPT ![b] = r]
    /\ txns' = IF r \in Googles THEN [txns EXCEPT ![b] = "none"] ELSE txns
    /\ UNCHANGED <<accounts, members, identities, sessions, count>>

Logout(b) ==
    /\ count.logouts < MaxLogouts
    /\ cookies[b] # "none"
    /\ sessions' = [sessions EXCEPT ![cookies[b]] = "revoked"]
    /\ cookies' = [cookies EXCEPT ![b] = "none"]
    /\ count' = [count EXCEPT !.logouts = @ + 1]
    /\ UNCHANGED <<accounts, members, identities, txns, requests>>

-----------------------------------------------------------------------------
(* Faults.                                                                  *)

Working(r) == requests[r].pc \notin {"idle", "at_google", "done", "lost"}

\* A database call throws before it takes effect; at "answer" it is the read of the profile for the
\* page to go to.  Whatever the insert of a Google account throws, its winner is looked for.
CallFails(r) ==
    /\ Working(r)
    /\ count.faults < MaxFaults
    /\ IF r \in Googles /\ At(r, "create")
       THEN Goes(r, "raced") /\ UNCHANGED txns
       ELSE Refuse(r, "failed")
    /\ count' = [count EXCEPT !.faults = @ + 1]
    /\ UNCHANGED <<accounts, members, identities, sessions, cookies>>

\* The process dies, or its answer is lost.
Dies(r) ==
    /\ Working(r)
    /\ count.faults < MaxFaults
    /\ Goes(r, "lost")
    /\ count' = [count EXCEPT !.faults = @ + 1]
    /\ UNCHANGED <<accounts, members, identities, sessions, cookies, txns>>

-----------------------------------------------------------------------------

GoogleStep(g) ==
    \/ FindIdentity(g) \/ FindEmailOwner(g) \/ Recheck(g) \/ CreateGoogleUser(g) \/ LoadRaceWinner(g)

Next ==
    \/ \E g \in Googles :
          \/ \E b \in Browsers : Begin(g, b)
          \/ \E s \in Subjects, e \in Emails : Return(g, s, e)
          \/ ReturnMismatched(g) \/ ReturnDenied(g)
          \/ GoogleStep(g)
    \/ \E p \in Signups :
          \/ \E b \in Browsers, e \in Emails : CheckEmail(p, b, e)
          \/ CreateUser(p) \/ CreateTenant(p) \/ CreateMembership(p)
    \/ \E l \in Logins, b \in Browsers, e \in Emails : Login(l, b, e)
    \/ \E r \in Requests : RevokePrevious(r) \/ OpenSession(r) \/ Answer(r) \/ CallFails(r) \/ Dies(r)
    \/ \E b \in Browsers : Logout(b)

Spec == Init /\ [][Next]_vars

-----------------------------------------------------------------------------
(* Properties.                                                              *)

\* A session a callback opens is of the account its subject has, whichever requests raced it
\* (resolveGoogleSignIn's lookups, its insert and the winner it loads).
SignedInAsOneself ==
    \A g \in Googles : sessions[g] # "none" => requests[g].user = identities[requests[g].subject]

\* An account is never linked because its email is the same: one that has a subject was made by
\* Google, and by that subject alone ("without silent email linking", google-account.ts).
NoSilentLink ==
    /\ \A s \in Subjects : identities[s] # "none" => accounts[identities[s]] = "google"
    /\ \A s, t \in Subjects : identities[s] = identities[t] /\ identities[s] # "none" => s = t

\* Who is told that the email has an account to sign in to by another method has no account of
\* their own under that email, not even one that a request of theirs made at the same time.
LinkRefusalIsTrue ==
    \A g \in Googles :
        requests[g].answer = "link_required" => identities[requests[g].subject] # requests[g].email

\* The session a sign-in replaces cannot be used once the new one is in the browser, whatever
\* else the browser had under way.
ReplacedIsRevoked ==
    \A r \in Requests :
        requests[r].answer = "signed_in" /\ requests[r].previous # "none"
            => sessions[requests[r].previous] = "revoked"
=============================================================================

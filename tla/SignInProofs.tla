------------------------------ MODULE SignInProofs ------------------------------
(***************************************************************************)
(* SignIn for any number of browsers, Google accounts, emails and requests *)
(* of each kind: its type, that a sign-in with Google opens a session of   *)
(* the subject's own account, that no account is linked by its email, that *)
(* a refusal to link is true and that a replaced session is revoked.       *)
(***************************************************************************)
EXTENDS SignIn, TLAPS

Request ==
    [pc : Pcs, browser : Browsers \cup {"none"}, subject : Subjects \cup {"none"},
     email : Emails \cup {"none"}, previous : Requests \cup {"none"}, user : Emails \cup {"none"},
     answer : Answers]

\* What the session of a Google request, or its being about to open one, rests on.
OwnAccount(q, ids) == q.subject \in Subjects /\ q.user \in Emails /\ q.user = ids[q.subject]

\* What is known of a request q, named r, by where it is; ses is the table of sessions.
Placed(r, q, ses) ==
    /\ q \in Request
    /\ q.pc # "idle" => q.browser \in Browsers
    /\ q.pc \in {"find", "email", "recheck", "raced"} => q.subject \in Subjects /\ q.email \in Emails
    /\ q.pc = "create" => q.email \in Emails /\ (r \in Googles => q.subject \in Subjects)
    /\ q.pc \in {"tenant", "member"} => q.user \in Emails
    /\ q.answer # "none" => q.pc = "done"
    /\ ses[r] # "none" => q.pc \in {"answer", "done", "lost"}
    /\ q.pc = "answer" => ses[r] # "none"
    /\ r \in Signups => q.previous = "none"

\* What it knows of the accounts stays true.
Resolved(r, q, acc, ids, ses) ==
    /\ q.pc = "recheck" => acc[q.email] # "none"
    /\ r \in Googles /\ (q.pc \in {"revoke", "open", "answer"} \/ ses[r] # "none")
          => OwnAccount(q, ids)
    /\ q.answer = "link_required" =>
          /\ q.subject \in Subjects /\ q.email \in Emails
          /\ acc[q.email] # "none" /\ ids[q.subject] # q.email

\* A session that has reached a browser.
Opened(x, req, ses) == req[x].pc = "done" /\ ses[x] # "none"

\* The session q came with is revoked before q's own is opened.
Replaces(q, req, ses) ==
    q.previous # "none" =>
        /\ Opened(q.previous, req, ses)
        /\ q.pc \in {"open", "answer"} \/ q.answer = "signed_in" => ses[q.previous] = "revoked"

CookiesNameSessions ==
    \A b \in Browsers : cookies[b] # "none" => Opened(cookies[b], requests, sessions)

SIInv ==
    /\ SignInTypeOK
    /\ NoSilentLink
    /\ CookiesNameSessions
    /\ \A r \in Requests :
          /\ Placed(r, requests[r], sessions)
          /\ Resolved(r, requests[r], accounts, identities, sessions)
          /\ Replaces(requests[r], requests, sessions)

-----------------------------------------------------------------------------
(* The kinds of steps.                                                      *)

\* Accounts are only made; a new identity is of a new account.
AccountsGrow ==
    /\ \A e \in Emails : accounts[e] # "none" => accounts'[e] = accounts[e]
    /\ \A s \in Subjects : \/ identities'[s] = identities[s]
                           \/ /\ identities[s] = "none"
                              /\ accounts[identities'[s]] = "none"

\* A session that is there stays, or is revoked; only r may open one.
SessionsAge(r) ==
    \A x \in Requests \ {r} : \/ sessions'[x] = sessions[x]
                              \/ sessions[x] # "none" /\ sessions'[x] = "revoked"

LEMMA ResolvedStays ==
    ASSUME SIInv, SignInTypeOK', AccountsGrow, NEW r \in Requests,
           sessions'[r] = sessions[r] \/ sessions[r] # "none"
    PROVE  Resolved(r, requests[r], accounts', identities', sessions')
<1> DEFINE q == requests[r]
<1>1. q \in Request /\ Placed(r, q, sessions) /\ Resolved(r, q, accounts, identities, sessions)
  BY DEF SIInv, Placed
<1>2. ASSUME OwnAccount(q, identities) PROVE OwnAccount(q, identities')
  BY <1>2, SignInAssumption DEF OwnAccount, AccountsGrow
<1>3. ASSUME q.email \in Emails, accounts[q.email] # "none" PROVE accounts'[q.email] # "none"
  BY <1>3 DEF AccountsGrow
<1>4. ASSUME q.subject \in Subjects, q.email \in Emails, accounts[q.email] # "none",
             identities[q.subject] # q.email
      PROVE  identities'[q.subject] # q.email
  BY <1>4 DEF AccountsGrow
<1> HIDE DEF q
<1>5. q.pc = "recheck" => accounts'[q.email] # "none"
  BY <1>1, <1>3 DEF Placed, Resolved
<1>6. r \in Googles /\ (q.pc \in {"revoke", "open", "answer"} \/ sessions'[r] # "none")
         => OwnAccount(q, identities')
  BY <1>1, <1>2 DEF Resolved
<1>7. q.answer = "link_required" =>
         /\ q.subject \in Subjects /\ q.email \in Emails
         /\ accounts'[q.email] # "none" /\ identities'[q.subject] # q.email
  BY <1>1, <1>3, <1>4 DEF Resolved
<1>8. QED
  BY <1>5, <1>6, <1>7 DEF Resolved, q

\* Request r, not yet done, becomes q.
LEMMA RequestStepKeepsInv ==
    ASSUME SIInv, NEW r \in Requests, NEW q,
           requests' = [requests EXCEPT ![r] = q], requests[r].pc # "done",
           Placed(r, q, sessions'),
           Resolved(r, q, accounts', identities', sessions'),
           q.previous # "none" =>
               /\ Opened(q.previous, requests, sessions)
               /\ q.pc \in {"open", "answer"} \/ q.answer = "signed_in"
                     => sessions'[q.previous] = "revoked",
           SignInTypeOK', NoSilentLink', AccountsGrow, SessionsAge(r),
           \A b \in Browsers : cookies'[b] \in {cookies[b], "none"} \/ cookies'[b] = r,
           (\E b \in Browsers : cookies'[b] = r) => Opened(r, requests', sessions')
    PROVE  SIInv'
<1>1. requests \in [Requests -> Request]
  BY DEF SIInv, SignInTypeOK, Request
<1>2. requests'[r] = q /\ \A x \in Requests \ {r} : requests'[x] = requests[x]
  BY <1>1
<1>3. \A x \in Requests : Opened(x, requests, sessions) =>
         x # r /\ Opened(x, requests', sessions')
  BY <1>2 DEF Opened, SessionsAge
<1>4. ASSUME NEW x \in Requests
      PROVE  Replaces(requests'[x], requests', sessions')
  <2>1. CASE x = r
    <3>1. q.previous \in Requests \cup {"none"}
      BY DEF Placed, Request
    <3>2. QED
      BY <1>2, <1>3, <2>1, <3>1 DEF Replaces
  <2>2. CASE x # r
    <3>1. requests'[x] = requests[x] /\ Replaces(requests[x], requests, sessions)
      BY <1>2, <2>2 DEF SIInv
    <3>2. requests[x].previous \in Requests \cup {"none"}
      BY <1>1 DEF Request
    <3>3. requests[x].previous # "none" =>
             /\ Opened(requests[x].previous, requests', sessions')
             /\ sessions[requests[x].previous] = "revoked"
                   => sessions'[requests[x].previous] = "revoked"
      BY <1>3, <3>1, <3>2 DEF Replaces, SessionsAge
    <3>4. QED
      BY <3>1, <3>3 DEF Replaces
  <2>3. QED
    BY <2>1, <2>2
<1>5. CookiesNameSessions'
  <2> SUFFICES ASSUME NEW b \in Browsers, cookies'[b] # "none"
               PROVE  Opened(cookies'[b], requests', sessions')
    BY DEF CookiesNameSessions
  <2>1. cookies[b] \in Requests \cup {"none"}
    BY DEF SIInv, SignInTypeOK
  <2>2. CASE cookies'[b] = r
    BY <2>2
  <2>3. CASE cookies'[b] = cookies[b]
    BY <1>3, <2>1, <2>3 DEF SIInv, CookiesNameSessions
  <2>4. QED
    BY <2>2, <2>3
<1>6. ASSUME NEW x \in Requests
      PROVE  /\ Placed(x, requests'[x], sessions')
             /\ Resolved(x, requests'[x], accounts', identities', sessions')
  <2>1. CASE x = r
    BY <1>2, <2>1
  <2>2. CASE x # r
    <3>1. requests'[x] = requests[x] /\ Placed(x, requests[x], sessions)
      BY <1>2, <2>2 DEF SIInv
    <3>2. \/ sessions'[x] = sessions[x]
          \/ sessions[x] # "none" /\ sessions'[x] = "revoked"
      BY <2>2 DEF SessionsAge
    <3>3. Placed(x, requests[x], sessions')
      BY <3>1, <3>2 DEF Placed
    <3>4. QED
      BY <3>1, <3>2, <3>3, ResolvedStays
  <2>3. QED
    BY <2>1, <2>2
<1>7. QED
  BY <1>4, <1>5, <1>6 DEF SIInv

\* Request r becomes q and no account, session or cookie of a session changes.
LEMMA QuietStepKeepsInv ==
    ASSUME SIInv, NEW r \in Requests, NEW q,
           requests' = [requests EXCEPT ![r] = q], requests[r].pc # "done",
           Placed(r, q, sessions),
           Resolved(r, q, accounts, identities, sessions),
           Replaces(q, requests, sessions),
           UNCHANGED <<accounts, identities, sessions, cookies>>,
           members' \subseteq Emails,
           txns' \in [Browsers -> Googles \cup {"none"}],
           count' \in [logouts : 0..MaxLogouts, faults : 0..MaxFaults]
    PROVE  SIInv'
<1>1. requests' \in [Requests -> Request]
  BY DEF SIInv, SignInTypeOK, Placed, Request
<1>2. SignInTypeOK' /\ NoSilentLink'
  BY <1>1 DEF SIInv, SignInTypeOK, Request, NoSilentLink
<1>3. AccountsGrow /\ SessionsAge(r)
  BY DEF AccountsGrow, SessionsAge
<1>4. ~ \E b \in Browsers : cookies'[b] = r
  BY SignInAssumption DEF SIInv, CookiesNameSessions, Opened
<1>5. QED
  BY <1>2, <1>3, <1>4, RequestStepKeepsInv DEF Replaces

\* Request r goes on to a step that rests on nothing but where it was.
LEMMA GoingKeepsInv ==
    ASSUME SIInv, NEW r \in Requests, NEW pc \in Pcs, Goes(r, pc), requests[r].pc # "done",
           Placed(r, [requests[r] EXCEPT !.pc = pc], sessions),
           pc \notin {"revoke", "open", "answer"},
           pc = "recheck" => accounts[requests[r].email] # "none",
           UNCHANGED <<accounts, identities, sessions, cookies, txns>>,
           members' \subseteq Emails,
           count' \in [logouts : 0..MaxLogouts, faults : 0..MaxFaults]
    PROVE  SIInv'
<1> DEFINE q == [requests[r] EXCEPT !.pc = pc]
<1>1. /\ requests[r] \in Request /\ txns \in [Browsers -> Googles \cup {"none"}]
      /\ Resolved(r, requests[r], accounts, identities, sessions)
      /\ Replaces(requests[r], requests, sessions)
      /\ Placed(r, requests[r], sessions)
  BY DEF SIInv, Placed, SignInTypeOK
<1>2. /\ q.pc = pc /\ q.previous = requests[r].previous /\ q.answer = requests[r].answer
      /\ q.email = requests[r].email /\ q.subject = requests[r].subject /\ q.user = requests[r].user
  BY <1>1 DEF Request
<1>3. requests' = [requests EXCEPT ![r] = q]
  BY <1>1 DEF Goes, SIInv, SignInTypeOK, Request
<1> HIDE DEF q
<1>4. Resolved(r, q, accounts, identities, sessions) /\ Replaces(q, requests, sessions)
  BY <1>1, <1>2 DEF Resolved, Replaces, OwnAccount, Placed
<1>5. Placed(r, q, sessions)
  BY DEF q
<1>6. QED
  BY <1>1, <1>3, <1>4, <1>5, QuietStepKeepsInv

\* Request r ends without a session.
LEMMA RefusalKeepsInv ==
    ASSUME SIInv, NEW r \in Requests,
           NEW answer \in {"txn_invalid", "link_required", "email_in_use", "refused", "failed"},
           Refuse(r, answer), requests[r].pc \notin {"idle", "done", "lost"},
           answer = "link_required" =>
               /\ requests[r].subject \in Subjects /\ requests[r].email \in Emails
               /\ accounts[requests[r].email] # "none" /\ identities[requests[r].subject] = "none",
           UNCHANGED <<accounts, members, identities, sessions, cookies>>,
           count' \in [logouts : 0..MaxLogouts, faults : 0..MaxFaults]
    PROVE  SIInv'
<1> DEFINE q == [requests[r] EXCEPT !.pc = "done", !.answer = answer]
<1>1. /\ requests[r] \in Request /\ members \subseteq Emails
      /\ txns' \in [Browsers -> Googles \cup {"none"}]
      /\ Resolved(r, requests[r], accounts, identities, sessions)
      /\ Replaces(requests[r], requests, sessions)
      /\ Placed(r, requests[r], sessions)
  BY DEF SIInv, Placed, SignInTypeOK, Refuse
<1>2. /\ q \in Request /\ q.pc = "done" /\ q.answer = answer /\ q.previous = requests[r].previous
      /\ q.browser = requests[r].browser
      /\ q.email = requests[r].email /\ q.subject = requests[r].subject /\ q.user = requests[r].user
  BY <1>1 DEF Request, Pcs, Answers
<1>3. requests' = [requests EXCEPT ![r] = q]
  <2>1. requests' = [requests EXCEPT ![r].pc = "done", ![r].answer = answer]
    BY DEF Refuse
  <2>2. requests \in [Requests -> Request]
    BY DEF SIInv, SignInTypeOK, Request
  <2>3. QED
    BY <2>1, <2>2 DEF Request
<1> HIDE DEF q
<1>4. Resolved(r, q, accounts, identities, sessions) /\ Replaces(q, requests, sessions)
  BY <1>1, <1>2, SignInAssumption DEF Resolved, Replaces, OwnAccount
<1>5. Placed(r, q, sessions)
  BY <1>1, <1>2 DEF Placed
<1>6. QED
  BY <1>1, <1>3, <1>4, <1>5, QuietStepKeepsInv

\* Google's request r has the account its subject has.
LEMMA FindingKeepsInv ==
    ASSUME SIInv, NEW r \in Googles, requests[r].pc \in {"find", "recheck", "raced"},
           identities[requests[r].subject] # "none",
           Found(r, identities[requests[r].subject]),
           UNCHANGED <<accounts, members, identities, sessions, cookies, txns, count>>
    PROVE  SIInv'
<1> DEFINE user == identities[requests[r].subject]
           q == [requests[r] EXCEPT !.pc = "revoke", !.user = user]
<1>1. /\ r \in Requests /\ r \notin Signups /\ requests[r] \in Request /\ members \subseteq Emails
      /\ txns \in [Browsers -> Googles \cup {"none"}]
      /\ Placed(r, requests[r], sessions) /\ Replaces(requests[r], requests, sessions)
      /\ count \in [logouts : 0..MaxLogouts, faults : 0..MaxFaults]
  BY SignInAssumption DEF SIInv, SignInTypeOK, Requests, Placed
<1>2. requests[r].subject \in Subjects /\ user \in Emails
  BY <1>1 DEF Placed, SIInv, SignInTypeOK
<1>3. /\ q \in Request /\ q.pc = "revoke" /\ q.user = user /\ q.previous = requests[r].previous
      /\ q.subject = requests[r].subject /\ q.answer = requests[r].answer
      /\ q.browser = requests[r].browser
  BY <1>1, <1>2 DEF Request, Pcs
<1>4. requests' = [requests EXCEPT ![r] = q]
  BY <1>1 DEF Found, SIInv, SignInTypeOK, Request
<1>5. OwnAccount(q, identities) /\ requests[r].answer = "none" /\ sessions[r] = "none"
  BY <1>1, <1>2, <1>3 DEF OwnAccount, Placed
<1> HIDE DEF q
<1>6. Resolved(r, q, accounts, identities, sessions) /\ Replaces(q, requests, sessions)
  BY <1>1, <1>3, <1>5 DEF Resolved, Replaces
<1>7. Placed(r, q, sessions)
  BY <1>1, <1>3, <1>5 DEF Placed
<1>8. QED
  BY <1>1, <1>4, <1>6, <1>7, QuietStepKeepsInv

-----------------------------------------------------------------------------
(* Sign-ins with Google.                                                    *)

LEMMA RequestsAreTyped ==
    ASSUME SIInv
    PROVE  /\ requests \in [Requests -> Request] /\ members \subseteq Emails
           /\ txns \in [Browsers -> Googles \cup {"none"}]
           /\ cookies \in [Browsers -> Requests \cup {"none"}]
           /\ count \in [logouts : 0..MaxLogouts, faults : 0..MaxFaults]
           /\ \A r \in Requests :
                 requests[r] \in Request /\ Placed(r, requests[r], sessions)
                 /\ (requests[r].pc # "done" => requests[r].answer = "none")
<1>1. requests \in [Requests -> Request]
  BY DEF SIInv, SignInTypeOK, Request
<1>2. \A r \in Requests :
         requests[r] \in Request /\ Placed(r, requests[r], sessions)
         /\ (requests[r].pc # "done" => requests[r].answer = "none")
  BY <1>1 DEF SIInv, Placed
<1>3. QED
  BY <1>1, <1>2 DEF SIInv, SignInTypeOK

LEMMA BeginKeepsInv ==
    ASSUME SIInv, NEW g \in Googles, NEW b \in Browsers, Begin(g, b)
    PROVE  SIInv'
<1> DEFINE q == [requests[g] EXCEPT !.pc = "at_google", !.browser = b]
<1>1. g \in Requests /\ g \notin Signups /\ requests[g].pc = "idle"
  BY SignInAssumption DEF Requests, Begin, At
<1>2. /\ q \in Request /\ q.pc = "at_google" /\ q.browser = b /\ q.answer = "none"
      /\ q.previous = requests[g].previous /\ sessions[g] = "none"
  <2>1. requests[g] \in Request /\ requests[g].answer = "none" /\ sessions[g] = "none"
    BY <1>1, RequestsAreTyped DEF Placed
  <2>2. QED
    BY <1>1, <2>1 DEF Request, Pcs
<1>3. requests' = [requests EXCEPT ![g] = q]
  BY RequestsAreTyped DEF Begin, Request
<1>4. Replaces(requests[g], requests, sessions)
  BY <1>1 DEF SIInv
<1> HIDE DEF q
<1>5. /\ Placed(g, q, sessions) /\ Replaces(q, requests, sessions)
      /\ Resolved(g, q, accounts, identities, sessions)
  BY <1>1, <1>2, <1>4 DEF Placed, Resolved, Replaces
<1>6. QED
  BY <1>1, <1>3, <1>5, RequestsAreTyped, QuietStepKeepsInv DEF Begin

LEMMA ReturnKeepsInv ==
    ASSUME SIInv, NEW g \in Googles, NEW s \in Subjects, NEW e \in Emails, Return(g, s, e)
    PROVE  SIInv'
<1> DEFINE prev == cookies[requests[g].browser]
           q == [requests[g] EXCEPT !.pc = "find", !.subject = s, !.email = e, !.previous = prev]
<1>1. g \in Requests /\ g \notin Signups /\ requests[g].pc = "at_google"
  BY SignInAssumption DEF Requests, Return, At
<1>2. /\ requests[g].browser \in Browsers /\ prev \in Requests \cup {"none"}
      /\ sessions[g] = "none" /\ requests[g].answer = "none"
  BY <1>1, RequestsAreTyped DEF Placed
<1>3. /\ q \in Request /\ q.pc = "find" /\ q.browser \in Browsers /\ q.answer = "none"
      /\ q.subject = s /\ q.email = e /\ q.previous = prev
  BY <1>1, <1>2, RequestsAreTyped DEF Request, Pcs
<1>4. requests' = [requests EXCEPT ![g] = q]
  BY RequestsAreTyped DEF Return, Request
<1>5. prev # "none" => Opened(prev, requests, sessions)
  BY <1>2 DEF SIInv, CookiesNameSessions
<1> HIDE DEF q, prev
<1>6. /\ Placed(g, q, sessions) /\ Replaces(q, requests, sessions)
      /\ Resolved(g, q, accounts, identities, sessions)
  BY <1>1, <1>2, <1>3, <1>5 DEF Placed, Resolved, Replaces
<1>7. QED
  BY <1>1, <1>4, <1>6, RequestsAreTyped, QuietStepKeepsInv DEF Return

LEMMA ReturnRefusedKeepsInv ==
    ASSUME SIInv, NEW g \in Googles, ReturnMismatched(g) \/ ReturnDenied(g)
    PROVE  SIInv'
<1>1. g \in Requests
  BY DEF Requests
<1>2. QED
  BY <1>1, RequestsAreTyped, RefusalKeepsInv DEF ReturnMismatched, ReturnDenied, At

LEMMA LookupKeepsInv ==
    ASSUME SIInv, NEW g \in Googles,
           FindIdentity(g) \/ FindEmailOwner(g) \/ Recheck(g) \/ LoadRaceWinner(g)
    PROVE  SIInv'
<1> USE DEF At
<1>1. g \in Requests /\ g \notin Signups
  BY SignInAssumption DEF Requests
<1>2. /\ requests[g].subject \in Subjects /\ requests[g].email \in Emails
      /\ requests[g].pc # "done" /\ sessions[g] = "none" /\ requests[g] \in Request
      /\ requests[g].answer = "none" /\ requests[g].browser \in Browsers
  BY <1>1, RequestsAreTyped
  DEF Placed, FindIdentity, FindEmailOwner, Recheck, LoadRaceWinner
<1>3. \A pc \in {"email", "recheck", "create"} :
         pc \in Pcs /\ Placed(g, [requests[g] EXCEPT !.pc = pc], sessions)
  <2> SUFFICES ASSUME NEW pc \in {"email", "recheck", "create"}
               PROVE  pc \in Pcs /\ Placed(g, [requests[g] EXCEPT !.pc = pc], sessions)
    OBVIOUS
  <2> DEFINE q == [requests[g] EXCEPT !.pc = pc]
  <2>1. /\ q \in Request /\ q.pc = pc /\ q.subject \in Subjects /\ q.email \in Emails
        /\ q.browser \in Browsers /\ q.answer = "none" /\ pc \in Pcs
    BY <1>2 DEF Request, Pcs
  <2> HIDE DEF q
  <2>2. Placed(g, q, sessions)
    BY <1>1, <1>2, <2>1 DEF Placed
  <2>3. QED
    BY <2>1, <2>2 DEF q
<1>4. CASE FindIdentity(g)
  BY <1>1, <1>2, <1>3, <1>4, RequestsAreTyped, FindingKeepsInv, GoingKeepsInv DEF FindIdentity
<1>5. CASE FindEmailOwner(g)
  BY <1>1, <1>2, <1>3, <1>5, RequestsAreTyped, GoingKeepsInv DEF FindEmailOwner
<1>6. CASE Recheck(g)
  <2>1. accounts[requests[g].email] # "none"
    BY <1>1, <1>6 DEF Recheck, SIInv, Resolved
  <2>2. QED
    BY <1>1, <1>2, <1>6, <2>1, RequestsAreTyped, FindingKeepsInv, RefusalKeepsInv DEF Recheck
<1>7. CASE LoadRaceWinner(g)
  BY <1>1, <1>2, <1>7, RequestsAreTyped, FindingKeepsInv, RefusalKeepsInv DEF LoadRaceWinner
<1>8. QED
  BY <1>4, <1>5, <1>6, <1>7

LEMMA CreateGoogleUserKeepsInv ==
    ASSUME SIInv, NEW g \in Googles, CreateGoogleUser(g)
    PROVE  SIInv'
<1> DEFINE s == requests[g].subject
           e == requests[g].email
<1>1. g \in Requests /\ g \notin Signups /\ requests[g].pc = "create"
  BY SignInAssumption DEF Requests, CreateGoogleUser, At
<1>2. /\ s \in Subjects /\ e \in Emails /\ sessions[g] = "none" /\ requests[g] \in Request
      /\ requests[g].answer = "none" /\ requests[g].browser \in Browsers
  BY <1>1, RequestsAreTyped DEF Placed
<1>3. CASE ~(accounts[e] = "none" /\ identities[s] = "none")
  <2> DEFINE q == [requests[g] EXCEPT !.pc = "raced"]
  <2>1. /\ q \in Request /\ q.pc = "raced" /\ q.subject \in Subjects /\ q.email \in Emails
        /\ q.browser \in Browsers /\ q.answer = "none" /\ "raced" \in Pcs
    BY <1>2 DEF Request, Pcs
  <2> HIDE DEF q
  <2>2. Placed(g, q, sessions)
    BY <1>1, <1>2, <2>1 DEF Placed
  <2>3. Goes(g, "raced") /\ UNCHANGED <<accounts, members, identities, sessions, cookies, txns, count>>
    BY <1>3 DEF CreateGoogleUser
  <2>4. QED
    BY <1>1, <2>1, <2>2, <2>3, RequestsAreTyped, GoingKeepsInv DEF q
<1>4. CASE accounts[e] = "none" /\ identities[s] = "none"
  <2> DEFINE q == [requests[g] EXCEPT !.pc = "revoke", !.user = e]
  <2>1. /\ accounts' = [accounts EXCEPT ![e] = "google"] /\ members' = members \cup {e}
        /\ identities' = [identities EXCEPT ![s] = e] /\ Found(g, e)
        /\ UNCHANGED <<sessions, cookies, txns, count>>
    BY <1>4 DEF CreateGoogleUser
  <2>2. /\ q \in Request /\ q.pc = "revoke" /\ q.user = e /\ q.previous = requests[g].previous
        /\ q.subject = s /\ q.answer = "none" /\ q.browser \in Browsers
    BY <1>2 DEF Request, Pcs
  <2>3. requests' = [requests EXCEPT ![g] = q]
    BY <2>1, RequestsAreTyped DEF Found, Request
  <2> HIDE DEF q
  <2>4. identities \in [Subjects -> Emails \cup {"none"}] /\ identities'[s] = e
    BY <1>2, <2>1 DEF SIInv, SignInTypeOK
  <2>5. Placed(g, q, sessions') /\ Resolved(g, q, accounts', identities', sessions')
    BY <1>1, <1>2, <2>1, <2>2, <2>4 DEF Placed, Resolved, OwnAccount
  <2>6. requests' \in [Requests -> Request]
    BY <2>2, <2>3, RequestsAreTyped
  <2>7. SignInTypeOK'
    BY <1>2, <2>1, <2>6, RequestsAreTyped DEF SIInv, SignInTypeOK, Request
  <2>8. NoSilentLink'
    <3>1. \A t \in Subjects : identities[t] # e
      BY <1>2, <1>4, SignInAssumption DEF SIInv, NoSilentLink
    <3>2. \A t \in Subjects : identities[t] # "none" =>
             identities[t] \in Emails /\ accounts'[identities[t]] = "google"
      BY <1>2, <1>4, <2>1, <2>4, <3>1 DEF SIInv, NoSilentLink, SignInTypeOK
    <3>3. accounts'[e] = "google"
      BY <1>2, <2>1 DEF SIInv, SignInTypeOK
    <3>4. \A t \in Subjects : t # s => identities'[t] = identities[t]
      BY <2>1, <2>4
    <3>5. \A t, u \in Subjects : identities[t] = identities[u] /\ identities[t] # "none" => t = u
      BY DEF SIInv, NoSilentLink
    <3> HIDE DEF s, e
    <3>6. QED
      BY <2>4, <3>1, <3>2, <3>3, <3>4, <3>5 DEF NoSilentLink
  <2>9. AccountsGrow /\ SessionsAge(g)
    BY <1>2, <1>4, <2>1, <2>4 DEF AccountsGrow, SessionsAge, SIInv, SignInTypeOK
  <2>10. Replaces(requests[g], requests, sessions)
    BY <1>1 DEF SIInv
  <2>11. ~ \E b \in Browsers : cookies'[b] = g
    BY <1>1, <2>1, SignInAssumption DEF SIInv, CookiesNameSessions, Opened
  <2>12. QED
    BY <1>1, <2>1, <2>2, <2>3, <2>5, <2>7, <2>8, <2>9, <2>10, <2>11, RequestStepKeepsInv DEF Replaces
<1>5. QED
  BY <1>3, <1>4

-----------------------------------------------------------------------------
(* Passwords.                                                               *)

LEMMA CheckEmailKeepsInv ==
    ASSUME SIInv, NEW p \in Signups, NEW b \in Browsers, NEW e \in Emails, CheckEmail(p, b, e)
    PROVE  SIInv'
<1> DEFINE pc == IF accounts[e] # "none" THEN "done" ELSE "create"
           answer == IF accounts[e] # "none" THEN "email_in_use" ELSE "none"
           q == [Idle EXCEPT !.browser = b, !.email = e, !.pc = pc, !.answer = answer]
<1>1. p \in Requests /\ p \notin Googles /\ requests[p].pc = "idle" /\ sessions[p] = "none"
  BY SignInAssumption, RequestsAreTyped DEF Requests, CheckEmail, At, Placed
<1>2. requests' = [requests EXCEPT ![p] = q]
  BY DEF CheckEmail
<1>3. /\ pc \in {"done", "create"} /\ answer \in {"none", "email_in_use"}
      /\ answer # "none" => pc = "done"
  OBVIOUS
<1> HIDE DEF pc, answer
<1>4. /\ q \in Request /\ q.pc = pc /\ q.browser = b /\ q.email = e /\ q.answer = answer
      /\ q.previous = "none"
  BY <1>3 DEF Idle, Request, Pcs, Answers
<1> HIDE DEF q
<1>5. /\ Placed(p, q, sessions) /\ Replaces(q, requests, sessions)
      /\ Resolved(p, q, accounts, identities, sessions)
  BY <1>1, <1>3, <1>4 DEF Placed, Resolved, Replaces
<1>6. QED
  BY <1>1, <1>2, <1>5, RequestsAreTyped, QuietStepKeepsInv DEF CheckEmail

LEMMA CreateUserKeepsInv ==
    ASSUME SIInv, NEW p \in Signups, CreateUser(p)
    PROVE  SIInv'
<1> DEFINE e == requests[p].email
           q == [requests[p] EXCEPT !.pc = "tenant", !.user = e]
<1>1. p \in Requests /\ p \notin Googles /\ requests[p].pc = "create"
  BY SignInAssumption DEF Requests, CreateUser, At
<1>2. /\ requests[p] \in Request /\ requests[p].answer = "none" /\ requests[p].previous = "none"
      /\ sessions[p] = "none" /\ e \in Emails /\ requests[p].browser \in Browsers
  BY <1>1, RequestsAreTyped DEF Placed
<1>3. CASE accounts[e] # "none"
  BY <1>1, <1>2, <1>3, RequestsAreTyped, RefusalKeepsInv DEF CreateUser
<1>4. CASE accounts[e] = "none"
  <2>1. /\ accounts' = [accounts EXCEPT ![e] = "password"]
        /\ UNCHANGED <<members, identities, sessions, cookies, txns, count>>
    BY <1>4 DEF CreateUser
  <2>2. requests' = [requests EXCEPT ![p] = q]
    BY <1>4, RequestsAreTyped DEF CreateUser, Request
  <2>3. /\ q \in Request /\ q.pc = "tenant" /\ q.previous = "none" /\ q.answer = "none"
        /\ q.browser \in Browsers /\ q.user = e
    BY <1>2 DEF Request, Pcs
  <2> HIDE DEF q
  <2>4. Placed(p, q, sessions') /\ Resolved(p, q, accounts', identities', sessions')
    BY <1>1, <1>2, <2>1, <2>3 DEF Placed, Resolved
  <2>5. SignInTypeOK'
    <3>1. requests' \in [Requests -> Request]
      BY <2>2, <2>3, RequestsAreTyped
    <3>2. QED
      BY <1>2, <2>1, <3>1 DEF SIInv, SignInTypeOK, Request
  <2>6. NoSilentLink' /\ AccountsGrow /\ SessionsAge(p)
    BY <1>2, <1>4, <2>1 DEF SIInv, SignInTypeOK, NoSilentLink, AccountsGrow, SessionsAge
  <2>7. ~ \E b \in Browsers : cookies'[b] = p
    BY <1>1, <2>1, SignInAssumption DEF SIInv, CookiesNameSessions, Opened
  <2>8. QED
    BY <1>1, <2>1, <2>2, <2>3, <2>4, <2>5, <2>6, <2>7, RequestStepKeepsInv
<1>5. QED
  BY <1>3, <1>4

LEMMA WorkspaceKeepsInv ==
    ASSUME SIInv, NEW p \in Signups, CreateTenant(p) \/ CreateMembership(p)
    PROVE  SIInv'
<1>1. p \in Requests /\ p \notin Googles
  BY SignInAssumption DEF Requests
<1>2. /\ requests[p] \in Request /\ requests[p].previous = "none" /\ requests[p].answer = "none"
      /\ sessions[p] = "none" /\ requests[p].pc \in {"tenant", "member"}
      /\ requests[p].browser \in Browsers /\ requests[p].user \in Emails
      /\ Resolved(p, requests[p], accounts, identities, sessions)
  BY <1>1, RequestsAreTyped DEF CreateTenant, CreateMembership, At, Placed, SIInv
<1>3. ASSUME NEW pc \in {"member", "open"}, Goes(p, pc),
             UNCHANGED <<accounts, identities, sessions, cookies, txns, count>>,
             members' \subseteq Emails
      PROVE  SIInv'
  <2> DEFINE q == [requests[p] EXCEPT !.pc = pc]
  <2>1. /\ q \in Request /\ q.pc = pc /\ q.previous = "none" /\ q.answer = "none"
        /\ q.user = requests[p].user /\ q.browser \in Browsers
    BY <1>2 DEF Request, Pcs
  <2>2. requests' = [requests EXCEPT ![p] = q]
    BY <1>3, RequestsAreTyped DEF Goes, Request
  <2> HIDE DEF q
  <2>3. /\ Placed(p, q, sessions) /\ Replaces(q, requests, sessions)
        /\ Resolved(p, q, accounts, identities, sessions)
    BY <1>1, <1>2, <1>3, <2>1 DEF Placed, Resolved, Replaces
  <2>4. QED
    BY <1>1, <1>2, <1>3, <2>2, <2>3, RequestsAreTyped, QuietStepKeepsInv
<1>4. QED
  BY <1>2, <1>3, RequestsAreTyped DEF CreateTenant, CreateMembership

LEMMA LoginKeepsInv ==
    ASSUME SIInv, NEW l \in Logins, NEW b \in Browsers, NEW e \in Emails, Login(l, b, e)
    PROVE  SIInv'
<1> DEFINE passes == accounts[e] = "password" /\ e \in members
           user == IF passes THEN e ELSE "none"
           pc == IF passes THEN "revoke" ELSE "done"
           answer == IF passes THEN "none" ELSE "refused"
           q == [Idle EXCEPT !.browser = b, !.email = e, !.previous = cookies[b],
                             !.user = user, !.pc = pc, !.answer = answer]
<1>1. /\ l \in Requests /\ l \notin Googles /\ l \notin Signups
      /\ requests[l].pc = "idle" /\ sessions[l] = "none"
  BY SignInAssumption, RequestsAreTyped DEF Requests, Login, At, Placed
<1>2. requests' = [requests EXCEPT ![l] = q]
  BY DEF Login
<1>3. /\ pc \in {"done", "revoke"} /\ answer \in {"none", "refused"} /\ user \in Emails \cup {"none"}
      /\ answer # "none" => pc = "done"
  OBVIOUS
<1> HIDE DEF user, pc, answer
<1>4. /\ q \in Request /\ q.pc = pc /\ q.browser = b /\ q.email = e /\ q.answer = answer
      /\ q.previous = cookies[b]
  BY <1>3, RequestsAreTyped DEF Idle, Request, Pcs, Answers
<1> HIDE DEF q
<1>5. cookies[b] # "none" => Opened(cookies[b], requests, sessions)
  BY DEF SIInv, CookiesNameSessions
<1>6. /\ Placed(l, q, sessions) /\ Replaces(q, requests, sessions)
      /\ Resolved(l, q, accounts, identities, sessions)
  BY <1>1, <1>3, <1>4, <1>5 DEF Placed, Resolved, Replaces
<1>7. QED
  BY <1>1, <1>2, <1>6, RequestsAreTyped, QuietStepKeepsInv DEF Login

-----------------------------------------------------------------------------
(* Sessions and faults.                                                     *)

LEMMA RevokePreviousKeepsInv ==
    ASSUME SIInv, NEW r \in Requests, RevokePrevious(r)
    PROVE  SIInv'
<1> DEFINE prev == requests[r].previous
           q == [requests[r] EXCEPT !.pc = "open"]
<1>1. /\ requests[r] \in Request /\ requests[r].pc = "revoke" /\ requests[r].answer = "none"
      /\ requests[r].browser \in Browsers /\ prev \in Requests \cup {"none"}
      /\ r \in Signups => prev = "none"
      /\ sessions[r] = "none"
      /\ Resolved(r, requests[r], accounts, identities, sessions)
  BY RequestsAreTyped DEF RevokePrevious, At, Placed, Request, SIInv
<1>2. prev # "none" => Opened(prev, requests, sessions) /\ prev # r
  BY <1>1 DEF SIInv, Replaces, Opened
<1>3. /\ q \in Request /\ q.pc = "open" /\ q.previous = prev /\ q.answer = "none"
      /\ q.subject = requests[r].subject /\ q.user = requests[r].user /\ q.browser \in Browsers
  BY <1>1 DEF Request, Pcs
<1>4. requests' = [requests EXCEPT ![r] = q] /\ requests' \in [Requests -> Request]
  BY <1>3, RequestsAreTyped DEF RevokePrevious, Goes, Request
<1>5. /\ sessions' \in [Requests -> {"none", "live", "revoked"}] /\ sessions'[r] = "none"
      /\ prev # "none" => sessions'[prev] = "revoked"
      /\ \A x \in Requests : x # prev => sessions'[x] = sessions[x]
      /\ UNCHANGED <<accounts, members, identities, cookies, txns, count>>
  BY <1>1, <1>2 DEF RevokePrevious, SIInv, SignInTypeOK
<1> HIDE DEF q
<1>6. Placed(r, q, sessions') /\ Resolved(r, q, accounts', identities', sessions')
  BY <1>1, <1>3, <1>5 DEF Placed, Resolved, OwnAccount
<1>7. SignInTypeOK'
  BY <1>4, <1>5 DEF SIInv, SignInTypeOK, Request
<1>8. NoSilentLink' /\ AccountsGrow /\ SessionsAge(r)
  <2>1. NoSilentLink' /\ AccountsGrow
    BY <1>5 DEF SIInv, NoSilentLink, AccountsGrow
  <2>2. \A x \in Requests : x = prev => prev # "none" /\ sessions[x] # "none"
    BY <1>2, SignInAssumption DEF Opened
  <2> HIDE DEF prev
  <2>3. SessionsAge(r)
    BY <1>5, <2>2 DEF SessionsAge
  <2>4. QED
    BY <2>1, <2>3
<1>9. ~ \E b \in Browsers : cookies'[b] = r
  BY <1>1, <1>5, SignInAssumption DEF SIInv, CookiesNameSessions, Opened
<1>10. QED
  BY <1>1, <1>2, <1>3, <1>4, <1>5, <1>6, <1>7, <1>8, <1>9, RequestStepKeepsInv

LEMMA OpenSessionKeepsInv ==
    ASSUME SIInv, NEW r \in Requests, OpenSession(r)
    PROVE  SIInv'
<1> DEFINE q == [requests[r] EXCEPT !.pc = "answer"]
<1>1. /\ requests[r] \in Request /\ requests[r].pc = "open" /\ requests[r].answer = "none"
      /\ requests[r].browser \in Browsers /\ requests[r].previous \in Requests \cup {"none"}
      /\ r \in Signups => requests[r].previous = "none"
      /\ Resolved(r, requests[r], accounts, identities, sessions)
  BY RequestsAreTyped DEF OpenSession, At, Placed, Request, SIInv
<1>2. CASE ~SessionIdIsUuid(r)
  BY <1>1, <1>2, RequestsAreTyped, RefusalKeepsInv DEF OpenSession
<1>3. CASE SessionIdIsUuid(r)
  <2>1. /\ sessions' = [sessions EXCEPT ![r] = "live"] /\ Goes(r, "answer")
        /\ UNCHANGED <<accounts, members, identities, cookies, txns, count>>
    BY <1>3 DEF OpenSession
  <2>2. /\ q \in Request /\ q.pc = "answer" /\ q.previous = requests[r].previous
        /\ q.answer = "none" /\ q.subject = requests[r].subject /\ q.user = requests[r].user
        /\ q.browser \in Browsers
    BY <1>1 DEF Request, Pcs
  <2>3. requests' = [requests EXCEPT ![r] = q] /\ requests' \in [Requests -> Request]
    BY <2>1, <2>2, RequestsAreTyped DEF Goes, Request
  <2>4. /\ sessions' \in [Requests -> {"none", "live", "revoked"}] /\ sessions'[r] = "live"
        /\ \A x \in Requests \ {r} : sessions'[x] = sessions[x]
    BY <2>1 DEF SIInv, SignInTypeOK
  <2>5. q.previous # "none" =>
           /\ Opened(q.previous, requests, sessions)
           /\ q.previous # r /\ sessions'[q.previous] = "revoked"
    BY <1>1, <2>2, <2>4 DEF SIInv, Replaces, Opened
  <2> HIDE DEF q
  <2>6. Placed(r, q, sessions') /\ Resolved(r, q, accounts', identities', sessions')
    BY <1>1, <2>1, <2>2, <2>4 DEF Placed, Resolved, OwnAccount
  <2>7. SignInTypeOK'
    BY <2>1, <2>3, <2>4 DEF SIInv, SignInTypeOK, Request
  <2>8. NoSilentLink' /\ AccountsGrow /\ SessionsAge(r)
    BY <2>1, <2>4 DEF SIInv, NoSilentLink, AccountsGrow, SessionsAge
  <2>9. ~ \E b \in Browsers : cookies'[b] = r
    BY <1>1, <2>1, SignInAssumption DEF SIInv, CookiesNameSessions, Opened
  <2>10. QED
    BY <1>1, <2>1, <2>2, <2>3, <2>5, <2>6, <2>7, <2>8, <2>9, RequestStepKeepsInv
<1>4. QED
  BY <1>2, <1>3

LEMMA AnswerKeepsInv ==
    ASSUME SIInv, NEW r \in Requests, Answer(r)
    PROVE  SIInv'
<1> DEFINE b == requests[r].browser
           q == [requests[r] EXCEPT !.pc = "done", !.answer = "signed_in"]
<1>1. /\ requests[r] \in Request /\ requests[r].pc = "answer" /\ sessions[r] # "none"
      /\ b \in Browsers /\ requests[r].previous \in Requests \cup {"none"}
      /\ r \in Signups => requests[r].previous = "none"
      /\ Resolved(r, requests[r], accounts, identities, sessions)
      /\ Replaces(requests[r], requests, sessions)
  BY RequestsAreTyped DEF Answer, At, Placed, Request, SIInv
<1>2. /\ q \in Request /\ q.pc = "done" /\ q.previous = requests[r].previous
      /\ q.answer = "signed_in" /\ q.subject = requests[r].subject /\ q.user = requests[r].user
      /\ q.browser = b
  BY <1>1 DEF Request, Pcs, Answers
<1>3. requests' = [requests EXCEPT ![r] = q] /\ requests' \in [Requests -> Request]
  <2>1. requests' = [requests EXCEPT ![r].pc = "done", ![r].answer = "signed_in"]
    BY DEF Answer
  <2>2. requests \in [Requests -> Request]
    BY RequestsAreTyped
  <2>3. requests' = [requests EXCEPT ![r] = q]
    BY <2>1, <2>2 DEF Request
  <2> HIDE DEF q
  <2>4. QED
    BY <1>2, <2>2, <2>3
<1>4. /\ cookies' = [cookies EXCEPT ![b] = r] /\ txns' \in [Browsers -> Googles \cup {"none"}]
      /\ UNCHANGED <<accounts, members, identities, sessions, count>>
  BY RequestsAreTyped DEF Answer
<1>5. Opened(r, requests', sessions')
  BY <1>1, <1>2, <1>3, <1>4, RequestsAreTyped DEF Opened
<1> HIDE DEF q
<1>6. Placed(r, q, sessions') /\ Resolved(r, q, accounts', identities', sessions')
  BY <1>1, <1>2, <1>4 DEF Placed, Resolved, OwnAccount
<1>7. /\ cookies' \in [Browsers -> Requests \cup {"none"}]
      /\ \A c \in Browsers : cookies'[c] = cookies[c] \/ cookies'[c] = r
  BY <1>1, <1>4, RequestsAreTyped
<1>8. SignInTypeOK'
  BY <1>3, <1>4, <1>7 DEF SIInv, SignInTypeOK, Request
<1>9. NoSilentLink' /\ AccountsGrow /\ SessionsAge(r)
  BY <1>4 DEF SIInv, NoSilentLink, AccountsGrow, SessionsAge
<1>10. q.previous # "none" =>
          Opened(q.previous, requests, sessions) /\ sessions'[q.previous] = "revoked"
  BY <1>1, <1>2, <1>4 DEF Replaces
<1>11. QED
  BY <1>1, <1>3, <1>5, <1>6, <1>7, <1>8, <1>9, <1>10, RequestStepKeepsInv

LEMMA LogoutKeepsInv ==
    ASSUME SIInv, NEW b \in Browsers, Logout(b)
    PROVE  SIInv'
<1> DEFINE x == cookies[b]
<1>1. x \in Requests /\ Opened(x, requests, sessions)
  BY RequestsAreTyped DEF Logout, SIInv, CookiesNameSessions
<1>2. /\ sessions' = [sessions EXCEPT ![x] = "revoked"] /\ cookies' = [cookies EXCEPT ![b] = "none"]
      /\ UNCHANGED <<accounts, members, identities, txns, requests>>
      /\ count' \in [logouts : 0..MaxLogouts, faults : 0..MaxFaults]
  <2>1. count.logouts \in 0..MaxLogouts /\ count.logouts < MaxLogouts /\ MaxLogouts \in Nat
    BY RequestsAreTyped, SignInAssumption DEF Logout
  <2>2. count.logouts + 1 \in 0..MaxLogouts
    BY <2>1
  <2>3. QED
    BY <2>2, RequestsAreTyped DEF Logout
<1> HIDE DEF x
<1>3. /\ sessions' \in [Requests -> {"none", "live", "revoked"}]
      /\ \A r \in Requests : IF r = x THEN sessions'[r] = "revoked" /\ sessions[r] # "none"
                                     ELSE sessions'[r] = sessions[r]
  BY <1>1, <1>2 DEF SIInv, SignInTypeOK, Opened
<1>4. /\ cookies' \in [Browsers -> Requests \cup {"none"}]
      /\ \A c \in Browsers : cookies'[c] \in {cookies[c], "none"}
  BY <1>2, RequestsAreTyped
<1>5. \A r \in Requests : Opened(r, requests, sessions) => Opened(r, requests', sessions')
  BY <1>2, <1>3 DEF Opened
<1>6. SignInTypeOK' /\ NoSilentLink' /\ AccountsGrow
  BY <1>2, <1>3, <1>4 DEF SIInv, SignInTypeOK, NoSilentLink, AccountsGrow
<1>7. CookiesNameSessions'
  BY <1>4, <1>5, RequestsAreTyped DEF SIInv, CookiesNameSessions
<1>8. ASSUME NEW r \in Requests
      PROVE  /\ Placed(r, requests'[r], sessions')
             /\ Resolved(r, requests'[r], accounts', identities', sessions')
             /\ Replaces(requests'[r], requests', sessions')
  <2>1. requests'[r] = requests[r] /\ Placed(r, requests[r], sessions)
        /\ Replaces(requests[r], requests, sessions)
    BY <1>2 DEF SIInv
  <2>2. Placed(r, requests[r], sessions')
    BY <1>3, <2>1 DEF Placed
  <2>3. Resolved(r, requests[r], accounts', identities', sessions')
    BY <1>3, <1>6, ResolvedStays
  <2>4. requests[r].previous \in Requests \cup {"none"}
    BY <2>1 DEF Placed, Request
  <2>5. Replaces(requests[r], requests', sessions')
    BY <1>3, <1>5, <2>1, <2>4 DEF Replaces
  <2>6. QED
    BY <2>1, <2>2, <2>3, <2>5
<1>9. QED
  BY <1>6, <1>7, <1>8 DEF SIInv

LEMMA FaultKeepsInv ==
    ASSUME SIInv, NEW r \in Requests, CallFails(r) \/ Dies(r)
    PROVE  SIInv'
<1>1. /\ requests[r].pc \notin {"idle", "at_google", "done", "lost"} /\ requests[r] \in Request
      /\ requests[r].answer = "none" /\ requests[r].browser \in Browsers
      /\ Placed(r, requests[r], sessions)
      /\ UNCHANGED <<accounts, members, identities, sessions, cookies>>
  BY RequestsAreTyped DEF CallFails, Dies, Working, Placed
<1>2. count' \in [logouts : 0..MaxLogouts, faults : 0..MaxFaults]
  <2>1. count.faults \in 0..MaxFaults /\ count.faults < MaxFaults /\ MaxFaults \in Nat
    BY RequestsAreTyped, SignInAssumption DEF CallFails, Dies
  <2>2. count.faults + 1 \in 0..MaxFaults
    BY <2>1
  <2>3. QED
    BY <2>2, RequestsAreTyped DEF CallFails, Dies
<1>3. ASSUME NEW pc \in {"raced", "lost"}, Goes(r, pc), UNCHANGED txns,
             pc = "raced" => r \in Googles /\ requests[r].pc = "create"
      PROVE  SIInv'
  <2> DEFINE q == [requests[r] EXCEPT !.pc = pc]
  <2>1. /\ q \in Request /\ q.pc = pc /\ q.subject = requests[r].subject /\ pc \in Pcs
        /\ q.email = requests[r].email /\ q.answer = "none" /\ q.browser \in Browsers
        /\ q.previous = requests[r].previous
    BY <1>1 DEF Request, Pcs
  <2> HIDE DEF q
  <2>2. Placed(r, q, sessions)
    BY <1>1, <1>3, <2>1 DEF Placed
  <2>3. QED
    BY <1>1, <1>2, <1>3, <2>1, <2>2, RequestsAreTyped, GoingKeepsInv DEF q
<1>4. CASE Dies(r)
  BY <1>3, <1>4 DEF Dies
<1>5. CASE CallFails(r) /\ r \in Googles /\ At(r, "create")
  BY <1>3, <1>5 DEF CallFails, At
<1>6. CASE CallFails(r) /\ ~(r \in Googles /\ At(r, "create"))
  BY <1>1, <1>2, <1>6, RefusalKeepsInv DEF CallFails
<1>7. QED
  BY <1>4, <1>5, <1>6

-----------------------------------------------------------------------------
(* The invariant and its theorems.                                          *)

LEMMA InitHasInv == Init => SIInv
<1> SUFFICES ASSUME Init PROVE SIInv
  OBVIOUS
<1>1. Idle \in Request
  BY DEF Idle, Request, Pcs, Answers
<1>2. SignInTypeOK
  <2>1. requests \in [Requests -> Request]
    BY <1>1 DEF Init
  <2>2. count \in [logouts : 0..MaxLogouts, faults : 0..MaxFaults]
    BY SignInAssumption DEF Init
  <2>3. QED
    BY <2>1, <2>2 DEF Init, SignInTypeOK, Request
<1>3. NoSilentLink /\ CookiesNameSessions
  BY DEF Init, NoSilentLink, CookiesNameSessions
<1>4. ASSUME NEW r \in Requests
      PROVE  /\ Placed(r, requests[r], sessions)
             /\ Resolved(r, requests[r], accounts, identities, sessions)
             /\ Replaces(requests[r], requests, sessions)
  BY <1>1 DEF Init, Idle, Placed, Resolved, Replaces
<1>5. QED
  BY <1>2, <1>3, <1>4 DEF SIInv

LEMMA NextKeepsInv == SIInv /\ [Next]_vars => SIInv'
<1> SUFFICES ASSUME SIInv, [Next]_vars PROVE SIInv'
  OBVIOUS
<1>1. CASE UNCHANGED vars
  BY <1>1 DEF vars, SIInv, SignInTypeOK, NoSilentLink, CookiesNameSessions
<1>2. CASE Next
  BY <1>2, BeginKeepsInv, ReturnKeepsInv, ReturnRefusedKeepsInv, LookupKeepsInv,
     CreateGoogleUserKeepsInv, CheckEmailKeepsInv, CreateUserKeepsInv, WorkspaceKeepsInv,
     LoginKeepsInv, RevokePreviousKeepsInv, OpenSessionKeepsInv, AnswerKeepsInv, FaultKeepsInv,
     LogoutKeepsInv
  DEF Next, GoogleStep
<1>3. QED
  BY <1>1, <1>2

LEMMA SpecHasInv == Spec => []SIInv
BY InitHasInv, NextKeepsInv, PTL DEF Spec

\* Type correctness of the accounts, sessions, cookies and requests; every answer is one of the
\* codes a browser may be shown.
THEOREM SignInTypeCorrect == Spec => []SignInTypeOK
BY SpecHasInv, PTL DEF SIInv

\* A session that a sign-in with Google opens is of the account of its subject (resolveGoogleSignIn),
\* whichever requests raced it and whatever failed.
THEOREM OwnSessions == Spec => []SignedInAsOneself
<1>1. SIInv => SignedInAsOneself
  BY DEF SIInv, SignedInAsOneself, Resolved, OwnAccount, Requests
<1>2. QED
  BY <1>1, SpecHasInv, PTL

\* An account that has a subject was made for it (createUserWithGoogleIdentity): none is linked by
\* its email.
THEOREM LinksAreNotSilent == Spec => []NoSilentLink
BY SpecHasInv, PTL DEF SIInv

\* Who is told to sign in by another method has no account of their own under the email.
THEOREM LinkRefusalsAreTrue == Spec => []LinkRefusalIsTrue
<1>1. SIInv => LinkRefusalIsTrue
  BY DEF SIInv, LinkRefusalIsTrue, Resolved, Requests
<1>2. QED
  BY <1>1, SpecHasInv, PTL

\* When the browser has its new session, the one it came with is revoked (the callback's and the
\* login's sessions.revoke).
THEOREM ReplacedStaysRevoked == Spec => []ReplacedIsRevoked
<1>1. SIInv => ReplacedIsRevoked
  BY DEF SIInv, ReplacedIsRevoked, Replaces
<1>2. QED
  BY <1>1, SpecHasInv, PTL
=============================================================================

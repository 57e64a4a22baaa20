------------------------------- MODULE Session -------------------------------
(***************************************************************************)
(* A browser tab's session, in front of Accounts:                           *)
(*   frontend/src/providers/auth-provider.tsx   state and storage           *)
(*   frontend/src/lib/api-client.ts             tokens out, 401s in         *)
(*   frontend/src/app/auth/, app/header.tsx, and the pages that fetch       *)
(*                                                                          *)
(* What the tab shows is its own state; what it sends is the token in       *)
(* localStorage, which it shares with other tabs.  A login or a logout sets *)
(* or clears both in one uninterrupted piece of JavaScript; other tabs are  *)
(* not told.                                                                *)
(***************************************************************************)
EXTENDS Accounts

VARIABLES storage,   \* localStorage: token, user
          tab,       \* what the tab shows: page, token, user
          others     \* whether other tabs wrote to the storage

sessionVars == <<now, backend, accounts, requests, storage, tab, others>>

NoSession == [token |-> None, user |-> None]

(* "still" stands for the pages that fetch nothing: the landing page, the   *)
(* login and register pages, the RFQ form.                                  *)
Pages == {"still", "buyer", "supplier"}

Fetching == tab.page \in {"buyer", "supplier"}

Shown == [token |-> tab.token, user |-> tab.user]

Showing(page, session) == [page |-> page, token |-> session.token, user |-> session.user]

HomeOf(user) == IF user.role = "BUYER" THEN "buyer" ELSE "supplier"

Send(s, asks) ==
    /\ requests[s] = None
    /\ requests' = [requests EXCEPT ![s] = Call(asks)]
    /\ UNCHANGED <<server, now, storage, tab, others>>

----------------------------------------------------------------------------
(* A page is loaded: AuthProvider's state comes from storage, if both items *)
(* are there.  A login the earlier document asked for is served for nobody. *)
Loads(page) ==
    /\ tab' = Showing(page, IF storage.token # None /\ storage.user # None THEN storage
                                                                           ELSE NoSession)
    /\ requests' = [s \in Slots |->
           IF \/ requests[s] = None
              \/ requests[s].at = "answered"
              \/ s \in {"query", "command"}
           THEN None ELSE [requests[s] EXCEPT !.wanted = FALSE]]
    /\ UNCHANGED <<server, now, storage, others>>

(* A link is followed: the document stays, and no page asks who is there.   *)
FollowsLink(page) ==
    /\ tab.page # page
    /\ tab' = [tab EXCEPT !.page = page]
    /\ UNCHANGED <<server, now, storage, requests, others>>

(* A bound: no command is sent while a login is under way, or the other way *)
(* round.  What they could do to each other, queries do to both.            *)
Free(slots) == \A s \in slots : requests[s] = None

SubmitsLogin(email, password) ==
    /\ tab.page = "still" /\ Free({"command"})
    /\ Send("form", [kind |-> "login", email |-> email, password |-> password])

SubmitsRegistration(email, password, role) ==
    /\ tab.page = "still" /\ Free({"command"})
    /\ Send("form", [kind |-> "register", email |-> email, password |-> password,
                     role |-> role])

(* The Google button, of the login page (no role) or the register page.  It *)
(* is not disabled while the form is submitting.                            *)
SubmitsGoogle(email, role) ==
    /\ tab.page = "still" /\ Free({"command"})
    /\ Send("google", [kind |-> "google", email |-> email, role |-> role])

(* The request interceptor puts the stored token on. *)
StoredToken == storage.token

(* The list of RFQs, or one of them: when mounted, and every 15 or 30 s.    *)
Queries ==
    /\ Fetching
    /\ Send("query", [kind |-> "query", token |-> StoredToken])

(* Commands for one role, whoever fills in the form: an RFQ, and a bid.     *)
SubmitsRfq ==
    /\ tab.page = "still" /\ Free({"form", "google"})
    /\ Send("command", [kind |-> "command", token |-> StoredToken, needs |-> "BUYER"])

SubmitsBid ==
    /\ tab.page = "supplier" /\ Free({"form", "google"})
    /\ Send("command", [kind |-> "command", token |-> StoredToken, needs |-> "SUPPLIER"])

----------------------------------------------------------------------------
(* login, register and loginWithGoogle, once they have their answer. *)
SignIn(answer) ==
    LET session == [token |-> answer.token, user |-> answer.user]
    IN  /\ storage' = session
        /\ tab' = Showing(HomeOf(answer.user), session)

(* Mutant: the stored session is left behind. *)
SignOutInState ==
    /\ tab' = Showing("still", NoSession)
    /\ UNCHANGED storage

(* logout *)
SignOut ==
    /\ storage' = NoSession
    /\ tab' = Showing("still", NoSession)

(* Mutant: 401s are errors like any other. *)
NeverUnauthorized(answer) == FALSE

Unauthorized(answer) == answer.status = 401

(* What an answer does.  Any 401, a wrong password's included, is       *)
(* AUTH_EXPIRED_EVENT, whatever page and session the tab has by then; a     *)
(* created RFQ goes to the list; other errors are shown.                    *)
Uses(s, call) ==
    \/ /\ Unauthorized(call.answer)
       /\ SignOut
    \/ /\ call.answer.status = 200 /\ s \in {"form", "google"}
       /\ SignIn(call.answer)
    \/ /\ call.answer.status = 200 /\ s = "command" /\ call.asks.needs = "BUYER"
       /\ tab' = [tab EXCEPT !.page = "buyer"]
       /\ UNCHANGED storage
    \/ /\ ~Unauthorized(call.answer)
       /\ \/ call.answer.status # 200
          \/ s = "query"
          \/ s = "command" /\ call.asks.needs = "SUPPLIER"
       /\ UNCHANGED <<storage, tab>>

AnswerArrives(s) ==
    /\ requests[s] # None
    /\ requests[s].at = "answered"
    /\ Uses(s, requests[s])
    /\ requests' = [requests EXCEPT ![s] = None]
    /\ UNCHANGED <<server, now, others>>

(* The header's button, shown to who is signed in. *)
PressesLogout ==
    /\ tab.token # None
    /\ SignOut
    /\ UNCHANGED <<server, now, requests, others>>

(* Another tab signs in or out. *)
OtherTabWrites ==
    /\ others' = TRUE
    /\ \/ storage' = NoSession
       \/ \E row \in accounts : storage' = [token |-> Token(row), user |-> UserOf(row)]
    /\ UNCHANGED <<server, now, requests, tab>>

TimePasses ==
    /\ now < MaxTime
    /\ now' = now + 1
    /\ UNCHANGED <<server, requests, storage, tab, others>>

----------------------------------------------------------------------------
SessionInit ==
    /\ now = 0 /\ others = FALSE
    /\ backend \in Backends
    /\ accounts = {}
    /\ requests = [s \in Slots |-> None]
    /\ storage = NoSession
    /\ tab = Showing("still", NoSession)

Submits ==
    \E email \in Emails :
        \/ \E password \in Passwords :
              \/ SubmitsLogin(email, password)
              \/ \E role \in Roles : SubmitsRegistration(email, password, role)
        \/ \E role \in Roles \cup {None} : SubmitsGoogle(email, role)

Browses ==
    \/ \E page \in Pages : Loads(page) \/ FollowsLink(page)
    \/ Submits
    \/ SubmitsRfq \/ SubmitsBid
    \/ PressesLogout

Served == Serves /\ UNCHANGED <<storage, tab, others>>

Breaks == (\E s \in Slots : CallFails(s)) /\ UNCHANGED <<storage, tab, others>>

SessionNext ==
    \/ Browses \/ Queries
    \/ Served \/ Breaks
    \/ \E s \in Slots : AnswerArrives(s)
    \/ OtherTabWrites \/ TimePasses

QueryIsServed == AnswersRoute("query") /\ UNCHANGED <<storage, tab, others>>

(* The server's own answer, and not a failure's. *)
QueryIsAnswered ==
    /\ requests["query"] # None
    /\ requests["query"].answer \notin {None, Refused("broken")}
    /\ AnswerArrives("query")

(* A page that is looked at fetches again and again, its queries do not     *)
(* fail for ever, and nobody reloads for ever faster than answers come.     *)
FairSessionSpec ==
    /\ SessionInit /\ [][SessionNext]_sessionVars
    /\ WF_sessionVars(Queries)
    /\ SF_sessionVars(QueryIsServed)
    /\ WF_sessionVars(AnswerArrives("query"))
    /\ SF_sessionVars(QueryIsAnswered)
=============================================================================

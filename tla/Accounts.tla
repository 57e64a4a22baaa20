------------------------------ MODULE Accounts ------------------------------
(***************************************************************************)
(* Accounts, tokens, and who may do what: the server behind a browser.      *)
(*   backend-node-deprecated/src/services/auth.service.ts                   *)
(*   .../middleware/{auth,role,error}.middleware.ts, .../routes/            *)
(* The Go backend (internal/service/auth_service.go) differs where a Google *)
(* login meets a password account: it refuses, where the Node backend       *)
(* takes the account over.                                                  *)
(*                                                                          *)
(* `requests` are those of one browser tab.  The service reads and writes   *)
(* the account table in separate steps; other people's registrations and    *)
(* Google logins come between them.                                         *)
(***************************************************************************)
EXTENDS Integers, FiniteSets

CONSTANTS Emails, Passwords,
          None,          \* null
          Backends,      \* "go", "node"
          TokenLife,     \* ticks a token is good for
          MaxTime        \* bound on the clock

VARIABLES now, backend,
          accounts,      \* the rows of table users
          requests       \* what the tab has under way, by slot

server == <<backend, accounts>>

Roles == {"BUYER", "SUPPLIER"}

(* One request of each kind may be under way: the form's, the Google        *)
(* button's, the page's query and a command.                                *)
Slots == {"form", "google", "query", "command"}

(* What a request asks, how far it is, the answer, and whether the document *)
(* that asked is still there.                                               *)
Call(asks) == [asks |-> asks, at |-> "sent", answer |-> None, wanted |-> TRUE]

Token(row) == [sub |-> row.id, role |-> row.role, born |-> now]
UserOf(row) == [id |-> row.id, email |-> row.email, role |-> row.role]

Tokens == [sub : Nat, role : Roles, born : Nat]
Users == [id : Nat, email : Emails, role : Roles]

(* null is neither. *)
ASSUME NoneAssumption == None \notin Tokens /\ None \notin Users

(* generateToken, and what the controllers send with it. *)
Granted(row) == [status |-> 200, token |-> Token(row), user |-> UserOf(row)]

(* The statuses of what is thrown, by errorHandler.  An error it does not   *)
(* know is a 500.                                                           *)
ErrorStatus == [taken   |-> 409, credentials |-> 401,
                unique  |-> IF backend = "node" THEN 400 ELSE 500,
                noToken |-> 401, expired |-> 401, broken |-> 500]

Refused(error) == [status |-> ErrorStatus[error]]

Progress(s, call) == requests' = [requests EXCEPT ![s] = call]

(* An answer nobody waits for is dropped.  Once there is an answer, what    *)
(* was asked matters for commands only.                                     *)
Answer(s, answer) ==
    Progress(s, IF requests[s].wanted
                THEN [requests[s] EXCEPT !.at = "answered", !.answer = answer,
                                         !.asks = IF s = "command" THEN @ ELSE None]
                ELSE None)

IsAt(s, kind, at) ==
    /\ requests[s] # None
    /\ requests[s].at = at
    /\ requests[s].asks.kind = kind

WithEmail(email) == {row \in accounts : row.email = email}

NewRow(email, password, provider, role) ==
    [id |-> Cardinality(accounts) + 1, email |-> email, password |-> password,
     provider |-> provider, role |-> role]

(* create: the unique index on e-mail refuses a second row. *)
Creates(s, row) ==
    IF WithEmail(row.email) = {}
    THEN /\ accounts' = accounts \cup {row}
         /\ Answer(s, Granted(row))
    ELSE /\ Answer(s, Refused("unique"))
         /\ UNCHANGED accounts

----------------------------------------------------------------------------
(* register *)

RegisterChecks ==
    /\ IsAt("form", "register", "sent")
    /\ IF WithEmail(requests["form"].asks.email) # {}
       THEN Answer("form", Refused("taken"))
       ELSE Progress("form", [requests["form"] EXCEPT !.at = "checked"])
    /\ UNCHANGED <<server, now>>

RegisterCreates ==
    /\ IsAt("form", "register", "checked")
    /\ LET asks == requests["form"].asks
       IN  Creates("form", NewRow(asks.email, asks.password, "local", asks.role))
    /\ UNCHANGED <<backend, now>>

(* login: an account a Google login made or took over has no password way   *)
(* in any more.                                                             *)
AnswersLogin ==
    /\ IsAt("form", "login", "sent")
    /\ LET asks   == requests["form"].asks
           fitting == {row \in WithEmail(asks.email) :
                          row.password = asks.password /\ row.provider # "google"}
       IN  \/ fitting = {} /\ Answer("form", Refused("credentials"))
           \/ \E row \in fitting : Answer("form", Granted(row))
    /\ UNCHANGED <<server, now>>

----------------------------------------------------------------------------
(* googleLogin, after Google vouched for the e-mail. *)

GoogleChecks ==
    /\ IsAt("google", "google", "sent")
    /\ LET call == requests["google"]
           rows == WithEmail(call.asks.email)
       IN  \/ /\ rows = {}
              /\ Progress("google", [call EXCEPT !.at = "unknown"])
           \/ \E row \in rows :
                 \/ /\ row.provider = "google"
                    /\ Answer("google", Granted(row))
                 \/ /\ row.provider = "local" /\ backend = "node"
                    /\ Progress("google", [call EXCEPT !.at = "local"])
                 \/ /\ row.provider = "local" /\ backend = "go"
                    /\ Answer("google", Refused("taken"))
    /\ UNCHANGED <<server, now>>

(* The role is the one the page sent: the login page sends none.            *)
GoogleCreates ==
    /\ IsAt("google", "google", "unknown")
    /\ LET asks == requests["google"].asks
           role == IF asks.role = None THEN "SUPPLIER" ELSE asks.role
       IN  Creates("google", NewRow(asks.email, None, "google", role))
    /\ UNCHANGED <<backend, now>>

(* Mutant: the role the page sent is taken over too. *)
AdoptedWithRole(row, role) ==
    [row EXCEPT !.provider = "google", !.role = IF role = None THEN @ ELSE role]

(* What taking an account over changes. *)
Adopted(row, role) == [row EXCEPT !.provider = "google"]

GoogleAdopts ==
    /\ IsAt("google", "google", "local")
    /\ \E row \in WithEmail(requests["google"].asks.email) :
          LET adopted == Adopted(row, requests["google"].asks.role)
          IN  /\ accounts' = (accounts \ {row}) \cup {adopted}
              /\ Answer("google", Granted(adopted))
    /\ UNCHANGED <<backend, now>>

(* Other people's requests, as far as they write. *)
OthersRegister ==
    /\ \E email \in Emails, role \in Roles, provider \in {"local", "google"} :
          /\ WithEmail(email) = {}
          /\ \E password \in IF provider = "local" THEN Passwords ELSE {None} :
                accounts' = accounts \cup {NewRow(email, password, provider, role)}
    /\ UNCHANGED <<backend, requests, now>>

OthersAdopt ==
    /\ backend = "node"
    /\ \E row \in accounts, role \in Roles :
          /\ row.provider = "local"
          /\ accounts' = (accounts \ {row}) \cup {Adopted(row, role)}
    /\ UNCHANGED <<backend, requests, now>>

----------------------------------------------------------------------------
(* Every other route asks for a token, and commands for a role.  The token  *)
(* is believed: the account is not read again.                              *)

Expired(token) == now >= token.born + TokenLife

(* authMiddleware *)
Authentic(token) == token # None /\ ~Expired(token)

(* requireRole *)
Permitted(asks) == asks.kind = "command" => asks.token.role = asks.needs

Verdict(asks) ==
    IF ~Authentic(asks.token)
    THEN Refused(IF asks.token = None THEN "noToken" ELSE "expired")
    ELSE [status |-> IF Permitted(asks) THEN 200 ELSE 403]

AnswersRoute(s) ==
    /\ IsAt(s, s, "sent")
    /\ Answer(s, Verdict(requests[s].asks))
    /\ UNCHANGED <<server, now>>

(* A query or a connection breaks off; or Google's verification, whose      *)
(* failure is a 401 like a wrong password's.                                *)
CallFails(s) ==
    /\ requests[s] # None
    /\ requests[s].at # "answered"
    /\ \/ Answer(s, Refused("broken"))
       \/ /\ IsAt(s, "google", "sent")
          /\ Answer(s, Refused("credentials"))
    /\ UNCHANGED <<server, now>>

Serves ==
    \/ RegisterChecks \/ RegisterCreates
    \/ AnswersLogin
    \/ GoogleChecks \/ GoogleCreates \/ GoogleAdopts
    \/ AnswersRoute("query") \/ AnswersRoute("command")
    \/ OthersRegister \/ OthersAdopt
=============================================================================

-------------------------- MODULE SessionInvariant --------------------------
(***************************************************************************)
(* The inductive invariant behind what holds of sessions: the shapes of     *)
(* requests and answers, slot by slot, and whose tokens they carry.         *)
(***************************************************************************)
EXTENDS SessionProperties

Rows == [id : Nat, email : Emails, password : Passwords \cup {None},
         provider : {"local", "google"}, role : Roles]

(* What each slot asks. *)
AsksOf(s) ==
    {a \in [kind : {"login"}, email : Emails, password : Passwords] : s = "form"}
    \cup {a \in [kind : {"register"}, email : Emails, password : Passwords, role : Roles] :
             s = "form"}
    \cup {a \in [kind : {"google"}, email : Emails, role : Roles \cup {None}] : s = "google"}
    \cup {a \in [kind : {"query"}, token : Tokens \cup {None}] : s = "query"}
    \cup {a \in [kind : {"command"}, token : Tokens \cup {None}, needs : Roles] :
             s = "command"}

(* What it is answered. *)
SessionSlots == {"form", "google"}
GrantAnswers == [status : {200}, token : Tokens, user : Users]
Refusals == [status : {400, 401, 409, 500}]
Verdicts == [status : {200, 401, 403}]

AnswersOf(s) == Refusals \cup IF s \in SessionSlots THEN GrantAnswers ELSE Verdicts

IsPending(s, call) ==
    /\ call.asks \in AsksOf(s)
    /\ call.at \in {"sent", "checked", "unknown", "local"}
    /\ call.answer = None

IsAnswered(s, call) ==
    /\ s = "command" => call.asks \in AsksOf(s)
    /\ call.at = "answered"
    /\ call.answer \in AnswersOf(s)

IsCall(s, call) ==
    /\ call = [asks |-> call.asks, at |-> call.at, answer |-> call.answer,
               wanted |-> call.wanted]
    /\ IsPending(s, call) \/ IsAnswered(s, call)

StoredSessions == {NoSession} \cup [token : Tokens, user : Users]

SessionTypes ==
    /\ now \in Nat
    /\ accounts \subseteq Rows
    /\ IsFiniteSet(accounts)
    /\ requests = [s \in Slots |-> requests[s]]
    /\ \A s \in Slots : requests[s] # None => IsCall(s, requests[s])
    /\ storage \in StoredSessions
    /\ tab = [page |-> tab.page, token |-> tab.token, user |-> tab.user]
    /\ Shown \in StoredSessions

OneRowPerEmail == \A row, other \in accounts : row.email = other.email => row = other

(* What is granted, stored and shown belongs to an account. *)
GrantsBelong ==
    \A s \in SessionSlots :
        requests[s] # None /\ requests[s].at = "answered" /\ requests[s].answer.status = 200 =>
            Belongs([token |-> requests[s].answer.token, user |-> requests[s].answer.user])

SessionsBelong ==
    /\ storage # NoSession => Belongs(storage)
    /\ Shown # NoSession => Belongs(Shown)

(* So does the token of a command, which had the role if it was let through.*)
TokenBelongs(token) == \E row \in accounts : row.id = token.sub /\ row.role = token.role

CommandsBelong ==
    LET call == requests["command"]
    IN  call # None =>
           /\ call.asks.token # None => TokenBelongs(call.asks.token)
           /\ call.at = "answered" /\ call.answer.status = 200 =>
                 call.asks.token # None /\ call.asks.token.role = call.asks.needs

SessionInv ==
    /\ SessionTypes
    /\ OneRowPerEmail
    /\ GrantsBelong
    /\ SessionsBelong
    /\ CommandsBelong
    /\ ShownIsSent
=============================================================================

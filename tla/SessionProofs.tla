---------------------------- MODULE SessionProofs ----------------------------
(***************************************************************************)
(* Proofs that the invariant of SessionInvariant is inductive, and that     *)
(* what holds of sessions follows from it, for any e-mails and passwords,   *)
(* either backend, and any number of accounts.                              *)
(***************************************************************************)
EXTENDS SessionInvariant, FiniteSetTheorems, TLAPS

(* The sessions that are stored or shown are those of NoSession or real.    *)
LEMMA SessionShapes ==
    /\ NoSession \in StoredSessions
    /\ \A token \in Tokens, user \in Users :
          /\ [token |-> token, user |-> user] \in StoredSessions
          /\ token # None /\ user # None
    /\ \A session \in StoredSessions :
          /\ session = [token |-> session.token, user |-> session.user]
          /\ \/ session = NoSession /\ session.token = None /\ session.user = None
             \/ session.token \in Tokens /\ session.user \in Users /\ session # NoSession
  BY NoneAssumption DEF StoredSessions, NoSession

(* Errors are refusals. *)
LEMMA RefusalTypes ==
    \A error \in {"taken", "credentials", "unique", "noToken", "expired", "broken"} :
        Refused(error) \in Refusals /\ Refused(error).status # 200
  BY DEF Refused, ErrorStatus, Refusals

(* What is granted to a row is its session. *)
LEMMA GrantTypes ==
    ASSUME now \in Nat, NEW row \in Rows
    PROVE  /\ Token(row) \in Tokens /\ UserOf(row) \in Users
           /\ Granted(row) \in GrantAnswers
           /\ Granted(row).token = Token(row) /\ Granted(row).user = UserOf(row)
           /\ Token(row).sub = row.id /\ Token(row).role = row.role
  BY DEF Granted, GrantAnswers, Token, Tokens, UserOf, Users, Rows

(* A new row has an id of its own. *)
LEMMA NewRowType ==
    ASSUME accounts \subseteq Rows, IsFiniteSet(accounts), NEW email \in Emails,
           NEW password \in Passwords \cup {None}, NEW provider \in {"local", "google"},
           NEW role \in Roles
    PROVE  /\ NewRow(email, password, provider, role) \in Rows
           /\ NewRow(email, password, provider, role).email = email
<1>1. Cardinality(accounts) + 1 \in Nat
  BY FS_CardinalityType
<1> QED
  BY <1>1 DEF NewRow, Rows

(* Taking an account over changes neither its id, its e-mail nor its role.  *)
LEMMA AdoptedType ==
    ASSUME NEW row \in Rows, NEW role
    PROVE  /\ Adopted(row, role) \in Rows
           /\ Adopted(row, role).id = row.id /\ Adopted(row, role).email = row.email
           /\ Adopted(row, role).role = row.role
  BY DEF Adopted, Rows

----------------------------------------------------------------------------
(* How the account table changes. *)

AccountMoves ==
    \/ accounts' = accounts
    \/ \E row \in Rows : WithEmail(row.email) = {} /\ accounts' = accounts \cup {row}
    \/ \E row \in accounts : \E role :
          accounts' = (accounts \ {row}) \cup {Adopted(row, role)}

(* Whatever is registered or taken over, an account stays what it is.       *)
LEMMA AccountsStay ==
    ASSUME SessionTypes, OneRowPerEmail, AccountMoves
    PROVE  /\ accounts' \subseteq Rows /\ IsFiniteSet(accounts')
           /\ OneRowPerEmail'
           /\ \A row \in accounts : \E after \in accounts' :
                 after.id = row.id /\ after.email = row.email /\ after.role = row.role
<1>1. accounts \subseteq Rows /\ IsFiniteSet(accounts)
  BY DEF SessionTypes
<1>2. CASE accounts' = accounts
  BY <1>1, <1>2 DEF OneRowPerEmail
<1>3. CASE \E row \in Rows : WithEmail(row.email) = {} /\ accounts' = accounts \cup {row}
  <2> PICK row \in Rows : WithEmail(row.email) = {} /\ accounts' = accounts \cup {row}
    BY <1>3
  <2>1. IsFiniteSet(accounts')
    BY <1>1, FS_AddElement
  <2>2. \A other \in accounts : other.email # row.email
    BY DEF WithEmail
  <2> QED
    BY <1>1, <2>1, <2>2 DEF OneRowPerEmail
<1>4. CASE \E row \in accounts : \E role :
              accounts' = (accounts \ {row}) \cup {Adopted(row, role)}
  <2> PICK row \in accounts :
             \E role : accounts' = (accounts \ {row}) \cup {Adopted(row, role)}
    BY <1>4
  <2> PICK role : accounts' = (accounts \ {row}) \cup {Adopted(row, role)}
    OBVIOUS
  <2> DEFINE adopted == Adopted(row, role)
  <2>1. /\ adopted \in Rows /\ adopted.id = row.id /\ adopted.email = row.email
        /\ adopted.role = row.role
    BY <1>1, AdoptedType
  <2> HIDE DEF adopted
  <2>2. accounts' = (accounts \ {row}) \cup {adopted}
    BY DEF adopted
  <2>3. IsFiniteSet(accounts')
    <3>1. IsFiniteSet(accounts \ {row})
      BY <1>1, FS_RemoveElement
    <3> QED
      BY <2>2, <3>1, FS_AddElement
  <2>4. OneRowPerEmail'
    BY <2>1, <2>2 DEF OneRowPerEmail
  <2>5. \A old \in accounts : \E after \in accounts' :
           after.id = old.id /\ after.email = old.email /\ after.role = old.role
    BY <2>1, <2>2
  <2> QED
    BY <1>1, <2>1, <2>2, <2>3, <2>4, <2>5
<1> QED
  BY <1>2, <1>3, <1>4 DEF AccountMoves

(* So what belongs to an account goes on belonging to it.                   *)
LEMMA BelongingStays ==
    ASSUME SessionTypes, OneRowPerEmail, AccountMoves
    PROVE  /\ \A session : Belongs(session) => Belongs(session)'
           /\ \A token : TokenBelongs(token) => TokenBelongs(token)'
<1>1. ASSUME NEW session, Belongs(session) PROVE Belongs(session)'
  <2> PICK row \in accounts : /\ session.user = UserOf(row)
                              /\ session.token.sub = row.id
                              /\ session.token.role = row.role
    BY <1>1 DEF Belongs
  <2> PICK after \in accounts' :
              after.id = row.id /\ after.email = row.email /\ after.role = row.role
    BY AccountsStay
  <2> QED
    BY DEF Belongs, UserOf
<1>2. ASSUME NEW token, TokenBelongs(token) PROVE TokenBelongs(token)'
  BY <1>2, AccountsStay DEF TokenBelongs
<1> QED
  BY <1>1, <1>2

----------------------------------------------------------------------------
(* How a request moves. *)

(* The tab sends it. *)
IsSent(s) ==
    \E asks \in AsksOf(s) :
        /\ requests'[s] = Call(asks)
        /\ s = "command" => asks.token = storage.token

(* The server looks further, or the document that asked is left.            *)
GoesOn(s) ==
    /\ requests[s] # None
    /\ \/ requests'[s] = [requests[s] EXCEPT !.wanted = FALSE]
       \/ /\ requests[s].at # "answered"
          /\ \E at \in {"checked", "unknown", "local"} :
                requests'[s] = [requests[s] EXCEPT !.at = at]

(* The answers that may be given, once the accounts are what they are.      *)
MayAnswer(s, answer) ==
    \/ answer \in Refusals
    \/ s \in SessionSlots /\ \E row \in accounts' : answer = Granted(row)
    \/ s \notin SessionSlots /\ answer = Verdict(requests[s].asks)

IsAnsweredNow(s) ==
    /\ requests[s] # None
    /\ requests[s].at # "answered"
    /\ \E answer : MayAnswer(s, answer)
          /\ requests'[s] = [requests[s] EXCEPT !.at = "answered", !.answer = answer,
                                                !.asks = IF s = "command" THEN @ ELSE None]

RequestMoves(s) ==
    \/ requests'[s] = requests[s]
    \/ requests'[s] = None
    \/ IsSent(s)
    \/ GoesOn(s)
    \/ IsAnsweredNow(s)

(* What Send does to the slots. *)
LEMMA SendMoves ==
    ASSUME SessionTypes, NEW s \in Slots, NEW asks \in AsksOf(s),
           s = "command" => asks.token = storage.token, Send(s, asks)
    PROVE  /\ requests' = [q \in Slots |-> requests'[q]]
           /\ \A q \in Slots : RequestMoves(q)
           /\ UNCHANGED <<server, now, storage, tab, others>>
  BY DEF SessionTypes, Send, RequestMoves, IsSent

(* What Answer does. *)
LEMMA AnswerMoves ==
    ASSUME SessionTypes, NEW s \in Slots, requests[s] # None, requests[s].at # "answered",
           NEW answer, MayAnswer(s, answer), Answer(s, answer)
    PROVE  /\ requests' = [q \in Slots |-> requests'[q]]
           /\ \A q \in Slots : RequestMoves(q)
<1>1. IsCall(s, requests[s]) /\ requests = [q \in Slots |-> requests[q]]
  BY DEF SessionTypes
<1>2. CASE requests[s].wanted
  <2>1. requests' = [requests EXCEPT ![s] =
           [requests[s] EXCEPT !.at = "answered", !.answer = answer,
                               !.asks = IF s = "command" THEN @ ELSE None]]
    BY <1>2 DEF Answer, Progress
  <2> QED
    BY <1>1, <2>1 DEF RequestMoves, IsAnsweredNow
<1>3. CASE ~requests[s].wanted
  <2>1. requests' = [requests EXCEPT ![s] = None]
    BY <1>3 DEF Answer, Progress
  <2> QED
    BY <1>1, <2>1 DEF RequestMoves
<1> QED
  BY <1>2, <1>3

(* What Progress does. *)
LEMMA ProgressMoves ==
    ASSUME SessionTypes, NEW s \in Slots, requests[s] # None, requests[s].at # "answered",
           NEW at \in {"checked", "unknown", "local"},
           Progress(s, [requests[s] EXCEPT !.at = at])
    PROVE  /\ requests' = [q \in Slots |-> requests'[q]]
           /\ \A q \in Slots : RequestMoves(q)
  BY DEF SessionTypes, Progress, RequestMoves, GoesOn

(* A request keeps its shape. *)
LEMMA RequestTypes ==
    ASSUME SessionTypes, accounts' \subseteq Rows, NEW s \in Slots, RequestMoves(s),
           requests'[s] # None
    PROVE  IsCall(s, requests'[s])
<1>1. CASE requests'[s] = requests[s]
  BY <1>1 DEF SessionTypes
<1>2. CASE IsSent(s)
  BY <1>2 DEF IsSent, Call, IsCall, IsPending
<1>3. CASE GoesOn(s)
  <2>1. IsCall(s, requests[s])
    BY <1>3 DEF SessionTypes, GoesOn
  <2> DEFINE c == requests[s]
             d == requests'[s]
  <2>2. /\ d.asks = c.asks /\ d.answer = c.answer
        /\ d = [asks |-> d.asks, at |-> d.at, answer |-> d.answer, wanted |-> d.wanted]
        /\ \/ d.at = c.at
           \/ c.at # "answered" /\ d.at \in {"checked", "unknown", "local"}
    BY <1>3, <2>1 DEF GoesOn, IsCall
  <2> QED
    BY <2>1, <2>2 DEF IsCall, IsPending, IsAnswered
<1>4. CASE IsAnsweredNow(s)
  <2> PICK answer : /\ MayAnswer(s, answer)
                    /\ requests'[s] = [requests[s] EXCEPT !.at = "answered", !.answer = answer,
                                            !.asks = IF s = "command" THEN @ ELSE None]
    BY <1>4 DEF IsAnsweredNow
  <2>1. IsCall(s, requests[s]) /\ IsPending(s, requests[s])
    BY <1>4 DEF SessionTypes, IsAnsweredNow, IsCall, IsAnswered
  <2>2. answer \in AnswersOf(s)
    <3>1. CASE answer \in Refusals
      BY <3>1 DEF AnswersOf
    <3>2. CASE s \in SessionSlots /\ \E row \in accounts' : answer = Granted(row)
      BY <3>2, GrantTypes DEF AnswersOf, SessionTypes
    <3>3. CASE s \notin SessionSlots /\ answer = Verdict(requests[s].asks)
      <4>1. answer \in Refusals \/ answer \in Verdicts
        BY <3>3, RefusalTypes DEF Verdict, Verdicts
      <4> QED
        BY <3>3, <4>1 DEF AnswersOf
    <3> QED
      BY <3>1, <3>2, <3>3 DEF MayAnswer
  <2> DEFINE d == requests'[s]
  <2>3. /\ d.at = "answered" /\ d.answer = answer
        /\ s = "command" => d.asks = requests[s].asks
        /\ d = [asks |-> d.asks, at |-> d.at, answer |-> d.answer, wanted |-> d.wanted]
    BY <2>1 DEF IsCall
  <2> QED
    BY <2>1, <2>2, <2>3 DEF IsCall, IsPending, IsAnswered
<1> QED
  BY <1>1, <1>2, <1>3, <1>4 DEF RequestMoves

----------------------------------------------------------------------------
(* What each step does to accounts, requests, storage and the page. *)

(* The storage and what is shown. *)
ScreenStays == storage' = storage /\ Shown' = Shown /\ others' = others

ScreenMoves ==
    /\ tab' = [page |-> tab'.page, token |-> tab'.token, user |-> tab'.user]
    /\ \/ ScreenStays
       \/ storage' = NoSession /\ Shown' = NoSession /\ others' = others
       \/ storage' = storage /\ Shown' = storage /\ others' = others
       \/ /\ \E s \in SessionSlots :
                /\ requests[s] # None /\ requests[s].at = "answered"
                /\ requests[s].answer \in GrantAnswers
                /\ storage' = [token |-> requests[s].answer.token,
                               user  |-> requests[s].answer.user]
          /\ Shown' = storage' /\ others' = others
       \/ /\ others' = TRUE /\ Shown' = Shown
          /\ \/ storage' = NoSession
             \/ \E row \in accounts : storage' = [token |-> Token(row), user |-> UserOf(row)]

Moves ==
    /\ AccountMoves
    /\ requests' = [s \in Slots |-> requests'[s]]
    /\ \A s \in Slots : RequestMoves(s)
    /\ ScreenMoves
    /\ now' \in Nat

(* A step that leaves the page and its storage alone. *)
LEMMA QuietMoves ==
    ASSUME SessionTypes, UNCHANGED <<now, storage, tab, others>>, AccountMoves,
           requests' = [s \in Slots |-> requests'[s]], \A s \in Slots : RequestMoves(s)
    PROVE  Moves
  BY DEF SessionTypes, Moves, ScreenMoves, ScreenStays, Shown

(* The service's steps. *)
LEMMA ServesMoves ==
    ASSUME SessionTypes, Served \/ Breaks
    PROVE  Moves
<1>0. /\ now \in Nat /\ accounts \subseteq Rows /\ IsFiniteSet(accounts)
      /\ requests = [s \in Slots |-> requests[s]]
      /\ \A s \in Slots : requests[s] # None => IsCall(s, requests[s])
      /\ UNCHANGED <<storage, tab, others>>
  BY DEF SessionTypes, Served, Breaks
<1>1. /\ "form" \in Slots /\ "google" \in Slots /\ "query" \in Slots /\ "command" \in Slots
      /\ "form" \in SessionSlots /\ "google" \in SessionSlots
      /\ "query" \notin SessionSlots /\ "command" \notin SessionSlots
  BY DEF Slots, SessionSlots
<1>2. ASSUME NEW s \in Slots, requests[s] # None, requests[s].at # "answered",
             NEW answer, MayAnswer(s, answer), Answer(s, answer),
             UNCHANGED now, AccountMoves
      PROVE  Moves
  BY <1>0, <1>2, AnswerMoves, QuietMoves
<1>3. ASSUME NEW s \in Slots, requests[s] # None, requests[s].at # "answered",
             NEW at \in {"checked", "unknown", "local"},
             Progress(s, [requests[s] EXCEPT !.at = at]), UNCHANGED <<now, accounts>>
      PROVE  Moves
  BY <1>0, <1>3, ProgressMoves, QuietMoves DEF AccountMoves
<1>4. ASSUME NEW s \in Slots, NEW error \in {"taken", "credentials", "unique", "noToken",
                                             "expired", "broken"}
      PROVE  MayAnswer(s, Refused(error))
  BY RefusalTypes DEF MayAnswer
<1>5. ASSUME NEW s \in SessionSlots, NEW row \in accounts'
      PROVE  MayAnswer(s, Granted(row))
  BY DEF MayAnswer
<1>6. UNCHANGED accounts => AccountMoves
  BY DEF AccountMoves
<1>7. ASSUME NEW s \in SessionSlots, requests[s] # None, requests[s].at # "answered",
             NEW email \in Emails, NEW password \in Passwords \cup {None},
             NEW provider \in {"local", "google"}, NEW role \in Roles,
             Creates(s, NewRow(email, password, provider, role)), UNCHANGED now
      PROVE  Moves
  <2> DEFINE row == NewRow(email, password, provider, role)
  <2>0. s \in Slots
    BY DEF Slots, SessionSlots
  <2>1. row \in Rows
    BY <1>0, NewRowType
  <2>2. Creates(s, row)
    BY <1>7
  <2> HIDE DEF row
  <2>3. CASE WithEmail(row.email) = {}
    <3>1. accounts' = accounts \cup {row} /\ Answer(s, Granted(row))
      BY <2>2, <2>3 DEF Creates
    <3>2. AccountMoves
      BY <2>1, <2>3, <3>1 DEF AccountMoves
    <3>3. MayAnswer(s, Granted(row))
      BY <1>5, <3>1
    <3> QED
      BY <1>2, <1>7, <2>0, <3>1, <3>2, <3>3
  <2>4. CASE WithEmail(row.email) # {}
    <3>1. Answer(s, Refused("unique")) /\ UNCHANGED accounts
      BY <2>2, <2>4 DEF Creates
    <3> QED
      BY <1>2, <1>4, <1>6, <1>7, <2>0, <3>1
  <2> QED
    BY <2>3, <2>4
<1>8. ASSUME NEW s \in Slots, NEW kind, NEW at \in {"sent", "checked", "unknown", "local"},
             IsAt(s, kind, at)
      PROVE  /\ requests[s] # None /\ requests[s].at # "answered"
             /\ requests[s].asks \in AsksOf(s) /\ requests[s].asks.kind = kind
  BY <1>0, <1>8 DEF IsAt, IsCall, IsPending, IsAnswered
<1>9. CASE RegisterChecks
  <2>1. requests["form"] # None /\ requests["form"].at # "answered"
    BY <1>1, <1>8, <1>9 DEF RegisterChecks
  <2>2. UNCHANGED <<now, accounts>>
    BY <1>9 DEF RegisterChecks, server
  <2>3. \/ Answer("form", Refused("taken"))
        \/ Progress("form", [requests["form"] EXCEPT !.at = "checked"])
    BY <1>9 DEF RegisterChecks
  <2> QED
    BY <1>1, <1>2, <1>3, <1>4, <1>6, <2>1, <2>2, <2>3
<1>10. CASE RegisterCreates
  <2> DEFINE asks == requests["form"].asks
  <2>1. /\ requests["form"] # None /\ requests["form"].at # "answered"
        /\ asks \in AsksOf("form") /\ asks.kind = "register"
    BY <1>1, <1>8, <1>10 DEF RegisterCreates
  <2>2. asks.email \in Emails /\ asks.password \in Passwords /\ asks.role \in Roles
    BY <2>1 DEF AsksOf
  <2>3. Creates("form", NewRow(asks.email, asks.password, "local", asks.role)) /\ UNCHANGED now
    BY <1>10 DEF RegisterCreates
  <2> QED
    BY <1>1, <1>7, <2>1, <2>2, <2>3
<1>11. CASE AnswersLogin
  <2>1. requests["form"] # None /\ requests["form"].at # "answered"
    BY <1>1, <1>8, <1>11 DEF AnswersLogin
  <2>2. UNCHANGED <<now, accounts>>
    BY <1>11 DEF AnswersLogin, server
  <2>3. Answer("form", Refused("credentials")) \/ \E row \in accounts : Answer("form", Granted(row))
    BY <1>11 DEF AnswersLogin, WithEmail
  <2> QED
    BY <1>1, <1>2, <1>4, <1>5, <1>6, <2>1, <2>2, <2>3
<1>12. CASE GoogleChecks
  <2>1. requests["google"] # None /\ requests["google"].at # "answered"
    BY <1>1, <1>8, <1>12 DEF GoogleChecks
  <2>2. UNCHANGED <<now, accounts>>
    BY <1>12 DEF GoogleChecks, server
  <2>3. \/ Answer("google", Refused("taken"))
        \/ \E row \in accounts : Answer("google", Granted(row))
        \/ Progress("google", [requests["google"] EXCEPT !.at = "unknown"])
        \/ Progress("google", [requests["google"] EXCEPT !.at = "local"])
    BY <1>12 DEF GoogleChecks, WithEmail
  <2> QED
    BY <1>1, <1>2, <1>3, <1>4, <1>5, <1>6, <2>1, <2>2, <2>3
<1>13. CASE GoogleCreates
  <2> DEFINE asks == requests["google"].asks
             role == IF asks.role = None THEN "SUPPLIER" ELSE asks.role
  <2>1. /\ requests["google"] # None /\ requests["google"].at # "answered"
        /\ asks \in AsksOf("google")
    BY <1>1, <1>8, <1>13 DEF GoogleCreates
  <2>2. asks.email \in Emails /\ role \in Roles
    BY <2>1 DEF AsksOf, Roles
  <2>3. Creates("google", NewRow(asks.email, None, "google", role)) /\ UNCHANGED now
    BY <1>13 DEF GoogleCreates
  <2> HIDE DEF role, asks
  <2> QED
    BY <1>1, <1>7, <2>1, <2>2, <2>3
<1>14. CASE GoogleAdopts
  <2> DEFINE asks == requests["google"].asks
  <2>1. requests["google"] # None /\ requests["google"].at # "answered"
    BY <1>1, <1>8, <1>14 DEF GoogleAdopts
  <2>2. PICK row \in accounts :
            /\ accounts' = (accounts \ {row}) \cup {Adopted(row, asks.role)}
            /\ Answer("google", Granted(Adopted(row, asks.role)))
    BY <1>14 DEF GoogleAdopts, WithEmail
  <2>3. AccountMoves /\ Adopted(row, asks.role) \in accounts'
    BY <2>2 DEF AccountMoves
  <2>4. UNCHANGED now
    BY <1>14 DEF GoogleAdopts
  <2> QED
    BY <1>1, <1>2, <1>5, <2>1, <2>2, <2>3, <2>4
<1>15. ASSUME NEW s \in {"query", "command"}, AnswersRoute(s) PROVE Moves
  <2>1. requests[s] # None /\ requests[s].at # "answered"
    BY <1>1, <1>8, <1>15 DEF AnswersRoute
  <2>2. UNCHANGED <<now, accounts>> /\ Answer(s, Verdict(requests[s].asks))
    BY <1>15 DEF AnswersRoute, server
  <2>3. MayAnswer(s, Verdict(requests[s].asks))
    BY <1>1 DEF MayAnswer
  <2> QED
    BY <1>1, <1>2, <1>6, <2>1, <2>2, <2>3
<1>16. ASSUME AccountMoves, UNCHANGED <<requests, now>> PROVE Moves
  <2>1. \A s \in Slots : RequestMoves(s)
    BY <1>16 DEF RequestMoves
  <2> QED
    BY <1>0, <1>16, <2>1, QuietMoves
<1>17. CASE OthersRegister
  <2> PICK email \in Emails, role \in Roles, provider \in {"local", "google"} :
          /\ WithEmail(email) = {}
          /\ \E password \in IF provider = "local" THEN Passwords ELSE {None} :
                accounts' = accounts \cup {NewRow(email, password, provider, role)}
    BY <1>17 DEF OthersRegister
  <2> PICK password \in Passwords \cup {None} :
          accounts' = accounts \cup {NewRow(email, password, provider, role)}
    OBVIOUS
  <2>1. AccountMoves
    BY <1>0, NewRowType DEF AccountMoves
  <2> QED
    BY <1>16, <1>17, <2>1 DEF OthersRegister
<1>18. CASE OthersAdopt
  <2>1. AccountMoves
    BY <1>18 DEF OthersAdopt, AccountMoves
  <2> QED
    BY <1>16, <1>18, <2>1 DEF OthersAdopt
<1>19. ASSUME NEW s \in Slots, CallFails(s) PROVE Moves
  <2>1. /\ requests[s] # None /\ requests[s].at # "answered"
        /\ UNCHANGED <<now, accounts>>
        /\ Answer(s, Refused("broken")) \/ Answer(s, Refused("credentials"))
    BY <1>19 DEF CallFails, server
  <2> QED
    BY <1>2, <1>4, <1>6, <2>1
<1>20. CASE Breaks
  BY <1>19, <1>20 DEF Breaks
<1>21. CASE Served
  BY <1>9, <1>10, <1>11, <1>12, <1>13, <1>14, <1>15, <1>17, <1>18, <1>21 DEF Served, Serves
<1> QED
  BY <1>20, <1>21

(* A request that may be sent moves as one that is sent. *)
LEMMA SubmitsMoves ==
    ASSUME SessionTypes, Submits \/ Queries \/ SubmitsRfq \/ SubmitsBid
    PROVE  Moves
<1>0. storage.token \in Tokens \cup {None}
  BY SessionShapes DEF SessionTypes
<1>1. ASSUME NEW s \in Slots, NEW asks \in AsksOf(s),
             s = "command" => asks.token = storage.token, Send(s, asks)
      PROVE  Moves
  BY <1>1, SendMoves, QuietMoves DEF AccountMoves, server
<1>2. /\ "form" \in Slots /\ "google" \in Slots /\ "query" \in Slots /\ "command" \in Slots
  BY DEF Slots
<1>3. CASE Submits
  <2> PICK email \in Emails :
        \/ \E password \in Passwords :
              \/ SubmitsLogin(email, password)
              \/ \E role \in Roles : SubmitsRegistration(email, password, role)
        \/ \E role \in Roles \cup {None} : SubmitsGoogle(email, role)
    BY <1>3 DEF Submits
  <2>1. ASSUME NEW password \in Passwords, SubmitsLogin(email, password) PROVE Moves
    <3>1. [kind |-> "login", email |-> email, password |-> password] \in AsksOf("form")
      BY DEF AsksOf
    <3> QED
      BY <1>1, <1>2, <2>1, <3>1 DEF SubmitsLogin
  <2>2. ASSUME NEW password \in Passwords, NEW role \in Roles,
               SubmitsRegistration(email, password, role)
        PROVE  Moves
    <3>1. [kind |-> "register", email |-> email, password |-> password, role |-> role]
             \in AsksOf("form")
      BY DEF AsksOf
    <3> QED
      BY <1>1, <1>2, <2>2, <3>1 DEF SubmitsRegistration
  <2>3. ASSUME NEW role \in Roles \cup {None}, SubmitsGoogle(email, role) PROVE Moves
    <3>1. [kind |-> "google", email |-> email, role |-> role] \in AsksOf("google")
      BY DEF AsksOf
    <3> QED
      BY <1>1, <1>2, <2>3, <3>1 DEF SubmitsGoogle
  <2> QED
    BY <2>1, <2>2, <2>3
<1>4. CASE Queries
  <2>1. [kind |-> "query", token |-> storage.token] \in AsksOf("query")
    BY <1>0 DEF AsksOf
  <2> QED
    BY <1>1, <1>2, <1>4, <2>1 DEF Queries, StoredToken
<1>5. ASSUME NEW needs \in Roles,
             Send("command", [kind |-> "command", token |-> storage.token, needs |-> needs])
      PROVE  Moves
  <2> DEFINE asks == [kind |-> "command", token |-> storage.token, needs |-> needs]
  <2>1. asks \in AsksOf("command") /\ asks.token = storage.token
    BY <1>0 DEF AsksOf
  <2>2. Send("command", asks)
    BY <1>5
  <2> HIDE DEF asks
  <2> QED
    BY <1>1, <1>2, <2>1, <2>2
<1>6. "BUYER" \in Roles /\ "SUPPLIER" \in Roles
  BY DEF Roles
<1> QED
  BY <1>3, <1>4, <1>5, <1>6 DEF SubmitsRfq, SubmitsBid, StoredToken

(* What the page does by itself, and with its answers.                      *)
LEMMA TabMoves ==
    ASSUME SessionTypes,
           \/ \E page \in Pages : Loads(page) \/ FollowsLink(page)
           \/ PressesLogout
           \/ \E s \in Slots : AnswerArrives(s)
           \/ OtherTabWrites \/ TimePasses \/ UNCHANGED sessionVars
    PROVE  Moves
<1>0. /\ now \in Nat
      /\ requests = [s \in Slots |-> requests[s]]
      /\ \A s \in Slots : requests[s] # None => IsCall(s, requests[s])
      /\ tab = [page |-> tab.page, token |-> tab.token, user |-> tab.user]
  BY DEF SessionTypes
<1>1. UNCHANGED accounts => AccountMoves
  BY DEF AccountMoves
<1>2. UNCHANGED requests => /\ requests' = [s \in Slots |-> requests'[s]]
                            /\ \A s \in Slots : RequestMoves(s)
  BY <1>0 DEF RequestMoves
<1>3. ASSUME NEW page \in Pages, Loads(page) PROVE Moves
  <2>1. /\ requests' = [s \in Slots |-> requests'[s]]
        /\ \A s \in Slots : RequestMoves(s)
    BY <1>3 DEF Loads, RequestMoves, GoesOn
  <2>2. Showing(page, IF storage.token # None /\ storage.user # None THEN storage ELSE NoSession)
           = Showing(page, storage)
    BY SessionShapes DEF SessionTypes, Showing, NoSession
  <2>3. tab' = Showing(page, storage)
    BY <1>3, <2>2 DEF Loads
  <2>4. Shown' = storage
    BY <2>3, SessionShapes DEF SessionTypes, Shown, Showing
  <2>5. ScreenMoves
    BY <1>3, <2>3, <2>4 DEF Loads, ScreenMoves, Showing
  <2> QED
    BY <1>0, <1>1, <1>3, <2>1, <2>5 DEF Loads, Moves, server
<1>4. ASSUME NEW page \in Pages, FollowsLink(page) PROVE Moves
  <2>1. /\ Shown' = Shown
        /\ tab' = [page |-> tab'.page, token |-> tab'.token, user |-> tab'.user]
    BY <1>0, <1>4 DEF FollowsLink, Shown
  <2>2. ScreenMoves
    BY <1>4, <2>1 DEF FollowsLink, ScreenMoves, ScreenStays
  <2> QED
    BY <1>0, <1>1, <1>2, <1>4, <2>2 DEF FollowsLink, Moves, server
<1>5. ASSUME SignOut, UNCHANGED others PROVE ScreenMoves
  BY <1>5 DEF SignOut, ScreenMoves, Showing, Shown, NoSession
<1>6. CASE PressesLogout
  BY <1>0, <1>1, <1>2, <1>5, <1>6 DEF PressesLogout, Moves, server
<1>7. ASSUME NEW s \in Slots, AnswerArrives(s) PROVE Moves
  <2>1. requests' = [q \in Slots |-> requests'[q]] /\ \A q \in Slots : RequestMoves(q)
    BY <1>0, <1>7 DEF AnswerArrives, RequestMoves
  <2>2. /\ requests[s] # None /\ requests[s].at = "answered"
        /\ requests[s].answer \in AnswersOf(s)
    BY <1>0, <1>7 DEF AnswerArrives, IsCall, IsPending, IsAnswered
  <2>3. UNCHANGED others /\ UNCHANGED accounts /\ now' \in Nat
    BY <1>0, <1>7 DEF AnswerArrives, server
  <2>4. CASE SignOut
    BY <1>1, <1>5, <2>1, <2>3, <2>4 DEF Moves
  <2>5. CASE requests[s].answer.status = 200 /\ s \in {"form", "google"}
             /\ SignIn(requests[s].answer)
    <3>1. s \in SessionSlots /\ requests[s].answer \in GrantAnswers
      BY <2>2, <2>5 DEF SessionSlots, AnswersOf, Refusals
    <3>2. /\ storage' = [token |-> requests[s].answer.token, user |-> requests[s].answer.user]
          /\ Shown' = storage'
          /\ tab' = [page |-> tab'.page, token |-> tab'.token, user |-> tab'.user]
      BY <2>5 DEF SignIn, Showing, Shown
    <3>3. ScreenMoves
      BY <2>2, <2>3, <3>1, <3>2 DEF ScreenMoves
    <3> QED
      BY <1>1, <2>1, <2>3, <3>3 DEF Moves
  <2>6. CASE (tab' = [tab EXCEPT !.page = "buyer"] \/ UNCHANGED tab) /\ UNCHANGED storage
    <3>1. /\ Shown' = Shown
          /\ tab' = [page |-> tab'.page, token |-> tab'.token, user |-> tab'.user]
      BY <1>0, <2>6 DEF Shown
    <3>2. ScreenMoves
      BY <2>3, <2>6, <3>1 DEF ScreenMoves, ScreenStays
    <3> QED
      BY <1>1, <2>1, <2>3, <3>2 DEF Moves
  <2>7. Uses(s, requests[s])
    BY <1>7 DEF AnswerArrives
  <2> QED
    BY <2>4, <2>5, <2>6, <2>7 DEF Uses
<1>8. CASE OtherTabWrites
  <2>1. ScreenMoves
    BY <1>0, <1>8 DEF OtherTabWrites, ScreenMoves, Shown
  <2> QED
    BY <1>0, <1>1, <1>2, <1>8, <2>1 DEF OtherTabWrites, Moves, server
<1>9. CASE TimePasses \/ UNCHANGED sessionVars
  <2>1. ScreenMoves
    BY <1>0, <1>9 DEF TimePasses, sessionVars, ScreenMoves, ScreenStays, Shown
  <2> QED
    BY <1>0, <1>1, <1>2, <1>9, <2>1 DEF TimePasses, sessionVars, Moves, server
<1> QED
  BY <1>3, <1>4, <1>6, <1>7, <1>8, <1>9

(* Every step moves in the ways of Moves. *)
LEMMA EveryMove == SessionTypes /\ [SessionNext]_sessionVars => Moves
  BY ServesMoves, SubmitsMoves, TabMoves DEF SessionNext, Browses

----------------------------------------------------------------------------
(* The parts of the invariant. *)

(* Shapes. *)
LEMMA SessionTypesStep ==
    ASSUME SessionTypes, OneRowPerEmail, Moves
    PROVE  SessionTypes'
<1>1. accounts' \subseteq Rows /\ IsFiniteSet(accounts')
  BY AccountsStay DEF Moves
<1>2. \A s \in Slots : requests'[s] # None => IsCall(s, requests'[s])
  BY <1>1, RequestTypes DEF Moves
<1>3. storage' \in StoredSessions /\ Shown' \in StoredSessions
  <2>1. storage \in StoredSessions /\ Shown \in StoredSessions /\ now \in Nat
        /\ accounts \subseteq Rows
    BY DEF SessionTypes
  <2>2. ASSUME NEW row \in accounts
        PROVE  [token |-> Token(row), user |-> UserOf(row)] \in StoredSessions
    BY <2>1, GrantTypes, SessionShapes
  <2>3. ASSUME NEW answer \in GrantAnswers
        PROVE  [token |-> answer.token, user |-> answer.user] \in StoredSessions
    BY SessionShapes DEF GrantAnswers
  <2> QED
    BY <2>1, <2>2, <2>3, SessionShapes DEF Moves, ScreenMoves, ScreenStays
<1> QED
  BY <1>1, <1>2, <1>3 DEF SessionTypes, Moves, ScreenMoves, IsCall, IsPending, IsAnswered

(* A grant is to an account. *)
LEMMA GrantsBelongStep ==
    ASSUME SessionTypes, OneRowPerEmail, GrantsBelong, Moves
    PROVE  GrantsBelong'
<1> SUFFICES ASSUME NEW s \in SessionSlots, NEW d, d = requests'[s],
                    d # None, d.at = "answered", d.answer.status = 200
             PROVE  Belongs([token |-> d.answer.token, user |-> d.answer.user])'
  BY DEF GrantsBelong, Belongs
<1>1. /\ s \in Slots /\ RequestMoves(s) /\ accounts' \subseteq Rows /\ now \in Nat
      /\ requests[s] # None => IsCall(s, requests[s])
  BY AccountsStay DEF Slots, SessionSlots, Moves, SessionTypes
<1>2. CASE /\ requests[s] # None /\ requests[s].at = "answered"
           /\ d.answer = requests[s].answer
  <2>1. Belongs([token |-> d.answer.token, user |-> d.answer.user])
    BY <1>2 DEF GrantsBelong
  <2> QED
    BY <2>1, BelongingStays DEF Moves
<1>3. CASE \E row \in accounts' : d.answer = Granted(row)
  <2> PICK row \in accounts' : d.answer = Granted(row)
    BY <1>3
  <2>1. /\ d.answer.token.sub = row.id /\ d.answer.token.role = row.role
        /\ d.answer.user = UserOf(row)
    BY <1>1, GrantTypes
  <2> QED
    BY <2>1 DEF Belongs, UserOf
<1>4. CASE IsSent(s)
  <2> PICK asks \in AsksOf(s) : d = Call(asks)
    BY <1>4 DEF IsSent
  <2>1. d.at = "sent"
    BY DEF Call
  <2> QED
    BY <2>1
<1>5. CASE d = requests[s]
  BY <1>2, <1>5
<1>6. CASE GoesOn(s)
  <2>1. /\ requests[s] # None /\ requests[s].at = "answered"
        /\ d.answer = requests[s].answer
    BY <1>1, <1>6 DEF GoesOn, IsCall
  <2> QED
    BY <1>2, <2>1
<1>7. CASE IsAnsweredNow(s)
  <2> PICK answer : /\ MayAnswer(s, answer)
                    /\ d = [requests[s] EXCEPT !.at = "answered", !.answer = answer,
                                               !.asks = IF s = "command" THEN @ ELSE None]
    BY <1>7 DEF IsAnsweredNow
  <2>1. d.answer = answer
    BY <1>1, <1>7 DEF IsAnsweredNow, IsCall
  <2>2. answer \notin Refusals
    BY <2>1 DEF Refusals
  <2> QED
    BY <1>3, <2>1, <2>2 DEF MayAnswer
<1> QED
  BY <1>1, <1>4, <1>5, <1>6, <1>7 DEF RequestMoves

(* A token that goes out with a command is an account's.                    *)
LEMMA CommandsBelongStep ==
    ASSUME SessionTypes, OneRowPerEmail, SessionsBelong, CommandsBelong, Moves
    PROVE  CommandsBelong'
<1> DEFINE s == "command"
           c == requests[s]
<1> SUFFICES ASSUME NEW d, d = requests'[s], d # None
             PROVE  /\ d.asks.token # None => TokenBelongs(d.asks.token)'
                    /\ d.at = "answered" /\ d.answer.status = 200 =>
                          d.asks.token # None /\ d.asks.token.role = d.asks.needs
  BY DEF CommandsBelong, TokenBelongs
<1>1. /\ s \in Slots /\ RequestMoves(s) /\ s \notin SessionSlots
      /\ c # None => IsCall(s, c)
  BY DEF Slots, SessionSlots, Moves, SessionTypes
<1>2. \A token : TokenBelongs(token) => TokenBelongs(token)'
  BY BelongingStays DEF Moves
<1>3. c # None => /\ c.asks.token # None => TokenBelongs(c.asks.token)
                  /\ c.at = "answered" /\ c.answer.status = 200 =>
                        c.asks.token # None /\ c.asks.token.role = c.asks.needs
  BY DEF CommandsBelong
<1>4. ASSUME c # None, d.asks = c.asks,
             d.at = "answered" /\ d.answer.status = 200 =>
                (c.at = "answered" /\ d.answer = c.answer)
                \/ (c.asks.token # None /\ c.asks.token.role = c.asks.needs)
      PROVE  /\ d.asks.token # None => TokenBelongs(d.asks.token)'
             /\ d.at = "answered" /\ d.answer.status = 200 =>
                   d.asks.token # None /\ d.asks.token.role = d.asks.needs
  <2>1. d.asks.token # None => TokenBelongs(d.asks.token)
    BY <1>3, <1>4
  <2>2. d.asks.token # None => TokenBelongs(d.asks.token)'
    BY <1>2, <2>1
  <2>3. d.at = "answered" /\ d.answer.status = 200 =>
           d.asks.token # None /\ d.asks.token.role = d.asks.needs
    BY <1>3, <1>4
  <2> QED
    BY <2>2, <2>3
<1>5. CASE d = c
  BY <1>4, <1>5
<1>6. CASE IsSent(s)
  <2> PICK asks \in AsksOf(s) : d = Call(asks) /\ asks.token = storage.token
    BY <1>6 DEF IsSent
  <2>1. d.asks = asks /\ d.at = "sent"
    BY DEF Call
  <2>2. storage.token # None => TokenBelongs(storage.token)
    <3>1. storage.token # None => storage # NoSession
      BY DEF NoSession
    <3> QED
      BY <3>1 DEF SessionsBelong, Belongs, TokenBelongs
  <2>3. d.asks.token # None => TokenBelongs(d.asks.token)
    BY <2>1, <2>2 DEF TokenBelongs
  <2> QED
    BY <1>2, <2>1, <2>3
<1>7. CASE GoesOn(s)
  <2>1. /\ c # None /\ d.asks = c.asks /\ d.answer = c.answer
        /\ d.at = "answered" => c.at = "answered"
    BY <1>1, <1>7 DEF GoesOn, IsCall
  <2> QED
    BY <1>4, <2>1
<1>8. CASE IsAnsweredNow(s)
  <2> PICK answer : /\ MayAnswer(s, answer)
                    /\ d = [c EXCEPT !.at = "answered", !.answer = answer, !.asks = @]
    BY <1>8 DEF IsAnsweredNow
  <2>1. /\ c # None /\ d.asks = c.asks /\ d.answer = answer
        /\ c.asks \in AsksOf(s)
    BY <1>1, <1>8 DEF IsAnsweredNow, IsCall, IsPending, IsAnswered
  <2>2. answer.status = 200 => answer = Verdict(c.asks)
    BY <1>1 DEF MayAnswer, Refusals
  <2>3. c.asks.kind = "command"
    BY <2>1 DEF AsksOf
  <2>4. answer.status = 200 => c.asks.token # None /\ c.asks.token.role = c.asks.needs
    <3> SUFFICES ASSUME answer.status = 200
                 PROVE  c.asks.token # None /\ c.asks.token.role = c.asks.needs
      OBVIOUS
    <3>1. Verdict(c.asks).status = 200
      BY <2>2
    <3>2. Authentic(c.asks.token) /\ Permitted(c.asks)
      BY <3>1, RefusalTypes DEF Verdict
    <3> QED
      BY <2>3, <3>2 DEF Authentic, Permitted
  <2> QED
    BY <1>4, <2>1, <2>4
<1> QED
  BY <1>1, <1>5, <1>6, <1>7, <1>8 DEF RequestMoves

(* What is stored or shown is an account's. *)
LEMMA SessionsBelongStep ==
    ASSUME SessionTypes, OneRowPerEmail, GrantsBelong, SessionsBelong, Moves
    PROVE  SessionsBelong'
<1>1. \A session : Belongs(session) => Belongs(session)'
  BY BelongingStays DEF Moves
<1>2. ASSUME NEW session, session # NoSession, session \in {storage, Shown}
      PROVE  Belongs(session)'
  BY <1>1, <1>2 DEF SessionsBelong
<1>3. ASSUME NEW s \in SessionSlots, requests[s] # None, requests[s].at = "answered",
             requests[s].answer \in GrantAnswers, NEW session,
             session = [token |-> requests[s].answer.token, user |-> requests[s].answer.user]
      PROVE  Belongs(session)'
  <2>1. requests[s].answer.status = 200
    BY <1>3 DEF GrantAnswers
  <2> QED
    BY <1>1, <1>3, <2>1 DEF GrantsBelong
<1>4. ASSUME NEW row \in accounts, NEW session,
             session = [token |-> Token(row), user |-> UserOf(row)]
      PROVE  Belongs(session)'
  <2>1. Belongs(session)
    BY <1>4, GrantTypes DEF Belongs, SessionTypes
  <2> QED
    BY <1>1, <2>1
<1>5. ASSUME NEW session, session # NoSession, session \in {storage', Shown'}
      PROVE  Belongs(session)'
  BY <1>2, <1>3, <1>4, <1>5 DEF Moves, ScreenMoves, ScreenStays
<1>6. storage' # NoSession' => Belongs(storage)'
  <2> PICK session : session = storage'
    OBVIOUS
  <2> QED
    BY <1>5 DEF Belongs, NoSession
<1>7. Shown' # NoSession' => Belongs(Shown)'
  <2> PICK session : session = Shown'
    OBVIOUS
  <2> QED
    BY <1>5 DEF Belongs, NoSession
<1> QED
  BY <1>6, <1>7 DEF SessionsBelong

(* Without other tabs, the tab shows what is stored. *)
LEMMA ShownIsSentStep ==
    ASSUME SessionTypes, ShownIsSent, Moves
    PROVE  ShownIsSent'
  BY DEF Moves, ScreenMoves, ScreenStays, ShownIsSent

----------------------------------------------------------------------------
(* The theorems. *)

(* The invariant holds at first. *)
LEMMA SessionInvInit == SessionInit => SessionInv
<1> SUFFICES ASSUME SessionInit PROVE SessionInv
  OBVIOUS
<1>1. \A s \in Slots : requests[s] = None
  BY DEF SessionInit
<1>2. storage = NoSession /\ Shown = NoSession /\ accounts = {}
  BY DEF SessionInit, Showing, Shown, NoSession
<1>3. SessionTypes
  BY <1>1, <1>2, SessionShapes, FS_EmptySet DEF SessionInit, SessionTypes, Showing, Shown
<1>4. GrantsBelong /\ CommandsBelong
  BY <1>1 DEF GrantsBelong, CommandsBelong, SessionSlots, Slots
<1> QED
  BY <1>2, <1>3, <1>4 DEF SessionInv, SessionsBelong, ShownIsSent, OneRowPerEmail

(* The invariant implies what is promised of sessions. *)
LEMMA SessionInvPromises == SessionInv => SessionsAreTheAccounts
<1> SUFFICES ASSUME SessionInv PROVE SessionsAreTheAccounts
  OBVIOUS
<1>1. \A row, other \in accounts : row.email = other.email => row = other
  BY DEF SessionInv, OneRowPerEmail
<1>2. ASSUME NEW session \in Sessions PROVE Belongs(session)
  <2>1. CASE session \in {storage, Shown} \ {NoSession}
    BY <2>1 DEF SessionInv, SessionsBelong
  <2>2. CASE \E s \in SessionSlots :
                /\ requests[s] # None /\ requests[s].answer # None
                /\ requests[s].answer.status = 200
                /\ session = [token |-> requests[s].answer.token,
                              user  |-> requests[s].answer.user]
    <3> PICK s \in SessionSlots :
                /\ requests[s] # None /\ requests[s].answer # None
                /\ requests[s].answer.status = 200
                /\ session = [token |-> requests[s].answer.token,
                              user  |-> requests[s].answer.user]
      BY <2>2
    <3>1. requests[s].at = "answered"
      BY DEF SessionInv, SessionTypes, IsCall, IsPending, IsAnswered, SessionSlots, Slots
    <3> QED
      BY <3>1 DEF SessionInv, GrantsBelong
  <2> QED
    BY <2>1, <2>2 DEF Sessions, Grants, SessionSlots
<1>3. LET call == requests["command"]
      IN  call # None /\ call.at = "answered" /\ call.answer.status = 200 =>
             \E row \in accounts : /\ row.id = call.asks.token.sub
                                   /\ row.role = call.asks.needs
  BY DEF SessionInv, CommandsBelong, TokenBelongs
<1> QED
  BY <1>1, <1>2, <1>3 DEF SessionsAreTheAccounts

(* The invariant is inductive: it holds of one tab in front of either       *)
(* backend, whatever other people and other tabs do in between.             *)
THEOREM SessionInvariance == FairSessionSpec => []SessionInv
<1>1. SessionInv /\ [SessionNext]_sessionVars => SessionInv'
  <2> SUFFICES ASSUME SessionInv, [SessionNext]_sessionVars PROVE SessionInv'
    OBVIOUS
  <2>1. Moves
    BY EveryMove DEF SessionInv
  <2>2. OneRowPerEmail'
    BY <2>1, AccountsStay DEF SessionInv, Moves
  <2> QED
    BY <2>1, <2>2, SessionTypesStep, GrantsBelongStep, CommandsBelongStep, SessionsBelongStep,
       ShownIsSentStep DEF SessionInv
<1> QED
  BY <1>1, SessionInvInit, PTL DEF FairSessionSpec

(* Every session granted, stored or shown is one account's, the only one    *)
(* with its e-mail, and a command let through is of an account of its role. *)
THEOREM SessionsBelongToAccounts == FairSessionSpec => []SessionsAreTheAccounts
  BY SessionInvariance, SessionInvPromises, PTL

(* A tab without rivals shows the session its requests are sent with.       *)
THEOREM TabShowsWhatItSends == FairSessionSpec => []ShownIsSent
<1>1. SessionInv => ShownIsSent
  BY DEF SessionInv
<1> QED
  BY <1>1, SessionInvariance, PTL
=============================================================================

-------------------------- MODULE SessionProperties --------------------------
(***************************************************************************)
(* What holds of sessions over the tab, its requests, the storage and the   *)
(* account table.                                                           *)
(***************************************************************************)
EXTENDS Session

Grants == {requests[s].answer : s \in {r \in {"form", "google"} :
                                          /\ requests[r] # None
                                          /\ requests[r].answer # None
                                          /\ requests[r].answer.status = 200}}

(* Every session there is: granted, stored, or shown. *)
Sessions == {[token |-> g.token, user |-> g.user] : g \in Grants}
                \cup ({storage, Shown} \ {NoSession})

(* A session whose token and whose user are one account's. *)
Belongs(session) ==
    \E row \in accounts :
       /\ session.user = UserOf(row)
       /\ session.token.sub = row.id
       /\ session.token.role = row.role

(* The server believes a token's role without reading the account again     *)
(* (role.middleware.ts:11), and the browser its stored user: both must be   *)
(* those of one account, the only one with its e-mail, although accounts    *)
(* are looked up and written in separate steps, and Google logins take over *)
(* accounts that older sessions are for.  And a command is let through only *)
(* for an account of the role it needs.                                     *)
SessionsAreTheAccounts ==
    /\ \A row, other \in accounts : row.email = other.email => row = other
    /\ \A session \in Sessions : Belongs(session)
    /\ LET call == requests["command"]
       IN  call # None /\ call.at = "answered" /\ call.answer.status = 200 =>
              \E row \in accounts : /\ row.id = call.asks.token.sub
                                    /\ row.role = call.asks.needs

(* Who uses one tab only is shown the session their requests are sent with, *)
(* however its logins, answers to older requests, logouts and reloads       *)
(* interleave (auth-provider.tsx:61-103, api-client.ts:15-27).  With other  *)
(* tabs it fails: a tab is not told what another one stored.                *)
ShownIsSent == ~others => Shown = storage

(* Nobody is left on a page that fetches after the stored token expired or  *)
(* was removed by another tab: some fetch is answered 401, and signs the    *)
(* tab out (api-client.ts:42-47, auth-provider.tsx:51-59).                  *)
NobodyStaysExpired == []<>~(Fetching /\ ~Authentic(storage.token))
=============================================================================

--------------------------- MODULE BritishAuction ---------------------------
(***************************************************************************)
(* The auction the service promises: every call takes effect at once.  A    *)
(* bid is judged by the close time and the ledger it is added to, not by    *)
(* older copies of them; closing is final; the RFQ closes on time or when   *)
(* its buyer says so.  What a bid may do to the close time is a parameter:  *)
(* the rules of the backend that makes the promise.                         *)
(***************************************************************************)
EXTENDS Integers, FiniteSets

CONSTANTS Terms, Requests, NoClientId,
          CloseRule(_, _, _, _, _)   \* the close times a bid may leave behind, given close,
                                     \* terms, request, ledger and the time it is judged at

VARIABLES now, terms, status, close, ledger

vars == <<now, terms, status, close, ledger>>

Init ==
    /\ now = 0
    /\ terms \in Terms
    /\ status = "NONE"
    /\ close = 0
    /\ ledger = {}

Open ==
    /\ status = "NONE"
    /\ status' = "ACTIVE"
    /\ close' = terms.close
    /\ UNCHANGED <<now, terms, ledger>>

(* A bid with a new client id that is below all its supplier's earlier ones *)
(* joins the ledger and moves the close time as the rules say; `seen` is    *)
(* when the service looked at the clock to decide.                          *)
Accept(r) ==
    LET bid == [id |-> Cardinality(ledger) + 1, supplier |-> r.supplier,
                price |-> r.price, client |-> r.client]
    IN  /\ status = "ACTIVE"
        /\ \A x \in ledger : x.client # r.client \/ r.client = NoClientId
        /\ \A x \in ledger : x.supplier = r.supplier => r.price < x.price
        /\ ledger' = ledger \cup {bid}
        /\ \E seen \in 0..now : close' \in CloseRule(close, terms, r, ledger, seen)
        /\ UNCHANGED <<now, terms, status>>

Finalize ==
    /\ status = "ACTIVE"
    /\ now >= close \/ now >= terms.forced
    /\ status' = "CLOSED"
    /\ UNCHANGED <<now, terms, close, ledger>>

ForceFinalize ==
    /\ status = "ACTIVE"
    /\ status' = "CLOSED"
    /\ close' \in 0..now
    /\ UNCHANGED <<now, terms, ledger>>

Tick == now' = now + 1 /\ UNCHANGED <<terms, status, close, ledger>>

Next ==
    \/ Open
    \/ \E r \in Requests : Accept(r)
    \/ Finalize
    \/ ForceFinalize
    \/ Tick

Spec == Init /\ [][Next]_vars
============================================================================

----------------------------- MODULE VenuePromise -----------------------------
(***************************************************************************)
(* What the paper venue promises its user, without account, prices,        *)
(* brackets or scheduler: an order is placed once and settles at most once *)
(* (executed, expired or cancelled, for good), and the signed quantity     *)
(* held in a symbol moves only when a pending order fills, by exactly that *)
(* order's quantity, or when a position is closed, towards zero and never  *)
(* across it.                                                              *)
(***************************************************************************)
EXTENDS Integers

CONSTANTS Symbols,  \* the instruments
          Orders,   \* the identities of orders
          Terms     \* what an order may ask for: [symbol, amount], amount signed

VARIABLES status,   \* status[o]
          terms,    \* terms[o], once placed
          exposure  \* exposure[s]: signed quantity held

vars == <<status, terms, exposure>>

NoTerms == [symbol |-> "none", amount |-> 0]

Init ==
    /\ status = [o \in Orders |-> "none"]
    /\ terms = [o \in Orders |-> NoTerms]
    /\ exposure = [s \in Symbols |-> 0]

Place(o, t) ==
    /\ status[o] = "none"
    /\ status' = [status EXCEPT ![o] = "pending"]
    /\ terms' = [terms EXCEPT ![o] = t]
    /\ UNCHANGED exposure

Fill(o) ==
    /\ status[o] = "pending"
    /\ status' = [status EXCEPT ![o] = "executed"]
    /\ exposure' = [exposure EXCEPT ![terms[o].symbol] = @ + terms[o].amount]
    /\ UNCHANGED terms

Retire(o, how) ==
    /\ status[o] = "pending"
    /\ status' = [status EXCEPT ![o] = how]
    /\ UNCHANGED <<terms, exposure>>

\* From `held` towards zero, not across it.
Reduced(held) == IF held > 0 THEN 0..(held - 1) ELSE (held + 1)..0

Close(s) ==
    /\ exposure[s] # 0
    /\ \E left \in Reduced(exposure[s]) :
          exposure' = [exposure EXCEPT ![s] = left]
    /\ UNCHANGED <<status, terms>>

Next ==
    \/ \E o \in Orders, t \in Terms : Place(o, t)
    \/ \E o \in Orders : Fill(o)
    \/ \E o \in Orders, how \in {"expired", "cancelled"} : Retire(o, how)
    \/ \E s \in Symbols : Close(s)

Spec == Init /\ [][Next]_vars
=============================================================================

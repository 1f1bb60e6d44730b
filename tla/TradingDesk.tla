------------------------------ MODULE TradingDesk ------------------------------
(***************************************************************************)
(* What stands between a ticket and an order: the safety settings          *)
(* (api/routes/providers.py), the user's constitution                      *)
(* (services/constitution.py) and TradingExecutionService                  *)
(* (services/trading.py), over the secret store that must be able to keep  *)
(* the broker's credentials.                                               *)
(*                                                                         *)
(* The routes are coroutines that await nothing while they work, so each   *)
(* is one action; between the broker's acceptance and the row that records *)
(* it the write may fail or the process die.  Brokers are external: a      *)
(* client takes the whole ticket, or only symbol, side and quantity, or    *)
(* has no submit_order; it accepts or raises.                              *)
(***************************************************************************)
EXTENDS SecretStore, FiniteSetsExt

CONSTANTS
    Chain,      \* providers of the trading route, in order
    Client,     \* provider -> "ticket", "plain" or "none"
    Tickets,    \* [stop, reason, risk, kind]: plan and order type; Unrated if none is given
    RuleBook,   \* [cap, risk, stop, reason]: what a user may ask to adopt
    MaxFilings, MaxChanges

ASSUME DeskAssumption == RuleBook \subseteq [cap : Int, risk : Int, stop : BOOLEAN, reason : BOOLEAN]

Unrated == -1
NoLaw == [cap |-> 0, risk |-> 0, stop |-> FALSE, reason |-> FALSE]   \* none adopted
Modes == {"paper", "live"}

VARIABLES
    mode, confirmed,   \* trading_mode, live_trading_confirmed
    law,               \* the constitution saved, or NoLaw
    filed,             \* rows of paper_trade_intents submitted today
    placed,            \* orders the broker accepted today
    lost,              \* those of them no row tells of (history)
    custody,           \* the confirmation was saved with a usable keychain (history)
    loosest,           \* the loosest cap in force today, 0 without one all day (history)
    changes            \* settings and rules changed, a bound of the model
desk == <<mode, confirmed, law, filed, placed, lost, custody, loosest, changes>>

DeskInit ==
    /\ mode = "paper" /\ confirmed = FALSE /\ law = NoLaw
    /\ filed = 0 /\ placed = <<>> /\ lost = 0 /\ custody = FALSE /\ loosest = 0 /\ changes = 0

Changes == changes < MaxChanges /\ changes' = changes + 1

\* update_provider_settings: a confirmation needs the keychain, a mode does not.
UpdateSafety(m, confirm) ==
    /\ up /\ Changes
    /\ confirm => ready
    /\ mode' = m /\ confirmed' = confirm /\ custody' = (confirm /\ ready)
    /\ UNCHANGED <<law, filed, placed, lost, loosest>>

\* adopt: risk in hundredths of a percent.
Clamped(rules) ==
    [rules EXCEPT !.cap = Max({1, Min({50, @})}), !.risk = Max({10, Min({1000, @})})]
AdoptRules(rules) ==
    /\ up /\ Changes
    /\ law' = Clamped(rules)
    /\ loosest' = IF loosest > 0 THEN Max({loosest, Clamped(rules).cap}) ELSE 0
    /\ UNCHANGED <<mode, confirmed, filed, placed, lost, custody>>

\* check_trade.
Violations(t) ==
    IF law = NoLaw THEN {}
    ELSE {v \in {"stop", "reason", "risk", "cap"} :
             \/ v = "stop" /\ law.stop /\ ~t.stop
             \/ v = "reason" /\ law.reason /\ ~t.reason
             \/ v = "risk" /\ t.risk > law.risk
             \/ v = "cap" /\ filed >= law.cap}

\* submit_trade in paper mode; the store may refuse the ticket, and then nothing
\* changes.
FilePaper(t) ==
    /\ up /\ filed < MaxFilings /\ Violations(t) = {} /\ mode = "paper"
    /\ filed' = filed + 1
    /\ UNCHANGED <<mode, confirmed, law, placed, lost, custody, loosest, changes>>

\* Mutant of Gate: the mode is taken for the confirmation.
GateByMode == mode = "live"
Gate == mode = "live" /\ confirmed
\* The provider of the chain an order goes to: the first whose client submits.
Broker == LET able == {i \in DOMAIN Chain : Client[Chain[i]] # "none"}
          IN  IF able = {} THEN "none" ELSE Client[Chain[Min(able)]]
\* A client of the old signature gets symbol, side and quantity of what is ordered
\* at the market, and a resting order is refused; that the ticket plans a stop is
\* not asked, and the leg is left out.
Takes(client, t) == client = "ticket" \/ (client = "plain" /\ t.kind = "market")
Order(t) == [client |-> Broker, stop |-> t.stop, custody |-> custody,
             lawful |-> law = NoLaw \/ (filed < law.cap /\ (law.stop => t.stop))]
\* _submit_live_trade and record_live_trade.
PlaceLive(t) ==
    /\ up /\ Len(placed) < MaxFilings /\ Violations(t) = {} /\ Gate /\ Takes(Broker, t)
    /\ placed' = Append(placed, Order(t))
    /\ filed' = filed + 1
    /\ UNCHANGED <<mode, confirmed, law, lost, custody, loosest, changes>>
\* The broker has the order and the row is not written.
PlaceUnrecorded(t) ==
    /\ up /\ Len(placed) < MaxFilings /\ Violations(t) = {} /\ Gate /\ Takes(Broker, t)
    /\ placed' = Append(placed, Order(t))
    /\ lost' = lost + 1
    /\ UNCHANGED <<mode, confirmed, law, filed, custody, loosest, changes>>

NextDay ==
    /\ filed' = 0 /\ placed' = <<>> /\ lost' = 0
    /\ loosest' = law.cap
    /\ UNCHANGED <<mode, confirmed, law, custody, changes>>

DeskNext ==
    \/ /\ ~pending.on /\ UNCHANGED secrets   \* the routes and a save share one event loop
       /\ \/ \E m \in Modes, c \in BOOLEAN : UpdateSafety(m, c)
          \/ \E r \in RuleBook : AdoptRules(r)
          \/ \E t \in Tickets : FilePaper(t) \/ PlaceLive(t) \/ PlaceUnrecorded(t)
          \/ NextDay
    \/ SecretNext /\ UNCHANGED desk
DeskSpec == SecretInit /\ DeskInit /\ [][DeskNext]_<<secrets, desk>>

(***************************************************************************)
(* Properties.                                                             *)
(***************************************************************************)
\* No order reaches a broker by a flipped mode alone: each was placed under a
\* confirmation that was saved while a keychain could keep the credentials, and on
\* a ticket within the constitution; and on a day begun under one the tickets
\* filed stay within the loosest cap adopted.  The broker's own orders may be more
\* by those no row tells of, and what a client of the old signature makes of a
\* planned stop is not promised: DeskClaims shows both.
OrdersGated ==
    /\ \A i \in DOMAIN placed : placed[i].custody /\ placed[i].lawful
    /\ loosest > 0 => filed <= loosest /\ Len(placed) <= loosest + lost
=============================================================================

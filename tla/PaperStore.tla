------------------------------ MODULE PaperStore ------------------------------
(***************************************************************************)
(* The data and the arithmetic of the paper-trading store                  *)
(* (storage/state_store/trading.py): what a ticket is, what one fill does  *)
(* to a position and to the account, when a pending order triggers, and    *)
(* where a position's protective exit lies.  Everything here is a constant *)
(* operator; PaperVenue and PaperRaces put the operators to work.          *)
(*                                                                         *)
(* Prices and quantities are integers.  The store keeps REAL columns; the  *)
(* instances choose prices whose weighted averages are exact, so that no   *)
(* property is about rounding.  A NULL price, percentage or expiry is 0,   *)
(* which the payload validation (gt=0) keeps out of the legal values.      *)
(***************************************************************************)
EXTENDS Integers, Sequences

CONSTANTS Symbols,  \* the instruments
          Tickets   \* the order tickets a client may send

NoPrice == 0   \* a NULL price: no candle, no limit, no plan level
NoDay == 0     \* a NULL expires_at

Sides == {"long", "short"}
Opposite(side) == IF side = "long" THEN "short" ELSE "long"
SideSign(side) == IF side = "long" THEN 1 ELSE -1

\* PaperTradePayload.  `trail` is trail_percent, `entry` the client's own
\* entry price, `expires` the day of expires_at.
Ticket == [symbol: Symbols, side: Sides, qty: Nat \ {0}, entry: Nat \ {0},
           type: {"market", "limit", "stop"}, limit: Nat,
           tif: {"day", "gtc", "gtd"}, expires: Nat,
           stop: Nat, target: Nat, trail: 0..50]

ASSUME TicketsAssumption == Tickets \subseteq Ticket

-----------------------------------------------------------------------------
(* Positions.  A row of paper_positions; no row is Flat.                   *)

PositionRow == [side: Sides \cup {"none"}, qty: Nat, avg: Int, best: Int, pnl: Int]

\* What a position, a ticket or a ledger row counts for.
SignedQty(row) == SideSign(row.side) * row.qty

Flat == [side |-> "none", qty |-> 0, avg |-> 0, best |-> NoPrice, pnl |-> 0]

Holding(side, qty, avg, best) ==
    [side |-> side, qty |-> qty, avg |-> avg, best |-> best, pnl |-> 0]
Opened(side, qty, price) == Holding(side, qty, price, NoPrice)

\* The part of a fill that closes what is held, and the part that opens.
Closing(pos, side, qty) ==
    IF pos.qty = 0 \/ pos.side = side THEN 0
    ELSE IF qty < pos.qty THEN qty ELSE pos.qty
Opening(pos, side, qty) == qty - Closing(pos, side, qty)

\* Mutants of FilledPosition: an addition averaged without weights, an
\* overshooting fill that opens its whole quantity, and a side never compared.
FilledUnweighted(pos, side, qty, price) ==
    IF pos.qty > 0 /\ pos.side = side
    THEN Holding(side, pos.qty + qty, (pos.avg + price) \div 2, pos.best)
    ELSE IF Opening(pos, side, qty) > 0 THEN Opened(side, Opening(pos, side, qty), price)
    ELSE IF qty = pos.qty THEN Flat
    ELSE Holding(pos.side, pos.qty - qty, pos.avg, pos.best)
FilledOvershooting(pos, side, qty, price) ==
    IF pos.qty > 0 /\ pos.side = side
    THEN Holding(side, pos.qty + qty,
                 (pos.qty * pos.avg + qty * price) \div (pos.qty + qty), pos.best)
    ELSE IF Opening(pos, side, qty) > 0 THEN Opened(side, qty, price)
    ELSE IF qty = pos.qty THEN Flat
    ELSE Holding(pos.side, pos.qty - qty, pos.avg, pos.best)
FilledSideless(pos, side, qty, price) ==
    IF pos.qty = 0 THEN Opened(side, qty, price)
    ELSE Holding(pos.side, pos.qty + qty,
                 (pos.qty * pos.avg + qty * price) \div (pos.qty + qty), pos.best)

FilledPosition(pos, side, qty, price) ==
    CASE pos.qty = 0 -> Opened(side, qty, price)
      [] pos.qty > 0 /\ pos.side = side ->
            Holding(side, pos.qty + qty,
                    (pos.qty * pos.avg + qty * price) \div (pos.qty + qty), pos.best)
      [] pos.qty > 0 /\ pos.side # side /\ qty < pos.qty ->
            Holding(pos.side, pos.qty - qty, pos.avg, pos.best)
      [] pos.qty > 0 /\ pos.side # side /\ qty = pos.qty -> Flat
      [] pos.qty > 0 /\ pos.side # side /\ qty > pos.qty ->
            Opened(side, qty - pos.qty, price)

\* _calculate_realized_pnl and _calculate_unrealized_pnl are one formula.
Pnl(side, qty, avg, price) == SideSign(side) * (price - avg) * qty

AtLeastZero(x) == IF x < 0 THEN 0 ELSE x

\* Mutants of FilledBuyingPower: no clamp; closing returns what was reserved.
UnclampedBuyingPower(bp, pos, side, qty, price) ==
    bp + (Closing(pos, side, qty) - Opening(pos, side, qty)) * price
ReservedBuyingPower(bp, pos, side, qty, price) ==
    AtLeastZero(bp + Closing(pos, side, qty) * pos.avg - Opening(pos, side, qty) * price)

\* buying_power after a fill.  Closing credits quantity * price whatever the
\* side; opening debits it and stops at zero.
FilledBuyingPower(bp, pos, side, qty, price) ==
    AtLeastZero(bp + (Closing(pos, side, qty) - Opening(pos, side, qty)) * price)

FilledRealized(realized, pos, side, qty, price) ==
    realized + Pnl(pos.side, Closing(pos, side, qty), pos.avg, price)

-----------------------------------------------------------------------------
(* Pending orders.                                                         *)

\* p is no worse a purchase (long) or a sale (short) than `level`.
NoWorse(side, p, level) == IF side = "long" THEN p <= level ELSE p >= level
Better(side, p, q) == IF NoWorse(side, p, q) THEN p ELSE q

\* prices.get(symbol, entry_price): the client's price stands in for a
\* symbol without a market snapshot.
Latest(ticket, price) == IF price = NoPrice THEN ticket.entry ELSE price

\* Mutant of Expired: a good-till-date order lives through its last day.
ExpiredLate(ticket, submitted, today) ==
    \/ ticket.tif = "day" /\ submitted < today
    \/ ticket.tif = "gtd" /\ ticket.expires # NoDay /\ ticket.expires < today

Expired(ticket, submitted, today) ==
    \/ ticket.tif = "day" /\ submitted < today
    \/ ticket.tif = "gtd" /\ ticket.expires # NoDay /\ ticket.expires <= today

Triggered(ticket, latest) ==
    CASE ticket.type = "limit" /\ ticket.limit # NoPrice ->
            NoWorse(ticket.side, latest, ticket.limit)
      [] ticket.type = "stop" /\ ticket.limit # NoPrice ->
            NoWorse(Opposite(ticket.side), latest, ticket.limit)
      [] OTHER -> TRUE

ExecutedPrice(ticket, latest) ==
    IF ticket.type = "limit" /\ ticket.limit # NoPrice
    THEN Better(ticket.side, latest, ticket.limit)
    ELSE latest

\* The price the submission guard multiplies by the quantity.
ReferencePrice(ticket) ==
    IF ticket.limit # NoPrice THEN ticket.limit ELSE ticket.entry

-----------------------------------------------------------------------------
(* Brackets: a position's planned stop and target and its trailing stop.   *)

\* Mutant of Ratchet: the latest close, better or not.
RatchetForgets(pos, price) == price

\* The best closed price since entry.
Ratchet(pos, price) ==
    LET from == IF pos.best = NoPrice THEN pos.avg ELSE pos.best
    IN  Better(Opposite(pos.side), price, from)

\* The stop in force once `best` is the best close.
EffectiveStop(ticket, side, best) ==
    LET trailed == best - SideSign(side) * ((best * ticket.trail) \div 100)
    IN  IF ticket.trail = 0 THEN ticket.stop
        ELSE IF ticket.stop = NoPrice THEN trailed
        ELSE Better(Opposite(side), ticket.stop, trailed)

HasStop(ticket) == ticket.stop # NoPrice \/ ticket.trail # 0
\* Mutant of StopTouched: the stop must be crossed, not touched.
StopCrossed(ticket, side, best, price) ==
    HasStop(ticket) /\ ~NoWorse(Opposite(side), price, EffectiveStop(ticket, side, best))
StopTouched(ticket, side, best, price) ==
    HasStop(ticket) /\ NoWorse(side, price, EffectiveStop(ticket, side, best))
TargetTouched(ticket, side, price) ==
    ticket.target # NoPrice /\ NoWorse(Opposite(side), price, ticket.target)

\* What the bracket of `ticket` does to a position at `price`: the stop is
\* looked at first, and the exit is booked at the level, not at the price.
NoExit == [kind |-> "none", price |-> NoPrice]
\* Mutant of BracketExit: with a target, only the target is looked at.
TargetOnlyExit(ticket, side, best, price) ==
    IF ticket.target # NoPrice
    THEN IF TargetTouched(ticket, side, price)
         THEN [kind |-> "target", price |-> ticket.target] ELSE NoExit
    ELSE IF StopTouched(ticket, side, best, price)
    THEN [kind |-> "stop", price |-> EffectiveStop(ticket, side, best)] ELSE NoExit
BracketExit(ticket, side, best, price) ==
    IF StopTouched(ticket, side, best, price)
    THEN [kind |-> "stop", price |-> EffectiveStop(ticket, side, best)]
    ELSE IF TargetTouched(ticket, side, price)
    THEN [kind |-> "target", price |-> ticket.target]
    ELSE NoExit
=============================================================================

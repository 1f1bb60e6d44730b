------------------------------ MODULE PaperVenue ------------------------------
(***************************************************************************)
(* The paper-trading venue: the REST handlers of api/routes/paper.py and   *)
(* the scheduler's 30-second paper-execution job (run_paper_cycle), over   *)
(* the tables of storage/state_store/trading.py.                           *)
(*                                                                         *)
(* Store calls are atomic here; PaperRaces opens them up.  The job is not: *)
(* it reads the prices once, then makes three store calls, and handlers    *)
(* run between them.  Inside process_pending_paper_trades and              *)
(* enforce_paper_brackets the model takes one step per row, with every     *)
(* other actor held off until the call ends.                               *)
(***************************************************************************)
EXTENDS PaperStore, FiniteSets, Functions, FiniteSetsExt, SequencesExt

CONSTANTS Prices,       \* closes a candle may print
          StartCash,    \* default_paper_account()
          PutAccounts,  \* accounts a client may PUT
          LiveTickets,  \* tickets sent while the trading mode is live, as stored
          MaxIntents,   \* bound on the rows of paper_trade_intents
          LastDay,      \* bound on the calendar
          MaxRestarts   \* bound on backend restarts

ASSUME VenueAssumption ==
    /\ Prices \subseteq Nat \ {0}
    /\ LiveTickets \subseteq
          {t \in Ticket : t.stop = NoPrice /\ t.target = NoPrice /\ t.expires = NoDay}
    /\ PutAccounts \subseteq [balance: Nat, buyingPower: Nat, realizedPnl: Int]
    /\ IsFiniteSet(Symbols)
    /\ StartCash \in Nat /\ MaxIntents \in Nat /\ LastDay \in Nat /\ MaxRestarts \in Nat

VARIABLES
    account,    \* paper_account_state: buyingPower and realizedPnl
    balance,    \* paper_account_state.balance, recomputed by the job
    positions,  \* paper_positions, by symbol
    intents,    \* paper_trade_intents, by id
    fills,      \* ids in the order (executed_at, id) of their execution
    ledger,     \* paper_trade_closures
    market,     \* latest close by symbol, in the analytics store
    day,        \* the UTC day
    pc,         \* where the job is
    seen,       \* the job's price_map
    rows,       \* pending ids the running process_pending has still to visit
    held,       \* symbols the running enforce_brackets has still to visit
    restarts,   \* restarts so far
    offbook,    \* history: what entered the account without a ledger row
    origin      \* history: the fills that built the position held in a symbol

store == <<account, balance, positions, intents, fills, ledger>>
job == <<pc, seen, rows, held>>
environment == <<market, day, restarts>>
history == <<offbook, origin>>
vars == <<store, job, environment, history>>

-----------------------------------------------------------------------------
Between == {"idle", "pending", "brackets", "marks"}   \* no store call running
Inside == {"filling", "enforcing"}

Intent == [ticket: Ticket, mode: {"paper", "live"}, submitted: Nat, filledOn: Nat,
           status: {"pending", "executed", "expired", "cancelled", "submitted"}, price: Nat]
Closure == [symbol: Symbols, side: Sides, qty: Nat \ {0}, entry: Int, exit: Int,
            kind: {"stop", "target", "manual"}, risk: Int]

NoPrices == [s \in Symbols |-> NoPrice]

Intents == DOMAIN intents
Pending == {i \in Intents : intents[i].status = "pending"}
IsHeld(s) == positions[s].qty > 0

\* Governing ticket: the latest executed intent of the position's symbol and
\* side, paper or live; 0 when there is none.  `wanted` narrows the search.
LatestFill(symbol, side, wanted(_)) ==
    LET found == {k \in DOMAIN fills :
                    LET t == intents[fills[k]].ticket
                    IN  t.symbol = symbol /\ t.side = side /\ wanted(t)}
    IN  IF found = {} THEN 0 ELSE fills[Max(found)]
AnyTicket(t) == TRUE
Planned(t) == t.stop # NoPrice
Governing(s) == LatestFill(s, positions[s].side, AnyTicket)

\* Mutants of ClosureRow: the row of a partial close takes the whole position;
\* the plan is the oldest, not the latest.
ClosureOfAll(s, qty, exit, kind) ==
    LET planned == LatestFill(s, positions[s].side, Planned)
    IN  [symbol |-> s, side |-> positions[s].side, qty |-> positions[s].qty,
         entry |-> positions[s].avg, exit |-> exit, kind |-> kind,
         risk |-> IF planned = 0 THEN NoPrice ELSE intents[planned].ticket.stop]
ClosureOldestPlan(s, qty, exit, kind) ==
    LET side == positions[s].side
        found == {k \in DOMAIN fills : LET t == intents[fills[k]].ticket
                                       IN  t.symbol = s /\ t.side = side /\ Planned(t)}
    IN  [symbol |-> s, side |-> side, qty |-> qty, entry |-> positions[s].avg,
         exit |-> exit, kind |-> kind,
         risk |-> IF found = {} THEN NoPrice ELSE intents[fills[Min(found)]].ticket.stop]

\* _record_closure.  `risk` is the stop its R multiple is measured against.
ClosureRow(s, qty, exit, kind) ==
    LET side == positions[s].side
        planned == LatestFill(s, side, Planned)
    IN  [symbol |-> s, side |-> side, qty |-> qty, entry |-> positions[s].avg,
         exit |-> exit, kind |-> kind,
         risk |-> IF planned = 0 THEN NoPrice ELSE intents[planned].ticket.stop]

\* _apply_trade_fill.
ApplyFill(s, side, qty, price) ==
    LET pos == positions[s]
    IN  /\ positions' = [positions EXCEPT ![s] = FilledPosition(pos, side, qty, price)]
        /\ account' =
             [buyingPower |-> FilledBuyingPower(account.buyingPower, pos, side, qty, price),
              realizedPnl |-> FilledRealized(account.realizedPnl, pos, side, qty, price)]

\* What a clamp at zero forgives.
Forgiven(s, side, qty, price) ==
    AtLeastZero((Opening(positions[s], side, qty) - Closing(positions[s], side, qty)) * price
                - account.buyingPower)

\* _recalculate_paper_account_totals, over the rows and account given.
Recalculated(rowsNow, accountNow) ==
    AtLeastZero(accountNow.buyingPower + accountNow.realizedPnl
        + SumFunction([s \in Symbols |-> rowsNow[s].qty * rowsNow[s].avg + rowsNow[s].pnl]))

-----------------------------------------------------------------------------
\* An instance may begin on any of its days and with any number of restarts left.
Init ==
    /\ account = [buyingPower |-> StartCash, realizedPnl |-> 0]
    /\ balance = StartCash
    /\ positions = [s \in Symbols |-> Flat]
    /\ intents = <<>> /\ fills = <<>> /\ ledger = <<>>
    /\ market = NoPrices /\ day \in 1..LastDay /\ restarts \in 0..MaxRestarts
    /\ pc = "idle" /\ seen = NoPrices /\ rows = {} /\ held = {}
    /\ offbook = [cash |-> 0, pnl |-> 0] /\ origin = [s \in Symbols |-> {}]

-----------------------------------------------------------------------------
(* Handlers.                                                               *)

\* A row of paper_trade_intents, before and after its execution.
Unfilled(ticket, mode, status) ==
    [ticket |-> ticket, mode |-> mode, submitted |-> day, status |-> status,
     price |-> NoPrice, filledOn |-> NoDay]
Executed(row, price) ==
    [ticket |-> row.ticket, mode |-> row.mode, submitted |-> row.submitted,
     status |-> "executed", price |-> price, filledOn |-> day]

\* POST /api/paper-trades in paper mode (submit_paper_trade).
Submit(t) ==
    /\ pc \in Between /\ Len(intents) < MaxIntents
    /\ t.qty * ReferencePrice(t) <= account.buyingPower
    /\ IsHeld(t.symbol) => positions[t.symbol].side = t.side
    /\ intents' = Append(intents, Unfilled(t, "paper", "pending"))
    /\ UNCHANGED <<account, balance, positions, fills, ledger, job, environment, history>>

\* POST /api/paper-trades in live mode, once the broker answered
\* (record_live_trade): same table, no plan columns and no expiry, and a
\* status this venue's job never looks at.
RecordLive(t, filled) ==
    /\ pc \in Between /\ Len(intents) < MaxIntents
    /\ intents' = Append(intents,
           IF filled THEN Executed(Unfilled(t, "live", "submitted"), t.entry)
           ELSE Unfilled(t, "live", "submitted"))
    /\ fills' = IF filled THEN Append(fills, Len(intents) + 1) ELSE fills
    /\ UNCHANGED <<account, balance, positions, ledger, job, environment, history>>

\* Mutant of Cancel: no WHERE status = 'pending'.
CancelAny(i) ==
    /\ pc \in Between
    /\ intents' = [intents EXCEPT ![i].status = "cancelled"]
    /\ UNCHANGED <<account, balance, positions, fills, ledger, job, environment, history>>

\* POST /api/paper-trades/{id}/cancel (cancel_paper_intent).
Cancel(i) ==
    /\ pc \in Between
    /\ intents[i].status = "pending"
    /\ intents' = [intents EXCEPT ![i].status = "cancelled"]
    /\ UNCHANGED <<account, balance, positions, fills, ledger, job, environment, history>>

\* POST /api/paper-positions/{symbol}/close (close_position).
ClosePosition(s, asked) ==
    /\ pc \in Between
    /\ market[s] # NoPrice
    /\ IsHeld(s)
    /\ LET qty == IF asked < positions[s].qty THEN asked ELSE positions[s].qty
       IN  /\ ApplyFill(s, Opposite(positions[s].side), qty, market[s])
           /\ ledger' = Append(ledger, ClosureRow(s, qty, market[s], "manual"))
    /\ origin' = IF positions'[s] = Flat THEN [origin EXCEPT ![s] = {}] ELSE origin
    /\ UNCHANGED <<balance, intents, fills, job, environment, offbook>>

\* PUT /api/paper-account (replace_paper_account): the account row only.
ReplaceAccount(a) ==
    /\ pc \in Between
    /\ account' = [buyingPower |-> a.buyingPower, realizedPnl |-> a.realizedPnl]
    /\ balance' = a.balance
    /\ offbook' = [cash |-> offbook.cash + a.buyingPower - account.buyingPower,
                   pnl |-> offbook.pnl + a.realizedPnl - account.realizedPnl]
    /\ UNCHANGED <<positions, intents, fills, ledger, job, environment, origin>>

-----------------------------------------------------------------------------
(* The paper-execution job.                                                *)

\* _latest_market_snapshots: the price_map of the whole cycle.
StartCycle ==
    /\ pc = "idle"
    /\ pc' = "pending" /\ seen' = market
    /\ UNCHANGED <<store, rows, held, environment, history>>

\* process_pending_paper_trades: SELECT ... WHERE status = 'pending'.
BeginPending ==
    /\ pc = "pending"
    /\ pc' = "filling" /\ rows' = Pending
    /\ UNCHANGED <<store, seen, held, environment, history>>

IsNext(i) == pc = "filling" /\ i \in rows /\ \A j \in rows : i <= j

ExpireRow(i) ==
    /\ IsNext(i)
    /\ Expired(intents[i].ticket, intents[i].submitted, day)
    /\ intents' = [intents EXCEPT ![i].status = "expired"]
    /\ rows' = rows \ {i}
    /\ UNCHANGED <<account, balance, positions, fills, ledger, pc, seen, held,
                   environment, history>>

\* Mutant of Ready: a symbol without a market snapshot is passed over.
ReadyWithPrice(i) ==
    LET t == intents[i].ticket
    IN  /\ ~Expired(t, intents[i].submitted, day)
        /\ seen[t.symbol] # NoPrice /\ Triggered(t, seen[t.symbol])

Ready(i) ==
    LET t == intents[i].ticket
    IN  /\ ~Expired(t, intents[i].submitted, day)
        /\ Triggered(t, Latest(t, seen[t.symbol]))

SkipRow(i) ==
    /\ IsNext(i)
    /\ ~Expired(intents[i].ticket, intents[i].submitted, day) /\ ~Ready(i)
    /\ rows' = rows \ {i}
    /\ UNCHANGED <<store, pc, seen, held, environment, history>>

FillRow(i) ==
    LET t == intents[i].ticket
        price == ExecutedPrice(t, Latest(t, seen[t.symbol]))
        closed == Closing(positions[t.symbol], t.side, t.qty)
        netted == Pnl(positions[t.symbol].side, closed, positions[t.symbol].avg, price)
    IN  /\ IsNext(i) /\ Ready(i)
        /\ ApplyFill(t.symbol, t.side, t.qty, price)
        /\ intents' = [intents EXCEPT ![i] = Executed(@, price)]
        /\ fills' = Append(fills, i)
        /\ rows' = rows \ {i}
        /\ offbook' =
             [cash |-> offbook.cash + SideSign(positions[t.symbol].side) * netted
                         + Forgiven(t.symbol, t.side, t.qty, price),
              pnl |-> offbook.pnl + netted]
        /\ origin' = [origin EXCEPT ![t.symbol] =
             IF positions'[t.symbol] = Flat THEN {}
             ELSE IF positions[t.symbol].side = positions'[t.symbol].side
                  THEN IF closed = 0 THEN @ \cup {i} ELSE @
             ELSE {i}]
        /\ UNCHANGED <<balance, ledger, pc, seen, held, environment>>

EndPending ==
    /\ pc = "filling" /\ rows = {}
    /\ pc' = "brackets"
    /\ balance' = Recalculated(positions, account)
    /\ UNCHANGED <<account, positions, intents, fills, ledger, seen, rows, held,
                   environment, history>>

\* enforce_paper_brackets: SELECT ... FROM paper_positions.
BeginBrackets ==
    /\ pc = "brackets"
    /\ pc' = "enforcing" /\ held' = {s \in Symbols : IsHeld(s)}
    /\ UNCHANGED <<store, seen, rows, environment, history>>

\* The ticket whose bracket this visit applies; none without a price.
Visits(s) == pc = "enforcing" /\ s \in held
Bracketed(s) == seen[s] # NoPrice /\ Governing(s) # 0
BracketOf(s) == intents[Governing(s)].ticket
BestNow(s) ==
    IF BracketOf(s).trail = 0 THEN positions[s].best ELSE Ratchet(positions[s], seen[s])
ExitNow(s) == BracketExit(BracketOf(s), positions[s].side, BestNow(s), seen[s])

LeaveOpen(s) ==
    /\ Visits(s)
    /\ Bracketed(s) => ExitNow(s) = NoExit
    /\ positions' = IF Bracketed(s) THEN [positions EXCEPT ![s].best = BestNow(s)] ELSE positions
    /\ held' = held \ {s}
    /\ UNCHANGED <<account, balance, intents, fills, ledger, pc, seen, rows,
                   environment, history>>

TakeExit(s) ==
    /\ Visits(s) /\ Bracketed(s) /\ ExitNow(s) # NoExit
    /\ ApplyFill(s, Opposite(positions[s].side), positions[s].qty, ExitNow(s).price)
    /\ ledger' = Append(ledger,
                        ClosureRow(s, positions[s].qty, ExitNow(s).price, ExitNow(s).kind))
    /\ held' = held \ {s}
    /\ origin' = [origin EXCEPT ![s] = {}]
    /\ UNCHANGED <<balance, intents, fills, pc, seen, rows, environment, offbook>>

EndBrackets ==
    /\ pc = "enforcing" /\ held = {}
    /\ pc' = "marks"
    /\ UNCHANGED <<store, seen, rows, held, environment, history>>

\* refresh_paper_position_marks.
Marked(s) ==
    IF IsHeld(s) /\ seen[s] # NoPrice
    THEN [positions[s] EXCEPT
            !.pnl = Pnl(positions[s].side, positions[s].qty, positions[s].avg, seen[s])]
    ELSE positions[s]

RefreshMarks ==
    /\ pc = "marks"
    /\ pc' = "idle" /\ seen' = NoPrices
    /\ positions' = [s \in Symbols |-> Marked(s)]
    /\ balance' = Recalculated(positions', account)
    /\ UNCHANGED <<account, intents, fills, ledger, rows, held, environment, history>>

-----------------------------------------------------------------------------
(* The world outside.                                                      *)

\* A market refresh stores a newer closed candle.
NewCandle(s, price) ==
    /\ pc \in Between
    /\ price # market[s]
    /\ market' = [market EXCEPT ![s] = price]
    /\ UNCHANGED <<store, job, day, restarts, history>>

NewDay ==
    /\ pc \in Between /\ day < LastDay
    /\ day' = day + 1
    /\ UNCHANGED <<store, job, market, restarts, history>>

\* The backend stops between two store calls and comes back.  Stopping inside
\* a call rolls its transaction back and so amounts to stopping before it.
Restart ==
    /\ pc \in Between \ {"idle"} /\ restarts < MaxRestarts
    /\ pc' = "idle" /\ seen' = NoPrices /\ restarts' = restarts + 1
    /\ UNCHANGED <<store, rows, held, market, day, history>>

-----------------------------------------------------------------------------
Handler ==
    \/ \E t \in Tickets : Submit(t)
    \/ \E t \in LiveTickets, filled \in BOOLEAN : RecordLive(t, filled)
    \/ \E i \in Intents : Cancel(i)
    \/ \E s \in Symbols : \E asked \in 1..positions[s].qty : ClosePosition(s, asked)
    \/ \E a \in PutAccounts : ReplaceAccount(a)

Cycle ==
    \/ StartCycle
    \/ BeginPending
    \/ \E i \in rows : ExpireRow(i) \/ SkipRow(i) \/ FillRow(i)
    \/ EndPending
    \/ BeginBrackets
    \/ \E s \in held : LeaveOpen(s) \/ TakeExit(s)
    \/ EndBrackets
    \/ RefreshMarks

World ==
    \/ \E s \in Symbols, price \in Prices : NewCandle(s, price)
    \/ NewDay
    \/ Restart

Next == Handler \/ Cycle \/ World

Spec == Init /\ [][Next]_vars

\* The scheduler runs the job every 30 seconds, one instance at a time, and
\* a started job runs on: weak fairness of the job's steps and of nothing else.
FairSpec == Spec /\ WF_vars(Cycle)

-----------------------------------------------------------------------------
(* Properties.                                                             *)

\* Every table, job variable and history variable has its type.
TypeOK ==
    /\ account \in [buyingPower: Nat, realizedPnl: Int]
    /\ positions \in [Symbols -> PositionRow]
    /\ \A s \in Symbols : IsHeld(s) => positions[s].side \in Sides
    /\ intents \in Seq(Intent)
    /\ fills \in Seq(Nat \ {0}) /\ Range(fills) \subseteq Intents
    /\ ledger \in Seq(Closure)
    /\ market \in [Symbols -> Prices \cup {NoPrice}] /\ day \in Nat /\ restarts \in Nat
    /\ pc \in Between \cup Inside
    /\ seen \in [Symbols -> Prices \cup {NoPrice}]
    /\ rows \subseteq Intents /\ held \subseteq Symbols
    /\ offbook \in [cash: Int, pnl: Int]
    /\ origin \in [Symbols -> SUBSET Intents]

\* Sums over the ledger and over the executed paper orders: what is not chosen
\* counts for nothing.
LedgerSum(value(_), chosen(_)) ==
    SumFunction([k \in DOMAIN ledger |-> IF chosen(ledger[k]) THEN value(ledger[k]) ELSE 0])
ClosurePnl(row) == Pnl(row.side, row.qty, row.entry, row.exit)
IsExecuted(row) == row.mode = "paper" /\ row.status = "executed"
ExecutedSum(value(_), chosen(_)) ==
    SumFunction([i \in Intents |->
        IF IsExecuted(intents[i]) /\ chosen(intents[i].ticket)
        THEN value(intents[i].ticket) ELSE 0])
Exposure(s) == SignedQty(positions[s])

\* Buying power and the notional tied up in positions never drift: they add
\* up to the starting cash, what the closure ledger says was won on longs and
\* lost on shorts, and what came in off the books (a clamp at zero, a netted
\* position, a PUT).
CashConserved ==
    account.buyingPower + SumFunction([s \in Symbols |-> positions[s].qty * positions[s].avg])
      = StartCash + offbook.cash
          + LedgerSum(LAMBDA row : SideSign(row.side) * ClosurePnl(row), LAMBDA row : TRUE)

\* Realized PnL is the sum of the closure ledger, up to what a netting fill or
\* a PUT booked outside it: the fill and the ledger row of one exit are
\* computed from two reads and agree.
RealizedMatchesLedger ==
    account.realizedPnl = offbook.pnl + LedgerSum(ClosurePnl, LAMBDA row : TRUE)

\* What is held is what executed orders bought and sold less what the ledger
\* closed: no fill is lost, doubled or booked on the wrong side, whatever the
\* interleaving of the job, the handlers and restarts.
PositionsExplained ==
    \A s \in Symbols :
        Exposure(s) = ExecutedSum(SignedQty, LAMBDA t : t.symbol = s)
                        - LedgerSum(SignedQty, LAMBDA row : row.symbol = s)

\* The ledger never closes more on a side than orders opened there.
NeverOverclosed ==
    \A s \in Symbols, side \in Sides :
        LedgerSum(LAMBDA row : row.qty, LAMBDA row : row.symbol = s /\ row.side = side)
          <= ExecutedSum(LAMBDA t : t.qty, LAMBDA t : t.symbol = s /\ t.side = side)

\* An executed order was executed within its time in force, and at a price its
\* limit or stop trigger allows, although it may have waited over many cycles
\* and days.
WithinTime(row) ==
    LET t == row.ticket
    IN  /\ t.tif = "day" => row.filledOn = row.submitted
        /\ t.tif = "gtd" /\ t.expires # NoDay => row.filledOn < t.expires
WithinPrice(row) ==
    LET t == row.ticket
        over == SideSign(t.side) * (row.price - t.limit)
    IN  /\ t.type = "limit" /\ t.limit # NoPrice => over <= 0
        /\ t.type = "stop" /\ t.limit # NoPrice => over >= 0
Honoured(row) ==
    IsExecuted(row) => WithinTime(row) /\ WithinPrice(row)
TermsHonoured == \A i \in Intents : Honoured(intents[i])

\* Once enforce_paper_brackets has visited a symbol, a position still open
\* there is strictly inside its governing bracket at the cycle's price: above
\* stop and trail and below target for a long, the mirror image for a short.
WithinBracket(s) ==
    LET t == BracketOf(s)
        sign == SideSign(positions[s].side)
        price == seen[s]
    IN  /\ t.stop # NoPrice => sign * (price - t.stop) > 0
        /\ t.target # NoPrice => sign * (t.target - price) > 0
        /\ t.trail # 0 => sign * (positions[s].best - price)
                            < (positions[s].best * t.trail) \div 100
BracketsEnforced ==
    pc = "enforcing" =>
        \A s \in Symbols \ held : IsHeld(s) /\ Bracketed(s) => WithinBracket(s)

\* The stop in force for a position that has one.
Protected(s) == IsHeld(s) /\ Governing(s) # 0 /\ HasStop(BracketOf(s))
BestSoFar(s) == IF positions[s].best = NoPrice THEN positions[s].avg ELSE positions[s].best
StopInForce(s) == EffectiveStop(BracketOf(s), positions[s].side, BestSoFar(s))

\* As long as a position stays open under the same governing ticket its stop
\* in force only tightens, through marks, partial closes, PUTs and restarts.
TrailNeverLoosens ==
    [][\A s \in Symbols :
         Protected(s) /\ IsHeld(s)' /\ Governing(s)' = Governing(s)
         => SideSign(positions[s].side) * (StopInForce(s)' - StopInForce(s)) >= 0]_vars

\* A stop-out under an untrailed ticket is booked at exactly one R: the stop the
\* bracket uses and the stop the ledger's R multiple is measured against come
\* from two different queries.
StopOutIsOneR ==
    [][\A s \in held :
         TakeExit(s) /\ ExitNow(s).kind = "stop" /\ BracketOf(s).trail = 0
         => ledger'[Len(ledger')].risk = ledger'[Len(ledger')].exit]_vars

\* The venue as its user sees it: the paper orders, their terms and the signed
\* quantities held.
TermsOf(t) == [symbol |-> t.symbol, amount |-> SignedQty(t)]
IsPaper(i) == i \in Intents /\ intents[i].mode = "paper"
OrderStatus == [i \in 1..MaxIntents |-> IF IsPaper(i) THEN intents[i].status ELSE "none"]
OrderTerms == [i \in 1..MaxIntents |-> IF IsPaper(i) THEN TermsOf(intents[i].ticket)
                                       ELSE [symbol |-> "none", amount |-> 0]]
Exposures == [s \in Symbols |-> Exposure(s)]

Promise == INSTANCE VenuePromise WITH
    Orders <- 1..MaxIntents, Terms <- {TermsOf(t) : t \in Tickets},
    status <- OrderStatus, terms <- OrderTerms, exposure <- Exposures

\* Every order settles at most once and for good, and exposure moves only by
\* fills of pending orders and by closes towards zero.
KeepsPromise == Promise!Spec

\* Liveness: an order that can fill at any price, or that is past its time in
\* force, does not stay pending.
OrdersSettle ==
    \A i \in 1..MaxIntents :
        (i \in Pending /\ (intents[i].ticket.type = "market"
                            \/ Expired(intents[i].ticket, intents[i].submitted, day)))
          ~> (i \notin Pending)

\* Liveness: a position whose plan stop is touched by the latest close does not
\* stay both open and touched.
Touched(s) ==
    /\ Protected(s) /\ market[s] # NoPrice
    /\ StopTouched(BracketOf(s), positions[s].side, BestSoFar(s), market[s])
StopsFire == \A s \in Symbols : Touched(s) ~> ~Touched(s)
=============================================================================

------------------------------ MODULE PaperRaces ------------------------------
(***************************************************************************)
(* One symbol of the paper venue at the grain of single SQL statements.    *)
(*                                                                         *)
(* Two threads share the database: the event loop, which runs one handler  *)
(* at a time, and the executor thread of the paper-execution job.  sqlite3 *)
(* opens a transaction at the first INSERT, UPDATE or DELETE of a          *)
(* connection and not before, so everything a store call reads before its  *)
(* first write is read outside it and may be stale when it is used.  From  *)
(* the first write to the commit the call holds the write lock, and its    *)
(* reads are its own.  A handler's reads while the job holds the lock see  *)
(* the database as it was before, which is the same as reading before.     *)
(*                                                                         *)
(* Time in force, marks and the balance column play no part and are left   *)
(* to PaperVenue; orders are good till cancelled.                          *)
(***************************************************************************)
EXTENDS PaperStore, FiniteSets, Functions, FiniteSetsExt, SequencesExt

CONSTANTS Prices, StartCash, MaxIntents

ASSUME RacesAssumption ==
    /\ Cardinality(Symbols) = 1
    /\ Prices \subseteq Nat \ {0} /\ StartCash \in Nat /\ MaxIntents \in Nat

VARIABLES
    account,   \* paper_account_state, committed
    position,  \* the row of paper_positions, committed
    intents,   \* paper_trade_intents: ticket, status, price
    fills,     \* ids in the order of execution
    ledger,    \* paper_trade_closures
    price,     \* latest close
    jpc, jseen, jrows, jread,  \* the job: control, price, rows selected, rows read
    lock,      \* the job's transaction is open
    hpc, hread,                \* the handler running, and what it has read
    torn,     \* history: some call wrote over rows it had not read
    offbook   \* history: what fills entered in the account without a ledger row

store == <<account, position, intents, fills, ledger, torn, offbook>>
job == <<jpc, jseen, jrows, jread, lock>>
handler == <<hpc, hread>>
vars == <<store, price, job, handler>>

Intents == DOMAIN intents

\* What a call holds in its local variables: the ticket submitted, the position
\* it decided on, the quantity and price of a close, and the account and the
\* position _apply_trade_fill has read.
NothingRead == [ticket |-> {}, decided |-> Flat, qty |-> 0, price |-> NoPrice,
                account |-> [buyingPower |-> 0, realizedPnl |-> 0], position |-> Flat]

\* The latest executed intent of the side; 0 if none.
Governing(side) ==
    LET found == {k \in DOMAIN fills : intents[fills[k]].ticket.side = side}
    IN  IF found = {} THEN 0 ELSE fills[Max(found)]

\* Mutant of Overwritten: the quantity is changed by a difference.
Shifted(read, side, qty, at) ==
    LET filled == FilledPosition(read.position, side, qty, at)
        inPlace == filled.qty > 0 /\ read.position.qty > 0 /\ filled.side = read.position.side
    IN  IF ~inPlace THEN filled
        ELSE [position EXCEPT !.qty = @ + filled.qty - read.position.qty, !.avg = filled.avg]

\* _apply_trade_fill from its first write on: the account row is computed from
\* what was read; an UPDATE of the position changes the row there is, if any, and
\* its average price only when it adds to it.
Overwritten(read, side, qty, at) ==
    LET filled == FilledPosition(read.position, side, qty, at)
        inPlace == filled.qty > 0 /\ read.position.qty > 0 /\ filled.side = read.position.side
    IN  IF ~inPlace THEN filled
        ELSE IF position.qty = 0 THEN Flat
        ELSE [position EXCEPT !.qty = filled.qty,
                              !.avg = IF side = read.position.side THEN filled.avg ELSE @]

\* INSERT of a position where another call has inserted one meanwhile.
Conflicts(read) == read.position.qty = 0 /\ position.qty > 0

\* What the call goes by is no longer what the table holds.
Stale(decided, read) ==
    \/ read.account # account
    \/ [position EXCEPT !.best = NoPrice] # [read.position EXCEPT !.best = NoPrice]
    \/ [position EXCEPT !.best = NoPrice] # [decided EXCEPT !.best = NoPrice]

ApplyFill(decided, read, side, qty, at) ==
    /\ ~Conflicts(read)
    /\ torn' = (torn \/ Stale(decided, read))
    /\ position' = Overwritten(read, side, qty, at)
    /\ account' =
         [buyingPower |-> FilledBuyingPower(read.account.buyingPower, read.position, side, qty, at),
          realizedPnl |-> FilledRealized(read.account.realizedPnl, read.position, side, qty, at)]

\* What a fill of an order nets against a position of the other side, and what
\* the clamp of the buying power at zero forgives, come without a ledger row.
NotedOffBook(read, side, qty, at) ==
    LET pos == read.position
        closed == Closing(pos, side, qty)
        netted == Pnl(pos.side, closed, pos.avg, at)
        forgiven == AtLeastZero((Opening(pos, side, qty) - closed) * at - read.account.buyingPower)
    IN  offbook' = [cash |-> offbook.cash + SideSign(pos.side) * netted + forgiven,
                    pnl |-> offbook.pnl + netted]

\* Mutant of Closed: the row of a partial close takes the whole position.
ClosedAll(pos, qty, exit, kind) ==
    [side |-> pos.side, qty |-> pos.qty, entry |-> pos.avg, exit |-> exit, kind |-> kind]

Closed(pos, qty, exit, kind) ==
    [side |-> pos.side, qty |-> qty, entry |-> pos.avg, exit |-> exit, kind |-> kind]

-----------------------------------------------------------------------------
Init ==
    /\ account = [buyingPower |-> StartCash, realizedPnl |-> 0]
    /\ position = Flat /\ intents = <<>> /\ fills = <<>> /\ ledger = <<>>
    /\ torn = FALSE /\ offbook = [cash |-> 0, pnl |-> 0]
    /\ price = NoPrice
    /\ jpc = "idle" /\ jseen = NoPrice /\ jrows = {} /\ jread = NothingRead /\ lock = FALSE
    /\ hpc = "idle" /\ hread = NothingRead

-----------------------------------------------------------------------------
(* The job: process_pending_paper_trades.                                  *)

JobPrices ==
    /\ jpc = "idle"
    /\ jpc' = "select" /\ jseen' = price
    /\ UNCHANGED <<store, price, jrows, jread, lock, handler>>

\* Mutant of JobSelect: no WHERE status = 'pending'.
JobSelectAll ==
    /\ jpc = "select"
    /\ jpc' = "rows" /\ jrows' = Intents
    /\ UNCHANGED <<store, price, jseen, jread, lock, handler>>

JobSelect ==
    /\ jpc = "select"
    /\ jpc' = "rows" /\ jrows' = {i \in Intents : intents[i].status = "pending"}
    /\ UNCHANGED <<store, price, jseen, jread, lock, handler>>

Row == Min(jrows)
RowPrice == Latest(intents[Row].ticket, jseen)

RowSkip ==
    /\ jpc = "rows" /\ jrows # {}
    /\ ~Triggered(intents[Row].ticket, RowPrice)
    /\ jrows' = jrows \ {Row}
    /\ UNCHANGED <<store, price, jpc, jseen, jread, lock, handler>>

RowReadAccount ==
    /\ jpc = "rows" /\ jrows # {}
    /\ Triggered(intents[Row].ticket, RowPrice)
    /\ jpc' = "position" /\ jread' = [NothingRead EXCEPT !.account = account]
    /\ UNCHANGED <<store, price, jseen, jrows, lock, handler>>

RowReadPosition ==
    /\ jpc = "position"
    /\ jpc' = "write" /\ jread' = [jread EXCEPT !.position = position]
    /\ UNCHANGED <<store, price, jseen, jrows, lock, handler>>

\* The fill and UPDATE ... SET status = 'executed' WHERE id = ?: the row is
\* overwritten whatever its status has become.
RowWrite ==
    LET t == intents[Row].ticket
        at == ExecutedPrice(t, RowPrice)
    IN  /\ jpc = "write"
        /\ ApplyFill(jread.position, jread, t.side, t.qty, at)
        /\ NotedOffBook(jread, t.side, t.qty, at)
        /\ intents' = [intents EXCEPT ![Row].status = "executed", ![Row].price = at]
        /\ fills' = Append(fills, Row)
        /\ jrows' = jrows \ {Row} /\ jpc' = "rows" /\ lock' = TRUE /\ jread' = NothingRead
        /\ UNCHANGED <<ledger, price, jseen, handler>>

\* An IntegrityError rolls back and ends this run of the job.
RowConflict ==
    /\ jpc = "write" /\ Conflicts(jread)
    /\ jpc' = "idle" /\ jrows' = {} /\ jread' = NothingRead /\ jseen' = NoPrice
    /\ UNCHANGED <<store, price, lock, handler>>

RowsCommit ==
    /\ jpc = "rows" /\ jrows = {}
    /\ jpc' = "brackets" /\ lock' = FALSE
    /\ UNCHANGED <<store, price, jseen, jrows, jread, handler>>

-----------------------------------------------------------------------------
(* The job: enforce_paper_brackets.                                        *)

JobEnds == jpc' = "idle" /\ jread' = NothingRead /\ jseen' = NoPrice /\ lock' = FALSE

BracketSelect ==
    /\ jpc = "brackets"
    /\ IF position.qty = 0 \/ jseen = NoPrice
       THEN JobEnds
       ELSE /\ jpc' = "governing" /\ jread' = [NothingRead EXCEPT !.decided = position]
            /\ UNCHANGED <<jseen, lock>>
    /\ UNCHANGED <<store, price, jrows, handler>>

Held == jread.decided
Ticketed == intents[Governing(Held.side)].ticket
Best == Ratchet(Held, jseen)
Exit == BracketExit(Ticketed, Held.side, Best, jseen)

\* SELECT plan_stop, ...; with a trail, UPDATE best_price opens the
\* transaction and what follows reads fresh rows.
BracketDecide ==
    /\ jpc = "governing"
    /\ position' = IF Governing(Held.side) # 0 /\ Ticketed.trail # 0 /\ position.qty > 0
                   THEN [position EXCEPT !.best = Best] ELSE position
    /\ IF Governing(Held.side) = 0 \/ Exit = NoExit
       THEN JobEnds
       ELSE /\ jpc' = "exitAccount" /\ lock' = (Ticketed.trail # 0)
            /\ UNCHANGED <<jread, jseen>>
    /\ UNCHANGED <<account, intents, fills, ledger, torn, offbook, price, jrows, handler>>

ExitReadAccount ==
    /\ jpc = "exitAccount"
    /\ jpc' = "exitPosition" /\ jread' = [jread EXCEPT !.account = account]
    /\ UNCHANGED <<store, price, jseen, jrows, lock, handler>>

ExitReadPosition ==
    /\ jpc = "exitPosition"
    /\ jpc' = "exitWrite" /\ jread' = [jread EXCEPT !.position = position]
    /\ UNCHANGED <<store, price, jseen, jrows, lock, handler>>

\* Nothing opens a position while the job enforces brackets, so the INSERT
\* branch cannot conflict here.
ExitWrite ==
    /\ jpc = "exitWrite"
    /\ ApplyFill(Held, jread, Opposite(Held.side), Held.qty, Exit.price)
    /\ ledger' = Append(ledger, Closed(Held, Held.qty, Exit.price, Exit.kind))
    /\ JobEnds
    /\ UNCHANGED <<intents, fills, offbook, price, jrows, handler>>

-----------------------------------------------------------------------------
(* Handlers, one at a time on the event loop.                              *)

HandlerEnds == hpc' = "idle" /\ hread' = NothingRead

\* submit_paper_trade: SELECT buying_power; SELECT side FROM paper_positions;
\* INSERT.  A refused order ends the handler.
SubmitReadAccount(t) ==
    /\ hpc = "idle" /\ ~lock /\ Len(intents) < MaxIntents
    /\ t.qty * ReferencePrice(t) <= account.buyingPower
    /\ hpc' = "guard" /\ hread' = [NothingRead EXCEPT !.ticket = {t}]
    /\ UNCHANGED <<store, price, job>>

SubmitReadPosition(t) ==
    /\ hpc = "guard" /\ t \in hread.ticket /\ ~lock
    /\ IF position.qty > 0 /\ position.side # t.side
       THEN HandlerEnds
       ELSE hpc' = "insert" /\ UNCHANGED hread
    /\ UNCHANGED <<store, price, job>>

SubmitInsert(t) ==
    /\ hpc = "insert" /\ t \in hread.ticket /\ ~lock
    /\ intents' = Append(intents, [ticket |-> t, status |-> "pending", price |-> NoPrice])
    /\ HandlerEnds
    /\ UNCHANGED <<account, position, fills, ledger, torn, offbook, price, job>>

\* cancel_paper_intent is one guarded UPDATE.
Cancel(i) ==
    /\ hpc = "idle" /\ ~lock
    /\ intents[i].status = "pending"
    /\ intents' = [intents EXCEPT ![i].status = "cancelled"]
    /\ UNCHANGED <<account, position, fills, ledger, torn, offbook, price, job, handler>>

\* close_position: price; SELECT the position; then, in _apply_trade_fill,
\* SELECT the account, SELECT the position again; then the writes.
CloseSelect(asked) ==
    /\ hpc = "idle" /\ ~lock
    /\ price # NoPrice /\ position.qty > 0
    /\ hpc' = "account"
    /\ hread' = [NothingRead EXCEPT !.decided = position, !.price = price, !.qty = asked]
    /\ UNCHANGED <<store, price, job>>

CloseReadAccount ==
    /\ hpc = "account" /\ ~lock
    /\ hpc' = "position" /\ hread' = [hread EXCEPT !.account = account]
    /\ UNCHANGED <<store, price, job>>

CloseReadPosition ==
    /\ hpc = "position" /\ ~lock
    /\ hpc' = "write" /\ hread' = [hread EXCEPT !.position = position]
    /\ UNCHANGED <<store, price, job>>

CloseWrite ==
    /\ hpc = "write" /\ ~lock
    /\ ApplyFill(hread.decided, hread, Opposite(hread.decided.side), hread.qty, hread.price)
    /\ ledger' = Append(ledger, Closed(hread.decided, hread.qty, hread.price, "manual"))
    /\ HandlerEnds
    /\ UNCHANGED <<intents, fills, offbook, price, job>>

CloseConflict ==
    /\ hpc = "write" /\ ~lock /\ Conflicts(hread)
    /\ HandlerEnds
    /\ UNCHANGED <<store, price, job>>

\* The write lock is held past busy_timeout: OperationalError, nothing written.
HandlerTimeout ==
    /\ hpc \in {"insert", "write"} /\ lock
    /\ HandlerEnds
    /\ UNCHANGED <<store, price, job>>

NewCandle(p) ==
    /\ p # price
    /\ price' = p
    /\ UNCHANGED <<store, job, handler>>

Next ==
    \/ JobPrices \/ JobSelect
    \/ RowSkip \/ RowReadAccount \/ RowReadPosition \/ RowWrite \/ RowConflict \/ RowsCommit
    \/ BracketSelect \/ BracketDecide
    \/ ExitReadAccount \/ ExitReadPosition \/ ExitWrite
    \/ \E t \in Tickets : SubmitReadAccount(t) \/ SubmitReadPosition(t) \/ SubmitInsert(t)
    \/ \E i \in Intents : Cancel(i)
    \/ \E asked \in 1..position.qty : CloseSelect(asked)
    \/ CloseReadAccount \/ CloseReadPosition \/ CloseWrite \/ CloseConflict
    \/ HandlerTimeout
    \/ \E p \in Prices : NewCandle(p)

Spec == Init /\ [][Next]_vars
-----------------------------------------------------------------------------
(* Properties.                                                             *)

ClosurePnl(row) == Pnl(row.side, row.qty, row.entry, row.exit)
LedgerSum(value(_)) == SumFunction([k \in DOMAIN ledger |-> value(ledger[k])])

Order == [ticket: Ticket, status: {"pending", "executed", "cancelled"}, price: Nat]
Closure == [side: Sides, qty: Nat \ {0}, entry: Int, exit: Int,
            kind: {"stop", "target", "manual"}]
Accounts == [buyingPower: Nat, realizedPnl: Int]
Read == [ticket: SUBSET Tickets, decided: PositionRow, qty: Nat, price: Nat,
         account: Accounts, position: PositionRow]

\* Types of the shared tables, of the control of both threads and of what each
\* of them has read.
TypeOK ==
    /\ account \in Accounts /\ position \in PositionRow
    /\ intents \in Seq(Order)
    /\ fills \in Seq(Nat \ {0}) /\ Range(fills) \subseteq Intents
    /\ ledger \in Seq(Closure)
    /\ lock \in BOOLEAN /\ torn \in BOOLEAN /\ offbook \in [cash: Int, pnl: Int]
    /\ price \in Prices \cup {NoPrice} /\ jseen \in Prices \cup {NoPrice}
    /\ jrows \subseteq Intents /\ jread \in Read /\ hread \in Read
    /\ jpc \in {"idle", "select", "rows", "position", "write", "brackets", "governing",
                "exitAccount", "exitPosition", "exitWrite"}
    /\ hpc \in {"idle", "guard", "insert", "account", "position", "write"}

\* Whatever a handler does between the job's SELECT and its writes, and however
\* often a run of the job is rolled back, no order is filled twice.
FilledOnce == \A j, k \in DOMAIN fills : fills[j] = fills[k] => j = k

\* As long as no call has written over rows it had not read, realized PnL is the
\* sum of the closure ledger and of what netting booked outside it: overwriting a
\* manual close or a bracket exit is the only way the two can come apart, and
\* submitting or cancelling in the middle of the job is harmless.
LedgerBalances == ~torn => account.realizedPnl = offbook.pnl + LedgerSum(ClosurePnl)

\* In the same states cash and notional add up to the start, the closed results
\* (long results won, short results lost) and what came in off the books.
CashBalances ==
    ~torn => account.buyingPower + position.qty * position.avg
               = StartCash + offbook.cash
                   + LedgerSum(LAMBDA row : SideSign(row.side) * ClosurePnl(row))

\* "Cancel a pending order. Filled or already-cancelled orders refuse.": once
\* cancelled an order stays cancelled.
CancelledStaysCancelled ==
    [][\A i \in Intents : intents[i].status = "cancelled" => intents'[i].status = "cancelled"]_vars

\* However stale the rows a call works from, it never holds more than the
\* orders executed so far asked for, on either side.
Bought == SumFunction([k \in DOMAIN fills |-> intents[fills[k]].ticket.qty])
ExposureBounded == position.qty <= Bought
=============================================================================

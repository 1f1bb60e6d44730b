---------------------------- MODULE PaperVenueProofs ----------------------------
(***************************************************************************)
(* Theorems about the paper venue, for every set of instruments, tickets,  *)
(* prices and every bound: its types and work lists, and then that orders  *)
(* execute on their terms, brackets are enforced and a stop-out is one R,  *)
(* and that the venue implements VenuePromise.                             *)
(***************************************************************************)
EXTENDS PaperVenue, PaperStoreProofs, SequenceTheorems

-----------------------------------------------------------------------------
(* What the actions are built from.                                        *)

\* Both "latest fill" queries return an intent or nothing.
LEMMA LatestFillTypes ==
    ASSUME TypeOK, NEW s \in Symbols, NEW side \in Sides
    PROVE  /\ LatestFill(s, side, AnyTicket) \in Intents \cup {0}
           /\ LatestFill(s, side, Planned) \in Intents \cup {0}
<1>1. ASSUME NEW S, S \subseteq DOMAIN fills, S # {}
      PROVE  fills[Max(S)] \in Intents
  <2>1. DOMAIN fills = 1..Len(fills) /\ Len(fills) \in Nat
    BY DEF TypeOK
  <2>2. Max(S) \in DOMAIN fills
    BY <1>1, <2>1, GreatestIndex
  <2> QED
    BY <2>2 DEF TypeOK, Range
<1> DEFINE any == {k \in DOMAIN fills : LET t == intents[fills[k]].ticket
                                        IN  t.symbol = s /\ t.side = side /\ AnyTicket(t)}
           planned == {k \in DOMAIN fills : LET t == intents[fills[k]].ticket
                                            IN  t.symbol = s /\ t.side = side /\ Planned(t)}
<1>2. LatestFill(s, side, AnyTicket) = IF any = {} THEN 0 ELSE fills[Max(any)]
  BY DEF LatestFill
<1>3. LatestFill(s, side, Planned) = IF planned = {} THEN 0 ELSE fills[Max(planned)]
  BY DEF LatestFill
<1>4. any \subseteq DOMAIN fills /\ planned \subseteq DOMAIN fills
  OBVIOUS
<1> HIDE DEF any, planned
<1> QED
  BY <1>1, <1>2, <1>3, <1>4

\* An id of the table has a well-typed row.
LEMMA IntentFacts ==
    ASSUME TypeOK, NEW i \in Intents
    PROVE  /\ intents[i] \in Intent /\ intents[i].ticket \in Ticket
           /\ intents[i].ticket.symbol \in Symbols /\ intents[i].ticket.side \in Sides
           /\ intents[i].ticket.qty \in Nat \ {0}
           /\ i \in 1..Len(intents) /\ Len(intents) \in Nat
<1>1. intents[i] \in Intent /\ i \in 1..Len(intents) /\ Len(intents) \in Nat
  BY DEF TypeOK, Intents
<1> QED
  BY <1>1 DEF Intent, Ticket

\* A row of the closure ledger is well typed.
LEMMA ClosureRowType ==
    ASSUME TypeOK, NEW s \in Symbols, IsHeld(s), NEW qty \in Nat \ {0}, NEW exit \in Int,
           NEW kind \in {"stop", "target", "manual"}
    PROVE  ClosureRow(s, qty, exit, kind) \in Closure
<1>1. positions[s] \in PositionRow /\ positions[s].side \in Sides
  BY DEF TypeOK
<1> DEFINE planned == LatestFill(s, positions[s].side, Planned)
<1>2. planned \in Intents \cup {0}
  BY <1>1, LatestFillTypes
<1> HIDE DEF planned
<1>3. ASSUME planned # 0 PROVE intents[planned].ticket.stop \in Int
  BY <1>2, <1>3, IntentFacts DEF Ticket
<1>4. (IF planned = 0 THEN NoPrice ELSE intents[planned].ticket.stop) \in Int
  BY <1>3 DEF NoPrice
<1> QED
  BY <1>1, <1>4 DEF ClosureRow, Closure, PositionRow, planned

\* A fill keeps the account and the positions well typed.
LEMMA ApplyFillType ==
    ASSUME TypeOK, NEW s \in Symbols, NEW side \in Sides, NEW qty \in Nat \ {0},
           NEW price \in Int, ApplyFill(s, side, qty, price)
    PROVE  /\ account' \in [buyingPower: Nat, realizedPnl: Int]
           /\ positions' \in [Symbols -> PositionRow]
           /\ \A x \in Symbols : IsHeld(x)' => positions'[x].side \in Sides
<1>1. positions[s] \in PositionRow /\ (positions[s].qty > 0 => positions[s].side \in Sides)
  BY DEF TypeOK, IsHeld
<1>2. account.buyingPower \in Nat /\ account.realizedPnl \in Int
  BY DEF TypeOK
<1> DEFINE filled == FilledPosition(positions[s], side, qty, price)
<1>3. filled \in PositionRow /\ (filled.qty > 0 => filled.side \in Sides)
  BY <1>1, FilledPositionType
<1>4. positions' = [positions EXCEPT ![s] = filled]
  BY DEF ApplyFill
<1> HIDE DEF filled
<1>5. account' \in [buyingPower: Nat, realizedPnl: Int]
  BY <1>1, <1>2, FilledAccountType DEF ApplyFill
<1> QED
  BY <1>3, <1>4, <1>5 DEF TypeOK, IsHeld

-----------------------------------------------------------------------------
(* Type correctness.                                                       *)

\* The parts of TypeOK, by who changes them.
AccountType == account \in [buyingPower: Nat, realizedPnl: Int]
PositionsType ==
    /\ positions \in [Symbols -> PositionRow]
    /\ \A s \in Symbols : IsHeld(s) => positions[s].side \in Sides
IntentsType ==
    /\ intents \in Seq(Intent)
    /\ fills \in Seq(Nat \ {0}) /\ Range(fills) \subseteq Intents
    /\ rows \subseteq Intents
    /\ origin \in [Symbols -> SUBSET Intents]
LedgerType == ledger \in Seq(Closure)
WorldType ==
    /\ market \in [Symbols -> Prices \cup {NoPrice}] /\ day \in Nat /\ restarts \in Nat
    /\ pc \in Between \cup Inside
    /\ seen \in [Symbols -> Prices \cup {NoPrice}]
    /\ held \subseteq Symbols
    /\ offbook \in [cash: Int, pnl: Int]

\* TypeOK is the conjunction of its parts, in a state
LEMMA TypeParts ==
    TypeOK <=> AccountType /\ PositionsType /\ IntentsType /\ LedgerType /\ WorldType
BY DEF TypeOK, AccountType, PositionsType, IntentsType, LedgerType, WorldType

\* and in the state after a step.
LEMMA TypePartsNext ==
    AccountType' /\ PositionsType' /\ IntentsType' /\ LedgerType' /\ WorldType' => TypeOK'
BY DEF TypeOK, AccountType, PositionsType, IntentsType, LedgerType, WorldType

\* What a step has to leave alone for a part to stay well typed.
LEMMA TypeFrame ==
    /\ AccountType /\ UNCHANGED account => AccountType'
    /\ PositionsType /\ UNCHANGED positions => PositionsType'
    /\ IntentsType /\ UNCHANGED <<intents, fills, rows, origin>> => IntentsType'
    /\ LedgerType /\ UNCHANGED ledger => LedgerType'
    /\ WorldType /\ UNCHANGED <<market, day, restarts, pc, seen, held, offbook>> => WorldType'
BY DEF AccountType, PositionsType, IntentsType, LedgerType, WorldType, IsHeld, Intents

\* What the market and the price_map may hold, the missing price included, is a
\* number.
LEMMA PricesAreNumbers == Prices \cup {NoPrice} \subseteq Nat
BY VenueAssumption DEF NoPrice

\* Appending a row to paper_trade_intents, and rewriting one, keep the table and
\* everything that points into it well typed.
LEMMA AppendIntent ==
    ASSUME IntentsType, NEW row \in Intent, intents' = Append(intents, row),
           UNCHANGED <<fills, rows, origin>>
    PROVE  IntentsType'
<1>1. intents' \in Seq(Intent) /\ Intents \subseteq Intents'
  BY AppendProperties DEF IntentsType, Intents
<1> QED
  BY <1>1 DEF IntentsType

\* An UPDATE of one row: same ids, same number of rows, still well typed.
LEMMA RewriteIntent ==
    ASSUME IntentsType, NEW i \in Intents, NEW row \in Intent,
           intents' = [intents EXCEPT ![i] = row]
    PROVE  intents' \in Seq(Intent) /\ Intents' = Intents /\ Len(intents') = Len(intents)
BY ExceptSeq DEF IntentsType, Intents

\* The freshly initialised store is well typed.
LEMMA TypeInit == Init => TypeOK
<1> SUFFICES ASSUME Init PROVE TypeOK
  OBVIOUS
<1> USE VenueAssumption DEF Init
<1>1. AccountType /\ WorldType
  BY DEF AccountType, WorldType, Between, NoPrices
<1>2. PositionsType
  BY DEF PositionsType, PositionRow, Flat, IsHeld, NoPrice
<1>3. IntentsType /\ LedgerType
  BY DEF IntentsType, LedgerType, Intents, Range
<1> QED
  BY <1>1, <1>2, <1>3, TypeParts

\* Every handler keeps the store well typed.
LEMMA TypeHandler == TypeOK /\ Handler => TypeOK'
<1> SUFFICES ASSUME TypeOK, Handler PROVE TypeOK'
  OBVIOUS
<1>0. AccountType /\ PositionsType /\ IntentsType /\ LedgerType /\ WorldType
  BY TypeParts
<1>1. ASSUME NEW t \in Tickets, Submit(t) PROVE TypeOK'
  <2>1. Unfilled(t, "paper", "pending") \in Intent
    BY <1>0, TicketsAssumption DEF Unfilled, Intent, WorldType, NoPrice, NoDay
  <2>2. IntentsType'
    BY <1>0, <1>1, <2>1, AppendIntent DEF Submit, job, history
  <2> QED
    BY <1>0, <1>1, <2>2, TypeFrame, TypePartsNext DEF Submit, job, environment, history
<1>2. ASSUME NEW t \in LiveTickets, NEW filled \in BOOLEAN, RecordLive(t, filled)
      PROVE  TypeOK'
  <2>1. /\ Unfilled(t, "live", "submitted") \in Intent
        /\ Executed(Unfilled(t, "live", "submitted"), t.entry) \in Intent
    <3>1. t \in Ticket /\ t.entry \in Nat
      BY VenueAssumption DEF Ticket
    <3> QED
      BY <1>0, <3>1 DEF Unfilled, Executed, Intent, WorldType, NoPrice, NoDay
  <2>2. PICK row \in Intent : intents' = Append(intents, row)
    BY <1>2, <2>1 DEF RecordLive
  <2>3. /\ intents' \in Seq(Intent) /\ Intents \subseteq Intents'
        /\ Len(intents) + 1 \in Intents' /\ Len(intents) + 1 \in Nat \ {0}
    BY <1>0, <2>2, AppendProperties DEF IntentsType, Intents
  <2>4. fills' \in Seq(Nat \ {0}) /\ Range(fills') \subseteq Intents'
    <3>1. CASE filled
      <4>1. fills' = Append(fills, Len(intents) + 1)
        BY <1>2, <3>1 DEF RecordLive
      <4> QED
        BY <1>0, <2>3, <4>1, AppendProperties DEF IntentsType, Range
    <3>2. CASE ~filled
      BY <1>0, <1>2, <2>3, <3>2 DEF RecordLive, IntentsType
    <3> QED
      BY <3>1, <3>2
  <2>5. IntentsType'
    BY <1>0, <1>2, <2>3, <2>4 DEF RecordLive, IntentsType, job, history
  <2> QED
    BY <1>0, <1>2, <2>5, TypeFrame, TypePartsNext DEF RecordLive, job, environment, history
<1>3. ASSUME NEW i \in Intents, Cancel(i) PROVE TypeOK'
  <2>1. [intents[i] EXCEPT !.status = "cancelled"] \in Intent
    BY IntentFacts DEF Intent
  <2>2. intents' = [intents EXCEPT ![i] = [intents[i] EXCEPT !.status = "cancelled"]]
    BY <1>3 DEF Cancel
  <2>3. IntentsType'
    BY <1>0, <1>3, <2>1, <2>2, RewriteIntent DEF Cancel, IntentsType, job, history
  <2> QED
    BY <1>0, <1>3, <2>3, TypeFrame, TypePartsNext DEF Cancel, job, environment, history
<1>4. ASSUME NEW s \in Symbols, NEW asked \in 1..positions[s].qty, ClosePosition(s, asked)
      PROVE  TypeOK'
  <2> DEFINE qty == IF asked < positions[s].qty THEN asked ELSE positions[s].qty
  <2>1. positions[s] \in PositionRow /\ IsHeld(s) /\ positions[s].side \in Sides
    BY <1>0, <1>4 DEF ClosePosition, PositionsType
  <2>2. qty \in Nat \ {0} /\ Opposite(positions[s].side) \in Sides
    BY <2>1, SideFacts DEF PositionRow
  <2>3. market[s] \in Int
    BY <1>0, PricesAreNumbers DEF WorldType
  <2>4. /\ ApplyFill(s, Opposite(positions[s].side), qty, market[s])
        /\ ledger' = Append(ledger, ClosureRow(s, qty, market[s], "manual"))
    BY <1>4 DEF ClosePosition
  <2> HIDE DEF qty
  <2>5. AccountType' /\ PositionsType'
    BY <2>2, <2>3, <2>4, ApplyFillType DEF AccountType, PositionsType
  <2>6. LedgerType'
    BY <1>0, <2>1, <2>2, <2>3, <2>4, ClosureRowType, AppendProperties DEF LedgerType
  <2>7. IntentsType'
    BY <1>0, <1>4 DEF ClosePosition, IntentsType, Intents, job
  <2>8. WorldType'
    BY <1>0, <1>4, TypeFrame DEF ClosePosition, job, environment
  <2> QED
    BY <2>5, <2>6, <2>7, <2>8, TypePartsNext
<1>5. ASSUME NEW a \in PutAccounts, ReplaceAccount(a) PROVE TypeOK'
  <2>1. a.buyingPower \in Nat /\ a.realizedPnl \in Int
    BY VenueAssumption
  <2>2. AccountType' /\ WorldType'
    BY <1>0, <1>5, <2>1 DEF ReplaceAccount, AccountType, WorldType, job, environment
  <2> QED
    BY <1>0, <1>5, <2>2, TypeFrame, TypePartsNext DEF ReplaceAccount, job, environment
<1> QED
  BY <1>1, <1>2, <1>3, <1>4, <1>5 DEF Handler

\* The price a pending order meets is a number.
LEMMA RowPriceType ==
    ASSUME TypeOK, NEW i \in Intents
    PROVE  LET t == intents[i].ticket
           IN  ExecutedPrice(t, Latest(t, seen[t.symbol])) \in Nat
<1>1. intents[i].ticket \in Ticket /\ intents[i].ticket.symbol \in Symbols
  BY IntentFacts
<1>2. seen[intents[i].ticket.symbol] \in Nat
  BY <1>1, PricesAreNumbers DEF TypeOK
<1> QED
  BY <1>1, <1>2, ExecutedPriceType

\* The exit of a bracket visit is a number, and so is the new best close.
LEMMA VisitTypes ==
    ASSUME TypeOK, NEW s \in Symbols, IsHeld(s), Bracketed(s)
    PROVE  /\ Governing(s) \in Intents /\ BracketOf(s) \in Ticket
           /\ BestNow(s) \in Int
           /\ ExitNow(s) # NoExit =>
                 ExitNow(s).kind \in {"stop", "target"} /\ ExitNow(s).price \in Int
<1>1. positions[s] \in PositionRow /\ positions[s].side \in Sides /\ positions[s].best \in Int
  BY DEF TypeOK, PositionRow
<1>2. seen[s] \in Int
  BY PricesAreNumbers DEF TypeOK
<1>3. Governing(s) \in Intents
  BY <1>1, LatestFillTypes DEF Governing, Bracketed
<1>4. BracketOf(s) \in Ticket
  BY <1>3, IntentFacts DEF BracketOf
<1>5. BestNow(s) \in Int
  BY <1>1, <1>2, RatchetType DEF BestNow
<1> QED
  BY <1>1, <1>2, <1>3, <1>4, <1>5, BracketExitType DEF ExitNow

\* Filling an order keeps the store well typed.
LEMMA TypeFillRow == ASSUME TypeOK, NEW i \in rows, FillRow(i) PROVE TypeOK'
<1> DEFINE t == intents[i].ticket
           price == ExecutedPrice(t, Latest(t, seen[t.symbol]))
           closed == Closing(positions[t.symbol], t.side, t.qty)
           opened == Opening(positions[t.symbol], t.side, t.qty)
           netted == Pnl(positions[t.symbol].side, closed, positions[t.symbol].avg, price)
<1>1. AccountType /\ PositionsType /\ IntentsType /\ LedgerType /\ WorldType
  BY TypeParts
<1>2. /\ i \in Intents /\ intents[i] \in Intent
      /\ t.symbol \in Symbols /\ t.side \in Sides /\ t.qty \in Nat \ {0}
  BY <1>1, IntentFacts DEF IntentsType
<1>3. price \in Nat
  BY <1>2, RowPriceType
<1>4. positions[t.symbol] \in PositionRow
  BY <1>1, <1>2 DEF PositionsType
<1>5. ApplyFill(t.symbol, t.side, t.qty, price)
  BY DEF FillRow
<1>6. AccountType' /\ PositionsType'
  BY <1>2, <1>3, <1>5, ApplyFillType DEF AccountType, PositionsType
<1>7. IntentsType'
  <2>1. Executed(intents[i], price) \in Intent
    BY <1>1, <1>2, <1>3 DEF Executed, Intent, WorldType
  <2>2. intents' = [intents EXCEPT ![i] = Executed(intents[i], price)]
    BY DEF FillRow
  <2>3. intents' \in Seq(Intent) /\ Intents' = Intents
    BY <1>1, <1>2, <2>1, <2>2, RewriteIntent
  <2>4. fills' \in Seq(Nat \ {0}) /\ Range(fills') \subseteq Intents
    <3>1. i \in Nat \ {0}
      BY <1>2, IntentFacts
    <3>2. fills' = Append(fills, i)
      BY DEF FillRow
    <3> QED
      BY <1>1, <1>2, <3>1, <3>2, AppendProperties DEF IntentsType, Range
  <2>5. rows' \subseteq Intents
    BY <1>1 DEF FillRow, IntentsType
  <2>6. origin' \in [Symbols -> SUBSET Intents]
    BY <1>1, <1>2 DEF FillRow, IntentsType
  <2> QED
    BY <2>3, <2>4, <2>5, <2>6 DEF IntentsType
<1>8. LedgerType'
  BY <1>1 DEF FillRow, LedgerType
<1>9. offbook' \in [cash: Int, pnl: Int]
  <2>1. closed \in Nat /\ opened \in Nat /\ positions[t.symbol].avg \in Int
    BY <1>2, <1>4, ClosingOpening DEF PositionRow
  <2>2. offbook.cash \in Int /\ offbook.pnl \in Int /\ account.buyingPower \in Nat
    BY <1>1 DEF WorldType, AccountType
  <2>3. offbook' = [cash |-> offbook.cash + SideSign(positions[t.symbol].side) * netted
                                + Forgiven(t.symbol, t.side, t.qty, price),
                    pnl |-> offbook.pnl + netted]
    BY DEF FillRow
  <2> HIDE DEF closed, opened
  <2>4. netted \in Int
    BY <1>3, <2>1 DEF Pnl, SideSign
  <2>5. Forgiven(t.symbol, t.side, t.qty, price) \in Int
    <3>1. (opened - closed) * price \in Int
      BY <1>3, <2>1
    <3> QED
      BY <2>2, <3>1 DEF Forgiven, AtLeastZero, opened, closed
  <2> HIDE DEF netted
  <2>6. SideSign(positions[t.symbol].side) * netted \in Int
    BY <2>4 DEF SideSign
  <2> QED
    BY <2>2, <2>3, <2>4, <2>5, <2>6
<1>10. WorldType'
  BY <1>1, <1>9 DEF FillRow, WorldType, environment
<1> QED
  BY <1>6, <1>7, <1>8, <1>10, TypePartsNext

\* A bracket exit keeps the store well typed: the symbol on the work list is held.
LEMMA TypeTakeExit == ASSUME TypeOK, NEW s \in held, IsHeld(s), TakeExit(s) PROVE TypeOK'
<1>1. AccountType /\ PositionsType /\ IntentsType /\ LedgerType /\ WorldType
  BY TypeParts
<1>2. s \in Symbols /\ Bracketed(s) /\ ExitNow(s) # NoExit
  BY <1>1 DEF TakeExit, WorldType
<1>3. /\ positions[s] \in PositionRow /\ positions[s].side \in Sides
      /\ positions[s].qty \in Nat \ {0}
  BY <1>1, <1>2 DEF PositionsType, PositionRow, IsHeld
<1>4. ExitNow(s).kind \in {"stop", "target"} /\ ExitNow(s).price \in Int
  BY <1>2, VisitTypes
<1>5. Opposite(positions[s].side) \in Sides
  BY <1>3, SideFacts
<1>6. AccountType' /\ PositionsType'
  BY <1>2, <1>3, <1>4, <1>5, ApplyFillType DEF TakeExit, AccountType, PositionsType
<1>7. LedgerType'
  <2>1. ClosureRow(s, positions[s].qty, ExitNow(s).price, ExitNow(s).kind) \in Closure
    BY <1>2, <1>3, <1>4, ClosureRowType
  <2> QED
    BY <1>1, <2>1, AppendProperties DEF TakeExit, LedgerType
<1>8. IntentsType'
  BY <1>1 DEF TakeExit, IntentsType, Intents
<1>9. WorldType'
  BY <1>1 DEF TakeExit, WorldType, environment
<1> QED
  BY <1>6, <1>7, <1>8, <1>9, TypePartsNext

\* What the call-grain invariant rests on: a work list holds rows that are pending
\* paper orders and symbols that are held, and none outlives its call.
WorkListsValid ==
    /\ Len(intents) <= MaxIntents
    /\ \A i \in Pending : intents[i].mode = "paper"
    /\ rows \subseteq Pending /\ (pc # "filling" => rows = {})
    /\ \A s \in held : IsHeld(s)
    /\ pc # "enforcing" => held = {}

\* Every step of the job keeps the store well typed.
LEMMA TypeCycle == TypeOK /\ WorkListsValid /\ Cycle => TypeOK'
<1> SUFFICES ASSUME TypeOK, WorkListsValid, Cycle PROVE TypeOK'
  OBVIOUS
<1>0. AccountType /\ PositionsType /\ IntentsType /\ LedgerType /\ WorldType
  BY TypeParts
<1>1. CASE StartCycle
  <2>1. WorldType'
    BY <1>0, <1>1 DEF StartCycle, WorldType, Between, environment, history
  <2> QED
    BY <1>0, <1>1, <2>1, TypeFrame, TypePartsNext DEF StartCycle, store, history
<1>2. CASE BeginPending
  <2>1. WorldType' /\ IntentsType'
    BY <1>0, <1>2
       DEF BeginPending, WorldType, IntentsType, Inside, Pending, Intents, store, environment,
           history
  <2> QED
    BY <1>0, <1>2, <2>1, TypeFrame, TypePartsNext DEF BeginPending, store
<1>3. ASSUME NEW i \in rows, ExpireRow(i) PROVE TypeOK'
  <2>1. i \in Intents
    BY <1>0 DEF IntentsType
  <2>2. [intents[i] EXCEPT !.status = "expired"] \in Intent
    BY <2>1, IntentFacts DEF Intent
  <2>3. intents' = [intents EXCEPT ![i] = [intents[i] EXCEPT !.status = "expired"]]
    BY <1>3 DEF ExpireRow
  <2>4. IntentsType'
    BY <1>0, <1>3, <2>1, <2>2, <2>3, RewriteIntent DEF ExpireRow, IntentsType, history
  <2> QED
    BY <1>0, <1>3, <2>4, TypeFrame, TypePartsNext DEF ExpireRow, environment, history
<1>4. ASSUME NEW i \in rows, SkipRow(i) PROVE TypeOK'
  <2>1. IntentsType'
    BY <1>0, <1>4 DEF SkipRow, IntentsType, Intents, store, history
  <2> QED
    BY <1>0, <1>4, <2>1, TypeFrame, TypePartsNext DEF SkipRow, store, environment, history
<1>5. ASSUME NEW i \in rows, FillRow(i) PROVE TypeOK'
  BY <1>5, TypeFillRow
<1>6. CASE EndPending
  <2>1. WorldType'
    BY <1>0, <1>6 DEF EndPending, WorldType, Between, environment, history
  <2> QED
    BY <1>0, <1>6, <2>1, TypeFrame, TypePartsNext DEF EndPending, history
<1>7. CASE BeginBrackets
  <2>1. WorldType'
    BY <1>0, <1>7 DEF BeginBrackets, WorldType, Inside, environment, history
  <2> QED
    BY <1>0, <1>7, <2>1, TypeFrame, TypePartsNext DEF BeginBrackets, store, history
<1>8. ASSUME NEW s \in held, LeaveOpen(s) PROVE TypeOK'
  <2>1. s \in Symbols /\ IsHeld(s)
    BY <1>0 DEF WorldType, WorkListsValid
  <2>2. PositionsType'
    <3>1. CASE Bracketed(s)
      <4>1. BestNow(s) \in Int /\ positions[s] \in PositionRow
        BY <1>0, <2>1, <3>1, VisitTypes DEF PositionsType
      <4>2. [positions[s] EXCEPT !.best = BestNow(s)] \in PositionRow
        BY <4>1 DEF PositionRow
      <4>3. positions' = [positions EXCEPT ![s] = [positions[s] EXCEPT !.best = BestNow(s)]]
        BY <1>8, <3>1 DEF LeaveOpen
      <4> QED
        BY <1>0, <2>1, <4>1, <4>2, <4>3 DEF PositionsType, PositionRow, IsHeld
    <3>2. CASE ~Bracketed(s)
      BY <1>0, <1>8, <3>2, TypeFrame DEF LeaveOpen
    <3> QED
      BY <3>1, <3>2
  <2>3. WorldType'
    BY <1>0, <1>8 DEF LeaveOpen, WorldType, environment, history
  <2> QED
    BY <1>0, <1>8, <2>2, <2>3, TypeFrame, TypePartsNext DEF LeaveOpen, history
<1>9. ASSUME NEW s \in held, TakeExit(s) PROVE TypeOK'
  BY <1>9, TypeTakeExit DEF WorkListsValid
<1>10. CASE EndBrackets
  <2>1. WorldType'
    BY <1>0, <1>10 DEF EndBrackets, WorldType, Between, environment, history
  <2> QED
    BY <1>0, <1>10, <2>1, TypeFrame, TypePartsNext DEF EndBrackets, store, history
<1>11. CASE RefreshMarks
  <2>1. ASSUME NEW s \in Symbols
        PROVE  Marked(s) \in PositionRow /\ Marked(s).qty = positions[s].qty
                 /\ Marked(s).side = positions[s].side
    <3>1. positions[s] \in PositionRow /\ seen[s] \in Int
      BY <1>0, PricesAreNumbers DEF PositionsType, WorldType
    <3> DEFINE pnl == Pnl(positions[s].side, positions[s].qty, positions[s].avg, seen[s])
    <3>2. pnl \in Int
      BY <3>1 DEF Pnl, SideSign, PositionRow
    <3> HIDE DEF pnl
    <3>3. Marked(s) \in {positions[s], [positions[s] EXCEPT !.pnl = pnl]}
      BY DEF Marked, pnl
    <3> QED
      BY <3>1, <3>2, <3>3 DEF PositionRow
  <2>2. PositionsType'
    BY <1>0, <1>11, <2>1 DEF RefreshMarks, PositionsType, IsHeld
  <2>3. WorldType'
    BY <1>0, <1>11, PricesAreNumbers
       DEF RefreshMarks, WorldType, Between, NoPrices, environment, history
  <2> QED
    BY <1>0, <1>11, <2>2, <2>3, TypeFrame, TypePartsNext DEF RefreshMarks, history
<1> QED
  BY <1>1, <1>2, <1>3, <1>4, <1>5, <1>6, <1>7, <1>8, <1>9, <1>10, <1>11 DEF Cycle

\* Candles, days and restarts keep the store well typed.
LEMMA TypeWorld == TypeOK /\ World => TypeOK'
<1> SUFFICES ASSUME TypeOK, World PROVE TypeOK'
  OBVIOUS
<1>0. AccountType /\ PositionsType /\ IntentsType /\ LedgerType /\ WorldType
  BY TypeParts
<1>1. ASSUME NEW s \in Symbols, NEW price \in Prices, NewCandle(s, price) PROVE TypeOK'
  <2>1. WorldType'
    BY <1>0, <1>1 DEF NewCandle, WorldType, job, history
  <2> QED
    BY <1>0, <1>1, <2>1, TypeFrame, TypePartsNext DEF NewCandle, store, job, history
<1>2. CASE NewDay
  <2>1. WorldType'
    BY <1>0, <1>2 DEF NewDay, WorldType, job, history
  <2> QED
    BY <1>0, <1>2, <2>1, TypeFrame, TypePartsNext DEF NewDay, store, job, history
<1>3. CASE Restart
  <2>1. WorldType'
    BY <1>0, <1>3 DEF Restart, WorldType, Between, NoPrices, history
  <2> QED
    BY <1>0, <1>3, <2>1, TypeFrame, TypePartsNext DEF Restart, store, history
<1> QED
  BY <1>1, <1>2, <1>3 DEF World

-----------------------------------------------------------------------------
(* The work lists of a running store call.  Calls are whole here, so what  *)
(* a list names still is as the call found it; how calls that interleave   *)
(* at their SQL statements act on stale lists is in PaperRaces.            *)

\* No call runs when the backend starts.
LEMMA WorkInit == Init => WorkListsValid
BY VenueAssumption DEF Init, WorkListsValid, Pending, Intents

\* Between two store calls there is no work list to keep valid.
LEMMA WorkBetween ==
    ASSUME WorkListsValid, pc \in Between
    PROVE  rows = {} /\ held = {} /\ pc # "filling" /\ pc # "enforcing"
BY DEF WorkListsValid, Between

\* A handler runs between two calls of the job, and files paper orders as the
\* only pending rows.
LEMMA WorkHandler == TypeOK /\ WorkListsValid /\ Handler => WorkListsValid'
<1> SUFFICES ASSUME TypeOK, WorkListsValid, Handler PROVE WorkListsValid'
  OBVIOUS
<1>0. intents \in Seq(Intent) /\ Len(intents) \in Nat /\ Intents = 1..Len(intents)
  BY DEF TypeOK, Intents
<1>1. ASSUME NEW row, row.mode = "live" => row.status # "pending",
             row.mode \in {"paper", "live"}, row \in Intent,
             Len(intents) < MaxIntents, intents' = Append(intents, row)
      PROVE  Len(intents') <= MaxIntents /\ \A i \in Pending' : intents'[i].mode = "paper"
  <2>1. /\ Len(intents') = Len(intents) + 1 /\ Intents' = 1..(Len(intents) + 1)
        /\ \A i \in 1..Len(intents) : intents'[i] = intents[i]
        /\ intents'[Len(intents) + 1] = row
    BY <1>0, <1>1, AppendProperties DEF Intents
  <2>2. ASSUME NEW i \in Pending' PROVE intents'[i].mode = "paper"
    <3>1. i \in 1..(Len(intents) + 1) /\ intents'[i].status = "pending"
      BY <2>1 DEF Pending
    <3>2. CASE i = Len(intents) + 1
      BY <1>1, <2>1, <3>1, <3>2
    <3>3. CASE i # Len(intents) + 1
      <4>1. i \in 1..Len(intents) /\ intents'[i] = intents[i]
        BY <1>0, <2>1, <3>1, <3>3
      <4>2. i \in Pending
        BY <1>0, <3>1, <4>1 DEF Pending
      <4> QED
        BY <4>1, <4>2 DEF WorkListsValid
    <3> QED
      BY <3>2, <3>3
  <2>3. MaxIntents \in Nat
    BY VenueAssumption
  <2>4. Len(intents') <= MaxIntents
    BY <1>0, <1>1, <2>1, <2>3
  <2> QED
    BY <2>2, <2>4
<1>2. ASSUME NEW t \in Tickets, Submit(t) PROVE WorkListsValid'
  <2> DEFINE row == Unfilled(t, "paper", "pending")
  <2>1. row \in Intent /\ row.mode = "paper"
    BY TicketsAssumption DEF Unfilled, Intent, TypeOK, NoPrice, NoDay
  <2>2. Len(intents) < MaxIntents /\ intents' = Append(intents, row)
    BY <1>2 DEF Submit
  <2> HIDE DEF row
  <2>3. Len(intents') <= MaxIntents /\ \A i \in Pending' : intents'[i].mode = "paper"
    BY <1>1, <2>1, <2>2
  <2> QED
    BY <1>2, <2>3, WorkBetween DEF Submit, WorkListsValid, job
<1>3. ASSUME NEW t \in LiveTickets, NEW filled \in BOOLEAN, RecordLive(t, filled)
      PROVE  WorkListsValid'
  <2>1. t \in Ticket /\ t.entry \in Nat
    BY VenueAssumption DEF Ticket
  <2>2. PICK row \in Intent : /\ row.mode = "live" /\ row.status # "pending"
                              /\ intents' = Append(intents, row)
    <3>1. CASE filled
      <4> DEFINE row == Executed(Unfilled(t, "live", "submitted"), t.entry)
      <4>1. row \in Intent /\ row.mode = "live" /\ row.status # "pending"
        BY <2>1 DEF Unfilled, Executed, Intent, TypeOK, NoPrice, NoDay
      <4>2. intents' = Append(intents, row)
        BY <1>3, <3>1 DEF RecordLive
      <4> HIDE DEF row
      <4> QED
        BY <4>1, <4>2
    <3>2. CASE ~filled
      <4> DEFINE row == Unfilled(t, "live", "submitted")
      <4>1. row \in Intent /\ row.mode = "live" /\ row.status # "pending"
        BY <2>1 DEF Unfilled, Intent, TypeOK, NoPrice, NoDay
      <4>2. intents' = Append(intents, row)
        BY <1>3, <3>2 DEF RecordLive
      <4> HIDE DEF row
      <4> QED
        BY <4>1, <4>2
    <3> QED
      BY <3>1, <3>2
  <2>3. Len(intents) < MaxIntents
    BY <1>3 DEF RecordLive
  <2>4. Len(intents') <= MaxIntents /\ \A i \in Pending' : intents'[i].mode = "paper"
    BY <1>1, <2>2, <2>3
  <2> QED
    BY <1>3, <2>4, WorkBetween DEF RecordLive, WorkListsValid, job
<1>4. ASSUME NEW i \in Intents, Cancel(i) PROVE WorkListsValid'
  BY <1>0, <1>4, WorkBetween DEF Cancel, WorkListsValid, Pending, Intents, job
<1>5. ASSUME NEW s \in Symbols, NEW asked, ClosePosition(s, asked) PROVE WorkListsValid'
  BY <1>5, WorkBetween DEF ClosePosition, WorkListsValid, Pending, Intents, job
<1>6. ASSUME NEW a \in PutAccounts, ReplaceAccount(a) PROVE WorkListsValid'
  BY <1>6, WorkBetween DEF ReplaceAccount, WorkListsValid, Pending, Intents, job
<1> QED
  BY <1>2, <1>3, <1>4, <1>5, <1>6 DEF Handler

\* A row or symbol leaves its work list in the step that acts on it, and no step
\* settles or closes another one.
LEMMA WorkCycle == TypeOK /\ WorkListsValid /\ Cycle => WorkListsValid'
<1> SUFFICES ASSUME TypeOK, WorkListsValid, Cycle PROVE WorkListsValid'
  OBVIOUS
<1> USE DEF WorkListsValid
<1>0. intents \in Seq(Intent) /\ Intents = 1..Len(intents) /\ Len(intents) \in Nat
  BY DEF TypeOK, Intents
<1>1. CASE StartCycle
  BY <1>1 DEF StartCycle, store, Pending, Intents, IsHeld
<1>2. CASE BeginPending
  BY <1>2 DEF BeginPending, store, Pending, Intents, IsHeld
<1>3. ASSUME NEW i \in rows, ExpireRow(i) PROVE WorkListsValid'
  BY <1>0, <1>3 DEF ExpireRow, IsNext, Pending, Intents, IsHeld
<1>4. ASSUME NEW i \in rows, SkipRow(i) PROVE WorkListsValid'
  BY <1>4 DEF SkipRow, IsNext, store, Pending, Intents, IsHeld
<1>5. ASSUME NEW i \in rows, FillRow(i) PROVE WorkListsValid'
  <2> DEFINE price == ExecutedPrice(intents[i].ticket,
                         Latest(intents[i].ticket, seen[intents[i].ticket.symbol]))
  <2>1. i \in 1..Len(intents) /\ i \in Intents
    BY <1>0 DEF Pending
  <2>2. /\ intents' = [intents EXCEPT ![i] = Executed(intents[i], price)]
        /\ pc = "filling" /\ pc' = pc /\ rows' = rows \ {i} /\ held' = held
    BY <1>5 DEF FillRow, IsNext
  <2>3. Executed(intents[i], price).status = "executed"
    BY DEF Executed
  <2> HIDE DEF price
  <2>4. Intents' = Intents /\ Len(intents') = Len(intents)
    BY <1>0, <2>1, <2>2 DEF Intents
  <2>5. Pending' = Pending \ {i} /\ \A j \in Pending \ {i} : intents'[j] = intents[j]
    BY <1>0, <2>1, <2>2, <2>3, <2>4 DEF Pending
  <2> QED
    BY <2>2, <2>4, <2>5
<1>6. CASE EndPending
  BY <1>6 DEF EndPending, Pending, Intents, IsHeld
<1>7. CASE BeginBrackets
  BY <1>7 DEF BeginBrackets, store, Pending, Intents, IsHeld
<1>8. ASSUME NEW s \in held, LeaveOpen(s) PROVE WorkListsValid'
  <2>1. positions \in [Symbols -> PositionRow] /\ s \in Symbols /\ held \subseteq Symbols
    BY DEF TypeOK
  <2>2. \A x \in held \ {s} : positions'[x] = positions[x]
    BY <1>8, <2>1 DEF LeaveOpen
  <2> QED
    BY <1>8, <2>2 DEF LeaveOpen, Visits, Pending, Intents, IsHeld
<1>9. ASSUME NEW s \in held, TakeExit(s) PROVE WorkListsValid'
  <2>1. positions \in [Symbols -> PositionRow] /\ s \in Symbols /\ held \subseteq Symbols
    BY DEF TypeOK
  <2>2. \A x \in held \ {s} : positions'[x] = positions[x]
    BY <1>9, <2>1 DEF TakeExit, ApplyFill
  <2> QED
    BY <1>9, <2>2 DEF TakeExit, Visits, Pending, Intents, IsHeld
<1>10. CASE EndBrackets
  BY <1>10 DEF EndBrackets, store, Pending, Intents, IsHeld
<1>11. CASE RefreshMarks
  BY <1>11 DEF RefreshMarks, Pending, Intents, IsHeld
<1> QED
  BY <1>1, <1>2, <1>3, <1>4, <1>5, <1>6, <1>7, <1>8, <1>9, <1>10, <1>11 DEF Cycle

\* Candles, days and restarts come between two calls of the job.
LEMMA WorkWorld == WorkListsValid /\ World => WorkListsValid'
BY DEF WorkListsValid, World, NewCandle, NewDay, Restart, store, job, Pending, Intents, IsHeld,
       Between

-----------------------------------------------------------------------------
(* Invariance.                                                             *)

\* Type correctness and the work lists need each other: a bracket exit is well
\* typed because the symbol it visits is still held.
VenueInv == TypeOK /\ WorkListsValid

\* Every step keeps types and work lists together; neither is inductive alone.
LEMMA VenueInvStep == VenueInv /\ [Next]_vars => VenueInv'
<1>1. VenueInv /\ Next => VenueInv'
  BY TypeHandler, TypeCycle, TypeWorld, WorkHandler, WorkCycle, WorkWorld DEF Next, VenueInv
<1>2. VenueInv /\ UNCHANGED vars => VenueInv'
  <2> SUFFICES ASSUME VenueInv, UNCHANGED vars PROVE VenueInv'
    OBVIOUS
  <2>1. TypeOK'
    BY TypeParts, TypeFrame, TypePartsNext
       DEF VenueInv, vars, store, job, environment, history
  <2>2. WorkListsValid'
    BY DEF VenueInv, WorkListsValid, vars, store, job, Pending, Intents, IsHeld
  <2> QED
    BY <2>1, <2>2 DEF VenueInv
<1> QED
  BY <1>1, <1>2

\* Types and work lists hold in every reachable state of the venue.
THEOREM VenueInvariant == Spec => []VenueInv
<1>1. Init => VenueInv
  BY TypeInit, WorkInit DEF VenueInv
<1> QED
  BY <1>1, VenueInvStep, PTL DEF Spec

\* Every table and variable has its type in every reachable state.
THEOREM TypeCorrect == Spec => []TypeOK
<1>1. VenueInv => TypeOK
  BY DEF VenueInv
<1> QED
  BY <1>1, VenueInvariant, PTL

-----------------------------------------------------------------------------
(* Orders execute on their terms.                                          *)

\* A day order executes on its day only because no order is stamped with a day
\* still to come: the strengthening that makes TermsHonoured inductive.
SubmittedInPast == \A i \in Intents : intents[i].submitted <= day
TermsInv == TermsHonoured /\ SubmittedInPast

\* A row that is written today, or was there before, honours its terms as soon
\* as every changed row does.
LEMMA TermsByRow ==
    ASSUME VenueInv, TermsInv, day' = day,
           NEW i \in Nat \ {0}, Intents' \subseteq Intents \cup {i},
           \A j \in Intents \ {i} : intents'[j] = intents[j],
           i \in Intents' => Honoured(intents'[i]) /\ intents'[i].submitted <= day
    PROVE  TermsInv'
<1>1. ASSUME NEW j \in Intents' PROVE Honoured(intents'[j]) /\ intents'[j].submitted <= day
  <2>1. CASE j = i
    BY <2>1
  <2>2. CASE j # i
    BY <2>2 DEF TermsInv, TermsHonoured, SubmittedInPast
  <2> QED
    BY <2>1, <2>2
<1> QED
  BY <1>1 DEF TermsInv, TermsHonoured, SubmittedInPast

\* A step that leaves the orders alone keeps them honoured, a new day included.
LEMMA TermsFrame ==
    ASSUME VenueInv, TermsInv, intents' = intents, day' \in {day, day + 1}
    PROVE  TermsInv'
<1>1. day \in Nat /\ \A i \in Intents : intents[i].submitted \in Nat
  BY IntentFacts DEF VenueInv, TypeOK, Intent
<1> QED
  BY <1>1 DEF TermsInv, TermsHonoured, SubmittedInPast, Intents

\* Filing a row that is honoured keeps all of them so.
LEMMA TermsAppend ==
    ASSUME VenueInv, TermsInv, day' = day, NEW row \in Intent,
           intents' = Append(intents, row), Honoured(row), row.submitted <= day
    PROVE  TermsInv'
<1> DEFINE i == Len(intents) + 1
<1>1. intents \in Seq(Intent) /\ Len(intents) \in Nat
  BY DEF VenueInv, TypeOK
<1>2. /\ Intents' \subseteq Intents \cup {i} /\ intents'[i] = row /\ i \in Nat \ {0}
      /\ \A j \in Intents \ {i} : intents'[j] = intents[j]
  BY <1>1, AppendProperties DEF Intents
<1> HIDE DEF i
<1> QED
  BY <1>2, TermsByRow

\* So does rewriting one row into an honoured one.
LEMMA TermsRewrite ==
    ASSUME VenueInv, TermsInv, day' = day, NEW i \in Intents, NEW row \in Intent,
           intents' = [intents EXCEPT ![i] = row], Honoured(row), row.submitted <= day
    PROVE  TermsInv'
<1>1. intents \in Seq(Intent) /\ i \in Nat \ {0}
  BY IntentFacts DEF VenueInv, TypeOK
<1>2. /\ Intents' \subseteq Intents \cup {i} /\ intents'[i] = row
      /\ \A j \in Intents \ {i} : intents'[j] = intents[j]
  BY <1>1 DEF Intents
<1> QED
  BY <1>1, <1>2, TermsByRow

\* The row FillRow writes is within its time in force, by the expiry test in
\* front of it, and within its price, by the trigger test.
LEMMA FilledRowHonoured ==
    ASSUME VenueInv, TermsInv, NEW i \in rows, FillRow(i)
    PROVE  \E row \in Intent : /\ intents' = [intents EXCEPT ![i] = row]
                               /\ Honoured(row) /\ row.submitted <= day
<1> DEFINE t == intents[i].ticket
           latest == Latest(t, seen[t.symbol])
           row == Executed(intents[i], ExecutedPrice(t, latest))
<1>1. /\ i \in Intents /\ intents[i] \in Intent /\ t \in Ticket /\ t.symbol \in Symbols
      /\ intents[i].submitted \in Nat /\ day \in Nat
  <2>1. i \in Intents
    BY DEF VenueInv, TypeOK
  <2> QED
    BY <2>1, IntentFacts DEF VenueInv, TypeOK, Intent
<1>2. ~Expired(t, intents[i].submitted, day) /\ Triggered(t, latest)
  BY DEF FillRow, Ready
<1>3. latest \in Nat
  <2>1. seen[t.symbol] \in Nat
    BY <1>1, PricesAreNumbers DEF VenueInv, TypeOK
  <2> QED
    BY <1>1, <2>1 DEF Latest, Ticket
<1>4. row \in Intent /\ row.submitted <= day
  <2>1. ExecutedPrice(t, latest) \in Nat
    BY <1>1, RowPriceType DEF VenueInv
  <2>2. intents[i].submitted <= day
    BY <1>1 DEF TermsInv, SubmittedInPast
  <2> QED
    BY <1>1, <2>1, <2>2 DEF Executed, Intent
<1>5. WithinTime(row)
  <2>1. /\ row.ticket = t /\ row.filledOn = day /\ row.submitted = intents[i].submitted
    BY DEF Executed
  <2>2. t.expires \in Nat /\ row.submitted <= day
    BY <1>1, <1>4 DEF Ticket
  <2> HIDE DEF t, row
  <2> QED
    BY <1>1, <1>2, <2>1, <2>2 DEF WithinTime, Expired
<1>6. WithinPrice(row)
  <2>1. row.ticket = t /\ row.price = ExecutedPrice(t, latest)
    BY DEF Executed
  <2> HIDE DEF t, row, latest
  <2> QED
    BY <1>1, <1>2, <1>3, <2>1, TriggeredPrice DEF WithinPrice
<1>7. intents' = [intents EXCEPT ![i] = row]
  BY DEF FillRow
<1> HIDE DEF row
<1> QED
  BY <1>4, <1>5, <1>6, <1>7 DEF Honoured, IsExecuted

\* Every step of the venue keeps the orders honoured: only FillRow executes a
\* paper order.
LEMMA TermsStep == VenueInv /\ TermsInv /\ [Next]_vars => TermsInv'
<1> SUFFICES ASSUME VenueInv, TermsInv, [Next]_vars PROVE TermsInv'
  OBVIOUS
<1>0. TypeOK /\ day \in Nat
  BY DEF VenueInv, TypeOK
<1>1. ASSUME NEW t \in Tickets, Submit(t) PROVE TermsInv'
  <2> DEFINE row == Unfilled(t, "paper", "pending")
  <2>1. row \in Intent /\ Honoured(row) /\ row.submitted <= day
    BY <1>0, TicketsAssumption DEF Unfilled, Intent, Honoured, IsExecuted, NoPrice, NoDay
  <2>2. intents' = Append(intents, row) /\ day' = day
    BY <1>1 DEF Submit, environment
  <2> HIDE DEF row
  <2> QED
    BY <2>1, <2>2, TermsAppend
<1>2. ASSUME NEW t \in LiveTickets, NEW filled \in BOOLEAN, RecordLive(t, filled)
      PROVE  TermsInv'
  <2> DEFINE open == Unfilled(t, "live", "submitted")
             done == Executed(open, t.entry)
  <2>1. t \in Ticket /\ t.entry \in Nat
    BY VenueAssumption DEF Ticket
  <2>2. /\ open \in Intent /\ Honoured(open) /\ open.submitted <= day
        /\ done \in Intent /\ Honoured(done) /\ done.submitted <= day
    BY <1>0, <2>1 DEF Unfilled, Executed, Intent, Honoured, IsExecuted, NoPrice, NoDay
  <2>3. intents' \in {Append(intents, open), Append(intents, done)} /\ day' = day
    BY <1>2 DEF RecordLive, environment
  <2> HIDE DEF open, done
  <2> QED
    BY <2>2, <2>3, TermsAppend
<1>3. ASSUME NEW i \in Intents, NEW status \in {"cancelled", "expired"},
             intents' = [intents EXCEPT ![i].status = status], day' = day
      PROVE  TermsInv'
  <2> DEFINE row == [intents[i] EXCEPT !.status = status]
  <2>1. row \in Intent /\ row.status # "executed" /\ row.submitted = intents[i].submitted
    BY <1>0, IntentFacts DEF Intent
  <2>2. intents' = [intents EXCEPT ![i] = row]
    BY <1>3
  <2> HIDE DEF row
  <2>3. Honoured(row) /\ row.submitted <= day
    BY <2>1 DEF Honoured, IsExecuted, TermsInv, SubmittedInPast
  <2> QED
    BY <1>3, <2>1, <2>2, <2>3, TermsRewrite
<1>4. ASSUME NEW i \in Intents, Cancel(i) PROVE TermsInv'
  BY <1>3, <1>4 DEF Cancel, environment
<1>5. ASSUME NEW i \in rows, ExpireRow(i) PROVE TermsInv'
  BY <1>0, <1>3, <1>5 DEF ExpireRow, environment, TypeOK
<1>6. ASSUME NEW i \in rows, FillRow(i) PROVE TermsInv'
  <2>1. i \in Intents /\ day' = day
    BY <1>0, <1>6 DEF FillRow, environment, TypeOK
  <2> QED
    BY <1>6, <2>1, FilledRowHonoured, TermsRewrite
<1>7. ASSUME UNCHANGED intents, day' \in {day, day + 1} PROVE TermsInv'
  BY <1>7, TermsFrame
<1>8. CASE Handler
  <2>1. ASSUME NEW s \in Symbols, NEW asked, ClosePosition(s, asked) PROVE TermsInv'
    BY <1>7, <2>1 DEF ClosePosition, environment
  <2>2. ASSUME NEW a \in PutAccounts, ReplaceAccount(a) PROVE TermsInv'
    BY <1>7, <2>2 DEF ReplaceAccount, environment
  <2> QED
    BY <1>1, <1>2, <1>4, <1>8, <2>1, <2>2 DEF Handler
<1>9. CASE Cycle
  <2>1. ASSUME NEW i \in rows, SkipRow(i) PROVE TermsInv'
    BY <1>7, <2>1 DEF SkipRow, store, environment
  <2>2. ASSUME NEW s \in held, LeaveOpen(s) \/ TakeExit(s) PROVE TermsInv'
    BY <1>7, <2>2 DEF LeaveOpen, TakeExit, environment
  <2>3. CASE StartCycle \/ BeginPending \/ EndPending \/ BeginBrackets \/ EndBrackets \/ RefreshMarks
    BY <1>7, <2>3
       DEF StartCycle, BeginPending, EndPending, BeginBrackets, EndBrackets, RefreshMarks,
           store, environment
  <2> QED
    BY <1>5, <1>6, <1>9, <2>1, <2>2, <2>3 DEF Cycle
<1>10. CASE World
  BY <1>7, <1>10 DEF World, NewCandle, NewDay, Restart, store
<1>11. CASE UNCHANGED vars
  BY <1>7, <1>11 DEF vars, store, environment
<1> QED
  BY <1>8, <1>9, <1>10, <1>11 DEF Next

\* A paper order that executed did so within its time in force and at a price its
\* limit or stop allows, in every reachable state.
THEOREM TermsAreHonoured == Spec => []TermsHonoured
<1>1. Init => TermsInv
  BY DEF Init, TermsInv, TermsHonoured, SubmittedInPast, Intents
<1>2. TermsInv => TermsHonoured
  BY DEF TermsInv
<1> QED
  BY <1>1, <1>2, VenueInvariant, TermsStep, PTL DEF Spec

-----------------------------------------------------------------------------
(* Brackets are enforced.                                                  *)

\* The governing ticket depends on the orders, their executions and the side
\* held, and on nothing else.
LEMMA GoverningFrame ==
    ASSUME NEW s \in Symbols, UNCHANGED <<intents, fills>>,
           positions'[s].side = positions[s].side
    PROVE  /\ Governing(s)' = Governing(s) /\ BracketOf(s)' = BracketOf(s)
           /\ seen' = seen => (Bracketed(s)' <=> Bracketed(s))
<1>1. Governing(s)' = Governing(s)
  BY DEF Governing, LatestFill, AnyTicket
<1> QED
  BY <1>1 DEF BracketOf, Bracketed

\* What one symbol contributes to BracketsEnforced.
Enforced(s) == IsHeld(s) /\ Bracketed(s) => WithinBracket(s)

\* Visiting one symbol does not disturb another.
LEMMA EnforcedFrame ==
    ASSUME NEW s \in Symbols, Enforced(s), UNCHANGED <<intents, fills, seen>>,
           positions'[s] = positions[s]
    PROVE  Enforced(s)'
<1>1. BracketOf(s)' = BracketOf(s) /\ (Bracketed(s)' <=> Bracketed(s))
  BY GoverningFrame
<1> QED
  BY <1>1 DEF Enforced, IsHeld, WithinBracket

\* A position left open is inside its bracket.
LEMMA LeftOpenInside ==
    ASSUME VenueInv, NEW s \in held, LeaveOpen(s)
    PROVE  Enforced(s)'
<1>0. s \in Symbols /\ IsHeld(s) /\ positions[s] \in PositionRow /\ positions[s].side \in Sides
  BY DEF VenueInv, TypeOK, WorkListsValid
<1>1. CASE Bracketed(s)
  <2>1. positions' = [positions EXCEPT ![s].best = BestNow(s)] /\ ExitNow(s) = NoExit
    BY <1>1 DEF LeaveOpen
  <2>2. positions'[s].best = BestNow(s) /\ positions'[s].side = positions[s].side
    BY <1>0, <2>1 DEF VenueInv, TypeOK, PositionRow
  <2>3. BracketOf(s)' = BracketOf(s) /\ seen' = seen
    BY <1>0, <2>2, GoverningFrame DEF LeaveOpen
  <2>4. BracketOf(s) \in Ticket /\ BestNow(s) \in Int
    BY <1>0, <1>1, VisitTypes DEF VenueInv
  <2>5. seen[s] \in Int
    BY <1>0, PricesAreNumbers DEF VenueInv, TypeOK
  <2>6. BracketExit(BracketOf(s), positions[s].side, BestNow(s), seen[s]) = NoExit
    BY <2>1 DEF ExitNow
  <2> QED
    BY <1>0, <2>2, <2>3, <2>4, <2>5, <2>6, NoExitInside DEF Enforced, WithinBracket
<1>2. CASE ~Bracketed(s)
  <2>1. positions' = positions /\ UNCHANGED <<intents, fills, seen>>
    BY <1>2 DEF LeaveOpen
  <2>2. ~Bracketed(s)'
    BY <1>0, <1>2, <2>1, GoverningFrame
  <2> QED
    BY <2>2 DEF Enforced
<1> QED
  BY <1>1, <1>2

\* What a fill of a position held leaves of it.
LEMMA ReducedPosition ==
    ASSUME NEW pos \in PositionRow, pos.qty > 0, NEW side \in Sides, NEW qty \in Nat \ {0},
           NEW price, NEW filled, filled = FilledPosition(pos, side, qty, price)
    PROVE  /\ pos.side # side /\ qty < pos.qty
                => filled = Holding(pos.side, pos.qty - qty, pos.avg, pos.best)
           /\ pos.side # side /\ qty = pos.qty => filled = Flat
           /\ pos.side = side \/ qty > pos.qty => filled.side = side
<1>1. pos.qty \in Nat /\ ~(pos.qty = 0)
  BY DEF PositionRow
<1>2. CASE pos.side # side /\ qty < pos.qty
  BY <1>1, <1>2 DEF FilledPosition
<1>3. CASE pos.side # side /\ qty = pos.qty
  BY <1>1, <1>3 DEF FilledPosition
<1>4. CASE pos.side # side /\ qty > pos.qty
  <2>1. filled = Opened(side, qty - pos.qty, price)
    BY <1>1, <1>4 DEF FilledPosition
  <2> QED BY <1>1, <1>4, <2>1 DEF Opened, Holding
<1>5. CASE pos.side = side
  <2>1. filled = Holding(side, pos.qty + qty, (pos.qty * pos.avg + qty * price) \div (pos.qty + qty), pos.best)
    BY <1>1, <1>5 DEF FilledPosition
  <2> QED BY <1>5, <2>1 DEF Holding
<1> QED BY <1>1, <1>2, <1>3, <1>4, <1>5

\* A bracket exit closes the whole position.
LEMMA ExitLeavesFlat ==
    ASSUME VenueInv, NEW s \in held, TakeExit(s)
    PROVE  positions' = [positions EXCEPT ![s] = Flat]
<1>1. s \in Symbols /\ positions[s] \in PositionRow /\ positions[s].qty > 0
      /\ positions[s].side \in Sides
  BY DEF VenueInv, TypeOK, WorkListsValid, IsHeld
<1>2. Opposite(positions[s].side) # positions[s].side
  BY <1>1, SideFacts
<1>3. FilledPosition(positions[s], Opposite(positions[s].side), positions[s].qty,
                     ExitNow(s).price) = Flat
  <2>1. Opposite(positions[s].side) \in Sides /\ positions[s].qty \in Nat \ {0}
    BY <1>1, SideFacts DEF PositionRow
  <2> QED
    BY <1>1, <1>2, <2>1, ReducedPosition
<1> QED
  BY <1>3 DEF TakeExit, ApplyFill

\* Every step keeps the visited symbols inside their brackets.
LEMMA BracketsStep == VenueInv /\ BracketsEnforced /\ [Next]_vars => BracketsEnforced'
<1> SUFFICES ASSUME VenueInv, BracketsEnforced, [Next]_vars PROVE BracketsEnforced'
  OBVIOUS
<1>0. BracketsEnforced <=> (pc = "enforcing" => \A x \in Symbols \ held : Enforced(x))
  BY DEF BracketsEnforced, Enforced
<1>1. ASSUME \A x \in Symbols \ held' : Enforced(x)' PROVE BracketsEnforced'
  BY <1>1 DEF BracketsEnforced, Enforced
<1>2. ASSUME pc' # "enforcing" PROVE BracketsEnforced'
  BY <1>2 DEF BracketsEnforced
<1>3. ASSUME NEW s \in held, LeaveOpen(s) \/ TakeExit(s) PROVE BracketsEnforced'
  <2>0. /\ s \in Symbols /\ pc = "enforcing" /\ held' = held \ {s}
        /\ UNCHANGED <<intents, fills, seen>>
    BY <1>3 DEF LeaveOpen, TakeExit, Visits, VenueInv, TypeOK
  <2>1. positions \in [Symbols -> PositionRow]
    BY DEF VenueInv, TypeOK
  <2>2. ASSUME NEW x \in Symbols \ held, x # s PROVE positions'[x] = positions[x]
    BY <1>3, <2>0, <2>1, <2>2 DEF LeaveOpen, TakeExit, ApplyFill
  <2>3. ASSUME NEW x \in Symbols \ held, x # s PROVE Enforced(x)'
    BY <1>0, <2>0, <2>2, <2>3, EnforcedFrame
  <2>4. Enforced(s)'
    <3>1. CASE LeaveOpen(s)
      BY <3>1, LeftOpenInside
    <3>2. CASE TakeExit(s)
      <4>1. positions'[s] = Flat
        BY <2>0, <2>1, <3>2, ExitLeavesFlat
      <4> QED
        BY <4>1 DEF Enforced, IsHeld, Flat
    <3> QED
      BY <1>3, <3>1, <3>2
  <2> QED
    BY <1>1, <2>0, <2>3, <2>4
<1>4. CASE BeginBrackets
  <2>1. held' = {x \in Symbols : IsHeld(x)} /\ positions' = positions
    BY <1>4 DEF BeginBrackets, store
  <2>2. ASSUME NEW x \in Symbols \ held' PROVE Enforced(x)'
    BY <2>1, <2>2 DEF Enforced, IsHeld
  <2> QED
    BY <1>1, <2>2
<1>5. CASE UNCHANGED vars
  <2>1. UNCHANGED <<pc, held, positions, intents, fills, seen>>
    BY <1>5 DEF vars, store, job
  <2>2. ASSUME NEW x \in Symbols \ held, pc = "enforcing" PROVE Enforced(x)'
    BY <1>0, <2>1, <2>2, EnforcedFrame
  <2> QED
    BY <1>1, <1>2, <2>1, <2>2
<1>6. CASE Handler
  BY <1>2, <1>6 DEF Handler, Submit, RecordLive, Cancel, ClosePosition, ReplaceAccount,
                    job, Between
<1>7. CASE World
  BY <1>2, <1>7 DEF World, NewCandle, NewDay, Restart, job, Between
<1>8. CASE Cycle
  <2>1. ASSUME NEW i \in rows, ExpireRow(i) \/ SkipRow(i) \/ FillRow(i) PROVE BracketsEnforced'
    BY <1>2, <2>1 DEF ExpireRow, SkipRow, FillRow, IsNext
  <2>2. CASE StartCycle \/ BeginPending \/ EndPending \/ EndBrackets \/ RefreshMarks
    BY <1>2, <2>2 DEF StartCycle, BeginPending, EndPending, EndBrackets, RefreshMarks
  <2> QED
    BY <1>3, <1>4, <1>8, <2>1, <2>2 DEF Cycle
<1> QED
  BY <1>5, <1>6, <1>7, <1>8 DEF Next

\* In every reachable state, the positions that the running enforce_brackets has
\* visited and left open are strictly inside stop, target and trail.
THEOREM BracketsAreEnforced == Spec => []BracketsEnforced
<1>1. Init => BracketsEnforced
  BY DEF Init, BracketsEnforced
<1> QED
  BY <1>1, VenueInvariant, BracketsStep, PTL DEF Spec

-----------------------------------------------------------------------------
(* A stop-out is one R.                                                    *)

\* When the governing ticket has a plan stop, the search narrowed to planned
\* tickets finds the same one: the latest of all is the latest of the planned.
LEMMA QueriesAgree ==
    ASSUME VenueInv, NEW s \in Symbols, NEW side \in Sides,
           LatestFill(s, side, AnyTicket) # 0,
           Planned(intents[LatestFill(s, side, AnyTicket)].ticket)
    PROVE  LatestFill(s, side, Planned) = LatestFill(s, side, AnyTicket)
<1> DEFINE any == {k \in DOMAIN fills : LET t == intents[fills[k]].ticket
                                        IN  t.symbol = s /\ t.side = side /\ AnyTicket(t)}
           planned == {k \in DOMAIN fills : LET t == intents[fills[k]].ticket
                                            IN  t.symbol = s /\ t.side = side /\ Planned(t)}
<1>1. LatestFill(s, side, AnyTicket) = IF any = {} THEN 0 ELSE fills[Max(any)]
  BY DEF LatestFill
<1>2. LatestFill(s, side, Planned) = IF planned = {} THEN 0 ELSE fills[Max(planned)]
  BY DEF LatestFill
<1>3. DOMAIN fills = 1..Len(fills) /\ Len(fills) \in Nat
  BY DEF VenueInv, TypeOK
<1>4. any # {} /\ any \subseteq 1..Len(fills) /\ planned \subseteq any
  BY <1>1, <1>3 DEF AnyTicket
<1>5. Max(any) \in any /\ \A k \in any : Max(any) >= k
  <2> HIDE DEF any, planned
  <2> QED
    BY <1>3, <1>4, GreatestIndex
<1>6. Max(any) \in planned
  BY <1>1, <1>4, <1>5
<1>7. Max(planned) \in planned /\ \A k \in planned : Max(planned) >= k
  <2> HIDE DEF any, planned
  <2> QED
    BY <1>3, <1>4, <1>6, GreatestIndex
<1> HIDE DEF any, planned
<1>8. Max(planned) = Max(any)
  <2>1. Max(any) \in 1..Len(fills) /\ Max(planned) \in 1..Len(fills)
    BY <1>4, <1>5, <1>7
  <2>2. Max(any) >= Max(planned) /\ Max(planned) >= Max(any)
    BY <1>4, <1>5, <1>6, <1>7
  <2> QED
    BY <1>3, <2>1, <2>2
<1> QED
  BY <1>1, <1>2, <1>4, <1>6, <1>8

\* An exit of kind "stop" under an untrailed ticket is at the ticket's plan stop.
LEMMA StopExitAtPlan ==
    ASSUME NEW ticket \in Ticket, NEW side \in Sides, NEW best, NEW price,
           BracketExit(ticket, side, best, price).kind = "stop", ticket.trail = 0
    PROVE  /\ ticket.stop # NoPrice
           /\ BracketExit(ticket, side, best, price).price = ticket.stop
BY DEF BracketExit, StopTouched, HasStop, EffectiveStop, NoExit

\* Whenever a bracket stops out an untrailed position, the stop its closure is
\* measured against is the price it is booked at, whatever orders came between.
THEOREM StopOutsAreOneR == Spec => StopOutIsOneR
<1> DEFINE OneR == \A s \in held :
         TakeExit(s) /\ ExitNow(s).kind = "stop" /\ BracketOf(s).trail = 0
         => ledger'[Len(ledger')].risk = ledger'[Len(ledger')].exit
<1>1. VenueInv => OneR
  <2> SUFFICES ASSUME VenueInv, NEW s \in held, TakeExit(s), ExitNow(s).kind = "stop",
                      BracketOf(s).trail = 0
               PROVE  ledger'[Len(ledger')].risk = ledger'[Len(ledger')].exit
    OBVIOUS
  <2> DEFINE row == ClosureRow(s, positions[s].qty, ExitNow(s).price, ExitNow(s).kind)
             side == positions[s].side
  <2>1. s \in Symbols /\ IsHeld(s) /\ side \in Sides /\ Bracketed(s)
    BY DEF VenueInv, TypeOK, WorkListsValid, TakeExit
  <2>2. BracketOf(s) \in Ticket
    BY <2>1, VisitTypes DEF VenueInv
  <2>3. BracketOf(s).stop # NoPrice /\ ExitNow(s).price = BracketOf(s).stop
    BY <2>1, <2>2, StopExitAtPlan DEF ExitNow
  <2>4. LatestFill(s, side, Planned) = Governing(s) /\ Governing(s) # 0
    BY <2>1, <2>3, QueriesAgree DEF Governing, BracketOf, Bracketed, Planned
  <2>5. row.risk = BracketOf(s).stop /\ row.exit = ExitNow(s).price
    BY <2>4 DEF ClosureRow, BracketOf
  <2>6. ledger' = Append(ledger, row) /\ ledger \in Seq(Closure)
    BY DEF TakeExit, VenueInv, TypeOK
  <2> HIDE DEF row, side
  <2>7. ledger'[Len(ledger')] = row
    BY <2>6
  <2> QED
    BY <2>3, <2>5, <2>7
<1>2. VenueInv => [OneR]_vars
  BY <1>1
<1> HIDE DEF OneR
<1>3. Spec => [][OneR]_vars
  BY <1>2, VenueInvariant, PTL
<1> QED
  BY <1>3 DEF StopOutIsOneR, OneR

-----------------------------------------------------------------------------
(* A stop in force never loosens.                                          *)

\* The stop in force tightens when the best close does: a trail of at most half
\* a price moves by less than the price, also after it is rounded down.
LEMMA TighterStop ==
    ASSUME NEW ticket \in Ticket, NEW side \in Sides, NEW a \in Int, NEW b \in Int,
           SideSign(side) * (b - a) >= 0
    PROVE  SideSign(side) * (EffectiveStop(ticket, side, b)
                               - EffectiveStop(ticket, side, a)) >= 0
<1> DEFINE t == ticket.trail
           Trailed(x) == x - SideSign(side) * ((x * t) \div 100)
<1>1. t \in 0..50 /\ t \in Nat /\ ticket.stop \in Nat
  BY DEF Ticket
<1> HIDE DEF t
<1>2. ASSUME NEW x \in Int
      PROVE  /\ x * t \in Int /\ (x * t) \div 100 \in Int
             /\ 100 * ((x * t) \div 100) <= x * t
             /\ x * t < 100 * ((x * t) \div 100) + 100
  <2>1. x * t \in Int
    BY <1>1
  <2> QED
    BY <2>1
<1>3. Trailed(a) \in Int /\ Trailed(b) \in Int
  BY <1>2 DEF SideSign
<1>4. SideSign(side) * (Trailed(b) - Trailed(a)) >= 0
  <2> DEFINE at == a * t
             bt == b * t
  <2>1. /\ at \in Int /\ bt \in Int /\ at \div 100 \in Int /\ bt \div 100 \in Int
        /\ 100 * (at \div 100) <= at /\ at < 100 * (at \div 100) + 100
        /\ 100 * (bt \div 100) <= bt /\ bt < 100 * (bt \div 100) + 100
    BY <1>2
  <2>2. CASE side = "long"
    <3>1. b - a \in Nat /\ bt - at = (b - a) * t
      BY <1>1, <2>2 DEF SideSign
    <3>2. (b - a) * t <= 100 * (b - a)
      BY <1>1, <3>1
    <3>3. bt <= at + 100 * (b - a)
      BY <2>1, <3>1, <3>2
    <3> HIDE DEF at, bt
    <3>4. bt \div 100 <= at \div 100 + (b - a)
      BY <2>1, <3>1, <3>3
    <3> USE DEF at, bt
    <3> QED
      BY <2>1, <2>2, <3>4 DEF SideSign
  <2>3. CASE side = "short"
    <3>1. a - b \in Nat /\ at - bt = (a - b) * t
      BY <1>1, <2>3 DEF SideSign
    <3>2. (a - b) * t >= 0
      BY <1>1, <3>1
    <3>3. bt <= at
      BY <2>1, <3>1, <3>2
    <3> HIDE DEF at, bt
    <3>4. bt \div 100 <= at \div 100
      BY <2>1, <3>3
    <3> USE DEF at, bt
    <3> QED
      BY <2>1, <2>3, <3>1, <3>4 DEF SideSign
  <2> QED
    BY <2>2, <2>3 DEF Sides
<1>5. ASSUME NEW x \in Int
      PROVE  EffectiveStop(ticket, side, x) =
                 IF t = 0 THEN ticket.stop
                 ELSE IF ticket.stop = NoPrice THEN Trailed(x)
                 ELSE Better(Opposite(side), ticket.stop, Trailed(x))
  BY DEF EffectiveStop, t
<1> HIDE DEF Trailed
<1> QED
  BY <1>1, <1>3, <1>4, <1>5 DEF Better, NoWorse, Opposite, SideSign, Sides, NoPrice

\* What was executed stays executed: the job fills pending rows only, and
\* nothing touches a row after its execution.
FilledAreExecuted == \A i \in Range(fills) : intents[i].status = "executed"

\* Adding a row, or rewriting one that was not executed, leaves the executions.
LEMMA ExecutedFrame ==
    ASSUME VenueInv, FilledAreExecuted, UNCHANGED fills,
           \A i \in Intents : intents[i].status = "executed" => intents'[i] = intents[i]
    PROVE  FilledAreExecuted'
BY DEF FilledAreExecuted, VenueInv, TypeOK

\* An execution is added together with the status of its row.
LEMMA ExecutedAdds ==
    ASSUME VenueInv, FilledAreExecuted, NEW i \in Nat \ {0}, fills' = Append(fills, i),
           intents'[i].status = "executed",
           \A j \in Intents \ {i} : intents'[j] = intents[j]
    PROVE  FilledAreExecuted'
<1>1. fills \in Seq(Nat \ {0}) /\ Range(fills) \subseteq Intents
  BY DEF VenueInv, TypeOK
<1>2. Range(fills') = Range(fills) \cup {i}
  <2>1. /\ Len(fills) \in Nat /\ DOMAIN fills = 1..Len(fills)
        /\ DOMAIN fills' = 1..(Len(fills) + 1)
        /\ \A k \in 1..Len(fills) : fills'[k] = fills[k]
        /\ fills'[Len(fills) + 1] = i
    BY <1>1
  <2> QED
    BY <2>1 DEF Range
<1> QED
  BY <1>1, <1>2 DEF FilledAreExecuted

\* Every step keeps the executions executed.
LEMMA ExecutedStep == VenueInv /\ FilledAreExecuted /\ [Next]_vars => FilledAreExecuted'
<1> SUFFICES ASSUME VenueInv, FilledAreExecuted, [Next]_vars PROVE FilledAreExecuted'
  OBVIOUS
<1>0. /\ intents \in Seq(Intent) /\ Intents = 1..Len(intents) /\ Len(intents) \in Nat
      /\ rows \subseteq Intents /\ \A i \in rows : intents[i].status = "pending"
  BY DEF VenueInv, TypeOK, WorkListsValid, Intents, Pending
<1>1. ASSUME UNCHANGED <<intents, fills>> PROVE FilledAreExecuted'
  BY <1>1, ExecutedFrame
<1>2. CASE Handler
  <2>1. ASSUME NEW t \in Tickets, Submit(t) PROVE FilledAreExecuted'
    BY <1>0, <2>1, ExecutedFrame DEF Submit
  <2>2. ASSUME NEW t \in LiveTickets, NEW filled \in BOOLEAN, RecordLive(t, filled)
        PROVE  FilledAreExecuted'
    <3> DEFINE row == IF filled THEN Executed(Unfilled(t, "live", "submitted"), t.entry)
                      ELSE Unfilled(t, "live", "submitted")
    <3>1. intents' = Append(intents, row)
      BY <2>2 DEF RecordLive
    <3>2. CASE filled
      <4>1. row.status = "executed"
        BY <3>2 DEF Executed
      <4>2. fills' = Append(fills, Len(intents) + 1)
        BY <2>2, <3>2 DEF RecordLive
      <4> HIDE DEF row
      <4>3. /\ intents'[Len(intents) + 1] = row
            /\ \A j \in Intents \ {Len(intents) + 1} : intents'[j] = intents[j]
        BY <1>0, <3>1
      <4>4. Len(intents) + 1 \in Nat \ {0}
        BY <1>0
      <4> QED
        BY <4>1, <4>2, <4>3, <4>4, ExecutedAdds
    <3>3. CASE ~filled
      <4>1. fills' = fills
        BY <2>2, <3>3 DEF RecordLive
      <4> HIDE DEF row
      <4> QED
        BY <1>0, <3>1, <4>1, ExecutedFrame
    <3> QED
      BY <3>2, <3>3
  <2>3. ASSUME NEW i \in Intents, Cancel(i) PROVE FilledAreExecuted'
    BY <1>0, <2>3, ExecutedFrame DEF Cancel
  <2>4. ASSUME NEW s \in Symbols, NEW asked \in 1..positions[s].qty, ClosePosition(s, asked)
        PROVE  FilledAreExecuted'
    BY <1>1, <2>4 DEF ClosePosition
  <2>5. ASSUME NEW a \in PutAccounts, ReplaceAccount(a) PROVE FilledAreExecuted'
    BY <1>1, <2>5 DEF ReplaceAccount
  <2> QED
    BY <1>2, <2>1, <2>2, <2>3, <2>4, <2>5 DEF Handler
<1>3. CASE Cycle
  <2>1. ASSUME NEW i \in rows, ExpireRow(i) PROVE FilledAreExecuted'
    BY <1>0, <2>1, ExecutedFrame DEF ExpireRow
  <2>2. ASSUME NEW i \in rows, FillRow(i) PROVE FilledAreExecuted'
    <3>1. PICK price : intents' = [intents EXCEPT ![i] = Executed(@, price)]
      BY <2>2 DEF FillRow
    <3>2. Executed(intents[i], price).status = "executed"
      BY DEF Executed
    <3>3. fills' = Append(fills, i) /\ i \in Nat \ {0}
      <4>1. fills' = Append(fills, i)
        BY <2>2 DEF FillRow
      <4>2. i \in 1..Len(intents)
        BY <1>0
      <4> QED BY <1>0, <4>1, <4>2
    <3>4. /\ intents'[i].status = "executed"
          /\ \A j \in Intents \ {i} : intents'[j] = intents[j]
      BY <1>0, <3>1, <3>2
    <3> QED
      BY <3>3, <3>4, ExecutedAdds
  <2>3. ASSUME NEW s \in held, LeaveOpen(s) \/ TakeExit(s) PROVE FilledAreExecuted'
    BY <1>1, <2>3 DEF LeaveOpen, TakeExit
  <2>4. ASSUME NEW i \in rows, SkipRow(i) PROVE FilledAreExecuted'
    BY <1>1, <2>4 DEF SkipRow, store
  <2>5. CASE StartCycle \/ BeginPending \/ EndPending \/ BeginBrackets \/ EndBrackets
             \/ RefreshMarks
    BY <1>1, <2>5 DEF StartCycle, BeginPending, EndPending, BeginBrackets, EndBrackets,
                      RefreshMarks, store
  <2> QED
    BY <1>3, <2>1, <2>2, <2>3, <2>4, <2>5 DEF Cycle
<1>4. CASE World
  BY <1>1, <1>4 DEF World, NewCandle, NewDay, Restart, store
<1>5. CASE UNCHANGED vars
  BY <1>1, <1>5 DEF vars, store
<1> QED
  BY <1>2, <1>3, <1>4, <1>5 DEF Next

\* What one symbol contributes to TrailNeverLoosens.
Tight(s) ==
    Protected(s) /\ IsHeld(s)' /\ Governing(s)' = Governing(s)
      => SideSign(positions[s].side) * (StopInForce(s)' - StopInForce(s)) >= 0

\* The stop does not loosen while the ticket, the side and the average stand and the
\* best close, if the ticket trails, gets better.
LEMMA TightWhile ==
    ASSUME VenueInv, NEW s \in Symbols,
           \A i \in Intents : intents'[i].ticket = intents[i].ticket,
           positions'[s] \in PositionRow,
           IsHeld(s) => /\ positions'[s].side = positions[s].side
                        /\ SideSign(positions[s].side) * (BestSoFar(s)' - BestSoFar(s)) >= 0
    PROVE  Tight(s)
<1> SUFFICES ASSUME Protected(s), Governing(s)' = Governing(s)
             PROVE  SideSign(positions[s].side) * (StopInForce(s)' - StopInForce(s)) >= 0
  BY DEF Tight
<1>1. /\ positions[s].side \in Sides /\ positions'[s].side = positions[s].side
      /\ BestSoFar(s) \in Int /\ BestSoFar(s)' \in Int
  BY DEF Protected, VenueInv, TypeOK, BestSoFar, PositionRow
<1>2. Governing(s) \in Intents
  BY <1>1, LatestFillTypes DEF Protected, Governing, VenueInv
<1>3. BracketOf(s) \in Ticket /\ BracketOf(s)' = BracketOf(s)
  BY <1>2, IntentFacts DEF BracketOf, VenueInv
<1>4. SideSign(positions[s].side) * (BestSoFar(s)' - BestSoFar(s)) >= 0
  BY DEF Protected
<1> QED
  BY <1>1, <1>3, <1>4, TighterStop DEF StopInForce

\* A step that leaves the position's side, average and best alone.
LEMMA TightFrame ==
    ASSUME VenueInv, VenueInv', NEW s \in Symbols,
           \A i \in Intents : intents'[i].ticket = intents[i].ticket,
           IsHeld(s) => /\ positions'[s].side = positions[s].side
                        /\ positions'[s].avg = positions[s].avg
                        /\ positions'[s].best = positions[s].best
    PROVE  Tight(s)
<1>1. positions'[s] \in PositionRow /\ positions[s] \in PositionRow
  BY DEF VenueInv, TypeOK
<1>2. BestSoFar(s) \in Int
  BY <1>1 DEF BestSoFar, PositionRow
<1>3. ASSUME IsHeld(s)
      PROVE  SideSign(positions[s].side) * (BestSoFar(s)' - BestSoFar(s)) >= 0
  <2>1. BestSoFar(s)' = BestSoFar(s)
    BY <1>3 DEF BestSoFar
  <2> QED
    BY <1>2, <2>1 DEF SideSign
<1> QED
  BY <1>1, <1>3, TightWhile

\* A bracket visit that leaves the position open ratchets its best close.
LEMMA TightLeaveOpen ==
    ASSUME VenueInv, VenueInv', NEW s \in held, LeaveOpen(s), NEW x \in Symbols
    PROVE  Tight(x)
<1>0. /\ s \in Symbols /\ positions \in [Symbols -> PositionRow]
      /\ IsHeld(s) /\ positions[s].side \in Sides /\ intents' = intents
  BY DEF VenueInv, TypeOK, WorkListsValid, LeaveOpen
<1>1. CASE ~Bracketed(s) \/ x # s
  <2>1. positions'[x] = positions[x]
    BY <1>0, <1>1 DEF LeaveOpen
  <2> QED
    BY <1>0, <2>1, TightFrame
<1>2. CASE Bracketed(s) /\ x = s
  <2>1. positions' = [positions EXCEPT ![s].best = BestNow(s)]
    BY <1>2 DEF LeaveOpen
  <2>2. /\ positions'[s].best = BestNow(s) /\ positions'[s].side = positions[s].side
        /\ positions'[s].avg = positions[s].avg
    BY <1>0, <2>1 DEF PositionRow
  <2>3. CASE BracketOf(s).trail = 0
    BY <1>0, <1>2, <2>2, <2>3, TightFrame DEF BestNow
  <2>4. CASE BracketOf(s).trail # 0
    <3>1. BestNow(s) = Better(Opposite(positions[s].side), seen[s], BestSoFar(s))
      BY <2>4 DEF BestNow, Ratchet, BestSoFar
    <3>2. seen[s] \in Nat \ {0}
      BY <1>0, <1>2, PricesAreNumbers DEF Bracketed, NoPrice, VenueInv, TypeOK
    <3>3. BestSoFar(s)' = IF BestNow(s) = NoPrice THEN positions[s].avg ELSE BestNow(s)
      BY <2>2 DEF BestSoFar
    <3>4. /\ positions[s].avg \in Int /\ positions[s].best \in Int
          /\ BestSoFar(s) = IF positions[s].best = NoPrice THEN positions[s].avg
                            ELSE positions[s].best
      BY <1>0 DEF BestSoFar, PositionRow
    <3>5. SideSign(positions[s].side) * (BestSoFar(s)' - BestSoFar(s)) >= 0
      BY <1>0, <3>1, <3>2, <3>3, <3>4
         DEF SideSign, Sides, Opposite, Better, NoWorse, NoPrice
    <3>6. positions'[s] \in PositionRow
      BY <1>0 DEF VenueInv, TypeOK
    <3> QED
      BY <1>0, <1>2, <2>2, <3>5, <3>6, TightWhile
  <2> QED
    BY <2>3, <2>4
<1> QED
  BY <1>1, <1>2

\* A fill that adds to a position or turns it round makes its own ticket the governing
\* one, which was not it before, so it falls under no promise; one that
\* closes a part leaves average and best.
LEMMA TightFillRow ==
    ASSUME VenueInv, VenueInv', FilledAreExecuted, NEW i \in rows, FillRow(i), NEW x \in Symbols
    PROVE  Tight(x)
<1> DEFINE t == intents[i].ticket
           price == ExecutedPrice(t, Latest(t, seen[t.symbol]))
<1>0. /\ i \in Intents /\ intents \in Seq(Intent) /\ t \in Ticket /\ t.symbol \in Symbols
      /\ t.side \in Sides /\ t.qty \in Nat \ {0} /\ positions \in [Symbols -> PositionRow]
      /\ intents[i].status = "pending"
  BY IntentFacts DEF VenueInv, TypeOK, WorkListsValid, Pending
<1>1. /\ positions' = [positions EXCEPT ![t.symbol] =
                          FilledPosition(positions[t.symbol], t.side, t.qty, price)]
      /\ intents' = [intents EXCEPT ![i] = Executed(@, price)]
      /\ fills' = Append(fills, i)
  BY DEF FillRow, ApplyFill
<1>2. Executed(intents[i], price).ticket = intents[i].ticket
  BY DEF Executed
<1> HIDE DEF price
<1>3. \A j \in Intents : intents'[j].ticket = intents[j].ticket
  BY <1>0, <1>1, <1>2 DEF Intents
<1>4. CASE x # t.symbol
  <2>1. positions'[x] = positions[x]
    BY <1>1, <1>4
  <2> QED
    BY <1>3, <2>1, TightFrame
<1>5. CASE x = t.symbol
  <2> DEFINE pos == positions[x]
  <2>0. t.side \in Sides /\ t.qty \in Nat \ {0}
    BY <1>0
  <2>1. pos \in PositionRow /\ positions'[x] = FilledPosition(pos, t.side, t.qty, price)
    BY <1>0, <1>1, <1>5
  <2>2. CASE pos.qty > 0 /\ pos.side # t.side /\ t.qty < pos.qty
    <3>1. positions'[x] = Holding(pos.side, pos.qty - t.qty, pos.avg, pos.best)
      BY <2>0, <2>1, <2>2, ReducedPosition
    <3>2. /\ positions'[x].side = pos.side /\ positions'[x].avg = pos.avg
          /\ positions'[x].best = pos.best
      BY <3>1 DEF Holding
    <3> QED
      BY <1>3, <3>2, TightFrame
  <2>3. CASE pos.qty > 0 /\ pos.side # t.side /\ t.qty = pos.qty
    <3>1. positions'[x] = Flat
      BY <2>0, <2>1, <2>3, ReducedPosition
    <3> QED
      BY <3>1 DEF Tight, IsHeld, Flat
  <2>4. CASE pos.qty > 0 /\ (pos.side = t.side \/ t.qty > pos.qty)
    <3>1. positions'[x].side = t.side
      BY <2>0, <2>1, <2>4, ReducedPosition
    <3>2. Governing(x)' = i
      <4> DEFINE found == {k \in DOMAIN fills : LET u == intents[fills[k]].ticket
                                IN  u.symbol = x /\ u.side = positions[x].side /\ AnyTicket(u)}
      <4>1. Governing(x)' = IF found' = {} THEN 0 ELSE fills'[Max(found')]
        BY DEF Governing, LatestFill
      <4>2. fills \in Seq(Nat \ {0}) /\ Len(fills) \in Nat
        BY DEF VenueInv, TypeOK
      <4>3. /\ DOMAIN fills' = 1..(Len(fills) + 1) /\ fills'[Len(fills) + 1] = i
            /\ Len(fills) + 1 \in 1..(Len(fills) + 1)
        BY <1>1, <4>2
      <4>4. intents'[i].ticket = t
        BY <1>0, <1>3
      <4>5. found' = {k \in DOMAIN fills' : LET u == intents'[fills'[k]].ticket
                         IN  u.symbol = x /\ u.side = positions'[x].side}
        BY DEF AnyTicket
      <4>6. Len(fills) + 1 \in found'
        BY <1>5, <3>1, <4>3, <4>4, <4>5
      <4>7. found' \subseteq 1..(Len(fills) + 1)
        BY <4>3, <4>5
      <4> HIDE DEF found
      <4>8. PICK F : F = found'
        OBVIOUS
      <4>9. PICK n \in Nat : n = Len(fills) + 1
        BY <4>2
      <4>10. F \subseteq 1..n /\ F # {} /\ n \in F
        BY <4>6, <4>7, <4>8, <4>9
      <4>11. Max(F) \in F /\ \A k \in F : Max(F) >= k
        BY <4>10, GreatestIndex
      <4>12. Max(F) = n
        <5>1. PICK m : m = Max(F)
          OBVIOUS
        <5>2. m \in 1..n /\ m >= n
          BY <4>10, <4>11, <5>1
        <5> QED
          BY <4>9, <5>1, <5>2
      <4> QED
        BY <4>1, <4>3, <4>6, <4>8, <4>9, <4>12
    <3>3. Governing(x) # i
      <4> DEFINE found == {k \in DOMAIN fills : LET u == intents[fills[k]].ticket
                                IN  u.symbol = x /\ u.side = positions[x].side /\ AnyTicket(u)}
      <4>1. Governing(x) = IF found = {} THEN 0 ELSE fills[Max(found)]
        BY DEF Governing, LatestFill
      <4>2. /\ DOMAIN fills = 1..Len(fills) /\ Len(fills) \in Nat
            /\ Range(fills) \subseteq Intents
        BY DEF VenueInv, TypeOK
      <4>3. found \subseteq 1..Len(fills)
        BY <4>2
      <4> HIDE DEF found
      <4>4. ASSUME found # {} PROVE Max(found) \in 1..Len(fills)
        BY <4>2, <4>3, <4>4, GreatestIndex
      <4>5. ASSUME found # {} PROVE intents[fills[Max(found)]].status = "executed"
        BY <4>2, <4>4, <4>5 DEF FilledAreExecuted, Range
      <4>6. i # 0
        BY <1>0 DEF Intents
      <4> QED
        BY <1>0, <4>1, <4>5, <4>6
    <3> QED
      BY <3>2, <3>3 DEF Tight
  <2>5. CASE pos.qty = 0
    BY <2>5 DEF Tight, Protected, IsHeld
  <2> QED
    BY <1>0, <2>1, <2>2, <2>3, <2>4, <2>5 DEF PositionRow
<1> QED
  BY <1>4, <1>5

\* No step loosens a stop.
LEMMA TightStep ==
    ASSUME VenueInv, VenueInv', FilledAreExecuted, [Next]_vars, NEW x \in Symbols
    PROVE  Tight(x)
<1>0. /\ intents \in Seq(Intent) /\ Intents = 1..Len(intents) /\ Len(intents) \in Nat
      /\ rows \subseteq Intents /\ positions \in [Symbols -> PositionRow]
      /\ held \subseteq Symbols /\ \A s \in held : IsHeld(s)
  BY DEF VenueInv, TypeOK, WorkListsValid, Intents
<1>1. ASSUME UNCHANGED <<intents, positions>> PROVE Tight(x)
  BY <1>1, TightFrame
<1>2. ASSUME UNCHANGED positions, \A i \in Intents : intents'[i].ticket = intents[i].ticket
      PROVE  Tight(x)
  BY <1>2, TightFrame
<1>3. CASE Handler
  <2>1. ASSUME NEW u \in Tickets, Submit(u) PROVE Tight(x)
    BY <1>0, <1>2, <2>1 DEF Submit
  <2>2. ASSUME NEW u \in LiveTickets, NEW filled \in BOOLEAN, RecordLive(u, filled)
        PROVE  Tight(x)
    <3>1. PICK row : intents' = Append(intents, row)
      BY <2>2 DEF RecordLive
    <3> QED
      BY <1>0, <1>2, <2>2, <3>1 DEF RecordLive
  <2>3. ASSUME NEW i \in Intents, Cancel(i) PROVE Tight(x)
    <3>1. intents' = [intents EXCEPT ![i].status = "cancelled"] /\ positions' = positions
      BY <2>3 DEF Cancel
    <3>2. intents[i] \in Intent
      BY <1>0
    <3>3. \A j \in Intents : intents'[j].ticket = intents[j].ticket
      BY <1>0, <3>1, <3>2 DEF Intent
    <3> QED
      BY <1>2, <3>1, <3>3
  <2>4. ASSUME NEW s \in Symbols, NEW asked \in 1..positions[s].qty, ClosePosition(s, asked)
        PROVE  Tight(x)
    <3> DEFINE qty == IF asked < positions[s].qty THEN asked ELSE positions[s].qty
               pos == positions[s]
    <3>1. /\ positions' = [positions EXCEPT ![s] =
                              FilledPosition(pos, Opposite(pos.side), qty, market[s])]
          /\ intents' = intents /\ IsHeld(s)
      BY <2>4 DEF ClosePosition, ApplyFill
    <3>2. /\ pos \in PositionRow /\ pos.side \in Sides /\ pos.qty \in Nat
          /\ asked \in Nat /\ asked >= 1 /\ asked <= pos.qty /\ pos.qty > 0
      <4>1. pos \in PositionRow
        BY <1>0
      <4>2. pos.qty \in Nat /\ pos.qty > 0
        BY <3>1, <4>1 DEF PositionRow, IsHeld
      <4>3. pos.side \in Sides
        BY <3>1 DEF VenueInv, TypeOK
      <4>4. asked \in 1..pos.qty
        OBVIOUS
      <4> HIDE DEF pos
      <4>5. asked \in Nat /\ asked >= 1 /\ asked <= pos.qty
        BY <4>2, <4>4
      <4> QED BY <4>1, <4>2, <4>3, <4>5
    <3>3. Opposite(pos.side) # pos.side
      BY <3>2, SideFacts
    <3>4. CASE x # s
      <4>1. positions'[x] = positions[x]
        BY <3>1, <3>4
      <4> QED
        BY <3>1, <4>1, TightFrame
    <3>5. CASE x = s /\ asked = pos.qty
      <4>1. positions'[s] = FilledPosition(pos, Opposite(pos.side), pos.qty, market[s])
        BY <1>0, <3>1, <3>2, <3>5
      <4>2. Opposite(pos.side) \in Sides /\ pos.qty \in Nat \ {0}
        BY <3>2, SideFacts
      <4>3. positions'[s] = Flat
        BY <3>2, <3>3, <4>1, <4>2, ReducedPosition
      <4> QED
        BY <3>5, <4>3 DEF Tight, IsHeld, Flat
    <3>6. CASE x = s /\ asked < pos.qty
      <4>1. positions'[s] = Holding(pos.side, pos.qty - asked, pos.avg, pos.best)
        <5>1. positions'[s] = FilledPosition(pos, Opposite(pos.side), asked, market[s])
          BY <1>0, <3>1, <3>2, <3>6
        <5>2. Opposite(pos.side) \in Sides /\ asked \in Nat \ {0}
          BY <3>2, SideFacts
        <5> QED
          BY <3>2, <3>3, <3>6, <5>1, <5>2, ReducedPosition
      <4>2. /\ positions'[s].side = pos.side /\ positions'[s].avg = pos.avg
            /\ positions'[s].best = pos.best
        BY <4>1 DEF Holding
      <4> QED
        BY <3>1, <3>6, <4>2, TightFrame
    <3> QED
      BY <3>2, <3>4, <3>5, <3>6
  <2>5. ASSUME NEW a \in PutAccounts, ReplaceAccount(a) PROVE Tight(x)
    BY <1>1, <2>5 DEF ReplaceAccount
  <2> QED
    BY <1>3, <2>1, <2>2, <2>3, <2>4, <2>5 DEF Handler
<1>4. CASE Cycle
  <2>1. ASSUME NEW i \in rows, ExpireRow(i) PROVE Tight(x)
    <3>1. intents' = [intents EXCEPT ![i].status = "expired"] /\ positions' = positions
      BY <2>1 DEF ExpireRow
    <3>2. intents[i] \in Intent
      BY <1>0
    <3>3. \A j \in Intents : intents'[j].ticket = intents[j].ticket
      BY <1>0, <3>1, <3>2 DEF Intent
    <3> QED
      BY <1>2, <3>1, <3>3
  <2>2. ASSUME NEW i \in rows, FillRow(i) PROVE Tight(x)
    BY <2>2, TightFillRow
  <2>3. ASSUME NEW s \in held, LeaveOpen(s) PROVE Tight(x)
    BY <2>3, TightLeaveOpen
  <2>4. ASSUME NEW s \in held, TakeExit(s) PROVE Tight(x)
    <3>1. positions' = [positions EXCEPT ![s] = Flat] /\ intents' = intents
      BY <2>4, ExitLeavesFlat DEF TakeExit
    <3>2. CASE x = s
      BY <1>0, <3>1, <3>2 DEF Tight, IsHeld, Flat
    <3>3. CASE x # s
      <4>1. positions'[x] = positions[x]
        BY <3>1, <3>3
      <4> QED
        BY <3>1, <4>1, TightFrame
    <3> QED
      BY <3>2, <3>3
  <2>5. ASSUME NEW i \in rows, SkipRow(i) PROVE Tight(x)
    BY <1>1, <2>5 DEF SkipRow, store
  <2>6. CASE StartCycle \/ BeginPending \/ EndPending \/ BeginBrackets \/ EndBrackets
    BY <1>1, <2>6 DEF StartCycle, BeginPending, EndPending, BeginBrackets, EndBrackets, store
  <2>7. CASE RefreshMarks
    <3>1. positions'[x] = Marked(x) /\ intents' = intents
      BY <2>7 DEF RefreshMarks
    <3>2. /\ positions'[x].side = positions[x].side /\ positions'[x].avg = positions[x].avg
          /\ positions'[x].best = positions[x].best
      BY <1>0, <3>1 DEF Marked, PositionRow
    <3> QED
      BY <3>1, <3>2, TightFrame
  <2> QED
    BY <1>4, <2>1, <2>2, <2>3, <2>4, <2>5, <2>6, <2>7 DEF Cycle
<1>5. CASE World
  BY <1>1, <1>5 DEF World, NewCandle, NewDay, Restart, store
<1>6. CASE UNCHANGED vars
  BY <1>1, <1>6 DEF vars, store
<1> QED
  BY <1>3, <1>4, <1>5, <1>6 DEF Next

\* As long as a position stays open under the same governing ticket, its stop in force
\* only tightens: through marks, partial closes, PUTs, restarts and whatever
\* orders are filled or recorded meanwhile.
THEOREM StopsNeverLoosen == Spec => TrailNeverLoosens
<1> DEFINE Tightens == \A s \in Symbols :
         Protected(s) /\ IsHeld(s)' /\ Governing(s)' = Governing(s)
         => SideSign(positions[s].side) * (StopInForce(s)' - StopInForce(s)) >= 0
<1>1. VenueInv /\ VenueInv' /\ FilledAreExecuted /\ [Next]_vars => [Tightens]_vars
  BY TightStep DEF Tight
<1>2. Init => FilledAreExecuted
  BY DEF Init, FilledAreExecuted, Range
<1>3. Spec => []FilledAreExecuted
  BY <1>2, VenueInvariant, ExecutedStep, PTL DEF Spec
<1> HIDE DEF Tightens
<1>4. Spec => [][Tightens]_vars
  BY <1>1, <1>3, VenueInvariant, PTL DEF Spec
<1> QED
  BY <1>4 DEF TrailNeverLoosens, Tightens

-----------------------------------------------------------------------------
(* What a step does to the orders and quantities a user sees.              *)

\* Nothing is seen of a step that leaves the orders alone.
LEMMA OrdersFrame ==
    ASSUME UNCHANGED intents
    PROVE  UNCHANGED <<OrderStatus, OrderTerms>>
BY DEF OrderStatus, OrderTerms, IsPaper, Intents

\* Nothing is seen of a step that changes neither side nor size of a position.
LEMMA ExposuresFrame ==
    ASSUME \A s \in Symbols : /\ positions'[s].side = positions[s].side
                              /\ positions'[s].qty = positions[s].qty
    PROVE  UNCHANGED Exposures
BY DEF Exposures, Exposure, SignedQty

\* Rewriting the row of a paper order changes its status and nothing else.
LEMMA OrdersRewrite ==
    ASSUME VenueInv, NEW i \in Intents, NEW row \in Intent,
           intents' = [intents EXCEPT ![i] = row],
           intents[i].mode = "paper", row.mode = "paper", row.ticket = intents[i].ticket
    PROVE  /\ i \in 1..MaxIntents
           /\ OrderStatus[i] = intents[i].status
           /\ OrderTerms[i] = TermsOf(intents[i].ticket)
           /\ OrderStatus' = [OrderStatus EXCEPT ![i] = row.status]
           /\ OrderTerms' = OrderTerms
<1>1. /\ intents \in Seq(Intent) /\ i \in 1..Len(intents)
      /\ Len(intents) \in Nat /\ Len(intents) <= MaxIntents /\ MaxIntents \in Nat
  BY IntentFacts, VenueAssumption DEF VenueInv, TypeOK, WorkListsValid
<1>2. i \in 1..MaxIntents
  BY <1>1
<1>3. Intents' = Intents /\ \A j \in Intents \ {i} : intents'[j] = intents[j]
  BY <1>1 DEF Intents
<1>4. intents'[i] = row
  BY <1>1
<1>5. \A j \in 1..MaxIntents : IsPaper(j)' <=> IsPaper(j)
  BY <1>3, <1>4 DEF IsPaper
<1>6. IsPaper(i)
  BY DEF IsPaper
<1>7. \A j \in 1..MaxIntents : j # i /\ IsPaper(j) => intents'[j] = intents[j]
  BY <1>3 DEF IsPaper
<1>8. OrderStatus' = [OrderStatus EXCEPT ![i] = row.status]
  <2>1. \A j \in 1..MaxIntents :
           (IF IsPaper(j)' THEN intents'[j].status ELSE "none")
             = IF j = i THEN row.status ELSE OrderStatus[j]
    BY <1>4, <1>5, <1>6, <1>7 DEF OrderStatus
  <2> QED
    BY <1>2, <2>1 DEF OrderStatus
<1>9. OrderTerms' = OrderTerms
  BY <1>2, <1>4, <1>5, <1>6, <1>7 DEF OrderTerms
<1> QED
  BY <1>2, <1>6, <1>8, <1>9 DEF OrderStatus, OrderTerms

\* Filing a paper order makes the next unused order pending on its terms; a row
\* recorded live is not seen.
LEMMA OrdersAppend ==
    ASSUME VenueInv, Len(intents) < MaxIntents, NEW row \in Intent,
           intents' = Append(intents, row)
    PROVE  LET o == Len(intents) + 1
           IN  /\ o \in 1..MaxIntents /\ OrderStatus[o] = "none"
               /\ row.mode # "paper" => UNCHANGED <<OrderStatus, OrderTerms>>
               /\ row.mode = "paper" =>
                    /\ OrderStatus' = [OrderStatus EXCEPT ![o] = row.status]
                    /\ OrderTerms' = [OrderTerms EXCEPT ![o] = TermsOf(row.ticket)]
<1>0. PICK o : o = Len(intents) + 1
  OBVIOUS
<1>1. intents \in Seq(Intent) /\ Len(intents) \in Nat /\ MaxIntents \in Nat
  BY VenueAssumption DEF VenueInv, TypeOK
<1>2. o \in 1..MaxIntents /\ o \notin Intents
  BY <1>0, <1>1 DEF Intents
<1>3. /\ Intents' = Intents \cup {o} /\ intents'[o] = row
      /\ \A j \in Intents : intents'[j] = intents[j]
  BY <1>0, <1>1, AppendProperties DEF Intents
<1>4. ~IsPaper(o) /\ (IsPaper(o)' <=> row.mode = "paper")
  BY <1>2, <1>3 DEF IsPaper
<1>5. \A j \in 1..MaxIntents : j # o => (IsPaper(j)' <=> IsPaper(j))
  BY <1>3 DEF IsPaper
<1>6. \A j \in 1..MaxIntents : j # o /\ IsPaper(j) => intents'[j] = intents[j]
  BY <1>3 DEF IsPaper
<1>7. OrderStatus[o] = "none"
  BY <1>2, <1>4 DEF OrderStatus
<1>8. ASSUME row.mode # "paper" PROVE UNCHANGED <<OrderStatus, OrderTerms>>
  <2>1. \A j \in 1..MaxIntents : IsPaper(j)' <=> IsPaper(j)
    BY <1>4, <1>5, <1>8
  <2>2. \A j \in 1..MaxIntents : IsPaper(j) => intents'[j] = intents[j]
    BY <1>4, <1>6
  <2> QED
    BY <2>1, <2>2 DEF OrderStatus, OrderTerms
<1>9. ASSUME row.mode = "paper"
      PROVE  /\ OrderStatus' = [OrderStatus EXCEPT ![o] = row.status]
             /\ OrderTerms' = [OrderTerms EXCEPT ![o] = TermsOf(row.ticket)]
  BY <1>2, <1>3, <1>4, <1>5, <1>6, <1>9 DEF OrderStatus, OrderTerms
<1> QED
  BY <1>0, <1>2, <1>7, <1>8, <1>9

\* A fill moves the quantity held in its symbol by its own signed quantity.
LEMMA ExposuresFill ==
    ASSUME VenueInv, NEW s \in Symbols, NEW side \in Sides, NEW qty \in Nat \ {0},
           NEW price \in Int, ApplyFill(s, side, qty, price)
    PROVE  Exposures' = [Exposures EXCEPT ![s] = @ + SideSign(side) * qty]
<1> DEFINE filled == FilledPosition(positions[s], side, qty, price)
<1>1. /\ positions \in [Symbols -> PositionRow]
      /\ positions[s].qty > 0 => positions[s].side \in Sides
  BY DEF VenueInv, TypeOK, IsHeld
<1>2. SignedQty(filled) = SignedQty(positions[s]) + SideSign(side) * qty
  BY <1>1, FillMovesExposure
<1>3. positions' = [positions EXCEPT ![s] = filled]
  BY DEF ApplyFill
<1> HIDE DEF filled
<1>4. \A x \in Symbols : SignedQty(positions'[x]) =
          IF x = s THEN SignedQty(positions[s]) + SideSign(side) * qty
          ELSE SignedQty(positions[x])
  BY <1>1, <1>2, <1>3
<1> QED
  BY <1>4 DEF Exposures, Exposure

\* Selling part or all of a position is a close of the promise.
LEMMA CloseMoves ==
    ASSUME VenueInv, NEW s \in Symbols, IsHeld(s), NEW qty \in Nat \ {0},
           qty <= positions[s].qty, NEW price \in Int,
           ApplyFill(s, Opposite(positions[s].side), qty, price), UNCHANGED intents
    PROVE  Promise!Close(s)
<1> DEFINE sign == SideSign(positions[s].side)
           left == Exposures[s] - sign * qty
<1>1. positions[s] \in PositionRow /\ positions[s].side \in Sides
  BY DEF VenueInv, TypeOK
<1>2. /\ positions[s].qty \in Nat \ {0} /\ sign \in {1, -1}
      /\ Opposite(positions[s].side) \in Sides
      /\ SideSign(Opposite(positions[s].side)) = -sign
  BY <1>1, SideFacts DEF PositionRow, IsHeld
<1>3. Exposures[s] = sign * positions[s].qty
  BY DEF Exposures, Exposure, SignedQty
<1>4. Exposures' = [Exposures EXCEPT ![s] = @ + (-sign) * qty]
  BY <1>2, ExposuresFill
<1> HIDE DEF sign
<1>5. left \in Promise!Reduced(Exposures[s]) /\ Exposures[s] # 0
  BY <1>2, <1>3 DEF Promise!Reduced
<1>6. Exposures[s] + (-sign) * qty = left
  BY <1>2, <1>3
<1> HIDE DEF left
<1>7. Exposures' = [Exposures EXCEPT ![s] = left]
  BY <1>4, <1>6
<1> QED
  BY <1>5, <1>7, OrdersFrame DEF Promise!Close

-----------------------------------------------------------------------------
(* Every step of the venue is a step of the promise or is not seen.        *)

PromiseStep == [Promise!Next]_(Promise!vars)

\* A step that changes neither orders nor quantities is not seen.
LEMMA Unseen ==
    ASSUME UNCHANGED <<intents, positions>>
    PROVE  PromiseStep
BY OrdersFrame, ExposuresFrame DEF PromiseStep, Promise!vars

\* Giving up a pending order, by expiry or by cancellation, retires it.
LEMMA RetireStep ==
    ASSUME VenueInv, NEW i \in Pending, NEW how \in {"expired", "cancelled"},
           intents' = [intents EXCEPT ![i].status = how], UNCHANGED positions
    PROVE  PromiseStep
<1> DEFINE row == [intents[i] EXCEPT !.status = how]
<1>1. /\ i \in Intents /\ intents[i] \in Intent
      /\ intents[i].status = "pending" /\ intents[i].mode = "paper"
  BY IntentFacts DEF VenueInv, WorkListsValid, Pending
<1>2. /\ row \in Intent /\ row.mode = "paper" /\ row.ticket = intents[i].ticket
      /\ row.status = how
  BY <1>1 DEF Intent
<1>3. intents' = [intents EXCEPT ![i] = row]
  OBVIOUS
<1> HIDE DEF row
<1>4. Promise!Retire(i, how)
  BY <1>1, <1>2, <1>3, OrdersRewrite, ExposuresFrame DEF Promise!Retire
<1> QED
  BY <1>1, <1>2, <1>3, <1>4, OrdersRewrite DEF PromiseStep, Promise!Next

\* Every handler places, retires or closes, or is not seen.
LEMMA HandlerStep ==
    ASSUME VenueInv, Handler PROVE PromiseStep
<1>0. day \in Nat
  BY DEF VenueInv, TypeOK
<1>1. ASSUME NEW t \in Tickets, Submit(t) PROVE PromiseStep
  <2> DEFINE o == Len(intents) + 1
             row == Unfilled(t, "paper", "pending")
  <2>1. row \in Intent /\ row.mode = "paper" /\ row.status = "pending" /\ row.ticket = t
    BY <1>0, TicketsAssumption DEF Unfilled, Intent, NoPrice, NoDay
  <2>2. intents' = Append(intents, row) /\ Len(intents) < MaxIntents /\ positions' = positions
    BY <1>1 DEF Submit
  <2> HIDE DEF row
  <2>3. /\ o \in 1..MaxIntents /\ OrderStatus[o] = "none"
        /\ OrderStatus' = [OrderStatus EXCEPT ![o] = "pending"]
        /\ OrderTerms' = [OrderTerms EXCEPT ![o] = TermsOf(t)]
    BY <2>1, <2>2, OrdersAppend
  <2> HIDE DEF o
  <2>4. Promise!Place(o, TermsOf(t))
    BY <2>2, <2>3, ExposuresFrame DEF Promise!Place
  <2> QED
    BY <2>3, <2>4 DEF PromiseStep, Promise!Next
<1>2. ASSUME NEW t \in LiveTickets, NEW filled \in BOOLEAN, RecordLive(t, filled)
      PROVE  PromiseStep
  <2> DEFINE open == Unfilled(t, "live", "submitted")
             done == Executed(open, t.entry)
  <2>1. t \in Ticket /\ t.entry \in Nat
    BY VenueAssumption DEF Ticket
  <2>2. open \in Intent /\ open.mode = "live" /\ done \in Intent /\ done.mode = "live"
    BY <1>0, <2>1 DEF Unfilled, Executed, Intent, NoPrice, NoDay
  <2>3. /\ intents' \in {Append(intents, open), Append(intents, done)}
        /\ Len(intents) < MaxIntents /\ positions' = positions
    BY <1>2 DEF RecordLive
  <2> HIDE DEF open, done
  <2>4. UNCHANGED <<OrderStatus, OrderTerms>>
    BY <2>2, <2>3, OrdersAppend
  <2> QED
    BY <2>3, <2>4, ExposuresFrame DEF PromiseStep, Promise!vars
<1>3. ASSUME NEW i \in Intents, Cancel(i) PROVE PromiseStep
  BY <1>3, RetireStep DEF Cancel, Pending
<1>4. ASSUME NEW s \in Symbols, NEW asked \in 1..positions[s].qty, ClosePosition(s, asked)
      PROVE  PromiseStep
  <2> DEFINE qty == IF asked < positions[s].qty THEN asked ELSE positions[s].qty
  <2>1. positions[s] \in PositionRow /\ IsHeld(s)
    BY <1>4 DEF VenueInv, TypeOK, ClosePosition
  <2>2. qty \in Nat \ {0} /\ qty <= positions[s].qty
    BY <2>1 DEF PositionRow, IsHeld
  <2>3. market[s] \in Int
    BY PricesAreNumbers DEF VenueInv, TypeOK
  <2>4. ApplyFill(s, Opposite(positions[s].side), qty, market[s]) /\ UNCHANGED intents
    BY <1>4 DEF ClosePosition
  <2> HIDE DEF qty
  <2>5. Promise!Close(s)
    BY <2>1, <2>2, <2>3, <2>4, CloseMoves
  <2> QED
    BY <2>5 DEF PromiseStep, Promise!Next
<1>5. ASSUME NEW a \in PutAccounts, ReplaceAccount(a) PROVE PromiseStep
  BY <1>5, Unseen DEF ReplaceAccount
<1> QED
  BY <1>1, <1>2, <1>3, <1>4, <1>5 DEF Handler

\* Filling a row fills the order.
LEMMA FillStep ==
    ASSUME VenueInv, NEW i \in rows, FillRow(i)
    PROVE  PromiseStep
<1> DEFINE t == intents[i].ticket
           price == ExecutedPrice(t, Latest(t, seen[t.symbol]))
           row == Executed(intents[i], price)
<1>1. /\ i \in Pending /\ i \in Intents /\ intents[i] \in Intent /\ day \in Nat
      /\ t.symbol \in Symbols /\ t.side \in Sides /\ t.qty \in Nat \ {0}
  BY IntentFacts DEF VenueInv, TypeOK, WorkListsValid
<1>2. intents[i].status = "pending" /\ intents[i].mode = "paper"
  BY <1>1 DEF VenueInv, WorkListsValid, Pending
<1>3. price \in Nat
  BY <1>1, RowPriceType DEF VenueInv
<1>4. row \in Intent /\ row.mode = "paper" /\ row.ticket = t /\ row.status = "executed"
  BY <1>1, <1>2, <1>3 DEF Executed, Intent
<1>5. intents' = [intents EXCEPT ![i] = row] /\ ApplyFill(t.symbol, t.side, t.qty, price)
  BY DEF FillRow
<1> HIDE DEF row, price
<1>6. Exposures' = [Exposures EXCEPT ![t.symbol] = @ + SideSign(t.side) * t.qty]
  BY <1>1, <1>3, <1>5, ExposuresFill
<1>7. /\ i \in 1..MaxIntents /\ OrderStatus[i] = "pending" /\ OrderTerms[i] = TermsOf(t)
      /\ OrderStatus' = [OrderStatus EXCEPT ![i] = "executed"] /\ OrderTerms' = OrderTerms
  BY <1>1, <1>2, <1>4, <1>5, OrdersRewrite
<1>8. OrderTerms[i].symbol = t.symbol /\ OrderTerms[i].amount = SideSign(t.side) * t.qty
  BY <1>7 DEF TermsOf, SignedQty
<1> HIDE DEF t
<1>9. Promise!Fill(i)
  BY <1>6, <1>7, <1>8 DEF Promise!Fill
<1> QED
  BY <1>7, <1>9 DEF PromiseStep, Promise!Next

\* A bracket exit closes the position.
LEMMA ExitStep ==
    ASSUME VenueInv, NEW s \in held, TakeExit(s)
    PROVE  PromiseStep
<1>1. /\ s \in Symbols /\ IsHeld(s) /\ Bracketed(s) /\ ExitNow(s) # NoExit
      /\ positions[s] \in PositionRow
  BY DEF VenueInv, TypeOK, WorkListsValid, TakeExit
<1>2. positions[s].qty \in Nat \ {0} /\ positions[s].qty <= positions[s].qty
  BY <1>1 DEF PositionRow, IsHeld
<1>3. ExitNow(s).price \in Int
  BY <1>1, VisitTypes DEF VenueInv
<1>4. ApplyFill(s, Opposite(positions[s].side), positions[s].qty, ExitNow(s).price)
      /\ UNCHANGED intents
  BY DEF TakeExit
<1>5. Promise!Close(s)
  BY <1>1, <1>2, <1>3, <1>4, CloseMoves
<1> QED
  BY <1>1, <1>5 DEF PromiseStep, Promise!Next

\* The other steps of the job retire orders or touch best closes and marks only.
LEMMA CycleStep ==
    ASSUME VenueInv, Cycle PROVE PromiseStep
<1>0. positions \in [Symbols -> PositionRow] /\ rows \subseteq Pending /\ held \subseteq Symbols
  BY DEF VenueInv, TypeOK, WorkListsValid
<1>1. ASSUME NEW i \in rows, ExpireRow(i) PROVE PromiseStep
  BY <1>0, <1>1, RetireStep DEF ExpireRow
<1>2. ASSUME NEW i \in rows, SkipRow(i) PROVE PromiseStep
  BY <1>2, Unseen DEF SkipRow, store
<1>3. ASSUME \A s \in Symbols : /\ positions'[s].side = positions[s].side
                                /\ positions'[s].qty = positions[s].qty,
             UNCHANGED intents
      PROVE  PromiseStep
  BY <1>3, OrdersFrame, ExposuresFrame DEF PromiseStep, Promise!vars
<1>4. ASSUME NEW s \in held, LeaveOpen(s) PROVE PromiseStep
  <2>1. CASE Bracketed(s)
    <3>1. positions' = [positions EXCEPT ![s].best = BestNow(s)] /\ UNCHANGED intents
      BY <1>4, <2>1 DEF LeaveOpen
    <3> QED
      BY <1>0, <1>3, <3>1 DEF PositionRow
  <2>2. CASE ~Bracketed(s)
    BY <1>4, <2>2, Unseen DEF LeaveOpen
  <2> QED
    BY <2>1, <2>2
<1>5. CASE RefreshMarks
  <2>1. ASSUME NEW s \in Symbols
        PROVE  Marked(s).side = positions[s].side /\ Marked(s).qty = positions[s].qty
    BY <1>0 DEF Marked, PositionRow
  <2>2. positions' = [s \in Symbols |-> Marked(s)] /\ UNCHANGED intents
    BY <1>5 DEF RefreshMarks
  <2> QED
    BY <1>3, <2>1, <2>2
<1>6. CASE StartCycle \/ BeginPending \/ EndPending \/ BeginBrackets \/ EndBrackets
  BY <1>6, Unseen
     DEF StartCycle, BeginPending, EndPending, BeginBrackets, EndBrackets, store
<1> QED
  BY <1>1, <1>2, <1>4, <1>5, <1>6, FillStep, ExitStep DEF Cycle

\* The venue starts as the promise does.
LEMMA PromiseInit == Init => Promise!Init
<1> SUFFICES ASSUME Init PROVE Promise!Init
  OBVIOUS
<1>1. Intents = {} /\ positions = [s \in Symbols |-> Flat]
  BY DEF Init, Intents
<1>2. \A i \in 1..MaxIntents : ~IsPaper(i)
  BY <1>1 DEF IsPaper
<1>3. \A s \in Symbols : Exposure(s) = 0
  <2>1. SignedQty(Flat) = 0
    BY DEF SignedQty, SideSign, Flat
  <2> QED
    BY <1>1, <2>1 DEF Exposure
<1> QED
  BY <1>2, <1>3 DEF Promise!Init, Promise!NoTerms, OrderStatus, OrderTerms, Exposures

\* The venue implements the promise: every order settles at most once and for
\* good, and what is held moves only by fills of pending orders and by closes
\* towards zero.
THEOREM VenueKeepsPromise == Spec => KeepsPromise
<1>1. VenueInv /\ [Next]_vars => PromiseStep
  <2> SUFFICES ASSUME VenueInv, [Next]_vars PROVE PromiseStep
    OBVIOUS
  <2>1. CASE World
    BY <2>1, Unseen DEF World, NewCandle, NewDay, Restart, store
  <2>2. CASE UNCHANGED vars
    BY <2>2, Unseen DEF vars, store
  <2> QED
    BY <2>1, <2>2, HandlerStep, CycleStep DEF Next
<1>2. VenueInv /\ [Next]_vars => [Promise!Next]_(Promise!vars)
  BY <1>1 DEF PromiseStep
<1> QED
  BY <1>2, PromiseInit, VenueInvariant, PTL DEF Spec, KeepsPromise, Promise!Spec

-----------------------------------------------------------------------------
(* The books.                                                              *)

\* The sums the properties are stated with.
Results == LedgerSum(ClosurePnl, LAMBDA row : TRUE)
ClosedNet(s) == LedgerSum(SignedQty, LAMBDA row : row.symbol = s)
ClosedOn(s, side) == LedgerSum(LAMBDA row : row.qty, LAMBDA row : row.symbol = s /\ row.side = side)
BoughtNet(s) == ExecutedSum(SignedQty, LAMBDA t : t.symbol = s)
BoughtOn(s, side) == ExecutedSum(LAMBDA t : t.qty, LAMBDA t : t.symbol = s /\ t.side = side)
HeldOn(pos, side) == IF pos.side = side THEN pos.qty ELSE 0

\* What is closed on a side and what is still held there were both opened there.
NothingOverclosed ==
    \A s \in Symbols, side \in Sides :
        ClosedOn(s, side) + HeldOn(positions[s], side) <= BoughtOn(s, side)
BooksInv == RealizedMatchesLedger /\ PositionsExplained /\ NothingOverclosed

\* A ledger row counts for a number.
LEMMA ClosureNumbers ==
    ASSUME NEW row \in Closure
    PROVE  /\ ClosurePnl(row) \in Int /\ SignedQty(row) \in Int /\ row.qty \in Nat
           /\ SideSign(row.side) \in {1, -1}
<1>1. row.qty \in Nat /\ row.entry \in Int /\ row.exit \in Int /\ SideSign(row.side) \in {1, -1}
  BY DEF Closure, SideSign
<1>2. (row.exit - row.entry) * row.qty \in Int
  BY <1>1
<1> QED
  BY <1>1, <1>2 DEF ClosurePnl, Pnl, SignedQty

\* A row appended to the ledger adds to each sum what it counts for there.
LEMMA LedgerGrows ==
    ASSUME TypeOK, NEW row \in Closure, ledger' = Append(ledger, row)
    PROVE  /\ Results' = Results + ClosurePnl(row)
           /\ \A s \in Symbols :
                 ClosedNet(s)' = ClosedNet(s) + (IF row.symbol = s THEN SignedQty(row) ELSE 0)
           /\ \A s \in Symbols, side \in Sides :
                 ClosedOn(s, side)' = ClosedOn(s, side)
                   + (IF row.symbol = s /\ row.side = side THEN row.qty ELSE 0)
<1> DEFINE n == Len(ledger)
<1>1. /\ ledger \in Seq(Closure) /\ ledger' \in Seq(Closure)
      /\ ledger'[n + 1] = row /\ \A k \in DOMAIN ledger : ledger'[k] = ledger[k]
      /\ n \in Nat /\ DOMAIN ledger = 1..n /\ DOMAIN ledger' = 1..(n + 1)
  BY AppendProperties DEF TypeOK
<1>2. /\ \A k \in DOMAIN ledger : ledger[k] \in Closure
      /\ \A k \in DOMAIN ledger' : ledger'[k] \in Closure
  BY <1>1
<1> HIDE DEF n
<1>3. Results' = Results + ClosurePnl(row)
  <2> DEFINE f == [k \in DOMAIN ledger |-> ClosurePnl(ledger[k])]
             g == [k \in DOMAIN ledger' |-> ClosurePnl(ledger'[k])]
  <2>1. f \in [1..n -> Int] /\ g \in [1..(n + 1) -> Int]
    BY <1>1, <1>2, ClosureNumbers
  <2>2. \A k \in 1..n : g[k] = f[k]
    BY <1>1
  <2>3. g[n + 1] = ClosurePnl(row)
    BY <1>1
  <2>4. Results = SumFunction(f) /\ Results' = SumFunction(g)
    BY DEF Results, LedgerSum, ClosurePnl
  <2> HIDE DEF f, g
  <2>5. n \in Nat
    BY <1>1
  <2>6. SumFunction(g) = SumFunction(f) + g[n + 1]
    BY <2>1, <2>2, <2>5, SumAppend
  <2> QED
    BY <2>3, <2>4, <2>6
<1>4. ASSUME NEW s \in Symbols
      PROVE  ClosedNet(s)' = ClosedNet(s) + (IF row.symbol = s THEN SignedQty(row) ELSE 0)
  <2> DEFINE f == [k \in DOMAIN ledger |->
                     IF ledger[k].symbol = s THEN SignedQty(ledger[k]) ELSE 0]
             g == [k \in DOMAIN ledger' |->
                     IF ledger'[k].symbol = s THEN SignedQty(ledger'[k]) ELSE 0]
  <2>1. f \in [1..n -> Int] /\ g \in [1..(n + 1) -> Int]
    BY <1>1, <1>2, ClosureNumbers
  <2>2. \A k \in 1..n : g[k] = f[k]
    BY <1>1
  <2>3. g[n + 1] = IF row.symbol = s THEN SignedQty(row) ELSE 0
    BY <1>1
  <2>4. ClosedNet(s) = SumFunction(f) /\ ClosedNet(s)' = SumFunction(g)
    BY DEF ClosedNet, LedgerSum
  <2> HIDE DEF f, g
  <2>5. n \in Nat
    BY <1>1
  <2>6. SumFunction(g) = SumFunction(f) + g[n + 1]
    BY <2>1, <2>2, <2>5, SumAppend
  <2> QED
    BY <2>3, <2>4, <2>6
<1>5. ASSUME NEW s \in Symbols, NEW side \in Sides
      PROVE  ClosedOn(s, side)' = ClosedOn(s, side)
               + (IF row.symbol = s /\ row.side = side THEN row.qty ELSE 0)
  <2> DEFINE f == [k \in DOMAIN ledger |->
                     IF ledger[k].symbol = s /\ ledger[k].side = side THEN ledger[k].qty ELSE 0]
             g == [k \in DOMAIN ledger' |->
                     IF ledger'[k].symbol = s /\ ledger'[k].side = side
                     THEN ledger'[k].qty ELSE 0]
  <2>1. f \in [1..n -> Int] /\ g \in [1..(n + 1) -> Int]
    BY <1>1, <1>2, ClosureNumbers
  <2>2. \A k \in 1..n : g[k] = f[k]
    BY <1>1
  <2>3. g[n + 1] = IF row.symbol = s /\ row.side = side THEN row.qty ELSE 0
    BY <1>1
  <2>4. ClosedOn(s, side) = SumFunction(f) /\ ClosedOn(s, side)' = SumFunction(g)
    BY DEF ClosedOn, LedgerSum
  <2> HIDE DEF f, g
  <2>5. n \in Nat
    BY <1>1
  <2>6. SumFunction(g) = SumFunction(f) + g[n + 1]
    BY <2>1, <2>2, <2>5, SumAppend
  <2> QED
    BY <2>3, <2>4, <2>6
<1> QED
  BY <1>3, <1>4, <1>5

\* A row of paper_trade_intents counts for a number.
LEMMA TicketNumbers ==
    ASSUME NEW row \in Intent
    PROVE  SignedQty(row.ticket) \in Int /\ row.ticket.qty \in Nat
BY DEF Intent, Ticket, SignedQty, SideSign

\* What a row counts for in the two sums over orders.
NetOf(row, s) == IF IsExecuted(row) /\ row.ticket.symbol = s THEN SignedQty(row.ticket) ELSE 0
QtyOf(row, s, side) ==
    IF IsExecuted(row) /\ row.ticket.symbol = s /\ row.ticket.side = side
    THEN row.ticket.qty ELSE 0

\* A step that leaves the orders alone leaves the sums over them alone.
LEMMA BoughtFrame ==
    ASSUME UNCHANGED intents
    PROVE  /\ \A s : BoughtNet(s)' = BoughtNet(s)
           /\ \A s, side : BoughtOn(s, side)' = BoughtOn(s, side)
BY DEF BoughtNet, BoughtOn, ExecutedSum, Intents, IsExecuted

\* So does filing a row that is not an executed paper order.
LEMMA BoughtAppend ==
    ASSUME TypeOK, NEW row \in Intent, intents' = Append(intents, row), ~IsExecuted(row)
    PROVE  /\ \A s : BoughtNet(s)' = BoughtNet(s)
           /\ \A s, side : BoughtOn(s, side)' = BoughtOn(s, side)
<1> DEFINE n == Len(intents)
<1>1. /\ intents \in Seq(Intent) /\ intents' \in Seq(Intent)
      /\ n \in Nat /\ DOMAIN intents = 1..n /\ DOMAIN intents' = 1..(n + 1)
      /\ intents'[n + 1] = row /\ \A k \in DOMAIN intents : intents'[k] = intents[k]
  BY AppendProperties DEF TypeOK
<1>2. /\ \A k \in DOMAIN intents : intents[k] \in Intent
      /\ \A k \in DOMAIN intents' : intents'[k] \in Intent
  BY <1>1
<1> HIDE DEF n
<1>3. ASSUME NEW s PROVE BoughtNet(s)' = BoughtNet(s)
  <2> DEFINE f == [k \in DOMAIN intents |-> NetOf(intents[k], s)]
             g == [k \in DOMAIN intents' |-> NetOf(intents'[k], s)]
  <2>1. f \in [1..n -> Int] /\ g \in [1..(n + 1) -> Int]
    BY <1>1, <1>2, TicketNumbers DEF NetOf
  <2>2. (\A k \in 1..n : g[k] = f[k]) /\ g[n + 1] = 0
    <3>1. \A k \in 1..n : g[k] = f[k]
      BY <1>1
    <3>2. NetOf(row, s) = 0
      BY DEF NetOf
    <3>3. g[n + 1] = 0
      BY <1>1, <3>2
    <3> QED
      BY <3>1, <3>3
  <2>3. BoughtNet(s) = SumFunction(f) /\ BoughtNet(s)' = SumFunction(g)
    BY DEF BoughtNet, ExecutedSum, NetOf, Intents
  <2>4. IsFiniteSet(1..n)
    BY <1>1, FS_Interval
  <2> HIDE DEF f, g
  <2>5. SumFunction(f) \in Int
    BY <2>1, <2>4, SumType
  <2>6. n \in Nat
    BY <1>1
  <2>7. SumFunction(g) = SumFunction(f) + g[n + 1]
    BY <2>1, <2>2, <2>6, SumAppend
  <2> QED
    BY <2>2, <2>3, <2>5, <2>7
<1>4. ASSUME NEW s, NEW side PROVE BoughtOn(s, side)' = BoughtOn(s, side)
  <2> DEFINE f == [k \in DOMAIN intents |-> QtyOf(intents[k], s, side)]
             g == [k \in DOMAIN intents' |-> QtyOf(intents'[k], s, side)]
  <2>1. f \in [1..n -> Int] /\ g \in [1..(n + 1) -> Int]
    BY <1>1, <1>2, TicketNumbers DEF QtyOf
  <2>2. (\A k \in 1..n : g[k] = f[k]) /\ g[n + 1] = 0
    <3>1. \A k \in 1..n : g[k] = f[k]
      BY <1>1
    <3>2. QtyOf(row, s, side) = 0
      BY DEF QtyOf
    <3>3. g[n + 1] = 0
      BY <1>1, <3>2
    <3> QED
      BY <3>1, <3>3
  <2>3. BoughtOn(s, side) = SumFunction(f) /\ BoughtOn(s, side)' = SumFunction(g)
    BY DEF BoughtOn, ExecutedSum, QtyOf, Intents
  <2>4. IsFiniteSet(1..n)
    BY <1>1, FS_Interval
  <2> HIDE DEF f, g
  <2>5. SumFunction(f) \in Int
    BY <2>1, <2>4, SumType
  <2>6. n \in Nat
    BY <1>1
  <2>7. SumFunction(g) = SumFunction(f) + g[n + 1]
    BY <2>1, <2>2, <2>6, SumAppend
  <2> QED
    BY <2>2, <2>3, <2>5, <2>7
<1> QED
  BY <1>3, <1>4

\* Rewriting a row moves each sum by the difference of what the row counts for.
LEMMA BoughtRewrite ==
    ASSUME TypeOK, NEW i \in Intents, NEW row \in Intent,
           intents' = [intents EXCEPT ![i] = row]
    PROVE  /\ \A s : BoughtNet(s)' = BoughtNet(s) - NetOf(intents[i], s) + NetOf(row, s)
           /\ \A s, side : BoughtOn(s, side)' =
                 BoughtOn(s, side) - QtyOf(intents[i], s, side) + QtyOf(row, s, side)
<1>1. /\ intents \in Seq(Intent) /\ Intents = DOMAIN intents /\ DOMAIN intents' = DOMAIN intents
      /\ intents'[i] = row /\ \A k \in DOMAIN intents \ {i} : intents'[k] = intents[k]
      /\ Intents' = DOMAIN intents
  BY DEF TypeOK, Intents
<1>2. /\ \A k \in DOMAIN intents : intents[k] \in Intent /\ intents'[k] \in Intent
  BY <1>1
<1>3. IsFiniteSet(DOMAIN intents) /\ i \in DOMAIN intents
  BY <1>1, FS_Interval
<1>4. ASSUME NEW s
      PROVE  BoughtNet(s)' = BoughtNet(s) - NetOf(intents[i], s) + NetOf(row, s)
  <2> DEFINE f == [k \in DOMAIN intents |-> NetOf(intents[k], s)]
             g == [k \in DOMAIN intents |-> NetOf(intents'[k], s)]
  <2>1. f \in [DOMAIN intents -> Int] /\ g \in [DOMAIN intents -> Int]
    BY <1>2, TicketNumbers DEF NetOf
  <2>2. /\ \A k \in DOMAIN intents \ {i} : g[k] = f[k]
        /\ f[i] = NetOf(intents[i], s) /\ g[i] = NetOf(row, s)
    BY <1>1, <1>3
  <2>3. BoughtNet(s) = SumFunction(f) /\ BoughtNet(s)' = SumFunction(g)
    BY <1>1 DEF BoughtNet, ExecutedSum, NetOf
  <2> HIDE DEF f, g
  <2> QED
    BY <1>3, <2>1, <2>2, <2>3, SumChange
<1>5. ASSUME NEW s, NEW side
      PROVE  BoughtOn(s, side)' =
               BoughtOn(s, side) - QtyOf(intents[i], s, side) + QtyOf(row, s, side)
  <2> DEFINE f == [k \in DOMAIN intents |-> QtyOf(intents[k], s, side)]
             g == [k \in DOMAIN intents |-> QtyOf(intents'[k], s, side)]
  <2>1. f \in [DOMAIN intents -> Int] /\ g \in [DOMAIN intents -> Int]
    BY <1>2, TicketNumbers DEF QtyOf
  <2>2. /\ \A k \in DOMAIN intents \ {i} : g[k] = f[k]
        /\ f[i] = QtyOf(intents[i], s, side) /\ g[i] = QtyOf(row, s, side)
    BY <1>1, <1>3
  <2>3. BoughtOn(s, side) = SumFunction(f) /\ BoughtOn(s, side)' = SumFunction(g)
    BY <1>1 DEF BoughtOn, ExecutedSum, QtyOf
  <2> HIDE DEF f, g
  <2> QED
    BY <1>3, <2>1, <2>2, <2>3, SumChange
<1> QED
  BY <1>4, <1>5

\* The sums are numbers.
LEMMA BooksNumbers ==
    ASSUME TypeOK
    PROVE  /\ Results \in Int
           /\ \A s : ClosedNet(s) \in Int /\ BoughtNet(s) \in Int
           /\ \A s, side : ClosedOn(s, side) \in Int /\ BoughtOn(s, side) \in Int
<1>1. /\ IsFiniteSet(DOMAIN ledger) /\ \A k \in DOMAIN ledger : ledger[k] \in Closure
      /\ IsFiniteSet(Intents) /\ \A i \in Intents : intents[i] \in Intent
  <2>1. DOMAIN ledger = 1..Len(ledger) /\ Len(ledger) \in Nat
    BY DEF TypeOK
  <2>2. Intents = 1..Len(intents) /\ Len(intents) \in Nat
    BY DEF TypeOK, Intents
  <2>3. IsFiniteSet(1..Len(ledger)) /\ IsFiniteSet(1..Len(intents))
    BY <2>1, <2>2, FS_Interval
  <2>4. IsFiniteSet(DOMAIN ledger) /\ IsFiniteSet(Intents)
    BY <2>1, <2>2, <2>3
  <2> QED
    BY <2>1, <2>2, <2>4 DEF TypeOK, Intents
<1>2. Results \in Int
  <2> DEFINE f == [k \in DOMAIN ledger |-> ClosurePnl(ledger[k])]
  <2>1. f \in [DOMAIN ledger -> Int] /\ Results = SumFunction(f)
    BY <1>1, ClosureNumbers DEF Results, LedgerSum
  <2> HIDE DEF f
  <2> QED
    BY <1>1, <2>1, SumType
<1>3. ASSUME NEW s PROVE ClosedNet(s) \in Int
  <2> DEFINE f == [k \in DOMAIN ledger |->
                     IF ledger[k].symbol = s THEN SignedQty(ledger[k]) ELSE 0]
  <2>1. f \in [DOMAIN ledger -> Int] /\ ClosedNet(s) = SumFunction(f)
    BY <1>1, ClosureNumbers DEF ClosedNet, LedgerSum
  <2> HIDE DEF f
  <2> QED
    BY <1>1, <2>1, SumType
<1>4. ASSUME NEW s PROVE BoughtNet(s) \in Int
  <2> DEFINE f == [i \in Intents |-> NetOf(intents[i], s)]
  <2>1. f \in [Intents -> Int] /\ BoughtNet(s) = SumFunction(f)
    BY <1>1, TicketNumbers DEF BoughtNet, ExecutedSum, NetOf
  <2> HIDE DEF f
  <2> QED
    BY <1>1, <2>1, SumType
<1>5. ASSUME NEW s, NEW side PROVE ClosedOn(s, side) \in Int
  <2> DEFINE f == [k \in DOMAIN ledger |->
                     IF ledger[k].symbol = s /\ ledger[k].side = side THEN ledger[k].qty ELSE 0]
  <2>1. f \in [DOMAIN ledger -> Int] /\ ClosedOn(s, side) = SumFunction(f)
    BY <1>1, ClosureNumbers DEF ClosedOn, LedgerSum
  <2> HIDE DEF f
  <2> QED
    BY <1>1, <2>1, SumType
<1>6. ASSUME NEW s, NEW side PROVE BoughtOn(s, side) \in Int
  <2> DEFINE f == [i \in Intents |-> QtyOf(intents[i], s, side)]
  <2>1. f \in [Intents -> Int] /\ BoughtOn(s, side) = SumFunction(f)
    BY <1>1, TicketNumbers DEF BoughtOn, ExecutedSum, QtyOf
  <2> HIDE DEF f
  <2> QED
    BY <1>1, <2>1, SumType
<1> QED
  BY <1>2, <1>3, <1>4, <1>5, <1>6

\* What a fill leaves on each side: it adds at most its quantity on its own side
\* and takes what it closes from the other.
LEMMA HeldAfterFill ==
    ASSUME NEW pos \in PositionRow, NEW side \in Sides, NEW qty \in Nat \ {0}, NEW price \in Int,
           pos.qty > 0 => pos.side \in Sides, NEW x \in Sides,
           NEW filled, filled = FilledPosition(pos, side, qty, price)
    PROVE  /\ HeldOn(filled, x) \in Nat /\ HeldOn(pos, x) \in Nat
           /\ x = side => HeldOn(filled, x) <= HeldOn(pos, x) + Opening(pos, side, qty)
           /\ x # side => HeldOn(filled, x) = HeldOn(pos, x) - Closing(pos, side, qty)
<1>1. CASE pos.qty = 0
  BY <1>1 DEF FilledPosition, Holding, Opened, PositionRow, HeldOn, Opening, Closing
<1>2. CASE pos.qty > 0 /\ pos.side = side
  BY <1>2 DEF FilledPosition, Holding, PositionRow, HeldOn, Opening, Closing
<1>3. CASE pos.qty > 0 /\ pos.side # side
  BY <1>3 DEF FilledPosition, Holding, Opened, Flat, PositionRow, HeldOn, Opening, Closing, Sides
<1> QED
  BY <1>1, <1>2, <1>3 DEF PositionRow

\* The parts of the books, in terms of the sums.
LEMMA BooksParts ==
    /\ RealizedMatchesLedger <=> account.realizedPnl = offbook.pnl + Results
    /\ PositionsExplained <=>
          \A s \in Symbols : SignedQty(positions[s]) = BoughtNet(s) - ClosedNet(s)
    /\ NothingOverclosed =>  NeverOverclosed \/ ~TypeOK
<1>1. RealizedMatchesLedger <=> account.realizedPnl = offbook.pnl + Results
  BY DEF RealizedMatchesLedger, Results
<1>2. PositionsExplained <=>
          \A s \in Symbols : SignedQty(positions[s]) = BoughtNet(s) - ClosedNet(s)
  BY DEF PositionsExplained, Exposure, BoughtNet, ClosedNet
<1>3. ASSUME NothingOverclosed, TypeOK PROVE NeverOverclosed
  <2>1. ASSUME NEW s \in Symbols, NEW side \in Sides
        PROVE  ClosedOn(s, side) <= BoughtOn(s, side)
    <3>1. HeldOn(positions[s], side) \in Nat
      BY <1>3 DEF HeldOn, TypeOK, PositionRow
    <3>2. ClosedOn(s, side) + HeldOn(positions[s], side) <= BoughtOn(s, side)
      BY <1>3 DEF NothingOverclosed
    <3> QED
      BY <1>3, <3>1, <3>2, BooksNumbers
  <2> QED
    BY <2>1 DEF NeverOverclosed, ClosedOn, BoughtOn
<1> QED
  BY <1>1, <1>2, <1>3

\* A step that neither books a result nor moves a quantity keeps the books.
LEMMA BooksFrame ==
    ASSUME TypeOK, BooksInv, UNCHANGED ledger,
           \A s : BoughtNet(s)' = BoughtNet(s),
           \A s, side : BoughtOn(s, side)' = BoughtOn(s, side),
           \A s \in Symbols : /\ positions'[s].side = positions[s].side
                              /\ positions'[s].qty = positions[s].qty,
           account'.realizedPnl - offbook'.pnl = account.realizedPnl - offbook.pnl,
           account'.realizedPnl \in Int, offbook'.pnl \in Int
    PROVE  BooksInv'
<1>1. /\ Results' = Results /\ \A s : ClosedNet(s)' = ClosedNet(s)
      /\ \A s, side : ClosedOn(s, side)' = ClosedOn(s, side)
  BY DEF Results, ClosedNet, ClosedOn, LedgerSum
<1>2. RealizedMatchesLedger'
  <2>1. Results \in Int /\ account.realizedPnl \in Int /\ offbook.pnl \in Int
    BY BooksNumbers DEF TypeOK
  <2>2. account.realizedPnl = offbook.pnl + Results
    BY DEF BooksInv, RealizedMatchesLedger, Results
  <2>3. account'.realizedPnl = offbook'.pnl + Results'
    BY <1>1, <2>1, <2>2
  <2> QED
    BY <2>3 DEF RealizedMatchesLedger, Results
<1>3. PositionsExplained'
  <2>1. ASSUME NEW s \in Symbols
        PROVE  Exposure(s)' = BoughtNet(s)' - ClosedNet(s)'
    <3>1. Exposure(s)' = Exposure(s)
      BY DEF Exposure, SignedQty
    <3>2. Exposure(s) = BoughtNet(s) - ClosedNet(s)
      BY DEF BooksInv, PositionsExplained, BoughtNet, ClosedNet
    <3> QED
      BY <1>1, <3>1, <3>2
  <2> QED
    BY <2>1 DEF PositionsExplained, BoughtNet, ClosedNet
<1>4. NothingOverclosed'
  BY <1>1 DEF BooksInv, NothingOverclosed, HeldOn
<1> QED
  BY <1>2, <1>3, <1>4 DEF BooksInv

\* A manual close or a bracket exit: the fill and the ledger row agree.
LEMMA BooksClose ==
    ASSUME TypeOK, BooksInv, NEW s \in Symbols, IsHeld(s),
           NEW qty \in 1..positions[s].qty, NEW exit \in Int,
           NEW kind \in {"stop", "target", "manual"},
           ApplyFill(s, Opposite(positions[s].side), qty, exit),
           ledger' = Append(ledger, ClosureRow(s, qty, exit, kind)),
           UNCHANGED <<intents, offbook>>
    PROVE  BooksInv'
<1> DEFINE pos == positions[s]
           side == Opposite(pos.side)
           row == ClosureRow(s, qty, exit, kind)
           filled == FilledPosition(pos, side, qty, exit)
<1>1. /\ pos \in PositionRow /\ pos.side \in Sides /\ pos.qty \in Nat /\ pos.qty > 0
      /\ pos.avg \in Int /\ qty \in Nat \ {0} /\ qty <= pos.qty
      /\ positions \in [Symbols -> PositionRow]
  BY DEF TypeOK, IsHeld, PositionRow
<1>2. side \in Sides /\ side # pos.side /\ SideSign(side) = -SideSign(pos.side)
      /\ SideSign(pos.side) \in {1, -1}
  BY <1>1, SideFacts
<1>3. row \in Closure /\ row.symbol = s /\ row.side = pos.side /\ row.qty = qty
      /\ row.entry = pos.avg /\ row.exit = exit
  <2>1. exit \in Int /\ qty \in Nat \ {0}
    BY <1>1
  <2>2. row \in Closure
    BY <2>1, ClosureRowType
  <2> QED
    BY <2>2 DEF ClosureRow
<1>4. Closing(pos, side, qty) = qty /\ Opening(pos, side, qty) = 0
  BY <1>1, <1>2 DEF Closing, Opening
<1>5. /\ positions' = [positions EXCEPT ![s] = filled]
      /\ account'.realizedPnl = account.realizedPnl + Pnl(pos.side, qty, pos.avg, exit)
  BY <1>4 DEF ApplyFill, FilledRealized
<1>6. SignedQty(filled) = SignedQty(pos) + SideSign(side) * qty
  BY <1>1, <1>2, FillMovesExposure
<1>7. ledger' = Append(ledger, row)
  OBVIOUS
<1> HIDE DEF row, side, filled, pos
<1>8. /\ Results' = Results + ClosurePnl(row)
      /\ \A x \in Symbols :
            ClosedNet(x)' = ClosedNet(x) + (IF row.symbol = x THEN SignedQty(row) ELSE 0)
      /\ \A x \in Symbols, y \in Sides : ClosedOn(x, y)' = ClosedOn(x, y)
            + (IF row.symbol = x /\ row.side = y THEN row.qty ELSE 0)
  BY <1>3, <1>7, LedgerGrows
<1>9. RealizedMatchesLedger'
  <2>1. ClosurePnl(row) = Pnl(pos.side, qty, pos.avg, exit) /\ ClosurePnl(row) \in Int
    BY <1>3, ClosureNumbers DEF ClosurePnl
  <2>2. Results \in Int /\ account.realizedPnl \in Int /\ offbook.pnl \in Int
    BY BooksNumbers DEF TypeOK
  <2>3. account.realizedPnl = offbook.pnl + Results
    BY DEF BooksInv, RealizedMatchesLedger, Results
  <2>4. account'.realizedPnl = offbook'.pnl + Results'
    BY <1>5, <1>8, <2>1, <2>2, <2>3
  <2> QED
    BY <2>4 DEF RealizedMatchesLedger, Results
<1>10. PositionsExplained'
  <2>1. ASSUME NEW x \in Symbols PROVE Exposure(x)' = BoughtNet(x)' - ClosedNet(x)'
    <3>1. Exposure(x) = BoughtNet(x) - ClosedNet(x)
      BY DEF BooksInv, PositionsExplained, BoughtNet, ClosedNet
    <3>2. /\ BoughtNet(x) \in Int /\ ClosedNet(x) \in Int
          /\ BoughtNet(x)' = BoughtNet(x)
      BY BooksNumbers, BoughtFrame
    <3>3. CASE x = s
      <4>1. Exposure(x)' = SignedQty(filled) /\ Exposure(x) = SignedQty(pos)
        BY <1>1, <1>5, <3>3 DEF Exposure, pos
      <4>2. SignedQty(row) = SideSign(pos.side) * qty
        BY <1>3 DEF SignedQty
      <4>3. SignedQty(filled) = SignedQty(pos) - SignedQty(row) /\ SignedQty(row) \in Int
        BY <1>1, <1>2, <1>6, <4>2 DEF SignedQty
      <4>4. ClosedNet(x)' = ClosedNet(x) + SignedQty(row)
        BY <1>3, <1>8, <3>3
      <4> QED
        BY <3>1, <3>2, <4>1, <4>3, <4>4
    <3>4. CASE x # s
      <4>1. Exposure(x)' = Exposure(x)
        BY <1>1, <1>5, <3>4 DEF Exposure
      <4>2. ClosedNet(x)' = ClosedNet(x)
        BY <1>3, <1>8, <3>2, <3>4
      <4> QED
        BY <3>1, <3>2, <4>1, <4>2
    <3> QED
      BY <3>3, <3>4
  <2> QED
    BY <2>1 DEF PositionsExplained, BoughtNet, ClosedNet
<1>11. NothingOverclosed'
  <2>1. ASSUME NEW x \in Symbols, NEW y \in Sides
        PROVE  ClosedOn(x, y)' + HeldOn(positions'[x], y) <= BoughtOn(x, y)'
    <3>1. ClosedOn(x, y) + HeldOn(positions[x], y) <= BoughtOn(x, y)
      BY DEF BooksInv, NothingOverclosed
    <3>2. ClosedOn(x, y) \in Int /\ BoughtOn(x, y) \in Int /\ BoughtOn(x, y)' = BoughtOn(x, y)
      BY BooksNumbers, BoughtFrame
    <3>3. CASE x = s
      <4>1. positions'[x] = filled /\ positions[x] = pos
        BY <1>1, <1>5, <3>3 DEF pos
      <4>2. /\ HeldOn(filled, y) \in Nat /\ HeldOn(pos, y) \in Nat
            /\ y = side => HeldOn(filled, y) <= HeldOn(pos, y)
            /\ y # side => HeldOn(filled, y) = HeldOn(pos, y) - qty
        <5>1. /\ HeldOn(filled, y) \in Nat /\ HeldOn(pos, y) \in Nat
              /\ y = side => HeldOn(filled, y) <= HeldOn(pos, y) + Opening(pos, side, qty)
              /\ y # side => HeldOn(filled, y) = HeldOn(pos, y) - Closing(pos, side, qty)
          BY <1>1, <1>2, HeldAfterFill DEF filled
        <5> QED
          BY <1>1, <1>4, <5>1
      <4>3. ClosedOn(x, y)' = ClosedOn(x, y) + (IF y = side THEN 0 ELSE qty)
        <5>1. y = side <=> row.side # y
          BY <1>1, <1>2, <1>3 DEF Sides
        <5>2. ClosedOn(x, y)' = ClosedOn(x, y)
                + (IF row.symbol = x /\ row.side = y THEN row.qty ELSE 0)
          BY <1>8
        <5> QED
          BY <1>3, <3>3, <5>1, <5>2
      <4> QED
        BY <1>1, <3>1, <3>2, <4>1, <4>2, <4>3
    <3>4. CASE x # s
      <4>1. positions'[x] = positions[x] /\ HeldOn(positions[x], y) \in Nat
        BY <1>1, <1>5, <3>4 DEF HeldOn, PositionRow
      <4>2. ClosedOn(x, y)' = ClosedOn(x, y)
        BY <1>3, <1>8, <3>2, <3>4
      <4> QED
        BY <3>1, <3>2, <4>1, <4>2
    <3> QED
      BY <3>3, <3>4
  <2> QED
    BY <2>1 DEF NothingOverclosed
<1> QED
  BY <1>9, <1>10, <1>11 DEF BooksInv

\* The fill of a pending paper order: whatever it nets is booked off the ledger,
\* and the row counts from now on.
LEMMA BooksFill ==
    ASSUME VenueInv, BooksInv, NEW i \in rows, FillRow(i)
    PROVE  BooksInv'
<1> DEFINE t == intents[i].ticket
           s == t.symbol
           pos == positions[s]
           price == ExecutedPrice(t, Latest(t, seen[s]))
           filled == FilledPosition(pos, t.side, t.qty, price)
           row == Executed(intents[i], price)
           netted == Pnl(pos.side, Closing(pos, t.side, t.qty), pos.avg, price)
<1>1. /\ TypeOK /\ i \in Intents /\ intents[i] \in Intent /\ t \in Ticket /\ s \in Symbols
      /\ t.side \in Sides /\ t.qty \in Nat \ {0} /\ i \in Pending /\ intents[i].mode = "paper"
      /\ intents[i].status = "pending"
  <2>1. TypeOK /\ i \in Intents /\ i \in Pending /\ intents[i].mode = "paper"
    BY DEF VenueInv, TypeOK, WorkListsValid
  <2> QED
    BY <2>1, IntentFacts DEF Pending
<1>2. price \in Nat /\ day \in Nat
  BY <1>1, RowPriceType DEF TypeOK
<1>3. /\ pos \in PositionRow /\ (pos.qty > 0 => pos.side \in Sides)
      /\ positions \in [Symbols -> PositionRow]
  BY <1>1 DEF TypeOK, IsHeld
<1>4. /\ positions' = [positions EXCEPT ![s] = filled]
      /\ account'.realizedPnl = account.realizedPnl + netted
      /\ offbook'.pnl = offbook.pnl + netted
      /\ intents' = [intents EXCEPT ![i] = row] /\ ledger' = ledger
  BY DEF FillRow, ApplyFill, FilledRealized
<1>5. /\ row \in Intent /\ row.ticket = t /\ IsExecuted(row) /\ ~IsExecuted(intents[i])
  BY <1>1, <1>2 DEF Executed, Intent, IsExecuted
<1>6. SignedQty(filled) = SignedQty(pos) + SideSign(t.side) * t.qty
  <2>1. price \in Int
    BY <1>2
  <2> HIDE DEF pos, t, price
  <2> QED
    BY <1>1, <1>3, <2>1, FillMovesExposure
<1>7. ASSUME NEW y \in Sides
      PROVE  /\ HeldOn(filled, y) \in Nat /\ HeldOn(pos, y) \in Nat
             /\ HeldOn(filled, y) <= HeldOn(pos, y) + (IF y = t.side THEN t.qty ELSE 0)
  <2>1. /\ Closing(pos, t.side, t.qty) \in Nat /\ Opening(pos, t.side, t.qty) \in Nat
        /\ Closing(pos, t.side, t.qty) + Opening(pos, t.side, t.qty) = t.qty
    <3> HIDE DEF pos, t
    <3> QED
      BY <1>1, <1>3, ClosingOpening
  <2>2. filled = FilledPosition(pos, t.side, t.qty, price)
    OBVIOUS
  <2> HIDE DEF filled, pos, t, price
  <2>3. price \in Int
    BY <1>2
  <2>4. /\ HeldOn(filled, y) \in Nat /\ HeldOn(pos, y) \in Nat
        /\ y = t.side => HeldOn(filled, y) <= HeldOn(pos, y) + Opening(pos, t.side, t.qty)
        /\ y # t.side => HeldOn(filled, y) = HeldOn(pos, y) - Closing(pos, t.side, t.qty)
    BY <1>1, <1>3, <2>2, <2>3, HeldAfterFill
  <2> QED
    BY <1>1, <2>1, <2>4
<1>8. netted \in Int
  <2>1. Closing(pos, t.side, t.qty) \in Nat /\ pos.avg \in Int
    BY <1>1, <1>3, ClosingOpening DEF PositionRow
  <2> HIDE DEF pos, t, price
  <2> QED
    BY <1>2, <2>1 DEF Pnl, SideSign
<1> HIDE DEF t, s, pos, price, filled, row, netted
<1>9. /\ Results' = Results /\ \A x : ClosedNet(x)' = ClosedNet(x)
      /\ \A x, y : ClosedOn(x, y)' = ClosedOn(x, y)
  BY <1>4 DEF Results, ClosedNet, ClosedOn, LedgerSum
<1>10. /\ \A x : BoughtNet(x)' = BoughtNet(x) - NetOf(intents[i], x) + NetOf(row, x)
       /\ \A x, y : BoughtOn(x, y)' = BoughtOn(x, y) - QtyOf(intents[i], x, y) + QtyOf(row, x, y)
  BY <1>1, <1>4, <1>5, BoughtRewrite
<1>11. RealizedMatchesLedger'
  <2>1. Results \in Int /\ account.realizedPnl \in Int /\ offbook.pnl \in Int
    BY <1>1, BooksNumbers DEF TypeOK
  <2>2. account.realizedPnl = offbook.pnl + Results
    BY DEF BooksInv, RealizedMatchesLedger, Results
  <2>3. account'.realizedPnl = offbook'.pnl + Results'
    BY <1>4, <1>8, <1>9, <2>1, <2>2
  <2> QED
    BY <2>3 DEF RealizedMatchesLedger, Results
<1>12. PositionsExplained'
  <2>1. ASSUME NEW x \in Symbols PROVE Exposure(x)' = BoughtNet(x)' - ClosedNet(x)'
    <3>1. Exposure(x) = BoughtNet(x) - ClosedNet(x)
      BY DEF BooksInv, PositionsExplained, BoughtNet, ClosedNet
    <3>2. BoughtNet(x) \in Int /\ ClosedNet(x) \in Int
      BY <1>1, BooksNumbers
    <3>3. BoughtNet(x)' = BoughtNet(x) + (IF x = s THEN SideSign(t.side) * t.qty ELSE 0)
      <4>1. NetOf(intents[i], x) = 0
        BY <1>5 DEF NetOf
      <4>2. NetOf(row, x) = IF x = s THEN SideSign(t.side) * t.qty ELSE 0
        BY <1>5 DEF NetOf, SignedQty, s
      <4>3. NetOf(row, x) \in Int
        BY <1>1, <4>2 DEF SideSign
      <4> QED
        BY <1>10, <3>2, <4>1, <4>2, <4>3
    <3>4. CASE x = s
      <4>1. Exposure(x)' = SignedQty(filled) /\ Exposure(x) = SignedQty(pos)
        BY <1>1, <1>3, <1>4, <3>4 DEF Exposure, pos
      <4>2. SideSign(t.side) * t.qty \in Int
        BY <1>1 DEF SideSign
      <4> QED
        BY <1>6, <1>9, <3>1, <3>2, <3>3, <3>4, <4>1, <4>2
    <3>5. CASE x # s
      <4>1. Exposure(x)' = Exposure(x)
        BY <1>3, <1>4, <3>5 DEF Exposure
      <4> QED
        BY <1>9, <3>1, <3>2, <3>3, <3>5, <4>1
    <3> QED
      BY <3>4, <3>5
  <2> QED
    BY <2>1 DEF PositionsExplained, BoughtNet, ClosedNet
<1>13. NothingOverclosed'
  <2>1. ASSUME NEW x \in Symbols, NEW y \in Sides
        PROVE  ClosedOn(x, y)' + HeldOn(positions'[x], y) <= BoughtOn(x, y)'
    <3>1. ClosedOn(x, y) + HeldOn(positions[x], y) <= BoughtOn(x, y)
      BY DEF BooksInv, NothingOverclosed
    <3>2. ClosedOn(x, y) \in Int /\ BoughtOn(x, y) \in Int
      BY <1>1, BooksNumbers
    <3>3. BoughtOn(x, y)' = BoughtOn(x, y) + (IF x = s /\ y = t.side THEN t.qty ELSE 0)
      <4>1. QtyOf(intents[i], x, y) = 0
        BY <1>5 DEF QtyOf
      <4>2. QtyOf(row, x, y) = IF x = s /\ y = t.side THEN t.qty ELSE 0
        BY <1>5 DEF QtyOf, s
      <4> QED
        BY <1>1, <1>10, <3>2, <4>1, <4>2
    <3>4. CASE x = s
      <4>1. positions'[x] = filled /\ positions[x] = pos
        BY <1>1, <1>3, <1>4, <3>4 DEF pos
      <4> QED
        BY <1>1, <1>7, <1>9, <3>1, <3>2, <3>3, <3>4, <4>1
    <3>5. CASE x # s
      <4>1. positions'[x] = positions[x] /\ HeldOn(positions[x], y) \in Nat
        BY <1>3, <1>4, <3>5 DEF HeldOn, PositionRow
      <4> QED
        BY <1>9, <3>1, <3>2, <3>3, <3>5, <4>1
    <3> QED
      BY <3>4, <3>5
  <2> QED
    BY <2>1 DEF NothingOverclosed
<1> QED
  BY <1>11, <1>12, <1>13 DEF BooksInv

\* Every step of the venue keeps the books.
LEMMA BooksStep == VenueInv /\ VenueInv' /\ BooksInv /\ [Next]_vars => BooksInv'
<1> SUFFICES ASSUME VenueInv, VenueInv', BooksInv, [Next]_vars PROVE BooksInv'
  OBVIOUS
<1>0. /\ TypeOK /\ account'.realizedPnl \in Int /\ offbook'.pnl \in Int
      /\ account.realizedPnl \in Int /\ offbook.pnl \in Int
      /\ positions \in [Symbols -> PositionRow]
  BY DEF VenueInv, TypeOK
<1> DEFINE Quiet == /\ \A s \in Symbols : /\ positions'[s].side = positions[s].side
                                          /\ positions'[s].qty = positions[s].qty
                    /\ account'.realizedPnl - offbook'.pnl = account.realizedPnl - offbook.pnl
                    /\ UNCHANGED ledger
<1>1. ASSUME UNCHANGED intents, Quiet PROVE BooksInv'
  BY <1>0, <1>1, BooksFrame, BoughtFrame
<1>2. ASSUME NEW row \in Intent, intents' = Append(intents, row), ~IsExecuted(row), Quiet
      PROVE  BooksInv'
  <2>1. /\ \A s : BoughtNet(s)' = BoughtNet(s)
        /\ \A s, side : BoughtOn(s, side)' = BoughtOn(s, side)
    BY <1>0, <1>2, BoughtAppend
  <2> QED
    BY <1>0, <1>2, <2>1, BooksFrame
<1>3. ASSUME NEW i \in Intents, NEW status \in {"cancelled", "expired"},
             intents[i].status = "pending", Quiet,
             intents' = [intents EXCEPT ![i].status = status]
      PROVE  BooksInv'
  <2> DEFINE row == [intents[i] EXCEPT !.status = status]
  <2>1. row \in Intent /\ ~IsExecuted(row) /\ ~IsExecuted(intents[i])
    BY <1>0, <1>3, IntentFacts DEF Intent, IsExecuted
  <2>2. intents' = [intents EXCEPT ![i] = row]
    BY <1>3
  <2> HIDE DEF row
  <2>3. /\ \A s : NetOf(row, s) = 0 /\ NetOf(intents[i], s) = 0
        /\ \A s, side : QtyOf(row, s, side) = 0 /\ QtyOf(intents[i], s, side) = 0
    BY <2>1 DEF NetOf, QtyOf
  <2>4. /\ \A s : BoughtNet(s)' = BoughtNet(s)
        /\ \A s, side : BoughtOn(s, side)' = BoughtOn(s, side)
    <3>1. /\ \A s : BoughtNet(s)' = BoughtNet(s) - NetOf(intents[i], s) + NetOf(row, s)
          /\ \A s, side : BoughtOn(s, side)' =
                BoughtOn(s, side) - QtyOf(intents[i], s, side) + QtyOf(row, s, side)
      BY <1>0, <2>1, <2>2, BoughtRewrite
    <3>2. \A s : BoughtNet(s) \in Int /\ \A side : BoughtOn(s, side) \in Int
      BY <1>0, BooksNumbers
    <3> QED
      BY <2>3, <3>1, <3>2
  <2> QED
    BY <1>0, <1>3, <2>4, BooksFrame
<1>4. ASSUME NEW t \in Tickets, Submit(t) PROVE BooksInv'
  <2> DEFINE row == Unfilled(t, "paper", "pending")
  <2>1. row \in Intent /\ ~IsExecuted(row)
    BY <1>0, TicketsAssumption DEF Unfilled, Intent, IsExecuted, NoPrice, NoDay, TypeOK
  <2>2. intents' = Append(intents, row) /\ Quiet
    BY <1>4 DEF Submit, history
  <2> HIDE DEF row, Quiet
  <2> QED
    BY <1>2, <2>1, <2>2
<1>5. ASSUME NEW t \in LiveTickets, NEW filled \in BOOLEAN, RecordLive(t, filled)
      PROVE  BooksInv'
  <2> DEFINE open == Unfilled(t, "live", "submitted")
             done == Executed(open, t.entry)
  <2>1. t \in Ticket /\ t.entry \in Nat
    BY VenueAssumption DEF Ticket
  <2>2. open \in Intent /\ ~IsExecuted(open) /\ done \in Intent /\ ~IsExecuted(done)
    BY <1>0, <2>1 DEF Unfilled, Executed, Intent, IsExecuted, NoPrice, NoDay, TypeOK
  <2>3. intents' \in {Append(intents, open), Append(intents, done)} /\ Quiet
    BY <1>5 DEF RecordLive, history
  <2> HIDE DEF open, done, Quiet
  <2> QED
    BY <1>2, <2>2, <2>3
<1>6. ASSUME NEW i \in Intents, Cancel(i) PROVE BooksInv'
  BY <1>3, <1>6 DEF Cancel, history
<1>7. ASSUME NEW s \in Symbols, NEW asked \in 1..positions[s].qty, ClosePosition(s, asked)
      PROVE  BooksInv'
  <2> DEFINE qty == IF asked < positions[s].qty THEN asked ELSE positions[s].qty
  <2>1. qty \in 1..positions[s].qty /\ market[s] \in Int /\ IsHeld(s)
    BY <1>0, <1>7, PricesAreNumbers DEF ClosePosition, TypeOK, PositionRow
  <2>2. /\ ApplyFill(s, Opposite(positions[s].side), qty, market[s])
        /\ ledger' = Append(ledger, ClosureRow(s, qty, market[s], "manual"))
        /\ UNCHANGED <<intents, offbook>>
    BY <1>7 DEF ClosePosition
  <2> HIDE DEF qty
  <2> QED
    BY <1>0, <2>1, <2>2, BooksClose
<1>8. ASSUME NEW a \in PutAccounts, ReplaceAccount(a) PROVE BooksInv'
  <2>1. account' = [buyingPower |-> a.buyingPower, realizedPnl |-> a.realizedPnl]
        /\ offbook'.pnl = offbook.pnl + a.realizedPnl - account.realizedPnl
    BY <1>8 DEF ReplaceAccount
  <2>2. Quiet
    BY <1>0, <1>8, <2>1 DEF ReplaceAccount
  <2> QED
    BY <1>1, <1>8, <2>2 DEF ReplaceAccount
<1>9. ASSUME NEW i \in rows, ExpireRow(i) PROVE BooksInv'
  <2>1. i \in Intents /\ intents[i].status = "pending"
    BY <1>0 DEF TypeOK, VenueInv, WorkListsValid, Pending
  <2> QED
    BY <1>3, <1>9, <2>1 DEF ExpireRow, history
<1>10. ASSUME NEW i \in rows, FillRow(i) PROVE BooksInv'
  BY <1>10, BooksFill
<1>11. ASSUME NEW s \in held, LeaveOpen(s) PROVE BooksInv'
  <2>1. s \in Symbols /\ positions[s] \in PositionRow
    BY <1>0 DEF TypeOK
  <2>2. Quiet
    BY <1>0, <1>11, <2>1 DEF LeaveOpen, history, PositionRow
  <2> QED
    BY <1>1, <1>11, <2>2 DEF LeaveOpen
<1>12. ASSUME NEW s \in held, TakeExit(s) PROVE BooksInv'
  <2>1. s \in Symbols /\ IsHeld(s) /\ Bracketed(s) /\ positions[s].qty \in 1..positions[s].qty
    <3>1. s \in Symbols /\ IsHeld(s)
      BY <1>0 DEF VenueInv, TypeOK, WorkListsValid
    <3>2. positions[s] \in PositionRow
      BY <1>0, <3>1 DEF TypeOK
    <3>3. positions[s].qty \in Nat /\ positions[s].qty > 0
      BY <3>1, <3>2 DEF PositionRow, IsHeld
    <3>4. Bracketed(s)
      BY <1>12 DEF TakeExit
    <3> QED BY <3>1, <3>3, <3>4
  <2>2. ExitNow(s).kind \in {"stop", "target"} /\ ExitNow(s).price \in Int
    BY <1>0, <1>12, <2>1, VisitTypes DEF TakeExit
  <2> QED
    BY <1>0, <1>12, <2>1, <2>2, BooksClose DEF TakeExit
<1>13. CASE RefreshMarks
  <2>1. Quiet
    BY <1>0, <1>13 DEF RefreshMarks, Marked, history, PositionRow
  <2> QED
    BY <1>1, <1>13, <2>1 DEF RefreshMarks
<1>14. CASE UNCHANGED vars
  BY <1>1, <1>14 DEF vars, store, history
<1>15. CASE Handler
  BY <1>4, <1>5, <1>6, <1>7, <1>8, <1>15 DEF Handler
<1>16. CASE Cycle
  <2>1. ASSUME NEW i \in rows, SkipRow(i) PROVE BooksInv'
    BY <1>1, <2>1 DEF SkipRow, store, history
  <2>2. CASE StartCycle \/ BeginPending \/ EndPending \/ BeginBrackets \/ EndBrackets
    BY <1>1, <2>2 DEF StartCycle, BeginPending, EndPending, BeginBrackets, EndBrackets,
                      store, history
  <2> QED
    BY <1>9, <1>10, <1>11, <1>12, <1>13, <1>16, <2>1, <2>2 DEF Cycle
<1>17. CASE World
  BY <1>1, <1>17 DEF World, NewCandle, NewDay, Restart, store, history
<1> QED
  BY <1>14, <1>15, <1>16, <1>17 DEF Next

\* The books of a fresh store are empty.
LEMMA BooksInit == Init => BooksInv
<1> SUFFICES ASSUME Init PROVE BooksInv
  OBVIOUS
<1>1. SumFunction(<<>>) = 0
  <2>1. <<>> \in [{} -> Int] /\ IsFiniteSet({})
    BY FS_EmptySet
  <2> QED
    BY <2>1, SumType
<1>2. \A f : DOMAIN f = {} /\ f = [k \in {} |-> f[k]] => f = <<>>
  OBVIOUS
<1>3. /\ Results = 0 /\ \A s : ClosedNet(s) = 0 /\ BoughtNet(s) = 0
      /\ \A s, side : ClosedOn(s, side) = 0 /\ BoughtOn(s, side) = 0
  BY <1>1, <1>2 DEF Init, Results, ClosedNet, BoughtNet, ClosedOn, BoughtOn, LedgerSum,
                    ExecutedSum, Intents
<1>4. RealizedMatchesLedger
  BY <1>3 DEF Init, RealizedMatchesLedger, Results
<1>5. PositionsExplained
  <2>1. \A s \in Symbols : Exposure(s) = BoughtNet(s) - ClosedNet(s)
    <3> SUFFICES ASSUME NEW s \in Symbols PROVE Exposure(s) = BoughtNet(s) - ClosedNet(s)
      OBVIOUS
    <3>1. positions[s] = Flat
      BY DEF Init
    <3>2. Exposure(s) = 0
      BY <3>1 DEF Exposure, SignedQty, SideSign, Flat
    <3>3. BoughtNet(s) = 0 /\ ClosedNet(s) = 0
      BY <1>3
    <3> QED
      BY <3>2, <3>3
  <2> QED
    BY <2>1 DEF PositionsExplained, BoughtNet, ClosedNet
<1>6. NothingOverclosed
  BY <1>3 DEF Init, NothingOverclosed, HeldOn, Flat
<1> QED
  BY <1>4, <1>5, <1>6 DEF BooksInv

\* The books hold in every reachable state.
LEMMA BooksInvariant == Spec => [](VenueInv /\ BooksInv)
<1>1. VenueInv /\ BooksInv /\ [Next]_vars => BooksInv'
  BY BooksStep, VenueInvStep
<1> QED
  BY <1>1, BooksInit, VenueInvariant, PTL DEF Spec

\* Realized PnL is the sum of the closure ledger, up to what netting fills and
\* PUTs book outside it, in every reachable state.
THEOREM RealizedIsTheLedger == Spec => []RealizedMatchesLedger
<1>1. BooksInv => RealizedMatchesLedger
  BY DEF BooksInv
<1> QED
  BY <1>1, BooksInvariant, PTL

\* What is held is what executed orders bought and sold less what the ledger
\* closed, in every reachable state.
THEOREM PositionsAreExplained == Spec => []PositionsExplained
<1>1. BooksInv => PositionsExplained
  BY DEF BooksInv
<1> QED
  BY <1>1, BooksInvariant, PTL

\* The ledger never closes more on a side than executed orders opened there.
THEOREM NothingIsOverclosed == Spec => []NeverOverclosed
<1>1. VenueInv /\ BooksInv => NeverOverclosed
  BY BooksParts DEF VenueInv, BooksInv
<1> QED
  BY <1>1, BooksInvariant, PTL

-----------------------------------------------------------------------------
(* Cash.                                                                   *)

\* The notional tied up in positions, and the closed results as cash.
Tied == SumFunction([s \in Symbols |-> positions[s].qty * positions[s].avg])
CashResults == LedgerSum(LAMBDA row : SideSign(row.side) * ClosurePnl(row), LAMBDA row : TRUE)

\* Positions are held at positive prices: no exit is booked below zero, where the
\* clamp of the buying power would swallow it.
PricesPositive ==
    \A s \in Symbols : IsHeld(s) => positions[s].avg > 0 /\ positions[s].best >= 0
CashInv == CashConserved /\ PricesPositive

\* A fill that adds to a position averages to a whole price.
AveragesExact ==
    \A i \in rows :
        LET t == intents[i].ticket
        IN  FillRow(i) => AverageExact(positions[t.symbol], t.side, t.qty,
                                       ExecutedPrice(t, Latest(t, seen[t.symbol])))

\* The two sums are numbers.
LEMMA CashNumbers == ASSUME TypeOK PROVE Tied \in Int /\ CashResults \in Int
<1>1. Tied \in Int
  <2> DEFINE f == [s \in Symbols |-> positions[s].qty * positions[s].avg]
  <2>1. f \in [Symbols -> Int] /\ IsFiniteSet(Symbols) /\ Tied = SumFunction(f)
    BY VenueAssumption DEF TypeOK, PositionRow, Tied
  <2> HIDE DEF f
  <2> QED
    BY <2>1, SumType
<1>2. CashResults \in Int
  <2> DEFINE f == [k \in DOMAIN ledger |-> SideSign(ledger[k].side) * ClosurePnl(ledger[k])]
             n == Len(ledger)
  <2>1. \A k \in DOMAIN ledger : ledger[k] \in Closure
    BY DEF TypeOK
  <2>2. \A k \in DOMAIN ledger : SideSign(ledger[k].side) * ClosurePnl(ledger[k]) \in Int
    BY <2>1, ClosureNumbers
  <2>3. f \in [1..n -> Int] /\ n \in Nat /\ CashResults = SumFunction(f)
    BY <2>2 DEF CashResults, LedgerSum, TypeOK
  <2>4. IsFiniteSet(1..n)
    BY <2>3, FS_Interval
  <2> HIDE DEF f, n
  <2> QED
    BY <2>3, <2>4, SumType
<1> QED
  BY <1>1, <1>2

\* A ledger row adds its result to the cash.
LEMMA CashLedgerGrows ==
    ASSUME TypeOK, NEW row \in Closure, ledger' = Append(ledger, row)
    PROVE  CashResults' = CashResults + SideSign(row.side) * ClosurePnl(row)
<1> DEFINE n == Len(ledger)
           f == [k \in DOMAIN ledger |-> SideSign(ledger[k].side) * ClosurePnl(ledger[k])]
           g == [k \in DOMAIN ledger' |-> SideSign(ledger'[k].side) * ClosurePnl(ledger'[k])]
<1>1. /\ ledger \in Seq(Closure) /\ ledger' \in Seq(Closure)
      /\ ledger'[n + 1] = row /\ \A k \in DOMAIN ledger : ledger'[k] = ledger[k]
      /\ n \in Nat /\ DOMAIN ledger = 1..n /\ DOMAIN ledger' = 1..(n + 1)
  BY AppendProperties DEF TypeOK
<1>2. /\ \A k \in DOMAIN ledger : ledger[k] \in Closure
      /\ \A k \in DOMAIN ledger' : ledger'[k] \in Closure
  BY <1>1
<1> HIDE DEF n
<1>3. /\ \A k \in DOMAIN ledger : SideSign(ledger[k].side) * ClosurePnl(ledger[k]) \in Int
      /\ \A k \in DOMAIN ledger' : SideSign(ledger'[k].side) * ClosurePnl(ledger'[k]) \in Int
  <2>1. \A x \in Closure : SideSign(x.side) * ClosurePnl(x) \in Int
    BY ClosureNumbers
  <2> QED
    BY <1>2, <2>1
<1>4. f \in [1..n -> Int] /\ g \in [1..(n + 1) -> Int] /\ \A k \in 1..n : g[k] = f[k]
  BY <1>1, <1>3
<1>5. g[n + 1] = SideSign(row.side) * ClosurePnl(row)
  BY <1>1
<1>6. CashResults = SumFunction(f) /\ CashResults' = SumFunction(g)
  BY DEF CashResults, LedgerSum, ClosurePnl
<1>7. n \in Nat
  BY <1>1
<1> HIDE DEF f, g
<1>8. SumFunction(g) = SumFunction(f) + g[n + 1]
  BY <1>4, <1>7, SumAppend
<1> QED
  BY <1>5, <1>6, <1>8

\* Changing one position changes what is tied up by the difference.
LEMMA TiedChange ==
    ASSUME TypeOK, TypeOK', NEW s \in Symbols,
           \A x \in Symbols \ {s} : positions'[x] = positions[x]
    PROVE  Tied' = Tied - positions[s].qty * positions[s].avg
                        + positions'[s].qty * positions'[s].avg
<1> DEFINE f == [x \in Symbols |-> positions[x].qty * positions[x].avg]
           g == [x \in Symbols |-> positions'[x].qty * positions'[x].avg]
<1>1. f \in [Symbols -> Int] /\ g \in [Symbols -> Int] /\ IsFiniteSet(Symbols)
  <2>1. \A x \in Symbols : positions[x] \in PositionRow /\ positions'[x] \in PositionRow
    BY DEF TypeOK
  <2>2. \A p \in PositionRow : p.qty * p.avg \in Int
    BY DEF PositionRow
  <2>3. IsFiniteSet(Symbols)
    BY VenueAssumption
  <2> QED
    BY <2>1, <2>2, <2>3
<1>2. \A x \in Symbols \ {s} : g[x] = f[x]
  OBVIOUS
<1>3. Tied = SumFunction(f) /\ Tied' = SumFunction(g)
  BY DEF Tied
<1>4. /\ f[s] = positions[s].qty * positions[s].avg
      /\ g[s] = positions'[s].qty * positions'[s].avg
  OBVIOUS
<1> HIDE DEF f, g
<1>5. SumFunction(g) = SumFunction(f) - f[s] + g[s]
  BY <1>1, <1>2, SumChange
<1> QED
  BY <1>3, <1>4, <1>5

\* A step that ties nothing up and books nothing keeps the cash.
LEMMA CashFrame ==
    ASSUME TypeOK, TypeOK', CashInv, UNCHANGED ledger,
           account'.buyingPower = account.buyingPower + (offbook'.cash - offbook.cash),
           \A s \in Symbols : /\ positions'[s].qty = positions[s].qty
                              /\ positions'[s].avg = positions[s].avg
                              /\ positions'[s].best \in {positions[s].best} \cup Nat
    PROVE  CashInv'
<1>1. Tied' = Tied
  BY DEF Tied
<1>2. CashResults' = CashResults
  BY DEF CashResults, LedgerSum, ClosurePnl
<1>3. account.buyingPower + Tied = StartCash + offbook.cash + CashResults
  BY DEF CashInv, CashConserved, Tied, CashResults
<1>4. /\ Tied \in Int /\ CashResults \in Int /\ StartCash \in Int
      /\ account.buyingPower \in Int /\ account'.buyingPower \in Int
      /\ offbook.cash \in Int /\ offbook'.cash \in Int
  <2>1. Tied \in Int /\ CashResults \in Int
    BY CashNumbers
  <2>2. StartCash \in Int
    BY VenueAssumption
  <2>3. account.buyingPower \in Int /\ offbook.cash \in Int
    BY DEF TypeOK
  <2>4. account'.buyingPower \in Int /\ offbook'.cash \in Int
    BY DEF TypeOK
  <2> QED BY <2>1, <2>2, <2>3, <2>4
<1>5. account'.buyingPower + Tied' = StartCash + offbook'.cash + CashResults'
  <2> DEFINE a == account.buyingPower
             b == account'.buyingPower
             x == offbook.cash
             y == offbook'.cash
  <2>1. a + Tied = StartCash + x + CashResults /\ b = a + (y - x)
    BY <1>3
  <2>2. /\ Tied \in Int /\ CashResults \in Int /\ StartCash \in Int
        /\ a \in Int /\ b \in Int /\ x \in Int /\ y \in Int
    BY <1>4
  <2> HIDE DEF a, b, x, y
  <2>3. b + Tied = StartCash + y + CashResults
    BY <2>1, <2>2
  <2> QED
    BY <1>1, <1>2, <2>3 DEF b, y
<1>6. CashConserved'
  BY <1>5 DEF CashConserved, Tied, CashResults
<1>7. PricesPositive'
  BY DEF CashInv, PricesPositive, IsHeld
<1> QED
  BY <1>6, <1>7 DEF CashInv

\* A close credits what its ledger row says, on top of what was tied up.
LEMMA CashClose ==
    ASSUME TypeOK, TypeOK', CashInv, NEW s \in Symbols, IsHeld(s),
           NEW qty \in 1..positions[s].qty, NEW exit \in Nat \ {0},
           NEW kind \in {"stop", "target", "manual"},
           ApplyFill(s, Opposite(positions[s].side), qty, exit),
           ledger' = Append(ledger, ClosureRow(s, qty, exit, kind)),
           UNCHANGED offbook
    PROVE  CashInv'
<1> DEFINE pos == positions[s]
           side == Opposite(pos.side)
           row == ClosureRow(s, qty, exit, kind)
           filled == FilledPosition(pos, side, qty, exit)
           result == (exit - pos.avg) * qty
<1>1. /\ pos \in PositionRow /\ pos.side \in Sides /\ pos.qty \in Nat /\ pos.qty > 0
      /\ pos.avg \in Int /\ qty \in Nat \ {0} /\ qty <= pos.qty
      /\ positions \in [Symbols -> PositionRow] /\ account.buyingPower \in Nat
      /\ pos.avg > 0 /\ pos.best >= 0
  <2>1. pos \in PositionRow /\ pos.side \in Sides /\ pos.qty > 0
        /\ positions \in [Symbols -> PositionRow] /\ account.buyingPower \in Nat
    BY DEF TypeOK, IsHeld
  <2>2. pos.avg > 0 /\ pos.best >= 0
    BY DEF CashInv, PricesPositive
  <2> QED
    BY <2>1, <2>2 DEF PositionRow
<1>2. side \in Sides /\ side # pos.side /\ SideSign(pos.side) \in {1, -1}
  BY <1>1, SideFacts
<1>3. row \in Closure /\ row.side = pos.side /\ row.qty = qty
      /\ row.entry = pos.avg /\ row.exit = exit
  <2>1. exit \in Int /\ qty \in Nat \ {0}
    BY <1>1
  <2>2. row \in Closure
    BY <2>1, ClosureRowType
  <2> QED
    BY <2>2 DEF ClosureRow
<1>4. Closing(pos, side, qty) = qty /\ Opening(pos, side, qty) = 0
  BY <1>1, <1>2 DEF Closing, Opening
<1>5. /\ positions' = [positions EXCEPT ![s] = filled]
      /\ account'.buyingPower = AtLeastZero(account.buyingPower + (qty - 0) * exit)
  BY <1>4 DEF ApplyFill, FilledBuyingPower
<1>6. account'.buyingPower = account.buyingPower + qty * exit
  BY <1>1, <1>5 DEF AtLeastZero
<1>7. filled.qty * filled.avg = pos.qty * pos.avg - qty * pos.avg
  <2>1. AverageExact(pos, side, qty, exit)
    BY <1>2 DEF AverageExact
  <2>2. filled.qty * filled.avg = pos.qty * pos.avg
          + Opening(pos, side, qty) * exit - Closing(pos, side, qty) * pos.avg
    BY <1>1, <1>2, <2>1, FillMovesTiedUp
  <2> HIDE DEF pos, filled, side
  <2> QED
    BY <1>1, <1>4, <2>2
<1>8. CashResults' = CashResults + result /\ result \in Int
  <2>1. SideSign(row.side) * ClosurePnl(row) = result
    BY <1>1, <1>2, <1>3 DEF ClosurePnl, Pnl, SideSign, Sides
  <2>2. CashResults' = CashResults + SideSign(row.side) * ClosurePnl(row)
    BY <1>3, CashLedgerGrows
  <2> QED
    BY <1>1, <2>1, <2>2
<1>9. Tied' = Tied - pos.qty * pos.avg + filled.qty * filled.avg
  <2>1. positions'[s] = filled /\ \A x \in Symbols \ {s} : positions'[x] = positions[x]
    BY <1>1, <1>5
  <2> QED
    BY <2>1, TiedChange
<1>10. CashConserved'
  <2>1. account.buyingPower + Tied = StartCash + offbook.cash + CashResults
    BY DEF CashInv, CashConserved, Tied, CashResults
  <2>2. /\ Tied \in Int /\ CashResults \in Int /\ StartCash \in Int /\ offbook.cash \in Int
        /\ account.buyingPower \in Int
    <3>1. Tied \in Int /\ CashResults \in Int /\ StartCash \in Int
      BY CashNumbers, VenueAssumption
    <3>2. offbook.cash \in Int /\ account.buyingPower \in Int
      BY DEF TypeOK
    <3> QED
      BY <3>1, <3>2
  <2>3. qty * exit \in Int /\ qty * pos.avg \in Int /\ pos.qty * pos.avg \in Int
        /\ result = qty * exit - qty * pos.avg
    BY <1>1
  <2> DEFINE a == account.buyingPower
             b == account'.buyingPower
             x == offbook.cash
             paid == qty * exit
             cost == qty * pos.avg
  <2>4. a + Tied = StartCash + x + CashResults /\ b = a + paid
        /\ Tied' = Tied - cost /\ CashResults' = CashResults + (paid - cost)
    <3> DEFINE before == pos.qty * pos.avg
               after == filled.qty * filled.avg
    <3>1. after = before - cost /\ before \in Int /\ cost \in Int
      BY <1>7, <2>3
    <3>2. Tied' = Tied - before + after
      BY <1>9
    <3> HIDE DEF before, after, cost
    <3>3. Tied' = Tied - cost
      BY <2>2, <3>1, <3>2
    <3> QED
      BY <1>6, <1>8, <2>1, <2>3, <3>3 DEF cost
  <2>5. /\ Tied \in Int /\ CashResults \in Int /\ StartCash \in Int
        /\ a \in Int /\ x \in Int /\ paid \in Int /\ cost \in Int
    BY <2>2, <2>3
  <2> HIDE DEF a, b, x, paid, cost
  <2>6. b + Tied' = StartCash + x + CashResults'
    BY <2>4, <2>5
  <2> QED
    BY <2>6 DEF CashConserved, Tied, CashResults, b, x
<1>11. PricesPositive'
  <2>1. filled.qty > 0 => filled.avg > 0 /\ filled.best >= 0
    BY <1>1, <1>2, FilledAverage
  <2> HIDE DEF filled
  <2> QED
    BY <1>1, <1>5, <2>1 DEF CashInv, PricesPositive, IsHeld
<1> QED
  BY <1>10, <1>11 DEF CashInv

\* The price a pending order is filled at is positive.
LEMMA RowPricePositive ==
    ASSUME TypeOK, NEW i \in Intents
    PROVE  LET t == intents[i].ticket
           IN  ExecutedPrice(t, Latest(t, seen[t.symbol])) \in Nat \ {0}
<1> DEFINE t == intents[i].ticket
<1>1. t \in Ticket /\ t.symbol \in Symbols
  BY IntentFacts
<1>2. seen[t.symbol] \in Nat
  BY <1>1, PricesAreNumbers DEF TypeOK
<1>3. Latest(t, seen[t.symbol]) \in Nat \ {0}
  BY <1>1, <1>2 DEF Latest, Ticket, NoPrice
<1> HIDE DEF t
<1>4. ExecutedPrice(t, Latest(t, seen[t.symbol])) \in Nat \ {0}
  BY <1>1, <1>3 DEF ExecutedPrice, Better, Ticket, NoPrice
<1> QED
  BY <1>4 DEF t

\* A fill pays for what it opens; what it nets and what the clamp forgives is
\* noted off the books.
LEMMA CashFill ==
    ASSUME TypeOK, TypeOK', CashInv, NEW i \in rows, FillRow(i), AveragesExact
    PROVE  CashInv'
<1> DEFINE t == intents[i].ticket
           s == t.symbol
           pos == positions[s]
           price == ExecutedPrice(t, Latest(t, seen[s]))
           filled == FilledPosition(pos, t.side, t.qty, price)
           closed == Closing(pos, t.side, t.qty)
           opened == Opening(pos, t.side, t.qty)
           netted == Pnl(pos.side, closed, pos.avg, price)
           gap == AtLeastZero((opened - closed) * price - account.buyingPower)
<1>1. /\ i \in Intents /\ t \in Ticket /\ s \in Symbols
      /\ t.side \in Sides /\ t.qty \in Nat \ {0}
  <2>1. i \in Intents
    BY DEF TypeOK
  <2> QED
    BY <2>1, IntentFacts
<1>2. price \in Nat \ {0}
  BY <1>1, RowPricePositive
<1>3. /\ pos \in PositionRow /\ (pos.qty > 0 => pos.side \in Sides)
      /\ positions \in [Symbols -> PositionRow] /\ account.buyingPower \in Nat
      /\ pos.avg \in Int /\ pos.qty \in Nat
      /\ pos.qty > 0 => pos.avg > 0 /\ pos.best >= 0
  BY <1>1 DEF TypeOK, IsHeld, CashInv, PricesPositive, PositionRow
<1>4. /\ positions' = [positions EXCEPT ![s] = filled]
      /\ account'.buyingPower = AtLeastZero(account.buyingPower + (closed - opened) * price)
      /\ offbook'.cash = offbook.cash + SideSign(pos.side) * netted + gap
      /\ ledger' = ledger
  BY DEF FillRow, ApplyFill, FilledBuyingPower, Forgiven
<1>5. closed \in Nat /\ opened \in Nat
  BY <1>1, <1>3, ClosingOpening
<1>6. filled.qty * filled.avg = pos.qty * pos.avg + opened * price - closed * pos.avg
  <2>1. AverageExact(pos, t.side, t.qty, price)
    BY DEF AveragesExact
  <2> HIDE DEF t, price
  <2> QED
    BY <1>1, <1>2, <1>3, <2>1, FillMovesTiedUp
<1>7. Tied' = Tied - pos.qty * pos.avg + filled.qty * filled.avg
  <2>1. positions'[s] = filled /\ \A x \in Symbols \ {s} : positions'[x] = positions[x]
    BY <1>1, <1>3, <1>4
  <2> HIDE DEF filled
  <2> QED
    BY <1>1, <2>1, TiedChange
<1>8. filled.qty > 0 => filled.avg > 0 /\ filled.best >= 0
  <2> HIDE DEF t, price
  <2> QED
    BY <1>1, <1>2, <1>3, FilledAverage
<1> HIDE DEF t, s, price, filled, closed, opened
<1>9. SideSign(pos.side) * netted = closed * price - closed * pos.avg
  <2> HIDE DEF pos
  <2> QED
    BY <1>2, <1>3, <1>5 DEF Pnl, SideSign
<1>10. gap \in Int /\ account'.buyingPower
         = account.buyingPower + closed * price - opened * price + gap
  <2> DEFINE x == account.buyingPower + (closed - opened) * price
  <2>1. x \in Int /\ x = account.buyingPower + closed * price - opened * price
    BY <1>2, <1>3, <1>5
  <2>2. gap = AtLeastZero(-x)
    <3>1. (opened - closed) * price - account.buyingPower = -x
      BY <1>2, <1>3, <1>5
    <3> QED
      BY <3>1
  <2> HIDE DEF x, gap
  <2>3. account'.buyingPower = x + gap /\ gap \in Int
    BY <1>4, <2>1, <2>2, ClampAdds DEF x, AtLeastZero
  <2> QED
    BY <2>1, <2>3
<1> HIDE DEF pos, netted, gap
<1>11. CashResults' = CashResults
  BY <1>4 DEF CashResults, LedgerSum, ClosurePnl
<1>12. CashConserved'
  <2>1. account.buyingPower + Tied = StartCash + offbook.cash + CashResults
    BY DEF CashInv, CashConserved, Tied, CashResults
  <2>2. /\ Tied \in Int /\ CashResults \in Int /\ StartCash \in Int /\ offbook.cash \in Int
        /\ account.buyingPower \in Int
    <3>1. Tied \in Int /\ CashResults \in Int
      BY CashNumbers
    <3>2. StartCash \in Int
      BY VenueAssumption
    <3> QED
      BY <1>3, <3>1, <3>2 DEF TypeOK
  <2>3. /\ closed * price \in Int /\ opened * price \in Int /\ closed * pos.avg \in Int
        /\ pos.qty * pos.avg \in Int
    BY <1>2, <1>3, <1>5
  <2> DEFINE a == account.buyingPower
             b == account'.buyingPower
             x == offbook.cash
             y == offbook'.cash
             sold == closed * price
             bought == opened * price
             cost == closed * pos.avg
             before == pos.qty * pos.avg
             after == filled.qty * filled.avg
  <2>4. /\ a + Tied = StartCash + x + CashResults /\ b = a + sold - bought + gap
        /\ after = before + bought - cost /\ Tied' = Tied - before + after
        /\ y = x + (sold - cost) + gap
    BY <1>4, <1>6, <1>7, <1>9, <1>10, <2>1
  <2>5. /\ Tied \in Int /\ CashResults \in Int /\ StartCash \in Int
        /\ a \in Int /\ x \in Int /\ sold \in Int /\ bought \in Int /\ cost \in Int
        /\ before \in Int /\ gap \in Int
    BY <1>10, <2>2, <2>3
  <2> HIDE DEF a, b, x, y, sold, bought, cost, before, after
  <2>6. b + Tied' = StartCash + y + CashResults
    BY <2>4, <2>5
  <2> QED
    BY <1>11, <2>6 DEF CashConserved, Tied, CashResults, b, y
<1>13. PricesPositive'
  BY <1>3, <1>4, <1>8 DEF CashInv, PricesPositive, IsHeld
<1> QED
  BY <1>12, <1>13 DEF CashInv

\* A step keeps the cash: only ClosePosition, TakeExit, FillRow and a PUT move
\* it, and no exit is booked below zero.
LEMMA CashStep == VenueInv /\ VenueInv' /\ CashInv /\ AveragesExact /\ [Next]_vars => CashInv'
<1> SUFFICES ASSUME VenueInv, VenueInv', CashInv, AveragesExact, [Next]_vars PROVE CashInv'
  OBVIOUS
<1>0. TypeOK /\ TypeOK'
  BY DEF VenueInv
<1> DEFINE Quiet == /\ account'.buyingPower = account.buyingPower + (offbook'.cash - offbook.cash)
                    /\ \A s \in Symbols : /\ positions'[s].qty = positions[s].qty
                                          /\ positions'[s].avg = positions[s].avg
                                          /\ positions'[s].best \in {positions[s].best} \cup Nat
<1>1. UNCHANGED ledger /\ Quiet => CashInv'
  BY <1>0, CashFrame
<1>2. UNCHANGED <<account, positions, offbook>> => Quiet
  BY <1>0 DEF TypeOK
<1>3. \A s \in Symbols : market[s] \in Nat
  BY <1>0, PricesAreNumbers DEF TypeOK
<1>4. ASSUME NEW s \in Symbols, NEW asked \in 1..positions[s].qty, ClosePosition(s, asked)
      PROVE  CashInv'
  <2> DEFINE qty == IF asked < positions[s].qty THEN asked ELSE positions[s].qty
  <2>1. qty \in 1..positions[s].qty /\ IsHeld(s)
    <3>1. IsHeld(s)
      BY <1>4 DEF ClosePosition
    <3>2. positions[s] \in PositionRow
      BY <1>0 DEF TypeOK
    <3>3. positions[s].qty \in Nat
      BY <3>2 DEF PositionRow
    <3> DEFINE open == positions[s].qty
    <3>4. asked \in 1..open
      OBVIOUS
    <3> HIDE DEF open
    <3>5. asked \in Nat /\ 1 <= asked /\ asked <= open /\ open \in Nat
      BY <3>3, <3>4 DEF open
    <3>6. asked \in 1..open /\ open \in 1..open
      BY <3>5
    <3>7. qty \in {asked, open}
      BY DEF open
    <3>8. qty \in 1..open
      BY <3>6, <3>7
    <3> QED BY <3>1, <3>8 DEF open
  <2>2. market[s] \in Nat \ {0}
    BY <1>3, <1>4 DEF ClosePosition, NoPrice
  <2>3. /\ ApplyFill(s, Opposite(positions[s].side), qty, market[s])
        /\ ledger' = Append(ledger, ClosureRow(s, qty, market[s], "manual"))
        /\ UNCHANGED offbook
    BY <1>4 DEF ClosePosition
  <2> HIDE DEF qty
  <2> QED
    BY <1>0, <2>1, <2>2, <2>3, CashClose
<1>5. ASSUME NEW a \in PutAccounts, ReplaceAccount(a) PROVE CashInv'
  <2>1. /\ account'.buyingPower = a.buyingPower
        /\ offbook'.cash = offbook.cash + a.buyingPower - account.buyingPower
    BY <1>5 DEF ReplaceAccount
  <2>2. /\ a.buyingPower \in Int /\ account.buyingPower \in Int /\ offbook.cash \in Int
    BY <1>0, VenueAssumption DEF TypeOK
  <2>3. account'.buyingPower = account.buyingPower + (offbook'.cash - offbook.cash)
    <3> DEFINE new == a.buyingPower
               old == account.buyingPower
               cash == offbook.cash
    <3>1. cash + new - old - cash + old = new
      BY <2>2
    <3>2. offbook'.cash = cash + new - old
      BY <2>1
    <3> HIDE DEF new, old, cash
    <3>3. new = old + (offbook'.cash - cash)
      BY <2>2, <3>2 DEF new, old, cash
    <3> QED
      BY <2>1, <3>3 DEF new, old, cash
  <2>4. Quiet
    BY <1>0, <1>5, <2>3 DEF ReplaceAccount
  <2> QED
    BY <1>1, <1>5, <2>4 DEF ReplaceAccount
<1>6. ASSUME NEW i \in rows, FillRow(i) PROVE CashInv'
  BY <1>0, <1>6, CashFill
<1>7. ASSUME NEW s \in held
      PROVE  /\ s \in Symbols /\ IsHeld(s) /\ positions[s].qty \in 1..positions[s].qty
             /\ positions[s] \in PositionRow /\ positions[s].avg > 0 /\ positions[s].best \in Nat
             /\ seen[s] \in Nat /\ (Bracketed(s) => seen[s] \in Nat \ {0})
  <2>1. s \in Symbols /\ IsHeld(s) /\ positions[s] \in PositionRow
    BY <1>0 DEF TypeOK, VenueInv, WorkListsValid
  <2>2. positions[s].avg > 0 /\ positions[s].best >= 0
    BY <2>1 DEF CashInv, PricesPositive
  <2>3. seen[s] \in Nat /\ (Bracketed(s) => seen[s] \in Nat \ {0})
    BY <1>0, <2>1, PricesAreNumbers DEF TypeOK, Bracketed, NoPrice
  <2> QED
    BY <2>1, <2>2, <2>3 DEF PositionRow, IsHeld
<1>8. ASSUME NEW s \in held, Bracketed(s)
      PROVE  BestNow(s) \in Nat /\ (BracketOf(s).trail # 0 => BestNow(s) > 0)
  <2>1. Ratchet(positions[s], seen[s]) \in Nat \ {0}
    BY <1>7, <1>8, RatchetPositive
  <2> QED
    BY <1>7, <2>1 DEF BestNow
<1>9. ASSUME NEW s \in held, LeaveOpen(s) PROVE CashInv'
  <2>1. \/ positions' = positions
        \/ Bracketed(s) /\ positions' = [positions EXCEPT ![s].best = BestNow(s)]
    BY <1>9 DEF LeaveOpen
  <2>2. UNCHANGED <<account, offbook>> /\ UNCHANGED ledger
    BY <1>9 DEF LeaveOpen, history
  <2>3. Quiet
    <3>1. CASE positions' = positions
      BY <1>2, <2>2, <3>1
    <3>2. CASE Bracketed(s) /\ positions' = [positions EXCEPT ![s].best = BestNow(s)]
      <4>1. BestNow(s) \in Nat
        BY <1>8, <3>2
      <4>2. positions \in [Symbols -> PositionRow] /\ account.buyingPower \in Int
            /\ offbook.cash \in Int
        BY <1>0 DEF TypeOK
      <4>3. \A x \in Symbols : /\ positions'[x].qty = positions[x].qty
                               /\ positions'[x].avg = positions[x].avg
                               /\ positions'[x].best \in {positions[x].best} \cup Nat
        BY <3>2, <4>1, <4>2 DEF PositionRow
      <4> QED
        BY <2>2, <4>2, <4>3
    <3> QED
      BY <2>1, <3>1, <3>2
  <2> QED
    BY <1>1, <2>2, <2>3
<1>10. ASSUME NEW s \in held, TakeExit(s) PROVE CashInv'
  <2>1. Bracketed(s) /\ ExitNow(s) # NoExit
    BY <1>10 DEF TakeExit
  <2>2. BracketOf(s) \in Ticket /\ positions[s].side \in Sides
    BY <1>0, <1>7, <2>1, VisitTypes DEF TypeOK
  <2>3. ExitNow(s).price > 0
    BY <1>7, <1>8, <2>1, <2>2, ExitAboveZero DEF ExitNow
  <2>4. ExitNow(s).kind \in {"stop", "target"} /\ ExitNow(s).price \in Int
    BY <1>0, <1>7, <2>1, VisitTypes
  <2>5. ExitNow(s).price \in Nat \ {0}
    BY <2>3, <2>4
  <2>6. /\ ApplyFill(s, Opposite(positions[s].side), positions[s].qty, ExitNow(s).price)
        /\ ledger' = Append(ledger,
                        ClosureRow(s, positions[s].qty, ExitNow(s).price, ExitNow(s).kind))
        /\ UNCHANGED offbook
    BY <1>10 DEF TakeExit
  <2> QED
    BY <1>0, <1>7, <2>4, <2>5, <2>6, CashClose
<1>11. CASE RefreshMarks
  <2>1. Quiet
    <3>1. account' = account /\ offbook' = offbook /\ positions' = [x \in Symbols |-> Marked(x)]
      BY <1>11 DEF RefreshMarks, history
    <3>2. account.buyingPower \in Int /\ offbook.cash \in Int
      BY <1>0 DEF TypeOK
    <3>3. account'.buyingPower = account.buyingPower + (offbook'.cash - offbook.cash)
      BY <3>1, <3>2
    <3>4. ASSUME NEW x \in Symbols
          PROVE  /\ positions'[x].qty = positions[x].qty /\ positions'[x].avg = positions[x].avg
                 /\ positions'[x].best = positions[x].best
      <4>1. positions[x] \in PositionRow /\ positions'[x] = Marked(x)
        BY <1>0, <3>1 DEF TypeOK
      <4> QED
        BY <4>1 DEF Marked, PositionRow
    <3> QED
      BY <3>3, <3>4
  <2> QED
    BY <1>1, <1>11, <2>1 DEF RefreshMarks
<1>12. CASE UNCHANGED vars
  BY <1>1, <1>2, <1>12 DEF vars, store, history
<1>13. CASE Handler
  <2>1. ASSUME NEW t \in Tickets, Submit(t) PROVE CashInv'
    BY <1>1, <1>2, <2>1 DEF Submit, history
  <2>2. ASSUME NEW t \in LiveTickets, NEW filled \in BOOLEAN, RecordLive(t, filled) PROVE CashInv'
    BY <1>1, <1>2, <2>2 DEF RecordLive, history
  <2>3. ASSUME NEW i \in Intents, Cancel(i) PROVE CashInv'
    BY <1>1, <1>2, <2>3 DEF Cancel, history
  <2> QED
    BY <1>4, <1>5, <1>13, <2>1, <2>2, <2>3 DEF Handler
<1>14. CASE Cycle
  <2>1. ASSUME NEW i \in rows, SkipRow(i) \/ ExpireRow(i) PROVE CashInv'
    BY <1>1, <1>2, <2>1 DEF SkipRow, ExpireRow, store, history
  <2>2. CASE StartCycle \/ BeginPending \/ EndPending \/ BeginBrackets \/ EndBrackets
    BY <1>1, <1>2, <2>2 DEF StartCycle, BeginPending, EndPending, BeginBrackets, EndBrackets,
                            store, history
  <2> QED
    BY <1>6, <1>9, <1>10, <1>11, <1>14, <2>1, <2>2 DEF Cycle
<1>15. CASE World
  BY <1>1, <1>2, <1>15 DEF World, NewCandle, NewDay, Restart, store, history
<1> QED
  BY <1>12, <1>13, <1>14, <1>15 DEF Next

\* The starting cash is all there is at first.
LEMMA CashInit == Init => CashInv
<1> SUFFICES ASSUME Init PROVE CashInv
  OBVIOUS
<1>1. SumFunction([s \in Symbols |-> positions[s].qty * positions[s].avg]) = 0
  <2> DEFINE f == [s \in Symbols |-> positions[s].qty * positions[s].avg]
  <2>1. \A s \in Symbols : positions[s].qty = 0 /\ positions[s].avg = 0
    BY DEF Init, Flat
  <2>2. f \in [Symbols -> Int] /\ (\A s \in Symbols : f[s] = 0) /\ IsFiniteSet(Symbols)
    BY <2>1, VenueAssumption
  <2> HIDE DEF f
  <2>3. SumFunction(f) = 0
    BY <2>2, SumZero
  <2> QED
    BY <2>3 DEF f
<1>2. CashResults = 0
  <2> DEFINE f == [k \in DOMAIN ledger |-> SideSign(ledger[k].side) * ClosurePnl(ledger[k])]
  <2>1. f \in [{} -> Int] /\ IsFiniteSet({})
    BY FS_EmptySet DEF Init
  <2>2. CashResults = SumFunction(f)
    BY DEF CashResults, LedgerSum
  <2> HIDE DEF f
  <2> QED
    BY <2>1, <2>2, SumType
<1>3. CashConserved
  <2>1. account.buyingPower = StartCash /\ offbook.cash = 0 /\ StartCash \in Int
    BY VenueAssumption DEF Init
  <2>2. StartCash + 0 = StartCash + 0 + 0
    BY <2>1
  <2> QED
    BY <1>1, <1>2, <2>1, <2>2 DEF CashConserved, CashResults
<1>4. PricesPositive
  BY DEF Init, PricesPositive, IsHeld, Flat
<1> QED
  BY <1>3, <1>4 DEF CashInv

\* Buying power and the notional tied up in positions never drift, on every run
\* whose additions average to whole prices: the store keeps averages as REALs,
\* the model rounds them down, and the rounding alone would lose cash.
THEOREM CashIsConserved == Spec /\ [][AveragesExact]_vars => []CashConserved
<1>1. VenueInv /\ CashInv /\ [Next]_vars /\ [AveragesExact]_vars => CashInv'
  <2>1. CASE UNCHANGED vars
    BY <2>1 DEF vars, store, history, CashInv, CashConserved, PricesPositive, LedgerSum,
                ClosurePnl, IsHeld
  <2>2. VenueInv /\ [Next]_vars => VenueInv'
    BY VenueInvStep
  <2> QED
    BY <2>1, <2>2, CashStep
<1>2. CashInv => CashConserved
  BY DEF CashInv
<1>3. Init => CashInv
  BY CashInit
<1>4. Spec => []VenueInv
  BY VenueInvariant
<1> QED
  BY <1>1, <1>2, <1>3, <1>4, PTL DEF Spec
=============================================================================

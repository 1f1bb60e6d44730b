----------------------------- MODULE MCPaperVenue -----------------------------
(***************************************************************************)
(* Instances of PaperVenue for TLC: the tickets of each run.  Prices are   *)
(* multiples of 12, so that averages over up to four units and trails of   *)
(* 25 or 50 percent are exact.                                             *)
(***************************************************************************)
EXTENDS PaperVenue

\* A plain market ticket, to be altered.
Plain(s, side, qty) ==
    [symbol |-> s, side |-> side, qty |-> qty, entry |-> 24, type |-> "market",
     limit |-> NoPrice, tif |-> "gtc", expires |-> NoDay,
     stop |-> NoPrice, target |-> NoPrice, trail |-> 0]

\* Protection: two longs under different stops, a trailed day-limit short.
MCBracketTickets ==
    {[Plain("S", "long", 1) EXCEPT !.stop = 12, !.target = 36],
     [Plain("S", "long", 1) EXCEPT !.stop = 24],
     [Plain("S", "short", 1) EXCEPT !.type = "limit", !.limit = 24, !.tif = "day",
                                    !.stop = 36, !.trail = 50]}

\* Books: both sides, sizes that net, cash that runs out.
MCBookTickets ==
    {[Plain("S", "long", 2) EXCEPT !.target = 24], Plain("S", "short", 1)}

\* Orders: every type and time in force, over two symbols.
MCOrderTickets ==
    {[Plain("S", "long", 2) EXCEPT !.type = "limit", !.limit = 12, !.tif = "day"],
     [Plain("S", "short", 1) EXCEPT !.type = "stop", !.limit = 12, !.tif = "gtd", !.expires = 2],
     [Plain("T", "short", 1) EXCEPT !.stop = 24]}
MCOneLive == {[Plain("T", "short", 1) EXCEPT !.type = "limit", !.limit = 24, !.trail = 25]}

MCOnePut == {[balance |-> 60, buyingPower |-> 60, realizedPnl |-> 0]}
MCNoPut == {}
MCNoLive == {}

\* Protection sees either a new day or a restart, under the fairness of FairSpec.
MCOneOfBoth == Init /\ (day = LastDay) # (restarts = MaxRestarts)
MCProtection == MCOneOfBoth /\ [][Next]_vars /\ WF_vars(Cycle)
=============================================================================

------------------------------ MODULE VenueClaims ------------------------------
(***************************************************************************)
(* What the documentation and the comments of the repository say of the    *)
(* paper venue, where the code does something else.  Each claim is the     *)
(* single property of a run that finds a behaviour of PaperVenue violating *)
(* it; PROJECT.json quotes the sentence behind each.                       *)
(***************************************************************************)
EXTENDS MCPaperVenue

AllFlat == \A s \in Symbols : ~IsHeld(s)

\* "Shorts reserve the same notional as margin" (submit_paper_trade): margin is
\* given back, so an account with nothing open has its starting cash and what
\* it realized as buying power.
MarginIsReturned ==
    AllFlat => account.buyingPower = StartCash + account.realizedPnl

\* "Stop & target act as a live OCO bracket: the position closes automatically
\* when either level trades": after enforcement no open position has the cycle's
\* price at or beyond the plan stop of an order that built it.
PlanStopsAct ==
    [][EndBrackets =>
         \A s \in Symbols : IsHeld(s) /\ seen[s] # NoPrice =>
            \A i \in origin[s] :
               LET planned == intents[i].ticket.stop
               IN  planned # NoPrice => ~NoWorse(positions[s].side, seen[s], planned)]_vars

-----------------------------------------------------------------------------
(* The smallest tickets that show each.                                    *)

MCShort == {Plain("S", "short", 1)}
MCAdded == {[Plain("S", "long", 1) EXCEPT !.stop = 12], Plain("S", "long", 1)}
=============================================================================

----------------------------- MODULE MCPaperRaces -----------------------------
(***************************************************************************)
(* Instances of PaperRaces for TLC.                                        *)
(***************************************************************************)
EXTENDS PaperRaces

Plain(side, qty) ==
    [symbol |-> "S", side |-> side, qty |-> qty, entry |-> 24, type |-> "market",
     limit |-> NoPrice, tif |-> "gtc", expires |-> NoDay,
     stop |-> NoPrice, target |-> NoPrice, trail |-> 0]

\* A long under a stop, a long limit under a trail, and a short that turns a
\* long around.  The short has no bracket: were both sides closed by the job, a
\* stale close after each exit could go on opening the other side for ever.
MCRaceTickets ==
    {[Plain("long", 1) EXCEPT !.stop = 12],
     [Plain("long", 1) EXCEPT !.type = "limit", !.limit = 12, !.trail = 50],
     Plain("short", 2)}

\* One stopped long.
MCStopped == {[Plain("long", 1) EXCEPT !.stop = 12]}
=============================================================================

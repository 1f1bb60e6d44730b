----------------------------- MODULE MCVenueBooks -----------------------------
(***************************************************************************)
(* PaperVenue for TLC in two scenes, each over a part of the same          *)
(* constants: sizes that net and cash that runs out, with a PUT account    *)
(* and a restart ("books"), and every type and time in force over two      *)
(* symbols and two days, with live tickets ("orders").                     *)
(***************************************************************************)
EXTENDS MCPaperVenue

CONSTANT Scenes

VARIABLE scene
mcvars == <<vars, scene>>

MCTickets == MCBookTickets \cup MCOrderTickets
\* The tickets a scene is about.
Played == IF scene = "books" THEN MCBookTickets ELSE MCOrderTickets \cup MCOneLive

\* Books begin on the last day; orders on the first, with no restart left.
MCInit ==
    /\ Init /\ scene \in Scenes
    /\ IF scene = "books" THEN day = LastDay /\ restarts = 0
       ELSE day = 1 /\ restarts = MaxRestarts
\* Books are kept in one symbol; orders see no PUT.
MCNext ==
    /\ Next /\ UNCHANGED scene
    /\ \A i \in DOMAIN intents' : intents'[i].ticket \in Played
    /\ IF scene = "books" THEN market'["T"] = NoPrice ELSE ~\E a \in PutAccounts : ReplaceAccount(a)
MCSpec == MCInit /\ [][MCNext]_mcvars
=============================================================================

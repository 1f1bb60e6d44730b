------------------------------ MODULE DeskClaims ------------------------------
(***************************************************************************)
(* What a comment of the repository says of the trading desk, where the    *)
(* code does something else: the single property of a run that finds a     *)
(* behaviour violating it; PROJECT.json quotes the sentence.               *)
(***************************************************************************)
EXTENDS MCDesk

\* "A client on the legacy signature only gets plain market orders - resting
\* orders, trails, and bracket legs are refused rather than silently downgraded to
\* an unprotected market fill" (_submit_live_trade): no order of such a client
\* came from a ticket with a planned stop.
BracketsRefused == \A i \in DOMAIN placed : placed[i].client = "plain" => ~placed[i].stop
=============================================================================

---------------------------- MODULE MCAlertEngine -----------------------------
(***************************************************************************)
(* Instances of AlertEngine for TLC.                                       *)
(***************************************************************************)
EXTENDS AlertEngine

MCDrafts ==
    {[symbol |-> "S", condition |-> [mode |-> "above", threshold |-> 2], channel |-> "telegram"],
     [symbol |-> "S", condition |-> [mode |-> "crosses_below", threshold |-> 2],
      channel |-> "desktop"],
     [symbol |-> "S", condition |-> Unparsable, channel |-> "desktop"]}

MCOneDraft ==
    {[symbol |-> "S", condition |-> [mode |-> "above", threshold |-> 2], channel |-> "desktop"]}
=============================================================================

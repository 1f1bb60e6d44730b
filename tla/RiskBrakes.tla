------------------------------ MODULE RiskBrakes ------------------------------
(***************************************************************************)
(* RiskMetaService.list_risk_signals (services/risk_meta.py): the brakes   *)
(* the signal feed shows a trader, read from the paper account, the        *)
(* constitution and the process scores of the latest trades, never from    *)
(* the market.                                                             *)
(*                                                                         *)
(* A desk is [balance, positions, cap, filed, scores]: what is open, each  *)
(* [side, quantity, price, pnl]; the constitution's cap on a day's trades, *)
(* 0 if none is adopted; the tickets of today; the scores, latest first.   *)
(***************************************************************************)
EXTENDS Integers, Sequences, FiniteSets, SequencesExt, Functions

HeatPercent == 30
ConcentrationPercent == 15
ClusterSize == 3
DrawdownPercent == 5
ProcessBar == 50
ProcessSample == 5

Notional(p) == p.quantity * p.price
Notionals(d) == [i \in DOMAIN d.positions |-> Notional(d.positions[i])]
SumOf(amounts) == FoldLeft(LAMBDA total, x : total + x, 0, amounts)
\* Whether an amount is at least that many percent of the account.
Fills(amount, percent, d) == 100 * amount >= percent * d.balance

HeatElevated(d) == d.positions # <<>> /\ Fills(SumOf(Notionals(d)), HeatPercent, d)
Concentrated(d) == \E i \in DOMAIN d.positions : Fills(Notional(d.positions[i]), ConcentrationPercent, d)
SideOf(d, side) == SelectSeq(d.positions, LAMBDA p : p.side = side)
Clustered(d, side) == Len(SideOf(d, side)) >= ClusterSize
DrawnDown(d) == 100 * SumOf([i \in DOMAIN d.positions |-> d.positions[i].pnl]) < -DrawdownPercent * d.balance
CapReached(d) == d.cap > 0 /\ d.filed >= d.cap
ProcessBroke(d) ==
    /\ Len(d.scores) >= ProcessSample
    /\ SumOf(SubSeq(d.scores, 1, ProcessSample)) < ProcessBar * ProcessSample

\* What each condition emits, in the order they are asked; the market's own
\* conditions need an account with money in it.
Brake(name, severity, holds) == IF holds THEN <<[name |-> name, severity |-> severity]>> ELSE <<>>
ClusterOf == [long |-> "long cluster", short |-> "short cluster"]
Asked(d) ==
    LET solvent == d.balance > 0
        first == IF d.positions = <<>> THEN "long" ELSE d.positions[1].side
        second == IF first = "long" THEN "short" ELSE "long"
    IN  Brake("heat", 3, solvent /\ HeatElevated(d)) \o Brake("concentration", 2, solvent /\ Concentrated(d))
        \o Brake(ClusterOf[first], 2, solvent /\ Clustered(d, first))
        \o Brake(ClusterOf[second], 2, solvent /\ Clustered(d, second))
        \o Brake("drawdown", 3, solvent /\ DrawnDown(d))
        \o Brake("cooldown", 3, CapReached(d)) \o Brake("kill switch", 3, ProcessBroke(d))
\* The severe ones first, otherwise in that order (list.sort is stable).
RiskSignals(d) ==
    SelectSeq(Asked(d), LAMBDA b : b.severity = 3) \o SelectSeq(Asked(d), LAMBDA b : b.severity = 2)

(***************************************************************************)
(* Property.                                                               *)
(***************************************************************************)
Shown(d) == {b.name : b \in Range(RiskSignals(d))}
Times(d, k) ==
    [d EXCEPT !.balance = k * @,
              !.positions = [i \in DOMAIN @ |-> [@[i] EXCEPT !.quantity = k * @, !.pnl = k * @]]]
Closing(d, i) == [d EXCEPT !.positions = RemoveAt(@, i)]

\* The brakes of risk_meta.py are of one mind: every condition is shown once; two
\* concentrated positions are heat as well; an account ten times the size, traded
\* alike, has the same brakes; to close a position that is losing sets no brake
\* off; what is severe stands before what is not, and a spent account hears of
\* nothing but the day's cap and the process.
BrakesSound(d) ==
    /\ Cardinality(Shown(d)) = Len(RiskSignals(d))
    /\ d.balance > 0 /\ Cardinality({i \in DOMAIN d.positions : Fills(Notional(d.positions[i]), ConcentrationPercent, d)}) > 1
          => "heat" \in Shown(d)
    /\ Shown(Times(d, 10)) = Shown(d)
    /\ \A i \in DOMAIN d.positions : d.positions[i].pnl <= 0 => Shown(Closing(d, i)) \subseteq Shown(d)
    /\ \A i, j \in DOMAIN RiskSignals(d) : i < j => RiskSignals(d)[i].severity >= RiskSignals(d)[j].severity
    /\ d.balance <= 0 => Shown(d) \subseteq {"cooldown", "kill switch"}
=============================================================================

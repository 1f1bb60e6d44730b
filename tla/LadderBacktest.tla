---------------------------- MODULE LadderBacktest -----------------------------
(***************************************************************************)
(* The backtest behind a signal and the confidence drawn from it:          *)
(* simulate_ladder_trade and run_backtest (services/signal_engine/         *)
(* backtest.py), statistics.py, confidence.py, composites.py and           *)
(* get_pooled_expectancy (storage/analytics_store.py).                     *)
(*                                                                         *)
(* Prices are whole ticks.  The result of a trade is counted in tenths of  *)
(* a tick per unit, which the tenths of TP_LADDER_WEIGHTS divide exactly;  *)
(* dividing by ten times the risk gives R.  Scores are in 1/10000.         *)
(***************************************************************************)
EXTENDS Integers, Sequences, FiniteSets, SequencesExt

Weights == <<5, 3, 2>>   \* TP_LADDER_WEIGHTS
MaxHoldBars(timeframe) ==
    CASE timeframe = "15m" -> 32 [] timeframe = "1h" -> 24
      [] timeframe = "4h" -> 18 [] timeframe = "1d" -> 12 [] OTHER -> 14

Least(a, b) == IF a < b THEN a ELSE b
Most(a, b) == IF a < b THEN b ELSE a
Gain(entry, exit, isLong) == IF isLong THEN exit - entry ELSE entry - exit
Stops(bar, stop, isLong) == IF isLong THEN bar.low <= stop ELSE bar.high >= stop
Reaches(bar, level, isLong) == IF isLong THEN bar.high >= level ELSE bar.low <= level

\* One bar of the forward loop: the stop takes what remains, else every rung
\* reached for the first time takes its share.
Bar(trade, state, bar) ==
    LET rungs == 1..Least(Len(trade.targets), Len(Weights))
        new == {i \in rungs \ state.hit : Reaches(bar, trade.targets[i], trade.isLong)}
        taken == FoldLeft(LAMBDA sum, i : sum + (IF i \in new THEN Weights[i] ELSE 0), 0, <<1, 2, 3>>)
        won == FoldLeft(LAMBDA sum, i : sum + (IF i \in new THEN Weights[i] *
                           Gain(trade.entry, trade.targets[i], trade.isLong) ELSE 0), 0, <<1, 2, 3>>)
    IN  CASE state.remaining = 0 -> state
          [] state.remaining > 0 /\ Stops(bar, trade.stop, trade.isLong) ->
                [state EXCEPT !.remaining = 0, !.result = @ + state.remaining *
                                   Gain(trade.entry, trade.stop, trade.isLong)]
          [] OTHER -> [remaining |-> Most(0, state.remaining - taken), hit |-> state.hit \cup new,
                       result |-> state.result + won]

\* simulate_ladder_trade before costs: what is left after the last bar held goes
\* at its close (the close of the entry bar when there is none).
LadderResult(trade, bars) ==
    LET end == FoldLeft(LAMBDA state, bar : Bar(trade, state, bar),
                        [remaining |-> 10, hit |-> {}, result |-> 0], bars)
        exit == IF bars = <<>> THEN trade.close ELSE Last(bars).close
    IN  end.result + end.remaining * Gain(trade.entry, exit, trade.isLong)

\* run_backtest from the outcomes, in order of time: the first share trains, the
\* rest tests, at least one trains.
SplitAt(outcomes, share) == Most(1, (Len(outcomes) * share) \div 100)
InSample(outcomes, share) == SubSeq(outcomes, 1, SplitAt(outcomes, share))
OutOfSample(outcomes, share) == SubSeq(outcomes, SplitAt(outcomes, share) + 1, Len(outcomes))
Total(outcomes) == FoldLeft(+, 0, outcomes)
Wins(outcomes) == Cardinality({i \in DOMAIN outcomes : outcomes[i] > 0})
Validated(outcomes, share, minimum) ==
    outcomes # <<>> /\ LET test == OutOfSample(outcomes, share) IN
                       Len(test) >= minimum /\ Total(test) > 0
BacktestOf(outcomes, share, minimum) ==
    [trades |-> Len(outcomes), wins |-> Wins(outcomes), sum |-> Total(outcomes),
     tested |-> IF outcomes = <<>> THEN 0 ELSE Len(OutOfSample(outcomes, share)),
     validated |-> Validated(outcomes, share, minimum)]

\* get_pooled_expectancy over the rows of a setup and timeframe.
Pooled(rows) ==
    FoldLeft(LAMBDA sum, row : [trades |-> sum.trades + row.trades, wins |-> sum.wins + row.wins,
                                sum |-> sum.sum + row.sum],
             [trades |-> 0, wins |-> 0, sum |-> 0], rows)

-----------------------------------------------------------------------------
\* calibrate_win_rate less one half, in 1/10000, shrunk towards zero by a prior
\* of the minimum sample; and the mean R, in 1/10000, held to one either way.
Edge(sample, prior) ==
    IF sample.trades <= 0 THEN 0
    ELSE (5000 * (2 * sample.wins - sample.trades)) \div (sample.trades + prior)
MeanR(sample) ==
    IF sample.trades = 0 THEN 0
    ELSE Most(-10000, Least(10000, (sample.sum * 10000) \div sample.trades))

\* derive_confidence.  alignment and volume are in hundredths; round()
\* rounds a half to even, here it goes up.
DeriveConfidence(state, backtest, pooled, minimum) ==
    LET base == CASE state.signal = "WAIT" -> 42 [] state.signal \in {"HOLD", "WATCH"} -> 52
                  [] OTHER -> 58
        evidence == IF pooled.trades >= minimum
                    THEN 32 * Edge(pooled, minimum) + 10 * MeanR(pooled)
                    ELSE 20 * Edge(backtest, minimum) + 8 * MeanR(backtest) - 80000
        score == 10000 * base + 1400 * state.alignment + 800 * state.volume
                 + 18 * (state.score - 5000) + evidence
        capped == IF backtest.validated THEN score ELSE Least(score, 620000)
    IN  Most(20, Least(89, (capped + 5000) \div 10000))

\* conformal_interval at nine tenths: the ranks of its two ends among n outcomes.
LowerRank(n) == (n + 1) \div 20
UpperRank(n) == -((-(19 * (n + 1))) \div 20)
Guaranteed(n) == n > 0 /\ LowerRank(n) >= 1 /\ UpperRank(n) <= n

\* derive_composite_flags: what the pooled win rate and the age of the data say.
CompositeFlags(isBreak, pooled, minimum, age, limit) ==
    LET known == pooled.trades >= minimum
        rate == 5000 + Edge(pooled, minimum)
    IN  (IF known /\ rate >= 6000 THEN {"follow_through_high"} ELSE {})
        \cup (IF known /\ rate <= 4200 THEN {"follow_through_low"} ELSE {})
        \cup (IF known /\ isBreak /\ rate < 4500 THEN {"false_break_probability_high"} ELSE {})
        \cup (IF age > limit THEN {"signal_decay_warning"} ELSE {})

-----------------------------------------------------------------------------
\* Where a share of the position leaves, told without the loop: at its rung if a
\* bar before the first stopped one reaches it, else at the stop if there is one,
\* else at the last close.
FirstOf(bars, Holds(_)) ==
    IF \E i \in DOMAIN bars : Holds(bars[i])
    THEN CHOOSE i \in DOMAIN bars : Holds(bars[i]) /\ \A j \in 1..(i - 1) : ~Holds(bars[j])
    ELSE Len(bars) + 1
Share(trade, bars, i) ==
    LET stopped == FirstOf(bars, LAMBDA bar : Stops(bar, trade.stop, trade.isLong))
        reached == FirstOf(bars, LAMBDA bar : Reaches(bar, trade.targets[i], trade.isLong))
    IN  IF i \in DOMAIN trade.targets /\ reached < stopped /\ reached <= Len(bars)
        THEN trade.targets[i]
        ELSE IF stopped <= Len(bars) THEN trade.stop
        ELSE IF bars = <<>> THEN trade.close ELSE Last(bars).close

\* The backtest pays each rung its displayed weight and takes the stop honestly
\* (module docstring): every share leaves where the bars say, a bar that touches
\* both stop and target is a stop, and no trade loses more than its risk.
LadderSound(trade, bars) ==
    LET result == LadderResult(trade, bars)
    IN  /\ result = FoldLeft(LAMBDA sum, i : sum + Weights[i] *
                                 Gain(trade.entry, Share(trade, bars, i), trade.isLong),
                             0, <<1, 2, 3>>)
        /\ bars # <<>> => result >= 10 * Gain(trade.entry, trade.stop, trade.isLong)

\* Confidence is a promise: between 20 and 89; above 62 only with a validated test
\* on at least the minimum of trades that made money; a further win in the same
\* sample never lowers it; and the same hit rate on a pooled sample twice the size
\* never counts for less when it is above one half.  A break is never called both
\* likely to follow through and likely to fail.
ConfidenceSound(state, outcomes, share, minimum, pooled) ==
    LET backtest == BacktestOf(outcomes, share, minimum)
        Now(b, p) == DeriveConfidence(state, b, p, minimum)
        better == [pooled EXCEPT !.wins = @ + 1]
        larger == [trades |-> 2 * pooled.trades, wins |-> 2 * pooled.wins, sum |-> 2 * pooled.sum]
        flags == CompositeFlags(TRUE, pooled, minimum, 0, 0)
    IN  /\ Now(backtest, pooled) \in 20..89
        /\ Now(backtest, pooled) > 62 =>
              backtest.tested >= minimum /\ Total(OutOfSample(outcomes, share)) > 0
        /\ pooled.wins < pooled.trades => Now(backtest, better) >= Now(backtest, pooled)
        /\ (pooled.trades >= minimum /\ 2 * pooled.wins >= pooled.trades) =>
              Now(backtest, larger) >= Now(backtest, pooled)
        /\ "follow_through_high" \in flags => "false_break_probability_high" \notin flags
        /\ \A n \in {Len(outcomes), pooled.trades} : Guaranteed(n) =>
              10 * (UpperRank(n) - LowerRank(n)) >= 9 * (n + 1)
=============================================================================

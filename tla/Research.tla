------------------------------- MODULE Research -------------------------------
(***************************************************************************)
(* The backtest workbench: list_backtest_presets, run_backtest_analysis    *)
(* and the strategy lookups of SignalEngineService, strategy_registry.py,  *)
(* the statistics of signal_engine/statistics.py, workbench.py, and the    *)
(* verdict and narration of research_review.py and narration.py.           *)
(*                                                                         *)
(* A strategy definition is [id, setups, markets, timeframes, source,      *)
(* makes]: makes is what its candidate factory gives, Raises when it       *)
(* raises.  A series is [symbol, market, timeframe, enough, setup, runs]:  *)
(* the setup of its newest candle (NoSetup when there is none) and, for    *)
(* each setup, the outcomes of its replay before costs with what a percent *)
(* of costs takes from each, in 1/100 R.  Costs are in 1/100 %.  Symbols,  *)
(* timeframes and setups are numbers in the order their names sort.        *)
(***************************************************************************)
EXTENDS Integers, Sequences, FiniteSets, SequencesExt

NoSetup == 0
Raises == <<"raises">>
FewOutcomes == 10      \* under these monte_carlo_drawdowns declines
ThinSample == 30

Sum(values) == FoldLeft(+, 0, values)
Magnitude(x) == IF x < 0 THEN -x ELSE x
AtMost(a, b) == IF a < b THEN a ELSE b
AtLeast(a, b) == IF a < b THEN b ELSE a

\* The registry's items are sorted by id; a definition without markets or
\* timeframes serves all of them here.
Matching(definitions, market, timeframe) ==
    SelectSeq(SortSeq(definitions, LAMBDA d, e : d.id < e.id),
              LAMBDA d : /\ d.setups # <<>>
                         /\ d.markets # {} => market \in d.markets
                         /\ d.timeframes # {} => timeframe \in d.timeframes)
StrategyFor(definitions, setup, market, timeframe) ==
    LET serving == SelectSeq(Matching(definitions, market, timeframe), LAMBDA d : Contains(d.setups, setup))
    IN  IF serving = <<>> THEN 0 ELSE serving[1].id

\* candidate_setups: in the order of registration, and a definition without
\* markets serves none; then _extension_candidate_setups drops what is not whole.
Candidates(definitions, market, timeframe) ==
    LET asked == SelectSeq(definitions, LAMBDA d : d.makes # Raises /\ market \in d.markets
                                                   /\ timeframe \in d.timeframes)
        made == FlattenSeq([i \in DOMAIN asked |->
                               [k \in DOMAIN asked[i].makes |-> [asked[i].makes[k] EXCEPT !.strategy = asked[i].id]]])
    IN  SelectSeq(made, LAMBDA c : c.whole)

-----------------------------------------------------------------------------
\* The outcomes of a replay at a cost, and what run_backtest says of them.
Costs(market) == IF market = "crypto" THEN [fees |-> 10, slippage |-> 5] ELSE [fees |-> 2, slippage |-> 1]
Net(run, fees, slippage) ==
    [i \in DOMAIN run.gross |-> run.gross[i] - (2 * (fees + slippage) * run.cost[i]) \div 100]
Mean(outcomes) == IF outcomes = <<>> THEN 0 ELSE Sum(outcomes) \div Len(outcomes)
Backtest(outcomes, split, minimum) ==
    LET k == AtMost(Len(outcomes), AtLeast(1, (Len(outcomes) * split) \div 100))
        test == SubSeq(outcomes, k + 1, Len(outcomes))
    IN  [trades |-> Len(outcomes), wins |-> Len(SelectSeq(outcomes, LAMBDA x : x > 0)),
         expectancy |-> Mean(outcomes), seen |-> Mean(SubSeq(outcomes, 1, k)), unseen |-> Mean(test),
         tested |-> Len(test), validated |-> Len(test) >= minimum /\ Sum(test) > 0]

\* Gross wins over gross losses, in hundredths; without losses the wins alone.
ProfitFactor(outcomes) ==
    LET wins == Sum(SelectSeq(outcomes, LAMBDA x : x > 0))
        losses == -Sum(SelectSeq(outcomes, LAMBDA x : x < 0))
    IN  IF losses = 0 THEN wins ELSE (100 * wins) \div losses
\* Each outcome moves the equity by 1.2 % per R; the curve shown stays above one.
Step(equity, outcome) == equity + (equity * 12 * outcome) \div 100000
EquityCurve(outcomes) ==
    LET equity == FoldLeft(LAMBDA curve, x : Append(curve, Step(Last(curve), x)), <<100000>>, outcomes)
    IN  [i \in DOMAIN equity |-> AtLeast(equity[i], 1000)]
DrawdownCurve(equity) ==
    LET peak(i) == FoldLeft(LAMBDA top, x : AtLeast(top, x), Head(equity), SubSeq(equity, 1, i))
    IN  [i \in DOMAIN equity |-> -(((peak(i) - equity[i]) * 100) \div (peak(i) \div 100))]
\* The worst fall of a running sum from its peak, over one reshuffling.
MaxDrawdown(outcomes) ==
    LET end == FoldLeft(LAMBDA a, x : [sum |-> a.sum + x, peak |-> AtLeast(a.peak, a.sum + x),
                                       worst |-> AtMost(a.worst, a.sum + x - AtLeast(a.peak, a.sum + x))],
                        [sum |-> 0, peak |-> 0, worst |-> 0], outcomes)
    IN  end.worst
\* draws: the reshufflings the seeded generator made.
MonteCarlo(outcomes, draws) ==
    LET falls == SortSeq([i \in DOMAIN draws |-> MaxDrawdown(draws[i])], LAMBDA x, y : x < y)
    IN  IF Len(outcomes) < FewOutcomes THEN [available |-> FALSE, median |-> 0, tail |-> 0]
        ELSE [available |-> TRUE, median |-> falls[Len(falls) \div 2 + 1], tail |-> falls[(Len(falls) * 5) \div 100 + 1]]

Stressed(fees, slippage) ==
    <<<<fees, slippage>>, <<fees, 2 * slippage>>, <<fees, 3 * slippage>>, <<2 * fees, 2 * slippage>>>>
StressTable(run, fees, slippage) ==
    [i \in 1..4 |-> Net(run, Stressed(fees, slippage)[i][1], Stressed(fees, slippage)[i][2])]

BiasGates(backtest, minimum, fees, slippage, walkForward) ==
    [lookahead |-> "pass", survivorship |-> "info", snooping |-> "info",
     costs |-> IF fees + slippage > 0 THEN "pass" ELSE "fail",
     sample |-> IF backtest.trades >= minimum THEN "pass" ELSE "warn",
     oos |-> IF backtest.validated THEN "pass" ELSE "warn",
     walk |-> IF walkForward THEN "pass" ELSE "warn"]
Verdict(backtest, gates) ==
    LET said(status) == \E g \in DOMAIN gates : gates[g] = status
    IN  IF said("fail") \/ ~backtest.validated THEN "not approved"
        ELSE IF said("warn") THEN "with cautions" ELSE "paper candidate"
OverfitRisk(backtest) ==
    IF backtest.trades < ThinSample THEN "unknown"
    ELSE IF backtest.seen > 0 /\ backtest.unseen <= 0 THEN "high"
    ELSE IF 2 * backtest.unseen < backtest.seen THEN "moderate" ELSE "low"

-----------------------------------------------------------------------------
\* run_backtest_analysis: no preset without candles or without a setup now.
Analysable(s) == s.enough /\ s.setup # NoSetup
Preset(s, setup, strategy) ==
    [id |-> <<s.symbol, s.timeframe, setup>>, market |-> s.market, setup |-> setup, strategy |-> strategy,
     trades |-> IF setup \in DOMAIN s.runs THEN Len(s.runs[setup].gross) ELSE 0]
Analysis(s, setup, definitions) == Preset(s, setup, StrategyFor(definitions, setup, s.market, s.timeframe))

\* list_backtest_presets: the setup of now, then what the strategies name, each
\* once; a built-in's setup without a trade is left out.  The reply is sorted by
\* timeframe and name.
Offered(s, definitions, taken) ==
    LET named == FlattenSeq([i \in DOMAIN Matching(definitions, s.market, s.timeframe) |->
                    LET d == Matching(definitions, s.market, s.timeframe)[i]
                    IN  [k \in DOMAIN d.setups |-> [preset |-> Preset(s, d.setups[k], d.id), source |-> d.source]]])
    IN  FoldLeft(LAMBDA list, o :
                    IF \/ o.preset.setup = s.setup
                       \/ \E i \in DOMAIN list : list[i].id = o.preset.id
                       \/ \E i \in DOMAIN taken : taken[i].id = o.preset.id
                       \/ o.preset.trades = 0 /\ o.source = "built-in"
                    THEN list ELSE Append(list, o.preset),
                 <<>>, named)
SortsBefore(p, q) ==
    LET key(x) == <<x.id[2], x.id[1], x.id[3]>>
    IN  \E k \in 1..3 : key(p)[k] < key(q)[k] /\ \A j \in 1..k - 1 : key(p)[j] = key(q)[j]
Presets(series, definitions) ==
    LET built == FoldLeft(LAMBDA list, s :
                    IF ~Analysable(s) THEN list
                    ELSE LET with == Append(list, Analysis(s, s.setup, definitions))
                         IN  with \o Offered(s, definitions, with),
                    <<>>, series)
    IN  SortSeq(built, SortsBefore)

-----------------------------------------------------------------------------
\* Narration: the numbers of a text and of the facts are in hundredths.  The raw
\* answer of the model is [form, numbers]: "json", "broken", "plain" or "empty",
\* or NoAnswer.  The signals' narrator (strict) drops broken JSON, the review's
\* keeps it; an empty text is a failure of the one and a refusal of the other.
NoAnswer == [form |-> "none", numbers |-> {}]
AlwaysAllowed == {0, 100, 200, 300, 10000}
Near(value, fact) == 100 * Magnitude(value - fact) <= AtLeast(Magnitude(fact), 500)
PassesFactGuard(numbers, facts) ==
    \A v \in numbers : v \in AlwaysAllowed \/ \E f \in facts \cup AlwaysAllowed : Near(v, f)
Narrated(enabled, answer, facts, strict) ==
    IF ~enabled THEN "template"
    ELSE IF answer = NoAnswer \/ (strict /\ answer.form \in {"broken", "empty"}) THEN "template-fallback"
    ELSE IF answer.form = "empty" \/ ~PassesFactGuard(answer.numbers, facts) THEN "template-guarded"
    ELSE "model"

-----------------------------------------------------------------------------
\* The presets of series with distinct names are distinct and sorted, every series
\* that can be analysed has that of its setup, a preset belongs to a strategy that names its
\* setup and serves its series (or to none), and an extension's setup is listed
\* though it never traded; candidates come only from strategies that did not
\* raise (list_backtest_presets, candidate_setups).
PresetsSound(series, definitions) ==
    LET list == Presets(series, definitions)
        distinct == \A i, j \in DOMAIN series :
                       (series[i].symbol = series[j].symbol /\ series[i].timeframe = series[j].timeframe) => i = j
        byId(d) == CHOOSE e \in ToSet(definitions) : e.id = d
        serves(d, s) == d \in ToSet(Matching(definitions, s.market, s.timeframe))
    IN  /\ distinct => \A i, j \in DOMAIN list : i < j => SortsBefore(list[i], list[j])
        /\ \A s \in ToSet(series) : Analysable(s) =>
              \E i \in DOMAIN list : list[i].id = <<s.symbol, s.timeframe, s.setup>>
        /\ \A i \in DOMAIN list : list[i].strategy # 0 =>
              /\ Contains(byId(list[i].strategy).setups, list[i].setup)
              /\ \E s \in ToSet(series) : s.symbol = list[i].id[1] /\ serves(byId(list[i].strategy), s)
        /\ \A s \in ToSet(series), d \in ToSet(definitions) :
              (Analysable(s) /\ serves(d, s) /\ d.source = "extension") =>
                  \A k \in DOMAIN d.setups : \E i \in DOMAIN list : list[i].id = <<s.symbol, s.timeframe, d.setups[k]>>
        /\ \A s \in ToSet(series) : \A i \in DOMAIN Candidates(definitions, s.market, s.timeframe) :
              LET c == Candidates(definitions, s.market, s.timeframe)[i]
              IN  c.whole /\ byId(c.strategy).makes # Raises /\ serves(byId(c.strategy), s)

\* The verdict is arithmetic: costs that are worse never help a trade, a run is a
\* candidate for paper only when it was charged, replayed forward, large enough
\* and made money out of sample; an edge that vanished out of sample is never
\* approved; a run that gives up a trade in the test, or that loses where it won,
\* is not judged better.  Nothing falls further than the sum of its losses, the
\* tail of the falls is no better than their middle, and equity is at a peak
\* exactly when it is not in a drawdown (workbench.py, research_review.py).
VerdictSound(run, split, minimum, fees, slippage, walkForward) ==
    LET rank(v) == CASE v = "not approved" -> 0 [] v = "with cautions" -> 1 [] OTHER -> 2
        judged(outcomes) == Backtest(outcomes, split, minimum)
        says(b) == Verdict(b, BiasGates(b, minimum, fees, slippage, walkForward))
        outcomes == Net(run, fees, slippage)
        b == judged(outcomes)
        table == StressTable(run, fees, slippage)
        losses == Sum(SelectSeq(outcomes, LAMBDA x : x < 0))
        equity == EquityCurve(outcomes)
        draws == <<outcomes, Reverse(outcomes), [i \in DOMAIN outcomes |-> outcomes[1]]>>
    IN  /\ \A i \in DOMAIN outcomes : /\ table[1][i] >= table[2][i] /\ table[2][i] >= table[3][i]
                                      /\ table[2][i] >= table[4][i] /\ table[1] = outcomes
        /\ says(b) = "paper candidate" =>
              fees + slippage > 0 /\ walkForward /\ b.trades >= minimum /\ b.tested >= minimum /\ b.unseen >= 0
        /\ OverfitRisk(b) = "high" => (says(b) = "not approved" \/ b.unseen = 0)
        /\ \A i \in DOMAIN outcomes : outcomes[i] > 0 =>
              rank(says(judged([outcomes EXCEPT ![i] = -@]))) <= rank(says(b))
        /\ MaxDrawdown(outcomes) >= losses /\ MaxDrawdown(outcomes) <= 0
        /\ LET mc == MonteCarlo(outcomes, draws) IN mc.available => mc.tail <= mc.median /\ mc.median <= 0
        /\ \A i \in DOMAIN equity : DrawdownCurve(equity)[i] <= 0
              /\ ((\A j \in 1..i : equity[j] <= equity[i]) => DrawdownCurve(equity)[i] = 0)
        /\ ProfitFactor(outcomes) >= 0 /\ (losses < 0 =>
              (ProfitFactor(outcomes) >= 100) = (Sum(outcomes) >= 0))

\* Whatever the model answers, the user reads the template or a text, whose every
\* number is a fact's to one in a hundred or a twentieth, and which is not empty; turning the model
\* off always gives the template (NarrationService, ResearchReviewService).
NarrationSound(answer, facts, strict) ==
    /\ Narrated(FALSE, answer, facts, strict) = "template"
    /\ Narrated(TRUE, answer, facts, strict) = "model" => answer.form # "empty" /\
          \A v \in answer.numbers \ AlwaysAllowed : \E f \in facts \cup AlwaysAllowed :
              20 * Magnitude(v - f) <= 100 \/ 100 * Magnitude(v - f) <= Magnitude(f)
    /\ \A f \in facts : f > 1000 /\ -f \notin facts /\ (\A g \in facts : g >= 0) =>
          Narrated(TRUE, [form |-> "plain", numbers |-> {-f}], facts, strict) = "template-guarded"
=============================================================================

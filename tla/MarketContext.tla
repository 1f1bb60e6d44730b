----------------------------- MODULE MarketContext -----------------------------
(***************************************************************************)
(* What the feed says of the market without proposing a trade:             *)
(* list_context_signals (services/signal_engine/service.py), the macro and *)
(* event reads of macro_context.py and the relative strength of            *)
(* services/ranking.py.                                                    *)
(*                                                                         *)
(* A series is what a listing reads of it: symbol, market, timeframe, the  *)
(* time of its newest candle, whether it has the candles for a read, its   *)
(* regimes, the closes of its window (the oldest first), the range of its  *)
(* newest candle and the ranges of those before.  Returns are in 1/1000.   *)
(***************************************************************************)
EXTENDS Integers, Sequences, FiniteSets, SequencesExt

Pack(condition, item) == IF condition THEN <<item>> ELSE <<>>
Total(values) == FoldLeft(+, 0, values)
ReturnOf(s) == ((Last(s.closes) - Head(s.closes)) * 1000) \div Head(s.closes)
Note(s, family, name) ==
    [family |-> family, name |-> name, symbol |-> s.symbol, timeframe |-> s.timeframe, at |-> s.at]

\* The close is two standard deviations or more from the mean of the window.
Deviation(s) == Len(s.closes) * Last(s.closes) - Total(s.closes)
Spread(s) == Len(s.closes) * Total([i \in DOMAIN s.closes |-> s.closes[i] * s.closes[i]])
             - Total(s.closes) * Total(s.closes)
Stretched(s) == Spread(s) > 0 /\ Deviation(s) * Deviation(s) >= 4 * Spread(s)
RangeExpands(s) == Total(s.ranges) > 0 /\ s.range * Len(s.ranges) > 2 * Total(s.ranges)

SeriesItems(s) ==
    Pack(Stretched(s), Note(s, "statistical", IF Deviation(s) > 0 THEN "stretched up" ELSE "stretched down"))
    \o Pack(s.volatility # "normal", Note(s, "volatility", s.volatility))
    \o Pack(RangeExpands(s), Note(s, "volatility", "range expansion"))
    \o <<Note(s, "regime", s.regime)>>

Read(series) == SelectSeq(series, LAMBDA s : s.enough)
Ranked(series) == SelectSeq(Read(series), LAMBDA s : Head(s.closes) > 0)
TimeframesOf(series) ==   \* in the order they are met
    FoldLeft(LAMBDA seen, s : IF Contains(seen, s.timeframe) THEN seen ELSE Append(seen, s.timeframe),
             <<>>, Ranked(series))
Cohort(series, timeframe) == SelectSeq(Ranked(series), LAMBDA s : s.timeframe = timeframe)

\* The first of the best and of the worst after a stable sort: ties go to the
\* last met and to the first met.
LeaderOf(cohort) ==
    CHOOSE i \in DOMAIN cohort :
        \A j \in DOMAIN cohort : ReturnOf(cohort[j]) < ReturnOf(cohort[i])
                                 \/ (ReturnOf(cohort[j]) = ReturnOf(cohort[i]) /\ j <= i)
LaggardOf(cohort) ==
    CHOOSE i \in DOMAIN cohort :
        \A j \in DOMAIN cohort : ReturnOf(cohort[j]) > ReturnOf(cohort[i])
                                 \/ (ReturnOf(cohort[j]) = ReturnOf(cohort[i]) /\ j >= i)
StrengthItems(cohort) ==
    IF Len(cohort) < 4 THEN <<>>
    ELSE <<Note(cohort[LeaderOf(cohort)], "relative-strength", "leader"),
           Note(cohort[LaggardOf(cohort)], "relative-strength", "laggard")>>

\* returns_by_symbol: cohort after cohort, the last entry of a symbol stays.
Entries(series) == FlattenSeq([i \in DOMAIN TimeframesOf(series) |-> Cohort(series, TimeframesOf(series)[i])])
Returns(series) ==
    LET entries == Entries(series)
        last(x) == CHOOSE i \in DOMAIN entries : entries[i].symbol = x
                       /\ \A j \in DOMAIN entries : entries[j].symbol = x => j <= i
    IN  [x \in {entries[i].symbol : i \in DOMAIN entries} |-> ReturnOf(entries[last(x)])]

-----------------------------------------------------------------------------
\* derive_macro_context, from the returns of the symbols that are tracked.
MoveBar == 30
SpreadBar == 20
Macro(returns) ==
    LET tracked == DOMAIN returns
        dollar == IF "UUP" \in tracked THEN {"UUP"} ELSE tracked \cap {"DXY"}
        moves(S, low, high) == \E x \in S \cap tracked : returns[x] <= low \/ returns[x] >= high
        spread == IF {"SPY", "RSP"} \subseteq tracked THEN returns["RSP"] - returns["SPY"] ELSE 0
        up(x) == returns[x] > 0
    IN  {n \in {"dollar headwind", "dollar tailwind"} :
            moves(dollar, -MoveBar, MoveBar) /\ (n = "dollar headwind") = \A x \in dollar : up(x)}
        \cup {n \in {"yield spike", "yield relief"} :
            moves({"TLT"}, -MoveBar, MoveBar) /\ (n = "yield relief") = up("TLT")}
        \cup {n \in {"gold safety"} : "GLD" \in tracked /\ returns["GLD"] >= MoveBar}
        \cup {n \in {"concentration"} : spread <= -SpreadBar}
        \cup {n \in {"participation"} : spread >= SpreadBar}

\* upcoming_event_context: an event is dated at midnight, times are in hours.
Watched(events, now) == {e \in events : e.at - now \in 0..48}

\* list_context_signals, the newest first; macro and event reads carry the time
\* of the listing.
ContextSignals(series, events, now) ==
    LET own == FlattenSeq([i \in DOMAIN Read(series) |-> SeriesItems(Read(series)[i])])
        item(family, name) == [family |-> family, name |-> name, symbol |-> "", timeframe |-> "", at |-> now]
        macro == SetToSeq({item("macro", n) : n \in Macro(Returns(series))})
        watch == SetToSeq({item("event", e.kind) : e \in Watched(events, now)})
        strength == FlattenSeq([i \in DOMAIN TimeframesOf(series) |->
                                   StrengthItems(Cohort(series, TimeframesOf(series)[i]))])
    IN  SortSeq(own \o macro \o watch \o strength, LAMBDA x, y : x.at > y.at)

-----------------------------------------------------------------------------
\* RelativeStrengthRankingService: a lookback is <<bars, weight>>, a score is in
\* 1/1000, rows are compared within their market, whatever their timeframe.
Usable(closes, lookbacks) ==
    SelectSeq(lookbacks, LAMBDA l : Len(closes) > l[1] /\ closes[Len(closes) - l[1]] > 0)
Scored(closes, minimum, lookbacks) ==
    Len(closes) >= minimum /\ Last(closes) > 0 /\ Usable(closes, lookbacks) # <<>>
Momentum(closes, lookbacks) ==
    LET usable == Usable(closes, lookbacks)
        back(l) == (Last(closes) * 1000) \div closes[Len(closes) - l[1]] - 1000
    IN  Total([i \in DOMAIN usable |-> usable[i][2] * back(usable[i])])
        \div Total([i \in DOMAIN usable |-> usable[i][2]])
Peers(rows, i) == {j \in DOMAIN rows : rows[j].market = rows[i].market}
Below(rows, i) ==   \* ties in the order the rows came
    {j \in Peers(rows, i) : rows[j].score < rows[i].score \/ (rows[j].score = rows[i].score /\ j < i)}
Standing(rows, i) ==
    LET size == Cardinality(Peers(rows, i))
        place == Cardinality(Below(rows, i))
    IN  [percentile |-> IF size <= 1 THEN 10000 ELSE (place * 10000) \div (size - 1),
         rank |-> size - place, score |-> rows[i].score, market |-> rows[i].market]
Ranking(series, minimum, lookbacks) ==
    LET scored == SelectSeq(series, LAMBDA s : Scored(s.closes, minimum, lookbacks))
        rows == [i \in DOMAIN scored |-> [market |-> scored[i].market,
                                          score |-> Momentum(scored[i].closes, lookbacks)]]
    IN  SortSeq([i \in DOMAIN rows |-> Standing(rows, i)],
                LAMBDA x, y : x.percentile > y.percentile
                              \/ (x.percentile = y.percentile /\ x.score > y.score))

-----------------------------------------------------------------------------
Opposites == {{"dollar headwind", "dollar tailwind"}, {"yield spike", "yield relief"},
              {"concentration", "participation"}}

\* Macro reads contradict nobody: opposite reads never appear together, a market
\* turned around turns them, and symbols nobody tracks say nothing
\* (derive_macro_context).
MacroSound(returns) ==
    LET turned == Macro([x \in DOMAIN returns |-> -returns[x]])
    IN  \A pair \in Opposites :
            /\ ~(pair \subseteq Macro(returns))
            /\ \A n \in pair : n \in Macro(returns) => turned \cap pair = pair \ {n}

\* A listing reads every series with enough candles once, names a leader and a
\* laggard only among four or more, a leader at least as strong as its cohort,
\* and shows the newest first; what macro reads of a symbol is one of its own
\* returns, and when a symbol has one series the order of the series is
\* indifferent to it (list_context_signals).
Listed(items, series) ==
    LET named(name) == {i \in DOMAIN items : items[i].name = name}
        of(i) == CHOOSE s \in Range(series) : s.symbol = items[i].symbol /\ s.timeframe = items[i].timeframe
    IN  /\ Cardinality({i \in DOMAIN items : items[i].family = "regime"}) = Len(Read(series))
        /\ \A i, j \in DOMAIN items : i < j => items[i].at >= items[j].at
        /\ \A i \in named("leader") : Len(Cohort(series, items[i].timeframe)) >= 4
              /\ \A s \in Range(Cohort(series, items[i].timeframe)) : ReturnOf(s) <= ReturnOf(of(i))
        /\ \A i \in named("laggard") :
              \A s \in Range(Cohort(series, items[i].timeframe)) : ReturnOf(s) >= ReturnOf(of(i))
        /\ Cardinality(named("leader")) = Cardinality(named("laggard"))
ContextSound(series, events, now) ==
    LET single == \A i, j \in DOMAIN series : series[i].symbol = series[j].symbol => i = j
    IN  /\ \A items \in {ContextSignals(series, events, now)} : Listed(items, series)
        /\ \A returns \in {Returns(series)} :
              /\ \A x \in DOMAIN returns :
                    \E s \in Range(Ranked(series)) : s.symbol = x /\ ReturnOf(s) = returns[x]
              /\ single => Returns(Reverse(series)) = returns

\* In a market the ranks are one to the number of rows, no row ranks above a
\* stronger one, the strongest is at the hundredth percentile, and prices ten
\* times as high rank the same (RelativeStrengthRankingService).
RankingSound(series, minimum, lookbacks) ==
    LET rows == Ranking(series, minimum, lookbacks)
        of(m) == {i \in DOMAIN rows : rows[i].market = m}
        dearer == [i \in DOMAIN series |-> [series[i] EXCEPT !.closes = [k \in DOMAIN @ |-> 10 * @[k]]]]
    IN  /\ \A m \in {rows[i].market : i \in DOMAIN rows} :
              /\ {rows[i].rank : i \in of(m)} = 1..Cardinality(of(m))
              /\ \A i, j \in of(m) : rows[i].rank < rows[j].rank => rows[i].score >= rows[j].score
              /\ \A i \in of(m) : rows[i].rank = 1 => rows[i].percentile = 10000
        /\ Ranking(dearer, minimum, lookbacks) = rows
=============================================================================

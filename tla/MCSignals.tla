------------------------------- MODULE MCSignals -------------------------------
(***************************************************************************)
(* SignalEngine, and the numeric modules around it, for TLC.  The scenes   *)
(* share no state: the engine runs, or one bar, one trade, one body of     *)
(* evidence, one series, one market or one study is judged.                *)
(***************************************************************************)
EXTENDS SignalEngine

F == INSTANCE SetupFamilies
B == INSTANCE LadderBacktest
I == INSTANCE Indicators
X == INSTANCE MarketContext
R == INSTANCE Research

CONSTANTS Scenes, Readings, Trades, Evidence, Histories, Markets, Studies

VARIABLES scene, sample
mcvars == <<scene, sample, engine>>

MCSeries == <<"live", "dead">>
MCKinds == {[says |-> "BUY_ZONE", touches |-> {}],
            [says |-> "HOLD", touches |-> {"stop", "target"}],
            [says |-> "nothing", touches |-> {"target"}]}

\* A bar of a bull market, of a bear market and of a range, and what any two
\* other looks at it may find.
Bull == [close |-> 103, high |-> 104, low |-> 101, open |-> 102, ema |-> 102, sma |-> 100,
         rsi |-> 60, rsi2 |-> 50, atr |-> 2, adx |-> 25, usual |-> 190, recent |-> 190,
         macd |-> 1, slope |-> 1, volume |-> 120, daily |-> TRUE, channelHigh |-> 105,
         channelLow |-> 90, bandHigh |-> 106, bandMiddle |-> 102, bandLow |-> 98,
         priorHigh |-> 105, priorLow |-> 95, swingHigh |-> 104, swingLow |-> 99, drift |-> 1,
         vwap |-> 101, squeezed |-> FALSE, narrow |-> FALSE, mother |-> [high |-> 105, low |-> 98],
         before |-> [high |-> 104, low |-> 100, close |-> 102, ema |-> 102, sma |-> 100,
                     vwap |-> 101]]
Bear == [Bull EXCEPT !.close = 97, !.high = 99, !.low = 96, !.open = 98, !.ema = 98, !.rsi = 40,
                     !.macd = -1, !.slope = -1, !.vwap = 99, !.before.ema = 98]
Sideways == [Bull EXCEPT !.close = 100, !.high = 101, !.low = 99, !.open = 100, !.ema = 100,
                      !.adx = 12, !.macd = 0, !.slope = 0, !.before.ema = 100, !.rsi2 = 5,
                      !.bandLow = 99, !.drift = -1]
Looks == {<<"close", 94>>, <<"close", 100>>, <<"close", 107>>, <<"high", 108>>, <<"low", 92>>,
          <<"open", 95>>, <<"open", 106>>, <<"ema", 95>>, <<"ema", 100>>, <<"ema", 105>>, <<"rsi", 80>>, <<"rsi2", 95>>,
          <<"rsi2", 4>>, <<"atr", 5>>, <<"adx", 12>>, <<"adx", 18>>, <<"usual", 60>>,
          <<"recent", 400>>, <<"recent", 120>>, <<"macd", 0>>, <<"slope", -1>>, <<"volume", 80>>,
          <<"volume", 95>>, <<"daily", FALSE>>, <<"channelHigh", 107>>, <<"channelLow", 97>>,
          <<"bandHigh", 102>>, <<"bandLow", 101>>, <<"bandMiddle", 106>>, <<"bandMiddle", 96>>,
          <<"swingHigh", 96>>, <<"swingLow", 106>>,
          <<"drift", 1>>, <<"vwap", 105>>, <<"squeezed", TRUE>>, <<"narrow", TRUE>>,
          <<"mother", [high |-> 102, low |-> 98]>>, <<"mother", [high |-> 105, low |-> 101]>>,
          <<"before", [high |-> 102, low |-> 98, close |-> 100, ema |-> 101, sma |-> 100, vwap |-> 102]>>,
          <<"before", [high |-> 104, low |-> 94, close |-> 102, ema |-> 102, sma |-> 100, vwap |-> 101]>>,
          <<"before", [high |-> 106, low |-> 94, close |-> 104, ema |-> 97, sma |-> 99, vwap |-> 98]>>}
Seen(r, look) == [r EXCEPT ![look[1]] = look[2]]
\* What a series can show on one bar: a bar spans its open and its close, the bands
\* their middle, and the channel, which is that of the prior extremes, the bars
\* before and the swing.
Fitted(r) ==
    LET top == Max({r.channelHigh, r.before.high, r.mother.high, r.swingHigh})
        bottom == Min({r.channelLow, r.before.low, r.mother.low, r.swingLow})
    IN  [r EXCEPT !.high = Max({@, r.open, r.close}), !.low = Min({@, r.open, r.close}),
                  !.bandHigh = Max({@, r.bandMiddle}), !.bandLow = Min({@, r.bandMiddle}),
                  !.channelHigh = top, !.priorHigh = top, !.channelLow = bottom, !.priorLow = bottom]
MCReadings ==
    {Fitted(Seen(Seen(Seen(r, a), b), c)) : r \in {Bull, Bear, Sideways}, a \in Looks, b \in Looks,
                                    c \in {<<"volume", 120>>, <<"volume", 80>>}}

\* Trades of up to three bars, long with three rungs and short with two.
MCBars == {[low |-> l, high |-> h, close |-> c] :
              l \in {8, 9, 10}, h \in {10, 12, 14, 16}, c \in {10}}
MCTrades ==
    {<<t, bars>> : t \in {[isLong |-> TRUE, entry |-> 10, stop |-> 8, targets |-> <<12, 14, 16>>, close |-> 10],
                          [isLong |-> FALSE, entry |-> 12, stop |-> 14, targets |-> <<10, 8>>, close |-> 12]},
                   bars \in UNION {[1..n -> MCBars] : n \in 0..3}}

MCEvidence ==
    {[state |-> [signal |-> g, alignment |-> a, volume |-> 40, score |-> c],
      outcomes |-> o, pooled |-> [trades |-> n, wins |-> w, sum |-> x]] :
        g \in {"WAIT", "HOLD", "SELL"}, a \in {0, 100}, c \in {2000, 10000},
        o \in {<<>>, <<1>>, <<-1, 2, 2>>, <<1, -1, -1>>, <<2, 2, 2, 2, 2>>, <<1, 1, 1, -1, -1>>},
        n \in {0, 2, 3, 20, 41}, w \in {0, 2, 20}, x \in {-3, 0, 8}}

\* Short and full series of a doji, of a rise and of a fall.
MCHistories ==
    UNION {[1..n -> {[close |-> 1000, high |-> 1000, low |-> 1000, volume |-> 0],
                     [close |-> 1200, high |-> 1300, low |-> 900, volume |-> 10],
                     [close |-> 830, high |-> 1010, low |-> 700, volume |-> 20]}] : n \in {2, 6}}
Periods == [ema |-> 3, sma |-> 3, rsi |-> 2, atr |-> 2, adx |-> 2, fast |-> 2, slow |-> 3,
            signal |-> 2, bands |-> 3, channel |-> 3, vwap |-> 2]

\* Markets of four and of six series, two symbols on two timeframes; returns of
\* the symbols the macro read knows.
MCSeen(symbol, timeframe, closes, at) ==
    [symbol |-> symbol, market |-> IF symbol = "B" THEN "crypto" ELSE "stocks", timeframe |-> timeframe,
     at |-> at, enough |-> closes[2] # 99, regime |-> "ranging", closes |-> closes,
     volatility |-> IF at = 1 THEN "expanded" ELSE "normal", range |-> at + 1, ranges |-> <<1, 1>>]
MCCloses == {<<100, 99, 100, 100, 100, 100>>, <<100, 100, 100, 100, 100, 100>>,
             <<100, 100, 100, 100, 100, 104>>, <<100, 100, 98, 97, 96, 95>>}
MCTracked == <<<<"B", "1d">>, <<"SPY", "1d">>, <<"SPY", "4h">>, <<"RSP", "1d">>, <<"TLT", "1d">>, <<"TLT", "1h">>>>
MCMarkets ==
    {<<"context", [i \in 1..6 |-> MCSeen(MCTracked[i][1], MCTracked[i][2], c[i], i % 3)]>> : c \in [1..6 -> MCCloses]}
    \cup {<<"context", [i \in 1..4 |-> MCSeen(<<"B", "UUP", "RSP", "GLD">>[i], "1d", c[i], i % 2)]>> :
              c \in [1..4 -> MCCloses]}
    \cup UNION {{<<"macro", r>> : r \in [d -> {-40, -30, -20, 0, 10, 30}]} :
                    d \in {{"UUP", "DXY"}, {"TLT", "GLD"}, {"SPY", "RSP"}, {"DXY"}, {"SPY"}}}
MCEvents == {[at |-> 60, kind |-> "fomc"], [at |-> 10, kind |-> "cpi"]}
Lookbacks == <<<<1, 15>>, <<2, 25>>, <<4, 35>>, <<7, 25>>>>

\* Two series under three strategies, replays of up to 35 trades, answers of a model.
MCDefinition(id, setups, markets, source, makes) ==
    [id |-> id, setups |-> setups, markets |-> markets, timeframes |-> {1}, source |-> source, makes |-> makes]
MCReplay(gross) == [gross |-> gross, cost |-> [i \in DOMAIN gross |-> 10 * i]]
MCReplays == {[x \in {1} |-> MCReplay(<<1>>)], [x \in {1, 2} |-> MCReplay(<<1, 2>>)],
              [x \in {2, 3} |-> MCReplay(<<3>>)]}
MCStudied(symbol, market, setup, runs) ==
    [symbol |-> symbol, market |-> market, timeframe |-> 1, enough |-> TRUE, setup |-> setup, runs |-> runs]
MCStudies ==
    {<<"presets", <<MCStudied(2, m, u, r), MCStudied(1, "stocks", v, q)>>,
       <<MCDefinition(3, <<2, 3>>, served, "extension", makes),
         MCDefinition(1, <<1, 2>>, {"crypto", "stocks"}, "built-in", <<>>),
         MCDefinition(2, <<2>>, {}, "built-in", <<>>)>>>> :
            m \in {"crypto", "stocks"}, u \in {1, 2, R!NoSetup}, v \in 1..3, r \in MCReplays,
            q \in MCReplays, served \in {{}, {"crypto"}},
            makes \in {R!Raises, <<[whole |-> TRUE, strategy |-> 0], [whole |-> FALSE, strategy |-> 0]>>}}
    \cup UNION {{<<"verdict", MCReplay(g), c, w>> : g \in [1..n -> {-100, 50, 150}], c \in {0, 5}, w \in BOOLEAN} :
                    n \in {0, 1, 2, 5}}
    \cup {<<"verdict", MCReplay(g \o g \o g \o g \o g \o g \o g), 5, TRUE>> : g \in [1..5 -> {-100, 50, 150}]}
    \cup {<<"narrate", [form |-> form, numbers |-> n], f, strict>> :
              form \in {"json", "broken", "plain", "empty"}, n \in SUBSET {5, 12345, -12345, 5000, 100},
              f \in SUBSET {10, 12400, 5100, -4950}, strict \in BOOLEAN}

MCInit ==
    /\ scene \in Scenes
    /\ sample \in (CASE scene = "setup" -> Readings [] scene = "trade" -> Trades
                     [] scene = "evidence" -> {e \in Evidence : e.pooled.wins <= e.pooled.trades}
                     [] scene = "indicators" -> Histories [] scene = "market" -> Markets
                     [] scene = "study" -> Studies
                     [] OTHER -> {<<>>})
    /\ EngineInit
    /\ CASE scene = "caching" -> feed["dead"] = <<>> /\ failures = 0 /\ revisions = 0
         [] scene = "reporting" -> feed["dead"] # <<>> /\ feed["dead"][1].says = "BUY_ZONE"
                                   /\ failures = 0 /\ revisions = MaxRevisions
         [] OTHER -> feed["dead"] = <<>> /\ failures = 0 /\ revisions = 0

MCNext ==
    /\ UNCHANGED <<scene, sample>>
    /\ CASE scene = "caching" -> EngineNext /\ UNCHANGED rep
         [] scene = "reporting" -> EngineNext /\ UNCHANGED comp["warm"]
         [] OTHER -> UNCHANGED engine

\* EngineFairness, in the scene where the engine runs.
Stays == scene \in {"caching", "reporting"} /\ UNCHANGED <<scene, sample>>
MCSpec ==
    /\ MCInit /\ [][MCNext]_mcvars
    /\ WF_mcvars(Stays /\ Begin("job"))
    /\ \A k \in Computers : WF_mcvars(Stays /\ Compute(k))
    /\ \A r \in Reporters : WF_mcvars(Stays /\ Report(r))
    /\ \A s \in Growing : WF_mcvars(Stays /\ Arrive(s))

\* Each evaluation holds in its scene: the candidates of a bar are in order, a
\* simulated trade ends as its ladder says, confidence is no more than the
\* evidence, an indicator knows nothing of the future, market reads agree with
\* the series, presets and verdicts with the replays (candidate_setups, simulate_ladder_trade,
\* derive_confidence, build_indicators, list_context_signals, run_backtest_analysis).
EvaluationsHold ==
    CASE scene = "setup" -> F!SetupsSound(sample)
      [] scene = "trade" -> B!LadderSound(sample[1], sample[2])
      [] scene = "evidence" ->
            B!ConfidenceSound(sample.state, sample.outcomes, 70, 2, sample.pooled)
      [] scene = "indicators" -> I!IndicatorsSound(sample, Periods)
      [] scene = "market" ->
            IF sample[1] = "macro" THEN X!MacroSound(sample[2])
            ELSE X!ContextSound(sample[2], MCEvents, 12) /\ X!RankingSound(sample[2], 3, Lookbacks)
      [] scene = "study" ->
            CASE sample[1] = "presets" -> R!PresetsSound(sample[2], sample[3])
              [] sample[1] = "verdict" -> R!VerdictSound(sample[2], 70, 2, sample[3], sample[3], sample[4])
              [] OTHER -> R!NarrationSound(sample[2], sample[3], sample[4])
      [] OTHER -> TRUE
\* The cache catches up, and rows are resolved, where the engine runs.
EngineCatchesUp == scene = "caching" => SignalsCatchUp
RowsResolve == scene = "reporting" => LiveRowsResolve
=============================================================================

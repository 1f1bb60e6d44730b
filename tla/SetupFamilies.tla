----------------------------- MODULE SetupFamilies -----------------------------
(***************************************************************************)
(* Setup detection: candidate_setups and its helpers in                    *)
(* services/signal_engine/setups.py, and what SignalEngineService makes of *)
(* the candidates (_classify_state).                                       *)
(*                                                                         *)
(* A reading r is what the detectors look at on one bar: prices, averages  *)
(* and bands in whole ticks, the volume ratio in hundredths, signs of the  *)
(* MACD histogram and of the slope, the extremes of earlier windows.  At   *)
(* bar 55 and later every window is full.  Derived levels are counted in   *)
(* 1/10^7 of a tick, scores in 1/10000, and nothing is rounded on the way. *)
(* A setup's name is the tuple of its words.                               *)
(***************************************************************************)
EXTENDS Integers, Sequences, FiniteSets, SequencesExt

Tick == 10000000
Smaller(a, b) == IF a < b THEN a ELSE b
Larger(a, b) == IF a < b THEN b ELSE a
Size(x) == IF x < 0 THEN -x ELSE x
Clamp(x, low, high) == Larger(low, Smaller(high, x))

\* market_regime: r.usual is the median ATR share of price of the last 50 bars,
\* in basis points.
MarketRegime(r) ==
    IF r.usual > 0 /\ 100000 * r.atr >= 17 * r.usual * r.close THEN "volatile"
    ELSE IF r.adx >= 22 THEN "trending" ELSE IF r.adx < 16 THEN "ranging" ELSE "transitional"

\* volatility_regime, against the median of the last 30 bars.
VolatilityRegime(r) ==
    IF 100000 * r.atr <= 8 * r.recent * r.close THEN "compressed"
    ELSE IF 1000000 * r.atr >= 125 * r.recent * r.close THEN "expanded" ELSE "normal"

\* confluence.
Score(base, alignment, volume, macd, slope, bonus) ==
    Clamp(base + 15 * alignment + 10 * volume + (IF macd THEN 1000 ELSE 0)
          + (IF slope THEN 1000 ELSE 0) + bonus, 0, 10000)
Alignment(r) == Smaller(100, (10000 * Size(r.ema - r.sma)) \div (3 * r.close))
VolumeConfirmation(r) == Smaller(100, (100 * r.volume) \div 175)

Has(setup, word) == \E i \in DOMAIN setup : setup[i] = word

\* The second half of direction_for_setup: the side that is named.
DirectionByName(setup, fallback) ==
    IF Has(setup, "breakdown") \/ Has(setup, "short") THEN "short"
    ELSE IF Has(setup, "long") \/ Has(setup, "pullback") \/ Has(setup, "breakout") THEN "long"
    ELSE fallback

\* Mutant of DirectionForSetup: only a side that is spelt out is a side.
DirectionSpeltOut(setup, fallback) ==
    IF Has(setup, "short") THEN "short" ELSE IF Has(setup, "long") THEN "long" ELSE fallback

\* direction_for_setup: the side a backtest of a setup takes, from its name or else
\* from what the series shows now.
DirectionForSetup(setup, fallback) ==
    CASE setup = <<"failed", "breakout", "reversal">> -> "short"
      [] setup = <<"failed", "breakdown", "reversal">> -> "long"
      [] OTHER -> DirectionByName(setup, fallback)

-----------------------------------------------------------------------------
\* The stop and reward multiples, in hundredths and tenths.
StopMultiple(volatility) ==
    CASE volatility = "compressed" -> 130 [] volatility = "expanded" -> 160 [] OTHER -> 145
RewardMultiple(signal) == IF signal \in {"BUY_ZONE", "SELL"} THEN 24 ELSE 18

Reference(close, ema, isLong) ==
    IF isLong THEN Smaller(Tick * close, 10020000 * ema) ELSE Larger(Tick * close, 9980000 * ema)

\* The geometry of compose_candidate: a target (0 when there is none) on the
\* profit side of the reference replaces the open ladder.
Levels(close, ema, atr, isLong, stop, reward, target) ==
    LET side == IF isLong THEN 1 ELSE -1
        ref == Reference(close, ema, isLong)
        span == side * (Tick * target - ref)
    IN  [reference |-> ref,
         zone |-> IF isLong THEN <<ref - 4500000 * atr, ref + 1500000 * atr>>
                  ELSE <<ref - 1500000 * atr, ref + 4500000 * atr>>,
         stop |-> ref - side * 100000 * stop * atr,
         targets |->
            IF target > 0 /\ span > 0
            THEN <<ref + side * ((span \div 10) * 6), Tick * target, ref + side * ((span \div 10) * 13)>>
            ELSE [i \in 1..3 |-> ref + side * 100 * stop * reward * <<65, 100, 135>>[i] * atr]]

\* compose_candidate.
Composed(r, signal, setup, isLong, status, score, target) ==
    [signal |-> signal, setup |-> setup, status |-> status, score |-> score,
     direction |-> IF isLong THEN "long" ELSE "short",
     levels |-> Levels(r.close, r.ema, r.atr, isLong, StopMultiple(VolatilityRegime(r)),
                       RewardMultiple(signal), target)]

Agrees(sign, isLong) == IF isLong THEN sign > 0 ELSE sign < 0
Matches(sign, isLong) == (sign > 0) = isLong

\* One candidate of a family that asks MACD and slope for its own side, and one
\* (_emit) that takes what is not up for down.
Strict(r, signal, setup, isLong, base, bonus) ==
    <<Composed(r, signal, setup, isLong, "active",
               Score(base, Alignment(r), VolumeConfirmation(r), Agrees(r.macd, isLong),
                     Agrees(r.slope, isLong), bonus), 0)>>
Emit(r, signal, setup, isLong, base, bonus) ==
    <<Composed(r, signal, setup, isLong, "active",
               Score(base, Alignment(r), VolumeConfirmation(r), Matches(r.macd, isLong),
                     Matches(r.slope, isLong), bonus), 0)>>
Pick(isLong, long, short) == IF isLong THEN long ELSE short

Bullish(r) == r.close > r.ema /\ r.ema > r.sma
Bearish(r) == r.close < r.ema /\ r.ema < r.sma
BonusIn(r, regimes, bonus) == IF MarketRegime(r) \in regimes THEN bonus ELSE 0

\* Of two exclusive alternatives the first that holds, else none.
Either(first, one, second, other) == IF first THEN one ELSE IF second THEN other ELSE <<>>
When(condition, candidate) == IF condition THEN candidate ELSE <<>>

\* Family 1: pullback to, or rejection at, the EMA of a trend.
TrendFamily(r) ==
    LET close_by == 1000 * Size(r.close - r.ema) <= 8 * r.close
        bonus == BonusIn(r, {"trending"}, 1000)
    IN  When(MarketRegime(r) \in {"trending", "transitional"},
          Either(/\ Bullish(r) /\ r.rsi \in 46..72
                 /\ close_by \/ (100 * r.low <= 101 * r.ema /\ 101 * r.ema <= 100 * r.high),
                 Strict(r, "BUY_ZONE", IF r.daily THEN <<"daily", "trend", "pullback">>
                                       ELSE <<"ema", "reclaim", "pullback">>, TRUE, 5500, bonus),
                 /\ Bearish(r) /\ r.rsi \in 28..54
                 /\ close_by \/ (r.low <= r.ema /\ r.ema <= r.high),
                 Strict(r, "SELL", <<"trend", "rejection", "breakdown">>, FALSE, 5500, bonus)))

\* Family 2: retest of a breakout of the Donchian channel.
BreakoutFamily(r) ==
    When(MarketRegime(r) = "trending" /\ r.volume >= 100,
      Either(/\ Bullish(r) /\ r.high >= r.channelHigh
             /\ 1000 * r.close >= 997 * r.channelHigh,
             Strict(r, "WATCH", <<"breakout", "retest", "continuation">>, TRUE, 6000, 1200),
             /\ Bearish(r) /\ r.low <= r.channelLow
             /\ 1000 * r.close <= 1003 * r.channelLow,
             Strict(r, "WATCH", <<"breakdown", "retest", "continuation">>, FALSE, 6000, 1200)))

\* Family 3: mean reversion in a range, to the middle of the band.
RangeFamily(r) ==
    LET Reverting(signal, setup, isLong) ==
          <<Composed(r, signal, setup, isLong, "active",
                     Score(5000, 30, VolumeConfirmation(r), TRUE,
                           IF isLong THEN r.slope >= 0 ELSE r.slope <= 0, 800), r.bandMiddle)>>
    IN  When(MarketRegime(r) = "ranging",
          Either(r.rsi2 <= 8 /\ 1000 * r.low <= 1005 * r.bandLow,
                 Reverting("BUY_ZONE", <<"range", "meanreversion", "long">>, TRUE),
                 r.rsi2 >= 92 /\ 1000 * r.high >= 995 * r.bandHigh,
                 Reverting("SELL", <<"range", "meanreversion", "short">>, FALSE)))

\* Family 4: breakouts and breakdowns that snapped back.  The channel is that of the
\* twenty bars to the one before, so on no bar is that one beyond it.
FailedFamily(r) ==
    LET bonus == BonusIn(r, {"ranging", "transitional"}, 800)
    IN  When(r.volume >= 90,
          Either(r.before.high > r.channelHigh /\ r.close < r.channelHigh,
                 Strict(r, "SELL", <<"failed", "breakout", "reversal">>, FALSE, 5000, bonus),
                 r.before.low < r.channelLow /\ r.close > r.channelLow,
                 Strict(r, "BUY_ZONE", <<"failed", "breakdown", "reversal">>, TRUE, 5000, bonus)))

\* Family 5: an extreme of the last twenty bars swept and reclaimed.
SweepFamily(r) ==
    When(r.volume >= 110,
      Either(r.low < r.priorLow /\ r.close > r.priorLow,
             Strict(r, "BUY_ZONE", <<"liquidity", "sweep", "reclaim", "long">>, TRUE, 5200, 500),
             r.high > r.priorHigh /\ r.close < r.priorHigh,
             Strict(r, "SELL", <<"liquidity", "sweep", "reclaim", "short">>, FALSE, 5200, 500)))

\* Family 6: the EMA crosses the average.
CrossoverFamily(r) ==
    LET up == r.before.ema <= r.before.sma /\ r.ema > r.sma
        down == r.before.ema >= r.before.sma /\ r.ema < r.sma
    IN  When((up \/ down) /\ MarketRegime(r) # "volatile",
          Emit(r, Pick(up, "BUY_ZONE", "SELL"), <<"ma", "crossover", Pick(up, "long", "short")>>,
               up, 5000, BonusIn(r, {"trending"}, 600)))

\* Family 7: an inside bar broken in the direction of the trend.
InsideFamily(r) ==
    LET inside == r.before.high <= r.mother.high /\ r.before.low >= r.mother.low
        up == Bullish(r) /\ r.close > r.mother.high
        down == Bearish(r) /\ r.close < r.mother.low
    IN  When(inside /\ MarketRegime(r) \in {"trending", "transitional"} /\ (up \/ down),
          Emit(r, Pick(up, "BUY_ZONE", "SELL"), <<"inside", "bar", "break", Pick(up, "long", "short")>>,
               up, 5000, BonusIn(r, {"trending"}, 800)))

\* Family 8: an opening gap of one per cent and half an ATR that held or filled.
GapFamily(r) ==
    LET gap == r.open - r.before.close
        up == gap > 0
        held == IF up THEN r.close > r.open ELSE r.close < r.open
        faded == IF up THEN r.close < r.before.close ELSE r.close > r.before.close
    IN  When(100 * Size(gap) >= r.before.close /\ 2 * Size(gap) >= r.atr,
          Either(held /\ r.volume >= 110,
                 Emit(r, Pick(up, "BUY_ZONE", "SELL"),
                      <<"gap", "and", "go", Pick(up, "long", "short")>>, up, 5000,
                      BonusIn(r, {"trending"}, 800)),
                 faded,
                 Emit(r, Pick(up, "SELL", "BUY_ZONE"),
                      <<"gap", "fill", "reversal", Pick(up, "short", "long")>>, ~up, 4800, 500)))

\* Family 9: the rolling VWAP reclaimed or rejected.
VwapFamily(r) ==
    When(MarketRegime(r) # "volatile" /\ r.volume >= 100,
      Either(r.before.close < r.before.vwap /\ r.close > r.vwap,
             Emit(r, "BUY_ZONE", <<"vwap", "reclaim", "long">>, TRUE, 5000, 500),
             r.before.close > r.before.vwap /\ r.close < r.vwap,
             Emit(r, "SELL", <<"vwap", "rejection", "short">>, FALSE, 5000, 500)))

\* Family 10: the last swing broken against the trend.
StructureFamily(r) ==
    When(r.volume >= 110,
      Either(Bearish(r) /\ r.close > r.swingHigh,
             Emit(r, "WATCH", <<"structure", "break", "long">>, TRUE, 4600, 0),
             Bullish(r) /\ r.close < r.swingLow,
             Emit(r, "WATCH", <<"structure", "break", "short">>, FALSE, 4600, 0)))

\* Family 11: a bar that engulfs the one before and closes against the drift.
OutsideFamily(r) ==
    When(r.high > r.before.high /\ r.low < r.before.low /\ r.volume >= 120,
      Either(r.drift < 0 /\ r.close > r.before.high,
             Emit(r, "BUY_ZONE", <<"outside", "bar", "reversal", "long">>, TRUE, 5000, 0),
             r.drift > 0 /\ r.close < r.before.low,
             Emit(r, "SELL", <<"outside", "bar", "reversal", "short">>, FALSE, 5000, 0)))

\* Family 12: release from a squeeze of the bands.
SqueezeFamily(r) ==
    When(r.squeezed /\ r.volume >= 110,
      Either(r.close > r.bandHigh,
             Emit(r, "BUY_ZONE", <<"squeeze", "release", "long">>, TRUE, 5200, 600),
             r.close < r.bandLow,
             Emit(r, "SELL", <<"squeeze", "release", "short">>, FALSE, 5200, 600)))

\* Family 13: the narrowest of seven ranges broken in the direction of the trend.
NarrowFamily(r) ==
    When(r.narrow /\ MarketRegime(r) \in {"trending", "transitional"},
      Either(Bullish(r) /\ r.close > r.before.high,
             Emit(r, "BUY_ZONE", <<"narrow", "range", "break", "long">>, TRUE, 5000, 500),
             Bearish(r) /\ r.close < r.before.low,
             Emit(r, "SELL", <<"narrow", "range", "break", "short">>, FALSE, 5000, 500)))

\* What the surface shows when no family speaks.
Fallback(r) ==
    LET isLong == ~Bearish(r)
        score == Score(3000, Alignment(r), VolumeConfirmation(r), Agrees(r.macd, isLong),
                       Agrees(r.slope, isLong), 0)
    IN  CASE Bullish(r) -> <<Composed(r, "HOLD", <<"trend", "hold", "continuation">>, TRUE,
                                      "active", score, 0)>>
          [] Bearish(r) -> <<Composed(r, "WATCH", <<"breakdown", "watch">>, FALSE,
                                      "active", score, 0)>>
          [] OTHER -> <<Composed(r, "WAIT", <<"range", "reset">>, TRUE, "invalidated", score, 0)>>

\* candidate_setups; extensions (an external candidate list) come after family 3.
CandidateSetups(r, extensions) ==
    LET found == TrendFamily(r) \o BreakoutFamily(r) \o RangeFamily(r) \o extensions
                 \o FailedFamily(r) \o SweepFamily(r) \o CrossoverFamily(r) \o InsideFamily(r)
                 \o GapFamily(r) \o VwapFamily(r) \o StructureFamily(r) \o OutsideFamily(r)
                 \o SqueezeFamily(r) \o NarrowFamily(r)
    IN  IF r.atr <= 0 THEN <<>> ELSE IF found = <<>> THEN Fallback(r) ELSE found

\* _classify_state: the first of the best scored.
Classified(candidates) ==
    candidates[CHOOSE i \in DOMAIN candidates :
                  /\ \A j \in DOMAIN candidates : candidates[j].score <= candidates[i].score
                  /\ \A j \in 1..(i - 1) : candidates[j].score < candidates[i].score]

\* The levels as displayed, in cents of a tick; ties go up here.
Cents(level) == (level + 50000) \div 100000
Displayed(levels) == [reference |-> levels.reference, stop |-> 100000 * Cents(levels.stop),
                      zone |-> [i \in 1..2 |-> 100000 * Cents(levels.zone[i])],
                      targets |-> [i \in 1..3 |-> 100000 * Cents(levels.targets[i])]]

-----------------------------------------------------------------------------
\* A level record is traded from its reference: the stop beyond the entry zone
\* on the loss side, the targets in order on the profit side.
InOrder(levels, isLong) ==
    LET Before(a, b) == IF isLong THEN a < b ELSE b < a
        near == IF isLong THEN levels.zone[1] ELSE levels.zone[2]
        t == levels.targets
    IN  /\ Before(levels.stop, near) /\ Before(near, levels.reference)
        /\ Before(levels.reference, t[1]) /\ Before(t[1], t[2]) /\ Before(t[2], t[3])

\* Whatever the bar looks like: there is a candidate; the side a setup trades is
\* the side its name makes a backtest of it take, that of a family's whichever way
\* the series has turned since; no setup is found twice on one
\* bar; levels are in order, those of an open ladder also at two decimals as long as
\* the ATR is a tick or more; an invalidated state or a HOLD is shown only when no
\* family speaks; and an open ladder of an actionable signal pays at least one and a
\* half times its risk at the first target.
SetupsSound(r) ==
    LET found == CandidateSetups(r, <<>>)
        best == Classified(found)
        risk(l) == Size(l.reference - l.stop)
    IN  /\ found # <<>>
        /\ \A i, j \in DOMAIN found : found[i].setup = found[j].setup => i = j
        /\ \A i \in DOMAIN found :
              LET f == found[i] IN
              /\ f.direction = DirectionForSetup(f.setup, f.direction)
              /\ f.signal \in {"HOLD", "WAIT"} \/ \A side \in {"long", "short"} :
                    f.direction = DirectionForSetup(f.setup, side)
              /\ InOrder(f.levels, f.direction = "long")
              /\ Has(f.setup, "meanreversion") \/ InOrder(Displayed(f.levels), f.direction = "long")
              /\ f.signal \in {"HOLD", "WAIT"} \/ f.status # "active" => Len(found) = 1
              /\ f.signal = "BUY_ZONE" => f.direction = "long"
              /\ f.signal = "SELL" => f.direction = "short"
              /\ (f.signal \in {"BUY_ZONE", "SELL"} /\ ~Has(f.setup, "meanreversion")) =>
                    2 * Size(f.levels.targets[1] - f.levels.reference) >= 3 * risk(f.levels)
        /\ \A i \in DOMAIN found : found[i].score <= best.score
=============================================================================

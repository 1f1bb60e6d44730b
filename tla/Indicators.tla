------------------------------ MODULE Indicators ------------------------------
(***************************************************************************)
(* The indicator math of services/signal_engine/indicators.py.             *)
(*                                                                         *)
(* An output list is a function whose domain is the indexes, from one,     *)
(* where the code has a number: elsewhere the code has None.  Numbers are  *)
(* whole units and a quotient is rounded down; percentages are in          *)
(* hundredths.                                                             *)
(***************************************************************************)
EXTENDS Integers, Sequences, FiniteSets, FiniteSetsExt

\* Hundred percent, in hundredths.
Whole == 10000

SumOf(values, S) == MapThenSumSet(LAMBDA i : values[i], S)
Trailing(i, period) == (i - period + 1)..i
Mean(values, S) == SumOf(values, S) \div Cardinality(S)
Abs(x) == IF x < 0 THEN -x ELSE x
Root(x) == CHOOSE r \in 0..x : r * r <= x /\ x < (r + 1) * (r + 1)

Ema(values, period) ==
    LET ema[i \in period..Len(values)] ==
            IF i = period THEN Mean(values, 1..period)
            ELSE ema[i - 1] + (2 * (values[i] - ema[i - 1])) \div (period + 1)
    IN  ema

\* The same over a list with gaps, which are passed over.
EmaOfOptional(values, period) ==
    LET upTo(i) == {j \in DOMAIN values : j <= i}
        ema[i \in {j \in DOMAIN values : Cardinality(upTo(j)) >= period}] ==
            IF Cardinality(upTo(i)) = period THEN Mean(values, upTo(i))
            ELSE LET previous == ema[Max(upTo(i) \ {i})]
                 IN  previous + (2 * (values[i] - previous)) \div (period + 1)
    IN  ema

Both(f, g) == DOMAIN f \cap DOMAIN g
MacdLine(values, fast, slow) ==
    LET f == Ema(values, fast)
        s == Ema(values, slow)
    IN  [i \in Both(f, s) |-> f[i] - s[i]]
MacdHist(values, fast, slow, signal) ==
    LET line == MacdLine(values, fast, slow)
        smooth == EmaOfOptional(line, signal)
    IN  [i \in Both(line, smooth) |-> line[i] - smooth[i]]

Bollinger(values, period, deviations) ==
    [i \in period..Len(values) |->
        LET W == Trailing(i, period)
            middle == Mean(values, W)
            band == deviations * Root(MapThenSumSet(LAMBDA j : (values[j] - middle) * (values[j] - middle), W)
                                      \div period)
        IN  [high |-> middle + band, middle |-> middle, low |-> middle - band]]
Donchian(highs, lows, period) ==
    [i \in period..Len(highs) |->
        [high |-> Max({highs[j] : j \in Trailing(i, period)}), low |-> Min({lows[j] : j \in Trailing(i, period)})]]
\* The multiplier is in halves.
Keltner(ema, atr, halves) ==
    [i \in Both(ema, atr) |-> [high |-> ema[i] + (halves * atr[i]) \div 2, low |-> ema[i] - (halves * atr[i]) \div 2]]

\* The running total, a value in and a value out.
Sma(values, period) ==
    LET total[i \in period..Len(values)] ==
            IF i = period THEN SumOf(values, 1..period)
            ELSE total[i - 1] + values[i] - values[i - period]
    IN  [i \in DOMAIN total |-> total[i] \div period]

\* The smoothing of rsi and atr: a mean of the changes of the first candles,
\* then a share of one in each later change.
Wilder(changes, period) ==
    LET average[i \in (period + 1)..Len(changes)] ==
            IF i = period + 1 THEN Mean(changes, 2..i)
            ELSE (average[i - 1] * (period - 1) + changes[i]) \div period
    IN  average

Change(values, i) == IF i = 1 THEN 0 ELSE values[i] - values[i - 1]
Rsi(values, period) ==
    LET gain == Wilder([i \in DOMAIN values |-> Max({Change(values, i), 0})], period)
        loss == Wilder([i \in DOMAIN values |-> Max({-Change(values, i), 0})], period)
    IN  [i \in DOMAIN gain |-> IF loss[i] = 0 THEN Whole ELSE (Whole * gain[i]) \div (gain[i] + loss[i])]

TrueRange(candles, i) ==
    LET c == candles[i]
    IN  IF i = 1 THEN c.high - c.low
        ELSE Max({c.high - c.low, Abs(c.high - candles[i - 1].close), Abs(c.low - candles[i - 1].close)})
Atr(candles, period) == Wilder([i \in DOMAIN candles |-> TrueRange(candles, i)], period)

-----------------------------------------------------------------------------
\* The directional movement of a candle, and the running sums adx keeps.
UpMove(candles, i) == candles[i].high - candles[i - 1].high
DownMove(candles, i) == candles[i - 1].low - candles[i].low
PlusDm(candles, i) == IF UpMove(candles, i) > Max({DownMove(candles, i), 0}) THEN UpMove(candles, i) ELSE 0
MinusDm(candles, i) == IF DownMove(candles, i) > Max({UpMove(candles, i), 0}) THEN DownMove(candles, i) ELSE 0
Smoothed(values, period) ==
    LET sum[i \in (period + 1)..Len(values)] ==
            IF i = period + 1 THEN SumOf(values, 2..i)
            ELSE sum[i - 1] - sum[i - 1] \div period + values[i]
    IN  sum

\* A candle whose smoothed range is zero gives no dx.
Dx(candles, period) ==
    LET moves(up) == [i \in DOMAIN candles |->
                         IF i = 1 THEN 0 ELSE IF up THEN PlusDm(candles, i) ELSE MinusDm(candles, i)]
        range == Smoothed([i \in DOMAIN candles |-> IF i = 1 THEN 0 ELSE TrueRange(candles, i)], period)
        plus == Smoothed(moves(TRUE), period)
        minus == Smoothed(moves(FALSE), period)
        share(sum, i) == (Whole * sum[i]) \div range[i]
    IN  [i \in {j \in (period + 2)..Len(candles) : range[j] # 0} |->
            LET p == share(plus, i)
                m == share(minus, i)
            IN  IF p + m = 0 THEN 0 ELSE (Whole * Abs(p - m)) \div (p + m)]
Averaged(dx, period) ==
    LET upTo(i) == {j \in DOMAIN dx : j <= i}
        adx[i \in {j \in DOMAIN dx : Cardinality(upTo(j)) >= period}] ==
            IF Cardinality(upTo(i)) = period THEN Mean(dx, upTo(i))
            ELSE ((IF i - 1 \in DOMAIN dx THEN adx[i - 1] ELSE 0) * (period - 1) + dx[i]) \div period
    IN  adx
Adx(candles, period) == IF Len(candles) > 2 * period THEN Averaged(Dx(candles, period), period) ELSE <<>>

\* The last candles, as many as there are, weighted by volume.
Vwap(candles, period) ==
    LET W(i) == Max({1, i - period + 1})..i
        volume(i) == MapThenSumSet(LAMBDA j : candles[j].volume, W(i))
        typical(j) == (candles[j].high + candles[j].low + candles[j].close) \div 3
    IN  [i \in {j \in DOMAIN candles : volume(j) > 0} |->
            MapThenSumSet(LAMBDA j : typical(j) * candles[j].volume, W(i)) \div volume(i)]

Field(candles, name) == [i \in DOMAIN candles |-> candles[i][name]]
BuildIndicators(candles, p) ==
    LET closes == Field(candles, "close")
        ema == Ema(closes, p.ema)
        atr == Atr(candles, p.atr)
    IN  [ema |-> ema, sma |-> Sma(closes, p.sma), rsi |-> Rsi(closes, p.rsi), atr |-> atr,
         adx |-> Adx(candles, p.adx), macd |-> MacdHist(closes, p.fast, p.slow, p.signal),
         bands |-> Bollinger(closes, p.bands, 2),
         channel |-> Donchian(Field(candles, "high"), Field(candles, "low"), p.channel),
         keltner |-> Keltner(ema, atr, 3), vwap |-> Vwap(candles, p.vwap)]

-----------------------------------------------------------------------------
\* What an indicator says of a candle it says whatever candles come later.
Causal(late, candles, p) ==
    \A n \in 0..Len(candles) - 1 : \A early \in {BuildIndicators(SubSeq(candles, 1, n), p)} :
        \A k \in DOMAIN late :
            /\ DOMAIN early[k] = {i \in DOMAIN late[k] : i <= n}
            /\ \A i \in DOMAIN early[k] : early[k][i] = late[k][i]

\* From the candle that fills its window on, an indicator has a value at every
\* candle; adx waits for the first candle that moves.
WarmsUp(b, candles, p) ==
    LET from(i) == i..Len(candles)
    IN  /\ DOMAIN b.sma = from(p.sma) /\ DOMAIN b.rsi = from(p.rsi + 1)
        /\ DOMAIN b.atr = from(p.atr + 1) /\ DOMAIN b.keltner = from(Max({p.ema, p.atr + 1}))
        /\ DOMAIN b.macd = from(p.slow + p.signal - 1)
        /\ DOMAIN b.adx \subseteq from(2 * p.adx + 1)
        /\ \A i \in DOMAIN b.adx : i < Len(candles) => i + 1 \in DOMAIN b.adx
        /\ TrueRange(candles, 2) > 0 => DOMAIN b.adx = from(2 * p.adx + 1)

\* What a series has shown at some of its candles.
Seen(values, S) == {values[j] : j \in S}

\* An average lies among what it averages, the running total stays the mean of its
\* window, and the mean that passes over gaps is the mean where there are none.
AveragesLie(b, closes, p) ==
    /\ \A i \in DOMAIN b.ema : b.ema[i] \in Min(Seen(closes, 1..i))..Max(Seen(closes, 1..i))
    /\ \A i \in DOMAIN b.sma : b.sma[i] = Mean(closes, Trailing(i, p.sma))
    /\ EmaOfOptional(closes, p.ema) = b.ema
\* An oscillator stays in its scale, and no range is negative.
OscillatorsScale(b) ==
    /\ \A i \in DOMAIN b.rsi : b.rsi[i] \in 0..Whole
    /\ \A i \in DOMAIN b.adx : b.adx[i] \in 0..Whole
    /\ \A i \in DOMAIN b.atr : b.atr[i] >= 0
\* The channel holds the close, and a window's prices their weighted mean.
PricesHeld(b, candles, p) ==
    /\ \A i \in DOMAIN b.channel : candles[i].close \in b.channel[i].low..b.channel[i].high
    /\ \A i \in DOMAIN b.vwap :
          LET W == Max({1, i - p.vwap + 1})..i
          IN  b.vwap[i] \in Min(Seen(Field(candles, "low"), W))..Max(Seen(Field(candles, "high"), W))
Bounded(b, candles, p) ==
    AveragesLie(b, Field(candles, "close"), p) /\ OscillatorsScale(b) /\ PricesHeld(b, candles, p)

\* Turned upside down, a market swings as wide and trends as hard, and what was
\* strong is weak; only a market that stood still is strong both ways.
Inverted(candles) ==
    LET top == 2 * Max({candles[i].high : i \in DOMAIN candles})
    IN  [i \in DOMAIN candles |->
            [candles[i] EXCEPT !.high = top - candles[i].low, !.low = top - candles[i].high,
                               !.close = top - @]]
Mirrored(b, other, candles) ==
    LET still(i) == \A j \in 2..i : candles[j].close = candles[j - 1].close
    IN  /\ other.atr = b.atr /\ other.adx = b.adx
        /\ \A i \in DOMAIN b.rsi :
              IF still(i) THEN b.rsi[i] = Whole /\ other.rsi[i] = Whole
              ELSE b.rsi[i] + other.rsi[i] \in (Whole - 1)..Whole

\* An indicator says nothing of the future, warms up once and keeps its scale
\* (indicators.py, of a series of at least two candles).
IndicatorsSound(candles, p) ==
    \A b \in {BuildIndicators(candles, p)} :
        /\ Causal(b, candles, p) /\ WarmsUp(b, candles, p) /\ Bounded(b, candles, p)
        /\ \A other \in {BuildIndicators(Inverted(candles), p)} : Mirrored(b, other, candles)
=============================================================================

----------------------------- MODULE CandleQuality -----------------------------
(***************************************************************************)
(* What the corridor does to the candles a provider returns before it      *)
(* stores them: _normalize_and_validate_candles and its helpers in         *)
(* services/market_corridor.py.                                            *)
(*                                                                         *)
(* Instants are counted in quarter hours since 1970-01-01 UTC, the finest  *)
(* cadence the corridor knows.  A raw candle carries the instant its       *)
(* timestamp reads (clock), the offset from UTC it states (zone, 0 when it *)
(* states none) and whether every field is there and parses.               *)
(***************************************************************************)
EXTENDS Integers, Sequences, FiniteSets, SequencesExt, MarketCalendar

Timeframes == {"15m", "1h", "4h", "1d"}
ExpectedDelta(timeframe) ==
    CASE timeframe = "15m" -> 1 [] timeframe = "1h" -> 4
      [] timeframe = "4h" -> 16 [] timeframe = "1d" -> 96
Day(instant) == instant \div 96

LeastOf(a, b) == IF a < b THEN a ELSE b
MostOf(a, b) == IF a < b THEN b ELSE a

\* What a provider may send for a candle.
RawCandle == [parses : BOOLEAN, clock : Int, zone : Int, open : Int, high : Int,
              low : Int, close : Int, volume : Int]

\* _normalize_single_candle: a naive timestamp is taken for UTC, any other is
\* converted; the rest are numbers.
Normalized(raw) ==
    [open_time |-> raw.clock - raw.zone, open |-> raw.open, high |-> raw.high,
     low |-> raw.low, close |-> raw.close, volume |-> raw.volume]

\* _is_valid_candle: the reason a candle is refused for, or "ok".
Verdict(candle) ==
    IF LeastOf(LeastOf(candle.open, candle.high), LeastOf(candle.low, candle.close)) <= 0
    THEN "non_positive_price"
    ELSE IF candle.volume < 0 THEN "negative_volume"
    ELSE IF candle.high < MostOf(candle.open, candle.close) THEN "high_below_open_or_close"
    ELSE IF candle.low > LeastOf(candle.open, candle.close) THEN "low_above_open_or_close"
    ELSE IF candle.high < candle.low THEN "high_below_low"
    ELSE "ok"

Usable(raw) == raw.parses /\ Verdict(Normalized(raw)) = "ok"

\* Mutant of Deduplicated: candles are kept in the order they came, doubles and all.
Undeduplicated(raws) ==
    LET usable == SelectSeq(raws, Usable) IN [k \in DOMAIN usable |-> Normalized(usable[k])]

\* The candles that are looked at further: those that parse and are valid.
Accepted(raws) == {i \in DOMAIN raws : Usable(raws[i])}

\* The loop: the last usable candle of an open time replaces the ones before it;
\* then they are sorted by open time.
Deduplicated(raws) ==
    LET time(i) == Normalized(raws[i]).open_time
        times == {time(i) : i \in Accepted(raws)}
        nth(k) == CHOOSE t \in times : Cardinality({u \in times : u < t}) = k - 1
        last(t) == Max({i \in Accepted(raws) : time(i) = t})
    IN  [k \in 1..Cardinality(times) |-> Normalized(raws[last(nth(k))])]

\* _is_expected_market_gap.  Stocks are only ever followed at one day; the count
\* of intraday bars for a finer cadence is not modelled.
IsExpectedGap(previous, current, market_type) ==
    market_type = "stocks" /\ IsSessionGap(Day(previous), Day(current))

\* Mutant of Gaps: a step of the cadence itself is taken for a gap.
GapsTouching(candles, delta) ==
    {k \in 2..Len(candles) : candles[k].open_time - candles[k - 1].open_time >= delta}
\* _analyze_gaps: the steps wider than the cadence, by their later candle.
Gaps(candles, delta) ==
    {k \in 2..Len(candles) : candles[k].open_time - candles[k - 1].open_time > delta}
SessionGaps(candles, delta, market_type) ==
    {k \in Gaps(candles, delta) :
        IsExpectedGap(candles[k - 1].open_time, candles[k].open_time, market_type)}

\* The latest candle is still forming.
IsPartial(candles, delta, now) == candles # <<>> /\ Last(candles).open_time + delta > now

\* _normalize_and_validate_candles: the candles kept, the codes of the
\* diagnostics in the order they are appended, and the statistics.
Validated(raws, target, now) ==
    LET delta == ExpectedDelta(target.timeframe)
        candles == Deduplicated(raws)
        usable == Cardinality(Accepted(raws))
        invalid == Len(raws) - usable
        duplicates == usable - Len(candles)
        gaps == Gaps(candles, delta)
        session == SessionGaps(candles, delta, target.market_type)
        partial == IsPartial(candles, delta, now)
        kept == IF partial THEN Front(candles) ELSE candles
        When(c, code) == IF c THEN <<code>> ELSE <<>>
    IN  [kept |-> kept,
         codes |-> When(invalid > 0, "invalid_candles_filtered")
                   \o When(duplicates > 0, "duplicate_candles_deduped")
                   \o When(gaps # {}, "gaps_detected")
                   \o When(partial, "partial_latest_candle_excluded"),
         stats |-> [candles_received |-> Len(raws), candles_kept |-> Len(kept),
                    invalid_count |-> invalid, duplicate_count |-> duplicates,
                    gap_count |-> Cardinality(gaps),
                    session_gap_count |-> Cardinality(session),
                    unexpected_gap_count |-> Cardinality(gaps \ session),
                    partial_excluded_count |-> IF partial THEN 1 ELSE 0]]

-----------------------------------------------------------------------------
\* What the corridor owes its readers, whatever a provider returned: the candles
\* kept are well formed, strictly ascending and the provider's latest word on
\* their open time; no closed, well-formed candle is lost; a candle that is
\* still forming is kept only before a later one (a provider ahead of the clock);
\* every candle received is accounted for once; and every hole between kept
\* candles is reported, with at most one more, the hole before the forming one.
QualitySound(raws, target, now) ==
    LET v == Validated(raws, target, now)
        s == v.stats
        delta == ExpectedDelta(target.timeframe)
        times == {k.open_time : k \in ToSet(v.kept)}
        WellFormed(c) == /\ 0 < c.low /\ c.low <= c.open /\ c.open <= c.high
                         /\ c.low <= c.close /\ c.close <= c.high /\ 0 <= c.volume
        Says(i, c) == raws[i].parses /\ Normalized(raws[i]) = c
        closed(c) == c.open_time + delta <= now
        holes == {t \in times : (\E u \in times : t < u) /\ \A u \in times : t < u => t + delta < u}
    IN  /\ \A c \in ToSet(v.kept) : WellFormed(c)
        /\ \A k \in DOMAIN v.kept : k < Len(v.kept) =>
              v.kept[k].open_time < v.kept[k + 1].open_time
        /\ \A c \in ToSet(v.kept) : \E i \in DOMAIN raws :
              /\ Says(i, c)
              /\ \A j \in (i + 1)..Len(raws) :
                    ~(Usable(raws[j]) /\ Normalized(raws[j]).open_time = c.open_time)
        /\ \A i \in DOMAIN raws : raws[i].parses =>
              LET c == Normalized(raws[i]) IN
              WellFormed(c) /\ closed(c) => c.open_time \in times
        /\ \A c \in ToSet(v.kept) : closed(c) \/ \E i \in DOMAIN raws :
              Usable(raws[i]) /\ c.open_time < Normalized(raws[i]).open_time
        /\ s.candles_received = s.candles_kept + s.invalid_count + s.duplicate_count
                                + s.partial_excluded_count
        /\ Cardinality(holes) \in (s.gap_count - s.partial_excluded_count)..s.gap_count
=============================================================================

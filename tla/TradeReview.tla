------------------------------ MODULE TradeReview ------------------------------
(***************************************************************************)
(* The scored journal: TradeReviewService (services/trade_review.py), the  *)
(* coaching moments (services/learn_moments.py) and the criteria missions  *)
(* are made of (MissionService._evaluate, services/missions.py), as        *)
(* functions of the tables they read.                                      *)
(*                                                                         *)
(* Prices are whole ticks, quantities whole, risk in hundredths of a       *)
(* percent; 0 is a level or a price that is not set.  A note is named by   *)
(* the rule it reports.  Trades and candles are in the order the store     *)
(* returns them: trades newest first, candles oldest first.                *)
(***************************************************************************)
EXTENDS Mastery

NoRisk == -1          \* planRiskPercent absent
Tilt == {"fomo", "frustrated"}
GoodProcess == 70     \* PROCESS_GOOD_BAR
Distance(a, b) == IF a < b THEN b - a ELSE a - b

StopIsSane(trade) ==
    \/ trade.side = "long" /\ trade.stop < trade.entry
    \/ trade.side = "short" /\ trade.stop > trade.entry

\* score_process: points and the rules broken.
Score(trade) ==
    (IF trade.stop # 0 THEN 30 + (IF StopIsSane(trade) THEN 15 ELSE 0) ELSE 0)
        + (IF trade.reason THEN 20 ELSE 0)
        + (IF trade.risk = NoRisk \/ trade.risk > 200 THEN 0 ELSE IF trade.risk > 100 THEN 15 ELSE 25)
        + (IF trade.emotion \notin Tilt \cup {""} THEN 10 ELSE 0)
Notes(trade) ==
    {n \in {"no_stop", "wrong_side", "no_reason", "exceeds", "double", "no_risk", "tilt"} :
        \/ n = "no_stop" /\ trade.stop = 0
        \/ n = "wrong_side" /\ trade.stop # 0 /\ ~StopIsSane(trade)
        \/ n = "no_reason" /\ ~trade.reason
        \/ n = "exceeds" /\ trade.risk > 100 /\ trade.risk <= 200
        \/ n = "double" /\ trade.risk > 200
        \/ n = "no_risk" /\ trade.risk = NoRisk
        \/ n = "tilt" /\ trade.emotion \in Tilt}

ResolveBars == 60
StopTraded(trade, bar) == IF trade.side = "long" THEN bar.low <= trade.stop ELSE bar.high >= trade.stop
TargetTraded(trade, bar) ==
    trade.target # 0 /\ (IF trade.side = "long" THEN bar.high >= trade.target ELSE bar.low <= trade.target)
Won(trade, exit) == IF trade.side = "long" THEN exit - trade.entry ELSE trade.entry - exit

\* Mutant of Outcome: the target is taken first in an ambiguous bar.
OutcomeHopeful(trade, bars) ==
    LET held == SubSeq(bars, 1, Min({ResolveBars, Len(bars)}))
        touched == {i \in DOMAIN held : StopTraded(trade, held[i]) \/ TargetTraded(trade, held[i])}
    IN  IF trade.stop = 0 \/ trade.entry <= 0 \/ trade.stop = trade.entry THEN [status |-> "unscored", gain |-> 0]
        ELSE IF touched = {} THEN [status |-> "open", gain |-> 0]
        ELSE IF TargetTraded(trade, held[Min(touched)])
             THEN [status |-> "target", gain |-> Won(trade, trade.target)]
             ELSE [status |-> "stopped", gain |-> -Distance(trade.entry, trade.stop)]

\* resolve_outcome over the candles after execution: the first touch within the
\* bars held decides, the stop first in an ambiguous bar; the gain is r times the
\* risk.  With nothing touched the trade is open at the last close.
Outcome(trade, bars) ==
    LET held == SubSeq(bars, 1, Min({ResolveBars, Len(bars)}))
        touched == {i \in DOMAIN held : StopTraded(trade, held[i]) \/ TargetTraded(trade, held[i])}
    IN  IF trade.stop = 0 \/ trade.entry <= 0 \/ trade.stop = trade.entry THEN [status |-> "unscored", gain |-> 0]
        ELSE IF held = <<>> THEN [status |-> "open", gain |-> 0]
        ELSE IF touched = {} THEN [status |-> "open", gain |-> Won(trade, Last(held).close)]
        ELSE IF StopTraded(trade, held[Min(touched)])
             THEN [status |-> "stopped", gain |-> -Distance(trade.entry, trade.stop)]
             ELSE [status |-> "target", gain |-> Won(trade, trade.target)]

\* The 2x2 of decision and outcome.
Quadrant(score, outcome) ==
    IF outcome.status \notin {"stopped", "target"} THEN "none"
    ELSE IF score >= GoodProcess THEN (IF outcome.gain > 0 THEN "earned_win" ELSE "well_played_loss")
    ELSE IF outcome.gain > 0 THEN "dangerous_success" ELSE "honest_tuition"

\* review: every executed trade scored, resolved and classified.
Reviewed(trade, bars) ==
    [id |-> trade.id, symbol |-> trade.symbol, day |-> trade.day, reason |-> trade.reason,
     emotion |-> trade.emotion, score |-> Score(trade), notes |-> Notes(trade),
     status |-> Outcome(trade, bars).status,
     class |-> Quadrant(Score(trade), Outcome(trade, bars))]

(***************************************************************************)
(* Coaching moments.  The account is [balance, positions]; trades are all  *)
(* tickets, newest first, with their status; trend[s] is the first and     *)
(* last close of the symbol's newest 20 candles, NoTrend without them.     *)
(***************************************************************************)
NoTrend == <<0, 0>>
Window == 10           \* RAPID_FIRE_WINDOW
Moment(type, subject, severity) == [type |-> type, subject |-> subject, severity |-> severity]
LessonOf == [oversized_position |-> "sizing", rapid_fire_entries |-> "plan", unprotected_drawdown |-> "atr",
             poor_planned_rr |-> "rr", overtrading_cadence |-> "tilt", journal_skipping |-> "journal",
             regime_mismatch |-> "regime"]
Lately(trades) == SubSeq(trades, 1, Min({Window, Len(trades)}))

Oversized(account) ==
    {Moment("oversized_position", p.symbol, IF 100 * p.quantity * p.price >= 30 * account.balance THEN 3 ELSE 2) :
        p \in {q \in account.positions : 100 * q.quantity * q.price >= 15 * account.balance}}
Unprotected(account, armed) ==
    {Moment("unprotected_drawdown", p.symbol, 3) :
        p \in {q \in account.positions : q.pnl < 0 /\ -100 * q.pnl >= 2 * account.balance /\ q.symbol \notin armed}}
RapidFire(trades) ==
    {Moment("rapid_fire_entries", s, 2) :
        s \in {u \in {Lately(trades)[i].symbol : i \in DOMAIN Lately(trades)} :
                  Cardinality({i \in DOMAIN Lately(trades) : Lately(trades)[i].symbol = u}) >= 3}}
PoorReward(trades) ==
    {Moment("poor_planned_rr", t.id, 2) :
        t \in {u \in ToSet(Lately(trades)) :
                  /\ u.stop # 0 /\ u.target # 0 /\ u.entry > 0 /\ u.entry # u.stop
                  /\ Distance(u.target, u.entry) < Distance(u.entry, u.stop)}}
Overtrading(trades, today) ==
    IF Cardinality({i \in DOMAIN trades : trades[i].day = today}) >= 6
    THEN {Moment("overtrading_cadence", "today", 3)} ELSE {}
Unjournaled(trades, journal) ==
    IF Cardinality({i \in DOMAIN trades : trades[i].status = "executed" /\ trades[i].id \notin journal}) >= 3
    THEN {Moment("journal_skipping", "journal", 2)} ELSE {}
\* Only the newest ticket of a symbol within the window is looked at.
AgainstTrend(trades, trend) ==
    LET lately == Lately(trades)
        newest == {i \in DOMAIN lately : lately[i].symbol \in DOMAIN trend
                      /\ \A j \in 1..(i - 1) : lately[j].symbol # lately[i].symbol}
        against(t, first, last) ==
            \/ t.side = "long" /\ 100 * (last - first) <= -5 * first
            \/ t.side = "short" /\ 100 * (last - first) >= 5 * first
    IN  {Moment("regime_mismatch", lately[i].symbol, 2) :
            i \in {j \in newest : /\ trend[lately[j].symbol][1] > 0
                                  /\ against(lately[j], trend[lately[j].symbol][1], trend[lately[j].symbol][2])}}
\* get_moments: no position of an account without a balance is judged.
Moments(account, armed, trades, journal, today, trend) ==
    (IF account.balance <= 0 THEN {} ELSE Oversized(account) \cup Unprotected(account, armed))
        \cup RapidFire(trades) \cup PoorReward(trades) \cup Overtrading(trades, today)
        \cup Unjournaled(trades, journal) \cup AgainstTrend(trades, trend)
\* The types readiness still counts: moments whose lesson is not completed.
OpenTypes(moments, done) == {m.type : m \in {n \in moments : LessonOf[n.type] \notin done}}

(***************************************************************************)
(* Mission criteria over a context: x.items are reviewed trades, newest    *)
(* first; x.journal the trades annotated; the rest are the tables.         *)
(***************************************************************************)
CountItems(x, S) == Cardinality({i \in DOMAIN x.items : x.items[i] \in S})
Items(x) == ToSet(x.items)
NoteCount(x, notes) == Cardinality({i \in DOMAIN x.items : x.items[i].notes \cap notes # {}})
LongestScoreRun(x, bar) ==
    Max({0} \cup {n \in DOMAIN x.items : \E i \in DOMAIN x.items :
                     i + n - 1 <= Len(x.items) /\ \A j \in i..(i + n - 1) : x.items[j].score >= bar})
TotalScore(x) == FoldLeft(LAMBDA sum, i : sum + i.score, 0, x.items)
BusiestDay(x) == Max({0} \cup {Cardinality({i \in DOMAIN x.items : x.items[i].day = t.day}) : t \in Items(x)})

\* _evaluate: whether a criterion is met.  An unknown type never is.
Met(c, x, today) ==
    \/ c.type = "min_trades" /\ Len(x.items) >= c.value
    \/ c.type = "all_have_stops" /\ x.items # <<>> /\ NoteCount(x, {"no_stop"}) = 0
    \/ c.type = "max_risk_percent_each" /\ x.items # <<>> /\ NoteCount(x, {"exceeds", "double"}) = 0
    \/ c.type = "max_dangerous_success"
          /\ CountItems(x, {t \in Items(x) : t.class = "dangerous_success"}) <= c.value
    \/ c.type = "min_classification" /\ CountItems(x, {t \in Items(x) : t.class = c.of}) >= c.value
    \/ c.type = "consecutive_process_scores" /\ LongestScoreRun(x, c.bar) >= c.value
    \/ c.type = "min_process_average" /\ x.items # <<>> /\ HalfEven(TotalScore(x), Len(x.items)) >= c.value
    \/ c.type = "min_planned_losses_taken" /\ CountItems(x, {t \in Items(x) : t.status = "stopped"}) >= c.value
    \/ c.type = "min_resolved"
          /\ CountItems(x, {t \in Items(x) : t.status \in {"stopped", "target"}}) >= c.value
    \/ c.type = "min_symbol_diversity" /\ Cardinality({t.symbol : t \in Items(x)}) >= c.value
    \/ c.type = "max_daily_trades" /\ x.items # <<>> /\ BusiestDay(x) <= c.value
    \/ c.type = "min_trades_with_reason" /\ CountItems(x, {t \in Items(x) : t.reason}) >= c.value
    \/ c.type = "min_emotions_logged" /\ CountItems(x, {t \in Items(x) : t.emotion # ""}) >= c.value
    \/ c.type = "zero_tilt_entries" /\ x.items # <<>> /\ NoteCount(x, {"tilt"}) = 0
    \/ c.type = "min_journaled" /\ CountItems(x, {t \in Items(x) : t.id \in x.journal.notes \cup x.journal.tags}) >= c.value
    \/ c.type = "min_tagged" /\ CountItems(x, {t \in Items(x) : t.id \in x.journal.tags}) >= c.value
    \/ c.type = "scenario_passed" /\ c.of \in x.scenarios
    \/ c.type = "min_scenarios_passed" /\ Cardinality(x.scenarios) >= c.value
    \/ c.type = "min_lessons_completed" /\ Cardinality(x.lessons) >= c.value
    \/ c.type = "assessment_passed" /\ c.of \in x.exams
    \/ c.type = "min_review_reps" /\ x.reps >= c.value
    \/ c.type = "min_streak_days" /\ CurrentStreak(x.days, today) >= c.value
    \/ c.type = "constitution_adopted" /\ x.adopted

(***************************************************************************)
(* What the review promises.                                               *)
(***************************************************************************)
\* A trade and what followed it: full marks are a complete plan and nothing to
\* note, no trade without a stop is a good decision; the outcome is the stop's
\* whenever the stop is touched within the bars held and no later than the target,
\* costs exactly the risk then, and what the first bars decided no later bar changes.
ReviewSound(trade, bars) ==
    LET o == Outcome(trade, bars)
        held == DOMAIN bars \cap 1..ResolveBars
        stops == {i \in held : StopTraded(trade, bars[i])}
        targets == {i \in held : TargetTraded(trade, bars[i])}
    IN  /\ Score(trade) \in 0..100
        /\ Score(trade) = 100 <=> Notes(trade) = {} /\ trade.emotion # ""
        /\ Score(trade) >= GoodProcess => trade.stop # 0
        /\ o.status = "stopped" <=>
              (trade.stop # 0 /\ trade.stop # trade.entry /\ stops # {} /\ \A t \in targets : Min(stops) <= t)
        /\ o.status = "target" => targets # {} /\ \A k \in stops : Min(targets) < k
        /\ o.status = "stopped" => o.gain = -Distance(trade.entry, trade.stop)
        /\ \A n \in 0..Len(bars) :
              LET early == Outcome(trade, SubSeq(bars, 1, n)) IN early.status \in {"stopped", "target"} => o = early
        /\ Quadrant(Score(trade), o) = "dangerous_success" => trade.target # 0 /\ Score(trade) < GoodProcess

\* Moments and criteria of one journal: a plan flagged for its reward never wins
\* more than it risks; the drawdown and size moments end with an alert or a
\* lesson, and readiness follows; and a criterion that counts trades is not lost
\* by reviewing one more, while one that forbids a habit is not won by it.
JournalSound(account, trades, bars, journal, today) ==
    LET found(armed) == Moments(account, armed, trades, journal, today, <<>>)
        symbols == {p.symbol : p \in account.positions}
        context(ts) == [items |-> [i \in DOMAIN ts |-> Reviewed(ts[i], bars)],
                        journal |-> [notes |-> journal, tags |-> journal]]
        counts == {"min_trades", "min_planned_losses_taken", "min_resolved", "min_symbol_diversity",
                   "min_trades_with_reason", "min_emotions_logged", "min_journaled", "min_tagged",
                   "consecutive_process_scores"}
        habits == {"all_have_stops", "max_risk_percent_each", "zero_tilt_entries", "max_daily_trades"}
        criterion(type) == [type |-> type, value |-> 1, bar |-> GoodProcess, of |-> "earned_win"]
    IN  /\ \A i \in DOMAIN trades :
              LET o == Outcome(trades[i], bars)
              IN  (Moment("poor_planned_rr", trades[i].id, 2) \in found({}) /\ o.status = "target") =>
                      o.gain < Distance(trades[i].entry, trades[i].stop)
        /\ \A m \in found(symbols) : m.type # "unprotected_drawdown"
        /\ found(symbols) \subseteq found({})
        /\ OpenTypes(found({}), {"sizing", "atr"}) \cap {"oversized_position", "unprotected_drawdown"} = {}
        /\ Cardinality({m \in found({}) : m.type = "rapid_fire_entries"}) <= Window \div 3
        /\ trades # <<>> =>
              /\ \A type \in counts : Met(criterion(type), context(Tail(trades)), today) =>
                                          Met(criterion(type), context(trades), today)
              /\ \A type \in habits : (Len(trades) > 1 /\ Met(criterion(type), context(trades), today)) =>
                                          Met(criterion(type), context(Tail(trades)), today)
=============================================================================

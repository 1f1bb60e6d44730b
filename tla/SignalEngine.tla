------------------------------ MODULE SignalEngine -----------------------------
(***************************************************************************)
(* The state SignalEngineService keeps (services/signal_engine/service.py):*)
(* the signal cache and the calibration rows it writes to and resolves in  *)
(* storage/analytics_store.py.                                             *)
(*                                                                         *)
(* The signal-refresh job and a warm-up asked for by a poll compute        *)
(* signals, each on a thread of its own; calibration reports run in the    *)
(* thread pool; the corridor writes candles meanwhile.  Every call of the  *)
(* store holds its lock and is one step.  What detection and backtest make *)
(* of the candles is a property of the newest one: what it says, and which *)
(* levels of earlier signals it touches, stated once for all of them.      *)
(***************************************************************************)
EXTENDS Integers, Sequences, FiniteSets, SequencesExt

CONSTANTS Series,      \* a sequence: the order list_market_series returns them in
          Growing,     \* the series that still get candles, the others are delisted
          Kinds,       \* what a closed candle may be: [says, touches]
          MaxCandles,  \* bound on candles of a growing series
          MaxDelisted, \* bound on candles of a delisted one, all there from the start
          Window,      \* the newest candles a read returns (320)
          Horizon,     \* candles a signal is followed for (60)
          ListLimit,   \* unresolved rows a report takes (200)
          Reporters,   \* threads that report at a time
          MaxRevisions,\* bound on candles a provider corrects
          MaxFailures  \* bound on store calls that raise, and on restarts

Computers == {"job", "warm"}
SeriesSet == ToSet(Series)
Actionable == {"BUY_ZONE", "SELL"}

ASSUME EngineAssumption ==
    /\ Window \in Nat /\ Horizon \in 1..Window /\ ListLimit \in Nat \ {0}
    /\ MaxCandles \in Nat /\ MaxDelisted \in Nat /\ MaxRevisions \in Nat /\ MaxFailures \in Nat
    /\ Series \in Seq(SeriesSet) /\ Growing \subseteq SeriesSet
    /\ Kinds \subseteq [says : STRING, touches : SUBSET {"stop", "target"}]

VARIABLES feed,     \* by series: its candles in order of open time
          revised,  \* history: by series, positions corrected after they were stored
          cache,    \* by series: <<>> or <<[at, says, version]>>, the record served
          rows,     \* signal_calibration, by id <<series, position, signal>>:
                    \* [version, outcome, late]
          comp,     \* by computer: [pc, todo, read]
          rep,      \* by reporter: [todo, found, late]
          revisions, failures

engine == <<feed, revised, cache, rows, comp, rep, revisions, failures>>

Resting == [pc |-> "idle", todo |-> <<>>, read |-> <<>>]
NoReport == [todo |-> <<>>, found |-> "unread", late |-> FALSE]

EngineInit ==
    /\ feed \in [SeriesSet -> UNION {[1..n -> Kinds] : n \in 0..MaxDelisted}]
    /\ \A s \in Growing : feed[s] = <<>>
    /\ revised = [s \in SeriesSet |-> {}]
    /\ cache = [s \in SeriesSet |-> <<>>] /\ rows = <<>>
    /\ comp = [k \in Computers |-> Resting] /\ rep = [r \in Reporters |-> NoReport]
    /\ revisions \in 0..MaxRevisions /\ failures \in 0..MaxFailures

Newest(s) == Len(feed[s])

\* The corridor stores a further closed candle, or the provider's correction of
\* the newest one.
Arrive(s) ==
    /\ Newest(s) < MaxCandles
    /\ \E kind \in Kinds : feed' = [feed EXCEPT ![s] = Append(@, kind)]
    /\ UNCHANGED <<revised, cache, rows, comp, rep, revisions, failures>>

Revise(s) ==
    /\ revisions < MaxRevisions /\ feed[s] # <<>>
    /\ revisions' = revisions + 1
    /\ \E kind \in Kinds \ {Last(feed[s])} : feed' = [feed EXCEPT ![s][Newest(s)] = kind]
    /\ revised' = [revised EXCEPT ![s] = @ \cup {Newest(s)}]
    /\ UNCHANGED <<cache, rows, comp, rep, failures>>

-----------------------------------------------------------------------------
\* The series with candles, in the order of Series.
Precedes(s, t) == \E i, j \in DOMAIN Series : i < j /\ Series[i] = s /\ Series[j] = t
Listings ==
    LET listed == {s \in SeriesSet : feed[s] # <<>>}
    IN  {list \in [1..Cardinality(listed) -> listed] :
            \A i, j \in DOMAIN list : i < j => Precedes(list[i], list[j])}

\* list_signals(compute=True).  The job starts on its interval; a warm-up only
\* when none is running (the flag under _warm_lock) and a poll asked for it, on a
\* cold cache or after the warm interval.
Begin(k) ==
    /\ comp[k].pc = "idle"
    /\ \E listed \in Listings \ {<<>>} :
          comp' = [comp EXCEPT ![k] = [Resting EXCEPT !.pc = "read", !.todo = listed]]
    /\ UNCHANGED <<feed, revised, cache, rows, rep, revisions, failures>>

NextSeries(k) ==
    comp' = [comp EXCEPT ![k] =
                IF Len(@.todo) = 1 THEN Resting
                ELSE [Resting EXCEPT !.pc = "read", !.todo = Tail(comp[k].todo)]]

\* Mutant of IsCurrent: any cached record will do.
IsCached(s) == cache[s] # <<>>
\* The cached record is of the newest candle.
IsCurrent(s) == cache[s] # <<>> /\ cache[s][1].at = Newest(s)

\* list_market_candles and the look into the cache; _build_signal_record on what
\* was read, which yields nothing when no state is found.
Read(k) ==
    /\ comp[k].pc = "read"
    /\ LET s == Head(comp[k].todo) IN
          IF IsCurrent(s) \/ Last(feed[s]).says = "nothing" THEN NextSeries(k)
          ELSE comp' = [comp EXCEPT ![k].pc = "record", ![k].read =
                          <<[at |-> Newest(s), says |-> Last(feed[s]).says,
                             version |-> IF Newest(s) \in revised[s] THEN revisions ELSE 0]>>]
    /\ UNCHANGED <<feed, revised, cache, rows, rep, revisions, failures>>

Booked(id, version) ==
    [i \in DOMAIN rows \cup {id} |->
        IF i = id THEN [version |-> version, outcome |-> "pending", late |-> FALSE] ELSE rows[i]]

\* Mutant of Record: only a series new to the cache is booked.
RecordIfCold(k) ==
    /\ comp[k].pc = "record"
    /\ LET built == comp[k].read[1]
           id == <<Head(comp[k].todo), built.at, built.says>> IN
       rows' = IF built.says \in Actionable /\ id \notin DOMAIN rows /\ cache[id[1]] = <<>> THEN Booked(id, built.version) ELSE rows
    /\ comp' = [comp EXCEPT ![k].pc = "put"]
    /\ UNCHANGED <<feed, revised, cache, rep, revisions, failures>>

\* record_signal_calibration: the first build of an actionable signal stands.
Record(k) ==
    /\ comp[k].pc = "record"
    /\ LET built == comp[k].read[1]
           id == <<Head(comp[k].todo), built.at, built.says>> IN
       rows' = IF built.says \in Actionable /\ id \notin DOMAIN rows THEN Booked(id, built.version) ELSE rows
    /\ comp' = [comp EXCEPT ![k].pc = "put"]
    /\ UNCHANGED <<feed, revised, cache, rep, revisions, failures>>

Put(k) ==
    /\ comp[k].pc = "put"
    /\ cache' = [cache EXCEPT ![Head(comp[k].todo)] = comp[k].read]
    /\ NextSeries(k)
    /\ UNCHANGED <<feed, revised, rows, rep, revisions, failures>>

\* A store call raises: the job's wrapper reports it, the warm-up clears its flag.
Abort(k) ==
    /\ comp[k].pc \in {"read", "record"} /\ failures < MaxFailures
    /\ failures' = failures + 1
    /\ comp' = [comp EXCEPT ![k] = Resting]
    /\ UNCHANGED <<feed, revised, cache, rows, rep, revisions>>

-----------------------------------------------------------------------------
Pending == {id \in DOMAIN rows : rows[id].outcome = "pending"}

\* The rows of S generated first, as many as a report may take; those generated
\* at one time come in any order.
OldestOf(S, limit) ==
    LET n == Min({limit, Cardinality(S)})
    IN  {list \in [1..n -> S] :
            /\ \A i, j \in 1..n : i < j => list[i] # list[j] /\ list[i][2] <= list[j][2]
            /\ \A i \in 1..n, id \in S : (\A j \in 1..n : list[j] # id) => list[i][2] <= id[2]}

\* Mutant of Unresolved: every pending row is taken.
UnresolvedAll == OldestOf(Pending, Cardinality(Pending))

\* Mutant of Unresolved: the limit is taken before the filter.
UnresolvedOfFirst ==
    {SelectSeq(list, LAMBDA id : id \in Pending) : list \in OldestOf(DOMAIN rows, ListLimit)}

\* list_unresolved_calibrations: what it may return, ordered by generated_at.
Unresolved == OldestOf(Pending, ListLimit)

\* The replay over the candles after a signal, the stop before the target.
FirstTouch(after) ==
    LET touched == {i \in 1..Min({Horizon, Len(after)}) : after[i].touches # {}}
    IN  IF touched = {} THEN IF Len(after) >= Horizon THEN "expired" ELSE "pending"
        ELSE IF "stop" \in after[Min(touched)].touches THEN "stopped" ELSE "target"

\* Mutant of After: the candle of the signal is replayed too.
AfterAndAt(id) ==
    SubSeq(feed[id[1]], LET first == Newest(id[1]) - Window + 1
                        IN  IF first > id[2] THEN first ELSE id[2], Newest(id[1]))
\* The candles after a signal among those a read returns.
After(id) ==
    SubSeq(feed[id[1]], LET first == Newest(id[1]) - Window + 1
                        IN  IF first > id[2] + 1 THEN first ELSE id[2] + 1, Newest(id[1]))

\* calibration_report: list, then for each row read and judge, then write.
Ask(r) ==
    /\ rep[r].todo = <<>>
    /\ \E list \in Unresolved : rep' = [rep EXCEPT ![r].todo = list]
    /\ UNCHANGED <<feed, revised, cache, rows, comp, revisions, failures>>

NextRow(r) == rep' = [rep EXCEPT ![r] = [NoReport EXCEPT !.todo = Tail(rep[r].todo)]]

Judge(r) ==
    /\ rep[r].todo # <<>> /\ rep[r].found = "unread"
    /\ LET id == Head(rep[r].todo) IN
          IF FirstTouch(After(id)) = "pending" THEN NextRow(r)
          ELSE rep' = [rep EXCEPT ![r].found = FirstTouch(After(id)),
                                  ![r].late = Newest(id[1]) - id[2] > Window]
    /\ UNCHANGED <<feed, revised, cache, rows, comp, revisions, failures>>

\* resolve_calibration writes whatever another report wrote before.
Resolve(r) ==
    /\ rep[r].todo # <<>> /\ rep[r].found # "unread"
    /\ rows' = [rows EXCEPT ![Head(rep[r].todo)].outcome = rep[r].found,
                            ![Head(rep[r].todo)].late = rep[r].late]
    /\ NextRow(r)
    /\ UNCHANGED <<feed, revised, cache, comp, revisions, failures>>

\* The rows survive, the cache and the threads do not.
RestartEngine ==
    /\ failures < MaxFailures /\ failures' = failures + 1
    /\ cache' = [s \in SeriesSet |-> <<>>]
    /\ comp' = [k \in Computers |-> Resting] /\ rep' = [r \in Reporters |-> NoReport]
    /\ UNCHANGED <<feed, revised, rows, revisions>>

Compute(k) == Read(k) \/ Record(k) \/ Put(k) \/ Abort(k)
Report(r) == Judge(r) \/ Resolve(r)

EngineNext ==
    \/ \E s \in Growing : Arrive(s) \/ Revise(s)
    \/ \E k \in Computers : Begin(k) \/ Compute(k)
    \/ \E r \in Reporters : Ask(r) \/ Report(r)
    \/ RestartEngine

EngineSpec == EngineInit /\ [][EngineNext]_engine

\* The scheduler starts the job again and again, threads that started go on, and
\* live series get candles.  Nobody is promised to poll or to ask for a report.
EngineFairness ==
    /\ WF_engine(Begin("job"))
    /\ \A k \in Computers : WF_engine(Compute(k))
    /\ \A r \in Reporters : WF_engine(Report(r))
    /\ \A s \in Growing : WF_engine(Arrive(s))
FairEngine == EngineSpec /\ EngineFairness

-----------------------------------------------------------------------------
\* A row is of a candle the feed has, with an outcome the table knows; what is
\* served is of a candle there is; a thread at rest has nothing to do; a report
\* holds no more rows than it may take, all of them in the table.
EngineTypeOK ==
    /\ \A id \in DOMAIN rows :
          /\ id[2] \in DOMAIN feed[id[1]]
          /\ rows[id].outcome \in {"pending", "stopped", "target", "expired"}
    /\ \A s \in SeriesSet :
          /\ feed[s] \in Seq(Kinds)
          /\ cache[s] # <<>> => cache[s][1].at \in 1..Newest(s)
    /\ \A k \in Computers : (comp[k].pc = "idle") = (comp[k].todo = <<>>)
    /\ \A r \in Reporters : /\ Len(rep[r].todo) <= ListLimit
                            /\ ToSet(rep[r].todo) \subseteq DOMAIN rows

\* The engine is held to what it shows (comment above record_signal_calibration):
\* every actionable signal served has its calibration row, with the levels served
\* unless the provider corrected the candle in between, however job, warm-up,
\* reports, failures and restarts interleave.
ServedIsCalibrated ==
    \A s \in SeriesSet : (cache[s] # <<>> /\ cache[s][1].says \in Actionable) =>
        LET served == cache[s][1] IN
        /\ <<s, served.at, served.says>> \in DOMAIN rows
        /\ \/ rows[<<s, served.at, served.says>>].version = served.version
           \/ served.at \in revised[s]

\* A row resolved by a report that still saw every candle after the signal, none
\* of them corrected, holds what the first of them to touch a level says, and
\* "expired" only when the whole horizon touched none; two reports at once and
\* candles that arrive between their steps change nothing.
FirstTouchKept ==
    \A id \in DOMAIN rows :
        (/\ rows[id].outcome # "pending" /\ ~rows[id].late
         /\ revised[id[1]] \cap ((id[2] + 1)..Newest(id[1])) = {})
            => rows[id].outcome =
                  FirstTouch(SubSeq(feed[id[1]], id[2] + 1, Newest(id[1])))

\* Once a series has its last candle and that candle is worth a record, the cache
\* comes to hold it and keeps it, although a thread that read earlier may write
\* later and the job may fail.  (A candle worth none leaves the old record.)
SignalsCatchUp ==
    \A s \in Growing : <>[](feed[s] # <<>> /\ Last(feed[s]).says # "nothing" =>
                                cache[s] # <<>> /\ cache[s][1].at = Newest(s))

\* If reports are asked for again and again, every signal of a live series that
\* got its horizon of candles is resolved, as long as fewer rows than a report
\* takes belong to series that get none any more.
LiveRowsResolve ==
    []<>(\E r \in Reporters : rep[r].todo # <<>>) =>
        \A s \in Growing : \A at \in 1..(MaxCandles - Horizon) :
            (\E id \in Pending : id[1] = s /\ id[2] = at)
                ~> (\A id \in Pending : id[1] # s \/ id[2] # at)
=============================================================================

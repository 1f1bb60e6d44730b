---------------------------- MODULE MarketCorridor -----------------------------
(***************************************************************************)
(* MarketCorridorService.refresh (services/market_corridor.py) with the    *)
(* rate limiter it asks (services/rate_limits.py), the providers it works  *)
(* through (ProviderManager) and the tables it fills                       *)
(* (storage/analytics_store.py).                                           *)
(*                                                                         *)
(* Several threads may refresh at a time: the market-refresh job, and one  *)
(* of the thread pool for each POST /api/market/corridor/refresh under way *)
(* (api/routes/market.py), which nothing serialises.  They share the       *)
(* limiter, which has no lock, and the tables, whose every call holds the  *)
(* store's lock: a call is one step here, and any call may fail.           *)
(* Statements of a call commit one by one, so a call that fails half way   *)
(* leaves its first half.                                                  *)
(***************************************************************************)
EXTENDS ProviderManager, CandleQuality

CONSTANTS Handlers,      \* threads of the pool that may serve a refresh
          BaseTargets,   \* _base_targets, in order: [symbol, market_type, timeframe]
          Watchlists,    \* what the user may follow: sequences of [symbol, market_type]
          Spelling,      \* by raw symbol: the symbol of a crypto pair without separators
          Ladder,        \* by market type, the timeframes followed for it
          Limit,         \* by domain, requests per minute
          Window,        \* ticks in a minute
          Now,           \* the instant of the instance
          Offered,       \* what a provider may answer: sequences of raw candles
          MaxRequests,   \* bound on refreshes asked for by the user
          MaxFailures    \* bound on providers and stores that fail, and on restarts

Refreshers == {"job"} \cup Handlers
Domains == {"crypto", "stocks"}

\* Targets, the watchlist and the timeframes are lists, the first not empty; what
\* is refreshed is of a domain that has a route.
ASSUME CorridorAssumption ==
    /\ IsFiniteSet(Handlers) /\ "job" \notin Handlers
    /\ Window \in Nat \ {0} /\ Limit \in [Domains -> Nat]
    /\ BaseTargets \in Seq(ToSet(BaseTargets)) \ {<<>>}
    /\ \A target \in ToSet(BaseTargets) : target.market_type \in Domains
    /\ \A list \in Watchlists : list \in Seq(ToSet(list))
    /\ DOMAIN Ladder \subseteq Domains
    /\ \A m \in DOMAIN Ladder : Ladder[m] \in Seq(Timeframes)
    /\ \A s \in Configurations : Domains \subseteq DOMAIN s.routes
    /\ Offered \subseteq Seq(RawCandle)

VARIABLES window,       \* by domain, the limiter's deque: ages in ticks, oldest first
          granted,      \* history: by domain, the ages of requests let through, oldest first
          candles,      \* by series: its rows of market_candles
          diagnostics,  \* by series: the codes it is diagnosed with
          lastRun,      \* by series: the status of its latest row of market_ingest_runs
          ref,          \* by refresher: its program counter and local variables
          ended,        \* history: by series, how the attempt that began or ended last stands
          requests, failures

corridor == <<window, granted, candles, diagnostics, lastRun, ref,
              ended, requests, failures>>

\* The codes that tell of a failed attempt.
Errors == {"rate_limit_exceeded", "provider_not_configured", "provider_client_unavailable",
           "provider_fetch_failed"}

Idle == [pc |-> "idle", todo |-> <<>>, chain |-> <<>>, codes |-> {}, kept |-> <<>>,
         status |-> "none"]

Key(target) == [symbol |-> target.symbol, timeframe |-> target.timeframe]

\* _targets: the base, then what the watchlist adds for a known market, each
\* series once, by its normalised symbol.
Symbol(entry) == IF entry.market_type = "crypto" THEN Spelling[entry.symbol] ELSE entry.symbol
Wanted(entry) ==
    IF entry.market_type \notin DOMAIN Ladder THEN <<>>
    ELSE [i \in DOMAIN Ladder[entry.market_type] |->
            [symbol |-> Symbol(entry), market_type |-> entry.market_type,
             timeframe |-> Ladder[entry.market_type][i]]]
AddNew(targets, target) ==
    IF \E i \in DOMAIN targets : Key(targets[i]) = Key(target) THEN targets
    ELSE Append(targets, target)
AddWanted(targets, entry) == FoldLeft(AddNew, targets, Wanted(entry))
TargetsOf(list) == FoldLeft(AddWanted, BaseTargets, list)

\* The series any watchlist can lead to.
Series == UNION {{Key(target) : target \in ToSet(TargetsOf(list))} : list \in Watchlists}

CorridorInit ==
    /\ window = [d \in Domains |-> <<>>] /\ granted = [d \in Domains |-> <<>>]
    /\ candles = [s \in Series |-> <<>>]
    /\ diagnostics = [s \in Series |-> {}] /\ lastRun = [s \in Series |-> "none"]
    /\ ref = [r \in Refreshers |-> Idle]
    /\ ended = [s \in Series |-> "never"]
    /\ requests \in 0..MaxRequests /\ failures \in 0..MaxFailures

Target(r) == Head(ref[r].todo)
At(r, pc) == ref[r].pc = pc
Go(r, pc) == ref' = [ref EXCEPT ![r].pc = pc]

\* The loop of refresh goes on to its next target, whatever became of this one.
NextTarget(r) ==
    ref' = [ref EXCEPT ![r] = IF Len(@.todo) = 1 THEN Idle
                              ELSE [Idle EXCEPT !.pc = "clear", !.todo = Tail(ref[r].todo)]]
Ends(r, how) == ended' = [ended EXCEPT ![Key(Target(r))] = how]

\* The loop over the chain goes on; after its last provider the target has failed.
NextProvider(r) ==
    IF Len(ref[r].chain) > 1
    THEN ref' = [ref EXCEPT ![r] = [Idle EXCEPT !.pc = "client", !.todo = ref[r].todo,
                                              !.chain = Tail(ref[r].chain)]]
    ELSE NextTarget(r)
\* The store refuses a write outside the try: refresh swallows the exception, and
\* nothing tells of the attempt but what was told of it, or of the one before.
GivesUp(r) ==
    NextTarget(r) /\ IF ended[Key(Target(r))] = "reported" THEN UNCHANGED ended ELSE Ends(r, "lost")
\* It refuses one inside: the except clause books a failed fetch.
Caught(r) ==
    ref' = [ref EXCEPT ![r].pc = "note", ![r].status = "failed", ![r].kept = <<>>,
                       ![r].codes = @ \cup {"provider_fetch_failed"}]

-----------------------------------------------------------------------------
tables == <<candles, diagnostics, lastRun>>
limiter == <<window, granted>>
counts == <<requests, failures>>

\* The watchlist is read once, at the start; a read that fails (a locked
\* database) counts as an empty one.
Start(r) ==
    /\ At(r, "idle")
    /\ r # "job" => requests < MaxRequests
    /\ requests' = requests + (IF r = "job" THEN 0 ELSE 1)
    /\ \E list \in Watchlists :
          ref' = [ref EXCEPT ![r] = [Idle EXCEPT !.pc = "clear", !.todo = TargetsOf(list)]]
    /\ UNCHANGED <<manager, limiter, tables, ended, failures>>

\* clear_market_integrity_diagnostics.
Clear(r) ==
    /\ At(r, "clear")
    /\ diagnostics' = [diagnostics EXCEPT ![Key(Target(r))] = {}]
    /\ Go(r, "prune") /\ Ends(r, "open")
    /\ UNCHANGED <<manager, limiter, candles, lastRun, counts>>

Events(r) == window[Target(r).market_type]
Expired(r) == Events(r) # <<>> /\ Head(Events(r)) >= Window

\* Mutant of Prune: expired requests are never dropped.
PruneNever(r) ==
    /\ At(r, "prune")
    /\ Go(r, IF Limit[Target(r).market_type] <= 0 THEN "limited" ELSE "admit")
    /\ UNCHANGED <<manager, limiter, tables, ended, counts>>

\* check_and_record.  The look at the head and the popleft are two steps of
\* Python, and so are the count and the append.  A limit of zero refuses at once.
Prune(r) ==
    /\ At(r, "prune")
    /\ Go(r, IF Limit[Target(r).market_type] <= 0 THEN "limited"
             ELSE IF Expired(r) THEN "pop" ELSE "admit")
    /\ UNCHANGED <<manager, limiter, tables, ended, counts>>

Pop(r) ==
    /\ At(r, "pop") /\ Events(r) # <<>>
    /\ window' = [window EXCEPT ![Target(r).market_type] = Tail(@)]
    /\ Go(r, "prune")
    /\ UNCHANGED <<manager, granted, tables, ended, counts>>

\* Another thread has popped the last event before the popleft, or before a
\* refusal reads its age: IndexError, which the caller does not take for a refusal
\* and refresh swallows.
PopEmpty(r) ==
    /\ At(r, "pop") \/ At(r, "retry")
    /\ Events(r) = <<>>
    /\ NextTarget(r) /\ Ends(r, "race")
    /\ UNCHANGED <<manager, limiter, tables, counts>>

\* Mutant of Admit: one request too many.
AdmitOver(r) ==
    /\ At(r, "admit")
    /\ Go(r, IF Len(Events(r)) > Limit[Target(r).market_type] THEN "retry" ELSE "append")
    /\ UNCHANGED <<manager, limiter, tables, ended, counts>>

Admit(r) ==
    /\ At(r, "admit")
    /\ Go(r, IF Len(Events(r)) >= Limit[Target(r).market_type] THEN "retry" ELSE "append")
    /\ UNCHANGED <<manager, limiter, tables, ended, counts>>

\* The refusal names the seconds to wait, from the age of the oldest event.
Retry(r) ==
    /\ At(r, "retry") /\ Events(r) # <<>>
    /\ Go(r, "limited")
    /\ UNCHANGED <<manager, limiter, tables, ended, counts>>

Grant(r) ==
    /\ At(r, "append")
    /\ LET d == Target(r).market_type IN
          /\ window' = [window EXCEPT ![d] = Append(@, 0)]
          /\ granted' = [granted EXCEPT ![d] = Append(@, 0)]
    /\ Go(r, "resolve")
    /\ UNCHANGED <<manager, tables, ended, counts>>

\* Mutant of Refuse: the target is skipped without a word.
RefuseSilently(r) ==
    /\ At(r, "limited") /\ NextTarget(r) /\ Ends(r, "reported")
    /\ UNCHANGED <<manager, limiter, tables, counts>>

\* The refusal is recorded, as a diagnostic and then as a run of the domain.
Refuse(r) ==
    /\ At(r, "limited")
    /\ diagnostics' = [diagnostics EXCEPT ![Key(Target(r))] = @ \cup {"rate_limit_exceeded"}]
    /\ Go(r, "refused") /\ Ends(r, "reported")
    /\ UNCHANGED <<manager, limiter, candles, lastRun, counts>>
LogRefusal(r) ==
    /\ At(r, "refused")
    /\ lastRun' = [lastRun EXCEPT ![Key(Target(r))] = "rate_limited"]
    /\ NextTarget(r) /\ Ends(r, "reported")
    /\ UNCHANGED <<manager, limiter, candles, diagnostics, counts>>

-----------------------------------------------------------------------------
\* resolve_chain with what the registry holds at this moment.  An empty chain
\* raises before anything is recorded.
Resolve(r) ==
    /\ At(r, "resolve")
    /\ LET chain == Chain(Target(r).market_type, "ohlcv") IN
          IF chain = <<>> THEN NextTarget(r) /\ Ends(r, "nochain")
          ELSE /\ ref' = [ref EXCEPT ![r].pc = "client", ![r].chain = chain]
               /\ UNCHANGED ended
    /\ UNCHANGED <<manager, limiter, tables, counts>>

Provider(r) == Head(ref[r].chain)

NoClient(r) ==
    /\ At(r, "client") /\ Provider(r) \notin clients
    /\ Go(r, "explain")
    /\ UNCHANGED <<manager, limiter, tables, ended, counts>>

\* No client: a diagnostic, no run, and on to the next provider.
Explain(r) ==
    /\ At(r, "explain")
    /\ diagnostics' = [diagnostics EXCEPT ![Key(Target(r))] = @ \cup
          {IF IsConfigured(Provider(r)) THEN "provider_client_unavailable"
           ELSE "provider_not_configured"}]
    /\ NextProvider(r) /\ Ends(r, "reported")
    /\ UNCHANGED <<manager, limiter, candles, lastRun, counts>>

Answered(r, raws) ==
    LET v == Validated(raws, Target(r), Now)
    IN  ref' = [ref EXCEPT ![r].pc = "note", ![r].codes = ToSet(v.codes), ![r].kept = v.kept,
                           ![r].status = IF v.kept = <<>> THEN "empty" ELSE "success"]

\* get_client, then get_ohlcv over the network: an answer or an exception.
Fetch(r) ==
    /\ At(r, "client") /\ Provider(r) \in clients
    /\ \E raws \in Offered : Answered(r, raws)
    /\ UNCHANGED <<manager, limiter, tables, ended, counts>>

FetchFails(r) ==
    /\ At(r, "client") /\ Provider(r) \in clients /\ failures < MaxFailures
    /\ Caught(r)
    /\ failures' = failures + 1
    /\ UNCHANGED <<manager, limiter, tables, ended, requests>>

\* record_market_integrity_diagnostics.
Noted(r, codes) == diagnostics' = [diagnostics EXCEPT ![Key(Target(r))] = @ \cup codes]
Note(r) ==
    /\ At(r, "note")
    /\ Noted(r, ref[r].codes)
    /\ Go(r, IF ref[r].status = "success" THEN "replace" ELSE "log")
    /\ IF ref[r].codes \cap Errors = {} THEN UNCHANGED ended ELSE Ends(r, "reported")
    /\ UNCHANGED <<manager, limiter, candles, lastRun, counts>>

Stored(r, rows) == candles' = [candles EXCEPT ![Key(Target(r))] = rows]

\* replace_market_candles, to its end, and _archive_parquet, whose copy nothing
\* here reads and whose failure it swallows.
Replace(r) ==
    /\ At(r, "replace")
    /\ Stored(r, ref[r].kept)
    /\ ref' = [ref EXCEPT ![r].pc = "log", ![r].kept = <<>>]
    /\ UNCHANGED <<manager, limiter, diagnostics, lastRun, ended, counts>>

\* record_market_ingest_run.
Log(r) ==
    /\ At(r, "log")
    /\ lastRun' = [lastRun EXCEPT ![Key(Target(r))] = ref[r].status]
    /\ IF ref[r].status = "success" THEN NextTarget(r) /\ Ends(r, "stored")
       ELSE NextProvider(r) /\ Ends(r, "reported")
    /\ UNCHANGED <<manager, limiter, candles, diagnostics, counts>>

-----------------------------------------------------------------------------
\* The store fails: a locked or damaged file, a full disk.
Fails == failures < MaxFailures /\ failures' = failures + 1

\* Clearing the diagnostics, recording a refusal or a missing client, or the run of
\* a failed fetch: all outside the try.
WriteFails(r) ==
    /\ Fails
    /\ ref[r].pc \in {"clear", "limited", "refused", "explain"} \/ (At(r, "log") /\ ref[r].status = "failed")
    /\ GivesUp(r)
    /\ UNCHANGED <<manager, limiter, tables, requests>>

\* Some of the diagnostics are in, the last never: in the except clause that is
\* the failed fetch itself, and the exception leaves it.
NoteFails(r) ==
    /\ Fails /\ At(r, "note") /\ ref[r].codes # {}
    /\ \E some \in SUBSET (ref[r].codes \ {"provider_fetch_failed"}) : Noted(r, some)
    /\ IF ref[r].status = "failed" THEN GivesUp(r) ELSE Caught(r) /\ UNCHANGED ended
    /\ UNCHANGED <<manager, limiter, candles, lastRun, requests>>

\* The old rows are gone and the first of the new are in.
ReplaceFails(r) ==
    /\ Fails /\ At(r, "replace")
    /\ \E k \in 0..(Len(ref[r].kept) - 1) : Stored(r, SubSeq(ref[r].kept, 1, k))
    /\ Caught(r)
    /\ UNCHANGED <<manager, limiter, diagnostics, lastRun, ended, requests>>

\* The candles are in, but the run of the success, or of the empty answer, is not.
LogFails(r) ==
    /\ Fails /\ At(r, "log") /\ ref[r].status # "failed"
    /\ Caught(r)
    /\ UNCHANGED <<manager, limiter, tables, ended, requests>>

-----------------------------------------------------------------------------
\* What is left of ages, oldest first, when those of a minute and more are dropped.
Recent(ages) ==
    SubSeq(ages, Cardinality({i \in DOMAIN ages : ages[i] >= Window}) + 1, Len(ages))

\* A tick of the minute.  A call of the limiter takes no time against it.
Tick ==
    /\ \A r \in Refreshers : ref[r].pc \notin {"prune", "pop", "admit", "retry", "append"}
    /\ \E d \in Domains :
          granted[d] # <<>> \/ \E i \in DOMAIN window[d] : window[d][i] < Window
    /\ window' = [d \in Domains |-> [i \in DOMAIN window[d] |->
                    LeastOf(window[d][i] + 1, Window)]]
    /\ granted' = [d \in Domains |-> Recent([i \in DOMAIN granted[d] |-> granted[d][i] + 1])]
    /\ UNCHANGED <<manager, tables, ref, ended, counts>>

\* The backend stops and starts again: tables stay, threads and memory go; a call
\* under way is cut after any of its statements.
Restart ==
    /\ Fails
    /\ \/ UNCHANGED <<candles, diagnostics>>
       \/ \E r \in Refreshers :
             /\ At(r, "replace") /\ UNCHANGED diagnostics
             /\ \E k \in 0..(Len(ref[r].kept) - 1) : Stored(r, SubSeq(ref[r].kept, 1, k))
       \/ \E r \in Refreshers :
             /\ At(r, "note") /\ UNCHANGED candles
             /\ \E some \in SUBSET ref[r].codes : Noted(r, some)
    /\ ref' = [r \in Refreshers |-> Idle]
    /\ window' = [d \in Domains |-> <<>>] /\ granted' = window'
    /\ UNCHANGED <<settings, configures>> /\ StartManager
    /\ UNCHANGED <<lastRun, ended, requests>>

Step(r) ==
    \/ Clear(r) \/ Prune(r) \/ Pop(r) \/ PopEmpty(r) \/ Admit(r) \/ Retry(r) \/ Grant(r)
    \/ Refuse(r) \/ LogRefusal(r)
    \/ Resolve(r) \/ NoClient(r) \/ Explain(r) \/ Fetch(r) \/ FetchFails(r) \/ Note(r)
    \/ Replace(r) \/ Log(r)
    \/ WriteFails(r) \/ NoteFails(r) \/ ReplaceFails(r) \/ LogFails(r)

Configuring == Rebuild /\ UNCHANGED corridor

CorridorNext ==
    \/ \E r \in Refreshers : Start(r) \/ Step(r)
    \/ Tick \/ Restart
    \/ Configuring
    \/ (\E s \in Configurations : Configure(s)) /\ UNCHANGED corridor

CorridorSpec ==
    /\ ManagerInit /\ CorridorInit
    /\ [][CorridorNext]_<<manager, corridor>>

\* The scheduler starts the job again and again, a call that started runs on,
\* and time passes, in the gaps between calls of the limiter too; users, providers,
\* settings and restarts are never promised.
CorridorFairness ==
    /\ WF_<<manager, corridor>>(Start("job")) /\ SF_<<manager, corridor>>(Tick)
    /\ WF_<<manager, corridor>>(Configuring)
    /\ \A r \in Refreshers : WF_<<manager, corridor>>(Step(r))
FairCorridor == CorridorSpec /\ CorridorFairness

-----------------------------------------------------------------------------
CorridorTypeOK ==
    /\ \A d \in Domains : /\ window[d] \in Seq(0..Window)
                          /\ granted[d] \in Seq(0..(Window - 1))
    /\ \A s \in Series : /\ ended[s] \in {"never", "open", "stored", "reported", "nochain", "race", "lost"}
                         /\ \A i \in 2..Len(candles[s]) : candles[s][i - 1].open_time < candles[s][i].open_time
    /\ \A r \in Refreshers :
          /\ (ref[r].pc = "idle") = (ref[r].todo = <<>>)
          /\ ref[r].pc \in {"client", "explain", "note", "replace", "log"}
                => ref[r].chain # <<>>
    /\ DOMAIN registry \subseteq
          ToSet([i \in DOMAIN Builtins |-> Builtins[i].name])
          \cup ToSet([i \in DOMAIN Extensions |-> Extensions[i].name])
          \cup UNION {{p.id : p \in ToSet(s.profiles)} : s \in Configurations}

\* Threads that share the limiter without a lock let through at most two requests
\* a minute beyond the limit of a domain for each thread after the first: one where
\* they pass the same count, one where a delayed popleft takes an event that had
\* not expired.
BudgetKept == \A d \in Domains : Len(granted[d]) <= Limit[d] + 2 * (Cardinality(Refreshers) - 1)

\* Once refresh has told the tables that an attempt on a series failed, they show
\* it until the next attempt has cleared the diagnostics or stored candles: the
\* latest run is no success or the diagnostics hold an error, however refreshes,
\* failing writes and restarts interleave.  Attempts that tell nothing are a chain
\* found empty, the limiter's IndexError, and those whose first diagnostic the
\* store refuses, although the comment in refresh says they do.
FailureLeavesTrace ==
    \A s \in Series :
        ended[s] = "reported" => lastRun[s] # "success" \/ diagnostics[s] \cap Errors # {}

\* Whatever is refused or reconfigured, each domain with targets and a
\* budget is let through to its providers again and again.
CorridorKeepsServing ==
    \A d \in Domains :
        ((\E i \in DOMAIN BaseTargets : BaseTargets[i].market_type = d) /\ Limit[d] > 0)
            => []<>(\E r \in Refreshers : At(r, "resolve") /\ Target(r).market_type = d)
=============================================================================

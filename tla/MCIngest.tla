------------------------------- MODULE MCIngest --------------------------------
(***************************************************************************)
(* MarketCorridor, CandleQuality and MarketCalendar for TLC.  The scenes   *)
(* share no state: one batch of raw candles or one year is judged, or the  *)
(* corridor runs: the job and one post with a reconfiguration or a failure *)
(* ("corridor"), the job and two posts that find no provider ("crowd"), or *)
(* the job alone with a store that fails twice ("store").                  *)
(***************************************************************************)
EXTENDS MarketCorridor

CONSTANTS Scenes, Years, Samples

VARIABLES scene, sample, year
mcvars == <<scene, sample, year, manager, corridor>>

Day0 == 19723  \* Monday 2024-01-01
Flat(d, close) == [parses |-> TRUE, clock |-> 96 * d, zone |-> 0, open |-> 1, high |-> 2,
                   low |-> 1, close |-> close, volume |-> 0]
Broken == [parses |-> FALSE, clock |-> 0, zone |-> 0, open |-> 1, high |-> 1, low |-> 1,
           close |-> 1, volume |-> 0]

MCBuiltins == <<[name |-> "keyed", caps |-> {"ohlcv", "trading"}, client |-> "k1"],
                [name |-> "public", caps |-> {"ohlcv"}, client |-> "always"]>>
MCExtensions == <<[name |-> "ext", caps |-> {"ohlcv"}]>>
MCFirst == [routes |-> [d \in {"crypto", "stocks"} |-> <<"ext", "keyed">>], keys |-> {"k1"},
            profiles |-> <<>>]
MCOther ==
    [routes |-> [d \in {"crypto", "stocks"} |-> <<"mine", "public">>], keys |-> {},
     profiles |-> <<[id |-> "mine", enabled |-> TRUE, caps |-> {"ohlcv"}, key |-> "none"]>>]
\* For the crowd: the route names a profile that is switched off.
MCBare == [routes |-> [d \in {"crypto", "stocks"} |-> <<"mine">>], keys |-> {},
           profiles |-> <<[id |-> "mine", enabled |-> FALSE, caps |-> {"ohlcv"}, key |-> "none"]>>]
MCConfigurations == {MCFirst, MCOther, MCBare}
MCBase == <<[symbol |-> "BTCUSD", market_type |-> "crypto", timeframe |-> "1d"]>>
MCWatchlists == {<<[symbol |-> "btc-usd", market_type |-> "crypto"],
                  [symbol |-> "GOLD", market_type |-> "forex"]>>}
MCSpelling == [x \in {"eth/usd", "btc-usd"} |-> IF x = "eth/usd" THEN "ETHUSD" ELSE "BTCUSD"]
MCLadder == [m \in {"crypto", "stocks"} |-> <<"1d">>]
MCLimit == [d \in {"crypto", "stocks"} |-> 1]
MCNow == 96 * (Day0 + 1) + 48
MCOffered == {<<Flat(Day0 - 1, 1), Flat(Day0, 1), Flat(Day0, 2), Flat(Day0 + 1, 1)>>,
              <<Broken>>}
\* Batches of up to three daily candles of a stock around a closed weekend:
\* sound, doubled, broken, badly shaped, in another zone, still forming.
MCShapes == {[open |-> 1, high |-> 2, low |-> 1, close |-> 2, volume |-> 0],
             [open |-> 1, high |-> 1, low |-> 1, close |-> 2, volume |-> 0],
             [open |-> 1, high |-> 2, low |-> 1, close |-> 1, volume |-> -1]}
MCCandles ==
    {shape @@ [parses |-> TRUE, clock |-> 96 * d, zone |-> 0] :
        shape \in MCShapes, d \in {Day0 - 4, Day0 - 3, Day0 + 1, Day0 + 2}}
    \cup {Broken, [Flat(Day0 - 3, 1) EXCEPT !.clock = @ + 96, !.zone = 96]}
MCSamples == UNION {[1..n -> MCCandles] : n \in 0..3}
MCStock == [symbol |-> "SPY", market_type |-> "stocks", timeframe |-> "1d"]
MCYears == 1990..2060

MCInit ==
    /\ scene \in Scenes
    /\ sample \in (IF scene = "quality" THEN Samples ELSE {<<>>})
    /\ year \in (IF scene = "calendar" THEN Years ELSE {0})
    /\ CorridorInit
    /\ CASE scene = "corridor" ->
            /\ ManagerInit /\ settings = MCFirst /\ requests = MaxRequests - 1
            /\ <<failures, configures>> \in {<<MaxFailures - 1, MaxConfigures>>, <<MaxFailures, 0>>}
         [] scene = "crowd" ->
            /\ ManagerInit /\ settings = MCBare /\ requests = 0
            /\ failures = MaxFailures /\ configures = MaxConfigures
         [] scene = "store" ->
            /\ ManagerInit /\ settings = MCFirst /\ requests = MaxRequests
            /\ failures = 0 /\ configures = MaxConfigures
         [] OTHER ->
            /\ settings = CHOOSE s \in Configurations : TRUE
            /\ registry = Nothing /\ clients = {} /\ rebuilding = 0 /\ configures = 0
            /\ requests = 0 /\ failures = 0

\* In the corridor the one post is the first handler's, and no configuration is bare.
MCNext ==
    /\ UNCHANGED <<scene, sample, year>>
    /\ IF scene \in {"corridor", "crowd", "store"} THEN CorridorNext ELSE UNCHANGED <<manager, corridor>>
    /\ scene = "corridor" => settings' # MCBare /\ ref'["second"] = Idle

\* CorridorFairness, in the scene where the corridor runs.
Stays == scene = "corridor" /\ UNCHANGED <<scene, sample, year>>
MCSpec ==
    /\ MCInit /\ [][MCNext]_mcvars
    /\ WF_mcvars(Stays /\ Start("job")) /\ SF_mcvars(Stays /\ Tick)
    /\ WF_mcvars(Stays /\ Configuring)
    /\ \A r \in Refreshers : WF_mcvars(Stays /\ Step(r))

\* Each judgement holds in its scene: the report on a batch of candles is true of
\* the batch, and the holidays of a year are what the exchange's calendar says.
CandlesJudged ==
    CASE scene = "quality" -> QualitySound(sample, MCStock, 96 * (Day0 + 2) + 48)
      [] scene = "calendar" -> CalendarSound(year)
      [] OTHER -> TRUE
\* Each domain is let through to its providers again and again, where it runs.
ServingGoesOn == scene = "corridor" => CorridorKeepsServing
=============================================================================

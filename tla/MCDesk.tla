-------------------------------- MODULE MCDesk --------------------------------
(***************************************************************************)
(* Academy, TradingDesk (over SecretStore) and EventBus for TLC.  The      *)
(* scenes share no state: the Academy is used, credentials are kept,       *)
(* tickets are filed, events are published, or one learner, one trade, one *)
(* journal, one set of extensions, one account or one history of settings  *)
(* calls is judged.                                                        *)
(***************************************************************************)
EXTENDS Academy, TradingDesk, EventBus

E == INSTANCE Extensions
B == INSTANCE RiskBrakes
G == INSTANCE Settings

CONSTANTS Scenes, Samples

VARIABLES scene, sample
mcvars == <<scene, sample, academy, bus, secrets, desk>>

(***************************************************************************)
(* The Academy's catalog: a mission with a drill, a pack's mission, and a  *)
(* mission of one criterion; a drill and an exam as the content has them.  *)
(***************************************************************************)
MCMissions == <<
    [id |-> "calm", drill |-> "risk-discipline",
     criteria |-> <<[type |-> "zero_tilt_entries"], [type |-> "min_journaled", value |-> 1]>>],
    [id |-> "habit", drill |-> NoDrill,
     criteria |-> <<[type |-> "min_streak_days", value |-> 2], [type |-> "min_lessons_completed", value |-> 1]>>],
    [id |-> "exam", drill |-> NoDrill, criteria |-> <<[type |-> "assessment_passed", of |-> "novice"]>>]>>
Option(id, points) ==
    [id |-> id, process |-> points[1], risk |-> points[2], discipline |-> points[3], severe |-> points[4]]
Checkpoint(options) == {Option(<<"a", "b", "c">>[i], options[i]) : i \in 1..3}
\* risk-discipline and a second drill of content/missions/drills.json.
MCDrill == [bar |-> 80, checkpoints |-> <<
    Checkpoint(<<<<10, 10, 8, FALSE>>, <<2, 0, 2, FALSE>>, <<0, 0, 0, TRUE>>>>),
    Checkpoint(<<<<10, 10, 8, FALSE>>, <<3, 4, 4, FALSE>>, <<0, 0, 0, TRUE>>>>),
    Checkpoint(<<<<10, 9, 10, FALSE>>, <<0, 0, 0, TRUE>>, <<4, 6, 3, FALSE>>>>)>>]
MCQuestions == <<[id |-> "q1", level |-> "novice", choice |-> TRUE, answer |-> 1],
                 [id |-> "q2", level |-> "novice", choice |-> TRUE, answer |-> 2],
                 [id |-> "q3", level |-> "expert", choice |-> TRUE, answer |-> 1]>>
MCSubjects == [exam |-> {"novice"}, drill |-> {"risk-discipline"}, scenario |-> {"crash"}]
MCAnswers == UNION {[questions -> {"a", "b", "c"}] : questions \in SUBSET (1..3)}
Outcomes(grades) == {[score |-> g.process, passed |-> g.passed] : g \in grades}
MCGrades ==
    [exam |-> {ExamGrade(MCQuestions, "novice", a) : a \in {<<>>, "q1" :> 1, "q1" :> 1 @@ "q2" :> 1 @@ "q3" :> 1}},
     drill |-> Outcomes({DrillGrade(MCDrill, a) : a \in {<<"a", "a", "a">>, <<"a", "a", "b">>}}),
     scenario |-> {[score |-> g.percent, passed |-> g.passed] :
                      g \in {ScenarioGrade([MCDrill EXCEPT !.bar = 70], <<"a", "a", "c">>)}}]
MCExercise == [l |-> [type |-> "numeric_input", correct |-> -50, tolerance |-> 10]]
MCAnswerings == {-54, -56}
MCEntries == {<<TRUE, FALSE>>, <<FALSE, FALSE>>}
MCTradeBook ==
    [n \in 1..2 |-> [id |-> n, symbol |-> "A", day |-> 0, reason |-> TRUE, emotion |-> "", score |-> 90,
                     notes |-> IF n = 2 THEN {"tilt"} ELSE {}, status |-> "open", class |-> "none"]]

(***************************************************************************)
(* Credentials and tickets, publishers.                                    *)
(***************************************************************************)
MCLegacy == {Nothing, [Nothing EXCEPT !["data"] = "a", !["trade1"] = "a", !["odd"] = "a"],
             [Nothing EXCEPT !["trade1"] = "a", !["trade2"] = "b"]}
MCChain == <<"news", "old", "alpaca">>
MCClient == [news |-> "none", old |-> "plain", alpaca |-> "ticket"]
MCTickets == {[stop |-> TRUE, reason |-> TRUE, risk |-> Unrated, kind |-> "market"],
              [stop |-> FALSE, reason |-> TRUE, risk |-> 150, kind |-> "market"],
              [stop |-> TRUE, reason |-> TRUE, risk |-> 50, kind |-> "limit"]}
MCRuleBook == {[cap |-> 0, risk |-> 100, stop |-> TRUE, reason |-> TRUE],
               [cap |-> 2, risk |-> 2000, stop |-> FALSE, reason |-> FALSE]}
MCSymmetry == Permutations(Listers)
MCMaxEvents == [clock |-> 2, job |-> 1]

(***************************************************************************)
(* What is judged.                                                         *)
(***************************************************************************)
MCEvidence ==
    {[lessons |-> {[id |-> 1, level |-> "novice"], [id |-> 2, level |-> "intermediate"]},
      completed |-> c, attempted |-> {1, 2}, trades |-> t, passed |-> p, missions |-> m, moments |-> o] :
        c \in SUBSET {1, 2}, t \in {19, 20, 50}, p \in SUBSET {"novice", "intermediate", "advanced"},
        m \in SUBSET {"risk-discipline", "the-operator"}, o \in SUBSET {"oversized_position", "rapid_fire_entries"}}
Improved(e) ==
    {[e EXCEPT !.completed = {1, 2}], [e EXCEPT !.trades = @ + 1], [e EXCEPT !.trades = 50],
     [e EXCEPT !.passed = @ \cup {"advanced"}], [e EXCEPT !.missions = @ \cup {"the-operator"}],
     [e EXCEPT !.moments = {}]}

MCTrade(side, stop, target, risk, reason, emotion) ==
    [id |-> 1, symbol |-> "A", side |-> side, entry |-> 10, stop |-> stop, target |-> target, risk |-> risk,
     reason |-> reason, emotion |-> emotion, day |-> 1, status |-> "executed"]
MCTrades == {MCTrade(side, stop, target, risk, reason, emotion) :
                side \in {"long", "short"}, stop \in {0, 8, 10, 12}, target \in {0, 7, 13},
                risk \in {NoRisk, 50, 150, 300}, reason \in BOOLEAN, emotion \in {"", "calm", "fomo"}}
MCBars == UNION {[1..n -> {[low |-> l, high |-> h, close |-> 10] : l \in {7, 9}, h \in {11, 13}}] : n \in 0..2}

MCJournals ==
    LET kinds == {MCTrade("long", 8, 13, 50, TRUE, "calm"), MCTrade("long", 8, 11, 150, FALSE, ""),
                  [MCTrade("long", 0, 0, NoRisk, TRUE, "fomo") EXCEPT !.symbol = "B"],
                  [MCTrade("short", 12, 9, 50, TRUE, "fomo") EXCEPT !.status = "pending"]}
        books == UNION {{[i \in 1..n |-> [f[i] EXCEPT !.id = n - i + 1]] : f \in [1..n -> kinds]} : n \in 0..4}
        accounts == {[balance |-> b, positions |-> {[symbol |-> "A", quantity |-> q, price |-> 10, pnl |-> p]}] :
                        b \in {0, 100}, q \in {1, 3}, p \in {-2, 0}}
    IN  {<<"journal", a, t, <<[low |-> 7, high |-> 11, close |-> 10]>>, j>> : a \in accounts, t \in books, j \in {{}, {1, 2}}}

\* Packs, a strategy and providers that extensions bring; one pack's id begins
\* another's, and a mission, a lesson or a criterion is not as it should be.
MCCriterion(type, value, minimum, subject) ==
    [type |-> type, labelled |-> TRUE, value |-> value, minScore |-> minimum, subject |-> subject]
MCMission(id, criterion) == [id |-> id, written |-> TRUE, level |-> "novice", criteria |-> <<criterion>>]
MCLesson(id, options, correct) ==
    [id |-> id, written |-> TRUE, engine |-> FALSE, terms |-> TRUE,
     exercise |-> [kind |-> "multiple_choice", options |-> options, correct |-> correct]]
MCStep(kind, what) == [kind |-> kind, what |-> what]
MCPack(criterion) == MCStep("missions", [id |-> <<"a">>, missions |-> <<MCMission(<<"b">>, criterion)>>])
MCCourse(id, level, lessons) == MCStep("lessons", [id |-> id, level |-> level, lessons |-> lessons])
MCSteps ==
    {MCStep("missions", [id |-> <<"a">>, missions |-> <<MCMission(<<"b", "c">>, MCCriterion("min_trades", 1, E!Absent, FALSE))>>]),
     MCStep("missions", [id |-> <<"a", "b">>, missions |-> <<MCMission(<<"c">>, MCCriterion("min_trades", 1, E!Absent, FALSE))>>]),
     MCPack(MCCriterion("odd", 1, E!Absent, FALSE)),
     MCCourse(<<"a">>, "novice", <<MCLesson(<<"c">>, 2, 1), MCLesson(<<"d">>, 2, 0)>>),
     MCCourse(<<"b">>, "expert", <<MCLesson(<<"c">>, 2, 2)>>),
     MCStep("strategy", [id |-> "s"]),
     MCStep("provider", [name |-> "p", transport |-> "public", trades |-> FALSE]),
     MCStep("provider", [name |-> "q", transport |-> "internal", trades |-> TRUE])}
MCExtension(n, enabled, permissions, steps, fails, ails) ==
    [id |-> <<"one", "two">>[n], file |-> <<"1", "2">>[n], enabled |-> enabled, permissions |-> permissions,
     steps |-> steps, fails |-> fails, ails |-> ails]
MCExtensions ==
    {<<"load", <<MCExtension(1, TRUE, granted, <<x, y>>, fails, ails), MCExtension(2, on, {}, <<z>>, 0, FALSE)>>>> :
        granted \in {{}, {"network_access"}}, x \in MCSteps, y \in MCSteps, z \in MCSteps, fails \in {0, 2},
        ails \in BOOLEAN, on \in BOOLEAN}
    \cup {<<"pack", MCPack(MCCriterion(type, value, minimum, subject))>> :
              type \in E!CriteriaTypes \cup {"odd"}, value \in {E!Absent, E!Null, 0, 10001},
              minimum \in {E!Absent, E!Null, 5}, subject \in BOOLEAN}
    \cup {<<"pack", MCCourse(<<"a">>, "expert", <<MCLesson(<<"c">>, options, correct)>>)>> :
              options \in 0..3, correct \in -1..3}

\* Open positions, the day's tickets and the scores behind the brakes.
MCBrakes ==
    LET open == [side : {"long", "short"}, quantity : {3, 16}, price : {10}, pnl : {-60, 30}]
    IN  {<<"brakes", [balance |-> b, positions |-> p, cap |-> c, filed |-> 2, scores |-> s]>> :
            b \in {0, 1000}, p \in UNION {[1..n -> open] : n \in 0..3}, c \in {0, 2},
            s \in {<<40, 40, 40, 40>>, <<50, 50, 50, 50, 49>>, <<90, 40, 40, 40, 40, 90>>}}

\* Calls on the settings, from the routes of today and of an older version.
MCRoutes == {[crypto |-> G!Route("coinbase", "coingecko", "kraken"), stocks |-> G!Route("alpaca", "finnhub", "")],
             [crypto |-> G!Route("gemini", "kraken", ""), stocks |-> G!Route("yahoo_public", "alpaca", "")]}
MCProfile(id, label, auth, key) ==
    [id |-> id, label |-> label, auth |-> auth, key |-> key, caps |-> IF auth = "none" THEN {} ELSE {"ai", "trading"}]
MCCalls ==
    {[does |-> "get"], [does |-> "restart"]}
    \cup {[does |-> "put", with |-> [routes |-> r, confirmed |-> c, keychain |-> c /\ k]] :
              r \in MCRoutes, c \in BOOLEAN, k \in BOOLEAN}
    \cup {[does |-> "upsert", with |-> p] :
              p \in {MCProfile(<<>>, <<"a", "_", "_", "b">>, "bearer", <<>>), MCProfile(<<>>, <<"_">>, "none", <<>>),
                     MCProfile(<<"custom", "_", "a", "_", "b">>, <<"a">>, "oauth", <<"k">>),
                     MCProfile(<<"_", "custom", "_", "a">>, <<"a">>, "api_key_query", <<"k">>)}}
    \cup {[does |-> "delete", with |-> id] :
              id \in {<<"a", "_", "b">>, <<"custom", "_", "custom", "_", "a">>, <<"_">>}}
    \cup {[does |-> "replace", with |-> "level" :> "high"], [does |-> "enable", with |-> TRUE], [does |-> "enable", with |-> FALSE]}
MCSubjectsOfCalls == {{"get", "put", "restart"}, {"upsert", "delete", "restart"}, {"replace", "enable", "put", "restart"}}
MCSettings ==
    {<<"settings", [routes |-> r, live |-> r, safety |-> FALSE, liveSafety |-> FALSE, profiles |-> <<>>,
                    known |-> <<>>, extras |-> <<>>],
       [i \in DOMAIN calls |-> calls[i] @@ [now |-> <<"1", "2", "3">>[i]]]>> :
        r \in MCRoutes, calls \in UNION {[1..n -> MCCalls] : n \in 0..2}
                                \cup UNION {[1..3 -> {c \in MCCalls : c.does \in about}] : about \in MCSubjectsOfCalls}}
    \cup {<<"ai", payload>> :
              payload \in UNION {[fields -> {"", "openai", "anthropic"}] :
                  fields \in SUBSET {"provider", "base_url", "api_key_id", "ollama_base_url"}}}

MCSamples ==
    UNION {{<<"streak", worked, today>> : worked \in SUBSET (1..today)} : today \in 1..7}
    \cup {<<"level", 20 * n>> : n \in 0..350}
    \cup {<<"card", [FreshCard EXCEPT !.interval = i, !.ease = e], now>> :
             i \in {0, 1, 40, 100, 215, 1000, 600000, 1000000}, e \in {130, 150, 195, 250}, now \in {0, 5}}
    \cup {<<"queue", [i \in 1..n |-> [term |-> i, due |-> IF i % 3 = r THEN 9 ELSE 5]], done, now>> :
             n \in 0..15, r \in 0..3, done \in SUBSET {1, 2}, now \in {4, 5, 9}}
    \cup {<<"drill", a>> : a \in MCAnswers}
    \cup {<<"daily", [i \in 1..n |-> [id |-> i, drill |-> i % 4 \in k]], 20260700 + d>> :
             n \in 1..6, k \in {{}, {1}, {1, 2}}, d \in 1..9}
    \cup UNION {{<<"certificate", [total |-> t, done |-> n], [NotTaken EXCEPT !.taken = k, !.passed = k /\ p]>> :
                    n \in 0..t, k \in BOOLEAN, p \in BOOLEAN} : t \in 0..2}
    \cup UNION {{<<"ladder", e, more>> : more \in Improved(e)} : e \in MCEvidence}
    \cup {<<"review", t, bars>> : t \in MCTrades, bars \in MCBars}
    \cup MCJournals \cup MCExtensions \cup MCBrakes \cup MCSettings
MCLessons == <<[id |-> 1, terms |-> 1..8], [id |-> 2, terms |-> 6..15]>>

Judged(s) ==
    CASE s[1] = "streak" -> StreaksSound(s[2], s[3])
      [] s[1] = "level" -> LevelSound(s[2])
      [] s[1] = "card" -> CardSound(s[2], s[3])
      [] s[1] = "queue" -> QueueSound(s[2], MCLessons, s[3], s[4])
      [] s[1] = "drill" -> DrillSound(MCDrill, s[2])
      [] s[1] = "daily" -> FeaturedSound(s[2], s[3])
      [] s[1] = "certificate" -> CertificatesAgree(s[2], s[3])
      [] s[1] = "ladder" -> LadderIsClimbed(s[2], s[3])
      [] s[1] = "review" -> ReviewSound(s[2], s[3])
      [] s[1] = "load" -> E!LoadSound(s[2])
      [] s[1] = "pack" -> E!PackSound(s[2])
      [] s[1] = "brakes" -> B!BrakesSound(s[2])
      [] s[1] = "settings" -> G!SettingsSound(s[2], s[3])
      [] s[1] = "ai" -> G!AiSound(s[2])
      [] s[1] = "journal" -> JournalSound(s[2], s[3], s[4], s[5], 1)
      [] OTHER -> TRUE

MCInit ==
    /\ scene \in Scenes
    /\ sample \in (IF scene = "judging" THEN Samples ELSE {<<"none">>})
    /\ AcademyInit /\ BusInit /\ SecretInit /\ DeskInit
    /\ legacy # Nothing => scene = "secrets"

\* In each scene of the Academy some of the handlers act.
Learning ==
    /\ CASE scene = "studying" -> Study \/ Adopt \/ Midnight \/ ClearUserData
         [] scene = "earning" ->
               \/ ListMissions \/ Execute \/ ClearUserData
               \/ \E i \in DOMAIN items, entry \in Annotations : Annotate(items[i].id, entry)
               \/ \E g \in Grades["drill"] : Submit("drill", "risk-discipline", g)
         [] scene = "habit" ->
               \/ ListMissions \/ Midnight \/ ClearUserData
               \/ \E l \in Lessons : MarkComplete(l) \/ (\E a \in Answers : Answer(l, a))
               \/ \E t \in Terms : GradeCard(t)
         [] scene = "slots" ->
               ListMissions \/ FillSlots \/ Midnight \/ (\E g \in Grades["exam"] : Submit("exam", "novice", g))
         [] scene = "overlap" ->   \* two listings
               ListMissions \/ Midnight \/ (\E g \in Grades["exam"] : Submit("exam", "novice", g))
         [] OTHER -> FALSE
    /\ scene # "overlap" => listings' <= 1
    /\ Remember
    /\ UNCHANGED <<bus, secrets, desk>>
MCNext ==
    /\ UNCHANGED <<scene, sample>>
    /\ \/ Learning
       \/ scene = "secrets" /\ SecretNext /\ UNCHANGED <<academy, bus, desk>>
       \/ /\ scene = "trading" /\ DeskNext /\ saves' <= 1   \* one credential
          /\ {wanted', pending'.wants} \subseteq {Nothing, [Nothing EXCEPT !["trade1"] = "a"]}
          /\ UNCHANGED <<academy, bus>>
       \/ scene = "events" /\ BusNext /\ UNCHANGED <<academy, secrets, desk>>
MCSpec == MCInit /\ [][MCNext]_mcvars

\* The functions of Mastery, TradeReview, Extensions, RiskBrakes and Settings keep
\* their promises on what is judged (learn_mastery.py, trade_review.py,
\* extensions/registry.py, risk_meta.py, settings.py).
JudgementsSound == Judged(sample)
=============================================================================

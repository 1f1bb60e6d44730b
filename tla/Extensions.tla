------------------------------ MODULE Extensions ------------------------------
(***************************************************************************)
(* What an extension adds to the running program: load_extension_registry  *)
(* (extensions/registry.py), the registration calls of the SDK's           *)
(* ExtensionContext, and the registries behind them, with the validation   *)
(* of mission and lesson packs.                                            *)
(*                                                                         *)
(* An identifier is the tuple of its words, joined by hyphens in the code. *)
(* A number of a criterion is Absent when its field is, Null when the      *)
(* field is null.  An extension is [id, file, enabled, permissions, steps, *)
(* fails, ails]: its settings, the calls its register makes, the step at   *)
(* which it raises (0 for none), and whether its health method raises.     *)
(***************************************************************************)
EXTENDS Integers, Sequences, FiniteSets, SequencesExt, Functions

Absent == -2
Null == -1
Levels == {"novice", "intermediate", "advanced", "expert"}
MaxMissions == 60
MaxCriteria == 8
MaxNumber == 10000
MaxLessons == 40

\* REQUIRED_PARAMS and the rest of CRITERIA_TYPES, which need none.
Counted == {"min_trades", "max_dangerous_success", "min_process_average", "min_planned_losses_taken",
            "min_resolved", "min_symbol_diversity", "max_daily_trades", "min_trades_with_reason",
            "min_emotions_logged", "min_journaled", "min_tagged", "min_scenarios_passed",
            "min_lessons_completed", "min_review_reps", "min_streak_days"}
Bare == {"all_have_stops", "max_risk_percent_each", "zero_tilt_entries", "constitution_adopted"}
CriteriaTypes ==
    Counted \cup Bare \cup {"min_classification", "consecutive_process_scores", "scenario_passed", "assessment_passed"}
Required(type) ==
    CASE type \in Counted -> {"value"}
      [] type = "min_classification" -> {"value", "classification"}
      [] type = "consecutive_process_scores" -> {"value", "min_score"}
      [] type = "scenario_passed" -> {"scenario_id"}
      [] type = "assessment_passed" -> {"level"}
      [] OTHER -> {}

Has(c, param) == CASE param = "value" -> c.value # Absent
                   [] param = "min_score" -> c.minScore # Absent
                   [] OTHER -> c.subject
ValidNumber(n) == n \in {Absent, Null} \cup (0..MaxNumber)
ValidCriterion(c) ==
    /\ c.type \in CriteriaTypes /\ c.labelled
    /\ \A param \in Required(c.type) : Has(c, param)
    /\ ValidNumber(c.value) /\ ValidNumber(c.minScore)
ValidMission(m) ==
    /\ m.id # <<>> /\ m.written /\ m.level \in Levels
    /\ Len(m.criteria) \in 1..MaxCriteria
    /\ \A i \in DOMAIN m.criteria : ValidCriterion(m.criteria[i])
Distinct(items) == \A i, j \in DOMAIN items : items[i].id = items[j].id => i = j
ValidMissionPack(p) ==
    /\ p.id # <<>> /\ Len(p.missions) \in 1..MaxMissions /\ Distinct(p.missions)
    /\ \A i \in DOMAIN p.missions : ValidMission(p.missions[i])

\* An exercise is [kind, options, correct].
ValidExercise(e) == e.kind = "multiple_choice" /\ e.options >= 2 /\ e.correct \in 0..e.options - 1
ValidLesson(l) == l.id # <<>> /\ l.written /\ ~l.engine /\ l.terms /\ ValidExercise(l.exercise)
ValidLessonPack(p) ==
    /\ p.id # <<>> /\ p.level \in Levels /\ Len(p.lessons) \in 1..MaxLessons /\ Distinct(p.lessons)
    /\ \A i \in DOMAIN p.lessons : ValidLesson(p.lessons[i])

\* What the criteria evaluation of missions.py does to a number it compares.
Comparable(c) ==
    /\ (c.type \in Counted \cup {"min_classification", "consecutive_process_scores"}) => c.value >= 0
    /\ c.type = "consecutive_process_scores" => c.minScore >= 0
    /\ c.type \in {"min_classification", "scenario_passed", "assessment_passed"} => c.subject

-----------------------------------------------------------------------------
\* The registries: packs and definitions by id, an id registered again keeps its
\* place in the dict and gets the new value.
Put(entries, id, value) ==
    IF \E i \in DOMAIN entries : entries[i].id = id
    THEN [i \in DOMAIN entries |-> IF entries[i].id = id THEN [id |-> id, value |-> value] ELSE entries[i]]
    ELSE Append(entries, [id |-> id, value |-> value])
NoRegistries == [missions |-> <<>>, lessons |-> <<>>, strategies |-> <<>>, providers |-> <<>>]
Named(pack, items) == [i \in DOMAIN items |-> [items[i] EXCEPT !.id = pack.id \o @]]
RegisterMissionPack(r, p) ==
    IF ValidMissionPack(p) THEN [r EXCEPT !.missions = Put(@, p.id, Named(p, p.missions))] ELSE r
RegisterLessonPack(r, p) ==
    IF ValidLessonPack(p)
    THEN [r EXCEPT !.lessons = Put(@, p.id, [level |-> p.level, items |-> Named(p, p.lessons)])] ELSE r
AllMissions(r) == FlattenSeq([i \in DOMAIN r.missions |-> r.missions[i].value])
AllLessons(r) == FlattenSeq([i \in DOMAIN r.lessons |-> r.lessons[i].value.items])
TracksForLevel(r, level) == SelectSeq(r.lessons, LAMBDA e : e.value.level = level)
GetLesson(r, id) == SelectSeq(AllLessons(r), LAMBDA l : l.id = id)[1]

\* register_provider: what the extension must have declared.
Declared(x, provider) ==
    /\ provider.transport \in {"public", "keyed"} => "network_access" \in x.permissions
    /\ provider.trades => "submit_orders" \in x.permissions
\* A registration call; one that is refused leaves a line in the diagnostics.
Accepts(x, step) ==
    CASE step.kind = "missions" -> ValidMissionPack(step.what)
      [] step.kind = "lessons" -> ValidLessonPack(step.what)
      [] step.kind = "provider" -> Declared(x, step.what)
      [] OTHER -> TRUE
Register(r, x, step) ==
    IF ~Accepts(x, step) THEN r
    ELSE CASE step.kind = "missions" -> RegisterMissionPack(r, step.what)
           [] step.kind = "lessons" -> RegisterLessonPack(r, step.what)
           [] step.kind = "strategy" -> [r EXCEPT !.strategies = Put(@, step.what.id, step.what)]
           [] OTHER -> [r EXCEPT !.providers = Put(@, step.what.name, step.what)]

\* _load_extension: the calls up to the one that raises; the record of an
\* extension that raised carries the name of its file.
Made(x) == IF ~x.enabled THEN <<>> ELSE IF x.fails = 0 THEN x.steps ELSE SubSeq(x.steps, 1, x.fails - 1)
Raises(x) == x.enabled /\ (x.fails > 0 \/ x.ails)
RecordOf(x) ==
    IF Raises(x) THEN [loaded |-> FALSE, enabled |-> FALSE, health |-> "error", refused |-> 0]
    ELSE [loaded |-> x.enabled, enabled |-> x.enabled, health |-> IF x.enabled THEN "ok" ELSE "disabled",
          refused |-> Cardinality({i \in DOMAIN Made(x) : ~Accepts(x, Made(x)[i])})]
NameOf(x) == IF Raises(x) THEN x.file ELSE x.id
Load(state, x) ==
    [registries |-> FoldLeft(LAMBDA r, step : Register(r, x, step), state.registries, Made(x)),
     records |-> Put(state.records, NameOf(x), RecordOf(x))]
LoadExtensions(allowed, extensions) ==
    FoldLeft(Load, [registries |-> NoRegistries, records |-> <<>>], IF allowed THEN extensions ELSE <<>>)

-----------------------------------------------------------------------------
\* Whether the tuple of words s begins the tuple t.
Begins(s, t) == Len(s) < Len(t) /\ SubSeq(t, 1, Len(s)) = s

\* What a learner may choose that is right.
RightAnswers(e) == {a \in 0..e.options - 1 : a = e.correct}

\* The engine can evaluate every criterion of a mission it accepted, and a learner
\* can answer every exercise it accepted (validate_mission_pack and
\* validate_lesson_pack against missions.py and learn_service.py), unless a number
\* was given as null.
PackSound(step) ==
    LET p == step.what IN
    CASE step.kind = "missions" /\ ValidMissionPack(p) ->
            \A i \in DOMAIN p.missions : \A j \in DOMAIN p.missions[i].criteria :
                LET c == p.missions[i].criteria[j] IN Null \notin {c.value, c.minScore} => Comparable(c)
      [] step.kind = "lessons" /\ ValidLessonPack(p) ->
            \A i \in DOMAIN p.lessons : RightAnswers(p.lessons[i].exercise) = {p.lessons[i].exercise.correct}
      [] OTHER -> TRUE

\* Extensions stay inside what the user enabled and what they declared: nothing
\* loads before the user allows it, a disabled extension adds nothing, a provider
\* has the permissions of an extension that was enabled, a pack is in whole or not
\* at all, an extension that raises stops no other, one that is shown as loaded
\* made every call and every refusal is counted; and where no pack's id begins
\* another's, an id names one mission or lesson (extensions/registry.py).
LoadSound(extensions) ==
    LET end == LoadExtensions(TRUE, extensions)
        r == end.registries
        on == SelectSeq(extensions, LAMBDA x : x.enabled)
        made == UNION {{<<x, i>> : i \in DOMAIN Made(x)} : x \in ToSet(on)}
        packs(entries) == {entries[i].id : i \in DOMAIN entries}
        apart(entries) == \A p, q \in packs(entries) : ~Begins(p, q)
    IN  /\ LoadExtensions(FALSE, extensions).registries = NoRegistries
        /\ LoadExtensions(TRUE, on).registries = r
        /\ \A i \in DOMAIN r.providers :
              \E x \in ToSet(on) : Declared(x, r.providers[i].value)
                                   /\ r.providers[i].value \in {x.steps[k].what : k \in DOMAIN x.steps}
        /\ \A m \in made : LET step == Made(m[1])[m[2]] IN
              /\ step.kind = "missions" => (step.what.id \in packs(r.missions)) = (\E n \in made :
                    LET other == Made(n[1])[n[2]] IN
                    other.kind = "missions" /\ other.what.id = step.what.id /\ ValidMissionPack(other.what))
              /\ (step.kind = "strategy") => \E i \in DOMAIN r.strategies : r.strategies[i].id = step.what.id
        /\ \A i \in DOMAIN end.records : end.records[i].value.loaded =>
              \E x \in ToSet(on) : x.id = end.records[i].id /\ Made(x) = x.steps
        /\ apart(r.missions) => Distinct(AllMissions(r))
        /\ apart(r.lessons) => \A i \in DOMAIN AllLessons(r) :
              GetLesson(r, AllLessons(r)[i].id) = AllLessons(r)[i]
        /\ \A e \in ToSet(r.lessons) : {l \in Levels : e \in ToSet(TracksForLevel(r, l))} = {e.value.level}
=============================================================================

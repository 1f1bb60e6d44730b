-------------------------------- MODULE Mastery --------------------------------
(***************************************************************************)
(* What the Academy computes from its tables, as functions of them: the    *)
(* streaks (services/missions.py, learn_mastery.py), XP and levels, review *)
(* cards and their queue, certificates (learn_mastery.py), the grades of   *)
(* exams, drills and scenarios (learn_assessments.py, missions.py,         *)
(* scenarios.py), exercise answers (learn_service.py) and the readiness    *)
(* ladder (learn_readiness.py).                                            *)
(*                                                                         *)
(* Days are numbered; a card's interval and ease are in hundredths, as the *)
(* table stores them, its due time in 1/10000 days.  Points and scores are *)
(* whole; a lesson, a term, a level is a number or a name.                 *)
(***************************************************************************)
EXTENDS Integers, Sequences, FiniteSets, SequencesExt, FiniteSetsExt

CONSTANT LastTime   \* datetime.max, in 1/10000 days
ASSUME CalendarAssumption == LastTime \in Nat

\* round(n / d) for n >= 0: half to even.
HalfEven(n, d) ==
    LET q == n \div d  twice == 2 * (n % d)
    IN  IF twice > d \/ (twice = d /\ q % 2 = 1) THEN q + 1 ELSE q
Percent(part, whole) == IF whole = 0 THEN 0 ELSE HalfEven(100 * part, whole)

\* sorted, of a set of numbers.
Ordered(S) == [i \in 1..Cardinality(S) |-> CHOOSE x \in S : Cardinality({y \in S : y < x}) = i - 1]

(***************************************************************************)
(* Streaks.                                                                *)
(***************************************************************************)

\* _current_streak: consecutive active days up to today, or to yesterday while
\* today has none.  Day 0 is never active.
CurrentStreak(days, today) ==
    LET run[d \in 0..today] == IF d \in days THEN 1 + run[d - 1] ELSE 0
    IN  run[IF today \in days THEN today ELSE today - 1]

\* _longest_streak: one pass over the days in order.
LongestStreak(days) ==
    IF days = {} THEN 0
    ELSE LET ordered == Ordered(days)
             step(acc, i) == LET run == IF ordered[i] - ordered[i - 1] = 1 THEN acc.run + 1 ELSE 1
                             IN  [run |-> run, best |-> Max({acc.best, run})]
         IN  FoldLeft(step, [run |-> 1, best |-> 1], [i \in 1..(Len(ordered) - 1) |-> i + 1]).best

(***************************************************************************)
(* XP, levels, badges.                                                     *)
(***************************************************************************)
Titles == 8   \* LEVEL_TITLES
Xp(earned) ==
    20 * earned.lessons + 100 * earned.exams + 150 * earned.missions + 75 * earned.scenarios
        + 2 * earned.reps
XpLevel(xp) == Max({n \in 0..(Titles - 1) : 100 * n * n <= xp})
NextLevelXp(level) == 100 * (level + 1) * (level + 1)
\* A badge for each track that has lessons.
Badges(tracks, done) == {[track |-> t, earned |-> tracks[t] \subseteq done] :
                            t \in {u \in DOMAIN tracks : tracks[u] # {}}}

(***************************************************************************)
(* Review cards.                                                           *)
(***************************************************************************)
MinEase == 130
NewCards == 6
QueueSize == 12
FreshCard == [interval |-> 0, ease |-> 250, reps |-> 0, lapses |-> 0, due |-> 0]

\* get_glossary then _definitions_for_completed: each term of the catalog once,
\* with the first lesson that has it, in order of the term; kept when that
\* lesson is completed.  Lessons are [id, terms] in catalog order.
Glossary(lessons) ==
    LET terms == UNION {lessons[i].terms : i \in DOMAIN lessons}
        source(t) == lessons[Min({i \in DOMAIN lessons : t \in lessons[i].terms})].id
        ordered == Ordered(terms)
    IN  [k \in DOMAIN ordered |-> [term |-> ordered[k], lesson |-> source(ordered[k])]]
Definitions(lessons, done) == SelectSeq(Glossary(lessons), LAMBDA e : e.lesson \in done)

\* review_queue: due cards of completed lessons in the order of their rows, then
\* the first new terms, cut to the size of a queue.
Queue(cards, definitions, now) ==
    LET known == {definitions[k].term : k \in DOMAIN definitions}
        due == SelectSeq(cards, LAMBDA c : c.due <= now /\ c.term \in known)
        new == SelectSeq(definitions, LAMBDA e : \A i \in DOMAIN cards : cards[i].term # e.term)
        terms(s) == [i \in DOMAIN s |-> s[i].term]
        all == terms(due) \o terms(SubSeq(new, 1, Min({NewCards, Len(new)})))
    IN  SubSeq(all, 1, Min({QueueSize, Len(all)}))

\* grade, at time now: the interval and ease stored are rounded, the due time is
\* not.  Whether the card is due is not asked, so the interval can grow until the
\* due time is no date: adding it raises OverflowError and nothing is stored.
Graded(card, verdict, now) ==
    LET product == card.interval * card.ease   \* 1/10000 days
        wait == CASE verdict = "again" -> 0
                  [] verdict = "easy" -> Max({20000, (3 * product) \div 2})
                  [] OTHER -> IF card.interval = 0 THEN 10000 ELSE Max({10000, product})
    IN  IF now + wait > LastTime THEN card ELSE
        [interval |-> HalfEven(wait, 100), due |-> now + wait, reps |-> card.reps + 1,
         ease |-> CASE verdict = "again" -> Max({MinEase, card.ease - 20})
                    [] verdict = "easy" -> card.ease + 10 [] OTHER -> card.ease,
         lapses |-> card.lapses + (IF verdict = "again" THEN 1 ELSE 0)]

(***************************************************************************)
(* Exams, drills, scenarios, exercises.  Answers are functions from the    *)
(* questions answered.                                                     *)
(***************************************************************************)
PassPercent == 80
\* LearnAssessmentService.grade: only the answers that name a multiple-choice
\* lesson of the level count, and only those.
ExamGrade(lessons, level, answers) ==
    LET counted == {l \in DOMAIN answers : \E i \in DOMAIN lessons :
                       lessons[i].id = l /\ lessons[i].level = level /\ lessons[i].choice}
        right == {l \in counted : \E i \in DOMAIN lessons :
                     lessons[i].id = l /\ answers[l] = lessons[i].answer}
        score == Percent(Cardinality(right), Cardinality(counted))
    IN  [score |-> score, passed |-> counted # {} /\ score >= PassPercent]

Chosen(checkpoint, answers, index) ==
    {o \in checkpoint : index \in DOMAIN answers /\ o.id = answers[index]}
Sums(checkpoints, answers, dimension) ==
    FoldLeft(LAMBDA acc, i :
                LET options == {o[dimension] : o \in checkpoints[i]}
                    picked == {o[dimension] : o \in Chosen(checkpoints[i], answers, i)}
                IN  [earned |-> acc.earned + (IF picked = {} THEN 0 ELSE Max(picked)),
                     most |-> acc.most + Max(options)],
             [earned |-> 0, most |-> 0], [i \in DOMAIN checkpoints |-> i])
\* grade_drill: process decides, unless a severe option was chosen.
DrillGrade(drill, answers) ==
    LET score(d) == Percent(Sums(drill.checkpoints, answers, d).earned,
                            Sums(drill.checkpoints, answers, d).most)
        severe == \E i \in DOMAIN drill.checkpoints :
                     \E o \in Chosen(drill.checkpoints[i], answers, i) : o.severe
    IN  [process |-> score("process"), risk |-> score("risk"),
         discipline |-> score("discipline"), severe |-> severe,
         passed |-> score("process") >= drill.bar /\ ~severe]
\* ScenarioService.grade.
ScenarioGrade(scenario, answers) ==
    LET sums == Sums(scenario.checkpoints, answers, "process")
        percent == Percent(sums.earned, sums.most)
    IN  [percent |-> percent, passed |-> percent >= scenario.bar]
\* check_answer: a choice is right or wrong, a number within its tolerance.
AnswerIsRight(exercise, answer) ==
    CASE exercise.type = "multiple_choice" -> answer = exercise.correct
      [] exercise.type = "numeric_input" ->
            LET off == Max({answer - exercise.correct, exercise.correct - answer})
                size == Max({exercise.correct, -exercise.correct})
            IN  100 * off <= size * exercise.tolerance
      [] OTHER -> FALSE

\* _pick_daily_mission: of the incomplete missions those with a drill, if any, the
\* one the date (written as a number, yyyymmdd) falls on.
Featured(incomplete, date) ==
    LET drilled == SelectSeq(incomplete, LAMBDA m : m.drill)
        pool == IF drilled = <<>> THEN incomplete ELSE drilled
    IN  pool[(date % Len(pool)) + 1]

(***************************************************************************)
(* Certificates and the readiness ladder.                                  *)
(***************************************************************************)
NotTaken == [taken |-> FALSE, score |-> 0, passed |-> FALSE]
\* _certificate_earned, as analytics shows it.
CertificateEarned(level, exam) == level.total > 0 /\ level.done = level.total /\ exam.taken /\ exam.passed
\* certificate: what is still missing, none when it is issued.
Requirements(level, exam) ==
    {r \in {"lessons", "exam"} :
        \/ r = "lessons" /\ (level.total = 0 \/ level.done < level.total)
        \/ r = "exam" /\ (~exam.taken \/ ~exam.passed)}

Ladder == <<"novice", "intermediate", "advanced", "expert">>
\* get_readiness: five scores from 0 to 100.  e is the evidence: the built-in
\* lessons with their level, the ids completed and attempted, executed trades,
\* levels passed, missions completed, the types of moments still open.
Scores(e) ==
    [knowledge |-> Percent(Cardinality(e.completed \cap {l.id : l \in e.lessons}), Cardinality(e.lessons)),
     execution |-> Min({100, HalfEven(100 * e.trades, 50)}),
     risk |-> 100 - (IF "oversized_position" \in e.moments THEN 35 ELSE 0)
                  - (IF "unprotected_drawdown" \in e.moments THEN 35 ELSE 0),
     psychology |-> 100 - (IF "rapid_fire_entries" \in e.moments THEN 40 ELSE 0),
     consistency |-> Percent(Cardinality(e.completed), Cardinality(e.attempted))]
\* studied_or_tested_out: a level's lessons, or its exam instead.
Studied(e, level) ==
    LET lessons == {l.id : l \in {k \in e.lessons : k.level = level}}
    IN  (lessons # {} /\ lessons \subseteq e.completed) \/ level \in e.passed
\* _level_unlocks: each rung also asks for the rung below.
Unlocked(e) ==
    LET intermediate == Studied(e, "novice") /\ "novice" \in e.passed
        advanced == /\ intermediate
                    /\ Studied(e, "intermediate") /\ "intermediate" \in e.passed /\ e.trades >= 20
                    /\ Scores(e).risk >= 70 /\ "risk-discipline" \in e.missions
        expert == /\ advanced
                  /\ Studied(e, "advanced") /\ "advanced" \in e.passed /\ e.trades >= 50
                  /\ Scores(e).psychology >= 70 /\ "the-operator" \in e.missions
    IN  {"novice"} \cup {l \in {"intermediate", "advanced", "expert"} :
            \/ l = "intermediate" /\ intermediate
            \/ l = "advanced" /\ advanced
            \/ l = "expert" /\ expert}

(***************************************************************************)
(* What these functions owe each other.                                    *)
(***************************************************************************)
\* Streaks: no current streak beats the longest, the longest is the longest run
\* of active days there is, and working today adds one day to a streak that
\* today had not reached, and nothing to one it had (the streak survives a day
\* that is not over, and only that one).
StreaksSound(days, today) ==
    /\ CurrentStreak(days, today) <= LongestStreak(days)
    /\ LongestStreak(days) =
          Max({0} \cup {n \in 1..Cardinality(days) : \E d \in days : d..(d + n - 1) \subseteq days})
    /\ CurrentStreak(days \cup {today}, today) =
          CurrentStreak(days, today) + (IF today \in days THEN 0 ELSE 1)

\* XP: the level is the one whose threshold has been reached and, below the last
\* title, the next threshold has not.
LevelSound(xp) ==
    /\ 100 * XpLevel(xp) * XpLevel(xp) <= xp
    /\ XpLevel(xp) < Titles - 1 => xp < NextLevelXp(XpLevel(xp))

\* Grading a card: a verdict whose wait ends beyond the last date leaves the card
\* as it was; of those stored a better one never brings it back sooner, the ease
\* keeps its floor, and the stored interval is the wait.  A forgotten card is
\* always stored and due at once, also one no other verdict can date any more,
\* and from there it can be graded good again.
CardSound(card, now) ==
    LET g(verdict) == Graded(card, verdict, now)
        stored(verdict) == g(verdict) # card
    IN  /\ stored("again") /\ g("again").due = now
        /\ stored("good") => now < g("good").due
        /\ stored("easy") => stored("good") /\ g("good").due <= g("easy").due
        /\ \A v \in {"again", "good", "easy"} : stored(v) =>
              /\ g(v).ease >= MinEase /\ g(v).reps = card.reps + 1
              /\ 100 * g(v).interval - (g(v).due - now) \in -50..50
        /\ now + 10000 <= LastTime => Graded(g("again"), "good", now).due = now + 10000

\* The queue: no term twice, none of a lesson not completed, none not due; what
\* is left out is left out for want of room, and due cards go before new terms.
QueueSound(cards, lessons, done, now) ==
    LET definitions == Definitions(lessons, done)
        queue == ToSet(Queue(cards, definitions, now))
        known == {definitions[k].term : k \in DOMAIN definitions}
        due == {cards[i].term : i \in {j \in DOMAIN cards : cards[j].due <= now}} \cap known
        new == known \ {cards[i].term : i \in DOMAIN cards}
    IN  /\ Cardinality(queue) = Len(Queue(cards, definitions, now))
        /\ queue \subseteq due \cup new /\ Cardinality(queue) <= QueueSize
        /\ queue \cap new # {} => due \subseteq queue
        /\ due \subseteq queue \/ Cardinality(queue) = QueueSize
        /\ new \subseteq queue \/ Cardinality(queue) = QueueSize \/ Cardinality(queue \cap new) = NewCards

\* Drills: a run with a severe choice fails, and the choices best for the process
\* pass (content/missions/drills.json has no drill that cannot be passed).
DrillSound(drill, answers) ==
    LET best == [i \in DOMAIN drill.checkpoints |->
                    (CHOOSE o \in drill.checkpoints[i] : \A p \in drill.checkpoints[i] : p.process <= o.process).id]
        grade == DrillGrade(drill, answers)
    IN  /\ grade.severe => ~grade.passed
        /\ DrillGrade(drill, best).passed /\ DrillGrade(drill, best).process = 100
        /\ ScenarioGrade(drill, answers).percent = grade.process
        /\ grade.passed => ScenarioGrade(drill, answers).passed

\* The ladder: rungs are climbed in order, the advanced one never with a severe
\* risk moment open, an exam passed stands for its lessons, and more lessons,
\* trades, exams or missions never lock what was unlocked.
LadderIsClimbed(e, more) ==
    /\ \A i \in 1..3 : Ladder[i + 1] \in Unlocked(e) => Ladder[i] \in Unlocked(e)
    /\ "advanced" \in Unlocked(e) => e.moments \cap {"oversized_position", "unprotected_drawdown"} = {}
    /\ (e.lessons = more.lessons /\ e.completed \subseteq more.completed /\ e.trades <= more.trades
          /\ e.passed \subseteq more.passed /\ e.missions \subseteq more.missions /\ more.moments \subseteq e.moments) =>
             Unlocked(e) \subseteq Unlocked(more)
    /\ \A d \in DOMAIN Scores(e) : Scores(e)[d] \in 0..100

\* The featured mission is one to act on when there is one, and within a month the
\* next day features another while the pool has another.
FeaturedSound(incomplete, date) ==
    LET pick == Featured(incomplete, date)
        drilled == {i \in DOMAIN incomplete : incomplete[i].drill}
    IN  /\ drilled # {} => pick.drill
        /\ Len(incomplete) > 1 /\ Cardinality(drilled) # 1 => pick # Featured(incomplete, date + 1)

\* Certificates: the list of what is missing and the badge of analytics agree.
CertificatesAgree(level, exam) == CertificateEarned(level, exam) <=> Requirements(level, exam) = {}
=============================================================================

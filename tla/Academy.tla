-------------------------------- MODULE Academy --------------------------------
(***************************************************************************)
(* The learning tables (storage/state_store/learn.py) and the handlers     *)
(* over them: lessons, exams, drills, scenarios, review cards, missions    *)
(* (services/missions.py, learn_service.py; routes in api/routes/learn.py).*)
(*                                                                         *)
(* Handlers that are coroutines run one at a time on the event loop: one   *)
(* of them that makes several transactions keeps the loop until it ends.   *)
(* Listing the missions is a plain function: FastAPI runs it on a thread,  *)
(* so its transactions fall between those of everything else.  A listing   *)
(* also writes: it records the missions it finds completed.                *)
(*                                                                         *)
(* A lesson's attempts, the attempts and dates of exams, drills and        *)
(* scenarios and the schedule of a card are left to Mastery; here a card   *)
(* is its repetitions.                                                     *)
(***************************************************************************)
EXTENDS TradeReview

CONSTANTS
    Missions,     \* the catalog: [id, drill, criteria], drill in Subjects or NoDrill
    Lessons, Terms,
    Exercise,     \* lesson -> its exercise
    Answers,      \* what a learner may answer
    Subjects,     \* [kind -> what can be graded], kind in Kinds
    Grades,       \* [kind -> the grades a submission may get]
    TradeBook,    \* the executed trades to come, reviewed; the day is filled in
    Annotations,  \* <<has a note, has a known tag>>: what a journal entry may be saved as
    Listers,      \* threads that list missions
    MaxActive,    \* MAX_ACTIVE_MISSIONS
    MaxDay, MaxReps, MaxListings

NoDrill == "no drill"
Kinds == {"exam", "scenario", "drill"}
Ids == {Missions[i].id : i \in DOMAIN Missions}

ASSUME AcademyAssumption ==
    /\ MaxActive \in Nat /\ MaxDay \in Nat \ {0} /\ MaxReps \in Nat
    /\ Missions \in Seq({Missions[i] : i \in DOMAIN Missions}) /\ Missions # <<>>
    /\ \A i, j \in DOMAIN Missions : Missions[i].id = Missions[j].id => i = j
    /\ \A m \in {Missions[i] : i \in DOMAIN Missions} :
          /\ Len(m.criteria) \in Nat
          /\ \A i \in 1..Len(m.criteria) :
                m.criteria[i].type \in {"min_journaled", "min_tagged", "min_streak_days"}
                    => m.criteria[i].value \in Int
    /\ TradeBook \in Seq({TradeBook[i] : i \in DOMAIN TradeBook})
    /\ \A i \in DOMAIN TradeBook : "id" \in DOMAIN TradeBook[i]
    /\ \A i, j \in DOMAIN TradeBook : TradeBook[i].id = TradeBook[j].id => i = j
    /\ \A k \in Kinds : \A g \in Grades[k] : g.score \in Int /\ g.passed \in BOOLEAN

VARIABLES
    day,         \* today; active days are those with a row in learn_activity
    days,
    progress,    \* lesson -> "new", "attempted" or "done"
    results,     \* kind -> subject -> [best, passed], the subjects taken
    reps,        \* term -> repetitions of its card
    completed,   \* mission -> the day it was recorded completed
    active,      \* missions in the active slots
    items,       \* the reviewed trades, the latest submitted first
    journal,     \* [notes, tags]: trades annotated
    adopted,     \* whether a constitution is saved
    loop,        \* what the event loop's handler has left to do
    listing,     \* lister -> where its listing is and what it has read
    listings,    \* listings begun, a bound of the model
    met          \* <<mission, criterion>> that held at some moment (history)

tables == <<days, progress, results, reps, completed, active, items, journal, adopted>>
academy == <<tables, day, loop, listing, listings, met>>

Passed(kind) == {s \in DOMAIN results[kind] : results[kind][s].passed}
Done == {l \in Lessons : progress[l] = "done"}
RepsDone == FoldSet(LAMBDA t, n : n + reps[t], 0, Terms)

\* What a mission's criteria read, in the order _build_context reads it.
Fields == <<"items", "journal", "scenarios", "lessons", "exams", "days", "reps", "adopted", "drills">>
Table == [items |-> items, journal |-> journal, scenarios |-> Passed("scenario"), lessons |-> Done,
          exams |-> Passed("exam"), days |-> days, reps |-> RepsDone, adopted |-> adopted,
          drills |-> Passed("drill")]

\* Criterion i of a mission; 0 is the drill of its category, if it has one.
Holds(m, i, x) ==
    IF i = 0 THEN m.drill = NoDrill \/ m.drill \in x.drills ELSE Met(m.criteria[i], x, day)
\* Mutant of Accomplished: the decision drill is shown and not required.
WithoutDrill(m, x) == \A i \in 1..Len(m.criteria) : Holds(m, i, x)
Accomplished(m, x) == \A i \in 0..Len(m.criteria) : Holds(m, i, x)
Held ==
    UNION {{<<Missions[k].id, i>> : i \in {j \in 0..Len(Missions[k].criteria) : Holds(Missions[k], j, Table)}} :
           k \in DOMAIN Missions}

Idle == [at |-> "idle", x |-> <<>>, completed |-> {}, active |-> {}, mission |-> 1]
Free == <<"free">>
NewProgress == [l \in Lessons |-> "new"]
NewResults == [k \in Kinds |-> <<>>]

AcademyInit ==
    /\ day = 1 /\ days = {} /\ progress = NewProgress /\ results = NewResults
    /\ reps = [t \in Terms |-> 0] /\ completed = <<>> /\ active = {} /\ items = <<>>
    /\ journal = [notes |-> {}, tags |-> {}] /\ adopted = FALSE
    /\ loop = Free /\ listing = [r \in Listers |-> Idle] /\ listings = 0
    /\ met = Held

(***************************************************************************)
(* Handlers on the event loop.                                             *)
(***************************************************************************)
\* _record_activity, in the transaction of the record it is about.
Active == days' = days \cup {day}

\* check_answer: the attempt is recorded, then the completion of a right answer.
Answer(lesson, answer) ==
    /\ loop = Free
    /\ progress' = [progress EXCEPT ![lesson] = IF @ = "new" THEN "attempted" ELSE @]
    /\ loop' = IF AnswerIsRight(Exercise[lesson], answer) THEN <<"complete", lesson>> ELSE Free
    /\ UNCHANGED <<days, results, reps, completed, active, items, journal, adopted, day, listing, listings>>

\* mark_lesson_complete, of a right answer or of the mark-complete route.
MarkComplete(lesson) ==
    /\ loop \in {Free, <<"complete", lesson>>}
    /\ progress' = [progress EXCEPT ![lesson] = "done"]
    /\ loop' = Free /\ Active
    /\ UNCHANGED <<results, reps, completed, active, items, journal, adopted, day, listing, listings>>

\* A row written, or written again.
Entered(rows, key, row) == [k \in DOMAIN rows \cup {key} |-> IF k = key THEN row ELSE rows[k]]
\* Mutant of Recorded: a retake replaces the result.
Replaced(rows, subject, grade) == Entered(rows, subject, [best |-> grade.score, passed |-> grade.passed])
\* record_assessment, record_scenario_result, record_drill_result: the best
\* score and the best verdict stand.
Recorded(rows, subject, grade) ==
    LET old == IF subject \in DOMAIN rows THEN rows[subject] ELSE [best |-> 0, passed |-> FALSE]
    IN  Entered(rows, subject, [best |-> Max({old.best, grade.score}), passed |-> old.passed \/ grade.passed])
Submit(kind, subject, grade) ==
    /\ loop = Free
    /\ results' = [results EXCEPT ![kind] = Recorded(@, subject, grade)]
    /\ Active
    /\ UNCHANGED <<progress, reps, completed, active, items, journal, adopted, day, loop, listing, listings>>

\* LearnMasteryService.grade, then upsert_review_card; a grade whose due time is no
\* date (Graded in Mastery) changes nothing.
GradeCard(term) ==
    /\ loop = Free /\ reps[term] < MaxReps
    /\ reps' = [reps EXCEPT ![term] = @ + 1]
    /\ Active
    /\ UNCHANGED <<progress, results, completed, active, items, journal, adopted, day, loop, listing, listings>>

\* accept: the completed missions are read, then the active ones, then the slot
\* is taken.
Accept(id) ==
    /\ loop = Free /\ id \notin DOMAIN completed
    /\ loop' = <<"count", id>>
    /\ UNCHANGED <<tables, day, listing, listings>>
\* Mutant of HasRoom: one mission too many.
HasRoomLax(id) == id \notin active /\ Cardinality(active) <= MaxActive
HasRoom(id) == id \notin active /\ Cardinality(active) < MaxActive
CountSlots(id) ==
    /\ loop = <<"count", id>>
    /\ loop' = IF HasRoom(id) THEN <<"take", id>> ELSE Free
    /\ UNCHANGED <<tables, day, listing, listings>>
TakeSlot(id) ==
    /\ loop = <<"take", id>>
    /\ active' = active \cup {id}
    /\ loop' = Free /\ Active
    /\ UNCHANGED <<progress, results, reps, completed, items, journal, adopted, day, listing, listings>>
Abandon(id) ==
    /\ loop = Free /\ id \in active
    /\ active' = active \ {id}
    /\ UNCHANGED <<days, progress, results, reps, completed, items, journal, adopted, day, loop, listing, listings>>

\* upsert_journal_note: an empty note or no known tag takes the trade out again.
Annotate(trade, entry) ==
    /\ loop = Free
    /\ journal' = [notes |-> IF entry[1] THEN journal.notes \cup {trade} ELSE journal.notes \ {trade},
                   tags |-> IF entry[2] THEN journal.tags \cup {trade} ELSE journal.tags \ {trade}]
    /\ UNCHANGED <<days, progress, results, reps, completed, active, items, adopted, day, loop, listing, listings>>
\* save_constitution.
Adopt ==
    /\ loop = Free
    /\ adopted' = TRUE
    /\ UNCHANGED <<days, progress, results, reps, completed, active, items, journal, day, loop, listing, listings>>

\* clear_user_data: every table of the user, in one transaction.
ClearUserData ==
    /\ loop = Free
    /\ days' = {} /\ progress' = NewProgress /\ results' = NewResults
    /\ reps' = [t \in Terms |-> 0] /\ completed' = <<>> /\ active' = {} /\ items' = <<>>
    /\ journal' = [notes |-> {}, tags |-> {}] /\ adopted' = FALSE
    /\ UNCHANGED <<day, loop, listing, listings>>

(***************************************************************************)
(* Listing the missions, on a thread.                                      *)
(***************************************************************************)
Moves(r, to) == listing' = [listing EXCEPT ![r] = to]

BeginListing(r) ==
    /\ listing[r].at = "idle" /\ listings < MaxListings
    /\ Moves(r, [Idle EXCEPT !.at = "context"])
    /\ listings' = listings + 1
    /\ UNCHANGED <<tables, day, loop>>
\* _build_context reads one table after another.
ReadField(r) ==
    LET f == Fields[Cardinality(DOMAIN listing[r].x) + 1]
    IN  /\ listing[r].at = "context"
        /\ Moves(r, [listing[r] EXCEPT !.x = Entered(@, f, Table[f]),
                                       !.at = IF f = Last(Fields) THEN "completed" ELSE "context"])
        /\ UNCHANGED <<tables, day, loop, listings>>
\* get_completed_missions and get_active_missions, before the catalog is walked.
ReadCompleted(r) ==
    /\ listing[r].at = "completed"
    /\ Moves(r, [listing[r] EXCEPT !.completed = DOMAIN completed, !.at = "active"])
    /\ UNCHANGED <<tables, day, loop, listings>>
ReadActive(r) ==
    /\ listing[r].at = "active"
    /\ Moves(r, [listing[r] EXCEPT !.active = active, !.at = "judge"])
    /\ UNCHANGED <<tables, day, loop, listings>>

Current(r) == Missions[listing[r].mission]
\* The listing after a mission: its slot is given up, or the next is judged.
Onward(l) ==
    IF l.mission = Len(Missions) THEN Idle ELSE [l EXCEPT !.mission = @ + 1, !.at = "judge"]
AfterRecord(l, m) == IF m.id \in l.active THEN [l EXCEPT !.at = "slot"] ELSE Onward(l)
\* A mission that is not accomplished, or recorded already.
PassOver(r) ==
    LET l == listing[r]  m == Current(r)
    IN  /\ l.at = "judge"
        /\ ~Accomplished(m, l.x) \/ m.id \in l.completed
        /\ Moves(r, IF Accomplished(m, l.x) THEN AfterRecord(l, m) ELSE Onward(l))
        /\ UNCHANGED <<tables, day, loop, listings>>
\* record_mission_complete: the first recording stands, the day counts as active.
RecordMission(r) ==
    LET l == listing[r]  m == Current(r)
    IN  /\ l.at = "judge" /\ Accomplished(m, l.x) /\ m.id \notin l.completed
        /\ completed' = IF m.id \in DOMAIN completed THEN completed ELSE Entered(completed, m.id, day)
        /\ Active
        /\ Moves(r, [l EXCEPT !.at = "recorded"])
        /\ UNCHANGED <<progress, results, reps, active, items, journal, adopted, day, loop, listings>>
Reread(r) ==
    /\ listing[r].at = "recorded"
    /\ Moves(r, AfterRecord([listing[r] EXCEPT !.completed = DOMAIN completed], Current(r)))
    /\ UNCHANGED <<tables, day, loop, listings>>
\* clear_mission_active: a finished mission leaves the active slots.
ClearSlot(r) ==
    /\ listing[r].at = "slot"
    /\ active' = active \ {Current(r).id}
    /\ Moves(r, [listing[r] EXCEPT !.at = "cleared"])
    /\ UNCHANGED <<days, progress, results, reps, completed, items, journal, adopted, day, loop, listings>>
RereadActive(r) ==
    /\ listing[r].at = "cleared"
    /\ Moves(r, Onward([listing[r] EXCEPT !.active = active]))
    /\ UNCHANGED <<tables, day, loop, listings>>
List(r) ==
    \/ BeginListing(r) \/ ReadField(r) \/ ReadCompleted(r) \/ ReadActive(r) \/ PassOver(r)
    \/ RecordMission(r) \/ Reread(r) \/ ClearSlot(r) \/ RereadActive(r)

(***************************************************************************)
(* What goes on elsewhere: the venue executes a trade, midnight passes.    *)
(***************************************************************************)
\* The trade was submitted today or before, and trades submitted after it may have
\* executed.
Execute ==
    /\ Len(items) < Len(TradeBook)
    /\ \E at \in 1..(Len(items) + 1), submitted \in 1..day :
          /\ \A i \in DOMAIN items : IF i < at THEN items[i].day >= submitted ELSE items[i].day <= submitted
          /\ items' = InsertAt(items, at, [TradeBook[Len(items) + 1] EXCEPT !.day = submitted])
    /\ UNCHANGED <<days, progress, results, reps, completed, active, journal, adopted, day, loop, listing, listings>>
Midnight ==
    /\ day < MaxDay
    /\ day' = day + 1
    /\ UNCHANGED <<tables, loop, listing, listings>>

Study ==
    \/ \E l \in Lessons, a \in Answers : Answer(l, a)
    \/ \E l \in Lessons : MarkComplete(l)
    \/ \E t \in Terms : GradeCard(t)
    \/ \E k \in Kinds : \E s \in Subjects[k], g \in Grades[k] : Submit(k, s, g)
Practise ==
    \/ Execute \/ Adopt
    \/ \E i \in DOMAIN items, entry \in Annotations : Annotate(items[i].id, entry)
FillSlots == \E id \in Ids : Accept(id) \/ CountSlots(id) \/ TakeSlot(id) \/ Abandon(id)
ListMissions == \E r \in Listers : List(r)
\* What has held by the end of a step.
Remember == met' = met \cup Held'

AcademyNext ==
    /\ Study \/ Practise \/ FillSlots \/ ListMissions \/ ClearUserData \/ Midnight
    /\ Remember
AcademySpec == AcademyInit /\ [][AcademyNext]_academy

(***************************************************************************)
(* Properties.                                                             *)
(***************************************************************************)
\* The tables hold what their columns say, a day is active at the latest today,
\* and no more than MaxActive missions stand in the active slots, whatever
\* accepts, listings and clearings overlap (MissionService.accept).
AcademyTypeOK ==
    /\ day \in 1..MaxDay /\ days \subseteq 1..day
    /\ progress \in [Lessons -> {"new", "attempted", "done"}]
    /\ \A k \in Kinds : DOMAIN results[k] \subseteq Subjects[k]
    /\ reps \in [Terms -> 0..MaxReps]
    /\ DOMAIN completed \subseteq Ids /\ \A id \in DOMAIN completed : completed[id] \in 1..day
    /\ active \subseteq Ids /\ Cardinality(active) <= MaxActive

\* A mission recorded as completed was earned: each of its criteria, its drill
\* included, held in the tables at some moment, although a listing reads them
\* one after another and judges later (MissionService.list_missions).
MissionsEarned ==
    \A i \in DOMAIN Missions : Missions[i].id \in DOMAIN completed =>
        \A c \in 0..Len(Missions[i].criteria) : <<Missions[i].id, c>> \in met

\* What was achieved stands until the user clears it: lessons done, exams,
\* drills and scenarios passed and their best scores, repetitions, active days,
\* and the day a mission was completed, whatever is retaken or answered wrong
\* later and whichever listing records a mission again.
Stands ==
    /\ \A l \in Lessons : progress[l] = "done" => progress'[l] = "done"
    /\ \A k \in Kinds : \A s \in DOMAIN results[k] :
          /\ s \in DOMAIN results'[k] /\ results'[k][s].best >= results[k][s].best
          /\ results[k][s].passed => results'[k][s].passed
    /\ \A t \in Terms : reps'[t] >= reps[t]
    /\ days \subseteq days'
    /\ \A id \in DOMAIN completed : id \in DOMAIN completed' /\ completed'[id] = completed[id]
RecordsStand == [][ClearUserData \/ Stands]_academy
=============================================================================

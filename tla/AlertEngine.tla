----------------------------- MODULE AlertEngine ------------------------------
(***************************************************************************)
(* Alerts: the handlers of api/routes/alerts.py and the one-minute         *)
(* alert-evaluator job (ExecutionEngineService.run_alert_cycle), over the  *)
(* alerts and alert_history tables.                                        *)
(*                                                                         *)
(* The job lists the alerts once and works through the list it read; a     *)
(* delivery may take seconds, and handlers run meanwhile.  An exception    *)
(* anywhere ends the cycle: the scheduler turns it into a job_error event  *)
(* and the next cycle starts over.                                         *)
(*                                                                         *)
(* run_alert_cycle calls self._condition_triggered, self._alert_message    *)
(* and self._history_message.  In the source these three functions sit     *)
(* inside the module function parse_condition_text, after its return, and  *)
(* are no attributes of the service.  `bound` says whether the calls       *)
(* resolve: FALSE is the source as it stands, TRUE the same source with    *)
(* the three functions as methods of the class; Bindings selects.          *)
(***************************************************************************)
EXTENDS Integers, Sequences, FiniteSets, SequencesExt

CONSTANTS Symbols, Prices,
          Drafts,       \* what a client may send: [symbol, condition, channel]
          Bindings,     \* initial values of `bound`
          MaxAlerts,    \* bound on the rows of alerts
          MaxEdits,     \* bound on PUTs
          MaxFailures   \* bound on deliveries that raise and on restarts

NoPrice == 0
Unparsable == [mode |-> "none", threshold |-> 0]
Condition == [mode: {"crosses_above", "crosses_below", "above", "below"}, threshold: Nat]
                \cup {Unparsable}
Draft == [symbol: Symbols, condition: Condition, channel: {"desktop", "telegram", "email"}]

ASSUME AlertAssumption ==
    /\ Drafts \subseteq Draft /\ Prices \subseteq Nat \ {NoPrice} /\ Bindings \subseteq BOOLEAN
    /\ MaxAlerts \in Nat /\ MaxEdits \in Nat /\ MaxFailures \in Nat

VARIABLES bound,     \* the helper calls resolve; never changes
          alerts,    \* by id: the draft and its status
          history,   \* alert_history: the ids fired, in order
          market,    \* by symbol: the last two closes
          pc,        \* the job
          snapshot,  \* the closes the job read
          listed,    \* <<id, row>> pairs the job has still to visit
          edits, failures,
          armings,   \* history: how often each alert was armed
          sent       \* history: how often each alert was delivered

tables == <<alerts, history>>
job == <<pc, snapshot, listed>>
vars == <<bound, tables, market, job, edits, failures, armings, sent>>

Ids == DOMAIN alerts
NoMarket == [s \in Symbols |-> [price |-> NoPrice, previous |-> NoPrice]]

\* _condition_triggered.
Triggered(c, snap) ==
    CASE c.mode = "crosses_above" -> snap.previous <= c.threshold /\ c.threshold < snap.price
      [] c.mode = "crosses_below" -> snap.previous >= c.threshold /\ c.threshold > snap.price
      [] c.mode = "above" -> snap.price >= c.threshold
      [] c.mode = "below" -> snap.price <= c.threshold
      [] OTHER -> FALSE

\* The loop goes on to evaluate a row: armed when listed, with a snapshot and a
\* condition the grammar knows.
Evaluated(row, snap) ==
    /\ row.status = "armed"
    /\ snap[row.draft.symbol].price # NoPrice
    /\ row.draft.condition # Unparsable

Init ==
    /\ bound \in Bindings
    /\ alerts = <<>> /\ history = <<>> /\ market = NoMarket
    /\ pc = "idle" /\ snapshot = NoMarket /\ listed = <<>>
    /\ edits = 0 /\ failures = 0
    /\ armings = [i \in 1..MaxAlerts |-> 0] /\ sent = [i \in 1..MaxAlerts |-> 0]

-----------------------------------------------------------------------------
\* POST /api/alerts.
Create(d, status) ==
    /\ Len(alerts) < MaxAlerts
    /\ alerts' = Append(alerts, [draft |-> d, status |-> status])
    /\ armings' = IF status = "armed" THEN [armings EXCEPT ![Len(alerts) + 1] = 1] ELSE armings
    /\ UNCHANGED <<bound, history, market, job, edits, failures, sent>>

\* PUT /api/alerts/{id}: the whole row, status included.
Update(i, d, status) ==
    /\ edits < MaxEdits /\ edits' = edits + 1
    /\ alerts' = [alerts EXCEPT ![i] = [draft |-> d, status |-> status]]
    /\ armings' = IF status = "armed" THEN [armings EXCEPT ![i] = @ + 1] ELSE armings
    /\ UNCHANGED <<bound, history, market, job, failures, sent>>

-----------------------------------------------------------------------------
StartCycle ==
    /\ pc = "idle"
    /\ pc' = "list" /\ snapshot' = market
    /\ UNCHANGED <<bound, tables, market, listed, edits, failures, armings, sent>>

\* Mutant of List: only the newest alert.
ListNewest ==
    /\ pc = "list"
    /\ pc' = "visit"
    /\ listed' = IF alerts = <<>> THEN <<>>
                 ELSE <<[id |-> Len(alerts), row |-> alerts[Len(alerts)]]>>
    /\ UNCHANGED <<bound, tables, market, snapshot, edits, failures, armings, sent>>

\* list_alerts: newest first.
List ==
    /\ pc = "list"
    /\ pc' = "visit"
    /\ listed' = Reverse([i \in Ids |-> [id |-> i, row |-> alerts[i]]])
    /\ UNCHANGED <<bound, tables, market, snapshot, edits, failures, armings, sent>>

Ended == pc' = "idle" /\ snapshot' = NoMarket /\ listed' = <<>>
Current == Head(listed)
Visiting == pc = "visit" /\ listed # <<>>

Skip ==
    /\ Visiting
    /\ \/ ~Evaluated(Current.row, snapshot)
       \/ bound /\ ~Triggered(Current.row.draft.condition,
                                     snapshot[Current.row.draft.symbol])
    /\ listed' = Tail(listed)
    /\ UNCHANGED <<bound, tables, market, pc, snapshot, edits, failures, armings, sent>>

\* Mutant of Raise: the job does not come back from an exception.
RaiseDies ==
    /\ Visiting /\ Evaluated(Current.row, snapshot) /\ ~bound
    /\ pc' = "dead" /\ snapshot' = NoMarket /\ listed' = <<>>
    /\ UNCHANGED <<bound, tables, market, edits, failures, armings, sent>>

\* self._condition_triggered(...) with no such attribute: AttributeError.
Raise ==
    /\ Visiting /\ Evaluated(Current.row, snapshot) /\ ~bound
    /\ Ended
    /\ UNCHANGED <<bound, tables, market, edits, failures, armings, sent>>

\* deliver_alert, which returns a success or a described failure.
Deliver ==
    /\ Visiting /\ Evaluated(Current.row, snapshot) /\ bound
    /\ Triggered(Current.row.draft.condition, snapshot[Current.row.draft.symbol])
    /\ \/ sent' = [sent EXCEPT ![Current.id] = @ + 1]
       \/ Current.row.draft.channel # "desktop" /\ UNCHANGED sent
    /\ pc' = "record"
    /\ UNCHANGED <<bound, tables, market, snapshot, listed, edits, failures, armings>>

\* A delivery that raises (a read that times out), or the backend stopping, at
\* any point of a cycle; what was sent stays sent.
Fail ==
    /\ pc # "idle" /\ failures < MaxFailures
    /\ failures' = failures + 1
    /\ Ended
    /\ UNCHANGED <<bound, tables, market, edits, armings, sent>>

\* Mutants of RecordFire: a status the table does not know; the status left
\* alone.
RecordTriggered ==
    /\ pc = "record"
    /\ alerts' = [alerts EXCEPT ![Current.id].status = "triggered"]
    /\ history' = Append(history, Current.id)
    /\ pc' = "visit" /\ listed' = Tail(listed)
    /\ UNCHANGED <<bound, market, snapshot, edits, failures, armings, sent>>
RecordHistoryOnly ==
    /\ pc = "record"
    /\ history' = Append(history, Current.id)
    /\ pc' = "visit" /\ listed' = Tail(listed)
    /\ UNCHANGED <<bound, alerts, market, snapshot, edits, failures, armings, sent>>

\* record_alert_fire: status and history in one transaction, whatever the
\* status has become.
RecordFire ==
    /\ pc = "record"
    /\ alerts' = [alerts EXCEPT ![Current.id].status = "fired"]
    /\ history' = Append(history, Current.id)
    /\ pc' = "visit" /\ listed' = Tail(listed)
    /\ UNCHANGED <<bound, market, snapshot, edits, failures, armings, sent>>

EndCycle ==
    /\ pc = "visit" /\ listed = <<>>
    /\ Ended
    /\ UNCHANGED <<bound, tables, market, edits, failures, armings, sent>>

\* A new closed candle.
NewCandle(s, p) ==
    /\ market' = [market EXCEPT ![s] =
          [price |-> p, previous |-> IF @.price = NoPrice THEN p ELSE @.price]]
    /\ UNCHANGED <<bound, tables, job, edits, failures, armings, sent>>

Cycle == StartCycle \/ List \/ Skip \/ Raise \/ Deliver \/ RecordFire \/ EndCycle

Next ==
    \/ \E d \in Drafts, status \in {"armed", "paused", "fired"} :
          Create(d, status) \/ \E i \in Ids : Update(i, d, status)
    \/ Cycle
    \/ Fail
    \/ \E s \in Symbols, p \in Prices : NewCandle(s, p)

Spec == Init /\ [][Next]_vars

\* The scheduler starts the job every minute and a started cycle runs on.
FairSpec == Spec /\ WF_vars(Cycle)

-----------------------------------------------------------------------------
Row == [draft: Drafts, status: {"armed", "paused", "fired"}]
TypeOK ==
    /\ bound \in Bindings
    /\ alerts \in Seq(Row) /\ Len(alerts) <= MaxAlerts
    /\ history \in Seq(Ids)
    /\ pc \in {"idle", "list", "visit", "record"}
    /\ listed \in Seq([id: Ids, row: Row])
    /\ edits \in 0..MaxEdits /\ failures \in 0..MaxFailures
    /\ armings \in [1..MaxAlerts -> Nat] /\ sent \in [1..MaxAlerts -> Nat]

Fired(i) == Cardinality({k \in DOMAIN history : history[k] = i})

\* An alert is not recorded as fired, nor delivered, more often than it was
\* armed, whatever edits overlap the cycle; only a cycle cut short after a
\* delivery delivers once more.
OncePerArming ==
    \A i \in Ids : Fired(i) <= armings[i] /\ sent[i] <= armings[i] + failures

\* With the helpers in reach an armed alert whose level holds at the latest
\* close does not stay so forever: it fires, through failed cycles and edits,
\* or its condition or the market moves on.
Met(i) ==
    /\ i \in Ids /\ Evaluated(alerts[i], market)
    /\ Triggered(alerts[i].draft.condition, market[alerts[i].draft.symbol])
BoundAlertsFire == \A i \in 1..MaxAlerts : (bound /\ Met(i)) ~> ~Met(i)

\* "armed: actively evaluated every minute", "fired: the condition was met":
\* the same, of the source as it stands.
ArmedAlertsFire == \A i \in 1..MaxAlerts : Met(i) ~> ~Met(i)

\* A cycle that raises does not take the job with it: the alert-evaluator is
\* back between two cycles again and again.
CyclesEnd == []<>(pc = "idle")
=============================================================================

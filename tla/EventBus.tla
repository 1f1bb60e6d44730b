-------------------------------- MODULE EventBus --------------------------------
(***************************************************************************)
(* BackendEventBus (services/event_bus.py) and the websocket that drains   *)
(* it (api/routes/events.py).  Jobs publish from their own threads and     *)
(* handlers from the event loop, with no lock.  asyncio.Queue is not made  *)
(* for threads: full, get_nowait and put_nowait each look at the deque and *)
(* then change it, and steps of others fall between the look and the       *)
(* change.  A socket's queue is drained on the event loop, in two steps as *)
(* well.                                                                   *)
(***************************************************************************)
EXTENDS Integers, Sequences, FiniteSets, SequencesExt

CONSTANTS
    Publishers,   \* threads that publish
    Sockets,      \* websocket connections
    QueueMax,     \* maxsize of a queue (128)
    MaxEvents     \* publisher -> how many events it publishes, a bound of the model

ASSUME BusAssumption == QueueMax \in Nat \ {0} /\ IsFiniteSet(Publishers)

VARIABLES
    subscribed,   \* _subscribers
    queue,        \* socket -> events waiting, each <<publisher, number>>
    taking,       \* sockets whose get has found an event and not taken it yet
    sent,         \* socket -> events sent over it
    pub,          \* publisher -> [at, left, now, crossed]: the sockets left of its copy of the set, the
                  \* queue it is at, and whether it has to share the room there (history)
    count,        \* publisher -> events published
    skipped       \* <<socket, event, cause>>: not put; "crowded", "drained" or "alone" (history)
bus == <<subscribed, queue, taking, sent, pub, count, skipped>>

Resting == [at |-> "rest", left |-> {}, now |-> "none", crossed |-> FALSE]
BusInit ==
    /\ subscribed = {} /\ taking = {} /\ queue = [s \in Sockets |-> <<>>] /\ sent = [s \in Sockets |-> <<>>]
    /\ pub = [p \in Publishers |-> Resting] /\ count = [p \in Publishers |-> 0] /\ skipped = {}

\* subscribe, at the connection of a socket that was not connected before.
Subscribe(s) ==
    /\ s \notin subscribed /\ queue[s] = <<>> /\ sent[s] = <<>>
    /\ subscribed' = subscribed \cup {s}
    /\ UNCHANGED <<queue, taking, sent, pub, count, skipped>>
\* unsubscribe, when the socket is gone: a publisher may still hold its queue.
Unsubscribe(s) ==
    /\ s \in subscribed /\ s \notin taking
    /\ subscribed' = subscribed \ {s}
    /\ UNCHANGED <<queue, taking, sent, pub, count, skipped>>
\* The loop of events_socket: get finds the queue not empty, then one event is
\* taken and sent.
Find(s) ==
    /\ s \in subscribed /\ s \notin taking /\ queue[s] # <<>>
    /\ taking' = taking \cup {s}
    /\ UNCHANGED <<subscribed, queue, sent, pub, count, skipped>>
Send(s) ==
    /\ s \in taking /\ queue[s] # <<>>
    /\ sent' = [sent EXCEPT ![s] = Append(@, Head(queue[s]))]
    /\ queue' = [queue EXCEPT ![s] = Tail(@)]
    /\ taking' = taking \ {s}
    /\ UNCHANGED <<subscribed, pub, count, skipped>>
\* A publisher took the last one in between: the get raises, and the socket closes.
SendFails(s) ==
    /\ s \in taking /\ queue[s] = <<>>
    /\ taking' = taking \ {s} /\ subscribed' = subscribed \ {s}
    /\ UNCHANGED <<queue, sent, pub, count, skipped>>

\* publish: the set is copied, then each queue is tested, emptied by one if full,
\* and filled.
Publish(p) ==
    /\ pub[p].at = "rest" /\ count[p] < MaxEvents[p]
    /\ count' = [count EXCEPT ![p] = @ + 1]
    /\ pub' = [pub EXCEPT ![p] = IF subscribed = {} THEN Resting ELSE [@ EXCEPT !.at = "test", !.left = subscribed]]
    /\ UNCHANGED <<subscribed, queue, taking, sent, skipped>>
\* Mutant of IsFull: full only beyond its size.
IsOverfull(q) == Len(q) > QueueMax
IsFull(q) == Len(q) >= QueueMax
Goes(p, at) == pub' = [pub EXCEPT ![p].at = at]
TestQueue(p, s) ==
    /\ pub[p].at = "test" /\ s \in pub[p].left
    /\ pub' = [pub EXCEPT ![p] = [@ EXCEPT !.at = IF IsFull(queue[s]) THEN "drop" ELSE "put", !.now = s,
                                           !.crossed = Len(queue[s]) > QueueMax]]
    /\ UNCHANGED <<subscribed, queue, taking, sent, count, skipped>>
\* get_nowait: an empty queue is no error.
Drop(p) ==
    /\ pub[p].at = "drop"
    /\ Goes(p, IF queue[pub[p].now] = <<>> THEN "put" ELSE "pop")
    /\ UNCHANGED <<subscribed, queue, taking, sent, count, skipped>>
\* Its popleft.
Pop(p) ==
    LET s == pub[p].now
    IN  /\ pub[p].at = "pop" /\ queue[s] # <<>>
        /\ queue' = [queue EXCEPT ![s] = Tail(@)]
        /\ Goes(p, "put")
        /\ UNCHANGED <<subscribed, taking, sent, count, skipped>>
\* The queue was drained in between: an IndexError, which publish does not take for
\* QueueEmpty; the event is lost to the sockets it had not reached.
PopFails(p) ==
    /\ pub[p].at = "pop" /\ queue[pub[p].now] = <<>>
    /\ pub' = [pub EXCEPT ![p] = Resting]
    /\ skipped' = skipped \cup {<<s, <<p, count[p]>>, "drained">> : s \in pub[p].left}
    /\ UNCHANGED <<subscribed, queue, taking, sent, count>>
\* What is left of a publish when it is done with a queue.
NextSocket(p) ==
    LET left == pub[p].left \ {pub[p].now}
    IN  IF left = {} THEN Resting ELSE [Resting EXCEPT !.at = "test", !.left = left]
\* put_nowait: a queue that is full, or still full, drops the event.
Put(p) ==
    LET s == pub[p].now
    IN  /\ pub[p].at = "put"
        /\ IF Len(queue[s]) >= QueueMax
           THEN /\ skipped' = skipped \cup {<<s, <<p, count[p]>>, IF pub[p].crossed THEN "crowded" ELSE "alone">>}
                /\ pub' = [pub EXCEPT ![p] = NextSocket(p)]
           ELSE Goes(p, "append") /\ UNCHANGED skipped
        /\ UNCHANGED <<subscribed, queue, taking, sent, count>>
\* Its append, which asks nothing again.
Fill(p) ==
    LET s == pub[p].now
    IN  /\ pub[p].at = "append"
        /\ queue' = [queue EXCEPT ![s] = Append(@, <<p, count[p]>>)]
        /\ pub' = [q \in Publishers |->
                      IF q = p THEN NextSocket(p)
                      ELSE IF pub[q].now = s /\ pub[q].at \in {"drop", "pop", "put"} THEN [pub[q] EXCEPT !.crossed = TRUE]
                      ELSE pub[q]]
        /\ UNCHANGED <<subscribed, taking, sent, count, skipped>>

BusNext ==
    \/ \E s \in Sockets : Subscribe(s) \/ Unsubscribe(s) \/ Find(s) \/ Send(s) \/ SendFails(s)
    \/ \E p \in Publishers : \/ Publish(p) \/ Drop(p) \/ Pop(p) \/ PopFails(p) \/ Put(p) \/ Fill(p)
                             \/ \E s \in Sockets : TestQueue(p, s)
BusSpec == BusInit /\ [][BusNext]_bus

(***************************************************************************)
(* Properties.                                                             *)
(***************************************************************************)
\* What a socket sends and has waiting is, publisher by publisher, in the order
\* published and never twice.  No queue outgrows its size by more than the
\* publishers that can have found the same room: one less than there are.  A slow
\* reader costs the oldest events: the newest is given up at a full queue only
\* where another publisher put between this one's test and its put, or had left
\* the queue above its size before.
EventsInOrder ==
    /\ \A s \in Sockets :
          /\ Len(queue[s]) <= QueueMax + Cardinality(Publishers) - 1
          /\ LET all == sent[s] \o queue[s]
             IN  \A i, j \in DOMAIN all : (i < j /\ all[i][1] = all[j][1]) => all[i][2] < all[j][2]
    /\ \A x \in skipped : x[3] # "alone"
=============================================================================

------------------------------ MODULE EventBatch ------------------------------
(***************************************************************************)
(* The event server (event-server/eventserver.go): the goroutines of the   *)
(* HTTP requests, the unbuffered channel on which they hand events to      *)
(* BatchWorker, the worker's batch and timer, and the statistics all of    *)
(* them update without a lock.                                             *)
(*                                                                         *)
(* An increment of a counter that several goroutines share is a load and a *)
(* store.  What only the worker writes is written in one step, but not in  *)
(* the step that receives the event: that one lets the handler go on.      *)
(***************************************************************************)
EXTENDS Integers, Sequences, FiniteSets

INSTANCE FiniteSetsExt

CONSTANTS
    Handler,   \* goroutines that serve requests, each one at a time
    Event,     \* events, one for each id and subject
    Subject,   \* their subjects
    SubjectOf,
    NoEvent,   \* the event of a request without a subject
    Interval,  \* notifyContext.Interval, in ticks of the clock
    Width      \* counters wrap at this number (2^64 for a Go int)

ASSUME SubjectAssumption == SubjectOf \in [Event -> Subject]
ASSUME NoEventAssumption == NoEvent \notin Event
ASSUME FiniteAssumption == IsFiniteSet(Handler) /\ IsFiniteSet(Subject)
ASSUME NumberAssumption == Interval \in Nat \ {0} /\ Width \in Nat \ {0}

VARIABLES
    up,        \* the process runs
    natsCon,   \* nats.Connect succeeded
    pc,        \* where each handler stands
    event,     \* the event of its request, until the worker has it
    loaded,    \* the counter it has loaded and not yet stored
    sendq,     \* handlers blocked on eventChannel, in order
    newEvent,  \* the event the worker has received and not yet looked at
    marked,    \* events marked in be.EventMarker
    Events,    \* be.Events
    waited,    \* ticks since the worker entered the select
    Stat,      \* notifyContext.Stat, without Subject
    perSubject,\* Stat.Subject
    message,   \* the last message NATS took
    raced      \* history: two handlers were at one counter at a time

requestVars == <<pc, event, loaded, sendq>>
batchVars   == <<marked, Events, waited>>
statVars    == <<Stat, perSubject>>
vars == <<up, natsCon, pc, event, loaded, sendq, newEvent, marked, Events,
          waited, Stat, perSubject, message, raced>>

Counter == {"TotalReq", "TotalBadReq", "TotalEvent", "TotalPublishEvent",
            "TotalBatch"}

\* A handler between the load and the store of a counter.
Storing == [TotalReq |-> "storeReq", TotalBadReq |-> "storeBad"]

\* Go's addition.
Add(n, k) == (n + k) % Width

-----------------------------------------------------------------------------
(* PostErrorHandlerV1.                                                     *)

\* A request is read and decoded.  One without a subject is a bad request;
\* an event is offered on the channel.
Post(h, e) ==
    /\ up
    /\ pc[h] = "idle"
    /\ event' = [event EXCEPT ![h] = e]
    /\ IF e = NoEvent
       THEN pc' = [pc EXCEPT ![h] = "loadBad"] /\ sendq' = sendq
       ELSE pc' = [pc EXCEPT ![h] = "send"] /\ sendq' = Append(sendq, h)
    /\ UNCHANGED <<up, natsCon, loaded, newEvent, batchVars, statVars, message,
                   raced>>

\* The first half of n.Stat.TotalReq++ or n.Stat.TotalBadReq++.
Load(h, counter, here) ==
    /\ pc[h] = here
    /\ loaded' = [loaded EXCEPT ![h] = Stat[counter]]
    /\ pc' = [pc EXCEPT ![h] = Storing[counter]]
    /\ raced' = (raced \/ \E g \in Handler : pc[g] = Storing[counter])
    /\ UNCHANGED <<up, natsCon, event, sendq, newEvent, batchVars, statVars,
                   message>>

\* The second half.
Store(h, counter, next) ==
    /\ pc[h] = Storing[counter]
    /\ Stat' = [Stat EXCEPT ![counter] = Add(loaded[h], 1)]
    /\ loaded' = [loaded EXCEPT ![h] = 0]
    /\ pc' = [pc EXCEPT ![h] = next]
    /\ UNCHANGED <<up, natsCon, event, sendq, newEvent, batchVars, perSubject, message,
                   raced>>

\* Faulty: a bad request is answered at once.
CountBad_Returns(h) ==
    \/ Load(h, "TotalBadReq", "loadBad")
    \/ Store(h, "TotalBadReq", "idle")

CountBad(h) ==
    \/ Load(h, "TotalBadReq", "loadBad")
    \/ Store(h, "TotalBadReq", "loadReq")

CountRequest(h) ==
    \/ Load(h, "TotalReq", "loadReq")
    \/ Store(h, "TotalReq", "idle")

-----------------------------------------------------------------------------
(* BatchWorker.                                                            *)

\* The worker stands in its select: no event is in its hands.
Selecting == up /\ newEvent = NoEvent

\* The worker takes the event of the first blocked handler, which goes on.  The
\* timer of this select is of no use any more.
Take ==
    /\ sendq # <<>>
    /\ sendq' = Tail(sendq)
    /\ pc' = [pc EXCEPT ![Head(sendq)] = "loadReq"]
    /\ newEvent' = event[Head(sendq)]
    /\ event' = [event EXCEPT ![Head(sendq)] = NoEvent]
    /\ waited' = 0
    /\ UNCHANGED <<up, natsCon, loaded, marked, Events, statVars, message, raced>>

\* Faulty: the worker ends when nats.Connect fails.
Receive_WithNats == natsCon /\ Selecting /\ Take

\* case newEvent = <-c.
Receive == Selecting /\ Take

\* An event that is not in the batch joins it.
AddEvent(e) ==
    /\ marked' = marked \cup {e}
    /\ Events' = Append(Events, e)
    /\ perSubject' = [perSubject EXCEPT ![SubjectOf[e]] = Add(@, 1)]

\* The worker counts the event and, done with it, enters the select again.
Counts ==
    /\ up /\ newEvent # NoEvent
    /\ Stat' = [Stat EXCEPT !.TotalEvent = Add(@, 1)]
    /\ newEvent' = NoEvent
    /\ UNCHANGED <<up, natsCon, requestVars, waited, message, raced>>

\* Faulty: the Subject count of a duplicate is raised too.
Account_CountsDuplicates ==
    /\ Counts
    /\ IF newEvent \in marked
       THEN /\ UNCHANGED <<marked, Events>>
            /\ perSubject' = [perSubject EXCEPT ![SubjectOf[newEvent]] = Add(@, 1)]
       ELSE AddEvent(newEvent)

\* What follows the receive: an event that is marked is dropped.
Account ==
    /\ Counts
    /\ IF newEvent \in marked THEN UNCHANGED <<marked, Events, perSubject>>
                              ELSE AddEvent(newEvent)

\* Faulty: EventMarker is kept.
Publish_KeepsMarks ==
    /\ Selecting
    /\ waited = Interval
    /\ Events # <<>>
    /\ message' = IF natsCon THEN Events ELSE message
    /\ Stat' = [Stat EXCEPT !.TotalPublishEvent = Add(@, Len(Events)),
                            !.TotalBatch = Add(@, 1)]
    /\ Events' = <<>>
    /\ waited' = 0
    /\ UNCHANGED <<up, natsCon, requestVars, newEvent, marked, perSubject, raced>>

\* Faulty: a batch nobody takes is kept for the next interval.
Publish_OnlyConnected ==
    /\ Selecting /\ natsCon
    /\ waited = Interval
    /\ Events # <<>>
    /\ message' = Events
    /\ Stat' = [Stat EXCEPT !.TotalPublishEvent = Add(@, Len(Events)),
                            !.TotalBatch = Add(@, 1)]
    /\ Events' = <<>>
    /\ marked' = {}
    /\ waited' = 0
    /\ UNCHANGED <<up, natsCon, requestVars, newEvent, perSubject, raced>>

\* case <-time.After(...), with events: without a connection PublishMsg
\* returns an error, which is ignored.  (json.Marshal has no error for events,
\* which are numbers, strings and a time.)
Publish ==
    /\ Selecting
    /\ waited = Interval
    /\ Events # <<>>
    /\ message' = IF natsCon THEN Events ELSE message
    /\ Stat' = [Stat EXCEPT !.TotalPublishEvent = Add(@, Len(Events)),
                            !.TotalBatch = Add(@, 1)]
    /\ Events' = <<>>
    /\ marked' = {}
    /\ waited' = 0
    /\ UNCHANGED <<up, natsCon, requestVars, newEvent, perSubject, raced>>

\* case <-time.After(...), without events.
NothingToPublish ==
    /\ Selecting
    /\ waited = Interval
    /\ Events = <<>>
    /\ waited' = 0
    /\ UNCHANGED <<up, natsCon, requestVars, newEvent, marked, Events,
                   statVars, message, raced>>

\* The timer that time.After made when the select was entered.
Tick ==
    /\ Selecting
    /\ waited < Interval
    /\ waited' = waited + 1
    /\ UNCHANGED <<up, natsCon, requestVars, newEvent, marked, Events,
                   statVars, message, raced>>

-----------------------------------------------------------------------------
(* main.                                                                   *)

\* What a process that has just been started, or has just ended, holds.
Blank ==
    /\ pc = [h \in Handler |-> "idle"]
    /\ event = [h \in Handler |-> NoEvent]
    /\ loaded = [h \in Handler |-> 0]
    /\ sendq = <<>>
    /\ newEvent = NoEvent
    /\ marked = {}
    /\ Events = <<>>
    /\ waited = 0
    /\ Stat = [c \in Counter |-> 0]
    /\ perSubject = [s \in Subject |-> 0]

\* A signal, log.Fatal of a handler that cannot decode a body, or the Go
\* runtime, which ends a process that walks a map (GetNotifyContextV1 encodes
\* Stat.Subject) while another goroutine writes it: the process is gone, with
\* the batch and the statistics.
Exit ==
    /\ up
    /\ up' = FALSE
    /\ pc' = [h \in Handler |-> "idle"]
    /\ event' = [h \in Handler |-> NoEvent]
    /\ loaded' = [h \in Handler |-> 0]
    /\ sendq' = <<>>
    /\ newEvent' = NoEvent
    /\ marked' = {}
    /\ Events' = <<>>
    /\ waited' = 0
    /\ Stat' = [c \in Counter |-> 0]
    /\ perSubject' = [s \in Subject |-> 0]
    /\ raced' = FALSE
    /\ UNCHANGED <<natsCon, message>>

\* The server is started; an error of nats.Connect is ignored.
Start ==
    /\ ~up
    /\ up' = TRUE
    /\ natsCon' \in BOOLEAN
    /\ UNCHANGED <<requestVars, newEvent, batchVars, statVars, message, raced>>

Init ==
    /\ Blank
    /\ up = FALSE
    /\ natsCon \in BOOLEAN
    /\ message = <<>>
    /\ raced = FALSE

Serve(h) ==
    \/ \E e \in Event \cup {NoEvent} : Post(h, e)
    \/ CountBad(h) \/ CountRequest(h)

BatchWorker == Receive \/ Account \/ Publish \/ NothingToPublish

Next ==
    \/ \E h \in Handler : Serve(h)
    \/ BatchWorker \/ Tick
    \/ Exit \/ Start

Spec == Init /\ [][Next]_vars

\* Goroutines that can run do, and time passes.  A select takes an event that
\* is offered when it is entered, for its timer has only just been made; so
\* neither case waits for ever because of the other.  Requests need not come,
\* and nothing makes the process end or start.
FairSpec ==
    /\ Spec
    /\ \A h \in Handler : WF_vars(CountBad(h) \/ CountRequest(h))
    /\ WF_vars(Receive) /\ WF_vars(Account)
    /\ WF_vars(Publish \/ NothingToPublish)
    /\ WF_vars(Tick)

-----------------------------------------------------------------------------
(* Properties.                                                             *)

TypeOK ==
    /\ up \in BOOLEAN /\ natsCon \in BOOLEAN /\ raced \in BOOLEAN
    /\ pc \in [Handler -> {"idle", "send", "loadReq", "storeReq", "loadBad",
                           "storeBad"}]
    /\ event \in [Handler -> Event \cup {NoEvent}]
    /\ loaded \in [Handler -> 0..(Width - 1)]
    /\ sendq \in Seq(Handler) /\ newEvent \in Event \cup {NoEvent}
    /\ marked \subseteq Event
    /\ Events \in Seq(Event) /\ message \in Seq(Event)
    /\ waited \in 0..Interval
    /\ Stat \in [Counter -> 0..(Width - 1)]
    /\ perSubject \in [Subject -> 0..(Width - 1)]

\* All that was counted under a subject.
Counted == MapThenSumSet(LAMBDA s : perSubject[s], Subject) % Width

\* Whatever arrives between two publications, the statistics agree: what was
\* counted under a subject has been published or is in the batch, duplicates
\* in neither.  (And the variables have their types.)
SubjectsAccounted ==
    /\ TypeOK
    /\ Add(Stat.TotalPublishEvent, Len(Events)) = Counted

\* The event the worker has received and not counted.
Uncounted == IF newEvent = NoEvent THEN 0 ELSE 1

\* When nobody is served, every request was counted as a bad one or as an
\* event, but for at most the one event BatchWorker has received and not
\* counted (its handler may have returned before); unless two handlers once
\* incremented one counter at a time.
RequestsAccounted ==
    (~raced /\ \A h \in Handler : pc[h] = "idle") =>
        Stat.TotalReq = Add(Add(Stat.TotalBadReq, Stat.TotalEvent), Uncounted)

\* The worker's EventMarker, batch and messages implement Digest.
Abstract == INSTANCE Digest WITH linked <- natsCon, pending <- marked
DigestSpec == Abstract!Spec

\* A batch does not outlive the traffic: once no request comes, it is
\* published.
QuietBatchPublished ==
    (<>[](\A h \in Handler : pc[h] = "idle")) => <>[](Events = <<>>)

\* A handler never stays blocked on the channel, however many others are
\* served and whether or not NATS can be reached.
PostsReturn == \A h \in Handler : []<>(pc[h] # "send")

\* BatchWorker: it fires a Nats publisher every 5 seconds.  An event in the
\* batch is published (or lost with the process).
BatchPublished == (Events # <<>>) ~> (Events = <<>>)

=============================================================================

------------------------------ MODULE JobEvents ------------------------------
(***************************************************************************)
(* The event streams of web jobs (jobs/subscription.rs, events_http.rs): a *)
(* bounded replay window kept with each job, a bounded broadcast channel,  *)
(* and the streams that clients open with an optional Last-Event-ID.       *)
(*                                                                         *)
(* An event is its sequence number; what it says of the job is left out,   *)
(* except that the last event of a finished job is terminal.               *)
(***************************************************************************)
EXTENDS Integers, Sequences, FiniteSets

CONSTANTS
    Clients,            \* connections a browser may open
    Jobs,               \* jobs that were admitted
    Owners,             \* session bindings
    JobOf,              \* the job a client asks for
    JobOwner,           \* StoredJob.owner; only its session may subscribe
    ReplayEvents,       \* limits.sse_replay_events
    ChannelCapacity,    \* capacity of the tokio broadcast channel
    PerSession,         \* limits.sse_subscribers_per_session
    PerProcess,         \* limits.sse_subscribers_per_process
    MaxEvents,          \* bound: events a job publishes
    None, Heartbeat, Exhausted

\* tokio rounds the requested capacity up to a power of two.
ASSUME EventsAssumption ==
    /\ JobOf \in [Clients -> Jobs] /\ JobOwner \in [Jobs -> Owners]
    /\ ReplayEvents \in Nat \ {0}
    /\ ChannelCapacity \in Nat /\ ChannelCapacity >= ReplayEvents
    /\ PerSession \in Nat /\ PerProcess \in Nat /\ MaxEvents \in Nat \ {0}
    /\ IsFiniteSet(Clients)
    /\ {None, Heartbeat, Exhausted} \cap Int = {}
    /\ None \notin {Heartbeat, Exhausted}

VARIABLES
    events,         \* events[j]: StoredJob.events, the replay window
    sequence,       \* sequence[j]: StoredJob.next_event_sequence
    status,         \* status[j]: "active", "terminal", or "evicted"
    live,           \* sessions that still authenticate
    stream,         \* stream[c]: the open EventStream of c, or None
    subscribers,    \* JobsState.subscribers
    byOwner         \* JobsState.subscribers_by_owner (0: no entry)

vars == <<events, sequence, status, live, stream, subscribers, byOwner>>

Cursors == 0 .. (MaxEvents + 1)

OwnerOf(c) == JobOwner[JobOf[c]]

\* held: the delivery next() returned and that is not yielded yet.
\* at: the last event number the client has (its cursor, then what it reads).
Stream == [replay: Seq(1..MaxEvents), position: 1..(MaxEvents + 1),
           closeAfterReplay: BOOLEAN, closed: BOOLEAN,
           held: (1..MaxEvents) \cup {None, Heartbeat, Exhausted},
           at: Cursors \cup {None}]

ASSUME NoneAssumption == None \notin Stream

TypeOK ==
    /\ events \in [Jobs -> Seq(1..MaxEvents)]
    /\ sequence \in [Jobs -> 1..MaxEvents]
    /\ status \in [Jobs -> {"active", "terminal", "evicted"}]
    /\ live \subseteq Owners
    /\ stream \in [Clients -> Stream \cup {None}]
    /\ subscribers \in Nat
    /\ byOwner \in [Owners -> Nat]

\* Admission pushes the first event before anyone can subscribe.
Init ==
    /\ events = [j \in Jobs |-> <<1>>]
    /\ sequence = [j \in Jobs |-> 1]
    /\ status = [j \in Jobs |-> "active"]
    /\ live = Owners
    /\ stream = [c \in Clients |-> None]
    /\ subscribers = 0
    /\ byOwner = [o \in Owners |-> 0]

Open == {c \in Clients : stream[c] # None}

Terminal(j, n) == status[j] # "active" /\ n = sequence[j]

-----------------------------------------------------------------------------
(* The job's side *)

\* push_event: the window drops its oldest event at the limit; receivers see
\* the event through the channel (their position is compared with sequence).
PushEvent(j, next) ==
    LET window == IF Len(events[j]) = ReplayEvents THEN Tail(events[j]) ELSE events[j] IN
    /\ status[j] = "active"
    /\ sequence[j] < MaxEvents
    /\ sequence' = [sequence EXCEPT ![j] = @ + 1]
    /\ events' = [events EXCEPT ![j] = Append(window, sequence[j] + 1)]
    /\ status' = [status EXCEPT ![j] = next]
    /\ UNCHANGED <<live, stream, subscribers, byOwner>>

\* evict_terminal removes the job and with it the sender of the channel.
Evict(j) ==
    /\ status[j] = "terminal"
    /\ status' = [status EXCEPT ![j] = "evicted"]
    /\ UNCHANGED <<events, sequence, live, stream, subscribers, byOwner>>

\* Logout or expiry of a session.
Revoke(o) ==
    /\ o \in live
    /\ live' = live \ {o}
    /\ UNCHANGED <<events, sequence, status, stream, subscribers, byOwner>>

-----------------------------------------------------------------------------
(* Opening a stream *)

\* Mutant: the window's lower end is off by one.
CursorNearWindow(j, after) ==
    after # None => /\ after <= events[j][Len(events[j])]
                    /\ after + 2 >= events[j][1]

\* select_replay: a cursor past the newest event is invalid, one that lies
\* before the window is exhausted; both refuse the stream.
CursorAccepted(j, after) ==
    after # None => /\ after <= events[j][Len(events[j])]
                    /\ after + 1 >= events[j][1]

\* The rest of select_replay: the events past the cursor, a suffix since the
\* numbers of the window ascend.
SelectReplay(j, after) ==
    LET seen == {k \in DOMAIN events[j] : events[j][k] <= after} IN
    IF after = None THEN events[j]
    ELSE SubSeq(events[j], Cardinality(seen) + 1, Len(events[j]))

\* subscribe runs under the lock of the job state: window, receiver, limits
\* and counters are one step.
Subscribe(c, after) ==
    LET j == JobOf[c]
        o == OwnerOf(c)
    IN
    /\ stream[c] = None
    /\ o \in live
    /\ status[j] # "evicted"
    /\ CursorAccepted(j, after)
    /\ byOwner[o] < PerSession
    /\ subscribers < PerProcess
    /\ subscribers' = subscribers + 1
    /\ byOwner' = [byOwner EXCEPT ![o] = @ + 1]
    /\ stream' = [stream EXCEPT ![c] =
            [replay |-> SelectReplay(j, after), position |-> sequence[j] + 1,
             closeAfterReplay |-> status[j] = "terminal", closed |-> FALSE,
             held |-> None, at |-> after]]
    /\ UNCHANGED <<events, sequence, status, live>>

-----------------------------------------------------------------------------
(* Running a stream *)

\* Mutant: the count of the session keeps the lease.
DropProcessOnly(c) ==
    /\ stream' = [stream EXCEPT ![c] = None]
    /\ subscribers' = IF subscribers = 0 THEN 0 ELSE subscribers - 1
    /\ UNCHANGED byOwner

\* Dropping the stream drops its SubscriberLease.
Drop(c) ==
    LET o == OwnerOf(c) IN
    /\ stream' = [stream EXCEPT ![c] = None]
    /\ subscribers' = IF subscribers = 0 THEN 0 ELSE subscribers - 1
    /\ byOwner' = [byOwner EXCEPT ![o] = IF @ = 0 THEN 0 ELSE @ - 1]

\* The browser goes away.
Disconnect(c) ==
    /\ stream[c] # None
    /\ Drop(c)
    /\ UNCHANGED <<events, sequence, status, live>>

\* The receiver fell behind what the channel still holds.
Lagged(j, s) == s.position + ChannelCapacity <= sequence[j]

\* JobSubscription::next after the first session check: what it returns, and
\* the subscription it leaves. A timeout of recv is a heartbeat.
NextDelivery(j, s) ==
    CASE s.replay # <<>> ->
            [s EXCEPT !.held = Head(s.replay), !.replay = Tail(s.replay),
                      !.closed = Terminal(j, Head(s.replay))]
      [] s.replay = <<>> /\ Lagged(j, s) ->
            [s EXCEPT !.held = Exhausted, !.closed = TRUE]
      [] s.replay = <<>> /\ ~Lagged(j, s) /\ s.position <= sequence[j] ->
            [s EXCEPT !.held = s.position, !.position = @ + 1,
                      !.closed = Terminal(j, s.position)]
      [] OTHER -> [s EXCEPT !.held = Heartbeat]

\* Mutant: a stream opened on a finished job waits for the channel.
FinishedWhenClosed(j, s) ==
    \/ s.closed
    \/ s.replay = <<>> /\ status[j] = "evicted" /\ s.position > sequence[j]

\* next() returns None: closed, nothing left of a finished job, or the sender
\* is gone and the channel is drained.
Finished(j, s) ==
    \/ s.closed
    \/ s.replay = <<>> /\ s.closeAfterReplay
    \/ s.replay = <<>> /\ status[j] = "evicted" /\ s.position > sequence[j]

\* One poll of the stream up to the return of next().
Poll(c) ==
    /\ stream[c] # None
    /\ stream[c].held = None
    /\ IF OwnerOf(c) \notin live \/ Finished(JobOf[c], stream[c])
       THEN Drop(c)
       ELSE /\ stream' = [stream EXCEPT ![c] = NextDelivery(JobOf[c], stream[c])]
            /\ UNCHANGED <<subscribers, byOwner>>
    /\ UNCHANGED <<events, sequence, status, live>>

\* The session is checked again before the delivery is handed to the client.
Yield(c) ==
    /\ stream[c] # None
    /\ stream[c].held # None
    /\ IF OwnerOf(c) \notin live
       THEN Drop(c)
       ELSE /\ stream' = [stream EXCEPT
                    ![c].at = IF stream[c].held \in 1..MaxEvents THEN stream[c].held ELSE @,
                    ![c].held = None]
            /\ UNCHANGED <<subscribers, byOwner>>
    /\ UNCHANGED <<events, sequence, status, live>>

Next ==
    \/ \E j \in Jobs :
        \/ \E next \in {"active", "terminal"} : PushEvent(j, next)
        \/ Evict(j)
    \/ \E o \in Owners : Revoke(o)
    \/ \E c \in Clients :
        \/ \E after \in Cursors \cup {None} : Subscribe(c, after)
        \/ Poll(c)
        \/ Yield(c)
        \/ Disconnect(c)

Spec == Init /\ [][Next]_vars

\* The server polls every stream whose client reads, and recv times out after
\* the heartbeat interval, so a poll always returns.
FairSpec == Spec /\ \A c \in Clients : WF_vars(Poll(c)) /\ WF_vars(Yield(c))

-----------------------------------------------------------------------------
(* Properties *)

\* A stream never skips or repeats an event: what it yields follows the last
\* event its client has, whether it comes from the replay window or from the
\* channel (subscription.rs:35-66, 116-140). A client that was given no cursor
\* starts anywhere.
NoGap ==
    [][\A c \in Clients :
        (stream[c] # None /\ stream'[c] # None /\ stream'[c].at # stream[c].at)
            => \/ stream[c].at = None
               \/ stream'[c].at = stream[c].at + 1]_vars

\* The lease counters are exactly the open streams, for the process and for
\* every session, whatever order streams end in (subscription.rs:91-101,
\* 147-159); with the guards of subscribe, no limit is ever exceeded.
LeasesExact ==
    /\ subscribers = Cardinality(Open)
    /\ \A o \in Owners : byOwner[o] = Cardinality({c \in Open : OwnerOf(c) = o})
    /\ subscribers <= PerProcess
    /\ \A o \in Owners : byOwner[o] <= PerSession

\* A stream ends, and gives its lease back, once its session was revoked or
\* its job has finished: no stream hangs on a channel that stays silent
\* (subscription.rs:45-65, events_http.rs:45-60).
StreamsEnd ==
    \A c \in Clients :
        (stream[c] # None /\ (OwnerOf(c) \notin live \/ status[JobOf[c]] # "active"))
            ~> (stream[c] = None)
=============================================================================

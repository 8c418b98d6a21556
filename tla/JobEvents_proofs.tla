-------------------------- MODULE JobEvents_proofs --------------------------
(***************************************************************************)
(* Proofs about JobEvents, for any number of clients, jobs and sessions,   *)
(* any window, channel and limits.  The counters of the leases are counted *)
(* as sets of open streams; that no event is skipped or repeated rests on  *)
(* how the three sources of an event join: the replay ends where the       *)
(* receiver starts, and what is held lies between the client's last event  *)
(* and the replay.                                                         *)
(***************************************************************************)
EXTENDS JobEvents, FiniteSetTheorems, SequenceTheorems, TLAPS

-----------------------------------------------------------------------------
(* The inductive invariant *)

\* q is the run of successive numbers that ends with `last`.
RunTo(q, last) == \A k \in 1..Len(q) : q[k] = last - Len(q) + k

\* The replay window is the run of numbers that ends with the newest event.
WindowOK == \A j \in Jobs : Len(events[j]) >= 1 /\ RunTo(events[j], sequence[j])

\* The number the stream will take up next, from the replay or the channel.
NextNumber(s) == s.position - Len(s.replay)

\* The replay runs up to the receiver's position; an event at hand comes just
\* before the replay, and just after what the client has.
JoinedUp(s) ==
    /\ RunTo(s.replay, s.position - 1)
    /\ s.held \in 1..MaxEvents => s.held + 1 = NextNumber(s)
    /\ s.at # None =>
          IF s.held \in 1..MaxEvents THEN s.at + 1 = s.held
                                     ELSE s.at + 1 = NextNumber(s)

StreamsOK ==
    \A c \in Clients : stream[c] # None =>
        JoinedUp(stream[c]) /\ stream[c].position <= sequence[JobOf[c]] + 1

IInv == TypeOK /\ WindowOK /\ StreamsOK /\ LeasesExact

-----------------------------------------------------------------------------
(* Counting leases *)

\* The streams of session o.
OpenOf(o) == {c \in Open : OwnerOf(c) = o}

\* The sets of open streams are finite.
LEMMA OpenFinite ==
  ASSUME NEW o
  PROVE  IsFiniteSet(Open) /\ IsFiniteSet(OpenOf(o))
  BY EventsAssumption, FS_Subset DEF Open, OpenOf

\* A stream that stays open, or closed, leaves the sets as they are.
LEMMA OpenKept ==
  ASSUME \A c \in Clients : (stream'[c] = None) <=> (stream[c] = None)
  PROVE  Open' = Open /\ \A o : OpenOf(o)' = OpenOf(o)
  BY DEF Open, OpenOf, OwnerOf

\* Opening a stream adds its client to the sets, and nothing else.
LEMMA OpenAdds ==
  ASSUME NEW c \in Clients, stream[c] = None, stream'[c] # None,
         \A d \in Clients \ {c} : stream'[d] = stream[d]
  PROVE  /\ Open' = Open \cup {c} /\ c \notin Open
         /\ \A o : OpenOf(o)' = IF o = OwnerOf(c) THEN OpenOf(o) \cup {c} ELSE OpenOf(o)
  BY DEF Open, OpenOf, OwnerOf

\* Dropping a stream removes its client from the sets, and nothing else.
LEMMA OpenRemoves ==
  ASSUME NEW c \in Clients, stream[c] # None, stream'[c] = None,
         \A d \in Clients \ {c} : stream'[d] = stream[d]
  PROVE  /\ Open' = Open \ {c} /\ c \in Open
         /\ \A o : OpenOf(o)' = IF o = OwnerOf(c) THEN OpenOf(o) \ {c} ELSE OpenOf(o)
  BY DEF Open, OpenOf, OwnerOf

\* LeasesExact in terms of these sets.
LEMMA LeasesDef ==
  LeasesExact <=>
    /\ subscribers = Cardinality(Open)
    /\ \A o \in Owners : byOwner[o] = Cardinality(OpenOf(o))
    /\ subscribers <= PerProcess
    /\ \A o \in Owners : byOwner[o] <= PerSession
  BY DEF LeasesExact, OpenOf

\* The session of a client is one of the sessions.
LEMMA OwnerType == ASSUME NEW c \in Clients PROVE OwnerOf(c) \in Owners
  BY EventsAssumption DEF OwnerOf

-----------------------------------------------------------------------------
(* Runs of numbers, and the replay handed to a new stream *)

\* Without its head a run is a run to the same end.
LEMMA TailRun ==
  ASSUME NEW q \in Seq(1..MaxEvents), NEW last \in Int, RunTo(q, last), q # <<>>
  PROVE  /\ Tail(q) \in Seq(1..MaxEvents) /\ RunTo(Tail(q), last)
         /\ Len(Tail(q)) = Len(q) - 1 /\ Len(q) \in Nat \ {0}
         /\ Head(q) \in 1..MaxEvents /\ Head(q) = last - Len(q) + 1
  <1>1. Len(q) \in Nat \ {0} /\ Head(q) = q[1]
    BY EmptySeq, LenProperties
  <1>2. /\ Head(q) \in 1..MaxEvents
        /\ Tail(q) \in Seq(1..MaxEvents)
        /\ Len(Tail(q)) = Len(q) - 1
        /\ \A i \in 1 .. Len(Tail(q)) : Tail(q)[i] = q[i+1]
    BY HeadTailProperties
  <1>3. q[1] = last - Len(q) + 1
    BY <1>1 DEF RunTo
  <1>4. \A i \in 1 .. (Len(q) - 1) : q[i + 1] = last - Len(q) + (i + 1)
    BY <1>1 DEF RunTo
  <1>5. RunTo(Tail(q), last)
    BY <1>1, <1>2, <1>4 DEF RunTo
  <1>. QED
    BY <1>1, <1>2, <1>3, <1>5

\* The next number prolongs a run.
LEMMA AppendRun ==
  ASSUME NEW q \in Seq(1..MaxEvents), NEW last \in Int, RunTo(q, last),
         last + 1 \in 1..MaxEvents
  PROVE  /\ Append(q, last + 1) \in Seq(1..MaxEvents)
         /\ Len(Append(q, last + 1)) = Len(q) + 1 /\ Len(q) \in Nat
         /\ RunTo(Append(q, last + 1), last + 1)
  <1>1. /\ Append(q, last + 1) \in Seq(1..MaxEvents)
        /\ Len(Append(q, last + 1)) = Len(q) + 1 /\ Len(q) \in Nat
        /\ \A i \in 1..Len(q) : Append(q, last + 1)[i] = q[i]
        /\ Append(q, last + 1)[Len(q) + 1] = last + 1
    BY AppendProperties, LenProperties
  <1>. QED
    BY <1>1 DEF RunTo

\* select_replay returns the run of events from the cursor to the newest one.
LEMMA ReplayOK ==
  ASSUME TypeOK, WindowOK, NEW j \in Jobs, NEW after \in Cursors \cup {None},
         CursorAccepted(j, after)
  PROVE  LET replay == SelectReplay(j, after) IN
         /\ replay \in Seq(1..MaxEvents)
         /\ RunTo(replay, sequence[j])
         /\ after # None => after + 1 = sequence[j] + 1 - Len(replay)
  <1>. DEFINE w == events[j]
              len == Len(events[j])
  <1>1. /\ w \in Seq(1..MaxEvents) /\ len \in Nat /\ len >= 1 /\ sequence[j] \in 1..MaxEvents
        /\ MaxEvents \in Nat
        /\ \A k \in 1..len : w[k] = sequence[j] - len + k
    BY EventsAssumption DEF TypeOK, WindowOK, RunTo
  <1>2. CASE after = None
    BY <1>1, <1>2 DEF SelectReplay, RunTo
  <1>3. CASE after # None
    <2>. DEFINE seen == {k \in DOMAIN w : w[k] <= after}
                m == after - sequence[j] + len
    <2>1. after \in 0 .. (MaxEvents + 1)
      BY <1>3 DEF Cursors
    <2>2. after <= sequence[j] /\ after + 1 >= sequence[j] - len + 1
      <3>1. w[len] = sequence[j] /\ w[1] = sequence[j] - len + 1
        BY <1>1
      <3>. QED
        BY <3>1, <1>3 DEF CursorAccepted
    <2>3. m \in 0..len
      <3>1. \A a, s, l \in Int : a <= s /\ a + 1 >= s - l + 1 => a - s + l \in 0..l
        OBVIOUS
      <3>2. after \in Int /\ sequence[j] \in Int /\ len \in Int
        BY <1>1, <2>1
      <3>. HIDE DEF len
      <3>. QED
        BY <2>2, <3>1, <3>2
    <2>4. seen = 1..m
      <3>1. DOMAIN w = 1..len
        BY <1>1
      <3>2. \A k \in 1..len : w[k] <= after <=> k <= m
        BY <1>1, <2>1
      <3>. QED
        BY <2>3, <3>1, <3>2, <1>1
    <2>5. Cardinality(seen) = m
      <3>1. m \in Int /\ 1 \in Int /\ m >= 0
        BY <2>3
      <3>2. Cardinality(1..m) = IF 1 > m THEN 0 ELSE m - 1 + 1
        BY <3>1, FS_Interval
      <3>3. Cardinality(1..m) = m
        BY <3>1, <3>2
      <3>. HIDE DEF seen, m
      <3>. QED
        BY <2>4, <3>3
    <2>6. SelectReplay(j, after) = SubSeq(w, m + 1, len)
      BY <2>5, <1>3 DEF SelectReplay
    <2>7. /\ SubSeq(w, m + 1, len) \in Seq(1..MaxEvents)
          /\ Len(SubSeq(w, m + 1, len)) = len - m
          /\ \A k \in 1..(len - m) : SubSeq(w, m + 1, len)[k] = w[m + k]
      <3>1. m \in Nat /\ m + 1 \in 1..(len + 1) /\ len \in m .. len /\ m <= len
        BY <1>1, <2>3
      <3>. HIDE DEF m
      <3>2. \A i \in (m + 1)..len : w[i] \in 1..MaxEvents
        BY <1>1, <3>1
      <3>. QED
        BY <1>1, <3>1, <3>2, SubSeqProperties
    <2>. DEFINE r == SubSeq(w, m + 1, len)
    <2>8. /\ r \in Seq(1..MaxEvents) /\ Len(r) = sequence[j] - after
          /\ RunTo(r, sequence[j])
      <3>1. Len(r) = len - m /\ len - m = sequence[j] - after
        BY <1>1, <2>1, <2>7
      <3>2. \A k \in 1..(len - m) : m + k \in 1..len /\ w[m + k] = sequence[j] - len + (m + k)
        BY <1>1, <2>3
      <3>. HIDE DEF r
      <3>3. \A k \in 1..(len - m) : r[k] = w[m + k]
        BY <2>7 DEF r
      <3>4. r \in Seq(1..MaxEvents)
        BY <2>7 DEF r
      <3>5. \A k \in 1..(len - m) : r[k] = sequence[j] - (len - m) + k
        BY <1>1, <2>3, <3>2, <3>3
      <3>. HIDE DEF m
      <3>. QED
        BY <3>1, <3>4, <3>5 DEF RunTo
    <2>9. SelectReplay(j, after) = r
      BY <2>6
    <2>. HIDE DEF seen, r, m
    <2>. QED
      BY <1>1, <2>1, <2>8, <2>9
  <1>. QED
    BY <1>2, <1>3

-----------------------------------------------------------------------------
(* The steps *)

\* The invariant holds at first.
LEMMA InitIInv == Init => IInv
  <1>. SUFFICES ASSUME Init PROVE IInv
    OBVIOUS
  <1>1. TypeOK
    BY EventsAssumption DEF Init, TypeOK
  <1>2. WindowOK /\ StreamsOK
    BY DEF Init, WindowOK, StreamsOK, RunTo
  <1>3. Open = {} /\ \A o : OpenOf(o) = {}
    BY DEF Init, Open, OpenOf
  <1>4. LeasesExact
    BY <1>3, FS_EmptySet, EventsAssumption, LeasesDef DEF Init
  <1>. QED
    BY <1>1, <1>2, <1>4 DEF IInv

\* Publishing an event moves the window on; no stream changes.
LEMMA PushEventStep ==
  ASSUME IInv, NEW j \in Jobs, NEW next \in {"active", "terminal"},
         PushEvent(j, next)
  PROVE  IInv'
  <1>. DEFINE window == IF Len(events[j]) = ReplayEvents THEN Tail(events[j]) ELSE events[j]
  <1>1. /\ sequence[j] \in 1..MaxEvents /\ sequence[j] < MaxEvents /\ MaxEvents \in Nat
        /\ events[j] \in Seq(1..MaxEvents) /\ Len(events[j]) >= 1
        /\ RunTo(events[j], sequence[j])
    BY EventsAssumption DEF IInv, TypeOK, WindowOK, PushEvent
  <1>2. window \in Seq(1..MaxEvents) /\ RunTo(window, sequence[j])
    <2>1. events[j] # <<>> /\ sequence[j] \in Int
      BY <1>1
    <2>2. Tail(events[j]) \in Seq(1..MaxEvents) /\ RunTo(Tail(events[j]), sequence[j])
      BY <1>1, <2>1, TailRun
    <2>. QED
      BY <1>1, <2>2
  <1>3. /\ sequence' = [sequence EXCEPT ![j] = sequence[j] + 1]
        /\ events' = [events EXCEPT ![j] = Append(window, sequence[j] + 1)]
        /\ status' = [status EXCEPT ![j] = next]
        /\ UNCHANGED <<live, stream, subscribers, byOwner>>
    BY DEF PushEvent
  <1>. DEFINE new == Append(window, sequence[j] + 1)
  <1>4. new \in Seq(1..MaxEvents) /\ Len(new) >= 1 /\ RunTo(new, sequence[j] + 1)
    BY <1>1, <1>2, AppendRun
  <1>. HIDE DEF window, new
  <1>8. TypeOK'
    BY <1>1, <1>3, <1>4 DEF IInv, TypeOK, new
  <1>5. WindowOK'
    <2>. SUFFICES ASSUME NEW i \in Jobs
                  PROVE  Len(events'[i]) >= 1 /\ RunTo(events'[i], sequence'[i])
      BY DEF WindowOK, RunTo
    <2>1. CASE i = j
      BY <1>1, <1>3, <1>4, <2>1 DEF IInv, TypeOK, new
    <2>2. CASE i # j
      BY <1>3, <2>2 DEF IInv, TypeOK, WindowOK
    <2>. QED
      BY <2>1, <2>2
  <1>6. StreamsOK'
    <2>. SUFFICES ASSUME NEW c \in Clients, stream[c] # None
                  PROVE  JoinedUp(stream[c])' /\ stream[c].position <= sequence'[JobOf[c]] + 1
      BY <1>3 DEF StreamsOK, JoinedUp, NextNumber, RunTo
    <2>1. JoinedUp(stream[c]) /\ stream[c].position <= sequence[JobOf[c]] + 1
      BY DEF IInv, StreamsOK
    <2>2. stream[c].position \in Nat /\ JobOf[c] \in Jobs /\ sequence[JobOf[c]] \in Nat
      BY EventsAssumption DEF IInv, TypeOK, Stream
    <2>. QED
      BY <1>3, <2>1, <2>2 DEF JoinedUp, NextNumber, RunTo, IInv, TypeOK
  <1>7. LeasesExact'
    BY <1>3 DEF IInv, LeasesExact, Open, OwnerOf
  <1>. QED
    BY <1>5, <1>6, <1>7, <1>8 DEF IInv

\* Eviction of the job and revocation of a session change no stream.
LEMMA QuietStep ==
  ASSUME IInv,
         \/ \E j \in Jobs : Evict(j)
         \/ \E o \in Owners : Revoke(o)
         \/ UNCHANGED vars
  PROVE  IInv'
  <1>1. /\ UNCHANGED <<events, sequence, stream, subscribers, byOwner>>
        /\ status' \in [Jobs -> {"active", "terminal", "evicted"}]
        /\ live' \subseteq Owners
    BY DEF Evict, Revoke, vars, IInv, TypeOK
  <1>2. TypeOK'
    BY <1>1 DEF IInv, TypeOK
  <1>3. WindowOK' /\ StreamsOK'
    BY <1>1 DEF IInv, WindowOK, StreamsOK, JoinedUp, NextNumber, RunTo
  <1>4. LeasesExact'
    BY <1>1 DEF IInv, LeasesExact, Open, OwnerOf
  <1>. QED
    BY <1>2, <1>3, <1>4 DEF IInv

\* subscribe() hands out a stream that is joined up and counts its lease once
\* in either counter.
LEMMA SubscribeStep ==
  ASSUME IInv, NEW c \in Clients, NEW after \in Cursors \cup {None},
         Subscribe(c, after)
  PROVE  IInv'
  <1>. DEFINE j == JobOf[c]
              o == OwnerOf(c)
              new == [replay |-> SelectReplay(j, after), position |-> sequence[j] + 1,
                      closeAfterReplay |-> status[j] = "terminal", closed |-> FALSE,
                      held |-> None, at |-> after]
  <1>1. /\ stream[c] = None
        /\ CursorAccepted(j, after)
        /\ byOwner[o] < PerSession
        /\ subscribers < PerProcess
        /\ subscribers' = subscribers + 1
        /\ byOwner' = [byOwner EXCEPT ![o] = byOwner[o] + 1]
        /\ stream' = [stream EXCEPT ![c] = new]
        /\ UNCHANGED <<events, sequence, status, live>>
    BY DEF Subscribe
  <1>2. j \in Jobs /\ o \in Owners /\ sequence[j] \in 1..MaxEvents /\ MaxEvents \in Nat
    BY EventsAssumption, OwnerType DEF IInv, TypeOK
  <1>3. /\ new.replay \in Seq(1..MaxEvents)
        /\ RunTo(new.replay, sequence[j])
        /\ after # None => after + 1 = sequence[j] + 1 - Len(new.replay)
    BY <1>1, <1>2, ReplayOK DEF IInv
  <1>4. new \in Stream
    BY <1>2, <1>3, EventsAssumption DEF Stream
  <1>5. JoinedUp(new) /\ new.position <= sequence[j] + 1
    <2>1. None \notin 1..MaxEvents
      BY EventsAssumption
    <2>2. Len(new.replay) \in Nat
      BY <1>3
    <2>. QED
      BY <1>2, <1>3, <2>1, <2>2 DEF JoinedUp, NextNumber, RunTo
  <1>. HIDE DEF new
  <1>6. TypeOK'
    BY <1>1, <1>2, <1>4 DEF IInv, TypeOK
  <1>7. WindowOK'
    BY <1>1 DEF IInv, WindowOK, RunTo
  <1>8. StreamsOK'
    <2>. SUFFICES ASSUME NEW d \in Clients, stream'[d] # None
                  PROVE  JoinedUp(stream'[d]) /\ stream'[d].position <= sequence[JobOf[d]] + 1
      BY <1>1 DEF StreamsOK, JoinedUp, NextNumber, RunTo
    <2>1. CASE d = c
      BY <1>1, <1>5, <2>1 DEF IInv, TypeOK
    <2>2. CASE d # c
      BY <1>1, <2>2 DEF IInv, TypeOK, StreamsOK
    <2>. QED
      BY <2>1, <2>2
  <1>9. LeasesExact'
    <2>1. /\ stream'[c] # None
          /\ \A d \in Clients \ {c} : stream'[d] = stream[d]
      BY <1>1, <1>4, NoneAssumption DEF IInv, TypeOK
    <2>2. /\ Open' = Open \cup {c} /\ c \notin Open
          /\ \A p : OpenOf(p)' = IF p = o THEN OpenOf(p) \cup {c} ELSE OpenOf(p)
      BY <1>1, <2>1, OpenAdds
    <2>3. \A p : OpenOf(p) \subseteq Open
      BY DEF OpenOf
    <2>4. Cardinality(Open') = Cardinality(Open) + 1
      BY <2>2, OpenFinite, FS_AddElement
    <2>5. \A p \in Owners : Cardinality(OpenOf(p)') =
              IF p = o THEN Cardinality(OpenOf(p)) + 1 ELSE Cardinality(OpenOf(p))
      BY <2>2, <2>3, OpenFinite, FS_AddElement
    <2>6. LeasesExact
      BY DEF IInv
    <2>7. /\ subscribers' = Cardinality(Open')
          /\ \A p \in Owners : byOwner'[p] = Cardinality(OpenOf(p)')
      BY <1>1, <1>2, <2>4, <2>5, <2>6, LeasesDef DEF IInv, TypeOK
    <2>8. subscribers' <= PerProcess /\ \A p \in Owners : byOwner'[p] <= PerSession
      BY <1>1, <1>2, <2>6, LeasesDef, EventsAssumption DEF IInv, TypeOK
    <2>9. LeasesExact'
      BY <2>7, <2>8 DEF LeasesExact, OpenOf
    <2>. QED
      BY <2>9
  <1>. QED
    BY <1>6, <1>7, <1>8, <1>9 DEF IInv

\* A dropped stream gives back exactly the lease it took: neither counter
\* saturates.
LEMMA DropStep ==
  ASSUME IInv, NEW c \in Clients, stream[c] # None, Drop(c),
         UNCHANGED <<events, sequence, status, live>>
  PROVE  IInv'
  <1>. DEFINE o == OwnerOf(c)
  <1>1. /\ stream' = [stream EXCEPT ![c] = None]
        /\ subscribers' = IF subscribers = 0 THEN 0 ELSE subscribers - 1
        /\ byOwner' = [byOwner EXCEPT ![o] = IF byOwner[o] = 0 THEN 0 ELSE byOwner[o] - 1]
    BY DEF Drop
  <1>2. o \in Owners
    BY OwnerType
  <1>3. TypeOK'
    BY <1>1, <1>2 DEF IInv, TypeOK
  <1>4. WindowOK'
    BY DEF IInv, WindowOK, RunTo
  <1>5. StreamsOK'
    BY <1>1 DEF IInv, TypeOK, StreamsOK, JoinedUp, NextNumber, RunTo
  <1>6. LeasesExact'
    <2>1. stream'[c] = None /\ \A d \in Clients \ {c} : stream'[d] = stream[d]
      BY <1>1 DEF IInv, TypeOK
    <2>2. /\ Open' = Open \ {c} /\ c \in Open
          /\ \A p : OpenOf(p)' = IF p = o THEN OpenOf(p) \ {c} ELSE OpenOf(p)
      BY <2>1, OpenRemoves
    <2>3. c \in OpenOf(o)
      BY <2>2 DEF OpenOf
    <2>4. /\ Cardinality(Open) \in Nat /\ Cardinality(Open) # 0
          /\ Cardinality(Open') = Cardinality(Open) - 1
      BY <2>2, OpenFinite, FS_RemoveElement, FS_CardinalityType, FS_EmptySet
    <2>5. /\ Cardinality(OpenOf(o)) \in Nat /\ Cardinality(OpenOf(o)) # 0
          /\ Cardinality(OpenOf(o)') = Cardinality(OpenOf(o)) - 1
      BY <2>2, <2>3, OpenFinite, FS_RemoveElement, FS_CardinalityType, FS_EmptySet
    <2>6. LeasesExact
      BY DEF IInv
    <2>7. /\ subscribers' = Cardinality(Open')
          /\ \A p \in Owners : byOwner'[p] = Cardinality(OpenOf(p)')
      BY <1>1, <1>2, <2>2, <2>4, <2>5, <2>6, LeasesDef DEF IInv, TypeOK
    <2>8. subscribers' <= PerProcess /\ \A p \in Owners : byOwner'[p] <= PerSession
      BY <1>1, <1>2, <2>6, LeasesDef, EventsAssumption DEF IInv, TypeOK
    <2>. QED
      BY <2>7, <2>8 DEF LeasesExact, OpenOf
  <1>. QED
    BY <1>3, <1>4, <1>5, <1>6 DEF IInv

\* A stream that changes and stays open, and stays joined up, keeps the rest.
LEMMA StreamStep ==
  ASSUME IInv, NEW c \in Clients, NEW new, stream[c] # None,
         stream' = [stream EXCEPT ![c] = new],
         new \in Stream, JoinedUp(new), new.position <= sequence[JobOf[c]] + 1,
         UNCHANGED <<subscribers, byOwner, events, sequence, status, live>>
  PROVE  IInv'
  <1>1. TypeOK'
    BY DEF IInv, TypeOK
  <1>2. WindowOK'
    BY DEF IInv, WindowOK, RunTo
  <1>3. StreamsOK'
    <2>. SUFFICES ASSUME NEW d \in Clients, stream'[d] # None
                  PROVE  JoinedUp(stream'[d]) /\ stream'[d].position <= sequence[JobOf[d]] + 1
      BY DEF StreamsOK, JoinedUp, NextNumber, RunTo
    <2>1. CASE d = c
      BY <2>1 DEF IInv, TypeOK
    <2>2. CASE d # c
      BY <2>2 DEF IInv, TypeOK, StreamsOK
    <2>. QED
      BY <2>1, <2>2
  <1>4. Open' = Open /\ \A o : OpenOf(o)' = OpenOf(o)
    <2>1. \A d \in Clients : (stream'[d] = None) <=> (stream[d] = None)
      BY NoneAssumption DEF IInv, TypeOK
    <2>. QED
      BY <2>1, OpenKept
  <1>5. LeasesExact'
    BY <1>4, LeasesDef DEF IInv, LeasesExact, OpenOf
  <1>. QED
    BY <1>1, <1>2, <1>3, <1>5 DEF IInv

\* next() takes the head of the replay, or of the channel once the replay is
\* used up, and the stream stays joined up.
LEMMA PollStep ==
  ASSUME IInv, NEW c \in Clients, Poll(c)
  PROVE  IInv'
  <1>. DEFINE j == JobOf[c]
              s == stream[c]
              new == NextDelivery(j, s)
  <1>1. CASE OwnerOf(c) \notin live \/ Finished(j, s)
    BY <1>1, DropStep DEF Poll
  <1>2. CASE ~(OwnerOf(c) \notin live \/ Finished(j, s))
    <2>1. /\ s # None /\ s.held = None
          /\ stream' = [stream EXCEPT ![c] = new]
          /\ UNCHANGED <<subscribers, byOwner, events, sequence, status, live>>
      BY <1>2 DEF Poll
    <2>2. /\ s \in Stream /\ JoinedUp(s) /\ s.position <= sequence[j] + 1
          /\ j \in Jobs /\ sequence[j] \in 1..MaxEvents /\ MaxEvents \in Nat
      BY <2>1, EventsAssumption DEF IInv, TypeOK, StreamsOK
    <2>3. s.replay \in Seq(1..MaxEvents) /\ s.position \in 1..(MaxEvents + 1)
      BY <2>2 DEF Stream
    <2>4. {None, Heartbeat, Exhausted} \cap (1..MaxEvents) = {}
      BY EventsAssumption
    <2>5. new \in Stream /\ JoinedUp(new) /\ new.position <= sequence[j] + 1
      <3>1. CASE s.replay # <<>>
        <4>1. new = [s EXCEPT !.held = Head(s.replay), !.replay = Tail(s.replay),
                              !.closed = Terminal(j, Head(s.replay))]
          BY <3>1 DEF NextDelivery
        <4>2. Terminal(j, Head(s.replay)) \in BOOLEAN
          BY DEF Terminal
        <4>3. /\ Tail(s.replay) \in Seq(1..MaxEvents)
              /\ RunTo(Tail(s.replay), s.position - 1)
              /\ Len(Tail(s.replay)) = Len(s.replay) - 1 /\ Len(s.replay) \in Nat \ {0}
              /\ Head(s.replay) \in 1..MaxEvents
              /\ Head(s.replay) = s.position - Len(s.replay)
          <5>1. s.position - 1 \in Int /\ RunTo(s.replay, s.position - 1)
            BY <2>2, <2>3 DEF JoinedUp
          <5>. DEFINE last == s.position - 1
          <5>2. last \in Int /\ RunTo(s.replay, last)
            BY <5>1
          <5>3. last - Len(s.replay) + 1 = s.position - Len(s.replay)
            BY <2>3
          <5>. HIDE DEF last
          <5>4. /\ Tail(s.replay) \in Seq(1..MaxEvents) /\ RunTo(Tail(s.replay), last)
                /\ Len(Tail(s.replay)) = Len(s.replay) - 1 /\ Len(s.replay) \in Nat \ {0}
                /\ Head(s.replay) \in 1..MaxEvents
                /\ Head(s.replay) = last - Len(s.replay) + 1
            BY <2>3, <3>1, <5>2, TailRun
          <5>. QED
            BY <5>3, <5>4 DEF last
        <4>4. new \in Stream
          BY <2>2, <4>1, <4>2, <4>3 DEF Stream
        <4>5. s.at # None => s.at + 1 = Head(s.replay)
          BY <2>1, <2>2, <2>4, <4>3 DEF JoinedUp, NextNumber
        <4>6. /\ new.replay = Tail(s.replay) /\ new.position = s.position
              /\ new.held = Head(s.replay) /\ new.at = s.at
          BY <2>2, <4>1 DEF Stream
        <4>7. new.held + 1 = new.position - Len(new.replay)
          BY <2>3, <4>3, <4>6
        <4>. QED
          BY <2>2, <4>3, <4>4, <4>5, <4>6, <4>7 DEF JoinedUp, NextNumber
      <3>2. CASE s.replay = <<>> /\ Lagged(j, s)
        <4>1. new = [s EXCEPT !.held = Exhausted, !.closed = TRUE]
          BY <3>2 DEF NextDelivery
        <4>. QED
          BY <2>1, <2>2, <2>3, <2>4, <4>1 DEF Stream, JoinedUp, NextNumber, RunTo
      <3>3. CASE s.replay = <<>> /\ ~Lagged(j, s) /\ s.position <= sequence[j]
        <4>1. new = [s EXCEPT !.held = s.position, !.position = s.position + 1,
                              !.closed = Terminal(j, s.position)]
          BY <3>3 DEF NextDelivery
        <4>0. Terminal(j, s.position) \in BOOLEAN
          BY DEF Terminal
        <4>2. new \in Stream
          <5>1. s.position \in 1..MaxEvents /\ s.position + 1 \in 1..(MaxEvents + 1)
            BY <2>2, <2>3, <3>3
          <5>. QED
            BY <2>2, <4>0, <4>1, <5>1 DEF Stream
        <4>. QED
          BY <2>1, <2>2, <2>3, <2>4, <3>3, <4>1, <4>2 DEF Stream, JoinedUp, NextNumber, RunTo
      <3>4. CASE s.replay = <<>> /\ ~Lagged(j, s) /\ ~(s.position <= sequence[j])
        <4>1. new = [s EXCEPT !.held = Heartbeat]
          BY <3>4 DEF NextDelivery
        <4>. QED
          BY <2>1, <2>2, <2>3, <2>4, <4>1 DEF Stream, JoinedUp, NextNumber, RunTo
      <3>. QED
        BY <3>1, <3>2, <3>3, <3>4
    <2>. QED
      BY <2>1, <2>5, StreamStep
  <1>. QED
    BY <1>1, <1>2

\* What Yield leaves of a stream that goes on.
Yielded(s) ==
    [s EXCEPT !.at = IF s.held \in 1..MaxEvents THEN s.held ELSE s.at, !.held = None]

\* The delivery is handed over: the client's last event moves by one.
LEMMA YieldStep ==
  ASSUME IInv, NEW c \in Clients, Yield(c)
  PROVE  IInv'
  <1>. DEFINE s == stream[c]
  <1>1. CASE OwnerOf(c) \notin live
    BY <1>1, DropStep DEF Yield
  <1>2. CASE OwnerOf(c) \in live
    <2>1. /\ s # None /\ s.held # None
          /\ stream' = [stream EXCEPT ![c] = Yielded(s)]
          /\ UNCHANGED <<subscribers, byOwner, events, sequence, status, live>>
      BY <1>2 DEF Yield, Yielded, IInv, TypeOK, Stream
    <2>2. /\ s \in Stream /\ JoinedUp(s) /\ s.position <= sequence[JobOf[c]] + 1
          /\ MaxEvents \in Nat
      BY <2>1, EventsAssumption DEF IInv, TypeOK, StreamsOK
    <2>3. {None, Heartbeat, Exhausted} \cap (0..(MaxEvents + 1)) = {}
      BY EventsAssumption, <2>2
    <2>4. Yielded(s) \in Stream
      <3>1. s.held \in 1..MaxEvents => s.held \in Cursors
        BY <2>2 DEF Cursors
      <3>2. (IF s.held \in 1..MaxEvents THEN s.held ELSE s.at) \in Cursors \cup {None}
        BY <2>2, <3>1 DEF Stream
      <3>. QED
        BY <2>2, <3>2 DEF Yielded, Stream
    <2>5. JoinedUp(Yielded(s)) /\ Yielded(s).position <= sequence[JobOf[c]] + 1
      BY <2>1, <2>2, <2>3 DEF Yielded, Stream, JoinedUp, NextNumber, RunTo
    <2>. QED
      BY <2>1, <2>4, <2>5, StreamStep
  <1>. QED
    BY <1>1, <1>2

\* Every step keeps the invariant.
LEMMA NextIInv == IInv /\ [Next]_vars => IInv'
  <1>. SUFFICES ASSUME IInv, [Next]_vars PROVE IInv'
    OBVIOUS
  <1>1. ASSUME NEW c \in Clients, Disconnect(c) PROVE IInv'
    BY <1>1, DropStep DEF Disconnect
  <1>. QED
    BY <1>1, PushEventStep, QuietStep, SubscribeStep, PollStep, YieldStep DEF Next

-----------------------------------------------------------------------------
(* The theorems *)

\* The inductive invariant: window, streams and counters.
THEOREM Invariance == Spec => []IInv
  BY InitIInv, NextIInv, PTL DEF Spec

\* The lease counters of the process and of every session are exactly the
\* open streams, and no limit of subscribe() is exceeded.
THEOREM LeasesAreExact == Spec => []LeasesExact
  <1>1. IInv => LeasesExact
    BY DEF IInv
  <1>. QED
    BY <1>1, Invariance, PTL

\* No step changes what a client has read except by the next event.
LEMMA NoGapStep ==
  ASSUME IInv, [Next]_vars, NEW c \in Clients,
         stream[c] # None, stream'[c] # None, stream'[c].at # stream[c].at
  PROVE  stream[c].at = None \/ stream'[c].at = stream[c].at + 1
  <1>. DEFINE s == stream[c]
  <1>0. s \in Stream /\ JoinedUp(s) /\ stream \in [Clients -> Stream \cup {None}]
    BY DEF IInv, TypeOK, StreamsOK
  <1>1. CASE Yield(c)
    <2>1. stream' = [stream EXCEPT ![c] = Yielded(s)]
      BY <1>0, <1>1 DEF Yield, Yielded, Drop, Stream
    <2>2. stream'[c].at = IF s.held \in 1..MaxEvents THEN s.held ELSE s.at
      BY <1>0, <2>1 DEF Yielded, Stream
    <2>. QED
      BY <1>0, <2>2 DEF JoinedUp
  <1>2. CASE Poll(c)
    <2>1. stream'[c] = NextDelivery(JobOf[c], s)
      BY <1>0, <1>2 DEF Poll, Drop
    <2>2. stream'[c].at = s.at
      BY <1>0, <2>1 DEF NextDelivery, Stream
    <2>. QED
      BY <2>2
  <1>3. CASE stream'[c] = stream[c]
    BY <1>3
  <1>4. ASSUME NEW d \in Clients \ {c},
               \/ \E after \in Cursors \cup {None} : Subscribe(d, after)
               \/ Poll(d) \/ Yield(d) \/ Disconnect(d)
        PROVE  stream'[c] = stream[c]
    BY <1>0, <1>4 DEF Subscribe, Poll, Yield, Disconnect, Drop
  <1>5. ASSUME \/ UNCHANGED vars
               \/ \E j \in Jobs : Evict(j) \/ \E next \in {"active", "terminal"} : PushEvent(j, next)
               \/ \E o \in Owners : Revoke(o)
        PROVE  stream'[c] = stream[c]
    BY <1>5 DEF vars, Evict, PushEvent, Revoke
  <1>6. ~Disconnect(c) /\ \A after \in Cursors \cup {None} : ~Subscribe(c, after)
    BY <1>0 DEF Disconnect, Drop, Subscribe
  <1>. QED
    BY <1>1, <1>2, <1>3, <1>4, <1>5, <1>6 DEF Next

\* A stream never skips and never repeats an event, whatever the sizes of the
\* replay window and the channel, and whenever it was opened.
THEOREM StreamsHaveNoGap == Spec => NoGap
  <1>1. IInv /\ [Next]_vars =>
          [\A c \in Clients :
             (stream[c] # None /\ stream'[c] # None /\ stream'[c].at # stream[c].at)
               => \/ stream[c].at = None
                  \/ stream'[c].at = stream[c].at + 1]_vars
    BY NoGapStep
  <1>. QED
    BY <1>1, Invariance, PTL DEF Spec, NoGap
=============================================================================

------------------------------- MODULE Watch --------------------------------
(***************************************************************************)
(* Repository.Watch (internal/repositories/jetstream/repository.go:269-342)*)
(* as a subscriber sees it through CoreAdapter.Subscribe: one JetStream    *)
(* consumer per requested subject, all of them pushing into one bounded    *)
(* channel, from which Watch delivers; and a client that disconnects and   *)
(* comes back with the offset it received last.                            *)
(*                                                                         *)
(* The stream and its consumers are external: a consumer pushes the        *)
(* records of its subject in stream order, independently of the others,    *)
(* and what finds the channel full is lost (AckNone, no flow control).     *)
(***************************************************************************)
EXTENDS Naturals, Sequences, FiniteSets, FiniteSetsExt

CONSTANTS
    Actors,
    Requests,    \* the `types' a client may ask for: sets of event types
    MaxRecords,  \* bound: records published
    MaxSessions, \* bound: Watch calls of the client
    ChanSize,    \* capacity of msgCh for each subject (64 in the code)
    FirstSequence \* stream sequence number before the first record here

ChangeKinds == {"zone", "presence", "command"}

ASSUME WatchAssumption ==
    /\ Requests \subseteq SUBSET (ChangeKinds \cup {"unspecified"})
    /\ {MaxRecords, MaxSessions, ChanSize, FirstSequence} \subseteq Nat

VARIABLES
    stream,    \* the derived records: a sequence of [kind, actor]
    session,   \* "closed", "opening" (subscribing) or "open" (delivering)
    types,     \* what the client asks for, in every session
    offset,    \* the offset it passed, <<>> for nil
    toOpen,    \* subjects whose consumer does not exist yet
    snap,      \* snap[k]: last-per-subject records consumer k has still to push
    next,      \* next[k]: where consumer k goes on after them
    msgCh,     \* the shared channel: a sequence of stream positions
    received,  \* what deliver was called with in this session
    cursor,    \* the offset the client received last, <<>> before the first
    picture,   \* what the client holds of each subject: the record it received last
    seen,      \* every position the client ever received (history)
    owed,      \* owed[k]: what its last Watch without an offset promised of k:
               \* the snapshot, and every position from then on (history)
    lost,      \* positions that met a full channel since then (history)
    sessions

vars == <<stream, session, types, offset, toOpen, snap, next, msgCh, received,
          cursor, picture, seen, owed, lost, sessions>>

Positions == 1 .. MaxRecords

Init ==
    /\ stream = <<>>
    /\ session = "closed" /\ types \in Requests /\ offset = <<>> /\ toOpen = {}
    /\ snap = [k \in ChangeKinds |-> {}] /\ next = [k \in ChangeKinds |-> 0]
    /\ msgCh = <<>> /\ received = <<>> /\ cursor = <<>>
    /\ picture = [s \in ChangeKinds \X Actors |-> 0] /\ seen = {}
    /\ owed = [k \in ChangeKinds |-> [from |-> 0, snap |-> {}]]
    /\ lost = {} /\ sessions = 0

-----------------------------------------------------------------------------
\* No filter means every change subject; types that are not known are ignored.
watchSubjects(ts) == IF ts = {} THEN ChangeKinds ELSE ts \cap ChangeKinds

Subjects == watchSubjects(types)

OfKind(k) == {n \in DOMAIN stream : stream[n].kind = k}

SubjectOf(n) == <<stream[n].kind, stream[n].actor>>

\* DeliverLastPerSubject: the last record of each actor's subject.
LastPerSubject(k) ==
    {n \in OfKind(k) : \A m \in OfKind(k) : stream[m].actor = stream[n].actor => m <= n}

\* An offset is the record's sequence number in digits, padded to three.
NumDigits(n) == CHOOSE d \in 1 .. 20 : n < 10 ^ d /\ (d > 1 => n >= 10 ^ (d - 1))
FormatUint(n) ==
    LET len == NumDigits(n) IN [i \in 1 .. len |-> (n \div 10 ^ (len - i)) % 10]
ParseUint(s) == MapThenSumSet(LAMBDA i : s[i] * 10 ^ (Len(s) - i), DOMAIN s)
Zeros(n) == [i \in 1 .. n |-> 0]

encodeOffset(n) ==
    Zeros(IF NumDigits(n) < 3 THEN 3 - NumDigits(n) ELSE 0) \o FormatUint(n)

TrimLeft(s) ==
    LET digits == {i \in DOMAIN s : s[i] # 0}
    IN IF digits = {} THEN <<>> ELSE SubSeq(s, Min(digits), Len(s))

\* No digits are left of an offset of zeros, which is an error: 0 here.
decodeOffset(s) == ParseUint(TrimLeft(s))

\* An offset is read back as the sequence number it was made from: what the
\* theorems take for granted of the digits, and TLC evaluates.
OffsetsRoundTrip ==
    \A n \in Positions :
        /\ encodeOffset(FirstSequence + n) # <<>>
        /\ decodeOffset(encodeOffset(FirstSequence + n)) = FirstSequence + n

\* The repository publishes a derived record.
Publish(k, a) ==
    /\ Len(stream) < MaxRecords
    /\ stream' = Append(stream, [kind |-> k, actor |-> a])
    /\ UNCHANGED <<session, types, offset, toOpen, snap, next, msgCh, received,
                   cursor, picture, seen, owed, lost, sessions>>

\* The first Watch has no offset, a later one the last offset received.
OffsetToUse == cursor

\* An offset of zeros, or one that is no number, is refused before anything is
\* subscribed to.
OpenRefused ==
    /\ session = "closed" /\ sessions < MaxSessions
    /\ decodeOffset(Zeros(3)) = 0
    /\ sessions' = sessions + 1
    /\ UNCHANGED <<stream, session, types, offset, toOpen, snap, next, msgCh, received,
                   cursor, picture, seen, owed, lost>>

\* The client calls Watch. With no known type there is nothing to subscribe
\* to, and Watch only waits for the client to leave.
Open ==
    /\ session = "closed" /\ sessions < MaxSessions
    /\ session' = "opening" /\ sessions' = sessions + 1
    /\ offset' = OffsetToUse
    /\ toOpen' = Subjects
    /\ snap' = [k \in ChangeKinds |-> {}] /\ next' = [k \in ChangeKinds |-> 0]
    /\ msgCh' = <<>> /\ received' = <<>>
    /\ lost' = IF offset' = <<>> THEN {} ELSE lost
    /\ UNCHANGED <<stream, types, cursor, picture, seen, owed>>

\* Mutant: the consumer starts with new records only.
MutSnapshot(k) == {}

Snapshot(k) == IF offset = <<>> THEN LastPerSubject(k) ELSE {}

\* Mutant: the live part starts one record late.
MutStartOf(k) == IF offset = <<>> THEN Len(stream) + 2 ELSE decodeOffset(offset) - FirstSequence

\* Mutant: a replay starts two records after the cursor.
MutStartLate(k) ==
    IF offset = <<>> THEN Len(stream) + 1 ELSE decodeOffset(offset) + 2 - FirstSequence

StartOf(k) == IF offset = <<>> THEN Len(stream) + 1 ELSE decodeOffset(offset) - FirstSequence

\* ChanSubscribe for one subject: DeliverLastPerSubject, or StartSequence.
Subscribe(k) ==
    /\ session = "opening" /\ k \in toOpen
    /\ snap' = [snap EXCEPT ![k] = Snapshot(k)]
    /\ next' = [next EXCEPT ![k] = StartOf(k)]
    /\ toOpen' = toOpen \ {k}
    /\ session' = IF toOpen' = {} THEN "open" ELSE "opening"
    /\ owed' = IF offset = <<>>
                 THEN [owed EXCEPT ![k] = [from |-> Len(stream) + 1, snap |-> LastPerSubject(k)]]
                 ELSE owed
    /\ UNCHANGED <<stream, types, offset, msgCh, received, cursor, picture, seen,
                   lost, sessions>>

\* What consumer k has still to push after its snapshot.
Rest(k) == IF next[k] = 0 THEN {} ELSE {n \in OfKind(k) : n >= next[k]}

NextOf(k) == Min(IF snap[k] # {} THEN snap[k] ELSE Rest(k))

Capacity == ChanSize * Cardinality(Subjects)

\* Consumer k pushes its next record into the channel, if there is room.
Push(k) ==
    /\ session # "closed"
    /\ snap[k] \cup Rest(k) # {}
    /\ LET n == NextOf(k)
       IN /\ snap' = [snap EXCEPT ![k] = @ \ {n}]
          /\ next' = IF n \in snap[k] THEN next ELSE [next EXCEPT ![k] = n + 1]
          /\ IF Len(msgCh) < Capacity
               THEN msgCh' = Append(msgCh, n) /\ UNCHANGED lost
               ELSE lost' = lost \cup {n} /\ UNCHANGED msgCh
    /\ UNCHANGED <<stream, session, types, offset, toOpen, received, cursor,
                   picture, seen, owed, sessions>>

\* Mutant: the newest message of the channel is delivered first.
MutDeliverNewest ==
    /\ session = "open" /\ msgCh # <<>>
    /\ LET n == msgCh[Len(msgCh)]
       IN /\ received' = Append(received, n) /\ cursor' = encodeOffset(FirstSequence + n)
          /\ picture' = [picture EXCEPT ![SubjectOf(n)] = n] /\ seen' = seen \cup {n}
    /\ msgCh' = SubSeq(msgCh, 1, Len(msgCh) - 1)
    /\ UNCHANGED <<stream, session, types, offset, toOpen, snap, next, owed, lost, sessions>>

\* Mutant: a message that is not beyond the cursor is taken for a repetition.
MutDeliverBeyond ==
    /\ session = "open" /\ msgCh # <<>>
    /\ LET n == Head(msgCh)
       IN IF n + FirstSequence > decodeOffset(cursor)
            THEN /\ received' = Append(received, n) /\ cursor' = encodeOffset(FirstSequence + n)
                 /\ picture' = [picture EXCEPT ![SubjectOf(n)] = n] /\ seen' = seen \cup {n}
            ELSE UNCHANGED <<received, cursor, picture, seen>>
    /\ msgCh' = Tail(msgCh)
    /\ UNCHANGED <<stream, session, types, offset, toOpen, snap, next, owed, lost, sessions>>

\* Watch takes the next message and delivers it, with its offset.
Deliver ==
    /\ session = "open" /\ msgCh # <<>>
    /\ received' = Append(received, Head(msgCh))
    /\ cursor' = encodeOffset(FirstSequence + Head(msgCh))
    /\ picture' = [picture EXCEPT ![SubjectOf(Head(msgCh))] = Head(msgCh)]
    /\ seen' = seen \cup {Head(msgCh)}
    /\ msgCh' = Tail(msgCh)
    /\ UNCHANGED <<stream, session, types, offset, toOpen, snap, next, owed, lost, sessions>>

\* The client goes away, deliver fails, or a subscription does: Watch
\* unsubscribes from everything and returns.
Close ==
    /\ session # "closed"
    /\ session' = "closed"
    /\ toOpen' = {} /\ msgCh' = <<>> /\ received' = <<>>
    /\ snap' = [k \in ChangeKinds |-> {}] /\ next' = [k \in ChangeKinds |-> 0]
    /\ UNCHANGED <<stream, types, offset, cursor, picture, seen, owed, lost, sessions>>

Next ==
    \/ \E k \in ChangeKinds, a \in Actors : Publish(k, a)
    \/ Open \/ OpenRefused \/ Deliver \/ Close
    \/ \E k \in ChangeKinds : Subscribe(k) \/ Push(k)

Spec == Init /\ [][Next]_vars

\* The consumers push and Watch delivers; nothing makes a client come, stay
\* or leave, or the repository publish.
FairSpec ==
    /\ Spec
    /\ \A k \in ChangeKinds : WF_vars(Subscribe(k)) /\ WF_vars(Push(k))
    /\ WF_vars(Deliver)

-----------------------------------------------------------------------------
TypeOK ==
    /\ stream \in Seq([kind : ChangeKinds, actor : Actors]) /\ Len(stream) <= MaxRecords
    /\ session \in {"closed", "opening", "open"} /\ types \in Requests
    /\ {offset, cursor} \subseteq {<<>>} \cup {encodeOffset(FirstSequence + n) : n \in Positions}
    /\ toOpen \subseteq Subjects
    /\ snap \in [ChangeKinds -> SUBSET Positions]
    /\ next \in [ChangeKinds -> 0 .. MaxRecords + 1]
    /\ msgCh \in Seq(Positions) /\ Len(msgCh) <= Capacity
    /\ received \in Seq(Positions)
    /\ picture \in [ChangeKinds \X Actors -> 0 .. MaxRecords]
    /\ seen \subseteq Positions /\ lost \subseteq Positions
    /\ owed \in [ChangeKinds -> [from : 0 .. MaxRecords + 1, snap : SUBSET Positions]]
    /\ sessions \in 0 .. MaxSessions

\* Nothing is on its way to the client.
CaughtUp ==
    session = "open" /\ msgCh = <<>> /\ \A k \in Subjects : snap[k] \cup Rest(k) = {}

\* Everything its last Watch without an offset owes the client.
Owed(k) == owed[k].snap \cup {n \in OfKind(k) : owed[k].from > 0 /\ n >= owed[k].from}

\* The events of one subject are delivered in stream order, none twice in a
\* session (repository.go:278-281).
SubjectInOrder ==
    \A i, j \in DOMAIN received :
        i < j /\ stream[received[i]].kind = stream[received[j]].kind
            => received[i] < received[j]

\* The client is caught up, its channel never overflowed, and it asked for one
\* type only or did not resume.
Settled == CaughtUp /\ lost = {} /\ (offset = <<>> \/ Cardinality(Subjects) = 1)

\* A settled client has been given the snapshot and every later record, however
\* often it went away and came back with the last offset it had received
\* (ports.go:83-90).
NothingMissed ==
    Settled => \A k \in Subjects : Owed(k) \subseteq seen

\* A settled client that keeps the last event of each subject has the latest
\* one of every actor: its picture is that of the stream now (ports.go:83-85).
PictureCurrent ==
    Settled => \A k \in Subjects : \A n \in LastPerSubject(k) : picture[SubjectOf(n)] = n

\* The same of a client of several types that resumes: it gets every event
\* since its cursor, without gaps (ports.go:86-90).
ResumeMissesNothing ==
    CaughtUp /\ lost = {} => \A k \in Subjects : Owed(k) \subseteq seen

\* A client that stays is given every record of its subjects.
EventuallyCaughtUp ==
    \A n \in Positions :
        (session = "open" /\ n \in DOMAIN stream
           /\ \E k \in Subjects : n \in OfKind(k) /\ next[k] <= n /\ next[k] > 0)
          ~> (n \in seen \/ n \in lost \/ session = "closed")
=============================================================================

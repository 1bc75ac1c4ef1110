---------------------------- MODULE Watch_proofs ----------------------------
(***************************************************************************)
(* Proofs about Watch, for any actors, requests, channel size and number   *)
(* of records and sessions: the order of what a client receives, and that  *)
(* snapshot, live part and resumption meet without a gap.                  *)
(***************************************************************************)
EXTENDS Watch, FiniteSetTheorems, SequenceTheorems, WellFoundedInduction, TLAPS

\* The position an offset stands for.
Pos(o) == decodeOffset(o) - FirstSequence

\* Where everything is: a consumer exists for the subjects subscribed to in
\* this session, and nothing is left of earlier ones.
Shape ==
    /\ \A k \in ChangeKinds :
         /\ snap[k] \subseteq OfKind(k) /\ next[k] <= Len(stream) + 1
         /\ owed[k].snap \subseteq OfKind(k) /\ owed[k].from <= Len(stream) + 1
         /\ session = "closed" \/ k \in toOpen \/ k \notin Subjects => snap[k] = {} /\ next[k] = 0
    /\ \A i \in DOMAIN received : received[i] \in DOMAIN stream
    /\ \A i \in DOMAIN msgCh : msgCh[i] \in DOMAIN stream
    /\ \A n \in seen : n \in DOMAIN stream /\ stream[n].kind \in Subjects
    /\ session # "closed" => \A k \in Subjects \ toOpen : next[k] >= 1
    /\ session = "closed" => msgCh = <<>> /\ received = <<>> /\ toOpen = {}
    /\ session = "open" => toOpen = {}

\* What the client may resume from.
Cursors ==
    /\ session = "opening" => offset = cursor
    /\ cursor = <<>> => seen = {} /\ offset = <<>> /\ \A s \in ChangeKinds \X Actors : picture[s] = 0
    /\ cursor # <<>> => Pos(cursor) \in DOMAIN stream
    /\ offset # <<>> => Pos(offset) \in DOMAIN stream

\* A record that was pushed comes before everything its consumer has still to push.
Behind(n) == n < next[stream[n].kind] /\ \A m \in snap[stream[n].kind] : n < m
SameKind(m, n) == stream[m].kind = stream[n].kind

Order ==
    /\ SubjectInOrder
    /\ \A i \in DOMAIN received, j \in DOMAIN msgCh :
         SameKind(received[i], msgCh[j]) => received[i] < msgCh[j]
    /\ \A i, j \in DOMAIN msgCh : i < j /\ SameKind(msgCh[i], msgCh[j]) => msgCh[i] < msgCh[j]
    /\ \A i \in DOMAIN received : Behind(received[i])
    /\ \A i \in DOMAIN msgCh : Behind(msgCh[i])
    /\ \A k \in ChangeKinds : \A m \in snap[k] : m < next[k]

SInv == TypeOK /\ Shape /\ Cursors /\ Order

-----------------------------------------------------------------------------
\* The client asked for one subject only; it did, or never resumed.
Single == Cardinality(Subjects) = 1
Straight == (IF session = "closed" THEN cursor ELSE offset) = <<>> \/ Single

\* The picture is the latest record seen of each subject, and nothing older is
\* on its way.
Pictured ==
    Straight => \A s \in ChangeKinds \X Actors :
        /\ picture[s] = 0 \/ (picture[s] \in seen /\ SubjectOf(picture[s]) = s)
        /\ \A m \in seen : SubjectOf(m) = s => m <= picture[s]

NothingOlder ==
    Straight /\ session # "closed" =>
        \A m \in seen : stream[m].kind \notin toOpen =>
            /\ m <= next[stream[m].kind]
            /\ \A x \in snap[stream[m].kind] : m <= x
            /\ \A i \in DOMAIN msgCh : SameKind(m, msgCh[i]) => m <= msgCh[i]

UpToCursor == Single /\ cursor # <<>> => \A m \in seen : m <= Pos(cursor)

\* What is owed covers the last record of every actor, now.
OwedIsCurrent ==
    \A k \in Subjects :
        cursor # <<>> \/ (session # "closed" /\ k \notin toOpen) =>
            owed[k].from > 0 /\ LastPerSubject(k) \subseteq Owed(k)

\* What is owed was seen or is on its way, and a client that leaves has seen
\* all of it up to its cursor.
OnItsWay ==
    lost = {} /\ Straight /\ session # "closed" =>
        \A k \in Subjects \ toOpen : \A n \in Owed(k) :
            \/ n \in seen \cup snap[k] \cup Rest(k)
            \/ \E i \in DOMAIN msgCh : msgCh[i] = n

Resumable ==
    lost = {} /\ Single /\ cursor # <<>> =>
        \A k \in Subjects : \A n \in Owed(k) : n < Pos(cursor) => n \in seen

WInv == SInv /\ Pictured /\ NothingOlder /\ UpToCursor /\ OwedIsCurrent /\ OnItsWay /\ Resumable

-----------------------------------------------------------------------------
\* The least of a nonempty set of naturals is what Min returns.
LEMMA NatMin ==
    ASSUME NEW T \in SUBSET Nat, T # {}
    PROVE  Min(T) \in T /\ \A y \in T : Min(T) <= y
<1> DEFINE R == OpToRel(<, Nat)
<1>1. IsWellFoundedOn(R, Nat)
  BY NatLessThanWellFounded
<1>2. \A x, y \in Nat : x < y => <<x, y>> \in R
  BY DEF OpToRel
<1> HIDE DEF R
<1>3. \E x \in T : \A y \in T : ~ (<<y, x>> \in R)
  BY <1>1, WFMin
<1>4. PICK x \in T : \A y \in T : ~ (<<y, x>> \in R)
  BY <1>3
<1>5. ASSUME NEW y \in T PROVE x <= y
  <2>1. x \in Nat /\ y \in Nat /\ ~(y < x)
    BY <1>2, <1>4
  <2>2. QED
    BY <2>1
<1>6. QED
  BY <1>5 DEF Min

\* Queues, index by index.
LEMMA Appended ==
    ASSUME NEW S, NEW q \in Seq(S), NEW x \in S
    PROVE  /\ Append(q, x) \in Seq(S) /\ Len(Append(q, x)) = Len(q) + 1 /\ Len(q) \in Nat
           /\ DOMAIN q = 1 .. Len(q) /\ DOMAIN Append(q, x) = DOMAIN q \cup {Len(q) + 1}
           /\ \A i \in DOMAIN q : Append(q, x)[i] = q[i] /\ i \in Nat /\ i < Len(q) + 1
           /\ Append(q, x)[Len(q) + 1] = x
OBVIOUS

LEMMA Taken ==
    ASSUME NEW S, NEW q \in Seq(S), q # <<>>
    PROVE  /\ Len(q) \in Nat /\ 1 \in DOMAIN q /\ Head(q) = q[1] /\ Head(q) \in S
           /\ Tail(q) \in Seq(S) /\ Len(Tail(q)) = Len(q) - 1
           /\ \A i \in DOMAIN Tail(q) :
                Tail(q)[i] = q[i + 1] /\ i \in Nat /\ i + 1 \in DOMAIN q /\ 1 < i + 1
           /\ \A i \in DOMAIN q : i = 1 \/ (i - 1 \in DOMAIN Tail(q) /\ Tail(q)[i - 1] = q[i])
<1>1. Len(q) \in Nat /\ DOMAIN q = 1 .. Len(q) /\ Len(q) # 0
  OBVIOUS
<1>2. /\ Tail(q) \in Seq(S) /\ Len(Tail(q)) = Len(q) - 1 /\ DOMAIN Tail(q) = 1 .. Len(q) - 1
      /\ \A i \in 1 .. Len(q) - 1 : Tail(q)[i] = q[i + 1]
  BY <1>1
<1>3. Head(q) = q[1] /\ 1 \in DOMAIN q
  BY <1>1
<1>4. \A i \in 1 .. Len(q) - 1 : i \in Nat /\ i + 1 \in 1 .. Len(q) /\ 1 < i + 1
  BY <1>1
<1>5. \A i \in 1 .. Len(q) : i = 1 \/ (i - 1 \in 1 .. Len(q) - 1 /\ (i - 1) + 1 = i)
  BY <1>1
<1>6. q[1] \in S
  BY <1>3
<1>7. QED
  BY <1>1, <1>2, <1>3, <1>4, <1>5, <1>6

-----------------------------------------------------------------------------
Entry == [kind : ChangeKinds, actor : Actors]

\* What the invariant says of single values.
LEMMA Plain ==
    ASSUME SInv
    PROVE  /\ stream \in Seq(Entry) /\ Len(stream) \in Nat /\ MaxRecords \in Nat /\ Len(stream) <= MaxRecords
           /\ DOMAIN stream = 1 .. Len(stream)
           /\ \A n \in DOMAIN stream : /\ n \in Positions /\ n \in Nat /\ n >= 1 /\ n <= Len(stream)
                                       /\ stream[n].kind \in ChangeKinds /\ stream[n].actor \in Actors
           /\ next \in [ChangeKinds -> 0 .. MaxRecords + 1] /\ \A k \in ChangeKinds : next[k] \in Nat
           /\ snap \in [ChangeKinds -> SUBSET Positions]
           /\ msgCh \in Seq(Positions) /\ received \in Seq(Positions)
           /\ FirstSequence \in Nat /\ Subjects \subseteq ChangeKinds
<1>1. /\ stream \in Seq(Entry) /\ Len(stream) <= MaxRecords
      /\ next \in [ChangeKinds -> 0 .. MaxRecords + 1] /\ snap \in [ChangeKinds -> SUBSET Positions]
      /\ msgCh \in Seq(Positions) /\ received \in Seq(Positions)
  BY DEF SInv, TypeOK, Entry
<1>2. MaxRecords \in Nat /\ FirstSequence \in Nat
  BY WatchAssumption
<1>3. Subjects \subseteq ChangeKinds
  BY DEF Subjects, watchSubjects
<1>4. Len(stream) \in Nat /\ DOMAIN stream = 1 .. Len(stream)
  BY <1>1
<1>5. \A n \in DOMAIN stream : stream[n].kind \in ChangeKinds /\ stream[n].actor \in Actors
  <2>1. \A n \in DOMAIN stream : stream[n] \in Entry
    BY <1>1, <1>4
  <2>2. \A e \in Entry : e.kind \in ChangeKinds /\ e.actor \in Actors
    BY DEF Entry
  <2>3. QED
    BY <2>1, <2>2
<1>6. \A n \in 1 .. Len(stream) : n \in Positions /\ n \in Nat /\ n >= 1 /\ n <= Len(stream)
  BY <1>1, <1>2, <1>4 DEF Positions
<1>7. \A k \in ChangeKinds : next[k] \in Nat
  BY <1>1, <1>2
<1>8. QED
  BY <1>1, <1>2, <1>3, <1>4, <1>5, <1>6, <1>7

\* The capacity of the channel is a natural number.
LEMMA CapacityType == Capacity \in Nat
<1>1. Subjects \subseteq ChangeKinds
  BY DEF Subjects, watchSubjects
<1>2. IsFiniteSet({"zone"}) /\ IsFiniteSet({"zone", "presence"}) /\ IsFiniteSet(ChangeKinds)
  <2>1. IsFiniteSet({"zone"})
    BY FS_Singleton
  <2>2. IsFiniteSet({"zone"} \cup {"presence"})
    BY <2>1, FS_AddElement
  <2>3. {"zone", "presence"} = {"zone"} \cup {"presence"}
    OBVIOUS
  <2>4. IsFiniteSet({"zone", "presence"} \cup {"command"})
    BY <2>2, <2>3, FS_AddElement
  <2>5. ChangeKinds = {"zone", "presence"} \cup {"command"}
    BY DEF ChangeKinds
  <2>6. QED
    BY <2>1, <2>2, <2>3, <2>4, <2>5
<1>3. Cardinality(Subjects) \in Nat
  BY <1>1, <1>2, FS_Subset, FS_CardinalityType
<1>4. ChanSize \in Nat
  BY WatchAssumption
<1>5. QED
  BY <1>3, <1>4 DEF Capacity

LEMMA SInit == Init => SInv
<1> SUFFICES ASSUME Init PROVE SInv
  OBVIOUS
<1>1. /\ DOMAIN stream = {} /\ Len(stream) = 0 /\ DOMAIN received = {} /\ DOMAIN msgCh = {} /\ Len(msgCh) = 0
      /\ stream \in Seq([kind : ChangeKinds, actor : Actors])
      /\ received \in Seq(Positions) /\ msgCh \in Seq(Positions)
  BY DEF Init
<1>2. /\ MaxRecords \in Nat /\ MaxSessions \in Nat /\ Capacity \in Nat
  BY WatchAssumption, CapacityType
<1>3. TypeOK
  <2>1. /\ Len(stream) <= MaxRecords /\ Len(msgCh) <= Capacity /\ sessions \in 0 .. MaxSessions
        /\ next \in [ChangeKinds -> 0 .. MaxRecords + 1] /\ picture \in [ChangeKinds \X Actors -> 0 .. MaxRecords]
    BY <1>1, <1>2 DEF Init
  <2>2. owed \in [ChangeKinds -> [from : 0 .. MaxRecords + 1, snap : SUBSET Positions]]
    BY <1>2 DEF Init
  <2>3. QED
    BY <1>1, <2>1, <2>2 DEF Init, TypeOK
<1>4. Shape
  BY <1>1 DEF Init, Shape
<1>5. Cursors
  BY DEF Init, Cursors
<1>6. Order
  BY <1>1 DEF Init, Order, SubjectInOrder
<1>7. QED
  BY <1>3, <1>4, <1>5, <1>6 DEF SInv

-----------------------------------------------------------------------------
\* A record is added to the stream: those before it stay where they are.
LEMMA StreamGrows ==
    ASSUME SInv, NEW k \in ChangeKinds, NEW a \in Actors, Publish(k, a)
    PROVE  /\ stream' \in Seq(Entry) /\ Len(stream') = Len(stream) + 1 /\ Len(stream') <= MaxRecords
           /\ DOMAIN stream' = DOMAIN stream \cup {Len(stream) + 1}
           /\ \A n \in DOMAIN stream : stream'[n] = stream[n]
           /\ stream'[Len(stream) + 1].kind = k /\ stream'[Len(stream) + 1].actor = a
           /\ \A l \in ChangeKinds : OfKind(l) \subseteq OfKind(l)'
                                     /\ OfKind(l)' \subseteq OfKind(l) \cup {Len(stream) + 1}
           /\ UNCHANGED <<session, types, offset, toOpen, snap, next, msgCh, received,
                          cursor, picture, seen, owed, lost, sessions>>
           /\ Subjects' = Subjects
<1> DEFINE e == [kind |-> k, actor |-> a]
<1>1. e \in Entry /\ e.kind = k /\ e.actor = a
  BY DEF Entry
<1>2. stream' = Append(stream, e) /\ Len(stream) < MaxRecords
  BY DEF Publish
<1>3. stream \in Seq(Entry) /\ Len(stream) \in Nat /\ MaxRecords \in Nat
  BY Plain
<1> HIDE DEF e
<1>4. /\ stream' \in Seq(Entry) /\ Len(stream') = Len(stream) + 1
      /\ DOMAIN stream' = DOMAIN stream \cup {Len(stream) + 1}
      /\ \A n \in DOMAIN stream : stream'[n] = stream[n]
      /\ stream'[Len(stream) + 1] = e
  BY <1>1, <1>2, <1>3, Appended
<1>5. Len(stream') <= MaxRecords
  BY <1>2, <1>3, <1>4
<1>6. \A l \in ChangeKinds : OfKind(l) \subseteq OfKind(l)'
                             /\ OfKind(l)' \subseteq OfKind(l) \cup {Len(stream) + 1}
  BY <1>4 DEF OfKind
<1>7. /\ UNCHANGED <<session, types, offset, toOpen, snap, next, msgCh, received,
                     cursor, picture, seen, owed, lost, sessions>>
      /\ Subjects' = Subjects
  BY DEF Publish, Subjects
<1>8. QED
  BY <1>1, <1>4, <1>5, <1>6, <1>7

LEMMA PublishS ==
    ASSUME SInv, NEW k \in ChangeKinds, NEW a \in Actors, Publish(k, a)
    PROVE  SInv'
<1>1. /\ stream' \in Seq(Entry) /\ Len(stream') = Len(stream) + 1 /\ Len(stream') <= MaxRecords
      /\ DOMAIN stream' = DOMAIN stream \cup {Len(stream) + 1}
      /\ \A n \in DOMAIN stream : stream'[n] = stream[n]
      /\ \A l \in ChangeKinds : OfKind(l) \subseteq OfKind(l)'
      /\ UNCHANGED <<session, types, offset, toOpen, snap, next, msgCh, received,
                     cursor, picture, seen, owed, lost, sessions>>
      /\ Subjects' = Subjects
  BY StreamGrows
<1>2. /\ Len(stream) \in Nat /\ \A l \in ChangeKinds : next[l] \in Nat
      /\ MaxRecords \in Nat
  BY Plain
<1>3. TypeOK'
  <2>1. Capacity' = Capacity
    BY <1>1 DEF Capacity
  <2>2. QED
    BY <1>1, <2>1 DEF SInv, TypeOK, Entry
<1>4. Shape'
  <2>1. ASSUME NEW l \in ChangeKinds
        PROVE  /\ snap'[l] \subseteq OfKind(l)' /\ next'[l] <= Len(stream') + 1
               /\ owed'[l].snap \subseteq OfKind(l)' /\ owed'[l].from <= Len(stream') + 1
    <3>1. /\ snap[l] \subseteq OfKind(l) /\ next[l] <= Len(stream) + 1
          /\ owed[l].snap \subseteq OfKind(l) /\ owed[l].from <= Len(stream) + 1
      BY DEF SInv, Shape
    <3>2. owed[l].from \in Nat
      BY <1>2 DEF SInv, TypeOK
    <3>3. QED
      BY <1>1, <1>2, <3>1, <3>2
  <2>2. \A n \in seen' : n \in DOMAIN stream' /\ stream'[n].kind \in Subjects'
    BY <1>1 DEF SInv, Shape
  <2>3. QED
    BY <1>1, <2>1, <2>2 DEF SInv, Shape
<1>5. Cursors'
  BY <1>1 DEF SInv, Cursors, Pos
<1>6. Order'
  <2>1. /\ \A i \in DOMAIN received : stream'[received[i]] = stream[received[i]]
        /\ \A i \in DOMAIN msgCh : stream'[msgCh[i]] = stream[msgCh[i]]
    BY <1>1 DEF SInv, Shape
  <2>2. SubjectInOrder'
    BY <1>1, <2>1 DEF SInv, Order, SubjectInOrder
  <2>3. \A i \in DOMAIN received', j \in DOMAIN msgCh' :
          SameKind(received[i], msgCh[j])' => received'[i] < msgCh'[j]
    BY <1>1, <2>1 DEF SInv, Order, SameKind
  <2>4. \A i, j \in DOMAIN msgCh' : i < j /\ SameKind(msgCh[i], msgCh[j])' => msgCh'[i] < msgCh'[j]
    BY <1>1, <2>1 DEF SInv, Order, SameKind
  <2>5. \A i \in DOMAIN received' : Behind(received[i])'
    BY <1>1, <2>1 DEF SInv, Order, Behind
  <2>6. \A i \in DOMAIN msgCh' : Behind(msgCh[i])'
    BY <1>1, <2>1 DEF SInv, Order, Behind
  <2>7. QED
    BY <1>1, <2>2, <2>3, <2>4, <2>5, <2>6 DEF SInv, Order
<1>7. QED
  BY <1>3, <1>4, <1>5, <1>6 DEF SInv

\* The session begins and ends with nothing under way.
LEMMA OpenS ==
    ASSUME SInv, Open \/ OpenRefused \/ Close
    PROVE  SInv'
<1>1. UNCHANGED <<stream, types, cursor, picture, seen, owed>> /\ Subjects' = Subjects
  BY DEF Open, OpenRefused, Close, Subjects
<1>2. /\ sessions \in 0 .. MaxSessions /\ MaxSessions \in Nat /\ MaxRecords \in Nat
      /\ Capacity' = Capacity /\ Capacity \in Nat
  BY <1>1, WatchAssumption, CapacityType DEF SInv, TypeOK, Capacity
<1>3. sessions' \in 0 .. MaxSessions
  BY <1>2 DEF Open, OpenRefused, Close
<1>4. CASE OpenRefused
  <2>1. UNCHANGED <<stream, session, types, offset, toOpen, snap, next, msgCh, received,
                    cursor, picture, seen, owed, lost>>
    BY <1>4 DEF OpenRefused
  <2>2. TypeOK'
    BY <1>1, <1>2, <1>3, <2>1 DEF SInv, TypeOK
  <2>3. Shape' /\ Cursors' /\ Order'
    BY <1>1, <2>1 DEF SInv, Shape, Cursors, Order, SubjectInOrder, SameKind, Behind, OfKind
  <2>4. QED
    BY <2>2, <2>3 DEF SInv
<1>5. CASE Open \/ Close
  <2>1. /\ snap' = [k \in ChangeKinds |-> {}] /\ next' = [k \in ChangeKinds |-> 0]
        /\ msgCh' = <<>> /\ received' = <<>>
        /\ session' \in {"closed", "opening"} /\ toOpen' \subseteq Subjects
        /\ offset' \in {offset, cursor} /\ lost' \in {lost, {}}
        /\ session' = "opening" => offset' = cursor /\ toOpen' = Subjects
        /\ session' = "closed" => toOpen' = {} /\ offset' = offset
    BY <1>5 DEF Open, Close, OffsetToUse
  <2>2. DOMAIN msgCh' = {} /\ DOMAIN received' = {} /\ Len(msgCh') = 0
        /\ msgCh' \in Seq(Positions) /\ received' \in Seq(Positions)
    BY <2>1
  <2>3. TypeOK'
    <3>1. next' \in [ChangeKinds -> 0 .. MaxRecords + 1] /\ snap' \in [ChangeKinds -> SUBSET Positions]
      BY <1>2, <2>1
    <3>2. Len(msgCh') <= Capacity'
      BY <1>2, <2>2
    <3>3. QED
      BY <1>1, <1>3, <2>1, <2>2, <3>1, <3>2 DEF SInv, TypeOK
  <2>4. Shape'
    <3>1. ASSUME NEW k \in ChangeKinds
          PROVE  /\ snap'[k] \subseteq OfKind(k)' /\ next'[k] <= Len(stream') + 1
                 /\ owed'[k].snap \subseteq OfKind(k)' /\ owed'[k].from <= Len(stream') + 1
                 /\ snap'[k] = {} /\ next'[k] = 0
      <4>1. OfKind(k)' = OfKind(k) /\ Len(stream) \in Nat
        BY <1>1, Plain DEF OfKind
      <4>2. QED
        BY <1>1, <2>1, <4>1 DEF SInv, Shape
    <3>2. \A n \in seen' : n \in DOMAIN stream' /\ stream'[n].kind \in Subjects'
      BY <1>1 DEF SInv, Shape
    <3>3. session' # "closed" => Subjects' \ toOpen' = {}
      BY <1>1, <2>1
    <3>4. QED
      BY <2>1, <2>2, <3>1, <3>2, <3>3 DEF Shape
  <2>5. Cursors'
    BY <1>1, <2>1 DEF SInv, Cursors, Pos
  <2>6. Order'
    BY <2>1, <2>2 DEF Order, SubjectInOrder
  <2>7. QED
    BY <2>3, <2>4, <2>5, <2>6 DEF SInv
<1>6. QED
  BY <1>4, <1>5

\* A consumer begins before the end of the stream, and has pushed nothing yet.
LEMMA SubscribeS ==
    ASSUME SInv, NEW k \in ChangeKinds, Subscribe(k)
    PROVE  SInv'
<1>1. /\ session = "opening" /\ k \in toOpen /\ toOpen' = toOpen \ {k}
      /\ snap' = [snap EXCEPT ![k] = Snapshot(k)] /\ next' = [next EXCEPT ![k] = StartOf(k)]
      /\ session' = (IF toOpen' = {} THEN "open" ELSE "opening")
      /\ UNCHANGED <<stream, types, offset, msgCh, received, cursor, picture, seen, lost, sessions>>
      /\ Subjects' = Subjects /\ Capacity' = Capacity
  BY DEF Subscribe, Subjects, Capacity
<1>2. /\ Len(stream) \in Nat /\ MaxRecords \in Nat /\ Len(stream) <= MaxRecords
      /\ DOMAIN stream = 1 .. Len(stream) /\ \A n \in DOMAIN stream : n \in Positions /\ n \in Nat
      /\ next \in [ChangeKinds -> 0 .. MaxRecords + 1] /\ \A l \in ChangeKinds : next[l] \in Nat
      /\ snap \in [ChangeKinds -> SUBSET Positions]
  BY Plain
<1>3. \A l \in ChangeKinds : LastPerSubject(l) \subseteq OfKind(l) /\ OfKind(l) \subseteq DOMAIN stream
  BY DEF LastPerSubject, OfKind
<1>4. StartOf(k) \in 1 .. Len(stream) + 1 /\ Snapshot(k) \subseteq OfKind(k)
      /\ \A m \in Snapshot(k) : m < StartOf(k)
  <2>1. CASE offset = <<>>
    <3>1. StartOf(k) = Len(stream) + 1 /\ Snapshot(k) = LastPerSubject(k)
      BY <2>1 DEF StartOf, Snapshot
    <3>2. \A m \in DOMAIN stream : m < Len(stream) + 1
      BY <1>2
    <3>3. Len(stream) + 1 \in 1 .. Len(stream) + 1
      BY <1>2
    <3>4. QED
      BY <1>3, <3>1, <3>2, <3>3
  <2>2. CASE offset # <<>>
    <3>1. Pos(offset) \in DOMAIN stream /\ StartOf(k) = Pos(offset) /\ Snapshot(k) = {}
      BY <2>2 DEF SInv, Cursors, StartOf, Pos, Snapshot
    <3>2. \A m \in 1 .. Len(stream) : m \in 1 .. Len(stream) + 1
      BY <1>2
    <3>3. QED
      BY <1>2, <3>1, <3>2
  <2>3. QED
    BY <2>1, <2>2
<1>5. \A l \in ChangeKinds : OfKind(l)' = OfKind(l) /\ LastPerSubject(l)' = LastPerSubject(l)
  BY <1>1 DEF OfKind, LastPerSubject
<1>6. /\ snap'[k] = Snapshot(k) /\ next'[k] = StartOf(k)
      /\ \A l \in ChangeKinds \ {k} : snap'[l] = snap[l] /\ next'[l] = next[l]
  BY <1>1, <1>2
<1>7. /\ owed' \in [ChangeKinds -> [from : 0 .. MaxRecords + 1, snap : SUBSET Positions]]
      /\ \A l \in ChangeKinds : owed'[l].snap \subseteq OfKind(l) /\ owed'[l].from <= Len(stream) + 1
  <2>1. owed \in [ChangeKinds -> [from : 0 .. MaxRecords + 1, snap : SUBSET Positions]]
    BY DEF SInv, TypeOK
  <2>2. \A l \in ChangeKinds : owed[l].snap \subseteq OfKind(l) /\ owed[l].from <= Len(stream) + 1
    BY DEF SInv, Shape
  <2>3. CASE offset # <<>>
    BY <2>1, <2>2, <2>3 DEF Subscribe
  <2>4. CASE offset = <<>>
    <3> DEFINE o == [from |-> Len(stream) + 1, snap |-> LastPerSubject(k)]
    <3>1. /\ o \in [from : 0 .. MaxRecords + 1, snap : SUBSET Positions]
          /\ o.snap \subseteq OfKind(k) /\ o.from <= Len(stream) + 1
      <4>1. Len(stream) + 1 \in 0 .. MaxRecords + 1 /\ Len(stream) + 1 <= Len(stream) + 1
        BY <1>2
      <4>2. LastPerSubject(k) \in SUBSET Positions
        BY <1>2, <1>3
      <4>3. QED
        BY <1>3, <4>1, <4>2
    <3>2. owed' = [owed EXCEPT ![k] = o]
      BY <2>4 DEF Subscribe
    <3> HIDE DEF o
    <3>3. QED
      BY <2>1, <2>2, <3>1, <3>2
  <2>5. QED
    BY <2>3, <2>4
<1>8. TypeOK'
  <2>1. next' \in [ChangeKinds -> 0 .. MaxRecords + 1]
    <3>1. \A n \in 1 .. Len(stream) + 1 : n \in 0 .. MaxRecords + 1
      BY <1>2
    <3>2. QED
      BY <1>1, <1>2, <1>4, <3>1
  <2>2. snap' \in [ChangeKinds -> SUBSET Positions]
    <3>1. Snapshot(k) \in SUBSET Positions
      BY <1>2, <1>3, <1>4
    <3>2. QED
      BY <1>1, <1>2, <3>1
  <2>3. QED
    BY <1>1, <1>7, <2>1, <2>2 DEF SInv, TypeOK
<1>9. Shape'
  <2>1. ASSUME NEW l \in ChangeKinds
        PROVE  /\ snap'[l] \subseteq OfKind(l)' /\ next'[l] <= Len(stream') + 1
               /\ owed'[l].snap \subseteq OfKind(l)' /\ owed'[l].from <= Len(stream') + 1
               /\ session' = "closed" \/ l \in toOpen' \/ l \notin Subjects' => snap'[l] = {} /\ next'[l] = 0
    <3>1. /\ snap[l] \subseteq OfKind(l) /\ next[l] <= Len(stream) + 1
          /\ l \in toOpen \/ l \notin Subjects => snap[l] = {} /\ next[l] = 0
      BY DEF SInv, Shape
    <3>2. CASE l = k
      <4>1. k \in Subjects /\ session' # "closed" /\ k \notin toOpen'
        BY <1>1 DEF SInv, TypeOK
      <4>2. next'[k] <= Len(stream) + 1
        BY <1>2, <1>4, <1>6
      <4>3. QED
        BY <1>1, <1>4, <1>5, <1>6, <1>7, <3>2, <4>1, <4>2
    <3>3. CASE l # k
      BY <1>1, <1>5, <1>6, <1>7, <3>1, <3>3
    <3>4. QED
      BY <3>2, <3>3
  <2>2. \A l \in Subjects' \ toOpen' : next'[l] >= 1
    <3>1. \A l \in Subjects \ toOpen : next[l] >= 1
      BY <1>1 DEF SInv, Shape
    <3>2. next'[k] >= 1
      BY <1>2, <1>4, <1>6
    <3>3. QED
      BY <1>1, <1>6, <3>1, <3>2, Plain
  <2>3. QED
    BY <1>1, <2>1, <2>2 DEF SInv, Shape
<1>10. Cursors'
  BY <1>1 DEF SInv, Cursors, Pos
<1>11. Order'
  <2>1. next[k] = 0
    BY <1>1 DEF SInv, Shape
  <2>2. \A n \in DOMAIN stream : Behind(n) => stream[n].kind # k /\ Behind(n)'
    <3> SUFFICES ASSUME NEW n \in DOMAIN stream, Behind(n)
                 PROVE  stream[n].kind # k /\ Behind(n)'
      OBVIOUS
    <3>1. stream[n].kind # k
      BY <1>2, <2>1 DEF Behind
    <3>2. stream[n].kind \in ChangeKinds
      BY Plain
    <3>3. QED
      BY <1>1, <1>6, <3>1, <3>2 DEF Behind
  <2>3. \A l \in ChangeKinds : \A m \in snap'[l] : m < next'[l]
    BY <1>4, <1>6 DEF SInv, Order
  <2>4. QED
    BY <1>1, <2>2, <2>3 DEF SInv, Shape, Order, SubjectInOrder, SameKind
<1>12. QED
  BY <1>8, <1>9, <1>10, <1>11 DEF SInv

-----------------------------------------------------------------------------
\* What consumer k pushes next: the first of its snapshot, and after that the
\* first record of its subject from where it is.
LEMMA NextOfFirst ==
    ASSUME SInv, NEW k \in ChangeKinds, snap[k] \cup Rest(k) # {}
    PROVE  /\ NextOf(k) \in OfKind(k) /\ NextOf(k) \in DOMAIN stream /\ stream[NextOf(k)].kind = k
           /\ k \in Subjects /\ k \notin toOpen /\ session # "closed"
           /\ \/ NextOf(k) \in snap[k] /\ \A m \in snap[k] : NextOf(k) <= m
              \/ /\ snap[k] = {} /\ NextOf(k) \in Rest(k) /\ NextOf(k) >= next[k]
                 /\ \A m \in Rest(k) : NextOf(k) <= m
<1>1. Rest(k) \subseteq OfKind(k) /\ \A n \in Rest(k) : n >= next[k]
  BY DEF Rest
<1>2. /\ snap[k] \subseteq OfKind(k)
      /\ session = "closed" \/ k \in toOpen \/ k \notin Subjects => snap[k] = {} /\ next[k] = 0
  BY DEF SInv, Shape
<1>3. \A n \in OfKind(k) : n \in DOMAIN stream /\ stream[n].kind = k /\ n \in Nat
  BY Plain DEF OfKind
<1>4. k \in Subjects /\ k \notin toOpen /\ session # "closed"
  BY <1>2 DEF Rest
<1>5. CASE snap[k] # {}
  <2>1. NextOf(k) = Min(snap[k])
    BY <1>5 DEF NextOf
  <2>2. snap[k] \in SUBSET Nat
    BY <1>2, <1>3
  <2>3. Min(snap[k]) \in snap[k] /\ \A m \in snap[k] : Min(snap[k]) <= m
    BY <1>5, <2>2, NatMin
  <2>4. QED
    BY <1>2, <1>3, <1>4, <2>1, <2>3
<1>6. CASE snap[k] = {}
  <2>1. NextOf(k) = Min(Rest(k))
    BY <1>6 DEF NextOf
  <2>2. Rest(k) \in SUBSET Nat /\ Rest(k) # {}
    BY <1>1, <1>3, <1>6
  <2>3. Min(Rest(k)) \in Rest(k) /\ \A m \in Rest(k) : Min(Rest(k)) <= m
    BY <2>2, NatMin
  <2>4. QED
    BY <1>1, <1>3, <1>4, <1>6, <2>1, <2>3
<1>7. QED
  BY <1>5, <1>6

\* A push, index by index: n leaves the consumer and enters the channel or is lost.
LEMMA Pushed ==
    ASSUME SInv, NEW k \in ChangeKinds, Push(k)
    PROVE  LET n == NextOf(k) IN
           /\ snap[k] \cup Rest(k) # {} /\ session # "closed"
           /\ snap'[k] = snap[k] \ {n}
           /\ next'[k] = IF n \in snap[k] THEN next[k] ELSE n + 1
           /\ \A l \in ChangeKinds \ {k} : snap'[l] = snap[l] /\ next'[l] = next[l]
           /\ \/ /\ msgCh' = Append(msgCh, n) /\ lost' = lost
                 /\ Len(msgCh) < Capacity
              \/ msgCh' = msgCh /\ lost' = lost \cup {n}
           /\ UNCHANGED <<stream, session, types, offset, toOpen, received, cursor,
                          picture, seen, owed, sessions>>
           /\ Subjects' = Subjects /\ Capacity' = Capacity
           /\ snap' \in [ChangeKinds -> SUBSET Positions] /\ next' \in [ChangeKinds -> 0 .. MaxRecords + 1]
<1> DEFINE n == NextOf(k)
<1>1. /\ snap[k] \cup Rest(k) # {} /\ session # "closed"
      /\ snap' = [snap EXCEPT ![k] = snap[k] \ {n}]
      /\ next' = IF n \in snap[k] THEN next ELSE [next EXCEPT ![k] = n + 1]
      /\ \/ msgCh' = Append(msgCh, n) /\ lost' = lost /\ Len(msgCh) < Capacity
         \/ msgCh' = msgCh /\ lost' = lost \cup {n}
      /\ UNCHANGED <<stream, session, types, offset, toOpen, received, cursor,
                     picture, seen, owed, sessions>>
      /\ Subjects' = Subjects /\ Capacity' = Capacity
  BY DEF Push, Subjects, Capacity
<1>2. /\ snap \in [ChangeKinds -> SUBSET Positions] /\ next \in [ChangeKinds -> 0 .. MaxRecords + 1]
      /\ MaxRecords \in Nat
  BY Plain
<1>3. n \in 1 .. MaxRecords
  BY <1>1, NextOfFirst, Plain DEF Positions
<1>4. n + 1 \in 0 .. MaxRecords + 1
  BY <1>2, <1>3
<1> HIDE DEF n
<1>5. /\ snap' \in [ChangeKinds -> SUBSET Positions] /\ next' \in [ChangeKinds -> 0 .. MaxRecords + 1]
  BY <1>1, <1>2, <1>4
<1>6. /\ snap'[k] = snap[k] \ {n} /\ next'[k] = (IF n \in snap[k] THEN next[k] ELSE n + 1)
      /\ \A l \in ChangeKinds \ {k} : snap'[l] = snap[l] /\ next'[l] = next[l]
  BY <1>1, <1>2
<1>7. QED
  BY <1>1, <1>5, <1>6 DEF n

\* The record that was pushed is behind its consumer, and after all the others
\* of its subject.
LEMMA PushOrder ==
    ASSUME SInv, NEW k \in ChangeKinds, Push(k)
    PROVE  LET n == NextOf(k) IN
           /\ n \in DOMAIN stream /\ stream[n].kind = k /\ k \in Subjects /\ k \notin toOpen
           /\ n < next'[k] /\ \A m \in snap'[k] : n < m
           /\ \A m \in DOMAIN stream : Behind(m) => Behind(m)' /\ (SameKind(m, n) => m < n)
           /\ \A l \in ChangeKinds : next'[l] >= next[l] /\ snap'[l] \subseteq snap[l]
<1> DEFINE n == NextOf(k)
<1>1. /\ snap'[k] = snap[k] \ {n} /\ next'[k] = (IF n \in snap[k] THEN next[k] ELSE n + 1)
      /\ \A l \in ChangeKinds \ {k} : snap'[l] = snap[l] /\ next'[l] = next[l]
      /\ stream' = stream /\ snap[k] \cup Rest(k) # {}
  BY Pushed
<1>2. /\ n \in DOMAIN stream /\ stream[n].kind = k /\ k \in Subjects /\ k \notin toOpen
      /\ \/ n \in snap[k] /\ \A m \in snap[k] : n <= m
         \/ snap[k] = {} /\ n \in Rest(k) /\ n >= next[k]
  BY <1>1, NextOfFirst
<1>3. /\ \A l \in ChangeKinds : next[l] \in Nat
      /\ \A m \in DOMAIN stream : m \in Nat /\ stream[m].kind \in ChangeKinds
      /\ \A m \in snap[k] : m \in Nat /\ m < next[k]
  <2>1. \A m \in snap[k] : m \in DOMAIN stream /\ m < next[k]
    BY DEF SInv, Shape, Order, OfKind
  <2>2. QED
    BY <2>1, Plain
<1> HIDE DEF n
<1>4. n \notin snap[k] => snap[k] = {} /\ n >= next[k]
  BY <1>2
<1>5. \A l \in ChangeKinds : next'[l] >= next[l] /\ snap'[l] \subseteq snap[l]
  BY <1>1, <1>2, <1>3, <1>4
<1>6. \A m \in snap'[k] : n < m
  BY <1>1, <1>2, <1>3
<1>7. n < next'[k]
  BY <1>1, <1>2, <1>3
<1>8. ASSUME NEW m \in DOMAIN stream, Behind(m)
      PROVE  Behind(m)' /\ (SameKind(m, n) => m < n)
  <2>1. Behind(m)'
    <3>1. next'[stream[m].kind] \in Nat
      BY <1>1, <1>2, <1>3
    <3>2. QED
      BY <1>1, <1>3, <1>5, <1>8, <3>1 DEF Behind
  <2>2. SameKind(m, n) => m < n
    BY <1>2, <1>3, <1>8 DEF SameKind, Behind
  <2>3. QED
    BY <2>1, <2>2
<1>9. QED
  BY <1>2, <1>5, <1>6, <1>7, <1>8 DEF n

LEMMA PushS ==
    ASSUME SInv, NEW k \in ChangeKinds, Push(k)
    PROVE  SInv'
<1> DEFINE n == NextOf(k)
<1>1. /\ snap'[k] = snap[k] \ {n} /\ next'[k] = (IF n \in snap[k] THEN next[k] ELSE n + 1)
      /\ \A l \in ChangeKinds \ {k} : snap'[l] = snap[l] /\ next'[l] = next[l]
      /\ \/ msgCh' = Append(msgCh, n) /\ lost' = lost /\ Len(msgCh) < Capacity
         \/ msgCh' = msgCh /\ lost' = lost \cup {n}
      /\ UNCHANGED <<stream, session, types, offset, toOpen, received, cursor,
                     picture, seen, owed, sessions>>
      /\ Subjects' = Subjects /\ Capacity' = Capacity /\ session # "closed"
      /\ snap' \in [ChangeKinds -> SUBSET Positions] /\ next' \in [ChangeKinds -> 0 .. MaxRecords + 1]
  BY Pushed
<1>2. /\ n \in DOMAIN stream /\ stream[n].kind = k /\ k \in Subjects /\ k \notin toOpen
      /\ n < next'[k] /\ (\A m \in snap'[k] : n < m)
      /\ \A m \in DOMAIN stream : Behind(m) => Behind(m)' /\ (SameKind(m, n) => m < n)
      /\ \A l \in ChangeKinds : next'[l] >= next[l] /\ snap'[l] \subseteq snap[l]
  BY PushOrder
<1>3. /\ msgCh \in Seq(Positions) /\ n \in Positions /\ Len(stream) \in Nat /\ n \in Nat /\ n <= Len(stream)
      /\ Capacity \in Nat /\ MaxRecords \in Nat /\ \A l \in ChangeKinds : next[l] \in Nat /\ next'[l] \in Nat
  <2>1. \A l \in ChangeKinds : next'[l] \in 0 .. MaxRecords + 1
    BY <1>1
  <2>2. QED
    BY <1>2, <2>1, Plain, CapacityType
<1> HIDE DEF n
<1>4. /\ msgCh' \in Seq(Positions) /\ Len(msgCh') <= Capacity
      /\ \A i \in DOMAIN msgCh' :
           \/ i \in DOMAIN msgCh /\ msgCh'[i] = msgCh[i] /\ i < Len(msgCh) + 1
           \/ i = Len(msgCh) + 1 /\ msgCh'[i] = n
      /\ \A i \in DOMAIN msgCh : i \in Nat /\ i < Len(msgCh) + 1 /\ msgCh[i] \in DOMAIN stream
      /\ Len(msgCh) \in Nat
  <2>1. Len(msgCh) <= Capacity /\ \A i \in DOMAIN msgCh : msgCh[i] \in DOMAIN stream
    BY DEF SInv, TypeOK, Shape
  <2>2. CASE msgCh' = Append(msgCh, n) /\ Len(msgCh) < Capacity
    BY <1>3, <2>1, <2>2, Appended
  <2>3. CASE msgCh' = msgCh
    <3>1. \A i \in DOMAIN msgCh : i \in Nat /\ i < Len(msgCh) + 1
      BY <1>3
    <3>2. QED
      BY <1>3, <2>1, <2>3, <3>1
  <2>4. QED
    BY <1>1, <2>2, <2>3
<1>5. TypeOK'
  <2>1. lost' \subseteq Positions
    BY <1>1, <1>3 DEF SInv, TypeOK
  <2>2. QED
    BY <1>1, <1>4, <2>1 DEF SInv, TypeOK
<1>6. Shape'
  <2>1. ASSUME NEW l \in ChangeKinds
        PROVE  /\ snap'[l] \subseteq OfKind(l)' /\ next'[l] <= Len(stream') + 1
               /\ owed'[l].snap \subseteq OfKind(l)' /\ owed'[l].from <= Len(stream') + 1
               /\ session' = "closed" \/ l \in toOpen' \/ l \notin Subjects' => snap'[l] = {} /\ next'[l] = 0
    <3>1. /\ snap[l] \subseteq OfKind(l) /\ next[l] <= Len(stream) + 1
          /\ owed[l].snap \subseteq OfKind(l) /\ owed[l].from <= Len(stream) + 1
          /\ session = "closed" \/ l \in toOpen \/ l \notin Subjects => snap[l] = {} /\ next[l] = 0
      BY DEF SInv, Shape
    <3>2. OfKind(l)' = OfKind(l)
      BY <1>1 DEF OfKind
    <3>3. next'[l] <= Len(stream) + 1
      <4>1. CASE l = k
        <5>1. next'[l] = next[l] \/ next'[l] = n + 1
          BY <1>1, <4>1
        <5>2. n + 1 <= Len(stream) + 1
          BY <1>3
        <5>3. QED
          BY <3>1, <5>1, <5>2
      <4>2. CASE l # k
        <5>1. next'[l] = next[l]
          BY <1>1, <4>2
        <5>2. QED
          BY <3>1, <5>1
      <4>3. QED
        BY <4>1, <4>2
    <3>4. QED
      BY <1>1, <1>2, <3>1, <3>2, <3>3
  <2>2. \A i \in DOMAIN msgCh' : msgCh'[i] \in DOMAIN stream'
    BY <1>1, <1>2, <1>4
  <2>3. \A l \in Subjects' \ toOpen' : next'[l] >= 1
    <3>1. \A l \in Subjects \ toOpen : next[l] >= 1 /\ l \in ChangeKinds
      BY <1>1, Plain DEF SInv, Shape
    <3>2. QED
      BY <1>1, <1>2, <1>3, <3>1
  <2>4. QED
    BY <1>1, <2>1, <2>2, <2>3 DEF SInv, Shape
<1>7. Cursors'
  BY <1>1 DEF SInv, Cursors, Pos
<1>8. Order'
  <2>1. \A i \in DOMAIN received : received[i] \in DOMAIN stream /\ Behind(received[i])
    BY DEF SInv, Shape, Order
  <2>2. \A i \in DOMAIN msgCh : Behind(msgCh[i])
    BY DEF SInv, Order
  <2>3. SubjectInOrder'
    BY <1>1 DEF SInv, Order, SubjectInOrder
  <2>4. \A i \in DOMAIN received', j \in DOMAIN msgCh' :
          SameKind(received[i], msgCh[j])' => received'[i] < msgCh'[j]
    BY <1>1, <1>2, <1>4, <2>1 DEF SInv, Order, SameKind
  <2>5. \A i, j \in DOMAIN msgCh' : i < j /\ SameKind(msgCh[i], msgCh[j])' => msgCh'[i] < msgCh'[j]
    <3> SUFFICES ASSUME NEW i \in DOMAIN msgCh', NEW j \in DOMAIN msgCh', i < j,
                        SameKind(msgCh[i], msgCh[j])'
                 PROVE  msgCh'[i] < msgCh'[j]
      OBVIOUS
    <3>1. i \in DOMAIN msgCh /\ msgCh'[i] = msgCh[i] /\ i < Len(msgCh) + 1
      BY <1>4
    <3>2. SameKind(msgCh'[i], msgCh'[j])
      BY <1>1 DEF SameKind
    <3>3. CASE j \in DOMAIN msgCh /\ msgCh'[j] = msgCh[j]
      BY <3>1, <3>2, <3>3 DEF SInv, Order
    <3>4. CASE msgCh'[j] = n
      BY <1>2, <1>4, <2>2, <3>1, <3>2, <3>4
    <3>5. QED
      BY <1>4, <3>3, <3>4
  <2>6. \A i \in DOMAIN received' : Behind(received[i])'
    BY <1>1, <1>2, <2>1
  <2>7. \A i \in DOMAIN msgCh' : Behind(msgCh[i])'
    <3> SUFFICES ASSUME NEW i \in DOMAIN msgCh' PROVE Behind(msgCh[i])'
      OBVIOUS
    <3>1. msgCh'[i] = n \/ (i \in DOMAIN msgCh /\ msgCh'[i] = msgCh[i])
      BY <1>4
    <3>2. QED
      BY <1>1, <1>2, <1>4, <2>2, <3>1 DEF Behind
  <2>8. \A l \in ChangeKinds : \A m \in snap'[l] : m < next'[l]
    <3> SUFFICES ASSUME NEW l \in ChangeKinds, NEW m \in snap'[l] PROVE m < next'[l]
      OBVIOUS
    <3>1. m \in snap[l] /\ m < next[l]
      BY <1>2 DEF SInv, Order
    <3>2. m \in Nat
      BY <3>1, Plain DEF SInv, Shape, OfKind
    <3>3. QED
      BY <1>2, <1>3, <3>1, <3>2
  <2>9. QED
    BY <2>3, <2>4, <2>5, <2>6, <2>7, <2>8 DEF Order
<1>9. QED
  BY <1>5, <1>6, <1>7, <1>8 DEF SInv

\* A delivery, index by index: h moves from the channel to what was received.
LEMMA Delivered ==
    ASSUME OffsetsRoundTrip, SInv, Deliver
    PROVE  LET h == Head(msgCh) IN
           /\ session = "open" /\ toOpen = {} /\ h = msgCh[1] /\ 1 \in DOMAIN msgCh /\ h \in DOMAIN stream
           /\ cursor' = encodeOffset(FirstSequence + h) /\ cursor' # <<>> /\ Pos(cursor') = h
           /\ received' = Append(received, h) /\ msgCh' = Tail(msgCh) /\ seen' = seen \cup {h}
           /\ picture' = [picture EXCEPT ![SubjectOf(h)] = h]
           /\ UNCHANGED <<stream, session, types, offset, toOpen, snap, next, owed, lost, sessions>>
           /\ Subjects' = Subjects /\ Capacity' = Capacity
           /\ msgCh' \in Seq(Positions) /\ Len(msgCh') = Len(msgCh) - 1 /\ Len(msgCh) \in Nat
           /\ \A i \in DOMAIN msgCh' :
                msgCh'[i] = msgCh[i + 1] /\ i \in Nat /\ i + 1 \in DOMAIN msgCh /\ 1 < i + 1
           /\ \A i \in DOMAIN msgCh : i = 1 \/ (i - 1 \in DOMAIN msgCh' /\ msgCh'[i - 1] = msgCh[i])
<1> DEFINE h == Head(msgCh)
<1>1. /\ session = "open" /\ msgCh # <<>> /\ cursor' = encodeOffset(FirstSequence + h)
      /\ received' = Append(received, h) /\ msgCh' = Tail(msgCh) /\ seen' = seen \cup {h}
      /\ picture' = [picture EXCEPT ![SubjectOf(h)] = h]
      /\ UNCHANGED <<stream, session, types, offset, toOpen, snap, next, owed, lost, sessions>>
      /\ Subjects' = Subjects /\ Capacity' = Capacity
  BY DEF Deliver, Subjects, Capacity
<1>2. msgCh \in Seq(Positions) /\ FirstSequence \in Nat
  BY Plain
<1>3. /\ Len(msgCh) \in Nat /\ 1 \in DOMAIN msgCh /\ Head(msgCh) = msgCh[1] /\ Head(msgCh) \in Positions
      /\ Tail(msgCh) \in Seq(Positions) /\ Len(Tail(msgCh)) = Len(msgCh) - 1
      /\ \A i \in DOMAIN Tail(msgCh) :
           Tail(msgCh)[i] = msgCh[i + 1] /\ i \in Nat /\ i + 1 \in DOMAIN msgCh /\ 1 < i + 1
      /\ \A i \in DOMAIN msgCh :
           i = 1 \/ (i - 1 \in DOMAIN Tail(msgCh) /\ Tail(msgCh)[i - 1] = msgCh[i])
  BY <1>1, <1>2, Taken
<1>4. toOpen = {} /\ h \in DOMAIN stream
  BY <1>1, <1>3 DEF SInv, Shape
<1>5. cursor' # <<>> /\ decodeOffset(cursor') = FirstSequence + h /\ h \in Nat
  BY <1>1, <1>3, <1>4, Plain DEF OffsetsRoundTrip
<1>6. Pos(cursor') = h
  <2> HIDE DEF h
  <2>1. (FirstSequence + h) - FirstSequence = h
    BY <1>2, <1>5
  <2>2. QED
    BY <1>5, <2>1 DEF Pos
<1> HIDE DEF h
<1>7. QED
  BY <1>1, <1>3, <1>4, <1>5, <1>6 DEF h

LEMMA DeliverS ==
    ASSUME OffsetsRoundTrip, SInv, Deliver
    PROVE  SInv'
<1> DEFINE h == Head(msgCh)
<1>1. /\ session = "open" /\ toOpen = {} /\ h = msgCh[1] /\ 1 \in DOMAIN msgCh /\ h \in DOMAIN stream
      /\ cursor' = encodeOffset(FirstSequence + h) /\ cursor' # <<>> /\ Pos(cursor') = h
      /\ received' = Append(received, h) /\ seen' = seen \cup {h}
      /\ picture' = [picture EXCEPT ![SubjectOf(h)] = h]
      /\ UNCHANGED <<stream, session, types, offset, toOpen, snap, next, owed, lost, sessions>>
      /\ Subjects' = Subjects /\ Capacity' = Capacity
      /\ msgCh' \in Seq(Positions) /\ Len(msgCh') = Len(msgCh) - 1 /\ Len(msgCh) \in Nat
      /\ \A i \in DOMAIN msgCh' :
           msgCh'[i] = msgCh[i + 1] /\ i \in Nat /\ i + 1 \in DOMAIN msgCh /\ 1 < i + 1
  BY Delivered
<1>2. /\ received \in Seq(Positions) /\ h \in Positions /\ h \in Nat /\ h >= 1 /\ h <= MaxRecords
      /\ MaxRecords \in Nat /\ stream[h].kind \in ChangeKinds /\ stream[h].actor \in Actors
      /\ Capacity \in Nat
  <2>1. /\ received \in Seq(Positions) /\ h \in Positions /\ h \in Nat /\ h >= 1
        /\ MaxRecords \in Nat /\ stream[h].kind \in ChangeKinds /\ stream[h].actor \in Actors
    BY <1>1, Plain
  <2>2. QED
    BY <2>1, CapacityType DEF Positions
<1>3. Behind(h)
  BY <1>1 DEF SInv, Order
<1>4. stream[h].kind \in Subjects
  BY <1>2, <1>3 DEF SInv, Shape, Behind
<1> HIDE DEF h
<1>5. /\ received' \in Seq(Positions)
      /\ \A i \in DOMAIN received' :
           \/ i \in DOMAIN received /\ received'[i] = received[i]
           \/ i = Len(received) + 1 /\ received'[i] = h
      /\ \A i \in DOMAIN received : i \in Nat /\ i < Len(received) + 1
      /\ Len(received) \in Nat
  BY <1>1, <1>2, Appended
<1>6. TypeOK'
  <2>1. picture' \in [ChangeKinds \X Actors -> 0 .. MaxRecords]
    <3>1. SubjectOf(h) \in ChangeKinds \X Actors
      BY <1>2 DEF SubjectOf
    <3>2. picture \in [ChangeKinds \X Actors -> 0 .. MaxRecords] /\ h \in 0 .. MaxRecords
      BY <1>2 DEF SInv, TypeOK
    <3>3. QED
      BY <1>1, <3>1, <3>2
  <2>2. Len(msgCh') <= Capacity
    BY <1>1, <1>2 DEF SInv, TypeOK
  <2>3. cursor' \in {encodeOffset(FirstSequence + n) : n \in Positions}
    BY <1>1, <1>2
  <2>4. {offset', cursor'} \subseteq {<<>>} \cup {encodeOffset(FirstSequence + n) : n \in Positions}
    BY <1>1, <2>3 DEF SInv, TypeOK
  <2>5. seen' \subseteq Positions
    BY <1>1, <1>2 DEF SInv, TypeOK
  <2>6. QED
    BY <1>1, <1>5, <2>1, <2>2, <2>4, <2>5 DEF SInv, TypeOK
<1>7. Shape'
  <2>1. \A i \in DOMAIN received' : received'[i] \in DOMAIN stream
    BY <1>1, <1>5 DEF SInv, Shape
  <2>2. \A i \in DOMAIN msgCh' : msgCh'[i] \in DOMAIN stream
    BY <1>1 DEF SInv, Shape
  <2>3. \A n \in seen' : n \in DOMAIN stream /\ stream[n].kind \in Subjects
    BY <1>1, <1>4 DEF SInv, Shape
  <2>4. \A k \in ChangeKinds : OfKind(k)' = OfKind(k)
    BY <1>1 DEF OfKind
  <2>5. QED
    BY <1>1, <2>1, <2>2, <2>3, <2>4 DEF SInv, Shape
<1>8. Cursors'
  <2>1. offset' # <<>> => Pos(offset)' \in DOMAIN stream'
    BY <1>1 DEF SInv, Cursors, Pos
  <2>2. Pos(cursor)' \in DOMAIN stream'
    BY <1>1 DEF Pos
  <2>3. QED
    BY <1>1, <2>1, <2>2 DEF Cursors
<1>9. Order'
  <2>1. /\ \A i, j \in DOMAIN received : i < j /\ SameKind(received[i], received[j]) => received[i] < received[j]
        /\ \A i \in DOMAIN received : SameKind(received[i], h) => received[i] < h
        /\ \A i \in DOMAIN received, j \in DOMAIN msgCh :
             SameKind(received[i], msgCh[j]) => received[i] < msgCh[j]
        /\ \A i, j \in DOMAIN msgCh : i < j /\ SameKind(msgCh[i], msgCh[j]) => msgCh[i] < msgCh[j]
        /\ \A i \in DOMAIN received : Behind(received[i])
        /\ \A i \in DOMAIN msgCh : Behind(msgCh[i])
    BY <1>1 DEF SInv, Order, SubjectInOrder, SameKind
  <2>2. \A j \in DOMAIN msgCh' : SameKind(h, msgCh'[j]) => h < msgCh'[j]
    BY <1>1, <2>1
  <2>3. \A i, j \in DOMAIN received' : i < j /\ SameKind(received'[i], received'[j]) => received'[i] < received'[j]
    <3> SUFFICES ASSUME NEW i \in DOMAIN received', NEW j \in DOMAIN received', i < j,
                        SameKind(received'[i], received'[j])
                 PROVE  received'[i] < received'[j]
      OBVIOUS
    <3>1. i \in DOMAIN received /\ received'[i] = received[i]
      BY <1>5
    <3>2. QED
      BY <1>5, <2>1, <3>1
  <2>4. SubjectInOrder'
    <3>1. stream' = stream
      BY <1>1
    <3>2. QED
      BY ONLY <2>3, <3>1 DEF SubjectInOrder, SameKind
  <2>5. \A i \in DOMAIN received', j \in DOMAIN msgCh' :
          SameKind(received'[i], msgCh'[j]) => received'[i] < msgCh'[j]
    BY <1>1, <1>5, <2>1, <2>2
  <2>6. \A i, j \in DOMAIN msgCh' : i < j /\ SameKind(msgCh'[i], msgCh'[j]) => msgCh'[i] < msgCh'[j]
    <3> SUFFICES ASSUME NEW i \in DOMAIN msgCh', NEW j \in DOMAIN msgCh', i < j,
                        SameKind(msgCh'[i], msgCh'[j])
                 PROVE  msgCh'[i] < msgCh'[j]
      OBVIOUS
    <3>1. /\ i + 1 \in DOMAIN msgCh /\ j + 1 \in DOMAIN msgCh /\ i + 1 < j + 1
          /\ msgCh'[i] = msgCh[i + 1] /\ msgCh'[j] = msgCh[j + 1]
      BY <1>1
    <3>2. QED
      BY <2>1, <3>1
  <2>7. (\A i \in DOMAIN received' : Behind(received'[i])) /\ (\A i \in DOMAIN msgCh' : Behind(msgCh'[i]))
    BY <1>1, <1>3, <1>5, <2>1
  <2>8. QED
    BY <1>1, <2>4, <2>5, <2>6, <2>7 DEF SInv, Order, SameKind, Behind
<1>10. QED
  BY <1>6, <1>7, <1>8, <1>9 DEF SInv

LEMMA StutterS == SInv /\ UNCHANGED vars => SInv'
<1> SUFFICES ASSUME SInv, UNCHANGED vars PROVE SInv'
  OBVIOUS
<1>1. /\ UNCHANGED <<stream, session, types, offset, toOpen, snap, next, msgCh, received,
                     cursor, picture, seen, owed, lost, sessions>>
      /\ Subjects' = Subjects /\ Capacity' = Capacity
  BY DEF vars, Subjects, Capacity
<1>2. TypeOK' /\ Cursors'
  BY <1>1 DEF SInv, TypeOK, Cursors, Pos
<1>3. Shape'
  BY <1>1 DEF SInv, Shape, OfKind
<1>4. Order'
  BY <1>1 DEF SInv, Order, SubjectInOrder, SameKind, Behind
<1>5. QED
  BY <1>2, <1>3, <1>4 DEF SInv

\* Snapshots, live records, deliveries, losses, departures and resumptions keep
\* every session's records in order (repository.go:282-342).
THEOREM OrderInductive == OffsetsRoundTrip /\ Spec => []SInv
<1> SUFFICES ASSUME OffsetsRoundTrip PROVE Spec => []SInv
  BY DEF OffsetsRoundTrip
<1>1. SInv /\ [Next]_vars => SInv'
  <2> SUFFICES ASSUME SInv, [Next]_vars PROVE SInv'
    OBVIOUS
  <2>1. ASSUME NEW k \in ChangeKinds, NEW a \in Actors, Publish(k, a) PROVE SInv'
    BY <2>1, PublishS
  <2>2. ASSUME NEW k \in ChangeKinds, Subscribe(k) \/ Push(k) PROVE SInv'
    BY <2>2, SubscribeS, PushS
  <2>3. CASE Open \/ OpenRefused \/ Close
    BY <2>3, OpenS
  <2>4. CASE Deliver
    BY <2>4, DeliverS
  <2>5. CASE UNCHANGED vars
    BY <2>5, StutterS
  <2>6. QED
    BY <2>1, <2>2, <2>3, <2>4, <2>5 DEF Next
<1>2. QED
  BY <1>1, SInit, PTL DEF Spec

\* Type correctness of Watch, for any channel size and any requests
\* (repository.go:282-342).
THEOREM TypeCorrect == OffsetsRoundTrip /\ Spec => []TypeOK
<1>1. SInv => TypeOK
  BY DEF SInv
<1>2. QED
  BY <1>1, OrderInductive, PTL

\* The records of one subject are delivered in stream order, although the
\* consumers share one channel that may overflow (repository.go:278-281).
THEOREM OrderCorrect == OffsetsRoundTrip /\ Spec => []SubjectInOrder
<1>1. SInv => SubjectInOrder
  BY DEF SInv, Order
<1>2. QED
  BY <1>1, OrderInductive, PTL

-----------------------------------------------------------------------------
\* Facts about what is owed, and about a client of one subject.
LEMMA OwedType ==
    ASSUME SInv, NEW k \in ChangeKinds
    PROVE  /\ Owed(k) \subseteq OfKind(k) /\ LastPerSubject(k) \subseteq OfKind(k)
           /\ \A n \in OfKind(k) : n \in DOMAIN stream /\ stream[n].kind = k
           /\ owed[k].from \in Nat /\ owed[k].from <= Len(stream) + 1
<1>1. owed[k].snap \subseteq OfKind(k) /\ owed[k].from <= Len(stream) + 1
  BY DEF SInv, Shape
<1>2. owed[k].from \in Nat
  BY Plain DEF SInv, TypeOK
<1>3. QED
  BY <1>1, <1>2 DEF Owed, LastPerSubject, OfKind

LEMMA OneSubject ==
    ASSUME Single
    PROVE  \A k, l \in Subjects : k = l
<1>1. IsFiniteSet(ChangeKinds)
  <2>1. IsFiniteSet({"zone"})
    BY FS_Singleton
  <2>2. IsFiniteSet({"zone"} \cup {"presence"})
    BY <2>1, FS_AddElement
  <2>3. IsFiniteSet(({"zone"} \cup {"presence"}) \cup {"command"})
    BY <2>2, FS_AddElement
  <2>4. ChangeKinds = ({"zone"} \cup {"presence"}) \cup {"command"}
    BY DEF ChangeKinds
  <2>5. QED
    BY <2>3, <2>4
<1>2. Subjects \subseteq ChangeKinds
  BY DEF Subjects, watchSubjects
<1>3. IsFiniteSet(Subjects)
  BY <1>1, <1>2, FS_Subset
<1>4. PICK x : Subjects = {x}
  BY <1>3, FS_Singleton DEF Single
<1>5. QED
  BY <1>4

\* Whatever the session does, what depends on the stream alone stays.
LEMMA SameStream ==
    ASSUME UNCHANGED <<stream, owed, types>>
    PROVE  /\ Subjects' = Subjects /\ Single' = Single
           /\ \A k : OfKind(k)' = OfKind(k)
           /\ \A k : LastPerSubject(k)' = LastPerSubject(k)
           /\ \A k : Owed(k)' = Owed(k)
BY DEF Subjects, Single, OfKind, LastPerSubject, Owed

Guarantees == Pictured /\ NothingOlder /\ UpToCursor /\ OwedIsCurrent /\ OnItsWay /\ Resumable

LEMMA InitW == Init => WInv
<1> SUFFICES ASSUME Init PROVE WInv
  OBVIOUS
<1>1. SInv
  BY SInit
<1>2. session = "closed" /\ cursor = <<>> /\ seen = {} /\ picture = [s \in ChangeKinds \X Actors |-> 0]
  BY DEF Init
<1>3. Pictured /\ NothingOlder /\ UpToCursor /\ OwedIsCurrent /\ OnItsWay /\ Resumable
  BY <1>2 DEF Pictured, NothingOlder, UpToCursor, OwedIsCurrent, OnItsWay, Resumable
<1>4. QED
  BY <1>1, <1>3 DEF WInv

\* A new record is owed, on its way, and later than everything seen.
LEMMA PublishW ==
    ASSUME WInv, NEW j \in ChangeKinds, NEW a \in Actors, Publish(j, a)
    PROVE  Guarantees'
<1> DEFINE new == Len(stream) + 1
<1>1. /\ DOMAIN stream' = DOMAIN stream \cup {new}
      /\ \A n \in DOMAIN stream : stream'[n] = stream[n]
      /\ \A l \in ChangeKinds : OfKind(l) \subseteq OfKind(l)' /\ OfKind(l)' \subseteq OfKind(l) \cup {new}
      /\ UNCHANGED <<session, types, offset, toOpen, snap, next, msgCh, received,
                     cursor, picture, seen, owed, lost, sessions>>
      /\ Subjects' = Subjects
  BY StreamGrows DEF WInv
<1>2. /\ Len(stream) \in Nat /\ \A l \in ChangeKinds : next[l] \in Nat /\ next[l] <= new
      /\ \A n \in DOMAIN stream : n \in Nat /\ n < new
      /\ Subjects \subseteq ChangeKinds
  <2>1. Len(stream) \in Nat /\ DOMAIN stream = 1 .. Len(stream) /\ Subjects \subseteq ChangeKinds
    BY Plain DEF WInv
  <2>2. \A l \in ChangeKinds : next[l] \in Nat /\ next[l] <= new
    BY Plain DEF WInv, SInv, Shape
  <2>3. QED
    BY <2>1, <2>2
<1>3. /\ \A n \in seen : n \in DOMAIN stream
      /\ \A i \in DOMAIN msgCh : msgCh[i] \in DOMAIN stream
  BY DEF WInv, SInv, Shape
<1>4. Straight' = Straight /\ Single' = Single /\ Pos(cursor)' = Pos(cursor)
  BY <1>1 DEF Straight, Single, Pos
<1>5. Pictured'
  <2>1. \A n \in seen : SubjectOf(n)' = SubjectOf(n)
    BY <1>1, <1>3 DEF SubjectOf
  <2>2. QED
    BY <1>1, <1>4, <2>1 DEF WInv, Pictured, SubjectOf
<1>6. NothingOlder' /\ UpToCursor'
  BY <1>1, <1>3, <1>4 DEF WInv, NothingOlder, UpToCursor, SameKind
<1> HIDE DEF new
<1>7. \A k \in ChangeKinds :
          /\ Owed(k) \subseteq Owed(k)' /\ Owed(k)' \subseteq Owed(k) \cup {new}
          /\ owed[k].from > 0 /\ new \in OfKind(k)' => new \in Owed(k)'
          /\ Owed(k)' \subseteq OfKind(k)'
  <2> SUFFICES ASSUME NEW k \in ChangeKinds
               PROVE  /\ Owed(k) \subseteq Owed(k)' /\ Owed(k)' \subseteq Owed(k) \cup {new}
                      /\ owed[k].from > 0 /\ new \in OfKind(k)' => new \in Owed(k)'
                      /\ Owed(k)' \subseteq OfKind(k)'
    OBVIOUS
  <2>1. owed[k].from \in Nat /\ owed[k].from <= new /\ owed[k].snap \subseteq OfKind(k)
    BY OwedType DEF WInv, SInv, Shape, new
  <2>2. new \in Nat
    BY <1>2 DEF new
  <2>3. QED
    BY <1>1, <2>1, <2>2 DEF Owed
<1>8. \A k \in ChangeKinds : LastPerSubject(k)' \subseteq LastPerSubject(k) \cup {new}
                             /\ LastPerSubject(k)' \subseteq OfKind(k)'
  <2>1. \A k \in ChangeKinds : OfKind(k) \subseteq DOMAIN stream
    BY DEF OfKind
  <2>2. QED
    BY <1>1, <2>1 DEF LastPerSubject
<1>9. OwedIsCurrent'
  <2> SUFFICES ASSUME NEW k \in Subjects', cursor' # <<>> \/ (session' # "closed" /\ k \notin toOpen')
               PROVE  owed'[k].from > 0 /\ LastPerSubject(k)' \subseteq Owed(k)'
    BY DEF OwedIsCurrent
  <2>1. k \in Subjects /\ k \in ChangeKinds /\ owed[k].from > 0 /\ LastPerSubject(k) \subseteq Owed(k)
    BY <1>1, <1>2 DEF WInv, OwedIsCurrent
  <2>2. QED
    BY <1>1, <1>7, <1>8, <2>1
<1>10. OnItsWay'
  <2> SUFFICES ASSUME lost' = {}, Straight', session' # "closed", NEW k \in Subjects' \ toOpen',
                      NEW n \in Owed(k)'
               PROVE  \/ n \in seen' \cup snap'[k] \cup Rest(k)'
                      \/ \E i \in DOMAIN msgCh' : msgCh'[i] = n
    BY DEF OnItsWay
  <2>1. k \in Subjects \ toOpen /\ k \in ChangeKinds /\ next[k] >= 1
    BY <1>1, <1>2 DEF WInv, SInv, Shape
  <2>2. Rest(k) \subseteq Rest(k)'
    BY <1>1, <2>1 DEF Rest
  <2>3. CASE n \in Owed(k)
    BY <1>1, <1>4, <2>1, <2>2, <2>3 DEF WInv, OnItsWay
  <2>4. CASE n = new
    <3>1. n \in OfKind(k)' /\ n >= next'[k] /\ next'[k] # 0
      BY <1>1, <1>2, <1>7, <2>1, <2>4 DEF new
    <3>2. QED
      BY <3>1 DEF Rest
  <2>5. QED
    BY <1>7, <2>1, <2>3, <2>4
<1>11. Resumable'
  <2> SUFFICES ASSUME lost' = {}, Single', cursor' # <<>>, NEW k \in Subjects', NEW n \in Owed(k)',
                      n < Pos(cursor)'
               PROVE  n \in seen'
    BY DEF Resumable
  <2>1. Pos(cursor) \in Nat /\ Pos(cursor) < new
    BY <1>1, <1>2 DEF WInv, SInv, Cursors
  <2>2. n \in Owed(k)
    <3>1. n # new
      BY <1>2, <1>4, <2>1 DEF new
    <3>2. QED
      BY <1>1, <1>2, <1>7, <3>1
  <2>3. QED
    BY <1>1, <1>4, <2>2 DEF WInv, Resumable
<1>12. QED
  BY <1>5, <1>6, <1>9, <1>10, <1>11 DEF Guarantees

\* A session begins with the last cursor, and leaves it behind.
LEMMA OpenW ==
    ASSUME WInv, Open \/ OpenRefused \/ Close
    PROVE  Guarantees'
<1>1. UNCHANGED <<stream, types, cursor, picture, seen, owed>>
  BY DEF Open, OpenRefused, Close
<1>2. /\ Subjects' = Subjects /\ Single' = Single /\ Pos(cursor)' = Pos(cursor)
      /\ \A n : SubjectOf(n)' = SubjectOf(n)
      /\ \A k : LastPerSubject(k)' = LastPerSubject(k) /\ Owed(k)' = Owed(k)
  BY <1>1, SameStream DEF Pos, SubjectOf
<1>3. Straight' => Straight
  BY <1>1, <1>2 DEF Open, OpenRefused, Close, OffsetToUse, Straight, WInv, SInv, Cursors
<1>4. Pictured' /\ UpToCursor'
  BY <1>1, <1>2, <1>3 DEF WInv, Pictured, UpToCursor
<1>5. /\ cursor # <<>> => lost' = lost
      /\ \/ session' = "closed" \/ (session' = "opening" /\ toOpen' = Subjects)
         \/ UNCHANGED <<session, toOpen, snap, next, msgCh, lost, offset>>
  BY DEF Open, OpenRefused, Close, OffsetToUse
<1>6. Resumable'
  BY <1>1, <1>2, <1>5 DEF WInv, Resumable
<1>7. OwedIsCurrent'
  BY <1>1, <1>2, <1>5 DEF WInv, OwedIsCurrent
<1>8. NothingOlder'
  <2>1. \A n \in seen : stream[n].kind \in Subjects
    BY DEF WInv, SInv, Shape
  <2>2. CASE session' = "opening" /\ toOpen' = Subjects
    BY <1>1, <2>1, <2>2 DEF NothingOlder
  <2>3. CASE UNCHANGED <<session, toOpen, snap, next, msgCh, lost, offset>>
    BY <1>1, <1>3, <2>3 DEF WInv, NothingOlder, SameKind
  <2>4. CASE session' = "closed"
    BY <2>4 DEF NothingOlder
  <2>5. QED
    BY <1>5, <2>2, <2>3, <2>4
<1>9. OnItsWay'
  <2>1. CASE session' = "opening" /\ toOpen' = Subjects
    BY <1>2, <2>1 DEF OnItsWay
  <2>2. CASE UNCHANGED <<session, toOpen, snap, next, msgCh, lost, offset>>
    <3>1. \A k : Rest(k)' = Rest(k)
      BY <1>1, <2>2 DEF Rest, OfKind
    <3>2. QED
      BY <1>1, <1>2, <1>3, <2>2, <3>1 DEF WInv, OnItsWay
  <2>3. CASE session' = "closed"
    BY <2>3 DEF OnItsWay
  <2>4. QED
    BY <1>5, <2>1, <2>2, <2>3
<1>10. QED
  BY <1>4, <1>6, <1>7, <1>8, <1>9 DEF Guarantees

\* A consumer starts with the snapshot and the end of the stream, or at the
\* cursor, up to which everything owed was seen.
LEMMA SubscribeW ==
    ASSUME WInv, NEW k \in ChangeKinds, Subscribe(k)
    PROVE  Guarantees'
<1>1. /\ session = "opening" /\ k \in toOpen /\ toOpen' = toOpen \ {k} /\ session' \in {"opening", "open"}
      /\ snap' = [snap EXCEPT ![k] = Snapshot(k)] /\ next' = [next EXCEPT ![k] = StartOf(k)]
      /\ UNCHANGED <<stream, types, offset, msgCh, received, cursor, picture, seen, lost, sessions>>
      /\ Subjects' = Subjects /\ Single' = Single /\ Pos(cursor)' = Pos(cursor)
      /\ offset = cursor /\ k \in Subjects
  BY DEF Subscribe, Subjects, Single, Pos, WInv, SInv, Cursors, TypeOK
<1>2. /\ Len(stream) \in Nat /\ \A l \in ChangeKinds : next[l] \in Nat
      /\ \A n \in DOMAIN stream : n \in Nat /\ n >= 1 /\ n <= Len(stream)
      /\ next \in [ChangeKinds -> 0 .. MaxRecords + 1] /\ snap \in [ChangeKinds -> SUBSET Positions]
      /\ Subjects \subseteq ChangeKinds
  BY Plain DEF WInv
<1>3. /\ snap'[k] = Snapshot(k) /\ next'[k] = StartOf(k)
      /\ \A l \in ChangeKinds \ {k} : snap'[l] = snap[l] /\ next'[l] = next[l]
  BY <1>1, <1>2
<1>4. /\ \A l \in ChangeKinds : OfKind(l)' = OfKind(l) /\ LastPerSubject(l)' = LastPerSubject(l)
      /\ \A n : SubjectOf(n)' = SubjectOf(n)
  BY <1>1 DEF OfKind, LastPerSubject, SubjectOf
<1>5. Straight' = Straight
  BY <1>1 DEF Straight
<1>6. \A l \in ChangeKinds \ {k} : owed'[l] = owed[l] /\ Owed(l)' = Owed(l) /\ Rest(l)' = Rest(l)
  <2> SUFFICES ASSUME NEW l \in ChangeKinds \ {k}
               PROVE  owed'[l] = owed[l] /\ Owed(l)' = Owed(l) /\ Rest(l)' = Rest(l)
    OBVIOUS
  <2>1. owed'[l] = owed[l]
    <3>1. owed \in [ChangeKinds -> [from : 0 .. MaxRecords + 1, snap : SUBSET Positions]]
      BY DEF WInv, SInv, TypeOK
    <3>2. QED
      BY <3>1 DEF Subscribe
  <2>2. QED
    BY <1>3, <1>4, <2>1 DEF Owed, Rest
<1>7. CASE offset = <<>>
  <2>1. cursor = <<>> /\ seen = {}
    BY <1>1, <1>7 DEF WInv, SInv, Cursors
  <2>2. Pictured' /\ UpToCursor' /\ Resumable' /\ NothingOlder'
    BY <1>1, <1>4, <1>5, <2>1 DEF WInv, Pictured, UpToCursor, Resumable, NothingOlder
  <2>3. owed'[k].from = Len(stream) + 1 /\ owed'[k].snap = LastPerSubject(k)
    <3>1. owed \in [ChangeKinds -> [from : 0 .. MaxRecords + 1, snap : SUBSET Positions]]
      BY DEF WInv, SInv, TypeOK
    <3>2. QED
      BY <1>7, <3>1 DEF Subscribe
  <2>4. Owed(k)' = LastPerSubject(k)
    <3>1. \A n \in OfKind(k) : ~(n >= Len(stream) + 1)
      BY <1>2 DEF OfKind
    <3>2. QED
      BY <1>4, <2>3, <3>1 DEF Owed
  <2>5. OwedIsCurrent'
    <3> SUFFICES ASSUME NEW l \in Subjects', l \notin toOpen'
                 PROVE  owed'[l].from > 0 /\ LastPerSubject(l)' \subseteq Owed(l)'
      BY <1>1, <2>1 DEF OwedIsCurrent
    <3>1. CASE l = k
      BY <1>2, <1>4, <2>3, <2>4, <3>1
    <3>2. CASE l # k
      BY <1>1, <1>2, <1>4, <1>6, <3>2 DEF WInv, OwedIsCurrent
    <3>3. QED
      BY <3>1, <3>2
  <2>6. OnItsWay'
    <3> SUFFICES ASSUME lost' = {}, Straight', session' # "closed", NEW l \in Subjects' \ toOpen',
                        NEW n \in Owed(l)'
                 PROVE  \/ n \in seen' \cup snap'[l] \cup Rest(l)'
                        \/ \E i \in DOMAIN msgCh' : msgCh'[i] = n
      BY DEF OnItsWay
    <3>1. CASE l = k
      BY <1>3, <1>7, <2>4, <3>1 DEF Snapshot
    <3>2. CASE l # k
      BY <1>1, <1>2, <1>3, <1>5, <1>6, <3>2 DEF WInv, OnItsWay
    <3>3. QED
      BY <3>1, <3>2
  <2>7. QED
    BY <2>2, <2>5, <2>6 DEF Guarantees
<1>8. CASE offset # <<>>
  <2>1. /\ cursor # <<>> /\ UNCHANGED owed /\ Owed(k)' = Owed(k)
        /\ next'[k] = Pos(cursor) /\ snap'[k] = {} /\ Pos(cursor) \in DOMAIN stream
    BY <1>1, <1>3, <1>4, <1>8 DEF Subscribe, WInv, SInv, Cursors, Owed, StartOf, Snapshot, Pos
  <2>2. Pictured' /\ UpToCursor' /\ OwedIsCurrent'
    BY <1>1, <1>2, <1>4, <1>5, <1>6, <2>1 DEF WInv, Pictured, UpToCursor, OwedIsCurrent
  <2>3. Resumable'
    BY <1>1, <1>2, <1>6, <2>1 DEF WInv, Resumable
  <2>4. NothingOlder'
    <3> SUFFICES ASSUME Straight', session' # "closed", NEW m \in seen', stream'[m].kind \notin toOpen'
                 PROVE  /\ m <= next'[stream'[m].kind]
                        /\ \A x \in snap'[stream'[m].kind] : m <= x
                        /\ \A i \in DOMAIN msgCh' : SameKind(m, msgCh[i])' => m <= msgCh'[i]
      BY DEF NothingOlder
    <3>1. m \in DOMAIN stream /\ stream[m].kind \in Subjects /\ Single
      BY <1>1, <1>5, <1>8 DEF WInv, SInv, Shape, Straight
    <3>2. stream[m].kind = k
      BY <1>1, <3>1, OneSubject
    <3>3. m <= Pos(cursor)
      BY <1>1, <2>1, <3>1 DEF WInv, UpToCursor
    <3>4. ASSUME NEW i \in DOMAIN msgCh, stream[msgCh[i]].kind = k
          PROVE  FALSE
      <4>1. next[k] = 0
        BY <1>1 DEF WInv, SInv, Shape
      <4>2. msgCh[i] \in Nat /\ msgCh[i] < next[k]
        BY <1>2, <3>4 DEF WInv, SInv, Shape, Order, Behind
      <4>3. QED
        BY <4>1, <4>2
    <3>5. QED
      BY <1>1, <2>1, <3>2, <3>3, <3>4 DEF SameKind
  <2>5. OnItsWay'
    <3> SUFFICES ASSUME lost' = {}, Straight', session' # "closed", NEW l \in Subjects' \ toOpen',
                        NEW n \in Owed(l)'
                 PROVE  \/ n \in seen' \cup snap'[l] \cup Rest(l)'
                        \/ \E i \in DOMAIN msgCh' : msgCh'[i] = n
      BY DEF OnItsWay
    <3>1. Single
      BY <1>1, <1>5, <1>8 DEF Straight
    <3>2. l = k
      BY <1>1, <3>1, OneSubject
    <3>3. n \in Owed(k) /\ n \in OfKind(k) /\ n \in DOMAIN stream
      BY <2>1, <3>2, OwedType DEF WInv
    <3>4. CASE n < Pos(cursor)
      BY <1>1, <2>1, <3>1, <3>3, <3>4 DEF WInv, Resumable
    <3>5. CASE ~(n < Pos(cursor))
      <4>1. n >= next'[k] /\ next'[k] # 0
        BY <1>2, <2>1, <3>3, <3>5
      <4>2. n \in Rest(k)'
        BY <1>4, <3>3, <4>1 DEF Rest
      <4>3. QED
        BY <3>2, <4>2
    <3>6. QED
      BY <3>4, <3>5
  <2>6. QED
    BY <2>2, <2>3, <2>4, <2>5 DEF Guarantees
<1>9. QED
  BY <1>7, <1>8

\* What is pushed stays on its way, unless it is lost.
LEMMA PushW ==
    ASSUME WInv, NEW k \in ChangeKinds, Push(k)
    PROVE  Guarantees'
<1> DEFINE n == NextOf(k)
<1>1. /\ snap'[k] = snap[k] \ {n} /\ next'[k] = (IF n \in snap[k] THEN next[k] ELSE n + 1)
      /\ \A l \in ChangeKinds \ {k} : snap'[l] = snap[l] /\ next'[l] = next[l]
      /\ \/ msgCh' = Append(msgCh, n) /\ lost' = lost
         \/ msgCh' = msgCh /\ lost' = lost \cup {n}
      /\ UNCHANGED <<stream, session, types, offset, toOpen, received, cursor,
                     picture, seen, owed, sessions>>
      /\ session # "closed" /\ snap[k] \cup Rest(k) # {}
  BY Pushed DEF WInv
<1>2. /\ n \in DOMAIN stream /\ stream[n].kind = k /\ k \in Subjects /\ k \notin toOpen
      /\ \A l \in ChangeKinds : next'[l] >= next[l] /\ snap'[l] \subseteq snap[l]
  BY PushOrder DEF WInv
<1>3. \/ n \in snap[k] /\ \A m \in snap[k] : n <= m
      \/ snap[k] = {} /\ n \in Rest(k) /\ n >= next[k] /\ \A m \in Rest(k) : n <= m
  BY <1>1, NextOfFirst DEF WInv
<1>4. /\ \A m \in DOMAIN stream : m \in Nat /\ m >= 1 /\ stream[m].kind \in ChangeKinds
      /\ \A l \in ChangeKinds : next[l] \in Nat /\ Subjects \subseteq ChangeKinds
      /\ msgCh \in Seq(Positions) /\ n \in Positions
  BY <1>2, Plain DEF WInv
<1> HIDE DEF n
<1>5. /\ Subjects' = Subjects /\ Single' = Single /\ Straight' = Straight /\ Pos(cursor)' = Pos(cursor)
      /\ \A l : LastPerSubject(l)' = LastPerSubject(l) /\ Owed(l)' = Owed(l) /\ OfKind(l)' = OfKind(l)
      /\ \A m : SubjectOf(m)' = SubjectOf(m)
  <2>1. Subjects' = Subjects /\ Single' = Single
    BY <1>1, SameStream
  <2>2. QED
    BY <1>1, <2>1, SameStream DEF Straight, Pos, SubjectOf
<1>6. /\ \A i \in DOMAIN msgCh' : msgCh'[i] = n \/ (i \in DOMAIN msgCh /\ msgCh'[i] = msgCh[i])
      /\ \A i \in DOMAIN msgCh : i \in DOMAIN msgCh' /\ msgCh'[i] = msgCh[i]
      /\ lost' = {} => lost = {} /\ \E i \in DOMAIN msgCh' : msgCh'[i] = n
  <2>1. CASE msgCh' = Append(msgCh, n) /\ lost' = lost
    BY <1>4, <2>1, Appended
  <2>2. CASE msgCh' = msgCh /\ lost' = lost \cup {n}
    BY <2>2
  <2>3. QED
    BY <1>1, <2>1, <2>2
<1>7. Pictured' /\ UpToCursor' /\ OwedIsCurrent' /\ Resumable'
  <2>1. Pictured' /\ UpToCursor'
    BY <1>1, <1>5 DEF WInv, Pictured, UpToCursor
  <2>2. OwedIsCurrent'
    BY <1>1, <1>5 DEF WInv, OwedIsCurrent
  <2>3. Resumable'
    BY <1>1, <1>5, <1>6 DEF WInv, Resumable
  <2>4. QED
    BY <2>1, <2>2, <2>3
<1>8. NothingOlder'
  <2> SUFFICES ASSUME Straight', session' # "closed", NEW m \in seen', stream'[m].kind \notin toOpen'
               PROVE  /\ m <= next'[stream'[m].kind]
                      /\ \A x \in snap'[stream'[m].kind] : m <= x
                      /\ \A i \in DOMAIN msgCh' : SameKind(m, msgCh[i])' => m <= msgCh'[i]
    BY DEF NothingOlder
  <2>1. m \in DOMAIN stream /\ m \in Nat /\ stream[m].kind \in ChangeKinds
    BY <1>1, <1>4 DEF WInv, SInv, Shape
  <2>2. /\ m <= next[stream[m].kind] /\ \A x \in snap[stream[m].kind] : m <= x
        /\ \A i \in DOMAIN msgCh : SameKind(m, msgCh[i]) => m <= msgCh[i]
    BY <1>1, <1>5 DEF WInv, NothingOlder
  <2>3. next'[stream[m].kind] \in Nat
    BY <1>1, <1>2, <1>4, <2>1
  <2>4. m <= next'[stream[m].kind] /\ \A x \in snap'[stream[m].kind] : m <= x
    BY <1>2, <1>4, <2>1, <2>2, <2>3
  <2>5. stream[m].kind = k => m <= n
    BY <1>2, <1>3, <1>4, <2>1, <2>2
  <2>6. \A i \in DOMAIN msgCh' : SameKind(m, msgCh'[i]) => m <= msgCh'[i]
    BY <1>2, <1>6, <2>2, <2>5 DEF SameKind
  <2>7. QED
    BY <1>1, <2>4, <2>6 DEF SameKind
<1>9. OnItsWay'
  <2> SUFFICES ASSUME lost' = {}, Straight', session' # "closed", NEW l \in Subjects' \ toOpen',
                      NEW x \in Owed(l)'
               PROVE  \/ x \in seen' \cup snap'[l] \cup Rest(l)'
                      \/ \E i \in DOMAIN msgCh' : msgCh'[i] = x
    BY DEF OnItsWay
  <2>1. /\ l \in ChangeKinds /\ l \in Subjects \ toOpen /\ lost = {}
        /\ x \in seen \cup snap[l] \cup Rest(l) \/ \E i \in DOMAIN msgCh : msgCh[i] = x
    BY <1>1, <1>4, <1>5, <1>6 DEF WInv, OnItsWay
  <2>2. CASE x \in seen \/ \E i \in DOMAIN msgCh : msgCh[i] = x
    BY <1>1, <1>6, <2>2
  <2>3. CASE x = n
    BY <1>6, <2>3
  <2>4. CASE x \in snap[l] /\ x # n
    BY <1>1, <2>1, <2>4
  <2>5. CASE x \in Rest(l) /\ x # n
    <3>1. x \in OfKind(l) /\ x >= next[l] /\ next[l] # 0 /\ x \in Nat
      BY <1>4, <2>5 DEF Rest, OfKind
    <3>2. x >= next'[l] /\ next'[l] # 0
      <4>1. CASE l # k
        BY <1>1, <2>1, <3>1, <4>1
      <4>2. CASE l = k /\ n \in snap[k]
        BY <1>1, <3>1, <4>2
      <4>3. CASE l = k /\ n \notin snap[k]
        <5>1. next'[k] = n + 1 /\ n <= x /\ n \in Nat
          BY <1>1, <1>2, <1>3, <1>4, <2>5, <4>3
        <5>2. QED
          BY <2>5, <3>1, <4>3, <5>1
      <4>4. QED
        BY <4>1, <4>2, <4>3
    <3>3. x \in Rest(l)'
      BY <1>5, <3>1, <3>2 DEF Rest
    <3>4. QED
      BY <3>3
  <2>6. QED
    BY <2>1, <2>2, <2>3, <2>4, <2>5
<1>10. QED
  BY <1>7, <1>8, <1>9 DEF Guarantees

\* What is delivered is the latest of its subject, and all that was owed before
\* it is seen.
LEMMA DeliverW ==
    ASSUME OffsetsRoundTrip, WInv, Deliver
    PROVE  Guarantees'
<1> DEFINE h == Head(msgCh)
           k == stream[h].kind
<1>1. /\ session = "open" /\ toOpen = {} /\ h = msgCh[1] /\ 1 \in DOMAIN msgCh /\ h \in DOMAIN stream
      /\ cursor' # <<>> /\ Pos(cursor') = h /\ seen' = seen \cup {h}
      /\ picture' = [picture EXCEPT ![SubjectOf(h)] = h]
      /\ UNCHANGED <<stream, session, types, offset, toOpen, snap, next, owed, lost, sessions>>
      /\ \A i \in DOMAIN msgCh' :
           msgCh'[i] = msgCh[i + 1] /\ i \in Nat /\ i + 1 \in DOMAIN msgCh /\ 1 < i + 1
      /\ \A i \in DOMAIN msgCh : i = 1 \/ (i - 1 \in DOMAIN msgCh' /\ msgCh'[i - 1] = msgCh[i])
  BY Delivered DEF WInv
<1>2. /\ \A m \in DOMAIN stream : m \in Nat /\ m >= 1 /\ stream[m].kind \in ChangeKinds
                                  /\ stream[m].actor \in Actors
      /\ \A l \in ChangeKinds : next[l] \in Nat
      /\ Subjects \subseteq ChangeKinds
  BY Plain DEF WInv
<1>3. /\ h < next[k] /\ (\A m \in snap[k] : h < m) /\ k \in ChangeKinds /\ h \in Nat
      /\ \A i \in DOMAIN msgCh : 1 < i /\ stream[msgCh[i]].kind = k => h < msgCh[i]
  BY <1>1, <1>2 DEF WInv, SInv, Order, Behind, SameKind
<1>4. k \in Subjects
  BY <1>2, <1>3 DEF WInv, SInv, Shape
<1>5. /\ Subjects' = Subjects /\ Single' = Single /\ Straight' = Straight /\ Pos(cursor)' = h
      /\ \A l : LastPerSubject(l)' = LastPerSubject(l) /\ Owed(l)' = Owed(l)
      /\ \A l : Rest(l)' = Rest(l)
      /\ \A m : SubjectOf(m)' = SubjectOf(m)
  <2>1. Subjects' = Subjects /\ Single' = Single
    BY <1>1, SameStream
  <2>2. Straight' = Straight
    BY <1>1, <2>1 DEF Straight
  <2>3. Pos(cursor)' = h
    BY <1>1 DEF Pos
  <2>4. \A m : SubjectOf(m)' = SubjectOf(m)
    BY <1>1 DEF SubjectOf
  <2>5. \A l : Rest(l)' = Rest(l)
    BY <1>1 DEF Rest, OfKind
  <2>6. QED
    BY <1>1, <2>1, <2>2, <2>3, <2>4, <2>5, SameStream
<1>6. \A m \in seen : m \in DOMAIN stream /\ stream[m].kind \in Subjects
  BY DEF WInv, SInv, Shape
<1>7. Straight => \A m \in seen : stream[m].kind = k => m <= h
  BY <1>1 DEF WInv, NothingOlder, SameKind
<1> HIDE DEF h, k
<1>8. Pictured'
  <2> SUFFICES ASSUME Straight, NEW s \in ChangeKinds \X Actors
               PROVE  /\ picture'[s] = 0 \/ (picture'[s] \in seen' /\ SubjectOf(picture'[s]) = s)
                      /\ \A m \in seen' : SubjectOf(m) = s => m <= picture'[s]
    BY <1>1, <1>5 DEF Pictured, SubjectOf
  <2>1. /\ picture[s] = 0 \/ (picture[s] \in seen /\ SubjectOf(picture[s]) = s)
        /\ \A m \in seen : SubjectOf(m) = s => m <= picture[s]
    BY DEF WInv, Pictured
  <2>2. picture \in [ChangeKinds \X Actors -> 0 .. MaxRecords]
    BY DEF WInv, SInv, TypeOK
  <2>3. CASE s = SubjectOf(h)
    <3>1. picture'[s] = h
      BY <1>1, <2>2, <2>3
    <3>2. \A m \in seen : SubjectOf(m) = s => m <= h
      BY <1>7, <2>3 DEF SubjectOf, k
    <3>3. h <= h
      BY <1>3
    <3>4. QED
      BY <1>1, <2>3, <3>1, <3>2, <3>3
  <2>4. CASE s # SubjectOf(h)
    <3>1. picture'[s] = picture[s]
      BY <1>1, <2>2, <2>4
    <3>2. QED
      BY <1>1, <2>1, <2>4, <3>1
  <2>5. QED
    BY <2>3, <2>4
<1>9. NothingOlder'
  <2> SUFFICES ASSUME Straight, NEW m \in seen'
               PROVE  /\ m <= next[stream[m].kind]
                      /\ \A x \in snap[stream[m].kind] : m <= x
                      /\ \A i \in DOMAIN msgCh' : SameKind(m, msgCh'[i]) => m <= msgCh'[i]
    BY <1>1, <1>5 DEF NothingOlder, SameKind
  <2>1. CASE m = h
    <3>1. \A x \in snap[k] : x \in Nat
      BY <1>2, <1>3 DEF WInv, SInv, Shape, OfKind
    <3>2. \A i \in DOMAIN msgCh : msgCh[i] \in Nat
      BY <1>2 DEF WInv, SInv, Shape
    <3>3. h <= next[k] /\ \A x \in snap[k] : h <= x
      BY <1>2, <1>3, <3>1
    <3>4. \A i \in DOMAIN msgCh' : SameKind(h, msgCh'[i]) => h <= msgCh'[i]
      BY <1>1, <1>3, <3>2 DEF SameKind, k
    <3>5. QED
      BY <2>1, <3>3, <3>4 DEF k
  <2>2. CASE m \in seen
    <3>1. /\ m <= next[stream[m].kind]
          /\ \A x \in snap[stream[m].kind] : m <= x
          /\ \A i \in DOMAIN msgCh : SameKind(m, msgCh[i]) => m <= msgCh[i]
      BY <1>1, <2>2 DEF WInv, NothingOlder
    <3>2. QED
      BY <1>1, <3>1
  <2>3. QED
    BY <1>1, <2>1, <2>2
<1>10. UpToCursor'
  <2> SUFFICES ASSUME Single, NEW m \in seen' PROVE m <= h
    BY <1>5 DEF UpToCursor
  <2>1. CASE m = h
    BY <1>3, <2>1
  <2>2. CASE m \in seen
    BY <1>4, <1>6, <1>7, <2>2, OneSubject DEF Straight
  <2>3. QED
    BY <1>1, <2>1, <2>2
<1>11. OwedIsCurrent'
  BY <1>1, <1>5 DEF WInv, OwedIsCurrent
<1>12. ASSUME lost = {}, Straight, NEW l \in Subjects, NEW n \in Owed(l)
       PROVE  \/ n \in seen \cup snap[l] \cup Rest(l) \/ n = h
              \/ \E i \in DOMAIN msgCh : 1 < i /\ i - 1 \in DOMAIN msgCh' /\ msgCh'[i - 1] = n /\ msgCh[i] = n
  <2>1. n \in seen \cup snap[l] \cup Rest(l) \/ \E i \in DOMAIN msgCh : msgCh[i] = n
    BY <1>1, <1>12 DEF WInv, OnItsWay
  <2>2. ASSUME NEW i \in DOMAIN msgCh, msgCh[i] = n, i # 1
        PROVE  1 < i /\ i - 1 \in DOMAIN msgCh' /\ msgCh'[i - 1] = n
    <3>1. i - 1 \in DOMAIN msgCh' /\ msgCh'[i - 1] = n
      BY <1>1, <2>2
    <3>2. 1 < i
      <4>1. msgCh \in Seq(Positions)
        BY Plain DEF WInv
      <4>2. i \in 1 .. Len(msgCh) /\ Len(msgCh) \in Nat
        BY <4>1
      <4>3. QED
        BY <2>2, <4>2
    <3>3. QED
      BY <3>1, <3>2
  <2>3. QED
    BY <1>1, <2>1, <2>2
<1>13. OnItsWay'
  <2> SUFFICES ASSUME lost = {}, Straight, NEW l \in Subjects, NEW n \in Owed(l)
               PROVE  \/ n \in seen' \cup snap[l] \cup Rest(l)
                      \/ \E i \in DOMAIN msgCh' : msgCh'[i] = n
    BY <1>1, <1>5 DEF OnItsWay
  <2>1. QED
    BY <1>1, <1>12
<1>14. Resumable'
  <2> SUFFICES ASSUME lost = {}, Single, NEW l \in Subjects, NEW n \in Owed(l), n < h
               PROVE  n \in seen
    BY <1>1, <1>5 DEF Resumable
  <2>1. l = k /\ Straight /\ l \in ChangeKinds
    BY <1>2, <1>4, OneSubject DEF Straight
  <2>2. n \in DOMAIN stream /\ stream[n].kind = k /\ n \in Nat
    BY <1>2, <2>1, OwedType DEF WInv
  <2>3. n \notin snap[l]
    BY <1>3, <2>1, <2>2
  <2>4. n \notin Rest(l)
    BY <1>2, <1>3, <2>1, <2>2 DEF Rest
  <2>5. ~ \E i \in DOMAIN msgCh : 1 < i /\ msgCh[i] = n
    BY <1>3, <2>2
  <2>6. n # h
    BY <1>3, <2>2
  <2>7. QED
    BY <1>12, <2>1, <2>3, <2>4, <2>5, <2>6
<1>15. QED
  BY <1>8, <1>9, <1>10, <1>11, <1>13, <1>14 DEF Guarantees

LEMMA StutterW == WInv /\ UNCHANGED vars => Guarantees'
<1> SUFFICES ASSUME WInv, UNCHANGED vars PROVE Guarantees'
  OBVIOUS
<1>1. UNCHANGED <<stream, session, types, offset, toOpen, snap, next, msgCh, received,
                  cursor, picture, seen, owed, lost, sessions>>
  BY DEF vars
<1>2. Subjects' = Subjects /\ Single' = Single
  BY <1>1, SameStream
<1>3. /\ Straight' = Straight /\ Pos(cursor)' = Pos(cursor)
      /\ \A l : LastPerSubject(l)' = LastPerSubject(l) /\ Owed(l)' = Owed(l)
      /\ \A l : Rest(l)' = Rest(l)
      /\ \A m : SubjectOf(m)' = SubjectOf(m)
  BY <1>1, <1>2, SameStream DEF Straight, Pos, Rest, OfKind, SubjectOf
<1>4. Pictured' /\ NothingOlder' /\ UpToCursor'
  BY <1>1, <1>2, <1>3 DEF WInv, Pictured, NothingOlder, UpToCursor, SameKind
<1>5. OwedIsCurrent' /\ OnItsWay' /\ Resumable'
  BY <1>1, <1>2, <1>3 DEF WInv, OwedIsCurrent, OnItsWay, Resumable
<1>6. QED
  BY <1>4, <1>5 DEF Guarantees

\* What a client is owed is seen or on its way as long as nothing met a full
\* channel, through departures and resumptions (repository.go:282-342).
THEOREM WatchInductive == OffsetsRoundTrip /\ Spec => []WInv
<1> SUFFICES ASSUME OffsetsRoundTrip PROVE Spec => []WInv
  BY DEF OffsetsRoundTrip
<1>1. WInv /\ [Next]_vars => Guarantees'
  <2> SUFFICES ASSUME WInv, [Next]_vars PROVE Guarantees'
    OBVIOUS
  <2>1. ASSUME NEW k \in ChangeKinds, NEW a \in Actors, Publish(k, a) PROVE Guarantees'
    BY <2>1, PublishW
  <2>2. ASSUME NEW k \in ChangeKinds, Subscribe(k) \/ Push(k) PROVE Guarantees'
    BY <2>2, SubscribeW, PushW
  <2>3. CASE Open \/ OpenRefused \/ Close
    BY <2>3, OpenW
  <2>4. CASE Deliver
    BY <2>4, DeliverW
  <2>5. CASE UNCHANGED vars
    BY <2>5, StutterW
  <2>6. QED
    BY <2>1, <2>2, <2>3, <2>4, <2>5 DEF Next
<1>2. SInv /\ Guarantees <=> WInv
  BY DEF WInv, Guarantees
<1>3. QED
  BY <1>1, <1>2, InitW, OrderInductive, PTL DEF Spec

\* A client that is caught up, whose channel never overflowed and which asked
\* for one type or never resumed, has been given the snapshot and every later
\* record, however often it left and came back (ports.go:83-90).
THEOREM NothingMissedCorrect == OffsetsRoundTrip /\ Spec => []NothingMissed
<1>1. WInv => NothingMissed
  <2> SUFFICES ASSUME WInv, Settled, NEW k \in Subjects, NEW n \in Owed(k) PROVE n \in seen
    BY DEF NothingMissed
  <2>1. /\ session = "open" /\ msgCh = <<>> /\ snap[k] \cup Rest(k) = {} /\ lost = {}
        /\ Straight /\ toOpen = {}
    BY DEF Settled, CaughtUp, Straight, Single, WInv, SInv, Shape
  <2>2. DOMAIN msgCh = {}
    BY <2>1
  <2>3. QED
    BY <2>1, <2>2 DEF WInv, OnItsWay
<1>2. QED
  BY <1>1, WatchInductive, PTL

\* Such a client holds the latest record of every actor it asked about
\* (ports.go:83-85).
THEOREM PictureCorrect == OffsetsRoundTrip /\ Spec => []PictureCurrent
<1>1. WInv /\ NothingMissed => PictureCurrent
  <2> SUFFICES ASSUME WInv, NothingMissed, Settled, NEW k \in Subjects, NEW n \in LastPerSubject(k)
               PROVE  picture[SubjectOf(n)] = n
    BY DEF PictureCurrent
  <2>1. session = "open" /\ toOpen = {} /\ Straight
    BY DEF Settled, CaughtUp, Straight, Single, WInv, SInv, Shape
  <2>2. n \in seen
    BY <2>1 DEF WInv, OwedIsCurrent, NothingMissed
  <2>3. n \in DOMAIN stream /\ n \in Nat /\ n >= 1 /\ stream[n].kind = k /\ SubjectOf(n) \in ChangeKinds \X Actors
    <3>1. n \in DOMAIN stream /\ stream[n].kind = k
      BY DEF LastPerSubject, OfKind
    <3>2. QED
      BY <3>1, Plain DEF WInv, SubjectOf
  <2> DEFINE p == picture[SubjectOf(n)]
  <2>4. /\ p = 0 \/ (p \in seen /\ SubjectOf(p) = SubjectOf(n))
        /\ n <= p
    BY <2>1, <2>2, <2>3 DEF WInv, Pictured
  <2> HIDE DEF p
  <2>5. p \in seen /\ SubjectOf(p) = SubjectOf(n)
    BY <2>3, <2>4
  <2>6. p \in DOMAIN stream /\ p \in Nat /\ stream[p].kind = k /\ stream[p].actor = stream[n].actor
    <3>1. p \in DOMAIN stream
      BY <2>5 DEF WInv, SInv, Shape
    <3>2. QED
      BY <2>3, <2>5, <3>1, Plain DEF WInv, SubjectOf
  <2>7. p <= n
    BY <2>6 DEF LastPerSubject, OfKind
  <2>8. QED
    BY <2>3, <2>4, <2>6, <2>7 DEF p
<1>2. QED
  BY <1>1, WatchInductive, NothingMissedCorrect, PTL
=============================================================================

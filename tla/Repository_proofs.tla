-------------------------- MODULE Repository_proofs -------------------------
(***************************************************************************)
(* Proofs about Write, for any actors, callers, values and bounds: what    *)
(* holds whatever fails and wherever the process stops, and, without       *)
(* faults, that Write implements the change feed.                          *)
(***************************************************************************)
EXTENDS Repository, FiniteSetTheorems, SequenceTheorems, WellFoundedInduction, TLAPS

-----------------------------------------------------------------------------
(* Part 1: the invariant that survives crashes and faults. *)

Labels == {"idle", "raw", "lookup", "get", "fill", "compare", "publish", "set", "persist"}
Rec == [subject : Kinds \cup {"raw"}, actor : Actors, val : AllValues, id : 1 .. MaxWrites]

\* Stream s has a record of value v for actor a on subject k, and the raw
\* record of event id.
HasRecord(s, a, k, v) ==
    \E i \in DOMAIN s : s[i].subject = k /\ s[i].actor = a /\ s[i].val = v
HasRaw(s, id) == \E i \in DOMAIN s : s[i].subject = "raw" /\ s[i].id = id

\* Everything the actor state st says of actor a was published.
Known(s, a, st) == \A k \in ChangeKinds : st[k] # None => HasRecord(s, a, k, st[k])

\* A Write of caller c at label p with event e and local variable r: it has
\* published the raw record before anything else, remembers only what was
\* published, and updates the state after its own record is in the stream.
CallerInv(p, e, r, s, c) ==
    /\ p = "idle" => e = None /\ r = ZeroState
    /\ p # "idle" =>
         /\ e \in Event /\ e.actor \in Owns[c]
         /\ Known(s, e.actor, r)
         /\ p \in {"raw", "lookup", "get"} => r = ZeroState
         /\ p \notin {"raw", "publish"} => e.kind \in ChangeKinds
         /\ p # "raw" => HasRaw(s, e.id)
         /\ p \in {"set", "persist"} => HasRecord(s, e.actor, e.kind, e.val)

IInv ==
    /\ TypeOK /\ ev = [c \in Callers |-> ev[c]]
    /\ \A c \in Callers : CallerInv(pc[c], ev[c], prev[c], stream, c)
    /\ RememberedWasPublished /\ RawComesFirst

-----------------------------------------------------------------------------
\* An actor the cache or the bucket does not know has no state.
LEMMA MissingIsNoState == Missing \notin actorState
BY DEF Missing, actorState, PresenceTypes, None

\* The record of an event.
LEMMA RecordType ==
    ASSUME NEW e \in Event, NEW k \in Kinds \cup {"raw"}
    PROVE  /\ Record(k, e) \in Rec
           /\ Record(k, e).subject = k /\ Record(k, e).actor = e.actor
           /\ Record(k, e).val = e.val /\ Record(k, e).id = e.id
<1>1. e.actor \in Actors /\ e.val \in AllValues /\ e.id \in 1 .. MaxWrites
  BY DEF Event
<1>2. QED
  BY <1>1 DEF Record, Rec

\* What an event is.
LEMMA EventType ==
    ASSUME NEW e \in Event
    PROVE  /\ e.actor \in Actors /\ e.kind \in Kinds /\ e.val \in AllValues /\ e.id \in 1 .. MaxWrites
           /\ e.kind = "zone" => e.val \in Snapshots
           /\ e.kind = "presence" => e.val \in PresenceTypes
           /\ e.kind \in ChangeKinds => e.val # None
<1>1. /\ e.actor \in Actors /\ e.kind \in Kinds /\ e.val \in AllValues /\ e.id \in 1 .. MaxWrites
      /\ e.val \in Values(e.kind)
  BY DEF Event
<1>2. /\ e.kind = "zone" => e.val \in Snapshots
      /\ e.kind = "presence" => e.val \in PresenceTypes
  BY <1>1 DEF Values
<1>3. QED
  BY <1>1, <1>2, RepositoryAssumption DEF ChangeKinds, PresenceTypes, None

\* Appending keeps every record where it is.
LEMMA Grown ==
    ASSUME NEW s \in Seq(Rec), NEW x \in Rec
    PROVE  /\ Append(s, x) \in Seq(Rec)
           /\ DOMAIN Append(s, x) = DOMAIN s \cup {Len(s) + 1}
           /\ \A i \in DOMAIN s : Append(s, x)[i] = s[i] /\ i \in Nat /\ i < Len(s) + 1
           /\ Append(s, x)[Len(s) + 1] = x
OBVIOUS

\* What was published stays published.
LEMMA KnownGrows ==
    ASSUME NEW s \in Seq(Rec), NEW x \in Rec
    PROVE  /\ \A a, k, v : HasRecord(s, a, k, v) => HasRecord(Append(s, x), a, k, v)
           /\ \A id : HasRaw(s, id) => HasRaw(Append(s, x), id)
           /\ \A a, st : Known(s, a, st) => Known(Append(s, x), a, st)
<1>1. \A a, k, v : HasRecord(s, a, k, v) => HasRecord(Append(s, x), a, k, v)
  BY Grown DEF HasRecord
<1>2. \A id : HasRaw(s, id) => HasRaw(Append(s, x), id)
  BY Grown DEF HasRaw
<1>3. \A a, st : Known(s, a, st) => Known(Append(s, x), a, st)
  BY <1>1 DEF Known
<1>4. QED
  BY <1>1, <1>2, <1>3

LEMMA CallerGrows ==
    ASSUME NEW s \in Seq(Rec), NEW x \in Rec, NEW p, NEW e, NEW r, NEW c, CallerInv(p, e, r, s, c)
    PROVE  CallerInv(p, e, r, Append(s, x), c)
BY KnownGrows DEF CallerInv

\* The new record is found.
LEMMA Found ==
    ASSUME NEW s \in Seq(Rec), NEW e \in Event
    PROVE  /\ \A k \in Kinds : HasRecord(Append(s, Record(k, e)), e.actor, k, e.val)
           /\ HasRaw(Append(s, Record("raw", e)), e.id)
<1>1. ASSUME NEW k \in Kinds
      PROVE  HasRecord(Append(s, Record(k, e)), e.actor, k, e.val)
  BY RecordType, Grown DEF HasRecord
<1>2. HasRaw(Append(s, Record("raw", e)), e.id)
  BY RecordType, Grown DEF HasRaw
<1>3. QED
  BY <1>1, <1>2

\* RememberedWasPublished in terms of Known.
LEMMA RememberedIsKnown ==
    RememberedWasPublished <=>
        \A a \in Actors : \A st \in {kv[a], cache[a]} : st # Missing => Known(stream, a, st)
BY DEF RememberedWasPublished, Known, HasRecord

\* The zero state and a state one of whose fields is updated.
LEMMA ZeroStateType ==
    ZeroState \in actorState /\ \A s, a : Known(s, a, ZeroState)
BY DEF ZeroState, actorState, Known, ChangeKinds, None

LEMMA UpdateType ==
    ASSUME NEW st \in actorState, NEW e \in Event, e.kind \in ChangeKinds
    PROVE  LET new == [st EXCEPT ![e.kind] = e.val]
           IN  /\ new \in actorState
               /\ new[e.kind] = e.val
               /\ \A k \in ChangeKinds \ {e.kind} : new[k] = st[k]
<1>1. CASE e.kind = "zone"
  BY <1>1, EventType DEF actorState, ChangeKinds
<1>2. CASE e.kind = "presence"
  BY <1>2, EventType DEF actorState, ChangeKinds
<1>3. QED
  BY <1>1, <1>2 DEF ChangeKinds

-----------------------------------------------------------------------------
\* The parts of the state the callers do not own, after a step.
SharedOK ==
    /\ kv \in [Actors -> actorState \cup {Missing}]
    /\ cache \in [Actors -> actorState \cup {Missing}]
    /\ down \in BOOLEAN
    /\ acked \in [Actors -> [Kinds -> AllValues \cup {None}]]
    /\ writes \in 0 .. MaxWrites /\ restarts \in 0 .. MaxRestarts
    /\ kvFaults \in 0 .. MaxKvFaults /\ publishFaults \in 0 .. MaxPublishFaults
    /\ \A a \in Actors : \A st \in {kv[a], cache[a]} : st # Missing => Known(stream, a, st)

\* The local state of every caller, of which c alone has moved.
LocalStep(c) ==
    /\ pc' \in [Callers -> Labels] /\ prev' \in [Callers -> actorState]
    /\ ev' = [d \in Callers |-> ev'[d]]
    /\ \A d \in Callers \ {c} : pc'[d] = pc[d] /\ ev'[d] = ev[d] /\ prev'[d] = prev[d]

\* A step of c keeps the invariant when it keeps what is said of c and of the
\* shared state, and publishes at most one record, after its raw record.
LEMMA StepKeeps ==
    ASSUME IInv, NEW c \in Callers, LocalStep(c), SharedOK',
           CallerInv(pc'[c], ev'[c], prev'[c], stream', c),
           \/ stream' = stream
           \/ \E x \in Rec : /\ stream' = Append(stream, x)
                             /\ x.subject # "raw" => HasRaw(stream, x.id)
    PROVE  IInv'
<1>1. stream \in Seq(Rec)
  BY DEF IInv, TypeOK, Rec
<1>2. stream' \in Seq(Rec) /\ \A d \in Callers : CallerInv(pc'[d], ev'[d], prev'[d], stream', d)
  <2>1. CASE stream' = stream
    BY <1>1, <2>1 DEF IInv, LocalStep
  <2>2. ASSUME NEW x \in Rec, stream' = Append(stream, x)
        PROVE  stream' \in Seq(Rec) /\ \A d \in Callers : CallerInv(pc'[d], ev'[d], prev'[d], stream', d)
    <3>1. stream' \in Seq(Rec)
      BY <1>1, <2>2
    <3>2. \A d \in Callers \ {c} : CallerInv(pc[d], ev[d], prev[d], stream', d)
      BY <1>1, <2>2, CallerGrows DEF IInv
    <3>3. QED
      BY <3>1, <3>2 DEF LocalStep
  <2>3. QED
    BY <2>1, <2>2
<1>3. TypeOK' /\ (ev = [d \in Callers |-> ev[d]])'
  <2>1. \A d \in Callers : IF pc'[d] = "idle" THEN ev'[d] = None ELSE ev'[d] \in Event
    BY <1>2 DEF CallerInv
  <2>2. QED
    BY <1>2, <2>1 DEF TypeOK, LocalStep, SharedOK, Labels, Rec
<1>4. RememberedWasPublished'
  BY DEF SharedOK, RememberedWasPublished, Known, HasRecord
<1>5. RawComesFirst'
  <2>1. CASE stream' = stream
    BY <2>1 DEF IInv, RawComesFirst
  <2>2. ASSUME NEW x \in Rec, stream' = Append(stream, x), x.subject # "raw" => HasRaw(stream, x.id)
        PROVE  RawComesFirst'
    <3> SUFFICES ASSUME NEW i \in DOMAIN stream', stream'[i].subject # "raw"
                 PROVE  \E j \in 1 .. i - 1 :
                            stream'[j].subject = "raw" /\ stream'[j].id = stream'[i].id
      BY DEF RawComesFirst
    <3>1. CASE i = Len(stream) + 1
      <4>1. PICK j \in DOMAIN stream : stream[j].subject = "raw" /\ stream[j].id = x.id
        BY <1>1, <2>2, <3>1, Grown DEF HasRaw
      <4>2. j \in 1 .. i - 1 /\ stream'[j] = stream[j] /\ stream'[i] = x
        BY <1>1, <2>2, <3>1, Grown
      <4>3. QED
        BY <4>1, <4>2
    <3>2. CASE i # Len(stream) + 1
      <4>1. i \in DOMAIN stream /\ stream'[i] = stream[i]
        BY <1>1, <2>2, <3>2, Grown
      <4>2. PICK j \in 1 .. i - 1 : stream[j].subject = "raw" /\ stream[j].id = stream[i].id
        BY <4>1 DEF IInv, RawComesFirst
      <4>3. j \in DOMAIN stream /\ stream'[j] = stream[j]
        BY <1>1, <2>2, <4>1, Grown
      <4>4. QED
        BY <4>1, <4>2, <4>3
    <3>3. QED
      BY <3>1, <3>2
  <2>3. QED
    BY <2>1, <2>2
<1>6. QED
  BY <1>2, <1>3, <1>4, <1>5 DEF IInv

\* The shared state as IInv has it, and after records were added.
LEMMA SharedNow ==
    ASSUME IInv
    PROVE  /\ SharedOK /\ stream \in Seq(Rec)
           /\ pc \in [Callers -> Labels] /\ prev \in [Callers -> actorState]
           /\ ev = [c \in Callers |-> ev[c]]
<1>1. \A a \in Actors : \A st \in {kv[a], cache[a]} : st # Missing => Known(stream, a, st)
  BY RememberedIsKnown DEF IInv
<1>2. QED
  BY <1>1 DEF IInv, TypeOK, SharedOK, Rec, Labels

LEMMA SharedGrows ==
    ASSUME IInv, NEW x \in Rec, stream' = Append(stream, x), UNCHANGED <<kv, cache>>
    PROVE  \A a \in Actors : \A st \in {kv'[a], cache'[a]} : st # Missing => Known(stream', a, st)
<1>1. stream \in Seq(Rec)
  BY SharedNow
<1>2. \A a \in Actors : \A st \in {kv[a], cache[a]} : st # Missing => Known(stream, a, st)
  BY SharedNow DEF SharedOK
<1>3. QED
  BY <1>1, <1>2, KnownGrows

\* The two ways in which a step moves its caller: to another label, or back.
LEMMA GotoStep ==
    ASSUME IInv, NEW c \in Callers, NEW p \in Labels, Goto(c, p), UNCHANGED ev,
           NEW r \in actorState, prev' = [prev EXCEPT ![c] = r]
    PROVE  LocalStep(c) /\ pc'[c] = p /\ ev'[c] = ev[c] /\ prev'[c] = r
BY SharedNow DEF LocalStep, Goto

LEMMA StayStep ==
    ASSUME IInv, NEW c \in Callers, NEW p \in Labels, Goto(c, p), UNCHANGED <<ev, prev>>
    PROVE  LocalStep(c) /\ pc'[c] = p /\ ev'[c] = ev[c] /\ prev'[c] = prev[c]
BY SharedNow DEF LocalStep, Goto

LEMMA ReturnStep ==
    ASSUME IInv, NEW c \in Callers,
           pc' = [pc EXCEPT ![c] = "idle"], ev' = [ev EXCEPT ![c] = None],
           prev' = [prev EXCEPT ![c] = ZeroState]
    PROVE  LocalStep(c) /\ \A s : CallerInv(pc'[c], ev'[c], prev'[c], s, c)
<1>1. /\ pc \in [Callers -> Labels] /\ prev \in [Callers -> actorState]
      /\ ev = [d \in Callers |-> ev[d]]
  BY SharedNow
<1>2. pc'[c] = "idle" /\ ev'[c] = None /\ prev'[c] = ZeroState
  BY <1>1
<1>3. LocalStep(c)
  BY <1>1, ZeroStateType DEF LocalStep, Labels
<1>4. QED
  BY <1>2, <1>3 DEF CallerInv

-----------------------------------------------------------------------------
\* Call and the raw record.
LEMMA CallKeeps ==
    ASSUME IInv, NEW c \in Callers, NEW a \in Owns[c], NEW k \in Kinds, NEW v \in Values(k),
           Call(c, a, k, v)
    PROVE  IInv'
<1> DEFINE e == [kind |-> k, actor |-> a, val |-> v, id |-> writes + 1]
<1>1. /\ pc[c] = "idle" /\ writes < MaxWrites /\ writes' = writes + 1
      /\ ev' = [ev EXCEPT ![c] = e] /\ pc' = [pc EXCEPT ![c] = "raw"]
      /\ UNCHANGED <<stream, kv, cache, prev, down, acked, restarts, kvFaults, publishFaults>>
  BY DEF Call, Goto, faultVars
<1>2. /\ SharedOK /\ pc \in [Callers -> Labels] /\ prev \in [Callers -> actorState]
      /\ ev = [d \in Callers |-> ev[d]] /\ stream \in Seq(Rec)
  BY SharedNow
<1>3. e \in Event /\ e.actor = a
  <2>1. writes + 1 \in 1 .. MaxWrites
    BY <1>1, <1>2, RepositoryAssumption DEF SharedOK
  <2>2. a \in Actors /\ v \in AllValues
    BY RepositoryAssumption DEF Values, Kinds, AllValues
  <2>3. QED
    BY <2>1, <2>2 DEF Event
<1> HIDE DEF e
<1>4. LocalStep(c) /\ pc'[c] = "raw" /\ ev'[c] = e /\ prev'[c] = prev[c]
  BY <1>1, <1>2 DEF LocalStep, Labels
<1>5. CallerInv(pc'[c], ev'[c], prev'[c], stream', c)
  <2>1. prev[c] = ZeroState
    BY <1>1 DEF IInv, CallerInv
  <2>2. QED
    BY <1>3, <1>4, <2>1, ZeroStateType DEF CallerInv
<1>6. SharedOK'
  <2>1. writes' \in 0 .. MaxWrites
    BY <1>1, <1>2, RepositoryAssumption DEF SharedOK
  <2>2. QED
    BY <1>1, <1>2, <2>1 DEF SharedOK
<1>7. QED
  BY <1>1, <1>4, <1>5, <1>6, StepKeeps

LEMMA PublishRawKeeps ==
    ASSUME IInv, NEW c \in Callers, PublishRaw(c)
    PROVE  IInv'
<1> DEFINE e == ev[c]
           p == IF e.kind = "command" THEN "publish" ELSE "lookup"
<1>1. /\ pc[c] = "raw" /\ stream' = Append(stream, Record("raw", e)) /\ Goto(c, p)
      /\ UNCHANGED <<kv, cache, ev, prev, down, acked, writes, restarts, kvFaults, publishFaults>>
  BY DEF PublishRaw, faultVars
<1>2. /\ e \in Event /\ e.actor \in Owns[c] /\ prev[c] = ZeroState
  BY <1>1 DEF IInv, CallerInv
<1>3. SharedOK /\ stream \in Seq(Rec)
  BY SharedNow
<1>4. Record("raw", e) \in Rec /\ Record("raw", e).subject = "raw"
  BY <1>2, RecordType
<1>5. LocalStep(c) /\ pc'[c] = p /\ ev'[c] = e /\ prev'[c] = prev[c]
  BY <1>1, StayStep DEF Labels
<1>6. CallerInv(pc'[c], ev'[c], prev'[c], stream', c)
  <2>1. HasRaw(stream', e.id)
    BY <1>1, <1>2, <1>3, Found
  <2>2. e.kind \in Kinds
    BY <1>2, EventType
  <2>3. QED
    BY <1>2, <1>5, <2>1, <2>2, ZeroStateType DEF CallerInv, ChangeKinds, Kinds
<1>7. SharedOK'
  BY <1>1, <1>3, <1>4, SharedGrows DEF SharedOK
<1>8. QED
  BY <1>1, <1>4, <1>5, <1>6, <1>7, StepKeeps

\* Looking the actor's state up.
LEMMA LookupKeeps ==
    ASSUME IInv, NEW c \in Callers, Lookup(c) \/ KvGet(c) \/ KvGetFails(c)
    PROVE  IInv'
<1> DEFINE e == ev[c]
<1>1. /\ pc[c] \in {"lookup", "get"}
      /\ UNCHANGED <<stream, kv, cache, ev, down, acked, writes, restarts, publishFaults>>
      /\ kvFaults' = kvFaults \/ (kvFaults < MaxKvFaults /\ kvFaults' = kvFaults + 1)
  BY DEF Lookup, KvGet, KvGetFails, faultVars
<1>2. /\ e \in Event /\ e.actor \in Owns[c] /\ prev[c] = ZeroState /\ e.kind \in ChangeKinds
      /\ HasRaw(stream, e.id) /\ e.actor \in Actors
  BY <1>1, EventType DEF IInv, CallerInv
<1>3. SharedOK
  BY SharedNow
<1>4. \/ \E p \in {"get", "compare"} : Goto(c, p) /\ UNCHANGED prev
      \/ \E p \in {"fill", "compare"} : \E st \in {kv[e.actor], cache[e.actor]} :
             st # Missing /\ Goto(c, p) /\ prev' = [prev EXCEPT ![c] = st]
  BY <1>1 DEF Lookup, KvGet, KvGetFails
<1>5. LocalStep(c) /\ CallerInv(pc'[c], ev'[c], prev'[c], stream', c)
  <2>1. ASSUME NEW p \in {"get", "compare"}, Goto(c, p), UNCHANGED prev
        PROVE  LocalStep(c) /\ CallerInv(pc'[c], ev'[c], prev'[c], stream', c)
    <3>1. LocalStep(c) /\ pc'[c] = p /\ ev'[c] = e /\ prev'[c] = prev[c]
      BY <1>1, <2>1, StayStep DEF Labels
    <3>2. QED
      BY <1>1, <1>2, <3>1, ZeroStateType DEF CallerInv
  <2>2. ASSUME NEW p \in {"fill", "compare"}, NEW st \in {kv[e.actor], cache[e.actor]},
               st # Missing, Goto(c, p), prev' = [prev EXCEPT ![c] = st]
        PROVE  LocalStep(c) /\ CallerInv(pc'[c], ev'[c], prev'[c], stream', c)
    <3>1. st \in actorState /\ Known(stream, e.actor, st)
      BY <1>2, <1>3, <2>2 DEF SharedOK
    <3>2. LocalStep(c) /\ pc'[c] = p /\ ev'[c] = e /\ prev'[c] = st
      <4>1. p \in Labels /\ UNCHANGED ev
        BY <1>1 DEF Labels
      <4> HIDE DEF e
      <4>2. LocalStep(c) /\ pc'[c] = p /\ ev'[c] = ev[c] /\ prev'[c] = st
        BY <2>2, <3>1, <4>1, GotoStep
      <4>3. QED
        BY <4>2 DEF e
    <3>3. QED
      BY <1>1, <1>2, <3>1, <3>2 DEF CallerInv
  <2>3. QED
    BY <1>4, <2>1, <2>2
<1>6. SharedOK'
  <2>1. kvFaults' \in 0 .. MaxKvFaults
    BY <1>1, <1>3, RepositoryAssumption DEF SharedOK
  <2>2. QED
    BY <1>1, <1>3, <2>1 DEF SharedOK
<1>7. QED
  BY <1>1, <1>5, <1>6, StepKeeps

\* Filling and updating the cache.
LEMMA CacheKeeps ==
    ASSUME IInv, NEW c \in Callers, FillCache(c) \/ SetCache(c)
    PROVE  IInv'
<1> DEFINE e == ev[c]
           st == prev'[c]
<1>1. /\ pc[c] \in {"fill", "set"} /\ e \in Event /\ e.actor \in Owns[c] /\ e.kind \in ChangeKinds
      /\ HasRaw(stream, e.id) /\ Known(stream, e.actor, prev[c]) /\ e.actor \in Actors
      /\ UNCHANGED <<stream, kv, ev, down, acked, writes, restarts, kvFaults, publishFaults>>
  BY EventType DEF FillCache, SetCache, IInv, CallerInv, faultVars
<1>2. SharedOK /\ prev[c] \in actorState
  BY SharedNow
<1>3. /\ LocalStep(c) /\ ev'[c] = e /\ st \in actorState /\ Known(stream, e.actor, st)
      /\ cache' = [cache EXCEPT ![e.actor] = st]
      /\ CallerInv(pc'[c], ev'[c], prev'[c], stream', c)
  <2>1. CASE FillCache(c)
    <3>1. LocalStep(c) /\ pc'[c] = "compare" /\ ev'[c] = e /\ prev'[c] = prev[c]
      BY <2>1, StayStep DEF FillCache, Labels
    <3>2. QED
      BY <1>1, <1>2, <2>1, <3>1 DEF FillCache, CallerInv
  <2>2. CASE SetCache(c)
    <3>1. /\ Remembered(c) \in actorState /\ Remembered(c)[e.kind] = e.val
          /\ \A k \in ChangeKinds \ {e.kind} : Remembered(c)[k] = prev[c][k]
      BY <1>1, <1>2, UpdateType DEF Remembered
    <3>2. HasRecord(stream, e.actor, e.kind, e.val)
      BY <2>2 DEF SetCache, IInv, CallerInv
    <3>3. Known(stream, e.actor, Remembered(c))
      BY <1>1, <3>1, <3>2 DEF Known
    <3>4. LocalStep(c) /\ pc'[c] = "persist" /\ ev'[c] = e /\ prev'[c] = Remembered(c)
      BY <2>2, <3>1, GotoStep DEF SetCache, Labels
    <3>5. QED
      BY <1>1, <2>2, <3>1, <3>2, <3>3, <3>4 DEF SetCache, CallerInv
  <2>3. QED
    BY <2>1, <2>2
<1>4. SharedOK'
  <2>1. \A a \in Actors : cache'[a] = IF a = e.actor THEN st ELSE cache[a]
    BY <1>1, <1>2, <1>3 DEF SharedOK
  <2>2. cache' \in [Actors -> actorState \cup {Missing}]
    BY <1>1, <1>2, <1>3 DEF SharedOK
  <2> HIDE DEF e, st
  <2>3. \A a \in Actors : \A x \in {kv'[a], cache'[a]} : x # Missing => Known(stream', a, x)
    BY <1>1, <1>2, <1>3, <2>1 DEF SharedOK
  <2>4. QED
    BY <1>1, <1>2, <2>2, <2>3 DEF SharedOK
<1>5. QED
  BY <1>1, <1>3, <1>4, StepKeeps

\* Detecting a repeat, and publishing what is none.
LEMMA AckedType ==
    ASSUME IInv, NEW c \in Callers, ev[c] \in Event, NEW v \in AllValues \cup {None},
           acked' = [acked EXCEPT ![ev[c].actor][ev[c].kind] = v]
    PROVE  acked' \in [Actors -> [Kinds -> AllValues \cup {None}]]
<1>1. acked \in [Actors -> [Kinds -> AllValues \cup {None}]]
  BY SharedNow DEF SharedOK
<1>2. ev[c].actor \in Actors /\ ev[c].kind \in Kinds
  BY EventType
<1>3. QED
  BY <1>1, <1>2

LEMMA CompareKeeps ==
    ASSUME IInv, NEW c \in Callers, Compare(c)
    PROVE  IInv'
<1>1. /\ pc[c] = "compare" /\ UNCHANGED <<stream, kv, cache, down, writes, restarts, kvFaults, publishFaults>>
      /\ ReturnOk(c) \/ (Goto(c, "publish") /\ UNCHANGED <<ev, prev, acked>>)
  BY DEF Compare, faultVars
<1>2. SharedOK /\ ev[c] \in Event
  BY <1>1, SharedNow DEF IInv, CallerInv
<1>3. CASE ReturnOk(c)
  <2>1. LocalStep(c) /\ CallerInv(pc'[c], ev'[c], prev'[c], stream', c)
    BY <1>3, ReturnStep DEF ReturnOk
  <2>2. acked' \in [Actors -> [Kinds -> AllValues \cup {None}]]
    <3>1. ev[c].val \in AllValues \cup {None}
      BY <1>2, EventType
    <3>2. QED
      BY <1>2, <1>3, <3>1, AckedType DEF ReturnOk
  <2>3. SharedOK'
    BY <1>1, <1>2, <2>2 DEF SharedOK
  <2>4. QED
    BY <1>1, <2>1, <2>3, StepKeeps
<1>4. CASE Goto(c, "publish") /\ UNCHANGED <<ev, prev, acked>>
  <2>1. LocalStep(c) /\ pc'[c] = "publish" /\ ev'[c] = ev[c] /\ prev'[c] = prev[c]
    BY <1>4, StayStep DEF Labels
  <2>2. CallerInv(pc'[c], ev'[c], prev'[c], stream', c)
    BY <1>1, <2>1 DEF IInv, CallerInv
  <2>3. SharedOK'
    BY <1>1, <1>2, <1>4 DEF SharedOK
  <2>4. QED
    BY <1>1, <2>1, <2>2, <2>3, StepKeeps
<1>5. QED
  BY <1>1, <1>3, <1>4

LEMMA PublishChangeKeeps ==
    ASSUME IInv, NEW c \in Callers, PublishChange(c)
    PROVE  IInv'
<1> DEFINE e == ev[c]
           x == Record(e.kind, e)
<1>1. /\ pc[c] = "publish" /\ stream' = Append(stream, x)
      /\ UNCHANGED <<kv, cache, down, writes, restarts, kvFaults, publishFaults>>
  BY DEF PublishChange, faultVars
<1>2. /\ SharedOK /\ stream \in Seq(Rec) /\ e \in Event /\ e.actor \in Owns[c]
      /\ Known(stream, e.actor, prev[c]) /\ HasRaw(stream, e.id) /\ e.kind \in Kinds
  BY <1>1, SharedNow, EventType DEF IInv, CallerInv
<1>3. x \in Rec /\ x.id = e.id
  BY <1>2, RecordType
<1>4. /\ HasRecord(stream', e.actor, e.kind, e.val) /\ Known(stream', e.actor, prev[c])
      /\ HasRaw(stream', e.id)
  BY <1>1, <1>2, <1>3, Found, KnownGrows
<1>5. CASE ReturnOk(c)
  <2>1. LocalStep(c) /\ CallerInv(pc'[c], ev'[c], prev'[c], stream', c)
    BY <1>5, ReturnStep DEF ReturnOk
  <2>2. acked' \in [Actors -> [Kinds -> AllValues \cup {None}]]
    <3>1. ev[c].val \in AllValues \cup {None}
      BY <1>2, EventType
    <3>2. QED
      BY <1>2, <1>5, <3>1, AckedType DEF ReturnOk
  <2> HIDE DEF x
  <2>3. SharedOK'
    BY <1>1, <1>2, <1>3, <2>2, SharedGrows DEF SharedOK
  <2>4. QED
    BY <1>1, <1>2, <1>3, <2>1, <2>3, StepKeeps
<1>6. CASE Goto(c, "set") /\ UNCHANGED <<ev, prev, acked>> /\ e.kind # "command"
  <2>1. LocalStep(c) /\ pc'[c] = "set" /\ ev'[c] = e /\ prev'[c] = prev[c]
    BY <1>6, StayStep DEF Labels
  <2>2. e.kind \in ChangeKinds
    BY <1>2, <1>6 DEF Kinds, ChangeKinds
  <2>3. CallerInv(pc'[c], ev'[c], prev'[c], stream', c)
    BY <1>2, <1>4, <2>1, <2>2 DEF CallerInv
  <2> HIDE DEF x
  <2>4. SharedOK'
    BY <1>1, <1>2, <1>3, <1>6, SharedGrows DEF SharedOK
  <2>5. QED
    BY <1>1, <1>2, <1>3, <2>1, <2>3, <2>4, StepKeeps
<1>7. QED
  BY <1>5, <1>6 DEF PublishChange

\* A publish that reports an error, whether or not the stream took it.
LEMMA PublishFailsKeeps ==
    ASSUME IInv, NEW c \in Callers, PublishFails(c)
    PROVE  IInv'
<1> DEFINE e == ev[c]
           subject == IF pc[c] = "raw" THEN "raw" ELSE e.kind
           x == Record(subject, e)
<1>1. /\ pc[c] \in {"raw", "publish"} /\ (stream' = stream \/ stream' = Append(stream, x))
      /\ UNCHANGED <<kv, cache, writes, restarts, kvFaults>> /\ down' = TRUE
      /\ publishFaults' = publishFaults
         \/ (publishFaults < MaxPublishFaults /\ publishFaults' = publishFaults + 1)
      /\ acked' = [acked EXCEPT ![e.actor][e.kind] = None]
  BY DEF PublishFails, ReturnError
<1>2. /\ SharedOK /\ stream \in Seq(Rec) /\ e \in Event /\ e.kind \in Kinds
      /\ pc[c] = "publish" => HasRaw(stream, e.id)
  BY <1>1, SharedNow, EventType DEF IInv, CallerInv
<1>3. x \in Rec /\ x.subject = subject /\ x.id = e.id
  BY <1>2, RecordType
<1>4. LocalStep(c) /\ CallerInv(pc'[c], ev'[c], prev'[c], stream', c)
  BY ReturnStep DEF PublishFails, ReturnError
<1>5. acked' \in [Actors -> [Kinds -> AllValues \cup {None}]]
  BY <1>1, <1>2, AckedType
<1>6. x.subject # "raw" => HasRaw(stream, x.id)
  BY <1>1, <1>2, <1>3
<1> HIDE DEF x
<1>7. SharedOK'
  <2>1. publishFaults' \in 0 .. MaxPublishFaults
    BY <1>1, <1>2, RepositoryAssumption DEF SharedOK
  <2>2. \A a \in Actors : \A st \in {kv'[a], cache'[a]} : st # Missing => Known(stream', a, st)
    BY <1>1, <1>2, <1>3, SharedGrows DEF SharedOK
  <2>3. QED
    BY <1>1, <1>2, <1>5, <2>1, <2>2 DEF SharedOK
<1>8. QED
  BY <1>1, <1>3, <1>4, <1>6, <1>7, StepKeeps

\* The put, and its failure.
LEMMA PersistKeeps ==
    ASSUME IInv, NEW c \in Callers, Persist(c) \/ PersistFails(c)
    PROVE  IInv'
<1> DEFINE e == ev[c]
<1>1. /\ pc[c] = "persist" /\ ReturnOk(c)
      /\ UNCHANGED <<stream, cache, down, writes, restarts, publishFaults>>
      /\ kv' = kv \/ kv' = [kv EXCEPT ![e.actor] = prev[c]]
      /\ kvFaults' = kvFaults \/ (kvFaults < MaxKvFaults /\ kvFaults' = kvFaults + 1)
  BY DEF Persist, PersistFails, faultVars
<1>2. /\ SharedOK /\ e \in Event /\ e.actor \in Actors /\ e.val \in AllValues \cup {None}
      /\ Known(stream, e.actor, prev[c]) /\ prev[c] \in actorState
  BY <1>1, SharedNow, EventType DEF IInv, CallerInv
<1>3. LocalStep(c) /\ CallerInv(pc'[c], ev'[c], prev'[c], stream', c)
  BY <1>1, ReturnStep DEF ReturnOk
<1>4. acked' \in [Actors -> [Kinds -> AllValues \cup {None}]]
  BY <1>1, <1>2, AckedType DEF ReturnOk
<1>5. kvFaults' \in 0 .. MaxKvFaults
  BY <1>1, <1>2, RepositoryAssumption DEF SharedOK
<1>6. /\ kv' \in [Actors -> actorState \cup {Missing}]
      /\ \A a \in Actors : kv'[a] \in {kv[a], prev[c]} /\ (a # e.actor => kv'[a] = kv[a])
  BY <1>1, <1>2 DEF SharedOK
<1> HIDE DEF e
<1>7. \A a \in Actors : \A st \in {kv'[a], cache'[a]} : st # Missing => Known(stream', a, st)
  BY <1>1, <1>2, <1>6 DEF SharedOK
<1>8. SharedOK'
  BY <1>1, <1>2, <1>4, <1>5, <1>6, <1>7 DEF SharedOK
<1>9. QED
  BY <1>1, <1>3, <1>8, StepKeeps

\* A restart forgets the cache and every Write under way.
LEMMA RestartKeeps ==
    ASSUME IInv, Restart
    PROVE  IInv'
<1>1. /\ restarts < MaxRestarts /\ restarts' = restarts + 1 /\ down' = FALSE
      /\ cache' = [a \in Actors |-> Missing] /\ pc' = [c \in Callers |-> "idle"]
      /\ ev' = [c \in Callers |-> None] /\ prev' = [c \in Callers |-> ZeroState]
      /\ UNCHANGED <<stream, kv, writes, kvFaults, publishFaults>>
  BY DEF Restart
<1>2. SharedOK /\ stream \in Seq(Rec)
  BY SharedNow
<1>3. acked' \in [Actors -> [Kinds -> AllValues \cup {None}]]
  BY <1>2 DEF Restart, SharedOK
<1>4. restarts' \in 0 .. MaxRestarts
  BY <1>1, <1>2, RepositoryAssumption DEF SharedOK
<1>5. \A c \in Callers : pc'[c] = "idle" /\ ev'[c] = None /\ prev'[c] = ZeroState
  BY <1>1
<1>6. TypeOK'
  <2>1. pc' \in [Callers -> Labels] /\ prev' \in [Callers -> actorState]
    BY <1>1, ZeroStateType DEF Labels
  <2>2. QED
    BY <1>1, <1>2, <1>3, <1>4, <1>5, <2>1 DEF TypeOK, SharedOK, Labels, Rec
<1>7. \A c \in Callers : CallerInv(pc'[c], ev'[c], prev'[c], stream', c)
  BY <1>5 DEF CallerInv
<1>8. RememberedWasPublished' /\ RawComesFirst'
  BY <1>1 DEF IInv, RememberedWasPublished, RawComesFirst
<1>9. QED
  BY <1>1, <1>6, <1>7, <1>8 DEF IInv

\* The initial state, and a step that changes nothing.
LEMMA InitInv == Init => IInv
<1> SUFFICES ASSUME Init PROVE IInv
  OBVIOUS
<1>1. stream = <<>> /\ stream \in Seq(Rec) /\ DOMAIN stream = {}
  BY DEF Init
<1>2. TypeOK
  <2>1. /\ writes \in 0 .. MaxWrites /\ restarts \in 0 .. MaxRestarts
        /\ kvFaults \in 0 .. MaxKvFaults /\ publishFaults \in 0 .. MaxPublishFaults
    BY RepositoryAssumption DEF Init
  <2>2. stream \in Seq([subject : Kinds \cup {"raw"}, actor : Actors, val : AllValues, id : 1 .. MaxWrites])
    BY <1>1 DEF Rec
  <2>3. prev \in [Callers -> actorState]
    BY ZeroStateType DEF Init
  <2>4. QED
    BY <2>1, <2>2, <2>3 DEF Init, TypeOK
<1>3. \A c \in Callers : CallerInv(pc[c], ev[c], prev[c], stream, c)
  BY DEF Init, CallerInv
<1>4. RememberedWasPublished /\ RawComesFirst
  BY <1>1 DEF Init, RememberedWasPublished, RawComesFirst
<1>5. ev = [c \in Callers |-> ev[c]]
  BY DEF Init
<1>6. QED
  BY <1>2, <1>3, <1>4, <1>5 DEF IInv

LEMMA StutterInv == IInv /\ UNCHANGED vars => IInv'
BY DEF vars, memVars, faultVars, IInv, TypeOK, RememberedWasPublished, RawComesFirst

\* Every Write, whatever fails in it, and every restart keep the invariant
\* (repository.go:176-384).
THEOREM Inductive == Spec => []IInv
<1>1. IInv /\ [Next]_vars => IInv'
  <2> SUFFICES ASSUME IInv, [Next]_vars PROVE IInv'
    OBVIOUS
  <2>1. ASSUME NEW c \in Callers, NEW a \in Owns[c], NEW k \in Kinds, NEW v \in Values(k),
               Call(c, a, k, v)
        PROVE  IInv'
    BY <2>1, CallKeeps
  <2>2. ASSUME NEW c \in Callers, WriteStep(c)
        PROVE  IInv'
    BY <2>2, PublishRawKeeps, LookupKeeps, CacheKeeps, CompareKeeps, PublishChangeKeeps,
       PublishFailsKeeps, PersistKeeps DEF WriteStep
  <2>3. CASE Restart
    BY <2>3, RestartKeeps
  <2>4. CASE UNCHANGED vars
    BY <2>4, StutterInv
  <2>5. QED
    BY <2>1, <2>2, <2>3, <2>4 DEF Next
<1>2. QED
  BY <1>1, InitInv, PTL DEF Spec

\* Every variable of Write stays in its type, crashes and faults included
\* (repository.go:96-128, 176-384).
THEOREM TypeCorrect == Spec => []TypeOK
<1>1. IInv => TypeOK
  BY DEF IInv
<1>2. QED
  BY <1>1, Inductive, PTL

\* The cache and the bucket never hold a value no subscriber was told: the
\* derived publish comes before the state update on every path (repository.go:226-238,
\* 255-265).
THEOREM RememberedCorrect == Spec => []RememberedWasPublished
<1>1. IInv => RememberedWasPublished
  BY DEF IInv
<1>2. QED
  BY <1>1, Inductive, PTL

\* The offset Write returns, that of the raw record, lies before the derived
\* record of the event, for any interleaving of callers (repository.go:176-197).
THEOREM RawFirst == Spec => []RawComesFirst
<1>1. IInv => RawComesFirst
  BY DEF IInv
<1>2. QED
  BY <1>1, Inductive, PTL

-----------------------------------------------------------------------------
(* Part 2: the change feed, while nothing fails and every actor has one     *)
(* caller, which is how Service.Start feeds Write.                          *)

Undisturbed ==
    /\ MaxKvFaults = 0 /\ MaxPublishFaults = 0 /\ ~CrashMidWrite
    /\ \A c, d \in Callers : c # d => Owns[c] \cap Owns[d] = {}

\* What an actor state, possibly missing, says of kind k.
Recalled(st, k) == IF st = Missing THEN None ELSE st[k]

\* A Write of a change of kind k of actor a has reached one of the labels.
Changing(a, k, labels) ==
    \E c \in Callers : pc[c] \in labels /\ ev[c].actor = a /\ ev[c].kind = k

\* What a Write knows of its actor: prev is the end of both feeds from the
\* lookup on, the new record differs from the one before it, and what is to be
\* remembered is the end of the feeds again.
CallerFeed(p, e, r, s) ==
    /\ p \in {"compare", "fill", "publish"} /\ e.kind \in ChangeKinds =>
         \A k \in ChangeKinds : r[k] = LastOn(s, e.actor, k)
    /\ p = "publish" /\ e.kind \in ChangeKinds => r[e.kind] # e.val
    /\ p \in {"set", "persist"} =>
         /\ LastOn(s, e.actor, e.kind) = e.val
         /\ \A k \in ChangeKinds \ {e.kind} : r[k] = LastOn(s, e.actor, k)
    /\ p = "persist" => r[e.kind] = e.val

FeedInv ==
    /\ ~down
    /\ \A a \in Actors, k \in ChangeKinds :
         Recalled(kv[a], k) = LastOn(stream, a, k) \/ Changing(a, k, {"set", "persist"})
    /\ \A a \in Actors, k \in ChangeKinds :
         \/ cache[a] = Missing \/ cache[a][k] = LastOn(stream, a, k)
         \/ Changing(a, k, {"set"})
    /\ \A c \in Callers : CallerFeed(pc[c], ev[c], prev[c], stream)

-----------------------------------------------------------------------------
\* A nonempty set of naturals has a least element, and one bounded by n a
\* greatest one, which is what Max returns.
LEMMA NatMin ==
    ASSUME NEW T \in SUBSET Nat, T # {}
    PROVE  \E x \in T : \A y \in T : x <= y
<1> DEFINE R == OpToRel(<, Nat)
<1>1. IsWellFoundedOn(R, Nat)
  BY NatLessThanWellFounded
<1>2. \A x, y \in Nat : x < y => <<x, y>> \in R
  BY DEF OpToRel
<1> HIDE DEF R
<1>3. \E x \in T : \A y \in T : ~ (<<y, x>> \in R)
  BY <1>1, WFMin
<1>4. PICK x \in T : \A y \in T : ~ (<<y, x>> \in R)
  BY <1>3
<1>5. ASSUME NEW y \in T PROVE x <= y
  <2>1. x \in Nat /\ y \in Nat /\ ~(y < x)
    BY <1>2, <1>4
  <2>2. QED
    BY <2>1
<1>6. QED
  BY <1>5

LEMMA NatMax ==
    ASSUME NEW n \in Nat, NEW S \in SUBSET (1 .. n), S # {}
    PROVE  Max(S) \in S /\ \A y \in S : y <= Max(S)
<1> DEFINE T == {n - x : x \in S}
<1>1. T \in SUBSET Nat
  <2> SUFFICES ASSUME NEW x \in S PROVE n - x \in Nat
    OBVIOUS
  <2>1. x \in 1 .. n
    OBVIOUS
  <2>2. QED
    BY <2>1
<1>2. T # {}
  OBVIOUS
<1>3. \E t \in T : \A y \in T : t <= y
  BY <1>1, <1>2, NatMin
<1>4. \E x \in S : \A y \in S : n - x <= n - y
  BY <1>3
<1>5. \E x \in S : \A y \in S : x >= y
  BY <1>4
<1>6. QED
  BY <1>5 DEF Max

\* A record becomes the last one of its own subject, and is counted there; every
\* other subject stays as it was.
LEMMA FeedGrows ==
    ASSUME NEW s \in Seq(Rec), NEW x \in Rec, NEW a, NEW k
    PROVE  LET t == Append(s, x) IN
           IF x.subject = k /\ x.actor = a
           THEN /\ LastOn(t, a, k) = x.val
                /\ Cardinality(OnSubject(t, a, k)) = Cardinality(OnSubject(s, a, k)) + 1
           ELSE /\ LastOn(t, a, k) = LastOn(s, a, k)
                /\ OnSubject(t, a, k) = OnSubject(s, a, k)
<1> DEFINE t == Append(s, x)
           S == OnSubject(s, a, k)
           T == OnSubject(t, a, k)
           n == Len(s)
<1>1. /\ n \in Nat /\ DOMAIN s = 1 .. n /\ DOMAIN t = DOMAIN s \cup {n + 1}
      /\ t[n + 1] = x /\ \A i \in DOMAIN s : t[i] = s[i]
  BY Grown
<1>2. S \in SUBSET (1 .. n) /\ n + 1 \notin S /\ IsFiniteSet(S)
  <2>1. S \in SUBSET (1 .. n)
    BY <1>1 DEF OnSubject
  <2>2. IsFiniteSet(1 .. n)
    BY <1>1, FS_Interval
  <2>3. QED
    BY <1>1, <2>1, <2>2, FS_Subset
<1>3. CASE x.subject = k /\ x.actor = a
  <2>1. T = S \cup {n + 1}
    BY <1>1, <1>3 DEF OnSubject
  <2>2. Cardinality(T) = Cardinality(S) + 1
    <3> HIDE DEF T, S
    <3>1. QED
      BY <1>2, <2>1, FS_AddElement
  <2>3. Max(T) = n + 1 /\ T # {}
    <3> HIDE DEF T, S
    <3>1. T \in SUBSET (1 .. n + 1) /\ n + 1 \in Nat
      <4> HIDE DEF n
      <4>1. \A i \in 1 .. n : i \in 1 .. n + 1
        BY <1>1
      <4>2. n + 1 \in 1 .. n + 1 /\ n + 1 \in Nat
        BY <1>1
      <4>3. QED
        BY <1>2, <2>1, <4>1, <4>2
    <3>2. T # {}
      BY <2>1
    <3>3. Max(T) \in T /\ \A y \in T : y <= Max(T)
      BY <3>1, <3>2, NatMax
    <3>4. Max(T) \in 1 .. n + 1 /\ n + 1 <= Max(T)
      BY <3>1, <3>3, <2>1
    <3>5. QED
      BY <3>2, <3>4, <1>1
  <2>4. LastOn(t, a, k) = x.val
    <3> HIDE DEF n, t
    <3>1. QED
      BY <1>1, <2>3 DEF LastOn
  <2>5. QED
    BY <1>3, <2>2, <2>4
<1>4. CASE ~(x.subject = k /\ x.actor = a)
  <2>1. T = S
    BY <1>1, <1>4 DEF OnSubject
  <2>2. S # {} => t[Max(S)] = s[Max(S)]
    <3> HIDE DEF S, t
    <3>1. S # {} => Max(S) \in S
      BY <1>1, <1>2, NatMax
    <3>2. QED
      BY <1>1, <1>2, <3>1
  <2>3. LastOn(t, a, k) = LastOn(s, a, k)
    <3> HIDE DEF t
    <3>1. QED
      BY <2>1, <2>2 DEF LastOn
  <2>4. QED
    BY <1>4, <2>1, <2>3
<1>5. QED
  BY <1>3, <1>4

-----------------------------------------------------------------------------
\* An actor of c is written by nobody else.
LEMMA Sole ==
    ASSUME Undisturbed, IInv, FeedInv, NEW c \in Callers, NEW a \in Owns[c]
    PROVE  /\ a \in Actors
           /\ \A d \in Callers \ {c} : pc[d] # "idle" => ev[d].actor # a
           /\ \A k \in ChangeKinds :
                /\ \/ Recalled(kv[a], k) = LastOn(stream, a, k)
                   \/ pc[c] \in {"set", "persist"} /\ ev[c].kind = k
                /\ \/ cache[a] = Missing \/ cache[a][k] = LastOn(stream, a, k)
                   \/ pc[c] = "set" /\ ev[c].kind = k
<1>1. a \in Actors
  BY RepositoryAssumption
<1>2. \A d \in Callers \ {c} : pc[d] # "idle" => ev[d].actor # a
  BY DEF IInv, CallerInv, Undisturbed
<1>3. \A k, L : "idle" \notin L /\ Changing(a, k, L) => pc[c] \in L /\ ev[c].kind = k
  BY <1>2 DEF Changing
<1>4. QED
  BY <1>1, <1>2, <1>3 DEF FeedInv

\* A step of c that concerns its actor a alone keeps FeedInv when it keeps what
\* is said of c and of a.
LEMMA FeedStep ==
    ASSUME Undisturbed, IInv, FeedInv, NEW c \in Callers, NEW a \in Owns[c], LocalStep(c), ~down',
           pc[c] = "idle" \/ ev[c].actor = a, pc'[c] = "idle" \/ ev'[c].actor = a,
           \A b \in Actors \ {a} :
               /\ kv'[b] = kv[b] /\ cache'[b] = cache[b]
               /\ \A k \in ChangeKinds : LastOn(stream', b, k) = LastOn(stream, b, k),
           CallerFeed(pc'[c], ev'[c], prev'[c], stream'),
           \A k \in ChangeKinds :
               /\ \/ Recalled(kv'[a], k) = LastOn(stream', a, k)
                  \/ pc'[c] \in {"set", "persist"} /\ ev'[c].kind = k
               /\ \/ cache'[a] = Missing \/ cache'[a][k] = LastOn(stream', a, k)
                  \/ pc'[c] = "set" /\ ev'[c].kind = k
    PROVE  FeedInv'
<1>1. \A d \in Callers \ {c} : pc[d] # "idle" => ev[d].actor # a /\ ev[d].actor \in Actors
  <2>1. \A d \in Callers : pc[d] # "idle" => ev[d] \in Event
    BY DEF IInv, CallerInv
  <2>2. QED
    BY <2>1, Sole, EventType
<1>2. \A d \in Callers \ {c} : pc'[d] = pc[d] /\ ev'[d] = ev[d] /\ prev'[d] = prev[d]
  BY DEF LocalStep
<1>3. \A b \in Actors \ {a} : \A k, L :
          "idle" \notin L /\ Changing(b, k, L) => Changing(b, k, L)'
  BY <1>2 DEF Changing
<1>4. \A k, L : pc'[c] \in L /\ pc'[c] # "idle" /\ ev'[c].kind = k => Changing(a, k, L)'
  BY DEF Changing
<1>5. ASSUME NEW d \in Callers
      PROVE  CallerFeed(pc'[d], ev'[d], prev'[d], stream')
  <2>1. CASE d = c
    BY <2>1
  <2>2. CASE d # c /\ pc[d] = "idle"
    BY <1>2, <2>2 DEF CallerFeed
  <2>3. CASE d # c /\ pc[d] # "idle"
    <3>1. \A k \in ChangeKinds : LastOn(stream', ev[d].actor, k) = LastOn(stream, ev[d].actor, k)
      BY <1>1, <2>3
    <3>2. CallerFeed(pc[d], ev[d], prev[d], stream)
      BY DEF FeedInv
    <3>3. pc[d] \in {"set", "persist"} => ev[d].kind \in ChangeKinds
      BY <2>3 DEF IInv, CallerInv
    <3>4. CallerFeed(pc[d], ev[d], prev[d], stream')
      BY <3>1, <3>2, <3>3 DEF CallerFeed
    <3>5. QED
      BY <1>2, <2>3, <3>4
  <2>4. QED
    BY <2>1, <2>2, <2>3
<1>6. ASSUME NEW b \in Actors, NEW k \in ChangeKinds
      PROVE  /\ Recalled(kv'[b], k) = LastOn(stream', b, k) \/ Changing(b, k, {"set", "persist"})'
             /\ \/ cache'[b] = Missing \/ cache'[b][k] = LastOn(stream', b, k)
                \/ Changing(b, k, {"set"})'
  <2>1. CASE b = a
    BY <1>4, <2>1
  <2>2. CASE b # a
    BY <1>3, <2>2 DEF FeedInv
  <2>3. QED
    BY <2>1, <2>2
<1>7. QED
  BY <1>5, <1>6 DEF FeedInv

\* The actor of a Write under way.
LEMMA Writer ==
    ASSUME IInv, NEW c \in Callers, pc[c] # "idle"
    PROVE  /\ ev[c] \in Event /\ ev[c].actor \in Owns[c] /\ ev[c].actor \in Actors /\ ev[c].kind \in Kinds
           /\ prev[c] \in actorState /\ stream \in Seq(Rec)
BY SharedNow, EventType DEF IInv, CallerInv

\* Steps that publish nothing on the derived subjects.
LEMMA FeedCall ==
    ASSUME Undisturbed, IInv, FeedInv, NEW c \in Callers, NEW a \in Owns[c], NEW k \in Kinds,
           NEW v \in Values(k), Call(c, a, k, v)
    PROVE  FeedInv'
<1> DEFINE e == [kind |-> k, actor |-> a, val |-> v, id |-> writes + 1]
<1>1. /\ pc[c] = "idle" /\ ev' = [ev EXCEPT ![c] = e] /\ pc' = [pc EXCEPT ![c] = "raw"]
      /\ UNCHANGED <<stream, kv, cache, prev, down>> /\ e.actor = a
  BY DEF Call, Goto
<1>2. /\ pc \in [Callers -> Labels] /\ prev \in [Callers -> actorState] /\ ev = [d \in Callers |-> ev[d]]
  BY SharedNow
<1> HIDE DEF e
<1>3. LocalStep(c) /\ pc'[c] = "raw" /\ ev'[c] = e
  BY <1>1, <1>2 DEF LocalStep, Labels
<1>4. CallerFeed(pc'[c], ev'[c], prev'[c], stream')
  BY <1>3 DEF CallerFeed
<1>5. ~down'
  BY <1>1 DEF FeedInv
<1>6. \A l \in ChangeKinds :
               /\ Recalled(kv[a], l) = LastOn(stream, a, l)
               /\ cache[a] = Missing \/ cache[a][l] = LastOn(stream, a, l)
  BY <1>1, Sole
<1>7. QED
  BY <1>1, <1>3, <1>4, <1>5, <1>6, FeedStep

LEMMA FeedPublishRaw ==
    ASSUME Undisturbed, IInv, FeedInv, NEW c \in Callers, PublishRaw(c)
    PROVE  FeedInv'
<1> DEFINE e == ev[c]
           a == e.actor
           x == Record("raw", e)
           p == IF e.kind = "command" THEN "publish" ELSE "lookup"
<1>1. /\ pc[c] = "raw" /\ stream' = Append(stream, x) /\ Goto(c, p)
      /\ UNCHANGED <<kv, cache, ev, prev, down>>
  BY DEF PublishRaw
<1>2. e \in Event /\ a \in Owns[c] /\ stream \in Seq(Rec)
  BY <1>1, Writer
<1>3. x \in Rec /\ x.subject = "raw"
  BY <1>2, RecordType
<1>4. \A b, k : k \in ChangeKinds => LastOn(stream', b, k) = LastOn(stream, b, k)
  <2> SUFFICES ASSUME NEW b, NEW k \in ChangeKinds PROVE LastOn(stream', b, k) = LastOn(stream, b, k)
    OBVIOUS
  <2> HIDE DEF x
  <2>1. x.subject # k
    BY <1>3 DEF ChangeKinds
  <2>2. QED
    BY <1>1, <1>2, <1>3, <2>1, FeedGrows
<1>5. LocalStep(c) /\ pc'[c] = p /\ ev'[c] = e
  BY <1>1, StayStep DEF Labels
<1>6. CallerFeed(pc'[c], ev'[c], prev'[c], stream')
  BY <1>5 DEF CallerFeed, ChangeKinds
<1>7. ~down'
  BY <1>1 DEF FeedInv
<1>8. \A l \in ChangeKinds :
               /\ Recalled(kv[a], l) = LastOn(stream, a, l)
               /\ cache[a] = Missing \/ cache[a][l] = LastOn(stream, a, l)
  BY <1>1, <1>2, Sole
<1> HIDE DEF p, a, e
<1>9. QED
  BY <1>1, <1>2, <1>4, <1>5, <1>6, <1>7, <1>8, FeedStep DEF a, e

\* What the cache or the bucket answers is the end of both feeds, and an actor
\* that neither knows has published nothing.
LEMMA FeedLookup ==
    ASSUME Undisturbed, IInv, FeedInv, NEW c \in Callers, Lookup(c) \/ KvGet(c)
    PROVE  FeedInv'
<1> DEFINE e == ev[c]
           a == e.actor
<1>1. pc[c] \in {"lookup", "get"} /\ UNCHANGED <<stream, kv, cache, ev, down>>
  BY DEF Lookup, KvGet
<1>2. /\ e \in Event /\ a \in Owns[c] /\ a \in Actors /\ SharedOK
      /\ prev[c] = ZeroState /\ prev[c] \in actorState
  BY <1>1, Writer, SharedNow DEF IInv, CallerInv
<1>3. \A k \in ChangeKinds :
          /\ Recalled(kv[a], k) = LastOn(stream, a, k)
          /\ cache[a] = Missing \/ cache[a][k] = LastOn(stream, a, k)
  BY <1>1, <1>2, Sole
<1>4. \/ Goto(c, "get") /\ UNCHANGED prev
      \/ Goto(c, "compare") /\ UNCHANGED prev /\ kv[a] = Missing
      \/ \E p \in {"fill", "compare"} : \E st \in {kv[a], cache[a]} :
             st # Missing /\ Goto(c, p) /\ prev' = [prev EXCEPT ![c] = st]
  BY DEF Lookup, KvGet
<1>5. LocalStep(c) /\ ev'[c] = e /\ CallerFeed(pc'[c], e, prev'[c], stream)
  <2>1. CASE Goto(c, "get") /\ UNCHANGED prev
    <3>1. LocalStep(c) /\ pc'[c] = "get" /\ ev'[c] = e
      BY <1>1, <2>1, StayStep DEF Labels
    <3>2. QED
      BY <3>1 DEF CallerFeed
  <2>2. CASE Goto(c, "compare") /\ UNCHANGED prev /\ kv[a] = Missing
    <3>1. LocalStep(c) /\ pc'[c] = "compare" /\ ev'[c] = e /\ prev'[c] = prev[c]
      BY <1>1, <2>2, StayStep DEF Labels
    <3>2. \A k \in ChangeKinds : prev[c][k] = LastOn(stream, a, k)
      BY <1>2, <1>3, <2>2 DEF Recalled, ZeroState, ChangeKinds
    <3>3. QED
      BY <3>1, <3>2 DEF CallerFeed
  <2>3. ASSUME NEW p \in {"fill", "compare"}, NEW st \in {kv[a], cache[a]}, st # Missing,
               Goto(c, p), prev' = [prev EXCEPT ![c] = st]
        PROVE  LocalStep(c) /\ ev'[c] = e /\ CallerFeed(pc'[c], e, prev'[c], stream)
    <3>1. st \in actorState /\ \A k \in ChangeKinds : st[k] = LastOn(stream, a, k)
      BY <1>2, <1>3, <2>3 DEF SharedOK, Recalled
    <3>2. p \in Labels /\ UNCHANGED ev
      BY <1>1 DEF Labels
    <3>3. LocalStep(c) /\ pc'[c] = p /\ ev'[c] = ev[c] /\ prev'[c] = st
      <4> HIDE DEF a, e
      <4>1. QED
        BY <2>3, <3>1, <3>2, GotoStep
    <3>4. QED
      BY <3>1, <3>3 DEF CallerFeed
  <2>4. QED
    BY <1>4, <2>1, <2>2, <2>3
<1>6. ~down'
  BY <1>1 DEF FeedInv
<1> HIDE DEF a, e
<1>7. QED
  BY <1>1, <1>2, <1>3, <1>5, <1>6, FeedStep DEF a, e

LEMMA FeedFill ==
    ASSUME Undisturbed, IInv, FeedInv, NEW c \in Callers, FillCache(c)
    PROVE  FeedInv'
<1> DEFINE e == ev[c]
           a == e.actor
<1>1. /\ pc[c] = "fill" /\ UNCHANGED <<stream, kv, ev, prev, down>> /\ Goto(c, "compare")
      /\ cache' = [cache EXCEPT ![a] = prev[c]]
  BY DEF FillCache
<1>2. /\ e \in Event /\ a \in Owns[c] /\ a \in Actors /\ e.kind \in ChangeKinds
      /\ cache \in [Actors -> actorState \cup {Missing}]
  BY <1>1, Writer, SharedNow DEF IInv, CallerInv, SharedOK
<1>3. /\ LocalStep(c) /\ pc'[c] = "compare" /\ ev'[c] = e /\ prev'[c] = prev[c]
  BY <1>1, StayStep DEF Labels
<1>4. \A k \in ChangeKinds : prev[c][k] = LastOn(stream, a, k)
  BY <1>1, <1>2 DEF FeedInv, CallerFeed
<1>5. CallerFeed(pc'[c], ev'[c], prev'[c], stream')
  BY <1>1, <1>3, <1>4 DEF CallerFeed
<1>6. \A k \in ChangeKinds : Recalled(kv[a], k) = LastOn(stream, a, k)
  BY <1>1, <1>2, Sole
<1>7. ~down'
  BY <1>1 DEF FeedInv
<1>8. cache'[a] = prev[c] /\ \A b \in Actors \ {a} : cache'[b] = cache[b]
  BY <1>1, <1>2
<1> HIDE DEF a, e
<1>9. QED
  BY <1>1, <1>2, <1>3, <1>4, <1>5, <1>6, <1>7, <1>8, FeedStep DEF a, e

\* A repeat ends the Write; what is none differs from the end of the feed.
LEMMA FeedCompare ==
    ASSUME Undisturbed, IInv, FeedInv, NEW c \in Callers, Compare(c)
    PROVE  FeedInv'
<1> DEFINE e == ev[c]
           a == e.actor
<1>1. /\ pc[c] = "compare" /\ UNCHANGED <<stream, kv, cache, down>>
      /\ \/ ReturnOk(c)
         \/ Goto(c, "publish") /\ UNCHANGED <<ev, prev>> /\ prev[c][e.kind] # e.val
  BY DEF Compare, Unchanged
<1>2. e \in Event /\ a \in Owns[c] /\ e.kind \in ChangeKinds
  BY <1>1, Writer DEF IInv, CallerInv
<1>3. \A k \in ChangeKinds : prev[c][k] = LastOn(stream, a, k)
  BY <1>1, <1>2 DEF FeedInv, CallerFeed
<1>4. /\ LocalStep(c) /\ (pc'[c] = "idle" \/ ev'[c] = e)
      /\ CallerFeed(pc'[c], ev'[c], prev'[c], stream')
  <2>1. CASE ReturnOk(c)
    <3>1. LocalStep(c)
      BY <2>1, ReturnStep DEF ReturnOk
    <3>2. pc'[c] = "idle"
      BY <2>1, SharedNow DEF ReturnOk
    <3>3. QED
      BY <3>1, <3>2 DEF CallerFeed
  <2>2. CASE Goto(c, "publish") /\ UNCHANGED <<ev, prev>> /\ prev[c][e.kind] # e.val
    <3>1. LocalStep(c) /\ pc'[c] = "publish" /\ ev'[c] = e /\ prev'[c] = prev[c]
      BY <2>2, StayStep DEF Labels
    <3>2. QED
      BY <1>1, <1>3, <2>2, <3>1 DEF CallerFeed
  <2>3. QED
    BY <1>1, <2>1, <2>2
<1>5. \A l \in ChangeKinds :
               /\ Recalled(kv[a], l) = LastOn(stream, a, l)
               /\ cache[a] = Missing \/ cache[a][l] = LastOn(stream, a, l)
  BY <1>1, <1>2, Sole
<1>6. ~down'
  BY <1>1 DEF FeedInv
<1> HIDE DEF a, e
<1>7. QED
  BY <1>1, <1>2, <1>4, <1>5, <1>6, FeedStep DEF a, e

\* The new record is the end of its feed until the state has caught up with it.
LEMMA FeedPublishChange ==
    ASSUME Undisturbed, IInv, FeedInv, NEW c \in Callers, PublishChange(c)
    PROVE  FeedInv'
<1> DEFINE e == ev[c]
           a == e.actor
           x == Record(e.kind, e)
<1>1. /\ pc[c] = "publish" /\ stream' = Append(stream, x) /\ UNCHANGED <<kv, cache, down>>
      /\ \/ ReturnOk(c) /\ e.kind = "command"
         \/ Goto(c, "set") /\ UNCHANGED <<ev, prev>> /\ e.kind # "command"
  BY DEF PublishChange
<1>2. e \in Event /\ a \in Owns[c] /\ e.kind \in Kinds /\ stream \in Seq(Rec)
  BY <1>1, Writer
<1>3. x \in Rec /\ x.subject = e.kind /\ x.actor = a /\ x.val = e.val
  BY <1>2, RecordType
<1>4. /\ LastOn(stream', a, e.kind) = e.val
      /\ \A b, k : k # e.kind \/ b # a => LastOn(stream', b, k) = LastOn(stream, b, k)
  <2> HIDE DEF x, a, e
  <2>1. QED
    BY <1>1, <1>2, <1>3, FeedGrows
<1>5. /\ LocalStep(c) /\ (pc'[c] = "idle" \/ ev'[c] = e)
      /\ CallerFeed(pc'[c], ev'[c], prev'[c], stream')
      /\ \A k \in ChangeKinds : k # e.kind \/ (pc'[c] = "set" /\ ev'[c].kind = k)
  <2>1. CASE ReturnOk(c) /\ e.kind = "command"
    <3>1. LocalStep(c)
      BY <2>1, ReturnStep DEF ReturnOk
    <3>2. pc'[c] = "idle"
      BY <2>1, SharedNow DEF ReturnOk
    <3>3. QED
      BY <2>1, <3>1, <3>2 DEF CallerFeed, ChangeKinds
  <2>2. CASE Goto(c, "set") /\ UNCHANGED <<ev, prev>> /\ e.kind # "command"
    <3>1. LocalStep(c) /\ pc'[c] = "set" /\ ev'[c] = e /\ prev'[c] = prev[c]
      BY <2>2, StayStep DEF Labels
    <3>2. e.kind \in ChangeKinds
      BY <1>2, <2>2 DEF Kinds, ChangeKinds
    <3>3. \A k \in ChangeKinds : prev[c][k] = LastOn(stream, a, k)
      BY <1>1, <3>2 DEF FeedInv, CallerFeed
    <3>4. QED
      BY <1>4, <3>1, <3>3 DEF CallerFeed
  <2>3. QED
    BY <1>1, <2>1, <2>2
<1>6. \A l \in ChangeKinds :
               /\ Recalled(kv[a], l) = LastOn(stream, a, l)
               /\ cache[a] = Missing \/ cache[a][l] = LastOn(stream, a, l)
  BY <1>1, <1>2, Sole
<1>7. ~down'
  BY <1>1 DEF FeedInv
<1> HIDE DEF a, e, x
<1>8. QED
  BY <1>1, <1>2, <1>4, <1>5, <1>6, <1>7, FeedStep DEF a, e

\* The cache catches up, then the bucket.
LEMMA FeedSet ==
    ASSUME Undisturbed, IInv, FeedInv, NEW c \in Callers, SetCache(c)
    PROVE  FeedInv'
<1> DEFINE e == ev[c]
           a == e.actor
           st == Remembered(c)
<1>1. /\ pc[c] = "set" /\ UNCHANGED <<stream, kv, ev, down>> /\ Goto(c, "persist")
      /\ prev' = [prev EXCEPT ![c] = st] /\ cache' = [cache EXCEPT ![a] = st]
  BY DEF SetCache
<1>2. /\ e \in Event /\ a \in Owns[c] /\ a \in Actors /\ e.kind \in ChangeKinds
      /\ cache \in [Actors -> actorState \cup {Missing}] /\ prev[c] \in actorState
  BY <1>1, Writer, SharedNow DEF IInv, CallerInv, SharedOK
<1>3. /\ st \in actorState /\ st[e.kind] = e.val
      /\ \A k \in ChangeKinds \ {e.kind} : st[k] = prev[c][k]
  BY <1>2, UpdateType DEF Remembered
<1>4. LocalStep(c) /\ pc'[c] = "persist" /\ ev'[c] = e /\ prev'[c] = st
  BY <1>1, <1>3, GotoStep DEF Labels
<1>5. LastOn(stream, a, e.kind) = e.val /\ \A k \in ChangeKinds : st[k] = LastOn(stream, a, k)
  BY <1>1, <1>3 DEF FeedInv, CallerFeed
<1> HIDE DEF st
<1>6. CallerFeed(pc'[c], ev'[c], prev'[c], stream')
  BY <1>1, <1>3, <1>4, <1>5 DEF CallerFeed
<1>7. \A k \in ChangeKinds : Recalled(kv[a], k) = LastOn(stream, a, k) \/ e.kind = k
  BY <1>1, <1>2, Sole
<1>8. ~down'
  BY <1>1 DEF FeedInv
<1>9. cache'[a] = st /\ \A b \in Actors \ {a} : cache'[b] = cache[b]
  BY <1>1, <1>2
<1> HIDE DEF a, e
<1>10. QED
  BY <1>1, <1>2, <1>4, <1>5, <1>6, <1>7, <1>8, <1>9, FeedStep DEF a, e

LEMMA FeedPersist ==
    ASSUME Undisturbed, IInv, FeedInv, NEW c \in Callers, Persist(c)
    PROVE  /\ FeedInv'
           /\ LastOn(stream, ev[c].actor, ev[c].kind) = ev[c].val
           /\ \A k \in ChangeKinds \ {ev[c].kind} :
                  kv'[ev[c].actor][k] = Recalled(kv[ev[c].actor], k)
<1> DEFINE e == ev[c]
           a == e.actor
<1>1. /\ pc[c] = "persist" /\ UNCHANGED <<stream, cache, down>> /\ ReturnOk(c)
      /\ kv' = [kv EXCEPT ![a] = prev[c]]
  BY DEF Persist
<1>2. /\ e \in Event /\ a \in Owns[c] /\ a \in Actors
      /\ kv \in [Actors -> actorState \cup {Missing}] /\ prev[c] \in actorState
  BY <1>1, Writer, SharedNow DEF SharedOK
<1>3. LocalStep(c)
  BY <1>1, ReturnStep DEF ReturnOk
<1>4. pc'[c] = "idle"
  BY <1>1, SharedNow DEF ReturnOk
<1>5. LastOn(stream, a, e.kind) = e.val /\ \A k \in ChangeKinds : prev[c][k] = LastOn(stream, a, k)
  BY <1>1 DEF FeedInv, CallerFeed
<1>6. CallerFeed(pc'[c], ev'[c], prev'[c], stream')
  BY <1>4 DEF CallerFeed
<1>7. \A k \in ChangeKinds :
          /\ cache[a] = Missing \/ cache[a][k] = LastOn(stream, a, k)
          /\ Recalled(kv[a], k) = LastOn(stream, a, k) \/ e.kind = k
  BY <1>1, <1>2, Sole
<1>8. ~down'
  BY <1>1 DEF FeedInv
<1>9. kv'[a] = prev[c] /\ \A b \in Actors \ {a} : kv'[b] = kv[b]
  BY <1>1, <1>2
<1>10. \A k \in ChangeKinds : Recalled(kv'[a], k) = LastOn(stream, a, k)
  BY <1>2, <1>5, <1>9, MissingIsNoState DEF Recalled
<1>11. FeedInv'
  <2> HIDE DEF a, e
  <2>1. QED
    BY <1>1, <1>2, <1>3, <1>4, <1>6, <1>7, <1>8, <1>9, <1>10, FeedStep DEF a, e
<1>12. QED
  BY <1>5, <1>7, <1>9, <1>11

\* Nothing fails, and a restart finds every caller idle.
LEMMA NoFault ==
    ASSUME Undisturbed, IInv, FeedInv, NEW c \in Callers
    PROVE  ~KvGetFails(c) /\ ~PersistFails(c) /\ ~PublishFails(c)
<1>1. kvFaults \in 0 .. 0 /\ publishFaults \in 0 .. 0 /\ ~down
  BY DEF Undisturbed, IInv, TypeOK, FeedInv
<1>2. ~(kvFaults < MaxKvFaults) /\ ~(publishFaults < MaxPublishFaults)
  BY <1>1 DEF Undisturbed
<1>3. QED
  BY <1>1, <1>2 DEF KvGetFails, PersistFails, PublishFails

LEMMA FeedRestart ==
    ASSUME Undisturbed, IInv, FeedInv, Restart
    PROVE  FeedInv'
<1>1. /\ \A c \in Callers : pc[c] = "idle"
      /\ UNCHANGED <<stream, kv>> /\ down' = FALSE
      /\ cache' = [a \in Actors |-> Missing] /\ pc' = [c \in Callers |-> "idle"]
  BY DEF Restart, Undisturbed
<1>2. \A a \in Actors, k \in ChangeKinds : Recalled(kv[a], k) = LastOn(stream, a, k)
  BY <1>1 DEF FeedInv, Changing
<1>3. \A c \in Callers : CallerFeed(pc'[c], ev'[c], prev'[c], stream')
  BY <1>1 DEF CallerFeed
<1>4. QED
  BY <1>1, <1>2, <1>3 DEF FeedInv

LEMMA FeedInit == Init => FeedInv
<1> SUFFICES ASSUME Init PROVE FeedInv
  OBVIOUS
<1>1. DOMAIN stream = {}
  BY DEF Init
<1>2. \A a, k : LastOn(stream, a, k) = None
  BY <1>1 DEF LastOn, OnSubject
<1>3. \A c \in Callers : CallerFeed(pc[c], ev[c], prev[c], stream)
  BY DEF Init, CallerFeed
<1>4. \A a \in Actors, k \in ChangeKinds : Recalled(kv[a], k) = None /\ cache[a] = Missing
  BY DEF Init, Recalled
<1>5. QED
  BY <1>2, <1>3, <1>4 DEF Init, FeedInv

LEMMA FeedNextKeeps ==
    ASSUME Undisturbed, IInv, FeedInv, [Next]_vars
    PROVE  FeedInv'
<1>1. ASSUME NEW c \in Callers, NEW a \in Owns[c], NEW k \in Kinds, NEW v \in Values(k),
             Call(c, a, k, v)
      PROVE  FeedInv'
  BY <1>1, FeedCall
<1>2. ASSUME NEW c \in Callers, WriteStep(c)
      PROVE  FeedInv'
  BY <1>2, NoFault, FeedPublishRaw, FeedLookup, FeedFill, FeedCompare, FeedPublishChange,
     FeedSet, FeedPersist DEF WriteStep
<1>3. CASE Restart
  BY <1>3, FeedRestart
<1>4. CASE UNCHANGED vars
  BY <1>4 DEF vars, memVars, FeedInv, Changing
<1>5. QED
  BY <1>1, <1>2, <1>3, <1>4 DEF Next

\* While nothing fails, every Write leaves cache and bucket agreeing with the
\* stream (repository.go:201-270, 346-384).
THEOREM FeedInductive == Undisturbed /\ Spec => [](IInv /\ FeedInv)
<1> SUFFICES ASSUME Undisturbed PROVE Spec => [](IInv /\ FeedInv)
  BY DEF Undisturbed
<1>1. IInv /\ FeedInv /\ [Next]_vars => FeedInv'
  BY FeedNextKeeps
<1>2. QED
  BY <1>1, FeedInit, Inductive, PTL DEF Spec

\* The cache never disagrees with the stream about an actor nobody is writing,
\* also after a restart refilled it from the bucket (repository.go:346-384).
THEOREM CacheCorrect == Undisturbed /\ Spec => []CacheCurrent
<1> SUFFICES ASSUME Undisturbed PROVE Spec => []CacheCurrent
  BY DEF Undisturbed
<1>1. IInv /\ FeedInv => CacheCurrent
  <2> SUFFICES ASSUME FeedInv, NEW a \in Actors, cache[a] # Missing, ~Busy(a), NEW k \in ChangeKinds
               PROVE  cache[a][k] = LastPublished(a, k)
    BY DEF CacheCurrent
  <2>1. ~Changing(a, k, {"set"})
    BY DEF Busy, Changing
  <2>2. QED
    BY <2>1 DEF FeedInv, LastPublished
<1>2. QED
  BY <1>1, FeedInductive, PTL

\* A put of one kind's change never alters what the bucket holds of the other
\* kind, although it writes the whole state (repository.go:225-266).
THEOREM KindsIndependent == Undisturbed /\ Spec => IndependentKinds
<1> SUFFICES ASSUME Undisturbed PROVE Spec => IndependentKinds
  BY DEF Undisturbed
<1>1. ASSUME IInv, FeedInv, [Next]_vars, NEW c \in Callers,
             pc[c] = "persist", kv' # kv, kv[ev[c].actor] # Missing,
             NEW k \in ChangeKinds \ {ev[c].kind}
      PROVE  kv'[ev[c].actor][k] = kv[ev[c].actor][k]
  <2>1. PICK d \in Callers : Persist(d)
    BY <1>1, NoFault DEF Next, vars, WriteStep, Call, PublishRaw, Lookup, KvGet, FillCache, Compare,
       PublishChange, SetCache, Restart
  <2>2. CASE d = c
    BY <1>1, <2>1, <2>2, FeedPersist DEF Recalled
  <2>3. CASE d # c
    <3>1. ev[c].actor \in Owns[c] /\ ev[d].actor \in Owns[d] /\ ev[c].actor \in Actors
      BY <1>1, <2>1, Writer DEF Persist
    <3>2. ev[c].actor # ev[d].actor
      BY <2>3, <3>1 DEF Undisturbed
    <3>3. kv \in [Actors -> actorState \cup {Missing}]
      BY <1>1 DEF IInv, TypeOK
    <3>4. QED
      BY <2>1, <3>1, <3>2, <3>3 DEF Persist
  <2>4. QED
    BY <2>2, <2>3
<1>2. IInv /\ FeedInv /\ [Next]_vars =>
        [\A c \in Callers :
           pc[c] = "persist" /\ kv' # kv /\ kv[ev[c].actor] # Missing =>
               \A k \in ChangeKinds \ {ev[c].kind} :
                   kv'[ev[c].actor][k] = kv[ev[c].actor][k]]_vars
  BY <1>1
<1>3. QED
  BY <1>2, FeedInductive, PTL DEF IndependentKinds, Spec

-----------------------------------------------------------------------------
\* The feed of a stream, as the refinement mapping of ChangeFeed has it.
FeedOf(s) ==
    [a \in Actors |-> [k \in Kinds |->
        [count |-> Cardinality(OnSubject(s, a, k)), last |-> LastOn(s, a, k)]]]

\* A record on a derived or command subject extends one feed by one value; a raw
\* record extends none.
LEMMA FeedExtends ==
    ASSUME NEW s \in Seq(Rec), NEW x \in Rec
    PROVE  /\ x.subject = "raw" => FeedOf(Append(s, x)) = FeedOf(s)
           /\ x.subject \in Kinds =>
                FeedOf(Append(s, x)) =
                  [FeedOf(s) EXCEPT ![x.actor][x.subject] =
                      [count |-> FeedOf(s)[x.actor][x.subject].count + 1, last |-> x.val]]
<1> DEFINE t == Append(s, x)
<1>1. ASSUME NEW a, NEW k, ~(x.subject = k /\ x.actor = a)
      PROVE  LastOn(t, a, k) = LastOn(s, a, k) /\ OnSubject(t, a, k) = OnSubject(s, a, k)
  BY <1>1, FeedGrows
<1>2. /\ LastOn(t, x.actor, x.subject) = x.val
      /\ Cardinality(OnSubject(t, x.actor, x.subject)) = Cardinality(OnSubject(s, x.actor, x.subject)) + 1
  BY FeedGrows
<1> HIDE DEF t
<1>3. ASSUME x.subject = "raw"
      PROVE  FeedOf(t) = FeedOf(s)
  <2>1. \A a \in Actors, k \in Kinds :
            LastOn(t, a, k) = LastOn(s, a, k) /\ OnSubject(t, a, k) = OnSubject(s, a, k)
    <3> SUFFICES ASSUME NEW a \in Actors, NEW k \in Kinds
                 PROVE  LastOn(t, a, k) = LastOn(s, a, k) /\ OnSubject(t, a, k) = OnSubject(s, a, k)
      OBVIOUS
    <3>1. k # "raw"
      BY DEF Kinds
    <3>2. QED
      BY <1>1, <1>3, <3>1
  <2>2. QED
    BY <2>1 DEF FeedOf
<1>4. ASSUME x.subject \in Kinds
      PROVE  FeedOf(t) = [FeedOf(s) EXCEPT ![x.actor][x.subject] =
                             [count |-> FeedOf(s)[x.actor][x.subject].count + 1, last |-> x.val]]
  <2> DEFINE F == FeedOf(s)
             G == [F EXCEPT ![x.actor][x.subject] =
                      [count |-> F[x.actor][x.subject].count + 1, last |-> x.val]]
  <2>1. x.actor \in Actors
    BY DEF Rec
  <2>2. /\ \A a \in Actors, k \in Kinds :
             F[a][k] = [count |-> Cardinality(OnSubject(s, a, k)), last |-> LastOn(s, a, k)]
        /\ F = [a \in Actors |-> [k \in Kinds |-> F[a][k]]]
    BY DEF FeedOf
  <2>3. FeedOf(t) = [a \in Actors |-> [k \in Kinds |->
                        [count |-> Cardinality(OnSubject(t, a, k)), last |-> LastOn(t, a, k)]]]
    BY DEF FeedOf
  <2>4. G = [a \in Actors |-> [k \in Kinds |->
               IF a = x.actor /\ k = x.subject
                 THEN [count |-> F[a][k].count + 1, last |-> x.val] ELSE F[a][k]]]
    <3> HIDE DEF F
    <3>1. QED
      BY <1>4, <2>1, <2>2
  <2>5. ASSUME NEW a \in Actors, NEW k \in Kinds
        PROVE  [count |-> Cardinality(OnSubject(t, a, k)), last |-> LastOn(t, a, k)] =
               IF a = x.actor /\ k = x.subject
                 THEN [count |-> F[a][k].count + 1, last |-> x.val] ELSE F[a][k]
    <3>1. F[a][k] = [count |-> Cardinality(OnSubject(s, a, k)), last |-> LastOn(s, a, k)]
      BY <2>2
    <3> HIDE DEF F
    <3>2. CASE a = x.actor /\ k = x.subject
      BY <1>2, <3>1, <3>2
    <3>3. CASE ~(a = x.actor /\ k = x.subject)
      BY <1>1, <3>1, <3>3
    <3>4. QED
      BY <3>2, <3>3
  <2> HIDE DEF F, G
  <2>6. FeedOf(t) = G
    BY <2>3, <2>4, <2>5
  <2>7. QED
    BY <2>6 DEF F, G
<1>5. QED
  BY <1>3, <1>4 DEF t

\* Initially no value was published.
LEMMA FeedOfNothing == Init => Feed!FeedInit
<1> SUFFICES ASSUME Init PROVE Feed!FeedInit
  OBVIOUS
<1>1. \A a, k : OnSubject(stream, a, k) = {}
  BY DEF Init, OnSubject
<1>2. \A a, k : LastPublished(a, k) = None
  BY <1>1 DEF LastPublished, LastOn
<1>3. Cardinality({}) = 0
  BY FS_EmptySet
<1>4. QED
  BY <1>1, <1>2, <1>3 DEF Init, Feed!FeedInit, Feed!None, None

\* Publishing a change records one that differs from the last, publishing a
\* command issues it.
LEMMA FeedRecords ==
    ASSUME Undisturbed, IInv, FeedInv, NEW c \in Callers, PublishChange(c)
    PROVE  Feed!FeedNext
<1> DEFINE e == ev[c]
           x == Record(e.kind, e)
<1>1. /\ pc[c] = "publish" /\ stream' = Append(stream, x)
      /\ \/ ReturnOk(c) /\ e.kind = "command"
         \/ UNCHANGED acked /\ e.kind # "command"
  BY DEF PublishChange
<1>2. e \in Event /\ e.actor \in Actors /\ e.kind \in Kinds /\ stream \in Seq(Rec) /\ e.val \in AllValues
  BY <1>1, Writer, EventType
<1>3. x \in Rec /\ x.subject = e.kind /\ x.actor = e.actor /\ x.val = e.val
  BY <1>2, RecordType
<1> HIDE DEF x
<1>4. FeedOf(stream') = [FeedOf(stream) EXCEPT ![e.actor][e.kind] =
                      [count |-> FeedOf(stream)[e.actor][e.kind].count + 1, last |-> e.val]]
  BY <1>1, <1>2, <1>3, FeedExtends
<1>5. CASE e.kind = "command"
  <2>1. Feed!Issue(e.actor, e.kind, e.val)
    BY <1>1, <1>4, <1>5 DEF Feed!Issue, Feed!Extend, FeedOf, LastPublished, ReturnOk
  <2>2. QED
    BY <1>2, <2>1 DEF Feed!FeedNext
<1>6. CASE e.kind # "command"
  <2>1. e.kind \in ChangeKinds
    BY <1>2, <1>6 DEF Kinds, ChangeKinds
  <2>2. LastOn(stream, e.actor, e.kind) # e.val
    BY <1>1, <2>1 DEF FeedInv, CallerFeed
  <2>3. FeedOf(stream)[e.actor][e.kind].last # e.val
    BY <1>2, <2>2 DEF FeedOf
  <2>4. Feed!Record(e.actor, e.kind, e.val)
    BY <1>1, <1>4, <1>6, <2>3 DEF Feed!Record, Feed!Extend, FeedOf, LastPublished
  <2>5. QED
    BY <1>2, <2>4 DEF Feed!FeedNext
<1>7. QED
  BY <1>5, <1>6

\* A Write returns only with its value at the end of the feed.
LEMMA FeedAcks ==
    ASSUME Undisturbed, IInv, FeedInv, NEW c \in Callers, pc[c] # "idle", ReturnOk(c), UNCHANGED stream,
           LastOn(stream, ev[c].actor, ev[c].kind) = ev[c].val
    PROVE  Feed!FeedNext
<1> DEFINE e == ev[c]
<1>1. e.actor \in Actors /\ e.kind \in Kinds /\ e.val \in AllValues
  BY Writer, EventType
<1>2. FeedOf(stream)[e.actor][e.kind].last = e.val /\ FeedOf(stream') = FeedOf(stream)
  BY <1>1 DEF FeedOf
<1>3. Feed!Ack(e.actor, e.kind, e.val)
  BY <1>2 DEF Feed!Ack, FeedOf, LastPublished, ReturnOk
<1>4. QED
  BY <1>1, <1>3 DEF Feed!FeedNext

\* Write implements the change feed: each derived record differs from the one
\* before it on its subject, and a Write that returned nil left its value at the
\* end of the feed, through restarts that clear the cache (repository.go:7-9,
\* 162-174).
THEOREM FeedImplemented == Undisturbed /\ Spec => ImplementsChangeFeed
<1> SUFFICES ASSUME Undisturbed PROVE Spec => ImplementsChangeFeed
  BY DEF Undisturbed
<1> DEFINE same == FeedOf(stream') = FeedOf(stream) /\ acked' = acked
<1>1. ASSUME IInv, FeedInv, [Next]_vars
      PROVE  Feed!FeedNext \/ same
  <2>1. CASE UNCHANGED <<stream, acked>>
    BY <2>1
  <2>2. ASSUME NEW c \in Callers, PublishRaw(c)
        PROVE  same
    <3>1. pc[c] = "raw" /\ stream' = Append(stream, Record("raw", ev[c])) /\ UNCHANGED acked
      BY <2>2 DEF PublishRaw
    <3>2. ev[c] \in Event /\ stream \in Seq(Rec)
      BY <1>1, <3>1, Writer
    <3>3. Record("raw", ev[c]) \in Rec /\ Record("raw", ev[c]).subject = "raw"
      BY <3>2, RecordType
    <3>4. QED
      BY <3>1, <3>2, <3>3, FeedExtends
  <2>3. ASSUME NEW c \in Callers, PublishChange(c)
        PROVE  Feed!FeedNext
    BY <1>1, <2>3, FeedRecords
  <2>4. ASSUME NEW c \in Callers, Compare(c)
        PROVE  Feed!FeedNext \/ UNCHANGED <<stream, acked>>
    <3>1. CASE ~Unchanged(c)
      BY <2>4, <3>1 DEF Compare
    <3>2. CASE Unchanged(c)
      <4>1. pc[c] = "compare" /\ ReturnOk(c) /\ UNCHANGED stream
        BY <2>4, <3>2 DEF Compare
      <4>2. ev[c].kind \in ChangeKinds
        BY <1>1, <4>1 DEF IInv, CallerInv
      <4>3. LastOn(stream, ev[c].actor, ev[c].kind) = ev[c].val
        BY <1>1, <3>2, <4>1, <4>2 DEF Unchanged, FeedInv, CallerFeed
      <4>4. QED
        BY <1>1, <4>1, <4>3, FeedAcks
    <3>3. QED
      BY <3>1, <3>2
  <2>5. ASSUME NEW c \in Callers, Persist(c)
        PROVE  Feed!FeedNext
    <3>1. pc[c] = "persist" /\ ReturnOk(c) /\ UNCHANGED stream
      BY <2>5 DEF Persist
    <3>2. QED
      BY <1>1, <2>5, <3>1, FeedPersist, FeedAcks
  <2>6. CASE Restart
    <3>1. \A c \in Callers : pc[c] = "idle"
      BY <2>6 DEF Restart, Undisturbed
    <3>2. acked = [a \in Actors |-> [k \in Kinds |-> acked[a][k]]]
      BY <1>1 DEF IInv, TypeOK
    <3>3. acked' = [a \in Actors |-> [k \in Kinds |-> acked[a][k]]]
      BY <2>6, <3>1 DEF Restart
    <3>4. QED
      BY <2>1, <2>6, <3>2, <3>3 DEF Restart
  <2>7. ASSUME NEW c \in Callers, WriteStep(c)
        PROVE  Feed!FeedNext \/ same
    <3>1. CASE Lookup(c) \/ KvGet(c) \/ FillCache(c) \/ SetCache(c)
      BY <2>1, <3>1 DEF Lookup, KvGet, FillCache, SetCache
    <3>2. QED
      BY <1>1, <2>1, <2>2, <2>3, <2>4, <2>5, <2>7, <3>1, NoFault DEF WriteStep
  <2>8. CASE \E c \in Callers : \E a \in Owns[c], k \in Kinds : \E v \in Values(k) : Call(c, a, k, v)
    BY <2>1, <2>8 DEF Call
  <2>9. CASE UNCHANGED vars
    BY <2>1, <2>9 DEF vars
  <2>10. QED
    BY <1>1, <2>6, <2>7, <2>8, <2>9 DEF Next
<1>2. IInv /\ FeedInv /\ [Next]_vars =>
        [Feed!FeedNext]_<<[a \in Actors |-> [k \in Kinds |->
                            [count |-> Cardinality(OnSubject(stream, a, k)), last |-> LastPublished(a, k)]]],
                          acked>>
  BY <1>1 DEF FeedOf, LastPublished
<1>3. QED
  BY <1>2, FeedOfNothing, FeedInductive, PTL DEF ImplementsChangeFeed, Feed!FeedSpec, Spec
=============================================================================

------------------------------ MODULE Pipeline ------------------------------
(***************************************************************************)
(* The way of an event from a datagram to what a new subscriber is shown:  *)
(* the tag states of the QUUPPA adapter (Derive), the channel to the emit  *)
(* goroutine, Service.handleEvent and Repository.Write, and the last       *)
(* record of each subject, which Watch serves as the snapshot and the gRPC *)
(* adapter converts.                                                       *)
(*                                                                         *)
(* The process may stop at any moment and start again: tag states, channel *)
(* and cache are gone, the stream and the KV bucket stay.  Stream records  *)
(* and KV entries expire at the same age; the cache does not expire.       *)
(*                                                                         *)
(* A change is published, and then the bucket's entry is put: anything,    *)
(* the end of the process included, may happen in between, the put, the    *)
(* look-up and the publications may fail, and from then on a memory is     *)
(* behind the stream until it is told of the next change. What precedes    *)
(* the publication touches nothing that is shared, and is one step with    *)
(* it; Repository.tla has each call of Write on its own. The channel is    *)
(* long enough here; QuuppaAdapter.tla has it overflow.                    *)
(***************************************************************************)
EXTENDS Derive, Wire

CONSTANTS
    Tags,
    QueueBound, \* bound: a datagram is read while fewer events of its tag wait
    MaxAge,     \* age at which stream records and KV entries expire
    Restarts,   \* does the process stop and start again?
    Expires,    \* does time enough for MaxAge pass?
    Faults      \* do calls of Write fail?

ASSUME PipelineAssumption ==
    /\ QueueBound \in Nat \ {0} /\ MaxAge \in Nat \ {0}
    /\ {Restarts, Expires, Faults} \subseteq BOOLEAN

VARIABLES
    states,  \* states[t]: what the adapter remembers of tag t
    queue,   \* queue[t]: the events of t in the channel, or in the hands of a
             \* Write that has not stored them, oldest first
    cache,   \* Repository.cache: Nil or the actorState of t
    kv,      \* ZONYX_ACTOR_STATE: Nil or the entry of t and its age
    owed,    \* the tag, if any, whose cached state Write has yet to put there
    down,    \* Write has returned an error, and emit has ended
    last,    \* last[t][k]: Nil or the last record on the subject of t and
             \* its age; beyond MaxAge nobody sees it any more
    view,    \* view[t]: what the events of t derived since the start say
    spoke,   \* spoke[t]: the types of event among them
    behind   \* behind[t].cache, behind[t].kv: the types of event of which this
             \* memory has missed the last record, or some of it (history)

memVars == <<cache, kv, owed, down, last, behind>>
pipeVars == <<states, queue, memVars, view, spoke>>

ChangeTypes == {"ZONE", "PRESENCE"}

UpToDate == [cache |-> {}, kv |-> {}]

\* What a start of the process begins with.
Fresh ==
    [state |-> [t \in Tags |-> ZeroTagState], queue |-> [t \in Tags |-> <<>>],
     cache |-> [t \in Tags |-> Nil], view |-> [t \in Tags |-> NoView],
     spoke |-> [t \in Tags |-> {}]]

PipeInit ==
    /\ states = Fresh.state /\ queue = Fresh.queue /\ cache = Fresh.cache
    /\ view = Fresh.view /\ spoke = Fresh.spoke
    /\ kv = [t \in Tags |-> Nil]
    /\ last = [t \in Tags |-> [k \in ChangeTypes |-> Nil]]
    /\ owed = {} /\ down = FALSE /\ behind = [t \in Tags |-> UpToDate]

-----------------------------------------------------------------------------
\* The adapter.

\* Only values that are not empty are put into the map.
actorMetadata(ev) ==
    {p \in {<<"locationType", ev.locationType>>, <<"movementStatus", ev.movement>>} : p[2] # ""}

\* The domain.Event of an event that Derive abstracts.
DomainEvent(t, ev) ==
    [type |-> ev.type, actor |-> [id |-> t, metadata |-> actorMetadata(ev)],
     state |-> [location |-> Some([zones |-> ev.zones]), presence |-> ev.presence,
                command |-> Nil]]

TypesOf(evs) == {evs[i].type : i \in DOMAIN evs}

\* The events derived in this step go into the channel.
Send(evs) ==
    /\ queue' = [t \in Tags |-> queue[t] \o [i \in DOMAIN evs[t] |-> DomainEvent(t, evs[t][i])]]
    /\ view' = [t \in Tags |-> Observe(view[t], evs[t])]
    /\ spoke' = [t \in Tags |-> spoke[t] \cup TypesOf(evs[t])]

ReadDatagram(t, msg) ==
    /\ Len(queue[t]) < QueueBound
    /\ states' = [states EXCEPT ![t] = nextTagState(states[t], msg)]
    /\ Send([u \in Tags |-> IF u = t THEN deriveEvents(states[t], msg) ELSE <<>>])
    /\ UNCHANGED memVars

Sweep ==
    /\ \A t \in Tags : Len(queue[t]) < QueueBound
    /\ states' = [t \in Tags |-> watchdogState(states[t])]
    /\ Send([t \in Tags |-> watchdogEvents(states[t])])
    /\ UNCHANGED memVars

Tick ==
    /\ states' = [t \in Tags |-> Elapse(states[t])]
    /\ UNCHANGED <<queue, memVars, view, spoke>>

-----------------------------------------------------------------------------
\* The repository.

Live(item) == {r \in item : r.age <= MaxAge}

\* getActorState: the cache, else the bucket.
getActorState(t) ==
    IF cache[t] # Nil THEN cache[t] ELSE {fromKv(r.data) : r \in Live(kv[t])}

ZonesOf(e) == UNION {l.zones : l \in e.state.location}
LocationTypeOf(e) == Lookup(e.actor.metadata, "locationType")
MovementOf(e) == Lookup(e.actor.metadata, "movementStatus")

\* handleZoneChange, handlePresenceChange: e repeats what s remembers.
Unchanged(s, e) ==
    IF e.type = "ZONE"
      THEN /\ s.hasZones /\ s.zones = ZonesOf(e)
           /\ s.locationType = LocationTypeOf(e) /\ s.movementStatus = MovementOf(e)
      ELSE s.hasPresence /\ s.presence = e.state.presence

\* Mutant: the bucket's entry is made from the event alone.
MutRemember(s, e) ==
    IF e.type = "ZONE"
      THEN [ZeroActorState EXCEPT !.zones = ZonesOf(e), !.locationType = LocationTypeOf(e),
                     !.movementStatus = MovementOf(e), !.hasZones = TRUE]
      ELSE [ZeroActorState EXCEPT !.presence = e.state.presence, !.hasPresence = TRUE]

\* What is remembered of s once e is published: the fields of the other kind
\* stay.
Remember(s, e) ==
    IF e.type = "ZONE"
      THEN [s EXCEPT !.zones = ZonesOf(e), !.locationType = LocationTypeOf(e),
                     !.movementStatus = MovementOf(e), !.hasZones = TRUE]
      ELSE [s EXCEPT !.presence = e.state.presence, !.hasPresence = TRUE]

\* The types of which what getActorState finds is behind.
Doubt(t) == IF cache[t] # Nil THEN behind[t].cache ELSE behind[t].kv

\* The emit goroutine is free, and has an event of t to hand to Write.
HasEvent(t) == queue[t] # <<>> /\ owed = {} /\ ~down

\* The record of the change e of t is on the stream; no memory knows it yet.
OnStream(t, e) == last' = [last EXCEPT ![t][e.type] = Some([data |-> marshal(e), age |-> 0])]

\* Write of the next event of t, as far as the publication and the cache, when
\* the look-up has returned `found', which is behind on the types of `late'.
WriteWith(t, found, late) ==
    /\ HasEvent(t)
    /\ queue' = [queue EXCEPT ![t] = Tail(@)]
    /\ LET e == Head(queue[t])
           prev == OrZero(found, ZeroActorState)
       IN IF Unchanged(prev, e)
            THEN /\ cache' = [cache EXCEPT ![t] = found]
                 /\ behind' = [behind EXCEPT ![t].cache = late]
                 /\ UNCHANGED <<owed, last>>
            ELSE /\ OnStream(t, e)
                 /\ cache' = [cache EXCEPT ![t] = Some(Remember(prev, e))]
                 /\ owed' = {t}
                 /\ behind' = [behind EXCEPT ![t] =
                                 [cache |-> late \ {e.type}, kv |-> @.kv \cup {e.type}]]
    /\ UNCHANGED <<states, kv, down, view, spoke>>

Write(t) == WriteWith(t, getActorState(t), Doubt(t))

\* Mutant: kv.Create for kv.Put, so that an entry that is there stays.
MutPersist(t) ==
    /\ t \in owed /\ owed' = {}
    /\ kv' = [kv EXCEPT ![t] = IF @ # Nil THEN @ ELSE {[data |-> toKv(s), age |-> 0] : s \in cache[t]}]
    /\ behind' = [behind EXCEPT ![t].kv = behind[t].cache]
    /\ UNCHANGED <<states, queue, cache, down, last, view, spoke>>

\* The bucket is given what has been cached.
Persist(t) ==
    /\ t \in owed /\ owed' = {}
    /\ kv' = [kv EXCEPT ![t] = {[data |-> toKv(s), age |-> 0] : s \in cache[t]}]
    /\ behind' = [behind EXCEPT ![t].kv = behind[t].cache]
    /\ UNCHANGED <<states, queue, cache, down, last, view, spoke>>

\* That fails, which is only logged. (If the bucket has it nevertheless, the
\* put is done.)
PersistFails(t) ==
    /\ Faults /\ t \in owed /\ owed' = {}
    /\ UNCHANGED <<states, queue, cache, kv, down, last, view, spoke, behind>>

\* The publication of the raw record fails, or that of the change after the
\* look-up: Write returns the error, and emit ends with it. The record of the
\* change may be on the stream nevertheless.
FailWith(t, found, late) ==
    /\ HasEvent(t) /\ down' = TRUE
    /\ \/ UNCHANGED <<cache, last, behind>>
       \/ LET e == Head(queue[t])
          IN /\ ~Unchanged(OrZero(found, ZeroActorState), e)
             /\ cache' = [cache EXCEPT ![t] = found]
             /\ \/ /\ behind' = [behind EXCEPT ![t].cache = late]
                   /\ UNCHANGED last
                \/ /\ behind' = [behind EXCEPT ![t] = [cache |-> late \cup {e.type},
                                                       kv |-> @.kv \cup {e.type}]]
                   /\ OnStream(t, e)
    /\ UNCHANGED <<states, queue, kv, owed, view, spoke>>

PublishFails(t) == Faults /\ FailWith(t, getActorState(t), Doubt(t))

\* The look-up fails, and the event is treated as the first of the tag. (Where
\* there is nothing to find, that makes no difference.)
LookupFails(t) ==
    /\ Faults /\ cache[t] = Nil /\ getActorState(t) # Nil
    /\ WriteWith(t, Nil, ChangeTypes) \/ FailWith(t, Nil, ChangeTypes)

Restart ==
    /\ Restarts
    /\ states' = Fresh.state /\ queue' = Fresh.queue /\ cache' = Fresh.cache
    /\ view' = Fresh.view /\ spoke' = Fresh.spoke
    /\ owed' = {} /\ down' = FALSE
    /\ behind' = [t \in Tags |-> [behind[t] EXCEPT !.cache = {}]]
    /\ UNCHANGED <<kv, last>>

Older(item) == {[r EXCEPT !.age = IF @ > MaxAge THEN @ ELSE @ + 1] : r \in item}

\* Stream and bucket expire what is too old, oldest first.
AgePasses ==
    /\ Expires
    /\ last' = [t \in Tags |-> [k \in ChangeTypes |-> Older(last[t][k])]]
    /\ kv' = [t \in Tags |-> Older(kv[t])]
    /\ UNCHANGED <<states, queue, cache, owed, down, view, spoke, behind>>

PipeNext ==
    \/ \E t \in Tags, msg \in Datagram : ReadDatagram(t, msg)
    \/ \E t \in Tags : Write(t) \/ LookupFails(t) \/ Persist(t) \/ PersistFails(t) \/ PublishFails(t)
    \/ Sweep \/ Tick \/ Restart \/ AgePasses

PipeSpec == PipeInit /\ [][PipeNext]_pipeVars

-----------------------------------------------------------------------------
ActorState ==
    [zones : SUBSET Zones, presence : Presences \cup {"UNSPECIFIED"},
     locationType : LocationTypes \cup {""}, movementStatus : Movements \cup {""},
     hasZones : BOOLEAN, hasPresence : BOOLEAN]

PipeTypeOK ==
    /\ states \in [Tags -> tagState]
    /\ \A t \in Tags : \A i \in DOMAIN queue[t] :
         /\ queue[t][i].type \in ChangeTypes /\ queue[t][i].actor.id = t
         /\ ZonesOf(queue[t][i]) \subseteq Zones
    /\ \A t \in Tags : cache[t] \subseteq ActorState /\ getActorState(t) \subseteq ActorState
    /\ view \in [Tags -> View] /\ spoke \in [Tags -> SUBSET ChangeTypes]
    /\ owed \in {{}} \cup {{t} : t \in Tags} /\ down \in BOOLEAN
    /\ behind \in [Tags -> [cache : SUBSET ChangeTypes, kv : SUBSET ChangeTypes]]
    /\ \A t \in Tags, k \in ChangeTypes : \A r \in last[t][k] \cup kv[t] : r.age \in 0 .. MaxAge + 1

\* The messages a new subscriber gets of t, and the one it would have got had
\* nothing expired.
ToClient(item) == {domainEventToPb(unmarshal(r.data)) : r \in item}
SnapshotOf(t, k) == ToClient(Live(last[t][k]))
LatestOf(t, k) == ToClient(last[t][k])

PbPresence == [ACTIVE |-> "PRESENCE_TYPE_ACTIVE", INACTIVE |-> "PRESENCE_TYPE_INACTIVE"]

ShowsZones(e, t, zones, movement) ==
    /\ e.type = "EVENT_TYPE_ZONE" /\ e.actor.id = t
    /\ ZonesOf(e) = zones /\ MovementOf(e) = movement
ShowsPresence(e, t, p) ==
    e.type = "EVENT_TYPE_PRESENCE" /\ e.actor.id = t /\ e.state.presence = PbPresence[p]

\* Once the channel is empty, the latest record of a subject says to a client,
\* through both encodings, what the adapter last announced in this run of the
\* process: no event is suppressed by a memory, in the cache or in the bucket,
\* of something older, whatever restarts and expiries came in between
\* (repository.go:162-174). But for one that has missed a record: where the
\* process stopped between publication and put, or one of the two failed, a
\* change back to what the memory still holds is suppressed, until another
\* change of the kind is published (repository.go:226-238).
LatestIsAnnounced ==
    \A t \in Tags : queue[t] = <<>> =>
        /\ "ZONE" \in spoke[t] \ Doubt(t) =>
             \E e \in LatestOf(t, "ZONE") : ShowsZones(e, t, view[t].zones, view[t].movement)
        /\ "PRESENCE" \in spoke[t] \ Doubt(t) =>
             \E e \in LatestOf(t, "PRESENCE") : ShowsPresence(e, t, view[t].presence)

\* The bucket's entry, which zone and presence share, outlives every record it
\* stands for and agrees with it, so that a process that has just started
\* compares with what subscribers are shown (repository.go:119-160, 225-239).
\* The record of a change that has not been put yet, or never will be, is one
\* it does not stand for; the next put of a state that knows better mends that.
BucketOutlivesRecords ==
    \A t \in Tags : \A k \in ChangeTypes \ behind[t].kv : \A r \in Live(last[t][k]) :
        \E s \in Live(kv[t]) : Unchanged(fromKv(s.data), unmarshal(r.data))

\* What a new subscriber is shown of a tag that was heard of since the last
\* start: the zones it is in, if it has a fix inside some, and INACTIVE, if it
\* is offline or has lost its location; or nothing, once the record has
\* expired. A restart, after which the first datagram announces no presence,
\* does not make this wrong (derive.go:37-39, 57-59, 96-97), unless it has left
\* Write with a memory that is behind on the subject (repository.go:226-238).
SnapshotTellsState ==
    \A t \in Tags : queue[t] = <<>> =>
        LET st == states[t]
        IN /\ isLocationType(st.lastLocationType) /\ st.lastZoneIds # {} /\ "ZONE" \notin Doubt(t) =>
                \A e \in SnapshotOf(t, "ZONE") :
                    ShowsZones(e, t, st.lastZoneIds, st.lastMovementStatus)
           /\ (WasOffline(st) \/ st.locationLost) /\ "PRESENCE" \notin Doubt(t) =>
                \A e \in SnapshotOf(t, "PRESENCE") : ShowsPresence(e, t, "INACTIVE")

\* Two records of kind k that subscribers can tell apart.
Differ(k, new, old) ==
    LET e == unmarshal(new.data) f == unmarshal(old.data)
    IN IF k = "ZONE"
         THEN <<ZonesOf(e), LocationTypeOf(e), MovementOf(e)>>
                # <<ZonesOf(f), LocationTypeOf(f), MovementOf(f)>>
         ELSE e.state.presence # f.state.presence

\* A record that is published differs from the one on its subject that
\* subscribers still see, also when a restart has emptied the cache in between
\* (repository.go:7-8, "changed from previous", and 173-174): unless the memory
\* that Write compares with has missed that one, or could not be looked up
\* (repository.go:208-212, 226-238).
OnlyChangesArePublished ==
    [][\A t \in Tags : ~LookupFails(t) => \A k \in ChangeTypes \ Doubt(t) :
         last'[t][k] # last[t][k] =>
             \A new \in last'[t][k], old \in Live(last[t][k]) :
                 new.age = 0 => Differ(k, new, old)]_pipeVars

\* A new subscriber's picture of a tag is that of the world right now: one that
\* is online with a location is not shown as INACTIVE (ports.go:83-85).
PictureOfTheWorld ==
    \A t \in Tags : queue[t] = <<>> =>
        (states[t].online /\ isLocationType(states[t].lastLocationType)
           => \A e \in SnapshotOf(t, "PRESENCE") : ~ShowsPresence(e, t, "INACTIVE"))
=============================================================================

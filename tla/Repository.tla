----------------------------- MODULE Repository -----------------------------
(***************************************************************************)
(* Repository.Write (internal/repositories/jetstream/repository.go): the   *)
(* raw record of every event, the change detection that decides whether    *)
(* the event is also published on its derived subject, the in-memory       *)
(* cache of what was last published and the KV bucket behind it.           *)
(*                                                                         *)
(* Every call to NATS is a step of its own, since the process can stop,    *)
(* and another caller can run, between any two of them.  The stream and    *)
(* the bucket are external and survive a restart; cache and callers do     *)
(* not.  Since Service.Start is fail-fast, an error of Write stops the     *)
(* process, and the orchestrator starts it again.                          *)
(***************************************************************************)
EXTENDS Naturals, Sequences, FiniteSets, FiniteSetsExt

CONSTANTS
    Actors,
    Callers,        \* goroutines that call Write
    Owns,           \* Owns[c]: the actors caller c writes events of
    Snapshots,      \* zone snapshots: zones, location type and movement status
    MaxWrites,      \* bound: calls of Write
    MaxRestarts,    \* bound: restarts of the process
    MaxKvFaults,    \* bound: KV gets and puts that fail
    MaxPublishFaults, \* bound: publishes that report an error
    CrashMidWrite   \* can the process stop while a Write is under way?

\* hasZones and hasPresence are false: nothing was published yet.
None == "none"

ASSUME RepositoryAssumption ==
    /\ Owns \in [Callers -> SUBSET Actors]
    /\ {MaxWrites, MaxRestarts, MaxKvFaults, MaxPublishFaults} \subseteq Nat
    /\ CrashMidWrite \in BOOLEAN
    /\ None \notin Snapshots

VARIABLES
    stream,   \* ZONYX_EVENTS: the sequence of published records
    kv,       \* ZONYX_ACTOR_STATE: [Actors -> actorState or Missing]
    cache,    \* Repository.cache: [Actors -> actorState or Missing]
    pc,       \* pc[c]: where the Write of caller c is
    ev,       \* ev[c]: the event it writes
    prev,     \* prev[c]: the local variable prev of handle*Change
    down,     \* a Write returned an error: the process is stopping
    acked,    \* acked[a][k]: value of the last Write of kind k that returned
              \* nil, None once a later one was cut short (history)
    writes, restarts, kvFaults, publishFaults

memVars == <<cache, pc, ev, prev, down>>
faultVars == <<restarts, kvFaults, publishFaults>>
vars == <<stream, kv, memVars, acked, writes, faultVars>>

Missing == [zone |-> "missing", presence |-> "missing"]

Kinds == {"zone", "presence", "command"}
ChangeKinds == {"zone", "presence"}
PresenceTypes == {"ACTIVE", "INACTIVE"}
CommandNames == {"command"}

Values(k) == CASE k = "zone" -> Snapshots
               [] k = "presence" -> PresenceTypes
               [] k = "command" -> CommandNames

AllValues == Snapshots \cup PresenceTypes \cup CommandNames

Event ==
    {e \in [kind : Kinds, actor : Actors, val : AllValues, id : 1 .. MaxWrites] :
        e.val \in Values(e.kind)}

\* hasZones and hasPresence are false where the field is None.
actorState == [zone : Snapshots \cup {None}, presence : PresenceTypes \cup {None}]
ZeroState == [zone |-> None, presence |-> None]

Record(subject, e) == [subject |-> subject, actor |-> e.actor, val |-> e.val, id |-> e.id]

Init ==
    /\ stream = <<>>
    /\ kv = [a \in Actors |-> Missing]
    /\ cache = [a \in Actors |-> Missing]
    /\ pc = [c \in Callers |-> "idle"]
    /\ ev = [c \in Callers |-> None]
    /\ prev = [c \in Callers |-> ZeroState]
    /\ down = FALSE
    /\ acked = [a \in Actors |-> [k \in Kinds |-> None]]
    /\ writes = 0 /\ restarts = 0 /\ kvFaults = 0 /\ publishFaults = 0

-----------------------------------------------------------------------------
Goto(c, label) == pc' = [pc EXCEPT ![c] = label]

\* The Write of c returns nil; its local variables are gone.
ReturnOk(c) ==
    /\ pc' = [pc EXCEPT ![c] = "idle"]
    /\ ev' = [ev EXCEPT ![c] = None]
    /\ prev' = [prev EXCEPT ![c] = ZeroState]
    /\ acked' = [acked EXCEPT ![ev[c].actor][ev[c].kind] = ev[c].val]

\* It returns an error, which stops the process.
ReturnError(c) ==
    /\ pc' = [pc EXCEPT ![c] = "idle"]
    /\ ev' = [ev EXCEPT ![c] = None]
    /\ prev' = [prev EXCEPT ![c] = ZeroState]
    /\ acked' = [acked EXCEPT ![ev[c].actor][ev[c].kind] = None]
    /\ down' = TRUE

\* A caller hands an event to Write.
Call(c, a, k, v) ==
    /\ pc[c] = "idle" /\ ~down /\ writes < MaxWrites
    /\ writes' = writes + 1
    /\ ev' = [ev EXCEPT ![c] = [kind |-> k, actor |-> a, val |-> v, id |-> writes + 1]]
    /\ Goto(c, "raw")
    /\ UNCHANGED <<stream, kv, cache, prev, down, acked, faultVars>>

\* The raw record is published.
PublishRaw(c) ==
    /\ pc[c] = "raw"
    /\ stream' = Append(stream, Record("raw", ev[c]))
    /\ Goto(c, IF ev[c].kind = "command" THEN "publish" ELSE "lookup")
    /\ UNCHANGED <<kv, cache, ev, prev, down, acked, writes, faultVars>>

\* getActorState: the cache first ...
Lookup(c) ==
    /\ pc[c] = "lookup"
    /\ LET s == cache[ev[c].actor]
       IN IF s # Missing
            THEN prev' = [prev EXCEPT ![c] = s] /\ Goto(c, "compare")
            ELSE UNCHANGED prev /\ Goto(c, "get")
    /\ UNCHANGED <<stream, kv, cache, ev, down, acked, writes, faultVars>>

\* Mutant: what the bucket holds is not read back after a restart.
MutKvGet(c) ==
    /\ pc[c] = "get"
    /\ UNCHANGED prev /\ Goto(c, "compare")
    /\ UNCHANGED <<stream, kv, cache, ev, down, acked, writes, faultVars>>

\* Mutant: a key that is not there is read as if it were.
MutKvNotFound(c) ==
    /\ pc[c] = "get"
    /\ prev' = [prev EXCEPT ![c] = kv[ev[c].actor]] /\ Goto(c, "fill")
    /\ UNCHANGED <<stream, kv, cache, ev, down, acked, writes, faultVars>>

\* ... then the bucket; an actor it does not know has the zero state ...
KvGet(c) ==
    /\ pc[c] = "get"
    /\ LET s == kv[ev[c].actor]
       IN IF s # Missing
            THEN prev' = [prev EXCEPT ![c] = s] /\ Goto(c, "fill")
            ELSE UNCHANGED prev /\ Goto(c, "compare")
    /\ UNCHANGED <<stream, kv, cache, ev, down, acked, writes, faultVars>>

\* ... and a failed lookup counts as a first event (a warning is logged) ...
KvGetFails(c) ==
    /\ pc[c] = "get" /\ kvFaults < MaxKvFaults
    /\ kvFaults' = kvFaults + 1
    /\ Goto(c, "compare")
    /\ UNCHANGED <<stream, kv, cache, ev, prev, down, acked, writes, restarts,
                   publishFaults>>

\* ... and what the bucket returned is put into the cache.
FillCache(c) ==
    /\ pc[c] = "fill"
    /\ cache' = [cache EXCEPT ![ev[c].actor] = prev[c]]
    /\ Goto(c, "compare")
    /\ UNCHANGED <<stream, kv, ev, prev, down, acked, writes, faultVars>>

\* handleZoneChange, handlePresenceChange: is the event a repeat?  (The zero
\* state equals no value.)
Unchanged(c) == prev[c][ev[c].kind] = ev[c].val

Compare(c) ==
    /\ pc[c] = "compare"
    /\ IF Unchanged(c)
         THEN ReturnOk(c)
         ELSE Goto(c, "publish") /\ UNCHANGED <<ev, prev, acked>>
    /\ UNCHANGED <<stream, kv, cache, down, writes, faultVars>>

\* The event is published on its derived or command subject.
PublishChange(c) ==
    /\ pc[c] = "publish"
    /\ stream' = Append(stream, Record(ev[c].kind, ev[c]))
    /\ IF ev[c].kind = "command"
         THEN ReturnOk(c)
         ELSE Goto(c, "set") /\ UNCHANGED <<ev, prev, acked>>
    /\ UNCHANGED <<kv, cache, down, writes, faultVars>>

\* Mutant: an error of the raw publish is logged and Write goes on.
MutPublishFails(c) ==
    /\ pc[c] \in {"raw", "publish"}
    /\ down \/ publishFaults < MaxPublishFaults
    /\ publishFaults' = IF down THEN publishFaults ELSE publishFaults + 1
    /\ \/ UNCHANGED stream
       \/ stream' = Append(stream, Record(IF pc[c] = "raw" THEN "raw" ELSE ev[c].kind, ev[c]))
    /\ IF pc[c] = "raw"
         THEN /\ Goto(c, IF ev[c].kind = "command" THEN "publish" ELSE "lookup")
              /\ UNCHANGED <<ev, prev, acked, down>>
         ELSE ReturnError(c)
    /\ UNCHANGED <<kv, cache, writes, restarts, kvFaults>>

\* Mutant: an error of a derived publish is logged, and the state updated.
MutPublishLogged(c) ==
    /\ pc[c] \in {"raw", "publish"}
    /\ down \/ publishFaults < MaxPublishFaults
    /\ publishFaults' = IF down THEN publishFaults ELSE publishFaults + 1
    /\ UNCHANGED stream
    /\ IF pc[c] = "publish" /\ ev[c].kind # "command"
         THEN Goto(c, "set") /\ UNCHANGED <<ev, prev, acked, down>>
         ELSE ReturnError(c)
    /\ UNCHANGED <<kv, cache, writes, restarts, kvFaults>>

\* A publish reports an error, with or without the stream having taken the
\* record; under a cancelled context that costs no fault.
PublishFails(c) ==
    /\ pc[c] \in {"raw", "publish"}
    /\ down \/ publishFaults < MaxPublishFaults
    /\ publishFaults' = IF down THEN publishFaults ELSE publishFaults + 1
    /\ \/ UNCHANGED stream
       \/ stream' = Append(stream, Record(IF pc[c] = "raw" THEN "raw" ELSE ev[c].kind, ev[c]))
    /\ ReturnError(c)
    /\ UNCHANGED <<kv, cache, writes, restarts, kvFaults>>

\* Mutant: the cache is updated with the event's field alone.
MutRemembered(c) == [ZeroState EXCEPT ![ev[c].kind] = ev[c].val]

\* prev with the field of the event replaced.
Remembered(c) == [prev[c] EXCEPT ![ev[c].kind] = ev[c].val]

\* Mutant: only the bucket is updated.
MutSetCache(c) ==
    /\ pc[c] = "set"
    /\ prev' = [prev EXCEPT ![c] = Remembered(c)]
    /\ Goto(c, "persist")
    /\ UNCHANGED <<stream, kv, cache, ev, down, acked, writes, faultVars>>

SetCache(c) ==
    /\ pc[c] = "set"
    /\ prev' = [prev EXCEPT ![c] = Remembered(c)]
    /\ cache' = [cache EXCEPT ![ev[c].actor] = Remembered(c)]
    /\ Goto(c, "persist")
    /\ UNCHANGED <<stream, kv, ev, down, acked, writes, faultVars>>

Persist(c) ==
    /\ pc[c] = "persist"
    /\ kv' = [kv EXCEPT ![ev[c].actor] = prev[c]]
    /\ ReturnOk(c)
    /\ UNCHANGED <<stream, cache, down, writes, faultVars>>

\* A failed put is a warning: Write returns nil all the same.
PersistFails(c) ==
    /\ pc[c] = "persist" /\ kvFaults < MaxKvFaults
    /\ kvFaults' = kvFaults + 1
    /\ ReturnOk(c)
    /\ UNCHANGED <<stream, kv, cache, down, writes, restarts, publishFaults>>

-----------------------------------------------------------------------------
\* The process stops and starts again: the stream and the bucket remain.  A
\* Write under way is cut short; without CrashMidWrite only an idle process
\* stops.
Restart ==
    /\ restarts < MaxRestarts
    /\ ~CrashMidWrite => \A c \in Callers : pc[c] = "idle"
    /\ restarts' = restarts + 1
    /\ cache' = [a \in Actors |-> Missing]
    /\ pc' = [c \in Callers |-> "idle"]
    /\ ev' = [c \in Callers |-> None]
    /\ prev' = [c \in Callers |-> ZeroState]
    /\ down' = FALSE
    /\ acked' = [a \in Actors |-> [k \in Kinds |->
                  IF \E c \in Callers : pc[c] # "idle" /\ ev[c].actor = a /\ ev[c].kind = k
                    THEN None ELSE acked[a][k]]]
    /\ UNCHANGED <<stream, kv, writes, kvFaults, publishFaults>>

WriteStep(c) ==
    \/ PublishRaw(c) \/ Lookup(c) \/ KvGet(c) \/ KvGetFails(c) \/ FillCache(c)
    \/ Compare(c) \/ PublishChange(c) \/ PublishFails(c)
    \/ SetCache(c) \/ Persist(c) \/ PersistFails(c)

Next ==
    \/ \E c \in Callers : \E a \in Owns[c], k \in Kinds : \E v \in Values(k) : Call(c, a, k, v)
    \/ \E c \in Callers : WriteStep(c)
    \/ Restart

Spec == Init /\ [][Next]_vars

-----------------------------------------------------------------------------
TypeOK ==
    /\ stream \in Seq([subject : Kinds \cup {"raw"}, actor : Actors,
                       val : AllValues, id : 1 .. MaxWrites])
    /\ kv \in [Actors -> actorState \cup {Missing}]
    /\ cache \in [Actors -> actorState \cup {Missing}]
    /\ pc \in [Callers -> {"idle", "raw", "lookup", "get", "fill", "compare",
                           "publish", "set", "persist"}]
    /\ \A c \in Callers : IF pc[c] = "idle" THEN ev[c] = None ELSE ev[c] \in Event
    /\ prev \in [Callers -> actorState]
    /\ down \in BOOLEAN
    /\ acked \in [Actors -> [Kinds -> AllValues \cup {None}]]
    /\ writes \in 0 .. MaxWrites /\ restarts \in 0 .. MaxRestarts
    /\ kvFaults \in 0 .. MaxKvFaults /\ publishFaults \in 0 .. MaxPublishFaults

\* The records of one actor on one subject of stream s, and the value of the
\* last of them.
OnSubject(s, a, k) == {n \in DOMAIN s : s[n].subject = k /\ s[n].actor = a}
LastOn(s, a, k) ==
    LET on == OnSubject(s, a, k) IN IF on = {} THEN None ELSE s[Max(on)].val
LastPublished(a, k) == LastOn(stream, a, k)

Busy(a) == \E c \in Callers : pc[c] # "idle" /\ ev[c].actor = a

\* A change of one kind leaves what the bucket remembers of the other kind
\* alone (repository.go:11, "independent write-through in-memory caches").
IndependentKinds ==
    [][\A c \in Callers :
         pc[c] = "persist" /\ kv' # kv /\ kv[ev[c].actor] # Missing =>
             \A k \in ChangeKinds \ {ev[c].kind} :
                 kv'[ev[c].actor][k] = kv[ev[c].actor][k]]_vars

\* What the cache holds for an actor nobody is writing is the last record of
\* both its subjects: filling it from the bucket, or a change of one kind,
\* does not disturb the other (repository.go:225-239, 255-266, 346-384).
CacheCurrent ==
    \A a \in Actors :
        cache[a] # Missing /\ ~Busy(a)
            => \A k \in ChangeKinds : cache[a][k] = LastPublished(a, k)

\* Nothing is remembered, in memory or in the bucket, that was not published
\* before: a crash or a failed publish can make change detection repeat a
\* record but never lets it take a change for known that no subscriber saw
\* the like of (repository.go:226-238, 255-265).
RememberedWasPublished ==
    \A a \in Actors, k \in ChangeKinds :
        \A s \in {kv[a], cache[a]} :
            s # Missing /\ s[k] # None
                => \E i \in DOMAIN stream :
                     stream[i].subject = k /\ stream[i].actor = a /\ stream[i].val = s[k]

\* Every derived or command record comes after the raw record of its event, so
\* the offset that Write returns, the raw record's, is one from which a
\* subscriber still receives the change (repository.go:176-197).
RawComesFirst ==
    \A i \in DOMAIN stream :
        stream[i].subject # "raw" =>
            \E j \in 1 .. i - 1 : stream[j].subject = "raw" /\ stream[j].id = stream[i].id

\* The derived subjects implement the abstract change feed, while a history
\* of what Write returned supplies its acknowledgements: a record differs from
\* the one before it, and suppressing repeats hides no change from a subscriber's
\* snapshot, also when a restart has cleared the cache (repository.go:7-9,
\* 173-174).
Feed == INSTANCE ChangeFeed WITH
    FeedValues <- AllValues,
    Commands <- {"command"},
    feed <- [a \in Actors |-> [k \in Kinds |->
               [count |-> Cardinality(OnSubject(stream, a, k)), last |-> LastPublished(a, k)]]]
ImplementsChangeFeed == Feed!FeedSpec
=============================================================================

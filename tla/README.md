# A TLA+ model of zonyx-core

zonyx-core turns positioning datagrams of tags into events, stores them in NATS
JetStream and streams them to gRPC clients. This directory models the program
in TLA+, checks the models with TLC and proves with TLAPS nearly all of their
safety properties (section 6 lists the others) for every size of the system:
those of the tag detector, of the adapter around it, of the repository's writing
and watching, of the way from a datagram to a subscriber, of directives, of the
process and of the simulator that tests it from outside. Paths below are relative
to `src/`.

## 1. The system

| Component | Code | State | Operations |
|---|---|---|---|
| Transition rules | `internal/adapters/quuppa/derive.go`, `state.go`, `parser.go` | per tag: online, lastPacketTS, last location type, zones, movement, locationLostAt | `deriveEvents`, `runWatchdog` |
| Adapter loop | `internal/adapters/quuppa/adapter.go` | the map of tags, `evCh`, `errCh`, read deadline, socket | read, sweep, send, emit, shut down |
| Repository, writing | `internal/repositories/jetstream/repository.go` | stream, KV bucket, cache | `Write` = raw publish, look-up, compare, publish, cache, KV put |
| Repository, watching | same, `codec.go` | consumers, `msgCh`, offsets | `Watch` |
| Conversions | `codec.go`, `grpc/adapter.go`, `repository.go` (KV entries) | none | `marshal`, `unmarshal`, `domainEventToPb`, JSON of the bucket, offset strings |
| Core service | `internal/core/services/service.go` | providers, their errgroup | `Start`, `handleEvent`, `Subscribe`, `Publish`, `ReadConfiguration` |
| gRPC adapter, server, interceptors | `internal/adapters/grpc/**` | open streams, health status | RPC handlers, `Start`, `Stop`, validation |
| Process | `cmd/main.go`, provisioning in `repository.go` | NATS connection, stream and bucket, root context, errgroup | connect, provision, compose, signal, tear-down |
| Simulator | `cmd/quuppa-simulator/main.go` | senders, subscription, event channel, the check waited for | generators and validations `walk`, `offline`, `lost`, `stress` |

How they interact. QPE sends a UDP datagram; the read loop derives events from
it and the remembered tag state and puts them into `evCh` without ever
blocking. The emit goroutine takes them out and calls `Service.handleEvent`,
which calls `Repository.Write`. That stores every event under a raw subject
and, when it changes what was last published, under a derived one. Clients
subscribe to derived subjects through `Watch`; directives travel the other way
through `CoreAdapter.Publish`. Errors travel up: an emit error ends `Run`, an
error of a provider ends `Service.Start`, and the first error of the process's
errgroup cancels everything. The simulator closes the circle from outside: it
sends datagrams and, with `--validate`, waits on a Subscribe stream for the
events they must cause.

What is hard, and what would make each part correct:

* *Transition rules*: four paths set and reset two flags; two of them announce
  INACTIVE. After any sequence of datagrams and sweeps, what the emitted events
  say of a tag has to be what the adapter remembers of it.
* *Adapter loop*: three goroutines, a bounded channel that drops, a watchdog
  that runs only when a read times out, a shutdown that must not call `emit`
  after it returned. Events must not be reordered; silence must be detected;
  `Run` must return.
* *Writing*: seven steps, each of them a place to crash or fail. Suppressing
  repeats must never hide a change.
* *Watching*: snapshot and live part must meet without a gap or repetition, a
  resumed client must miss nothing, a slow one must be served or told.
* *From datagram to subscriber*: three memories (tag states, cache, bucket) of
  which a restart clears two, of which one alone expires, and of which the bucket
  is told of a change only after subscribers are. A memory that has missed no
  change may not suppress an event because of something subscribers no longer see.
* *Process*: a start-up that finds whatever an earlier one left, goroutines that
  wait for one another at the end, and clients that decide when a stream ends.
* *Simulator*: a test that must not fail without a reason nor pass without having
  tested, over UDP, two unordered subjects and a bounded channel.
* *Directives*: replies in order, each telling what became of its directive.

`PROJECT.json` lists every hazard at its line with the property that covers it.

## 2. The modules

```
Derive ─┬─ TagDetector ── QuuppaAdapter        ChangeFeed ◁── Repository
        └─ Pipeline ── Simulator                (abstract)
 Wire ───────┘                                 Watch   Directives   Lifecycle
                                               ZoneLists
proofs:
Derive_proofs ─┬─ QuuppaAdapter_proofs
               └─ Pipeline_proofs ── Simulator_proofs
Repository_proofs   Watch_proofs   Directives_proofs   Lifecycle_proofs
```

* **Derive** holds the rules as operators: `deriveEvents(prev, msg)` is the
  list of events, `nextTagState` the new state, `Overdue` / `watchdogEvents` the
  sweep for one tag. A zone list is a set (Derive_proofs shows when that is right).
  Timestamps are only ever compared as `now - lastPacketTS`, so a state has a `silence` that time
  increases and that saturates where no rule distinguishes further. Coordinates,
  names and event ids are left out. `Observe` is what a consumer makes of a
  list of events; it is the yardstick of most properties.
* **TagDetector** is the map of tags: `Receive` (one datagram), `Watchdog` (one
  sweep over the map), `Tick` (time passes). It leaves open when they happen
  and thereby is the abstract specification of the adapter.
* **QuuppaAdapter** is `Run`: `pc` follows the loop (bind, top, read, send,
  defer, wait, returned), `epc` the emit goroutine, `evCh` the channel, `wait`
  the read deadline. A step that touches tag states *is* a step of TagDetector.
  `emit` is external: it succeeds, or it fails when the store refuses or the
  context is cancelled, after the store took the event or before. With
  `Prompt` the loop needs no time of its own, which is the case most favourable
  to the latency the code promises.
* **Repository** is `Write`, one action per NATS call (`PublishRaw`, `Lookup`,
  `KvGet`, `FillCache`, `Compare`, `PublishChange`, `SetCache`, `Persist`, and
  the failing variants), since another caller or a crash can come between any
  two. `Restart` clears the memory and keeps stream and bucket. A zone value
  stands for zones, location type and movement status together, as the code
  compares them together.
* **ChangeFeed** says what `Write` promises: per actor and kind a feed in which
  every value differs from the one before, ending, when a Write returns, with
  its value. A feed is the number of its values and the last one: since it only
  grows, by one value at a time, those two at each step are the whole of it.
* **Watch** is one client over several calls of `Watch`: a consumer per
  subject (`Subscribe`, `Push`), the shared channel (`msgCh`), `Deliver`, and a
  client that leaves (`Close`) and comes back (`Open`) with the offset it
  received last, or with a string that is no offset (`OpenRefused`). Offsets are
  sequences of digits, padded by `encodeOffset` and trimmed and read again by
  `decodeOffset`. JetStream and nats.go are external: consumers push the records
  of their subject in order, and what finds the channel full is lost.
* **ZoneLists** has no behaviour: it is the comparison of zone lists, which the
  other modules take for equality of sets.
* **Wire** holds the conversions as operators: what JSON with `omitempty` drops
  and what is read back, enums as integers and back, the entry of the bucket, and
  the protobuf message. A nil pointer and a dropped field are the empty set.
* **Pipeline** composes Derive and Wire with the channel, `Service.handleEvent`,
  `Write` and the last record per subject, up to the message a new subscriber is
  sent. A Write is two steps: `Write` looks up, publishes and caches, and `Persist`
  puts the entry into the bucket; in between, `owed` holds the tag. Look-up,
  publications and put may each fail (`LookupFails`, `PublishFails`,
  `PersistFails`), and after an error of Write the emit goroutine has ended
  (`down`). `Restart` may happen at any time, between publication and put as well;
  `AgePasses` lets records and bucket entries expire. What comes before the
  publication touches nothing shared and is one step with it, since Repository
  has each call of Write as an action of its own; the channel does not drop,
  since QuuppaAdapter has that. One history, `behind`, says of cache and bucket
  which types of event they have missed the last record of; `Doubt(t)` is that
  of the one which the next Write compares with.
* **Simulator** runs `cmd/quuppa-simulator` against Pipeline, with a core that
  neither fails nor is restarted (a put is `CorePersists`): one sender per tag
  (`pos`), the Subscribe stream (`feed`, in no order across subjects), the
  receiving channel (`ch`) and the list of checks (`phase`, `step`). Three
  histories state its properties: `excused` (something outside of the core went
  wrong), `fresh` (the core had not heard of a tag before) and `heard` (the
  datagrams that arrived).
* **Directives** is one Publish stream with its validating interceptor and the
  loop over the providers.
* **Lifecycle** is the process: `boot` follows `main` through connect, stream,
  bucket and composition, `exists` is what NATS has at that time, and the rest is
  providers, server, tear-down, streams and exit code.

`MC*.tla` give model values; each `.cfg` is one run. `X_proofs` holds the theorems
about `X` (section 6), `QuuppaAdapter_proofs` those about TagDetector as well.

## 3. Runs that pass

| Run | Bounds | What it shows |
|---|---|---|
| tag_detector | 2 tags, 1 zone, with and without a location, 2 movement values, threshold 2, silence to 3, datagrams 0 or 3 old | what consumers are told of presence and zones is what the adapter remembers; a sweep leaves no silent tag active, and none is declared INACTIVE twice |
| adapter | 1 tag, channel of 2, threshold and tick 1; noise, drops, emit errors, cancellation | the queue neither loses nor reorders what it did not drop; `Run` returns after a cancellation or an emit error and never emits afterwards |
| repo_callers | 2 callers of an actor each, 3 Writes, 1 restart between Writes | `Write` implements ChangeFeed, across a restart; callers and kinds do not disturb each other |
| repo_faults | 4 Writes, 2 crashes anywhere, 1 KV and 1 publish fault | what is remembered was published; the raw record comes first |
| watch | 3 records from sequence 98, 2 actors, a filter of one type and one of two, 2 sessions, channel of 1 for each subject | snapshot, live part and resumption meet without a gap; what is published is delivered or met a full channel |
| pipeline | 1 tag, 1 zone, with and without a location, 1 movement value, threshold 1, a datagram read when no event waits, MaxAge 1; restarts, expiry and failing look-ups, puts and publications at any time | but for the types of event a memory is behind on: the latest records say what the adapter announced; the bucket outlives and matches the records; a snapshot tells the zones and INACTIVE; only changes are published |
| simulator | 2 tags, 2 zones, 2 simulators in a row with any scenario, channel of 2, a datagram read when no event of its tag waits; lost datagrams, interruptions | a validation fails only for a reason outside of the core; one that passes on a fresh core has tested what it says |
| lifecycle | 2 providers, 2 clients; stream and bucket there before, or not | streams have NATS under them, exit code, nothing left behind, nothing waits in a circle |
| directives | 3 directives, 2 providers | replies in order and truthful; one directive in doubt at most |

`NothingMissed` and `PictureCurrent` speak of a client that is caught up, met no
full channel, and either did not resume or asked for one type: section 4 says
what happens to the others.

The four properties of the pipeline run exempt exactly the types of event that
the memory at hand is behind on, and no others: a stop or a failure in the middle
of a Write is in the run, what it does to the record that is published next is in
section 4, and the next published change of the type ends the exemption. A
memory is behind only after such a stop or failure (`Trusted` in Pipeline_proofs
is the rest).

The simulator run has three constraints. `Undecided` ends the last run when it
validates nothing, or when something outside of the core has gone wrong on a core
that knows the tags: neither property says anything of it from there on.
`FewWaiting` is a bound: while a generator runs, which only prepares the core for
the next simulator, events of one tag at most wait in the channel. `PutFirst`
takes a put at once, since it commutes with every other step of a core that does
not stop: nothing looks at the bucket while the cache has the state.

Why the bounds are enough. The rules look at one tag, its previous state and
one datagram, and reach every combination of flags and thresholds with a silence
one above the threshold; the second tag adds the sweep over the map. In the
adapter run, what zones a tag is in decides nothing about the queue, so there
are none; a datagram can emit two events, a channel of two can hold both, and a
further one finds it full, so that reordering would show and drops happen.
Change detection compares with one earlier value, so that two values and a third
Write returning to the first are the shortest case that can go wrong; restarts
and faults need one each, and two restarts show recovery from recovery. In
Watch, three records are enough for a snapshot, a live record and one published
while subscriptions are being made, and two sessions for a resumption; the
filter of one type also names a type that is not known and must be ignored;
sequences 98 to 100 make an offset gain a digit. In Pipeline, tags share nothing,
one movement value is enough since zones and location type change too and are
compared together with it, an age one beyond `MaxAge` is enough to tell live from
expired, and the two events of one datagram stand in the channel together, so that
one type can be published, put, lost or in doubt while the other waits; how often
the process stops and calls fail is not bounded. The second simulator meets a core in any state the first can
leave, and two tags are enough for the checks of one to pass over events of the
other. The process has one of everything, except providers and clients, of which
two tell the first from the others. Counters are bounded by the constants named
`Max...` and `QueueBound`, in the guards of the actions that count.

In repo_callers a caller has the name of its actor, so that exchanging the two
names is a symmetry of the run; it halves the states and loses none, since the
properties are safety properties that name neither.

Deadlock checking is off where the system may stop: `Run` and the process
return, a stream ends, and the bounds on Writes, records and directives are
reached, and a simulator ends. It is on for tag_detector and pipeline.

## 4. Where code and documentation disagree

Each of these is a run that TLC ends with a counterexample.

| Run | Property | The disagreement |
|---|---|---|
| adapter_starved | DetectionLatency | the watchdog runs only when a read deadline expires, and each datagram of a busy tag sets a new one; `adapter.go:92` promises OfflineThreshold + tick |
| watch_skip | ResumeMissesNothing | a client that received the later of two events first resumes behind the earlier; `ports.go:86-90` |
| pipeline_restart | PictureOfTheWorld | the tag states are empty after a restart and a first datagram announces no presence, so that a tag with a fix stays INACTIVE for new subscribers if it had lost its location before; `ports.go:83-85` promises the world right now |

Modelling brought up more, which the models have but no run is spent on:

* `repository.go:226-238`: a stop between publication and KV put, or a put that
  fails, leaves an older value in the bucket. The next process compares with that,
  suppresses a change back to it and publishes again what is the last record
  already, though `repository.go:173-174` says the state survives restarts.
  Pipeline has it (`Restart` while `owed` is not empty, `PersistFails`), as
  Repository has (`Restart` with `CrashMidWrite`): without the exemption for
  `Doubt`, LatestIsAnnounced, SnapshotTellsState and OnlyChangesArePublished are
  false, and so is BucketOutlivesRecords without that for `behind`. The next
  change that is published and put mends it.
* `derive.go:85-100` announces a change of movement, zones or location type
  whatever the movement is, though `docs/QUUPPA.md:201-205` (section 5 there) says
  that the adapter suppresses EVENT_TYPE_ZONE while the movement is "stationary".
  TagDetector follows the code: ZoneViewCurrent holds because a tag that comes to
  rest, or changes zones while at rest, is announced, and would be false of an
  adapter with the documented gate. By the same passage every other datagram with
  a fix causes a zone event; the code emits one when something changed.
* `derive.go:18-24` takes "position" for a location and nothing else, though `docs/QUUPPA.md:171-178` (section 4, which the comment at
  `derive.go:21` cites) and `docs/QUUPPA.md:427` (LOCATION_TYPES in section 8) count
  "approximate" as one. Derive follows the code: the step from "position" to
  "approximate" loses the location, and DegradedIsInactive holds of it, while by
  the document the tag would stay ACTIVE.
* `derive.go:125-133`: the watchdog passes over a tag that has lost its location,
  since going offline would be announced by the same INACTIVE. The watchdogTick of
  `docs/QUUPPA.md` (section 8) has no such exception; there TAG_OFFLINE and
  LOCATION_LOST are different events. NoDoubleInactive rests on the code's.
* `repository.go:306`: what finds `msgCh` full is lost silently, though
  `ports.go:89-90` promises no gaps; and the order promised there does not hold
  across subjects (`Push`).
* `main.go:85` says the first error cancels everyone, but an open Subscribe
  stream keeps GracefulStop waiting for ever (`GracefulStopReturns`).
* `repository.go:119`: a tag that does not change for `MaxAge` disappears from
  snapshots while the cache goes on suppressing its repeats, though
  `ports.go:83-85` promises a complete picture (`AgePasses`; `SnapshotTellsState`
  speaks of records that are still there).
* `quuppa-simulator/main.go:217-219` validates tag by tag "so events from
  different tags don't confuse assertions"; on a core where a later tag already
  is in its first zone, the checks of an earlier one pass over that tag's
  snapshot, which is then suppressed as a repeat, and the validation fails.
  On a core that knows the tag a snapshot can also satisfy a check in place of
  the event of the datagram (`PassMeansTested` asks for `fresh`).
* `adapter.go:146`: the emit goroutine stops at its first error and leaves the
  rest of the channel, while `adapter.go:150-151` says it drains (`EmitError`).
* `repository.go:208`: a failed KV get counts as a first event, and the put that
  follows erases the other kind's state, though `repository.go:11` calls the two
  independent (`KvGetFails`; `IndependentKinds` holds without such faults). In
  Pipeline (`LookupFails`) the memories are then behind on both types.
* `validation.go:22`: an invalid directive ends the stream, where
  `grpc/adapter.go:52-53` reserves that to errors of the transport (`Recv`).
* `state.go:26`: lists with a repeated id can compare as equal although their
  sets differ (theorem `RepeatedIdHidesChange`); `state.go:23-24` promises sets.

## 5. Fairness

* `FairAdapterSpec`: the goroutines run, the socket closes after cancellation and
  time passes. `emit` gets no fairness, because a publish without a deadline may
  wait for ever (`repository.go:407`); only once the context is cancelled is its
  failure certain.
* Watch's `FairSpec`: consumers push and `Watch` delivers. Clients and the
  repository owe nothing.
* Lifecycle's `FairSpec`: the calls of the start-up return, since NATS requests
  have time limits, the goroutines of the errgroup run, and a provider
  sees a cancelled context (`CancelReturns` is that fact for QUUPPA). Signals,
  faults and clients are never certain, so a stream may stay open for ever.
* Directives' `FairSpec`: the handler runs; producer and transport owe nothing.
* Pipeline and Simulator state safety only and assume no fairness.

## 6. Proofs

Every theorem holds for all values of the constants that the module's `ASSUME`
allows (TLC evaluates those assumptions in the runs), hence for any number of
tags, actors, callers, clients, providers, records, restarts and so on. The
bounds that keep TLC's instances small are parameters like the others. An
inductive invariant was checked with TLC before it was proved.

**Derive_proofs** is about the rules for one tag. The view a consumer has of a
tag and the tag's state are related by `TagInv`: INACTIVE is announced exactly
while the tag is offline or has lost its location, a lost location is recorded,
and the announced zones are those of the fix, or none. A datagram emits up to
four events, of which the last of each type matters; lemmas say which those are
(`DeriveView`), so that preservation of `TagInv` is a matter of two events. The
module also shows when lists may be taken for sets:

* `ZonesEqualComparesSets`: without repeated ids `zonesEqual` is equality of the
  sets. A list of distinct ids is a bijection onto its set, so that equal lengths
  are equal cardinalities, and a subset of equal cardinality is the whole set;
* `RepeatedIdHidesChange`: with a repeated id it is not.

The first part of **QuuppaAdapter_proofs** lifts this to the map of tags of
TagDetector: `TypeCorrect`,
`PresenceCorrect`, `ZonesCorrect`, `DegradedCorrect`, `SweepCorrect` and
`NoDoubleCorrect`. For the last, each list of events that a step emits is shown
to contain no INACTIVE that follows another, counting what the consumer already
believes (`NoRepeat`).

Its second part is about `Run` under every interleaving of its goroutines, errors
and cancellation:

* `AdapterImplementsDetector`: `AdapterSpec => Spec`, each step of `Run` being a
  step of TagDetector or leaving its variables alone; `AdapterPresence` carries
  `PresenceMirrorsState` over to `Run`;
* `EmitEndsFirst`: `[]NoEmitAfterReturn`, from `EmitInv`, which says where the
  goroutine is at each `pc`;
* `AdapterTypeCorrect`: `[]AdapterTypeOK`, with the capacity of the channel;
* `QueueCorrect`: `[]QueueCarriesView`. For every tag without a dropped event,
  what was delivered, followed by what is in flight (the event in hand, the
  channel, the events still to be sent), makes the view the detector announced
  (`Carries`). The step that matters is that applying a concatenation is applying
  its parts in turn (`ObserveConcat`); it is proved from the position of the last
  event of a type, since `Observe` is not recursive. `EventsOf` masks the events
  of other tags instead of removing them, so that positions survive.

**Repository_proofs** has two parts. Whatever fails and wherever the process
stops:

* `TypeCorrect`, `RememberedCorrect`, `RawFirst`: `[]TypeOK`,
  `[]RememberedWasPublished`, `[]RawComesFirst`. The invariant `IInv` says of
  every caller, by its label, what is in the stream already and that its local
  copy of the state holds only published values (`CallerInv`).

With `Undisturbed` (no faults, no stop in the middle of a Write, no actor with
two callers), which is how the code uses `Write` when nothing goes wrong, while
restarts between Writes are allowed:

* `CacheCorrect`, `KindsIndependent`: `[]CacheCurrent`, `IndependentKinds`;
* `FeedImplemented`: `ImplementsChangeFeed`, the refinement of ChangeFeed.
  `FeedInv` says that bucket and cache agree with the last record except while a
  Write is between its publish and its updates, and that such a Write knows the
  ends of both feeds.

`Undisturbed` cannot be dropped: section 4 names the behaviours that break these
properties without it.

**Watch_proofs**: `TypeCorrect`, `OrderCorrect` (`[]SubjectInOrder`),
`NothingMissedCorrect` and `PictureCorrect`. `SInv` says where records of a
subject can be: received ones are older than those in the channel, and these
older than what the consumer has still to push. `WInv` adds what became of
everything owed to the client: it was seen, or is on its way, or something met a
full channel, and a client that leaves has seen all of it up to its cursor. The
hypothesis `OffsetsRoundTrip` says that decoding an encoded offset gives the
position back. It is about the digits of a number, for which the prover has
neither powers nor induction; TLC evaluates it for the positions of the run, and
for the numbers from 1 to 1100 in an assumption of MCWatch.

**Pipeline_proofs** follows an event from datagram to subscriber, across
expiry, failing calls and any number of stops, in the middle of a Write too. What
the theorems exempt is what a memory has missed (`behind`, section 3):

* `PipeTypeCorrect`, `LatestCorrect`, `BucketCorrect`, `SnapshotCorrect`:
  `[]PipeTypeOK`, `[]LatestIsAnnounced`, `[]BucketOutlivesRecords`,
  `[]SnapshotTellsState`;
* `OnlyChangesCorrect`: `OnlyChangesArePublished`.

First come the round trips: a record and a bucket entry are read back as what
they were made from, omitempty and enum numbers included (`RecordBack`,
`EntryBack`), and the client's message says the same (`ClientReads`). The
invariant of the stores is `Knows(s, ...)`: of each of a set of kinds, what a
state s has of the kind is what the last record of it says, and s has the kind if
subscribers are still shown a record. It holds of the cached state and of the
bucket's entry, each for the kinds it is not behind on (`Trusted`), and of those the
entry is as young as any record (`StoreInv`). So whatever Write compares with, also
when it finds nothing because the entry has expired or the look-up has failed, it
compares with what subscribers see, but for the kinds in doubt (`FoundKnows`,
`SoughtKnows`). A publication takes its kind out of the cache's doubt and puts it
into the bucket's; the put gives the bucket the doubt of the cache (`PersistStep`);
a start of the process leaves the bucket's alone. Together with `TagInv` and with
`Announced`, which says that the last event of a kind in the channel, or without
one and without doubt the last record, says what was announced, this is the
inductive `PipeInv`.

**Directives_proofs**: `TypeCorrect`, `RepliesCorrect` (`[]RepliesTell`) and
`DoubtBounded` (`[]AtMostOneUntold`). The invariant says how many replies there
are at each point of the handler (`InHand`) and that the reply about to be sent,
like those that were, tells what the providers did (`CurrentInv`, `RepliesInv`).

**Lifecycle_proofs**: `TypeCorrect`, `StreamsCorrect`, `NothingLeft` and
`ExitCodeCorrect` (`[]TypeOK`, `[]StreamsHaveNats`, `[]NothingLeftBehind`,
`[]ExitCodeTells`). None of the last three is inductive: each speaks of the end
and depends on how it was reached. `IInv` says how far every part has come. Before
`boot` is done nothing has moved, and a start-up that ended has a fault and no
connection (`BootInv`); the position of the tear-down fixes server, streams and
connection (`TeardownInv`); an error of the group is a fault that has been met,
and the fault of a provider reaches the group when the service returns
(`FaultInv`).

**Simulator_proofs** closes the circle: any number of simulators, one after the
other, with any tags, zones and scenarios, against one core.

* `SimulatorRefinesPipeline`: `SimSpec => PipeSpec`. To the core a simulator is an
  environment like any other, so that the theorems about Pipeline hold beside it;
* `SimTypeCorrect`: `[]SimTypeOK`;
* `FailureExplained`: `[]FailureHasReason`, for zones that differ one from the
  next (`ZonesDiffer`; `-zones` has three different ones by default). With the
  same zone twice in a row the property is false: the second datagram of a walk
  changes nothing, no snapshot follows, and the check of it times out. TLC finds
  that with `ZoneOrder = <<z1, z1>>`;
* `PassShown`: `[]PassMeansTested`, for zones that all differ
  (`IsInjective(ZoneOrder)`, as by default), so that a zone event names the one
  datagram it can come from. TLC has found no run against the property with
  `<<z1, z2, z1>>`; the proof does not reach that far.

`SimInductive` has the invariant of the states between runs: the core's
(`PipeInv`), that a core which neither fails nor stops has no memory behind, except
an entry whose put is to come (`Untroubled`, with which `PipeInv` says of a tag
what `CorePipe` does), what simulators leave in it, whatever they ran and wherever they
stopped (`Clean`: a kind of event that was not announced of a tag has neither a
record nor a place in the channel, no zone event repeats the one before it, and of
a tag the adapter has not heard of nothing was announced), and what there is of a
simulator that has ended or not subscribed.

A validation must find, for every check, a message. The invariant of a run
without an excuse (`Expected`) says where it is: `Due` counts the checks that the
datagrams and silences so far must satisfy, and `Lined` gives each of those that
are still behind a place of its own, in increasing order, among what has been
received, what is under way and the events in the core's channel. An event there
is as good as a message only when Write will not suppress it, and that is `Renews`:
it does not repeat the event of its type before it in the channel, or, with none
there, the record. Steps of the core move the places or add some
(`LinedPublish`, `LinedSuppress`, `LinedSend`), `Receive` and `waitForCheck` take
them away in order, and when nothing is under way and all has been sent, no place
is left and so no check is (`NothingAhead`): the timer does not fire.

A validation that passes on a core that had never heard of the tags needs the
opposite direction, from messages back to datagrams, and its invariant is
`Tested`. Every message about a tag that is validated, whether received, under way,
in the core's channel or stored, is `Vouched` for: if it satisfies a check that
stands for a datagram or a silence, that step is among those `heard`. For new
events this rests on `Sound`, what the adapter's state for the tag tells of the
steps heard: offline only after a silence the watchdog reported, without a location
only after the noLocation datagram. The checks of `lost` do not tell the first
datagram from the third, which names the same zone; there the order of messages
matters. Had the first been lost, the tag would have had no location to lose, and in
none of the four places, nor across them, would it come back after having gone
(`NeverBack`), so that the third check is never satisfied. `Shown` adds up what the
checks of a walk have shown, tag by tag, and at the last check nothing is missing
(`LastShown`).

Only model-checked:

* liveness, since the prover handles neither fairness nor ENABLED;
* that offsets are read back as they were written (`OffsetsRoundTrip`), as said
  above.

The prover does no induction over data and accepts no RECURSIVE operator. No
module needs one: what a list of events means is defined by positions
(`LastIndex`), and where a proof needs the first or last of a set of positions
it has it from the fact that `<` on Nat is well-founded, which is a statement
about sets.

## 7. Not modelled

* Coordinates, names, event ids and the times inside events: no rule compares
  them. Logging.
* Messages of the stream that do not decode: only `publish` writes to it.
* `domainConfigurationToPb`: `ReadConfiguration` blocks until the client leaves
  and never returns a configuration.
* The monitoring interceptor, which logs and measures.
* Flags and environment variables, which are taken as read; the simulator's
  intervals and time limits, which are taken as they are by default.
* Mocks, helpers, scripts, generated protobuf code and deployment files.

## 8. Plan

1. *Proofs*: that the composition of QuuppaAdapter with Repository, one emit
   goroutine calling Write, implements Pipeline's `Write` and `Persist` and their
   failing variants.
2. *Simulator*: that its generators go round for ever and its validations end,
   under the fairness of its senders. TLC is too slow for this with two
   simulators in a row, so it needs an instance of its own.
3. *Streams*: a Subscribe stream through service and server, with Watch's errors.

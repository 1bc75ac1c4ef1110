----------------------------- MODULE Simulator ------------------------------
(***************************************************************************)
(* cmd/quuppa-simulator, the end-to-end test of the core, against the core *)
(* of Pipeline.tla: its scenarios send datagrams over UDP; with --validate *)
(* it subscribes to every event and waits for the expected ones, in order, *)
(* within a time limit.                                                    *)
(*                                                                         *)
(* Datagrams may be lost but, on one host, not overtake each other. The    *)
(* core serves zone and presence events from two consumers, in no order    *)
(* between them (Watch.tla). Intervals and time limits are taken as they   *)
(* are set by default: a silence of 15 s is longer than OfflineThreshold   *)
(* and a tick of the watchdog, no pause between datagrams is as long as    *)
(* OfflineThreshold, and all that is under way arrives before a check      *)
(* times out. One simulator after the other runs against the same core,    *)
(* which is not restarted and whose calls to NATS do not fail.             *)
(***************************************************************************)
EXTENDS Pipeline, SequencesExt

CONSTANTS
    TagOrder,   \* tagID(0), tagID(1), ...
    ZoneOrder,  \* --zones
    Scenarios,  \* --scenario: walk, offline, lost, stress
    MaxStarts,  \* bound: simulators started one after the other
    Buffer      \* capacity of the channel the events are received into (512)

\* The ids that tagID makes differ, and QPE sends what the simulator sends.
ASSUME SimulatorAssumption ==
    /\ TagOrder \in Seq(Tags) /\ ToSet(TagOrder) = Tags /\ TagOrder # <<>>
    /\ IsInjective(TagOrder)
    /\ ZoneOrder \in Seq(Zones) /\ ZoneOrder # <<>>
    /\ Scenarios \subseteq {"walk", "offline", "lost", "stress"}
    /\ MaxStarts \in Nat \ {0} /\ Buffer \in Nat \ {0}
    /\ {"position", "noLocation"} \subseteq LocationTypes /\ NullZones \notin SUBSET Zones
    /\ {"moving", ""} \subseteq Movements /\ 0 \in PacketAges

VARIABLES
    scenario,  \* what the simulator was started with
    validate,
    sim,       \* "idle", "running", or how it ended: "passed", "failed",
               \* "stopped" (a generator), "error" (exit code 2)
    pos,       \* pos[t]: the next step of the sender of t
    phase,     \* validateWalk: the tag being validated
    step,      \* the check waited for
    joined,    \* Subscribe has reached the core
    feed,      \* what the core has published and the simulator not received
    ch,        \* the channel of received events
    excused,   \* something outside of the core has gone wrong (history)
    starts,
    fresh,     \* the core had never heard of a tag when this simulator started (history)
    heard      \* heard[t]: the steps of a validation on such a core whose datagram
               \* arrived, or whose silence the watchdog reported (history)

netVars == <<scenario, validate, starts, fresh>>
simVars == <<sim, pos, phase, step, joined, feed, ch, excused, heard>>
allVars == <<pipeVars, netVars, simVars>>

Validating == validate /\ scenario # "stress"

-----------------------------------------------------------------------------
\* What is sent.

positionPkt(zones) == [type |-> "position", zones |-> zones, movement |-> "moving", age |-> 0]
noLocationPkt == [type |-> "noLocation", zones |-> NullZones, movement |-> "", age |-> 0]
Silence == [type |-> "silence"]

ZoneA == positionPkt({ZoneOrder[1]})

\* The steps of one round of a generator, or of a validated scenario.
Walk == [i \in DOMAIN ZoneOrder |-> positionPkt({ZoneOrder[i]})]
Offline == <<ZoneA, ZoneA, ZoneA, Silence>> \o (IF validate THEN <<ZoneA>> ELSE <<>>)
Lost == <<ZoneA, noLocationPkt>> \o (IF validate THEN <<ZoneA>> ELSE <<>>)
Stress == <<ZoneA>>

Program ==
    CASE scenario = "walk" -> Walk
      [] scenario = "offline" -> Offline
      [] scenario = "lost" -> Lost
      [] scenario = "stress" -> Stress

\* What is expected.

zoneCheck(t, zones) ==
    [type |-> "EVENT_TYPE_ZONE", tag |-> t, zones |-> zones, presence |-> Nil]
presenceCheck(t, pt) ==
    [type |-> "EVENT_TYPE_PRESENCE", tag |-> t, zones |-> Nil, presence |-> Some(PbPresence[pt])]

WalkChecks(t) == [i \in DOMAIN ZoneOrder |-> zoneCheck(t, Some({ZoneOrder[i]}))]
OfflineChecks(t) ==
    <<zoneCheck(t, Nil), presenceCheck(t, "INACTIVE"), presenceCheck(t, "ACTIVE")>>
LostChecks(t) ==
    <<zoneCheck(t, Some({ZoneOrder[1]})), presenceCheck(t, "INACTIVE"),
      presenceCheck(t, "ACTIVE"), zoneCheck(t, Nil)>>

Checks(t) ==
    CASE scenario = "walk" -> WalkChecks(t)
      [] scenario = "offline" -> OfflineChecks(t)
      [] scenario = "lost" -> LostChecks(t)

Matches(c, e) ==
    /\ e.type = c.type /\ e.actor.id = c.tag
    /\ \A zones \in c.zones : ZonesOf(e) = zones
    /\ \A pt \in c.presence : e.state.presence = pt

\* The tags whose sender runs: one at a time, or only the first, when
\* validating; all of them otherwise.
Senders == IF Validating THEN {TagOrder[phase]} ELSE Tags
Phases == IF scenario = "walk" THEN Len(TagOrder) ELSE 1

\* t has a step to take, and no reason to wait.
Sending(t) ==
    sim = "running" /\ t \in Senders /\ pos[t] <= Len(Program) /\ Program[pos[t]] # Silence

\* The sender of t goes on; that of a generator begins again.
Advance(t) ==
    pos' = [pos EXCEPT ![t] =
              IF ~Validating /\ @ = Len(Program) THEN 1 ELSE @ + 1]

-----------------------------------------------------------------------------
runVars == <<pos, phase, step, joined, feed, ch>>

SimInit ==
    /\ PipeInit
    /\ scenario \in Scenarios /\ validate \in BOOLEAN
    /\ sim = "idle" /\ pos = [t \in Tags |-> 1] /\ phase = 1 /\ step = 1
    /\ joined = FALSE /\ feed = <<>> /\ ch = <<>>
    /\ excused = FALSE /\ starts = 0 /\ fresh = TRUE /\ heard = [t \in Tags |-> {}]

\* The simulator ends, and with it all it holds.
End(how) ==
    /\ sim' = how /\ pos' = [t \in Tags |-> 1] /\ phase' = 1 /\ step' = 1
    /\ joined' = FALSE /\ feed' = <<>> /\ ch' = <<>>

\* A simulator is started, the first one or after another has ended.
Start(sc, v) ==
    /\ sim # "running" /\ sim' = "running"
    /\ starts < MaxStarts /\ starts' = starts + 1
    /\ scenario' = sc /\ validate' = v
    /\ excused' = FALSE
    /\ fresh' = (states = Fresh.state /\ last = [t \in Tags |-> [k \in ChangeTypes |-> Nil]])
    /\ heard' = [t \in Tags |-> {}]
    /\ UNCHANGED <<pipeVars, runVars>>

\* grpc.NewClient or Subscribe fails.
SubscribeFails ==
    /\ sim = "running" /\ Validating /\ ~joined /\ \A t \in Tags : pos[t] = 1
    /\ End("error") /\ UNCHANGED <<pipeVars, netVars, excused, heard>>

SnapshotSeq(k) == SetToSeq(UNION {SnapshotOf(t, k) : t \in Tags})

\* The core takes up the subscription: the snapshots come first.
Join ==
    /\ sim = "running" /\ Validating /\ ~joined
    /\ joined' = TRUE
    /\ feed' \in {SnapshotSeq("ZONE") \o SnapshotSeq("PRESENCE"),
                  SnapshotSeq("PRESENCE") \o SnapshotSeq("ZONE")}
    /\ UNCHANGED <<pipeVars, netVars, sim, pos, phase, step, ch, excused, heard>>

\* t's datagram, or the end of its silence, has reached the adapter.
Hear(tags) ==
    heard' = [t \in Tags |-> IF t \in tags /\ Validating /\ fresh
                              THEN heard[t] \cup {pos[t]} ELSE heard[t]]

\* emit, and the adapter reads the datagram. It may be too early, when the
\* grace period of 200 ms was too short for the subscription.
Emit(t) ==
    /\ Sending(t)
    /\ ReadDatagram(t, Program[pos[t]]) /\ Advance(t)
    /\ excused' = (excused \/ (Validating /\ ~joined))
    /\ Hear({t})
    /\ UNCHANGED <<netVars, sim, phase, step, joined, feed, ch>>

\* emit, and the datagram is lost, or the write fails. A generator, which sends
\* the same again and again, is not held up by that.
EmitLost(t) ==
    /\ Validating /\ Sending(t) /\ Advance(t)
    /\ excused' = TRUE
    /\ UNCHANGED <<pipeVars, netVars, sim, phase, step, joined, feed, ch, heard>>

\* Mutant: the tag is not silent for long enough.
MutResume(t) ==
    /\ sim = "running" /\ t \in Senders /\ pos[t] <= Len(Program) /\ Program[pos[t]] = Silence
    /\ Advance(t)
    /\ UNCHANGED <<pipeVars, netVars, sim, phase, step, joined, feed, ch, excused, heard>>

\* 15 s of silence are over: the watchdog has seen a tag the adapter knows.
Resume(t) ==
    /\ sim = "running" /\ t \in Senders /\ pos[t] <= Len(Program) /\ Program[pos[t]] = Silence
    /\ hadHistory(states[t]) => states[t].silence >= OfflineThreshold /\ ~Overdue(states[t])
    /\ Advance(t)
    /\ UNCHANGED <<pipeVars, netVars, sim, phase, step, joined, feed, ch, excused, heard>>

-----------------------------------------------------------------------------
\* The core, while the simulator is silent or waits.

TimePasses ==
    /\ \A t \in Tags : ~Sending(t)
    /\ Tick /\ UNCHANGED <<netVars, simVars>>

WatchdogSweep ==
    /\ Sweep
    /\ Hear({t \in Tags : Overdue(states[t]) /\ pos[t] <= Len(Program) /\ Program[pos[t]] = Silence})
    /\ UNCHANGED <<netVars, sim, pos, phase, step, joined, feed, ch, excused>>

\* Write publishes the head of the channel, and the consumer pushes it.
Published(t) == ~Unchanged(OrZero(getActorState(t), ZeroActorState), Head(queue[t]))

CoreWrites(t) ==
    /\ Write(t)
    /\ feed' = IF joined /\ Published(t)
                 THEN Append(feed, domainEventToPb(unmarshal(marshal(Head(queue[t])))))
                 ELSE feed
    /\ UNCHANGED <<netVars, sim, pos, phase, step, joined, ch, excused, heard>>

CorePersists(t) == Persist(t) /\ UNCHANGED <<netVars, simVars>>

-----------------------------------------------------------------------------
\* The validation.

\* Mutant: the channel has no limit.
MutReceive(i) ==
    /\ sim = "running" /\ i \in DOMAIN feed
    /\ \A j \in 1 .. i - 1 : feed[j].type # feed[i].type
    /\ feed' = RemoveAt(feed, i) /\ ch' = Append(ch, feed[i])
    /\ excused' = (excused \/ i > 1)
    /\ UNCHANGED <<pipeVars, netVars, sim, pos, phase, step, joined, heard>>

\* subscribe's goroutine receives the i-th event under way, the first of its
\* subject; one that finds the channel full is dropped.
Receive(i) ==
    /\ sim = "running" /\ i \in DOMAIN feed
    /\ \A j \in 1 .. i - 1 : feed[j].type # feed[i].type
    /\ feed' = RemoveAt(feed, i)
    /\ ch' = IF Len(ch) < Buffer THEN Append(ch, feed[i]) ELSE ch
    /\ excused' = (excused \/ i > 1 \/ Len(ch) = Buffer)
    /\ UNCHANGED <<pipeVars, netVars, sim, pos, phase, step, joined, heard>>

\* validateWalk checks once it has sent all, the others while they send.
Checking ==
    /\ sim = "running" /\ Validating
    /\ scenario = "walk" => pos[TagOrder[phase]] > Len(Program)

\* The check at hand is satisfied: the next one, of this tag or of the next.
NextCheck ==
    IF step < Len(Checks(TagOrder[phase]))
      THEN step' = step + 1 /\ UNCHANGED phase
      ELSE step' = 1 /\ phase' = phase + 1

LastCheck == phase = Phases /\ step = Len(Checks(TagOrder[phase]))

\* validateWalk will want to see the event, but not yet.
ForLater(e) == scenario = "walk" /\ \E i \in phase + 1 .. Phases : e.actor.id = TagOrder[i]

\* waitForCheck takes an event. One that does not match is passed over.
waitForCheck ==
    /\ Checking /\ ch # <<>>
    /\ LET matched == Matches(Checks(TagOrder[phase])[step], Head(ch))
       IN /\ IF matched /\ LastCheck
               THEN End("passed")
               ELSE /\ ch' = Tail(ch) /\ UNCHANGED <<sim, pos, joined, feed>>
                    /\ IF matched THEN NextCheck ELSE UNCHANGED <<phase, step>>
          /\ excused' = (excused \/ (~matched /\ ForLater(Head(ch))))
    /\ UNCHANGED <<pipeVars, netVars, heard>>

\* Nothing is under way any more.
Still ==
    /\ pos[TagOrder[phase]] > Len(Program) /\ feed = <<>> /\ ch = <<>>
    /\ \A t \in Tags : queue[t] = <<>>

\* Mutant: a check that times out is skipped.
MutTimeout ==
    /\ Checking /\ joined /\ Still /\ End("passed")
    /\ UNCHANGED <<pipeVars, netVars, excused, heard>>

\* The timer fires.
Timeout ==
    /\ Checking /\ joined /\ Still /\ End("failed")
    /\ UNCHANGED <<pipeVars, netVars, excused, heard>>

\* The stream ends, and the channel is closed and empty.
StreamCloses ==
    /\ Checking /\ ch = <<>>
    /\ End("failed") /\ excused' = TRUE
    /\ UNCHANGED <<pipeVars, netVars, heard>>

\* os.Interrupt.
Interrupt ==
    /\ sim = "running"
    /\ End(IF Validating THEN "failed" ELSE "stopped") /\ excused' = TRUE
    /\ UNCHANGED <<pipeVars, netVars, heard>>

SimNext ==
    \/ \E sc \in Scenarios, v \in BOOLEAN : Start(sc, v)
    \/ SubscribeFails \/ Join \/ waitForCheck \/ Timeout \/ StreamCloses \/ Interrupt
    \/ \E i \in DOMAIN feed : Receive(i)
    \/ \E t \in Tags : Emit(t) \/ EmitLost(t) \/ Resume(t) \/ CoreWrites(t) \/ CorePersists(t)
    \/ TimePasses \/ WatchdogSweep

SimSpec == SimInit /\ [][SimNext]_allVars

-----------------------------------------------------------------------------
SimTypeOK ==
    /\ validate \in BOOLEAN /\ scenario \in Scenarios
    /\ sim \in {"idle", "running", "passed", "failed", "stopped", "error"}
    /\ phase \in 1 .. Len(TagOrder) /\ pos \in [Tags -> 1 .. Len(Program) + 1]
    /\ IF Validating THEN phase <= Phases /\ step \in 1 .. Len(Checks(TagOrder[phase]))
                     ELSE phase = 1 /\ step = 1
    /\ joined \in BOOLEAN /\ Len(ch) <= Buffer
    /\ excused \in BOOLEAN

\* A validation that fails has a reason outside of the core: on the same core,
\* whatever simulators ran before and wherever they stopped, a run fails only
\* when a datagram was lost or sent too early, an event overtook an earlier one
\* or met a full channel, the run was cut short, or the snapshot of a tag that
\* is to be validated later was passed over by the checks of an earlier one
\* (quuppa-simulator/main.go:121-155, 217-236, 272-302, 335-363).
FailureHasReason == sim = "failed" => excused

\* The steps a scenario cannot do without: any one of the datagrams before the
\* silence is enough.
Essential(t) ==
    IF scenario = "offline" THEN {4, 5} \subseteq heard[t] /\ heard[t] \cap {1, 2, 3} # {}
                            ELSE DOMAIN Program \subseteq heard[t]

\* A validation that passes on a core that had never heard of the tags has
\* tested what it says: the core has received each datagram it could not do
\* without, and the watchdog has reported the silence
\* (quuppa-simulator/main.go:217-219, 272, 335-336).
PassMeansTested ==
    sim = "passed" /\ fresh =>
        \A t \in IF scenario = "walk" THEN Tags ELSE {TagOrder[1]} : Essential(t)
=============================================================================

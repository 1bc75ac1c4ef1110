------------------------------- MODULE Derive -------------------------------
(***************************************************************************)
(* The pure half of the QUUPPA adapter (internal/adapters/quuppa):         *)
(* deriveEvents turns the remembered state of a tag and one datagram into  *)
(* the ordered list of domain events to emit and the state to remember,    *)
(* and runWatchdog decides which silent tags are reported inactive.        *)
(*                                                                         *)
(* Data is kept as far as the rules compare it.  A zone list is the set of *)
(* its members (ZoneLists.tla says when that is what the code compares);   *)
(* a name, a point or a timestamp that no rule reads is left out.  The     *)
(* timestamps lastPacketTS and "now" are only ever subtracted, so a state  *)
(* keeps their difference, `silence', which time increases and which       *)
(* saturates at MaxSilence, a value no rule tells from a larger one.       *)
(***************************************************************************)
EXTENDS Integers, Sequences

CONSTANTS
    Zones,             \* zone identifiers
    NullZones,         \* the JSON null of locationZoneIds
    LocationTypes,     \* the non-empty locationType values QPE sends
    Movements,         \* locationMovementStatus values, "" when absent
    OfflineThreshold,  \* silence after which a tag counts as offline
    MaxSilence,        \* where silence saturates
    PacketAges         \* how old lastPacketTS can be when a datagram arrives

ASSUME DeriveAssumption ==
    /\ OfflineThreshold \in Nat \ {0}
    /\ MaxSilence \in Nat /\ MaxSilence >= OfflineThreshold
    /\ PacketAges \subseteq 0 .. MaxSilence
    /\ LocationTypes \subseteq STRING \ {""}
    /\ Movements \subseteq STRING

Presences == {"ACTIVE", "INACTIVE"}

Datagram ==
    [type : LocationTypes, zones : {NullZones} \cup (SUBSET Zones),
     movement : Movements, age : PacketAges]

Event ==
    [type : {"ZONE", "PRESENCE"}, zones : SUBSET Zones, presence : Presences,
     locationType : LocationTypes \cup {""}, movement : Movements \cup {""}]

tagState ==
    [online : BOOLEAN, silence : 0 .. MaxSilence,
     lastLocationType : LocationTypes \cup {""}, lastZoneIds : SUBSET Zones,
     locationLost : BOOLEAN, lastMovementStatus : Movements \cup {""}]

\* &tagState{}: the state of a tag that was never heard of.
ZeroTagState ==
    [online |-> FALSE, silence |-> 0, lastLocationType |-> "",
     lastZoneIds |-> {}, locationLost |-> FALSE, lastMovementStatus |-> ""]

-----------------------------------------------------------------------------
\* Only a full angle-of-arrival fix counts as a location.
isLocationType(t) == t = "position"

\* Mutant: null is not collapsed into the empty list.
MutNormaliseZones(z) == z

\* null and [] are the same list to the diff.
normaliseZones(z) == IF z = NullZones THEN {} ELSE z

\* lastPacketTS and lastLocationType are set together, by the first datagram.
hadHistory(prev) == prev.lastLocationType # ""

WasOffline(prev) == hadHistory(prev) /\ ~prev.online

\* Mutant: a tag that was offline is not checked for a lost location.
MutLocationLost(prev, msg) ==
    /\ prev.online
    /\ isLocationType(prev.lastLocationType)
    /\ ~isLocationType(msg.type)

LocationLost(prev, msg) ==
    /\ hadHistory(prev)
    /\ isLocationType(prev.lastLocationType)
    /\ ~isLocationType(msg.type)

LocationRestored(prev, msg) ==
    /\ hadHistory(prev)
    /\ ~isLocationType(prev.lastLocationType)
    /\ isLocationType(msg.type)

ZoneChanged(prev, msg) == normaliseZones(msg.zones) # prev.lastZoneIds

\* Mutant: the snapshot gate looks at the movement status only.
MutStateChanged(prev, msg) == msg.movement # prev.lastMovementStatus

StateChanged(prev, msg) ==
    \/ msg.type # prev.lastLocationType
    \/ msg.movement # prev.lastMovementStatus

HasZoneContext(prev, msg) ==
    normaliseZones(msg.zones) # {} \/ prev.lastZoneIds # {}

SnapshotDue(prev, msg) ==
    /\ isLocationType(msg.type)
    /\ IF hadHistory(prev)
         THEN /\ HasZoneContext(prev, msg)
              /\ ZoneChanged(prev, msg) \/ StateChanged(prev, msg)
         ELSE normaliseZones(msg.zones) # {}

zoneEvent(msg, zones) ==
    [type |-> "ZONE", zones |-> zones, presence |-> "ACTIVE",
     locationType |-> msg.type, movement |-> msg.movement]

presenceEvent(msg, zones, pt) ==
    [type |-> "PRESENCE", zones |-> zones, presence |-> pt,
     locationType |-> msg.type, movement |-> msg.movement]

AppendIf(out, due, ev) == IF due THEN Append(out, ev) ELSE out

\* The events of one datagram, in the order in which they are emitted:
\* TAG_ONLINE, the emptied snapshot and INACTIVE of LOCATION_LOST, the ACTIVE
\* of LOCATION_RESTORED, the zone snapshot.
onlineEvents(prev, msg) ==
    AppendIf(<<>>, WasOffline(prev), presenceEvent(msg, prev.lastZoneIds, "ACTIVE"))

lostEvents(out, prev, msg) ==
    AppendIf(
      AppendIf(out, LocationLost(prev, msg) /\ prev.lastZoneIds # {},
               zoneEvent(msg, {})),
      LocationLost(prev, msg), presenceEvent(msg, prev.lastZoneIds, "INACTIVE"))

restoredEvents(out, prev, msg) ==
    AppendIf(out, LocationRestored(prev, msg),
             presenceEvent(msg, normaliseZones(msg.zones), "ACTIVE"))

snapshotEvents(out, prev, msg) ==
    AppendIf(out, SnapshotDue(prev, msg), zoneEvent(msg, normaliseZones(msg.zones)))

deriveEvents(prev, msg) ==
    snapshotEvents(
      restoredEvents(lostEvents(onlineEvents(prev, msg), prev, msg), prev, msg),
      prev, msg)

\* Mutant: LOCATION_RESTORED forgets to reset locationLostAt.
MutLostAfter(prev, msg) == LocationLost(prev, msg) \/ prev.locationLost

\* locationLostAt is only ever tested for being zero.
lostAfter(prev, msg) ==
    \/ LocationLost(prev, msg)
    \/ prev.locationLost /\ ~LocationRestored(prev, msg)

nextTagState(prev, msg) ==
    [online |-> TRUE, silence |-> msg.age, lastLocationType |-> msg.type,
     lastZoneIds |-> normaliseZones(msg.zones),
     locationLost |-> lostAfter(prev, msg), lastMovementStatus |-> msg.movement]

-----------------------------------------------------------------------------
\* Mutant: the watchdog does not skip tags without a location.
MutOverdueLost(st) == st.online /\ st.silence >= OfflineThreshold

\* runWatchdog, for one tag of the map.
Overdue(st) == st.online /\ ~st.locationLost /\ st.silence >= OfflineThreshold

offlineEvent(st) ==
    [type |-> "PRESENCE", zones |-> st.lastZoneIds, presence |-> "INACTIVE",
     locationType |-> st.lastLocationType, movement |-> ""]

watchdogEvents(st) == AppendIf(<<>>, Overdue(st), offlineEvent(st))

watchdogState(st) == [st EXCEPT !.online = @ /\ ~Overdue(st)]

\* One unit of time passes for a tag of the map.
Elapse(st) ==
    IF hadHistory(st) /\ st.silence < MaxSilence
      THEN [st EXCEPT !.silence = @ + 1] ELSE st

-----------------------------------------------------------------------------
(***************************************************************************)
(* What a consumer that applies a tag's events in order believes of it:    *)
(* the presence of the last presence event and the zones and movement of   *)
(* the last zone event.                                                    *)
(***************************************************************************)
View ==
    [presence : Presences \cup {"NONE"}, zones : SUBSET Zones,
     movement : Movements \cup {""}]

NoView == [presence |-> "NONE", zones |-> {}, movement |-> ""]

\* The position of the last event of type ty in evs, 0 when there is none.
IsLast(evs, ty, i) ==
    /\ i > 0 => evs[i].type = ty
    /\ \A j \in 1 .. Len(evs) : j > i => evs[j].type # ty

LastIndex(evs, ty) == CHOOSE i \in 0 .. Len(evs) : IsLast(evs, ty, i)

Observe(view, evs) ==
    LET p == LastIndex(evs, "PRESENCE")
        z == LastIndex(evs, "ZONE")
    IN [presence |-> IF p = 0 THEN view.presence ELSE evs[p].presence,
        zones    |-> IF z = 0 THEN view.zones ELSE evs[z].zones,
        movement |-> IF z = 0 THEN view.movement ELSE evs[z].movement]
=============================================================================

--------------------------- MODULE Derive_proofs ----------------------------
(***************************************************************************)
(* What the rules of Derive do to one tag, for every zone, location type,  *)
(* movement and threshold: the view a consumer is left with by the events  *)
(* of a datagram and of the watchdog, and the invariant TagInv that both   *)
(* keep.  QuuppaAdapter_proofs lifts this to all tags and to the loop, and *)
(* Pipeline_proofs to the way into the repository.  At the end,            *)
(* when zone lists may be taken for sets, as Derive does.                  *)
(***************************************************************************)
EXTENDS Derive, ZoneLists, FiniteSets, FiniteSetTheorems, TLAPS

\* The effect of one event on a consumer's view.
Apply(v, ev) ==
    IF ev.type = "PRESENCE"
      THEN [presence |-> ev.presence, zones |-> v.zones, movement |-> v.movement]
      ELSE [presence |-> v.presence, zones |-> ev.zones, movement |-> ev.movement]

\* A sequence of events in which the last event of each type can be named.
Readable(evs) ==
    /\ evs \in Seq(Event)
    /\ \E i \in 0 .. Len(evs) : IsLast(evs, "PRESENCE", i)
    /\ \E i \in 0 .. Len(evs) : IsLast(evs, "ZONE", i)

\* The last event of a type has one position only, so LastIndex is it.
LEMMA LastIndexIs ==
    ASSUME NEW evs \in Seq(Event), NEW ty, NEW i \in 0 .. Len(evs), IsLast(evs, ty, i)
    PROVE  LastIndex(evs, ty) = i
  <1>1. ASSUME NEW k \in 0 .. Len(evs), IsLast(evs, ty, k)
        PROVE  k = i
    <2>1. CASE k < i
      BY <2>1, <1>1 DEF IsLast
    <2>2. CASE i < k
      BY <2>2, <1>1 DEF IsLast
    <2> QED
      BY <2>1, <2>2
  <1> QED
    BY <1>1 DEF LastIndex

\* Nothing is the last event of an empty sequence, and observing it changes
\* nothing.
LEMMA ObserveEmpty ==
    ASSUME NEW v \in View
    PROVE  Readable(<<>>) /\ Observe(v, <<>>) = v
  <1> DEFINE none == <<>>
  <1>1. none \in Seq(Event) /\ Len(none) = 0 /\ 0 \in 0 .. Len(none)
    OBVIOUS
  <1> HIDE DEF none
  <1>2. IsLast(none, "PRESENCE", 0) /\ IsLast(none, "ZONE", 0)
    BY <1>1 DEF IsLast
  <1>3. LastIndex(none, "PRESENCE") = 0
    BY <1>1, <1>2, LastIndexIs
  <1>4. LastIndex(none, "ZONE") = 0
    BY <1>1, <1>2, LastIndexIs
  <1>5. Readable(none)
    BY <1>1, <1>2 DEF Readable
  <1>6. Observe(v, none) =
          [presence |-> v.presence, zones |-> v.zones, movement |-> v.movement]
    BY <1>3, <1>4 DEF Observe
  <1>7. v = [presence |-> v.presence, zones |-> v.zones, movement |-> v.movement]
    BY DEF View
  <1> QED
    BY <1>5, <1>6, <1>7 DEF none

\* A record of a presence, zones and a movement is a view.
LEMMA ViewRecord ==
    ASSUME NEW pr \in Presences \cup {"NONE"}, NEW zs \in SUBSET Zones,
           NEW mv \in Movements \cup {""}
    PROVE  [presence |-> pr, zones |-> zs, movement |-> mv] \in View
  BY DEF View

\* Appending an event applies it to the view.
LEMMA ObserveAppend ==
    ASSUME NEW v \in View, NEW evs, Readable(evs), NEW ev \in Event
    PROVE  /\ Readable(Append(evs, ev))
           /\ Observe(v, evs) \in View
           /\ Observe(v, Append(evs, ev)) = Apply(Observe(v, evs), ev)
  <1>1. PICK p \in 0 .. Len(evs) : IsLast(evs, "PRESENCE", p)
    BY DEF Readable
  <1>2. PICK z \in 0 .. Len(evs) : IsLast(evs, "ZONE", z)
    BY DEF Readable
  <1>3. /\ evs \in Seq(Event) /\ Len(evs) \in Nat
        /\ \A j \in 1 .. Len(evs) : evs[j] \in Event
    BY DEF Readable
  <1>4. LastIndex(evs, "PRESENCE") = p /\ LastIndex(evs, "ZONE") = z
    BY <1>1, <1>2, <1>3, LastIndexIs
  <1>5. Observe(v, evs) =
          [presence |-> IF p = 0 THEN v.presence ELSE evs[p].presence,
           zones    |-> IF z = 0 THEN v.zones ELSE evs[z].zones,
           movement |-> IF z = 0 THEN v.movement ELSE evs[z].movement]
    BY <1>4 DEF Observe
  <1>6. Observe(v, evs) \in View
    <2>1. p = 0 \/ evs[p] \in Event
      BY <1>3
    <2>2. z = 0 \/ evs[z] \in Event
      BY <1>3
    <2> DEFINE pr == IF p = 0 THEN v.presence ELSE evs[p].presence
               zs == IF z = 0 THEN v.zones ELSE evs[z].zones
               mv == IF z = 0 THEN v.movement ELSE evs[z].movement
    <2>3. pr \in Presences \cup {"NONE"}
      BY <2>1 DEF View, Event
    <2>4. zs \in SUBSET Zones
      BY <2>2 DEF View, Event
    <2>5. mv \in Movements \cup {""}
      BY <2>2 DEF View, Event
    <2>6. Observe(v, evs) = [presence |-> pr, zones |-> zs, movement |-> mv]
      BY <1>5
    <2>7. [presence |-> pr, zones |-> zs, movement |-> mv] \in View
      BY <2>3, <2>4, <2>5, ViewRecord
    <2> QED
      BY <2>6, <2>7
  <1> QED
    <2> DEFINE new == Append(evs, ev)
    <2>1. /\ new \in Seq(Event) /\ Len(new) = Len(evs) + 1
          /\ new[Len(evs) + 1] = ev
          /\ \A j \in 1 .. Len(evs) : new[j] = evs[j]
      BY <1>3
    <2> HIDE DEF new
    <2>3. CASE ev.type = "PRESENCE"
      <3>1. IsLast(new, "PRESENCE", Len(evs) + 1) /\ IsLast(new, "ZONE", z)
        BY <1>2, <1>3, <2>1, <2>3 DEF IsLast
      <3>2. Readable(new)
        BY <1>3, <2>1, <3>1 DEF Readable
      <3>3. LastIndex(new, "PRESENCE") = Len(evs) + 1
        BY <1>3, <2>1, <3>1, LastIndexIs
      <3>4. LastIndex(new, "ZONE") = z
        BY <1>3, <2>1, <3>1, LastIndexIs
      <3>5. Observe(v, new) =
              [presence |-> ev.presence,
               zones    |-> IF z = 0 THEN v.zones ELSE evs[z].zones,
               movement |-> IF z = 0 THEN v.movement ELSE evs[z].movement]
        BY <1>3, <2>1, <3>3, <3>4 DEF Observe
      <3>6. Observe(v, new) = Apply(Observe(v, evs), ev)
        BY <1>5, <2>3, <3>5 DEF Apply
      <3> QED
        BY <1>6, <3>2, <3>6 DEF new
    <2>4. CASE ev.type = "ZONE"
      <3>1. IsLast(new, "PRESENCE", p) /\ IsLast(new, "ZONE", Len(evs) + 1)
        BY <1>1, <1>3, <2>1, <2>4 DEF IsLast
      <3>2. Readable(new)
        BY <1>3, <2>1, <3>1 DEF Readable
      <3>3. LastIndex(new, "PRESENCE") = p
        BY <1>3, <2>1, <3>1, LastIndexIs
      <3>4. LastIndex(new, "ZONE") = Len(evs) + 1
        BY <1>3, <2>1, <3>1, LastIndexIs
      <3>5. Observe(v, new) =
              [presence |-> IF p = 0 THEN v.presence ELSE evs[p].presence,
               zones    |-> ev.zones,
               movement |-> ev.movement]
        BY <1>3, <2>1, <3>3, <3>4 DEF Observe
      <3>6. Observe(v, new) = Apply(Observe(v, evs), ev)
        BY <1>5, <2>4, <3>5 DEF Apply
      <3> QED
        BY <1>6, <3>2, <3>6 DEF new
    <2> QED
      BY <2>3, <2>4 DEF Event

-----------------------------------------------------------------------------
\* The events built from a datagram, and by the watchdog, are events.
LEMMA DerivedEvents ==
    /\ \A msg \in Datagram : \A zs \in SUBSET Zones :
         /\ zoneEvent(msg, zs) \in Event
         /\ \A pt \in Presences : presenceEvent(msg, zs, pt) \in Event
    /\ \A st \in tagState : offlineEvent(st) \in Event
  <1>1. ASSUME NEW msg \in Datagram, NEW zs \in SUBSET Zones
        PROVE  zoneEvent(msg, zs) \in Event
    BY <1>1 DEF Datagram, Event, zoneEvent, Presences
  <1>2. ASSUME NEW msg \in Datagram, NEW zs \in SUBSET Zones, NEW pt \in Presences
        PROVE  presenceEvent(msg, zs, pt) \in Event
    BY <1>2 DEF Datagram, Event, presenceEvent
  <1>3. ASSUME NEW st \in tagState
        PROVE  offlineEvent(st) \in Event
    BY <1>3 DEF tagState, Event, offlineEvent, Presences
  <1> QED
    BY <1>1, <1>2, <1>3

\* The snapshot is emptied before LOCATION_LOST.
Emptied(prev, msg) == LocationLost(prev, msg) /\ prev.lastZoneIds # {}

\* What the events of a datagram leave of a consumer's view.
LEMMA DeriveView ==
    ASSUME NEW prev \in tagState, NEW msg \in Datagram, NEW v \in View
    PROVE  /\ deriveEvents(prev, msg) \in Seq(Event) /\ Readable(deriveEvents(prev, msg))
           /\ Observe(v, deriveEvents(prev, msg)) \in View
           /\ Observe(v, deriveEvents(prev, msg)) =
                [presence |-> IF LocationRestored(prev, msg) THEN "ACTIVE"
                              ELSE IF LocationLost(prev, msg) THEN "INACTIVE"
                              ELSE IF WasOffline(prev) THEN "ACTIVE"
                              ELSE v.presence,
                 zones    |-> IF SnapshotDue(prev, msg) THEN normaliseZones(msg.zones)
                              ELSE IF Emptied(prev, msg) THEN {} ELSE v.zones,
                 movement |-> IF SnapshotDue(prev, msg) \/ Emptied(prev, msg)
                              THEN msg.movement ELSE v.movement]
  <1> DEFINE curr == normaliseZones(msg.zones)
             off == WasOffline(prev)
             lost == LocationLost(prev, msg)
             back == LocationRestored(prev, msg)
             due == SnapshotDue(prev, msg)
             emptied == Emptied(prev, msg)
             onl == presenceEvent(msg, prev.lastZoneIds, "ACTIVE")
             emp == zoneEvent(msg, {})
             los == presenceEvent(msg, prev.lastZoneIds, "INACTIVE")
             res == presenceEvent(msg, curr, "ACTIVE")
             snp == zoneEvent(msg, curr)
             none == <<>>
             s1 == AppendIf(none, off, onl)
             s2 == AppendIf(s1, emptied, emp)
             s3 == AppendIf(s2, lost, los)
             s4 == AppendIf(s3, back, res)
             s5 == AppendIf(s4, due, snp)
  <1>1. /\ curr \in SUBSET Zones /\ prev.lastZoneIds \in SUBSET Zones
        /\ {} \in SUBSET Zones
        /\ "ACTIVE" \in Presences /\ "INACTIVE" \in Presences
    BY DEF normaliseZones, Datagram, tagState, Presences
  <1>2. onl \in Event /\ emp \in Event /\ los \in Event /\ res \in Event /\ snp \in Event
    BY <1>1, DerivedEvents
  <1>3. deriveEvents(prev, msg) = s5
    BY DEF deriveEvents, onlineEvents, lostEvents, restoredEvents, snapshotEvents, Emptied
  <1>4. /\ s1 = IF off THEN Append(none, onl) ELSE none
        /\ s2 = IF emptied THEN Append(s1, emp) ELSE s1
        /\ s3 = IF lost THEN Append(s2, los) ELSE s2
        /\ s4 = IF back THEN Append(s3, res) ELSE s3
        /\ s5 = IF due THEN Append(s4, snp) ELSE s4
    BY DEF AppendIf
  <1>5. /\ onl.type = "PRESENCE" /\ onl.presence = "ACTIVE"
        /\ los.type = "PRESENCE" /\ los.presence = "INACTIVE"
        /\ res.type = "PRESENCE" /\ res.presence = "ACTIVE"
        /\ emp.type = "ZONE" /\ emp.zones = {} /\ emp.movement = msg.movement
        /\ snp.type = "ZONE" /\ snp.zones = curr /\ snp.movement = msg.movement
    BY DEF presenceEvent, zoneEvent
  <1>6. Readable(none) /\ Observe(v, none) = v
    BY ObserveEmpty
  <1> HIDE DEF onl, emp, los, res, snp, none, s1, s2, s3, s4, s5,
              off, lost, back, due, emptied, curr
  <1>7. /\ Readable(s1)
        /\ Observe(v, s1) = IF off THEN Apply(v, onl) ELSE v
    BY <1>2, <1>4, <1>6, ObserveAppend
  <1>8. /\ Readable(s2)
        /\ Observe(v, s2) = IF emptied THEN Apply(Observe(v, s1), emp) ELSE Observe(v, s1)
    BY <1>2, <1>7, <1>4, ObserveAppend
  <1>9. /\ Readable(s3)
        /\ Observe(v, s3) =
             IF lost THEN Apply(Observe(v, s2), los) ELSE Observe(v, s2)
    BY <1>2, <1>8, <1>4, ObserveAppend
  <1>10. /\ Readable(s4)
        /\ Observe(v, s4) =
             IF back THEN Apply(Observe(v, s3), res) ELSE Observe(v, s3)
    BY <1>2, <1>9, <1>4, ObserveAppend
  <1>11. /\ Readable(s5)
        /\ Observe(v, s5) =
             IF due THEN Apply(Observe(v, s4), snp) ELSE Observe(v, s4)
    BY <1>2, <1>10, <1>4, ObserveAppend, ZenonT(30)
  <1>12. Observe(v, s5) \in View
    BY <1>2, <1>11, ObserveAppend
  <1> QED
    <2>2. v = [presence |-> v.presence, zones |-> v.zones, movement |-> v.movement]
      BY DEF View
    <2>3. Observe(v, s1) =
            [presence |-> IF off THEN "ACTIVE" ELSE v.presence,
             zones |-> v.zones, movement |-> v.movement]
      BY <1>7, <1>5, <2>2 DEF Apply
    <2>4. Observe(v, s2) =
            [presence |-> IF off THEN "ACTIVE" ELSE v.presence,
             zones |-> IF emptied THEN {} ELSE v.zones,
             movement |-> IF emptied THEN msg.movement ELSE v.movement]
      BY <1>8, <1>5, <2>3 DEF Apply
    <2>5. Observe(v, s3) =
            [presence |-> IF lost THEN "INACTIVE"
                          ELSE IF off THEN "ACTIVE" ELSE v.presence,
             zones |-> IF emptied THEN {} ELSE v.zones,
             movement |-> IF emptied THEN msg.movement ELSE v.movement]
      BY <1>9, <1>5, <2>4 DEF Apply
    <2>6. Observe(v, s4) =
            [presence |-> IF back THEN "ACTIVE"
                          ELSE IF lost THEN "INACTIVE"
                          ELSE IF off THEN "ACTIVE" ELSE v.presence,
             zones |-> IF emptied THEN {} ELSE v.zones,
             movement |-> IF emptied THEN msg.movement ELSE v.movement]
      BY <1>10, <1>5, <2>5 DEF Apply
    <2>7. Observe(v, s5) =
            [presence |-> IF back THEN "ACTIVE"
                          ELSE IF lost THEN "INACTIVE"
                          ELSE IF off THEN "ACTIVE" ELSE v.presence,
             zones |-> IF due THEN curr
                       ELSE IF emptied THEN {} ELSE v.zones,
             movement |-> IF due \/ emptied
                          THEN msg.movement ELSE v.movement]
      BY <1>11, <1>5, <2>6 DEF Apply
    <2>8. s5 \in Seq(Event)
      BY <1>11 DEF Readable
    <2> QED
      BY <1>3, <1>11, <1>12, <2>7, <2>8 DEF off, lost, back, due, emptied, curr

-----------------------------------------------------------------------------
(***************************************************************************)
(* The inductive invariant, for one tag.  PresenceMirrorsState alone is    *)
(* not inductive: it needs to know that a tag is lost only while it is     *)
(* online and without a location, or a later TAG_ONLINE would announce     *)
(* ACTIVE of a tag still recorded as lost.                                 *)
(***************************************************************************)
TagInv(st, v, fix) ==
    /\ st.online => hadHistory(st)
    /\ st.locationLost => st.online /\ ~isLocationType(st.lastLocationType)
    /\ fix /\ ~isLocationType(st.lastLocationType) => st.locationLost
    /\ v.presence = "INACTIVE" <=> WasOffline(st) \/ st.locationLost
    /\ IF isLocationType(st.lastLocationType)
         THEN /\ v.zones = st.lastZoneIds
              /\ st.lastZoneIds # {} => v.movement = st.lastMovementStatus
         ELSE v.zones = {}

\* A tag never heard of satisfies the invariant.
LEMMA ZeroTagInv ==
    /\ ZeroTagState \in tagState
    /\ NoView \in View
    /\ TagInv(ZeroTagState, NoView, FALSE)
  <1>1. ZeroTagState \in tagState
    <2>1. MaxSilence \in Nat
      BY DeriveAssumption
    <2>2. 0 \in 0 .. MaxSilence
      BY <2>1
    <2> QED
      BY <2>2 DEF ZeroTagState, tagState
  <1>2. NoView \in View
    BY DEF NoView, View
  <1>3. TagInv(ZeroTagState, NoView, FALSE)
    BY DEF TagInv, ZeroTagState, NoView, hadHistory, WasOffline, isLocationType
  <1> QED
    BY <1>1, <1>2, <1>3

\* deriveEvents keeps the state well typed.
LEMMA NextTagStateType ==
    ASSUME NEW prev \in tagState, NEW msg \in Datagram
    PROVE  nextTagState(prev, msg) \in tagState
  <1>1. msg.age \in 0 .. MaxSilence /\ msg.type \in LocationTypes \cup {""}
    BY DeriveAssumption DEF Datagram
  <1>2. normaliseZones(msg.zones) \in SUBSET Zones
    BY DEF normaliseZones, Datagram
  <1>3. lostAfter(prev, msg) \in BOOLEAN
    BY DEF lostAfter
  <1>4. msg.movement \in Movements \cup {""}
    BY DEF Datagram
  <1> QED
    BY <1>1, <1>2, <1>3, <1>4 DEF nextTagState, tagState

\* A datagram keeps the invariant of its tag.
LEMMA DatagramKeepsTagInv ==
    ASSUME NEW prev \in tagState, NEW msg \in Datagram, NEW v \in View,
           NEW fix \in BOOLEAN, TagInv(prev, v, fix)
    PROVE  TagInv(nextTagState(prev, msg), Observe(v, deriveEvents(prev, msg)),
                  fix \/ isLocationType(msg.type))
  <1> DEFINE st == nextTagState(prev, msg)
             w == Observe(v, deriveEvents(prev, msg))
             curr == normaliseZones(msg.zones)
  <1>1. /\ st.online = TRUE /\ st.lastLocationType = msg.type /\ st.lastZoneIds = curr
        /\ st.locationLost = lostAfter(prev, msg)
        /\ st.lastMovementStatus = msg.movement
    BY DEF nextTagState
  <1>2. /\ w.presence = IF LocationRestored(prev, msg) THEN "ACTIVE"
                        ELSE IF LocationLost(prev, msg) THEN "INACTIVE"
                        ELSE IF WasOffline(prev) THEN "ACTIVE" ELSE v.presence
        /\ w.zones = IF SnapshotDue(prev, msg) THEN curr
                     ELSE IF Emptied(prev, msg) THEN {} ELSE v.zones
        /\ w.movement = IF SnapshotDue(prev, msg) \/ Emptied(prev, msg)
                        THEN msg.movement ELSE v.movement
    <2>1. w = [presence |-> IF LocationRestored(prev, msg) THEN "ACTIVE"
                            ELSE IF LocationLost(prev, msg) THEN "INACTIVE"
                            ELSE IF WasOffline(prev) THEN "ACTIVE" ELSE v.presence,
               zones    |-> IF SnapshotDue(prev, msg) THEN curr
                            ELSE IF Emptied(prev, msg) THEN {} ELSE v.zones,
               movement |-> IF SnapshotDue(prev, msg) \/ Emptied(prev, msg)
                            THEN msg.movement ELSE v.movement]
      BY DeriveView
    <2> HIDE DEF w, curr
    <2> QED
      BY <2>1
  <1>3. msg.type # ""
    BY DeriveAssumption DEF Datagram
  <1> SUFFICES TagInv(st, w, fix \/ isLocationType(msg.type))
    OBVIOUS
  <1> HIDE DEF st, w, curr
  <1>4. hadHistory(st)
    BY <1>1, <1>3 DEF hadHistory
  <1>5. st.locationLost => ~isLocationType(msg.type)
    BY <1>1 DEF TagInv, lostAfter, LocationLost, LocationRestored, hadHistory,
       WasOffline, isLocationType
  <1>6. (fix \/ isLocationType(msg.type)) /\ ~isLocationType(msg.type)
          => st.locationLost
    BY <1>1 DEF TagInv, lostAfter, LocationLost, LocationRestored, hadHistory,
       isLocationType
  <1>7. w.presence = "INACTIVE" <=> st.locationLost
    BY <1>1, <1>2 DEF TagInv, lostAfter, LocationLost, LocationRestored, WasOffline,
       hadHistory, isLocationType
  <1>8. CASE isLocationType(msg.type)
    <2>1. ~Emptied(prev, msg)
      BY <1>8 DEF LocationLost, Emptied
    <2>2. CASE SnapshotDue(prev, msg)
      BY <1>1, <1>2, <1>4, <1>5, <1>6, <1>7, <1>8, <2>2 DEF TagInv, WasOffline
    <2>3. CASE ~SnapshotDue(prev, msg)
      <3>1. w.zones = v.zones /\ w.movement = v.movement
        BY <1>2, <2>1, <2>3
      <3>2. curr # {} => /\ isLocationType(prev.lastLocationType)
                         /\ curr = prev.lastZoneIds
                         /\ msg.movement = prev.lastMovementStatus
        BY <1>8, <2>3 DEF SnapshotDue, HasZoneContext, ZoneChanged, StateChanged, curr
      <3>3. curr = {} => v.zones = {}
        BY <1>8, <2>3 DEF SnapshotDue, HasZoneContext, ZoneChanged, TagInv, curr,
           hadHistory, isLocationType
      <3>4. w.zones = curr /\ (curr # {} => w.movement = msg.movement)
        BY <3>1, <3>2, <3>3 DEF TagInv
      <3> QED
        BY <1>1, <1>4, <1>5, <1>6, <1>7, <1>8, <3>4 DEF TagInv, WasOffline
    <2> QED
      BY <2>2, <2>3
  <1>9. CASE ~isLocationType(msg.type)
    <2>1. ~SnapshotDue(prev, msg)
      BY <1>9 DEF SnapshotDue
    <2>2. w.zones = {}
      BY <1>2, <1>9, <2>1 DEF TagInv, LocationLost, Emptied, hadHistory, isLocationType
    <2> QED
      BY <1>1, <1>4, <1>5, <1>6, <1>7, <1>9, <2>2 DEF TagInv, WasOffline
  <1> QED
    BY <1>8, <1>9

\* The watchdog sweep keeps the invariant of a tag.
LEMMA WatchdogKeepsTagInv ==
    ASSUME NEW st \in tagState, NEW v \in View, NEW fix \in BOOLEAN, TagInv(st, v, fix)
    PROVE  /\ watchdogState(st) \in tagState
           /\ watchdogEvents(st) \in Seq(Event) /\ Readable(watchdogEvents(st))
           /\ Observe(v, watchdogEvents(st)) \in View
           /\ TagInv(watchdogState(st), Observe(v, watchdogEvents(st)), fix)
  <1> DEFINE new == watchdogState(st)
             evs == watchdogEvents(st)
             none == <<>>
             off == offlineEvent(st)
  <1>1. /\ new \in tagState
        /\ new.online = (st.online /\ ~Overdue(st))
        /\ new.locationLost = st.locationLost
        /\ new.lastLocationType = st.lastLocationType
        /\ new.lastZoneIds = st.lastZoneIds
        /\ new.lastMovementStatus = st.lastMovementStatus
    BY DEF watchdogState, tagState
  <1>2. off \in Event /\ off.type = "PRESENCE" /\ off.presence = "INACTIVE"
    BY DerivedEvents DEF offlineEvent
  <1>3. evs = IF Overdue(st) THEN Append(none, off) ELSE none
    BY DEF watchdogEvents, AppendIf
  <1>4. Readable(none) /\ Observe(v, none) = v
    BY ObserveEmpty
  <1> HIDE DEF new, evs, none, off
  <1>5. CASE Overdue(st)
    <2>1. /\ Readable(evs)
          /\ Observe(v, evs) = Apply(v, off)
      BY <1>2, <1>3, <1>4, <1>5, ObserveAppend
    <2>2. Observe(v, evs) \in View /\ evs \in Seq(Event)
      BY <1>2, <2>1, ObserveAppend DEF Readable
    <2>3. /\ Observe(v, evs).presence = "INACTIVE"
          /\ Observe(v, evs).zones = v.zones
          /\ Observe(v, evs).movement = v.movement
      BY <1>2, <2>1 DEF Apply
    <2>4. TagInv(new, Observe(v, evs), fix)
      BY <1>1, <1>5, <2>3 DEF TagInv, Overdue, WasOffline, hadHistory
    <2> QED
      BY <1>1, <2>1, <2>2, <2>4 DEF new, evs
  <1>6. CASE ~Overdue(st)
    <2>1. evs \in Seq(Event) /\ Readable(evs) /\ Observe(v, evs) = v
      BY <1>3, <1>4, <1>6 DEF Readable
    <2>2. TagInv(new, v, fix)
      BY <1>1, <1>6 DEF TagInv, WasOffline, hadHistory, tagState
    <2> QED
      BY <1>1, <2>1, <2>2 DEF new, evs
  <1> QED
    BY <1>5, <1>6

\* The passing of time keeps the invariant of a tag.
LEMMA ElapseKeepsTagInv ==
    ASSUME NEW st \in tagState, NEW v \in View, NEW fix \in BOOLEAN, TagInv(st, v, fix)
    PROVE  Elapse(st) \in tagState /\ TagInv(Elapse(st), v, fix)
  <1> DEFINE new == Elapse(st)
  <1>1. /\ new.online = st.online /\ new.locationLost = st.locationLost
        /\ new.lastLocationType = st.lastLocationType
        /\ new.lastZoneIds = st.lastZoneIds
        /\ new.lastMovementStatus = st.lastMovementStatus
    BY DEF Elapse, tagState
  <1>2. new \in tagState
    <2>1. CASE hadHistory(st) /\ st.silence < MaxSilence
      <3>0. MaxSilence \in Nat /\ st.silence \in 0 .. MaxSilence
        BY DeriveAssumption DEF tagState
      <3>1. st.silence + 1 \in 0 .. MaxSilence
        BY <2>1, <3>0
      <3> QED
        BY <2>1, <3>1 DEF Elapse, tagState
    <2>2. CASE ~(hadHistory(st) /\ st.silence < MaxSilence)
      BY <2>2 DEF Elapse
    <2> QED
      BY <2>1, <2>2
  <1> HIDE DEF new
  <1>3. TagInv(new, v, fix)
    BY <1>1 DEF TagInv, WasOffline, hadHistory
  <1> QED
    BY <1>2, <1>3 DEF new

-----------------------------------------------------------------------------
\* Announcements of INACTIVE.
Inactive(ev) == ev.type = "PRESENCE" /\ ev.presence = "INACTIVE"

\* No event of evs announces INACTIVE to a consumer that holds the tag for it.
NoRepeat(v, evs) ==
    \A i \in DOMAIN evs :
        Inactive(evs[i]) => Observe(v, SubSeq(evs, 1, i - 1)).presence # "INACTIVE"

\* What comes before the last event of a list is the list it was appended to.
LEMMA FrontOfAppend ==
    ASSUME NEW evs \in Seq(Event), NEW ev \in Event
    PROVE  SubSeq(Append(evs, ev), 1, Len(evs)) = evs
  <1>1. Len(SubSeq(Append(evs, ev), 1, Len(evs))) = Len(evs)
    OBVIOUS
  <1>2. \A i \in 1 .. Len(evs) : SubSeq(Append(evs, ev), 1, Len(evs))[i] = evs[i]
    OBVIOUS
  <1>3. SubSeq(Append(evs, ev), 1, Len(evs)) \in Seq(Event)
    OBVIOUS
  <1> QED
    BY <1>1, <1>2, <1>3

\* A list whose only INACTIVE, if any, is the last event repeats none unless
\* that one does.
LEMMA LastAnnounces ==
    ASSUME NEW v \in View, NEW evs \in Seq(Event), NEW ev \in Event,
           \A i \in 1 .. Len(evs) : ~Inactive(evs[i]),
           Inactive(ev) => Observe(v, evs).presence # "INACTIVE"
    PROVE  NoRepeat(v, Append(evs, ev))
  <1> DEFINE new == Append(evs, ev)
  <1>1. /\ DOMAIN new = 1 .. Len(evs) + 1 /\ new[Len(evs) + 1] = ev
        /\ \A i \in 1 .. Len(evs) : new[i] = evs[i]
        /\ Len(evs) \in Nat
    OBVIOUS
  <1>2. SubSeq(new, 1, Len(evs)) = evs
    BY FrontOfAppend
  <1> HIDE DEF new
  <1>3. ASSUME NEW i \in DOMAIN new, Inactive(new[i])
        PROVE  Observe(v, SubSeq(new, 1, i - 1)).presence # "INACTIVE"
    <2>1. i = Len(evs) + 1
      BY <1>1, <1>3
    <2>2. i - 1 = Len(evs)
      BY <1>1, <2>1
    <2> QED
      BY <1>1, <1>2, <1>3, <2>1, <2>2
  <1> QED
    BY <1>3 DEF NoRepeat, new

\* deriveEvents announces INACTIVE only on LOCATION_LOST, of a tag that was
\* with a location and that TAG_ONLINE has just announced if it was offline.
LEMMA DeriveNoRepeat ==
    ASSUME NEW prev \in tagState, NEW msg \in Datagram, NEW v \in View,
           NEW fix \in BOOLEAN, TagInv(prev, v, fix)
    PROVE  NoRepeat(v, deriveEvents(prev, msg))
  <1> DEFINE curr == normaliseZones(msg.zones)
             off == WasOffline(prev)
             lost == LocationLost(prev, msg)
             back == LocationRestored(prev, msg)
             due == SnapshotDue(prev, msg)
             emptied == Emptied(prev, msg)
             onl == presenceEvent(msg, prev.lastZoneIds, "ACTIVE")
             emp == zoneEvent(msg, {})
             los == presenceEvent(msg, prev.lastZoneIds, "INACTIVE")
             res == presenceEvent(msg, curr, "ACTIVE")
             snp == zoneEvent(msg, curr)
             none == <<>>
             s1 == AppendIf(none, off, onl)
             s2 == AppendIf(s1, emptied, emp)
             s3 == AppendIf(s2, lost, los)
             s4 == AppendIf(s3, back, res)
             s5 == AppendIf(s4, due, snp)
  <1>1. /\ curr \in SUBSET Zones /\ prev.lastZoneIds \in SUBSET Zones
        /\ {} \in SUBSET Zones
        /\ "ACTIVE" \in Presences /\ "INACTIVE" \in Presences
    BY DEF normaliseZones, Datagram, tagState, Presences
  <1>2. onl \in Event /\ emp \in Event /\ los \in Event /\ res \in Event /\ snp \in Event
    BY <1>1, DerivedEvents
  <1>3. deriveEvents(prev, msg) = s5
    BY DEF deriveEvents, onlineEvents, lostEvents, restoredEvents, snapshotEvents, Emptied
  <1>4. /\ s1 = IF off THEN Append(none, onl) ELSE none
        /\ s2 = IF emptied THEN Append(s1, emp) ELSE s1
        /\ s3 = IF lost THEN Append(s2, los) ELSE s2
        /\ s4 = IF back THEN Append(s3, res) ELSE s3
        /\ s5 = IF due THEN Append(s4, snp) ELSE s4
    BY DEF AppendIf
  <1>5. /\ ~Inactive(onl) /\ ~Inactive(emp) /\ ~Inactive(res) /\ ~Inactive(snp)
        /\ onl.type = "PRESENCE" /\ onl.presence = "ACTIVE" /\ emp.type = "ZONE"
    BY DEF presenceEvent, zoneEvent, Inactive
  <1>6. Readable(none) /\ Observe(v, none) = v /\ none \in Seq(Event) /\ Len(none) = 0
    BY ObserveEmpty
  <1>7. lost => ~back /\ ~due
    BY DEF LocationLost, LocationRestored, SnapshotDue
  <1>8. lost /\ v.presence = "INACTIVE" => off
    BY DEF TagInv, LocationLost
  <1> HIDE DEF onl, emp, los, res, snp, none, s1, s2, s3, s4, s5,
              off, lost, back, due, emptied, curr
  <1>9. /\ Readable(s1) /\ Observe(v, s1) \in View
        /\ Observe(v, s1) = IF off THEN Apply(v, onl) ELSE v
    BY <1>2, <1>4, <1>6, ObserveAppend
  <1>10. /\ Readable(s2)
         /\ Observe(v, s2) = IF emptied THEN Apply(Observe(v, s1), emp) ELSE Observe(v, s1)
    BY <1>2, <1>9, <1>4, ObserveAppend
  <1>11. s1 \in Seq(Event) /\ s2 \in Seq(Event)
    BY <1>9, <1>10 DEF Readable
  <1>12. \A i \in 1 .. Len(s1) : ~Inactive(s1[i])
    BY <1>2, <1>4, <1>5, <1>6
  <1>13. \A i \in 1 .. Len(s2) : ~Inactive(s2[i])
    BY <1>2, <1>4, <1>5, <1>11, <1>12
  <1>14. CASE lost
    <2>1. s5 = Append(s2, los)
      BY <1>4, <1>7, <1>14
    <2>2. off => Observe(v, s1).presence = "ACTIVE"
      BY <1>5, <1>9 DEF Apply
    <2>3. ~off => Observe(v, s1).presence # "INACTIVE"
      BY <1>8, <1>9, <1>14
    <2>4. Observe(v, s2).presence = Observe(v, s1).presence
      BY <1>5, <1>10 DEF Apply
    <2>5. Observe(v, s2).presence # "INACTIVE"
      BY <2>2, <2>3, <2>4
    <2> QED
      BY <1>2, <1>3, <1>11, <1>13, <2>1, <2>5, LastAnnounces
  <1>15. CASE ~lost
    <2>1. s3 = s2
      BY <1>4, <1>15
    <2>2. s4 \in Seq(Event) /\ \A i \in 1 .. Len(s4) : ~Inactive(s4[i])
      BY <1>2, <1>4, <1>5, <1>11, <1>13, <2>1
    <2>3. \A i \in 1 .. Len(s5) : ~Inactive(s5[i])
      BY <1>2, <1>4, <1>5, <2>2
    <2>4. s5 \in Seq(Event)
      BY <1>2, <1>4, <2>2
    <2> QED
      BY <1>3, <2>3, <2>4 DEF NoRepeat
  <1> QED
    BY <1>14, <1>15

\* The watchdog announces INACTIVE only of a tag it holds to be online and
\* with its location.
LEMMA WatchdogNoRepeat ==
    ASSUME NEW st \in tagState, NEW v \in View, NEW fix \in BOOLEAN, TagInv(st, v, fix)
    PROVE  NoRepeat(v, watchdogEvents(st))
  <1> DEFINE none == <<>>
             off == offlineEvent(st)
  <1>1. off \in Event
    BY DerivedEvents
  <1>2. watchdogEvents(st) = IF Overdue(st) THEN Append(none, off) ELSE none
    BY DEF watchdogEvents, AppendIf
  <1>3. Observe(v, none) = v /\ none \in Seq(Event) /\ Len(none) = 0
    BY ObserveEmpty
  <1> HIDE DEF none, off
  <1>4. CASE Overdue(st)
    <2>1. v.presence # "INACTIVE"
      BY <1>4 DEF Overdue, TagInv, WasOffline
    <2>2. \A i \in 1 .. Len(none) : ~Inactive(none[i])
      BY <1>3
    <2>3. NoRepeat(v, Append(none, off))
      BY <1>1, <1>3, <2>1, <2>2, LastAnnounces
    <2> QED
      BY <1>2, <1>4, <2>3
  <1>5. CASE ~Overdue(st)
    BY <1>2, <1>3, <1>5 DEF NoRepeat
  <1> QED
    BY <1>4, <1>5

-----------------------------------------------------------------------------
(* A list of distinct ids has as many elements as its set.                 *)
LEMMA DistinctSize ==
    ASSUME NEW ZoneId, NEW a \in Seq(ZoneId), Distinct(a)
    PROVE  IsFiniteSet(ZoneSet(a)) /\ Cardinality(ZoneSet(a)) = Len(a)
<1> DEFINE n == Len(a)
<1>1. n \in Nat /\ DOMAIN a = 1 .. n
    OBVIOUS
<1>2. IsFiniteSet(1 .. n) /\ Cardinality(1 .. n) = n
    <2>1. IsFiniteSet(1 .. n) /\ Cardinality(1 .. n) = IF 1 > n THEN 0 ELSE n - 1 + 1
        BY <1>1, FS_Interval, SMT
    <2> QED BY <1>1, <2>1
<1>3. a \in Bijection(1 .. n, ZoneSet(a))
    BY <1>1 DEF Distinct, ZoneSet, Bijection, Injection, Surjection, IsInjective
<1>4. ExistsBijection(1 .. n, ZoneSet(a))
    BY <1>3 DEF ExistsBijection
<1> QED
    BY <1>2, <1>4, FS_Bijection

(* zonesEqual "reports whether two zone slices represent the same set"     *)
(* (state.go:23-24): it does for lists in which no id is repeated, of      *)
(* whatever length and in whatever order.                                  *)
THEOREM ZonesEqualComparesSets ==
    ASSUME NEW ZoneId, NEW a \in Seq(ZoneId), NEW b \in Seq(ZoneId),
           Distinct(a), Distinct(b)
    PROVE  zonesEqual(a, b) <=> ZoneSet(a) = ZoneSet(b)
<1>1. /\ IsFiniteSet(ZoneSet(a)) /\ Cardinality(ZoneSet(a)) = Len(a)
      /\ IsFiniteSet(ZoneSet(b)) /\ Cardinality(ZoneSet(b)) = Len(b)
    BY DistinctSize
<1>2. ASSUME zonesEqual(a, b)
      PROVE  ZoneSet(a) = ZoneSet(b)
    <2>1. ZoneSet(a) \in SUBSET ZoneSet(b)
        BY <1>2 DEF zonesEqual, ZoneSet
    <2>2. Cardinality(ZoneSet(a)) = Cardinality(ZoneSet(b))
        BY <1>1, <1>2 DEF zonesEqual
    <2> QED
        BY <1>1, <2>1, <2>2, FS_Subset
<1>3. ASSUME ZoneSet(a) = ZoneSet(b)
      PROVE  zonesEqual(a, b)
    <2>1. Len(a) = Len(b)
        BY <1>1, <1>3
    <2>2. \A i \in DOMAIN a : a[i] \in ZoneSet(b)
        BY <1>3 DEF ZoneSet
    <2> QED
        BY <2>1, <2>2 DEF zonesEqual, ZoneSet
<1> QED
    BY <1>2, <1>3

(* Without that condition it does not: a repeated id hides a difference,   *)
(* and the comparison depends on the order of its arguments                *)
(* (state.go:26-40).                                                       *)
THEOREM RepeatedIdHidesChange ==
    ASSUME NEW x, NEW y, x # y
    PROVE  /\ zonesEqual(<<x, x>>, <<x, y>>)
           /\ ~ zonesEqual(<<x, y>>, <<x, x>>)
           /\ ZoneSet(<<x, x>>) # ZoneSet(<<x, y>>)
<1> DEFINE a == <<x, x>>
           b == <<x, y>>
<1>1. Len(a) = 2 /\ DOMAIN a = {1, 2} /\ a[1] = x /\ a[2] = x
    OBVIOUS
<1>2. Len(b) = 2 /\ DOMAIN b = {1, 2} /\ b[1] = x /\ b[2] = y
    OBVIOUS
<1> HIDE DEF a, b
<1>3. zonesEqual(a, b)
    BY <1>1, <1>2 DEF zonesEqual
<1>4. ~ zonesEqual(b, a)
    BY <1>1, <1>2 DEF zonesEqual
<1>5. y \in ZoneSet(b) /\ y \notin ZoneSet(a)
    BY <1>1, <1>2 DEF ZoneSet
<1> QED
    BY <1>3, <1>4, <1>5 DEF a, b
=============================================================================

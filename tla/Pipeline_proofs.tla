-------------------------- MODULE Pipeline_proofs ---------------------------
(***************************************************************************)
(* From a datagram to what a new subscriber is shown, for every set of     *)
(* tags, zones, location types and movements and every MaxAge, any number  *)
(* of stops of the process, in the middle of a Write too, and calls of     *)
(* Write that fail.                                                        *)
(*                                                                         *)
(* The tags share nothing, so the invariant is about one tag: what the     *)
(* adapter remembers of it, what waits in the channel, and its three       *)
(* memories in the repository: cache, bucket and stream. Of the kinds of   *)
(* change on which it is not behind, a memory recalls the last record.     *)
(***************************************************************************)
EXTENDS Pipeline, Derive_proofs

-----------------------------------------------------------------------------
(* The encodings lose nothing of what an event of the adapter carries.     *)

\* What a pointer points to; the next, what a nil one counts as.
LEMMA OrZeroSome == \A v, zero : OrZero(Some(v), zero) = v
  BY DEF OrZero, Some, Nil

LEMMA OrZeroNil == \A zero : OrZero(Nil, zero) = zero
  BY DEF OrZero

\* omitempty drops what reading back restores.
LEMMA OmitEmptyBack == \A s : OrZero(OmitEmpty(s), {}) = s
  BY OrZeroSome, OrZeroNil DEF OmitEmpty

\* The same of a string.
LEMMA OmitBlankBack == \A s : OrZero(OmitBlank(s), "") = s
  BY OrZeroSome, OrZeroNil DEF OmitBlank

\* The numbers of the enums are distinct.
LEMMA PresenceBack ==
    \A p \in Presences \cup {"UNSPECIFIED"} :
        FromInt(PresenceTypes, ToInt(PresenceTypes, p)) = p
  <1> DEFINE E == PresenceTypes
  <1>1. DOMAIN E = {1, 2} /\ E[1] = "ACTIVE" /\ E[2] = "INACTIVE"
    BY DEF PresenceTypes
  <1> HIDE DEF E
  <1>2. ToInt(E, "ACTIVE") = 1 /\ ToInt(E, "INACTIVE") = 2 /\ ToInt(E, "UNSPECIFIED") = 0
    BY <1>1 DEF ToInt
  <1>3. FromInt(E, 1) = "ACTIVE" /\ FromInt(E, 2) = "INACTIVE" /\ FromInt(E, 0) = "UNSPECIFIED"
    BY <1>1 DEF FromInt
  <1> QED
    BY <1>2, <1>3 DEF E, Presences

\* The same of the types of event.
LEMMA TypeBack ==
    \A k \in ChangeTypes : FromInt(EventTypes, ToInt(EventTypes, k)) = k
  <1> DEFINE E == EventTypes
  <1>1. DOMAIN E = {1, 2, 3} /\ E[1] = "ZONE" /\ E[2] = "PRESENCE" /\ E[3] = "COMMAND"
    BY DEF EventTypes
  <1> HIDE DEF E
  <1>2. ToInt(E, "ZONE") = 1 /\ ToInt(E, "PRESENCE") = 2
    BY <1>1 DEF ToInt
  <1>3. FromInt(E, 1) = "ZONE" /\ FromInt(E, 2) = "PRESENCE"
    BY <1>1 DEF FromInt
  <1> QED
    BY <1>2, <1>3 DEF E, ChangeTypes

\* Looking up what actorMetadata put in finds it, and the zero string for what
\* it left out.
LEMMA LookupBack ==
    \A ev : /\ Lookup(actorMetadata(ev), "locationType") = ev.locationType
            /\ Lookup(actorMetadata(ev), "movementStatus") = ev.movement
  <1> SUFFICES ASSUME NEW ev
               PROVE  /\ Lookup(actorMetadata(ev), "locationType") = ev.locationType
                      /\ Lookup(actorMetadata(ev), "movementStatus") = ev.movement
    OBVIOUS
  <1> DEFINE a == <<"locationType", ev.locationType>>
             b == <<"movementStatus", ev.movement>>
             md == actorMetadata(ev)
             lt == {p[2] : p \in {q \in md : q[1] = "locationType"}}
             ms == {p[2] : p \in {q \in md : q[1] = "movementStatus"}}
  <1>1. /\ a[1] = "locationType" /\ a[2] = ev.locationType
        /\ b[1] = "movementStatus" /\ b[2] = ev.movement
    OBVIOUS
  <1>2. md = {p \in {a, b} : p[2] # ""}
    BY DEF actorMetadata
  <1> HIDE DEF a, b, md
  <1>3. {q \in md : q[1] = "locationType"} = IF ev.locationType = "" THEN {} ELSE {a}
    BY <1>1, <1>2
  <1>4. {q \in md : q[1] = "movementStatus"} = IF ev.movement = "" THEN {} ELSE {b}
    BY <1>1, <1>2
  <1>5. lt = IF ev.locationType = "" THEN Nil ELSE Some(ev.locationType)
    BY <1>1, <1>3 DEF Nil, Some
  <1>6. ms = IF ev.movement = "" THEN Nil ELSE Some(ev.movement)
    BY <1>1, <1>4 DEF Nil, Some
  <1>7. OrZero(lt, "") = ev.locationType /\ OrZero(ms, "") = ev.movement
    BY <1>5, <1>6, OrZeroSome, OrZeroNil
  <1> QED
    BY <1>7 DEF Lookup, md

\* What the repository reads of an event of the adapter.
LEMMA EventReads ==
    ASSUME NEW t, NEW ev \in Event
    PROVE  /\ DomainEvent(t, ev).type = ev.type /\ ev.type \in ChangeTypes
           /\ DomainEvent(t, ev).actor.id = t
           /\ ZonesOf(DomainEvent(t, ev)) = ev.zones
           /\ LocationTypeOf(DomainEvent(t, ev)) = ev.locationType
           /\ MovementOf(DomainEvent(t, ev)) = ev.movement
           /\ DomainEvent(t, ev).state.presence = ev.presence
  <1> DEFINE e == DomainEvent(t, ev)
  <1>1. /\ e.type = ev.type /\ e.actor.id = t /\ e.state.presence = ev.presence
        /\ e.actor.metadata = actorMetadata(ev)
        /\ e.state.location = {[zones |-> ev.zones]}
    BY DEF DomainEvent, Some
  <1>2. ev.type \in ChangeTypes
    BY DEF Event, ChangeTypes
  <1> HIDE DEF e
  <1>3. ZonesOf(e) = ev.zones
    <2>1. {l.zones : l \in e.state.location} = {ev.zones}
      BY <1>1
    <2> QED
      BY <2>1 DEF ZonesOf
  <1>4. LocationTypeOf(e) = ev.locationType /\ MovementOf(e) = ev.movement
    BY <1>1, LookupBack DEF LocationTypeOf, MovementOf
  <1> QED
    BY <1>1, <1>2, <1>3, <1>4 DEF e

\* A stream record is read back as the event it was made from.
LEMMA RecordBack ==
    ASSUME NEW t, NEW ev \in Event
    PROVE  unmarshal(marshal(DomainEvent(t, ev))) = DomainEvent(t, ev)
  <1> DEFINE md == actorMetadata(ev)
             s == [presence |-> ev.presence, location |-> {[zones |-> ev.zones]}, command |-> {}]
             tn == ToInt(EventTypes, ev.type)
             pn == ToInt(PresenceTypes, ev.presence)
             zo == OmitEmpty(ev.zones)
             mo == OmitEmpty(md)
  <1>1. DomainEvent(t, ev) =
          [type |-> ev.type, actor |-> [id |-> t, metadata |-> md], state |-> s]
    BY DEF DomainEvent, Some, Nil
  <1>2. /\ FromInt(EventTypes, tn) = ev.type /\ FromInt(PresenceTypes, pn) = ev.presence
        /\ OrZero(zo, {}) = ev.zones /\ OrZero(mo, {}) = md
    BY TypeBack, PresenceBack, OmitEmptyBack DEF Event, ChangeTypes
  <1> HIDE DEF tn, pn, zo, mo, md
  <1>3. toWireState(s) = [presence |-> pn, location |-> {[zones |-> zo]}, command |-> {}]
    BY DEF toWireState, pn, zo
  <1>4. marshal(DomainEvent(t, ev)) =
          [type |-> tn, actor |-> [id |-> t, metadata |-> mo],
           state |-> [presence |-> pn, location |-> {[zones |-> zo]}, command |-> {}]]
    <2> DEFINE e == DomainEvent(t, ev)
               w == [presence |-> pn, location |-> {[zones |-> zo]}, command |-> {}]
    <2>1. e.type = ev.type /\ e.actor.id = t /\ e.actor.metadata = md /\ e.state = s
      BY <1>1
    <2> HIDE DEF e, s
    <2>2. toWireState(s) = w
      BY <1>3
    <2> HIDE DEF w
    <2>3. marshal(e) = [type |-> tn, actor |-> [id |-> t, metadata |-> mo], state |-> w]
      BY <2>1, <2>2 DEF marshal, tn, mo
    <2> QED
      BY <2>3 DEF e, w
  <1>5. fromWireState([presence |-> pn, location |-> {[zones |-> zo]}, command |-> {}]) = s
    BY <1>2 DEF fromWireState
  <1>6. unmarshal(marshal(DomainEvent(t, ev))) =
          [type |-> ev.type, actor |-> [id |-> t, metadata |-> md], state |-> s]
    BY <1>2, <1>4, <1>5 DEF unmarshal
  <1> QED
    BY <1>1, <1>6

\* An entry of the bucket is read back as the state it was made from.
LEMMA EntryBack ==
    ASSUME NEW s \in ActorState
    PROVE  fromKv(toKv(s)) = s
  <1> DEFINE k == toKv(s)
  <1>1. /\ k.z = OmitEmpty(s.zones) /\ k.p = ToInt(PresenceTypes, s.presence)
        /\ k.lt = OmitBlank(s.locationType) /\ k.ms = OmitBlank(s.movementStatus)
        /\ k.hz = s.hasZones /\ k.hp = s.hasPresence
    BY DEF toKv
  <1> HIDE DEF k
  <1>2. /\ OrZero(k.z, {}) = s.zones /\ FromInt(PresenceTypes, k.p) = s.presence
        /\ OrZero(k.lt, "") = s.locationType /\ OrZero(k.ms, "") = s.movementStatus
    BY <1>1, PresenceBack, OmitEmptyBack, OmitBlankBack DEF ActorState
  <1>3. fromKv(k) = [zones |-> s.zones, presence |-> s.presence,
                     locationType |-> s.locationType, movementStatus |-> s.movementStatus,
                     hasZones |-> s.hasZones, hasPresence |-> s.hasPresence]
    BY <1>1, <1>2 DEF fromKv
  <1>4. s = [zones |-> s.zones, presence |-> s.presence,
             locationType |-> s.locationType, movementStatus |-> s.movementStatus,
             hasZones |-> s.hasZones, hasPresence |-> s.hasPresence]
    BY DEF ActorState
  <1> QED
    BY <1>3, <1>4 DEF k

-----------------------------------------------------------------------------
(* What a memory of the repository, a cached state or an entry of the      *)
(* bucket, knows of the events that were published.                        *)

Has(s, k) == IF k = "ZONE" THEN s.hasZones ELSE s.hasPresence

\* Two events of a kind that subscribers cannot tell apart.
Same(a, b) ==
    IF a.type = "ZONE"
      THEN a.zones = b.zones /\ a.locationType = b.locationType /\ a.movement = b.movement
      ELSE a.presence = b.presence

\* s remembers the event ev as the last of its kind.
Recalls(s, ev) ==
    IF ev.type = "ZONE"
      THEN /\ s.hasZones /\ s.zones = ev.zones
           /\ s.locationType = ev.locationType /\ s.movementStatus = ev.movement
      ELSE s.hasPresence /\ s.presence = ev.presence

\* The comparisons of handleZoneChange and handlePresenceChange ask for that.
LEMMA UnchangedRecalls ==
    ASSUME NEW s \in ActorState, NEW t, NEW ev \in Event
    PROVE  Unchanged(s, DomainEvent(t, ev)) <=> Recalls(s, ev)
  BY EventReads DEF Unchanged, Recalls

\* The state that is taken when none is found knows nothing.
LEMMA ZeroActor == ZeroActorState \in ActorState /\ \A k : ~Has(ZeroActorState, k)
  BY DEF ZeroActorState, ActorState, Has

\* What Remember makes of a state: the event is recalled, the other kind is
\* left alone.
LEMMA RememberRecalls ==
    ASSUME NEW s \in ActorState, NEW t, NEW ev \in Event
    PROVE  /\ Remember(s, DomainEvent(t, ev)) \in ActorState
           /\ Has(Remember(s, DomainEvent(t, ev)), ev.type)
           /\ Recalls(Remember(s, DomainEvent(t, ev)), ev)
           /\ \A k \in ChangeTypes \ {ev.type} :
                Has(Remember(s, DomainEvent(t, ev)), k) = Has(s, k)
           /\ \A x \in Event : x.type # ev.type =>
                (Recalls(Remember(s, DomainEvent(t, ev)), x) <=> Recalls(s, x))
  <1> DEFINE e == DomainEvent(t, ev)
             r == Remember(s, e)
  <1>1. /\ e.type = ev.type /\ ZonesOf(e) = ev.zones /\ LocationTypeOf(e) = ev.locationType
        /\ MovementOf(e) = ev.movement /\ e.state.presence = ev.presence
    BY EventReads
  <1>2. /\ ev.type \in {"ZONE", "PRESENCE"} /\ ev.zones \in SUBSET Zones
        /\ ev.locationType \in LocationTypes \cup {""} /\ ev.movement \in Movements \cup {""}
        /\ ev.presence \in Presences
    BY DEF Event
  <1> HIDE DEF e
  <1>3. CASE ev.type = "ZONE"
    <2>1. r = [s EXCEPT !.zones = ev.zones, !.locationType = ev.locationType,
                        !.movementStatus = ev.movement, !.hasZones = TRUE]
      BY <1>1, <1>3 DEF Remember
    <2>2. /\ r \in ActorState /\ r.hasZones = TRUE /\ r.zones = ev.zones
          /\ r.locationType = ev.locationType /\ r.movementStatus = ev.movement
          /\ r.hasPresence = s.hasPresence /\ r.presence = s.presence
      BY <1>2, <2>1 DEF ActorState
    <2> HIDE DEF r
    <2>3. Has(r, ev.type) /\ Recalls(r, ev)
      BY <1>3, <2>2 DEF Has, Recalls
    <2>4. \A k \in ChangeTypes \ {ev.type} : Has(r, k) = Has(s, k)
      BY <1>3, <2>2 DEF Has, ChangeTypes
    <2>5. \A x \in Event : x.type # ev.type => (Recalls(r, x) <=> Recalls(s, x))
      BY <1>3, <2>2 DEF Recalls
    <2> QED
      BY <2>2, <2>3, <2>4, <2>5 DEF r, e
  <1>4. CASE ev.type = "PRESENCE"
    <2>1. r = [s EXCEPT !.presence = ev.presence, !.hasPresence = TRUE]
      BY <1>1, <1>4 DEF Remember
    <2>2. /\ r \in ActorState /\ r.hasPresence = TRUE /\ r.presence = ev.presence
          /\ r.zones = s.zones /\ r.locationType = s.locationType
          /\ r.movementStatus = s.movementStatus /\ r.hasZones = s.hasZones
      BY <1>2, <2>1 DEF ActorState
    <2> HIDE DEF r
    <2>3. Has(r, ev.type) /\ Recalls(r, ev)
      BY <1>4, <2>2 DEF Has, Recalls
    <2>4. \A k \in ChangeTypes \ {ev.type} : Has(r, k) = Has(s, k)
      BY <1>4, <2>2 DEF Has, ChangeTypes
    <2>5. \A x \in Event : x.type # ev.type => (Recalls(r, x) <=> Recalls(s, x))
      BY <1>4, <2>2 DEF Recalls, Event
    <2> QED
      BY <2>2, <2>3, <2>4, <2>5 DEF r, e
  <1> QED
    BY <1>2, <1>3, <1>4

\* Recalling two events of a kind, or one and not the other.
LEMMA RecallsSame ==
    ASSUME NEW s \in ActorState, NEW a \in Event, NEW b \in Event, a.type = b.type, Recalls(s, a)
    PROVE  /\ Has(s, a.type)
           /\ Recalls(s, b) <=> Same(a, b)
  BY DEF Recalls, Same, Has, Event

-----------------------------------------------------------------------------
(* The invariant of the repository's memories of one tag: c is its cached  *)
(* state, b its entry in the bucket, l its last records, d the kinds on    *)
(* which the memories are behind. A memory is trusted on the other kinds.  *)

Ages == 0 .. MaxAge + 1

\* The last record of kind k is that of the event ev and of age n.
RecordIs(l, t, k, ev, n) ==
    /\ ev.type = k
    /\ l[k] = Some([data |-> marshal(DomainEvent(t, ev)), age |-> n])

\* What s has of a kind of K is what the last record says, and it has whatever
\* subscribers are still shown.
Knows(s, t, l, K) ==
    \A k \in K :
        /\ Has(s, k) => \E ev \in Event, n \in Ages : RecordIs(l, t, k, ev, n) /\ Recalls(s, ev)
        /\ Live(l[k]) # {} => Has(s, k)

Records(t, l) ==
    \A k \in ChangeTypes :
        l[k] = Nil \/ \E ev \in Event, n \in Ages : RecordIs(l, t, k, ev, n)

CacheKnows(t, c, l, K) ==
    c = Nil \/ \E s \in ActorState : c = Some(s) /\ Knows(s, t, l, K)

\* The entry is as young as every record of K.
EntryKnows(t, b, l, s, n, K) ==
    /\ b = Some([data |-> toKv(s), age |-> n])
    /\ Knows(s, t, l, K)
    /\ \A k \in K : \A r \in l[k] : n <= r.age

BucketKnows(t, b, l, K) ==
    \/ b = Nil /\ \A k \in K : l[k] = Nil
    \/ \E s \in ActorState, n \in Ages : EntryKnows(t, b, l, s, n, K)

Behind == [cache : SUBSET ChangeTypes, kv : SUBSET ChangeTypes]
Trusted(x) == ChangeTypes \ x

StoreInv(t, c, b, l, d) ==
    /\ Records(t, l)
    /\ CacheKnows(t, c, l, Trusted(d.cache)) /\ BucketKnows(t, b, l, Trusted(d.kv))

\* getActorState and Doubt, of one tag.
Found(c, b) == IF c # Nil THEN c ELSE {fromKv(r.data) : r \in Live(b)}
DoubtOf(c, d) == IF c # Nil THEN d.cache ELSE d.kv

\* The ages are numbers up to MaxAge + 1.
LEMMA AgeBounds ==
    /\ MaxAge \in Nat /\ MaxAge # 0 /\ 0 \in Ages
    /\ \A n \in Ages : n \in Nat /\ n <= MaxAge + 1
  <1>1. MaxAge \in Nat \ {0}
    BY PipelineAssumption, Zenon
  <1> QED
    BY <1>1 DEF Ages

\* A record of age n is seen until MaxAge.
LEMMA LiveOne ==
    ASSUME NEW d, NEW n \in Nat
    PROVE  Live(Some([data |-> d, age |-> n]))
             = IF n <= MaxAge THEN Some([data |-> d, age |-> n]) ELSE Nil
  BY DEF Live, Some, Nil

\* Whoever knows of some kinds knows of fewer.
LEMMA KnowsLess ==
    ASSUME NEW t, NEW l, NEW K, NEW J, J \subseteq K
    PROVE  /\ \A s : Knows(s, t, l, K) => Knows(s, t, l, J)
           /\ \A c : CacheKnows(t, c, l, K) => CacheKnows(t, c, l, J)
           /\ \A b : BucketKnows(t, b, l, K) => BucketKnows(t, b, l, J)
  <1>1. ASSUME NEW s, Knows(s, t, l, K) PROVE Knows(s, t, l, J)
    BY <1>1 DEF Knows
  <1>2. ASSUME NEW c, CacheKnows(t, c, l, K) PROVE CacheKnows(t, c, l, J)
    BY <1>1, <1>2 DEF CacheKnows
  <1>3. ASSUME NEW b, BucketKnows(t, b, l, K) PROVE BucketKnows(t, b, l, J)
    <2>1. CASE b = Nil /\ \A k \in K : l[k] = Nil
      BY <2>1 DEF BucketKnows
    <2>2. ASSUME NEW s \in ActorState, NEW n \in Ages, EntryKnows(t, b, l, s, n, K)
          PROVE  EntryKnows(t, b, l, s, n, J)
      BY <1>1, <2>2 DEF EntryKnows
    <2> QED
      BY <1>3, <2>1, <2>2 DEF BucketKnows
  <1> QED
    BY <1>1, <1>2, <1>3

\* Write compares with a state that knows what was published, as far as the
\* memory is trusted, whether it finds it in the cache, in the bucket, or
\* nowhere.
LEMMA FoundKnows ==
    ASSUME NEW t, NEW c, NEW b, NEW l, NEW d, StoreInv(t, c, b, l, d)
    PROVE  /\ OrZero(Found(c, b), ZeroActorState) \in ActorState
           /\ Knows(OrZero(Found(c, b), ZeroActorState), t, l, Trusted(DoubtOf(c, d)))
           /\ \/ Found(c, b) = Nil /\ OrZero(Found(c, b), ZeroActorState) = ZeroActorState
              \/ Found(c, b) = Some(OrZero(Found(c, b), ZeroActorState))
  <1> DEFINE K == Trusted(d.kv)
  <1>0. /\ Records(t, l) /\ CacheKnows(t, c, l, Trusted(d.cache)) /\ BucketKnows(t, b, l, K)
        /\ K \subseteq ChangeTypes
    BY DEF StoreInv, Trusted
  <1> HIDE DEF K
  <1>1. CASE c # Nil
    <2>1. PICK s \in ActorState : c = Some(s) /\ Knows(s, t, l, Trusted(d.cache))
      BY <1>0, <1>1 DEF CacheKnows
    <2>2. Found(c, b) = Some(s) /\ DoubtOf(c, d) = d.cache
      BY <1>1, <2>1 DEF Found, DoubtOf
    <2>3. OrZero(Found(c, b), ZeroActorState) = s
      BY <2>2, OrZeroSome
    <2> QED
      BY <2>1, <2>2, <2>3
  <1>2. CASE c = Nil /\ \E s \in ActorState, n \in Ages : EntryKnows(t, b, l, s, n, K) /\ n <= MaxAge
    <2>1. PICK s \in ActorState, n \in Ages : EntryKnows(t, b, l, s, n, K) /\ n <= MaxAge
      BY <1>2
    <2>2. Live(b) = Some([data |-> toKv(s), age |-> n])
      BY <2>1, AgeBounds, LiveOne DEF EntryKnows
    <2>3. Found(c, b) = Some(fromKv(toKv(s))) /\ Trusted(DoubtOf(c, d)) = K
      BY <1>2, <2>2 DEF Found, Some, DoubtOf, K
    <2>4. Found(c, b) = Some(s)
      BY <2>3, EntryBack
    <2>5. OrZero(Found(c, b), ZeroActorState) = s
      BY <2>4, OrZeroSome
    <2> QED
      BY <2>1, <2>3, <2>4, <2>5 DEF EntryKnows
  <1>3. CASE c = Nil /\ ~\E s \in ActorState, n \in Ages : EntryKnows(t, b, l, s, n, K) /\ n <= MaxAge
    <2>1. Live(b) = Nil /\ \A k \in K : Live(l[k]) = {}
      <3>1. CASE b = Nil /\ \A k \in K : l[k] = Nil
        BY <3>1 DEF Live, Nil
      <3>2. ASSUME NEW s \in ActorState, NEW n \in Ages, EntryKnows(t, b, l, s, n, K)
            PROVE  Live(b) = Nil /\ \A k \in K : Live(l[k]) = {}
        <4>1. n > MaxAge
          BY <1>3, <3>2, AgeBounds
        <4>2. Live(b) = Nil
          BY <3>2, <4>1, AgeBounds, LiveOne DEF EntryKnows
        <4>3. ASSUME NEW k \in K PROVE Live(l[k]) = {}
          <5>1. CASE l[k] = Nil
            BY <5>1 DEF Live, Nil
          <5>2. ASSUME NEW ev \in Event, NEW m \in Ages, RecordIs(l, t, k, ev, m)
                PROVE  Live(l[k]) = {}
            <6>1. l[k] = Some([data |-> marshal(DomainEvent(t, ev)), age |-> m])
              BY <5>2 DEF RecordIs
            <6>2. n <= m
              <7> DEFINE r == [data |-> marshal(DomainEvent(t, ev)), age |-> m]
              <7>1. r \in l[k] /\ r.age = m
                BY <6>1 DEF Some
              <7>2. \A x \in l[k] : n <= x.age
                BY <3>2 DEF EntryKnows
              <7> HIDE DEF r
              <7> QED
                BY <7>1, <7>2
            <6>3. ~(m <= MaxAge)
              BY <4>1, <6>2, AgeBounds
            <6> QED
              BY <6>1, <6>3, AgeBounds, LiveOne DEF Nil
          <5> QED
            BY <1>0, <5>1, <5>2 DEF Records
        <4> QED
          BY <4>2, <4>3
      <3> QED
        BY <1>0, <3>1, <3>2 DEF BucketKnows
    <2>2. Found(c, b) = Nil /\ Trusted(DoubtOf(c, d)) = K
      BY <1>3, <2>1 DEF Found, Nil, DoubtOf, K
    <2>3. OrZero(Found(c, b), ZeroActorState) = ZeroActorState
      BY <2>2, OrZeroNil
    <2>4. Knows(ZeroActorState, t, l, K)
      BY <2>1, ZeroActor DEF Knows
    <2> QED
      BY <2>2, <2>3, <2>4, ZeroActor
  <1> QED
    BY <1>1, <1>2, <1>3

\* What is found is as trusted in the cache as it was before it came there.
LEMMA FoundDoubt ==
    ASSUME NEW c, NEW b, NEW d, NEW n, n.cache = DoubtOf(c, d), n.kv = d.kv
    PROVE  DoubtOf(Found(c, b), n) = DoubtOf(c, d)
  BY DEF DoubtOf, Found

-----------------------------------------------------------------------------
(* How the memories change.                                                *)

\* The last records once the event ev is published.
Publish(l, t, ev) ==
    [l EXCEPT ![ev.type] = Some([data |-> marshal(DomainEvent(t, ev)), age |-> 0])]

\* The subject of the event has its record, the other one what it had.
LEMMA PublishRecords ==
    ASSUME NEW t, NEW l, DOMAIN l = ChangeTypes, NEW ev \in Event
    PROVE  /\ DOMAIN Publish(l, t, ev) = ChangeTypes /\ ev.type \in ChangeTypes
           /\ RecordIs(Publish(l, t, ev), t, ev.type, ev, 0)
           /\ \A x \in Publish(l, t, ev)[ev.type] : x.age = 0
           /\ \A j \in ChangeTypes : j # ev.type =>
                /\ Publish(l, t, ev)[j] = l[j]
                /\ \A x, n : RecordIs(Publish(l, t, ev), t, j, x, n) <=> RecordIs(l, t, j, x, n)
           /\ Records(t, l) => Records(t, Publish(l, t, ev))
  <1> DEFINE k == ev.type
             item == Some([data |-> marshal(DomainEvent(t, ev)), age |-> 0])
             new == Publish(l, t, ev)
  <1>1. k \in ChangeTypes
    BY EventReads
  <1>2. /\ DOMAIN new = ChangeTypes /\ new[k] = item
        /\ \A j \in ChangeTypes : j # k => new[j] = l[j]
    BY <1>1 DEF Publish
  <1>3. \A x \in item : x.age = 0
    BY DEF Some
  <1> HIDE DEF item, new, k
  <1>4. RecordIs(new, t, k, ev, 0)
    BY <1>2 DEF RecordIs, item, k
  <1>5. ASSUME NEW j \in ChangeTypes, j # k, NEW x, NEW n
        PROVE  RecordIs(new, t, j, x, n) <=> RecordIs(l, t, j, x, n)
    BY <1>2, <1>5 DEF RecordIs
  <1>6. ASSUME Records(t, l) PROVE Records(t, new)
    <2> SUFFICES ASSUME NEW j \in ChangeTypes
                 PROVE  new[j] = Nil \/ \E x \in Event, n \in Ages : RecordIs(new, t, j, x, n)
      BY DEF Records
    <2>1. CASE j = k
      BY <1>4, <2>1, AgeBounds
    <2>2. CASE j # k
      BY <1>2, <1>5, <1>6, <2>2 DEF Records
    <2> QED
      BY <2>1, <2>2
  <1>7. \A x \in new[k] : x.age = 0
    BY <1>2, <1>3
  <1>8. \A j \in ChangeTypes : j # k =>
          /\ new[j] = l[j]
          /\ \A x, n : RecordIs(new, t, j, x, n) <=> RecordIs(l, t, j, x, n)
    BY <1>2, <1>5
  <1> QED
    BY <1>1, <1>2, <1>4, <1>6, <1>7, <1>8 DEF k, new

\* The memories know of the other kinds what they knew.
LEMMA PublishLeaves ==
    ASSUME NEW t, NEW l, DOMAIN l = ChangeTypes, NEW ev \in Event,
           NEW K, K \subseteq ChangeTypes, ev.type \notin K
    PROVE  /\ \A s : Knows(s, t, l, K) => Knows(s, t, Publish(l, t, ev), K)
           /\ \A c : CacheKnows(t, c, l, K) => CacheKnows(t, c, Publish(l, t, ev), K)
           /\ \A b : BucketKnows(t, b, l, K) => BucketKnows(t, b, Publish(l, t, ev), K)
  <1> DEFINE new == Publish(l, t, ev)
  <1>1. \A j \in K : /\ new[j] = l[j]
                     /\ \A x, n : RecordIs(new, t, j, x, n) <=> RecordIs(l, t, j, x, n)
    BY PublishRecords
  <1> HIDE DEF new
  <1>2. ASSUME NEW s, Knows(s, t, l, K) PROVE Knows(s, t, new, K)
    BY <1>1, <1>2 DEF Knows
  <1>3. ASSUME NEW c, CacheKnows(t, c, l, K) PROVE CacheKnows(t, c, new, K)
    BY <1>2, <1>3 DEF CacheKnows
  <1>4. ASSUME NEW b, BucketKnows(t, b, l, K) PROVE BucketKnows(t, b, new, K)
    <2>1. CASE b = Nil /\ \A k \in K : l[k] = Nil
      BY <1>1, <2>1 DEF BucketKnows
    <2>2. ASSUME NEW s \in ActorState, NEW n \in Ages, EntryKnows(t, b, l, s, n, K)
          PROVE  EntryKnows(t, b, new, s, n, K)
      <3>1. b = Some([data |-> toKv(s), age |-> n]) /\ Knows(s, t, l, K)
        BY <2>2 DEF EntryKnows
      <3>2. \A k \in K : \A r \in new[k] : n <= r.age
        BY <1>1, <2>2 DEF EntryKnows
      <3> QED
        BY <1>2, <3>1, <3>2 DEF EntryKnows
    <2> QED
      BY <1>4, <2>1, <2>2 DEF BucketKnows
  <1> QED
    BY <1>2, <1>3, <1>4 DEF new

\* A published event is recalled by the state that remembers it.
LEMMA PublishKnows ==
    ASSUME NEW t, NEW l, DOMAIN l = ChangeTypes, NEW s \in ActorState, NEW ev \in Event,
           NEW K, K \subseteq ChangeTypes, Knows(s, t, l, K)
    PROVE  /\ Remember(s, DomainEvent(t, ev)) \in ActorState
           /\ Knows(Remember(s, DomainEvent(t, ev)), t, Publish(l, t, ev), K \cup {ev.type})
  <1> DEFINE e == DomainEvent(t, ev)
             r == Remember(s, e)
             k == ev.type
             new == Publish(l, t, ev)
  <1>1. /\ RecordIs(new, t, k, ev, 0)
        /\ \A j \in ChangeTypes : j # k =>
             /\ new[j] = l[j]
             /\ \A x, n : RecordIs(new, t, j, x, n) <=> RecordIs(l, t, j, x, n)
    BY PublishRecords
  <1>2. /\ r \in ActorState /\ Has(r, k) /\ Recalls(r, ev)
        /\ \A j \in ChangeTypes \ {k} : Has(r, j) = Has(s, j)
        /\ \A x \in Event : x.type # k => (Recalls(r, x) <=> Recalls(s, x))
    BY RememberRecalls
  <1> HIDE DEF e, r, k, new
  <1>3. Knows(r, t, new, K \cup {k})
    <2> SUFFICES ASSUME NEW j \in K \cup {k}
                 PROVE  /\ Has(r, j) => \E x \in Event, n \in Ages :
                                          RecordIs(new, t, j, x, n) /\ Recalls(r, x)
                        /\ Live(new[j]) # {} => Has(r, j)
      BY DEF Knows
    <2>1. CASE j = k
      BY <1>1, <1>2, <2>1, AgeBounds
    <2>2. CASE j # k
      <3>0. j \in K /\ j \in ChangeTypes
        BY <2>2
      <3>1. Has(r, j) = Has(s, j) /\ new[j] = l[j]
        BY <1>1, <1>2, <2>2, <3>0
      <3>2. ASSUME Has(s, j)
            PROVE  \E x \in Event, n \in Ages : RecordIs(new, t, j, x, n) /\ Recalls(r, x)
        <4>1. PICK x \in Event, n \in Ages : RecordIs(l, t, j, x, n) /\ Recalls(s, x)
          BY <3>0, <3>2 DEF Knows
        <4>2. x.type # k
          BY <2>2, <4>1 DEF RecordIs
        <4>3. RecordIs(new, t, j, x, n) /\ Recalls(r, x)
          BY <1>1, <1>2, <2>2, <3>0, <4>1, <4>2
        <4> QED
          BY <4>3
      <3>3. Live(l[j]) # {} => Has(s, j)
        BY <3>0 DEF Knows
      <3> QED
        BY <3>1, <3>2, <3>3
    <2> QED
      BY <2>1, <2>2
  <1> QED
    BY <1>2, <1>3 DEF e, r, k, new

\* The memories once an event is published and remembered, and not yet put.
LEMMA PublishStore ==
    ASSUME NEW t, NEW c, NEW b, NEW l, NEW d \in Behind, StoreInv(t, c, b, l, d),
           DOMAIN l = ChangeTypes, NEW ev \in Event,
           NEW s \in ActorState, NEW late \in SUBSET ChangeTypes, Knows(s, t, l, Trusted(late)),
           NEW n, n.cache = late \ {ev.type}, n.kv = d.kv \cup {ev.type}
    PROVE  StoreInv(t, Some(Remember(s, DomainEvent(t, ev))), b, Publish(l, t, ev), n)
  <1> DEFINE m == Publish(l, t, ev)
             r == Remember(s, DomainEvent(t, ev))
             J == Trusted(n.kv)
  <1>1. /\ Records(t, l) /\ BucketKnows(t, b, l, Trusted(d.kv))
    BY DEF StoreInv
  <1>2. /\ ev.type \in ChangeTypes /\ J \subseteq Trusted(d.kv) /\ J \subseteq ChangeTypes
        /\ ev.type \notin J /\ Trusted(late) \subseteq ChangeTypes
        /\ Trusted(n.cache) \subseteq Trusted(late) \cup {ev.type}
    BY EventReads DEF Trusted
  <1> HIDE DEF m, r, J
  <1>3. r \in ActorState /\ Knows(r, t, m, Trusted(late) \cup {ev.type})
    BY <1>2, PublishKnows DEF m, r
  <1>4. Knows(r, t, m, Trusted(n.cache))
    BY <1>2, <1>3, KnowsLess
  <1>5. BucketKnows(t, b, l, J)
    BY <1>1, <1>2, KnowsLess
  <1>6. BucketKnows(t, b, m, J)
    BY <1>2, <1>5, PublishLeaves DEF m
  <1>7. Records(t, m)
    BY <1>1, PublishRecords DEF m
  <1>8. CacheKnows(t, Some(r), m, Trusted(n.cache))
    BY <1>3, <1>4 DEF CacheKnows
  <1>9. StoreInv(t, Some(r), b, m, n)
    BY <1>6, <1>7, <1>8 DEF StoreInv, J
  <1> QED
    BY <1>9 DEF m, r

\* The memories once an event is published of which neither is told.
LEMMA PublishUntold ==
    ASSUME NEW t, NEW c, NEW b, NEW l, NEW d \in Behind, StoreInv(t, c, b, l, d),
           DOMAIN l = ChangeTypes, NEW ev \in Event,
           NEW f, NEW late \in SUBSET ChangeTypes, CacheKnows(t, f, l, Trusted(late)),
           NEW n, n.cache = late \cup {ev.type}, n.kv = d.kv \cup {ev.type}
    PROVE  StoreInv(t, f, b, Publish(l, t, ev), n)
  <1> DEFINE m == Publish(l, t, ev)
             I == Trusted(n.cache)
             J == Trusted(n.kv)
  <1>1. Records(t, l) /\ BucketKnows(t, b, l, Trusted(d.kv))
    BY DEF StoreInv
  <1>2. /\ J \subseteq Trusted(d.kv) /\ J \subseteq ChangeTypes /\ ev.type \notin J
        /\ I \subseteq Trusted(late) /\ I \subseteq ChangeTypes /\ ev.type \notin I
    BY DEF Trusted
  <1> HIDE DEF m, I, J
  <1>3. BucketKnows(t, b, l, J) /\ CacheKnows(t, f, l, I)
    BY <1>1, <1>2, KnowsLess
  <1>4. BucketKnows(t, b, m, J) /\ CacheKnows(t, f, m, I)
    BY <1>2, <1>3, PublishLeaves DEF m
  <1>5. Records(t, m)
    BY <1>1, PublishRecords DEF m
  <1> QED
    BY <1>4, <1>5 DEF StoreInv, m, I, J

\* What was found may move into the cache.
LEMMA SuppressKnows ==
    ASSUME NEW t, NEW c, NEW b, NEW l, NEW d, StoreInv(t, c, b, l, d)
    PROVE  CacheKnows(t, Found(c, b), l, Trusted(DoubtOf(c, d)))
  BY FoundKnows DEF CacheKnows

\* The put makes the bucket know what the cache knows.
LEMMA PersistKnows ==
    ASSUME NEW t, NEW c, NEW b, NEW l, NEW d \in Behind, StoreInv(t, c, b, l, d), c # Nil,
           NEW n, n.cache = d.cache, n.kv = d.cache
    PROVE  StoreInv(t, c, {[data |-> toKv(s), age |-> 0] : s \in c}, l, n)
  <1> DEFINE K == Trusted(d.cache)
             new == {[data |-> toKv(x), age |-> 0] : x \in c}
  <1>1. Records(t, l) /\ CacheKnows(t, c, l, K) /\ K \subseteq ChangeTypes
    BY DEF StoreInv, Trusted
  <1>2. PICK s \in ActorState : c = Some(s) /\ Knows(s, t, l, K)
    BY <1>1 DEF CacheKnows
  <1>3. new = Some([data |-> toKv(s), age |-> 0])
    BY <1>2 DEF Some
  <1> HIDE DEF K, new
  <1>4. \A k \in K : \A r \in l[k] : 0 <= r.age
    <2> SUFFICES ASSUME NEW k \in K, NEW r \in l[k] PROVE 0 <= r.age
      OBVIOUS
    <2>1. PICK x \in Event, j \in Ages : RecordIs(l, t, k, x, j)
      BY <1>1 DEF Records, Nil
    <2>2. r.age = j
      BY <2>1 DEF RecordIs, Some
    <2> QED
      BY <2>2, AgeBounds
  <1>5. EntryKnows(t, new, l, s, 0, K)
    BY <1>2, <1>3, <1>4 DEF EntryKnows
  <1>6. BucketKnows(t, new, l, K)
    BY <1>5, AgeBounds DEF BucketKnows
  <1> QED
    BY <1>1, <1>6 DEF StoreInv, K, new

\* A record gets older by one, as long as it is seen.
LEMMA OlderOne ==
    ASSUME NEW d, NEW n \in Ages
    PROVE  \E m \in Ages :
             /\ Older(Some([data |-> d, age |-> n])) = Some([data |-> d, age |-> m])
             /\ m = (IF n > MaxAge THEN n ELSE n + 1)
  <1> DEFINE m == IF n > MaxAge THEN n ELSE n + 1
             r == [data |-> d, age |-> n]
  <1>1. m \in Ages
    BY AgeBounds DEF Ages
  <1>2. [r EXCEPT !.age = IF @ > MaxAge THEN @ ELSE @ + 1] = [data |-> d, age |-> m]
    OBVIOUS
  <1>3. Older(Some(r)) = {[r EXCEPT !.age = IF @ > MaxAge THEN @ ELSE @ + 1]}
    BY DEF Older, Some
  <1>4. Older(Some(r)) = Some([data |-> d, age |-> m])
    BY <1>2, <1>3 DEF Some
  <1> QED
    BY <1>1, <1>4

\* Time takes away what subscribers see and nothing else.
LEMMA OlderKnows ==
    ASSUME NEW t, NEW c, NEW b, NEW l, NEW d, StoreInv(t, c, b, l, d)
    PROVE  StoreInv(t, c, Older(b), [k \in ChangeTypes |-> Older(l[k])], d)
  <1> DEFINE new == [k \in ChangeTypes |-> Older(l[k])]
             later(n) == IF n > MaxAge THEN n ELSE n + 1
             J == Trusted(d.kv)
  <1>0. /\ Records(t, l) /\ CacheKnows(t, c, l, Trusted(d.cache)) /\ BucketKnows(t, b, l, J)
        /\ J \subseteq ChangeTypes /\ Trusted(d.cache) \subseteq ChangeTypes
    BY DEF StoreInv, Trusted
  <1>1. Older(Nil) = Nil
    BY DEF Older, Nil
  <1>2. \A n \in Ages : later(n) \in Ages /\ (later(n) <= MaxAge => n <= MaxAge)
    BY AgeBounds DEF Ages
  <1>3. \A m, n \in Ages : m <= n => later(m) <= later(n)
    BY AgeBounds
  <1>4. ASSUME NEW k \in ChangeTypes, NEW ev, NEW n \in Ages, RecordIs(l, t, k, ev, n)
        PROVE  RecordIs(new, t, k, ev, later(n))
    BY <1>4, OlderOne DEF RecordIs
  <1>5. \A k \in ChangeTypes : new[k] = Older(l[k])
    OBVIOUS
  <1> HIDE DEF new, later, J
  <1>6. Records(t, new)
    <2> SUFFICES ASSUME NEW k \in ChangeTypes
                 PROVE  new[k] = Nil \/ \E x \in Event, n \in Ages : RecordIs(new, t, k, x, n)
      BY DEF Records
    <2>1. CASE l[k] = Nil
      BY <1>1, <1>5, <2>1
    <2>2. ASSUME NEW x \in Event, NEW n \in Ages, RecordIs(l, t, k, x, n)
          PROVE  \E y \in Event, m \in Ages : RecordIs(new, t, k, y, m)
      <3>1. RecordIs(new, t, k, x, later(n)) /\ later(n) \in Ages
        BY <1>2, <1>4, <2>2
      <3> QED
        BY <3>1
    <2> QED
      BY <1>0, <2>1, <2>2 DEF Records
  <1>7. ASSUME NEW k \in ChangeTypes, Live(new[k]) # {} PROVE Live(l[k]) # {}
    <2>1. CASE l[k] = Nil
      BY <1>1, <1>5, <1>7, <2>1 DEF Live, Nil
    <2>2. ASSUME NEW x \in Event, NEW n \in Ages, RecordIs(l, t, k, x, n)
          PROVE  Live(l[k]) # {}
      <3> DEFINE w == marshal(DomainEvent(t, x))
      <3>1. new[k] = Some([data |-> w, age |-> later(n)]) /\ l[k] = Some([data |-> w, age |-> n])
        BY <1>4, <2>2 DEF RecordIs
      <3> HIDE DEF w
      <3>2. later(n) \in Nat /\ n \in Nat
        BY <1>2, AgeBounds
      <3>3. later(n) <= MaxAge
        BY <1>7, <3>1, <3>2, LiveOne DEF Nil
      <3>4. n <= MaxAge
        BY <1>2, <3>3
      <3>5. Live(l[k]) = Some([data |-> w, age |-> n])
        BY <3>1, <3>2, <3>4, LiveOne
      <3> QED
        BY <3>5 DEF Some
    <2> QED
      BY <1>0, <2>1, <2>2 DEF Records
  <1>8. ASSUME NEW K, K \subseteq ChangeTypes, NEW s \in ActorState, Knows(s, t, l, K)
        PROVE  Knows(s, t, new, K)
    <2> SUFFICES ASSUME NEW k \in K
                 PROVE  /\ Has(s, k) => \E x \in Event, n \in Ages :
                                          RecordIs(new, t, k, x, n) /\ Recalls(s, x)
                        /\ Live(new[k]) # {} => Has(s, k)
      BY DEF Knows
    <2>1. ASSUME Has(s, k)
          PROVE  \E x \in Event, n \in Ages : RecordIs(new, t, k, x, n) /\ Recalls(s, x)
      <3>1. PICK x \in Event, n \in Ages : RecordIs(l, t, k, x, n) /\ Recalls(s, x)
        BY <1>8, <2>1 DEF Knows
      <3>2. k \in ChangeTypes
        BY <1>8
      <3>3. RecordIs(new, t, k, x, later(n)) /\ later(n) \in Ages
        BY <1>2, <1>4, <3>1, <3>2
      <3> QED
        BY <3>1, <3>3
    <2>2. Live(new[k]) # {} => Has(s, k)
      BY <1>7, <1>8 DEF Knows
    <2> QED
      BY <2>1, <2>2
  <1>9. CacheKnows(t, c, new, Trusted(d.cache))
    BY <1>0, <1>8 DEF CacheKnows
  <1>10. BucketKnows(t, Older(b), new, J)
    <2>1. CASE b = Nil /\ \A k \in J : l[k] = Nil
      BY <1>0, <1>1, <1>5, <2>1 DEF BucketKnows
    <2>2. ASSUME NEW s \in ActorState, NEW n \in Ages, EntryKnows(t, b, l, s, n, J)
          PROVE  EntryKnows(t, Older(b), new, s, later(n), J) /\ later(n) \in Ages
      <3>1. Older(b) = Some([data |-> toKv(s), age |-> later(n)])
        BY <2>2, OlderOne DEF EntryKnows, later
      <3>2. Knows(s, t, new, J)
        BY <1>0, <1>8, <2>2 DEF EntryKnows
      <3>3. ASSUME NEW k \in J, NEW r \in new[k] PROVE later(n) <= r.age
        <4>1. l[k] # Nil /\ k \in ChangeTypes
          BY <1>0, <1>1, <1>5, <3>3 DEF Nil
        <4>2. PICK x \in Event, m \in Ages : RecordIs(l, t, k, x, m)
          BY <1>0, <4>1 DEF Records
        <4> DEFINE w == marshal(DomainEvent(t, x))
                   q == [data |-> w, age |-> m]
        <4>3. /\ q \in l[k] /\ q.age = m
          BY <4>2 DEF RecordIs, Some
        <4>4. n <= q.age
          BY <2>2, <4>3 DEF EntryKnows
        <4>5. r.age = later(m)
          BY <1>4, <3>3, <4>1, <4>2 DEF RecordIs, Some
        <4> HIDE DEF q
        <4> QED
          BY <1>3, <4>3, <4>4, <4>5
      <3> QED
        BY <1>2, <3>1, <3>2, <3>3 DEF EntryKnows
    <2> QED
      BY <1>0, <2>1, <2>2 DEF BucketKnows
  <1> QED
    BY <1>6, <1>9, <1>10 DEF StoreInv, new, J

-----------------------------------------------------------------------------
(* The invariant.  A subject is up to date when the last event of its type *)
(* on the way to the repository, or, with none on the way, its last        *)
(* record, says what the adapter last announced.                           *)

Says(ev, k, v) ==
    IF k = "ZONE" THEN ev.zones = v.zones /\ ev.movement = v.movement
                  ELSE ev.presence = v.presence

\* The events of t that can be in the channel.
OfTag(t) == {DomainEvent(t, ev) : ev \in Event}

\* x: the kinds in doubt, of which no record is claimed.
Announced(t, q, l, v, sp, x) ==
    \A k \in sp : \E i \in 0 .. Len(q), ev \in Event :
        /\ IsLast(q, k, i)
        /\ ev.type = k /\ Says(ev, k, v)
        /\ IF i = 0 THEN k \in x \/ \E n \in Ages : RecordIs(l, t, k, ev, n)
                    ELSE q[i] = DomainEvent(t, ev)

TagPipe(t, st, q, c, b, l, v, sp, d) ==
    /\ st \in tagState /\ v \in View /\ sp \subseteq ChangeTypes
    /\ TagInv(st, v, FALSE)
    /\ v.presence # "NONE" => "PRESENCE" \in sp
    /\ v.zones # {} => "ZONE" \in sp
    /\ q \in Seq(OfTag(t))
    /\ DOMAIN l = ChangeTypes /\ d \in Behind
    /\ StoreInv(t, c, b, l, d)
    /\ Announced(t, q, l, v, sp, DoubtOf(c, d))

\* f is a function on the tags.
Total(f) == f = [t \in Tags |-> f[t]]

\* What is yet to be put is in the cache.
PipeInv ==
    /\ Total(states) /\ Total(queue) /\ Total(cache) /\ Total(kv)
    /\ Total(last) /\ Total(view) /\ Total(spoke) /\ Total(behind)
    /\ \A t \in Tags : TagPipe(t, states[t], queue[t], cache[t], kv[t], last[t], view[t], spoke[t],
                               behind[t])
    /\ owed \in {{}} \cup {{t} : t \in Tags} /\ \A t \in owed : cache[t] # Nil
    /\ down \in BOOLEAN

-----------------------------------------------------------------------------
(* Events enter the channel.                                               *)

Sent(t, evs) == [i \in DOMAIN evs |-> DomainEvent(t, evs[i])]

\* The channel before and after.
LEMMA SentConcat ==
    ASSUME NEW t, NEW q \in Seq(OfTag(t)), NEW evs \in Seq(Event)
    PROVE  /\ q \o Sent(t, evs) \in Seq(OfTag(t))
           /\ Len(q) \in Nat /\ Len(evs) \in Nat
           /\ Len(q \o Sent(t, evs)) = Len(q) + Len(evs)
           /\ \A i \in 1 .. Len(q) : (q \o Sent(t, evs))[i] = q[i]
           /\ \A i \in 1 .. Len(evs) : (q \o Sent(t, evs))[Len(q) + i] = DomainEvent(t, evs[i])
           /\ \A i \in 1 .. Len(evs) : evs[i] \in Event
  <1> DEFINE D == OfTag(t)
             s == Sent(t, evs)
  <1>1. Len(evs) \in Nat /\ DOMAIN evs = 1 .. Len(evs) /\ \A i \in 1 .. Len(evs) : evs[i] \in Event
    OBVIOUS
  <1>2. s = [i \in 1 .. Len(evs) |-> DomainEvent(t, evs[i])]
    BY <1>1 DEF Sent
  <1>3. \A i \in 1 .. Len(evs) : DomainEvent(t, evs[i]) \in D
    BY <1>1 DEF OfTag
  <1> HIDE DEF D
  <1>4. s \in Seq(D) /\ Len(s) = Len(evs) /\ \A i \in 1 .. Len(evs) : s[i] = DomainEvent(t, evs[i])
    BY <1>1, <1>2, <1>3
  <1>5. q \in Seq(D)
    BY DEF D
  <1> HIDE DEF s
  <1>6. /\ q \o s \in Seq(D) /\ Len(q \o s) = Len(q) + Len(s)
        /\ \A i \in 1 .. Len(q) : (q \o s)[i] = q[i]
        /\ \A i \in 1 .. Len(s) : (q \o s)[Len(q) + i] = s[i]
        /\ Len(q) \in Nat
    BY <1>4, <1>5
  <1> QED
    BY <1>1, <1>4, <1>6 DEF s, D

\* Says, of the view after some events, in terms of their last one of a kind.
LEMMA ObserveSays ==
    ASSUME NEW v \in View, NEW evs, Readable(evs), NEW k \in ChangeTypes
    PROVE  \E m \in 0 .. Len(evs) :
             /\ IsLast(evs, k, m)
             /\ m # 0 => Says(evs[m], k, Observe(v, evs))
             /\ m = 0 => \A ev : Says(ev, k, Observe(v, evs)) <=> Says(ev, k, v)
  <1> DEFINE w == Observe(v, evs)
             p == LastIndex(evs, "PRESENCE")
             z == LastIndex(evs, "ZONE")
  <1>0. evs \in Seq(Event)
    BY DEF Readable
  <1>1. p \in 0 .. Len(evs) /\ IsLast(evs, "PRESENCE", p)
    BY <1>0, LastIndexIs DEF Readable
  <1>2. z \in 0 .. Len(evs) /\ IsLast(evs, "ZONE", z)
    BY <1>0, LastIndexIs DEF Readable
  <1>3. /\ w.presence = (IF p = 0 THEN v.presence ELSE evs[p].presence)
        /\ w.zones = (IF z = 0 THEN v.zones ELSE evs[z].zones)
        /\ w.movement = (IF z = 0 THEN v.movement ELSE evs[z].movement)
    BY DEF Observe
  <1> HIDE DEF w, p, z
  <1>4. CASE k = "PRESENCE"
    BY <1>1, <1>3, <1>4 DEF Says, w
  <1>5. CASE k = "ZONE"
    BY <1>2, <1>3, <1>5 DEF Says, w
  <1> QED
    BY <1>4, <1>5 DEF ChangeTypes

\* The last event of a type is in the channel, or else on the stream.
LEMMA SendAnnounced ==
    ASSUME NEW t, NEW q \in Seq(OfTag(t)), NEW l, NEW v \in View, NEW sp \in SUBSET ChangeTypes,
           NEW x, Announced(t, q, l, v, sp, x), NEW evs, Readable(evs)
    PROVE  Announced(t, q \o Sent(t, evs), l, Observe(v, evs), sp \cup TypesOf(evs), x)
  <1> DEFINE new == q \o Sent(t, evs)
             w == Observe(v, evs)
  <1>0. evs \in Seq(Event) /\ DOMAIN evs = 1 .. Len(evs)
    BY DEF Readable
  <1>1. /\ Len(q) \in Nat /\ Len(evs) \in Nat /\ Len(new) = Len(q) + Len(evs)
        /\ \A i \in 1 .. Len(q) : new[i] = q[i]
        /\ \A i \in 1 .. Len(evs) : new[Len(q) + i] = DomainEvent(t, evs[i])
        /\ \A i \in 1 .. Len(evs) : evs[i] \in Event
    BY <1>0, SentConcat
  <1>2. \A i \in 1 .. Len(evs) : new[Len(q) + i].type = evs[i].type /\ evs[i].type \in ChangeTypes
    BY <1>1, EventReads
  <1>3. TypesOf(evs) = {evs[i].type : i \in 1 .. Len(evs)}
    BY <1>0 DEF TypesOf
  <1>4. \A j \in 1 .. Len(new) : j \in 1 .. Len(q) \/ \E i \in 1 .. Len(evs) : j = Len(q) + i
    <2> SUFFICES ASSUME NEW j \in 1 .. Len(new), j \notin 1 .. Len(q)
                 PROVE  j - Len(q) \in 1 .. Len(evs) /\ j = Len(q) + (j - Len(q))
      OBVIOUS
    <2> HIDE DEF new
    <2> QED
      BY <1>1
  <1> HIDE DEF new, w
  <1> SUFFICES ASSUME NEW k \in sp \cup TypesOf(evs)
               PROVE  \E i \in 0 .. Len(new), ev \in Event :
                        /\ IsLast(new, k, i)
                        /\ ev.type = k /\ Says(ev, k, w)
                        /\ IF i = 0 THEN k \in x \/ \E n \in Ages : RecordIs(l, t, k, ev, n)
                                    ELSE new[i] = DomainEvent(t, ev)
    BY DEF Announced, new, w
  <1>5. k \in ChangeTypes
    BY <1>2, <1>3
  <1>6. PICK m \in 0 .. Len(evs) :
          /\ IsLast(evs, k, m)
          /\ m # 0 => Says(evs[m], k, w)
          /\ m = 0 => \A ev : Says(ev, k, w) <=> Says(ev, k, v)
    BY <1>5, ObserveSays DEF w
  <1>7. CASE m = 0
    <2>1. \A i \in 1 .. Len(evs) : evs[i].type # k
      BY <1>1, <1>6, <1>7 DEF IsLast
    <2>2. k \in sp
      BY <1>3, <2>1
    <2>3. PICK i \in 0 .. Len(q), ev \in Event :
            /\ IsLast(q, k, i)
            /\ ev.type = k /\ Says(ev, k, v)
            /\ IF i = 0 THEN k \in x \/ \E n \in Ages : RecordIs(l, t, k, ev, n)
                        ELSE q[i] = DomainEvent(t, ev)
      BY <2>2 DEF Announced
    <2>4. IsLast(new, k, i)
      <3>1. i > 0 => new[i].type = k
        BY <1>1, <2>3 DEF IsLast
      <3>2. ASSUME NEW j \in 1 .. Len(new), j > i PROVE new[j].type # k
        <4>1. CASE j \in 1 .. Len(q)
          BY <1>1, <2>3, <3>2, <4>1 DEF IsLast
        <4>2. CASE \E n \in 1 .. Len(evs) : j = Len(q) + n
          BY <1>2, <2>1, <4>2
        <4> QED
          BY <1>4, <4>1, <4>2
      <3> QED
        BY <3>1, <3>2 DEF IsLast
    <2>5. i \in 0 .. Len(new) /\ (i # 0 => new[i] = q[i])
      BY <1>1
    <2>6. Says(ev, k, w)
      BY <1>6, <1>7, <2>3
    <2> QED
      BY <2>3, <2>4, <2>5, <2>6
  <1>8. CASE m # 0
    <2> DEFINE i == Len(q) + m
    <2>1. m \in 1 .. Len(evs)
      BY <1>1, <1>8
    <2>2. i \in 0 .. Len(new) /\ i # 0 /\ new[i] = DomainEvent(t, evs[m]) /\ evs[m] \in Event
      BY <1>1, <2>1
    <2>3. evs[m].type = k
      BY <1>6, <2>1 DEF IsLast
    <2>4. IsLast(new, k, i)
      <3>1. new[i].type = k
        BY <1>2, <2>1, <2>3
      <3>2. ASSUME NEW j \in 1 .. Len(new), j > i PROVE new[j].type # k
        <4>1. j \notin 1 .. Len(q)
          BY <1>1, <2>1, <3>2
        <4>2. PICK n \in 1 .. Len(evs) : j = Len(q) + n
          BY <1>4, <4>1
        <4>3. n > m
          BY <1>1, <2>1, <3>2, <4>2
        <4>4. evs[n].type # k
          BY <1>6, <4>3 DEF IsLast
        <4> QED
          BY <1>2, <4>2, <4>4
      <3> HIDE DEF i
      <3> QED
        BY <3>1, <3>2 DEF IsLast
    <2> HIDE DEF i
    <2> QED
      BY <1>6, <1>8, <2>2, <2>3, <2>4
  <1> QED
    BY <1>7, <1>8

\* An event is derived with the tag state that goes with it.
LEMMA SendKeeps ==
    ASSUME NEW t, NEW st, NEW q, NEW c, NEW b, NEW l, NEW v, NEW sp, NEW d,
           TagPipe(t, st, q, c, b, l, v, sp, d),
           NEW new \in tagState, NEW evs, Readable(evs), Observe(v, evs) \in View,
           TagInv(new, Observe(v, evs), FALSE)
    PROVE  TagPipe(t, new, q \o Sent(t, evs), c, b, l, Observe(v, evs), sp \cup TypesOf(evs), d)
  <1> DEFINE w == Observe(v, evs)
             s == sp \cup TypesOf(evs)
  <1>1. /\ v \in View /\ sp \subseteq ChangeTypes /\ q \in Seq(OfTag(t))
        /\ v.presence # "NONE" => "PRESENCE" \in sp
        /\ v.zones # {} => "ZONE" \in sp
        /\ DOMAIN l = ChangeTypes /\ d \in Behind /\ StoreInv(t, c, b, l, d)
        /\ Announced(t, q, l, v, sp, DoubtOf(c, d))
    BY DEF TagPipe
  <1>2. evs \in Seq(Event) /\ DOMAIN evs = 1 .. Len(evs)
    BY DEF Readable
  <1>3. q \o Sent(t, evs) \in Seq(OfTag(t)) /\ \A i \in 1 .. Len(evs) : evs[i] \in Event
    BY <1>1, <1>2, SentConcat
  <1>4. TypesOf(evs) \subseteq ChangeTypes
    BY <1>2, <1>3, EventReads DEF TypesOf
  <1>5. Announced(t, q \o Sent(t, evs), l, w, s, DoubtOf(c, d))
    BY <1>1, SendAnnounced
  <1>6. ASSUME NEW k \in ChangeTypes, k \notin s
        PROVE  k \notin sp /\ \A ev : Says(ev, k, w) <=> Says(ev, k, v)
    <2>1. \A i \in 1 .. Len(evs) : evs[i].type # k
      BY <1>2, <1>6 DEF TypesOf
    <2>2. PICK m \in 0 .. Len(evs) :
            /\ IsLast(evs, k, m)
            /\ m = 0 => \A ev : Says(ev, k, w) <=> Says(ev, k, v)
      BY <1>1, ObserveSays
    <2>3. m = 0
      BY <1>2, <2>1, <2>2 DEF IsLast
    <2> QED
      BY <1>6, <2>2, <2>3
  <1> HIDE DEF w, s
  <1>7. w.presence # "NONE" => "PRESENCE" \in s
    <2> SUFFICES ASSUME "PRESENCE" \notin s PROVE w.presence = "NONE"
      OBVIOUS
    <2>1. v.presence = "NONE" /\ \A ev : Says(ev, "PRESENCE", w) <=> Says(ev, "PRESENCE", v)
      BY <1>1, <1>6 DEF ChangeTypes
    <2>2. Says([presence |-> "NONE"], "PRESENCE", v)
      BY <2>1 DEF Says
    <2>3. Says([presence |-> "NONE"], "PRESENCE", w)
      BY <2>1, <2>2
    <2> QED
      BY <2>3 DEF Says
  <1>8. w.zones # {} => "ZONE" \in s
    <2> SUFFICES ASSUME "ZONE" \notin s PROVE w.zones = {}
      OBVIOUS
    <2>1. v.zones = {} /\ \A ev : Says(ev, "ZONE", w) <=> Says(ev, "ZONE", v)
      BY <1>1, <1>6 DEF ChangeTypes
    <2>2. Says([zones |-> v.zones, movement |-> v.movement], "ZONE", v)
      BY <2>1 DEF Says
    <2>3. Says([zones |-> v.zones, movement |-> v.movement], "ZONE", w)
      BY <2>1, <2>2
    <2> QED
      BY <2>1, <2>3 DEF Says
  <1>9. w \in View /\ TagInv(new, w, FALSE) /\ s \subseteq ChangeTypes
    BY <1>1, <1>4 DEF w, s
  <1> QED
    BY <1>1, <1>3, <1>5, <1>7, <1>8, <1>9 DEF TagPipe, w, s

\* A tag of which no event is sent.
LEMMA SilentKeeps ==
    ASSUME NEW t, NEW st, NEW q, NEW c, NEW b, NEW l, NEW v, NEW sp, NEW d,
           TagPipe(t, st, q, c, b, l, v, sp, d)
    PROVE  TagPipe(t, st, q \o Sent(t, <<>>), c, b, l, Observe(v, <<>>), sp \cup TypesOf(<<>>), d)
  <1>1. v \in View /\ st \in tagState /\ TagInv(st, v, FALSE)
    BY DEF TagPipe
  <1>2. Readable(<<>>) /\ Observe(v, <<>>) = v
    BY <1>1, ObserveEmpty
  <1> QED
    BY <1>1, <1>2, SendKeeps

\* A datagram of the tag.
LEMMA DatagramKeeps ==
    ASSUME NEW t, NEW st, NEW q, NEW c, NEW b, NEW l, NEW v, NEW sp, NEW d,
           TagPipe(t, st, q, c, b, l, v, sp, d), NEW msg \in Datagram
    PROVE  TagPipe(t, nextTagState(st, msg), q \o Sent(t, deriveEvents(st, msg)), c, b, l,
                   Observe(v, deriveEvents(st, msg)), sp \cup TypesOf(deriveEvents(st, msg)), d)
  <1> DEFINE evs == deriveEvents(st, msg)
             new == nextTagState(st, msg)
             w == Observe(v, evs)
             fix == FALSE \/ isLocationType(msg.type)
  <1>1. v \in View /\ st \in tagState /\ TagInv(st, v, FALSE)
    BY DEF TagPipe
  <1>2. Readable(evs) /\ w \in View
    BY <1>1, DeriveView
  <1>3. new \in tagState
    BY <1>1, NextTagStateType
  <1>4. TagInv(new, w, fix)
    BY <1>1, DatagramKeepsTagInv
  <1> HIDE DEF evs, new, w, fix
  <1>5. TagInv(new, w, FALSE)
    BY <1>4 DEF TagInv
  <1> QED
    BY <1>2, <1>3, <1>5, SendKeeps DEF evs, new, w

\* A sweep.
LEMMA WatchdogKeeps ==
    ASSUME NEW t, NEW st, NEW q, NEW c, NEW b, NEW l, NEW v, NEW sp, NEW d,
           TagPipe(t, st, q, c, b, l, v, sp, d)
    PROVE  TagPipe(t, watchdogState(st), q \o Sent(t, watchdogEvents(st)), c, b, l,
                   Observe(v, watchdogEvents(st)), sp \cup TypesOf(watchdogEvents(st)), d)
  <1>1. v \in View /\ st \in tagState /\ TagInv(st, v, FALSE)
    BY DEF TagPipe
  <1>2. /\ watchdogState(st) \in tagState /\ Readable(watchdogEvents(st))
        /\ Observe(v, watchdogEvents(st)) \in View
        /\ TagInv(watchdogState(st), Observe(v, watchdogEvents(st)), FALSE)
    BY <1>1, WatchdogKeepsTagInv
  <1> QED
    BY <1>2, SendKeeps

\* A unit of time.
LEMMA ElapseKeeps ==
    ASSUME NEW t, NEW st, NEW q, NEW c, NEW b, NEW l, NEW v, NEW sp, NEW d,
           TagPipe(t, st, q, c, b, l, v, sp, d)
    PROVE  TagPipe(t, Elapse(st), q, c, b, l, v, sp, d)
  <1>1. v \in View /\ st \in tagState /\ TagInv(st, v, FALSE)
    BY DEF TagPipe
  <1>2. Elapse(st) \in tagState /\ TagInv(Elapse(st), v, FALSE)
    BY <1>1, ElapseKeepsTagInv
  <1> QED
    BY <1>2 DEF TagPipe

-----------------------------------------------------------------------------
(* The emit goroutine takes an event out.                                  *)

\* The first event is taken out, and the others move up.
LEMMA TakeFirst ==
    ASSUME NEW S, NEW q \in Seq(S), q # <<>>
    PROVE  /\ Head(q) = q[1] /\ q[1] \in S
           /\ Tail(q) \in Seq(S) /\ Len(q) \in Nat \ {0} /\ Len(Tail(q)) = Len(q) - 1
           /\ \A i \in 1 .. Len(q) - 1 : Tail(q)[i] = q[i + 1]
  OBVIOUS

\* The event that is taken leaves its subject with a record that says the same,
\* its own or the one because of which it was suppressed, or in doubt; the other
\* subject is left alone.
LEMMA TakeAnnounced ==
    ASSUME NEW t, NEW q \in Seq(OfTag(t)), q # <<>>, NEW l, NEW m, NEW v,
           NEW sp \in SUBSET ChangeTypes, NEW x, NEW y, Announced(t, q, l, v, sp, x),
           NEW ev \in Event, Head(q) = DomainEvent(t, ev),
           \A k \in ChangeTypes : k # ev.type => m[k] = l[k] /\ (k \in x => k \in y),
           \/ ev.type \in y
           \/ \E z \in Event, n \in Ages : RecordIs(m, t, ev.type, z, n) /\ Same(ev, z)
    PROVE  Announced(t, Tail(q), m, v, sp, y)
  <1> DEFINE r == Tail(q)
  <1>1. /\ q[1] = DomainEvent(t, ev) /\ Len(q) \in Nat \ {0} /\ Len(r) = Len(q) - 1
        /\ \A i \in 1 .. Len(q) - 1 : r[i] = q[i + 1]
    BY TakeFirst
  <1>2. q[1].type = ev.type /\ ev.type \in ChangeTypes
    BY <1>1, EventReads
  <1> HIDE DEF r
  <1> SUFFICES ASSUME NEW k \in sp
               PROVE  \E i \in 0 .. Len(r), z \in Event :
                        /\ IsLast(r, k, i)
                        /\ z.type = k /\ Says(z, k, v)
                        /\ IF i = 0 THEN k \in y \/ \E n \in Ages : RecordIs(m, t, k, z, n)
                                    ELSE r[i] = DomainEvent(t, z)
    BY DEF Announced, r
  <1>3. PICK i \in 0 .. Len(q), w \in Event :
          /\ IsLast(q, k, i)
          /\ w.type = k /\ Says(w, k, v)
          /\ IF i = 0 THEN k \in x \/ \E n \in Ages : RecordIs(l, t, k, w, n)
                      ELSE q[i] = DomainEvent(t, w)
    BY DEF Announced
  <1>4. \A j \in 1 .. Len(r) : r[j] = q[j + 1] /\ j + 1 \in 1 .. Len(q)
    BY <1>1
  <1>5. CASE i = 0
    <2>1. IsLast(r, k, 0)
      BY <1>3, <1>4, <1>5 DEF IsLast
    <2>2. k # ev.type
      BY <1>1, <1>2, <1>3, <1>5 DEF IsLast
    <2>3. k \in x \/ \E n \in Ages : RecordIs(l, t, k, w, n)
      BY <1>3, <1>5
    <2>4. k \in y \/ \E n \in Ages : RecordIs(m, t, k, w, n)
      BY <2>2, <2>3 DEF RecordIs
    <2>5. 0 \in 0 .. Len(r)
      BY <1>1
    <2> QED
      BY <1>3, <2>1, <2>4, <2>5
  <1>6. CASE i = 1
    <2>1. IsLast(r, k, 0)
      BY <1>3, <1>4, <1>6 DEF IsLast
    <2>2. DomainEvent(t, w) = DomainEvent(t, ev)
      BY <1>1, <1>3, <1>6
    <2>3. /\ w.type = ev.type /\ w.zones = ev.zones /\ w.movement = ev.movement
          /\ w.presence = ev.presence
      BY <2>2, EventReads
    <2>4. 0 \in 0 .. Len(r)
      BY <1>1
    <2>5. CASE ev.type \in y
      BY <1>3, <2>1, <2>3, <2>4, <2>5
    <2>6. ASSUME NEW z \in Event, NEW n \in Ages, RecordIs(m, t, ev.type, z, n), Same(ev, z)
          PROVE  z.type = k /\ Says(z, k, v) /\ RecordIs(m, t, k, z, n)
      BY <1>3, <2>3, <2>6 DEF Same, Says, RecordIs
    <2> QED
      BY <2>1, <2>4, <2>5, <2>6
  <1>7. CASE i > 1
    <2>1. i - 1 \in 1 .. Len(r) /\ i - 1 \in 0 .. Len(r) /\ i - 1 # 0 /\ (i - 1) + 1 = i
      BY <1>1, <1>7
    <2>2. r[i - 1] = q[i] /\ q[i] = DomainEvent(t, w)
      BY <1>3, <1>4, <1>7, <2>1
    <2>3. IsLast(r, k, i - 1)
      <3>1. q[i].type = k
        BY <1>3, <1>7 DEF IsLast
      <3>2. ASSUME NEW j \in 1 .. Len(r), j > i - 1 PROVE r[j].type # k
        BY <1>3, <1>4, <3>2 DEF IsLast
      <3> QED
        BY <2>2, <3>1, <3>2 DEF IsLast
    <2> QED
      BY <1>3, <2>1, <2>2, <2>3
  <1> QED
    BY <1>1, <1>5, <1>6, <1>7

\* Every record has an age.
LEMMA RecordAges ==
    ASSUME NEW t, NEW l, Records(t, l)
    PROVE  \A k \in ChangeTypes : \A x \in l[k] : x.age \in Ages
  BY DEF Records, RecordIs, Some, Nil

\* The event is published and remembered by the state s, that was found or taken
\* for want of one, and knows what is not in `late'.
LEMMA PublishKeeps ==
    ASSUME NEW t, NEW st, NEW q, NEW c, NEW b, NEW l, NEW v, NEW sp, NEW d,
           TagPipe(t, st, q, c, b, l, v, sp, d), q # <<>>,
           NEW ev \in Event, Head(q) = DomainEvent(t, ev),
           NEW s \in ActorState, NEW late \in SUBSET ChangeTypes, Knows(s, t, l, Trusted(late)),
           DoubtOf(c, d) \subseteq late,
           NEW n, n \in Behind, n.cache = late \ {ev.type}, n.kv = d.kv \cup {ev.type}
    PROVE  TagPipe(t, st, Tail(q), Some(Remember(s, Head(q))), b, Publish(l, t, ev), v, sp, n)
  <1> DEFINE m == Publish(l, t, ev)
             r == Some(Remember(s, Head(q)))
             x == DoubtOf(c, d)
  <1>1. /\ q \in Seq(OfTag(t)) /\ DOMAIN l = ChangeTypes /\ d \in Behind /\ StoreInv(t, c, b, l, d)
        /\ Announced(t, q, l, v, sp, x) /\ sp \in SUBSET ChangeTypes
    BY DEF TagPipe
  <1>2. StoreInv(t, r, b, m, n)
    BY <1>1, PublishStore
  <1>3. /\ DOMAIN m = ChangeTypes /\ RecordIs(m, t, ev.type, ev, 0) /\ Same(ev, ev) /\ 0 \in Ages
        /\ \A k \in ChangeTypes : k # ev.type => m[k] = l[k]
    BY <1>1, PublishRecords, AgeBounds DEF Same
  <1>4. DoubtOf(r, n) = late \ {ev.type}
    BY DEF DoubtOf, Some, Nil
  <1>5. Tail(q) \in Seq(OfTag(t))
    BY <1>1, TakeFirst
  <1> HIDE DEF m, r, x
  <1>6. \A k \in ChangeTypes : k # ev.type => m[k] = l[k] /\ (k \in x => k \in DoubtOf(r, n))
    BY <1>3, <1>4 DEF x
  <1>7. Announced(t, Tail(q), m, v, sp, DoubtOf(r, n))
    BY <1>1, <1>3, <1>6, TakeAnnounced
  <1> QED
    BY <1>2, <1>3, <1>5, <1>7 DEF TagPipe, m, r

\* Write suppresses the event.
LEMMA SuppressKeeps ==
    ASSUME NEW t, NEW st, NEW q, NEW c, NEW b, NEW l, NEW v, NEW sp, NEW d,
           TagPipe(t, st, q, c, b, l, v, sp, d), q # <<>>,
           NEW ev \in Event, Head(q) = DomainEvent(t, ev),
           Recalls(OrZero(Found(c, b), ZeroActorState), ev),
           NEW n, n \in Behind, n.cache = DoubtOf(c, d), n.kv = d.kv
    PROVE  TagPipe(t, st, Tail(q), Found(c, b), b, l, v, sp, n)
  <1> DEFINE s == OrZero(Found(c, b), ZeroActorState)
             x == DoubtOf(c, d)
  <1>1. /\ q \in Seq(OfTag(t)) /\ StoreInv(t, c, b, l, d)
        /\ Announced(t, q, l, v, sp, x) /\ sp \in SUBSET ChangeTypes
    BY DEF TagPipe
  <1>2. s \in ActorState /\ Knows(s, t, l, Trusted(x)) /\ Recalls(s, ev)
    BY <1>1, FoundKnows
  <1>3. DoubtOf(Found(c, b), n) = x
    BY FoundDoubt
  <1>4. StoreInv(t, Found(c, b), b, l, n)
    BY <1>1, SuppressKnows DEF StoreInv
  <1> HIDE DEF s, x
  <1>5. Has(s, ev.type) /\ ev.type \in ChangeTypes
    BY <1>2, RecallsSame, EventReads
  <1>6. \/ ev.type \in x
        \/ \E z \in Event, j \in Ages : RecordIs(l, t, ev.type, z, j) /\ Same(ev, z)
    <2> SUFFICES ASSUME ev.type \notin x
                 PROVE  \E z \in Event, j \in Ages : RecordIs(l, t, ev.type, z, j) /\ Same(ev, z)
      OBVIOUS
    <2>1. ev.type \in Trusted(x)
      BY <1>5 DEF Trusted
    <2>2. PICK z \in Event, j \in Ages : RecordIs(l, t, ev.type, z, j) /\ Recalls(s, z)
      BY <1>2, <1>5, <2>1 DEF Knows
    <2>3. Same(ev, z)
      BY <1>2, <2>2, RecallsSame DEF RecordIs
    <2> QED
      BY <2>2, <2>3
  <1>7. Announced(t, Tail(q), l, v, sp, x)
    BY <1>1, <1>6, TakeAnnounced
  <1>8. Tail(q) \in Seq(OfTag(t))
    BY <1>1, TakeFirst
  <1> QED
    BY <1>3, <1>4, <1>7, <1>8 DEF TagPipe

\* Write fails before the change is on the stream: what is found, or nothing, is
\* in the cache.
LEMMA FailKeeps ==
    ASSUME NEW t, NEW st, NEW q, NEW c, NEW b, NEW l, NEW v, NEW sp, NEW d,
           TagPipe(t, st, q, c, b, l, v, sp, d),
           NEW f, NEW late \in SUBSET ChangeTypes, CacheKnows(t, f, l, Trusted(late)),
           NEW n, n \in Behind, n.cache = late, n.kv = d.kv, DoubtOf(f, n) = DoubtOf(c, d)
    PROVE  TagPipe(t, st, q, f, b, l, v, sp, n)
  <1>1. StoreInv(t, c, b, l, d)
    BY DEF TagPipe
  <1>2. StoreInv(t, f, b, l, n)
    BY <1>1 DEF StoreInv
  <1> QED
    BY <1>2 DEF TagPipe

\* Write fails, but the change is on the stream: its event is still in the hands
\* of the emit goroutine.
LEMMA FailOnStreamKeeps ==
    ASSUME NEW t, NEW st, NEW q, NEW c, NEW b, NEW l, NEW v, NEW sp, NEW d,
           TagPipe(t, st, q, c, b, l, v, sp, d), q # <<>>,
           NEW ev \in Event, Head(q) = DomainEvent(t, ev),
           NEW f, NEW late \in SUBSET ChangeTypes, CacheKnows(t, f, l, Trusted(late)),
           NEW n, n \in Behind, n.cache = late \cup {ev.type}, n.kv = d.kv \cup {ev.type},
           DoubtOf(c, d) \subseteq DoubtOf(f, n)
    PROVE  TagPipe(t, st, q, f, b, Publish(l, t, ev), v, sp, n)
  <1> DEFINE m == Publish(l, t, ev)
             x == DoubtOf(c, d)
             y == DoubtOf(f, n)
  <1>1. /\ q \in Seq(OfTag(t)) /\ DOMAIN l = ChangeTypes /\ d \in Behind /\ StoreInv(t, c, b, l, d)
        /\ Announced(t, q, l, v, sp, x) /\ sp \in SUBSET ChangeTypes
    BY DEF TagPipe
  <1>2. StoreInv(t, f, b, m, n)
    BY <1>1, PublishUntold
  <1>3. /\ DOMAIN m = ChangeTypes
        /\ \A k \in ChangeTypes : k # ev.type => \A z, j : RecordIs(l, t, k, z, j) => RecordIs(m, t, k, z, j)
    BY <1>1, PublishRecords
  <1>4. q[1].type = ev.type /\ Len(q) \in Nat \ {0}
    BY <1>1, TakeFirst, EventReads
  <1> HIDE DEF m, x, y
  <1>5. Announced(t, q, m, v, sp, y)
    <2> SUFFICES ASSUME NEW k \in sp
                 PROVE  \E i \in 0 .. Len(q), z \in Event :
                          /\ IsLast(q, k, i)
                          /\ z.type = k /\ Says(z, k, v)
                          /\ IF i = 0 THEN k \in y \/ \E j \in Ages : RecordIs(m, t, k, z, j)
                                      ELSE q[i] = DomainEvent(t, z)
      BY DEF Announced
    <2>1. PICK i \in 0 .. Len(q), z \in Event :
            /\ IsLast(q, k, i)
            /\ z.type = k /\ Says(z, k, v)
            /\ IF i = 0 THEN k \in x \/ \E j \in Ages : RecordIs(l, t, k, z, j)
                        ELSE q[i] = DomainEvent(t, z)
      BY <1>1 DEF Announced
    <2>2. CASE i = 0
      <3>1. k # ev.type
        BY <1>4, <2>1, <2>2 DEF IsLast
      <3>2. k \in y \/ \E j \in Ages : RecordIs(m, t, k, z, j)
        BY <1>1, <1>3, <2>1, <2>2, <3>1 DEF x, y
      <3> QED
        BY <2>1, <2>2, <3>2
    <2>3. CASE i # 0
      BY <2>1, <2>3
    <2> QED
      BY <2>2, <2>3
  <1> QED
    BY <1>2, <1>3, <1>5 DEF TagPipe, m, y

\* The bucket is given what is in the cache.
LEMMA PersistKeeps ==
    ASSUME NEW t, NEW st, NEW q, NEW c, NEW b, NEW l, NEW v, NEW sp, NEW d,
           TagPipe(t, st, q, c, b, l, v, sp, d), c # Nil,
           NEW n, n \in Behind, n.cache = d.cache, n.kv = d.cache
    PROVE  TagPipe(t, st, q, c, {[data |-> toKv(s), age |-> 0] : s \in c}, l, v, sp, n)
  <1>1. StoreInv(t, c, b, l, d) /\ d \in Behind
    BY DEF TagPipe
  <1>2. StoreInv(t, c, {[data |-> toKv(s), age |-> 0] : s \in c}, l, n)
    BY <1>1, PersistKnows
  <1>3. DoubtOf(c, n) = DoubtOf(c, d)
    BY DEF DoubtOf
  <1> QED
    BY <1>2, <1>3 DEF TagPipe

\* A start of the process: what is on the stream and in the bucket is still
\* known.
LEMMA FreshKeeps ==
    ASSUME NEW t, NEW c, NEW b, NEW l, NEW d, DOMAIN l = ChangeTypes, StoreInv(t, c, b, l, d),
           NEW n, n \in Behind, n.kv = d.kv
    PROVE  TagPipe(t, ZeroTagState, <<>>, Nil, b, l, NoView, {}, n)
  <1>1. ZeroTagState \in tagState /\ NoView \in View /\ TagInv(ZeroTagState, NoView, FALSE)
    BY ZeroTagInv
  <1>2. NoView.presence = "NONE" /\ NoView.zones = {}
    BY DEF NoView
  <1>3. StoreInv(t, Nil, b, l, n)
    BY DEF StoreInv, CacheKnows
  <1>4. Announced(t, <<>>, l, NoView, {}, DoubtOf(Nil, n))
    BY DEF Announced
  <1>5. <<>> \in Seq(OfTag(t)) /\ {} \subseteq ChangeTypes
    OBVIOUS
  <1> QED
    BY <1>1, <1>2, <1>3, <1>4, <1>5 DEF TagPipe

\* A unit of age.
LEMMA OlderKeeps ==
    ASSUME NEW t, NEW st, NEW q, NEW c, NEW b, NEW l, NEW v, NEW sp, NEW d,
           TagPipe(t, st, q, c, b, l, v, sp, d)
    PROVE  TagPipe(t, st, q, c, Older(b), [k \in ChangeTypes |-> Older(l[k])], v, sp, d)
  <1> DEFINE m == [k \in ChangeTypes |-> Older(l[k])]
             x == DoubtOf(c, d)
  <1>1. StoreInv(t, c, b, l, d) /\ Announced(t, q, l, v, sp, x) /\ sp \subseteq ChangeTypes
    BY DEF TagPipe
  <1>2. StoreInv(t, c, Older(b), m, d) /\ DOMAIN m = ChangeTypes
    BY <1>1, OlderKnows
  <1>3. ASSUME NEW k \in sp, NEW ev \in Event, NEW n \in Ages, RecordIs(l, t, k, ev, n)
        PROVE  \E j \in Ages : RecordIs(m, t, k, ev, j)
    BY <1>1, <1>3, OlderOne DEF RecordIs
  <1> HIDE DEF m, x
  <1>4. Announced(t, q, m, v, sp, x)
    <2> SUFFICES ASSUME NEW k \in sp
                 PROVE  \E i \in 0 .. Len(q), ev \in Event :
                          /\ IsLast(q, k, i)
                          /\ ev.type = k /\ Says(ev, k, v)
                          /\ IF i = 0 THEN k \in x \/ \E n \in Ages : RecordIs(m, t, k, ev, n)
                                      ELSE q[i] = DomainEvent(t, ev)
      BY DEF Announced
    <2>1. PICK i \in 0 .. Len(q), ev \in Event :
            /\ IsLast(q, k, i)
            /\ ev.type = k /\ Says(ev, k, v)
            /\ IF i = 0 THEN k \in x \/ \E n \in Ages : RecordIs(l, t, k, ev, n)
                        ELSE q[i] = DomainEvent(t, ev)
      BY <1>1 DEF Announced
    <2> QED
      BY <1>3, <2>1
  <1> QED
    BY <1>2, <1>4 DEF TagPipe, m, x

-----------------------------------------------------------------------------
(* The steps of the pipeline.                                              *)

\* A new deployment.
LEMMA PipeInitInv == PipeInit => PipeInv
  <1> SUFFICES ASSUME PipeInit PROVE PipeInv
    OBVIOUS
  <1>1. /\ states = [t \in Tags |-> ZeroTagState] /\ queue = [t \in Tags |-> <<>>]
        /\ cache = [t \in Tags |-> Nil] /\ view = [t \in Tags |-> NoView]
        /\ spoke = [t \in Tags |-> {}] /\ kv = [t \in Tags |-> Nil]
        /\ last = [t \in Tags |-> [k \in ChangeTypes |-> Nil]]
        /\ behind = [t \in Tags |-> UpToDate] /\ owed = {} /\ down = FALSE
    BY DEF PipeInit, Fresh
  <1>2. ASSUME NEW t \in Tags
        PROVE  TagPipe(t, states[t], queue[t], cache[t], kv[t], last[t], view[t], spoke[t], behind[t])
    <2> DEFINE l == [k \in ChangeTypes |-> Nil]
    <2>1. DOMAIN l = ChangeTypes /\ \A k \in ChangeTypes : l[k] = Nil
      OBVIOUS
    <2>2. last[t] = l
      BY <1>1
    <2>3. UpToDate \in Behind
      BY DEF UpToDate, Behind
    <2> HIDE DEF l
    <2>4. StoreInv(t, Nil, Nil, l, UpToDate)
      BY <2>1 DEF StoreInv, Records, CacheKnows, BucketKnows, Trusted
    <2>5. TagPipe(t, ZeroTagState, <<>>, Nil, Nil, l, NoView, {}, UpToDate)
      BY <2>1, <2>3, <2>4, FreshKeeps
    <2>6. /\ states[t] = ZeroTagState /\ queue[t] = <<>> /\ cache[t] = Nil /\ kv[t] = Nil
          /\ view[t] = NoView /\ spoke[t] = {} /\ behind[t] = UpToDate
      BY <1>1
    <2> QED
      BY <2>2, <2>5, <2>6
  <1>3. /\ Total(states) /\ Total(queue) /\ Total(cache) /\ Total(kv)
        /\ Total(last) /\ Total(view) /\ Total(spoke) /\ Total(behind)
    BY <1>1 DEF Total
  <1> QED
    BY <1>1, <1>2, <1>3 DEF PipeInv

\* What Send does, tag by tag.
LEMMA SendSteps ==
    ASSUME NEW evs, Send(evs)
    PROVE  /\ Total(queue') /\ Total(view') /\ Total(spoke')
           /\ \A t \in Tags : /\ queue'[t] = queue[t] \o Sent(t, evs[t])
                              /\ view'[t] = Observe(view[t], evs[t])
                              /\ spoke'[t] = spoke[t] \cup TypesOf(evs[t])
  BY DEF Send, Sent, Total

\* What a step that leaves the memories alone need not say.
LEMMA MemoriesStay ==
    ASSUME PipeInv, UNCHANGED memVars
    PROVE  /\ UNCHANGED <<cache, kv, owed, down, last, behind>>
           /\ Total(cache') /\ Total(kv') /\ Total(last') /\ Total(behind')
           /\ owed' \in {{}} \cup {{t} : t \in Tags} /\ \A t \in owed' : cache'[t] # Nil
           /\ down' \in BOOLEAN
  BY DEF PipeInv, memVars

\* A datagram changes the state and the channel of its tag.
LEMMA ReadDatagramStep ==
    ASSUME PipeInv, NEW t \in Tags, NEW msg \in Datagram, ReadDatagram(t, msg)
    PROVE  PipeInv'
  <1> DEFINE evs == [u \in Tags |-> IF u = t THEN deriveEvents(states[t], msg) ELSE <<>>]
  <1>1. /\ states' = [states EXCEPT ![t] = nextTagState(states[t], msg)]
        /\ Send(evs) /\ UNCHANGED memVars
    BY DEF ReadDatagram
  <1>2. evs[t] = deriveEvents(states[t], msg) /\ \A u \in Tags : u # t => evs[u] = <<>>
    OBVIOUS
  <1> HIDE DEF evs
  <1>3. /\ Total(queue') /\ Total(view') /\ Total(spoke')
        /\ \A u \in Tags : /\ queue'[u] = queue[u] \o Sent(u, evs[u])
                           /\ view'[u] = Observe(view[u], evs[u])
                           /\ spoke'[u] = spoke[u] \cup TypesOf(evs[u])
    BY <1>1, SendSteps
  <1>4. /\ Total(states')
        /\ states'[t] = nextTagState(states[t], msg)
        /\ \A u \in Tags : u # t => states'[u] = states[u]
    BY <1>1 DEF PipeInv, Total
  <1>5. /\ UNCHANGED <<cache, kv, owed, down, last, behind>>
        /\ Total(cache') /\ Total(kv') /\ Total(last') /\ Total(behind')
        /\ owed' \in {{}} \cup {{u} : u \in Tags} /\ \A u \in owed' : cache'[u] # Nil
        /\ down' \in BOOLEAN
    BY <1>1, MemoriesStay
  <1>6. ASSUME NEW u \in Tags
        PROVE  TagPipe(u, states'[u], queue'[u], cache'[u], kv'[u], last'[u], view'[u], spoke'[u], behind'[u])
    <2>0. TagPipe(u, states[u], queue[u], cache[u], kv[u], last[u], view[u], spoke[u], behind[u])
      BY DEF PipeInv
    <2>1. CASE u = t
      <3> DEFINE d == deriveEvents(states[u], msg)
                 n == nextTagState(states[u], msg)
      <3>1. TagPipe(u, n, queue[u] \o Sent(u, d), cache[u], kv[u], last[u],
                    Observe(view[u], d), spoke[u] \cup TypesOf(d), behind[u])
        BY <2>0, DatagramKeeps
      <3>2. evs[u] = d /\ states'[u] = n
        BY <1>2, <1>4, <2>1
      <3> HIDE DEF d, n
      <3> QED
        BY <1>3, <1>5, <3>1, <3>2
    <2>2. CASE u # t
      <3>1. TagPipe(u, states[u], queue[u] \o Sent(u, <<>>), cache[u], kv[u], last[u],
                    Observe(view[u], <<>>), spoke[u] \cup TypesOf(<<>>), behind[u])
        BY <2>0, SilentKeeps
      <3> QED
        BY <1>2, <1>3, <1>4, <1>5, <2>2, <3>1
    <2> QED
      BY <2>1, <2>2
  <1> QED
    BY <1>3, <1>4, <1>5, <1>6 DEF PipeInv

\* A sweep may concern every tag.
LEMMA SweepStep ==
    ASSUME PipeInv, Sweep
    PROVE  PipeInv'
  <1> DEFINE evs == [t \in Tags |-> watchdogEvents(states[t])]
  <1>1. /\ states' = [t \in Tags |-> watchdogState(states[t])]
        /\ Send(evs) /\ UNCHANGED memVars
    BY DEF Sweep
  <1>2. \A t \in Tags : evs[t] = watchdogEvents(states[t])
    OBVIOUS
  <1> HIDE DEF evs
  <1>3. /\ Total(queue') /\ Total(view') /\ Total(spoke')
        /\ \A t \in Tags : /\ queue'[t] = queue[t] \o Sent(t, evs[t])
                           /\ view'[t] = Observe(view[t], evs[t])
                           /\ spoke'[t] = spoke[t] \cup TypesOf(evs[t])
    BY <1>1, SendSteps
  <1>4. Total(states') /\ \A t \in Tags : states'[t] = watchdogState(states[t])
    BY <1>1 DEF PipeInv, Total
  <1>5. /\ UNCHANGED <<cache, kv, owed, down, last, behind>>
        /\ Total(cache') /\ Total(kv') /\ Total(last') /\ Total(behind')
        /\ owed' \in {{}} \cup {{u} : u \in Tags} /\ \A u \in owed' : cache'[u] # Nil
        /\ down' \in BOOLEAN
    BY <1>1, MemoriesStay
  <1>6. ASSUME NEW t \in Tags
        PROVE  TagPipe(t, states'[t], queue'[t], cache'[t], kv'[t], last'[t], view'[t], spoke'[t], behind'[t])
    <2>1. TagPipe(t, states[t], queue[t], cache[t], kv[t], last[t], view[t], spoke[t], behind[t])
      BY DEF PipeInv
    <2> DEFINE d == watchdogEvents(states[t])
               n == watchdogState(states[t])
    <2>2. TagPipe(t, n, queue[t] \o Sent(t, d), cache[t], kv[t], last[t],
                  Observe(view[t], d), spoke[t] \cup TypesOf(d), behind[t])
      BY <2>1, WatchdogKeeps
    <2>3. evs[t] = d /\ states'[t] = n
      BY <1>2, <1>4
    <2> HIDE DEF d, n
    <2> QED
      BY <1>3, <1>5, <2>2, <2>3
  <1> QED
    BY <1>3, <1>4, <1>5, <1>6 DEF PipeInv

\* Time passes for every tag.
LEMMA TickStep ==
    ASSUME PipeInv, Tick
    PROVE  PipeInv'
  <1>1. /\ Total(states') /\ \A t \in Tags : states'[t] = Elapse(states[t])
        /\ UNCHANGED <<queue, view, spoke>> /\ UNCHANGED memVars
    BY DEF Tick, Total
  <1>2. /\ UNCHANGED <<cache, kv, owed, down, last, behind>>
        /\ Total(cache') /\ Total(kv') /\ Total(last') /\ Total(behind')
        /\ owed' \in {{}} \cup {{u} : u \in Tags} /\ \A u \in owed' : cache'[u] # Nil
        /\ down' \in BOOLEAN
    BY <1>1, MemoriesStay
  <1>3. ASSUME NEW t \in Tags
        PROVE  TagPipe(t, states'[t], queue'[t], cache'[t], kv'[t], last'[t], view'[t], spoke'[t], behind'[t])
    <2>1. TagPipe(t, states[t], queue[t], cache[t], kv[t], last[t], view[t], spoke[t], behind[t])
      BY DEF PipeInv
    <2> QED
      BY <1>1, <1>2, <2>1, ElapseKeeps
  <1>4. Total(queue') /\ Total(view') /\ Total(spoke')
    BY <1>1 DEF PipeInv
  <1> QED
    BY <1>1, <1>2, <1>3, <1>4 DEF PipeInv

-----------------------------------------------------------------------------
(* The steps of Write.  They change what is kept of one tag.               *)

Elsewhere(f, g, t) == Total(g) /\ \A u \in Tags : u # t => g[u] = f[u]

\* An assignment to the element of t, and none.
LEMMA ElsewhereExcept ==
    ASSUME NEW f, Total(f), NEW t \in Tags, NEW x
    PROVE  Elsewhere(f, [f EXCEPT ![t] = x], t) /\ [f EXCEPT ![t] = x][t] = x
  BY DEF Elsewhere, Total

LEMMA ElsewhereSame ==
    ASSUME NEW f, Total(f), NEW t
    PROVE  Elsewhere(f, f, t)
  BY DEF Elsewhere

\* A step that leaves the other tags alone.
LEMMA OneTag ==
    ASSUME PipeInv, NEW t \in Tags, UNCHANGED <<states, view, spoke>>,
           Elsewhere(queue, queue', t), Elsewhere(cache, cache', t), Elsewhere(kv, kv', t),
           Elsewhere(last, last', t), Elsewhere(behind, behind', t),
           TagPipe(t, states[t], queue'[t], cache'[t], kv'[t], last'[t], view[t], spoke[t], behind'[t]),
           owed' \in {{}} \cup {{u} : u \in Tags}, \A u \in owed' : cache'[u] # Nil, down' \in BOOLEAN
    PROVE  PipeInv'
  <1>1. /\ Total(states') /\ Total(queue') /\ Total(cache') /\ Total(kv')
        /\ Total(last') /\ Total(view') /\ Total(spoke') /\ Total(behind')
    BY DEF PipeInv, Elsewhere
  <1>2. ASSUME NEW u \in Tags
        PROVE  TagPipe(u, states'[u], queue'[u], cache'[u], kv'[u], last'[u], view'[u], spoke'[u], behind'[u])
    <2>1. CASE u = t
      BY <2>1
    <2>2. CASE u # t
      <3>1. TagPipe(u, states[u], queue[u], cache[u], kv[u], last[u], view[u], spoke[u], behind[u])
        BY DEF PipeInv
      <3>2. /\ queue'[u] = queue[u] /\ cache'[u] = cache[u] /\ kv'[u] = kv[u] /\ last'[u] = last[u]
            /\ behind'[u] = behind[u]
        BY <2>2 DEF Elsewhere
      <3> QED
        BY <3>1, <3>2
    <2> QED
      BY <2>1, <2>2
  <1> QED
    BY <1>1, <1>2 DEF PipeInv

\* What PipeInv says of one tag.
LEMMA TagOf ==
    ASSUME PipeInv, NEW t \in Tags
    PROVE  /\ TagPipe(t, states[t], queue[t], cache[t], kv[t], last[t], view[t], spoke[t], behind[t])
           /\ StoreInv(t, cache[t], kv[t], last[t], behind[t]) /\ behind[t] \in Behind
           /\ DOMAIN last[t] = ChangeTypes /\ Records(t, last[t])
           /\ queue[t] \in Seq(OfTag(t))
           /\ Announced(t, queue[t], last[t], view[t], spoke[t], DoubtOf(cache[t], behind[t]))
  BY DEF PipeInv, TagPipe, StoreInv

\* getActorState and Doubt are those of the lemmas above.
LEMMA FoundIs ==
    \A t : /\ getActorState(t) = Found(cache[t], kv[t])
           /\ Doubt(t) = DoubtOf(cache[t], behind[t])
  BY DEF getActorState, Found, Doubt, DoubtOf

\* What a look-up returns: what is found, or, when it fails, nothing.
Sought(t, found, late) ==
    \/ found = Found(cache[t], kv[t]) /\ late = DoubtOf(cache[t], behind[t])
    \/ found = Nil /\ late = ChangeTypes /\ cache[t] = Nil

\* What the look-up returned is as good as it is said to be.
LEMMA SoughtKnows ==
    ASSUME PipeInv, NEW t \in Tags, NEW found, NEW late, Sought(t, found, late)
    PROVE  /\ OrZero(found, ZeroActorState) \in ActorState
           /\ Knows(OrZero(found, ZeroActorState), t, last[t], Trusted(late))
           /\ late \in SUBSET ChangeTypes /\ DoubtOf(cache[t], behind[t]) \subseteq late
           /\ CacheKnows(t, found, last[t], Trusted(late))
           /\ \A n : n.cache = late /\ n.kv = behind[t].kv
                       => DoubtOf(found, n) = DoubtOf(cache[t], behind[t])
  <1> DEFINE c == cache[t]
             b == kv[t]
             l == last[t]
             d == behind[t]
  <1>1. StoreInv(t, c, b, l, d) /\ d \in Behind
    BY TagOf
  <1> HIDE DEF c, b, l, d
  <1>2. DoubtOf(c, d) \in SUBSET ChangeTypes
    BY <1>1 DEF DoubtOf, Behind
  <1>3. CASE found = Found(c, b) /\ late = DoubtOf(c, d)
    <2> DEFINE prev == OrZero(found, ZeroActorState)
    <2>1. /\ prev \in ActorState /\ Knows(prev, t, l, Trusted(late))
          /\ CacheKnows(t, found, l, Trusted(late))
      BY <1>1, <1>3, FoundKnows, SuppressKnows
    <2>2. \A n : n.cache = late /\ n.kv = d.kv => DoubtOf(found, n) = DoubtOf(c, d)
      BY <1>3, FoundDoubt
    <2> QED
      BY <1>2, <1>3, <2>1, <2>2 DEF c, b, l, d
  <1>4. CASE found = Nil /\ late = ChangeTypes /\ c = Nil
    <2>1. OrZero(found, ZeroActorState) = ZeroActorState /\ Trusted(late) = {}
      BY <1>4, OrZeroNil DEF Trusted
    <2>2. Knows(ZeroActorState, t, l, {}) /\ CacheKnows(t, found, l, {})
      BY <1>4 DEF Knows, CacheKnows
    <2>3. DoubtOf(c, d) = d.kv /\ \A n : DoubtOf(found, n) = n.kv
      BY <1>4 DEF DoubtOf
    <2> QED
      BY <1>2, <1>4, <2>1, <2>2, <2>3, ZeroActor DEF c, b, l, d
  <1> QED
    BY <1>3, <1>4 DEF Sought, c, b, d

\* The event that is handed to Write.
LEMMA WithEvent ==
    ASSUME PipeInv, NEW t \in Tags, HasEvent(t)
    PROVE  /\ queue[t] # <<>> /\ owed = {}
           /\ \E ev \in Event :
                /\ Head(queue[t]) = DomainEvent(t, ev) /\ Head(queue[t]).type = ev.type
                /\ ev.type \in ChangeTypes
                /\ \A s \in ActorState : Unchanged(s, Head(queue[t])) <=> Recalls(s, ev)
                /\ OnStream(t, Head(queue[t])) => last' = [last EXCEPT ![t] = Publish(last[t], t, ev)]
  <1>1. queue[t] # <<>> /\ owed = {} /\ queue[t] \in Seq(OfTag(t))
    BY TagOf DEF HasEvent
  <1>2. Head(queue[t]) \in OfTag(t)
    BY <1>1, TakeFirst
  <1>3. PICK ev \in Event : Head(queue[t]) = DomainEvent(t, ev)
    BY <1>2 DEF OfTag
  <1>4. /\ Head(queue[t]).type = ev.type /\ ev.type \in ChangeTypes
        /\ \A s \in ActorState : Unchanged(s, Head(queue[t])) <=> Recalls(s, ev)
    BY <1>3, EventReads, UnchangedRecalls
  <1>5. OnStream(t, Head(queue[t])) => last' = [last EXCEPT ![t] = Publish(last[t], t, ev)]
    BY <1>3, <1>4 DEF OnStream, Publish
  <1> QED
    BY <1>1, <1>3, <1>4, <1>5

\* A state that was taken for want of one recalls nothing.
LEMMA RecallsFound ==
    ASSUME NEW t, NEW found, NEW late, NEW ev \in Event, Sought(t, found, late),
           Recalls(OrZero(found, ZeroActorState), ev)
    PROVE  found = Found(cache[t], kv[t]) /\ late = DoubtOf(cache[t], behind[t])
  <1>1. ~Recalls(ZeroActorState, ev)
    BY DEF Recalls, ZeroActorState
  <1>2. found # Nil
    BY <1>1, OrZeroNil
  <1> QED
    BY <1>2 DEF Sought

\* Write up to the cache, with an event published or suppressed.
LEMMA WriteWithStep ==
    ASSUME PipeInv, NEW t \in Tags, NEW found, NEW late, Sought(t, found, late),
           WriteWith(t, found, late)
    PROVE  PipeInv'
  <1> DEFINE prev == OrZero(found, ZeroActorState)
             e == Head(queue[t])
             d == behind[t]
             K == Trusted(late)
  <1>1. HasEvent(t)
    BY DEF WriteWith
  <1>2. /\ queue' = [queue EXCEPT ![t] = Tail(queue[t])]
        /\ UNCHANGED <<states, view, spoke>> /\ kv' = kv /\ down' = down
        /\ IF Unchanged(prev, e)
             THEN /\ cache' = [cache EXCEPT ![t] = found]
                  /\ behind' = [behind EXCEPT ![t].cache = late]
                  /\ owed' = owed /\ last' = last
             ELSE /\ OnStream(t, e)
                  /\ cache' = [cache EXCEPT ![t] = Some(Remember(prev, e))]
                  /\ owed' = {t}
                  /\ behind' = [behind EXCEPT ![t] =
                                 [cache |-> late \ {e.type}, kv |-> d.kv \cup {e.type}]]
    BY DEF WriteWith
  <1>3. queue[t] # <<>> /\ owed = {}
    BY <1>1, WithEvent
  <1>4. PICK ev \in Event :
          /\ e = DomainEvent(t, ev) /\ e.type = ev.type /\ ev.type \in ChangeTypes
          /\ \A s \in ActorState : Unchanged(s, e) <=> Recalls(s, ev)
          /\ OnStream(t, e) => last' = [last EXCEPT ![t] = Publish(last[t], t, ev)]
    BY <1>1, WithEvent
  <1>5. /\ prev \in ActorState /\ Knows(prev, t, last[t], K)
        /\ late \in SUBSET ChangeTypes /\ DoubtOf(cache[t], d) \subseteq late
    BY SoughtKnows
  <1>6. /\ TagPipe(t, states[t], queue[t], cache[t], kv[t], last[t], view[t], spoke[t], d)
        /\ d \in Behind
    BY TagOf
  <1>7. /\ Total(states) /\ Total(queue) /\ Total(cache) /\ Total(kv) /\ Total(last)
        /\ Total(behind) /\ down \in BOOLEAN
    BY DEF PipeInv
  <1>8. /\ Elsewhere(queue, queue', t) /\ queue'[t] = Tail(queue[t])
        /\ Elsewhere(kv, kv', t) /\ kv'[t] = kv[t] /\ down' \in BOOLEAN
    BY <1>2, <1>7, ElsewhereExcept, ElsewhereSame
  <1> HIDE DEF prev, e, d, K
  <1>9. CASE Unchanged(prev, e)
    <2> DEFINE n == [d EXCEPT !.cache = late]
    <2>1. /\ cache' = [cache EXCEPT ![t] = found] /\ behind' = [behind EXCEPT ![t] = n]
          /\ owed' = owed /\ last' = last
      BY <1>2, <1>9 DEF d
    <2>2. n \in Behind /\ n.cache = late /\ n.kv = d.kv
      BY <1>5, <1>6 DEF Behind
    <2> HIDE DEF n
    <2>3. Recalls(prev, ev)
      BY <1>4, <1>5, <1>9
    <2>4. found = Found(cache[t], kv[t]) /\ late = DoubtOf(cache[t], d)
      BY <2>3, RecallsFound DEF prev, d
    <2>5. TagPipe(t, states[t], Tail(queue[t]), found, kv[t], last[t], view[t], spoke[t], n)
      BY <1>3, <1>4, <1>6, <2>2, <2>3, <2>4, SuppressKeeps DEF prev, e
    <2>6. /\ Elsewhere(cache, cache', t) /\ cache'[t] = found
          /\ Elsewhere(behind, behind', t) /\ behind'[t] = n
          /\ Elsewhere(last, last', t) /\ last'[t] = last[t]
      BY <1>7, <2>1, ElsewhereExcept, ElsewhereSame
    <2>7. TagPipe(t, states[t], queue'[t], cache'[t], kv'[t], last'[t], view[t], spoke[t], behind'[t])
      BY <1>8, <2>5, <2>6
    <2>8. owed' \in {{}} \cup {{u} : u \in Tags} /\ \A u \in owed' : cache'[u] # Nil
      BY <1>3, <2>1
    <2> QED
      BY <1>2, <1>8, <2>6, <2>7, <2>8, OneTag
  <1>10. CASE ~Unchanged(prev, e)
    <2> DEFINE n == [cache |-> late \ {ev.type}, kv |-> d.kv \cup {ev.type}]
               r == Some(Remember(prev, e))
               m == Publish(last[t], t, ev)
    <2>1. /\ cache' = [cache EXCEPT ![t] = r] /\ behind' = [behind EXCEPT ![t] = n]
          /\ owed' = {t} /\ last' = [last EXCEPT ![t] = m]
      BY <1>2, <1>4, <1>10
    <2>2. n \in Behind /\ n.cache = late \ {ev.type} /\ n.kv = d.kv \cup {ev.type}
      BY <1>4, <1>5, <1>6 DEF Behind
    <2> HIDE DEF n
    <2>3. TagPipe(t, states[t], Tail(queue[t]), r, kv[t], m, view[t], spoke[t], n)
      BY <1>3, <1>4, <1>5, <1>6, <2>2, PublishKeeps DEF e, K
    <2>4. r # Nil
      BY DEF Some, Nil
    <2> HIDE DEF r, m
    <2>5. /\ Elsewhere(cache, cache', t) /\ cache'[t] = r
          /\ Elsewhere(behind, behind', t) /\ behind'[t] = n
          /\ Elsewhere(last, last', t) /\ last'[t] = m
      BY <1>7, <2>1, ElsewhereExcept
    <2>6. TagPipe(t, states[t], queue'[t], cache'[t], kv'[t], last'[t], view[t], spoke[t], behind'[t])
      BY <1>8, <2>3, <2>5
    <2>7. owed' \in {{}} \cup {{u} : u \in Tags} /\ \A u \in owed' : cache'[u] # Nil
      BY <2>1, <2>4, <2>5
    <2> QED
      BY <1>2, <1>8, <2>5, <2>6, <2>7, OneTag
  <1> QED
    BY <1>9, <1>10

\* A failed publication makes no memory more trusted.
LEMMA SoughtDoubt ==
    ASSUME NEW t \in Tags, NEW found, NEW late, Sought(t, found, late),
           NEW n, NEW k, n.cache = late \cup {k}, n.kv = behind[t].kv \cup {k}
    PROVE  DoubtOf(cache[t], behind[t]) \subseteq DoubtOf(found, n)
  <1>1. CASE found = Found(cache[t], kv[t]) /\ late = DoubtOf(cache[t], behind[t])
    BY <1>1 DEF DoubtOf, Found
  <1>2. CASE found = Nil /\ cache[t] = Nil
    BY <1>2 DEF DoubtOf
  <1> QED
    BY <1>1, <1>2 DEF Sought

\* Write that ends with the error of a publication.
LEMMA FailWithStep ==
    ASSUME PipeInv, NEW t \in Tags, NEW found, NEW late, Sought(t, found, late),
           FailWith(t, found, late)
    PROVE  PipeInv'
  <1> DEFINE prev == OrZero(found, ZeroActorState)
             e == Head(queue[t])
             d == behind[t]
             K == Trusted(late)
  <1>1. HasEvent(t) /\ down' = TRUE /\ queue' = queue /\ kv' = kv /\ owed' = owed
    BY DEF FailWith
  <1>2. UNCHANGED <<states, view, spoke>>
    BY DEF FailWith
  <1>3. \/ cache' = cache /\ last' = last /\ behind' = behind
        \/ /\ cache' = [cache EXCEPT ![t] = found]
           /\ \/ behind' = [behind EXCEPT ![t].cache = late] /\ last' = last
              \/ /\ behind' = [behind EXCEPT ![t] = [cache |-> late \cup {e.type},
                                                     kv |-> d.kv \cup {e.type}]]
                 /\ OnStream(t, e)
    BY DEF FailWith
  <1>4. queue[t] # <<>> /\ owed = {}
    BY <1>1, WithEvent
  <1>5. PICK ev \in Event :
          /\ e = DomainEvent(t, ev) /\ e.type = ev.type /\ ev.type \in ChangeTypes
          /\ OnStream(t, e) => last' = [last EXCEPT ![t] = Publish(last[t], t, ev)]
    BY <1>1, WithEvent
  <1>6. /\ late \in SUBSET ChangeTypes /\ DoubtOf(cache[t], d) \subseteq late
        /\ CacheKnows(t, found, last[t], K)
    BY SoughtKnows
  <1>7. /\ TagPipe(t, states[t], queue[t], cache[t], kv[t], last[t], view[t], spoke[t], d)
        /\ d \in Behind
    BY TagOf
  <1>8. /\ Total(queue) /\ Total(cache) /\ Total(kv) /\ Total(last) /\ Total(behind)
    BY DEF PipeInv
  <1>9. /\ Elsewhere(queue, queue', t) /\ Elsewhere(kv, kv', t)
        /\ queue'[t] = queue[t] /\ kv'[t] = kv[t] /\ down' \in BOOLEAN
        /\ owed' \in {{}} \cup {{u} : u \in Tags} /\ \A u \in owed' : cache'[u] # Nil
    BY <1>1, <1>4, <1>8, ElsewhereSame
  <1> HIDE DEF prev, e, d, K
  <1>10. CASE cache' = cache /\ last' = last /\ behind' = behind
    <2>1. Elsewhere(cache, cache', t) /\ Elsewhere(last, last', t) /\ Elsewhere(behind, behind', t)
      BY <1>8, <1>10, ElsewhereSame
    <2>2. TagPipe(t, states[t], queue'[t], cache'[t], kv'[t], last'[t], view[t], spoke[t], behind'[t])
      BY <1>7, <1>9, <1>10 DEF d
    <2> QED
      BY <1>2, <1>9, <2>1, <2>2, OneTag
  <1>11. CASE /\ cache' = [cache EXCEPT ![t] = found]
              /\ behind' = [behind EXCEPT ![t].cache = late] /\ last' = last
    <2> DEFINE n == [d EXCEPT !.cache = late]
    <2>1. n \in Behind /\ n.cache = late /\ n.kv = d.kv
      BY <1>6, <1>7 DEF Behind
    <2>2. behind' = [behind EXCEPT ![t] = n]
      BY <1>11 DEF d
    <2> HIDE DEF n
    <2>3. DoubtOf(found, n) = DoubtOf(cache[t], d)
      BY <2>1, SoughtKnows DEF d
    <2>4. TagPipe(t, states[t], queue[t], found, kv[t], last[t], view[t], spoke[t], n)
      BY <1>6, <1>7, <2>1, <2>3, FailKeeps DEF K
    <2>5. /\ Elsewhere(cache, cache', t) /\ cache'[t] = found
          /\ Elsewhere(behind, behind', t) /\ behind'[t] = n
          /\ Elsewhere(last, last', t) /\ last'[t] = last[t]
      <3>1. Elsewhere(cache, cache', t) /\ cache'[t] = found
        BY <1>8, <1>11, ElsewhereExcept
      <3>2. Elsewhere(behind, behind', t) /\ behind'[t] = n
        BY <1>8, <2>2, ElsewhereExcept
      <3>3. Elsewhere(last, last', t) /\ last'[t] = last[t]
        BY <1>8, <1>11, ElsewhereSame
      <3> QED
        BY <3>1, <3>2, <3>3
    <2>6. TagPipe(t, states[t], queue'[t], cache'[t], kv'[t], last'[t], view[t], spoke[t], behind'[t])
      BY <1>9, <2>4, <2>5
    <2> QED
      BY <1>2, <1>9, <2>5, <2>6, OneTag
  <1>12. CASE /\ cache' = [cache EXCEPT ![t] = found]
              /\ behind' = [behind EXCEPT ![t] = [cache |-> late \cup {e.type},
                                                  kv |-> d.kv \cup {e.type}]]
              /\ OnStream(t, e)
    <2> DEFINE n == [cache |-> late \cup {ev.type}, kv |-> d.kv \cup {ev.type}]
               m == Publish(last[t], t, ev)
    <2>1. n \in Behind /\ n.cache = late \cup {ev.type} /\ n.kv = d.kv \cup {ev.type}
      BY <1>5, <1>6, <1>7 DEF Behind
    <2>2. behind' = [behind EXCEPT ![t] = n] /\ last' = [last EXCEPT ![t] = m]
      BY <1>5, <1>12
    <2> HIDE DEF n, m
    <2>3. DoubtOf(cache[t], d) \subseteq DoubtOf(found, n)
      BY <2>1, SoughtDoubt DEF d
    <2>4. TagPipe(t, states[t], queue[t], found, kv[t], m, view[t], spoke[t], n)
      BY <1>4, <1>5, <1>6, <1>7, <2>1, <2>3, FailOnStreamKeeps DEF e, K, m
    <2>5. /\ Elsewhere(cache, cache', t) /\ cache'[t] = found
          /\ Elsewhere(behind, behind', t) /\ behind'[t] = n
          /\ Elsewhere(last, last', t) /\ last'[t] = m
      <3>1. Elsewhere(cache, cache', t) /\ cache'[t] = found
        BY <1>8, <1>12, ElsewhereExcept
      <3>2. Elsewhere(behind, behind', t) /\ behind'[t] = n
        BY <1>8, <2>2, ElsewhereExcept
      <3>3. Elsewhere(last, last', t) /\ last'[t] = m
        BY <1>8, <2>2, ElsewhereExcept
      <3> QED
        BY <3>1, <3>2, <3>3
    <2>6. TagPipe(t, states[t], queue'[t], cache'[t], kv'[t], last'[t], view[t], spoke[t], behind'[t])
      BY <1>9, <2>4, <2>5
    <2> QED
      BY <1>2, <1>9, <2>5, <2>6, OneTag
  <1> QED
    BY <1>3, <1>10, <1>11, <1>12

\* The put.
LEMMA PersistStep ==
    ASSUME PipeInv, NEW t \in Tags, Persist(t)
    PROVE  PipeInv'
  <1> DEFINE d == behind[t]
             n == [d EXCEPT !.kv = d.cache]
             b == {[data |-> toKv(s), age |-> 0] : s \in cache[t]}
  <1>1. /\ t \in owed /\ owed' = {} /\ kv' = [kv EXCEPT ![t] = b]
        /\ behind' = [behind EXCEPT ![t] = n]
        /\ UNCHANGED <<states, view, spoke>>
        /\ queue' = queue /\ cache' = cache /\ last' = last /\ down' = down
    BY DEF Persist
  <1>2. /\ Total(queue) /\ Total(cache) /\ Total(kv) /\ Total(last) /\ Total(behind)
        /\ cache[t] # Nil /\ down \in BOOLEAN
    BY <1>1 DEF PipeInv
  <1>3. /\ TagPipe(t, states[t], queue[t], cache[t], kv[t], last[t], view[t], spoke[t], d)
        /\ d \in Behind
    BY TagOf
  <1> HIDE DEF d
  <1>4. n \in Behind /\ n.cache = d.cache /\ n.kv = d.cache
    BY <1>3 DEF Behind
  <1> HIDE DEF n
  <1>5. TagPipe(t, states[t], queue[t], cache[t], b, last[t], view[t], spoke[t], n)
    BY <1>2, <1>3, <1>4, PersistKeeps
  <1> HIDE DEF b
  <1>6. /\ Elsewhere(queue, queue', t) /\ Elsewhere(cache, cache', t) /\ Elsewhere(last, last', t)
        /\ Elsewhere(kv, kv', t) /\ Elsewhere(behind, behind', t)
        /\ kv'[t] = b /\ behind'[t] = n
    BY <1>1, <1>2, ElsewhereExcept, ElsewhereSame
  <1>7. TagPipe(t, states[t], queue'[t], cache'[t], kv'[t], last'[t], view[t], spoke[t], behind'[t])
    BY <1>1, <1>5, <1>6
  <1>8. /\ owed' \in {{}} \cup {{u} : u \in Tags} /\ \A u \in owed' : cache'[u] # Nil
        /\ down' \in BOOLEAN
    BY <1>1, <1>2
  <1> QED
    BY <1>1, <1>6, <1>7, <1>8, OneTag

\* The put that fails is as if the process had not come to it.
LEMMA PersistFailsStep ==
    ASSUME PipeInv, NEW t \in Tags, PersistFails(t)
    PROVE  PipeInv'
  BY DEF PipeInv, PersistFails, Total

\* Write, with what it found or with nothing, and what goes wrong in it.
LEMMA WriteStep ==
    ASSUME PipeInv, NEW t \in Tags,
           Write(t) \/ LookupFails(t) \/ Persist(t) \/ PersistFails(t) \/ PublishFails(t)
    PROVE  PipeInv'
  <1> DEFINE found == Found(cache[t], kv[t])
             late == DoubtOf(cache[t], behind[t])
  <1>1. getActorState(t) = found /\ Doubt(t) = late
    BY FoundIs
  <1>2. Sought(t, found, late)
    BY DEF Sought
  <1> HIDE DEF found, late
  <1>3. CASE Write(t)
    <2>1. WriteWith(t, found, late)
      BY <1>1, <1>3 DEF Write
    <2> QED
      BY <1>2, <2>1, WriteWithStep
  <1>4. CASE PublishFails(t)
    <2>1. FailWith(t, found, late)
      BY <1>1, <1>4 DEF PublishFails
    <2> QED
      BY <1>2, <2>1, FailWithStep
  <1>5. CASE LookupFails(t)
    <2>1. WriteWith(t, Nil, ChangeTypes) \/ FailWith(t, Nil, ChangeTypes)
      BY <1>5 DEF LookupFails
    <2>2. Sought(t, Nil, ChangeTypes)
      BY <1>5 DEF LookupFails, Sought
    <2> QED
      BY <2>1, <2>2, WriteWithStep, FailWithStep
  <1>6. CASE Persist(t)
    BY <1>6, PersistStep
  <1>7. CASE PersistFails(t)
    BY <1>7, PersistFailsStep
  <1> QED
    BY <1>3, <1>4, <1>5, <1>6, <1>7

\* The process stops, wherever it is, and starts again.
LEMMA RestartStep ==
    ASSUME PipeInv, Restart
    PROVE  PipeInv'
  <1>1. /\ states' = [t \in Tags |-> ZeroTagState] /\ queue' = [t \in Tags |-> <<>>]
        /\ cache' = [t \in Tags |-> Nil] /\ view' = [t \in Tags |-> NoView]
        /\ spoke' = [t \in Tags |-> {}] /\ kv' = kv /\ last' = last
        /\ owed' = {} /\ down' = FALSE
        /\ behind' = [t \in Tags |-> [behind[t] EXCEPT !.cache = {}]]
    BY DEF Restart, Fresh
  <1>2. ASSUME NEW t \in Tags
        PROVE  TagPipe(t, states'[t], queue'[t], cache'[t], kv'[t], last'[t], view'[t], spoke'[t], behind'[t])
    <2> DEFINE d == behind[t]
               n == [d EXCEPT !.cache = {}]
    <2>1. DOMAIN last[t] = ChangeTypes /\ StoreInv(t, cache[t], kv[t], last[t], d) /\ d \in Behind
      BY TagOf
    <2>2. behind'[t] = n
      BY <1>1
    <2> HIDE DEF d
    <2>3. n \in Behind /\ n.kv = d.kv
      BY <2>1 DEF Behind
    <2> HIDE DEF n
    <2>4. TagPipe(t, ZeroTagState, <<>>, Nil, kv[t], last[t], NoView, {}, n)
      BY <2>1, <2>3, FreshKeeps
    <2>5. /\ states'[t] = ZeroTagState /\ queue'[t] = <<>> /\ cache'[t] = Nil
          /\ view'[t] = NoView /\ spoke'[t] = {} /\ kv'[t] = kv[t] /\ last'[t] = last[t]
      BY <1>1
    <2> QED
      BY <2>2, <2>4, <2>5
  <1>3. /\ Total(states') /\ Total(queue') /\ Total(cache') /\ Total(kv')
        /\ Total(last') /\ Total(view') /\ Total(spoke') /\ Total(behind')
    BY <1>1 DEF PipeInv, Total
  <1> QED
    BY <1>1, <1>2, <1>3 DEF PipeInv

\* Stream and bucket get older together.
LEMMA AgePassesStep ==
    ASSUME PipeInv, AgePasses
    PROVE  PipeInv'
  <1>1. /\ \A t \in Tags : last'[t] = [k \in ChangeTypes |-> Older(last[t][k])]
        /\ \A t \in Tags : kv'[t] = Older(kv[t])
        /\ Total(last') /\ Total(kv')
        /\ UNCHANGED <<states, queue, cache, owed, down, view, spoke, behind>>
    BY DEF AgePasses, Total
  <1>2. ASSUME NEW t \in Tags
        PROVE  TagPipe(t, states'[t], queue'[t], cache'[t], kv'[t], last'[t], view'[t], spoke'[t], behind'[t])
    <2>1. TagPipe(t, states[t], queue[t], cache[t], kv[t], last[t], view[t], spoke[t], behind[t])
      BY DEF PipeInv
    <2> DEFINE m == [k \in ChangeTypes |-> Older(last[t][k])]
    <2>2. TagPipe(t, states[t], queue[t], cache[t], Older(kv[t]), m, view[t], spoke[t], behind[t])
      BY <2>1, OlderKeeps
    <2>3. last'[t] = m
      BY <1>1
    <2> HIDE DEF m
    <2> QED
      BY <1>1, <2>2, <2>3
  <1> QED
    BY <1>1, <1>2 DEF PipeInv

\* PipeInv is inductive.
THEOREM PipeInductive == PipeSpec => []PipeInv
  <1>1. PipeInit => PipeInv
    BY PipeInitInv
  <1>2. PipeInv /\ [PipeNext]_pipeVars => PipeInv'
    <2> SUFFICES ASSUME PipeInv, [PipeNext]_pipeVars PROVE PipeInv'
      OBVIOUS
    <2>1. CASE \E t \in Tags, msg \in Datagram : ReadDatagram(t, msg)
      BY <2>1, ReadDatagramStep
    <2>2. CASE \E t \in Tags : \/ Write(t) \/ LookupFails(t) \/ Persist(t) \/ PersistFails(t)
                               \/ PublishFails(t)
      BY <2>2, WriteStep
    <2>3. CASE Sweep
      BY <2>3, SweepStep
    <2>4. CASE Tick
      BY <2>4, TickStep
    <2>5. CASE Restart
      BY <2>5, RestartStep
    <2>6. CASE AgePasses
      BY <2>6, AgePassesStep
    <2>7. CASE UNCHANGED pipeVars
      BY <2>7 DEF pipeVars, memVars, PipeInv, Total
    <2> QED
      BY <2>1, <2>2, <2>3, <2>4, <2>5, <2>6, <2>7 DEF PipeNext
  <1> QED
    BY <1>1, <1>2, PTL DEF PipeSpec

-----------------------------------------------------------------------------
(* What follows.                                                           *)

\* Every value of the pipeline has its type: an event in the channel is one of
\* its tag, and what getActorState finds, in the cache or decoded from the
\* bucket, is an actorState (repository.go:42-61, 119-160).
THEOREM PipeTypeCorrect == PipeSpec => []PipeTypeOK
  <1>1. PipeInv => PipeTypeOK
    <2> SUFFICES ASSUME PipeInv PROVE PipeTypeOK
      OBVIOUS
    <2>1. ASSUME NEW t \in Tags
          PROVE  /\ states[t] \in tagState /\ view[t] \in View /\ spoke[t] \in SUBSET ChangeTypes
                 /\ queue[t] \in Seq(OfTag(t)) /\ behind[t] \in Behind
                 /\ StoreInv(t, cache[t], kv[t], last[t], behind[t])
      BY DEF PipeInv, TagPipe
    <2>2. states \in [Tags -> tagState]
      BY <2>1 DEF PipeInv, Total
    <2>3. view \in [Tags -> View] /\ spoke \in [Tags -> SUBSET ChangeTypes]
      BY <2>1 DEF PipeInv, Total
    <2>7. behind \in [Tags -> Behind] /\ owed \in {{}} \cup {{t} : t \in Tags} /\ down \in BOOLEAN
      BY <2>1 DEF PipeInv, Total
    <2>4. ASSUME NEW t \in Tags, NEW i \in DOMAIN queue[t]
          PROVE  /\ queue[t][i].type \in ChangeTypes /\ queue[t][i].actor.id = t
                 /\ ZonesOf(queue[t][i]) \subseteq Zones
      <3>1. queue[t][i] \in OfTag(t)
        BY <2>1, <2>4
      <3>2. PICK ev \in Event : queue[t][i] = DomainEvent(t, ev)
        BY <3>1 DEF OfTag
      <3>3. ev.zones \subseteq Zones
        BY DEF Event
      <3> QED
        BY <3>2, <3>3, EventReads
    <2>5. ASSUME NEW t \in Tags
          PROVE  cache[t] \subseteq ActorState /\ getActorState(t) \subseteq ActorState
      <3>1. cache[t] \subseteq ActorState
        BY <2>1 DEF StoreInv, CacheKnows, Some, Nil
      <3>2. Found(cache[t], kv[t]) \subseteq ActorState
        BY <2>1, FoundKnows DEF Some, Nil
      <3> QED
        BY <3>1, <3>2, FoundIs
    <2>6. ASSUME NEW t \in Tags, NEW k \in ChangeTypes, NEW r \in last[t][k] \cup kv[t]
          PROVE  r.age \in 0 .. MaxAge + 1
      <3>1. CASE r \in last[t][k]
        BY <2>1, <3>1, RecordAges DEF StoreInv, Ages
      <3>2. CASE r \in kv[t]
        BY <2>1, <3>2 DEF StoreInv, BucketKnows, EntryKnows, Some, Nil, Ages
      <3> QED
        BY <3>1, <3>2
    <2> QED
      BY <2>2, <2>3, <2>4, <2>5, <2>6, <2>7 DEF PipeTypeOK, Behind
  <1> QED
    BY <1>1, PipeInductive, PTL

\* What the client is sent for the record of an event.
LEMMA ClientReads ==
    ASSUME NEW t, NEW ev \in Event
    PROVE  LET e == domainEventToPb(DomainEvent(t, ev))
           IN  /\ ev.type = "ZONE" => ShowsZones(e, t, ev.zones, ev.movement)
               /\ ev.type = "PRESENCE" => ShowsPresence(e, t, ev.presence)
  <1> DEFINE d == DomainEvent(t, ev)
             e == domainEventToPb(d)
  <1>1. /\ d.type = ev.type /\ d.actor.id = t /\ d.actor.metadata = actorMetadata(ev)
        /\ d.state.presence = ev.presence /\ d.state.location = {[zones |-> ev.zones]}
    BY DEF DomainEvent, Some
  <1> HIDE DEF d
  <1>2. /\ e.type = domainEventTypeToPb(ev.type) /\ e.actor.id = t
        /\ e.actor.metadata = actorMetadata(ev)
        /\ e.state.presence = domainPresenceTypeToPb(ev.presence)
        /\ e.state.location = {[zones |-> l.zones] : l \in d.state.location}
    BY <1>1 DEF domainEventToPb, domainStateToPb
  <1> HIDE DEF e
  <1>3. {l.zones : l \in e.state.location} = {ev.zones}
    BY <1>1, <1>2
  <1>4. ZonesOf(e) = ev.zones /\ MovementOf(e) = ev.movement
    BY <1>2, <1>3, LookupBack DEF ZonesOf, MovementOf
  <1>5. ev.type = "ZONE" => ShowsZones(e, t, ev.zones, ev.movement)
    BY <1>2, <1>4 DEF ShowsZones, domainEventTypeToPb
  <1>6. ev.type = "PRESENCE" => ShowsPresence(e, t, ev.presence)
    <2>1. ev.presence \in {"ACTIVE", "INACTIVE"}
      BY DEF Event, Presences
    <2>2. domainPresenceTypeToPb(ev.presence) = PbPresence[ev.presence]
      BY <2>1 DEF domainPresenceTypeToPb, PbPresence
    <2> QED
      BY <1>2, <2>2 DEF ShowsPresence, domainEventTypeToPb
  <1> QED
    BY <1>5, <1>6 DEF e, d

\* With an empty channel, the one record of a subject that was announced says
\* what was announced last, where the memory has not missed it.
LEMMA LatestIs ==
    ASSUME PipeInv, NEW t \in Tags, queue[t] = <<>>, NEW k \in spoke[t] \ Doubt(t)
    PROVE  \E ev \in Event :
             /\ ev.type = k /\ Says(ev, k, view[t])
             /\ LatestOf(t, k) = {domainEventToPb(DomainEvent(t, ev))}
  <1> DEFINE x == Doubt(t)
  <1>1. Announced(t, queue[t], last[t], view[t], spoke[t], x)
    BY TagOf, FoundIs
  <1>2. Len(queue[t]) = 0 /\ k \in spoke[t] /\ k \notin x
    OBVIOUS
  <1> HIDE DEF x
  <1>3. PICK i \in 0 .. Len(queue[t]), ev \in Event :
          /\ ev.type = k /\ Says(ev, k, view[t])
          /\ IF i = 0 THEN k \in x \/ \E n \in Ages : RecordIs(last[t], t, k, ev, n)
                      ELSE queue[t][i] = DomainEvent(t, ev)
    BY <1>1, <1>2 DEF Announced
  <1>4. i = 0
    BY <1>2
  <1>5. PICK n \in Ages : RecordIs(last[t], t, k, ev, n)
    BY <1>2, <1>3, <1>4
  <1> DEFINE d == marshal(DomainEvent(t, ev))
  <1>6. last[t][k] = {[data |-> d, age |-> n]}
    BY <1>5 DEF RecordIs, Some
  <1>7. unmarshal(d) = DomainEvent(t, ev)
    BY RecordBack
  <1> HIDE DEF d
  <1>8. LatestOf(t, k) = {domainEventToPb(unmarshal(d))}
    BY <1>6 DEF LatestOf, ToClient
  <1> QED
    BY <1>3, <1>7, <1>8

\* Once the channel is empty, the latest record of a subject says to a client
\* what the adapter announced last since the process started: wherever Write was
\* when the process stopped, and whatever failed in it, an event that differs
\* from the record is suppressed only by a memory that has missed that record
\* (repository.go:162-174, 201-239).
THEOREM LatestCorrect == PipeSpec => []LatestIsAnnounced
  <1>1. PipeInv => LatestIsAnnounced
    <2> SUFFICES ASSUME PipeInv, NEW t \in Tags, queue[t] = <<>>
                 PROVE  /\ "ZONE" \in spoke[t] \ Doubt(t) =>
                             \E e \in LatestOf(t, "ZONE") :
                                 ShowsZones(e, t, view[t].zones, view[t].movement)
                        /\ "PRESENCE" \in spoke[t] \ Doubt(t) =>
                             \E e \in LatestOf(t, "PRESENCE") : ShowsPresence(e, t, view[t].presence)
      BY DEF LatestIsAnnounced
    <2>1. ASSUME "ZONE" \in spoke[t] \ Doubt(t)
          PROVE  \E e \in LatestOf(t, "ZONE") :
                     ShowsZones(e, t, view[t].zones, view[t].movement)
      <3>1. PICK ev \in Event : /\ ev.type = "ZONE" /\ Says(ev, "ZONE", view[t])
                                /\ LatestOf(t, "ZONE") = {domainEventToPb(DomainEvent(t, ev))}
        BY <2>1, LatestIs
      <3> QED
        BY <3>1, ClientReads DEF Says
    <2>2. ASSUME "PRESENCE" \in spoke[t] \ Doubt(t)
          PROVE  \E e \in LatestOf(t, "PRESENCE") : ShowsPresence(e, t, view[t].presence)
      <3>1. PICK ev \in Event : /\ ev.type = "PRESENCE" /\ Says(ev, "PRESENCE", view[t])
                                /\ LatestOf(t, "PRESENCE") = {domainEventToPb(DomainEvent(t, ev))}
        BY <2>2, LatestIs
      <3> QED
        BY <3>1, ClientReads DEF Says
    <2> QED
      BY <2>1, <2>2
  <1> QED
    BY <1>1, PipeInductive, PTL

\* A record that subscribers still see has an entry in the bucket that has not
\* expired either and that recalls it: zone and presence share the entry, and
\* every put renews it. The records the bucket has missed, for a put that failed
\* or that the process did not live to make, are those of behind[t].kv, and a
\* later put mends that (repository.go:119-160, 225-239, 386-400).
THEOREM BucketCorrect == PipeSpec => []BucketOutlivesRecords
  <1>1. PipeInv => BucketOutlivesRecords
    <2> SUFFICES ASSUME PipeInv, NEW t \in Tags, NEW k \in ChangeTypes \ behind[t].kv,
                        NEW r \in Live(last[t][k])
                 PROVE  \E s \in Live(kv[t]) : Unchanged(fromKv(s.data), unmarshal(r.data))
      BY DEF BucketOutlivesRecords
    <2> DEFINE l == last[t]
               b == kv[t]
               K == Trusted(behind[t].kv)
    <2>1. Records(t, l) /\ BucketKnows(t, b, l, K)
      BY TagOf DEF StoreInv
    <2>2. r \in l[k] /\ r.age <= MaxAge /\ k \in K /\ k \in ChangeTypes
      BY DEF Live, Trusted
    <2> HIDE DEF l, b, K
    <2>3. PICK s \in ActorState, n \in Ages : EntryKnows(t, b, l, s, n, K)
      BY <2>1, <2>2 DEF BucketKnows, Nil
    <2>4. Knows(s, t, l, K) /\ n <= r.age /\ b = Some([data |-> toKv(s), age |-> n])
      BY <2>2, <2>3 DEF EntryKnows
    <2>5. r.age \in Ages
      BY <2>1, <2>2, RecordAges
    <2>6. n <= MaxAge
      BY <2>2, <2>4, <2>5, AgeBounds
    <2>7. Live(b) = {[data |-> toKv(s), age |-> n]}
      BY <2>4, <2>6, AgeBounds, LiveOne DEF Some
    <2>8. Has(s, k)
      BY <2>2, <2>4 DEF Knows, l
    <2>9. PICK ev \in Event, m \in Ages : RecordIs(l, t, k, ev, m) /\ Recalls(s, ev)
      BY <2>2, <2>4, <2>8 DEF Knows
    <2>10. r.data = marshal(DomainEvent(t, ev))
      BY <2>2, <2>9 DEF RecordIs, Some
    <2>11. unmarshal(r.data) = DomainEvent(t, ev)
      BY <2>10, RecordBack
    <2>12. fromKv(toKv(s)) = s
      BY EntryBack
    <2>13. Unchanged(fromKv(toKv(s)), unmarshal(r.data))
      BY <2>9, <2>11, <2>12, UnchangedRecalls
    <2> QED
      BY <2>7, <2>13 DEF b
  <1> QED
    BY <1>1, PipeInductive, PTL

\* What a new subscriber is shown of a tag heard of since the last start is the
\* zones of its fix, and INACTIVE while it is offline or without a location, or
\* nothing of the sort once the record has expired: after any number of stops,
\* in the middle of a Write too, unless Write compares with a memory that has
\* missed the record (derive.go:37-39, 57-59, 96-97; repository.go:226-239).
THEOREM SnapshotCorrect == PipeSpec => []SnapshotTellsState
  <1>1. PipeInv => SnapshotTellsState
    <2> SUFFICES ASSUME PipeInv, NEW t \in Tags, queue[t] = <<>>
                 PROVE  /\ isLocationType(states[t].lastLocationType) /\ states[t].lastZoneIds # {}
                             /\ "ZONE" \notin Doubt(t) =>
                             \A e \in SnapshotOf(t, "ZONE") :
                                 ShowsZones(e, t, states[t].lastZoneIds, states[t].lastMovementStatus)
                        /\ (WasOffline(states[t]) \/ states[t].locationLost) /\ "PRESENCE" \notin Doubt(t) =>
                             \A e \in SnapshotOf(t, "PRESENCE") : ShowsPresence(e, t, "INACTIVE")
      BY DEF SnapshotTellsState
    <2> DEFINE st == states[t]
               v == view[t]
    <2>1. /\ TagInv(st, v, FALSE) /\ v \in View
          /\ v.presence # "NONE" => "PRESENCE" \in spoke[t]
          /\ v.zones # {} => "ZONE" \in spoke[t]
      BY DEF PipeInv, TagPipe
    <2>2. \A k : SnapshotOf(t, k) \subseteq LatestOf(t, k)
      BY DEF SnapshotOf, LatestOf, ToClient, Live
    <2> HIDE DEF st, v
    <2>3. ASSUME isLocationType(st.lastLocationType), st.lastZoneIds # {}, "ZONE" \notin Doubt(t),
                 NEW e \in SnapshotOf(t, "ZONE")
          PROVE  ShowsZones(e, t, st.lastZoneIds, st.lastMovementStatus)
      <3>1. v.zones = st.lastZoneIds /\ v.movement = st.lastMovementStatus
        BY <2>1, <2>3 DEF TagInv
      <3>2. "ZONE" \in spoke[t]
        BY <2>1, <2>3, <3>1
      <3>3. PICK ev \in Event : /\ ev.type = "ZONE" /\ Says(ev, "ZONE", v)
                                /\ LatestOf(t, "ZONE") = {domainEventToPb(DomainEvent(t, ev))}
        BY <2>3, <3>2, LatestIs DEF v
      <3>4. e = domainEventToPb(DomainEvent(t, ev))
        BY <2>2, <3>3
      <3> QED
        BY <3>1, <3>3, <3>4, ClientReads DEF Says
    <2>4. ASSUME WasOffline(st) \/ st.locationLost, "PRESENCE" \notin Doubt(t),
                 NEW e \in SnapshotOf(t, "PRESENCE")
          PROVE  ShowsPresence(e, t, "INACTIVE")
      <3>1. v.presence = "INACTIVE"
        BY <2>1, <2>4 DEF TagInv
      <3>2. "PRESENCE" \in spoke[t]
        BY <2>1, <3>1
      <3>3. PICK ev \in Event : /\ ev.type = "PRESENCE" /\ Says(ev, "PRESENCE", v)
                                /\ LatestOf(t, "PRESENCE") = {domainEventToPb(DomainEvent(t, ev))}
        BY <2>4, <3>2, LatestIs DEF v
      <3>4. e = domainEventToPb(DomainEvent(t, ev))
        BY <2>2, <3>3
      <3> QED
        BY <3>1, <3>3, <3>4, ClientReads DEF Says
    <2> QED
      BY <2>3, <2>4 DEF st
  <1> QED
    BY <1>1, PipeInductive, PTL

\* A record that is published is not the same as the one that is still seen,
\* where Write has compared the event with a state that recalls that one.
LEMMA PublishDiffers ==
    ASSUME NEW t, NEW l, DOMAIN l = ChangeTypes, NEW s \in ActorState,
           NEW K, K \subseteq ChangeTypes, Knows(s, t, l, K),
           NEW ev \in Event, ~Recalls(s, ev), NEW k \in K, Publish(l, t, ev)[k] # l[k],
           NEW new \in Publish(l, t, ev)[k], NEW old \in Live(l[k])
    PROVE  Differ(k, new, old)
  <1>1. k = ev.type /\ k \in ChangeTypes
    BY DEF Publish
  <1>2. RecordIs(Publish(l, t, ev), t, k, ev, 0)
    BY <1>1, PublishRecords
  <1>3. unmarshal(new.data) = DomainEvent(t, ev)
    <2>1. new.data = marshal(DomainEvent(t, ev))
      BY <1>2 DEF RecordIs, Some
    <2> QED
      BY <2>1, RecordBack
  <1>4. old \in l[k] /\ Live(l[k]) # {}
    BY DEF Live
  <1>5. PICK x \in Event, n \in Ages : RecordIs(l, t, k, x, n) /\ Recalls(s, x)
    BY <1>4 DEF Knows
  <1>6. unmarshal(old.data) = DomainEvent(t, x)
    <2>1. old.data = marshal(DomainEvent(t, x))
      BY <1>4, <1>5 DEF RecordIs, Some
    <2> QED
      BY <2>1, RecordBack
  <1>7. x.type = ev.type /\ ~Same(x, ev)
    BY <1>1, <1>5, RecallsSame DEF RecordIs
  <1>8. CASE k = "ZONE"
    BY <1>1, <1>3, <1>6, <1>7, <1>8, EventReads DEF Differ, Same
  <1>9. CASE k = "PRESENCE"
    BY <1>1, <1>3, <1>6, <1>7, <1>9, EventReads DEF Differ, Same
  <1> QED
    BY <1>1, <1>8, <1>9 DEF ChangeTypes

\* A Write, whole or failing, publishes an event that it has compared with what
\* the look-up returned, or nothing.
LEMMA Publishes ==
    ASSUME PipeInv, NEW t \in Tags, NEW found, NEW late, Sought(t, found, late),
           WriteWith(t, found, late) \/ FailWith(t, found, late)
    PROVE  \/ last' = last
           \/ \E ev \in Event : /\ ~Recalls(OrZero(found, ZeroActorState), ev)
                                /\ last' = [last EXCEPT ![t] = Publish(last[t], t, ev)]
  <1> DEFINE prev == OrZero(found, ZeroActorState)
             e == Head(queue[t])
  <1>1. HasEvent(t)
    BY DEF WriteWith, FailWith
  <1>2. last' = last \/ (~Unchanged(prev, e) /\ OnStream(t, e))
    <2>1. CASE WriteWith(t, found, late)
      <3>1. IF Unchanged(prev, e) THEN last' = last ELSE OnStream(t, e)
        BY <2>1 DEF WriteWith
      <3> QED
        BY <3>1
    <2>2. CASE FailWith(t, found, late)
      BY <2>2 DEF FailWith
    <2> QED
      BY <2>1, <2>2
  <1>3. PICK ev \in Event :
          /\ \A s \in ActorState : Unchanged(s, e) <=> Recalls(s, ev)
          /\ OnStream(t, e) => last' = [last EXCEPT ![t] = Publish(last[t], t, ev)]
    BY <1>1, WithEvent
  <1>4. prev \in ActorState
    BY SoughtKnows
  <1> QED
    BY <1>2, <1>3, <1>4

\* Nothing is published but what differs from what subscribers see, when the
\* look-up has succeeded, of the kinds on which the memory is trusted.
LEMMA WritePublishesChanges ==
    ASSUME PipeInv, NEW u \in Tags, Write(u) \/ PublishFails(u),
           NEW t, t \in Tags, NEW k, k \in ChangeTypes \ Doubt(t), last'[t][k] # last[t][k],
           NEW new, new \in last'[t][k], NEW old, old \in Live(last[t][k])
    PROVE  Differ(k, new, old)
  <1> DEFINE found == Found(cache[u], kv[u])
             late == DoubtOf(cache[u], behind[u])
             prev == OrZero(found, ZeroActorState)
             K == Trusted(late)
  <1>1. Sought(u, found, late) /\ Doubt(u) = late
    BY FoundIs DEF Sought
  <1>2. WriteWith(u, found, late) \/ FailWith(u, found, late)
    BY FoundIs DEF Write, PublishFails
  <1> HIDE DEF found, late
  <1>3. prev \in ActorState /\ Knows(prev, u, last[u], K)
    BY <1>1, SoughtKnows
  <1>4. DOMAIN last[u] = ChangeTypes /\ Total(last)
    BY TagOf DEF PipeInv
  <1>5. PICK ev \in Event :
          ~Recalls(prev, ev) /\ last' = [last EXCEPT ![u] = Publish(last[u], u, ev)]
    <2>1. last' # last
      OBVIOUS
    <2> QED
      BY <1>1, <1>2, <2>1, Publishes
  <1> HIDE DEF prev, K
  <1>6. u = t /\ last'[u] = Publish(last[u], u, ev)
    BY <1>4, <1>5 DEF Total
  <1>7. k \in K /\ K \subseteq ChangeTypes
    BY <1>1, <1>6 DEF K, Trusted
  <1> QED
    BY <1>3, <1>4, <1>5, <1>6, <1>7, PublishDiffers

\* Where the look-up fails, only the subjects of that tag are concerned.
LEMMA LookupFailsElsewhere ==
    ASSUME PipeInv, NEW u \in Tags, LookupFails(u), NEW t \in Tags, t # u
    PROVE  last'[t] = last[t]
  <1>1. WriteWith(u, Nil, ChangeTypes) \/ FailWith(u, Nil, ChangeTypes)
    BY DEF LookupFails
  <1>2. Sought(u, Nil, ChangeTypes)
    BY DEF LookupFails, Sought
  <1>3. last' = last \/ \E ev \in Event : last' = [last EXCEPT ![u] = Publish(last[u], u, ev)]
    BY <1>1, <1>2, Publishes
  <1>4. Total(last)
    BY DEF PipeInv
  <1> QED
    BY <1>3, <1>4 DEF Total

\* A record that is published differs from the one on its subject that
\* subscribers still see (repository.go:7-8, "changed from previous", and
\* 173-174), also when a restart has emptied the cache, when an earlier call has
\* failed or when the record got there although its publication failed: unless
\* Write compares with a memory that has missed that one (226-239), or with
\* none, because the look-up has failed (208-212).
THEOREM OnlyChangesCorrect == PipeSpec => OnlyChangesArePublished
  <1> DEFINE Step == \A t \in Tags : ~LookupFails(t) => \A k \in ChangeTypes \ Doubt(t) :
                       last'[t][k] # last[t][k] =>
                         \A new \in last'[t][k], old \in Live(last[t][k]) :
                           new.age = 0 => Differ(k, new, old)
  <1>1. PipeInv /\ [PipeNext]_pipeVars => [Step]_pipeVars
    <2> SUFFICES ASSUME PipeInv, [PipeNext]_pipeVars, NEW t \in Tags, ~LookupFails(t),
                        NEW k \in ChangeTypes \ Doubt(t), last'[t][k] # last[t][k],
                        NEW new \in last'[t][k], NEW old \in Live(last[t][k]), new.age = 0
                 PROVE  Differ(k, new, old)
      BY DEF pipeVars
    <2>1. CASE \E u \in Tags : Write(u) \/ PublishFails(u)
      BY <2>1, WritePublishesChanges
    <2>2. CASE \E u \in Tags : LookupFails(u)
      BY <2>2, LookupFailsElsewhere
    <2>3. CASE AgePasses
      <3>1. last'[t][k] = Older(last[t][k])
        BY <2>3 DEF AgePasses
      <3>2. PICK x \in last[t][k] : new = [x EXCEPT !.age = IF @ > MaxAge THEN @ ELSE @ + 1]
        BY <3>1 DEF Older
      <3>3. Records(t, last[t]) /\ last[t][k] # Nil
        BY <3>2, TagOf DEF Nil
      <3>4. PICK ev \in Event, n \in Ages : RecordIs(last[t], t, k, ev, n)
        BY <3>3 DEF Records
      <3>5. x = [data |-> marshal(DomainEvent(t, ev)), age |-> n]
        BY <3>2, <3>4 DEF RecordIs, Some
      <3>6. new.age = IF n > MaxAge THEN n ELSE n + 1
        BY <3>2, <3>5
      <3>7. new.age # 0
        BY <3>6, AgeBounds
      <3> QED
        BY <3>7
    <2>4. CASE \/ \E u \in Tags, msg \in Datagram : ReadDatagram(u, msg)
               \/ \E u \in Tags : Persist(u) \/ PersistFails(u)
               \/ Sweep \/ Tick \/ Restart \/ UNCHANGED pipeVars
      <3>1. last' = last
        BY <2>4 DEF ReadDatagram, Persist, PersistFails, Sweep, Tick, Restart, pipeVars, memVars
      <3> QED
        BY <3>1
    <2> QED
      BY <2>1, <2>2, <2>3, <2>4 DEF PipeNext
  <1> QED
    BY <1>1, PipeInductive, PTL DEF PipeSpec, OnlyChangesArePublished
=============================================================================

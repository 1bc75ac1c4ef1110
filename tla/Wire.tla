-------------------------------- MODULE Wire --------------------------------
(***************************************************************************)
(* The conversions an event goes through between a provider and a client:  *)
(* into the JSON of a stream record and back (jetstream/codec.go:87-204),  *)
(* from there into the protobuf message (grpc/adapter.go:120-207); and the *)
(* JSON of the KV bucket (jetstream/repository.go:42-61, 360-400).         *)
(*                                                                         *)
(* A nil pointer and a field dropped by omitempty are the empty set, a     *)
(* value that is there a set of one element, a map the set of its pairs.   *)
(* Identifiers, coordinates and times, which no rule reads, are left out.  *)
(***************************************************************************)
EXTENDS Naturals, Sequences

Nil == {}
Some(v) == {v}
OrZero(opt, zero) == IF opt = Nil THEN zero ELSE CHOOSE v \in opt : TRUE

\* omitempty, of a list or a map and of a string.
OmitEmpty(s) == IF s = {} THEN Nil ELSE Some(s)
OmitBlank(s) == IF s = "" THEN Nil ELSE Some(s)

\* The iota constants, and the conversions of an enum to int and back.
EventTypes == <<"ZONE", "PRESENCE", "COMMAND">>
PresenceTypes == <<"ACTIVE", "INACTIVE">>

ToInt(enum, v) ==
    IF \E i \in DOMAIN enum : enum[i] = v THEN CHOOSE i \in DOMAIN enum : enum[i] = v ELSE 0
FromInt(enum, n) == IF n \in DOMAIN enum THEN enum[n] ELSE "UNSPECIFIED"

-----------------------------------------------------------------------------
\* Stream records.

toWireState(s) ==
    [presence |-> ToInt(PresenceTypes, s.presence),
     location |-> {[zones |-> OmitEmpty(l.zones)] : l \in s.location},
     command  |-> {[name |-> c.name, arguments |-> OmitEmpty(c.arguments)] : c \in s.command}]

\* Mutant: the location is not read back.
MutFromWireState(ws) ==
    [presence |-> FromInt(PresenceTypes, ws.presence), location |-> Nil, command |-> Nil]

fromWireState(ws) ==
    [presence |-> FromInt(PresenceTypes, ws.presence),
     location |-> {[zones |-> OrZero(l.zones, {})] : l \in ws.location},
     command  |-> {[name |-> c.name, arguments |-> OrZero(c.arguments, {})] : c \in ws.command}]

marshal(e) ==
    [type  |-> ToInt(EventTypes, e.type),
     actor |-> [id |-> e.actor.id, metadata |-> OmitEmpty(e.actor.metadata)],
     state |-> toWireState(e.state)]

unmarshal(w) ==
    [type  |-> FromInt(EventTypes, w.type),
     actor |-> [id |-> w.actor.id, metadata |-> OrZero(w.actor.metadata, {})],
     state |-> fromWireState(w.state)]

\* Metadata[key]: the zero string when the key is missing.
Lookup(metadata, key) == OrZero({p[2] : p \in {q \in metadata : q[1] = key}}, "")

-----------------------------------------------------------------------------
\* What the client is sent.

domainEventTypeToPb(t) ==
    CASE t = "ZONE" -> "EVENT_TYPE_ZONE"
      [] t = "PRESENCE" -> "EVENT_TYPE_PRESENCE"
      [] t = "COMMAND" -> "EVENT_TYPE_COMMAND"
      [] OTHER -> "EVENT_TYPE_UNSPECIFIED"

domainPresenceTypeToPb(t) ==
    CASE t = "ACTIVE" -> "PRESENCE_TYPE_ACTIVE"
      [] t = "INACTIVE" -> "PRESENCE_TYPE_INACTIVE"
      [] OTHER -> "PRESENCE_TYPE_UNSPECIFIED"

domainStateToPb(s) ==
    [presence |-> domainPresenceTypeToPb(s.presence),
     location |-> {[zones |-> l.zones] : l \in s.location},
     command  |-> {[name |-> c.name, arguments |-> c.arguments] : c \in s.command}]

domainEventToPb(e) ==
    [type  |-> domainEventTypeToPb(e.type),
     actor |-> [id |-> e.actor.id, metadata |-> e.actor.metadata],
     state |-> domainStateToPb(e.state)]

-----------------------------------------------------------------------------
\* The entry of an actor in the KV bucket.

ZeroActorState ==
    [zones |-> {}, presence |-> "UNSPECIFIED", locationType |-> "",
     movementStatus |-> "", hasZones |-> FALSE, hasPresence |-> FALSE]

toKv(s) ==
    [z |-> OmitEmpty(s.zones), p |-> ToInt(PresenceTypes, s.presence),
     lt |-> OmitBlank(s.locationType), ms |-> OmitBlank(s.movementStatus),
     hz |-> s.hasZones, hp |-> s.hasPresence]

\* Mutant: an entry without zones is taken for one that never had any.
MutFromKv(k) ==
    [zones |-> OrZero(k.z, {}), presence |-> FromInt(PresenceTypes, k.p),
     locationType |-> OrZero(k.lt, ""), movementStatus |-> OrZero(k.ms, ""),
     hasZones |-> k.z # Nil, hasPresence |-> k.hp]

fromKv(k) ==
    [zones |-> OrZero(k.z, {}), presence |-> FromInt(PresenceTypes, k.p),
     locationType |-> OrZero(k.lt, ""), movementStatus |-> OrZero(k.ms, ""),
     hasZones |-> k.hz, hasPresence |-> k.hp]
=============================================================================

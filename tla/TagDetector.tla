---------------------------- MODULE TagDetector -----------------------------
(***************************************************************************)
(* The per-tag state machine of the QUUPPA adapter: the map of tag states  *)
(* that Run keeps, changed by datagrams (deriveEvents) and by the watchdog *)
(* sweep (runWatchdog), and the events both produce.  When a datagram is   *)
(* read and when the sweep runs is left open here; QuuppaAdapter.tla adds  *)
(* the loop that decides it and the queue the events go through.           *)
(***************************************************************************)
EXTENDS Derive

CONSTANT Tags  \* tag identifiers (the BLE MAC, later the actor ID)

VARIABLES
    states,   \* states[t]: what the adapter remembers of tag t
    emitted,  \* emitted[t]: the events of t that the last step emitted
    view,     \* view[t]: what the events emitted so far say of t
    hadFix    \* hadFix[t]: a datagram of t carried a location (history)

vars == <<states, emitted, view, hadFix>>

Init ==
    /\ states = [t \in Tags |-> ZeroTagState]
    /\ emitted = [t \in Tags |-> <<>>]
    /\ view = [t \in Tags |-> NoView]
    /\ hadFix = [t \in Tags |-> FALSE]

\* A well-formed datagram of tag t is read and its events are sent.
Receive(t, msg) ==
    LET evs == deriveEvents(states[t], msg)
    IN /\ states' = [states EXCEPT ![t] = nextTagState(states[t], msg)]
       /\ emitted' = [u \in Tags |-> IF u = t THEN evs ELSE <<>>]
       /\ view' = [view EXCEPT ![t] = Observe(view[t], evs)]
       /\ hadFix' = [hadFix EXCEPT ![t] = hadFix[t] \/ isLocationType(msg.type)]

\* Mutant: the sweep returns at the first tag it should skip.
MutWatchdog ==
    LET due(t) == (\A u \in Tags : Overdue(states[u])) /\ Overdue(states[t])
    IN /\ states' = [t \in Tags |-> IF due(t) THEN watchdogState(states[t]) ELSE states[t]]
       /\ emitted' = [t \in Tags |-> IF due(t) THEN watchdogEvents(states[t]) ELSE <<>>]
       /\ view' = [t \in Tags |-> IF due(t)
                     THEN Observe(view[t], watchdogEvents(states[t])) ELSE view[t]]
       /\ UNCHANGED hadFix

\* One sweep over every tag of the map.
Watchdog ==
    /\ states' = [t \in Tags |-> watchdogState(states[t])]
    /\ emitted' = [t \in Tags |-> watchdogEvents(states[t])]
    /\ view' = [t \in Tags |-> Observe(view[t], watchdogEvents(states[t]))]
    /\ UNCHANGED hadFix

Tick ==
    /\ states' = [t \in Tags |-> Elapse(states[t])]
    /\ emitted' = [t \in Tags |-> <<>>]
    /\ UNCHANGED <<view, hadFix>>

Next ==
    \/ \E t \in Tags, msg \in Datagram : Receive(t, msg)
    \/ Watchdog
    \/ Tick

Spec == Init /\ [][Next]_vars

-----------------------------------------------------------------------------
\* Every variable keeps to its type.
TypeOK ==
    /\ states \in [Tags -> tagState]
    /\ emitted \in [Tags -> Seq(Event)]
    /\ view \in [Tags -> View]
    /\ hadFix \in [Tags -> BOOLEAN]

\* The presence a consumer has last heard of a tag is INACTIVE exactly when
\* the adapter holds it to be offline or without a location: no path through
\* TAG_ONLINE, LOCATION_LOST, LOCATION_RESTORED and the watchdog forgets to
\* announce, or announces wrongly, what it records (derive.go:57-83, 128-160).
PresenceMirrorsState ==
    \A t \in Tags :
        view[t].presence = "INACTIVE"
            <=> WasOffline(states[t]) \/ states[t].locationLost

\* The zones a consumer has last heard are those of the last datagram when
\* that had a location, with its movement status unless the tag is in no zone,
\* and none when it had not: what the gate of derive.go:92-100 suppresses
\* never leaves a consumer with another snapshot than the current one. (Under
\* the gate of docs/QUUPPA.md:201-205, which suppresses zone events while the
\* tag is stationary, it could; the code has no such gate.)
ZoneViewCurrent ==
    \A t \in Tags :
        LET st == states[t]
        IN IF isLocationType(st.lastLocationType)
             THEN /\ view[t].zones = st.lastZoneIds
                  /\ st.lastZoneIds # {} => view[t].movement = st.lastMovementStatus
             ELSE view[t].zones = {}

\* A tag that had a location and has lost it is reported INACTIVE, whatever
\* the watchdog did meanwhile (derive.go:18-20, "when the location degrades to
\* approximate or worse, an INACTIVE PRESENCE event is emitted"). The section
\* cited there, docs/QUUPPA.md:171-178, counts approximate as a location, so
\* that by the document position to approximate would be no loss.
DegradedIsInactive ==
    \A t \in Tags :
        hadFix[t] /\ ~isLocationType(states[t].lastLocationType)
            => view[t].presence = "INACTIVE"

\* INACTIVE is never announced of a tag whose last announcement was INACTIVE:
\* the watchdog and LOCATION_LOST do not both report the same loss
\* (derive.go:125-127, "double-emitting would be a duplicate").
NoDoubleInactive ==
    [][\A t \in Tags : \A i \in DOMAIN emitted'[t] :
         emitted'[t][i].type = "PRESENCE" /\ emitted'[t][i].presence = "INACTIVE"
           => Observe(view[t], SubSeq(emitted'[t], 1, i - 1)).presence # "INACTIVE"
      ]_vars

\* After a sweep every known tag that has been silent for OfflineThreshold is
\* reported INACTIVE, by this sweep or by what was emitted before
\* (derive.go:123-127).
SweepReportsSilence ==
    [][Watchdog =>
         \A t \in Tags :
             hadHistory(states[t]) /\ states[t].silence >= OfflineThreshold
               => view'[t].presence = "INACTIVE"]_vars
=============================================================================

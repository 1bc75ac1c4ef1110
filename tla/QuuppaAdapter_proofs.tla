------------------------ MODULE QuuppaAdapter_proofs ------------------------
(***************************************************************************)
(* The tag state machine of TagDetector, for every set of tags, zones,     *)
(* location types and movements and every threshold.  Tags do not          *)
(* influence each other, so the inductive invariant is TagInv of one tag:  *)
(* its remembered state, the view its events leave with a consumer and     *)
(* whether it ever had a location.                                         *)
(*                                                                         *)
(* The loop of the adapter implements that machine, so what holds of every *)
(* tag holds under every interleaving of the loop with the emit goroutine, *)
(* cancellation and time; and Run does not return before the emit          *)
(* goroutine has.                                                          *)
(***************************************************************************)
EXTENDS QuuppaAdapter, Derive_proofs, NaturalsInduction,
        WellFoundedInduction, SequenceTheorems

IInv == TypeOK /\ \A t \in Tags : TagInv(states[t], view[t], hadFix[t])

-----------------------------------------------------------------------------
LEMMA InitIInv == Init => IInv
  <1> SUFFICES ASSUME Init PROVE IInv
    OBVIOUS
  <1>1. TypeOK
    <2>1. emitted \in [Tags -> Seq(Event)]
      BY ObserveEmpty, ZeroTagInv DEF Init, Readable
    <2> QED
      BY <2>1, ZeroTagInv DEF Init, TypeOK
  <1>2. \A t \in Tags : TagInv(states[t], view[t], hadFix[t])
    BY ZeroTagInv DEF Init
  <1> QED
    BY <1>1, <1>2 DEF IInv

LEMMA NextIInv == IInv /\ [Next]_vars => IInv'
  <1> SUFFICES ASSUME IInv, [Next]_vars PROVE IInv'
    OBVIOUS
  <1> USE DEF IInv
  <1>1. ASSUME NEW t \in Tags, NEW msg \in Datagram, Receive(t, msg)
        PROVE  IInv'
    <2> DEFINE evs == deriveEvents(states[t], msg)
    <2>1. /\ states[t] \in tagState /\ view[t] \in View /\ hadFix[t] \in BOOLEAN
          /\ TagInv(states[t], view[t], hadFix[t])
      BY DEF TypeOK
    <2>2. evs \in Seq(Event) /\ Observe(view[t], evs) \in View
      BY <2>1, DeriveView
    <2>3. nextTagState(states[t], msg) \in tagState
      BY <2>1, NextTagStateType
    <2>4. TagInv(nextTagState(states[t], msg), Observe(view[t], evs),
                 hadFix[t] \/ isLocationType(msg.type))
      BY <2>1, DatagramKeepsTagInv
    <2> HIDE DEF evs
    <2>5. /\ states' = [states EXCEPT ![t] = nextTagState(states[t], msg)]
          /\ emitted' = [u \in Tags |-> IF u = t THEN evs ELSE <<>>]
          /\ view' = [view EXCEPT ![t] = Observe(view[t], evs)]
          /\ hadFix' = [hadFix EXCEPT ![t] = hadFix[t] \/ isLocationType(msg.type)]
      BY <1>1 DEF Receive, evs
    <2>6. TypeOK'
      <3>1. states' \in [Tags -> tagState]
        BY <2>3, <2>5 DEF TypeOK
      <3>2. emitted' \in [Tags -> Seq(Event)]
        BY <2>2, <2>5
      <3>3. view' \in [Tags -> View]
        BY <2>2, <2>5 DEF TypeOK
      <3>4. hadFix' \in [Tags -> BOOLEAN]
        BY <2>5 DEF TypeOK
      <3> QED
        BY <3>1, <3>2, <3>3, <3>4 DEF TypeOK
    <2>7. ASSUME NEW u \in Tags
          PROVE  TagInv(states[u], view[u], hadFix[u])'
      <3>1. CASE u = t
        <4>1. /\ states'[u] = nextTagState(states[t], msg)
              /\ view'[u] = Observe(view[t], evs)
              /\ hadFix'[u] = (hadFix[t] \/ isLocationType(msg.type))
          BY <2>5, <3>1 DEF TypeOK
        <4> QED
          BY <2>4, <4>1
      <3>2. CASE u # t
        <4>1. states'[u] = states[u] /\ view'[u] = view[u] /\ hadFix'[u] = hadFix[u]
          BY <2>5, <3>2 DEF TypeOK
        <4> QED
          BY <4>1
      <3> QED
        BY <3>1, <3>2
    <2> QED
      BY <2>6, <2>7
  <1>2. CASE Watchdog
    <2>1. ASSUME NEW t \in Tags
          PROVE  /\ states'[t] \in tagState /\ emitted'[t] \in Seq(Event)
                 /\ view'[t] \in View /\ TagInv(states'[t], view'[t], hadFix'[t])
      <3>1. /\ states[t] \in tagState /\ view[t] \in View /\ hadFix[t] \in BOOLEAN
            /\ TagInv(states[t], view[t], hadFix[t])
        BY DEF TypeOK
      <3>2. /\ states'[t] = watchdogState(states[t])
            /\ emitted'[t] = watchdogEvents(states[t])
            /\ view'[t] = Observe(view[t], watchdogEvents(states[t]))
            /\ hadFix'[t] = hadFix[t]
        BY <1>2 DEF Watchdog
      <3> QED
        BY <3>1, <3>2, WatchdogKeepsTagInv
    <2>2. TypeOK'
      <3>1. states' \in [Tags -> tagState]
        BY <1>2, <2>1 DEF Watchdog
      <3>2. emitted' \in [Tags -> Seq(Event)]
        BY <1>2, <2>1 DEF Watchdog
      <3>3. view' \in [Tags -> View]
        BY <1>2, <2>1 DEF Watchdog
      <3> QED
        BY <1>2, <3>1, <3>2, <3>3 DEF TypeOK, Watchdog
    <2> QED
      BY <2>1, <2>2
  <1>3. CASE Tick
    <2>1. ASSUME NEW t \in Tags
          PROVE  states'[t] \in tagState /\ TagInv(states'[t], view[t], hadFix[t])
      BY <1>3, ElapseKeepsTagInv DEF Tick, TypeOK
    <2>2. TypeOK'
      <3>1. states' \in [Tags -> tagState]
        BY <1>3, <2>1 DEF Tick
      <3>2. emitted' \in [Tags -> Seq(Event)]
        BY <1>3, ObserveEmpty DEF Tick, Readable
      <3> QED
        BY <1>3, <3>1, <3>2 DEF TypeOK, Tick
    <2> QED
      BY <1>3, <2>1, <2>2 DEF Tick
  <1>4. CASE UNCHANGED vars
    BY <1>4 DEF vars, TypeOK
  <1> QED
    BY <1>1, <1>2, <1>3, <1>4 DEF Next

THEOREM Invariance == Spec => []IInv
  BY InitIInv, NextIInv, PTL DEF Spec

\* Every reachable state is well typed, whatever tags, zones and datagrams are.
THEOREM TypeCorrect == Spec => []TypeOK
  <1>1. IInv => TypeOK
    BY DEF IInv
  <1> QED
    BY <1>1, Invariance, PTL

\* For every set of tags and every datagram, what deriveEvents and runWatchdog
\* announce of a tag's presence is what they record of it.
THEOREM PresenceCorrect == Spec => []PresenceMirrorsState
  <1>1. IInv => PresenceMirrorsState
    BY DEF IInv, TagInv, PresenceMirrorsState
  <1> QED
    BY <1>1, Invariance, PTL

\* For every set of zones, the zone events a consumer has seen leave it with
\* the zones of the tag's last datagram.
THEOREM ZonesCorrect == Spec => []ZoneViewCurrent
  <1>1. IInv => ZoneViewCurrent
    BY DEF IInv, TagInv, ZoneViewCurrent
  <1> QED
    BY <1>1, Invariance, PTL

\* For every history of datagrams and sweeps, a tag whose location degraded is
\* announced INACTIVE.
THEOREM DegradedCorrect == Spec => []DegradedIsInactive
  <1>1. IInv => DegradedIsInactive
    BY DEF IInv, TagInv, DegradedIsInactive
  <1> QED
    BY <1>1, Invariance, PTL

\* Whatever the threshold, a sweep leaves no tag that has been silent for
\* OfflineThreshold announced as anything but INACTIVE.
THEOREM SweepCorrect == Spec => SweepReportsSilence
  <1>1. ASSUME IInv, Watchdog, NEW t \in Tags,
               hadHistory(states[t]), states[t].silence >= OfflineThreshold
        PROVE  view'[t].presence = "INACTIVE"
    <2> DEFINE st == states[t]
               new == watchdogState(st)
               w == Observe(view[t], watchdogEvents(st))
    <2>1. /\ st \in tagState /\ view[t] \in View /\ hadFix[t] \in BOOLEAN
          /\ TagInv(st, view[t], hadFix[t])
      BY <1>1 DEF IInv, TypeOK
    <2>2. TagInv(new, w, hadFix[t])
      BY <2>1, WatchdogKeepsTagInv
    <2>3. /\ new.online = (st.online /\ ~Overdue(st))
          /\ new.locationLost = st.locationLost
          /\ new.lastLocationType = st.lastLocationType
      BY <2>1 DEF watchdogState, tagState
    <2>4. view'[t] = w
      BY <1>1 DEF Watchdog
    <2> HIDE DEF new, w
    <2>5. WasOffline(new) \/ new.locationLost
      BY <1>1, <2>3 DEF WasOffline, Overdue, hadHistory
    <2> QED
      BY <2>2, <2>4, <2>5 DEF TagInv
  <1>2. IInv /\ [Next]_vars =>
          [Watchdog =>
             \A t \in Tags :
                 hadHistory(states[t]) /\ states[t].silence >= OfflineThreshold
                   => view'[t].presence = "INACTIVE"]_vars
    BY <1>1
  <1> QED
    BY <1>2, Invariance, PTL DEF Spec, SweepReportsSilence

\* For every history of datagrams and sweeps, the same loss is not announced
\* twice: neither by LOCATION_LOST after the watchdog, nor the other way, nor
\* by two sweeps.
THEOREM NoDoubleCorrect == Spec => NoDoubleInactive
  <1>1. ASSUME IInv, Next, NEW t \in Tags
        PROVE  NoRepeat(view[t], emitted'[t])
    <2>1. /\ states[t] \in tagState /\ view[t] \in View /\ hadFix[t] \in BOOLEAN
          /\ TagInv(states[t], view[t], hadFix[t])
      BY <1>1 DEF IInv, TypeOK
    <2>2. NoRepeat(view[t], <<>>)
      BY DEF NoRepeat
    <2>3. ASSUME NEW u \in Tags, NEW msg \in Datagram, Receive(u, msg)
          PROVE  NoRepeat(view[t], emitted'[t])
      <3>1. emitted'[t] = IF t = u THEN deriveEvents(states[u], msg) ELSE <<>>
        BY <2>3 DEF Receive
      <3> QED
        BY <2>1, <2>2, <3>1, DeriveNoRepeat
    <2>4. CASE Watchdog
      <3>1. emitted'[t] = watchdogEvents(states[t])
        BY <2>4 DEF Watchdog
      <3> QED
        BY <2>1, <3>1, WatchdogNoRepeat
    <2>5. CASE Tick
      <3>1. emitted'[t] = <<>>
        BY <2>5 DEF Tick
      <3> QED
        BY <2>2, <3>1
    <2> QED
      BY <1>1, <2>3, <2>4, <2>5 DEF Next
  <1>2. IInv /\ [Next]_vars =>
          [\A t \in Tags : \A i \in DOMAIN emitted'[t] :
             emitted'[t][i].type = "PRESENCE" /\ emitted'[t][i].presence = "INACTIVE"
               => Observe(view[t], SubSeq(emitted'[t], 1, i - 1)).presence # "INACTIVE"
          ]_vars
    BY <1>1 DEF NoRepeat, Inactive
  <1> QED
    BY <1>2, Invariance, PTL DEF Spec, NoDoubleInactive

-----------------------------------------------------------------------------
(* The loop of the adapter.                                                *)

\* Each step of the loop, of the emit goroutine and of the environment is a
\* step of the tag state machine or leaves it alone.
LEMMA AdapterStep == [AdapterNext]_allVars => [Next]_vars
  <1> SUFFICES ASSUME [AdapterNext]_allVars PROVE [Next]_vars
    OBVIOUS
  <1> USE DEF vars, detectorVars
  <1>1. ASSUME NEW t \in Tags, NEW msg \in Datagram, ReadDatagram(t, msg)
        PROVE  Next
    BY <1>1 DEF ReadDatagram, Next
  <1>2. CASE ReadDeadline
    BY <1>2 DEF ReadDeadline, Next
  <1>3. CASE Clock
    BY <1>3 DEF Clock, Next
  <1>4. CASE Bind \/ BindFails \/ CheckError \/ ReadCancelled \/ Continue
               \/ CloseChannel \/ Return \/ ReadNoise
    BY <1>4 DEF Bind, BindFails, CheckError, ReadCancelled, Continue,
       CloseChannel, Return, ReadNoise
  <1>5. ASSUME NEW t \in Tags, Send(t)
        PROVE  UNCHANGED vars
    BY <1>5 DEF Send
  <1>6. CASE EmitReceive \/ EmitEOF \/ EmitOk \/ EmitError
    BY <1>6 DEF EmitReceive, EmitEOF, EmitOk, EmitError
  <1>7. CASE Cancel \/ CloseSocket
    BY <1>7 DEF Cancel, CloseSocket
  <1>8. CASE UNCHANGED allVars
    BY <1>8 DEF allVars
  <1> QED
    BY <1>1, <1>2, <1>3, <1>4, <1>5, <1>6, <1>7, <1>8 DEF AdapterNext, LoopStep

\* The adapter implements the tag state machine, for every capacity of evCh,
\* every tick and every failure of emit.
THEOREM AdapterImplementsDetector == AdapterSpec => Spec
  <1>1. AdapterInit => Init
    BY DEF AdapterInit
  <1> QED
    BY <1>1, AdapterStep, PTL DEF AdapterSpec, Spec

\* What the adapter records of a tag's presence is what it announces, under
\* every interleaving of its goroutines.
THEOREM AdapterPresence == AdapterSpec => []PresenceMirrorsState
  BY AdapterImplementsDetector, PresenceCorrect, PTL

-----------------------------------------------------------------------------
\* The emit goroutine holds an event only while it emits it, runs only after
\* Run has bound its socket, and is done when Run has returned.
EmitInv ==
    /\ epc # "emit" => cur = <<>>
    /\ pc = "bind" => epc = "none"
    /\ pc = "returned" => epc = "done"

\* No step lets Run return, or the socket be bound, before the emit goroutine
\* is where it should be.
LEMMA EmitInvStep == EmitInv /\ [AdapterNext]_allVars => EmitInv'
  <1> SUFFICES ASSUME EmitInv, [AdapterNext]_allVars PROVE EmitInv'
    OBVIOUS
  <1> USE DEF EmitInv, emitVars
  <1>1. CASE Bind \/ BindFails
    BY <1>1 DEF Bind, BindFails
  <1>2. CASE CheckError
    BY <1>2 DEF CheckError
  <1>3. CASE ReadDeadline \/ ReadCancelled \/ Continue \/ CloseChannel \/ ReadNoise
    BY <1>3 DEF ReadDeadline, ReadCancelled, Continue, CloseChannel, ReadNoise
  <1>4. CASE Return
    BY <1>4 DEF Return
  <1>5. ASSUME NEW t \in Tags, Send(t)
        PROVE  EmitInv'
    BY <1>5 DEF Send
  <1>6. ASSUME NEW t \in Tags, NEW msg \in Datagram, ReadDatagram(t, msg)
        PROVE  EmitInv'
    BY <1>6 DEF ReadDatagram
  <1>7. CASE EmitReceive
    BY <1>7 DEF EmitReceive
  <1>8. CASE EmitEOF \/ EmitOk
    BY <1>8 DEF EmitEOF, EmitOk
  <1>9. CASE EmitError
    BY <1>9 DEF EmitError
  <1>10. CASE Cancel \/ CloseSocket \/ Clock
    BY <1>10 DEF Cancel, CloseSocket, Clock
  <1>11. CASE UNCHANGED allVars
    BY <1>11 DEF allVars
  <1> QED
    BY <1>1, <1>2, <1>3, <1>4, <1>5, <1>6, <1>7, <1>8, <1>9, <1>10, <1>11
       DEF AdapterNext, LoopStep

\* Run never leaves emit running behind it: for every capacity and schedule,
\* wg.Wait() keeps it from returning before the emit goroutine does.
THEOREM EmitEndsFirst == AdapterSpec => []NoEmitAfterReturn
  <1>1. AdapterInit => EmitInv
    BY DEF AdapterInit, EmitInv
  <1>2. EmitInv => NoEmitAfterReturn
    BY DEF EmitInv, NoEmitAfterReturn
  <1> QED
    BY <1>1, <1>2, EmitInvStep, PTL DEF AdapterSpec

-----------------------------------------------------------------------------
(***************************************************************************)
(* What is on its way in the queue.  Observing a concatenation is          *)
(* observing its parts one after the other, so that an event can be moved  *)
(* from one end of the path to the other without changing what the path    *)
(* says.                                                                   *)
(***************************************************************************)
Heard == Event \cup {OtherTag}

\* A nonempty set of naturals has a least element.
LEMMA LeastExists ==
    ASSUME NEW T \in SUBSET Nat, T # {}
    PROVE  \E x \in T : \A y \in T : x <= y
  <1> DEFINE R == OpToRel(<, Nat)
  <1>1. IsWellFoundedOn(R, Nat)
    BY NatLessThanWellFounded
  <1>2. \A x, y \in Nat : x < y => <<x, y>> \in R
    BY DEF OpToRel
  <1> HIDE DEF R
  <1>3. PICK x \in T : \A y \in T : ~(<<y, x>> \in R)
    BY <1>1, WFMin
  <1>4. ASSUME NEW y \in T PROVE x <= y
    <2>1. x \in Nat /\ y \in Nat /\ ~(y < x)
      BY <1>2, <1>3
    <2> QED
      BY <2>1
  <1> QED
    BY <1>4

\* Every list has a last event of each type, or none, and LastIndex finds it.
LEMMA LastFound ==
    ASSUME NEW s \in Seq(Heard), NEW ty
    PROVE  /\ LastIndex(s, ty) \in 0 .. Len(s)
           /\ IsLast(s, ty, LastIndex(s, ty))
  <1> DEFINE P == {i \in 1 .. Len(s) : s[i].type = ty}
             n == Len(s)
             T == {n - i : i \in P}
  <1>1. n \in Nat
    OBVIOUS
  <1>2. CASE P = {}
    <2>1. IsLast(s, ty, 0)
      BY <1>1, <1>2 DEF IsLast
    <2> QED
      BY <1>1, <2>1 DEF LastIndex
  <1>3. CASE P # {}
    <2>1. T \in SUBSET Nat /\ T # {}
      BY <1>1, <1>3
    <2>2. \E x \in T : \A y \in T : x <= y
      BY <2>1, LeastExists
    <2>3. PICK i \in P : \A j \in P : n - i <= n - j
      BY <2>2
    <2>4. \A j \in P : j <= i
      BY <1>1, <2>3
    <2>5. i \in 0 .. Len(s) /\ IsLast(s, ty, i)
      BY <1>1, <2>4 DEF IsLast
    <2> QED
      BY <2>5 DEF LastIndex
  <1> QED
    BY <1>2, <1>3

\* There is only one such position.
LEMMA LastUnique ==
    ASSUME NEW s \in Seq(Heard), NEW ty, NEW i \in 0 .. Len(s), IsLast(s, ty, i)
    PROVE  LastIndex(s, ty) = i
  <1> DEFINE k == LastIndex(s, ty)
  <1>1. k \in 0 .. Len(s) /\ IsLast(s, ty, k)
    BY LastFound
  <1> HIDE DEF k
  <1>2. CASE k < i
    BY <1>1, <1>2 DEF IsLast
  <1>3. CASE i < k
    BY <1>1, <1>3 DEF IsLast
  <1> QED
    BY <1>1, <1>2, <1>3 DEF k

\* The last event of a concatenation is that of its second part, if it has one.
LEMMA LastConcat ==
    ASSUME NEW a \in Seq(Heard), NEW b \in Seq(Heard), NEW ty
    PROVE  LastIndex(a \o b, ty) =
             IF LastIndex(b, ty) # 0 THEN Len(a) + LastIndex(b, ty) ELSE LastIndex(a, ty)
  <1> DEFINE c == a \o b
             i == LastIndex(a, ty)
             j == LastIndex(b, ty)
  <1>1. /\ i \in 0 .. Len(a) /\ IsLast(a, ty, i)
        /\ j \in 0 .. Len(b) /\ IsLast(b, ty, j)
    BY LastFound
  <1>2. /\ c \in Seq(Heard) /\ Len(c) = Len(a) + Len(b) /\ Len(a) \in Nat /\ Len(b) \in Nat
        /\ \A k \in 1 .. Len(a) : c[k] = a[k]
        /\ \A k \in 1 .. Len(c) : k > Len(a) => c[k] = b[k - Len(a)]
    OBVIOUS
  <1> HIDE DEF c, i, j
  <1>3. \A k \in 1 .. Len(b) : Len(a) + k \in 1 .. Len(c) /\ c[Len(a) + k] = b[k]
    BY <1>2
  <1>4. CASE j # 0
    <2>1. Len(a) + j \in 0 .. Len(c) /\ Len(a) + j > Len(a)
      BY <1>1, <1>2, <1>4
    <2>2. c[Len(a) + j].type = ty
      BY <1>1, <1>3, <1>4 DEF IsLast
    <2>3. ASSUME NEW k \in 1 .. Len(c), k > Len(a) + j
          PROVE  c[k].type # ty
      <3>1. k > Len(a) /\ k - Len(a) \in 1 .. Len(b) /\ k - Len(a) > j
        BY <1>1, <1>2, <2>3
      <3> QED
        BY <1>1, <1>2, <3>1 DEF IsLast
    <2>4. IsLast(c, ty, Len(a) + j)
      BY <2>2, <2>3 DEF IsLast
    <2> QED
      BY <1>2, <1>4, <2>1, <2>4, LastUnique DEF c, i, j
  <1>5. CASE j = 0
    <2>1. i \in 0 .. Len(c)
      BY <1>1, <1>2
    <2>2. i > 0 => c[i].type = ty
      BY <1>1, <1>2 DEF IsLast
    <2>3. ASSUME NEW k \in 1 .. Len(c), k > i
          PROVE  c[k].type # ty
      <3>1. CASE k <= Len(a)
        BY <1>1, <1>2, <2>3, <3>1 DEF IsLast
      <3>2. CASE k > Len(a)
        <4>1. k - Len(a) \in 1 .. Len(b) /\ k - Len(a) > j
          BY <1>2, <1>5, <3>2
        <4> QED
          BY <1>1, <1>2, <3>2, <4>1 DEF IsLast
      <3> QED
        BY <1>2, <3>1, <3>2
    <2>4. IsLast(c, ty, i)
      BY <2>2, <2>3 DEF IsLast
    <2> QED
      BY <1>2, <1>5, <2>1, <2>4, LastUnique DEF c, i, j
  <1> QED
    BY <1>4, <1>5

\* Observing a concatenation is observing its parts in turn.
LEMMA ObserveConcat ==
    ASSUME NEW v, NEW a \in Seq(Heard), NEW b \in Seq(Heard)
    PROVE  Observe(v, a \o b) = Observe(Observe(v, a), b)
  <1> DEFINE c == a \o b
             ap == LastIndex(a, "PRESENCE")
             az == LastIndex(a, "ZONE")
             bp == LastIndex(b, "PRESENCE")
             bz == LastIndex(b, "ZONE")
             cp == LastIndex(c, "PRESENCE")
             cz == LastIndex(c, "ZONE")
  <1>1. /\ ap \in 0 .. Len(a) /\ az \in 0 .. Len(a)
        /\ bp \in 0 .. Len(b) /\ bz \in 0 .. Len(b)
    BY LastFound
  <1>2. /\ cp = IF bp # 0 THEN Len(a) + bp ELSE ap
        /\ cz = IF bz # 0 THEN Len(a) + bz ELSE az
    BY LastConcat
  <1>3. /\ Len(a) \in Nat /\ Len(b) \in Nat
        /\ \A k \in 1 .. Len(a) : c[k] = a[k]
        /\ \A k \in 1 .. Len(b) : c[Len(a) + k] = b[k]
    OBVIOUS
  <1>4. /\ Observe(v, c) =
             [presence |-> IF cp = 0 THEN v.presence ELSE c[cp].presence,
              zones    |-> IF cz = 0 THEN v.zones ELSE c[cz].zones,
              movement |-> IF cz = 0 THEN v.movement ELSE c[cz].movement]
        /\ Observe(v, a) =
             [presence |-> IF ap = 0 THEN v.presence ELSE a[ap].presence,
              zones    |-> IF az = 0 THEN v.zones ELSE a[az].zones,
              movement |-> IF az = 0 THEN v.movement ELSE a[az].movement]
    BY DEF Observe
  <1>5. Observe(Observe(v, a), b) =
             [presence |-> IF bp = 0 THEN Observe(v, a).presence ELSE b[bp].presence,
              zones    |-> IF bz = 0 THEN Observe(v, a).zones ELSE b[bz].zones,
              movement |-> IF bz = 0 THEN Observe(v, a).movement ELSE b[bz].movement]
    BY DEF Observe
  <1> HIDE DEF c, ap, az, bp, bz, cp, cz
  <1>6. /\ bp # 0 => cp # 0 /\ c[cp] = b[bp]
        /\ bp = 0 /\ ap # 0 => cp # 0 /\ c[cp] = a[ap]
        /\ bp = 0 /\ ap = 0 => cp = 0
    BY <1>1, <1>2, <1>3
  <1>7. /\ bz # 0 => cz # 0 /\ c[cz] = b[bz]
        /\ bz = 0 /\ az # 0 => cz # 0 /\ c[cz] = a[az]
        /\ bz = 0 /\ az = 0 => cz = 0
    BY <1>1, <1>2, <1>3
  <1>8. (IF cp = 0 THEN v.presence ELSE c[cp].presence)
          = IF bp = 0 THEN Observe(v, a).presence ELSE b[bp].presence
    BY <1>4, <1>6
  <1>9. (IF cz = 0 THEN v.zones ELSE c[cz].zones)
          = IF bz = 0 THEN Observe(v, a).zones ELSE b[bz].zones
    BY <1>4, <1>7
  <1>10. (IF cz = 0 THEN v.movement ELSE c[cz].movement)
           = IF bz = 0 THEN Observe(v, a).movement ELSE b[bz].movement
    BY <1>4, <1>7
  <1>11. Observe(v, c) = Observe(Observe(v, a), b)
    <2> DEFINE p == IF cp = 0 THEN v.presence ELSE c[cp].presence
               z == IF cz = 0 THEN v.zones ELSE c[cz].zones
               m == IF cz = 0 THEN v.movement ELSE c[cz].movement
               q == IF bp = 0 THEN Observe(v, a).presence ELSE b[bp].presence
               y == IF bz = 0 THEN Observe(v, a).zones ELSE b[bz].zones
               l == IF bz = 0 THEN Observe(v, a).movement ELSE b[bz].movement
    <2>1. Observe(v, c) = [presence |-> p, zones |-> z, movement |-> m]
      BY <1>4
    <2>2. Observe(Observe(v, a), b) = [presence |-> q, zones |-> y, movement |-> l]
      BY <1>5
    <2>3. p = q /\ z = y /\ m = l
      BY <1>8, <1>9, <1>10
    <2> HIDE DEF p, z, m, q, y, l
    <2> QED
      BY <2>1, <2>2, <2>3
  <1> QED
    BY <1>11 DEF c

\* One event makes a view of a view; an event of another tag leaves it alone.
LEMMA ObserveOne ==
    ASSUME NEW v \in View, NEW ev \in Event
    PROVE  Observe(v, <<ev>>) \in View
  <1> DEFINE none == <<>>
  <1>1. Readable(none) /\ Append(none, ev) = <<ev>>
    BY ObserveEmpty
  <1>2. Readable(Append(none, ev))
    BY <1>1, ObserveAppend
  <1> HIDE DEF none
  <1>3. Observe(v, Append(none, ev)) \in View
    BY <1>2, ObserveAppend
  <1> QED
    BY <1>1, <1>3

LEMMA ObserveOther ==
    ASSUME NEW v, v = [presence |-> v.presence, zones |-> v.zones, movement |-> v.movement]
    PROVE  Observe(v, <<OtherTag>>) = v
  <1> DEFINE one == <<OtherTag>>
  <1>1. /\ one \in Seq(Heard) /\ Len(one) = 1 /\ one[1] = OtherTag /\ 0 \in 0 .. Len(one)
        /\ OtherTag.type # "PRESENCE" /\ OtherTag.type # "ZONE"
    BY DEF Heard, OtherTag
  <1> HIDE DEF one
  <1>2. IsLast(one, "PRESENCE", 0) /\ IsLast(one, "ZONE", 0)
    BY <1>1 DEF IsLast
  <1>3. LastIndex(one, "PRESENCE") = 0 /\ LastIndex(one, "ZONE") = 0
    BY <1>1, <1>2, LastUnique
  <1>4. Observe(v, one) = [presence |-> v.presence, zones |-> v.zones, movement |-> v.movement]
    BY <1>3 DEF Observe
  <1> QED
    BY <1>4 DEF one

\* What Observe returns is a record of the three parts of a view.
LEMMA ObserveRecord ==
    ASSUME NEW v, NEW s
    PROVE  Observe(v, s) = [presence |-> Observe(v, s).presence,
                            zones |-> Observe(v, s).zones,
                            movement |-> Observe(v, s).movement]
  <1> DEFINE p == IF LastIndex(s, "PRESENCE") = 0 THEN v.presence
                    ELSE s[LastIndex(s, "PRESENCE")].presence
             z == IF LastIndex(s, "ZONE") = 0 THEN v.zones ELSE s[LastIndex(s, "ZONE")].zones
             m == IF LastIndex(s, "ZONE") = 0 THEN v.movement
                    ELSE s[LastIndex(s, "ZONE")].movement
  <1>1. Observe(v, s) = [presence |-> p, zones |-> z, movement |-> m]
    BY DEF Observe
  <1> HIDE DEF p, z, m
  <1> QED
    BY <1>1

\* What listening to t makes of one message.
EventOf(t, m) == IF m.tag = t THEN m.ev ELSE OtherTag

LEMMA EventOfType ==
    ASSUME NEW t, NEW m \in Message
    PROVE  /\ EventOf(t, m) \in Heard /\ <<EventOf(t, m)>> \in Seq(Heard)
           /\ m.tag \in Tags /\ m.ev \in Event
           /\ m.tag = t => EventOf(t, m) = m.ev
           /\ m.tag # t => EventOf(t, m) = OtherTag
  BY DEF EventOf, Message, Heard

LEMMA EventsOfType ==
    ASSUME NEW t, NEW q \in Seq(Message)
    PROVE  /\ EventsOf(t, q) \in Seq(Heard) /\ Len(EventsOf(t, q)) = Len(q)
           /\ \A i \in 1 .. Len(q) : EventsOf(t, q)[i] = EventOf(t, q[i])
  <1>1. DOMAIN q = 1 .. Len(q) /\ Len(q) \in Nat /\ \A i \in 1 .. Len(q) : q[i] \in Message
    OBVIOUS
  <1>2. EventsOf(t, q) = [i \in 1 .. Len(q) |-> EventOf(t, q[i])]
    BY <1>1 DEF EventsOf, EventOf
  <1>3. \A i \in 1 .. Len(q) : EventOf(t, q[i]) \in Heard
    BY <1>1, EventOfType
  <1> QED
    BY <1>1, <1>2, <1>3

\* A message at the end, and one at the head, of the queue.
LEMMA EventsOfAppend ==
    ASSUME NEW t, NEW q \in Seq(Message), NEW m \in Message
    PROVE  EventsOf(t, Append(q, m)) = EventsOf(t, q) \o <<EventOf(t, m)>>
  <1> DEFINE a == EventsOf(t, Append(q, m))
             b == EventsOf(t, q) \o <<EventOf(t, m)>>
  <1>1. /\ Append(q, m) \in Seq(Message) /\ Len(Append(q, m)) = Len(q) + 1 /\ Len(q) \in Nat
        /\ Append(q, m)[Len(q) + 1] = m
        /\ \A i \in 1 .. Len(q) : Append(q, m)[i] = q[i]
    OBVIOUS
  <1>2. /\ a \in Seq(Heard) /\ Len(a) = Len(q) + 1
        /\ \A i \in 1 .. Len(q) + 1 : a[i] = EventOf(t, Append(q, m)[i])
    BY <1>1, EventsOfType
  <1>3. /\ EventsOf(t, q) \in Seq(Heard) /\ Len(EventsOf(t, q)) = Len(q)
        /\ \A i \in 1 .. Len(q) : EventsOf(t, q)[i] = EventOf(t, q[i])
        /\ <<EventOf(t, m)>> \in Seq(Heard)
    BY EventsOfType, EventOfType
  <1>4. /\ b \in Seq(Heard) /\ Len(b) = Len(q) + 1 /\ b[Len(q) + 1] = EventOf(t, m)
        /\ \A i \in 1 .. Len(q) : b[i] = EventsOf(t, q)[i]
    BY <1>1, <1>3
  <1> HIDE DEF a, b
  <1>5. \A i \in 1 .. Len(q) + 1 : a[i] = b[i]
    BY <1>1, <1>2, <1>3, <1>4
  <1>6. a = b
    BY <1>2, <1>4, <1>5
  <1> QED
    BY <1>6 DEF a, b

LEMMA ConsIs ==
    ASSUME NEW S, NEW x \in S, NEW q \in Seq(S)
    PROVE  /\ <<x>> \o q \in Seq(S) /\ Len(<<x>> \o q) = Len(q) + 1 /\ Len(q) \in Nat
           /\ (<<x>> \o q)[1] = x
           /\ \A i \in 1 .. Len(q) : (<<x>> \o q)[i + 1] = q[i]
  <1> DEFINE h == <<x>>
  <1>1. h \in Seq(S) /\ Len(h) = 1 /\ h[1] = x
    OBVIOUS
  <1> HIDE DEF h
  <1>2. Len(q) \in Nat /\ h \o q \in Seq(S) /\ Len(h \o q) = Len(q) + 1
    <2>1. Len(q) \in Nat
      OBVIOUS
    <2>2. h \o q \in Seq(S)
      BY <1>1
    <2>3. Len(h \o q) = Len(h) + Len(q)
      BY <1>1, ConcatProperties
    <2> QED
      BY <1>1, <2>1, <2>2, <2>3
  <1>3. (h \o q)[1] = x
    BY <1>1, <1>2
  <1>4. ASSUME NEW i \in 1 .. Len(q) PROVE (h \o q)[i + 1] = q[i]
    <2>1. i + 1 \in 1 .. Len(h) + Len(q) /\ i + 1 > Len(h) /\ (i + 1) - Len(h) = i
      BY <1>1, <1>2
    <2> QED
      BY <1>1, <1>2, <2>1
  <1>5. /\ h \o q \in Seq(S) /\ Len(h \o q) = Len(q) + 1 /\ Len(q) \in Nat
        /\ (h \o q)[1] = x
        /\ \A i \in 1 .. Len(q) : (h \o q)[i + 1] = q[i]
    BY <1>2, <1>3, <1>4
  <1> QED
    BY <1>5, Zenon DEF h

LEMMA EventsOfCons ==
    ASSUME NEW t, NEW q \in Seq(Message), NEW m \in Message
    PROVE  EventsOf(t, <<m>> \o q) = <<EventOf(t, m)>> \o EventsOf(t, q)
  <1> DEFINE p == <<m>> \o q
             a == EventsOf(t, p)
             b == <<EventOf(t, m)>> \o EventsOf(t, q)
  <1>1. /\ p \in Seq(Message) /\ Len(p) = Len(q) + 1 /\ Len(q) \in Nat
        /\ p[1] = m
        /\ \A i \in 1 .. Len(q) : p[i + 1] = q[i]
    BY ConsIs
  <1>2. /\ a \in Seq(Heard) /\ Len(a) = Len(q) + 1
        /\ \A i \in 1 .. Len(q) + 1 : a[i] = EventOf(t, p[i])
    BY <1>1, EventsOfType
  <1>3. /\ EventsOf(t, q) \in Seq(Heard) /\ Len(EventsOf(t, q)) = Len(q)
        /\ \A i \in 1 .. Len(q) : EventsOf(t, q)[i] = EventOf(t, q[i])
        /\ <<EventOf(t, m)>> \in Seq(Heard)
    BY EventsOfType, EventOfType
  <1>4. /\ b \in Seq(Heard) /\ Len(b) = Len(q) + 1 /\ b[1] = EventOf(t, m)
        /\ \A i \in 1 .. Len(q) : b[i + 1] = EventsOf(t, q)[i]
    BY <1>3, EventOfType, ConsIs
  <1> HIDE DEF a, b, p
  <1>5. \A i \in 1 .. Len(q) + 1 : i = 1 \/ (i - 1 \in 1 .. Len(q) /\ (i - 1) + 1 = i)
    BY <1>1
  <1>6. ASSUME NEW i \in 1 .. Len(q) + 1 PROVE a[i] = b[i]
    <2>1. CASE i = 1
      BY <1>1, <1>2, <1>4, <2>1
    <2>2. CASE i # 1
      <3>1. PICK j \in 1 .. Len(q) : i = j + 1
        BY <1>5, <2>2
      <3>2. a[i] = EventOf(t, q[j])
        BY <1>1, <1>2, <3>1
      <3>3. b[i] = EventOf(t, q[j])
        BY <1>3, <1>4, <3>1
      <3> QED
        BY <3>2, <3>3
    <2> QED
      BY <2>1, <2>2
  <1>7. a = b
    BY <1>2, <1>4, <1>6
  <1> QED
    BY <1>7 DEF a, b, p

-----------------------------------------------------------------------------
(***************************************************************************)
(* The inductive invariant of Run: where the events of a datagram or of a  *)
(* sweep can be.  Nothing is left to send while the loop is elsewhere, and *)
(* the emit goroutine holds one event at most.                             *)
(***************************************************************************)
AInv ==
    /\ IInv
    /\ AdapterTypeOK
    /\ EmitInv
    /\ Len(cur) <= 1
    /\ pc # "send" => pending = NothingPending

LEMMA AdapterConstants ==
    /\ EmitChanSize \in Nat /\ EmitChanSize >= 1
    /\ WatchdogTick \in Nat /\ 0 \in 0 .. WatchdogTick
  <1>1. EmitChanSize \in Nat \ {0} /\ WatchdogTick \in Nat \ {0}
    BY AdapterAssumption, Zenon
  <1> QED
    BY <1>1

LEMMA EmptyQueue == <<>> \in Seq(Message) /\ Len(<<>>) = 0
  OBVIOUS

\* The part of the types that a step of the loop or of the context changes.
LoopTypes ==
    /\ pc \in {"bind", "top", "read", "send", "defer", "wait", "returned"}
    /\ result \in {"none", "bind", "ctx", "emit"}
    /\ wait \in 0 .. WatchdogTick
    /\ {chClosed, doomed, errCh, ctxDone, sockClosed} \subseteq BOOLEAN
    /\ epc \in {"none", "recv", "emit", "done"}
    /\ (epc = "emit" <=> cur # <<>>)

PathTypes ==
    /\ pending \in [Tags -> Seq(Event)]
    /\ evCh \in Seq(Message) /\ Len(evCh) <= EmitChanSize
    /\ cur \in Seq(Message)
    /\ delivered \in [Tags -> View]
    /\ dropped \in [Tags -> BOOLEAN]

Paths ==
    /\ Len(cur) <= 1
    /\ pc # "send" => pending = NothingPending

LEMMA AInvParts == AInv <=> IInv /\ LoopTypes /\ PathTypes /\ EmitInv /\ Paths
  BY DEF AInv, AdapterTypeOK, LoopTypes, PathTypes, Paths, IInv

LEMMA NothingPendingType ==
    /\ NothingPending \in [Tags -> Seq(Event)]
    /\ \A t \in Tags : NothingPending[t] = <<>>
  BY ObserveEmpty DEF NothingPending, Readable

\* EmitInv is preserved by every step, as the proof of EmitEndsFirst shows.
LEMMA AdapterInitAInv == AdapterInit => AInv
  <1> SUFFICES ASSUME AdapterInit PROVE AInv
    OBVIOUS
  <1>1. IInv
    BY InitIInv DEF AdapterInit
  <1>2. LoopTypes
    BY AdapterConstants DEF AdapterInit, LoopTypes
  <1>3. PathTypes
    <2>1. pending \in [Tags -> Seq(Event)]
      BY NothingPendingType DEF AdapterInit
    <2>2. evCh \in Seq(Message) /\ Len(evCh) <= EmitChanSize /\ cur \in Seq(Message)
      BY AdapterConstants, EmptyQueue DEF AdapterInit
    <2>3. delivered \in [Tags -> View] /\ dropped \in [Tags -> BOOLEAN]
      BY ZeroTagInv DEF AdapterInit
    <2> QED
      BY <2>1, <2>2, <2>3 DEF PathTypes
  <1>4. EmitInv
    BY DEF AdapterInit, EmitInv
  <1>5. Paths
    BY DEF AdapterInit, Paths
  <1> QED
    BY <1>1, <1>2, <1>3, <1>4, <1>5, AInvParts

\* A message under way is of a tag and carries an event.
LEMMA DeliverType ==
    ASSUME cur \in Seq(Message), cur # <<>>, delivered \in [Tags -> View], Deliver
    PROVE  delivered' \in [Tags -> View]
  <1>1. cur[1] \in Message
    OBVIOUS
  <1>2. cur[1].tag \in Tags /\ cur[1].ev \in Event
    BY <1>1 DEF Message
  <1>3. Observe(delivered[cur[1].tag], <<cur[1].ev>>) \in View
    BY <1>2, ObserveOne
  <1> QED
    BY <1>2, <1>3 DEF Deliver

LEMMA AdapterNextAInv == AInv /\ [AdapterNext]_allVars => AInv'
  <1> SUFFICES ASSUME AInv, [AdapterNext]_allVars PROVE AInv'
    OBVIOUS
  <1>0. IInv /\ LoopTypes /\ PathTypes /\ EmitInv /\ Paths
    BY AInvParts
  <1>1. IInv'
    BY <1>0, AdapterStep, NextIInv
  <1>2. EmitInv'
    BY <1>0, EmitInvStep
  <1>3. emitted' \in [Tags -> Seq(Event)]
    BY <1>1 DEF IInv, TypeOK
  <1> SUFFICES LoopTypes' /\ PathTypes' /\ Paths'
    <2>1. IInv' /\ LoopTypes' /\ PathTypes' /\ EmitInv' /\ Paths' => AInv'
      BY AInvParts DEF AInv, AdapterTypeOK, LoopTypes, PathTypes, Paths, IInv
    <2> QED
      BY <1>1, <1>2, <2>1
  <1>4. CASE Bind \/ BindFails
    <2>1. cur = <<>>
      BY <1>0, <1>4 DEF EmitInv, Bind, BindFails
    <2> QED
      BY <1>0, <1>4, <2>1 DEF Bind, BindFails, LoopTypes, PathTypes, Paths, chanVars, ctxVars
  <1>5. CASE CheckError
    BY <1>0, <1>5, AdapterConstants DEF CheckError, LoopTypes, PathTypes, Paths, chanVars, ctxVars
  <1>6. ASSUME NEW t \in Tags, NEW msg \in Datagram, ReadDatagram(t, msg)
        PROVE  LoopTypes' /\ PathTypes' /\ Paths'
    BY <1>0, <1>3, <1>6 DEF ReadDatagram, LoopTypes, PathTypes, Paths, chanVars, emitVars, ctxVars
  <1>7. CASE ReadDeadline
    BY <1>0, <1>3, <1>7 DEF ReadDeadline, LoopTypes, PathTypes, Paths, chanVars, emitVars, ctxVars
  <1>8. CASE ReadNoise \/ ReadCancelled \/ Continue
    BY <1>0, <1>8 DEF ReadNoise, ReadCancelled, Continue, LoopTypes, PathTypes, Paths,
       chanVars, emitVars, ctxVars
  <1>9. CASE CloseChannel \/ Return
    BY <1>0, <1>9 DEF CloseChannel, Return, LoopTypes, PathTypes, Paths, chanVars, emitVars, ctxVars
  <1>10. ASSUME NEW t \in Tags, Send(t)
         PROVE  LoopTypes' /\ PathTypes' /\ Paths'
    <2>1. pending[t] \in Seq(Event) /\ pending[t] # <<>>
      BY <1>0, <1>10 DEF PathTypes, Send
    <2>2. Head(pending[t]) \in Event /\ Tail(pending[t]) \in Seq(Event)
      BY <2>1
    <2>3. [tag |-> t, ev |-> Head(pending[t])] \in Message
      BY <2>2 DEF Message
    <2>4. pending' \in [Tags -> Seq(Event)]
      BY <1>0, <1>10, <2>2 DEF Send, PathTypes
    <2>5. dropped' \in [Tags -> BOOLEAN]
      BY <1>0, <1>10 DEF Send, PathTypes
    <2>6. evCh' \in Seq(Message) /\ Len(evCh') <= EmitChanSize
      <3> DEFINE m == [tag |-> t, ev |-> Head(pending[t])]
      <3>1. (Len(evCh) < EmitChanSize /\ evCh' = Append(evCh, m)) \/ evCh' = evCh
        BY <1>10 DEF Send
      <3>2. m \in Message
        BY <2>3
      <3> HIDE DEF m
      <3>3. evCh \in Seq(Message) /\ Len(evCh) <= EmitChanSize
        BY <1>0 DEF PathTypes
      <3>4. /\ Append(evCh, m) \in Seq(Message) /\ Len(Append(evCh, m)) = Len(evCh) + 1
            /\ Len(evCh) \in Nat
        BY <3>2, <3>3
      <3>5. CASE Len(evCh) < EmitChanSize /\ evCh' = Append(evCh, m)
        BY <3>4, <3>5, AdapterConstants
      <3>6. CASE evCh' = evCh
        BY <3>3, <3>6
      <3> QED
        BY <3>1, <3>5, <3>6
    <2> QED
      BY <1>0, <1>10, <2>4, <2>5, <2>6 DEF Send, LoopTypes, PathTypes, Paths, emitVars, ctxVars
  <1>11. CASE EmitReceive
    <2>1. evCh \in Seq(Message) /\ evCh # <<>>
      BY <1>0, <1>11 DEF PathTypes, EmitReceive
    <2>2. /\ Head(evCh) \in Message /\ Tail(evCh) \in Seq(Message)
          /\ Len(Tail(evCh)) = Len(evCh) - 1 /\ Len(evCh) \in Nat
      BY <2>1
    <2>3. <<Head(evCh)>> \in Seq(Message) /\ <<Head(evCh)>> # <<>> /\ Len(<<Head(evCh)>>) = 1
      BY <2>2
    <2>4. evCh' \in Seq(Message) /\ Len(evCh') <= EmitChanSize
      BY <1>0, <1>11, <2>2, AdapterConstants DEF EmitReceive, PathTypes
    <2>5. cur' \in Seq(Message) /\ cur' # <<>> /\ Len(cur') <= 1
      BY <1>11, <2>3 DEF EmitReceive
    <2> QED
      BY <1>0, <1>11, <2>4, <2>5 DEF EmitReceive, LoopTypes, PathTypes, Paths, ctxVars
  <1>12. CASE EmitEOF
    BY <1>0, <1>12 DEF EmitEOF, LoopTypes, PathTypes, Paths, EmitInv, chanVars, ctxVars
  <1>13. CASE EmitOk \/ EmitError
    <2>1. cur \in Seq(Message) /\ cur # <<>> /\ delivered \in [Tags -> View]
      BY <1>0, <1>13 DEF EmitOk, EmitError, LoopTypes, PathTypes
    <2>2. delivered' \in [Tags -> View]
      BY <1>13, <2>1, DeliverType DEF EmitOk, EmitError
    <2>3. cur' = <<>>
      BY <1>13 DEF EmitOk, EmitError
    <2>4. cur' \in Seq(Message) /\ Len(cur') <= 1
      BY <2>3, EmptyQueue
    <2> QED
      BY <1>0, <1>13, <2>2, <2>3, <2>4 DEF EmitOk, EmitError, LoopTypes, PathTypes, Paths, chanVars, ctxVars
  <1>14. CASE Cancel \/ CloseSocket
    BY <1>0, <1>14 DEF Cancel, CloseSocket, LoopTypes, PathTypes, Paths, chanVars, emitVars
  <1>15. CASE Clock
    <2>1. wait' \in 0 .. WatchdogTick
      BY <1>0, <1>15, AdapterConstants DEF Clock, LoopTypes
    <2> QED
      BY <1>0, <1>15, <2>1 DEF Clock, LoopTypes, PathTypes, Paths, chanVars, emitVars, ctxVars
  <1>16. CASE UNCHANGED allVars
    BY <1>0, <1>16 DEF allVars, LoopTypes, PathTypes, Paths, chanVars, emitVars, ctxVars
  <1> QED
    BY <1>4, <1>5, <1>6, <1>7, <1>8, <1>9, <1>10, <1>11, <1>12, <1>13, <1>14, <1>15, <1>16
       DEF AdapterNext, LoopStep

THEOREM AdapterInductive == AdapterSpec => []AInv
  BY AdapterInitAInv, AdapterNextAInv, PTL DEF AdapterSpec

\* Run keeps to its types, and its channel to its capacity, for every
\* interleaving of its goroutines.
THEOREM AdapterTypeCorrect == AdapterSpec => []AdapterTypeOK
  <1>1. AInv => AdapterTypeOK
    BY DEF AInv
  <1> QED
    BY <1>1, AdapterInductive, PTL

-----------------------------------------------------------------------------
\* A queue is its head and then its tail.
LEMMA HeadThenTail ==
    ASSUME NEW S, NEW q \in Seq(S), q # <<>>
    PROVE  q = <<Head(q)>> \o Tail(q)
  <1> DEFINE x == Head(q)
             r == Tail(q)
             c == <<x>> \o r
  <1>1. x \in S /\ r \in Seq(S) /\ Len(r) = Len(q) - 1 /\ Len(q) \in Nat /\ Len(q) # 0
        /\ x = q[1] /\ \A i \in 1 .. Len(r) : r[i] = q[i + 1]
    OBVIOUS
  <1> HIDE DEF x, r
  <1>2. c \in Seq(S) /\ Len(c) = Len(r) + 1 /\ c[1] = x
        /\ \A i \in 1 .. Len(r) : c[i + 1] = r[i]
    BY <1>1, ConsIs
  <1> HIDE DEF c
  <1>3. Len(c) = Len(q) /\ Len(q) \in Nat
    BY <1>1, <1>2
  <1>4. ASSUME NEW i \in 1 .. Len(q) PROVE c[i] = q[i]
    <2>1. CASE i = 1
      BY <1>1, <1>2, <2>1
    <2>2. CASE i # 1
      <3>1. PICK j \in 1 .. Len(r) : i = j + 1
        <4>1. i - 1 \in 1 .. Len(r) /\ i = (i - 1) + 1
          BY <1>1, <2>2
        <4> QED
          BY <4>1
      <3> QED
        BY <1>1, <1>2, <3>1
    <2> QED
      BY <2>1, <2>2
  <1>5. c = q
    BY <1>2, <1>3, <1>4
  <1> QED
    BY <1>5 DEF c, x, r

\* An event appended to the channel is at the end of the whole path.
LEMMA ConcatAppend ==
    ASSUME NEW S, NEW p \in Seq(S), NEW q \in Seq(S), NEW x \in S
    PROVE  p \o Append(q, x) = Append(p \o q, x)
  <1>1. <<x>> \in Seq(S) /\ p \o q \in Seq(S)
    BY ConcatProperties
  <1>2. Append(q, x) = q \o <<x>> /\ Append(p \o q, x) = (p \o q) \o <<x>>
    BY <1>1, AppendIsConcat
  <1>3. (p \o q) \o <<x>> = p \o (q \o <<x>>)
    BY <1>1, ConcatAssociative
  <1> QED
    BY <1>2, <1>3

\* QueueCarriesView from before the emit goroutine starts, as it must be for
\* the induction.
Carries ==
    \A t \in Tags :
        ~dropped[t] /\ epc # "done" => Observe(delivered[t], InFlight(t)) = view[t]

\* What is under way says what the queue says, and then what is still to send.
LEMMA InFlightIs ==
    ASSUME AInv, NEW t \in Tags
    PROVE  /\ cur \o evCh \in Seq(Message)
           /\ EventsOf(t, cur \o evCh) \in Seq(Heard)
           /\ pending[t] \in Seq(Event) /\ pending[t] \in Seq(Heard)
           /\ delivered[t] \in View
           /\ \A v : Observe(v, InFlight(t))
                       = Observe(Observe(v, EventsOf(t, cur \o evCh)), pending[t])
  <1>1. cur \in Seq(Message) /\ evCh \in Seq(Message) /\ pending[t] \in Seq(Event)
        /\ delivered[t] \in View
    BY DEF AInv, AdapterTypeOK
  <1>2. cur \o evCh \in Seq(Message)
    BY <1>1, ConcatProperties
  <1>3. EventsOf(t, cur \o evCh) \in Seq(Heard)
    BY <1>2, EventsOfType
  <1>4. pending[t] \in Seq(Heard)
    BY <1>1 DEF Heard
  <1>5. \A v : Observe(v, EventsOf(t, cur \o evCh) \o pending[t])
                 = Observe(Observe(v, EventsOf(t, cur \o evCh)), pending[t])
    BY <1>3, <1>4, ObserveConcat
  <1> QED
    BY <1>1, <1>2, <1>3, <1>4, <1>5 DEF InFlight

\* deriveEvents and the sweep announce what the events say.
LEMMA DetectorTells ==
    ASSUME IInv, NEW t \in Tags,
           Watchdog \/ \E u \in Tags, msg \in Datagram : Receive(u, msg)
    PROVE  view'[t] = Observe(view[t], emitted'[t])
  <1>1. view \in [Tags -> View] /\ view[t] \in View
    BY DEF IInv, TypeOK
  <1>2. CASE Watchdog
    BY <1>2 DEF Watchdog
  <1>3. ASSUME NEW u \in Tags, NEW msg \in Datagram, Receive(u, msg)
        PROVE  view'[t] = Observe(view[t], emitted'[t])
    <2>1. CASE t = u
      BY <1>1, <1>3, <2>1 DEF Receive
    <2>2. CASE t # u
      <3>1. view'[t] = view[t] /\ emitted'[t] = <<>>
        BY <1>1, <1>3, <2>2 DEF Receive
      <3> QED
        BY <1>1, <3>1, ObserveEmpty
    <2> QED
      BY <2>1, <2>2
  <1> QED
    BY <1>2, <1>3

\* A step that takes no event off the path and puts none on it.
LEMMA PathSame ==
    ASSUME Carries, UNCHANGED <<view, delivered, pending, dropped>>,
           cur' \o evCh' = cur \o evCh, epc' # "done" => epc # "done"
    PROVE  Carries'
  <1> SUFFICES ASSUME NEW t \in Tags, ~dropped'[t], epc' # "done"
               PROVE  Observe(delivered'[t], InFlight(t)') = view'[t]
    BY DEF Carries
  <1>1. InFlight(t)' = InFlight(t)
    BY DEF InFlight
  <1>2. Observe(delivered[t], InFlight(t)) = view[t]
    BY DEF Carries
  <1> QED
    BY <1>1, <1>2

\* New events are derived while none waits to be sent.
LEMMA NewEvents ==
    ASSUME AInv, AInv', Carries, pc # "send",
           Watchdog \/ \E u \in Tags, msg \in Datagram : Receive(u, msg),
           pending' = emitted', UNCHANGED <<delivered, dropped, cur, evCh, epc>>
    PROVE  Carries'
  <1> SUFFICES ASSUME NEW t \in Tags, ~dropped'[t], epc' # "done"
               PROVE  Observe(delivered'[t], InFlight(t)') = view'[t]
    BY DEF Carries
  <1> DEFINE q == EventsOf(t, cur \o evCh)
             w == Observe(delivered[t], q)
  <1>1. Observe(delivered[t], InFlight(t)) = view[t]
    BY DEF Carries
  <1>2. q \in Seq(Heard) /\ pending[t] = <<>> /\ delivered[t] \in View
    BY InFlightIs, NothingPendingType DEF AInv
  <1>3. InFlight(t) = q
    <2>1. InFlight(t) = q \o <<>>
      BY <1>2 DEF InFlight
    <2> QED
      BY <1>2, <2>1, ConcatEmptySeq
  <1>4. w = view[t]
    BY <1>1, <1>3
  <1>5. pending'[t] \in Seq(Heard)
    <2>1. pending'[t] \in Seq(Event)
      BY DEF AInv, AdapterTypeOK
    <2> QED
      BY <2>1 DEF Heard
  <1>6. InFlight(t)' = q \o pending'[t]
    BY DEF InFlight
  <1>7. Observe(delivered[t], q \o pending'[t]) = Observe(w, pending'[t])
    BY <1>2, <1>5, ObserveConcat
  <1>8. view'[t] = Observe(view[t], emitted'[t])
    BY DetectorTells DEF AInv
  <1> QED
    BY <1>4, <1>6, <1>7, <1>8

\* send moves the next event of t from what is pending into the channel, where
\* only those who listen to t hear it.
LEMMA SendCarries ==
    ASSUME AInv, AInv', Carries, NEW t \in Tags, Send(t)
    PROVE  Carries'
  <1> SUFFICES ASSUME NEW u \in Tags, ~dropped'[u], epc' # "done"
               PROVE  Observe(delivered'[u], InFlight(u)') = view'[u]
    BY DEF Carries
  <1> DEFINE e == Head(pending[t])
             m == [tag |-> t, ev |-> e]
             q == cur \o evCh
             v == delivered[u]
             w == Observe(v, EventsOf(u, q))
  <1>1. /\ pc = "send" /\ pending[t] # <<>>
        /\ pending' = [pending EXCEPT ![t] = Tail(@)]
        /\ delivered' = delivered /\ view' = view /\ cur' = cur /\ epc' = epc
        /\ \/ evCh' = Append(evCh, m) /\ dropped' = dropped
           \/ dropped' = [dropped EXCEPT ![t] = TRUE] /\ evCh' = evCh
    BY DEF Send, emitVars, detectorVars
  <1>2. /\ pending \in [Tags -> Seq(Event)] /\ dropped \in [Tags -> BOOLEAN]
        /\ cur \in Seq(Message) /\ evCh \in Seq(Message) /\ v \in View
    BY DEF AInv, AdapterTypeOK
  <1>3. e \in Event /\ Tail(pending[t]) \in Seq(Event) /\ pending[t] = <<e>> \o Tail(pending[t])
    <2>1. pending[t] \in Seq(Event) /\ pending[t] # <<>>
      BY <1>1, <1>2
    <2> HIDE DEF e
    <2>2. Head(pending[t]) \in Event /\ Tail(pending[t]) \in Seq(Event)
      BY <2>1
    <2>3. pending[t] = <<Head(pending[t])>> \o Tail(pending[t])
      BY <2>1, HeadThenTail
    <2> QED
      BY <2>2, <2>3 DEF e
  <1>4. m \in Message /\ m.tag = t /\ m.ev = e
    BY <1>3 DEF Message
  <1>5. q \in Seq(Message) /\ EventsOf(u, q) \in Seq(Heard)
    BY InFlightIs
  <1>6. ~dropped[u]
    BY <1>1, <1>2
  <1>7. Observe(w, pending[u]) = view[u]
    BY <1>1, <1>6, InFlightIs DEF Carries
  <1>8. Observe(delivered'[u], InFlight(u)')
          = Observe(Observe(v, EventsOf(u, cur' \o evCh')), pending'[u])
    <2>1. /\ EventsOf(u, cur' \o evCh') \in Seq(Heard) /\ pending'[u] \in Seq(Heard)
      <3>1. cur' \in Seq(Message) /\ evCh' \in Seq(Message) /\ pending'[u] \in Seq(Event)
        BY DEF AInv, AdapterTypeOK
      <3>2. cur' \o evCh' \in Seq(Message)
        BY <3>1, ConcatProperties
      <3>3. EventsOf(u, cur' \o evCh') \in Seq(Heard)
        BY <3>2, EventsOfType
      <3>4. pending'[u] \in Seq(Heard)
        BY <3>1 DEF Heard
      <3> QED
        BY <3>3, <3>4
    <2>2. InFlight(u)' = EventsOf(u, cur' \o evCh') \o pending'[u]
      BY DEF InFlight
    <2>3. Observe(v, EventsOf(u, cur' \o evCh') \o pending'[u])
            = Observe(Observe(v, EventsOf(u, cur' \o evCh')), pending'[u])
      BY <2>1, ObserveConcat
    <2> QED
      BY <1>1, <2>2, <2>3
  <1>9. CASE evCh' = Append(evCh, m)
    <2>1. cur' \o evCh' = Append(q, m)
      <3>1. cur \o Append(evCh, m) = Append(cur \o evCh, m)
        BY <1>2, <1>4, ConcatAppend
      <3> QED
        BY <1>1, <1>9, <3>1
    <2>2. EventsOf(u, cur' \o evCh') = EventsOf(u, q) \o <<EventOf(u, m)>>
      BY <1>4, <1>5, <2>1, EventsOfAppend
    <2>3. <<EventOf(u, m)>> \in Seq(Heard)
      BY <1>4, EventOfType
    <2>4. Observe(v, EventsOf(u, cur' \o evCh')) = Observe(w, <<EventOf(u, m)>>)
      <3> HIDE DEF m, q, v
      <3>1. Observe(v, EventsOf(u, q) \o <<EventOf(u, m)>>)
              = Observe(Observe(v, EventsOf(u, q)), <<EventOf(u, m)>>)
        BY <1>5, <2>3, ObserveConcat
      <3> QED
        BY <2>2, <3>1
    <2>5. CASE u = t
      <3>1. EventOf(u, m) = e /\ pending'[u] = Tail(pending[t])
        BY <1>1, <1>2, <1>4, <2>5, EventOfType
      <3>2. <<e>> \in Seq(Heard) /\ Tail(pending[t]) \in Seq(Heard)
        BY <1>3, <2>3, <3>1 DEF Heard
      <3>3. Observe(Observe(w, <<e>>), Tail(pending[t])) = Observe(w, <<e>> \o Tail(pending[t]))
        BY <3>2, ObserveConcat
      <3> QED
        BY <1>1, <1>3, <1>7, <1>8, <2>4, <2>5, <3>1, <3>3
    <2>6. CASE u # t
      <3>1. EventOf(u, m) = OtherTag /\ pending'[u] = pending[u]
        BY <1>1, <1>2, <1>4, <2>6, EventOfType
      <3>2. Observe(w, <<OtherTag>>) = w
        BY ObserveRecord, ObserveOther
      <3> QED
        BY <1>1, <1>7, <1>8, <2>4, <3>1, <3>2
    <2> QED
      BY <2>5, <2>6
  <1>10. CASE dropped' = [dropped EXCEPT ![t] = TRUE] /\ evCh' = evCh
    <2>1. u # t
      BY <1>2, <1>10
    <2>2. pending'[u] = pending[u]
      BY <1>1, <1>2, <2>1
    <2> QED
      BY <1>1, <1>7, <1>8, <1>10, <2>2
  <1> QED
    BY <1>1, <1>9, <1>10

\* The emit goroutine takes the head of the queue, and hands it on.
LEMMA ReceiveCarries ==
    ASSUME AInv, Carries, EmitReceive
    PROVE  Carries'
  <1>1. evCh \in Seq(Message) /\ evCh # <<>> /\ cur = <<>>
    BY DEF AInv, AdapterTypeOK, EmitInv, EmitReceive
  <1>2. evCh = <<Head(evCh)>> \o Tail(evCh)
    BY <1>1, HeadThenTail
  <1>3. cur \o evCh = evCh
    BY <1>1, ConcatEmptySeq
  <1>4. cur' \o evCh' = cur \o evCh
    BY <1>2, <1>3 DEF EmitReceive
  <1> QED
    BY <1>4, PathSame DEF EmitReceive, detectorVars

LEMMA EmitCarries ==
    ASSUME AInv, Carries, EmitOk
    PROVE  Carries'
  <1> SUFFICES ASSUME NEW t \in Tags, ~dropped'[t], epc' # "done"
               PROVE  Observe(delivered'[t], InFlight(t)') = view'[t]
    BY DEF Carries
  <1> DEFINE m == cur[1]
             v == delivered[t]
             x == EventOf(t, m)
             q == EventsOf(t, evCh)
             h == <<x>>
  <1>1. /\ evCh \in Seq(Message) /\ cur \in Seq(Message) /\ cur # <<>> /\ Len(cur) <= 1
        /\ delivered \in [Tags -> View] /\ v \in View /\ pending[t] \in Seq(Event)
    BY DEF AInv, AdapterTypeOK, EmitOk
  <1>2. m \in Message /\ cur = <<m>>
    <2>1. cur \in Seq(Message) /\ Len(cur) \in Nat /\ Len(cur) # 0 /\ Len(cur) <= 1
      BY <1>1
    <2>2. Len(cur) = 1
      <3>1. \A n \in Nat : n # 0 /\ n <= 1 => n = 1
        OBVIOUS
      <3> QED
        BY <2>1, <3>1
    <2>3. cur[1] \in Message /\ cur = <<cur[1]>>
      BY <2>1, <2>2
    <2> QED
      BY <2>3
  <1>3. /\ epc = "emit" /\ epc' = "recv" /\ cur' = <<>> /\ evCh' = evCh /\ view' = view
        /\ pending' = pending /\ dropped' = dropped
        /\ delivered' = [delivered EXCEPT ![m.tag] = Observe(@, <<m.ev>>)]
    BY DEF EmitOk, Deliver, detectorVars, chanVars
  <1>4. /\ m.tag \in Tags /\ h \in Seq(Heard)
        /\ (m.tag = t => x = m.ev) /\ (m.tag # t => x = OtherTag)
    BY <1>2, EventOfType
  <1>5. q \in Seq(Heard) /\ pending[t] \in Seq(Heard)
    BY <1>1, EventsOfType DEF Heard
  <1>6. EventsOf(t, cur \o evCh) = h \o q
    BY <1>1, <1>2, EventsOfCons
  <1>7. Observe(v, InFlight(t)) = view[t]
    BY <1>3 DEF Carries
  <1>8. Observe(v, InFlight(t)) = Observe(Observe(v, h \o q), pending[t])
    BY <1>6, InFlightIs
  <1>9. Observe(v, h \o q) = Observe(Observe(v, h), q)
    BY <1>4, <1>5, ObserveConcat
  <1>10. delivered'[t] = Observe(v, h)
    <2>1. CASE m.tag = t
      BY <1>1, <1>3, <1>4, <2>1
    <2>2. CASE m.tag # t
      <3>1. v = [presence |-> v.presence, zones |-> v.zones, movement |-> v.movement]
        BY <1>1 DEF View
      <3>2. Observe(v, <<OtherTag>>) = v
        BY <3>1, ObserveOther
      <3>3. delivered'[t] = v
        BY <1>1, <1>3, <2>2
      <3> QED
        BY <1>4, <2>2, <3>2, <3>3
    <2> QED
      BY <2>1, <2>2
  <1>11. InFlight(t)' = q \o pending[t]
    <2>1. cur' \o evCh' = evCh
      BY <1>1, <1>3, ConcatEmptySeq
    <2> QED
      BY <1>3, <2>1 DEF InFlight
  <1>12. Observe(delivered'[t], q \o pending[t]) = Observe(Observe(delivered'[t], q), pending[t])
    BY <1>5, ObserveConcat
  <1> QED
    BY <1>3, <1>7, <1>8, <1>9, <1>10, <1>11, <1>12

LEMMA NextCarries == AInv /\ AInv' /\ Carries /\ [AdapterNext]_allVars => Carries'
  <1> SUFFICES ASSUME AInv, AInv', Carries, [AdapterNext]_allVars PROVE Carries'
    OBVIOUS
  <1> USE DEF detectorVars, chanVars, emitVars
  <1>1. CASE Bind \/ BindFails \/ CheckError \/ ReadCancelled \/ Continue
               \/ CloseChannel \/ Return \/ ReadNoise
    <2>1. /\ UNCHANGED <<view, delivered, pending, dropped, cur, evCh>>
          /\ epc' # "done" => epc # "done"
      BY <1>1 DEF Bind, BindFails, CheckError, ReadCancelled, Continue, CloseChannel,
         Return, ReadNoise, AInv, EmitInv
    <2> QED
      BY <2>1, PathSame
  <1>2. ASSUME NEW t \in Tags, NEW msg \in Datagram, ReadDatagram(t, msg)
        PROVE  Carries'
    BY <1>2, NewEvents DEF ReadDatagram
  <1>3. CASE ReadDeadline
    BY <1>3, NewEvents DEF ReadDeadline
  <1>4. ASSUME NEW t \in Tags, Send(t)
        PROVE  Carries'
    BY <1>4, SendCarries
  <1>5. CASE EmitReceive
    BY <1>5, ReceiveCarries
  <1>6. CASE EmitOk
    BY <1>6, EmitCarries
  <1>7. CASE EmitEOF \/ EmitError
    BY <1>7 DEF EmitEOF, EmitError, Carries
  <1>8. CASE Cancel \/ CloseSocket
    <2>1. UNCHANGED <<view, delivered, pending, dropped, cur, evCh, epc>>
      BY <1>8 DEF Cancel, CloseSocket
    <2> QED
      BY <2>1, PathSame
  <1>9. CASE Clock \/ UNCHANGED allVars
    <2>1. UNCHANGED <<view, delivered, pending, dropped, cur, evCh, epc>>
      BY <1>9 DEF Clock, Tick, allVars
    <2> QED
      BY <2>1, PathSame
  <1> QED
    BY <1>1, <1>2, <1>3, <1>4, <1>5, <1>6, <1>7, <1>8, <1>9 DEF AdapterNext, LoopStep

\* For any number of tags, any capacity of evCh and any schedule of the two
\* goroutines: as long as no event of a tag is dropped and emit does not fail,
\* nothing of it is lost or reordered between deriveEvents and emit.
THEOREM QueueCorrect == AdapterSpec => []QueueCarriesView
  <1>1. AdapterInit => Carries
    <2> SUFFICES ASSUME AdapterInit, NEW t \in Tags
                 PROVE  Observe(delivered[t], InFlight(t)) = view[t]
      BY DEF Carries
    <2>1. /\ cur = <<>> /\ evCh = <<>> /\ pending[t] = <<>> /\ delivered[t] = NoView
          /\ view[t] = NoView
      BY NothingPendingType DEF AdapterInit, Init
    <2>2. /\ EventsOf(t, cur \o evCh) \in Seq(Heard) /\ Len(EventsOf(t, cur \o evCh)) = 0
      <3>1. cur \o evCh = <<>>
        BY <2>1
      <3> QED
        BY <3>1, EmptyQueue, EventsOfType
    <2>3. EventsOf(t, cur \o evCh) = <<>>
      BY <2>2
    <2>4. InFlight(t) = <<>>
      BY <2>1, <2>3 DEF InFlight
    <2> QED
      BY <2>1, <2>4, ZeroTagInv, ObserveEmpty
  <1>2. Carries => QueueCarriesView
    BY DEF Carries, QueueCarriesView
  <1> QED
    BY <1>1, <1>2, NextCarries, AdapterInductive, PTL DEF AdapterSpec
=============================================================================

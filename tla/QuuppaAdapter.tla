--------------------------- MODULE QuuppaAdapter ----------------------------
(***************************************************************************)
(* Adapter.Run (internal/adapters/quuppa/adapter.go): the loop that reads  *)
(* datagrams under a deadline, the watchdog sweep it runs when a deadline  *)
(* expires, the bounded channel evCh into which it sends events without    *)
(* ever blocking, the goroutine that takes them out and calls emit, the    *)
(* goroutine that closes the socket on cancellation, and the shutdown.     *)
(*                                                                         *)
(* The tag states and the events they produce are those of TagDetector:    *)
(* every step of the loop that touches them is a step of that module.      *)
(*                                                                         *)
(* emit is external here (Service.handleEvent, then Repository.Write): it  *)
(* succeeds, or fails once the context is cancelled or the store refuses.  *)
(***************************************************************************)
EXTENDS TagDetector

CONSTANTS
    EmitChanSize,  \* capacity of evCh
    WatchdogTick,  \* read deadline, in the unit of OfflineThreshold
    Noise,         \* do undecodable datagrams or read errors occur?
    Cancels,       \* can the context be cancelled?
    EmitFails,     \* can the store refuse an event?
    Prompt         \* does the loop run without delay of its own?

ASSUME AdapterAssumption ==
    /\ EmitChanSize \in Nat \ {0}
    /\ WatchdogTick \in Nat \ {0}
    /\ {Noise, Cancels, EmitFails, Prompt} \subseteq BOOLEAN

VARIABLES
    pc,         \* where Run is
    result,     \* what Run is about to return
    wait,       \* time since SetReadDeadline, saturating at WatchdogTick
    pending,    \* pending[t]: events of t derived and not yet sent
    evCh,       \* the buffered channel: a sequence of [tag, ev]
    chClosed,   \* close(evCh) has happened
    epc,        \* where the emit goroutine is
    cur,        \* what it is emitting: <<>> or a sequence of one [tag, ev]
    doomed,     \* its call of emit began after the cancellation
    errCh,      \* an emit error is waiting to be read
    ctxDone,    \* the context is cancelled
    sockClosed, \* the socket is closed
    delivered,  \* delivered[t]: the view of t at the other end of emit
    dropped     \* dropped[t]: an event of t met a full channel (history)

detectorVars == <<states, emitted, view, hadFix>>
chanVars == <<evCh, chClosed>>
emitVars == <<epc, cur, doomed, errCh, delivered>>
ctxVars == <<ctxDone, sockClosed>>
allVars == <<detectorVars, pc, result, wait, pending, chanVars, emitVars,
             ctxVars, dropped>>

Message == [tag : Tags, ev : Event]

NothingPending == [t \in Tags |-> <<>>]

AdapterInit ==
    /\ Init
    /\ pc = "bind" /\ result = "none" /\ wait = 0
    /\ pending = NothingPending
    /\ evCh = <<>> /\ chClosed = FALSE
    /\ epc = "none" /\ cur = <<>> /\ doomed = FALSE /\ errCh = FALSE
    /\ ctxDone = FALSE /\ sockClosed = FALSE
    /\ delivered = [t \in Tags |-> NoView]
    /\ dropped = [t \in Tags |-> FALSE]

-----------------------------------------------------------------------------
\* The read loop.

\* net.ListenPacket succeeds and the goroutines start, or Run returns at once.
Bind ==
    /\ pc = "bind"
    /\ pc' = "top" /\ epc' = "recv"
    /\ UNCHANGED <<detectorVars, result, wait, pending, chanVars, cur, doomed,
                   errCh, delivered, ctxVars, dropped>>

BindFails ==
    /\ pc = "bind"
    /\ pc' = "returned" /\ result' = "bind" /\ epc' = "done"
    /\ UNCHANGED <<detectorVars, wait, pending, chanVars, cur, doomed, errCh,
                   delivered, ctxVars, dropped>>

\* Mutant: the loop never looks into errCh.
MutCheckError ==
    /\ pc = "top"
    /\ pc' = "read" /\ wait' = 0
    /\ UNCHANGED <<detectorVars, result, pending, chanVars, emitVars, ctxVars, dropped>>

\* The head of the loop: an emit error ends it, else the deadline is set.
CheckError ==
    /\ pc = "top"
    /\ IF errCh
         THEN pc' = "defer" /\ result' = "emit" /\ errCh' = FALSE /\ UNCHANGED wait
         ELSE pc' = "read" /\ wait' = 0 /\ UNCHANGED <<result, errCh>>
    /\ UNCHANGED <<detectorVars, pending, chanVars, epc, cur, doomed, delivered,
                   ctxVars, dropped>>

\* A well-formed datagram arrives before the deadline, or is read late by a
\* loop that is not prompt.
ReadDatagram(t, msg) ==
    /\ pc = "read" /\ ~sockClosed
    /\ Prompt => wait < WatchdogTick
    /\ Receive(t, msg)
    /\ pending' = emitted'
    /\ pc' = "send"
    /\ UNCHANGED <<result, wait, chanVars, emitVars, ctxVars, dropped>>

\* A datagram that parseDatagram rejects, or a read error: log and continue.
ReadNoise ==
    /\ Noise
    /\ pc = "read" /\ ~sockClosed
    /\ pc' = "top"
    /\ UNCHANGED <<detectorVars, result, wait, pending, chanVars, emitVars, ctxVars, dropped>>

\* The deadline expires before a datagram comes: sweep, unless cancelled.
ReadDeadline ==
    /\ pc = "read" /\ ~sockClosed /\ wait = WatchdogTick /\ ~ctxDone
    /\ Watchdog
    /\ pending' = emitted'
    /\ pc' = "send"
    /\ UNCHANGED <<result, wait, chanVars, emitVars, ctxVars, dropped>>

\* The read fails and the context is cancelled: return ctx.Err().
ReadCancelled ==
    /\ pc = "read" /\ ctxDone
    /\ sockClosed \/ wait = WatchdogTick
    /\ pc' = "defer" /\ result' = "ctx"
    /\ UNCHANGED <<detectorVars, wait, pending, chanVars, emitVars, ctxVars, dropped>>

\* Mutant: the channel is taken for full one event too late.
MutSend(t) ==
    /\ pc = "send" /\ pending[t] # <<>>
    /\ pending' = [pending EXCEPT ![t] = Tail(@)]
    /\ IF Len(evCh) <= EmitChanSize
         THEN /\ evCh' = Append(evCh, [tag |-> t, ev |-> Head(pending[t])])
              /\ UNCHANGED dropped
         ELSE /\ dropped' = [dropped EXCEPT ![t] = TRUE]
              /\ UNCHANGED evCh
    /\ UNCHANGED <<detectorVars, pc, result, wait, chClosed, emitVars, ctxVars>>

\* send: the channel takes the next event of t, or it is full and drops it.
Send(t) ==
    /\ pc = "send" /\ pending[t] # <<>>
    /\ pending' = [pending EXCEPT ![t] = Tail(@)]
    /\ IF Len(evCh) < EmitChanSize
         THEN /\ evCh' = Append(evCh, [tag |-> t, ev |-> Head(pending[t])])
              /\ UNCHANGED dropped
         ELSE /\ dropped' = [dropped EXCEPT ![t] = TRUE]
              /\ UNCHANGED evCh
    /\ UNCHANGED <<detectorVars, pc, result, wait, chClosed, emitVars, ctxVars>>

\* Every event was sent or dropped: the loop goes round.
Continue ==
    /\ pc = "send" /\ pending = NothingPending
    /\ pc' = "top"
    /\ UNCHANGED <<detectorVars, result, wait, pending, chanVars, emitVars, ctxVars, dropped>>

\* Mutant: Run waits for the emit goroutine without closing the channel.
MutCloseChannel ==
    /\ pc = "defer"
    /\ pc' = "wait"
    /\ UNCHANGED <<detectorVars, result, wait, pending, chanVars, emitVars, ctxVars, dropped>>

\* The deferred function: close(evCh) ...
CloseChannel ==
    /\ pc = "defer"
    /\ pc' = "wait" /\ chClosed' = TRUE
    /\ UNCHANGED <<detectorVars, result, wait, pending, evCh, emitVars, ctxVars, dropped>>

\* Mutant: the deferred function does not wait for the emit goroutine.
MutReturn ==
    /\ pc = "wait"
    /\ pc' = "returned"
    /\ UNCHANGED <<detectorVars, result, wait, pending, chanVars, emitVars, ctxVars, dropped>>

\* ... and wg.Wait(), after which Run returns.
Return ==
    /\ pc = "wait" /\ epc = "done"
    /\ pc' = "returned"
    /\ UNCHANGED <<detectorVars, result, wait, pending, chanVars, emitVars, ctxVars, dropped>>

-----------------------------------------------------------------------------
\* The emit goroutine.

\* Mutant: the newest event of the channel is taken first.
MutEmitReceive ==
    /\ epc = "recv" /\ evCh # <<>>
    /\ epc' = "emit" /\ cur' = <<evCh[Len(evCh)]>>
    /\ evCh' = SubSeq(evCh, 1, Len(evCh) - 1)
    /\ doomed' = ctxDone
    /\ UNCHANGED <<detectorVars, pc, result, wait, pending, chClosed, errCh,
                   ctxVars, delivered, dropped>>

\* It takes the next event; a Write that starts under a cancelled context
\* fails before it publishes anything.
EmitReceive ==
    /\ epc = "recv" /\ evCh # <<>>
    /\ epc' = "emit" /\ cur' = <<Head(evCh)>> /\ evCh' = Tail(evCh)
    /\ doomed' = ctxDone
    /\ UNCHANGED <<detectorVars, pc, result, wait, pending, chClosed, errCh,
                   ctxVars, delivered, dropped>>

EmitEOF ==
    /\ epc = "recv" /\ evCh = <<>> /\ chClosed
    /\ epc' = "done"
    /\ UNCHANGED <<detectorVars, pc, result, wait, pending, chanVars, cur, doomed,
                   errCh, delivered, ctxVars, dropped>>

Deliver ==
    delivered' = [delivered EXCEPT ![cur[1].tag] = Observe(@, <<cur[1].ev>>)]

EmitOk ==
    /\ epc = "emit" /\ ~doomed
    /\ Deliver
    /\ epc' = "recv" /\ cur' = <<>>
    /\ UNCHANGED <<detectorVars, pc, result, wait, pending, chanVars, doomed,
                   errCh, ctxVars, dropped>>

\* emit returns an error, after the store took the event or before.
EmitError ==
    /\ epc = "emit"
    /\ EmitFails \/ ctxDone
    /\ (Deliver /\ ~doomed) \/ UNCHANGED delivered
    /\ epc' = "done" /\ cur' = <<>> /\ errCh' = TRUE
    /\ UNCHANGED <<detectorVars, pc, result, wait, pending, chanVars, doomed,
                   ctxVars, dropped>>

-----------------------------------------------------------------------------
\* The context, the goroutine that closes the socket, and time.

Cancel ==
    /\ Cancels /\ ~ctxDone
    /\ ctxDone' = TRUE
    /\ UNCHANGED <<detectorVars, pc, result, wait, pending, chanVars, emitVars,
                   sockClosed, dropped>>

CloseSocket ==
    /\ ctxDone /\ ~sockClosed /\ pc # "bind"
    /\ sockClosed' = TRUE
    /\ UNCHANGED <<detectorVars, pc, result, wait, pending, chanVars, emitVars,
                   ctxDone, dropped>>

\* A unit of time; under Prompt it passes only while the loop waits in a read.
Clock ==
    /\ pc # "returned"
    /\ Prompt => pc = "read" /\ wait < WatchdogTick
    /\ Tick
    /\ wait' = IF wait < WatchdogTick THEN wait + 1 ELSE wait
    /\ UNCHANGED <<pc, result, pending, chanVars, emitVars, ctxVars, dropped>>

LoopStep ==
    \/ Bind \/ BindFails
    \/ CheckError \/ ReadDeadline \/ ReadCancelled
    \/ (\E t \in Tags : Send(t)) \/ Continue
    \/ CloseChannel \/ Return

AdapterNext ==
    \/ LoopStep
    \/ \E t \in Tags, msg \in Datagram : ReadDatagram(t, msg)
    \/ ReadNoise
    \/ EmitReceive \/ EmitEOF \/ EmitOk \/ EmitError
    \/ Cancel \/ CloseSocket \/ Clock

AdapterSpec == AdapterInit /\ [][AdapterNext]_allVars

(***************************************************************************)
(* Fairness: the scheduler runs a goroutine that can step, and time        *)
(* passes.  emit itself is only sure to return once the context is         *)
(* cancelled: a publish without a deadline may wait for its answer for     *)
(* ever, so no fairness is assumed of EmitOk.                              *)
(***************************************************************************)
FairAdapterSpec ==
    /\ AdapterSpec
    /\ WF_allVars(LoopStep)
    /\ WF_allVars(EmitReceive) /\ WF_allVars(EmitEOF)
    /\ WF_allVars(ctxDone /\ EmitError)
    /\ WF_allVars(CloseSocket)
    /\ WF_allVars(Clock)

-----------------------------------------------------------------------------
AdapterTypeOK ==
    /\ TypeOK
    /\ pc \in {"bind", "top", "read", "send", "defer", "wait", "returned"}
    /\ result \in {"none", "bind", "ctx", "emit"}
    /\ wait \in 0 .. WatchdogTick
    /\ pending \in [Tags -> Seq(Event)]
    /\ evCh \in Seq(Message) /\ Len(evCh) <= EmitChanSize
    /\ epc \in {"none", "recv", "emit", "done"}
    /\ cur \in Seq(Message) /\ (epc = "emit" <=> cur # <<>>)
    /\ {chClosed, doomed, errCh, ctxDone, sockClosed} \subseteq BOOLEAN
    /\ delivered \in [Tags -> View]
    /\ dropped \in [Tags -> BOOLEAN]

\* The events of the messages msgs to someone who listens to tag t only: what
\* is said of other tags is neither a presence nor a zone event to him.
OtherTag == [type |-> "OTHER"]

EventsOf(t, msgs) ==
    [i \in DOMAIN msgs |-> IF msgs[i].tag = t THEN msgs[i].ev ELSE OtherTag]

\* The events of t that were derived and have not reached the store yet.
InFlight(t) == EventsOf(t, cur \o evCh) \o pending[t]

\* As long as no event of a tag was dropped and emit has not failed, what the
\* store has been told of the tag, together with what is on its way, is what
\* the detector announced: the queue and the two goroutines neither lose nor
\* reorder (adapter.go:131-167).
QueueCarriesView ==
    \A t \in Tags :
        ~dropped[t] /\ epc \in {"recv", "emit"}
            => Observe(delivered[t], InFlight(t)) = view[t]

\* emit is not running, and will not run again, once Run has returned
\* (adapter.go:150-151, "avoids use-after-return on emit").
NoEmitAfterReturn == pc = "returned" => epc = "done" /\ cur = <<>>

\* Worst-case detection latency (adapter.go:92): no tag stays flagged online
\* for more than OfflineThreshold + tick after it was last heard.
DetectionLatency ==
    \A t \in Tags :
        states[t].online /\ ~states[t].locationLost
            => states[t].silence <= OfflineThreshold + WatchdogTick

\* A cancelled Run returns (ports.go:52-56).
CancelReturns == ctxDone ~> pc = "returned"

\* An error of emit ends Run, even if no datagram ever arrives again.
EmitErrorReturns == errCh ~> pc = "returned"
=============================================================================

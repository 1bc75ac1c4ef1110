-------------------------- MODULE Lifecycle_proofs --------------------------
(***************************************************************************)
(* Proofs about Lifecycle, for any providers and clients: what every stream *)
(* has under it, what is left when the process has ended, and what its exit *)
(* code says.                                                               *)
(***************************************************************************)
EXTENDS Lifecycle, TLAPS

-----------------------------------------------------------------------------
(* The inductive invariant. *)

\* Until main has composed the process, none of its parts has moved.
NotComposed ==
    /\ service = "idle" /\ server = "idle" /\ gs = "none" /\ teardown = "idle"
    /\ provider = [p \in Providers |-> "idle"] /\ stream = [c \in Clients |-> "none"]
    /\ groupErr = FALSE /\ serviceErr = FALSE

\* How far start-up has come: the connection, what NATS has, and the failure
\* that ended it.
BootInv ==
    /\ exists \subseteq {"stream", "bucket"}
    /\ boot \in {"bucket", "bind", "compose", "done"} => "stream" \in exists
    /\ boot \in {"bind", "compose", "done"} => "bucket" \in exists
    /\ boot # "done" =>
         /\ NotComposed
         /\ exit = "running" => faults = {} /\ (nats = "open" <=> boot # "connect")
         /\ exit # "running" => exit = "error" /\ faults # {} /\ nats # "open"

\* The tear-down stops the server, waits for the streams and drains NATS, in
\* this order.
TeardownInv ==
    /\ teardown = "waiting" => gs = "live" /\ nats = "open"
    /\ teardown = "stopping" => gs = "stopping" /\ nats = "open"
    /\ teardown = "draining" => gs = "stopped" /\ nats = "open"
    /\ teardown = "returned" => gs = "stopped" /\ nats = "drained"
    /\ gs = "stopped" => NoStreams

\* An error of the group is a fault that was met and has reached the group.
FaultInv ==
    /\ faults \subseteq {"provider", "listen", "stopped"}
    /\ serviceErr = TRUE <=> "provider" \in faults
    /\ groupErr = TRUE <=> \/ "listen" \in faults \/ "stopped" \in faults
                           \/ service = "returned" /\ serviceErr = TRUE

\* The goroutines of a composed process, and its end.
GroupInv ==
    /\ teardown \in {"waiting", "stopping", "draining", "returned"}
    /\ TeardownInv
    /\ FaultInv
    /\ service = "returned" => \A p \in Providers : provider[p] = "returned"
    /\ exit # "running" => AllReturned /\ (exit = "clean" <=> groupErr = FALSE)

IInv == TypeOK /\ BootInv /\ (boot = "done" => GroupInv)

-----------------------------------------------------------------------------
\* Everything main does before the goroutines run keeps the invariant.
LEMMA BootStep == IInv /\ Boot => IInv'
<1> SUFFICES ASSUME IInv, Boot PROVE IInv'
  OBVIOUS
<1> USE DEF IInv, TypeOK, BootInv, NotComposed, GroupInv, TeardownInv, FaultInv,
           NoStreams, AllReturned
<1>1. CASE Connect
  BY <1>1 DEF Connect, notStarted, group
<1>2. CASE ConnectFails
  BY <1>2 DEF ConnectFails, start, notStarted, group
<1>3. CASE ProvisionStream
  BY <1>3 DEF ProvisionStream, notStarted, group
<1>4. CASE ProvisionKV
  BY <1>4 DEF ProvisionKV, notStarted, group
<1>5. CASE BindKV
  BY <1>5 DEF BindKV, notStarted, group
<1>6. CASE Compose
  BY <1>6 DEF Compose, group
<1>7. ASSUME NEW done \in BOOLEAN, ProvisionFails(done) PROVE IInv'
  BY <1>7 DEF ProvisionFails, notStarted, group
<1>8. QED
  BY <1>1, <1>2, <1>3, <1>4, <1>5, <1>6, <1>7 DEF Boot

\* So does everything the goroutines, the providers and the clients do.
LEMMA GroupStep ==
    ASSUME IInv, \/ Goroutines \/ Signal \/ ListenFails
                 \/ \E p \in Providers : ProviderFails(p) \/ ProviderUnwinds(p)
                 \/ \E c \in Clients : ClientOpens(c) \/ ClientLeaves(c)
    PROVE  IInv'
<1> USE DEF IInv, TypeOK, BootInv, NotComposed, GroupInv, TeardownInv, FaultInv,
           NoStreams, AllReturned
<1>1. CASE ServiceReturns
  BY <1>1 DEF ServiceReturns, GroupReturn, start
<1>2. CASE Listen
  BY <1>2 DEF Listen, start, group
<1>3. CASE Serve
  <2>1. CASE gs = "live"
    BY <1>3, <2>1 DEF Serve, start, group
  <2>2. CASE gs # "live"
    <3>1. /\ server' = "returned" /\ groupErr' = TRUE /\ cancelled' = TRUE
          /\ faults' = faults \cup {"stopped"}
          /\ UNCHANGED <<boot, exists, provider, serviceErr, service, gs, health,
                         teardown, nats, stream, exit>>
      BY <1>3, <2>2 DEF Serve, GroupReturn, start
    <3>2. server = "listening" /\ boot = "done" /\ exit = "running"
      BY <1>3 DEF Serve
    <3>3. QED
      BY <3>1, <3>2
  <2>3. QED
    BY <2>1, <2>2
<1>4. CASE ServeReturns
  BY <1>4 DEF ServeReturns, GroupReturn, start
<1>5. CASE Stop
  BY <1>5 DEF Stop, start, group
<1>6. CASE GracefulStopReturns
  BY <1>6 DEF GracefulStopReturns, start, group
<1>7. CASE Drain
  BY <1>7 DEF Drain, GroupReturn, start
<1>8. CASE Exit
  BY <1>8 DEF Exit, start, group
<1>9. CASE Signal
  BY <1>9 DEF Signal, start
<1>10. CASE ListenFails
  BY <1>10 DEF ListenFails, GroupReturn, start
<1>11. ASSUME NEW p \in Providers, ProviderFails(p) PROVE IInv'
  BY <1>11 DEF ProviderFails, start, group
<1>12. ASSUME NEW p \in Providers, ProviderUnwinds(p) PROVE IInv'
  BY <1>12 DEF ProviderUnwinds, start, group
<1>13. ASSUME NEW c \in Clients, ClientOpens(c) PROVE IInv'
  BY <1>13 DEF ClientOpens, start, group
<1>14. ASSUME NEW c \in Clients, ClientLeaves(c) PROVE IInv'
  BY <1>14 DEF ClientLeaves, start, group
<1>15. QED
  BY <1>1, <1>2, <1>3, <1>4, <1>5, <1>6, <1>7, <1>8, <1>9, <1>10,
     <1>11, <1>12, <1>13, <1>14 DEF Goroutines

\* The invariant holds in every state of the process.
THEOREM Inductive == Spec => []IInv
<1>1. Init => IInv
  BY DEF Init, IInv, TypeOK, BootInv, NotComposed
<1>2. IInv /\ [Next]_vars => IInv'
  <2> SUFFICES ASSUME IInv, [Next]_vars PROVE IInv'
    OBVIOUS
  <2>1. CASE Next
    BY <2>1, BootStep, GroupStep DEF Next
  <2>2. CASE UNCHANGED vars
    BY <2>2 DEF vars, start, group, IInv, TypeOK, BootInv, NotComposed, GroupInv,
                TeardownInv, FaultInv, NoStreams, AllReturned
  <2>3. QED
    BY <2>1, <2>2
<1>3. QED
  BY <1>1, <1>2, PTL DEF Spec

\* Every variable keeps its type (main.go:28-124).
THEOREM TypeCorrect == Spec => []TypeOK
<1>1. IInv => TypeOK
  BY DEF IInv
<1>2. QED
  BY <1>1, Inductive, PTL

\* An open stream has a usable connection, a stream and a bucket under it
\* (main.go:53-58, 113-119).
THEOREM StreamsCorrect == Spec => []StreamsHaveNats
<1>1. IInv => StreamsHaveNats
  BY DEF StreamsHaveNats, IInv, TypeOK, BootInv, NotComposed, GroupInv, TeardownInv,
         NoStreams
<1>2. QED
  BY <1>1, Inductive, PTL

\* When the process has ended, no provider runs, no stream is open and the
\* connection to NATS is closed or drained (main.go:47-85, 113-121).
THEOREM NothingLeft == Spec => []NothingLeftBehind
<1>1. IInv => NothingLeftBehind
  BY DEF NothingLeftBehind, IInv, BootInv, NotComposed, GroupInv, TeardownInv,
         NoStreams, AllReturned
<1>2. QED
  BY <1>1, Inductive, PTL

\* The exit code is 0 just when nothing has failed (main.go:121-124): every
\* fault is an error of the group by the time g.Wait returns, and nothing else is.
THEOREM ExitCodeCorrect == Spec => []ExitCodeTells
<1>1. IInv => ExitCodeTells
  BY DEF ExitCodeTells, IInv, TypeOK, BootInv, GroupInv, FaultInv, AllReturned
<1>2. QED
  BY <1>1, Inductive, PTL
=============================================================================

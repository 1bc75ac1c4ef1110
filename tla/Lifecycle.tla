------------------------------ MODULE Lifecycle ------------------------------
(***************************************************************************)
(* The process (cmd/main.go): it connects to NATS and provisions stream    *)
(* and bucket (jetstream/repository.go:85-160); then an errgroup of three  *)
(* goroutines, the service with its providers (services/service.go:45-70), *)
(* the gRPC server (grpc/server/server.go:54-74) and the tear-down that    *)
(* stops the server and then drains NATS; and the clients that hold        *)
(* streams open.                                                           *)
(*                                                                         *)
(* NATS is external: stream and bucket may be there already, a call may    *)
(* fail though the server has done what it asked for.                      *)
(* grpc.Server is external: GracefulStop refuses new streams and returns   *)
(* when the last one has ended, Serve returns nil after that, and fails    *)
(* with ErrServerStopped when it is called on a stopped server.            *)
(***************************************************************************)
EXTENDS Naturals, FiniteSets

CONSTANTS
    Providers,  \* the providers registered with the service
    Clients     \* streams a client may open, one each: Subscribe or ReadConfiguration

VARIABLES
    boot,       \* what main does next: "connect", "stream", "bucket", "bind",
                \* "compose", or "done" when the goroutines run
    exists,     \* which of stream and bucket the NATS server has
    cancelled,  \* gctx is done: a signal, or the first error of the errgroup
    groupErr,   \* what g.Wait will return is an error
    provider,   \* each provider's Run: "idle", "running" or "returned"
    serviceErr, \* the first error of Service.Start's own errgroup
    service,    \* service.Start: "idle", "running" or "returned"
    server,     \* srv.Start: "idle", "starting", "listening", "serving", "returned"
    gs,         \* grpc.Server: "none", "live", "stopping" (GracefulStop), "stopped"
    health,     \* hc.Status
    teardown,   \* "idle", "waiting", "stopping", "draining", "returned"
    nats,       \* nc: "none", "open", "drained" or "closed"
    stream,     \* each client's stream: "none", "open", "closed"
    faults,     \* what has failed so far (history)
    exit        \* "running", "clean" or "error"

group == <<cancelled, groupErr>>
start == <<boot, exists>>
vars == <<start, group, provider, serviceErr, service, server, gs, health, teardown,
          nats, stream, faults, exit>>

Init ==
    /\ boot = "connect" /\ exists \in SUBSET {"stream", "bucket"}
    /\ cancelled = FALSE /\ groupErr = FALSE /\ faults = {}
    /\ provider = [p \in Providers |-> "idle"] /\ serviceErr = FALSE
    /\ service = "idle" /\ server = "idle" /\ gs = "none"
    /\ health = "none" /\ teardown = "idle" /\ nats = "none"
    /\ stream = [c \in Clients |-> "none"] /\ exit = "running"

-----------------------------------------------------------------------------
\* Start-up.

notStarted == <<group, provider, serviceErr, service, server, gs, health, teardown, stream>>

Connect ==
    /\ boot = "connect" /\ exit = "running"
    /\ boot' = "stream" /\ nats' = "open"
    /\ UNCHANGED <<exists, notStarted, faults, exit>>

\* Nothing is open yet: os.Exit(1) at once.
ConnectFails ==
    /\ boot = "connect" /\ exit = "running"
    /\ exit' = "error" /\ faults' = faults \cup {"connect"}
    /\ UNCHANGED <<start, nats, notStarted>>

\* provisionStream: created, or there already under whatever configuration.
ProvisionStream ==
    /\ boot = "stream" /\ exit = "running"
    /\ boot' = "bucket" /\ exists' = exists \cup {"stream"}
    /\ UNCHANGED <<nats, notStarted, faults, exit>>

\* Mutant: a bucket that is there already is a failure.
MutProvisionKV ==
    /\ boot = "bucket" /\ exit = "running"
    /\ exists' = exists \cup {"bucket"}
    /\ IF "bucket" \in exists
         THEN exit' = "error" /\ nats' = "closed" /\ UNCHANGED boot
         ELSE boot' = "compose" /\ UNCHANGED <<exit, nats>>
    /\ UNCHANGED <<notStarted, faults>>

\* provisionKV: created, or to be bound since it is there already.
ProvisionKV ==
    /\ boot = "bucket" /\ exit = "running"
    /\ boot' = IF "bucket" \in exists THEN "bind" ELSE "compose"
    /\ exists' = exists \cup {"bucket"}
    /\ UNCHANGED <<nats, notStarted, faults, exit>>

BindKV ==
    /\ boot = "bind" /\ exit = "running"
    /\ boot' = "compose"
    /\ UNCHANGED <<exists, nats, notStarted, faults, exit>>

\* Mutant: the process exits with the connection open.
MutProvisionFails(done) ==
    /\ boot \in {"stream", "bucket", "bind"} /\ exit = "running"
    /\ exists' = IF done /\ boot # "bind" THEN exists \cup {boot} ELSE exists
    /\ exit' = "error" /\ faults' = faults \cup {"provision"}
    /\ UNCHANGED <<boot, nats, notStarted>>

\* Any other error of these calls: main closes the connection and exits, and
\* what the server has done stays, also what it did in the call that failed.
ProvisionFails(done) ==
    /\ boot \in {"stream", "bucket", "bind"} /\ exit = "running"
    /\ exists' = IF done /\ boot # "bind" THEN exists \cup {boot} ELSE exists
    /\ nats' = "closed" /\ exit' = "error" /\ faults' = faults \cup {"provision"}
    /\ UNCHANGED <<boot, notStarted>>

\* The constructors, which fail for a nil argument only, and the goroutines.
Compose ==
    /\ boot = "compose" /\ exit = "running"
    /\ boot' = "done"
    /\ provider' = [p \in Providers |-> "running"] /\ service' = "running"
    /\ server' = "starting" /\ gs' = "live" /\ health' = "SERVING"
    /\ teardown' = "waiting"
    /\ UNCHANGED <<exists, group, serviceErr, nats, stream, faults, exit>>

Boot ==
    \/ Connect \/ ConnectFails \/ ProvisionStream \/ ProvisionKV \/ BindKV \/ Compose
    \/ \E done \in BOOLEAN : ProvisionFails(done)

-----------------------------------------------------------------------------
\* A goroutine of the errgroup returns: its first error cancels gctx.
GroupReturn(err) ==
    /\ groupErr' = (groupErr \/ err)
    /\ cancelled' = (cancelled \/ err)

\* SIGINT or SIGTERM, also while main still starts up.
Signal ==
    /\ exit = "running" /\ ~cancelled /\ cancelled' = TRUE
    /\ UNCHANGED <<start, groupErr, provider, serviceErr, service, server, gs, health,
                   teardown, nats, stream, faults, exit>>

\* A provider's Run fails: bind, read or emit. The first error cancels the
\* other providers.
ProviderFails(p) ==
    /\ provider[p] = "running"
    /\ provider' = [provider EXCEPT ![p] = "returned"]
    /\ serviceErr' = TRUE /\ faults' = faults \cup {"provider"}
    /\ UNCHANGED <<start, group, service, server, gs, health, teardown, nats, stream, exit>>

\* Mutant: the providers only watch the process's context.
MutUnwinding == cancelled

\* The context the providers run with is done.
Unwinding == cancelled \/ serviceErr

\* A provider sees its context cancelled; Start takes that for no fault.
ProviderUnwinds(p) ==
    /\ provider[p] = "running" /\ Unwinding
    /\ provider' = [provider EXCEPT ![p] = "returned"]
    /\ UNCHANGED <<start, group, serviceErr, service, server, gs, health, teardown, nats,
                   stream, faults, exit>>

\* service.Start returns when every provider has; without any it idles until
\* cancelled.
ServiceReturns ==
    /\ service = "running"
    /\ \A p \in Providers : provider[p] = "returned"
    /\ Providers = {} => cancelled
    /\ service' = "returned"
    /\ GroupReturn(serviceErr)
    /\ UNCHANGED <<start, provider, serviceErr, server, gs, health, teardown, nats, stream, faults, exit>>

Listen ==
    /\ server = "starting" /\ server' = "listening"
    /\ UNCHANGED <<start, group, provider, serviceErr, service, gs, health, teardown, nats,
                   stream, faults, exit>>

ListenFails ==
    /\ server = "starting" /\ server' = "returned"
    /\ GroupReturn(TRUE) /\ faults' = faults \cup {"listen"}
    /\ UNCHANGED <<start, provider, serviceErr, service, gs, health, teardown, nats, stream, exit>>

\* gs.Serve: on a server already told to stop it fails at once.
Serve ==
    /\ server = "listening"
    /\ IF gs = "live"
         THEN server' = "serving" /\ UNCHANGED <<group, faults>>
         ELSE /\ server' = "returned" /\ GroupReturn(TRUE)
              /\ faults' = faults \cup {"stopped"}
    /\ UNCHANGED <<start, provider, serviceErr, service, gs, health, teardown, nats, stream, exit>>

\* The accept loop ends, with nil, when GracefulStop is through.
ServeReturns ==
    /\ server = "serving" /\ gs = "stopped"
    /\ server' = "returned" /\ GroupReturn(FALSE)
    /\ UNCHANGED <<start, provider, serviceErr, service, gs, health, teardown, nats, stream, faults, exit>>

\* Mutant: NATS is drained before the server is stopped.
MutStop ==
    /\ teardown = "waiting" /\ cancelled
    /\ teardown' = "stopping" /\ health' = "NOT_SERVING" /\ gs' = "stopping"
    /\ nats' = "drained"
    /\ UNCHANGED <<start, group, provider, serviceErr, service, server, stream, faults, exit>>

\* Mutant: the status is reset to its zero value.
MutStopStatus ==
    /\ teardown = "waiting" /\ cancelled
    /\ teardown' = "stopping" /\ health' = "UNKNOWN" /\ gs' = "stopping"
    /\ UNCHANGED <<start, group, provider, serviceErr, service, server, nats, stream, faults, exit>>

\* Mutant: the tear-down first waits for the server to return.
MutStopLate ==
    /\ teardown = "waiting" /\ cancelled /\ server = "returned"
    /\ teardown' = "stopping" /\ health' = "NOT_SERVING" /\ gs' = "stopping"
    /\ UNCHANGED <<start, group, provider, serviceErr, service, server, nats, stream, faults, exit>>

\* The tear-down wakes up: srv.Stop marks the server and calls GracefulStop.
Stop ==
    /\ teardown = "waiting" /\ cancelled
    /\ teardown' = "stopping" /\ health' = "NOT_SERVING" /\ gs' = "stopping"
    /\ UNCHANGED <<start, group, provider, serviceErr, service, server, nats, stream, faults, exit>>

\* The condition GracefulStop waits for.
NoStreams == \A c \in Clients : stream[c] # "open"

\* GracefulStop returns when no stream is left.
GracefulStopReturns ==
    /\ teardown = "stopping" /\ NoStreams
    /\ gs' = "stopped" /\ teardown' = "draining"
    /\ UNCHANGED <<start, group, provider, serviceErr, service, server, health, nats,
                   stream, faults, exit>>

\* nc.Drain.
Drain ==
    /\ teardown = "draining"
    /\ nats' = "drained" /\ teardown' = "returned"
    /\ GroupReturn(FALSE)
    /\ UNCHANGED <<start, provider, serviceErr, service, server, gs, health, stream, faults, exit>>

\* A client opens a stream, while the server takes new ones.
ClientOpens(c) ==
    /\ exit = "running" /\ server = "serving" /\ gs = "live" /\ stream[c] = "none"
    /\ stream' = [stream EXCEPT ![c] = "open"]
    /\ UNCHANGED <<start, group, provider, serviceErr, service, server, gs, health,
                   teardown, nats, faults, exit>>

\* The stream's own context ends, or sending to it fails: nothing in the
\* process ends a stream (grpc/adapter.go:36-47, service.go:123-126).
ClientLeaves(c) ==
    /\ stream[c] = "open"
    /\ stream' = [stream EXCEPT ![c] = "closed"]
    /\ UNCHANGED <<start, group, provider, serviceErr, service, server, gs, health,
                   teardown, nats, faults, exit>>

AllReturned == service = "returned" /\ server = "returned" /\ teardown = "returned"

\* g.Wait returns and the process ends.
Exit ==
    /\ exit = "running" /\ AllReturned
    /\ exit' = IF groupErr THEN "error" ELSE "clean"
    /\ UNCHANGED <<start, group, provider, serviceErr, service, server, gs, health,
                   teardown, nats, stream, faults>>

\* What the goroutines do once nothing holds them up.
Goroutines ==
    \/ ServiceReturns \/ Listen \/ Serve \/ ServeReturns
    \/ Stop \/ GracefulStopReturns \/ Drain \/ Exit

Next ==
    \/ Boot \/ Goroutines \/ Signal \/ ListenFails
    \/ \E p \in Providers : ProviderFails(p) \/ ProviderUnwinds(p)
    \/ \E c \in Clients : ClientOpens(c) \/ ClientLeaves(c)

Spec == Init /\ [][Next]_vars

\* Calls to NATS return, since they have time limits, goroutines run, and
\* providers see a cancelled context; a signal, a fault and what clients do are
\* never certain.
FairSpec ==
    /\ Spec /\ WF_vars(Boot)
    /\ WF_vars(ServiceReturns) /\ WF_vars(Listen \/ ListenFails) /\ WF_vars(Serve)
    /\ WF_vars(ServeReturns) /\ WF_vars(Stop) /\ WF_vars(GracefulStopReturns)
    /\ WF_vars(Drain) /\ WF_vars(Exit)
    /\ \A p \in Providers : WF_vars(ProviderUnwinds(p))

-----------------------------------------------------------------------------
TypeOK ==
    /\ boot \in {"connect", "stream", "bucket", "bind", "compose", "done"}
    /\ exists \subseteq {"stream", "bucket"}
    /\ {cancelled, groupErr, serviceErr} \subseteq BOOLEAN
    /\ faults \subseteq {"connect", "provision", "provider", "listen", "stopped"}
    /\ provider \in [Providers -> {"idle", "running", "returned"}]
    /\ service \in {"idle", "running", "returned"}
    /\ server \in {"idle", "starting", "listening", "serving", "returned"}
    /\ gs \in {"none", "live", "stopping", "stopped"}
    /\ health \in {"none", "SERVING", "NOT_SERVING"}
    /\ teardown \in {"idle", "waiting", "stopping", "draining", "returned"}
    /\ nats \in {"none", "open", "drained", "closed"}
    /\ stream \in [Clients -> {"none", "open", "closed"}]
    /\ exit \in {"running", "clean", "error"}

\* A client's stream, which reads from the stream and the bucket of NATS, is
\* open only while they exist and the connection is usable: start-up was
\* complete before the first one opened, and the drain waits for the last
\* (main.go:53-58, 113-119).
StreamsHaveNats ==
    \A c \in Clients : stream[c] = "open" =>
        nats = "open" /\ exists = {"stream", "bucket"} /\ gs \in {"live", "stopping"}

\* Whatever ends the process and however far its start-up has come, it ends
\* with no provider running, no stream open and no connection to NATS left as
\* it is (main.go:47-85, 113-121).
NothingLeftBehind ==
    exit # "running" =>
        /\ \A p \in Providers : provider[p] # "running"
        /\ \A c \in Clients : stream[c] # "open"
        /\ nats # "open" /\ gs \in {"none", "stopped"}

\* The exit code is 0 just when nothing failed, wherever and whenever it did,
\* also after a signal. A stream or a bucket left by an earlier start, complete
\* or not, is no failure; a server told to stop before it serves is one
\* (main.go:47-58, 121-124, repository.go:128-138, 152, service.go:54-68).
ExitCodeTells == exit # "running" => (exit = "clean" <=> faults = {})

\* Once cancelled, during start-up or later, the process ends, unless some
\* stream is open for ever: no two goroutines wait for each other
\* (main.go:113-121).
OnlyStreamsHoldExit ==
    [](cancelled => \/ <>(exit # "running")
                    \/ \E c \in Clients : <>[](stream[c] = "open"))

\* The first error of any provider takes down every other one and the server,
\* unless some stream stays open (ports.go:57-58, service.go:46-47).
FailFast ==
    \A p \in Providers :
        [](serviceErr => \/ <>(provider[p] = "returned" /\ exit = "error")
                         \/ \E c \in Clients : <>[](stream[c] = "open"))
=============================================================================

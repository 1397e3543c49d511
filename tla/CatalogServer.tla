----------------------------- MODULE CatalogServer -----------------------------
(***************************************************************************)
(* The catalog HTTP server as a runnable of the manager: Server.Start and  *)
(* its shutdown goroutine (third_party/server/server.go), with the         *)
(* settings of serverutil.go.                                              *)
(*                                                                         *)
(* http.Server.Shutdown closes the listener, which makes Serve return at   *)
(* once, and then waits for the requests in flight until its context ends; *)
(* it does not interrupt them.  They are cut when the process exits, and   *)
(* at any time when the server's WriteTimeout, counted from the end of the *)
(* request's header, is over.  The manager cancels the server and waits    *)
(* for Start, then stops the controllers, and gives up when its grace      *)
(* period ends.  When it is the kubelet that stops the pod, it kills the   *)
(* process once the pod's own grace period is over.                        *)
(***************************************************************************)
EXTENDS Naturals

CONSTANTS Requests,         \* downloads of catalogs
          WriteTimeout,     \* of the server, for one response
          ShutdownTimeout,  \* of the server
          GracePeriod,      \* of the manager
          PodGracePeriod,   \* of the pod
          ServerFaults      \* {"serve"} when accepting connections can fail

ASSUME CatalogServerAssumption ==
    /\ WriteTimeout \in Nat /\ ShutdownTimeout \in Nat
    /\ GracePeriod \in Nat /\ PodGracePeriod \in Nat
    /\ ServerFaults \subseteq {"serve"}

VARIABLES
    open,      \* the listener accepts connections
    request,   \* what became of each request
    age,       \* how long each was active, up to the write timeout
    start,     \* where Start is, or what it returned
    shutdown,  \* where its goroutine is; "closed": serverShutdown is closed
    waited,    \* time since Shutdown was called, up to its timeout
    manager,   \* where the manager is, or what its Start returned
    elapsed,   \* time since the manager began to stop, up to its grace period
    sigterm,   \* the kubelet is stopping the pod
    podElapsed \* time since it began to, up to the pod's grace period

clocks == <<age, waited, elapsed, podElapsed>>
serverVars == <<open, request, start, shutdown, manager, sigterm, clocks>>

ServerTypeOK ==
    /\ open \in BOOLEAN
    /\ request \in [Requests -> {"none", "active", "served", "cut"}]
    /\ start \in {"serve", "await", "nil", "error"}
    /\ shutdown \in {"wait", "drain", "closed"}
    /\ manager \in {"running", "stopping", "controllers", "nil", "error", "killed"}
    /\ age \in [Requests -> 0 .. WriteTimeout]
    /\ waited \in 0 .. ShutdownTimeout /\ elapsed \in 0 .. GracePeriod
    /\ sigterm \in BOOLEAN /\ podElapsed \in 0 .. PodGracePeriod
    /\ (open => start = "serve" /\ shutdown = "wait")

\* Start was called.
Serving ==
    /\ open = TRUE /\ request = [r \in Requests |-> "none"]
    /\ start = "serve" /\ shutdown = "wait" /\ sigterm = FALSE
    /\ age = [r \in Requests |-> 0] /\ waited = 0 /\ elapsed = 0 /\ podElapsed = 0

ServerInit == Serving /\ manager = "running"

Stopping == manager \in {"stopping", "controllers"}
Alive == manager = "running" \/ Stopping
Active == {r \in Requests : request[r] = "active"}

-------------------------------------------------------------------------------
(* Clients.                                                                  *)

Request(r) ==
    /\ Alive /\ open /\ request[r] = "none"
    /\ request' = [request EXCEPT ![r] = "active"]
    /\ UNCHANGED <<open, start, shutdown, manager, sigterm, clocks>>

Respond(r) ==
    /\ Alive /\ request[r] = "active" /\ age[r] < WriteTimeout
    /\ request' = [request EXCEPT ![r] = "served"]
    /\ UNCHANGED <<open, start, shutdown, manager, sigterm, clocks>>

\* The deadline for the response is over: a write fails, and the handler returns.
WriteFails(r) ==
    /\ Alive /\ request[r] = "active" /\ age[r] = WriteTimeout
    /\ request' = [request EXCEPT ![r] = "cut"]
    /\ UNCHANGED <<open, start, shutdown, manager, sigterm, clocks>>

-------------------------------------------------------------------------------
(* Server.Start.                                                             *)

\* serve returns an error other than ErrServerClosed, and so does Start.
ServeFails ==
    /\ Alive /\ start = "serve" /\ open /\ "serve" \in ServerFaults
    /\ start' = "error" /\ open' = FALSE
    /\ UNCHANGED <<request, shutdown, manager, sigterm, clocks>>

\* Faulty variant: Start returns when serve does.
ServeReturnsAtOnce ==
    /\ Alive /\ start = "serve" /\ ~open /\ start' = "nil"
    /\ UNCHANGED <<open, request, shutdown, manager, sigterm, clocks>>

\* serve returns ErrServerClosed.
ServeReturns ==
    /\ Alive /\ start = "serve" /\ ~open /\ start' = "await"
    /\ UNCHANGED <<open, request, shutdown, manager, sigterm, clocks>>

\* <-serverShutdown
StartReturns ==
    /\ Alive /\ start = "await" /\ shutdown = "closed" /\ start' = "nil"
    /\ UNCHANGED <<open, request, shutdown, manager, sigterm, clocks>>

\* Faulty variant: the requests are waited for before the listener is closed.
BeginShutdownOpen ==
    /\ Stopping /\ shutdown = "wait"
    /\ shutdown' = "drain"
    /\ UNCHANGED <<open, request, start, manager, sigterm, clocks>>

\* <-ctx.Done(), and Shutdown is called.
BeginShutdown ==
    /\ Stopping /\ shutdown = "wait"
    /\ shutdown' = "drain" /\ open' = FALSE
    /\ UNCHANGED <<request, start, manager, sigterm, clocks>>

\* Faulty variant: the channel is not closed when Shutdown fails.
ShutdownReturnsNil ==
    /\ Alive /\ shutdown = "drain" /\ Active = {}
    /\ shutdown' = "closed"
    /\ UNCHANGED <<open, request, start, manager, sigterm, clocks>>

\* Shutdown returns, with an error when its context ended first, and the channel
\* is closed.
ShutdownReturns ==
    /\ Alive /\ shutdown = "drain"
    /\ Active = {} \/ waited = ShutdownTimeout
    /\ shutdown' = "closed"
    /\ UNCHANGED <<open, request, start, manager, sigterm, clocks>>

Server == ServeReturns \/ StartReturns \/ BeginShutdown \/ ShutdownReturns

-------------------------------------------------------------------------------
(* The manager.                                                              *)

\* A runnable failed.
Stop ==
    /\ manager = "running" /\ manager' = "stopping"
    /\ UNCHANGED <<open, request, start, shutdown, sigterm, clocks>>

\* The signal of the kubelet.
Terminate ==
    /\ Alive /\ ~sigterm /\ sigterm' = TRUE
    /\ manager' = IF manager = "running" THEN "stopping" ELSE manager
    /\ UNCHANGED <<open, request, start, shutdown, clocks>>

\* The server has returned, the controllers are stopped next.
StopControllers ==
    /\ manager = "stopping" /\ start \in {"nil", "error"} /\ manager' = "controllers"
    /\ UNCHANGED <<open, request, start, shutdown, sigterm, clocks>>

\* The process exits: with it go the requests still active.
Exit(result) ==
    /\ manager' = result
    /\ request' = [r \in Requests |-> IF r \in Active THEN "cut" ELSE request[r]]
    /\ UNCHANGED <<open, start, shutdown, sigterm, clocks>>

ControllersStopped ==
    manager = "controllers" /\ Exit(IF start = "error" THEN "error" ELSE "nil")

GraceExpires == Stopping /\ elapsed = GracePeriod /\ Exit("error")

\* The kubelet kills the container.
Kill == Alive /\ sigterm /\ podElapsed = PodGracePeriod /\ Exit("killed")

Up(clock, limit) == IF clock < limit THEN clock + 1 ELSE clock

Tick ==
    /\ Alive
    /\ age' = [r \in Requests |-> IF r \in Active THEN Up(age[r], WriteTimeout) ELSE age[r]]
    /\ elapsed' = IF Stopping THEN Up(elapsed, GracePeriod) ELSE elapsed
    /\ waited' = IF shutdown = "drain" THEN Up(waited, ShutdownTimeout) ELSE waited
    /\ podElapsed' = IF sigterm THEN Up(podElapsed, PodGracePeriod) ELSE podElapsed
    /\ UNCHANGED <<open, request, start, shutdown, manager, sigterm>>

ServerNext ==
    \/ \E r \in Requests : Request(r) \/ Respond(r) \/ WriteFails(r)
    \/ ServeFails \/ Server
    \/ Stop \/ Terminate \/ StopControllers
    \/ ControllersStopped \/ GraceExpires \/ Kill \/ Tick

ServerSpec == ServerInit /\ [][ServerNext]_serverVars

\* Goroutines run and time passes; a download may take for ever.
ServerFairness == WF_serverVars(Server) /\ WF_serverVars(Tick)

-------------------------------------------------------------------------------
(* Properties.                                                               *)

\* Start waits for Shutdown, not only for Serve: a download that was accepted is
\* cut short only when it went on past the write timeout or the server failed, or
\* else at a stop, when Shutdown or the manager had waited for their full time, or
\* the kubelet for the pod's.
DownloadsFinish ==
    \A r \in Requests : request[r] = "cut" =>
        \/ age[r] = WriteTimeout \/ start = "error" \/ waited = ShutdownTimeout
        \/ manager = "error" /\ elapsed = GracePeriod
        \/ manager = "killed" /\ podElapsed = PodGracePeriod

\* Start returns after its context is cancelled, unless the process is gone first,
\* whatever downloads hang: the goroutine closes the channel also when Shutdown
\* gave up on them.  That the manager's grace period ends is not relied on.
StartEnds == manager = "stopping" ~> start \in {"nil", "error"} \/ ~Alive
===============================================================================

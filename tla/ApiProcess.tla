----------------------------- MODULE ApiProcess -----------------------------
(***************************************************************************)
(* The `hedefora api` process: cmd/hedefora/main.go, the lifecycle of      *)
(* internal/platform/app/api.go, the drain state of                        *)
(* internal/platform/health/service.go and the request pipeline of         *)
(* internal/platform/http/handler.go, on top of the database pool as       *)
(* PoolContract describes it (PostgresPool implements that contract).      *)
(*                                                                         *)
(* The goroutines: main (pc `main`), the one that runs server.Serve        *)
(* (`serve`), one handler per request (`req`), the AfterFunc goroutines    *)
(* that end probes, and the one that restores the default signal handling. *)
(* net/http is external: Shutdown closes the listener, waits for Serve and *)
(* for every active request, and gives up at its deadline; Close only cuts *)
(* connections and does not wait for handlers.                             *)
(***************************************************************************)
EXTENDS Integers

CONSTANT Requests   \* the requests clients send during the process's life

VARIABLES
    main,       \* program counter of the main goroutine
    signalled,  \* SIGINT/SIGTERM arrived: the NotifyContext is done
    defaults,   \* default signal handling is restored
    exit,       \* running, killed, or the exit code
    errs,       \* the errors joined into runAPI's result
    pooled,     \* newPool returned a pool
    draining,   \* health.Service.draining
    drainDone,  \* drainContext is cancelled
    serve,      \* the Serve goroutine
    channel,    \* serveResult: empty, ErrServerClosed, or failed
    server,     \* http.Server: up, shutdown, closed
    req,        \* program counter of each request's handler
    gone,       \* request.Context() is done
    probeErr,   \* GetHealthReady: probeContext.Err() # nil
    status,     \* the status decided for a request (0: none yet)
    phase, admitted, verdict    \* the pool (PoolContract)

mainVars == <<signalled, defaults, exit, errs, pooled>>
healthVars == <<draining, drainDone>>
serverVars == <<serve, channel, server>>
reqVars == <<req, gone, probeErr, status>>
poolVars == <<phase, admitted, verdict>>
vars == <<main, signalled, defaults, exit, errs, pooled, draining, drainDone,
          serve, channel, server, req, gone, probeErr, status,
          phase, admitted, verdict>>

Pool == INSTANCE PoolContract WITH Calls <- Requests

-----------------------------------------------------------------------------

MainPcs == {"execute", "newPool", "build", "listen", "select", "drain",
            "cancelProbes", "delay", "shutdown", "awaitIdle", "collect",
            "collectClosed", "deferDrain", "deferCancel", "deferClose",
            "closePool", "awaitPool", "exit", "exited"}
Errors  == {"ErrAPIStartup", "ErrAPIListen", "ErrAPIServe", "ErrAPIShutdown"}
\* Handlers between Accept and the end of ServeHTTP.
ActivePcs == {"route", "live", "ready", "armed", "check", "pooling", "final", "write"}
\* A probe context exists from GetHealthReady's WithTimeout to its return.
ProbePcs  == {"armed", "check", "pooling", "final"}

Active == {r \in Requests : req[r] \in ActivePcs}

Init ==
    /\ main = "execute"
    /\ signalled = FALSE
    /\ defaults = FALSE
    /\ exit = "running"
    /\ errs = {}
    /\ pooled = FALSE
    /\ draining = FALSE
    /\ drainDone = FALSE
    /\ serve = "none"
    /\ channel = "empty"
    /\ server = "up"
    /\ req = [r \in Requests |-> "none"]
    /\ gone = [r \in Requests |-> FALSE]
    /\ probeErr = [r \in Requests |-> FALSE]
    /\ status = [r \in Requests |-> 0]
    /\ Pool!Init

-----------------------------------------------------------------------------
(* The main goroutine *)

\* execute and the first lines of runAPI.  Bad arguments or configuration end
\* the process with code 2; a context that is already done ends it with nil.
Execute ==
    /\ main = "execute"
    /\ \/ /\ exit' = "2"
          /\ main' = "exited"
       \/ /\ main' = IF signalled THEN "exit" ELSE "newPool"
          /\ UNCHANGED exit
    /\ UNCHANGED <<signalled, defaults, errs, pooled, healthVars, serverVars,
                   reqVars, poolVars>>

\* Leave the current function with an error, or with nil, to the given defer.
Fail(error, next) == errs' = errs \cup {error} /\ main' = next

\* newPool; a signal that arrives while the pool is built makes it fail.
NewPool ==
    /\ main = "newPool"
    /\ \/ /\ ~signalled
          /\ pooled' = TRUE
          /\ main' = "build"
          /\ UNCHANGED errs
       \/ /\ Fail("ErrAPIStartup", "exit")
          /\ UNCHANGED pooled
    /\ UNCHANGED <<signalled, defaults, exit, healthVars, serverVars, reqVars, poolVars>>

\* buildAPIRuntime; a failure runs only the deferred pool.Close.
BuildRuntime ==
    /\ main = "build"
    /\ \/ main' = "listen" /\ UNCHANGED errs
       \/ Fail("ErrAPIStartup", "closePool")
    /\ UNCHANGED <<signalled, defaults, exit, pooled, healthVars, serverVars,
                   reqVars, poolVars>>

\* listen, and the start of runAPIOnListener: the Serve goroutine is spawned.
Listen ==
    /\ main = "listen"
    /\ \/ /\ serve' = "spawned"
          /\ main' = "select"
          /\ UNCHANGED errs
       \/ /\ Fail("ErrAPIListen", "deferDrain")
          /\ UNCHANGED serve
    /\ UNCHANGED <<signalled, defaults, exit, pooled, healthVars, channel, server,
                   reqVars, poolVars>>

\* What a value received from serveResult makes the function return.
Received ==
    /\ channel # "empty"
    /\ channel' = "empty"
    /\ IF channel = "failed"
       THEN Fail("ErrAPIServe", "deferDrain")
       ELSE main' = "deferDrain" /\ UNCHANGED errs

\* The first select: Serve ended by itself, or the signal context is done.
SelectServe ==
    /\ main = "select"
    /\ Received
    /\ UNCHANGED <<signalled, defaults, exit, pooled, healthVars, serve, server,
                   reqVars, poolVars>>

\* Mutant of SelectSignal: the server is stopped without a drain.
SelectSignalWithoutDrain ==
    /\ main = "select"
    /\ signalled
    /\ main' = "shutdown"
    /\ UNCHANGED <<mainVars, healthVars, serverVars, reqVars, poolVars>>

SelectSignal ==
    /\ main = "select"
    /\ signalled
    /\ main' = "drain"
    /\ UNCHANGED <<mainVars, healthVars, serverVars, reqVars, poolVars>>

\* BeginDrain: the compare-and-swap, then (only for its winner) cancelProbes.
BeginDrain ==
    /\ main \in {"drain", "deferDrain"}
    /\ draining' = TRUE
    /\ main' = IF ~draining
               THEN IF main = "drain" THEN "cancelProbes" ELSE "deferCancel"
               ELSE IF main = "drain" THEN "delay" ELSE "deferClose"
    /\ UNCHANGED <<mainVars, drainDone, serverVars, reqVars, poolVars>>

\* Mutant of CancelProbes: drainContext is not cancelled.
CancelNothing ==
    /\ main \in {"cancelProbes", "deferCancel"}
    /\ main' = IF main = "cancelProbes" THEN "delay" ELSE "deferClose"
    /\ UNCHANGED <<mainVars, healthVars, serverVars, reqVars, poolVars>>

CancelProbes ==
    /\ main \in {"cancelProbes", "deferCancel"}
    /\ drainDone' = TRUE
    /\ main' = IF main = "cancelProbes" THEN "delay" ELSE "deferClose"
    /\ UNCHANGED <<mainVars, draining, serverVars, reqVars, poolVars>>

\* waitDrainDelay: the timer, or Serve ending during the delay.
DrainDelayOver ==
    /\ main = "delay"
    /\ main' = "shutdown"
    /\ UNCHANGED <<mainVars, healthVars, serverVars, reqVars, poolVars>>

\* Mutant of DrainDelayServe: the stop seen during the delay is forgotten.
DrainDelayForgets ==
    /\ main = "delay"
    /\ channel # "empty"
    /\ channel' = "empty"
    /\ main' = "shutdown"
    /\ UNCHANGED <<mainVars, healthVars, serve, server, reqVars, poolVars>>

DrainDelayServe ==
    /\ main = "delay"
    /\ Received
    /\ UNCHANGED <<signalled, defaults, exit, pooled, healthVars, serve, server,
                   reqVars, poolVars>>

\* server.Shutdown closes the listener and then waits.
ShutdownStart ==
    /\ main = "shutdown"
    /\ server' = "shutdown"
    /\ main' = "awaitIdle"
    /\ UNCHANGED <<mainVars, healthVars, serve, channel, reqVars, poolVars>>

ShutdownOk ==
    /\ main = "awaitIdle"
    /\ serve = "returned"
    /\ Active = {}
    /\ main' = "collect"
    /\ UNCHANGED <<mainVars, healthVars, serverVars, reqVars, poolVars>>

\* Shutdown's deadline passed: server.Close, and handlers are left running.
ShutdownExpired ==
    /\ main = "awaitIdle"
    /\ server' = "closed"
    /\ main' = "collectClosed"
    /\ UNCHANGED <<mainVars, healthVars, serve, channel, reqVars, poolVars>>

\* <-serveResult after a complete Shutdown.
Collect ==
    /\ main = "collect"
    /\ Received
    /\ UNCHANGED <<signalled, defaults, exit, pooled, healthVars, serve, server,
                   reqVars, poolVars>>

\* <-serveResult after server.Close; its value is dropped.
CollectClosed ==
    /\ main = "collectClosed"
    /\ channel # "empty"
    /\ channel' = "empty"
    /\ Fail("ErrAPIShutdown", "deferDrain")
    /\ UNCHANGED <<signalled, defaults, exit, pooled, healthVars, serve, server,
                   reqVars, poolVars>>

\* The deferred server.Close of runAPIOnListener, after its deferred BeginDrain;
\* without a listener only the BeginDrain of runAPI has run.
DeferClose ==
    /\ main = "deferClose"
    /\ server' = IF serve = "none" THEN server ELSE "closed"
    /\ main' = "closePool"
    /\ UNCHANGED <<mainVars, healthVars, serve, channel, reqVars, poolVars>>

\* The deferred pool.Close of runAPI, on a fresh bounded context.
ClosePool ==
    /\ main = "closePool"
    /\ Pool!StartClose
    /\ main' = "awaitPool"
    /\ UNCHANGED <<mainVars, healthVars, serverVars, reqVars>>

ClosePoolOk ==
    /\ main = "awaitPool"
    /\ phase = "closed"
    /\ main' = "exit"
    /\ UNCHANGED <<mainVars, healthVars, serverVars, reqVars, poolVars>>

\* Mutant of ClosePoolExpired: the error of pool.Close is dropped.
ClosePoolErrorDropped ==
    /\ main = "awaitPool"
    /\ main' = "exit"
    /\ UNCHANGED <<mainVars, healthVars, serverVars, reqVars, poolVars>>

ClosePoolExpired ==
    /\ main = "awaitPool"
    /\ Fail("ErrAPIShutdown", "exit")
    /\ UNCHANGED <<signalled, defaults, exit, pooled, healthVars, serverVars,
                   reqVars, poolVars>>

\* os.Exit with 1 for any error.
Exit ==
    /\ main = "exit"
    /\ exit' = IF errs = {} THEN "0" ELSE "1"
    /\ main' = "exited"
    /\ UNCHANGED <<signalled, defaults, errs, pooled, healthVars, serverVars,
                   reqVars, poolVars>>

MainStep ==
    \/ Execute \/ NewPool \/ BuildRuntime \/ Listen \/ SelectServe \/ SelectSignal
    \/ BeginDrain \/ CancelProbes \/ DrainDelayOver \/ DrainDelayServe
    \/ ShutdownStart \/ ShutdownOk \/ ShutdownExpired \/ Collect \/ CollectClosed
    \/ DeferClose \/ ClosePool \/ ClosePoolOk \/ ClosePoolExpired \/ Exit

-----------------------------------------------------------------------------
(* Signals *)

FirstSignal ==
    /\ ~signalled
    /\ signalled' = TRUE
    /\ UNCHANGED <<main, defaults, exit, errs, pooled, healthVars, serverVars,
                   reqVars, poolVars>>

\* restoreSignalDefaultsAfterCancellation.
RestoreDefaults ==
    /\ signalled
    /\ ~defaults
    /\ defaults' = TRUE
    /\ UNCHANGED <<main, signalled, exit, errs, pooled, healthVars, serverVars,
                   reqVars, poolVars>>

\* A further signal ends the process at once, but only after the defaults are back.
SecondSignal ==
    /\ defaults
    /\ exit' = "killed"
    /\ main' = "exited"
    /\ UNCHANGED <<signalled, defaults, errs, pooled, healthVars, serverVars,
                   reqVars, poolVars>>

-----------------------------------------------------------------------------
(* server.Serve *)

\* Serve refuses a server that is already shut down, and returns ErrServerClosed.
ServeBegin ==
    /\ serve = "spawned"
    /\ IF server = "up"
       THEN serve' = "accepting" /\ UNCHANGED channel
       ELSE serve' = "returned" /\ channel' = "ErrServerClosed"
    /\ UNCHANGED <<main, mainVars, healthVars, server, reqVars, poolVars>>

ServeStopped ==
    /\ serve = "accepting"
    /\ server # "up"
    /\ serve' = "returned"
    /\ channel' = "ErrServerClosed"
    /\ UNCHANGED <<main, mainVars, healthVars, server, reqVars, poolVars>>

ServeFails ==
    /\ serve = "accepting"
    /\ server = "up"
    /\ serve' = "returned"
    /\ channel' = "failed"
    /\ UNCHANGED <<main, mainVars, healthVars, server, reqVars, poolVars>>

-----------------------------------------------------------------------------
(* Request handlers *)

Goto(r, label) == req' = [req EXCEPT ![r] = label]
Respond(r, code) == status' = [status EXCEPT ![r] = code] /\ Goto(r, "write")

Accept(r) ==
    /\ serve = "accepting"
    /\ req[r] = "none"
    /\ Goto(r, "route")
    /\ UNCHANGED <<main, mainVars, healthVars, serverVars, gone, probeErr, status, poolVars>>

\* ServeHTTP up to callStrictHandler: 404, 405, 400 and 406 (400 stands for all
\* of them here), or one of the two operations.
Route(r) ==
    /\ req[r] = "route"
    /\ \/ Respond(r, 400)
       \/ Goto(r, "live") /\ UNCHANGED status
       \/ Goto(r, "ready") /\ UNCHANGED status
    /\ UNCHANGED <<main, mainVars, healthVars, serverVars, gone, probeErr, poolVars>>

\* Mutant of Live: liveness does not look at the drain.
LiveIgnoringDrain(r) ==
    /\ req[r] = "live"
    /\ Respond(r, 200)
    /\ UNCHANGED <<main, mainVars, healthVars, serverVars, gone, probeErr, poolVars>>

\* GetHealthLive.
Live(r) ==
    /\ req[r] = "live"
    /\ Respond(r, IF draining THEN 503 ELSE 200)
    /\ UNCHANGED <<main, mainVars, healthVars, serverVars, gone, probeErr, poolVars>>

\* GetHealthReady, first test; then the probe context is created.
ReadyEntry(r) ==
    /\ req[r] = "ready"
    /\ IF draining \/ gone[r]
       THEN Respond(r, 503)
       ELSE Goto(r, "armed") /\ UNCHANGED status
    /\ UNCHANGED <<main, mainVars, healthVars, serverVars, gone, probeErr, poolVars>>

\* Second test, after the AfterFunc on drainContext; then readiness.Check begins.
ReadyArmed(r) ==
    /\ req[r] = "armed"
    /\ IF draining \/ probeErr[r]
       THEN Respond(r, 503) /\ UNCHANGED poolVars
       ELSE /\ Goto(r, "check")
            /\ Pool!Begin(r)
            /\ UNCHANGED status
    /\ UNCHANGED <<main, mainVars, healthVars, serverVars, gone, probeErr>>

\* Check is refused when its context or the pool has ended.
CheckRefused(r) ==
    /\ req[r] = "check"
    /\ probeErr[r] \/ phase # "open"
    /\ Pool!Refuse(r)
    /\ Goto(r, "final")
    /\ UNCHANGED <<main, mainVars, healthVars, serverVars, gone, probeErr, status>>

CheckAdmitted(r) ==
    /\ req[r] = "check"
    /\ Pool!Admit(r)
    /\ Goto(r, "pooling")
    /\ UNCHANGED <<main, mainVars, healthVars, serverVars, gone, probeErr, status>>

\* The pool decides; never for success once the caller's context has ended.
CheckDecides(r, v) ==
    /\ req[r] = "pooling"
    /\ probeErr[r] => v = "error"
    /\ Pool!Decide(r, v)
    /\ UNCHANGED <<main, mainVars, healthVars, serverVars, reqVars>>

CheckReturns(r) ==
    /\ req[r] = "pooling"
    /\ Pool!Leave(r)
    /\ Goto(r, "final")
    /\ UNCHANGED <<main, mainVars, healthVars, serverVars, gone, probeErr, status>>

\* Mutant of ReadyFinal: the error of readiness.Check is not looked at.
ReadyIgnoringError(r) ==
    /\ req[r] = "final"
    /\ Respond(r, IF probeErr[r] \/ gone[r] \/ draining THEN 503 ELSE 200)
    /\ UNCHANGED <<main, mainVars, healthVars, serverVars, gone, probeErr, poolVars>>

\* "A probe completing after cancellation or drain cannot restore readiness."
ReadyFinal(r) ==
    /\ req[r] = "final"
    /\ Respond(r, IF verdict[r] # "ok" \/ probeErr[r] \/ gone[r] \/ draining
                  THEN 503 ELSE 200)
    /\ UNCHANGED <<main, mainVars, healthVars, serverVars, gone, probeErr, poolVars>>

\* writeJSON and the end of ServeHTTP, whether or not the write reached anyone.
Write(r) ==
    /\ req[r] = "write"
    /\ Goto(r, "done")
    /\ UNCHANGED <<main, mainVars, healthVars, serverVars, gone, probeErr, status, poolVars>>

\* The request context ends: the client left, or server.Close cut the connection.
\* The probe context is its child.
RequestEnds(r) ==
    /\ req[r] \in ActivePcs
    /\ ~gone[r]
    /\ gone' = [gone EXCEPT ![r] = TRUE]
    /\ probeErr' = [probeErr EXCEPT ![r] = probeErr[r] \/ req[r] \in ProbePcs]
    /\ UNCHANGED <<main, mainVars, healthVars, serverVars, req, status, poolVars>>

ReadinessTimeout(r) ==
    /\ req[r] \in ProbePcs
    /\ ~probeErr[r]
    /\ probeErr' = [probeErr EXCEPT ![r] = TRUE]
    /\ UNCHANGED <<main, mainVars, healthVars, serverVars, req, gone, status, poolVars>>

\* context.AfterFunc(service.drainContext, cancel), on its own goroutine.
DrainEndsProbe(r) ==
    /\ drainDone
    /\ req[r] \in ProbePcs
    /\ ~probeErr[r]
    /\ probeErr' = [probeErr EXCEPT ![r] = TRUE]
    /\ UNCHANGED <<main, mainVars, healthVars, serverVars, req, gone, status, poolVars>>

RequestStep(r) ==
    \/ Accept(r) \/ Route(r) \/ Live(r) \/ ReadyEntry(r) \/ ReadyArmed(r)
    \/ CheckRefused(r) \/ CheckAdmitted(r)
    \/ \E v \in {"ok", "error"} : CheckDecides(r, v)
    \/ CheckReturns(r) \/ ReadyFinal(r) \/ Write(r)
    \/ RequestEnds(r) \/ ReadinessTimeout(r) \/ DrainEndsProbe(r)

\* The pool's own goroutine completes the close.
PoolClosed ==
    /\ Pool!FinishClose
    /\ UNCHANGED <<main, mainVars, healthVars, serverVars, reqVars>>

-----------------------------------------------------------------------------

\* Nothing moves once the process has ended.
Next ==
    /\ exit = "running"
    /\ \/ MainStep
       \/ FirstSignal \/ RestoreDefaults \/ SecondSignal
       \/ ServeBegin \/ ServeStopped \/ ServeFails
       \/ \E r \in Requests : RequestStep(r)
       \/ PoolClosed

Spec == Init /\ [][Next]_vars

-----------------------------------------------------------------------------
(* Fairness.  The main and Serve goroutines run whenever they can, and the   *)
(* timers main waits for fire (they are disjuncts of MainStep).  Clients,    *)
(* handlers, the database and further signals owe nothing.                   *)

Running(A) == exit = "running" /\ A

MainFairness == WF_vars(Running(MainStep)) /\ WF_vars(Running(ServeBegin \/ ServeStopped))


\* For the drain: handlers run, and a Check whose context has ended returns
\* (PostgresPool's CheckReturns).  No timer is assumed to fire, neither a probe's
\* nor one of main's.
DrainFairness ==
    /\ WF_vars(Running(CancelProbes))
    /\ \A r \in Requests :
          /\ WF_vars(Running(DrainEndsProbe(r)))
          /\ WF_vars(Running(ReadyArmed(r)))
          /\ WF_vars(Running(CheckRefused(r) \/ CheckAdmitted(r)))
          /\ WF_vars(Running(probeErr[r] /\ CheckDecides(r, "error")))
          /\ WF_vars(Running(CheckReturns(r)))
          /\ WF_vars(Running(ReadyFinal(r)))

-----------------------------------------------------------------------------
(* Properties *)

\* Every variable keeps to its range.
TypeOK ==
    /\ main \in MainPcs
    /\ signalled \in BOOLEAN
    /\ defaults \in BOOLEAN
    /\ exit \in {"running", "0", "1", "2", "killed"}
    /\ errs \subseteq Errors
    /\ pooled \in BOOLEAN
    /\ draining \in BOOLEAN
    /\ drainDone \in BOOLEAN
    /\ serve \in {"none", "spawned", "accepting", "returned"}
    /\ channel \in {"empty", "ErrServerClosed", "failed"}
    /\ server \in {"up", "shutdown", "closed"}
    /\ req \in [Requests -> ActivePcs \cup {"none", "done"}]
    /\ gone \in [Requests -> BOOLEAN]
    /\ probeErr \in [Requests -> BOOLEAN]
    /\ status \in [Requests -> {0, 200, 400, 503}]
    /\ Pool!TypeOK

\* Readiness is withdrawn first: the listener never stops, neither through
\* Shutdown nor through a deferred Close after a Serve failure, before health
\* reports draining (api.go 136-137, 152, 166-170).
DrainBeforeStop == server # "up" => draining

\* The pool outlives the server (the order of runAPI's deferred calls, api.go
\* 72-83): once its Close has begun, no new request can come in.
PoolClosesLast ==
    phase # "open" => /\ main \in {"awaitPool", "exit", "exited"}
                      /\ serve = "none" \/ (draining /\ server = "closed")

\* The process goes down in order on every return path of runAPI.
ShutdownOrder == DrainBeforeStop /\ PoolClosesLast

\* Exit code 0 is a promise: if the process ever had a pool, the pool is down,
\* and every request that was accepted has been answered.
ExitZeroIsClean ==
    exit = "0" => /\ pooled => phase = "closed"
                  /\ Active = {}

\* "A probe completing after cancellation or drain cannot restore readiness"
\* (service.go 116), and neither can liveness: no 200 is decided after the drain.
NoSuccessAfterDrain ==
    [][draining => \A r \in Requests : status'[r] = 200 => status[r] = 200]_vars

\* A 200 for readiness is decided only on this request's own successful probe,
\* with the pool still open and the server still accepting.
ReadyIsTrue ==
    [][\A r \in Requests :
          req[r] = "final" /\ req'[r] = "write" /\ status'[r] = 200 =>
              verdict[r] = "ok" /\ phase = "open" /\ server = "up"]_vars

\* A signal, or a server that fails, ends the process, whatever clients, handlers
\* and the database do: every wait of the main goroutine is bounded and no value
\* of serveResult is waited for twice.
Terminates == MainFairness => ((signalled \/ channel = "failed") ~> exit # "running")

\* The drain reaches every readiness probe without waiting for its timeout
\* (service.go 70 and 110).
DrainReachesProbes ==
    DrainFairness => \A r \in Requests :
        draining /\ req[r] \in ProbePcs ~> req[r] \notin ProbePcs \/ exit # "running"

=============================================================================

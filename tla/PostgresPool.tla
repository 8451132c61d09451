---------------------------- MODULE PostgresPool ----------------------------
(***************************************************************************)
(* The application's database pool, internal/platform/postgres/pool.go.    *)
(*                                                                         *)
(* Readiness probes (Check) and shutdown (Close) run on goroutines of      *)
(* their own and meet only in p.mu, the WaitGroup, the lifetime context    *)
(* and the provider (pgxpool).  Each action below is one step that the Go  *)
(* scheduler cannot split: a critical section of p.mu, one read of a       *)
(* context, one call into or return from the provider, one timer, or one   *)
(* context.AfterFunc goroutine.                                            *)
(*                                                                         *)
(* Contexts.  A caller's context and the probe deadline are Booleans ("has *)
(* Err() become non-nil").  Cancelling a parent cancels its children in    *)
(* the same step, as context.WithTimeout does; the lifetime context is not *)
(* a parent of the probe: AfterFunc cancels the probe from another         *)
(* goroutine, some time later.                                             *)
(*                                                                         *)
(* pgxpool, the resolver and the dialer are external: they may fail at any *)
(* time, may succeed although their context has just ended, and finish     *)
(* building a connection whose Acquire caller has left.                    *)
(***************************************************************************)
EXTENDS Integers, FiniteSets

CONSTANTS
    Checks,     \* goroutines that call Check (HTTP readiness handlers)
    Closers,    \* goroutines that call Close
    Slots,      \* the provider's connection slots (MaxConns of them)
    NoConn      \* "conn == nil" in Check

ASSUME PoolConstants ==
    /\ IsFiniteSet(Checks)
    /\ NoConn \notin Slots

VARIABLES
    ctor,       \* progress of New
    closed,     \* p.closed, set together with p.cancel() under p.mu
    operations, \* p.operations, the WaitGroup counter
    finisher,   \* the goroutine Close spawns: none, waiting, closing, done
    backend,    \* p.backend and what the provider's own Close has reached
    pc,         \* Check: where each call is
    callerErr,  \* Check: ctx.Err() # nil
    probeErr,   \* Check: probe.Err() # nil
    acquireExp, \* Check: the acquire timeout itself has expired
    conn,       \* Check: the slot of the acquired connection, or NoConn
    fallback,   \* Check: third argument of p.result
    res,        \* Check: the value the call returns
    closer,     \* Close: idle, waiting, ok, expired, or ErrClosed
    slot,       \* provider: state of each connection slot
    socket,     \* the slot's TCP socket: none, open, or shut
    watched     \* lifecycleConnection: AfterFunc(lifetime, conn.Close) is set

poolVars  == <<ctor, closed, operations, finisher, backend>>
checkVars == <<pc, callerErr, probeErr, acquireExp, conn, fallback, res>>
slotVars  == <<slot, socket, watched>>
vars == <<ctor, closed, operations, finisher, backend,
          pc, callerErr, probeErr, acquireExp, conn, fallback, res,
          closer, slot, socket, watched>>

-----------------------------------------------------------------------------

CtorStates   == {"start", "config", "assigned", "returned", "failed"}
BackendState == {"nil", "open", "closing", "closed"}
InFlightPcs  == {"arm", "acquire", "acquired", "admitted", "ping", "result",
                 "release", "finish"}
Failures     == {"unavailable", "acquireErr"}
Results      == {"none", "ok", "closed", "callerErr", "probeErr"} \cup Failures
SlotStates   == {"empty", "lookup", "dial", "dialing", "dialed", "checked",
                 "startup", "idle", "held"}

\* The calls the WaitGroup counts: registered and not yet Done.
InFlight == {c \in Checks : pc[c] \in InFlightPcs}

\* p.lifetime.Err() # nil: Close cancels it, and so does a New that fails.
LifetimeDone == closed \/ ctor = "failed"

Init ==
    /\ ctor = "start"
    /\ closed = FALSE
    /\ operations = 0
    /\ finisher = "none"
    /\ backend = "nil"
    /\ pc = [c \in Checks |-> "idle"]
    /\ callerErr = [c \in Checks |-> FALSE]
    /\ probeErr = [c \in Checks |-> FALSE]
    /\ acquireExp = [c \in Checks |-> FALSE]
    /\ conn = [c \in Checks |-> NoConn]
    /\ fallback = [c \in Checks |-> "none"]
    /\ res = [c \in Checks |-> "none"]
    /\ closer = [x \in Closers |-> "idle"]
    /\ slot = [k \in Slots |-> "empty"]
    /\ socket = [k \in Slots |-> "none"]
    /\ watched = [k \in Slots |-> FALSE]

-----------------------------------------------------------------------------
(* New *)

\* New up to pgxpool.NewWithConfig: its context is live, or the call returns.
NewStart ==
    /\ ctor = "start"
    /\ ctor' \in {"config", "failed"}
    /\ UNCHANGED <<closed, operations, finisher, backend, checkVars, closer, slotVars>>

\* providerConfig and NewWithConfig either produce the backend, which opens no
\* connection, or fail; p.cancel() then ends the lifetime of the discarded pool.
NewBackend ==
    /\ ctor = "config"
    /\ \/ /\ ctor' = "assigned"
          /\ backend' = "open"
       \/ /\ ctor' = "failed"
          /\ UNCHANGED backend
    /\ UNCHANGED <<closed, operations, finisher, checkVars, closer, slotVars>>

\* The critical section of Close: the first caller stops admission, cancels the
\* lifetime and spawns the goroutine that owns the provider's Close.
CloseLocked ==
    IF closed
    THEN UNCHANGED <<closed, finisher>>
    ELSE /\ closed' = TRUE
         /\ finisher' = "waiting"

NewReturn ==
    /\ ctor = "assigned"
    /\ ctor' = "returned"
    /\ UNCHANGED <<closed, operations, finisher, backend, checkVars, closer, slotVars>>

\* New's context ended while the provider was created: the pool is closed with
\* that context, so the wait ends at once and only the error is returned.
NewAbandon ==
    /\ ctor = "assigned"
    /\ ctor' = "failed"
    /\ CloseLocked
    /\ UNCHANGED <<operations, backend, checkVars, closer, slotVars>>

-----------------------------------------------------------------------------
(* Check *)

Goto(c, label) == pc' = [pc EXCEPT ![c] = label]

\* ctx.Err() is read before the lock: a caller may come with a context that has
\* ended already.
CheckStart(c) ==
    /\ ctor = "returned"
    /\ pc[c] = "idle"
    /\ \/ /\ res' = [res EXCEPT ![c] = "callerErr"]
          /\ UNCHANGED pc
       \/ /\ res' = [res EXCEPT ![c] = "none"]
          /\ Goto(c, "lock")
    /\ UNCHANGED <<poolVars, callerErr, probeErr, acquireExp, conn, fallback,
                   closer, slotVars>>

\* Critical section: refuse when closed, otherwise register with the WaitGroup.
CheckRegister(c) ==
    /\ pc[c] = "lock"
    /\ IF closed \/ backend = "nil"
       THEN /\ res' = [res EXCEPT ![c] = "closed"]
            /\ callerErr' = [callerErr EXCEPT ![c] = FALSE]
            /\ Goto(c, "idle")
            /\ UNCHANGED operations
       ELSE /\ operations' = operations + 1
            /\ Goto(c, "arm")
            /\ UNCHANGED <<res, callerErr>>
    /\ UNCHANGED <<ctor, closed, finisher, backend, probeErr, acquireExp, conn,
                   fallback, closer, slotVars>>

\* The probe context (a child of the caller's) with its AfterFunc on the
\* lifetime, then the acquire context (a child of the probe).
CheckArm(c) ==
    /\ pc[c] = "arm"
    /\ probeErr' = [probeErr EXCEPT ![c] = callerErr[c]]
    /\ Goto(c, "acquire")
    /\ UNCHANGED <<poolVars, callerErr, acquireExp, conn, fallback, res, closer, slotVars>>

\* backend.Acquire hands out an idle connection.
AcquireConn(c, k) ==
    /\ pc[c] = "acquire"
    /\ slot[k] = "idle"
    /\ slot' = [slot EXCEPT ![k] = "held"]
    /\ conn' = [conn EXCEPT ![c] = k]
    /\ Goto(c, "acquired")
    /\ UNCHANGED <<poolVars, callerErr, probeErr, acquireExp, fallback, res,
                   closer, socket, watched>>

\* backend.Acquire returns an error: its context ended, or the provider failed.
AcquireFail(c) ==
    /\ pc[c] = "acquire"
    /\ Goto(c, "acquired")
    /\ UNCHANGED <<poolVars, callerErr, probeErr, acquireExp, conn, fallback,
                   res, closer, slotVars>>

\* acquire.Err(): its own timeout or any ancestor's end.
AcquireErr(c) == acquireExp[c] \/ probeErr[c]

\* Mutant of CheckAcquired: the error path forgets the connection it was given.
CheckAcquiredLeaks(c) ==
    /\ pc[c] = "acquired"
    /\ IF AcquireErr(c) \/ conn[c] = NoConn
       THEN /\ fallback' = [fallback EXCEPT ![c] = "unavailable"]
            /\ conn' = [conn EXCEPT ![c] = NoConn]
            /\ Goto(c, "result")
       ELSE /\ Goto(c, "admitted")
            /\ UNCHANGED <<conn, fallback>>
    /\ acquireExp' = [acquireExp EXCEPT ![c] = FALSE]
    /\ UNCHANGED <<poolVars, callerErr, probeErr, res, closer, slotVars>>

\* Mutant of CheckAcquired: the error path returns without p.result.
CheckAcquiredSkipsResult(c) ==
    /\ pc[c] = "acquired"
    /\ Goto(c, IF AcquireErr(c) \/ conn[c] = NoConn THEN "release" ELSE "admitted")
    /\ acquireExp' = [acquireExp EXCEPT ![c] = FALSE]
    /\ UNCHANGED <<poolVars, callerErr, probeErr, conn, fallback, res, closer, slotVars>>

\* acquireErr is read after Acquire returned and the acquire context dropped; a
\* connection that came with an ended context is not used, and is released by
\* the deferred call.
CheckAcquired(c) ==
    /\ pc[c] = "acquired"
    /\ IF AcquireErr(c) \/ conn[c] = NoConn
       THEN /\ fallback' = [fallback EXCEPT ![c] =
                              IF AcquireErr(c) THEN "acquireErr" ELSE "unavailable"]
            /\ Goto(c, "result")
       ELSE /\ Goto(c, "admitted")
            /\ UNCHANGED fallback
    /\ acquireExp' = [acquireExp EXCEPT ![c] = FALSE]
    /\ UNCHANGED <<poolVars, callerErr, probeErr, conn, res, closer, slotVars>>

\* The last look at the probe before the connection is used.
CheckProbeLive(c) ==
    /\ pc[c] = "admitted"
    /\ IF probeErr[c]
       THEN /\ fallback' = [fallback EXCEPT ![c] = "unavailable"]
            /\ Goto(c, "result")
       ELSE /\ Goto(c, "ping")
            /\ UNCHANGED fallback
    /\ UNCHANGED <<poolVars, callerErr, probeErr, acquireExp, conn, res, closer, slotVars>>

\* conn.Ping answers; only on an open socket.
PingOk(c) ==
    /\ pc[c] = "ping"
    /\ conn[c] \in Slots
    /\ socket[conn[c]] = "open"
    /\ fallback' = [fallback EXCEPT ![c] = "ok"]
    /\ Goto(c, "result")
    /\ UNCHANGED <<poolVars, callerErr, probeErr, acquireExp, conn, res, closer, slotVars>>

\* conn.Ping fails: the server, the socket or the probe context gave up.
PingFail(c) ==
    /\ pc[c] = "ping"
    /\ fallback' = [fallback EXCEPT ![c] = "unavailable"]
    /\ Goto(c, "result")
    /\ UNCHANGED <<poolVars, callerErr, probeErr, acquireExp, conn, res, closer, slotVars>>

\* p.result, one critical section: the caller's end, then the pool's, then the
\* probe's, and only then what the probe found.
ResultOf(c) ==
    IF callerErr[c] THEN "callerErr"
    ELSE IF closed THEN "closed"
    ELSE IF probeErr[c] THEN "probeErr"
    ELSE fallback[c]

CheckResult(c) ==
    /\ pc[c] = "result"
    /\ res' = [res EXCEPT ![c] = ResultOf(c)]
    /\ Goto(c, "release")
    /\ UNCHANGED <<poolVars, callerErr, probeErr, acquireExp, conn, fallback,
                   closer, slotVars>>

\* The deferred conn.Release: a usable connection goes back to the provider, any
\* other is destroyed, which closes its socket and stops its watcher.
CheckRelease(c) ==
    /\ pc[c] = "release"
    /\ conn' = [conn EXCEPT ![c] = NoConn]
    /\ \/ /\ conn[c] = NoConn
          /\ UNCHANGED slotVars
       \/ /\ conn[c] # NoConn
          /\ socket[conn[c]] = "open"
          /\ slot' = [slot EXCEPT ![conn[c]] = "idle"]
          /\ UNCHANGED <<socket, watched>>
       \/ /\ conn[c] # NoConn
          /\ slot' = [slot EXCEPT ![conn[c]] = "empty"]
          /\ socket' = [socket EXCEPT ![conn[c]] = "none"]
          /\ watched' = [watched EXCEPT ![conn[c]] = FALSE]
    /\ Goto(c, "finish")
    /\ UNCHANGED <<poolVars, callerErr, probeErr, acquireExp, fallback, res, closer>>

\* Mutant of CheckFinish: operations.Done() runs twice.
CheckFinishTwice(c) ==
    /\ pc[c] = "finish"
    /\ operations' = operations - 2
    /\ Goto(c, "idle")
    /\ UNCHANGED <<ctor, closed, finisher, backend, callerErr, probeErr,
                   acquireExp, conn, fallback, res, closer, slotVars>>

\* The remaining deferred calls: cancel, stop, and operations.Done() last.  The
\* call's contexts and locals end with it.
CheckFinish(c) ==
    /\ pc[c] = "finish"
    /\ operations' = operations - 1
    /\ fallback' = [fallback EXCEPT ![c] = "none"]
    /\ callerErr' = [callerErr EXCEPT ![c] = FALSE]
    /\ probeErr' = [probeErr EXCEPT ![c] = FALSE]
    /\ Goto(c, "idle")
    /\ UNCHANGED <<ctor, closed, finisher, backend, acquireExp, conn, res,
                   closer, slotVars>>

\* Mutant of ProbeArmed: Ping is given a context without the probe's deadline.
ProbeArmedExceptPing(c) == pc[c] \in {"acquire", "acquired", "admitted", "result"}

\* The probe context exists from CheckArm on; p.result reads it last.
ProbeArmed(c) == pc[c] \in {"acquire", "acquired", "admitted", "ping", "result"}

\* The caller's context ends; its child, the probe, ends with it.
CallerEnds(c) ==
    /\ pc[c] \in {"lock", "arm"} \/ ProbeArmed(c)
    /\ ~callerErr[c]
    /\ callerErr' = [callerErr EXCEPT ![c] = TRUE]
    /\ probeErr' = [probeErr EXCEPT ![c] = probeErr[c] \/ ProbeArmed(c)]
    /\ UNCHANGED <<poolVars, pc, acquireExp, conn, fallback, res, closer, slotVars>>

ProbeTimeout(c) ==
    /\ ProbeArmed(c)
    /\ ~probeErr[c]
    /\ probeErr' = [probeErr EXCEPT ![c] = TRUE]
    /\ UNCHANGED <<poolVars, pc, callerErr, acquireExp, conn, fallback, res, closer, slotVars>>

AcquireTimeout(c) ==
    /\ pc[c] \in {"acquire", "acquired"}
    /\ ~acquireExp[c]
    /\ acquireExp' = [acquireExp EXCEPT ![c] = TRUE]
    /\ UNCHANGED <<poolVars, pc, callerErr, probeErr, conn, fallback, res, closer, slotVars>>

\* context.AfterFunc(p.lifetime, cancel), on its own goroutine.
LifetimeEndsProbe(c) ==
    /\ LifetimeDone
    /\ ProbeArmed(c)
    /\ ~probeErr[c]
    /\ probeErr' = [probeErr EXCEPT ![c] = TRUE]
    /\ UNCHANGED <<poolVars, pc, callerErr, acquireExp, conn, fallback, res, closer, slotVars>>

-----------------------------------------------------------------------------
(* Close *)

CloseStart(x) ==
    /\ ctor = "returned"
    /\ closer[x] # "waiting"
    /\ IF backend = "nil"
       THEN /\ closer' = [closer EXCEPT ![x] = "ErrClosed"]
            /\ UNCHANGED <<closed, finisher>>
       ELSE /\ CloseLocked
            /\ closer' = [closer EXCEPT ![x] = "waiting"]
    /\ UNCHANGED <<ctor, operations, backend, checkVars, slotVars>>

\* case <-p.closeDone, with the caller's bound still running.
CloseReturn(x) ==
    /\ closer[x] = "waiting"
    /\ finisher = "done"
    /\ closer' = [closer EXCEPT ![x] = "ok"]
    /\ UNCHANGED <<poolVars, checkVars, slotVars>>

\* Mutant of CloseExpire: the expired wait is reported as success.
CloseExpireAsOk(x) ==
    /\ closer[x] = "waiting"
    /\ closer' = [closer EXCEPT ![x] = "ok"]
    /\ UNCHANGED <<poolVars, checkVars, slotVars>>

\* case <-bounded.Done(), or closeDone with bounded.Err() already non-nil.
CloseExpire(x) ==
    /\ closer[x] = "waiting"
    /\ closer' = [closer EXCEPT ![x] = "expired"]
    /\ UNCHANGED <<poolVars, checkVars, slotVars>>

\* Mutant of FinisherWaits: operations.Wait() is missing.
FinisherDoesNotWait ==
    /\ finisher = "waiting"
    /\ finisher' = "closing"
    /\ backend' = "closing"
    /\ UNCHANGED <<ctor, closed, operations, checkVars, closer, slotVars>>

\* operations.Wait() returns and backend.Close() begins.
FinisherWaits ==
    /\ finisher = "waiting"
    /\ operations = 0
    /\ finisher' = "closing"
    /\ backend' = "closing"
    /\ UNCHANGED <<ctor, closed, operations, checkVars, closer, slotVars>>

\* The provider's Close returns once every connection, also one still being
\* built, has been destroyed; then close(p.closeDone).
FinisherDone ==
    /\ finisher = "closing"
    /\ \A k \in Slots : slot[k] = "empty"
    /\ finisher' = "done"
    /\ backend' = "closed"
    /\ UNCHANGED <<ctor, closed, operations, checkVars, closer, slotVars>>

-----------------------------------------------------------------------------
(* Connection construction: boundedLookup, boundedDial, lifecycleConnection *)

SetSlot(k, s) == slot' = [slot EXCEPT ![k] = s]

Discard(k) ==
    /\ SetSlot(k, "empty")
    /\ socket' = [socket EXCEPT ![k] = "none"]
    /\ watched' = [watched EXCEPT ![k] = FALSE]

\* A waiting Acquire makes the provider build a connection, which boundedLookup
\* refuses at once when the lifetime is over; from here on the construction no
\* longer depends on that caller.
BuildStart(k) ==
    /\ backend = "open"
    /\ slot[k] = "empty"
    /\ ~LifetimeDone
    /\ \E c \in Checks : pc[c] = "acquire"
    /\ SetSlot(k, "lookup")
    /\ UNCHANGED <<poolVars, checkVars, closer, socket, watched>>

\* The resolver answers.  The lifetime's AfterFunc may not have run yet, so an
\* answer can still pass after Close.
LookupOk(k) ==
    /\ slot[k] = "lookup"
    /\ SetSlot(k, "dial")
    /\ UNCHANGED <<poolVars, checkVars, closer, socket, watched>>

\* boundedDial looks at the lifetime itself before it dials.
DialStart(k) ==
    /\ slot[k] = "dial"
    /\ SetSlot(k, IF LifetimeDone THEN "empty" ELSE "dialing")
    /\ UNCHANGED <<poolVars, checkVars, closer, socket, watched>>

DialOk(k) ==
    /\ slot[k] = "dialing"
    /\ SetSlot(k, "dialed")
    /\ socket' = [socket EXCEPT ![k] = "open"]
    /\ UNCHANGED <<poolVars, checkVars, closer, watched>>

\* Lookup, dial or the startup on the new socket fails or times out; a socket
\* that exists is closed.
BuildFail(k) ==
    /\ slot[k] \in {"lookup", "dialing", "dialed", "startup"}
    /\ Discard(k)
    /\ UNCHANGED <<poolVars, checkVars, closer>>

\* After the dial: a socket of an ended lifetime is closed, not returned.
DialCheck(k) ==
    /\ slot[k] = "dialed"
    /\ IF LifetimeDone
       THEN Discard(k)
       ELSE /\ SetSlot(k, "checked")
            /\ UNCHANGED <<socket, watched>>
    /\ UNCHANGED <<poolVars, checkVars, closer>>

\* Mutant of DialWatch: the socket is returned without its AfterFunc.
DialUnwatched(k) ==
    /\ slot[k] = "checked"
    /\ SetSlot(k, "startup")
    /\ UNCHANGED <<poolVars, checkVars, closer, socket, watched>>

\* context.AfterFunc(lifetime, conn.Close) ties the socket to the pool.
DialWatch(k) ==
    /\ slot[k] = "checked"
    /\ SetSlot(k, "startup")
    /\ watched' = [watched EXCEPT ![k] = TRUE]
    /\ UNCHANGED <<poolVars, checkVars, closer, socket>>

\* TLS and startup succeed: the connection becomes available.
BuildOk(k) ==
    /\ slot[k] = "startup"
    /\ socket[k] = "open"
    /\ SetSlot(k, "idle")
    /\ UNCHANGED <<poolVars, checkVars, closer, socket, watched>>

\* The watcher's goroutine closes the socket under whoever uses it.
WatcherFires(k) ==
    /\ watched[k]
    /\ LifetimeDone
    /\ socket[k] = "open"
    /\ socket' = [socket EXCEPT ![k] = "shut"]
    /\ UNCHANGED <<poolVars, checkVars, closer, slot, watched>>

\* The provider drops an idle connection: broken, expired, or the pool closes.
IdleDestroy(k) ==
    /\ slot[k] = "idle"
    /\ Discard(k)
    /\ UNCHANGED <<poolVars, checkVars, closer>>

-----------------------------------------------------------------------------

CheckStep(c) ==
    \/ CheckStart(c) \/ CheckRegister(c) \/ CheckArm(c)
    \/ \E k \in Slots : AcquireConn(c, k)
    \/ AcquireFail(c) \/ CheckAcquired(c) \/ CheckProbeLive(c)
    \/ PingOk(c) \/ PingFail(c)
    \/ CheckResult(c) \/ CheckRelease(c) \/ CheckFinish(c)

ContextStep(c) ==
    CallerEnds(c) \/ ProbeTimeout(c) \/ AcquireTimeout(c) \/ LifetimeEndsProbe(c)

CloseStep(x) == CloseStart(x) \/ CloseReturn(x) \/ CloseExpire(x)

SlotStep(k) ==
    \/ BuildStart(k) \/ LookupOk(k) \/ DialStart(k) \/ DialOk(k) \/ BuildFail(k)
    \/ DialCheck(k) \/ DialWatch(k) \/ BuildOk(k) \/ WatcherFires(k) \/ IdleDestroy(k)

Next ==
    \/ NewStart \/ NewBackend \/ NewReturn \/ NewAbandon
    \/ \E c \in Checks : CheckStep(c) \/ ContextStep(c)
    \/ \E x \in Closers : CloseStep(x)
    \/ FinisherWaits \/ FinisherDone
    \/ \E k \in Slots : SlotStep(k)

Spec == Init /\ [][Next]_vars

-----------------------------------------------------------------------------
(* Fairness.  Goroutines that can run do run, and the AfterFunc goroutines   *)
(* with them.  Of the provider only this is assumed: Acquire, Ping, lookup   *)
(* and dial return once their context has ended, the startup fails once its  *)
(* socket is closed, and the provider's Close destroys idle connections.     *)

BuildCancelled(k) ==
    /\ \/ LifetimeDone /\ slot[k] \in {"lookup", "dialing"}
       \/ socket[k] = "shut"
    /\ BuildFail(k)

Progress ==
    /\ WF_vars(NewBackend)
    /\ WF_vars(FinisherWaits) /\ WF_vars(FinisherDone)
    /\ \A c \in Checks :
          /\ WF_vars(CheckRegister(c)) /\ WF_vars(CheckArm(c))
          /\ WF_vars(AcquireErr(c) /\ AcquireFail(c))
          /\ WF_vars(CheckAcquired(c)) /\ WF_vars(CheckProbeLive(c))
          /\ WF_vars(probeErr[c] /\ PingFail(c))
          /\ WF_vars(CheckResult(c)) /\ WF_vars(CheckRelease(c))
          /\ WF_vars(CheckFinish(c)) /\ WF_vars(LifetimeEndsProbe(c))
    /\ \A k \in Slots :
          /\ WF_vars(DialStart(k)) /\ WF_vars(DialCheck(k)) /\ WF_vars(DialWatch(k))
          /\ WF_vars(WatcherFires(k)) /\ WF_vars(BuildCancelled(k))
          /\ WF_vars(backend = "closing" /\ IdleDestroy(k))

\* No timer is assumed to fire: what ends the probes is the lifetime alone.
ProgressSpec == Spec /\ Progress

\* The timers of the probes fire as well.
TimersFire == \A c \in Checks : WF_vars(ProbeTimeout(c))

-----------------------------------------------------------------------------
(* Properties *)

\* Every variable keeps to its range.
TypeOK ==
    /\ ctor \in CtorStates
    /\ closed \in BOOLEAN
    /\ operations \in Nat
    /\ finisher \in {"none", "waiting", "closing", "done"}
    /\ backend \in BackendState
    /\ pc \in [Checks -> InFlightPcs \cup {"idle", "lock"}]
    /\ callerErr \in [Checks -> BOOLEAN]
    /\ probeErr \in [Checks -> BOOLEAN]
    /\ acquireExp \in [Checks -> BOOLEAN]
    /\ conn \in [Checks -> Slots \cup {NoConn}]
    /\ fallback \in [Checks -> {"none", "ok"} \cup Failures]
    /\ res \in [Checks -> Results]
    /\ closer \in [Closers -> {"idle", "waiting", "ok", "expired", "ErrClosed"}]
    /\ slot \in [Slots -> SlotStates]
    /\ socket \in [Slots -> {"none", "open", "shut"}]
    /\ watched \in [Slots -> BOOLEAN]

\* The WaitGroup counts exactly the calls between Add and Done (pool.go 221-223):
\* it can neither go negative, which panics, nor miss a call that is running.
WaitGroupExact == operations = Cardinality(InFlight)

\* "Only this goroutine uses the acquired connection, including its release"
\* (pool.go 241), on every return path: a connection handed out has exactly one
\* owner, which is a call that will still release it.
ConnectionOwned ==
    /\ \A c \in Checks :
          conn[c] # NoConn =>
              /\ slot[conn[c]] = "held"
              /\ pc[c] \in {"acquired", "admitted", "ping", "result", "release"}
    /\ \A c, d \in Checks : conn[c] # NoConn /\ conn[c] = conn[d] => c = d
    /\ \A k \in Slots : slot[k] = "held" => \E c \in Checks : conn[c] = k

\* The provider's Close never runs beside a Check (pool.go 286-290): while it
\* runs, and ever after, no call is registered.
NoProviderUseAfterClose ==
    backend \in {"closing", "closed"} => closed /\ InFlight = {}

\* A Close that returned nil means the provider is down: no call in flight, no
\* connection, no socket, not even one whose construction outlived its caller
\* ("a timed-out wait does not claim provider completion", pool.go 301).
CloseOkMeansQuiescent ==
    (\E x \in Closers : closer[x] = "ok") =>
        /\ InFlight = {}
        /\ \A k \in Slots : slot[k] = "empty" /\ socket[k] = "none"

\* Close stops admission: from the step that takes the lock on, no further call
\* is registered and no call decides for success (pool.go 217 and 262).
AfterClose ==
    [][closed => /\ InFlight' \subseteq InFlight
                 /\ \A c \in Checks : res'[c] = "ok" => res[c] = "ok"]_vars

\* Close always completes: the provider is closed and closeDone with it, without
\* the help of any timer, because the lifetime ends every probe, dial and socket
\* (pool.go 145, 180, 201, 225).
CloseCompletes == closed ~> finisher = "done"

\* "Check is a bounded reachability probe" (pool.go 2): with the probe timer
\* running, every Check returns even when the server never answers.
CheckReturns == TimersFire => \A c \in Checks : pc[c] # "idle" ~> pc[c] = "idle"

-----------------------------------------------------------------------------
(* What the pool promises, and the state of that promise in this module. *)

contractPhase ==
    IF finisher = "done" THEN "closed" ELSE IF closed THEN "closing" ELSE "open"

contractVerdict ==
    [c \in Checks |->
        IF pc[c] \notin {"release", "finish", "idle"} \/ res[c] = "none" THEN "none"
        ELSE IF res[c] = "ok" THEN "ok" ELSE "error"]

Contract == INSTANCE PoolContract WITH
    Calls <- Checks, phase <- contractPhase, admitted <- InFlight,
    verdict <- contractVerdict

\* The pool implements its contract: admission, verdicts and the two phases of
\* shutdown follow PoolContract, whatever the provider and the timers do.
ImplementsContract == Contract!Spec

=============================================================================

------------------------- MODULE FixtureContainer -------------------------
(***************************************************************************)
(* runFixtureContainer of tests/integration/postgres/live/                 *)
(* fixture-container.mjs: process 1 of the fixture container.  It starts   *)
(* two postmasters, runs the SQL gate and the Go tests against them, and   *)
(* writes a receipt.  The Go tests stop and start the primary through the  *)
(* lifecycle controller, while the program waits for their end.            *)
(*                                                                         *)
(* The lease can be over at any check of it, so every step that checks it  *)
(* may throw instead; that it is over for good once the finally block has  *)
(* begun (`cleaning`) is modelled.  A process that was sent SIGKILL may    *)
(* outlive every timer of the program.                                     *)
(***************************************************************************)
EXTENDS LifecycleController

CONSTANT Packages    \* how many Go test packages are run (2 in the code)

ASSUME PackagesAssumption == Packages \in Nat \ {0}

VARIABLES
    evidence,  \* those of bootstrap, sqlEvidence and goEvidence that are set
    proc,      \* the postmaster process of each data directory
    known,     \* what its startPostmaster object knows: running (isRunning()),
               \* failing (kill() was called), or how `closed` was settled
    older,     \* a process of an earlier postmaster still has the directory
    client,    \* psql: none, an open session, or a process that may be left
    children,  \* the Go test binary and the converter that have not closed
    broken,    \* runGoPackage, while it waits: invalid, timedOut or a nonzero exit
    package,   \* the packages that have passed
    stopping,  \* cleanup: the servers still to stop
    cleanup,   \* cleanup.status of the receipt
    receipt    \* its status, and the exit code

procVars == <<proc, known, older>>
goVars == <<children, broken, package>>
endVars == <<stopping, cleanup, receipt>>
containerVars == <<pc, evidence, failure, orphan, client, procVars, goVars, endVars,
                   controlVars>>

Keys == {"primary", "negative"}
GoChildren == {"converter", "binary"}
Evidence == {"bootstrap", "sql", "go"}
ContainerTryPcs == {"admit", "initdb", "unlink", "readyPrimary", "readyNegative",
                    "bootstrap", "readyApp", "listen", "sql", "go", "verify"}
FinallyPcs == {"close", "closeAll", "stop", "stopWait", "stopListener", "done"}

\* The process exists: it serves, it was sent SIGINT, or it was sent SIGKILL.
Alive(k) == proc[k] \in {"up", "asked", "killed"}
IsRunning(k) == known[k] = "running"
Finished(k) == known[k] \in {"clean", "unclean"}
cleaning == pc \in FinallyPcs
\* connect() to the port of the server is refused.
Refused(k) == ~Alive(k) /\ ~older

\* The servers that were started, in the order of their start, from some point on.
StopOrders == {<<>>, <<"primary">>, <<"negative">>, <<"primary", "negative">>}

ContainerTypeOK ==
    /\ pc \in ContainerTryPcs \cup FinallyPcs \cup {"goWait", "goReap"}
    /\ evidence \subseteq Evidence
    /\ failure \in {"none", "execution", "client", "postmaster", "lifetime"}
    /\ orphan \in BOOLEAN /\ older \in BOOLEAN /\ broken \in BOOLEAN
    /\ proc \in [Keys -> {"none", "up", "asked", "killed", "clean", "crashed"}]
    /\ known \in [Keys -> {"none", "running", "failing", "clean", "unclean"}]
    /\ client \in {"none", "session", "stray"}
    /\ children \subseteq GoChildren
    /\ package \in 0..Packages
    /\ stopping \in StopOrders
    /\ cleanup \in {"none", "PASS", "FAIL"} /\ receipt \in {"none", "PASS", "FAIL"}

ContainerInit ==
    /\ pc = "admit"
    /\ evidence = {} /\ failure = "none" /\ orphan = FALSE
    /\ proc = [k \in Keys |-> "none"] /\ known = [k \in Keys |-> "none"]
    /\ older = FALSE
    /\ client = "none"
    /\ children = {} /\ broken = FALSE /\ package = 0
    /\ stopping = <<>> /\ cleanup = "none" /\ receipt = "none"
    /\ ControllerInit("none")

-----------------------------------------------------------------------------
(* startPostmaster *)

\* A new process on the data directory, or a spawn that fails.
Launch(k) ==
    /\ older' = (older \/ Alive(k))
    /\ \/ proc' = [proc EXCEPT ![k] = "up"] /\ known' = [known EXCEPT ![k] = "running"]
       \/ proc' = [proc EXCEPT ![k] = "crashed"] /\ known' = [known EXCEPT ![k] = "failing"]

\* stop() sends SIGINT unless the server is known to have ended.
Interrupt(k) ==
    proc' = IF ~Finished(k) /\ proc[k] = "up" THEN [proc EXCEPT ![k] = "asked"] ELSE proc

\* kill(): the lifetime timer, a channel error, too many log bytes, or the limit
\* of stop().
Kill(k) ==
    /\ IsRunning(k)
    /\ known' = [known EXCEPT ![k] = "failing"]
    /\ proc' = IF Alive(k) THEN [proc EXCEPT ![k] = "killed"] ELSE proc
    /\ UNCHANGED <<pc, evidence, failure, orphan, client, older, goVars, endVars,
                   controlVars>>

\* The process ends; only fast shutdown ends with code 0.
PostmasterEnds(k) ==
    /\ Alive(k)
    /\ \E how \in IF proc[k] = "asked" THEN {"clean", "crashed"} ELSE {"crashed"} :
          proc' = [proc EXCEPT ![k] = how]
    /\ UNCHANGED <<pc, evidence, failure, orphan, client, known, older, goVars, endVars,
                   controlVars>>

\* The close event of the process settles `closed`.
CloseEvent(k) ==
    /\ proc[k] \in {"clean", "crashed"} /\ known[k] \in {"running", "failing"}
    /\ known' = [known EXCEPT ![k] =
                   IF IsRunning(k) /\ proc[k] = "clean" THEN "clean" ELSE "unclean"]
    /\ UNCHANGED <<pc, evidence, failure, orphan, client, proc, older, goVars, endVars,
                   controlVars>>

\* Mutant of Fallback: `closed` waits for the end of the process.
FallbackUnarmed(k) ==
    /\ known[k] = "failing" /\ ~Alive(k)
    /\ known' = [known EXCEPT ![k] = "unclean"]
    /\ UNCHANGED <<pc, evidence, failure, orphan, client, proc, older, goVars, endVars,
                   controlVars>>

\* 2 s after kill() `closed` is settled without a close event.
Fallback(k) ==
    /\ known[k] = "failing"
    /\ known' = [known EXCEPT ![k] = "unclean"]
    /\ UNCHANGED <<pc, evidence, failure, orphan, client, proc, older, goVars, endVars,
                   controlVars>>

-----------------------------------------------------------------------------
(* The try block *)

\* The catch block; the finally block sets `cleaning`.
ContainerThrows == failure' = "execution" /\ pc' = "close"

\* Any await, check or lease of the try block may throw.
TryFails ==
    /\ pc \in ContainerTryPcs
    /\ ContainerThrows
    /\ UNCHANGED <<evidence, orphan, client, procVars, goVars, endVars, controlVars>>

\* Isolation, read-only probes, run.json, bundle, files, private roots, static
\* checks, migration bundle, role script, TLS material and the password file.
AdmitContainer ==
    /\ pc = "admit"
    /\ pc' = "initdb"
    /\ UNCHANGED <<evidence, failure, orphan, client, procVars, goVars, endVars,
                   controlVars>>

\* One turn of the loop over the two servers: initdb, configuration, start.
StartServer ==
    /\ pc = "initdb"
    /\ LET k == IF known["primary"] = "none" THEN "primary" ELSE "negative" IN
          /\ Launch(k)
          /\ pc' = IF k = "primary" THEN "initdb" ELSE "unlink"
    /\ UNCHANGED <<evidence, failure, orphan, client, goVars, endVars, controlVars>>

\* The step from one await to the next, where the next is a query of readiness,
\* which asks isRunning() first; a query that fails is repeated or throws.
Goto(from, k, to) ==
    /\ pc = from
    /\ k # "none" => IsRunning(k)
    /\ pc' = to
    /\ UNCHANGED <<failure, orphan, client, procVars, goVars, endVars>>

Unlink ==
    /\ Goto("unlink", "primary", "readyPrimary")
    /\ UNCHANGED <<evidence, controlVars>>

PrimaryReady ==
    /\ proc["primary"] = "up"
    /\ Goto("readyPrimary", "negative", "readyNegative")
    /\ UNCHANGED <<evidence, controlVars>>

NegativeReady ==
    /\ proc["negative"] = "up"
    /\ Goto("readyNegative", "none", "bootstrap")
    /\ UNCHANGED <<evidence, controlVars>>

\* The database is created and the role script run.
BootstrapRoles ==
    /\ proc["primary"] = "up"
    /\ Goto("bootstrap", "primary", "readyApp")
    /\ UNCHANGED <<evidence, controlVars>>

ApplicationReady ==
    /\ proc["primary"] = "up"
    /\ Goto("readyApp", "none", "listen")
    /\ evidence' = evidence \cup {"bootstrap"}
    /\ UNCHANGED controlVars

\* The controller listens; then the fixture document is written.
Listen ==
    /\ Goto("listen", "none", "sql")
    /\ closer' = "open"
    /\ UNCHANGED <<evidence, closing, queue, pending, awaited, want, ctl>>

\* The SQL gate opens a session, and its psql ends by itself or when asked to.
OpenSession ==
    /\ pc = "sql" /\ client = "none" /\ proc["primary"] = "up"
    /\ client' = "session"
    /\ UNCHANGED <<pc, evidence, failure, orphan, procVars, goVars, endVars, controlVars>>

CloseSession ==
    /\ client = "session"
    /\ client' = "none"
    /\ UNCHANGED <<pc, evidence, failure, orphan, procVars, goVars, endVars, controlVars>>

\* markOrphanRisk: a client ended by a signal or by its timer; its process may
\* be there still.
LoseClient ==
    /\ client' = "stray"
    /\ orphan' = TRUE

\* A client of the SQL gate or of a readiness query is lost, which the caller
\* need not notice.
ClientLost ==
    /\ \/ pc \in {"readyPrimary", "readyNegative", "bootstrap", "readyApp"}
       \/ client = "session"
       \/ \E r \in ControlRequests : ctl[r] = "after" /\ want[r] = "start"
    /\ LoseClient
    /\ UNCHANGED <<pc, evidence, failure, procVars, goVars, endVars, controlVars>>

\* runLiveSqlAcceptance has disconnected its sessions and passes.
ContainerSqlGate ==
    /\ client # "session"
    /\ Goto("sql", "none", "go")
    /\ evidence' = evidence \cup {"sql"}
    /\ UNCHANGED controlVars

-----------------------------------------------------------------------------
(* runGoPackage *)

\* The converter and then the test binary are spawned; a spawn that throws
\* leaves what was spawned before it to the catch block.
GoSpawn ==
    /\ pc = "go"
    /\ \E spawned \in {{}, {"converter"}, GoChildren} :
          /\ children' = spawned
          /\ pc' = IF spawned = GoChildren THEN "goWait" ELSE "goReap"
    /\ broken' = FALSE
    /\ UNCHANGED <<evidence, failure, orphan, client, procVars, package, endVars,
                   controlVars>>

\* A child closes.  A nonzero exit cancels the other one, and the result is
\* refused by validateGoEvents; nobody looks once runGoPackage has returned.
ChildCloses(c) ==
    /\ c \in children
    /\ children' = children \ {c}
    /\ broken' \in {broken, pc = "goWait"}
    /\ UNCHANGED <<pc, evidence, failure, orphan, client, procVars, package, endVars,
                   controlVars>>

\* A channel error, too many bytes, or the timer: invalid or timedOut, and cancel.
GoBreaks ==
    /\ pc = "goWait"
    /\ broken' = TRUE
    /\ UNCHANGED <<pc, evidence, failure, orphan, client, procVars, children, package,
                   endVars, controlVars>>

\* Both children closed with code 0, nothing was invalid, and the events are
\* those of every required test.
Accepted == ~broken /\ children = {}

\* The next package, or the last checks of the try block before it reads the
\* files again: the lease, orphanRisk, and isRunning() of both servers.
GoPasses ==
    /\ pc = "goWait"
    /\ Accepted
    /\ package' = package + 1
    /\ IF package + 1 < Packages
       THEN pc' = "go" /\ UNCHANGED <<evidence, failure>>
       ELSE /\ evidence' = evidence \cup {"go"}
            /\ \/ ~orphan /\ (\A k \in Keys : IsRunning(k)) /\ pc' = "verify"
                  /\ UNCHANGED failure
               \/ ContainerThrows
    /\ UNCHANGED <<orphan, client, procVars, children, broken, endVars, controlVars>>

\* Both closed, and the result is refused: the catch block.
GoRefused ==
    /\ pc = "goWait"
    /\ children = {}
    /\ pc' = "goReap"
    /\ broken' = FALSE
    /\ UNCHANGED <<evidence, failure, orphan, client, procVars, children, package,
                   endVars, controlVars>>

\* 2 s after the timer the children that have not closed are given up.
GoFallback ==
    /\ pc = "goWait"
    /\ children # {}
    /\ ContainerThrows
    /\ broken' = FALSE
    /\ UNCHANGED <<evidence, orphan, client, procVars, children, package, endVars,
                   controlVars>>

\* The catch block: cancel, and up to 2 s for each child.
GoReaped ==
    /\ pc = "goReap"
    /\ ContainerThrows
    /\ UNCHANGED <<evidence, orphan, client, procVars, goVars, endVars, controlVars>>

\* verifyFiles and the last lease.
VerifyFiles ==
    /\ Goto("verify", "none", "close")
    /\ UNCHANGED <<evidence, controlVars>>

-----------------------------------------------------------------------------
(* The callbacks of the controller *)

\* lease(); then stop() sends SIGINT, or ensurePostmasterStarted looks at
\* isRunning(), which the first turn of readiness repeats.
ActionBegins(r) ==
    /\ ctl[r] = "before"
    /\ \/ /\ ctl' = [ctl EXCEPT ![r] = "failed"]
          /\ UNCHANGED proc
       \/ /\ ~cleaning /\ want[r] = "start"
          /\ ctl' = [ctl EXCEPT ![r] = IF IsRunning("primary") THEN "after" ELSE "command"]
          /\ UNCHANGED proc
       \/ /\ ~cleaning /\ want[r] = "stop"
          /\ ctl' = [ctl EXCEPT ![r] = "command"]
          /\ Interrupt("primary")
    /\ UNCHANGED <<pc, evidence, failure, orphan, client, known, older, goVars, endVars,
                   closing, queue, pending, awaited, closer, want>>

\* Mutant of CleanlyClosed: that the server has ended is enough for a restart.
Closed(k) == Finished(k)

\* `closed` says code 0, no failure, and a close event.
CleanlyClosed(k) == known[k] = "clean"

\* `closed` is settled: after a clean end stop() looks at the listener, and start
\* launches a new postmaster and asks it, unless the lease is over by then.
ActionContinues(r) ==
    /\ ctl[r] = "command"
    /\ Finished("primary")
    /\ \/ /\ ~CleanlyClosed("primary")
          /\ ctl' = [ctl EXCEPT ![r] = "failed"]
          /\ UNCHANGED procVars
       \/ /\ CleanlyClosed("primary") /\ want[r] = "stop"
          /\ ctl' = [ctl EXCEPT ![r] = "after"]
          /\ UNCHANGED procVars
       \/ /\ CleanlyClosed("primary") /\ want[r] = "start"
          /\ Launch("primary")
          /\ \/ ctl' = [ctl EXCEPT ![r] = "failed"]
             \/ /\ ~cleaning /\ known'["primary"] = "running"
                /\ ctl' = [ctl EXCEPT ![r] = "after"]
    /\ UNCHANGED <<pc, evidence, failure, orphan, client, goVars, endVars,
                   closing, queue, pending, awaited, closer, want>>

\* The query of readiness is answered, or the listener is closed; or not.
ActionEnds(r) ==
    /\ ctl[r] = "after"
    /\ \/ /\ IF want[r] = "start" THEN proc["primary"] = "up" ELSE Refused("primary")
          /\ ctl' = [ctl EXCEPT ![r] = "settled"]
       \/ ctl' = [ctl EXCEPT ![r] = "failed"]
    /\ UNCHANGED <<pc, evidence, failure, orphan, client, procVars, goVars, endVars,
                   closing, queue, pending, awaited, closer, want>>

ContainerCallback(r) == ActionBegins(r) \/ ActionContinues(r) \/ ActionEnds(r)

programVars == <<pc, evidence, failure, orphan, client, procVars, goVars, endVars>>

\* Only the Go tests know the token; they run after the SQL gate.
Request(r) ==
    /\ "sql" \in evidence
    /\ Handle(r)
    /\ UNCHANGED programVars

-----------------------------------------------------------------------------
(* The finally block *)

CloseContainerControl ==
    /\ pc = "close"
    /\ CloseBegin
    /\ UNCHANGED programVars

\* `await queue`, closeAllConnections and server.close.
ControllerCloses == CloseEnd /\ UNCHANGED programVars

ContainerControlClosed ==
    /\ pc = "close"
    /\ closer \in {"none", "closed"}
    /\ pc' = "closeAll"
    /\ UNCHANGED <<evidence, failure, orphan, client, procVars, goVars, endVars,
                   controlVars>>

\* A server in the map of servers, whose keys are in the order of their start.
Started(k) == IF known[k] = "none" THEN <<>> ELSE <<k>>

\* closeAll of the executors: an open session is cancelled, which marks the risk,
\* and a rejection is a failure of its own.
CloseAll ==
    /\ pc = "closeAll"
    /\ IF client = "session"
       THEN LoseClient /\ failure' \in {failure, "client"}
       ELSE UNCHANGED <<client, orphan, failure>>
    /\ stopping' = Started("primary") \o Started("negative")
    /\ pc' = "stop"
    /\ UNCHANGED <<evidence, procVars, goVars, cleanup, receipt, controlVars>>

\* stopServer of the next server: stop() sends SIGINT and awaits `closed`.
StopBegins ==
    /\ pc = "stop" /\ stopping # <<>>
    /\ Interrupt(Head(stopping))
    /\ pc' = "stopWait"
    /\ UNCHANGED <<evidence, failure, orphan, client, known, older, goVars, endVars,
                   controlVars>>

\* The stop of a server is over, and the loop goes on.
NextStop(failed) ==
    /\ failure' = IF failed THEN "postmaster" ELSE failure
    /\ stopping' = Tail(stopping)
    /\ pc' = "stop"

StopEnds ==
    /\ pc = "stopWait"
    /\ Finished(Head(stopping))
    /\ \/ CleanlyClosed(Head(stopping)) /\ pc' = "stopListener"
          /\ UNCHANGED <<failure, stopping>>
       \/ ~CleanlyClosed(Head(stopping)) /\ NextStop(TRUE)
    /\ UNCHANGED <<evidence, orphan, client, procVars, goVars, cleanup, receipt,
                   controlVars>>

\* The listener must refuse; the probe itself may fail too.
StopListener ==
    /\ pc = "stopListener"
    /\ \/ Refused(Head(stopping)) /\ NextStop(FALSE)
       \/ NextStop(TRUE)
    /\ UNCHANGED <<evidence, orphan, client, procVars, goVars, cleanup, receipt,
                   controlVars>>

\* The receipt.  One that is too long is replaced by a failure.
WriteReceipt ==
    /\ pc = "stop" /\ stopping = <<>>
    /\ LET code == IF orphan THEN "lifetime" ELSE failure IN
          /\ failure' = code
          /\ cleanup' = IF code \in {"client", "postmaster", "lifetime"} THEN "FAIL"
                                                                       ELSE "PASS"
          /\ receipt' \in IF code = "none" THEN {"PASS", "FAIL"} ELSE {"FAIL"}
    /\ pc' = "done"
    /\ UNCHANGED <<evidence, orphan, client, procVars, goVars, stopping, controlVars>>

-----------------------------------------------------------------------------

ContainerTry ==
    \/ TryFails \/ AdmitContainer \/ StartServer \/ Unlink \/ PrimaryReady \/ NegativeReady
    \/ BootstrapRoles \/ ApplicationReady \/ Listen \/ ContainerSqlGate
    \/ GoSpawn \/ GoPasses \/ GoRefused \/ GoFallback \/ GoReaped \/ VerifyFiles
ContainerFinally ==
    \/ CloseContainerControl \/ ContainerControlClosed \/ CloseAll \/ StopBegins \/ StopEnds
    \/ StopListener \/ WriteReceipt
Surroundings ==
    \/ OpenSession \/ CloseSession \/ ClientLost \/ GoBreaks
    \/ \E c \in GoChildren : ChildCloses(c)
    \/ \E k \in Keys : Kill(k) \/ PostmasterEnds(k) \/ CloseEvent(k) \/ Fallback(k)
ContainerControl ==
    \/ ControllerCloses
    \/ \E r \in ControlRequests : Request(r) \/ ContainerCallback(r)

ContainerNext == ContainerTry \/ ContainerFinally \/ Surroundings \/ ContainerControl

ContainerSpec == ContainerInit /\ [][ContainerNext]_containerVars

\* The limit of 8 s in stop(), for the cleanup or for a request.
StopLimit(k) ==
    /\ \/ pc = "stopWait" /\ k = Head(stopping)
       \/ k = "primary" /\ \E r \in ControlRequests : ctl[r] = "command"
    /\ Kill(k)

\* Every await has a timer or is the settlement of another promise; no process
\* is obliged to end.
FairSpec ==
    /\ ContainerSpec
    /\ WF_containerVars(ContainerTry \/ ContainerFinally \/ ControllerCloses)
    /\ \A k \in Keys : WF_containerVars(StopLimit(k) \/ Fallback(k))
    /\ \A r \in ControlRequests :
          WF_containerVars((ctl[r] # "none" /\ Request(r)) \/ ContainerCallback(r))

-----------------------------------------------------------------------------
(* Properties *)

\* A data directory never has two postmasters: a restart follows an observed clean
\* end only (ensurePostmasterStarted).
OneServerPerDirectory == ~older

\* What the reply 200 says of a stop is true until the next action begins.
StoppedIsTrue ==
    \A r \in ControlRequests : ctl[r] = "settled" /\ want[r] = "stop" => ~Alive("primary")

\* A receipt that says its cleanup passed, in a failed run too, leaves no postmaster
\* and no client of the executors, whatever a start request did meanwhile.  PASS
\* also means that every gate gave its evidence, that the Go processes are gone, and
\* that both postmasters were shut down cleanly.
ReceiptIsTrue ==
    /\ cleanup = "PASS" => client = "none" /\ \A k \in Keys : ~Alive(k)
    /\ receipt = "PASS" => /\ cleanup = "PASS" /\ evidence = Evidence /\ children = {}
                           /\ \A k \in Keys : proc[k] = "clean"

\* What runFixtureContainer and its requests can rely on.
ContainerInv ==
    /\ ContainerTypeOK /\ ControllerInv
    /\ OneServerPerDirectory /\ StoppedIsTrue /\ ReceiptIsTrue

\* The receipt is written and every request is answered in the end, although
\* neither a postmaster nor a test has to end: each await has its own bound.
ContainerEnds == <>[](pc = "done" /\ EveryRequestAnswered)
=============================================================================

# HedefOra: formal models and proofs

TLA+ models of HedefOra's runtime and of the harnesses that decide whether a
change may be merged, the TLC configurations that check them on small
instances, and TLAPS proofs for every size. All modules are written from the
source; `PROJECT.json` maps each definition to the lines it models.

## 1. Inventory

HedefOra at this commit is a Go API process in front of PostgreSQL, the
database it needs (image, roles, migrations), and a large body of JavaScript
that builds evidence: a live PostgreSQL runner, a fixture runner, the
supply-chain gate R-016 and the generator of the API's Go types. The domain
features are still documents.

| Component | State it keeps | Operations | Hard behaviour | What makes it correct |
|---|---|---|---|---|
| PostgreSQL pool (`internal/platform/postgres/pool.go`) | mutex, `closed`, WaitGroup, lifetime context, provider, sockets | New, Check, Close | probes, closers, AfterFunc goroutines and timers interleave; pgx keeps building a connection whose caller left | the provider is closed once, last, with nothing running; no connection leaks; Close ends without a timer |
| API process (`app/api.go`, `health/service.go`, `cmd/hedefora/main.go`, `http/server.go`) | server, serveResult channel, draining flag, drain context, signal handling | start, serve, drain, shut down, the deferred calls | signals, Serve failures, deadlines and handlers race | drain before the listener stops, pool last, exit 0 only when clean, always terminates |
| HTTP handler (`http/handler.go`) | none between requests | liveness and readiness routes, negotiation, problem bodies | a decision that is stale when it is written | no 200 after the drain |
| Configuration, telemetry, generated types | none | parse, log | none | tested directly |
| Migrations (`db/migrations`) | ledger, objects, default privileges | up, down | concurrent operators, aborts, lost acknowledgements | committed states are whole versions; down undoes up exactly |
| Image entrypoint and roles (`infra/postgres`) | data directory, marker, temporary server, password file | the bootstrap, and every later start | a kill between any two steps, a restart on the same volume | only a complete cluster is served |
| Live runner (`live/live-runtime.mjs`) | registered resources, acknowledgements, action chain | create, use, control, cleanup | lost answers, killed clients, other owners of names, requests racing `close()` | nothing owned is left behind, nothing foreign is removed |
| Process and psql supervision (`live/process.mjs`, `live/psql.mjs`) | stream buffer, pending query, timers | query, cancel, disconnect, closeAll | chunking, hangs, a client that ignores SIGKILL | each query gets its own frame, no false success, everything settles |
| Fixture host run (`live/fixture-run.mjs`) | lease, attempt, acknowledgement, receipt | create, start, poll, collect, clean up | a create the daemon executes late | a clean report is final, a PASS is evidence |
| Fixture container program (`live/fixture-container.mjs`) | two postmaster objects and their processes, orphan risk of clients, Go children, the controller's chain, the failure code | start, SQL gate, Go gate, stop and start on request, cleanup, receipt | requests that race the end of the tests, processes that ignore SIGKILL, timers that settle a promise before the process ends | the receipt is true; a data directory has one postmaster; the receipt is always written |
| Supply-chain gate (`scripts/supply-chain/run.mjs`, `process.mjs`, `database.mjs`) | evidence document, terminal checks, seals, temporary root, one container at a time | 38 stages, the container cleanup, the finally block | inputs that change between seal and use, containers that outlive their client, several failures at once, a crash while publishing | a PASS is earned; one verdict; no root cause lost; it ends |
| Lockfile reader and evaluators (`inventory.mjs`, `policy.mjs`) | loop variables of a line reader; counts of packages and advisories | read `pnpm-lock.yaml`, compare it with a report, judge the report | state carried from line to line, orders nobody wrote a test for, counts and scores at their limits | the inventory is the file's; a verdict is the one the report and the lockfile call for |
| OpenAPI generator (`scripts/generate-openapi.mjs`) | the artifact, the temporary file, its recorded identity | `--write`, `--check` | several runs on one checkout, a kill or an I/O error at any await | the artifact is replaced as a whole; exit 0 stays true; not every racing run loses |
| Evidence contracts (`contracts.mjs`), image policy, other generators and checks, linters, fixture build and admission | none that outlives a call | validate bytes and documents | large inputs, not orderings | tested directly |
| Web application | none | a static page | none | tested directly |

How they interact. The process calls the pool through Check and Close only;
`health` connects requests, drain and pool. The entrypoint creates the roles
that the migrations grant to, and the container it runs in takes every open
transaction with it when it dies. The gate reads the lockfile, hands its
documents to the scanner and judges the answer by what it read. The live runner builds the image's containers,
starts psql sessions under `docker exec`, runs the migrations and gives the Go
integration tests a loopback controller to stop and start the primary. The
fixture program does the same inside one container, with postmasters that are
its own children; the fixture host starts that container, waits for its exit
and reads its receipt. The supply-chain gate shares nothing with them but the habit of owning containers
by name.

The hazards of each part are listed with their lines in `PROJECT.json`.

## 2. Plan

Order, most important behaviour first:

1. `PoolContract`, `PostgresPool`, `PostgresPoolProofs` - done.
2. `ApiProcess` on top of `PoolContract`, `ApiProcessProofs` - done.
3. `LifecycleController`, and `LiveRun` and `FixtureContainer`, which compose
   it with what its callbacks do; `LifecycleProofs` about the three - done.
4. `PsqlSession`; `Bootstrap`, `Migrations` and `DatabaseVolume`, which
   composes the last two; `DatabaseProofs` about the session and the volume -
   done.
5. `OwnedContainer`, `FixtureRun`, `FixtureRunProofs` - done.
6. `SupplyChainGate` and `SupplyChainGateProofs` - done.
7. `PnpmLock`, `PolicyVerdicts` and `RepositoryScan`, which composes them,
   and `RepositoryScanProofs` - done.
8. `GeneratedArtifact` and `GeneratedArtifactProofs` - done.
9. Models still to write:
   - FixtureContainer in place of FixtureRun's external ContainerExits, so that
     PassIsEvidence reaches from the host's report to the postmasters;
   - `FixtureBuilder`: OwnedFixtureBuilder and prepareFixtureTools of
     `fixture-build.mjs`, as a second implementation of OwnedContainer.
   - the Accept negotiation of `handler.go` as a pure operator against a
     reference definition;
   - the Semgrep and database evaluators of `policy.mjs`, next to the two that
     PolicyVerdicts has.

Abstract specifications: `PoolContract` is implemented by `PostgresPool` and
used by `ApiProcess`, so what `ApiProcess` shows holds with the real pool.
`OwnedContainer` is implemented by `FixtureRun`.

## 3. Modules and the code

**PoolContract** says what the pool promises: calls are admitted while it is
open, success is decided only while it is open, and it is closed only when no
admitted call remains.

**PostgresPool** has one action per critical section, context read, provider
call or timer of `New`, `Check`, `Close`, `boundedLookup`, `boundedDial` and the AfterFunc
goroutines. `operations` is the WaitGroup, `finisher` the goroutine Close
spawns, `slot` and `socket` the life of a connection. Contexts are Booleans;
cancelling a parent cancels its children at once, but the lifetime reaches a
probe through AfterFunc, later. pgxpool, the resolver and the server are
external: they may fail at any time, may succeed just after the context ended,
and may never answer.

**ApiProcess** has `main` as the program counter of `runAPI` with its deferred calls
in reverse order, `serve` and `channel` for the Serve goroutine and its
one-place channel, and `req` for each handler: the two draining tests of
`health.Service`, the pool call between them, and the write. The pool is
`PoolContract` by INSTANCE.

**LifecycleController** models the controller's promise chain as a sequence: an
action begins when it is the head. It has requests, the bound, the order, the
replies and `close()`; what an action does belongs to the module that EXTENDS
it. It declares what both owners have (`pc`, `failure`, `orphan`), so that the
two can be reasoned about in one place. **LiveRun** adds runLivePg17 and OwnedResources, with Docker commands as
callbacks. `world` is the daemon's view of each name (absent, own, late,
foreign, forged), `pendingCreates` are creates whose client was killed and that
may yet take effect. `late` marks a resource that such a create produced after
the fact.

**FixtureContainer** adds runFixtureContainer, startPostmaster,
ensurePostmasterStarted and runGoPackage. `proc` is what the process of a
postmaster is, `known` what its object in the program knows; they part while a
close event is on its way, and for good when a process outlives the 2 s after
its SIGKILL. `older` says that a postmaster was started on a directory whose
last one still lives. `client` is a psql session or one that was lost, which
sets orphanRisk. An expired lease and every check that throws are one step
(TryFails) enabled at each await of the try block.

**PsqlSession** models one client with its stdout as tokens; a chunk is any prefix of
what is pending. The marker of a query ends its frame.

**Bootstrap** models the entrypoint step by step. The data directory survives a kill;
the tmpfs and the child server do not. `010_roles.sql` is one transaction.

**Migrations** models both scripts statement by statement, in transactions of
concurrent runs. Later versions are external. Default privileges are triples
of scope, class and grantee, so that what the down script restores can differ
from what was there.

**DatabaseVolume** composes Bootstrap and Migrations on one volume. A script
reaches the database only while the entrypoint has handed over to the real
server; a kill of the container ends every open transaction, keeps every
committed one, and leaves a client whose COMMIT was under way in doubt.

**OwnedContainer** and **FixtureRun** model executeFixtureLifecycle. `inFlight` is a
create the daemon may still execute. The model follows the rule of the code
that only an acknowledgement or an observed removal proves the create is over.

**SupplyChainGate** has one action per stage of `runGate`, in its order. A
stage that runs a scanner passes through `runDocker`: launch, client end (by
itself, killed by the timer, or unusable), record, list, force removal, list
again, result. What a scanner prints is abstracted to the verdict reached, and
a failure to a tree of records of which only the depth of each cause is kept,
because `boundedFailureRecord` cuts by depth. The finally block is one action
per step, each of which may fail. The daemon may create a container after its
client is gone. Files change under the gate: the derived Go inputs, the
databases, raw artifacts and both checkouts, each for good.

**PnpmLock** is the reader of `inventory.mjs` as a state machine: a line is
its kind, indentation, key and value, and one action per kind of line changes
the reader's loop variables (`importers` holds those of
parseImporterSection). The same file is also read as the tree its indentation
draws (`Tree`, `Pieces`, `WellFormed`, `TreeInventory`): a definition that
knows parents and children, and nothing of loop variables. The four passes of
the code are one, so that of several defects the first by line is the one
that refuses.

**PolicyVerdicts** has the evaluators of `policy.mjs` and the parity check of
`inventory.mjs` as operators on a report: a sequence of sources with items of
package, advisories, severity groups and licenses. Severities are in tenths.
**RepositoryScan** composes the two as prepareInputs, runOsvVulnerabilityGate
and runOsvLicenseGate do: a lockfile is read, its packages become the expected
inventory, the scanner reports anything, element by element, and each report
is judged. The reference verdicts are stated on the tree of the lockfile and
on sets of advisories and licenses.

**GeneratedArtifact** has several runs of `generate-openapi.mjs` on one
checkout, one action per system call that matters to another run: each
directory looked at or made, listing, lstat, open, fstat, read, exclusive
create, write in pieces, rename, removal. A name refers to an inode, so a
replaced file is another file. Any call may fail and any run may be killed
between two calls.

The exit codes are those of `policy.mjs`: PASS 0, FINDING 10, CONTRACT 20,
INTERNAL 21, ACQUISITION 22; UNCAUGHT stands for a throw before the try block.

## 4. Runs

| Run | Instance | Shows |
|---|---|---|
| `pool_safety` | 2 probes, 2 closers, 2 slots, symmetric | WaitGroup and types, ConnectionOwned, NoProviderUseAfterClose, CloseOkMeansQuiescent; refinement of PoolContract |
| `pool_liveness` | 2 probes, 1 closer, 1 slot | CloseCompletes without any timer; CheckReturns with the probe timer |
| `api_process` | 2 requests | ShutdownOrder, ExitZeroIsClean, NoSuccessAfterDrain, ReadyIsTrue; Terminates, DrainReachesProbes |
| `live_run` | 3 resources, 2 requests, room for 1 | PassLeavesNothing, CleanupInv (every resource that remains was itself tried and reported, containers first, alone; with ControllerInv: the chain is exact, bounded, quiet after close), ForeignUntouched, RunEnds (requests answered included) |
| `fixture_container` | 2 servers and 2 Go packages, as in the code; 2 requests, room for 2 | ContainerInv (ControllerInv, OneServerPerDirectory, StoppedIsTrue, ReceiptIsTrue), ContainerEnds |
| `live_run_lost_ack` | 2 resources | violation, see section 7 |
| `psql_session` | 3 queries | FramesInv, EndsHonestly (no false success), SessionSettles (every query is answered and the session closes) |
| `database_volume` | one volume, any number of restarts; 3 migration runs, 2 checksums, symmetric | ClusterInv, InterruptedStaysClosed, LedgerInv, LedgerHistory |
| `fixture_run` | 3 retries, as in the code | PassIsEvidence, ForeignKept, ImplementsOwnedContainer, RunEnds |
| `supply_chain_gate` | the whole gate once | GateInv, PassIsEarned, FaultsReported, GateEnds |
| `repository_scan` | three families of lockfiles, reports of weight 5, two policies each | ScanInv (the inventory is the file's), VulnerabilityVerdictExact, LicenseVerdictExact |
| `generated_artifact` | 3 runs, 2 directory levels, symmetric | OutputInv (ArtifactWhole, LeftoverExplained), PassIsExact, SomeWriterPasses |

Why the bounds are enough. Two probes and two slots let two calls compete for
a connection while a third construction has lost its caller; two closers let a
late Close meet a timed-out one. Two handlers meet only in the pool and the
drain flag. The proofs remove these bounds for safety, and those of `live_run`,
`fixture_container`, `psql_session`, `database_volume`, `repository_scan` and
`generated_artifact` too (section 6). In
`live_run` two requests against room for one reach the bound, its release and a
refusal. With room for one nothing ever waits behind another request there, so
that the chain is serial is shown by `fixture_container`, where one request acts
while the other is queued behind it, and proved for LiveRun by LiveRunCleanup.
The live run's three resources are a container, a volume and another
container: reverse order alone would remove the volume between the two, so
the order of the cleanup and a failure in the middle of it both happen.
Three queries put one before, one in and one behind an interrupted frame. Three migration
runs are an up, a down and a retry at once. The gate, the
bootstrap and the fixture run are not scaled down, with two exceptions: the
gate follows one tracked `go.mod`, and a fault is known by the place it was
raised at. MaxPending is 4 in the code and 1 or 2 here.

The lockfiles of `repository_scan` are every file of up to three lines over 18
kinds of line (headers and defects in any order), every continuation by up to
five lines of a file whose importers have begun (two importers with sections,
dependencies and details), and every continuation by up to five lines of a
finished document (a second document fits, whole, cut short or repeated). A report's weight counts its
sources, items, advisories, groups and unusual members; 5 lets one package
have two advisories in two groups, two sources be reported with an item each,
and an item be doubled or missing. Items are over one npm package with and
without a peer suffix and one Go module, since the code compares counts per
identity. A report is not continued once a source or a package is too many in
it: that already decides the verdict. Three generator runs are two that race
and one that checks, or finds what they left; two directory levels let one run
make the outer and another the inner directory (there are three in the code).

Deadlock is checked where the model has an explicit end (`pool_safety`,
`api_process`, `database_volume`, `supply_chain_gate`); the other systems really stop.

## 5. Fairness

- Pool: every goroutine that can run does, and so do AfterFunc goroutines. Of
  the provider only this: a call returns once its context has ended, a startup
  fails once its socket is closed. CloseCompletes assumes no timer; CheckReturns
  adds the probe's.
- Process: the main and Serve goroutines run and main's timers fire. Clients,
  handlers, the database and signals owe nothing, so Terminates holds although
  a handler hangs. DrainReachesProbes assumes instead that handlers run and that
  a Check whose context has ended returns, which CheckReturns provides.
- Live run, controller and fixture run: each Docker command has a deadline in the code, so
  each step of the host ends. Nothing is assumed of the daemon, and the
  container may run for ever; the lease has an end.
- Fixture container: every await of the program has a timer or waits for
  another promise that has one (8 s in `stop()`, 2 s after a SIGKILL, the
  timer of a Go package). No postmaster, client or test is obliged to end.
- psql: only the timers of `startProcess` and reading the logs. The client may
  hang and ignore SIGKILL.
- Gate: weak fairness of the gate's own steps. The kill by `runProcess`'s timer is one of
  them; nothing is assumed of the client or the daemon.
- The database volume, the scan of the repository and the generator state no
  fairness and claim no liveness. SomeWriterPasses is an invariant of the
  states in which every run has ended.

## 6. Proofs

TLAPS checks every theorem to the last leaf, for every value of the constants.

**PostgresPoolProofs** assumes only `PoolConstants` (finitely many probes, and NoConn
not a slot). The inductive invariant `IInv` joins TypeOK, WaitGroupExact and
ConnectionOwned with what makes them inductive: `Shutdown` (how far New and
the finisher got determines the provider), `Drained` (nothing is in the
provider once its Close began), `SocketsInSlots` and `Decided`.
NoProviderUseAfterClose is not inductive alone: that the finisher may pass
`Wait` only with no call in flight needs the WaitGroup to be exact, which in turn needs
cardinality lemmas for a call that joins or leaves. From IInv follow the
safety theorems, the action property AfterClose, and step simulation of
PoolContract, one case per action.

**ApiProcessProofs** has no assumption. `MainPosition` ties the program counter to
the server and the drain flag, `ServeHonest` says when the channel may hold
ErrServerClosed, and `CleanPath` carries "no error so far implies nothing
active" through the deferred calls to the exit code.

**FixtureRunProofs** assumes `Retries \in Nat`. The invariant adds to CleanIsFinal that
the attempt is recorded before the create (`BeforeCreate`, `Progress`), that
an answered or removed create is over (`Settled`), and that the last absence
check stands on one of the two (`Proven`). The refinement of OwnedContainer
follows: a report of a clean end implies that the container is absent and not requested.

**GeneratedArtifactProofs** assumes `InodesDiffer` (a run's file, the initial
and the stale file and None are different). PassIsExact alone is not
inductive: a rename needs to know that the file it moves is complete and still
this run's, and a comparison needs to know which file an open handle reads.
`IInv` adds for each run `Phases` (whose the temporary name is before its
creation, while it is owned, and after the rename), `Staging` (what the owner
knows of its inode and has written to it) and `Opened` (a file that was opened
is the artifact unless a run has replaced it since). The lemma `OtherRun`
carries these over a step of another run, so each action is proved once for
the run that takes it. SomeWriterPasses compares all runs at their end, and needs
a second invariant, `RaceInv`: as long as no run is harmed some writer leads.
Before anybody has written it is one whose next directory is not there yet
(`Starting`), then the owner of the temporary name (`Holding`), then the run that
was the last to rename (`Replacing`). `LeaderReads` shows that no check refuses
the leader; a step that would cost it the lead gives the lead to the run that
takes the step.

**DatabaseProofs** is about two specifications that share no variable, the
session and the volume; their inductive invariants are `SessionIInv` and
`VolumeIInv`.

- DatabaseVolume, without any assumption: the theorems hold for any sets of
  runs and checksums. `VolumeIInv` has two halves. `BootInv` ties each step of
  `entrypoint.sh` to the files it has left, the temporary server and the
  marker; ClusterInv needs it because a restart decides by the files alone.
  `ScriptInv` says for each transaction what it has staged on top of the
  committed state it began with (which the advisory lock keeps from changing)
  and that the lock has one holder. The halves meet in one place, that a script
  commits only into a served cluster. InterruptedStaysClosed and LedgerHistory
  follow step by step.
- PsqlSession, assuming that `None` is not a query. FramesInv speaks of
  queries that were answered, which is not inductive: a frame is cut from a
  buffer whose content earlier chunks decided. `Stream` says where the output of
  the waiting query is (not yet printed, in the pipe, in the buffer, or cut off
  by the client's end) and that nothing of another query is in front of it.
  `ClientInv`, `Unsettled` and `Settled` relate the process, its timers and the
  settlements, from which EndsHonestly follows.

**LifecycleProofs** assumes that `MaxPending` is positive, for LiveRun that the
plan names no resource twice, and for FixtureContainer that there is a Go package. For the controller, `CInv` adds to
QueueAccounted that the chain holds each request once and only its head has
begun (`ChainInv`) and that whatever acts after `close()` is awaited
(`CloseInv`): ActionsSerial and QuietAfterClose are consequences, and neither is
inductive alone. These lemmas serve both users.

- LiveRun: `Position` (what exists at each point of the program),
  `Registered` (whatever the run created or may yet create is an item),
  `Sorted` and `Covered` (cleanup visits containers first, and what it has not
  reported it has removed or will visit), `Verdict` (what can still take effect
  has failed the run). PassLeavesNothing needs all of them: the daemon may
  execute a create at any later step.
- FixtureContainer, for any number of Go packages: `Servers` (what is known of a
  postmaster is true of its process), `Gates` (the evidence at each point),
  `Clients`, and `Stopped` (the loop over the servers has stopped what it has
  passed, or the run has failed). That no second postmaster is started on a
  directory rests on `Servers` alone; that a reply to a stop stays true needs
  the controller: the request that has settled is the head of the chain, and so
  is any request whose callback runs.

**SupplyChainGateProofs** has no constants and no assumption. TLC visits every
state of the gate too; the proof says why the three invariants hold. A PASS
says something about containers, inputs and checks that earlier stages saw, so
none of them is inductive alone. `Position` and `Documents` say what is in
memory and on disk at each stage, and that nothing has been raised unless the
evidence says FAIL. `Contained` follows the container: a client that ended as
accepted has had its container run, and the scan is over only when it is gone.
`Noticed` says of each scan that read a changed input which later comparison
will refuse it. `Depths` bounds how deep each fault lies in the failure when
the finally block has put zero, one or two more records on top, which is what
FaultsReported needs against the depth limit of `boundedFailureRecord`. All
stages of `runGate` are proved by their kind (`HostStageStep`, `ScanStep`), all
failures by `FailStep`, and the finally block by `FinalStep` and `ReturnStep`.

**RepositoryScanProofs** shows that the line reader computes the tree of every
lockfile, of any length and over any lines, and that the two verdicts are exact
for every report of any size. Two assumptions say what the constants stand for:
`LockAssumption` (a line that is no entry has no indentation, an entry has a key
and one of the values, what is no mapping is neither a package name nor a locator)
and `ScanAssumption` (a locator's version carries no peer suffix any more, and the
members of an item have the types the evaluators take them for).

- InventoryExact speaks of a file that was read or refused. While it is being
  read, `LockInv` says three things. `Shape`: the lines of the current
  document so far satisfy, level by level, all that WellFormed asks of one line
  and those above it. `State`: each loop variable holds what its name says of the
  tree - the last importer, section and dependency are exactly the ancestors a
  line of the next indentation would have (`Carried`, `Anc`), the sets of seen
  keys are those of its would-be siblings, and the lists and counts are those of
  the tree so far. `DocumentsOf`: the finished documents are the pieces between
  the separators so far, in order. `Carried` is the part that makes it inductive,
  and the one a reset forgotten by the code would break (`StartImporter`).
- One line is proved once for all its kinds. The lemmas on one more line say how
  each level of the tree grows; `NewOK` is the condition under which a line keeps
  the document in shape, and for each action the reader's own test is shown
  equivalent to it, from `State`. So an accepted line keeps `Shape`, and a
  refused one makes the file ill-formed; the reading stops there, and the tree is
  that of the lines up to it.
- `Shape` is about indentations and `WellFormed` about parents. They agree on a
  file whose indentation is YAML's (`Yaml`), which is where InventoryExact needs
  that hypothesis: the reader looks for the importer at indentation 2, the tree for
  whatever is above. That a set of numbers has a least and a greatest member, on
  which `Tree` and `Piece` rest, comes from well-foundedness.
- `ScanState` carries the inventory on to the reports. That the parity checks of
  `inventory.mjs` and `policy.mjs`, which compare multisets of identities for the
  npm sources and for all of them, accept exactly the faithful reports is
  `ParityFaithful` and `FaithfulNpmParity`; the advisories of an item are judged through its groups, so
  "mapped once and none unmapped" is shown to be "each in one group". The verdicts
  then follow by cases on the exit of the scanner.

Only model-checked: all liveness properties (out of reach: fairness and
ENABLED). Every invariant and every action property of a passing run is a
theorem.

## 7. What the models show of the code

One disagreement, as a run that must fail. The comment on `OwnedResources`
says that registering an intention before the create covers lost
acknowledgements. `live_run_lost_ack` shows a run in which the create's client
is killed, cleanup sees the name absent once and skips it, and the daemon
creates the resource afterwards. The run fails, but it reports no cleanup
failure and leaves the resource. `fixture-run.mjs` handles the same case (it
reports the cleanup as failed unless the create is proven to be over), and
FixtureImplementsContract proves that it does. PassLeavesNothing shows that a
PASS is not affected.

Two limits of the gate's reports, both modelled and neither wrong about the
verdict. When the temporary root, the evidence and the fallback document have
all failed, the console summary cuts a scanner's double fault, which then lies
at depth 5; FaultsReported names this exception, and the fallback document
keeps it at depth 4. A failed fetch can carry a cause with an empty message, which the
evidence schema refuses; the run then ends as INTERNAL with a fallback
document instead of ACQUISITION.

## 8. What is not modelled

- In the lockfile reader: characters. Quoting of keys, the patterns of names,
  versions and peer suffixes, NUL bytes and newlines are reduced to whether a
  line is a mapping and which key it has. A tab line has text behind its tab;
  one of blanks only, which is refused inside a document and trimmed at its
  edges, is left out.
- In the evaluators: JSON types and unknown members. They end in CONTRACT, but
  for a report whose `results` is missing or no array: `assertNpmParity`
  (`run.mjs` 3757), which both gates call before they evaluate, takes `.filter`
  of it, and the TypeError ends the gate in INTERNAL. No such report passes
  either way. Further the findings' text and order, and the hashes in the
  evidence. Semgrep reports, database identities, image and rule documents and
  the evidence contracts stay sets of codes in SupplyChainGate.
- In the generator: the rendering of the sealed contract, symbolic links and
  containment (nothing in the model replaces a directory), foreign editors of
  the artifact, and power loss, against which the code does not sync the
  directory.
- In the gate: the Semgrep source copies, whose paths but not whose bytes are
  compared after the scan, and the Go input of the transitive canary, are not
  followed as inputs that may change. A changed file never changes back. The
  world is followed until the run has ended; what a pending create does after
  a FAIL is not asked.
- In the fixture container: the validators before the servers start (isolation,
  bundle, files) and of the Go events, and the snapshots of the logs, each of
  which is a step that may throw. `cleanup.status` of a failed run speaks of
  postmasters and of the executors' clients only, in the code as in
  ReceiptIsTrue: a Go child given up by GoFallback may remain, and the host
  removes the container with it.
- In the fixture run: a failing write of `host-result.json`, which leaves the
  caller without a result.
- In the process: negotiation and bodies of `handler.go`, configuration,
  telemetry.
- Fixture build, admission and container policy, image policy, the other
  generators and checks, linters and the web page: sequential and about bytes; see the components of
  `PROJECT.json`.

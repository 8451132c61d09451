-------------------------- MODULE SupplyChainGate --------------------------
(***************************************************************************)
(* executeSupplyChainGate of scripts/supply-chain/run.mjs (gate R-016):    *)
(* one run inspects the repositories, acquires scanners, rules and         *)
(* advisory databases, runs every canary and scan in a container of its    *)
(* own, and publishes one verdict document.                                *)
(*                                                                         *)
(* pc names the stage.  A stage that uses a container names it after the   *)
(* artifact of its docker run, and job follows runDocker through the run   *)
(* and its cleanup.  What a document, an image or a finding contains is    *)
(* left out: a stage passes, or throws one of the codes its checks have.   *)
(*                                                                         *)
(* The Docker daemon, the file system and whoever edits the checkouts are  *)
(* external.  A file changed on disk stays changed.  The world is followed *)
(* until the run has ended; what it then leaves behind is in container,    *)
(* tmp, published and fallback.                                            *)
(***************************************************************************)
EXTENDS Naturals, FiniteSets

VARIABLES
    pc,         \* stage of the gate
    job,        \* phase of runDocker, and how its client ended
    container,  \* the daemon's container with the job's name
    ev,         \* context.evidence: status, exitCode, failure, blank message
    checks,     \* context.terminalSeals: terminal checks recorded so far
    schema,     \* context.evidenceSchema is loaded
    sameRoot,   \* context.sameSourceRoot
    ready,      \* artifactReady
    tmp,        \* the temporary root exists
    published,  \* evidence.json: its status, exit code, faults and checks
    fallback,   \* faults named in evidence-finalization-failure.json
    exit,       \* the exit code returned
    raised,     \* every fault that was raised so far
    changed,    \* what somebody else changed: inputs, checkouts, raw artifacts
    staleReads  \* scans that read a changed input

gateVars == <<pc, job, ev, checks, schema, sameRoot, ready, tmp, published, fallback,
              exit, raised>>
envVars == <<container, changed, staleReads>>
vars == <<gateVars, envVars>>

-----------------------------------------------------------------------------
(* Codes, faults and stages *)

\* EXIT_CODES of policy.mjs, by name; UNCAUGHT is Node's own code.
Codes == {"FINDING", "CONTRACT", "INTERNAL", "ACQUISITION"}

\* Where a failure was raised.
Faults == {"stage", "launch", "recording", "control", "cleanup", "temporary",
           "target", "controlSource", "write", "fallback"}

HostStages == {"start", "prepare", "source", "controlSource", "controlPlane",
               "configuration", "repositoryUse", "environment", "inputs",
               "semgrepSources", "rules", "databases", "sealDatabases", "databaseSeal", "gate"}
ImageStages == {"pull-osv-scanner", "pull-semgrep-ce", "pull-go-toolchain"}
Scans == {"osv-scanner-version", "semgrep-ce-version", "go-toolchain-version",
          "go-mod-edit", "go-list", "missing-database", "database-zip",
          "vulnerability-canary", "development-canary", "go-advisory-canary",
          "transitive-mod-edit", "transitive-list", "go-transitive-canary",
          "go-license-canary", "license-denied-canary", "license-unknown-canary",
          "vulnerability", "license", "sast", "sast-negative"}
FinalStages == {"cleanTemporary", "verifySources", "validate", "writeTemporary", "link",
                "linked", "fallback"}
Ended == {"returned", "crashed"}

\* PASS_TERMINAL_CHECK_IDS of contracts.mjs, by the stage that records each.
TerminalChecks ==
    {"repositoryUse", "environment", "databaseSeal", "gate", "target", "controlSource"}
    \cup {"missing-database", "database-zip", "vulnerability-canary", "development-canary",
          "go-advisory-canary", "go-transitive-canary", "go-license-canary",
          "license-denied-canary", "license-unknown-canary", "vulnerability", "license",
          "sast", "sast-negative"}

\* Scans that mount the advisory database cache.
ReadDatabases == {"database-zip", "vulnerability-canary", "development-canary",
                  "go-advisory-canary", "go-transitive-canary", "vulnerability"}

\* Scans before which verifyGoScannerInputs runs, and after which it runs again.
GoVerifiedBefore == {"missing-database", "vulnerability", "license"}
GoVerifiedAfter == {"vulnerability", "license"}

\* A scan reads something that was changed since it was sealed.
Stale(s) ==
    \/ s \in ReadDatabases /\ "database" \in changed
    \/ s \in GoVerifiedAfter /\ "goInput" \in changed

-----------------------------------------------------------------------------
(* Failures: a tree of records, of which only the depth of each fault matters *)

Record(f) == {[fault |-> f, depth |-> 0]}
Below(tree, n) == {[x EXCEPT !.depth = @ + n] : x \in tree}

\* gateFailure(..., cause) and the apply...Failure functions: the new record
\* on top, the former one among its causes.
Wrap(f, tree) == Record(f) \cup Below(tree, 1)

\* combineDockerCleanupFailure and multiple scanner failures: an AggregateError
\* between the record and its causes.
Aggregate(faults, top) == {[fault |-> f, depth |-> 2] : f \in faults} \cup top

\* boundedFailureRecord: what is deeper than four levels is not printed.
DepthLimit == 4
Bounded(tree) == {x.fault : x \in {y \in tree : y.depth <= DepthLimit}}

NoFailure == {}
Nothing == [status |-> "none", exit |-> "none", faults |-> {}, checks |-> {}]
InProgress == [status |-> "IN_PROGRESS", exit |-> "INTERNAL", failure |-> NoFailure,
               blank |-> FALSE]
Idle == [phase |-> "idle", end |-> "none", faults |-> {}]

Init ==
    /\ pc = "start"
    /\ job = Idle
    /\ container = "none"
    /\ ev = InProgress
    /\ checks = {}
    /\ schema = FALSE
    /\ sameRoot \in BOOLEAN
    /\ ready = FALSE /\ tmp = FALSE
    /\ published = Nothing /\ fallback = {} /\ exit = "none"
    /\ raised = {}
    /\ changed = {}
    /\ staleReads = {}

-----------------------------------------------------------------------------
(* How a stage ends *)

diskVars == <<ready, tmp, published, fallback, exit>>

\* The catch block: normalizeFailure and serializeFailureForEvidence, then finally.
Fail(code, tree, faults, blank) ==
    /\ ev' = [status |-> "FAIL", exit |-> code, failure |-> tree, blank |-> blank]
    /\ raised' = raised \cup faults
    /\ pc' = "cleanTemporary"
    /\ job' = Idle

Throw(code) == Fail(code, Record("stage"), {"stage"}, FALSE)

\* recordTerminalCheck: refused when the check was recorded before.
Pass(next, recorded) ==
    /\ recorded \cap checks = {}
    /\ checks' = checks \cup recorded
    /\ pc' = next
    /\ UNCHANGED <<ev, raised, job>>

\* A stage without a container of its own.
HostStage(s, next, codes, recorded) ==
    /\ pc = s
    /\ \/ Pass(next, recorded)
       \/ /\ \E code \in codes : Throw(code)
          /\ UNCHANGED checks
    /\ UNCHANGED <<schema, sameRoot, diskVars, envVars>>

\* The call of runDocker, after the stage has staged its inputs.
Launch(s) ==
    /\ pc = s
    /\ job.phase = "idle"
    /\ ~(s \in GoVerifiedBefore /\ "goInput" \in changed)
    /\ job' = [Idle EXCEPT !.phase = "running"]
    /\ container' = "pending"
    /\ UNCHANGED <<pc, ev, checks, schema, sameRoot, diskVars, raised, changed, staleReads>>

\* Staging, the mount checks or verifyGoScannerInputs throw before the launch.
Unprepared(s) ==
    /\ pc = s
    /\ job.phase = "idle"
    /\ \E code \in {"CONTRACT", "INTERNAL"} : Throw(code)
    /\ UNCHANGED <<checks, schema, sameRoot, diskVars, envVars>>

\* The stage judges the result runDocker returned: raw exit, output and verdict.
Judge(s, next, codes, recorded) ==
    /\ pc = s
    /\ job.phase = "result"
    /\ \/ /\ job.end = "accepted"
          /\ ~(s \in GoVerifiedAfter /\ "goInput" \in changed)
          /\ recorded \cap checks = {}
          /\ checks' = checks \cup recorded
          /\ pc' = next
          /\ job' = Idle
          /\ UNCHANGED <<ev, raised>>
       \/ /\ \E code \in codes : Throw(code)
          /\ UNCHANGED checks
    /\ UNCHANGED <<schema, sameRoot, diskVars, envVars>>

Scan(s, next, codes, recorded) ==
    Launch(s) \/ Unprepared(s) \/ Judge(s, next, codes \cup {"INTERNAL"}, recorded)

-----------------------------------------------------------------------------
(* Before runGate *)

\* mkdtemp; what it throws is caught by nobody.
Start ==
    /\ pc = "start"
    /\ \/ pc' = "prepare" /\ tmp' = TRUE /\ UNCHANGED exit
       \/ pc' = "returned" /\ exit' = "UNCAUGHT" /\ UNCHANGED tmp
    /\ UNCHANGED <<job, ev, checks, schema, sameRoot, ready, published, fallback, raised,
                   envVars>>

\* prepareArtifactDirectories makes the place of the evidence, or refuses it.
PrepareArtifactDirectories ==
    \/ ready' = TRUE
    \/ ready' = FALSE /\ \E code \in {"CONTRACT", "INTERNAL"} : Throw(code)

\* The real paths, the separation of the roots, the temporary root and the trusted
\* executables are checked once the evidence has its place.
Prepare ==
    /\ pc = "prepare"
    /\ PrepareArtifactDirectories
    /\ ready' => \/ pc' = "source" /\ UNCHANGED <<ev, raised, job>>
                 \/ \E code \in {"CONTRACT", "INTERNAL"} : Throw(code)
    /\ UNCHANGED <<checks, schema, sameRoot, tmp, published, fallback, exit, envVars>>

-----------------------------------------------------------------------------
(* runGate, stage by stage *)

\* A checkout that moved before its seal is taken is sealed as it is found.
InspectSource ==
    HostStage("source", "controlSource", {"CONTRACT", "INTERNAL"}, {})

InspectControlSource ==
    HostStage("controlSource", "controlPlane", {"CONTRACT", "INTERNAL"}, {})

PrepareControlPlaneInputs ==
    HostStage("controlPlane", "configuration", {"CONTRACT", "INTERNAL"}, {})

\* What validateConfiguration and the reading of the locks throw.
ConfigurationVerdict == {"CONTRACT", "INTERNAL"}

\* The evidence schema is known from here on, and so are its demands.
LoadConfiguration ==
    /\ pc = "configuration"
    /\ \/ Pass("repositoryUse", {}) /\ schema' = TRUE
       \/ (\E code \in ConfigurationVerdict : Throw(code)) /\ UNCHANGED <<checks, schema>>
    /\ UNCHANGED <<sameRoot, diskVars, envVars>>

ValidateRepositoryUse ==
    HostStage("repositoryUse", "environment", {"CONTRACT"}, {"repositoryUse"})

InspectExecutionEnvironment ==
    HostStage("environment", "inputs", {"CONTRACT", "INTERNAL"}, {"environment"})

PrepareInputs == HostStage("inputs", "semgrepSources", {"CONTRACT", "INTERNAL"}, {})

PrepareSemgrepSourceInputs ==
    HostStage("semgrepSources", "pull-osv-scanner", {"CONTRACT", "INTERNAL"}, {})

\* pull, image inspect and manifest inspect of one image.
PullImage(s, next) == HostStage(s, next, {"ACQUISITION", "CONTRACT", "INTERNAL"}, {})

\* Each image is pulled, identified and started once for its version.
AcquireImages ==
    \/ PullImage("pull-osv-scanner", "osv-scanner-version")
    \/ Scan("osv-scanner-version", "pull-semgrep-ce", {"CONTRACT"}, {})
    \/ PullImage("pull-semgrep-ce", "semgrep-ce-version")
    \/ Scan("semgrep-ce-version", "pull-go-toolchain", {"CONTRACT"}, {})
    \/ PullImage("pull-go-toolchain", "go-toolchain-version")
    \/ Scan("go-toolchain-version", "rules", {"CONTRACT"}, {})

AcquireRules ==
    HostStage("rules", "go-mod-edit", {"ACQUISITION", "CONTRACT", "INTERNAL"}, {})

\* What the evaluators of policy.mjs answer when they do not pass: a finding, a
\* document that breaks the contract, or an error of their own.
VulnerabilityVerdict == {"FINDING", "CONTRACT", "INTERNAL"}
LicenseVerdict == {"FINDING", "CONTRACT", "INTERNAL"}
SemgrepVerdict == {"FINDING", "CONTRACT", "INTERNAL"}
DatabaseVerdict == {"CONTRACT", "INTERNAL"}

\* The one tracked go.mod of the repository.
ResolveGoInventory ==
    \/ Scan("go-mod-edit", "go-list", {"CONTRACT"}, {})
    \/ Scan("go-list", "missing-database", {"CONTRACT"}, {})

\* Without a database the scanner must fail: raw exit 127 is the accepted one.
MissingDatabaseNegativeGate ==
    Scan("missing-database", "databases", {"CONTRACT"}, {"missing-database"})

\* downloadAdvisoryDatabase fails.  The cause of a failed fetch may be an error
\* without a message (Node's AggregateError).
DownloadFails ==
    /\ pc = "databases"
    /\ \E blank \in BOOLEAN : Fail("ACQUISITION", Record("stage"), {"stage"}, blank)
    /\ UNCHANGED <<checks, schema, sameRoot, diskVars, envVars>>

AcquireDatabases ==
    \/ HostStage("databases", "database-zip", DatabaseVerdict, {})
    \/ DownloadFails

ValidateDatabaseArchives ==
    Scan("database-zip", "sealDatabases", {"CONTRACT"}, {"database-zip"})

SealDatabases == HostStage("sealDatabases", "vulnerability-canary", {"INTERNAL"}, {})

VulnerabilityCanaries ==
    \/ Scan("vulnerability-canary", "development-canary", {"CONTRACT"}, {"vulnerability-canary"})
    \/ Scan("development-canary", "go-advisory-canary", {"CONTRACT"}, {"development-canary"})

GoAdvisoryCanary ==
    Scan("go-advisory-canary", "transitive-mod-edit", {"CONTRACT"}, {"go-advisory-canary"})

\* The fixture's module graph is resolved like the repository's.
GoTransitiveCanary ==
    \/ Scan("transitive-mod-edit", "transitive-list", {"CONTRACT"}, {})
    \/ Scan("transitive-list", "go-transitive-canary", {"CONTRACT"}, {})
    \/ Scan("go-transitive-canary", "go-license-canary", {"CONTRACT"}, {"go-transitive-canary"})

GoLicenseCanary ==
    Scan("go-license-canary", "license-denied-canary", {"CONTRACT"}, {"go-license-canary"})

LicenseCanaries ==
    \/ Scan("license-denied-canary", "license-unknown-canary", {"CONTRACT"},
            {"license-denied-canary"})
    \/ Scan("license-unknown-canary", "vulnerability", {"CONTRACT"}, {"license-unknown-canary"})

VulnerabilityGate ==
    Scan("vulnerability", "license", VulnerabilityVerdict, {"vulnerability"})

LicenseGate == Scan("license", "sast", LicenseVerdict, {"license"})

SemgrepGates ==
    \/ Scan("sast", "sast-negative", SemgrepVerdict, {"sast"})
    \/ Scan("sast-negative", "databaseSeal", {"CONTRACT"}, {"sast-negative"})

\* Mutant of VerifyDatabaseSeal: the check is recorded without hashing again.
VerifyDatabaseSealUnread == HostStage("databaseSeal", "gate", {"INTERNAL"}, {"databaseSeal"})

\* The databases are hashed again and compared with what was downloaded.
VerifyDatabaseSeal ==
    /\ pc = "databaseSeal"
    /\ \/ "database" \notin changed /\ Pass("gate", {"databaseSeal"})
       \/ (\E code \in {"CONTRACT", "INTERNAL"} : Throw(code)) /\ UNCHANGED checks
    /\ UNCHANGED <<schema, sameRoot, diskVars, envVars>>

\* The last check of runGate, and the status its caller sets.
GatePasses ==
    /\ pc = "gate"
    /\ "gate" \notin checks
    /\ checks' = checks \cup {"gate"}
    /\ ev' = [ev EXCEPT !.status = "PASS", !.exit = "PASS"]
    /\ pc' = "cleanTemporary"
    /\ UNCHANGED <<job, schema, sameRoot, diskVars, raised, envVars>>

-----------------------------------------------------------------------------
(* runDocker, around the client's process *)

Present == {"up", "exited"}

jobOnly == <<pc, ev, checks, schema, sameRoot, diskVars, raised, changed, staleReads>>

\* The client exits by itself: with a code the stage accepts once the container
\* has run, with any other code at any time (a lost daemon included).
ClientExits ==
    /\ job.phase = "running"
    /\ \E end \in {"accepted", "other"} :
        /\ end = "accepted" => container \in {"exited", "gone"}
        /\ job' = [job EXCEPT !.phase = "record", !.end = end]
    /\ UNCHANGED <<container, jobOnly>>

\* Mutant of ClientKilled: the timer is armed once the container is up.
ClientKilledOnceUp ==
    /\ job.phase = "running" /\ container # "pending"
    /\ job' = [phase |-> "record", end |-> "killed", faults |-> {"control"}]
    /\ UNCHANGED <<container, jobOnly>>

\* The timer of runProcess, or its output limit, kills the client; the daemon
\* is not told.
ClientKilled ==
    /\ job.phase = "running"
    /\ job' = [phase |-> "record", end |-> "killed", faults |-> {"control"}]
    /\ UNCHANGED <<container, jobOnly>>

\* The client cannot be spawned, or its output is not UTF-8: nothing is recorded.
ClientUnusable ==
    /\ job.phase = "running"
    /\ job' = [phase |-> "before", end |-> "unusable", faults |-> {"launch"}]
    /\ container' \in {container} \cup (IF container = "pending" THEN {"none"} ELSE {})
    /\ UNCHANGED jobOnly

\* recordProcess; its error is kept for later.
RecordProcess ==
    /\ job.phase = "record"
    /\ \E extra \in SUBSET {"recording"} :
        job' = [job EXCEPT !.phase = "before", !.faults = @ \cup extra]
    /\ UNCHANGED <<container, jobOnly>>

\* removeContainerAndVerify: list by exact name, remove what is there, list again.
ListBefore ==
    /\ job.phase = "before"
    /\ job' = [job EXCEPT !.phase = IF container \in Present THEN "remove" ELSE "after"]
    /\ UNCHANGED <<container, jobOnly>>

ForceRemove ==
    /\ job.phase = "remove"
    /\ job' = [job EXCEPT !.phase = "after"]
    /\ container' = "gone"
    /\ UNCHANGED jobOnly

ListAfter ==
    /\ job.phase = "after"
    /\ container \notin Present
    /\ job' = [job EXCEPT !.phase = IF job.faults = {} THEN "result" ELSE "faulty"]
    /\ UNCHANGED <<container, jobOnly>>

\* A command of the cleanup fails or is killed, its record cannot be written, or
\* the container is still there: combineDockerCleanupFailure.
CleanupFails ==
    /\ job.phase \in {"before", "remove", "after"}
    /\ Fail("INTERNAL", Aggregate(job.faults \cup {"cleanup"}, Record("cleanup")),
            job.faults \cup {"cleanup"}, FALSE)
    /\ UNCHANGED <<checks, schema, sameRoot, diskVars, envVars>>

\* The absence is proved, and what went wrong before it is thrown.
ThrowScanFault ==
    /\ job.phase = "faulty"
    /\ Fail("INTERNAL",
            IF Cardinality(job.faults) = 1 THEN UNION {Record(f) : f \in job.faults}
                                           ELSE Aggregate(job.faults, {}),
            job.faults, FALSE)
    /\ UNCHANGED <<checks, schema, sameRoot, diskVars, envVars>>

RunDocker ==
    \/ ClientKilled \/ RecordProcess \/ ListBefore \/ ForceRemove \/ ListAfter
    \/ CleanupFails \/ ThrowScanFault

-----------------------------------------------------------------------------
(* The finally block *)

\* Mutant of CleanTemporary: the cleanup's failure replaces the one before it.
CleanTemporaryMasks ==
    /\ pc = "cleanTemporary"
    /\ \/ tmp' = FALSE /\ UNCHANGED <<ev, raised>>
       \/ /\ ev' = [ev EXCEPT !.status = "FAIL", !.exit = "INTERNAL",
                              !.failure = Record("temporary")]
          /\ raised' = raised \cup {"temporary"}
          /\ UNCHANGED tmp
    /\ pc' = IF ev'.status = "PASS" THEN "verifySources" ELSE "validate"
    /\ UNCHANGED <<job, checks, schema, sameRoot, ready, published, fallback, exit, envVars>>

\* removeVerifiedTemporaryRoot, and applyTemporaryCleanupFailure.
CleanTemporary ==
    /\ pc = "cleanTemporary"
    /\ \/ tmp' = FALSE /\ UNCHANGED <<ev, raised>>
       \/ /\ ev' = [ev EXCEPT !.status = "FAIL", !.exit = "INTERNAL",
                              !.failure = Wrap("temporary", @)]
          /\ raised' = raised \cup {"temporary"}
          /\ UNCHANGED tmp
    /\ pc' = IF ev'.status = "PASS" THEN "verifySources" ELSE "validate"
    /\ UNCHANGED <<job, checks, schema, sameRoot, ready, published, fallback, exit, envVars>>

\* verifySourceIdentity and verifyControlSourceIdentity: the roots of which one of
\* the git commands fails, or whose commit, index or cleanliness is not the sealed
\* one.  With one root the control check only repeats the target's seal.
UnverifiedRoots ==
    {bad \in SUBSET {"target", "controlSource"} :
        /\ changed \cap {"target"} \subseteq bad
        /\ IF sameRoot THEN "controlSource" \notin bad
                       ELSE changed \cap {"controlSource"} \subseteq bad}

\* Both checkouts are verified, whatever the first verification says.  One failure
\* keeps its own code, INTERNAL when a git command failed, on a changed checkout as
\* on any other, before the snapshot was compared; two are a CONTRACT failure.
VerifyAllSourceIdentities ==
    /\ pc = "verifySources"
    /\ \E bad \in UnverifiedRoots :
        /\ checks' = checks \cup ({"target", "controlSource"} \ bad)
        /\ raised' = raised \cup bad
        /\ pc' = "validate"
        /\ IF bad = {}
           THEN UNCHANGED ev
           ELSE \E code \in {"CONTRACT", "INTERNAL"} :
                  /\ code = "INTERNAL" => Cardinality(bad) = 1
                  /\ ev' = [ev EXCEPT !.status = "FAIL", !.exit = code,
                             !.failure = IF Cardinality(bad) = 1
                                         THEN UNION {Record(f) : f \in bad}
                                         ELSE Aggregate(bad, {})]
    /\ UNCHANGED <<job, schema, sameRoot, diskVars, envVars>>

\* validatePassEvidence: every terminal check is there.
PassEvidence == checks = TerminalChecks

\* validateEvidenceDocument: a PASS has no failure; a FAIL names one, every
\* message of it nonempty once the schema is known.
ValidEvidence ==
    IF ev.status = "PASS" THEN PassEvidence /\ ev.failure = NoFailure
                          ELSE ev.failure # NoFailure /\ ~(schema /\ ev.blank)

\* verifyArtifactFilesystemSeals: every recorded artifact has its sealed bytes.
ArtifactsSealed == "raw" \notin changed

\* applyEvidenceWriteFailure
WriteFails ==
    /\ ev' = [ev EXCEPT !.status = "FAIL", !.exit = "INTERNAL", !.failure = Wrap("write", @)]
    /\ raised' = raised \cup {"write"}
    /\ pc' = "fallback"
    /\ UNCHANGED <<published, exit>>

Return(code) == pc' = "returned" /\ exit' = code

\* writeEvidence: nothing is written before the artifacts' bytes and the document
\* itself are checked; without an artifact directory there is nothing to write.
ValidateEvidence ==
    /\ pc = "validate"
    /\ \/ ~ready /\ Return(ev.exit) /\ UNCHANGED <<ev, raised, published>>
       \/ /\ ready /\ ArtifactsSealed /\ ValidEvidence
          /\ pc' = "writeTemporary"
          /\ UNCHANGED <<ev, raised, published, exit>>
       \/ ready /\ WriteFails
    /\ UNCHANGED <<job, checks, schema, sameRoot, ready, tmp, fallback, envVars>>

\* writeAtomicExclusive, before the link: nobody sees the document yet.
WriteTemporary ==
    /\ pc = "writeTemporary"
    /\ \/ pc' = "link" /\ UNCHANGED <<ev, raised, published, exit>>
       \/ WriteFails
    /\ UNCHANGED <<job, checks, schema, sameRoot, ready, tmp, fallback, envVars>>

\* The link publishes.
LinkEvidence ==
    /\ pc = "link"
    /\ \/ /\ published' = [status |-> ev.status, exit |-> ev.exit,
                           faults |-> {x.fault : x \in ev.failure}, checks |-> checks]
          /\ pc' = "linked"
          /\ UNCHANGED <<ev, raised, exit>>
       \/ WriteFails
    /\ UNCHANGED <<job, checks, schema, sameRoot, ready, tmp, fallback, envVars>>

\* Mutant of RemoveTemporary: the error of rm is thrown.
RemoveTemporaryOrThrow ==
    /\ pc = "linked"
    /\ \/ Return(ev.exit) /\ UNCHANGED <<ev, raised, published>>
       \/ WriteFails
    /\ UNCHANGED <<job, checks, schema, sameRoot, ready, tmp, fallback, envVars>>

\* The temporary name is removed; that it cannot be is ignored.
RemoveTemporary ==
    /\ pc = "linked"
    /\ Return(ev.exit)
    /\ UNCHANGED <<job, ev, checks, schema, sameRoot, ready, tmp, published, fallback, raised,
                   envVars>>

\* writeEvidenceFinalizationFailure, and applyEvidenceFallbackWriteFailure.
WriteFallback ==
    /\ pc = "fallback"
    /\ \/ fallback' = Bounded(ev.failure) /\ UNCHANGED <<ev, raised>>
       \/ /\ ev' = [ev EXCEPT !.failure = Wrap("fallback", @)]
          /\ raised' = raised \cup {"fallback"}
          /\ UNCHANGED fallback
    /\ Return("INTERNAL")
    /\ UNCHANGED <<job, checks, schema, sameRoot, ready, tmp, published, envVars>>

-----------------------------------------------------------------------------
(* Everybody else *)

\* The daemon executes a create request, or drops it.
DaemonCreates ==
    /\ container = "pending" /\ pc \notin Ended
    /\ container' \in {"up", "none"}
    /\ UNCHANGED <<gateVars, changed, staleReads>>

\* The container ends; while its client waits, what it read decides the verdict.
ContainerExits ==
    /\ container = "up" /\ pc \notin Ended
    /\ container' = "exited"
    /\ staleReads' = IF job.phase = "running" /\ Stale(pc) THEN staleReads \cup {pc}
                                                           ELSE staleReads
    /\ UNCHANGED <<gateVars, changed>>

\* docker run --rm
AutoRemoved ==
    /\ container = "exited" /\ pc \notin Ended
    /\ container' = "gone"
    /\ UNCHANGED <<gateVars, changed, staleReads>>

\* Somebody else changes a scan's input on disk after it was sealed.
ChangeInput ==
    /\ \/ /\ pc = "missing-database" \/ "missing-database" \in checks
          /\ changed' = changed \cup {"goInput"}
       \/ /\ pc # "databases" /\ "missing-database" \in checks
          /\ changed' = changed \cup {"database"}
    /\ tmp /\ pc \notin FinalStages \cup Ended
    /\ UNCHANGED <<gateVars, container, staleReads>>

\* Somebody else moves a sealed checkout or alters a raw artifact, at any time of
\* the run: nothing reads them again before the finally block, and a failed run
\* does not read the checkouts at all, so the change is taken there.
ChangeSealed ==
    /\ pc = "cleanTemporary" \/ pc = "verifySources"
    /\ \E x \in (IF ev.status = "PASS" THEN {"target", "controlSource", "raw"} ELSE {"raw"}) :
        changed' = changed \cup {x}
    /\ UNCHANGED <<gateVars, container, staleReads>>

\* The process is killed and its memory is gone; what is on disk and in the
\* daemon stays.
Crash ==
    /\ pc \notin Ended
    /\ pc' = "crashed"
    /\ job' = Idle /\ ev' = InProgress /\ checks' = {} /\ schema' = FALSE /\ changed' = {}
    /\ UNCHANGED <<sameRoot, diskVars, raised, container, staleReads>>

-----------------------------------------------------------------------------
RunGate ==
    \/ InspectSource \/ InspectControlSource \/ PrepareControlPlaneInputs
    \/ LoadConfiguration \/ ValidateRepositoryUse \/ InspectExecutionEnvironment
    \/ PrepareInputs \/ PrepareSemgrepSourceInputs \/ AcquireImages \/ AcquireRules
    \/ ResolveGoInventory \/ MissingDatabaseNegativeGate \/ AcquireDatabases
    \/ ValidateDatabaseArchives \/ SealDatabases \/ VulnerabilityCanaries
    \/ GoAdvisoryCanary \/ GoTransitiveCanary \/ GoLicenseCanary \/ LicenseCanaries
    \/ VulnerabilityGate \/ LicenseGate \/ SemgrepGates \/ VerifyDatabaseSeal \/ GatePasses

Finally ==
    \/ CleanTemporary \/ VerifyAllSourceIdentities \/ ValidateEvidence \/ WriteTemporary
    \/ LinkEvidence \/ RemoveTemporary \/ WriteFallback

GateStep == Start \/ Prepare \/ RunGate \/ RunDocker \/ Finally

Environment ==
    \/ ClientExits \/ ClientUnusable \/ DaemonCreates \/ ContainerExits \/ AutoRemoved
    \/ ChangeInput \/ ChangeSealed \/ Crash

Done == pc \in Ended /\ UNCHANGED vars

Next == GateStep \/ Environment \/ Done

\* The gate's own steps are taken, the timer of a client among them.  Nothing is
\* assumed of the daemon, of a client that hangs, or of anybody else.
Spec == Init /\ [][Next]_vars /\ WF_vars(GateStep)

-----------------------------------------------------------------------------
(* Properties *)

\* What runDocker and context.evidence can be.
Jobs == [phase : {"idle", "running", "record", "before", "remove", "after", "faulty", "result"},
         end : {"none", "accepted", "other", "killed", "unusable"},
         faults : SUBSET {"launch", "recording", "control"}]
Evidence == [status : {"IN_PROGRESS", "PASS", "FAIL"}, exit : Codes \cup {"PASS"},
             failure : SUBSET [fault : Faults, depth : Nat], blank : BOOLEAN]

TypeOK ==
    /\ pc \in HostStages \cup ImageStages \cup Scans \cup FinalStages \cup Ended
    /\ job \in Jobs
    /\ container \in {"none", "pending", "up", "exited", "gone"}
    /\ ev \in Evidence
    /\ checks \subseteq TerminalChecks
    /\ schema \in BOOLEAN /\ sameRoot \in BOOLEAN /\ ready \in BOOLEAN /\ tmp \in BOOLEAN
    /\ published \in [status : {"none", "PASS", "FAIL"}, exit : Codes \cup {"none", "PASS"},
                      faults : SUBSET Faults, checks : SUBSET TerminalChecks]
    /\ fallback \subseteq Faults /\ raised \subseteq Faults
    /\ exit \in Codes \cup {"none", "PASS", "UNCAUGHT"}
    /\ changed \subseteq {"target", "controlSource", "goInput", "database", "raw"}
    /\ staleReads \subseteq Scans

\* executeSupplyChainGate returns what it published: exit code 0 exactly with a
\* PASS document, any other code with a FAIL document of that code, or with no
\* evidence.json at all; and there are never two documents that disagree.
VerdictAgrees ==
    /\ published.status # "none" => fallback = {}
    /\ pc = "returned" => (exit = "PASS" <=> published.status = "PASS")
    /\ pc = "returned" /\ published.status = "FAIL" => published.exit = exit
    /\ pc = "returned" /\ published.status = "none" /\ ready => exit = "INTERNAL"
    /\ exit = "UNCAUGHT" => ~tmp /\ ~ready

\* The state of the variables, and one verdict.
GateInv == TypeOK /\ VerdictAgrees

\* However the run ends, crashed or not, evidence.json says PASS only if nothing
\* was raised, all nineteen terminal checks were recorded, no scan read an input
\* that had changed since its seal, and neither a container of the run nor a
\* request for one nor the temporary root is left (run.mjs 228-236, 3563, 4525).
PassIsEarned ==
    published.status = "PASS" =>
        /\ raised = {}
        /\ published.checks = TerminalChecks
        /\ staleReads = {}
        /\ container \in {"none", "gone"}
        /\ ~tmp

\* What the caller of the gate can read: the document, or the console's summary.
Report ==
    IF published.status # "none" THEN published.faults
    ELSE IF fallback # {} THEN fallback ELSE Bounded(ev.failure)

\* "keeps every root cause" (run.test.mjs 2617): when the gate returns, every
\* fault it met can be read in its report, however many of its later steps failed
\* too.  The console summary alone, when the temporary root, the evidence and the
\* fallback all failed, is too shallow for a scanner that failed twice.
FaultsReported ==
    pc = "returned" =>
        \/ raised \subseteq Report
        \/ /\ {"temporary", "write", "fallback"} \subseteq raised
           /\ Cardinality(raised \cap {"launch", "recording", "control", "cleanup"}) >= 2

\* Every run ends, though a client of Docker may hang for ever: runProcess kills it.
GateEnds == <>(pc \in Ended)
=============================================================================

---------------------------- MODULE FixtureRun ----------------------------
(***************************************************************************)
(* executeFixtureLifecycle of tests/integration/postgres/live/             *)
(* fixture-run.mjs: one run of the fixture container under a lease, with   *)
(* its evidence, and the cleanup that must prove the container's absence.  *)
(*                                                                         *)
(* The Docker daemon is external.  Each command of the host can fail or be *)
(* killed; a create whose client is gone may have taken effect, may take   *)
(* effect later, or never.  Another user of the daemon may take the name,  *)
(* but nobody else removes the host's container.                           *)
(***************************************************************************)
EXTENDS Naturals

CONSTANT Retries    \* how often an empty list is repeated (3 in the code)

ASSUME RetriesAssumption == Retries \in Nat

VARIABLES
    pc,         \* program counter of executeFixtureLifecycle
    lease,      \* not aborted, and time remains
    attempted,  \* creationAttempted
    acked,      \* createAcknowledged
    removed,    \* removalObserved
    retry,      \* the retry counter of the cleanup
    failure,    \* "", "execution" (any code of the try block), "cleanup"
    receipt,    \* a receipt was validated
    result,     \* "", "PASS" or "FAIL"
    world,      \* the daemon, under the run's name: absent, own or foreign
    inFlight,   \* a create without a client may still be executed
    process     \* our container's process: created, running, zero, nonzero

hostVars == <<pc, attempted, acked, removed, retry, failure, receipt, result>>
daemonVars == <<world, inFlight, process>>
vars == <<pc, lease, attempted, acked, removed, retry, failure, receipt, result,
          world, inFlight, process>>

TryPcs == {"admit", "intent", "create", "created", "start", "started", "poll",
           "exited", "collect", "last"}
FinallyPcs == {"list", "own", "rm", "unremoved", "proof", "absence"}

TypeOK ==
    /\ pc \in TryPcs \cup FinallyPcs \cup {"done"}
    /\ lease \in BOOLEAN /\ attempted \in BOOLEAN /\ acked \in BOOLEAN
    /\ removed \in BOOLEAN /\ receipt \in BOOLEAN /\ inFlight \in BOOLEAN
    /\ retry \in 0..Retries
    /\ failure \in {"", "execution", "cleanup"}
    /\ result \in {"", "PASS", "FAIL"}
    /\ world \in {"absent", "own", "foreign"}
    /\ process \in {"created", "running", "zero", "nonzero"}

Init ==
    /\ pc = "admit"
    /\ lease = TRUE
    /\ attempted = FALSE /\ acked = FALSE /\ removed = FALSE /\ receipt = FALSE
    /\ retry = 0
    /\ failure = "" /\ result = ""
    /\ world \in {"absent", "foreign"}
    /\ inFlight = FALSE
    /\ process = "created"

-----------------------------------------------------------------------------
(* The try block *)

\* The catch block, and the finally block behind it.
Throw == failure' = "execution" /\ pc' = "list"

\* Any await or check of the try block may throw, the lease among them.
TryFails ==
    /\ pc \in TryPcs
    /\ Throw
    /\ UNCHANGED <<lease, attempted, acked, removed, retry, receipt, result, daemonVars>>

\* lease, and the name must be absent.
Admit ==
    /\ pc = "admit"
    /\ lease /\ world = "absent"
    /\ pc' = "intent"
    /\ UNCHANGED <<lease, attempted, acked, removed, retry, failure, receipt, result,
                   daemonVars>>

\* The intention is persisted, then creationAttempted is set.
Intent ==
    /\ pc = "intent"
    /\ attempted' = TRUE
    /\ pc' = "create"
    /\ UNCHANGED <<lease, acked, removed, retry, failure, receipt, result, daemonVars>>

\* docker create succeeds and answers with an id.
CreateAcked ==
    /\ pc = "create"
    /\ lease /\ world = "absent"
    /\ world' = "own"
    /\ acked' = TRUE
    /\ pc' = "created"
    /\ UNCHANGED <<lease, attempted, removed, retry, failure, receipt, result,
                   inFlight, process>>

\* docker create succeeds, but its answer is lost or is not an id.
CreateUnacked ==
    /\ pc = "create"
    /\ lease /\ world = "absent"
    /\ world' = "own"
    /\ Throw
    /\ UNCHANGED <<lease, attempted, acked, removed, retry, receipt, result,
                   inFlight, process>>

\* The client is killed, by its timer or by a signal, with the create under way.
CreateKilled ==
    /\ pc = "create"
    /\ lease /\ world = "absent"
    /\ inFlight' = TRUE
    /\ Throw
    /\ UNCHANGED <<lease, attempted, acked, removed, retry, receipt, result, world,
                   process>>

\* inspect, ownContainer and the validator; the inspection is persisted.
ConfirmCreated ==
    /\ pc = "created"
    /\ lease /\ world = "own"
    /\ pc' = "start"
    /\ UNCHANGED <<lease, attempted, acked, removed, retry, failure, receipt, result,
                   daemonVars>>

\* docker start; a start whose answer is lost may have taken effect.
StartContainer ==
    /\ pc = "start"
    /\ lease /\ world = "own"
    /\ process' = "running"
    /\ \/ pc' = "started" /\ UNCHANGED failure
       \/ Throw
    /\ UNCHANGED <<lease, attempted, acked, removed, retry, receipt, result, world,
                   inFlight>>

\* The container must be seen running before the poll loop.
ConfirmRunning ==
    /\ pc = "started"
    /\ lease /\ process = "running"
    /\ pc' = "poll"
    /\ UNCHANGED <<lease, attempted, acked, removed, retry, failure, receipt, result,
                   daemonVars>>

\* The poll loop ends with the container; a turn that finds it running leaves
\* the state as it is, and one without a lease throws (TryFails).
Poll ==
    /\ pc = "poll"
    /\ lease /\ process \in {"zero", "nonzero"}
    /\ pc' = "exited"
    /\ UNCHANGED <<lease, attempted, acked, removed, retry, failure, receipt, result,
                   daemonVars>>

\* Mutant of Exited: only the log decides.
ExitedAny ==
    /\ pc = "exited"
    /\ lease
    /\ pc' = "collect"
    /\ UNCHANGED <<lease, attempted, acked, removed, retry, failure, receipt, result,
                   daemonVars>>

\* Failure logs are kept; the validator and wait accept only exit code 0.
Exited ==
    /\ pc = "exited"
    /\ lease /\ process = "zero"
    /\ pc' = "collect"
    /\ UNCHANGED <<lease, attempted, acked, removed, retry, failure, receipt, result,
                   daemonVars>>

\* The logs hold a valid receipt; it is persisted.
Collect ==
    /\ pc = "collect"
    /\ lease
    /\ receipt' = TRUE
    /\ pc' = "last"
    /\ UNCHANGED <<lease, attempted, acked, removed, retry, failure, result, daemonVars>>

\* The last lease check.
LastLease ==
    /\ pc = "last"
    /\ lease
    /\ pc' = "list"
    /\ UNCHANGED <<lease, attempted, acked, removed, retry, failure, receipt, result,
                   daemonVars>>

-----------------------------------------------------------------------------
(* The finally block *)

\* Any command or check of the cleanup throws.
CleanupFails ==
    /\ pc \in FinallyPcs
    /\ failure' = "cleanup"
    /\ result' = "FAIL"
    /\ pc' = "done"
    /\ UNCHANGED <<lease, attempted, acked, removed, retry, receipt, daemonVars>>

\* Nothing was attempted: only the absence is checked.
SkipList ==
    /\ pc = "list"
    /\ ~attempted
    /\ pc' = "absence"
    /\ UNCHANGED <<lease, attempted, acked, removed, retry, failure, receipt, result,
                   daemonVars>>

\* The list is empty, the create was not acknowledged: wait and list again.
ListAgain ==
    /\ pc = "list"
    /\ attempted /\ world = "absent" /\ ~acked /\ retry < Retries
    /\ retry' = retry + 1
    /\ UNCHANGED <<pc, lease, attempted, acked, removed, failure, receipt, result,
                   daemonVars>>

\* The list is empty for good.
ListEmpty ==
    /\ pc = "list"
    /\ attempted /\ world = "absent" /\ (acked \/ retry = Retries)
    /\ pc' = "proof"
    /\ UNCHANGED <<lease, attempted, acked, removed, retry, failure, receipt, result,
                   daemonVars>>

\* The list has an id.
ListFound ==
    /\ pc = "list"
    /\ attempted /\ world # "absent"
    /\ pc' = "own"
    /\ UNCHANGED <<lease, attempted, acked, removed, retry, failure, receipt, result,
                   daemonVars>>

\* Mutant of Own: the labels are not looked at.
OwnAny ==
    /\ pc = "own"
    /\ pc' = "rm"
    /\ UNCHANGED <<lease, attempted, acked, removed, retry, failure, receipt, result,
                   daemonVars>>

\* inspect of that id, and ownContainer.
Own ==
    /\ pc = "own"
    /\ world = "own"
    /\ pc' = "rm"
    /\ UNCHANGED <<lease, attempted, acked, removed, retry, failure, receipt, result,
                   daemonVars>>

\* docker rm --force of that id, answered.
Remove ==
    /\ pc = "rm"
    /\ world' = "absent"
    /\ removed' = TRUE
    /\ pc' = "proof"
    /\ UNCHANGED <<lease, attempted, acked, retry, failure, receipt, result, inFlight,
                   process>>

\* docker rm --force takes effect but its answer is lost: the cleanup fails next.
RemoveUnanswered ==
    /\ pc = "rm"
    /\ world' = "absent"
    /\ pc' = "unremoved"
    /\ UNCHANGED <<lease, attempted, acked, removed, retry, failure, receipt, result,
                   inFlight, process>>

\* Mutant of Proof: an empty list proves that nothing was created.
ProofByAbsence ==
    /\ pc = "proof"
    /\ pc' = "absence"
    /\ UNCHANGED <<lease, attempted, acked, removed, retry, failure, receipt, result,
                   daemonVars>>

\* The create was acknowledged, or its container was removed.
Proof ==
    /\ pc = "proof"
    /\ acked \/ removed
    /\ pc' = "absence"
    /\ UNCHANGED <<lease, attempted, acked, removed, retry, failure, receipt, result,
                   daemonVars>>

\* The last absence check, and the result.
Finish ==
    /\ pc = "absence"
    /\ world = "absent"
    /\ result' = IF failure = "" THEN "PASS" ELSE "FAIL"
    /\ pc' = "done"
    /\ UNCHANGED <<lease, attempted, acked, removed, retry, failure, receipt, daemonVars>>

-----------------------------------------------------------------------------
(* The surroundings *)

\* The daemon executes, or drops, a create whose client is gone.
LateCreate ==
    /\ inFlight
    /\ inFlight' = FALSE
    /\ world' \in {world, IF world = "absent" THEN "own" ELSE world}
    /\ UNCHANGED <<hostVars, lease, process>>

ForeignCreate ==
    /\ world = "absent"
    /\ world' = "foreign"
    /\ UNCHANGED <<hostVars, lease, inFlight, process>>

\* The container's process ends.
ContainerExits ==
    /\ world = "own" /\ process = "running"
    /\ process' \in {"zero", "nonzero"}
    /\ UNCHANGED <<hostVars, lease, world, inFlight>>

\* SIGINT, SIGTERM, or the end of the admitted time.
LeaseEnds ==
    /\ lease
    /\ lease' = FALSE
    /\ UNCHANGED <<hostVars, daemonVars>>

Try ==
    \/ TryFails \/ Admit \/ Intent \/ CreateAcked \/ CreateUnacked \/ CreateKilled
    \/ ConfirmCreated \/ StartContainer \/ ConfirmRunning \/ Poll \/ Exited
    \/ Collect \/ LastLease
Finally ==
    \/ CleanupFails \/ SkipList \/ ListAgain \/ ListEmpty \/ ListFound \/ Own
    \/ Remove \/ RemoveUnanswered \/ Proof \/ Finish
Environment == LateCreate \/ ForeignCreate \/ ContainerExits \/ LeaseEnds

Next == Try \/ Finally \/ Environment

Spec == Init /\ [][Next]_vars

\* Mutant of PollExpires: the lease is only checked once the container has ended.
PollUnleased == pc = "poll" /\ ~lease /\ process # "running" /\ TryFails

\* The poll loop throws without a lease, whatever the container does.
PollExpires == pc = "poll" /\ ~lease /\ TryFails

\* Every command has a deadline, and so has the lease.
FairSpec ==
    /\ Spec
    /\ WF_vars((Try /\ pc # "poll") \/ Poll \/ PollExpires)
    /\ WF_vars(Finally)
    /\ WF_vars(LeaseEnds)

-----------------------------------------------------------------------------
(* Properties *)

\* cleanup.status of the result: what host-result.json says of the cleanup.
CleanupPass == pc = "done" /\ failure # "cleanup"

\* A cleanup that is reported as PASS is final: the container is gone, and no
\* create of this run can bring it back, however late the daemon is.
CleanIsFinal == CleanupPass => world # "own" /\ ~inFlight

\* A PASS is about a container that was seen running, ended by itself with
\* code 0 and left a receipt; and the cleanup passed too.
PassIsEvidence ==
    result = "PASS" => /\ receipt /\ acked /\ process = "zero"
                       /\ CleanupPass /\ world # "own"

\* A container of another owner is never removed.
ForeignKept == [][world = "foreign" => world' = "foreign"]_vars

\* The container that exists or may come to exist is always one the cleanup
\* will look for.
AttemptCoversContainer == world = "own" \/ inFlight => attempted

\* The run ends with a result, although the container may never end.
RunEnds == <>(pc = "done")

container ==
    IF world = "own" THEN "present" ELSE IF inFlight THEN "requested" ELSE "absent"
report == IF pc # "done" THEN "" ELSE IF CleanupPass THEN "clean" ELSE "unclean"
Owned == INSTANCE OwnedContainer

\* The host keeps the promise of OwnedContainer.
ImplementsOwnedContainer == Owned!Spec
=============================================================================

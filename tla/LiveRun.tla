------------------------------ MODULE LiveRun ------------------------------
(***************************************************************************)
(* runLivePg17 and OwnedResources of                                       *)
(* tests/integration/postgres/live/live-runtime.mjs: one admitted run of   *)
(* the live PostgreSQL gate.  It creates networks, volumes and containers  *)
(* through the Docker client, serves the lifecycle controller while the    *)
(* SQL and Go gates run, and removes what it created in a finally block.   *)
(*                                                                         *)
(* The Docker daemon is external.  A client command can fail or be killed  *)
(* at its deadline; a create whose client was killed may have taken        *)
(* effect, may take effect later, or may never do so (the sibling fixture  *)
(* runner, fixture-run.mjs:354, waits for exactly that).  Other users of   *)
(* the daemon may own a name, but never remove what this run created.      *)
(***************************************************************************)
EXTENDS LifecycleController

CONSTANTS
    Plan,        \* the names of the resources, in the order of their creation
    Containers   \* those that are containers; the others are volumes, networks

Resources == Range(Plan)

ASSUME PlanAssumption ==
    /\ Plan \in Seq(STRING) /\ Len(Plan) > 0
    /\ \A i, j \in 1..Len(Plan) : Plan[i] = Plan[j] => i = j
    /\ Containers \subseteq Resources

VARIABLES
    step,      \* index in Plan of the resource being created
    items,     \* resources.items: the names intended so far, in order
    acked,     \* the items whose id is known
    world,     \* the daemon: absent, own, late (own, but created after its
               \* client had been killed), foreign, or forged (our labels)
    pendingCreates,  \* creates the daemon may still execute
    budget,    \* the run budget and the admission are valid
    ordered,   \* cleanup: items still to visit
    failures,  \* cleanup: items that could not be removed
    status,    \* "none", "PASS", or "FAIL": the promise of runLivePg17
    running    \* the primary container runs

runVars == <<pc, step, items, acked, world, pendingCreates, budget, failure,
             orphan, ordered, failures, status>>
serverVars == <<controlVars, running>>
vars == <<pc, step, items, acked, world, pendingCreates, budget, failure, orphan,
          ordered, failures, status, serverVars>>

Ours == {"own", "late"}
Pcs == {"admit", "probe", "create", "confirm", "use", "serve", "sql",
        "go", "orphans", "closeController", "closeSessions", "cleanup", "inspect",
        "remove", "verify", "done"}

Init ==
    /\ pc = "admit"
    /\ step = 1
    /\ items = <<>>
    /\ acked = {}
    /\ world \in [Resources -> {"absent", "forged"}]
    /\ pendingCreates = {}
    /\ budget = TRUE
    /\ failure = "none"
    /\ orphan = FALSE
    /\ ordered = <<>>
    /\ failures = {}
    /\ status = "none"
    /\ running = TRUE
    /\ ControllerInit("none")

Current == Plan[step]

-----------------------------------------------------------------------------
(* The try block *)

\* An exception in the try block: the failure code, then the finally block,
\* which waits for controller?.close() first.
Throw(code) ==
    /\ failure' = code
    /\ pc' = IF closer = "none" THEN "closeSessions" ELSE "closeController"

\* Every await of the try block can throw; the steps below add their own.
TryPcs == {"admit", "probe", "create", "confirm", "use", "serve", "sql",
           "go", "orphans"}
Fails(at) ==
    /\ pc = at
    /\ Throw("LIVE_GATE_FAILED")
    /\ UNCHANGED <<step, items, acked, world, pendingCreates, budget, orphan,
                   ordered, failures, status, serverVars>>

\* Admission: the gate, tool and input bindings, the image load and identity,
\* the Docker and Go versions.
Admit ==
    /\ pc = "admit"
    /\ budget
    /\ pc' = "probe"
    /\ UNCHANGED <<step, items, acked, world, pendingCreates, budget, failure, orphan,
                   ordered, failures, status, serverVars>>

\* Mutant of Probe: the intention is registered only with the answer.
ProbeUnregistered ==
    /\ pc = "probe"
    /\ budget
    /\ world[Current] = "absent"
    /\ pc' = "create"
    /\ UNCHANGED <<step, items, acked, world, pendingCreates, budget, failure, orphan,
                   ordered, failures, status, serverVars>>

\* createResource: gate, the name must not exist, whoever owns it, and the
\* intention is registered before the second gate and the create.
Probe ==
    /\ pc = "probe"
    /\ budget
    /\ world[Current] = "absent"
    /\ items' = Append(items, Current)
    /\ pc' = "create"
    /\ UNCHANGED <<step, acked, world, pendingCreates, budget, failure, orphan, ordered,
                   failures, status, serverVars>>

\* The create succeeds and its answer arrives: the item gets its id.
CreateAcked ==
    /\ pc = "create"
    /\ budget
    /\ world[Current] = "absent"
    /\ world' = [world EXCEPT ![Current] = "own"]
    /\ acked' = acked \cup {Current}
    /\ pc' = "confirm"
    /\ UNCHANGED <<step, items, pendingCreates, budget, failure, orphan, ordered,
                   failures, status, serverVars>>

\* The create takes effect, but its answer is lost or is not an id.
CreateUnacked ==
    /\ pc = "create"
    /\ budget
    /\ world[Current] = "absent"
    /\ world' = [world EXCEPT ![Current] = "own"]
    /\ Throw("DOCKER_COMMAND_FAILED")
    /\ UNCHANGED <<step, items, acked, pendingCreates, budget, orphan, ordered,
                   failures, status, serverVars>>

\* The client is killed at its deadline with the create still under way.
CreateKilled ==
    /\ pc = "create"
    /\ budget
    /\ pendingCreates' = pendingCreates \cup {Current}
    /\ Throw("DOCKER_COMMAND_FAILED")
    /\ UNCHANGED <<step, items, acked, world, budget, orphan, ordered, failures,
                   status, serverVars>>

\* resources.inspect of the acknowledged item: it must exist with our labels
\* and its id.
Confirm ==
    /\ pc = "confirm"
    /\ world[Current] \in Ours
    /\ pc' = "use"
    /\ UNCHANGED <<step, items, acked, world, pendingCreates, budget, failure, orphan,
                   ordered, failures, status, serverVars>>

\* helper and database: a container is started (a helper is waited for); a
\* volume or network has nothing to do.  Then the next resource, or the
\* executors, the readiness loops and the controller.
Use ==
    /\ pc = "use"
    /\ budget
    /\ IF step < Len(Plan)
       THEN /\ step' = step + 1
            /\ pc' = "probe"
       ELSE /\ pc' = "serve"
            /\ UNCHANGED step
    /\ UNCHANGED <<items, acked, world, pendingCreates, budget, failure, orphan, ordered,
                   failures, status, serverVars>>

\* createLifecycleController listens; the fixture file is written.
Serve ==
    /\ pc = "serve"
    /\ budget
    /\ closer' = "open"
    /\ pc' = "sql"
    /\ UNCHANGED <<step, items, acked, world, pendingCreates, budget, failure, orphan,
                   ordered, failures, status, closing, queue, pending, awaited, want,
                   ctl, running>>

\* runLiveSqlAcceptance passes; a session it lost marks the orphan risk.
SqlGate ==
    /\ pc = "sql"
    /\ budget
    /\ orphan' \in BOOLEAN
    /\ pc' = "go"
    /\ UNCHANGED <<step, items, acked, world, pendingCreates, budget, failure, ordered,
                   failures, status, serverVars>>

\* go test passes with every required test and no skip.
GoGate ==
    /\ pc = "go"
    /\ budget
    /\ pc' = "orphans"
    /\ UNCHANGED <<step, items, acked, world, pendingCreates, budget, failure, orphan,
                   ordered, failures, status, serverVars>>

\* The last lines of the try block: no orphan risk, budget left.
OrphanCheck ==
    /\ pc = "orphans"
    /\ budget /\ ~orphan
    /\ pc' = "closeController"
    /\ UNCHANGED <<step, items, acked, world, pendingCreates, budget, failure, orphan,
                   ordered, failures, status, serverVars>>

-----------------------------------------------------------------------------
(* The finally block *)

\* controller.close() is called.
CloseController ==
    /\ pc = "closeController"
    /\ CloseBegin
    /\ UNCHANGED <<runVars, running>>

\* The await on it ends with its return.
ControllerClosed ==
    /\ pc = "closeController"
    /\ closer = "closed"
    /\ pc' = "closeSessions"
    /\ UNCHANGED <<step, items, acked, world, pendingCreates, budget, failure, orphan,
                   ordered, failures, status, serverVars>>

\* The comparison by which cleanup sorts: containers before the others, and of
\* one kind the later item first, for the sort of the reversed array is stable.
Precedes(i, j) ==
    IF items[i] \in Containers <=> items[j] \in Containers
    THEN i > j
    ELSE items[i] \in Containers

\* The permutation of the items in that order.
CleanupOrder ==
    {f \in Bijection(1..Len(items), 1..Len(items)) :
        \A i, j \in 1..Len(items) : i < j => Precedes(f[i], f[j])}

\* executor.closeAll() for every executor (they exist once the plan is done):
\* a session that has to be cancelled marks the orphan risk, and a rejection
\* of this or of the controller's close is a failure of its own.  Then
\* resources.cleanup() sorts the items.
CloseSessions ==
    /\ pc = "closeSessions"
    /\ IF Len(items) = Len(Plan)
       THEN /\ orphan' \in {orphan, TRUE}
            /\ failure' \in {failure, "SESSION_CLEANUP_FAILED"}
       ELSE UNCHANGED <<failure, orphan>>
    /\ \E f \in CleanupOrder : ordered' = [i \in 1..Len(items) |-> items[f[i]]]
    /\ pc' = "cleanup"
    /\ UNCHANGED <<step, items, acked, world, pendingCreates, budget, failures, status,
                   serverVars>>

Item == Head(ordered)

\* The item is done, and the loop goes on.
NextItem == ordered' = Tail(ordered) /\ pc' = "cleanup"

\* Mutant of ItemFails: the failure ends the loop.
ItemFailsStops ==
    /\ pc \in {"inspect", "remove", "verify"}
    /\ failures' = failures \cup {Item}
    /\ ordered' = <<>> /\ pc' = "cleanup"
    /\ UNCHANGED <<step, items, acked, world, pendingCreates, budget, failure, orphan,
                   status, serverVars>>

\* The catch of the loop: the item is recorded and the loop goes on.
ItemFails ==
    /\ pc \in {"inspect", "remove", "verify"}
    /\ failures' = failures \cup {Item}
    /\ NextItem
    /\ UNCHANGED <<step, items, acked, world, pendingCreates, budget, failure, orphan,
                   status, serverVars>>

\* One turn of the loop begins with inspect.
CleanupItem ==
    /\ pc = "cleanup"
    /\ ordered # <<>>
    /\ pc' = "inspect"
    /\ UNCHANGED <<step, items, acked, world, pendingCreates, budget, failure, orphan,
                   ordered, failures, status, serverVars>>

\* Mutant of InspectPresent: the labels are not compared.
InspectPresentUnlabelled ==
    /\ pc = "inspect"
    /\ world[Item] # "absent"
    /\ pc' = "remove"
    /\ UNCHANGED <<step, items, acked, world, pendingCreates, budget, failure, orphan,
                   ordered, failures, status, serverVars>>

\* inspect succeeds: our labels, and our id if it is known.  (A resource
\* with forged labels was refused before it became an item.)
InspectPresent ==
    /\ pc = "inspect"
    /\ world[Item] \in IF Item \in acked THEN {"own"} ELSE Ours \cup {"forged"}
    /\ pc' = "remove"
    /\ UNCHANGED <<step, items, acked, world, pendingCreates, budget, failure, orphan,
                   ordered, failures, status, serverVars>>

\* inspect fails, the list succeeds and does not name the item: `continue`.
InspectAbsent ==
    /\ pc = "inspect"
    /\ world[Item] = "absent"
    /\ NextItem
    /\ UNCHANGED <<step, items, acked, world, pendingCreates, budget, failure, orphan,
                   failures, status, serverVars>>

\* docker rm.  A volume or network in use cannot be removed.
RemoveItem ==
    /\ pc = "remove"
    /\ world[Item] # "absent"
    /\ Item \notin Containers => \A k \in Containers : world[k] \notin Ours
    /\ world' = [world EXCEPT ![Item] = "absent"]
    /\ pc' = "verify"
    /\ UNCHANGED <<step, items, acked, pendingCreates, budget, failure, orphan, ordered,
                   failures, status, serverVars>>

\* docker rm removed the item, or part of it, and reported a failure.
RemoveUnacked ==
    /\ pc = "remove"
    /\ world' \in {world, [world EXCEPT ![Item] = "absent"]}
    /\ Item \notin Containers /\ world' # world => \A k \in Containers : world[k] \notin Ours
    /\ failures' = failures \cup {Item}
    /\ NextItem
    /\ UNCHANGED <<step, items, acked, pendingCreates, budget, failure, orphan, status,
                   serverVars>>

\* The second inspect must return null.
VerifyAbsent ==
    /\ pc = "verify"
    /\ world[Item] = "absent"
    /\ NextItem
    /\ UNCHANGED <<step, items, acked, world, pendingCreates, budget, failure, orphan,
                   failures, status, serverVars>>

\* Mutant of Finish: the status is decided before the cleanup's own failure.
FinishEarly ==
    /\ pc = "cleanup"
    /\ ordered = <<>>
    /\ failure' = IF failures = {} THEN failure ELSE "OWNED_CLEANUP_FAILED"
    /\ status' = IF failure = "none" /\ ~orphan THEN "PASS" ELSE "FAIL"
    /\ pc' = "done"
    /\ UNCHANGED <<step, items, acked, world, pendingCreates, budget, orphan, ordered,
                   failures, serverVars>>

\* cleanup throws if an item failed; then the result of the run.
Finish ==
    /\ pc = "cleanup"
    /\ ordered = <<>>
    /\ LET code == IF failures = {} THEN failure ELSE "OWNED_CLEANUP_FAILED" IN
          /\ failure' = code
          /\ status' = IF code = "none" /\ ~orphan THEN "PASS" ELSE "FAIL"
    /\ pc' = "done"
    /\ UNCHANGED <<step, items, acked, world, pendingCreates, budget, orphan, ordered,
                   failures, serverVars>>

-----------------------------------------------------------------------------
(* startPrimary and stopPrimary, the callbacks of the controller *)

\* gate() (start only) and the first resources.inspect: a failure ends the
\* action; a primary that is already as wanted needs no command.
InspectBefore(r) ==
    /\ ctl[r] = "before"
    /\ \E next \in {"failed", IF running = (want[r] = "start") THEN "after"
                                                                ELSE "command"} :
          ctl' = [ctl EXCEPT ![r] = next]
    /\ UNCHANGED <<closing, queue, pending, awaited, closer, want, running>>

\* docker start or stop: a failed command may still have taken effect.
Command(r) ==
    /\ ctl[r] = "command"
    /\ \/ running' = (want[r] = "start") /\ ctl' = [ctl EXCEPT ![r] = "after"]
       \/ running' \in BOOLEAN /\ ctl' = [ctl EXCEPT ![r] = "failed"]
    /\ UNCHANGED <<closing, queue, pending, awaited, closer, want>>

\* The second look: readiness for start, inspect for stop.
InspectAfter(r) ==
    /\ ctl[r] = "after"
    /\ \/ running = (want[r] = "start") /\ ctl' = [ctl EXCEPT ![r] = "settled"]
       \/ ctl' = [ctl EXCEPT ![r] = "failed"]
    /\ UNCHANGED <<closing, queue, pending, awaited, closer, want, running>>

Callback(r) == InspectBefore(r) \/ Command(r) \/ InspectAfter(r)

\* The primary may stop by itself.
PrimaryDies ==
    /\ closer # "none" /\ running
    /\ running' = FALSE
    /\ UNCHANGED controlVars

-----------------------------------------------------------------------------
(* The surroundings *)

\* The daemon executes, or drops, a create whose client is gone.
LateCreate(k) ==
    /\ k \in pendingCreates
    /\ pendingCreates' = pendingCreates \ {k}
    /\ world' \in {world, [world EXCEPT ![k] = IF @ = "absent" THEN "late" ELSE @]}
    /\ UNCHANGED <<pc, step, items, acked, budget, failure, orphan, ordered, failures,
                   status, serverVars>>

\* Another user of the daemon takes a name, with labels of its own.
ForeignCreate(k) ==
    /\ world[k] = "absent"
    /\ world' = [world EXCEPT ![k] = "foreign"]
    /\ UNCHANGED <<pc, step, items, acked, pendingCreates, budget, failure, orphan,
                   ordered, failures, status, serverVars>>

\* The run budget or the admission expires, or an input changes.
Expire ==
    /\ budget
    /\ budget' = FALSE
    /\ UNCHANGED <<pc, step, items, acked, world, pendingCreates, failure, orphan,
                   ordered, failures, status, serverVars>>

Controller ==
    /\ \/ \E r \in ControlRequests : Handle(r) /\ UNCHANGED running
       \/ \E r \in ControlRequests : Callback(r)
       \/ CloseEnd /\ UNCHANGED running
       \/ PrimaryDies
    /\ UNCHANGED runVars

Try == Admit \/ Probe \/ CreateAcked \/ CreateUnacked \/ CreateKilled \/ Confirm
         \/ Use \/ Serve \/ SqlGate \/ GoGate \/ OrphanCheck
         \/ \E at \in TryPcs : Fails(at)
Finally == CloseController \/ ControllerClosed \/ CloseSessions \/ CleanupItem
             \/ InspectPresent \/ InspectAbsent \/ RemoveItem \/ RemoveUnacked
             \/ VerifyAbsent \/ ItemFails \/ Finish
Environment == Expire \/ \E k \in Resources : LateCreate(k) \/ ForeignCreate(k)

Next == Try \/ Finally \/ Controller \/ Environment

Spec == Init /\ [][Next]_vars

\* Every command of the run has a deadline, so each step of runLivePg17 ends,
\* as do the handlers of the controller.  Nothing obliges the daemon.
RunSpec ==
    /\ Spec
    /\ WF_vars(Try) /\ WF_vars(Finally)
    /\ WF_vars(CloseEnd /\ UNCHANGED <<runVars, running>>)
    /\ \A r \in ControlRequests :
          /\ WF_vars((Enqueue(r) \/ RejectBody(r)) /\ UNCHANGED <<runVars, running>>)
          /\ WF_vars((Begin(r) \/ Settle(r)) /\ UNCHANGED <<runVars, running>>)
          /\ WF_vars(Callback(r) /\ UNCHANGED runVars)

-----------------------------------------------------------------------------
(* Properties *)

TypeOK ==
    /\ pc \in Pcs
    /\ step \in 1..Len(Plan)
    /\ items \in Seq(Resources)
    /\ acked \subseteq Resources
    /\ world \in [Resources -> {"absent", "own", "late", "foreign", "forged"}]
    /\ pendingCreates \subseteq Resources
    /\ budget \in BOOLEAN
    /\ failure \in {"none", "LIVE_GATE_FAILED", "DOCKER_COMMAND_FAILED",
                    "SESSION_CLEANUP_FAILED", "OWNED_CLEANUP_FAILED"}
    /\ orphan \in BOOLEAN
    /\ ordered \in Seq(Resources)
    /\ failures \subseteq Resources
    /\ status \in {"none", "PASS", "FAIL"}
    /\ running \in BOOLEAN

\* A PASS receipt is final: nothing this run created exists any more, and no
\* create of it can still take effect.
PassLeavesNothing ==
    status = "PASS" => /\ pendingCreates = {}
                       /\ \A k \in Resources : world[k] \notin Ours

\* What the daemon had created by the time its clients were done, acknowledged
\* or not, is removed, for the intention was registered before the create; or
\* its own removal was tried, and failed, and the run reports
\* OWNED_CLEANUP_FAILED: one failed removal does not stop the others.
CleanupCoversLostAck ==
    pc = "done" => \A k \in Resources :
        world[k] = "own" => failure = "OWNED_CLEANUP_FAILED" /\ k \in failures

\* Containers go first: when a volume or network is removed, every container
\* of the run is gone, is known not to be removable, or is created late.
ContainersFirst ==
    pc = "remove" /\ Item \notin Containers =>
        \A k \in Containers : world[k] = "own" => k \in failures

\* While resources are cleaned up no controller action drives the primary.
CleanupAlone ==
    pc \in {"cleanup", "inspect", "remove", "verify", "done"} =>
        \A r \in ControlRequests : ~Acting(r)

\* Cleanup does its work, in its order, and alone.
CleanupInv ==
    /\ TypeOK /\ ControllerInv
    /\ CleanupCoversLostAck /\ ContainersFirst /\ CleanupAlone

\* What another owner created under one of the run's names is never removed.
ForeignUntouched ==
    [][\A k \in Resources : world[k] \in {"foreign", "forged"} => world'[k] = world[k]]_vars

\* The finally block is reached and completes, whatever failed before, and every
\* control request is answered in the end.
RunEnds == <>[](pc = "done" /\ EveryRequestAnswered)

\* The comment on OwnedResources: registration before creation covers lost
\* acknowledgements.  A run that reports a complete cleanup leaves nothing.
RegistrationCoversLostAck ==
    pc = "done" /\ failure # "OWNED_CLEANUP_FAILED" =>
        \A k \in Resources : world[k] \notin Ours
=============================================================================

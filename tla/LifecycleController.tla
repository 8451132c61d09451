------------------------ MODULE LifecycleController ------------------------
(***************************************************************************)
(* createLifecycleController of                                            *)
(* tests/integration/postgres/live/live-runtime.mjs: the loopback HTTP     *)
(* server through which the Go integration tests stop and start the        *)
(* primary database.  Its two callers give it their own start and stop     *)
(* callbacks: LiveRun those of runLivePg17, FixtureContainer those of      *)
(* runFixtureContainer.                                                    *)
(*                                                                         *)
(* JavaScript runs one callback at a time; everything between two awaits   *)
(* is one action here.  A promise chain is modelled by `queue`, the        *)
(* requests whose action has not settled, oldest first: an action begins   *)
(* when it is the head, and its settlement removes it.                     *)
(***************************************************************************)
EXTENDS Naturals, Sequences, SequencesExt

CONSTANTS
    ControlRequests,  \* the control requests that arrive
    MaxPending        \* the queue bound (4 in the code)

ASSUME MaxPendingAssumption == MaxPending \in Nat \ {0}

VARIABLES
    closing,   \* close() was called
    queue,     \* requests whose action promise has not settled
    pending,   \* pendingActions
    awaited,   \* the unsettled part of the chain close() awaits
    closer,    \* program counter of close(): "none" before a controller exists
    want,      \* the action of each request in the queue
    ctl        \* program counter of each request's handler

\* The program that owns the controller, runLivePg17 or runFixtureContainer.
VARIABLES
    pc,        \* its program counter
    failure,   \* its failure code, "none" while there is none
    orphan     \* its orphanRisk

controlVars == <<closing, queue, pending, awaited, closer, want, ctl>>

CtlPcs == {"none", "body", "queued", "before", "command", "after", "settled",
           "failed", "replied"}
\* A handler that has been started and has not replied.
Open(r) == ctl[r] \notin {"none", "replied"}
\* The action of a request, between its closing check and its settlement.
Acting(r) == ctl[r] \in {"before", "command", "after"}

ControllerTypeOK ==
    /\ closing \in BOOLEAN
    /\ queue \in Seq(ControlRequests)
    /\ pending \in 0..MaxPending
    /\ awaited \subseteq ControlRequests
    /\ closer \in {"none", "open", "await", "closed"}
    /\ want \in [ControlRequests -> {"none", "start", "stop"}]
    /\ ctl \in [ControlRequests -> CtlPcs]

ControllerInit(state) ==
    /\ closing = FALSE
    /\ queue = <<>>
    /\ pending = 0
    /\ awaited = {}
    /\ closer = state
    /\ want = [r \in ControlRequests |-> "none"]
    /\ ctl = [r \in ControlRequests |-> "none"]

-----------------------------------------------------------------------------
(* One request *)

\* The handler's synchronous head: closing, method, path, type and token.
Arrive(r) ==
    /\ closer \in {"open", "await"}
    /\ ctl[r] = "none"
    /\ \E wellFormed \in BOOLEAN :
          ctl' = [ctl EXCEPT ![r] = IF closing \/ ~wellFormed THEN "replied" ELSE "body"]
    /\ UNCHANGED <<closing, queue, pending, awaited, closer, want>>

\* The body is invalid, too long or late, or names another run.
RejectBody(r) ==
    /\ ctl[r] = "body"
    /\ ctl' = [ctl EXCEPT ![r] = "replied"]
    /\ UNCHANGED <<closing, queue, pending, awaited, closer, want>>

\* The body is accepted.  The synchronous part up to `await action`: the bound
\* on pendingActions, then the action is chained behind the queue.
Enqueue(r) ==
    /\ ctl[r] = "body"
    /\ IF pending < MaxPending
       THEN /\ pending' = pending + 1
            /\ queue' = Append(queue, r)
            /\ ctl' = [ctl EXCEPT ![r] = "queued"]
            /\ \E action \in {"start", "stop"} : want' = [want EXCEPT ![r] = action]
       ELSE /\ ctl' = [ctl EXCEPT ![r] = "replied"]
            /\ UNCHANGED <<pending, queue, want>>
    /\ UNCHANGED <<closing, awaited, closer>>

\* The chained callback starts once every earlier action has settled.
Begin(r) ==
    /\ queue # <<>> /\ Head(queue) = r
    /\ ctl[r] = "queued"
    /\ ctl' = [ctl EXCEPT ![r] = IF closing THEN "failed" ELSE "before"]
    /\ UNCHANGED <<closing, queue, pending, awaited, closer, want>>

\* Mutant of Settle: a rejected action is left in the chain.
SettleOnlySuccess(r) ==
    /\ queue # <<>> /\ Head(queue) = r
    /\ ctl[r] = "settled"
    /\ queue' = Tail(queue)
    /\ pending' = pending - 1
    /\ awaited' = awaited \ {r}
    /\ ctl' = [ctl EXCEPT ![r] = "replied"]
    /\ want' = [want EXCEPT ![r] = "none"]
    /\ UNCHANGED <<closing, closer>>

\* The action promise settles: finally decrements pendingActions, the chain
\* continues whatever the outcome (catch), and the handler replies: 200 when the
\* action is settled, 503 when it failed.
Settle(r) ==
    /\ queue # <<>> /\ Head(queue) = r
    /\ ctl[r] \in {"settled", "failed"}
    /\ queue' = Tail(queue)
    /\ pending' = pending - 1
    /\ awaited' = awaited \ {r}
    /\ ctl' = [ctl EXCEPT ![r] = "replied"]
    /\ want' = [want EXCEPT ![r] = "none"]
    /\ UNCHANGED <<closing, closer>>

\* The handler of a request, except for the callback of its action.
Handle(r) == Arrive(r) \/ RejectBody(r) \/ Enqueue(r) \/ Begin(r) \/ Settle(r)

-----------------------------------------------------------------------------
(* close() *)

\* `closing = true`, and `await queue` evaluates the chain as it is now.
CloseBegin ==
    /\ closer = "open"
    /\ closing' = TRUE
    /\ awaited' = Range(queue)
    /\ closer' = "await"
    /\ UNCHANGED <<queue, pending, want, ctl>>

\* The awaited chain has settled; closeAllConnections destroys the requests
\* whose body is still being read, and server.close ends.  A request that was
\* chained after close() began is not awaited: its Begin comes later.
CloseEnd ==
    /\ closer = "await"
    /\ awaited = {}
    /\ closer' = "closed"
    /\ \E cut \in SUBSET {r \in ControlRequests : ctl[r] = "body"} :
          ctl' = [r \in ControlRequests |-> IF r \in cut THEN "replied" ELSE ctl[r]]
    /\ UNCHANGED <<closing, queue, pending, awaited, want>>

-----------------------------------------------------------------------------
(* Properties *)

\* pendingActions counts the unsettled chain exactly, so that the bound on the
\* queue neither leaks slots nor lets more actions in than it says.
QueueAccounted ==
    /\ pending = Len(queue)
    /\ pending <= MaxPending
    /\ Range(queue) = {r \in ControlRequests :
                         ctl[r] \in {"queued", "before", "command", "after",
                                     "settled", "failed"}}

\* "start/stop serialdır": two actions never drive the primary at once, not
\* even when one of them failed while the other waited.
ActionsSerial ==
    \A r, s \in ControlRequests : Acting(r) /\ Acting(s) => r = s

\* Once close() has returned no action drives the container, although a
\* request may have been chained after close() looked at the queue: the
\* caller goes on to remove the container.
QuietAfterClose ==
    closer = "closed" => \A r \in ControlRequests : ~Acting(r)

\* The chain of actions: bounded, exact, serial, and quiet after close().
ControllerInv == ControllerTypeOK /\ QueueAccounted /\ ActionsSerial /\ QuietAfterClose

\* No handler waits: a failed action does not poison the chain.
EveryRequestAnswered == \A r \in ControlRequests : ~Open(r)
=============================================================================

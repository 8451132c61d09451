------------------------- MODULE FixtureRunProofs -------------------------
(***************************************************************************)
(* What FixtureRun guarantees for every number of retries: a clean report  *)
(* is final, a PASS is evidence, other owners' containers are kept, and    *)
(* the run implements OwnedContainer.                                      *)
(***************************************************************************)
EXTENDS FixtureRun, TLAPS

\* Until the create is sent there is nothing to clean up.
BeforeCreate ==
    pc \in {"admit", "intent", "create"} =>
        ~inFlight /\ world # "own" /\ ~acked /\ ~removed /\ ~receipt

\* From the create to the end of the try block the attempt is on record, and
\* from the confirmation on it is acknowledged.
Progress ==
    /\ pc \in TryPcs \ {"admit", "intent"} => attempted
    /\ pc \in TryPcs \ {"admit", "intent", "create"} => acked
    /\ pc \in {"collect", "last"} => process = "zero"
    /\ pc = "last" => receipt

\* A create that was answered, or whose container exists or was removed, is
\* not under way any more.
Settled ==
    /\ acked \/ removed \/ world = "own" => ~inFlight
    /\ removed => world # "own" /\ pc \in {"proof", "absence", "done"}
    /\ pc = "rm" => world = "own"

\* What the last absence check stands on.
Proven == pc = "absence" => ~attempted \/ acked \/ removed

\* The receipt is about a container that ended with code 0.
Evidence ==
    /\ receipt => acked /\ process = "zero" /\ pc \notin TryPcs \ {"last"}
    /\ failure = "" /\ pc \in FinallyPcs \cup {"done"} => receipt
    /\ failure = "cleanup" => pc = "done" /\ result = "FAIL"
    /\ result # "" => pc = "done"
    /\ result = "PASS" => failure = ""

IInv ==
    /\ TypeOK
    /\ AttemptCoversContainer
    /\ BeforeCreate
    /\ Progress
    /\ Settled
    /\ Proven
    /\ Evidence
    /\ CleanIsFinal

-----------------------------------------------------------------------------

LEMMA InitIInv == Init => IInv
<1> SUFFICES ASSUME Init PROVE IInv
  OBVIOUS
<1>0. retry = 0
  BY DEF Init
<1>1. retry \in 0..Retries
  BY <1>0, RetriesAssumption
<1>2. TypeOK
  BY <1>1 DEF Init, TypeOK, TryPcs
<1>3. BeforeCreate /\ Progress /\ Settled /\ Proven /\ Evidence
  BY DEF Init, BeforeCreate, Progress, Settled, Proven, Evidence, TryPcs, FinallyPcs
<1>4. AttemptCoversContainer /\ CleanIsFinal
  BY DEF Init, AttemptCoversContainer, CleanIsFinal, CleanupPass
<1> QED  BY <1>2, <1>3, <1>4 DEF IInv

\* Every step of the try block preserves the invariant.
LEMMA TryIInv ==
  ASSUME IInv, Try
  PROVE  IInv'
<1> USE RetriesAssumption
     DEF IInv, TypeOK, AttemptCoversContainer, BeforeCreate, Progress, Settled, Proven,
         Evidence, CleanIsFinal, CleanupPass, TryPcs, FinallyPcs, Throw, daemonVars
<1>1. CASE TryFails       BY <1>1 DEF TryFails
<1>2. CASE Admit          BY <1>2 DEF Admit
<1>3. CASE Intent         BY <1>3 DEF Intent
<1>4. CASE CreateAcked    BY <1>4 DEF CreateAcked
<1>5. CASE CreateUnacked  BY <1>5 DEF CreateUnacked
<1>6. CASE CreateKilled   BY <1>6 DEF CreateKilled
<1>7. CASE ConfirmCreated BY <1>7 DEF ConfirmCreated
<1>8. CASE StartContainer BY <1>8 DEF StartContainer
<1>9. CASE ConfirmRunning BY <1>9 DEF ConfirmRunning
<1>10. CASE Poll          BY <1>10 DEF Poll
<1>11. CASE Exited        BY <1>11 DEF Exited
<1>12. CASE Collect       BY <1>12 DEF Collect
<1>13. CASE LastLease     BY <1>13 DEF LastLease
<1> QED
  BY <1>1, <1>2, <1>3, <1>4, <1>5, <1>6, <1>7, <1>8, <1>9, <1>10, <1>11, <1>12, <1>13
  DEF Try

\* So does every step of the finally block.
LEMMA FinallyIInv ==
  ASSUME IInv, Finally
  PROVE  IInv'
<1> USE RetriesAssumption
     DEF IInv, TypeOK, AttemptCoversContainer, BeforeCreate, Progress, Settled, Proven,
         Evidence, CleanIsFinal, CleanupPass, TryPcs, FinallyPcs, daemonVars
<1>1. CASE CleanupFails     BY <1>1 DEF CleanupFails
<1>2. CASE SkipList         BY <1>2 DEF SkipList
<1>3. CASE ListAgain
  <2>1. retry < Retries /\ retry' = retry + 1 /\ retry \in 0..Retries
    BY <1>3 DEF ListAgain
  <2>2. retry' \in 0..Retries
    BY ONLY <2>1, RetriesAssumption
  <2> QED  BY <1>3, <2>2 DEF ListAgain
<1>4. CASE ListEmpty        BY <1>4 DEF ListEmpty
<1>5. CASE ListFound        BY <1>5 DEF ListFound
<1>6. CASE Own              BY <1>6 DEF Own
<1>7. CASE Remove           BY <1>7 DEF Remove
<1>8. CASE RemoveUnanswered BY <1>8 DEF RemoveUnanswered
<1>9. CASE Proof            BY <1>9 DEF Proof
<1>10. CASE Finish          BY <1>10 DEF Finish
<1> QED
  BY <1>1, <1>2, <1>3, <1>4, <1>5, <1>6, <1>7, <1>8, <1>9, <1>10 DEF Finally

\* A step that at most ends the lease or fills the name keeps the types.
LEMMA HostTypes ==
  ASSUME TypeOK, lease' \in BOOLEAN, world' \in {"absent", "own", "foreign"},
         UNCHANGED <<pc, attempted, acked, removed, retry, failure, receipt, result,
                     inFlight, process>>
  PROVE  TypeOK'
<1>1. pc' \in TryPcs \cup FinallyPcs \cup {"done"} /\ retry' \in 0..Retries
  BY DEF TypeOK
<1>2. attempted' \in BOOLEAN /\ acked' \in BOOLEAN /\ removed' \in BOOLEAN
  BY DEF TypeOK
<1>3. receipt' \in BOOLEAN /\ inFlight' \in BOOLEAN
  BY DEF TypeOK
<1>4. failure' \in {"", "execution", "cleanup"} /\ result' \in {"", "PASS", "FAIL"}
  BY DEF TypeOK
<1>5. process' \in {"created", "running", "zero", "nonzero"}
  BY DEF TypeOK
<1> QED  BY <1>1, <1>2, <1>3, <1>4, <1>5 DEF TypeOK

\* A step that changes nothing of the host and of the daemon preserves it.
LEMMA QuietIInv ==
  ASSUME IInv, lease' \in BOOLEAN, UNCHANGED <<hostVars, daemonVars>>
  PROVE  IInv'
<1>1. /\ pc' = pc /\ attempted' = attempted /\ acked' = acked /\ removed' = removed
      /\ retry' = retry /\ failure' = failure /\ receipt' = receipt /\ result' = result
      /\ world' = world /\ inFlight' = inFlight /\ process' = process
  BY DEF hostVars, daemonVars
<1>2. TypeOK'
  BY <1>1, HostTypes DEF IInv, TypeOK
<1>3. BeforeCreate' /\ Progress' /\ Settled' /\ Proven' /\ Evidence'
  BY <1>1 DEF IInv, BeforeCreate, Progress, Settled, Proven, Evidence
<1>4. AttemptCoversContainer' /\ CleanIsFinal'
  BY <1>1 DEF IInv, AttemptCoversContainer, CleanIsFinal, CleanupPass
<1> QED  BY <1>2, <1>3, <1>4 DEF IInv

\* The daemon, the container and the clock preserve it too.
LEMMA EnvironmentIInv ==
  ASSUME IInv, Environment
  PROVE  IInv'
<1>1. CASE LateCreate
  BY <1>1 DEF LateCreate, IInv, TypeOK, AttemptCoversContainer, BeforeCreate, Progress,
     Settled, Proven, Evidence, CleanIsFinal, CleanupPass, hostVars
<1>2. CASE ForeignCreate
  <2>1. /\ pc' = pc /\ attempted' = attempted /\ acked' = acked /\ removed' = removed
        /\ retry' = retry /\ failure' = failure /\ receipt' = receipt /\ result' = result
        /\ world = "absent" /\ world' = "foreign"
        /\ inFlight' = inFlight /\ process' = process /\ lease' = lease
    BY <1>2 DEF ForeignCreate, hostVars
  <2>2. TypeOK'
    BY <2>1, HostTypes DEF IInv, TypeOK
  <2>3. BeforeCreate' /\ Progress' /\ Settled' /\ Proven' /\ Evidence'
    BY <2>1 DEF IInv, BeforeCreate, Progress, Settled, Proven, Evidence
  <2>4. AttemptCoversContainer' /\ CleanIsFinal'
    BY <2>1 DEF IInv, AttemptCoversContainer, CleanIsFinal, CleanupPass
  <2> QED  BY <2>2, <2>3, <2>4 DEF IInv
<1>3. CASE ContainerExits
  BY <1>3 DEF ContainerExits, IInv, TypeOK, AttemptCoversContainer, BeforeCreate, Progress,
     Settled, Proven, Evidence, CleanIsFinal, CleanupPass, hostVars
<1>4. CASE LeaseEnds
  BY <1>4, QuietIInv DEF LeaseEnds
<1> QED  BY <1>1, <1>2, <1>3, <1>4 DEF Environment

LEMMA StutterIInv ==
  ASSUME IInv, UNCHANGED vars
  PROVE  IInv'
<1>1. lease' = lease /\ UNCHANGED <<hostVars, daemonVars>>
  BY DEF vars, hostVars, daemonVars
<1>2. lease' \in BOOLEAN
  BY <1>1 DEF IInv, TypeOK
<1> QED  BY <1>1, <1>2, QuietIInv

-----------------------------------------------------------------------------

\* The strengthened invariant of executeFixtureLifecycle holds in every
\* reachable state, for every number of retries.
THEOREM FixtureInvariant == Spec => []IInv
<1>1. Init => IInv
  BY InitIInv
<1>2. IInv /\ [Next]_vars => IInv'
  BY TryIInv, FinallyIInv, EnvironmentIInv, StutterIInv DEF Next
<1> QED  BY <1>1, <1>2, PTL DEF Spec

\* A cleanup reported as PASS is final (fixture-run.mjs, the finally block):
\* whatever the daemon still does, this run's container does not come back.
THEOREM FixtureCleanIsFinal == Spec => []CleanIsFinal
<1>1. IInv => CleanIsFinal
  BY DEF IInv
<1> QED  BY <1>1, FixtureInvariant, PTL

\* A PASS of the host stands on an acknowledged container that ended with code
\* 0, on its receipt, and on a cleanup that passed.
THEOREM FixturePassIsEvidence == Spec => []PassIsEvidence
<1>1. IInv => PassIsEvidence
  BY DEF IInv, TypeOK, PassIsEvidence, Evidence, CleanIsFinal, CleanupPass, FinallyPcs
<1> QED  BY <1>1, FixtureInvariant, PTL

\* The container that exists, or may come to exist, is one the finally block
\* looks for: the intention is recorded before docker create.
THEOREM FixtureAttemptCovers == Spec => []AttemptCoversContainer
<1>1. IInv => AttemptCoversContainer
  BY DEF IInv
<1> QED  BY <1>1, FixtureInvariant, PTL

\* docker rm --force is only ever given the id of this run's own container.
THEOREM FixtureForeignKept == Spec => ForeignKept
<1>1. IInv /\ [Next]_vars => [world = "foreign" => world' = "foreign"]_vars
  <2> SUFFICES ASSUME IInv, Next, world = "foreign"
               PROVE  world' = "foreign"
    BY DEF vars
  <2>1. CASE Try
    BY <2>1 DEF Try, TryFails, Admit, Intent, CreateAcked, CreateUnacked, CreateKilled,
       ConfirmCreated, StartContainer, ConfirmRunning, Poll, Exited, Collect, LastLease,
       daemonVars
  <2>2. CASE Finally
    BY <2>2 DEF Finally, CleanupFails, SkipList, ListAgain, ListEmpty, ListFound, Own,
       Remove, RemoveUnanswered, Proof, Finish, daemonVars, IInv, Settled
  <2>3. CASE Environment
    BY <2>3 DEF Environment, LateCreate, ForeignCreate, ContainerExits, LeaseEnds,
       daemonVars
  <2> QED  BY <2>1, <2>2, <2>3 DEF Next
<1> QED  BY <1>1, FixtureInvariant, PTL DEF Spec, ForeignKept

-----------------------------------------------------------------------------
(* Refinement *)

LEMMA InitContract == Init => Owned!Init
  BY DEF Init, Owned!Init, container, report

LEMMA StepContract ==
  ASSUME IInv, IInv', Next
  PROVE  Owned!Next \/ UNCHANGED <<container, report>>
<1> USE DEF container, report, CleanupPass
<1>1. CASE Try
  <2>1. pc # "done" /\ pc' # "done"
    BY <1>1 DEF Try, TryFails, Admit, Intent, CreateAcked, CreateUnacked, CreateKilled,
       ConfirmCreated, StartContainer, ConfirmRunning, Poll, Exited, Collect, LastLease,
       Throw, TryPcs
  <2>2. CASE CreateAcked \/ CreateUnacked
    BY <2>1, <2>2 DEF CreateAcked, CreateUnacked, IInv, BeforeCreate, Owned!Next,
       Owned!Request
  <2>3. CASE CreateKilled
    BY <2>1, <2>3 DEF CreateKilled, IInv, BeforeCreate, Owned!Next, Owned!Request
  <2>4. CASE UNCHANGED <<world, inFlight>>
    BY <2>1, <2>4
  <2> QED
    BY <1>1, <2>2, <2>3, <2>4 DEF Try, TryFails, Admit, Intent, ConfirmCreated,
       StartContainer, ConfirmRunning, Poll, Exited, Collect, LastLease, daemonVars
<1>2. CASE Finally
  <2>1. CASE CleanupFails
    BY <2>1 DEF CleanupFails, FinallyPcs, daemonVars, Owned!Next, Owned!Report
  <2>2. CASE Finish
    <3>1. container = "absent" /\ container' = "absent"
      BY <2>2 DEF Finish, daemonVars, IInv, Proven, Settled, AttemptCoversContainer
    <3>2. report = "" /\ report' = "clean"
      BY <2>2 DEF Finish, IInv, Evidence
    <3> QED  BY <3>1, <3>2 DEF Owned!Next, Owned!Report
  <2>3. CASE Remove \/ RemoveUnanswered
    <3>1. pc = "rm" /\ pc' # "done" /\ world' = "absent" /\ inFlight' = inFlight
      BY <2>3 DEF Remove, RemoveUnanswered
    <3>2. container = "present" /\ container' = "absent" /\ report = "" /\ report' = ""
      BY <3>1 DEF IInv, Settled
    <3> QED  BY <3>2 DEF Owned!Next, Owned!Vanish
  <2>4. CASE SkipList \/ ListAgain \/ ListEmpty \/ ListFound \/ Own \/ Proof
    <3>1. pc # "done" /\ pc' # "done" /\ world' = world /\ inFlight' = inFlight
      BY <2>4 DEF SkipList, ListAgain, ListEmpty, ListFound, Own, Proof, daemonVars
    <3> QED  BY <3>1
  <2> QED  BY <1>2, <2>1, <2>2, <2>3, <2>4 DEF Finally
<1>3. CASE Environment
  <2>1. CASE LateCreate
    BY <2>1 DEF LateCreate, hostVars, IInv, Settled, Owned!Next, Owned!Appear,
       Owned!Vanish
  <2>2. CASE ForeignCreate
    BY <2>2 DEF ForeignCreate, hostVars
  <2>3. CASE ContainerExits \/ LeaseEnds
    <3>1. pc' = pc /\ failure' = failure /\ world' = world /\ inFlight' = inFlight
      BY <2>3 DEF ContainerExits, LeaseEnds, hostVars, daemonVars
    <3> QED  BY <3>1
  <2> QED  BY <1>3, <2>1, <2>2, <2>3 DEF Environment
<1> QED  BY <1>1, <1>2, <1>3 DEF Next

\* executeFixtureLifecycle keeps the promise of OwnedContainer: at most one
\* container is asked for, and a clean end is reported only when it does not
\* exist and cannot come into existence.
THEOREM FixtureImplementsContract == Spec => ImplementsOwnedContainer
<1>1. Init => Owned!Init
  BY InitContract
<1>2. IInv /\ IInv' /\ [Next]_vars => [Owned!Next]_<<container, report>>
  <2>1. CASE Next
    BY <2>1, StepContract
  <2>2. CASE UNCHANGED vars
    BY <2>2 DEF vars, container, report, CleanupPass
  <2> QED  BY <2>1, <2>2
<1> QED  BY <1>1, <1>2, FixtureInvariant, PTL DEF Spec, ImplementsOwnedContainer, Owned!Spec
=============================================================================

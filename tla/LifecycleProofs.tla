--------------------------- MODULE LifecycleProofs ---------------------------
(***************************************************************************)
(* Proofs about the lifecycle controller and its two users, for any number *)
(* of control requests and any bound on the queue: LiveRun, for any plan   *)
(* of resources, and FixtureContainer, for any number of Go packages.  The *)
(* lemmas about the controller serve both.                                 *)
(***************************************************************************)
EXTENDS LiveRun, FixtureContainer, SequenceTheorems, TLAPS

Chained == {"queued", "before", "command", "after", "settled", "failed"}

\* The chain holds a request once, and only its head has begun.
ChainInv ==
    /\ \A i, j \in 1..Len(queue) : queue[i] = queue[j] => i = j
    /\ \A i \in 2..Len(queue) : ctl[queue[i]] = "queued"

\* What close() may conclude from the chain it awaits: an action that had
\* begun is in it, and none begins afterwards.
CloseInv ==
    /\ closing <=> closer \in {"await", "closed"}
    /\ closer = "none" => \A r \in ControlRequests : ctl[r] = "none"
    /\ closer = "await" => \A r \in ControlRequests : Acting(r) => r \in awaited
    /\ QuietAfterClose

CInv == ControllerTypeOK /\ QueueAccounted /\ ChainInv /\ CloseInv

CleanupPcs == {"cleanup", "inspect", "remove", "verify"}

\* Where the program is: the controller it has, and the items it has registered.
Position ==
    /\ pc \in {"admit", "probe", "create", "confirm", "use", "serve"} => closer = "none"
    /\ pc \in {"sql", "go", "orphans"} => closer = "open"
    /\ pc = "closeController" => closer # "none"
    /\ pc \in {"closeSessions", "done"} \cup CleanupPcs => closer \in {"none", "closed"}
    /\ pc \in {"admit", "probe"} => Len(items) = step - 1
    /\ pc \in {"create", "confirm", "use"} => Len(items) = step
    /\ pc \in {"inspect", "remove", "verify"} => ordered # <<>>
    /\ pc = "done" => ordered = <<>>
    /\ pc # "done" => status = "none"

\* The items are the first resources of the plan, and whatever this run has
\* created, or may yet have created, is among them.
Registered ==
    /\ Len(items) <= Len(Plan)
    /\ \A i \in 1..Len(items) : items[i] = Plan[i]
    /\ \A k \in Resources : world[k] \in Ours => k \in Range(items)
    /\ pendingCreates \subseteq Range(items)
    /\ \A k \in Range(items) : world[k] # "forged"

\* The items still to visit: containers come first.
Sorted ==
    /\ \A i, j \in 1..Len(ordered) :
          i < j /\ ordered[j] \in Containers => ordered[i] \in Containers
    /\ \A k \in Range(ordered) : k \in Range(items)

\* What cleanup has not reported it has removed or will visit.
Covered ==
    /\ pc \in CleanupPcs \cup {"done"} =>
          \A k \in Resources : world[k] = "own" => k \in Range(ordered) \cup failures
    /\ pc = "remove" => world[Item] \in Ours

\* What can still take effect, or took effect late, has failed the run.
Verdict ==
    /\ pendingCreates # {} => failure # "none"
    /\ \A k \in Resources : world[k] = "late" => failure # "none"
    /\ pc = "done" => failures = {} \/ failure = "OWNED_CLEANUP_FAILED"
    /\ status = "PASS" => pc = "done" /\ failure = "none"

IInv ==
    /\ TypeOK /\ CInv /\ Position /\ Registered /\ Sorted /\ Covered /\ Verdict

-----------------------------------------------------------------------------
(* The controller *)

\* Membership in the chain, by position.
LEMMA InChain ==
    ASSUME CInv, NEW r \in ControlRequests, ctl[r] \in Chained
    PROVE  \E i \in 1..Len(queue) : queue[i] = r
    BY DEF CInv, ControllerTypeOK, QueueAccounted, Chained, Range

LEMMA ChainHas ==
    ASSUME CInv, NEW i \in 1..Len(queue)
    PROVE  queue[i] \in ControlRequests /\ ctl[queue[i]] \in Chained
    BY DEF CInv, ControllerTypeOK, QueueAccounted, Chained, Range

\* Only the head of the chain can be past "queued".
LEMMA BegunIsHead ==
    ASSUME CInv, NEW r \in ControlRequests, ctl[r] \in Chained \ {"queued"}
    PROVE  queue # <<>> /\ Head(queue) = r /\ Len(queue) > 0 /\ queue[1] = r
<1>1. PICK i \in 1..Len(queue) : queue[i] = r
    BY InChain
<1>2. i \notin 2..Len(queue)
    BY <1>1 DEF CInv, ChainInv
<1>3. i = 1
    BY <1>1, <1>2 DEF CInv, ControllerTypeOK
<1>4. QED
    BY <1>1, <1>3 DEF CInv, ControllerTypeOK

\* A handler that is not in the chain changes nothing of it.
LEMMA OutsideChain ==
    ASSUME CInv, NEW r \in ControlRequests, NEW next \in {"body", "replied"},
           ctl[r] \in {"none", "body"}, closer # "none" \/ ctl[r] # "none",
           ctl' = [ctl EXCEPT ![r] = next],
           UNCHANGED <<closing, queue, pending, awaited, closer, want>>
    PROVE  CInv'
<1>1. ControllerTypeOK'
    BY DEF CInv, ControllerTypeOK, CtlPcs
<1>2. QueueAccounted'
    BY DEF CInv, ControllerTypeOK, QueueAccounted
<1>3. ChainInv'
    <2>1. \A i \in 1..Len(queue) : queue[i] # r
      BY ChainHas DEF Chained
    <2>2. QED
      BY <2>1, ChainHas DEF CInv, ControllerTypeOK, ChainInv
<1>4. CloseInv'
    BY DEF CInv, ControllerTypeOK, CloseInv, QuietAfterClose, Acting
<1>5. QED
    BY <1>1, <1>2, <1>3, <1>4 DEF CInv

LEMMA ArriveStep ==
    ASSUME CInv, NEW r \in ControlRequests, Arrive(r) \/ RejectBody(r)
    PROVE  CInv'
<1>1. CASE Arrive(r)
    BY <1>1, OutsideChain DEF Arrive
<1>2. CASE RejectBody(r)
    BY <1>2, OutsideChain DEF RejectBody
<1>3. QED
    BY <1>1, <1>2

LEMMA EnqueueStep ==
    ASSUME CInv, NEW r \in ControlRequests, Enqueue(r)
    PROVE  CInv'
<1>1. CASE pending >= MaxPending
    BY <1>1, OutsideChain, MaxPendingAssumption DEF Enqueue, CInv, ControllerTypeOK
<1>2. CASE pending < MaxPending
  <2>1. /\ pending' = pending + 1 /\ queue' = Append(queue, r)
        /\ ctl' = [ctl EXCEPT ![r] = "queued"] /\ ctl[r] = "body"
        /\ UNCHANGED <<closing, awaited, closer>>
        /\ \E action \in {"start", "stop"} : want' = [want EXCEPT ![r] = action]
    BY <1>2 DEF Enqueue
  <2>2. /\ queue \in Seq(ControlRequests) /\ queue' \in Seq(ControlRequests)
        /\ Len(queue') = Len(queue) + 1 /\ queue'[Len(queue) + 1] = r
        /\ \A i \in 1..Len(queue) : queue'[i] = queue[i]
    BY <2>1, AppendProperties DEF CInv, ControllerTypeOK
  <2>3. \A i \in 1..Len(queue) : queue[i] # r
    BY <2>1, ChainHas DEF Chained
  <2>4. ControllerTypeOK'
    BY <1>2, <2>1, <2>2, MaxPendingAssumption DEF CInv, ControllerTypeOK, CtlPcs
  <2>5. QueueAccounted'
    <3>1. pending' = Len(queue') /\ pending' <= MaxPending
      BY <1>2, <2>1, <2>2, MaxPendingAssumption DEF CInv, QueueAccounted, ControllerTypeOK
    <3>2. Range(queue') = Range(queue) \cup {r}
      BY <2>2 DEF Range
    <3>3. QED
      BY <2>1, <3>1, <3>2 DEF CInv, QueueAccounted, ControllerTypeOK
  <2>6. ChainInv'
    <3>1. ASSUME NEW i \in 1..Len(queue'), NEW j \in 1..Len(queue'), queue'[i] = queue'[j]
          PROVE  i = j
      BY <2>2, <2>3, <3>1 DEF CInv, ChainInv
    <3>2. ASSUME NEW i \in 2..Len(queue') PROVE ctl'[queue'[i]] = "queued"
      BY <2>1, <2>2, <2>3, <3>2, ChainHas DEF CInv, ChainInv, ControllerTypeOK
    <3>3. QED
      BY <3>1, <3>2 DEF ChainInv
  <2>7. CloseInv'
    BY <2>1 DEF CInv, ControllerTypeOK, CloseInv, QuietAfterClose, Acting
  <2>8. QED
    BY <2>4, <2>5, <2>6, <2>7 DEF CInv
<1>3. QED
    BY <1>1, <1>2, MaxPendingAssumption DEF CInv, ControllerTypeOK

\* The action at the head goes on, or ends: the chain stays.
LEMMA HeadStep ==
    ASSUME CInv, NEW r \in ControlRequests, NEW next \in Chained \ {"queued"},
           queue # <<>>, Head(queue) = r, ctl[r] \in Chained,
           next \in {"before", "command", "after"} => Acting(r) \/ ~closing,
           ctl' = [ctl EXCEPT ![r] = next],
           UNCHANGED <<closing, queue, pending, awaited, closer, want>>
    PROVE  CInv'
<1>1. ControllerTypeOK'
    BY DEF CInv, ControllerTypeOK, CtlPcs, Chained
<1>2. QueueAccounted'
    BY DEF CInv, ControllerTypeOK, QueueAccounted, Chained
<1>3. ChainInv'
  <2>1. queue[1] = r /\ Len(queue) \in Nat /\ Len(queue) > 0
    BY DEF CInv, ControllerTypeOK
  <2>2. \A i \in 2..Len(queue) : queue[i] # r
    BY <2>1 DEF CInv, ChainInv
  <2>3. QED
    BY <2>1, <2>2, ChainHas DEF CInv, ChainInv, ControllerTypeOK
<1>4. CloseInv'
    BY DEF CInv, ControllerTypeOK, CloseInv, QuietAfterClose, Acting, Chained
<1>5. QED
    BY <1>1, <1>2, <1>3, <1>4 DEF CInv

LEMMA BeginStep ==
    ASSUME CInv, NEW r \in ControlRequests, Begin(r)
    PROVE  CInv'
<1>1. CASE closing
    BY <1>1, HeadStep DEF Begin, Chained
<1>2. CASE ~closing
    BY <1>2, HeadStep DEF Begin, Chained
<1>3. QED
    BY <1>1, <1>2

\* A step of the callback.
LEMMA ActionStep ==
    ASSUME CInv, NEW r \in ControlRequests, Acting(r),
           NEW next \in {"command", "after", "settled", "failed"},
           ctl' = [ctl EXCEPT ![r] = next],
           UNCHANGED <<closing, queue, pending, awaited, closer, want>>
    PROVE  CInv'
    BY BegunIsHead, HeadStep DEF Acting, Chained

\* The head leaves, and the next request may begin.
LEMMA SettleStep ==
    ASSUME CInv, NEW r \in ControlRequests, Settle(r)
    PROVE  CInv'
<1>1. /\ queue # <<>> /\ Head(queue) = r /\ queue' = Tail(queue)
      /\ pending' = pending - 1 /\ awaited' = awaited \ {r}
      /\ ctl' = [ctl EXCEPT ![r] = "replied"] /\ want' = [want EXCEPT ![r] = "none"]
      /\ UNCHANGED <<closing, closer>>
      /\ ctl[r] \in {"settled", "failed"}
    BY DEF Settle
<1>2. /\ queue \in Seq(ControlRequests) /\ queue' \in Seq(ControlRequests)
      /\ Len(queue) > 0 /\ Len(queue) \in Nat /\ Len(queue') = Len(queue) - 1
      /\ \A i \in 1..Len(queue') : queue'[i] = queue[i + 1]
      /\ queue[1] = r
    BY <1>1, HeadTailProperties DEF CInv, ControllerTypeOK
<1>3. \A i \in 2..Len(queue) : queue[i] # r
    BY <1>2 DEF CInv, ChainInv
<1>4. pending' \in 0..MaxPending /\ pending' = Len(queue')
    BY <1>1, <1>2, MaxPendingAssumption DEF CInv, QueueAccounted, ControllerTypeOK
<1>5. ControllerTypeOK'
    BY <1>1, <1>2, <1>4 DEF CInv, ControllerTypeOK, CtlPcs
<1>6. Range(queue') = Range(queue) \ {r}
  <2>1. ASSUME NEW x \in Range(queue') PROVE x \in Range(queue) \ {r}
    <3>1. PICK i \in 1..Len(queue') : x = queue'[i]
      BY <1>2, <2>1 DEF Range
    <3>2. i + 1 \in 2..Len(queue) /\ x = queue[i + 1]
      BY <1>2, <3>1
    <3>3. QED
      BY <1>2, <1>3, <3>2 DEF Range
  <2>2. ASSUME NEW x \in Range(queue), x # r PROVE x \in Range(queue')
    <3>1. PICK i \in 1..Len(queue) : x = queue[i]
      BY <1>2, <2>2 DEF Range
    <3>2. i - 1 \in 1..Len(queue') /\ queue'[i - 1] = queue[(i - 1) + 1]
      BY <1>2, <2>2, <3>1
    <3>3. x = queue'[i - 1]
      BY <3>1, <3>2
    <3>4. QED
      BY <1>2, <3>2, <3>3 DEF Range
  <2>3. QED
    BY <2>1, <2>2
<1>7. QueueAccounted'
    BY <1>1, <1>4, <1>6, MaxPendingAssumption DEF CInv, QueueAccounted, ControllerTypeOK
<1>8. ChainInv'
  <2>1. ASSUME NEW i \in 1..Len(queue'), NEW j \in 1..Len(queue'), queue'[i] = queue'[j]
        PROVE  i = j
    <3>1. i + 1 \in 1..Len(queue) /\ j + 1 \in 1..Len(queue) /\ queue[i + 1] = queue[j + 1]
      BY <1>2, <2>1
    <3>2. i + 1 = j + 1
      BY <3>1 DEF CInv, ChainInv
    <3>3. QED
      BY <3>2
  <2>2. ASSUME NEW i \in 2..Len(queue') PROVE ctl'[queue'[i]] = "queued"
    <3>1. i + 1 \in 2..Len(queue) /\ queue'[i] = queue[i + 1] /\ i + 1 \in 1..Len(queue)
      BY <1>2, <2>2
    <3>2. ctl[queue[i + 1]] = "queued" /\ queue[i + 1] # r /\ queue[i + 1] \in ControlRequests
      BY <1>3, <3>1, ChainHas DEF CInv, ChainInv
    <3>3. QED
      BY <1>1, <3>1, <3>2 DEF CInv, ControllerTypeOK
  <2>3. QED
    BY <2>1, <2>2 DEF ChainInv
<1>9. CloseInv'
    BY <1>1 DEF CInv, ControllerTypeOK, CloseInv, QuietAfterClose, Acting
<1>10. QED
    BY <1>5, <1>7, <1>8, <1>9 DEF CInv

LEMMA HandleStep ==
    ASSUME CInv, NEW r \in ControlRequests, Handle(r)
    PROVE  CInv'
    BY ArriveStep, EnqueueStep, BeginStep, SettleStep DEF Handle

\* close() awaits every action that has begun.
LEMMA CloseBeginStep ==
    ASSUME CInv, CloseBegin
    PROVE  CInv'
<1>1. ControllerTypeOK' /\ QueueAccounted'
    BY DEF CInv, CloseBegin, ControllerTypeOK, QueueAccounted, Range
<1>2. ChainInv'
    BY DEF CInv, CloseBegin, ChainInv
<1>3. CloseInv'
    BY DEF CInv, CloseBegin, CloseInv, QuietAfterClose, Acting, QueueAccounted
<1>4. QED
    BY <1>1, <1>2, <1>3 DEF CInv

LEMMA CloseEndStep ==
    ASSUME CInv, CloseEnd
    PROVE  CInv'
<1>1. PICK cut \in SUBSET {r \in ControlRequests : ctl[r] = "body"} :
          ctl' = [r \in ControlRequests |-> IF r \in cut THEN "replied" ELSE ctl[r]]
    BY DEF CloseEnd
<1>2. \A r \in ControlRequests :
          /\ ctl'[r] = ctl[r] \/ (ctl[r] = "body" /\ ctl'[r] = "replied")
          /\ ctl'[r] \in CtlPcs
    BY <1>1 DEF CInv, ControllerTypeOK, CtlPcs
<1>3. ControllerTypeOK'
    BY <1>1, <1>2 DEF CInv, CloseEnd, ControllerTypeOK
<1>4. QueueAccounted'
    BY <1>2 DEF CInv, CloseEnd, QueueAccounted
<1>5. ChainInv'
    BY <1>2, ChainHas DEF CInv, CloseEnd, ChainInv, ControllerTypeOK, Chained
<1>6. CloseInv'
    BY <1>2 DEF CInv, CloseEnd, CloseInv, QuietAfterClose, Acting
<1>7. QED
    BY <1>3, <1>4, <1>5, <1>6 DEF CInv

\* What the controller promises follows.
LEMMA ControllerPromise ==
    ASSUME CInv
    PROVE  ControllerInv
<1>1. ActionsSerial
    BY BegunIsHead DEF ActionsSerial, Acting, Chained
<1>2. QED
    BY <1>1 DEF CInv, CloseInv, ControllerInv

-----------------------------------------------------------------------------
(* The run *)

\* A step that leaves the controller alone.
LEMMA ControllerSame ==
    ASSUME CInv, UNCHANGED controlVars
    PROVE  CInv'
<1>1. ControllerTypeOK' /\ QueueAccounted'
    BY DEF CInv, controlVars, ControllerTypeOK, QueueAccounted
<1>2. ChainInv' /\ CloseInv'
    BY DEF CInv, controlVars, ChainInv, CloseInv, QuietAfterClose, Acting
<1>3. QED
    BY <1>1, <1>2 DEF CInv

LEMMA InitIInv == Init => IInv
<1> SUFFICES ASSUME Init PROVE IInv
    OBVIOUS
<1>1. /\ pc = "admit" /\ step = 1 /\ items = <<>> /\ acked = {} /\ pendingCreates = {}
      /\ failure = "none" /\ ordered = <<>> /\ failures = {} /\ status = "none"
    BY Zenon DEF Init
<1>2. budget \in BOOLEAN /\ orphan \in BOOLEAN /\ running \in BOOLEAN
    BY Zenon DEF Init
<1>3. \A k \in Resources : world[k] \in {"absent", "forged"}
    BY Zenon DEF Init
<1>4. world \in [Resources -> {"absent", "own", "late", "foreign", "forged"}]
    <2>1. world \in [Resources -> {"absent", "forged"}]
      BY Zenon DEF Init
    <2>2. QED
      BY <2>1
<1>5. CInv /\ closer = "none"
  <2>1. ControllerInit("none")
    BY Zenon DEF Init
  <2>2. closer = "none" /\ ControllerTypeOK
    <3>1. /\ closing \in BOOLEAN /\ closer = "none" /\ queue = <<>> /\ pending = 0
          /\ awaited = {}
      BY <2>1, Zenon DEF ControllerInit
    <3>2. /\ want \in [ControlRequests -> {"none", "start", "stop"}]
          /\ ctl \in [ControlRequests -> CtlPcs]
      BY <2>1 DEF ControllerInit, CtlPcs
    <3>3. QED
      BY <3>1, <3>2, MaxPendingAssumption DEF ControllerTypeOK
  <2>3. QueueAccounted
    BY <2>1, MaxPendingAssumption DEF ControllerInit, QueueAccounted, Range
  <2>4. ChainInv /\ CloseInv
    BY <2>1 DEF ControllerInit, ChainInv, CloseInv, QuietAfterClose, Acting
  <2>5. QED
    BY <2>2, <2>3, <2>4 DEF CInv
<1>6. TypeOK
    BY <1>1, <1>2, <1>4, PlanAssumption DEF TypeOK, Pcs
<1>7. Position /\ Sorted
    BY <1>1, <1>5 DEF Position, CleanupPcs, Sorted, Range
<1>8. Registered
    BY <1>1, <1>3, PlanAssumption DEF Registered, Range, Ours
<1>9. Covered /\ Verdict
    BY <1>1, <1>3 DEF Covered, Verdict, CleanupPcs
<1>10. QED
    BY <1>5, <1>6, <1>7, <1>8, <1>9 DEF IInv

\* A step of the controller alone.
LEMMA ControllerOnly ==
    ASSUME IInv, UNCHANGED runVars, CInv', running' \in BOOLEAN,
           closer' = closer \/ (closer = "await" /\ closer' = "closed")
    PROVE  IInv'
<1>1. TypeOK' /\ Registered' /\ Sorted' /\ Covered' /\ Verdict'
    BY DEF IInv, runVars, TypeOK, Registered, Sorted, Covered, Verdict, Item
<1>2. Position'
    BY DEF IInv, runVars, Position, CleanupPcs
<1>3. QED
    BY <1>1, <1>2 DEF IInv

LEMMA ControllerSteps ==
    ASSUME IInv, Controller
    PROVE  IInv'
<1> USE DEF IInv
<1>1. CASE \E r \in ControlRequests : Handle(r) /\ UNCHANGED <<running, runVars>>
  <2>1. PICK r \in ControlRequests : Handle(r) /\ UNCHANGED <<running, runVars>>
    BY <1>1
  <2>2. CInv'
    BY <2>1, HandleStep
  <2>3. closer' = closer
    BY <2>1 DEF Handle, Arrive, RejectBody, Enqueue, Begin, Settle
  <2>4. running' \in BOOLEAN
    BY <2>1 DEF TypeOK
  <2>5. QED
    BY <2>1, <2>2, <2>3, <2>4, ControllerOnly
<1>2. CASE \E r \in ControlRequests : Callback(r) /\ UNCHANGED runVars
  <2>1. PICK r \in ControlRequests : Callback(r) /\ UNCHANGED runVars
    BY <1>2
  <2>2. PICK next \in {"command", "after", "settled", "failed"} :
            /\ ctl' = [ctl EXCEPT ![r] = next]
            /\ Acting(r)
            /\ UNCHANGED <<closing, queue, pending, awaited, closer, want>>
    BY <2>1 DEF Callback, InspectBefore, Command, InspectAfter, Acting
  <2>3. CInv'
    BY <2>2, ActionStep
  <2>4. running' \in BOOLEAN
    <3>1. CASE Command(r)
      BY <3>1 DEF Command
    <3>2. CASE ~Command(r)
      BY <2>1, <3>2 DEF Callback, InspectBefore, InspectAfter, TypeOK
    <3>3. QED
      BY <3>1, <3>2
  <2>5. QED
    BY <2>1, <2>2, <2>3, <2>4, ControllerOnly
<1>3. CASE CloseEnd /\ UNCHANGED <<running, runVars>>
  <2>1. CInv'
    BY <1>3, CloseEndStep
  <2>2. QED
    BY <1>3, <2>1, ControllerOnly DEF CloseEnd, TypeOK
<1>4. CASE PrimaryDies /\ UNCHANGED runVars
  <2>1. CInv' /\ closer' = closer
    BY <1>4, ControllerSame DEF PrimaryDies, controlVars
  <2>2. QED
    BY <1>4, <2>1, ControllerOnly DEF PrimaryDies
<1>5. QED
    BY <1>1, <1>2, <1>3, <1>4 DEF Controller

\* The name that is being created is the next of the plan.
LEMMA CurrentFacts ==
    ASSUME IInv
    PROVE  /\ Current \in Resources
           /\ Len(items) \in Nat
           /\ pc = "probe" => Current \notin Range(items)
           /\ pc \in {"create", "confirm", "use"} => Current \in Range(items)
<1> USE DEF IInv
<1>1. /\ Len(Plan) \in Nat /\ step \in 1..Len(Plan) /\ items \in Seq(Resources)
      /\ DOMAIN Plan = 1..Len(Plan) /\ Len(items) \in Nat /\ DOMAIN items = 1..Len(items)
    BY PlanAssumption DEF TypeOK
<1>2. Current \in Resources
    BY <1>1 DEF Current, Resources, Range
<1>3. ASSUME pc = "probe" PROVE Current \notin Range(items)
  <2> SUFFICES ASSUME NEW i \in 1..Len(items), Plan[step] = items[i] PROVE FALSE
    BY <1>1 DEF Range, Current
  <2>1. i < step /\ i \in 1..Len(Plan) /\ Plan[i] = Plan[step]
    BY <1>1, <1>3 DEF Position, Registered
  <2>2. QED
    BY <1>1, <2>1, PlanAssumption
<1>4. ASSUME pc \in {"create", "confirm", "use"} PROVE Current \in Range(items)
  <2>1. Len(items) = step
    BY <1>4 DEF Position
  <2>2. step \in 1..Len(items)
    BY <1>1, <2>1
  <2>3. items[step] = Plan[step]
    BY <2>2 DEF Registered
  <2>4. QED
    BY <1>1, <2>2, <2>3 DEF Range, Current
<1>5. QED
    BY <1>1, <1>2, <1>3, <1>4

LEMMA AdmitStep ==
    ASSUME IInv, Admit
    PROVE  IInv'
<1> USE CurrentFacts DEF IInv, Admit, serverVars
<1>1. CInv'
    BY ControllerSame DEF controlVars
<1>2. TypeOK'
    BY DEF TypeOK, Pcs
<1>3. Position'
    BY DEF TypeOK, Position, CleanupPcs, controlVars
<1>4. Registered'
    BY DEF TypeOK, Registered, Position, Ours
<1>5. Sorted'
    BY DEF Sorted, TypeOK
<1>6. Covered'
    BY DEF Covered, CleanupPcs, TypeOK, Ours, Item
<1>7. Verdict'
    BY DEF Verdict, TypeOK, Position
<1>8. QED
    BY <1>1, <1>2, <1>3, <1>4, <1>5, <1>6, <1>7

\* The intention is registered: the items stay a prefix of the plan.
LEMMA ProbeStep ==
    ASSUME IInv, Probe
    PROVE  IInv'
<1> USE CurrentFacts DEF IInv, Probe, serverVars
<1>1. /\ items \in Seq(Resources) /\ items' \in Seq(Resources)
      /\ Len(items') = Len(items) + 1 /\ items'[Len(items) + 1] = Current
      /\ \A i \in 1..Len(items) : items'[i] = items[i]
    BY AppendProperties DEF TypeOK
<1>2. Range(items') = Range(items) \cup {Current}
    BY <1>1 DEF Range
<1>3. Len(items) = step - 1 /\ step \in 1..Len(Plan) /\ Len(Plan) \in Nat
    BY PlanAssumption DEF Position, TypeOK
<1>4. CInv'
    BY ControllerSame DEF controlVars
<1>5. TypeOK'
    BY <1>1 DEF TypeOK, Pcs
<1>6. Position'
    BY <1>1, <1>3 DEF TypeOK, Position, CleanupPcs, controlVars
<1>7. Registered'
  <2>1. Len(items') <= Len(Plan)
    BY <1>1, <1>3
  <2>2. ASSUME NEW i \in 1..Len(items') PROVE items'[i] = Plan[i]
    <3>1. CASE i \in 1..Len(items)
      BY <1>1, <3>1 DEF Registered
    <3>2. CASE i = Len(items) + 1
      BY <1>1, <1>3, <3>2 DEF Current
    <3>3. QED
      BY <1>1, <3>1, <3>2
  <2>3. QED
    BY <1>2, <2>1, <2>2 DEF Registered
<1>8. Sorted'
    BY <1>2 DEF Sorted
<1>9. Covered' /\ Verdict'
    BY DEF Covered, Verdict, CleanupPcs, TypeOK
<1>10. QED
    BY <1>4, <1>5, <1>6, <1>7, <1>8, <1>9

LEMMA CreateAckedStep ==
    ASSUME IInv, CreateAcked
    PROVE  IInv'
<1> USE CurrentFacts DEF IInv, CreateAcked, serverVars
<1>1. CInv'
    BY ControllerSame DEF controlVars
<1>2. TypeOK'
    BY DEF TypeOK, Pcs
<1>3. Position'
    BY DEF TypeOK, Position, CleanupPcs, controlVars
<1>4. Registered'
    BY DEF TypeOK, Registered, Position, Ours
<1>5. Sorted'
    BY DEF Sorted, TypeOK
<1>6. Covered'
    BY DEF Covered, CleanupPcs, TypeOK, Ours, Item
<1>7. Verdict'
    BY DEF Verdict, TypeOK, Position
<1>8. QED
    BY <1>1, <1>2, <1>3, <1>4, <1>5, <1>6, <1>7

LEMMA CreateUnackedStep ==
    ASSUME IInv, CreateUnacked
    PROVE  IInv'
<1> USE CurrentFacts DEF IInv, CreateUnacked, Throw, serverVars
<1>1. CInv'
    BY ControllerSame DEF controlVars
<1>2. TypeOK'
    BY DEF TypeOK, Pcs
<1>3. Position'
    BY DEF TypeOK, Position, CleanupPcs, controlVars
<1>4. Registered'
    BY DEF TypeOK, Registered, Position, Ours
<1>5. Sorted'
    BY DEF Sorted, TypeOK
<1>6. Covered'
    BY DEF Covered, CleanupPcs, TypeOK, Ours, Item
<1>7. Verdict'
    BY DEF Verdict, TypeOK, Position
<1>8. QED
    BY <1>1, <1>2, <1>3, <1>4, <1>5, <1>6, <1>7

LEMMA CreateKilledStep ==
    ASSUME IInv, CreateKilled
    PROVE  IInv'
<1> USE CurrentFacts DEF IInv, CreateKilled, Throw, serverVars
<1>1. CInv'
    BY ControllerSame DEF controlVars
<1>2. TypeOK'
    BY DEF TypeOK, Pcs
<1>3. Position'
    BY DEF TypeOK, Position, CleanupPcs, controlVars
<1>4. Registered'
    BY DEF TypeOK, Registered, Position, Ours
<1>5. Sorted'
    BY DEF Sorted, TypeOK
<1>6. Covered'
    BY DEF Covered, CleanupPcs, TypeOK, Ours, Item
<1>7. Verdict'
    BY DEF Verdict, TypeOK, Position
<1>8. QED
    BY <1>1, <1>2, <1>3, <1>4, <1>5, <1>6, <1>7

LEMMA ConfirmStep ==
    ASSUME IInv, Confirm
    PROVE  IInv'
<1> USE CurrentFacts DEF IInv, Confirm, serverVars
<1>1. CInv'
    BY ControllerSame DEF controlVars
<1>2. TypeOK'
    BY DEF TypeOK, Pcs
<1>3. Position'
    BY DEF TypeOK, Position, CleanupPcs, controlVars
<1>4. Registered'
    BY DEF TypeOK, Registered, Position, Ours
<1>5. Sorted'
    BY DEF Sorted, TypeOK
<1>6. Covered'
    BY DEF Covered, CleanupPcs, TypeOK, Ours, Item
<1>7. Verdict'
    BY DEF Verdict, TypeOK, Position
<1>8. QED
    BY <1>1, <1>2, <1>3, <1>4, <1>5, <1>6, <1>7

LEMMA UseStep ==
    ASSUME IInv, Use
    PROVE  IInv'
<1> USE CurrentFacts DEF IInv, Use, serverVars
<1>1. CInv'
    BY ControllerSame DEF controlVars
<1>2. TypeOK'
    BY DEF TypeOK, Pcs
<1>3. Position'
    BY DEF TypeOK, Position, CleanupPcs, controlVars
<1>4. Registered'
    BY DEF TypeOK, Registered, Position, Ours
<1>5. Sorted'
    BY DEF Sorted, TypeOK
<1>6. Covered'
    BY DEF Covered, CleanupPcs, TypeOK, Ours, Item
<1>7. Verdict'
    BY DEF Verdict, TypeOK, Position
<1>8. QED
    BY <1>1, <1>2, <1>3, <1>4, <1>5, <1>6, <1>7

LEMMA SqlGateStep ==
    ASSUME IInv, SqlGate
    PROVE  IInv'
<1> USE CurrentFacts DEF IInv, SqlGate, serverVars
<1>1. CInv'
    BY ControllerSame DEF controlVars
<1>2. TypeOK'
    BY DEF TypeOK, Pcs
<1>3. Position'
    BY DEF TypeOK, Position, CleanupPcs, controlVars
<1>4. Registered'
    BY DEF TypeOK, Registered, Position, Ours
<1>5. Sorted'
    BY DEF Sorted, TypeOK
<1>6. Covered'
    BY DEF Covered, CleanupPcs, TypeOK, Ours, Item
<1>7. Verdict'
    BY DEF Verdict, TypeOK, Position
<1>8. QED
    BY <1>1, <1>2, <1>3, <1>4, <1>5, <1>6, <1>7

LEMMA GoGateStep ==
    ASSUME IInv, GoGate
    PROVE  IInv'
<1> USE CurrentFacts DEF IInv, GoGate, serverVars
<1>1. CInv'
    BY ControllerSame DEF controlVars
<1>2. TypeOK'
    BY DEF TypeOK, Pcs
<1>3. Position'
    BY DEF TypeOK, Position, CleanupPcs, controlVars
<1>4. Registered'
    BY DEF TypeOK, Registered, Position, Ours
<1>5. Sorted'
    BY DEF Sorted, TypeOK
<1>6. Covered'
    BY DEF Covered, CleanupPcs, TypeOK, Ours, Item
<1>7. Verdict'
    BY DEF Verdict, TypeOK, Position
<1>8. QED
    BY <1>1, <1>2, <1>3, <1>4, <1>5, <1>6, <1>7

LEMMA OrphanCheckStep ==
    ASSUME IInv, OrphanCheck
    PROVE  IInv'
<1> USE CurrentFacts DEF IInv, OrphanCheck, serverVars
<1>1. CInv'
    BY ControllerSame DEF controlVars
<1>2. TypeOK'
    BY DEF TypeOK, Pcs
<1>3. Position'
    BY DEF TypeOK, Position, CleanupPcs, controlVars
<1>4. Registered'
    BY DEF TypeOK, Registered, Position, Ours
<1>5. Sorted'
    BY DEF Sorted, TypeOK
<1>6. Covered'
    BY DEF Covered, CleanupPcs, TypeOK, Ours, Item
<1>7. Verdict'
    BY DEF Verdict, TypeOK, Position
<1>8. QED
    BY <1>1, <1>2, <1>3, <1>4, <1>5, <1>6, <1>7

LEMMA ControllerClosedStep ==
    ASSUME IInv, ControllerClosed
    PROVE  IInv'
<1> USE CurrentFacts DEF IInv, ControllerClosed, serverVars
<1>1. CInv'
    BY ControllerSame DEF controlVars
<1>2. TypeOK'
    BY DEF TypeOK, Pcs
<1>3. Position'
    BY DEF TypeOK, Position, CleanupPcs, controlVars
<1>4. Registered'
    BY DEF TypeOK, Registered, Position, Ours
<1>5. Sorted'
    BY DEF Sorted, TypeOK
<1>6. Covered'
    BY DEF Covered, CleanupPcs, TypeOK, Ours, Item
<1>7. Verdict'
    BY DEF Verdict, TypeOK, Position
<1>8. QED
    BY <1>1, <1>2, <1>3, <1>4, <1>5, <1>6, <1>7

\* An exception ends the try block, and what was registered stays.
LEMMA FailsStep ==
    ASSUME IInv, NEW at \in TryPcs, Fails(at)
    PROVE  IInv'
<1> USE DEF IInv, Fails, Throw, TryPcs, serverVars
<1>1. CInv'
    BY ControllerSame DEF controlVars
<1>2. TypeOK'
    BY DEF TypeOK, Pcs
<1>3. Position'
    BY DEF TypeOK, Position, CleanupPcs, controlVars
<1>4. Registered' /\ Sorted'
    BY DEF Registered, Sorted
<1>5. Covered' /\ Verdict'
    BY DEF Covered, Verdict, CleanupPcs, Position
<1>6. QED
    BY <1>1, <1>2, <1>3, <1>4, <1>5

LEMMA ServeStep ==
    ASSUME IInv, Serve
    PROVE  IInv'
<1> USE DEF IInv, Serve
<1>1. CInv'
  <2>1. closer = "none" /\ ~closing
    BY DEF Position, CInv, CloseInv
  <2>2. ControllerTypeOK' /\ QueueAccounted'
    BY DEF CInv, ControllerTypeOK, QueueAccounted
  <2>3. ChainInv' /\ CloseInv'
    BY <2>1 DEF CInv, ChainInv, CloseInv, QuietAfterClose, Acting
  <2>4. QED
    BY <2>2, <2>3 DEF CInv
<1>2. TypeOK'
    BY DEF TypeOK, Pcs
<1>3. Position'
    BY DEF TypeOK, Position, CleanupPcs
<1>4. Registered' /\ Sorted'
    BY DEF Registered, Sorted
<1>5. Covered' /\ Verdict'
    BY DEF Covered, Verdict, CleanupPcs, Position
<1>6. QED
    BY <1>1, <1>2, <1>3, <1>4, <1>5

LEMMA CloseControllerStep ==
    ASSUME IInv, CloseController
    PROVE  IInv'
<1> USE DEF IInv, CloseController, runVars
<1>1. CInv'
    BY CloseBeginStep
<1>2. TypeOK' /\ Registered' /\ Sorted'
    BY DEF TypeOK, Registered, Sorted
<1>3. Position'
    BY DEF Position, CleanupPcs, CloseBegin
<1>4. Covered' /\ Verdict'
    BY DEF Covered, Verdict, CleanupPcs
<1>5. QED
    BY <1>1, <1>2, <1>3, <1>4

\* The sorted items are the items: nothing is forgotten, and the order of any
\* two of them puts a container first.
LEMMA OrderFacts ==
    ASSUME items \in Seq(Resources), NEW f \in CleanupOrder, NEW o,
           o = [i \in 1..Len(items) |-> items[f[i]]]
    PROVE  /\ o \in Seq(Resources) /\ Len(o) = Len(items)
           /\ Range(o) = Range(items)
           /\ \A i, j \in 1..Len(o) : i < j /\ o[j] \in Containers => o[i] \in Containers
<1> DEFINE n == Len(items)
<1>1. /\ n \in Nat /\ \A i \in 1..n : f[i] \in 1..n /\ items[i] \in Resources
      /\ \A i \in 1..n : \E j \in 1..n : f[j] = i
      /\ \A i, j \in 1..n : i < j => Precedes(f[i], f[j])
  <2>1. f \in Bijection(1..n, 1..n) /\ \A i, j \in 1..n : i < j => Precedes(f[i], f[j])
    BY Zenon DEF CleanupOrder
  <2>2. f \in [1..n -> 1..n] /\ \A i \in 1..n : \E j \in 1..n : f[j] = i
    BY <2>1, Zenon DEF Bijection, Injection, Surjection
  <2>3. n \in Nat /\ \A i \in 1..n : items[i] \in Resources
    OBVIOUS
  <2>4. QED
    BY <2>1, <2>2, <2>3
<1>2. o \in Seq(Resources) /\ Len(o) = n /\ \A i \in 1..n : o[i] = items[f[i]]
    BY <1>1
<1>3. Range(o) = Range(items)
  <2>1. ASSUME NEW x \in Range(o) PROVE x \in Range(items)
    BY <1>1, <1>2, <2>1 DEF Range
  <2>2. ASSUME NEW x \in Range(items) PROVE x \in Range(o)
    <3>1. PICK i \in 1..n : x = items[i]
      BY <2>2 DEF Range
    <3>2. PICK j \in 1..n : f[j] = i
      BY <1>1, <3>1
    <3>3. QED
      BY <1>2, <3>1, <3>2 DEF Range
  <2>3. QED
    BY <2>1, <2>2
<1>4. ASSUME NEW i \in 1..n, NEW j \in 1..n, i < j, o[j] \in Containers
      PROVE  o[i] \in Containers
    BY <1>1, <1>2, <1>4 DEF Precedes
<1>5. QED
    BY <1>2, <1>3, <1>4

LEMMA CloseSessionsStep ==
    ASSUME IInv, CloseSessions
    PROVE  IInv'
<1> USE DEF IInv, CloseSessions, serverVars
<1>1. PICK f \in CleanupOrder : ordered' = [i \in 1..Len(items) |-> items[f[i]]]
    OBVIOUS
<1>2. /\ ordered' \in Seq(Resources) /\ Range(ordered') = Range(items)
      /\ \A i, j \in 1..Len(ordered') :
            i < j /\ ordered'[j] \in Containers => ordered'[i] \in Containers
    BY <1>1, OrderFacts DEF TypeOK
<1>3. /\ failure' \in {failure, "SESSION_CLEANUP_FAILED"} /\ orphan' \in BOOLEAN
      /\ pc = "closeSessions" /\ pc' = "cleanup"
      /\ UNCHANGED <<step, items, acked, world, pendingCreates, budget, failures, status,
                     controlVars, running>>
    BY DEF TypeOK
<1>4. CInv'
    BY <1>3, ControllerSame
<1>5. TypeOK'
    BY <1>2, <1>3 DEF TypeOK, Pcs
<1>6. Position'
    BY <1>3 DEF Position, CleanupPcs, controlVars
<1>7. Registered' /\ Sorted'
    BY <1>2, <1>3 DEF Registered, Sorted
<1>8. Covered'
    BY <1>2, <1>3 DEF Covered, CleanupPcs, Registered, Ours
<1>9. Verdict'
    BY <1>3 DEF Verdict, Position
<1>10. QED
    BY <1>4, <1>5, <1>6, <1>7, <1>8, <1>9

\* The loop drops the item it has visited, and no other.
LEMMA NextItemFacts ==
    ASSUME IInv, ordered # <<>>
    PROVE  /\ Item \in Resources /\ Item \in Range(items) /\ Tail(ordered) \in Seq(Resources)
           /\ Range(Tail(ordered)) \subseteq Range(ordered)
           /\ Range(ordered) \subseteq Range(Tail(ordered)) \cup {Item}
           /\ \A i, j \in 1..Len(Tail(ordered)) :
                 i < j /\ Tail(ordered)[j] \in Containers => Tail(ordered)[i] \in Containers
           /\ Item \notin Containers => \A k \in Range(ordered) : k \notin Containers
<1> DEFINE o == ordered
           t == Tail(ordered)
<1>1. /\ o \in Seq(Resources) /\ Len(o) \in Nat /\ Len(o) > 0 /\ DOMAIN o = 1..Len(o)
      /\ t \in Seq(Resources) /\ Len(t) = Len(o) - 1 /\ DOMAIN t = 1..Len(t)
      /\ \A i \in 1..Len(t) : t[i] = o[i + 1]
      /\ Item = o[1] /\ Item \in Resources
    BY HeadTailProperties DEF IInv, TypeOK, Item
<1>2. Item \in Range(o)
    BY <1>1 DEF Range
<1>3. Range(t) \subseteq Range(o)
  <2> SUFFICES ASSUME NEW i \in 1..Len(t) PROVE t[i] \in Range(o)
    BY <1>1 DEF Range
  <2>1. i + 1 \in 1..Len(o) /\ t[i] = o[i + 1]
    BY <1>1
  <2>2. QED
    BY <1>1, <2>1 DEF Range
<1>4. Range(o) \subseteq Range(t) \cup {Item}
  <2> SUFFICES ASSUME NEW i \in 1..Len(o), i # 1 PROVE o[i] \in Range(t)
    BY <1>1 DEF Range
  <2>1. i - 1 \in 1..Len(t) /\ (i - 1) + 1 = i
    BY <1>1
  <2>2. t[i - 1] = o[i]
    BY <1>1, <2>1
  <2>3. QED
    BY <1>1, <2>1, <2>2 DEF Range
<1>5. ASSUME NEW i \in 1..Len(t), NEW j \in 1..Len(t), i < j, t[j] \in Containers
      PROVE  t[i] \in Containers
  <2>1. i + 1 \in 1..Len(o) /\ j + 1 \in 1..Len(o) /\ i + 1 < j + 1
        /\ t[i] = o[i + 1] /\ t[j] = o[j + 1]
    BY <1>1, <1>5
  <2>2. QED
    BY <1>5, <2>1 DEF IInv, Sorted
<1>6. ASSUME Item \notin Containers, NEW k \in Range(o) PROVE k \notin Containers
  <2>1. PICK j \in 1..Len(o) : k = o[j]
    BY <1>1, <1>6 DEF Range
  <2>2. QED
    BY <1>1, <1>6, <2>1 DEF IInv, Sorted
<1>7. Item \in Range(items)
    BY <1>2 DEF IInv, Sorted
<1>8. QED
    BY <1>1, <1>3, <1>4, <1>5, <1>6, <1>7

\* The loop goes on, with the item removed, absent or recorded.
LEMMA LoopStep ==
    ASSUME IInv, pc \in {"inspect", "remove", "verify"}, NextItem,
           UNCHANGED <<step, items, acked, pendingCreates, budget, failure, orphan, status,
                       serverVars>>,
           failures' \in {failures, failures \cup {Item}},
           world' \in {world, [world EXCEPT ![Item] = "absent"]},
           world'[Item] # "own" \/ Item \in failures'
    PROVE  IInv'
<1> USE NextItemFacts DEF IInv, NextItem, serverVars
<1>1. ordered # <<>>
    BY DEF Position
<1>2. /\ Item \in Resources /\ world' \in [Resources -> {"absent", "own", "late", "foreign", "forged"}]
      /\ \A k \in Resources : world'[k] = world[k] \/ world'[k] = "absent"
    BY <1>1 DEF TypeOK
<1>3. CInv'
    BY ControllerSame DEF controlVars
<1>4. TypeOK'
    BY <1>1, <1>2 DEF TypeOK, Pcs
<1>5. Position'
    BY DEF Position, CleanupPcs, controlVars
<1>6. Registered'
  <2>1. Range(items) \subseteq Resources
    BY DEF TypeOK, Range
  <2>2. QED
    BY <1>2, <2>1 DEF Registered, Ours
<1>7. Sorted'
    BY <1>1 DEF Sorted
<1>8. Covered'
    BY <1>1, <1>2 DEF Covered, CleanupPcs
<1>9. Verdict'
    BY <1>2 DEF Verdict, Position
<1>10. QED
    BY <1>3, <1>4, <1>5, <1>6, <1>7, <1>8, <1>9

LEMMA LoopSteps ==
    ASSUME IInv, ItemFails \/ InspectAbsent \/ RemoveUnacked \/ VerifyAbsent
    PROVE  IInv'
<1>1. CASE ItemFails
    BY <1>1, LoopStep DEF ItemFails
<1>2. CASE InspectAbsent
    BY <1>2, LoopStep DEF InspectAbsent
<1>3. CASE RemoveUnacked
    BY <1>3, LoopStep DEF RemoveUnacked
<1>4. CASE VerifyAbsent
    BY <1>4, LoopStep DEF VerifyAbsent
<1>5. QED
    BY <1>1, <1>2, <1>3, <1>4

LEMMA InspectStep ==
    ASSUME IInv, CleanupItem \/ InspectPresent
    PROVE  IInv'
<1> USE DEF IInv, CleanupItem, InspectPresent, serverVars
<1>1. CInv'
    BY ControllerSame DEF controlVars
<1>2. TypeOK' /\ Registered' /\ Sorted'
    BY DEF TypeOK, Registered, Sorted, Pcs
<1>3. Position'
    BY DEF Position, CleanupPcs, controlVars
<1>4. Covered'
  <2>1. CASE CleanupItem
    BY <2>1 DEF Covered, CleanupPcs
  <2>2. CASE InspectPresent
    <3>1. Item \in Range(items) /\ world[Item] # "forged"
      BY <2>2, NextItemFacts DEF Position, Registered
    <3>2. QED
      BY <2>2, <3>1 DEF Covered, CleanupPcs, Ours, Item
  <2>3. QED
    BY <2>1, <2>2
<1>5. Verdict'
    BY DEF Verdict, Position
<1>6. QED
    BY <1>1, <1>2, <1>3, <1>4, <1>5

LEMMA RemoveItemStep ==
    ASSUME IInv, RemoveItem
    PROVE  IInv'
<1> USE DEF IInv, RemoveItem, serverVars
<1>1. Item \in Resources /\ Item \in Range(items)
    BY NextItemFacts DEF Position
<1>2. /\ world' \in [Resources -> {"absent", "own", "late", "foreign", "forged"}]
      /\ \A k \in Resources : world'[k] = world[k] \/ world'[k] = "absent"
    BY <1>1 DEF TypeOK
<1>3. CInv'
    BY ControllerSame DEF controlVars
<1>4. TypeOK' /\ Sorted'
    BY <1>2 DEF TypeOK, Sorted, Pcs
<1>5. Position'
    BY DEF Position, CleanupPcs, controlVars
<1>6. Registered'
  <2>1. Range(items) \subseteq Resources
    BY DEF TypeOK, Range
  <2>2. QED
    BY <1>2, <2>1 DEF Registered, Ours
<1>7. Covered' /\ Verdict'
    BY <1>2 DEF Covered, Verdict, CleanupPcs, Position
<1>8. QED
    BY <1>3, <1>4, <1>5, <1>6, <1>7

LEMMA FinishStep ==
    ASSUME IInv, Finish
    PROVE  IInv'
<1> USE DEF IInv, Finish, serverVars
<1>1. CInv'
    BY ControllerSame DEF controlVars
<1>2. TypeOK'
    BY DEF TypeOK, Pcs
<1>3. Registered' /\ Sorted'
    BY DEF Registered, Sorted
<1>4. Position'
    BY DEF Position, CleanupPcs, controlVars
<1>5. Covered'
    BY DEF Covered, CleanupPcs
<1>6. Verdict'
    BY DEF Verdict, Position, TypeOK
<1>7. QED
    BY <1>1, <1>2, <1>3, <1>4, <1>5, <1>6

\* The daemon and its other users.
LEMMA EnvironmentSteps ==
    ASSUME IInv, Environment
    PROVE  IInv'
<1> USE DEF IInv, serverVars
<1>1. CInv' /\ UNCHANGED <<pc, step, items, acked, failure, orphan, ordered, failures, status,
                           closer>>
    BY ControllerSame DEF Environment, Expire, LateCreate, ForeignCreate, controlVars
<1>2. Position' /\ Sorted'
    BY <1>1 DEF Position, Sorted
<1>3. CASE Expire
    BY <1>1, <1>2, <1>3 DEF Expire, TypeOK, Registered, Covered, Verdict, Item
<1>4. ASSUME NEW k \in Resources, LateCreate(k) PROVE IInv'
  <2>1. /\ world' \in [Resources -> {"absent", "own", "late", "foreign", "forged"}]
        /\ \A x \in Resources : \/ world'[x] = world[x]
                                \/ x = k /\ world[x] = "absent" /\ world'[x] = "late"
        /\ k \in pendingCreates /\ pendingCreates' = pendingCreates \ {k}
        /\ UNCHANGED <<budget, running>>
    BY <1>4 DEF LateCreate, TypeOK
  <2>2. TypeOK'
    BY <1>1, <2>1 DEF TypeOK
  <2>3. Registered'
    <3>1. Range(items) \subseteq Resources
      BY DEF TypeOK, Range
    <3>2. QED
      BY <1>1, <2>1, <3>1 DEF Registered, Ours
  <2>4. Covered'
    <3>1. pc = "remove" => Item \in Resources
      BY NextItemFacts DEF Position
    <3>2. QED
      BY <1>1, <2>1, <3>1 DEF Covered, Item, Ours
  <2>5. Verdict'
    BY <1>1, <2>1 DEF Verdict
  <2>6. QED
    BY <1>1, <1>2, <2>2, <2>3, <2>4, <2>5
<1>5. ASSUME NEW k \in Resources, ForeignCreate(k) PROVE IInv'
  <2>1. /\ world' \in [Resources -> {"absent", "own", "late", "foreign", "forged"}]
        /\ \A x \in Resources : \/ world'[x] = world[x]
                                \/ x = k /\ world[x] = "absent" /\ world'[x] = "foreign"
        /\ UNCHANGED <<budget, running, pendingCreates>>
    BY <1>5 DEF ForeignCreate, TypeOK
  <2>2. TypeOK'
    BY <1>1, <2>1 DEF TypeOK
  <2>3. Registered'
    <3>1. Range(items) \subseteq Resources
      BY DEF TypeOK, Range
    <3>2. QED
      BY <1>1, <2>1, <3>1 DEF Registered, Ours
  <2>4. Covered'
    <3>1. pc = "remove" => Item \in Resources
      BY NextItemFacts DEF Position
    <3>2. QED
      BY <1>1, <2>1, <3>1 DEF Covered, Item, Ours
  <2>5. Verdict'
    BY <1>1, <2>1 DEF Verdict
  <2>6. QED
    BY <1>1, <1>2, <2>2, <2>3, <2>4, <2>5
<1>6. QED
    BY <1>3, <1>4, <1>5 DEF Environment

-----------------------------------------------------------------------------
(* The theorems *)

LEMMA NextIInv == IInv /\ [Next]_vars => IInv'
<1> SUFFICES ASSUME IInv, [Next]_vars PROVE IInv'
    OBVIOUS
<1>1. CASE Try
    BY <1>1, AdmitStep, ProbeStep, CreateAckedStep, CreateUnackedStep, CreateKilledStep,
       ConfirmStep, UseStep, ServeStep, SqlGateStep, GoGateStep, OrphanCheckStep, FailsStep
       DEF Try
<1>2. CASE Finally
    BY <1>2, CloseControllerStep, ControllerClosedStep, CloseSessionsStep, InspectStep,
       LoopSteps, RemoveItemStep, FinishStep DEF Finally
<1>3. CASE Controller
    BY <1>3, ControllerSteps
<1>4. CASE Environment
    BY <1>4, EnvironmentSteps
<1>5. CASE UNCHANGED vars
  <2>1. CInv' /\ UNCHANGED <<runVars, closer, running>>
    BY <1>5, ControllerSame DEF IInv, vars, serverVars, controlVars, runVars
  <2>2. QED
    BY <2>1, ControllerOnly DEF IInv, TypeOK
<1>6. QED
    BY <1>1, <1>2, <1>3, <1>4, <1>5 DEF Next

\* The inductive invariant of a live run and its controller, for any number of
\* requests, any queue bound and any plan.
THEOREM LiveRunInvariant == Spec => []IInv
    BY InitIInv, NextIInv, PTL DEF Spec

\* A PASS of runLivePg17 leaves nothing it created, and nothing of it can
\* still be created.
THEOREM LiveRunPassLeavesNothing == Spec => []PassLeavesNothing
<1>1. IInv => PassLeavesNothing
  <2> SUFFICES ASSUME IInv, status = "PASS"
               PROVE  pendingCreates = {} /\ \A k \in Resources : world[k] \notin Ours
    BY DEF PassLeavesNothing
  <2>1. pc = "done" /\ failure = "none" /\ failures = {} /\ ordered = <<>>
    BY DEF IInv, Verdict, Position
  <2>2. pendingCreates = {} /\ \A k \in Resources : world[k] # "late"
    BY <2>1 DEF IInv, Verdict
  <2>3. \A k \in Resources : world[k] # "own"
    BY <2>1 DEF IInv, Covered, Range
  <2>4. QED
    BY <2>2, <2>3 DEF Ours
<1>2. QED
    BY LiveRunInvariant, <1>1, PTL

\* OwnedResources.cleanup covers the creates whose answer was lost, tries every
\* item whatever fails before it, removes containers first and alone; the chain of
\* the controller is bounded, exact, serial, and quiet after close().
THEOREM LiveRunCleanup == Spec => []CleanupInv
<1>1. IInv => CleanupInv
  <2> SUFFICES ASSUME IInv PROVE CleanupInv
    OBVIOUS
  <2>1. TypeOK /\ ControllerInv
    BY ControllerPromise DEF IInv
  <2>2. CleanupCoversLostAck
    BY DEF IInv, Covered, Verdict, Position, CleanupCoversLostAck, Range
  <2>3. ContainersFirst
    <3> SUFFICES ASSUME pc = "remove", Item \notin Containers, NEW k \in Containers,
                        world[k] = "own"
                 PROVE  k \in failures
      BY DEF ContainersFirst
    <3>1. k \in Resources
      BY PlanAssumption
    <3>2. k \notin Range(ordered)
      BY NextItemFacts DEF IInv, Position
    <3>3. QED
      BY <3>1, <3>2 DEF IInv, Covered, CleanupPcs
  <2>4. CleanupAlone
    BY DEF IInv, Position, CleanupPcs, CInv, CloseInv, QuietAfterClose, CleanupAlone, Acting
  <2>5. QED
    BY <2>1, <2>2, <2>3, <2>4 DEF CleanupInv
<1>2. QED
    BY LiveRunInvariant, <1>1, PTL

\* No step of a run removes or replaces what another owner created under one
\* of its names: inspect compares the labels before docker rm.
THEOREM LiveRunForeignUntouched == Spec => ForeignUntouched
<1>1. IInv /\ [Next]_vars =>
        [\A k \in Resources : world[k] \in {"foreign", "forged"} => world'[k] = world[k]]_vars
  <2> SUFFICES ASSUME IInv, Next, NEW k \in Resources, world[k] \in {"foreign", "forged"}
               PROVE  world'[k] = world[k]
    OBVIOUS
  <2>1. world \in [Resources -> {"absent", "own", "late", "foreign", "forged"}]
    BY DEF IInv, TypeOK
  <2>2. CASE Try
    BY <2>1, <2>2, CurrentFacts DEF Try, Admit, Probe, CreateAcked, CreateUnacked, CreateKilled,
       Confirm, Use, Serve, SqlGate, GoGate, OrphanCheck, Fails
  <2>3. CASE RemoveItem \/ RemoveUnacked
    <3>1. Item \in Resources /\ world[Item] \in Ours
      BY <2>3, NextItemFacts DEF IInv, Position, Covered, RemoveItem, RemoveUnacked
    <3>2. QED
      BY <2>1, <2>3, <3>1 DEF RemoveItem, RemoveUnacked, Ours
  <2>4. CASE Finally /\ ~RemoveItem /\ ~RemoveUnacked
    BY <2>4 DEF Finally, CloseController, ControllerClosed, CloseSessions, CleanupItem,
       InspectPresent, InspectAbsent, VerifyAbsent, ItemFails, Finish, runVars
  <2>5. CASE Controller
    BY <2>5 DEF Controller, runVars
  <2>6. CASE Environment
    BY <2>1, <2>6 DEF Environment, Expire, LateCreate, ForeignCreate
  <2>7. QED
    BY <2>2, <2>3, <2>4, <2>5, <2>6 DEF Next
<1>2. QED
    BY LiveRunInvariant, <1>1, PTL DEF Spec, ForeignUntouched

-----------------------------------------------------------------------------
(* The fixture container program, the other user of the controller *)

\* The try block before there is a controller.
BeforeListen == {"admit", "initdb", "unlink", "readyPrimary", "readyNegative", "bootstrap",
                 "readyApp", "listen"}
\* The loop over the servers in the finally block.
Stops == {"stop", "stopWait", "stopListener"}

\* Where the program is: its controller and its servers.
FPosition ==
    /\ pc \in BeforeListen => closer = "none"
    /\ pc \in {"sql", "go", "goWait", "goReap", "verify"} => closer = "open"
    /\ pc \in {"closeAll", "done"} \cup Stops => closer \in {"none", "closed"}
    /\ pc = "admit" => known["primary"] = "none"
    /\ pc \in {"admit", "initdb"} => known["negative"] = "none"
    /\ pc \in (BeforeListen \ {"admit", "initdb"})
                \cup {"sql", "go", "goWait", "goReap", "verify"} =>
          \A k \in Keys : known[k] # "none"
    /\ pc \in {"stopWait", "stopListener"} => stopping # <<>>
    /\ pc = "stopListener" => known[Head(stopping)] = "clean"
    /\ pc = "done" => stopping = <<>>
    /\ pc # "done" => cleanup = "none" /\ receipt = "none"

\* What is known of a postmaster is true of its process.
Servers ==
    /\ ~older
    /\ \A k \in Keys : /\ known[k] = "none" <=> proc[k] = "none"
                       /\ known[k] = "clean" => proc[k] = "clean"

\* The evidence collected so far, and the Go processes it stands on.
Gates ==
    /\ pc \in {"listen", "sql", "go", "goWait", "goReap", "verify"} => "bootstrap" \in evidence
    /\ pc \in {"go", "goWait", "goReap", "verify"} => "sql" \in evidence
    /\ pc = "verify" => "go" \in evidence
    /\ pc \in BeforeListen \cup {"sql", "go", "goWait"} => package < Packages
    /\ pc \in BeforeListen \cup {"sql", "go", "verify"} => children = {}
    /\ pc \in FinallyPcs /\ failure = "none" =>
          /\ evidence = Evidence /\ children = {}
          /\ \A k \in Keys : known[k] # "none"
    /\ pc \notin FinallyPcs => failure = "none"

\* Clients: one that may be left is marked.
Clients ==
    /\ client = "stray" => orphan
    /\ pc \in Stops \cup {"done"} => client # "session"

\* The loop over the servers: what it has passed is stopped, or it has failed.
Stopped ==
    pc \in Stops =>
       \A k \in Keys :
          /\ Alive(k) => k \in Range(stopping) \/ failure = "postmaster"
          /\ failure = "none" => k \in Range(stopping) \/ proc[k] = "clean"

\* The inductive invariant of runFixtureContainer and its controller.
FInv ==
    /\ ContainerTypeOK /\ CInv /\ FPosition /\ Servers /\ Gates /\ Clients /\ Stopped
    /\ StoppedIsTrue /\ ReceiptIsTrue

LEMMA ContainerInitInv == ContainerInit => FInv
<1> SUFFICES ASSUME ContainerInit PROVE FInv
    OBVIOUS
<1> USE PackagesAssumption
<1> USE DEF ContainerInit
<1>1. ControllerInit("none")
    OBVIOUS
<1>2. CInv /\ closer = "none"
  <2>1. /\ closing \in BOOLEAN /\ closer = "none" /\ queue = <<>> /\ pending = 0
        /\ awaited = {}
    BY <1>1, Zenon DEF ControllerInit
  <2>2. /\ want \in [ControlRequests -> {"none", "start", "stop"}]
        /\ ctl \in [ControlRequests -> CtlPcs]
    BY <1>1 DEF ControllerInit, CtlPcs
  <2>3. ControllerTypeOK
    BY <2>1, <2>2, MaxPendingAssumption DEF ControllerTypeOK
  <2>4. QueueAccounted
    BY <1>1, MaxPendingAssumption DEF ControllerInit, QueueAccounted, Range
  <2>5. ChainInv /\ CloseInv
    BY <1>1 DEF ControllerInit, ChainInv, CloseInv, QuietAfterClose, Acting
  <2>6. QED
    BY <2>1, <2>3, <2>4, <2>5 DEF CInv
<1>3. ContainerTypeOK
  <2>1. /\ pc = "admit" /\ evidence = {} /\ failure = "none" /\ orphan = FALSE /\ older = FALSE
        /\ broken = FALSE /\ client = "none" /\ children = {} /\ package = 0 /\ stopping = <<>>
        /\ cleanup = "none" /\ receipt = "none"
    BY Zenon
  <2>2. /\ proc \in [Keys -> {"none", "up", "asked", "killed", "clean", "crashed"}]
        /\ known \in [Keys -> {"none", "running", "failing", "clean", "unclean"}]
    OBVIOUS
  <2>3. package \in 0..Packages
    BY <2>1
  <2>4. QED
    BY <2>1, <2>2, <2>3 DEF ContainerTypeOK, ContainerTryPcs, StopOrders
<1>4. FPosition /\ Servers /\ Clients /\ Stopped
    BY <1>2 DEF FPosition, Servers, Clients, Stopped, BeforeListen, Stops, Keys
<1>5. Gates
    BY DEF Gates, BeforeListen, FinallyPcs
<1>6. StoppedIsTrue /\ ReceiptIsTrue
    BY <1>1 DEF StoppedIsTrue, ReceiptIsTrue, ControllerInit
<1>7. QED
    BY <1>2, <1>3, <1>4, <1>5, <1>6 DEF FInv

\* The steps of the try block from one await to the next.
LEMMA ContainerProgress ==
    ASSUME FInv, AdmitContainer \/ Unlink \/ PrimaryReady \/
           NegativeReady \/ BootstrapRoles \/ ApplicationReady \/
           ContainerSqlGate \/ VerifyFiles \/ ContainerControlClosed
    PROVE  FInv'
<1> USE DEF FInv, AdmitContainer, Unlink, PrimaryReady, NegativeReady,
   BootstrapRoles, ApplicationReady, ContainerSqlGate, VerifyFiles,
   ContainerControlClosed, Goto, procVars, goVars,
   endVars, controlVars
<1>1. CInv' /\ UNCHANGED controlVars
    BY ControllerSame DEF controlVars
<1>2. ContainerTypeOK'
  <2>1. pc' \in ContainerTryPcs \cup FinallyPcs
    BY DEF ContainerTryPcs, FinallyPcs
  <2>2. evidence' \subseteq Evidence
    BY DEF ContainerTypeOK, Evidence
  <2>3. UNCHANGED <<failure, orphan, older, broken, proc, known, client, children, package,
                    stopping, cleanup, receipt>>
    OBVIOUS
  <2>4. ContainerTypeOK
    OBVIOUS
  <2>5. QED
    BY ONLY <2>1, <2>2, <2>3, <2>4 DEF ContainerTypeOK
<1>3. FPosition'
    BY <1>1 DEF FPosition, ContainerTypeOK, BeforeListen, Stops, Keys,
       controlVars
<1>4. Servers' /\ Gates'
  <2>1. Servers'
    BY DEF Servers
  <2>2. Gates'
    BY ZenonT(60) DEF Gates, FPosition, BeforeListen, Stops, ContainerTypeOK, FinallyPcs,
       Evidence
  <2>3. QED
    BY <2>1, <2>2
<1>5. Clients' /\ Stopped'
    BY <1>1 DEF Clients, Stopped, FPosition, Servers, Stops, Alive, Keys,
       ContainerTypeOK
<1>6. StoppedIsTrue'
    BY <1>1 DEF StoppedIsTrue, Alive, ContainerTypeOK, Keys,
       controlVars
<1>7. ReceiptIsTrue'
    BY <1>1 DEF ReceiptIsTrue, FPosition, Alive, Keys,
       ContainerTypeOK
<1>8. QED
    BY <1>1, <1>2, <1>3, <1>4, <1>5, <1>6, <1>7

\* The ways into the finally block.
LEMMA ContainerThrow ==
    ASSUME FInv, TryFails \/ GoRefused \/ GoFallback \/
           GoReaped
    PROVE  FInv'
<1> USE DEF FInv, TryFails, GoRefused, GoFallback, GoReaped,
   ContainerThrows, ContainerTryPcs, procVars, goVars, endVars,
   controlVars
<1>1. CInv' /\ UNCHANGED controlVars
    BY ControllerSame DEF controlVars
<1>2. ContainerTypeOK'
  <2>1. /\ pc' \in FinallyPcs \cup {"goReap"} /\ failure' \in {failure, "execution"}
        /\ broken' \in {broken, FALSE}
    BY DEF FinallyPcs
  <2>2. UNCHANGED <<evidence, orphan, older, proc, known, client, children, package, stopping,
                    cleanup, receipt>>
    OBVIOUS
  <2>3. ContainerTypeOK
    OBVIOUS
  <2>4. broken' \in BOOLEAN
    BY ONLY <2>1, <2>3, Zenon DEF ContainerTypeOK
  <2>5. QED
    BY ONLY <2>1, <2>2, <2>3, <2>4 DEF ContainerTypeOK
<1>3. FPosition'
    BY <1>1 DEF FPosition, ContainerTypeOK, BeforeListen, Stops, Keys,
       controlVars
<1>4. Servers' /\ Gates'
    BY <1>1 DEF Servers, Gates, FPosition, ContainerTypeOK, BeforeListen, Stops,
       FinallyPcs, Keys, Evidence, Alive, Finished
<1>5. Clients' /\ Stopped'
    BY <1>1 DEF Clients, Stopped, FPosition, Servers, Stops, Alive, Keys,
       ContainerTypeOK
<1>6. StoppedIsTrue'
    BY <1>1 DEF StoppedIsTrue, Alive, ContainerTypeOK, Keys,
       controlVars
<1>7. ReceiptIsTrue'
    BY <1>1 DEF ReceiptIsTrue, FPosition, Alive, Keys,
       ContainerTypeOK
<1>8. QED
    BY <1>1, <1>2, <1>3, <1>4, <1>5, <1>6, <1>7

\* A new postmaster is started only where none is.
LEMMA LaunchFacts ==
    ASSUME FInv, NEW k \in Keys, proc[k] \in {"none", "clean"}, Launch(k)
    PROVE  /\ older' = FALSE
           /\ proc' \in [Keys -> {"none", "up", "asked", "killed", "clean", "crashed"}]
           /\ known' \in [Keys -> {"none", "running", "failing", "clean", "unclean"}]
           /\ known'[k] \in {"running", "failing"} /\ proc'[k] \in {"up", "crashed"}
           /\ \A x \in Keys : x # k => known'[x] = known[x] /\ proc'[x] = proc[x]
<1>1. ~Alive(k) /\ older = FALSE
    BY DEF Alive, FInv, Servers, ContainerTypeOK
<1>2. older' = FALSE
    BY <1>1, Zenon DEF Launch
<1>3. QED
    BY <1>2 DEF Launch, FInv, ContainerTypeOK

LEMMA ContainerStartServer ==
    ASSUME FInv, StartServer
    PROVE  FInv'
<1> DEFINE k == IF known["primary"] = "none" THEN "primary" ELSE "negative"
<1>1. /\ pc = "initdb" /\ Launch(k) /\ pc' = IF k = "primary" THEN "initdb" ELSE "unlink"
      /\ UNCHANGED <<evidence, failure, orphan, client, children, broken, package, stopping,
                     cleanup, receipt, controlVars>>
    BY DEF StartServer, goVars, endVars, controlVars
<1>2. k \in Keys /\ known[k] = "none" /\ proc[k] = "none" /\ closer = "none"
  <2>1. closer = "none" /\ known["negative"] = "none"
    BY <1>1 DEF FInv, FPosition, BeforeListen
  <2>2. k \in Keys /\ known[k] = "none"
    BY <2>1 DEF Keys
  <2>3. QED
    BY <2>1, <2>2 DEF FInv, Servers
<1>3. /\ older' = FALSE
      /\ proc' \in [Keys -> {"none", "up", "asked", "killed", "clean", "crashed"}]
      /\ known' \in [Keys -> {"none", "running", "failing", "clean", "unclean"}]
      /\ known'[k] \in {"running", "failing"} /\ proc'[k] \in {"up", "crashed"}
      /\ \A x \in Keys : x # k => known'[x] = known[x] /\ proc'[x] = proc[x]
    BY <1>1, <1>2, LaunchFacts
<1>4. CInv'
    BY <1>1, ControllerSame DEF FInv
<1>5. ContainerTypeOK'
    BY <1>1, <1>3 DEF FInv, ContainerTypeOK, ContainerTryPcs
<1>6. FPosition'
    BY <1>1, <1>2, <1>3 DEF FInv, FPosition, BeforeListen, Stops, Keys, controlVars
<1>7. Servers'
    BY <1>1, <1>2, <1>3 DEF FInv, Servers, Keys
<1>8. Gates' /\ Clients' /\ Stopped'
    BY <1>1, <1>2 DEF FInv, Gates, Clients, Stopped, BeforeListen, Stops, FinallyPcs
<1>9. StoppedIsTrue'
    BY <1>1, <1>2 DEF FInv, CInv, CloseInv, StoppedIsTrue, controlVars
<1>10. ReceiptIsTrue'
    BY <1>1, <1>2 DEF FInv, FPosition, ReceiptIsTrue
<1>11. QED
    BY <1>4, <1>5, <1>6, <1>7, <1>8, <1>9, <1>10 DEF FInv

\* The controller listens.
LEMMA ContainerListen ==
    ASSUME FInv, Listen
    PROVE  FInv'
<1> USE DEF FInv, Listen, Goto, procVars, goVars, endVars
<1>1. closer = "none" /\ ~closing /\ \A r \in ControlRequests : ctl[r] = "none"
    BY DEF FPosition, BeforeListen, CInv, CloseInv
<1>2. CInv'
  <2>1. ControllerTypeOK' /\ QueueAccounted'
    BY DEF CInv, ControllerTypeOK, QueueAccounted
  <2>2. ChainInv' /\ CloseInv'
    BY <1>1 DEF CInv, ChainInv, CloseInv, QuietAfterClose, Acting
  <2>3. QED
    BY <2>1, <2>2 DEF CInv
<1>3. ContainerTypeOK'
    BY DEF ContainerTypeOK, ContainerTryPcs
<1>4. FPosition'
    BY DEF FPosition, BeforeListen, Stops, Keys
<1>5. Servers' /\ Gates' /\ Clients' /\ Stopped'
    BY DEF Servers, Gates, Clients, Stopped, BeforeListen, Stops, FinallyPcs
<1>6. StoppedIsTrue' /\ ReceiptIsTrue'
    BY <1>1 DEF FPosition, StoppedIsTrue, ReceiptIsTrue
<1>7. QED
    BY <1>2, <1>3, <1>4, <1>5, <1>6

LEMMA ContainerGoSpawn ==
    ASSUME FInv, GoSpawn
    PROVE  FInv'
<1> USE DEF FInv, GoSpawn, procVars, goVars, endVars,
   controlVars
<1>1. CInv' /\ UNCHANGED controlVars
    BY ControllerSame DEF controlVars
<1>2. children' \subseteq GoChildren /\ pc' \in {"goWait", "goReap"}

    BY DEF GoChildren
<1>3. ContainerTypeOK'
    BY <1>1, <1>2 DEF ContainerTypeOK, ContainerTryPcs, FinallyPcs,
       Evidence, GoChildren
<1>4. FPosition'
    BY <1>1 DEF FPosition, ContainerTypeOK, BeforeListen, Stops, Keys,
       controlVars
<1>5. Servers' /\ Gates'
    BY <1>1 DEF Servers, Gates, FPosition, ContainerTypeOK, BeforeListen, Stops,
       FinallyPcs, Keys, Evidence, Alive, Finished
<1>6. Clients' /\ Stopped'
    BY <1>1 DEF Clients, Stopped, FPosition, Servers, Stops, Alive, Keys,
       ContainerTypeOK
<1>7. StoppedIsTrue'
    BY <1>1 DEF StoppedIsTrue, Alive, ContainerTypeOK, Keys,
       controlVars
<1>8. ReceiptIsTrue'
    BY <1>1 DEF ReceiptIsTrue, FPosition, Alive, Keys,
       ContainerTypeOK
<1>9. QED
    BY <1>1, <1>2, <1>3, <1>4, <1>5, <1>6, <1>7, <1>8

\* A package has passed: the next one, or the last checks.
LEMMA ContainerGoPasses ==
    ASSUME FInv, GoPasses
    PROVE  FInv'
<1> USE PackagesAssumption
<1> USE DEF FInv, GoPasses, Accepted, ContainerThrows, procVars,
   goVars, endVars, controlVars
<1>1. CInv' /\ UNCHANGED controlVars
    BY ControllerSame DEF controlVars
<1>2. package' \in 0..Packages /\ (package + 1 < Packages => package' < Packages)
    BY DEF Gates, ContainerTypeOK
<1>3. ContainerTypeOK'
    BY <1>1, <1>2, ZenonT(60) DEF ContainerTypeOK, ContainerTryPcs, FinallyPcs,
       Evidence, GoChildren
<1>4. FPosition'
    BY <1>1 DEF FPosition, ContainerTypeOK, BeforeListen, Stops, Keys,
       controlVars
<1>5. Servers' /\ Gates'
    BY <1>1, <1>2 DEF Servers, Gates, FPosition, ContainerTypeOK, BeforeListen, Stops,
       FinallyPcs, Keys, Evidence, Alive, Finished
<1>6. Clients' /\ Stopped'
    BY <1>1 DEF Clients, Stopped, FPosition, Servers, Stops, Alive, Keys,
       ContainerTypeOK
<1>7. StoppedIsTrue'
    BY <1>1 DEF StoppedIsTrue, Alive, ContainerTypeOK, Keys,
       controlVars
<1>8. ReceiptIsTrue'
    BY <1>1 DEF ReceiptIsTrue, FPosition, Alive, Keys,
       ContainerTypeOK
<1>9. QED
    BY <1>1, <1>2, <1>3, <1>4, <1>5, <1>6, <1>7, <1>8

\* The keys of the map of servers.
LEMMA OneSeq ==
    ASSUME NEW S, NEW s \in Seq(S), Len(s) = 1
    PROVE  s = <<s[1]>>
    OBVIOUS

LEMMA TwoSeq ==
    ASSUME NEW S, NEW s \in Seq(S), Len(s) = 2
    PROVE  s = <<s[1], s[2]>>
    OBVIOUS

LEMMA OneKey ==
    ASSUME NEW S, NEW x \in S
    PROVE  /\ Head(<<x>>) = x /\ Tail(<<x>>) = <<>>
           /\ Range(<<x>>) = {x} /\ <<x>> \in Seq(S) /\ Len(<<x>>) = 1
<1>1. <<x>> \in Seq(S) /\ Len(<<x>>) = 1 /\ <<x>>[1] = x /\ Head(<<x>>) = x
    OBVIOUS
<1>2. Tail(<<x>>) = <<>>
    BY <1>1, HeadTailProperties
<1>3. Range(<<x>>) = {x}
    BY <1>1 DEF Range
<1>4. QED
    BY <1>1, <1>2, <1>3

LEMMA TwoKeys ==
    ASSUME NEW S, NEW x \in S, NEW y \in S
    PROVE  /\ Head(<<x, y>>) = x /\ Tail(<<x, y>>) = <<y>>
           /\ Range(<<x, y>>) = {x, y} /\ <<x>> \o <<y>> = <<x, y>>
<1> DEFINE s == <<x, y>>
           t == <<y>>
           u == <<x>>
<1>1. s \in Seq(S) /\ Len(s) = 2 /\ s[1] = x /\ s[2] = y /\ Head(s) = x
    OBVIOUS
<1>2. t \in Seq(S) /\ Len(t) = 1 /\ t[1] = y /\ u \in Seq(S) /\ Len(u) = 1 /\ u[1] = x
    OBVIOUS
<1> HIDE DEF s, t, u
<1>3. Tail(s) = t
  <2>1. s # <<>>
    BY <1>1, EmptySeq
  <2>2. /\ Tail(s) \in Seq(S) /\ Len(Tail(s)) = Len(s) - 1
        /\ \A i \in 1..Len(Tail(s)) : Tail(s)[i] = s[i + 1]
    BY <1>1, <2>1, HeadTailProperties
  <2>3. Len(Tail(s)) = 1 /\ Tail(s)[1] = y
    BY <1>1, <2>2
  <2>4. QED
    BY <2>2, <2>3, OneSeq DEF t
<1>4. Range(s) = {x, y}
    BY <1>1 DEF Range
<1>5. u \o t = s
  <2>1. /\ u \o t \in Seq(S) /\ Len(u \o t) = Len(u) + Len(t)
        /\ \A i \in 1..Len(u) + Len(t) :
              (u \o t)[i] = IF i <= Len(u) THEN u[i] ELSE t[i - Len(u)]
    BY <1>2, ConcatProperties
  <2>2. Len(u \o t) = 2 /\ (u \o t)[1] = x /\ (u \o t)[2] = y
    BY <1>2, <2>1
  <2>3. QED
    BY <2>1, <2>2, TwoSeq DEF s
<1>6. QED
    BY <1>1, <1>3, <1>4, <1>5 DEF s, t, u

LEMMA BothKeys ==
    /\ Head(<<"primary", "negative">>) = "primary"
    /\ Tail(<<"primary", "negative">>) = <<"negative">>
    /\ Range(<<"primary", "negative">>) = Keys
    /\ <<"primary">> \o <<"negative">> = <<"primary", "negative">>
<1>1. "primary" \in Keys /\ "negative" \in Keys
    BY DEF Keys
<1>2. QED
    BY <1>1, TwoKeys, Zenon DEF Keys

LEMMA StartedFacts ==
    ASSUME NEW s, s = Started("primary") \o Started("negative")
    PROVE  /\ s \in StopOrders
           /\ \A k \in Keys : known[k] # "none" => k \in Range(s)
<1> USE DEF Keys
<1>1. \A x \in Keys : <<>> \o <<x>> = <<x>> /\ <<x>> \o <<>> = <<x>>
    BY OneKey, ConcatEmptySeq
<1>2. <<>> \o <<>> = <<>>
    BY ConcatEmptySeq, EmptySeq
<1>3. CASE known["primary"] = "none" /\ known["negative"] = "none"
  <2>1. s = <<>>
    BY <1>2, <1>3, Zenon DEF Started
  <2>2. QED
    BY <1>3, <2>1 DEF StopOrders
<1>4. CASE known["primary"] # "none" /\ known["negative"] = "none"
  <2>1. s = <<"primary">>
    BY <1>1, <1>4, Zenon DEF Started
  <2>2. QED
    BY <1>4, <2>1, OneKey, Zenon DEF StopOrders
<1>5. CASE known["primary"] = "none" /\ known["negative"] # "none"
  <2>1. s = <<"negative">>
    BY <1>1, <1>5, Zenon DEF Started
  <2>2. QED
    BY <1>5, <2>1, OneKey, Zenon DEF StopOrders
<1>6. CASE known["primary"] # "none" /\ known["negative"] # "none"
  <2>1. s = <<"primary">> \o <<"negative">>
    BY <1>6, Zenon DEF Started
  <2>2. s = <<"primary", "negative">> /\ Range(<<"primary", "negative">>) = Keys
    BY <2>1, BothKeys, Zenon
  <2>3. QED
    BY <2>2, Zenon DEF StopOrders
<1>7. QED
    BY <1>3, <1>4, <1>5, <1>6

\* Every server that was started will be stopped.
LEMMA ContainerCloseAll ==
    ASSUME FInv, CloseAll
    PROVE  FInv'
<1> USE DEF FInv, CloseAll, LoseClient, procVars, goVars,
   endVars, controlVars
<1>1. CInv' /\ UNCHANGED controlVars
    BY ControllerSame DEF controlVars
<1>2. /\ stopping' \in StopOrders
      /\ \A k \in Keys : known[k] # "none" => k \in Range(stopping')
    BY StartedFacts
<1>3. ContainerTypeOK'
    BY <1>1, <1>2, ZenonT(60) DEF ContainerTypeOK, ContainerTryPcs, FinallyPcs,
       Evidence, GoChildren
<1>4. FPosition'
    BY <1>1 DEF FPosition, ContainerTypeOK, BeforeListen, Stops, Keys,
       controlVars
<1>5. Servers' /\ Gates'
    BY <1>1 DEF Servers, Gates, FPosition, ContainerTypeOK, BeforeListen, Stops,
       FinallyPcs, Keys, Evidence, Alive, Finished
<1>6. Clients'
    BY <1>1 DEF Clients, FPosition, Stops
<1>7. Stopped'
  <2>1. \A k \in Keys : Alive(k) => known[k] # "none"
    BY DEF Servers, Alive, Keys
  <2>2. failure' = "none" => \A k \in Keys : known[k] # "none"
    BY DEF Gates, FinallyPcs
  <2>3. QED
    BY <1>2, <2>1, <2>2 DEF Stopped, Alive
<1>8. StoppedIsTrue'
    BY <1>1 DEF StoppedIsTrue, Alive, ContainerTypeOK, Keys,
       controlVars
<1>9. ReceiptIsTrue'
    BY <1>1 DEF ReceiptIsTrue, FPosition, Alive, Keys,
       ContainerTypeOK
<1>10. QED
    BY <1>1, <1>2, <1>3, <1>4, <1>5, <1>6, <1>7, <1>8, <1>9

\* The loop over the servers.
LEMMA StoppingFacts ==
    ASSUME FInv, stopping # <<>>
    PROVE  /\ Head(stopping) \in Keys
           /\ Tail(stopping) \in StopOrders
           /\ \A k \in Range(stopping) : k = Head(stopping) \/ k \in Range(Tail(stopping))
<1>1. \/ stopping = <<"primary">> \/ stopping = <<"negative">>
      \/ stopping = <<"primary", "negative">>
    BY DEF FInv, ContainerTypeOK, StopOrders
<1>2. ASSUME NEW x \in Keys, stopping = <<x>>
      PROVE  Head(stopping) = x /\ Tail(stopping) = <<>> /\ Range(stopping) = {x}
    BY <1>2, OneKey
<1>3. CASE stopping = <<"primary">> \/ stopping = <<"negative">>
    BY <1>2, <1>3, Zenon DEF Keys, StopOrders
<1>4. CASE stopping = <<"primary", "negative">>
  <2>1. /\ Head(stopping) = "primary" /\ Tail(stopping) = <<"negative">>
        /\ Range(stopping) = Keys
    BY <1>4, BothKeys, Zenon
  <2>2. Range(<<"negative">>) = {"negative"}
    BY OneKey
  <2>3. QED
    BY <2>1, <2>2, Zenon DEF Keys, StopOrders
<1>5. QED
    BY <1>1, <1>3, <1>4

\* SIGINT makes no process appear.
LEMMA InterruptFacts ==
    ASSUME FInv, NEW k \in Keys, Interrupt(k)
    PROVE  /\ proc' \in [Keys -> {"none", "up", "asked", "killed", "clean", "crashed"}]
           /\ \A x \in Keys : \/ proc'[x] = proc[x]
                              \/ proc[x] = "up" /\ proc'[x] = "asked"
    BY DEF FInv, Interrupt, ContainerTypeOK

LEMMA ContainerStopBegins ==
    ASSUME FInv, StopBegins
    PROVE  FInv'
<1> USE DEF FInv, StopBegins, procVars, goVars, endVars,
   controlVars
<1>1. CInv' /\ UNCHANGED controlVars
    BY ControllerSame DEF controlVars
<1>2. /\ proc' \in [Keys -> {"none", "up", "asked", "killed", "clean", "crashed"}]
      /\ \A x \in Keys : proc'[x] = proc[x] \/ (proc[x] = "up" /\ proc'[x] = "asked")
    BY StoppingFacts, InterruptFacts
<1>3. ContainerTypeOK'
    BY <1>1, <1>2 DEF ContainerTypeOK, ContainerTryPcs, FinallyPcs,
       Evidence, GoChildren
<1>4. FPosition'
    BY <1>1 DEF FPosition, ContainerTypeOK, BeforeListen, Stops, Keys,
       controlVars
<1>5. Servers' /\ Gates'
    BY <1>1, <1>2 DEF Servers, Gates, FPosition, ContainerTypeOK, BeforeListen, Stops,
       FinallyPcs, Keys, Evidence, Alive, Finished
<1>6. Clients' /\ Stopped'
    BY <1>1, <1>2 DEF Clients, Stopped, FPosition, Servers, Stops, Alive,
       Keys, ContainerTypeOK
<1>7. StoppedIsTrue'
    BY <1>1, <1>2 DEF StoppedIsTrue, Alive, ContainerTypeOK,
       Keys, controlVars
<1>8. ReceiptIsTrue'
    BY <1>1, <1>2 DEF ReceiptIsTrue, FPosition, Alive, Keys,
       ContainerTypeOK
<1>9. QED
    BY <1>1, <1>2, <1>3, <1>4, <1>5, <1>6, <1>7, <1>8

\* A server that did not end cleanly, or whose listener answers, fails the run.
LEMMA ContainerStopEnds ==
    ASSUME FInv, StopEnds \/ StopListener
    PROVE  FInv'
<1> USE DEF FInv, StopEnds, StopListener, NextStop,
   CleanlyClosed, procVars, goVars, endVars,
   controlVars
<1>1. CInv' /\ UNCHANGED controlVars
    BY ControllerSame DEF controlVars
<1>2. /\ Head(stopping) \in Keys
      /\ Tail(stopping) \in StopOrders
      /\ \A k \in Range(stopping) : k = Head(stopping) \/ k \in Range(Tail(stopping))
    BY StoppingFacts DEF FPosition
<1>3. ContainerTypeOK'
  <2>1. /\ pc' \in FinallyPcs /\ failure' \in {failure, "postmaster"}
        /\ stopping' \in {stopping, Tail(stopping)}
    BY DEF FinallyPcs
  <2>2. UNCHANGED <<evidence, orphan, older, broken, proc, known, client, children, package,
                    cleanup, receipt>>
    OBVIOUS
  <2>3. ContainerTypeOK
    OBVIOUS
  <2>4. QED
    BY ONLY <1>2, <2>1, <2>2, <2>3, ZenonT(60) DEF ContainerTypeOK
<1>4. FPosition'
    BY <1>1 DEF FPosition, ContainerTypeOK, BeforeListen, Stops, Keys,
       controlVars
<1>5. Servers' /\ Gates'
    BY <1>1 DEF Servers, Gates, FPosition, ContainerTypeOK, BeforeListen, Stops,
       FinallyPcs, Keys, Evidence, Alive, Finished
<1>6. Clients'
    BY <1>1 DEF Clients, FPosition, Stops
<1>7. Stopped'
  <2>1. CASE UNCHANGED <<failure, stopping>> /\ UNCHANGED <<proc, known>> /\ pc' \in Stops
    BY <1>1, <2>1 DEF Stopped, Alive, Stops
  <2>2. CASE /\ stopping' = Tail(stopping) /\ UNCHANGED <<proc, known>> /\ pc' \in Stops
             /\ failure' = "postmaster"
    BY <1>1, <2>2 DEF Stopped, Alive
  <2>3. CASE /\ stopping' = Tail(stopping) /\ UNCHANGED <<proc, known>> /\ pc' \in Stops
             /\ failure' = failure /\ pc = "stopListener"
    <3>1. proc[Head(stopping)] = "clean"
      BY <1>2, <2>3 DEF FPosition, Servers
    <3>2. QED
      BY <1>2, <2>3, <3>1 DEF Stopped, Alive, Stops
  <2>4. QED
    BY <2>1, <2>2, <2>3 DEF Stops
<1>8. StoppedIsTrue'
    BY <1>1 DEF StoppedIsTrue, Alive, ContainerTypeOK, Keys,
       controlVars
<1>9. ReceiptIsTrue'
    BY <1>1 DEF ReceiptIsTrue, FPosition, Alive, Keys,
       ContainerTypeOK
<1>10. QED
    BY <1>1, <1>2, <1>3, <1>4, <1>5, <1>6, <1>7, <1>8, <1>9

\* The receipt stands on the whole loop.
LEMMA ContainerWriteReceipt ==
    ASSUME FInv, WriteReceipt
    PROVE  FInv'
<1> USE DEF FInv, WriteReceipt, procVars, goVars, endVars,
   controlVars
<1>1. CInv' /\ UNCHANGED controlVars
    BY ControllerSame DEF controlVars
<1>2. ContainerTypeOK'
    BY <1>1 DEF ContainerTypeOK, ContainerTryPcs, FinallyPcs, Evidence,
       GoChildren
<1>3. FPosition'
    BY <1>1 DEF FPosition, ContainerTypeOK, BeforeListen, Stops, Keys,
       controlVars
<1>4. Servers' /\ Gates'
    BY <1>1 DEF Servers, Gates, FPosition, ContainerTypeOK, BeforeListen, Stops,
       FinallyPcs, Keys, Evidence, Alive, Finished
<1>5. Clients' /\ Stopped'
    BY <1>1 DEF Clients, Stopped, FPosition, Servers, Stops, Alive, Keys,
       ContainerTypeOK
<1>6. StoppedIsTrue'
    BY <1>1 DEF StoppedIsTrue, Alive, ContainerTypeOK, Keys,
       controlVars
<1>7. ReceiptIsTrue'
  <2>1. \A k \in Keys :
            /\ Alive(k) => failure = "postmaster"
            /\ failure = "none" => proc[k] = "clean"
    BY DEF Stopped, Stops, Range
  <2>2. failure = "none" => evidence = Evidence /\ children = {}
    BY DEF Gates, FinallyPcs
  <2>3. ~orphan => client = "none"
    BY DEF Clients, Stops, ContainerTypeOK
  <2>4. /\ cleanup' = "PASS" => ~orphan /\ failure # "postmaster"
        /\ receipt' = "PASS" => ~orphan /\ failure = "none" /\ cleanup' = "PASS"
    BY DEF FPosition
  <2>5. QED
    BY <2>1, <2>2, <2>3, <2>4 DEF ReceiptIsTrue, Alive
<1>8. QED
    BY <1>1, <1>2, <1>3, <1>4, <1>5, <1>6, <1>7

LEMMA ContainerSession ==
    ASSUME FInv, OpenSession \/ CloseSession \/ GoBreaks
    PROVE  FInv'
<1> USE DEF FInv, OpenSession, CloseSession, GoBreaks,
   procVars, goVars, endVars, controlVars
<1>1. CInv' /\ UNCHANGED controlVars
    BY ControllerSame DEF controlVars
<1>2. ContainerTypeOK'
  <2>1. client' \in {client, "session", "none"} /\ broken' \in {broken, TRUE}
    OBVIOUS
  <2>2. UNCHANGED <<pc, evidence, failure, orphan, older, proc, known, children, package,
                    stopping, cleanup, receipt>>
    OBVIOUS
  <2>3. ContainerTypeOK
    OBVIOUS
  <2>4. broken' \in BOOLEAN
    BY ONLY <2>1, <2>3, Zenon DEF ContainerTypeOK
  <2>5. QED
    BY ONLY <2>1, <2>2, <2>3, <2>4 DEF ContainerTypeOK
<1>3. FPosition'
    BY <1>1 DEF FPosition, ContainerTypeOK, BeforeListen, Stops, Keys,
       controlVars
<1>4. Servers' /\ Gates'
    BY <1>1 DEF Servers, Gates, FPosition, ContainerTypeOK, BeforeListen, Stops,
       FinallyPcs, Keys, Evidence, Alive, Finished
<1>5. Clients' /\ Stopped'
    BY <1>1 DEF Clients, Stopped, FPosition, Servers, Stops, Alive, Keys,
       ContainerTypeOK
<1>6. StoppedIsTrue'
    BY <1>1 DEF StoppedIsTrue, Alive, ContainerTypeOK, Keys,
       controlVars
<1>7. ReceiptIsTrue'
    BY <1>1 DEF ReceiptIsTrue, FPosition, Alive, Keys,
       ContainerTypeOK
<1>8. QED
    BY <1>1, <1>2, <1>3, <1>4, <1>5, <1>6, <1>7

\* A client that is lost is marked, and none is lost after the cleanup.
LEMMA ContainerClientLost ==
    ASSUME FInv, ClientLost
    PROVE  FInv'
<1> USE DEF FInv, ClientLost, LoseClient, procVars, goVars,
   endVars, controlVars
<1>1. CInv' /\ UNCHANGED controlVars
    BY ControllerSame DEF controlVars
<1>2. ContainerTypeOK'
    BY <1>1 DEF ContainerTypeOK, ContainerTryPcs, FinallyPcs, Evidence,
       GoChildren
<1>3. FPosition'
    BY <1>1 DEF FPosition, ContainerTypeOK, BeforeListen, Stops, Keys,
       controlVars
<1>4. Servers' /\ Gates'
    BY <1>1 DEF Servers, Gates, FPosition, ContainerTypeOK, BeforeListen, Stops,
       FinallyPcs, Keys, Evidence, Alive, Finished
<1>5. Clients' /\ Stopped'
    BY <1>1 DEF Clients, Stopped, FPosition, Servers, Stops, Alive, Keys,
       ContainerTypeOK
<1>6. StoppedIsTrue'
    BY <1>1 DEF StoppedIsTrue, Alive, ContainerTypeOK, Keys,
       controlVars
<1>7. ReceiptIsTrue'
  <2>1. pc # "done"
    BY DEF FPosition, Clients, Stops, BeforeListen, CInv, CloseInv, QuietAfterClose, Acting
  <2>2. QED
    BY <2>1 DEF FPosition, ReceiptIsTrue
<1>8. QED
    BY <1>1, <1>2, <1>3, <1>4, <1>5, <1>6, <1>7

LEMMA ContainerChild ==
    ASSUME FInv, NEW c \in GoChildren, ChildCloses(c)
    PROVE  FInv'
<1> USE DEF FInv, ChildCloses, procVars, goVars, endVars,
   controlVars
<1>1. CInv' /\ UNCHANGED controlVars
    BY ControllerSame DEF controlVars
<1>2. broken' \in BOOLEAN

    BY DEF ContainerTypeOK
<1>3. ContainerTypeOK'
    BY <1>1, <1>2 DEF ContainerTypeOK, ContainerTryPcs, FinallyPcs,
       Evidence, GoChildren
<1>4. FPosition'
    BY <1>1 DEF FPosition, ContainerTypeOK, BeforeListen, Stops, Keys,
       controlVars
<1>5. Servers' /\ Gates'
    BY <1>1 DEF Servers, Gates, FPosition, ContainerTypeOK, BeforeListen, Stops,
       FinallyPcs, Keys, Evidence, Alive, Finished
<1>6. Clients' /\ Stopped'
    BY <1>1 DEF Clients, Stopped, FPosition, Servers, Stops, Alive, Keys,
       ContainerTypeOK
<1>7. StoppedIsTrue'
    BY <1>1 DEF StoppedIsTrue, Alive, ContainerTypeOK, Keys,
       controlVars
<1>8. ReceiptIsTrue'
    BY <1>1 DEF ReceiptIsTrue, FPosition, Alive, Keys,
       ContainerTypeOK
<1>9. QED
    BY <1>1, <1>2, <1>3, <1>4, <1>5, <1>6, <1>7, <1>8

\* What happens to a process, and what is learned of it.
LEMMA PostmasterFacts ==
    ASSUME FInv, NEW k \in Keys,
           Kill(k) \/ PostmasterEnds(k) \/ CloseEvent(k)
              \/ Fallback(k)
    PROVE  /\ proc' \in [Keys -> {"none", "up", "asked", "killed", "clean", "crashed"}]
           /\ known' \in [Keys -> {"none", "running", "failing", "clean", "unclean"}]
           /\ \A x \in Keys :
                 /\ Alive(x)' => Alive(x)
                 /\ proc[x] \in {"none", "clean"} => proc'[x] = proc[x]
                 /\ proc'[x] = "none" => proc[x] = "none"
                 /\ known[x] = "none" <=> known'[x] = "none"
                 /\ known[x] = "clean" => known'[x] = "clean"
                 /\ known'[x] = "clean" => proc'[x] = "clean"
           /\ UNCHANGED <<pc, evidence, failure, orphan, client, older, children, broken, package,
                          stopping, cleanup, receipt, controlVars>>
<1> USE DEF FInv, ContainerTypeOK, Servers, Alive, IsRunning,
        goVars, endVars, controlVars
<1>1. CASE Kill(k)
    BY <1>1 DEF Kill
<1>2. CASE PostmasterEnds(k)
    BY <1>2 DEF PostmasterEnds
<1>3. CASE CloseEvent(k)
    BY <1>3 DEF CloseEvent
<1>4. CASE Fallback(k)
    BY <1>4 DEF Fallback
<1>5. QED
    BY <1>1, <1>2, <1>3, <1>4

LEMMA ContainerPostmaster ==
    ASSUME FInv, NEW k \in Keys,
           Kill(k) \/ PostmasterEnds(k) \/ CloseEvent(k)
              \/ Fallback(k)
    PROVE  FInv'
<1> USE PostmasterFacts DEF FInv
<1>1. CInv' /\ UNCHANGED controlVars
    BY ControllerSame
<1>2. ContainerTypeOK'
    BY DEF ContainerTypeOK
<1>3. FPosition'
  <2>1. pc \in {"stopWait", "stopListener"} => Head(stopping) \in Keys
    BY StoppingFacts DEF FPosition
  <2>2. QED
    BY <1>1, <2>1 DEF FPosition, Keys, controlVars
<1>4. Servers' /\ Gates' /\ Clients'
    BY DEF Servers, Gates, Clients
<1>5. Stopped'
    BY DEF Stopped
<1>6. StoppedIsTrue' /\ ReceiptIsTrue'
    BY DEF StoppedIsTrue, ReceiptIsTrue, Keys, controlVars
<1>7. QED
    BY <1>1, <1>2, <1>3, <1>4, <1>5, <1>6

-----------------------------------------------------------------------------
(* The controller and its callbacks *)

\* A step of the controller that leaves the program alone.
LEMMA ContainerControlled ==
    ASSUME FInv, CInv', UNCHANGED programVars,
           closer' = closer \/ pc = "close" \/ (closer = "await" /\ closer' = "closed"),
           closer = "none" => closer' = "none",
           \A r \in ControlRequests : ctl'[r] = "settled" /\ want'[r] = "stop"
                                         => ctl[r] = "settled" /\ want[r] = "stop"
    PROVE  FInv'
<1> USE DEF FInv
<1>1. UNCHANGED <<pc, evidence, failure, orphan, client, proc, known, older, children, broken,
                  package, stopping, cleanup, receipt>>
    BY DEF programVars, procVars, goVars, endVars
<1>2. ContainerTypeOK' /\ Servers' /\ Gates'
    BY <1>1 DEF ContainerTypeOK, Servers, Gates
<1>3. Clients' /\ Stopped' /\ ReceiptIsTrue'
    BY <1>1 DEF Clients, Stopped, Alive, ReceiptIsTrue
<1>4. FPosition'
    BY <1>1 DEF FPosition, BeforeListen, Stops
<1>5. StoppedIsTrue'
    BY <1>1 DEF StoppedIsTrue, Alive
<1>6. QED
    BY <1>2, <1>3, <1>4, <1>5

LEMMA ContainerCloseController ==
    ASSUME FInv, CloseContainerControl
    PROVE  FInv'
<1>1. CloseBegin /\ pc = "close" /\ UNCHANGED programVars
    BY DEF CloseContainerControl
<1>2. CInv'
    BY <1>1, CloseBeginStep DEF FInv
<1>3. closer = "open" /\ UNCHANGED <<want, ctl>>
    BY <1>1 DEF CloseBegin
<1>4. QED
    BY <1>1, <1>2, <1>3, ContainerControlled

LEMMA ContainerControllerCloses ==
    ASSUME FInv, ControllerCloses
    PROVE  FInv'
<1>1. CloseEnd /\ UNCHANGED programVars
    BY DEF ControllerCloses
<1>2. CInv'
    BY <1>1, CloseEndStep DEF FInv
<1>3. closer = "await" /\ closer' = "closed" /\ UNCHANGED want
    BY <1>1 DEF CloseEnd
<1>4. \A r \in ControlRequests : ctl'[r] \in {ctl[r], "replied"}
    BY <1>1 DEF CloseEnd
<1>5. QED
    BY <1>1, <1>2, <1>3, <1>4, ContainerControlled

LEMMA ContainerRequest ==
    ASSUME FInv, NEW r \in ControlRequests, Request(r)
    PROVE  FInv'
<1>1. Handle(r) /\ UNCHANGED programVars
    BY DEF Request
<1>2. CInv'
    BY <1>1, HandleStep DEF FInv
<1>3. closer' = closer
    BY <1>1 DEF Handle, Arrive, RejectBody, Enqueue, Begin, Settle
<1>4. /\ ctl' \in [ControlRequests -> CtlPcs] /\ ctl'[r] # "settled"
      /\ \A x \in ControlRequests : x # r => ctl'[x] = ctl[x] /\ want'[x] = want[x]
  <2>1. /\ ctl \in [ControlRequests -> CtlPcs]
        /\ want \in [ControlRequests -> {"none", "start", "stop"}]
        /\ ctl' \in [ControlRequests -> CtlPcs]
    BY <1>2 DEF FInv, CInv, ControllerTypeOK
  <2>2. CASE Arrive(r) \/ RejectBody(r)
    BY <2>1, <2>2 DEF Arrive, RejectBody
  <2>3. CASE Enqueue(r)
    BY <2>1, <2>3 DEF Enqueue
  <2>4. CASE Begin(r) \/ Settle(r)
    BY <2>1, <2>4 DEF Begin, Settle
  <2>5. QED
    BY <1>1, <2>2, <2>3, <2>4, <2>1 DEF Handle
<1>5. QED
    BY <1>1, <1>2, <1>3, <1>4, ContainerControlled

\* A callback runs before the finally block has closed the controller, alone, and
\* no reply 200 is outstanding.
LEMMA CallbackFacts ==
    ASSUME FInv, NEW r \in ControlRequests, Acting(r)
    PROVE  /\ closer \in {"open", "await"}
           /\ pc \in {"sql", "go", "goWait", "goReap", "verify", "close"}
           /\ \A x \in ControlRequests : x # r => ctl[x] # "settled"
<1>1. closer \in {"open", "await"}
    BY DEF FInv, CInv, ControllerTypeOK, CloseInv, QuietAfterClose, Acting
<1>2. pc \in {"sql", "go", "goWait", "goReap", "verify", "close"}
    BY <1>1 DEF FInv, FPosition, BeforeListen, Stops, ContainerTypeOK, ContainerTryPcs,
       FinallyPcs
<1>3. Head(queue) = r
    BY BegunIsHead DEF FInv, Acting, Chained
<1>4. \A x \in ControlRequests : ctl[x] = "settled" => Head(queue) = x
    BY BegunIsHead DEF FInv, Chained
<1>5. QED
    BY <1>1, <1>2, <1>3, <1>4

\* A step of a callback that may start or stop the primary.
LEMMA CallbackStep ==
    ASSUME FInv, NEW r \in ControlRequests, Acting(r),
           NEW next \in {"command", "after", "settled", "failed"},
           ctl' = [ctl EXCEPT ![r] = next],
           UNCHANGED <<closing, queue, pending, awaited, closer, want>>,
           UNCHANGED <<pc, evidence, failure, orphan, client, children, broken, package,
                       stopping, cleanup, receipt>>,
           older' = FALSE,
           proc' \in [Keys -> {"none", "up", "asked", "killed", "clean", "crashed"}],
           known' \in [Keys -> {"none", "running", "failing", "clean", "unclean"}],
           \A k \in Keys : /\ known'[k] = "none" <=> known[k] = "none"
                           /\ known'[k] = "none" <=> proc'[k] = "none"
                           /\ known'[k] = "clean" => proc'[k] = "clean",
           next = "settled" /\ want[r] = "stop" => proc' = proc /\ ~Alive("primary")
    PROVE  FInv'
<1>1. CInv'
    BY ActionStep DEF FInv
<1>2. /\ closer \in {"open", "await"}
      /\ pc \in {"sql", "go", "goWait", "goReap", "verify", "close"}
      /\ \A x \in ControlRequests : x # r => ctl[x] # "settled"
    BY CallbackFacts
<1>3. ContainerTypeOK'
  <2>1. ContainerTypeOK
    BY DEF FInv
  <2>2. QED
    BY <2>1, ZenonT(60) DEF ContainerTypeOK
<1>4. FPosition'
    BY <1>2 DEF FInv, FPosition, BeforeListen, Stops
<1>5. Servers' /\ Gates'
    BY DEF FInv, Servers, Gates
<1>6. Clients' /\ Stopped'
    BY <1>2 DEF FInv, Clients, Stopped, Stops
<1>7. StoppedIsTrue'
  <2>1. ctl \in [ControlRequests -> CtlPcs]
    BY DEF FInv, CInv, ControllerTypeOK
  <2>2. \A x \in ControlRequests : ctl'[x] = "settled" => x = r /\ next = "settled"
    BY <1>2, <2>1
  <2>3. QED
    BY <2>2 DEF StoppedIsTrue, Alive
<1>8. ReceiptIsTrue'
    BY <1>2 DEF FInv, FPosition, ReceiptIsTrue
<1>9. QED
    BY <1>1, <1>3, <1>4, <1>5, <1>6, <1>7, <1>8 DEF FInv

LEMMA ContainerActionBegins ==
    ASSUME FInv, NEW r \in ControlRequests, ActionBegins(r)
    PROVE  FInv'
<1>1. /\ UNCHANGED <<closing, queue, pending, awaited, closer, want>>
      /\ UNCHANGED <<pc, evidence, failure, orphan, client, children, broken, package,
                     stopping, cleanup, receipt>>
      /\ UNCHANGED <<known, older>> /\ Acting(r)
    BY DEF ActionBegins, goVars, endVars, Acting
<1>2. PICK next \in {"command", "after", "failed"} : ctl' = [ctl EXCEPT ![r] = next]
  <2>1. CASE ctl' = [ctl EXCEPT ![r] = "failed"]
    BY <2>1
  <2>2. CASE ctl' = [ctl EXCEPT ![r] = IF IsRunning("primary") THEN "after"
                                                                       ELSE "command"]
    BY <2>2
  <2>3. CASE ctl' = [ctl EXCEPT ![r] = "command"]
    BY <2>3
  <2>4. QED
    BY <2>1, <2>2, <2>3 DEF ActionBegins
<1>3. /\ proc' \in [Keys -> {"none", "up", "asked", "killed", "clean", "crashed"}]
      /\ \A x \in Keys : \/ proc'[x] = proc[x]
                         \/ proc[x] = "up" /\ proc'[x] = "asked"
  <2>1. CASE UNCHANGED proc
    BY <2>1 DEF FInv, ContainerTypeOK
  <2>2. CASE Interrupt("primary")
    BY <2>2, InterruptFacts DEF Keys
  <2>3. QED
    BY <2>1, <2>2 DEF ActionBegins
<1>4. /\ older' = FALSE
      /\ known' \in [Keys -> {"none", "running", "failing", "clean", "unclean"}]
      /\ \A k \in Keys : /\ known'[k] = "none" <=> known[k] = "none"
                         /\ known'[k] = "none" <=> proc'[k] = "none"
                         /\ known'[k] = "clean" => proc'[k] = "clean"
    BY <1>1, <1>3 DEF FInv, Servers, ContainerTypeOK
<1>5. QED
    BY <1>1, <1>2, <1>3, <1>4, CallbackStep

LEMMA ContainerActionContinues ==
    ASSUME FInv, NEW r \in ControlRequests, ActionContinues(r)
    PROVE  FInv'
<1>1. /\ UNCHANGED <<closing, queue, pending, awaited, closer, want>>
      /\ UNCHANGED <<pc, evidence, failure, orphan, client, children, broken, package,
                     stopping, cleanup, receipt>>
      /\ Acting(r)
    BY DEF ActionContinues, goVars, endVars, Acting
<1>2. PICK next \in {"after", "failed"} : ctl' = [ctl EXCEPT ![r] = next]
    BY DEF ActionContinues
<1>3. \/ UNCHANGED <<proc, known, older>>
      \/ known["primary"] = "clean" /\ Launch("primary")
    BY DEF ActionContinues, CleanlyClosed, procVars
<1>4. /\ older' = FALSE
      /\ proc' \in [Keys -> {"none", "up", "asked", "killed", "clean", "crashed"}]
      /\ known' \in [Keys -> {"none", "running", "failing", "clean", "unclean"}]
      /\ \A k \in Keys : /\ known'[k] = "none" <=> known[k] = "none"
                         /\ known'[k] = "none" <=> proc'[k] = "none"
                         /\ known'[k] = "clean" => proc'[k] = "clean"
  <2>1. CASE UNCHANGED <<proc, known, older>>
    BY <2>1 DEF FInv, Servers, ContainerTypeOK
  <2>2. CASE known["primary"] = "clean" /\ Launch("primary")
    <3>1. "primary" \in Keys /\ proc["primary"] = "clean"
      BY <2>2 DEF FInv, Servers, Keys
    <3>2. /\ older' = FALSE
          /\ proc' \in [Keys -> {"none", "up", "asked", "killed", "clean", "crashed"}]
          /\ known' \in [Keys -> {"none", "running", "failing", "clean", "unclean"}]
          /\ known'["primary"] \in {"running", "failing"} /\ proc'["primary"] \in {"up", "crashed"}
          /\ \A x \in Keys : x # "primary" => known'[x] = known[x] /\ proc'[x] = proc[x]
      BY <2>2, <3>1, LaunchFacts
    <3>3. QED
      BY <2>2, <3>1, <3>2 DEF FInv, Servers
  <2>3. QED
    BY <1>3, <2>1, <2>2
<1>5. QED
    BY <1>1, <1>2, <1>4, CallbackStep

LEMMA ContainerActionEnds ==
    ASSUME FInv, NEW r \in ControlRequests, ActionEnds(r)
    PROVE  FInv'
<1>1. /\ UNCHANGED <<closing, queue, pending, awaited, closer, want>>
      /\ UNCHANGED <<pc, evidence, failure, orphan, client, children, broken, package,
                     stopping, cleanup, receipt>>
      /\ UNCHANGED <<proc, known, older>> /\ Acting(r)
    BY DEF ActionEnds, procVars, goVars, endVars, Acting
<1>2. PICK next \in {"settled", "failed"} :
         /\ ctl' = [ctl EXCEPT ![r] = next]
         /\ next = "settled" /\ want[r] = "stop" => ~Alive("primary")
    BY DEF ActionEnds, Refused
<1>3. /\ older' = FALSE
      /\ proc' \in [Keys -> {"none", "up", "asked", "killed", "clean", "crashed"}]
      /\ known' \in [Keys -> {"none", "running", "failing", "clean", "unclean"}]
      /\ \A k \in Keys : /\ known'[k] = "none" <=> known[k] = "none"
                         /\ known'[k] = "none" <=> proc'[k] = "none"
                         /\ known'[k] = "clean" => proc'[k] = "clean"
    BY <1>1 DEF FInv, Servers, ContainerTypeOK
<1>4. QED
    BY <1>1, <1>2, <1>3, CallbackStep

-----------------------------------------------------------------------------
(* The theorem *)

LEMMA ContainerNextInv ==
    ASSUME FInv, [ContainerNext]_containerVars
    PROVE  FInv'
<1>1. CASE ContainerTry
    BY <1>1, ContainerProgress, ContainerThrow, ContainerStartServer, ContainerListen,
       ContainerGoSpawn, ContainerGoPasses, Zenon DEF ContainerTry
<1>2. CASE ContainerFinally
    BY <1>2, ContainerCloseController, ContainerProgress, ContainerCloseAll, ContainerStopBegins,
       ContainerStopEnds, ContainerWriteReceipt, Zenon DEF ContainerFinally
<1>3. CASE Surroundings
    BY <1>3, ContainerSession, ContainerClientLost, ContainerChild, ContainerPostmaster, Zenon
       DEF Surroundings
<1>4. CASE ContainerControl
    BY <1>4, ContainerControllerCloses, ContainerRequest, ContainerActionBegins,
       ContainerActionContinues, ContainerActionEnds, Zenon DEF ContainerControl, ContainerCallback
<1>5. CASE UNCHANGED containerVars
  <2>1. UNCHANGED programVars /\ UNCHANGED controlVars
    BY <1>5 DEF containerVars, programVars, controlVars
  <2>2. CInv' /\ UNCHANGED <<closer, want, ctl>>
    BY <2>1, ControllerSame DEF FInv, controlVars
  <2>3. QED
    BY <2>1, <2>2, ContainerControlled
<1>6. QED
    BY <1>1, <1>2, <1>3, <1>4, <1>5 DEF ContainerNext

\* What runFixtureContainer and its requests can rely on: one postmaster per data
\* directory, true replies to a stop, and a true receipt, for any number of requests
\* and packages and any queue bound.
THEOREM FixtureContainerInv == ContainerSpec => []ContainerInv
<1>1. ContainerInit => FInv
    BY ContainerInitInv
<1>2. FInv /\ [ContainerNext]_containerVars => FInv'
    BY ContainerNextInv
<1>3. FInv => ContainerInv
    BY ControllerPromise DEF FInv, Servers, ContainerInv, OneServerPerDirectory
<1>4. QED
    BY <1>1, <1>2, <1>3, PTL DEF ContainerSpec
=============================================================================

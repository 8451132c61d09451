------------------------- MODULE PostgresPoolProofs -------------------------
(* Proofs that the pool of PostgresPool is type correct and safe, and that   *)
(* it implements PoolContract, for any number of probes, closers and slots.  *)
EXTENDS PostgresPool, FiniteSetTheorems, TLAPS

-----------------------------------------------------------------------------
(* The inductive invariant *)

\* How far New got determines whether there is a provider, and the goroutine that
\* Close spawns determines how far the provider's own Close got.
Shutdown ==
    /\ ctor \in {"start", "config"} => backend = "nil"
    /\ ctor \in {"assigned", "returned"} => backend # "nil"
    /\ backend = "nil" => ~closed
    /\ closed <=> finisher # "none"
    /\ backend = "closing" <=> finisher = "closing"
    /\ backend = "closed" <=> finisher = "done"

\* Nothing runs in the provider once its Close has begun, and nothing is left
\* when it has returned.
Drained ==
    /\ finisher \in {"closing", "done"} => InFlight = {}
    /\ finisher = "done" => \A k \in Slots : slot[k] = "empty"
    /\ \A x \in Closers : closer[x] = "ok" => finisher = "done"

\* A socket exists only from a successful dial to the end of its slot.
SocketsInSlots ==
    \A k \in Slots :
        slot[k] \in {"empty", "lookup", "dial", "dialing"} => socket[k] = "none"

\* A call that reaches p.result carries a value, and a call that passed it has
\* its result.
Decided ==
    \A c \in Checks :
        /\ pc[c] = "result" => fallback[c] # "none"
        /\ pc[c] \in {"release", "finish"} => res[c] # "none"

IInv ==
    /\ TypeOK
    /\ WaitGroupExact
    /\ ConnectionOwned
    /\ Shutdown
    /\ Drained
    /\ SocketsInSlots
    /\ Decided

-----------------------------------------------------------------------------
(* The WaitGroup *)

LEMMA InFlightFinite == IsFiniteSet(InFlight)
  BY PoolConstants, FS_Subset DEF InFlight

\* A step of call c that stays on one side of the registration leaves the set of
\* registered calls as it is.
LEMMA InFlightSame ==
    ASSUME NEW c \in Checks, NEW label, TypeOK, Goto(c, label),
           pc[c] \in InFlightPcs <=> label \in InFlightPcs
    PROVE  InFlight' = InFlight
  BY DEF InFlight, Goto, TypeOK

LEMMA InFlightAdd ==
    ASSUME NEW c \in Checks, NEW label, TypeOK, Goto(c, label),
           pc[c] \notin InFlightPcs, label \in InFlightPcs
    PROVE  /\ InFlight' = InFlight \cup {c}
           /\ IsFiniteSet(InFlight')
           /\ Cardinality(InFlight') = Cardinality(InFlight) + 1
  <1>1. InFlight' = InFlight \cup {c} /\ c \notin InFlight
    BY DEF InFlight, Goto, TypeOK
  <1> QED BY <1>1, InFlightFinite, FS_AddElement

LEMMA InFlightRemove ==
    ASSUME NEW c \in Checks, NEW label, TypeOK, Goto(c, label),
           pc[c] \in InFlightPcs, label \notin InFlightPcs
    PROVE  /\ InFlight' = InFlight \ {c}
           /\ Cardinality(InFlight') = Cardinality(InFlight) - 1
           /\ Cardinality(InFlight) >= 1
  <1>1. InFlight' = InFlight \ {c} /\ c \in InFlight
    BY DEF InFlight, Goto, TypeOK
  <1>2. Cardinality(InFlight') = Cardinality(InFlight) - 1
    BY <1>1, InFlightFinite, FS_RemoveElement
  <1>3. Cardinality(InFlight) \in Nat /\ Cardinality(InFlight) # 0
    BY <1>1, InFlightFinite, FS_CardinalityType, FS_EmptySet
  <1> QED BY <1>1, <1>2, <1>3

-----------------------------------------------------------------------------
(* Preservation, one lemma per conjunct *)

LEMMA TypeStep ==
    ASSUME IInv, [Next]_vars
    PROVE  TypeOK'
  <1> USE DEF IInv, TypeOK, InFlightPcs, Failures, Results, CtorStates,
              BackendState, SlotStates, poolVars, checkVars, slotVars, Goto,
              SetSlot, Discard, CloseLocked
  <1>1. CASE NewStart \/ NewBackend \/ NewReturn \/ NewAbandon
    <2>1. CASE NewStart
      BY <2>1 DEF NewStart
    <2>2. CASE NewBackend
      BY <2>2 DEF NewBackend
    <2>3. CASE NewReturn
      BY <2>3 DEF NewReturn
    <2>4. CASE NewAbandon
      BY <2>4 DEF NewAbandon
    <2> QED BY <1>1, <2>1, <2>2, <2>3, <2>4
  <1>2. ASSUME NEW c \in Checks, CheckStart(c) \/ CheckRegister(c) \/ CheckArm(c)
        PROVE  TypeOK'
    <2>1. CASE CheckStart(c)
      BY <2>1 DEF CheckStart
    <2>2. CASE CheckRegister(c)
      <3>1. UNCHANGED <<ctor, closed, finisher, backend, probeErr, acquireExp, conn,
                        fallback, closer, slotVars>>
        BY <2>2 DEF CheckRegister
      <3>2. CASE closed \/ backend = "nil"
        <4>1. /\ res' = [res EXCEPT ![c] = "closed"]
              /\ callerErr' = [callerErr EXCEPT ![c] = FALSE]
              /\ pc' = [pc EXCEPT ![c] = "idle"]
              /\ operations' = operations
          BY <2>2, <3>2 DEF CheckRegister
        <4> QED BY <3>1, <4>1
      <3>3. CASE ~(closed \/ backend = "nil")
        BY <2>2, <3>3 DEF CheckRegister
      <3> QED BY <3>2, <3>3
    <2>3. CASE CheckArm(c)
      BY <2>3 DEF CheckArm
    <2> QED BY <1>2, <2>1, <2>2, <2>3
  <1>3. ASSUME NEW c \in Checks, NEW k \in Slots, AcquireConn(c, k)
        PROVE  TypeOK'
    BY <1>3 DEF AcquireConn
  <1>4. ASSUME NEW c \in Checks,
               AcquireFail(c) \/ CheckAcquired(c) \/ CheckProbeLive(c)
        PROVE  TypeOK'
    <2>1. CASE AcquireFail(c)
      BY <2>1 DEF AcquireFail
    <2>2. CASE CheckAcquired(c)
      BY <2>2 DEF CheckAcquired
    <2>3. CASE CheckProbeLive(c)
      BY <2>3 DEF CheckProbeLive
    <2> QED BY <1>4, <2>1, <2>2, <2>3
  <1>5. ASSUME NEW c \in Checks, PingOk(c) \/ PingFail(c) \/ CheckResult(c)
        PROVE  TypeOK'
    <2>1. CASE PingOk(c)
      BY <2>1 DEF PingOk
    <2>2. CASE PingFail(c)
      BY <2>2 DEF PingFail
    <2>3. CASE CheckResult(c)
      BY <2>3 DEF CheckResult, ResultOf
    <2> QED BY <1>5, <2>1, <2>2, <2>3
  <1>6. ASSUME NEW c \in Checks, CheckRelease(c)
        PROVE  TypeOK'
    <2>1. slot' \in [Slots -> SlotStates] /\ socket' \in [Slots -> {"none", "open", "shut"}]
      BY <1>6 DEF CheckRelease
    <2>2. watched' \in [Slots -> BOOLEAN]
      BY <1>6 DEF CheckRelease
    <2>3. /\ UNCHANGED <<poolVars, callerErr, probeErr, acquireExp, fallback, res, closer>>
          /\ conn' \in [Checks -> Slots \cup {NoConn}]
          /\ pc' \in [Checks -> InFlightPcs \cup {"idle", "lock"}]
      BY <1>6 DEF CheckRelease
    <2> QED BY <2>1, <2>2, <2>3
  <1>7. ASSUME NEW c \in Checks, CheckFinish(c)
        PROVE  TypeOK'
    <2>1. operations >= 1
      BY <1>7, InFlightRemove DEF CheckFinish, WaitGroupExact
    <2> QED BY <1>7, <2>1 DEF CheckFinish
  <1>8. ASSUME NEW c \in Checks, ContextStep(c)
        PROVE  TypeOK'
    <2>1. CASE CallerEnds(c)
      BY <2>1 DEF CallerEnds, ProbeArmed
    <2>2. CASE ProbeTimeout(c)
      BY <2>2 DEF ProbeTimeout, ProbeArmed
    <2>3. CASE AcquireTimeout(c)
      BY <2>3 DEF AcquireTimeout
    <2>4. CASE LifetimeEndsProbe(c)
      BY <2>4 DEF LifetimeEndsProbe, ProbeArmed
    <2> QED BY <1>8, <2>1, <2>2, <2>3, <2>4 DEF ContextStep
  <1>9. ASSUME NEW x \in Closers, CloseStep(x)
        PROVE  TypeOK'
    <2>1. CASE CloseStart(x)
      <3>1. CASE backend = "nil"
        BY <2>1, <3>1 DEF CloseStart
      <3>2. CASE backend # "nil" /\ closed
        BY <2>1, <3>2 DEF CloseStart
      <3>3. CASE backend # "nil" /\ ~closed
        BY <2>1, <3>3 DEF CloseStart
      <3> QED BY <3>1, <3>2, <3>3
    <2>2. CASE CloseReturn(x)
      BY <2>2 DEF CloseReturn
    <2>3. CASE CloseExpire(x)
      BY <2>3 DEF CloseExpire
    <2> QED BY <1>9, <2>1, <2>2, <2>3 DEF CloseStep
  <1>10. CASE FinisherWaits \/ FinisherDone
    BY <1>10 DEF FinisherWaits, FinisherDone
  <1>11. ASSUME NEW k \in Slots, SlotStep(k)
         PROVE  TypeOK'
    <2>1. CASE BuildStart(k)
      BY <2>1 DEF BuildStart
    <2>2. CASE LookupOk(k)
      BY <2>2 DEF LookupOk
    <2>3. CASE DialStart(k)
      BY <2>3 DEF DialStart
    <2>4. CASE DialOk(k)
      BY <2>4 DEF DialOk
    <2>5. CASE BuildFail(k)
      BY <2>5 DEF BuildFail
    <2>6. CASE DialCheck(k)
      <3>1. slot' \in [Slots -> SlotStates]
        <4>1. \/ slot' = [slot EXCEPT ![k] = "empty"]
              \/ slot' = [slot EXCEPT ![k] = "checked"]
          BY <2>6 DEF DialCheck
        <4> QED BY <4>1
      <3>2. watched' \in [Slots -> BOOLEAN]
        BY <2>6 DEF DialCheck
      <3>3. socket' \in [Slots -> {"none", "open", "shut"}]
        BY <2>6 DEF DialCheck
      <3>4. UNCHANGED <<poolVars, checkVars, closer>>
        BY <2>6 DEF DialCheck
      <3> QED BY <3>1, <3>2, <3>3, <3>4
    <2>7. CASE DialWatch(k)
      BY <2>7 DEF DialWatch
    <2>8. CASE BuildOk(k)
      BY <2>8 DEF BuildOk
    <2>9. CASE WatcherFires(k)
      BY <2>9 DEF WatcherFires
    <2>10. CASE IdleDestroy(k)
      BY <2>10 DEF IdleDestroy
    <2> QED BY <1>11, <2>1, <2>2, <2>3, <2>4, <2>5, 
           <2>6, <2>7, <2>8, <2>9, <2>10
           DEF SlotStep
  <1>12. CASE UNCHANGED vars
    BY <1>12 DEF vars
  <1> QED
    BY <1>1, <1>2, <1>3, <1>4, <1>5, <1>6, <1>7, <1>8, <1>9, <1>10, <1>11, <1>12
    DEF Next, CheckStep

LEMMA ShutdownStep ==
    ASSUME IInv, [Next]_vars
    PROVE  Shutdown'
  <1> USE DEF IInv, TypeOK, Shutdown, CtorStates, BackendState, poolVars, CloseLocked
  <1>1. CASE NewStart \/ NewBackend \/ NewReturn \/ NewAbandon
    BY <1>1 DEF NewStart, NewBackend, NewReturn, NewAbandon
  <1>2. ASSUME NEW c \in Checks, CheckStep(c) \/ ContextStep(c)
        PROVE  UNCHANGED <<ctor, closed, finisher, backend>>
    BY <1>2 DEF CheckStep, CheckStart, CheckRegister, CheckArm, AcquireConn,
       AcquireFail, CheckAcquired, CheckProbeLive, PingOk, PingFail, CheckResult,
       CheckRelease, CheckFinish, ContextStep, CallerEnds, ProbeTimeout,
       AcquireTimeout, LifetimeEndsProbe
  <1>3. ASSUME NEW x \in Closers, CloseStep(x)
        PROVE  Shutdown'
    BY <1>3 DEF CloseStep, CloseStart, CloseReturn, CloseExpire
  <1>4. CASE FinisherWaits \/ FinisherDone
    BY <1>4 DEF FinisherWaits, FinisherDone
  <1>5. ASSUME NEW k \in Slots, SlotStep(k)
        PROVE  UNCHANGED <<ctor, closed, finisher, backend>>
    BY <1>5 DEF SlotStep, BuildStart, LookupOk, DialStart, DialOk, BuildFail,
                DialCheck, DialWatch, BuildOk, WatcherFires, IdleDestroy
  <1>6. CASE UNCHANGED vars
    BY <1>6 DEF vars
  <1> QED
    BY <1>1, <1>2, <1>3, <1>4, <1>5, <1>6 DEF Next


\* Only CheckRegister and CheckFinish move the WaitGroup, and with it the set of
\* registered calls; once closed, the set can only shrink.
LEMMA AdmissionStep ==
    ASSUME IInv, [Next]_vars
    PROVE  /\ WaitGroupExact'
           /\ closed => InFlight' \subseteq InFlight
  <1> USE DEF IInv, WaitGroupExact
  <1> DEFINE Same == InFlight' = InFlight /\ operations' = operations
  <1>1. ASSUME NEW c \in Checks, CheckStep(c)
        PROVE  /\ WaitGroupExact'
               /\ closed => InFlight' \subseteq InFlight
    <2>1. CASE CheckStart(c)
      BY <2>1, InFlightSame DEF CheckStart, poolVars, InFlightPcs, InFlight
    <2>2. CASE CheckRegister(c)
      <3>1. CASE closed \/ backend = "nil"
        BY <2>2, <3>1, InFlightSame DEF CheckRegister, InFlightPcs
      <3>2. CASE ~(closed \/ backend = "nil")
        BY <2>2, <3>2, InFlightAdd DEF CheckRegister, InFlightPcs
      <3> QED BY <3>1, <3>2
    <2>3. CASE CheckArm(c)
      BY <2>3, InFlightSame DEF CheckArm, poolVars, InFlightPcs
    <2>4. ASSUME NEW k \in Slots, AcquireConn(c, k)
          PROVE  Same
      BY <2>4, InFlightSame DEF AcquireConn, poolVars, InFlightPcs
    <2>5. CASE AcquireFail(c) \/ PingOk(c) \/ PingFail(c)
      BY <2>5, InFlightSame DEF AcquireFail, PingOk, PingFail, poolVars, InFlightPcs
    <2>6. CASE CheckAcquired(c)
      BY <2>6, InFlightSame DEF CheckAcquired, poolVars, InFlightPcs
    <2>7. CASE CheckProbeLive(c)
      BY <2>7, InFlightSame DEF CheckProbeLive, poolVars, InFlightPcs
    <2>8. CASE CheckResult(c)
      BY <2>8, InFlightSame DEF CheckResult, poolVars, InFlightPcs
    <2>9. CASE CheckRelease(c)
      BY <2>9, InFlightSame DEF CheckRelease, poolVars, InFlightPcs
    <2>10. CASE CheckFinish(c)
      BY <2>10, InFlightRemove DEF CheckFinish, InFlightPcs
    <2> QED
      BY <1>1, <2>1, <2>2, <2>3, <2>4, <2>5, <2>6, <2>7, <2>8, <2>9, <2>10
      DEF CheckStep
  <1>2. ASSUME NEW c \in Checks, ContextStep(c)
        PROVE  Same
    BY <1>2 DEF ContextStep, CallerEnds, ProbeTimeout, AcquireTimeout,
                LifetimeEndsProbe, poolVars, InFlight
  <1>3. ASSUME NEW x \in Closers, CloseStep(x)
        PROVE  Same
    BY <1>3 DEF CloseStep, CloseStart, CloseReturn, CloseExpire, poolVars,
                checkVars, InFlight
  <1>4. CASE FinisherWaits \/ FinisherDone
    BY <1>4 DEF FinisherWaits, FinisherDone, checkVars, InFlight
  <1>5. CASE NewStart \/ NewBackend \/ NewReturn \/ NewAbandon
    BY <1>5 DEF NewStart, NewBackend, NewReturn, NewAbandon, checkVars, InFlight
  <1>6. ASSUME NEW k \in Slots, SlotStep(k)
        PROVE  Same
    BY <1>6 DEF SlotStep, BuildStart, LookupOk, DialStart, DialOk, BuildFail,
                DialCheck, DialWatch, BuildOk, WatcherFires, IdleDestroy,
                poolVars, checkVars, InFlight
  <1>7. CASE UNCHANGED vars
    BY <1>7 DEF vars, InFlight
  <1> QED
    BY <1>1, <1>2, <1>3, <1>4, <1>5, <1>6, <1>7 DEF Next

\* The provider's Close starts with no call registered, so no slot is in use by
\* a call, and a slot that is empty stays empty once the provider has closed.
LEMMA DrainedStep ==
    ASSUME IInv, [Next]_vars
    PROVE  Drained'
  <1> USE DEF IInv, Drained, Shutdown
  <1>1. ASSUME NEW c \in Checks, CheckStep(c)
        PROVE  Drained'
    <2>1. UNCHANGED <<finisher, closed, closer>>
      BY <1>1 DEF CheckStep, CheckStart, CheckRegister, CheckArm, AcquireConn,
         AcquireFail, CheckAcquired, CheckProbeLive, PingOk, PingFail, CheckResult,
         CheckRelease, CheckFinish, poolVars
    <2>2. finisher \in {"closing", "done"} => InFlight' = {}
      BY AdmissionStep
    <2>3. ASSUME finisher = "done"
          PROVE  \A k \in Slots : slot'[k] = "empty"
      <3>1. c \notin InFlight
        BY <2>3
      <3>2. pc[c] \notin InFlightPcs
        BY <3>1 DEF InFlight
      <3>3. UNCHANGED slot
        BY <1>1, <3>2 DEF InFlightPcs, CheckStep, CheckStart, CheckRegister,
           CheckArm, AcquireConn, AcquireFail, CheckAcquired, CheckProbeLive,
           PingOk, PingFail, CheckResult, CheckRelease, CheckFinish, slotVars
      <3> QED BY <2>3, <3>3
    <2> QED BY <2>1, <2>2, <2>3
  <1>2. ASSUME NEW c \in Checks, ContextStep(c)
        PROVE  Drained'
    BY <1>2 DEF ContextStep, CallerEnds, ProbeTimeout, AcquireTimeout,
                LifetimeEndsProbe, poolVars, slotVars, InFlight
  <1>3. ASSUME NEW x \in Closers, CloseStep(x)
        PROVE  Drained'
    <2>1. UNCHANGED <<pc, slot>> /\ InFlight' = InFlight
      BY <1>3 DEF CloseStep, CloseStart, CloseReturn, CloseExpire, checkVars,
                  slotVars, InFlight
    <2>2. finisher' = finisher \/ (finisher = "none" /\ finisher' = "waiting")
      BY <1>3 DEF CloseStep, CloseStart, CloseReturn, CloseExpire, poolVars, CloseLocked
    <2>3. \A y \in Closers : closer'[y] = "ok" => finisher' = "done"
      BY <1>3, <2>2 DEF CloseStep, CloseStart, CloseReturn, CloseExpire, TypeOK, poolVars
    <2> QED BY <2>1, <2>2, <2>3
  <1>4. CASE FinisherWaits
    <2>1. InFlight = {}
      BY <1>4, InFlightFinite, FS_EmptySet DEF FinisherWaits, WaitGroupExact
    <2> QED BY <1>4, <2>1 DEF FinisherWaits, checkVars, InFlight
  <1>5. CASE FinisherDone
    BY <1>5 DEF FinisherDone, checkVars, slotVars, InFlight
  <1>6. CASE NewStart \/ NewBackend \/ NewReturn \/ NewAbandon
    BY <1>6 DEF NewStart, NewBackend, NewReturn, NewAbandon, CloseLocked,
                checkVars, slotVars, InFlight
  <1>7. ASSUME NEW k \in Slots, SlotStep(k)
        PROVE  Drained'
    <2>1. UNCHANGED <<finisher, closer>> /\ InFlight' = InFlight
      BY <1>7 DEF SlotStep, BuildStart, LookupOk, DialStart, DialOk, BuildFail,
         DialCheck, DialWatch, BuildOk, WatcherFires, IdleDestroy, poolVars,
         checkVars, InFlight
    <2>2. finisher = "done" => UNCHANGED slot
      BY <1>7 DEF SlotStep, BuildStart, LookupOk, DialStart, DialOk, BuildFail,
         DialCheck, DialWatch, BuildOk, WatcherFires, IdleDestroy
    <2> QED BY <2>1, <2>2
  <1>8. CASE UNCHANGED vars
    BY <1>8 DEF vars, InFlight
  <1> QED
    BY <1>1, <1>2, <1>3, <1>4, <1>5, <1>6, <1>7, <1>8 DEF Next


\* A connection changes hands only in Acquire and in the deferred Release, and
\* no provider step touches a slot that is held.
LEMMA OwnedStep ==
    ASSUME IInv, [Next]_vars
    PROVE  ConnectionOwned'
  <1> USE DEF IInv, ConnectionOwned
  <1>1. ASSUME NEW c \in Checks, NEW k \in Slots, AcquireConn(c, k)
        PROVE  ConnectionOwned'
    <2>1. conn[c] = NoConn
      BY <1>1 DEF AcquireConn
    <2>2. \A d \in Checks : conn[d] # k
      BY <1>1, PoolConstants DEF AcquireConn
    <2> QED BY <1>1, <2>1, <2>2, PoolConstants DEF AcquireConn, Goto, TypeOK
  <1>2. ASSUME NEW c \in Checks, CheckRelease(c)
        PROVE  ConnectionOwned'
    <2>1. CASE conn[c] = NoConn
      BY <1>2, <2>1 DEF CheckRelease, Goto, TypeOK, slotVars
    <2>2. CASE conn[c] # NoConn
      <3>1. /\ slot' \in [Slots -> SlotStates]
            /\ \A j \in Slots : j # conn[c] => slot'[j] = slot[j]
            /\ slot'[conn[c]] \in {"idle", "empty"}
        BY <1>2, <2>2 DEF CheckRelease, TypeOK, slotVars, SlotStates
      <3>2. /\ conn'[c] = NoConn
            /\ \A d \in Checks : d # c => conn'[d] = conn[d] /\ pc'[d] = pc[d]
        BY <1>2 DEF CheckRelease, Goto, TypeOK
      <3>3. \A d \in Checks : d # c => conn[d] # conn[c]
        BY <2>2
      <3>4. \A d \in Checks : conn'[d] # NoConn =>
               /\ slot'[conn'[d]] = "held"
               /\ pc'[d] \in {"acquired", "admitted", "ping", "result", "release"}
        BY <3>1, <3>2, <3>3 DEF TypeOK
      <3>5. \A d, e \in Checks : conn'[d] # NoConn /\ conn'[d] = conn'[e] => d = e
        BY <3>2
      <3>6. \A j \in Slots : slot'[j] = "held" => \E d \in Checks : conn'[d] = j
        <4> SUFFICES ASSUME NEW j \in Slots, slot'[j] = "held"
                     PROVE  \E d \in Checks : conn'[d] = j
          OBVIOUS
        <4>1. j # conn[c] /\ slot[j] = "held"
          BY <3>1
        <4>2. PICK d \in Checks : conn[d] = j
          BY <4>1
        <4> QED BY <3>2, <4>1, <4>2
      <3> QED BY <3>4, <3>5, <3>6
    <2> QED BY <2>1, <2>2
  <1>3. ASSUME NEW c \in Checks,
               \/ CheckStart(c) \/ CheckRegister(c) \/ CheckArm(c) \/ AcquireFail(c)
               \/ CheckAcquired(c) \/ CheckProbeLive(c) \/ PingOk(c) \/ PingFail(c)
               \/ CheckResult(c) \/ CheckFinish(c) \/ ContextStep(c)
        PROVE  ConnectionOwned'
    <2>1. UNCHANGED <<conn, slot>>
      BY <1>3 DEF CheckStart, CheckRegister, CheckArm, AcquireFail, CheckAcquired,
         CheckProbeLive, PingOk, PingFail, CheckResult, CheckFinish, ContextStep,
         CallerEnds, ProbeTimeout, AcquireTimeout, LifetimeEndsProbe, slotVars
    <2>2. \A d \in Checks : d # c => pc'[d] = pc[d]
      BY <1>3 DEF CheckStart, CheckRegister, CheckArm, AcquireFail, CheckAcquired,
         CheckProbeLive, PingOk, PingFail, CheckResult, CheckFinish, ContextStep,
         CallerEnds, ProbeTimeout, AcquireTimeout, LifetimeEndsProbe, Goto, TypeOK
    <2>3. conn[c] # NoConn =>
             pc'[c] \in {"acquired", "admitted", "ping", "result", "release"}
      BY <1>3 DEF CheckStart, CheckRegister, CheckArm, AcquireFail, CheckAcquired,
         CheckProbeLive, PingOk, PingFail, CheckResult, CheckFinish, ContextStep,
         CallerEnds, ProbeTimeout, AcquireTimeout, LifetimeEndsProbe, Goto, TypeOK
    <2> QED BY <2>1, <2>2, <2>3
  <1>4. ASSUME NEW x \in Closers, CloseStep(x)
        PROVE  UNCHANGED <<pc, conn, slot>>
    BY <1>4 DEF CloseStep, CloseStart, CloseReturn, CloseExpire, checkVars, slotVars
  <1>5. CASE \/ FinisherWaits \/ FinisherDone
             \/ NewStart \/ NewBackend \/ NewReturn \/ NewAbandon
    BY <1>5 DEF FinisherWaits, FinisherDone, NewStart, NewBackend, NewReturn,
                NewAbandon, checkVars, slotVars
  <1>6. ASSUME NEW k \in Slots, SlotStep(k)
        PROVE  ConnectionOwned'
    <2>1. UNCHANGED <<pc, conn>>
      BY <1>6 DEF SlotStep, BuildStart, LookupOk, DialStart, DialOk, BuildFail,
         DialCheck, DialWatch, BuildOk, WatcherFires, IdleDestroy, checkVars
    <2>2. \A j \in Slots : slot'[j] = "held" <=> slot[j] = "held"
      BY <1>6 DEF SlotStep, BuildStart, LookupOk, DialStart, DialOk, BuildFail,
         DialCheck, DialWatch, BuildOk, WatcherFires, IdleDestroy, SetSlot,
         Discard, TypeOK
    <2> QED BY <2>1, <2>2 DEF TypeOK
  <1>7. CASE UNCHANGED vars
    BY <1>7 DEF vars
  <1> QED
    BY <1>1, <1>2, <1>3, <1>4, <1>5, <1>6, <1>7 DEF Next, CheckStep

\* Whatever empties a slot closes its socket.
LEMMA SocketStep ==
    ASSUME IInv, [Next]_vars
    PROVE  SocketsInSlots'
  <1> USE DEF IInv, SocketsInSlots
  <1>1. ASSUME NEW c \in Checks, CheckStep(c) \/ ContextStep(c)
        PROVE  SocketsInSlots'
    <2>1. ASSUME NEW k \in Slots, AcquireConn(c, k)
          PROVE  SocketsInSlots'
      BY <2>1 DEF AcquireConn, TypeOK
    <2>2. CASE CheckRelease(c)
      BY <2>2 DEF CheckRelease, slotVars, TypeOK
    <2>3. CASE \/ CheckStart(c) \/ CheckRegister(c) \/ CheckArm(c) \/ AcquireFail(c)
               \/ CheckAcquired(c) \/ CheckProbeLive(c) \/ PingOk(c) \/ PingFail(c)
               \/ CheckResult(c) \/ CheckFinish(c) \/ ContextStep(c)
      BY <2>3 DEF CheckStart, CheckRegister, CheckArm, AcquireFail, CheckAcquired,
         CheckProbeLive, PingOk, PingFail, CheckResult, CheckFinish, ContextStep,
         CallerEnds, ProbeTimeout, AcquireTimeout, LifetimeEndsProbe, slotVars
    <2> QED BY <1>1, <2>1, <2>2, <2>3 DEF CheckStep
  <1>2. ASSUME NEW x \in Closers, CloseStep(x)
        PROVE  SocketsInSlots'
    BY <1>2 DEF CloseStep, CloseStart, CloseReturn, CloseExpire, slotVars
  <1>3. CASE \/ FinisherWaits \/ FinisherDone
             \/ NewStart \/ NewBackend \/ NewReturn \/ NewAbandon
    BY <1>3 DEF FinisherWaits, FinisherDone, NewStart, NewBackend, NewReturn,
                NewAbandon, slotVars
  <1>4. ASSUME NEW k \in Slots, SlotStep(k)
        PROVE  SocketsInSlots'
    BY <1>4 DEF SlotStep, BuildStart, LookupOk, DialStart, DialOk, BuildFail,
                DialCheck, DialWatch, BuildOk, WatcherFires, IdleDestroy,
                SetSlot, Discard, TypeOK
  <1>5. CASE UNCHANGED vars
    BY <1>5 DEF vars
  <1> QED
    BY <1>1, <1>2, <1>3, <1>4, <1>5 DEF Next

\* p.result turns the value a call carries into its result.
LEMMA DecidedStep ==
    ASSUME IInv, [Next]_vars
    PROVE  Decided'
  <1> USE DEF IInv, Decided
  <1>1. ASSUME NEW c \in Checks, CheckStep(c)
        PROVE  Decided'
    <2>1. \A d \in Checks : d # c =>
             pc'[d] = pc[d] /\ fallback'[d] = fallback[d] /\ res'[d] = res[d]
      BY <1>1 DEF CheckStep, CheckStart, CheckRegister, CheckArm, AcquireConn,
         AcquireFail, CheckAcquired, CheckProbeLive, PingOk, PingFail, CheckResult,
         CheckRelease, CheckFinish, Goto, TypeOK
    <2>2. pc'[c] = "result" => fallback'[c] # "none"
      BY <1>1 DEF CheckStep, CheckStart, CheckRegister, CheckArm, AcquireConn,
         AcquireFail, CheckAcquired, CheckProbeLive, PingOk, PingFail, CheckResult,
         CheckRelease, CheckFinish, Goto, TypeOK
    <2>3. pc'[c] \in {"release", "finish"} => res'[c] # "none"
      BY <1>1 DEF CheckStep, CheckStart, CheckRegister, CheckArm, AcquireConn,
         AcquireFail, CheckAcquired, CheckProbeLive, PingOk, PingFail, CheckResult,
         ResultOf, CheckRelease, CheckFinish, Goto, TypeOK
    <2> QED BY <2>1, <2>2, <2>3
  <1>2. ASSUME NEW c \in Checks, ContextStep(c)
        PROVE  Decided'
    BY <1>2 DEF ContextStep, CallerEnds, ProbeTimeout, AcquireTimeout, LifetimeEndsProbe
  <1>3. ASSUME NEW x \in Closers, CloseStep(x)
        PROVE  Decided'
    BY <1>3 DEF CloseStep, CloseStart, CloseReturn, CloseExpire, checkVars
  <1>4. CASE \/ FinisherWaits \/ FinisherDone
             \/ NewStart \/ NewBackend \/ NewReturn \/ NewAbandon
    BY <1>4 DEF FinisherWaits, FinisherDone, NewStart, NewBackend, NewReturn,
                NewAbandon, checkVars
  <1>5. ASSUME NEW k \in Slots, SlotStep(k)
        PROVE  Decided'
    BY <1>5 DEF SlotStep, BuildStart, LookupOk, DialStart, DialOk, BuildFail,
                DialCheck, DialWatch, BuildOk, WatcherFires, IdleDestroy, checkVars
  <1>6. CASE UNCHANGED vars
    BY <1>6 DEF vars
  <1> QED
    BY <1>1, <1>2, <1>3, <1>4, <1>5, <1>6 DEF Next

-----------------------------------------------------------------------------
(* The theorems *)

LEMMA InitInv == Init => IInv
  <1> SUFFICES ASSUME Init PROVE IInv
    OBVIOUS
  <1>1. InFlight = {}
    BY DEF Init, InFlight, InFlightPcs
  <1>2. WaitGroupExact
    BY <1>1, FS_EmptySet DEF Init, WaitGroupExact
  <1>3. TypeOK
    BY DEF Init, TypeOK, CtorStates, BackendState, InFlightPcs, Results, SlotStates
  <1>4. ConnectionOwned
    BY DEF Init, ConnectionOwned
  <1>5. Shutdown /\ Drained /\ SocketsInSlots /\ Decided
    BY <1>1 DEF Init, Shutdown, Drained, SocketsInSlots, Decided
  <1> QED BY <1>2, <1>3, <1>4, <1>5 DEF IInv

\* The inductive invariant holds of every behaviour of the pool.
THEOREM PoolInvariant == Spec => []IInv
  <1>1. IInv /\ [Next]_vars => IInv'
    BY TypeStep, ShutdownStep, AdmissionStep, DrainedStep, OwnedStep,
       SocketStep, DecidedStep DEF IInv
  <1> QED BY InitInv, <1>1, PTL DEF Spec

\* Type correctness, including that the WaitGroup counter never goes negative.
THEOREM PoolTypeOK == Spec => []TypeOK
  <1>1. IInv => TypeOK
    BY DEF IInv
  <1> QED BY <1>1, PoolInvariant, PTL

\* The WaitGroup counts the running calls (pool.go 221-223).
THEOREM PoolWaitGroup == Spec => []WaitGroupExact
  <1>1. IInv => WaitGroupExact
    BY DEF IInv
  <1> QED BY <1>1, PoolInvariant, PTL

\* No connection leaks or is shared, on any return path of Check.
THEOREM PoolConnectionOwned == Spec => []ConnectionOwned
  <1>1. IInv => ConnectionOwned
    BY DEF IInv
  <1> QED BY <1>1, PoolInvariant, PTL

\* The provider is closed only after the last registered call is done.
THEOREM PoolNoProviderUse == Spec => []NoProviderUseAfterClose
  <1>1. IInv => NoProviderUseAfterClose
    BY DEF IInv, Shutdown, Drained, NoProviderUseAfterClose
  <1> QED BY <1>1, PoolInvariant, PTL

\* A nil from Close means that nothing of the pool is left.
THEOREM PoolQuiescent == Spec => []CloseOkMeansQuiescent
  <1>1. IInv => CloseOkMeansQuiescent
    BY DEF IInv, Drained, SocketsInSlots, CloseOkMeansQuiescent
  <1> QED BY <1>1, PoolInvariant, PTL

\* Once closed, only p.result could give a call its success, and it refuses.
LEMMA NoLateSuccess ==
    ASSUME IInv, Next, closed, NEW d \in Checks, res'[d] = "ok"
    PROVE  res[d] = "ok"
  <1>1. ASSUME NEW c \in Checks, CheckStep(c)
        PROVE  res[d] = "ok"
    BY <1>1 DEF CheckStep, CheckStart, CheckRegister, CheckArm, AcquireConn,
       AcquireFail, CheckAcquired, CheckProbeLive, PingOk, PingFail, CheckResult,
       ResultOf, CheckRelease, CheckFinish, IInv, TypeOK
  <1>2. ASSUME NEW c \in Checks, ContextStep(c)
        PROVE  res[d] = "ok"
    BY <1>2 DEF ContextStep, CallerEnds, ProbeTimeout, AcquireTimeout, LifetimeEndsProbe
  <1>3. ASSUME NEW x \in Closers, CloseStep(x)
        PROVE  res[d] = "ok"
    BY <1>3 DEF CloseStep, CloseStart, CloseReturn, CloseExpire, checkVars
  <1>4. CASE \/ FinisherWaits \/ FinisherDone
             \/ NewStart \/ NewBackend \/ NewReturn \/ NewAbandon
    BY <1>4 DEF FinisherWaits, FinisherDone, NewStart, NewBackend, NewReturn,
                NewAbandon, checkVars
  <1>5. ASSUME NEW k \in Slots, SlotStep(k)
        PROVE  res[d] = "ok"
    BY <1>5 DEF SlotStep, BuildStart, LookupOk, DialStart, DialOk, BuildFail,
                DialCheck, DialWatch, BuildOk, WatcherFires, IdleDestroy, checkVars
  <1> QED
    BY <1>1, <1>2, <1>3, <1>4, <1>5 DEF Next

\* From the step in which Close takes the lock, no call is admitted and no call
\* decides for success.
THEOREM PoolAfterClose == Spec => AfterClose
  <1>1. IInv /\ [Next]_vars =>
          [closed => /\ InFlight' \subseteq InFlight
                     /\ \A c \in Checks : res'[c] = "ok" => res[c] = "ok"]_vars
    <2> SUFFICES ASSUME IInv, Next, closed
                 PROVE  /\ InFlight' \subseteq InFlight
                        /\ \A c \in Checks : res'[c] = "ok" => res[c] = "ok"
      OBVIOUS
    <2> QED BY AdmissionStep, NoLateSuccess
  <1> QED BY <1>1, PoolInvariant, PTL DEF Spec, AfterClose


-----------------------------------------------------------------------------
(* The pool implements PoolContract *)

\* A step that neither decides, admits nor closes changes nothing the contract
\* sees of the calls.
LEMMA VerdictOthers ==
    ASSUME IInv, NEW c \in Checks, CheckStep(c)
    PROVE  \A d \in Checks : d # c => contractVerdict'[d] = contractVerdict[d]
  <1>1. \A d \in Checks : d # c => pc'[d] = pc[d] /\ res'[d] = res[d]
    BY DEF CheckStep, CheckStart, CheckRegister, CheckArm, AcquireConn,
       AcquireFail, CheckAcquired, CheckProbeLive, PingOk, PingFail, CheckResult,
       CheckRelease, CheckFinish, Goto, IInv, TypeOK
  <1> QED BY <1>1 DEF contractVerdict

LEMMA VerdictUpdate ==
    ASSUME IInv, NEW c \in Checks, CheckStep(c), NEW v, contractVerdict'[c] = v
    PROVE  contractVerdict' = [contractVerdict EXCEPT ![c] = v]
  <1> DEFINE updated == [contractVerdict EXCEPT ![c] = v]
  <1>1. DOMAIN contractVerdict = Checks /\ DOMAIN contractVerdict' = Checks
    BY DEF contractVerdict
  <1>2. \A d \in Checks : contractVerdict'[d] = updated[d]
    BY VerdictOthers, <1>1
  <1>3. /\ contractVerdict' = [d \in Checks |-> contractVerdict'[d]]
        /\ updated = [d \in Checks |-> updated[d]]
    BY <1>1 DEF contractVerdict
  <1> QED BY <1>2, <1>3

\* Steps outside Check leave the calls, and all but the closing steps the phase.
LEMMA CallsUnchanged ==
    ASSUME UNCHANGED <<pc, res>>
    PROVE  InFlight' = InFlight /\ contractVerdict' = contractVerdict
  BY DEF InFlight, contractVerdict

LEMMA ContractStep ==
    ASSUME IInv, [Next]_vars
    PROVE  [Contract!Next]_(Contract!contractVars)
  <1> USE DEF Contract!contractVars
  <1>1. ASSUME NEW c \in Checks, CheckStep(c)
        PROVE  [Contract!Next]_(Contract!contractVars)
    <2>1. contractPhase' = contractPhase
      BY <1>1 DEF contractPhase, CheckStep, CheckStart, CheckRegister, CheckArm,
         AcquireConn, AcquireFail, CheckAcquired, CheckProbeLive, PingOk, PingFail,
         CheckResult, CheckRelease, CheckFinish, poolVars
    <2>2. contractVerdict' = [contractVerdict EXCEPT ![c] = contractVerdict'[c]]
      BY <1>1, VerdictUpdate
    <2>3. CASE CheckStart(c)
      <3>1. InFlight' = InFlight /\ c \notin InFlight
        BY <2>3, InFlightSame DEF CheckStart, InFlight, InFlightPcs, IInv
      <3>2. contractVerdict'[c] \in {"none", "error"}
        BY <2>3 DEF CheckStart, Goto, contractVerdict, IInv, TypeOK
      <3>3. Contract!Begin(c) \/ Contract!Refuse(c)
        BY <2>1, <2>2, <3>1, <3>2 DEF Contract!Begin, Contract!Refuse
      <3> QED BY <3>3 DEF Contract!Next
    <2>4. CASE CheckRegister(c) /\ (closed \/ backend = "nil")
      <3>1. InFlight' = InFlight /\ c \notin InFlight
        BY <2>4, InFlightSame DEF CheckRegister, InFlight, InFlightPcs, IInv
      <3>2. contractVerdict'[c] = "error"
        BY <2>4 DEF CheckRegister, Goto, contractVerdict, IInv, TypeOK
      <3>3. Contract!Refuse(c)
        BY <2>1, <2>2, <3>1, <3>2 DEF Contract!Refuse
      <3> QED BY <3>3 DEF Contract!Next
    <2>5. CASE CheckRegister(c) /\ ~(closed \/ backend = "nil")
      <3>1. InFlight' = InFlight \cup {c} /\ c \notin InFlight
        BY <2>5, InFlightAdd DEF CheckRegister, InFlight, InFlightPcs, IInv
      <3>2. contractVerdict[c] = "none" /\ contractVerdict'[c] = "none"
        BY <2>5 DEF CheckRegister, Goto, contractVerdict, IInv, TypeOK
      <3>3. contractVerdict' = contractVerdict
        BY <2>2, <3>2 DEF contractVerdict
      <3>4. contractPhase = "open"
        BY <2>5 DEF contractPhase, IInv, Shutdown
      <3>5. Contract!Admit(c)
        BY <2>1, <3>1, <3>2, <3>3, <3>4 DEF Contract!Admit
      <3> QED BY <3>5 DEF Contract!Next
    <2>6. CASE \/ CheckArm(c) \/ AcquireFail(c) \/ CheckAcquired(c)
               \/ CheckProbeLive(c) \/ PingOk(c) \/ PingFail(c)
               \/ \E k \in Slots : AcquireConn(c, k)
      <3>1. InFlight' = InFlight
        BY <2>6, InFlightSame DEF CheckArm, AcquireFail, CheckAcquired,
           CheckProbeLive, PingOk, PingFail, AcquireConn, InFlightPcs, IInv
      <3>2. contractVerdict[c] = "none" /\ contractVerdict'[c] = "none"
        BY <2>6 DEF CheckArm, AcquireFail, CheckAcquired, CheckProbeLive, PingOk,
           PingFail, AcquireConn, Goto, contractVerdict, IInv, TypeOK
      <3>3. contractVerdict' = contractVerdict
        BY <2>2, <3>2 DEF contractVerdict
      <3> QED BY <2>1, <3>1, <3>3
    <2>7. CASE CheckResult(c)
      <3>1. InFlight' = InFlight /\ c \in InFlight
        BY <2>7, InFlightSame DEF CheckResult, InFlight, InFlightPcs, IInv
      <3>2. ResultOf(c) # "none" /\ (ResultOf(c) = "ok" => ~closed)
        BY <2>7 DEF CheckResult, ResultOf, IInv, Decided, TypeOK
      <3>3. contractVerdict[c] = "none"
        BY <2>7 DEF CheckResult, contractVerdict
      <3>4. /\ contractVerdict'[c] \in {"ok", "error"}
            /\ contractVerdict'[c] = "ok" => ~closed
        BY <2>7, <3>2 DEF CheckResult, Goto, contractVerdict, IInv, TypeOK
      <3>5. ~closed => contractPhase = "open"
        BY DEF contractPhase, IInv, Shutdown
      <3>6. Contract!Decide(c, contractVerdict'[c])
        BY <2>1, <2>2, <3>1, <3>3, <3>4, <3>5 DEF Contract!Decide
      <3> QED BY <3>4, <3>6 DEF Contract!Next
    <2>8. CASE CheckRelease(c)
      <3>1. InFlight' = InFlight
        BY <2>8, InFlightSame DEF CheckRelease, InFlightPcs, IInv
      <3>2. contractVerdict'[c] = contractVerdict[c]
        BY <2>8 DEF CheckRelease, Goto, contractVerdict, IInv, TypeOK
      <3>3. contractVerdict' = contractVerdict
        BY <2>2, <3>2 DEF contractVerdict
      <3> QED BY <2>1, <3>1, <3>3
    <2>9. CASE CheckFinish(c)
      <3>1. InFlight' = InFlight \ {c} /\ c \in InFlight
        BY <2>9, InFlightRemove DEF CheckFinish, InFlight, InFlightPcs, IInv
      <3>2. contractVerdict'[c] = contractVerdict[c] /\ contractVerdict[c] # "none"
        BY <2>9 DEF CheckFinish, Goto, contractVerdict, IInv, TypeOK, Decided
      <3>3. contractVerdict' = contractVerdict
        BY <2>2, <3>2 DEF contractVerdict
      <3>4. Contract!Leave(c)
        BY <2>1, <3>1, <3>2, <3>3 DEF Contract!Leave
      <3> QED BY <3>4 DEF Contract!Next
    <2> QED
      BY <1>1, <2>3, <2>4, <2>5, <2>6, <2>7, <2>8, <2>9 DEF CheckStep
  <1>2. ASSUME NEW c \in Checks, ContextStep(c)
        PROVE  UNCHANGED Contract!contractVars
    <2>1. UNCHANGED <<pc, res>> /\ contractPhase' = contractPhase
      BY <1>2 DEF ContextStep, CallerEnds, ProbeTimeout, AcquireTimeout,
                  LifetimeEndsProbe, poolVars, contractPhase
    <2> QED BY <2>1, CallsUnchanged
  <1>3. CASE NewAbandon \/ \E x \in Closers : CloseStep(x)
    <2>1. InFlight' = InFlight /\ contractVerdict' = contractVerdict
      BY <1>3, CallsUnchanged DEF NewAbandon, CloseStep, CloseStart, CloseReturn,
         CloseExpire, checkVars
    <2>2. \/ UNCHANGED <<closed, finisher>>
          \/ ~closed /\ closed' /\ finisher' = "waiting"
      BY <1>3 DEF NewAbandon, CloseStep, CloseStart, CloseReturn, CloseExpire,
                  poolVars, CloseLocked
    <2>3. \/ contractPhase' = contractPhase
          \/ contractPhase = "open" /\ contractPhase' = "closing"
      BY <2>2 DEF contractPhase, IInv, Shutdown
    <2> QED BY <2>1, <2>3 DEF Contract!Next, Contract!StartClose
  <1>4. CASE FinisherDone
    <2>1. InFlight' = InFlight /\ contractVerdict' = contractVerdict
      BY <1>4, CallsUnchanged DEF FinisherDone, checkVars
    <2>2. contractPhase = "closing" /\ contractPhase' = "closed" /\ InFlight = {}
      BY <1>4 DEF FinisherDone, contractPhase, IInv, Shutdown, Drained
    <2> QED BY <2>1, <2>2 DEF Contract!Next, Contract!FinishClose
  <1>5. CASE NewStart \/ NewBackend \/ NewReturn \/ FinisherWaits
    <2>1. UNCHANGED <<pc, res>> /\ contractPhase' = contractPhase
      BY <1>5 DEF NewStart, NewBackend, NewReturn, FinisherWaits, checkVars,
                  contractPhase, IInv, Shutdown
    <2> QED BY <2>1, CallsUnchanged
  <1>6. ASSUME NEW k \in Slots, SlotStep(k)
        PROVE  UNCHANGED Contract!contractVars
    <2>1. UNCHANGED <<pc, res>> /\ contractPhase' = contractPhase
      BY <1>6 DEF SlotStep, BuildStart, LookupOk, DialStart, DialOk, BuildFail,
         DialCheck, DialWatch, BuildOk, WatcherFires, IdleDestroy, poolVars,
         checkVars, contractPhase
    <2> QED BY <2>1, CallsUnchanged
  <1>7. CASE UNCHANGED vars
    <2>1. UNCHANGED <<pc, res>> /\ contractPhase' = contractPhase
      BY <1>7 DEF vars, contractPhase
    <2> QED BY <2>1, CallsUnchanged
  <1> QED
    BY <1>1, <1>2, <1>3, <1>4, <1>5, <1>6, <1>7 DEF Next

\* Every behaviour of the pool is a behaviour of its contract.
THEOREM PoolImplementsContract == Spec => ImplementsContract
  <1>1. Init => Contract!Init
    BY DEF Init, Contract!Init, contractPhase, contractVerdict, InFlight, InFlightPcs
  <1>2. IInv /\ [Next]_vars => [Contract!Next]_(Contract!contractVars)
    BY ContractStep
  <1> QED BY <1>1, <1>2, PoolInvariant, PTL DEF Spec, ImplementsContract, Contract!Spec


=============================================================================

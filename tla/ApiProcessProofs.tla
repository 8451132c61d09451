-------------------------- MODULE ApiProcessProofs --------------------------
(* Proofs of the safety properties of ApiProcess, for any number of requests. *)
EXTENDS ApiProcess, TLAPS

\* Where main is tells how far the server got.
MainPosition ==
    /\ main \in {"execute", "newPool", "build", "listen"} => serve = "none"
    /\ main \in {"execute", "newPool", "build", "listen", "select", "drain",
                 "cancelProbes", "delay", "shutdown"} => server = "up"
    /\ main \in {"cancelProbes", "delay", "shutdown", "awaitIdle", "collect",
                 "collectClosed", "deferCancel", "deferClose"} => draining
    /\ main = "closePool" => serve = "none" \/ (draining /\ server = "closed")
    /\ main \in {"execute", "newPool"} => ~pooled
    /\ exit = "running" <=> main # "exited"

\* Serve says ErrServerClosed only of a server that was stopped, and a handler
\* exists only once Serve has accepted.
ServeHonest ==
    /\ channel = "ErrServerClosed" => server # "up"
    /\ serve \in {"none", "spawned"} => Active = {}

\* After a complete Shutdown nothing is active; only that way does main reach its
\* deferred calls without an error.
CleanPath ==
    /\ main = "collect" => Active = {} /\ serve = "returned"
    /\ main \in {"deferDrain", "deferCancel", "deferClose", "closePool",
                 "awaitPool", "exit"} /\ errs = {} =>
          Active = {} /\ serve \in {"none", "returned"}
    /\ main = "exit" /\ errs = {} /\ pooled => phase = "closed"

IInv ==
    /\ TypeOK
    /\ MainPosition
    /\ ServeHonest
    /\ CleanPath
    /\ DrainBeforeStop
    /\ PoolClosesLast
    /\ ExitZeroIsClean

-----------------------------------------------------------------------------

LEMMA InitInv == Init => IInv
  <1> SUFFICES ASSUME Init PROVE IInv
    OBVIOUS
  <1>1. Active = {}
    BY DEF Init, Active, ActivePcs
  <1>2. TypeOK
    BY DEF Init, TypeOK, MainPcs, ActivePcs, Pool!Init, Pool!TypeOK
  <1>3. MainPosition /\ ServeHonest /\ CleanPath
    BY <1>1 DEF Init, MainPosition, ServeHonest, CleanPath
  <1>4. DrainBeforeStop /\ PoolClosesLast /\ ExitZeroIsClean
    BY DEF Init, DrainBeforeStop, PoolClosesLast, ExitZeroIsClean, Pool!Init
  <1> QED BY <1>2, <1>3, <1>4 DEF IInv

\* A step of main leaves the handlers and the pool's calls alone.
LEMMA MainFrame ==
    ASSUME MainStep
    PROVE  UNCHANGED <<req, gone, probeErr, status, admitted, verdict, signalled, defaults>>
  BY DEF MainStep, Execute, NewPool, BuildRuntime, Listen, SelectServe, SelectSignal,
     BeginDrain, CancelProbes, DrainDelayOver, DrainDelayServe, ShutdownStart,
     ShutdownOk, ShutdownExpired, Collect, CollectClosed, DeferClose, ClosePool,
     ClosePoolOk, ClosePoolExpired, Exit, mainVars, reqVars, poolVars,
     Pool!StartClose

\* A step of a handler leaves everything but the handlers and the pool's calls.
LEMMA RequestFrame ==
    ASSUME TypeOK, NEW r \in Requests, RequestStep(r)
    PROVE  /\ UNCHANGED <<main, signalled, defaults, exit, errs, pooled, draining,
                          drainDone, serve, channel, server, phase>>
           /\ serve # "accepting" => Active' \subseteq Active
  <1>1. UNCHANGED <<main, signalled, defaults, exit, errs, pooled, draining,
                    drainDone, serve, channel, server, phase>>
    BY DEF RequestStep, Accept, Route, Live, ReadyEntry, ReadyArmed, CheckRefused,
       CheckAdmitted, CheckDecides, CheckReturns, ReadyFinal, Write, RequestEnds,
       ReadinessTimeout, DrainEndsProbe, mainVars, healthVars, serverVars, poolVars,
       Pool!Begin, Pool!Refuse, Pool!Admit, Pool!Decide, Pool!Leave
  <1>2. ASSUME serve # "accepting", NEW q \in Requests, req'[q] \in ActivePcs
        PROVE  req[q] \in ActivePcs
    BY <1>2 DEF RequestStep, Accept, Route, Live, ReadyEntry, ReadyArmed, CheckRefused,
       CheckAdmitted, CheckDecides, CheckReturns, ReadyFinal, Write, RequestEnds,
       ReadinessTimeout, DrainEndsProbe, Goto, Respond, ActivePcs, reqVars, TypeOK
  <1> QED BY <1>1, <1>2 DEF Active

-----------------------------------------------------------------------------
(* Type correctness *)

LEMMA ReceivedTypes ==
    ASSUME TypeOK, Received
    PROVE  /\ main' \in MainPcs
           /\ errs' \subseteq Errors
           /\ channel' \in {"empty", "ErrServerClosed", "failed"}
  <1>1. main' = "deferDrain" /\ channel' = "empty"
    BY DEF Received, Fail
  <1>2. errs' = errs \/ errs' = errs \cup {"ErrAPIServe"}
    BY DEF Received, Fail
  <1>3. errs \subseteq Errors /\ "ErrAPIServe" \in Errors
    BY DEF TypeOK, Errors
  <1>4. errs' \subseteq Errors
    BY <1>2, <1>3
  <1> QED BY <1>1, <1>4 DEF MainPcs

LEMMA TypeStep ==
    ASSUME IInv, [Next]_vars
    PROVE  TypeOK'
  <1>0. TypeOK
    BY DEF IInv
  <1> USE <1>0 DEF TypeOK, MainPcs, Errors, ActivePcs, Pool!TypeOK
  <1>1. CASE MainStep
    <2> SUFFICES /\ main' \in MainPcs
                 /\ exit' \in {"running", "0", "1", "2", "killed"}
                 /\ errs' \subseteq Errors
                 /\ pooled' \in BOOLEAN
                 /\ draining' \in BOOLEAN
                 /\ drainDone' \in BOOLEAN
                 /\ serve' \in {"none", "spawned", "accepting", "returned"}
                 /\ channel' \in {"empty", "ErrServerClosed", "failed"}
                 /\ server' \in {"up", "shutdown", "closed"}
                 /\ phase' \in {"open", "closing", "closed"}
      BY <1>1, MainFrame
    <2> USE DEF mainVars, healthVars, serverVars, poolVars
    <2>1. CASE Execute
      BY <2>1 DEF Execute
    <2>2. CASE NewPool
      <3>1. CASE pooled' = TRUE /\ main' = "build" /\ UNCHANGED errs
        BY <2>2, <3>1 DEF NewPool, Fail
      <3>2. CASE Fail("ErrAPIStartup", "exit") /\ UNCHANGED pooled
        BY <2>2, <3>2 DEF NewPool, Fail
      <3> QED BY <2>2, <3>1, <3>2 DEF NewPool
    <2>3. CASE BuildRuntime
      <3>1. CASE main' = "listen" /\ UNCHANGED errs
        BY <2>3, <3>1 DEF BuildRuntime, Fail
      <3>2. CASE Fail("ErrAPIStartup", "closePool")
        BY <2>3, <3>2 DEF BuildRuntime, Fail
      <3> QED BY <2>3, <3>1, <3>2 DEF BuildRuntime
    <2>4. CASE Listen
      <3>1. CASE serve' = "spawned" /\ main' = "select" /\ UNCHANGED errs
        BY <2>4, <3>1 DEF Listen, Fail
      <3>2. CASE Fail("ErrAPIListen", "deferDrain") /\ UNCHANGED serve
        BY <2>4, <3>2 DEF Listen, Fail
      <3> QED BY <2>4, <3>1, <3>2 DEF Listen
    <2>5. CASE SelectServe
      BY <2>5, ReceivedTypes DEF SelectServe
    <2>6. CASE SelectSignal
      BY <2>6 DEF SelectSignal
    <2>7. CASE BeginDrain
      BY <2>7 DEF BeginDrain
    <2>8. CASE CancelProbes
      BY <2>8 DEF CancelProbes
    <2>9. CASE DrainDelayOver
      BY <2>9 DEF DrainDelayOver
    <2>10. CASE DrainDelayServe
      BY <2>10, ReceivedTypes DEF DrainDelayServe
    <2>11. CASE ShutdownStart
      BY <2>11 DEF ShutdownStart
    <2>12. CASE ShutdownOk
      BY <2>12 DEF ShutdownOk
    <2>13. CASE ShutdownExpired
      BY <2>13 DEF ShutdownExpired
    <2>14. CASE Collect
      BY <2>14, ReceivedTypes DEF Collect
    <2>15. CASE CollectClosed
      BY <2>15 DEF CollectClosed, Fail
    <2>16. CASE DeferClose
      BY <2>16 DEF DeferClose
    <2>17. CASE ClosePool
      BY <2>17 DEF ClosePool, Pool!StartClose
    <2>18. CASE ClosePoolOk
      BY <2>18 DEF ClosePoolOk
    <2>19. CASE ClosePoolExpired
      BY <2>19 DEF ClosePoolExpired, Fail
    <2>20. CASE Exit
      BY <2>20 DEF Exit
    <2> QED
      BY <1>1, <2>1, <2>2, <2>3, <2>4, <2>5, <2>6, <2>7, <2>8, <2>9, <2>10,
         <2>11, <2>12, <2>13, <2>14, <2>15, <2>16, <2>17, <2>18, <2>19, <2>20
      DEF MainStep
  <1>2. CASE \/ FirstSignal \/ RestoreDefaults \/ SecondSignal
             \/ ServeBegin \/ ServeStopped \/ ServeFails
    <2> USE DEF mainVars, healthVars, serverVars, reqVars, poolVars
    <2>1. CASE FirstSignal
      BY <2>1 DEF FirstSignal
    <2>2. CASE RestoreDefaults
      BY <2>2 DEF RestoreDefaults
    <2>3. CASE SecondSignal
      BY <2>3 DEF SecondSignal
    <2>4. CASE ServeBegin
      BY <2>4 DEF ServeBegin
    <2>5. CASE ServeStopped
      BY <2>5 DEF ServeStopped
    <2>6. CASE ServeFails
      BY <2>6 DEF ServeFails
    <2> QED BY <1>2, <2>1, <2>2, <2>3, <2>4, <2>5, <2>6
  <1>3. CASE PoolClosed
    BY <1>3 DEF PoolClosed, mainVars, healthVars, serverVars, reqVars, Pool!FinishClose
  <1>4. ASSUME NEW r \in Requests, RequestStep(r)
        PROVE  TypeOK'
    <2> SUFFICES /\ req' \in [Requests -> ActivePcs \cup {"none", "done"}]
                 /\ gone' \in [Requests -> BOOLEAN]
                 /\ probeErr' \in [Requests -> BOOLEAN]
                 /\ status' \in [Requests -> {0, 200, 400, 503}]
                 /\ admitted' \subseteq Requests
                 /\ verdict' \in [Requests -> {"none", "ok", "error"}]
      <3>1. UNCHANGED <<main, signalled, defaults, exit, errs, pooled, draining,
                        drainDone, serve, channel, server, phase>>
        BY <1>4, RequestFrame
      <3> QED BY <3>1
    <2>1. CASE Accept(r) \/ Route(r) \/ Live(r) \/ Write(r) \/ ReadyFinal(r)
      BY <2>1 DEF Accept, Route, Live, Write, ReadyFinal, Goto, Respond, poolVars
    <2>2. CASE ReadyEntry(r)
      BY <2>2 DEF ReadyEntry, Goto, Respond, poolVars
    <2>3. CASE ReadyArmed(r)
      BY <2>3 DEF ReadyArmed, Goto, Respond, poolVars, Pool!Begin
    <2>4. CASE CheckRefused(r) \/ CheckAdmitted(r) \/ CheckReturns(r)
      BY <2>4 DEF CheckRefused, CheckAdmitted, CheckReturns, Goto, Pool!Refuse,
                  Pool!Admit, Pool!Leave
    <2>5. ASSUME NEW v \in {"ok", "error"}, CheckDecides(r, v)
          PROVE  /\ UNCHANGED <<req, gone, probeErr, status, admitted>>
                 /\ verdict' \in [Requests -> {"none", "ok", "error"}]
      BY <2>5 DEF CheckDecides, reqVars, Pool!Decide
    <2>6. CASE RequestEnds(r)
      BY <2>6 DEF RequestEnds, poolVars
    <2>7. CASE ReadinessTimeout(r)
      BY <2>7 DEF ReadinessTimeout, poolVars
    <2>8. CASE DrainEndsProbe(r)
      BY <2>8 DEF DrainEndsProbe, poolVars
    <2> QED BY <1>4, <2>1, <2>2, <2>3, <2>4, <2>5, <2>6, <2>7, <2>8 DEF RequestStep
  <1>5. CASE UNCHANGED vars
    BY <1>5 DEF vars
  <1> QED BY <1>1, <1>2, <1>3, <1>4, <1>5 DEF Next

-----------------------------------------------------------------------------
(* The other conjuncts *)

LEMMA MainKeeps ==
    ASSUME IInv, MainStep, exit = "running"
    PROVE  MainPosition' /\ ServeHonest' /\ DrainBeforeStop' /\ PoolClosesLast'
  <1> USE DEF IInv, MainPosition, ServeHonest, DrainBeforeStop, PoolClosesLast
  <1>1. Active' = Active
    BY MainFrame DEF Active
  <1>2. CASE Execute \/ NewPool \/ BuildRuntime \/ Listen
    BY <1>1, <1>2 DEF Execute, NewPool, BuildRuntime, Listen, Fail, mainVars,
       healthVars, serverVars, poolVars
  <1>3. CASE SelectServe \/ SelectSignal \/ DrainDelayServe \/ Collect \/ CollectClosed
    BY <1>1, <1>3 DEF SelectServe, SelectSignal, DrainDelayServe, Collect,
       CollectClosed, Received, Fail, mainVars, healthVars, serverVars, poolVars
  <1>4. CASE BeginDrain \/ CancelProbes \/ DrainDelayOver
    BY <1>1, <1>4 DEF BeginDrain, CancelProbes, DrainDelayOver, mainVars,
       healthVars, serverVars, poolVars
  <1>5. CASE ShutdownStart \/ ShutdownOk \/ ShutdownExpired \/ DeferClose
    BY <1>1, <1>5 DEF ShutdownStart, ShutdownOk, ShutdownExpired, DeferClose,
       mainVars, healthVars, serverVars, poolVars
  <1>6. CASE ClosePool \/ ClosePoolOk \/ ClosePoolExpired \/ Exit
    BY <1>1, <1>6 DEF ClosePool, ClosePoolOk, ClosePoolExpired, Exit, Fail,
       mainVars, healthVars, serverVars, poolVars, Pool!StartClose
  <1> QED BY <1>2, <1>3, <1>4, <1>5, <1>6 DEF MainStep

LEMMA MainKeepsClean ==
    ASSUME IInv, MainStep, exit = "running"
    PROVE  CleanPath' /\ ExitZeroIsClean'
  <1> USE DEF IInv, MainPosition, ServeHonest, CleanPath, ExitZeroIsClean, TypeOK
  <1>1. Active' = Active
    BY MainFrame DEF Active
  <1>2. CASE Execute \/ NewPool \/ BuildRuntime \/ Listen
    BY <1>1, <1>2 DEF Execute, NewPool, BuildRuntime, Listen, Fail, mainVars,
       healthVars, serverVars, poolVars
  <1>3. CASE SelectServe \/ SelectSignal \/ DrainDelayServe \/ Collect \/ CollectClosed
    BY <1>1, <1>3 DEF SelectServe, SelectSignal, DrainDelayServe, Collect,
       CollectClosed, Received, Fail, mainVars, healthVars, serverVars, poolVars
  <1>4. CASE BeginDrain \/ CancelProbes \/ DrainDelayOver
    BY <1>1, <1>4 DEF BeginDrain, CancelProbes, DrainDelayOver, mainVars,
       healthVars, serverVars, poolVars
  <1>5. CASE ShutdownStart \/ ShutdownOk \/ ShutdownExpired \/ DeferClose
    BY <1>1, <1>5 DEF ShutdownStart, ShutdownOk, ShutdownExpired, DeferClose,
       mainVars, healthVars, serverVars, poolVars
  <1>6. CASE ClosePool \/ ClosePoolOk \/ ClosePoolExpired \/ Exit
    BY <1>1, <1>6 DEF ClosePool, ClosePoolOk, ClosePoolExpired, Exit, Fail,
       mainVars, healthVars, serverVars, poolVars, Pool!StartClose
  <1> QED BY <1>2, <1>3, <1>4, <1>5, <1>6 DEF MainStep

LEMMA OthersKeep ==
    ASSUME IInv, exit = "running",
           \/ FirstSignal \/ RestoreDefaults \/ SecondSignal
           \/ ServeBegin \/ ServeStopped \/ ServeFails \/ PoolClosed
           \/ \E r \in Requests : RequestStep(r)
    PROVE  /\ MainPosition' /\ ServeHonest' /\ CleanPath'
           /\ DrainBeforeStop' /\ PoolClosesLast' /\ ExitZeroIsClean'
  <1> USE DEF IInv, MainPosition, ServeHonest, CleanPath, DrainBeforeStop,
              PoolClosesLast, ExitZeroIsClean, TypeOK
  <1>1. CASE FirstSignal \/ RestoreDefaults \/ SecondSignal
    BY <1>1 DEF FirstSignal, RestoreDefaults, SecondSignal, healthVars,
       serverVars, reqVars, poolVars, Active
  <1>2. CASE ServeBegin \/ ServeStopped \/ ServeFails
    BY <1>2 DEF ServeBegin, ServeStopped, ServeFails, mainVars, healthVars,
       reqVars, poolVars, Active
  <1>3. CASE PoolClosed
    BY <1>3 DEF PoolClosed, mainVars, healthVars, serverVars, reqVars, Active,
       Pool!FinishClose
  <1>4. ASSUME NEW r \in Requests, RequestStep(r)
        PROVE  /\ MainPosition' /\ ServeHonest' /\ CleanPath'
               /\ DrainBeforeStop' /\ PoolClosesLast' /\ ExitZeroIsClean'
    BY <1>4, RequestFrame
  <1> QED BY <1>1, <1>2, <1>3, <1>4

\* The inductive invariant holds of every behaviour of the process.
THEOREM ProcessInvariant == Spec => []IInv
  <1>1. ASSUME IInv, [Next]_vars
        PROVE  IInv'
    <2>1. CASE Next
      BY <1>1, <2>1, TypeStep, MainKeeps, MainKeepsClean, OthersKeep DEF Next, IInv
    <2>2. CASE UNCHANGED vars
      BY <1>1, <2>2 DEF vars, IInv, TypeOK, MainPosition, ServeHonest, CleanPath,
         DrainBeforeStop, PoolClosesLast, ExitZeroIsClean, Active, Pool!TypeOK
    <2> QED BY <1>1, <2>1, <2>2
  <1> QED BY InitInv, <1>1, PTL DEF Spec

\* Type correctness of the whole process.
THEOREM ProcessTypeOK == Spec => []TypeOK
  <1>1. IInv => TypeOK
    BY DEF IInv
  <1> QED BY <1>1, ProcessInvariant, PTL

\* On every return path of runAPI health drains before the listener stops, and
\* the pool is closed after the server, never before.
THEOREM ProcessShutdownOrder == Spec => []ShutdownOrder
  <1>1. IInv => ShutdownOrder
    BY DEF IInv, ShutdownOrder
  <1> QED BY <1>1, ProcessInvariant, PTL

\* Exit code 0 means: pool down, every accepted request answered.
THEOREM ProcessExitZeroIsClean == Spec => []ExitZeroIsClean
  <1>1. IInv => ExitZeroIsClean
    BY DEF IInv
  <1> QED BY <1>1, ProcessInvariant, PTL

-----------------------------------------------------------------------------
(* The action properties *)

\* Only Live and ReadyFinal decide for 200, and both look at draining.
LEMMA SuccessStep ==
    ASSUME IInv, Next, NEW q \in Requests, status'[q] = 200, status[q] # 200
    PROVE  /\ ~draining
           /\ req[q] = "final" => verdict[q] = "ok"
  <1> USE DEF IInv, TypeOK
  <1>1. CASE MainStep
    BY <1>1, MainFrame
  <1>2. CASE \/ FirstSignal \/ RestoreDefaults \/ SecondSignal
             \/ ServeBegin \/ ServeStopped \/ ServeFails \/ PoolClosed
    BY <1>2 DEF FirstSignal, RestoreDefaults, SecondSignal, ServeBegin,
       ServeStopped, ServeFails, PoolClosed, reqVars
  <1>3. ASSUME NEW r \in Requests, RequestStep(r)
        PROVE  /\ ~draining
               /\ req[q] = "final" => verdict[q] = "ok"
    <2>1. CASE Live(r) \/ ReadyFinal(r)
      BY <2>1 DEF Live, ReadyFinal, Respond
    <2>2. CASE Route(r) \/ ReadyEntry(r) \/ ReadyArmed(r)
      BY <2>2 DEF Route, ReadyEntry, ReadyArmed, Respond
    <2>3. CASE \/ Accept(r) \/ CheckRefused(r) \/ CheckAdmitted(r)
               \/ (\E v \in {"ok", "error"} : CheckDecides(r, v))
               \/ CheckReturns(r) \/ Write(r) \/ RequestEnds(r)
               \/ ReadinessTimeout(r) \/ DrainEndsProbe(r)
      BY <2>3 DEF Accept, CheckRefused, CheckAdmitted, CheckDecides, CheckReturns,
         Write, RequestEnds, ReadinessTimeout, DrainEndsProbe, reqVars
    <2> QED BY <1>3, <2>1, <2>2, <2>3 DEF RequestStep
  <1> QED BY <1>1, <1>2, <1>3 DEF Next

\* No 200 is decided after the drain has begun.
THEOREM ProcessNoSuccessAfterDrain == Spec => NoSuccessAfterDrain
  <1>1. IInv /\ [Next]_vars =>
          [draining => \A r \in Requests : status'[r] = 200 => status[r] = 200]_vars
    BY SuccessStep
  <1> QED BY <1>1, ProcessInvariant, PTL DEF Spec, NoSuccessAfterDrain

\* The last test of GetHealthReady is the only way from "final" to a response.
LEMMA FinalStep ==
    ASSUME IInv, Next, NEW q \in Requests, req[q] = "final", req'[q] = "write"
    PROVE  ReadyFinal(q)
  <1> USE DEF IInv, TypeOK
  <1>1. ~MainStep
    BY MainFrame
  <1>2. ~(\/ FirstSignal \/ RestoreDefaults \/ SecondSignal
          \/ ServeBegin \/ ServeStopped \/ ServeFails \/ PoolClosed)
    BY DEF FirstSignal, RestoreDefaults, SecondSignal, ServeBegin,
       ServeStopped, ServeFails, PoolClosed, reqVars
  <1>3. PICK r \in Requests : RequestStep(r)
    BY <1>1, <1>2 DEF Next
  <1>4. CASE r = q
    BY <1>3, <1>4 DEF RequestStep, Accept, Route, Live, ReadyEntry, ReadyArmed,
       CheckRefused, CheckAdmitted, CheckDecides, CheckReturns, Write, RequestEnds,
       ReadinessTimeout, DrainEndsProbe, reqVars
  <1>5. CASE r # q
    BY <1>3, <1>5 DEF RequestStep, Accept, Route, Live, ReadyEntry, ReadyArmed,
       CheckRefused, CheckAdmitted, CheckDecides, CheckReturns, ReadyFinal, Write,
       RequestEnds, ReadinessTimeout, DrainEndsProbe, Goto, Respond, reqVars
  <1> QED BY <1>4, <1>5

\* A 200 for readiness rests on this request's probe, an open pool and a server
\* that still accepts.
THEOREM ProcessReadyIsTrue == Spec => ReadyIsTrue
  <1>1. ASSUME IInv, Next, NEW r \in Requests, req[r] = "final", req'[r] = "write",
               status'[r] = 200
        PROVE  verdict[r] = "ok" /\ phase = "open" /\ server = "up"
    <2>1. verdict[r] = "ok" /\ ~draining
      BY <1>1, FinalStep DEF ReadyFinal, Respond, IInv, TypeOK
    <2>2. server = "up"
      BY <1>1, <2>1 DEF IInv, DrainBeforeStop
    <2>3. r \in Active
      BY <1>1 DEF Active, ActivePcs
    <2>4. serve # "none"
      BY <1>1, <2>3 DEF IInv, ServeHonest
    <2>5. phase = "open"
      BY <1>1, <2>1, <2>4 DEF IInv, PoolClosesLast
    <2> QED BY <2>1, <2>2, <2>5
  <1>2. IInv /\ [Next]_vars =>
          [\A r \in Requests :
             req[r] = "final" /\ req'[r] = "write" /\ status'[r] = 200 =>
                 verdict[r] = "ok" /\ phase = "open" /\ server = "up"]_vars
    BY <1>1
  <1> QED BY <1>2, ProcessInvariant, PTL DEF Spec, ReadyIsTrue

=============================================================================

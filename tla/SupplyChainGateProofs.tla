----------------------- MODULE SupplyChainGateProofs -----------------------
(***************************************************************************)
(* Proofs about SupplyChainGate.  Every stage of runGate is a host stage   *)
(* or a scan, so each kind is proved once and the stages only name their   *)
(* successor, their codes and the check they record.                       *)
(***************************************************************************)
EXTENDS SupplyChainGate, FiniteSetTheorems, TLAPS

USE DEF Jobs, Evidence

\* The stages of the try block.
Working == HostStages \cup ImageStages \cup Scans

\* Where the gate is: its document in memory and the place of the evidence.
Position ==
    /\ pc \in Working => ev = InProgress
    /\ pc \in FinalStages => ev.status \in {"PASS", "FAIL"}
    /\ pc \notin Ended => (ev.status = "PASS" <=> ev.exit = "PASS")
    /\ pc \notin Ended /\ ev.status # "FAIL" => raised = {}
    /\ pc = "verifySources" => ev.status = "PASS"
    /\ pc = "fallback" => ev.status = "FAIL"
    /\ pc = "start" => ~tmp
    /\ pc \in {"start", "prepare"} => ~ready
    /\ pc \in Working \ {"start", "prepare"} => ready
    /\ pc \in FinalStages /\ ev.status = "PASS" => ready
    /\ pc \in {"writeTemporary", "link", "linked", "fallback"} => ready
    /\ job.phase # "idle" => pc \in Scans

\* What is on disk while the gate runs.
Documents ==
    /\ pc \notin Ended => exit = "none" /\ fallback = {}
    /\ pc \notin Ended \cup {"linked"} => published = Nothing
    /\ pc = "linked" => /\ published.status = ev.status /\ published.exit = ev.exit
                        /\ raised \subseteq published.faults
    /\ pc \in {"writeTemporary", "link"} /\ ev.status = "PASS" => checks = TerminalChecks
    /\ pc \in FinalStages \ {"cleanTemporary"} /\ ev.status = "PASS" => ~tmp

\* The container of a scan: one whose client ended as accepted has run, and none is
\* left when the scan is over and has not failed.
Contained ==
    /\ job.phase # "idle" /\ job.end = "accepted" => container \in {"exited", "gone"}
    /\ job.phase = "result" /\ job.end = "accepted" => container = "gone"
    /\ pc \notin Ended /\ ev.status # "FAIL" /\ job.phase = "idle" =>
          container \in {"none", "gone"}
    /\ job.phase = "faulty" => job.faults # {}

\* A scan that read a changed input will be noticed: by the stage itself, which
\* verifies the Go inputs again, or by the seal of the databases.
Noticed ==
    /\ pc \in Working =>
          \A x \in staleReads : \/ x \in ReadDatabases /\ "database" \in changed
                                \/ x \in GoVerifiedAfter /\ "goInput" \in changed /\ pc = x
    /\ pc = "gate" => staleReads = {}
    /\ pc \in FinalStages /\ ev.status = "PASS" => staleReads = {}

\* A fault is named in the failure of the evidence, at most n levels deep.
Named(f, n) == \E x \in ev.failure : x.fault = f /\ x.depth <= n

\* More than one fault of the same scan.
Double == Cardinality(raised \cap {"launch", "recording", "control", "cleanup"}) >= 2

\* How deep a fault can be by now: the temporary root, the write and the fallback
\* put one level each on top, and only a double fault starts below the top.
Depths ==
    \A f \in raised :
       /\ pc = "cleanTemporary" => Named(f, 2) /\ (Double \/ Named(f, 0))
       /\ pc \in {"verifySources", "validate", "writeTemporary", "link", "linked"} =>
             Named(f, 3) /\ ((Double /\ "temporary" \in raised) \/ Named(f, 2))
       /\ pc = "fallback" =>
             Named(f, 4) /\ ((Double /\ {"temporary", "write"} \subseteq raised) \/ Named(f, 3))

IInv ==
    /\ TypeOK /\ Position /\ Documents /\ Contained /\ Noticed /\ Depths
    /\ VerdictAgrees /\ PassIsEarned /\ FaultsReported

-----------------------------------------------------------------------------
(* Kinds of stages *)

LEMMA StageKinds ==
    /\ Working \cap FinalStages = {} /\ Working \cap Ended = {} /\ FinalStages \cap Ended = {}
    /\ Scans \subseteq Working \ {"start", "prepare", "gate"}
    /\ {"start", "prepare", "source", "gate"} \cap Scans = {}
    /\ {"start", "prepare", "source", "gate"} \subseteq Working
<1>1. Working \cap FinalStages = {} /\ Working \cap Ended = {} /\ FinalStages \cap Ended = {}
    BY DEF Working, HostStages, ImageStages, Scans, FinalStages, Ended
<1>2. Scans \subseteq Working \ {"start", "prepare", "gate"}
    BY DEF Working, Scans
<1>3. {"start", "prepare", "source", "gate"} \cap Scans = {}
    BY DEF Scans
<1>4. {"start", "prepare", "source", "gate"} \subseteq Working
    BY DEF Working, HostStages
<1>5. QED
    BY <1>1, <1>2, <1>3, <1>4

LEMMA HostKinds ==
    ASSUME NEW s \in (HostStages \cup ImageStages) \ {"start", "prepare"}
    PROVE  s \in Working \ {"start", "prepare"} /\ s \notin Scans /\ s \notin GoVerifiedAfter
    BY DEF Working, HostStages, ImageStages, Scans, GoVerifiedAfter

\* Nothing has been raised or published while runGate works.
LEMMA WorkingFacts ==
    ASSUME IInv, pc \in Working
    PROVE  /\ ev.status = "IN_PROGRESS" /\ ev.exit = "INTERNAL" /\ ev.failure = {}
           /\ raised = {} /\ published.status = "none" /\ exit = "none" /\ fallback = {}
           /\ pc \notin FinalStages /\ pc \notin Ended
<1>1. pc \notin FinalStages /\ pc \notin Ended /\ pc # "linked"
    BY StageKinds DEF FinalStages
<1>2. ev = InProgress /\ published = Nothing /\ exit = "none" /\ fallback = {}
    BY <1>1 DEF IInv, Position, Documents
<1>3. QED
    BY <1>1, <1>2 DEF IInv, Position, InProgress, Nothing, NoFailure

-----------------------------------------------------------------------------
(* How a stage ends *)

ScanFaults == {"launch", "recording", "control", "cleanup"}

\* The catch block of executeSupplyChainGate.
LEMMA FailStep ==
    ASSUME IInv, pc \in Working,
           NEW code \in Codes, NEW tree \in SUBSET [fault : Faults, depth : Nat],
           NEW faults \in SUBSET Faults, NEW blank \in BOOLEAN,
           Fail(code, tree, faults, blank), ready' \in BOOLEAN,
           UNCHANGED <<checks, schema, sameRoot, tmp, published, fallback, exit, envVars>>,
           \A f \in faults :
              /\ \E x \in tree : x.fault = f /\ x.depth <= 2
              /\ \/ Cardinality(faults \cap ScanFaults) >= 2
                 \/ \E x \in tree : x.fault = f /\ x.depth <= 0
    PROVE  IInv'
<1>1. /\ ev' = [status |-> "FAIL", exit |-> code, failure |-> tree, blank |-> blank]
      /\ pc' = "cleanTemporary" /\ job' = Idle
    BY DEF Fail
<1>2. raised' = faults /\ published.status = "none" /\ exit = "none" /\ fallback = {}
    BY WorkingFacts DEF Fail
<1>3. published = Nothing
    BY StageKinds DEF IInv, Documents, FinalStages
<1>4. /\ ev'.status = "FAIL" /\ ev'.exit = code /\ ev'.failure = tree /\ code # "PASS"
      /\ job'.phase = "idle" /\ pc' \in FinalStages /\ pc' \notin Ended /\ pc' \notin Working
    BY <1>1, StageKinds DEF Idle, FinalStages, Codes
<1>5. TypeOK'
  <2>1. ev' \in Evidence
    BY <1>1
  <2>2. job' \in Jobs
    BY <1>1 DEF Idle
  <2>3. TypeOK /\ UNCHANGED <<checks, schema, sameRoot, tmp, published, fallback, exit,
                              container, changed, staleReads>>
    BY DEF IInv, envVars
  <2>4. QED
    BY ONLY <1>2, <1>4, <2>1, <2>2, <2>3, ready' \in BOOLEAN, faults \in SUBSET Faults DEF TypeOK
<1>6. Position'
    BY <1>1, <1>4 DEF Position
<1>7. Documents' /\ Contained' /\ Noticed'
    BY <1>1, <1>2, <1>3, <1>4 DEF Documents, Contained, Noticed
<1>8. Depths'
    BY <1>1, <1>2, <1>4 DEF Depths, Double, Named, ScanFaults
<1>9. VerdictAgrees' /\ PassIsEarned' /\ FaultsReported'
    BY <1>1, <1>2 DEF VerdictAgrees, PassIsEarned, FaultsReported
<1>10. QED
    BY <1>5, <1>6, <1>7, <1>8, <1>9 DEF IInv

\* A failure of the stage itself.
LEMMA StageFailStep ==
    ASSUME IInv, pc \in Working, NEW code \in Codes, NEW blank \in BOOLEAN,
           Fail(code, Record("stage"), {"stage"}, blank), ready' \in BOOLEAN,
           UNCHANGED <<checks, schema, sameRoot, tmp, published, fallback, exit, envVars>>
    PROVE  IInv'
<1> DEFINE tree == Record("stage")
           faults == {"stage"}
<1>1. tree \in SUBSET [fault : Faults, depth : Nat] /\ faults \in SUBSET Faults
    BY DEF Record, Faults
<1>2. \A f \in faults : \E x \in tree : x.fault = f /\ x.depth <= 2 /\ x.depth <= 0
    BY DEF Record
<1>3. Fail(code, tree, faults, blank)
    OBVIOUS
<1> HIDE DEF tree, faults
<1>4. QED
    BY <1>1, <1>2, <1>3, FailStep

LEMMA ThrowStep ==
    ASSUME IInv, pc \in Working, NEW code \in Codes, Throw(code), ready' \in BOOLEAN,
           UNCHANGED <<checks, schema, sameRoot, tmp, published, fallback, exit, envVars>>
    PROVE  IInv'
<1>1. Fail(code, Record("stage"), {"stage"}, FALSE)
    BY DEF Throw
<1>2. QED
    BY <1>1, StageFailStep

\* A stage has passed.
LEMMA PassStep ==
    ASSUME IInv, pc \in Working \ {"start", "prepare"}, pc' \in Working \ {"start", "prepare"},
           checks' \in SUBSET TerminalChecks, schema' \in BOOLEAN,
           job' \in {job, Idle}, job'.phase = "idle",
           UNCHANGED <<ev, raised, sameRoot, diskVars, envVars>>,
           container \in {"none", "gone"},
           \A x \in staleReads : x \in ReadDatabases /\ "database" \in changed,
           pc' = "gate" => "database" \notin changed
    PROVE  IInv'
<1>1. UNCHANGED <<ev, raised, sameRoot, ready, tmp, published, fallback, exit, container,
                  changed, staleReads>>
    BY DEF diskVars, envVars
<1>2. /\ ev.status = "IN_PROGRESS" /\ ev.exit = "INTERNAL" /\ raised = {}
      /\ published.status = "none" /\ exit = "none" /\ fallback = {}
      /\ ev = InProgress /\ published = Nothing /\ ready
    BY WorkingFacts, StageKinds DEF IInv, Position, Documents, FinalStages
<1>3. pc' \notin FinalStages /\ pc' \notin Ended
    BY StageKinds
<1>4. TypeOK'
  <2>1. TypeOK /\ pc' \in Working
    BY DEF IInv
  <2>2. job' \in Jobs
    BY <2>1 DEF Idle, TypeOK
  <2>3. QED
    BY <1>1, <2>1, <2>2 DEF TypeOK, Working
<1>5. Position'
    BY <1>1, <1>2, <1>3 DEF IInv, Position, FinalStages
<1>6. Documents' /\ Contained'
    BY <1>1, <1>2, <1>3 DEF Documents, Contained, FinalStages
<1>7. Noticed'
    BY <1>1, <1>3 DEF Noticed
<1>8. Depths' /\ VerdictAgrees' /\ PassIsEarned' /\ FaultsReported'
    BY <1>1, <1>2, <1>3 DEF Depths, VerdictAgrees, PassIsEarned, FaultsReported, Ended
<1>9. QED
    BY <1>4, <1>5, <1>6, <1>7, <1>8 DEF IInv

LEMMA HostStageStep ==
    ASSUME IInv, NEW s \in (HostStages \cup ImageStages) \ {"start", "prepare"},
           NEW next \in Working \ {"start", "prepare", "gate"},
           NEW codes \in SUBSET Codes, NEW recorded \in SUBSET TerminalChecks,
           HostStage(s, next, codes, recorded)
    PROVE  IInv'
<1>1. /\ pc = s /\ UNCHANGED <<schema, sameRoot, diskVars, envVars>>
      /\ pc \in Working \ {"start", "prepare"} /\ pc \notin Scans /\ pc \notin GoVerifiedAfter
    BY HostKinds DEF HostStage
<1>2. schema \in BOOLEAN /\ ready \in BOOLEAN /\ checks \in SUBSET TerminalChecks
    BY DEF IInv, TypeOK
<1>3. CASE Pass(next, recorded)
  <2>1. /\ checks' \in SUBSET TerminalChecks /\ pc' = next /\ UNCHANGED <<ev, raised, job>>
    BY <1>2, <1>3 DEF Pass
  <2>2. job.phase = "idle"
    BY <1>1 DEF IInv, Position
  <2>3. container \in {"none", "gone"}
    BY <1>1, <2>2, WorkingFacts DEF IInv, Contained
  <2>4. \A x \in staleReads : x \in ReadDatabases /\ "database" \in changed
    BY <1>1 DEF IInv, Noticed
  <2>5. QED
    BY <1>1, <1>2, <2>1, <2>2, <2>3, <2>4, PassStep
<1>4. CASE (\E code \in codes : Throw(code)) /\ UNCHANGED checks
    BY <1>1, <1>2, <1>4, ThrowStep DEF diskVars
<1>5. QED
    BY <1>3, <1>4 DEF HostStage

\* The job of a scan, while docker runs and while its container is removed.
LEMMA JobStep ==
    ASSUME IInv, pc \in Scans, job'.phase # "idle",
           job' \in Jobs,
           container' \in {"none", "pending", "up", "exited", "gone"},
           UNCHANGED jobOnly,
           job'.end = "accepted" => container' \in {"exited", "gone"},
           job'.phase = "result" /\ job'.end = "accepted" => container' = "gone",
           job'.phase = "faulty" => job'.faults # {}
    PROVE  IInv'
<1>1. UNCHANGED <<pc, ev, checks, schema, sameRoot, ready, tmp, published, fallback, exit,
                  raised, changed, staleReads>>
    BY DEF jobOnly, diskVars
<1>2. pc \in Working /\ published.status = "none"
    BY WorkingFacts, StageKinds
<1>3. TypeOK'
    BY <1>1 DEF IInv, TypeOK
<1>4. Position' /\ Documents'
    BY <1>1 DEF IInv, Position, Documents
<1>5. Contained' /\ Noticed'
    BY <1>1 DEF IInv, Contained, Noticed
<1>6. Depths'
    BY <1>1 DEF IInv, Depths, Double, Named
<1>7. VerdictAgrees' /\ PassIsEarned' /\ FaultsReported'
    BY <1>1, <1>2, WorkingFacts DEF IInv, VerdictAgrees, PassIsEarned, FaultsReported, Ended
<1>8. QED
    BY <1>3, <1>4, <1>5, <1>6, <1>7 DEF IInv

LEMMA LaunchStep ==
    ASSUME IInv, NEW s \in Scans, Launch(s)
    PROVE  IInv'
<1>1. /\ job' = [phase |-> "running", end |-> "none", faults |-> {}] /\ container' = "pending"
      /\ pc \in Scans /\ UNCHANGED jobOnly
    BY DEF Launch, Idle, jobOnly
<1>2. QED
    BY <1>1, JobStep

\* The verdict on a scan: what ends as accepted has left no container, and has not
\* read Go inputs that were changed.
LEMMA JudgeStep ==
    ASSUME IInv, NEW s \in Scans, NEW next \in Working \ {"start", "prepare", "gate"},
           NEW codes \in SUBSET Codes, NEW recorded \in SUBSET TerminalChecks,
           Judge(s, next, codes, recorded)
    PROVE  IInv'
<1>1. /\ pc = s /\ job.phase = "result" /\ UNCHANGED <<schema, sameRoot, diskVars, envVars>>
      /\ pc \in Working \ {"start", "prepare"}
    BY StageKinds DEF Judge
<1>2. schema \in BOOLEAN /\ ready \in BOOLEAN /\ checks \in SUBSET TerminalChecks
    BY DEF IInv, TypeOK
<1>3. CASE /\ job.end = "accepted" /\ ~(s \in GoVerifiedAfter /\ "goInput" \in changed)
           /\ checks' = checks \cup recorded /\ pc' = next /\ job' = Idle
           /\ UNCHANGED <<ev, raised>>
  <2>1. container \in {"none", "gone"}
    BY <1>1, <1>3 DEF IInv, Contained
  <2>2. \A x \in staleReads : x \in ReadDatabases /\ "database" \in changed
    BY <1>1, <1>3 DEF IInv, Noticed
  <2>3. job'.phase = "idle"
    BY <1>3 DEF Idle
  <2>4. QED
    BY <1>1, <1>2, <1>3, <2>1, <2>2, <2>3, PassStep
<1>4. CASE (\E code \in codes : Throw(code)) /\ UNCHANGED checks
    BY <1>1, <1>2, <1>4, ThrowStep DEF diskVars
<1>5. QED
    BY <1>3, <1>4 DEF Judge

LEMMA ScanStep ==
    ASSUME IInv, NEW s \in Scans, NEW next \in Working \ {"start", "prepare", "gate"},
           NEW codes \in SUBSET Codes, NEW recorded \in SUBSET TerminalChecks,
           Scan(s, next, codes, recorded)
    PROVE  IInv'
<1>1. CASE Unprepared(s)
  <2>1. pc \in Working /\ ready \in BOOLEAN
    BY <1>1, StageKinds DEF Unprepared, IInv, TypeOK
  <2>2. \E code \in Codes : Throw(code)
    BY <1>1 DEF Unprepared, Codes
  <2>3. QED
    BY <1>1, <2>1, <2>2, ThrowStep DEF Unprepared, diskVars
<1>2. codes \cup {"INTERNAL"} \in SUBSET Codes
    BY DEF Codes
<1>3. QED
    BY <1>1, <1>2, LaunchStep, JudgeStep DEF Scan

-----------------------------------------------------------------------------
(* The stages *)

LEMMA StartStep ==
    ASSUME IInv, Start
    PROVE  IInv'
<1>1. /\ pc = "start" /\ pc \in Working /\ ~tmp /\ ~ready /\ job.phase = "idle"
      /\ UNCHANGED <<job, ev, checks, schema, sameRoot, ready, published, fallback, raised,
                     container, changed, staleReads>>
    BY StageKinds DEF Start, IInv, Position, envVars
<1>2. /\ ev.status = "IN_PROGRESS" /\ ev.exit = "INTERNAL" /\ raised = {} /\ ev = InProgress
      /\ published.status = "none" /\ exit = "none" /\ fallback = {} /\ published = Nothing
      /\ \A x \in staleReads : x \in ReadDatabases /\ "database" \in changed
      /\ container \in {"none", "gone"}
    BY <1>1, WorkingFacts, StageKinds DEF IInv, Position, Documents, Contained, Noticed,
       FinalStages, GoVerifiedAfter
<1>3. CASE pc' = "prepare" /\ tmp' = TRUE /\ UNCHANGED exit
  <2>1. pc' \in Working /\ pc' \notin FinalStages /\ pc' \notin Ended
    BY <1>3, StageKinds
  <2>2. TypeOK'
    BY <1>1, <1>3, <2>1 DEF IInv, TypeOK, Working
  <2>3. Position'
    BY <1>1, <1>2, <1>3, <2>1 DEF IInv, Position
  <2>4. Documents' /\ Contained' /\ Noticed'
    <3>1. Documents'
      BY <1>1, <1>2, <1>3, <2>1 DEF Documents
    <3>2. Contained' /\ Noticed'
      BY <1>1, <1>2, <1>3, <2>1 DEF Contained, Noticed
    <3>3. QED
      BY <3>1, <3>2
  <2>5. Depths' /\ VerdictAgrees' /\ PassIsEarned' /\ FaultsReported'
    BY <1>1, <1>2, <1>3 DEF Depths, VerdictAgrees, PassIsEarned, FaultsReported
  <2>6. QED
    BY <2>2, <2>3, <2>4, <2>5 DEF IInv
<1>4. CASE pc' = "returned" /\ exit' = "UNCAUGHT" /\ UNCHANGED tmp
  <2>1. pc' \in Ended /\ pc' \notin FinalStages /\ pc' \notin Working
    BY <1>4, StageKinds DEF Ended
  <2>2. TypeOK'
    BY <1>1, <1>4, <2>1 DEF IInv, TypeOK
  <2>3. Position' /\ Documents' /\ Contained' /\ Noticed'
    BY <1>1, <1>2, <1>4, <2>1 DEF IInv, Position, Documents, Contained, Noticed
  <2>4. Depths' /\ VerdictAgrees' /\ PassIsEarned' /\ FaultsReported'
    BY <1>1, <1>2, <1>4 DEF Depths, VerdictAgrees, PassIsEarned, FaultsReported
  <2>5. QED
    BY <2>2, <2>3, <2>4 DEF IInv
<1>5. QED
    BY <1>3, <1>4 DEF Start

LEMMA PrepareStep ==
    ASSUME IInv, Prepare
    PROVE  IInv'
<1>1. /\ pc = "prepare" /\ pc \in Working /\ ready' \in BOOLEAN
      /\ UNCHANGED <<checks, schema, sameRoot, tmp, published, fallback, exit, envVars>>
    BY StageKinds DEF Prepare, PrepareArtifactDirectories
<1>2. CASE \E code \in {"CONTRACT", "INTERNAL"} : Throw(code)
    BY <1>1, <1>2, ThrowStep DEF Codes
<1>3. CASE ready' = TRUE /\ pc' = "source" /\ UNCHANGED <<ev, raised, job>>
  <2>1. /\ ev.status = "IN_PROGRESS" /\ ev.exit = "INTERNAL" /\ raised = {} /\ ev = InProgress
        /\ published.status = "none" /\ exit = "none" /\ fallback = {} /\ published = Nothing
        /\ job.phase = "idle" /\ container \in {"none", "gone"}
        /\ \A x \in staleReads : x \in ReadDatabases /\ "database" \in changed
    <3>1. job.phase = "idle"
      BY <1>1, StageKinds DEF IInv, Position
    <3>2. QED
      BY <1>1, <3>1, WorkingFacts, StageKinds DEF IInv, Position, Documents, Contained, Noticed,
         FinalStages, GoVerifiedAfter
  <2>2. pc' \in Working /\ pc' \notin FinalStages /\ pc' \notin Ended
    BY <1>3, StageKinds
  <2>3. UNCHANGED <<container, changed, staleReads>>
    BY <1>1 DEF envVars
  <2>4. TypeOK'
    BY <1>1, <1>3, <2>2, <2>3 DEF IInv, TypeOK, Working
  <2>5. Position'
    BY <1>1, <1>3, <2>1, <2>2 DEF Position
  <2>6. Documents'
    BY <1>1, <1>3, <2>1, <2>2 DEF Documents
  <2>7. Contained' /\ Noticed'
    BY <1>1, <1>3, <2>1, <2>2, <2>3 DEF Contained, Noticed
  <2>8. Depths' /\ VerdictAgrees' /\ PassIsEarned' /\ FaultsReported'
    BY <1>1, <1>3, <2>1 DEF Depths, VerdictAgrees, PassIsEarned, FaultsReported
  <2>9. QED
    BY <2>4, <2>5, <2>6, <2>7, <2>8 DEF IInv
<1>4. QED
    BY <1>2, <1>3 DEF Prepare, PrepareArtifactDirectories

LEMMA LoadConfigurationStep ==
    ASSUME IInv, LoadConfiguration
    PROVE  IInv'
<1>1. /\ pc = "configuration" /\ pc \in Working \ {"start", "prepare"} /\ pc \notin Scans
      /\ pc \notin GoVerifiedAfter
    BY HostKinds DEF LoadConfiguration, HostStages
<1>2. ready \in BOOLEAN /\ checks \in SUBSET TerminalChecks
    BY DEF IInv, TypeOK
<1>3. CASE Pass("repositoryUse", {}) /\ schema' = TRUE /\ UNCHANGED <<sameRoot, diskVars, envVars>>
  <2>1. /\ checks' \in SUBSET TerminalChecks /\ pc' = "repositoryUse"
        /\ pc' \in Working \ {"start", "prepare"} /\ UNCHANGED <<ev, raised, job>>
    BY <1>2, <1>3 DEF Pass, Working, HostStages
  <2>2. job.phase = "idle"
    BY <1>1 DEF IInv, Position
  <2>3. container \in {"none", "gone"}
    BY <1>1, <2>2, WorkingFacts DEF IInv, Contained
  <2>4. \A x \in staleReads : x \in ReadDatabases /\ "database" \in changed
    BY <1>1 DEF IInv, Noticed
  <2>5. QED
    BY <1>1, <1>3, <2>1, <2>2, <2>3, <2>4, PassStep
<1>4. CASE /\ \E code \in ConfigurationVerdict : Throw(code)
           /\ UNCHANGED <<checks, schema, sameRoot, diskVars, envVars>>
    BY <1>1, <1>2, <1>4, ThrowStep DEF ConfigurationVerdict, Codes, diskVars
<1>5. QED
    BY <1>3, <1>4 DEF LoadConfiguration

\* The databases are sealed: no scan has read a changed one.
LEMMA VerifyDatabaseSealStep ==
    ASSUME IInv, VerifyDatabaseSeal
    PROVE  IInv'
<1>1. /\ pc = "databaseSeal" /\ pc \in Working \ {"start", "prepare"} /\ pc \notin Scans
      /\ pc \notin GoVerifiedAfter /\ UNCHANGED <<schema, sameRoot, diskVars, envVars>>
    BY HostKinds DEF VerifyDatabaseSeal, HostStages
<1>2. ready \in BOOLEAN /\ schema \in BOOLEAN /\ checks \in SUBSET TerminalChecks
    BY DEF IInv, TypeOK
<1>3. CASE "database" \notin changed /\ Pass("gate", {"databaseSeal"})
  <2>1. /\ checks' \in SUBSET TerminalChecks /\ pc' = "gate"
        /\ pc' \in Working \ {"start", "prepare"} /\ UNCHANGED <<ev, raised, job>>
    BY <1>2, <1>3 DEF Pass, Working, HostStages, TerminalChecks
  <2>2. job.phase = "idle"
    BY <1>1 DEF IInv, Position
  <2>3. container \in {"none", "gone"}
    BY <1>1, <2>2, WorkingFacts DEF IInv, Contained
  <2>4. \A x \in staleReads : x \in ReadDatabases /\ "database" \in changed
    BY <1>1 DEF IInv, Noticed
  <2>5. QED
    BY <1>1, <1>2, <1>3, <2>1, <2>2, <2>3, <2>4, PassStep
<1>4. CASE (\E code \in {"CONTRACT", "INTERNAL"} : Throw(code)) /\ UNCHANGED checks
    BY <1>1, <1>2, <1>4, ThrowStep DEF Codes, diskVars
<1>5. QED
    BY <1>3, <1>4 DEF VerifyDatabaseSeal

LEMMA DownloadFailsStep ==
    ASSUME IInv, DownloadFails
    PROVE  IInv'
<1>1. /\ pc \in Working /\ ready \in BOOLEAN
      /\ UNCHANGED <<checks, schema, sameRoot, diskVars, envVars>>
    BY DEF DownloadFails, IInv, TypeOK, Working, HostStages
<1>2. PICK blank \in BOOLEAN : Fail("ACQUISITION", Record("stage"), {"stage"}, blank)
    BY DEF DownloadFails
<1>3. "ACQUISITION" \in Codes
    BY DEF Codes
<1>4. QED
    BY <1>1, <1>2, <1>3, StageFailStep DEF diskVars

LEMMA GatePassesStep ==
    ASSUME IInv, GatePasses
    PROVE  IInv'
<1>1. /\ pc = "gate" /\ pc \in Working \ {"start", "prepare"} /\ pc \notin Scans
      /\ pc' = "cleanTemporary" /\ checks' = checks \cup {"gate"}
      /\ UNCHANGED <<job, schema, sameRoot, ready, tmp, published, fallback, exit, raised,
                     container, changed, staleReads>>
    BY StageKinds DEF GatePasses, diskVars, envVars
<1>2. /\ ev = InProgress /\ raised = {} /\ published.status = "none" /\ exit = "none"
      /\ fallback = {} /\ published = Nothing /\ ready /\ job.phase = "idle"
      /\ staleReads = {} /\ container \in {"none", "gone"}
    BY <1>1, WorkingFacts, StageKinds DEF IInv, Position, Documents, Contained, Noticed,
       FinalStages
<1>3. ev' = [status |-> "PASS", exit |-> "PASS", failure |-> {}, blank |-> FALSE]
    BY <1>2 DEF GatePasses, InProgress, NoFailure
<1>4. /\ ev'.status = "PASS" /\ ev'.exit = "PASS" /\ pc' \in FinalStages /\ pc' \notin Ended
      /\ pc' \notin Working
    BY <1>1, <1>3, StageKinds DEF FinalStages
<1>5. TypeOK'
  <2>1. "gate" \in TerminalChecks
    BY DEF TerminalChecks
  <2>2. ev' \in Evidence
    BY <1>3
  <2>3. QED
    BY <1>1, <1>4, <2>1, <2>2 DEF IInv, TypeOK
<1>6. Position' /\ Documents'
    BY <1>1, <1>2, <1>4 DEF Position, Documents
<1>7. Contained' /\ Noticed' /\ Depths'
    BY <1>1, <1>2, <1>4 DEF Contained, Noticed, Depths
<1>8. VerdictAgrees' /\ PassIsEarned' /\ FaultsReported'
    BY <1>1, <1>2 DEF VerdictAgrees, PassIsEarned, FaultsReported
<1>9. QED
    BY <1>5, <1>6, <1>7, <1>8 DEF IInv

\* Every stage of runGate, by its kind.
LEMMA RunGateStep ==
    ASSUME IInv, RunGate
    PROVE  IInv'
<1>1. CASE \/ InspectSource \/ InspectControlSource \/ PrepareControlPlaneInputs
           \/ ValidateRepositoryUse \/ InspectExecutionEnvironment \/ PrepareInputs
           \/ PrepareSemgrepSourceInputs
    BY <1>1, HostStageStep DEF InspectSource, InspectControlSource, PrepareControlPlaneInputs,
       ValidateRepositoryUse, InspectExecutionEnvironment, PrepareInputs,
       PrepareSemgrepSourceInputs, HostStages, Working, ImageStages, Codes, TerminalChecks
<1>2. CASE AcquireImages \/ AcquireRules
  <2>1. CASE \/ PullImage("pull-osv-scanner", "osv-scanner-version")
             \/ PullImage("pull-semgrep-ce", "semgrep-ce-version")
             \/ PullImage("pull-go-toolchain", "go-toolchain-version") \/ AcquireRules
    BY <2>1, HostStageStep DEF PullImage, AcquireRules, HostStages, Working, ImageStages, Scans,
       Codes
  <2>2. CASE \/ Scan("osv-scanner-version", "pull-semgrep-ce", {"CONTRACT"}, {})
             \/ Scan("semgrep-ce-version", "pull-go-toolchain", {"CONTRACT"}, {})
             \/ Scan("go-toolchain-version", "rules", {"CONTRACT"}, {})
    BY <2>2, ScanStep DEF HostStages, Working, ImageStages, Scans, Codes
  <2>3. QED
    BY <1>2, <2>1, <2>2 DEF AcquireImages
<1>3. CASE \/ ResolveGoInventory \/ MissingDatabaseNegativeGate \/ ValidateDatabaseArchives
    BY <1>3, ScanStep DEF ResolveGoInventory, MissingDatabaseNegativeGate,
       ValidateDatabaseArchives, Working, HostStages, Scans, Codes, TerminalChecks
<1>4. CASE AcquireDatabases \/ SealDatabases
    BY <1>4, HostStageStep, DownloadFailsStep DEF AcquireDatabases, SealDatabases,
       DatabaseVerdict, Working, HostStages, Scans, Codes
<1>5. CASE VulnerabilityCanaries \/ GoAdvisoryCanary \/ GoTransitiveCanary
    BY <1>5, ScanStep DEF VulnerabilityCanaries, GoAdvisoryCanary, GoTransitiveCanary, Working,
       Scans, Codes, TerminalChecks
<1>6. CASE GoLicenseCanary \/ LicenseCanaries
    BY <1>6, ScanStep DEF GoLicenseCanary, LicenseCanaries, Working, Scans, Codes, TerminalChecks
<1>7. CASE VulnerabilityGate \/ LicenseGate \/ SemgrepGates
    BY <1>7, ScanStep DEF VulnerabilityGate, LicenseGate, SemgrepGates, VulnerabilityVerdict,
       LicenseVerdict, SemgrepVerdict, Working, HostStages, Scans, Codes, TerminalChecks
<1>8. QED
    BY <1>1, <1>2, <1>3, <1>4, <1>5, <1>6, <1>7, LoadConfigurationStep, VerifyDatabaseSealStep,
       GatePassesStep DEF RunGate

-----------------------------------------------------------------------------
(* runDocker *)

LEMMA ScanningFacts ==
    ASSUME IInv, job.phase # "idle"
    PROVE  /\ pc \in Scans
           /\ job \in Jobs
           /\ container \in {"none", "pending", "up", "exited", "gone"}
           /\ job.end = "accepted" => container \in {"exited", "gone"}
    BY DEF IInv, Position, Contained, TypeOK

LEMMA ClientStep ==
    ASSUME IInv, ClientExits \/ ClientKilled \/ ClientUnusable
    PROVE  IInv'
<1> USE ScanningFacts
<1>1. CASE ClientExits
  <2>1. PICK end \in {"accepted", "other"} :
           /\ end = "accepted" => container \in {"exited", "gone"}
           /\ job' = [job EXCEPT !.phase = "record", !.end = end]
    BY <1>1 DEF ClientExits
  <2>2. QED
    BY <1>1, <2>1, JobStep DEF ClientExits
<1>2. CASE ClientKilled
    BY <1>2, JobStep DEF ClientKilled
<1>3. CASE ClientUnusable
    BY <1>3, JobStep DEF ClientUnusable
<1>4. QED
    BY <1>1, <1>2, <1>3

LEMMA CleanupStep ==
    ASSUME IInv, RecordProcess \/ ListBefore \/ ForceRemove \/ ListAfter
    PROVE  IInv'
<1> USE ScanningFacts
<1>1. CASE RecordProcess
  <2>1. PICK extra \in SUBSET {"recording"} :
           job' = [job EXCEPT !.phase = "before", !.faults = @ \cup extra]
    BY <1>1 DEF RecordProcess
  <2>2. QED
    BY <1>1, <2>1, JobStep DEF RecordProcess
<1>2. CASE ListBefore
    BY <1>2, JobStep DEF ListBefore
<1>3. CASE ForceRemove
    BY <1>3, JobStep DEF ForceRemove
<1>4. CASE ListAfter
    BY <1>4, JobStep DEF ListAfter, Present
<1>5. QED
    BY <1>1, <1>2, <1>3, <1>4

\* Every fault of an aggregate is two levels below its record.
LEMMA AggregateNames ==
    ASSUME NEW faults, NEW top
    PROVE  \A f \in faults : \E x \in Aggregate(faults, top) : x.fault = f /\ x.depth <= 2
<1>1. SUFFICES ASSUME NEW f \in faults
               PROVE  \E x \in Aggregate(faults, top) : x.fault = f /\ x.depth <= 2
    OBVIOUS
<1>2. [fault |-> f, depth |-> 2] \in Aggregate(faults, top)
    BY DEF Aggregate
<1>3. [fault |-> f, depth |-> 2].fault = f /\ [fault |-> f, depth |-> 2].depth <= 2
    OBVIOUS
<1>4. QED
    BY <1>2, <1>3

\* A fault of its own is the record itself.
LEMMA RecordNames ==
    ASSUME NEW f, NEW tree, Record(f) \subseteq tree
    PROVE  \E x \in tree : x.fault = f /\ x.depth <= 0 /\ x.depth <= 2
<1>1. [fault |-> f, depth |-> 0] \in tree
    BY DEF Record
<1>2. [fault |-> f, depth |-> 0].fault = f /\ [fault |-> f, depth |-> 0].depth = 0
    OBVIOUS
<1>3. QED
    BY <1>1, <1>2

LEMMA SmallSets ==
    ASSUME NEW S, S \subseteq {"launch", "recording", "control"}, S # {}
    PROVE  /\ Cardinality(S) # 1 => Cardinality(S) >= 2
           /\ Cardinality(S \cup {"cleanup"}) >= 2
<1>1. IsFiniteSet({"launch", "recording", "control"})
  <2>1. IsFiniteSet({"launch"})
    BY FS_Singleton
  <2>2. IsFiniteSet({"launch"} \cup {"recording"})
    BY <2>1, FS_AddElement
  <2>3. IsFiniteSet(({"launch"} \cup {"recording"}) \cup {"control"})
    BY <2>2, FS_AddElement
  <2>4. ({"launch"} \cup {"recording"}) \cup {"control"} = {"launch", "recording", "control"}
    OBVIOUS
  <2>5. QED
    BY <2>3, <2>4
<1>2. IsFiniteSet(S)
    BY <1>1, FS_Subset
<1>3. Cardinality(S) \in Nat /\ Cardinality(S) # 0
    BY <1>2, FS_CardinalityType, FS_EmptySet
<1>4. Cardinality(S \cup {"cleanup"}) = Cardinality(S) + 1
    BY <1>2, FS_AddElement
<1>5. QED
    BY <1>3, <1>4

\* combineDockerCleanupFailure: the failure of the cleanup is on top, and what
\* failed before it is below an AggregateError.
LEMMA CleanupFailsStep ==
    ASSUME IInv, CleanupFails
    PROVE  IInv'
<1> DEFINE faults == job.faults \cup {"cleanup"}
           tree == Aggregate(faults, Record("cleanup"))
<1>1. /\ Fail("INTERNAL", tree, faults, FALSE) /\ pc \in Working /\ ready' \in BOOLEAN
      /\ UNCHANGED <<checks, schema, sameRoot, tmp, published, fallback, exit, envVars>>
    BY ScanningFacts, StageKinds DEF CleanupFails, IInv, TypeOK, diskVars
<1>2. job.faults \subseteq {"launch", "recording", "control"}
    BY DEF IInv, TypeOK
<1>3. /\ tree \in SUBSET [fault : Faults, depth : Nat] /\ faults \in SUBSET Faults
      /\ "INTERNAL" \in Codes
    BY <1>2 DEF Aggregate, Record, Faults, Codes
<1>4. \A f \in faults : \E x \in tree : x.fault = f /\ x.depth <= 2
    BY AggregateNames
<1>5. CASE job.faults = {}
  <2>1. \A f \in faults : \E x \in tree : x.fault = f /\ x.depth <= 0
    <3>1. faults = {"cleanup"} /\ Record("cleanup") \subseteq tree
      BY <1>5 DEF Aggregate
    <3> HIDE DEF tree
    <3>2. QED
      BY <3>1, RecordNames
  <2> HIDE DEF faults, tree
  <2>2. QED
    BY <1>1, <1>3, <1>4, <2>1, FailStep
<1>6. CASE job.faults # {}
  <2>1. faults \cap ScanFaults = job.faults \cup {"cleanup"} /\ "cleanup" \notin job.faults
    BY <1>2 DEF ScanFaults
  <2>2. Cardinality(faults \cap ScanFaults) >= 2
    BY <1>2, <1>6, <2>1, SmallSets
  <2> HIDE DEF faults, tree
  <2>3. QED
    BY <1>1, <1>3, <1>4, <2>2, FailStep
<1>7. QED
    BY <1>5, <1>6

LEMMA ThrowScanFaultStep ==
    ASSUME IInv, ThrowScanFault
    PROVE  IInv'
<1> DEFINE faults == job.faults
           tree == IF Cardinality(faults) = 1 THEN UNION {Record(f) : f \in faults}
                                              ELSE Aggregate(faults, {})
<1>1. /\ Fail("INTERNAL", tree, faults, FALSE) /\ pc \in Working /\ ready' \in BOOLEAN
      /\ UNCHANGED <<checks, schema, sameRoot, tmp, published, fallback, exit, envVars>>
    BY ScanningFacts, StageKinds DEF ThrowScanFault, IInv, TypeOK, diskVars
<1>2. faults \subseteq {"launch", "recording", "control"} /\ faults # {}
    BY DEF ThrowScanFault, IInv, TypeOK, Contained
<1>3. CASE Cardinality(faults) = 1
  <2>1. tree = UNION {Record(f) : f \in faults}
    BY <1>3
  <2>2. /\ tree \in SUBSET [fault : Faults, depth : Nat] /\ faults \in SUBSET Faults
        /\ "INTERNAL" \in Codes
    BY <1>2, <2>1 DEF Record, Faults, Codes
  <2>3. \A f \in faults : \E x \in tree : x.fault = f /\ x.depth <= 2 /\ x.depth <= 0
    <3>1. \A f \in faults : Record(f) \subseteq tree
      BY <2>1
    <3> HIDE DEF tree
    <3>2. QED
      BY <3>1, RecordNames
  <2> HIDE DEF faults, tree
  <2>4. QED
    BY <1>1, <2>2, <2>3, FailStep
<1>4. CASE Cardinality(faults) # 1
  <2>1. tree = Aggregate(faults, {})
    BY <1>4
  <2>2. /\ tree \in SUBSET [fault : Faults, depth : Nat] /\ faults \in SUBSET Faults
        /\ "INTERNAL" \in Codes
    BY <1>2, <2>1 DEF Aggregate, Faults, Codes
  <2>3. \A f \in faults : \E x \in tree : x.fault = f /\ x.depth <= 2
    BY <2>1, AggregateNames
  <2>4. faults \cap ScanFaults = faults
    BY <1>2 DEF ScanFaults
  <2>5. Cardinality(faults \cap ScanFaults) >= 2
    BY <1>2, <1>4, <2>4, SmallSets
  <2> HIDE DEF faults, tree
  <2>6. QED
    BY <1>1, <2>2, <2>3, <2>5, FailStep
<1>5. QED
    BY <1>3, <1>4

LEMMA RunDockerStep ==
    ASSUME IInv, RunDocker
    PROVE  IInv'
    BY ClientStep, CleanupStep, CleanupFailsStep, ThrowScanFaultStep DEF RunDocker

-----------------------------------------------------------------------------
(* Everybody else *)

\* A step of the world leaves the gate's own state alone.
LEMMA WorldStep ==
    ASSUME IInv, pc \notin Ended, UNCHANGED gateVars, TypeOK', Contained', Noticed',
           published.status = "PASS" => UNCHANGED <<container, staleReads>>
    PROVE  IInv'
<1>1. UNCHANGED <<pc, job, ev, checks, schema, sameRoot, ready, tmp, published, fallback, exit,
                  raised>>
    BY DEF gateVars
<1>2. Position' /\ Documents'
    BY <1>1 DEF IInv, Position, Documents
<1>3. Depths'
    BY <1>1 DEF IInv, Depths, Double, Named
<1>4. VerdictAgrees' /\ PassIsEarned' /\ FaultsReported'
    BY <1>1 DEF IInv, VerdictAgrees, PassIsEarned, FaultsReported, Ended
<1>5. QED
    BY <1>2, <1>3, <1>4 DEF IInv

\* While a container is about, the gate waits for its scan or has failed, and has
\* published no PASS.
LEMMA ContainerFacts ==
    ASSUME IInv, container \notin {"none", "gone"}, pc \notin Ended
    PROVE  published.status # "PASS" /\ (job.phase # "idle" \/ ev.status = "FAIL")
    BY DEF IInv, PassIsEarned, Contained

LEMMA DaemonStep ==
    ASSUME IInv, DaemonCreates \/ AutoRemoved
    PROVE  IInv'
<1>1. /\ pc \notin Ended /\ UNCHANGED <<gateVars, changed, staleReads>>
      /\ container \notin {"none", "gone"} /\ container' \in {"none", "up", "gone"}
      /\ container = "exited" => container' = "gone"
    BY DEF DaemonCreates, AutoRemoved
<1>2. UNCHANGED <<pc, job, ev, checks, schema, sameRoot, ready, tmp, published, fallback, exit,
                  raised>>
    BY <1>1 DEF gateVars
<1>3. TypeOK'
    BY <1>1, <1>2 DEF IInv, TypeOK
<1>4. Contained'
    BY <1>1, <1>2, ContainerFacts DEF IInv, Contained
<1>5. Noticed'
    BY <1>1, <1>2 DEF IInv, Noticed
<1>6. QED
    BY <1>1, <1>3, <1>4, <1>5, ContainerFacts, WorldStep

LEMMA ContainerExitsStep ==
    ASSUME IInv, ContainerExits
    PROVE  IInv'
<1>1. /\ pc \notin Ended /\ UNCHANGED <<gateVars, changed>>
      /\ container = "up" /\ container' = "exited"
    BY DEF ContainerExits
<1>2. UNCHANGED <<pc, job, ev, checks, schema, sameRoot, ready, tmp, published, fallback, exit,
                  raised, changed>>
    BY <1>1 DEF gateVars
<1>3. CASE job.phase = "running" /\ Stale(pc) /\ staleReads' = staleReads \cup {pc}
  <2>1. pc \in Scans /\ pc \in Working /\ pc # "gate" /\ pc \notin FinalStages
    BY <1>3, StageKinds DEF IInv, Position
  <2>2. TypeOK'
    BY <1>1, <1>2, <1>3, <2>1 DEF IInv, TypeOK
  <2>3. Contained'
    BY <1>1, <1>2, <1>3 DEF IInv, Contained
  <2>4. Noticed'
    BY <1>2, <1>3, <2>1 DEF IInv, Noticed, Stale
  <2>5. QED
    BY <1>1, <2>2, <2>3, <2>4, ContainerFacts, WorldStep
<1>4. CASE UNCHANGED staleReads
  <2>1. TypeOK'
    BY <1>1, <1>2, <1>4 DEF IInv, TypeOK
  <2>2. Contained'
    BY <1>1, <1>2, <1>4, ContainerFacts DEF IInv, Contained
  <2>3. Noticed'
    BY <1>2, <1>4 DEF IInv, Noticed
  <2>4. QED
    BY <1>1, <2>1, <2>2, <2>3, ContainerFacts, WorldStep
<1>5. QED
    BY <1>3, <1>4 DEF ContainerExits

\* What is changed on disk stays changed.
LEMMA ChangeStep ==
    ASSUME IInv, ChangeInput \/ ChangeSealed
    PROVE  IInv'
<1>1. pc \notin Ended /\ UNCHANGED <<gateVars, container, staleReads>>
    BY DEF ChangeInput, ChangeSealed, Ended
<1>2. UNCHANGED <<pc, job, ev, checks, schema, sameRoot, ready, tmp, published, fallback, exit,
                  raised>>
    BY <1>1 DEF gateVars
<1>3. changed \subseteq changed'
    BY DEF ChangeInput, ChangeSealed
<1>4. changed' \subseteq {"target", "controlSource", "goInput", "database", "raw"}
    BY ZenonT(60) DEF IInv, TypeOK, ChangeInput, ChangeSealed
<1>5. TypeOK'
    BY <1>1, <1>2, <1>4 DEF IInv, TypeOK
<1>6. Contained'
    BY <1>1, <1>2 DEF IInv, Contained
<1>7. Noticed'
    BY <1>1, <1>2, <1>3 DEF IInv, Noticed
<1>8. QED
    BY <1>1, <1>5, <1>6, <1>7, WorldStep

LEMMA CrashStep ==
    ASSUME IInv, Crash
    PROVE  IInv'
<1>1. /\ pc \notin Ended /\ pc' = "crashed" /\ job' = Idle /\ ev' = InProgress /\ checks' = {}
      /\ schema' = FALSE /\ changed' = {}
      /\ UNCHANGED <<sameRoot, ready, tmp, published, fallback, exit, raised, container,
                     staleReads>>
    BY DEF Crash, diskVars
<1>2. pc' \in Ended /\ pc' \notin Working /\ pc' \notin FinalStages /\ job'.phase = "idle"
    BY <1>1, StageKinds DEF Ended, Idle
<1>3. TypeOK'
  <2>1. ev' \in Evidence
    BY <1>1 DEF InProgress, NoFailure, Codes
  <2>2. job' \in Jobs
    BY <1>1 DEF Idle
  <2>3. QED
    BY <1>1, <1>2, <2>1, <2>2, ZenonT(60) DEF IInv, TypeOK
<1>4. Position' /\ Documents' /\ Contained' /\ Noticed'
    BY <1>1, <1>2 DEF Position, Documents, Contained, Noticed
<1>5. Depths' /\ VerdictAgrees' /\ PassIsEarned' /\ FaultsReported'
    BY <1>1 DEF IInv, Depths, VerdictAgrees, PassIsEarned, FaultsReported
<1>6. QED
    BY <1>3, <1>4, <1>5 DEF IInv

LEMMA EnvironmentStep ==
    ASSUME IInv, Environment
    PROVE  IInv'
    BY ClientStep, DaemonStep, ContainerExitsStep, ChangeStep, CrashStep DEF Environment

-----------------------------------------------------------------------------
(* The finally block *)

\* Nothing of a scan is under way, and a PASS has nothing behind it that would
\* contradict it.
LEMMA FinalFacts ==
    ASSUME IInv, pc \in FinalStages
    PROVE  /\ pc \notin Working /\ pc \notin Ended /\ pc \notin Scans /\ job.phase = "idle"
           /\ exit = "none" /\ fallback = {} /\ ev.status \in {"PASS", "FAIL"}
           /\ ev.status = "PASS" <=> ev.exit = "PASS"
           /\ ev.status # "FAIL" => raised = {}
           /\ ev.status = "PASS" => /\ ready /\ staleReads = {} /\ container \in {"none", "gone"}
           /\ pc # "linked" => published = Nothing
<1>1. pc \notin Working /\ pc \notin Ended /\ pc \notin Scans
    BY StageKinds
<1>2. job.phase = "idle"
    BY <1>1 DEF IInv, Position
<1>3. QED
    BY <1>1, <1>2 DEF IInv, Position, Documents, Contained, Noticed

LEMMA NamedMonotone ==
    ASSUME IInv, NEW f, NEW m \in Nat, NEW n \in Nat, m <= n, Named(f, m)
    PROVE  Named(f, n)
<1>1. PICK x \in ev.failure : x.fault = f /\ x.depth <= m
    BY DEF Named
<1>2. x.depth \in Nat
    BY DEF IInv, TypeOK
<1>3. x.depth <= n
    BY <1>1, <1>2
<1>4. QED
    BY <1>1, <1>3 DEF Named

\* A new record on top: every fault is one level deeper, and none is lost.
LEMMA WrapNames ==
    ASSUME NEW g \in Faults, NEW tree \in SUBSET [fault : Faults, depth : Nat]
    PROVE  /\ Wrap(g, tree) \in SUBSET [fault : Faults, depth : Nat]
           /\ \E x \in Wrap(g, tree) : x.fault = g /\ x.depth = 0
           /\ \A y \in tree : \E x \in Wrap(g, tree) : x.fault = y.fault /\ x.depth = y.depth + 1
<1>1. Record(g) \in SUBSET [fault : Faults, depth : Nat]
    BY DEF Record
<1>2. ASSUME NEW y \in tree
      PROVE  /\ [y EXCEPT !.depth = @ + 1] = [fault |-> y.fault, depth |-> y.depth + 1]
             /\ [y EXCEPT !.depth = @ + 1] \in [fault : Faults, depth : Nat]
    OBVIOUS
<1>3. Below(tree, 1) \in SUBSET [fault : Faults, depth : Nat]
    BY <1>2 DEF Below
<1>4. [fault |-> g, depth |-> 0] \in Wrap(g, tree)
    BY DEF Wrap, Record
<1>5. \E x \in Wrap(g, tree) : x.fault = g /\ x.depth = 0
  <2>1. [fault |-> g, depth |-> 0].fault = g /\ [fault |-> g, depth |-> 0].depth = 0
    OBVIOUS
  <2>2. QED
    BY <1>4, <2>1
<1>6. ASSUME NEW y \in tree
      PROVE  \E x \in Wrap(g, tree) : x.fault = y.fault /\ x.depth = y.depth + 1
  <2>1. [y EXCEPT !.depth = @ + 1] \in Wrap(g, tree)
    BY DEF Wrap, Below
  <2>2. [y EXCEPT !.depth = @ + 1].fault = y.fault
    BY <1>2
  <2>3. [y EXCEPT !.depth = @ + 1].depth = y.depth + 1
    BY <1>2
  <2>4. QED
    BY <2>1, <2>2, <2>3
<1>7. QED
    BY <1>1, <1>3, <1>5, <1>6 DEF Wrap

\* The same, of the failure in the evidence.  A fault of the finally block is not a
\* second fault of a scan.
LEMMA WrapStep ==
    ASSUME IInv, NEW g \in {"temporary", "write", "fallback"},
           ev'.failure = Wrap(g, ev.failure), raised' = raised \cup {g}
    PROVE  /\ ev'.failure \in SUBSET [fault : Faults, depth : Nat] /\ raised' \subseteq Faults
           /\ \A f \in raised, n \in Nat : Named(f, n) => Named(f, n + 1)'
           /\ \A n \in Nat : Named(g, n)'
           /\ Double => Double'
<1>1. /\ ev.failure \in SUBSET [fault : Faults, depth : Nat] /\ raised \subseteq Faults
      /\ g \in Faults
    BY DEF IInv, TypeOK, Faults
<1>2. /\ ev'.failure \in SUBSET [fault : Faults, depth : Nat]
      /\ \E x \in ev'.failure : x.fault = g /\ x.depth = 0
      /\ \A y \in ev.failure : \E x \in ev'.failure : x.fault = y.fault /\ x.depth = y.depth + 1
    BY <1>1, WrapNames
<1>3. ASSUME NEW f \in raised, NEW n \in Nat, Named(f, n)
      PROVE  Named(f, n + 1)'
  <2>1. PICK y \in ev.failure : y.fault = f /\ y.depth <= n
    BY <1>3 DEF Named
  <2>2. PICK x \in ev'.failure : x.fault = f /\ x.depth = y.depth + 1
    BY <1>2, <2>1
  <2>3. y.depth \in Nat
    BY <1>1
  <2>4. x.depth <= n + 1
    BY <2>1, <2>2, <2>3
  <2>5. QED
    BY <2>2, <2>4 DEF Named
<1>4. ASSUME NEW n \in Nat
      PROVE  Named(g, n)'
    BY <1>2 DEF Named
<1>5. raised' \cap {"launch", "recording", "control", "cleanup"}
        = raised \cap {"launch", "recording", "control", "cleanup"}
    OBVIOUS
<1>6. Double => Double'
    BY <1>5 DEF Double
<1>7. QED
    BY <1>1, <1>2, <1>3, <1>4, <1>6

\* What the gate prints of a failure has every fault that is named within the limit.
LEMMA BoundedNames ==
    ASSUME NEW f, NEW tree, \E x \in tree : x.fault = f /\ x.depth <= 4
    PROVE  f \in Bounded(tree)
    BY DEF Bounded, DepthLimit

\* A step within the finally block: what has to be seen to for the new stage.
LEMMA FinalStep ==
    ASSUME IInv, pc \in FinalStages, pc' \in FinalStages \ {"cleanTemporary"}, pc # "linked",
           ev' \in Evidence,
           ev'.status \in {"PASS", "FAIL"}, ev'.status = "PASS" <=> ev'.exit = "PASS",
           ev'.status = "PASS" => ev.status = "PASS" /\ raised' = {} /\ ~tmp',
           pc' = "verifySources" => ev'.status = "PASS", pc' = "fallback" => ev'.status = "FAIL",
           pc' \in {"writeTemporary", "link", "linked", "fallback"} => ready,
           pc' \in {"writeTemporary", "link"} /\ ev'.status = "PASS" => checks' = TerminalChecks,
           checks' \in SUBSET TerminalChecks, raised' \in SUBSET Faults, tmp' \in BOOLEAN,
           UNCHANGED <<job, schema, sameRoot, ready, published, fallback, exit, envVars>>,
           pc' # "linked",
           Depths'
    PROVE  IInv'
<1>1. UNCHANGED <<job, schema, sameRoot, ready, published, fallback, exit, container, changed,
                  staleReads>>
    BY DEF envVars
<1>2. /\ job.phase = "idle" /\ exit = "none" /\ fallback = {} /\ published = Nothing
      /\ published.status = "none"
      /\ ev.status = "PASS" => ready /\ staleReads = {} /\ container \in {"none", "gone"}
    BY FinalFacts DEF Nothing
<1>3. pc' \in FinalStages /\ pc' \notin Working /\ pc' \notin Ended
    BY StageKinds
<1>4. TypeOK'
    BY <1>1, <1>3 DEF IInv, TypeOK
<1>5. Position'
    BY <1>1, <1>2, <1>3, StageKinds DEF Position
<1>6. Documents'
    BY <1>1, <1>2, <1>3 DEF Documents
<1>7. Contained' /\ Noticed'
  <2>1. Contained'
    BY <1>1, <1>2, <1>3 DEF Contained
  <2>2. pc' # "gate"
    BY <1>3, StageKinds
  <2>3. Noticed'
    BY <1>1, <1>2, <1>3, <2>2 DEF Noticed
  <2>4. QED
    BY <2>1, <2>3
<1>8. VerdictAgrees' /\ PassIsEarned' /\ FaultsReported'
    BY <1>1, <1>2, <1>3 DEF VerdictAgrees, PassIsEarned, FaultsReported, Ended
<1>9. QED
    BY <1>4, <1>5, <1>6, <1>7, <1>8 DEF IInv

\* The temporary root is removed, or its failure is put on top of the others.
LEMMA CleanTemporaryStep ==
    ASSUME IInv, CleanTemporary
    PROVE  IInv'
<1>1. /\ pc = "cleanTemporary" /\ pc \in FinalStages /\ pc # "linked"
      /\ pc' = IF ev'.status = "PASS" THEN "verifySources" ELSE "validate"
      /\ pc' \in FinalStages \ {"cleanTemporary"}
      /\ UNCHANGED <<job, checks, schema, sameRoot, ready, published, fallback, exit, envVars>>
    BY DEF CleanTemporary, FinalStages
<1>2. /\ ev \in Evidence
      /\ checks \in SUBSET TerminalChecks /\ raised \in SUBSET Faults /\ tmp \in BOOLEAN
    BY DEF IInv, TypeOK
<1>3. \A f \in raised : Named(f, 2) /\ (Double \/ Named(f, 0))
    BY <1>1 DEF IInv, Depths
<1>4. CASE tmp' = FALSE /\ UNCHANGED <<ev, raised>>
  <2>1. \A f \in raised : Named(f, 2) /\ Named(f, 3)
    BY <1>3, NamedMonotone
  <2>2. \A f \in raised' : Named(f, 2)' /\ Named(f, 3)'
    BY <1>4, <2>1 DEF Named
  <2>3. Depths'
    BY <1>1, <2>2 DEF Depths
  <2>4. QED
    BY <1>1, <1>2, <1>4, <2>3, FinalFacts, FinalStep
<1>5. CASE /\ ev' = [ev EXCEPT !.status = "FAIL", !.exit = "INTERNAL",
                               !.failure = Wrap("temporary", @)]
           /\ raised' = raised \cup {"temporary"} /\ UNCHANGED tmp
  <2>1. /\ ev' = [status |-> "FAIL", exit |-> "INTERNAL",
                  failure |-> Wrap("temporary", ev.failure), blank |-> ev.blank]
    BY <1>2, <1>5
  <2>2. /\ ev'.status = "FAIL" /\ ev'.exit = "INTERNAL"
        /\ ev'.failure = Wrap("temporary", ev.failure) /\ ev'.blank \in BOOLEAN
    BY <1>2, <2>1
  <2>3. /\ ev'.failure \in SUBSET [fault : Faults, depth : Nat] /\ raised' \in SUBSET Faults
        /\ \A f \in raised, n \in Nat : Named(f, n) => Named(f, n + 1)'
        /\ \A n \in Nat : Named("temporary", n)'
        /\ Double => Double'
    BY <1>5, <2>2, WrapStep
  <2>4. ASSUME NEW f \in raised'
        PROVE  Named(f, 3)' /\ ((Double' /\ "temporary" \in raised') \/ Named(f, 2)')
    <3>1. CASE f = "temporary"
      BY <2>3, <3>1
    <3>2. CASE f \in raised
      <4>1. Named(f, 2) => Named(f, 2 + 1)'
        BY <2>3, <3>2
      <4>2. Named(f, 3)'
        BY <1>3, <3>2, <4>1
      <4>3. Named(f, 0) => Named(f, 1)
        BY NamedMonotone
      <4>4. Named(f, 1) => Named(f, 1 + 1)'
        BY <2>3, <3>2
      <4>5. QED
        BY <1>3, <1>5, <2>3, <3>2, <4>2, <4>3, <4>4
    <3>3. QED
      BY <1>5, <3>1, <3>2
  <2>5. Depths'
    BY <1>1, <2>2, <2>4 DEF Depths
  <2>6. ev' \in Evidence
    BY <2>1, <2>2, <2>3 DEF Codes
  <2>7. QED
    BY <1>1, <1>2, <1>5, <2>2, <2>3, <2>5, <2>6, FinalStep
<1>6. QED
    BY <1>4, <1>5 DEF CleanTemporary

\* Both checkouts are compared with their seals, once everything else has passed.
LEMMA VerifyAllSourceIdentitiesStep ==
    ASSUME IInv, VerifyAllSourceIdentities
    PROVE  IInv'
<1>1. /\ pc = "verifySources" /\ pc \in FinalStages /\ pc # "linked" /\ pc' = "validate"
      /\ pc' \in FinalStages \ {"cleanTemporary"}
      /\ UNCHANGED <<job, schema, sameRoot, ready, tmp, published, fallback, exit, envVars>>
    BY DEF VerifyAllSourceIdentities, FinalStages, diskVars
<1>2. /\ ev \in Evidence
      /\ checks \in SUBSET TerminalChecks /\ tmp \in BOOLEAN
    BY DEF IInv, TypeOK
<1>3. ev.status = "PASS" /\ raised = {} /\ ~tmp
    BY <1>1, FinalFacts, SMTT(40) DEF IInv, Position, Documents
<1>4. PICK bad \in UnverifiedRoots :
         /\ checks' = checks \cup ({"target", "controlSource"} \ bad)
         /\ raised' = raised \cup bad
         /\ IF bad = {}
            THEN UNCHANGED ev
            ELSE \E code \in {"CONTRACT", "INTERNAL"} :
                   ev' = [ev EXCEPT !.status = "FAIL", !.exit = code,
                             !.failure = IF Cardinality(bad) = 1
                                         THEN UNION {Record(f) : f \in bad}
                                         ELSE Aggregate(bad, {})]
    BY DEF VerifyAllSourceIdentities
<1>5. /\ bad \subseteq {"target", "controlSource"} /\ raised' = bad
      /\ checks' \in SUBSET TerminalChecks /\ raised' \in SUBSET Faults
    BY <1>2, <1>3, <1>4 DEF UnverifiedRoots, TerminalChecks, Faults
<1>6. CASE bad = {}
  <2>1. Depths' /\ UNCHANGED ev
    BY <1>4, <1>5, <1>6 DEF Depths
  <2>2. QED
    BY <1>1, <1>2, <1>3, <1>5, <1>6, <2>1, FinalFacts, FinalStep
<1>7. CASE bad # {}
  <2> DEFINE tree == IF Cardinality(bad) = 1 THEN UNION {Record(f) : f \in bad}
                                             ELSE Aggregate(bad, {})
  <2>1. PICK code \in {"CONTRACT", "INTERNAL"} :
           ev' = [status |-> "FAIL", exit |-> code, failure |-> tree, blank |-> ev.blank]
    BY <1>2, <1>4, <1>7
  <2>2. tree \in SUBSET [fault : Faults, depth : Nat]
    <3>1. UNION {Record(f) : f \in bad} \in SUBSET [fault : Faults, depth : Nat]
      BY <1>5 DEF Record, Faults
    <3>2. Aggregate(bad, {}) \in SUBSET [fault : Faults, depth : Nat]
      <4>1. \A f \in bad : [fault |-> f, depth |-> 2] \in [fault : Faults, depth : Nat]
        BY <1>5
      <4>2. QED
        BY <4>1 DEF Aggregate
    <3>3. QED
      BY <3>1, <3>2
  <2>3. \A f \in bad : \E x \in tree : x.fault = f /\ x.depth <= 2
    <3>1. CASE Cardinality(bad) = 1
      <4>1. \A f \in bad : Record(f) \subseteq tree
        BY <3>1
      <4> HIDE DEF tree
      <4>2. QED
        BY <4>1, RecordNames
    <3>2. CASE Cardinality(bad) # 1
      <4>1. tree = Aggregate(bad, {})
        BY <3>2
      <4>2. QED
        BY <4>1, AggregateNames
    <3>3. QED
      BY <3>1, <3>2
  <2> HIDE DEF tree
  <2>4. /\ ev'.status = "FAIL" /\ ev'.exit # "PASS" /\ ev'.failure = tree
        /\ ev' \in Evidence
    BY <1>2, <2>1, <2>2 DEF Codes
  <2>5. ASSUME NEW f \in raised'
        PROVE  Named(f, 3)' /\ Named(f, 2)'
    <3>1. PICK x \in ev'.failure : x.fault = f /\ x.depth <= 2
      BY <1>5, <2>3, <2>4
    <3>2. x.depth \in Nat
      BY <2>4, <2>2
    <3>3. x.depth <= 3
      BY <3>1, <3>2
    <3>4. QED
      BY <3>1, <3>3 DEF Named
  <2>6. Depths'
    BY <1>1, <2>5 DEF Depths
  <2>7. QED
    BY <1>1, <1>2, <1>5, <2>4, <2>6, FinalStep
<1>8. QED
    BY <1>6, <1>7

\* Evidence that cannot be written: its failure is on top of the others.
LEMMA WriteFailsStep ==
    ASSUME IInv, pc \in {"validate", "writeTemporary", "link"}, ready, WriteFails,
           UNCHANGED <<job, checks, schema, sameRoot, ready, tmp, fallback, envVars>>
    PROVE  IInv'
<1>1. /\ pc \in FinalStages /\ pc # "linked" /\ pc' = "fallback"
      /\ pc' \in FinalStages \ {"cleanTemporary"} /\ raised' = raised \cup {"write"}
      /\ UNCHANGED <<published, exit>>
    BY DEF WriteFails, FinalStages
<1>2. /\ ev \in Evidence
      /\ checks \in SUBSET TerminalChecks /\ raised \in SUBSET Faults /\ tmp \in BOOLEAN
    BY DEF IInv, TypeOK
<1>3. \A f \in raised : Named(f, 3) /\ ((Double /\ "temporary" \in raised) \/ Named(f, 2))
    BY DEF IInv, Depths
<1>4. ev' = [status |-> "FAIL", exit |-> "INTERNAL", failure |-> Wrap("write", ev.failure),
             blank |-> ev.blank]
    BY <1>2 DEF WriteFails
<1>5. /\ ev'.status = "FAIL" /\ ev'.exit = "INTERNAL"
      /\ ev'.failure = Wrap("write", ev.failure) /\ ev'.blank \in BOOLEAN
    BY <1>2, <1>4
<1>6. /\ ev'.failure \in SUBSET [fault : Faults, depth : Nat] /\ raised' \in SUBSET Faults
      /\ \A f \in raised, n \in Nat : Named(f, n) => Named(f, n + 1)'
      /\ \A n \in Nat : Named("write", n)'
      /\ Double => Double'
    BY <1>1, <1>5, WrapStep
<1>7. ASSUME NEW f \in raised'
      PROVE  /\ Named(f, 4)'
             /\ (Double' /\ {"temporary", "write"} \subseteq raised') \/ Named(f, 3)'
  <2>1. CASE f = "write"
    BY <1>6, <2>1
  <2>2. CASE f \in raised
    <3>1. (Named(f, 3) => Named(f, 3 + 1)') /\ (Named(f, 2) => Named(f, 2 + 1)')
      BY <1>6, <2>2
    <3>2. QED
      BY <1>1, <1>3, <1>6, <2>2, <3>1
  <2>3. QED
    BY <1>1, <2>1, <2>2
<1>8. Depths'
    BY <1>1, <1>7 DEF Depths
<1>9. ev' \in Evidence
    BY <1>4, <1>5, <1>6 DEF Codes
<1>10. QED
    BY <1>1, <1>2, <1>5, <1>6, <1>8, <1>9, FinalStep

\* The gate has returned: what is left of the invariant is about its documents.
LEMMA ReturnStep ==
    ASSUME IInv, pc \in FinalStages, pc' = "returned",
           ev' \in Evidence,
           raised' \in SUBSET Faults, fallback' \in SUBSET Faults, exit' \in Codes \cup {"PASS"},
           published.status = "PASS" => raised' = raised,
           published.status # "none" => fallback' = {},
           exit' = "PASS" <=> published.status = "PASS",
           published.status = "FAIL" => published.exit = exit',
           published.status = "none" /\ ready => exit' = "INTERNAL",
           UNCHANGED <<job, checks, schema, sameRoot, ready, tmp, published, envVars>>,
           FaultsReported'
    PROVE  IInv'
<1>1. UNCHANGED <<job, checks, schema, sameRoot, ready, tmp, published, container, changed,
                  staleReads>>
    BY DEF envVars
<1>2. pc' \in Ended /\ pc' \notin Working /\ pc' \notin FinalStages /\ job.phase = "idle"
    BY StageKinds, FinalFacts DEF Ended
<1>3. TypeOK'
    BY <1>1, <1>2 DEF IInv, TypeOK
<1>4. Position' /\ Documents' /\ Contained' /\ Noticed' /\ Depths'
    BY <1>1, <1>2 DEF Position, Documents, Contained, Noticed, Depths
<1>5. VerdictAgrees'
    BY <1>1 DEF VerdictAgrees, Codes
<1>6. PassIsEarned'
    BY <1>1 DEF IInv, PassIsEarned
<1>7. QED
    BY <1>3, <1>4, <1>5, <1>6 DEF IInv

LEMMA ValidateEvidenceStep ==
    ASSUME IInv, ValidateEvidence
    PROVE  IInv'
<1>1. /\ pc = "validate" /\ pc \in FinalStages
      /\ UNCHANGED <<job, checks, schema, sameRoot, ready, tmp, fallback, envVars>>
    BY DEF ValidateEvidence, FinalStages
<1>2. /\ ev \in Evidence
      /\ checks \in SUBSET TerminalChecks /\ raised \in SUBSET Faults /\ tmp \in BOOLEAN
    BY DEF IInv, TypeOK
<1>3. \A f \in raised : Named(f, 3) /\ ((Double /\ "temporary" \in raised) \/ Named(f, 2))
    BY <1>1 DEF IInv, Depths
<1>4. CASE ~ready /\ Return(ev.exit) /\ UNCHANGED <<ev, raised, published>>
  <2>1. /\ pc' = "returned" /\ exit' = ev.exit /\ exit' # "PASS" /\ published.status = "none"
        /\ fallback = {}
    BY <1>1, <1>4, FinalFacts DEF Return, Nothing
  <2>2. \A f \in raised : f \in Bounded(ev.failure)
    <3>1. \A f \in raised : Named(f, 4)
      BY <1>3, NamedMonotone
    <3>2. QED
      BY <3>1, BoundedNames DEF Named
  <2>3. FaultsReported'
    BY <1>1, <1>4, <2>1, <2>2 DEF FaultsReported, Report
  <2>4. exit' \in Codes \cup {"PASS"} /\ fallback' \in SUBSET Faults
    BY <1>1, <1>2, <2>1
  <2>5. QED
    BY <1>1, <1>2, <1>4, <2>1, <2>3, <2>4, ReturnStep
<1>5. CASE /\ ready /\ ValidEvidence /\ pc' = "writeTemporary"
           /\ UNCHANGED <<ev, raised, published, exit>>
  <2>1. pc' \in FinalStages \ {"cleanTemporary"} /\ pc # "linked"
    BY <1>1, <1>5 DEF FinalStages
  <2>2. ev.status = "PASS" => checks = TerminalChecks /\ ~tmp /\ raised = {}
    BY <1>1, <1>5, FinalFacts DEF ValidEvidence, PassEvidence, IInv, Documents
  <2>3. Depths'
    BY <1>3, <1>5 DEF Depths, Named, Double
  <2>4. QED
    BY <1>1, <1>2, <1>5, <2>1, <2>2, <2>3, FinalFacts, FinalStep
<1>6. CASE ready /\ WriteFails
    BY <1>1, <1>6, WriteFailsStep
<1>7. QED
    BY <1>4, <1>5, <1>6 DEF ValidateEvidence

LEMMA WriteTemporaryStep ==
    ASSUME IInv, WriteTemporary
    PROVE  IInv'
<1>1. /\ pc = "writeTemporary" /\ pc \in FinalStages /\ ready
      /\ UNCHANGED <<job, checks, schema, sameRoot, ready, tmp, fallback, envVars>>
    BY DEF WriteTemporary, FinalStages, IInv, Position
<1>2. /\ ev \in Evidence
      /\ checks \in SUBSET TerminalChecks /\ raised \in SUBSET Faults /\ tmp \in BOOLEAN
    BY DEF IInv, TypeOK
<1>3. CASE pc' = "link" /\ UNCHANGED <<ev, raised, published, exit>>
  <2>1. pc' \in FinalStages \ {"cleanTemporary"} /\ pc # "linked"
    BY <1>1, <1>3 DEF FinalStages
  <2>2. ev.status = "PASS" => checks = TerminalChecks /\ ~tmp /\ raised = {}
    BY <1>1, FinalFacts DEF IInv, Documents
  <2>3. Depths'
    BY <1>1, <1>3 DEF IInv, Depths, Named, Double
  <2>4. QED
    BY <1>1, <1>2, <1>3, <2>1, <2>2, <2>3, FinalFacts, FinalStep
<1>4. CASE WriteFails
    BY <1>1, <1>4, WriteFailsStep
<1>5. QED
    BY <1>3, <1>4 DEF WriteTemporary

\* The document becomes visible, with everything that is true of it.
LEMMA LinkEvidenceStep ==
    ASSUME IInv, LinkEvidence
    PROVE  IInv'
<1>1. /\ pc = "link" /\ pc \in FinalStages /\ ready
      /\ UNCHANGED <<job, checks, schema, sameRoot, ready, tmp, fallback, envVars>>
    BY DEF LinkEvidence, FinalStages, IInv, Position
<1>2. /\ ev \in Evidence
      /\ checks \in SUBSET TerminalChecks /\ raised \in SUBSET Faults /\ tmp \in BOOLEAN
    BY DEF IInv, TypeOK
<1>3. CASE /\ published' = [status |-> ev.status, exit |-> ev.exit,
                            faults |-> {x.fault : x \in ev.failure}, checks |-> checks]
           /\ pc' = "linked" /\ UNCHANGED <<ev, raised, exit>>
  <2>1. /\ pc' \in FinalStages /\ pc' \notin Working /\ pc' \notin Ended /\ pc' \notin Scans
        /\ UNCHANGED <<container, changed, staleReads>>
    BY <1>1, <1>3, StageKinds DEF FinalStages, envVars
  <2>2. /\ published'.status = ev.status /\ published'.exit = ev.exit
        /\ published'.faults = {x.fault : x \in ev.failure} /\ published'.checks = checks
        /\ ev.status \in {"PASS", "FAIL"} /\ exit = "none" /\ fallback = {} /\ job.phase = "idle"
    BY <1>1, <1>3, FinalFacts
  <2>3. raised \subseteq published'.faults
    <3>1. \A f \in raised : Named(f, 3)
      BY <1>1 DEF IInv, Depths
    <3>2. QED
      BY <2>2, <3>1 DEF Named
  <2>4. ev.status = "PASS" => /\ checks = TerminalChecks /\ ~tmp /\ raised = {}
                              /\ staleReads = {} /\ container \in {"none", "gone"}
    BY <1>1, FinalFacts DEF IInv, Documents
  <2>5. TypeOK'
    <3>1. {x.fault : x \in ev.failure} \in SUBSET Faults
      BY <1>2
    <3>2. published' \in [status : {"none", "PASS", "FAIL"}, exit : Codes \cup {"none", "PASS"},
                          faults : SUBSET Faults, checks : SUBSET TerminalChecks]
      BY <1>2, <1>3, <2>2, <3>1
    <3>3. QED
      BY <1>1, <1>3, <2>1, <3>2 DEF IInv, TypeOK
  <2>6. Position'
    BY <1>1, <1>3, <2>1, <2>2, FinalFacts DEF Position
  <2>7. Documents'
    BY <1>1, <1>3, <2>1, <2>2, <2>3, <2>4 DEF Documents
  <2>8. Contained' /\ Noticed'
    <3>1. Contained'
      BY <1>1, <1>3, <2>1 DEF IInv, Contained, Ended
    <3>2. Noticed'
      BY <1>3, <2>1, <2>4 DEF Noticed
    <3>3. QED
      BY <3>1, <3>2
  <2>9. Depths'
    BY <1>1, <1>3 DEF IInv, Depths, Named, Double
  <2>10. VerdictAgrees' /\ FaultsReported'
    BY <1>1, <1>3, <2>2 DEF VerdictAgrees, FaultsReported
  <2>11. PassIsEarned'
    BY <1>1, <1>3, <2>1, <2>2, <2>4 DEF PassIsEarned
  <2>12. QED
    BY <2>5, <2>6, <2>7, <2>8, <2>9, <2>10, <2>11 DEF IInv
<1>4. CASE WriteFails
    BY <1>1, <1>4, WriteFailsStep
<1>5. QED
    BY <1>3, <1>4 DEF LinkEvidence

LEMMA RemoveTemporaryStep ==
    ASSUME IInv, RemoveTemporary
    PROVE  IInv'
<1>1. /\ pc = "linked" /\ pc \in FinalStages /\ pc' = "returned" /\ exit' = ev.exit
      /\ UNCHANGED <<job, ev, checks, schema, sameRoot, ready, tmp, published, fallback, raised,
                     envVars>>
    BY DEF RemoveTemporary, Return, FinalStages
<1>2. /\ ev \in Evidence
      /\ raised \in SUBSET Faults /\ fallback \in SUBSET Faults
    BY DEF IInv, TypeOK
<1>3. /\ published.status = ev.status /\ published.exit = ev.exit /\ fallback = {}
      /\ raised \subseteq published.faults
      /\ ev.status \in {"PASS", "FAIL"} /\ (ev.status = "PASS" <=> ev.exit = "PASS")
    BY <1>1, FinalFacts DEF IInv, Documents
<1>4. FaultsReported'
    BY <1>1, <1>3 DEF FaultsReported, Report
<1>5. QED
    BY <1>1, <1>2, <1>3, <1>4, ReturnStep

\* The fallback document, or the console's summary when that cannot be written either.
LEMMA WriteFallbackStep ==
    ASSUME IInv, WriteFallback
    PROVE  IInv'
<1>1. /\ pc = "fallback" /\ pc \in FinalStages /\ pc' = "returned" /\ exit' = "INTERNAL"
      /\ UNCHANGED <<job, checks, schema, sameRoot, ready, tmp, published, envVars>>
    BY DEF WriteFallback, Return, FinalStages
<1>2. /\ ev \in Evidence
      /\ raised \in SUBSET Faults /\ "INTERNAL" \in Codes
    BY DEF IInv, TypeOK, Codes
<1>3. published.status = "none" /\ fallback = {}
    BY <1>1, FinalFacts DEF Nothing
<1>4. \A f \in raised : /\ Named(f, 4)
                        /\ (Double /\ {"temporary", "write"} \subseteq raised) \/ Named(f, 3)
    BY <1>1 DEF IInv, Depths
<1>5. CASE fallback' = Bounded(ev.failure) /\ UNCHANGED <<ev, raised>>
  <2>1. raised \subseteq Bounded(ev.failure)
    BY <1>4, BoundedNames DEF Named
  <2>2. Bounded(ev.failure) \in SUBSET Faults
    BY <1>2 DEF Bounded
  <2>3. FaultsReported'
    BY <1>1, <1>3, <1>5, <2>1 DEF FaultsReported, Report
  <2>4. QED
    BY <1>1, <1>2, <1>3, <1>5, <2>2, <2>3, ReturnStep
<1>6. CASE /\ ev' = [ev EXCEPT !.failure = Wrap("fallback", @)]
           /\ raised' = raised \cup {"fallback"} /\ UNCHANGED fallback
  <2>1. ev' = [status |-> ev.status, exit |-> ev.exit, failure |-> Wrap("fallback", ev.failure),
               blank |-> ev.blank]
    BY <1>2, <1>6
  <2>2. ev'.failure = Wrap("fallback", ev.failure)
    BY <2>1
  <2>3. /\ ev'.failure \in SUBSET [fault : Faults, depth : Nat] /\ raised' \in SUBSET Faults
        /\ \A f \in raised, n \in Nat : Named(f, n) => Named(f, n + 1)'
        /\ \A n \in Nat : Named("fallback", n)'
        /\ Double => Double'
    BY <1>6, <2>2, WrapStep
  <2>4. FaultsReported'
    <3>1. CASE Double /\ {"temporary", "write"} \subseteq raised
      BY <1>6, <2>3, <3>1 DEF FaultsReported, Double
    <3>2. CASE ~(Double /\ {"temporary", "write"} \subseteq raised)
      <4>1. ASSUME NEW f \in raised'
            PROVE  Named(f, 4)'
        <5>1. CASE f = "fallback"
          BY <2>3, <5>1
        <5>2. CASE f \in raised
          <6>1. Named(f, 3) => Named(f, 3 + 1)'
            BY <2>3, <5>2
          <6>2. QED
            BY <1>4, <3>2, <5>2, <6>1
        <5>3. QED
          BY <1>6, <5>1, <5>2
      <4>2. raised' \subseteq Bounded(ev'.failure)
        BY <4>1, BoundedNames DEF Named
      <4>3. QED
        BY <1>1, <1>3, <1>6, <4>2 DEF FaultsReported, Report
    <3>3. QED
      BY <3>1, <3>2
  <2>5. ev' \in Evidence
    BY <1>2, <2>1, <2>2, <2>3
  <2>6. QED
    BY <1>1, <1>2, <1>3, <1>6, <2>3, <2>4, <2>5, ReturnStep
<1>7. QED
    BY <1>5, <1>6 DEF WriteFallback

-----------------------------------------------------------------------------
(* The invariant *)

LEMMA InitInvariant ==
    ASSUME Init
    PROVE  IInv
<1>1. /\ pc = "start" /\ job = Idle /\ container = "none" /\ ev = InProgress /\ checks = {}
      /\ schema = FALSE /\ sameRoot \in BOOLEAN /\ ready = FALSE /\ tmp = FALSE
      /\ published = Nothing /\ fallback = {} /\ exit = "none" /\ raised = {}
      /\ changed = {} /\ staleReads = {}
    BY DEF Init
<1>2. pc \in Working /\ pc \notin FinalStages /\ pc \notin Ended
    BY <1>1, StageKinds
<1>3. /\ job.phase = "idle" /\ ev.status = "IN_PROGRESS" /\ ev.exit = "INTERNAL"
      /\ published.status = "none"
    BY <1>1 DEF Idle, InProgress, Nothing
<1>4. TypeOK
  <2>1. ev \in Evidence
    BY <1>1 DEF InProgress, NoFailure, Codes
  <2>2. job \in Jobs
    BY <1>1 DEF Idle
  <2>3. published \in [status : {"none", "PASS", "FAIL"}, exit : Codes \cup {"none", "PASS"},
                       faults : SUBSET Faults, checks : SUBSET TerminalChecks]
    BY <1>1 DEF Nothing
  <2>4. QED
    BY <1>1, <1>2, <2>1, <2>2, <2>3 DEF TypeOK, Working
<1>5. Position /\ Documents /\ Contained /\ Noticed
    BY <1>1, <1>2, <1>3 DEF Position, Documents, Contained, Noticed
<1>6. Depths /\ VerdictAgrees /\ PassIsEarned /\ FaultsReported
    BY <1>1, <1>3 DEF Depths, VerdictAgrees, PassIsEarned, FaultsReported
<1>7. QED
    BY <1>4, <1>5, <1>6 DEF IInv

LEMMA StutterStep ==
    ASSUME IInv, UNCHANGED vars
    PROVE  IInv'
<1>1. UNCHANGED <<pc, job, ev, checks, schema, sameRoot, ready, tmp, published, fallback, exit,
                  raised, container, changed, staleReads>>
    BY DEF vars, gateVars, envVars
<1>2. TypeOK' /\ Position' /\ Documents'
    BY <1>1 DEF IInv, TypeOK, Position, Documents
<1>3. Contained' /\ Noticed'
    BY <1>1 DEF IInv, Contained, Noticed
<1>4. Depths' /\ VerdictAgrees' /\ PassIsEarned'
    BY <1>1 DEF IInv, Depths, Double, Named, VerdictAgrees, PassIsEarned
<1>5. FaultsReported'
    BY <1>1 DEF IInv, FaultsReported, Report
<1>6. QED
    BY <1>2, <1>3, <1>4, <1>5 DEF IInv

\* The inductive invariant of one run of the gate: where it stands and what it has
\* on disk, the container of its scan, the changed inputs that will still be
\* noticed, and how deep each fault is in the failure it will report.
THEOREM GateInvariant == Spec => []IInv
<1>1. Init => IInv
    BY InitInvariant
<1>2. IInv /\ [Next]_vars => IInv'
  <2>1. SUFFICES ASSUME IInv, [Next]_vars
                 PROVE  IInv'
    OBVIOUS
  <2>2. CASE GateStep
    <3>1. CASE Finally
      BY <2>1, <3>1, CleanTemporaryStep, VerifyAllSourceIdentitiesStep, ValidateEvidenceStep,
         WriteTemporaryStep, LinkEvidenceStep, RemoveTemporaryStep, WriteFallbackStep DEF Finally
    <3>2. QED
      BY <2>1, <2>2, <3>1, StartStep, PrepareStep, RunGateStep, RunDockerStep DEF GateStep
  <2>3. CASE Environment
    BY <2>1, <2>3, EnvironmentStep
  <2>4. CASE Done \/ UNCHANGED vars
    BY <2>1, <2>4, StutterStep DEF Done
  <2>5. QED
    BY <2>1, <2>2, <2>3, <2>4 DEF Next
<1>3. QED
    BY <1>1, <1>2, PTL DEF Spec

\* The exit code of executeSupplyChainGate and the documents it left agree: PASS
\* with PASS, a FAIL document with its own code, never two that disagree.
THEOREM GateVerdict == Spec => []GateInv
<1>1. IInv => GateInv
    BY DEF IInv, GateInv
<1>2. QED
    BY <1>1, GateInvariant, PTL

\* A published PASS is earned: nothing was raised, every terminal check is in it, no
\* scan read a changed input, and no container or temporary root is left behind.
THEOREM GatePassIsEarned == Spec => []PassIsEarned
<1>1. IInv => PassIsEarned
    BY DEF IInv
<1>2. QED
    BY <1>1, GateInvariant, PTL

\* What the gate returns names every fault it met, but for the console's summary of
\* a doubly failed scan under three further failures.
THEOREM GateFaultsReported == Spec => []FaultsReported
<1>1. IInv => FaultsReported
    BY DEF IInv
<1>2. QED
    BY <1>1, GateInvariant, PTL
=============================================================================

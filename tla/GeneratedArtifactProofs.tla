---------------------- MODULE GeneratedArtifactProofs ----------------------
(***************************************************************************)
(* What the generator guarantees for any number of concurrent runs and any *)
(* depth of the output directory: the artifact is replaced as a whole, a   *)
(* temporary file that is left over is explained, a PASS stays true, and   *)
(* of writers that race one passes.                                        *)
(***************************************************************************)
EXTENDS GeneratedArtifact, FiniteSetTheorems, TLAPS

Reads == {"lstat", "open", "fstat", "read"}
Labels ==
    Reads \cup Ended \cup
    {"source", "ancestor", "mkdir", "directory", "writable", "exact", "final", "exists",
     "missing", "create", "stat", "write", "sync", "identity", "rename", "cleanup", "remove"}

\* TypeOK with the types of the control state.
Types ==
    /\ TypeOK
    /\ pc \in [Runs -> Labels]
    /\ reading \in [Runs -> {"nothing", "current", "checked", "staged", "written"}]
    /\ harm \in [Runs -> {"none", "error", "cleanup", "killed"}]

\* A run that has created nothing yet.
Early(p) ==
    \/ pc[p] \in {"source", "ancestor", "mkdir", "directory", "writable", "exact", "exists",
                  "missing", "create"}
    \/ pc[p] \in Reads /\ reading[p] \in {"current", "checked"}

\* A run that has the temporary file.
Owner(p) ==
    \/ pc[p] \in {"stat", "write", "sync", "identity", "rename", "cleanup", "remove"}
    \/ pc[p] \in Reads /\ reading[p] = "staged"

\* A run that has renamed it.
Late(p) ==
    \/ pc[p] = "final"
    \/ pc[p] \in Reads /\ reading[p] = "written"

\* Whose the temporary file is, by the phase of a run.
Phases(p) ==
    /\ pc[p] \in Reads => reading[p] # "nothing"
    /\ Early(p) => temp # p /\ target # p /\ ~created[p]
    /\ Owner(p) => temp = p /\ target # p /\ created[p]
    /\ Late(p) => temp # p /\ target \in Runs /\ ~created[p]

\* What an owner knows of its file, and what has been written to it.
Staging(p) ==
    /\ pc[p] \in {"stat", "write", "sync"} => handle[p] = p
    /\ Owner(p) /\ pc[p] \notin {"stat", "cleanup"} => identity[p] = p
    /\ pc[p] = "cleanup" => identity[p] = p \/ (identity[p] = None /\ harm[p] = "error")
    /\ Early(p) \/ pc[p] = "stat" => identity[p] = None
    /\ pc[p] \in {"identity", "rename"} \/ (pc[p] \in Reads /\ reading[p] = "staged")
         => content[p] = "expected"
    /\ content[p] \in {"empty", "partial", "expected"}

\* The file that was opened is the artifact, unless a run has replaced it since.
Opened(p) ==
    pc[p] \in {"fstat", "read"} /\ reading[p] \in {"current", "checked"} =>
        handle[p] \in Inodes /\ (handle[p] = target \/ target \in Runs)

MakingDirectory(p) == pc[p] = "mkdir" => depth[p] < Levels

RunInv(p) == Phases(p) /\ Staging(p) /\ Opened(p) /\ MakingDirectory(p)

IInv ==
    /\ Types
    /\ ArtifactWhole /\ LeftoverExplained /\ PassIsExact
    /\ \A p \in Runs : RunInv(p)

-----------------------------------------------------------------------------

LEMMA InitIInv == Init => IInv
<1> SUFFICES ASSUME Init PROVE IInv
  OBVIOUS
<1>1. Types
  BY InodesDiffer DEF Init, Types, TypeOK, Labels, Inodes, Contents
<1>2. ArtifactWhole /\ LeftoverExplained /\ PassIsExact
  BY InodesDiffer DEF Init, ArtifactWhole, LeftoverExplained, PassIsExact, Ended
<1>3. ASSUME NEW p \in Runs PROVE RunInv(p)
  BY InodesDiffer DEF Init, RunInv, Phases, Staging, Opened, MakingDirectory, Early, Owner,
     Late, Reads, Inodes
<1> QED
  BY <1>1, <1>2, <1>3 DEF IInv

\* A run that the step is not about.
Same(q) ==
    /\ pc'[q] = pc[q] /\ reading'[q] = reading[q] /\ depth'[q] = depth[q]
    /\ handle'[q] = handle[q] /\ created'[q] = created[q]
    /\ identity'[q] = identity[q] /\ harm'[q] = harm[q]

\* LeftoverExplained for one run.
Explained(p) ==
    pc[p] \in Ended =>
        \/ harm[p] \in {"killed", "cleanup"}
        \/ harm[p] = "error" /\ identity[p] = None

\* What a run that the step is not about needs of the files.
LEMMA OtherRun ==
  ASSUME NEW q \in Runs, RunInv(q), Same(q), content'[q] = content[q],
         Early(q) => temp' # q /\ target' # q,
         Owner(q) => temp' = q /\ target' # q,
         Late(q) => temp' # q,
         target' = target \/ target' \in Runs
  PROVE  RunInv(q)'
<1>1. (Early(q)' <=> Early(q)) /\ (Owner(q)' <=> Owner(q)) /\ (Late(q)' <=> Late(q))
  BY DEF Same, Early, Owner, Late
<1>2. Phases(q)'
  BY <1>1 DEF RunInv, Phases, Same
<1>3. Staging(q)'
  BY <1>1 DEF RunInv, Staging, Same
<1>4. Opened(q)' /\ MakingDirectory(q)'
  BY DEF RunInv, Opened, MakingDirectory, Same
<1> QED
  BY <1>2, <1>3, <1>4 DEF RunInv

\* A step that changes no file: only what it does to its own run matters.
LEMMA Frame ==
  ASSUME IInv, NEW p \in Runs,
         UNCHANGED <<target, temp, content>>,
         Types', RunInv(p)',
         pc'[p] = "pass" => target # None /\ content[target] = "expected",
         temp = p => Explained(p)',
         \A q \in Runs \ {p} : Same(q)
  PROVE  IInv'
<1>1. ArtifactWhole'
  BY DEF IInv, ArtifactWhole
<1>2. LeftoverExplained'
  BY DEF IInv, LeftoverExplained, Same, Explained
<1>3. PassIsExact'
  BY DEF IInv, PassIsExact, Same
<1>4. ASSUME NEW q \in Runs PROVE RunInv(q)'
  <2>1. CASE q = p
    BY <2>1
  <2>2. CASE q # p
    BY <2>2, OtherRun DEF IInv, RunInv, Phases
  <2> QED
    BY <2>1, <2>2
<1> QED
  BY <1>1, <1>2, <1>3, <1>4 DEF IInv

\* A step that changes nothing but where its run is.
LEMMA Moved ==
  ASSUME IInv, NEW p \in Runs, NEW l \in Labels,
         Goto(p, l), UNCHANGED <<diskVars, mode, localVars, harm>>,
         RunInv(p)',
         l = "pass" => target # None /\ content[target] = "expected",
         temp = p => Explained(p)'
  PROVE  IInv'
<1>1. pc' = [pc EXCEPT ![p] = l] /\ pc'[p] = l
  BY DEF Goto, IInv, Types
<1>2. Types'
  BY <1>1 DEF IInv, Types, TypeOK, diskVars, localVars
<1>3. \A q \in Runs \ {p} : Same(q)
  BY <1>1 DEF Same, IInv, Types, localVars
<1> QED
  BY <1>1, <1>2, <1>3, Frame DEF diskVars

-----------------------------------------------------------------------------
(* The steps that change no file *)

LEMMA ThrowStep ==
  ASSUME IInv, NEW p \in Runs, pc[p] \notin Ended \cup {"cleanup", "remove", "stat"},
         Goto(p, Unwound(p)), UNCHANGED <<diskVars, mode, localVars, harm>>
  PROVE  IInv'
<1> USE DEF Reads, Ended
<1>0. /\ Types /\ RunInv(p)
      /\ pc' = [pc EXCEPT ![p] = Unwound(p)] /\ pc'[p] = Unwound(p)
  BY DEF IInv, Types, Goto
<1>1. Early(p) \/ Owner(p) \/ Late(p)
  BY <1>0 DEF Early, Owner, Late, Types, Labels, RunInv, Phases
<1>2. CASE Owner(p)
  <2>1. Unwound(p) = "cleanup"
    BY <1>0, <1>2 DEF RunInv, Phases, Unwound
  <2>2. Owner(p)' /\ ~Early(p)' /\ ~Late(p)'
    BY <1>0, <2>1 DEF Owner, Early, Late
  <2>3. Phases(p)'
    BY <1>0, <1>2, <2>1, <2>2 DEF RunInv, Phases, diskVars, localVars
  <2>4. Staging(p)'
    BY <1>0, <1>2, <2>1, <2>2 DEF RunInv, Staging, diskVars, localVars
  <2>5. RunInv(p)' /\ Explained(p)'
    BY <1>0, <2>1, <2>3, <2>4 DEF RunInv, Opened, MakingDirectory, Explained
  <2> QED
    BY <1>0, <2>1, <2>5, Moved DEF Labels
<1>3. CASE ~Owner(p)
  <2>1. Unwound(p) = "failed" /\ temp # p
    BY <1>0, <1>1, <1>3 DEF RunInv, Phases, Unwound
  <2>2. ~Owner(p)' /\ ~Early(p)' /\ ~Late(p)'
    BY <1>0, <2>1 DEF Owner, Early, Late
  <2>3. RunInv(p)'
    BY <1>0, <2>1, <2>2 DEF RunInv, Phases, Staging, Opened, MakingDirectory, diskVars
  <2> QED
    BY <1>0, <2>1, <2>3, Moved DEF Labels
<1> QED
  BY <1>2, <1>3

\* A run that goes on to another place of the same phase, or from reading to the next.
LEMMA PhaseStep ==
  ASSUME IInv, NEW p \in Runs, NEW l \in Labels \ (Ended \cup {"cleanup"}),
         Goto(p, l), UNCHANGED <<diskVars, mode, localVars, harm>>,
         Early(p)' => Early(p), Owner(p)' => Owner(p) /\ pc[p] \notin {"stat", "cleanup"},
         Late(p)' => Late(p),
         l \in {"stat", "write", "sync"} => FALSE,
         l \in {"identity", "rename"} => content[p] = "expected",
         l \in Reads => pc[p] \in Reads,
         l = "mkdir" => depth[p] < Levels,
         l = "fstat" => FALSE, l = "read" => pc[p] = "fstat"
  PROVE  IInv'
<1> USE DEF Reads, Ended
<1>0. /\ Types /\ RunInv(p)
      /\ pc' = [pc EXCEPT ![p] = l] /\ pc'[p] = l
  BY DEF IInv, Types, Goto
<1>1. Phases(p)'
  BY <1>0 DEF RunInv, Phases, diskVars, localVars
<1>2. Staging(p)'
  BY <1>0 DEF RunInv, Staging, diskVars, localVars
<1>3. Opened(p)' /\ MakingDirectory(p)'
  BY <1>0 DEF RunInv, Opened, MakingDirectory, diskVars, localVars, Inodes
<1>4. RunInv(p)' /\ Explained(p)'
  BY <1>0, <1>1, <1>2, <1>3 DEF RunInv, Explained
<1> QED
  BY <1>0, <1>4, Moved

LEMMA PassStep ==
  ASSUME IInv, NEW p \in Runs, Goto(p, "pass"),
         UNCHANGED <<diskVars, mode, localVars, harm>>,
         temp # p, target # None, content[target] = "expected"
  PROVE  IInv'
<1> USE DEF Reads
<1>0. RunInv(p) /\ pc' = [pc EXCEPT ![p] = "pass"] /\ pc'[p] = "pass"
  BY DEF IInv, Types, Goto
<1>1. ~Owner(p)' /\ ~Early(p)' /\ ~Late(p)'
  BY <1>0 DEF Owner, Early, Late
<1>2. RunInv(p)'
  BY <1>0, <1>1 DEF RunInv, Phases, Staging, Opened, MakingDirectory, diskVars
<1> QED
  BY <1>0, <1>2, Moved DEF Labels, Ended

\* The checks that only decide where the run goes.
LEMMA DecideSteps ==
  ASSUME IInv, NEW p \in Runs,
         \/ Source(p) \/ ExistingDirectory(p) \/ WritableInventory(p) \/ FinalInventory(p)
         \/ PathMissing(p) \/ Fstat(p) \/ AssertIdentity(p)
  PROVE  IInv'
<1> USE DEF Reads, Ended
<1>0. Types /\ RunInv(p) /\ ArtifactWhole /\ pc[p] \in Labels /\ created[p] \in BOOLEAN
  BY DEF IInv, Types, TypeOK
<1>1. CASE Source(p)
  <2>1. PICK l \in {"ancestor", "directory"} :
           Goto(p, l) /\ UNCHANGED <<diskVars, mode, localVars, harm>>
    BY <1>1 DEF Source, Decide
  <2>2. pc[p] = "source" /\ pc'[p] = l
    BY <1>0, <1>1, <2>1 DEF Source, Goto, Types
  <2> QED
    BY <2>1, <2>2, PhaseStep DEF Early, Owner, Late, Labels
<1>2. CASE ExistingDirectory(p)
  <2>1. pc[p] = "directory" /\ UNCHANGED <<diskVars, mode, localVars, harm>>
    BY <1>2 DEF ExistingDirectory, Decide
  <2>2. CASE Goto(p, "exact")
    <3>1. pc'[p] = "exact"
      BY <1>0, <2>2 DEF Goto, Types
    <3> QED
      BY <2>1, <2>2, <3>1, PhaseStep DEF Early, Owner, Late, Labels
  <2>3. CASE Goto(p, Unwound(p))
    BY <2>1, <2>3, ThrowStep
  <2> QED
    BY <1>2, <2>2, <2>3 DEF ExistingDirectory, Decide
<1>3. CASE WritableInventory(p)
  <2>1. pc[p] = "writable" /\ UNCHANGED <<diskVars, mode, localVars, harm>>
    BY <1>3 DEF WritableInventory, Decide
  <2>2. CASE Goto(p, "exists")
    <3>1. pc'[p] = "exists"
      BY <1>0, <2>2 DEF Goto, Types
    <3> QED
      BY <2>1, <2>2, <3>1, PhaseStep DEF Early, Owner, Late, Labels
  <2>3. CASE Goto(p, Unwound(p))
    BY <2>1, <2>3, ThrowStep
  <2> QED
    BY <1>3, <2>2, <2>3 DEF WritableInventory, Decide
<1>4. CASE FinalInventory(p)
  <2>1. pc[p] = "final" /\ UNCHANGED <<diskVars, mode, localVars, harm>>
    BY <1>4 DEF FinalInventory, Decide
  <2>2. CASE Goto(p, "pass")
    <3>1. temp # p /\ target \in Runs
      BY <1>0, <2>1 DEF RunInv, Phases, Late
    <3>2. target # None /\ content[target] = "expected"
      BY <1>0, <3>1, InodesDiffer DEF ArtifactWhole
    <3> QED
      BY <2>1, <2>2, <3>1, <3>2, PassStep
  <2>3. CASE Goto(p, Unwound(p))
    BY <2>1, <2>3, ThrowStep
  <2> QED
    BY <1>4, <2>2, <2>3 DEF FinalInventory, Decide
<1>5. CASE PathMissing(p)
  <2>1. pc[p] = "missing" /\ UNCHANGED <<diskVars, mode, localVars, harm>>
    BY <1>5 DEF PathMissing, Decide
  <2>2. CASE Goto(p, "create")
    <3>1. pc'[p] = "create"
      BY <1>0, <2>2 DEF Goto, Types
    <3> QED
      BY <2>1, <2>2, <3>1, PhaseStep DEF Early, Owner, Late, Labels
  <2>3. CASE Goto(p, Unwound(p))
    BY <2>1, <2>3, ThrowStep
  <2> QED
    BY <1>5, <2>2, <2>3 DEF PathMissing, Decide
<1>6. CASE Fstat(p)
  <2>1. pc[p] = "fstat" /\ UNCHANGED <<diskVars, mode, localVars, harm>>
    BY <1>6 DEF Fstat, Decide
  <2>2. CASE Goto(p, "read")
    <3>1. pc'[p] = "read" /\ reading'[p] = reading[p]
      BY <1>0, <2>1, <2>2 DEF Goto, Types, localVars
    <3> QED
      BY <2>1, <2>2, <3>1, PhaseStep DEF Early, Owner, Late, Labels
  <2>3. CASE Goto(p, Unwound(p))
    BY <2>1, <2>3, ThrowStep
  <2> QED
    BY <1>6, <2>2, <2>3 DEF Fstat, Decide
<1>7. CASE AssertIdentity(p)
  <2>1. pc[p] = "identity" /\ UNCHANGED <<diskVars, mode, localVars, harm>>
    BY <1>7 DEF AssertIdentity, Decide
  <2>2. CASE Goto(p, "rename")
    <3>1. pc'[p] = "rename" /\ content[p] = "expected"
      BY <1>0, <2>1, <2>2 DEF Goto, Types, RunInv, Staging
    <3> QED
      BY <2>1, <2>2, <3>1, PhaseStep DEF Early, Owner, Late, Labels
  <2>3. CASE Goto(p, Unwound(p))
    BY <2>1, <2>3, ThrowStep
  <2> QED
    BY <1>7, <2>2, <2>3 DEF AssertIdentity, Decide
<1> QED
  BY <1>1, <1>2, <1>3, <1>4, <1>5, <1>6, <1>7

\* The bytes decide: a run that passes has read the artifact, or another run has
\* replaced it since by one that is complete.
LEMMA ReadBytesStep ==
  ASSUME IInv, NEW p \in Runs, ReadBytes(p)
  PROVE  IInv'
<1> USE DEF Reads, Ended
<1>0. Types /\ RunInv(p) /\ ArtifactWhole /\ pc[p] = "read"
  BY DEF IInv, ReadBytes
<1>1. UNCHANGED <<diskVars, mode, localVars, harm>> /\ reading'[p] = reading[p]
  BY DEF ReadBytes, Decide, localVars
<1>2. CASE Goto(p, Unwound(p))
  BY <1>0, <1>1, <1>2, ThrowStep
<1>3. CASE Goto(p, "missing") /\ reading[p] = "current"
  <2>1. pc'[p] = "missing"
    BY <1>0, <1>3 DEF Goto, Types
  <2> QED
    BY <1>0, <1>1, <1>3, <2>1, PhaseStep DEF Early, Owner, Late, Labels
<1>4. CASE Goto(p, "identity") /\ reading[p] = "staged"
  <2>1. pc'[p] = "identity" /\ content[p] = "expected"
    BY <1>0, <1>4 DEF Goto, Types, RunInv, Staging
  <2> QED
    BY <1>0, <1>1, <1>4, <2>1, PhaseStep DEF Early, Owner, Late, Labels
<1>5. CASE Goto(p, "final") /\ reading[p] = "written"
  <2>1. pc'[p] = "final"
    BY <1>0, <1>5 DEF Goto, Types
  <2> QED
    BY <1>0, <1>1, <1>5, <2>1, PhaseStep DEF Early, Owner, Late, Labels
<1>6. CASE /\ Goto(p, "pass") /\ reading[p] \in {"current", "checked"}
           /\ SameBytes(content[handle[p]])
  <2>1. temp # p
    BY <1>0, <1>6 DEF RunInv, Phases, Early
  <2>2. handle[p] \in Inodes /\ (handle[p] = target \/ target \in Runs)
    BY <1>0, <1>6 DEF RunInv, Opened
  <2>3. target # None /\ content[target] = "expected"
    BY <1>0, <1>6, <2>2, InodesDiffer DEF SameBytes, ArtifactWhole, Inodes
  <2> QED
    BY <1>1, <1>6, <2>1, <2>3, PassStep
<1> QED
  BY <1>2, <1>3, <1>4, <1>5, <1>6 DEF ReadBytes, Decide

LEMMA AncestorStep ==
  ASSUME IInv, NEW p \in Runs, Ancestor(p)
  PROVE  IInv'
<1> USE DEF Reads, Ended
<1>0. /\ Types /\ RunInv(p) /\ pc[p] = "ancestor" /\ reading'[p] = reading[p]
      /\ pc'[p] \in {"ancestor", "writable", "mkdir"}
      /\ \A q \in Runs \ {p} : Same(q)
  BY DEF IInv, Types, TypeOK, Ancestor, Goto, Same
<1>1. Types'
  BY InodesDiffer DEF IInv, Types, TypeOK, Ancestor, Goto, diskVars, Labels
<1>2. Early(p) /\ Early(p)' /\ ~Owner(p)' /\ ~Late(p)'
  BY <1>0 DEF Early, Owner, Late
<1>3. Phases(p)' /\ Staging(p)'
  BY <1>0, <1>2 DEF RunInv, Phases, Staging, Ancestor, diskVars
<1>4. Opened(p)' /\ MakingDirectory(p)'
  BY <1>0 DEF Opened, MakingDirectory, Ancestor, Goto, Types
<1> QED
  BY <1>0, <1>1, <1>3, <1>4, Frame DEF RunInv, Explained, Ancestor, diskVars

LEMMA MakeDirectoryStep ==
  ASSUME IInv, NEW p \in Runs, MakeDirectory(p)
  PROVE  IInv'
<1> USE DEF Reads, Ended
<1>0. Types /\ RunInv(p) /\ pc[p] = "mkdir" /\ depth[p] < Levels
  BY DEF IInv, MakeDirectory, RunInv, MakingDirectory
<1>1. CASE levels = depth[p] /\ Goto(p, "ancestor") /\ levels' = levels + 1
               /\ depth' = [depth EXCEPT ![p] = @ + 1]
  <2>0. /\ UNCHANGED <<target, temp, content, reading, handle, created, identity, harm>>
        /\ pc' = [pc EXCEPT ![p] = "ancestor"]
    BY <1>1 DEF MakeDirectory, Goto
  <2>1. pc'[p] = "ancestor" /\ \A q \in Runs \ {p} : Same(q)
    BY <1>0, <1>1, <2>0 DEF Same, Types, TypeOK
  <2>2. levels' \in 0 .. Levels /\ depth' \in [Runs -> 0 .. Levels]
    BY <1>0, <1>1, InodesDiffer DEF Types, TypeOK
  <2>3. Types'
    BY <1>0, <2>0, <2>2 DEF Types, TypeOK, Labels
  <2>4. Early(p) /\ Early(p)' /\ ~Owner(p)' /\ ~Late(p)'
    BY <1>0, <2>1 DEF Early, Owner, Late
  <2>5. RunInv(p)'
    BY <1>0, <2>0, <2>1, <2>4 DEF RunInv, Phases, Staging, Opened, MakingDirectory
  <2> QED
    BY <2>0, <2>1, <2>3, <2>5, Frame DEF Explained
<1>2. CASE Throw(p) /\ UNCHANGED <<levels, depth>>
  BY <1>0, <1>2, ThrowStep DEF MakeDirectory, Throw, diskVars, localVars
<1> QED
  BY <1>1, <1>2 DEF MakeDirectory

\* A read of the artifact begins.
LEMMA ReadTarget ==
  ASSUME IInv, NEW p \in Runs, Early(p), NEW what \in {"current", "checked"}, Read(p, what),
         UNCHANGED <<diskVars, mode, depth, seen, handle, created, identity, harm>>
  PROVE  IInv'
<1> USE DEF Reads, Ended
<1>0. /\ Types /\ RunInv(p) /\ pc'[p] = "lstat" /\ reading'[p] = what
      /\ \A q \in Runs \ {p} : Same(q)
  BY DEF IInv, Types, TypeOK, Read, Goto, Same
<1>1. Types'
  BY DEF IInv, Types, TypeOK, Read, Goto, diskVars, Labels
<1>2. Early(p)' /\ ~Owner(p)' /\ ~Late(p)'
  BY <1>0 DEF Early, Owner, Late
<1>3. RunInv(p)'
  BY <1>0, <1>2 DEF RunInv, Phases, Staging, Opened, MakingDirectory, diskVars
<1> QED
  BY <1>0, <1>1, <1>3, Frame DEF Explained, diskVars

LEMMA OptionalStep ==
  ASSUME IInv, NEW p \in Runs, CheckInventory(p) \/ Optional(p)
  PROVE  IInv'
<1> USE DEF Reads, Ended
<1>0. Types /\ pc[p] \in {"exact", "exists"} /\ Early(p)
  BY DEF IInv, CheckInventory, Optional, Early
<1>1. CASE \E what \in {"current", "checked"} : Read(p, what)
  BY <1>0, <1>1, ReadTarget DEF CheckInventory, Optional
<1>2. CASE Throw(p) /\ UNCHANGED reading
  BY <1>0, <1>2, ThrowStep DEF CheckInventory, Optional, Throw, localVars
<1>3. CASE Goto(p, "missing") /\ UNCHANGED reading
  <2>1. UNCHANGED <<diskVars, mode, localVars, harm>> /\ pc'[p] = "missing"
    BY <1>0, <1>3 DEF CheckInventory, Optional, localVars, Goto, Types
  <2> QED
    BY <1>0, <1>3, <2>1, PhaseStep DEF Early, Owner, Late, Labels
<1> QED
  BY <1>1, <1>2, <1>3 DEF CheckInventory, Optional

LEMMA LstatStep ==
  ASSUME IInv, NEW p \in Runs, Lstat(p)
  PROVE  IInv'
<1> USE DEF Reads, Ended
<1>0. Types /\ RunInv(p) /\ pc[p] = "lstat"
  BY DEF IInv, Lstat
<1>1. CASE Throw(p) /\ UNCHANGED seen
  BY <1>0, <1>1, ThrowStep DEF Lstat, Throw, localVars
<1>2. CASE Goto(p, "open")
  <2>0. /\ UNCHANGED <<target, temp, content, levels, depth, reading, handle, created, identity, harm>>
        /\ pc' = [pc EXCEPT ![p] = "open"] /\ pc'[p] = "open"
    BY <1>0, <1>2 DEF Lstat, diskVars, Goto, Types
  <2>1. Types' /\ \A q \in Runs \ {p} : Same(q)
    BY <1>0, <2>0 DEF Types, TypeOK, Labels, Same
  <2>2. (Early(p)' <=> Early(p)) /\ (Owner(p)' <=> Owner(p)) /\ (Late(p)' <=> Late(p))
    BY <1>0, <2>0 DEF Early, Owner, Late
  <2>3. Phases(p)' /\ Staging(p)'
    BY <1>0, <2>0, <2>2 DEF RunInv, Phases, Staging
  <2>4. RunInv(p)'
    BY <2>0, <2>3 DEF RunInv, Opened, MakingDirectory
  <2> QED
    BY <2>0, <2>1, <2>4, Frame DEF Explained
<1> QED
  BY <1>1, <1>2 DEF Lstat

LEMMA OpenStep ==
  ASSUME IInv, NEW p \in Runs, Open(p)
  PROVE  IInv'
<1> USE DEF Reads, Ended
<1>0. /\ Types /\ RunInv(p) /\ pc[p] = "open" /\ At(p) # None
      /\ UNCHANGED <<target, temp, content, levels, depth, reading, created, identity, harm>>
      /\ pc' = [pc EXCEPT ![p] = "fstat"] /\ handle' = [handle EXCEPT ![p] = At(p)]
  BY DEF IInv, Open, diskVars, Goto
<1>1. At(p) \in Inodes /\ (reading[p] # "staged" => At(p) = target)
  BY <1>0 DEF Types, TypeOK, At, Inodes
<1>2. pc'[p] = "fstat" /\ handle'[p] = At(p) /\ \A q \in Runs \ {p} : Same(q)
  BY <1>0 DEF Types, TypeOK, Same
<1>3. Types'
  BY <1>0, <1>1 DEF Types, TypeOK, Labels, Inodes
<1>4. (Early(p)' <=> Early(p)) /\ (Owner(p)' <=> Owner(p)) /\ (Late(p)' <=> Late(p))
  BY <1>0, <1>2 DEF Early, Owner, Late
<1>5. Phases(p)' /\ Staging(p)'
  BY <1>0, <1>2, <1>4 DEF RunInv, Phases, Staging
<1>6. RunInv(p)'
  BY <1>0, <1>1, <1>2, <1>5 DEF RunInv, Opened, MakingDirectory, Inodes
<1> QED
  BY <1>0, <1>2, <1>3, <1>6, Frame DEF Explained

LEMMA RecordIdentityStep ==
  ASSUME IInv, NEW p \in Runs, RecordIdentity(p)
  PROVE  IInv'
<1> USE DEF Reads, Ended
<1>0. /\ Types /\ RunInv(p) /\ pc[p] = "stat" /\ handle[p] = p
      /\ UNCHANGED <<target, temp, content, levels, depth, reading, created, handle, harm>>
      /\ pc' = [pc EXCEPT ![p] = "write"] /\ identity' = [identity EXCEPT ![p] = p]
  BY DEF IInv, RecordIdentity, diskVars, Goto, RunInv, Staging
<1>1. pc'[p] = "write" /\ identity'[p] = p /\ \A q \in Runs \ {p} : Same(q)
  BY <1>0 DEF Types, TypeOK, Same
<1>2. Types'
  BY <1>0 DEF Types, TypeOK, Labels, Inodes
<1>3. Owner(p) /\ Owner(p)' /\ ~Early(p)' /\ ~Late(p)'
  BY <1>0, <1>1 DEF Early, Owner, Late
<1>4. RunInv(p)'
  BY <1>0, <1>1, <1>3 DEF RunInv, Phases, Staging, Opened, MakingDirectory
<1> QED
  BY <1>0, <1>1, <1>2, <1>4, Frame DEF Explained

\* A temporary file has a single name.
LEMMA SingleName ==
  ASSUME Types, NEW p \in Runs, temp = p, target # p, content[p] # "linked"
  PROVE  nlink(p) = 1
<1> DEFINE N == {n \in {"target", "temp"} : (n = "target" /\ target = p) \/ (n = "temp" /\ temp = p)}
<1>1. N = {"temp"}
  OBVIOUS
<1>2. Cardinality(N) = 1
  BY <1>1, FS_Singleton
<1> QED
  BY <1>2 DEF nlink

LEMMA CleanupStep ==
  ASSUME IInv, NEW p \in Runs, Cleanup(p)
  PROVE  IInv'
<1> USE DEF Reads, Ended
<1>0. /\ Types /\ RunInv(p) /\ pc[p] = "cleanup" /\ Owner(p)
      /\ UNCHANGED <<diskVars, mode, localVars, harm>>
  BY DEF IInv, Cleanup, Owner
<1>1. temp = p /\ target # p /\ content[p] # "linked" /\ temp # None
  BY <1>0, InodesDiffer DEF RunInv, Phases, Staging
<1>2. ExactIdentity(p) <=> identity[p] = p
  BY <1>0, <1>1, SingleName DEF ExactIdentity
<1>3. CASE Goto(p, "remove") /\ identity[p] = p
  <2>1. pc'[p] = "remove"
    BY <1>0, <1>3 DEF Goto, Types
  <2>2. Owner(p)' /\ ~Early(p)' /\ ~Late(p)'
    BY <2>1 DEF Owner, Early, Late
  <2>3. RunInv(p)'
    BY <1>0, <1>3, <2>1, <2>2
       DEF RunInv, Phases, Staging, Opened, MakingDirectory, diskVars, localVars
  <2> QED
    BY <1>0, <1>3, <2>1, <2>3, Moved DEF Labels, Explained
<1>4. CASE Goto(p, "failed") /\ identity[p] # p
  <2>1. pc'[p] = "failed" /\ identity[p] = None /\ harm[p] = "error"
    BY <1>0, <1>4 DEF Goto, Types, RunInv, Staging
  <2>2. ~Owner(p)' /\ ~Early(p)' /\ ~Late(p)'
    BY <2>1 DEF Owner, Early, Late
  <2>3. RunInv(p)'
    BY <1>0, <2>1, <2>2 DEF RunInv, Phases, Staging, Opened, MakingDirectory, diskVars
  <2>4. Explained(p)'
    BY <1>0, <2>1 DEF Explained, localVars
  <2> QED
    BY <1>0, <1>4, <2>1, <2>3, <2>4, Moved DEF Labels
<1> QED
  BY <1>2, <1>3, <1>4 DEF Cleanup

LEMMA IOErrorStep ==
  ASSUME IInv, NEW p \in Runs, IOError(p)
  PROVE  IInv'
<1> USE DEF Reads, Ended
<1>0. /\ Types /\ RunInv(p) /\ pc[p] \notin Ended
      /\ UNCHANGED <<target, temp, content, levels, depth, reading, created, handle, identity>>
  BY DEF IInv, IOError, diskVars, localVars
<1>1. PICK l \in {"failed", "cleanup"}, h \in {"cleanup", "error"} :
        /\ pc' = [pc EXCEPT ![p] = l] /\ harm' = [harm EXCEPT ![p] = h]
        /\ pc[p] \in {"cleanup", "remove"} => l = "failed" /\ h = "cleanup"
        /\ pc[p] \notin {"cleanup", "remove"} => l = Unwound(p) /\ h = "error"
  BY DEF IOError, Goto, Unwound
<1>2. pc'[p] = l /\ harm'[p] = h
  BY <1>0, <1>1 DEF Types
<1>3. Types' /\ \A q \in Runs \ {p} : Same(q)
  BY <1>0, <1>1 DEF Types, TypeOK, Labels, Same
<1>4. Early(p) \/ Owner(p) \/ Late(p)
  BY <1>0 DEF Early, Owner, Late, Types, Labels, RunInv, Phases
<1>5. ~Early(p)' /\ ~Late(p)' /\ (Owner(p)' <=> l = "cleanup")
  BY <1>0, <1>2 DEF Early, Owner, Late
<1>6. (l = "cleanup" => Owner(p)) /\ (Owner(p) /\ l = "failed" => h = "cleanup")
  BY <1>0, <1>1, <1>4 DEF RunInv, Phases, Unwound
<1>7. ~Owner(p) => temp # p
  BY <1>0, <1>4 DEF RunInv, Phases
<1>8. Phases(p)'
  BY <1>0, <1>2, <1>5, <1>6 DEF RunInv, Phases
<1>9. l = "cleanup" => h = "error" /\ identity[p] \in {p, None}
  BY <1>0, <1>1, <1>6 DEF RunInv, Staging, Owner
<1>10. Staging(p)'
  BY <1>0, <1>2, <1>5, <1>9 DEF RunInv, Staging
<1>11. RunInv(p)'
  BY <1>2, <1>8, <1>10 DEF RunInv, Opened, MakingDirectory
<1>12. temp = p => Explained(p)'
  BY <1>2, <1>6, <1>7 DEF Explained
<1> QED
  BY <1>0, <1>2, <1>3, <1>11, <1>12, Frame

LEMMA KillStep ==
  ASSUME IInv, NEW p \in Runs, Kill(p)
  PROVE  IInv'
<1> USE DEF Reads, Ended
<1>0. /\ Types /\ RunInv(p)
      /\ UNCHANGED <<target, temp, content, levels, depth, reading, created, handle, identity>>
      /\ pc' = [pc EXCEPT ![p] = "killed"] /\ harm' = [harm EXCEPT ![p] = "killed"]
  BY DEF IInv, Kill, diskVars, localVars, Goto
<1>1. pc'[p] = "killed" /\ harm'[p] = "killed"
  BY <1>0 DEF Types
<1>2. Types' /\ \A q \in Runs \ {p} : Same(q)
  BY <1>0 DEF Types, TypeOK, Labels, Same
<1>3. ~Early(p)' /\ ~Late(p)' /\ ~Owner(p)'
  BY <1>1 DEF Early, Owner, Late
<1>4. RunInv(p)'
  BY <1>0, <1>1, <1>3 DEF RunInv, Phases, Staging, Opened, MakingDirectory
<1> QED
  BY <1>0, <1>1, <1>2, <1>4, Frame DEF Explained

-----------------------------------------------------------------------------
(* The steps that change files *)

LEMMA CreateTemporaryStep ==
  ASSUME IInv, NEW p \in Runs, CreateTemporary(p)
  PROVE  IInv'
<1> USE DEF Reads, Ended
<1>0. Types /\ RunInv(p) /\ pc[p] = "create" /\ Early(p) /\ temp # p /\ target # p
  BY DEF IInv, CreateTemporary, Early, RunInv, Phases
<1>1. CASE temp # None
  BY <1>0, <1>1, ThrowStep DEF CreateTemporary, Throw, diskVars, localVars
<1>2. CASE temp = None
  <2>0. /\ temp' = p /\ target' = target /\ content' = [content EXCEPT ![p] = "empty"]
        /\ pc' = [pc EXCEPT ![p] = "stat"] /\ handle' = [handle EXCEPT ![p] = p]
        /\ created' = [created EXCEPT ![p] = TRUE]
        /\ UNCHANGED <<levels, depth, reading, identity, harm>>
    BY <1>2 DEF CreateTemporary, Goto
  <2>1. /\ pc'[p] = "stat" /\ handle'[p] = p /\ created'[p] = TRUE /\ content'[p] = "empty"
        /\ \A q \in Runs \ {p} : Same(q) /\ content'[q] = content[q]
        /\ target # None => content'[target] = content[target]
    BY <1>0, <2>0 DEF Types, TypeOK, Same, Inodes
  <2>2. Types'
    BY <1>0, <2>0 DEF Types, TypeOK, Labels, Inodes, Contents
  <2>3. ArtifactWhole' /\ PassIsExact'
    <3>1. ArtifactWhole'
      BY <2>0, <2>1, InodesDiffer DEF IInv, ArtifactWhole
    <3>2. PassIsExact'
      BY <2>0, <2>1 DEF IInv, PassIsExact, Same
    <3> QED
      BY <3>1, <3>2
  <2>4. LeftoverExplained'
    BY <2>0, <2>1 DEF LeftoverExplained
  <2>5. Owner(p)' /\ ~Early(p)' /\ ~Late(p)'
    BY <2>1 DEF Early, Owner, Late
  <2>6. RunInv(p)'
    BY <1>0, <2>0, <2>1, <2>5 DEF RunInv, Phases, Staging, Opened, MakingDirectory
  <2>7. ASSUME NEW q \in Runs \ {p} PROVE RunInv(q)'
    <3>1. RunInv(q) /\ Same(q) /\ content'[q] = content[q] /\ temp' # q /\ target' = target
      BY <2>0, <2>1 DEF IInv
    <3>2. ~Owner(q) /\ (Early(q) => target # q)
      BY <1>2, <3>1, InodesDiffer DEF RunInv, Phases
    <3> QED
      BY <3>1, <3>2, OtherRun
  <2> QED
    BY <2>2, <2>3, <2>4, <2>6, <2>7 DEF IInv
<1> QED
  BY <1>1, <1>2

LEMMA WritePieceStep ==
  ASSUME IInv, NEW p \in Runs, WritePiece(p)
  PROVE  IInv'
<1> USE DEF Reads, Ended
<1>0. /\ Types /\ RunInv(p) /\ pc[p] \in {"write", "sync"} /\ Owner(p)
      /\ handle[p] = p /\ identity[p] = p /\ temp = p /\ target # p /\ created[p]
  BY DEF IInv, WritePiece, Owner, RunInv, Phases, Staging
<1>1. /\ UNCHANGED <<levels, target, temp, depth, handle, created, identity, harm>>
      /\ content' = [content EXCEPT ![p] = IF pc[p] = "write" THEN "partial" ELSE "expected"]
      /\ pc' = [pc EXCEPT ![p] = IF pc[p] = "write" THEN "sync" ELSE "lstat"]
      /\ reading' = IF pc[p] = "write" THEN reading ELSE [reading EXCEPT ![p] = "staged"]
  BY <1>0 DEF WritePiece, Goto, Read
<1>2. /\ pc[p] = "write" => pc'[p] = "sync" /\ content'[p] = "partial"
      /\ pc[p] = "sync" => pc'[p] = "lstat" /\ content'[p] = "expected" /\ reading'[p] = "staged"
      /\ \A q \in Runs \ {p} : Same(q) /\ content'[q] = content[q]
      /\ target # None => content'[target] = content[target]
  BY <1>0, <1>1 DEF Types, TypeOK, Same, Inodes
<1>3. Types'
  BY <1>0, <1>1 DEF Types, TypeOK, Labels, Inodes, Contents
<1>4. Owner(p)' /\ ~Early(p)' /\ ~Late(p)'
  BY <1>0, <1>2 DEF Early, Owner, Late
<1>5. ArtifactWhole'
  BY <1>1, <1>2, InodesDiffer DEF IInv, ArtifactWhole
<1>6. PassIsExact'
  BY <1>0, <1>1, <1>2 DEF IInv, PassIsExact, Same
<1>7. LeftoverExplained'
  BY <1>0, <1>1, <1>2 DEF LeftoverExplained
<1>8. RunInv(p)'
  BY <1>0, <1>1, <1>2, <1>4 DEF RunInv, Phases, Staging, Opened, MakingDirectory
<1>9. ASSUME NEW q \in Runs \ {p} PROVE RunInv(q)'
  BY <1>1, <1>2, OtherRun DEF IInv, RunInv, Phases
<1> QED
  BY <1>3, <1>5, <1>6, <1>7, <1>8, <1>9 DEF IInv

LEMMA RenameStep ==
  ASSUME IInv, NEW p \in Runs, Rename(p)
  PROVE  IInv'
<1> USE DEF Reads, Ended
<1>0. /\ Types /\ RunInv(p) /\ pc[p] = "rename" /\ Owner(p)
      /\ temp = p /\ target # p /\ content[p] = "expected"
  BY DEF IInv, Rename, Owner, RunInv, Phases, Staging
<1>1. /\ target' = p /\ temp' = None /\ created' = [created EXCEPT ![p] = FALSE]
      /\ pc' = [pc EXCEPT ![p] = "lstat"] /\ reading' = [reading EXCEPT ![p] = "written"]
      /\ UNCHANGED <<levels, content, depth, handle, identity, harm>>
  BY <1>0 DEF Rename, Goto, Read
<1>2. /\ pc'[p] = "lstat" /\ reading'[p] = "written" /\ created'[p] = FALSE
      /\ \A q \in Runs \ {p} : Same(q)
  BY <1>0, <1>1 DEF Types, TypeOK, Same
<1>3. Types'
  BY <1>0, <1>1 DEF Types, TypeOK, Labels, Inodes
<1>4. Late(p)' /\ ~Early(p)' /\ ~Owner(p)'
  BY <1>2 DEF Early, Owner, Late
<1>5. ArtifactWhole' /\ LeftoverExplained' /\ PassIsExact'
  BY <1>0, <1>1, InodesDiffer DEF ArtifactWhole, LeftoverExplained, PassIsExact
<1>6. RunInv(p)'
  BY <1>0, <1>1, <1>2, <1>4, InodesDiffer DEF RunInv, Phases, Staging, Opened, MakingDirectory
<1>7. ASSUME NEW q \in Runs \ {p} PROVE RunInv(q)'
  <2>1. RunInv(q) /\ Same(q) /\ content'[q] = content[q] /\ target' # q /\ target' \in Runs
    BY <1>1, <1>2 DEF IInv
  <2>2. ~Owner(q) /\ temp' # q
    BY <1>0, <1>1, <2>1, InodesDiffer DEF RunInv, Phases
  <2> QED
    BY <2>1, <2>2, OtherRun
<1> QED
  BY <1>3, <1>5, <1>6, <1>7 DEF IInv

LEMMA RemoveTemporaryStep ==
  ASSUME IInv, NEW p \in Runs, RemoveTemporary(p)
  PROVE  IInv'
<1> USE DEF Reads, Ended
<1>0. /\ Types /\ RunInv(p) /\ pc[p] = "remove" /\ Owner(p) /\ temp = p
      /\ temp' = None /\ pc' = [pc EXCEPT ![p] = "failed"]
      /\ UNCHANGED <<levels, target, content, depth, reading, handle, created, identity, harm>>
  BY DEF IInv, RemoveTemporary, Owner, RunInv, Phases, Goto, localVars
<1>1. pc'[p] = "failed" /\ \A q \in Runs \ {p} : Same(q)
  BY <1>0 DEF Types, TypeOK, Same
<1>2. Types'
  BY <1>0 DEF Types, TypeOK, Labels
<1>3. ~Late(p)' /\ ~Early(p)' /\ ~Owner(p)'
  BY <1>1 DEF Early, Owner, Late
<1>4. ArtifactWhole' /\ LeftoverExplained'
  BY <1>0, InodesDiffer DEF IInv, ArtifactWhole, LeftoverExplained
<1>5. PassIsExact'
  BY <1>0, <1>1 DEF IInv, PassIsExact, Same
<1>6. RunInv(p)'
  BY <1>0, <1>1, <1>3 DEF RunInv, Phases, Staging, Opened, MakingDirectory
<1>7. ASSUME NEW q \in Runs \ {p} PROVE RunInv(q)'
  <2>1. RunInv(q) /\ Same(q) /\ content'[q] = content[q] /\ target' = target
    BY <1>0, <1>1 DEF IInv
  <2>2. ~Owner(q) /\ temp' # q /\ (Early(q) => target' # q)
    BY <1>0, <2>1, InodesDiffer DEF RunInv, Phases
  <2> QED
    BY <2>1, <2>2, OtherRun
<1> QED
  BY <1>2, <1>4, <1>5, <1>6, <1>7 DEF IInv

LEMMA RemoveLeftoverStep ==
  ASSUME IInv, RemoveLeftover
  PROVE  IInv'
<1> USE DEF Reads, Ended
<1>0. /\ Types /\ temp \in Runs /\ pc[temp] \in Ended /\ temp' = None
      /\ UNCHANGED <<levels, target, content, pc, depth, reading, handle, created, identity, harm>>
  BY DEF IInv, RemoveLeftover, localVars
<1>1. Types' /\ ArtifactWhole' /\ LeftoverExplained' /\ PassIsExact'
  BY <1>0, InodesDiffer
     DEF IInv, Types, TypeOK, ArtifactWhole, LeftoverExplained, PassIsExact
<1>2. ASSUME NEW q \in Runs PROVE RunInv(q)'
  <2>1. RunInv(q) /\ Same(q) /\ content'[q] = content[q] /\ target' = target /\ temp' # q
    BY <1>0, InodesDiffer DEF IInv, Same
  <2>2. ~Owner(q) /\ (Early(q) => target' # q)
    BY <1>0, <2>1 DEF RunInv, Phases, Owner
  <2> QED
    BY <2>1, <2>2, OtherRun
<1> QED
  BY <1>1, <1>2 DEF IInv

-----------------------------------------------------------------------------
(* Theorems *)

LEMMA NextIInv == IInv /\ [Next]_vars => IInv'
<1> SUFFICES ASSUME IInv, [Next]_vars PROVE IInv'
  OBVIOUS
<1>1. ASSUME NEW p \in Runs, Step(p) PROVE IInv'
  BY <1>1, DecideSteps, AncestorStep, MakeDirectoryStep, OptionalStep, LstatStep, OpenStep,
     ReadBytesStep, CreateTemporaryStep, RecordIdentityStep, WritePieceStep, RenameStep,
     CleanupStep, RemoveTemporaryStep DEF Step
<1>2. CASE UNCHANGED vars
  <2>1. UNCHANGED <<levels, target, temp, content, pc, depth, reading, handle, created,
                    identity, harm>>
    BY <1>2 DEF vars, diskVars, localVars
  <2>2. Types' /\ ArtifactWhole' /\ LeftoverExplained' /\ PassIsExact'
    BY <2>1 DEF IInv, Types, TypeOK, ArtifactWhole, LeftoverExplained, PassIsExact
  <2>3. ASSUME NEW q \in Runs PROVE RunInv(q)'
    BY <2>1, OtherRun DEF IInv, Same, RunInv, Phases
  <2> QED
    BY <2>2, <2>3 DEF IInv
<1> QED
  BY <1>1, <1>2, IOErrorStep, KillStep, RemoveLeftoverStep DEF Next

\* The strengthened invariant of writeGeneratedArtifact and checkGeneratedArtifact
\* holds in every reachable state, for any number of runs.
THEOREM ArtifactInvariant == Spec => []IInv
<1> QED
  BY InitIInv, NextIInv, PTL DEF Spec

\* What a run of generate-openapi.mjs put under the artifact's name is complete, and a
\* temporary file that is left over is explained, for any number of runs.
THEOREM ArtifactOutputInv == Spec => []OutputInv
<1>1. IInv => OutputInv
  BY DEF IInv, Types, OutputInv
<1> QED
  BY <1>1, ArtifactInvariant, PTL

\* A PASS of generate-openapi.mjs stays true, whatever other runs do afterwards.
THEOREM ArtifactPassIsExact == Spec => []PassIsExact
<1>1. IInv => PassIsExact
  BY DEF IInv
<1> QED
  BY <1>1, ArtifactInvariant, PTL
-----------------------------------------------------------------------------
(* The race: one writer leads it until it passes *)

\* The steps that only --write takes.
WriterOnly(p) ==
    \/ pc[p] \in {"ancestor", "mkdir", "writable", "exists", "missing", "create", "stat",
                  "write", "sync", "identity", "rename"}
    \/ pc[p] \in Reads /\ reading[p] \in {"current", "staged"}
    => mode[p] = "--write"

\* What a run knows of inode i is true, as far as it has read it.
Knows(p, i) ==
    /\ pc[p] # "lstat" => seen[p] = [inode |-> i, size |-> Size(content[i])]
    /\ pc[p] \in {"fstat", "read"} => handle[p] = i

\* Nobody has written, and p would be the first: the directory it is about to make
\* is not there, and the artifact it reads is the initial one.
Starting(p) ==
    /\ temp = None /\ target \notin Runs
    /\ \/ pc[p] \in {"source", "ancestor", "writable", "exists", "missing", "create"}
       \/ pc[p] = "mkdir" /\ depth[p] = levels
       \/ pc[p] \in Reads /\ reading[p] = "current" /\ target = Initial /\ Knows(p, Initial)

\* p has the temporary file.
Holding(p) ==
    /\ temp = p
    /\ \/ pc[p] \in {"stat", "write", "sync", "identity", "rename"}
       \/ pc[p] \in Reads /\ reading[p] = "staged" /\ Knows(p, p)

\* p was the last to replace the artifact.
Replacing(p) ==
    /\ temp = None /\ target = p
    /\ \/ pc[p] = "final"
       \/ pc[p] \in Reads /\ reading[p] = "written" /\ Knows(p, p)

Leads(p) ==
    /\ mode[p] = "--write"
    /\ Starting(p) \/ Holding(p) \/ Replacing(p) \/ pc[p] = "pass"

\* No run was harmed, one of them writes, and what was there before is no obstacle.
Unhindered ==
    /\ \A p \in Runs : harm[p] = "none"
    /\ \E p \in Runs : mode[p] = "--write"
    /\ temp # Stale
    /\ target = Initial => content[Initial] \notin {"oversize", "linked"}

RaceInv ==
    /\ seen = [p \in Runs |-> seen[p]]
    /\ \A p \in Runs : WriterOnly(p)
    /\ Unhindered => \E p \in Runs : Leads(p)

LEMMA InitRace == Init => RaceInv
<1> SUFFICES ASSUME Init PROVE RaceInv
  OBVIOUS
<1>1. pc = [p \in Runs |-> "source"] /\ target \in {None, Initial} /\ temp \in {None, Stale}
  BY DEF Init
<1>2. seen = [p \in Runs |-> seen[p]]
  BY DEF Init
<1>3. ASSUME NEW p \in Runs PROVE WriterOnly(p)
  BY <1>1 DEF WriterOnly, Reads
<1>4. Unhindered => \E p \in Runs : Leads(p)
  BY <1>1, InodesDiffer DEF Unhindered, Leads, Starting
<1> QED
  BY <1>2, <1>3, <1>4 DEF RaceInv

\* A run that the step is not about, with what it has seen.
SameRun(q) == Same(q) /\ seen'[q] = seen[q] /\ mode'[q] = mode[q]

LEMMA OtherWriter ==
  ASSUME NEW q \in Runs, WriterOnly(q), SameRun(q)
  PROVE  WriterOnly(q)'
  BY DEF WriterOnly, SameRun, Same

LEMMA StillLeads ==
  ASSUME NEW q \in Runs, Leads(q), SameRun(q),
         UNCHANGED <<levels, target, temp, content>> \/ pc[q] = "pass"
  PROVE  Leads(q)'
<1>1. CASE pc[q] = "pass"
  BY <1>1 DEF Leads, SameRun, Same
<1>2. CASE UNCHANGED <<levels, target, temp, content>>
  <2>1. \A i : Knows(q, i) => Knows(q, i)'
    BY <1>2 DEF Knows, SameRun, Same
  <2>2. Starting(q) => Starting(q)'
    BY <1>2, <2>1 DEF Starting, SameRun, Same
  <2>3. (Holding(q) => Holding(q)') /\ (Replacing(q) => Replacing(q)')
    BY <1>2, <2>1 DEF Holding, Replacing, SameRun, Same
  <2> QED
    BY <2>2, <2>3 DEF Leads, SameRun, Same
<1> QED
  BY <1>1, <1>2

\* A step that changes no file: only what it does to its own run matters.
LEMMA RaceFrame ==
  ASSUME RaceInv, NEW p \in Runs, UNCHANGED <<levels, target, temp, content, mode, harm>>,
         \A q \in Runs \ {p} : SameRun(q),
         seen' = [q \in Runs |-> seen'[q]],
         WriterOnly(p)',
         Unhindered /\ Leads(p) => Leads(p)'
  PROVE  RaceInv'
<1>1. ASSUME NEW q \in Runs PROVE WriterOnly(q)'
  BY OtherWriter DEF RaceInv
<1>2. Unhindered' => Unhindered
  BY DEF Unhindered
<1>3. ASSUME Unhindered' PROVE \E q \in Runs : Leads(q)'
  <2>1. PICK q \in Runs : Leads(q)
    BY <1>2, <1>3 DEF RaceInv
  <2>2. CASE q = p
    BY <1>2, <1>3, <2>1, <2>2
  <2>3. CASE q # p
    BY <2>1, <2>3, StillLeads
  <2> QED
    BY <2>2, <2>3
<1> QED
  BY <1>1, <1>3 DEF RaceInv

LEMMA RaceMoved ==
  ASSUME IInv, RaceInv, NEW p \in Runs, NEW l \in Labels, Goto(p, l),
         UNCHANGED <<diskVars, mode, localVars, harm>>,
         WriterOnly(p)',
         Unhindered /\ Leads(p) => Leads(p)'
  PROVE  RaceInv'
<1>1. UNCHANGED <<levels, target, temp, content, mode, depth, reading, seen, handle, created,
                  identity, harm>>
  BY DEF diskVars, localVars
<1>2. \A q \in Runs \ {p} : SameRun(q)
  BY <1>1 DEF SameRun, Same, Goto, IInv, Types
<1>3. seen' = [q \in Runs |-> seen'[q]]
  BY <1>1 DEF RaceInv
<1> QED
  BY <1>1, <1>2, <1>3, RaceFrame

\* Only a run that does not lead is refused.
LEMMA RaceThrow ==
  ASSUME IInv, RaceInv, NEW p \in Runs, Goto(p, Unwound(p)),
         UNCHANGED <<diskVars, mode, localVars, harm>>, ~(Unhindered /\ Leads(p))
  PROVE  RaceInv'
<1>1. Unwound(p) \in {"cleanup", "failed"} /\ pc'[p] = Unwound(p)
  BY DEF Unwound, Goto, IInv, Types
<1>2. WriterOnly(p)'
  BY <1>1 DEF WriterOnly, Reads
<1>3. Unwound(p) \in Labels
  BY <1>1 DEF Labels, Ended
<1> QED
  BY <1>2, <1>3, RaceMoved

LEMMA Sizes ==
  /\ Size("expected") = 2
  /\ \A c \in Contents \ {"oversize"} : Size(c) <= MaximumGeneratedBytes
<1>1. Size("expected") = 2 /\ Size("empty") = 0 /\ Size("partial") = 1 /\ Size("twin") = 2
      /\ Size("linked") = 2 /\ Size("drifted") = 3
  BY DEF Size
<1> QED
  BY <1>1 DEF Contents, MaximumGeneratedBytes

\* The artifact has a single name.
LEMMA SingleTarget ==
  ASSUME NEW i, target = i, temp # i, content[i] # "linked"
  PROVE  nlink(i) = 1
<1> DEFINE N == {n \in {"target", "temp"} : (n = "target" /\ target = i) \/ (n = "temp" /\ temp = i)}
<1>1. N = {"target"}
  OBVIOUS
<1>2. Cardinality(N) = 1
  BY <1>1, FS_Singleton
<1> QED
  BY <1>2 DEF nlink

\* What a leading run reads is the file it takes it for, and is regular.
LEMMA LeaderReads ==
  ASSUME IInv, Unhindered, NEW p \in Runs, Leads(p), pc[p] \in Reads
  PROVE  /\ At(p) \in Inodes /\ Knows(p, At(p)) /\ Regular(At(p))
         /\ reading[p] \in {"current", "staged", "written"}
         /\ reading[p] = "current" => Starting(p)
         /\ reading[p] = "staged" => Holding(p) /\ At(p) = p /\ content[p] = "expected"
         /\ reading[p] = "written" => Replacing(p) /\ At(p) = p /\ content[p] = "expected"
<1> USE DEF Reads
<1>0. Types /\ RunInv(p) /\ ArtifactWhole /\ content \in [Inodes -> Contents]
  BY DEF IInv, Types, TypeOK
<1>1. CASE Starting(p)
  <2>1. /\ temp = None /\ target = Initial /\ reading[p] = "current" /\ Knows(p, Initial)
        /\ At(p) = Initial
    BY <1>1 DEF Starting, At
  <2>2. content[Initial] \in Contents \ {"oversize", "linked"}
    BY <1>0, <2>1 DEF Unhindered, Inodes
  <2>3. Regular(Initial)
    BY <2>1, <2>2, SingleTarget, Sizes, InodesDiffer DEF Regular
  <2> QED
    BY <1>1, <2>1, <2>3 DEF Inodes
<1>2. CASE Holding(p)
  <2>1. temp = p /\ reading[p] = "staged" /\ Knows(p, p) /\ At(p) = p
    BY <1>2 DEF Holding, At
  <2>2. content[p] = "expected" /\ target # p
    BY <1>0, <2>1 DEF RunInv, Staging, Phases, Owner
  <2>3. nlink(p) = 1
    BY <1>0, <2>1, <2>2, SingleName
  <2>4. Regular(p)
    BY <2>2, <2>3, Sizes DEF Regular, Contents
  <2> QED
    BY <1>2, <2>1, <2>2, <2>4 DEF Inodes
<1>3. CASE Replacing(p)
  <2>1. temp = None /\ target = p /\ reading[p] = "written" /\ Knows(p, p) /\ At(p) = p
    BY <1>3 DEF Replacing, At
  <2>2. content[p] = "expected"
    BY <1>0, <2>1 DEF ArtifactWhole
  <2>3. nlink(p) = 1
    BY <2>1, <2>2, SingleTarget, InodesDiffer
  <2>4. Regular(p)
    BY <2>2, <2>3, Sizes DEF Regular, Contents
  <2> QED
    BY <1>3, <2>1, <2>2, <2>4 DEF Inodes
<1> QED
  BY <1>1, <1>2, <1>3 DEF Leads

\* Where a leading run can be when it is not reading.
LEMMA LeaderPlace ==
  ASSUME NEW p \in Runs, Leads(p)
  PROVE  /\ pc[p] \in {"source", "ancestor", "mkdir", "writable", "exists", "missing", "create"}
              => Starting(p)
         /\ pc[p] \in {"stat", "write", "sync", "identity", "rename"} => Holding(p)
         /\ pc[p] = "final" => Replacing(p)
         /\ pc[p] \notin {"directory", "exact", "cleanup", "remove", "failed", "killed"}
  BY DEF Leads, Starting, Holding, Replacing, Reads

\* The checks that only decide where the run goes: a leading run passes each of them.
LEMMA RaceDecide ==
  ASSUME IInv, RaceInv, NEW p \in Runs,
         \/ Source(p) \/ ExistingDirectory(p) \/ WritableInventory(p) \/ FinalInventory(p)
         \/ PathMissing(p) \/ Fstat(p) \/ AssertIdentity(p) \/ Cleanup(p)
  PROVE  RaceInv'
<1>0. Types /\ RunInv(p) /\ WriterOnly(p) /\ target \in Runs \cup {Initial, None}
  BY DEF IInv, RaceInv, Types, TypeOK
<1>1. UNCHANGED <<diskVars, mode, localVars, harm>>
  BY DEF Source, ExistingDirectory, WritableInventory, FinalInventory, PathMissing, Fstat,
     AssertIdentity, Cleanup, Decide
<1>2. UNCHANGED <<levels, target, temp, content, mode, depth, reading, seen, handle>>
  BY <1>1 DEF diskVars, localVars
<1>3. ASSUME NEW l \in Labels, Goto(p, l), WriterOnly(p)',
             Unhindered /\ Leads(p) => Leads(p)'
      PROVE  RaceInv'
  BY <1>1, <1>3, RaceMoved
<1>4. \A l \in Labels : Goto(p, l) => pc'[p] = l
  BY <1>0 DEF Goto, Types
<1>5. CASE Source(p)
  <2>1. PICK l \in {"ancestor", "directory"} :
           pc[p] = "source" /\ Goto(p, l) /\ (l = "ancestor" <=> mode[p] = "--write")
    BY <1>5 DEF Source, Decide
  <2>2. l \in Labels /\ pc'[p] = l
    BY <1>4, <2>1 DEF Labels
  <2>3. WriterOnly(p)'
    BY <1>2, <2>1, <2>2 DEF WriterOnly, Reads
  <2>4. Leads(p) => Leads(p)'
    BY <1>2, <2>1, <2>2, LeaderPlace DEF Leads, Starting
  <2> QED
    BY <1>3, <2>1, <2>2, <2>3, <2>4
<1>6. CASE ExistingDirectory(p)
  <2>1. ~Leads(p) /\ (Goto(p, "exact") \/ Goto(p, Unwound(p)))
    BY <1>6, LeaderPlace DEF ExistingDirectory, Decide
  <2>2. CASE Goto(p, "exact")
    <3>1. "exact" \in Labels
      BY DEF Labels
    <3>2. pc'[p] = "exact"
      BY <1>4, <2>2, <3>1
    <3>3. WriterOnly(p)'
      BY <3>2 DEF WriterOnly, Reads
    <3> QED
      BY <1>3, <2>1, <2>2, <3>1, <3>3
  <2> QED
    BY <1>1, <2>1, <2>2, RaceThrow
<1>7. CASE WritableInventory(p)
  <2>1. pc[p] = "writable" /\ (Goto(p, "exists") \/ (Goto(p, Unwound(p)) /\ temp # None))
    BY <1>7 DEF WritableInventory, Decide
  <2>2. Leads(p) => Starting(p) /\ mode[p] = "--write"
    BY <2>1, LeaderPlace DEF Leads
  <2>3. CASE Goto(p, "exists")
    <3>1. "exists" \in Labels
      BY DEF Labels
    <3>2. pc'[p] = "exists"
      BY <1>4, <2>3, <3>1
    <3>3. WriterOnly(p)'
      BY <1>0, <1>2, <2>1, <3>2 DEF WriterOnly, Reads
    <3>4. Leads(p) => Leads(p)'
      BY <1>2, <2>2, <3>2 DEF Leads, Starting
    <3> QED
      BY <1>3, <2>3, <3>1, <3>3, <3>4
  <2>4. CASE Goto(p, Unwound(p)) /\ temp # None
    BY <1>1, <2>2, <2>4, RaceThrow DEF Starting
  <2> QED
    BY <2>1, <2>3, <2>4
<1>8. CASE FinalInventory(p)
  <2>1. pc[p] = "final" /\ (Goto(p, "pass") \/ (Goto(p, Unwound(p)) /\ ~ExactInventory))
    BY <1>8 DEF FinalInventory, Decide
  <2>2. Leads(p) => Replacing(p) /\ mode[p] = "--write"
    BY <2>1, LeaderPlace DEF Leads
  <2>3. CASE Goto(p, "pass")
    <3>1. "pass" \in Labels
      BY DEF Labels, Ended
    <3>2. pc'[p] = "pass"
      BY <1>4, <2>3, <3>1
    <3>3. WriterOnly(p)'
      BY <3>2 DEF WriterOnly, Reads
    <3>4. Leads(p) => Leads(p)'
      BY <1>2, <2>2, <3>2 DEF Leads
    <3> QED
      BY <1>3, <2>3, <3>1, <3>3, <3>4
  <2>4. CASE Goto(p, Unwound(p)) /\ ~ExactInventory
    BY <1>1, <2>2, <2>4, InodesDiffer, RaceThrow DEF Replacing, ExactInventory
  <2> QED
    BY <2>1, <2>3, <2>4
<1>9. CASE PathMissing(p)
  <2>1. pc[p] = "missing" /\ (Goto(p, "create") \/ (Goto(p, Unwound(p)) /\ temp # None))
    BY <1>9 DEF PathMissing, Decide
  <2>2. Leads(p) => Starting(p) /\ mode[p] = "--write"
    BY <2>1, LeaderPlace DEF Leads
  <2>3. CASE Goto(p, "create")
    <3>1. "create" \in Labels
      BY DEF Labels
    <3>2. pc'[p] = "create"
      BY <1>4, <2>3, <3>1
    <3>3. WriterOnly(p)'
      BY <1>0, <1>2, <2>1, <3>2 DEF WriterOnly, Reads
    <3>4. Leads(p) => Leads(p)'
      BY <1>2, <2>2, <3>2 DEF Leads, Starting
    <3> QED
      BY <1>3, <2>3, <3>1, <3>3, <3>4
  <2>4. CASE Goto(p, Unwound(p)) /\ temp # None
    BY <1>1, <2>2, <2>4, RaceThrow DEF Starting
  <2> QED
    BY <2>1, <2>3, <2>4
<1>10. CASE Fstat(p)
  <2> DEFINE Unchanged == /\ Regular(handle[p])
                          /\ seen[p] = [inode |-> handle[p], size |-> Size(content[handle[p]])]
  <2>1. pc[p] = "fstat" /\ (Goto(p, "read") \/ (Goto(p, Unwound(p)) /\ ~Unchanged))
    BY <1>10 DEF Fstat, Decide
  <2>2. Unhindered /\ Leads(p) => Unchanged
    BY <2>1, LeaderReads DEF Knows, Reads
  <2>3. CASE Goto(p, "read")
    <3>1. "read" \in Labels
      BY DEF Labels, Reads
    <3>2. pc'[p] = "read"
      BY <1>4, <2>3, <3>1
    <3>3. WriterOnly(p)'
      BY <1>0, <1>2, <2>1, <3>2 DEF WriterOnly, Reads
    <3>4. \A i : Knows(p, i) => Knows(p, i)'
      BY <1>2, <2>1, <3>2 DEF Knows
    <3>5. Leads(p) => Leads(p)'
      BY <1>2, <2>1, <3>2, <3>4 DEF Leads, Starting, Holding, Replacing, Reads
    <3> QED
      BY <1>3, <2>3, <3>1, <3>3, <3>5
  <2>4. CASE Goto(p, Unwound(p)) /\ ~Unchanged
    BY <1>1, <2>2, <2>4, RaceThrow
  <2> QED
    BY <2>1, <2>3, <2>4
<1>11. CASE AssertIdentity(p)
  <2>1. pc[p] = "identity" /\ (Goto(p, "rename") \/ (Goto(p, Unwound(p)) /\ ~ExactIdentity(p)))
    BY <1>11 DEF AssertIdentity, Decide
  <2>2. Leads(p) => Holding(p) /\ mode[p] = "--write"
    BY <2>1, LeaderPlace DEF Leads
  <2>3. ExactIdentity(p)
    <3>1. temp = p /\ target # p /\ identity[p] = p /\ content[p] = "expected"
      BY <1>0, <2>1 DEF RunInv, Phases, Staging, Owner
    <3> QED
      BY <1>0, <3>1, SingleName, InodesDiffer DEF ExactIdentity
  <2>4. "rename" \in Labels
    BY DEF Labels
  <2>5. pc'[p] = "rename"
    BY <1>4, <2>1, <2>3, <2>4
  <2>6. WriterOnly(p)'
    BY <1>0, <1>2, <2>1, <2>5 DEF WriterOnly, Reads
  <2>7. Leads(p) => Leads(p)'
    BY <1>2, <2>2, <2>5 DEF Leads, Holding
  <2> QED
    BY <1>3, <2>1, <2>3, <2>4, <2>6, <2>7
<1>12. CASE Cleanup(p)
  <2>1. PICK l \in {"remove", "failed"} : ~Leads(p) /\ Goto(p, l)
    BY <1>12, LeaderPlace DEF Cleanup
  <2>2. l \in Labels
    BY DEF Labels, Ended
  <2>3. pc'[p] = l
    BY <1>4, <2>1, <2>2
  <2>4. WriterOnly(p)'
    BY <2>3 DEF WriterOnly, Reads
  <2> QED
    BY <1>3, <2>1, <2>2, <2>4
<1> QED
  BY <1>5, <1>6, <1>7, <1>8, <1>9, <1>10, <1>11, <1>12

LEMMA RaceReadBytes ==
  ASSUME IInv, RaceInv, NEW p \in Runs, ReadBytes(p)
  PROVE  RaceInv'
<1> DEFINE whole == Size(content[handle[p]]) = seen[p].size
           same == SameBytes(content[handle[p]])
<1>0. Types /\ WriterOnly(p) /\ pc[p] = "read" /\ pc[p] \in Reads
  BY DEF IInv, RaceInv, ReadBytes, Reads
<1>1. UNCHANGED <<diskVars, mode, localVars, harm>>
  BY DEF ReadBytes, Decide
<1>2. UNCHANGED <<target, temp, content, mode, depth, reading, seen, handle>>
  BY <1>1 DEF diskVars, localVars
<1>3. ASSUME Unhindered, Leads(p)
      PROVE  whole /\ (reading[p] \in {"staged", "written"} => same) /\ reading[p] # "checked"
  <2>1. /\ Knows(p, At(p)) /\ reading[p] # "checked"
        /\ reading[p] \in {"staged", "written"} => content[At(p)] = "expected"
    BY <1>0, <1>3, LeaderReads
  <2>2. seen[p] = [inode |-> At(p), size |-> Size(content[At(p)])] /\ handle[p] = At(p)
    BY <1>0, <2>1 DEF Knows
  <2>3. seen[p].size = Size(content[At(p)])
    BY <2>2
  <2> QED
    BY <2>1, <2>2, <2>3 DEF SameBytes
<1>4. CASE Goto(p, Unwound(p)) /\ ~(Unhindered /\ Leads(p))
  BY <1>1, <1>4, RaceThrow
<1>5. ASSUME NEW l \in {"pass", "missing", "identity", "final"}, Goto(p, l),
             \/ reading[p] = "current" /\ l \in {"pass", "missing"}
             \/ reading[p] = "staged" /\ l = "identity"
             \/ reading[p] = "written" /\ l = "final"
             \/ reading[p] = "checked" /\ l = "pass"
      PROVE  RaceInv'
  <2>1. l \in Labels
    BY DEF Labels, Ended
  <2>2. pc'[p] = l
    BY <1>0, <1>5 DEF Goto, Types
  <2>3. WriterOnly(p)'
    BY <1>0, <1>2, <1>5, <2>2 DEF WriterOnly, Reads
  <2>4. ASSUME Unhindered, Leads(p) PROVE Leads(p)'
    <3>1. /\ reading[p] = "current" => Starting(p)
          /\ reading[p] = "staged" => Holding(p)
          /\ reading[p] = "written" => Replacing(p)
          /\ reading[p] # "checked" /\ mode[p] = "--write"
      BY <1>0, <2>4, LeaderReads DEF Leads
    <3> QED
      BY <1>2, <1>5, <2>2, <3>1 DEF Leads, Starting, Holding, Replacing
  <2> QED
    BY <1>1, <1>5, <2>1, <2>3, <2>4, RaceMoved
<1> HIDE DEF whole, same
<1>6. \/ reading[p] = "current" /\ Decide(p, whole, IF same THEN "pass" ELSE "missing")
      \/ reading[p] = "staged" /\ Decide(p, whole /\ same, "identity")
      \/ reading[p] = "written" /\ Decide(p, whole /\ same, "final")
      \/ reading[p] = "checked" /\ Decide(p, whole /\ same, "pass")
  BY DEF ReadBytes, whole, same
<1> QED
  BY <1>3, <1>4, <1>5, <1>6 DEF Decide

LEMMA RaceDirectory ==
  ASSUME IInv, RaceInv, NEW p \in Runs, Ancestor(p) \/ MakeDirectory(p)
  PROVE  RaceInv'
<1>0. /\ Types /\ WriterOnly(p) /\ pc[p] \in {"ancestor", "mkdir"} /\ mode[p] = "--write"
      /\ UNCHANGED <<target, temp, content, mode, reading, seen, handle, created, identity, harm>>
  BY DEF IInv, RaceInv, Ancestor, MakeDirectory, WriterOnly, diskVars
<1>1. \A q \in Runs \ {p} : SameRun(q)
  BY <1>0 DEF Ancestor, MakeDirectory, Goto, Throw, SameRun, Same, Types, TypeOK
<1>2. WriterOnly(p)'
  BY <1>0 DEF WriterOnly
<1>3. seen' = [q \in Runs |-> seen'[q]]
  BY <1>0 DEF RaceInv
<1>4. Leads(p) => Starting(p)
  BY <1>0, LeaderPlace
<1>5. CASE Ancestor(p)
  <2>1. /\ pc'[p] \in {"writable", "ancestor"} \/ (pc'[p] = "mkdir" /\ depth'[p] = levels)
        /\ levels' = levels
    BY <1>0, <1>5 DEF Ancestor, Goto, Types, TypeOK, diskVars
  <2>2. Leads(p) => Leads(p)'
    BY <1>0, <1>4, <2>1 DEF Leads, Starting
  <2> QED
    BY <1>0, <1>1, <1>2, <1>3, <2>1, <2>2, RaceFrame
<1>6. CASE MakeDirectory(p) /\ levels = depth[p] /\ Goto(p, "ancestor")
  <2>1. pc'[p] = "ancestor"
    BY <1>0, <1>6 DEF Goto, Types
  <2>2. ASSUME NEW q \in Runs PROVE WriterOnly(q)'
    BY <1>1, <1>2, OtherWriter DEF RaceInv
  <2>3. ASSUME Unhindered' PROVE \E q \in Runs : Leads(q)'
    <3>1. Unhindered
      BY <1>0, <2>3 DEF Unhindered
    <3>2. PICK q \in Runs : Leads(q)
      BY <3>1 DEF RaceInv
    <3>3. CASE Starting(q)
      BY <1>0, <2>1, <3>3 DEF Leads, Starting
    <3>4. CASE ~Starting(q)
      <4>1. q # p /\ SameRun(q)
        BY <1>1, <1>4, <3>2, <3>4
      <4>2. \A j : Knows(q, j) => Knows(q, j)'
        BY <1>0, <4>1 DEF Knows, SameRun, Same
      <4> QED
        BY <1>0, <3>2, <3>4, <4>1, <4>2 DEF Leads, Holding, Replacing, SameRun, Same
    <3> QED
      BY <3>3, <3>4
  <2> QED
    BY <1>3, <2>2, <2>3 DEF RaceInv
<1>7. CASE /\ MakeDirectory(p) /\ levels > depth[p] /\ Goto(p, Unwound(p))
           /\ UNCHANGED <<levels, depth>>
  <2>1. ~Leads(p)
    BY <1>4, <1>7 DEF MakeDirectory, Starting, Reads, IInv, Types, TypeOK
  <2> QED
    BY <1>0, <1>7, <2>1, RaceThrow DEF diskVars, localVars
<1> QED
  BY <1>5, <1>6, <1>7 DEF MakeDirectory, Throw

LEMMA RaceInventory ==
  ASSUME IInv, RaceInv, NEW p \in Runs, CheckInventory(p) \/ Optional(p)
  PROVE  RaceInv'
<1>0. /\ Types /\ WriterOnly(p) /\ pc[p] \in {"exact", "exists"}
      /\ target \in Runs \cup {Initial, None}
      /\ UNCHANGED <<levels, target, temp, content, mode, depth, seen, handle, created, identity,
                     harm>>
  BY DEF IInv, RaceInv, Types, TypeOK, CheckInventory, Optional, diskVars
<1>1. \A q \in Runs \ {p} : SameRun(q)
  BY <1>0 DEF CheckInventory, Optional, Read, Goto, Throw, SameRun, Same, Types, TypeOK
<1>2. seen' = [q \in Runs |-> seen'[q]]
  BY <1>0 DEF RaceInv
<1>3. CASE CheckInventory(p)
  <2>1. ~Leads(p)
    BY <1>3, LeaderPlace DEF CheckInventory
  <2>2. \/ pc'[p] = "lstat" /\ reading'[p] = "checked"
        \/ pc'[p] \in {"failed", "cleanup"}
    BY <1>0, <1>3 DEF CheckInventory, Read, Goto, Throw, Unwound, Types
  <2>3. WriterOnly(p)'
    BY <2>2 DEF WriterOnly, Reads
  <2> QED
    BY <1>0, <1>1, <1>2, <2>1, <2>3, RaceFrame
<1>4. CASE Optional(p)
  <2>1. mode[p] = "--write" /\ (Leads(p) => Starting(p))
    BY <1>0, <1>4, LeaderPlace DEF Optional, WriterOnly
  <2>2. \/ pc'[p] = "lstat" /\ reading'[p] = "current" /\ target # None
        \/ pc'[p] = "missing"
    BY <1>0, <1>4 DEF Optional, Read, Goto, Types
  <2>3. WriterOnly(p)'
    BY <1>0, <2>1 DEF WriterOnly
  <2>4. Leads(p) => Leads(p)'
    BY <1>0, <2>1, <2>2 DEF Leads, Starting, Knows, Reads
  <2> QED
    BY <1>0, <1>1, <1>2, <2>3, <2>4, RaceFrame
<1> QED
  BY <1>3, <1>4

LEMMA RaceLstat ==
  ASSUME IInv, RaceInv, NEW p \in Runs, Lstat(p)
  PROVE  RaceInv'
<1>0. Types /\ WriterOnly(p) /\ pc[p] = "lstat" /\ pc[p] \in Reads
  BY DEF IInv, RaceInv, Lstat, Reads
<1>1. CASE Throw(p) /\ ~Regular(At(p)) /\ UNCHANGED seen
  BY <1>0, <1>1, LeaderReads, RaceThrow DEF Lstat, Throw, localVars
<1>2. CASE /\ seen' = [seen EXCEPT ![p] = [inode |-> At(p), size |-> Size(content[At(p)])]]
           /\ Goto(p, "open")
  <2>1. /\ UNCHANGED <<levels, target, temp, content, mode, depth, reading, handle, created,
                       identity, harm>>
        /\ pc'[p] = "open" /\ seen'[p] = [inode |-> At(p), size |-> Size(content[At(p)])]
        /\ seen' = [q \in Runs |-> seen'[q]]
    BY <1>0, <1>2 DEF Lstat, Goto, Types, diskVars, RaceInv
  <2>2. \A q \in Runs \ {p} : SameRun(q)
    BY <1>0, <1>2, <2>1 DEF SameRun, Same, Goto, Types, RaceInv
  <2>3. WriterOnly(p)'
    BY <1>0, <2>1 DEF WriterOnly, Reads
  <2>4. ASSUME Unhindered, Leads(p) PROVE Leads(p)'
    <3>1. Knows(p, At(p))'
      BY <2>1 DEF Knows, At
    <3>2. /\ At(p) = IF reading[p] = "staged" THEN temp ELSE target
          /\ At(p)' = At(p)
      BY <2>1 DEF At
    <3> QED
      BY <1>0, <2>1, <2>4, <3>1, <3>2 DEF Leads, Starting, Holding, Replacing, Reads
  <2> QED
    BY <2>1, <2>2, <2>3, <2>4, RaceFrame
<1> QED
  BY <1>1, <1>2 DEF Lstat

LEMMA RaceOpen ==
  ASSUME IInv, RaceInv, NEW p \in Runs, Open(p)
  PROVE  RaceInv'
<1>0. Types /\ WriterOnly(p) /\ pc[p] = "open" /\ pc[p] \in Reads
  BY DEF IInv, RaceInv, Open, Reads
<1>1. /\ UNCHANGED <<levels, target, temp, content, mode, depth, reading, seen, created,
                     identity, harm>>
      /\ pc'[p] = "fstat" /\ handle'[p] = At(p)
      /\ seen' = [q \in Runs |-> seen'[q]]
  BY <1>0 DEF Open, Goto, Types, TypeOK, diskVars, RaceInv
<1>2. \A q \in Runs \ {p} : SameRun(q)
  BY <1>0, <1>1 DEF SameRun, Same, Goto, Types, TypeOK, Open
<1>3. WriterOnly(p)'
  BY <1>0, <1>1 DEF WriterOnly, Reads
<1>4. ASSUME Unhindered, Leads(p) PROVE Leads(p)'
  <2>1. Knows(p, At(p))
    BY <1>0, <1>4, LeaderReads
  <2>2. Knows(p, At(p))'
    BY <1>0, <1>1, <2>1 DEF Knows, At
  <2>3. /\ At(p) = IF reading[p] = "staged" THEN temp ELSE target
        /\ At(p)' = At(p)
    BY <1>1 DEF At
  <2> QED
    BY <1>0, <1>1, <1>4, <2>2, <2>3 DEF Leads, Starting, Holding, Replacing, Reads
<1> QED
  BY <1>1, <1>2, <1>3, <1>4, RaceFrame

\* A step that gives the lead to the run that takes it.
LEMMA TakesLead ==
  ASSUME RaceInv, NEW p \in Runs, \A q \in Runs \ {p} : SameRun(q), seen' = seen, WriterOnly(p)',
         Leads(p)'
  PROVE  RaceInv'
<1>1. ASSUME NEW q \in Runs PROVE WriterOnly(q)'
  BY OtherWriter DEF RaceInv
<1> QED
  BY <1>1 DEF RaceInv

\* Without a temporary file of its own, a run that is still racing needs the name to be
\* free: while somebody else has it, only a run that has passed leads.
LEMMA LeaderOfTaken ==
  ASSUME NEW p \in Runs, temp = p, NEW q \in Runs, q # p, Leads(q)
  PROVE  pc[q] = "pass"
  BY InodesDiffer DEF Leads, Starting, Holding, Replacing

LEMMA RaceCreate ==
  ASSUME IInv, RaceInv, NEW p \in Runs, CreateTemporary(p)
  PROVE  RaceInv'
<1>0. Types /\ WriterOnly(p) /\ pc[p] = "create" /\ mode[p] = "--write"
  BY DEF IInv, RaceInv, CreateTemporary, WriterOnly
<1>1. CASE temp # None
  <2>1. ~Leads(p)
    BY <1>0, <1>1, LeaderPlace DEF Starting
  <2> QED
    BY <1>1, <2>1, RaceThrow DEF CreateTemporary, Throw, diskVars, localVars
<1>2. CASE temp = None
  <2>1. /\ temp' = p /\ pc' = [pc EXCEPT ![p] = "stat"] /\ handle' = [handle EXCEPT ![p] = p]
        /\ created' = [created EXCEPT ![p] = TRUE]
        /\ UNCHANGED <<mode, depth, reading, seen, identity, harm>>
    BY <1>2 DEF CreateTemporary, Goto
  <2>2. pc'[p] = "stat" /\ \A q \in Runs \ {p} : SameRun(q)
    BY <1>0, <2>1 DEF SameRun, Same, Types, TypeOK
  <2>3. Leads(p)' /\ WriterOnly(p)'
    BY <1>0, <2>1, <2>2 DEF Leads, Holding, WriterOnly
  <2> QED
    BY <2>1, <2>2, <2>3, TakesLead
<1> QED
  BY <1>1, <1>2

LEMMA RaceStaging ==
  ASSUME IInv, RaceInv, NEW p \in Runs, RecordIdentity(p) \/ WritePiece(p)
  PROVE  RaceInv'
<1>0. /\ Types /\ WriterOnly(p) /\ pc[p] \in {"stat", "write", "sync"} /\ mode[p] = "--write"
      /\ UNCHANGED <<levels, target, temp, mode, depth, seen, handle, created, harm>>
  BY DEF IInv, RaceInv, RecordIdentity, WritePiece, WriterOnly, diskVars
<1>1. temp = p
  BY <1>0 DEF IInv, RunInv, Phases, Owner
<1>2. \A q \in Runs \ {p} : SameRun(q)
  BY <1>0 DEF RecordIdentity, WritePiece, Read, Goto, SameRun, Same, Types, TypeOK
<1>3. pc'[p] \in {"write", "sync"} \/ (pc'[p] = "lstat" /\ reading'[p] = "staged")
  BY <1>0 DEF RecordIdentity, WritePiece, Read, Goto, Types
<1>4. Leads(p)' /\ WriterOnly(p)'
  BY <1>0, <1>1, <1>3 DEF Leads, Holding, Knows, WriterOnly, Reads
<1> QED
  BY <1>0, <1>2, <1>4, TakesLead

LEMMA RaceRename ==
  ASSUME IInv, RaceInv, NEW p \in Runs, Rename(p)
  PROVE  RaceInv'
<1>0. /\ Types /\ pc[p] = "rename" /\ mode[p] = "--write" /\ temp = p
  BY DEF IInv, RaceInv, Rename, WriterOnly, RunInv, Phases, Owner
<1>1. /\ target' = p /\ temp' = None /\ created' = [created EXCEPT ![p] = FALSE]
      /\ pc' = [pc EXCEPT ![p] = "lstat"] /\ reading' = [reading EXCEPT ![p] = "written"]
      /\ UNCHANGED <<mode, depth, seen, handle, identity, harm>>
  BY <1>0 DEF Rename, Goto, Read
<1>2. /\ pc'[p] = "lstat" /\ reading'[p] = "written"
      /\ \A q \in Runs \ {p} : SameRun(q)
  BY <1>0, <1>1 DEF SameRun, Same, Types, TypeOK
<1>3. Leads(p)' /\ WriterOnly(p)'
  BY <1>0, <1>1, <1>2 DEF Leads, Replacing, Knows, WriterOnly, Reads
<1> QED
  BY <1>1, <1>2, <1>3, TakesLead

\* A temporary file that is removed belonged to a run that did not lead.
LEMMA RaceRemove ==
  ASSUME IInv, RaceInv, NEW p \in Runs, temp = p, ~Leads(p), pc'[p] \in Ended,
         \A q \in Runs \ {p} : SameRun(q),
         UNCHANGED <<target, content, mode, seen, harm>>
  PROVE  RaceInv'
<1>1. ASSUME NEW q \in Runs PROVE WriterOnly(q)'
  <2>1. CASE q = p
    BY <2>1 DEF WriterOnly, Ended, Reads
  <2>2. CASE q # p
    BY <2>2, OtherWriter DEF RaceInv
  <2> QED
    BY <2>1, <2>2
<1>2. ASSUME Unhindered' PROVE \E q \in Runs : Leads(q)'
  <2>1. Unhindered
    BY <1>2, InodesDiffer DEF Unhindered
  <2>2. PICK q \in Runs : Leads(q)
    BY <2>1 DEF RaceInv
  <2>3. q # p /\ pc[q] = "pass"
    BY <2>2, LeaderOfTaken
  <2> QED
    BY <2>2, <2>3, StillLeads
<1> QED
  BY <1>1, <1>2 DEF RaceInv

LEMMA RaceRemoveTemporary ==
  ASSUME IInv, RaceInv, NEW p \in Runs, RemoveTemporary(p)
  PROVE  RaceInv'
<1>0. /\ Types /\ pc[p] = "remove" /\ temp = p /\ pc' = [pc EXCEPT ![p] = "failed"]
      /\ UNCHANGED <<target, content, mode, depth, reading, seen, handle, created, identity, harm>>
  BY DEF IInv, RemoveTemporary, RunInv, Phases, Owner, Goto, localVars
<1>1. pc'[p] \in Ended /\ \A q \in Runs \ {p} : SameRun(q)
  BY <1>0 DEF SameRun, Same, Types, Ended
<1>2. ~Leads(p)
  BY <1>0, LeaderPlace
<1> QED
  BY <1>0, <1>1, <1>2, RaceRemove

LEMMA RaceRemoveLeftover ==
  ASSUME IInv, RaceInv, RemoveLeftover
  PROVE  RaceInv'
<1>0. /\ temp \in Runs /\ pc[temp] \in Ended
      /\ UNCHANGED <<levels, target, content, mode, pc, depth, reading, seen, handle, created,
                     identity, harm>>
  BY DEF RemoveLeftover, localVars
<1>1. \A q \in Runs : SameRun(q)
  BY <1>0 DEF SameRun, Same
<1>2. CASE pc[temp] = "pass"
  <2>1. ASSUME NEW q \in Runs PROVE WriterOnly(q)'
    BY <1>1, OtherWriter DEF RaceInv
  <2>2. ASSUME Unhindered' PROVE \E q \in Runs : Leads(q)'
    <3>1. Unhindered
      BY <1>0, <2>2, InodesDiffer DEF Unhindered
    <3>2. PICK q \in Runs : Leads(q)
      BY <3>1 DEF RaceInv
    <3>3. pc[q] = "pass"
      BY <1>0, <1>2, <3>2, LeaderOfTaken
    <3> QED
      BY <1>1, <3>2, <3>3, StillLeads
  <2> QED
    BY <1>0, <2>1, <2>2 DEF RaceInv
<1>3. CASE pc[temp] # "pass"
  <2>1. ~Leads(temp)
    BY <1>0, <1>3, LeaderPlace DEF Ended
  <2> QED
    BY <1>0, <1>1, <2>1, RaceRemove
<1> QED
  BY <1>2, <1>3

\* A harmed run ends the comparison.
LEMMA RaceHarm ==
  ASSUME IInv, RaceInv, NEW p \in Runs, IOError(p) \/ Kill(p)
  PROVE  RaceInv'
<1>0. /\ Types /\ UNCHANGED <<mode, depth, reading, seen, handle, created, identity>>
      /\ pc'[p] \in {"failed", "cleanup", "killed"} /\ harm'[p] # "none"
  BY DEF IInv, IOError, Kill, Goto, Unwound, Types, localVars
<1>1. \A q \in Runs \ {p} : SameRun(q)
  BY <1>0 DEF IOError, Kill, Goto, SameRun, Same, Types
<1>2. ASSUME NEW q \in Runs PROVE WriterOnly(q)'
  <2>1. CASE q = p
    BY <1>0, <2>1 DEF WriterOnly, Reads
  <2>2. CASE q # p
    BY <1>1, <2>2, OtherWriter DEF RaceInv
  <2> QED
    BY <2>1, <2>2
<1>3. ~Unhindered'
  BY <1>0 DEF Unhindered
<1> QED
  BY <1>0, <1>2, <1>3 DEF RaceInv

LEMMA NextRace == IInv /\ RaceInv /\ [Next]_vars => RaceInv'
<1> SUFFICES ASSUME IInv, RaceInv, [Next]_vars PROVE RaceInv'
  OBVIOUS
<1>1. ASSUME NEW p \in Runs, Step(p) PROVE RaceInv'
  BY <1>1, RaceDecide, RaceReadBytes, RaceDirectory, RaceInventory, RaceLstat, RaceOpen,
     RaceCreate, RaceStaging, RaceRename, RaceRemoveTemporary DEF Step
<1>2. CASE UNCHANGED vars
  <2>1. UNCHANGED <<levels, target, temp, content, mode, pc, depth, reading, seen, handle,
                    created, identity, harm>>
    BY <1>2 DEF vars, diskVars, localVars
  <2>2. \A q \in Runs : SameRun(q)
    BY <2>1 DEF SameRun, Same
  <2>3. \A q \in Runs : WriterOnly(q)'
    BY <2>2, OtherWriter DEF RaceInv
  <2>4. Unhindered' => Unhindered
    BY <2>1 DEF Unhindered
  <2>5. Unhindered' => \E q \in Runs : Leads(q)'
    BY <2>1, <2>2, <2>4, StillLeads DEF RaceInv
  <2> QED
    BY <2>1, <2>3, <2>5 DEF RaceInv
<1> QED
  BY <1>1, <1>2, RaceRemoveLeftover, RaceHarm DEF Next

\* Among any number of runs of generate-openapi.mjs that race on one checkout, none of
\* them harmed, the writers do not all lose.
THEOREM ArtifactSomeWriterPasses == Spec => []SomeWriterPasses
<1>1. RaceInv => SomeWriterPasses
  <2> SUFFICES ASSUME RaceInv,
                      \A p \in Runs : pc[p] \in {"pass", "failed"} /\ harm[p] = "none",
                      \E p \in Runs : mode[p] = "--write", temp # Stale,
                      target = Initial => content[Initial] \notin {"oversize", "linked"}
               PROVE  \E p \in Runs : mode[p] = "--write" /\ pc[p] = "pass"
    BY DEF SomeWriterPasses
  <2>1. PICK p \in Runs : Leads(p)
    BY DEF RaceInv, Unhindered
  <2> QED
    BY <2>1, LeaderPlace DEF Leads
<1> QED
  BY <1>1, InitRace, NextRace, ArtifactInvariant, PTL DEF Spec
=============================================================================

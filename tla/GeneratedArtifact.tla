------------------------- MODULE GeneratedArtifact -------------------------
(***************************************************************************)
(* scripts/generate-openapi.mjs: several runs of the generator, --write    *)
(* and --check, on one checkout (a hook, an editor task and a developer),  *)
(* each of which may be killed or meet an I/O error at any await.          *)
(*                                                                         *)
(* The output directory holds at most openapi.gen.go (target) and the      *)
(* temporary file (temp); a name refers to an inode, and an inode is known *)
(* by the run that created it.  Contents are kept as far as the generator  *)
(* tells them apart: their size, and whether they are the expected bytes.  *)
(* The sealed contract and its rendering are one step that succeeds or     *)
(* throws.  Checks of symbolic links and containment look at directories   *)
(* that nothing here replaces, and are left out.                           *)
(***************************************************************************)
EXTENDS Naturals, FiniteSets

CONSTANTS
    Runs,         \* processes of the generator
    Levels,       \* directories between the root and the artifact (3 in the code)
    Initial,      \* the artifact that is there before
    Stale,        \* a temporary file that an earlier, killed run left
    None          \* no inode

ASSUME InodesDiffer ==
    /\ Initial \notin Runs /\ Stale \notin Runs /\ None \notin Runs
    /\ Initial # Stale /\ Initial # None /\ Stale # None
    /\ Levels \in Nat

VARIABLES
    levels,     \* how many of the directories exist
    target,     \* inode of openapi.gen.go
    temp,       \* inode of .openapi.gen.go.hedefora.tmp
    content,    \* what each inode holds
    mode,       \* --write or --check
    pc,
    depth,      \* directories ensureOutputDirectory has passed
    reading,    \* what readExactRegularPath was called for
    seen,       \* pathStats: inode and size
    handle,     \* inode of the open handle
    created,    \* temporaryCreated
    identity,   \* temporaryIdentity
    harm        \* "none", or the worst that happened to the run

diskVars == <<levels, target, temp, content>>
localVars == <<depth, reading, seen, handle, created, identity>>
vars == <<diskVars, mode, pc, localVars, harm>>

Inodes == Runs \cup {Initial, Stale}
Contents == {"empty", "partial", "expected", "twin", "drifted", "oversize", "linked"}

\* twin: other bytes of the same length.  linked: a file with a second hard link.
Size(c) == CASE c = "empty" -> 0
             [] c = "partial" -> 1
             [] c \in {"expected", "twin", "linked"} -> 2
             [] c = "drifted" -> 3
             [] c = "oversize" -> 4
MaximumGeneratedBytes == 3

nlink(i) ==
    Cardinality({n \in {"target", "temp"} : (n = "target" /\ target = i) \/ (n = "temp" /\ temp = i)})
        + (IF content[i] = "linked" THEN 1 ELSE 0)

Ended == {"pass", "failed", "killed"}

Init ==
    /\ levels \in 0 .. Levels
    /\ target \in {None, Initial} /\ temp \in {None, Stale}
    /\ levels < Levels => target = None /\ temp = None
    /\ \E c \in {"expected", "twin", "drifted", "oversize", "linked"}, s \in {"empty", "expected"} :
          /\ content = [i \in Inodes |-> IF i = Initial THEN c ELSE IF i = Stale THEN s ELSE "empty"]
          /\ target = None => c = "expected"
          /\ temp = None => s = "empty"
    /\ mode \in [Runs -> {"--write", "--check"}]
    /\ pc = [p \in Runs |-> "source"]
    /\ depth = [p \in Runs |-> 0]
    /\ reading = [p \in Runs |-> "nothing"]
    /\ seen = [p \in Runs |-> [inode |-> None, size |-> 0]]
    /\ handle = [p \in Runs |-> None]
    /\ created = [p \in Runs |-> FALSE]
    /\ identity = [p \in Runs |-> None]
    /\ harm = [p \in Runs |-> "none"]

-----------------------------------------------------------------------------
(* Control *)

Goto(p, label) == pc' = [pc EXCEPT ![p] = label]

\* A GeneratorError, through the finally block of writeGeneratedArtifact.
Unwound(p) == IF created[p] THEN "cleanup" ELSE "failed"
Throw(p) == Goto(p, Unwound(p))

\* A step of a run that changes no file and no local variable.
Decide(p, accepted, label) ==
    /\ Goto(p, IF accepted THEN label ELSE Unwound(p))
    /\ UNCHANGED <<diskVars, mode, localVars, harm>>

Read(p, what) ==
    /\ reading' = [reading EXCEPT ![p] = what]
    /\ Goto(p, "lstat")

\* readCanonicalContract and generateArtifactFromSource; what they refuse is IOError.
Source(p) ==
    /\ pc[p] = "source"
    /\ Decide(p, TRUE, IF mode[p] = "--write" THEN "ancestor" ELSE "directory")

\* Any system call may fail, on a name that has gone for one, and the contract may be
\* refused.
IOError(p) ==
    /\ pc[p] \notin Ended
    /\ harm' = [harm EXCEPT ![p] = IF pc[p] \in {"cleanup", "remove"} THEN "cleanup" ELSE "error"]
    /\ Goto(p, IF pc[p] \in {"cleanup", "remove"} THEN "failed" ELSE Unwound(p))
    /\ UNCHANGED <<diskVars, mode, localVars>>

Kill(p) ==
    /\ pc[p] \notin Ended
    /\ Goto(p, "killed")
    /\ harm' = [harm EXCEPT ![p] = "killed"]
    /\ UNCHANGED <<diskVars, mode, localVars>>

-----------------------------------------------------------------------------
(* The output directory *)

\* ensureOutputDirectory: each ancestor is looked at, and made if it is missing.
Ancestor(p) ==
    /\ pc[p] = "ancestor"
    /\ \/ depth[p] = Levels /\ Goto(p, "writable") /\ UNCHANGED depth
       \/ /\ depth[p] < Levels /\ depth[p] < levels
          /\ depth' = [depth EXCEPT ![p] = @ + 1] /\ UNCHANGED pc
       \/ /\ depth[p] < Levels /\ depth[p] = levels
          /\ Goto(p, "mkdir") /\ UNCHANGED depth
    /\ UNCHANGED <<diskVars, mode, reading, seen, handle, created, identity, harm>>

\* mkdir fails if another run has made it in the meantime.
MakeDirectory(p) ==
    /\ pc[p] = "mkdir"
    /\ \/ /\ levels = depth[p]
          /\ levels' = levels + 1
          /\ depth' = [depth EXCEPT ![p] = @ + 1]
          /\ Goto(p, "ancestor")
       \/ levels > depth[p] /\ Throw(p) /\ UNCHANGED <<levels, depth>>
    /\ UNCHANGED <<target, temp, content, mode, reading, seen, handle, created, identity, harm>>

\* inspectExistingDirectory
ExistingDirectory(p) ==
    pc[p] = "directory" /\ Decide(p, levels = Levels, "exact")

\* Mutant of WritableInventory: the artifact must be there.
WritableInventoryExact(p) ==
    pc[p] = "writable" /\ Decide(p, temp = None /\ target # None, "exists")

\* assertWritableOutputInventory: nothing but the artifact.
WritableInventory(p) == pc[p] = "writable" /\ Decide(p, temp = None, "exists")

\* assertExactOutputInventory: the artifact and nothing else.
ExactInventory ==
    temp = None /\ target # None
CheckInventory(p) ==
    /\ pc[p] = "exact"
    /\ \/ ExactInventory /\ Read(p, "checked")
       \/ ~ExactInventory /\ Throw(p) /\ UNCHANGED reading
    /\ UNCHANGED <<diskVars, mode, depth, seen, handle, created, identity, harm>>
FinalInventory(p) == pc[p] = "final" /\ Decide(p, ExactInventory, "pass")

\* readOptionalExactRegularFile
Optional(p) ==
    /\ pc[p] = "exists"
    /\ \/ target # None /\ Read(p, "current")
       \/ target = None /\ Goto(p, "missing") /\ UNCHANGED reading
    /\ UNCHANGED <<diskVars, mode, depth, seen, handle, created, identity, harm>>

-----------------------------------------------------------------------------
(* readExactRegularPath *)

At(p) == IF reading[p] = "staged" THEN temp ELSE target

\* assertFileSizeWithinLimit, and regular with a single link.
Regular(i) == nlink(i) = 1 /\ Size(content[i]) <= MaximumGeneratedBytes

Lstat(p) ==
    /\ pc[p] = "lstat" /\ At(p) # None
    /\ \/ /\ Regular(At(p))
          /\ seen' = [seen EXCEPT ![p] = [inode |-> At(p), size |-> Size(content[At(p)])]]
          /\ Goto(p, "open")
       \/ ~Regular(At(p)) /\ Throw(p) /\ UNCHANGED seen
    /\ UNCHANGED <<diskVars, mode, depth, reading, handle, created, identity, harm>>

Open(p) ==
    /\ pc[p] = "open" /\ At(p) # None
    /\ handle' = [handle EXCEPT ![p] = At(p)]
    /\ Goto(p, "fstat")
    /\ UNCHANGED <<diskVars, mode, depth, reading, seen, created, identity, harm>>

\* The file that was opened is the one that was looked at, and still has its name.
Fstat(p) ==
    /\ pc[p] = "fstat"
    /\ Decide(p, /\ Regular(handle[p])
                 /\ seen[p] = [inode |-> handle[p], size |-> Size(content[handle[p]])],
              "read")

\* Mutant of SameBytes: the length decides.
SameLength(c) == Size(c) = Size("expected")

\* equals(expected.bytes)
SameBytes(c) == c = "expected"

\* readBoundedFile, the last stat, and what the caller does with the bytes.
ReadBytes(p) ==
    LET same == SameBytes(content[handle[p]])
        whole == Size(content[handle[p]]) = seen[p].size
    IN  /\ pc[p] = "read"
        /\ \/ /\ reading[p] = "current"
              /\ Decide(p, whole, IF same THEN "pass" ELSE "missing")
           \/ reading[p] = "staged" /\ Decide(p, whole /\ same, "identity")
           \/ reading[p] = "written" /\ Decide(p, whole /\ same, "final")
           \/ reading[p] = "checked" /\ Decide(p, whole /\ same, "pass")

-----------------------------------------------------------------------------
(* The temporary file *)

\* assertPathMissing
PathMissing(p) == pc[p] = "missing" /\ Decide(p, temp = None, "create")

\* Mutant of CreateTemporary: an existing file is truncated.
CreateTemporaryShared(p) ==
    /\ pc[p] = "create"
    /\ LET i == IF temp = None THEN p ELSE temp
       IN  /\ temp' = i
           /\ content' = [content EXCEPT ![i] = "empty"]
           /\ handle' = [handle EXCEPT ![p] = i]
    /\ created' = [created EXCEPT ![p] = TRUE]
    /\ Goto(p, "stat")
    /\ UNCHANGED <<levels, target, mode, depth, reading, seen, identity, harm>>

\* open with O_CREAT and O_EXCL.
CreateTemporary(p) ==
    /\ pc[p] = "create"
    /\ \/ /\ temp = None
          /\ temp' = p
          /\ content' = [content EXCEPT ![p] = "empty"]
          /\ handle' = [handle EXCEPT ![p] = p]
          /\ created' = [created EXCEPT ![p] = TRUE]
          /\ Goto(p, "stat")
       \/ temp # None /\ Throw(p) /\ UNCHANGED <<temp, content, handle, created>>
    /\ UNCHANGED <<levels, target, mode, depth, reading, seen, identity, harm>>

\* handle.stat records what was created.
RecordIdentity(p) ==
    /\ pc[p] = "stat" /\ nlink(handle[p]) = 1
    /\ identity' = [identity EXCEPT ![p] = handle[p]]
    /\ Goto(p, "write")
    /\ UNCHANGED <<diskVars, mode, depth, reading, seen, handle, created, harm>>

\* writeFile, in pieces; the last one is followed by chmod, sync and close.
WritePiece(p) ==
    /\ pc[p] \in {"write", "sync"}
    /\ content' = [content EXCEPT ![handle[p]] = IF pc[p] = "write" THEN "partial" ELSE "expected"]
    /\ \/ pc[p] = "write" /\ Goto(p, "sync") /\ UNCHANGED reading
       \/ pc[p] = "sync" /\ Read(p, "staged")
    /\ UNCHANGED <<levels, target, temp, mode, depth, seen, handle, created, identity, harm>>

\* assertExactFileIdentity
ExactIdentity(p) == temp # None /\ nlink(temp) = 1 /\ identity[p] = temp
AssertIdentity(p) == pc[p] = "identity" /\ Decide(p, ExactIdentity(p), "rename")

\* rename moves whatever has the temporary name.
Rename(p) ==
    /\ pc[p] = "rename" /\ temp # None
    /\ target' = temp /\ temp' = None
    /\ created' = [created EXCEPT ![p] = FALSE]
    /\ Read(p, "written")
    /\ UNCHANGED <<levels, content, mode, depth, seen, handle, identity, harm>>

\* removeExactTemporaryArtifact: only the file this run created is removed.
Cleanup(p) ==
    /\ pc[p] = "cleanup"
    /\ Goto(p, IF ExactIdentity(p) THEN "remove" ELSE "failed")
    /\ UNCHANGED <<diskVars, mode, localVars, harm>>

RemoveTemporary(p) ==
    /\ pc[p] = "remove"
    /\ temp' = None
    /\ Goto(p, "failed")
    /\ UNCHANGED <<levels, target, content, mode, localVars, harm>>

\* Somebody removes by hand what a run that has ended left behind.
RemoveLeftover ==
    /\ temp \in Runs /\ pc[temp] \in Ended
    /\ temp' = None
    /\ UNCHANGED <<levels, target, content, mode, pc, localVars, harm>>

-----------------------------------------------------------------------------

Step(p) ==
    \/ Source(p) \/ Ancestor(p) \/ MakeDirectory(p) \/ ExistingDirectory(p)
    \/ WritableInventory(p) \/ CheckInventory(p) \/ FinalInventory(p) \/ Optional(p)
    \/ Lstat(p) \/ Open(p) \/ Fstat(p) \/ ReadBytes(p)
    \/ PathMissing(p) \/ CreateTemporary(p) \/ RecordIdentity(p) \/ WritePiece(p)
    \/ AssertIdentity(p) \/ Rename(p) \/ Cleanup(p) \/ RemoveTemporary(p)

Next == RemoveLeftover \/ \E p \in Runs : Step(p) \/ IOError(p) \/ Kill(p)

Spec == Init /\ [][Next]_vars

-----------------------------------------------------------------------------
(* Properties *)

TypeOK ==
    /\ levels \in 0 .. Levels
    /\ target \in Runs \cup {Initial, None} /\ temp \in Runs \cup {Stale, None}
    /\ content \in [Inodes -> Contents]
    /\ depth \in [Runs -> 0 .. Levels]
    /\ created \in [Runs -> BOOLEAN]
    /\ identity \in [Runs -> Inodes \cup {None}] /\ handle \in [Runs -> Inodes \cup {None}]

\* The artifact is replaced as a whole: what a run put under its name is complete,
\* although runs are killed in the middle and others write at the same time.
ArtifactWhole == target \in Runs => content[target] = "expected"

\* A temporary file that is left over is explained: its run was killed, could not
\* stat what it had just created, or met an error while it cleaned up.
LeftoverExplained ==
    temp \in Runs /\ pc[temp] \in Ended =>
        \/ harm[temp] \in {"killed", "cleanup"}
        \/ harm[temp] = "error" /\ identity[temp] = None

\* What the output directory holds (generate-openapi.mjs 138-246).
OutputInv == TypeOK /\ ArtifactWhole /\ LeftoverExplained

\* Exit code 0, of --write and of --check, is true from then on: the artifact is
\* there with the expected bytes, whatever runs go on or begin.
PassIsExact ==
    \A p \in Runs : pc[p] = "pass" => target # None /\ content[target] = "expected"

\* Runs that race do not all lose: if one of them writes, none is harmed, and the
\* directory was usable, then when all have ended one --write has passed.  Each may
\* refuse because of another's directory, temporary file or replacement; there is
\* always one that is not refused.
SomeWriterPasses ==
    /\ \A p \in Runs : pc[p] \in {"pass", "failed"} /\ harm[p] = "none"
    /\ \E p \in Runs : mode[p] = "--write"
    /\ temp # Stale
    /\ target = Initial => content[Initial] \notin {"oversize", "linked"}
    => \E p \in Runs : mode[p] = "--write" /\ pc[p] = "pass"
=============================================================================

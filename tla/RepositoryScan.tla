--------------------------- MODULE RepositoryScan ---------------------------
(***************************************************************************)
(* From the lockfile to the verdicts: prepareInputs, runOsvVulnerability-  *)
(* Gate and runOsvLicenseGate of scripts/supply-chain/run.mjs, with the    *)
(* reader of PnpmLock and the evaluators of PolicyVerdicts.  What          *)
(* SupplyChainGate leaves to a set of codes is computed here.              *)
(*                                                                         *)
(* osv-scanner is external: whatever it reports, element by element, is    *)
(* judged.  What it cannot do is read a file that is not YAML.             *)
(***************************************************************************)
EXTENDS PnpmLock, PolicyVerdicts

CONSTANTS
    DocumentCounts,  \* policies: expectedDocumentCount
    GoInventories,   \* third-party modules of go.mod, as [name, version] sequences
    GoVersions,      \* function: Go versions -> without the prefix v
    Thresholds,      \* policies: minimumBlockingCvss
    AllowLists,      \* policies: licenses.allowed
    VulnerabilityItems, LicenseItems,   \* items a report may have
    ItemWeight(_),   \* what an item counts for that bound
    MaxWeight        \* bound: elements of a report

\* A locator's version has lost its peer suffix, and go.mod has versions of Go.  The
\* members of an item are what the evaluators take them for.
ASSUME ScanAssumption ==
    /\ \A k \in DOMAIN Locators :
        LET v == Locators[k].version IN v \in DOMAIN NpmVersions /\ NpmVersions[v] = v
    /\ \A modules \in GoInventories : modules \in Seq([name : STRING, version : DOMAIN GoVersions])
    /\ Thresholds \subseteq Nat
    /\ \A allowed \in AllowLists : allowed \in Seq(STRING)
    /\ \A item \in VulnerabilityItems \cup LicenseItems :
        /\ item.vulnerabilities \in Seq(STRING)
        /\ item.groups \in Seq([ids : Seq(STRING), severity : Nat])
        /\ item.outer \in Seq(STRING) /\ item.nested \in Seq(STRING)

VARIABLES
    stage,     \* where the gate is
    inputs,    \* documentInputs: the packages of each document
    goModules, \* goInventory
    physical,  \* what the lockfile holds, read as a tree; FALSE if it is not YAML
    report,    \* results of the scanner that is running
    verdict    \* the code of the stage judged last

scanVars == <<stage, inputs, goModules, physical, report, verdict>>
vars == <<lockVars, scanVars>>

GoSource == 0
Unexpected == 99
Sources == (1 .. Len(inputs)) \cup {GoSource, Unexpected}

Init ==
    /\ LockInit
    /\ stage = "lock" /\ inputs = <<>> /\ goModules = <<>> /\ physical = <<>>
    /\ report = <<>> /\ verdict = "none"

-----------------------------------------------------------------------------
(* prepareInputs *)

ReadLock == stage = "lock" /\ LockNext /\ UNCHANGED scanVars

\* The packages of document d, in order, without their peers.
PackagesOf(doc) == MapSeq(doc.packages, LAMBDA key : Locators[key])

\* How many packages of each name and version a piece of the file has.
TreeMultiset(p) ==
    [x \in {Locators[k] : k \in KeysOf(p, p.tree.packages)} |->
        Cardinality({k \in KeysOf(p, p.tree.packages) : Locators[k] = x})]

Throw(code) ==
    /\ stage' = "ended" /\ verdict' = code
    /\ UNCHANGED <<inputs, goModules, physical, report>>

\* The variables of the reader are gone when it has returned.
Forget ==
    /\ status' = "returned"
    /\ text' = <<>> /\ documents' = <<>> /\ current' = <<>> /\ sawSeparator' = FALSE
    /\ seenKeys' = {} /\ section' = NoSection
    /\ packages' = <<>> /\ importers' = NoImporter /\ direct' = <<>>
    /\ scopeCounts' = emptyScopeCounts

InputsAccepted(n) ==
    /\ status = "read"
    /\ Len(documents) = n
    /\ \A i \in DOMAIN documents : documents[i].counts["unknown"] = 0

PrepareInputs ==
    /\ stage = "lock" /\ status \in {"read", "refused"}
    /\ \E n \in DocumentCounts :
        \/ /\ InputsAccepted(n)
           /\ inputs' = MapSeq(documents, PackagesOf)
           /\ \E modules \in GoInventories : goModules' = modules
           /\ LET pieces == Pieces(text)
                  Nth(i) == CHOOSE p \in pieces :
                                Cardinality({q \in pieces : q.at < p.at}) = i - 1
              IN  physical' = IF \A p \in pieces : Yaml(p)
                              THEN [i \in 1 .. Cardinality(pieces) |-> TreeMultiset(Nth(i))]
                              ELSE <<>>
           /\ stage' = "vulnerability"
           /\ UNCHANGED <<report, verdict>>
        \/ ~InputsAccepted(n) /\ Throw("CONTRACT")
    /\ Forget

-----------------------------------------------------------------------------
(* The scanner *)

\* combinedExpectedInventory: the npm documents, and the Go modules if there are any.
NpmIdentity(p) ==
    [ecosystem |-> "npm", name |-> p.name, version |-> p.version, scope |-> "unknown"]
GoIdentity(m) ==
    [ecosystem |-> "Go", name |-> m.name, version |-> GoVersions[m.version], scope |-> "unknown"]
combinedExpectedInventory ==
    [s \in (1 .. Len(inputs)) \cup (IF goModules = <<>> THEN {} ELSE {GoSource}) |->
        IF s = GoSource THEN MapSeq(goModules, GoIdentity) ELSE MapSeq(inputs[s], NpmIdentity)]

Scanning == stage \in {"vulnerability", "license"} /\ physical # <<>>

\* Bound: a report goes on only while no source or package is too many in it; what
\* follows such a defect changes no verdict.
Promising ==
    /\ AllDiffer(MapSeq(report, LAMBDA r : r.source))
    /\ \A i \in DOMAIN report :
        /\ report[i].source \in DOMAIN combinedExpectedInventory
        /\ LET found == MapSeq(report[i].packages, packageIdentity)
           IN  \A x \in ToSet(found) :
                  Count(found, x) <= Count(combinedExpectedInventory[report[i].source], x)

Weight(r) ==
    FoldLeft(LAMBDA w, item : w + ItemWeight(item), Len(r),
             FlattenSeq(MapSeq(r, LAMBDA x : x.packages)))

\* The items by their weight.
ItemsOfWeight ==
    [vulnerability |-> [w \in 1 .. MaxWeight |-> {x \in VulnerabilityItems : ItemWeight(x) = w}],
     license |-> [w \in 1 .. MaxWeight |-> {x \in LicenseItems : ItemWeight(x) = w}]]

ReportSource ==
    /\ Scanning /\ Promising /\ Weight(report) < MaxWeight
    /\ \E s \in Sources : report' = Append(report, [source |-> s, packages |-> <<>>])
    /\ UNCHANGED <<lockVars, stage, inputs, goModules, physical, verdict>>

ReportItem ==
    /\ Scanning /\ Promising /\ report # <<>>
    /\ \E w \in 1 .. MaxWeight :
        /\ w <= MaxWeight - Weight(report)
        /\ \E item \in ItemsOfWeight[stage][w] :
            report' = [report EXCEPT ![Len(report)] =
                          [source |-> @.source, packages |-> Append(@.packages, item)]]
    /\ UNCHANGED <<lockVars, stage, inputs, goModules, physical, verdict>>

-----------------------------------------------------------------------------
(* The verdict *)

\* How the scanner ends.  One that cannot read its input has another code.
Exits == IF physical = <<>> THEN {127} ELSE {0, 1, 127}

\* What runOsvVulnerabilityGate and runOsvLicenseGate check before the evaluator.
\* covered: assertOsvExtractionCoverage found one line of stderr for each source,
\* with the number of its packages.
GateVerdict(exit, covered, evaluated) ==
    IF ~ControlledExit(exit) THEN "INTERNAL"
    ELSE IF ~covered \/ ~SourceInventoryParity(inputs, report, NpmResults(report))
         THEN "CONTRACT" ELSE evaluated

VulnerabilityVerdict(exit, covered, threshold) ==
    GateVerdict(exit, covered,
        evaluateOsvVulnerabilities(report, exit, combinedExpectedInventory, threshold))

LicenseVerdict(exit, covered, allowed) ==
    GateVerdict(exit, covered,
        evaluateOsvLicenses(report, exit, combinedExpectedInventory, allowed))

\* requireVerdict: only a PASS leads to the next scan.
RequireVerdict(next) ==
    /\ stage' = IF verdict' = "PASS" THEN next ELSE "ended"
    /\ report' = <<>>
    /\ UNCHANGED <<lockVars, inputs, goModules, physical>>

JudgeVulnerabilities ==
    /\ stage = "vulnerability"
    /\ \E exit \in Exits, covered \in BOOLEAN, t \in Thresholds :
        verdict' = VulnerabilityVerdict(exit, covered, t)
    /\ RequireVerdict("license")

JudgeLicenses ==
    /\ stage = "license"
    /\ \E exit \in Exits, covered \in BOOLEAN, a \in AllowLists :
        verdict' = LicenseVerdict(exit, covered, a)
    /\ RequireVerdict("ended")

Next ==
    \/ ReadLock \/ PrepareInputs \/ ReportSource \/ ReportItem
    \/ JudgeVulnerabilities \/ JudgeLicenses

Spec == Init /\ [][Next]_vars

-----------------------------------------------------------------------------
(* What a report should be: the reference *)

\* How often each package is in a source: in a document of the lockfile as the tree
\* has it, in go.mod as it was resolved.
Holds(s) ==
    IF s = GoSource
    THEN [x \in {GoIdentity(m) : m \in ToSet(goModules)} |->
             Cardinality({i \in DOMAIN goModules : GoIdentity(goModules[i]) = x})]
    ELSE [x \in {NpmIdentity(p) : p \in DOMAIN physical[s]} |->
             physical[s][[name |-> x.name, version |-> x.version]]]

SourcesHeld == (1 .. Len(physical)) \cup (IF goModules = <<>> THEN {} ELSE {GoSource})

\* Each source once, each of its packages as often as it is there, nothing else.
Faithful ==
    /\ Len(report) = Cardinality(SourcesHeld)
    /\ {report[i].source : i \in DOMAIN report} = SourcesHeld
    /\ \A i \in DOMAIN report :
        LET found == MapSeq(report[i].packages, packageIdentity)
        IN  [x \in ToSet(found) |-> Count(found, x)] = Holds(report[i].source)
    /\ \A item \in Items(report) :
        {item.packageScope, item.itemScope} \subseteq {Absent, "unknown"}

Advisories(item) == ToSet(item.vulnerabilities)
Ids(group) == ToSet(group.ids)

\* The groups are a partition of the advisories, each with a CVSS score.
Grouped(item) ==
    /\ Cardinality(Advisories(item)) = Len(item.vulnerabilities)
    /\ \A g \in DOMAIN item.groups :
        /\ item.groups[g].severity \in 0 .. 100
        /\ Ids(item.groups[g]) # {} /\ Ids(item.groups[g]) \subseteq Advisories(item)
        /\ Cardinality(Ids(item.groups[g])) = Len(item.groups[g].ids)
    /\ \A v \in Advisories(item) :
        Cardinality({g \in DOMAIN item.groups : v \in Ids(item.groups[g])}) = 1

\* The advisories of an item whose score is at or above the threshold.
Blocking(item, threshold) ==
    {v \in Advisories(item) :
        \E g \in DOMAIN item.groups :
            v \in Ids(item.groups[g]) /\ item.groups[g].severity >= threshold}

\* The licenses an item is found to have, wherever they stand.
Licenses(item) == UNION {ToSet(a) : a \in {item.outer, item.nested} \ {NoArray}}
Licensed(item) ==
    /\ Cardinality({item.outer, item.nested} \ {NoArray}) = 1
    /\ Untrimmed \notin Licenses(item)
    /\ Cardinality(Advisories(item)) = Len(item.vulnerabilities)

-----------------------------------------------------------------------------
(* Properties *)

TypeOK ==
    /\ LockTypeOK
    /\ stage \in {"lock", "vulnerability", "license", "ended"}
    /\ verdict \in {"none", "PASS", "FINDING", "CONTRACT", "INTERNAL"}

\* The state of the scan, and an inventory that is the lockfile's (inventory.mjs 24-580).
ScanInv == TypeOK /\ InventoryExact

\* The verdict on a vulnerability report, for every report: INTERNAL if the scanner
\* failed, CONTRACT unless the report accounts for every package of the lockfile,
\* read as a tree, and of go.mod, as often as it is there, gives each advisory one
\* score and agrees with the raw exit; and then FINDING exactly if an advisory of some
\* package reaches the threshold (policy.mjs 128-183 and all it calls).
VulnerabilityVerdictExact ==
    stage = "vulnerability" /\ Scanning =>
        LET found == \E item \in Items(report) : Advisories(item) # {}
            sound == Faithful /\ \A item \in Items(report) : Grouped(item)
            Blocked(t) == \E item \in Items(report) : Blocking(item, t) # {}
        IN  \A exit \in Exits, covered \in BOOLEAN, t \in Thresholds :
                VulnerabilityVerdict(exit, covered, t) =
                    IF exit \notin {0, 1} THEN "INTERNAL"
                    ELSE IF ~(covered /\ t \in 1 .. 70 /\ sound /\ (exit = 1 <=> found))
                         THEN "CONTRACT"
                    ELSE IF Blocked(t) THEN "FINDING" ELSE "PASS"

\* The verdict on a license report, for every report: it passes exactly if the
\* inventory is the lockfile's and every package has at least one license and only
\* allowed ones, wherever the scanner wrote them; advisories change nothing but the
\* raw exit that must go with the report (policy.mjs 185-266 and all it calls).
LicenseVerdictExact ==
    stage = "license" =>
        LET advised == \E item \in Items(report) : Advisories(item) # {}
            sound == Faithful /\ \A item \in Items(report) : Licensed(item)
            Denied(a) == \E item \in Items(report) :
                            Licenses(item) = {} \/ ~(Licenses(item) \subseteq ToSet(a))
            Usable(a) ==
                /\ a # <<>> /\ Cardinality(ToSet(a)) = Len(a)
                /\ ToSet(a) \cap (UnknownLicenses \cup {Untrimmed}) = {}
        IN  \A exit \in Exits, covered \in BOOLEAN, a \in AllowLists :
                LicenseVerdict(exit, covered, a) =
                    IF exit \notin {0, 1} THEN "INTERNAL"
                    ELSE IF ~(covered /\ Usable(a) /\ sound /\ (exit = 1 <=> advised \/ Denied(a)))
                         THEN "CONTRACT"
                    ELSE IF Denied(a) THEN "FINDING" ELSE "PASS"
=============================================================================

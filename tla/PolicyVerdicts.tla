--------------------------- MODULE PolicyVerdicts ---------------------------
(***************************************************************************)
(* How scripts/supply-chain/policy.mjs judges a report of osv-scanner, and *)
(* the parity check of inventory.mjs that run.mjs makes first.             *)
(*                                                                         *)
(* A report is the sequence of its results.  A result names its source and *)
(* lists items; an item has a package, advisories, groups of advisories    *)
(* with one severity each, and licenses.  A member the scanner may omit is *)
(* Absent.  Severities and thresholds are in tenths, as CVSS has them.     *)
(*                                                                         *)
(* Members of the wrong JSON type, and text that is not JSON, are left     *)
(* out: requireRecord and its like end them in CONTRACT.  One does not get *)
(* there: of a report whose results are missing or no array,               *)
(* assertNpmParity takes .filter, a TypeError that ends a gate in INTERNAL.*)
(***************************************************************************)
EXTENDS Naturals, Sequences, FiniteSets, SequencesExt

CONSTANTS
    NpmVersions   \* function: npm versions as written -> without the peer suffix

Absent == "undefined"
NoArray == <<Absent>>     \* the same where an array is expected

\* An item as osv-scanner writes it for a package without anything to say of it.
Plain(ecosystem, name, version) ==
    [ecosystem |-> ecosystem, name |-> name, version |-> version,
     packageScope |-> Absent, itemScope |-> Absent,
     vulnerabilities |-> <<>>, groups |-> <<>>, outer |-> NoArray, nested |-> NoArray]

MapSeq(s, Op(_)) == [i \in DOMAIN s |-> Op(s[i])]
Count(s, x) == Cardinality({i \in DOMAIN s : s[i] = x})
AllDiffer(s) == \A i, j \in DOMAIN s : s[i] = s[j] => i = j

-----------------------------------------------------------------------------
(* The raw exit of a scanner *)

\* requireRawExit of run.mjs and scannerControlResult: anything but 0 and 1 is a
\* failure of the scanner, not an answer.
ControlledExit(exit) == exit \in {0, 1}

\* assertRawFindingConsistency
RawFindingConsistent(exit, found) == (exit = 0 => ~found) /\ (exit = 1 => found)

-----------------------------------------------------------------------------
(* inventory.mjs: the npm part of the report against the lockfile *)

toMultiset(s) == [k \in ToSet(s) |-> Count(s, k)]

multisetDifference(left, right) ==
    {k \in DOMAIN left : left[k] > (IF k \in DOMAIN right THEN right[k] ELSE 0)}

\* normalizeInventoryPackage
NpmItem(item) == item.ecosystem = "npm" /\ item.version \in DOMAIN NpmVersions
NpmPackage(item) == [name |-> item.name, version |-> NpmVersions[item.version]]

\* assertNpmParity of run.mjs: a result is npm's if its first package is.
NpmResults(report) ==
    {i \in DOMAIN report : report[i].packages # <<>> /\ report[i].packages[1].ecosystem = "npm"}

\* assertOsvSourceInventoryParity for the results R of a report and for expected, a
\* function from sources to packages.
SourceInventoryParity(expected, report, R) ==
    /\ \A i, j \in R : report[i].source = report[j].source => i = j
    /\ \A i \in R : \A j \in DOMAIN report[i].packages : NpmItem(report[i].packages[j])
    /\ {report[i].source : i \in R} = DOMAIN expected
    /\ \A i \in R :
          LET actual == toMultiset(MapSeq(report[i].packages, NpmPackage))
              wanted == toMultiset(expected[report[i].source])
          IN  multisetDifference(wanted, actual) = {} /\ multisetDifference(actual, wanted) = {}

-----------------------------------------------------------------------------
(* policy.mjs: the whole report against the expected inventory *)

PackageScopes == {"production", "development", "optional", "peer", "unknown"}

\* packageIdentity: the scope may stand in two places.
rawScope(item) ==
    IF item.packageScope # Absent THEN item.packageScope
    ELSE IF item.itemScope # Absent THEN item.itemScope ELSE "unknown"
IdentityAccepted(item) ==
    /\ Absent \in {item.packageScope, item.itemScope} \/ item.packageScope = item.itemScope
    /\ rawScope(item) \in PackageScopes
packageIdentity(item) ==
    [ecosystem |-> item.ecosystem, name |-> item.name, version |-> item.version,
     scope |-> rawScope(item)]

\* compareMultisets
SameMultiset(actual, expected) ==
    \A k \in ToSet(actual) \cup ToSet(expected) : Count(actual, k) = Count(expected, k)

\* validateInventoryParity
InventoryParity(report, expected) ==
    /\ AllDiffer(MapSeq(report, LAMBDA r : r.source))
    /\ \A i \in DOMAIN report : \A j \in DOMAIN report[i].packages :
          IdentityAccepted(report[i].packages[j])
    /\ DOMAIN expected # {}
    /\ {report[i].source : i \in DOMAIN report} = DOMAIN expected
    /\ \A i \in DOMAIN report :
          SameMultiset(MapSeq(report[i].packages, packageIdentity), expected[report[i].source])

\* entries of validateInventoryParity: every item of every result.
Items(report) == UNION {ToSet(report[i].packages) : i \in DOMAIN report}

-----------------------------------------------------------------------------
(* Vulnerabilities *)

MaxThreshold == 70
vulnerabilityThreshold(t) == 0 < t /\ t <= MaxThreshold
numericSeverity(s) == s <= 100

\* rawVulnerabilityIds
VulnerabilitiesAccepted(item) == AllDiffer(item.vulnerabilities)

\* Where the groups name an advisory: the group, and the place in its ids.
Mapped(item) == UNION {{g} \X DOMAIN item.groups[g].ids : g \in DOMAIN item.groups}
MappedId(item, m) == item.groups[m[1]].ids[m[2]]
mappedIds(item) == {MappedId(item, m) : m \in Mapped(item)}

\* Mutant of GroupsAccepted: an advisory without a group has no severity.
GroupsAcceptedUnmapped(item) ==
    /\ VulnerabilitiesAccepted(item)
    /\ \A g \in DOMAIN item.groups :
          item.groups[g].ids # <<>> /\ numericSeverity(item.groups[g].severity)
    /\ \A m, n \in Mapped(item) : MappedId(item, m) = MappedId(item, n) => m = n
    /\ mappedIds(item) \subseteq ToSet(item.vulnerabilities)

\* validateVulnerabilityGroups: each advisory is mapped, once, by a group of known ones.
GroupsAccepted(item) ==
    /\ VulnerabilitiesAccepted(item)
    /\ \A g \in DOMAIN item.groups :
          item.groups[g].ids # <<>> /\ numericSeverity(item.groups[g].severity)
    /\ \A m, n \in Mapped(item) : MappedId(item, m) = MappedId(item, n) => m = n
    /\ mappedIds(item) = ToSet(item.vulnerabilities)

\* Math.max(...scores) >= threshold
Severe(item, threshold) ==
    \E i \in DOMAIN item.groups : item.groups[i].severity >= threshold

evaluateOsvVulnerabilities(report, exit, expected, threshold) ==
    IF ~ControlledExit(exit) THEN "INTERNAL"
    ELSE IF \/ ~vulnerabilityThreshold(threshold)
            \/ ~InventoryParity(report, expected)
            \/ \E item \in Items(report) : ~GroupsAccepted(item)
            \/ ~RawFindingConsistent(exit,
                    \E item \in Items(report) : item.vulnerabilities # <<>>)
         THEN "CONTRACT"
    ELSE IF \E item \in Items(report) : Severe(item, threshold) THEN "FINDING" ELSE "PASS"

-----------------------------------------------------------------------------
(* Licenses *)

UnknownLicenses == {"UNKNOWN", "NOASSERTION", "NONE"}
Untrimmed == " MIT"       \* a license with blanks around it

\* allowedSpdxSet
PolicyAccepted(allowed) ==
    /\ allowed # <<>> /\ AllDiffer(allowed)
    /\ ToSet(allowed) \cap (UnknownLicenses \cup {Untrimmed}) = {}

\* licenseArray: the licenses may stand in two places.
LicensesAccepted(item) ==
    /\ {item.outer, item.nested} # {NoArray}
    /\ NoArray \in {item.outer, item.nested} \/ item.outer = item.nested
licenseArray(item) == IF item.outer # NoArray THEN item.outer ELSE item.nested

\* Mutant of LicenseFound: a package without licenses has none that is denied.
LicenseFoundAmong(item, allowed) ==
    \E i \in DOMAIN licenseArray(item) : licenseArray(item)[i] \notin ToSet(allowed)

\* An empty array, an unknown license and one that is not allowed are findings.
LicenseFound(item, allowed) ==
    \/ licenseArray(item) = <<>>
    \/ \E i \in DOMAIN licenseArray(item) :
          licenseArray(item)[i] \in UnknownLicenses \/ licenseArray(item)[i] \notin ToSet(allowed)

evaluateOsvLicenses(report, exit, expected, allowed) ==
    IF ~ControlledExit(exit) THEN "INTERNAL"
    ELSE IF \/ ~PolicyAccepted(allowed)
            \/ ~InventoryParity(report, expected)
            \/ \E item \in Items(report) :
                  \/ ~VulnerabilitiesAccepted(item)
                  \/ ~LicensesAccepted(item)
                  \/ Untrimmed \in ToSet(licenseArray(item))
            \/ ~RawFindingConsistent(exit,
                    \E item \in Items(report) :
                        item.vulnerabilities # <<>> \/ LicenseFound(item, allowed))
         THEN "CONTRACT"
    ELSE IF \E item \in Items(report) : LicenseFound(item, allowed) THEN "FINDING" ELSE "PASS"
=============================================================================

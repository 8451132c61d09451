-------------------------- MODULE MCRepositoryScan --------------------------
(***************************************************************************)
(* The instance of RepositoryScan: three kinds of files (headers in every  *)
(* order, importers in depth, several documents), and every report of the  *)
(* bounded weight over one npm package, one Go module and two advisories.  *)
(***************************************************************************)
EXTENDS RepositoryScan, TLC

MCLocators == [k \in {"a@1", "a@1(b)"} |-> [name |-> "a", version |-> "1"]]
MCNames == {"x", "y"}
MCNpmVersions == [v \in {"1", "1(b)"} |-> "1"]
MCGoVersions == [v \in {"v1"} |-> "1"]
MCGoInventories == {<<>>, <<[name |-> "m", version |-> "v1"]>>}
MCAllowLists == {<<"MIT">>, <<"MIT", "MIT">>, <<"MIT", "NONE">>}

Version == Entry(0, "lockfileVersion", "9.0")
Packages == Entry(0, "packages", "block")
Importers == Entry(0, "importers", "block")
A == Entry(2, "a@1", "block")
AB == Entry(2, "a@1(b)", "block")

Structure ==
    {Version, Packages, Importers, A, Entry(0, "lockfileVersion", "scalar"),
     Entry(0, "importers", "{}"), Entry(0, "settings", "block"), Entry(0, NotAMapping, "block"),
     Entry(2, "a@1", "{}"), Entry(2, "p", "block"), Entry(3, "p", "block"),
     Entry(4, "dependencies", "block"), Entry(6, "x", "block"),
     Other("blank"), Other("comment"), Other("separator"), Other("tab"),
     Other("looseSeparator")}

Dependencies ==
    {Entry(2, "p", "block"), Entry(2, "q", "block"), Entry(2, "q", "{}"),
     Entry(4, "dependencies", "block"), Entry(4, "devDependencies", "{}"),
     Entry(4, "extra", "block"), Entry(6, "x", "block"), Entry(6, "y", "scalar"),
     Entry(6, NotAMapping, "block"), Entry(8, "x", "scalar"), Entry(0, "settings", "block")}

Documents ==
    {Version, Packages, A, AB, Other("separator"), Other("blank"), Other("comment")}

MCFiles ==
    {[opening |-> <<>>, lines |-> Structure, tail |-> 3],
     [opening |-> <<Version, Packages, A, Importers>>, lines |-> Dependencies, tail |-> 5],
     [opening |-> <<Version, Packages, A>>, lines |-> Documents, tail |-> 5]}

-----------------------------------------------------------------------------
IdSet == {"v1", "v2"}
Upto(S, n) == UNION {[1 .. k -> S] : k \in 0 .. n}
Groups == [ids : Upto(IdSet, 2), severity : {69, 70, 101}]

MCItemWeight(item) ==
    Max({1, Len(item.vulnerabilities)}) + Len(item.groups)
      + Cardinality({item.packageScope, item.itemScope} \ {Absent})
      + (IF item.version = "1" THEN 0 ELSE 1)
      + (IF item.nested = NoArray /\ item.outer \in {NoArray, <<"MIT">>} THEN 0 ELSE 1)

Named ==
    {Plain("npm", "a", "1"), Plain("npm", "a", "1(b)"), Plain("Go", "m", "1")}
    \cup {[Plain("npm", "a", "1") EXCEPT !.packageScope = s[1], !.itemScope = s[2]] :
            s \in {<<"unknown", Absent>>, <<Absent, "development">>, <<"unknown", "development">>}}

MCVulnerabilityItems ==
    Named \cup {[Plain("npm", "a", "1") EXCEPT !.vulnerabilities = v, !.groups = g] :
                   v \in Upto(IdSet, 2), g \in Upto(Groups, 2)}

Arrays == {NoArray, <<>>, <<"MIT">>, <<"GPL">>, <<"NONE">>, <<Untrimmed>>, <<"MIT", "GPL">>}

MCLicenseItems ==
    {[item EXCEPT !.outer = <<"MIT">>] : item \in Named}
    \cup {[Plain("npm", "a", "1") EXCEPT !.vulnerabilities = v, !.outer = o, !.nested = n] :
             v \in {<<>>, <<"v1">>, <<"v1", "v1">>}, o \in Arrays, n \in Arrays}
=============================================================================

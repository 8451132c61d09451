------------------------------ MODULE PnpmLock ------------------------------
(***************************************************************************)
(* parsePnpmLockInventory of scripts/supply-chain/inventory.mjs: the       *)
(* reader that turns pnpm-lock.yaml into the inventory the scanners are    *)
(* held to.  It has no YAML parser: it looks at one line at a time, at its *)
(* indentation, and carries where it is in a handful of loop variables.    *)
(*                                                                         *)
(* A line is a record of what the reader looks at: its kind, indentation,  *)
(* key and value.  How a key is quoted and which characters a package name *)
(* may have is left out: a key either is a locator (in DOMAIN Locators), a *)
(* package name (in Names), some other word, or NotAMapping.               *)
(*                                                                         *)
(* The code makes four passes (documents, top-level keys, packages,        *)
(* importers), each line by line, and each refuses the whole file.  Here a *)
(* line goes through all passes at once, so that only the name of the      *)
(* first of several defects is lost.                                       *)
(***************************************************************************)
EXTENDS Naturals, Sequences, FiniteSets, FiniteSetsExt, SequencesExt

CONSTANTS
    Locators,     \* function: package keys -> [name, version]; peers are dropped
    Names,        \* keys that are npm package names
    Files         \* the files read: an opening, then up to tail of the lines

VARIABLES
    text,         \* the lines read
    status,       \* "reading", "refused", "read", or "returned" to the caller
    documents,    \* documents finished: body, packages, directDependencies
    current,      \* lines of the document being read
    sawSeparator,
    seenKeys,     \* top-level keys of this document
    section,      \* the top-level entry the next lines belong to
    packages,     \* keys of its packages section, in order
    importers,    \* the loop variables of parseImporterSection
    direct,       \* directDependencies of this document
    scopeCounts   \* dependencies per scope

documentVars == <<seenKeys, section, packages, importers, direct, scopeCounts>>
lockVars == <<text, status, documents, current, sawSeparator, documentVars>>

-----------------------------------------------------------------------------
(* Lines *)

\* DIRECT_SCOPE_NAMES, as far as the instance has them, and what is no scope.
DirectScopes == {"dependencies", "devDependencies", "optionalDependencies",
                 "peerDependencies", "configDependencies", "packageManagerDependencies"}
Scopes == DirectScopes \cup {"unknown"}

NotAMapping == "?"       \* parseMappingEntry finds no key
None == "none"           \* null

Entry(indent, key, value) ==
    [kind |-> "entry", indent |-> indent, key |-> key, value |-> value]
Other(kind) == [kind |-> kind, indent |-> 0, key |-> None, value |-> None]

\* The values the reader tells apart: nothing, {}, the expected lockfileVersion, another.
Values == {"block", "{}", "9.0", "scalar"}

\* parseMappingEntry and the readers of quoted keys find a key.
IsMapping(l) == l.key # NotAMapping

\* A line indented with a tab and with text behind it.  A tab on a line of blanks
\* only is left out: it is refused inside a document and trimmed at its edges.
rejectTabIndentation(l) == l.kind = "tab"
Blank(l) == l.kind = "blank"
isBlankOrComment(l) == l.kind \in {"blank", "comment"}
Content(l) == l.kind = "entry"

\* trimBlankLines
Trim(s) ==
    LET kept == {i \in DOMAIN s : ~Blank(s[i])}
    IN  IF kept = {} THEN <<>> ELSE SubSeq(s, Min(kept), Max(kept))

-----------------------------------------------------------------------------
(* The state at the start of a document and of its importers *)

NoSection == [key |-> None, value |-> None]

NoImporter ==
    [importer |-> None, open |-> FALSE, seen |-> {},
     section |-> None, sectionOpen |-> FALSE, seenSections |-> {}, seenDependencies |-> {},
     dependency |-> None, dependencyOpen |-> FALSE]

emptyScopeCounts == [s \in Scopes |-> 0]

LockInit ==
    /\ text = <<>> /\ status = "reading"
    /\ documents = <<>> /\ current = <<>> /\ sawSeparator = FALSE
    /\ seenKeys = {} /\ section = NoSection
    /\ packages = <<>> /\ importers = NoImporter /\ direct = <<>>
    /\ scopeCounts = emptyScopeCounts

-----------------------------------------------------------------------------
(* Reading *)

\* The files of the instance.
Lines == UNION {Range(f.opening) \cup f.lines : f \in Files}

\* A line has an indentation; only an entry has a value, and its key is not null.  A
\* text without a key is neither a locator nor the name of a package.
ASSUME LockAssumption ==
    /\ \A l \in Lines :
        /\ l.indent \in Nat
        /\ l.kind = "entry" => l.key # None /\ l.value \in Values
        /\ l.kind # "entry" => l.indent = 0
    /\ NotAMapping \notin Names \cup DOMAIN Locators
    /\ \A k \in DOMAIN Locators :
        Locators[k] = [name |-> Locators[k].name, version |-> Locators[k].version]
Readable(s) ==
    \E f \in Files :
        \/ IsPrefix(s, f.opening)
        \/ /\ IsPrefix(f.opening, s)
           /\ Len(s) <= Len(f.opening) + f.tail
           /\ \A i \in (Len(f.opening) + 1) .. Len(s) : s[i] \in f.lines

\* A line is taken from the file.
Take(l) ==
    /\ status = "reading"
    /\ Readable(Append(text, l))
    /\ text' = Append(text, l)

\* A contractError is thrown: nothing of the file is used.
Refuse ==
    /\ status' = "refused"
    /\ UNCHANGED <<documents, current, sawSeparator, documentVars>>

\* The line becomes part of the document.
Keep(l) ==
    /\ current' = Append(current, l)
    /\ UNCHANGED <<status, documents, sawSeparator>>

\* What finalizeDocument and, at its end, parseDocument demand of a document.
Finished ==
    /\ Trim(current) # <<>>
    /\ \A i \in DOMAIN documents : documents[i].body # Trim(current)
    /\ {"lockfileVersion", "packages"} \subseteq seenKeys
    /\ packages # <<>>

Finalize ==
    /\ Finished
    /\ documents' = Append(documents, [body |-> Trim(current), packages |-> packages,
                                       direct |-> direct, counts |-> scopeCounts])
    /\ current' = <<>>
    /\ seenKeys' = {} /\ section' = NoSection
    /\ packages' = <<>> /\ importers' = NoImporter /\ direct' = <<>>
    /\ scopeCounts' = emptyScopeCounts

\* A line that is exactly ---.  The very first line may be one.
Separator(l) ==
    /\ l.kind = "separator" /\ Take(l)
    /\ \/ /\ documents = <<>> /\ ~sawSeparator /\ current = <<>>
          /\ sawSeparator' = TRUE
          /\ UNCHANGED <<status, documents, current, documentVars>>
       \/ /\ documents # <<>> \/ sawSeparator \/ current # <<>>
          /\ Finalize
          /\ sawSeparator' = TRUE
          /\ UNCHANGED status
       \/ /\ documents # <<>> \/ sawSeparator \/ current # <<>>
          /\ ~Finished
          /\ Refuse

\* --- with blanks around it, a tab or an odd number of spaces before the text.
MalformedLine(l) ==
    /\ \/ l.kind = "looseSeparator"
       \/ rejectTabIndentation(l)
       \/ Content(l) /\ l.indent % 2 # 0
    /\ Take(l) /\ Refuse

BlankOrComment(l) ==
    /\ isBlankOrComment(l)
    /\ Take(l) /\ Keep(l) /\ UNCHANGED documentVars

\* An entry of the mapping that the document is.
TopLevelAccepted(l) ==
    /\ IsMapping(l)
    /\ l.key \notin seenKeys
    /\ l.key = "lockfileVersion" => l.value = "9.0"
    /\ l.key = "packages" => l.value = "block"
    /\ l.key = "importers" => l.value \in {"block", "{}"}

TopLevelLine(l) ==
    /\ Content(l) /\ l.indent = 0 /\ Take(l)
    /\ \/ /\ TopLevelAccepted(l)
          /\ Keep(l)
          /\ seenKeys' = seenKeys \cup {l.key}
          /\ section' = [key |-> l.key, value |-> l.value]
          /\ UNCHANGED <<packages, importers, direct, scopeCounts>>
       \/ ~TopLevelAccepted(l) /\ Refuse

\* An indented line read in the named section.
Nested(l) == Content(l) /\ l.indent > 0 /\ l.indent % 2 = 0

\* A line below any other key, or before the first: nobody looks at it.
OtherSectionLine(l) ==
    /\ Nested(l) /\ section.key \notin {"packages", "importers"}
    /\ Take(l) /\ Keep(l) /\ UNCHANGED documentVars

\* parsePnpmPackageKey
IsPackageKey(key) == key \in DOMAIN Locators

\* A physical package: its locator is parsed, and no key comes twice.
PackageAccepted(l) ==
    /\ l.value = "block"
    /\ l.key \notin Range(packages)
    /\ IsPackageKey(l.key)

PackageLine(l) ==
    /\ Nested(l) /\ section.key = "packages" /\ l.indent = 2 /\ Take(l)
    /\ \/ /\ PackageAccepted(l)
          /\ Keep(l)
          /\ packages' = Append(packages, l.key)
          /\ UNCHANGED <<seenKeys, section, importers, direct, scopeCounts>>
       \/ ~PackageAccepted(l) /\ Refuse

\* What a package is made of is skipped.
PackageDetailLine(l) ==
    /\ Nested(l) /\ section.key = "packages" /\ l.indent > 2
    /\ Take(l) /\ Keep(l) /\ UNCHANGED documentVars

-----------------------------------------------------------------------------
(* parseImporterSection, by the indentation of the line *)

InImporters(l) == Nested(l) /\ section.key = "importers"

\* Mutant of StartImporter: the section of the importer before stays open.
StartImporterInSection(l) ==
    [importers EXCEPT !.importer = l.key, !.open = (l.value = "block"), !.seen = @ \cup {l.key},
                     !.seenSections = {}, !.seenDependencies = {},
                     !.dependency = None, !.dependencyOpen = FALSE]

\* A new importer forgets the section and the dependency of the one before.
StartImporter(l) ==
    [NoImporter EXCEPT !.importer = l.key, !.open = (l.value = "block"),
                       !.seen = importers.seen \cup {l.key}]

ImporterAccepted(l) ==
    /\ section.value = "block"
    /\ IsMapping(l)
    /\ l.value \in {"block", "{}"}
    /\ l.key \notin importers.seen

ImporterLine(l) ==
    /\ InImporters(l) /\ l.indent = 2 /\ Take(l)
    /\ \/ /\ ImporterAccepted(l)
          /\ Keep(l)
          /\ importers' = StartImporter(l)
          /\ UNCHANGED <<seenKeys, section, packages, direct, scopeCounts>>
       \/ ~ImporterAccepted(l) /\ Refuse

\* Every deeper line needs an importer that may have children.
BelowImporter == importers.importer # None /\ importers.open

\* A new section forgets the dependency of the one before.
StartSection(l) ==
    [importers EXCEPT !.section = l.key, !.sectionOpen = (l.value = "block"),
                     !.seenSections = @ \cup {l.key},
                     !.dependency = None, !.dependencyOpen = FALSE]

SectionAccepted(l) ==
    /\ BelowImporter
    /\ IsMapping(l)
    /\ l.value \in {"block", "{}"}
    /\ l.key \notin importers.seenSections

ImporterSectionLine(l) ==
    /\ InImporters(l) /\ l.indent = 4 /\ Take(l)
    /\ \/ /\ SectionAccepted(l)
          /\ Keep(l)
          /\ importers' = StartSection(l)
          /\ UNCHANGED <<seenKeys, section, packages, direct, scopeCounts>>
       \/ ~SectionAccepted(l) /\ Refuse

ScopeOf(s) == IF s \in DirectScopes THEN s ELSE "unknown"

StartDependency(l) ==
    [importers EXCEPT !.seenDependencies = @ \cup {<<importers.section, l.key>>},
                     !.dependency = l.key, !.dependencyOpen = (l.value = "block")]

DependencyAccepted(l) ==
    /\ BelowImporter
    /\ importers.section # None /\ importers.sectionOpen
    /\ l.key \in Names
    /\ <<importers.section, l.key>> \notin importers.seenDependencies

DependencyLine(l) ==
    /\ InImporters(l) /\ l.indent = 6 /\ Take(l)
    /\ \/ /\ DependencyAccepted(l)
          /\ Keep(l)
          /\ importers' = StartDependency(l)
          /\ direct' = Append(direct, [importer |-> importers.importer, name |-> l.key,
                                       section |-> importers.section,
                                       scope |-> ScopeOf(importers.section)])
          /\ scopeCounts' = [scopeCounts EXCEPT ![ScopeOf(importers.section)] = @ + 1]
          /\ UNCHANGED <<seenKeys, section, packages>>
       \/ ~DependencyAccepted(l) /\ Refuse

DetailAccepted ==
    BelowImporter /\ importers.dependency # None /\ importers.dependencyOpen

\* What a dependency is made of: only its place is checked.
DependencyDetailLine(l) ==
    /\ InImporters(l) /\ l.indent > 6 /\ Take(l)
    /\ \/ DetailAccepted /\ Keep(l) /\ UNCHANGED documentVars
       \/ ~DetailAccepted /\ Refuse

\* The file ends, after any line.
EndOfFile ==
    /\ status = "reading"
    /\ \/ Finalize /\ status' = "read"
       \/ ~Finished /\ status' = "refused" /\ UNCHANGED <<documents, current, documentVars>>
    /\ UNCHANGED <<text, sawSeparator>>

ReadLine ==
    \E l \in Lines :
        \/ Separator(l) \/ MalformedLine(l) \/ BlankOrComment(l)
        \/ TopLevelLine(l) \/ OtherSectionLine(l) \/ PackageLine(l) \/ PackageDetailLine(l)
        \/ ImporterLine(l) \/ ImporterSectionLine(l) \/ DependencyLine(l)
        \/ DependencyDetailLine(l)

LockNext == ReadLine \/ EndOfFile

-----------------------------------------------------------------------------
(* The same file read as the tree its indentation draws: the reference *)

Entries(d) == {i \in DOMAIN d : Content(d[i])}

\* The tree of document d.  An entry belongs to the nearest one before it that is
\* less indented, or to the document itself (0).
Tree(d) ==
    LET up == [i \in Entries(d) |->
                  Max({j \in Entries(d) : j < i /\ d[j].indent < d[i].indent} \cup {0})]
        Below(P) == {i \in Entries(d) : up[i] \in P}
        Named(key) == {i \in Below({0}) : d[i].key = key}
        sections == Below(Below(Named("importers")))
    IN  [up |-> up, top |-> Below({0}), version |-> Named("lockfileVersion"),
         packages |-> Below(Named("packages")), importers |-> Below(Named("importers")),
         sections |-> sections, dependencies |-> Below(sections),
         details |-> Below(Below(sections))]

\* The documents of a file: what lies between its separators.  The first line starts
\* one unless it is a separator itself.
Marks(file) == {i \in DOMAIN file : file[i].kind = "separator"} \cup {0, Len(file) + 1}
Later(file, m) == {n \in Marks(file) : n > m}
Starts(file) ==
    {m \in Marks(file) : m <= Len(file) /\ ~(m = 0 /\ 1 \in Marks(file) \cap DOMAIN file)}
Piece(file, m) == SubSeq(file, m + 1, Min(Later(file, m)) - 1)
Pieces(file) ==
    {[at |-> m, lines |-> Piece(file, m), tree |-> Tree(Piece(file, m))] : m \in Starts(file)}

\* The indentation is that of YAML block mappings: siblings are equally indented.
Yaml(p) ==
    \A i, j \in DOMAIN p.tree.up :
        p.tree.up[i] = p.tree.up[j] => p.lines[i].indent = p.lines[j].indent

\* The entries I have the indentation, a key and one of the values.
Shaped(p, I, indent, values) ==
    \A i \in I : /\ p.lines[i].indent = indent
                 /\ p.lines[i].key # NotAMapping
                 /\ p.lines[i].value \in values

\* No entry of I has the key of a sibling.
SiblingsDiffer(p, I) ==
    \A i, j \in I :
        i # j /\ p.tree.up[i] = p.tree.up[j] => p.lines[i].key # p.lines[j].key

KeysOf(p, I) == {p.lines[i].key : i \in I}

WellFormed(p) ==
    LET t == p.tree
    IN  /\ \A i \in DOMAIN p.lines :
              p.lines[i].kind \in {"blank", "comment", "entry"} /\ p.lines[i].indent % 2 = 0
        /\ SiblingsDiffer(p, t.top \cup t.packages \cup t.importers \cup t.sections
                              \cup t.dependencies)
        /\ t.version # {} /\ t.packages # {}
        /\ Shaped(p, t.top, 0, Values)
        /\ Shaped(p, t.version, 0, {"9.0"})
        /\ Shaped(p, {i \in t.top : p.lines[i].key = "importers"}, 0, {"block", "{}"})
        /\ Shaped(p, t.packages, 2, {"block"})
        /\ Shaped(p, t.importers, 2, {"block", "{}"})
        /\ Shaped(p, t.sections, 4, {"block", "{}"})
        /\ Shaped(p, t.dependencies, 6, Values)
        /\ KeysOf(p, t.packages) \subseteq DOMAIN Locators
        /\ KeysOf(p, t.dependencies) \subseteq Names
        /\ \A i \in t.packages \cup t.importers \cup t.sections \cup t.dependencies
                    \cup t.details : p.lines[t.up[i]].value = "block"

WellFormedFile(pieces) ==
    /\ \A p \in pieces : Trim(p.lines) # <<>> /\ WellFormed(p)
    /\ \A p, q \in pieces : p # q => Trim(p.lines) # Trim(q.lines)

\* What the inventory of a document should be.
TreeInventory(p) ==
    LET SectionKey(i) == p.lines[p.tree.up[i]].key
        ImporterKey(i) == p.lines[p.tree.up[p.tree.up[i]]].key
    IN  [body |-> Trim(p.lines),
         packages |-> KeysOf(p, p.tree.packages),
         direct |-> {[importer |-> ImporterKey(i), name |-> p.lines[i].key,
                      section |-> SectionKey(i), scope |-> ScopeOf(SectionKey(i))] :
                        i \in p.tree.dependencies},
         counts |-> [s \in Scopes |->
             Cardinality({i \in p.tree.dependencies : ScopeOf(SectionKey(i)) = s})]]

\* What the reader made of it.
Inventory(doc) ==
    [body |-> doc.body, packages |-> Range(doc.packages), direct |-> Range(doc.direct),
     counts |-> doc.counts]

-----------------------------------------------------------------------------
(* Properties *)

LockTypeOK ==
    /\ text \in Seq(Lines) /\ current \in Seq(Lines)
    /\ status \in {"reading", "refused", "read", "returned"}
    /\ \A i \in DOMAIN documents : documents[i].counts \in [Scopes -> Nat]
    /\ sawSeparator \in BOOLEAN
    /\ packages \in Seq(DOMAIN Locators)
    /\ importers.open \in BOOLEAN /\ importers.sectionOpen \in BOOLEAN
    /\ scopeCounts \in [Scopes -> Nat]

\* For every file whose indentation is YAML's, the line reader of inventory.mjs and
\* the tree agree: it accepts exactly the well-formed files, and then its documents,
\* packages, direct dependencies and counts per scope are those of the tree, though
\* it knows of the tree only what its loop variables carried from line to line.
InventoryExact ==
    LET pieces == Pieces(text)
    IN  status \in {"read", "refused"} /\ (\A p \in pieces : Yaml(p)) =>
            /\ status = "read" <=> WellFormedFile(pieces)
            /\ status = "read" =>
                /\ {Inventory(documents[i]) : i \in DOMAIN documents}
                       = {TreeInventory(p) : p \in pieces}
                /\ Len(documents) = Cardinality(pieces)
                /\ \A i \in DOMAIN documents : IsInjective(documents[i].packages)
=============================================================================

------------------------ MODULE RepositoryScanProofs ------------------------
(***************************************************************************)
(* The line reader of inventory.mjs computes the tree of every file, and   *)
(* the verdicts on every report are exact.                                 *)
(***************************************************************************)
EXTENDS RepositoryScan, FiniteSetTheorems, WellFoundedInduction, TLAPS

-----------------------------------------------------------------------------
(* What the lines of a document say, entry by entry *)

\* The entry that entry i belongs to, and the one that a next line indented by k would.
Up(d, i) == Max({j \in Entries(d) : j < i /\ d[j].indent < d[i].indent} \cup {0})
Anc(d, k) == Max({j \in Entries(d) : d[j].indent < k} \cup {0})

Tops(d) == {i \in Entries(d) : d[i].indent = 0}
Keyed(d, key) == {i \in Tops(d) : d[i].key = key}
At(d, n, P) == {i \in Entries(d) : d[i].indent = n /\ Up(d, i) \in P}
Pkgs(d) == At(d, 2, Keyed(d, "packages"))
Imps(d) == At(d, 2, Keyed(d, "importers"))
Secs(d) == At(d, 4, Imps(d))
Deps(d) == At(d, 6, Secs(d))

KeySet(d, I) == {d[i].key : i \in I}

\* No two entries of I that belong to the same entry have one key.
Distinct(d, I) ==
    \A i, j \in I : Up(d, i) = Up(d, j) /\ d[i].key = d[j].key => i = j

\* The part of WellFormed that the reader checks line by line.
Clean(d) ==
    \A i \in DOMAIN d : d[i].kind \in {"blank", "comment", "entry"} /\ d[i].indent % 2 = 0
TopsOK(d) ==
    /\ Distinct(d, Tops(d))
    /\ \A i \in Tops(d) :
        /\ d[i].key # NotAMapping
        /\ d[i].key = "lockfileVersion" => d[i].value = "9.0"
        /\ d[i].key = "packages" => d[i].value = "block"
        /\ d[i].key = "importers" => d[i].value \in {"block", "{}"}
PkgsOK(d) ==
    /\ Distinct(d, Pkgs(d))
    /\ \A i \in Pkgs(d) : d[i].value = "block" /\ d[i].key \in DOMAIN Locators
\* The entries below P are mappings with children, n deep.
LevelOK(d, P, n) ==
    /\ Distinct(d, At(d, n, P))
    /\ \A i \in Entries(d) : Up(d, i) \in P =>
        /\ d[i].indent = n /\ d[i].key # NotAMapping
        /\ d[i].value \in {"block", "{}"} /\ d[Up(d, i)].value = "block"
DepsOK(d) ==
    /\ Distinct(d, Deps(d))
    /\ \A i \in Entries(d) : Up(d, i) \in Secs(d) =>
        d[i].indent = 6 /\ d[i].key \in Names /\ d[Up(d, i)].value = "block"
DetailsOK(d) == \A i \in Entries(d) : Up(d, i) \in Deps(d) => d[Up(d, i)].value = "block"

Shape(d) ==
    /\ Clean(d) /\ TopsOK(d) /\ PkgsOK(d)
    /\ LevelOK(d, Keyed(d, "importers"), 2) /\ LevelOK(d, Imps(d), 4)
    /\ DepsOK(d) /\ DetailsOK(d)

-----------------------------------------------------------------------------
(* What the reader knows of it *)

SectionKey(d, i) == d[Up(d, i)].key
DirectAt(d, i) ==
    [importer |-> d[Up(d, Up(d, i))].key, name |-> d[i].key,
     section |-> SectionKey(d, i), scope |-> ScopeOf(SectionKey(d, i))]
DirectOf(d) == {DirectAt(d, i) : i \in Deps(d)}
InScope(d, s) == {i \in Deps(d) : ScopeOf(SectionKey(d, i)) = s}
CountsOf(d) == [s \in Scopes |-> Cardinality(InScope(d, s))]

TopState(d) ==
    /\ seenKeys = KeySet(d, Tops(d))
    /\ section = IF Anc(d, 2) = 0 THEN NoSection
                 ELSE [key |-> d[Anc(d, 2)].key, value |-> d[Anc(d, 2)].value]
PackageState(d) ==
    /\ packages \in Seq(DOMAIN Locators)
    /\ IsInjective(packages) /\ Range(packages) = KeySet(d, Pkgs(d))

\* The entry at a is the one a loop variable holds, with its flag; none if a is also
\* the one above.
Carried(d, a, above, P, key, open) ==
    \/ a = above /\ key = None /\ open = FALSE
    \/ a \in P /\ Up(d, a) = above /\ key = d[a].key /\ open = (d[a].value = "block")

ImporterFields(r) ==
    /\ r.open \in BOOLEAN /\ r.sectionOpen \in BOOLEAN
    /\ r = [k \in {"importer", "open", "seen", "section", "sectionOpen", "seenSections",
                   "seenDependencies", "dependency", "dependencyOpen"} |-> r[k]]

ImporterState(d) ==
    /\ ImporterFields(importers)
    /\ importers.seen = KeySet(d, Imps(d))
    /\ Keyed(d, "importers") = {} => importers = NoImporter
    /\ section.key = "importers" =>
        /\ Carried(d, Anc(d, 4), Anc(d, 2), Imps(d), importers.importer, importers.open)
        /\ Carried(d, Anc(d, 6), Anc(d, 4), Secs(d), importers.section, importers.sectionOpen)
        /\ Carried(d, Anc(d, 8), Anc(d, 6), Deps(d), importers.dependency,
                   importers.dependencyOpen)
        /\ importers.seenSections = {d[i].key : i \in {j \in Secs(d) : Up(d, j) = Anc(d, 4)}}
        /\ importers.seenDependencies =
            {<<SectionKey(d, i), d[i].key>> :
                i \in {j \in Deps(d) : Up(d, Up(d, j)) = Anc(d, 4)}}
DirectState(d) ==
    /\ direct \in Seq(DirectOf(d)) /\ Range(direct) = DirectOf(d)
    /\ scopeCounts = CountsOf(d)

State(d) == TopState(d) /\ PackageState(d) /\ ImporterState(d) /\ DirectState(d)

-----------------------------------------------------------------------------
(* The documents of a file *)

\* Document doc is what the lines d say.
DocumentOf(doc, d) ==
    /\ Trim(d) # <<>> /\ Shape(d)
    /\ {"lockfileVersion", "packages"} \subseteq KeySet(d, Tops(d)) /\ Pkgs(d) # {}
    /\ doc = [body |-> Trim(d), packages |-> doc.packages, direct |-> doc.direct,
              counts |-> CountsOf(d)]
    /\ doc.packages \in Seq(DOMAIN Locators)
    /\ IsInjective(doc.packages) /\ Range(doc.packages) = KeySet(d, Pkgs(d))
    /\ Range(doc.direct) = DirectOf(d)

\* The documents docs are those of file T that start at M, in order.
InOrder(docs, f, M) ==
    /\ f \in [DOMAIN docs -> M]
    /\ \A m \in M : \E i \in DOMAIN docs : f[i] = m
    /\ \A i, j \in DOMAIN docs : i < j => f[i] < f[j]
DocumentsOf(docs, T, M) ==
    /\ \E f \in [DOMAIN docs -> M] :
        InOrder(docs, f, M) /\ \A i \in DOMAIN docs : DocumentOf(docs[i], Piece(T, f[i]))
    /\ \A i, j \in DOMAIN docs : docs[i].body = docs[j].body => i = j

\* c is what comes after the last separator of T, or all of T if there is none.
AfterLast(T, c, b) ==
    /\ b \in Nat /\ b + Len(c) = Len(T) /\ \A i \in 1 .. Len(c) : c[i] = T[b + i]
    /\ \A i \in 1 .. Len(c) : c[i].kind # "separator"
    /\ b # 0 => T[b].kind = "separator"

\* Where the document being read starts.
Begun == Len(text) - Len(current)

Reading ==
    /\ AfterLast(text, current, Begun) /\ sawSeparator = (Begun # 0)
    /\ Shape(current) /\ State(current)
    /\ DocumentsOf(documents, text, {m \in Starts(text) : m < Begun})

LockInv ==
    /\ LockTypeOK /\ documents \in Seq(Range(documents))
    /\ status = "reading" => Reading
    /\ status = "read" => DocumentsOf(documents, text, Starts(text))
    /\ status = "refused" => ~WellFormedFile(Pieces(text))

-----------------------------------------------------------------------------
(* The least and the greatest of a set of numbers *)

\* A nonempty set of naturals has a least element.
LEMMA Least ==
  ASSUME NEW S \in SUBSET Nat, S # {}
  PROVE  \E m \in S : \A n \in S : m <= n
<1> DEFINE R == OpToRel(<, Nat)
<1>1. IsWellFoundedOn(R, Nat)
  BY NatLessThanWellFounded
<1>2. \A x, y \in Nat : y < x => <<y, x>> \in R
  BY DEF OpToRel
<1> HIDE DEF R
<1>3. PICK x \in S : \A y \in S : ~ (<<y, x>> \in R)
  BY <1>1, WFMin
<1>4. \A y \in S : ~ (y < x)
  BY <1>2, <1>3
<1> QED BY <1>4

\* Min and Max of a nonempty bounded set are in it and bound it.
LEMMA MinIn ==
  ASSUME NEW S \in SUBSET Nat, S # {}
  PROVE  Min(S) \in S /\ \A n \in S : Min(S) <= n
BY Least DEF Min

LEMMA MaxIn ==
  ASSUME NEW n \in Nat, NEW S \in SUBSET (0 .. n), S # {}
  PROVE  Max(S) \in S /\ \A k \in S : k <= Max(S)
<1> DEFINE U == {n - k : k \in S}
<1>1. U \in SUBSET Nat /\ U # {}
  OBVIOUS
<1>2. PICK u \in U : \A v \in U : u <= v
  BY <1>1, Least
<1>3. \E m \in S : \A k \in S : m >= k
  BY <1>2, SMTT(40)
<1>4. Max(S) \in S /\ \A k \in S : Max(S) >= k
  BY <1>3 DEF Max
<1> QED BY <1>4

-----------------------------------------------------------------------------
(* Where an entry belongs *)

LEMMA LineFacts ==
  ASSUME NEW d \in Seq(Lines)
  PROVE  /\ Len(d) \in Nat /\ DOMAIN d = 1 .. Len(d)
         /\ Entries(d) \subseteq 1 .. Len(d)
         /\ \A i \in DOMAIN d : d[i] \in Lines /\ d[i].indent \in Nat
         /\ \A i \in DOMAIN d : i \in Entries(d) <=> d[i].kind = "entry"
         /\ \A i \in Entries(d) : d[i].key # None /\ d[i].value \in Values
BY LockAssumption DEF Entries, Content

LEMMA UpFacts ==
  ASSUME NEW d \in Seq(Lines), NEW i \in Entries(d)
  PROVE  /\ Up(d, i) \in 0 .. (i - 1)
         /\ Up(d, i) # 0 => Up(d, i) \in Entries(d) /\ d[Up(d, i)].indent < d[i].indent
         /\ \A j \in Entries(d) : j < i /\ d[j].indent < d[i].indent => j <= Up(d, i)
<1> DEFINE S == {j \in Entries(d) : j < i /\ d[j].indent < d[i].indent} \cup {0}
<1>1. S \in SUBSET (0 .. Len(d)) /\ S # {} /\ Len(d) \in Nat
  BY LineFacts
<1>2. Max(S) \in S /\ \A k \in S : k <= Max(S)
  BY <1>1, MaxIn
<1>3. i \in 1 .. Len(d) /\ Entries(d) \subseteq 1 .. Len(d) /\ Len(d) \in Nat
  BY LineFacts
<1>4. Up(d, i) = Max(S)
  BY DEF Up
<1> HIDE DEF Up
<1>5. Up(d, i) \in S
  BY <1>2, <1>4
<1>6. \A k \in S : k <= Up(d, i)
  BY <1>2, <1>4
<1> QED BY <1>3, <1>5, <1>6

LEMMA AncFacts ==
  ASSUME NEW d \in Seq(Lines), NEW k \in Nat
  PROVE  /\ Anc(d, k) \in 0 .. Len(d)
         /\ Anc(d, k) # 0 => Anc(d, k) \in Entries(d) /\ d[Anc(d, k)].indent < k
         /\ \A j \in Entries(d) : d[j].indent < k => j <= Anc(d, k)
<1> DEFINE S == {j \in Entries(d) : d[j].indent < k} \cup {0}
<1>1. S \in SUBSET (0 .. Len(d)) /\ S # {} /\ Len(d) \in Nat
  BY LineFacts
<1>2. Max(S) \in S /\ \A m \in S : m <= Max(S)
  BY <1>1, MaxIn
<1>4. Anc(d, k) = Max(S)
  BY DEF Anc
<1> HIDE DEF Anc
<1>5. Anc(d, k) \in S
  BY <1>2, <1>4
<1>6. \A m \in S : m <= Anc(d, k)
  BY <1>2, <1>4
<1> QED BY <1>1, <1>5, <1>6

\* The entry that the next line would belong to belongs where a line like it would.
LEMMA AncUp ==
  ASSUME NEW d \in Seq(Lines), NEW k \in Nat, Anc(d, k) # 0
  PROVE  Up(d, Anc(d, k)) = Anc(d, d[Anc(d, k)].indent)
<1> DEFINE a == Anc(d, k)
           m == d[a].indent
<1>1. a \in Entries(d) /\ m < k /\ m \in Nat /\ a \in Nat
  BY AncFacts, LineFacts, SMTT(40)
<1>2. \A j \in Entries(d) : d[j].indent < k => j <= a
  BY AncFacts
<1> HIDE DEF a
<1>3. {j \in Entries(d) : j < a /\ d[j].indent < m} = {j \in Entries(d) : d[j].indent < m}
  BY <1>1, <1>2, LineFacts
<1> QED BY <1>3 DEF Up, Anc, a

LEMMA AncMonotone ==
  ASSUME NEW d \in Seq(Lines), NEW k \in Nat, NEW m \in Nat, k <= m
  PROVE  Anc(d, k) <= Anc(d, m)
<1>1. CASE Anc(d, k) = 0
  BY <1>1, AncFacts
<1>2. CASE Anc(d, k) # 0
  <2>1. Anc(d, k) \in Entries(d) /\ d[Anc(d, k)].indent < k /\ d[Anc(d, k)].indent \in Nat
    BY <1>2, AncFacts, LineFacts
  <2>2. d[Anc(d, k)].indent < m
    BY <2>1
  <2> QED BY <2>1, <2>2, AncFacts
<1> QED BY <1>1, <1>2

-----------------------------------------------------------------------------
(* One more line *)

LEMMA AppendLine ==
  ASSUME NEW d \in Seq(Lines), NEW l \in Lines
  PROVE  /\ Append(d, l) \in Seq(Lines) /\ Len(Append(d, l)) = Len(d) + 1
         /\ \A i \in 1 .. Len(d) : Append(d, l)[i] = d[i]
         /\ Append(d, l)[Len(d) + 1] = l
         /\ Entries(Append(d, l)) =
                Entries(d) \cup (IF Content(l) THEN {Len(d) + 1} ELSE {})
BY LineFacts DEF Entries, Content

LEMMA AppendUp ==
  ASSUME NEW d \in Seq(Lines), NEW l \in Lines
  PROVE  /\ \A i \in Entries(d) : Up(Append(d, l), i) = Up(d, i)
         /\ Content(l) => Up(Append(d, l), Len(d) + 1) = Anc(d, l.indent)
<1> DEFINE e == Append(d, l)
           n == Len(d) + 1
<1>1. /\ e \in Seq(Lines) /\ e[n] = l /\ \A i \in 1 .. Len(d) : e[i] = d[i]
      /\ Entries(e) = Entries(d) \cup (IF Content(l) THEN {n} ELSE {})
  BY AppendLine
<1>2. Entries(d) \subseteq 1 .. Len(d) /\ Len(d) \in Nat
  BY LineFacts
<1> HIDE DEF e
<1>3. ASSUME NEW i \in Entries(d) PROVE Up(e, i) = Up(d, i)
  <2>1. {j \in Entries(e) : j < i /\ e[j].indent < e[i].indent}
          = {j \in Entries(d) : j < i /\ d[j].indent < d[i].indent}
    BY <1>1, <1>2
  <2> QED BY <2>1 DEF Up
<1>4. ASSUME Content(l) PROVE Up(e, n) = Anc(d, l.indent)
  <2>1. {j \in Entries(e) : j < n /\ e[j].indent < e[n].indent}
          = {j \in Entries(d) : d[j].indent < l.indent}
    BY <1>1, <1>2
  <2> QED BY <2>1 DEF Up, Anc
<1> QED BY <1>3, <1>4 DEF e

LEMMA AppendAnc ==
  ASSUME NEW d \in Seq(Lines), NEW l \in Lines, NEW k \in Nat
  PROVE  Anc(Append(d, l), k) =
            IF Content(l) /\ l.indent < k THEN Len(d) + 1 ELSE Anc(d, k)
<1> DEFINE e == Append(d, l)
           n == Len(d) + 1
<1>1. /\ e \in Seq(Lines) /\ e[n] = l /\ \A i \in 1 .. Len(d) : e[i] = d[i]
      /\ Entries(e) = Entries(d) \cup (IF Content(l) THEN {n} ELSE {})
      /\ Len(e) = n
  BY AppendLine
<1>2. Entries(d) \subseteq 1 .. Len(d) /\ Len(d) \in Nat
  BY LineFacts
<1> HIDE DEF e
<1>3. CASE Content(l) /\ l.indent < k
  <2>1. n <= Anc(e, k) /\ Anc(e, k) \in 0 .. n
    BY <1>1, <1>2, <1>3, AncFacts
  <2> QED BY <1>2, <1>3, <2>1 DEF e
<1>4. CASE ~(Content(l) /\ l.indent < k)
  <2>1. {j \in Entries(e) : e[j].indent < k} = {j \in Entries(d) : d[j].indent < k}
    BY <1>1, <1>2, <1>4
  <2> QED BY <2>1, <1>4 DEF Anc, e
<1> QED BY <1>3, <1>4

\* What one more line adds to the entries of each level.
LEMMA AppendTops ==
  ASSUME NEW d \in Seq(Lines), NEW l \in Lines
  PROVE  /\ Tops(Append(d, l)) =
                Tops(d) \cup (IF Content(l) /\ l.indent = 0 THEN {Len(d) + 1} ELSE {})
         /\ \A k : Keyed(Append(d, l), k) =
                Keyed(d, k) \cup (IF Content(l) /\ l.indent = 0 /\ l.key = k
                                 THEN {Len(d) + 1} ELSE {})
BY AppendLine, LineFacts DEF Tops, Keyed

Added(d, l, m, P) ==
    IF Content(l) /\ l.indent = m /\ Anc(d, m) \in P THEN {Len(d) + 1} ELSE {}
Grown(d, P, Q) == P \subseteq 1 .. Len(d) /\ P \subseteq Q /\ Q \subseteq P \cup {Len(d) + 1}

LEMMA AppendAt ==
  ASSUME NEW d \in Seq(Lines), NEW l \in Lines, NEW m \in Nat, NEW P, NEW Q, Grown(d, P, Q)
  PROVE  At(Append(d, l), m, Q) = At(d, m, P) \cup Added(d, l, m, P)
<1> DEFINE e == Append(d, l)
           n == Len(d) + 1
<1>1. /\ e \in Seq(Lines) /\ e[n] = l /\ \A i \in 1 .. Len(d) : e[i] = d[i]
      /\ Entries(e) = Entries(d) \cup (IF Content(l) THEN {n} ELSE {})
  BY AppendLine
<1>2. Entries(d) \subseteq 1 .. Len(d) /\ Len(d) \in Nat
  BY LineFacts
<1>3. \A i \in Entries(d) : Up(e, i) = Up(d, i) /\ Up(d, i) \in 0 .. Len(d)
  BY AppendUp, UpFacts, <1>2
<1>4. Content(l) => Up(e, n) = Anc(d, l.indent) /\ Anc(d, l.indent) \in 0 .. Len(d)
  BY AppendUp, AncFacts, LockAssumption
<1> HIDE DEF e
<1> SUFFICES At(e, m, Q) = At(d, m, P) \cup (IF Content(l) /\ l.indent = m /\ Anc(d, m) \in P
                                            THEN {n} ELSE {})
  BY DEF e, Added
<1>5. \A i \in Entries(d) : i \in At(e, m, Q) <=> i \in At(d, m, P)
  BY <1>1, <1>2, <1>3 DEF At, Grown
<1>6. n \in At(e, m, Q) <=> Content(l) /\ l.indent = m /\ Anc(d, m) \in P
  BY <1>1, <1>2, <1>4 DEF At, Grown
<1>7. At(e, m, Q) \subseteq Entries(d) \cup {n} /\ At(d, m, P) \subseteq Entries(d)
  BY <1>1 DEF At
<1> QED BY <1>2, <1>5, <1>6, <1>7

LEMMA LevelSubsets ==
  ASSUME NEW d
  PROVE  /\ Tops(d) \subseteq Entries(d) /\ \A k : Keyed(d, k) \subseteq Tops(d)
         /\ \A m, P : At(d, m, P) \subseteq Entries(d)
         /\ Pkgs(d) \subseteq Entries(d) /\ Imps(d) \subseteq Entries(d)
         /\ Secs(d) \subseteq Entries(d) /\ Deps(d) \subseteq Entries(d)
BY DEF Tops, Keyed, At, Pkgs, Imps, Secs, Deps

LEMMA AppendLevels ==
  ASSUME NEW d \in Seq(Lines), NEW l \in Lines
  PROVE  LET e == Append(d, l)
         IN  /\ Pkgs(e) = Pkgs(d) \cup Added(d, l, 2, Keyed(d, "packages"))
             /\ Imps(e) = Imps(d) \cup Added(d, l, 2, Keyed(d, "importers"))
             /\ Secs(e) = Secs(d) \cup Added(d, l, 4, Imps(d))
             /\ Deps(e) = Deps(d) \cup Added(d, l, 6, Secs(d))
<1> DEFINE e == Append(d, l)
<1>1. Entries(d) \subseteq 1 .. Len(d)
  BY LineFacts
<1>2. /\ Keyed(d, "packages") \subseteq 1 .. Len(d) /\ Keyed(d, "importers") \subseteq 1 .. Len(d)
      /\ Imps(d) \subseteq 1 .. Len(d) /\ Secs(d) \subseteq 1 .. Len(d)
  BY <1>1, LevelSubsets
<1>3. /\ Grown(d, Keyed(d, "packages"), Keyed(e, "packages"))
      /\ Grown(d, Keyed(d, "importers"), Keyed(e, "importers"))
  BY <1>2, AppendTops DEF Grown
<1>4. Pkgs(e) = Pkgs(d) \cup Added(d, l, 2, Keyed(d, "packages"))
  BY <1>3, AppendAt DEF Pkgs
<1>5. Imps(e) = Imps(d) \cup Added(d, l, 2, Keyed(d, "importers"))
  BY <1>3, AppendAt DEF Imps
<1>6. Grown(d, Imps(d), Imps(e))
  BY <1>2, <1>5 DEF Grown, Added
<1>7. Secs(e) = Secs(d) \cup Added(d, l, 4, Imps(d))
  BY <1>6, AppendAt DEF Secs
<1>8. Grown(d, Secs(d), Secs(e))
  BY <1>2, <1>7 DEF Grown, Added
<1>9. Deps(e) = Deps(d) \cup Added(d, l, 6, Secs(d))
  BY <1>8, AppendAt DEF Deps
<1> QED BY ONLY <1>4, <1>5, <1>7, <1>9

\* In a document whose indentations are even, the entry above a line that is indented
\* by 2 is a top-level entry, and so on.
LEMMA EvenAnc ==
  ASSUME NEW d \in Seq(Lines), Clean(d)
  PROVE  /\ Anc(d, 0) = 0
         /\ Anc(d, 2) # 0 => Anc(d, 2) \in Tops(d)
         /\ Anc(d, 4) # 0 => Anc(d, 4) = Anc(d, 2) \/ d[Anc(d, 4)].indent = 2
         /\ Anc(d, 6) # 0 => Anc(d, 6) = Anc(d, 4) \/ d[Anc(d, 6)].indent = 4
         /\ Anc(d, 8) # 0 => Anc(d, 8) = Anc(d, 6) \/ d[Anc(d, 8)].indent = 6
<1>1. \A i \in Entries(d) : d[i].indent \in Nat /\ d[i].indent % 2 = 0
  BY LineFacts DEF Clean
<1>2. Anc(d, 0) = 0
  BY <1>1, AncFacts, SMTT(40)
<1>3. Anc(d, 2) # 0 => Anc(d, 2) \in Tops(d)
  <2>1. \A x \in Nat : x < 2 /\ x % 2 = 0 => x = 0
    OBVIOUS
  <2>2. Anc(d, 2) # 0 => Anc(d, 2) \in Entries(d) /\ d[Anc(d, 2)].indent < 2
    BY AncFacts
  <2> QED BY <1>1, <2>1, <2>2 DEF Tops
<1>4. \A k \in Nat : Anc(d, k) \in Nat
  BY AncFacts
<1>5. ASSUME NEW k \in {2, 4, 6}, Anc(d, k + 2) # 0, d[Anc(d, k + 2)].indent # k
      PROVE  Anc(d, k + 2) = Anc(d, k)
  <2>1. Anc(d, k + 2) \in Entries(d) /\ d[Anc(d, k + 2)].indent < k + 2
    BY <1>5, AncFacts, SMTT(40)
  <2>2. d[Anc(d, k + 2)].indent < k
    BY <1>1, <1>5, <2>1
  <2>3. Anc(d, k + 2) <= Anc(d, k)
    BY <2>1, <2>2, AncFacts
  <2>4. Anc(d, k) <= Anc(d, k + 2)
    BY AncMonotone
  <2> QED BY <2>3, <2>4, <1>4, SMTT(40)
<1>6. /\ Anc(d, 4) # 0 /\ d[Anc(d, 4)].indent # 2 => Anc(d, 4) = Anc(d, 2)
      /\ Anc(d, 6) # 0 /\ d[Anc(d, 6)].indent # 4 => Anc(d, 6) = Anc(d, 4)
      /\ Anc(d, 8) # 0 /\ d[Anc(d, 8)].indent # 6 => Anc(d, 8) = Anc(d, 6)
  BY <1>5
<1> QED BY <1>2, <1>3, <1>6

\* A next line belongs to an importer, a section or a dependency only if the last
\* top-level entry is importers.
LEMMA Outside ==
  ASSUME NEW d \in Seq(Lines), Clean(d), NEW k \in Nat
  PROVE  /\ \A key : Anc(d, k) \in Keyed(d, key) => Anc(d, 2) \in Keyed(d, key) /\ Anc(d, k) = Anc(d, 2)
         /\ Anc(d, k) \in Imps(d) =>
                Anc(d, 2) \in Keyed(d, "importers") /\ Anc(d, 4) = Anc(d, k) /\ k > 2
         /\ Anc(d, k) \in Secs(d) => Anc(d, 4) \in Imps(d) /\ Anc(d, 6) = Anc(d, k) /\ k > 4
         /\ Anc(d, k) \in Deps(d) => Anc(d, 6) \in Secs(d) /\ Anc(d, 8) = Anc(d, k) /\ k > 6
<1>1. \A i \in Entries(d) : d[i].indent \in Nat /\ i \in Nat /\ i # 0
  BY LineFacts
<1>2. \A m \in Nat : Anc(d, m) \in Nat
  BY AncFacts
<1>3. ASSUME NEW m \in Nat, Anc(d, k) # 0, d[Anc(d, k)].indent = m
      PROVE  Anc(d, k) = Anc(d, m + 2) \/ Anc(d, k) < Anc(d, m + 2) 
  <2>1. Anc(d, k) \in Entries(d) /\ m + 2 \in Nat /\ d[Anc(d, k)].indent < m + 2
    BY <1>3, AncFacts
  <2>2. Anc(d, k) <= Anc(d, m + 2)
    BY <2>1, AncFacts
  <2> QED BY <1>2, <2>1, <2>2
<1>4. ASSUME NEW m \in {0, 2, 4, 6}, Anc(d, k) # 0, d[Anc(d, k)].indent = m
      PROVE  Anc(d, k) = Anc(d, m + 2) /\ k > m /\ Up(d, Anc(d, k)) = Anc(d, m)
  <2>1. Anc(d, k) \in Entries(d) /\ m < k
    BY <1>4, AncFacts
  <2>2. m + 2 <= k \/ k = m + 1
    BY <2>1
  <2>3. CASE m + 2 <= k
    <3>1. Anc(d, m + 2) <= Anc(d, k)
      BY <2>3, AncMonotone
    <3>2. Anc(d, k) \in Nat /\ Anc(d, m + 2) \in Nat
      BY <1>2, SMTT(40)
    <3>3. Anc(d, k) = Anc(d, m + 2) \/ Anc(d, k) < Anc(d, m + 2)
      BY <1>3, <1>4
    <3>4. Up(d, Anc(d, k)) = Anc(d, m)
      BY <1>4, AncUp
    <3> QED BY <2>1, <3>1, <3>2, <3>3, <3>4
  <2>4. CASE k = m + 1
    <3>1. \A j \in Entries(d) : d[j].indent < m + 2 => d[j].indent < k
      <4>1. \A x \in Nat : x < m + 2 /\ x % 2 = 0 => x < m + 1
        OBVIOUS
      <4> QED BY <1>1, <2>4, <4>1, LineFacts DEF Clean
    <3>2. {j \in Entries(d) : d[j].indent < m + 2} = {j \in Entries(d) : d[j].indent < k}
      BY <1>1, <2>4, <3>1
    <3>3. Anc(d, k) = Anc(d, m + 2)
      BY <3>2 DEF Anc
    <3>4. Up(d, Anc(d, k)) = Anc(d, m)
      BY <1>4, AncUp
    <3> QED BY <2>1, <3>3, <3>4
  <2> QED BY <2>2, <2>3, <2>4
<1>5. ASSUME NEW key, Anc(d, k) \in Keyed(d, key)
      PROVE  Anc(d, 2) \in Keyed(d, key) /\ Anc(d, k) = Anc(d, 2)
  BY <1>1, <1>4, <1>5 DEF Keyed, Tops
<1>6. ASSUME Anc(d, k) \in Imps(d)
      PROVE  Anc(d, 2) \in Keyed(d, "importers") /\ Anc(d, 4) = Anc(d, k) /\ k > 2
  BY <1>1, <1>4, <1>6 DEF Imps, At
<1>7. ASSUME Anc(d, k) \in Secs(d)
      PROVE  Anc(d, 4) \in Imps(d) /\ Anc(d, 6) = Anc(d, k) /\ k > 4
  BY <1>1, <1>4, <1>7 DEF Secs, At
<1>8. ASSUME Anc(d, k) \in Deps(d)
      PROVE  Anc(d, 6) \in Secs(d) /\ Anc(d, 8) = Anc(d, k) /\ k > 6
  BY <1>1, <1>4, <1>8 DEF Deps, At
<1> QED BY <1>5, <1>6, <1>7, <1>8

-----------------------------------------------------------------------------
(* Which lines keep a document in shape *)

\* No entry of I has the key of line l and belongs where l does.
NewKey(d, l, I) == \A i \in I : ~(Up(d, i) = Anc(d, l.indent) /\ d[i].key = l.key)

NewClean(l) == l.kind \in {"blank", "comment", "entry"} /\ l.indent % 2 = 0
NewTop(d, l) ==
    Content(l) /\ l.indent = 0 =>
        /\ NewKey(d, l, Tops(d))
        /\ l.key # NotAMapping
        /\ l.key = "lockfileVersion" => l.value = "9.0"
        /\ l.key = "packages" => l.value = "block"
        /\ l.key = "importers" => l.value \in {"block", "{}"}
NewPkg(d, l) ==
    Content(l) /\ l.indent = 2 /\ Anc(d, 2) \in Keyed(d, "packages") =>
        NewKey(d, l, Pkgs(d)) /\ l.value = "block" /\ l.key \in DOMAIN Locators
NewLevel(d, l, P, n) ==
    Content(l) /\ Anc(d, l.indent) \in P =>
        /\ NewKey(d, l, At(d, n, P)) /\ l.indent = n /\ l.key # NotAMapping
        /\ l.value \in {"block", "{}"} /\ d[Anc(d, l.indent)].value = "block"
NewDep(d, l) ==
    Content(l) /\ Anc(d, l.indent) \in Secs(d) =>
        /\ NewKey(d, l, Deps(d)) /\ l.indent = 6
        /\ l.key \in Names /\ d[Anc(d, l.indent)].value = "block"
NewDetail(d, l) ==
    Content(l) /\ Anc(d, l.indent) \in Deps(d) => d[Anc(d, l.indent)].value = "block"

NewOK(d, l) ==
    /\ NewClean(l) /\ NewTop(d, l) /\ NewPkg(d, l)
    /\ NewLevel(d, l, Keyed(d, "importers"), 2) /\ NewLevel(d, l, Imps(d), 4)
    /\ NewDep(d, l) /\ NewDetail(d, l)

LEMMA AppendDistinct ==
  ASSUME NEW d \in Seq(Lines), NEW l \in Lines, NEW I, I \subseteq Entries(d)
  PROVE  /\ Distinct(Append(d, l), I) <=> Distinct(d, I)
         /\ Content(l) => (Distinct(Append(d, l), I \cup {Len(d) + 1})
                              <=> Distinct(d, I) /\ NewKey(d, l, I))
<1> DEFINE e == Append(d, l)
           n == Len(d) + 1
<1>1. /\ e[n] = l /\ \A i \in 1 .. Len(d) : e[i] = d[i]
      /\ Entries(d) \subseteq 1 .. Len(d) /\ Len(d) \in Nat
  BY AppendLine, LineFacts
<1>2. \A i \in Entries(d) : Up(e, i) = Up(d, i)
  BY AppendUp
<1>3. Content(l) => Up(e, n) = Anc(d, l.indent)
  BY AppendUp
<1> HIDE DEF e
<1>4. \A i \in I : i \in 1 .. Len(d) /\ i # n /\ e[i] = d[i] /\ Up(e, i) = Up(d, i)
  BY <1>1, <1>2
<1>5. Distinct(e, I) <=> Distinct(d, I)
  BY <1>4 DEF Distinct
<1>6. Content(l) => (Distinct(e, I \cup {n}) <=> Distinct(d, I) /\ NewKey(d, l, I))
  <2>1. ASSUME Content(l), Distinct(e, I \cup {n}) PROVE Distinct(d, I) /\ NewKey(d, l, I)
    BY <1>1, <1>3, <1>4, <2>1 DEF Distinct, NewKey
  <2>2. ASSUME Content(l), Distinct(d, I), NewKey(d, l, I) PROVE Distinct(e, I \cup {n})
    BY <1>1, <1>3, <1>4, <2>2 DEF Distinct, NewKey
  <2> QED BY <2>1, <2>2
<1> QED BY <1>5, <1>6 DEF e

LEMMA CleanAppend ==
  ASSUME NEW d \in Seq(Lines), NEW l \in Lines
  PROVE  Clean(Append(d, l)) <=> Clean(d) /\ NewClean(l)
<1>1. /\ DOMAIN d = 1 .. Len(d) /\ DOMAIN Append(d, l) = 1 .. (Len(d) + 1) /\ Len(d) \in Nat
      /\ Append(d, l)[Len(d) + 1] = l /\ \A i \in 1 .. Len(d) : Append(d, l)[i] = d[i]
  BY AppendLine, LineFacts
<1> QED BY <1>1 DEF Clean, NewClean

LEMMA TopsOKAppend ==
  ASSUME NEW d \in Seq(Lines), NEW l \in Lines
  PROVE  TopsOK(Append(d, l)) <=> TopsOK(d) /\ NewTop(d, l)
<1> DEFINE e == Append(d, l)
           n == Len(d) + 1
<1>1. /\ e[n] = l /\ \A i \in 1 .. Len(d) : e[i] = d[i]
      /\ Tops(d) \subseteq Entries(d) /\ Tops(d) \subseteq 1 .. Len(d) /\ Len(d) \in Nat
  BY AppendLine, LineFacts, LevelSubsets
<1>2. Tops(e) = Tops(d) \cup (IF Content(l) /\ l.indent = 0 THEN {n} ELSE {})
  BY AppendTops
<1>3. /\ Distinct(e, Tops(d)) <=> Distinct(d, Tops(d))
      /\ Content(l) => (Distinct(e, Tops(d) \cup {n}) <=> Distinct(d, Tops(d)) /\ NewKey(d, l, Tops(d)))
  BY <1>1, AppendDistinct
<1> HIDE DEF e
<1>4. CASE Content(l) /\ l.indent = 0
  <2>1. Tops(e) = Tops(d) \cup {n}
    BY <1>2, <1>4
  <2> QED BY <1>1, <1>3, <1>4, <2>1, ZenonT(60) DEF TopsOK, NewTop, e
<1>5. CASE ~(Content(l) /\ l.indent = 0)
  <2>1. Tops(e) = Tops(d)
    BY <1>2, <1>5
  <2> QED BY <1>1, <1>3, <1>5, <2>1 DEF TopsOK, NewTop, e
<1> QED BY <1>4, <1>5

LEMMA PkgsOKAppend ==
  ASSUME NEW d \in Seq(Lines), NEW l \in Lines
  PROVE  PkgsOK(Append(d, l)) <=> PkgsOK(d) /\ NewPkg(d, l)
<1> DEFINE e == Append(d, l)
           n == Len(d) + 1
           C == Content(l) /\ l.indent = 2 /\ Anc(d, 2) \in Keyed(d, "packages")
<1>1. /\ e[n] = l /\ \A i \in 1 .. Len(d) : e[i] = d[i]
      /\ Pkgs(d) \subseteq Entries(d) /\ Pkgs(d) \subseteq 1 .. Len(d) /\ Len(d) \in Nat
  BY AppendLine, LineFacts, LevelSubsets
<1>2. Pkgs(e) = Pkgs(d) \cup (IF C THEN {n} ELSE {})
  BY AppendLevels DEF Added
<1>3. /\ Distinct(e, Pkgs(d)) <=> Distinct(d, Pkgs(d))
      /\ Content(l) => (Distinct(e, Pkgs(d) \cup {n}) <=> Distinct(d, Pkgs(d)) /\ NewKey(d, l, Pkgs(d)))
  BY <1>1, AppendDistinct
<1> HIDE DEF e
<1>4. CASE C
  <2>1. Pkgs(e) = Pkgs(d) \cup {n}
    BY <1>2, <1>4
  <2> QED BY <1>1, <1>3, <1>4, <2>1 DEF PkgsOK, NewPkg, e
<1>5. CASE ~C
  <2>1. Pkgs(e) = Pkgs(d)
    BY <1>2, <1>5
  <2> QED BY <1>1, <1>3, <1>5, <2>1 DEF PkgsOK, NewPkg, e
<1> QED BY <1>4, <1>5

\* Append, for the steps that need not know what it is.
Longer(d, l) == Append(d, l)

\* The entries of e, one line longer than d, that belong to Q, in terms of d and P.
LEMMA AppendBelow ==
  ASSUME NEW d \in Seq(Lines), NEW l \in Lines, NEW P, NEW Q, Grown(d, P, Q)
  PROVE  LET e == Longer(d, l)
         IN  /\ \A i \in Entries(d) : /\ i \in 1 .. Len(d) /\ i \in Entries(e) /\ e[i] = d[i]
                                      /\ Up(e, i) = Up(d, i)
                                      /\ Up(e, i) \in Q <=> Up(d, i) \in P
                                      /\ Up(d, i) \in P => e[Up(e, i)] = d[Up(d, i)]
             /\ Content(l) => /\ Len(d) + 1 \in Entries(e) /\ e[Len(d) + 1] = l
                              /\ Up(e, Len(d) + 1) = Anc(d, l.indent)
                              /\ Up(e, Len(d) + 1) \in Q <=> Anc(d, l.indent) \in P
                              /\ Anc(d, l.indent) \in P =>
                                    e[Up(e, Len(d) + 1)] = d[Anc(d, l.indent)]
             /\ \A i \in Entries(e) : i \in Entries(d) \/ (Content(l) /\ i = Len(d) + 1)
<1> DEFINE e == Append(d, l)
           n == Len(d) + 1
<1>1. /\ e[n] = l /\ \A i \in 1 .. Len(d) : e[i] = d[i]
      /\ Entries(e) = Entries(d) \cup (IF Content(l) THEN {n} ELSE {})
      /\ Entries(d) \subseteq 1 .. Len(d) /\ Len(d) \in Nat
  BY AppendLine, LineFacts
<1>2. \A i \in Entries(d) : Up(e, i) = Up(d, i) /\ Up(d, i) \in 0 .. Len(d)
  BY <1>1, AppendUp, UpFacts
<1>3. Content(l) => Up(e, n) = Anc(d, l.indent) /\ Anc(d, l.indent) \in 0 .. Len(d)
  BY AppendUp, AncFacts, LockAssumption
<1> HIDE DEF e
<1>4. \A x \in 0 .. Len(d) : x \in Q <=> x \in P
  BY <1>1 DEF Grown
<1>5. \A x \in P : e[x] = d[x]
  BY <1>1 DEF Grown
<1>6. \A i \in Entries(d) : /\ i \in 1 .. Len(d) /\ i \in Entries(e) /\ e[i] = d[i]
                            /\ Up(e, i) = Up(d, i)
                            /\ Up(e, i) \in Q <=> Up(d, i) \in P
                            /\ Up(d, i) \in P => e[Up(e, i)] = d[Up(d, i)]
  BY <1>1, <1>2, <1>4, <1>5
<1>7. Content(l) => /\ n \in Entries(e) /\ e[n] = l
                    /\ Up(e, n) = Anc(d, l.indent)
                    /\ Up(e, n) \in Q <=> Anc(d, l.indent) \in P
                    /\ Anc(d, l.indent) \in P => e[Up(e, n)] = d[Anc(d, l.indent)]
  BY <1>1, <1>3, <1>4, <1>5
<1>8. \A i \in Entries(e) : i \in Entries(d) \/ (Content(l) /\ i = n)
  BY <1>1
<1> QED BY <1>6, <1>7, <1>8 DEF e, Longer

LEMMA AppendBelowOld ==
  ASSUME NEW d \in Seq(Lines), NEW l \in Lines, NEW P, NEW Q, Grown(d, P, Q),
         NEW i \in Entries(d)
  PROVE  /\ i \in Entries(Longer(d, l)) /\ Longer(d, l)[i] = d[i]
         /\ Up(Longer(d, l), i) \in Q <=> Up(d, i) \in P
         /\ Up(d, i) \in P => Longer(d, l)[Up(Longer(d, l), i)] = d[Up(d, i)]
<1>1. \A j \in Entries(d) : /\ j \in 1 .. Len(d) /\ j \in Entries(Longer(d, l))
                            /\ Longer(d, l)[j] = d[j]
                            /\ Up(Longer(d, l), j) = Up(d, j)
                            /\ Up(Longer(d, l), j) \in Q <=> Up(d, j) \in P
                            /\ Up(d, j) \in P =>
                                  Longer(d, l)[Up(Longer(d, l), j)] = d[Up(d, j)]
  BY AppendBelow
<1> QED BY <1>1

LEMMA LevelOKAppend ==
  ASSUME NEW d \in Seq(Lines), NEW l \in Lines, NEW P, NEW Q, Grown(d, P, Q), NEW m \in Nat
  PROVE  LevelOK(Append(d, l), Q, m) <=> LevelOK(d, P, m) /\ NewLevel(d, l, P, m)
<1> DEFINE e == Append(d, l)
           n == Len(d) + 1
           A == At(d, m, P)
<1>1. At(e, m, Q) = A \cup Added(d, l, m, P)
  BY AppendAt
<1>2. /\ Distinct(e, A) <=> Distinct(d, A)
      /\ Content(l) => (Distinct(e, A \cup {n}) <=> Distinct(d, A) /\ NewKey(d, l, A))
  <2>1. A \subseteq Entries(d)
    BY DEF At
  <2> HIDE DEF A
  <2> QED BY <2>1, AppendDistinct
<1>0. e = Longer(d, l)
  BY DEF Longer
<1> HIDE DEF e
<1>3. ASSUME NEW i \in Entries(d)
      PROVE  /\ i \in Entries(e) /\ e[i] = d[i]
             /\ Up(e, i) \in Q <=> Up(d, i) \in P
             /\ Up(d, i) \in P => e[Up(e, i)] = d[Up(d, i)]
  BY <1>0, AppendBelowOld
<1>4. Content(l) => /\ n \in Entries(e) /\ e[n] = l
                    /\ Up(e, n) \in Q <=> Anc(d, l.indent) \in P
                    /\ Anc(d, l.indent) \in P => e[Up(e, n)] = d[Anc(d, l.indent)]
  BY <1>0, AppendBelow
<1>5. \A i \in Entries(e) : i \in Entries(d) \/ (Content(l) /\ i = n)
  BY <1>0, AppendBelow
<1> DEFINE Fit(f, i, U) == /\ f[i].indent = m /\ f[i].key # NotAMapping
                           /\ f[i].value \in {"block", "{}"} /\ f[U].value = "block"
<1>6. LevelOK(e, Q, m) <=>
        Distinct(e, At(e, m, Q)) /\ \A i \in Entries(e) : Up(e, i) \in Q => Fit(e, i, Up(e, i))
  BY DEF LevelOK
<1>7. LevelOK(d, P, m) <=>
        Distinct(d, A) /\ \A i \in Entries(d) : Up(d, i) \in P => Fit(d, i, Up(d, i))
  BY DEF LevelOK
<1>8. NewLevel(d, l, P, m) <=>
        (Content(l) /\ Anc(d, l.indent) \in P =>
            /\ NewKey(d, l, A) /\ l.indent = m /\ l.key # NotAMapping
            /\ l.value \in {"block", "{}"} /\ d[Anc(d, l.indent)].value = "block")
  BY DEF NewLevel
<1> HIDE DEF A
<1>12. \A i \in Entries(d) : Up(d, i) \in P => (Fit(e, i, Up(e, i)) <=> Fit(d, i, Up(d, i)))
  BY <1>3
<1>13. Content(l) /\ Anc(d, l.indent) \in P =>
        (Fit(e, n, Up(e, n)) <=> /\ l.indent = m /\ l.key # NotAMapping
                                 /\ l.value \in {"block", "{}"}
                                 /\ d[Anc(d, l.indent)].value = "block")
  BY <1>4
<1> HIDE DEF Fit
<1>9. (\A i \in Entries(e) : Up(e, i) \in Q => Fit(e, i, Up(e, i))) <=>
        /\ \A i \in Entries(d) : Up(d, i) \in P => Fit(d, i, Up(d, i))
        /\ Content(l) /\ Anc(d, l.indent) \in P =>
              /\ l.indent = m /\ l.key # NotAMapping
              /\ l.value \in {"block", "{}"} /\ d[Anc(d, l.indent)].value = "block"
  <2>1. ASSUME \A i \in Entries(e) : Up(e, i) \in Q => Fit(e, i, Up(e, i))
        PROVE  \A i \in Entries(d) : Up(d, i) \in P => Fit(d, i, Up(d, i))
    BY <2>1, <1>3, <1>12
  <2>2. ASSUME \A i \in Entries(e) : Up(e, i) \in Q => Fit(e, i, Up(e, i)),
               Content(l), Anc(d, l.indent) \in P
        PROVE  /\ l.indent = m /\ l.key # NotAMapping
               /\ l.value \in {"block", "{}"} /\ d[Anc(d, l.indent)].value = "block"
    BY <2>2, <1>4, <1>13
  <2>3. ASSUME \A i \in Entries(d) : Up(d, i) \in P => Fit(d, i, Up(d, i)),
               Content(l) /\ Anc(d, l.indent) \in P =>
                  /\ l.indent = m /\ l.key # NotAMapping
                  /\ l.value \in {"block", "{}"} /\ d[Anc(d, l.indent)].value = "block"
        PROVE  \A i \in Entries(e) : Up(e, i) \in Q => Fit(e, i, Up(e, i))
    BY <2>3, <1>3, <1>4, <1>5, <1>12, <1>13
  <2> QED BY <2>1, <2>2, <2>3
<1>10. CASE Content(l) /\ Anc(d, l.indent) \in P /\ l.indent = m
  <2>1. At(e, m, Q) = A \cup {n}
    BY <1>1, <1>10 DEF Added
  <2>2. Distinct(e, At(e, m, Q)) <=> Distinct(d, A) /\ NewKey(d, l, A)
    BY <2>1, <1>2, <1>10
  <2> QED BY <2>2, <1>6, <1>7, <1>8, <1>9, <1>10 DEF e
<1>11. CASE ~(Content(l) /\ Anc(d, l.indent) \in P /\ l.indent = m)
  <2>1. At(e, m, Q) = A
    BY <1>1, <1>11 DEF Added
  <2>2. Distinct(e, At(e, m, Q)) <=> Distinct(d, A)
    BY <2>1, <1>2
  <2> QED BY <2>2, <1>6, <1>7, <1>8, <1>9, <1>11 DEF e
<1> QED BY <1>10, <1>11

LEMMA DepsOKAppend ==
  ASSUME NEW d \in Seq(Lines), NEW l \in Lines
  PROVE  DepsOK(Append(d, l)) <=> DepsOK(d) /\ NewDep(d, l)
<1> DEFINE e == Append(d, l)
           n == Len(d) + 1
           P == Secs(d)
           Q == Secs(e)
<1>1. Grown(d, P, Q)
  BY AppendLevels, LevelSubsets, LineFacts DEF Grown, Added
<1>2. Deps(e) = Deps(d) \cup Added(d, l, 6, P)
  BY AppendLevels
<1> HIDE DEF P, Q
<1>3. /\ Distinct(e, Deps(d)) <=> Distinct(d, Deps(d))
      /\ Content(l) => (Distinct(e, Deps(d) \cup {n}) <=> Distinct(d, Deps(d)) /\ NewKey(d, l, Deps(d)))
  BY LevelSubsets, AppendDistinct
<1>0. e = Longer(d, l)
  BY DEF Longer
<1> HIDE DEF e
<1>4. ASSUME NEW i \in Entries(d)
      PROVE  /\ i \in Entries(e) /\ e[i] = d[i]
             /\ Up(e, i) \in Q <=> Up(d, i) \in P
             /\ Up(d, i) \in P => e[Up(e, i)] = d[Up(d, i)]
  BY <1>0, <1>1, AppendBelowOld
<1>5. Content(l) => /\ n \in Entries(e) /\ e[n] = l
                    /\ Up(e, n) \in Q <=> Anc(d, l.indent) \in P
                    /\ Anc(d, l.indent) \in P => e[Up(e, n)] = d[Anc(d, l.indent)]
  BY <1>0, <1>1, AppendBelow
<1>6. \A i \in Entries(e) : i \in Entries(d) \/ (Content(l) /\ i = n)
  BY <1>0, <1>1, AppendBelow
<1> DEFINE Fit(f, i, U) == f[i].indent = 6 /\ f[i].key \in Names /\ f[U].value = "block"
           Fits == l.indent = 6 /\ l.key \in Names /\ d[Anc(d, l.indent)].value = "block"
<1>7. (\A i \in Entries(e) : Up(e, i) \in Q => Fit(e, i, Up(e, i))) <=>
        /\ \A i \in Entries(d) : Up(d, i) \in P => Fit(d, i, Up(d, i))
        /\ Content(l) /\ Anc(d, l.indent) \in P => Fits
  <2>1. ASSUME \A i \in Entries(e) : Up(e, i) \in Q => Fit(e, i, Up(e, i))
        PROVE  \A i \in Entries(d) : Up(d, i) \in P => Fit(d, i, Up(d, i))
    BY <2>1, <1>4
  <2>2. ASSUME \A i \in Entries(e) : Up(e, i) \in Q => Fit(e, i, Up(e, i)),
               Content(l), Anc(d, l.indent) \in P
        PROVE  Fits
    BY <2>2, <1>5
  <2>3. ASSUME \A i \in Entries(d) : Up(d, i) \in P => Fit(d, i, Up(d, i)),
               Content(l) /\ Anc(d, l.indent) \in P => Fits
        PROVE  \A i \in Entries(e) : Up(e, i) \in Q => Fit(e, i, Up(e, i))
    BY <2>3, <1>4, <1>5, <1>6
  <2> QED BY <2>1, <2>2, <2>3
<1>8. DepsOK(e) <=>
        Distinct(e, Deps(e)) /\ \A i \in Entries(e) : Up(e, i) \in Q => Fit(e, i, Up(e, i))
  BY DEF DepsOK, Q
<1>9. DepsOK(d) <=>
        Distinct(d, Deps(d)) /\ \A i \in Entries(d) : Up(d, i) \in P => Fit(d, i, Up(d, i))
  BY DEF DepsOK, P
<1>10. NewDep(d, l) <=>
        (Content(l) /\ Anc(d, l.indent) \in P => NewKey(d, l, Deps(d)) /\ Fits)
  BY DEF NewDep, P
<1> HIDE DEF Fit
<1>11. CASE Content(l) /\ Anc(d, l.indent) \in P /\ l.indent = 6
  <2>1. Deps(e) = Deps(d) \cup {n}
    BY <1>2, <1>11 DEF Added
  <2>2. Distinct(e, Deps(e)) <=> Distinct(d, Deps(d)) /\ NewKey(d, l, Deps(d))
    BY <2>1, <1>3, <1>11
  <2> QED BY <2>2, <1>7, <1>8, <1>9, <1>10, <1>11 DEF e
<1>12. CASE ~(Content(l) /\ Anc(d, l.indent) \in P /\ l.indent = 6)
  <2>1. Deps(e) = Deps(d)
    BY <1>2, <1>12 DEF Added
  <2>2. Distinct(e, Deps(e)) <=> Distinct(d, Deps(d))
    BY <2>1, <1>3
  <2> QED BY <2>2, <1>7, <1>8, <1>9, <1>10, <1>12 DEF e
<1> QED BY <1>11, <1>12

LEMMA DetailsOKAppend ==
  ASSUME NEW d \in Seq(Lines), NEW l \in Lines
  PROVE  DetailsOK(Append(d, l)) <=> DetailsOK(d) /\ NewDetail(d, l)
<1> DEFINE e == Append(d, l)
           n == Len(d) + 1
           P == Deps(d)
           Q == Deps(e)
<1>1. Grown(d, P, Q)
  BY AppendLevels, LevelSubsets, LineFacts DEF Grown, Added
<1> HIDE DEF P, Q
<1>0. e = Longer(d, l)
  BY DEF Longer
<1> HIDE DEF e
<1>4. ASSUME NEW i \in Entries(d)
      PROVE  /\ i \in Entries(e)
             /\ Up(e, i) \in Q <=> Up(d, i) \in P
             /\ Up(d, i) \in P => e[Up(e, i)] = d[Up(d, i)]
  BY <1>0, <1>1, AppendBelowOld
<1>5. Content(l) => /\ n \in Entries(e)
                    /\ Up(e, n) \in Q <=> Anc(d, l.indent) \in P
                    /\ Anc(d, l.indent) \in P => e[Up(e, n)] = d[Anc(d, l.indent)]
  BY <1>0, <1>1, AppendBelow
<1>6. \A i \in Entries(e) : i \in Entries(d) \/ (Content(l) /\ i = n)
  BY <1>0, <1>1, AppendBelow
<1>7. DetailsOK(e) <=> \A i \in Entries(e) : Up(e, i) \in Q => e[Up(e, i)].value = "block"
  BY DEF DetailsOK, Q
<1>8. DetailsOK(d) <=> \A i \in Entries(d) : Up(d, i) \in P => d[Up(d, i)].value = "block"
  BY DEF DetailsOK, P
<1>9. NewDetail(d, l) <=>
        (Content(l) /\ Anc(d, l.indent) \in P => d[Anc(d, l.indent)].value = "block")
  BY DEF NewDetail, P
<1>10. ASSUME DetailsOK(e) PROVE DetailsOK(d) /\ NewDetail(d, l)
  BY <1>4, <1>5, <1>7, <1>8, <1>9, <1>10
<1>11. ASSUME DetailsOK(d), NewDetail(d, l) PROVE DetailsOK(e)
  BY <1>4, <1>5, <1>6, <1>7, <1>8, <1>9, <1>11
<1> QED BY <1>10, <1>11 DEF e

\* A document stays in shape with exactly the lines that are OK.
LEMMA ShapeAppend ==
  ASSUME NEW d \in Seq(Lines), NEW l \in Lines
  PROVE  Shape(Append(d, l)) <=> Shape(d) /\ NewOK(d, l)
<1> DEFINE e == Append(d, l)
<1>1. /\ Grown(d, Keyed(d, "importers"), Keyed(e, "importers"))
      /\ Grown(d, Imps(d), Imps(e))
  <2>1. /\ Keyed(d, "importers") \subseteq 1 .. Len(d) /\ Imps(d) \subseteq 1 .. Len(d)
    BY LevelSubsets, LineFacts
  <2> QED BY <2>1, AppendTops, AppendLevels DEF Grown, Added
<1>2. /\ LevelOK(e, Keyed(e, "importers"), 2) <=>
            LevelOK(d, Keyed(d, "importers"), 2) /\ NewLevel(d, l, Keyed(d, "importers"), 2)
      /\ LevelOK(e, Imps(e), 4) <=> LevelOK(d, Imps(d), 4) /\ NewLevel(d, l, Imps(d), 4)
  BY <1>1, LevelOKAppend
<1>3. Clean(e) <=> Clean(d) /\ NewClean(l)
  BY CleanAppend
<1>4. TopsOK(e) <=> TopsOK(d) /\ NewTop(d, l)
  BY TopsOKAppend
<1>5. PkgsOK(e) <=> PkgsOK(d) /\ NewPkg(d, l)
  BY PkgsOKAppend
<1>6. DepsOK(e) <=> DepsOK(d) /\ NewDep(d, l)
  BY DepsOKAppend
<1>7. DetailsOK(e) <=> DetailsOK(d) /\ NewDetail(d, l)
  BY DetailsOKAppend
<1> QED BY ONLY <1>2, <1>3, <1>4, <1>5, <1>6, <1>7 DEF Shape, NewOK

-----------------------------------------------------------------------------
(* The shape and the tree *)

BelowIn(d, P) == {i \in Entries(d) : Up(d, i) \in P}
NamedIn(d, key) == {i \in BelowIn(d, {0}) : d[i].key = key}

LEMMA TreeFields ==
  ASSUME NEW d
  PROVE  LET t == Tree(d)
             sections == BelowIn(d, BelowIn(d, NamedIn(d, "importers")))
         IN  /\ t.up = [i \in Entries(d) |-> Up(d, i)]
             /\ t.top = BelowIn(d, {0})
             /\ t.version = NamedIn(d, "lockfileVersion")
             /\ t.packages = BelowIn(d, NamedIn(d, "packages"))
             /\ t.importers = BelowIn(d, NamedIn(d, "importers"))
             /\ t.sections = sections
             /\ t.dependencies = BelowIn(d, sections)
             /\ t.details = BelowIn(d, BelowIn(d, sections))
<1> DEFINE up == [i \in Entries(d) |->
                     Max({j \in Entries(d) : j < i /\ d[j].indent < d[i].indent} \cup {0})]
           Below(P) == {i \in Entries(d) : up[i] \in P}
           Named(key) == {i \in Below({0}) : d[i].key = key}
           sections == Below(Below(Named("importers")))
<1>1. up = [i \in Entries(d) |-> Up(d, i)]
  BY DEF Up
<1>2. \A P : Below(P) = BelowIn(d, P)
  BY <1>1 DEF BelowIn
<1>3. Tree(d) = [up |-> up, top |-> Below({0}), version |-> Named("lockfileVersion"),
                 packages |-> Below(Named("packages")), importers |-> Below(Named("importers")),
                 sections |-> sections, dependencies |-> Below(sections),
                 details |-> Below(Below(sections))]
  BY DEF Tree
<1> HIDE DEF up, Below
<1>4. \A key : Named(key) = NamedIn(d, key)
  BY <1>2 DEF NamedIn
<1> HIDE DEF Named
<1> QED BY <1>1, <1>2, <1>3, <1>4

\* Nothing is indented where no entry above it says so.
Placed(d) ==
    \A i \in Entries(d) : /\ Up(d, i) = 0 => d[i].indent = 0
                          /\ Up(d, i) \in Keyed(d, "packages") => d[i].indent = 2

LEMMA TopUp ==
  ASSUME NEW d \in Seq(Lines), NEW i \in Tops(d)
  PROVE  i \in Entries(d) /\ Up(d, i) = 0
<1>1. i \in Entries(d) /\ d[i].indent = 0
  BY DEF Tops
<1>2. Up(d, i) # 0 => Up(d, i) \in Entries(d) /\ d[Up(d, i)].indent < 0
  BY <1>1, UpFacts
<1>3. \A j \in Entries(d) : d[j].indent \in Nat
  BY LineFacts
<1> QED BY <1>1, <1>2, <1>3

\* The sets of the tree are those of the levels.
LEMMA TreeLevels ==
  ASSUME NEW d \in Seq(Lines),
         \A i \in Entries(d) : Up(d, i) = 0 => d[i].indent = 0
  PROVE  /\ BelowIn(d, {0}) = Tops(d)
         /\ \A key : NamedIn(d, key) = Keyed(d, key)
         /\ \A P, n : (\A i \in Entries(d) : Up(d, i) \in P => d[i].indent = n) =>
                BelowIn(d, P) = At(d, n, P)
<1>1. BelowIn(d, {0}) = Tops(d)
  <2>1. ASSUME NEW i \in BelowIn(d, {0}) PROVE i \in Tops(d)
    BY <2>1 DEF BelowIn, Tops
  <2>2. ASSUME NEW i \in Tops(d) PROVE i \in BelowIn(d, {0})
    BY <2>2, TopUp DEF BelowIn
  <2> QED BY <2>1, <2>2
<1>2. \A key : NamedIn(d, key) = Keyed(d, key)
  BY <1>1 DEF NamedIn, Keyed
<1>3. \A P, n : (\A i \in Entries(d) : Up(d, i) \in P => d[i].indent = n) =>
                BelowIn(d, P) = At(d, n, P)
  BY DEF BelowIn, At
<1> QED BY <1>1, <1>2, <1>3

\* The levels are disjoint, and so are the entries they belong to.
LEMMA LevelsApart ==
  ASSUME NEW d \in Seq(Lines)
  PROVE  /\ \A i \in Tops(d) : i \in Entries(d) /\ d[i].indent = 0 /\ Up(d, i) = 0
         /\ \A i \in Pkgs(d) : /\ i \in Entries(d) /\ d[i].indent = 2
                               /\ Up(d, i) \in Keyed(d, "packages")
         /\ \A i \in Imps(d) : /\ i \in Entries(d) /\ d[i].indent = 2
                               /\ Up(d, i) \in Keyed(d, "importers")
         /\ \A i \in Secs(d) : i \in Entries(d) /\ d[i].indent = 4 /\ Up(d, i) \in Imps(d)
         /\ \A i \in Deps(d) : i \in Entries(d) /\ d[i].indent = 6 /\ Up(d, i) \in Secs(d)
         /\ \A key : \A i \in Keyed(d, key) : i \in Tops(d) /\ d[i].key = key
BY TopUp DEF Tops, Keyed, Pkgs, Imps, Secs, Deps, At

LEMMA SiblingLevels ==
  ASSUME NEW d \in Seq(Lines),
         NEW i \in Tops(d) \cup Pkgs(d) \cup Imps(d) \cup Secs(d) \cup Deps(d),
         NEW j \in Tops(d) \cup Pkgs(d) \cup Imps(d) \cup Secs(d) \cup Deps(d),
         Up(d, i) = Up(d, j)
  PROVE  \/ i \in Tops(d) /\ j \in Tops(d)
         \/ i \in Pkgs(d) /\ j \in Pkgs(d)
         \/ i \in Imps(d) /\ j \in Imps(d)
         \/ i \in Secs(d) /\ j \in Secs(d)
         \/ i \in Deps(d) /\ j \in Deps(d)
<1> DEFINE u == Up(d, i)
<1>1. \A k \in Entries(d) : k # 0
  BY LineFacts
<1>3. /\ i \in Pkgs(d) => u \in Entries(d) /\ d[u].indent = 0 /\ d[u].key = "packages"
      /\ j \in Pkgs(d) => u \in Entries(d) /\ d[u].indent = 0 /\ d[u].key = "packages"
      /\ i \in Imps(d) => u \in Entries(d) /\ d[u].indent = 0 /\ d[u].key = "importers"
      /\ j \in Imps(d) => u \in Entries(d) /\ d[u].indent = 0 /\ d[u].key = "importers"
  BY LevelsApart
<1>4. /\ i \in Secs(d) => u \in Entries(d) /\ d[u].indent = 2
      /\ j \in Secs(d) => u \in Entries(d) /\ d[u].indent = 2
      /\ i \in Deps(d) => u \in Entries(d) /\ d[u].indent = 4
      /\ j \in Deps(d) => u \in Entries(d) /\ d[u].indent = 4
  BY LevelsApart
<1>5. /\ i \in Tops(d) => u = 0
      /\ j \in Tops(d) => u = 0
  BY LevelsApart
<1> HIDE DEF u
<1>6. u \in Entries(d) => u # 0
  BY <1>1
<1>7. CASE j \in Tops(d)
  <2>1. i \notin Pkgs(d) /\ i \notin Imps(d) /\ i \notin Secs(d) /\ i \notin Deps(d)
    BY <1>3, <1>4, <1>5, <1>6, <1>7
  <2> QED BY <2>1, <1>7
<1>8. CASE j \in Pkgs(d)
  <2>1. i \notin Tops(d) /\ i \notin Secs(d) /\ i \notin Deps(d)
    BY <1>3, <1>4, <1>5, <1>6, <1>8
  <2>2. i \notin Imps(d)
    BY <1>3, <1>8
  <2> QED BY <2>1, <2>2, <1>8
<1>9. CASE j \in Imps(d)
  <2>1. i \notin Tops(d) /\ i \notin Secs(d) /\ i \notin Deps(d)
    BY <1>3, <1>4, <1>5, <1>6, <1>9
  <2>2. i \notin Pkgs(d)
    BY <1>3, <1>9
  <2> QED BY <2>1, <2>2, <1>9
<1>10. CASE j \in Secs(d)
  <2>1. i \notin Tops(d) /\ i \notin Pkgs(d) /\ i \notin Imps(d) /\ i \notin Deps(d)
    BY <1>3, <1>4, <1>5, <1>6, <1>10
  <2> QED BY <2>1, <1>10
<1>11. CASE j \in Deps(d)
  <2>1. i \notin Tops(d) /\ i \notin Pkgs(d) /\ i \notin Imps(d) /\ i \notin Secs(d)
    BY <1>3, <1>4, <1>5, <1>6, <1>11
  <2> QED BY <2>1, <1>11
<1> QED BY <1>7, <1>8, <1>9, <1>10, <1>11

\* Every entry has the indentation of its level.
Levelled(d) ==
    /\ Placed(d)
    /\ \A i \in Entries(d) : /\ Up(d, i) \in Keyed(d, "importers") => d[i].indent = 2
                             /\ Up(d, i) \in Imps(d) => d[i].indent = 4
                             /\ Up(d, i) \in Secs(d) => d[i].indent = 6

LEMMA TreeSets ==
  ASSUME NEW d \in Seq(Lines), Levelled(d)
  PROVE  /\ Tree(d).top = Tops(d) /\ Tree(d).version = Keyed(d, "lockfileVersion")
         /\ Tree(d).packages = Pkgs(d) /\ Tree(d).importers = Imps(d)
         /\ Tree(d).sections = Secs(d) /\ Tree(d).dependencies = Deps(d)
         /\ Tree(d).details = BelowIn(d, Deps(d))
         /\ Tree(d).up = [i \in Entries(d) |-> Up(d, i)]
<1>1. /\ BelowIn(d, {0}) = Tops(d)
      /\ \A key : NamedIn(d, key) = Keyed(d, key)
      /\ \A P, n : (\A i \in Entries(d) : Up(d, i) \in P => d[i].indent = n) =>
                BelowIn(d, P) = At(d, n, P)
  BY TreeLevels DEF Levelled, Placed
<1>2. BelowIn(d, Keyed(d, "packages")) = Pkgs(d)
  BY <1>1 DEF Levelled, Placed, Pkgs
<1>3. BelowIn(d, Keyed(d, "importers")) = Imps(d)
  BY <1>1 DEF Levelled, Imps
<1>4. BelowIn(d, Imps(d)) = Secs(d)
  BY <1>1 DEF Levelled, Secs
<1>5. BelowIn(d, Secs(d)) = Deps(d)
  BY <1>1 DEF Levelled, Deps
<1> QED BY <1>1, <1>2, <1>3, <1>4, <1>5, TreeFields

\* The entries of a well-formed document have the indentation of their level.
LEMMA WellFormedLevelled ==
  ASSUME NEW d \in Seq(Lines), NEW p, p.lines = d, p.tree = Tree(d), WellFormed(p)
  PROVE  Levelled(d)
<1> DEFINE t == Tree(d)
<1>1. /\ \A i \in t.top : d[i].indent = 0
      /\ \A i \in t.packages \cup t.importers : d[i].indent = 2
      /\ \A i \in t.sections : d[i].indent = 4
      /\ \A i \in t.dependencies : d[i].indent = 6
  BY DEF WellFormed, Shaped
<1>2. /\ t.top = BelowIn(d, {0})
      /\ t.packages = BelowIn(d, NamedIn(d, "packages"))
      /\ t.importers = BelowIn(d, NamedIn(d, "importers"))
      /\ t.sections = BelowIn(d, BelowIn(d, NamedIn(d, "importers")))
      /\ t.dependencies = BelowIn(d, BelowIn(d, BelowIn(d, NamedIn(d, "importers"))))
  BY TreeFields
<1> HIDE DEF t
<1>3. \A i \in Entries(d) : Up(d, i) = 0 => d[i].indent = 0
  BY <1>1, <1>2 DEF BelowIn
<1>4. /\ BelowIn(d, {0}) = Tops(d)
      /\ \A key : NamedIn(d, key) = Keyed(d, key)
      /\ \A P, n : (\A i \in Entries(d) : Up(d, i) \in P => d[i].indent = n) =>
                BelowIn(d, P) = At(d, n, P)
  BY <1>3, TreeLevels
<1>5. \A i \in Entries(d) : Up(d, i) \in Keyed(d, "packages") => d[i].indent = 2
  BY <1>1, <1>2, <1>4 DEF BelowIn
<1>6. \A i \in Entries(d) : Up(d, i) \in Keyed(d, "importers") => d[i].indent = 2
  BY <1>1, <1>2, <1>4 DEF BelowIn
<1>7. t.importers = Imps(d)
  BY <1>2, <1>4, <1>6 DEF Imps
<1>8. \A i \in Entries(d) : Up(d, i) \in Imps(d) => d[i].indent = 4
  <2>1. t.sections = BelowIn(d, Imps(d))
    BY <1>2, <1>7
  <2> QED BY <1>1, <2>1 DEF BelowIn
<1>9. BelowIn(d, Imps(d)) = Secs(d)
  BY <1>4, <1>8 DEF Secs
<1>10. \A i \in Entries(d) : Up(d, i) \in Secs(d) => d[i].indent = 6
  <2>1. t.dependencies = BelowIn(d, Secs(d))
    BY <1>2, <1>7, <1>9
  <2> QED BY <1>1, <2>1 DEF BelowIn
<1> QED BY <1>3, <1>5, <1>6, <1>8, <1>10 DEF Levelled, Placed

\* A well-formed document is in shape, and complete.
LEMMA WellFormedShape ==
  ASSUME NEW d \in Seq(Lines), NEW p, p.lines = d, p.tree = Tree(d), WellFormed(p)
  PROVE  /\ Shape(d) /\ Placed(d) /\ Pkgs(d) # {}
         /\ {"lockfileVersion", "packages"} \subseteq KeySet(d, Tops(d))
<1> DEFINE t == Tree(d)
<1>1. Levelled(d)
  BY WellFormedLevelled
<1>2. /\ t.top = Tops(d) /\ t.version = Keyed(d, "lockfileVersion")
      /\ t.packages = Pkgs(d) /\ t.importers = Imps(d)
      /\ t.sections = Secs(d) /\ t.dependencies = Deps(d)
      /\ t.details = BelowIn(d, Deps(d)) /\ t.up = [i \in Entries(d) |-> Up(d, i)]
  BY <1>1, TreeSets
<1>3. p.tree = t
  OBVIOUS
<1> HIDE DEF t
<1>4. /\ Clean(d) /\ Keyed(d, "lockfileVersion") # {} /\ Pkgs(d) # {}
      /\ Shaped(p, Tops(d), 0, Values)
      /\ Shaped(p, Keyed(d, "lockfileVersion"), 0, {"9.0"})
      /\ Shaped(p, {i \in Tops(d) : d[i].key = "importers"}, 0, {"block", "{}"})
      /\ Shaped(p, Pkgs(d), 2, {"block"}) /\ Shaped(p, Imps(d), 2, {"block", "{}"})
      /\ Shaped(p, Secs(d), 4, {"block", "{}"}) /\ Shaped(p, Deps(d), 6, Values)
      /\ KeysOf(p, Pkgs(d)) \subseteq DOMAIN Locators /\ KeysOf(p, Deps(d)) \subseteq Names
  BY <1>2, <1>3 DEF WellFormed, Clean
<1>5. \A i \in Pkgs(d) \cup Imps(d) \cup Secs(d) \cup Deps(d) \cup BelowIn(d, Deps(d)) :
          d[Up(d, i)].value = "block"
  <2>1. \A i \in Pkgs(d) \cup Imps(d) \cup Secs(d) \cup Deps(d) \cup BelowIn(d, Deps(d)) :
            i \in Entries(d) /\ d[t.up[i]].value = "block"
    BY <1>2, <1>3, LevelSubsets DEF WellFormed, BelowIn
  <2> QED BY <2>1, <1>2, ZenonT(60)
<1>6. SiblingsDiffer(p, Tops(d) \cup Pkgs(d) \cup Imps(d) \cup Secs(d) \cup Deps(d))
  BY <1>2, <1>3 DEF WellFormed
<1>7. ASSUME NEW I, I \subseteq Tops(d) \cup Pkgs(d) \cup Imps(d) \cup Secs(d) \cup Deps(d)
      PROVE  Distinct(d, I)
  <2>1. Tops(d) \cup Pkgs(d) \cup Imps(d) \cup Secs(d) \cup Deps(d) \subseteq Entries(d)
    BY LevelSubsets
  <2> QED BY <1>2, <1>3, <1>6, <1>7, <2>1 DEF SiblingsDiffer, Distinct
<1>8. PICK q \in Pkgs(d) : TRUE
  BY <1>4
<1>9. Up(d, q) \in Keyed(d, "packages") /\ d[Up(d, q)].value = "block"
  BY <1>5, LevelsApart
<1>10. TopsOK(d)
  <2>1. Distinct(d, Tops(d))
    BY <1>7
  <2>2. ASSUME NEW i \in Tops(d), d[i].key = "packages" PROVE d[i].value = "block"
    <3>1. Up(d, q) \in Tops(d) /\ d[Up(d, q)].key = "packages"
      BY <1>9, LevelsApart
    <3>2. Up(d, i) = 0 /\ Up(d, Up(d, q)) = 0
      BY <3>1, LevelsApart
    <3>3. i = Up(d, q)
      BY <2>1, <2>2, <3>1, <3>2 DEF Distinct
    <3> QED BY <1>9, <3>3
  <2>3. \A i \in Tops(d) : /\ d[i].key # NotAMapping
                           /\ d[i].key = "lockfileVersion" => d[i].value = "9.0"
                           /\ d[i].key = "importers" => d[i].value \in {"block", "{}"}
    BY <1>4, ZenonT(60) DEF Shaped, Keyed
  <2> QED BY <2>1, <2>2, <2>3 DEF TopsOK
<1>11. PkgsOK(d)
  <2>1. Distinct(d, Pkgs(d))
    BY <1>7
  <2> QED BY <1>4, <2>1, ZenonT(60) DEF PkgsOK, Shaped, KeysOf
<1>12. LevelOK(d, Keyed(d, "importers"), 2)
  <2>1. Distinct(d, Imps(d))
    BY <1>7
  <2>2. ASSUME NEW i \in Entries(d), Up(d, i) \in Keyed(d, "importers") PROVE i \in Imps(d)
    BY <1>1, <2>2 DEF Levelled, Imps, At
  <2> QED BY <1>4, <1>5, <2>1, <2>2, LevelsApart, ZenonT(60) DEF LevelOK, Shaped, Imps
<1>13. LevelOK(d, Imps(d), 4)
  <2>1. Distinct(d, Secs(d))
    BY <1>7
  <2>2. ASSUME NEW i \in Entries(d), Up(d, i) \in Imps(d) PROVE i \in Secs(d)
    BY <1>1, <2>2 DEF Levelled, Secs, At
  <2> QED BY <1>4, <1>5, <2>1, <2>2, LevelsApart, ZenonT(60) DEF LevelOK, Shaped, Secs
<1>14. DepsOK(d)
  <2>1. Distinct(d, Deps(d))
    BY <1>7
  <2>2. ASSUME NEW i \in Entries(d), Up(d, i) \in Secs(d) PROVE i \in Deps(d)
    BY <1>1, <2>2 DEF Levelled, Deps, At
  <2>3. \A i \in Deps(d) : d[i].indent = 6 /\ d[i].key \in Names /\ d[Up(d, i)].value = "block"
    BY <1>4, <1>5, LevelsApart, ZenonT(60) DEF KeysOf
  <2> QED BY <2>1, <2>2, <2>3 DEF DepsOK
<1>15. DetailsOK(d)
  BY <1>5 DEF DetailsOK, BelowIn
<1>16. {"lockfileVersion", "packages"} \subseteq KeySet(d, Tops(d))
  BY <1>4, <1>9, ZenonT(60) DEF KeySet, Keyed
<1>17. Shape(d)
  BY <1>4, <1>10, <1>11, <1>12, <1>13, <1>14, <1>15 DEF Shape
<1> QED BY <1>1, <1>4, <1>16, <1>17 DEF Levelled

\* In a document that is in shape, complete and indented as YAML is, every entry has
\* the indentation of its level.
LEMMA ShapeLevelled ==
  ASSUME NEW d \in Seq(Lines), NEW p, p.lines = d, p.tree = Tree(d),
         Shape(d), Yaml(p), Pkgs(d) # {}
  PROVE  Levelled(d)
<1>1. \A i, j \in Entries(d) : Up(d, i) = Up(d, j) => d[i].indent = d[j].indent
  <2>1. p.tree.up = [i \in Entries(d) |-> Up(d, i)]
    BY TreeFields
  <2> QED BY <2>1 DEF Yaml
<1>2. PICK q \in Pkgs(d) : TRUE
  OBVIOUS
<1>3. q \in Entries(d) /\ d[q].indent = 2 /\ Up(d, q) \in Keyed(d, "packages")
  BY LevelsApart
<1>4. Up(d, q) \in Tops(d) /\ d[Up(d, q)].key = "packages"
  BY <1>3, LevelsApart
<1>5. Up(d, q) \in Entries(d) /\ d[Up(d, q)].indent = 0 /\ Up(d, Up(d, q)) = 0
  BY <1>4, LevelsApart
<1>6. ASSUME NEW i \in Entries(d), Up(d, i) = 0 PROVE d[i].indent = 0
  BY <1>1, <1>5, <1>6
<1>7. ASSUME NEW i \in Entries(d), Up(d, i) \in Keyed(d, "packages") PROVE d[i].indent = 2
  <2>1. Up(d, i) \in Tops(d) /\ d[Up(d, i)].key = "packages" /\ Up(d, Up(d, i)) = 0
    BY <1>7, LevelsApart
  <2>2. Distinct(d, Tops(d))
    BY DEF Shape, TopsOK
  <2>3. Up(d, i) = Up(d, q)
    BY <1>4, <1>5, <2>1, <2>2 DEF Distinct
  <2> QED BY <1>1, <1>3, <2>3
<1>8. Placed(d)
  BY <1>6, <1>7 DEF Placed
<1> QED BY <1>8, ZenonT(60) DEF Levelled, Shape, LevelOK, DepsOK

\* It is well-formed then.
LEMMA ShapeWellFormed ==
  ASSUME NEW d \in Seq(Lines), NEW p, p.lines = d, p.tree = Tree(d),
         Shape(d), Yaml(p), Pkgs(d) # {},
         {"lockfileVersion", "packages"} \subseteq KeySet(d, Tops(d))
  PROVE  WellFormed(p)
<1> DEFINE t == Tree(d)
<1>1. Levelled(d)
  BY ShapeLevelled
<1>2. /\ t.top = Tops(d) /\ t.version = Keyed(d, "lockfileVersion")
      /\ t.packages = Pkgs(d) /\ t.importers = Imps(d)
      /\ t.sections = Secs(d) /\ t.dependencies = Deps(d)
      /\ t.details = BelowIn(d, Deps(d)) /\ t.up = [i \in Entries(d) |-> Up(d, i)]
  BY <1>1, TreeSets
<1>3. p.tree = t
  OBVIOUS
<1> HIDE DEF t
<1>4. /\ TopsOK(d) /\ PkgsOK(d)
      /\ LevelOK(d, Keyed(d, "importers"), 2) /\ LevelOK(d, Imps(d), 4)
      /\ DepsOK(d) /\ DetailsOK(d) /\ Clean(d)
  BY DEF Shape
<1>5. \A i \in Entries(d) : d[i].value \in Values
  BY LineFacts
<1>6. Shaped(p, Tops(d), 0, Values)
  BY <1>4, <1>5, LevelsApart DEF Shaped, TopsOK
<1>7. Shaped(p, Keyed(d, "lockfileVersion"), 0, {"9.0"})
  <2>1. ASSUME NEW i \in Keyed(d, "lockfileVersion")
        PROVE  d[i].indent = 0 /\ d[i].key # NotAMapping /\ d[i].value \in {"9.0"}
    <3>1. i \in Tops(d) /\ d[i].key = "lockfileVersion" /\ d[i].indent = 0
      BY LevelsApart
    <3> QED BY <3>1, <1>4 DEF TopsOK
  <2> QED BY <2>1 DEF Shaped
<1>8. Shaped(p, {i \in Tops(d) : d[i].key = "importers"}, 0, {"block", "{}"})
  <2>1. ASSUME NEW i \in Tops(d), d[i].key = "importers"
        PROVE  d[i].indent = 0 /\ d[i].key # NotAMapping /\ d[i].value \in {"block", "{}"}
    BY <1>4, <2>1, LevelsApart DEF TopsOK
  <2> QED BY <2>1 DEF Shaped
<1>9. Shaped(p, Pkgs(d), 2, {"block"}) /\ KeysOf(p, Pkgs(d)) \subseteq DOMAIN Locators
  <2>1. ASSUME NEW i \in Pkgs(d)
        PROVE  /\ d[i].indent = 2 /\ d[i].key # NotAMapping /\ d[i].value \in {"block"}
               /\ d[i].key \in DOMAIN Locators
    BY <1>4, LevelsApart, LockAssumption DEF PkgsOK
  <2> QED BY <2>1 DEF Shaped, KeysOf
<1>10. \A i \in Imps(d) : /\ d[i].indent = 2 /\ d[i].key # NotAMapping
                          /\ d[i].value \in {"block", "{}"} /\ d[Up(d, i)].value = "block"
  BY <1>4, LevelsApart, ZenonT(60) DEF LevelOK
<1>11. \A i \in Secs(d) : /\ d[i].indent = 4 /\ d[i].key # NotAMapping
                          /\ d[i].value \in {"block", "{}"} /\ d[Up(d, i)].value = "block"
  BY <1>4, LevelsApart DEF LevelOK
<1>12. \A i \in Deps(d) : /\ d[i].indent = 6 /\ d[i].key \in Names /\ d[i].key # NotAMapping
                          /\ d[i].value \in Values /\ d[Up(d, i)].value = "block"
  BY <1>4, <1>5, LevelsApart, LockAssumption DEF DepsOK
<1>13. ASSUME NEW i \in Pkgs(d) PROVE d[Up(d, i)].value = "block"
  <2>1. Up(d, i) \in Tops(d) /\ d[Up(d, i)].key = "packages"
    BY LevelsApart
  <2> QED BY <1>4, <2>1 DEF TopsOK
<1>14. \A i \in BelowIn(d, Deps(d)) : d[Up(d, i)].value = "block"
  BY <1>4 DEF DetailsOK, BelowIn
<1>15. Pkgs(d) \cup Imps(d) \cup Secs(d) \cup Deps(d) \cup BelowIn(d, Deps(d)) \subseteq Entries(d)
  BY LevelSubsets DEF BelowIn
<1>16. \A i \in Pkgs(d) \cup Imps(d) \cup Secs(d) \cup Deps(d) \cup BelowIn(d, Deps(d)) :
          d[Up(d, i)].value = "block"
  BY <1>10, <1>11, <1>12, <1>13, <1>14, ZenonT(60)
<1>17. SiblingsDiffer(p, Tops(d) \cup Pkgs(d) \cup Imps(d) \cup Secs(d) \cup Deps(d))
  <2> DEFINE I == Tops(d) \cup Pkgs(d) \cup Imps(d) \cup Secs(d) \cup Deps(d)
  <2>1. /\ Distinct(d, Tops(d)) /\ Distinct(d, Pkgs(d)) /\ Distinct(d, Imps(d))
        /\ Distinct(d, Secs(d)) /\ Distinct(d, Deps(d))
    BY <1>4 DEF TopsOK, PkgsOK, LevelOK, DepsOK, Imps, Secs
  <2>2. ASSUME NEW i \in I, NEW j \in I, Up(d, i) = Up(d, j), d[i].key = d[j].key PROVE i = j
    <3>1. \/ i \in Tops(d) /\ j \in Tops(d)
          \/ i \in Pkgs(d) /\ j \in Pkgs(d)
          \/ i \in Imps(d) /\ j \in Imps(d)
          \/ i \in Secs(d) /\ j \in Secs(d)
          \/ i \in Deps(d) /\ j \in Deps(d)
      BY <2>2, SiblingLevels
    <3> QED BY <2>1, <2>2, <3>1 DEF Distinct
  <2>3. I \subseteq Entries(d)
    BY LevelSubsets
  <2>4. \A i \in I : p.tree.up[i] = Up(d, i)
    BY <1>2, <1>3, <2>3
  <2> HIDE DEF I
  <2>5. SiblingsDiffer(p, I)
    BY <2>2, <2>4 DEF SiblingsDiffer
  <2> QED BY <2>5 DEF I
<1>18. Keyed(d, "lockfileVersion") # {}
  BY DEF KeySet, Keyed
<1>19. \A i \in Pkgs(d) \cup Imps(d) \cup Secs(d) \cup Deps(d) \cup BelowIn(d, Deps(d)) :
          d[t.up[i]].value = "block"
  BY <1>2, <1>15, <1>16
<1>20. /\ Shaped(p, Imps(d), 2, {"block", "{}"}) /\ Shaped(p, Secs(d), 4, {"block", "{}"})
       /\ Shaped(p, Deps(d), 6, Values) /\ KeysOf(p, Deps(d)) \subseteq Names
  <2>1. Shaped(p, Imps(d), 2, {"block", "{}"})
    BY <1>10 DEF Shaped
  <2>2. Shaped(p, Secs(d), 4, {"block", "{}"})
    BY <1>11 DEF Shaped
  <2>3. Shaped(p, Deps(d), 6, Values)
    BY <1>12 DEF Shaped
  <2>4. KeysOf(p, Deps(d)) \subseteq Names
    BY <1>12 DEF KeysOf
  <2> QED BY <2>1, <2>2, <2>3, <2>4
<1>21. \A i \in DOMAIN p.lines :
          p.lines[i].kind \in {"blank", "comment", "entry"} /\ p.lines[i].indent % 2 = 0
  BY <1>4 DEF Clean
<1> HIDE DEF SiblingsDiffer, Shaped, KeysOf
<1> QED BY <1>2, <1>3, <1>6, <1>7, <1>8, <1>9, <1>17, <1>18, <1>19, <1>20, <1>21, ZenonT(60) DEF WellFormed

\* The inventory the reader made of a document is that of its tree.
LEMMA DocumentInventory ==
  ASSUME NEW d \in Seq(Lines), NEW p, p.lines = d, p.tree = Tree(d),
         Levelled(d), NEW doc, DocumentOf(doc, d)
  PROVE  Inventory(doc) = TreeInventory(p)
<1> DEFINE t == Tree(d)
           inventory == [body |-> Trim(d), packages |-> KeySet(d, Pkgs(d)),
                         direct |-> DirectOf(d), counts |-> CountsOf(d)]
<1>1. t.packages = Pkgs(d) /\ t.dependencies = Deps(d) /\ t.up = [i \in Entries(d) |-> Up(d, i)]
  BY TreeSets
<1>2. p.tree = t
  OBVIOUS
<1>3. Inventory(doc) = inventory
  <2>1. doc = [body |-> Trim(d), packages |-> doc.packages, direct |-> doc.direct,
               counts |-> CountsOf(d)]
    BY DEF DocumentOf
  <2>2. Range(doc.packages) = KeySet(d, Pkgs(d)) /\ Range(doc.direct) = DirectOf(d)
    BY DEF DocumentOf
  <2>3. Inventory(doc) = [body |-> Trim(d), packages |-> Range(doc.packages),
                          direct |-> Range(doc.direct), counts |-> CountsOf(d)]
    BY <2>1 DEF Inventory
  <2> QED BY <2>2, <2>3
<1> HIDE DEF t
<1>4. ASSUME NEW i \in Deps(d)
      PROVE  p.tree.up[i] = Up(d, i) /\ p.tree.up[p.tree.up[i]] = Up(d, Up(d, i))
  <2>1. i \in Entries(d) /\ Up(d, i) \in Entries(d)
    BY LevelsApart
  <2> QED BY <1>1, <1>2, <2>1
<1>5. KeysOf(p, p.tree.packages) = KeySet(d, Pkgs(d))
  BY <1>1, <1>2 DEF KeysOf, KeySet
<1> DEFINE SK(i) == p.lines[p.tree.up[i]].key
           IK(i) == p.lines[p.tree.up[p.tree.up[i]]].key
<1>6. \A i \in Deps(d) : SK(i) = SectionKey(d, i) /\ IK(i) = d[Up(d, Up(d, i))].key
  BY <1>4 DEF SectionKey
<1>7. TreeInventory(p) =
        [body |-> Trim(d), packages |-> KeySet(d, Pkgs(d)),
         direct |-> {[importer |-> IK(i), name |-> d[i].key,
                      section |-> SK(i), scope |-> ScopeOf(SK(i))] : i \in Deps(d)},
         counts |-> [s \in Scopes |-> Cardinality({i \in Deps(d) : ScopeOf(SK(i)) = s})]]
  BY <1>1, <1>2, <1>5, ZenonT(60) DEF TreeInventory
<1> HIDE DEF SK, IK
<1>8. {[importer |-> IK(i), name |-> d[i].key, section |-> SK(i), scope |-> ScopeOf(SK(i))] :
          i \in Deps(d)} = DirectOf(d)
  BY <1>6 DEF DirectOf, DirectAt
<1>9. \A s \in Scopes : {i \in Deps(d) : ScopeOf(SK(i)) = s} = InScope(d, s)
  BY <1>6 DEF InScope
<1>10. [s \in Scopes |-> Cardinality({i \in Deps(d) : ScopeOf(SK(i)) = s})] = CountsOf(d)
  BY <1>9 DEF CountsOf
<1> QED BY <1>3, <1>7, <1>8, <1>10

-----------------------------------------------------------------------------
(* What one more line changes *)

LEMMA LongerLines ==
  ASSUME NEW d \in Seq(Lines), NEW l \in Lines, NEW e, e = Longer(d, l)
  PROVE  /\ e \in Seq(Lines) /\ Len(e) = Len(d) + 1 /\ e[Len(d) + 1] = l
         /\ Len(d) \in Nat /\ Len(d) + 1 \notin Entries(d) /\ 0 \notin Entries(d)
         /\ Content(l) => Up(e, Len(d) + 1) = Anc(d, l.indent)
         /\ Content(l) => Len(d) + 1 \in Entries(e)
<1>1. Entries(d) \subseteq 1 .. Len(d) /\ Len(d) \in Nat
  BY LineFacts
<1>5. Content(l) => Up(e, Len(d) + 1) = Anc(d, l.indent)
  BY AppendUp DEF Longer
<1>6. e \in Seq(Lines) /\ Len(e) = Len(d) + 1 /\ e[Len(d) + 1] = l
  BY AppendLine DEF Longer
<1>8. Content(l) => Len(d) + 1 \in Entries(e)
  BY AppendLine DEF Longer
<1> QED BY <1>1, <1>5, <1>6, <1>8

LEMMA LongerOld ==
  ASSUME NEW d \in Seq(Lines), NEW l \in Lines, NEW e, e = Longer(d, l), NEW i \in Entries(d)
  PROVE  /\ e[i] = d[i] /\ Up(e, i) = Up(d, i) /\ Up(d, i) # Len(d) + 1
         /\ i \in 1 .. Len(d) /\ (Up(d, i) # 0 => Up(d, i) \in Entries(d))
<1>1. Entries(d) \subseteq 1 .. Len(d) /\ Len(d) \in Nat
  BY LineFacts
<1>2. Up(d, i) \in 0 .. (i - 1) /\ (Up(d, i) # 0 => Up(d, i) \in Entries(d))
  BY UpFacts
<1>3. Up(e, i) = Up(d, i)
  BY AppendUp DEF Longer
<1>4. e[i] = d[i]
  BY <1>1, AppendLine DEF Longer
<1> QED BY <1>1, <1>2, <1>3, <1>4

LEMMA LongerAnc ==
  ASSUME NEW d \in Seq(Lines), NEW l \in Lines, NEW e, e = Longer(d, l), NEW k \in Nat
  PROVE  /\ Content(l) /\ l.indent < k => Anc(e, k) = Len(d) + 1
         /\ ~(Content(l) /\ l.indent < k) => Anc(e, k) = Anc(d, k)
BY AppendAnc DEF Longer

LEMMA LongerLevels ==
  ASSUME NEW d \in Seq(Lines), NEW l \in Lines, NEW e, e = Longer(d, l)
  PROVE  /\ Pkgs(e) = Pkgs(d) \cup Added(d, l, 2, Keyed(d, "packages"))
         /\ Imps(e) = Imps(d) \cup Added(d, l, 2, Keyed(d, "importers"))
         /\ Secs(e) = Secs(d) \cup Added(d, l, 4, Imps(d))
         /\ Deps(e) = Deps(d) \cup Added(d, l, 6, Secs(d))
BY AppendLevels DEF Longer

LEMMA LongerTops ==
  ASSUME NEW d \in Seq(Lines), NEW l \in Lines, NEW e, e = Longer(d, l)
  PROVE  /\ Content(l) /\ l.indent = 0 =>
                /\ Tops(e) = Tops(d) \cup {Len(d) + 1}
                /\ Keyed(e, l.key) = Keyed(d, l.key) \cup {Len(d) + 1}
                /\ \A k : k # l.key => Keyed(e, k) = Keyed(d, k)
         /\ ~(Content(l) /\ l.indent = 0) =>
                Tops(e) = Tops(d) /\ \A k : Keyed(e, k) = Keyed(d, k)
<1>1. Tops(e) = Tops(d) \cup (IF Content(l) /\ l.indent = 0 THEN {Len(d) + 1} ELSE {})
  BY AppendTops DEF Longer
<1>2. ASSUME NEW k
      PROVE  Keyed(e, k) = Keyed(d, k) \cup (IF Content(l) /\ l.indent = 0 /\ l.key = k
                                            THEN {Len(d) + 1} ELSE {})
  BY AppendTops DEF Longer
<1>3. CASE Content(l) /\ l.indent = 0
  <2>1. Tops(e) = Tops(d) \cup {Len(d) + 1}
    BY <1>1, <1>3
  <2>2. Keyed(e, l.key) = Keyed(d, l.key) \cup {Len(d) + 1}
    BY <1>2, <1>3
  <2>3. ASSUME NEW k, k # l.key PROVE Keyed(e, k) = Keyed(d, k)
    BY <1>2, <1>3, <2>3, ZenonT(60)
  <2> QED BY <1>3, <2>1, <2>2, <2>3
<1>4. CASE ~(Content(l) /\ l.indent = 0)
  BY <1>1, <1>2, <1>4
<1> QED BY <1>3, <1>4

LEMMA LongerSameKeys ==
  ASSUME NEW d \in Seq(Lines), NEW l \in Lines, NEW e, e = Longer(d, l),
         NEW I, I \subseteq Entries(d)
  PROVE  KeySet(e, I) = KeySet(d, I)
<1>1. ASSUME NEW i \in I PROVE e[i] = d[i]
  BY LongerOld
<1> QED BY <1>1 DEF KeySet

LEMMA LongerKeys ==
  ASSUME NEW d \in Seq(Lines), NEW l \in Lines, NEW e, e = Longer(d, l),
         NEW I, I \subseteq Entries(d)
  PROVE  KeySet(e, I \cup {Len(d) + 1}) = KeySet(d, I) \cup {l.key}
<1>1. ASSUME NEW i \in I PROVE e[i] = d[i]
  BY LongerOld
<1>2. e[Len(d) + 1] = l
  BY LongerLines
<1> QED BY <1>1, <1>2 DEF KeySet

\* What the dependencies say is not changed by a next line.
LEMMA LongerDirect ==
  ASSUME NEW d \in Seq(Lines), NEW l \in Lines, NEW e, e = Longer(d, l), NEW i \in Deps(d)
  PROVE  /\ SectionKey(e, i) = SectionKey(d, i) /\ DirectAt(e, i) = DirectAt(d, i)
         /\ Up(e, Up(e, i)) = Up(d, Up(d, i)) /\ e[i] = d[i] /\ Up(e, i) = Up(d, i)
<1>1. i \in Entries(d) /\ Up(d, i) \in Secs(d)
  BY LevelsApart
<1>2. Up(d, i) \in Entries(d) /\ Up(d, Up(d, i)) \in Imps(d)
  BY <1>1, LevelsApart
<1>3. Up(d, Up(d, i)) \in Entries(d)
  BY <1>2, LevelsApart
<1>4. ASSUME NEW j \in Entries(d) PROVE e[j] = d[j] /\ Up(e, j) = Up(d, j)
  BY LongerOld
<1>5. Up(e, i) = Up(d, i) /\ Up(e, Up(d, i)) = Up(d, Up(d, i))
  BY <1>1, <1>2, <1>4
<1>6. e[i] = d[i] /\ e[Up(d, i)] = d[Up(d, i)] /\ e[Up(d, Up(d, i))] = d[Up(d, Up(d, i))]
  BY <1>1, <1>2, <1>3, <1>4
<1>7. SectionKey(e, i) = SectionKey(d, i)
  BY <1>5, <1>6 DEF SectionKey
<1>8. Up(e, Up(e, i)) = Up(d, Up(d, i))
  BY <1>5
<1>9. DirectAt(e, i) = DirectAt(d, i)
  BY <1>6, <1>7, <1>8 DEF DirectAt
<1> QED BY <1>5, <1>6, <1>7, <1>8, <1>9

-----------------------------------------------------------------------------
(* What the reader knows after one more line *)

\* The top-level keys and the section after a line that is not at the top.
LEMMA TopSame ==
  ASSUME NEW d \in Seq(Lines), NEW l \in Lines, NEW e, e = Longer(d, l),
         TopState(d), ~(Content(l) /\ l.indent < 2), UNCHANGED <<seenKeys, section>>
  PROVE  TopState(e)'
<1>1. Tops(e) = Tops(d)
  BY LongerTops, LockAssumption
<1>2. Anc(e, 2) = Anc(d, 2)
  BY LongerAnc
<1>3. KeySet(e, Tops(e)) = KeySet(d, Tops(d))
  <2>1. Tops(d) \subseteq Entries(d)
    BY LevelSubsets
  <2>2. KeySet(e, Tops(d)) = KeySet(d, Tops(d))
    BY <2>1, LongerSameKeys
  <2> QED BY <1>1, <2>2
<1>4. Anc(d, 2) # 0 => e[Anc(d, 2)] = d[Anc(d, 2)]
  BY AncFacts, LongerOld, SMTT(40)
<1> QED BY <1>2, <1>3, <1>4 DEF TopState

LEMMA TopNew ==
  ASSUME NEW d \in Seq(Lines), NEW l \in Lines, NEW e, e = Longer(d, l),
         TopState(d), Content(l), l.indent = 0,
         seenKeys' = seenKeys \cup {l.key}, section' = [key |-> l.key, value |-> l.value]
  PROVE  TopState(e)'
<1>1. Tops(e) = Tops(d) \cup {Len(d) + 1}
  BY LongerTops
<1>2. Anc(e, 2) = Len(d) + 1
  BY LongerAnc
<1>4. Len(d) \in Nat /\ e[Len(d) + 1] = l
  BY LongerLines
<1>3. KeySet(e, Tops(e)) = KeySet(d, Tops(d)) \cup {l.key}
  <2>1. Tops(d) \subseteq Entries(d)
    BY LevelSubsets
  <2> QED BY <1>1, <2>1, LongerKeys
<1> QED BY <1>2, <1>3, <1>4 DEF TopState

LEMMA PackageSame ==
  ASSUME NEW d \in Seq(Lines), NEW l \in Lines, NEW e, e = Longer(d, l),
         PackageState(d), Pkgs(e) = Pkgs(d), UNCHANGED packages
  PROVE  PackageState(e)'
<1>1. KeySet(e, Pkgs(e)) = KeySet(d, Pkgs(d))
  <2>1. Pkgs(d) \subseteq Entries(d)
    BY LevelSubsets
  <2>2. KeySet(e, Pkgs(d)) = KeySet(d, Pkgs(d))
    BY <2>1, LongerSameKeys
  <2> QED BY <2>2
<1> QED BY <1>1 DEF PackageState

LEMMA PackageNew ==
  ASSUME NEW d \in Seq(Lines), NEW l \in Lines, NEW e, e = Longer(d, l),
         PackageState(d), Pkgs(e) = Pkgs(d) \cup {Len(d) + 1},
         l.key \in DOMAIN Locators, l.key \notin Range(packages),
         packages' = Append(packages, l.key)
  PROVE  PackageState(e)'
<1>1. KeySet(e, Pkgs(e)) = KeySet(d, Pkgs(d)) \cup {l.key}
  <2>1. Pkgs(d) \subseteq Entries(d)
    BY LevelSubsets
  <2>2. KeySet(e, Pkgs(d) \cup {Len(d) + 1}) = KeySet(d, Pkgs(d)) \cup {l.key}
    BY ONLY <2>1, d \in Seq(Lines), l \in Lines, e = Longer(d, l), LongerKeys
  <2> QED BY <2>2
<1>2. packages \in Seq(DOMAIN Locators)
  BY DEF PackageState
<1>3. packages' \in Seq(DOMAIN Locators)
  BY <1>2
<1>4. /\ Len(packages') = Len(packages) + 1 /\ packages'[Len(packages) + 1] = l.key
      /\ \A i \in 1 .. Len(packages) : packages'[i] = packages[i]
  BY <1>2
<1>5. Range(packages') = Range(packages) \cup {l.key}
  BY <1>2, <1>3, <1>4 DEF Range
<1>6. IsInjective(packages')
  <2> SUFFICES ASSUME NEW a \in 1 .. Len(packages) + 1, NEW b \in 1 .. Len(packages) + 1,
                      packages'[a] = packages'[b]
               PROVE  a = b
    BY <1>2, <1>3, <1>4 DEF IsInjective
  <2>1. \A i \in 1 .. Len(packages) : packages'[i] # l.key
    BY <1>2, <1>4 DEF Range
  <2> QED BY <1>2, <1>4, <2>1 DEF PackageState, IsInjective
<1> QED BY <1>1, <1>3, <1>5, <1>6 DEF PackageState

LEMMA ScopeFinite ==
  ASSUME NEW d \in Seq(Lines), NEW s
  PROVE  IsFiniteSet(InScope(d, s)) /\ Cardinality(InScope(d, s)) \in Nat
<1>1. IsFiniteSet(1 .. Len(d))
  BY LineFacts, FS_Interval
<1>2. InScope(d, s) \subseteq 1 .. Len(d)
  BY LineFacts, LevelSubsets DEF InScope
<1>3. IsFiniteSet(InScope(d, s))
  BY <1>1, <1>2, FS_Subset
<1> QED BY <1>3, FS_CardinalityType

LEMMA DirectSame ==
  ASSUME NEW d \in Seq(Lines), NEW l \in Lines, NEW e, e = Longer(d, l),
         DirectState(d), Deps(e) = Deps(d), UNCHANGED <<direct, scopeCounts>>
  PROVE  DirectState(e)'
<1>1. ASSUME NEW i \in Deps(d) PROVE SectionKey(e, i) = SectionKey(d, i) /\ DirectAt(e, i) = DirectAt(d, i)
  BY LongerDirect
<1>2. DirectOf(e) = DirectOf(d)
  BY <1>1 DEF DirectOf
<1>3. \A s \in Scopes : InScope(e, s) = InScope(d, s)
  BY <1>1 DEF InScope
<1>4. CountsOf(e) = CountsOf(d)
  BY <1>3 DEF CountsOf
<1> QED BY <1>2, <1>4 DEF DirectState

\* One more dependency: its record, and one more in its scope.
LEMMA DirectNew ==
  ASSUME NEW d \in Seq(Lines), NEW l \in Lines, NEW e, e = Longer(d, l),
         DirectState(d), Deps(e) = Deps(d) \cup {Len(d) + 1},
         NEW r, r = DirectAt(e, Len(d) + 1),
         direct' = Append(direct, r),
         scopeCounts' = [scopeCounts EXCEPT ![r.scope] = @ + 1]
  PROVE  DirectState(e)'
<1> DEFINE n == Len(d) + 1
<1>1. ASSUME NEW i \in Deps(d) PROVE SectionKey(e, i) = SectionKey(d, i) /\ DirectAt(e, i) = DirectAt(d, i)
  BY LongerDirect
<1>2. DirectOf(e) = DirectOf(d) \cup {r}
  BY <1>1 DEF DirectOf
<1>7. direct \in Seq(DirectOf(d))
  BY DEF DirectState
<1>8. direct' \in Seq(DirectOf(e))
  <2>1. direct \in Seq(DirectOf(e)) /\ r \in DirectOf(e)
    BY <1>2, <1>7
  <2> QED BY <2>1
<1>3. Range(direct') = Range(direct) \cup {r}
  <2>1. /\ DOMAIN direct = 1 .. Len(direct) /\ Len(direct) \in Nat
        /\ DOMAIN Append(direct, r) = 1 .. (Len(direct) + 1)
        /\ Append(direct, r)[Len(direct) + 1] = r
        /\ \A i \in 1 .. Len(direct) : Append(direct, r)[i] = direct[i]
    BY <1>7
  <2> QED BY <2>1 DEF Range
<1>4. r.scope = ScopeOf(SectionKey(e, n)) /\ r.scope \in Scopes
  BY DEF DirectAt, ScopeOf, Scopes
<1>5. ASSUME NEW s \in Scopes
      PROVE  Cardinality(InScope(e, s)) = Cardinality(InScope(d, s)) + (IF s = r.scope THEN 1 ELSE 0)
  <2>1. n \notin InScope(d, s)
    BY LongerLines, LevelSubsets DEF InScope
  <2>2. IsFiniteSet(InScope(d, s)) /\ Cardinality(InScope(d, s)) \in Nat
    BY ScopeFinite
  <2>3. CASE s = r.scope
    <3>1. InScope(e, s) = InScope(d, s) \cup {n}
      BY <1>1, <1>4, <2>3 DEF InScope
    <3>2. Cardinality(InScope(d, s) \cup {n}) = Cardinality(InScope(d, s)) + 1
      BY <2>1, <2>2, FS_AddElement
    <3> QED BY <2>3, <3>1, <3>2
  <2>4. CASE s # r.scope
    <3>1. InScope(e, s) = InScope(d, s)
      BY <1>1, <1>4, <2>4 DEF InScope
    <3> QED BY <2>2, <2>4, <3>1
  <2> QED BY <2>3, <2>4
<1>6. CountsOf(e) = [CountsOf(d) EXCEPT ![r.scope] = @ + 1]
  <2>1. \A s \in Scopes : Cardinality(InScope(d, s)) \in Nat
    BY ScopeFinite
  <2>2. DOMAIN CountsOf(d) = Scopes /\ \A s \in Scopes : CountsOf(d)[s] = Cardinality(InScope(d, s))
    BY DEF CountsOf
  <2>3. CountsOf(e) = [s \in Scopes |-> CountsOf(d)[s] + (IF s = r.scope THEN 1 ELSE 0)]
    BY <1>5, <2>2 DEF CountsOf
  <2>4. CountsOf(d) = [s \in Scopes |-> CountsOf(d)[s]] /\ \A s \in Scopes : CountsOf(d)[s] \in Nat
    BY <2>1, <2>2 DEF CountsOf
  <2> QED BY <1>4, <2>3, <2>4
<1> QED BY <1>2, <1>3, <1>6, <1>8 DEF DirectState

\* What the loop variables of parseImporterSection become.
LEMMA StartImporterFields ==
  ASSUME NEW l, NEW s, s = StartImporter(l)
  PROVE  /\ ImporterFields(s)
         /\ s.importer = l.key /\ s.open = (l.value = "block")
         /\ s.seen = importers.seen \cup {l.key}
         /\ s.section = None /\ s.sectionOpen = FALSE
         /\ s.seenSections = {} /\ s.seenDependencies = {}
         /\ s.dependency = None /\ s.dependencyOpen = FALSE
<1>1. ImporterFields(s)
  BY DEF StartImporter, NoImporter, ImporterFields
<1>2. s.importer = l.key /\ s.open = (l.value = "block") /\ s.seen = importers.seen \cup {l.key}
  BY DEF StartImporter, NoImporter
<1>3. /\ s.section = None /\ s.sectionOpen = FALSE
      /\ s.seenSections = {} /\ s.seenDependencies = {}
      /\ s.dependency = None /\ s.dependencyOpen = FALSE
  BY DEF StartImporter, NoImporter
<1> QED BY <1>1, <1>2, <1>3

LEMMA StartSectionFields ==
  ASSUME NEW l, ImporterFields(importers), NEW s, s = StartSection(l)
  PROVE  /\ ImporterFields(s)
         /\ s.importer = importers.importer /\ s.open = importers.open
         /\ s.seen = importers.seen
         /\ s.section = l.key /\ s.sectionOpen = (l.value = "block")
         /\ s.seenSections = importers.seenSections \cup {l.key}
         /\ s.seenDependencies = importers.seenDependencies
         /\ s.dependency = None /\ s.dependencyOpen = FALSE
<1>1. ImporterFields(s)
  BY DEF StartSection, ImporterFields
<1>2. s.importer = importers.importer /\ s.open = importers.open /\ s.seen = importers.seen
  BY DEF StartSection, ImporterFields
<1>3. /\ s.section = l.key /\ s.sectionOpen = (l.value = "block")
      /\ s.seenSections = importers.seenSections \cup {l.key}
      /\ s.seenDependencies = importers.seenDependencies
      /\ s.dependency = None /\ s.dependencyOpen = FALSE
  BY DEF StartSection, ImporterFields
<1> QED BY <1>1, <1>2, <1>3

LEMMA StartDependencyFields ==
  ASSUME NEW l, ImporterFields(importers), NEW s, s = StartDependency(l)
  PROVE  /\ ImporterFields(s)
         /\ s.importer = importers.importer /\ s.open = importers.open
         /\ s.seen = importers.seen
         /\ s.section = importers.section /\ s.sectionOpen = importers.sectionOpen
         /\ s.seenSections = importers.seenSections
         /\ s.seenDependencies =
                importers.seenDependencies \cup {<<importers.section, l.key>>}
         /\ s.dependency = l.key /\ s.dependencyOpen = (l.value = "block")
<1>1. ImporterFields(s)
  BY DEF StartDependency, ImporterFields
<1>2. s.importer = importers.importer /\ s.open = importers.open /\ s.seen = importers.seen
  BY DEF StartDependency, ImporterFields
<1>3. /\ s.section = importers.section /\ s.sectionOpen = importers.sectionOpen
      /\ s.seenSections = importers.seenSections
      /\ s.seenDependencies = importers.seenDependencies \cup {<<importers.section, l.key>>}
      /\ s.dependency = l.key /\ s.dependencyOpen = (l.value = "block")
  BY DEF StartDependency, ImporterFields
<1> QED BY <1>1, <1>2, <1>3

LEMMA CarriedSame ==
  ASSUME NEW d \in Seq(Lines), NEW l \in Lines, NEW e, e = Longer(d, l),
         NEW a, NEW above, NEW P, NEW Q, NEW key, NEW open,
         Carried(d, a, above, P, key, open), P \subseteq Entries(d), P \subseteq Q
  PROVE  Carried(e, a, above, Q, key, open)
<1>1. ASSUME a \in P PROVE e[a] = d[a] /\ Up(e, a) = Up(d, a)
  BY <1>1, LongerOld
<1> QED BY <1>1 DEF Carried

\* A line that leaves the reader outside importers.
LEMMA ImporterOutside ==
  ASSUME NEW d \in Seq(Lines), NEW l \in Lines, NEW e, e = Longer(d, l),
         ImporterState(d), section'.key # "importers", Imps(e) = Imps(d),
         Keyed(d, "importers") \subseteq Keyed(e, "importers"), UNCHANGED importers
  PROVE  ImporterState(e)'
<1>1. KeySet(e, Imps(d)) = KeySet(d, Imps(d))
  <2>1. Imps(d) \subseteq Entries(d)
    BY LevelSubsets
  <2> QED BY ONLY <2>1, d \in Seq(Lines), l \in Lines, e = Longer(d, l), LongerSameKeys
<1> QED BY <1>1 DEF ImporterState

\* Nothing belongs to a line that is only now read.
LEMMA NothingBelow ==
  ASSUME NEW d \in Seq(Lines), NEW l \in Lines, NEW e, e = Longer(d, l)
  PROVE  /\ {j \in Secs(d) : Up(e, j) = Len(d) + 1} = {}
         /\ {j \in Deps(d) : Up(e, Up(e, j)) = Len(d) + 1} = {}
<1>1. ASSUME NEW j \in Secs(d) PROVE Up(e, j) # Len(d) + 1
  BY LongerOld, LevelSubsets
<1>2. ASSUME NEW j \in Deps(d) PROVE Up(e, Up(e, j)) # Len(d) + 1
  <2>1. Up(e, Up(e, j)) = Up(d, Up(d, j)) /\ Up(d, j) \in Secs(d)
    BY LongerDirect, LevelsApart
  <2>2. Up(d, j) \in Entries(d)
    BY <2>1, LevelSubsets
  <2> QED BY <2>1, <2>2, LongerOld
<1> QED BY <1>1, <1>2

\* The line that opens importers.
LEMMA ImporterOpened ==
  ASSUME NEW d \in Seq(Lines), NEW l \in Lines, NEW e, e = Longer(d, l),
         ImporterState(d), Content(l), l.indent = 0, Keyed(d, "importers") = {},
         Imps(e) = Imps(d), Secs(e) = Secs(d), Deps(e) = Deps(d), UNCHANGED importers
  PROVE  ImporterState(e)'
<1> DEFINE n == Len(d) + 1
<1>1. Anc(e, 2) = n /\ Anc(e, 4) = n /\ Anc(e, 6) = n /\ Anc(e, 8) = n
  BY LongerAnc
<1>2. KeySet(e, Imps(d)) = KeySet(d, Imps(d))
  <2>1. Imps(d) \subseteq Entries(d)
    BY LevelSubsets
  <2> QED BY ONLY <2>1, d \in Seq(Lines), l \in Lines, e = Longer(d, l), LongerSameKeys
<1>3. importers = NoImporter
  BY DEF ImporterState
<1>4. /\ {j \in Secs(d) : Up(e, j) = n} = {} /\ {j \in Deps(d) : Up(e, Up(e, j)) = n} = {}
  BY NothingBelow
<1>5. /\ importers.importer = None /\ importers.open = FALSE
      /\ importers.section = None /\ importers.sectionOpen = FALSE
      /\ importers.dependency = None /\ importers.dependencyOpen = FALSE
      /\ importers.seenSections = {} /\ importers.seenDependencies = {}
  BY <1>3 DEF NoImporter
<1>6. /\ Carried(e, n, n, Imps(e), importers.importer, importers.open)
      /\ Carried(e, n, n, Secs(e), importers.section, importers.sectionOpen)
      /\ Carried(e, n, n, Deps(e), importers.dependency, importers.dependencyOpen)
  BY <1>5 DEF Carried
<1>7. ImporterFields(importers) /\ importers.seen = KeySet(d, Imps(d))
  BY DEF ImporterState
<1> QED BY <1>1, <1>2, <1>3, <1>4, <1>5, <1>6, <1>7 DEF ImporterState

\* A line that is none of an importer, a section and a dependency.
LEMMA ImporterSame ==
  ASSUME NEW d \in Seq(Lines), NEW l \in Lines, NEW e, e = Longer(d, l),
         ImporterState(d), ~(Content(l) /\ l.indent < 8),
         Keyed(e, "importers") = Keyed(d, "importers"),
         Imps(e) = Imps(d), Secs(e) = Secs(d), Deps(e) = Deps(d), UNCHANGED <<section, importers>>
  PROVE  ImporterState(e)'
<1>1. Anc(e, 2) = Anc(d, 2) /\ Anc(e, 4) = Anc(d, 4) /\ Anc(e, 6) = Anc(d, 6) /\ Anc(e, 8) = Anc(d, 8)
  BY LongerAnc, LockAssumption
<1>2. KeySet(e, Imps(d)) = KeySet(d, Imps(d))
  <2>1. Imps(d) \subseteq Entries(d)
    BY LevelSubsets
  <2> QED BY ONLY <2>1, d \in Seq(Lines), l \in Lines, e = Longer(d, l), LongerSameKeys
<1>3. ASSUME NEW j \in Secs(d) PROVE Up(e, j) = Up(d, j) /\ e[j] = d[j]
  BY LongerOld, LevelSubsets
<1>4. {e[i].key : i \in {j \in Secs(d) : Up(e, j) = Anc(d, 4)}} =
      {d[i].key : i \in {j \in Secs(d) : Up(d, j) = Anc(d, 4)}}
  BY <1>3
<1>5. ASSUME NEW j \in Deps(d)
      PROVE  Up(e, Up(e, j)) = Up(d, Up(d, j)) /\ e[j] = d[j] /\ SectionKey(e, j) = SectionKey(d, j)
  BY LongerDirect
<1>6. {<<SectionKey(e, i), e[i].key>> : i \in {j \in Deps(d) : Up(e, Up(e, j)) = Anc(d, 4)}} =
      {<<SectionKey(d, i), d[i].key>> : i \in {j \in Deps(d) : Up(d, Up(d, j)) = Anc(d, 4)}}
  BY <1>5
<1>7. Imps(d) \subseteq Entries(d) /\ Secs(d) \subseteq Entries(d) /\ Deps(d) \subseteq Entries(d)
  BY LevelSubsets
<1>8. ASSUME NEW a, NEW above, NEW P, NEW key, NEW open, P \subseteq Entries(d),
             Carried(d, a, above, P, key, open)
      PROVE  Carried(e, a, above, P, key, open)
  BY <1>8, CarriedSame
<1> QED BY <1>1, <1>2, <1>4, <1>6, <1>7, <1>8 DEF ImporterState

\* A line that is an importer.
LEMMA ImporterNew ==
  ASSUME NEW d \in Seq(Lines), NEW l \in Lines, NEW e, e = Longer(d, l),
         ImporterState(d), Content(l), l.indent = 2, Keyed(e, "importers") # {},
         Imps(e) = Imps(d) \cup {Len(d) + 1}, Secs(e) = Secs(d), Deps(e) = Deps(d),
         importers' = StartImporter(l)
  PROVE  ImporterState(e)'
<1> DEFINE n == Len(d) + 1
           s == StartImporter(l)
<1>1. Anc(e, 2) = Anc(d, 2) /\ Anc(e, 4) = n /\ Anc(e, 6) = n /\ Anc(e, 8) = n
  BY LongerAnc
<1>2. KeySet(e, Imps(d) \cup {n}) = KeySet(d, Imps(d)) \cup {l.key}
  <2>1. Imps(d) \subseteq Entries(d)
    BY LevelSubsets
  <2> QED BY ONLY <2>1, d \in Seq(Lines), l \in Lines, e = Longer(d, l), LongerKeys
<1>3. e[n] = l /\ Up(e, n) = Anc(d, 2)
  <2>1. e[n] = l
    BY LongerLines
  <2>2. Up(e, n) = Anc(d, l.indent)
    BY LongerLines
  <2> QED BY <2>1, <2>2
<1>4. /\ {j \in Secs(d) : Up(e, j) = n} = {} /\ {j \in Deps(d) : Up(e, Up(e, j)) = n} = {}
  BY NothingBelow
<1>5. /\ ImporterFields(s) /\ s.importer = l.key /\ s.open = (l.value = "block")
      /\ s.seen = importers.seen \cup {l.key}
      /\ s.section = None /\ s.sectionOpen = FALSE /\ s.seenSections = {}
      /\ s.seenDependencies = {} /\ s.dependency = None /\ s.dependencyOpen = FALSE
  BY StartImporterFields
<1>6. importers.seen = KeySet(d, Imps(d))
  BY DEF ImporterState
<1> HIDE DEF s
<1>7. /\ Carried(e, n, Anc(d, 2), Imps(e), s.importer, s.open)
      /\ Carried(e, n, n, Secs(e), s.section, s.sectionOpen)
      /\ Carried(e, n, n, Deps(e), s.dependency, s.dependencyOpen)
  BY <1>3, <1>5 DEF Carried
<1>8. importers' = s
  BY DEF s
<1>9. s.seenSections = {e[i].key : i \in {j \in Secs(e) : Up(e, j) = Anc(e, 4)}}
  BY <1>1, <1>4, <1>5
<1>10. s.seenDependencies = {<<SectionKey(e, i), e[i].key>> :
                                i \in {j \in Deps(e) : Up(e, Up(e, j)) = Anc(e, 4)}}
  BY <1>1, <1>4, <1>5
<1>11. s.seen = KeySet(e, Imps(e))
  BY <1>2, <1>5, <1>6
<1> QED BY <1>1, <1>5, <1>7, <1>8, <1>9, <1>10, <1>11 DEF ImporterState

\* A line that is a section of an importer.
LEMMA SectionNew ==
  ASSUME NEW d \in Seq(Lines), NEW l \in Lines, NEW e, e = Longer(d, l),
         ImporterState(d), Content(l), l.indent = 4, section.key = "importers",
         Keyed(e, "importers") # {},
         Imps(e) = Imps(d), Secs(e) = Secs(d) \cup {Len(d) + 1}, Deps(e) = Deps(d),
         importers' = StartSection(l)
  PROVE  ImporterState(e)'
<1> DEFINE n == Len(d) + 1
           s == StartSection(l)
<1>1. Anc(e, 2) = Anc(d, 2) /\ Anc(e, 4) = Anc(d, 4) /\ Anc(e, 6) = n /\ Anc(e, 8) = n
  BY LongerAnc
<1>2. KeySet(e, Imps(d)) = KeySet(d, Imps(d))
  <2>1. Imps(d) \subseteq Entries(d)
    BY LevelSubsets
  <2> QED BY ONLY <2>1, d \in Seq(Lines), l \in Lines, e = Longer(d, l), LongerSameKeys
<1>3. e[n] = l /\ Up(e, n) = Anc(d, 4)
  <2>1. e[n] = l
    BY LongerLines
  <2>2. Up(e, n) = Anc(d, l.indent)
    BY LongerLines, ZenonT(60)
  <2> QED BY <2>1, <2>2
<1>4. ASSUME NEW j \in Secs(d) PROVE Up(e, j) = Up(d, j) /\ e[j] = d[j] 
  BY LongerOld, LevelSubsets
<1>5. {e[i].key : i \in {j \in Secs(d) \cup {n} : Up(e, j) = Anc(d, 4)}} =
      {d[i].key : i \in {j \in Secs(d) : Up(d, j) = Anc(d, 4)}} \cup {l.key}
  BY <1>3, <1>4
<1>6. ASSUME NEW j \in Deps(d)
      PROVE  Up(e, Up(e, j)) = Up(d, Up(d, j)) /\ e[j] = d[j] /\ SectionKey(e, j) = SectionKey(d, j)
  BY LongerDirect
<1>7. {<<SectionKey(e, i), e[i].key>> : i \in {j \in Deps(d) : Up(e, Up(e, j)) = Anc(d, 4)}} =
      {<<SectionKey(d, i), d[i].key>> : i \in {j \in Deps(d) : Up(d, Up(d, j)) = Anc(d, 4)}}
  BY <1>6
<1>8. /\ ImporterFields(importers) /\ importers.seen = KeySet(d, Imps(d))
      /\ Carried(d, Anc(d, 4), Anc(d, 2), Imps(d), importers.importer, importers.open)
      /\ importers.seenSections = {d[i].key : i \in {j \in Secs(d) : Up(d, j) = Anc(d, 4)}}
      /\ importers.seenDependencies =
            {<<SectionKey(d, i), d[i].key>> :
                i \in {j \in Deps(d) : Up(d, Up(d, j)) = Anc(d, 4)}}
  BY DEF ImporterState
<1>9. /\ ImporterFields(s)
      /\ s.importer = importers.importer /\ s.open = importers.open
      /\ s.seen = importers.seen
      /\ s.section = l.key /\ s.sectionOpen = (l.value = "block")
      /\ s.seenSections = importers.seenSections \cup {l.key}
      /\ s.seenDependencies = importers.seenDependencies
      /\ s.dependency = None /\ s.dependencyOpen = FALSE
  BY <1>8, StartSectionFields
<1> HIDE DEF s
<1>10. Carried(e, Anc(d, 4), Anc(d, 2), Imps(e), s.importer, s.open)
  BY <1>8, <1>9, CarriedSame, LevelSubsets
<1>11. /\ Carried(e, n, Anc(d, 4), Secs(e), s.section, s.sectionOpen)
       /\ Carried(e, n, n, Deps(e), s.dependency, s.dependencyOpen)
  BY <1>3, <1>9 DEF Carried
<1>12. importers' = s
  BY DEF s
<1>13. s.seenSections = {e[i].key : i \in {j \in Secs(e) : Up(e, j) = Anc(e, 4)}}
  BY <1>1, <1>5, <1>8, <1>9
<1>14. s.seenDependencies = {<<SectionKey(e, i), e[i].key>> :
                                i \in {j \in Deps(e) : Up(e, Up(e, j)) = Anc(e, 4)}}
  BY <1>1, <1>7, <1>8, <1>9
<1>15. s.seen = KeySet(e, Imps(e))
  BY <1>2, <1>8, <1>9
<1> QED BY <1>1, <1>9, <1>10, <1>11, <1>12, <1>13, <1>14, <1>15 DEF ImporterState

\* A line that is a dependency.
LEMMA DependencyNew ==
  ASSUME NEW d \in Seq(Lines), NEW l \in Lines, NEW e, e = Longer(d, l),
         ImporterState(d), Content(l), l.indent = 6, section.key = "importers",
         Keyed(e, "importers") # {},
         Anc(d, 6) \in Secs(d), Up(d, Anc(d, 6)) = Anc(d, 4), importers.section = d[Anc(d, 6)].key,
         Imps(e) = Imps(d), Secs(e) = Secs(d), Deps(e) = Deps(d) \cup {Len(d) + 1},
         importers' = StartDependency(l)
  PROVE  ImporterState(e)'
<1> DEFINE n == Len(d) + 1
           s == StartDependency(l)
<1>1. Anc(e, 2) = Anc(d, 2) /\ Anc(e, 4) = Anc(d, 4) /\ Anc(e, 6) = Anc(d, 6) /\ Anc(e, 8) = n
  BY LongerAnc
<1>2. KeySet(e, Imps(d)) = KeySet(d, Imps(d))
  <2>1. Imps(d) \subseteq Entries(d)
    BY LevelSubsets
  <2> QED BY ONLY <2>1, d \in Seq(Lines), l \in Lines, e = Longer(d, l), LongerSameKeys
<1>3. e[n] = l /\ Up(e, n) = Anc(d, 6)
  <2>1. e[n] = l
    BY LongerLines
  <2>2. Up(e, n) = Anc(d, l.indent)
    BY LongerLines, ZenonT(60)
  <2> QED BY <2>1, <2>2
<1>4. ASSUME NEW j \in Secs(d) PROVE Up(e, j) = Up(d, j) /\ e[j] = d[j]
  BY LongerOld, LevelSubsets
<1>5. {e[i].key : i \in {j \in Secs(d) : Up(e, j) = Anc(d, 4)}} =
      {d[i].key : i \in {j \in Secs(d) : Up(d, j) = Anc(d, 4)}}
  BY <1>4
<1>6. ASSUME NEW j \in Deps(d)
      PROVE  Up(e, Up(e, j)) = Up(d, Up(d, j)) /\ e[j] = d[j] /\ SectionKey(e, j) = SectionKey(d, j)
  BY LongerDirect
<1>7. Up(e, Up(e, n)) = Anc(d, 4) /\ SectionKey(e, n) = importers.section
  BY <1>3, <1>4 DEF SectionKey
<1>8. {<<SectionKey(e, i), e[i].key>> : i \in {j \in Deps(d) \cup {n} : Up(e, Up(e, j)) = Anc(d, 4)}} =
      {<<SectionKey(d, i), d[i].key>> : i \in {j \in Deps(d) : Up(d, Up(d, j)) = Anc(d, 4)}}
          \cup {<<importers.section, l.key>>}
  BY <1>3, <1>6, <1>7
<1>9. /\ ImporterFields(importers) /\ importers.seen = KeySet(d, Imps(d))
      /\ Carried(d, Anc(d, 4), Anc(d, 2), Imps(d), importers.importer, importers.open)
      /\ Carried(d, Anc(d, 6), Anc(d, 4), Secs(d), importers.section, importers.sectionOpen)
      /\ importers.seenSections = {d[i].key : i \in {j \in Secs(d) : Up(d, j) = Anc(d, 4)}}
      /\ importers.seenDependencies =
            {<<SectionKey(d, i), d[i].key>> :
                i \in {j \in Deps(d) : Up(d, Up(d, j)) = Anc(d, 4)}}
  BY DEF ImporterState
<1>10. /\ ImporterFields(s)
       /\ s.importer = importers.importer /\ s.open = importers.open
       /\ s.seen = importers.seen
       /\ s.section = importers.section /\ s.sectionOpen = importers.sectionOpen
       /\ s.seenSections = importers.seenSections
       /\ s.seenDependencies = importers.seenDependencies \cup {<<importers.section, l.key>>}
       /\ s.dependency = l.key /\ s.dependencyOpen = (l.value = "block")
  BY <1>9, StartDependencyFields
<1> HIDE DEF s
<1>11. Carried(e, Anc(d, 4), Anc(d, 2), Imps(e), s.importer, s.open)
  BY <1>9, <1>10, CarriedSame, LevelSubsets
<1>12. Carried(e, Anc(d, 6), Anc(d, 4), Secs(e), s.section, s.sectionOpen)
  BY <1>9, <1>10, CarriedSame, LevelSubsets
<1>13. Carried(e, n, Anc(d, 6), Deps(e), s.dependency, s.dependencyOpen)
  BY <1>3, <1>10 DEF Carried
<1>14. importers' = s
  BY DEF s
<1>15. s.seenSections = {e[i].key : i \in {j \in Secs(e) : Up(e, j) = Anc(e, 4)}}
  BY <1>1, <1>5, <1>9, <1>10
<1>16. s.seenDependencies = {<<SectionKey(e, i), e[i].key>> :
                                i \in {j \in Deps(e) : Up(e, Up(e, j)) = Anc(e, 4)}}
  BY <1>1, <1>8, <1>9, <1>10
<1>17. s.seen = KeySet(e, Imps(e))
  BY <1>2, <1>9, <1>10
<1> QED BY <1>1, <1>10, <1>11, <1>12, <1>13, <1>14, <1>15, <1>16, <1>17 DEF ImporterState

-----------------------------------------------------------------------------
(* The reader accepts exactly the lines that are OK *)

\* The reader knows in which section the next line is.
LEMMA SectionAt ==
  ASSUME NEW d \in Seq(Lines), Clean(d), TopState(d), NEW k, k # None
  PROVE  /\ Anc(d, 2) \in Keyed(d, k) <=> section.key = k
         /\ section.key = k => Anc(d, 2) \in Entries(d) /\ section.value = d[Anc(d, 2)].value
<1>1. Anc(d, 2) # 0 => Anc(d, 2) \in Tops(d) /\ Anc(d, 2) \in Entries(d)
  BY EvenAnc, AncFacts
<1>2. \A i \in Keyed(d, k) : i # 0
  BY LevelSubsets, LineFacts
<1>3. CASE Anc(d, 2) = 0
  <2>1. section.key = None
    BY <1>3 DEF TopState, NoSection
  <2> QED BY <1>2, <1>3, <2>1
<1>4. CASE Anc(d, 2) # 0
  <2>1. section.key = d[Anc(d, 2)].key /\ section.value = d[Anc(d, 2)].value
    BY <1>4 DEF TopState
  <2> QED BY <1>1, <1>4, <2>1 DEF Keyed
<1> QED BY <1>3, <1>4

\* Where the next line cannot be.
LEMMA Nowhere ==
  ASSUME NEW d \in Seq(Lines), Clean(d), TopState(d), NEW k \in Nat
  PROVE  /\ section.key # "packages" => Anc(d, k) \notin Keyed(d, "packages")
         /\ section.key # "importers" =>
                /\ Anc(d, k) \notin Keyed(d, "importers") /\ Anc(d, k) \notin Imps(d)
                /\ Anc(d, k) \notin Secs(d) /\ Anc(d, k) \notin Deps(d)
<1>1. /\ Anc(d, 2) \in Keyed(d, "packages") <=> section.key = "packages"
      /\ Anc(d, 2) \in Keyed(d, "importers") <=> section.key = "importers"
  BY SectionAt DEF None
<1>2. \A key : Anc(d, k) \in Keyed(d, key) => Anc(d, 2) \in Keyed(d, key)
  BY Outside
<1>3. ASSUME NEW m \in Nat, Anc(d, m) \in Imps(d) PROVE Anc(d, 2) \in Keyed(d, "importers")
  BY <1>3, Outside
<1>4. ASSUME NEW m \in Nat, Anc(d, m) \in Secs(d) PROVE Anc(d, 4) \in Imps(d)
  BY <1>4, Outside
<1>5. ASSUME NEW m \in Nat, Anc(d, m) \in Deps(d) PROVE Anc(d, 6) \in Secs(d)
  BY <1>5, Outside
<1> QED BY <1>1, <1>2, <1>3, <1>4, <1>5

\* Entries are not where the document starts.
LEMMA NotAtZero ==
  ASSUME NEW d \in Seq(Lines)
  PROVE  /\ \A k : 0 \notin Keyed(d, k)
         /\ 0 \notin Imps(d) /\ 0 \notin Secs(d) /\ 0 \notin Deps(d)
<1>1. 0 \notin Entries(d)
  BY LineFacts
<1> QED BY <1>1, LevelSubsets

LEMMA TopExact ==
  ASSUME NEW d \in Seq(Lines), NEW l \in Lines, Clean(d), TopState(d), Content(l), l.indent = 0
  PROVE  TopLevelAccepted(l) <=> NewOK(d, l)
<1>1. Anc(d, 0) = 0
  BY EvenAnc
<1>2. NewClean(l)
  BY DEF NewClean, Content
<1>3. /\ NewPkg(d, l) /\ NewLevel(d, l, Keyed(d, "importers"), 2) /\ NewLevel(d, l, Imps(d), 4)
      /\ NewDep(d, l) /\ NewDetail(d, l)
  BY <1>1, NotAtZero DEF NewPkg, NewLevel, NewDep, NewDetail
<1>4. \A i \in Tops(d) : Up(d, i) = 0
  BY LevelsApart
<1>5. NewKey(d, l, Tops(d)) <=> l.key \notin seenKeys
  BY <1>1, <1>4 DEF NewKey, TopState, KeySet
<1>6. NewTop(d, l) <=> TopLevelAccepted(l)
  BY <1>5 DEF NewTop, TopLevelAccepted, IsMapping
<1> QED BY <1>2, <1>3, <1>6 DEF NewOK

\* Below a key that is neither packages nor importers every line is OK.
LEMMA OtherExact ==
  ASSUME NEW d \in Seq(Lines), NEW l \in Lines, Clean(d), TopState(d), Nested(l),
         section.key \notin {"packages", "importers"}
  PROVE  NewOK(d, l)
<1>1. l.indent \in Nat /\ l.indent # 0 /\ l.kind = "entry" /\ l.indent % 2 = 0
  BY LockAssumption DEF Nested, Content
<1>2. Anc(d, 2) \notin Keyed(d, "packages")
  BY Nowhere
<1>3. /\ Anc(d, l.indent) \notin Keyed(d, "importers") /\ Anc(d, l.indent) \notin Imps(d)
      /\ Anc(d, l.indent) \notin Secs(d) /\ Anc(d, l.indent) \notin Deps(d)
  BY <1>1, Nowhere
<1> QED BY <1>1, <1>2, <1>3
        DEF NewOK, NewClean, NewTop, NewPkg, NewLevel, NewDep, NewDetail

LEMMA OneSection ==
  ASSUME NEW d \in Seq(Lines), TopsOK(d), NEW k, NEW a \in Keyed(d, k), NEW b \in Keyed(d, k)
  PROVE  a = b
<1>1. a \in Tops(d) /\ b \in Tops(d) /\ Up(d, a) = 0 /\ Up(d, b) = 0 /\ d[a].key = d[b].key
  BY LevelsApart
<1> QED BY <1>1 DEF TopsOK, Distinct

LEMMA PackagesExact ==
  ASSUME NEW d \in Seq(Lines), NEW l \in Lines, Shape(d), State(d), Nested(l),
         section.key = "packages"
  PROVE  /\ l.indent = 2 => (PackageAccepted(l) <=> NewOK(d, l))
         /\ l.indent > 2 => NewOK(d, l)
<1>1. Clean(d) /\ TopState(d) /\ PackageState(d) /\ TopsOK(d)
  BY DEF Shape, State
<1>2. l.indent \in Nat /\ l.indent # 0 /\ l.kind = "entry" /\ l.indent % 2 = 0
  BY LockAssumption DEF Nested, Content
<1>3. Anc(d, 2) \in Keyed(d, "packages")
  BY <1>1, SectionAt DEF None
<1>4. /\ Anc(d, l.indent) \notin Keyed(d, "importers") /\ Anc(d, l.indent) \notin Imps(d)
      /\ Anc(d, l.indent) \notin Secs(d) /\ Anc(d, l.indent) \notin Deps(d)
  <2>1. section.key # "importers"
    OBVIOUS
  <2> QED BY <1>1, <1>2, <2>1, Nowhere
<1>5. /\ NewClean(l) /\ NewTop(d, l) /\ NewLevel(d, l, Keyed(d, "importers"), 2)
      /\ NewLevel(d, l, Imps(d), 4) /\ NewDep(d, l) /\ NewDetail(d, l)
  BY <1>2, <1>4 DEF NewClean, NewTop, NewLevel, NewDep, NewDetail
<1>6. NewOK(d, l) <=> NewPkg(d, l)
  BY <1>5 DEF NewOK
<1>7. \A i \in Pkgs(d) : Up(d, i) = Anc(d, 2)
  BY <1>1, <1>3, OneSection, LevelsApart
<1>8. ASSUME l.indent = 2 PROVE PackageAccepted(l) <=> NewPkg(d, l)
  <2>1. NewKey(d, l, Pkgs(d)) <=> l.key \notin Range(packages)
    BY <1>1, <1>7, <1>8 DEF NewKey, PackageState, KeySet
  <2> QED BY <1>2, <1>3, <1>8, <2>1 DEF NewPkg, PackageAccepted, IsPackageKey, Content
<1>9. ASSUME l.indent > 2 PROVE NewPkg(d, l)
  BY <1>2, <1>9 DEF NewPkg
<1> QED BY <1>6, <1>8, <1>9

\* What the reader knows of the next line in importers.
LEMMA ImportersKnown ==
  ASSUME NEW d \in Seq(Lines), NEW l \in Lines, Shape(d), State(d), Nested(l),
         section.key = "importers"
  PROVE  /\ l.indent \in Nat /\ l.kind = "entry"
         /\ Anc(d, 2) \in Keyed(d, "importers") /\ section.value = d[Anc(d, 2)].value
         /\ Carried(d, Anc(d, 4), Anc(d, 2), Imps(d), importers.importer, importers.open)
         /\ Carried(d, Anc(d, 6), Anc(d, 4), Secs(d), importers.section, importers.sectionOpen)
         /\ Carried(d, Anc(d, 8), Anc(d, 6), Deps(d), importers.dependency,
                    importers.dependencyOpen)
         /\ NewOK(d, l) <=>
                /\ NewLevel(d, l, Keyed(d, "importers"), 2) /\ NewLevel(d, l, Imps(d), 4)
                /\ NewDep(d, l) /\ NewDetail(d, l)
<1>1. Clean(d) /\ TopState(d) /\ ImporterState(d)
  BY DEF Shape, State
<1>2. l.indent \in Nat /\ l.indent # 0 /\ l.kind = "entry" /\ l.indent % 2 = 0
  BY LockAssumption DEF Nested, Content
<1>3. Anc(d, 2) \in Keyed(d, "importers") /\ section.value = d[Anc(d, 2)].value
  BY <1>1, SectionAt DEF None
<1>4. Anc(d, 2) \notin Keyed(d, "packages")
  <2>1. section.key # "packages"
    OBVIOUS
  <2> QED BY <1>1, <2>1, Nowhere
<1>5. NewClean(l) /\ NewTop(d, l) /\ NewPkg(d, l)
  BY <1>2, <1>4 DEF NewClean, NewTop, NewPkg
<1> QED BY <1>1, <1>2, <1>3, <1>5 DEF ImporterState, NewOK

LEMMA ImporterExact ==
  ASSUME NEW d \in Seq(Lines), NEW l \in Lines, Shape(d), State(d), Nested(l),
         section.key = "importers", l.indent = 2
  PROVE  ImporterAccepted(l) <=> NewOK(d, l)
<1>1. /\ Anc(d, 2) \in Keyed(d, "importers") /\ section.value = d[Anc(d, 2)].value
      /\ l.kind = "entry"
  BY ImportersKnown
<1>2. Anc(d, 2) \notin Imps(d) /\ Anc(d, 2) \notin Secs(d) /\ Anc(d, 2) \notin Deps(d)
  <2>1. d[Anc(d, 2)].indent = 0
    BY <1>1, LevelsApart
  <2> QED BY <2>1, LevelsApart
<1>3. NewOK(d, l) <=> NewLevel(d, l, Keyed(d, "importers"), 2)
  <2>1. NewLevel(d, l, Imps(d), 4) /\ NewDep(d, l) /\ NewDetail(d, l)
    BY <1>2 DEF NewLevel, NewDep, NewDetail
  <2> QED BY <2>1, ImportersKnown
<1>4. \A i \in Imps(d) : Up(d, i) = Anc(d, 2)
  <2>1. TopsOK(d)
    BY DEF Shape
  <2> QED BY <1>1, <2>1, OneSection, LevelsApart
<1>5. NewKey(d, l, Imps(d)) <=> l.key \notin importers.seen
  <2>1. importers.seen = KeySet(d, Imps(d))
    BY DEF State, ImporterState
  <2> QED BY <1>4, <2>1 DEF NewKey, KeySet
<1>6. NewLevel(d, l, Keyed(d, "importers"), 2) <=>
        /\ NewKey(d, l, Imps(d)) /\ l.key # NotAMapping
        /\ l.value \in {"block", "{}"} /\ d[Anc(d, 2)].value = "block"
  BY <1>1 DEF NewLevel, Imps, Content
<1> QED BY <1>1, <1>3, <1>5, <1>6 DEF ImporterAccepted, IsMapping

LEMMA SectionExact ==
  ASSUME NEW d \in Seq(Lines), NEW l \in Lines, Shape(d), State(d), Nested(l),
         section.key = "importers", l.indent = 4
  PROVE  /\ SectionAccepted(l) <=> NewOK(d, l)
         /\ SectionAccepted(l) => Anc(d, 4) \in Imps(d)
<1>1. /\ Anc(d, 2) \in Keyed(d, "importers") /\ l.kind = "entry"
      /\ Carried(d, Anc(d, 4), Anc(d, 2), Imps(d), importers.importer, importers.open)
  BY ImportersKnown
<1>2. NewOK(d, l) <=>
         /\ NewLevel(d, l, Keyed(d, "importers"), 2) /\ NewLevel(d, l, Imps(d), 4)
         /\ NewDep(d, l) /\ NewDetail(d, l)
  BY ImportersKnown
<1>3. CASE Anc(d, 4) = Anc(d, 2) /\ importers.importer = None
  <2>1. ~SectionAccepted(l)
    BY <1>3 DEF SectionAccepted, BelowImporter
  <2>2. ~NewLevel(d, l, Keyed(d, "importers"), 2)
    BY <1>1, <1>3 DEF NewLevel, Content
  <2> QED BY <1>2, <2>1, <2>2
<1>4. CASE /\ Anc(d, 4) \in Imps(d) /\ importers.importer = d[Anc(d, 4)].key
           /\ importers.open = (d[Anc(d, 4)].value = "block")
  <2>1. Anc(d, 4) \in Entries(d) /\ d[Anc(d, 4)].indent = 2
    BY <1>4, LevelsApart
  <2>2. Anc(d, 4) \notin Keyed(d, "importers") /\ Anc(d, 4) \notin Secs(d) /\ Anc(d, 4) \notin Deps(d)
    BY <2>1, LevelsApart
  <2>3. importers.importer # None
    BY <1>4, <2>1, LineFacts
  <2>4. NewLevel(d, l, Keyed(d, "importers"), 2) /\ NewDep(d, l) /\ NewDetail(d, l)
    BY <2>2 DEF NewLevel, NewDep, NewDetail
  <2>5. NewKey(d, l, Secs(d)) <=> l.key \notin importers.seenSections
    <3>1. importers.seenSections = {d[i].key : i \in {j \in Secs(d) : Up(d, j) = Anc(d, 4)}}
      BY DEF State, ImporterState
    <3> QED BY <3>1 DEF NewKey
  <2>6. NewLevel(d, l, Imps(d), 4) <=>
          /\ NewKey(d, l, Secs(d)) /\ l.key # NotAMapping
          /\ l.value \in {"block", "{}"} /\ d[Anc(d, 4)].value = "block"
    BY <1>1, <1>4 DEF NewLevel, Secs, Content
  <2>7. SectionAccepted(l) <=>
          /\ l.key \notin importers.seenSections /\ l.key # NotAMapping
          /\ l.value \in {"block", "{}"} /\ d[Anc(d, 4)].value = "block"
    BY <1>4, <2>3 DEF SectionAccepted, BelowImporter, IsMapping
  <2> QED BY <1>2, <1>4, <2>4, <2>5, <2>6, <2>7
<1> QED BY <1>1, <1>3, <1>4 DEF Carried

\* With a section, and with a dependency, there is an importer with children.
LEMMA ImporterIsOpen ==
  ASSUME NEW d \in Seq(Lines), NEW l \in Lines, Shape(d), State(d), Nested(l),
         section.key = "importers", Anc(d, 6) \in Secs(d)
  PROVE  /\ BelowImporter /\ Anc(d, 4) \in Imps(d) /\ Up(d, Anc(d, 6)) = Anc(d, 4)
         /\ importers.importer = d[Anc(d, 4)].key
<1>1. /\ Carried(d, Anc(d, 6), Anc(d, 4), Secs(d), importers.section, importers.sectionOpen)
      /\ Carried(d, Anc(d, 4), Anc(d, 2), Imps(d), importers.importer, importers.open)
      /\ Anc(d, 2) \in Keyed(d, "importers")
  BY ImportersKnown
<1>2. Anc(d, 4) \in Imps(d)
  <2>1. Clean(d)
    BY DEF Shape
  <2> QED BY <2>1, Outside
<1>3. d[Anc(d, 4)].indent = 2 /\ d[Anc(d, 2)].indent = 0 /\ Anc(d, 4) \in Entries(d)
      /\ d[Anc(d, 6)].indent = 4 /\ Anc(d, 6) \in Entries(d)
  BY <1>1, <1>2, LevelsApart
<1>4. Up(d, Anc(d, 6)) = Anc(d, 4)
  BY <1>1, <1>3 DEF Carried
<1>5. d[Anc(d, 4)].value = "block"
  <2>1. LevelOK(d, Imps(d), 4)
    BY DEF Shape
  <2>2. Up(d, Anc(d, 6)) \in Imps(d)
    BY <1>2, <1>4
  <2>3. d[Up(d, Anc(d, 6))].value = "block"
    BY <1>3, <2>1, <2>2 DEF LevelOK
  <2> QED BY <1>4, <2>3
<1>6. importers.importer = d[Anc(d, 4)].key /\ importers.open = (d[Anc(d, 4)].value = "block")
  BY <1>1, <1>3 DEF Carried
<1>7. importers.importer # None
  BY <1>3, <1>6, LineFacts
<1> QED BY <1>2, <1>4, <1>5, <1>6, <1>7 DEF BelowImporter

LEMMA DependencyExact ==
  ASSUME NEW d \in Seq(Lines), NEW l \in Lines, Shape(d), State(d), Nested(l),
         section.key = "importers", l.indent = 6
  PROVE  /\ DependencyAccepted(l) <=> NewOK(d, l)
         /\ DependencyAccepted(l) => Anc(d, 6) \in Secs(d) /\ importers.section = d[Anc(d, 6)].key
<1>1. /\ Anc(d, 2) \in Keyed(d, "importers") /\ l.kind = "entry"
      /\ Carried(d, Anc(d, 4), Anc(d, 2), Imps(d), importers.importer, importers.open)
      /\ Carried(d, Anc(d, 6), Anc(d, 4), Secs(d), importers.section, importers.sectionOpen)
  BY ImportersKnown
<1>2. NewOK(d, l) <=>
         /\ NewLevel(d, l, Keyed(d, "importers"), 2) /\ NewLevel(d, l, Imps(d), 4)
         /\ NewDep(d, l) /\ NewDetail(d, l)
  BY ImportersKnown
<1>3. CASE Anc(d, 6) = Anc(d, 4) /\ importers.section = None
  <2>1. ~DependencyAccepted(l)
    BY <1>3 DEF DependencyAccepted
  <2>2. Anc(d, 6) \in Keyed(d, "importers") \/ Anc(d, 6) \in Imps(d)
    BY <1>1, <1>3 DEF Carried
  <2>3. ~NewLevel(d, l, Keyed(d, "importers"), 2) \/ ~NewLevel(d, l, Imps(d), 4)
    BY <1>1, <2>2 DEF NewLevel, Content
  <2> QED BY <1>2, <2>1, <2>3
<1>4. CASE /\ Anc(d, 6) \in Secs(d) /\ importers.section = d[Anc(d, 6)].key
           /\ importers.sectionOpen = (d[Anc(d, 6)].value = "block")
  <2>1. Anc(d, 6) \in Entries(d) /\ d[Anc(d, 6)].indent = 4
    BY <1>4, LevelsApart
  <2>2. Anc(d, 6) \notin Keyed(d, "importers") /\ Anc(d, 6) \notin Imps(d) /\ Anc(d, 6) \notin Deps(d)
    BY <2>1, LevelsApart
  <2>3. importers.section # None
    BY <1>4, <2>1, LineFacts
  <2>4. /\ NewLevel(d, l, Keyed(d, "importers"), 2) /\ NewLevel(d, l, Imps(d), 4)
        /\ NewDetail(d, l)
    BY <2>2 DEF NewLevel, NewDetail
  <2>5. BelowImporter /\ Up(d, Anc(d, 6)) = Anc(d, 4)
    BY <1>4, ImporterIsOpen
  <2>6. ASSUME NEW i \in Deps(d)
        PROVE  Up(d, i) = Anc(d, 6) <=>
                  Up(d, Up(d, i)) = Anc(d, 4) /\ SectionKey(d, i) = importers.section
    <3>1. Up(d, i) \in Secs(d)
      BY LevelsApart
    <3>2. Distinct(d, Secs(d))
      BY DEF Shape, LevelOK, Secs
    <3> QED BY <1>4, <2>5, <3>1, <3>2 DEF Distinct, SectionKey
  <2>7. NewKey(d, l, Deps(d)) <=> <<importers.section, l.key>> \notin importers.seenDependencies
    <3>1. importers.seenDependencies =
            {<<SectionKey(d, i), d[i].key>> :
                i \in {j \in Deps(d) : Up(d, Up(d, j)) = Anc(d, 4)}}
      BY DEF State, ImporterState
    <3> QED BY <2>6, <3>1 DEF NewKey
  <2>8. NewDep(d, l) <=>
          NewKey(d, l, Deps(d)) /\ l.key \in Names /\ d[Anc(d, 6)].value = "block"
    BY <1>1, <1>4 DEF NewDep, Content
  <2>9. DependencyAccepted(l) <=>
          /\ <<importers.section, l.key>> \notin importers.seenDependencies
          /\ l.key \in Names /\ d[Anc(d, 6)].value = "block"
    BY <1>4, <2>3, <2>5 DEF DependencyAccepted
  <2> QED BY <1>2, <1>4, <2>4, <2>7, <2>8, <2>9
<1> QED BY <1>1, <1>3, <1>4 DEF Carried

\* If no entry 8 or more deep belongs to the last one that is less deep, there is none
\* after it.
LEMMA NothingDeeper ==
  ASSUME NEW d \in Seq(Lines), NEW k \in Nat, k >= 8, Anc(d, 8) # 0,
         \A i \in Entries(d) : Up(d, i) = Anc(d, 8) => d[i].indent < 8
  PROVE  Anc(d, k) = Anc(d, 8)
<1> DEFINE a == Anc(d, 8)
           S == {i \in Entries(d) : i > a}
<1>1. /\ a \in Entries(d) /\ a \in Nat /\ d[a].indent < 8 /\ d[a].indent \in Nat
      /\ \A j \in Entries(d) : d[j].indent < 8 => j <= a
  BY AncFacts, LineFacts, SMTT(40)
<1>2. \A i \in Entries(d) : i \in Nat /\ d[i].indent \in Nat
  BY LineFacts
<1>3. \A i \in Entries(d) : Up(d, i) = a => d[i].indent < 8
  OBVIOUS
<1>4. Anc(d, k) \in Nat /\ a <= Anc(d, k) /\ (Anc(d, k) # 0 => Anc(d, k) \in Entries(d))
  BY AncFacts, AncMonotone, SMTT(40)
<1> HIDE DEF a
<1>5. ASSUME S # {} PROVE FALSE
  <2>1. S \in SUBSET Nat
    BY <1>2
  <2>2. PICK x \in S : \A y \in S : x <= y
    BY <1>5, <2>1, Least
  <2>3. x \in Entries(d) /\ x > a /\ x \in Nat /\ d[x].indent >= 8
    BY <1>1, <1>2
  <2>4. a <= Up(d, x)
    <3>1. a < x /\ d[a].indent < d[x].indent
      BY <1>1, <1>2, <2>3
    <3>2. \A j \in Entries(d) : j < x /\ d[j].indent < d[x].indent => j <= Up(d, x)
      BY <2>3, UpFacts
    <3> QED BY <1>1, <3>1, <3>2
  <2>5. Up(d, x) \in 0 .. (x - 1) /\ (Up(d, x) # 0 => Up(d, x) \in Entries(d))
    BY <2>3, UpFacts
  <2>6. Up(d, x) = a
    BY <1>1, <2>2, <2>3, <2>4, <2>5
  <2> QED BY <1>2, <1>3, <2>3, <2>6
<1>6. Anc(d, k) = a
  BY <1>1, <1>4, <1>5
<1> QED BY <1>6 DEF a

LEMMA DetailExact ==
  ASSUME NEW d \in Seq(Lines), NEW l \in Lines, Shape(d), State(d), Nested(l),
         section.key = "importers", l.indent > 6
  PROVE  DetailAccepted <=> NewOK(d, l)
<1> DEFINE a == Anc(d, l.indent)
<1>1. /\ Anc(d, 2) \in Keyed(d, "importers") /\ l.kind = "entry" /\ l.indent \in Nat
      /\ Carried(d, Anc(d, 4), Anc(d, 2), Imps(d), importers.importer, importers.open)
      /\ Carried(d, Anc(d, 6), Anc(d, 4), Secs(d), importers.section, importers.sectionOpen)
      /\ Carried(d, Anc(d, 8), Anc(d, 6), Deps(d), importers.dependency,
                 importers.dependencyOpen)
  BY ImportersKnown
<1>2. NewOK(d, l) <=>
         /\ NewLevel(d, l, Keyed(d, "importers"), 2) /\ NewLevel(d, l, Imps(d), 4)
         /\ NewDep(d, l) /\ NewDetail(d, l)
  BY ImportersKnown
<1>3. l.indent >= 8
  <2>1. \A x \in Nat : x > 6 /\ x % 2 = 0 => x >= 8
    OBVIOUS
  <2> QED BY <1>1, <2>1 DEF Nested
<1>4. Clean(d)
  BY DEF Shape
<1>5. CASE Anc(d, 8) = Anc(d, 6) /\ importers.dependency = None
  <2>1. ~DetailAccepted
    BY <1>5 DEF DetailAccepted
  <2>2. Anc(d, 8) \in Keyed(d, "importers") \/ Anc(d, 8) \in Imps(d) \/ Anc(d, 8) \in Secs(d)
    BY <1>1, <1>5 DEF Carried
  <2>3. Anc(d, 8) # 0
    BY <2>2, NotAtZero
  <2>4. \A i \in Entries(d) : Up(d, i) = Anc(d, 8) => d[i].indent < 8
    <3>1. /\ LevelOK(d, Keyed(d, "importers"), 2) /\ LevelOK(d, Imps(d), 4) /\ DepsOK(d)
      BY DEF Shape
    <3> SUFFICES ASSUME NEW i \in Entries(d), Up(d, i) = Anc(d, 8) PROVE d[i].indent < 8
      OBVIOUS
    <3>2. Up(d, i) \in Keyed(d, "importers") \/ Up(d, i) \in Imps(d) \/ Up(d, i) \in Secs(d)
      BY <2>2
    <3>3. d[i].indent = 2 \/ d[i].indent = 4 \/ d[i].indent = 6
      BY <3>1, <3>2 DEF LevelOK, DepsOK
    <3> QED BY <3>3
  <2>5. a = Anc(d, 8)
    BY <1>1, <1>3, <2>3, <2>4, NothingDeeper
  <2>6. \/ ~NewLevel(d, l, Keyed(d, "importers"), 2) \/ ~NewLevel(d, l, Imps(d), 4)
        \/ ~NewDep(d, l)
    <3>1. a \in Keyed(d, "importers") \/ a \in Imps(d) \/ a \in Secs(d)
      BY <2>2, <2>5
    <3>2. l.indent # 2 /\ l.indent # 4 /\ l.indent # 6 /\ Content(l)
      BY <1>1, <1>3 DEF Content
    <3> QED BY <3>1, <3>2 DEF NewLevel, NewDep
  <2> QED BY <1>2, <2>1, <2>6
<1>6. CASE /\ Anc(d, 8) \in Deps(d) /\ importers.dependency = d[Anc(d, 8)].key
           /\ importers.dependencyOpen = (d[Anc(d, 8)].value = "block")
  <2>1. Anc(d, 6) \in Secs(d) /\ Anc(d, 8) \in Entries(d) /\ d[Anc(d, 8)].indent = 6
    BY <1>4, <1>6, Outside, LevelsApart
  <2>2. BelowImporter /\ Anc(d, 4) \in Imps(d) /\ d[Anc(d, 6)].indent = 4 /\ d[Anc(d, 4)].indent = 2
    BY <2>1, ImporterIsOpen, LevelsApart
  <2>3. importers.dependency # None
    BY <1>6, <2>1, LineFacts
  <2>4. DetailAccepted <=> d[Anc(d, 8)].value = "block"
    BY <1>6, <2>2, <2>3 DEF DetailAccepted
  <2>5. a \notin Keyed(d, "importers") /\ a \notin Imps(d) /\ a \notin Secs(d)
    <3>1. a \in Nat /\ Anc(d, 8) \in Nat /\ Anc(d, 6) \in Nat /\ Anc(d, 4) \in Nat /\ Anc(d, 2) \in Nat
      <4>1. \A k \in Nat : Anc(d, k) \in Nat
        BY AncFacts
      <4> QED BY <1>1, <4>1
    <3>2. Anc(d, 8) <= a /\ Anc(d, 6) <= Anc(d, 8) /\ Anc(d, 4) <= Anc(d, 6) /\ Anc(d, 2) <= Anc(d, 4)
      BY <1>1, <1>3, AncMonotone
    <3>3. Anc(d, 8) # Anc(d, 6)
      BY <2>1, <2>2
    <3>4. a \in Keyed(d, "importers") => a = Anc(d, 2)
      BY <1>1, <1>4, Outside
    <3>5. a \in Imps(d) => a = Anc(d, 4)
      BY <1>1, <1>4, Outside
    <3>6. a \in Secs(d) => a = Anc(d, 6)
      BY <1>1, <1>4, Outside
    <3> HIDE DEF a
    <3> QED BY <3>1, <3>2, <3>3, <3>4, <3>5, <3>6
  <2>6. NewOK(d, l) <=> NewDetail(d, l)
    <3>1. /\ NewLevel(d, l, Keyed(d, "importers"), 2) /\ NewLevel(d, l, Imps(d), 4)
          /\ NewDep(d, l)
      BY <2>5 DEF NewLevel, NewDep
    <3> QED BY <1>2, <3>1
  <2>7. CASE d[Anc(d, 8)].value = "block"
    <3>1. a \in Deps(d) => a = Anc(d, 8)
      BY <1>1, <1>4, Outside
    <3>2. NewDetail(d, l)
      BY <2>7, <3>1 DEF NewDetail
    <3> QED BY <2>4, <2>6, <2>7, <3>2
  <2>8. CASE d[Anc(d, 8)].value # "block"
    <3>1. \A i \in Entries(d) : Up(d, i) # Anc(d, 8)
      BY <1>6, <2>8 DEF Shape, DetailsOK
    <3>2. Anc(d, 8) # 0
      BY <1>6, NotAtZero
    <3>3. a = Anc(d, 8)
      BY <1>1, <1>3, <3>1, <3>2, NothingDeeper
    <3>4. ~NewDetail(d, l)
      BY <1>1, <1>6, <2>8, <3>3 DEF NewDetail, Content
    <3> QED BY <2>4, <2>6, <2>8, <3>4
  <2> QED BY <2>7, <2>8
<1> QED BY <1>1, <1>5, <1>6 DEF Carried

-----------------------------------------------------------------------------
(* The steps within a document *)

\* The reader kept a line that is OK, and knows what it says; or it refused the file
\* for a line that is not.
Kept(d, l) ==
    /\ current' = Append(d, l) /\ UNCHANGED <<status, documents, sawSeparator>>
    /\ NewOK(d, l) /\ State(Longer(d, l))'
Refused(d, l) == status' = "refused" /\ ~NewOK(d, l)

\* The levels stay as they are.
LEMMA SameLevels ==
  ASSUME NEW d \in Seq(Lines), NEW l \in Lines, NEW e, e = Longer(d, l)
  PROVE  /\ ~(Content(l) /\ l.indent = 2 /\ Anc(d, 2) \in Keyed(d, "packages")) => Pkgs(e) = Pkgs(d)
         /\ ~(Content(l) /\ l.indent = 2 /\ Anc(d, 2) \in Keyed(d, "importers")) => Imps(e) = Imps(d)
         /\ ~(Content(l) /\ l.indent = 4 /\ Anc(d, 4) \in Imps(d)) => Secs(e) = Secs(d)
         /\ ~(Content(l) /\ l.indent = 6 /\ Anc(d, 6) \in Secs(d)) => Deps(e) = Deps(d)
<1>1. /\ Pkgs(e) = Pkgs(d) \cup Added(d, l, 2, Keyed(d, "packages"))
      /\ Imps(e) = Imps(d) \cup Added(d, l, 2, Keyed(d, "importers"))
      /\ Secs(e) = Secs(d) \cup Added(d, l, 4, Imps(d))
      /\ Deps(e) = Deps(d) \cup Added(d, l, 6, Secs(d))
  BY LongerLevels
<1>2. ASSUME NEW m, NEW P, ~(Content(l) /\ l.indent = m /\ Anc(d, m) \in P)
      PROVE  Added(d, l, m, P) = {}
  BY <1>2 DEF Added
<1> QED BY <1>1, <1>2

LEMMA OneMore ==
  ASSUME NEW d \in Seq(Lines), NEW l \in Lines, NEW e, e = Longer(d, l), Content(l)
  PROVE  /\ l.indent = 2 /\ Anc(d, 2) \in Keyed(d, "packages") => Pkgs(e) = Pkgs(d) \cup {Len(d) + 1}
         /\ l.indent = 2 /\ Anc(d, 2) \in Keyed(d, "importers") => Imps(e) = Imps(d) \cup {Len(d) + 1}
         /\ l.indent = 4 /\ Anc(d, 4) \in Imps(d) => Secs(e) = Secs(d) \cup {Len(d) + 1}
         /\ l.indent = 6 /\ Anc(d, 6) \in Secs(d) => Deps(e) = Deps(d) \cup {Len(d) + 1}
<1>1. /\ Pkgs(e) = Pkgs(d) \cup Added(d, l, 2, Keyed(d, "packages"))
      /\ Imps(e) = Imps(d) \cup Added(d, l, 2, Keyed(d, "importers"))
      /\ Secs(e) = Secs(d) \cup Added(d, l, 4, Imps(d))
      /\ Deps(e) = Deps(d) \cup Added(d, l, 6, Secs(d))
  BY LongerLevels
<1>2. ASSUME NEW m, NEW P, l.indent = m, Anc(d, m) \in P
      PROVE  Added(d, l, m, P) = {Len(d) + 1}
  BY <1>2 DEF Added
<1> QED BY <1>1, <1>2

\* A line that the reader passes over.
LEMMA PassedOver ==
  ASSUME NEW d \in Seq(Lines), NEW l \in Lines, NEW e, e = Longer(d, l), State(d),
         ~(Content(l) /\ l.indent < 2), section.key = "importers" => ~(Content(l) /\ l.indent < 8),
         Pkgs(e) = Pkgs(d), Imps(e) = Imps(d), Secs(e) = Secs(d), Deps(e) = Deps(d),
         UNCHANGED documentVars
  PROVE  State(e)'
<1>1. Keyed(e, "importers") = Keyed(d, "importers")
  BY LongerTops
<1>2. TopState(d) /\ PackageState(d) /\ ImporterState(d) /\ DirectState(d)
  BY DEF State
<1>3. /\ UNCHANGED <<seenKeys, section>> /\ UNCHANGED packages /\ UNCHANGED <<section, importers>>
      /\ UNCHANGED <<direct, scopeCounts>> /\ UNCHANGED importers
  BY DEF documentVars
<1>4. TopState(e)'
  BY <1>2, <1>3, TopSame
<1>5. PackageState(e)'
  BY <1>2, <1>3, PackageSame
<1>6. ImporterState(e)'
  <2>1. CASE section.key = "importers"
    BY <1>1, <1>2, <1>3, <2>1, ImporterSame
  <2>2. CASE section.key # "importers"
    <3>1. section'.key # "importers"
      BY <1>3, <2>2
    <3> QED BY <1>1, <1>2, <1>3, <3>1, ImporterOutside
  <2> QED BY <2>1, <2>2
<1>7. DirectState(e)'
  BY <1>2, <1>3, DirectSame
<1> QED BY <1>4, <1>5, <1>6, <1>7 DEF State

LEMMA BlankStep ==
  ASSUME NEW d \in Seq(Lines), NEW l \in Lines, d = current, Shape(d), State(d),
         BlankOrComment(l)
  PROVE  Kept(d, l)
<1> DEFINE e == Longer(d, l)
<1>1. l.kind \in {"blank", "comment"} /\ ~Content(l) /\ l.indent = 0
  BY LockAssumption DEF BlankOrComment, isBlankOrComment, Content
<1>2. UNCHANGED documentVars /\ current' = Append(d, l) /\ UNCHANGED <<status, documents, sawSeparator>>
  BY DEF BlankOrComment, Keep
<1>3. NewOK(d, l)
  <2>1. NewClean(l)
    BY <1>1 DEF NewClean
  <2> QED BY <1>1, <2>1 DEF NewOK, NewTop, NewPkg, NewLevel, NewDep, NewDetail
<1>4. Pkgs(e) = Pkgs(d) /\ Imps(e) = Imps(d) /\ Secs(e) = Secs(d) /\ Deps(e) = Deps(d)
  BY <1>1, SameLevels
<1>5. State(e)'
  <2> HIDE DEF e
  <2>1. e = Longer(d, l)
    BY DEF e
  <2> QED BY <1>1, <1>2, <1>4, <2>1, PassedOver
<1> QED BY <1>2, <1>3, <1>5 DEF Kept

LEMMA TopStep ==
  ASSUME NEW d \in Seq(Lines), NEW l \in Lines, d = current, Shape(d), State(d),
         TopLevelLine(l)
  PROVE  Kept(d, l) \/ Refused(d, l)
<1> DEFINE e == Longer(d, l)
<1>1. Content(l) /\ l.indent = 0 /\ Clean(d) /\ TopsOK(d)
  BY DEF TopLevelLine, Shape
<1>2. TopState(d) /\ PackageState(d) /\ ImporterState(d) /\ DirectState(d)
  BY DEF State
<1>3. TopLevelAccepted(l) <=> NewOK(d, l)
  BY <1>1, <1>2, TopExact
<1>4. CASE ~TopLevelAccepted(l)
  BY <1>3, <1>4 DEF TopLevelLine, Refuse, Refused
<1>5. CASE TopLevelAccepted(l)
  <2>1. /\ current' = Append(d, l) /\ UNCHANGED <<status, documents, sawSeparator>>
        /\ seenKeys' = seenKeys \cup {l.key} /\ section' = [key |-> l.key, value |-> l.value]
        /\ UNCHANGED packages /\ UNCHANGED importers /\ UNCHANGED <<direct, scopeCounts>>
    BY <1>5 DEF TopLevelLine, Keep
  <2>2. Pkgs(e) = Pkgs(d) /\ Imps(e) = Imps(d) /\ Secs(e) = Secs(d) /\ Deps(e) = Deps(d)
    BY <1>1, SameLevels
  <2> HIDE DEF e
  <2>3. e = Longer(d, l)
    BY DEF e
  <2>4. TopState(e)'
    BY <1>1, <1>2, <2>1, <2>3, TopNew
  <2>5. PackageState(e)'
    BY <1>2, <2>1, <2>2, <2>3, PackageSame
  <2>6. DirectState(e)'
    BY <1>2, <2>1, <2>2, <2>3, DirectSame
  <2>7. ImporterState(e)'
    <3>1. CASE l.key = "importers"
      <4>1. l.key \notin KeySet(d, Tops(d))
        BY <1>2, <1>5 DEF TopLevelAccepted, TopState
      <4>2. Keyed(d, "importers") = {}
        BY <3>1, <4>1 DEF Keyed, KeySet
      <4> QED BY <1>1, <1>2, <2>1, <2>2, <2>3, <4>2, ImporterOpened
    <3>2. CASE l.key # "importers"
      <4>1. section'.key # "importers"
        BY <2>1, <3>2
      <4>2. Keyed(e, "importers") = Keyed(d, "importers")
        BY <1>1, <2>3, <3>2, LongerTops
      <4> QED BY <1>2, <2>1, <2>2, <2>3, <4>1, <4>2, ImporterOutside
    <3> QED BY <3>1, <3>2
  <2>8. State(e)'
    BY <2>4, <2>5, <2>6, <2>7 DEF State
  <2> QED BY <1>3, <1>5, <2>1, <2>3, <2>8 DEF Kept
<1> QED BY <1>4, <1>5

LEMMA OtherStep ==
  ASSUME NEW d \in Seq(Lines), NEW l \in Lines, d = current, Shape(d), State(d),
         OtherSectionLine(l)
  PROVE  Kept(d, l)
<1> DEFINE e == Longer(d, l)
<1>1. Nested(l) /\ section.key \notin {"packages", "importers"} /\ Clean(d) /\ TopState(d)
  BY DEF OtherSectionLine, Shape, State
<1>2. UNCHANGED documentVars /\ current' = Append(d, l) /\ UNCHANGED <<status, documents, sawSeparator>>
  BY DEF OtherSectionLine, Keep
<1>3. NewOK(d, l)
  BY <1>1, OtherExact
<1>4. /\ Anc(d, 2) \notin Keyed(d, "packages") /\ Anc(d, 2) \notin Keyed(d, "importers")
      /\ Anc(d, 4) \notin Imps(d) /\ Anc(d, 6) \notin Secs(d)
  BY <1>1, Nowhere
<1>5. Pkgs(e) = Pkgs(d) /\ Imps(e) = Imps(d) /\ Secs(e) = Secs(d) /\ Deps(e) = Deps(d)
  BY <1>4, SameLevels
<1>6. ~(l.indent < 2)
  <2>1. \A x \in Nat : x > 0 /\ x % 2 = 0 => ~(x < 2)
    OBVIOUS
  <2> QED BY <1>1, <2>1, LockAssumption DEF Nested
<1>7. State(e)'
  <2> HIDE DEF e
  <2>1. e = Longer(d, l)
    BY DEF e
  <2> QED BY <1>1, <1>2, <1>5, <1>6, <2>1, PassedOver
<1> QED BY <1>2, <1>3, <1>7 DEF Kept

LEMMA PackageStep ==
  ASSUME NEW d \in Seq(Lines), NEW l \in Lines, d = current, Shape(d), State(d),
         PackageLine(l) \/ PackageDetailLine(l)
  PROVE  Kept(d, l) \/ Refused(d, l)
<1> DEFINE e == Longer(d, l)
<1>1. Nested(l) /\ section.key = "packages" /\ Clean(d) /\ Content(l)
  BY DEF PackageLine, PackageDetailLine, Shape, Nested
<1>2. TopState(d) /\ PackageState(d) /\ ImporterState(d) /\ DirectState(d)
  BY DEF State
<1>3. l.indent = 2 => (PackageAccepted(l) <=> NewOK(d, l))
  BY <1>1, PackagesExact
<1>4. l.indent > 2 => NewOK(d, l)
  BY <1>1, PackagesExact
<1>5. Anc(d, 2) \in Keyed(d, "packages")
  BY <1>1, <1>2, SectionAt DEF None
<1>6. Anc(d, 2) \notin Keyed(d, "importers") /\ Anc(d, 4) \notin Imps(d) /\ Anc(d, 6) \notin Secs(d)
  <2>1. section.key # "importers"
    BY <1>1
  <2> QED BY <1>1, <1>2, <2>1, Nowhere
<1>7. Imps(e) = Imps(d) /\ Secs(e) = Secs(d) /\ Deps(e) = Deps(d)
  BY <1>6, SameLevels
<1>8. CASE PackageDetailLine(l)
  <2>1. l.indent > 2 /\ l.indent \in Nat
    BY <1>8, LockAssumption DEF PackageDetailLine
  <2>2. UNCHANGED documentVars /\ current' = Append(d, l) /\ UNCHANGED <<status, documents, sawSeparator>>
    BY <1>8 DEF PackageDetailLine, Keep
  <2>3. Pkgs(e) = Pkgs(d)
    BY <2>1, SameLevels
  <2>4. State(e)'
    <3> HIDE DEF e
    <3>1. e = Longer(d, l)
      BY DEF e
    <3> QED BY <1>1, <1>7, <2>1, <2>2, <2>3, <3>1, PassedOver
  <2> QED BY <1>4, <2>1, <2>2, <2>4 DEF Kept
<1>9. CASE PackageLine(l) /\ ~PackageAccepted(l)
  BY <1>3, <1>9 DEF PackageLine, Refuse, Refused
<1>10. CASE PackageLine(l) /\ PackageAccepted(l)
  <2>1. /\ current' = Append(d, l) /\ UNCHANGED <<status, documents, sawSeparator>>
        /\ packages' = Append(packages, l.key) /\ l.indent = 2
        /\ UNCHANGED <<seenKeys, section>> /\ UNCHANGED importers
        /\ UNCHANGED <<direct, scopeCounts>>
    BY <1>10 DEF PackageLine, Keep
  <2>2. Pkgs(e) = Pkgs(d) \cup {Len(d) + 1}
    BY <1>1, <1>5, <2>1, OneMore
  <2>3. Keyed(e, "importers") = Keyed(d, "importers")
    BY <2>1, LongerTops
  <2> HIDE DEF e
  <2>4. e = Longer(d, l)
    BY DEF e
  <2>5. TopState(e)'
    BY <1>2, <2>1, <2>4, TopSame
  <2>6. l.key \in DOMAIN Locators /\ l.key \notin Range(packages)
    BY <1>10 DEF PackageAccepted, IsPackageKey
  <2>7. PackageState(e)'
    BY <1>2, <2>1, <2>2, <2>4, <2>6, PackageNew
  <2>8. section'.key # "importers"
    BY <1>1, <2>1
  <2>9. ImporterState(e)'
    BY <1>2, <1>7, <2>1, <2>3, <2>4, <2>8, ImporterOutside
  <2>10. DirectState(e)'
    BY <1>2, <1>7, <2>1, <2>4, DirectSame
  <2>11. State(e)'
    BY <2>5, <2>7, <2>9, <2>10 DEF State
  <2> QED BY <1>3, <1>10, <2>1, <2>4, <2>11 DEF Kept
<1> QED BY <1>8, <1>9, <1>10

LEMMA MalformedStep ==
  ASSUME NEW d \in Seq(Lines), NEW l \in Lines, MalformedLine(l)
  PROVE  Refused(d, l)
<1>1. ~NewClean(l)
  BY DEF MalformedLine, NewClean, rejectTabIndentation, Content
<1> QED BY <1>1 DEF MalformedLine, Refuse, Refused, NewOK

LEMMA ImporterStep ==
  ASSUME NEW d \in Seq(Lines), NEW l \in Lines, d = current, Shape(d), State(d), ImporterLine(l)
  PROVE  Kept(d, l) \/ Refused(d, l)
<1> DEFINE e == Longer(d, l)
<1>1. Nested(l) /\ section.key = "importers" /\ l.indent = 2 /\ Clean(d) /\ Content(l)
  BY DEF ImporterLine, InImporters, Shape, Nested
<1>2. TopState(d) /\ PackageState(d) /\ ImporterState(d) /\ DirectState(d)
  BY DEF State
<1>3. ImporterAccepted(l) <=> NewOK(d, l)
  BY <1>1, ImporterExact
<1>4. Anc(d, 2) \in Keyed(d, "importers")
  BY <1>1, ImportersKnown
<1>5. CASE ~ImporterAccepted(l)
  BY <1>3, <1>5 DEF ImporterLine, Refuse, Refused
<1>6. CASE ImporterAccepted(l)
  <2>1. /\ current' = Append(d, l) /\ UNCHANGED <<status, documents, sawSeparator>>
        /\ importers' = StartImporter(l) /\ UNCHANGED packages
        /\ UNCHANGED <<seenKeys, section>> /\ UNCHANGED <<direct, scopeCounts>>
    BY <1>6 DEF ImporterLine, Keep
  <2>2. Imps(e) = Imps(d) \cup {Len(d) + 1}
    BY <1>1, <1>4, OneMore
  <2>3. Secs(e) = Secs(d) /\ Deps(e) = Deps(d)
    BY <1>1, SameLevels
  <2>4. Pkgs(e) = Pkgs(d)
    <3>1. section.key # "packages"
      BY <1>1
    <3>2. Anc(d, 2) \notin Keyed(d, "packages")
      BY <1>1, <1>2, <3>1, Nowhere
    <3> QED BY <3>2, SameLevels
  <2>5. Keyed(e, "importers") # {}
    BY <1>1, <1>4, LongerTops
  <2> HIDE DEF e
  <2>6. e = Longer(d, l)
    BY DEF e
  <2>7. TopState(e)'
    BY <1>1, <1>2, <2>1, <2>6, TopSame
  <2>8. PackageState(e)'
    BY <1>2, <2>1, <2>4, <2>6, PackageSame
  <2>9. ImporterState(e)'
    BY <1>1, <1>2, <2>1, <2>2, <2>3, <2>5, <2>6, ImporterNew
  <2>10. DirectState(e)'
    BY <1>2, <2>1, <2>3, <2>6, DirectSame
  <2>11. State(e)'
    BY <2>7, <2>8, <2>9, <2>10 DEF State
  <2> QED BY <1>3, <1>6, <2>1, <2>6, <2>11 DEF Kept
<1> QED BY <1>5, <1>6

LEMMA SectionStep ==
  ASSUME NEW d \in Seq(Lines), NEW l \in Lines, d = current, Shape(d), State(d),
         ImporterSectionLine(l)
  PROVE  Kept(d, l) \/ Refused(d, l)
<1> DEFINE e == Longer(d, l)
<1>1. Nested(l) /\ section.key = "importers" /\ l.indent = 4 /\ Clean(d) /\ Content(l)
  BY DEF ImporterSectionLine, InImporters, Shape, Nested
<1>2. TopState(d) /\ PackageState(d) /\ ImporterState(d) /\ DirectState(d)
  BY DEF State
<1>3. SectionAccepted(l) <=> NewOK(d, l)
  BY <1>1, SectionExact
<1>4. Anc(d, 2) \in Keyed(d, "importers")
  BY <1>1, ImportersKnown
<1>5. CASE ~SectionAccepted(l)
  BY <1>3, <1>5 DEF ImporterSectionLine, Refuse, Refused
<1>6. CASE SectionAccepted(l)
  <2>1. /\ current' = Append(d, l) /\ UNCHANGED <<status, documents, sawSeparator>>
        /\ importers' = StartSection(l) /\ UNCHANGED packages
        /\ UNCHANGED <<seenKeys, section>> /\ UNCHANGED <<direct, scopeCounts>>
    BY <1>6 DEF ImporterSectionLine, Keep
  <2>2. Anc(d, 4) \in Imps(d)
    BY <1>1, <1>6, SectionExact
  <2>3. Secs(e) = Secs(d) \cup {Len(d) + 1}
    BY <1>1, <2>2, OneMore
  <2>4. Pkgs(e) = Pkgs(d) /\ Imps(e) = Imps(d) /\ Deps(e) = Deps(d)
    BY <1>1, SameLevels
  <2>5. Keyed(e, "importers") # {}
    BY <1>1, <1>4, LongerTops
  <2> HIDE DEF e
  <2>6. e = Longer(d, l)
    BY DEF e
  <2>7. TopState(e)'
    BY <1>1, <1>2, <2>1, <2>6, TopSame
  <2>8. PackageState(e)'
    BY <1>2, <2>1, <2>4, <2>6, PackageSame
  <2>9. ImporterState(e)'
    BY <1>1, <1>2, <2>1, <2>3, <2>4, <2>5, <2>6, SectionNew
  <2>10. DirectState(e)'
    BY <1>2, <2>1, <2>4, <2>6, DirectSame
  <2>11. State(e)'
    BY <2>7, <2>8, <2>9, <2>10 DEF State
  <2> QED BY <1>3, <1>6, <2>1, <2>6, <2>11 DEF Kept
<1> QED BY <1>5, <1>6

LEMMA DependencyStep ==
  ASSUME NEW d \in Seq(Lines), NEW l \in Lines, d = current, Shape(d), State(d),
         DependencyLine(l)
  PROVE  Kept(d, l) \/ Refused(d, l)
<1> DEFINE e == Longer(d, l)
           n == Len(d) + 1
           r == [importer |-> importers.importer, name |-> l.key,
                 section |-> importers.section, scope |-> ScopeOf(importers.section)]
<1>1. Nested(l) /\ section.key = "importers" /\ l.indent = 6 /\ Clean(d) /\ Content(l)
  BY DEF DependencyLine, InImporters, Shape, Nested
<1>2. TopState(d) /\ PackageState(d) /\ ImporterState(d) /\ DirectState(d)
  BY DEF State
<1>3. DependencyAccepted(l) <=> NewOK(d, l)
  BY <1>1, DependencyExact
<1>4. Anc(d, 2) \in Keyed(d, "importers")
  BY <1>1, ImportersKnown
<1>5. CASE ~DependencyAccepted(l)
  BY <1>3, <1>5 DEF DependencyLine, Refuse, Refused
<1>6. CASE DependencyAccepted(l)
  <2>1. /\ current' = Append(d, l) /\ UNCHANGED <<status, documents, sawSeparator>>
        /\ importers' = StartDependency(l) /\ UNCHANGED packages
        /\ UNCHANGED <<seenKeys, section>> /\ direct' = Append(direct, r)
        /\ scopeCounts' = [scopeCounts EXCEPT ![r.scope] = @ + 1]
    BY <1>6 DEF DependencyLine, Keep
  <2>2. Anc(d, 6) \in Secs(d) /\ importers.section = d[Anc(d, 6)].key
    BY <1>1, <1>6, DependencyExact
  <2>3. Anc(d, 4) \in Imps(d) /\ Up(d, Anc(d, 6)) = Anc(d, 4) /\ importers.importer = d[Anc(d, 4)].key
    BY <1>1, <2>2, ImporterIsOpen
  <2>4. Deps(e) = Deps(d) \cup {n}
    BY <1>1, <2>2, OneMore
  <2>5. Pkgs(e) = Pkgs(d) /\ Imps(e) = Imps(d) /\ Secs(e) = Secs(d)
    BY <1>1, SameLevels
  <2>6. Keyed(e, "importers") # {}
    BY <1>1, <1>4, LongerTops
  <2>7. r = DirectAt(e, n)
    <3>1. e[n] = l
      BY LongerLines
    <3>2. Up(e, n) = Anc(d, l.indent)
      BY <1>1, LongerLines
    <3>3. Anc(d, 6) \in Entries(d) /\ Anc(d, 4) \in Entries(d)
      BY <2>2, <2>3, LevelSubsets
    <3>4. e[Anc(d, 6)] = d[Anc(d, 6)] /\ Up(e, Anc(d, 6)) = Anc(d, 4)
      BY <2>3, <3>3, LongerOld
    <3>5. e[Anc(d, 4)] = d[Anc(d, 4)]
      BY <3>3, LongerOld
    <3> HIDE DEF e
    <3> QED BY <1>1, <2>2, <2>3, <3>1, <3>2, <3>4, <3>5 DEF DirectAt, SectionKey
  <2> HIDE DEF e, r
  <2>8. e = Longer(d, l)
    BY DEF e
  <2>9. TopState(e)'
    BY <1>1, <1>2, <2>1, <2>8, TopSame
  <2>10. PackageState(e)'
    BY <1>2, <2>1, <2>5, <2>8, PackageSame
  <2>11. ImporterState(e)'
    BY <1>1, <1>2, <2>1, <2>2, <2>3, <2>4, <2>5, <2>6, <2>8, DependencyNew
  <2>12. DirectState(e)'
    BY <1>2, <2>1, <2>4, <2>7, <2>8, DirectNew
  <2>13. State(e)'
    BY <2>9, <2>10, <2>11, <2>12 DEF State
  <2> QED BY <1>3, <1>6, <2>1, <2>8, <2>13 DEF Kept
<1> QED BY <1>5, <1>6

LEMMA DetailStep ==
  ASSUME NEW d \in Seq(Lines), NEW l \in Lines, d = current, Shape(d), State(d),
         DependencyDetailLine(l)
  PROVE  Kept(d, l) \/ Refused(d, l)
<1> DEFINE e == Longer(d, l)
<1>1. Nested(l) /\ section.key = "importers" /\ l.indent > 6 /\ Content(l)
  BY DEF DependencyDetailLine, InImporters, Nested
<1>2. DetailAccepted <=> NewOK(d, l)
  BY <1>1, DetailExact
<1>3. CASE ~DetailAccepted
  BY <1>2, <1>3 DEF DependencyDetailLine, Refuse, Refused
<1>4. CASE DetailAccepted
  <2>1. UNCHANGED documentVars /\ current' = Append(d, l) /\ UNCHANGED <<status, documents, sawSeparator>>
    BY <1>4 DEF DependencyDetailLine, Keep
  <2>2. l.indent >= 8 /\ l.indent \in Nat
    <3>1. \A x \in Nat : x > 6 /\ x % 2 = 0 => x >= 8
      OBVIOUS
    <3> QED BY <1>1, <3>1, LockAssumption DEF Nested
  <2>3. Pkgs(e) = Pkgs(d) /\ Imps(e) = Imps(d) /\ Secs(e) = Secs(d) /\ Deps(e) = Deps(d)
    BY <2>2, SameLevels
  <2>4. State(e)'
    <3> HIDE DEF e
    <3>1. e = Longer(d, l)
      BY DEF e
    <3> QED BY <2>1, <2>2, <2>3, <3>1, PassedOver
  <2> QED BY <1>2, <1>4, <2>1, <2>4 DEF Kept
<1> QED BY <1>3, <1>4

-----------------------------------------------------------------------------
(* The documents of a file *)

Seps(T) == {i \in DOMAIN T : T[i].kind = "separator"}
NextMark(T, m) == Min(Later(T, m))

LEMMA StartsAre ==
  ASSUME NEW T \in Seq(Lines)
  PROVE  /\ Seps(T) \subseteq 1 .. Len(T) /\ Len(T) \in Nat
         /\ Marks(T) = Seps(T) \cup {0, Len(T) + 1}
         /\ \A m : m \in Starts(T) <=> m \in Seps(T) \/ (m = 0 /\ 1 \notin Seps(T))
<1>1. DOMAIN T = 1 .. Len(T) /\ Len(T) \in Nat
  OBVIOUS
<1>2. Seps(T) \subseteq 1 .. Len(T)
  BY <1>1 DEF Seps
<1>3. Marks(T) = Seps(T) \cup {0, Len(T) + 1}
  BY DEF Marks, Seps
<1>4. 1 \in Marks(T) \cap DOMAIN T <=> 1 \in Seps(T)
  BY <1>1, <1>2, <1>3
<1>5. Starts(T) = {m \in Marks(T) : m <= Len(T) /\ ~(m = 0 /\ 1 \in Seps(T))}
  BY <1>4 DEF Starts
<1>6. ASSUME NEW m PROVE m \in Starts(T) <=> m \in Seps(T) \/ (m = 0 /\ 1 \notin Seps(T))
  BY <1>1, <1>2, <1>3, <1>5
<1> QED BY <1>1, <1>2, <1>3, <1>6

LEMMA NextMarkFacts ==
  ASSUME NEW T \in Seq(Lines), NEW m \in 0 .. Len(T)
  PROVE  /\ NextMark(T, m) \in Later(T, m) /\ NextMark(T, m) \in (m + 1) .. (Len(T) + 1)
         /\ \A n \in Marks(T) : n > m => NextMark(T, m) <= n
<1>1. Marks(T) = Seps(T) \cup {0, Len(T) + 1} /\ Seps(T) \subseteq 1 .. Len(T) /\ Len(T) \in Nat
  BY StartsAre
<1>2. Marks(T) \in SUBSET Nat /\ m \in Nat
  BY <1>1
<1>3. Later(T, m) \in SUBSET Nat
  BY <1>2 DEF Later
<1>4. Len(T) + 1 \in Later(T, m)
  BY <1>1, <1>2 DEF Later
<1>5. Min(Later(T, m)) \in Later(T, m) /\ \A n \in Later(T, m) : Min(Later(T, m)) <= n
  BY <1>3, <1>4, MinIn
<1>6. NextMark(T, m) \in Later(T, m) /\ \A n \in Later(T, m) : NextMark(T, m) <= n
  BY <1>5 DEF NextMark
<1> HIDE DEF NextMark
<1>7. NextMark(T, m) \in (m + 1) .. (Len(T) + 1)
  BY <1>1, <1>2, <1>3, <1>4, <1>6 DEF Later
<1> QED BY <1>6, <1>7 DEF Later

LEMMA PieceFacts ==
  ASSUME NEW T \in Seq(Lines), NEW m \in 0 .. Len(T)
  PROVE  /\ Piece(T, m) \in Seq(Lines) /\ Len(Piece(T, m)) = NextMark(T, m) - m - 1
         /\ \A i \in 1 .. (NextMark(T, m) - m - 1) : Piece(T, m)[i] = T[m + i]
<1>1. Piece(T, m) = SubSeq(T, m + 1, NextMark(T, m) - 1)
  BY DEF Piece, NextMark
<1>2. NextMark(T, m) \in (m + 1) .. (Len(T) + 1) /\ Len(T) \in Nat /\ m \in Nat
  BY NextMarkFacts
<1> HIDE DEF Piece
<1>3. Len(Piece(T, m)) = NextMark(T, m) - m - 1
  BY <1>1, <1>2
<1>4. \A i \in 1 .. (NextMark(T, m) - m - 1) : Piece(T, m)[i] = T[m + i]
  BY <1>1, <1>2
<1>5. \A i \in 1 .. (NextMark(T, m) - m - 1) : T[m + i] \in Lines
  BY <1>2
<1>6. Piece(T, m) \in Seq(Lines)
  <2>1. Piece(T, m) = [i \in 1 .. (NextMark(T, m) - m - 1) |-> T[m + i]]
    BY <1>1, <1>2
  <2> QED BY <1>2, <1>5, <2>1, SMTT(40)
<1> QED BY <1>3, <1>4, <1>6

LEMMA SameLines ==
  ASSUME NEW s \in Seq(Lines), NEW t \in Seq(Lines), Len(s) = Len(t),
         \A i \in 1 .. Len(s) : s[i] = t[i]
  PROVE  s = t
OBVIOUS

LEMMA LastPiece ==
  ASSUME NEW T \in Seq(Lines), NEW c \in Seq(Lines), NEW b, AfterLast(T, c, b)
  PROVE  /\ b \in Starts(T) /\ Piece(T, b) = c
         /\ \A m \in Starts(T) : m \in Nat /\ m <= b
<1>1. b \in Nat /\ Len(c) \in Nat /\ Len(T) \in Nat /\ b + Len(c) = Len(T) /\ b \in 0 .. Len(T)
  BY DEF AfterLast
<1>2. \A i \in Seps(T) : i \in Nat /\ i <= b
  <2> SUFFICES ASSUME NEW i \in Seps(T), ~(i <= b) PROVE FALSE
    BY DEF Seps
  <2>1. i \in 1 .. Len(T) /\ T[i].kind = "separator"
    BY DEF Seps
  <2>2. i - b \in 1 .. Len(c) /\ b + (i - b) = i
    BY <1>1, <2>1
  <2>3. c[i - b] = T[i] /\ c[i - b].kind # "separator"
    BY <2>2 DEF AfterLast
  <2> QED BY <2>1, <2>3
<1>3. b # 0 => b \in Seps(T)
  BY <1>1 DEF Seps, AfterLast
<1>4. b = 0 => 1 \notin Seps(T)
  BY <1>2
<1>5. b \in Starts(T)
  BY <1>3, <1>4, StartsAre
<1>6. \A m \in Starts(T) : m \in Nat /\ m <= b
  BY <1>1, <1>2, StartsAre
<1>7. NextMark(T, b) = Len(T) + 1
  <2>1. NextMark(T, b) \in Later(T, b) /\ NextMark(T, b) \in Nat
    BY <1>1, NextMarkFacts
  <2>2. NextMark(T, b) \in Seps(T) \cup {0, Len(T) + 1} /\ NextMark(T, b) > b
    BY <2>1, StartsAre DEF Later
  <2> QED BY <1>1, <1>2, <2>1, <2>2
<1>8. Piece(T, b) \in Seq(Lines) /\ Len(Piece(T, b)) = Len(c)
  BY <1>1, <1>7, PieceFacts
<1>9. ASSUME NEW i \in 1 .. Len(c) PROVE Piece(T, b)[i] = c[i]
  <2>1. i \in 1 .. (NextMark(T, b) - b - 1)
    BY <1>1, <1>7
  <2>2. Piece(T, b)[i] = T[b + i]
    BY <1>1, <2>1, PieceFacts
  <2> QED BY <2>2 DEF AfterLast
<1>10. Piece(T, b) = c
  BY <1>8, <1>9, SameLines
<1> QED BY <1>5, <1>6, <1>10

\* One more line changes nothing of the documents before the last separator.
LEMMA EarlierPieces ==
  ASSUME NEW T \in Seq(Lines), NEW l \in Lines, NEW U, U = Longer(T, l),
         NEW b \in 0 .. (Len(T) + 1), b # 0 => U[b].kind = "separator" /\ Len(T) > 0
  PROVE  /\ {m \in Starts(U) : m < b} = {m \in Starts(T) : m < b}
         /\ \A m \in Starts(T) : m < b => Piece(U, m) = Piece(T, m)
<1>1. /\ U \in Seq(Lines) /\ Len(U) = Len(T) + 1 /\ Len(T) \in Nat
      /\ \A i \in 1 .. Len(T) : U[i] = T[i]
  BY AppendLine DEF Longer
<1>2. /\ Seps(T) \subseteq 1 .. Len(T) /\ Marks(T) = Seps(T) \cup {0, Len(T) + 1}
      /\ \A m : m \in Starts(T) <=> m \in Seps(T) \/ (m = 0 /\ 1 \notin Seps(T))
  BY StartsAre
<1>3. /\ Seps(U) \subseteq 1 .. Len(U) /\ Marks(U) = Seps(U) \cup {0, Len(U) + 1}
      /\ \A m : m \in Starts(U) <=> m \in Seps(U) \/ (m = 0 /\ 1 \notin Seps(U))
  BY <1>1, StartsAre
<1>4. \A i \in 1 .. Len(T) : i \in Seps(U) <=> i \in Seps(T)
  BY <1>1 DEF Seps
<1>5. CASE b = 0
  <2>1. \A m \in Starts(T) : ~(m < b)
    BY <1>1, <1>2, <1>5
  <2>2. \A m \in Starts(U) : ~(m < b)
    BY <1>1, <1>3, <1>5
  <2> QED BY <2>1, <2>2
<1>6. CASE b # 0
  <2>1. b \in Seps(U) /\ Len(T) > 0
    BY <1>1, <1>6 DEF Seps
  <2>2. 1 \in Seps(U) <=> 1 \in Seps(T)
    BY <1>1, <1>4, <2>1
  <2>3. \A m : m \in Starts(U) /\ m < b <=> m \in Starts(T) /\ m < b
    BY <1>1, <1>2, <1>3, <1>4, <2>2
  <2>4. ASSUME NEW m \in Starts(T), m < b PROVE Piece(U, m) = Piece(T, m)
    <3>1. m \in 0 .. Len(T) /\ m \in 0 .. Len(U)
      BY <1>1, <1>2
    <3>2. NextMark(T, m) \in Later(T, m) /\ NextMark(T, m) \in (m + 1) .. (Len(T) + 1)
          /\ \A n \in Marks(T) : n > m => NextMark(T, m) <= n
      BY <3>1, NextMarkFacts
    <3>3. NextMark(U, m) \in Later(U, m) /\ NextMark(U, m) \in (m + 1) .. (Len(U) + 1)
          /\ \A n \in Marks(U) : n > m => NextMark(U, m) <= n
      BY <1>1, <3>1, NextMarkFacts
    <3>4. b \in Marks(U) /\ b \in Marks(T) /\ b > m
      BY <1>1, <1>2, <1>3, <1>4, <2>1, <2>4, <3>1
    <3>5. NextMark(T, m) <= b /\ NextMark(U, m) <= b
      BY <3>2, <3>3, <3>4
    <3>6. NextMark(T, m) \in Marks(T) /\ NextMark(U, m) \in Marks(U)
      BY <3>2, <3>3 DEF Later
    <3>7. NextMark(T, m) \in Marks(U)
      <4>1. NextMark(T, m) \in Seps(T) \/ NextMark(T, m) = Len(T) + 1
        BY <1>2, <3>1, <3>2, <3>6
      <4>2. NextMark(T, m) = Len(T) + 1 => NextMark(T, m) = b
        BY <1>1, <3>5
      <4> QED BY <1>2, <1>3, <1>4, <3>4, <4>1, <4>2
    <3>8. NextMark(U, m) \in Marks(T)
      <4>1. NextMark(U, m) \in Seps(U)
        BY <1>1, <1>3, <3>1, <3>3, <3>5, <3>6
      <4>2. NextMark(U, m) \in 1 .. Len(T) \/ NextMark(U, m) = Len(T) + 1
        BY <1>1, <1>3, <4>1
      <4> QED BY <1>2, <1>4, <4>1, <4>2
    <3>9. NextMark(T, m) = NextMark(U, m)
      <4>1. NextMark(U, m) <= NextMark(T, m)
        BY <3>1, <3>2, <3>3, <3>7
      <4>2. NextMark(T, m) <= NextMark(U, m)
        BY <3>1, <3>2, <3>3, <3>8
      <4> QED BY <1>1, <3>1, <3>2, <3>3, <4>1, <4>2
    <3>10. Piece(T, m) \in Seq(Lines) /\ Len(Piece(T, m)) = NextMark(T, m) - m - 1
           /\ \A i \in 1 .. (NextMark(T, m) - m - 1) : Piece(T, m)[i] = T[m + i]
      BY <3>1, PieceFacts
    <3>11. Piece(U, m) \in Seq(Lines) /\ Len(Piece(U, m)) = NextMark(U, m) - m - 1
           /\ \A i \in 1 .. (NextMark(U, m) - m - 1) : Piece(U, m)[i] = U[m + i]
      BY <1>1, <3>1, PieceFacts
    <3>12. \A i \in 1 .. (NextMark(T, m) - m - 1) : U[m + i] = T[m + i]
      <4>1. \A i \in 1 .. (NextMark(T, m) - m - 1) : m + i \in 1 .. Len(T)
        BY <1>1, <3>1, <3>2
      <4> QED BY <1>1, <4>1
    <3> QED BY <3>9, <3>10, <3>11, <3>12, SameLines, SMTT(40)
  <2> QED BY <2>3, <2>4
<1> QED BY <1>5, <1>6

-----------------------------------------------------------------------------
(* The documents read so far *)

\* Nothing is read yet of a document.
Fresh ==
    /\ seenKeys = {} /\ section = NoSection /\ packages = <<>> /\ importers = NoImporter
    /\ direct = <<>> /\ scopeCounts = emptyScopeCounts

LEMMA NoLines ==
  /\ <<>> \in Seq(Lines) /\ Len(<<>>) = 0
  /\ Entries(<<>>) = {} /\ Tops(<<>>) = {} /\ Pkgs(<<>>) = {} /\ Imps(<<>>) = {}
  /\ Secs(<<>>) = {} /\ Deps(<<>>) = {} /\ \A k : Keyed(<<>>, k) = {}
  /\ Anc(<<>>, 2) = 0 /\ Shape(<<>>)
  /\ DirectOf(<<>>) = {} /\ CountsOf(<<>>) = emptyScopeCounts /\ Trim(<<>>) = <<>>
<1>1. <<>> \in Seq(Lines) /\ Len(<<>>) = 0 /\ Entries(<<>>) = {}
  BY DEF Entries
<1>2. /\ Tops(<<>>) = {} /\ Pkgs(<<>>) = {} /\ Imps(<<>>) = {}
      /\ Secs(<<>>) = {} /\ Deps(<<>>) = {} /\ \A k : Keyed(<<>>, k) = {}
  BY <1>1 DEF Tops, Pkgs, Imps, Secs, Deps, Keyed, At
<1>3. Anc(<<>>, 2) = 0
  BY <1>1, AncFacts
<1>4. Shape(<<>>)
  <2>1. DOMAIN <<>> = {} /\ \A n : \A P : At(<<>>, n, P) = {}
    BY <1>1 DEF At
  <2>2. Clean(<<>>)
    BY <2>1 DEF Clean
  <2>3. TopsOK(<<>>)
    BY <1>2 DEF TopsOK, Distinct
  <2>4. PkgsOK(<<>>)
    BY <1>2 DEF PkgsOK, Distinct
  <2>5. ASSUME NEW P, NEW n PROVE LevelOK(<<>>, P, n)
    BY <1>1, <2>1 DEF LevelOK, Distinct
  <2>6. DepsOK(<<>>)
    BY <1>1, <1>2 DEF DepsOK, Distinct
  <2>7. DetailsOK(<<>>)
    BY <1>1 DEF DetailsOK
  <2> QED BY <2>2, <2>3, <2>4, <2>5, <2>6, <2>7 DEF Shape
<1>5. DirectOf(<<>>) = {}
  BY <1>2 DEF DirectOf
<1>6. CountsOf(<<>>) = emptyScopeCounts
  <2>1. \A s \in Scopes : InScope(<<>>, s) = {}
    BY <1>2 DEF InScope
  <2> QED BY <2>1, FS_EmptySet DEF CountsOf, emptyScopeCounts
<1>7. Trim(<<>>) = <<>>
  BY DEF Trim
<1> QED BY <1>1, <1>2, <1>3, <1>4, <1>5, <1>6, <1>7

LEMMA FreshState == Fresh => State(<<>>)
<1> SUFFICES ASSUME Fresh PROVE State(<<>>)
  OBVIOUS
<1>1. TopState(<<>>)
  BY NoLines DEF Fresh, TopState, KeySet
<1>2. PackageState(<<>>)
  BY NoLines DEF Fresh, PackageState, KeySet, IsInjective, Range
<1>3. ImporterState(<<>>)
  <2>1. ImporterFields(NoImporter) /\ NoImporter.seen = {} /\ NoSection.key = "none"
    BY DEF ImporterFields, NoImporter, NoSection, None
  <2> QED BY <2>1, NoLines DEF Fresh, ImporterState, KeySet
<1>4. DirectState(<<>>)
  BY NoLines DEF Fresh, DirectState, Range
<1> QED BY <1>1, <1>2, <1>3, <1>4 DEF State

LEMMA FreshStateNext == Fresh' => State(<<>>)'
BY FreshState, PTL

\* Documents that the rest of the file does not change.
LEMMA DocumentsSame ==
  ASSUME NEW docs, NEW T, NEW U, NEW M, DocumentsOf(docs, T, M),
         \A m \in M : Piece(U, m) = Piece(T, m)
  PROVE  DocumentsOf(docs, U, M)
<1>1. PICK f \in [DOMAIN docs -> M] :
        InOrder(docs, f, M) /\ \A i \in DOMAIN docs : DocumentOf(docs[i], Piece(T, f[i]))
  BY DEF DocumentsOf
<1>2. \A i \in DOMAIN docs : DocumentOf(docs[i], Piece(U, f[i]))
  BY <1>1
<1> QED BY <1>1, <1>2 DEF DocumentsOf

\* One more document, after the others.
LEMMA DocumentsMore ==
  ASSUME NEW docs, docs \in Seq(Range(docs)), NEW T, NEW M \in SUBSET Nat,
         DocumentsOf(docs, T, M), NEW b \in Nat, \A m \in M : m < b,
         NEW doc, DocumentOf(doc, Piece(T, b)), \A i \in DOMAIN docs : docs[i].body # doc.body
  PROVE  /\ DocumentsOf(Append(docs, doc), T, M \cup {b})
         /\ Append(docs, doc) \in Seq(Range(Append(docs, doc)))
<1> DEFINE more == Append(docs, doc)
           n == Len(docs) + 1
<1>1. /\ DOMAIN docs = 1 .. Len(docs) /\ Len(docs) \in Nat /\ DOMAIN more = 1 .. n
      /\ more[n] = doc /\ \A i \in 1 .. Len(docs) : more[i] = docs[i]
  OBVIOUS
<1>2. more \in Seq(Range(more))
  <2>1. Range(more) = Range(docs) \cup {doc}
    BY <1>1 DEF Range
  <2>2. docs \in Seq(Range(docs) \cup {doc})
    OBVIOUS
  <2>3. more \in Seq(Range(docs) \cup {doc})
    BY <2>2
  <2> QED BY <2>1, <2>3
<1> HIDE DEF more
<1>3. PICK f \in [DOMAIN docs -> M] :
        InOrder(docs, f, M) /\ \A i \in DOMAIN docs : DocumentOf(docs[i], Piece(T, f[i]))
  BY DEF DocumentsOf
<1> DEFINE g == [i \in 1 .. n |-> IF i = n THEN b ELSE f[i]]
<1>4. g[n] = b /\ \A i \in 1 .. Len(docs) : g[i] = f[i] /\ f[i] \in M
  BY <1>1, <1>3
<1>5. g \in [DOMAIN more -> M \cup {b}]
  BY <1>1, <1>3
<1> HIDE DEF g
<1>6. InOrder(more, g, M \cup {b})
  <2>1. \A m \in M \cup {b} : \E i \in DOMAIN more : g[i] = m
    BY <1>1, <1>3, <1>4 DEF InOrder
  <2>2. ASSUME NEW i \in 1 .. n, NEW j \in 1 .. n, i < j PROVE g[i] < g[j]
    <3>1. i \in 1 .. Len(docs) /\ g[i] = f[i] /\ f[i] \in M
      BY <1>1, <1>4, <2>2
    <3>2. CASE j = n
      BY <1>4, <3>1, <3>2
    <3>3. CASE j # n
      <4>1. j \in 1 .. Len(docs)
        BY <1>1, <3>3
      <4> QED BY <1>1, <1>3, <1>4, <2>2, <3>1, <4>1 DEF InOrder
    <3> QED BY <3>2, <3>3
  <2> QED BY <1>1, <1>5, <2>1, <2>2 DEF InOrder
<1>7. \A i \in DOMAIN more : DocumentOf(more[i], Piece(T, g[i]))
  BY <1>1, <1>3, <1>4
<1>8. ASSUME NEW i \in DOMAIN more, NEW j \in DOMAIN more, more[i].body = more[j].body PROVE i = j
  <2>1. \A k \in 1 .. Len(docs) : more[k].body # doc.body
    BY <1>1
  <2> QED BY <1>1, <1>8, <2>1 DEF DocumentsOf
<1>9. DocumentsOf(more, T, M \cup {b})
  BY <1>5, <1>6, <1>7, <1>8 DEF DocumentsOf
<1> QED BY <1>2, <1>9 DEF more

\* A line that is no separator goes on with the last document, a separator starts one.
LEMMA AfterLastLine ==
  ASSUME NEW T \in Seq(Lines), NEW c \in Seq(Lines), NEW b, AfterLast(T, c, b),
         NEW l \in Lines, l.kind # "separator"
  PROVE  AfterLast(Longer(T, l), Longer(c, l), b)
<1> DEFINE U == Longer(T, l)
           e == Longer(c, l)
<1>1. /\ U \in Seq(Lines) /\ Len(U) = Len(T) + 1 /\ U[Len(T) + 1] = l /\ Len(T) \in Nat
      /\ \A i \in 1 .. Len(T) : U[i] = T[i]
  BY AppendLine DEF Longer
<1>2. /\ e \in Seq(Lines) /\ Len(e) = Len(c) + 1 /\ e[Len(c) + 1] = l /\ Len(c) \in Nat
      /\ \A i \in 1 .. Len(c) : e[i] = c[i]
  BY AppendLine DEF Longer
<1> HIDE DEF U, e
<1>3. b \in Nat /\ b + Len(c) = Len(T)
  BY DEF AfterLast
<1>4. ASSUME NEW i \in 1 .. Len(e) PROVE e[i] = U[b + i] /\ e[i].kind # "separator"
  <2>1. CASE i = Len(c) + 1
    BY <1>1, <1>2, <1>3, <2>1
  <2>2. CASE i \in 1 .. Len(c)
    <3>1. c[i] = T[b + i] /\ c[i].kind # "separator"
      BY <2>2 DEF AfterLast
    <3>2. b + i \in 1 .. Len(T)
      BY <1>2, <1>3, <2>2
    <3> QED BY <1>1, <1>2, <2>2, <3>1, <3>2
  <2> QED BY <1>2, <2>1, <2>2
<1>5. b # 0 => U[b].kind = "separator"
  <2>1. b # 0 => b \in 1 .. Len(T) /\ T[b].kind = "separator"
    BY <1>1, <1>2, <1>3 DEF AfterLast
  <2> QED BY <1>1, <2>1
<1>6. b \in Nat /\ b + Len(e) = Len(U)
  BY <1>1, <1>2, <1>3
<1>7. AfterLast(U, e, b)
  BY <1>4, <1>5, <1>6 DEF AfterLast
<1> QED BY <1>7 DEF U, e

LEMMA AfterLastSeparator ==
  ASSUME NEW T \in Seq(Lines), NEW l \in Lines, l.kind = "separator"
  PROVE  AfterLast(Longer(T, l), <<>>, Len(T) + 1)
<1> DEFINE U == Longer(T, l)
<1>1. /\ U \in Seq(Lines) /\ Len(U) = Len(T) + 1 /\ U[Len(T) + 1] = l /\ Len(T) \in Nat
  BY AppendLine DEF Longer
<1> HIDE DEF U
<1>2. AfterLast(U, <<>>, Len(T) + 1)
  BY <1>1 DEF AfterLast
<1> QED BY <1>2 DEF U

\* The piece of a file that starts at m.
PieceAt(T, m) == [at |-> m, lines |-> Piece(T, m), tree |-> Tree(Piece(T, m))]

LEMMA PieceAtFacts ==
  ASSUME NEW T, NEW m
  PROVE  /\ PieceAt(T, m).at = m /\ PieceAt(T, m).lines = Piece(T, m)
         /\ PieceAt(T, m).tree = Tree(Piece(T, m))
         /\ Pieces(T) = {PieceAt(T, n) : n \in Starts(T)}
BY DEF PieceAt, Pieces

\* What a well-formed file says of its last document, and of an earlier one.
LEMMA WellFormedLast ==
  ASSUME NEW T \in Seq(Lines), NEW c \in Seq(Lines), NEW b, AfterLast(T, c, b),
         WellFormedFile(Pieces(T))
  PROVE  /\ Trim(c) # <<>> /\ Shape(c) /\ Pkgs(c) # {}
         /\ {"lockfileVersion", "packages"} \subseteq KeySet(c, Tops(c))
         /\ \A m \in Starts(T) : m # b => Trim(Piece(T, m)) # Trim(c)
<1> DEFINE p == PieceAt(T, b)
<1>1. b \in Starts(T) /\ Piece(T, b) = c
  BY LastPiece
<1>2. p \in Pieces(T) /\ p.lines = c /\ p.tree = Tree(c) /\ p.at = b
  BY <1>1, PieceAtFacts
<1> HIDE DEF p
<1>3. Trim(p.lines) # <<>> /\ WellFormed(p)
  BY <1>2 DEF WellFormedFile
<1>4. Shape(c) /\ Pkgs(c) # {} /\ {"lockfileVersion", "packages"} \subseteq KeySet(c, Tops(c))
  BY <1>2, <1>3, WellFormedShape
<1>5. ASSUME NEW m \in Starts(T), m # b PROVE Trim(Piece(T, m)) # Trim(c)
  <2> DEFINE q == PieceAt(T, m)
  <2>1. q \in Pieces(T) /\ q.lines = Piece(T, m) /\ q.at = m
    BY PieceAtFacts
  <2> HIDE DEF q
  <2>2. q # p
    BY <1>2, <1>5, <2>1
  <2> QED BY <1>2, <2>1, <2>2 DEF WellFormedFile
<1> QED BY <1>2, <1>3, <1>4, <1>5

\* What the reader knows has the types of its variables.
StateTypes ==
    /\ packages \in Seq(DOMAIN Locators)
    /\ importers.open \in BOOLEAN /\ importers.sectionOpen \in BOOLEAN
    /\ scopeCounts \in [Scopes -> Nat]

LEMMA StateTyped == \A e \in Seq(Lines) : State(e) => StateTypes
<1> SUFFICES ASSUME NEW e \in Seq(Lines), State(e) PROVE StateTypes
  OBVIOUS
<1>1. packages \in Seq(DOMAIN Locators)
  BY DEF State, PackageState
<1>2. importers.open \in BOOLEAN /\ importers.sectionOpen \in BOOLEAN
  BY DEF State, ImporterState, ImporterFields
<1>3. scopeCounts \in [Scopes -> Nat]
  <2>1. scopeCounts = CountsOf(e)
    BY DEF State, DirectState
  <2>2. \A s \in Scopes : Cardinality(InScope(e, s)) \in Nat
    BY ScopeFinite
  <2> QED BY <2>1, <2>2 DEF CountsOf
<1> QED BY <1>1, <1>2, <1>3 DEF StateTypes

LEMMA StateTypedNext == (\A e \in Seq(Lines) : State(e) => StateTypes)'
BY StateTyped, PTL

LEMMA StateHere == \A e : e = current /\ State(e) => State(current)
OBVIOUS

LEMMA StateHereNext == (\A e : e = current /\ State(e) => State(current))'
BY StateHere, PTL

LEMMA KeptStep ==
  ASSUME LockTypeOK, documents \in Seq(Range(documents)), status = "reading", Reading,
         NEW l \in Lines, text' = Append(text, l), NEW d \in Seq(Lines), d = current,
         Kept(d, l)
  PROVE  LockInv'
<1> DEFINE e == Longer(d, l)
           U == Longer(text, l)
<1>1. /\ text \in Seq(Lines) /\ e \in Seq(Lines) /\ U \in Seq(Lines)
      /\ Len(e) = Len(d) + 1 /\ Len(U) = Len(text) + 1 /\ Len(d) \in Nat /\ Len(text) \in Nat
  BY AppendLine DEF LockTypeOK, Longer
<1>2. /\ text' = U /\ current' = e /\ status' = "reading"
      /\ documents' = documents /\ sawSeparator' = sawSeparator
  BY DEF Kept, Longer
<1>3. State(e)' /\ NewOK(d, l)
  BY DEF Kept
<1>4. l.kind # "separator"
  BY <1>3 DEF NewOK, NewClean
<1>5. /\ AfterLast(text, d, Begun) /\ sawSeparator = (Begun # 0) /\ Shape(d)
      /\ DocumentsOf(documents, text, {m \in Starts(text) : m < Begun})
  BY DEF Reading
<1>6. AfterLast(U, e, Begun)
  BY <1>1, <1>4, <1>5, AfterLastLine
<1>7. Shape(e)
  BY <1>3, <1>5, ShapeAppend DEF Longer
<1> HIDE DEF e, U
<1>8. Begun' = Begun /\ Begun \in 0 .. Len(text) /\ Begun \in Nat
  <2>1. Begun \in Nat
    BY <1>5 DEF AfterLast
  <2>2. Begun = Len(text) - Len(d)
    BY DEF Begun
  <2>3. Begun' = Len(U) - Len(e)
    BY <1>2 DEF Begun
  <2> HIDE DEF Begun
  <2> QED BY <1>1, <2>1, <2>2, <2>3
<1>9. DocumentsOf(documents, U, {m \in Starts(U) : m < Begun})
  <2>1. Begun # 0 => U[Begun].kind = "separator"
    BY <1>6 DEF AfterLast
  <2>2. Begun # 0 => Len(text) > 0
    BY <1>1, <1>8
  <2>3. /\ {m \in Starts(U) : m < Begun} = {m \in Starts(text) : m < Begun}
        /\ \A m \in Starts(text) : m < Begun => Piece(U, m) = Piece(text, m)
    <3>1. Begun \in 0 .. (Len(text) + 1) /\ U = Longer(text, l)
      BY <1>1, <1>8 DEF U
    <3> QED BY <1>1, <2>1, <2>2, <3>1, EarlierPieces
  <2> QED BY <1>5, <2>3, DocumentsSame
<1>10. State(current)'
  BY <1>2, <1>3, StateHereNext
<1>11. Reading'
  BY <1>2, <1>5, <1>6, <1>7, <1>8, <1>9, <1>10 DEF Reading
<1>12. LockTypeOK'
  <2>1. StateTypes'
    BY <1>1, <1>3, StateTypedNext
  <2> QED BY <1>1, <1>2, <2>1 DEF LockTypeOK, StateTypes
<1> QED BY <1>2, <1>11, <1>12 DEF LockInv

LEMMA RefusedStep ==
  ASSUME LockTypeOK, documents \in Seq(Range(documents)), status = "reading", Reading,
         NEW l \in Lines, l.kind # "separator", text' = Append(text, l), Refuse,
         ~NewOK(current, l)
  PROVE  LockInv'
<1> DEFINE e == Longer(current, l)
           U == Longer(text, l)
<1>1. text \in Seq(Lines) /\ current \in Seq(Lines) /\ e \in Seq(Lines) /\ U \in Seq(Lines)
  BY AppendLine DEF LockTypeOK, Longer
<1>2. /\ text' = U /\ status' = "refused" /\ documents' = documents
      /\ UNCHANGED <<current, sawSeparator, documentVars>>
  BY DEF Refuse, Longer
<1>3. AfterLast(U, e, Begun)
  BY <1>1, AfterLastLine DEF Reading
<1>4. ~Shape(e)
  BY <1>1, ShapeAppend DEF Longer
<1> HIDE DEF e, U
<1>5. ~WellFormedFile(Pieces(U))
  BY <1>1, <1>3, <1>4, WellFormedLast
<1>6. LockTypeOK'
  BY <1>1, <1>2 DEF LockTypeOK, documentVars
<1> QED BY <1>2, <1>5, <1>6 DEF LockInv

\* A separator that is the first line of the file.
LEMMA FirstSeparator ==
  ASSUME LockTypeOK, documents \in Seq(Range(documents)), status = "reading", Reading,
         NEW l \in Lines, l.kind = "separator", text' = Append(text, l),
         documents = <<>>, ~sawSeparator, current = <<>>, sawSeparator' = TRUE,
         UNCHANGED <<status, documents, current, documentVars>>
  PROVE  LockInv'
<1> DEFINE U == Longer(text, l)
<1>1. text \in Seq(Lines) /\ Len(text) = 0 /\ U \in Seq(Lines) /\ Len(U) = 1 /\ U[1] = l
  <2>1. text \in Seq(Lines) /\ Begun = 0
    BY DEF LockTypeOK, Reading
  <2>2. Begun = Len(text) - 0
    BY DEF Begun
  <2>3. Len(text) = 0
    BY <2>1, <2>2
  <2> QED BY <2>1, <2>3, AppendLine DEF Longer
<1>2. text' = U
  BY DEF Longer
<1>3. AfterLast(U, <<>>, 1)
  <2>1. text \in Seq(Lines)
    BY <1>1
  <2>2. AfterLast(U, <<>>, Len(text) + 1)
    BY ONLY <2>1, l \in Lines, l.kind = "separator", AfterLastSeparator
  <2>3. Len(text) + 1 = 1
    BY <1>1
  <2> QED BY <2>2, <2>3
<1> HIDE DEF U
<1>4. Begun' = 1
  BY <1>1, <1>2 DEF Begun
<1>5. {m \in Starts(U) : m < 1} = {}
  BY <1>1, StartsAre DEF Seps
<1>6. DocumentsOf(<<>>, U, {})
  <2> DEFINE f == [i \in DOMAIN <<>> |-> 0]
  <2>1. DOMAIN <<>> = {} /\ f \in [DOMAIN <<>> -> {}]
    OBVIOUS
  <2>2. InOrder(<<>>, f, {})
    BY <2>1 DEF InOrder
  <2> QED BY <2>1, <2>2 DEF DocumentsOf
<1>7. State(current)'
  <2>1. State(current)
    BY DEF Reading
  <2> QED BY <2>1 DEF State, TopState, PackageState, ImporterState, DirectState, documentVars
<1>8. Reading'
  <2>1. Shape(current')
    BY DEF Reading
  <2>2. sawSeparator' = (Begun' # 0)
    <3>1. Begun' # 0
      BY <1>4
    <3> QED BY <3>1, Zenon
  <2>3. {m \in Starts(text') : m < Begun'} = {}
    BY <1>2, <1>4, <1>5
  <2>4. AfterLast(text', current', Begun')
    BY <1>2, <1>3, <1>4
  <2>5. DocumentsOf(documents', text', {m \in Starts(text') : m < Begun'})
    BY <1>2, <1>6, <2>3
  <2> QED BY <1>7, <2>1, <2>2, <2>4, <2>5 DEF Reading
<1>9. LockTypeOK'
  BY <1>1, <1>2 DEF LockTypeOK, documentVars
<1> QED BY <1>8, <1>9 DEF LockInv

\* The document being read is finished.
LEMMA FinishedDocument ==
  ASSUME LockTypeOK, documents \in Seq(Range(documents)), Reading, Finalize
  PROVE  /\ DocumentsOf(documents', text, Starts(text))
         /\ documents' \in Seq(Range(documents'))
         /\ \A i \in DOMAIN documents' : documents'[i].counts \in [Scopes -> Nat]
<1> DEFINE doc == [body |-> Trim(current), packages |-> packages, direct |-> direct,
                   counts |-> scopeCounts]
<1>1. documents' = Append(documents, doc) /\ Finished
  BY DEF Finalize
<1>2. /\ AfterLast(text, current, Begun) /\ Shape(current) /\ State(current)
      /\ text \in Seq(Lines) /\ current \in Seq(Lines)
      /\ DocumentsOf(documents, text, {m \in Starts(text) : m < Begun})
  BY DEF Reading, LockTypeOK
<1>3. /\ Begun \in Starts(text) /\ Piece(text, Begun) = current
      /\ \A m \in Starts(text) : m \in Nat /\ m <= Begun
  BY <1>2, LastPiece
<1>4. DocumentOf(doc, current)
  <2>1. /\ Trim(current) # <<>> /\ packages # <<>>
        /\ {"lockfileVersion", "packages"} \subseteq seenKeys
    BY <1>1 DEF Finished
  <2>2. /\ seenKeys = KeySet(current, Tops(current))
        /\ packages \in Seq(DOMAIN Locators) /\ IsInjective(packages)
        /\ Range(packages) = KeySet(current, Pkgs(current))
        /\ Range(direct) = DirectOf(current) /\ scopeCounts = CountsOf(current)
    BY <1>2 DEF State, TopState, PackageState, DirectState
  <2>3. Pkgs(current) # {}
    <3>1. packages[1] \in Range(packages)
      BY <2>1, <2>2 DEF Range
    <3> QED BY <2>2, <3>1 DEF KeySet
  <2>4. /\ doc.packages = packages /\ doc.direct = direct
        /\ doc = [body |-> Trim(current), packages |-> doc.packages, direct |-> doc.direct,
                  counts |-> CountsOf(current)]
    BY <2>2
  <2> HIDE DEF doc
  <2> QED BY <1>2, <2>1, <2>2, <2>3, <2>4 DEF DocumentOf
<1>5. \A i \in DOMAIN documents : documents[i].body # doc.body
  BY <1>1 DEF Finished
<1>6. doc.counts \in [Scopes -> Nat]
  BY DEF LockTypeOK
<1> HIDE DEF doc
<1> DEFINE M == {m \in Starts(text) : m < Begun}
<1>7. M \in SUBSET Nat /\ Begun \in Nat /\ \A m \in M : m < Begun
  BY <1>3
<1>8. M \cup {Begun} = Starts(text)
  BY <1>3
<1>9. DocumentsOf(documents, text, M) /\ DocumentOf(doc, Piece(text, Begun))
  BY <1>2, <1>3, <1>4
<1> HIDE DEF M
<1>10. /\ DocumentsOf(Append(documents, doc), text, M \cup {Begun})
       /\ Append(documents, doc) \in Seq(Range(Append(documents, doc)))
  BY <1>5, <1>7, <1>9, DocumentsMore
<1>11. \A i \in DOMAIN documents' : documents'[i].counts \in [Scopes -> Nat]
  <2>1. \A i \in DOMAIN documents : documents[i].counts \in [Scopes -> Nat]
    BY DEF LockTypeOK
  <2> QED BY <1>1, <1>6, <2>1
<1> QED BY <1>1, <1>8, <1>10, <1>11

LEMMA NextSeparator ==
  ASSUME LockTypeOK, documents \in Seq(Range(documents)), status = "reading", Reading,
         NEW l \in Lines, l.kind = "separator", text' = Append(text, l),
         documents # <<>> \/ sawSeparator \/ current # <<>>, Finalize, sawSeparator' = TRUE,
         UNCHANGED status
  PROVE  LockInv'
<1> DEFINE U == Longer(text, l)
           b == Len(text) + 1
<1>1. /\ text \in Seq(Lines) /\ U \in Seq(Lines) /\ Len(U) = b /\ U[b] = l /\ Len(text) \in Nat
  BY AppendLine DEF LockTypeOK, Longer
<1>2. text' = U /\ current' = <<>> /\ status' = "reading"
  BY DEF Longer, Finalize
<1>3. AfterLast(U, <<>>, b)
  BY <1>1, AfterLastSeparator
<1>4. Begun' = b
  <2>1. Len(<<>>) = 0
    BY NoLines
  <2> QED BY <1>1, <1>2, <2>1 DEF Begun
<1>5. Len(text) > 0
  <2> SUFFICES ASSUME Len(text) = 0 PROVE FALSE
    BY <1>1
  <2>1. AfterLast(text, current, Begun) /\ current \in Seq(Lines)
    BY DEF Reading, LockTypeOK
  <2>2. Begun = 0 /\ Len(current) = 0
    BY <2>1 DEF AfterLast
  <2>3. current = <<>> /\ ~sawSeparator
    <3>1. current = <<>>
      BY <2>1, <2>2
    <3>2. sawSeparator = (Begun # 0)
      BY DEF Reading
    <3> QED BY <2>2, <3>1, <3>2, Zenon
  <2>4. DocumentsOf(documents, text, {m \in Starts(text) : m < 0})
    BY <2>2 DEF Reading
  <2>5. {m \in Starts(text) : m < 0} = {}
    <3>1. Starts(text) \subseteq Nat
      <4>1. /\ Seps(text) \subseteq 1 .. Len(text)
            /\ \A m : m \in Starts(text) <=> m \in Seps(text) \/ (m = 0 /\ 1 \notin Seps(text))
        BY ONLY <1>1, StartsAre
      <4> QED BY <1>1, <4>1
    <3> QED BY <3>1
  <2>6. DOMAIN documents = {}
    BY <2>4, <2>5 DEF DocumentsOf
  <2>7. documents = <<>>
    BY <2>6
  <2> QED BY <2>3, <2>7
<1>6. /\ DocumentsOf(documents', text, Starts(text))
      /\ documents' \in Seq(Range(documents'))
      /\ \A i \in DOMAIN documents' : documents'[i].counts \in [Scopes -> Nat]
  BY FinishedDocument
<1>7. DocumentsOf(documents', U, {m \in Starts(U) : m < b})
  <2>1. /\ {m \in Starts(U) : m < b} = {m \in Starts(text) : m < b}
        /\ \A m \in Starts(text) : m < b => Piece(U, m) = Piece(text, m)
    <3>1. b \in 0 .. (Len(text) + 1) /\ U = Longer(text, l) /\ U[b].kind = "separator"
      BY <1>1
    <3> QED BY <1>1, <1>5, <3>1, EarlierPieces
  <2>2. \A m \in Starts(text) : m < b
    BY <1>1, StartsAre
  <2>3. {m \in Starts(U) : m < b} = Starts(text)
    BY <2>1, <2>2
  <2> HIDE DEF b, U
  <2> QED BY <1>6, <2>1, <2>2, <2>3, DocumentsSame
<1>8. State(<<>>)'
  <2>1. Fresh'
    BY DEF Finalize, Fresh
  <2> QED BY <2>1, FreshStateNext
<1>9. State(current)'
  BY <1>2, <1>8, StateHereNext
<1> HIDE DEF U
<1>10. Reading'
  <2>1. Shape(current')
    BY <1>2, NoLines
  <2>2. sawSeparator' = (Begun' # 0)
    <3>1. Begun' # 0
      BY <1>1, <1>4
    <3> QED BY <3>1, Zenon
  <2> HIDE DEF b
  <2>3. AfterLast(text', current', Begun')
    BY <1>2, <1>3, <1>4
  <2>4. DocumentsOf(documents', text', {m \in Starts(text') : m < Begun'})
    BY <1>2, <1>4, <1>7
  <2> QED BY <1>9, <2>1, <2>2, <2>3, <2>4 DEF Reading
<1>11. LockTypeOK'
  <2>1. StateTypes'
    <3>1. <<>> \in Seq(Lines)
      BY NoLines
    <3> QED BY <1>8, <3>1, StateTypedNext
  <2> QED BY <1>1, <1>2, <1>6, <2>1, NoLines DEF LockTypeOK, StateTypes
<1> QED BY <1>2, <1>6, <1>10, <1>11 DEF LockInv

\* A separator that the reader refuses ends the file there: its last document is empty.
LEMMA RefusedSeparator ==
  ASSUME LockTypeOK, documents \in Seq(Range(documents)),
         NEW l \in Lines, l.kind = "separator", text' = Append(text, l), Refuse
  PROVE  LockInv'
<1> DEFINE U == Longer(text, l)
<1>1. text \in Seq(Lines) /\ U \in Seq(Lines)
  BY AppendLine DEF LockTypeOK, Longer
<1>2. /\ text' = U /\ status' = "refused" /\ documents' = documents
      /\ UNCHANGED <<current, sawSeparator, documentVars>>
  BY DEF Refuse, Longer
<1>3. AfterLast(U, <<>>, Len(text) + 1)
  BY <1>1, AfterLastSeparator
<1> HIDE DEF U
<1>4. ~WellFormedFile(Pieces(U))
  BY <1>1, <1>3, WellFormedLast, NoLines
<1>5. LockTypeOK'
  BY <1>1, <1>2 DEF LockTypeOK, documentVars
<1> QED BY <1>2, <1>4, <1>5 DEF LockInv

LEMMA EndOfFileStep ==
  ASSUME LockInv, EndOfFile
  PROVE  LockInv'
<1>1. /\ LockTypeOK /\ documents \in Seq(Range(documents)) /\ Reading
      /\ text' = text /\ sawSeparator' = sawSeparator
  BY DEF LockInv, EndOfFile
<1>2. CASE Finalize /\ status' = "read"
  <2>1. /\ DocumentsOf(documents', text, Starts(text))
        /\ documents' \in Seq(Range(documents'))
        /\ \A i \in DOMAIN documents' : documents'[i].counts \in [Scopes -> Nat]
    BY <1>1, <1>2, FinishedDocument
  <2>2. Fresh' /\ current' = <<>>
    BY <1>2 DEF Finalize, Fresh
  <2>3. StateTypes'
    <3>1. <<>> \in Seq(Lines)
      BY NoLines
    <3> QED BY <2>2, <3>1, FreshStateNext, StateTypedNext
  <2>4. LockTypeOK'
    BY <1>1, <1>2, <2>1, <2>2, <2>3, NoLines DEF LockTypeOK, StateTypes
  <2> QED BY <1>1, <1>2, <2>1, <2>4 DEF LockInv
<1>3. CASE ~Finished /\ status' = "refused" /\ UNCHANGED <<documents, current, documentVars>>
  <2>1. ~WellFormedFile(Pieces(text))
    <3> SUFFICES ASSUME WellFormedFile(Pieces(text)) PROVE Finished
      BY <1>3
    <3>1. /\ AfterLast(text, current, Begun) /\ State(current)
          /\ text \in Seq(Lines) /\ current \in Seq(Lines)
          /\ DocumentsOf(documents, text, {m \in Starts(text) : m < Begun})
      BY <1>1 DEF Reading, LockTypeOK
    <3>2. /\ Trim(current) # <<>> /\ Shape(current) /\ Pkgs(current) # {}
          /\ {"lockfileVersion", "packages"} \subseteq KeySet(current, Tops(current))
          /\ \A m \in Starts(text) : m # Begun => Trim(Piece(text, m)) # Trim(current)
      BY <3>1, WellFormedLast
    <3>3. ASSUME NEW i \in DOMAIN documents PROVE documents[i].body # Trim(current)
      <4>1. PICK m \in {k \in Starts(text) : k < Begun} : DocumentOf(documents[i], Piece(text, m))
        BY <3>1 DEF DocumentsOf
      <4>2. documents[i].body = Trim(Piece(text, m))
        BY <4>1 DEF DocumentOf
      <4>3. m \in Starts(text) /\ m # Begun
        <5>1. m \in Nat /\ Begun \in Nat /\ m < Begun
          BY <3>1, <4>1, LastPiece
        <5> QED BY <4>1, <5>1
      <4> QED BY <3>2, <4>2, <4>3
    <3>4. {"lockfileVersion", "packages"} \subseteq seenKeys
      BY <3>1, <3>2 DEF State, TopState
    <3>5. packages # <<>>
      <4>1. Range(packages) = KeySet(current, Pkgs(current))
        BY <3>1 DEF State, PackageState
      <4>2. Range(packages) # {}
        BY <3>2, <4>1 DEF KeySet
      <4> QED BY <4>2 DEF Range
    <3> QED BY <3>2, <3>3, <3>4, <3>5 DEF Finished
  <2>2. LockTypeOK'
    BY <1>1, <1>3 DEF LockTypeOK, documentVars
  <2> QED BY <1>1, <1>3, <2>1, <2>2 DEF LockInv
<1> QED BY <1>2, <1>3 DEF EndOfFile

\* A line within a document.
LineStep(l) ==
    \/ MalformedLine(l) \/ BlankOrComment(l)
    \/ TopLevelLine(l) \/ OtherSectionLine(l) \/ PackageLine(l) \/ PackageDetailLine(l)
    \/ ImporterLine(l) \/ ImporterSectionLine(l) \/ DependencyLine(l) \/ DependencyDetailLine(l)

LEMMA LineTaken ==
  ASSUME NEW l, LineStep(l)
  PROVE  /\ status = "reading" /\ text' = Append(text, l) /\ l.kind # "separator"
         /\ status' = "refused" => Refuse
<1>1. CASE MalformedLine(l)
  BY <1>1 DEF MalformedLine, Take, Content, rejectTabIndentation
<1>2. CASE BlankOrComment(l)
  BY <1>2 DEF BlankOrComment, isBlankOrComment, Take, Keep
<1>3. CASE TopLevelLine(l)
  BY <1>3 DEF TopLevelLine, Content, Take, Keep
<1>4. CASE OtherSectionLine(l)
  BY <1>4 DEF OtherSectionLine, Nested, Content, Take, Keep
<1>5. CASE PackageLine(l)
  BY <1>5 DEF PackageLine, Nested, Content, Take, Keep
<1>6. CASE PackageDetailLine(l)
  BY <1>6 DEF PackageDetailLine, Nested, Content, Take, Keep
<1>7. CASE ImporterLine(l)
  BY <1>7 DEF ImporterLine, InImporters, Nested, Content, Take, Keep
<1>8. CASE ImporterSectionLine(l)
  BY <1>8 DEF ImporterSectionLine, InImporters, Nested, Content, Take, Keep
<1>9. CASE DependencyLine(l)
  BY <1>9 DEF DependencyLine, InImporters, Nested, Content, Take, Keep
<1>10. CASE DependencyDetailLine(l)
  BY <1>10 DEF DependencyDetailLine, InImporters, Nested, Content, Take, Keep
<1> QED BY <1>1, <1>2, <1>3, <1>4, <1>5, <1>6, <1>7, <1>8, <1>9, <1>10 DEF LineStep

\* Every line within a document is kept if it is OK, and else the file is refused.
LEMMA LineExact ==
  ASSUME NEW d \in Seq(Lines), NEW l \in Lines, d = current, Shape(d), State(d), LineStep(l)
  PROVE  Kept(d, l) \/ Refused(d, l)
<1>1. CASE MalformedLine(l)
  BY <1>1, MalformedStep
<1>2. CASE BlankOrComment(l)
  BY <1>2, BlankStep
<1>3. CASE TopLevelLine(l)
  BY <1>3, TopStep
<1>4. CASE OtherSectionLine(l)
  BY <1>4, OtherStep
<1>5. CASE PackageLine(l) \/ PackageDetailLine(l)
  BY <1>5, PackageStep
<1>6. CASE ImporterLine(l)
  BY <1>6, ImporterStep
<1>7. CASE ImporterSectionLine(l)
  BY <1>7, SectionStep
<1>8. CASE DependencyLine(l)
  BY <1>8, DependencyStep
<1>9. CASE DependencyDetailLine(l)
  BY <1>9, DetailStep
<1> QED BY <1>1, <1>2, <1>3, <1>4, <1>5, <1>6, <1>7, <1>8, <1>9 DEF LineStep

LEMMA ReadLineStep ==
  ASSUME LockInv, ReadLine
  PROVE  LockInv'
<1>1. PICK l \in Lines : Separator(l) \/ LineStep(l)
  BY DEF ReadLine, LineStep
<1>2. LockTypeOK /\ documents \in Seq(Range(documents))
  BY DEF LockInv
<1>3. CASE LineStep(l)
  <2>1. /\ status = "reading" /\ text' = Append(text, l) /\ l.kind # "separator"
        /\ status' = "refused" => Refuse
    BY <1>3, LineTaken
  <2>2. Reading
    BY <2>1 DEF LockInv
  <2>3. PICK d \in Seq(Lines) : d = current
    BY <1>2 DEF LockTypeOK
  <2>4. Shape(d) /\ State(d)
    BY <2>2, <2>3 DEF Reading
  <2>5. CASE Kept(d, l)
    BY <1>2, <2>1, <2>2, <2>3, <2>5, KeptStep
  <2>6. CASE Refused(d, l)
    <3>1. Refuse /\ ~NewOK(current, l)
      BY <2>1, <2>3, <2>6 DEF Refused
    <3> QED BY <1>2, <2>1, <2>2, <3>1, RefusedStep
  <2> QED BY <1>3, <2>3, <2>4, <2>5, <2>6, LineExact
<1>4. CASE Separator(l)
  <2>1. status = "reading" /\ text' = Append(text, l) /\ l.kind = "separator"
    BY <1>4 DEF Separator, Take
  <2>2. Reading
    BY <2>1 DEF LockInv
  <2>3. CASE /\ documents = <<>> /\ ~sawSeparator /\ current = <<>>
             /\ sawSeparator' = TRUE
             /\ UNCHANGED <<status, documents, current, documentVars>>
    BY <1>2, <2>1, <2>2, <2>3, FirstSeparator
  <2>4. CASE /\ documents # <<>> \/ sawSeparator \/ current # <<>>
             /\ Finalize /\ sawSeparator' = TRUE /\ UNCHANGED status
    BY <1>2, <2>1, <2>2, <2>4, NextSeparator
  <2>5. CASE Refuse
    BY <1>2, <2>1, <2>5, RefusedSeparator
  <2> QED BY <1>4, <2>3, <2>4, <2>5 DEF Separator
<1> QED BY <1>1, <1>3, <1>4

LEMMA LockInitInv == LockInit => LockInv
<1> SUFFICES ASSUME LockInit PROVE LockInv
  OBVIOUS
<1>1. Fresh /\ current = <<>> /\ text = <<>> /\ documents = <<>> /\ status = "reading"
  BY DEF LockInit, Fresh
<1>2. State(<<>>)
  BY <1>1, FreshState
<1>3. LockTypeOK
  <2>1. StateTypes
    BY <1>2, NoLines, StateTyped
  <2>2. text \in Seq(Lines) /\ current \in Seq(Lines)
    BY <1>1, NoLines
  <2>3. \A i \in DOMAIN documents : documents[i].counts \in [Scopes -> Nat]
    BY <1>1
  <2>4. sawSeparator \in BOOLEAN
    BY DEF LockInit
  <2> QED BY <1>1, <2>1, <2>2, <2>3, <2>4 DEF LockTypeOK, StateTypes
<1>4. Begun = 0
  BY <1>1, NoLines DEF Begun
<1>5. Reading
  <2>1. AfterLast(<<>>, <<>>, 0)
    BY NoLines DEF AfterLast
  <2>2. sawSeparator = (Begun # 0)
    <3>1. sawSeparator = FALSE
      BY DEF LockInit
    <3> QED BY <1>4, <3>1, Zenon
  <2>3. {m \in Starts(text) : m < Begun} = {}
    <3>1. Starts(text) \subseteq Nat
      <4>1. /\ Seps(text) \subseteq 1 .. Len(text) /\ Len(text) \in Nat
            /\ \A m : m \in Starts(text) <=> m \in Seps(text) \/ (m = 0 /\ 1 \notin Seps(text))
        <5>1. text \in Seq(Lines)
          BY <1>1, NoLines
        <5> QED BY ONLY <5>1, StartsAre
      <4> QED BY <4>1
    <3> QED BY <1>4, <3>1
  <2>4. DocumentsOf(<<>>, text, {})
    <3> DEFINE f == [i \in DOMAIN <<>> |-> 0]
    <3>1. DOMAIN <<>> = {} /\ f \in [DOMAIN <<>> -> {}]
      OBVIOUS
    <3>2. InOrder(<<>>, f, {})
      BY <3>1 DEF InOrder
    <3> QED BY <3>1, <3>2 DEF DocumentsOf
  <2>5. Shape(current) /\ State(current)
    BY <1>1, <1>2, NoLines
  <2>6. AfterLast(text, current, Begun)
    BY <1>1, <1>4, <2>1
  <2> QED BY <1>1, <2>2, <2>3, <2>4, <2>5, <2>6 DEF Reading
<1>6. documents \in Seq(Range(documents))
  BY <1>1
<1> QED BY <1>1, <1>3, <1>5, <1>6 DEF LockInv

LEMMA LockNextInv == LockInv /\ LockNext => LockInv'
BY ReadLineStep, EndOfFileStep DEF LockNext

-----------------------------------------------------------------------------
(* The inventory is the lockfile's *)

\* A set that 1 .. n numbers has n elements.
LEMMA Enumerated ==
  ASSUME NEW n \in Nat, NEW S, NEW g \in [1 .. n -> S],
         \A i, j \in 1 .. n : g[i] = g[j] => i = j, \A s \in S : \E i \in 1 .. n : g[i] = s
  PROVE  IsFiniteSet(S) /\ Cardinality(S) = n
<1>1. IsFiniteSet(1 .. n) /\ Cardinality(1 .. n) = n
  BY FS_Interval
<1>2. g \in Bijection(1 .. n, S)
  BY DEF Bijection, Injection, Surjection, IsInjective
<1>3. ExistsBijection(1 .. n, S)
  BY <1>2 DEF ExistsBijection
<1> QED BY <1>1, <1>3, FS_Bijection

\* The piece of each document of a file, in order.
LEMMA DocumentPieces ==
  ASSUME NEW T \in Seq(Lines), NEW docs, docs \in Seq(Range(docs)),
         DocumentsOf(docs, T, Starts(T))
  PROVE  \E f \in [1 .. Len(docs) -> Starts(T)] :
            /\ \A i \in 1 .. Len(docs) : DocumentOf(docs[i], Piece(T, f[i]))
            /\ \A i, j \in 1 .. Len(docs) : i < j => f[i] < f[j]
            /\ \A i, j \in 1 .. Len(docs) : f[i] = f[j] => i = j
            /\ \A m \in Starts(T) : \E i \in 1 .. Len(docs) : f[i] = m
<1>1. DOMAIN docs = 1 .. Len(docs) /\ Len(docs) \in Nat
  OBVIOUS
<1>2. PICK f \in [1 .. Len(docs) -> Starts(T)] :
        /\ InOrder(docs, f, Starts(T))
        /\ \A i \in 1 .. Len(docs) : DocumentOf(docs[i], Piece(T, f[i]))
  BY <1>1 DEF DocumentsOf
<1>3. /\ \A i, j \in 1 .. Len(docs) : i < j => f[i] < f[j]
      /\ \A m \in Starts(T) : \E i \in 1 .. Len(docs) : f[i] = m
  BY <1>1, <1>2 DEF InOrder
<1>4. Starts(T) \subseteq Nat
  BY StartsAre
<1>5. ASSUME NEW i \in 1 .. Len(docs), NEW j \in 1 .. Len(docs), f[i] = f[j] PROVE i = j
  <2>1. f[i] \in Nat /\ f[j] \in Nat
    BY <1>2, <1>4
  <2>2. ~(i < j) /\ ~(j < i)
    BY <1>3, <1>5, <2>1
  <2> QED BY <1>1, <2>2
<1> QED BY <1>2, <1>3, <1>5

LEMMA InventoryIsExact ==
  ASSUME LockInv
  PROVE  InventoryExact
<1> DEFINE pieces == Pieces(text)
<1> SUFFICES ASSUME status \in {"read", "refused"}, \A p \in pieces : Yaml(p)
             PROVE  /\ status = "read" <=> WellFormedFile(pieces)
                    /\ status = "read" =>
                        /\ {Inventory(documents[i]) : i \in DOMAIN documents}
                               = {TreeInventory(p) : p \in pieces}
                        /\ Len(documents) = Cardinality(pieces)
                        /\ \A i \in DOMAIN documents : IsInjective(documents[i].packages)
  BY DEF InventoryExact
<1>1. CASE status = "refused"
  BY <1>1 DEF LockInv
<1>2. CASE status = "read"
  <2>1. /\ text \in Seq(Lines) /\ documents \in Seq(Range(documents))
        /\ DocumentsOf(documents, text, Starts(text))
        /\ DOMAIN documents = 1 .. Len(documents) /\ Len(documents) \in Nat
    BY <1>2 DEF LockInv, LockTypeOK
  <2> DEFINE n == Len(documents)
  <2>2. PICK f \in [1 .. n -> Starts(text)] :
          /\ \A i \in 1 .. n : DocumentOf(documents[i], Piece(text, f[i]))
          /\ \A i, j \in 1 .. n : f[i] = f[j] => i = j
          /\ \A m \in Starts(text) : \E i \in 1 .. n : f[i] = m
    BY <2>1, DocumentPieces
  <2> DEFINE P(i) == PieceAt(text, f[i])
  <2>3. Starts(text) \subseteq 0 .. Len(text)
    BY <2>1, StartsAre
  <2>4. ASSUME NEW i \in 1 .. n
        PROVE  /\ P(i) \in pieces /\ P(i).at = f[i] /\ Trim(P(i).lines) = documents[i].body
               /\ WellFormed(P(i)) /\ Trim(P(i).lines) # <<>>
               /\ Inventory(documents[i]) = TreeInventory(P(i))
               /\ IsInjective(documents[i].packages)
    <3> DEFINE p == P(i)
               d == Piece(text, f[i])
    <3>1. p \in pieces /\ p.at = f[i] /\ p.lines = d /\ p.tree = Tree(d)
      BY <2>2, PieceAtFacts
    <3>2. d \in Seq(Lines) /\ DocumentOf(documents[i], d) /\ Yaml(p)
      BY <2>1, <2>2, <2>3, <3>1, PieceFacts
    <3> HIDE DEF p, d, pieces
    <3>3. /\ Shape(d) /\ Pkgs(d) # {} /\ Trim(d) # <<>>
          /\ {"lockfileVersion", "packages"} \subseteq KeySet(d, Tops(d))
          /\ documents[i].body = Trim(d) /\ IsInjective(documents[i].packages)
      BY <3>2 DEF DocumentOf
    <3>4. Levelled(d)
      BY <3>1, <3>2, <3>3, ShapeLevelled
    <3>5. WellFormed(p)
      BY <3>1, <3>2, <3>3, ShapeWellFormed
    <3>6. Inventory(documents[i]) = TreeInventory(p)
      BY <3>1, <3>2, <3>4, DocumentInventory
    <3> QED BY <3>1, <3>3, <3>5, <3>6 DEF p
  <2>5. ASSUME NEW p \in pieces PROVE \E i \in 1 .. n : p = P(i)
    <3>1. PICK m \in Starts(text) : p = PieceAt(text, m)
      BY PieceAtFacts
    <3> QED BY <2>2, <3>1
  <2> HIDE DEF pieces, P
  <2>6. \A i, j \in 1 .. n : documents[i].body = documents[j].body => i = j
    BY <2>1 DEF DocumentsOf
  <2>7. WellFormedFile(pieces)
    <3>1. ASSUME NEW p \in pieces PROVE Trim(p.lines) # <<>> /\ WellFormed(p)
      BY <2>4, <2>5
    <3>2. ASSUME NEW p \in pieces, NEW q \in pieces, Trim(p.lines) = Trim(q.lines) PROVE p = q
      <4>1. PICK i \in 1 .. n : p = P(i)
        BY <2>5
      <4>2. PICK j \in 1 .. n : q = P(j)
        BY <2>5
      <4> QED BY <2>4, <2>6, <3>2, <4>1, <4>2
    <3> QED BY <3>1, <3>2 DEF WellFormedFile
  <2>8. {Inventory(documents[i]) : i \in DOMAIN documents} = {TreeInventory(p) : p \in pieces}
    <3>1. ASSUME NEW i \in 1 .. n PROVE \E p \in pieces : Inventory(documents[i]) = TreeInventory(p)
      BY <2>4
    <3>2. ASSUME NEW p \in pieces
          PROVE  \E i \in 1 .. n : Inventory(documents[i]) = TreeInventory(p)
      BY <2>4, <2>5
    <3> QED BY <2>1, <3>1, <3>2
  <2>9. n = Cardinality(pieces)
    <3> DEFINE g == [i \in 1 .. n |-> P(i)]
    <3>1. g \in [1 .. n -> pieces] /\ \A i \in 1 .. n : g[i] = P(i)
      BY <2>4
    <3>2. ASSUME NEW i \in 1 .. n, NEW j \in 1 .. n, g[i] = g[j] PROVE i = j
      <4>1. P(i).at = P(j).at
        BY <3>1, <3>2
      <4> QED BY <2>2, <2>4, <4>1
    <3>3. \A p \in pieces : \E i \in 1 .. n : g[i] = p
      BY <2>5, <3>1
    <3> HIDE DEF g
    <3> QED BY <2>1, <3>1, <3>2, <3>3, Enumerated
  <2>10. \A i \in DOMAIN documents : IsInjective(documents[i].packages)
    BY <2>1, <2>4
  <2> QED BY <1>2, <2>7, <2>8, <2>9, <2>10
<1> QED BY <1>1, <1>2

-----------------------------------------------------------------------------
(* The state of the scan *)

\* What the reports are held to is what the lockfile holds, if it is YAML at all.
Expected ==
    /\ goModules \in Seq([name : STRING, version : DOMAIN GoVersions])
    /\ inputs \in Seq(Seq(Range(Locators)))
    /\ physical # <<>> =>
        /\ physical = [s \in 1 .. Len(inputs) |-> toMultiset(inputs[s])]
        /\ \A s \in 1 .. Len(inputs) : inputs[s] # <<>>

Results(I) == [source : Nat, packages : Seq(I)]

ScanState ==
    /\ LockInv /\ Expected
    /\ stage \in {"lock", "vulnerability", "license", "ended"}
    /\ verdict \in {"none", "PASS", "FINDING", "CONTRACT", "INTERNAL"}
    /\ stage = "lock" => report = <<>>
    /\ stage = "vulnerability" => report \in Seq(Results(VulnerabilityItems))
    /\ stage = "license" => physical # <<>> /\ report \in Seq(Results(LicenseItems))

LEMMA ForgetInv == Forget => LockInv'
<1> SUFFICES ASSUME Forget PROVE LockInv'
  OBVIOUS
<1>1. Fresh' /\ current' = <<>> /\ text' = <<>> /\ documents' = <<>> /\ status' = "returned"
  BY DEF Forget, Fresh
<1>2. StateTypes'
  <2>1. <<>> \in Seq(Lines)
    BY NoLines
  <2> QED BY <1>1, <2>1, FreshStateNext, StateTypedNext
<1>3. text' \in Seq(Lines) /\ current' \in Seq(Lines)
  BY <1>1, NoLines
<1>4. \A i \in DOMAIN documents' : documents'[i].counts \in [Scopes -> Nat]
  BY <1>1
<1>5. sawSeparator' \in BOOLEAN
  BY DEF Forget
<1>6. LockTypeOK'
  BY <1>1, <1>2, <1>3, <1>4, <1>5 DEF LockTypeOK, StateTypes
<1>7. documents' \in Seq(Range(documents'))
  BY <1>1
<1> QED BY <1>1, <1>6, <1>7 DEF LockInv

LEMMA LockUnchanged == LockInv /\ UNCHANGED lockVars => LockInv'
<1> SUFFICES ASSUME LockInv, UNCHANGED lockVars PROVE LockInv'
  OBVIOUS
<1>1. LockTypeOK'
  BY DEF LockInv, LockTypeOK, lockVars, documentVars
<1>2. documents' \in Seq(Range(documents'))
  BY DEF LockInv, lockVars
<1>3. ASSUME status' = "reading" PROVE Reading'
  <2>1. Reading
    BY <1>3 DEF LockInv, lockVars
  <2>2. State(current)'
    <3>1. State(current)
      BY <2>1 DEF Reading
    <3> QED BY <3>1 DEF State, TopState, PackageState, ImporterState, DirectState, lockVars,
                        documentVars
  <2> QED BY <2>1, <2>2 DEF Reading, Begun, lockVars
<1>4. status' = "read" => DocumentsOf(documents', text', Starts(text'))
  BY DEF LockInv, lockVars
<1>5. status' = "refused" => ~WellFormedFile(Pieces(text'))
  BY DEF LockInv, lockVars
<1> QED BY <1>1, <1>2, <1>3, <1>4, <1>5 DEF LockInv

LEMMA VerdictTypes ==
  ASSUME NEW exit, NEW covered, NEW t
  PROVE  /\ VulnerabilityVerdict(exit, covered, t) \in {"PASS", "FINDING", "CONTRACT", "INTERNAL"}
         /\ LicenseVerdict(exit, covered, t) \in {"PASS", "FINDING", "CONTRACT", "INTERNAL"}
         /\ VulnerabilityVerdict(exit, covered, t) = "PASS" => exit \in {0, 1}
<1>1. evaluateOsvVulnerabilities(report, exit, combinedExpectedInventory, t)
        \in {"PASS", "FINDING", "CONTRACT", "INTERNAL"}
  BY Zenon DEF evaluateOsvVulnerabilities
<1>2. evaluateOsvLicenses(report, exit, combinedExpectedInventory, t)
        \in {"PASS", "FINDING", "CONTRACT", "INTERNAL"}
  BY Zenon DEF evaluateOsvLicenses
<1>3. ASSUME NEW v \in {"PASS", "FINDING", "CONTRACT", "INTERNAL"}
      PROVE  /\ GateVerdict(exit, covered, v) \in {"PASS", "FINDING", "CONTRACT", "INTERNAL"}
             /\ GateVerdict(exit, covered, v) = "PASS" => exit \in {0, 1}
  BY DEF GateVerdict, ControlledExit
<1> QED BY <1>1, <1>2, <1>3 DEF VulnerabilityVerdict, LicenseVerdict

LEMMA ScanInit == Init => ScanState
<1> SUFFICES ASSUME Init PROVE ScanState
  OBVIOUS
<1>1. LockInv
  BY LockInitInv DEF Init
<1>2. Expected
  BY DEF Init, Expected
<1> QED BY <1>1, <1>2 DEF Init, ScanState

-----------------------------------------------------------------------------
(* prepareInputs takes from each document what its piece of the file holds *)

NthPiece(T, i) ==
    CHOOSE p \in Pieces(T) : Cardinality({q \in Pieces(T) : q.at < p.at}) = i - 1

LEMMA NthPieceIs ==
  ASSUME NEW T \in Seq(Lines), NEW n \in Nat, NEW f \in [1 .. n -> Starts(T)],
         \A i, j \in 1 .. n : i < j => f[i] < f[j],
         \A i, j \in 1 .. n : f[i] = f[j] => i = j,
         \A m \in Starts(T) : \E i \in 1 .. n : f[i] = m, NEW i \in 1 .. n
  PROVE  NthPiece(T, i) = PieceAt(T, f[i])
<1> DEFINE P(k) == PieceAt(T, f[k])
           B(k) == {q \in Pieces(T) : q.at < f[k]}
<1>1. Starts(T) \subseteq Nat
  BY StartsAre
<1>2. ASSUME NEW k \in 1 .. n PROVE P(k) \in Pieces(T) /\ P(k).at = f[k] /\ f[k] \in Nat
  BY <1>1, PieceAtFacts
<1>3. ASSUME NEW p \in Pieces(T) PROVE \E k \in 1 .. n : p = P(k)
  <2>1. PICK m \in Starts(T) : p = PieceAt(T, m)
    BY PieceAtFacts
  <2> QED BY <2>1
<1> HIDE DEF P
<1>4. ASSUME NEW k \in 1 .. n PROVE Cardinality(B(k)) = k - 1
  <2> DEFINE g == [j \in 1 .. (k - 1) |-> P(j)]
  <2>1. k - 1 \in Nat /\ 1 .. (k - 1) \subseteq 1 .. n /\ \A j \in 1 .. (k - 1) : j < k
    OBVIOUS
  <2>2. ASSUME NEW j \in 1 .. (k - 1) PROVE P(j) \in B(k)
    BY <1>2, <2>1
  <2>3. g \in [1 .. (k - 1) -> B(k)] /\ \A j \in 1 .. (k - 1) : g[j] = P(j)
    BY <2>2
  <2>4. ASSUME NEW a \in 1 .. (k - 1), NEW b \in 1 .. (k - 1), g[a] = g[b] PROVE a = b
    <3>1. P(a).at = P(b).at /\ a \in 1 .. n /\ b \in 1 .. n
      BY <2>1, <2>3, <2>4
    <3> QED BY <1>2, <3>1
  <2>5. ASSUME NEW q \in B(k) PROVE \E j \in 1 .. (k - 1) : g[j] = q
    <3>1. PICK j \in 1 .. n : q = P(j)
      BY <1>3
    <3>2. f[j] < f[k] /\ f[j] \in Nat /\ f[k] \in Nat
      BY <1>2, <3>1
    <3>3. ~(k < j) /\ k # j
      BY <3>2
    <3>4. j \in 1 .. (k - 1)
      BY <3>3
    <3> QED BY <2>3, <3>1, <3>4
  <2> HIDE DEF g, B
  <2> QED BY <2>1, <2>3, <2>4, <2>5, Enumerated
<1>5. Cardinality({q \in Pieces(T) : q.at < P(i).at}) = i - 1
  BY <1>2, <1>4
<1>6. ASSUME NEW p \in Pieces(T), Cardinality({q \in Pieces(T) : q.at < p.at}) = i - 1
      PROVE  p = P(i)
  <2>1. PICK k \in 1 .. n : p = P(k)
    BY <1>3
  <2>2. {q \in Pieces(T) : q.at < p.at} = B(k)
    BY <1>2, <2>1
  <2>3. k - 1 = i - 1
    BY <1>4, <1>6, <2>2
  <2>4. k = i
    BY <2>3
  <2> QED BY <2>1, <2>4
<1>7. NthPiece(T, i) = P(i)
  BY <1>2, <1>5, <1>6 DEF NthPiece
<1> QED BY <1>7 DEF P

\* The packages of a document, counted by name and version, are those of its tree.
LEMMA PackagesCounted ==
  ASSUME NEW d \in Seq(Lines), NEW p, p.lines = d, p.tree = Tree(d), Levelled(d),
         NEW doc, DocumentOf(doc, d)
  PROVE  /\ TreeMultiset(p) = toMultiset(PackagesOf(doc))
         /\ PackagesOf(doc) \in Seq(Range(Locators)) /\ PackagesOf(doc) # <<>>
<1> DEFINE ks == doc.packages
           K == KeySet(d, Pkgs(d))
           s == PackagesOf(doc)
<1>1. ks \in Seq(DOMAIN Locators) /\ IsInjective(ks) /\ Range(ks) = K /\ Pkgs(d) # {}
  BY DEF DocumentOf
<1>2. KeysOf(p, p.tree.packages) = K
  <2>1. p.tree.packages = Pkgs(d)
    BY TreeSets
  <2> QED BY <2>1 DEF KeysOf, KeySet
<1>3. s = [j \in DOMAIN ks |-> Locators[ks[j]]] /\ DOMAIN ks = 1 .. Len(ks) /\ Len(ks) \in Nat
  BY <1>1 DEF PackagesOf, MapSeq
<1> HIDE DEF s, ks, K
<1>4. s \in Seq(Range(Locators))
  <2>1. \A j \in DOMAIN ks : Locators[ks[j]] \in Range(Locators)
    BY <1>1, <1>3 DEF Range
  <2> QED BY <1>3, <2>1
<1>5. s # <<>>
  <2>1. K # {}
    BY <1>1 DEF KeySet, K
  <2>2. DOMAIN ks # {}
    BY <1>1, <2>1 DEF Range
  <2> QED BY <1>3, <2>2
<1>6. ToSet(s) = {Locators[k] : k \in K}
  <2>1. ToSet(s) = {Locators[ks[j]] : j \in DOMAIN ks}
    BY <1>3 DEF ToSet
  <2> QED BY <1>1, <2>1 DEF Range
<1>7. ASSUME NEW x PROVE Count(s, x) = Cardinality({k \in K : Locators[k] = x})
  <2> DEFINE J == {j \in DOMAIN s : s[j] = x}
             Q == {k \in K : Locators[k] = x}
             g == [j \in J |-> ks[j]]
  <2>1. J = {j \in DOMAIN ks : Locators[ks[j]] = x}
    BY <1>3
  <2>2. g \in [J -> Q] /\ \A j \in J : g[j] = ks[j]
    BY <1>1, <2>1 DEF Range
  <2>3. IsFiniteSet(J)
    <3>1. J \subseteq 1 .. Len(ks)
      BY <1>3, <2>1
    <3>2. IsFiniteSet(1 .. Len(ks))
      BY <1>3, FS_Interval
    <3> QED BY <3>1, <3>2, FS_Subset
  <2>4. \A a, b \in J : g[a] = g[b] => a = b
    BY <1>1, <2>1, <2>2 DEF IsInjective
  <2>5. \A q \in Q : \E j \in J : g[j] = q
    <3> SUFFICES ASSUME NEW q \in Q PROVE \E j \in J : g[j] = q
      OBVIOUS
    <3>1. PICK j \in DOMAIN ks : ks[j] = q
      BY <1>1 DEF Range
    <3>2. j \in J
      BY <2>1, <3>1
    <3> QED BY <2>2, <3>1, <3>2
  <2> HIDE DEF J, Q, g
  <2>6. g \in Bijection(J, Q)
    BY <2>2, <2>4, <2>5 DEF Bijection, Injection, Surjection, IsInjective
  <2>7. ExistsBijection(J, Q)
    BY <2>6 DEF ExistsBijection
  <2>8. Cardinality(Q) = Cardinality(J)
    BY <2>3, <2>7, FS_Bijection
  <2> QED BY <2>8 DEF Count, J, Q
<1>8. TreeMultiset(p) = toMultiset(s)
  <2>1. TreeMultiset(p) = [x \in {Locators[k] : k \in K} |-> Cardinality({k \in K : Locators[k] = x})]
    BY <1>2 DEF TreeMultiset
  <2>2. toMultiset(s) = [x \in {Locators[k] : k \in K} |-> Count(s, x)]
    BY <1>6 DEF toMultiset
  <2> QED BY <1>7, <2>1, <2>2
<1> QED BY <1>4, <1>5, <1>8 DEF s

LEMMA PreparedInputs ==
  ASSUME LockInv, status = "read", NEW ins, ins = MapSeq(documents, PackagesOf)
  PROVE  /\ ins \in Seq(Seq(Range(Locators))) /\ \A s \in 1 .. Len(ins) : ins[s] # <<>>
         /\ (\A p \in Pieces(text) : Yaml(p)) =>
                [i \in 1 .. Cardinality(Pieces(text)) |-> TreeMultiset(NthPiece(text, i))]
                    = [s \in 1 .. Len(ins) |-> toMultiset(ins[s])]
<1> DEFINE n == Len(documents)
<1>1. /\ text \in Seq(Lines) /\ documents \in Seq(Range(documents))
      /\ DocumentsOf(documents, text, Starts(text))
      /\ DOMAIN documents = 1 .. n /\ n \in Nat
  BY DEF LockInv, LockTypeOK
<1>2. PICK f \in [1 .. n -> Starts(text)] :
        /\ \A i \in 1 .. n : DocumentOf(documents[i], Piece(text, f[i]))
        /\ \A i, j \in 1 .. n : i < j => f[i] < f[j]
        /\ \A i, j \in 1 .. n : f[i] = f[j] => i = j
        /\ \A m \in Starts(text) : \E i \in 1 .. n : f[i] = m
  BY <1>1, DocumentPieces
<1>3. ins = [i \in 1 .. n |-> PackagesOf(documents[i])]
  BY <1>1 DEF MapSeq
<1>4. Starts(text) \subseteq 0 .. Len(text)
  BY <1>1, StartsAre
<1>5. ASSUME NEW i \in 1 .. n
      PROVE  PackagesOf(documents[i]) \in Seq(Range(Locators)) /\ PackagesOf(documents[i]) # <<>>
  <2> DEFINE d == Piece(text, f[i])
             ks == documents[i].packages
  <2>1. DocumentOf(documents[i], d)
    BY <1>2
  <2>2. ks \in Seq(DOMAIN Locators) /\ Range(ks) # {}
    BY <2>1 DEF DocumentOf, KeySet
  <2>3. PackagesOf(documents[i]) = [j \in 1 .. Len(ks) |-> Locators[ks[j]]] /\ Len(ks) \in Nat
    BY <2>2 DEF PackagesOf, MapSeq
  <2> HIDE DEF ks
  <2>4. \A j \in 1 .. Len(ks) : Locators[ks[j]] \in Range(Locators)
    BY <2>2 DEF Range
  <2>5. 1 .. Len(ks) # {}
    <3>1. DOMAIN ks # {}
      BY <2>2 DEF Range
    <3>2. DOMAIN ks = 1 .. Len(ks)
      BY <2>2
    <3> QED BY <3>1, <3>2
  <2> QED BY <2>3, <2>4, <2>5
<1>6. /\ ins \in Seq(Seq(Range(Locators))) /\ Len(ins) = n
      /\ \A s \in 1 .. n : ins[s] # <<>> /\ ins[s] = PackagesOf(documents[s])
  BY <1>1, <1>3, <1>5
<1>7. ASSUME \A p \in Pieces(text) : Yaml(p)
      PROVE  [i \in 1 .. Cardinality(Pieces(text)) |-> TreeMultiset(NthPiece(text, i))]
                 = [s \in 1 .. n |-> toMultiset(ins[s])]
  <2>1. Cardinality(Pieces(text)) = n
    <3>1. InventoryExact
      BY InventoryIsExact
    <3> QED BY <1>7, <3>1 DEF InventoryExact
  <2>2. ASSUME NEW i \in 1 .. n PROVE TreeMultiset(NthPiece(text, i)) = toMultiset(ins[i])
    <3> DEFINE d == Piece(text, f[i])
               p == PieceAt(text, f[i])
    <3>1. NthPiece(text, i) = p
      BY <1>1, <1>2, NthPieceIs, ZenonT(60)
    <3>2. f[i] \in Starts(text) /\ p \in Pieces(text) /\ p.lines = d /\ p.tree = Tree(d)
      BY <1>2, PieceAtFacts
    <3>3. d \in Seq(Lines) /\ DocumentOf(documents[i], d) /\ Yaml(p)
      BY <1>1, <1>2, <1>4, <1>7, <3>2, PieceFacts
    <3> HIDE DEF p, d
    <3>4. Shape(d) /\ Pkgs(d) # {}
      BY <3>3 DEF DocumentOf
    <3>5. Levelled(d)
      BY <3>2, <3>3, <3>4, ShapeLevelled
    <3>6. TreeMultiset(p) = toMultiset(PackagesOf(documents[i]))
      BY <3>2, <3>3, <3>5, PackagesCounted
    <3> QED BY <1>6, <3>1, <3>6
  <2> QED BY <2>1, <2>2
<1> QED BY <1>6, <1>7

LEMMA PrepareStep ==
  ASSUME ScanState, PrepareInputs
  PROVE  ScanState'
<1>1. LockInv' /\ stage = "lock" /\ report = <<>> /\ LockInv /\ Expected
  BY ForgetInv DEF PrepareInputs, ScanState
<1>2. PICK n \in DocumentCounts :
        \/ /\ InputsAccepted(n)
           /\ inputs' = MapSeq(documents, PackagesOf)
           /\ \E modules \in GoInventories : goModules' = modules
           /\ physical' = IF \A p \in Pieces(text) : Yaml(p)
                          THEN [i \in 1 .. Cardinality(Pieces(text)) |->
                                    TreeMultiset(NthPiece(text, i))]
                          ELSE <<>>
           /\ stage' = "vulnerability" /\ UNCHANGED <<report, verdict>>
        \/ Throw("CONTRACT")
  BY DEF PrepareInputs, NthPiece
<1>3. CASE Throw("CONTRACT")
  <2>1. Expected'
    BY <1>1, <1>3 DEF Expected, Throw
  <2> QED BY <1>1, <1>3, <2>1 DEF ScanState, Throw
<1>4. CASE /\ InputsAccepted(n)
           /\ inputs' = MapSeq(documents, PackagesOf)
           /\ \E modules \in GoInventories : goModules' = modules
           /\ physical' = IF \A p \in Pieces(text) : Yaml(p)
                          THEN [i \in 1 .. Cardinality(Pieces(text)) |->
                                    TreeMultiset(NthPiece(text, i))]
                          ELSE <<>>
           /\ stage' = "vulnerability" /\ UNCHANGED <<report, verdict>>
  <2>1. status = "read"
    BY <1>4 DEF InputsAccepted
  <2>2. /\ inputs' \in Seq(Seq(Range(Locators))) /\ \A s \in 1 .. Len(inputs') : inputs'[s] # <<>>
        /\ (\A p \in Pieces(text) : Yaml(p)) =>
                [i \in 1 .. Cardinality(Pieces(text)) |-> TreeMultiset(NthPiece(text, i))]
                    = [s \in 1 .. Len(inputs') |-> toMultiset(inputs'[s])]
    BY <1>1, <1>4, <2>1, PreparedInputs
  <2>3. goModules' \in Seq([name : STRING, version : DOMAIN GoVersions])
    BY <1>4, ScanAssumption
  <2>4. physical' # <<>> => physical' = [s \in 1 .. Len(inputs') |-> toMultiset(inputs'[s])]
    BY <1>4, <2>2
  <2>5. Expected'
    BY <2>2, <2>3, <2>4 DEF Expected
  <2>6. report' \in Seq(Results(VulnerabilityItems))
    BY <1>1, <1>4
  <2> QED BY <1>1, <1>4, <2>5, <2>6 DEF ScanState
<1> QED BY <1>2, <1>3, <1>4

LEMMA ReportStep ==
  ASSUME ScanState, ReportSource \/ ReportItem
  PROVE  ScanState'
<1>1. /\ LockInv /\ Expected /\ stage \in {"vulnerability", "license"}
      /\ UNCHANGED <<lockVars, stage, inputs, goModules, physical, verdict>>
  BY DEF ScanState, ReportSource, ReportItem, Scanning
<1>2. LockInv' /\ Expected'
  <2>1. Expected'
    BY <1>1 DEF Expected
  <2>2. UNCHANGED lockVars
    BY <1>1
  <2> QED BY <1>1, <2>1, <2>2, LockUnchanged
<1> DEFINE I == IF stage = "vulnerability" THEN VulnerabilityItems ELSE LicenseItems
<1>3. report \in Seq(Results(I))
  BY <1>1 DEF ScanState
<1>4. report' \in Seq(Results(I))
  <2>1. CASE ReportSource
    <3>1. PICK s \in Sources : report' = Append(report, [source |-> s, packages |-> <<>>])
      BY <2>1 DEF ReportSource
    <3>2. s \in Nat
      <4>1. Len(inputs) \in Nat
        BY <1>1 DEF Expected
      <4> QED BY <4>1 DEF Sources, GoSource, Unexpected
    <3>3. [source |-> s, packages |-> <<>>] \in Results(I)
      BY <3>2 DEF Results
    <3> QED BY <1>3, <3>1, <3>3
  <2>2. CASE ReportItem
    <3>1. PICK w \in 1 .. MaxWeight : \E item \in ItemsOfWeight[stage][w] :
            report' = [report EXCEPT ![Len(report)] =
                          [source |-> @.source, packages |-> Append(@.packages, item)]]
      BY <2>2 DEF ReportItem
    <3>2. PICK item \in ItemsOfWeight[stage][w] :
            report' = [report EXCEPT ![Len(report)] =
                          [source |-> @.source, packages |-> Append(@.packages, item)]]
      BY <3>1
    <3>3. item \in I
      <4>1. CASE stage = "vulnerability"
        <5>1. ItemsOfWeight["vulnerability"] =
                [v \in 1 .. MaxWeight |-> {x \in VulnerabilityItems : ItemWeight(x) = v}]
          BY DEF ItemsOfWeight
        <5>2. item \in ItemsOfWeight["vulnerability"][w]
          BY <3>2, <4>1
        <5> QED BY <4>1, <5>1, <5>2
      <4>2. CASE stage = "license"
        <5>1. ItemsOfWeight["license"] =
                [v \in 1 .. MaxWeight |-> {x \in LicenseItems : ItemWeight(x) = v}]
          BY DEF ItemsOfWeight
        <5>2. item \in ItemsOfWeight["license"][w]
          BY <3>2, <4>2
        <5> QED BY <4>2, <5>1, <5>2
      <4> QED BY <1>1, <4>1, <4>2
    <3>4. report # <<>> /\ Len(report) \in 1 .. Len(report)
      <4>1. report # <<>>
        BY <2>2 DEF ReportItem
      <4> QED BY <1>3, <4>1
    <3> HIDE DEF I
    <3>5. [source |-> report[Len(report)].source,
           packages |-> Append(report[Len(report)].packages, item)] \in Results(I)
      <4>1. report[Len(report)] \in Results(I)
        BY <1>3, <3>4
      <4> QED BY <3>3, <4>1 DEF Results
    <3> QED BY <1>3, <3>2, <3>4, <3>5
  <2> QED BY <2>1, <2>2
<1>5. /\ stage' = "vulnerability" => report' \in Seq(Results(VulnerabilityItems))
      /\ stage' = "license" => report' \in Seq(Results(LicenseItems))
  BY <1>1, <1>4
<1> QED BY <1>1, <1>2, <1>5 DEF ScanState

LEMMA JudgeStep ==
  ASSUME ScanState, JudgeVulnerabilities \/ JudgeLicenses
  PROVE  ScanState'
<1>1. /\ LockInv /\ Expected /\ report' = <<>>
      /\ UNCHANGED <<lockVars, inputs, goModules, physical>>
  BY DEF ScanState, JudgeVulnerabilities, JudgeLicenses, RequireVerdict
<1>2. LockInv' /\ Expected'
  <2>1. Expected'
    BY <1>1 DEF Expected
  <2>2. UNCHANGED lockVars
    BY <1>1
  <2> QED BY <1>1, <2>1, <2>2, LockUnchanged
<1>3. CASE JudgeVulnerabilities
  <2>1. PICK exit \in Exits, covered \in BOOLEAN, t \in Thresholds :
          verdict' = VulnerabilityVerdict(exit, covered, t)
    BY <1>3 DEF JudgeVulnerabilities
  <2>2. /\ verdict' \in {"PASS", "FINDING", "CONTRACT", "INTERNAL"}
        /\ verdict' = "PASS" => exit \in {0, 1}
    BY <2>1, VerdictTypes
  <2>3. stage' = IF verdict' = "PASS" THEN "license" ELSE "ended"
    BY <1>3 DEF JudgeVulnerabilities, RequireVerdict
  <2>4. stage' = "license" => physical # <<>>
    BY <2>1, <2>2, <2>3 DEF Exits
  <2>5. report' \in Seq(Results(LicenseItems))
    BY <1>1
  <2> QED BY <1>1, <1>2, <2>2, <2>3, <2>4, <2>5 DEF ScanState
<1>4. CASE JudgeLicenses
  <2>1. PICK exit \in Exits, covered \in BOOLEAN, a \in AllowLists :
          verdict' = LicenseVerdict(exit, covered, a)
    BY <1>4 DEF JudgeLicenses
  <2>2. verdict' \in {"PASS", "FINDING", "CONTRACT", "INTERNAL"}
    BY <2>1, VerdictTypes
  <2>3. stage' = "ended"
    BY <1>4 DEF JudgeLicenses, RequireVerdict
  <2> QED BY <1>1, <1>2, <2>2, <2>3 DEF ScanState
<1> QED BY <1>3, <1>4

LEMMA ScanNext == ScanState /\ [Next]_vars => ScanState'
<1> SUFFICES ASSUME ScanState, [Next]_vars PROVE ScanState'
  OBVIOUS
<1>1. CASE ReadLock
  <2>1. LockInv' /\ UNCHANGED scanVars
    BY <1>1, LockNextInv DEF ReadLock, ScanState
  <2> QED BY <2>1 DEF ScanState, Expected, scanVars
<1>2. CASE PrepareInputs
  BY <1>2, PrepareStep
<1>3. CASE ReportSource \/ ReportItem
  BY <1>3, ReportStep
<1>4. CASE JudgeVulnerabilities \/ JudgeLicenses
  BY <1>4, JudgeStep
<1>5. CASE UNCHANGED vars
  <2>1. UNCHANGED lockVars /\ UNCHANGED scanVars
    BY <1>5 DEF vars
  <2>2. LockInv'
    BY <2>1, LockUnchanged DEF ScanState
  <2> QED BY <2>1, <2>2 DEF ScanState, Expected, scanVars
<1> QED BY <1>1, <1>2, <1>3, <1>4, <1>5 DEF Next

\* The line reader of inventory.mjs is exact: it accepts precisely the lockfiles that
\* are well-formed as trees, and its inventory is the tree's, for every file (24-580).
THEOREM InventoryOfEveryFile == Spec => []ScanInv
<1>1. ScanState => ScanInv
  <2> SUFFICES ASSUME ScanState PROVE ScanInv
    OBVIOUS
  <2>1. TypeOK
    BY DEF ScanState, LockInv, TypeOK
  <2>2. InventoryExact
    BY InventoryIsExact DEF ScanState
  <2> QED BY <2>1, <2>2 DEF ScanInv
<1> QED BY <1>1, ScanInit, ScanNext, PTL DEF Spec

-----------------------------------------------------------------------------
(* Sequences, sets and multisets *)

\* No element of a sequence comes twice exactly if its set has as many.
LEMMA AllDifferCounted ==
  ASSUME NEW S, NEW s \in Seq(S)
  PROVE  AllDiffer(s) <=> Cardinality(ToSet(s)) = Len(s)
<1>1. DOMAIN s = 1 .. Len(s) /\ Len(s) \in Nat
  OBVIOUS
<1>2. IsFiniteSet(1 .. Len(s)) /\ Cardinality(1 .. Len(s)) = Len(s)
  BY <1>1, FS_Interval, SMTT(40)
<1>3. s \in Surjection(1 .. Len(s), ToSet(s))
  <2>1. s \in [1 .. Len(s) -> ToSet(s)]
    BY <1>1 DEF ToSet
  <2>2. \A t \in ToSet(s) : \E i \in 1 .. Len(s) : s[i] = t
    BY <1>1 DEF ToSet
  <2> QED BY <2>1, <2>2 DEF Surjection
<1>4. Cardinality(ToSet(s)) = Cardinality(1 .. Len(s)) <=> s \in Injection(1 .. Len(s), ToSet(s))
  BY <1>2, <1>3, FS_Surjection
<1>5. s \in Injection(1 .. Len(s), ToSet(s)) <=> AllDiffer(s)
  <2>1. s \in [1 .. Len(s) -> ToSet(s)]
    BY <1>3 DEF Surjection
  <2> QED BY <1>1, <2>1 DEF Injection, IsInjective, AllDiffer
<1> QED BY <1>2, <1>4, <1>5

LEMMA ElementOf ==
  ASSUME NEW S, NEW s \in Seq(S), NEW i \in DOMAIN s
  PROVE  s[i] \in S
OBVIOUS

LEMMA NonemptySet ==
  ASSUME NEW S, NEW s \in Seq(S)
  PROVE  s # <<>> <=> ToSet(s) # {}
<1>1. s # <<>> => 1 \in DOMAIN s
  OBVIOUS
<1>2. s = <<>> => DOMAIN s = {}
  OBVIOUS
<1> QED BY <1>1, <1>2 DEF ToSet

LEMMA CountFacts ==
  ASSUME NEW S, NEW s \in Seq(S), NEW x
  PROVE  Count(s, x) \in Nat /\ (Count(s, x) # 0 <=> x \in ToSet(s))
<1> DEFINE J == {i \in DOMAIN s : s[i] = x}
<1>1. DOMAIN s = 1 .. Len(s) /\ Len(s) \in Nat /\ J \subseteq 1 .. Len(s)
  OBVIOUS
<1>2. IsFiniteSet(J)
  <2>1. IsFiniteSet(1 .. Len(s))
    BY <1>1, FS_Interval
  <2> HIDE DEF J
  <2> QED BY <1>1, <2>1, FS_Subset
<1>3. Cardinality(J) \in Nat /\ (Cardinality(J) = 0 <=> J = {})
  BY <1>2, FS_CardinalityType, FS_EmptySet
<1>4. J = {} <=> x \notin ToSet(s)
  BY DEF ToSet
<1> QED BY <1>3, <1>4 DEF Count

LEMMA SameMultisetIs ==
  ASSUME NEW S, NEW s \in Seq(S), NEW R, NEW t \in Seq(R)
  PROVE  /\ SameMultiset(s, t) <=> toMultiset(s) = toMultiset(t)
         /\ SameMultiset(s, t) => ToSet(s) = ToSet(t)
<1>1. ASSUME SameMultiset(s, t) PROVE ToSet(s) = ToSet(t) /\ toMultiset(s) = toMultiset(t)
  <2>1. ASSUME NEW x PROVE x \in ToSet(s) <=> x \in ToSet(t)
    <3>1. (Count(s, x) # 0 <=> x \in ToSet(s)) /\ (Count(t, x) # 0 <=> x \in ToSet(t))
      BY CountFacts
    <3> QED BY <1>1, <3>1 DEF SameMultiset
  <2>2. ToSet(s) = ToSet(t)
    BY <2>1
  <2>3. \A x \in ToSet(s) : Count(s, x) = Count(t, x)
    BY <1>1 DEF SameMultiset
  <2> QED BY <2>2, <2>3 DEF toMultiset
<1>2. ASSUME toMultiset(s) = toMultiset(t) PROVE SameMultiset(s, t)
  <2>1. DOMAIN toMultiset(s) = ToSet(s) /\ DOMAIN toMultiset(t) = ToSet(t)
    BY DEF toMultiset
  <2>2. ToSet(s) = ToSet(t)
    BY <1>2, <2>1
  <2>3. ASSUME NEW x \in ToSet(s) PROVE Count(s, x) = Count(t, x)
    <3>1. toMultiset(s)[x] = Count(s, x)
      BY DEF toMultiset
    <3>2. toMultiset(t)[x] = Count(t, x)
      BY <2>2 DEF toMultiset
    <3> QED BY <1>2, <3>1, <3>2
  <2> QED BY <2>2, <2>3 DEF SameMultiset
<1> QED BY <1>1, <1>2

-----------------------------------------------------------------------------
(* What a source holds *)

\* Outside the lock stage, with a file that is YAML.
LEMMA NpmIdentities ==
  ASSUME NEW p \in Range(Locators)
  PROVE  /\ p = [name |-> p.name, version |-> p.version]
         /\ p.version \in DOMAIN NpmVersions /\ NpmVersions[p.version] = p.version
<1>1. PICK k \in DOMAIN Locators : p = Locators[k]
  BY DEF Range
<1> QED BY <1>1, LockAssumption, ScanAssumption

LEMMA NpmIdentityInjective ==
  ASSUME NEW p \in Range(Locators), NEW q \in Range(Locators), NpmIdentity(p) = NpmIdentity(q)
  PROVE  p = q
<1>1. p = [name |-> p.name, version |-> p.version] /\ q = [name |-> q.name, version |-> q.version]
  BY NpmIdentities
<1>2. p.name = q.name /\ p.version = q.version
  BY DEF NpmIdentity
<1> QED BY <1>1, <1>2

LEMMA ExpectedSources ==
  ASSUME Expected, physical # <<>>
  PROVE  /\ DOMAIN combinedExpectedInventory = SourcesHeld /\ SourcesHeld # {}
         /\ Len(physical) = Len(inputs) /\ Len(inputs) \in Nat /\ Len(inputs) # 0
<1>1. /\ inputs \in Seq(Seq(Range(Locators))) /\ Len(inputs) \in Nat
      /\ physical = [s \in 1 .. Len(inputs) |-> toMultiset(inputs[s])]
  BY DEF Expected
<1>2. Len(physical) = Len(inputs)
  BY <1>1
<1>3. Len(inputs) # 0
  <2> SUFFICES ASSUME Len(inputs) = 0 PROVE FALSE
    OBVIOUS
  <2>1. physical = <<>>
    BY <1>1
  <2> QED BY <2>1
<1>4. DOMAIN combinedExpectedInventory = SourcesHeld
  BY <1>2 DEF combinedExpectedInventory, SourcesHeld
<1>5. 1 \in SourcesHeld
  BY <1>1, <1>2, <1>3 DEF SourcesHeld
<1> QED BY <1>1, <1>2, <1>3, <1>4, <1>5

\* A source is expected to hold what it holds.
LEMMA NpmExpected ==
  ASSUME Expected, physical # <<>>, NEW s \in 1 .. Len(inputs)
  PROVE  /\ combinedExpectedInventory[s] = [i \in DOMAIN inputs[s] |-> NpmIdentity(inputs[s][i])]
         /\ combinedExpectedInventory[s] \in Seq({NpmIdentity(p) : p \in Range(Locators)})
         /\ inputs[s] \in Seq(Range(Locators)) /\ inputs[s] # <<>>
         /\ s # GoSource /\ s \in DOMAIN combinedExpectedInventory
<1>1. inputs[s] \in Seq(Range(Locators)) /\ inputs[s] # <<>> /\ Len(inputs) \in Nat
  BY DEF Expected
<1>2. s # GoSource /\ s \in DOMAIN combinedExpectedInventory
  BY <1>1 DEF GoSource, combinedExpectedInventory
<1>3. combinedExpectedInventory[s] = [i \in DOMAIN inputs[s] |-> NpmIdentity(inputs[s][i])]
  BY <1>2 DEF combinedExpectedInventory, MapSeq
<1>4. combinedExpectedInventory[s] \in Seq({NpmIdentity(p) : p \in Range(Locators)})
  <2>1. \A i \in 1 .. Len(inputs[s]) : inputs[s][i] \in Range(Locators)
    BY <1>1
  <2> QED BY <1>1, <1>3, <2>1
<1> QED BY <1>1, <1>2, <1>3, <1>4

LEMMA GoExpected ==
  ASSUME Expected, GoSource \in DOMAIN combinedExpectedInventory
  PROVE  /\ combinedExpectedInventory[GoSource]
                = [i \in DOMAIN goModules |-> GoIdentity(goModules[i])]
         /\ goModules # <<>>
         /\ combinedExpectedInventory[GoSource] \in Seq({GoIdentity(m) : m \in ToSet(goModules)})
<1>1. goModules \in Seq([name : STRING, version : DOMAIN GoVersions]) /\ Len(inputs) \in Nat
  BY DEF Expected
<1>2. goModules # <<>>
  BY <1>1 DEF combinedExpectedInventory, GoSource
<1>3. combinedExpectedInventory[GoSource] = [i \in DOMAIN goModules |-> GoIdentity(goModules[i])]
  BY DEF combinedExpectedInventory, MapSeq
<1>4. combinedExpectedInventory[GoSource] \in Seq({GoIdentity(m) : m \in ToSet(goModules)})
  <2>1. \A i \in 1 .. Len(goModules) : goModules[i] \in ToSet(goModules)
    BY <1>1 DEF ToSet
  <2> QED BY <1>1, <1>3, <2>1
<1> QED BY <1>2, <1>3, <1>4

LEMMA HoldsExpected ==
  ASSUME Expected, physical # <<>>, NEW s \in SourcesHeld
  PROVE  Holds(s) = toMultiset(combinedExpectedInventory[s])
<1> DEFINE e == combinedExpectedInventory[s]
<1>1. s \in DOMAIN combinedExpectedInventory /\ Len(physical) = Len(inputs) /\ Len(inputs) \in Nat
  BY ExpectedSources
<1>2. CASE s = GoSource
  <2>1. e = [i \in DOMAIN goModules |-> GoIdentity(goModules[i])]
    BY <1>1, <1>2, GoExpected
  <2> HIDE DEF e
  <2>2. ToSet(e) = {GoIdentity(m) : m \in ToSet(goModules)}
    BY <2>1 DEF ToSet
  <2>3. ASSUME NEW x
        PROVE  Count(e, x) = Cardinality({i \in DOMAIN goModules : GoIdentity(goModules[i]) = x})
    <3>1. {i \in DOMAIN e : e[i] = x} = {i \in DOMAIN goModules : GoIdentity(goModules[i]) = x}
      BY <2>1
    <3> QED BY <3>1 DEF Count
  <2>4. Holds(s) = [x \in {GoIdentity(m) : m \in ToSet(goModules)} |->
                      Cardinality({i \in DOMAIN goModules : GoIdentity(goModules[i]) = x})]
    BY <1>2 DEF Holds
  <2>5. toMultiset(e) = [x \in {GoIdentity(m) : m \in ToSet(goModules)} |-> Count(e, x)]
    BY <2>2 DEF toMultiset
  <2>6. Holds(s) = toMultiset(e)
    BY <2>3, <2>4, <2>5
  <2> QED BY <2>6 DEF e
<1>3. CASE s # GoSource
  <2>1. s \in 1 .. Len(inputs)
    BY <1>1, <1>3 DEF SourcesHeld
  <2> DEFINE g == inputs[s]
  <2>2. /\ e = [i \in DOMAIN g |-> NpmIdentity(g[i])] /\ g \in Seq(Range(Locators))
    BY <2>1, NpmExpected
  <2>3. physical[s] = toMultiset(g)
    BY <2>1 DEF Expected
  <2> HIDE DEF e, g
  <2>4. DOMAIN toMultiset(g) = ToSet(g) /\ \A p \in ToSet(g) : toMultiset(g)[p] = Count(g, p)
    BY DEF toMultiset
  <2>5. ToSet(g) \subseteq Range(Locators)
    BY <2>2 DEF ToSet
  <2>6. ToSet(e) = {NpmIdentity(p) : p \in ToSet(g)}
    BY <2>2 DEF ToSet
  <2>7. ASSUME NEW x \in ToSet(e)
        PROVE  physical[s][[name |-> x.name, version |-> x.version]] = Count(e, x)
    <3>1. PICK p \in ToSet(g) : x = NpmIdentity(p)
      BY <2>6
    <3>2. [name |-> x.name, version |-> x.version] = p
      <4>1. p = [name |-> p.name, version |-> p.version]
        BY <2>5, NpmIdentities
      <4>2. x.name = p.name /\ x.version = p.version
        BY <3>1 DEF NpmIdentity
      <4> QED BY <4>1, <4>2
    <3>3. {i \in DOMAIN e : e[i] = x} = {i \in DOMAIN g : g[i] = p}
      <4>1. ASSUME NEW i \in DOMAIN g PROVE NpmIdentity(g[i]) = NpmIdentity(p) <=> g[i] = p
        <5>1. g[i] \in Range(Locators) /\ p \in Range(Locators)
          BY <2>2, <2>5
        <5> QED BY <5>1, NpmIdentityInjective
      <4> QED BY <2>2, <3>1, <4>1
    <3> QED BY <2>3, <2>4, <3>2, <3>3 DEF Count
  <2>8. Holds(s) = [x \in {NpmIdentity(p) : p \in DOMAIN physical[s]} |->
                      physical[s][[name |-> x.name, version |-> x.version]]]
    BY <1>3 DEF Holds
  <2>9. {NpmIdentity(p) : p \in DOMAIN physical[s]} = ToSet(e)
    BY <2>3, <2>4, <2>6
  <2>10. toMultiset(e) = [x \in ToSet(e) |-> Count(e, x)]
    BY DEF toMultiset
  <2>11. Holds(s) = toMultiset(e)
    BY <2>7, <2>8, <2>9, <2>10
  <2> QED BY <2>11 DEF e
<1> QED BY <1>2, <1>3

\* The packages of a source have no scope, and its ecosystem.
LEMMA ExpectedIdentity ==
  ASSUME Expected, physical # <<>>, NEW s \in SourcesHeld,
         NEW x \in ToSet(combinedExpectedInventory[s])
  PROVE  /\ x.scope = "unknown" /\ x.ecosystem = (IF s = GoSource THEN "Go" ELSE "npm")
         /\ s # GoSource => \E p \in Range(Locators) : x = NpmIdentity(p)
<1>1. s \in DOMAIN combinedExpectedInventory /\ Len(physical) = Len(inputs) /\ Len(inputs) \in Nat
  BY ExpectedSources
<1>2. CASE s = GoSource
  <2>1. \E m : x = GoIdentity(m)
    BY <1>1, <1>2, GoExpected DEF ToSet
  <2> QED BY <1>2, <2>1 DEF GoIdentity
<1>3. CASE s # GoSource
  <2>1. s \in 1 .. Len(inputs)
    BY <1>1, <1>3 DEF SourcesHeld
  <2>2. combinedExpectedInventory[s] \in Seq({NpmIdentity(p) : p \in Range(Locators)})
    BY <2>1, NpmExpected
  <2>3. \E p \in Range(Locators) : x = NpmIdentity(p)
    BY <2>2 DEF ToSet
  <2> QED BY <1>3, <2>3 DEF NpmIdentity
<1> QED BY <1>2, <1>3

LEMMA ExpectedSequence ==
  ASSUME Expected, physical # <<>>, NEW s \in SourcesHeld
  PROVE  \E R : combinedExpectedInventory[s] \in Seq(R)
<1>1. s \in DOMAIN combinedExpectedInventory /\ Len(physical) = Len(inputs) /\ Len(inputs) \in Nat
  BY ExpectedSources
<1>2. CASE s = GoSource
  BY <1>1, <1>2, GoExpected
<1>3. CASE s # GoSource
  <2>1. s \in 1 .. Len(inputs)
    BY <1>1, <1>3 DEF SourcesHeld
  <2> QED BY <2>1, NpmExpected
<1> QED BY <1>2, <1>3

-----------------------------------------------------------------------------
(* The inventory check accepts exactly the faithful reports *)

Found(i) == MapSeq(report[i].packages, packageIdentity)

LEMMA FoundFacts ==
  ASSUME NEW I, report \in Seq(Results(I)), NEW i \in DOMAIN report
  PROVE  /\ report[i].packages \in Seq(I) /\ report[i].source \in Nat
         /\ Found(i) = [j \in DOMAIN report[i].packages |-> packageIdentity(report[i].packages[j])]
         /\ Found(i) \in Seq({packageIdentity(x) : x \in I})
         /\ ToSet(Found(i)) = {packageIdentity(x) : x \in ToSet(report[i].packages)}
<1> DEFINE pk == report[i].packages
<1>1. report[i] \in Results(I)
  OBVIOUS
<1>2. pk \in Seq(I) /\ report[i].source \in Nat
  BY <1>1 DEF Results
<1>3. Found(i) = [j \in DOMAIN pk |-> packageIdentity(pk[j])]
  BY DEF Found, MapSeq
<1> HIDE DEF pk, Found
<1>4. Found(i) \in Seq({packageIdentity(x) : x \in I})
  <2>1. \A j \in 1 .. Len(pk) : pk[j] \in I
    BY <1>2
  <2> QED BY <1>2, <1>3, <2>1
<1>5. ToSet(Found(i)) = {packageIdentity(x) : x \in ToSet(pk)}
  BY <1>3 DEF ToSet
<1> QED BY <1>2, <1>3, <1>4, <1>5 DEF pk

LEMMA UnknownScope ==
  ASSUME NEW item
  PROVE  IdentityAccepted(item) /\ packageIdentity(item).scope = "unknown"
            <=> {item.packageScope, item.itemScope} \subseteq {Absent, "unknown"}
<1>1. packageIdentity(item).scope = rawScope(item)
  BY DEF packageIdentity
<1>2. Absent # "unknown"
  BY DEF Absent
<1> QED BY <1>1, <1>2 DEF IdentityAccepted, rawScope, PackageScopes

LEMMA AllDifferSources ==
  ASSUME NEW I, report \in Seq(Results(I)), NEW S, IsFiniteSet(S),
         {report[i].source : i \in DOMAIN report} = S
  PROVE  AllDiffer(MapSeq(report, LAMBDA r : r.source)) <=> Len(report) = Cardinality(S)
<1> DEFINE s == [i \in DOMAIN report |-> report[i].source]
<1>1. MapSeq(report, LAMBDA r : r.source) = s
  BY DEF MapSeq
<1>2. DOMAIN report = 1 .. Len(report) /\ Len(report) \in Nat
  OBVIOUS
<1>3. \A i \in 1 .. Len(report) : report[i].source \in S
  BY <1>2
<1>4. s \in Seq(S) /\ Len(s) = Len(report)
  BY <1>2, <1>3
<1>5. ToSet(s) = S
  BY DEF ToSet
<1> HIDE DEF s
<1>6. AllDiffer(s) <=> Cardinality(ToSet(s)) = Len(s)
  BY <1>4, AllDifferCounted
<1> QED BY <1>1, <1>4, <1>5, <1>6

LEMMA SourcesFinite ==
  ASSUME Expected, physical # <<>>
  PROVE  IsFiniteSet(SourcesHeld)
<1>1. Len(physical) \in Nat
  BY ExpectedSources
<1>2. IsFiniteSet(1 .. Len(physical))
  BY <1>1, FS_Interval
<1>3. IsFiniteSet({}) /\ IsFiniteSet({GoSource})
  BY FS_EmptySet, FS_Singleton
<1> QED BY <1>2, <1>3, FS_Union DEF SourcesHeld

LEMMA ParityFaithful ==
  ASSUME Expected, physical # <<>>, NEW I, report \in Seq(Results(I))
  PROVE  InventoryParity(report, combinedExpectedInventory) <=> Faithful
<1> DEFINE ex == combinedExpectedInventory
           S == {report[i].source : i \in DOMAIN report}
<1>1. DOMAIN ex = SourcesHeld /\ SourcesHeld # {} /\ IsFiniteSet(SourcesHeld)
  BY ExpectedSources, SourcesFinite
<1>2. S = SourcesHeld =>
        (AllDiffer(MapSeq(report, LAMBDA r : r.source)) <=> Len(report) = Cardinality(SourcesHeld))
  BY <1>1, AllDifferSources
<1>3. ASSUME S = SourcesHeld, NEW i \in DOMAIN report
      PROVE  SameMultiset(Found(i), ex[report[i].source])
                <=> [x \in ToSet(Found(i)) |-> Count(Found(i), x)] = Holds(report[i].source)
  <2>1. report[i].source \in SourcesHeld
    BY <1>3
  <2>2. PICK R : ex[report[i].source] \in Seq(R)
    BY <2>1, ExpectedSequence
  <2>3. Found(i) \in Seq({packageIdentity(x) : x \in I})
    BY FoundFacts
  <2>4. Holds(report[i].source) = toMultiset(ex[report[i].source])
    BY <2>1, HoldsExpected
  <2> HIDE DEF ex, Found
  <2>5. SameMultiset(Found(i), ex[report[i].source])
           <=> toMultiset(Found(i)) = toMultiset(ex[report[i].source])
    BY <2>2, <2>3, SameMultisetIs
  <2> QED BY <2>4, <2>5 DEF toMultiset
<1>4. ASSUME S = SourcesHeld, NEW i \in DOMAIN report,
             SameMultiset(Found(i), ex[report[i].source]), NEW x \in ToSet(report[i].packages)
      PROVE  packageIdentity(x).scope = "unknown"
  <2>1. report[i].source \in SourcesHeld
    BY <1>4
  <2>2. PICK R : ex[report[i].source] \in Seq(R)
    BY <2>1, ExpectedSequence
  <2>3. /\ Found(i) \in Seq({packageIdentity(y) : y \in I})
        /\ ToSet(Found(i)) = {packageIdentity(y) : y \in ToSet(report[i].packages)}
    BY FoundFacts
  <2> HIDE DEF ex, Found
  <2>4. ToSet(Found(i)) = ToSet(ex[report[i].source])
    BY <1>4, <2>2, <2>3, SameMultisetIs
  <2>5. packageIdentity(x) \in ToSet(ex[report[i].source])
    BY <2>3, <2>4
  <2> QED BY <2>1, <2>5, ExpectedIdentity DEF ex
<1> HIDE DEF ex
<1>5. ASSUME InventoryParity(report, ex) PROVE Faithful
  <2>1. S = SourcesHeld /\ Len(report) = Cardinality(SourcesHeld)
    BY <1>1, <1>2, <1>5 DEF InventoryParity
  <2>2. \A i \in DOMAIN report : SameMultiset(Found(i), ex[report[i].source])
    BY <1>5 DEF InventoryParity, Found
  <2>3. \A i \in DOMAIN report :
          [x \in ToSet(Found(i)) |-> Count(Found(i), x)] = Holds(report[i].source)
    BY <1>3, <2>1, <2>2
  <2>4. ASSUME NEW item \in Items(report)
        PROVE  {item.packageScope, item.itemScope} \subseteq {Absent, "unknown"}
    <3>1. PICK i \in DOMAIN report : item \in ToSet(report[i].packages)
      BY DEF Items
    <3>2. packageIdentity(item).scope = "unknown"
      BY <1>4, <2>1, <2>2, <3>1
    <3>3. IdentityAccepted(item)
      BY <1>5, <3>1 DEF InventoryParity, ToSet
    <3> QED BY <3>2, <3>3, UnknownScope
  <2> QED BY <2>1, <2>3, <2>4 DEF Faithful, Found
<1>6. ASSUME Faithful PROVE InventoryParity(report, ex)
  <2>1. S = SourcesHeld /\ Len(report) = Cardinality(SourcesHeld)
    BY <1>6 DEF Faithful
  <2>2. AllDiffer(MapSeq(report, LAMBDA r : r.source))
    BY <1>2, <2>1
  <2>3. \A i \in DOMAIN report : SameMultiset(Found(i), ex[report[i].source])
    <3>1. \A i \in DOMAIN report :
            [x \in ToSet(Found(i)) |-> Count(Found(i), x)] = Holds(report[i].source)
      BY <1>6 DEF Faithful, Found
    <3> QED BY <1>3, <2>1, <3>1
  <2>4. ASSUME NEW i \in DOMAIN report, NEW j \in DOMAIN report[i].packages
        PROVE  IdentityAccepted(report[i].packages[j])
    <3>1. report[i].packages[j] \in Items(report)
      BY DEF Items, ToSet
    <3> QED BY <1>6, <3>1, UnknownScope DEF Faithful
  <2> QED BY <1>1, <2>1, <2>2, <2>3, <2>4 DEF InventoryParity, Found
<1> QED BY <1>5, <1>6 DEF ex

\* Of a faithful report, the npm part has the packages of the lockfile.
LEMMA FaithfulResult ==
  ASSUME Expected, physical # <<>>, NEW I, report \in Seq(Results(I)), Faithful,
         NEW i \in DOMAIN report
  PROVE  /\ report[i].source \in SourcesHeld
         /\ SameMultiset(Found(i), combinedExpectedInventory[report[i].source])
         /\ ToSet(Found(i)) = ToSet(combinedExpectedInventory[report[i].source])
<1> DEFINE e == combinedExpectedInventory[report[i].source]
<1>1. InventoryParity(report, combinedExpectedInventory)
  BY ParityFaithful
<1>2. report[i].source \in SourcesHeld
  BY DEF Faithful
<1>3. SameMultiset(Found(i), e)
  BY <1>1 DEF InventoryParity, Found
<1>4. PICK R : e \in Seq(R)
  BY <1>2, ExpectedSequence
<1>5. Found(i) \in Seq({packageIdentity(x) : x \in I})
  BY FoundFacts
<1> HIDE DEF e
<1>6. ToSet(Found(i)) = ToSet(e)
  BY <1>3, <1>4, <1>5, SameMultisetIs
<1> QED BY <1>2, <1>3, <1>6 DEF e

LEMMA NpmResultsAre ==
  ASSUME Expected, physical # <<>>, NEW I, report \in Seq(Results(I)), Faithful,
         NEW i \in DOMAIN report
  PROVE  i \in NpmResults(report) <=> report[i].source # GoSource
<1> DEFINE s == report[i].source
           pk == report[i].packages
<1>1. s \in SourcesHeld /\ ToSet(Found(i)) = ToSet(combinedExpectedInventory[s])
  BY FaithfulResult
<1>2. pk \in Seq(I) /\ ToSet(Found(i)) = {packageIdentity(x) : x \in ToSet(pk)}
  BY FoundFacts
<1>3. Len(physical) = Len(inputs) /\ s \in DOMAIN combinedExpectedInventory
  BY <1>1, ExpectedSources
<1>4. combinedExpectedInventory[s] # <<>>
  <2>1. CASE s = GoSource
    <3>1. /\ combinedExpectedInventory[s] = [j \in DOMAIN goModules |-> GoIdentity(goModules[j])]
          /\ goModules # <<>>
      BY <1>3, <2>1, GoExpected
    <3>2. goModules \in Seq([name : STRING, version : DOMAIN GoVersions])
      BY DEF Expected
    <3>3. DOMAIN goModules # {}
      BY <3>1, <3>2
    <3> QED BY <3>1, <3>3
  <2>2. CASE s # GoSource
    <3>1. s \in 1 .. Len(inputs)
      BY <1>1, <1>3, <2>2 DEF SourcesHeld
    <3>2. /\ combinedExpectedInventory[s] = [j \in DOMAIN inputs[s] |-> NpmIdentity(inputs[s][j])]
          /\ inputs[s] \in Seq(Range(Locators)) /\ inputs[s] # <<>>
      BY <3>1, NpmExpected
    <3>3. DOMAIN inputs[s] # {}
      BY <3>2
    <3> QED BY <3>2, <3>3
  <2> QED BY <2>1, <2>2
<1>5. pk # <<>>
  <2>1. PICK R : combinedExpectedInventory[s] \in Seq(R)
    BY <1>1, ExpectedSequence
  <2>2. ToSet(combinedExpectedInventory[s]) # {}
    <3> DEFINE e == combinedExpectedInventory[s]
    <3>1. e \in Seq(R) /\ e # <<>>
      BY <1>4, <2>1
    <3> HIDE DEF e
    <3>2. 1 \in DOMAIN e
      BY <3>1
    <3>3. e[1] \in ToSet(e)
      BY <3>2 DEF ToSet
    <3> QED BY <3>3 DEF e
  <2>3. ToSet(pk) # {}
    BY <1>1, <1>2, <2>2
  <2> QED BY <2>3 DEF ToSet
<1> HIDE DEF pk
<1>6. pk[1] \in ToSet(pk)
  BY <1>2, <1>5 DEF ToSet
<1>7. packageIdentity(pk[1]) \in ToSet(combinedExpectedInventory[s])
  BY <1>1, <1>2, <1>6
<1>8. packageIdentity(pk[1]).ecosystem = (IF s = GoSource THEN "Go" ELSE "npm")
  BY <1>1, <1>7, ExpectedIdentity
<1>9. pk[1].ecosystem = (IF s = GoSource THEN "Go" ELSE "npm")
  BY <1>8 DEF packageIdentity
<1> QED BY <1>5, <1>9 DEF NpmResults, pk

LEMMA NpmPackagesAre ==
  ASSUME Expected, physical # <<>>, NEW I, report \in Seq(Results(I)), Faithful,
         NEW i \in DOMAIN report, report[i].source # GoSource
  PROVE  /\ \A j \in DOMAIN report[i].packages : NpmItem(report[i].packages[j])
         /\ toMultiset(MapSeq(report[i].packages, NpmPackage))
                = toMultiset(inputs[report[i].source])
<1> DEFINE s == report[i].source
           pk == report[i].packages
           e == combinedExpectedInventory[s]
           g == inputs[s]
           a == [j \in DOMAIN pk |-> NpmPackage(pk[j])]
<1>1. /\ s \in SourcesHeld /\ SameMultiset(Found(i), e) /\ ToSet(Found(i)) = ToSet(e)
  BY FaithfulResult
<1>2. /\ pk \in Seq(I) /\ ToSet(Found(i)) = {packageIdentity(x) : x \in ToSet(pk)}
      /\ Found(i) = [j \in DOMAIN pk |-> packageIdentity(pk[j])]
  BY FoundFacts
<1>3. s \in 1 .. Len(inputs)
  <2>1. Len(physical) = Len(inputs)
    BY ExpectedSources
  <2> QED BY <1>1, <2>1 DEF SourcesHeld
<1>4. e = [j \in DOMAIN g |-> NpmIdentity(g[j])] /\ g \in Seq(Range(Locators))
  BY <1>3, NpmExpected
<1>5. MapSeq(report[i].packages, NpmPackage) = a
  BY DEF MapSeq
<1> HIDE DEF pk, e, g, a, s
<1>6. ASSUME NEW j \in DOMAIN pk
      PROVE  /\ NpmItem(pk[j]) /\ NpmPackage(pk[j]) \in Range(Locators)
             /\ packageIdentity(pk[j]) = NpmIdentity(NpmPackage(pk[j]))
  <2>1. packageIdentity(pk[j]) \in ToSet(e)
    BY <1>1, <1>2 DEF ToSet
  <2>2. PICK p \in Range(Locators) : packageIdentity(pk[j]) = NpmIdentity(p)
    BY <1>1, <2>1, ExpectedIdentity DEF e, s
  <2>3. /\ p = [name |-> p.name, version |-> p.version]
        /\ p.version \in DOMAIN NpmVersions /\ NpmVersions[p.version] = p.version
    BY NpmIdentities
  <2>4. pk[j].ecosystem = "npm" /\ pk[j].name = p.name /\ pk[j].version = p.version
    BY <2>2 DEF packageIdentity, NpmIdentity
  <2>5. NpmItem(pk[j])
    BY <2>3, <2>4 DEF NpmItem
  <2>6. NpmPackage(pk[j]) = p
    BY <2>3, <2>4 DEF NpmPackage
  <2> QED BY <2>2, <2>5, <2>6
<1>7. ASSUME NEW x \in Range(Locators)
      PROVE  Count(a, x) = Count(Found(i), NpmIdentity(x)) /\ Count(g, x) = Count(e, NpmIdentity(x))
  <2>1. {j \in DOMAIN a : a[j] = x} = {j \in DOMAIN Found(i) : Found(i)[j] = NpmIdentity(x)}
    <3>1. ASSUME NEW j \in DOMAIN pk
          PROVE  NpmPackage(pk[j]) = x <=> packageIdentity(pk[j]) = NpmIdentity(x)
      BY <1>6, NpmIdentityInjective
    <3> QED BY <1>2, <3>1 DEF a
  <2>2. {j \in DOMAIN g : g[j] = x} = {j \in DOMAIN e : e[j] = NpmIdentity(x)}
    <3>1. ASSUME NEW j \in DOMAIN g PROVE g[j] = x <=> NpmIdentity(g[j]) = NpmIdentity(x)
      <4>1. g[j] \in Range(Locators)
        BY <1>4
      <4> QED BY <4>1, NpmIdentityInjective
    <3> QED BY <1>4, <3>1
  <2> QED BY <2>1, <2>2 DEF Count
<1>8. ASSUME NEW x PROVE x \in ToSet(a) <=> x \in ToSet(g)
  <2>1. ASSUME x \in ToSet(a) PROVE x \in ToSet(g)
    <3>1. PICK j \in DOMAIN pk : x = NpmPackage(pk[j])
      BY <2>1 DEF ToSet, a
    <3>2. NpmIdentity(x) \in ToSet(e) /\ x \in Range(Locators)
      BY <1>1, <1>2, <1>6, <3>1 DEF ToSet
    <3>3. PICK k \in DOMAIN g : NpmIdentity(x) = NpmIdentity(g[k])
      BY <1>4, <3>2 DEF ToSet
    <3>4. g[k] \in Range(Locators)
      BY <1>4
    <3>5. x = g[k]
      BY <3>2, <3>3, <3>4, NpmIdentityInjective
    <3> QED BY <3>5 DEF ToSet
  <2>2. ASSUME x \in ToSet(g) PROVE x \in ToSet(a)
    <3>1. PICK k \in DOMAIN g : x = g[k]
      BY <2>2 DEF ToSet
    <3>2. NpmIdentity(x) \in ToSet(e) /\ x \in Range(Locators)
      BY <1>4, <3>1 DEF ToSet
    <3>3. PICK j \in DOMAIN pk : NpmIdentity(x) = packageIdentity(pk[j])
      BY <1>1, <1>2, <3>2 DEF ToSet
    <3>4. x = NpmPackage(pk[j])
      BY <1>6, <3>2, <3>3, NpmIdentityInjective
    <3> QED BY <3>4 DEF ToSet, a
  <2> QED BY <2>1, <2>2
<1>9. ASSUME NEW x \in ToSet(g) PROVE Count(a, x) = Count(g, x)
  <2>1. x \in Range(Locators) /\ NpmIdentity(x) \in ToSet(e)
    BY <1>4, <1>9 DEF ToSet
  <2>2. Count(Found(i), NpmIdentity(x)) = Count(e, NpmIdentity(x))
    BY <1>1, <2>1 DEF SameMultiset
  <2> QED BY <1>7, <2>1, <2>2
<1>10. toMultiset(a) = toMultiset(g)
  <2>1. ToSet(a) = ToSet(g)
    BY <1>8
  <2> QED BY <1>9, <2>1 DEF toMultiset
<1> QED BY <1>5, <1>6, <1>10 DEF pk, g, s

LEMMA FaithfulNpmParity ==
  ASSUME Expected, physical # <<>>, NEW I, report \in Seq(Results(I)), Faithful
  PROVE  SourceInventoryParity(inputs, report, NpmResults(report))
<1> DEFINE R == NpmResults(report)
<1>1. R \subseteq DOMAIN report
  BY DEF NpmResults
<1>2. \A i \in DOMAIN report : i \in R <=> report[i].source # GoSource
  BY NpmResultsAre
<1> HIDE DEF R
<1>3. InventoryParity(report, combinedExpectedInventory)
  BY ParityFaithful
<1>4. ASSUME NEW i \in R, NEW j \in R, report[i].source = report[j].source PROVE i = j
  <2>1. AllDiffer(MapSeq(report, LAMBDA r : r.source))
    BY <1>3 DEF InventoryParity
  <2> QED BY <1>1, <1>4, <2>1 DEF AllDiffer, MapSeq
<1>5. \A i \in R : \A j \in DOMAIN report[i].packages : NpmItem(report[i].packages[j])
  BY <1>1, <1>2, NpmPackagesAre
<1>6. {report[i].source : i \in R} = DOMAIN inputs
  <2>1. /\ SourcesHeld = {report[i].source : i \in DOMAIN report}
        /\ Len(physical) = Len(inputs) /\ Len(inputs) \in Nat
    BY ExpectedSources DEF Faithful
  <2>2. DOMAIN inputs = 1 .. Len(inputs)
    BY DEF Expected
  <2>3. \A s : s \in SourcesHeld /\ s # GoSource <=> s \in 1 .. Len(inputs)
    BY <2>1 DEF SourcesHeld, GoSource
  <2> QED BY <1>1, <1>2, <2>1, <2>2, <2>3
<1>7. ASSUME NEW i \in R
      PROVE  LET actual == toMultiset(MapSeq(report[i].packages, NpmPackage))
                 wanted == toMultiset(inputs[report[i].source])
             IN  multisetDifference(wanted, actual) = {} /\ multisetDifference(actual, wanted) = {}
  <2> DEFINE m == toMultiset(inputs[report[i].source])
  <2>1. toMultiset(MapSeq(report[i].packages, NpmPackage)) = m
    BY <1>1, <1>2, NpmPackagesAre
  <2>2. report[i].source \in 1 .. Len(inputs)
    <3>1. report[i].source \in DOMAIN inputs
      BY <1>6
    <3>2. DOMAIN inputs = 1 .. Len(inputs)
      BY DEF Expected
    <3> QED BY <3>1, <3>2
  <2>3. inputs[report[i].source] \in Seq(Range(Locators))
    BY <2>2 DEF Expected
  <2>4. \A k \in DOMAIN m : m[k] \in Nat
    BY <2>3, CountFacts DEF toMultiset
  <2> HIDE DEF m
  <2>5. multisetDifference(m, m) = {}
    BY <2>4 DEF multisetDifference
  <2> QED BY <2>1, <2>5 DEF m
<1>8. SourceInventoryParity(inputs, report, R)
  BY <1>4, <1>5, <1>6, <1>7 DEF SourceInventoryParity
<1> QED BY <1>8 DEF R

-----------------------------------------------------------------------------
(* The advisories of an item *)

\* The members the evaluators look at.
Member(item) ==
    /\ item.vulnerabilities \in Seq(STRING)
    /\ item.groups \in Seq([ids : Seq(STRING), severity : Nat])
    /\ item.outer \in Seq(STRING) /\ item.nested \in Seq(STRING)

LEMMA GroupFacts ==
  ASSUME NEW item, Member(item), NEW g \in DOMAIN item.groups
  PROVE  /\ item.groups[g].ids \in Seq(STRING) /\ item.groups[g].severity \in Nat
         /\ \A v : v \in Ids(item.groups[g])
                     <=> \E i \in DOMAIN item.groups[g].ids : v = MappedId(item, <<g, i>>)
         /\ (item.groups[g].ids # <<>> <=> Ids(item.groups[g]) # {})
         /\ AllDiffer(item.groups[g].ids)
                <=> Cardinality(Ids(item.groups[g])) = Len(item.groups[g].ids)
<1> DEFINE s == item.groups[g].ids
<1>1. s \in Seq(STRING) /\ item.groups[g].severity \in Nat
  <2>1. item.groups \in Seq([ids : Seq(STRING), severity : Nat])
    BY DEF Member
  <2>2. item.groups[g] \in [ids : Seq(STRING), severity : Nat]
    BY ONLY <2>1, g \in DOMAIN item.groups, ElementOf
  <2> QED BY <2>2
<1>2. Ids(item.groups[g]) = ToSet(s)
  BY DEF Ids
<1>3. \A v : v \in ToSet(s) <=> \E i \in DOMAIN s : v = MappedId(item, <<g, i>>)
  BY DEF MappedId, ToSet
<1> HIDE DEF s
<1>4. s # <<>> <=> ToSet(s) # {}
  BY <1>1, NonemptySet
<1>5. AllDiffer(s) <=> Cardinality(ToSet(s)) = Len(s)
  BY <1>1, AllDifferCounted
<1> QED BY <1>1, <1>2, <1>3, <1>4, <1>5 DEF s

LEMMA MappedFacts ==
  ASSUME NEW item
  PROVE  /\ \A m \in Mapped(item) :
                /\ m = <<m[1], m[2]>> /\ m[1] \in DOMAIN item.groups
                /\ m[2] \in DOMAIN item.groups[m[1]].ids
         /\ \A g \in DOMAIN item.groups : \A i \in DOMAIN item.groups[g].ids :
                <<g, i>> \in Mapped(item)
<1>1. ASSUME NEW m \in Mapped(item)
      PROVE  /\ m = <<m[1], m[2]>> /\ m[1] \in DOMAIN item.groups
             /\ m[2] \in DOMAIN item.groups[m[1]].ids
  <2>1. PICK g \in DOMAIN item.groups : m \in {g} \X DOMAIN item.groups[g].ids
    BY DEF Mapped
  <2> QED BY <2>1
<1>2. ASSUME NEW g \in DOMAIN item.groups, NEW i \in DOMAIN item.groups[g].ids
      PROVE  <<g, i>> \in Mapped(item)
  <2>1. <<g, i>> \in {g} \X DOMAIN item.groups[g].ids
    OBVIOUS
  <2> QED BY <2>1 DEF Mapped
<1> QED BY <1>1, <1>2

\* validateVulnerabilityGroups demands a partition of the advisories.
LEMMA GroupsExact ==
  ASSUME NEW item, Member(item)
  PROVE  GroupsAccepted(item) <=> Grouped(item)
<1> DEFINE G == DOMAIN item.groups
           Of(v) == {g \in G : v \in Ids(item.groups[g])}
<1>1. /\ item.vulnerabilities \in Seq(STRING) /\ Advisories(item) = ToSet(item.vulnerabilities)
      /\ IsFiniteSet(G)
  <2>1. G = 1 .. Len(item.groups) /\ Len(item.groups) \in Nat
    BY DEF Member
  <2>2. IsFiniteSet(1 .. Len(item.groups))
    BY <2>1, FS_Interval
  <2> QED BY <2>1, <2>2 DEF Member, Advisories
<1>2. VulnerabilitiesAccepted(item)
         <=> Cardinality(Advisories(item)) = Len(item.vulnerabilities)
  BY <1>1, AllDifferCounted DEF VulnerabilitiesAccepted
<1>3. ASSUME NEW g \in G
      PROVE  /\ numericSeverity(item.groups[g].severity) <=> item.groups[g].severity \in 0 .. 100
             /\ item.groups[g].ids # <<>> <=> Ids(item.groups[g]) # {}
             /\ AllDiffer(item.groups[g].ids)
                    <=> Cardinality(Ids(item.groups[g])) = Len(item.groups[g].ids)
             /\ \A v : v \in Ids(item.groups[g])
                         <=> \E i \in DOMAIN item.groups[g].ids : v = MappedId(item, <<g, i>>)
  <2>1. /\ item.groups[g].severity \in Nat
        /\ \A v : v \in Ids(item.groups[g])
                    <=> \E i \in DOMAIN item.groups[g].ids : v = MappedId(item, <<g, i>>)
        /\ (item.groups[g].ids # <<>> <=> Ids(item.groups[g]) # {})
        /\ AllDiffer(item.groups[g].ids)
                <=> Cardinality(Ids(item.groups[g])) = Len(item.groups[g].ids)
    BY ONLY Member(item), g \in DOMAIN item.groups, GroupFacts
  <2>2. \A x \in Nat : numericSeverity(x) <=> x \in 0 .. 100
    BY DEF numericSeverity
  <2>3. numericSeverity(item.groups[g].severity) <=> item.groups[g].severity \in 0 .. 100
    BY <2>1, <2>2
  <2> QED BY <2>1, <2>3
<1>4. ASSUME NEW v PROVE Cardinality(Of(v)) = 1 <=> \E g : Of(v) = {g}
  <2>1. IsFiniteSet(Of(v))
    BY <1>1, FS_Subset
  <2> HIDE DEF Of
  <2> QED BY <2>1, FS_Singleton
<1>5. ASSUME NEW v PROVE v \in mappedIds(item) <=> Of(v) # {}
  <2>1. ASSUME v \in mappedIds(item) PROVE Of(v) # {}
    <3>1. PICK m \in Mapped(item) : v = MappedId(item, m)
      BY <2>1 DEF mappedIds
    <3>2. m = <<m[1], m[2]>> /\ m[1] \in G /\ m[2] \in DOMAIN item.groups[m[1]].ids
      BY MappedFacts
    <3>3. v \in Ids(item.groups[m[1]])
      BY <1>3, <3>1, <3>2
    <3> QED BY <3>2, <3>3
  <2>2. ASSUME Of(v) # {} PROVE v \in mappedIds(item)
    <3>1. PICK g \in G : v \in Ids(item.groups[g])
      BY <2>2
    <3>2. PICK i \in DOMAIN item.groups[g].ids : v = MappedId(item, <<g, i>>)
      BY <1>3, <3>1
    <3> QED BY <3>2, MappedFacts DEF mappedIds
  <2> QED BY <2>1, <2>2
<1>6. ASSUME GroupsAccepted(item) PROVE Grouped(item)
  <2>1. /\ VulnerabilitiesAccepted(item)
        /\ \A g \in G : item.groups[g].ids # <<>> /\ numericSeverity(item.groups[g].severity)
        /\ \A m, n \in Mapped(item) : MappedId(item, m) = MappedId(item, n) => m = n
        /\ mappedIds(item) = Advisories(item)
    BY <1>1, <1>6 DEF GroupsAccepted
  <2>2. ASSUME NEW g \in G
        PROVE  /\ item.groups[g].severity \in 0 .. 100 /\ Ids(item.groups[g]) # {}
               /\ Ids(item.groups[g]) \subseteq Advisories(item)
               /\ Cardinality(Ids(item.groups[g])) = Len(item.groups[g].ids)
    <3>1. Ids(item.groups[g]) \subseteq Advisories(item)
      BY <1>5, <2>1
    <3>2. AllDiffer(item.groups[g].ids)
      <4> SUFFICES ASSUME NEW i \in DOMAIN item.groups[g].ids, NEW j \in DOMAIN item.groups[g].ids,
                          item.groups[g].ids[i] = item.groups[g].ids[j]
                   PROVE  i = j
        BY DEF AllDiffer
      <4>1. <<g, i>> \in Mapped(item) /\ <<g, j>> \in Mapped(item)
        BY MappedFacts
      <4>2. MappedId(item, <<g, i>>) = MappedId(item, <<g, j>>)
        BY DEF MappedId
      <4>3. <<g, i>> = <<g, j>>
        BY <2>1, <4>1, <4>2
      <4> QED BY <4>3
    <3> QED BY <1>3, <2>1, <3>1, <3>2
  <2>3. ASSUME NEW v \in Advisories(item) PROVE Cardinality(Of(v)) = 1
    <3>1. PICK g \in G : v \in Ids(item.groups[g])
      BY <1>5, <2>1
    <3>2. PICK i \in DOMAIN item.groups[g].ids : v = MappedId(item, <<g, i>>)
      BY <1>3, <3>1
    <3>3. ASSUME NEW h \in Of(v) PROVE h = g
      <4>1. PICK j \in DOMAIN item.groups[h].ids : v = MappedId(item, <<h, j>>)
        BY <1>3
      <4>2. <<g, i>> = <<h, j>>
        BY <2>1, <3>2, <4>1, MappedFacts
      <4> QED BY <4>2
    <3>4. Of(v) = {g}
      BY <3>1, <3>3
    <3> QED BY <1>4, <3>4
  <2> QED BY <1>2, <2>1, <2>2, <2>3 DEF Grouped
<1>7. ASSUME Grouped(item) PROVE GroupsAccepted(item)
  <2>1. /\ VulnerabilitiesAccepted(item)
        /\ \A g \in G :
            /\ item.groups[g].severity \in 0 .. 100
            /\ Ids(item.groups[g]) # {} /\ Ids(item.groups[g]) \subseteq Advisories(item)
            /\ Cardinality(Ids(item.groups[g])) = Len(item.groups[g].ids)
        /\ \A v \in Advisories(item) : Cardinality(Of(v)) = 1
    BY <1>2, <1>7 DEF Grouped
  <2>2. \A g \in G : item.groups[g].ids # <<>> /\ numericSeverity(item.groups[g].severity)
    BY <1>3, <2>1
  <2>3. ASSUME NEW m \in Mapped(item), NEW n \in Mapped(item), MappedId(item, m) = MappedId(item, n)
        PROVE  m = n
    <3> DEFINE v == MappedId(item, m)
    <3>1. /\ m = <<m[1], m[2]>> /\ m[1] \in G /\ m[2] \in DOMAIN item.groups[m[1]].ids
          /\ n = <<n[1], n[2]>> /\ n[1] \in G /\ n[2] \in DOMAIN item.groups[n[1]].ids
      BY MappedFacts
    <3>2. v \in Ids(item.groups[m[1]])
      BY <1>3, <3>1
    <3>3. v \in Ids(item.groups[n[1]])
      BY <1>3, <2>3, <3>1
    <3>4. v \in Advisories(item)
      BY <2>1, <3>1, <3>2
    <3>5. m[1] \in Of(v) /\ n[1] \in Of(v)
      BY <3>1, <3>2, <3>3
    <3>6. m[1] = n[1]
      <4>1. PICK g : Of(v) = {g}
        BY <1>4, <2>1, <3>4
      <4> QED BY <3>5, <4>1
    <3>7. AllDiffer(item.groups[m[1]].ids)
      BY <1>3, <2>1, <3>1
    <3>8. item.groups[m[1]].ids[m[2]] = item.groups[m[1]].ids[n[2]]
      BY <2>3, <3>6 DEF MappedId
    <3>9. m[2] = n[2]
      BY <3>1, <3>6, <3>7, <3>8 DEF AllDiffer
    <3> QED BY <3>1, <3>6, <3>9
  <2>4. mappedIds(item) = Advisories(item)
    <3>1. ASSUME NEW v \in mappedIds(item) PROVE v \in Advisories(item)
      BY <1>5, <2>1
    <3>2. ASSUME NEW v \in Advisories(item) PROVE v \in mappedIds(item)
      <4>1. PICK g : Of(v) = {g}
        BY <1>4, <2>1
      <4> QED BY <1>5, <4>1
    <3> QED BY <3>1, <3>2
  <2> QED BY <1>1, <2>1, <2>2, <2>3, <2>4 DEF GroupsAccepted
<1> QED BY <1>6, <1>7

\* The highest score of an item reaches the threshold if an advisory of it does.
LEMMA SevereExact ==
  ASSUME NEW item, Grouped(item), NEW t
  PROVE  Severe(item, t) <=> Blocking(item, t) # {}
BY DEF Severe, Grouped, Blocking

LEMMA AdvisedExact ==
  ASSUME NEW item, Member(item)
  PROVE  item.vulnerabilities # <<>> <=> Advisories(item) # {}
<1> DEFINE s == item.vulnerabilities
<1>1. s \in Seq(STRING) /\ Advisories(item) = ToSet(s)
  BY DEF Member, Advisories
<1> HIDE DEF s
<1>2. s # <<>> <=> ToSet(s) # {}
  BY <1>1, NonemptySet
<1> QED BY <1>1, <1>2 DEF s

-----------------------------------------------------------------------------
(* The licenses of an item *)

LEMMA LicensesExact ==
  ASSUME NEW item, Member(item)
  PROVE  /\ Licensed(item) <=> /\ VulnerabilitiesAccepted(item)
                               /\ LicensesAccepted(item)
                               /\ Untrimmed \notin ToSet(licenseArray(item))
         /\ LicensesAccepted(item) =>
                Licenses(item) = ToSet(licenseArray(item)) /\ licenseArray(item) \in Seq(STRING)
<1> DEFINE A == {item.outer, item.nested} \ {NoArray}
           a == licenseArray(item)
<1>1. VulnerabilitiesAccepted(item)
         <=> Cardinality(Advisories(item)) = Len(item.vulnerabilities)
  BY AllDifferCounted DEF VulnerabilitiesAccepted, Advisories, Member
<1>2. IsFiniteSet(A)
  <2>1. IsFiniteSet({item.outer} \cup {item.nested})
    BY FS_Singleton, FS_Union
  <2>2. A \subseteq {item.outer} \cup {item.nested}
    OBVIOUS
  <2> HIDE DEF A
  <2> QED BY <2>1, <2>2, FS_Subset
<1>3. Cardinality(A) = 1 <=> \E x : A = {x}
  <2> HIDE DEF A
  <2> QED BY <1>2, FS_Singleton
<1>4. ASSUME LicensesAccepted(item) PROVE A = {a}
  BY <1>4 DEF LicensesAccepted, licenseArray
<1>5. ASSUME NEW x, A = {x} PROVE LicensesAccepted(item)
  <2>1. x \in {item.outer, item.nested} /\ x # NoArray
    BY <1>5
  <2>2. item.outer \in {x, NoArray} /\ item.nested \in {x, NoArray}
    BY <1>5
  <2> QED BY <2>1, <2>2 DEF LicensesAccepted
<1>6. LicensesAccepted(item) <=> Cardinality(A) = 1
  BY <1>3, <1>4, <1>5
<1>7. ASSUME LicensesAccepted(item) PROVE Licenses(item) = ToSet(a) /\ a \in Seq(STRING)
  <2>1. Licenses(item) = UNION {ToSet(b) : b \in A}
    BY DEF Licenses
  <2>2. A = {a}
    BY <1>4, <1>7
  <2>3. a \in Seq(STRING)
    BY DEF licenseArray, Member
  <2> HIDE DEF A, a
  <2> QED BY <2>1, <2>2, <2>3
<1>8. Licensed(item) <=> /\ Cardinality(A) = 1 /\ Untrimmed \notin Licenses(item)
                         /\ Cardinality(Advisories(item)) = Len(item.vulnerabilities)
  BY DEF Licensed
<1> HIDE DEF A, a
<1> QED BY <1>1, <1>6, <1>7, <1>8 DEF a

LEMMA DeniedExact ==
  ASSUME NEW item, Member(item), LicensesAccepted(item),
         NEW allowed, ToSet(allowed) \cap (UnknownLicenses \cup {Untrimmed}) = {}
  PROVE  LicenseFound(item, allowed)
            <=> Licenses(item) = {} \/ ~(Licenses(item) \subseteq ToSet(allowed))
<1> DEFINE a == licenseArray(item)
<1>1. Licenses(item) = ToSet(a) /\ a \in Seq(STRING)
  BY LicensesExact
<1>2. LicenseFound(item, allowed) <=>
        \/ a = <<>>
        \/ \E i \in DOMAIN a : a[i] \in UnknownLicenses \/ a[i] \notin ToSet(allowed)
  BY DEF LicenseFound
<1> HIDE DEF a
<1>3. a = <<>> <=> ToSet(a) = {}
  BY <1>1, NonemptySet
<1>4. (\E i \in DOMAIN a : a[i] \in UnknownLicenses \/ a[i] \notin ToSet(allowed))
         <=> ~(ToSet(a) \subseteq ToSet(allowed))
  <2>1. \A x : x \in ToSet(a) <=> \E i \in DOMAIN a : a[i] = x
    BY DEF ToSet
  <2>2. \A x : x \in UnknownLicenses => x \notin ToSet(allowed)
    OBVIOUS
  <2> QED BY <2>1, <2>2
<1> QED BY <1>1, <1>2, <1>3, <1>4

-----------------------------------------------------------------------------
(* The verdicts *)

LEMMA ItemsTyped ==
  ASSUME NEW I \in {VulnerabilityItems, LicenseItems}, report \in Seq(Results(I)),
         NEW item \in Items(report)
  PROVE  Member(item)
<1>1. PICK i \in DOMAIN report : item \in ToSet(report[i].packages)
  BY DEF Items
<1>2. report[i].packages \in Seq(I)
  BY FoundFacts
<1>3. item \in I
  BY <1>1, <1>2 DEF ToSet
<1>4. item \in VulnerabilityItems \cup LicenseItems
  BY <1>3
<1> QED BY <1>4, ScanAssumption DEF Member

\* The gate has nothing to add to the evaluator but the coverage of the extraction.
LEMMA GateExact ==
  ASSUME Expected, physical # <<>>, NEW I, report \in Seq(Results(I)),
         NEW exit \in {0, 1}, NEW covered \in BOOLEAN, NEW evaluated,
         ~Faithful => evaluated = "CONTRACT"
  PROVE  GateVerdict(exit, covered, evaluated) = IF ~covered THEN "CONTRACT" ELSE evaluated
<1>1. Faithful => SourceInventoryParity(inputs, report, NpmResults(report))
  BY FaithfulNpmParity
<1>2. ControlledExit(exit)
  BY DEF ControlledExit
<1> QED BY <1>1, <1>2 DEF GateVerdict

LEMMA VulnerabilityExact ==
  ASSUME Expected, physical # <<>>, report \in Seq(Results(VulnerabilityItems)),
         NEW exit \in Exits, NEW covered \in BOOLEAN, NEW t \in Thresholds
  PROVE  VulnerabilityVerdict(exit, covered, t) =
            IF exit \notin {0, 1} THEN "INTERNAL"
            ELSE IF ~(covered /\ t \in 1 .. 70
                      /\ (Faithful /\ \A item \in Items(report) : Grouped(item))
                      /\ (exit = 1 <=> \E item \in Items(report) : Advisories(item) # {}))
                 THEN "CONTRACT"
            ELSE IF \E item \in Items(report) : Blocking(item, t) # {} THEN "FINDING" ELSE "PASS"
<1> DEFINE found == \E item \in Items(report) : Advisories(item) # {}
           grouped == \A item \in Items(report) : Grouped(item)
           blocked == \E item \in Items(report) : Blocking(item, t) # {}
           ev == evaluateOsvVulnerabilities(report, exit, combinedExpectedInventory, t)
<1>1. \A item \in Items(report) : Member(item)
  BY ItemsTyped
<1>2. InventoryParity(report, combinedExpectedInventory) <=> Faithful
  BY ParityFaithful
<1>3. (\E item \in Items(report) : ~GroupsAccepted(item)) <=> ~grouped
  BY <1>1, GroupsExact
<1>4. (\E item \in Items(report) : item.vulnerabilities # <<>>) <=> found
  BY <1>1, AdvisedExact
<1>5. grouped => ((\E item \in Items(report) : Severe(item, t)) <=> blocked)
  BY SevereExact
<1>6. vulnerabilityThreshold(t) <=> t \in 1 .. 70
  BY ScanAssumption DEF vulnerabilityThreshold, MaxThreshold
<1> HIDE DEF found, grouped, blocked
<1>7. ASSUME exit \in {0, 1}
      PROVE  ev = IF ~(t \in 1 .. 70 /\ Faithful /\ grouped /\ (exit = 1 <=> found))
                  THEN "CONTRACT" ELSE IF blocked THEN "FINDING" ELSE "PASS"
  <2>1. RawFindingConsistent(exit, \E item \in Items(report) : item.vulnerabilities # <<>>)
           <=> (exit = 1 <=> found)
    BY <1>4, <1>7 DEF RawFindingConsistent
  <2>2. ControlledExit(exit)
    BY <1>7 DEF ControlledExit
  <2> HIDE DEF ev
  <2>3. ev = IF \/ ~vulnerabilityThreshold(t)
                \/ ~InventoryParity(report, combinedExpectedInventory)
                \/ \E item \in Items(report) : ~GroupsAccepted(item)
                \/ ~RawFindingConsistent(exit,
                        \E item \in Items(report) : item.vulnerabilities # <<>>)
             THEN "CONTRACT"
             ELSE IF \E item \in Items(report) : Severe(item, t) THEN "FINDING" ELSE "PASS"
    BY <2>2 DEF ev, evaluateOsvVulnerabilities
  <2> QED BY <1>2, <1>3, <1>5, <1>6, <2>1, <2>3
<1>8. CASE exit \notin {0, 1}
  BY <1>8 DEF VulnerabilityVerdict, GateVerdict, ControlledExit
<1>9. CASE exit \in {0, 1}
  <2>1. ~Faithful => ev = "CONTRACT"
    BY <1>7, <1>9
  <2> HIDE DEF ev
  <2>2. GateVerdict(exit, covered, ev) = IF ~covered THEN "CONTRACT" ELSE ev
    BY <1>9, <2>1, GateExact
  <2>3. VulnerabilityVerdict(exit, covered, t) = GateVerdict(exit, covered, ev)
    BY DEF VulnerabilityVerdict, ev
  <2>4. VulnerabilityVerdict(exit, covered, t) =
          IF ~(covered /\ t \in 1 .. 70 /\ (Faithful /\ grouped) /\ (exit = 1 <=> found))
          THEN "CONTRACT" ELSE IF blocked THEN "FINDING" ELSE "PASS"
    BY <1>7, <1>9, <2>2, <2>3
  <2> QED BY <1>9, <2>4 DEF found, grouped, blocked
<1> QED BY <1>8, <1>9

LEMMA LicenseExact ==
  ASSUME Expected, physical # <<>>, report \in Seq(Results(LicenseItems)),
         NEW exit \in Exits, NEW covered \in BOOLEAN, NEW a \in AllowLists
  PROVE  LET Denied(item) == Licenses(item) = {} \/ ~(Licenses(item) \subseteq ToSet(a))
             usable == /\ a # <<>> /\ Cardinality(ToSet(a)) = Len(a)
                       /\ ToSet(a) \cap (UnknownLicenses \cup {Untrimmed}) = {}
         IN  LicenseVerdict(exit, covered, a) =
                IF exit \notin {0, 1} THEN "INTERNAL"
                ELSE IF ~(covered /\ usable
                          /\ (Faithful /\ \A item \in Items(report) : Licensed(item))
                          /\ (exit = 1 <=> \/ \E item \in Items(report) : Advisories(item) # {}
                                           \/ \E item \in Items(report) : Denied(item)))
                     THEN "CONTRACT"
                ELSE IF \E item \in Items(report) : Denied(item) THEN "FINDING" ELSE "PASS"
<1> DEFINE Deny(item) == Licenses(item) = {} \/ ~(Licenses(item) \subseteq ToSet(a))
           usable == /\ a # <<>> /\ Cardinality(ToSet(a)) = Len(a)
                     /\ ToSet(a) \cap (UnknownLicenses \cup {Untrimmed}) = {}
           advised == \E item \in Items(report) : Advisories(item) # {}
           licensed == \A item \in Items(report) : Licensed(item)
           denied == \E item \in Items(report) : Deny(item)
           ev == evaluateOsvLicenses(report, exit, combinedExpectedInventory, a)
<1>1. \A item \in Items(report) : Member(item)
  BY ItemsTyped
<1>2. InventoryParity(report, combinedExpectedInventory) <=> Faithful
  BY ParityFaithful
<1>3. (\E item \in Items(report) : \/ ~VulnerabilitiesAccepted(item)
                                   \/ ~LicensesAccepted(item)
                                   \/ Untrimmed \in ToSet(licenseArray(item))) <=> ~licensed
  BY <1>1, LicensesExact
<1>4. PolicyAccepted(a) <=> usable
  <2>1. a \in Seq(STRING)
    BY ScanAssumption
  <2> QED BY <2>1, AllDifferCounted DEF PolicyAccepted
<1>5. ASSUME usable, licensed, NEW item \in Items(report)
      PROVE  (LicenseFound(item, a) <=> Deny(item))
               /\ (item.vulnerabilities # <<>> <=> Advisories(item) # {})
  <2>1. Member(item) /\ LicensesAccepted(item)
    BY <1>1, <1>5, LicensesExact
  <2> QED BY <1>5, <2>1, DeniedExact, AdvisedExact
<1>6. ASSUME usable, licensed
      PROVE  /\ (\E item \in Items(report) : LicenseFound(item, a)) <=> denied
             /\ (\E item \in Items(report) : item.vulnerabilities # <<>> \/ LicenseFound(item, a))
                    <=> advised \/ denied
  BY <1>5, <1>6
<1> HIDE DEF usable, advised, licensed, denied
<1>7. ASSUME exit \in {0, 1}
      PROVE  ev = IF ~(usable /\ Faithful /\ licensed /\ (exit = 1 <=> advised \/ denied))
                  THEN "CONTRACT" ELSE IF denied THEN "FINDING" ELSE "PASS"
  <2>1. usable /\ licensed =>
           (RawFindingConsistent(exit, \E item \in Items(report) :
                                    item.vulnerabilities # <<>> \/ LicenseFound(item, a))
               <=> (exit = 1 <=> advised \/ denied))
    BY <1>6, <1>7 DEF RawFindingConsistent
  <2>2. ControlledExit(exit)
    BY <1>7 DEF ControlledExit
  <2> HIDE DEF ev
  <2>3. ev = IF \/ ~PolicyAccepted(a)
                \/ ~InventoryParity(report, combinedExpectedInventory)
                \/ \E item \in Items(report) :
                      \/ ~VulnerabilitiesAccepted(item)
                      \/ ~LicensesAccepted(item)
                      \/ Untrimmed \in ToSet(licenseArray(item))
                \/ ~RawFindingConsistent(exit,
                        \E item \in Items(report) :
                            item.vulnerabilities # <<>> \/ LicenseFound(item, a))
             THEN "CONTRACT"
             ELSE IF \E item \in Items(report) : LicenseFound(item, a) THEN "FINDING" ELSE "PASS"
    BY <2>2 DEF ev, evaluateOsvLicenses
  <2> QED BY <1>2, <1>3, <1>4, <1>6, <2>1, <2>3
<1>8. CASE exit \notin {0, 1}
  BY <1>8 DEF LicenseVerdict, GateVerdict, ControlledExit
<1>9. CASE exit \in {0, 1}
  <2>1. ~Faithful => ev = "CONTRACT"
    BY <1>7, <1>9
  <2> HIDE DEF ev
  <2>2. GateVerdict(exit, covered, ev) = IF ~covered THEN "CONTRACT" ELSE ev
    BY <1>9, <2>1, GateExact
  <2>3. LicenseVerdict(exit, covered, a) = GateVerdict(exit, covered, ev)
    BY DEF LicenseVerdict, ev
  <2>4. LicenseVerdict(exit, covered, a) =
          IF ~(covered /\ usable /\ (Faithful /\ licensed) /\ (exit = 1 <=> advised \/ denied))
          THEN "CONTRACT" ELSE IF denied THEN "FINDING" ELSE "PASS"
    BY <1>7, <1>9, <2>2, <2>3
  <2> QED BY <1>9, <2>4 DEF usable, advised, licensed, denied
<1> QED BY <1>8, <1>9

\* The gate judges every vulnerability report of every lockfile right: INTERNAL for a
\* scanner that failed, CONTRACT unless the report accounts for the lockfile and go.mod,
\* and then FINDING exactly for an advisory at the threshold (policy.mjs 128-183).
THEOREM EveryVulnerabilityVerdict == Spec => []VulnerabilityVerdictExact
<1>1. ScanState => VulnerabilityVerdictExact
  <2> SUFFICES ASSUME ScanState, stage = "vulnerability", physical # <<>>
               PROVE  VulnerabilityVerdictExact
    BY DEF VulnerabilityVerdictExact, Scanning
  <2>1. Expected /\ report \in Seq(Results(VulnerabilityItems))
    BY DEF ScanState
  <2> QED BY <2>1, VulnerabilityExact DEF VulnerabilityVerdictExact
<1> QED BY <1>1, ScanInit, ScanNext, PTL DEF Spec

\* The gate judges every license report right: it passes exactly the reports that
\* account for the lockfile and go.mod and give every package a license, and only
\* allowed ones, whichever of the two places holds them (policy.mjs 185-266).
THEOREM EveryLicenseVerdict == Spec => []LicenseVerdictExact
<1>1. ScanState => LicenseVerdictExact
  <2> SUFFICES ASSUME ScanState, stage = "license" PROVE LicenseVerdictExact
    BY DEF LicenseVerdictExact
  <2>1. Expected /\ physical # <<>> /\ report \in Seq(Results(LicenseItems))
    BY DEF ScanState
  <2> QED BY <2>1, LicenseExact DEF LicenseVerdictExact
<1> QED BY <1>1, ScanInit, ScanNext, PTL DEF Spec
=============================================================================

--------------------------- MODULE ManifestReaders ---------------------------
(***************************************************************************)
(* The two reference readers of litertlm_manifest.json:                    *)
(* readers/ts/src/index.ts and readers/dart/lib/litertlm_manifest.dart.    *)
(* Each picks one of a repo's files and a backend for a device.  They are  *)
(* written twice and documented as identical; here both are translated     *)
(* apart where their code differs, and share a definition where it does    *)
(* not.                                                                    *)
(*                                                                         *)
(* An optional field or argument that is not given is Absent, a device     *)
(* class given as an empty string is Blank.  The requested backend and the  *)
(* platform are of closed types, never blank.  `reason`, `notes` and the    *)
(* capabilities are copied through and left out.                           *)
(***************************************************************************)
EXTENDS Naturals, Sequences, SequencesExt

CONSTANTS
  Absent,     \* undefined (TypeScript), null (Dart), no such key (JSON)
  Blank,      \* a device class that is an empty string
  Infinite,   \* more than any file's size
  Shift62     \* Dart's 1 << 62: Infinite in a native build, 0 compiled to JavaScript

ASSUME SizesAssumption == Infinite \in Nat /\ Shift62 \in {0, Infinite}

Or(x, y) == IF x = Absent THEN y ELSE x          \* ?? in both languages

\* s.find(...): what is at the first of the places I of s.
First(s, I) == IF I = {} THEN Absent ELSE s[Min(I)]

\* parseManifest / LitertlmManifest.fromJson: accepts, or throws.
Parses(m) ==
  /\ m # Absent
  /\ m.variants # <<>>
  /\ \A i \in DOMAIN m.variants : m.variants[i].backends \notin {Absent, <<>>}

\* Mutant: the file's own `repo` is kept.
StampOwn(m, repo, revision) ==
  [repo |-> m.repo, revision |-> revision, context |-> m.context, variants |-> m.variants]

\* The fetch source and revision replace what the file says of itself:
\* fetchManifest, and fromJson given sourceRepo and revision.
Stamp(m, repo, revision) ==
  [repo |-> repo, revision |-> revision, context |-> m.context, variants |-> m.variants]

----------------------------------------------------------------------------
\* What both readers say the same way.

Lists(v, b) == b \in ToSet(v.backends)

\* filter(...) leaves the places of what it keeps: candidates and
\* recommendations are known by their places.
Candidates(m, o) ==
  {i \in DOMAIN m.variants :
     /\ m.variants[i].backends # <<>>
     /\ o.backend = Absent \/ Lists(m.variants[i], o.backend)}

\* Mutant: recommendations count on backends the file is not verified on.
RecsUnverified(v, o) ==
  {i \in DOMAIN v.recommended :
     LET r == v.recommended[i]
     IN /\ o.platform # Absent /\ r.platform = o.platform
        /\ o.backend = Absent \/ r.backend = o.backend}

Recs(v, o) ==
  {i \in DOMAIN v.recommended :
     LET r == v.recommended[i]
     IN /\ o.platform # Absent /\ r.platform = o.platform
        /\ Lists(v, r.backend)
        /\ o.backend = Absent \/ r.backend = o.backend}

Home(v) ==
  IF v.default # Absent /\ Lists(v, v.default) THEN v.default ELSE v.backends[1]

Score(v, o, classRec, rec) ==
  [variant |-> v,
   score   |-> IF rec = Absent THEN 0 ELSE IF classRec # Absent THEN 300 ELSE 200,
   backend |-> Or(o.backend, IF rec # Absent THEN rec.backend ELSE Home(v))]

\* The head of the sorted list; a file without a size counts as `none`.
\* Array.sort is stable, and so is the insertion sort Dart's List.sort uses up
\* to 32 elements: the first of equals.
Before(scored, none, i, j) ==
  LET size(k) == Or(scored[k].variant.size, none)
  IN \/ scored[i].score > scored[j].score
     \/ /\ scored[i].score = scored[j].score
        /\ size(i) < size(j) \/ (size(i) = size(j) /\ i <= j)

Best(scored, none) ==
  scored[CHOOSE i \in DOMAIN scored : \A j \in DOMAIN scored : Before(scored, none, i, j)]

Resolution(m, o, best) ==
  [file |-> best.variant.file, variant |-> best.variant, backend |-> best.backend,
   context |-> m.context,
   repo |-> m.repo, revision |-> Or(o.revision, m.revision)]

----------------------------------------------------------------------------
\* TypeScript: `!x` and `x ? :` take an empty string for absent.

Falsy(x) == x \in {Absent, Blank}

TsScored(v, o) ==
  LET recs      == Recs(v, o)
      class(i)  == v.recommended[i].class
      classRec  == First(v.recommended, {i \in recs : ~Falsy(o.class) /\ class(i) = o.class})
      classFree == First(v.recommended, {i \in recs : Falsy(class(i)) \/ Falsy(o.class)})
  IN Score(v, o, classRec, Or(classRec, Or(classFree, First(v.recommended, recs))))

TsResolve(m, o) ==
  LET cs == Candidates(m, o) IN
  IF cs = {} THEN Absent
  ELSE Resolution(m, o, Best([i \in cs |-> TsScored(m.variants[i], o)], Infinite))

----------------------------------------------------------------------------
\* Dart: only null is absent.

\* Mutant: without an entry for the class, the first one wins.
DartScoredFirst(v, o) ==
  LET recs     == Recs(v, o)
      class(i) == v.recommended[i].class
      classRec == First(v.recommended, {i \in recs : o.class # Absent /\ class(i) = o.class})
  IN Score(v, o, classRec, Or(classRec, First(v.recommended, recs)))

DartScored(v, o) ==
  LET recs      == Recs(v, o)
      class(i)  == v.recommended[i].class
      classRec  == First(v.recommended, {i \in recs : o.class # Absent /\ class(i) = o.class})
      classFree == First(v.recommended, {i \in recs : class(i) = Absent \/ o.class = Absent})
  IN Score(v, o, classRec, Or(classRec, Or(classFree, First(v.recommended, recs))))

DartResolve(m, o) ==
  LET cs == Candidates(m, o) IN
  IF cs = {} THEN Absent
  ELSE Resolution(m, o, Best([i \in cs |-> DartScored(m.variants[i], o)], Shift62))
=============================================================================

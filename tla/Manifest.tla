------------------------------ MODULE Manifest ------------------------------
(***************************************************************************)
(* A deployment manifest from its making to a device: manifest/            *)
(* make_manifest.py describes a Hub repo's bundles, a person uploads       *)
(* bundles and manifest, somebody forks the repo, and an app fetches the   *)
(* manifest with one of the reference readers, resolves its device and     *)
(* downloads the file.                                                     *)
(*                                                                         *)
(* The generator reads the repo's file list first (hash and size), then of *)
(* each bundle the section table and, at the place it gives, the metadata: *)
(* the repo may change between any two requests.  (A table over 4 KB is    *)
(* requested again, whole: that second request is the one modelled.)  A     *)
(* bundle is known by its build number, and what its metadata says is a    *)
(* function of that (SizeOf, ContextOf, ControlOf).  --public only strips   *)
(* fields; the warnings change nothing.                                    *)
(***************************************************************************)
EXTENDS ManifestReaders

CONSTANTS
  ByName,      \* the bundles' file names, sorted
  Repos,       \* "origin" and its fork
  Curateds,    \* the curated files the publisher may have
  HandMade,    \* manifests written by hand that may already be in the repo
  SizeOf, ContextOf, ControlOf,    \* [file -> [build -> ...]]
  Options,     \* what an app may ask
  MaxCommits   \* bound: commits of the origin

Files == ToSet(ByName)
Builds == {1, 2}
Main == 0                 \* the revision "main"; k > 0 is the k-th commit

FileSizes == 0..(Infinite - 1)
Backends == {"cpu", "gpu", "npu"}
Recommendations == [platform : STRING, class : STRING \cup {Absent, Blank}, backend : Backends]

\* What a person says of a file, and what a manifest does.
CuratedVariants ==
  [file : STRING, backends : Seq(Backends) \cup {Absent}, default : Backends \cup {Absent},
   recommended : Seq(Recommendations)]
Variants ==
  [file : Files, sha256 : Builds, size : FileSizes \cup {Absent}, context : Nat, control : STRING,
   backends : Seq(Backends) \cup {Absent}, default : Backends \cup {Absent},
   recommended : Seq(Recommendations)]
Resolutions ==
  [file : Files, variant : Variants, backend : Backends, context : Nat \cup {Absent},
   repo : Repos, revision : Nat]
Fetched ==
  [repo : Repos, revision : Nat, context : Nat \cup {Absent}, variants : Seq(Variants)]

\* A list that names each file once.
OncePerFile(s) == \A i, j \in DOMAIN s : s[i].file = s[j].file => i = j
Manifests ==
  {m \in [repo : Repos, context : Nat \cup {Absent}, variants : Seq(Variants)] : OncePerFile(m.variants)}

\* What is written by hand is well formed, and right about the bundles.
ASSUME ManifestAssumption ==
  /\ MaxCommits \in Nat \ {0}
  /\ {"origin", "fork"} \subseteq Repos
  /\ ByName \in Seq(STRING)
  /\ \A i, j \in DOMAIN ByName : ByName[i] = ByName[j] => i = j
  /\ \A f \in Files, b \in Builds :
       SizeOf[f][b] \in FileSizes /\ ContextOf[f][b] \in Nat /\ ControlOf[f][b] \in STRING
  /\ \A c \in Curateds : c \in Seq(CuratedVariants) /\ OncePerFile(c)
  /\ \A m \in HandMade :
       /\ m \in Manifests
       /\ \A i \in DOMAIN m.variants :
            LET v == m.variants[i] IN v.context = ContextOf[v.file][v.sha256]
  /\ \A o \in Options :
       o \in [platform : STRING \cup {Absent}, class : STRING \cup {Absent, Blank},
              backend : Backends \cup {Absent}, revision : Nat \cup {Absent}]

\* What is absent is nothing else.
ASSUME AbsentAssumption ==
  /\ Absent \notin Nat /\ Absent \notin STRING /\ Absent \notin Backends
  /\ Absent \notin Recommendations /\ Absent \notin Fetched /\ Absent \notin Resolutions

VARIABLES
  hub,        \* each repo: its commits; <<>> when it does not exist
  built,      \* the newest build of each file on the publisher's disk
  curated,    \* manifest/curated/<repo>.json: its variants in their order
  maker,      \* the run of make_manifest.py
  out,        \* the manifest it wrote, not uploaded yet
  app         \* the app and its reader

vars == <<hub, built, curated, maker, out, app>>

Commit(files, manifest) == [files |-> files, manifest |-> manifest]
HeadOf(repo) == Last(hub[repo])
Idle == [at |-> "idle"]

----------------------------------------------------------------------------
(* make_manifest.py *)

CuratedFiles == {curated[i].file : i \in DOMAIN curated}

\* The curated file's variants as it lists them, then all of the repo's by name.
Listing == [i \in DOMAIN curated |-> curated[i].file] \o ByName

\* Mutant: the others are all of the repo's files.
OrderAll(files) == {i \in DOMAIN Listing : Listing[i] \in files}

\* The places in that listing to describe, in their order: a curated file
\* stands at its first.
Order(files) ==
  {i \in DOMAIN Listing : /\ Listing[i] \in files
                          /\ i > Len(curated) => Listing[i] \notin CuratedFiles}

\* main up to the loop.  It exits, nothing written, unless the repo has
\* bundles and every curated one is there.
StartMaker(local, onlyCurated, noHub) ==
  LET tree   == IF noHub THEN [f \in Files |-> IF f \in local THEN built[f] ELSE Absent]
                         ELSE HeadOf("origin").files
      listed == {f \in Files : tree[f] # Absent}
      files  == IF onlyCurated THEN listed \cap CuratedFiles ELSE listed
  IN /\ maker = Idle /\ out = Absent
     /\ noHub => local # {}
     /\ listed # {}
     /\ CuratedFiles \subseteq listed
     /\ maker' = [at |-> "describe", tree |-> tree, local |-> local,
                  rest |-> Order(files), table |-> Absent, variants |-> <<>>]
     /\ UNCHANGED <<hub, built, curated, out, app>>

\* Mutant: the file list's, local copy or not.
IdentityListed(f) == IF maker.tree[f] = Absent THEN built[f] ELSE maker.tree[f]

\* Hash and size: the file list's, or the local copy's.
Identity(f) == IF f \in maker.local THEN built[f] ELSE maker.tree[f]

\* What a request for the bundle's bytes reads now: the repo's, or the local copy.
Header(f) == IF f \in maker.local THEN built[f] ELSE HeadOf("origin").files[f]

\* v.update(cv): what the curated file gives; nothing for a file it leaves out.
CuratedOf(f) ==
  IF f \in CuratedFiles THEN First(curated, {i \in DOMAIN curated : curated[i].file = f})
  ELSE [backends |-> Absent, default |-> Absent, recommended |-> <<>>]

\* One round of the loop is for the first of the places left.
Place == Min(maker.rest)
Describing == maker.at = "describe" /\ maker.rest # {}

\* parse_bundle_header's section table.
ReadTable ==
  /\ Describing /\ maker.table = Absent
  /\ maker' = [maker EXCEPT !.table = Header(Listing[Place])]
  /\ UNCHANGED <<hub, built, curated, out, app>>

\* Its metadata, at the table's place.  In another build than the table's that
\* place may hold all of the metadata, or bytes that parse without the context
\* length (0).
ContextsRead(f) ==
  {ContextOf[f][Header(f)]} \cup {c \in {0} : maker.table # Header(f)}

Describe ==
  LET f  == Listing[Place]
      cv == CuratedOf(f)
      v(context) ==
        [file |-> f, sha256 |-> Identity(f), size |-> SizeOf[f][Identity(f)],
         backends |-> cv.backends, default |-> cv.default, recommended |-> cv.recommended,
         context |-> context, control |-> ControlOf[f][Header(f)]]
  IN /\ Describing /\ maker.table # Absent
     /\ \E context \in ContextsRead(f) :
          maker' = [maker EXCEPT !.rest = @ \ {Place}, !.table = Absent,
                                 !.variants = Append(@, v(context))]
     /\ UNCHANGED <<hub, built, curated, out, app>>

Described == maker.at = "describe" /\ maker.rest = {}

\* model_thinking_control: one answer, or the generator stops.
ControlsAgree == \A i, j \in DOMAIN maker.variants : maker.variants[i].control = maker.variants[j].control

\* jsonschema.validate, when it is installed.
Valid(variants) == variants # <<>> /\ \A i \in DOMAIN variants : variants[i].backends # Absent

MakerEnds(written) ==
  /\ maker' = Idle
  /\ out' = written
  /\ UNCHANGED <<hub, built, curated, app>>

\* The bytes at that place do not parse: the generator dies.
Garbled ==
  /\ Describing /\ maker.table \notin {Absent, Header(Listing[Place])}
  /\ MakerEnds(Absent)

Write(installed) ==
  /\ Described /\ ControlsAgree
  /\ installed => Valid(maker.variants)
  /\ MakerEnds([repo |-> "origin", variants |-> maker.variants,
                context |-> IF maker.variants = <<>> THEN Absent ELSE maker.variants[1].context])

GiveUp(installed) ==
  /\ Described
  /\ ~ControlsAgree \/ (installed /\ ~Valid(maker.variants))
  /\ MakerEnds(Absent)

----------------------------------------------------------------------------
(* The people: the publisher, who may upload at any time, and a forker *)

Push(repo, commit) == hub' = [hub EXCEPT ![repo] = Append(@, commit)]

\* The newest build, or an earlier one put back.
UploadBundle(f) ==
  /\ Len(hub["origin"]) < MaxCommits
  /\ \E b \in 1..built[f] :
       /\ b # HeadOf("origin").files[f]
       /\ Push("origin", [HeadOf("origin") EXCEPT !.files[f] = b])
  /\ UNCHANGED <<built, curated, maker, out, app>>

UploadManifest ==
  /\ Len(hub["origin"]) < MaxCommits
  /\ out # Absent
  /\ Push("origin", [HeadOf("origin") EXCEPT !.manifest = out])
  /\ out' = Absent
  /\ UNCHANGED <<built, curated, maker, app>>

\* Duplicating a repo that has been worked on.
Fork ==
  /\ hub["fork"] = <<>>
  /\ Len(hub["origin"]) > 1
  /\ Push("fork", HeadOf("origin"))
  /\ UNCHANGED <<built, curated, maker, out, app>>

----------------------------------------------------------------------------
(* The app *)

CommitAt(repo, revision) == IF revision = Main THEN Len(hub[repo]) ELSE revision
At(repo, revision) == hub[repo][CommitAt(repo, revision)]

\* fetchManifest, or the app's own request and fromJson.  It throws, and the
\* app is where it was, when there is no manifest or it does not parse.
\* `commit` is history: what the revision stood for.
Fetch(reader, repo, revision) ==
  /\ app = Idle
  /\ hub[repo] # <<>> /\ revision <= Len(hub[repo])
  /\ LET m == At(repo, revision).manifest IN
       /\ Parses(m)
       /\ app' = [at |-> "fetched", reader |-> reader, source |-> repo, revision |-> revision,
                  commit |-> CommitAt(repo, revision), manifest |-> Stamp(m, repo, revision),
                  asked |-> Absent, answer |-> Absent, got |-> Absent]
  /\ UNCHANGED <<hub, built, curated, maker, out>>

Resolve(o) ==
  /\ app.at = "fetched"
  /\ app' = [app EXCEPT !.at = "resolved", !.asked = o,
                           !.answer = IF app.reader = "ts" THEN TsResolve(app.manifest, o)
                                      ELSE DartResolve(app.manifest, o)]
  /\ UNCHANGED <<hub, built, curated, maker, out>>

\* What is behind a url now: a build, or a 404 (Absent) when the repo has no
\* such revision or the revision no such file.
Behind(url) ==
  IF url.revision <= Len(hub[url.repo]) THEN At(url.repo, url.revision).files[url.file] ELSE Absent

Download ==
  /\ app.at = "resolved" /\ app.answer # Absent
  /\ app' = [app EXCEPT !.at = "downloaded", !.got = Behind(app.answer)]
  /\ UNCHANGED <<hub, built, curated, maker, out>>

----------------------------------------------------------------------------
\* Either a repo without a manifest and a publisher about to describe it, with
\* some bundles rebuilt, some not uploaded yet; or one described by hand.
Init ==
  /\ maker = Idle /\ out = Absent /\ app = Idle
  /\ \/ \E first \in [Files -> {1, Absent}] :
          /\ hub = [r \in Repos |-> IF r = "origin" THEN <<Commit(first, Absent)>> ELSE <<>>]
          /\ built \in {b \in [Files -> Builds] : \A f \in Files : first[f] = Absent => b[f] = 2}
          /\ curated \in Curateds
     \/ \E m \in HandMade :
          /\ hub = [r \in Repos |-> IF r = "origin" THEN <<Commit([f \in Files |-> 1], m)>> ELSE <<>>]
          /\ built = [f \in Files |-> 1]
          /\ curated = <<>>

\* The publisher makes a manifest of a repo that has none.
MakerSteps ==
  \/ /\ HeadOf("origin").manifest = Absent
     /\ \E local \in SUBSET {f \in Files : built[f] = 2}, onlyCurated, noHub \in BOOLEAN :
          StartMaker(local, onlyCurated, noHub)
  \/ ReadTable
  \/ Describe
  \/ Garbled
  \/ \E installed \in BOOLEAN : Write(installed) \/ GiveUp(installed)

Next ==
  \/ MakerSteps
  \/ \E f \in Files : UploadBundle(f)
  \/ UploadManifest
  \/ Fork
  \/ \E reader \in {"ts", "dart"}, repo \in Repos, revision \in 0..MaxCommits :
       Fetch(reader, repo, revision)
  \/ \E o \in Options : Resolve(o)
  \/ Download

Spec == Init /\ [][Next]_vars

----------------------------------------------------------------------------
(* Properties *)

Commits == [files : [Files -> Builds \cup {Absent}], manifest : Manifests \cup {Absent}]
Makers ==
  [at : {"describe"}, tree : [Files -> Builds \cup {Absent}], local : SUBSET Files,
   rest : SUBSET DOMAIN Listing, table : Builds \cup {Absent}, variants : Seq(Variants)]
Stamped == {m \in Fetched : OncePerFile(m.variants) /\ Parses(m)}
Apps ==
  [at : {"fetched", "resolved", "downloaded"}, reader : {"ts", "dart"}, source : Repos,
   revision : Nat, commit : Nat, manifest : Stamped, asked : Options \cup {Absent},
   answer : Resolutions \cup {Absent}, got : Builds \cup {Absent}]

\* Types: every manifest written names each file once, an app only holds one
\* that parses, and a resolution is complete.
TypeOK ==
  /\ hub \in [Repos -> Seq(Commits)]
  /\ built \in [Files -> Builds]
  /\ curated \in Curateds \cup {<<>>}
  /\ maker \in Makers \cup {Idle}
  /\ out \in Manifests \cup {Absent}
  /\ app \in Apps \cup {Idle}

Resolved == app.at \in {"resolved", "downloaded"}

\* No empty device class is written in the recommendations of a list.
PlainList(s) ==
  \A i \in DOMAIN s : \A k \in DOMAIN s[i].recommended : s[i].recommended[k].class # Blank

\* The circumstances under which the readers say the same: nobody writes or
\* asks for an empty device class, and Dart's 1 << 62 is what it says.
Plain ==
  /\ Shift62 = Infinite
  /\ \A o \in Options : o.class # Blank
  /\ \A c \in Curateds : PlainList(c)
  /\ \A m \in HandMade : PlainList(m.variants)

\* readers/README.md:61, litertlm_manifest.dart:214-215: the two readers,
\* written apart, give the same file, backend and url for every manifest and
\* every request.
ReadersAgree == Resolved => TsResolve(app.manifest, app.asked) = DartResolve(app.manifest, app.asked)

\* The recommendations of v that count for a request.
Counting(v, o) ==
  {r \in ToSet(v.recommended) : /\ r.platform = o.platform
                                /\ r.backend \in ToSet(v.backends)
                                /\ o.backend \in {Absent, r.backend}}
ForClass(v, o) == {r \in Counting(v, o) : o.class # Absent /\ r.class = o.class}
ClassFree(v, o) == {r \in Counting(v, o) : o.class # Absent /\ r.class = Absent}
Rank(v, o) == IF ForClass(v, o) # {} THEN 2 ELSE IF Counting(v, o) # {} THEN 1 ELSE 0
Able(o) == {v \in ToSet(app.manifest.variants) : o.backend = Absent \/ o.backend \in ToSet(v.backends)}

\* readers/README.md:61-69: a requested backend is a filter and null is the
\* only other answer; a recommendation for the platform beats none, one for
\* the device class beats that, the smaller file wins a tie; the backend is
\* listed, and one of those the most specific recommendations name.
KeepsToRules ==
  Resolved =>
    LET o == app.asked
        a == app.answer
        v == a.variant
    IN \/ a = Absent /\ Able(o) = {}
       \/ /\ a # Absent /\ v \in Able(o)
          /\ a.backend \in ToSet(v.backends) /\ o.backend \in {Absent, a.backend}
          /\ \A w \in Able(o) :
               \/ Rank(v, o) > Rank(w, o)
               \/ Rank(v, o) = Rank(w, o) /\ (w.size = Absent \/ (v.size # Absent /\ v.size <= w.size))
          /\ LET most == IF ForClass(v, o) # {} THEN ForClass(v, o)
                         ELSE IF ClassFree(v, o) # {} THEN ClassFree(v, o) ELSE Counting(v, o)
             IN most # {} => \E r \in most : r.backend = a.backend

\* No upload put an earlier build back over a file's newest.
NothingPutBack ==
  \A r \in Repos : \A i, j \in DOMAIN hub[r] : i <= j =>
    \A f \in Files : hub[r][i].files[f] = built[f] => hub[r][j].files[f] = built[f]

\* The request keeps to the revision fetched, or asks for one no older.
AskedNoOlder ==
  app.asked.revision \in {Absent, Main} \/ app.asked.revision >= app.commit

\* SCHEMA.md:147 "verify after download": whatever was uploaded while the
\* generator ran, a downloaded file with the hash the manifest gives is the
\* one whose header it describes; unless a build was put back, or the request
\* overrides the revision with one before the manifest's.
VerifiedMeansDescribed ==
  app.at = "downloaded" /\ app.got = app.answer.variant.sha256 /\ NothingPutBack /\ AskedNoOlder =>
    app.answer.variant.context = ContextOf[app.answer.file][app.got]

\* A manifest fetched at a pinned commit that describes that commit's files
\* leads to them: the url keeps to the repo and the commit of the fetch, of a
\* fork too, whatever is uploaded meanwhile.
Coherent(commit) ==
  \A i \in DOMAIN commit.manifest.variants :
    commit.files[commit.manifest.variants[i].file] = commit.manifest.variants[i].sha256

PinnedGetsDescribed ==
  /\ app.at = "downloaded" /\ app.revision # Main /\ app.asked.revision = Absent
  /\ Coherent(hub[app.source][app.revision])
  => app.got = app.answer.variant.sha256

----------------------------------------------------------------------------
(* Statements the code does not keep; no configuration lists them *)

\* SCHEMA.md:147 without the two conditions.  A listed build whose header was
\* read after the next one's upload is there again when it is put back, and
\* for a request that overrides the revision (readers/README.md:67) with the
\* commit it was in: its hash verifies what is not described.
AnyVerifiedIsDescribed ==
  app.at = "downloaded" /\ app.got = app.answer.variant.sha256 =>
    app.answer.variant.context = ContextOf[app.answer.file][app.got]

\* SCHEMA.md:141, make_manifest.py:382: the curated file's first variant is
\* the default a reader takes.  Both readers take the smallest.
FirstIsDefault ==
  Resolved /\ app.asked.platform = Absent /\ app.asked.backend = Absent =>
    app.answer.variant = app.manifest.variants[1]

\* SCHEMA.md:148: files of one model can differ in context length.  A
\* resolution's contextLength is the first variant's, whatever file it names.
ContextIsTheFiles ==
  Resolved /\ app.answer # Absent => app.answer.context = app.answer.variant.context
=============================================================================

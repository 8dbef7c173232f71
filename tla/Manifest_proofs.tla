--------------------------- MODULE Manifest_proofs ---------------------------
(***************************************************************************)
(* For any repos, bundles, curated files, hand-written manifests, requests *)
(* and number of commits.  Without empty device classes and in a native    *)
(* Dart build the two readers agree and keep to their rules; as long as no *)
(* build is put back and nobody asks for a revision older than the         *)
(* manifest's, a verified download is the file the manifest describes,     *)
(* whatever is uploaded meanwhile; and a manifest fetched at a commit      *)
(* leads to that commit.                                                   *)
(***************************************************************************)
EXTENDS Manifest, FiniteSetTheorems, SequenceTheorems, WellFoundedInduction, TLAPS

(* Least numbers *)

\* A set of naturals has a least element: intervals are well-founded.
LEMMA Least ==
  ASSUME NEW S \in SUBSET Nat, S # {}
  PROVE  \E m \in S : \A k \in S : m <= k
<1> DEFINE R == StrictSubsetOrdering(Nat)
           Upto == {0..k : k \in S}
<1>1. IsWellFoundedOn(R, FiniteSubsetsOf(Nat))
  BY FS_StrictSubsetOrderingWellFounded
<1>2. Upto \subseteq FiniteSubsetsOf(Nat) /\ Upto # {}
  <2>1. \A k \in S : 0..k \in SUBSET Nat /\ IsFiniteSet(0..k)
    BY FS_Interval
  <2>2. \A k \in S : 0..k \in FiniteSubsetsOf(Nat)
    BY <2>1 DEF FiniteSubsetsOf
  <2> QED
    BY <2>2
<1>3. PICK x \in Upto : \A y \in Upto : <<y, x>> \notin R
  <2> HIDE DEF R, Upto
  <2> QED BY <1>1, <1>2, WFMin
<1>4. PICK m \in S : x = 0..m
  OBVIOUS
<1>5. ASSUME NEW k \in S, k < m PROVE FALSE
  <2>1. (0..k) \in SUBSET Nat /\ (0..m) \in SUBSET Nat /\ 0..k \subseteq 0..m
    BY <1>5
  <2>2. m \in 0..m /\ m \notin 0..k
    BY <1>5
  <2>3. 0..k # 0..m
    BY <2>2
  <2>4. <<0..k, 0..m>> \in R
    BY <2>1, <2>3 DEF StrictSubsetOrdering
  <2> QED
    BY <1>3, <1>4, <2>4
<1> QED
  BY <1>5

LEMMA MinFacts ==
  ASSUME NEW S \in SUBSET Nat, S # {}
  PROVE  Min(S) \in S /\ \A k \in S : Min(S) <= k
<1>1. PICK m \in S : \A k \in S : m <= k
  BY Least
<1> QED BY <1>1 DEF Min

\* One of a set's elements has the least value of a function.
LEMMA LeastValue ==
  ASSUME NEW D, D # {}, NEW f, \A i \in D : f[i] \in Nat
  PROVE  \E a \in D : \A j \in D : f[a] <= f[j]
<1> DEFINE S == {f[i] : i \in D}
<1>1. S \in SUBSET Nat /\ S # {}
  OBVIOUS
<1>2. PICK m \in S : \A k \in S : m <= k
  <2> HIDE DEF S
  <2> QED BY <1>1, Least
<1> QED BY <1>2

-----------------------------------------------------------------------------
(* The readers' operators *)

\* find gives what is at one of the places, or Absent when there is none.
LEMMA FirstFacts ==
  ASSUME NEW s, NEW I \in SUBSET Nat
  PROVE  /\ I = {} => First(s, I) = Absent
         /\ I # {} => \E i \in I : First(s, I) = s[i]
<1>1. CASE I = {}
  BY <1>1 DEF First
<1>2. CASE I # {}
  <2>1. Min(I) \in I
    BY <1>2, MinFacts
  <2> QED BY <1>2, <2>1 DEF First
<1> QED BY <1>1, <1>2

\* The sorted list has a head: one that no other comes before.
LEMMA BestFacts ==
  ASSUME NEW D \in SUBSET Nat, D # {}, NEW scored, DOMAIN scored = D, NEW none,
         \A i \in D : scored[i].score \in 0..300 /\ Or(scored[i].variant.size, none) \in Nat
  PROVE  \E i \in D : Best(scored, none) = scored[i] /\ \A j \in D : Before(scored, none, i, j)
<1> DEFINE short == [i \in D |-> 300 - scored[i].score]
           size  == [i \in D |-> Or(scored[i].variant.size, none)]
           place == [i \in D |-> i]
<1>1. ASSUME NEW i \in D
      PROVE  short[i] \in Nat /\ size[i] \in Nat /\ place[i] \in Nat /\ scored[i].score \in Nat
  <2>1. scored[i].score \in 0..300
    OBVIOUS
  <2>2. scored[i].score \in Nat /\ 300 - scored[i].score \in Nat
    BY <2>1
  <2>3. i \in Nat
    OBVIOUS
  <2> QED BY <2>2, <2>3
<1>2. \A i, j \in D : /\ short[i] < short[j] => scored[i].score > scored[j].score
                      /\ short[i] = short[j] => scored[i].score = scored[j].score
  BY <1>1
<1>3. \A i, j \in D :
        Before(scored, none, i, j) <=>
          \/ scored[i].score > scored[j].score
          \/ /\ scored[i].score = scored[j].score
             /\ size[i] < size[j] \/ (size[i] = size[j] /\ place[i] <= place[j])
  BY DEF Before
<1> HIDE DEF short, size, place
<1>4. PICK a \in D : \A j \in D : short[a] <= short[j]
  BY <1>1, LeastValue
<1> DEFINE T == {i \in D : short[i] = short[a]}
<1>5. PICK b \in T : \A j \in T : size[b] <= size[j]
  BY <1>1, LeastValue
<1> DEFINE U == {i \in T : size[i] = size[b]}
<1>6. PICK c \in U : \A j \in U : place[c] <= place[j]
  BY <1>1, LeastValue
<1>7. ASSUME NEW j \in D PROVE Before(scored, none, c, j)
  <2>1. CASE j \notin T
    <3>1. short[c] < short[j]
      BY <1>1, <1>4, <2>1
    <3> QED BY <1>2, <1>3, <3>1
  <2>2. CASE j \in T /\ j \notin U
    <3>1. short[c] = short[j] /\ size[c] < size[j]
      BY <1>1, <1>5, <2>2
    <3> QED BY <1>2, <1>3, <3>1
  <2>3. CASE j \in U
    <3>1. short[c] = short[j] /\ size[c] = size[j] /\ place[c] <= place[j]
      BY <1>6, <2>3
    <3> QED BY <1>2, <1>3, <3>1
  <2> QED BY <2>1, <2>2, <2>3
<1>8. c \in D
  OBVIOUS
<1> QED BY <1>7, <1>8 DEF Best

\* What the recommendations of a variant are for a request.
LEMMA RecsFacts ==
  ASSUME NEW v \in Variants, NEW o
  PROVE  /\ Recs(v, o) \in SUBSET Nat
         /\ \A i \in Recs(v, o) :
              /\ i \in DOMAIN v.recommended /\ v.recommended[i] \in Recommendations
              /\ v.recommended[i] # Absent
              /\ v.recommended[i].platform = o.platform /\ o.platform # Absent
              /\ v.recommended[i].backend \in ToSet(v.backends)
              /\ o.backend \in {Absent, v.recommended[i].backend}
<1>1. v.recommended \in Seq(Recommendations)
  BY DEF Variants
<1>2. \A i \in DOMAIN v.recommended : i \in Nat /\ v.recommended[i] \in Recommendations
  BY <1>1
<1> QED BY <1>2, AbsentAssumption DEF Recs, Lists
\* What a variant scores, however its recommendation was found.
LEMMA ScoreFacts ==
  ASSUME NEW v, NEW o, NEW c, NEW r
  PROVE  /\ Score(v, o, c, r).variant = v /\ Score(v, o, c, r).score \in {0, 200, 300}
         /\ Score(v, o, c, r).score = IF r = Absent THEN 0 ELSE IF c # Absent THEN 300 ELSE 200
         /\ Score(v, o, c, r).backend = Or(o.backend, IF r # Absent THEN r.backend ELSE Home(v))
BY DEF Score

\* A manifest an app may hold and a request it may make.
LEMMA RequestFacts ==
  ASSUME NEW m \in Stamped, NEW o \in Options
  PROVE  /\ m.variants \in Seq(Variants) /\ m.variants # <<>> /\ OncePerFile(m.variants)
         /\ m.repo \in Repos /\ m.revision \in Nat /\ m.context \in Nat \cup {Absent}
         /\ \A i \in DOMAIN m.variants :
              /\ i \in Nat /\ m.variants[i] \in Variants
              /\ m.variants[i].backends \in Seq(Backends) /\ m.variants[i].backends # <<>>
         /\ o.platform \in STRING \cup {Absent} /\ o.class \in STRING \cup {Absent, Blank}
         /\ o.backend \in Backends \cup {Absent} /\ o.revision \in Nat \cup {Absent}
<1>1. /\ m.variants \in Seq(Variants) /\ m.variants # <<>> /\ OncePerFile(m.variants)
      /\ m.repo \in Repos /\ m.revision \in Nat /\ m.context \in Nat \cup {Absent}
      /\ \A i \in DOMAIN m.variants : m.variants[i].backends \notin {Absent, <<>>}
  BY DEF Stamped, Fetched, Parses
<1>2. \A i \in DOMAIN m.variants : i \in Nat /\ m.variants[i] \in Variants
  BY <1>1
<1>3. \A i \in DOMAIN m.variants :
        m.variants[i].backends \in Seq(Backends) /\ m.variants[i].backends # <<>>
  <2>1. \A v \in Variants : v.backends \in Seq(Backends) \cup {Absent}
    BY DEF Variants
  <2> QED BY <1>1, <1>2, <2>1
<1>4. o \in [platform : STRING \cup {Absent}, class : STRING \cup {Absent, Blank},
             backend : Backends \cup {Absent}, revision : Nat \cup {Absent}]
  BY ManifestAssumption
<1> QED BY <1>1, <1>2, <1>3, <1>4

\* The candidates are places of the manifest whose variants list the backend.
LEMMA CandidateFacts ==
  ASSUME NEW m \in Stamped, NEW o \in Options
  PROVE  /\ Candidates(m, o) \in SUBSET Nat /\ Candidates(m, o) \subseteq DOMAIN m.variants
         /\ \A i \in DOMAIN m.variants :
              i \in Candidates(m, o)
                <=> o.backend = Absent \/ o.backend \in ToSet(m.variants[i].backends)
BY RequestFacts DEF Candidates, Lists
\* The recommendation taken: of the places I, else of J, else the first.
Taken(v, o, I, J) ==
  Or(First(v.recommended, I), Or(First(v.recommended, J), First(v.recommended, Recs(v, o))))

LEMMA TakenFacts ==
  ASSUME NEW v \in Variants, NEW o, NEW I \in SUBSET Recs(v, o), NEW J \in SUBSET Recs(v, o)
  PROVE  /\ First(v.recommended, I) = Absent <=> I = {}
         /\ Taken(v, o, I, J) = Absent <=> Recs(v, o) = {}
         /\ Recs(v, o) # {} =>
              \E i \in (IF I # {} THEN I ELSE IF J # {} THEN J ELSE Recs(v, o)) :
                Taken(v, o, I, J) = v.recommended[i]
<1> DEFINE K == Recs(v, o)
<1>1. \A i \in K : v.recommended[i] # Absent /\ i \in Nat
  BY RecsFacts
<1>2. /\ I = {} => First(v.recommended, I) = Absent
      /\ I # {} => \E i \in I : First(v.recommended, I) = v.recommended[i]
  BY <1>1, FirstFacts
<1>3. /\ J = {} => First(v.recommended, J) = Absent
      /\ J # {} => \E i \in J : First(v.recommended, J) = v.recommended[i]
  BY <1>1, FirstFacts
<1>4. /\ K = {} => First(v.recommended, K) = Absent
      /\ K # {} => \E i \in K : First(v.recommended, K) = v.recommended[i]
  BY <1>1, FirstFacts
<1>5. First(v.recommended, I) = Absent <=> I = {}
  BY <1>1, <1>2
<1>6. CASE I # {}
  BY <1>1, <1>2, <1>5, <1>6 DEF Or, Taken
<1>7. CASE I = {} /\ J # {}
  BY <1>1, <1>3, <1>5, <1>7 DEF Or, Taken
<1>8. CASE I = {} /\ J = {}
  BY <1>1, <1>4, <1>5, <1>3, <1>8 DEF Or, Taken
<1> QED BY <1>5, <1>6, <1>7, <1>8

\* The backend a variant is taken on: listed, and the one asked for.
LEMMA BackendFacts ==
  ASSUME NEW v \in Variants, v.backends \in Seq(Backends), v.backends # <<>>, NEW o,
         o.backend = Absent \/ o.backend \in ToSet(v.backends),
         NEW c, NEW r,
         r = Absent \/ \E i \in Recs(v, o) : r = v.recommended[i]
  PROVE  LET b == Score(v, o, c, r).backend
         IN b \in ToSet(v.backends) /\ b \in Backends /\ o.backend \in {Absent, b}
<1>1. \A b \in ToSet(v.backends) : b \in Backends
  BY DEF ToSet
<1>2. Home(v) \in ToSet(v.backends)
  <2>1. v.backends[1] \in ToSet(v.backends)
    BY DEF ToSet
  <2> QED BY <2>1 DEF Home, Lists
<1>3. r # Absent => r.backend \in ToSet(v.backends) /\ o.backend \in {Absent, r.backend}
  BY RecsFacts
<1>4. Score(v, o, c, r).backend = Or(o.backend, IF r # Absent THEN r.backend ELSE Home(v))
  BY ScoreFacts
<1> QED BY <1>1, <1>2, <1>3, <1>4 DEF Or

\* The places each reader takes for the class and for no class.
TsClass(v, o) == {i \in Recs(v, o) : ~Falsy(o.class) /\ v.recommended[i].class = o.class}
TsFree(v, o) == {i \in Recs(v, o) : Falsy(v.recommended[i].class) \/ Falsy(o.class)}
DartClass(v, o) == {i \in Recs(v, o) : o.class # Absent /\ v.recommended[i].class = o.class}
DartFree(v, o) == {i \in Recs(v, o) : v.recommended[i].class = Absent \/ o.class = Absent}

LEMMA Scores ==
  ASSUME NEW v, NEW o
  PROVE  /\ TsScored(v, o) = Score(v, o, First(v.recommended, TsClass(v, o)),
                                  Taken(v, o, TsClass(v, o), TsFree(v, o)))
         /\ DartScored(v, o) = Score(v, o, First(v.recommended, DartClass(v, o)),
                                    Taken(v, o, DartClass(v, o), DartFree(v, o)))
BY DEF TsScored, DartScored, TsClass, TsFree, DartClass, DartFree, Taken

\* What either reader makes of a candidate.
LEMMA ScoredFacts ==
  ASSUME NEW v \in Variants, v.backends \in Seq(Backends), v.backends # <<>>, NEW o,
         o.backend = Absent \/ o.backend \in ToSet(v.backends),
         NEW s \in {TsScored(v, o), DartScored(v, o)}
  PROVE  /\ s.variant = v /\ s.score \in {0, 200, 300}
         /\ s.backend \in ToSet(v.backends) /\ s.backend \in Backends
         /\ o.backend \in {Absent, s.backend}
<1>1. ASSUME NEW I \in SUBSET Recs(v, o), NEW J \in SUBSET Recs(v, o),
             s = Score(v, o, First(v.recommended, I), Taken(v, o, I, J))
      PROVE  /\ s.variant = v /\ s.score \in {0, 200, 300}
             /\ s.backend \in ToSet(v.backends) /\ s.backend \in Backends
             /\ o.backend \in {Absent, s.backend}
  <2> DEFINE r == Taken(v, o, I, J)
  <2>1. r = Absent \/ \E i \in Recs(v, o) : r = v.recommended[i]
    BY TakenFacts
  <2> HIDE DEF r
  <2>2. s = Score(v, o, First(v.recommended, I), r)
    BY <1>1 DEF r
  <2> QED BY <2>1, <2>2, ScoreFacts, BackendFacts
<1>2. /\ TsClass(v, o) \in SUBSET Recs(v, o) /\ TsFree(v, o) \in SUBSET Recs(v, o)
      /\ DartClass(v, o) \in SUBSET Recs(v, o) /\ DartFree(v, o) \in SUBSET Recs(v, o)
  BY DEF TsClass, TsFree, DartClass, DartFree
<1>3. CASE s = TsScored(v, o)
  BY <1>1, <1>2, <1>3, Scores
<1>4. CASE s = DartScored(v, o)
  BY <1>1, <1>2, <1>4, Scores
<1> QED BY <1>3, <1>4

\* Without empty classes the readers score a candidate alike.
LEMMA SameScores ==
  ASSUME NEW v \in Variants, NEW o, o.class # Blank,
         \A i \in DOMAIN v.recommended : v.recommended[i].class # Blank
  PROVE  TsScored(v, o) = DartScored(v, o)
<1>1. TsClass(v, o) = DartClass(v, o)
  BY DEF TsClass, DartClass, Falsy
<1>2. TsFree(v, o) = DartFree(v, o)
  BY RecsFacts DEF TsFree, DartFree, Falsy
<1> QED BY <1>1, <1>2, Scores

\* The readers agree on a manifest and a request without one.
LEMMA SameAnswers ==
  ASSUME NEW m \in Stamped, NEW o \in Options, Shift62 = Infinite, o.class # Blank,
         PlainList(m.variants)
  PROVE  TsResolve(m, o) = DartResolve(m, o)
<1> DEFINE cs == Candidates(m, o)
<1>1. \A i \in cs : TsScored(m.variants[i], o) = DartScored(m.variants[i], o)
  BY SameScores, RequestFacts, CandidateFacts DEF PlainList
<1>2. [i \in cs |-> TsScored(m.variants[i], o)] = [i \in cs |-> DartScored(m.variants[i], o)]
  <2> HIDE DEF cs
  <2> QED BY <1>1
<1> QED BY <1>2 DEF TsResolve, DartResolve

-----------------------------------------------------------------------------
(* A resolution *)

\* Both readers resolve to the best of the candidates.
LEMMA BestCandidate ==
  ASSUME NEW m \in Stamped, NEW o \in Options, Candidates(m, o) # {}, NEW none \in Nat,
         NEW scored, DOMAIN scored = Candidates(m, o),
         \A i \in Candidates(m, o) :
           scored[i] \in {TsScored(m.variants[i], o), DartScored(m.variants[i], o)}
  PROVE  \E i \in Candidates(m, o) :
           /\ Best(scored, none) = scored[i]
           /\ \A j \in Candidates(m, o) : Before(scored, none, i, j)
<1> DEFINE D == Candidates(m, o)
<1>1. D \in SUBSET Nat
  BY CandidateFacts
<1>2. ASSUME NEW i \in D
      PROVE  scored[i].score \in 0..300 /\ Or(scored[i].variant.size, none) \in Nat
  <2>1. m.variants[i] \in Variants
    BY CandidateFacts, RequestFacts
  <2>2. scored[i].variant = m.variants[i] /\ scored[i].score \in {0, 200, 300}
    BY <2>1, ScoredFacts, CandidateFacts, RequestFacts
  <2>3. m.variants[i].size \in FileSizes \cup {Absent}
    BY <2>1 DEF Variants
  <2>4. FileSizes \subseteq Nat
    BY SizesAssumption DEF FileSizes
  <2>5. scored[i].score \in 0..300
    BY <2>2
  <2>6. scored[i].variant.size \in Nat \/ scored[i].variant.size = Absent
    BY <2>2, <2>3, <2>4
  <2> QED BY <2>5, <2>6 DEF Or
<1> HIDE DEF D
<1>3. \E i \in D : Best(scored, none) = scored[i] /\ \A j \in D : Before(scored, none, i, j)
  BY <1>1, <1>2, BestFacts DEF D
<1> QED BY <1>3 DEF D

\* A reader's answer: null without candidates, else one of their variants at
\* the manifest's repo and the revision asked for or fetched.
AnswerFor(m, o, a) ==
  /\ Candidates(m, o) = {} => a = Absent
  /\ Candidates(m, o) # {} =>
       /\ a \in Resolutions
       /\ \E i \in Candidates(m, o) : a.variant = m.variants[i]
       /\ a.file = a.variant.file
       /\ a.repo = m.repo /\ a.revision = Or(o.revision, m.revision)

LEMMA AnswerFacts ==
  ASSUME NEW m \in Stamped, NEW o \in Options, NEW a \in {TsResolve(m, o), DartResolve(m, o)}
  PROVE  AnswerFor(m, o, a)
<1> DEFINE D == Candidates(m, o)
<1>1. CASE D = {}
  BY <1>1 DEF AnswerFor, TsResolve, DartResolve
<1>2. CASE D # {}
  <2>1. ASSUME NEW s, NEW i \in D, s \in {TsScored(m.variants[i], o), DartScored(m.variants[i], o)},
               a = Resolution(m, o, s)
        PROVE  AnswerFor(m, o, a)
    <3>1. m.variants[i] \in Variants
      BY CandidateFacts, RequestFacts
    <3>2. s.variant = m.variants[i] /\ s.backend \in Backends
      BY <2>1, <3>1, ScoredFacts, CandidateFacts, RequestFacts
    <3>3. m.variants[i].file \in Files
      BY <3>1 DEF Variants
    <3>4. Or(o.revision, m.revision) \in Nat
      BY RequestFacts DEF Or, Main
    <3>5. a = [file |-> m.variants[i].file, variant |-> m.variants[i], backend |-> s.backend,
               context |-> m.context, repo |-> m.repo, revision |-> Or(o.revision, m.revision)]
      BY <2>1, <3>2 DEF Resolution
    <3>6. a \in Resolutions
      BY <3>1, <3>2, <3>3, <3>4, <3>5, RequestFacts DEF Resolutions
    <3> QED BY <1>2, <3>5, <3>6 DEF AnswerFor
  <2>2. CASE a = TsResolve(m, o)
    <3> DEFINE scored == [i \in D |-> TsScored(m.variants[i], o)]
    <3>1. a = Resolution(m, o, Best(scored, Infinite))
      BY <1>2, <2>2 DEF TsResolve
    <3>2. \A i \in D : scored[i] \in {TsScored(m.variants[i], o), DartScored(m.variants[i], o)}
      OBVIOUS
    <3>3. DOMAIN scored = D
      OBVIOUS
    <3> HIDE DEF scored
    <3>4. PICK i \in D : Best(scored, Infinite) = scored[i]
      BY <1>2, <3>2, <3>3, BestCandidate, SizesAssumption
    <3> HIDE DEF D
    <3> QED BY <2>1, <3>1, <3>2, <3>4
  <2>3. CASE a = DartResolve(m, o)
    <3> DEFINE scored == [i \in D |-> DartScored(m.variants[i], o)]
    <3>1. a = Resolution(m, o, Best(scored, Shift62))
      BY <1>2, <2>3 DEF DartResolve
    <3>2. \A i \in D : scored[i] \in {TsScored(m.variants[i], o), DartScored(m.variants[i], o)}
      OBVIOUS
    <3>3. DOMAIN scored = D
      OBVIOUS
    <3>4. Shift62 \in Nat
      BY SizesAssumption
    <3> HIDE DEF scored
    <3>5. PICK i \in D : Best(scored, Shift62) = scored[i]
      BY <1>2, <3>2, <3>3, <3>4, BestCandidate
    <3> HIDE DEF D
    <3> QED BY <2>1, <3>1, <3>2, <3>5
  <2> QED BY <2>2, <2>3
<1> QED BY <1>1, <1>2

\* What the rules say of a variant, in the places the reader takes.
LEMMA RankFacts ==
  ASSUME NEW v \in Variants, NEW o \in Options, o.class # Blank,
         \A i \in DOMAIN v.recommended : v.recommended[i].class # Blank
  PROVE  /\ Counting(v, o) = {v.recommended[i] : i \in Recs(v, o)}
         /\ ForClass(v, o) = {v.recommended[i] : i \in TsClass(v, o)}
         /\ o.class # Absent => ClassFree(v, o) = {v.recommended[i] : i \in TsFree(v, o)}
         /\ o.class = Absent => ForClass(v, o) = {} /\ ClassFree(v, o) = {} /\ TsFree(v, o) = Recs(v, o)
         /\ TsScored(v, o).score = IF Rank(v, o) = 2 THEN 300 ELSE IF Rank(v, o) = 1 THEN 200 ELSE 0
<1>1. o.platform \in STRING \cup {Absent} /\ o.class \in STRING \cup {Absent, Blank}
  <2>1. o \in [platform : STRING \cup {Absent}, class : STRING \cup {Absent, Blank},
               backend : Backends \cup {Absent}, revision : Nat \cup {Absent}]
    BY ManifestAssumption
  <2> QED BY <2>1
<1>2. v.recommended \in Seq(Recommendations)
  BY DEF Variants
<1>3. ASSUME NEW i \in DOMAIN v.recommended PROVE v.recommended[i].platform \in STRING
  <2>1. v.recommended[i] \in Recommendations
    BY <1>2
  <2> QED BY <2>1 DEF Recommendations
<1>4. ToSet(v.recommended) = {v.recommended[i] : i \in DOMAIN v.recommended}
  BY DEF ToSet
<1>5. Counting(v, o) = {v.recommended[i] : i \in Recs(v, o)}
  BY <1>1, <1>3, <1>4, AbsentAssumption DEF Counting, Recs, Lists
<1>6. ForClass(v, o) = {v.recommended[i] : i \in TsClass(v, o)}
  BY <1>5 DEF ForClass, TsClass, Falsy
<1>7. \A i \in Recs(v, o) : v.recommended[i].class # Blank
  BY RecsFacts
<1>8. o.class # Absent => ClassFree(v, o) = {v.recommended[i] : i \in TsFree(v, o)}
  BY <1>5, <1>7 DEF ClassFree, TsFree, Falsy
<1>9. o.class = Absent => ForClass(v, o) = {} /\ ClassFree(v, o) = {} /\ TsFree(v, o) = Recs(v, o)
  BY DEF ForClass, ClassFree, TsFree, Falsy
<1>10. TsScored(v, o).score = IF Rank(v, o) = 2 THEN 300 ELSE IF Rank(v, o) = 1 THEN 200 ELSE 0
  <2>1. TsClass(v, o) \in SUBSET Recs(v, o) /\ TsFree(v, o) \in SUBSET Recs(v, o)
    BY DEF TsClass, TsFree
  <2>2. TsScored(v, o).score = IF Recs(v, o) = {} THEN 0 ELSE IF TsClass(v, o) # {} THEN 300 ELSE 200
    <3> DEFINE c == First(v.recommended, TsClass(v, o))
               r == Taken(v, o, TsClass(v, o), TsFree(v, o))
    <3>1. (c = Absent <=> TsClass(v, o) = {}) /\ (r = Absent <=> Recs(v, o) = {})
      BY <2>1, TakenFacts
    <3>2. TsScored(v, o) = Score(v, o, c, r)
      BY Scores
    <3> HIDE DEF c, r
    <3>3. Score(v, o, c, r).score = IF r = Absent THEN 0 ELSE IF c # Absent THEN 300 ELSE 200
      BY ScoreFacts
    <3> QED BY <3>1, <3>2, <3>3
  <2> QED BY <1>5, <1>6, <2>1, <2>2 DEF Rank
<1> QED BY <1>5, <1>6, <1>8, <1>9, <1>10

\* The backend answered is one that the most specific recommendations name.
LEMMA MostSpecific ==
  ASSUME NEW v \in Variants, v.backends \in Seq(Backends), v.backends # <<>>, NEW o \in Options,
         o.backend = Absent \/ o.backend \in ToSet(v.backends),
         o.class # Blank,
         \A i \in DOMAIN v.recommended : v.recommended[i].class # Blank
  PROVE  LET most == IF ForClass(v, o) # {} THEN ForClass(v, o)
                     ELSE IF ClassFree(v, o) # {} THEN ClassFree(v, o) ELSE Counting(v, o)
         IN most # {} => \E r \in most : r.backend = TsScored(v, o).backend
<1> DEFINE I == TsClass(v, o)
           J == TsFree(v, o)
           K == Recs(v, o)
           most == IF ForClass(v, o) # {} THEN ForClass(v, o)
                   ELSE IF ClassFree(v, o) # {} THEN ClassFree(v, o) ELSE Counting(v, o)
           places == IF I # {} THEN I ELSE IF J # {} THEN J ELSE K
           r == Taken(v, o, I, J)
<1>1. I \in SUBSET K /\ J \in SUBSET K
  BY DEF TsClass, TsFree
<1>2. most = {v.recommended[i] : i \in places}
  <2>1. CASE o.class = Absent
    <3>1. ForClass(v, o) = {} /\ ClassFree(v, o) = {} /\ J = K
      BY <2>1, RankFacts
    <3>2. I = {}
      BY <2>1 DEF TsClass, Falsy
    <3>3. most = Counting(v, o) /\ places = K
      BY <3>1, <3>2
    <3> QED BY <3>3, RankFacts
  <2>2. CASE o.class # Absent
    <3>1. /\ ForClass(v, o) = {v.recommended[i] : i \in I}
          /\ ClassFree(v, o) = {v.recommended[i] : i \in J}
          /\ Counting(v, o) = {v.recommended[i] : i \in K}
      BY <2>2, RankFacts
    <3>2. (ForClass(v, o) # {} <=> I # {}) /\ (ClassFree(v, o) # {} <=> J # {})
      BY <3>1
    <3> HIDE DEF I, J, K
    <3> QED BY <3>1, <3>2
  <2> QED BY <2>1, <2>2
<1>3. TsScored(v, o) = Score(v, o, First(v.recommended, I), r)
  BY Scores
<1>4. K # {} => r # Absent /\ \E i \in places : r = v.recommended[i]
  BY <1>1, TakenFacts
<1>5. TsScored(v, o).backend = Or(o.backend, IF r # Absent THEN r.backend ELSE Home(v))
  BY <1>3, ScoreFacts
<1>6. \A i \in K : o.backend \in {Absent, v.recommended[i].backend}
  BY RecsFacts
<1>7. places \subseteq K
  BY <1>1
<1> HIDE DEF I, J, K, most, places, r
<1>8. ASSUME most # {} PROVE \E q \in most : q.backend = TsScored(v, o).backend
  <2>1. K # {}
    BY <1>2, <1>7, <1>8
  <2>2. PICK i \in places : r = v.recommended[i] /\ r # Absent
    BY <1>4, <2>1
  <2>3. r.backend = TsScored(v, o).backend
    BY <1>5, <1>6, <1>7, <2>2 DEF Or
  <2> QED BY <1>2, <2>2, <2>3
<1> QED BY <1>8 DEF most

LEMMA CandidateVariant ==
  ASSUME NEW m \in Stamped, NEW o \in Options, NEW j \in Candidates(m, o), NEW w, w = m.variants[j]
  PROVE  /\ w \in Variants /\ w.backends \in Seq(Backends) /\ w.backends # <<>>
         /\ o.backend = Absent \/ o.backend \in ToSet(w.backends)
         /\ PlainList(m.variants) => \A k \in DOMAIN w.recommended : w.recommended[k].class # Blank
BY CandidateFacts, RequestFacts DEF PlainList

\* The rules, for any manifest and any request.
LEMMA RulesKept ==
  ASSUME app \in Apps, app.asked \in Options, PlainList(app.manifest.variants),
         app.asked.class # Blank,
         app.answer = TsResolve(app.manifest, app.asked)
  PROVE  KeepsToRules
<1> DEFINE m == app.manifest
           o == app.asked
           a == app.answer
           D == Candidates(m, o)
           scored == [i \in D |-> TsScored(m.variants[i], o)]
<1>1. m \in Stamped /\ o \in Options
  BY DEF Apps
<1>2. ToSet(m.variants) = {m.variants[i] : i \in DOMAIN m.variants}
  BY DEF ToSet
<1>3. Able(o) = {m.variants[i] : i \in D}
  <2>1. \A i \in DOMAIN m.variants :
          i \in D <=> o.backend = Absent \/ o.backend \in ToSet(m.variants[i].backends)
    BY <1>1, CandidateFacts
  <2>2. D \subseteq DOMAIN m.variants
    BY <1>1, CandidateFacts
  <2> HIDE DEF D
  <2> QED BY <1>2, <2>1, <2>2 DEF Able
<1>4. CASE D = {}
  <2>1. a = Absent
    BY <1>1, <1>4, AnswerFacts DEF AnswerFor
  <2>2. Able(o) = {}
    BY <1>3, <1>4
  <2> QED BY <2>1, <2>2 DEF KeepsToRules
<1>5. CASE D # {}
  <2>1. a \in Resolutions /\ a # Absent
    BY <1>1, <1>5, AnswerFacts, AbsentAssumption DEF AnswerFor
  <2>2. \A i \in D : scored[i] \in {TsScored(m.variants[i], o), DartScored(m.variants[i], o)}
    OBVIOUS
  <2>3. DOMAIN scored = D /\ \A i \in D : scored[i] = TsScored(m.variants[i], o)
    OBVIOUS
  <2>4. a = Resolution(m, o, Best(scored, Infinite))
    BY <1>5 DEF TsResolve
  <2> HIDE DEF scored
  <2>5. PICK i \in D : /\ Best(scored, Infinite) = scored[i]
                       /\ \A j \in D : Before(scored, Infinite, i, j)
    BY <1>1, <1>5, <2>2, <2>3, BestCandidate, SizesAssumption
  <2>7. ASSUME NEW j \in D
        PROVE  /\ scored[j].variant = m.variants[j]
               /\ scored[j].backend \in ToSet(m.variants[j].backends)
               /\ o.backend \in {Absent, scored[j].backend}
    <3> DEFINE w == m.variants[j]
    <3>1. /\ w \in Variants /\ w.backends \in Seq(Backends) /\ w.backends # <<>>
          /\ o.backend = Absent \/ o.backend \in ToSet(w.backends)
      BY <1>1, CandidateVariant
    <3>2. scored[j] \in {TsScored(w, o), DartScored(w, o)}
      BY <2>2
    <3> HIDE DEF w, D
    <3>3. scored[j].variant = w /\ scored[j].backend \in ToSet(w.backends)
          /\ o.backend \in {Absent, scored[j].backend}
      BY <3>1, <3>2, ScoredFacts
    <3> QED BY <3>3 DEF w
  <2>8. ASSUME NEW j \in D
        PROVE  LET w == m.variants[j]
               IN scored[j].score = IF Rank(w, o) = 2 THEN 300 ELSE IF Rank(w, o) = 1 THEN 200 ELSE 0
    <3> DEFINE w == m.variants[j]
    <3>1. w \in Variants /\ \A k \in DOMAIN w.recommended : w.recommended[k].class # Blank
      BY <1>1, CandidateVariant
    <3>2. scored[j] = TsScored(w, o)
      BY <2>3
    <3> HIDE DEF w, D
    <3>3. scored[j].score = IF Rank(w, o) = 2 THEN 300 ELSE IF Rank(w, o) = 1 THEN 200 ELSE 0
      BY <1>1, <3>1, <3>2, RankFacts
    <3> QED BY <3>3 DEF w
  <2> DEFINE v == m.variants[i]
  <2>9. a.variant = v /\ a.backend = scored[i].backend
    BY <2>4, <2>5, <2>7 DEF Resolution
  <2>10. v \in Able(o)
    BY <1>3, <2>5
  <2>11. a.backend \in ToSet(v.backends) /\ o.backend \in {Absent, a.backend}
    BY <2>5, <2>7, <2>9
  <2>12. ASSUME NEW w \in Able(o)
         PROVE  \/ Rank(v, o) > Rank(w, o)
                \/ /\ Rank(v, o) = Rank(w, o)
                   /\ w.size = Absent \/ (v.size # Absent /\ v.size <= w.size)
    <3>1. PICK j \in D : w = m.variants[j]
      BY <1>3, <2>12
    <3>2. Before(scored, Infinite, i, j)
      BY <2>5, <3>1
    <3>3. Rank(v, o) \in 0..2 /\ Rank(w, o) \in 0..2
      BY DEF Rank
    <3>4. /\ scored[i].score = IF Rank(v, o) = 2 THEN 300 ELSE IF Rank(v, o) = 1 THEN 200 ELSE 0
          /\ scored[j].score = IF Rank(w, o) = 2 THEN 300 ELSE IF Rank(w, o) = 1 THEN 200 ELSE 0
      BY <2>5, <2>8, <3>1
    <3>5. v.size \in FileSizes \cup {Absent} /\ w.size \in FileSizes \cup {Absent}
      <4>1. v \in Variants /\ w \in Variants
        BY <1>1, <2>5, <3>1, CandidateVariant
      <4> HIDE DEF v
      <4> QED BY <4>1 DEF Variants
    <3>6. \/ Rank(v, o) > Rank(w, o)
          \/ Rank(v, o) = Rank(w, o) /\ Or(v.size, Infinite) <= Or(w.size, Infinite)
      <4>1. scored[i].score > scored[j].score => Rank(v, o) > Rank(w, o)
        BY <3>3, <3>4
      <4>2. scored[i].score = scored[j].score => Rank(v, o) = Rank(w, o)
        BY <3>3, <3>4
      <4>4. Or(v.size, Infinite) \in Nat /\ Or(w.size, Infinite) \in Nat
        BY <3>5, SizesAssumption DEF Or, FileSizes
      <4>5. \/ scored[i].score > scored[j].score
            \/ /\ scored[i].score = scored[j].score
               /\ \/ Or(v.size, Infinite) < Or(w.size, Infinite)
                  \/ Or(v.size, Infinite) = Or(w.size, Infinite)
        BY <2>5, <2>7, <3>1, <3>2 DEF Before
      <4> QED BY <4>1, <4>2, <4>4, <4>5
    <3>7. Or(v.size, Infinite) <= Or(w.size, Infinite)
            => w.size = Absent \/ (v.size # Absent /\ v.size <= w.size)
      BY <3>5, SizesAssumption, AbsentAssumption DEF Or, FileSizes
    <3> QED BY <3>6, <3>7
  <2>13. LET most == IF ForClass(v, o) # {} THEN ForClass(v, o)
                     ELSE IF ClassFree(v, o) # {} THEN ClassFree(v, o) ELSE Counting(v, o)
         IN most # {} => \E r \in most : r.backend = a.backend
    <3>1. /\ v \in Variants /\ v.backends \in Seq(Backends) /\ v.backends # <<>>
          /\ o.backend = Absent \/ o.backend \in ToSet(v.backends)
          /\ \A k \in DOMAIN v.recommended : v.recommended[k].class # Blank
      BY <1>1, <2>5, CandidateVariant
    <3>2. a.backend = TsScored(v, o).backend
      BY <2>3, <2>5, <2>9
    <3> HIDE DEF v
    <3> QED BY <1>1, <3>1, <3>2, MostSpecific
  <2> HIDE DEF D, v
  <2> QED BY <2>1, <2>9, <2>10, <2>11, <2>12, <2>13 DEF KeepsToRules
<1> QED BY <1>4, <1>5

-----------------------------------------------------------------------------
(***************************************************************************)
(* The invariant.  While no build is put back a file changes once at most, *)
(* from the build it had to the newest: so what was described from a hash  *)
(* listed before and a header read after carries a hash that no later      *)
(* commit has.  NothingPutBack is about all commits so far; once it fails  *)
(* it stays false, so the parts it guards need no more to be kept.         *)
(***************************************************************************)

\* v is described truly, or b, what the repo has of it, is the newest build
\* and v's hash is not.
Honest(v, b, newest) ==
  \/ v.context = ContextOf[v.file][v.sha256]
  \/ v.sha256 # newest /\ b = newest
HonestIn(variants, files, new) ==
  \A i \in DOMAIN variants :
    LET f == variants[i].file IN Honest(variants[i], files[f], new[f])

HubInv ==
  /\ hub["origin"] # <<>>
  /\ \A r \in Repos : \A k \in DOMAIN hub[r] : \A f \in Files :
       hub[r][k].files[f] \in (1..built[f]) \cup {Absent}
  /\ NothingPutBack =>
       \A r \in Repos : \A k \in DOMAIN hub[r] :
         hub[r][k].manifest # Absent => HonestIn(hub[r][k].manifest.variants, hub[r][k].files, built)

\* Some commit had build b of f.
Was(f, b) == \E k \in DOMAIN hub["origin"] : hub["origin"][k].files[f] = b

\* A file left to describe is local, or was as listed and is still there.
Listed(f) ==
  \/ f \in maker.local
  \/ /\ maker.tree[f] \in Builds /\ HeadOf("origin").files[f] \in Builds
     /\ Was(f, maker.tree[f])

\* The section table read of f is not older than what was listed.
Tabled(f) ==
  IF f \in maker.local THEN maker.table = built[f]
  ELSE /\ Was(f, maker.table)
       /\ NothingPutBack => (maker.tree[f] = built[f] => maker.table = built[f])

\* What is described and what is left to describe are different files.
MakerInv ==
  /\ maker # Idle =>
       /\ \A p \in maker.rest : Listing[p] \in Files /\ Listed(Listing[p])
       /\ \A p, q \in maker.rest : Listing[p] = Listing[q] => p = q
       /\ OncePerFile(maker.variants)
       /\ \A i \in DOMAIN maker.variants, p \in maker.rest : maker.variants[i].file # Listing[p]
       /\ maker.rest # {} /\ maker.table # Absent => Tabled(Listing[Place])
       /\ NothingPutBack => HonestIn(maker.variants, HeadOf("origin").files, built)
  /\ out # Absent /\ NothingPutBack => HonestIn(out.variants, HeadOf("origin").files, built)

\* What the app has is of a commit of its repo, and of no earlier one what it
\* has downloaded, if it asked for no older one.
AppFrom(k) ==
  /\ app.commit = k
  /\ hub[app.source][k].manifest # Absent
  /\ app.manifest = Stamp(hub[app.source][k].manifest, app.source, app.revision)
  /\ app.revision # Main => app.revision = k
  /\ app.at # "fetched" =>
       /\ app.asked \in Options
       /\ app.answer = IF app.reader = "ts" THEN TsResolve(app.manifest, app.asked)
                       ELSE DartResolve(app.manifest, app.asked)
  /\ app.at = "downloaded" =>
       /\ app.answer # Absent
       /\ \/ app.got = Absent /\ app.asked.revision # Absent
          \/ \E n \in DOMAIN hub[app.source] :
               /\ app.got = hub[app.source][n].files[app.answer.file]
               /\ AskedNoOlder => k <= n
               /\ app.revision # Main /\ app.asked.revision = Absent => n = k
AppInv == app # Idle => \E k \in DOMAIN hub[app.source] : AppFrom(k)

IInv == TypeOK /\ HubInv /\ MakerInv /\ AppInv

\* No empty class anywhere.
PlainInv ==
  /\ PlainList(curated)
  /\ \A r \in Repos : \A k \in DOMAIN hub[r] :
       hub[r][k].manifest # Absent => PlainList(hub[r][k].manifest.variants)
  /\ maker # Idle => PlainList(maker.variants)
  /\ out # Absent => PlainList(out.variants)
  /\ app # Idle => PlainList(app.manifest.variants)

-----------------------------------------------------------------------------
(* The repos *)

LEMMA CommitFacts ==
  ASSUME NEW c \in Commits
  PROVE  /\ c.files \in [Files -> Builds \cup {Absent}]
         /\ c.manifest \in Manifests \cup {Absent}
         /\ \A f \in Files, b \in Builds : [c EXCEPT !.files[f] = b] \in Commits
         /\ \A m \in Manifests : [c EXCEPT !.manifest = m] \in Commits
BY DEF Commits

\* The origin always has a newest commit.
LEMMA HeadFacts ==
  ASSUME TypeOK, HubInv
  PROVE  /\ Len(hub["origin"]) \in DOMAIN hub["origin"]
         /\ HeadOf("origin") = hub["origin"][Len(hub["origin"])]
         /\ HeadOf("origin") \in Commits
         /\ HeadOf("origin").files \in [Files -> Builds \cup {Absent}]
         /\ HeadOf("origin").manifest \in Manifests \cup {Absent}
<1>1. hub["origin"] \in Seq(Commits) /\ hub["origin"] # <<>>
  BY ManifestAssumption DEF TypeOK, HubInv
<1>2. Len(hub["origin"]) \in DOMAIN hub["origin"]
  BY <1>1
<1>3. HeadOf("origin") = hub["origin"][Len(hub["origin"])]
  BY DEF HeadOf, Last
<1>4. HeadOf("origin") \in Commits
  BY <1>1, <1>2, <1>3
<1> QED BY <1>2, <1>3, <1>4, CommitFacts

\* A push adds a commit to one repo, and that is its head.
LEMMA PushFacts ==
  ASSUME TypeOK, NEW r \in Repos, NEW c \in Commits, Push(r, c)
  PROVE  /\ hub' \in [Repos -> Seq(Commits)]
         /\ \A q \in Repos : q # r => hub'[q] = hub[q]
         /\ \A q \in Repos : \A k \in DOMAIN hub[q] : k \in DOMAIN hub'[q] /\ hub'[q][k] = hub[q][k]
         /\ \A k \in DOMAIN hub'[r] : k \in DOMAIN hub[r] \/ (k = Len(hub[r]) + 1 /\ hub'[r][k] = c)
         /\ hub'[r] # <<>> /\ Last(hub'[r]) = c
<1>1. hub \in [Repos -> Seq(Commits)]
  BY DEF TypeOK
<1>2. hub[r] \in Seq(Commits)
  BY <1>1
<1>3. hub' = [hub EXCEPT ![r] = Append(hub[r], c)]
  BY <1>1 DEF Push
<1>4. /\ Append(hub[r], c) \in Seq(Commits) /\ Len(Append(hub[r], c)) = Len(hub[r]) + 1
      /\ \A k \in 1..Len(hub[r]) : Append(hub[r], c)[k] = hub[r][k]
      /\ Append(hub[r], c)[Len(hub[r]) + 1] = c
  BY <1>2, AppendProperties
<1>5. hub'[r] = Append(hub[r], c) /\ \A q \in Repos : q # r => hub'[q] = hub[q]
  BY <1>1, <1>3
<1>6. hub' \in [Repos -> Seq(Commits)]
  BY <1>1, <1>3, <1>4
<1>7. \A q \in Repos : \A k \in DOMAIN hub[q] : k \in DOMAIN hub'[q] /\ hub'[q][k] = hub[q][k]
  <2> SUFFICES ASSUME NEW k \in DOMAIN hub[r] PROVE k \in DOMAIN hub'[r] /\ hub'[r][k] = hub[r][k]
    BY <1>5
  <2>1. k \in 1..Len(hub[r]) /\ Len(hub[r]) \in Nat
    BY <1>2
  <2>2. DOMAIN hub'[r] = 1..(Len(hub[r]) + 1)
    BY <1>4, <1>5
  <2> QED BY <1>4, <1>5, <2>1, <2>2
<1>8. \A k \in DOMAIN hub'[r] : k \in DOMAIN hub[r] \/ (k = Len(hub[r]) + 1 /\ hub'[r][k] = c)
  <2>1. DOMAIN hub'[r] = 1..(Len(hub[r]) + 1) /\ DOMAIN hub[r] = 1..Len(hub[r]) /\ Len(hub[r]) \in Nat
    BY <1>2, <1>4, <1>5
  <2> QED BY <1>4, <1>5, <2>1
<1>9. hub'[r] # <<>> /\ Last(hub'[r]) = c
  BY <1>2, <1>4, <1>5 DEF Last
<1> QED BY <1>5, <1>6, <1>7, <1>8, <1>9

\* What was put back stays so, whatever is pushed.
LEMMA PutBackStays ==
  ASSUME TypeOK, NEW r \in Repos, NEW c \in Commits, Push(r, c), UNCHANGED built, NothingPutBack'
  PROVE  NothingPutBack
BY PushFacts DEF NothingPutBack

LEMMA PushKeepsHub ==
  ASSUME TypeOK, HubInv, NEW r \in Repos, NEW c \in Commits, Push(r, c), UNCHANGED built,
         \A f \in Files : c.files[f] \in (1..built[f]) \cup {Absent},
         NothingPutBack' /\ c.manifest # Absent => HonestIn(c.manifest.variants, c.files, built)
  PROVE  HubInv'
<1>1. hub'["origin"] # <<>>
  BY PushFacts, ManifestAssumption DEF HubInv
<1>2. ASSUME NEW q \in Repos, NEW k \in DOMAIN hub'[q], NEW f \in Files
      PROVE  hub'[q][k].files[f] \in (1..built[f]) \cup {Absent}
  <2>1. CASE k \in DOMAIN hub[q]
    BY <2>1, PushFacts DEF HubInv
  <2>2. CASE k \notin DOMAIN hub[q]
    BY <2>2, PushFacts
  <2> QED BY <2>1, <2>2
<1>3. ASSUME NothingPutBack',
             NEW q \in Repos, NEW k \in DOMAIN hub'[q], hub'[q][k].manifest # Absent
      PROVE  HonestIn(hub'[q][k].manifest.variants, hub'[q][k].files, built)
  <2>1. CASE k \in DOMAIN hub[q]
    BY <1>3, <2>1, PushFacts, PutBackStays DEF HubInv
  <2>2. CASE k \notin DOMAIN hub[q]
    <3>1. q = r /\ hub'[q][k] = c
      BY <2>2, PushFacts
    <3> QED BY <1>3, <3>1
  <2> QED BY <2>1, <2>2
<1> QED BY <1>1, <1>2, <1>3 DEF HubInv

\* Without a push the repos and the app are as they were.
LEMMA NoPush ==
  ASSUME UNCHANGED <<hub, built>>
  PROVE  /\ HubInv => HubInv'
         /\ (NothingPutBack' <=> NothingPutBack)
         /\ HeadOf("origin")' = HeadOf("origin")
         /\ \A f, b : Was(f, b) => Was(f, b)'
         /\ AppInv /\ app' = app => AppInv'
         /\ curated' = curated /\ maker' = maker /\ out' = out => (MakerInv => MakerInv')
<1>1. NothingPutBack' <=> NothingPutBack
  BY DEF NothingPutBack
<1>2. HeadOf("origin")' = HeadOf("origin") /\ \A f, b : Was(f, b) => Was(f, b)'
  BY DEF HeadOf, Was
<1>3. HubInv => HubInv'
  BY <1>1 DEF HubInv
<1>4. AppInv /\ app' = app => AppInv'
  BY DEF AppInv, AppFrom, AskedNoOlder
<1>5. curated' = curated /\ maker' = maker /\ out' = out => (MakerInv => MakerInv')
  BY <1>1, <1>2 DEF MakerInv, Listing, Listed, Tabled, Place
<1> QED BY <1>1, <1>2, <1>3, <1>4, <1>5

\* What the app has stays, whatever is added.
LEMMA PushKeepsApp ==
  ASSUME TypeOK, AppInv, NEW r \in Repos, NEW c \in Commits, Push(r, c), UNCHANGED app
  PROVE  AppInv'
<1> SUFFICES ASSUME app # Idle PROVE \E k \in DOMAIN hub'[app.source] : AppFrom(k)'
  BY DEF AppInv
<1>1. app \in Apps
  BY DEF TypeOK
<1>2. app.source \in Repos
  BY <1>1 DEF Apps
<1>3. PICK k \in DOMAIN hub[app.source] : AppFrom(k)
  BY DEF AppInv
<1>4. \A n \in DOMAIN hub[app.source] :
        n \in DOMAIN hub'[app.source] /\ hub'[app.source][n] = hub[app.source][n]
  BY <1>2, PushFacts
<1> QED BY <1>3, <1>4 DEF AppFrom, AskedNoOlder

-----------------------------------------------------------------------------
(* The first state, and every step *)

\* Nothing has been made or fetched; a manifest there is was written by hand.
LEMMA ManifestInit == Init => IInv
<1> SUFFICES ASSUME Init PROVE IInv
  OBVIOUS
<1>1. maker = Idle /\ out = Absent /\ app = Idle
  BY DEF Init
<1>2. ASSUME NEW c \in Commits, hub = [r \in Repos |-> IF r = "origin" THEN <<c>> ELSE <<>>],
             built \in [Files -> Builds], curated \in Curateds \cup {<<>>},
             \A f \in Files : c.files[f] \in {1, Absent},
             c.manifest # Absent => HonestIn(c.manifest.variants, c.files, built)
      PROVE  IInv
  <2>1. hub \in [Repos -> Seq(Commits)]
    BY <1>2
  <2>2. TypeOK
    BY <1>1, <1>2, <2>1 DEF TypeOK
  <2>3. hub["origin"] = <<c>>
    BY <1>2, ManifestAssumption
  <2>4. \A r \in Repos : \A k \in DOMAIN hub[r] : k = 1 /\ hub[r][k] = c
    BY <1>2
  <2>5. HubInv
    <3>1. \A f \in Files : c.files[f] \in (1..built[f]) \cup {Absent}
      BY <1>2 DEF Builds
    <3> QED BY <1>2, <2>3, <2>4, <3>1 DEF HubInv
  <2>6. MakerInv /\ AppInv
    BY <1>1 DEF MakerInv, AppInv
  <2> QED BY <2>2, <2>5, <2>6 DEF IInv
<1>3. CASE \E first \in [Files -> {1, Absent}] :
             /\ hub = [r \in Repos |-> IF r = "origin" THEN <<Commit(first, Absent)>> ELSE <<>>]
             /\ built \in {b \in [Files -> Builds] : \A f \in Files : first[f] = Absent => b[f] = 2}
             /\ curated \in Curateds
  <2>1. PICK first \in [Files -> {1, Absent}] :
             /\ hub = [r \in Repos |-> IF r = "origin" THEN <<Commit(first, Absent)>> ELSE <<>>]
             /\ built \in [Files -> Builds] /\ curated \in Curateds
    BY <1>3
  <2>2. /\ Commit(first, Absent) \in Commits /\ Commit(first, Absent).manifest = Absent
        /\ \A f \in Files : Commit(first, Absent).files[f] \in {1, Absent}
    BY DEF Commit, Commits, Builds
  <2> QED BY <1>2, <2>1, <2>2
<1>4. CASE \E m \in HandMade :
             /\ hub = [r \in Repos |-> IF r = "origin" THEN <<Commit([f \in Files |-> 1], m)>> ELSE <<>>]
             /\ built = [f \in Files |-> 1] /\ curated = <<>>
  <2>1. PICK m \in HandMade :
             /\ hub = [r \in Repos |-> IF r = "origin" THEN <<Commit([f \in Files |-> 1], m)>> ELSE <<>>]
             /\ built = [f \in Files |-> 1] /\ curated = <<>>
    BY <1>4
  <2> DEFINE c == Commit([f \in Files |-> 1], m)
  <2>2. m \in Manifests
    BY ManifestAssumption
  <2>3. c \in Commits /\ c.manifest = m /\ \A f \in Files : c.files[f] \in {1, Absent}
    BY <2>2 DEF Commit, Commits, Builds
  <2>4. HonestIn(m.variants, c.files, built)
    BY ManifestAssumption DEF HonestIn, Honest
  <2>5. built \in [Files -> Builds] /\ curated \in Curateds \cup {<<>>}
    BY <2>1 DEF Builds
  <2> HIDE DEF c
  <2>6. hub = [r \in Repos |-> IF r = "origin" THEN <<c>> ELSE <<>>]
    BY <2>1 DEF c
  <2> QED BY <1>2, <2>3, <2>4, <2>5, <2>6
<1> QED BY <1>3, <1>4 DEF Init

\* The curated file lists each file once, and the listing starts with it.
LEMMA ListingFacts ==
  ASSUME TypeOK
  PROVE  /\ curated \in Seq(CuratedVariants) /\ OncePerFile(curated)
         /\ Listing \in Seq(STRING)
         /\ \A p \in DOMAIN Listing :
              /\ p \in Nat
              /\ p <= Len(curated) => p \in DOMAIN curated /\ Listing[p] = curated[p].file
              /\ p > Len(curated) => /\ p - Len(curated) \in DOMAIN ByName
                                    /\ Listing[p] = ByName[p - Len(curated)]
<1>1. curated \in Seq(CuratedVariants) /\ OncePerFile(curated)
  <2>1. <<>> \in Seq(CuratedVariants) /\ OncePerFile(<<>>)
    BY DEF OncePerFile
  <2>2. curated \in Curateds \cup {<<>>}
    BY DEF TypeOK
  <2> QED BY <2>1, <2>2, ManifestAssumption
<1> DEFINE firsts == [i \in DOMAIN curated |-> curated[i].file]
<1>2. firsts \in Seq(STRING) /\ Len(firsts) = Len(curated)
  <2>1. \A i \in 1..Len(curated) : curated[i] \in CuratedVariants
    BY <1>1
  <2>2. \A i \in 1..Len(curated) : curated[i].file \in STRING
    BY <2>1 DEF CuratedVariants
  <2>3. firsts \in [1..Len(curated) -> STRING] /\ Len(curated) \in Nat
    BY <1>1, <2>2
  <2> QED BY <2>3
<1>3. \A p \in DOMAIN curated : firsts[p] = curated[p].file
  OBVIOUS
<1>4. Listing = firsts \o ByName
  BY DEF Listing
<1>5. ByName \in Seq(STRING)
  BY ManifestAssumption
<1> HIDE DEF firsts
<1>6. /\ Listing \in Seq(STRING) /\ Len(Listing) = Len(curated) + Len(ByName)
      /\ \A p \in 1..Len(Listing) :
           Listing[p] = IF p <= Len(curated) THEN firsts[p] ELSE ByName[p - Len(curated)]
  <2>1. /\ Listing \in Seq(STRING) /\ Len(Listing) = Len(firsts) + Len(ByName)
        /\ \A p \in 1..(Len(firsts) + Len(ByName)) :
             Listing[p] = IF p <= Len(firsts) THEN firsts[p] ELSE ByName[p - Len(firsts)]
    BY <1>2, <1>4, <1>5, ConcatProperties
  <2> QED BY <1>2, <2>1
<1>7. ASSUME NEW p \in DOMAIN Listing
      PROVE  /\ p \in Nat
             /\ p <= Len(curated) => p \in DOMAIN curated /\ Listing[p] = curated[p].file
             /\ p > Len(curated) => /\ p - Len(curated) \in DOMAIN ByName
                                   /\ Listing[p] = ByName[p - Len(curated)]
  <2>1. p \in 1..Len(Listing) /\ Len(curated) \in Nat /\ Len(ByName) \in Nat
    BY <1>1, <1>5, <1>6
  <2>2. DOMAIN curated = 1..Len(curated) /\ DOMAIN ByName = 1..Len(ByName)
    BY <1>1, <1>5
  <2> QED BY <1>3, <1>6, <2>1, <2>2
<1> QED BY <1>1, <1>6, <1>7

\* The places to describe are of different files.
LEMMA OrderFacts ==
  ASSUME TypeOK, NEW files, NEW p \in Order(files), NEW q \in Order(files), Listing[p] = Listing[q]
  PROVE  p = q
<1>1. p \in DOMAIN Listing /\ q \in DOMAIN Listing
  BY DEF Order
<1>2. p \in Nat /\ q \in Nat /\ Len(curated) \in Nat
  BY <1>1, ListingFacts
<1>3. CASE p <= Len(curated) /\ q <= Len(curated)
  BY <1>1, <1>3, ListingFacts DEF OncePerFile
<1>4. CASE p > Len(curated) /\ q > Len(curated)
  <2>1. p - Len(curated) = q - Len(curated)
    BY <1>1, <1>4, ListingFacts, ManifestAssumption
  <2> QED BY <1>2, <2>1
<1>5. ASSUME NEW i \in Order(files), NEW k \in Order(files), Listing[i] = Listing[k],
             i <= Len(curated), k > Len(curated)
      PROVE  FALSE
  <2>1. i \in DOMAIN Listing /\ Listing[k] \notin CuratedFiles
    BY <1>5 DEF Order
  <2>2. Listing[i] \in CuratedFiles
    BY <1>5, <2>1, ListingFacts DEF CuratedFiles
  <2> QED BY <1>5, <2>1, <2>2
<1> QED BY <1>2, <1>3, <1>4, <1>5

\* The generator starts: what it will describe is local or as listed.
LEMMA StartStep ==
  ASSUME IInv, NEW local \in SUBSET Files, NEW onlyCurated \in BOOLEAN, NEW noHub \in BOOLEAN,
         StartMaker(local, onlyCurated, noHub)
  PROVE  IInv'
<1> DEFINE tree   == IF noHub THEN [f \in Files |-> IF f \in local THEN built[f] ELSE Absent]
                     ELSE HeadOf("origin").files
           listed == {f \in Files : tree[f] # Absent}
           files  == IF onlyCurated THEN listed \cap CuratedFiles ELSE listed
<1>1. /\ maker = Idle /\ out = Absent
      /\ maker' = [at |-> "describe", tree |-> tree, local |-> local,
                   rest |-> Order(files), table |-> Absent, variants |-> <<>>]
      /\ UNCHANGED <<hub, built, curated, out, app>>
  BY DEF StartMaker
<1>2. tree \in [Files -> Builds \cup {Absent}]
  BY HeadFacts DEF IInv, TypeOK
<1>3. files \subseteq Files /\ \A f \in files : tree[f] # Absent
  OBVIOUS
<1>4. \A f \in files : f \in local \/ tree[f] = HeadOf("origin").files[f]
  <2>1. CASE noHub
    BY <2>1
  <2>2. CASE ~noHub
    BY <2>2
  <2> QED BY <2>1, <2>2
<1> HIDE DEF tree, listed, files
<1>5. Order(files) \in SUBSET DOMAIN Listing /\ \A p \in Order(files) : Listing[p] \in files
  BY DEF Order
<1>6. TypeOK'
  <2>1. Listing' = Listing
    BY <1>1 DEF Listing
  <2>2. <<>> \in Seq(Variants)
    OBVIOUS
  <2>3. maker' \in Makers'
    BY <1>1, <1>2, <1>5, <2>1, <2>2 DEF Makers
  <2> QED BY <1>1, <2>3 DEF IInv, TypeOK
<1>7. HubInv' /\ AppInv'
  BY <1>1, NoPush DEF IInv
<1>8. MakerInv'
  <2>1. Listing' = Listing /\ out' = Absent /\ maker'.table = Absent
    BY <1>1 DEF Listing
  <2>2. maker'.rest = Order(files) /\ maker'.local = local /\ maker'.tree = tree /\ maker'.variants = <<>>
    BY <1>1
  <2>3. \A p, q \in Order(files) : Listing[p] = Listing[q] => p = q
    BY OrderFacts DEF IInv
  <2>4. ASSUME NEW p \in Order(files) PROVE Listing[p] \in Files /\ Listed(Listing[p])'
    <3>1. PICK f \in files : f = Listing[p]
      BY <1>5
    <3>2. f \in Files /\ (f \in local
            \/ (tree[f] \in Builds /\ tree[f] = HeadOf("origin").files[f]))
      BY <1>2, <1>3, <1>4
    <3>3. tree[f] = HeadOf("origin").files[f] => Was(f, tree[f])
      BY HeadFacts DEF IInv, Was
    <3>4. Listed(f)'
      BY <1>1, <2>2, <3>2, <3>3, NoPush DEF Listed
    <3>5. Listing'[p] = f
      BY <2>1, <3>1
    <3>6. Listed(Listing[p])'
      BY <3>4, <3>5
    <3> QED BY <3>1, <3>2, <3>6
  <2>5. built' = built
    BY <1>1
  <2> QED BY <2>1, <2>2, <2>3, <2>4, <2>5 DEF MakerInv, OncePerFile, HonestIn
<1> QED BY <1>6, <1>7, <1>8 DEF IInv

\* What the generator says of the file at a place it has to describe.
LEMMA CuratedFacts ==
  ASSUME TypeOK, NEW f
  PROVE  /\ CuratedOf(f).backends \in Seq(Backends) \cup {Absent}
         /\ CuratedOf(f).default \in Backends \cup {Absent}
         /\ CuratedOf(f).recommended \in Seq(Recommendations)
         /\ PlainList(curated) =>
              \A k \in DOMAIN CuratedOf(f).recommended : CuratedOf(f).recommended[k].class # Blank
<1>1. CASE f \in CuratedFiles
  <2> DEFINE I == {i \in DOMAIN curated : curated[i].file = f}
  <2>1. I \in SUBSET Nat /\ I # {}
    BY <1>1, ListingFacts DEF CuratedFiles
  <2>2. PICK i \in I : First(curated, I) = curated[i]
    <3> HIDE DEF I
    <3> QED BY <2>1, FirstFacts
  <2>3. CuratedOf(f) = curated[i] /\ i \in DOMAIN curated
    BY <1>1, <2>2 DEF CuratedOf
  <2>4. curated[i] \in CuratedVariants
    BY <2>3, ListingFacts
  <2>5. PlainList(curated) =>
          \A k \in DOMAIN curated[i].recommended : curated[i].recommended[k].class # Blank
    BY <2>3 DEF PlainList
  <2> QED BY <2>3, <2>4, <2>5 DEF CuratedVariants
<1>2. CASE f \notin CuratedFiles
  BY <1>2 DEF CuratedOf
<1> QED BY <1>1, <1>2

\* The place in hand, its file, and what can be read of it now.
LEMMA PlaceFacts ==
  ASSUME IInv, Describing
  PROVE  /\ maker # Idle /\ maker \in Makers /\ Place \in maker.rest /\ Place \in DOMAIN Listing
         /\ Listing[Place] \in Files /\ Listed(Listing[Place])
         /\ built[Listing[Place]] \in Builds
         /\ Identity(Listing[Place]) \in Builds /\ Header(Listing[Place]) \in 1..built[Listing[Place]]
         /\ Header(Listing[Place]) \in Builds
<1>1. maker # Idle /\ maker \in Makers
  BY DEF IInv, TypeOK, Idle, Describing
<1>2. maker.rest \in SUBSET DOMAIN Listing /\ maker.rest \in SUBSET Nat
  BY <1>1, ListingFacts DEF Makers, IInv
<1>3. Place \in maker.rest
  BY <1>2, MinFacts DEF Describing, Place
<1>4. PICK f \in Files : f = Listing[Place] /\ Listed(f)
  BY <1>1, <1>3 DEF IInv, MakerInv
<1>5. built[f] \in Builds
  BY DEF IInv, TypeOK
<1>6. HeadOf("origin").files[f] \in (1..built[f]) \cup {Absent}
  BY HeadFacts, ManifestAssumption DEF IInv, HubInv
<1>7. Absent \notin Builds
  BY AbsentAssumption DEF Builds
<1>8. Identity(f) \in Builds /\ Header(f) \in 1..built[f] /\ Header(f) \in Builds
  <2>1. CASE f \in maker.local
    BY <1>5, <2>1 DEF Identity, Header, Builds
  <2>2. CASE f \notin maker.local
    BY <1>4, <1>6, <1>7, <2>2 DEF Identity, Header, Listed
  <2> QED BY <2>1, <2>2
<1> QED BY <1>1, <1>2, <1>3, <1>4, <1>5, <1>8

\* As long as nothing is put back, the newest build stays.
LEMMA NewestStays ==
  ASSUME IInv, NothingPutBack, NEW f \in Files, Was(f, built[f])
  PROVE  HeadOf("origin").files[f] = built[f]
<1>1. PICK k \in DOMAIN hub["origin"] : hub["origin"][k].files[f] = built[f]
  BY DEF Was
<1>2. hub["origin"] \in Seq(Commits)
  BY ManifestAssumption DEF IInv, TypeOK
<1>3. k <= Len(hub["origin"])
  BY <1>2
<1> QED BY <1>1, <1>3, HeadFacts, ManifestAssumption DEF IInv, NothingPutBack

\* The table read is of the build there is now.
LEMMA ReadTableStep == ASSUME IInv, ReadTable PROVE IInv'
<1>1. /\ Describing
      /\ maker' = [maker EXCEPT !.table = Header(Listing[Place])]
      /\ UNCHANGED <<hub, built, curated, out, app>>
  BY DEF ReadTable
<1>2. /\ maker # Idle /\ maker \in Makers /\ Place \in maker.rest
      /\ Header(Listing[Place]) \in Builds
  BY <1>1, PlaceFacts
<1>3. PICK f \in Files : f = Listing[Place] /\ Listed(f)
  BY <1>1, PlaceFacts
<1>4. /\ maker'.table = Header(f) /\ maker'.tree = maker.tree /\ maker'.local = maker.local
      /\ maker'.rest = maker.rest /\ maker'.variants = maker.variants /\ maker'.at = maker.at
  BY <1>1, <1>2, <1>3 DEF Makers
<1>5. Listing' = Listing /\ Place' = Place
  BY <1>1, <1>4 DEF Listing, Place
<1>6. TypeOK'
  <2>1. maker' \in Makers'
    BY <1>1, <1>2, <1>5 DEF Makers
  <2> QED BY <1>1, <2>1 DEF IInv, TypeOK
<1>7. HubInv' /\ AppInv'
  BY <1>1, NoPush DEF IInv
<1>8. MakerInv'
  <2>1. Tabled(f)'
    <3>1. CASE f \in maker.local
      BY <1>1, <1>4, <3>1 DEF Tabled, Header
    <3>2. CASE f \notin maker.local
      <4>1. Header(f) = HeadOf("origin").files[f] /\ Was(f, Header(f)) /\ Was(f, maker.tree[f])
        BY <1>3, <3>2, HeadFacts DEF Header, Listed, IInv, Was
      <4>2. NothingPutBack /\ maker.tree[f] = built[f] => Header(f) = built[f]
        BY <4>1, NewestStays
      <4> QED BY <1>1, <1>4, <3>2, <4>1, <4>2, NoPush DEF Tabled
    <3> QED BY <3>1, <3>2
  <2>2. Tabled(Listing[Place])'
    BY <1>3, <1>5, <2>1
  <2>3. ASSUME NEW g, Listed(g) PROVE Listed(g)'
    BY <1>1, <1>4, <2>3, NoPush DEF Listed
  <2> QED BY <1>1, <1>2, <1>4, <1>5, <2>2, <2>3, NoPush DEF IInv, MakerInv
<1> QED BY <1>6, <1>7, <1>8 DEF IInv

\* What a header read now says: the listed build's, or the newest's of a file
\* whose listed build is not the newest.
LEMMA DescribedHonestly ==
  ASSUME IInv, Describing, maker.table # Absent, NothingPutBack,
         NEW context \in ContextsRead(Listing[Place]), NEW v,
         v.file = Listing[Place], v.sha256 = Identity(v.file), v.context = context
  PROVE  Honest(v, HeadOf("origin").files[v.file], built[v.file])
<1>1. PICK f \in Files : f = Listing[Place] /\ Listed(f) /\ Tabled(f)
  BY PlaceFacts DEF IInv, MakerInv, Describing
<1>2. built[f] \in Builds /\ Identity(f) \in Builds /\ Header(f) \in 1..built[f]
  BY <1>1, PlaceFacts
<1>3. maker.table = Header(f) => context = ContextOf[f][Header(f)]
  BY <1>1 DEF ContextsRead
<1>4. CASE f \in maker.local
  BY <1>1, <1>3, <1>4 DEF Tabled, Identity, Header, Honest
<1>5. CASE f \notin maker.local
  <2>1. /\ Identity(f) = maker.tree[f] /\ Header(f) = HeadOf("origin").files[f]
        /\ Was(f, maker.tree[f]) /\ Was(f, maker.table)
        /\ maker.tree[f] = built[f] => maker.table = built[f]
    BY <1>1, <1>5 DEF Identity, Header, Listed, Tabled
  <2>2. CASE maker.table = built[f]
    <3>1. Header(f) = built[f]
      BY <2>1, <2>2, NewestStays
    <3>2. context = ContextOf[f][Header(f)]
      BY <1>3, <2>2, <3>1
    <3> QED BY <1>1, <2>1, <3>1, <3>2 DEF Honest
  <2>3. CASE maker.table # built[f] /\ Header(f) = built[f]
    BY <1>1, <2>1, <2>3 DEF Honest
  <2>4. CASE maker.table # built[f] /\ Header(f) # built[f]
    <3>1. maker.table \in 1..built[f]
      <4>1. maker.table \in Builds /\ Absent \notin Builds
        BY PlaceFacts, AbsentAssumption DEF Makers, Builds
      <4>2. PICK k \in DOMAIN hub["origin"] : hub["origin"][k].files[f] = maker.table
        BY <2>1 DEF Was
      <4> QED BY <4>1, <4>2, ManifestAssumption DEF IInv, HubInv
    <3>2. built[f] = 2 /\ maker.table = 1 /\ Header(f) = 1 /\ Identity(f) = 1
      BY <1>2, <2>1, <2>4, <3>1 DEF Builds
    <3> QED BY <1>1, <1>3, <3>2 DEF Honest
  <2> QED BY <2>2, <2>3, <2>4
<1> QED BY <1>4, <1>5

\* One file more is described: truly, or with the hash of a build gone by.
LEMMA DescribeStep == ASSUME IInv, Describe PROVE IInv'
<1>1. Describing /\ maker.table # Absent /\ UNCHANGED <<hub, built, curated, out, app>>
  BY DEF Describe
<1>2. PICK f \in Files, p \in maker.rest : p = Place /\ f = Listing[p]
  BY <1>1, PlaceFacts
<1> DEFINE v(context) ==
             [file |-> f, sha256 |-> Identity(f), size |-> SizeOf[f][Identity(f)],
              backends |-> CuratedOf(f).backends, default |-> CuratedOf(f).default,
              recommended |-> CuratedOf(f).recommended,
              context |-> context, control |-> ControlOf[f][Header(f)]]
<1>3. PICK context \in ContextsRead(f) :
        maker' = [maker EXCEPT !.rest = maker.rest \ {p}, !.table = Absent,
                               !.variants = Append(maker.variants, v(context))]
  BY <1>2 DEF Describe
<1>4. PICK w : w = v(context)
  OBVIOUS
<1>5. maker # Idle /\ maker \in Makers
  BY <1>1, PlaceFacts
<1>6. Identity(f) \in Builds /\ Header(f) \in Builds
  BY <1>1, <1>2, PlaceFacts
<1>7. w \in Variants
  <2>1. /\ SizeOf[f][Identity(f)] \in FileSizes /\ ContextOf[f][Header(f)] \in Nat
        /\ ControlOf[f][Header(f)] \in STRING
    BY <1>6, ManifestAssumption
  <2>2. context \in Nat
    BY <2>1 DEF ContextsRead
  <2> QED BY <1>4, <1>6, <2>1, <2>2, CuratedFacts DEF IInv, Variants
<1>8. w.file = f /\ (NothingPutBack => Honest(w, HeadOf("origin").files[f], built[f]))
  <2>1. w.file = f /\ w.sha256 = Identity(f) /\ w.context = context
    BY <1>4
  <2> QED BY <1>1, <1>2, <2>1, DescribedHonestly
<1> HIDE DEF v
<1>9. /\ maker'.rest = maker.rest \ {p} /\ maker'.variants = Append(maker.variants, w)
      /\ maker'.tree = maker.tree /\ maker'.local = maker.local /\ maker'.at = "describe"
      /\ maker'.table = Absent
  BY <1>3, <1>4, <1>5 DEF Makers
<1>10. /\ maker.rest \in SUBSET DOMAIN Listing /\ maker.variants \in Seq(Variants)
       /\ maker.tree \in [Files -> Builds \cup {Absent}]
  BY <1>5 DEF Makers
<1>11. /\ Append(maker.variants, w) \in Seq(Variants)
       /\ DOMAIN Append(maker.variants, w) = DOMAIN maker.variants \cup {Len(maker.variants) + 1}
       /\ \A i \in DOMAIN maker.variants : Append(maker.variants, w)[i] = maker.variants[i]
       /\ Append(maker.variants, w)[Len(maker.variants) + 1] = w
  BY <1>7, <1>10, AppendProperties
<1>12. Listing' = Listing
  BY <1>1 DEF Listing
<1>13. TypeOK'
  <2>1. maker' \in Makers'
    BY <1>3, <1>4, <1>5, <1>10, <1>11, <1>12 DEF Makers
  <2> QED BY <1>1, <2>1 DEF IInv, TypeOK
<1>14. HubInv' /\ AppInv'
  BY <1>1, NoPush DEF IInv
<1>15. MakerInv'
  <2>1. /\ \A q \in maker.rest : Listing[q] \in Files /\ Listed(Listing[q])
        /\ \A q, r \in maker.rest : Listing[q] = Listing[r] => q = r
        /\ OncePerFile(maker.variants)
        /\ \A i \in DOMAIN maker.variants, q \in maker.rest : maker.variants[i].file # Listing[q]
        /\ NothingPutBack => HonestIn(maker.variants, HeadOf("origin").files, built)
    BY <1>5 DEF IInv, MakerInv
  <2>2. OncePerFile(maker'.variants)
    BY <1>2, <1>8, <1>9, <1>11, <2>1 DEF OncePerFile
  <2>3. ASSUME NEW i \in DOMAIN maker'.variants, NEW q \in maker'.rest
        PROVE  maker'.variants[i].file # Listing[q]
    <3>1. q \in maker.rest /\ q # p
      BY <1>9
    <3>2. CASE i \in DOMAIN maker.variants
      BY <1>9, <1>11, <2>1, <3>1, <3>2
    <3>3. CASE i \notin DOMAIN maker.variants
      BY <1>2, <1>8, <1>9, <1>11, <2>1, <3>1, <3>3
    <3> QED BY <3>2, <3>3
  <2>4. NothingPutBack => HonestIn(maker'.variants, HeadOf("origin").files, built)
    <3> SUFFICES ASSUME NothingPutBack, NEW i \in DOMAIN maker'.variants
                 PROVE  LET u == maker'.variants[i]
                        IN Honest(u, HeadOf("origin").files[u.file], built[u.file])
      BY DEF HonestIn
    <3>1. CASE i \in DOMAIN maker.variants
      BY <1>9, <1>11, <2>1, <3>1 DEF HonestIn
    <3>2. CASE i \notin DOMAIN maker.variants
      BY <1>8, <1>9, <1>11, <3>2
    <3> QED BY <3>1, <3>2
  <2>5. out # Absent /\ NothingPutBack => HonestIn(out.variants, HeadOf("origin").files, built)
    BY DEF IInv, MakerInv
  <2>6. ASSUME NEW q \in maker'.rest PROVE Listing[q] \in Files /\ Listed(Listing[q])'
    <3>1. PICK g \in Files : g = Listing[q] /\ Listed(g)
      BY <1>9, <2>1
    <3>2. Listed(g)'
      BY <1>1, <1>9, <3>1, NoPush DEF Listed
    <3> QED BY <1>12, <3>1, <3>2
  <2> QED BY <1>1, <1>9, <1>12, <2>1, <2>2, <2>3, <2>4, <2>5, <2>6, NoPush DEF MakerInv
<1> QED BY <1>13, <1>14, <1>15 DEF IInv

\* The manifest is complete: no file twice, and as honest as what was described.
LEMMA WriteStep == ASSUME IInv, NEW installed \in BOOLEAN, Write(installed) PROVE IInv'
<1> DEFINE m == [repo |-> "origin", variants |-> maker.variants,
                 context |-> IF maker.variants = <<>> THEN Absent ELSE maker.variants[1].context]
<1>1. /\ maker' = Idle /\ out' = m /\ UNCHANGED <<hub, built, curated, app>>
      /\ maker.at = "describe"
  BY DEF Write, MakerEnds, Described
<1>2. maker # Idle /\ maker \in Makers
  BY <1>1 DEF IInv, TypeOK, Idle
<1>3. /\ maker.variants \in Seq(Variants) /\ OncePerFile(maker.variants)
      /\ NothingPutBack => HonestIn(maker.variants, HeadOf("origin").files, built)
  BY <1>2 DEF Makers, IInv, MakerInv
<1>4. m \in Manifests
  <2>1. maker.variants # <<>> => maker.variants[1] \in Variants
    BY <1>3
  <2>2. m.context \in Nat \cup {Absent}
    BY <2>1 DEF Variants
  <2> QED BY <1>3, <2>2, ManifestAssumption DEF Manifests
<1>5. m.variants = maker.variants
  OBVIOUS
<1> HIDE DEF m
<1>6. TypeOK'
  BY <1>1, <1>4 DEF IInv, TypeOK
<1>7. HubInv' /\ AppInv'
  BY <1>1, NoPush DEF IInv
<1>8. MakerInv'
  BY <1>1, <1>3, <1>5, NoPush DEF MakerInv
<1> QED BY <1>6, <1>7, <1>8 DEF IInv

\* The generator stops without a manifest.
LEMMA MakerFails == ASSUME IInv, MakerEnds(Absent) PROVE IInv'
<1>1. maker' = Idle /\ out' = Absent /\ UNCHANGED <<hub, built, curated, app>>
  BY DEF MakerEnds
<1>2. TypeOK'
  BY <1>1 DEF IInv, TypeOK
<1>3. HubInv' /\ AppInv' /\ MakerInv'
  BY <1>1, NoPush DEF IInv, MakerInv
<1> QED BY <1>2, <1>3 DEF IInv

\* An upload makes a file another build: what was described stays honest if
\* that is the newest, and what is left to describe stays as listed.
LEMMA UploadBundleStep == ASSUME IInv, NEW f \in Files, UploadBundle(f) PROVE IInv'
<1> DEFINE head == HeadOf("origin")
<1>0. head = HeadOf("origin")
  OBVIOUS
<1>p. PICK b \in 1..built[f] : /\ Push("origin", [head EXCEPT !.files[f] = b])
                              /\ UNCHANGED <<built, curated, maker, out, app>>
  BY DEF UploadBundle
<1> HIDE DEF head
<1>1. /\ head = HeadOf("origin") /\ b \in 1..built[f]
      /\ Push("origin", [head EXCEPT !.files[f] = b])
      /\ UNCHANGED <<built, curated, maker, out, app>>
  BY <1>0, <1>p
<1>2. head \in Commits /\ built[f] \in Builds /\ b \in Builds /\ "origin" \in Repos
  BY HeadFacts, <1>1, ManifestAssumption DEF IInv, TypeOK, Builds
<1>3. PICK c \in Commits : c = [head EXCEPT !.files[f] = b]
  BY <1>2, CommitFacts
<1>4. /\ c.manifest = head.manifest
      /\ \A g \in Files : c.files[g] = IF g = f THEN b ELSE head.files[g]
  BY <1>2, <1>3 DEF Commits
<1>5. head = hub["origin"][Len(hub["origin"])] /\ Len(hub["origin"]) \in DOMAIN hub["origin"]
  BY <1>1, HeadFacts DEF IInv
<1>6. Push("origin", c)
  BY <1>1, <1>3
<1>7. ASSUME NothingPutBack', NEW g \in Files, head.files[g] = built[g] PROVE c.files[g] = built[g]
  <2>1. hub'["origin"] \in Seq(Commits) /\ hub'["origin"] # <<>> /\ Last(hub'["origin"]) = c
        /\ Len(hub["origin"]) \in DOMAIN hub'["origin"] /\ hub'["origin"][Len(hub["origin"])] = head
    BY <1>2, <1>5, <1>6, PushFacts DEF IInv
  <2>2. /\ Len(hub'["origin"]) \in DOMAIN hub'["origin"] /\ hub'["origin"][Len(hub'["origin"])] = c
        /\ Len(hub["origin"]) <= Len(hub'["origin"])
    BY <2>1 DEF Last
  <2> QED BY <1>1, <1>2, <1>7, <2>1, <2>2 DEF NothingPutBack
<1>8. ASSUME NothingPutBack', NEW variants \in Seq(Variants), HonestIn(variants, head.files, built)
      PROVE  HonestIn(variants, c.files, built)
  <2> SUFFICES ASSUME NEW i \in DOMAIN variants
               PROVE  LET g == variants[i].file IN Honest(variants[i], c.files[g], built[g])
    BY DEF HonestIn
  <2>1. variants[i] \in Variants
    OBVIOUS
  <2>2. variants[i].file \in Files
    BY <2>1 DEF Variants
  <2>3. Honest(variants[i], head.files[variants[i].file], built[variants[i].file])
    BY <1>8 DEF HonestIn
  <2> QED BY <1>7, <1>8, <2>2, <2>3 DEF Honest
<1>9. NothingPutBack' => NothingPutBack
  BY <1>1, <1>2, <1>6, PutBackStays DEF IInv
<1>10. HubInv'
  <2>1. \A g \in Files : c.files[g] \in (1..built[g]) \cup {Absent}
    BY <1>2, <1>4, <1>5 DEF IInv, HubInv
  <2>2. NothingPutBack' /\ c.manifest # Absent => HonestIn(c.manifest.variants, c.files, built)
    <3> SUFFICES ASSUME NothingPutBack', head.manifest # Absent
                 PROVE  HonestIn(head.manifest.variants, c.files, built)
      BY <1>4
    <3>1. head.manifest.variants \in Seq(Variants)
      BY <1>2 DEF Commits, Manifests
    <3>2. HonestIn(head.manifest.variants, head.files, built)
      BY <1>2, <1>5, <1>9 DEF IInv, HubInv
    <3> QED BY <1>8, <3>1, <3>2
  <2> QED BY <1>1, <1>2, <1>6, <2>1, <2>2, PushKeepsHub DEF IInv
<1>11. AppInv'
  BY <1>1, <1>2, <1>6, PushKeepsApp DEF IInv
<1>12. /\ hub' \in [Repos -> Seq(Commits)] /\ HeadOf("origin")' = c
       /\ \A g, d : Was(g, d) => Was(g, d)'
  BY <1>2, <1>6, PushFacts DEF IInv, HeadOf, Was
<1>13. Listing' = Listing /\ Place' = Place
  BY <1>1 DEF Listing, Place
<1>14. TypeOK'
  BY <1>1, <1>12, <1>13 DEF IInv, TypeOK, Makers
<1>15. MakerInv'
  <2>1. out # Absent /\ NothingPutBack' => HonestIn(out.variants, c.files, built)
    <3>1. out # Absent => out.variants \in Seq(Variants)
      BY DEF IInv, TypeOK, Manifests
    <3> QED BY <1>1, <1>8, <1>9, <3>1 DEF IInv, MakerInv
  <2>2. maker # Idle /\ NothingPutBack' => HonestIn(maker.variants, c.files, built)
    <3>1. maker # Idle => maker.variants \in Seq(Variants)
      BY DEF IInv, TypeOK, Makers
    <3> QED BY <1>1, <1>8, <1>9, <3>1 DEF IInv, MakerInv
  <2>3. ASSUME NEW g \in Files, Listed(g) PROVE Listed(g)'
    BY <1>1, <1>2, <1>4, <1>12, <2>3 DEF Listed
  <2>4. ASSUME NEW g, Tabled(g) PROVE Tabled(g)'
    BY <1>1, <1>9, <1>12, <2>4 DEF Tabled
  <2> QED BY <1>1, <1>12, <1>13, <2>1, <2>2, <2>3, <2>4 DEF IInv, MakerInv
<1> QED BY <1>10, <1>11, <1>14, <1>15 DEF IInv

\* The manifest is uploaded to the files it is honest about.
LEMMA UploadManifestStep == ASSUME IInv, UploadManifest PROVE IInv'
<1> DEFINE head == HeadOf("origin")
           c == [head EXCEPT !.manifest = out]
<1>1. Push("origin", c) /\ out # Absent /\ out' = Absent /\ UNCHANGED <<built, curated, maker, app>>
  BY DEF UploadManifest
<1>2. head \in Commits /\ out \in Manifests /\ "origin" \in Repos
  BY <1>1, HeadFacts, ManifestAssumption DEF IInv, TypeOK
<1>3. c \in Commits /\ c.manifest = out /\ c.files = head.files
  BY <1>2, CommitFacts DEF Commits
<1>4. head = hub["origin"][Len(hub["origin"])] /\ Len(hub["origin"]) \in DOMAIN hub["origin"]
  BY HeadFacts DEF IInv
<1>5. NothingPutBack => HonestIn(out.variants, head.files, built)
  BY <1>1 DEF IInv, MakerInv
<1> HIDE DEF head, c
<1>6. HubInv'
  <2>1. \A g \in Files : c.files[g] \in (1..built[g]) \cup {Absent}
    BY <1>2, <1>3, <1>4 DEF IInv, HubInv
  <2>2. NothingPutBack' => NothingPutBack
    BY <1>1, <1>2, <1>3, PutBackStays DEF IInv
  <2> QED BY <1>1, <1>2, <1>3, <1>5, <2>1, <2>2, PushKeepsHub DEF IInv
<1>7. AppInv'
  BY <1>1, <1>2, <1>3, PushKeepsApp DEF IInv
<1>8. /\ hub' \in [Repos -> Seq(Commits)] /\ HeadOf("origin")' = c
      /\ \A g, d : Was(g, d) => Was(g, d)'
      /\ NothingPutBack' => NothingPutBack
  BY <1>1, <1>2, <1>3, PushFacts, PutBackStays DEF IInv, HeadOf, Was
<1>9. Listing' = Listing /\ Place' = Place
  BY <1>1 DEF Listing, Place
<1>10. TypeOK'
  BY <1>1, <1>8, <1>9 DEF IInv, TypeOK, Makers
<1>11. MakerInv'
  <2>1. ASSUME NEW g, Listed(g) PROVE Listed(g)'
    BY <1>1, <1>3, <1>8, <2>1 DEF Listed, head
  <2>2. ASSUME NEW g, Tabled(g) PROVE Tabled(g)'
    BY <1>1, <1>8, <2>2 DEF Tabled
  <2> QED BY <1>1, <1>3, <1>8, <1>9, <2>1, <2>2 DEF IInv, MakerInv, head
<1> QED BY <1>6, <1>7, <1>10, <1>11 DEF IInv

\* A fork begins with the origin's newest commit.
LEMMA ForkStep == ASSUME IInv, Fork PROVE IInv'
<1> DEFINE c == HeadOf("origin")
<1>1. Push("fork", c) /\ hub["fork"] = <<>> /\ UNCHANGED <<built, curated, maker, out, app>>
  BY DEF Fork
<1>2. c \in Commits /\ "fork" \in Repos /\ "origin" \in Repos
  BY HeadFacts, ManifestAssumption DEF IInv
<1>3. c = hub["origin"][Len(hub["origin"])] /\ Len(hub["origin"]) \in DOMAIN hub["origin"]
  BY HeadFacts DEF IInv
<1>4. /\ NothingPutBack /\ c.manifest # Absent => HonestIn(c.manifest.variants, c.files, built)
      /\ \A g \in Files : c.files[g] \in (1..built[g]) \cup {Absent}
  BY <1>2, <1>3 DEF IInv, HubInv
<1>5. HubInv' /\ (NothingPutBack' => NothingPutBack)
  <2> HIDE DEF c
  <2>1. NothingPutBack' => NothingPutBack
    BY <1>1, <1>2, PutBackStays DEF IInv
  <2> QED BY <1>1, <1>2, <1>4, <2>1, PushKeepsHub DEF IInv
<1>6. AppInv'
  <2> HIDE DEF c
  <2> QED BY <1>1, <1>2, PushKeepsApp DEF IInv
<1>7. hub' \in [Repos -> Seq(Commits)] /\ hub'["origin"] = hub["origin"]
  <2> HIDE DEF c
  <2> QED BY <1>1, <1>2, PushFacts DEF IInv
<1>8. /\ HeadOf("origin")' = HeadOf("origin") /\ Listing' = Listing /\ Place' = Place
      /\ \A g, d : Was(g, d) => Was(g, d)'
  BY <1>1, <1>7 DEF HeadOf, Listing, Place, Was
<1>9. TypeOK'
  BY <1>1, <1>7, <1>8 DEF IInv, TypeOK, Makers
<1>10. MakerInv'
  <2>1. ASSUME NEW g, Listed(g) PROVE Listed(g)'
    BY <1>1, <1>8, <2>1 DEF Listed
  <2>2. ASSUME NEW g, Tabled(g) PROVE Tabled(g)'
    BY <1>1, <1>5, <1>8, <2>2 DEF Tabled
  <2> QED BY <1>1, <1>5, <1>8, <2>1, <2>2 DEF IInv, MakerInv
<1> QED BY <1>5, <1>6, <1>9, <1>10 DEF IInv

LEMMA ListingStays == UNCHANGED curated => UNCHANGED Listing
BY DEF Listing

\* A revision of a repo that exists is one of its commits.
LEMMA AtFacts ==
  ASSUME TypeOK, NEW r \in Repos, hub[r] # <<>>, NEW revision \in Nat, revision <= Len(hub[r])
  PROVE  /\ CommitAt(r, revision) \in DOMAIN hub[r] /\ CommitAt(r, revision) \in Nat
         /\ At(r, revision) = hub[r][CommitAt(r, revision)] /\ At(r, revision) \in Commits
         /\ revision # Main => CommitAt(r, revision) = revision
         /\ revision = Main => \A n \in DOMAIN hub[r] : n <= CommitAt(r, revision)
<1>1. hub[r] \in Seq(Commits) /\ Len(hub[r]) \in Nat /\ DOMAIN hub[r] = 1..Len(hub[r])
  BY DEF TypeOK
<1>2. Len(hub[r]) > 0
  BY <1>1
<1>3. CommitAt(r, revision) \in DOMAIN hub[r]
  BY <1>1, <1>2 DEF CommitAt, Main
<1> QED BY <1>1, <1>2, <1>3 DEF CommitAt, At, Main

\* A manifest is fetched from a commit of its repo.
LEMMA FetchStep ==
  ASSUME IInv, NEW reader \in {"ts", "dart"}, NEW repo \in Repos, NEW revision \in 0..MaxCommits,
         Fetch(reader, repo, revision)
  PROVE  IInv'
<1> DEFINE m == At(repo, revision).manifest
<1>1. /\ app = Idle /\ hub[repo] # <<>> /\ revision <= Len(hub[repo]) /\ Parses(m)
      /\ app' = [at |-> "fetched", reader |-> reader, source |-> repo, revision |-> revision,
                 commit |-> CommitAt(repo, revision), manifest |-> Stamp(m, repo, revision),
                 asked |-> Absent, answer |-> Absent, got |-> Absent]
      /\ UNCHANGED <<hub, built, curated, maker, out>>
  BY DEF Fetch
<1>2. revision \in Nat
  BY ManifestAssumption
<1>3. PICK k \in DOMAIN hub[repo] :
        /\ k = CommitAt(repo, revision) /\ k \in Nat
        /\ At(repo, revision) = hub[repo][k] /\ hub[repo][k] \in Commits
        /\ revision # Main => k = revision
  BY <1>1, <1>2, AtFacts DEF IInv
<1>4. m = hub[repo][k].manifest /\ m # Absent /\ m \in Manifests
  BY <1>1, <1>3 DEF Parses, Commits
<1> HIDE DEF m
<1>5. Stamp(m, repo, revision) \in Stamped
  <2>1. Stamp(m, repo, revision) \in Fetched
    BY <1>2, <1>4 DEF Stamp, Fetched, Manifests
  <2>2. Stamp(m, repo, revision) # Absent
    BY <2>1, AbsentAssumption
  <2>3. Stamp(m, repo, revision).variants = m.variants
    BY DEF Stamp
  <2>4. OncePerFile(m.variants) /\ Parses(m)
    BY <1>1, <1>4 DEF Manifests
  <2> QED BY <2>1, <2>2, <2>3, <2>4 DEF Stamped, Parses
<1>6. app' \in Apps
  BY <1>1, <1>2, <1>3, <1>5 DEF Apps
<1>7. TypeOK'
  BY <1>1, <1>6, ListingStays DEF IInv, TypeOK, Makers, Apps
<1>8. HubInv' /\ MakerInv'
  BY <1>1, NoPush DEF IInv
<1>9. AppInv'
  <2>1. AppFrom(k)'
    BY <1>1, <1>3, <1>4 DEF AppFrom
  <2>2. k \in DOMAIN hub'[app'.source]
    BY <1>1, <1>3
  <2> QED BY <2>1, <2>2 DEF AppInv
<1> QED BY <1>7, <1>8, <1>9 DEF IInv

LEMMA ResolveStep == ASSUME IInv, NEW o \in Options, Resolve(o) PROVE IInv'
<1> DEFINE a == IF app.reader = "ts" THEN TsResolve(app.manifest, o) ELSE DartResolve(app.manifest, o)
<1>1. /\ app.at = "fetched" /\ UNCHANGED <<hub, built, curated, maker, out>>
      /\ app' = [app EXCEPT !.at = "resolved", !.asked = o, !.answer = a]
  BY DEF Resolve
<1>2. app # Idle /\ app \in Apps
  BY <1>1 DEF IInv, TypeOK, Idle
<1>3. app.manifest \in Stamped
  BY <1>2 DEF Apps
<1>4. a \in Resolutions \cup {Absent}
  BY <1>3, AnswerFacts DEF AnswerFor
<1>5. a = IF app.reader = "ts" THEN TsResolve(app.manifest, o) ELSE DartResolve(app.manifest, o)
  OBVIOUS
<1> HIDE DEF a
<1>6. /\ app' \in Apps /\ app'.at = "resolved" /\ app'.asked = o /\ app'.answer = a
      /\ app'.reader = app.reader /\ app'.source = app.source /\ app'.revision = app.revision
      /\ app'.manifest = app.manifest /\ app'.commit = app.commit
  BY <1>1, <1>2, <1>4 DEF Apps
<1>7. TypeOK'
  BY <1>1, <1>6, ListingStays DEF IInv, TypeOK, Makers, Apps
<1>8. HubInv' /\ MakerInv'
  BY <1>1, NoPush DEF IInv
<1>9. AppInv'
  <2>1. PICK k \in DOMAIN hub[app.source] : AppFrom(k)
    BY <1>2 DEF IInv, AppInv
  <2>2. AppFrom(k)'
    BY <1>1, <1>5, <1>6, <2>1 DEF AppFrom
  <2>3. k \in DOMAIN hub'[app'.source]
    BY <1>1, <1>6
  <2> QED BY <2>2, <2>3 DEF AppInv
<1> QED BY <1>7, <1>8, <1>9 DEF IInv

\* The file downloaded is of the commit fetched at, or of a later one, unless
\* an older one was asked for; or there is none.
LEMMA DownloadStep == ASSUME IInv, Download PROVE IInv'
<1> DEFINE url == app.answer
           got == Behind(url)
<1>1. /\ app.at = "resolved" /\ app.answer # Absent /\ UNCHANGED <<hub, built, curated, maker, out>>
      /\ app' = [app EXCEPT !.at = "downloaded", !.got = got]
  BY DEF Download
<1>2. app # Idle /\ app \in Apps
  BY <1>1 DEF IInv, TypeOK, Idle
<1>3. app.manifest \in Stamped /\ app.source \in Repos /\ app.revision \in Nat
  BY <1>2 DEF Apps
<1>4. PICK k \in DOMAIN hub[app.source] : AppFrom(k)
  BY <1>2 DEF IInv, AppInv
<1>5. /\ app.asked \in Options
      /\ app.answer \in {TsResolve(app.manifest, app.asked), DartResolve(app.manifest, app.asked)}
      /\ app.manifest.repo = app.source /\ app.manifest.revision = app.revision
      /\ app.commit = k /\ (app.revision # Main => app.revision = k)
  BY <1>1, <1>4 DEF AppFrom, Stamp
<1>6. AnswerFor(app.manifest, app.asked, app.answer)
  BY <1>3, <1>5, AnswerFacts
<1>7. /\ url \in Resolutions /\ url.repo = app.source
      /\ url.revision = Or(app.asked.revision, app.revision)
  BY <1>1, <1>5, <1>6 DEF AnswerFor
<1>8. app.asked.revision \in Nat \cup {Absent}
  BY <1>3, <1>5, RequestFacts
<1>9. hub[app.source] \in Seq(Commits) /\ hub[app.source] # <<>>
      /\ k \in Nat /\ k <= Len(hub[app.source]) /\ Len(hub[app.source]) \in Nat
  BY <1>3, <1>4 DEF IInv, TypeOK
<1>10. /\ url.revision \in Nat
       /\ app.asked.revision = Absent => url.revision = app.revision
       /\ app.asked.revision # Absent => url.revision = app.asked.revision
  BY <1>3, <1>7, <1>8 DEF Or
<1> DEFINE Gets == \/ got = Absent /\ app.asked.revision # Absent
                   \/ \E n \in DOMAIN hub[app.source] :
                        /\ got = hub[app.source][n].files[app.answer.file]
                        /\ AskedNoOlder => k <= n
                        /\ app.revision # Main /\ app.asked.revision = Absent => n = k
<1>11. ASSUME url.revision > Len(hub[app.source]) PROVE Gets /\ got \in Builds \cup {Absent}
  <2>1. got = Absent
    BY <1>7, <1>9, <1>10, <1>11 DEF Behind
  <2>2. app.asked.revision # Absent
    BY <1>3, <1>5, <1>9, <1>10, <1>11 DEF Main
  <2> QED BY <2>1, <2>2
<1>12. ASSUME url.revision <= Len(hub[app.source]) PROVE Gets /\ got \in Builds \cup {Absent}
  <2>1. PICK n \in DOMAIN hub[app.source] :
          /\ At(app.source, url.revision) = hub[app.source][n] /\ hub[app.source][n] \in Commits
          /\ url.revision # Main => n = url.revision
          /\ url.revision = Main => \A i \in DOMAIN hub[app.source] : i <= n
    BY <1>3, <1>9, <1>10, <1>12, AtFacts DEF IInv
  <2>2. got = hub[app.source][n].files[app.answer.file]
    BY <1>7, <1>12, <2>1 DEF Behind
  <2>3. ASSUME AskedNoOlder PROVE k <= n
    <3>1. CASE url.revision = Main
      BY <2>1, <3>1
    <3>2. CASE url.revision # Main
      <4>1. url.revision >= k
        BY <1>5, <1>9, <1>10, <2>3, <3>2 DEF AskedNoOlder
      <4> QED BY <1>9, <1>10, <2>1, <3>2, <4>1
    <3> QED BY <3>1, <3>2
  <2>4. app.revision # Main /\ app.asked.revision = Absent => n = k
    BY <1>5, <1>10, <2>1
  <2>5. got \in Builds \cup {Absent}
    <3>1. hub[app.source][n].files \in [Files -> Builds \cup {Absent}] /\ app.answer.file \in Files
      BY <1>7, <2>1, CommitFacts DEF Resolutions
    <3> QED BY <2>2, <3>1
  <2> QED BY <2>2, <2>3, <2>4, <2>5
<1>13. Gets /\ got \in Builds \cup {Absent}
  <2> HIDE DEF Gets, got
  <2> QED BY <1>9, <1>10, <1>11, <1>12
<1>14. PICK build \in Builds \cup {Absent} : build = got
  BY <1>13
<1> HIDE DEF url, got
<1>15. /\ app' \in Apps /\ app'.at = "downloaded" /\ app'.got = build /\ app'.asked = app.asked
       /\ app'.answer = app.answer /\ app'.reader = app.reader /\ app'.source = app.source
       /\ app'.revision = app.revision /\ app'.manifest = app.manifest /\ app'.commit = app.commit
  BY <1>1, <1>2, <1>14 DEF Apps
<1>16. TypeOK'
  BY <1>1, <1>15, ListingStays DEF IInv, TypeOK, Makers, Apps
<1>17. HubInv' /\ MakerInv'
  BY <1>1, NoPush DEF IInv
<1>18. AppInv'
  <2>1. AskedNoOlder' <=> AskedNoOlder
    BY <1>15 DEF AskedNoOlder
  <2>2. AppFrom(k)'
    BY <1>1, <1>4, <1>13, <1>14, <1>15, <2>1 DEF AppFrom
  <2>3. k \in DOMAIN hub'[app'.source]
    BY <1>1, <1>15
  <2> QED BY <2>2, <2>3 DEF AppInv
<1> QED BY <1>16, <1>17, <1>18 DEF IInv

LEMMA ManifestStep == IInv /\ [Next]_vars => IInv'
<1> SUFFICES ASSUME IInv, [Next]_vars PROVE IInv'
  OBVIOUS
<1>1. CASE UNCHANGED vars
  <2>1. UNCHANGED <<hub, built, curated, maker, out, app>>
    BY <1>1 DEF vars
  <2>2. TypeOK'
    BY <2>1, ListingStays DEF IInv, TypeOK, Makers, Apps
  <2>3. HubInv' /\ MakerInv' /\ AppInv'
    BY <2>1, NoPush DEF IInv
  <2> QED BY <2>2, <2>3 DEF IInv
<1>2. CASE MakerSteps
  <2>1. ASSUME NEW local \in SUBSET {f \in Files : built[f] = 2},
               NEW onlyCurated \in BOOLEAN, NEW noHub \in BOOLEAN, StartMaker(local, onlyCurated, noHub)
        PROVE  IInv'
    <3>1. local \in SUBSET Files
      OBVIOUS
    <3> QED BY <2>1, <3>1, StartStep
  <2>2. ASSUME MakerEnds(Absent) PROVE IInv'
    BY <2>2, MakerFails
  <2> QED BY <1>2, <2>1, <2>2, ReadTableStep, DescribeStep, WriteStep DEF MakerSteps, Garbled, GiveUp
<1>3. CASE \E f \in Files : UploadBundle(f)
  BY <1>3, UploadBundleStep
<1>4. CASE UploadManifest
  BY <1>4, UploadManifestStep
<1>5. CASE Fork
  BY <1>5, ForkStep
<1>6. CASE \E reader \in {"ts", "dart"}, repo \in Repos, revision \in 0..MaxCommits :
             Fetch(reader, repo, revision)
  BY <1>6, FetchStep
<1>7. CASE \E o \in Options : Resolve(o)
  BY <1>7, ResolveStep
<1>8. CASE Download
  BY <1>8, DownloadStep
<1> QED BY <1>1, <1>2, <1>3, <1>4, <1>5, <1>6, <1>7, <1>8 DEF Next

LEMMA ManifestInvariant == Spec => []IInv
BY ManifestInit, ManifestStep, PTL DEF Spec

\* Every manifest written, uploaded or fetched names each file once, and a
\* resolution names a file, a backend, a repo and a revision.
THEOREM ManifestTypes == Spec => []TypeOK
<1>1. IInv => TypeOK
  BY DEF IInv
<1> QED BY <1>1, ManifestInvariant, PTL

-----------------------------------------------------------------------------
(* No empty class anywhere *)

LEMMA PlainFirst == ASSUME Plain PROVE Init => PlainInv
<1> SUFFICES ASSUME Init PROVE PlainInv
  OBVIOUS
<1>1. maker = Idle /\ out = Absent /\ app = Idle
  BY DEF Init
<1>2. PlainList(<<>>)
  BY DEF PlainList
<1>3. ASSUME NEW c, hub = [r \in Repos |-> IF r = "origin" THEN <<c>> ELSE <<>>],
             c.manifest # Absent => PlainList(c.manifest.variants),
             PlainList(curated)
      PROVE  PlainInv
  <2>1. \A r \in Repos : \A k \in DOMAIN hub[r] : hub[r][k] = c
    BY <1>3
  <2> QED BY <1>1, <1>3, <2>1 DEF PlainInv
<1>4. CASE \E first \in [Files -> {1, Absent}] :
             /\ hub = [r \in Repos |-> IF r = "origin" THEN <<Commit(first, Absent)>> ELSE <<>>]
             /\ built \in {b \in [Files -> Builds] : \A f \in Files : first[f] = Absent => b[f] = 2}
             /\ curated \in Curateds
  <2>1. PICK first : hub = [r \in Repos |-> IF r = "origin" THEN <<Commit(first, Absent)>> ELSE <<>>]
    BY <1>4
  <2>2. Commit(first, Absent).manifest = Absent
    BY DEF Commit
  <2>3. PlainList(curated)
    BY <1>4 DEF Plain
  <2> QED BY <1>3, <2>1, <2>2, <2>3
<1>5. CASE \E m \in HandMade :
             /\ hub = [r \in Repos |-> IF r = "origin" THEN <<Commit([f \in Files |-> 1], m)>> ELSE <<>>]
             /\ built = [f \in Files |-> 1]
             /\ curated = <<>>
  <2>1. PICK m \in HandMade :
          hub = [r \in Repos |-> IF r = "origin" THEN <<Commit([f \in Files |-> 1], m)>> ELSE <<>>]
    BY <1>5
  <2>2. Commit([f \in Files |-> 1], m).manifest = m /\ PlainList(m.variants)
    BY DEF Commit, Plain
  <2>3. PlainList(curated)
    BY <1>2, <1>5
  <2> QED BY <1>3, <2>1, <2>2, <2>3
<1> QED BY <1>4, <1>5 DEF Init

\* A commit pushed with a plain manifest, nothing else changed but out.
LEMMA PushKeepsPlain ==
  ASSUME TypeOK, PlainInv, NEW r \in Repos, NEW c \in Commits, Push(r, c),
         UNCHANGED <<curated, maker, app>>, out' \in {out, Absent},
         c.manifest # Absent => PlainList(c.manifest.variants)
  PROVE  PlainInv'
<1>1. ASSUME NEW q \in Repos, NEW k \in DOMAIN hub'[q], hub'[q][k].manifest # Absent
      PROVE  PlainList(hub'[q][k].manifest.variants)
  <2>1. CASE k \in DOMAIN hub[q]
    BY <1>1, <2>1, PushFacts DEF PlainInv
  <2>2. CASE k \notin DOMAIN hub[q]
    <3>1. q = r /\ hub'[q][k] = c
      BY <2>2, PushFacts
    <3> QED BY <1>1, <3>1
  <2> QED BY <2>1, <2>2
<1> QED BY <1>1 DEF PlainInv

LEMMA DescribePlain == ASSUME IInv, PlainInv, Describe PROVE PlainInv'
<1>1. Describing /\ UNCHANGED <<hub, built, curated, out, app>>
  BY DEF Describe
<1>2. PICK v : /\ maker'.variants = Append(maker.variants, v)
               /\ v.recommended = CuratedOf(Listing[Place]).recommended
  <2> DEFINE f == Listing[Place]
             w(context) ==
               [file |-> f, sha256 |-> Identity(f), size |-> SizeOf[f][Identity(f)],
                backends |-> CuratedOf(f).backends, default |-> CuratedOf(f).default,
                recommended |-> CuratedOf(f).recommended,
                context |-> context, control |-> ControlOf[f][Header(f)]]
  <2>1. PICK context : maker' = [maker EXCEPT !.rest = maker.rest \ {Place}, !.table = Absent,
                                              !.variants = Append(maker.variants, w(context))]
    BY DEF Describe
  <2>2. PICK v : v = w(context)
    OBVIOUS
  <2>3. v.recommended = CuratedOf(f).recommended
    BY <2>2
  <2>4. maker \in Makers
    BY <1>1, PlaceFacts
  <2> HIDE DEF w
  <2>5. maker'.variants = Append(maker.variants, v)
    BY <2>1, <2>2, <2>4 DEF Makers
  <2> QED BY <2>3, <2>5
<1>3. maker # Idle /\ maker \in Makers /\ PlainList(maker.variants)
  BY <1>1, PlaceFacts DEF PlainInv
<1>4. maker.variants \in Seq(Variants)
  BY <1>3 DEF Makers
<1>5. \A k \in DOMAIN v.recommended : v.recommended[k].class # Blank
  BY <1>2, CuratedFacts DEF IInv, PlainInv
<1>6. ASSUME NEW i \in DOMAIN maker'.variants, NEW k \in DOMAIN maker'.variants[i].recommended
      PROVE  maker'.variants[i].recommended[k].class # Blank
  <2>1. Len(maker.variants) \in Nat /\ DOMAIN maker.variants = 1..Len(maker.variants)
        /\ DOMAIN maker'.variants = 1..(Len(maker.variants) + 1)
    BY <1>2, <1>4
  <2>2. CASE i \in DOMAIN maker.variants
    <3>1. maker'.variants[i] = maker.variants[i]
      BY <1>2, <1>4, <2>1, <2>2
    <3> QED BY <1>3, <1>6, <2>2, <3>1 DEF PlainList
  <2>3. CASE i \notin DOMAIN maker.variants
    <3>1. i = Len(maker.variants) + 1
      BY <2>1, <2>3
    <3>2. maker'.variants[i] = v
      BY <1>2, <1>4, <2>1, <3>1
    <3> QED BY <1>5, <1>6, <3>2
  <2> QED BY <2>2, <2>3
<1> QED BY <1>1, <1>6 DEF PlainInv, PlainList

\* A step adds no empty class: what is written, uploaded and fetched is what
\* was curated or written by hand.
LEMMA PlainStep == IInv /\ PlainInv /\ [Next]_vars => PlainInv'
<1> SUFFICES ASSUME IInv, PlainInv, [Next]_vars PROVE PlainInv'
  OBVIOUS
<1>1. TypeOK /\ HubInv
  BY DEF IInv
<1>2. /\ HeadOf("origin") \in Commits
      /\ HeadOf("origin").manifest # Absent => PlainList(HeadOf("origin").manifest.variants)
  BY <1>1, HeadFacts, ManifestAssumption DEF PlainInv
<1>3. CASE UNCHANGED vars
  BY <1>3 DEF vars, PlainInv
<1>4. ASSUME NEW local, NEW onlyCurated, NEW noHub, StartMaker(local, onlyCurated, noHub)
      PROVE  PlainInv'
  <2>1. maker'.variants = <<>> /\ UNCHANGED <<hub, curated, out, app>>
    BY <1>4 DEF StartMaker
  <2>2. PlainList(maker'.variants)
    BY <2>1 DEF PlainList
  <2> QED BY <2>1, <2>2 DEF PlainInv
<1>5. CASE Describe
  BY <1>5, DescribePlain
<1>6. ASSUME NEW installed, Write(installed) PROVE PlainInv'
  <2>1. out'.variants = maker.variants /\ maker' = Idle /\ maker # Idle
        /\ UNCHANGED <<hub, curated, app>>
    BY <1>6 DEF Write, MakerEnds, Described, Idle
  <2> QED BY <2>1 DEF PlainInv
<1>7. ASSUME MakerEnds(Absent) PROVE PlainInv'
  BY <1>7 DEF MakerEnds, PlainInv
<1>8. ASSUME NEW f \in Files, UploadBundle(f) PROVE PlainInv'
  <2>1. PICK b \in 1..built[f] : Push("origin", [HeadOf("origin") EXCEPT !.files[f] = b])
                                 /\ UNCHANGED <<curated, maker, out, app>>
    BY <1>8 DEF UploadBundle
  <2> DEFINE c == [HeadOf("origin") EXCEPT !.files[f] = b]
  <2>2. c \in Commits /\ c.manifest = HeadOf("origin").manifest
    <3>1. b \in Builds
      BY <1>1 DEF TypeOK, Builds
    <3>2. c \in Commits
      BY <1>2, <3>1, CommitFacts
    <3> QED BY <1>2, <3>2 DEF Commits
  <2> HIDE DEF c
  <2> QED BY <1>1, <1>2, <2>1, <2>2, PushKeepsPlain, ManifestAssumption DEF c
<1>9. CASE UploadManifest
  <2> DEFINE c == [HeadOf("origin") EXCEPT !.manifest = out]
  <2>1. c \in Commits /\ c.manifest = out /\ PlainList(out.variants)
    <3>1. out \in Manifests /\ out # Absent
      BY <1>1, <1>9 DEF UploadManifest, TypeOK
    <3>2. c \in Commits
      BY <1>2, <3>1, CommitFacts
    <3> QED BY <1>2, <3>1, <3>2 DEF Commits, PlainInv
  <2>2. Push("origin", c) /\ out' = Absent /\ UNCHANGED <<curated, maker, app>>
    BY <1>9 DEF UploadManifest
  <2> HIDE DEF c
  <2> QED BY <1>1, <2>1, <2>2, PushKeepsPlain, ManifestAssumption
<1>10. CASE Fork
  <2>1. Push("fork", HeadOf("origin")) /\ UNCHANGED <<curated, maker, out, app>>
    BY <1>10 DEF Fork
  <2> QED BY <1>1, <1>2, <2>1, PushKeepsPlain, ManifestAssumption
<1>11. ASSUME NEW reader, NEW repo \in Repos, NEW revision \in 0..MaxCommits,
              Fetch(reader, repo, revision)
       PROVE  PlainInv'
  <2> DEFINE m == At(repo, revision).manifest
  <2>1. /\ hub[repo] # <<>> /\ revision <= Len(hub[repo]) /\ m # Absent
        /\ app'.manifest = Stamp(m, repo, revision)
        /\ UNCHANGED <<hub, curated, maker, out>>
    BY <1>11 DEF Fetch, Parses
  <2>2. PICK k \in DOMAIN hub[repo] : At(repo, revision) = hub[repo][k]
    BY <1>1, <2>1, AtFacts, ManifestAssumption
  <2>3. PlainList(m.variants)
    BY <2>1, <2>2 DEF PlainInv
  <2>4. app'.manifest.variants = m.variants
    BY <2>1 DEF Stamp
  <2> HIDE DEF m
  <2> QED BY <2>1, <2>3, <2>4 DEF PlainInv
<1>12. ASSUME NEW o, Resolve(o) PROVE PlainInv'
  <2>1. app # Idle /\ app \in Apps
    BY <1>1, <1>12 DEF Resolve, TypeOK, Idle
  <2>2. app'.manifest = app.manifest /\ UNCHANGED <<hub, curated, maker, out>>
    BY <1>12, <2>1 DEF Resolve, Apps
  <2> QED BY <2>1, <2>2 DEF PlainInv
<1>13. CASE Download
  <2>1. app # Idle /\ app \in Apps
    BY <1>1, <1>13 DEF Download, TypeOK, Idle
  <2>2. app'.manifest = app.manifest /\ UNCHANGED <<hub, curated, maker, out>>
    BY <1>13, <2>1 DEF Download, Apps
  <2> QED BY <2>1, <2>2 DEF PlainInv
<1>14. CASE ReadTable
  <2>1. maker # Idle /\ maker \in Makers
    BY <1>14, PlaceFacts DEF ReadTable
  <2>2. maker'.variants = maker.variants /\ UNCHANGED <<hub, curated, out, app>>
    BY <1>14, <2>1 DEF ReadTable, Makers
  <2> QED BY <2>1, <2>2 DEF PlainInv
<1> QED BY <1>3, <1>4, <1>5, <1>6, <1>7, <1>8, <1>9, <1>10, <1>11, <1>12, <1>13, <1>14 DEF Next,
  MakerSteps, Garbled, GiveUp

LEMMA PlainInvariant == ASSUME Plain PROVE Spec => [](IInv /\ PlainInv)
<1>1. Init => PlainInv
  BY PlainFirst
<1> QED BY <1>1, ManifestInit, ManifestStep, PlainStep, PTL DEF Spec

-----------------------------------------------------------------------------
(* What an app that has resolved and downloaded knows *)

LEMMA ResolvedFacts ==
  ASSUME IInv, Resolved
  PROVE  /\ app \in Apps /\ app # Idle /\ app.manifest \in Stamped /\ app.asked \in Options
         /\ app.answer = IF app.reader = "ts" THEN TsResolve(app.manifest, app.asked)
                         ELSE DartResolve(app.manifest, app.asked)
         /\ AnswerFor(app.manifest, app.asked, app.answer)
<1>1. app # Idle /\ app \in Apps /\ app.at # "fetched"
  BY DEF IInv, TypeOK, Resolved, Idle
<1>2. PICK k \in DOMAIN hub[app.source] : AppFrom(k)
  BY <1>1 DEF IInv, AppInv
<1>3. /\ app.asked \in Options
      /\ app.answer = IF app.reader = "ts" THEN TsResolve(app.manifest, app.asked)
                      ELSE DartResolve(app.manifest, app.asked)
  BY <1>1, <1>2 DEF AppFrom
<1>4. app.manifest \in Stamped
  BY <1>1 DEF Apps
<1> QED BY <1>1, <1>3, <1>4, AnswerFacts

\* A download that is a build is of a commit n, its variant one of those of
\* commit k.
LEMMA DownloadedFacts ==
  ASSUME IInv, app.at = "downloaded", app.got # Absent \/ app.asked.revision = Absent
  PROVE  \E k, n \in DOMAIN hub[app.source], i \in Nat :
           LET m == hub[app.source][k].manifest
               v == app.answer.variant
           IN /\ app.source \in Repos /\ m # Absent /\ (AskedNoOlder => k <= n)
              /\ i \in DOMAIN m.variants /\ v = m.variants[i] /\ v \in Variants
              /\ app.answer.file = v.file
              /\ app.got = hub[app.source][n].files[v.file]
              /\ app.revision # Main => app.revision = k
              /\ app.revision # Main /\ app.asked.revision = Absent => n = k
<1>1. app # Idle /\ app \in Apps /\ app.manifest \in Stamped /\ app.asked \in Options
      /\ AnswerFor(app.manifest, app.asked, app.answer)
  BY ResolvedFacts DEF Resolved
<1>2. PICK k \in DOMAIN hub[app.source] : AppFrom(k)
  BY <1>1 DEF IInv, AppInv
<1> DEFINE m == hub[app.source][k].manifest
<1>3. m # Absent /\ app.manifest.variants = m.variants /\ (app.revision # Main => app.revision = k)
  BY <1>2 DEF AppFrom, Stamp
<1>4. app.answer # Absent
  BY <1>2 DEF AppFrom
<1>5. PICK n \in DOMAIN hub[app.source] :
        /\ (AskedNoOlder => k <= n) /\ app.got = hub[app.source][n].files[app.answer.file]
        /\ app.revision # Main /\ app.asked.revision = Absent => n = k
  BY <1>2 DEF AppFrom
<1>6. Candidates(app.manifest, app.asked) # {}
  BY <1>1, <1>4 DEF AnswerFor
<1>7. PICK i \in Candidates(app.manifest, app.asked) : app.answer.variant = app.manifest.variants[i]
  BY <1>1, <1>6 DEF AnswerFor
<1>8. i \in DOMAIN app.manifest.variants /\ i \in Nat /\ app.manifest.variants[i] \in Variants
  BY <1>1, <1>7, CandidateFacts, RequestFacts
<1>9. app.answer.file = app.answer.variant.file
  BY <1>1, <1>6 DEF AnswerFor
<1>10. app.source \in Repos
  BY <1>1 DEF Apps
<1> HIDE DEF m
<1>11. /\ i \in DOMAIN m.variants /\ app.answer.variant = m.variants[i]
       /\ app.answer.variant \in Variants
       /\ app.got = hub[app.source][n].files[app.answer.variant.file]
  BY <1>3, <1>5, <1>7, <1>8, <1>9
<1> QED BY <1>3, <1>5, <1>8, <1>9, <1>10, <1>11 DEF m

-----------------------------------------------------------------------------
(* The theorems *)

\* Without empty device classes and with Dart's 1 << 62 what it says, the
\* TypeScript and the Dart reader give the same answer to every request about
\* every manifest an app ever fetches.
THEOREM ReadersSayTheSame == ASSUME Plain PROVE Spec => []ReadersAgree
<1>1. IInv /\ PlainInv => ReadersAgree
  <2> SUFFICES ASSUME IInv, PlainInv, Resolved
               PROVE  TsResolve(app.manifest, app.asked) = DartResolve(app.manifest, app.asked)
    BY DEF ReadersAgree
  <2>1. app # Idle /\ app.manifest \in Stamped /\ app.asked \in Options
    BY ResolvedFacts
  <2>2. PlainList(app.manifest.variants)
    BY <2>1 DEF PlainInv
  <2>3. app.asked.class # Blank /\ Shift62 = Infinite
    BY <2>1 DEF Plain
  <2> QED BY <2>1, <2>2, <2>3, SameAnswers
<1> QED BY <1>1, PlainInvariant, PTL

\* Likewise every resolution keeps to the written rules: the backend asked for
\* is a filter, the most specific recommendation wins, then the smaller file.
THEOREM RulesAreKept == ASSUME Plain PROVE Spec => []KeepsToRules
<1>1. IInv /\ PlainInv => KeepsToRules
  <2> SUFFICES ASSUME IInv, PlainInv, Resolved PROVE KeepsToRules
    BY DEF KeepsToRules
  <2>1. /\ app \in Apps /\ app # Idle /\ app.manifest \in Stamped /\ app.asked \in Options
        /\ app.answer = IF app.reader = "ts" THEN TsResolve(app.manifest, app.asked)
                        ELSE DartResolve(app.manifest, app.asked)
    BY ResolvedFacts
  <2>2. PlainList(app.manifest.variants)
    BY <2>1 DEF PlainInv
  <2>3. app.asked.class # Blank /\ Shift62 = Infinite
    BY <2>1 DEF Plain
  <2>4. app.answer = TsResolve(app.manifest, app.asked)
    BY <2>1, <2>2, <2>3, SameAnswers
  <2> QED BY <2>1, <2>2, <2>3, <2>4, RulesKept
<1> QED BY <1>1, PlainInvariant, PTL

\* Whatever was uploaded between the generator's requests, and between fetch
\* and download, a file with the manifest's hash is the one the manifest
\* describes; if no build was put back and no older revision asked for.
THEOREM VerifiedIsDescribed == Spec => []VerifiedMeansDescribed
<1>1. IInv => VerifiedMeansDescribed
  <2> SUFFICES ASSUME IInv, app.at = "downloaded", app.got = app.answer.variant.sha256,
                      NothingPutBack, AskedNoOlder
               PROVE  app.answer.variant.context = ContextOf[app.answer.file][app.got]
    BY DEF VerifiedMeansDescribed
  <2> DEFINE v == app.answer.variant
             f == v.file
             files(k) == hub[app.source][k].files
  <2>1. app.got # Absent
    <3>1. AnswerFor(app.manifest, app.asked, app.answer) /\ app \in Apps /\ app # Idle
      BY ResolvedFacts DEF Resolved
    <3>2. PICK k \in DOMAIN hub[app.source] : AppFrom(k)
      BY <3>1 DEF IInv, AppInv
    <3>3. app.answer \in Resolutions
      BY <3>1, <3>2 DEF AppFrom, AnswerFor
    <3>4. app.answer.variant.sha256 \in Builds
      BY <3>3 DEF Resolutions, Variants
    <3> QED BY <3>4, AbsentAssumption DEF Builds
  <2>2. PICK k, n \in DOMAIN hub[app.source], i \in Nat :
          LET m == hub[app.source][k].manifest
          IN /\ app.source \in Repos /\ m # Absent /\ k <= n
             /\ i \in DOMAIN m.variants /\ v = m.variants[i] /\ v \in Variants
             /\ app.answer.file = f /\ app.got = files(n)[f]
    BY <2>1, DownloadedFacts
  <2>3. f \in Files
    BY <2>2 DEF Variants
  <2>4. HonestIn(hub[app.source][k].manifest.variants, files(k), built)
    BY <2>2 DEF IInv, HubInv
  <2>5. Honest(v, files(k)[f], built[f])
    BY <2>2, <2>4 DEF HonestIn
  <2>6. files(k)[f] = built[f] => files(n)[f] = built[f]
    BY <2>2, <2>3 DEF NothingPutBack
  <2> QED BY <2>2, <2>5, <2>6 DEF Honest
<1> QED BY <1>1, ManifestInvariant, PTL

\* A manifest fetched at a commit it is coherent with leads to the files of
\* that commit, from a fork too and whatever is uploaded meanwhile.
THEOREM PinnedIsDescribed == Spec => []PinnedGetsDescribed
<1>1. IInv => PinnedGetsDescribed
  <2> SUFFICES ASSUME IInv, app.at = "downloaded", app.revision # Main,
                      app.asked.revision = Absent, Coherent(hub[app.source][app.revision])
               PROVE  app.got = app.answer.variant.sha256
    BY DEF PinnedGetsDescribed
  <2>1. PICK k, n \in DOMAIN hub[app.source], i \in Nat :
          LET m == hub[app.source][k].manifest
              v == app.answer.variant
          IN /\ i \in DOMAIN m.variants /\ v = m.variants[i]
             /\ app.got = hub[app.source][n].files[v.file]
             /\ app.revision = k /\ n = k
    BY DownloadedFacts
  <2> QED BY <2>1 DEF Coherent
<1> QED BY <1>1, ManifestInvariant, PTL

=============================================================================

----------------------------- MODULE MCManifest -----------------------------
EXTENDS Manifest

CONSTANTS Classes      \* the device classes an app may give

SortedNames == <<"f1", "f2">>
OriginAndFork == {"origin", "fork"}

\* f1 is rebuilt smaller, f2 keeps its size; a rebuild changes the context
\* length and what the template says about thinking.
Sizes == [f1 |-> <<3, 1>>, f2 |-> <<2, 2>>]
Contexts == [f1 |-> <<10, 11>>, f2 |-> <<20, 21>>]
Controls == [f1 |-> <<"never", "switch">>, f2 |-> <<"never", "switch">>]

For(platform, class, backend) == [platform |-> platform, class |-> class, backend |-> backend]

Curated1 == [file |-> "f1", backends |-> <<"cpu", "gpu">>, default |-> "gpu",
             recommended |-> <<For("android", "mid", "cpu")>>]
Curated2 == [file |-> "f2", backends |-> <<"cpu">>, default |-> Absent, recommended |-> <<>>]
CuratedFilesSet == {<<>>, <<Curated1>>, <<Curated2, Curated1>>}

\* Two variants: every way to recommend the first twice over, against some of
\* the second, with and without a size.
AnyOf == {For("android", Absent, "cpu"), For("android", "mid", "gpu"), For("android", "top", "cpu"),
          For("android", "mid", "npu"), For("ios", Absent, "gpu")}
SomeRecs == {<<>>} \cup {<<r>> : r \in AnyOf} \cup {<<r, s>> : r, s \in AnyOf}

FirstVariants ==
  [file : {"f1"}, sha256 : {1}, size : {2}, context : {10}, control : {"never"},
   backends : {<<"cpu">>, <<"gpu", "cpu">>, <<"cpu", "gpu">>}, default : {Absent, "gpu"},
   recommended : SomeRecs]
SecondVariants ==
  [file : {"f2"}, sha256 : {1}, size : {1, 2, Absent}, context : {20}, control : {"never"},
   backends : {<<"cpu", "gpu">>}, default : {Absent},
   recommended : {<<>>, <<For("android", Absent, "gpu")>>, <<For("android", "mid", "cpu")>>}]

ByHand ==
  {[repo |-> "origin", context |-> 10, variants |-> <<v, w>>] : v \in FirstVariants, w \in SecondVariants}

Asked ==
  [platform : {Absent, "android"}, class : Classes, backend : {Absent, "cpu", "gpu"}, revision : {Absent}]
    \cup [platform : {Absent}, class : {Absent}, backend : {Absent}, revision : {Main, 1, 5}]

\* What the theorems about the readers' answers ask.
ASSUME PlainAssumption == Plain
=============================================================================

----------------------------- MODULE MCNpuChain -----------------------------
(* Two graphs, each compiled cold and then run from its cache.             *)
EXTENDS NpuChain

ABPlan ==
  <<[graph |-> "g1", cache |-> "k1", cold |-> TRUE, needs |-> 0],
    [graph |-> "g2", cache |-> "k2", cold |-> TRUE, needs |-> 0],
    [graph |-> "g1", cache |-> "k1", cold |-> FALSE, needs |-> 1]>>

\* Two legs on one graph, without a JIT cache.
SameGraph ==
  <<[graph |-> "g1", cache |-> "-", cold |-> FALSE, needs |-> 0],
    [graph |-> "g1", cache |-> "-", cold |-> FALSE, needs |-> 0]>>
=============================================================================

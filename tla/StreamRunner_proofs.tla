------------------------- MODULE StreamRunner_proofs -------------------------
(***************************************************************************)
(* Proofs about the streaming runner for any chunk size, window, number of *)
(* fixtures and command line: each call of the conformer reads the caches  *)
(* of its own utterance, in order, and the decoder's state is its own.     *)
(***************************************************************************)
EXTENDS StreamRunner, TLAPS

LEMMA StepsAreNat ==
  ASSUME TypeOK
  PROVE  /\ Q * chunks \in Nat /\ opt.maxSymbols \in Nat
         /\ MaxSteps \in Nat
<1>1. opt.maxSymbols \in Nat
  BY ConstantsAssumption DEF TypeOK
<1>2. Q * chunks \in Nat
  BY ConstantsAssumption DEF TypeOK
<1>3. (opt.maxSymbols + 1) * Q \in Nat
  BY <1>1, ConstantsAssumption
<1>4. (opt.maxSymbols + 1) * Q * (chunks + 1) \in Nat
  BY <1>3 DEF TypeOK
<1> QED BY <1>1, <1>2, <1>4, ConstantsAssumption DEF MaxSteps

\* A set of caches moved on by the conformer is one again.
LEMMA ResultType ==
  ASSUME TypeOK
  PROVE  Result(chunks) \in CacheSet
<1>1. Q * chunks \in Nat
  BY StepsAreNat
<1>2. Reads(chunks) \in CacheSet
  BY DEF TypeOK, Reads
<1>3. ASSUME NEW j \in Slot
      PROVE  (IF j + Q < S THEN Reads(chunks).kv[j + Q]
              ELSE <<turn, Q * chunks + j + Q - S>>) \in Cell
  <2>1. CASE j + Q < S
    <3>1. j + Q \in Slot
      BY <2>1, <1>3, ConstantsAssumption DEF Slot
    <3> QED BY <2>1, <3>1, <1>2 DEF CacheSet
  <2>2. CASE ~(j + Q < S)
    <3> DEFINE n == Q * chunks + j + Q - S
    <3>1. n \in Nat
      BY <2>2, <1>1, <1>3, ConstantsAssumption DEF Slot
    <3>2. turn \in 0..(Count + 2)
      BY ConstantsAssumption DEF TypeOK
    <3> QED BY <2>2, <3>1, <3>2 DEF Cell
  <2> QED BY <2>1, <2>2
<1>4. <<turn, chunks>> \in Cell
  BY ConstantsAssumption DEF TypeOK, Cell
<1> QED BY <1>3, <1>4 DEF Result, CacheSet

LEMMA TypeInit == Init => TypeOK
<1> SUFFICES ASSUME Init PROVE TypeOK
  OBVIOUS
<1> USE ConstantsAssumption DEF Init
<1>1. Zero \in Cell /\ Junk \in Cell
  BY DEF Zero, Junk, Cell
<1>2. setA \in CacheSet
  BY <1>1 DEF CacheSet
<1>3. x \in [of : Cell, after : Cell] /\ pre \in Cell /\ dec \in Cell
  BY <1>1
<1>4. setB \in CacheSet
  BY <1>2
<1>5. turn \in 1..(Count + 2) /\ calls \in 0..Rounds /\ masked \in 0..S /\ frame \in 0..(Q - 1)
  OBVIOUS
<1> QED BY <1>2, <1>3, <1>4, <1>5 DEF TypeOK

LEMMA TypeStep == TypeOK /\ [Next]_vars => TypeOK'
<1> SUFFICES ASSUME TypeOK, [Next]_vars PROVE TypeOK'
  OBVIOUS
<1>1. Zero \in Cell /\ Junk \in Cell
  BY ConstantsAssumption DEF Zero, Junk, Cell
<1>2. <<turn, chunks>> \in Cell /\ <<turn, 0>> \in Cell /\ turn \in Nat
  BY ConstantsAssumption DEF TypeOK, Cell
<1>3. Masked(chunks) \in 0..S
  BY StepsAreNat, ConstantsAssumption DEF Masked, Least
<1>4. Result(chunks) \in CacheSet
  BY ResultType
<1> USE DEF Goto
<1>5. CASE UNCHANGED vars
  BY <1>5 DEF vars, caches, inputs, loop, TypeOK
<1>6. CASE Load
  <2>1. setA' \in CacheSet
    BY <1>6, <1>1 DEF Load, ZeroCaches, CacheSet
  <2>2. oneHot' \in Nat
    <3>1. Fx \in Fixture
      BY ConstantsAssumption DEF TypeOK, Fx, Latency, Fixture
    <3> QED BY <3>1, <1>6, ConstantsAssumption DEF Load
  <2> QED BY <1>6, <1>2, <2>1, <2>2 DEF Load, ZeroCaches, ZeroDecoder, TypeOK
<1>7. CASE Unreadable
  BY <1>7 DEF Unreadable, caches, inputs, loop, TypeOK
<1>8. CASE Chunk
  BY <1>8, <1>1, <1>2, <1>3 DEF Chunk, Encode, loop, TypeOK
<1>9. CASE Conformer
  BY <1>9, <1>4, ConstantsAssumption DEF Conformer, Writes, inputs, TypeOK
<1>10. CASE Blank
  BY <1>10 DEF Blank, caches, inputs, TypeOK
<1>11. CASE Emit
  <2>1. dec' \in Cell
    BY <1>11 DEF Emit, TypeOK, Cell
  <2> QED BY <1>11, <2>1 DEF Emit, caches, inputs, TypeOK
<1>12. CASE Spent
  BY <1>12 DEF Spent, caches, inputs, loop, TypeOK
<1>13. CASE FrameEnds
  <2>1. truncated' \in BOOLEAN
    BY <1>13 DEF FrameEnds, TypeOK
  <2>2. frame' \in 0..(Q - 1) /\ syms' \in Nat /\ chunks' \in Nat
    BY <1>13, ConstantsAssumption DEF FrameEnds, TypeOK
  <2>3. pc' \in {"while", "chunk"}
    BY <1>13 DEF FrameEnds
  <2> QED BY <1>13, <2>1, <2>2, <2>3 DEF FrameEnds, caches, inputs, TypeOK
<1>14. CASE UtteranceEnds
  BY <1>14, ConstantsAssumption DEF UtteranceEnds, Latency, caches, inputs, loop, TypeOK
<1>15. CASE LatencyEncode
  BY <1>15, <1>1, <1>2, <1>3 DEF LatencyEncode, caches, loop, TypeOK
<1>16. CASE LatencyConformer
  BY <1>16, <1>4, ConstantsAssumption DEF LatencyConformer, Writes, inputs, loop, TypeOK
<1>17. CASE LatencyEnds
  BY <1>17 DEF LatencyEnds, inputs, loop, TypeOK
<1> QED BY <1>5, <1>6, <1>7, <1>8, <1>9, <1>10, <1>11, <1>12, <1>13, <1>14, <1>15,
           <1>16, <1>17 DEF Next

\* Every reachable state has its type: the mask never closes more slots than
\* there are, however long the utterance.
THEOREM StreamTypes == Spec => []TypeOK
  BY TypeInit, TypeStep, PTL DEF Spec

-----------------------------------------------------------------------------
(***************************************************************************)
(* What chunk k will find: its utterance's window in the set it reads, and *)
(* the other caches one chunk behind.  The other set may hold anything.    *)
(***************************************************************************)
Ready(k) ==
  /\ Window(Reads(k).kv, k)
  /\ Reads(k).tail = Before(k)
  /\ ~Fused => k = 0 \/ pre = <<turn, k - 1>>
  /\ Fused => k = 0 \/ rows = (IF k = 1 THEN "first" ELSE "ones")

StreamInv ==
  /\ TypeOK
  /\ WindowIsItsOwn
  /\ pc \in {"chunk", "while", "frame", "conformer"} => oneHot = PromptOf[Fx]
  /\ pc = "chunk" => Ready(chunks)
  /\ pc = "conformer" /\ ~Fused => pre = <<turn, chunks>>
  /\ pc \in {"while", "frame"} => Ready(chunks + 1)

\* The conformer moves the window on by one chunk.
LEMMA WindowMoves ==
  ASSUME TypeOK, Window(Reads(chunks).kv, chunks)
  PROVE  Window(Result(chunks).kv, chunks + 1)
<1> DEFINE k == chunks
           old == Reads(k).kv
           new == Result(k).kv
<1>1. Q * k \in Nat /\ Q * (k + 1) = Q * k + Q
  BY StepsAreNat, ConstantsAssumption DEF TypeOK
<1> SUFFICES ASSUME NEW j \in Slot, j >= S - Least(S, Q * (k + 1))
             PROVE  new[j] = <<turn, Q * (k + 1) + j - S>>
  BY DEF Window
<1>2. new[j] = IF j + Q < S THEN old[j + Q] ELSE <<turn, Q * k + j + Q - S>>
  BY DEF Result
<1>3. CASE j + Q < S
  <2>1. j + Q \in Slot
    BY <1>3, ConstantsAssumption DEF Slot
  <2>2. j + Q >= S - Least(S, Q * k)
    BY <1>1, <1>3, ConstantsAssumption DEF Least, Slot
  <2>3. old[j + Q] = <<turn, Q * k + (j + Q) - S>>
    BY <2>1, <2>2 DEF Window
  <2>4. Q * k + (j + Q) - S = Q * (k + 1) + j - S
    BY <1>1, ConstantsAssumption DEF Slot
  <2> QED BY <1>2, <1>3, <2>3, <2>4
<1>4. CASE ~(j + Q < S)
  <2>1. Q * k + j + Q - S = Q * (k + 1) + j - S
    BY <1>1, ConstantsAssumption DEF Slot
  <2> QED BY <1>2, <1>4, <2>1
<1> QED BY <1>3, <1>4

\* What a chunk writes is what the next one reads, by a copy or by the turn
\* of the sets.
LEMMA NextReads ==
  ASSUME TypeOK, Conformer
  PROVE  Reads(chunks + 1)' = Result(chunks)
<1>1. chunks \in Nat /\ chunks' = chunks /\ opt' = opt
  BY DEF TypeOK, Conformer
<1>2. CASE ~Swap
  BY <1>1, <1>2 DEF Conformer, Reads, Swap
<1>3. CASE Swap /\ chunks % 2 = 1
  <2>1. (chunks + 1) % 2 = 0
    BY <1>1, <1>3
  <2> QED BY <1>1, <1>3, <2>1 DEF Conformer, Writes, Reads, Swap
<1>4. CASE Swap /\ chunks % 2 # 1
  <2>1. (chunks + 1) % 2 = 1
    BY <1>1, <1>4
  <2> QED BY <1>1, <1>4, <2>1 DEF Conformer, Writes, Reads, Swap
<1> QED BY <1>2, <1>3, <1>4

LEMMA StreamInit == Init => StreamInv
  BY TypeInit DEF Init, StreamInv, WindowIsItsOwn

LEMMA StreamStep == StreamInv /\ [Next]_vars => StreamInv'
<1> SUFFICES ASSUME StreamInv, [Next]_vars PROVE StreamInv'
  OBVIOUS
<1>1. TypeOK /\ TypeOK'
  BY TypeStep DEF StreamInv
<1> USE DEF Goto
<1>2. CASE UNCHANGED vars
  BY <1>1, <1>2 DEF vars, caches, inputs, loop, StreamInv, WindowIsItsOwn, Ready, Window,
     Reads, Swap, Fused, Fx, Latency, Before
<1>3. CASE Load
  <2>1. Ready(0)'
    <3>1. Window(Reads(0).kv, 0)'
      BY ConstantsAssumption DEF Window, Slot, Least
    <3>2. (Reads(0).tail = Before(0))'
      BY <1>3 DEF Load, ZeroCaches, Reads, Before
    <3> QED BY <3>1, <3>2 DEF Ready
  <2>2. (oneHot = PromptOf[Fx])'
    BY <1>3 DEF Load, Fx, Latency
  <2> QED BY <1>1, <1>3, <2>1, <2>2 DEF Load, StreamInv, WindowIsItsOwn
<1>4. CASE Unreadable
  BY <1>1, <1>4 DEF Unreadable, StreamInv, WindowIsItsOwn
<1>5. CASE Chunk
  <2>1. Ready(chunks) /\ oneHot = PromptOf[Fx]
    BY <1>5 DEF Chunk, StreamInv
  <2>2. Window(Reads(chunks).kv, chunks)' /\ (Reads(chunks).tail = Before(chunks))'
    BY <1>5, <2>1 DEF Chunk, Ready, Window, Reads, Swap, Before
  <2>3. (x = [of |-> <<turn, chunks>>, after |-> IF Fused THEN Zero ELSE Before(chunks)])'
    BY <1>5, <2>1 DEF Chunk, Encode, Ready, Fused, Before
  <2>4. (Fused => rows = (IF chunks = 0 THEN "first" ELSE "ones"))'
    BY <1>1, <1>5, <2>1 DEF Chunk, Encode, Ready, Fused, TypeOK
  <2>5. (masked = S - Least(S, Q * chunks))'
    BY <1>5 DEF Chunk, Encode, Masked
  <2>6. (oneHot = PromptOf[Fx])'
    BY <1>5, <2>1 DEF Chunk, Fx, Latency
  <2>7. (~Fused => pre = <<turn, chunks>>)'
    BY <1>5 DEF Chunk, Encode, Fused
  <2> QED BY <1>1, <1>5, <2>2, <2>3, <2>4, <2>5, <2>6, <2>7 DEF Chunk, StreamInv, WindowIsItsOwn
<1>6. CASE Conformer
  <2>1. WindowIsItsOwn /\ (~Fused => pre = <<turn, chunks>>) /\ pc = "conformer"
    BY <1>6 DEF Conformer, StreamInv
  <2>2. chunks \in Nat /\ chunks' = chunks /\ turn' = turn /\ opt' = opt /\ pre' = pre
        /\ rows' = rows /\ oneHot' = oneHot
    BY <1>1, <1>6 DEF Conformer, TypeOK, inputs
  <2>3. Window(Reads(chunks + 1).kv, chunks + 1)'
    <3>1. Window(Result(chunks).kv, chunks + 1)
      BY <1>1, <2>1, WindowMoves DEF WindowIsItsOwn
    <3> QED BY <1>1, <1>6, <2>2, <3>1, NextReads DEF Window
  <2>4. (Reads(chunks + 1).tail = Before(chunks + 1))'
    BY <1>1, <1>6, <2>2, NextReads DEF Result, Before
  <2>5. (~Fused => pre = <<turn, (chunks + 1) - 1>>)'
    BY <2>1, <2>2 DEF Fused
  <2>6. (Fused => rows = (IF chunks + 1 = 1 THEN "first" ELSE "ones"))'
    BY <2>1, <2>2 DEF WindowIsItsOwn, Fused
  <2>7. Ready(chunks + 1)'
    BY <2>3, <2>4, <2>5, <2>6 DEF Ready
  <2>8. (oneHot = PromptOf[Fx])'
    BY <2>1, <1>6, <2>2 DEF Conformer, WindowIsItsOwn, Fx, Latency
  <2> QED BY <1>1, <1>6, <2>7, <2>8 DEF Conformer, StreamInv, WindowIsItsOwn
<1>7. CASE Blank \/ Emit \/ Spent
  <2>1. Ready(chunks + 1) /\ oneHot = PromptOf[Fx]
    BY <1>7 DEF Blank, Emit, Spent, StreamInv
  <2>2. (Ready(chunks + 1) /\ oneHot = PromptOf[Fx])'
    BY <1>7, <2>1 DEF Blank, Emit, Spent, caches, inputs, loop, Ready, Window, Reads, Swap,
       Fused, Fx, Latency, Before
  <2>3. pc' \in {"while", "frame"}
    BY <1>7 DEF Blank, Emit, Spent
  <2> QED BY <1>1, <2>2, <2>3 DEF StreamInv, WindowIsItsOwn
<1>8. CASE FrameEnds
  <2>1. Ready(chunks + 1) /\ oneHot = PromptOf[Fx]
    BY <1>8 DEF FrameEnds, StreamInv
  <2> USE DEF FrameEnds, caches, inputs, Ready, Window, Reads, Swap, Fused, Fx, Latency, Before
  <2>2. (oneHot = PromptOf[Fx])'
    BY <1>8, <2>1
  <2>3. CASE pc' = "while"
    <3>1. Ready(chunks + 1)'
      BY <1>8, <2>1, <2>3
    <3> QED BY <1>1, <2>2, <2>3, <3>1 DEF StreamInv, WindowIsItsOwn
  <2>4. CASE pc' = "chunk"
    <3>1. chunks' = chunks + 1
      BY <1>8, <2>4
    <3>2. Ready(chunks)'
      BY <1>8, <2>1, <3>1
    <3> QED BY <1>1, <2>2, <2>4, <3>2 DEF StreamInv, WindowIsItsOwn
  <2> QED BY <1>8, <2>3, <2>4
<1>9. CASE UtteranceEnds
  BY <1>1, <1>9 DEF UtteranceEnds, StreamInv, WindowIsItsOwn
<1>10. CASE LatencyEncode
  <2>1. Ready(chunks) /\ oneHot = PromptOf[Fx]
    BY <1>10 DEF LatencyEncode, StreamInv
  <2>2. chunks \in Nat /\ chunks # 0
    BY <1>1, <1>10 DEF LatencyEncode, Goes, BeforeTarget, TypeOK
  <2>3. Window(Reads(chunks).kv, chunks)' /\ (Reads(chunks).tail = Before(chunks))'
    BY <1>10, <2>1 DEF LatencyEncode, caches, Ready, Window, Reads, Swap, Before
  <2>4. (x = [of |-> <<turn, chunks>>, after |-> IF Fused THEN Zero ELSE Before(chunks)])'
    BY <1>10, <2>1, <2>2 DEF LatencyEncode, Ready, Fused, Before
  <2>5. (Fused => rows = (IF chunks = 0 THEN "first" ELSE "ones"))'
    BY <1>10, <2>2 DEF LatencyEncode, Fused
  <2>6. (masked = S - Least(S, Q * chunks))'
    BY <1>10 DEF LatencyEncode, Masked
  <2>7. (oneHot = PromptOf[Fx])'
    BY <1>10, <2>1 DEF LatencyEncode, Fx, Latency
  <2> QED BY <1>1, <1>10, <2>3, <2>4, <2>5, <2>6, <2>7 DEF LatencyEncode, StreamInv, WindowIsItsOwn
<1>11. CASE LatencyConformer
  <2>1. WindowIsItsOwn /\ pc = "latency" /\ pc' = pc
    BY <1>11 DEF LatencyConformer, StreamInv
  <2>2. chunks' = chunks /\ turn' = turn /\ opt' = opt /\ UNCHANGED inputs
    BY <1>11 DEF LatencyConformer
  <2>3. Reads(chunks)' = Reads(chunks)
    BY <1>11, <2>2 DEF LatencyConformer, Writes, Reads, Swap
  <2>4. WindowIsItsOwn'
    BY <2>1, <2>2, <2>3 DEF WindowIsItsOwn, Window, Fused, Before, Fx, Latency, inputs
  <2> QED BY <1>1, <2>1, <2>4 DEF StreamInv
<1>12. CASE LatencyEnds
  BY <1>1, <1>12 DEF LatencyEnds, StreamInv, WindowIsItsOwn
<1> QED BY <1>2, <1>3, <1>4, <1>5, <1>6, <1>7, <1>8, <1>9, <1>10, <1>11, <1>12 DEF Next

\* For any chunk size and window, with copied or alternated caches, each call
\* of the conformer attends to its own utterance's last frames, in order.
THEOREM WindowIsOwn == Spec => []WindowIsItsOwn
<1>1. StreamInv => WindowIsItsOwn
  BY DEF StreamInv
<1> QED BY <1>1, StreamInit, StreamStep, PTL DEF Spec

-----------------------------------------------------------------------------
(***************************************************************************)
(* The decoder.  With a cap of m symbols a frame costs at most m joint     *)
(* calls, so the budget of a chunk is never used up.                       *)
(***************************************************************************)
FramesDone == Q * chunks + frame

DecoderInv ==
  /\ TypeOK
  /\ pc \in {"chunk", "conformer", "while", "frame"} => dec = <<turn, tokens>>
  /\ opt.maxSymbols > 0 =>
       /\ ~truncated
       /\ pc \in {"chunk", "conformer"} => steps <= opt.maxSymbols * (Q * chunks)
       /\ pc = "while" => /\ syms < opt.maxSymbols
                          /\ steps <= opt.maxSymbols * FramesDone + syms
       /\ pc = "frame" => steps <= opt.maxSymbols * (FramesDone + 1)

\* The budget of the chunks so far is above the cost of their frames.
LEMMA BudgetSuffices ==
  ASSUME TypeOK
  PROVE  opt.maxSymbols * (FramesDone + 1) < MaxSteps
<1> DEFINE m == opt.maxSymbols
           a == FramesDone + 1
           b == Q * (chunks + 1)
<1>1. m \in Nat /\ Q * chunks \in Nat /\ chunks \in Nat /\ frame \in 0..(Q - 1)
      /\ Q \in Nat /\ Q > 0 /\ Slack \in Nat
  BY StepsAreNat, ConstantsAssumption DEF TypeOK
<1>2. b = Q * chunks + Q
  BY <1>1
<1>3. a \in Nat /\ b \in Nat /\ a <= b /\ b > 0
  BY <1>1, <1>2 DEF FramesDone
<1>4. \A i, j, n \in Nat : i <= j => n * i <= n * j
  OBVIOUS
<1>5. m * a <= m * b
  BY <1>1, <1>3, <1>4
<1>6. MaxSteps = m * b + b + Slack
  <2>1. (m + 1) * Q * (chunks + 1) = (m + 1) * b
    BY <1>1
  <2>2. (m + 1) * b = m * b + b
    BY <1>1, <1>3
  <2> QED BY <2>1, <2>2 DEF MaxSteps
<1>7. m * a \in Nat /\ m * b \in Nat
  BY <1>1, <1>3
<1> HIDE DEF a, b, m
<1>8. m * a < MaxSteps
  BY <1>1, <1>3, <1>5, <1>6, <1>7
<1> QED BY <1>8 DEF a, m

LEMMA DecoderInit == Init => DecoderInv
  BY TypeInit DEF Init, DecoderInv

LEMMA DecoderStep == DecoderInv /\ [Next]_vars => DecoderInv'
<1> SUFFICES ASSUME DecoderInv, [Next]_vars PROVE DecoderInv'
  OBVIOUS
<1> DEFINE m == opt.maxSymbols
<1>1. TypeOK /\ TypeOK'
  BY TypeStep DEF DecoderInv
<1>2. m \in Nat /\ Q * chunks \in Nat /\ Q \in Nat /\ Q > 0 /\ chunks \in Nat
      /\ frame \in Nat /\ steps \in Nat /\ syms \in Nat /\ tokens \in Nat
  BY <1>1, StepsAreNat, ConstantsAssumption DEF TypeOK
<1> USE DEF Goto
<1>3. CASE UNCHANGED vars
  BY <1>1, <1>3 DEF vars, loop, DecoderInv, FramesDone
<1>4. CASE Load
  <2>1. steps' <= (m * (Q * chunks))'
    BY <1>4, ConstantsAssumption, <1>2 DEF Load
  <2> QED BY <1>1, <1>4, <2>1 DEF Load, ZeroDecoder, DecoderInv
<1>5. CASE Chunk
  BY <1>1, <1>5 DEF Chunk, loop, DecoderInv
<1>6. CASE Conformer
  <2>1. FramesDone' = Q * chunks
    BY <1>2, <1>6 DEF Conformer, FramesDone
  <2> QED BY <1>1, <1>2, <1>6, <2>1 DEF Conformer, DecoderInv
<1>7. CASE Blank
  <2>1. FramesDone' = FramesDone /\ FramesDone \in Nat
    BY <1>2, <1>7 DEF Blank, FramesDone
  <2>2. m * (FramesDone + 1) = m * FramesDone + m /\ m * FramesDone \in Nat
    BY <1>2, <2>1
  <2> QED BY <1>1, <1>2, <1>7, <2>1, <2>2 DEF Blank, DecoderInv
<1>8. CASE Emit
  <2>1. FramesDone' = FramesDone /\ FramesDone \in Nat
    BY <1>2, <1>8 DEF Emit, FramesDone
  <2>2. m * (FramesDone + 1) = m * FramesDone + m /\ m * FramesDone \in Nat
    BY <1>2, <2>1
  <2>3. dec' = <<turn', tokens'>>
    BY <1>8 DEF Emit, DecoderInv
  <2> QED BY <1>1, <1>2, <1>8, <2>1, <2>2, <2>3 DEF Emit, DecoderInv
<1>9. CASE Spent
  <2>1. FramesDone' = FramesDone /\ FramesDone \in Nat
    BY <1>2, <1>9 DEF Spent, loop, FramesDone
  <2>2. m * (FramesDone + 1) = m * FramesDone + m /\ m * FramesDone \in Nat
    BY <1>2, <2>1
  <2> QED BY <1>1, <1>2, <1>9, <2>1, <2>2 DEF Spent, loop, DecoderInv
<1>10. CASE FrameEnds
  <2>1. FramesDone \in Nat
    BY <1>2 DEF FramesDone
  <2>2. ~truncated' \/ m = 0
    <3> SUFFICES ASSUME m > 0 PROVE ~truncated'
      BY <1>2
    <3>1. steps <= m * (FramesDone + 1) /\ ~truncated
      BY <1>10 DEF FrameEnds, DecoderInv
    <3>2. m * (FramesDone + 1) < MaxSteps /\ m * (FramesDone + 1) \in Nat /\ MaxSteps \in Nat
      BY <1>1, <1>2, <2>1, BudgetSuffices, StepsAreNat
    <3>3. ~(steps >= MaxSteps)
      BY <1>2, <3>1, <3>2
    <3> QED BY <1>10, <3>1, <3>3 DEF FrameEnds
  <2>3. CASE pc' = "while"
    <3>1. FramesDone' = FramesDone + 1 /\ syms' = 0
      BY <1>2, <1>10, <2>3 DEF FrameEnds, FramesDone
    <3> QED BY <1>1, <1>2, <1>10, <2>2, <2>3, <3>1 DEF FrameEnds, DecoderInv
  <2>4. CASE pc' = "chunk"
    <3>1. chunks' = chunks + 1 /\ Q * (chunks + 1) = Q * chunks + Q
      BY <1>2, <1>10, <2>4 DEF FrameEnds
    <3>2. m # 0 => steps < MaxSteps /\ frame + 1 = Q
      BY <1>1, <1>2, <1>10, <2>4, BudgetSuffices, StepsAreNat, <2>1 DEF FrameEnds, DecoderInv
    <3>3. m # 0 => FramesDone + 1 = Q * chunks'
      BY <1>2, <3>1, <3>2 DEF FramesDone
    <3> QED BY <1>1, <1>2, <1>10, <2>2, <2>4, <3>1, <3>3 DEF FrameEnds, DecoderInv
  <2> QED BY <1>10, <2>3, <2>4 DEF FrameEnds
<1>11. CASE Unreadable \/ UtteranceEnds \/ LatencyEncode \/ LatencyConformer \/ LatencyEnds
  <2>1. truncated' = truncated /\ opt' = opt
    BY <1>11 DEF Unreadable, UtteranceEnds, LatencyEncode, LatencyConformer, LatencyEnds, loop
  <2>2. pc' \in {"failed", "load", "done", "latency"}
    BY <1>11 DEF Unreadable, UtteranceEnds, LatencyEncode, LatencyConformer, LatencyEnds
  <2> QED BY <1>1, <2>1, <2>2 DEF DecoderInv
<1> QED BY <1>3, <1>4, <1>5, <1>6, <1>7, <1>8, <1>9, <1>10, <1>11 DEF Next

\* The decoder's state has been given its own utterance's tokens, each once,
\* across chunks and frames, and none of an earlier utterance.
THEOREM DecoderIsOwn == Spec => []DecoderIsItsOwn
<1>1. DecoderInv => DecoderIsItsOwn
  BY DEF DecoderInv, DecoderIsItsOwn
<1> QED BY <1>1, DecoderInit, DecoderStep, PTL DEF Spec

CapSuffices == opt.maxSymbols > 0 => ~truncated

\* With any cap on the symbols of a frame the budget of joint calls never
\* cuts an utterance short.
THEOREM NeverCut == Spec => []CapSuffices
<1>1. DecoderInv => CapSuffices
  BY DEF DecoderInv, CapSuffices
<1> QED BY <1>1, DecoderInit, DecoderStep, PTL DEF Spec

-----------------------------------------------------------------------------
(***************************************************************************)
(* The samples.  What the graphs' geometry must be for the slices to do:   *)
(* 160, 512 and 400 in the program's options, which nothing there checks.  *)
(***************************************************************************)
MelGeometry ==
  /\ Win % 2 = 0 /\ NFft % 2 = 0
  /\ 2 * Hop <= Win /\ Win <= NFft /\ NFft <= Hop + Win

LEMMA Quotient ==
  ASSUME NEW a \in Nat, NEW b \in Nat \ {0}
  PROVE  a \div b \in Nat /\ b * (a \div b) <= a /\ a < b * (a \div b) + b
  BY SMT

LEMMA ProductsGrow == \A a, b \in Nat : a <= b => a * Hop <= b * Hop
  BY ConstantsAssumption

\* Half windows are whole numbers of samples.
LEMMA Halves ==
  ASSUME MelGeometry
  PROVE  /\ Win \div 2 \in Nat /\ Win = 2 * (Win \div 2)
         /\ NFft \div 2 \in Nat /\ NFft = 2 * (NFft \div 2)
  BY ConstantsAssumption DEF MelGeometry

\* The first frame of chunk k, and the one after its last.
LEMMA FramesInARow ==
  ASSUME NEW k \in Nat, k # 0
  PROVE  /\ F0 + F * (k - 1) \in Nat /\ F * (k - 1) \in Nat
         /\ F0 + F * k = (F0 + F * (k - 1)) + F
<1>1. F * k = F * (k - 1) + F /\ F * (k - 1) \in Nat
  BY ConstantsAssumption
<1> QED BY <1>1, ConstantsAssumption

\* Every frame of a chunk is made from samples the chunk has.
LEMMA SliceHolds ==
  ASSUME MelGeometry, NEW k \in Nat, NEW t \in MelFrames(k), NEW j \in WindowOf(t), j >= 0
  PROVE  j \in Start(k)..(Start(k) + Len(k) - 1)
<1> USE ConstantsAssumption
<1> DEFINE w == Win \div 2
           n == NFft \div 2
<1>1. w \in Nat /\ n \in Nat /\ Win = 2 * w /\ NFft = 2 * n /\ w <= n /\ 2 * n <= Hop + 2 * w
  BY Halves DEF MelGeometry
<1>2. CASE k = 0
  <2>1. t \in Nat /\ t <= F0 - 1 /\ F0 - 1 \in Nat
    BY <1>2 DEF MelFrames
  <2>2. t * Hop <= (F0 - 1) * Hop /\ t * Hop \in Nat /\ (F0 - 1) * Hop \in Nat
    BY <2>1, ProductsGrow
  <2>3. j \in Int /\ j <= t * Hop + w - 1
    BY <2>2, <1>1 DEF WindowOf
  <2>4. Start(k) = 0 /\ Len(k) = (F0 - 1) * Hop + w
    BY <1>2 DEF Start, Len
  <2> HIDE DEF w, n
  <2> QED BY <1>1, <2>2, <2>3, <2>4
<1>3. CASE k # 0
  <2> DEFINE b == F0 + F * (k - 1)
  <2>1. b \in Nat /\ t \in Nat /\ b <= t /\ t <= b + F - 1 /\ b + F - 1 \in Nat
    BY <1>3, FramesInARow DEF MelFrames
  <2>2. /\ b * Hop <= t * Hop /\ t * Hop <= (b + F - 1) * Hop
        /\ b * Hop \in Nat /\ t * Hop \in Nat /\ F * Hop \in Nat
    BY <2>1, ProductsGrow
  <2>3. (b + F - 1) * Hop = b * Hop + F * Hop - Hop
    BY <2>1
  <2>4. j \in Int /\ t * Hop - w <= j /\ j <= t * Hop + w - 1
    BY <2>2, <1>1 DEF WindowOf
  <2>5. Start(k) = b * Hop - n /\ Len(k) = F * Hop + 2 * w
    BY <1>1, <1>3 DEF Start, Len
  <2> HIDE DEF w, n, b
  <2> QED BY <1>1, <2>2, <2>3, <2>4, <2>5
<1> QED BY <1>2, <1>3

\* The chunks before k hear every sample before the one k starts with.
LEMMA SamplesCovered ==
  ASSUME MelGeometry, NEW k \in Nat, k # 0, NEW j \in Nat, j < Start(k)
  PROVE  \E i \in 0..(k - 1) : \E t \in MelFrames(i) : j \in WindowOf(t)
<1> USE ConstantsAssumption
<1> DEFINE t == j \div Hop
           b == F0 + F * (k - 1)
<1>1. t \in Nat /\ t * Hop <= j /\ j < t * Hop + Hop /\ t * Hop \in Nat
  BY Quotient
<1>2. Win \div 2 \in Nat /\ Hop <= Win \div 2 /\ NFft \div 2 \in Nat
  BY Halves DEF MelGeometry
<1>3. j \in WindowOf(t)
  <2> HIDE DEF t
  <2> QED BY <1>1, <1>2 DEF WindowOf
<1>4. t < b
  <2>1. b \in Nat
    BY FramesInARow
  <2>2. b * Hop \in Nat /\ j < b * Hop
    BY <1>2, <2>1 DEF Start
  <2>3. b <= t => b * Hop <= t * Hop
    BY <1>1, <2>1, ProductsGrow
  <2> HIDE DEF t, b
  <2> QED BY <1>1, <2>1, <2>2, <2>3
<1>5. CASE t < F0
  <2>1. t \in MelFrames(0)
    BY <1>1, <1>5 DEF MelFrames
  <2> QED BY <1>3, <2>1
<1>6. CASE ~(t < F0)
  <2> DEFINE q == (t - F0) \div F
  <2>1. t - F0 \in Nat
    BY <1>1, <1>6
  <2>2. q \in Nat /\ F * q <= t - F0 /\ t - F0 < F * q + F
    BY <2>1, Quotient
  <2>3. q + 1 \in 0..(k - 1)
    <3>1. F * q < F * (k - 1)
      BY <1>1, <1>4, <2>1, <2>2
    <3>2. k - 1 <= q => F * (k - 1) <= F * q
      BY <2>2
    <3>3. F * q \in Nat /\ F * (k - 1) \in Nat
      BY <2>2
    <3> HIDE DEF q
    <3> QED BY <2>2, <3>1, <3>2, <3>3
  <2>4. t \in MelFrames(q + 1)
    <3>1. F * (q + 1) = F * q + F /\ F * q \in Nat
      BY <2>2
    <3> HIDE DEF q
    <3> QED BY <1>1, <2>1, <2>2, <3>1 DEF MelFrames
  <2> QED BY <1>3, <2>3, <2>4
<1> QED BY <1>5, <1>6

\* A chunk that is run has samples before the end.
LengthInv ==
  /\ DecoderInv
  /\ ~Latency => /\ pc \in {"conformer", "while", "frame"} => InUtterance(chunks)
                 /\ pc = "chunk" /\ chunks # 0 => InUtterance(chunks - 1)

LEMMA LengthInit == Init => LengthInv
  BY DecoderInit DEF Init, LengthInv

LEMMA LengthStep == LengthInv /\ [Next]_vars => LengthInv'
<1> SUFFICES ASSUME LengthInv, [Next]_vars PROVE LengthInv'
  OBVIOUS
<1>1. DecoderInv /\ DecoderInv' /\ TypeOK
  BY DecoderStep DEF LengthInv, DecoderInv
<1> USE DEF Goto
<1>2. CASE UNCHANGED vars
  BY <1>1, <1>2 DEF vars, LengthInv, Latency, InUtterance, Start, Len, N, Fx
<1>3. CASE Chunk
  BY <1>1, <1>3 DEF Chunk, Goes, LengthInv, Latency, InUtterance, Start, Len, N, Fx
<1>4. CASE Conformer
  BY <1>1, <1>4 DEF Conformer, LengthInv, Latency, InUtterance, Start, Len, N, Fx
<1>5. CASE Blank \/ Emit \/ Spent
  BY <1>1, <1>5 DEF Blank, Emit, Spent, LengthInv, Latency, InUtterance, Start, Len, N, Fx
<1>6. CASE FrameEnds
  <2>1. (~Latency => InUtterance(chunks)) /\ chunks \in Nat
    BY <1>1, <1>6 DEF FrameEnds, LengthInv, TypeOK
  <2>2. turn' = turn /\ samples' = samples /\ opt' = opt
    BY <1>6 DEF FrameEnds
  <2>3. CASE pc' = "while" /\ chunks' = chunks
    BY <1>1, <2>1, <2>2, <2>3 DEF LengthInv, Latency, InUtterance, Start, Len, N, Fx
  <2>4. CASE pc' = "chunk" /\ chunks' = chunks + 1
    <3>1. chunks' - 1 = chunks
      BY <2>1, <2>4
    <3> QED BY <1>1, <2>1, <2>2, <2>4, <3>1 DEF LengthInv, Latency, InUtterance, Start, Len, N, Fx
  <2> QED BY <1>6, <2>3, <2>4 DEF FrameEnds
<1>7. CASE Load \/ Unreadable \/ UtteranceEnds \/ LatencyEncode \/ LatencyConformer \/ LatencyEnds
  BY <1>1, <1>7 DEF Load, Unreadable, UtteranceEnds, LatencyEncode, LatencyConformer, LatencyEnds,
     LengthInv
<1> QED BY <1>2, <1>3, <1>4, <1>5, <1>6, <1>7 DEF Next

LEMMA LengthIsWhole ==
  ASSUME MelGeometry, LengthInv
  PROVE  WholeUtterance
<1> SUFFICES ASSUME pc = "chunk", ~Latency, ~Goes(chunks)
             PROVE  /\ opt.maxSymbols > 0 => ~truncated
                    /\ \A k \in 0..(chunks - 1) : \A t \in MelFrames(k) : \A j \in WindowOf(t) :
                         j >= 0 => j \in Start(k)..(Start(k) + Len(k) - 1)
                    /\ opt.tail = "pad" /\ ~truncated =>
                         /\ \A j \in 0..(N - 1) : \E k \in 0..(chunks - 1) :
                              \E t \in MelFrames(k) : j \in WindowOf(t)
                         /\ chunks > 1 => Start(chunks - 1) < N
  BY DEF WholeUtterance
<1>1. TypeOK /\ (opt.maxSymbols > 0 => ~truncated)
  BY DEF LengthInv, DecoderInv
<1>2. chunks \in Nat /\ Len(1) \in Int
  BY <1>1, ConstantsAssumption DEF TypeOK, Len
<1>3. N \in Nat
  <2>1. Fx \in Fixture
    BY <1>1, ConstantsAssumption DEF TypeOK, Fx, Latency, Fixture
  <2>2. samples \in [Fixture -> Nat]
    BY <1>1, ConstantsAssumption DEF TypeOK
  <2> QED BY <2>1, <2>2 DEF N
<1>4. ASSUME NEW k \in 0..(chunks - 1), NEW t \in MelFrames(k), NEW j \in WindowOf(t), j >= 0
      PROVE  j \in Start(k)..(Start(k) + Len(k) - 1)
  BY <1>2, <1>4, SliceHolds
<1>5. ASSUME opt.tail = "pad", ~truncated
      PROVE  /\ \A j \in 0..(N - 1) : \E k \in 0..(chunks - 1) :
                  \E t \in MelFrames(k) : j \in WindowOf(t)
             /\ chunks > 1 => Start(chunks - 1) < N
  <2>1. \A k \in Nat : Start(k) \in Int
    <3> SUFFICES ASSUME NEW k \in Nat, k # 0 PROVE Start(k) \in Int
      BY DEF Start
    <3>1. F0 + F * (k - 1) \in Nat /\ NFft \div 2 \in Nat
      BY FramesInARow, Halves
    <3>2. (F0 + F * (k - 1)) * Hop \in Nat
      BY <3>1, ConstantsAssumption
    <3> QED BY <3>1, <3>2 DEF Start
  <2>2. \A k \in Nat : InUtterance(k) <=> k = 0 \/ Start(k) < N
    BY <1>2, <1>3, <1>5, <2>1 DEF InUtterance
  <2>3. chunks # 0 /\ ~(Start(chunks) < N)
    BY <1>2, <1>5, <2>2 DEF Goes
  <2>4. ASSUME NEW j \in 0..(N - 1)
        PROVE  \E k \in 0..(chunks - 1) : \E t \in MelFrames(k) : j \in WindowOf(t)
    <3>1. j \in Nat /\ j < Start(chunks)
      BY <1>2, <1>3, <2>1, <2>3
    <3> QED BY <1>2, <2>3, <3>1, SamplesCovered
  <2>5. chunks > 1 => Start(chunks - 1) < N
    <3>1. chunks > 1 => chunks - 1 \in Nat /\ chunks - 1 # 0
      BY <1>2
    <3> QED BY <1>2, <2>2, <2>3, <3>1 DEF LengthInv
  <2> QED BY <2>4, <2>5
<1> QED BY <1>1, <1>4, <1>5

\* An utterance of any length that is not cut by a missing cap is heard from
\* its first sample to its last, frame by frame, and no chunk is of zeros alone.
THEOREM HeardWhole ==
  ASSUME MelGeometry
  PROVE  Spec => []WholeUtterance
<1>1. LengthInv => WholeUtterance
  BY LengthIsWhole
<1> QED BY <1>1, LengthInit, LengthStep, PTL DEF Spec
=============================================================================

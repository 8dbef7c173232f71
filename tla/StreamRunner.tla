---------------------------- MODULE StreamRunner ----------------------------
(***************************************************************************)
(* nemotron_asr_stream_work/runner/nemotron_stream_runner.cc: a streaming  *)
(* speech recogniser runs its fixtures one after the other, chunk by       *)
(* chunk, over caches that are zeroed for each utterance and then moved    *)
(* from one call to the next: copied back (--state copy) or by turning     *)
(* round two sets of buffers (--state swap).                               *)
(*                                                                         *)
(* A tensor is modelled by what it was computed from: <<turn, k>> is       *)
(* something of chunk or frame k of the utterance of that turn.  The       *)
(* joint network may answer anything.  Timing and output are left out.     *)
(***************************************************************************)
EXTENDS Integers

CONSTANTS
  Count,      \* fixtures (--count)
  Rounds,     \* calls of the latency phase (warm-up and rounds), 0 = none
  Ab,         \* the fixture of the latency phase
  Samples,    \* [Fixture -> Nat]: their lengths; one of LengthsOf
  PromptOf,   \* [Fixture -> prompts]: the language prompt of each
  Options,    \* the command lines: --state, --conf-mode, --tail, --max-symbols
  Q,          \* encoder frames of a chunk
  S,          \* cached frames the attention can look back to: KV - Q
  F0, F,      \* mel frames of chunk 0 and of a later chunk
  Hop, NFft, Win,
  Slack       \* joint calls beyond the cap before an utterance is cut: 16

Fixture == 0..(Count - 1)

\* What is asked of the graphs and the options before the first chunk.
ASSUME ConstantsAssumption ==
  /\ Count \in Nat \ {0} /\ Rounds \in Nat /\ Ab \in Fixture
  /\ Samples \subseteq [Fixture -> Nat]
  /\ PromptOf \in [Fixture -> Nat]
  /\ Options \subseteq [state : {"copy", "swap"}, conf : {"split", "fused"},
                        tail : {"pad", "none"}, maxSymbols : Nat]
  /\ Q \in Nat \ {0} /\ S \in Nat /\ F0 \in Nat \ {0} /\ F \in Nat \ {0} /\ F % Q = 0
  /\ Hop \in Nat \ {0} /\ NFft \in Nat /\ Win \in Nat /\ Slack \in Nat

VARIABLES
  opt,        \* the command line
  samples,    \* the length of each fixture
  turn,       \* 1: the warm-up, then every fixture once, then the latency phase
  pc,
  chunks,     \* Utt.chunks
  setA, setB, \* the two sets of cache buffers
  pre,        \* the pre-encoder's caches, when it is a graph of its own
  x,          \* the input made for the chunk, and the caches it was made with
  masked,     \* cache slots the mask closes, counted from the oldest
  rows,       \* fused: the masks of the pre-encoder
  oneHot,     \* the prompt in the conformer's input
  frame, syms,          \* the loop's frame, and the symbols it gave
  steps, tokens,        \* Utt.steps, Utt.tok.size()
  dec,        \* decoder state: the turn that zeroed it, the tokens given since
  truncated,
  calls       \* calls made in the latency phase

caches == <<setA, setB, pre>>
inputs == <<x, masked, rows, oneHot>>
loop == <<frame, syms, steps, tokens, dec, truncated>>
vars == <<opt, samples, turn, pc, chunks, caches, inputs, loop, calls>>

Zero == <<0, 0>>
Junk == <<0, 1>>      \* a buffer nothing was written to
Slot == 0..(S - 1)
Least(a, b) == IF a < b THEN a ELSE b

Swap == opt.state = "swap"
Fused == opt.conf = "fused"

Latency == turn = Count + 2
Fx == IF turn = 1 THEN 0 ELSE IF Latency THEN Ab ELSE turn - 2
N == samples[Fx]

-----------------------------------------------------------------------------
(* The chunks of an utterance *)

\* A chunk's samples: chunk k begins at Start(k) and has Len(k) of them.
Len(k) == IF k = 0 THEN (F0 - 1) * Hop + Win \div 2 ELSE F * Hop + Win
Start(k) == IF k = 0 THEN 0 ELSE (F0 + F * (k - 1)) * Hop - NFft \div 2

\* n_chunks_of: k is below it.
InUtterance(k) ==
  k = 0 \/ Start(k) + Len(1) < N + (IF opt.tail = "pad" THEN Len(1) ELSE 0)

\* The latency phase stops one chunk short of the end, or at a full window.
BeforeTarget(k) == k = 0 \/ (InUtterance(k + 1) /\ k < S \div Q + 2)

Goes(k) == IF Latency THEN BeforeTarget(k) ELSE InUtterance(k) /\ ~truncated

\* Mutant: the sets never turn round.
ReadsA(k) == setA

\* Even chunks read set A and write set B.
Reads(k) == IF Swap /\ k % 2 = 1 THEN setB ELSE setA

\* The conformer: its caches move on by the Q frames of the chunk.
Result(k) ==
  LET in == Reads(k) IN
    [kv |-> [j \in Slot |-> IF j + Q < S THEN in.kv[j + Q]
                            ELSE <<turn, Q * k + j + Q - S>>],
     tail |-> <<turn, k>>]

Writes(k) ==
  IF Swap /\ k % 2 = 1 THEN setA' = Result(k) /\ UNCHANGED setB
                       ELSE setB' = Result(k) /\ UNCHANGED setA

\* The slots that no frame of the utterance has reached yet.
Masked(k) == S - Least(S, Q * k)

Goto(place) == pc' = place

-----------------------------------------------------------------------------
Init ==
  /\ opt \in Options
  /\ samples \in Samples
  /\ turn = 1 /\ pc = "load" /\ chunks = 0 /\ calls = 0
  /\ setA = [kv |-> [j \in Slot |-> Junk], tail |-> Junk]
  /\ setB = setA
  /\ pre = Junk
  /\ x = [of |-> Junk, after |-> Junk] /\ masked = 0 /\ rows = "junk" /\ oneHot = -1
  /\ frame = 0 /\ syms = 0 /\ steps = 0 /\ tokens = 0 /\ dec = Junk /\ truncated = FALSE

\* Zeroed caches; set A is the one chunk 0 reads.
ZeroCaches ==
  /\ setA' = [kv |-> [j \in Slot |-> Zero], tail |-> Zero]
  /\ UNCHANGED setB

\* Mutant: h and c are not zeroed.
KeepDecoder == dec' = dec

\* The decoder from predict(blank) with h = c = 0.
ZeroDecoder == dec' = <<turn, 0>>

\* run_utt: the file, its prompt, reset.
Load ==
  /\ pc = "load" /\ Goto("chunk")
  /\ oneHot' = PromptOf[Fx]
  /\ ZeroCaches /\ ZeroDecoder
  /\ chunks' = 0 /\ steps' = 0 /\ tokens' = 0 /\ truncated' = FALSE
  /\ UNCHANGED <<opt, samples, turn, pre, x, masked, rows, frame, syms, calls>>

\* A fixture that cannot be read, or a locale nobody knows, ends the program.
Unreadable ==
  /\ pc = "load" /\ Goto("failed")
  /\ UNCHANGED <<opt, samples, turn, chunks, caches, inputs, loop, calls>>

\* mel, and the pre-encoder unless it is fused: chunk 0 has graphs of its own
\* that read no cache.  Then the mask.
Encode(k) ==
  /\ x' = [of |-> <<turn, k>>, after |-> IF Fused \/ k = 0 THEN Zero ELSE pre]
  /\ pre' = IF Fused THEN pre ELSE <<turn, k>>
  /\ rows' = IF ~Fused THEN rows
             ELSE IF k = 0 THEN "first" ELSE IF k = 1 THEN "ones" ELSE rows
  /\ masked' = Masked(k)

Chunk ==
  /\ pc = "chunk" /\ Goes(chunks) /\ Goto("conformer")
  /\ Encode(chunks)
  /\ UNCHANGED <<opt, samples, turn, chunks, setA, setB, oneHot, loop, calls>>

Conformer ==
  /\ pc = "conformer" /\ Goto("while")
  /\ IF Swap THEN Writes(chunks) ELSE setB' = Result(chunks) /\ setA' = setB'
  /\ frame' = 0 /\ syms' = 0
  /\ UNCHANGED <<opt, samples, turn, chunks, pre, inputs, steps, tokens, dec, truncated, calls>>

\* Mutant: the chunks that are over.
MaxStepsBehind == (opt.maxSymbols + 1) * Q * chunks + Slack

MaxSteps == (opt.maxSymbols + 1) * Q * (chunks + 1) + Slack

\* The joint says blank: the frame is done.
Blank ==
  /\ pc = "while" /\ steps < MaxSteps /\ Goto("frame")
  /\ steps' = steps + 1
  /\ UNCHANGED <<opt, samples, turn, chunks, caches, inputs, frame, syms, tokens, dec,
                 truncated, calls>>

\* Or a token: it is emitted and given to the decoder; the frame stays, up to
\* --max-symbols of them.
Emit ==
  /\ pc = "while" /\ steps < MaxSteps
  /\ steps' = steps + 1 /\ tokens' = tokens + 1 /\ syms' = syms + 1
  /\ dec' = <<dec[1], dec[2] + 1>>
  /\ Goto(IF opt.maxSymbols > 0 /\ syms' >= opt.maxSymbols THEN "frame" ELSE "while")
  /\ UNCHANGED <<opt, samples, turn, chunks, caches, inputs, frame, truncated, calls>>

\* The loop's steps are used up.
Spent ==
  /\ pc = "while" /\ steps >= MaxSteps /\ Goto("frame")
  /\ UNCHANGED <<opt, samples, turn, chunks, caches, inputs, loop, calls>>

\* The next frame, or the end of the chunk.
FrameEnds ==
  /\ pc = "frame"
  /\ \/ /\ steps < MaxSteps /\ frame + 1 < Q
        /\ frame' = frame + 1 /\ syms' = 0 /\ Goto("while")
        /\ UNCHANGED <<chunks, truncated>>
     \/ /\ steps >= MaxSteps \/ frame + 1 = Q
        /\ truncated' = (truncated \/ steps >= MaxSteps)
        /\ chunks' = chunks + 1 /\ Goto("chunk")
        /\ UNCHANGED <<frame, syms>>
  /\ UNCHANGED <<opt, samples, turn, caches, inputs, steps, tokens, dec, calls>>

\* Mutant: an utterance that was cut is run again.
UtteranceEndsWhole ==
  /\ pc = "chunk" /\ ~Latency /\ ~Goes(chunks)
  /\ turn' = IF truncated THEN turn ELSE turn + 1
  /\ Goto(IF turn' = Count + 2 /\ Rounds = 0 THEN "done" ELSE "load")
  /\ UNCHANGED <<opt, samples, chunks, caches, inputs, loop, calls>>

UtteranceEnds ==
  /\ pc = "chunk" /\ ~Latency /\ ~Goes(chunks)
  /\ turn' = turn + 1
  /\ Goto(IF turn' = Count + 2 /\ Rounds = 0 THEN "done" ELSE "load")
  /\ UNCHANGED <<opt, samples, chunks, caches, inputs, loop, calls>>

\* The latency phase, once its utterance is streamed: chunk `chunks` is
\* encoded, with the pre-encoder's caches left as they are, ...
LatencyEncode ==
  /\ pc = "chunk" /\ Latency /\ ~Goes(chunks) /\ Goto("latency")
  /\ x' = [of |-> <<turn, chunks>>, after |-> IF Fused THEN Zero ELSE pre]
  /\ rows' = IF Fused THEN "ones" ELSE rows
  /\ masked' = Masked(chunks)
  /\ UNCHANGED <<opt, samples, turn, chunks, caches, oneHot, loop, calls>>

\* ... the conformer is run again and again on it, with no move of the caches, ...
LatencyConformer ==
  /\ pc = "latency" /\ calls < Rounds
  /\ Writes(chunks)
  /\ calls' = calls + 1
  /\ UNCHANGED <<opt, samples, turn, pc, chunks, pre, inputs, loop>>

\* ... and the move is timed by itself.
LatencyEnds ==
  /\ pc = "latency" /\ calls = Rounds /\ Goto("done")
  /\ setA' = IF Swap THEN setA ELSE setB
  /\ UNCHANGED <<opt, samples, turn, chunks, setB, pre, inputs, loop, calls>>

Next ==
  \/ Load \/ Unreadable \/ Chunk \/ Conformer
  \/ Blank \/ Emit \/ Spent \/ FrameEnds \/ UtteranceEnds
  \/ LatencyEncode \/ LatencyConformer \/ LatencyEnds

Spec == Init /\ [][Next]_vars

\* One thread, and every call of a graph returns.
FairSpec == Spec /\ WF_vars(Next)

-----------------------------------------------------------------------------
(* Properties *)

Cell == (0..(Count + 2)) \X Nat
CacheSet == [kv : [Slot -> Cell], tail : Cell]

TypeOK ==
  /\ opt \in Options /\ samples \in Samples
  /\ turn \in 1..(Count + 2)
  /\ pc \in {"load", "chunk", "conformer", "while", "frame", "latency", "done", "failed"}
  /\ chunks \in Nat /\ calls \in 0..Rounds
  /\ setA \in CacheSet /\ setB \in CacheSet /\ pre \in Cell
  /\ x \in [of : Cell, after : Cell]
  /\ masked \in 0..S /\ rows \in {"junk", "first", "ones"} /\ oneHot \in {-1} \cup Nat
  /\ frame \in 0..(Q - 1) /\ syms \in Nat /\ steps \in Nat /\ tokens \in Nat
  /\ dec \in Cell /\ truncated \in BOOLEAN

\* The cache slots a mask leaves open hold the frames right before chunk k.
Window(kv, k) ==
  \A j \in Slot : j >= S - Least(S, Q * k) => kv[j] = <<turn, Q * k + j - S>>

\* What chunk k finds in caches that are moved on by one chunk.
Before(k) == IF k = 0 THEN Zero ELSE <<turn, k - 1>>

\* "The caches move to the next chunk": whenever the conformer is called, in
\* the latency phase too, and however the sets are moved, the open slots hold
\* this utterance's last frames in order and nothing of an earlier one, the
\* other caches are those of the chunk before, and the prompt is its own.
WindowIsItsOwn ==
  pc \in {"conformer", "latency"} =>
    LET k == chunks
        in == Reads(k)
    IN /\ masked = S - Least(S, Q * k)
       /\ Window(in.kv, k)
       /\ in.tail = Before(k)
       /\ x = [of |-> <<turn, k>>, after |-> IF Fused THEN Zero ELSE Before(k)]
       /\ Fused => rows = (IF k = 0 THEN "first" ELSE "ones")
       /\ oneHot = PromptOf[Fx]

\* "The decoder state runs on from the previous chunk", and from no earlier
\* utterance: it has been given the tokens that were emitted, each once.
DecoderIsItsOwn == pc \in {"chunk", "while", "frame"} => dec = <<turn, tokens>>

\* The mel frames of a chunk, and the samples a frame is made from.
MelFrames(k) == IF k = 0 THEN 0..(F0 - 1) ELSE (F0 + F * (k - 1))..(F0 + F * k - 1)
WindowOf(t) == (t * Hop - Win \div 2)..(t * Hop + Win \div 2 - 1)

\* An utterance that has been streamed was heard whole: each mel frame was
\* made from samples its chunk has, with --tail pad every sample is in one and
\* no chunk is made of zeros alone, and a cap on symbols never cuts it short.
WholeUtterance ==
  pc = "chunk" /\ ~Latency /\ ~Goes(chunks) =>
    /\ opt.maxSymbols > 0 => ~truncated
    /\ \A k \in 0..(chunks - 1) : \A t \in MelFrames(k) : \A j \in WindowOf(t) :
         j >= 0 => j \in Start(k)..(Start(k) + Len(k) - 1)
    /\ opt.tail = "pad" /\ ~truncated =>
         /\ \A j \in 0..(N - 1) :
              \E k \in 0..(chunks - 1) : \E t \in MelFrames(k) : j \in WindowOf(t)
         /\ chunks > 1 => Start(chunks - 1) < N

\* "No call moves the state on": not so for the last copy (LatencyEnds).
LatencyKeepsState ==
  [][pc = "latency" => Reads(chunks)' = Reads(chunks)]_vars

\* The program ends, also when the joint never says blank and no cap is set.
RunEnds == <>(pc \in {"done", "failed"})
=============================================================================

------------------------------ MODULE Decoding ------------------------------
(***************************************************************************)
(* Greedy decoding of one engine call of the local OCR engine              *)
(* (engine/fast_decode.py) with its no-repeat n-gram filter                *)
(* (native_ops.py), the token budget of the repetition detector            *)
(* (engine/repetition.py) and the user's cancel (engine/unlimited.py).     *)
(*                                                                         *)
(* Tokens stay on the device; the host looks at them once per block, for   *)
(* the end of the text, the streamer and the stop criteria.  On CUDA the   *)
(* loop warms up step by step until the model's cache has its final size,  *)
(* runs a block on a side stream, captures one step as a graph and replays *)
(* it; tokens then live in the filter's ring buffer until they are         *)
(* drained, and a failure falls back to the step-by-step loop.             *)
(*                                                                         *)
(* The model is external: which token it favours at a forward pass is      *)
(* open, and it depends on what was fed to it, token by token with its     *)
(* position.  A filtered token is replaced by the next one in a fixed      *)
(* order.  A step that fails between two of its kernels, which the code    *)
(* accepts as an error of one token (fast_decode.py:322), and a drain that *)
(* fails while a failure is handled, after which the code goes on without  *)
(* those tokens (fast_decode.py:324-330), are left out.                    *)
(* The budget counts one page: the marker that begins another one resets   *)
(* it, and markers are text, which is not modelled.                        *)
(***************************************************************************)
EXTENDS Naturals, Sequences, SequencesExt, FiniteSetsExt

CONSTANTS VocabSize,  \* tokens are numbers below it
          EndOfText,  \* eos_token_id; any other number where there is none
          Prompt,     \* the tokens of the prompt
          MaxLength,  \* settings.max_length
          Block,      \* settings.decode_block
          NgramSize, Window, \* of the no-repeat filter
          RingWindow, \* config._ring_window: the decode steps the cache grows for
          PageLimits  \* values of max_page_tokens of the repetition detector

Vocabulary == 0..(VocabSize - 1)

ASSUME DecodingAssumption ==
  /\ VocabSize \in Nat \ {0} /\ EndOfText \in Nat
  /\ Prompt \in Seq(Vocabulary) /\ Prompt # <<>>
  /\ MaxLength \in Nat /\ Len(Prompt) < MaxLength
  /\ NgramSize \in Nat \ {0, 1} /\ Window \in Nat /\ NgramSize <= Window
  /\ Block \in Nat \ {0} /\ Block <= Window
  /\ RingWindow \in Nat \ {0} /\ PageLimits \subseteq Nat

VARIABLES
  pc,         \* eager, warm (side stream), capture, replay, ended
  graph,      \* the graph path is tried
  maxPageTokens, \* of this call
  seq,        \* input_ids: prompt and tokens on record
  goal,       \* the length the eager loop runs to
  pending,    \* tokens of the eager loop the host has not seen
  left,       \* graph steps until the next drain
  cur,        \* cur_tok: the last token, not fed yet
  position,   \* the position of the next token to feed
  base,       \* base_pos
  drained,    \* graph tokens moved to seq
  tail, pos, count, \* the ring of GraphSlidingWindowNoRepeatNgram
  fed,        \* what the model's cache holds: tokens with their positions
  finishedAt, \* 0, or the length up to and with the end of text
  stopped,    \* a stop criterion held
  streamed,   \* what the streamer was given
  cancelSet,  \* the job's cancel event
  wants       \* ghost: the tokens the model favoured, pass by pass

ringVars == <<tail, pos, count>>
graphVars == <<left, cur, base, drained, ringVars>>
hostVars == <<finishedAt, stopped, streamed>>
settings == <<graph, maxPageTokens>>
vars == <<pc, settings, seq, goal, pending, position, graphVars, fed, hostVars,
          cancelSet, wants>>

-----------------------------------------------------------------------------
\* The no-repeat filter

\* banned_ngram_tokens_py, and the C++ function with its semantics: what would
\* complete an n-gram found in the last Window tokens a second time.
Banned(s) ==
  {s[i + NgramSize] :
     i \in {k \in Max({0, Len(s) - Window}) .. Len(s) - NgramSize :
              \A d \in 1..(NgramSize - 1) : s[k + d] = s[Len(s) - NgramSize + 1 + d]}}

\* GraphSlidingWindowNoRepeatNgram: prime, _window_ordered, step, push, recent.
Prime(s) ==
  LET k == Min({Len(s), Window}) IN
  /\ tail' = [i \in 0..(Window - 1) |-> IF i < k THEN s[Len(s) - k + i + 1] ELSE 0]
  /\ pos' = k % Window
  /\ count' = k

Ordered(i) == tail[(pos + i) % Window]

\* Mutant of RingBanned: the padding of a ring that is not full counts.
RingBanned_Padded ==
  {Ordered(i + NgramSize - 1) :
     i \in {k \in 0..(Window - NgramSize) :
              \A d \in 0..(NgramSize - 2) : Ordered(k + d) = Ordered(Window - NgramSize + 1 + d)}}

RingBanned ==
  {Ordered(i + NgramSize - 1) :
     i \in {k \in 0..(Window - NgramSize) :
              /\ k + count >= Window
              /\ \A d \in 0..(NgramSize - 2) : Ordered(k + d) = Ordered(Window - NgramSize + 1 + d)}}

Push(t) == /\ tail' = [tail EXCEPT ![pos] = t]
           /\ pos' = (pos + 1) % Window
           /\ count' = Min({count + 1, Window})

Recent(k) == [i \in 1..k |-> Ordered(Window - k + i - 1)]

\* argmax of the filtered logits; with all of them at -inf it is the first.
Pick(t, banned) ==
  IF Vocabulary \subseteq banned THEN 0
  ELSE (t + Min({k \in Vocabulary : (t + k) % VocabSize \notin banned})) % VocabSize

-----------------------------------------------------------------------------
\* One forward pass that feeds these tokens; it favours t.
Forward(tokens, t) == /\ fed' = fed \o tokens
                      /\ wants' = Append(wants, t)

\* The host reads the tokens that are new in s: the end of text cuts them, the
\* streamer gets them (and with it the token budget), the criteria are asked.
HostReads(s, new) ==
  LET end  == {i \in 1..Len(new) : new[i] = EndOfText}
      emit == IF end = {} THEN new ELSE SubSeq(new, 1, Min(end))
  IN /\ finishedAt' = IF end = {} THEN 0 ELSE Len(s) - Len(new) + Min(end)
     /\ streamed' = streamed \o emit
     /\ stopped' = (end = {} /\ (cancelSet \/ Len(streamed') > maxPageTokens))

Done == finishedAt # 0 \/ stopped \/ Len(seq) >= MaxLength

-----------------------------------------------------------------------------
\* The step-by-step loop: fast_greedy_decode's own, and _eager_until.

LoopOver == Len(seq) >= Min({goal, MaxLength})
Unseen == SubSeq(seq, Len(seq) - pending + 1, Len(seq))

\* prefill feeds the whole prompt, a decode step the last token.
EagerStep ==
  /\ pc = "eager" /\ ~Done /\ ~LoopOver /\ pending < Block
  /\ \E t \in Vocabulary :
       /\ Forward(IF fed = <<>> THEN [i \in 1..Len(seq) |-> <<seq[i], i - 1>>]
                  ELSE <<<<Last(seq), position>>>>, t)
       /\ seq' = Append(seq, Pick(t, Banned(seq)))
  /\ position' = IF fed = <<>> THEN Len(seq) ELSE position + 1
  /\ pending' = pending + 1
  /\ UNCHANGED <<pc, settings, goal, graphVars, hostVars, cancelSet>>

EagerFlush ==
  /\ pc = "eager" /\ pending > 0 /\ (pending = Block \/ LoopOver)
  /\ HostReads(seq, Unseen)
  /\ pending' = 0
  /\ UNCHANGED <<pc, settings, seq, goal, position, graphVars, fed, cancelSet, wants>>

\* Finalize: what follows the end of text is cut off.
Finalize ==
  /\ pc' = "ended"
  /\ seq' = IF finishedAt = 0 THEN seq ELSE SubSeq(seq, 1, finishedAt)
  /\ UNCHANGED <<settings, goal, pending, position, graphVars, fed, hostVars, cancelSet, wants>>

EagerEnds ==
  /\ pc = "eager" /\ pending = 0 /\ Done
  /\ Finalize

-----------------------------------------------------------------------------
\* _cuda_graph_greedy_decode after its step-by-step warm-up

\* The static buffers and the ring take over from input_ids.
Prepare ==
  /\ pc = "eager" /\ graph /\ pending = 0 /\ ~Done /\ LoopOver
  /\ cur' = Last(seq) /\ position' = Len(seq) - 1 /\ base' = Len(seq) - 1
  /\ drained' = 0
  /\ Prime(seq)
  /\ pc' = "warm" /\ left' = Block
  /\ UNCHANGED <<settings, seq, goal, pending, fed, hostVars, cancelSet, wants>>

\* _fwd_step, run on the side stream or replayed.
GraphStep ==
  /\ pc \in {"warm", "replay"} /\ left > 0
  /\ \E t \in Vocabulary :
       /\ Forward(<<<<cur, position>>>>, t)
       /\ LET next == Pick(t, RingBanned) IN cur' = next /\ Push(next)
  /\ position' = position + 1
  /\ left' = left - 1
  /\ UNCHANGED <<pc, settings, seq, goal, pending, base, drained, hostVars, cancelSet>>

\* _drain: the last k tokens of the ring are put on record.
DrainRing(k) == /\ seq' = seq \o Recent(k)
                /\ drained' = drained + k
                /\ HostReads(seq', Recent(k))

WarmDrain ==
  /\ pc = "warm" /\ left = 0
  /\ DrainRing(Block)
  /\ pc' = "capture"
  /\ UNCHANGED <<settings, goal, pending, position, left, cur, base, ringVars, fed, cancelSet, wants>>

\* Mutant of Round: only whole blocks are replayed.
Round_WholeBlocks(s) == IF MaxLength - Len(s) >= Block THEN Block ELSE 0

\* n_rep: how often the graph is replayed before the next drain.
Round(s) == Min({Block, MaxLength - Len(s)})

\* Capturing records kernels and runs none of them.
Capture ==
  /\ pc = "capture" /\ ~Done
  /\ pc' = "replay" /\ left' = Round(seq)
  /\ UNCHANGED <<settings, seq, goal, pending, position, cur, base, drained, ringVars, fed,
                 hostVars, cancelSet, wants>>

\* A round of replays is drained, and the next one planned.
ReplayDrain ==
  /\ pc = "replay" /\ left = 0 /\ ~Done
  /\ DrainRing(position - base - drained)
  /\ left' = IF Done' THEN 0 ELSE Round(seq')
  /\ UNCHANGED <<pc, settings, goal, pending, position, cur, base, ringVars, fed, cancelSet, wants>>

GraphEnds ==
  /\ pc \in {"capture", "replay"} /\ Done
  /\ Finalize

\* Mutant of GraphFails: the step-by-step loop goes on one position too far.
GraphFails_Ahead ==
  /\ pc \in {"warm", "capture", "replay"} /\ ~Done
  /\ LET missing == position - base - drained IN
       IF missing > 0 THEN DrainRing(missing)
       ELSE UNCHANGED <<seq, drained, hostVars>>
  /\ position' = Len(seq')
  /\ pc' = "eager" /\ goal' = MaxLength
  /\ UNCHANGED <<settings, pending, left, cur, base, ringVars, fed, cancelSet, wants>>

\* Warm-up, capture or a replay raises: the tokens still in the ring are put on
\* record, and the step-by-step loop goes on with the same cache.
GraphFails ==
  /\ pc \in {"warm", "capture", "replay"} /\ ~Done
  /\ LET missing == position - base - drained IN
       IF missing > 0 THEN DrainRing(missing)
       ELSE UNCHANGED <<seq, drained, hostVars>>
  /\ position' = Len(seq') - 1
  /\ pc' = "eager" /\ goal' = MaxLength
  /\ UNCHANGED <<settings, pending, left, cur, base, ringVars, fed, cancelSet, wants>>

-----------------------------------------------------------------------------
RequestCancel ==
  /\ ~cancelSet /\ pc # "ended"
  /\ cancelSet' = TRUE
  /\ UNCHANGED <<pc, settings, seq, goal, pending, position, graphVars, fed, hostVars, wants>>

Init ==
  /\ pc = "eager" /\ graph \in BOOLEAN /\ maxPageTokens \in PageLimits
  /\ seq = Prompt
  /\ goal = IF graph THEN Len(Prompt) + RingWindow + Block ELSE MaxLength
  /\ pending = 0 /\ left = 0 /\ cur = 0 /\ position = 0 /\ base = 0 /\ drained = 0
  /\ tail = [i \in 0..(Window - 1) |-> 0] /\ pos = 0 /\ count = 0
  /\ fed = <<>> /\ finishedAt = 0 /\ stopped = FALSE /\ streamed = <<>>
  /\ cancelSet = FALSE /\ wants = <<>>

DecodeStep == \/ EagerStep \/ EagerFlush \/ EagerEnds \/ Prepare \/ GraphStep
              \/ WarmDrain \/ Capture \/ ReplayDrain \/ GraphEnds

Next == DecodeStep \/ GraphFails \/ RequestCancel

Spec == Init /\ [][Next]_vars

\* The worker thread keeps decoding.
LiveSpec == Spec /\ WF_vars(DecodeStep)

-----------------------------------------------------------------------------
\* What decoding token by token gives, with a look after each: the reference.
Reference ==
  LET text[k \in 0..Len(wants)] ==
        IF k = 0 THEN Prompt
        ELSE Append(text[k - 1], Pick(wants[k], Banned(text[k - 1])))
  IN text[Len(wants)]

\* The fast loop writes the text the plain one would: whatever is eager, on the
\* side stream or replayed, wherever the graph fails, with the end of text
\* anywhere in a block; and a text that was not stopped ends where the plain
\* loop ends it.  What the streamer got, block by block, is that text, with
\* nothing behind its end (fast_decode.py:10-13, 176-184, 318-337).
Generated == SubSeq(seq, Len(Prompt) + 1, Len(seq))
OutputIsGreedy ==
  /\ IsPrefix(seq, Reference)
  /\ (pc = "ended" /\ ~stopped) =>
       IF \E i \in 1..Len(Generated) : Generated[i] = EndOfText
       THEN /\ Last(Generated) = EndOfText
            /\ \A i \in 1..(Len(Generated) - 1) : Generated[i] # EndOfText
       ELSE Len(seq) >= MaxLength
  /\ pc = "ended" => streamed = Generated

\* The model is fed each token of the text once, in order and at its position,
\* also when the loop changes hands (fast_decode.py:142-145, 252-260, 331-336).
ModelSeesTheText ==
  \A i \in 1..Len(fed) : fed[i] = <<Reference[i], i - 1>>

\* Decoding ends, also when the graph fails and the model never ends its text.
DecodeEnds == <>(pc = "ended")
=============================================================================

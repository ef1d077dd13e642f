------------------------------ MODULE Decoding ------------------------------
(***************************************************************************)
(* Token generation: the decoding loop (llm/pipeline.rs), the key-value    *)
(* caches that the transformer's layers grow (llm/architecture.rs,         *)
(* llm/kv_cache.rs), and the executor of one pipeline stage, which keeps   *)
(* its cache from one call to the next (llm/stage.rs).                     *)
(*                                                                         *)
(* A cached key or value is what it stands for: the key-value head that    *)
(* computed it and the position it was rotated to.  What the tensors hold, *)
(* and so which token is sampled, is left open.                            *)
(***************************************************************************)
EXTENDS Integers, Sequences, FiniteSets, SequencesExt

CONSTANTS
    Vocabulary, Eos,    \* token ids, and the one that ends a text
    StopLists,          \* values of stop_sequences
    PromptLengths,      \* prompt lengths, none of them 0
    TokenLimits,        \* values of max_tokens
    Layers,             \* transformer layers of the model or stage
    KvHeads,            \* num_kv_heads
    GroupSize,          \* kv_group_size: query heads per key-value head
    MaxSeqLen           \* max_seq_len

ASSUME DecodingAssumption ==
    /\ Eos \in Vocabulary
    /\ PromptLengths \subseteq Nat \ {0}
    /\ TokenLimits \subseteq Nat
    /\ Layers \in Nat \ {0} /\ KvHeads \in Nat \ {0} /\ GroupSize \in Nat \ {0}
    /\ MaxSeqLen \in Nat

VARIABLES
    request,     \* the run's [prompt_len, max_tokens, stops]
    phase,       \* "idle", "decode", "done" or "failed"
    generated,   \* the tokens sampled so far
    kv_caches,   \* run_local's caches, one per layer, empty before the prefill
    stage_cache, \* StageExecutor.kv_cache
    stage_len    \* its seq_len

decodingVars == <<request, phase, generated, kv_caches, stage_cache, stage_len>>

-----------------------------------------------------------------------------
(* The transformer.                                                        *)

Heads == 0..(KvHeads - 1)

\* RotaryEmbedding::apply slices a table of max_seq_len positions.
RopeCovers(offset, n) == offset + n <= MaxSeqLen

\* The keys of n new tokens, rotated to the positions from offset on.
NewKeys(n, offset) ==
    [h \in Heads |-> [i \in 1..n |-> [head |-> h, position |-> offset + i - 1]]]

\* repeat_kv: head h of x is repeated GroupSize times in a row.
repeat_kv(x) == [e \in 0..(KvHeads * GroupSize - 1) |-> x[e \div GroupSize]]

\* Attention::forward, its effect on a layer's cache: the new keys are appended
\* to the cached ones, repeated for the query heads, and the first num_kv_heads
\* of the repeated heads are kept.
AttentionCache(cache, n, offset) ==
    LET k == NewKeys(n, offset)
        all == IF cache = <<>> THEN k ELSE [h \in Heads |-> cache[h] \o k[h]]
    IN  [h \in Heads |-> repeat_kv(all)[h]]

\* Mutant of forward: only the first layer's cache is kept.
ForwardFirstLayer(caches, n, offset) ==
    [l \in 1..Layers |->
        IF l > 1 /\ caches # <<>> THEN caches[l]
        ELSE AttentionCache(IF caches = <<>> THEN <<>> ELSE caches[l], n, offset)]

\* forward and forward_stage: every layer in turn, with its own cache.
forward(caches, n, offset) ==
    [l \in 1..Layers |-> AttentionCache(IF caches = <<>> THEN <<>> ELSE caches[l], n, offset)]

-----------------------------------------------------------------------------
(* run_local.                                                              *)

NoRequest == [prompt_len |-> 0, max_tokens |-> 0, stops |-> {}]

DecodingInit ==
    /\ request = NoRequest
    /\ phase = "idle"
    /\ generated = <<>>
    /\ kv_caches = <<>>
    /\ stage_cache = <<>>
    /\ stage_len = 0

\* Mutant of check_stop_sequences: the text must be longer than the sequence.
StopsIfLonger(tokens, stops) == \E s \in stops : Len(tokens) > Len(s) /\ IsSuffix(s, tokens)

check_stop_sequences(tokens, stops) == \E s \in stops : IsSuffix(s, tokens)

\* The prompt is processed and the first token sampled: only the end-of-text
\* token stops the run here.
Prefill(r) ==
    /\ phase = "idle"
    /\ request' = r
    /\ IF RopeCovers(0, r.prompt_len)
       THEN /\ kv_caches' = forward(<<>>, r.prompt_len, 0)
            /\ \E token \in Vocabulary :
                 /\ generated' = <<token>>
                 /\ phase' = IF token = Eos THEN "done" ELSE "decode"
       ELSE phase' = "failed" /\ UNCHANGED <<kv_caches, generated>>
    /\ UNCHANGED <<stage_cache, stage_len>>

\* decode_steps: max_tokens.saturating_sub(1).
decode_steps == IF request.max_tokens = 0 THEN 0 ELSE request.max_tokens - 1

\* Mutant of DecodeOffset: the prefill's own token is counted too.
OffsetPastToken == request.prompt_len + Len(generated)

\* The loop's offset when Len(generated) - 1 steps have been made.
DecodeOffset == request.prompt_len + Len(generated) - 1

\* Mutant of Decode: the end-of-text token is not looked for.
DecodeIgnoresEos ==
    /\ phase = "decode"
    /\ Len(generated) <= decode_steps
    /\ IF RopeCovers(DecodeOffset, 1)
       THEN /\ kv_caches' = forward(kv_caches, 1, DecodeOffset)
            /\ \E token \in Vocabulary :
                 /\ generated' = Append(generated, token)
                 /\ phase' = IF check_stop_sequences(generated', request.stops)
                             THEN "done" ELSE "decode"
       ELSE phase' = "failed" /\ UNCHANGED <<kv_caches, generated>>
    /\ UNCHANGED <<request, stage_cache, stage_len>>

\* One turn of the loop.  A position past the rotary table is an error, and the
\* run returns it instead of the tokens it has.
Decode ==
    /\ phase = "decode"
    /\ Len(generated) <= decode_steps
    /\ IF RopeCovers(DecodeOffset, 1)
       THEN /\ kv_caches' = forward(kv_caches, 1, DecodeOffset)
            /\ \E token \in Vocabulary :
                 /\ generated' = Append(generated, token)
                 /\ phase' = IF token = Eos \/ check_stop_sequences(generated', request.stops)
                             THEN "done" ELSE "decode"
       ELSE phase' = "failed" /\ UNCHANGED <<kv_caches, generated>>
    /\ UNCHANGED <<request, stage_cache, stage_len>>

\* The loop has run its steps.
EndOfLoop ==
    /\ phase = "decode"
    /\ Len(generated) > decode_steps
    /\ phase' = "done"
    /\ UNCHANGED <<request, generated, kv_caches, stage_cache, stage_len>>

-----------------------------------------------------------------------------
(* StageExecutor.                                                          *)

\* Mutant of StageForwardFails: the layers before the failing one are kept.
StageKeepsPartial(n, l) ==
    /\ stage_cache # <<>>
    /\ stage_cache' = [i \in 1..Layers |->
         IF i < l THEN AttentionCache(stage_cache[i], n, stage_len) ELSE stage_cache[i]]
    /\ UNCHANGED <<request, phase, generated, kv_caches, stage_len>>

\* forward: the layers work on a copy of the cache, which replaces it at the end.
\* The caller's offset is the number of tokens the stage has seen.
StageForward(n) ==
    /\ RopeCovers(stage_len, n)
    /\ stage_cache' = forward(stage_cache, n, stage_len)
    /\ stage_len' = stage_len + n
    /\ UNCHANGED <<request, phase, generated, kv_caches>>

\* A layer fails, or the rotary table ends: the copy is dropped.
StageForwardFails(n, l) ==
    /\ stage_cache # <<>>
    /\ UNCHANGED decodingVars

\* reset_cache, before the next request.
reset_cache ==
    /\ stage_cache' = <<>>
    /\ stage_len' = 0
    /\ UNCHANGED <<request, phase, generated, kv_caches>>

DecodingNext ==
    \/ \E p \in PromptLengths, m \in TokenLimits, s \in StopLists :
         Prefill([prompt_len |-> p, max_tokens |-> m, stops |-> s])
    \/ Decode
    \/ EndOfLoop
    \/ \E n \in PromptLengths : StageForward(n)
    \/ \E n \in PromptLengths, l \in 1..Layers : StageForwardFails(n, l)
    \/ reset_cache

DecodingSpec == DecodingInit /\ [][DecodingNext]_decodingVars

-----------------------------------------------------------------------------
(* Properties.                                                             *)

\* The text ends where it should and not later: no end-of-text token and no
\* complete stop sequence stands before its last token (the first token is not
\* compared with the stop sequences), and a text that is shorter than max_tokens
\* ends with one of the two.
EndsOnTime ==
    LET n == Len(generated)
        Ends(k) == \/ generated[k] = Eos
                   \/ k > 1 /\ \E s \in request.stops : IsSuffix(s, SubSeq(generated, 1, k))
    IN  /\ \A k \in 1..(n - 1) : ~Ends(k)
        /\ phase = "done" /\ n < request.max_tokens => Ends(n)
        /\ n <= 1 \/ n <= request.max_tokens

\* Every layer's cache holds each token of the text once, at its own position, up
\* to the one that has just been sampled, and never more than the rotary table.
CachesFollowText ==
    kv_caches # <<>> =>
        /\ DOMAIN kv_caches = 1..Layers
        /\ \A l \in 1..Layers, h \in Heads :
             LET c == kv_caches[l][h] IN
             /\ Len(c) = request.prompt_len + Len(generated) - 1
             /\ Len(c) <= MaxSeqLen
             /\ \A i \in 1..Len(c) : c[i].position = i - 1

\* A failed forward pass of a stage leaves all its layers at the same length, the
\* one that the next pass is told to go on from.
StageAligned ==
    stage_cache # <<>> =>
        \A l \in 1..Layers, h \in Heads : Len(stage_cache[l][h]) = stage_len

\* The cache of a layer holds the un-expanded heads: head h is what head h
\* computed.
CacheKeepsHeads ==
    \A l \in DOMAIN kv_caches : \A h \in Heads : \A i \in DOMAIN kv_caches[l][h] :
        kv_caches[l][h][i].head = h

\* The caches of all layers stand at the same token: in generate after every step,
\* and in a stage also after a forward pass that failed half way.
CachesAligned ==
    /\ CachesFollowText
    /\ StageAligned

=============================================================================

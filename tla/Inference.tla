------------------------------ MODULE Inference ------------------------------
(***************************************************************************)
(* The language model of a device (crates/llama-bind), as built with the   *)
(* feature llama-cpp; the default build answers fixed texts.  A model is   *)
(* chosen by the memory there is, loaded into a context of ContextSize     *)
(* cells, and asked: the prompt takes a cell for each of its tokens, then  *)
(* tokens are drawn, each fed back into the next cell, until one says the  *)
(* end, a stop sequence is complete or the budget of tokens is spent.      *)
(*                                                                         *)
(* The library behind it is external: which token is drawn is open,        *)
(* penalties and samplers only weighing it, and a token is the bytes it    *)
(* writes.  Tokens that are decoded need free cells, and the code never    *)
(* frees any, so that a second request to a context meets those of the     *)
(* first.                                                                  *)
(***************************************************************************)
EXTENDS Integers, Sequences

CONSTANTS
  Pieces,       \* the bytes a token may write
  Stops,        \* stop_tokens
  ContextSize,  \* n_ctx
  Budgets,      \* max_tokens
  Prompts,      \* lengths of prompts in tokens, the first token included
  Memories,     \* memory of devices, in MB
  MaxAsks       \* bound on the requests to a context

ASSUME InferenceAssumption ==
  /\ Prompts \subseteq Nat \ {0} /\ Budgets \subseteq Nat /\ Memories \subseteq Nat
  /\ {ContextSize, MaxAsks} \subseteq Nat

VARIABLES
  context,  \* the LlamaContext: memory, need and budget of its model; its cells
  request   \* the request in progress or the last one

inferenceVars == <<context, request>>

NoRequest == [stage |-> "none"]
NoContext == [made |-> FALSE]

-----------------------------------------------------------------------------
(* The choice of a model *)

\* ram_per_billion_params of Q4K, for so many tenths of a billion.
Q4K(tenths) == 65 * tenths

\* qwen_for_ram: the need of the model recommended.
QwenForRam(mb) ==
  CASE mb >= 5120 -> Q4K(70)
    [] mb >= 2048 /\ mb < 5120 -> Q4K(30)
    [] mb >= 1024 /\ mb < 2048 -> Q4K(15)
    [] OTHER -> Q4K(5)

\* LlamaContext::new
NewContext(mb, budget) ==
  /\ ~context.made
  /\ context' = [made |-> TRUE, mb |-> mb, need |-> QwenForRam(mb), budget |-> budget,
                 loaded |-> FALSE, cells |-> <<>>, asks |-> 0]
  /\ request' = NoRequest

\* load: a new, empty context; one loaded before is neither used nor freed.  A
\* load that fails changes nothing.
Load ==
  /\ context.made /\ request.stage # "drawing"
  /\ context' = [context EXCEPT !.loaded = TRUE, !.cells = <<>>, !.asks = 0]
  /\ request' = NoRequest

-----------------------------------------------------------------------------
(* A request: real_generate *)

\* Slip: the last token needs no cell of its own.
FitsButLast(n, budget) == n + budget <= ContextSize + 1

\* check_context_fit
Fits(n, budget) == n + budget <= ContextSize

\* llama_decode of n tokens, external.
Room(n) == Len(context.cells) + n <= ContextSize

\* generate, up to the decoding of the prompt.
Asked(n) ==
  IF ~context.loaded THEN "not loaded"
  ELSE IF n > ContextSize THEN "too long"
  ELSE IF ~Fits(n, context.budget) THEN "overflow"
  ELSE IF ~Room(n) THEN "no room"
  ELSE "drawing"

Ask(n) ==
  /\ context.made /\ request.stage # "drawing" /\ context.asks < MaxAsks
  /\ request' = [stage |-> Asked(n), prompt |-> n, drawn |-> 0, text |-> <<>>]
  /\ context' = [context EXCEPT
       !.asks = @ + 1,
       !.cells = IF Asked(n) = "drawing" THEN @ \o [i \in 1 .. n |-> i - 1] ELSE @]

\* contains_stop_sequence: in the bytes of all pieces; an empty one stops nothing.
Stopped(text) ==
  \E s \in Stops \ {<<>>} :
    \E i \in 0 .. Len(text) - Len(s) : SubSeq(text, i + 1, i + Len(s)) = s

\* decode_token_pieces: every lead byte is followed by the tail of its character.
Utf8(text) ==
  \A i \in DOMAIN text :
    /\ text[i] = "lead" => i < Len(text) /\ text[i + 1] = "tail"
    /\ text[i] = "tail" => i > 1 /\ text[i - 1] = "lead"

\* The text is checked once, when all of it is there.
Concluded(text) == IF Utf8(text) THEN "answered" ELSE "invalid"

\* The position of the token just counted.
Position(n, drawn) == n + drawn - 1

Drawing == request.stage = "drawing" /\ request.drawn < context.budget

\* The piece that completes a stop sequence stays in the text, is not counted and
\* not fed back.
DrawLast(piece) ==
  LET text == request.text \o piece IN
    /\ Drawing /\ Stopped(text)
    /\ request' = [request EXCEPT !.stage = Concluded(text), !.text = text]
    /\ UNCHANGED context

Draw(piece) ==
  LET text == request.text \o piece
      drawn == request.drawn + 1
  IN  /\ Drawing /\ ~Stopped(text)
      /\ request' = [request EXCEPT !.stage = IF Room(1) THEN @ ELSE "no room",
                                    !.text = text, !.drawn = drawn]
      /\ context' = [context EXCEPT
           !.cells = IF Room(1) THEN Append(@, Position(request.prompt, drawn)) ELSE @]

\* A token whose bytes cannot be had.
DrawFails ==
  /\ Drawing
  /\ request' = [request EXCEPT !.stage = "failed"]
  /\ UNCHANGED context

\* The token that says the end, or the budget.
Conclude ==
  /\ request.stage = "drawing"
  /\ request' = [request EXCEPT !.stage = Concluded(request.text)]
  /\ UNCHANGED context

-----------------------------------------------------------------------------
InferenceInit == context = NoContext /\ request = NoRequest

InferenceNext ==
  \/ \E mb \in Memories, budget \in Budgets : NewContext(mb, budget)
  \/ Load
  \/ \E n \in Prompts : Ask(n)
  \/ \E piece \in Pieces : DrawLast(piece) \/ Draw(piece)
  \/ DrawFails
  \/ Conclude

InferenceSpec == InferenceInit /\ [][InferenceNext]_inferenceVars

-----------------------------------------------------------------------------
(* Property *)

\* The model recommended for a memory fits in it, where the smallest does.  The
\* first request to a context, once accepted, never runs out of cells, and its tokens
\* stand in the cells 0, 1, 2, ... without a gap.  A later request finds the cells of
\* the former ones taken, and is not covered.
RequestFits ==
  /\ context.made /\ context.mb >= Q4K(5) => context.need <= context.mb
  /\ context.made /\ context.asks = 1 =>
       /\ request.stage # "no room"
       /\ request.stage \in {"drawing", "answered", "invalid", "failed"} =>
            context.cells = [i \in 1 .. request.prompt + request.drawn |-> i - 1]
=============================================================================

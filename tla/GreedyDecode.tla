---------------------------- MODULE GreedyDecode ----------------------------
(***************************************************************************)
(* The token-at-a-time decode loop of aegisllm-base                        *)
(* (executor/generation.rs, generate_with_backend_timed) under greedy      *)
(* sampling.  It is the baseline the speculative loops promise to equal.   *)
(*                                                                         *)
(* `script` is the continuation the target model gives to the prompt:      *)
(* script[i] is the argmax after the prompt and script[1..i-1].  Greedy    *)
(* decoding is a function of the context, so the script is chosen once, in *)
(* the initial state, and never changes.                                   *)
(***************************************************************************)
EXTENDS Integers, Sequences

CONSTANTS Token,       \* token ids
          EosTokens,   \* ids for which is_eos holds
          StopTokens,  \* request.stop_token_ids
          MaxTokens,   \* request.max_tokens
          ScriptLen    \* how much of the target's continuation is recorded

VARIABLES script,      \* the target's greedy continuation
          emitted,     \* `generated`
          done         \* the loop has been left

vars == <<script, emitted, done>>

Init == /\ script \in [1 .. ScriptLen -> Token]
        /\ emitted = <<>>
        /\ done = FALSE

(* One iteration that pushes a token.  A stop token is pushed and ends the *)
(* loop; a push that reaches max_tokens may end it at once (the loop has   *)
(* no further iteration) or leave that to Finish.                          *)
Emit == /\ ~done
        /\ Len(emitted) < MaxTokens
        /\ LET t == script[Len(emitted) + 1]
           IN  /\ t \notin EosTokens
               /\ emitted' = Append(emitted, t)
               /\ \/ done' = TRUE /\ (t \in StopTokens \/ Len(emitted) + 1 = MaxTokens)
                  \/ done' = FALSE /\ t \notin StopTokens
        /\ UNCHANGED script

(* The loop ends without a push: max_tokens iterations are over, or the    *)
(* next token is an end-of-sequence token, which is not emitted.           *)
Finish == /\ ~done
          /\ \/ Len(emitted) = MaxTokens
             \/ script[Len(emitted) + 1] \in EosTokens
          /\ done' = TRUE
          /\ UNCHANGED <<script, emitted>>

Next == Emit \/ Finish

Spec == Init /\ [][Next]_vars
=============================================================================

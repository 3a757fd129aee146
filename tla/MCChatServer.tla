---------------------------- MODULE MCChatServer ----------------------------
(***************************************************************************)
(* Servers for TLC.  Nine have one streaming chat and every answer of up  *)
(* to four, five, six or seven tokens, with markers and characters that    *)
(* arrive whole or in pieces; the others have every kind of request, two in*)
(* a row, and short answers.  SplitSetups is for a claim that fails.       *)
(***************************************************************************)
EXTENDS ChatServer

Words == {<<"a">>, <<"nl">>, <<"fn">>}
WholeGemma == {ThinkOpen, ThinkClose, CallOpen, CallClose, TurnClose}
WholeQwen  == {ThinkOpen, ThinkClose, CallOpen, CallClose}
Pieces(tails) == {<<"<">>} \cup {<<t>> : t \in tails}

(* A marker that is not a token of its own does not end the answer, and    *)
(* there is room for two calls and what follows them.                      *)
TwoCalls == {<<"a">>, CallOpen, <<"fn", "<">>, <<"/call">>}

(* There is room for two bodies, and for white space at the beginning of   *)
(* the second.                                                             *)
TwoBodies == {<<"nl", "a">>, <<"nl", "nl", "a">>, ThinkOpen, ThinkClose}

(* A character is one token, or the half of one, or next to another; and   *)
(* the strings that are removed are tokens, or come in two.                *)
CutInCalls  == {<<"lead">>, <<"tail">>, <<"lead", "tail">>, Bos, CallOpen, CallClose, <<"fn">>}
CutInBodies == {<<"lead", "nl">>, <<"tail">>, <<"a", "lead">>, <<"<">>, <<"eos">>, Eos,
                ThinkOpen, ThinkClose}

DecoderOf(kind) == IF kind = "gemma" THEN "byte fallback" ELSE "byte level"

Generate(stream, chat) ==
  [route |-> "generate", stream |-> stream, chat |-> chat, usable |-> TRUE]

Answers(kind, vocabulary, n) ==
  [api |-> "openai", kind |-> kind, decoder |-> DecoderOf(kind), runnable |-> TRUE,
   vocabulary |-> vocabulary, maxTokens |-> n,
   asks |-> {Generate(TRUE, TRUE)}, limit |-> 1, fickle |-> FALSE]

Asks(chats) ==
  {Garbage} \cup
  {[route |-> r, stream |-> s, chat |-> c, usable |-> TRUE] :
     r \in {"generate", "unknown", "plain"}, s \in BOOLEAN, c \in chats} \cup
  {[Generate(s, c) EXCEPT !.usable = FALSE] : s \in BOOLEAN, c \in chats}

Control(api, kind, runnable, n) ==
  [api |-> api, kind |-> kind, decoder |-> DecoderOf(kind), runnable |-> runnable,
   vocabulary |-> {<<"lead">>, <<"lead", "tail">>, CallClose}, maxTokens |-> n,
   asks |-> Asks(IF api = "openai" THEN BOOLEAN ELSE {TRUE}), limit |-> 2,
   fickle |-> TRUE]

MCSetups ==
  {Answers("gemma", (Words \ {<<"nl">>}) \cup WholeGemma, 5),
   Answers("qwen", (Words \ {<<"nl">>}) \cup WholeQwen, 5),
   Answers("gemma", Words \cup {ThinkOpen, CallOpen, TurnOpen} \cup Pieces({"/think", "/call"}), 4),
   Answers("qwen", (Words \ {<<"fn">>}) \cup Pieces({"think", "/think"}), 5),
   Answers("qwen", (Words \ {<<"nl">>}) \cup Pieces({"call", "/call"}), 5),
   Answers("gemma", TwoCalls, 7),
   Answers("gemma", TwoBodies, 6),
   Answers("gemma", CutInCalls, 4), Answers("qwen", CutInBodies, 4)}
  \cup {Control(api, kind, TRUE, 2) : api \in {"openai", "anthropic", "google"},
                                      kind \in {"gemma", "none"}}
  \cup {Control("openai", "qwen", TRUE, 0), Control("anthropic", "qwen", FALSE, 1)}

SplitSetups == {Answers(kind, {<<"a">>, <<"lead">>, <<"tail">>}, 3) : kind \in Kinds}
=============================================================================

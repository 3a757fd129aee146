----------------------------- MODULE ChatParser -----------------------------
(***************************************************************************)
(* The assistant-output parser of aegisllm-base (chat_parse.rs): the parse *)
(* of a finished answer (parse_gemma, parse_qwen), its variant for an      *)
(* answer that is still growing (parse_gemma_streaming,                    *)
(* parse_qwen_streaming), and the difference of two successive parses that *)
(* StreamingParser::push sends to the client.                              *)
(*                                                                         *)
(* A text is a sequence of characters.  A structural marker is two of      *)
(* them, "<" and a tail that names it, so that a marker can arrive in two  *)
(* pieces; "nl" is white space, "fn" the head of a well-formed call        *)
(* ("call:NAME{" or "<function=NAME>"), "?" the replacement character, "a"  *)
(* all the rest.                                                           *)
(* `kind` is the parser's kind, and `live` tells the streaming variant     *)
(* from the other one.                                                     *)
(***************************************************************************)
EXTENDS Naturals, Sequences, SequencesExt

Tails    == {"think", "/think", "call", "/call", "turn", "/turn", "bos", "eos"}
Char     == {"a", "?", "nl", "fn", "<"} \cup Tails
TextOf   == Seq(Char)
Kinds    == {"gemma", "qwen"}

ThinkOpen   == <<"<", "think">>    \* <|channel> of Gemma, <think> of Qwen
ThinkClose  == <<"<", "/think">>   \* <channel|>, </think>
CallOpen    == <<"<", "call">>     \* <|tool_call>, <tool_call>
CallClose   == <<"<", "/call">>    \* <tool_call|>, </tool_call>
TurnOpen    == <<"<", "turn">>     \* <|turn>, of Gemma as the next one
TurnClose   == <<"<", "/turn">>    \* <turn|>

(* Where a marker occurs, and its first place, 0 if there is none.         *)
Occurs(t, m) == {i \in DOMAIN t : t[i] = m[1] /\ i < Len(t) /\ t[i + 1] = m[2]}
Find(t, m)   == IF Occurs(t, m) = {} THEN 0 ELSE Min(Occurs(t, m))
FindChar(t, c) == SelectInSeq(t, LAMBDA x : x = c)

Before(t, i) == SubSeq(t, 1, i - 1)
After(t, i)  == SubSeq(t, i + 1, Len(t))

Ink(t)     == {i \in DOMAIN t : t[i] # "nl"}
TrimEnd(t) == SubSeq(t, 1, Max(Ink(t) \cup {0}))
Trim(t)    == IF Ink(t) = {} THEN <<>> ELSE SubSeq(t, Min(Ink(t)), Max(Ink(t)))

(* The reasoning bodies are joined with a line break; empty ones leave no  *)
(* trace.                                                                  *)
JoinBody(buf, body) == IF body = <<>> THEN buf
                       ELSE IF buf = <<>> THEN body
                       ELSE buf \o <<"nl">> \o body

(* Step 1: cut the reasoning channels out of the text.  A channel of Gemma *)
(* has a name that ends with the line; the streaming parse gives up on a   *)
(* text whose channel name is incomplete, the other parse takes the body   *)
(* to begin at once.                                                       *)
Channels(kind, live, text) ==
  LET cut[t \in TextOf] ==
        LET o      == Find(t, ThinkOpen)
            line   == IF kind = "gemma" THEN FindChar(After(t, o + 1), "nl") ELSE 0
            window == After(t, o + 1 + line)
            c      == Find(window, ThinkClose)
            rest   == cut[After(window, c + 1)]
        IN  IF o = 0 THEN [content |-> t, reasoning |-> <<>>]
            ELSE IF live /\ kind = "gemma" /\ line = 0
                 THEN [content |-> Before(t, o), reasoning |-> <<>>]
            ELSE IF c = 0
                 THEN [content |-> Before(t, o),
                       reasoning |-> IF live /\ kind = "gemma" THEN TrimEnd(window)
                                     ELSE Trim(window)]
            ELSE [content   |-> Before(t, o) \o rest.content,
                  reasoning |-> JoinBody(Trim(Before(window, c)), rest.reasoning)]
  IN  cut[text]

(* A call is known by its arguments; a body without the head of a call is  *)
(* no call.  The rewriting of the arguments into JSON is not modelled; its *)
(* result is never empty.                                                  *)
CallOf(kind, body) ==
  LET h == IF kind = "qwen" THEN FindChar(body, "fn")
           ELSE IF Ink(body) # {} /\ body[Min(Ink(body))] = "fn" THEN Min(Ink(body)) ELSE 0
  IN  IF h = 0 THEN <<>> ELSE << [args |-> Trim(After(body, h))] >>

(* Step 2: cut the tool calls out of what step 1 left.  A call that is not *)
(* closed is dropped with the rest of the text, except that the parse of a *)
(* finished answer of Gemma keeps the text after its opening marker.       *)
Calls(kind, live, text) ==
  LET cut[t \in TextOf] ==
        LET o     == Find(t, CallOpen)
            after == After(t, o + 1)
            c     == Find(after, CallClose)
            rest  == cut[After(after, c + 1)]
        IN  IF o = 0 THEN [content |-> t, calls |-> <<>>]
            ELSE IF c = 0
                 THEN [content |-> Before(t, o) \o
                                     (IF live \/ kind = "qwen" THEN <<>> ELSE after),
                       calls |-> <<>>]
            ELSE [content |-> Before(t, o) \o rest.content,
                  calls   |-> CallOf(kind, Before(after, c)) \o rest.calls]
  IN  cut[text]

(* Step 3: when there are calls, what Gemma says after starting a turn is  *)
(* dropped; markers that remain are removed, one kind after the other.     *)
Truncate(t, m) == IF Occurs(t, m) = {} THEN t ELSE Before(t, Find(t, m))

Overshoot(kind, calls, t) ==
  IF kind = "gemma" /\ calls # <<>> THEN Truncate(Truncate(t, TurnOpen), CallOpen) ELSE t

StripMarker(text, m) ==
  LET strip[t \in TextOf] ==
        LET i == Find(t, m)
        IN  IF i = 0 THEN t ELSE Before(t, i) \o strip[After(t, i + 1)]
  IN  strip[text]

StripCalls(t) == StripMarker(StripMarker(t, CallOpen), CallClose)
StripTurns(kind, t) ==
  IF kind = "gemma" THEN StripMarker(StripMarker(t, TurnOpen), TurnClose) ELSE t
Strip(kind, t) ==
  StripMarker(StripMarker(StripTurns(kind, StripCalls(t)), ThinkOpen), ThinkClose)

(* Mutant: nothing is held back.                                           *)
HoldNothing(t) == t

(* The streaming parse holds back the beginning of a possible marker.      *)
HoldBack(t) == IF t # <<>> /\ Last(t) = "<" THEN Front(t) ELSE t

(* The text for the user.                                                  *)
Content(kind, live, t) ==
  LET ends[rest \in TextOf] == IF live THEN TrimEnd(HoldBack(rest)) ELSE Trim(rest)
  IN  ends[Strip(kind, t)]

Parse(kind, live, t) ==
  LET s == Channels(kind, live, t)
      c == Calls(kind, live, s.content)
  IN  [content   |-> Content(kind, live, Overshoot(kind, c.calls, c.content)),
       reasoning |-> s.reasoning,
       calls     |-> c.calls]

Whole(kind, t) == Parse(kind, FALSE, t)
Live(kind, t)  == Parse(kind, TRUE, t)

-----------------------------------------------------------------------------
(* What push sends when the parse goes from `prev` to `cur`: the text that *)
(* was added, or all of it when the new content does not extend the old;   *)
(* the reasoning that was added, and nothing when it does not extend the   *)
(* old one; and every new call with its arguments.  An event is a record   *)
(* [of, body]; those of a call have its number before the body.            *)
TextEvents(prev, cur) ==
  IF ~IsPrefix(prev.content, cur.content)
  THEN << [of |-> "text", body |-> cur.content] >>
  ELSE IF prev.content = cur.content THEN <<>>
  ELSE << [of |-> "text", body |-> After(cur.content, Len(prev.content))] >>

(* Mutant: reasoning that does not extend the old one is sent again.       *)
ReasoningAgain(prev, cur) ==
  IF IsPrefix(prev.reasoning, cur.reasoning) /\ prev.reasoning = cur.reasoning THEN <<>>
  ELSE << [of |-> "reasoning",
           body |-> IF IsPrefix(prev.reasoning, cur.reasoning)
                    THEN After(cur.reasoning, Len(prev.reasoning)) ELSE cur.reasoning] >>

ReasoningEvents(prev, cur) ==
  IF IsStrictPrefix(prev.reasoning, cur.reasoning)
  THEN << [of |-> "reasoning", body |-> After(cur.reasoning, Len(prev.reasoning))] >>
  ELSE <<>>

(* Mutant: the calls of the last parse are announced again.                *)
CallsAgain(prev, cur) ==
  FlattenSeq([i \in 1 .. Len(cur.calls) |->
    << [of |-> "begin", body |-> <<i>>], [of |-> "args", body |-> <<i>> \o cur.calls[i].args] >>])

CallEvents(prev, cur) ==
  FlattenSeq([i \in 1 .. Len(cur.calls) |->
    LET args == cur.calls[i].args
        sent == IF i > Len(prev.calls) THEN <<>> ELSE prev.calls[i].args
    IN  IF i > Len(prev.calls)
        THEN << [of |-> "begin", body |-> <<i>>], [of |-> "args", body |-> <<i>> \o args] >>
        ELSE IF args = sent THEN <<>>
        ELSE << [of |-> "args",
                 body |-> <<i>> \o (IF IsPrefix(sent, args) THEN After(args, Len(sent))
                                    ELSE args)] >>])

(* flush, at the end of the answer, sends nothing.                         *)
Push(prev, cur) ==
  TextEvents(prev, cur) \o ReasoningEvents(prev, cur) \o CallEvents(prev, cur)

NothingParsed == [content |-> <<>>, reasoning |-> <<>>, calls |-> <<>>]
=============================================================================

---------------------------- MODULE Conversation ----------------------------
(***************************************************************************)
(* A conversation of several turns: the client keeps a transcript, the     *)
(* request builder (proxy/bedrock_converse/request_builder.py) turns it    *)
(* into a Converse payload, and the response parser (response_parser.py)   *)
(* or the frames of the stream decoder turn Bedrock's answer into what the *)
(* client adds to the transcript.  Bedrock wants its own reasoning back    *)
(* before the tool use it led to.                                          *)
(*                                                                         *)
(* A block is its type and the identity of what it says.  Bedrock and the  *)
(* client are external: a client keeps the whole answer, or only content.  *)
(***************************************************************************)
EXTENDS Integers, Sequences

CONSTANTS
  Shapes,      \* the block types of the answers Bedrock may give
  Catalogue,   \* what the models support, a set of capabilities for each
  MaxMessages  \* bound on the length of the transcript

BedrockTypes == {"text", "toolUse", "toolResult", "reasoningContent"}

ASSUME ShapeAssumption ==
  /\ Shapes \subseteq Seq(BedrockTypes \ {"toolResult"}) \ {<<>>}
  /\ MaxMessages \in Nat

VARIABLES
  messages,  \* the client's transcript
  request,   \* the options of the request, and what its model supports
  stage,     \* of the request
  payload,   \* of the ConverseRequest
  spoken     \* history: the blocks of Bedrock's answers, by message

vars == <<messages, request, stage, payload, spoken>>

Block(t, id) == [type |-> t, id |-> id]

\* thinking stands for thinking or reasoning_effort being given, whatever type
\* the thinking object states (line 358); serial for parallel_tool_calls being
\* false; schema for a response_format with a schema, object for any other; none
\* for a tool_choice of type none, of a type the builder does not know, or that
\* is no object.  What is absent is not in the request.
Requests == [thinking : BOOLEAN, serial : BOOLEAN, stream : BOOLEAN,
             tool_choice : {"absent", "none", "auto", "any", "tool"},
             response_format : {"absent", "schema", "object"},
             supports : SUBSET {"reasoning", "structured_output", "disable_parallel"}]

\* The requests that name a model of the catalogue.
Askable == {q \in Requests : q.supports \in Catalogue}

NoRequest == [thinking |-> FALSE, serial |-> FALSE, stream |-> FALSE,
              tool_choice |-> "absent", response_format |-> "absent", supports |-> {}]

NoPayload == [messages |-> <<>>, thinking |-> FALSE, serial |-> FALSE,
              toolChoice |-> "absent", outputConfig |-> FALSE, operation |-> "converse"]

Init ==
  /\ messages = <<>> /\ spoken = <<>>
  /\ request = NoRequest
  /\ stage = "idle"
  /\ payload = NoPayload

-----------------------------------------------------------------------------
(* The request builder.                                                    *)

Has(blocks, t) == \E i \in DOMAIN blocks : blocks[i].type = t

\* The blocks of one of the types, in their order.
OfType(blocks, types) ==
  LET kept[n \in 0 .. Len(blocks)] ==
        IF n = 0 THEN <<>>
        ELSE IF blocks[n].type \in types THEN Append(kept[n - 1], blocks[n])
        ELSE kept[n - 1]
  IN  kept[Len(blocks)]

\* Mutant: only the last answer is looked at.
LastHasContinuity(ms) ==
  LET answers == {i \in DOMAIN ms : ms[i].role = "assistant"}
  IN  \A i \in answers :
        (\A j \in answers : j <= i) /\ Has(ms[i].content, "tool_use")
          => ms[i].thinking_blocks # <<>>

HasReasoningContinuity(ms) ==
  \A i \in DOMAIN ms :
    ms[i].role = "assistant" /\ Has(ms[i].content, "tool_use")
      => ms[i].thinking_blocks # <<>>

ReasoningRequested(q) == q.thinking /\ "reasoning" \in q.supports

ReasoningEnabled(q, ms) == ReasoningRequested(q) /\ HasReasoningContinuity(ms)

\* Mutant: the results of tools are not known.
ConvertibleWithoutResults(m) ==
  \A i \in DOMAIN m.content :
    \/ m.content[i].type = "text"
    \/ m.content[i].type = "tool_use" /\ m.role = "assistant"

\* Anything else in a message, a thinking block included, is refused; images
\* and documents, which pass as they are, are left out.
Convertible(m) ==
  \A i \in DOMAIN m.content :
    \/ m.content[i].type = "text"
    \/ m.content[i].type = "tool_use" /\ m.role = "assistant"
    \/ m.content[i].type = "tool_result" /\ m.role = "user"

\* Mutant: blocks go through with the names the client has for them.
Unconverted(b) == b

NormalizeBlock(b) ==
  Block(CASE b.type = "text" -> "text"
          [] b.type = "tool_use" -> "toolUse"
          [] b.type = "tool_result" -> "toolResult", b.id)

NormalizeThinkingBlocks(bs) ==
  LET thoughts == OfType(bs, {"thinking"})
  IN  [i \in DOMAIN thoughts |-> Block("reasoningContent", thoughts[i].id)]

\* Thinking blocks go first, whatever their place was.
NormalizeMessage(m, include_thinking_blocks) ==
  [role |-> m.role,
   content |->
     (IF m.role = "assistant" /\ include_thinking_blocks
      THEN NormalizeThinkingBlocks(m.thinking_blocks) ELSE <<>>)
     \o [i \in DOMAIN m.content |-> NormalizeBlock(m.content[i])]]

\* Mutant: a forced choice is passed on.
MapToolChoiceAsAsked(choice, reasoning_enabled) == IF choice = "none" THEN "auto" ELSE choice

\* Bedrock has no choice that forbids every tool.
MapToolChoice(choice, reasoning_enabled) ==
  IF choice = "none" \/ (choice # "absent" /\ reasoning_enabled) THEN "auto" ELSE choice

OutputSupported(q) ==
  \/ q.response_format = "absent"
  \/ q.response_format = "schema" /\ "structured_output" \in q.supports

\* The ConverseRequest for a transcript.
ConverseRequest(q, ms) ==
  LET enabled == ReasoningEnabled(q, ms)
  IN  [messages |-> [i \in DOMAIN ms |-> NormalizeMessage(ms[i], enabled)],
       thinking |-> enabled,
       serial |-> q.serial /\ "disable_parallel" \in q.supports,
       toolChoice |-> MapToolChoice(q.tool_choice, enabled),
       outputConfig |-> q.response_format = "schema",
       operation |-> IF q.stream THEN "converse_stream" ELSE "converse"]

\* build_converse_request, or the 400 it raises.
Build ==
  /\ stage = "asked"
  /\ IF OutputSupported(request) /\ \A i \in DOMAIN messages : Convertible(messages[i])
     THEN stage' = "sent" /\ payload' = ConverseRequest(request, messages)
     ELSE stage' = "refused" /\ UNCHANGED payload
  /\ UNCHANGED <<messages, request, spoken>>

-----------------------------------------------------------------------------
(* The answer.                                                             *)

\* Mutant: the texts of an answer come before its tool uses.
ParseTextsFirst(blocks) ==
  LET named(type, t) == LET s == OfType(blocks, {type}) IN [i \in DOMAIN s |-> Block(t, s[i].id)]
  IN  [role |-> "assistant",
       content |-> named("text", "text") \o named("toolUse", "tool_use"),
       thinking_blocks |-> named("reasoningContent", "thinking")]

Reasoning(blocks) == OfType(blocks, {"reasoningContent"})
Others(blocks) == OfType(blocks, BedrockTypes \ {"reasoningContent"})

\* parse_converse_response
Parse(blocks) ==
  LET content == Others(blocks)
      reasoning == Reasoning(blocks)
  IN  [role |-> "assistant",
       content |-> [i \in DOMAIN content |->
         Block(IF content[i].type = "text" THEN "text" ELSE "tool_use", content[i].id)],
       thinking_blocks |-> [i \in DOMAIN reasoning |-> Block("thinking", reasoning[i].id)]]

\* The content that the content_block_start frames announce, one block for
\* each of Bedrock's, in their order.
Streamed(blocks) ==
  [role |-> "assistant",
   content |-> [i \in DOMAIN blocks |->
     Block(CASE blocks[i].type = "text" -> "text"
             [] blocks[i].type = "toolUse" -> "tool_use"
             [] blocks[i].type = "reasoningContent" -> "thinking", blocks[i].id)],
   thinking_blocks |-> <<>>]

\* What a client may make of an answer that was not streamed: all of it, or
\* the content alone.
Kept(blocks) == {Parse(blocks), [Parse(blocks) EXCEPT !.thinking_blocks = <<>>]}

\* Of one that was: the blocks as announced, or the thinking blocks apart.
Assembled(blocks) == {Streamed(blocks), Parse(blocks)}

\* Bedrock answers with blocks of its own making, and reasons only when the
\* payload enables it.
Answer(shape) ==
  LET n == Len(messages) + 1
      blocks == [i \in DOMAIN shape |-> Block(shape[i], <<n, i>>)]
  IN  /\ stage = "sent"
      /\ Has(blocks, "reasoningContent") => payload.thinking
      /\ \E m \in (IF payload.operation = "converse" THEN Kept(blocks) ELSE Assembled(blocks)) :
           messages' = Append(messages, m)
      /\ spoken' = Append(spoken, blocks)
      /\ stage' = "idle"
      /\ request' = NoRequest
      /\ payload' = NoPayload

\* Bedrock answers with an error, and the client has its transcript as it was.
Fail ==
  /\ stage = "sent"
  /\ stage' = "idle"
  /\ request' = NoRequest
  /\ payload' = NoPayload
  /\ UNCHANGED <<messages, spoken>>

-----------------------------------------------------------------------------
(* The client.                                                             *)

\* The results of the tools the last answer called, or else a text.
UserContent ==
  LET n == Len(messages) + 1
      calls == IF n = 1 THEN <<>>
               ELSE OfType(messages[n - 1].content, {"tool_use"})
  IN  IF calls = <<>> THEN <<Block("text", <<n, 1>>)>>
      ELSE [i \in DOMAIN calls |-> Block("tool_result", calls[i].id)]

\* A new turn, or the last one again after a refusal or a failure.
Ask(q) ==
  /\ stage \in {"idle", "refused"}
  /\ IF messages # <<>> /\ messages[Len(messages)].role = "user"
     THEN UNCHANGED <<messages, spoken>>
     ELSE /\ Len(messages) < MaxMessages
          /\ messages' = Append(messages,
               [role |-> "user", content |-> UserContent, thinking_blocks |-> <<>>])
          /\ spoken' = Append(spoken, <<>>)
  /\ request' = q
  /\ stage' = "asked"
  /\ UNCHANGED payload

Next ==
  \/ \E q \in Askable : Ask(q)
  \/ Build
  \/ \E shape \in Shapes : Answer(shape)
  \/ Fail

Spec == Init /\ [][Next]_vars

-----------------------------------------------------------------------------
(* Properties.                                                             *)

Answers == {i \in DOMAIN payload.messages : payload.messages[i].role = "assistant"}

Ids == Nat \X Nat
SpokenBlocks == [type : BedrockTypes \ {"toolResult"}, id : Ids]
ClientBlocks == [type : {"text", "tool_use", "tool_result", "thinking"}, id : Ids]
Messages == [role : {"user", "assistant"}, content : Seq(ClientBlocks),
             thinking_blocks : Seq(ClientBlocks)]
Payloads == [messages : Seq([role : {"user", "assistant"},
                             content : Seq([type : BedrockTypes, id : Ids])]),
             thinking : BOOLEAN, serial : BOOLEAN,
             toolChoice : {"absent", "auto", "any", "tool"},
             outputConfig : BOOLEAN, operation : {"converse", "converse_stream"}]

\* Every variable keeps its type; what is sent has Bedrock's block types only.
TypeOK ==
  /\ messages \in Seq(Messages)
  /\ request \in Requests
  /\ stage \in {"idle", "asked", "sent", "refused"}
  /\ payload \in Payloads
  /\ spoken \in Seq(Seq(SpokenBlocks)) /\ Len(spoken) = Len(messages)

\* Bedrock is shown its own reasoning or none: with thinking enabled, an
\* answer is sent back with exactly the reasoning Bedrock gave in that turn or
\* without any, and never without it when it called a tool; with thinking
\* disabled no answer carries any.
ReasoningReplayed ==
  \A i \in Answers :
    LET replayed == Reasoning(payload.messages[i].content)
    IN  IF payload.thinking
        THEN /\ replayed \in {<<>>, Reasoning(spoken[i])}
             /\ Has(spoken[i], "toolUse") => replayed # <<>>
        ELSE replayed = <<>>

\* Texts and tool uses come back to Bedrock as it sent them, in their order,
\* behind the reasoning, through parser, client and builder.
AnswersReplayed ==
  \A i \in Answers :
    LET sent == payload.messages[i].content
    IN  sent = Reasoning(sent) \o Others(spoken[i])

\* What is sent asks for nothing the request does not, and falls short of it in
\* four cases only, of which the client is not told: thinking is left out for a
\* model without it and for a transcript with a tool call that lacks its
\* reasoning, and stays for every other; a tool choice becomes auto beside
\* thinking, or when it is no choice Bedrock has, so that tools the client forbids
\* may be used (request_builder.py:331); tools are run side by side against the
\* client's word by a model that cannot be told (requirements.md:164).  A schema
\* never is left out: it is sent or the request refused.
OptionsLostForCause ==
  stage = "sent" =>
    /\ payload.outputConfig <=> request.response_format # "absent"
    /\ payload.thinking => request.thinking
    /\ request.thinking /\ ~payload.thinking =>
         \/ "reasoning" \notin request.supports
         \/ \E i \in Answers :
              messages[i].thinking_blocks = <<>> /\ Has(spoken[i], "toolUse")
    /\ payload.thinking => payload.toolChoice \in {"absent", "auto"}
    /\ payload.toolChoice # request.tool_choice =>
         /\ payload.toolChoice = "auto" /\ request.tool_choice # "absent"
         /\ payload.thinking \/ request.tool_choice = "none"
    /\ payload.serial => request.serial
    /\ request.serial /\ ~payload.serial => "disable_parallel" \notin request.supports

\* A turn is refused for its transcript only where a client sends back, as it was
\* announced, the reasoning of a streamed answer (request_builder.py:200).
RefusedForCause ==
  stage = "refused" =>
    \/ ~OutputSupported(request)
    \/ \E i \in DOMAIN messages :
         messages[i] = Streamed(spoken[i]) /\ Has(spoken[i], "reasoningContent")

-----------------------------------------------------------------------------
(* Why they hold: the invariant that is inductive.                         *)

\* A message is the client's own, or what it made of the answer at its place.
Transcript ==
  \A i \in DOMAIN messages :
    \/ /\ messages[i].role = "user" /\ messages[i].thinking_blocks = <<>>
       /\ \A j \in DOMAIN messages[i].content :
            messages[i].content[j].type \in {"text", "tool_result"}
    \/ messages[i] \in Kept(spoken[i]) \cup Assembled(spoken[i])

\* What is with Bedrock is the translation of the transcript as it still is.
Translated ==
  IF stage = "sent"
  THEN /\ OutputSupported(request) /\ \A i \in DOMAIN messages : Convertible(messages[i])
       /\ payload = ConverseRequest(request, messages)
  ELSE payload = NoPayload

IInv == TypeOK /\ Transcript /\ Translated /\ RefusedForCause

-----------------------------------------------------------------------------
(* What a requirement says and the code does not do.                       *)

\* requirements.md:146: thinking blocks of the history are sent on or, when
\* they cannot be restored, reasoning is disabled.  Either way a turn after an
\* answer the proxy itself has given is not refused for its blocks.
NextTurnAccepted == stage = "refused" => ~OutputSupported(request)

=============================================================================

--------------------------- MODULE MCConversation ---------------------------
(***************************************************************************)
(* Conversation with answers of up to three blocks, reasoning in every     *)
(* place, over a catalogue of four models.                                 *)
(***************************************************************************)
EXTENDS Conversation

AnswerShapes ==
  { <<"text">>, <<"toolUse", "text">>,
    <<"reasoningContent", "toolUse">>,
    <<"text", "reasoningContent">>,
    <<"reasoningContent", "text", "toolUse">> }

\* Reasoning with the other two and without; no decision looks at both of those.
Capabilities ==
  { {}, {"reasoning"}, {"structured_output", "disable_parallel"},
    {"reasoning", "structured_output", "disable_parallel"} }
=============================================================================

--------------------------- MODULE StreamDecoder ---------------------------
(***************************************************************************)
(* One streaming answer: the ConverseStreamDecoder generator               *)
(* (proxy/bedrock_converse/stream_decoder.py) inside _stream_with_audit    *)
(* (api/proxy_router.py), which writes the usage and audit rows when the   *)
(* generator ends, however it ends.                                        *)
(*                                                                         *)
(* Bedrock is external: it sends a ConverseStream in the order the tests   *)
(* of the decoder use, may report usage before or after the stop reason or *)
(* not at all, and may fail or fall silent at any point.  That it starts a *)
(* block before it sends text or tool deltas of it and stops it once is    *)
(* assumed: the decoder passes such frames on as they come, and their      *)
(* order is Bedrock's.  The web server pulls one frame at a time, and lets *)
(* the generator go when the client disconnects.                           *)
(***************************************************************************)
EXTENDS Integers, Sequences

CONSTANTS
  StopReasons,   \* what Bedrock may send as stopReason
  Supported,     \* SUPPORTED_STOP_REASONS
  EndTurn,       \* "end_turn"
  NoStop,        \* _pending_stop_reason is None
  Usages,        \* token counts Bedrock may report
  MaxBlocks,     \* bound on the content blocks of an answer
  MaxDeltas      \* bound on the deltas of a block

ASSUME StopAssumption ==
  /\ EndTurn \in Supported
  /\ Supported \subseteq StopReasons
  /\ NoStop \notin StopReasons

ASSUME UsageAssumption ==
  /\ Usages \subseteq Nat \ {0}
  /\ MaxBlocks \in Nat
  /\ MaxDeltas \in Nat

Kinds == {"text", "tool_use", "thinking"}

VARIABLES
  phase,     \* Bedrock: what it has sent so far
  block,     \* Bedrock: index of the current or next content block
  deltas,    \* Bedrock: deltas sent of the current block
  tail,      \* Bedrock: which of messageStop and metadata it has sent
  reported,  \* Bedrock: the usage it has reported, 0 before it has
  spoken,    \* history: reasoning deltas Bedrock sent, by block
  gen,       \* the generator: where it is suspended, or how it ended
  pending,   \* _pending_stop_reason
  usage,     \* usage_collector
  types,     \* _block_types
  positions, \* _thinking_block_positions
  thoughts,  \* thinking_blocks, by the number of deltas appended to each
  out,       \* the frames the client has been sent
  books,     \* record_success: how far it has come
  usageRow,  \* the tokens in the usage_events row
  auditRow   \* is there an "allowed" audit_events row

bedrock == <<phase, block, deltas, tail, reported, spoken>>
decoder == <<gen, pending, usage, types, positions, thoughts, out>>
store   == <<books, usageRow, auditRow>>
vars    == <<bedrock, decoder, store>>

NoRow == -1
NoKind == "none"
Indices == 0 .. MaxBlocks - 1

Frame(t) == [type |-> t]
BlockFrame(t, i) == [type |-> t, index |-> i]
StopFrame(r, n) == [type |-> "message_delta", stop |-> r, usage |-> n]

\* _flush_pending_stop: the reason the client is given.
StopReason == IF pending \in Supported THEN pending ELSE EndTurn

Init ==
  /\ phase = "before" /\ block = 0 /\ deltas = 0 /\ tail = {} /\ reported = 0
  /\ spoken = [i \in Indices |-> 0]
  /\ gen = "new" /\ pending = NoStop /\ usage = 0
  /\ types = [i \in Indices |-> NoKind]
  /\ positions = [i \in Indices |-> 0]
  /\ thoughts = <<>> /\ out = <<>>
  /\ books = "open" /\ usageRow = NoRow /\ auditRow = FALSE

-----------------------------------------------------------------------------
(* The decoder handles what Bedrock sends.                                 *)

\* The web server asks for the first frame.
Begin ==
  /\ gen = "new"
  /\ gen' = "waiting"
  /\ UNCHANGED <<bedrock, pending, usage, types, positions, thoughts, out, store>>

MessageStart ==
  /\ gen = "waiting" /\ phase = "before"
  /\ phase' = "between"
  /\ out' = Append(out, Frame("message_start"))
  /\ UNCHANGED <<block, deltas, tail, reported, spoken, gen, pending, usage, types,
                 positions, thoughts, store>>

\* Mutant: a thinking block is remembered one place too far.
BlockStartOffByOne(k) ==
  /\ gen = "waiting" /\ phase = "between" /\ block < MaxBlocks
  /\ phase' = "block" /\ deltas' = 0
  /\ types' = [types EXCEPT ![block] = k]
  /\ IF k = "thinking"
     THEN /\ thoughts' = Append(thoughts, 0)
          /\ positions' = [positions EXCEPT ![block] = 1]
     ELSE UNCHANGED <<thoughts, positions>>
  /\ out' = Append(out, BlockFrame("content_block_start", block))
  /\ UNCHANGED <<block, tail, reported, spoken, gen, pending, usage, store>>

BlockStart(k) ==
  /\ gen = "waiting" /\ phase = "between" /\ block < MaxBlocks
  /\ phase' = "block" /\ deltas' = 0
  /\ types' = [types EXCEPT ![block] = k]
  /\ IF k = "thinking"
     THEN /\ thoughts' = Append(thoughts, 0)
          /\ positions' = [positions EXCEPT ![block] = Len(thoughts) + 1]
     ELSE UNCHANGED <<thoughts, positions>>
  /\ out' = Append(out, BlockFrame("content_block_start", block))
  /\ UNCHANGED <<block, tail, reported, spoken, gen, pending, usage, store>>

\* A delta of the block Bedrock has started last (assumed: see above; for one
\* of reasoning see StrayReasoning).  A reasoning delta is also kept in its
\* thinking block, which the block's start has put in place.
BlockDelta ==
  /\ gen = "waiting" /\ phase = "block" /\ deltas < MaxDeltas
  /\ deltas' = deltas + 1
  /\ IF types[block] = "thinking"
     THEN /\ thoughts' = [thoughts EXCEPT ![positions[block]] = @ + 1]
          /\ spoken' = [spoken EXCEPT ![block] = @ + 1]
     ELSE UNCHANGED <<thoughts, spoken>>
  /\ out' = Append(out, BlockFrame("content_block_delta", block))
  /\ UNCHANGED <<phase, block, tail, reported, gen, pending, usage, types, positions, store>>

BlockStop ==
  /\ gen = "waiting" /\ phase = "block"
  /\ phase' = "between" /\ block' = block + 1
  /\ out' = Append(out, BlockFrame("content_block_stop", block))
  /\ UNCHANGED <<deltas, tail, reported, spoken, gen, pending, usage, types,
                 positions, thoughts, store>>

\* Mutant: the stop frames are sent without waiting for metadata.
MessageStopFlushes(r) ==
  /\ gen = "waiting" /\ phase \in {"between", "tail"} /\ "messageStop" \notin tail
  /\ phase' = "tail" /\ tail' = tail \cup {"messageStop"}
  /\ pending' = r
  /\ gen' = "message_delta"
  /\ UNCHANGED <<block, deltas, reported, spoken, usage, types, positions, thoughts,
                 out, store>>

\* The stop reason is kept back until the usage is known.
MessageStop(r) ==
  /\ gen = "waiting" /\ phase \in {"between", "tail"} /\ "messageStop" \notin tail
  /\ phase' = "tail" /\ tail' = tail \cup {"messageStop"}
  /\ pending' = r
  /\ UNCHANGED <<block, deltas, reported, spoken, gen, usage, types, positions,
                 thoughts, out, store>>

\* Mutant: usage that comes before the stop reason is not kept.
MetadataAfterStop(n) ==
  /\ gen = "waiting" /\ phase \in {"between", "tail"} /\ "metadata" \notin tail
  /\ phase' = "tail" /\ tail' = tail \cup {"metadata"}
  /\ reported' = n
  /\ usage' = IF pending = NoStop THEN usage ELSE n
  /\ gen' = IF pending = NoStop THEN "waiting" ELSE "message_delta"
  /\ UNCHANGED <<block, deltas, spoken, pending, types, positions, thoughts, out, store>>

\* update_from_metadata, then _flush_pending_stop.
Metadata(n) ==
  /\ gen = "waiting" /\ phase \in {"between", "tail"} /\ "metadata" \notin tail
  /\ phase' = "tail" /\ tail' = tail \cup {"metadata"}
  /\ reported' = n
  /\ usage' = n
  /\ gen' = IF pending = NoStop THEN "waiting" ELSE "message_delta"
  /\ UNCHANGED <<block, deltas, spoken, pending, types, positions, thoughts, out, store>>

\* An exception event becomes the last frame.
Exception ==
  /\ gen = "waiting" /\ phase # "done"
  /\ phase' = "done"
  /\ out' = Append(out, Frame("error"))
  /\ gen' = "returned"
  /\ UNCHANGED <<block, deltas, tail, reported, spoken, pending, usage, types,
                 positions, thoughts, store>>

\* The event stream is exhausted, after its last event or early and without
\* raising: what is pending is flushed.
StreamEnds ==
  /\ gen = "waiting" /\ phase # "done"
  /\ phase' = "done"
  /\ gen' = IF pending = NoStop THEN "returned" ELSE "message_delta"
  /\ UNCHANGED <<block, deltas, tail, reported, spoken, pending, usage, types,
                 positions, thoughts, out, store>>

\* Reading the event stream raises.
StreamBreaks ==
  /\ gen = "waiting" /\ phase # "done"
  /\ phase' = "done"
  /\ gen' = "raised"
  /\ UNCHANGED <<block, deltas, tail, reported, spoken, pending, usage, types,
                 positions, thoughts, out, store>>

\* Reasoning for a block that was not started as a thinking block has no place
\* in _thinking_block_positions: KeyError.
StrayReasoning ==
  /\ gen = "waiting" /\ phase \in {"between", "block"} /\ block < MaxBlocks
  /\ types[block] # "thinking"
  /\ phase' = "done"
  /\ gen' = "raised"
  /\ UNCHANGED <<block, deltas, tail, reported, spoken, pending, usage, types,
                 positions, thoughts, out, store>>

SendMessageDelta ==
  /\ gen = "message_delta"
  /\ out' = Append(out, StopFrame(StopReason, usage))
  /\ gen' = "message_stop"
  /\ UNCHANGED <<bedrock, pending, usage, types, positions, thoughts, store>>

\* Mutant: the pending reason is not cleared.
SendMessageStopAgain ==
  /\ gen = "message_stop"
  /\ out' = Append(out, Frame("message_stop"))
  /\ gen' = IF phase = "done" THEN "returned" ELSE "waiting"
  /\ UNCHANGED <<bedrock, pending, usage, types, positions, thoughts, store>>

SendMessageStop ==
  /\ gen = "message_stop"
  /\ out' = Append(out, Frame("message_stop"))
  /\ pending' = NoStop
  /\ gen' = IF phase = "done" THEN "returned" ELSE "waiting"
  /\ UNCHANGED <<bedrock, usage, types, positions, thoughts, store>>

\* The client is gone.  A generator suspended at a frame is closed there; one
\* that was never asked for a frame has no finally clause to run.
Disconnect ==
  /\ gen \in {"new", "waiting", "message_delta", "message_stop"}
  /\ gen' = IF gen = "new" THEN "dropped" ELSE "closed"
  /\ UNCHANGED <<bedrock, pending, usage, types, positions, thoughts, out, store>>

-----------------------------------------------------------------------------
(* The finally clause: record_success.                                     *)

\* Mutant: the rows are written after the loop, not in a finally clause.
EndedByItself == gen = "returned"

Ended == gen \in {"returned", "raised", "closed"}

RecordUsage ==
  /\ Ended /\ books = "open"
  /\ usageRow' = usage
  /\ books' = "usage"
  /\ UNCHANGED <<bedrock, decoder, auditRow>>

RecordAudit ==
  /\ books = "usage"
  /\ auditRow' = TRUE
  /\ books' = "closed"
  /\ UNCHANGED <<bedrock, decoder, usageRow>>

\* Either write raises: nobody tries again.
RecordFails ==
  /\ \/ Ended /\ books = "open"
     \/ books = "usage"
  /\ books' = "closed"
  /\ UNCHANGED <<bedrock, decoder, usageRow, auditRow>>

Receive ==
  \/ MessageStart \/ BlockDelta \/ BlockStop \/ StrayReasoning
  \/ Exception \/ StreamEnds \/ StreamBreaks
  \/ \E k \in Kinds : BlockStart(k)
  \/ \E r \in StopReasons : MessageStop(r)
  \/ \E n \in Usages : Metadata(n)

Send == SendMessageDelta \/ SendMessageStop

Record == RecordUsage \/ RecordAudit \/ RecordFails

Next == Begin \/ Receive \/ Send \/ Disconnect \/ Record

Spec == Init /\ [][Next]_vars

\* The generator is not left suspended for ever: the server asks for the next
\* frame or closes it, and Bedrock or the client's read timeout answers.  A
\* write to the store returns or raises.
Fairness == WF_vars(Receive \/ Send \/ Disconnect) /\ WF_vars(Record)

FairSpec == Spec /\ Fairness

-----------------------------------------------------------------------------
(* Properties.                                                             *)

Frames ==
  [type : {"message_start", "message_stop", "error"}]
    \cup [type : {"content_block_start", "content_block_delta", "content_block_stop"},
          index : Indices]
    \cup [type : {"message_delta"}, stop : StopReasons, usage : Usages \cup {0}]

\* Every variable keeps its type.
TypeOK ==
  /\ phase \in {"before", "between", "block", "tail", "done"}
  /\ block \in 0 .. MaxBlocks
  /\ deltas \in 0 .. MaxDeltas
  /\ tail \subseteq {"messageStop", "metadata"}
  /\ reported \in Usages \cup {0}
  /\ spoken \in [Indices -> Nat]
  /\ gen \in {"new", "waiting", "message_delta", "message_stop",
              "returned", "raised", "closed", "dropped"}
  /\ pending \in StopReasons \cup {NoStop}
  /\ usage \in Usages \cup {0}
  /\ types \in [Indices -> Kinds \cup {NoKind}]
  /\ positions \in [Indices -> Nat]
  /\ thoughts \in Seq(Nat)
  /\ out \in Seq(Frames)
  /\ books \in {"open", "usage", "closed"}
  /\ usageRow \in Usages \cup {0, NoRow}
  /\ auditRow \in BOOLEAN

Sent(n, t) == out[n].type = t
OfBlock(n) == out[n].type \in {"content_block_start", "content_block_delta", "content_block_stop"}

\* At frame n, block i has been started and not yet stopped.
Open(n, i) ==
  \E m \in 1 .. n - 1 :
    /\ out[m] = BlockFrame("content_block_start", i)
    /\ \A l \in m .. n - 1 : out[l] # BlockFrame("content_block_stop", i)

\* What the client has received is the beginning of an Anthropic stream:
\* message_start, blocks one after the other, message_delta, message_stop, or
\* an error frame in place of the rest; and nothing after the end
\* (stream_decoder.py:44-128, 180-200).
Framing ==
  \A n \in 1 .. Len(out) :
    /\ Sent(n, "message_start") => n = 1
    /\ n = 1 => Sent(n, "message_start") \/ Sent(n, "error")
    /\ OfBlock(n) /\ ~Sent(n, "content_block_start") => Open(n, out[n].index)
    /\ Sent(n, "content_block_start") \/ Sent(n, "message_delta") =>
         \A i \in Indices : ~Open(n, i)
    /\ Sent(n, "message_delta") /\ n < Len(out) => Sent(n + 1, "message_stop")
    /\ Sent(n, "message_stop") => n > 1 /\ Sent(n - 1, "message_delta")
    /\ Sent(n, "error") => n = Len(out)
    /\ Sent(n, "message_stop") /\ n < Len(out) => n + 1 = Len(out) /\ Sent(n + 1, "error")

\* The usage told to the client is the one that Bedrock reported, before or
\* after the stop reason; zeros are told only when Bedrock has ended without
\* reporting (stream_decoder.py:106-113, 128, 180-196).
StopCarriesUsage ==
  \A n \in 1 .. Len(out) : Sent(n, "message_delta") =>
    /\ out[n].usage = reported
    /\ "metadata" \notin tail => phase = "done"

\* The usage row of a stream holds what Bedrock reported and the client was
\* told, although it is written after the last frame, on another thread, and
\* also when the stream broke or the client left.
RecordedIsReported ==
  usageRow # NoRow =>
    /\ usageRow = reported
    /\ \A n \in 1 .. Len(out) : Sent(n, "message_delta") => out[n].usage = usageRow

\* Every reasoning delta ends up in the thinking block of its own index.
ThoughtsIntact ==
  \A i \in Indices : types[i] = "thinking" => thoughts[positions[i]] = spoken[i]

\* A stream the server has started to read is accounted for in the end, or an
\* attempt to do so has failed (proxy_router.py:121-135).
StartedIsRecorded == gen = "waiting" ~> books = "closed"

-----------------------------------------------------------------------------
(* Why all of this holds: the invariant that is inductive.                 *)

\* Whoever tells or records the usage does so when Bedrock cannot add to it.
UsageIsFinal ==
  /\ usage = reported
  /\ gen = "message_delta" => "metadata" \in tail \/ phase = "done"
  /\ \A n \in 1 .. Len(out) : Sent(n, "message_delta") =>
       "metadata" \in tail \/ phase = "done"
  /\ books # "open" \/ usageRow # NoRow => Ended

\* A thinking block has a place of its own, from its start on.
ThoughtsPlaced ==
  /\ \A i \in Indices : types[i] = "thinking" => positions[i] \in 1 .. Len(thoughts)
  /\ \A i, j \in Indices :
       types[i] = "thinking" /\ types[j] = "thinking" /\ i # j => positions[i] # positions[j]
  /\ phase \in {"before", "between"} =>
       \A i \in Indices : i >= block => types[i] = NoKind /\ spoken[i] = 0
  /\ phase = "block" => block \in Indices /\
       \A i \in Indices : i > block => types[i] = NoKind /\ spoken[i] = 0

\* Where the generator and Bedrock are when the last frame is what it is.
FramesInStep ==
  /\ phase = "before" => out = <<>>
  /\ gen = "new" => phase = "before"
  /\ gen = "waiting" => phase # "done"
  /\ phase \in {"between", "block", "tail"} \/ gen \in {"message_delta", "message_stop"} =>
       out # <<>>
  /\ pending # NoStop => "messageStop" \in tail
  /\ "messageStop" \in tail => phase \in {"tail", "done"}
  /\ gen \in {"message_delta", "message_stop"} =>
       phase = "done" \/ (phase = "tail" /\ tail = {"messageStop", "metadata"})
  /\ phase = "block" => Open(Len(out) + 1, block)
  /\ \A i \in Indices : Open(Len(out) + 1, i) =>
       /\ phase \in {"block", "done"} /\ gen \notin {"message_delta", "message_stop"}
       /\ phase = "block" => i = block
  /\ gen = "message_stop" => Sent(Len(out), "message_delta")
  /\ \A n \in 1 .. Len(out) :
       /\ Sent(n, "message_delta") /\ n = Len(out) => gen \in {"message_stop", "closed"}
       /\ Sent(n, "error") => gen = "returned"
       /\ Sent(n, "message_stop") =>
            \/ Ended
            \/ /\ gen = "waiting" /\ n = Len(out)
               /\ phase = "tail" /\ tail = {"messageStop", "metadata"} /\ pending = NoStop

IInv ==
  /\ TypeOK
  /\ UsageIsFinal /\ StopCarriesUsage /\ RecordedIsReported
  /\ ThoughtsPlaced /\ ThoughtsIntact
  /\ FramesInStep /\ Framing
=============================================================================

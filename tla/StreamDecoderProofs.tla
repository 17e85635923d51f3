------------------------ MODULE StreamDecoderProofs ------------------------
(***************************************************************************)
(* Proofs about StreamDecoder, for any stop reasons and usages, and        *)
(* answers of any length.                                                  *)
(***************************************************************************)
EXTENDS StreamDecoder, TLAPS

LEMMA InitInv == Init => IInv
<1> USE UsageAssumption, StopAssumption
<1> SUFFICES ASSUME Init PROVE IInv
  OBVIOUS
<1>1. TypeOK
  <2>1. /\ spoken \in [Indices -> Nat] /\ positions \in [Indices -> Nat]
        /\ types \in [Indices -> Kinds \cup {NoKind}]
    BY DEF Init
  <2>2. thoughts \in Seq(Nat) /\ out \in Seq(Frames)
    BY DEF Init
  <2>3. usageRow \in Usages \cup {0, NoRow} /\ usage \in Usages \cup {0} /\ reported \in Usages \cup {0}
    BY DEF Init
  <2>4. phase = "before" /\ block = 0 /\ deltas = 0 /\ tail = {} /\ gen = "new"
        /\ pending = NoStop /\ books = "open" /\ auditRow = FALSE
    BY DEF Init
  <2>5. block \in 0 .. MaxBlocks /\ deltas \in 0 .. MaxDeltas
    BY <2>4
  <2>6. tail \subseteq {"messageStop", "metadata"}
    BY <2>4
  <2> HIDE UsageAssumption, StopAssumption
  <2>7. auditRow \in BOOLEAN /\ pending \in StopReasons \cup {NoStop}
    BY <2>4
  <2> QED  BY <2>1, <2>2, <2>3, <2>4, <2>5, <2>6, <2>7 DEF TypeOK
<1>2. UsageIsFinal /\ StopCarriesUsage /\ RecordedIsReported
  BY DEF Init, UsageIsFinal, StopCarriesUsage, RecordedIsReported, NoRow
<1>3. ThoughtsPlaced /\ ThoughtsIntact
  BY DEF Init, ThoughtsPlaced, ThoughtsIntact, NoKind
<1>4. FramesInStep /\ Framing
  <2>1. out = <<>> /\ Len(out) = 0 /\ pending = NoStop /\ tail = {} /\ gen = "new" /\ phase = "before"
    BY DEF Init
  <2>2. \A i \in Indices : ~Open(Len(out) + 1, i)
    BY <2>1 DEF Open
  <2> QED  BY <2>1, <2>2 DEF FramesInStep, Framing
<1> QED  BY <1>1, <1>2, <1>3, <1>4 DEF IInv

\* A frame that is not message_delta leaves what was told as it is.
LEMMA AppendOther ==
  ASSUME IInv, NEW f \in Frames, f.type # "message_delta", out' = Append(out, f)
  PROVE  /\ out' \in Seq(Frames)
         /\ \A n \in 1 .. Len(out') : Sent(n, "message_delta")' =>
              /\ n \in 1 .. Len(out) /\ Sent(n, "message_delta") /\ out'[n] = out[n]
BY DEF IInv, TypeOK, Sent

LEMMA FramesOfBlock ==
  ASSUME NEW i \in Indices,
         NEW t \in {"content_block_start", "content_block_delta", "content_block_stop"}
  PROVE  BlockFrame(t, i) \in Frames /\ BlockFrame(t, i).type # "message_delta"
BY DEF BlockFrame, Frames

LEMMA FramesOfMessage ==
  ASSUME NEW t \in {"message_start", "message_stop", "error"}
  PROVE  Frame(t) \in Frames /\ Frame(t).type # "message_delta"
BY DEF Frame, Frames

-----------------------------------------------------------------------------
(* The steps.                                                              *)

\* Every step keeps the types.
LEMMA TypeStep ==
  ASSUME IInv, [Next]_vars
  PROVE  TypeOK'
<1>0. TypeOK /\ ThoughtsPlaced
  BY DEF IInv
<1> USE <1>0 DEF TypeOK, bedrock, decoder, store
<1>1. CASE Begin
  BY <1>1 DEF Begin
<1>2. CASE MessageStart
  BY <1>2, FramesOfBlock, FramesOfMessage DEF MessageStart
<1>3. CASE BlockDelta
  <2>1. block \in Indices
    BY <1>3 DEF BlockDelta, ThoughtsPlaced
  <2>2. BlockFrame("content_block_delta", block) \in Frames
    BY <2>1, FramesOfBlock
  <2>3. out' \in Seq(Frames)
    BY <1>3, <2>2 DEF BlockDelta
  <2>4. deltas' \in 0 .. MaxDeltas
    BY <1>3, UsageAssumption DEF BlockDelta
  <2>5. spoken' \in [Indices -> Nat]
    BY <1>3, <2>1 DEF BlockDelta
  <2>6. thoughts' \in Seq(Nat)
    <3>1. CASE types[block] = "thinking"
      <4>1. positions[block] \in 1 .. Len(thoughts)
        BY <2>1, <3>1 DEF ThoughtsPlaced
      <4>2. thoughts' = [thoughts EXCEPT ![positions[block]] = @ + 1]
        BY <1>3, <3>1 DEF BlockDelta
      <4> QED  BY <4>1, <4>2
    <3>2. CASE types[block] # "thinking"
      BY <1>3, <3>2 DEF BlockDelta
    <3> QED  BY <3>1, <3>2
  <2> QED  BY <1>3, <2>3, <2>4, <2>5, <2>6 DEF BlockDelta
<1>4. CASE BlockStop
  <2>1. block \in Indices
    BY <1>4 DEF BlockStop, ThoughtsPlaced
  <2>2. BlockFrame("content_block_stop", block) \in Frames
    BY <2>1, FramesOfBlock
  <2>3. block + 1 \in 0 .. MaxBlocks
    BY <2>1, UsageAssumption DEF Indices
  <2> QED  BY <1>4, <2>2, <2>3 DEF BlockStop
<1>5. CASE Exception
  BY <1>5, FramesOfBlock, FramesOfMessage DEF Exception
<1>6. CASE StreamEnds
  BY <1>6 DEF StreamEnds
<1>7. CASE StreamBreaks
  BY <1>7 DEF StreamBreaks
<1>8. ASSUME NEW k \in Kinds, BlockStart(k)
      PROVE  TypeOK'
  <2>1. block \in Indices
    BY <1>8, UsageAssumption DEF BlockStart, Indices
  <2>2. BlockFrame("content_block_start", block) \in Frames
    BY <2>1, FramesOfBlock
  <2>3. out' \in Seq(Frames) /\ thoughts' \in Seq(Nat)
    <3>1. out \in Seq(Frames) /\ thoughts \in Seq(Nat)
      OBVIOUS
    <3>2. out' = Append(out, BlockFrame("content_block_start", block))
      BY <1>8 DEF BlockStart
    <3>3. thoughts' = Append(thoughts, 0) \/ thoughts' = thoughts
      BY <1>8 DEF BlockStart
    <3> HIDE <1>0 DEF TypeOK
    <3>4. out' \in Seq(Frames)
      BY <2>2, <3>1, <3>2
    <3>5. thoughts' \in Seq(Nat)
      BY <3>1, <3>3
    <3> QED  BY <3>4, <3>5
  <2>4. /\ positions' \in [Indices -> Nat]
        /\ types' \in [Indices -> Kinds \cup {NoKind}]
    BY <1>8, <2>1 DEF BlockStart
  <2>5. deltas' \in 0 .. MaxDeltas
    BY <1>8, UsageAssumption DEF BlockStart
  <2> QED  BY <1>8, <2>3, <2>4, <2>5 DEF BlockStart
<1>9. ASSUME NEW r \in StopReasons, MessageStop(r)
      PROVE  TypeOK'
  BY <1>9 DEF MessageStop
<1>10. ASSUME NEW n \in Usages, Metadata(n)
      PROVE  TypeOK'
  BY <1>10, UsageAssumption DEF Metadata
<1>11. CASE SendMessageDelta
  BY <1>11, StopAssumption DEF SendMessageDelta, StopFrame, StopReason, Frames
<1>12. CASE SendMessageStop
  BY <1>12, FramesOfBlock, FramesOfMessage DEF SendMessageStop
<1>13. CASE Disconnect
  BY <1>13 DEF Disconnect
<1>14. CASE RecordUsage
  BY <1>14 DEF RecordUsage, Ended
<1>15. CASE RecordAudit
  BY <1>15 DEF RecordAudit
<1>16. CASE RecordFails
  BY <1>16 DEF RecordFails, Ended
<1>17. CASE UNCHANGED vars
  BY <1>17 DEF vars
<1>18. CASE StrayReasoning
  BY <1>18 DEF StrayReasoning
<1> QED
  BY <1>1, <1>2, <1>3, <1>4, <1>5, <1>6, <1>7, <1>8, <1>9, <1>10, <1>11, <1>12, <1>13, <1>14, <1>15, <1>16, <1>17, <1>18
     DEF Next, Receive, Send, Record

\* Every step keeps what was told and recorded true.
LEMMA UsageStep ==
  ASSUME IInv, [Next]_vars
  PROVE  UsageIsFinal' /\ StopCarriesUsage' /\ RecordedIsReported'
<1>0. TypeOK /\ UsageIsFinal /\ StopCarriesUsage /\ RecordedIsReported
  BY DEF IInv
<1> USE <1>0 DEF TypeOK, bedrock, decoder, store, UsageIsFinal, StopCarriesUsage,
       RecordedIsReported, Ended, Sent
<1>1. CASE Begin
  BY <1>1 DEF Begin
<1>2. CASE MessageStart
  BY <1>2 DEF Frame, BlockFrame, MessageStart
<1>3. CASE BlockDelta
  BY <1>3 DEF Frame, BlockFrame, BlockDelta
<1>4. CASE BlockStop
  BY <1>4 DEF Frame, BlockFrame, BlockStop
<1>5. CASE Exception
  BY <1>5 DEF Frame, BlockFrame, Exception
<1>6. CASE StreamEnds
  BY <1>6 DEF StreamEnds
<1>7. CASE StreamBreaks
  BY <1>7 DEF StreamBreaks
<1>8. ASSUME NEW k \in Kinds, BlockStart(k)
      PROVE  UsageIsFinal' /\ StopCarriesUsage' /\ RecordedIsReported'
  BY <1>8 DEF Frame, BlockFrame, BlockStart
<1>9. ASSUME NEW r \in StopReasons, MessageStop(r)
      PROVE  UsageIsFinal' /\ StopCarriesUsage' /\ RecordedIsReported'
  BY <1>9 DEF MessageStop
<1>10. ASSUME NEW n \in Usages, Metadata(n)
      PROVE  UsageIsFinal' /\ StopCarriesUsage' /\ RecordedIsReported'
  BY <1>10 DEF Metadata
<1>11. CASE SendMessageDelta
  BY <1>11 DEF SendMessageDelta, StopFrame
<1>12. CASE SendMessageStop
  <2>1. /\ out' = Append(out, Frame("message_stop")) /\ gen = "message_stop"
        /\ UNCHANGED <<phase, tail, reported, usage, books, usageRow>>
    BY <1>12 DEF SendMessageStop, bedrock, store
  <2>2. Frame("message_stop").type # "message_delta"
    BY DEF Frame
  <2> HIDE <1>0 DEF TypeOK, UsageIsFinal, StopCarriesUsage, RecordedIsReported, Ended
  <2>3. /\ Len(out') = Len(out) + 1 /\ \A n \in 1 .. Len(out) : out'[n] = out[n]
        /\ out'[Len(out')].type # "message_delta" /\ Len(out) \in Nat
    BY <1>0, <2>1, <2>2 DEF TypeOK
  <2>4. /\ books = "open" /\ usageRow = NoRow
        /\ gen' \in {"returned", "waiting"}
    BY <1>0, <1>12, <2>1 DEF UsageIsFinal, Ended, SendMessageStop
  <2>5. \A n \in 1 .. Len(out') : out'[n].type = "message_delta" =>
          n \in 1 .. Len(out) /\ out'[n] = out[n]
    BY <2>3
  <2>6. UsageIsFinal'
    BY <1>0, <2>1, <2>4, <2>5 DEF UsageIsFinal, Ended, Sent
  <2>7. StopCarriesUsage'
    BY <1>0, <2>1, <2>5 DEF StopCarriesUsage, Sent
  <2> QED  BY <2>1, <2>4, <2>6, <2>7 DEF RecordedIsReported
<1>13. CASE Disconnect
  BY <1>13 DEF Disconnect
<1>14. CASE RecordUsage
  BY <1>14 DEF RecordUsage
<1>15. CASE RecordAudit
  BY <1>15 DEF RecordAudit
<1>16. CASE RecordFails
  BY <1>16 DEF RecordFails
<1>17. CASE UNCHANGED vars
  BY <1>17 DEF vars
<1>18. CASE StrayReasoning
  BY <1>18 DEF StrayReasoning
<1> QED
  BY <1>1, <1>2, <1>3, <1>4, <1>5, <1>6, <1>7, <1>8, <1>9, <1>10, <1>11, <1>12, <1>13, <1>14, <1>15, <1>16, <1>17, <1>18
     DEF Next, Receive, Send, Record

\* Every step keeps the thinking blocks in place.
LEMMA ThoughtsStep ==
  ASSUME IInv, [Next]_vars
  PROVE  ThoughtsPlaced' /\ ThoughtsIntact'
<1>0. TypeOK /\ ThoughtsPlaced /\ ThoughtsIntact
  BY DEF IInv
<1> USE <1>0 DEF TypeOK, bedrock, decoder, store, ThoughtsPlaced, ThoughtsIntact
<1>1. CASE Begin
  BY <1>1 DEF Begin
<1>2. CASE MessageStart
  BY <1>2 DEF MessageStart
<1>3. CASE BlockDelta
  <2>1. block \in Indices /\ UNCHANGED <<phase, block, types, positions>>
    BY <1>3 DEF BlockDelta
  <2>2. CASE types[block] = "thinking"
    <3>1. positions[block] \in 1 .. Len(thoughts)
      BY <2>1, <2>2
    <3>2. /\ thoughts' = [thoughts EXCEPT ![positions[block]] = @ + 1]
          /\ spoken' = [spoken EXCEPT ![block] = @ + 1]
          /\ phase = "block"
      BY <1>3, <2>2 DEF BlockDelta
    <3>3. /\ Len(thoughts') = Len(thoughts)
          /\ thoughts'[positions[block]] = thoughts[positions[block]] + 1
          /\ \A p \in 1 .. Len(thoughts) : p # positions[block] => thoughts'[p] = thoughts[p]
      BY <3>1, <3>2
    <3>4. /\ spoken'[block] = spoken[block] + 1
          /\ \A i \in Indices : i # block => spoken'[i] = spoken[i]
      BY <2>1, <3>2
    <3>5. ThoughtsIntact'
      <4> SUFFICES ASSUME NEW i \in Indices, types[i] = "thinking"
                   PROVE  thoughts'[positions[i]] = spoken'[i]
        BY <2>1
      <4>1. positions[i] \in 1 .. Len(thoughts) /\ thoughts[positions[i]] = spoken[i]
        OBVIOUS
      <4>2. i # block => positions[i] # positions[block]
        BY <2>1, <2>2
      <4>3. CASE i = block
        BY <3>3, <3>4, <4>1, <4>3
      <4>4. CASE i # block
        BY <3>3, <3>4, <4>1, <4>2, <4>4
      <4> QED  BY <4>3, <4>4
    <3>6. ThoughtsPlaced'
      BY <2>1, <3>2, <3>3, <3>4 DEF Indices
    <3> QED  BY <3>5, <3>6
  <2>3. CASE types[block] # "thinking"
    BY <1>3, <2>1, <2>3 DEF BlockDelta
  <2> QED  BY <2>2, <2>3
<1>4. CASE BlockStop
  BY <1>4, UsageAssumption DEF BlockStop, Indices, Kinds, NoKind
<1>5. CASE Exception
  BY <1>5 DEF Exception
<1>6. CASE StreamEnds
  BY <1>6 DEF StreamEnds
<1>7. CASE StreamBreaks
  BY <1>7 DEF StreamBreaks
<1>8. ASSUME NEW k \in Kinds, BlockStart(k)
      PROVE  ThoughtsPlaced' /\ ThoughtsIntact'
  <2>1. block \in Indices /\ types[block] = NoKind /\ spoken[block] = 0
    BY <1>8, UsageAssumption DEF BlockStart, Indices
  <2>2. /\ types' = [types EXCEPT ![block] = k] /\ phase' = "block" /\ phase = "between"
        /\ UNCHANGED <<block, spoken>>
    BY <1>8 DEF BlockStart
  <2>3. CASE k = "thinking"
    <3>1. /\ thoughts' = Append(thoughts, 0)
          /\ positions' = [positions EXCEPT ![block] = Len(thoughts) + 1]
      BY <1>8, <2>3 DEF BlockStart
    <3>2. /\ Len(thoughts') = Len(thoughts) + 1 /\ thoughts'[Len(thoughts) + 1] = 0
          /\ \A p \in 1 .. Len(thoughts) : thoughts'[p] = thoughts[p]
      BY <3>1
    <3>3. \A i \in Indices : i # block => types'[i] = types[i] /\ positions'[i] = positions[i]
      BY <2>1, <2>2, <3>1
    <3>4. types'[block] = "thinking" /\ positions'[block] = Len(thoughts) + 1
      BY <2>1, <2>2, <2>3, <3>1
    <3>5. ThoughtsIntact'
      BY <2>1, <2>2, <3>2, <3>3, <3>4
    <3>6. ThoughtsPlaced'
      BY <2>1, <2>2, <3>2, <3>3, <3>4 DEF Indices
    <3> QED  BY <3>5, <3>6
  <2>4. CASE k # "thinking"
    <3>1. UNCHANGED <<thoughts, positions>>
      BY <1>8, <2>4 DEF BlockStart
    <3>2. \A i \in Indices : types'[i] = IF i = block THEN k ELSE types[i]
      BY <2>1, <2>2
    <3> QED  BY <2>1, <2>2, <2>4, <3>1, <3>2 DEF Indices
  <2> QED  BY <2>3, <2>4
<1>9. ASSUME NEW r \in StopReasons, MessageStop(r)
      PROVE  ThoughtsPlaced' /\ ThoughtsIntact'
  BY <1>9 DEF MessageStop
<1>10. ASSUME NEW n \in Usages, Metadata(n)
      PROVE  ThoughtsPlaced' /\ ThoughtsIntact'
  BY <1>10 DEF Metadata
<1>11. CASE SendMessageDelta
  BY <1>11 DEF SendMessageDelta
<1>12. CASE SendMessageStop
  BY <1>12 DEF SendMessageStop
<1>13. CASE Disconnect
  BY <1>13 DEF Disconnect
<1>14. CASE RecordUsage
  BY <1>14 DEF RecordUsage
<1>15. CASE RecordAudit
  BY <1>15 DEF RecordAudit
<1>16. CASE RecordFails
  BY <1>16 DEF RecordFails
<1>17. CASE UNCHANGED vars
  BY <1>17 DEF vars
<1>18. CASE StrayReasoning
  BY <1>18 DEF StrayReasoning
<1> QED
  BY <1>1, <1>2, <1>3, <1>4, <1>5, <1>6, <1>7, <1>8, <1>9, <1>10, <1>11, <1>12, <1>13, <1>14, <1>15, <1>16, <1>17, <1>18
     DEF Next, Receive, Send, Record

-----------------------------------------------------------------------------
(* The order of the frames.                                                *)

BlockTypes == {"content_block_start", "content_block_delta", "content_block_stop"}

\* Open and Framing of any sequence of frames.
OpenIn(s, n, i) ==
  \E m \in 1 .. n - 1 :
    /\ s[m] = BlockFrame("content_block_start", i)
    /\ \A l \in m .. n - 1 : s[l] # BlockFrame("content_block_stop", i)

FramedAt(s, n) ==
  LET is(k, t) == s[k].type = t
  IN  /\ is(n, "message_start") => n = 1
      /\ n = 1 => is(n, "message_start") \/ is(n, "error")
      /\ s[n].type \in BlockTypes /\ ~is(n, "content_block_start") => OpenIn(s, n, s[n].index)
      /\ is(n, "content_block_start") \/ is(n, "message_delta") =>
           \A i \in Indices : ~OpenIn(s, n, i)
      /\ is(n, "message_delta") /\ n < Len(s) => is(n + 1, "message_stop")
      /\ is(n, "message_stop") => n > 1 /\ is(n - 1, "message_delta")
      /\ is(n, "error") => n = Len(s)
      /\ is(n, "message_stop") /\ n < Len(s) => n + 1 = Len(s) /\ is(n + 1, "error")

LEMMA FramingOfOut == Framing <=> \A n \in 1 .. Len(out) : FramedAt(out, n)
BY DEF Framing, FramedAt, Open, OpenIn, Sent, OfBlock, BlockTypes

LEMMA IndexOfFrame ==
  ASSUME NEW f \in Frames, f.type \in BlockTypes
  PROVE  f.index \in Indices
BY DEF Frames, BlockTypes

\* A frame opens its block, closes it, or changes nothing.
LEMMA OpenAppended ==
  ASSUME NEW s \in Seq(Frames), NEW f \in Frames, NEW i \in Indices
  PROVE  /\ \A n \in 1 .. Len(s) + 1 : OpenIn(Append(s, f), n, i) <=> OpenIn(s, n, i)
         /\ OpenIn(Append(s, f), Len(s) + 2, i) <=>
              \/ f = BlockFrame("content_block_start", i)
              \/ OpenIn(s, Len(s) + 1, i) /\ f # BlockFrame("content_block_stop", i)
<1> DEFINE t == Append(s, f)
<1>1. /\ Len(s) \in Nat /\ t[Len(s) + 1] = f
      /\ \A n \in 1 .. Len(s) : t[n] = s[n]
  OBVIOUS
<1> HIDE DEF t
<1>2. \A n \in 1 .. Len(s) + 1 : OpenIn(t, n, i) <=> OpenIn(s, n, i)
  <2> TAKE n \in 1 .. Len(s) + 1
  <2>1. \A m \in 1 .. n - 1 : m \in 1 .. Len(s) /\ t[m] = s[m]
    BY <1>1
  <2>2. \A m \in 1 .. n - 1 : \A l \in m .. n - 1 : t[l] = s[l]
    BY <2>1
  <2> QED  BY <2>1, <2>2 DEF OpenIn
<1>3. BlockFrame("content_block_start", i) # BlockFrame("content_block_stop", i)
  BY DEF BlockFrame
<1>4. ASSUME f = BlockFrame("content_block_start", i)
      PROVE  OpenIn(t, Len(s) + 2, i)
  BY <1>1, <1>3, <1>4 DEF OpenIn
<1>5. ASSUME OpenIn(s, Len(s) + 1, i), f # BlockFrame("content_block_stop", i)
      PROVE  OpenIn(t, Len(s) + 2, i)
  <2>1. PICK m \in 1 .. Len(s) :
          /\ s[m] = BlockFrame("content_block_start", i)
          /\ \A l \in m .. Len(s) : s[l] # BlockFrame("content_block_stop", i)
    BY <1>1, <1>5 DEF OpenIn
  <2>2. t[m] = s[m] /\ m \in 1 .. Len(s) + 1
    BY <1>1
  <2>3. \A l \in m .. Len(s) + 1 : t[l] # BlockFrame("content_block_stop", i)
    BY <1>1, <1>5, <2>1
  <2> QED  BY <1>1, <2>1, <2>2, <2>3 DEF OpenIn
<1>6. ASSUME OpenIn(t, Len(s) + 2, i), f # BlockFrame("content_block_start", i)
      PROVE  OpenIn(s, Len(s) + 1, i) /\ f # BlockFrame("content_block_stop", i)
  <2>1. PICK m \in 1 .. Len(s) + 1 :
          /\ t[m] = BlockFrame("content_block_start", i)
          /\ \A l \in m .. Len(s) + 1 : t[l] # BlockFrame("content_block_stop", i)
    BY <1>1, <1>6 DEF OpenIn
  <2>2. m \in 1 .. Len(s) /\ f # BlockFrame("content_block_stop", i)
    BY <1>1, <1>6, <2>1
  <2>3. \A l \in m .. Len(s) : s[l] # BlockFrame("content_block_stop", i)
    BY <1>1, <2>1, <2>2
  <2> QED  BY <1>1, <2>1, <2>2, <2>3 DEF OpenIn
<1> QED  BY <1>2, <1>3, <1>4, <1>5, <1>6 DEF t

\* What a frame must be, to come next.
Fits(s, f) ==
  /\ f.type = "message_start" <=> Len(s) = 0 /\ f.type # "error"
  /\ f.type \in {"content_block_delta", "content_block_stop"} => OpenIn(s, Len(s) + 1, f.index)
  /\ f.type \in {"content_block_start", "message_delta"} =>
       \A i \in Indices : ~OpenIn(s, Len(s) + 1, i)
  /\ f.type = "message_stop" <=> Len(s) > 0 /\ s[Len(s)].type = "message_delta"
  /\ \A n \in 1 .. Len(s) :
       /\ s[n].type # "error"
       /\ s[n].type = "message_stop" => n = Len(s) /\ f.type = "error"

LEMMA FramingAppended ==
  ASSUME NEW s \in Seq(Frames), NEW f \in Frames, Fits(s, f),
         \A n \in 1 .. Len(s) : FramedAt(s, n)
  PROVE  \A n \in 1 .. Len(Append(s, f)) : FramedAt(Append(s, f), n)
<1> DEFINE t == Append(s, f)
<1>1. /\ Len(s) \in Nat /\ Len(t) = Len(s) + 1 /\ t[Len(s) + 1] = f
      /\ \A n \in 1 .. Len(s) : t[n] = s[n]
  OBVIOUS
<1>2. \A n \in 1 .. Len(s) + 1, i \in Indices : OpenIn(t, n, i) <=> OpenIn(s, n, i)
  BY OpenAppended
<1>3. \A n \in 1 .. Len(s) : s[n] \in Frames
  OBVIOUS
<1> HIDE DEF t
<1>4. ASSUME NEW n \in 1 .. Len(s)
      PROVE  FramedAt(t, n)
  <2>1. FramedAt(s, n) /\ t[n] = s[n] /\ n \in 1 .. Len(s) + 1
    BY <1>1, <1>4
  <2>2. s[n].type \in BlockTypes => s[n].index \in Indices
    BY <1>3, IndexOfFrame
  <2>3. CASE n < Len(s)
    <3>1. t[n + 1] = s[n + 1] /\ n + 1 < Len(t)
      BY <1>1, <2>3
    <3>2. n > 1 => t[n - 1] = s[n - 1]
      BY <1>1
    <3>3. s[n].type # "message_stop" /\ s[n].type # "error"
      BY <2>3 DEF Fits
    <3> QED  BY <1>1, <1>2, <2>1, <2>2, <2>3, <3>1, <3>2, <3>3 DEF FramedAt
  <2>4. CASE n = Len(s)
    <3>1. t[n + 1] = f /\ n + 1 = Len(t)
      BY <1>1, <2>4
    <3>2. n > 1 => t[n - 1] = s[n - 1]
      BY <1>1
    <3>3. /\ s[n].type = "message_delta" => f.type = "message_stop"
          /\ s[n].type = "message_stop" => f.type = "error"
          /\ s[n].type # "error"
      BY <1>1, <2>4 DEF Fits
    <3> QED  BY <1>1, <1>2, <2>1, <2>2, <2>4, <3>1, <3>2, <3>3 DEF FramedAt
  <2> QED  BY <1>1, <2>3, <2>4
<1>5. FramedAt(t, Len(s) + 1)
  <2> DEFINE n == Len(s) + 1
  <2>1. t[n] = f /\ n = Len(t) /\ (n > 1 => t[n - 1] = s[Len(s)])
    BY <1>1
  <2>2. f.type \in BlockTypes => f.index \in Indices
    BY IndexOfFrame
  <2>3. \A i \in Indices : OpenIn(t, n, i) <=> OpenIn(s, n, i)
    BY <1>1, <1>2
  <2> HIDE DEF n
  <2>4. /\ t[n].type = "message_start" => n = 1
        /\ n = 1 => t[n].type = "message_start" \/ t[n].type = "error"
        /\ t[n].type = "message_stop" => n > 1 /\ t[n - 1].type = "message_delta"
    BY <1>1, <2>1 DEF n, Fits
  <2>5. /\ t[n].type \in BlockTypes /\ t[n].type # "content_block_start" => OpenIn(t, n, t[n].index)
        /\ t[n].type \in {"content_block_start", "message_delta"} => \A i \in Indices : ~OpenIn(t, n, i)
    BY <2>1, <2>2, <2>3 DEF n, Fits, BlockTypes
  <2> QED  BY <1>1, <2>1, <2>4, <2>5 DEF n, FramedAt
<1> QED  BY <1>1, <1>4, <1>5 DEF t

\* A step of the generator that sends a frame sends one that fits.
LEMMA FrameStep ==
  ASSUME IInv, NEW f \in Frames, Fits(out, f), out' = Append(out, f)
  PROVE  /\ Framing'
         /\ Len(out') = Len(out) + 1 /\ out'[Len(out) + 1] = f
         /\ \A n \in 1 .. Len(out) : out'[n] = out[n]
         /\ \A i \in Indices : Open(Len(out) + 1, i)' <=>
              \/ f = BlockFrame("content_block_start", i)
              \/ Open(Len(out) + 1, i) /\ f # BlockFrame("content_block_stop", i)
<1>1. out \in Seq(Frames)
  BY DEF IInv, TypeOK
<1>2. \A n \in 1 .. Len(out) : FramedAt(out, n)
  BY FramingOfOut DEF IInv
<1>3. \A n \in 1 .. Len(out') : FramedAt(out', n)
  BY <1>1, <1>2, FramingAppended
<1>4. Framing'
  BY <1>3 DEF Framing, FramedAt, Open, OpenIn, Sent, OfBlock, BlockTypes
<1>5. /\ Len(out') = Len(out) + 1 /\ out'[Len(out) + 1] = f
      /\ \A n \in 1 .. Len(out) : out'[n] = out[n]
  BY <1>1
<1>6. \A i \in Indices : OpenIn(out', Len(out') + 1, i) <=>
        \/ f = BlockFrame("content_block_start", i)
        \/ OpenIn(out, Len(out) + 1, i) /\ f # BlockFrame("content_block_stop", i)
  <2> TAKE i \in Indices
  <2>1. Len(out') + 1 = Len(out) + 2
    BY <1>1, <1>5
  <2> QED  BY <1>1, <2>1, OpenAppended
<1>7. \A i \in Indices :
        /\ OpenIn(out', Len(out') + 1, i) <=> Open(Len(out) + 1, i)'
        /\ OpenIn(out, Len(out) + 1, i) <=> Open(Len(out) + 1, i)
  BY DEF Open, OpenIn
<1> QED  BY <1>4, <1>5, <1>6, <1>7

\* While the generator waits for Bedrock, nothing is half sent or over.
LEMMA BetweenFrames ==
  ASSUME FramesInStep, gen = "waiting"
  PROVE  \A n \in 1 .. Len(out) :
           /\ out[n].type # "error"
           /\ out[n].type = "message_delta" => n # Len(out)
           /\ out[n].type = "message_stop" => n = Len(out) /\ phase = "tail"
BY DEF FramesInStep, Sent, Ended

LEMMA OpenIsOpenIn ==
  \A i \in Indices : Open(Len(out) + 1, i) <=> OpenIn(out, Len(out) + 1, i)
BY DEF Open, OpenIn

\* A step that sends nothing leaves the frames in order; it is in step with
\* them if it starts no block, ends none but by the end of the stream, and does
\* not go back on what has been sent.
LEMMA QuietStep ==
  ASSUME TypeOK, FramesInStep, Framing, UNCHANGED out,
         gen \in {"new", "waiting"},
         gen' \in {"waiting", "message_delta", "returned", "raised", "closed", "dropped"},
         gen = "new" => gen' \in {"waiting", "dropped"},
         gen = "waiting" => gen' # "dropped",
         \/ phase' = phase
         \/ phase' = "tail" /\ phase = "between"
         \/ phase' = "done" /\ gen' # "waiting",
         phase' = "block" => block' = block,
         pending' # NoStop => "messageStop" \in tail',
         "messageStop" \in tail' => phase' \in {"tail", "done"},
         gen' = "message_delta" =>
           /\ phase \in {"between", "tail"} /\ pending # NoStop
           /\ \/ phase' = "done"
              \/ phase' = "tail" /\ tail' = {"messageStop", "metadata"},
         gen' = "waiting" => \/ UNCHANGED <<tail, pending>>
                             \/ tail # {"messageStop", "metadata"}
  PROVE  FramesInStep' /\ Framing'
<1>1. Framing'
  BY DEF Framing, Open, Sent, OfBlock
<1>2. \A i \in Indices : Open(Len(out) + 1, i)' <=> Open(Len(out) + 1, i)
  BY DEF Open
<1>3. phase' = "block" => Open(Len(out) + 1, block)'
  BY DEF FramesInStep, Open
<1>4. \A i \in Indices : Open(Len(out) + 1, i)' =>
        /\ phase' \in {"block", "done"} /\ gen' \notin {"message_delta", "message_stop"}
        /\ phase' = "block" => i = block'
  BY <1>2 DEF FramesInStep
<1>5. \A n \in 1 .. Len(out') : Sent(n, "message_delta")' /\ n = Len(out') =>
        gen' \in {"message_stop", "closed"}
  BY DEF FramesInStep, Sent
<1>6. \A n \in 1 .. Len(out') : Sent(n, "error")' => gen' = "returned"
  BY DEF FramesInStep, Sent
<1>7. \A n \in 1 .. Len(out') : Sent(n, "message_stop")' =>
        \/ Ended'
        \/ /\ gen' = "waiting" /\ n = Len(out')
           /\ phase' = "tail" /\ tail' = {"messageStop", "metadata"} /\ pending' = NoStop
  BY DEF FramesInStep, Sent, Ended
<1>8. /\ phase' = "before" => out' = <<>>
      /\ phase' \in {"between", "block", "tail"} \/ gen' \in {"message_delta", "message_stop"} =>
           out' # <<>>
  BY DEF FramesInStep
<1> QED  BY <1>1, <1>3, <1>4, <1>5, <1>6, <1>7, <1>8 DEF FramesInStep

\* Every step keeps the frames in order.
LEMMA FramesStep ==
  ASSUME IInv, [Next]_vars
  PROVE  FramesInStep' /\ Framing'
<1>0. TypeOK /\ FramesInStep /\ Framing /\ ThoughtsPlaced
  BY DEF IInv
<1>1. ASSUME UNCHANGED out
      PROVE  /\ Framing'
             /\ \A i \in Indices : Open(Len(out) + 1, i)' <=> Open(Len(out) + 1, i)
             /\ \A n \in 1 .. Len(out) : out'[n] = out[n]
  BY <1>0, <1>1 DEF Framing, Open, Sent, OfBlock
<1>t. out \in Seq(Frames) /\ Len(out) \in Nat /\ (out # <<>> => Len(out) > 0)
  BY <1>0 DEF TypeOK
<1>2. CASE Begin
  <2>1. /\ UNCHANGED <<out, phase, block, tail, pending>> /\ gen = "new" /\ gen' = "waiting"
        /\ pending # NoStop => "messageStop" \in tail
        /\ "messageStop" \in tail => phase \in {"tail", "done"}
    BY <1>0, <1>2 DEF Begin, bedrock, FramesInStep
  <2> QED  BY <1>0, <2>1, QuietStep
<1>3. CASE MessageStart
  <2>1. out = <<>> /\ Len(out) = 0 /\ \A i \in Indices : ~Open(Len(out) + 1, i)
    BY <1>0, <1>3 DEF MessageStart, FramesInStep, Open
  <2>2. Frame("message_start") \in Frames /\ Fits(out, Frame("message_start"))
    BY <2>1, FramesOfMessage DEF Fits, Frame
  <2>3. /\ out' = Append(out, Frame("message_start")) /\ phase' = "between" /\ gen = "waiting"
        /\ phase = "before" /\ UNCHANGED <<tail, gen, pending>>
    BY <1>3 DEF MessageStart
  <2>4. Frame("message_start").type = "message_start"
        /\ \A i \in Indices : Frame("message_start") # BlockFrame("content_block_start", i)
    BY DEF Frame, BlockFrame
  <2> QED  BY <1>0, <2>1, <2>2, <2>3, <2>4, FrameStep DEF FramesInStep, Sent
<1>4. ASSUME NEW k \in Kinds, BlockStart(k)
      PROVE  FramesInStep' /\ Framing'
  <2> DEFINE f == BlockFrame("content_block_start", block)
  <2>1. /\ out' = Append(out, f) /\ phase = "between" /\ phase' = "block" /\ gen = "waiting"
        /\ UNCHANGED <<tail, gen, pending, block>> /\ block \in Indices
    BY <1>0, <1>4, UsageAssumption DEF BlockStart, TypeOK, Indices
  <2>2. f \in Frames /\ f.type = "content_block_start"
    BY <2>1, FramesOfBlock DEF BlockFrame
  <2>3. out # <<>> /\ \A i \in Indices : ~Open(Len(out) + 1, i)
    BY <1>0, <2>1 DEF FramesInStep
  <2>4. \A i \in Indices : (f = BlockFrame("content_block_start", i) <=> i = block)
                             /\ f # BlockFrame("content_block_stop", i)
    BY DEF BlockFrame
  <2> HIDE DEF f
  <2>5. Fits(out, f)
    BY <1>0, <1>t, <2>1, <2>2, <2>3, BetweenFrames, OpenIsOpenIn DEF Fits
  <2> QED  BY <1>0, <1>t, <2>1, <2>2, <2>3, <2>4, <2>5, BetweenFrames, FrameStep DEF FramesInStep, Sent
<1>5. CASE BlockDelta
  <2> DEFINE f == BlockFrame("content_block_delta", block)
  <2>1. /\ out' = Append(out, f) /\ phase = "block" /\ gen = "waiting"
        /\ UNCHANGED <<phase, tail, gen, pending, block>> /\ block \in Indices
    BY <1>0, <1>5 DEF BlockDelta, ThoughtsPlaced
  <2>2. f \in Frames /\ f.type = "content_block_delta" /\ f.index = block
    BY <2>1, FramesOfBlock DEF BlockFrame
  <2>3. out # <<>> /\ Open(Len(out) + 1, block)
    BY <1>0, <2>1 DEF FramesInStep
  <2>4. \A i \in Indices : f # BlockFrame("content_block_start", i)
                             /\ f # BlockFrame("content_block_stop", i)
    BY DEF BlockFrame
  <2> HIDE DEF f
  <2>5. Fits(out, f)
    BY <1>0, <1>t, <2>1, <2>2, <2>3, BetweenFrames, OpenIsOpenIn DEF Fits
  <2> QED  BY <1>0, <1>t, <2>1, <2>2, <2>3, <2>4, <2>5, BetweenFrames, FrameStep DEF FramesInStep, Sent
<1>6. CASE BlockStop
  <2> DEFINE f == BlockFrame("content_block_stop", block)
  <2>1. /\ out' = Append(out, f) /\ phase = "block" /\ phase' = "between" /\ gen = "waiting"
        /\ UNCHANGED <<tail, gen, pending>> /\ block \in Indices
    BY <1>0, <1>6 DEF BlockStop, ThoughtsPlaced
  <2>2. f \in Frames /\ f.type = "content_block_stop" /\ f.index = block
    BY <2>1, FramesOfBlock DEF BlockFrame
  <2>3. out # <<>> /\ \A i \in Indices : Open(Len(out) + 1, i) <=> i = block
    BY <1>0, <2>1 DEF FramesInStep
  <2>4. \A i \in Indices : f # BlockFrame("content_block_start", i)
                             /\ (f = BlockFrame("content_block_stop", i) <=> i = block)
    BY DEF BlockFrame
  <2> HIDE DEF f
  <2>5. Fits(out, f)
    BY <1>0, <1>t, <2>1, <2>2, <2>3, BetweenFrames, OpenIsOpenIn DEF Fits
  <2> QED  BY <1>0, <1>t, <2>1, <2>2, <2>3, <2>4, <2>5, BetweenFrames, FrameStep DEF FramesInStep, Sent
<1>7. CASE Exception
  <2> DEFINE f == Frame("error")
  <2>1. /\ out' = Append(out, f) /\ phase' = "done" /\ gen = "waiting" /\ gen' = "returned"
        /\ UNCHANGED <<tail, pending>>
    BY <1>7 DEF Exception
  <2>2. f \in Frames /\ f.type = "error"
    BY FramesOfMessage DEF Frame
  <2> HIDE DEF f
  <2>3. Fits(out, f)
    BY <1>0, <1>t, <2>1, <2>2, BetweenFrames DEF Fits
  <2> QED  BY <1>0, <1>t, <2>1, <2>2, <2>3, BetweenFrames, FrameStep DEF FramesInStep, Sent, Ended
<1>8. CASE SendMessageDelta
  <2> DEFINE f == StopFrame(StopReason, usage)
  <2>1. /\ out' = Append(out, f) /\ gen = "message_delta" /\ gen' = "message_stop"
        /\ UNCHANGED <<phase, block, tail, pending>>
    BY <1>8 DEF SendMessageDelta, bedrock
  <2>2. f \in Frames /\ f.type = "message_delta"
    BY <1>0, StopAssumption DEF TypeOK, StopReason, StopFrame, Frames
  <2>3. out # <<>> /\ \A i \in Indices : ~Open(Len(out) + 1, i)
    BY <1>0, <2>1 DEF FramesInStep
  <2>4. \A i \in Indices : f # BlockFrame("content_block_start", i)
    BY <2>2 DEF BlockFrame
  <2>5. \A n \in 1 .. Len(out) :
          /\ out[n].type # "error" /\ out[n].type # "message_stop"
          /\ out[n].type = "message_delta" => n # Len(out)
    BY <1>0, <2>1 DEF FramesInStep, Sent, Ended
  <2> HIDE DEF f
  <2>6. Fits(out, f)
    BY <1>t, <2>2, <2>3, <2>5, OpenIsOpenIn DEF Fits
  <2> QED  BY <1>0, <1>t, <2>1, <2>2, <2>3, <2>4, <2>5, <2>6, FrameStep DEF FramesInStep, Sent
<1>9. CASE SendMessageStop
  <2> DEFINE f == Frame("message_stop")
  <2>1. /\ out' = Append(out, f) /\ gen = "message_stop" /\ pending' = NoStop
        /\ gen' = IF phase = "done" THEN "returned" ELSE "waiting"
        /\ UNCHANGED <<phase, block, tail>>
    BY <1>9 DEF SendMessageStop, bedrock
  <2>2. f \in Frames /\ f.type = "message_stop"
    BY FramesOfMessage DEF Frame
  <2>3. /\ out # <<>> /\ out[Len(out)].type = "message_delta"
        /\ \A i \in Indices : ~Open(Len(out) + 1, i)
    BY <1>0, <2>1 DEF FramesInStep, Sent
  <2>4. \A i \in Indices : f # BlockFrame("content_block_start", i)
    BY <2>2 DEF BlockFrame
  <2>5. \A n \in 1 .. Len(out) : out[n].type # "error" /\ out[n].type # "message_stop"
    BY <1>0, <2>1 DEF FramesInStep, Sent, Ended
  <2> HIDE DEF f
  <2>6. Fits(out, f)
    BY <1>t, <2>2, <2>3, <2>5, OpenIsOpenIn DEF Fits
  <2> QED  BY <1>0, <1>t, <2>1, <2>2, <2>3, <2>4, <2>5, <2>6, FrameStep DEF FramesInStep, Sent, Ended
<1>10. CASE StreamEnds \/ StreamBreaks \/ StrayReasoning
  <2>1. /\ UNCHANGED <<out, block, tail, pending>> /\ gen = "waiting" /\ phase' = "done"
        /\ pending # NoStop => "messageStop" \in tail
    BY <1>0, <1>10 DEF StreamEnds, StreamBreaks, StrayReasoning, FramesInStep
  <2>2. \/ gen' \in {"returned", "raised"}
        \/ gen' = "message_delta" /\ pending # NoStop
    BY <1>10 DEF StreamEnds, StreamBreaks, StrayReasoning
  <2>3. pending # NoStop => phase = "tail"
    BY <1>0, <2>1 DEF FramesInStep
  <2> QED  BY <1>0, <2>1, <2>2, <2>3, QuietStep
<1>11. ASSUME NEW r \in StopReasons, MessageStop(r)
       PROVE  FramesInStep' /\ Framing'
  BY <1>0, <1>11, QuietStep DEF MessageStop, FramesInStep
<1>12. ASSUME NEW n \in Usages, Metadata(n)
       PROVE  FramesInStep' /\ Framing'
  <2>1. /\ UNCHANGED <<out, block, pending>> /\ gen = "waiting" /\ phase' = "tail"
        /\ phase \in {"between", "tail"} /\ "metadata" \notin tail
        /\ tail' = tail \cup {"metadata"}
        /\ gen' = IF pending = NoStop THEN "waiting" ELSE "message_delta"
        /\ pending # NoStop => "messageStop" \in tail
    BY <1>0, <1>12 DEF Metadata, FramesInStep
  <2>2. pending # NoStop => tail' = {"messageStop", "metadata"}
    BY <1>0, <2>1 DEF TypeOK
  <2> QED  BY <1>0, <2>1, <2>2, QuietStep
<1>13. CASE Disconnect
  <2>1. UNCHANGED <<out, phase, block, tail, pending>> /\ gen' \in {"dropped", "closed"}
        /\ gen \notin {"returned", "raised", "closed", "dropped"}
        /\ (gen = "new" <=> gen' = "dropped")
    BY <1>13 DEF Disconnect, bedrock
  <2>2. \A n \in 1 .. Len(out) : ~Sent(n, "error")
    BY <1>0, <2>1 DEF FramesInStep
  <2>3. gen = "new" => out = <<>>
    BY <1>0 DEF FramesInStep
  <2>4. gen' = "dropped" => \A n \in 1 .. Len(out) : FALSE
    BY <2>1, <2>3
  <2>5. \A n \in 1 .. Len(out') :
          /\ Sent(n, "message_delta")' /\ n = Len(out') => gen' \in {"message_stop", "closed"}
          /\ ~Sent(n, "error")'
          /\ Sent(n, "message_stop")' => Ended'
    BY <2>1, <2>2, <2>4 DEF Ended, Sent
  <2>6. Framing' /\ \A i \in Indices : Open(Len(out) + 1, i)' <=> Open(Len(out) + 1, i)
    BY <1>1, <2>1
  <2>7. /\ phase' = "block" => Open(Len(out) + 1, block)'
        /\ \A i \in Indices : Open(Len(out) + 1, i)' =>
             phase' \in {"block", "done"} /\ (phase' = "block" => i = block')
    BY <1>0, <2>1, <2>6 DEF FramesInStep, Open
  <2> QED  BY <1>0, <2>1, <2>5, <2>6, <2>7 DEF FramesInStep
<1>14. CASE Record \/ UNCHANGED vars
  <2>1. UNCHANGED <<out, phase, block, tail, gen, pending>>
    BY <1>14 DEF Record, RecordUsage, RecordAudit, RecordFails, vars, bedrock, decoder
  <2>2. Framing'
    BY <1>1, <2>1
  <2>3. FramesInStep'
    BY <1>0, <2>1 DEF FramesInStep, Sent, Ended, Open
  <2> QED  BY <2>2, <2>3
<1> QED
  BY <1>2, <1>3, <1>4, <1>5, <1>6, <1>7, <1>8, <1>9, <1>10, <1>11, <1>12, <1>13, <1>14
     DEF Next, Receive, Send

LEMMA InvStep == IInv /\ [Next]_vars => IInv'
BY TypeStep, UsageStep, ThoughtsStep, FramesStep DEF IInv

-----------------------------------------------------------------------------
(* The results.                                                            *)

\* The inductive invariant of the decoder and its accounting, for answers of
\* any length (stream_decoder.py:44-200, proxy_router.py:121-135).
THEOREM InvariantHolds == Spec => []IInv
<1> QED  BY InitInv, InvStep, PTL DEF Spec

\* The client always has the beginning of a stream in order, wherever Bedrock,
\* the client or the generator broke off (stream_decoder.py:44-128, 180-200).
THEOREM FramesInOrder == Spec => []Framing
<1>1. IInv => Framing
  BY DEF IInv
<1> QED  BY <1>1, InvariantHolds, PTL

\* The client is never told another usage than Bedrock reported.
THEOREM UsageTold == Spec => []StopCarriesUsage
<1>1. IInv => StopCarriesUsage
  BY DEF IInv
<1> QED  BY <1>1, InvariantHolds, PTL

\* The usage row agrees with Bedrock and with what the client was told.
THEOREM UsageRecorded == Spec => []RecordedIsReported
<1>1. IInv => RecordedIsReported
  BY DEF IInv
<1> QED  BY <1>1, InvariantHolds, PTL

\* Reasoning deltas never land in another block's thoughts.
THEOREM ThoughtsKept == Spec => []ThoughtsIntact
<1>1. IInv => ThoughtsIntact
  BY DEF IInv
<1> QED  BY <1>1, InvariantHolds, PTL
=============================================================================

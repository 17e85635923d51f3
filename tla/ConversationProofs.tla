------------------------- MODULE ConversationProofs -------------------------
(***************************************************************************)
(* Proofs about Conversation: for transcripts and answers of every length, *)
(* Bedrock gets its own texts, tool uses and reasoning back.               *)
(*                                                                         *)
(* The filters of the parser and the builder are one recursive function,   *)
(* OfType.  What it computes is shown by induction over the prefixes of a  *)
(* sequence, with a set of numbers in place of a predicate.                *)
(***************************************************************************)
EXTENDS Conversation, WellFoundedInduction, TLAPS

-----------------------------------------------------------------------------
(* Induction up to a number.                                               *)

\* A set that holds zero, and up to N each number whose predecessor it holds.
LEMMA UpTo ==
  ASSUME NEW N \in Nat, NEW S, 0 \in S, \A n \in 1 .. N : n - 1 \in S => n \in S
  PROVE  N \in S
<1> SUFFICES ASSUME (0 .. N) \ S # {} PROVE FALSE
  OBVIOUS
<1> DEFINE R == {ss \in Nat \X Nat : ss[1] < ss[2]}
           T == (0 .. N) \ S
<1>1. IsWellFoundedOn(R, Nat)
  BY NatLessThanWellFounded DEF OpToRel
<1>2. T \subseteq Nat /\ T # {}
  OBVIOUS
<1> HIDE DEF R, T
<1>3. PICK n \in T : \A k \in T : ~(<<k, n>> \in R)
  BY <1>1, <1>2, WFMin
<1>4. n \in 0 .. N /\ n \notin S /\ n # 0
  BY <1>3 DEF T
<1>5. n \in 1 .. N /\ n - 1 \in 0 .. N /\ n - 1 \in Nat /\ n \in Nat /\ n - 1 < n
  BY <1>4
<1>6. <<n - 1, n>> \in R
  <2>1. <<n - 1, n>> \in Nat \X Nat /\ <<n - 1, n>>[1] = n - 1 /\ <<n - 1, n>>[2] = n
    BY <1>5
  <2> QED  BY <1>5, <2>1 DEF R
<1>7. n - 1 \in S
  BY <1>3, <1>5, <1>6 DEF T
<1> QED  BY <1>4, <1>5, <1>7

-----------------------------------------------------------------------------
(* The filter OfType.                                                      *)

\* What the filter keeps of the first n blocks, as its recursion says.
IsKept(f, N, blocks, types) ==
  f = [n \in 0 .. N |->
         IF n = 0 THEN <<>>
         ELSE IF blocks[n].type \in types THEN Append(f[n - 1], blocks[n])
         ELSE f[n - 1]]

\* The recursion has a solution.
LEMMA KeptExists ==
  \A N \in Nat : \A blocks, types : \E f : IsKept(f, N, blocks, types)
<1> SUFFICES ASSUME NEW N \in Nat, NEW blocks, NEW types
             PROVE  \E f : IsKept(f, N, blocks, types)
  OBVIOUS
<1> DEFINE S == {m \in 0 .. N : \E f : IsKept(f, m, blocks, types)}
<1>1. 0 \in S
  <2> DEFINE g == [n \in 0 .. 0 |-> <<>>]
  <2>1. 0 .. 0 = {0}
    OBVIOUS
  <2>2. IsKept(g, 0, blocks, types)
    BY <2>1 DEF IsKept
  <2> HIDE DEF g
  <2> QED  BY <2>2
<1>2. ASSUME NEW m \in 1 .. N, m - 1 \in S
      PROVE  m \in S
  <2>1. PICK f : IsKept(f, m - 1, blocks, types)
    BY <1>2
  <2> DEFINE Step(h, n) == IF n = 0 THEN <<>>
               ELSE IF blocks[n].type \in types THEN Append(h[n - 1], blocks[n])
               ELSE h[n - 1]
             g == [n \in 0 .. m |-> IF n = m THEN Step(f, n) ELSE f[n]]
  <2>2. \A n \in 0 .. m : n # 0 => n - 1 \in 0 .. m - 1 /\ g[n - 1] = f[n - 1]
    OBVIOUS
  <2>3. \A n \in 0 .. m : Step(g, n) = Step(f, n)
    BY <2>2
  <2>4. \A n \in 0 .. m - 1 : f[n] = Step(f, n)
    BY <2>1 DEF IsKept
  <2>5. g = [n \in 0 .. m |-> Step(g, n)]
    <3> HIDE DEF Step
    <3> QED  BY <2>3, <2>4
  <2>6. IsKept(g, m, blocks, types)
    BY <2>5 DEF IsKept
  <2> HIDE DEF g
  <2>7. \E h : IsKept(h, m, blocks, types)
    BY <2>6
  <2> QED  BY <2>7
<1> HIDE DEF S
<1>3. N \in S
  BY <1>1, <1>2, UpTo
<1> QED  BY <1>3 DEF S

\* f starts empty and takes the blocks in turn.
Takes(f, N, blocks, types) ==
  /\ f[0] = <<>>
  /\ \A n \in 1 .. N :
       f[n] = IF blocks[n].type \in types THEN Append(f[n - 1], blocks[n]) ELSE f[n - 1]

\* OfType is the last value of such a function.
LEMMA OfTypeTakes ==
  ASSUME NEW blocks, NEW types, NEW N \in Nat, Len(blocks) = N
  PROVE  \E f : OfType(blocks, types) = f[N] /\ Takes(f, N, blocks, types)
<1> DEFINE f == CHOOSE f : f = [n \in 0 .. Len(blocks) |->
             IF n = 0 THEN <<>>
             ELSE IF blocks[n].type \in types THEN Append(f[n - 1], blocks[n])
             ELSE f[n - 1]]
           P(h) == IsKept(h, Len(blocks), blocks, types)
<1>1. \E h : P(h)
  BY KeptExists
<1>2. f = CHOOSE h : P(h)
  BY DEF IsKept
<1>3. OfType(blocks, types) = f[Len(blocks)]
  BY DEF OfType
<1> HIDE DEF P, f
<1>4. P(f)
  BY <1>1, <1>2
<1>5. f = [n \in 0 .. N |->
             IF n = 0 THEN <<>>
             ELSE IF blocks[n].type \in types THEN Append(f[n - 1], blocks[n])
             ELSE f[n - 1]]
  BY <1>4 DEF P, IsKept
<1>6. f[0] = <<>>
  BY <1>5
<1>7. \A n \in 1 .. N :
        f[n] = IF blocks[n].type \in types THEN Append(f[n - 1], blocks[n]) ELSE f[n - 1]
  <2> TAKE n \in 1 .. N
  <2>1. n \in 0 .. N /\ n # 0
    OBVIOUS
  <2> QED  BY <1>5, <2>1, Zenon
<1>8. Takes(f, N, blocks, types)
  BY <1>6, <1>7 DEF Takes
<1> QED  BY <1>3, <1>8

\* What is kept is some of the blocks, and of the types.
LEMMA OfTypeMembers ==
  ASSUME NEW B, NEW blocks \in Seq(B), NEW types
  PROVE  OfType(blocks, types) \in Seq({b \in B : b.type \in types})
<1> DEFINE N == Len(blocks)
           E == {b \in B : b.type \in types}
<1>0. N \in Nat /\ Len(blocks) = N /\ \A n \in 1 .. N : blocks[n] \in B
  OBVIOUS
<1>1. \A n \in 1 .. N : blocks[n].type \in types => blocks[n] \in E
  BY <1>0
<1> HIDE DEF N, E
<1>2. PICK f : OfType(blocks, types) = f[N] /\ Takes(f, N, blocks, types)
  BY <1>0, OfTypeTakes
<1> DEFINE S == {n \in 0 .. N : f[n] \in Seq(E)}
<1>3. 0 \in S
  <2>1. f[0] = <<>>
    BY <1>2 DEF Takes
  <2>2. f[0] \in Seq(E) /\ 0 \in 0 .. N
    BY <1>0, <2>1
  <2> QED  BY <2>2
<1>4. ASSUME NEW n \in 1 .. N, n - 1 \in S
      PROVE  n \in S
  <2>1. f[n - 1] \in Seq(E)
    BY <1>4
  <2>2. f[n] \in Seq(E)
    <3>1. CASE blocks[n].type \in types
      <4>1. f[n] = Append(f[n - 1], blocks[n])
        BY <1>2, <3>1 DEF Takes
      <4> QED  BY <1>1, <2>1, <3>1, <4>1
    <3>2. CASE blocks[n].type \notin types
      <4>1. f[n] = f[n - 1]
        BY <1>2, <3>2 DEF Takes
      <4> QED  BY <2>1, <4>1
    <3> QED  BY <3>1, <3>2
  <2> QED  BY <1>0, <2>2
<1> HIDE DEF S
<1>5. N \in S
  BY <1>0, <1>3, <1>4, UpTo
<1>6. OfType(blocks, types) \in Seq(E)
  BY <1>2, <1>5 DEF S
<1> QED  BY <1>6 DEF E

\* None of them is lost.
LEMMA OfTypeAll ==
  ASSUME NEW B, NEW blocks \in Seq(B), NEW types,
         NEW i \in 1 .. Len(blocks), blocks[i].type \in types
  PROVE  \E j \in DOMAIN OfType(blocks, types) : OfType(blocks, types)[j] = blocks[i]
<1> DEFINE N == Len(blocks)
           Holds(s) == \E j \in 1 .. Len(s) : s[j] = blocks[i]
<1>0. N \in Nat /\ Len(blocks) = N /\ i \in 1 .. N /\ \A n \in 1 .. N : blocks[n] \in B
  OBVIOUS
<1> HIDE DEF N
<1>1. PICK f : OfType(blocks, types) = f[N] /\ Takes(f, N, blocks, types)
  BY <1>0, OfTypeTakes
<1> DEFINE S == {n \in 0 .. N : f[n] \in Seq(B) /\ (i <= n => Holds(f[n]))}
<1>2. 0 \in S
  <2>1. f[0] = <<>>
    BY <1>1 DEF Takes
  <2>2. f[0] \in Seq(B) /\ 0 \in 0 .. N /\ ~(i <= 0)
    BY <1>0, <2>1
  <2> HIDE DEF Holds
  <2> QED  BY <2>2
<1>3. ASSUME NEW n \in 1 .. N, n - 1 \in S
      PROVE  n \in S
  <2>1. f[n - 1] \in Seq(B) /\ (i <= n - 1 => Holds(f[n - 1])) /\ blocks[n] \in B
    BY <1>0, <1>3
  <2> DEFINE a == Append(f[n - 1], blocks[n])
  <2>2. /\ a \in Seq(B) /\ Len(a) \in Nat /\ Len(f[n - 1]) \in Nat /\ Len(a) = Len(f[n - 1]) + 1
        /\ a[Len(a)] = blocks[n]
        /\ \A j \in 1 .. Len(f[n - 1]) : a[j] = f[n - 1][j]
    BY <2>1
  <2> HIDE DEF a
  <2>3. Holds(f[n - 1]) \/ i = n => Holds(a)
    <3>1. \A j \in 1 .. Len(f[n - 1]) : j \in 1 .. Len(a)
      BY <2>2
    <3>2. Len(a) \in 1 .. Len(a)
      BY <2>2
    <3> QED  BY <2>2, <3>1, <3>2
  <2>4. f[n] = IF blocks[n].type \in types THEN a ELSE f[n - 1]
    BY <1>1 DEF Takes, a
  <2>5. i <= n => i <= n - 1 \/ i = n
    BY <1>0
  <2> HIDE DEF Holds
  <2>6. f[n] \in Seq(B) /\ (i <= n => Holds(f[n]))
    BY <2>1, <2>2, <2>3, <2>4, <2>5
  <2> QED  BY <1>0, <2>6
<1> HIDE DEF S
<1>4. N \in S
  BY <1>0, <1>2, <1>3, UpTo
<1>5. f[N] \in Seq(B) /\ Holds(f[N])
  BY <1>0, <1>4 DEF S
<1> QED  BY <1>1, <1>5

\* Of a sequence of such blocks with one of others behind it, the former is
\* kept.
LEMMA OfTypeFirst ==
  ASSUME NEW B, NEW s \in Seq(B), NEW t \in Seq(B), NEW types,
         \A i \in 1 .. Len(s) : s[i].type \in types,
         \A i \in 1 .. Len(t) : t[i].type \notin types
  PROVE  OfType(s \o t, types) = s
<1> DEFINE blocks == s \o t
           K == Len(s)
           N == Len(blocks)
           Prefix(n) == IF n <= K THEN SubSeq(s, 1, n) ELSE s
<1>0. /\ N \in Nat /\ K \in Nat /\ K <= N /\ Len(blocks) = N
      /\ \A n \in 1 .. K : blocks[n] = s[n]
      /\ \A n \in K + 1 .. N : n - K \in 1 .. Len(t) /\ blocks[n] = t[n - K]
  OBVIOUS
<1>1. /\ \A n \in 1 .. K : blocks[n].type \in types
      /\ \A n \in K + 1 .. N : blocks[n].type \notin types
  BY <1>0
<1>2. SubSeq(s, 1, 0) = <<>> /\ SubSeq(s, 1, K) = s
  OBVIOUS
<1>3. \A n \in 1 .. K : SubSeq(s, 1, n) = Append(SubSeq(s, 1, n - 1), s[n])
  OBVIOUS
<1> HIDE DEF blocks, N, K
<1>4. PICK f : OfType(blocks, types) = f[N] /\ Takes(f, N, blocks, types)
  BY <1>0, OfTypeTakes
<1> DEFINE S == {n \in 0 .. N : f[n] = Prefix(n)}
<1>5. 0 \in S
  <2>1. f[0] = <<>>
    BY <1>4 DEF Takes
  <2>2. f[0] = Prefix(0) /\ 0 \in 0 .. N
    BY <1>0, <1>2, <2>1
  <2> HIDE DEF Prefix
  <2> QED  BY <2>2
<1>6. ASSUME NEW n \in 1 .. N, n - 1 \in S
      PROVE  n \in S
  <2>1. f[n - 1] = Prefix(n - 1)
    BY <1>6
  <2>2. CASE n <= K
    <3>1. n \in 1 .. K /\ n - 1 <= K
      BY <1>0, <2>2
    <3>2. f[n] = Append(SubSeq(s, 1, n - 1), s[n])
      BY <1>0, <1>1, <1>4, <2>1, <3>1 DEF Takes
    <3>3. f[n] = Prefix(n)
      BY <1>3, <2>2, <3>1, <3>2
    <3> QED  BY <1>0, <3>3
  <2>3. CASE n > K
    <3>1. n \in K + 1 .. N
      BY <1>0, <2>3
    <3>2. f[n] = Prefix(n - 1)
      BY <1>1, <1>4, <2>1, <3>1 DEF Takes
    <3>3. Prefix(n - 1) = s
      <4>1. n - 1 = K \/ ~(n - 1 <= K)
        BY <1>0, <3>1
      <4> QED  BY <1>2, <4>1
    <3>4. Prefix(n) = s
      BY <1>0, <2>3, <3>1
    <3> HIDE DEF Prefix
    <3> QED  BY <1>0, <3>2, <3>3, <3>4
  <2> QED  BY <1>0, <2>2, <2>3
<1> HIDE DEF S
<1>7. N \in S
  BY <1>0, <1>5, <1>6, UpTo
<1>8. Prefix(N) = s
  BY <1>0, <1>2
<1> HIDE DEF Prefix
<1>9. OfType(blocks, types) = s
  BY <1>4, <1>7, <1>8 DEF S
<1> QED  BY <1>9 DEF blocks

\* A sequence of such blocks is kept whole.
LEMMA OfTypeSame ==
  ASSUME NEW B, NEW s \in Seq(B), NEW types, \A i \in 1 .. Len(s) : s[i].type \in types
  PROVE  OfType(s, types) = s
<1>1. <<>> \in Seq(B) /\ s \o <<>> = s /\ \A i \in 1 .. Len(<<>>) : <<>>[i].type \notin types
  OBVIOUS
<1>2. OfType(s \o <<>>, types) = s
  BY <1>1, OfTypeFirst
<1> QED  BY <1>1, <1>2

\* Of a sequence of others, nothing is.
LEMMA OfTypeNone ==
  ASSUME NEW B, NEW s \in Seq(B), NEW types, \A i \in 1 .. Len(s) : s[i].type \notin types
  PROVE  OfType(s, types) = <<>>
<1>1. <<>> \in Seq(B) /\ <<>> \o s = s /\ \A i \in 1 .. Len(<<>>) : <<>>[i].type \in types
  OBVIOUS
<1>2. OfType(<<>> \o s, types) = <<>>
  BY <1>1, OfTypeFirst
<1> QED  BY <1>1, <1>2

\* The elements of a sequence.
LEMMA Elements ==
  ASSUME NEW B, NEW s \in Seq(B)
  PROVE  Len(s) \in Nat /\ DOMAIN s = 1 .. Len(s) /\ \A j \in 1 .. Len(s) : s[j] \in B
OBVIOUS

\* Every element of such a table is a block the client may have.
LEMMA ClientTable ==
  ASSUME NEW N \in Nat, NEW c, c = [j \in 1 .. N |-> c[j]],
         \A j \in 1 .. N : /\ c[j] = Block(c[j].type, c[j].id) /\ c[j].id \in Ids
                           /\ c[j].type \in {"text", "tool_use", "tool_result", "thinking"}
  PROVE  c \in Seq(ClientBlocks)
<1>1. \A j \in 1 .. N : c[j] \in ClientBlocks
  BY DEF Block, ClientBlocks
<1> QED  BY <1>1

-----------------------------------------------------------------------------
(* The parser and the stream.                                              *)

SpokenOf(types) == {b \in SpokenBlocks : b.type \in types}

\* The parser parts Bedrock's answer in its reasoning and the rest.
LEMMA Parts ==
  ASSUME NEW b \in Seq(SpokenBlocks)
  PROVE  /\ Others(b) \in Seq(SpokenOf({"text", "toolUse"}))
         /\ Reasoning(b) \in Seq(SpokenOf({"reasoningContent"}))
<1>1. Others(b) \in Seq({x \in SpokenBlocks : x.type \in BedrockTypes \ {"reasoningContent"}})
  BY OfTypeMembers DEF Others
<1>2. Reasoning(b) \in Seq({x \in SpokenBlocks : x.type \in {"reasoningContent"}})
  BY OfTypeMembers DEF Reasoning
<1>3. {x \in SpokenBlocks : x.type \in BedrockTypes \ {"reasoningContent"}}
        = SpokenOf({"text", "toolUse"})
  BY DEF SpokenOf, SpokenBlocks, BedrockTypes
<1> QED  BY <1>1, <1>2, <1>3 DEF SpokenOf

\* What the parser makes of the two.
LEMMA Parsed ==
  ASSUME NEW b \in Seq(SpokenBlocks)
  PROVE  LET c == Parse(b).content
             t == Parse(b).thinking_blocks
             others == Others(b)
             reasoning == Reasoning(b)
         IN  /\ Parse(b) \in Messages /\ Parse(b).role = "assistant"
             /\ DOMAIN c = 1 .. Len(others)
             /\ \A j \in 1 .. Len(others) :
                  /\ c[j].type = IF others[j].type = "text" THEN "text" ELSE "tool_use"
                  /\ c[j].id = others[j].id
             /\ DOMAIN t = 1 .. Len(reasoning)
             /\ \A j \in 1 .. Len(reasoning) :
                  t[j].type = "thinking" /\ t[j].id = reasoning[j].id
<1> DEFINE others == Others(b)
           reasoning == Reasoning(b)
           c == [i \in DOMAIN others |->
                   Block(IF others[i].type = "text" THEN "text" ELSE "tool_use", others[i].id)]
           t == [i \in DOMAIN reasoning |-> Block("thinking", reasoning[i].id)]
<1>1. Parse(b) = [role |-> "assistant", content |-> c, thinking_blocks |-> t]
  BY DEF Parse
<1> HIDE DEF others, reasoning, c, t
<1>0. /\ others \in Seq(SpokenOf({"text", "toolUse"}))
      /\ reasoning \in Seq(SpokenOf({"reasoningContent"}))
  BY Parts DEF others, reasoning
<1>2. /\ Len(others) \in Nat /\ DOMAIN others = 1 .. Len(others)
      /\ \A j \in 1 .. Len(others) : others[j] \in SpokenBlocks
  <2>1. \A j \in 1 .. Len(others) : others[j] \in SpokenOf({"text", "toolUse"})
    BY <1>0, Elements
  <2> QED  BY <1>0, <2>1, Elements DEF SpokenOf
<1>3. /\ Len(reasoning) \in Nat /\ DOMAIN reasoning = 1 .. Len(reasoning)
      /\ \A j \in 1 .. Len(reasoning) : reasoning[j] \in SpokenBlocks
  <2>1. \A j \in 1 .. Len(reasoning) : reasoning[j] \in SpokenOf({"reasoningContent"})
    BY <1>0, Elements
  <2> QED  BY <1>0, <2>1, Elements DEF SpokenOf
<1> USE DEF c, t
<1>4. c \in Seq(ClientBlocks)
  <2>1. /\ c = [j \in 1 .. Len(others) |-> c[j]]
        /\ \A j \in 1 .. Len(others) :
             /\ c[j] = Block(c[j].type, c[j].id) /\ c[j].id \in Ids
             /\ c[j].type \in {"text", "tool_use", "tool_result", "thinking"}
    BY <1>2 DEF Block, SpokenBlocks
  <2> HIDE DEF c
  <2> QED  BY <1>2, <2>1, ClientTable
<1>5. t \in Seq(ClientBlocks)
  <2>1. /\ t = [j \in 1 .. Len(reasoning) |-> t[j]]
        /\ \A j \in 1 .. Len(reasoning) :
             /\ t[j] = Block(t[j].type, t[j].id) /\ t[j].id \in Ids
             /\ t[j].type \in {"text", "tool_use", "tool_result", "thinking"}
    BY <1>3 DEF Block, SpokenBlocks
  <2> HIDE DEF t
  <2> QED  BY <1>3, <2>1, ClientTable
<1>6. /\ DOMAIN c = 1 .. Len(others)
      /\ \A j \in 1 .. Len(others) :
           /\ c[j].type = IF others[j].type = "text" THEN "text" ELSE "tool_use"
           /\ c[j].id = others[j].id
  BY <1>2 DEF Block
<1>7. /\ DOMAIN t = 1 .. Len(reasoning)
      /\ \A j \in 1 .. Len(reasoning) :
           t[j].type = "thinking" /\ t[j].id = reasoning[j].id
  BY <1>3 DEF Block
<1> HIDE DEF c, t
<1>8. Parse(b) \in Messages
  BY <1>1, <1>4, <1>5 DEF Messages
<1>9. Parse(b).content = c /\ Parse(b).thinking_blocks = t /\ Parse(b).role = "assistant"
  BY <1>1
<1> QED  BY <1>6, <1>7, <1>8, <1>9 DEF others, reasoning

\* What the stream announces.
LEMMA Announced ==
  ASSUME NEW b \in Seq(SpokenBlocks)
  PROVE  LET c == Streamed(b).content
         IN  /\ Streamed(b) \in Messages
             /\ Streamed(b).role = "assistant" /\ Streamed(b).thinking_blocks = <<>>
             /\ DOMAIN c = 1 .. Len(b)
             /\ \A j \in 1 .. Len(b) :
                  /\ b[j].type = "text" => c[j].type = "text"
                  /\ b[j].type = "toolUse" => c[j].type = "tool_use"
                  /\ b[j].type = "reasoningContent" => c[j].type = "thinking"
                  /\ c[j].id = b[j].id
<1> DEFINE Made(i) == Block(CASE b[i].type = "text" -> "text"
                              [] b[i].type = "toolUse" -> "tool_use"
                              [] b[i].type = "reasoningContent" -> "thinking", b[i].id)
           c == [i \in DOMAIN b |-> Made(i)]
<1>1. Streamed(b) = [role |-> "assistant", content |-> c, thinking_blocks |-> <<>>]
  BY DEF Streamed
<1>0. /\ Len(b) \in Nat /\ DOMAIN b = 1 .. Len(b) /\ \A j \in 1 .. Len(b) : b[j] \in SpokenBlocks
  BY Elements
<1>2. \A j \in 1 .. Len(b) :
        b[j].type \in {"text", "toolUse", "reasoningContent"} /\ b[j].id \in Ids
  BY <1>0 DEF SpokenBlocks, BedrockTypes
<1>3. \A j \in 1 .. Len(b) :
        /\ b[j].type = "text" => c[j].type = "text"
        /\ b[j].type = "toolUse" => c[j].type = "tool_use"
        /\ b[j].type = "reasoningContent" => c[j].type = "thinking"
        /\ c[j].id = b[j].id /\ c[j] = Block(c[j].type, c[j].id)
  BY <1>0, <1>2 DEF Block
<1> HIDE DEF Made
<1>4. DOMAIN c = 1 .. Len(b) /\ c = [j \in 1 .. Len(b) |-> c[j]]
  BY <1>0
<1> HIDE DEF c
<1>5. \A j \in 1 .. Len(b) : c[j].type \in {"text", "tool_use", "tool_result", "thinking"}
  BY <1>2, <1>3
<1>6. c \in Seq(ClientBlocks)
  BY <1>0, <1>2, <1>3, <1>4, <1>5, ClientTable
<1>7. Streamed(b) \in Messages
  BY <1>1, <1>6 DEF Messages
<1> QED  BY <1>1, <1>3, <1>4, <1>7

\* A client has an answer in one of two forms.
LEMMA AnswerForms ==
  ASSUME NEW b \in Seq(SpokenBlocks), NEW m \in Kept(b) \cup Assembled(b)
  PROVE  /\ m \in Messages /\ m.role = "assistant"
         /\ \/ /\ m.content = Parse(b).content
               /\ m.thinking_blocks \in {<<>>, Parse(b).thinking_blocks}
            \/ m = Streamed(b)
<1> DEFINE p == Parse(b)
           q == [p EXCEPT !.thinking_blocks = <<>>]
<1>1. p \in Messages /\ p.role = "assistant"
  BY Parsed
<1>2. Streamed(b) \in Messages /\ Streamed(b).role = "assistant"
  BY Announced
<1>3. m = p \/ m = q \/ m = Streamed(b)
  BY DEF Kept, Assembled
<1> HIDE DEF p
<1>4. q \in Messages /\ q.role = "assistant" /\ q.content = p.content /\ q.thinking_blocks = <<>>
  <2>1. <<>> \in Seq(ClientBlocks)
    OBVIOUS
  <2> QED  BY <1>1, <2>1 DEF Messages
<1> HIDE DEF q
<1> QED  BY <1>1, <1>2, <1>3, <1>4 DEF p

-----------------------------------------------------------------------------
(* The invariant.                                                          *)

\* What is asked of a conversation holds at its start.
LEMMA StartsInvariant == Init => IInv
<1> SUFFICES ASSUME Init PROVE IInv
  OBVIOUS
<1>1. NoRequest \in Requests
  BY DEF NoRequest, Requests
<1>2. NoPayload \in Payloads
  BY DEF NoPayload, Payloads
<1>3. TypeOK
  BY <1>1, <1>2 DEF Init, TypeOK
<1>4. Transcript /\ Translated /\ RefusedForCause
  BY DEF Init, Transcript, Translated, RefusedForCause
<1> QED  BY <1>3, <1>4 DEF IInv

\* What the client says of its own is texts and results of tools.
LEMMA UserSays ==
  ASSUME messages \in Seq(Messages)
  PROVE  /\ UserContent \in Seq(ClientBlocks)
         /\ \A j \in DOMAIN UserContent : UserContent[j].type \in {"text", "tool_result"}
<1> DEFINE n == Len(messages) + 1
           calls == IF n = 1 THEN <<>> ELSE OfType(messages[n - 1].content, {"tool_use"})
           results == [i \in DOMAIN calls |-> Block("tool_result", calls[i].id)]
           text == <<Block("text", <<n, 1>>)>>
<1>1. n \in Nat \ {0} /\ (n # 1 => n - 1 \in 1 .. Len(messages))
  OBVIOUS
<1>2. UserContent = IF calls = <<>> THEN text ELSE results
  BY DEF UserContent
<1>3. calls \in Seq(ClientBlocks)
  <2>1. CASE n = 1
    BY <2>1
  <2>2. CASE n # 1
    <3>1. messages[n - 1] \in Messages
      BY <1>1, <2>2
    <3>2. messages[n - 1].content \in Seq(ClientBlocks)
      BY <3>1 DEF Messages
    <3> DEFINE K == {b \in ClientBlocks : b.type \in {"tool_use"}}
    <3>3. OfType(messages[n - 1].content, {"tool_use"}) \in Seq(K)
      BY <3>2, OfTypeMembers
    <3>4. K \subseteq ClientBlocks
      OBVIOUS
    <3> HIDE DEF K
    <3>5. OfType(messages[n - 1].content, {"tool_use"}) \in Seq(ClientBlocks)
      BY <3>3, <3>4
    <3> QED  BY <2>2, <3>5
  <2> QED  BY <2>1, <2>2
<1>4. text \in Seq(ClientBlocks) /\ \A j \in DOMAIN text : text[j].type \in {"text", "tool_result"}
  <2>1. Block("text", <<n, 1>>) \in ClientBlocks /\ Block("text", <<n, 1>>).type = "text"
    BY <1>1 DEF Block, ClientBlocks, Ids
  <2> QED  BY <2>1
<1> HIDE DEF calls, text
<1>5. /\ Len(calls) \in Nat /\ DOMAIN calls = 1 .. Len(calls)
      /\ \A j \in 1 .. Len(calls) : calls[j] \in ClientBlocks
  BY <1>3, Elements
<1>6. /\ results = [j \in 1 .. Len(calls) |-> results[j]]
      /\ \A j \in 1 .. Len(calls) :
           /\ results[j] = Block(results[j].type, results[j].id) /\ results[j].id \in Ids
           /\ results[j].type = "tool_result"
  BY <1>5 DEF Block, ClientBlocks
<1> HIDE DEF results
<1>7. results \in Seq(ClientBlocks)
  BY <1>5, <1>6, ClientTable
<1>8. \A j \in DOMAIN results : results[j].type \in {"text", "tool_result"}
  BY <1>6
<1> QED  BY <1>2, <1>4, <1>7, <1>8

\* Only the announced reasoning of a streamed answer cannot be converted.
LEMMA Unconvertible ==
  ASSUME TypeOK, Transcript, NEW i \in DOMAIN messages, ~Convertible(messages[i])
  PROVE  messages[i] = Streamed(spoken[i]) /\ Has(spoken[i], "reasoningContent")
<1> DEFINE m == messages[i]
           b == spoken[i]
<1>1. /\ m \in Messages /\ b \in Seq(SpokenBlocks)
      /\ \/ m.role = "user" /\ \A j \in DOMAIN m.content : m.content[j].type \in {"text", "tool_result"}
         \/ m \in Kept(b) \cup Assembled(b)
  <2>1. messages \in Seq(Messages) /\ spoken \in Seq(Seq(SpokenBlocks)) /\ Len(spoken) = Len(messages)
    BY DEF TypeOK
  <2>2. m \in Messages /\ b \in Seq(SpokenBlocks)
    BY <2>1, Elements
  <2> QED  BY <2>2 DEF Transcript
<1>2. ~Convertible(m)
  OBVIOUS
<1> HIDE DEF m, b
<1>3. ~(m.role = "user" /\ \A j \in DOMAIN m.content : m.content[j].type \in {"text", "tool_result"})
  BY <1>2 DEF Convertible
<1>4. m.role = "assistant" /\ (m.content = Parse(b).content \/ m = Streamed(b))
  BY <1>1, <1>3, AnswerForms
<1>5. m.content # Parse(b).content
  <2>1. \A j \in DOMAIN Parse(b).content : Parse(b).content[j].type \in {"text", "tool_use"}
    BY <1>1, Parsed
  <2> QED  BY <1>2, <1>4, <2>1 DEF Convertible
<1>6. m = Streamed(b)
  BY <1>4, <1>5
<1>7. PICK j \in DOMAIN m.content : m.content[j].type # "text" /\ m.content[j].type # "tool_use"
  BY <1>2, <1>4 DEF Convertible
<1>8. j \in DOMAIN b /\ b[j] \in SpokenBlocks
  BY <1>1, <1>6, <1>7, Announced, Elements
<1>9. b[j].type = "reasoningContent"
  <2>1. b[j].type \in {"text", "toolUse", "reasoningContent"}
    BY <1>8 DEF SpokenBlocks, BedrockTypes
  <2>2. b[j].type # "text" /\ b[j].type # "toolUse"
    BY <1>1, <1>6, <1>7, <1>8, Announced, Elements
  <2> QED  BY <2>1, <2>2
<1>10. m = Streamed(b) /\ Has(b, "reasoningContent")
  BY <1>6, <1>8, <1>9 DEF Has
<1> QED  BY <1>10 DEF m, b

-----------------------------------------------------------------------------
(* Every step keeps it.                                                    *)

PayloadBlocks == [type : BedrockTypes, id : Ids]

\* The thinking blocks of a message become reasoning of Bedrock's.
LEMMA Thoughts ==
  ASSUME NEW t \in Seq(ClientBlocks)
  PROVE  NormalizeThinkingBlocks(t) \in Seq(SpokenOf({"reasoningContent"}))
<1> DEFINE K == {b \in ClientBlocks : b.type \in {"thinking"}}
           thoughts == OfType(t, {"thinking"})
           c == [i \in DOMAIN thoughts |-> Block("reasoningContent", thoughts[i].id)]
<1>1. thoughts \in Seq(K) /\ NormalizeThinkingBlocks(t) = c
  BY OfTypeMembers DEF NormalizeThinkingBlocks
<1> HIDE DEF K, thoughts
<1>2. /\ Len(thoughts) \in Nat /\ DOMAIN thoughts = 1 .. Len(thoughts)
      /\ \A j \in 1 .. Len(thoughts) : thoughts[j] \in K
  BY <1>1, Elements
<1>3. \A j \in 1 .. Len(thoughts) : thoughts[j].id \in Ids
  BY <1>2 DEF K, ClientBlocks
<1>4. \A j \in 1 .. Len(thoughts) : c[j] \in SpokenOf({"reasoningContent"})
  BY <1>2, <1>3 DEF SpokenOf, SpokenBlocks, BedrockTypes, Block
<1>5. c = [j \in 1 .. Len(thoughts) |-> c[j]]
  BY <1>2
<1> HIDE DEF c
<1>6. c \in Seq(SpokenOf({"reasoningContent"}))
  BY <1>2, <1>4, <1>5
<1> QED  BY <1>1, <1>6

\* What can be converted has the types of Bedrock.
LEMMA Converted ==
  ASSUME NEW m \in Messages, Convertible(m), NEW e \in BOOLEAN
  PROVE  NormalizeMessage(m, e)
           \in [role : {"user", "assistant"}, content : Seq(PayloadBlocks)]
<1> DEFINE c == m.content
           d == [i \in DOMAIN c |-> NormalizeBlock(c[i])]
           r == IF m.role = "assistant" /\ e
                THEN NormalizeThinkingBlocks(m.thinking_blocks) ELSE <<>>
<1>1. /\ c \in Seq(ClientBlocks) /\ m.thinking_blocks \in Seq(ClientBlocks)
      /\ m.role \in {"user", "assistant"}
  BY DEF Messages
<1>2. NormalizeMessage(m, e) = [role |-> m.role, content |-> r \o d]
  BY DEF NormalizeMessage
<1>3. r \in Seq(PayloadBlocks)
  <2>1. NormalizeThinkingBlocks(m.thinking_blocks) \in Seq(SpokenOf({"reasoningContent"}))
    BY <1>1, Thoughts
  <2>2. SpokenOf({"reasoningContent"}) \subseteq PayloadBlocks
    BY DEF SpokenOf, SpokenBlocks, PayloadBlocks
  <2>3. NormalizeThinkingBlocks(m.thinking_blocks) \in Seq(PayloadBlocks)
    BY <2>1, <2>2
  <2> QED  BY <2>3
<1>4. d \in Seq(PayloadBlocks)
  <2>1. /\ Len(c) \in Nat /\ DOMAIN c = 1 .. Len(c)
        /\ \A j \in 1 .. Len(c) : c[j] \in ClientBlocks
    BY <1>1, Elements
  <2>2. \A j \in 1 .. Len(c) : c[j].type \in {"text", "tool_use", "tool_result"} /\ c[j].id \in Ids
    BY <2>1 DEF Convertible, ClientBlocks
  <2> HIDE DEF c
  <2>3. \A j \in 1 .. Len(c) : NormalizeBlock(c[j]) \in PayloadBlocks
    BY <2>2 DEF NormalizeBlock, Block, PayloadBlocks, BedrockTypes
  <2> QED  BY <2>1, <2>3
<1> HIDE DEF r, d
<1>5. r \o d \in Seq(PayloadBlocks)
  BY <1>3, <1>4
<1> QED  BY <1>1, <1>2, <1>5

\* The builder makes a payload of a transcript it can convert.
LEMMA Built ==
  ASSUME NEW q \in Requests, NEW ms \in Seq(Messages),
         \A i \in DOMAIN ms : Convertible(ms[i])
  PROVE  ConverseRequest(q, ms) \in Payloads
<1> DEFINE e == ReasoningEnabled(q, ms)
           T == [role : {"user", "assistant"}, content : Seq(PayloadBlocks)]
           n == [i \in DOMAIN ms |-> NormalizeMessage(ms[i], e)]
<1>1. /\ q.thinking \in BOOLEAN /\ q.serial \in BOOLEAN /\ q.stream \in BOOLEAN
      /\ q.tool_choice \in {"absent", "none", "auto", "any", "tool"}
      /\ q.response_format \in {"absent", "schema", "object"}
  BY DEF Requests
<1>2. e \in BOOLEAN
  BY DEF ReasoningEnabled, ReasoningRequested, HasReasoningContinuity
<1> HIDE DEF e
<1>3. Len(ms) \in Nat /\ DOMAIN ms = 1 .. Len(ms) /\ \A i \in 1 .. Len(ms) : ms[i] \in Messages
  BY Elements
<1>4. \A i \in 1 .. Len(ms) : NormalizeMessage(ms[i], e) \in T
  BY <1>2, <1>3, Converted
<1> HIDE DEF T
<1>5. n \in Seq(T)
  BY <1>3, <1>4
<1>6. MapToolChoice(q.tool_choice, e) \in {"absent", "auto", "any", "tool"}
  BY <1>1 DEF MapToolChoice
<1> DEFINE o == q.response_format = "schema"
           p == q.serial /\ "disable_parallel" \in q.supports
           w == IF q.stream THEN "converse_stream" ELSE "converse"
<1>7. o \in BOOLEAN /\ p \in BOOLEAN /\ w \in {"converse", "converse_stream"}
  OBVIOUS
<1>8. ConverseRequest(q, ms)
        = [messages |-> n, thinking |-> e, serial |-> p,
           toolChoice |-> MapToolChoice(q.tool_choice, e), outputConfig |-> o, operation |-> w]
  BY DEF ConverseRequest, e
<1> HIDE DEF n, o, p, w
<1> QED  BY <1>2, <1>5, <1>6, <1>7, <1>8 DEF Payloads, T, PayloadBlocks

\* What may stand at a place of the transcript, given the answer there.
Place(m, b) ==
  \/ /\ m.role = "user" /\ m.thinking_blocks = <<>>
     /\ \A j \in DOMAIN m.content : m.content[j].type \in {"text", "tool_result"}
  \/ m \in Kept(b) \cup Assembled(b)

\* The transcript grows by one message at a time.
LEMMA Grows ==
  ASSUME TypeOK, Transcript, NEW m \in Messages, NEW b \in Seq(SpokenBlocks), Place(m, b),
         messages' = Append(messages, m), spoken' = Append(spoken, b)
  PROVE  /\ messages' \in Seq(Messages) /\ spoken' \in Seq(Seq(SpokenBlocks))
         /\ Len(spoken') = Len(messages') /\ Transcript'
<1>1. messages \in Seq(Messages) /\ spoken \in Seq(Seq(SpokenBlocks)) /\ Len(spoken) = Len(messages)
  BY DEF TypeOK
<1>2. /\ messages' \in Seq(Messages) /\ spoken' \in Seq(Seq(SpokenBlocks))
      /\ Len(spoken') = Len(messages')
  BY <1>1
<1>3. \A i \in DOMAIN messages : Place(messages[i], spoken[i])
  BY DEF Transcript, Place
<1>4. \A i \in DOMAIN messages' : Place(messages'[i], spoken'[i])
  <2> TAKE i \in DOMAIN messages'
  <2>1. CASE i \in DOMAIN messages
    <3>1. messages'[i] = messages[i] /\ spoken'[i] = spoken[i]
      BY <1>1, <2>1
    <3> QED  BY <1>3, <2>1, <3>1
  <2>2. CASE i \notin DOMAIN messages
    <3>1. messages'[i] = m /\ spoken'[i] = b
      BY <1>1, <2>2
    <3> QED  BY <3>1
  <2> QED  BY <2>1, <2>2
<1>5. Transcript'
  BY <1>4 DEF Transcript, Place
<1> QED  BY <1>2, <1>5

LEMMA AskKeeps ==
  ASSUME IInv, NEW q \in Requests, Ask(q)
  PROVE  IInv'
<1>1. TypeOK /\ Transcript /\ Translated
  BY DEF IInv
<1>2. /\ stage \in {"idle", "refused"} /\ stage' = "asked" /\ request' = q /\ payload' = payload
  BY DEF Ask
<1>3. payload = NoPayload
  BY <1>1, <1>2 DEF Translated
<1>4. Translated' /\ RefusedForCause'
  BY <1>2, <1>3 DEF Translated, RefusedForCause
<1>5. /\ messages' \in Seq(Messages) /\ spoken' \in Seq(Seq(SpokenBlocks))
      /\ Len(spoken') = Len(messages') /\ Transcript'
  <2>1. CASE UNCHANGED <<messages, spoken>>
    BY <1>1, <2>1 DEF TypeOK, Transcript
  <2>2. CASE ~UNCHANGED <<messages, spoken>>
    <3> DEFINE m == [role |-> "user", content |-> UserContent, thinking_blocks |-> <<>>]
    <3>1. messages' = Append(messages, m) /\ spoken' = Append(spoken, <<>>)
      BY <2>2 DEF Ask
    <3>2. messages \in Seq(Messages)
      BY <1>1 DEF TypeOK
    <3>3. m \in Messages /\ Place(m, <<>>)
      BY <3>2, UserSays DEF Messages, Place
    <3>4. <<>> \in Seq(SpokenBlocks)
      OBVIOUS
    <3> HIDE DEF m
    <3> QED  BY <1>1, <3>1, <3>3, <3>4, Grows
  <2> QED  BY <2>1, <2>2
<1>6. TypeOK'
  BY <1>1, <1>2, <1>5 DEF TypeOK
<1> QED  BY <1>4, <1>5, <1>6 DEF IInv

LEMMA BuildKeeps ==
  ASSUME IInv, Build
  PROVE  IInv'
<1> DEFINE C == \A i \in DOMAIN messages : Convertible(messages[i])
<1>1. TypeOK /\ Transcript /\ Translated
  BY DEF IInv
<1>2. stage = "asked" /\ UNCHANGED <<messages, request, spoken>>
  BY DEF Build
<1>3. messages \in Seq(Messages) /\ request \in Requests /\ payload \in Payloads
  BY <1>1 DEF TypeOK
<1>4. payload = NoPayload
  BY <1>1, <1>2 DEF Translated
<1>5. Transcript'
  BY <1>1, <1>2 DEF Transcript
<1>6. CASE OutputSupported(request) /\ C
  <2>1. stage' = "sent" /\ payload' = ConverseRequest(request, messages)
    BY <1>6 DEF Build
  <2>2. ConverseRequest(request, messages) \in Payloads
    BY <1>3, <1>6, Built
  <2>3. TypeOK'
    BY <1>1, <1>2, <2>1, <2>2 DEF TypeOK
  <2>4. Translated' /\ RefusedForCause'
    BY <1>2, <1>6, <2>1 DEF Translated, RefusedForCause
  <2> QED  BY <1>5, <2>3, <2>4 DEF IInv
<1>7. CASE ~(OutputSupported(request) /\ C)
  <2>1. stage' = "refused" /\ payload' = payload
    BY <1>7 DEF Build
  <2>2. TypeOK' /\ Translated'
    BY <1>1, <1>2, <1>4, <2>1 DEF TypeOK, Translated
  <2>3. ~OutputSupported(request) \/ \E i \in DOMAIN messages :
          messages[i] = Streamed(spoken[i]) /\ Has(spoken[i], "reasoningContent")
    BY <1>1, <1>7, Unconvertible
  <2>4. RefusedForCause'
    BY <1>2, <2>3 DEF RefusedForCause
  <2> QED  BY <1>5, <2>2, <2>4 DEF IInv
<1> QED  BY <1>6, <1>7

LEMMA AnswerKeeps ==
  ASSUME IInv, NEW shape \in Shapes, Answer(shape)
  PROVE  IInv'
<1> DEFINE n == Len(messages) + 1
           b == [i \in DOMAIN shape |-> Block(shape[i], <<n, i>>)]
<1>1. TypeOK /\ Transcript
  BY DEF IInv
<1>2. /\ stage' = "idle" /\ request' = NoRequest /\ payload' = NoPayload
      /\ spoken' = Append(spoken, b)
      /\ \E m \in Kept(b) \cup Assembled(b) : messages' = Append(messages, m)
  BY DEF Answer
<1>3. Translated' /\ RefusedForCause'
  BY <1>2 DEF Translated, RefusedForCause
<1>4. b \in Seq(SpokenBlocks)
  <2>1. shape \in Seq(BedrockTypes \ {"toolResult"})
    BY ShapeAssumption
  <2>2. /\ Len(shape) \in Nat /\ DOMAIN shape = 1 .. Len(shape)
        /\ \A i \in 1 .. Len(shape) : shape[i] \in BedrockTypes \ {"toolResult"}
    BY <2>1, Elements
  <2>3. n \in Nat
    BY <1>1 DEF TypeOK
  <2> HIDE DEF n
  <2>4. \A i \in 1 .. Len(shape) : Block(shape[i], <<n, i>>) \in SpokenBlocks
    BY <2>2, <2>3 DEF Block, SpokenBlocks, Ids
  <2> QED  BY <2>2, <2>4
<1> HIDE DEF b
<1>5. PICK m \in Kept(b) \cup Assembled(b) : messages' = Append(messages, m)
  BY <1>2
<1>6. m \in Messages /\ Place(m, b)
  BY <1>4, AnswerForms DEF Place
<1>7. /\ messages' \in Seq(Messages) /\ spoken' \in Seq(Seq(SpokenBlocks))
      /\ Len(spoken') = Len(messages') /\ Transcript'
  BY <1>1, <1>2, <1>4, <1>5, <1>6, Grows
<1>8. NoRequest \in Requests /\ NoPayload \in Payloads
  BY DEF NoRequest, Requests, NoPayload, Payloads
<1>9. TypeOK'
  BY <1>2, <1>7, <1>8 DEF TypeOK
<1> QED  BY <1>3, <1>7, <1>9 DEF IInv

LEMMA FailKeeps ==
  ASSUME IInv, Fail
  PROVE  IInv'
<1>1. NoRequest \in Requests /\ NoPayload \in Payloads
  BY DEF NoRequest, Requests, NoPayload, Payloads
<1>2. TypeOK'
  BY <1>1 DEF IInv, TypeOK, Fail
<1>3. Transcript'
  BY DEF IInv, Transcript, Fail
<1>4. Translated' /\ RefusedForCause'
  BY DEF Translated, RefusedForCause, Fail
<1> QED  BY <1>2, <1>3, <1>4 DEF IInv

LEMMA StepsKeep == IInv /\ [Next]_vars => IInv'
<1> SUFFICES ASSUME IInv, [Next]_vars PROVE IInv'
  OBVIOUS
<1>1. ASSUME NEW q \in Requests, Ask(q) PROVE IInv'
  BY <1>1, AskKeeps
<1>2. CASE Build
  BY <1>2, BuildKeeps
<1>3. ASSUME NEW shape \in Shapes, Answer(shape) PROVE IInv'
  BY <1>3, AnswerKeeps
<1>4. CASE Fail
  BY <1>4, FailKeeps
<1>5. CASE UNCHANGED vars
  BY <1>5 DEF vars, IInv, TypeOK, Transcript, Translated, RefusedForCause
<1> QED  BY <1>1, <1>2, <1>3, <1>4, <1>5 DEF Next, Askable

-----------------------------------------------------------------------------
(* What the invariant says of an answer that is with Bedrock.              *)

\* There and back: the names the parser or the stream gave to Bedrock's texts
\* and tool uses are turned again into Bedrock's.
LEMMA ContentBack ==
  ASSUME NEW b \in Seq(SpokenBlocks), NEW m \in Kept(b) \cup Assembled(b), Convertible(m)
  PROVE  [j \in DOMAIN m.content |-> NormalizeBlock(m.content[j])] = Others(b)
<1> DEFINE c == m.content
           d == [j \in DOMAIN c |-> NormalizeBlock(c[j])]
<1>1. \A x \in SpokenBlocks : x = Block(x.type, x.id)
  BY DEF SpokenBlocks, Block
<1>2. CASE c = Parse(b).content
  <2> DEFINE others == Others(b)
  <2>1. others \in Seq(SpokenOf({"text", "toolUse"}))
    BY Parts
  <2>2. /\ DOMAIN c = 1 .. Len(others)
        /\ \A j \in 1 .. Len(others) :
             /\ c[j].type = IF others[j].type = "text" THEN "text" ELSE "tool_use"
             /\ c[j].id = others[j].id
    BY <1>2, Parsed
  <2> HIDE DEF others, c
  <2>3. /\ Len(others) \in Nat /\ DOMAIN others = 1 .. Len(others)
        /\ \A j \in 1 .. Len(others) : others[j] \in SpokenOf({"text", "toolUse"})
    BY <2>1, Elements
  <2>4. ASSUME NEW j \in 1 .. Len(others)
        PROVE  NormalizeBlock(c[j]) = others[j]
    <3>1. others[j] = Block(others[j].type, others[j].id) /\ others[j].type \in {"text", "toolUse"}
      BY <1>1, <2>3 DEF SpokenOf
    <3>2. NormalizeBlock(c[j]) = Block(others[j].type, others[j].id)
      <4>1. CASE others[j].type = "text"
        BY <2>2, <4>1 DEF NormalizeBlock
      <4>2. CASE others[j].type = "toolUse"
        BY <2>2, <4>2 DEF NormalizeBlock
      <4> QED  BY <3>1, <4>1, <4>2
    <3> QED  BY <3>1, <3>2
  <2>5. others = [j \in 1 .. Len(others) |-> others[j]]
    BY <2>1, <2>3
  <2>6. d = others
    BY <2>2, <2>4, <2>5
  <2> QED  BY <2>6 DEF others, c
<1>3. CASE m = Streamed(b)
  <2>1. /\ DOMAIN c = 1 .. Len(b)
        /\ \A j \in 1 .. Len(b) :
             /\ b[j].type = "text" => c[j].type = "text"
             /\ b[j].type = "toolUse" => c[j].type = "tool_use"
             /\ b[j].type = "reasoningContent" => c[j].type = "thinking"
             /\ c[j].id = b[j].id
    BY <1>3, Announced
  <2>2. /\ Len(b) \in Nat /\ DOMAIN b = 1 .. Len(b)
        /\ \A j \in 1 .. Len(b) : b[j] \in SpokenBlocks
    BY Elements
  <2>3. \A j \in 1 .. Len(b) : b[j].type \in {"text", "toolUse"}
    <3>1. \A j \in 1 .. Len(b) : c[j].type # "thinking"
      BY <2>1 DEF Convertible
    <3> HIDE DEF c
    <3>2. \A j \in 1 .. Len(b) : b[j].type \in {"text", "toolUse", "reasoningContent"}
      BY <2>2 DEF SpokenBlocks, BedrockTypes
    <3> QED  BY <2>1, <3>1, <3>2
  <2> HIDE DEF c
  <2>4. ASSUME NEW j \in 1 .. Len(b)
        PROVE  NormalizeBlock(c[j]) = b[j]
    <3>1. b[j] = Block(b[j].type, b[j].id) /\ b[j].type \in {"text", "toolUse"}
      BY <1>1, <2>2, <2>3
    <3>2. NormalizeBlock(c[j]) = Block(b[j].type, b[j].id)
      <4>1. CASE b[j].type = "text"
        BY <2>1, <4>1 DEF NormalizeBlock
      <4>2. CASE b[j].type = "toolUse"
        BY <2>1, <4>2 DEF NormalizeBlock
      <4> QED  BY <3>1, <4>1, <4>2
    <3> QED  BY <3>1, <3>2
  <2>5. b = [j \in 1 .. Len(b) |-> b[j]]
    BY <2>2
  <2>6. d = b
    BY <2>1, <2>4, <2>5
  <2>7. Others(b) = b
    <3>1. \A j \in 1 .. Len(b) : b[j].type \in BedrockTypes \ {"reasoningContent"}
      BY <2>3 DEF BedrockTypes
    <3> QED  BY <3>1, OfTypeSame DEF Others
  <2> QED  BY <2>6, <2>7 DEF c
<1> QED  BY <1>2, <1>3, AnswerForms

\* The thinking blocks apart are Bedrock's reasoning again.
LEMMA ReasoningBack ==
  ASSUME NEW b \in Seq(SpokenBlocks)
  PROVE  /\ NormalizeThinkingBlocks(Parse(b).thinking_blocks) = Reasoning(b)
         /\ NormalizeThinkingBlocks(<<>>) = <<>>
<1> DEFINE t == Parse(b).thinking_blocks
           reasoning == Reasoning(b)
<1>1. /\ t \in Seq(ClientBlocks)
      /\ DOMAIN t = 1 .. Len(reasoning)
      /\ \A j \in 1 .. Len(reasoning) : t[j].type = "thinking" /\ t[j].id = reasoning[j].id
  BY Parsed DEF Messages
<1>2. reasoning \in Seq(SpokenOf({"reasoningContent"}))
  BY Parts
<1> HIDE DEF t, reasoning
<1>3. /\ Len(reasoning) \in Nat
      /\ \A j \in 1 .. Len(reasoning) : reasoning[j] \in SpokenOf({"reasoningContent"})
  BY <1>2, Elements
<1>4. DOMAIN t = 1 .. Len(t)
  BY <1>1, Elements
<1>5. OfType(t, {"thinking"}) = t
  BY <1>1, <1>4, OfTypeSame
<1>6. \A j \in 1 .. Len(reasoning) : Block("reasoningContent", t[j].id) = reasoning[j]
  BY <1>1, <1>3 DEF SpokenOf, SpokenBlocks, Block
<1>7. reasoning = [j \in 1 .. Len(reasoning) |-> reasoning[j]]
  BY <1>2
<1>8. NormalizeThinkingBlocks(t) = reasoning
  BY <1>1, <1>5, <1>6, <1>7 DEF NormalizeThinkingBlocks
<1>9. NormalizeThinkingBlocks(<<>>) = <<>>
  <2>1. OfType(<<>>, {"thinking"}) = <<>>
    <3>1. <<>> \in Seq({}) /\ \A i \in 1 .. Len(<<>>) : <<>>[i].type \in {"thinking"}
      OBVIOUS
    <3> QED  BY <3>1, OfTypeSame
  <2> QED  BY <2>1 DEF NormalizeThinkingBlocks
<1> QED  BY <1>8, <1>9 DEF t, reasoning

\* An answer has a tool use for the client when Bedrock gave one.
LEMMA SameCalls ==
  ASSUME NEW b \in Seq(SpokenBlocks), NEW m \in Kept(b) \cup Assembled(b)
  PROVE  Has(m.content, "tool_use") <=> Has(b, "toolUse")
<1> DEFINE c == m.content
<1>0. /\ Len(b) \in Nat /\ DOMAIN b = 1 .. Len(b)
      /\ \A j \in 1 .. Len(b) : b[j] \in SpokenBlocks
  BY Elements
<1>1. CASE c = Parse(b).content
  <2> DEFINE others == Others(b)
             W == {b[j] : j \in 1 .. Len(b)}
  <2>1. /\ DOMAIN c = 1 .. Len(others)
        /\ \A j \in 1 .. Len(others) :
             c[j].type = IF others[j].type = "text" THEN "text" ELSE "tool_use"
    BY <1>1, Parsed
  <2>2. others \in Seq(SpokenOf({"text", "toolUse"}))
    BY Parts
  <2>3. b \in Seq(W)
    BY <1>0
  <2>4. others \in Seq({x \in W : x.type \in BedrockTypes \ {"reasoningContent"}})
    <3> HIDE DEF W
    <3> QED  BY <2>3, OfTypeMembers DEF Others
  <2>5. \A j \in 1 .. Len(b) : b[j].type = "toolUse" =>
          \E k \in DOMAIN others : others[k] = b[j]
    <3> SUFFICES ASSUME NEW j \in 1 .. Len(b), b[j].type = "toolUse"
                 PROVE  \E k \in DOMAIN others : others[k] = b[j]
      OBVIOUS
    <3>1. b[j].type \in BedrockTypes \ {"reasoningContent"}
      BY DEF BedrockTypes
    <3> QED  BY <3>1, OfTypeAll DEF Others
  <2> HIDE DEF others, c
  <2>6. DOMAIN others = 1 .. Len(others) /\ \A j \in 1 .. Len(others) : others[j].type \in {"text", "toolUse"}
    BY <2>2, Elements DEF SpokenOf
  <2>7. \A j \in 1 .. Len(others) : \E k \in 1 .. Len(b) : others[j] = b[k]
    BY <2>4
  <2>8. Has(b, "toolUse") => Has(c, "tool_use")
    BY <1>0, <2>1, <2>5, <2>6 DEF Has
  <2>9. Has(c, "tool_use") => Has(b, "toolUse")
    <3> SUFFICES ASSUME NEW j \in 1 .. Len(others), c[j].type = "tool_use"
                 PROVE  Has(b, "toolUse")
      BY <2>1 DEF Has
    <3>1. others[j].type = "toolUse"
      BY <2>1, <2>6
    <3>2. PICK k \in 1 .. Len(b) : others[j] = b[k]
      BY <2>7
    <3> QED  BY <1>0, <3>1, <3>2 DEF Has
  <2> QED  BY <2>8, <2>9 DEF c
<1>2. CASE m = Streamed(b)
  <2>1. /\ DOMAIN c = 1 .. Len(b)
        /\ \A j \in 1 .. Len(b) :
             /\ b[j].type = "text" => c[j].type = "text"
             /\ b[j].type = "toolUse" => c[j].type = "tool_use"
             /\ b[j].type = "reasoningContent" => c[j].type = "thinking"
    BY <1>2, Announced
  <2> HIDE DEF c
  <2>2. \A j \in 1 .. Len(b) : b[j].type \in {"text", "toolUse", "reasoningContent"}
    BY <1>0 DEF SpokenBlocks, BedrockTypes
  <2>3. \A j \in 1 .. Len(b) : c[j].type = "tool_use" <=> b[j].type = "toolUse"
    BY <2>1, <2>2
  <2>4. Has(c, "tool_use") <=> Has(b, "toolUse")
    BY <1>0, <2>1, <2>3 DEF Has
  <2> QED  BY <2>4 DEF c
<1> QED  BY <1>1, <1>2, AnswerForms

\* Reasoning in front of the rest is what the parser would find there.
LEMMA ReasoningInFront ==
  ASSUME NEW b \in Seq(SpokenBlocks), NEW r \in Seq(SpokenOf({"reasoningContent"}))
  PROVE  Reasoning(r \o Others(b)) = r
<1> DEFINE o == Others(b)
<1>1. o \in Seq(SpokenOf({"text", "toolUse"}))
  BY Parts
<1> HIDE DEF o
<1>2. /\ Len(r) \in Nat /\ \A j \in 1 .. Len(r) : r[j] \in SpokenOf({"reasoningContent"})
      /\ Len(o) \in Nat /\ \A j \in 1 .. Len(o) : o[j] \in SpokenOf({"text", "toolUse"})
  BY <1>1, Elements
<1>3. /\ \A j \in 1 .. Len(r) : r[j].type \in {"reasoningContent"}
      /\ \A j \in 1 .. Len(o) : o[j].type \notin {"reasoningContent"}
  BY <1>2 DEF SpokenOf
<1>4. r \in Seq(SpokenBlocks) /\ o \in Seq(SpokenBlocks)
  <2>1. \A types : SpokenOf(types) \subseteq SpokenBlocks
    BY DEF SpokenOf
  <2> QED  BY <1>1, <2>1
<1>5. OfType(r \o o, {"reasoningContent"}) = r
  BY <1>3, <1>4, OfTypeFirst
<1> QED  BY <1>5 DEF Reasoning, o

\* Before a request is built and after it is answered, none is with Bedrock.
LEMMA NothingSent ==
  ASSUME IInv, stage # "sent"
  PROVE  Answers = {}
<1>1. payload.messages = <<>>
  BY DEF IInv, Translated, NoPayload
<1> QED  BY <1>1 DEF Answers

\* An answer in the payload, and the one of Bedrock's it stands for.
LEMMA AnswerSent ==
  ASSUME IInv, NEW i \in Answers
  PROVE  LET m == messages[i]
             b == spoken[i]
             e == ReasoningEnabled(request, messages)
             r == IF e THEN NormalizeThinkingBlocks(m.thinking_blocks) ELSE <<>>
         IN  /\ stage = "sent" /\ i \in DOMAIN messages /\ b \in Seq(SpokenBlocks)
             /\ m \in Kept(b) \cup Assembled(b) /\ m.role = "assistant"
             /\ r \in Seq(SpokenOf({"reasoningContent"}))
             /\ payload.messages[i].content = r \o Others(b)
<1> DEFINE m == messages[i]
           b == spoken[i]
           e == ReasoningEnabled(request, messages)
           r == IF e THEN NormalizeThinkingBlocks(m.thinking_blocks) ELSE <<>>
<1>1. stage = "sent"
  BY NothingSent
<1>2. /\ payload = ConverseRequest(request, messages)
      /\ \A j \in DOMAIN messages : Convertible(messages[j])
  BY <1>1 DEF IInv, Translated
<1> DEFINE n == [j \in DOMAIN messages |-> NormalizeMessage(messages[j], e)]
<1>3. payload.messages = n
  BY <1>2 DEF ConverseRequest
<1> HIDE DEF e
<1>4. i \in DOMAIN messages /\ payload.messages[i] = NormalizeMessage(m, e)
  BY <1>3 DEF Answers
<1>5. m.role = "assistant"
  BY <1>4 DEF Answers, NormalizeMessage
<1>6. m \in Messages /\ b \in Seq(SpokenBlocks)
  <2>1. messages \in Seq(Messages) /\ spoken \in Seq(Seq(SpokenBlocks)) /\ Len(spoken) = Len(messages)
    BY DEF IInv, TypeOK
  <2> QED  BY <1>4, <2>1, Elements
<1>7. m \in Kept(b) \cup Assembled(b)
  BY <1>4, <1>5 DEF IInv, Transcript
<1>8. Convertible(m)
  BY <1>2, <1>4
<1>9. r \in Seq(SpokenOf({"reasoningContent"}))
  <2>1. m.thinking_blocks \in Seq(ClientBlocks)
    BY <1>6 DEF Messages
  <2> QED  BY <2>1, Thoughts
<1> HIDE DEF m, b
<1>10. [j \in DOMAIN m.content |-> NormalizeBlock(m.content[j])] = Others(b)
  BY <1>6, <1>7, <1>8, ContentBack
<1>11. payload.messages[i].content = r \o Others(b)
  <2>1. CASE e
    BY <1>4, <1>5, <1>10, <2>1 DEF NormalizeMessage
  <2>2. CASE ~e
    BY <1>4, <1>5, <1>10, <2>2 DEF NormalizeMessage
  <2> QED  BY <2>1, <2>2
<1> QED  BY <1>1, <1>4, <1>5, <1>6, <1>7, <1>9, <1>11 DEF m, b, e

LEMMA InvariantAnswersReplayed == IInv => AnswersReplayed
<1> SUFFICES ASSUME IInv, NEW i \in Answers
             PROVE  payload.messages[i].content
                      = Reasoning(payload.messages[i].content) \o Others(spoken[i])
  BY DEF AnswersReplayed
<1>1. PICK r \in Seq(SpokenOf({"reasoningContent"})) :
        spoken[i] \in Seq(SpokenBlocks) /\ payload.messages[i].content = r \o Others(spoken[i])
  BY AnswerSent
<1>2. Reasoning(r \o Others(spoken[i])) = r
  BY <1>1, ReasoningInFront
<1> QED  BY <1>1, <1>2

LEMMA InvariantReasoningReplayed == IInv => ReasoningReplayed
<1> SUFFICES ASSUME IInv, NEW i \in Answers
             PROVE  LET replayed == Reasoning(payload.messages[i].content)
                    IN  IF payload.thinking
                        THEN /\ replayed \in {<<>>, Reasoning(spoken[i])}
                             /\ Has(spoken[i], "toolUse") => replayed # <<>>
                        ELSE replayed = <<>>
  BY DEF ReasoningReplayed
<1> DEFINE m == messages[i]
           b == spoken[i]
           e == ReasoningEnabled(request, messages)
           r == IF e THEN NormalizeThinkingBlocks(m.thinking_blocks) ELSE <<>>
           replayed == Reasoning(payload.messages[i].content)
<1>1. /\ stage = "sent" /\ i \in DOMAIN messages /\ b \in Seq(SpokenBlocks)
      /\ m \in Kept(b) \cup Assembled(b) /\ m.role = "assistant"
      /\ r \in Seq(SpokenOf({"reasoningContent"}))
      /\ payload.messages[i].content = r \o Others(b)
  BY AnswerSent
<1>2. payload.thinking = e
  BY <1>1 DEF IInv, Translated, ConverseRequest
<1> HIDE DEF e, r
<1>3. replayed = r
  BY <1>1, ReasoningInFront
<1>4. m.thinking_blocks = <<>> \/ m.thinking_blocks = Parse(b).thinking_blocks
  BY <1>1, AnswerForms, Announced
<1>5. CASE ~e
  BY <1>2, <1>3, <1>5 DEF r
<1>6. CASE e
  <2>1. r = NormalizeThinkingBlocks(m.thinking_blocks)
    BY <1>6 DEF r
  <2>2. r \in {<<>>, Reasoning(b)}
    BY <1>1, <1>4, <2>1, ReasoningBack
  <2>3. ASSUME Has(b, "toolUse")
        PROVE  r # <<>>
    <3>1. Has(m.content, "tool_use")
      BY <1>1, <2>3, SameCalls
    <3>2. m.thinking_blocks # <<>>
      BY <1>1, <1>6, <3>1 DEF e, ReasoningEnabled, HasReasoningContinuity
    <3>3. r = Reasoning(b) /\ DOMAIN Parse(b).thinking_blocks = 1 .. Len(Reasoning(b))
      BY <1>1, <1>4, <2>1, <3>2, ReasoningBack, Parsed
    <3>4. Parse(b).thinking_blocks # <<>> /\ Parse(b) \in Messages
      BY <1>1, <1>4, <3>2, Parsed
    <3>5. Parse(b).thinking_blocks \in Seq(ClientBlocks)
      BY <3>4 DEF Messages
    <3>6. Len(Reasoning(b)) # 0
      BY <3>3, <3>4, <3>5
    <3> QED  BY <3>3, <3>6
  <2> QED  BY <1>2, <1>3, <1>6, <2>2, <2>3
<1> QED  BY <1>5, <1>6

LEMMA InvariantOptionsLostForCause == IInv => OptionsLostForCause
<1> SUFFICES ASSUME IInv, stage = "sent"
             PROVE  /\ payload.outputConfig <=> request.response_format # "absent"
                    /\ payload.thinking => request.thinking
                    /\ request.thinking /\ ~payload.thinking =>
                         \/ "reasoning" \notin request.supports
                         \/ \E i \in Answers :
                              messages[i].thinking_blocks = <<>> /\ Has(spoken[i], "toolUse")
                    /\ payload.thinking => payload.toolChoice \in {"absent", "auto"}
                    /\ payload.toolChoice # request.tool_choice =>
                         /\ payload.toolChoice = "auto" /\ request.tool_choice # "absent"
                         /\ payload.thinking \/ request.tool_choice = "none"
                    /\ payload.serial => request.serial
                    /\ request.serial /\ ~payload.serial =>
                         "disable_parallel" \notin request.supports
  BY DEF OptionsLostForCause
<1> DEFINE e == ReasoningEnabled(request, messages)
<1>1. OutputSupported(request) /\ payload = ConverseRequest(request, messages)
  BY DEF IInv, Translated
<1>2. /\ payload.thinking = e
      /\ payload.serial = (request.serial /\ "disable_parallel" \in request.supports)
      /\ payload.toolChoice = MapToolChoice(request.tool_choice, e)
      /\ payload.outputConfig = (request.response_format = "schema")
      /\ payload.messages = [i \in DOMAIN messages |-> NormalizeMessage(messages[i], e)]
  BY <1>1 DEF ConverseRequest
<1>3. payload.outputConfig <=> request.response_format # "absent"
  BY <1>1, <1>2 DEF OutputSupported
<1>4. /\ payload.thinking => payload.toolChoice \in {"absent", "auto"}
      /\ payload.toolChoice # request.tool_choice =>
           /\ payload.toolChoice = "auto" /\ request.tool_choice # "absent"
           /\ payload.thinking \/ request.tool_choice = "none"
  <2>1. request.tool_choice \in {"absent", "none", "auto", "any", "tool"}
    BY DEF IInv, TypeOK, Requests
  <2> HIDE DEF e
  <2> QED  BY <1>2, <2>1 DEF MapToolChoice
<1>5. ASSUME request.thinking, ~payload.thinking, "reasoning" \in request.supports
      PROVE  \E i \in Answers :
               messages[i].thinking_blocks = <<>> /\ Has(spoken[i], "toolUse")
  <2>1. ~HasReasoningContinuity(messages)
    BY <1>2, <1>5 DEF ReasoningEnabled, ReasoningRequested
  <2>2. PICK i \in DOMAIN messages :
          /\ messages[i].role = "assistant" /\ Has(messages[i].content, "tool_use")
          /\ messages[i].thinking_blocks = <<>>
    BY <2>1 DEF HasReasoningContinuity
  <2>3. i \in Answers
    <3> HIDE DEF e
    <3> QED  BY <1>2, <2>2 DEF Answers, NormalizeMessage
  <2>4. Has(spoken[i], "toolUse")
    BY <2>2, <2>3, AnswerSent, SameCalls
  <2> QED  BY <2>2, <2>3, <2>4
<1>6. payload.thinking => request.thinking
  BY <1>2 DEF ReasoningEnabled, ReasoningRequested
<1> HIDE DEF e
<1>7. /\ payload.serial => request.serial
      /\ request.serial /\ ~payload.serial => "disable_parallel" \notin request.supports
  BY <1>2
<1> QED  BY <1>3, <1>4, <1>5, <1>6, <1>7

-----------------------------------------------------------------------------
(* The theorems.                                                           *)

\* Of every conversation, of whatever length and with answers of whatever
\* shape: each message is the client's own or what it made of the answer at its
\* place (client, response_parser.py:17-59), and what is with Bedrock is the
\* translation of the transcript as it still is (request_builder.py:38-92).
THEOREM ConversationInvariant == Spec => []IInv
BY StartsInvariant, StepsKeep, PTL DEF Spec

\* Every variable keeps its type, and only Bedrock's block types are sent: the
\* builder renames or refuses every other (request_builder.py:169-259).
THEOREM ConversationTyped == Spec => []TypeOK
<1>1. IInv => TypeOK
  BY DEF IInv
<1> QED  BY <1>1, ConversationInvariant, PTL

\* With thinking enabled an answer goes back with exactly the reasoning Bedrock
\* gave in that turn or with none, and with it where a tool was called; with
\* thinking disabled no answer has any (request_builder.py:342-379).
THEOREM ReasoningComesBack == Spec => []ReasoningReplayed
BY ConversationInvariant, InvariantReasoningReplayed, PTL

\* Texts and tool uses come back to Bedrock as it sent them, through the parser
\* or the stream, the client and the builder (response_parser.py:20-47,
\* request_builder.py:132-259).
THEOREM AnswersComeBack == Spec => []AnswersReplayed
BY ConversationInvariant, InvariantAnswersReplayed, PTL

\* Of every request that is sent on: nothing is added to what it asks for, and
\* what it loses without a word (thinking, a tool choice, the wish for tools one
\* after the other) it loses for one of the causes the property names, for
\* transcripts of every length (request_builder.py:38-92, 310-348).
THEOREM OptionsLostOnlyForCause == Spec => []OptionsLostForCause
BY ConversationInvariant, InvariantOptionsLostForCause, PTL

\* A transcript is refused only for the announced reasoning of an answer that
\* was streamed (request_builder.py:200).
THEOREM RefusalsHaveCause == Spec => []RefusedForCause
<1>1. IInv => RefusedForCause
  BY DEF IInv
<1> QED  BY <1>1, ConversationInvariant, PTL

=============================================================================

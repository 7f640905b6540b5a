----------------------------- MODULE Wire_proofs -----------------------------
(***************************************************************************)
(* Proofs about one connection of the chat server.                         *)
(***************************************************************************)
EXTENDS Wire, TLAPS

\* Where frame k begins, or will begin if it is the next one.
StartOf(k) == IF k <= Len(frames) THEN frames[k].from ELSE total

\* The frames stand one after the other in the stream.
FramesInv ==
    /\ StartOf(1) = 0
    /\ \A k \in 1..Len(frames) :
         /\ StartOf(k + 1) = frames[k].from + HEAD_TOTAL_LEN + frames[k].len
         /\ frames[k].from < total
    /\ \A j, k \in 1..Len(frames) : j < k => frames[j].from < frames[k].from

\* What was posted is what was sent, and the reader is at the frame after it.
PostedInv ==
    /\ Len(posted) <= Len(frames)
    /\ \A k \in 1..Len(posted) : posted[k] = frames[k]

AtHead ==
    /\ want = HEAD_TOTAL_LEN /\ got < want
    /\ mark = StartOf(Len(posted) + 1)

AtBody ==
    /\ Len(posted) < Len(frames)
    /\ mark = frames[Len(posted) + 1].from + HEAD_TOTAL_LEN
    /\ node = [id |-> frames[Len(posted) + 1].id, len |-> frames[Len(posted) + 1].len]
    /\ want = node.len /\ got <= want

ReadInv ==
    /\ rd = "head" => AtHead
    /\ rd = "body" => AtBody
    /\ io = "post" => rd = "none" /\ AtBody /\ got = want
    /\ io = "notify" => rd = "none" /\ mark + got = StartOf(Len(posted) + 1)

\* The logic thread in a handler has a message, and is woken for every one.
LogicInv ==
    /\ worker = "handle" => handled < Len(posted)
    /\ HandlerWoken

\* What was accepted is what was popped, followed by the queue.
Popped == Len(accepted) - Len(send_que)

QueueInv ==
    /\ Popped >= 0
    /\ \A k \in 1..Len(send_que) : send_que[k] = accepted[Popped + k]
    /\ \A k \in 1..Len(accepted) : accepted[k].req <= handled
    /\ \A j, k \in 1..Len(accepted) : j < k => accepted[j].req < accepted[k].req

\* At most one write is outstanding, of the front; what was popped was written.
WriteInv ==
    \/ /\ writes = <<>>
       /\ Len(written) = Popped
    \/ /\ Len(writes) = 1 /\ send_que # <<>>
       /\ writes[1].msg = send_que[1]
       /\ IF writes[1].left = 0 THEN Len(written) = Popped + 1 ELSE Len(written) = Popped

WrittenInv ==
    /\ Len(written) <= Len(accepted)
    /\ \A k \in 1..Len(written) : written[k] = accepted[k]


\* TypeOK in two parts, what a request goes through and what an answer does.
ReadTypes ==
    /\ frames \in Seq(Messages) /\ total \in Nat /\ gone \in BOOLEAN
    /\ rd \in {"head", "body", "none", "endless", "dead"}
    /\ mark \in Nat /\ got \in Nat /\ want \in 0..MAX_LENGTH
    /\ node \in Headings
    /\ sock \in {"open", "closed"} /\ io \in {"idle", "post", "notify", "close"}
    /\ posted \in Seq(Messages) /\ handled \in 0..Len(posted)
    /\ worker \in {"asleep", "awake", "handle"}

WriteTypes ==
    /\ send_que \in Seq(Answers) /\ writes \in Seq(Writes)
    /\ accepted \in Seq(Answers) /\ written \in Seq(Answers) /\ dropped \in Nat

ReadSide == ReadTypes /\ FramesInv /\ PostedInv /\ ReadInv /\ LogicInv
WriteSide == WriteTypes /\ QueueInv /\ WriteInv /\ WrittenInv

Inv == ReadSide /\ WriteSide

LEMMA InvTypes == Inv => TypeOK
BY DEF Inv, ReadSide, WriteSide, ReadTypes, WriteTypes, TypeOK

LEMMA HeadLen ==
    /\ HEAD_TOTAL_LEN \in Nat /\ HEAD_TOTAL_LEN > 0 /\ HEAD_TOTAL_LEN <= MAX_LENGTH
    /\ MAX_LENGTH \in Nat /\ SHORT \in Nat /\ MAX_SENDQUE \in Nat
BY WireAssumption DEF HEAD_TOTAL_LEN

\* A length that is not negative as a short is the number that was written.
LEMMA ShortFits ==
    ASSUME NEW h \in Headings
    PROVE  /\ h.id \in 0..(2 * SHORT - 1) /\ h.len \in 0..(2 * SHORT - 1)
           /\ ToShort(h.len) \in Int
           /\ ToShort(h.len) >= 0 => ToShort(h.len) = h.len
BY WireAssumption DEF ToShort, Headings

LEMMA InitInv == Init => Inv
<1>. SUFFICES ASSUME Init PROVE Inv
  OBVIOUS
<1>1. ReadTypes
  <2>1. NoNode \in Headings
    BY WireAssumption DEF NoNode, Headings
  <2>2. Len(posted) = 0 /\ want \in 0..MAX_LENGTH /\ want = HEAD_TOTAL_LEN
    BY HeadLen DEF Init
  <2>3. frames = <<>> /\ posted = <<>> /\ handled \in 0..Len(posted)
    BY <2>2 DEF Init
  <2>4. frames \in Seq(Messages) /\ posted \in Seq(Messages)
    BY <2>3
  <2>. QED  BY <2>1, <2>2, <2>3, <2>4 DEF Init, ReadTypes
<1>3. Len(frames) = 0 /\ Len(posted) = 0 /\ total = 0
  BY DEF Init
<1>4. FramesInv /\ PostedInv
  BY <1>3 DEF FramesInv, PostedInv, StartOf
<1>5. ReadInv /\ LogicInv
  BY <1>3, HeadLen DEF Init, ReadInv, AtHead, LogicInv, HandlerWoken, Queued, StartOf
<1>2. WriteSide
  BY DEF Init, WriteSide, WriteTypes, QueueInv, Popped, WriteInv, WrittenInv
<1>. QED  BY <1>1, <1>2, <1>4, <1>5 DEF Inv, ReadSide

-----------------------------------------------------------------------------
(* The way of a request *)

\* A new frame begins where the last one ended.
LEMMA PeerSendRead ==
    ASSUME ReadSide, PeerSend
    PROVE  ReadSide'
<1>. USE DEF ReadSide
<1>1. PICK h \in Heads :
        /\ frames' = Append(frames, [id |-> h.id, len |-> h.len, from |-> total])
        /\ total' = total + HEAD_TOTAL_LEN + h.len
  BY DEF PeerSend
<1>0. h \in Headings
  BY WireAssumption DEF Headings
<1>2. /\ UNCHANGED <<gone, rd, mark, got, want, node, sock, io, posted, handled, worker>>
      /\ h.len \in Nat
  BY <1>0, ShortFits DEF PeerSend, readVars, logicVars
<1>3. [id |-> h.id, len |-> h.len, from |-> total] \in Messages
  BY <1>0, ShortFits DEF ReadTypes, Messages
<1>4. ReadTypes'
  BY <1>1, <1>2, <1>3, HeadLen DEF ReadTypes
<1>5. /\ Len(frames') = Len(frames) + 1
      /\ \A k \in 1..Len(frames) : frames'[k] = frames[k]
      /\ frames'[Len(frames) + 1] = [id |-> h.id, len |-> h.len, from |-> total]
      /\ \A k \in 1..Len(frames) : frames[k] \in Messages
      /\ Len(frames) \in Nat
  BY <1>1, <1>3 DEF ReadTypes
<1>6. \A k \in 1..(Len(frames) + 1) : StartOf(k)' = StartOf(k)
  BY <1>5 DEF StartOf
<1>7. FramesInv'
  <2>1. StartOf(1)' = 0
    BY <1>5, <1>6 DEF FramesInv
  <2>2. ASSUME NEW k \in 1..(Len(frames) + 1)
        PROVE  /\ StartOf(k + 1)' = frames'[k].from + HEAD_TOTAL_LEN + frames'[k].len
               /\ frames'[k].from < total'
    <3>1. CASE k <= Len(frames)
      <4>1. k \in 1..Len(frames) /\ k + 1 \in 1..(Len(frames) + 1)
        BY <3>1, <1>5
      <4>2. StartOf(k + 1)' = StartOf(k + 1) /\ frames'[k] = frames[k]
        BY <4>1, <1>5, <1>6
      <4>3. frames[k] \in Messages /\ frames[k].from < total
        BY <4>1, <1>5 DEF FramesInv
      <4>4. StartOf(k + 1) = frames[k].from + HEAD_TOTAL_LEN + frames[k].len
        BY <4>1 DEF FramesInv
      <4>5. total < total'
        BY <1>1, <1>2, HeadLen DEF ReadTypes
      <4>6. frames[k].from < total'
        <5>1. frames[k].from \in Nat /\ total \in Nat /\ total' \in Nat
          BY <4>3, <1>4 DEF Messages, ReadTypes
        <5>. QED  BY <4>3, <4>5, <5>1
      <4>. QED  BY <4>2, <4>4, <4>6
    <3>2. CASE k = Len(frames) + 1
      BY <3>2, <1>1, <1>2, <1>5, HeadLen DEF StartOf, ReadTypes
    <3>. QED  BY <3>1, <3>2, <1>5
  <2>3. ASSUME NEW j \in 1..(Len(frames) + 1), NEW k \in 1..(Len(frames) + 1), j < k
        PROVE  frames'[j].from < frames'[k].from
    BY <2>3, <1>5 DEF FramesInv
  <2>. QED  BY <2>1, <2>2, <2>3, <1>5 DEF FramesInv
<1>8. PostedInv'
  BY <1>2, <1>5 DEF PostedInv, ReadTypes
<1>9. LogicInv'
  BY <1>2 DEF LogicInv, HandlerWoken, Queued
<1>10. Len(posted) \in Nat /\ Len(posted) <= Len(frames)
  BY DEF PostedInv, ReadTypes
<1>11. StartOf(Len(posted) + 1)' = StartOf(Len(posted) + 1)
  BY <1>2, <1>5, <1>6, <1>10
<1>12. AtHead => AtHead'
  BY <1>2, <1>11 DEF AtHead
<1>13. AtBody => AtBody'
  <2>1. Len(posted) < Len(frames) => frames'[Len(posted) + 1] = frames[Len(posted) + 1]
    BY <1>5, <1>10
  <2>. QED  BY <2>1, <1>2, <1>5, <1>10 DEF AtBody
<1>14. ReadInv'
  BY <1>2, <1>11, <1>12, <1>13 DEF ReadInv
<1>. QED  BY <1>4, <1>7, <1>8, <1>9, <1>14

\* Steps that leave the stream and the queue of requests alone.
LEMMA SameStream ==
    ASSUME ReadSide, UNCHANGED <<frames, total, posted>>
    PROVE  FramesInv' /\ PostedInv' /\ \A k : StartOf(k)' = StartOf(k)
BY DEF ReadSide, FramesInv, PostedInv, StartOf

LEMMA ReadLenRead ==
    ASSUME ReadSide, asyncReadLen
    PROVE  ReadSide'
<1>1. UNCHANGED <<frames, total, gone, rd, mark, want, node, sock, io, posted, handled, worker>>
  BY DEF asyncReadLen, peerVars, logicVars
<1>2. PICK n \in Chunks : got + n < want /\ got' = got + n
  BY DEF asyncReadLen
<1>3. n \in Nat
  BY <1>2 DEF Chunks, Room, ReadSide, ReadTypes
<1>. QED
  BY <1>1, <1>2, <1>3, SameStream DEF ReadSide, ReadTypes, ReadInv, AtHead, AtBody, LogicInv,
       HandlerWoken, Queued, asyncReadLen

\* The header that AsyncReadHead sees is that of the frame to be posted next.
LEMMA HeaderIsNext ==
    ASSUME ReadSide, rd = "head", NEW n \in Chunks, got + n >= want, NEW h \in Headers(mark)
    PROVE  /\ n \in Nat /\ got + n = HEAD_TOTAL_LEN
           /\ Len(posted) < Len(frames)
           /\ mark = frames[Len(posted) + 1].from
           /\ h = [id |-> frames[Len(posted) + 1].id, len |-> frames[Len(posted) + 1].len]
<1>. USE DEF ReadSide
<1>1. AtHead
  BY DEF ReadInv
<1>2. n \in 1..Room /\ mark + got + n <= total
  BY <1>1, HeadLen DEF AtHead, Chunks, ReadTypes
<1>3. n \in Nat /\ got + n = HEAD_TOTAL_LEN
  BY <1>1, <1>2 DEF AtHead, Room, ReadTypes
<1>4. Len(posted) < Len(frames)
  BY <1>1, <1>2, <1>3, HeadLen DEF AtHead, StartOf, PostedInv, ReadTypes
<1>5. mark = frames[Len(posted) + 1].from
  BY <1>1, <1>4 DEF AtHead, StartOf, ReadTypes
<1>6. \A k \in 1..Len(frames) : frames[k].from = mark => k = Len(posted) + 1
  <2>1. Len(posted) + 1 \in 1..Len(frames) /\ frames[Len(posted) + 1].from \in Nat
    <3>1. Len(posted) + 1 \in 1..Len(frames)
      BY <1>4 DEF ReadTypes
    <3>2. frames[Len(posted) + 1] \in Messages
      BY <3>1 DEF ReadTypes
    <3>. QED  BY <3>1, <3>2 DEF Messages
  <2>2. ASSUME NEW k \in 1..Len(frames), frames[k].from = mark, k # Len(posted) + 1
        PROVE  FALSE
    <3>1. CASE k < Len(posted) + 1
      BY <2>1, <2>2, <3>1, <1>5 DEF FramesInv
    <3>2. CASE k > Len(posted) + 1
      BY <2>1, <2>2, <3>2, <1>5 DEF FramesInv
    <3>. QED  BY <2>1, <2>2, <3>1, <3>2
  <2>. QED  BY <2>2
<1>7. PICK k \in 1..Len(frames) :
        /\ frames[k].from = mark
        /\ h = [id |-> frames[k].id, len |-> frames[k].len]
  BY <1>4, <1>5 DEF Headers, ReadTypes
<1>. QED  BY <1>3, <1>4, <1>5, <1>6, <1>7

LEMMA ReadHeadRead ==
    ASSUME ReadSide, AsyncReadHead
    PROVE  ReadSide'
<1>. USE DEF ReadSide
<1>1. /\ rd = "head" /\ io = "idle"
      /\ UNCHANGED <<frames, total, gone, sock, io, posted, handled, worker>>
  BY DEF AsyncReadHead, peerVars, logicVars
<1>2. PICK n \in Chunks : got + n >= want /\ \E h \in Headers(mark) :
        LET len == ToShort(h.len) IN
        \/ ~Invalid(h) /\ len >= 0 /\ node' = h /\ asyncReadFull("body", len, got + n)
        \/ (Invalid(h) \/ len < -1) /\ rd' = "none" /\ got' = got + n /\ UNCHANGED <<mark, want, node>>
        \/ ~Invalid(h) /\ len = -1 /\ rd' \in {"dead", "endless"} /\ got' = got + n
           /\ UNCHANGED <<mark, want, node>>
  BY DEF AsyncReadHead
<1>3. PICK h \in Headers(mark) :
        LET len == ToShort(h.len) IN
        \/ ~Invalid(h) /\ len >= 0 /\ node' = h /\ asyncReadFull("body", len, got + n)
        \/ (Invalid(h) \/ len < -1) /\ rd' = "none" /\ got' = got + n /\ UNCHANGED <<mark, want, node>>
        \/ ~Invalid(h) /\ len = -1 /\ rd' \in {"dead", "endless"} /\ got' = got + n
           /\ UNCHANGED <<mark, want, node>>
  BY <1>2
<1>4. /\ n \in Nat /\ got + n = HEAD_TOTAL_LEN
      /\ Len(posted) < Len(frames)
      /\ mark = frames[Len(posted) + 1].from
      /\ h = [id |-> frames[Len(posted) + 1].id, len |-> frames[Len(posted) + 1].len]
  BY <1>1, <1>2, <1>3, HeaderIsNext
<1>5. FramesInv' /\ PostedInv' /\ LogicInv'
  BY <1>1, SameStream DEF LogicInv, HandlerWoken, Queued
<1>6. CASE rd' = "body" /\ ~Invalid(h) /\ node' = h /\ asyncReadFull("body", ToShort(h.len), got + n)
           /\ ToShort(h.len) >= 0
  <2>1. h \in Headings
    <3>1. frames[Len(posted) + 1] \in Messages
      BY <1>4 DEF ReadTypes
    <3>. QED  BY <1>4, <3>1 DEF Messages, Headings
  <2>2. h.len \in Nat /\ ToShort(h.len) = h.len /\ h.len <= MAX_LENGTH
    BY <1>6, <2>1, ShortFits, HeadLen DEF Invalid
  <2>3. /\ want' = h.len /\ mark' = mark + HEAD_TOTAL_LEN /\ got' = 0
        /\ rd' = "body" /\ node' = h
    BY <1>4, <1>6, <2>2 DEF asyncReadFull, ReadTypes
  <2>4. ReadTypes'
    BY <1>1, <2>1, <2>2, <2>3, HeadLen DEF ReadTypes
  <2>5. ReadInv'
    BY <1>1, <1>4, <2>2, <2>3 DEF ReadInv, AtBody, ReadTypes
  <2>. QED  BY <1>5, <2>4, <2>5
<1>7. CASE rd' \in {"none", "dead", "endless"} /\ got' = got + n /\ UNCHANGED <<mark, want, node>>
  BY <1>1, <1>4, <1>5, <1>7 DEF ReadTypes, ReadInv
<1>. QED  BY <1>3, <1>6, <1>7 DEF asyncReadFull

LEMMA ReadBodyRead ==
    ASSUME ReadSide, AsyncReadBody
    PROVE  ReadSide'
<1>. USE DEF ReadSide
<1>1. /\ rd = "body" /\ io = "idle" /\ rd' = "none" /\ io' = "post"
      /\ UNCHANGED <<frames, total, gone, mark, want, node, sock, posted, handled, worker>>
  BY DEF AsyncReadBody, peerVars, logicVars
<1>2. PICK n \in Chunks : got + n >= want /\ got' = got + n
  BY DEF AsyncReadBody
<1>3. AtBody
  BY <1>1 DEF ReadInv
<1>4. n \in Nat /\ got + n = want
  <2>1. CASE want = 0
    <3>1. n = 0
      BY <2>1, <1>2 DEF Chunks
    <3>2. got \in Nat /\ want \in Nat /\ got <= want
      BY <1>3, HeadLen DEF AtBody, ReadTypes
    <3>. QED  BY <2>1, <3>1, <3>2
  <2>2. CASE want # 0
    <3>1. n \in 1..(want - got)
      BY <2>2, <1>2 DEF Chunks, Room
    <3>2. got \in Nat /\ want \in Nat
      BY HeadLen DEF ReadTypes
    <3>. QED  BY <3>1, <3>2, <1>2
  <2>. QED  BY <2>1, <2>2
<1>5. FramesInv' /\ PostedInv'
  BY <1>1, SameStream
<1>6. ReadTypes' /\ ReadInv'
  BY <1>1, <1>2, <1>3, <1>4 DEF ReadTypes, ReadInv, AtBody
<1>7. LogicInv'
  BY <1>1 DEF LogicInv, HandlerWoken, Queued
<1>. QED  BY <1>5, <1>6, <1>7

LEMMA ReadErrorRead ==
    ASSUME ReadSide, ReadError \/ CloseSocket \/ \E i \in 1..Len(writes) : handleWriteError(i)
    PROVE  ReadSide'
<1>. USE DEF ReadSide
<1>1. /\ io \in {"idle", "close"} /\ io' \in {"idle", "close"} /\ rd' \in {rd, "none"}
      /\ sock' \in {sock, "closed"}
      /\ UNCHANGED <<frames, total, gone, mark, got, want, node, posted, handled, worker>>
  BY DEF ReadError, CloseSocket, handleWriteError, peerVars, readVars, logicVars
<1>2. FramesInv' /\ PostedInv' /\ \A k : StartOf(k)' = StartOf(k)
  BY <1>1, SameStream
<1>3. ReadTypes' /\ LogicInv'
  BY <1>1 DEF ReadTypes, LogicInv, HandlerWoken, Queued
<1>4. ReadInv'
  BY <1>1, <1>2 DEF ReadInv, AtHead, AtBody
<1>. QED  BY <1>2, <1>3, <1>4

\* What is posted is the next frame.
LEMMA PostIsNext ==
    ASSUME ReadSide, PostMsgToQue
    PROVE  /\ Len(posted) < Len(frames)
           /\ posted' = Append(posted, frames[Len(posted) + 1])
           /\ frames[Len(posted) + 1] \in Messages
           /\ mark + got = StartOf(Len(posted) + 2)
<1>. USE DEF ReadSide
<1>1. AtBody /\ got = want
  BY DEF PostMsgToQue, ReadInv
<1>2. /\ Len(posted) \in Nat /\ Len(posted) + 1 \in 1..Len(frames)
      /\ frames[Len(posted) + 1] \in Messages
  BY <1>1 DEF AtBody, ReadTypes
<1>3. frames[Len(posted) + 1] =
        [id |-> node.id, len |-> node.len, from |-> mark - HEAD_TOTAL_LEN]
  BY <1>1, <1>2, HeadLen DEF AtBody, Messages
<1>4. mark + got = StartOf(Len(posted) + 2)
  BY <1>1, <1>2, HeadLen DEF AtBody, FramesInv, Messages
<1>. QED  BY <1>1, <1>2, <1>3, <1>4 DEF PostMsgToQue, AtBody

LEMMA PostRead ==
    ASSUME ReadSide, PostMsgToQue
    PROVE  ReadSide'
<1>. USE DEF ReadSide
<1>1. /\ Len(posted) < Len(frames)
      /\ posted' = Append(posted, frames[Len(posted) + 1])
      /\ frames[Len(posted) + 1] \in Messages
      /\ mark + got = StartOf(Len(posted) + 2)
  BY PostIsNext
<1>2. /\ io = "post" /\ rd = "none" /\ worker # "handle"
      /\ UNCHANGED <<frames, total, gone, node, sock, handled, worker>>
  BY DEF PostMsgToQue, ReadInv, peerVars
<1>3. /\ Len(posted') = Len(posted) + 1 /\ posted' \in Seq(Messages)
      /\ \A k \in 1..Len(posted) : posted'[k] = posted[k]
      /\ posted'[Len(posted) + 1] = frames[Len(posted) + 1]
      /\ Len(posted) \in Nat
  BY <1>1 DEF ReadTypes
<1>4. \A k : StartOf(k)' = StartOf(k)
  BY <1>2 DEF StartOf
<1>5. FramesInv' /\ PostedInv'
  BY <1>1, <1>2, <1>3, <1>4 DEF FramesInv, PostedInv
<1>6. CASE IsFirst /\ io' = "notify" /\ UNCHANGED <<rd, mark, got, want>>
  BY <1>1, <1>2, <1>3, <1>4, <1>5, <1>6 DEF ReadTypes, ReadInv, LogicInv, HandlerWoken, Queued
<1>7. CASE ~IsFirst /\ io' = "idle" /\ asyncReadFull("head", HEAD_TOTAL_LEN, got)
  <2>1. /\ rd' = "head" /\ want' = HEAD_TOTAL_LEN /\ mark' = mark + got /\ got' = 0
    BY <1>7 DEF asyncReadFull
  <2>2. ReadTypes'
    BY <1>2, <1>3, <1>7, <2>1, HeadLen DEF ReadTypes
  <2>3. ReadInv'
    BY <1>1, <1>3, <1>4, <1>7, <2>1, HeadLen DEF ReadInv, AtHead
  <2>4. LogicInv'
    BY <1>2, <1>3, <1>7 DEF LogicInv, HandlerWoken, Queued, IsFirst, ReadTypes
  <2>. QED  BY <1>5, <2>2, <2>3, <2>4
<1>. QED  BY <1>6, <1>7 DEF PostMsgToQue

LEMMA NotifyRead ==
    ASSUME ReadSide, NotifyOne
    PROVE  ReadSide'
<1>. USE DEF ReadSide
<1>1. /\ io = "notify" /\ io' = "idle" /\ rd' = "head" /\ want' = HEAD_TOTAL_LEN
      /\ mark' = mark + got /\ got' = 0
      /\ worker' = IF worker = "asleep" THEN "awake" ELSE worker
      /\ UNCHANGED <<frames, total, gone, node, sock, posted, handled>>
  BY DEF NotifyOne, asyncReadFull, peerVars
<1>2. FramesInv' /\ PostedInv' /\ \A k : StartOf(k)' = StartOf(k)
  BY <1>1, SameStream
<1>3. ReadTypes' /\ ReadInv'
  BY <1>1, <1>2, HeadLen DEF ReadTypes, ReadInv, AtHead
<1>4. LogicInv'
  BY <1>1 DEF LogicInv, HandlerWoken, Queued, ReadTypes
<1>. QED  BY <1>2, <1>3, <1>4

\* Steps of the logic thread.
LEMMA LogicRead ==
    ASSUME ReadSide, Logic \/ SpuriousWakeup
    PROVE  ReadSide'
<1>. USE DEF ReadSide
<1>1. UNCHANGED <<frames, total, gone, rd, mark, got, want, node, sock, io, posted>>
  BY DEF Logic, Wait, Handle, SpuriousWakeup, peerVars, readVars
<1>2. FramesInv' /\ PostedInv' /\ \A k : StartOf(k)' = StartOf(k)
  BY <1>1, SameStream
<1>3. ReadInv'
  BY <1>1, <1>2 DEF ReadInv, AtHead, AtBody
<1>4. ReadTypes' /\ LogicInv'
  <2>1. CASE Wait
    BY <1>1, <2>1 DEF Wait, ReadTypes, LogicInv, HandlerWoken, Queued
  <2>2. CASE Handle
    BY <1>1, <2>2 DEF Handle, ReadTypes, LogicInv, HandlerWoken
  <2>3. CASE SpuriousWakeup
    BY <1>1, <2>3 DEF SpuriousWakeup, ReadTypes, LogicInv, HandlerWoken
  <2>. QED  BY <2>1, <2>2, <2>3 DEF Logic
<1>. QED  BY <1>2, <1>3, <1>4

LEMMA ReadSideStep ==
    ASSUME ReadSide, [Next]_vars
    PROVE  ReadSide'
<1>1. CASE PeerGone \/ Network \/ (\E i \in 1..Len(writes) : handleWrite(i)) \/ UNCHANGED vars
  <2>1. /\ UNCHANGED <<frames, total, rd, mark, got, want, node, sock, io, posted, handled, worker>>
        /\ gone' \in {gone, TRUE}
    BY <1>1 DEF PeerGone, Network, Transmit, handleWrite, vars, peerVars, readVars, logicVars
  <2>. QED
    BY <2>1, SameStream DEF ReadSide, ReadTypes, ReadInv, AtHead, AtBody, LogicInv,
         HandlerWoken, Queued
<1>. QED
  BY <1>1, PeerSendRead, ReadLenRead, ReadHeadRead, ReadBodyRead, ReadErrorRead, PostRead,
     NotifyRead, LogicRead DEF Next, Io

-----------------------------------------------------------------------------
(* The way of an answer *)

LEMMA FrameNotEmpty ==
    ASSUME NEW a \in Answers
    PROVE  FrameLen(a) \in Nat /\ FrameLen(a) > 0
<1>1. a.len \in 0..(SHORT - 1 - HEAD_TOTAL_LEN)
  BY WireAssumption DEF Answers
<1>. QED  BY <1>1, HeadLen DEF FrameLen

LEMMA AnswerReq ==
    ASSUME WriteTypes, NEW k \in 1..Len(accepted)
    PROVE  accepted[k].req \in Nat
<1>1. accepted[k] \in Answers
  BY DEF WriteTypes
<1>. QED  BY <1>1 DEF Answers

\* An answer goes to the end of the queue, or is dropped.
LEMMA HandleWrites ==
    ASSUME Inv, Handle
    PROVE  WriteSide'
<1>. USE DEF Inv, WriteSide
<1>1. /\ handled \in Nat /\ handled' = handled + 1 /\ UNCHANGED written
  BY DEF Handle, ReadSide, ReadTypes
<1>2. CASE UNCHANGED <<send_que, writes, accepted>> /\ dropped' \in {dropped, dropped + 1}
  <2>1. QueueInv'
    <3>1. \A k \in 1..Len(accepted) : accepted[k].req <= handled + 1
      BY <1>1, AnswerReq DEF QueueInv
    <3>. QED  BY <1>1, <1>2, <3>1 DEF QueueInv, Popped
  <2>. QED  BY <1>1, <1>2, <2>1 DEF WriteTypes, Popped, WriteInv, WrittenInv
<1>3. ASSUME NEW a \in Answers, a.req = handled + 1,
             send_que' = Append(send_que, a), accepted' = Append(accepted, a),
             writes' = IF send_que = <<>> THEN async_write(writes, send_que') ELSE writes,
             UNCHANGED dropped
      PROVE  WriteSide'
  <2>1. /\ Len(send_que') = Len(send_que) + 1 /\ Len(accepted') = Len(accepted) + 1
        /\ \A k \in 1..Len(send_que) : send_que'[k] = send_que[k]
        /\ \A k \in 1..Len(accepted) : accepted'[k] = accepted[k]
        /\ send_que'[Len(send_que) + 1] = a /\ accepted'[Len(accepted) + 1] = a
        /\ Len(send_que) \in Nat /\ Len(accepted) \in Nat
        /\ send_que' \in Seq(Answers) /\ accepted' \in Seq(Answers)
    BY <1>3 DEF WriteTypes
  <2>2. Popped' = Popped
    BY <2>1 DEF Popped
  <2>3. QueueInv'
    <3>1. \A k \in 1..Len(send_que') : send_que'[k] = accepted'[Popped' + k]
      <4>1. ASSUME NEW k \in 1..Len(send_que') PROVE send_que'[k] = accepted'[Popped' + k]
        <5>1. CASE k \in 1..Len(send_que)
          <6>1. Popped + k \in 1..Len(accepted) /\ send_que[k] = accepted[Popped + k]
            BY <5>1, <2>1 DEF QueueInv, Popped
          <6>. QED  BY <5>1, <6>1, <2>1, <2>2
        <5>2. CASE k = Len(send_que) + 1
          BY <5>2, <2>1, <2>2 DEF Popped
        <5>. QED  BY <4>1, <5>1, <5>2, <2>1
      <4>. QED  BY <4>1
    <3>2. ASSUME NEW k \in 1..Len(accepted')
          PROVE  /\ accepted'[k].req <= handled'
                 /\ k <= Len(accepted) => accepted'[k].req <= handled /\ accepted'[k] = accepted[k]
      <4>1. CASE k \in 1..Len(accepted)
        <5>1. accepted[k].req \in Nat /\ accepted[k].req <= handled
          BY <4>1, AnswerReq DEF QueueInv
        <5>. QED  BY <4>1, <5>1, <1>1, <2>1
      <4>2. CASE k = Len(accepted) + 1
        BY <4>2, <1>1, <1>3, <2>1
      <4>. QED  BY <4>1, <4>2, <2>1
    <3>3. ASSUME NEW j \in 1..Len(accepted'), NEW k \in 1..Len(accepted'), j < k
          PROVE  accepted'[j].req < accepted'[k].req
      <4>1. j \in 1..Len(accepted) /\ accepted'[j].req <= handled /\ accepted'[j] = accepted[j]
        BY <2>1, <3>2, <3>3
      <4>2. CASE k \in 1..Len(accepted)
        BY <4>1, <4>2, <2>1, <3>3 DEF QueueInv
      <4>3. CASE k = Len(accepted) + 1
        <5>1. accepted'[k].req = handled + 1 /\ accepted[j].req \in Nat
          BY <4>1, <4>3, <1>3, <2>1, AnswerReq
        <5>. QED  BY <4>1, <5>1, <1>1
      <4>. QED  BY <2>1, <4>2, <4>3
    <3>. QED  BY <2>2, <3>1, <3>2, <3>3 DEF QueueInv
  <2>4. WriteTypes' /\ WriteInv'
    <3>1. CASE send_que = <<>>
      <4>1. writes = <<>> /\ Len(written) = Popped
        BY <3>1 DEF WriteInv
      <4>2. send_que' = <<a>>
        BY <1>3, <3>1
      <4>3. writes' = <<[msg |-> a, left |-> FrameLen(a)]>>
        BY <1>3, <3>1, <4>1, <4>2 DEF async_write
      <4>4. [msg |-> a, left |-> FrameLen(a)] \in Writes
        BY <1>3, FrameNotEmpty DEF Writes
      <4>5. writes' \in Seq(Writes)
        BY <4>3, <4>4
      <4>6. WriteInv'
        BY <1>1, <1>3, <2>2, <4>1, <4>2, <4>3, FrameNotEmpty DEF WriteInv
      <4>. QED  BY <1>1, <1>3, <2>1, <4>5, <4>6 DEF WriteTypes
    <3>2. CASE send_que # <<>>
      <4>1. UNCHANGED writes /\ send_que' # <<>> /\ 1 \in 1..Len(send_que)
        BY <1>3, <2>1, <3>2 DEF WriteTypes
      <4>. QED  BY <1>1, <1>3, <2>1, <2>2, <4>1 DEF WriteTypes, WriteInv
    <3>. QED  BY <3>1, <3>2
  <2>5. WrittenInv'
    <3>1. Len(written) \in Nat /\ 1..Len(written) \subseteq 1..Len(accepted)
      BY <2>1 DEF WrittenInv, WriteTypes
    <3>. QED  BY <1>1, <2>1, <3>1 DEF WrittenInv
  <2>. QED  BY <2>3, <2>4, <2>5
<1>4. ASSUME NEW l \in AnswerLens, Send([req |-> handled + 1, len |-> l])
      PROVE  WriteSide'
  <2>1. [req |-> handled + 1, len |-> l] \in Answers
    BY <1>1 DEF Answers
  <2>. QED  BY <1>2, <1>3, <1>4, <2>1 DEF Send
<1>. QED  BY <1>2, <1>4 DEF Handle

\* Bytes of the only write leave; the last of them make the front written.
LEMMA TransmitWrites ==
    ASSUME Inv, NEW i \in 1..Len(writes), Transmit(i)
    PROVE  WriteSide'
<1>. USE DEF Inv, WriteSide
<1>1. /\ i = 1 /\ Len(writes) = 1 /\ send_que # <<>> /\ writes[1].msg = send_que[1]
      /\ writes[1] \in Writes
  <2>1. Len(writes) >= 1 /\ writes # <<>>
    BY DEF WriteTypes
  <2>2. Len(writes) = 1 /\ send_que # <<>> /\ writes[1].msg = send_que[1]
    BY <2>1 DEF WriteInv
  <2>3. i = 1
    BY <2>2
  <2>4. writes \in Seq(Writes) /\ 1 \in 1..Len(writes)
    BY <2>2 DEF WriteTypes
  <2>5. writes[1] \in Writes
    BY <2>4
  <2>. QED  BY <2>2, <2>3, <2>5
<1>2. ~Torn(i)
  BY <1>1 DEF Torn
<1>3. PICK n \in 1..writes[1].left :
        /\ writes' = [writes EXCEPT ![1].left = @ - n]
        /\ written' = IF n < writes[1].left THEN written ELSE Append(written, writes[1].msg)
  BY <1>1, <1>2 DEF Transmit
<1>4. UNCHANGED <<send_que, accepted, dropped, handled>>
  BY DEF Transmit, logicVars
<1>5. writes[1].left \in Nat /\ writes[1].msg \in Answers
  BY <1>1 DEF Writes
<1>6. /\ Len(writes') = 1 /\ writes' \in Seq(Writes)
      /\ writes'[1].msg = send_que[1] /\ writes'[1].left = writes[1].left - n
  <2>1. /\ Len(writes') = 1 /\ DOMAIN writes = {1}
        /\ writes'[1].msg = writes[1].msg /\ writes'[1].left = writes[1].left - n
        /\ writes'[1] = [writes[1] EXCEPT !.left = @ - n]
    BY <1>1, <1>3 DEF Writes, WriteTypes
  <2>2. writes'[1] \in Writes
    BY <1>1, <1>3, <1>5, <2>1 DEF Writes
  <2>3. writes' \in Seq(Writes)
    BY <1>3, <2>1, <2>2 DEF WriteTypes
  <2>. QED  BY <1>1, <2>1, <2>3
<1>7. /\ Len(written) = Popped /\ Popped \in Nat /\ Popped' = Popped
      /\ Popped + 1 <= Len(accepted) /\ send_que[1] = accepted[Popped + 1]
  <2>1. Len(written) = Popped /\ Popped' = Popped /\ writes[1].left # 0
    BY <1>1, <1>3, <1>4, <1>5 DEF WriteInv, Popped
  <2>2. Len(send_que) >= 1 /\ Len(send_que) \in Nat /\ Len(accepted) \in Nat
    BY <1>1 DEF WriteTypes
  <2>. QED  BY <2>1, <2>2 DEF QueueInv, Popped
<1>8. QueueInv'
  BY <1>4, <1>7 DEF QueueInv
<1>9. CASE n < writes[1].left
  BY <1>1, <1>3, <1>4, <1>5, <1>6, <1>7, <1>8, <1>9 DEF WriteTypes, WriteInv, WrittenInv
<1>10. CASE ~(n < writes[1].left)
  <2>1. n = writes[1].left
    BY <1>3, <1>5, <1>10
  <2>2. written' = Append(written, accepted[Popped + 1])
    BY <1>1, <1>3, <1>7, <1>10
  <2>3. /\ written' \in Seq(Answers) /\ Len(written') = Popped + 1
        /\ \A k \in 1..Len(written') : written'[k] = accepted[k]
    BY <1>7, <2>2 DEF WriteTypes, WrittenInv
  <2>4. WriteInv'
    BY <1>4, <1>1, <1>5, <1>6, <1>7, <2>1, <2>3 DEF WriteInv
  <2>. QED  BY <1>4, <1>6, <1>7, <1>8, <2>3, <2>4 DEF WriteTypes, WrittenInv
<1>. QED  BY <1>9, <1>10

\* The front was written and goes; the next write, if any, is of the next front.
LEMMA handleWriteWrites ==
    ASSUME Inv, NEW i \in 1..Len(writes), handleWrite(i)
    PROVE  WriteSide'
<1>. USE DEF Inv, WriteSide
<1>1. /\ i = 1 /\ Len(writes) = 1 /\ send_que # <<>> /\ writes[1].left = 0
      /\ Len(written) = Popped + 1
  <2>1. Len(writes) >= 1 /\ writes # <<>>
    BY DEF WriteTypes
  <2>2. Len(writes) = 1
    BY <2>1 DEF WriteInv
  <2>. QED  BY <2>1, <2>2 DEF WriteInv, handleWrite
<1>2. SubSeq(writes, 1, i - 1) \o SubSeq(writes, i + 1, Len(writes)) = <<>>
  BY <1>1 DEF WriteTypes
<1>3. /\ send_que' = Tail(send_que)
      /\ writes' = IF send_que' = <<>> THEN <<>> ELSE async_write(<<>>, send_que')
      /\ UNCHANGED <<accepted, written, dropped, handled>>
  BY <1>2 DEF handleWrite, logicVars
<1>4. /\ send_que' \in Seq(Answers) /\ Len(send_que') = Len(send_que) - 1
      /\ \A k \in 1..Len(send_que') : send_que'[k] = send_que[k + 1]
      /\ Len(send_que) \in Nat /\ Len(send_que) >= 1
  BY <1>1, <1>3 DEF WriteTypes
<1>5. Popped' = Popped + 1 /\ Popped \in Int
  BY <1>3, <1>4 DEF Popped, WriteTypes
<1>6. QueueInv'
  <2>1. \A k \in 1..Len(send_que') : send_que'[k] = accepted'[Popped' + k]
    <3>1. ASSUME NEW k \in 1..Len(send_que') PROVE send_que'[k] = accepted'[Popped' + k]
      <4>1. k + 1 \in 1..Len(send_que) /\ Popped + (k + 1) = Popped' + k
        BY <1>4, <1>5
      <4>. QED  BY <1>3, <1>4, <4>1 DEF QueueInv
    <3>. QED  BY <3>1
  <2>. QED  BY <1>3, <1>5, <2>1 DEF QueueInv
<1>7. WriteTypes' /\ WriteInv'
  <2>1. CASE send_que' = <<>>
    <3>1. writes' = <<>> /\ writes' \in Seq(Writes)
      BY <1>3, <2>1
    <3>2. Len(written') = Popped'
      BY <1>1, <1>3, <1>5
    <3>. QED  BY <1>3, <1>4, <3>1, <3>2 DEF WriteTypes, WriteInv
  <2>2. CASE send_que' # <<>>
    <3>1. Head(send_que') = send_que'[1] /\ send_que'[1] \in Answers
      BY <1>4, <2>2
    <3>2. writes' = <<[msg |-> send_que'[1], left |-> FrameLen(send_que'[1])]>>
      BY <1>3, <2>2, <3>1 DEF async_write
    <3>3. [msg |-> send_que'[1], left |-> FrameLen(send_que'[1])] \in Writes
      BY <3>1, FrameNotEmpty DEF Writes
    <3>4. writes' \in Seq(Writes)
      BY <3>2, <3>3
    <3>5. /\ Len(writes') = 1 /\ writes'[1].msg = send_que'[1]
          /\ writes'[1].left # 0
      BY <3>1, <3>2, FrameNotEmpty
    <3>6. Len(written') = Popped'
      BY <1>1, <1>3, <1>5
    <3>7. WriteInv'
      BY <2>2, <3>5, <3>6 DEF WriteInv
    <3>. QED  BY <1>3, <1>4, <3>4, <3>7 DEF WriteTypes
  <2>. QED  BY <2>1, <2>2
<1>8. WrittenInv'
  BY <1>3 DEF WrittenInv
<1>. QED  BY <1>6, <1>7, <1>8

LEMMA handleWriteErrorWrites ==
    ASSUME Inv, NEW i \in 1..Len(writes), handleWriteError(i)
    PROVE  WriteSide'
<1>. USE DEF Inv, WriteSide
<1>1. /\ i = 1 /\ Len(writes) = 1 /\ writes[1].left > 0 /\ Len(written) = Popped
  <2>1. Len(writes) >= 1 /\ writes # <<>>
    BY DEF WriteTypes
  <2>2. Len(writes) = 1
    BY <2>1 DEF WriteInv
  <2>. QED  BY <2>1, <2>2 DEF WriteInv, handleWriteError, WriteTypes, Writes
<1>2. SubSeq(writes, 1, i - 1) \o SubSeq(writes, i + 1, Len(writes)) = <<>>
  BY <1>1 DEF WriteTypes
<1>3. writes' = <<>> /\ UNCHANGED <<send_que, accepted, written, dropped, handled>>
  BY <1>2 DEF handleWriteError, logicVars
<1>4. WriteTypes' /\ WriteInv'
  <2>1. writes' \in Seq(Writes)
    BY <1>3
  <2>. QED  BY <1>1, <1>3, <2>1 DEF WriteTypes, WriteInv, Popped
<1>. QED  BY <1>3, <1>4 DEF QueueInv, Popped, WrittenInv

LEMMA SameWrites ==
    ASSUME WriteSide, UNCHANGED <<handled, writeVars>>
    PROVE  WriteSide'
BY DEF WriteSide, writeVars, WriteTypes, QueueInv, Popped, WriteInv, WrittenInv

LEMMA WriteSideStep ==
    ASSUME Inv, [Next]_vars
    PROVE  WriteSide'
<1>1. CASE UNCHANGED <<handled, writeVars>>
  BY <1>1, SameWrites DEF Inv
<1>2. CASE Handle
  BY <1>2, HandleWrites
<1>3. CASE \E i \in 1..Len(writes) : Transmit(i) \/ handleWrite(i) \/ handleWriteError(i)
  BY <1>3, TransmitWrites, handleWriteWrites, handleWriteErrorWrites
<1>4. \/ UNCHANGED <<handled, writeVars>> \/ Handle
      \/ \E i \in 1..Len(writes) : Transmit(i) \/ handleWrite(i) \/ handleWriteError(i)
  BY DEF Next, Io, Logic, Network, PeerSend, PeerGone, SpuriousWakeup, asyncReadLen,
         AsyncReadHead, AsyncReadBody, ReadError, CloseSocket, PostMsgToQue, NotifyOne, Wait,
         vars, logicVars, writeVars
<1>. QED  BY <1>1, <1>2, <1>3, <1>4

LEMMA Invariance == Spec => []Inv
<1>1. Inv /\ [Next]_vars => Inv'
  BY ReadSideStep, WriteSideStep DEF Inv
<1>. QED  BY <1>1, InitInv, PTL DEF Spec

-----------------------------------------------------------------------------
(* The theorems *)

\* Types, for every width of the header, every buffer and every cap.
THEOREM TypeCorrect == Spec => []TypeOK
BY Invariance, InvTypes, PTL

\* No read has more room than _data.
THEOREM BufferRespected == Spec => []ReadFits
<1>1. Inv => ReadFits
  BY HeadLen DEF Inv, ReadSide, ReadTypes, ReadInv, AtHead, AtBody, ReadFits
<1>. QED  BY <1>1, Invariance, PTL

\* The logic thread never sleeps on a message without a notification to come.
THEOREM WorkerIsWoken == Spec => []HandlerWoken
<1>1. Inv => HandlerWoken
  BY DEF Inv, ReadSide, LogicInv
<1>. QED  BY <1>1, Invariance, PTL

\* Answers keep the order of their requests.
THEOREM AnswersOrdered == Spec => []AnswersInOrder
<1>1. ASSUME Inv PROVE AnswersInOrder
  <2>1. /\ 1..Len(written) \subseteq 1..Len(accepted)
        /\ \A k \in 1..Len(written) : written[k] = accepted[k]
    BY <1>1 DEF Inv, WriteSide, WriteTypes, WrittenInv
  <2>. QED  BY <1>1, <2>1 DEF Inv, WriteSide, QueueInv, AnswersInOrder
<1>. QED  BY <1>1, Invariance, PTL

\* Answers are dropped only for a peer that is MAX_SENDQUE answers behind.
THEOREM DropsJustified == Spec => DropsOnlyWhenBehind
<1>1. ASSUME Inv, [Next]_vars, dropped' # dropped
      PROVE  Len(accepted) - Len(written) >= MAX_SENDQUE
  <2>1. Handle /\ Len(send_que) > MAX_SENDQUE
    BY <1>1 DEF Next, Io, Logic, Network, PeerSend, PeerGone, SpuriousWakeup, asyncReadLen,
         AsyncReadHead, AsyncReadBody, ReadError, CloseSocket, PostMsgToQue, NotifyOne, Wait,
         Handle, Send, Transmit, handleWrite, handleWriteError, vars, writeVars
  <2>2. Len(written) <= Popped + 1
    BY <1>1 DEF Inv, WriteSide, WriteInv, WriteTypes, Popped
  <2>. QED  BY <1>1, <2>1, <2>2, HeadLen DEF Inv, WriteSide, WriteTypes, Popped
<1>. QED  BY <1>1, Invariance, PTL DEF Spec, DropsOnlyWhenBehind

\* What LogicSystem is handed is the stream of frames the peer sent: the reads
\* implement the abstract channel.
THEOREM RequestsImplemented == Spec => RequestsArrive
<1>1. Init => Requests!Init
  BY DEF Init, Requests!Init
<1>2. ASSUME Inv, [Next]_vars
      PROVE  [Requests!Next]_(Requests!vars)
  <2>1. CASE PeerSend
    <3>1. PICK m : frames' = Append(frames, m)
      BY <2>1 DEF PeerSend
    <3>2. frames \in Seq(Messages) /\ UNCHANGED posted
      BY <1>2, <2>1 DEF Inv, ReadSide, ReadTypes, PeerSend, logicVars
    <3>3. Len(frames') = Len(frames) + 1 /\ \A k \in 1..Len(frames) : frames'[k] = frames[k]
      BY <3>1, <3>2
    <3>. QED  BY <3>2, <3>3 DEF Requests!Next, Requests!Put
  <2>2. CASE PostMsgToQue
    BY <1>2, <2>2, PostIsNext DEF Inv, PostMsgToQue, peerVars, Requests!Next, Requests!Get
  <2>3. CASE UNCHANGED <<frames, posted>>
    BY <2>3 DEF Requests!vars
  <2>4. PeerSend \/ PostMsgToQue \/ UNCHANGED <<frames, posted>>
    BY <1>2 DEF Next, Io, Logic, Network, PeerGone, SpuriousWakeup, asyncReadLen,
         AsyncReadHead, AsyncReadBody, ReadError, CloseSocket, NotifyOne, Wait,
         Handle, Transmit, handleWrite, handleWriteError, vars, peerVars, logicVars
  <2>. QED  BY <2>1, <2>2, <2>3, <2>4
<1>. QED  BY <1>1, <1>2, Invariance, PTL DEF Spec, RequestsArrive, Requests!Spec

\* What the peer gets is the stream of answers Send took: the send queue
\* implements the abstract channel.
THEOREM RepliesImplemented == Spec => RepliesArrive
<1>1. Init => Replies!Init
  BY DEF Init, Replies!Init
<1>2. ASSUME Inv, [Next]_vars
      PROVE  [Replies!Next]_(Replies!vars)
  <2>1. CASE UNCHANGED <<accepted, written>>
    BY <2>1 DEF Replies!vars
  <2>2. CASE UNCHANGED written /\ \E a : accepted' = Append(accepted, a)
    <3>1. accepted \in Seq(Answers)
      BY <1>2 DEF Inv, WriteSide, WriteTypes
    <3>2. Len(accepted') = Len(accepted) + 1 /\ \A k \in 1..Len(accepted) : accepted'[k] = accepted[k]
      BY <2>2, <3>1
    <3>. QED  BY <2>2, <3>2 DEF Replies!Next, Replies!Put
  <2>3. ASSUME NEW i \in 1..Len(writes), Transmit(i)
        PROVE  [Replies!Next]_(Replies!vars)
    <3>1. WriteSide'
      BY <1>2, <2>3, TransmitWrites
    <3>2. UNCHANGED accepted /\ (UNCHANGED written \/ \E a : written' = Append(written, a))
      BY <2>3 DEF Transmit
    <3>3. CASE \E a : written' = Append(written, a)
      <4>1. PICK a : written' = Append(written, a)
        BY <3>3
      <4>2. written \in Seq(Answers) /\ written' \in Seq(Answers) /\ WrittenInv'
        BY <1>2, <3>1 DEF Inv, WriteSide, WriteTypes
      <4>3. Len(written') = Len(written) + 1 /\ written'[Len(written) + 1] = a
        BY <4>1, <4>2
      <4>4. a = accepted[Len(written) + 1] /\ Len(written) < Len(accepted)
        BY <3>2, <4>2, <4>3 DEF WrittenInv
      <4>. QED  BY <3>2, <4>1, <4>4 DEF Replies!Next, Replies!Get
    <3>. QED  BY <2>1, <3>2, <3>3
  <2>4. \/ UNCHANGED <<accepted, written>>
        \/ UNCHANGED written /\ \E a : accepted' = Append(accepted, a)
        \/ \E i \in 1..Len(writes) : Transmit(i)
    BY <1>2 DEF Next, Io, Logic, Network, PeerSend, PeerGone, SpuriousWakeup, asyncReadLen,
         AsyncReadHead, AsyncReadBody, ReadError, CloseSocket, PostMsgToQue, NotifyOne, Wait,
         Handle, Send, handleWrite, handleWriteError, vars, writeVars
  <2>. QED  BY <2>1, <2>2, <2>3, <2>4
<1>. QED  BY <1>1, <1>2, Invariance, PTL DEF Spec, RepliesArrive, Replies!Spec

-----------------------------------------------------------------------------
(* What a bad header ends *)

\* The safety half of RequestsHandled: neither a frame with a bad header nor any
\* frame behind one is ever posted, however the stream is cut (CSession.cpp
\* 165-200).
BadHeaderEnds ==
    \A k \in 1..Len(frames) : ~WellFormed(frames[k]) => Len(posted) < k

\* From end to end: an answer that has left answers a request of the peer, and
\* that request and all before it have good headers.
AnswersSound ==
    \A i \in 1..Len(written) :
        /\ written[i].req \in 1..Len(frames)
        /\ \A j \in 1..written[i].req : WellFormed(frames[j])

\* A body is read, and a message posted, for a good header only.
NodeSound == rd = "body" \/ io = "post" => WellFormed(node)

LEMMA SoundStep ==
    ASSUME Inv, NodeSound, BadHeaderEnds, [Next]_vars
    PROVE  NodeSound' /\ BadHeaderEnds'
<1>. USE DEF Inv, ReadSide
<1>1. CASE PeerSend
  <2>1. PICK m : frames' = Append(frames, m)
    BY <1>1 DEF PeerSend
  <2>2. /\ Len(frames') = Len(frames) + 1 /\ Len(frames) \in Nat
        /\ \A k \in 1..Len(frames) : frames'[k] = frames[k]
    BY <2>1 DEF ReadTypes
  <2>3. UNCHANGED <<rd, node, io, posted>> /\ Len(posted) <= Len(frames) /\ Len(posted) \in Nat
    BY <1>1 DEF PeerSend, readVars, logicVars, PostedInv, ReadTypes
  <2>. QED  BY <2>2, <2>3 DEF NodeSound, BadHeaderEnds, WellFormed
<1>2. CASE AsyncReadHead
  <2>1. UNCHANGED <<frames, posted, io>> /\ io = "idle"
    BY <1>2 DEF AsyncReadHead, peerVars, logicVars
  <2>2. ASSUME rd' = "body"
        PROVE  WellFormed(node')
    <3>1. PICK h \in Headers(mark), n \in Chunks :
            got + n >= want /\ ~Invalid(h) /\ ToShort(h.len) >= 0 /\ node' = h
      BY <1>2, <2>2 DEF AsyncReadHead
    <3>2. h \in Headings
      <4>1. /\ Len(posted) < Len(frames)
            /\ h = [id |-> frames[Len(posted) + 1].id, len |-> frames[Len(posted) + 1].len]
        BY <1>2, <3>1, HeaderIsNext DEF AsyncReadHead
      <4>2. frames[Len(posted) + 1] \in Messages
        BY <4>1 DEF ReadTypes
      <4>. QED  BY <4>1, <4>2 DEF Messages, Headings
    <3>3. ToShort(h.id) \in Int /\ ToShort(h.len) \in Int
      BY <3>2, ShortFits, HeadLen DEF ToShort
    <3>. QED  BY <3>1, <3>3, HeadLen DEF Invalid, WellFormed
  <2>. QED  BY <2>1, <2>2 DEF NodeSound, BadHeaderEnds, WellFormed
<1>3. CASE PostMsgToQue
  <2>1. /\ Len(posted) < Len(frames) /\ posted' = Append(posted, frames[Len(posted) + 1])
        /\ frames[Len(posted) + 1] \in Messages
    BY <1>3, PostIsNext
  <2>2. /\ UNCHANGED <<frames, node>> /\ io = "post"
        /\ rd' \in {rd, "head"} /\ io' \in {"notify", "idle"} /\ rd = "none"
    BY <1>3 DEF PostMsgToQue, peerVars, asyncReadFull, ReadInv
  <2>3. AtBody /\ WellFormed(node)
    BY <2>2 DEF ReadInv, NodeSound
  <2>4. WellFormed(frames[Len(posted) + 1])
    BY <2>3 DEF AtBody, WellFormed
  <2>5. Len(posted') = Len(posted) + 1 /\ Len(posted) \in Nat
    BY <2>1 DEF ReadTypes
  <2>. QED  BY <2>2, <2>4, <2>5 DEF NodeSound, BadHeaderEnds, WellFormed, ReadTypes
<1>4. CASE /\ UNCHANGED <<frames, posted, node>>
           /\ rd' \in {rd, "none", "head"}
           /\ io' = "post" => io = "post" \/ rd = "body"
  BY <1>4 DEF NodeSound, BadHeaderEnds, WellFormed
<1>. QED
  BY <1>1, <1>2, <1>3, <1>4 DEF Next, Io, Logic, Network, PeerGone, SpuriousWakeup,
     asyncReadLen, AsyncReadBody, ReadError, CloseSocket, NotifyOne, asyncReadFull, Wait,
     Handle, Transmit, handleWrite, handleWriteError, vars, peerVars, readVars, logicVars

LEMMA SoundHolds == Spec => [](NodeSound /\ BadHeaderEnds)
<1>1. Init => NodeSound /\ BadHeaderEnds
  BY DEF Init, NodeSound, BadHeaderEnds
<1>2. Inv /\ (NodeSound /\ BadHeaderEnds) /\ [Next]_vars => (NodeSound /\ BadHeaderEnds)'
  BY SoundStep
<1>. QED  BY <1>1, <1>2, Invariance, PTL DEF Spec

\* A bad header is the end of what the connection hands to LogicSystem.
THEOREM NothingPastBadHeader == Spec => []BadHeaderEnds
BY SoundHolds, PTL

\* No answer without a request, and none to what stands behind a bad header.
THEOREM OnlySoundAnswered == Spec => []AnswersSound
<1>1. ASSUME Inv, BadHeaderEnds
      PROVE  AnswersSound
  <2>1. SUFFICES ASSUME NEW i \in 1..Len(written)
                 PROVE  /\ written[i].req \in 1..Len(frames)
                        /\ \A j \in 1..written[i].req : WellFormed(frames[j])
    BY DEF AnswersSound
  <2>2. /\ i \in 1..Len(accepted) /\ written[i] = accepted[i]
        /\ accepted[i].req <= handled /\ accepted[i] \in Answers
    BY <1>1 DEF Inv, WriteSide, WriteTypes, WrittenInv, QueueInv
  <2>3. handled \in 0..Len(posted) /\ Len(posted) <= Len(frames)
        /\ Len(posted) \in Nat /\ Len(frames) \in Nat
    BY <1>1 DEF Inv, ReadSide, ReadTypes, PostedInv
  <2>4. written[i].req \in 1..Len(posted)
    BY <2>2, <2>3 DEF Answers
  <2>5. ASSUME NEW j \in 1..written[i].req
        PROVE  WellFormed(frames[j])
    BY <1>1, <2>3, <2>4 DEF BadHeaderEnds
  <2>. QED  BY <2>3, <2>4, <2>5
<1>. QED  BY <1>1, Invariance, SoundHolds, PTL
=============================================================================

-------------------------------- MODULE Wire --------------------------------
(***************************************************************************)
(* One connection of the chat server, byte by byte: how CSession cuts the  *)
(* stream of its peer into messages (asyncReadLen, AsyncReadHead,          *)
(* AsyncReadBody), how LogicSystem hands them from the io thread to the    *)
(* logic thread (PostMsgToQue, DealMsg), and how the answers leave through *)
(* the send queue (Send, handleWrite).  A frame is HEAD_ID_LEN bytes of    *)
(* id, HEAD_DATA_LEN bytes of length, and the body.                        *)
(*                                                                         *)
(* A byte is known by its position in the stream, so a message is known by *)
(* the position of its frame: what is posted equals what was sent exactly  *)
(* if no byte was skipped, repeated or given to another message.           *)
(***************************************************************************)
EXTENDS Integers, Sequences, FiniteSets

CONSTANTS
    HEAD_ID_LEN, HEAD_DATA_LEN,
    MAX_LENGTH,     \* bytes of _data, and the limit of ids and lengths
    MAX_SENDQUE,    \* the cap of the send queue
    SHORT,          \* 2^15: a short runs from -SHORT to SHORT - 1
    Heads,          \* headers a peer writes: [id, len], as unsigned numbers
    AnswerLens,     \* lengths of answers
    MaxFrames       \* bound of the model: frames a peer writes

HEAD_TOTAL_LEN == HEAD_ID_LEN + HEAD_DATA_LEN

ASSUME WireAssumption ==
    /\ HEAD_ID_LEN \in Nat \ {0} /\ HEAD_DATA_LEN \in Nat \ {0}
    /\ MAX_LENGTH \in Nat /\ MAX_LENGTH >= HEAD_TOTAL_LEN
    /\ MAX_SENDQUE \in Nat /\ MaxFrames \in Nat
    /\ SHORT \in Nat /\ MAX_LENGTH < SHORT
    /\ Heads \subseteq [id : 0..(2 * SHORT - 1), len : 0..(2 * SHORT - 1)]
    /\ AnswerLens \subseteq 0..(SHORT - 1 - HEAD_TOTAL_LEN)

VARIABLES
    (* the peer *)
    frames,     \* Seq of [id, len, from]: what it wrote, from its first byte
    total,      \* bytes it wrote
    gone,       \* it has disconnected
    (* CSession, the read *)
    rd,         \* the outstanding read: head, body; none; endless: a body
                \* that is never full; dead: the process has ended
    mark, got,  \* position of _data[0], bytes read into _data
    want,       \* total_len of the read
    node,       \* _recv_msg_node: [id, len] of the header just read
    sock,       \* open, closed
    io,         \* place of the io thread in a handler
    (* LogicSystem *)
    posted,     \* everything that was pushed to _msg_que
    handled,    \* how much of it was popped
    worker,     \* the logic thread: asleep in _consume, awake, handle
    (* CSession, the writes *)
    send_que,
    writes,     \* outstanding async_writes: Seq of [msg, left]
    accepted,   \* history: what Send took
    written,    \* history: what has left as a whole frame
    dropped     \* history: number of answers Send dropped

peerVars == <<frames, total, gone>>
readVars == <<rd, mark, got, want, node>>
logicVars == <<posted, handled, worker>>
writeVars == <<send_que, writes, accepted, written, dropped>>
vars == <<peerVars, readVars, sock, io, logicVars, writeVars>>

NoNode == [id |-> 0, len |-> 0]

Init ==
    /\ frames = <<>> /\ total = 0 /\ gone = FALSE
    /\ rd = "head" /\ mark = 0 /\ got = 0 /\ want = HEAD_TOTAL_LEN /\ node = NoNode
    /\ sock = "open" /\ io = "idle"
    /\ posted = <<>> /\ handled = 0 /\ worker = "awake"
    /\ send_que = <<>> /\ writes = <<>> /\ accepted = <<>> /\ written = <<>>
    /\ dropped = 0

-----------------------------------------------------------------------------
(* The peer *)

PeerSend ==
    /\ ~gone /\ sock = "open" /\ Len(frames) < MaxFrames
    /\ \E h \in Heads :
         /\ frames' = Append(frames, [id |-> h.id, len |-> h.len, from |-> total])
         /\ total' = total + HEAD_TOTAL_LEN + h.len
    /\ UNCHANGED <<gone, readVars, sock, io, logicVars, writeVars>>

PeerGone ==
    /\ ~gone
    /\ gone' = TRUE
    /\ UNCHANGED <<frames, total, readVars, sock, io, logicVars, writeVars>>

-----------------------------------------------------------------------------
(* CSession: reads.  A handler runs on the io thread, when it is idle. *)

Alive == rd # "dead"

\* Two bytes taken for a short.
ToShort(w) == IF w < SHORT THEN w ELSE w - 2 * SHORT

\* What the bytes from p on say when they are taken for a header: the header of
\* the frame that begins there, or anything if none does.
Headers(p) ==
    LET at == {k \in 1..Len(frames) : frames[k].from = p} IN
    IF at = {} THEN Heads
    ELSE {[id |-> frames[k].id, len |-> frames[k].len] : k \in at}

\* asyncReadFull(n), n bytes having been read into _data before.
asyncReadFull(kind, n, before) ==
    /\ rd' = kind /\ want' = n
    /\ mark' = mark + before /\ got' = 0

\* Mutant: each async_read_some of a read is given all of total_len again.
RoomWhole == want

\* The room async_read_some is given.
Room == want - got

\* Mutant: a read without room waits for bytes.
ChunksNonEmpty == {n \in 1..Room : mark + got + n <= total}

\* What one async_read_some may bring; with no room it completes at once.
Chunks ==
    IF want = 0 THEN {0} ELSE {n \in 1..Room : mark + got + n <= total}

\* Fewer bytes than asked for: read on.
asyncReadLen ==
    /\ Alive /\ io = "idle" /\ rd \in {"head", "body"}
    /\ \E n \in Chunks : got + n < want /\ got' = got + n
    /\ UNCHANGED <<peerVars, rd, mark, want, node, sock, io, logicVars, writeVars>>

\* Mutant: the length is not looked at.
InvalidId(h) == ToShort(h.id) > MAX_LENGTH

Invalid(h) == ToShort(h.id) > MAX_LENGTH \/ ToShort(h.len) > MAX_LENGTH

\* The header is complete.  With an id or a length above MAX_LENGTH the handler
\* returns and reads no more; with a negative length no RecvNode can be made and
\* the exception ends the handler.  A length of -1 makes an empty array and
\* writes before it: the process may end, or read a body of the largest size.
AsyncReadHead ==
    /\ Alive /\ io = "idle" /\ rd = "head"
    /\ \E n \in Chunks :
         /\ got + n >= want
         /\ \E h \in Headers(mark) :
              LET len == ToShort(h.len) IN
              \/ /\ ~Invalid(h) /\ len >= 0
                 /\ node' = h /\ asyncReadFull("body", len, got + n)
              \/ /\ Invalid(h) \/ len < -1
                 /\ rd' = "none" /\ got' = got + n
                 /\ UNCHANGED <<mark, want, node>>
              \/ /\ ~Invalid(h) /\ len = -1
                 /\ rd' \in {"dead", "endless"} /\ got' = got + n
                 /\ UNCHANGED <<mark, want, node>>
    /\ UNCHANGED <<peerVars, sock, io, logicVars, writeVars>>

\* The body is complete: the handler is about to post the message.
AsyncReadBody ==
    /\ Alive /\ io = "idle" /\ rd = "body"
    /\ \E n \in Chunks : got + n >= want /\ got' = got + n
    /\ rd' = "none" /\ io' = "post"
    /\ UNCHANGED <<peerVars, mark, want, node, sock, logicVars, writeVars>>

\* An error, or the end of the stream, before the read is full: Close.
ReadError ==
    /\ Alive /\ io = "idle"
    /\ rd = "endless" \/ (rd \in {"head", "body"} /\ want > 0)
    /\ gone \/ sock = "closed"
    /\ rd' = "none" /\ io' = "close"
    /\ UNCHANGED <<peerVars, mark, got, want, node, sock, logicVars, writeVars>>

\* The end of Close; ChatServer has the rest of it.
CloseSocket ==
    /\ Alive /\ io = "close"
    /\ sock' = "closed" /\ io' = "idle"
    /\ UNCHANGED <<peerVars, readVars, logicVars, writeVars>>

-----------------------------------------------------------------------------
(* LogicSystem: a handler runs with _mutex held *)

Queued == Len(posted) - handled

\* Mutant: the worker is notified when a second message comes.
IsSecond == Queued = 1

\* _msg_que.size() == 1 after the push.
IsFirst == Queued = 0

PostMsgToQue ==
    /\ Alive /\ io = "post" /\ worker # "handle"
    /\ posted' = Append(posted, [id |-> node.id, len |-> node.len,
                                 from |-> mark - HEAD_TOTAL_LEN])
    /\ IF IsFirst
       THEN io' = "notify" /\ UNCHANGED <<rd, mark, got, want>>
       ELSE io' = "idle" /\ asyncReadFull("head", HEAD_TOTAL_LEN, got)
    /\ UNCHANGED <<peerVars, node, sock, handled, worker, writeVars>>

\* _consume.notify_one(), after the unlock, then the read of the next header.
NotifyOne ==
    /\ Alive /\ io = "notify"
    /\ worker' = IF worker = "asleep" THEN "awake" ELSE worker
    /\ io' = "idle" /\ asyncReadFull("head", HEAD_TOTAL_LEN, got)
    /\ UNCHANGED <<peerVars, node, sock, posted, handled, writeVars>>

\* DealMsg: wait while the queue is empty.
Wait ==
    /\ Alive /\ worker = "awake"
    /\ worker' = IF Queued = 0 THEN "asleep" ELSE "handle"
    /\ UNCHANGED <<peerVars, readVars, sock, io, posted, handled, writeVars>>

SpuriousWakeup ==
    /\ Alive /\ worker = "asleep"
    /\ worker' = "awake"
    /\ UNCHANGED <<peerVars, readVars, sock, io, posted, handled, writeVars>>

-----------------------------------------------------------------------------
(* CSession: writes.  Send runs on the logic thread, handleWrite on the io   *)
(* thread, both under _send_lock.                                            *)

\* SendNode: the frame of an answer.
FrameLen(a) == HEAD_TOTAL_LEN + a.len

\* async_write of the front of queue q, beside the writes ws.
async_write(ws, q) == Append(ws, [msg |-> Head(q), left |-> FrameLen(Head(q))])

\* Mutants: the cap bites one message early; a write is started for every Send.
SendCapEarly(a) ==
    IF Len(send_que) >= MAX_SENDQUE
    THEN dropped' = dropped + 1 /\ UNCHANGED <<send_que, writes, accepted>>
    ELSE /\ send_que' = Append(send_que, a) /\ accepted' = Append(accepted, a)
         /\ writes' = IF send_que = <<>> THEN async_write(writes, send_que') ELSE writes
         /\ UNCHANGED dropped
SendAlwaysWrites(a) ==
    IF Len(send_que) > MAX_SENDQUE
    THEN dropped' = dropped + 1 /\ UNCHANGED <<send_que, writes, accepted>>
    ELSE /\ send_que' = Append(send_que, a) /\ accepted' = Append(accepted, a)
         /\ writes' = async_write(writes, send_que')
         /\ UNCHANGED dropped

Send(a) ==
    IF Len(send_que) > MAX_SENDQUE
    THEN dropped' = dropped + 1 /\ UNCHANGED <<send_que, writes, accepted>>
    ELSE /\ send_que' = Append(send_que, a) /\ accepted' = Append(accepted, a)
         /\ writes' = IF send_que = <<>> THEN async_write(writes, send_que') ELSE writes
         /\ UNCHANGED dropped

\* The call back of the message at the front, and the pop.  Not every message has
\* a call back or an answer.
Handle ==
    /\ Alive /\ worker = "handle"
    /\ \/ UNCHANGED <<send_que, writes, accepted, dropped>>
       \/ \E l \in AnswerLens : Send([req |-> handled + 1, len |-> l])
    /\ handled' = handled + 1
    /\ worker' = "awake"
    /\ UNCHANGED <<peerVars, readVars, sock, io, posted, written>>

\* Some bytes of write i leave.  If another write has sent only a part of its
\* frame, the peer cannot take either for a frame.
Torn(i) ==
    \E j \in 1..Len(writes) \ {i} :
        writes[j].left > 0 /\ writes[j].left < FrameLen(writes[j].msg)

Transmit(i) ==
    /\ Alive /\ sock = "open" /\ i \in 1..Len(writes)
    /\ \E n \in 1..writes[i].left :
         /\ writes' = [writes EXCEPT ![i].left = @ - n]
         /\ written' = IF n < writes[i].left THEN written
                       ELSE Append(written, IF Torn(i) THEN NoNode ELSE writes[i].msg)
    /\ UNCHANGED <<peerVars, readVars, sock, io, logicVars, send_que, accepted, dropped>>

\* Mutants: the front is written again before the pop; the next is not written.
handleWriteAgain(i) ==
    /\ Alive /\ io = "idle" /\ i \in 1..Len(writes) /\ writes[i].left = 0
    /\ send_que' = Tail(send_que)
    /\ writes' = IF send_que' = <<>> THEN <<>> ELSE async_write(<<>>, send_que)
    /\ UNCHANGED <<peerVars, readVars, sock, io, logicVars, accepted, written, dropped>>
handleWriteStops(i) ==
    /\ Alive /\ io = "idle" /\ i \in 1..Len(writes) /\ writes[i].left = 0
    /\ send_que' = Tail(send_que)
    /\ writes' = SubSeq(writes, 1, i - 1) \o SubSeq(writes, i + 1, Len(writes))
    /\ UNCHANGED <<peerVars, readVars, sock, io, logicVars, accepted, written, dropped>>

handleWrite(i) ==
    /\ Alive /\ io = "idle" /\ i \in 1..Len(writes) /\ writes[i].left = 0
    /\ send_que' = Tail(send_que)
    /\ LET rest == SubSeq(writes, 1, i - 1) \o SubSeq(writes, i + 1, Len(writes)) IN
       writes' = IF send_que' = <<>> THEN rest ELSE async_write(rest, send_que')
    /\ UNCHANGED <<peerVars, readVars, sock, io, logicVars, accepted, written, dropped>>

\* The write fails: Close, and the message stays at the front of the queue.
handleWriteError(i) ==
    /\ Alive /\ io = "idle" /\ i \in 1..Len(writes) /\ writes[i].left > 0
    /\ gone \/ sock = "closed"
    /\ writes' = SubSeq(writes, 1, i - 1) \o SubSeq(writes, i + 1, Len(writes))
    /\ io' = "close"
    /\ UNCHANGED <<peerVars, readVars, sock, logicVars, send_que, accepted, written, dropped>>

-----------------------------------------------------------------------------

\* The io thread, the logic thread, and the socket that takes bytes.
Io ==
    \/ asyncReadLen \/ AsyncReadHead \/ AsyncReadBody \/ ReadError \/ CloseSocket
    \/ PostMsgToQue \/ NotifyOne
    \/ \E i \in 1..Len(writes) : handleWrite(i) \/ handleWriteError(i)
Logic == Wait \/ Handle
Network == \E i \in 1..Len(writes) : Transmit(i)

Next == PeerSend \/ PeerGone \/ SpuriousWakeup \/ Io \/ Logic \/ Network

Spec == Init /\ [][Next]_vars

\* Both threads are scheduled and asio completes what can complete; a peer that
\* has not disconnected reads what it is sent.  Peers need not send anything.
Fairness == WF_vars(Io) /\ WF_vars(Logic) /\ WF_vars(Network)

FairSpec == Spec /\ Fairness

-----------------------------------------------------------------------------
(* Types *)

Headings == [id : 0..(2 * SHORT - 1), len : 0..(2 * SHORT - 1)]
Messages == [id : 0..(2 * SHORT - 1), len : 0..(2 * SHORT - 1), from : Nat]
Answers == [req : Nat \ {0}, len : AnswerLens]
Writes == [msg : Answers, left : Nat]

\* Type invariant.
TypeOK ==
    /\ frames \in Seq(Messages) /\ total \in Nat /\ gone \in BOOLEAN
    /\ rd \in {"head", "body", "none", "endless", "dead"}
    /\ mark \in Nat /\ got \in Nat /\ want \in 0..MAX_LENGTH
    /\ node \in Headings
    /\ sock \in {"open", "closed"} /\ io \in {"idle", "post", "notify", "close"}
    /\ posted \in Seq(Messages) /\ handled \in 0..Len(posted)
    /\ worker \in {"asleep", "awake", "handle"}
    /\ send_que \in Seq(Answers) /\ writes \in Seq(Writes)
    /\ accepted \in Seq(Answers) /\ written \in Seq(Answers) /\ dropped \in Nat

-----------------------------------------------------------------------------
(* Properties *)

Requests == INSTANCE Channel WITH input <- frames, output <- posted
Replies == INSTANCE Channel WITH input <- accepted, output <- written

\* However the stream of the peer is cut into pieces, what AsyncReadHead and
\* AsyncReadBody post is what the peer sent, message by message, in order,
\* nothing twice and nothing left out (CSession.cpp 107-200, 268-289).
RequestsArrive == Requests!Spec

\* The peer gets the answers that Send took as whole frames in that order,
\* although Send and handleWrite run on two threads: no frame is written twice,
\* skipped, or torn by another (CSession.cpp 49-64, 202-225).
RepliesArrive == Replies!Spec

\* Answers keep the order of the requests, no request has two answers, and none
\* is answered before its handler ran, also when the cap has dropped answers in
\* between.
AnswersInOrder ==
    /\ \A i, j \in 1..Len(written) : i < j => written[i].req < written[j].req
    /\ \A i \in 1..Len(written) : written[i].req <= handled

\* Send drops an answer only while the peer is at least MAX_SENDQUE answers
\* behind (the full queue of CSession.cpp:52).
DropsOnlyWhenBehind ==
    [][dropped' # dropped => Len(accepted) - Len(written) >= MAX_SENDQUE]_vars

\* No read of a header or a body is given more room than _data has, whatever the
\* 16 bits of the length are: the test against MAX_LENGTH is enough for all of
\* them but -1, whose read is the "endless" one (CSession.cpp 172-193).
ReadFits == rd \in {"head", "body"} => got <= want /\ want <= MAX_LENGTH

\* The logic thread never sleeps on a queue that has a message, unless the
\* notification is on its way: one notification per message that finds the queue
\* empty is enough (LogicSystem.cpp 20-28).
HandlerWoken == worker = "asleep" /\ Queued > 0 => io = "notify"

WellFormed(m) ==
    /\ ToShort(m.id) <= MAX_LENGTH
    /\ ToShort(m.len) >= 0 /\ ToShort(m.len) <= MAX_LENGTH

\* A peer sends MaxFrames frames at most.  If it stays and the process lives, then
\* in the end every request is handled that stands before the first frame with a
\* bad header: such a header is the only thing that ends the reading.
RequestsHandled ==
    LET Sound == {k \in 1..Len(frames) : \A j \in 1..k : WellFormed(frames[j])} IN
    <>[](gone \/ ~Alive \/ handled = Cardinality(Sound))

\* Likewise, in the end every answer that Send took is written.
AnswersWritten == <>[](gone \/ ~Alive \/ written = accepted)
=============================================================================

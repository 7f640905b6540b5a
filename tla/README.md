# TLA+ verification of the chat system

A login gate over HTTP, a verification service that mails codes, a status server that hands out
tokens, and two chat servers over TCP, with Redis and MySQL behind them. This directory holds TLA+
models of the parts with interesting behaviour, TLC runs over small instances of them, and TLAPS proofs
for every value of the constants.

- `*.tla` without a prefix or suffix: the models. `MC_*.tla`: what a run needs beside its model.
  `*_proofs.tla`: theorems.
- `tlc -config ChatServer_close.cfg MC_ChatServer.tla` repeats a run, `tlapm Gate_proofs.tla` a proof.
- `PROJECT.json` lists components, runs, mutants, findings, hazards, theorems, and which lines of the
  source every definition stands for.

## 1. The system

    client --HTTP--> gate --gRPC--> verification service --> Redis (code_<mail>), SMTP
       |               |----gRPC--> status server ---------> Redis (utoken_<uid>, logincount)
       |               |----------> Redis (code_<mail>), MySQL (accounts)
       +--TCP---> chat server 1, 2 -----------------------> Redis (utoken_, uip_, ubaseinfo_, logincount), MySQL

Paths below are relative to `src/`. `ChatServer2/code` is byte for byte `ChatServer/code`; what is said of a
chat server holds for both.

| Component | State | Operations | Hard about it |
|---|---|---|---|
| Chat server, connections (`ChatServer/code/ChatServer/CServer.cpp`, `CSession.cpp`) | sockets, `m_sessions`, per session a read, a queue `_send_que`, `_user_uid` | accept, read header and body, `Send`, `handleWrite`, `Close`, `clearSession` | accept loop, io threads and logic thread all touch a session; `Close` runs more than once; the session reads before it is inserted |
| Chat server, logic (`LogicSystem.cpp`, `UserMgr.cpp`) | `_msg_que`, `m_uids`; Redis `logincount`, `uip_`, `ubaseinfo_` | `PostMsgToQue`, `DealMsg`, `LoginHandler`, `SearchInfo` | one thread, handlers under the queue's lock; read-modify-write of `logincount` in two calls; results of MySQL that are null or were never made |
| Chat server, one connection (`CSession.cpp`, `MsgNode.cpp`, `LogicSystem.cpp`) | `_data`, the read, `_msg_que` with `_consume`, `_send_que` and the outstanding write | `asyncReadLen`, `AsyncReadHead`, `AsyncReadBody`, `PostMsgToQue`, `DealMsg`, `Send`, `handleWrite` | a stream cut anywhere, signed 16-bit ids and lengths, one notification per message that finds the queue empty, `Send` and `handleWrite` on two threads |
| Connection pools (`RedisMgr.h`, `MysqlDao.h`, `StatusConPool.cpp` and others: copies of one protocol) | queue, mutex, condition variable, `b_stop_` | `getConnection`, `returnConnection`, ping, `Close` | lost wakeups, exclusive use, what `Close` does to those who wait |
| Gate (`ChatProjectNetWork/code/ChatServer/HttpConnection.cpp`, `LogicSystem.cpp`) | connections, accounts in MySQL, a reply shared by all threads in `RedisMgr` | `/get_verifycode`, `/user_register`, `/reset_pwd`, `/user_login`, `/get_test`, the deadline | handlers block an io thread; the Redis pool is emptied by leaks; replies are read across threads |
| Verification service (`varifyServer/*.js`) | Redis `code_`, the state of the client | `GetVarifyCode` | calls overlap at every `await`; SET and EXPIRE are two commands; the client closes for good on an error |
| Status server (`StatusServer/code/ChatServer/StatusServiceImpl.cpp`) | `_servers`, `_tokens`; Redis `utoken_`, `logincount` | `GetChatServer`, `Login` | counts read one by one; Redis and `_tokens` written in no common order |
| Process of a chat server (`ChatServer/code/ChatServer.cpp`, `AsioIOServicePool.cpp`) | threads, `logincount` field | start, signal, stop | a stop that races with logins and does not return |
| Not run: the status server's copies of gate code, `ChatServiceImpl`, `ChatGrpcClient`, `heartbeat_checker` | | | dead or stub code |
| Configuration, logging, generated code | | | none |

How they meet: the gate and the verification service by one RPC, which the gate waits for on its io thread;
the status server and the chat servers by Redis only (a token written by the one and compared by the others,
a count written by the others and read by the one); threads of one chat server by `m_sessions`, `m_uids`,
`_msg_que`, `_user_uid` and the send queues.

What makes each correct: nobody is registered for a uid without its token, a registered user stays
reachable, what is closed is gone from both tables, the count counts, every message is handled (chat server);
connections are exclusive, none is lost, no wakeup is lost, everybody is served (pools); a code is checked,
an account changes only through its address, every request is answered (gate); the code that is left was
mailed and expires (verification service); messages and answers arrive whole, once and in order (connection);
a client is sent to a server that was not busier than the others, its ticket gets it in, and only a server that
serves has a count (status server and processes).

## 2. The modules

| Module | Models | Used by |
|---|---|---|
| `ChatServer` | one chat server: `CServer`, `CSession`, `LogicSystem`, `UserMgr`, its Redis keys | `MC_ChatServer`, `ChatServer_proofs` |
| `Directory` | who is found under a uid, and by what right (abstract) | `ChatServer` (refinement), `Directory_proofs` |
| `Pool` | what a connection pool promises (abstract) | `ConPool` (refinement) |
| `ConPool` | the pool of `RedisMgr.h` with locks and condition variables | `MC_ConPool`, `ConPool_proofs` |
| `VerifyService` | the node process | `Gate`, `VerifyService_proofs` |
| `Gate` | the gate, composed with `VerifyService` | `MC_Gate`, `Gate_proofs` |
| `Channel` | what a reliable stream promises (abstract) | `Wire` (refinement, twice) |
| `Wire` | one connection of a chat server, byte by byte | `MC_Wire`, `Wire_proofs` |
| `Cluster` | the status server, the chat server processes, clients, and the Redis keys between them | `MC_Cluster`, `Cluster_proofs` |

`ChatServer` has many sessions and whole messages, `Wire` one session and its bytes, `Cluster` many
processes and, per session, its login and the count. Each abstracts the steps the others detail.

### ChatServer

An action is a piece of a handler between two accesses to something another thread touches. A session runs on
the io thread `IoOf(s)` (round robin, as `GetIOService`); a completion handler of a session starts only when
no session of that thread is inside `Close` (`IoIdle`), since a handler runs to its end.

- *Accept.* `StartSession` is `new_session->Start()` and `InsertSession` the insertion under `m_mtx`, two steps as
  in `hanldeAccept`.
- *Reads.* `rd[s]` is the outstanding read. `Receive` completes a message and posts it (`PostMsgToQue` needs the
  logic thread outside its handlers, which hold `_mutex`); `BadHeader` returns without a new read;
  `ReadError` calls `Close`. An operation started on a closed socket fails at once (`Started`).
- *Writes.* `Send` drops above the cap, appends, and starts a write if the queue was empty; `WriteOk` pops and
  starts the next; `WriteError` calls `Close` and leaves its message at the front.
- *Close.* `CloseFind` (the search without the lock, which can miss while the table changes), `CloseRemove`
  (`removeUserSession` with the uid read before), `CloseErase`, `CloseReadCount`, `CloseWriteCount`, `CloseSocket`.
  `CloseThrow` is an error reply to the HGet: `stoi` throws on its text, and Close ends there, with the socket open.
- *Logic thread.* `wpc` is the place in the handler, the message stays at the head of `msg_que`
  meanwhile. `LoginHandler` compares the token, then `ReadCount`, `WriteCount`, `SetUserId`, `setUserSession`,
  `Reply`. `SearchInfo` is `GetUserByUid` up to its own `ReadCount`. `DropMsg` is a message without a handler or
  a login that does not parse. `HandlerCrash` is what ends the process there: members of a wrong JSON
  type, `stoi` of an empty or too long uid or of an error reply, a user that `GetUser` never made (it runs off
  its end for a uid without a row), the null it gives when MySQL fails. `FindCrash` is the second unlocked access
  of `clearSession`, `m_sessions[uuid]` on an io thread, which calls a null session if it misses what `find` saw.
- *Environment.* `IssueToken` (the status server), `Disconnect` (the peer), and Redis or MySQL calls that fail
  while `MaxFaults` lasts.

History variables (`authed`, `told`, `closes`, `missed`, `late`, `raced`, `tally`, `extra`, `short`) are written and
never read by the guards; the properties are about them. `extra` counts what raised `login_count` without
bringing anybody online (`~Comes`): searches, second logins of a session, and logins handled after a Close of
their session had lowered it. `short` counts what lowered it without anybody going: a Close of a session
that was closed before, or that nobody was logged in on yet.

`Directory` has none of the queues, threads and Redis calls: a session shows a token, is entered, is told so, begins
to close, and is removed. `ChatServer` implements it (`D == INSTANCE Directory WITH entry <- m_uids, shown <- authed,
closing <- {s \in Sessions : closes[s] > 0}, ...`, `DirectoryKept == D!Spec`).

### ConPool and Pool

`mutex_` is a variable where it is held across a step: by a caller that has found the queue empty and is
about to sleep (`FindEmpty`, `Block`) and by the ping. Everything else under the lock is one action that
needs it free. `notify_one` chooses any sleeping caller, who then has to get the lock against others. Callers call
without limit. `PingEnd` puts back what it pinged; with `PingThrows` it may drop a connection whose ping threw and
for which no new one could be opened.
`Close` is three actions, none of which takes the mutex: set the flag, notify, join. Callers in `Leaky` do not
return connections, as every method of the gate's `RedisMgr`. In `Pool` a caller takes a connection, gives it
back, and loses it only if it is in `Leaky` or the pool was stopped; a connection of the queue may be lost to a ping; `ConPool` implements it (`P == INSTANCE Pool
WITH free <- free, con <- con, stop <- stop`; every other variable is hidden).
The other pools (`MySqlPool`, `StatusConPool`, `ChatConPool`, `RPConPool`, the gate's `RedisConPool`) have the same two operations.

### VerifyService and Gate

`VerifyService` has one action per `await`: `GetRedis`, `SetCode`, `Expire`, `SendMail`, with a variant
for each way it fails. `redisCli` is closed by the first error and then rejects every command, and an open one
may reject a single command (`rejected`); `Restart` is
the node process dying and being started again. The cut of the uuid to four digits is the choice of a code from
`Codes`.

`Gate` EXTENDS it: `get_verifycode` starts a call, `VerifyAnswered` waits for it. `hpc[r]` is the place of the
handler of connection `r`; `HandleReq` needs the io thread free (`readEnds`). A connection is `dropped`, without an
answer or a deadline, when its read failed (`ReadFails`) or its handler threw on JSON that is no object (`HandlerThrows`).
`RedisCommand` and `RedisReply` are the two
halves of `RedisMgr::Get`: the connection taken and the reply stored in the shared member, and the value read
and the reply freed. Between them another thread may replace or free it: what is read of a freed reply is any
value, and `Crash` is the other outcome. `RegUser`, `checkEmail`, `updatePasswd`, `checkPwd` are the MySQL
statements; a failing one may or may not have had its effect. `body[r]` is the sequence of documents written,
because a failed registration writes two. A path without a handler is answered by `UrlNotFound`, GET of
`/get_test` by `get_test`; `UrlDecodeAborts` is the assertion of `UrlDecode`, which a build without
assertions passes.

### Wire and Channel

A byte is known by its position, a message by that of its frame. `PeerSend` adds a frame to the stream, the
reads see any number of the bytes that are there (`Chunks`): `asyncReadLen` a part, `AsyncReadHead` and
`AsyncReadBody` the rest. `asyncReadFull` is the start of a read, with `mark` the position of `_data[0]`. Where no
frame begins at `mark`, the header is any header. `ToShort` is the sign of a `short`; a length below -1 throws
out of the handler, -1 makes an array of no bytes and writes before it (undefined: the process ends, or
the read never fills). `PostMsgToQue`, `NotifyOne`, `Wait`, `Handle` are the hand-over with `_mutex` and `_consume`: the
notification comes after the unlock, and spurious wakeups happen. `Send` and `handleWrite` work on `send_que` and
`writes`, a sequence so that a second outstanding write would be possible and visible (`Torn`).

`Channel` is a stream: what is put in comes out once and in order. `Wire` implements it twice, `Requests` from
`frames` to `posted` and `Replies` from `accepted` to `written`.

### Cluster

A client is one attempt to get in: one `GetChatServer` call, whose name is its token, one connection, one login, and
the `Searches` it makes, each of which may raise the count. The status server is `LockServers`, `HGetCount` for each
server in the order of the map (`HGetThrow`: an error reply ends the call), `UnlockServers`, `SetToken`;
it drains, dies and is started. A session is `open`, in the two Redis calls of its Close, `closed`, or `stuck`: after a bad
header, or a Close that threw, it is connected and nothing is read from it. `answer` is whether a write is
outstanding; one that fails (`ClientLost`, `WriteAborted`) begins a Close, the second one of a session that was closed.
`pool.Stop` returns when no session of the process has a read, a write or a Close (`SessionsOf`), so a stuck one
does not keep it. A chat server process is `main`: `StartProcess` sets the count, `Signal` is
the handler with `io_context.stop` and `pool.Stop`, `DeleteCount` comes after the join of the io threads,
`CloseRedis` after it, and then main waits for a gRPC server nobody shuts down ("join") until it is killed
(`Crash`). `StartInVain` is a second process started beside it: it sets the count before it fails on the port.
The logic thread is stopped by nothing; after `CloseRedis` its Redis calls give nothing (`Closed`).
`seen` collects the counts each server had during a scan, `owed` the tickets that must get their
client in, `stale` the servers whose count may have been left behind.

## 3. The runs

| Run | Instance | Shows |
|---|---|---|
| `chat_close` | 2 sessions on 2 io threads, 1 user, 2 logins (1.4 M states) | `BoundOnlyIfAuthenticated`, `UnboundAfterClose`, `ClosedSessionErased`, `CountExactWithoutOverlap`, `CountNearOnline`, `ClosedAtMostTwice`, `LoggedInIsReachable` |
| `chat_live` | 1 session, all kinds of message, a uid without account, one failure (0.3 M) | `TypeOK`, `CountNotInflated`, `EveryRequestHandled`, `DisconnectNoticed` |
| `chat_others` | as `chat_close` | `CloseKeepsOthers` is violated |
| `chat_online` | as `chat_close` | `CountIsOnline` is violated |
| `pool` | 4 callers, one of them leaky, 2 connections, pings that throw, Close at any time, any number of calls and spurious wakeups (14 409) | `TypeOK`, `Exclusive`, `NoLostWakeup`, `SleepersHaveCause`, `NothingLost`, `Implements`, `StarvedOnlyByTakers` |
| `pool_leak` | 1 leaky caller, 5 connections | `NobodyWaitsForNobody` is violated |
| `pool_stop` | 2 callers, 1 connection, Close | `StoppedCallReturns` is violated |
| `gate` | 37 pairs of requests on one io thread or two, a code for each of two mailboxes, one failure anywhere (0.4 M) | `GateTypeOK`, `StoredCodeMailed`, `CodeWillExpire`, `CodeChecked`, `ChangedByOwner`, `AccountByMailbox`, `EveryRequestAnswered` |
| `gate_register` | as `gate`, without fairness | `SuccessMeansRegistered` is violated |
| `wire` | 1 connection, 4 frames with good and bad headers, `short` of 3 bits, a send queue of 2, any cut (0.5 M) | `TypeOK`, `RequestsArrive`, `RepliesArrive`, `AnswersInOrder`, `DropsOnlyWhenBehind`, `ReadFits`, `HandlerWoken`, `RequestsHandled`, `AnswersWritten` |
| `cluster` | 2 chat servers, 2 attempts of one user, no searches, one signal or crash, one failing Redis command (1.7 M) | `TypeOK`, `ChosenWasLeast`, `CountOfTheServing`, `TicketAdmits` |
| `cluster_stop` | 1 chat server, 1 client with 2 searches, two signals or crashes, two failing Redis commands (0.2 M) | `CountOfTheServing`, `StopWaitsForClients` |

Why the bounds are enough. Every race in the chat server is between two sessions, or between one and the
logic or accept thread; two sessions on two io threads give all of
them. On one thread the same steps come in fewer orders: the Close of one session holds up the other.
`MAX_SENDQUE = 0` makes the cap `>` bite at the second answer. A token is missing or current; one that is
replaced while a login with it is posted is for `cluster`, where two attempts of one user have a token each, and
`Authenticated` is proved for any number of tokens.
One user is shared by the two sessions, or logs in on one while the other closes without a login; what several
users add, which uid a Close removes, is in `ReachableAfterLogin`, proved for any number of them. In the pool the interesting
case is two callers that sleep while a third overtakes the one that was woken, as often as it likes: four callers, two
connections. Nothing bounds the calls there: the states repeat. The gate needs two requests to overlap on the shared reply; three Redis connections (the code
has five) and two MySQL connections are enough for both requests to go through and for leaks to show.
`Wire` needs four frames to have three answers queued or dropped at a cap that lets two in, and a header of every sort:
with a `short` of three bits and `MAX_LENGTH = 2` the lengths are 0, 2, too long, -2 and -1. `Cluster` needs two clients for
overlapping calls and updates, two servers for a choice, and one stop, since each way a count is left behind needs one;
searches, stuck sessions and the second Close of a session concern one server, where a session with three messages
and room for a second stop or failure is enough.
One failure per behaviour elsewhere: each property says what holds when nothing or one thing fails.

Fairness. *ChatServer:* weak fairness of the accept loop, the logic thread, the steps of `Close` and the
completion of operations that failed: threads are scheduled and asio completes what it was given.
Clients, disconnects and successful writes owe nothing. A crash owes nothing either. *ConPool:* strong fairness of each caller's own
steps, because a thread that keeps trying gets a mutex that is free again and again; weak fairness of the
ping's end, the check thread's exit and what is left of `Close`. `Close` itself need not be called. That a caller gets
the mutex does not mean that it finds a connection: with two callers and one connection the one that was woken
can be overtaken for ever, so `StarvedOnlyByTakers` promises no more than that others take connections meanwhile. *Gate:*
weak fairness of each connection's handler while the process is up and of each RPC's next step in node.
The deadline, failures and the passing of time are not forced. *Wire:* weak fairness of the io thread, of the logic
thread, and of the transmission of what is written; the peer need not send anything. *Cluster:* weak fairness of the
steps the processes do by themselves (`System`) taken together: no behaviour has more than finitely many of
them, so each thread gets to its end. Clients need not leave, and nothing need be started or stopped.

Deadlock is checked except in `pool_stop`, `gate`, `gate_register`, `wire` and the two of `Cluster`: callers may sleep for
ever once a pool is closed, and connections end, processes crash and every client has been served.
`ChatServer` has a step `Idle` for the state in which everything has ended, and no other stop is accepted.

Each property of a passing run has a mutant: a plausible bug in one definition under which TLC finds the
property violated. They stand before the definition they replace, marked `Mutant`.

## 4. What the violations say

- `CloseKeepsOthers`: `removeUserSession` erases by uid (`UserMgr.cpp:26`). A user who reconnects before the old
  connection is noticed loses the new registration with it, and is then connected and unreachable.
  `EvictedBySharer` proves the extent: a Close takes out another session only if both presented the token of that uid.
- `CountIsOnline`: `logincount` is raised by logins and by uncached searches, lowered by every `Close`, and
  both in two unlocked steps. It is what the status server balances by. `CountTrueWithoutDrift` proves that these are
  all the causes: without an overlap, a failed call, an `extra` or a `short` the count at rest is right.
  `CountBoundedByMessages` proves that however badly updates meet, they never drive it above the logins and searches a
  server has handled.
- `StoppedCallReturns`: `RedisConPool::Close` sets the flag outside the mutex; a caller between its test and its
  sleep never wakes (`RedisMgr.h:107`). `CloseMissesOne` proves that it can be one caller at most.
- `NobodyWaitsForNobody`: the gate's `RedisMgr` returns no connection; the sixth `Get` of the process blocks
  an io thread for ever (`RedisMgr.cpp:31`). `TestRedisMgr` makes sixteen calls. `OnlyLeaksStarve` proves that
  the leak is what it takes: without leaky callers, and pings that throw, whoever sleeps waits for another caller. `PoolsRunOutByLeaks` counts it:
  each registration or reset that asks Redis costs one connection, each reset of a name without a row one of MySQL.
- `SuccessMeansRegistered`: a registration that MySQL refuses is answered with two documents, the second
  of which says success (`LogicSystem.cpp:110`). `RegistrationsAnswered` proves what a client can rely on: Success
  without UserExist means that the account was made, and who made one is told Success.

## 5. What is proved

For every value of the constants that satisfies the assumptions named in the modules (positive numbers of sessions and io
threads, finite sets of callers and connections, accounts among the uids, and the like).

| Theorem | Statement | Inductive invariant |
|---|---|---|
| `ChatServer_proofs!TypeCorrect` | `Spec => []TypeOK` | `TypeInv`: types, a handler has its message at the head of the queue (`HandlerInv`), a write is outstanding or has failed exactly while something is queued (`WriteInv`). Without them `Head(msg_que)` and `Tail(send_que[s])` have no type. |
| `Authenticated` | `Spec => []BoundOnlyIfAuthenticated` | `AuthInv`: every trace of a login (the session's uid, the local of a `Close`, `m_uids`, the handler) stems from a comparison that succeeded |
| `ReachableAfterLogin` | `Spec => []LoggedInIsReachable` | `ReachInv` with `AuthInv`: the uid a closing session removes is one it was authenticated for, so not that of a session that shares its uid with nobody |
| `CountExact` | `Spec => []CountExactWithoutOverlap` | `CountInv`: without overlap one thread at most is between HGet and HSet and holds the current count |
| `UnboundWhenClosed` | `Spec => []UnboundAfterClose` | `UnboundInv`: between the read of the uid and the erase, the entry under that uid is still to go, every other is excused |
| `ErasedWhenClosed` | `Spec => []ClosedSessionErased` | `StartedInv` and `EraseInv`: a session is inserted once, and only a Close that missed it leaves it there |
| `ClosedTwice` | `Spec => []ClosedAtMostTwice` | `BudgetInv`: every Close that has begun used up the session's read or its write, and neither comes back |
| `CountBounded` | `Spec => []CountNotInflated` | `FailInv`: as `CountInv` of `CountExact`, with one more for each failed call |
| `CountNear` | `Spec => []CountNearOnline` | `PhaseInv`: Close runs only where it was called, and after it the socket is closed; with `CountInv` and `CloseInv`, and the cardinality of those online step by step: a login's write adds one session or raises `extra`, a Close's write takes one away or raises `short`; `FaultsKept`: failures do not go away, so the Close that threw is excused |
| `CountTrueWithoutDrift` | `Spec => []CountIsOnlineWithoutDrift`: what `CountIsOnline` says, where nothing drifted | from `CountNear` and `PhaseInv` |
| `EvictedBySharer` | `Spec => OnlySharersEvicted`: what is left of `CloseKeepsOthers` | `AuthInv` |
| `DirectoryImplemented` | `Spec => DirectoryKept`: every step of `ChatServer` is one of `Directory` or a stutter | `AuthInv` and `ReachInv`: when `Reply` tells a session that it is in, what `setUserSession` entered before is still there |
| `Directory_proofs!LookupCorrect` | `Spec => [](FoundHasShown /\ ToldIsFound)` of `Directory` | `Inv`: what excuses a session (it closes, its uid is shared) stays, and removals are by those who showed the token |
| `ConPool_proofs!TypeCorrect`, `ConnectionsExclusive`, `ConnectionsNotLost` | `TypeOK`, `Exclusive`, `NothingLost` | `Inv`: a caller has a connection exactly at "use" and "return", the mutex is held exactly by who blocks or pings |
| `WakeupsNotLost` | `NoLostWakeup` | `Inv`, and cardinalities: each return adds one connection and one caller on the way, each take removes one of both |
| `SleepersWaitForSomebody` | `Spec => []SleepersHaveCause` | from `NoLostWakeup` and `NothingLost`: unless every connection is lost one is in use or in the queue, and one in the queue has a caller on its way |
| `OnlyLeaksStarve` | no leaky callers, no ping that throws, some connection: `Spec => []SleepsForSomebody`, a sleeper of a running pool waits for another caller | nothing is lost then (`NoneDropped`) |
| `CloseMissesOne` | `Spec => []OneMissedAtMost` | after the flag is set only the caller that has the mutex can still block |
| `PoolImplemented` | `Spec => Implements` | `Inv`: every step of `ConPool` is one of `Pool` or a stutter |
| `VerifyService_proofs!VerifyTypeCorrect`, `StoredIsMailed`, `CodesExpire` | `VerifyTypeOK`, `StoredCodeMailed`, `CodeWillExpire` | `VerifyInv`: a call past `get` has a code, a closed client means an error happened |
| `Gate_proofs!GateUsesVerify` | `Spec => VerifySpec` | every step of the gate is one of the service or leaves it alone; so `GateCodesMailed`, `GateCodesExpire` follow from the proofs about the service |
| `GateTypeCorrect`, `CodesChecked`, `AccountsChangedByOwner` | `GateTypeOK`, `CodeChecked`, `ChangedByOwner` | `GateInv`: unless it raced, a request between command and reply finds its own reply in the shared member (`ReplyIsOwn`); past the address check the row exists and has the request's address (`RowFound`), which no other request changes |
| `AccountsMadeByMailbox` | `Spec => AccountByMailbox` | `TruthMailed`: what Redis answered was mailed to that address, which nothing undoes; `RoutesKept`: each place of a handler belongs to its route; with `GateInv` and `VerifyInv` |
| `RegistrationsAnswered` | `Spec => []RegisterAnswered` | `NothingClaimed`: before a registration is answered no document says Success and no account is made |
| `PoolsRunOutByLeaks` | `Spec => []ConnectionsCounted` | `PlacesOfCounted` with `GateInv`: each connection that is gone belongs to one request, and no request asks twice |
| `Wire_proofs!TypeCorrect`, `BufferRespected`, `WorkerIsWoken` | `TypeOK`, `ReadFits`, `HandlerWoken` | `ReadSide`: the frames stand one after the other, what was posted is their prefix, the read is at the head or in the body of the next (`AtHead`, `AtBody`) |
| `AnswersOrdered`, `DropsJustified` | `AnswersInOrder`, `DropsOnlyWhenBehind` | `WriteSide`: what was accepted is what was popped and then the queue; one write at most is outstanding, of the front |
| `NothingPastBadHeader` | `Spec => []BadHeaderEnds`: no frame with a bad header, and none behind one, is ever posted | `NodeSound`: a body is read and a message posted for a good header only; with `Inv` |
| `OnlySoundAnswered` | `Spec => []AnswersSound`: an answer that has left answers a frame of the peer, with good headers up to it | `NothingPastBadHeader` and the order of the answers |
| `RequestsImplemented`, `RepliesImplemented` | `Spec => RequestsArrive`, `Spec => RepliesArrive` | `Inv`: every step of `Wire` puts, gets, or leaves each channel alone |
| `Cluster_proofs!TypeCorrect` | `TypeOK` | `SessionInv` and `QueueInv` with it: who is queued was posted by an open connection of that server |
| `CountsOfTheServing` | `Spec => []CountOfTheServing` | `CountInv` with `SessionInv` and `QueueInv`: only a serving process has sessions, and a login that is still queued when main deletes the count has made the server stale |
| `TicketsAdmit` | `Spec => []TicketAdmits` | `TicketInv`: a ticket that is owed is the token of its user as soon as its call is done |
| `LeastChosen` | `Spec => ChosenWasLeast` | `ScanInv`: the minimum so far was seen, and is not above something seen of each server read |
| `CountBoundedByMessages` | finitely many clients and searches: `Spec => []CountWithinMessages`, the count of a server is not above the logins and searches it has handled (or lost when it died), whatever overlaps or fails | `ReadsWithin`: nor is what a handler or a Close has read and will write back; `QueueOnce`: a message is queued once, so the one that is written had not been counted among the handled |
| `CountedChosen` | fewer clients and searches than `INT_MAX`: `Spec => ChosenHasCount`, no server without a count is chosen while another has one | `SeenWithin`, from `CountBoundedByMessages`: a real count is never taken for `INT_MAX`; with `ScanInv` |

Every invariant, every action property and every refinement that a passing run checks is a theorem. Stated and proved in a
`_proofs` module only, because no run asks them: `CountIsOnlineWithoutDrift`, `OnlySharersEvicted`, `DirectoryKept`,
`SleepsForSomebody`, `OneMissedAtMost`, `RegisterAnswered`, `ConnectionsCounted`, `BadHeaderEnds`, `AnswersSound`,
`CountWithinMessages`, `ChosenHasCount`; TLC was asked about each on
the instances of section 3 before its proof.

Only model-checked: `EveryRequestHandled`, `DisconnectNoticed`, `StarvedOnlyByTakers`, `EveryRequestAnswered`, `RequestsHandled`,
`AnswersWritten`, `StopWaitsForClients` (liveness under fairness is out of the prover's reach). There is no recursive
definition in the models; nothing is proved by induction over data.

## 6. What is not modelled

- Generated code (`message.pb.*`, `message.grpc.pb.*`): about three quarters of all lines of the repository. It carries
  the fields of four RPCs and has no behaviour of its own; the share of lines the models cover is therefore small, although
  most functions of the servers that run and change state are actions of a module.
- The status server's `Login` RPC, which nobody calls, and `_tokens`, which is written and never read.
- The contents of `ubaseinfo_`: `ChatServer` knows which uids are cached, which decides about `logincount`. Nothing in the
  repository promises that a cached user is up to date.
- The three minutes the mail promises (`server.js:32`) against the six hundred seconds of the key: the models have no clock.
- Which connection is broken: a ping of `RedisConPool` that reconnects puts a connection in the place of another, one that
  cannot drops it (`PingThrows`). That the reconnect of `MySqlPool` may throw out of its thread ends the process, and
  that is `Crash` in `Cluster`.
- Throws of the gate's handlers later than their first look at the body: the members of a request are texts.
- `heartbeat_checker`, `ChatServiceImpl`, `ChatGrpcClient`, the chat server's `StatusGrpcClient`, `TestRedisMgr` with the
  methods of the gate's `RedisMgr` it calls, and the status server's copies of the gate's code: nothing calls them.
- The destructors that run when `main` of a chat server returns: it does not.
- The JSON fields of answers beyond the error code, configuration, logging.

## 7. The order of the work

`ChatServer` first (the centre of the system), `ConPool` and `Pool` (below everything), `VerifyService` and `Gate` (the way
in), `Wire` with `Channel` (below `ChatServer`), `Cluster` (around it), each with its runs and proofs. What is left:

1. `ChatServer` with `Wire`'s reader in place of its own `Receive`: a refinement between the two for one session.
2. The broken connections of the pools, as a state of a connection that a ping repairs or that ends its thread.
3. Proofs that a session's `Close` in `Cluster` is the `Close` of `ChatServer` with its own steps hidden.
4. The safety halves of the liveness properties of `Gate` and `Cluster`, as the ones of `Wire` and `ConPool` have
   been (`BadHeaderEnds`, `SleepersHaveCause`).

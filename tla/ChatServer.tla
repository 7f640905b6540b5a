------------------------------ MODULE ChatServer ------------------------------
(***************************************************************************)
(* One chat server: the accept loop (CServer), the sessions with their     *)
(* reads, queued writes and Close (CSession), the single logic thread      *)
(* (LogicSystem), the uid -> session map (UserMgr) and the Redis keys they *)
(* read and write.                                                         *)
(*                                                                         *)
(* Threads and what an action is.  A session lives on the io thread        *)
(* IoOf(s); a completion handler runs on it to its end, so a handler of s  *)
(* starts only when no session of that thread is inside Close.  The logic  *)
(* thread holds LogicSystem::_mutex while a handler runs, which is why     *)
(* PostMsgToQue needs wpc = "wait".  Close and the handlers are cut at     *)
(* every access to memory or to Redis keys that another thread touches.    *)
(*                                                                         *)
(* MySQL is reduced to Users, the uids that have an account, and to calls  *)
(* that fail.                                                              *)
(***************************************************************************)
EXTENDS Naturals, Sequences, FiniteSets

CONSTANTS
    NumSessions,  \* connections accepted in one behaviour (bound)
    PoolSize,     \* io threads of AsioIOServicePool
    Uids,         \* uids that clients name
    Users,        \* those that have an account
    MAX_SENDQUE,  \* const.h:56
    Kinds,        \* what clients send: requests, other ids, bad headers (bound)
    MaxToken,     \* tokens issued for one uid (bound)
    MaxPosts,     \* messages posted in one behaviour (bound)
    MaxFaults     \* Redis calls that fail in one behaviour (bound)

ASSUME ChatServerAssumption ==
    /\ NumSessions \in Nat \ {0}
    /\ PoolSize \in Nat \ {0}
    /\ Uids \subseteq Nat \ {0}
    /\ Users \subseteq Uids
    /\ MAX_SENDQUE \in Nat
    /\ Kinds \subseteq {"login", "search", "junk", "bad"}
    /\ MaxToken \in Nat
    /\ MaxPosts \in Nat
    /\ MaxFaults \in Nat

Sessions == 1..NumSessions
NoUid == 0          \* _user_uid of a session nobody logged in on
NoSession == 0      \* no entry in m_uids

VARIABLES
    (* sockets and reads *)
    sock,           \* [Sessions -> {"idle", "open", "closed"}]
    gone,           \* sessions whose peer has disconnected
    rd,             \* [Sessions -> {"none", "armed", "failing"}] outstanding read
    send_que,       \* [Sessions -> Seq(Replies)]
    wr,             \* [Sessions -> {"idle", "out", "failing", "dead"}] outstanding write
    user_uid,       \* [Sessions -> Uids \cup {NoUid}]
    (* Close, run by the io thread of the session *)
    cpc, ctmp,      \* next step of Close, and the local it carries
    (* CServer and UserMgr *)
    accepting,      \* session started and not yet inserted, or NoSession
    m_sessions,     \* set of sessions
    m_uids,         \* [Uids -> Sessions \cup {NoSession}]
    (* LogicSystem *)
    msg_que,        \* Seq(Messages); its head stays there while it is handled
    wpc, wtmp, rt_error,   \* next step of the handler (dead: the process is gone),
                          \* its login_count, its "error"
    (* Redis *)
    utoken,         \* [Uids -> 0..MaxToken], utoken_<uid>; 0: no such key
    uip,            \* uids whose uip_<uid> names this server
    cached,         \* uids with a ubaseinfo_<uid>
    login_count,    \* logincount[this server]
    (* budgets of the model *)
    posts, faults,
    (* history *)
    authed,         \* <<s, u>>: s presented the current token of u
    told,           \* <<s, u>>: the logic thread answered Success to s for u
    closes,         \* [Sessions -> Nat], calls of Close
    missed,         \* sessions whose first Close did not find them in m_sessions
    late,           \* sessions a login reached after their first Close began
    raced, tally,   \* two updates of login_count overlapped; what atomic ones give
    extra, short    \* additions nobody came online with, subtractions nobody went with

connVars == <<sock, gone, rd, accepting, m_sessions>>
sendVars == <<send_que, wr>>
closeVars == <<cpc, ctmp, closes, missed>>
logicVars == <<msg_que, wpc, wtmp, rt_error>>
driftVars == <<extra, short>>
countVars == <<login_count, raced, tally, driftVars>>
userVars == <<user_uid, m_uids, late, authed, told>>
redisVars == <<utoken, uip, cached>>
vars == <<connVars, sendVars, closeVars, logicVars, countVars, userVars,
          redisVars, posts, faults>>

\* Messages a client of s can send: a login with a token that was issued for
\* the uid (or with none, 0), a search for a uid or for a name, anything else.
Requests(s) ==
    [kind : {"login"}, sess : {s}, uid : Uids, token : 0..MaxToken]
    \cup [kind : {"search"}, sess : {s}, uid : Uids \cup {NoUid}, token : {0}]
    \cup [kind : {"junk"}, sess : {s}, uid : {NoUid}, token : {0}]

Messages == UNION {Requests(s) : s \in Sessions}

Errors == {"Success", "UidInvalid", "TokenInvalid", "None"}
Replies == [rsp : {"login", "search"}, uid : Uids \cup {NoUid}, error : Errors]

-----------------------------------------------------------------------------
(* io threads *)

\* AsioIOServicePool::GetIOService hands the contexts out round robin, one per
\* call of CServer::Start, that is one per session in accept order.
IoOf(s) == (s - 1) % PoolSize

\* The io thread of s is between two completion handlers.
IoIdle(s) == \A t \in Sessions : IoOf(t) = IoOf(s) => cpc[t] = "run"

\* An operation started on the socket of s now: asio fails it at once when the
\* socket is closed.
Started(s, ok) == IF sock[s] = "open" THEN ok ELSE "failing"

Init ==
    /\ sock = [s \in Sessions |-> "idle"] /\ gone = {}
    /\ rd = [s \in Sessions |-> "none"]
    /\ send_que = [s \in Sessions |-> <<>>]
    /\ wr = [s \in Sessions |-> "idle"]
    /\ user_uid = [s \in Sessions |-> NoUid]
    /\ cpc = [s \in Sessions |-> "run"] /\ ctmp = [s \in Sessions |-> 0]
    /\ accepting = NoSession /\ m_sessions = {}
    /\ m_uids = [u \in Uids |-> NoSession]
    /\ msg_que = <<>> /\ wpc = "wait" /\ wtmp = 0 /\ rt_error = "None"
    /\ utoken = [u \in Uids |-> 0] /\ uip = {} /\ cached = {}
    /\ login_count = 0
    /\ posts = 0 /\ faults = 0
    /\ authed = {} /\ told = {}
    /\ closes = [s \in Sessions |-> 0] /\ missed = {} /\ late = {}
    /\ raced = FALSE /\ tally = 0 /\ extra = 0 /\ short = 0

-----------------------------------------------------------------------------
(* Environment: StatusServer issues a token, a peer disconnects *)

IssueToken(u) ==
    /\ utoken[u] < MaxToken
    /\ utoken' = [utoken EXCEPT ![u] = @ + 1]
    /\ UNCHANGED <<connVars, sendVars, closeVars, logicVars, countVars,
                   userVars, uip, cached, posts, faults>>

Disconnect(s) ==
    /\ sock[s] = "open" /\ s \notin gone
    /\ gone' = gone \cup {s}
    /\ UNCHANGED <<sock, rd, accepting, m_sessions, sendVars, closeVars,
                   logicVars, countVars, userVars, redisVars, posts, faults>>

-----------------------------------------------------------------------------
(* CServer: the session reads before it is in m_sessions *)

StartSession(s) ==
    /\ accepting = NoSession
    /\ sock[s] = "idle" /\ \A t \in 1..(s - 1) : sock[t] # "idle"
    /\ sock' = [sock EXCEPT ![s] = "open"]
    /\ rd' = [rd EXCEPT ![s] = "armed"]
    /\ accepting' = s
    /\ UNCHANGED <<gone, m_sessions, sendVars, closeVars, logicVars, countVars,
                   userVars, redisVars, posts, faults>>

InsertSession ==
    /\ accepting # NoSession
    /\ m_sessions' = m_sessions \cup {accepting}
    /\ accepting' = NoSession
    /\ UNCHANGED <<sock, gone, rd, sendVars, closeVars, logicVars, countVars,
                   userVars, redisVars, posts, faults>>

-----------------------------------------------------------------------------
(* CSession: reads *)

\* A complete message: AsyncReadBody posts it and reads the next header.
PostMsgToQue(s, m) ==
    /\ rd[s] = "armed" /\ IoIdle(s)
    /\ wpc = "wait" /\ posts < MaxPosts
    /\ msg_que' = Append(msg_que, m)
    /\ rd' = [rd EXCEPT ![s] = Started(s, "armed")]
    /\ posts' = posts + 1
    /\ UNCHANGED <<sock, gone, accepting, m_sessions, sendVars, closeVars,
                   wpc, wtmp, rt_error, countVars, userVars, redisVars, faults>>

Receive(s) ==
    \E m \in Requests(s) :
        /\ m.kind \in Kinds
        /\ m.kind = "login" => m.token <= utoken[m.uid]
        /\ PostMsgToQue(s, m)

\* A header with an id or a length above MAX_LENGTH: the handler returns and
\* reads no more, but does not Close.
BadHeader(s) ==
    /\ "bad" \in Kinds
    /\ rd[s] = "armed" /\ IoIdle(s)
    /\ rd' = [rd EXCEPT ![s] = "none"]
    /\ UNCHANGED <<sock, gone, accepting, m_sessions, sendVars, closeVars,
                   logicVars, countVars, userVars, redisVars, posts, faults>>

Close(s) ==
    /\ cpc' = [cpc EXCEPT ![s] = "find"]
    /\ closes' = [closes EXCEPT ![s] = @ + 1]

\* Mutant: the return after Close in AsyncReadHead is gone, so it reads on.
ReadErrorReadsOn(s) ==
    /\ rd[s] = "failing" \/ (rd[s] = "armed" /\ (s \in gone \/ sock[s] = "closed"))
    /\ IoIdle(s)
    /\ rd' = [rd EXCEPT ![s] = Started(s, "armed")]
    /\ Close(s)
    /\ UNCHANGED <<sock, gone, accepting, m_sessions, sendVars, ctmp, missed,
                   logicVars, countVars, userVars, redisVars, posts, faults>>

\* A read that ends with an error or short, and the aborted read that
\* _socket.close() leaves behind.
ReadError(s) ==
    /\ rd[s] = "failing" \/ (rd[s] = "armed" /\ (s \in gone \/ sock[s] = "closed"))
    /\ IoIdle(s)
    /\ rd' = [rd EXCEPT ![s] = "none"]
    /\ Close(s)
    /\ UNCHANGED <<sock, gone, accepting, m_sessions, sendVars, ctmp, missed,
                   logicVars, countVars, userVars, redisVars, posts, faults>>

-----------------------------------------------------------------------------
(* CSession: writes, one outstanding at a time *)

\* Send, from the logic thread.
Send(s, r) ==
    IF Len(send_que[s]) > MAX_SENDQUE
    THEN UNCHANGED sendVars
    ELSE /\ send_que' = [send_que EXCEPT ![s] = Append(@, r)]
         /\ wr' = IF send_que[s] = <<>>
                  THEN [wr EXCEPT ![s] = Started(s, "out")]
                  ELSE wr

WriteOk(s) ==
    /\ wr[s] = "out" /\ IoIdle(s)
    /\ send_que' = [send_que EXCEPT ![s] = Tail(@)]
    /\ wr' = [wr EXCEPT ![s] = IF Len(send_que[s]) > 1
                               THEN Started(s, "out") ELSE "idle"]
    /\ UNCHANGED <<connVars, closeVars, logicVars, countVars, userVars,
                   redisVars, posts, faults>>

\* The failed message stays at the front, so nothing is ever written again.
WriteError(s) ==
    /\ wr[s] = "failing" \/ (wr[s] = "out" /\ (s \in gone \/ sock[s] = "closed"))
    /\ IoIdle(s)
    /\ wr' = [wr EXCEPT ![s] = "dead"]
    /\ Close(s)
    /\ UNCHANGED <<connVars, send_que, ctmp, missed, logicVars, countVars,
                   userVars, redisVars, posts, faults>>

-----------------------------------------------------------------------------
(* Redis: a call fails while the budget lasts.  HGet then yields "", or a    *)
(* text that is no number: CloseThrow and Crash.                             *)

Fault == faults < MaxFaults /\ faults' = faults + 1
NoFault == UNCHANGED faults

HGet(v) == (v = login_count /\ NoFault) \/ (v = 0 /\ Fault)
HSet(v) == (login_count' = v /\ NoFault) \/ (UNCHANGED login_count /\ Fault)

\* Mutants: the new value is never computed; the floor at line 94 is gone; it is 1.
IncrementLost(n) == n
DecrementNoFloor(n) == n - 1
DecrementToOne(n) == IF n <= 1 THEN 1 ELSE n - 1

Increment(n) == n + 1
Decrement(n) == IF n <= 1 THEN 0 ELSE n - 1

\* The message being handled, or the next one to be.
Request == Head(msg_que)

\* Threads between HGet and HSet of login_count; 0 is the logic thread.
Updating == {s \in Sessions : cpc[s] = "hset"} \cup (IF wpc = "hset" THEN {0} ELSE {})
BeginUpdate == raced' = (raced \/ Updating # {})

\* The sessions login_count is about: somebody is logged in on it, and no Close
\* of it has taken one off the count.  (Left is meant for the time before the
\* first fault: a Close that throws takes nothing off.)
Left(s) == closes[s] > 1 \/ (closes[s] = 1 /\ cpc[s] \in {"shut", "run"})
LoggedIn(s) == user_uid[s] # NoUid \/ (wpc = "setuid" /\ Request.sess = s)
Online == {s \in Sessions : LoggedIn(s) /\ ~Left(s)}

\* The three additions with which nobody comes online: that of a search; that of
\* a login on a session where somebody is logged in already; and that of a login
\* handled after a Close of its session took one off the count, or found nothing
\* there to take off, ahead of it.
BySearch == Request.kind # "login"
ByLoginAgain == user_uid[Request.sess] # NoUid
ByLateLogin == Left(Request.sess)
Comes == ~(BySearch \/ ByLoginAgain \/ ByLateLogin)

\* The subtraction of the Close of s takes somebody offline: one is logged in, and
\* it is the first Close.
Goes(s) == LoggedIn(s) /\ closes[s] = 1

-----------------------------------------------------------------------------
(* CSession::Close and CServer::clearSession *)

\* m_sessions.find runs without m_mtx: while another thread inserts or erases,
\* the entry may be missed.
TableInMotion(s) ==
    accepting # NoSession \/ \E t \in Sessions \ {s} : cpc[t] = "erase"

FindOutcomes(s) ==
    IF s \notin m_sessions THEN {FALSE}
    ELSE IF TableInMotion(s) THEN {TRUE, FALSE} ELSE {TRUE}

CloseFind(s) ==
    /\ cpc[s] = "find"
    /\ \E found \in FindOutcomes(s) :
         IF found
         THEN /\ cpc' = [cpc EXCEPT ![s] = "remove"]
              /\ ctmp' = [ctmp EXCEPT ![s] = user_uid[s]]
              /\ UNCHANGED missed
         ELSE /\ cpc' = [cpc EXCEPT ![s] = "erase"]
              /\ missed' = IF closes[s] = 1 THEN missed \cup {s} ELSE missed
              /\ UNCHANGED ctmp
    /\ UNCHANGED <<connVars, sendVars, closes, logicVars, countVars, userVars,
                   redisVars, posts, faults>>

\* Mutants: every entry goes, as in ~UserMgr; the erase is forgotten.
removeAllSessions(uid, s) == [u \in Uids |-> NoSession]
removeNoSession(uid, s) == m_uids

\* m_uids after removeUserSession(uid), called by the Close of s.
removeUserSession(uid, s) ==
    [u \in Uids |-> IF u = uid THEN NoSession ELSE m_uids[u]]

CloseRemove(s) ==
    /\ cpc[s] = "remove"
    /\ m_uids' = removeUserSession(ctmp[s], s)
    /\ cpc' = [cpc EXCEPT ![s] = "erase"]
    /\ ctmp' = [ctmp EXCEPT ![s] = 0]
    /\ UNCHANGED <<connVars, sendVars, closes, missed, logicVars, countVars,
                   user_uid, late, authed, told, redisVars, posts, faults>>

\* Mutant: only sessions somebody logged in on are erased.
eraseLoggedIn(s) == IF user_uid[s] = NoUid THEN m_sessions ELSE m_sessions \ {s}

eraseSession(s) == m_sessions \ {s}

CloseErase(s) ==
    /\ cpc[s] = "erase"
    /\ m_sessions' = eraseSession(s)
    /\ cpc' = [cpc EXCEPT ![s] = "hget"]
    /\ UNCHANGED <<sock, gone, rd, accepting, sendVars, ctmp, closes, missed,
                   logicVars, countVars, userVars, redisVars, posts, faults>>

CloseReadCount(s) ==
    /\ cpc[s] = "hget"
    /\ \E v \in {0, login_count} : HGet(v) /\ ctmp' = [ctmp EXCEPT ![s] = v]
    /\ cpc' = [cpc EXCEPT ![s] = "hset"]
    /\ BeginUpdate
    /\ UNCHANGED <<connVars, sendVars, closes, missed, logicVars, login_count,
                   tally, driftVars, userVars, redisVars, posts>>

\* HGet does not look at the type of a reply, so an error reply is a text that
\* stoi throws on.  The handler that called Close catches that: the session is out
\* of m_sessions, and its socket stays open.
CloseThrow(s) ==
    /\ cpc[s] = "hget" /\ Fault
    /\ cpc' = [cpc EXCEPT ![s] = "run"]
    /\ UNCHANGED <<connVars, sendVars, ctmp, closes, missed, logicVars, countVars,
                   userVars, redisVars, posts>>

CloseWriteCount(s) ==
    /\ cpc[s] = "hset"
    /\ HSet(Decrement(ctmp[s]))
    /\ tally' = IF tally = 0 THEN 0 ELSE tally - 1
    /\ cpc' = [cpc EXCEPT ![s] = "shut"]
    /\ ctmp' = [ctmp EXCEPT ![s] = 0]
    /\ UNCHANGED <<connVars, sendVars, closes, missed, logicVars, raced, extra,
                   userVars, redisVars, posts>>
    /\ short' = IF Goes(s) THEN short ELSE short + 1

\* Mutant: the socket stays open (line 99 is gone).
CloseWithoutSocket(s) ==
    /\ cpc[s] = "shut"
    /\ cpc' = [cpc EXCEPT ![s] = "run"]
    /\ UNCHANGED <<connVars, sendVars, ctmp, closes, missed, logicVars,
                   countVars, userVars, redisVars, posts, faults>>

CloseSocket(s) ==
    /\ cpc[s] = "shut"
    /\ sock' = [sock EXCEPT ![s] = "closed"]
    /\ cpc' = [cpc EXCEPT ![s] = "run"]
    /\ UNCHANGED <<gone, rd, accepting, m_sessions, sendVars, ctmp, closes,
                   missed, logicVars, countVars, userVars, redisVars, posts, faults>>

CloseStep(s) ==
    \/ CloseFind(s) \/ CloseRemove(s) \/ CloseErase(s)
    \/ CloseReadCount(s) \/ CloseThrow(s) \/ CloseWriteCount(s) \/ CloseSocket(s)

-----------------------------------------------------------------------------
(* LogicSystem::DealMsg and its handlers *)

DealMsg(kind) == wpc = "wait" /\ msg_que # <<>> /\ Request.kind = kind

\* Mutant: the message is not popped (line 58 is gone).
DropMsgNoPop == DealMsg("junk") /\ UNCHANGED vars

\* Unknown ids, and logins that do not parse: popped without an answer.
DropMsg ==
    /\ DealMsg("junk")
    /\ msg_que' = Tail(msg_que)
    /\ UNCHANGED <<connVars, sendVars, closeVars, wpc, wtmp, rt_error, countVars,
                   userVars, redisVars, posts, faults>>

\* Mutant: the comparison at line 105 is gone.
CheckTokenPresentOnly(u, t) ==
    IF utoken[u] = 0 THEN "UidInvalid" ELSE "Success"

CheckToken(u, t) ==
    CASE utoken[u] = 0 -> "UidInvalid"
      [] utoken[u] \notin {0, t} -> "TokenInvalid"
      [] OTHER -> "Success"

\* Get utoken_<uid>, and MySQL's GetUser once the token matches.
LoginHandler ==
    /\ DealMsg("login")
    /\ \/ rt_error' = CheckToken(Request.uid, Request.token) /\ NoFault
       \/ rt_error' = "UidInvalid" /\ Fault
    /\ wpc' = IF rt_error' = "Success" THEN "hget" ELSE "reply"
    /\ authed' = IF utoken[Request.uid] = Request.token /\ Request.token # 0
                 THEN authed \cup {<<Request.sess, Request.uid>>} ELSE authed
    /\ UNCHANGED <<connVars, sendVars, closeVars, msg_que, wtmp, countVars,
                   user_uid, m_uids, late, told, redisVars, posts>>

\* SearchInfo up to GetUserByUid's own update of login_count: a name is
\* answered with an empty object, a cached uid from Redis, any other from MySQL
\* and then cached.  GetUser gives null when MySQL fails; for a uid without a
\* row it runs off its end, and what its caller finds may be null or a user.
SearchInfo ==
    /\ DealMsg("search")
    /\ LET u == Request.uid
           noUser == rt_error' = "UidInvalid" /\ wpc' = "reply" /\ UNCHANGED cached
           isUser == rt_error' = "Success" /\ wpc' = "hget" IN
       \/ /\ u = NoUid /\ NoFault
          /\ rt_error' = "None" /\ wpc' = "reply" /\ UNCHANGED cached
       \/ /\ u \in cached /\ NoFault
          /\ rt_error' = "Success" /\ wpc' = "reply" /\ UNCHANGED cached
       \/ /\ u # NoUid
          /\ \/ u \notin cached /\ NoFault    \* Get: no such key
             \/ Fault                         \* Get failed
          /\ \/ isUser /\ cached' = cached \cup {u}
             \/ u \notin Users /\ noUser
       \/ /\ u \in Uids \ cached /\ Fault     \* GetUser, or Set, failed
          /\ noUser \/ (isUser /\ UNCHANGED cached)
    /\ UNCHANGED <<connVars, sendVars, closeVars, msg_que, wtmp, countVars,
                   userVars, utoken, uip, posts>>

\* Nobody catches on the logic thread: what throws or faults there takes the
\* process down.  Members of a wrong JSON type; stoi of an empty uid, and a user
\* GetUser never made; in a login the null it gives when MySQL fails; stoi of an
\* error reply.
HandlerCrash ==
    \/ DealMsg("junk") /\ NoFault
    \/ DealMsg("search") /\ Request.uid \notin Users \cup cached /\ NoFault
    \/ DealMsg("login") /\ CheckToken(Request.uid, Request.token) = "Success" /\ Fault
    \/ wpc = "hget" /\ Fault

\* On an io thread it is the second unlocked access, m_sessions[uuid]: if it
\* misses the entry find saw, it makes a null one, and line 35 calls that.
FindCrash ==
    /\ \E s \in m_sessions : cpc[s] = "find" /\ TableInMotion(s)
    /\ NoFault

Crash ==
    /\ HandlerCrash \/ FindCrash
    /\ wpc' = "dead"
    /\ UNCHANGED <<connVars, sendVars, closeVars, msg_que, wtmp, rt_error, countVars,
                   userVars, redisVars, posts>>

\* Both handlers add one to login_count.
ReadCount ==
    /\ wpc = "hget"
    /\ \E v \in {0, login_count} : HGet(v) /\ wtmp' = v
    /\ wpc' = "hset"
    /\ BeginUpdate
    /\ UNCHANGED <<connVars, sendVars, closeVars, msg_que, rt_error, login_count,
                   tally, driftVars, userVars, redisVars, posts>>

WriteCount ==
    /\ wpc = "hset"
    /\ HSet(Increment(wtmp))
    /\ tally' = tally + 1
    /\ wtmp' = 0
    /\ wpc' = IF Request.kind = "login" THEN "setuid" ELSE "reply"
    /\ UNCHANGED <<connVars, sendVars, closeVars, msg_que, rt_error, raced, short,
                   userVars, redisVars, posts>>
    /\ extra' = IF Comes THEN extra ELSE extra + 1

\* The login being handled reaches its session when that has begun to Close.
NoteLate ==
    late' = IF closes[Request.sess] > 0 THEN late \cup {Request.sess} ELSE late

\* session->SetUserId(uid), then Set uip_<uid>.
SetUserId ==
    /\ wpc = "setuid"
    /\ user_uid' = [user_uid EXCEPT ![Request.sess] = Request.uid]
    /\ \/ uip' = uip \cup {Request.uid} /\ NoFault
       \/ UNCHANGED uip /\ Fault
    /\ wpc' = "bind"
    /\ NoteLate
    /\ UNCHANGED <<connVars, sendVars, closeVars, msg_que, wtmp, rt_error,
                   countVars, m_uids, authed, told, utoken, cached, posts>>

setUserSession ==
    /\ wpc = "bind"
    /\ m_uids' = [m_uids EXCEPT ![Request.uid] = Request.sess]
    /\ NoteLate
    /\ wpc' = "reply"
    /\ UNCHANGED <<connVars, sendVars, closeVars, msg_que, wtmp, rt_error,
                   countVars, user_uid, authed, told, redisVars, posts, faults>>

\* The Defer of the handler sends the answer; DealMsg pops the message.
Reply ==
    /\ wpc = "reply"
    /\ Send(Request.sess,
            [rsp |-> Request.kind, error |-> rt_error,
             uid |-> IF rt_error = "Success" THEN Request.uid ELSE NoUid])
    /\ told' = IF Request.kind = "login" /\ rt_error = "Success"
               THEN told \cup {<<Request.sess, Request.uid>>} ELSE told
    /\ msg_que' = Tail(msg_que)
    /\ wpc' = "wait" /\ rt_error' = "None"
    /\ UNCHANGED <<connVars, closeVars, wtmp, countVars, user_uid, m_uids, late,
                   authed, redisVars, posts, faults>>

Worker ==
    \/ DropMsg \/ LoginHandler \/ SearchInfo \/ ReadCount \/ WriteCount
    \/ SetUserId \/ setUserSession \/ Reply

-----------------------------------------------------------------------------
\* The process lives.
Alive == wpc # "dead"

\* Every connection was made and given up by its peer, and every handler ran.
Quiescent ==
    /\ accepting = NoSession /\ wpc = "wait" /\ msg_que = <<>>
    /\ \A s \in Sessions : /\ s \in gone /\ cpc[s] = "run"
                           /\ rd[s] = "none" /\ wr[s] \in {"idle", "dead"}

Idle == (Quiescent \/ ~Alive) /\ UNCHANGED vars

Step ==
    \/ \E u \in Users : IssueToken(u)
    \/ \E s \in Sessions :
         \/ Disconnect(s) \/ StartSession(s) \/ Receive(s) \/ BadHeader(s)
         \/ ReadError(s) \/ WriteOk(s) \/ WriteError(s) \/ CloseStep(s)
    \/ InsertSession
    \/ Worker \/ Crash

Next == (Alive /\ Step) \/ Idle

\* The scheduler runs every thread, and asio completes every failed operation.
Fairness ==
    /\ WF_vars(Alive /\ InsertSession)
    /\ WF_vars(Worker)
    /\ \A s \in Sessions :
         /\ WF_vars(Alive /\ ReadError(s)) /\ WF_vars(Alive /\ WriteError(s))
         /\ WF_vars(Alive /\ CloseStep(s))

Spec == Init /\ [][Next]_vars
LiveSpec == Spec /\ Fairness

-----------------------------------------------------------------------------
(* Properties *)

ConnTypes ==
    /\ sock \in [Sessions -> {"idle", "open", "closed"}]
    /\ gone \subseteq Sessions
    /\ rd \in [Sessions -> {"none", "armed", "failing"}]
    /\ accepting \in Sessions \cup {NoSession}
    /\ m_sessions \subseteq Sessions
SendTypes ==
    /\ send_que \in [Sessions -> Seq(Replies)]
    /\ wr \in [Sessions -> {"idle", "out", "failing", "dead"}]
CloseTypes ==
    /\ cpc \in [Sessions -> {"run", "find", "remove", "erase", "hget", "hset", "shut"}]
    /\ ctmp \in [Sessions -> Nat]
    /\ closes \in [Sessions -> Nat]
    /\ missed \subseteq Sessions
LogicTypes ==
    /\ msg_que \in Seq(Messages)
    /\ wpc \in {"wait", "hget", "hset", "setuid", "bind", "reply", "dead"}
    /\ wtmp \in Nat /\ rt_error \in Errors
CountTypes ==
    /\ login_count \in Nat /\ tally \in Nat /\ raced \in BOOLEAN
    /\ extra \in Nat /\ short \in Nat
UserTypes ==
    /\ user_uid \in [Sessions -> Uids \cup {NoUid}]
    /\ m_uids \in [Uids -> Sessions \cup {NoSession}]
    /\ late \subseteq Sessions
    /\ authed \subseteq Sessions \X Uids
    /\ told \subseteq Sessions \X Uids
RedisTypes ==
    /\ utoken \in [Uids -> 0..MaxToken]
    /\ uip \subseteq Uids /\ cached \subseteq Uids
BudgetTypes == posts \in 0..MaxPosts /\ faults \in 0..MaxFaults

TypeOK ==
    /\ ConnTypes /\ SendTypes /\ CloseTypes /\ LogicTypes
    /\ CountTypes /\ UserTypes /\ RedisTypes /\ BudgetTypes

D == INSTANCE Directory WITH
         None <- NoSession, entry <- m_uids, shown <- authed,
         closing <- {s \in Sessions : closes[s] > 0}

\* Behind queues, threads and two tables m_uids is the directory of Directory.tla.
DirectoryKept == D!Spec

\* Whoever is registered for a uid presented that uid's token on that very
\* connection (LoginHandler binds only after the comparison at line 105).
BoundOnlyIfAuthenticated ==
    \A u \in Uids : m_uids[u] # NoSession => <<m_uids[u], u>> \in authed

\* A client that was told Success, whose session never began to Close, is the
\* session m_uids gives for its uid, provided no other session ever logged in
\* with that uid: the Close of strangers does not take it out.
LoggedInIsReachable ==
    \A s \in Sessions, u \in Uids :
        ( /\ <<s, u>> \in told /\ closes[s] = 0
          /\ \A t \in Sessions \ {s} : <<t, u>> \notin authed )
        => m_uids[u] = s

\* A session that has been through Close is registered under a uid only for
\* one of three reasons: its login was still being handled when Close began,
\* Close did not find it in m_sessions, or it logged in again as another user.
UnboundAfterClose ==
    \A s \in Sessions, u \in Uids :
        (closes[s] > 0 /\ cpc[s] \notin {"find", "remove"} /\ m_uids[u] = s)
        => s \in late \/ s \in missed \/ user_uid[s] # u

\* A session that has been through clearSession is back in m_sessions only if
\* its Close overtook the insertion in hanldeAccept.
ClosedSessionErased ==
    \A s \in Sessions :
        (closes[s] > 0 /\ cpc[s] \notin {"find", "remove", "erase"} /\ s \in m_sessions)
        => s \in missed

\* As long as no two updates overlapped and Redis answered, login_count is what
\* atomic increments and decrements would have made of it.
CountExactWithoutOverlap == (~raced /\ faults = 0) => login_count = tally

\* A failing Redis makes login_count forget people (a failed HGet is read as 0 and
\* written back as 1), and makes it count too many only by one for each failure: as
\* long as no two updates overlapped, the status server never takes a server for
\* busier than that.
CountNotInflated == ~raced => login_count <= tally + faults

\* As long as no two updates overlapped and Redis answered, login_count is the
\* number of sessions somebody is logged in on, too high by at most one for each
\* search, second login or login counted after a Close of its session had been,
\* and too low by at most one for each Close of a session that was closed before
\* or that nobody was logged in on yet: nothing else makes it drift.
CountNearOnline ==
    (~raced /\ faults = 0 /\ Alive) =>
        /\ login_count <= Cardinality(Online) + extra
        /\ Cardinality(Online) <= login_count + short

\* Close runs at most twice for a session: once from its reads and once from
\* its writes.
ClosedAtMostTwice == \A s \in Sessions : closes[s] <= 2

\* Whatever a session posted is eventually handled, unless the process dies.
EveryRequestHandled ==
    \A s \in Sessions :
        (\E i \in DOMAIN msg_que : msg_que[i].sess = s)
        ~> (~Alive \/ \A i \in DOMAIN msg_que : msg_que[i].sess # s)

\* A peer that disconnects from a session that is reading is noticed: its
\* socket is closed and it leaves m_sessions, unless Close overtook insertion,
\* or unless a bad header came first: then nobody closes the session.  After a
\* Close that threw on an error reply the socket may stay open, but not the entry.
\* (Or the process dies.)
DisconnectNoticed ==
    \A s \in Sessions :
        (s \in gone /\ rd[s] # "none")
        ~> \/ /\ \/ sock[s] = "closed"
                 \/ faults > 0 /\ rd[s] = "none" /\ closes[s] > 0 /\ cpc[s] = "run"
              /\ s \notin m_sessions \/ s \in missed
           \/ rd[s] = "none" /\ closes[s] = 0
           \/ ~Alive
===============================================================================

------------------------------- MODULE Cluster -------------------------------
(***************************************************************************)
(* The status server, the chat servers and the Redis keys between them:    *)
(* how a client is sent to the least loaded chat server with a token       *)
(* (StatusServiceImpl), how it gets in with it (LoginHandler), and how a   *)
(* chat server process starts, is stopped by a signal, dies and is started *)
(* again (main of ChatServer.cpp), which its login_count is to tell.       *)
(*                                                                         *)
(* A client stands for one attempt to get in: one GetChatServer call, whose*)
(* token it is, one connection, one login and the searches it makes.  A    *)
(* user who tries again is another client.  ChatServer has the inside of   *)
(* one server: here a session is its connection, its messages, whether an  *)
(* answer to them is being written, and the two Redis calls of Close, each *)
(* on an io thread of its own.                                             *)
(***************************************************************************)
EXTENDS Integers, Sequences, FiniteSets

CONSTANTS
    Servers,    \* names of chat servers
    _servers,   \* the order in which the unordered_map of that name yields them
    Clients,
    Users,
    UserOf,     \* [Clients -> Users]
    Searches,   \* bound of the model: the searches made
    From,       \* [Searches -> Clients]: who makes them
    INT_MAX,
    MaxStops,   \* bound of the model: signals and crashes of processes
    MaxFaults   \* bound of the model: Redis commands that fail

None == "none"      \* no client, no server
Absent == -1        \* no such field in logincount

ASSUME ClusterAssumption ==
    /\ _servers \in Seq(Servers) /\ _servers # <<>>
    /\ \A sv \in Servers : \E i \in 1..Len(_servers) : _servers[i] = sv
    /\ None \notin Servers /\ None \notin Clients
    /\ UserOf \in [Clients -> Users]
    /\ Searches \cap Clients = {} /\ From \in [Searches -> Clients]
    /\ INT_MAX \in Nat /\ MaxStops \in Nat /\ MaxFaults \in Nat

\* A login is the client itself.
Messages == Clients \cup Searches
Sender(m) == IF m \in Searches THEN From[m] ELSE m

VARIABLES
    (* the status server *)
    status,     \* up, drain (Shutdown has been called), down
    mtx,        \* the call that holds _server_mtx, or None
    at, min,    \* its loop: servers it has read, minServer as [name, con_count]
    call,       \* [Clients -> new, lock, scan, token, done, failed]
    server,     \* [Clients -> Servers \cup {None}]: the server it is sent to
    (* Redis *)
    count,      \* logincount: [Servers -> Nat \cup {Absent}]
    utoken,     \* utoken_<uid>: [Users -> Clients \cup {None}]
    (* chat server processes *)
    main,       \* [Servers -> down, run, stopping, close, join]
    msg_que,    \* [Servers -> Seq(Messages)]; the first one is handled
    logic,      \* [Servers -> wait, hget, hset]: the logic thread
    ltmp,       \* [Servers -> Nat]: its login_count
    (* sessions and clients *)
    conn,       \* [Clients -> none, open, stuck, hget, hset, closed]; stuck: the
                \* socket is open and nothing is read from it
    ctmp,       \* [Clients -> Nat]: the login_count of Close
    answer,     \* [Clients -> none, sent, failed]: async_write outstanding, or failed
    posted,     \* messages that were posted
    refused,    \* clients that were connected when their login was refused
    (* budgets of the model *)
    stops, faults,
    (* history *)
    seen,       \* [Servers -> SUBSET Nat]: con_count during the present scan
    owed,       \* clients whose ticket must get them in
    stale       \* servers whose count has been left behind

statusVars == <<status, mtx, at, min, call, server>>
processVars == <<main, msg_que, logic, ltmp>>
clientVars == <<conn, ctmp, answer, posted, refused>>
historyVars == <<seen, owed, stale>>
vars == <<statusVars, count, utoken, processVars, clientVars, stops, faults, historyVars>>

\* Mutant: the absent count is not told apart.
con_count_raw(v) == v

\* What getChatServer makes of an absent count.
con_count(v) == IF v = Absent THEN INT_MAX ELSE v

NoServer == [name |-> None, con_count |-> 0]

Init ==
    /\ status = "up" /\ mtx = None /\ at = 0 /\ min = NoServer
    /\ call = [c \in Clients |-> "new"] /\ server = [c \in Clients |-> None]
    /\ count = [sv \in Servers |-> Absent] /\ utoken = [u \in Users |-> None]
    /\ main = [sv \in Servers |-> "down"]
    /\ msg_que = [sv \in Servers |-> <<>>]
    /\ logic = [sv \in Servers |-> "wait"] /\ ltmp = [sv \in Servers |-> 0]
    /\ conn = [c \in Clients |-> "none"] /\ ctmp = [c \in Clients |-> 0]
    /\ answer = [c \in Clients |-> "none"] /\ posted = {} /\ refused = {}
    /\ stops = 0 /\ faults = 0
    /\ seen = [sv \in Servers |-> {}] /\ owed = {} /\ stale = {}

Fault == faults < MaxFaults /\ faults' = faults + 1
NoFault == UNCHANGED faults
Stop == stops < MaxStops /\ stops' = stops + 1

\* The field of sv is v from now on; a scan under way may see that.
PutCount(sv, v) ==
    /\ count' = [count EXCEPT ![sv] = v]
    /\ seen' = IF mtx = None THEN seen ELSE [seen EXCEPT ![sv] = @ \cup {con_count(v)}]
KeepCount == UNCHANGED <<count, seen>>

-----------------------------------------------------------------------------
(* StatusServiceImpl: each call on a gRPC thread of its own *)

UnderWay == {"lock", "scan", "token"}

Calls(u) == {c \in Clients : UserOf[c] = u /\ call[c] \in UnderWay}

\* The gate asks for c.  The ticket is owed entrance if no other call for the user
\* overlaps this one or comes after it.
GetChatServer(c) ==
    /\ call[c] = "new"
    /\ call' = [call EXCEPT ![c] = IF status = "up" THEN "lock" ELSE "failed"]
    /\ LET others == {d \in Clients \ {c} : UserOf[d] = UserOf[c]} IN
       owed' = IF status # "up" THEN owed
               ELSE (owed \ others) \cup (IF Calls(UserOf[c]) = {} THEN {c} ELSE {})
    /\ UNCHANGED <<status, mtx, at, min, server, count, utoken, processVars,
                   clientVars, stops, faults, seen, stale>>

LockServers(c) ==
    /\ call[c] = "lock" /\ mtx = None
    /\ mtx' = c /\ at' = 0
    /\ call' = [call EXCEPT ![c] = "scan"]
    /\ seen' = [sv \in Servers |-> {con_count(count[sv])}]
    /\ UNCHANGED <<status, min, server, count, utoken, processVars,
                   clientVars, stops, faults, owed, stale>>

Candidate(sv, n) == [name |-> sv, con_count |-> n]

\* Mutant: con_count of a server without a count stays 0 (line 97 is gone).
lesserOrAbsent(sv, n) ==
    IF at = 0 \/ n < min.con_count \/ count[sv] = Absent THEN Candidate(sv, n) ELSE min

\* minServer, once n has been read for sv.
lesser(sv, n) == IF at = 0 \/ n < min.con_count THEN Candidate(sv, n) ELSE min

\* One HGet of the scan: the first server is taken, a later one if it has less.
HGetCount(c) ==
    /\ call[c] = "scan" /\ at < Len(_servers)
    /\ LET sv == _servers[at + 1] IN
       \E n \in {con_count(count[sv]), INT_MAX} :
         /\ \/ n = con_count(count[sv]) /\ NoFault
            \/ n = INT_MAX /\ Fault
         /\ seen' = [seen EXCEPT ![sv] = @ \cup {n}]
         /\ min' = lesser(sv, n)
    /\ at' = at + 1
    /\ UNCHANGED <<status, mtx, call, server, count, utoken, processVars,
                   clientVars, stops, owed, stale>>

\* The loop is left, and the mutex with it.
EndScan ==
    /\ mtx' = None /\ at' = 0 /\ min' = NoServer
    /\ seen' = [sv \in Servers |-> {}]

\* HGet does not look for an error reply, of whose text stoi makes an exception: gRPC
\* answers the call with an error.
HGetThrow(c) ==
    /\ call[c] = "scan" /\ at < Len(_servers) /\ Fault
    /\ EndScan
    /\ call' = [call EXCEPT ![c] = "failed"]
    /\ UNCHANGED <<status, server, count, utoken, processVars, clientVars,
                   stops, owed, stale>>

\* The guard of getChatServer releases the mutex.
UnlockServers(c) ==
    /\ call[c] = "scan" /\ at = Len(_servers)
    /\ server' = [server EXCEPT ![c] = min.name]
    /\ EndScan
    /\ call' = [call EXCEPT ![c] = "token"]
    /\ UNCHANGED <<status, count, utoken, processVars, clientVars,
                   stops, faults, owed, stale>>

\* Mutant: a token that is there stays.
newTokenOnly(c) == IF utoken[UserOf[c]] = None THEN c ELSE utoken[UserOf[c]]

newToken(c) == c

\* insertToken, and the reply.  What Set returns is ignored; nothing ever reads the
\* copy that is kept in _tokens.
SetToken(c) ==
    /\ call[c] = "token"
    /\ \/ utoken' = [utoken EXCEPT ![UserOf[c]] = newToken(c)] /\ NoFault /\ UNCHANGED owed
       \/ UNCHANGED utoken /\ Fault /\ owed' = owed \ {c}
    /\ call' = [call EXCEPT ![c] = "done"]
    /\ UNCHANGED <<status, mtx, at, min, server, count, processVars,
                   clientVars, stops, seen, stale>>

CallStep(c) == LockServers(c) \/ HGetCount(c) \/ HGetThrow(c) \/ UnlockServers(c) \/ SetToken(c)

\* SIGINT: Shutdown lets the calls under way finish and accepts no more.
StatusSignal ==
    /\ status = "up" /\ Stop
    /\ status' = "drain"
    /\ UNCHANGED <<mtx, at, min, call, server, count, utoken, processVars,
                   clientVars, faults, historyVars>>

StatusExit ==
    /\ status = "drain" /\ \A c \in Clients : call[c] \notin UnderWay
    /\ status' = "down"
    /\ UNCHANGED <<mtx, at, min, call, server, count, utoken, processVars,
                   clientVars, stops, faults, historyVars>>

\* The gate's calls end with an error.
StatusCrash ==
    /\ status # "down" /\ Stop
    /\ status' = "down"
    /\ EndScan
    /\ call' = [c \in Clients |-> IF call[c] \in UnderWay THEN "failed" ELSE call[c]]
    /\ UNCHANGED <<server, count, utoken, processVars, clientVars, faults, owed, stale>>

StatusStart ==
    /\ status = "down"
    /\ status' = "up"
    /\ UNCHANGED <<mtx, at, min, call, server, count, utoken, processVars,
                   clientVars, stops, faults, historyVars>>

-----------------------------------------------------------------------------
(* main of a chat server *)

Serving == {"run", "stopping"}

\* Redis has been closed by main: HGet is "", Get and HSet do nothing.
Closed(sv) == main[sv] = "join"

\* HSet of login_count to v.
HSet(sv, v) ==
    \/ ~Closed(sv) /\ PutCount(sv, v) /\ NoFault
    \/ ~Closed(sv) /\ KeepCount /\ Fault
    \/ Closed(sv) /\ KeepCount /\ NoFault

\* The count is set first, the acceptor listens some time later.
StartProcess(sv) ==
    /\ main[sv] = "down"
    /\ HSet(sv, 0)
    /\ main' = [main EXCEPT ![sv] = "run"]
    /\ stale' = IF count'[sv] = 0 THEN stale \ {sv} ELSE stale
    /\ UNCHANGED <<statusVars, utoken, msg_que, logic, ltmp, clientVars, stops, owed>>

\* A process that is started beside one whose main does not return: it sets the
\* count and then fails on the port.
StartInVain(sv) ==
    /\ main[sv] = "join"
    /\ PutCount(sv, 0)
    /\ stale' = stale \cup {sv}
    /\ UNCHANGED <<statusVars, utoken, processVars, clientVars, stops, faults, owed>>

\* io_context.stop(), and pool.Stop() in the same handler: no accept from here on.
Signal(sv) ==
    /\ main[sv] = "run" /\ Stop
    /\ main' = [main EXCEPT ![sv] = "stopping"]
    /\ UNCHANGED <<statusVars, count, utoken, msg_que, logic, ltmp, clientVars,
                   faults, historyVars>>

\* Mutant: a write does not keep the io thread.
SessionsRead(sv) == {c \in Clients : server[c] = sv /\ conn[c] \in {"open", "hget", "hset"}}

\* Sessions an io thread has something to wait for or to do for: a read, a write, a Close.
SessionsOf(sv) ==
    {c \in Clients : /\ server[c] = sv
                     /\ conn[c] \in {"open", "hget", "hset"} \/ answer[c] = "sent"}

\* Mutants: pool.Stop does not join the io threads; it does not reset their work.
PoolNotJoined(sv) == TRUE
PoolWorks(sv) == FALSE

\* The io threads have nothing left to wait for, and pool.Stop returns.
PoolJoined(sv) == SessionsOf(sv) = {}

\* The logic thread is not stopped: what it has left to do comes after HDel.
DeleteCount(sv) ==
    /\ main[sv] = "stopping" /\ PoolJoined(sv)
    /\ \/ PutCount(sv, Absent) /\ NoFault
          /\ stale' = IF msg_que[sv] = <<>> THEN stale \ {sv} ELSE stale \cup {sv}
       \/ KeepCount /\ Fault /\ stale' = stale \cup {sv}
    /\ main' = [main EXCEPT ![sv] = "close"]
    /\ UNCHANGED <<statusVars, utoken, msg_que, logic, ltmp, clientVars, stops, owed>>

\* RedisMgr::Close, and then the join that does not return.
CloseRedis(sv) ==
    /\ main[sv] = "close"
    /\ main' = [main EXCEPT ![sv] = "join"]
    /\ UNCHANGED <<statusVars, count, utoken, msg_que, logic, ltmp, clientVars,
                   stops, faults, historyVars>>

MainStep(sv) == DeleteCount(sv) \/ CloseRedis(sv)

\* The process ends, whatever it is doing (an error reply that the logic thread makes a
\* number of ends it too), and nobody deletes its count; the one whose main does not
\* return has to be killed.
Crash(sv) ==
    /\ main[sv] # "down"
    /\ IF main[sv] = "join" THEN UNCHANGED stops ELSE Stop
    /\ main' = [main EXCEPT ![sv] = "down"]
    /\ msg_que' = [msg_que EXCEPT ![sv] = <<>>]
    /\ logic' = [logic EXCEPT ![sv] = "wait"] /\ ltmp' = [ltmp EXCEPT ![sv] = 0]
    /\ LET gone == {c \in Clients : server[c] = sv /\ conn[c] # "none"} IN
       /\ conn' = [c \in Clients |-> IF c \in gone THEN "closed" ELSE conn[c]]
       /\ ctmp' = [c \in Clients |-> IF c \in gone THEN 0 ELSE ctmp[c]]
       /\ answer' = [c \in Clients |-> IF c \in gone THEN "none" ELSE answer[c]]
    /\ stale' = IF count[sv] = Absent THEN stale ELSE stale \cup {sv}
    /\ UNCHANGED <<statusVars, count, utoken, posted, refused, faults, seen, owed>>

-----------------------------------------------------------------------------
(* Clients and sessions *)

Connect(c) ==
    /\ call[c] = "done" /\ conn[c] = "none" /\ main[server[c]] = "run"
    /\ conn' = [conn EXCEPT ![c] = "open"]
    /\ UNCHANGED <<statusVars, count, utoken, processVars, ctmp, answer, posted, refused,
                   stops, faults, historyVars>>

\* The io thread posts a message while no handler runs.
Post(m) ==
    LET c == Sender(m) IN
    /\ conn[c] = "open" /\ m \notin posted
    /\ logic[server[c]] = "wait"
    /\ msg_que' = [msg_que EXCEPT ![server[c]] = Append(@, m)]
    /\ posted' = posted \cup {m}
    /\ UNCHANGED <<statusVars, count, utoken, main, logic, ltmp, conn, ctmp, answer,
                   refused, stops, faults, historyVars>>

\* The client disconnects: the read ends, and Close begins.
Leave(c) ==
    /\ conn[c] = "open"
    /\ conn' = [conn EXCEPT ![c] = "hget"]
    /\ UNCHANGED <<statusVars, count, utoken, processVars, ctmp, answer, posted, refused,
                   stops, faults, historyVars>>

\* After a header that cannot be, nothing is read and nothing is closed.
BadHeader(c) ==
    /\ conn[c] = "open"
    /\ conn' = [conn EXCEPT ![c] = "stuck"]
    /\ UNCHANGED <<statusVars, count, utoken, processVars, ctmp, answer, posted, refused,
                   stops, faults, historyVars>>

AnswerWritten(c) ==
    /\ answer[c] = "sent" /\ conn[c] \in {"open", "stuck"}
    /\ answer' = [answer EXCEPT ![c] = "none"]
    /\ UNCHANGED <<statusVars, count, utoken, processVars, conn, ctmp, posted, refused,
                   stops, faults, historyVars>>

\* A write fails, and Close begins, for the second time if the read has ended; what is
\* left in _send_que lets no later answer out.
FailedWrite(c) ==
    /\ answer[c] = "sent"
    /\ answer' = [answer EXCEPT ![c] = "failed"]
    /\ conn' = [conn EXCEPT ![c] = "hget"]
    /\ UNCHANGED <<statusVars, count, utoken, processVars, ctmp, posted, refused,
                   stops, faults, historyVars>>

\* The client is gone with nothing read from it, or the socket has been closed.
ClientLost(c) == conn[c] = "stuck" /\ FailedWrite(c)
WriteAborted(c) == conn[c] = "closed" /\ FailedWrite(c)

\* login_count as HGet and stoi give it.
login_count(sv) == IF Closed(sv) \/ count[sv] = Absent THEN 0 ELSE count[sv]

HGet(sv, n) == (n = login_count(sv) /\ NoFault) \/ (n = 0 /\ ~Closed(sv) /\ Fault)

CloseReadCount(c) ==
    /\ conn[c] = "hget"
    /\ \E n \in {0, login_count(server[c])} :
         HGet(server[c], n) /\ ctmp' = [ctmp EXCEPT ![c] = n]
    /\ conn' = [conn EXCEPT ![c] = "hset"]
    /\ UNCHANGED <<statusVars, count, utoken, processVars, answer, posted, refused, stops,
                   historyVars>>

CloseWriteCount(c) ==
    /\ conn[c] = "hset"
    /\ HSet(server[c], IF ctmp[c] <= 1 THEN 0 ELSE ctmp[c] - 1)
    /\ ctmp' = [ctmp EXCEPT ![c] = 0]
    /\ conn' = [conn EXCEPT ![c] = "closed"]
    /\ UNCHANGED <<statusVars, utoken, processVars, answer, posted, refused, stops,
                   owed, stale>>

\* Out of Close by the exception of stoi, with the count as it is and the socket not
\* closed; after a failed write it is of no use to anybody.
CloseThrow(c) ==
    /\ conn[c] = "hget" /\ Fault
    /\ conn' = [conn EXCEPT ![c] = IF answer[c] = "failed" THEN "closed" ELSE "stuck"]
    /\ UNCHANGED <<statusVars, count, utoken, processVars, ctmp, answer, posted, refused,
                   stops, historyVars>>

CloseStep(c) == CloseReadCount(c) \/ CloseWriteCount(c) \/ CloseThrow(c)

-----------------------------------------------------------------------------
(* The handlers on the logic thread of sv *)

Message(sv) == Head(msg_que[sv])

\* Send, which comes to nothing once the io thread of the session has ended.
Answer(sv) ==
    LET c == Sender(Message(sv)) IN
    \/ /\ main[sv] \in Serving /\ answer[c] # "failed"
       /\ answer' = [answer EXCEPT ![c] = "sent"]
    \/ /\ answer[c] = "failed" \/ (main[sv] # "run" /\ c \notin SessionsOf(sv))
       /\ UNCHANGED answer

Done(sv) == msg_que' = [msg_que EXCEPT ![sv] = Tail(@)] /\ Answer(sv)

\* The client is told, if it is still there.
Refuse(sv) ==
    /\ refused' = IF conn[Message(sv)] \in {"open", "stuck"} /\ main[sv] \in Serving
                  THEN refused \cup {Message(sv)} ELSE refused
    /\ Done(sv)
    /\ UNCHANGED logic

CheckToken(sv) ==
    /\ logic[sv] = "wait" /\ msg_que[sv] # <<>> /\ Message(sv) \in Clients
    /\ LET c == Message(sv) IN
       \/ /\ ~Closed(sv) /\ utoken[UserOf[c]] = c
          /\ logic' = [logic EXCEPT ![sv] = "hget"]
          /\ NoFault /\ UNCHANGED <<msg_que, answer, refused, owed>>
       \/ /\ Closed(sv) \/ utoken[UserOf[c]] # c
          /\ Refuse(sv) /\ NoFault /\ UNCHANGED owed
       \/ ~Closed(sv) /\ Refuse(sv) /\ Fault /\ owed' = owed \ {c}
    /\ UNCHANGED <<statusVars, count, utoken, main, ltmp, conn, ctmp, posted,
                   stops, seen, stale>>

\* A user who is cached, or not to be found, is answered at once; for one who comes
\* from MySQL the login_count is raised as by a login.
SearchUser(sv) ==
    /\ logic[sv] = "wait" /\ msg_que[sv] # <<>> /\ Message(sv) \in Searches
    /\ \/ Done(sv) /\ UNCHANGED logic
       \/ logic' = [logic EXCEPT ![sv] = "hget"] /\ UNCHANGED <<msg_que, answer>>
    /\ UNCHANGED <<statusVars, count, utoken, main, ltmp, conn, ctmp, posted, refused,
                   stops, faults, historyVars>>

ReadCount(sv) ==
    /\ logic[sv] = "hget"
    /\ \E n \in {0, login_count(sv)} : HGet(sv, n) /\ ltmp' = [ltmp EXCEPT ![sv] = n]
    /\ logic' = [logic EXCEPT ![sv] = "hset"]
    /\ UNCHANGED <<statusVars, count, utoken, main, msg_que, clientVars, stops, historyVars>>

\* HSet, and the answer: the client is in, or here is the user.
WriteCount(sv) ==
    /\ logic[sv] = "hset"
    /\ HSet(sv, ltmp[sv] + 1)
    /\ ltmp' = [ltmp EXCEPT ![sv] = 0]
    /\ Done(sv)
    /\ logic' = [logic EXCEPT ![sv] = "wait"]
    /\ UNCHANGED <<statusVars, utoken, main, conn, ctmp, posted, refused, stops, owed, stale>>

LogicStep(sv) == CheckToken(sv) \/ SearchUser(sv) \/ ReadCount(sv) \/ WriteCount(sv)

-----------------------------------------------------------------------------

\* What the processes do by themselves.
System ==
    \/ \E c \in Clients : CallStep(c) \/ CloseStep(c) \/ WriteAborted(c)
    \/ \E sv \in Servers : MainStep(sv) \/ LogicStep(sv)

Next ==
    \/ System
    \/ StatusSignal \/ StatusExit \/ StatusCrash \/ StatusStart
    \/ \E c \in Clients : \/ GetChatServer(c) \/ Connect(c) \/ Leave(c) \/ BadHeader(c)
                          \/ AnswerWritten(c) \/ ClientLost(c)
    \/ \E m \in Messages : Post(m)
    \/ \E sv \in Servers :
         StartProcess(sv) \/ StartInVain(sv) \/ Signal(sv) \/ Crash(sv)

Spec == Init /\ [][Next]_vars

\* Threads run.  No behaviour has more than finitely many steps of System, so it
\* takes no fairness between them: every thread gets to its end.  Nobody need ask,
\* connect, leave, take an answer, start or stop anything.
Fairness == WF_vars(System)

FairSpec == Spec /\ Fairness

-----------------------------------------------------------------------------
(* Properties *)

CallTypes ==
    /\ status \in {"up", "drain", "down"}
    /\ mtx \in Clients \cup {None} /\ at \in 0..Len(_servers)
    /\ min \in [name : Servers \cup {None}, con_count : Nat]
    /\ call \in [Clients -> {"new", "lock", "scan", "token", "done", "failed"}]
    /\ server \in [Clients -> Servers \cup {None}]
RedisTypes ==
    /\ count \in [Servers -> Nat \cup {Absent}]
    /\ utoken \in [Users -> Clients \cup {None}]
ProcessTypes ==
    /\ main \in [Servers -> {"down", "run", "stopping", "close", "join"}]
    /\ msg_que \in [Servers -> Seq(Messages)]
    /\ logic \in [Servers -> {"wait", "hget", "hset"}]
    /\ ltmp \in [Servers -> Nat]
ClientTypes ==
    /\ conn \in [Clients -> {"none", "open", "stuck", "hget", "hset", "closed"}]
    /\ ctmp \in [Clients -> Nat]
    /\ answer \in [Clients -> {"none", "sent", "failed"}]
    /\ posted \subseteq Messages /\ refused \subseteq Clients
HistoryTypes ==
    /\ stops \in 0..MaxStops /\ faults \in 0..MaxFaults
    /\ seen \in [Servers -> SUBSET Nat]
    /\ owed \subseteq Clients /\ stale \subseteq Servers

\* Type invariant.
TypeOK == CallTypes /\ RedisTypes /\ ProcessTypes /\ ClientTypes /\ HistoryTypes

\* getChatServer reads the counts one by one while logins, closes, starts and
\* stops change them: the server it gives has, at some time of the scan, a count
\* not above one that each other server has at some time of it.  If nothing
\* changes that is the least count, and a server without a count is given only
\* if no server has one throughout (StatusServiceImpl.cpp 79-108).
ChosenWasLeast ==
    [][\A c \in Clients :
         (call[c] = "scan" /\ call'[c] = "token")
         => \A sv \in Servers :
              \E m \in seen[server'[c]], n \in seen[sv] : m <= n]_vars

\* A server has a count only while its process serves.  The count outlives the
\* process in four ways only: it dies, HDel fails, its logic thread still has a
\* message when main deletes the count, or a second process is started in vain.
\* The Closes never bring it back, not even the second one of a session, since
\* pool.Stop waits for reads and writes to end (ChatServer.cpp 37-47,
\* AsioIOServicePool.cpp 33-43).
CountOfTheServing ==
    \A sv \in Servers : count[sv] # Absent => main[sv] \in Serving \/ sv \in stale

\* A client that is still connected is refused only if another call for its user
\* overlapped its call or came after it, or Redis failed on its token: neither a
\* restart of the status server nor one of the chat server makes a ticket void.
TicketAdmits == refused \cap owed = {}

\* After a signal main comes as far as the join of the gRPC thread, unless a
\* client stays connected that is read from, or that has an answer to take; a session
\* that is stuck does not keep it (ChatServer.cpp 37-47).
StopWaitsForClients ==
    \A sv \in Servers :
        main[sv] = "stopping"
        ~> \/ main[sv] \in {"join", "down"}
           \/ \E c \in SessionsOf(sv) : conn[c] \in {"open", "stuck"}
==============================================================================

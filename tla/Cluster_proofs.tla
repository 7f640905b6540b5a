---------------------------- MODULE Cluster_proofs ----------------------------
(***************************************************************************)
(* Proofs about Cluster, for any number of chat servers, clients and users *)
(* and any number of signals, crashes and failures.                        *)
(*                                                                         *)
(* Inv is inductive.  Beside the types it says: reads, writes and Closes   *)
(* are under way only in a process that serves, and messages are queued    *)
(* only at the server of their client (SessionInv, QueueInv); a ticket     *)
(* that is owed entrance is the only one its user has under way, and once  *)
(* handed out it is what Redis has (TicketInv); a message that the logic   *)
(* thread still has when the count is deleted marks it stale (CountInv);   *)
(* and minServer is not above what was read for any server the scan has    *)
(* passed (ScanInv).                                                       *)
(***************************************************************************)
EXTENDS Cluster, FiniteSetTheorems, TLAPS

SessionInv ==
    /\ \A c \in Clients : call[c] \in {"token", "done"} => server[c] \in Servers
    /\ \A c \in Clients : conn[c] # "none" => call[c] = "done"
    /\ \A c \in Clients : answer[c] = "sent" => conn[c] # "none"
    /\ \A c \in Clients :
         conn[c] \in {"open", "hget", "hset"} \/ answer[c] = "sent" => main[server[c]] \in Serving

QueueInv ==
    /\ \A sv \in Servers : \A i \in 1..Len(msg_que[sv]) :
         conn[Sender(msg_que[sv][i])] # "none" /\ server[Sender(msg_que[sv][i])] = sv
    /\ \A sv \in Servers : logic[sv] # "wait" => msg_que[sv] # <<>>
    /\ \A sv \in Servers : main[sv] = "down" => msg_que[sv] = <<>>

TicketInv ==
    /\ \A c \in owed : call[c] # "new"
    /\ \A c \in owed, d \in Clients :
         UserOf[d] = UserOf[c] /\ call[d] \in UnderWay => d = c
    /\ \A c \in owed : call[c] = "done" => utoken[UserOf[c]] = c
    /\ \A c \in refused : call[c] = "done"
    /\ TicketAdmits

CountInv ==
    /\ CountOfTheServing
    /\ \A sv \in Servers : main[sv] = "close" /\ msg_que[sv] # <<>> => sv \in stale

NotAbove(n, sv) == \E m \in seen[sv] : n <= m

ScanInv ==
    /\ \A c \in Clients : call[c] = "scan" <=> mtx = c
    /\ mtx # None /\ at > 0 =>
         /\ min.name \in Servers /\ min.con_count \in seen[min.name]
         /\ \A j \in 1..at : NotAbove(min.con_count, _servers[j])

Inv == TypeOK /\ SessionInv /\ QueueInv /\ TicketInv /\ CountInv /\ ScanInv

USE DEF Serving, UnderWay

-----------------------------------------------------------------------------
(* Types *)

LEMMA Assumptions ==
    /\ Len(_servers) \in Nat \ {0}
    /\ \A i \in 1..Len(_servers) : _servers[i] \in Servers
    /\ \A sv \in Servers : \E i \in 1..Len(_servers) : _servers[i] = sv
    /\ None \notin Servers /\ None \notin Clients
    /\ \A c \in Clients : UserOf[c] \in Users
    /\ INT_MAX \in Nat
BY ClusterAssumption

LEMMA Senders ==
    /\ \A m \in Messages : Sender(m) \in Clients
    /\ \A c \in Clients : c \in Messages /\ Sender(c) = c
BY ClusterAssumption DEF Messages, Sender

LEMMA Counts ==
    ASSUME NEW v \in Nat \cup {Absent}
    PROVE  con_count(v) \in Nat
BY Assumptions DEF con_count

LEMMA Spent ==
    ASSUME HistoryTypes
    PROVE  /\ Stop => stops' \in 0..MaxStops
           /\ Fault => faults' \in 0..MaxFaults
BY ClusterAssumption DEF HistoryTypes, Stop, Fault

\* What writing a count, and not writing it, do to the types.
LEMMA CountTypes ==
    ASSUME TypeOK, NEW sv \in Servers, NEW v \in Nat \cup {Absent}
    PROVE  /\ PutCount(sv, v) => count' \in [Servers -> Nat \cup {Absent}]
                                /\ seen' \in [Servers -> SUBSET Nat]
           /\ KeepCount => count' = count /\ seen' = seen
           /\ HSet(sv, v) => /\ count' \in [Servers -> Nat \cup {Absent}]
                             /\ seen' \in [Servers -> SUBSET Nat]
                             /\ faults' \in 0..MaxFaults
<1>. USE DEF TypeOK, RedisTypes, HistoryTypes
<1>1. ASSUME PutCount(sv, v)
      PROVE  count' \in [Servers -> Nat \cup {Absent}] /\ seen' \in [Servers -> SUBSET Nat]
  <2>1. seen[sv] \cup {con_count(v)} \in SUBSET Nat
    BY Counts
  <2>. QED  BY <1>1, <2>1 DEF PutCount
<1>2. KeepCount => count' = count /\ seen' = seen
  BY DEF KeepCount
<1>. QED  BY <1>1, <1>2, Spent DEF HSet, NoFault

LEMMA LoginCounts ==
    ASSUME TypeOK, NEW sv \in Servers
    PROVE  /\ login_count(sv) \in Nat
           /\ \A n : HGet(sv, n) => n \in Nat /\ faults' \in 0..MaxFaults
<1>. USE DEF TypeOK
<1>1. login_count(sv) \in Nat
  BY DEF login_count, RedisTypes, Absent
<1>. QED  BY <1>1, Spent DEF HGet, NoFault, HistoryTypes

\* A step of a call of GetChatServer, and of the status server.
LEMMA TypesOfCalls ==
    ASSUME TypeOK, ScanInv,
           \/ \E c \in Clients : GetChatServer(c) \/ CallStep(c)
           \/ StatusSignal \/ StatusExit \/ StatusCrash \/ StatusStart
    PROVE  TypeOK'
<1>. USE DEF TypeOK, CallTypes, RedisTypes, ProcessTypes, ClientTypes, HistoryTypes,
       statusVars, processVars, clientVars, historyVars
<1>1. CASE \E c \in Clients : GetChatServer(c)
  BY <1>1 DEF GetChatServer
<1>2. CASE \E c \in Clients : LockServers(c)
  <2>1. PICK c \in Clients : LockServers(c)
    BY <1>2
  <2>2. seen' \in [Servers -> SUBSET Nat]
    <3>1. \A sv \in Servers : con_count(count[sv]) \in Nat
      BY Counts
    <3>2. seen' = [sv \in Servers |-> {con_count(count[sv])}]
      BY <2>1 DEF LockServers
    <3>. QED  BY <3>1, <3>2
  <2>3. at' = 0 /\ 0 \in 0..Len(_servers)
    BY <2>1, Assumptions DEF LockServers
  <2>. QED  BY <2>1, <2>2, <2>3 DEF LockServers
<1>3. CASE \E c \in Clients : HGetCount(c)
  <2>1. PICK c \in Clients : HGetCount(c)
    BY <1>3
  <2>2. at \in 0..Len(_servers) /\ Len(_servers) \in Nat /\ at < Len(_servers)
    BY <2>1, Assumptions DEF HGetCount
  <2>3. at' \in 0..Len(_servers) /\ _servers[at + 1] \in Servers
    BY <2>1, <2>2, Assumptions DEF HGetCount
  <2>4. PICK n \in {con_count(count[_servers[at + 1]]), INT_MAX} :
          /\ NoFault \/ Fault
          /\ seen' = [seen EXCEPT ![_servers[at + 1]] = @ \cup {n}]
          /\ min' = lesser(_servers[at + 1], n)
    BY <2>1 DEF HGetCount
  <2>5. n \in Nat
    <3>1. count[_servers[at + 1]] \in Nat \cup {Absent}
      BY <2>3
    <3>2. con_count(count[_servers[at + 1]]) \in Nat
      BY <3>1, Counts
    <3>. QED  BY <3>2, Assumptions
  <2>6. seen' \in [Servers -> SUBSET Nat]
    BY <2>3, <2>4, <2>5
  <2>7. min' \in [name : Servers \cup {None}, con_count : Nat]
    BY <2>3, <2>4, <2>5 DEF lesser, Candidate
  <2>8. faults' \in 0..MaxFaults
    BY <2>4, Spent DEF NoFault
  <2>. QED  BY <2>1, <2>3, <2>6, <2>7, <2>8 DEF HGetCount
<1>4. CASE \E c \in Clients : UnlockServers(c) \/ HGetThrow(c)
  <2>1. PICK c \in Clients : UnlockServers(c) \/ HGetThrow(c)
    BY <1>4
  <2>2. min.name \in Servers \cup {None} /\ NoServer \in [name : Servers \cup {None}, con_count : Nat]
    BY DEF NoServer
  <2>3. 0 \in 0..Len(_servers) /\ faults' \in 0..MaxFaults
    BY <2>1, Assumptions, Spent DEF UnlockServers, HGetThrow
  <2>. QED  BY <2>1, <2>2, <2>3 DEF UnlockServers, HGetThrow, EndScan
<1>5. CASE \E c \in Clients : SetToken(c)
  <2>1. PICK c \in Clients : SetToken(c)
    BY <1>5
  <2>2. faults' \in 0..MaxFaults
    BY <2>1, Spent DEF SetToken, NoFault
  <2>3. UserOf[c] \in Users /\ utoken \in [Users -> Clients \cup {None}]
    BY Assumptions
  <2>4. utoken' = [utoken EXCEPT ![UserOf[c]] = c] \/ utoken' = utoken
    BY <2>1 DEF SetToken, newToken
  <2>5. utoken' \in [Users -> Clients \cup {None}]
    BY <2>3, <2>4
  <2>. QED  BY <2>1, <2>2, <2>5 DEF SetToken
<1>6. CASE StatusSignal
  BY <1>6, Spent DEF StatusSignal
<1>7. CASE StatusExit
  BY <1>7 DEF StatusExit
<1>8. CASE StatusCrash
  <2>1. NoServer \in [name : Servers \cup {None}, con_count : Nat] /\ 0 \in 0..Len(_servers)
    BY Assumptions DEF NoServer
  <2>2. seen' \in [Servers -> SUBSET Nat]
    BY <1>8 DEF StatusCrash, EndScan
  <2>3. call' \in [Clients -> {"new", "lock", "scan", "token", "done", "failed"}]
    BY <1>8 DEF StatusCrash
  <2>. QED  BY <1>8, <2>1, <2>2, <2>3, Spent DEF StatusCrash, EndScan
<1>9. CASE StatusStart
  BY <1>9 DEF StatusStart
<1>. QED  BY <1>1, <1>2, <1>3, <1>4, <1>5, <1>6, <1>7, <1>8, <1>9 DEF CallStep

\* A step of the main of a chat server.
LEMMA TypesOfMain ==
    ASSUME TypeOK, NEW sv \in Servers,
           \/ StartProcess(sv) \/ StartInVain(sv) \/ Signal(sv) \/ Crash(sv) \/ MainStep(sv)
    PROVE  TypeOK'
<1>. USE DEF TypeOK, CallTypes, RedisTypes, ProcessTypes, ClientTypes, HistoryTypes,
       statusVars, processVars, clientVars, historyVars
<1>1. CASE StartProcess(sv)
  <2>1. /\ count' \in [Servers -> Nat \cup {Absent}] /\ seen' \in [Servers -> SUBSET Nat]
        /\ faults' \in 0..MaxFaults
    BY <1>1, CountTypes DEF StartProcess
  <2>. QED  BY <1>1, <2>1 DEF StartProcess
<1>2. CASE StartInVain(sv)
  <2>1. count' \in [Servers -> Nat \cup {Absent}] /\ seen' \in [Servers -> SUBSET Nat]
    BY <1>2, CountTypes DEF StartInVain
  <2>. QED  BY <1>2, <2>1 DEF StartInVain
<1>3. CASE Signal(sv)
  BY <1>3, Spent DEF Signal
<1>4. CASE Crash(sv)
  <2>1. stops' \in 0..MaxStops
    BY <1>4, Spent DEF Crash
  <2>2. msg_que' \in [Servers -> Seq(Messages)]
    BY <1>4 DEF Crash
  <2>. QED  BY <1>4, <2>1, <2>2 DEF Crash
<1>5. CASE DeleteCount(sv)
  <2>1. Absent \in Nat \cup {Absent}
    OBVIOUS
  <2>2. count' \in [Servers -> Nat \cup {Absent}] /\ seen' \in [Servers -> SUBSET Nat]
    BY <1>5, <2>1, CountTypes DEF DeleteCount
  <2>3. faults' \in 0..MaxFaults
    BY <1>5, Spent DEF DeleteCount, NoFault
  <2>. QED  BY <1>5, <2>2, <2>3 DEF DeleteCount
<1>6. CASE CloseRedis(sv)
  BY <1>6 DEF CloseRedis
<1>. QED  BY <1>1, <1>2, <1>3, <1>4, <1>5, <1>6 DEF MainStep

\* A message is posted.
LEMMA TypesOfPost ==
    ASSUME TypeOK, SessionInv, NEW m \in Messages, Post(m)
    PROVE  TypeOK'
<1>. USE DEF TypeOK, CallTypes, RedisTypes, ProcessTypes, ClientTypes, HistoryTypes,
       statusVars, historyVars
<1>1. Sender(m) \in Clients /\ conn[Sender(m)] = "open"
  BY Senders DEF Post
<1>2. server[Sender(m)] \in Servers
  BY <1>1 DEF SessionInv
<1>3. Append(msg_que[server[Sender(m)]], m) \in Seq(Messages)
  BY <1>2
<1>4. msg_que' \in [Servers -> Seq(Messages)]
  BY <1>2, <1>3 DEF Post
<1>. QED  BY <1>4 DEF Post

\* A step of a client or of its session.
LEMMA TypesOfSessions ==
    ASSUME TypeOK, SessionInv, NEW c \in Clients,
           \/ Connect(c) \/ Leave(c) \/ BadHeader(c) \/ AnswerWritten(c) \/ FailedWrite(c)
           \/ CloseStep(c)
    PROVE  TypeOK'
<1>. USE DEF TypeOK, CallTypes, RedisTypes, ProcessTypes, ClientTypes, HistoryTypes,
       statusVars, processVars, clientVars, historyVars
<1>1. CASE Connect(c)
  BY <1>1 DEF Connect
<1>2. CASE AnswerWritten(c) \/ FailedWrite(c)
  <2>1. /\ \/ answer' = [answer EXCEPT ![c] = "none"]
           \/ answer' = [answer EXCEPT ![c] = "failed"]
        /\ conn' = conn \/ conn' = [conn EXCEPT ![c] = "hget"]
        /\ UNCHANGED <<statusVars, count, utoken, processVars, ctmp, posted, refused>>
        /\ UNCHANGED <<stops, faults, historyVars>>
    BY <1>2 DEF AnswerWritten, FailedWrite
  <2>2. answer' \in [Clients -> {"none", "sent", "failed"}]
    BY <2>1
  <2>3. conn' \in [Clients -> {"none", "open", "stuck", "hget", "hset", "closed"}]
    BY <2>1
  <2>. QED  BY <2>1, <2>2, <2>3
<1>3. CASE Leave(c) \/ BadHeader(c)
  BY <1>3 DEF Leave, BadHeader
<1>4. CASE CloseReadCount(c)
  <2>1. server[c] \in Servers
    BY <1>4 DEF CloseReadCount, SessionInv
  <2>2. PICK n : HGet(server[c], n) /\ ctmp' = [ctmp EXCEPT ![c] = n]
    BY <1>4 DEF CloseReadCount
  <2>3. n \in Nat /\ faults' \in 0..MaxFaults
    BY <2>1, <2>2, LoginCounts
  <2>. QED  BY <1>4, <2>2, <2>3 DEF CloseReadCount
<1>5. CASE CloseWriteCount(c)
  <2>1. server[c] \in Servers
    BY <1>5 DEF CloseWriteCount, SessionInv
  <2>2. (IF ctmp[c] <= 1 THEN 0 ELSE ctmp[c] - 1) \in Nat \cup {Absent}
    OBVIOUS
  <2>3. /\ count' \in [Servers -> Nat \cup {Absent}] /\ seen' \in [Servers -> SUBSET Nat]
        /\ faults' \in 0..MaxFaults
    BY <1>5, <2>1, <2>2, CountTypes DEF CloseWriteCount
  <2>. QED  BY <1>5, <2>3 DEF CloseWriteCount
<1>6. CASE CloseThrow(c)
  BY <1>6, Spent DEF CloseThrow
<1>. QED  BY <1>1, <1>2, <1>3, <1>4, <1>5, <1>6 DEF CloseStep

\* What a handler does when it is done.
LEMMA TypesOfDone ==
    ASSUME TypeOK, NEW sv \in Servers, msg_que[sv] # <<>>
    PROVE  /\ Message(sv) \in Messages /\ Sender(Message(sv)) \in Clients
           /\ Answer(sv) => answer' \in [Clients -> {"none", "sent", "failed"}]
           /\ Done(sv) => /\ msg_que' \in [Servers -> Seq(Messages)]
                          /\ answer' \in [Clients -> {"none", "sent", "failed"}]
<1>. USE DEF TypeOK, ProcessTypes, ClientTypes
<1>1. Message(sv) \in Messages /\ Tail(msg_que[sv]) \in Seq(Messages)
  BY DEF Message
<1>2. Sender(Message(sv)) \in Clients
  BY <1>1, Senders
<1>3. Answer(sv) => answer' \in [Clients -> {"none", "sent", "failed"}]
  BY <1>2 DEF Answer
<1>. QED  BY <1>1, <1>2, <1>3 DEF Done

\* A step of the logic thread.
LEMMA TypesOfLogic ==
    ASSUME TypeOK, QueueInv, NEW sv \in Servers, LogicStep(sv)
    PROVE  TypeOK'
<1>. USE DEF TypeOK, CallTypes, RedisTypes, ProcessTypes, ClientTypes, HistoryTypes,
       statusVars, processVars, clientVars, historyVars
<1>1. msg_que[sv] # <<>>
  BY DEF LogicStep, CheckToken, SearchUser, ReadCount, WriteCount, QueueInv
<1>2. CASE CheckToken(sv)
  <2>1. Message(sv) \in Clients /\ faults' \in 0..MaxFaults
    BY <1>2, Spent DEF CheckToken, NoFault
  <2>2. \/ Refuse(sv)
        \/ logic' = [logic EXCEPT ![sv] = "hget"] /\ UNCHANGED <<msg_que, answer, refused>>
    BY <1>2 DEF CheckToken
  <2>3. owed' = owed \/ owed' = owed \ {Message(sv)}
    BY <1>2 DEF CheckToken
  <2>4. CASE Refuse(sv)
    <3>1. /\ msg_que' \in [Servers -> Seq(Messages)]
          /\ answer' \in [Clients -> {"none", "sent", "failed"}]
      BY <1>1, <2>4, TypesOfDone DEF Refuse
    <3>2. logic' = logic /\ refused' \subseteq Clients
      BY <2>1, <2>4 DEF Refuse
    <3>. QED  BY <1>2, <2>1, <2>3, <3>1, <3>2 DEF CheckToken
  <2>5. CASE logic' = [logic EXCEPT ![sv] = "hget"] /\ UNCHANGED <<msg_que, answer, refused>>
    BY <1>2, <2>1, <2>3, <2>5 DEF CheckToken
  <2>. QED  BY <2>2, <2>4, <2>5
<1>3. CASE SearchUser(sv)
  <2>1. /\ msg_que' \in [Servers -> Seq(Messages)]
        /\ answer' \in [Clients -> {"none", "sent", "failed"}]
        /\ logic' \in [Servers -> {"wait", "hget", "hset"}]
    BY <1>1, <1>3, TypesOfDone DEF SearchUser
  <2>. QED  BY <1>3, <2>1 DEF SearchUser
<1>4. CASE ReadCount(sv)
  <2>1. PICK n : HGet(sv, n) /\ ltmp' = [ltmp EXCEPT ![sv] = n]
    BY <1>4 DEF ReadCount
  <2>2. n \in Nat /\ faults' \in 0..MaxFaults
    BY <2>1, LoginCounts
  <2>. QED  BY <1>4, <2>1, <2>2 DEF ReadCount
<1>5. CASE WriteCount(sv)
  <2>1. ltmp[sv] + 1 \in Nat \cup {Absent}
    OBVIOUS
  <2>2. /\ count' \in [Servers -> Nat \cup {Absent}] /\ seen' \in [Servers -> SUBSET Nat]
        /\ faults' \in 0..MaxFaults
    BY <1>5, <2>1, CountTypes DEF WriteCount
  <2>3. /\ msg_que' \in [Servers -> Seq(Messages)]
        /\ answer' \in [Clients -> {"none", "sent", "failed"}]
    BY <1>1, <1>5, TypesOfDone DEF WriteCount
  <2>. QED  BY <1>5, <2>2, <2>3 DEF WriteCount
<1>. QED  BY <1>2, <1>3, <1>4, <1>5 DEF LogicStep

-----------------------------------------------------------------------------
(* Sessions and queues *)

\* The steps that change none of the variables SessionInv is about.
LEMMA SessionFrame ==
    ASSUME SessionInv, UNCHANGED <<call, server, conn, answer, main>>
    PROVE  SessionInv'
BY DEF SessionInv

LEMMA SessionOfCalls ==
    ASSUME Inv, NEW c \in Clients, GetChatServer(c) \/ CallStep(c)
    PROVE  SessionInv'
<1>. USE DEF Inv, TypeOK, CallTypes, processVars, clientVars
<1>0. ASSUME call[c] # "done", UNCHANGED <<conn, answer, main>>,
             \A d \in Clients \ {c} : call'[d] = call[d] /\ server'[d] = server[d],
             call'[c] \in {"token", "done"} => server'[c] \in Servers
      PROVE  SessionInv'
  <2>1. conn[c] = "none" /\ answer[c] # "sent"
    BY <1>0 DEF SessionInv
  <2>. QED  BY <1>0, <2>1 DEF SessionInv
<1>1. CASE GetChatServer(c)
  BY <1>0, <1>1 DEF GetChatServer
<1>2. CASE LockServers(c) \/ HGetCount(c) \/ HGetThrow(c)
  BY <1>0, <1>2 DEF LockServers, HGetCount, HGetThrow
<1>3. CASE UnlockServers(c)
  <2>1. call[c] = "scan" /\ at = Len(_servers) /\ mtx = c /\ c # None /\ at > 0
    BY <1>3, Assumptions DEF UnlockServers, ScanInv
  <2>2. min.name \in Servers
    BY <2>1 DEF ScanInv
  <2>. QED  BY <1>0, <1>3, <2>1, <2>2 DEF UnlockServers
<1>4. CASE SetToken(c)
  BY <1>0, <1>4 DEF SetToken, SessionInv
<1>. QED  BY <1>1, <1>2, <1>3, <1>4 DEF CallStep

\* A connection that changes: it stays one of its server, which serves if there is
\* anything to do for it.
LEMMA SessionOfClients ==
    ASSUME Inv, UNCHANGED <<call, server, main>>, NEW c \in Clients,
           \/ Connect(c) \/ Leave(c) \/ BadHeader(c) \/ AnswerWritten(c) \/ FailedWrite(c)
           \/ CloseStep(c)
    PROVE  SessionInv'
<1>. USE DEF Inv, TypeOK, ClientTypes
<1>1. /\ conn' = [conn EXCEPT ![c] = conn'[c]]
      /\ answer' = [answer EXCEPT ![c] = answer'[c]]
      /\ call[c] = "done" /\ conn'[c] # "none"
  BY DEF Connect, Leave, BadHeader, AnswerWritten, FailedWrite, CloseStep, CloseReadCount,
       CloseWriteCount, CloseThrow, SessionInv
<1>2. conn'[c] \in {"open", "hget", "hset"} \/ answer'[c] = "sent"
      => main[server[c]] \in Serving
  BY DEF Connect, Leave, BadHeader, AnswerWritten, FailedWrite, CloseStep, CloseReadCount,
       CloseWriteCount, CloseThrow, SessionInv
<1>. QED  BY <1>1, <1>2 DEF SessionInv

\* The message that is handled is of a client of this server.
LEMMA Handling ==
    ASSUME Inv, NEW sv \in Servers, msg_que[sv] # <<>>
    PROVE  /\ Message(sv) \in Messages /\ Sender(Message(sv)) \in Clients
           /\ Message(sv) = msg_que[sv][1] /\ 1 \in 1..Len(msg_que[sv])
           /\ conn[Sender(Message(sv))] # "none" /\ server[Sender(Message(sv))] = sv
           /\ call[Sender(Message(sv))] = "done"
<1>1. /\ msg_que[sv] \in Seq(Messages)
      /\ Message(sv) = msg_que[sv][1] /\ 1 \in 1..Len(msg_que[sv])
  BY DEF Inv, TypeOK, ProcessTypes, Message
<1>2. Message(sv) \in Messages /\ Sender(Message(sv)) \in Clients
  BY <1>1, Senders
<1>. QED  BY <1>1, <1>2 DEF Inv, QueueInv, SessionInv

LEMMA SessionOfLogic ==
    ASSUME Inv, NEW sv \in Servers, LogicStep(sv)
    PROVE  SessionInv'
<1>1. /\ UNCHANGED <<call, server, conn, main>> /\ msg_que[sv] # <<>>
      /\ (UNCHANGED answer \/ Answer(sv))
  BY DEF Inv, LogicStep, CheckToken, SearchUser, ReadCount, WriteCount, Refuse, Done, QueueInv,
       statusVars, clientVars
<1>2. CASE UNCHANGED answer
  BY <1>1, <1>2, SessionFrame DEF Inv
<1>3. CASE Answer(sv) /\ ~UNCHANGED answer
  <2>. DEFINE c == Sender(Message(sv))
  <2>1. c \in Clients /\ conn[c] # "none" /\ server[c] = sv
    BY <1>1, Handling
  <2>2. main[sv] \in Serving /\ answer' = [answer EXCEPT ![c] = "sent"]
    BY <1>3 DEF Answer
  <2>. QED  BY <1>1, <2>1, <2>2 DEF Inv, TypeOK, ClientTypes, SessionInv
<1>. QED  BY <1>1, <1>2, <1>3

LEMMA SessionStep ==
    ASSUME Inv, [Next]_vars
    PROVE  SessionInv'
<1>. USE DEF Inv, TypeOK, CallTypes, ProcessTypes, ClientTypes
<1>1. CASE \E c \in Clients : GetChatServer(c) \/ CallStep(c)
  BY <1>1, SessionOfCalls
<1>2. CASE StatusSignal \/ StatusExit \/ StatusStart
  <2>1. UNCHANGED <<call, server, conn, answer, main>>
    BY <1>2 DEF StatusSignal, StatusExit, StatusStart, processVars, clientVars
  <2>. QED  BY <2>1, SessionFrame
<1>3. CASE StatusCrash
  BY <1>3 DEF StatusCrash, SessionInv, processVars, clientVars
<1>4. CASE \E c \in Clients : \/ Connect(c) \/ Leave(c) \/ BadHeader(c) \/ AnswerWritten(c)
                              \/ FailedWrite(c) \/ CloseStep(c)
  <2>1. PICK c \in Clients : \/ Connect(c) \/ Leave(c) \/ BadHeader(c) \/ AnswerWritten(c)
                            \/ FailedWrite(c) \/ CloseStep(c)
    BY <1>4
  <2>2. UNCHANGED <<call, server, main>>
    BY <2>1 DEF Connect, Leave, BadHeader, AnswerWritten, FailedWrite, CloseStep,
         CloseReadCount, CloseWriteCount, CloseThrow, statusVars, processVars
  <2>. QED  BY <2>1, <2>2, SessionOfClients
<1>5. CASE \E sv \in Servers : LogicStep(sv)
  BY <1>5, SessionOfLogic
<1>6. CASE (\E sv \in Servers : StartInVain(sv)) \/ (\E m \in Messages : Post(m))
  <2>1. UNCHANGED <<call, server, conn, answer, main>>
    BY <1>6 DEF StartInVain, Post, statusVars, processVars, clientVars
  <2>. QED  BY <2>1, SessionFrame
<1>7. CASE \E sv \in Servers : StartProcess(sv) \/ Signal(sv) \/ CloseRedis(sv) \/ DeleteCount(sv)
  <2>1. PICK sv \in Servers : StartProcess(sv) \/ Signal(sv) \/ CloseRedis(sv) \/ DeleteCount(sv)
    BY <1>7
  <2>2. UNCHANGED <<call, server, conn, answer>>
    BY <2>1 DEF StartProcess, Signal, CloseRedis, DeleteCount, statusVars, clientVars
  <2>3. \/ main' = [main EXCEPT ![sv] = "run"]
        \/ main' = [main EXCEPT ![sv] = "stopping"]
        \/ main[sv] = "close" /\ main' = [main EXCEPT ![sv] = "join"]
        \/ SessionsOf(sv) = {} /\ main' = [main EXCEPT ![sv] = "close"]
    BY <2>1 DEF StartProcess, Signal, CloseRedis, DeleteCount, PoolJoined
  <2>4. ASSUME NEW c \in Clients,
               conn[c] \in {"open", "hget", "hset"} \/ answer[c] = "sent"
        PROVE  main'[server[c]] \in Serving
    <3>1. main[server[c]] \in Serving /\ server[c] \in Servers
      BY <2>4 DEF SessionInv
    <3>2. server[c] = sv => c \in SessionsOf(sv)
      BY <2>4 DEF SessionsOf
    <3>. QED  BY <2>3, <3>1, <3>2
  <2>. QED  BY <2>2, <2>4 DEF SessionInv
<1>8. CASE \E sv \in Servers : Crash(sv)
  <2>1. PICK sv \in Servers : Crash(sv)
    BY <1>8
  <2>2. UNCHANGED <<call, server>> /\ main' = [main EXCEPT ![sv] = "down"]
    BY <2>1 DEF Crash, statusVars
  <2>3. \A c \in Clients :
          IF server[c] = sv /\ conn[c] # "none" THEN conn'[c] = "closed" /\ answer'[c] = "none"
          ELSE conn'[c] = conn[c] /\ answer'[c] = answer[c]
    BY <2>1 DEF Crash
  <2>. QED  BY <2>2, <2>3 DEF SessionInv
<1>9. CASE UNCHANGED vars
  BY <1>9, SessionFrame DEF vars, statusVars, processVars, clientVars
<1>. QED  BY <1>1, <1>2, <1>3, <1>4, <1>5, <1>6, <1>7, <1>8, <1>9
            DEF Next, System, MainStep, ClientLost, WriteAborted

LEMMA QueueFrame ==
    ASSUME QueueInv, UNCHANGED <<msg_que, logic>>,
           \A c \in Clients : conn[c] # "none" => conn'[c] # "none" /\ server'[c] = server[c],
           \A sv \in Servers : main'[sv] = "down" => main[sv] = "down",
           msg_que \in [Servers -> Seq(Messages)]
    PROVE  QueueInv'
<1>1. ASSUME NEW sv \in Servers, NEW i \in 1..Len(msg_que[sv])
      PROVE  /\ conn'[Sender(msg_que[sv][i])] # "none"
             /\ server'[Sender(msg_que[sv][i])] = sv
  <2>1. Sender(msg_que[sv][i]) \in Clients
    BY Senders
  <2>. QED  BY <2>1 DEF QueueInv
<1>. QED  BY <1>1 DEF QueueInv

\* A handler that is done takes its message off the queue.
LEMMA QueueOfLogic ==
    ASSUME Inv, NEW sv \in Servers, LogicStep(sv)
    PROVE  QueueInv'
<1>. USE DEF Inv, TypeOK, ProcessTypes
<1>2. msg_que[sv] # <<>> /\ msg_que[sv] \in Seq(Messages) /\ UNCHANGED <<server, conn, main>>
  BY DEF LogicStep, CheckToken, SearchUser, ReadCount, WriteCount, QueueInv, statusVars, clientVars
<1>3. \/ UNCHANGED msg_que /\ logic' = [logic EXCEPT ![sv] = logic'[sv]]
      \/ msg_que' = [msg_que EXCEPT ![sv] = Tail(@)] /\ logic'[sv] = "wait"
         /\ logic' = [logic EXCEPT ![sv] = logic'[sv]]
  BY DEF LogicStep, CheckToken, SearchUser, ReadCount, WriteCount, Refuse, Done
<1>4. CASE UNCHANGED msg_que /\ logic' = [logic EXCEPT ![sv] = logic'[sv]]
  BY <1>2, <1>4 DEF QueueInv
<1>5. CASE /\ msg_que' = [msg_que EXCEPT ![sv] = Tail(@)] /\ logic'[sv] = "wait"
           /\ logic' = [logic EXCEPT ![sv] = logic'[sv]]
  <2>1. \A i \in 1..Len(Tail(msg_que[sv])) :
          i + 1 \in 1..Len(msg_que[sv]) /\ Tail(msg_que[sv])[i] = msg_que[sv][i + 1]
    BY <1>2
  <2>2. ASSUME NEW t \in Servers, NEW i \in 1..Len(msg_que'[t])
        PROVE  \E k \in 1..Len(msg_que[t]) : msg_que'[t][i] = msg_que[t][k]
    <3>1. CASE t = sv
      BY <1>5, <2>1, <3>1
    <3>2. CASE t # sv
      BY <1>5, <3>2
    <3>. QED  BY <3>1, <3>2
  <2>3. ASSUME NEW t \in Servers, NEW i \in 1..Len(msg_que'[t])
        PROVE  conn'[Sender(msg_que'[t][i])] # "none" /\ server'[Sender(msg_que'[t][i])] = t
    <3>1. PICK k \in 1..Len(msg_que[t]) : msg_que'[t][i] = msg_que[t][k]
      BY <2>2
    <3>2. conn[Sender(msg_que[t][k])] # "none" /\ server[Sender(msg_que[t][k])] = t
      BY DEF QueueInv
    <3>. QED  BY <1>2, <3>1, <3>2
  <2>4. ASSUME NEW t \in Servers, logic'[t] # "wait"
        PROVE  msg_que'[t] # <<>>
    BY <1>5, <2>4 DEF QueueInv
  <2>5. ASSUME NEW t \in Servers, main'[t] = "down"
        PROVE  msg_que'[t] = <<>>
    BY <1>2, <1>5, <2>5 DEF QueueInv
  <2>. QED  BY <2>3, <2>4, <2>5 DEF QueueInv
<1>. QED  BY <1>3, <1>4, <1>5

LEMMA QueueStep ==
    ASSUME Inv, [Next]_vars
    PROVE  QueueInv'
<1>. USE DEF Inv, TypeOK, CallTypes, ProcessTypes, ClientTypes
<1>1. CASE \E c \in Clients : GetChatServer(c) \/ CallStep(c)
  <2>1. PICK c \in Clients : GetChatServer(c) \/ CallStep(c)
    BY <1>1
  <2>2. UNCHANGED <<msg_que, logic, main, conn>> /\ conn[c] = "none"
    BY <2>1 DEF GetChatServer, CallStep, LockServers, HGetCount, HGetThrow, UnlockServers,
         SetToken, SessionInv, processVars, clientVars
  <2>3. \A d \in Clients \ {c} : server'[d] = server[d]
    BY <2>1 DEF GetChatServer, CallStep, LockServers, HGetCount, HGetThrow, UnlockServers, SetToken
  <2>. QED  BY <2>2, <2>3, QueueFrame
<1>3. CASE StatusSignal \/ StatusExit \/ StatusStart \/ StatusCrash
  BY <1>3, QueueFrame DEF StatusSignal, StatusExit, StatusStart, StatusCrash, processVars,
       clientVars
<1>4. CASE \E c \in Clients : \/ Connect(c) \/ Leave(c) \/ BadHeader(c) \/ AnswerWritten(c)
                              \/ FailedWrite(c) \/ CloseStep(c)
  <2>1. PICK c \in Clients : \/ Connect(c) \/ Leave(c) \/ BadHeader(c) \/ AnswerWritten(c)
                            \/ FailedWrite(c) \/ CloseStep(c)
    BY <1>4
  <2>2. /\ UNCHANGED <<msg_que, logic, main, server>>
        /\ \A d \in Clients : conn[d] # "none" => conn'[d] # "none"
    BY <2>1 DEF Connect, Leave, BadHeader, AnswerWritten, FailedWrite, CloseStep,
         CloseReadCount, CloseWriteCount, CloseThrow, statusVars, processVars
  <2>. QED  BY <2>2, QueueFrame
<1>5. CASE \E m \in Messages : Post(m)
  <2>1. PICK m \in Messages : Post(m)
    BY <1>5
  <2>. DEFINE c == Sender(m)
  <2>2. /\ c \in Clients /\ conn[c] # "none" /\ server[c] \in Servers /\ main[server[c]] # "down"
        /\ logic[server[c]] = "wait" /\ UNCHANGED <<conn, server, main, logic>>
        /\ msg_que' = [msg_que EXCEPT ![server[c]] = Append(@, m)]
    BY <2>1, Senders DEF Post, SessionInv, statusVars
  <2>3. ASSUME NEW sv \in Servers, NEW i \in 1..Len(msg_que'[sv])
        PROVE  conn[Sender(msg_que'[sv][i])] # "none" /\ server[Sender(msg_que'[sv][i])] = sv
    <3>1. CASE sv # server[c]
      BY <2>2, <3>1 DEF QueueInv
    <3>2. CASE sv = server[c]
      <4>1. msg_que[sv] \in Seq(Messages) /\ msg_que'[sv] = Append(msg_que[sv], m)
        BY <2>2, <3>2
      <4>2. \/ i \in 1..Len(msg_que[sv]) /\ msg_que'[sv][i] = msg_que[sv][i]
            \/ msg_que'[sv][i] = m
        BY <4>1
      <4>. QED  BY <2>2, <3>2, <4>2 DEF QueueInv
    <3>. QED  BY <3>1, <3>2
  <2>. QED  BY <2>2, <2>3 DEF QueueInv
<1>6. CASE \E sv \in Servers : LogicStep(sv)
  BY <1>6, QueueOfLogic
<1>7. CASE \E sv \in Servers : StartProcess(sv) \/ StartInVain(sv) \/ Signal(sv) \/ MainStep(sv)
  <2>1. PICK sv \in Servers : StartProcess(sv) \/ StartInVain(sv) \/ Signal(sv) \/ MainStep(sv)
    BY <1>7
  <2>2. UNCHANGED <<msg_que, logic, server, conn>>
    BY <2>1 DEF StartProcess, StartInVain, Signal, MainStep, CloseRedis, DeleteCount,
         statusVars, processVars, clientVars
  <2>3. \A t \in Servers : main'[t] = "down" => main[t] = "down"
    BY <2>1 DEF StartProcess, StartInVain, Signal, MainStep, CloseRedis, DeleteCount, processVars
  <2>. QED  BY <2>2, <2>3, QueueFrame
<1>8. CASE \E sv \in Servers : Crash(sv)
  <2>1. PICK sv \in Servers : Crash(sv)
    BY <1>8
  <2>2. /\ UNCHANGED server /\ main' = [main EXCEPT ![sv] = "down"]
        /\ msg_que' = [msg_que EXCEPT ![sv] = <<>>] /\ logic' = [logic EXCEPT ![sv] = "wait"]
    BY <2>1 DEF Crash, statusVars
  <2>3. \A c \in Clients : conn[c] # "none" => conn'[c] # "none"
    BY <2>1 DEF Crash
  <2>4. ASSUME NEW t \in Servers, NEW i \in 1..Len(msg_que'[t])
        PROVE  conn'[Sender(msg_que'[t][i])] # "none" /\ server[Sender(msg_que'[t][i])] = t
    <3>1. t # sv /\ msg_que'[t] = msg_que[t]
      BY <2>2, <2>4
    <3>2. Sender(msg_que[t][i]) \in Clients
      BY <3>1, <2>4, Senders
    <3>. QED  BY <2>3, <2>4, <3>1, <3>2 DEF QueueInv
  <2>. QED  BY <2>2, <2>4 DEF QueueInv
<1>9. CASE UNCHANGED vars
  BY <1>9, QueueFrame DEF vars, statusVars, processVars, clientVars
<1>. QED  BY <1>1, <1>3, <1>4, <1>5, <1>6, <1>7, <1>8, <1>9
            DEF Next, System, MainStep, ClientLost, WriteAborted

-----------------------------------------------------------------------------
(* Tickets *)

LEMMA TicketFrame ==
    ASSUME TicketInv, UNCHANGED <<call, utoken, owed, refused>>
    PROVE  TicketInv'
BY DEF TicketInv, TicketAdmits

LEMMA TicketOfCalls ==
    ASSUME Inv, NEW c \in Clients, GetChatServer(c) \/ CallStep(c)
    PROVE  TicketInv'
<1>. USE DEF Inv, TypeOK, CallTypes, RedisTypes, ClientTypes, HistoryTypes, TicketAdmits
<1>1. CASE GetChatServer(c)
  <2>. DEFINE others == {d \in Clients \ {c} : UserOf[d] = UserOf[c]}
  <2>1. call[c] = "new" /\ c \notin owed /\ c \notin refused /\ UNCHANGED <<utoken, refused>>
    BY <1>1 DEF GetChatServer, TicketInv, clientVars
  <2>2. CASE status # "up"
    BY <1>1, <2>1, <2>2 DEF GetChatServer, TicketInv
  <2>3. CASE status = "up" /\ Calls(UserOf[c]) = {}
    <3>1. call' = [call EXCEPT ![c] = "lock"] /\ owed' = (owed \ others) \cup {c}
      BY <1>1, <2>3 DEF GetChatServer
    <3>2. \A d \in Clients : UserOf[d] = UserOf[c] => call[d] \notin UnderWay
      BY <2>3 DEF Calls
    <3>. QED  BY <2>1, <3>1, <3>2 DEF TicketInv
  <2>4. CASE status = "up" /\ Calls(UserOf[c]) # {}
    <3>1. call' = [call EXCEPT ![c] = "lock"] /\ owed' = owed \ others
      BY <1>1, <2>4 DEF GetChatServer
    <3>. QED  BY <2>1, <3>1 DEF TicketInv
  <2>. QED  BY <2>2, <2>3, <2>4
<1>2. CASE LockServers(c) \/ HGetCount(c) \/ HGetThrow(c) \/ UnlockServers(c)
  <2>1. UNCHANGED <<utoken, owed, refused>>
    BY <1>2 DEF LockServers, HGetCount, HGetThrow, UnlockServers, clientVars
  <2>2. \/ call' = call
        \/ call[c] \in UnderWay /\ call' = [call EXCEPT ![c] = "scan"]
        \/ call[c] \in UnderWay /\ call' = [call EXCEPT ![c] = "token"]
        \/ call[c] \in UnderWay /\ call' = [call EXCEPT ![c] = "failed"]
    BY <1>2 DEF LockServers, HGetCount, HGetThrow, UnlockServers
  <2>. QED  BY <2>1, <2>2 DEF TicketInv
<1>3. CASE SetToken(c)
  <2>1. /\ call[c] = "token" /\ call' = [call EXCEPT ![c] = "done"] /\ refused' = refused
        /\ \/ utoken' = [utoken EXCEPT ![UserOf[c]] = c] /\ owed' = owed
           \/ utoken' = utoken /\ owed' = owed \ {c}
    BY <1>3 DEF SetToken, newToken, clientVars
  <2>2. \A d \in owed : UserOf[d] = UserOf[c] => d = c
    BY <2>1 DEF TicketInv
  <2>. QED  BY <2>1, <2>2, Assumptions DEF TicketInv
<1>. QED  BY <1>1, <1>2, <1>3 DEF CallStep

\* A connected client whose ticket is owed entrance is not refused.
LEMMA TicketOfLogic ==
    ASSUME Inv, NEW sv \in Servers, LogicStep(sv)
    PROVE  TicketInv'
<1>. USE DEF Inv, TypeOK, CallTypes, ProcessTypes, ClientTypes, HistoryTypes, TicketAdmits
<1>1. CASE SearchUser(sv) \/ ReadCount(sv) \/ WriteCount(sv)
  BY <1>1, TicketFrame DEF SearchUser, ReadCount, WriteCount, statusVars, clientVars, historyVars
<1>2. CASE CheckToken(sv)
  <2>. DEFINE c == Message(sv)
  <2>1. c \in Clients /\ call[c] = "done" /\ server[c] = sv
    <3>1. c \in Clients /\ msg_que[sv] # <<>>
      BY <1>2 DEF CheckToken
    <3>2. Sender(c) = c
      BY <3>1, Senders
    <3>3. call[Sender(c)] = "done" /\ server[Sender(c)] = sv
      BY <3>1, Handling
    <3>. QED  BY <3>1, <3>2, <3>3
  <2>2. UNCHANGED <<call, utoken>>
    BY <1>2 DEF CheckToken, statusVars
  <2>3. main[sv] \in Serving => ~Closed(sv)
    BY DEF Closed
  <2>4. \/ refused' = refused /\ owed' \subseteq owed
        \/ refused' = refused \cup {c} /\ owed' = owed /\ utoken[UserOf[c]] # c
        \/ refused' = refused \cup {c} /\ owed' = owed \ {c}
    <3>1. CASE Refuse(sv) /\ owed' = owed /\ (Closed(sv) \/ utoken[UserOf[c]] # c)
      BY <2>3, <3>1 DEF Refuse
    <3>2. CASE Refuse(sv) /\ owed' = owed \ {c}
      BY <3>2 DEF Refuse
    <3>3. CASE UNCHANGED <<refused, owed>>
      BY <3>3
    <3>. QED  BY <1>2, <3>1, <3>2, <3>3 DEF CheckToken
  <2>5. owed' \subseteq owed /\ refused' \subseteq refused \cup {c}
    BY <2>4
  <2>6. refused' \cap owed' = {}
    BY <2>1, <2>4 DEF TicketInv
  <2>. QED  BY <2>1, <2>2, <2>5, <2>6 DEF TicketInv
<1>. QED  BY <1>1, <1>2 DEF LogicStep

LEMMA TicketStep ==
    ASSUME Inv, [Next]_vars
    PROVE  TicketInv'
<1>1. CASE \E c \in Clients : GetChatServer(c) \/ CallStep(c)
  BY <1>1, TicketOfCalls
<1>2. CASE StatusSignal \/ StatusExit \/ StatusStart
  BY <1>2, TicketFrame DEF Inv, StatusSignal, StatusExit, StatusStart, clientVars, historyVars
<1>3. CASE StatusCrash
  <2>1. UNCHANGED <<utoken, owed, refused>>
    BY <1>3 DEF StatusCrash, clientVars
  <2>2. \A c \in Clients : call'[c] = IF call[c] \in UnderWay THEN "failed" ELSE call[c]
    BY <1>3 DEF StatusCrash
  <2>. QED  BY <2>1, <2>2 DEF Inv, TicketInv, TicketAdmits, TypeOK, HistoryTypes, ClientTypes
<1>4. CASE \/ \E c \in Clients : \/ Connect(c) \/ Leave(c) \/ BadHeader(c) \/ AnswerWritten(c)
                                 \/ FailedWrite(c) \/ CloseStep(c)
           \/ \E m \in Messages : Post(m)
  BY <1>4, TicketFrame DEF Inv, Connect, Post, Leave, BadHeader, AnswerWritten, FailedWrite,
       CloseStep, CloseReadCount, CloseWriteCount, CloseThrow, statusVars, historyVars
<1>5. CASE \E sv \in Servers : LogicStep(sv)
  BY <1>5, TicketOfLogic
<1>6. CASE \E sv \in Servers : StartProcess(sv) \/ StartInVain(sv) \/ Signal(sv) \/ MainStep(sv)
                               \/ Crash(sv)
  BY <1>6, TicketFrame DEF Inv, StartProcess, StartInVain, Signal, MainStep, CloseRedis,
       DeleteCount, Crash, statusVars, clientVars, historyVars
<1>7. CASE UNCHANGED vars
  BY <1>7, TicketFrame DEF Inv, vars, statusVars, clientVars, historyVars
<1>. QED  BY <1>1, <1>2, <1>3, <1>4, <1>5, <1>6, <1>7 DEF Next, System, ClientLost, WriteAborted

-----------------------------------------------------------------------------
(* Counts *)

LEMMA CountFrame ==
    ASSUME CountInv, UNCHANGED <<count, main, msg_que, stale>>
    PROVE  CountInv'
BY DEF CountInv, CountOfTheServing

\* An HSet by a process that serves, or whose count is stale.
LEMMA CountOfHSet ==
    ASSUME CountInv, RedisTypes, NEW sv \in Servers, NEW v, HSet(sv, v),
           main[sv] \in Serving \/ sv \in stale \/ Closed(sv), UNCHANGED <<main, stale>>
    PROVE  CountOfTheServing'
<1>1. CASE PutCount(sv, v) /\ ~Closed(sv)
  BY <1>1 DEF PutCount, CountInv, CountOfTheServing, RedisTypes
<1>2. CASE KeepCount
  BY <1>2 DEF KeepCount, CountInv, CountOfTheServing
<1>. QED  BY <1>1, <1>2 DEF HSet

LEMMA CountOfMain ==
    ASSUME Inv, NEW sv \in Servers,
           StartProcess(sv) \/ StartInVain(sv) \/ Signal(sv) \/ MainStep(sv) \/ Crash(sv)
    PROVE  CountInv'
<1>. USE DEF Inv, TypeOK, RedisTypes, ProcessTypes, HistoryTypes, CountInv, CountOfTheServing
<1>1. CASE StartProcess(sv)
  <2>1. /\ main' = [main EXCEPT ![sv] = "run"] /\ UNCHANGED msg_que
        /\ stale' = stale \/ stale' = stale \ {sv}
        /\ \A t \in Servers \ {sv} : count'[t] = count[t]
    BY <1>1 DEF StartProcess, HSet, PutCount, KeepCount
  <2>. QED  BY <2>1
<1>2. CASE StartInVain(sv)
  BY <1>2 DEF StartInVain, PutCount, processVars
<1>3. CASE Signal(sv)
  BY <1>3 DEF Signal, historyVars
<1>4. CASE DeleteCount(sv)
  <2>1. main' = [main EXCEPT ![sv] = "close"] /\ UNCHANGED msg_que
    BY <1>4 DEF DeleteCount
  <2>2. CASE KeepCount /\ stale' = stale \cup {sv}
    BY <2>1, <2>2 DEF KeepCount
  <2>3. CASE /\ PutCount(sv, Absent)
             /\ stale' = IF msg_que[sv] = <<>> THEN stale \ {sv} ELSE stale \cup {sv}
    <3>1. count'[sv] = Absent /\ \A t \in Servers \ {sv} : count'[t] = count[t]
      BY <2>3 DEF PutCount
    <3>2. \A t \in Servers \ {sv} : t \in stale => t \in stale'
      BY <2>3
    <3>3. msg_que[sv] # <<>> => sv \in stale'
      BY <2>3
    <3>. QED  BY <2>1, <3>1, <3>2, <3>3
  <2>. QED  BY <1>4, <2>2, <2>3 DEF DeleteCount
<1>5. CASE CloseRedis(sv)
  BY <1>5 DEF CloseRedis, historyVars
<1>6. CASE Crash(sv)
  BY <1>6 DEF Crash
<1>. QED  BY <1>1, <1>2, <1>3, <1>4, <1>5, <1>6 DEF MainStep

LEMMA CountStep ==
    ASSUME Inv, [Next]_vars
    PROVE  CountInv'
<1>. USE DEF Inv, TypeOK, ProcessTypes, ClientTypes
<1>1. CASE \E c \in Clients : GetChatServer(c) \/ CallStep(c)
  BY <1>1, CountFrame DEF GetChatServer, CallStep, LockServers, HGetCount, HGetThrow, UnlockServers,
       SetToken, processVars
<1>2. CASE StatusSignal \/ StatusExit \/ StatusStart \/ StatusCrash
  BY <1>2, CountFrame DEF StatusSignal, StatusExit, StatusStart, StatusCrash, processVars,
       historyVars
<1>3. CASE \E c \in Clients : \/ Connect(c) \/ Leave(c) \/ BadHeader(c) \/ AnswerWritten(c)
                              \/ FailedWrite(c) \/ CloseReadCount(c) \/ CloseThrow(c)
  BY <1>3, CountFrame DEF Connect, Leave, BadHeader, AnswerWritten, FailedWrite, CloseReadCount,
       CloseThrow, processVars, historyVars
<1>4. CASE \E m \in Messages : Post(m)
  <2>1. PICK m \in Messages : Post(m)
    BY <1>4
  <2>. DEFINE c == Sender(m)
  <2>2. /\ UNCHANGED <<count, main, stale>> /\ server[c] \in Servers
        /\ main[server[c]] \in Serving
        /\ msg_que' = [msg_que EXCEPT ![server[c]] = Append(@, m)]
    BY <2>1, Senders DEF Post, SessionInv, historyVars
  <2>. QED  BY <2>2 DEF CountInv, CountOfTheServing
<1>5. CASE \E c \in Clients : CloseWriteCount(c)
  <2>1. PICK c \in Clients : CloseWriteCount(c)
    BY <1>5
  <2>2. server[c] \in Servers /\ main[server[c]] \in Serving
    BY <2>1 DEF CloseWriteCount, SessionInv
  <2>3. PICK v : HSet(server[c], v)
    BY <2>1 DEF CloseWriteCount
  <2>4. UNCHANGED <<main, msg_que, stale>>
    BY <2>1 DEF CloseWriteCount, processVars
  <2>5. CountOfTheServing'
    BY <2>2, <2>3, <2>4, CountOfHSet
  <2>. QED  BY <2>4, <2>5 DEF CountInv
<1>6. CASE \E sv \in Servers : CheckToken(sv) \/ SearchUser(sv) \/ ReadCount(sv)
  <2>1. PICK sv \in Servers : CheckToken(sv) \/ SearchUser(sv) \/ ReadCount(sv)
    BY <1>6
  <2>2. UNCHANGED <<count, main, stale>> /\ msg_que[sv] # <<>>
    BY <2>1 DEF CheckToken, SearchUser, ReadCount, QueueInv, historyVars
  <2>3. \A t \in Servers : msg_que'[t] # <<>> => msg_que[t] # <<>>
    BY <2>1, <2>2 DEF CheckToken, SearchUser, ReadCount, Refuse, Done
  <2>. QED  BY <2>2, <2>3 DEF CountInv, CountOfTheServing
<1>7. CASE \E sv \in Servers : WriteCount(sv)
  <2>1. PICK sv \in Servers : WriteCount(sv)
    BY <1>7
  <2>2. /\ HSet(sv, ltmp[sv] + 1) /\ msg_que[sv] # <<>> /\ main[sv] # "down"
        /\ UNCHANGED <<main, stale>> /\ msg_que' = [msg_que EXCEPT ![sv] = Tail(@)]
    BY <2>1 DEF WriteCount, Done, QueueInv
  <2>3. main[sv] \in Serving \/ sv \in stale \/ Closed(sv)
    BY <2>2 DEF CountInv, Closed
  <2>4. CountOfTheServing'
    BY <2>2, <2>3, CountOfHSet
  <2>. QED  BY <2>2, <2>4 DEF CountInv
<1>8. CASE \E sv \in Servers : StartProcess(sv) \/ StartInVain(sv) \/ Signal(sv) \/ MainStep(sv)
                               \/ Crash(sv)
  BY <1>8, CountOfMain
<1>9. CASE UNCHANGED vars
  BY <1>9, CountFrame DEF vars, processVars, historyVars
<1>. QED  BY <1>1, <1>2, <1>3, <1>4, <1>5, <1>6, <1>7, <1>8, <1>9
            DEF Next, System, LogicStep, CloseStep, ClientLost, WriteAborted

-----------------------------------------------------------------------------
(* The scan *)

\* The steps that leave the scan alone; seen only grows.
LEMMA ScanFrame ==
    ASSUME TypeOK, ScanInv, UNCHANGED <<mtx, at, min>>,
           \A c \in Clients : call'[c] = "scan" <=> call[c] = "scan",
           mtx # None => \A sv \in Servers : seen[sv] \subseteq seen'[sv]
    PROVE  ScanInv'
<1>1. ASSUME mtx # None, at > 0
      PROVE  /\ min.name \in Servers /\ min.con_count \in seen'[min.name]
             /\ \A j \in 1..at : NotAbove(min.con_count, _servers[j])'
  <2>1. \A j \in 1..at : _servers[j] \in Servers
    BY Assumptions DEF TypeOK, CallTypes
  <2>. QED  BY <1>1, <2>1 DEF ScanInv, NotAbove
<1>. QED  BY <1>1 DEF ScanInv

LEMMA SeenGrows ==
    ASSUME TypeOK, NEW sv \in Servers, NEW v, PutCount(sv, v) \/ KeepCount \/ HSet(sv, v)
    PROVE  \A t \in Servers : seen[t] \subseteq seen'[t]
BY DEF PutCount, KeepCount, HSet, TypeOK, HistoryTypes

LEMMA ScanOfCalls ==
    ASSUME Inv, NEW c \in Clients, GetChatServer(c) \/ CallStep(c)
    PROVE  ScanInv'
<1>. USE DEF Inv, TypeOK, CallTypes, RedisTypes, HistoryTypes
<1>1. CASE GetChatServer(c)
  <2>1. UNCHANGED <<mtx, at, min, seen>> /\ call[c] = "new"
    BY <1>1 DEF GetChatServer
  <2>2. \A d \in Clients : call'[d] = "scan" <=> call[d] = "scan"
    BY <1>1, <2>1 DEF GetChatServer
  <2>. QED  BY <2>1, <2>2, ScanFrame
<1>2. CASE LockServers(c)
  BY <1>2, Assumptions DEF LockServers, ScanInv
<1>3. CASE HGetCount(c)
  <2>. DEFINE sv == _servers[at + 1]
  <2>1. at \in Nat /\ at < Len(_servers) /\ sv \in Servers /\ at' = at + 1
    BY <1>3, Assumptions DEF HGetCount
  <2>2. PICK n \in {con_count(count[sv]), INT_MAX} :
          /\ seen' = [seen EXCEPT ![sv] = @ \cup {n}]
          /\ min' = lesser(sv, n)
    BY <1>3 DEF HGetCount
  <2>3. n \in Nat
    <3>1. con_count(count[sv]) \in Nat
      BY <2>1, Counts
    <3>. QED  BY <3>1, Assumptions
  <2>4. UNCHANGED <<call, mtx>> /\ mtx # None
    BY <1>3, Assumptions DEF HGetCount, ScanInv
  <2>5. n \in seen'[sv] /\ \A t \in Servers : seen[t] \subseteq seen'[t]
    BY <2>1, <2>2
  <2>6. CASE at = 0 \/ n < min.con_count
    <3>1. min'.name = sv /\ min'.con_count = n
      BY <2>2, <2>6 DEF lesser, Candidate
    <3>2. ASSUME NEW j \in 1..at'
          PROVE  NotAbove(min.con_count, _servers[j])'
      <4>1. CASE j = at + 1
        BY <2>3, <2>5, <3>1, <4>1 DEF NotAbove
      <4>2. CASE j # at + 1
        <5>1. j \in 1..at /\ at > 0 /\ n < min.con_count /\ _servers[j] \in Servers
          BY <2>1, <2>6, <4>2, Assumptions
        <5>2. PICK m \in seen[_servers[j]] : min.con_count <= m
          BY <2>4, <5>1 DEF ScanInv, NotAbove
        <5>3. m \in Nat /\ m \in seen'[_servers[j]]
          BY <2>5, <5>1
        <5>. QED  BY <2>3, <3>1, <5>1, <5>2, <5>3 DEF NotAbove
      <4>. QED  BY <4>1, <4>2
    <3>. QED  BY <2>1, <2>4, <2>5, <3>1, <3>2 DEF ScanInv
  <2>7. CASE at > 0 /\ ~(n < min.con_count)
    <3>1. min' = min
      BY <2>2, <2>7 DEF lesser
    <3>2. ASSUME NEW j \in 1..at'
          PROVE  NotAbove(min.con_count, _servers[j])'
      <4>1. CASE j = at + 1
        BY <2>3, <2>5, <2>7, <3>1, <4>1 DEF NotAbove
      <4>2. CASE j # at + 1
        <5>1. j \in 1..at /\ _servers[j] \in Servers
          BY <2>1, <4>2, Assumptions
        <5>2. PICK m \in seen[_servers[j]] : min.con_count <= m
          BY <2>4, <2>7, <5>1 DEF ScanInv, NotAbove
        <5>. QED  BY <2>5, <3>1, <5>1, <5>2 DEF NotAbove
      <4>. QED  BY <4>1, <4>2
    <3>3. min.name \in Servers /\ min.con_count \in seen[min.name]
      BY <2>4, <2>7 DEF ScanInv
    <3>. QED  BY <2>1, <2>4, <2>5, <3>1, <3>2, <3>3 DEF ScanInv
  <2>. QED  BY <2>1, <2>6, <2>7
<1>4. CASE UnlockServers(c) \/ HGetThrow(c)
  BY <1>4, Assumptions DEF UnlockServers, HGetThrow, EndScan, ScanInv
<1>5. CASE SetToken(c)
  <2>1. UNCHANGED <<mtx, at, min, seen>>
    BY <1>5 DEF SetToken
  <2>2. \A d \in Clients : call'[d] = "scan" <=> call[d] = "scan"
    BY <1>5 DEF SetToken
  <2>. QED  BY <2>1, <2>2, ScanFrame
<1>. QED  BY <1>1, <1>2, <1>3, <1>4, <1>5 DEF CallStep

LEMMA ScanStep ==
    ASSUME Inv, [Next]_vars
    PROVE  ScanInv'
<1>. USE DEF Inv
<1>1. CASE \E c \in Clients : GetChatServer(c) \/ CallStep(c)
  BY <1>1, ScanOfCalls
<1>2. CASE StatusSignal \/ StatusExit \/ StatusStart
  BY <1>2, ScanFrame DEF StatusSignal, StatusExit, StatusStart, historyVars
<1>3. CASE StatusCrash
  BY <1>3, Assumptions DEF StatusCrash, EndScan, ScanInv, TypeOK, CallTypes
<1>4. CASE \/ \E c \in Clients : \/ Connect(c) \/ Leave(c) \/ BadHeader(c) \/ AnswerWritten(c)
                                 \/ FailedWrite(c) \/ CloseReadCount(c) \/ CloseThrow(c)
           \/ \E m \in Messages : Post(m)
  BY <1>4, ScanFrame DEF Connect, Post, Leave, BadHeader, AnswerWritten, FailedWrite,
       CloseReadCount, CloseThrow, statusVars, historyVars
<1>5. CASE \E c \in Clients : CloseWriteCount(c)
  <2>1. PICK c \in Clients : CloseWriteCount(c)
    BY <1>5
  <2>2. server[c] \in Servers
    BY <2>1 DEF CloseWriteCount, SessionInv
  <2>3. \A t \in Servers : seen[t] \subseteq seen'[t]
    BY <2>1, <2>2, SeenGrows DEF CloseWriteCount
  <2>. QED  BY <2>1, <2>3, ScanFrame DEF CloseWriteCount, statusVars
<1>6. CASE \E sv \in Servers : LogicStep(sv) \/ StartProcess(sv) \/ StartInVain(sv) \/ Signal(sv)
                               \/ MainStep(sv) \/ Crash(sv)
  <2>1. PICK sv \in Servers : LogicStep(sv) \/ StartProcess(sv) \/ StartInVain(sv) \/ Signal(sv)
                              \/ MainStep(sv) \/ Crash(sv)
    BY <1>6
  <2>2. UNCHANGED statusVars
    BY <2>1 DEF LogicStep, CheckToken, SearchUser, ReadCount, WriteCount, StartProcess, StartInVain, Signal,
         MainStep, DeleteCount, CloseRedis, Crash
  <2>3. UNCHANGED seen \/ \E v : PutCount(sv, v) \/ KeepCount \/ HSet(sv, v)
    BY <2>1 DEF LogicStep, CheckToken, SearchUser, ReadCount, WriteCount, StartProcess, StartInVain, Signal,
         MainStep, DeleteCount, CloseRedis, Crash, historyVars
  <2>4. \A t \in Servers : seen[t] \subseteq seen'[t]
    BY <2>3, SeenGrows
  <2>. QED  BY <2>2, <2>4, ScanFrame DEF statusVars
<1>7. CASE UNCHANGED vars
  BY <1>7, ScanFrame DEF vars, statusVars, historyVars
<1>. QED  BY <1>1, <1>2, <1>3, <1>4, <1>5, <1>6, <1>7
            DEF Next, System, CloseStep, ClientLost, WriteAborted

-----------------------------------------------------------------------------
(* The invariant and the theorems *)

LEMMA TypesStep ==
    ASSUME Inv, [Next]_vars
    PROVE  TypeOK'
<1>1. CASE UNCHANGED vars
  BY <1>1 DEF Inv, TypeOK, CallTypes, RedisTypes, ProcessTypes, ClientTypes, HistoryTypes,
       vars, statusVars, processVars, clientVars, historyVars
<1>2. CASE Next
  BY <1>2, TypesOfCalls, TypesOfMain, TypesOfPost, TypesOfSessions, TypesOfLogic
     DEF Inv, Next, System, ClientLost, WriteAborted
<1>. QED  BY <1>1, <1>2

LEMMA InitInv == Init => Inv
<1>. SUFFICES ASSUME Init PROVE Inv
  OBVIOUS
<1>. USE DEF Init
<1>1. TypeOK
  BY ClusterAssumption DEF NoServer, TypeOK, CallTypes, RedisTypes, ProcessTypes, ClientTypes,
       HistoryTypes
<1>2. SessionInv /\ QueueInv
  BY DEF SessionInv, QueueInv
<1>3. TicketInv /\ CountInv
  BY DEF TicketInv, TicketAdmits, CountInv, CountOfTheServing
<1>4. ScanInv
  BY Assumptions DEF ScanInv
<1>. QED  BY <1>1, <1>2, <1>3, <1>4 DEF Inv

LEMMA Invariance == Spec => []Inv
<1>1. Inv /\ [Next]_vars => Inv'
  BY TypesStep, SessionStep, QueueStep, TicketStep, CountStep, ScanStep DEF Inv
<1>. QED  BY <1>1, InitInv, PTL DEF Spec

\* Type correctness.
THEOREM TypeCorrect == Spec => []TypeOK
<1>1. Inv => TypeOK
  BY DEF Inv
<1>. QED  BY <1>1, Invariance, PTL

\* A server has a count only while its process serves, or for a reason that is named.
THEOREM CountsOfTheServing == Spec => []CountOfTheServing
<1>1. Inv => CountOfTheServing
  BY DEF Inv, CountInv
<1>. QED  BY <1>1, Invariance, PTL

\* Tickets that are owed entrance get their client in, across restarts.
THEOREM TicketsAdmit == Spec => []TicketAdmits
<1>1. Inv => TicketAdmits
  BY DEF Inv, TicketInv
<1>. QED  BY <1>1, Invariance, PTL

\* When a scan ends, minServer is not above what was read for any server.
LEMMA LeastOfScan ==
    ASSUME Inv, [Next]_vars, NEW c \in Clients, call[c] = "scan", call'[c] = "token",
           NEW sv \in Servers
    PROVE  \E m \in seen[server'[c]], n \in seen[sv] : m <= n
<1>. USE DEF Inv, TypeOK, CallTypes
<1>1. \E d \in Clients : UnlockServers(d)
  <2>1. CASE \E d \in Clients : \/ GetChatServer(d) \/ LockServers(d) \/ HGetCount(d)
                               \/ HGetThrow(d) \/ SetToken(d)
    BY <2>1 DEF GetChatServer, LockServers, HGetCount, HGetThrow, SetToken
  <2>2. CASE StatusCrash
    BY <2>2 DEF StatusCrash
  <2>3. CASE UNCHANGED call
    BY <2>3
  <2>. QED
    BY <2>1, <2>2, <2>3 DEF Next, System, CallStep, MainStep, LogicStep, CloseStep, StatusSignal,
       StatusExit, StatusStart, Connect, Post, Leave, BadHeader, AnswerWritten, ClientLost,
       WriteAborted, FailedWrite, CloseReadCount, CloseWriteCount, CloseThrow,
       StartProcess, StartInVain, Signal, DeleteCount, CloseRedis, Crash, CheckToken,
       SearchUser, ReadCount, WriteCount, vars, statusVars
<1>2. UnlockServers(c)
  BY <1>1 DEF UnlockServers
<1>3. mtx # None /\ at > 0 /\ at = Len(_servers) /\ server'[c] = min.name
  BY <1>2, Assumptions DEF UnlockServers, ScanInv
<1>4. PICK j \in 1..Len(_servers) : _servers[j] = sv
  BY Assumptions
<1>. QED  BY <1>3, <1>4 DEF ScanInv, NotAbove

\* The server a call is given was, at some time of the scan, no more loaded than
\* each other was at some time of it.
THEOREM LeastChosen == Spec => ChosenWasLeast
<1>1. ASSUME Inv, [Next]_vars
      PROVE  \A c \in Clients :
               (call[c] = "scan" /\ call'[c] = "token")
               => \A sv \in Servers :
                    \E m \in seen[server'[c]], n \in seen[sv] : m <= n
  BY <1>1, LeastOfScan
<1>. QED  BY <1>1, Invariance, PTL DEF Spec, ChosenWasLeast

-----------------------------------------------------------------------------
(* What a count can be *)

\* Messages sv has handled, or lost when it died.
Handled(sv) ==
    {m \in posted : /\ server[Sender(m)] = sv
                   /\ \A i \in 1..Len(msg_que[sv]) : msg_que[sv][i] # m}

Handlings(sv) == Cardinality(Handled(sv))

\* However logins, searches and Closes overlap, whatever fails, dies or is started
\* again: the count of a server is not above the number of logins and searches it has
\* handled, or lost (LogicSystem.cpp 115-123 and 254-272, CSession.cpp 87-97).
CountWithinMessages == \A sv \in Servers : count[sv] <= Handlings(sv)

\* So is what a handler or a Close has read and not yet written back.
ReadsWithin ==
    /\ \A sv \in Servers : ltmp[sv] <= Handlings(sv)
    /\ \A c \in Clients : conn[c] = "hset" => ctmp[c] <= Handlings(server[c])

\* A message is queued once, and stays where it was posted.
QueueOnce ==
    /\ \A m \in posted : call[Sender(m)] = "done"
    /\ \A sv \in Servers : \A i \in 1..Len(msg_que[sv]) : msg_que[sv][i] \in posted
    /\ \A sv \in Servers : \A i, j \in 1..Len(msg_que[sv]) :
         msg_que[sv][i] = msg_que[sv][j] => i = j

\* A queue is left alone, popped or emptied, unless a message is posted to it.
Shorter(q, r) == r = q \/ r = <<>> \/ (q # <<>> /\ r = Tail(q))

LEMMA QueueMoves ==
    ASSUME Inv, [Next]_vars
    PROVE  /\ \A c \in Clients : call[c] = "done" => call'[c] = "done" /\ server'[c] = server[c]
           /\ \/ posted' = posted /\ \A sv \in Servers : Shorter(msg_que[sv], msg_que'[sv])
              \/ \E m \in Messages : Post(m) /\ UNCHANGED <<call, server>>
<1>. USE DEF Inv, TypeOK, CallTypes, ProcessTypes
<1>1. CASE \E c \in Clients : GetChatServer(c) \/ CallStep(c)
  <2>1. PICK c \in Clients : GetChatServer(c) \/ CallStep(c)
    BY <1>1
  <2>2. UNCHANGED <<posted, msg_que>> /\ call[c] # "done"
    BY <2>1 DEF GetChatServer, CallStep, LockServers, HGetCount, HGetThrow, UnlockServers, SetToken,
         processVars, clientVars
  <2>3. \A d \in Clients \ {c} : call'[d] = call[d] /\ server'[d] = server[d]
    BY <2>1 DEF GetChatServer, CallStep, LockServers, HGetCount, HGetThrow, UnlockServers, SetToken
  <2>. QED  BY <2>2, <2>3 DEF Shorter
<1>2. CASE StatusSignal \/ StatusExit \/ StatusCrash \/ StatusStart
  BY <1>2 DEF StatusSignal, StatusExit, StatusCrash, StatusStart, processVars, clientVars, Shorter
<1>3. CASE \E c \in Clients : \/ Connect(c) \/ Leave(c) \/ BadHeader(c) \/ AnswerWritten(c)
                              \/ FailedWrite(c) \/ CloseStep(c)
  BY <1>3 DEF Connect, Leave, BadHeader, AnswerWritten, FailedWrite, CloseStep, CloseReadCount,
       CloseWriteCount, CloseThrow, statusVars, processVars, Shorter
<1>4. CASE \E m \in Messages : Post(m)
  BY <1>4 DEF Post, statusVars
<1>5. CASE \E sv \in Servers :
             StartProcess(sv) \/ StartInVain(sv) \/ Signal(sv) \/ MainStep(sv) \/ Crash(sv)
  BY <1>5 DEF StartProcess, StartInVain, Signal, MainStep, DeleteCount, CloseRedis, Crash,
       statusVars, processVars, clientVars, Shorter
<1>6. CASE \E sv \in Servers : LogicStep(sv)
  <2>1. PICK sv \in Servers : LogicStep(sv)
    BY <1>6
  <2>2. UNCHANGED <<call, server, posted>> /\ msg_que[sv] # <<>>
    BY <2>1 DEF LogicStep, CheckToken, SearchUser, ReadCount, WriteCount, QueueInv, statusVars,
         clientVars
  <2>3. UNCHANGED msg_que \/ msg_que' = [msg_que EXCEPT ![sv] = Tail(@)]
    BY <2>1 DEF LogicStep, CheckToken, SearchUser, ReadCount, WriteCount, Refuse, Done
  <2>. QED  BY <2>2, <2>3 DEF Shorter
<1>7. CASE UNCHANGED vars
  BY <1>7 DEF vars, statusVars, processVars, clientVars, Shorter
<1>. QED  BY <1>1, <1>2, <1>3, <1>4, <1>5, <1>6, <1>7 DEF Next, System, ClientLost, WriteAborted

\* r is in q, d places further on.
FurtherOn(q, r, d) == \A i \in 1..Len(r) : i + d \in 1..Len(q) /\ r[i] = q[i + d]

\* The places of a shorter queue among those of the queue it was.
LEMMA ShorterPlaces ==
    ASSUME NEW q \in Seq(Messages), NEW r, Shorter(q, r)
    PROVE  r \in Seq(Messages) /\ \E d \in Nat : FurtherOn(q, r, d)
<1>1. CASE r = q
  <2>1. FurtherOn(q, r, 0)
    BY <1>1 DEF FurtherOn
  <2>. QED  BY <1>1, <2>1
<1>2. CASE r = <<>>
  <2>1. FurtherOn(q, r, 0)
    BY <1>2 DEF FurtherOn
  <2>. QED  BY <1>2, <2>1
<1>3. CASE q # <<>> /\ r = Tail(q)
  <2>1. FurtherOn(q, r, 1)
    BY <1>3 DEF FurtherOn
  <2>. QED  BY <1>3, <2>1
<1>. QED  BY <1>1, <1>2, <1>3 DEF Shorter

\* What Post does to the queues.
LEMMA PostedQueue ==
    ASSUME Inv, NEW m \in Messages, Post(m)
    PROVE  /\ m \notin posted /\ posted' = posted \cup {m}
           /\ call[Sender(m)] = "done" /\ server[Sender(m)] \in Servers
           /\ \A sv \in Servers :
                msg_que'[sv] = IF sv = server[Sender(m)] THEN Append(msg_que[sv], m)
                               ELSE msg_que[sv]
BY Senders DEF Inv, TypeOK, ProcessTypes, SessionInv, Post

LEMMA OnceStep ==
    ASSUME Inv, QueueOnce, [Next]_vars
    PROVE  QueueOnce'
<1>. USE DEF Inv, TypeOK, CallTypes, ProcessTypes, ClientTypes
<1>1. \A c \in Clients : call[c] = "done" => call'[c] = "done"
  BY QueueMoves
<1>2. CASE posted' = posted /\ \A sv \in Servers : Shorter(msg_que[sv], msg_que'[sv])
  <2>1. \A m \in posted' : call'[Sender(m)] = "done"
    BY <1>1, <1>2, Senders DEF QueueOnce
  <2>2. ASSUME NEW sv \in Servers
        PROVE  /\ \A i \in 1..Len(msg_que'[sv]) : msg_que'[sv][i] \in posted'
               /\ \A i, j \in 1..Len(msg_que'[sv]) : msg_que'[sv][i] = msg_que'[sv][j] => i = j
    <3>0. msg_que[sv] \in Seq(Messages) /\ Shorter(msg_que[sv], msg_que'[sv])
      BY <1>2
    <3>1. PICK d \in Nat : FurtherOn(msg_que[sv], msg_que'[sv], d)
      BY <3>0, ShorterPlaces
    <3>2. \A i \in 1..Len(msg_que'[sv]) : msg_que'[sv][i] \in posted'
      BY <3>1, <1>2 DEF QueueOnce, FurtherOn
    <3>3. ASSUME NEW i \in 1..Len(msg_que'[sv]), NEW j \in 1..Len(msg_que'[sv]),
                 msg_que'[sv][i] = msg_que'[sv][j]
          PROVE  i = j
      <4>1. i + d = j + d
        BY <3>1, <3>3 DEF QueueOnce, FurtherOn
      <4>. QED  BY <4>1
    <3>. QED  BY <3>2, <3>3
  <2>. QED  BY <2>1, <2>2 DEF QueueOnce
<1>3. CASE \E m \in Messages : Post(m)
  <2>1. PICK m \in Messages : Post(m)
    BY <1>3
  <2>2. \A d \in posted' : call'[Sender(d)] = "done"
    <3>1. posted' = posted \cup {m} /\ call[Sender(m)] = "done"
      BY <2>1, PostedQueue
    <3>2. \A d \in posted' : Sender(d) \in Clients /\ call[Sender(d)] = "done"
      BY <3>1, Senders DEF QueueOnce
    <3>. QED  BY <1>1, <3>2
  <2>3. ASSUME NEW sv \in Servers
        PROVE  /\ \A i \in 1..Len(msg_que'[sv]) : msg_que'[sv][i] \in posted'
               /\ \A i, j \in 1..Len(msg_que'[sv]) : msg_que'[sv][i] = msg_que'[sv][j] => i = j
    <3>1. CASE sv # server[Sender(m)]
      <4>1. msg_que'[sv] = msg_que[sv] /\ posted \subseteq posted'
        BY <2>1, <3>1, PostedQueue
      <4>. QED  BY <4>1 DEF QueueOnce
    <3>2. CASE sv = server[Sender(m)]
      <4>1. /\ msg_que[sv] \in Seq(Messages) /\ msg_que'[sv] = Append(msg_que[sv], m)
            /\ m \notin posted /\ posted' = posted \cup {m}
        BY <2>1, <3>2, PostedQueue
      <4>2. /\ Len(msg_que'[sv]) = Len(msg_que[sv]) + 1 /\ Len(msg_que[sv]) \in Nat
            /\ \A i \in 1..Len(msg_que[sv]) : msg_que'[sv][i] = msg_que[sv][i]
            /\ msg_que'[sv][Len(msg_que[sv]) + 1] = m
        BY <4>1
      <4>3. \A i \in 1..Len(msg_que[sv]) : msg_que'[sv][i] \in posted /\ msg_que'[sv][i] # m
        BY <4>1, <4>2 DEF QueueOnce
      <4>4. \A i, j \in 1..Len(msg_que[sv]) : msg_que'[sv][i] = msg_que'[sv][j] => i = j
        BY <4>2 DEF QueueOnce
      <4>5. \A i \in 1..Len(msg_que'[sv]) :
               i \in 1..Len(msg_que[sv]) \/ i = Len(msg_que[sv]) + 1
        BY <4>2
      <4>6. \A i \in 1..Len(msg_que'[sv]) : msg_que'[sv][i] \in posted'
        BY <4>1, <4>2, <4>3, <4>5
      <4>7. ASSUME NEW i \in 1..Len(msg_que'[sv]), NEW j \in 1..Len(msg_que'[sv]),
                   msg_que'[sv][i] = msg_que'[sv][j]
            PROVE  i = j
        BY <4>2, <4>3, <4>4, <4>5, <4>7
      <4>. QED  BY <4>6, <4>7
    <3>. QED  BY <3>1, <3>2
  <2>. QED  BY <2>2, <2>3 DEF QueueOnce
<1>. QED  BY <1>2, <1>3, QueueMoves

\* Nothing takes a message back: it was posted for good, to a queue it never joins again.
LEMMA HandledGrows ==
    ASSUME Inv, QueueOnce, [Next]_vars, NEW sv \in Servers
    PROVE  Handled(sv) \subseteq Handled(sv)'
<1>. USE DEF Inv, TypeOK, CallTypes, ProcessTypes, ClientTypes
<1>1. SUFFICES ASSUME NEW m \in Handled(sv) PROVE m \in Handled(sv)'
  OBVIOUS
<1>2. /\ m \in posted /\ m \in Messages /\ server'[Sender(m)] = sv
      /\ \A i \in 1..Len(msg_que[sv]) : msg_que[sv][i] # m
  BY QueueMoves, Senders DEF Handled, QueueOnce
<1>3. CASE posted' = posted /\ \A t \in Servers : Shorter(msg_que[t], msg_que'[t])
  <2>1. msg_que[sv] \in Seq(Messages) /\ Shorter(msg_que[sv], msg_que'[sv])
    BY <1>3
  <2>2. PICK d \in Nat : FurtherOn(msg_que[sv], msg_que'[sv], d)
    BY <2>1, ShorterPlaces
  <2>3. ASSUME NEW i \in 1..Len(msg_que'[sv])
        PROVE  msg_que'[sv][i] # m
    <3>1. i + d \in 1..Len(msg_que[sv]) /\ msg_que'[sv][i] = msg_que[sv][i + d]
      BY <2>2 DEF FurtherOn
    <3>. QED  BY <1>2, <3>1
  <2>. QED  BY <1>2, <1>3, <2>3 DEF Handled
<1>4. CASE \E d \in Messages : Post(d)
  <2>1. PICK d \in Messages : Post(d)
    BY <1>4
  <2>2. /\ m # d /\ m \in posted' /\ msg_que[sv] \in Seq(Messages)
        /\ msg_que'[sv] = msg_que[sv] \/ msg_que'[sv] = Append(msg_que[sv], d)
    <3>1. d \notin posted /\ posted' = posted \cup {d}
      BY <2>1, PostedQueue
    <3>2. msg_que'[sv] = IF sv = server[Sender(d)] THEN Append(msg_que[sv], d) ELSE msg_que[sv]
      BY <2>1, PostedQueue
    <3>. QED  BY <1>2, <3>1, <3>2
  <2>3. ASSUME NEW i \in 1..Len(msg_que'[sv])
        PROVE  msg_que'[sv][i] # m
    <3>1. CASE msg_que'[sv] = msg_que[sv]
      BY <1>2, <3>1
    <3>2. CASE msg_que'[sv] = Append(msg_que[sv], d)
      <4>1. msg_que'[sv][i] = d \/ (i \in 1..Len(msg_que[sv]) /\ msg_que'[sv][i] = msg_que[sv][i])
        BY <2>2, <3>2
      <4>. QED  BY <1>2, <2>2, <4>1
    <3>. QED  BY <2>2, <3>1, <3>2
  <2>. QED  BY <1>2, <2>2, <2>3 DEF Handled
<1>. QED  BY <1>3, <1>4, QueueMoves

\* The message that is written to the count is one that was not handled before.
LEMMA HandledByWrite ==
    ASSUME Inv, QueueOnce, NEW sv \in Servers, WriteCount(sv)
    PROVE  Message(sv) \in Handled(sv)' \ Handled(sv)
<1>. USE DEF Inv, TypeOK, CallTypes, ProcessTypes, ClientTypes
<1>1. /\ msg_que[sv] \in Seq(Messages) /\ msg_que[sv] # <<>>
      /\ msg_que'[sv] = Tail(msg_que[sv]) /\ UNCHANGED <<posted, server>>
  BY DEF WriteCount, Done, QueueInv, statusVars
<1>2. Message(sv) = msg_que[sv][1] /\ 1 \in 1..Len(msg_que[sv])
  BY <1>1, Handling
<1>3. /\ Message(sv) \in posted /\ server[Sender(Message(sv))] = sv
      /\ Message(sv) \notin Handled(sv)
  BY <1>2 DEF QueueOnce, QueueInv, Handled
<1>4. ASSUME NEW i \in 1..Len(msg_que'[sv])
      PROVE  msg_que'[sv][i] # Message(sv)
  <2>1. /\ i + 1 \in 1..Len(msg_que[sv]) /\ i + 1 # 1
        /\ msg_que'[sv][i] = msg_que[sv][i + 1]
    BY <1>1
  <2>. QED  BY <1>2, <2>1 DEF QueueOnce
<1>5. Message(sv) \in Handled(sv)'
  BY <1>1, <1>3, <1>4 DEF Handled
<1>. QED  BY <1>3, <1>5

LEMMA HandledFinite ==
    ASSUME IsFiniteSet(Messages), Inv, NEW sv
    PROVE  IsFiniteSet(Handled(sv)) /\ Handlings(sv) \in Nat
<1>1. Handled(sv) \in SUBSET Messages
  BY DEF Inv, TypeOK, ClientTypes, Handled
<1>. QED  BY <1>1, FS_Subset, FS_CardinalityType DEF Handlings

LEMMA HandlingsGrow ==
    ASSUME IsFiniteSet(Messages), Inv, Inv', QueueOnce, [Next]_vars, NEW sv \in Servers
    PROVE  /\ Handlings(sv) \in Nat /\ Handlings(sv)' \in Nat
           /\ Handlings(sv) <= Handlings(sv)'
           /\ WriteCount(sv) => Handlings(sv) + 1 <= Handlings(sv)'
<1>1. /\ IsFiniteSet(Handled(sv)) /\ Handlings(sv) \in Nat
  BY HandledFinite
<1>2. /\ IsFiniteSet(Handled(sv)') /\ Handlings(sv)' \in Nat
  <2>1. Handled(sv)' \in SUBSET Messages
    BY DEF Inv, TypeOK, ClientTypes, Handled
  <2>. QED  BY <2>1, FS_Subset, FS_CardinalityType DEF Handlings
<1>3. Handled(sv) \in SUBSET (Handled(sv)')
  BY HandledGrows
<1>4. Handlings(sv) <= Handlings(sv)'
  BY <1>2, <1>3, FS_Subset DEF Handlings
<1>5. ASSUME WriteCount(sv)
      PROVE  Handlings(sv) + 1 <= Handlings(sv)'
  <2>1. Message(sv) \in Handled(sv)' \ Handled(sv)
    BY <1>5, HandledByWrite
  <2>2. Handled(sv) \cup {Message(sv)} \in SUBSET (Handled(sv)')
    BY <1>3, <2>1
  <2>3. Cardinality(Handled(sv) \cup {Message(sv)}) = Cardinality(Handled(sv)) + 1
    BY <1>1, <2>1, FS_AddElement
  <2>. QED  BY <1>2, <2>2, <2>3, FS_Subset DEF Handlings
<1>. QED  BY <1>1, <1>2, <1>4, <1>5

\* Every write of a count, and every read: up by one for a message, else not up.
LEMMA CountMoves ==
    ASSUME IsFiniteSet(Messages), Inv, CountWithinMessages, ReadsWithin, [Next]_vars
    PROVE  /\ \A sv \in Servers : \/ count'[sv] <= Handlings(sv)
                                  \/ WriteCount(sv) /\ count'[sv] <= Handlings(sv) + 1
           /\ \A sv \in Servers : ltmp'[sv] <= Handlings(sv)
           /\ \A c \in Clients : conn'[c] = "hset" =>
                conn[c] # "none" /\ ctmp'[c] <= Handlings(server[c])
<1>. USE DEF Inv, TypeOK, RedisTypes, ProcessTypes, ClientTypes, CountWithinMessages, ReadsWithin
<1>0. \A sv \in Servers : /\ Handlings(sv) \in Nat /\ count[sv] \in Int /\ ltmp[sv] \in Nat
                          /\ login_count(sv) <= Handlings(sv)
  BY HandledFinite DEF Absent, login_count
<1>1. CASE UNCHANGED <<count, ltmp, conn, ctmp>>
  BY <1>0, <1>1
<1>2. ASSUME NEW sv \in Servers, StartProcess(sv) \/ StartInVain(sv) \/ DeleteCount(sv)
      PROVE  /\ UNCHANGED <<ltmp, conn, ctmp>>
             /\ \A t \in Servers : count'[t] = count[t] \/ count'[t] \in {0, Absent}
  BY <1>2 DEF StartProcess, StartInVain, DeleteCount, HSet, PutCount, KeepCount, processVars,
       clientVars
<1>3. ASSUME NEW sv \in Servers, CheckToken(sv) \/ SearchUser(sv) \/ ReadCount(sv)
      PROVE  /\ UNCHANGED <<count, conn, ctmp>>
             /\ \A t \in Servers : ltmp'[t] <= Handlings(t)
  <2>1. CASE CheckToken(sv)
    BY <1>0, <2>1 DEF CheckToken
  <2>3. CASE SearchUser(sv)
    BY <1>0, <2>3 DEF SearchUser
  <2>2. CASE ReadCount(sv)
    <3>1. PICK n \in {0, login_count(sv)} : ltmp' = [ltmp EXCEPT ![sv] = n]
      BY <2>2 DEF ReadCount
    <3>2. n <= Handlings(sv)
      BY <1>0, <3>1
    <3>3. UNCHANGED <<count, conn, ctmp>>
      BY <2>2 DEF ReadCount, clientVars
    <3>. QED  BY <3>1, <3>2, <3>3
  <2>. QED  BY <1>3, <2>1, <2>2, <2>3
<1>4. ASSUME NEW sv \in Servers, WriteCount(sv)
      PROVE  /\ UNCHANGED <<conn, ctmp>>
             /\ \A t \in Servers : ltmp'[t] <= Handlings(t)
             /\ \A t \in Servers : count'[t] = count[t] \/ (t = sv /\ count'[t] = ltmp[t] + 1)
  BY <1>0, <1>4 DEF WriteCount, HSet, PutCount, KeepCount, clientVars
<1>5. ASSUME NEW sv \in Servers, Crash(sv)
      PROVE  /\ UNCHANGED count
             /\ \A t \in Servers : ltmp'[t] <= Handlings(t)
             /\ \A c \in Clients : conn'[c] = "hset" => conn[c] = "hset" /\ ctmp'[c] = ctmp[c]
  BY <1>0, <1>5 DEF Crash
<1>6. ASSUME NEW c \in Clients,
             \/ Connect(c) \/ Leave(c) \/ BadHeader(c) \/ FailedWrite(c) \/ CloseThrow(c)
      PROVE  /\ UNCHANGED <<count, ltmp, ctmp>>
             /\ \A d \in Clients : conn'[d] = "hset" => conn[d] = "hset"
  BY <1>6 DEF Connect, Leave, BadHeader, FailedWrite, CloseThrow, processVars
<1>7. ASSUME NEW c \in Clients, CloseReadCount(c)
      PROVE  /\ UNCHANGED <<count, ltmp>>
             /\ \A d \in Clients : conn'[d] = "hset" =>
                  conn[d] # "none" /\ ctmp'[d] <= Handlings(server[d])
  <2>1. server[c] \in Servers
    BY <1>7 DEF CloseReadCount, SessionInv
  <2>2. PICK n \in {0, login_count(server[c])} : ctmp' = [ctmp EXCEPT ![c] = n]
    BY <1>7 DEF CloseReadCount
  <2>3. n <= Handlings(server[c])
    BY <1>0, <2>1, <2>2
  <2>4. UNCHANGED <<count, ltmp>> /\ conn' = [conn EXCEPT ![c] = "hset"] /\ conn[c] = "hget"
    BY <1>7 DEF CloseReadCount, processVars
  <2>. QED  BY <2>2, <2>3, <2>4
<1>8. ASSUME NEW c \in Clients, CloseWriteCount(c)
      PROVE  /\ UNCHANGED ltmp
             /\ \A t \in Servers : count'[t] = count[t] \/ count'[t] <= Handlings(t)
             /\ \A d \in Clients : conn'[d] = "hset" => conn[d] = "hset" /\ ctmp'[d] = ctmp[d]
  <2>1. server[c] \in Servers /\ conn[c] = "hset" /\ ctmp[c] <= Handlings(server[c])
    BY <1>8 DEF CloseWriteCount, SessionInv
  <2>2. /\ UNCHANGED ltmp /\ conn' = [conn EXCEPT ![c] = "closed"]
        /\ ctmp' = [ctmp EXCEPT ![c] = 0]
        /\ HSet(server[c], IF ctmp[c] <= 1 THEN 0 ELSE ctmp[c] - 1)
    BY <1>8 DEF CloseWriteCount, processVars
  <2>3. /\ \A t \in Servers :
             \/ count'[t] = count[t]
             \/ t = server[c] /\ count'[t] = IF ctmp[c] <= 1 THEN 0 ELSE ctmp[c] - 1
    BY <2>1, <2>2 DEF HSet, PutCount, KeepCount
  <2>4. \A t \in Servers : count'[t] = count[t] \/ count'[t] <= Handlings(t)
    BY <1>0, <2>1, <2>3
  <2>. QED  BY <2>2, <2>4
<1>9. CASE \E sv \in Servers : StartProcess(sv) \/ StartInVain(sv) \/ DeleteCount(sv)
  <2>1. /\ UNCHANGED <<ltmp, conn, ctmp>>
        /\ \A t \in Servers : count'[t] = count[t] \/ count'[t] \in {0, Absent}
    BY <1>2, <1>9
  <2>2. ASSUME NEW t \in Servers
        PROVE  count'[t] <= Handlings(t)
    <3>1. Handlings(t) \in Nat /\ count[t] <= Handlings(t)
      BY <1>0
    <3>2. count'[t] = count[t] \/ count'[t] = 0 \/ count'[t] = -1
      BY <2>1 DEF Absent
    <3>. QED  BY <3>1, <3>2
  <2>. QED  BY <2>1, <2>2
<1>10. CASE \E sv \in Servers : CheckToken(sv) \/ SearchUser(sv) \/ ReadCount(sv) \/ WriteCount(sv) \/ Crash(sv)
  <2>1. CASE \E sv \in Servers : CheckToken(sv) \/ SearchUser(sv) \/ ReadCount(sv)
    BY <1>0, <1>3, <2>1
  <2>2. CASE \E sv \in Servers : WriteCount(sv)
    <3>1. PICK sv \in Servers : WriteCount(sv)
      BY <2>2
    <3>2. \A t \in Servers : ltmp[t] + 1 <= Handlings(t) + 1
      BY <1>0
    <3>. QED  BY <1>0, <1>4, <3>1, <3>2
  <2>3. CASE \E sv \in Servers : Crash(sv)
    BY <1>0, <1>5, <2>3
  <2>. QED  BY <1>10, <2>1, <2>2, <2>3
<1>11. CASE \E c \in Clients : \/ Connect(c) \/ Leave(c) \/ BadHeader(c) \/ FailedWrite(c)
                               \/ CloseThrow(c) \/ CloseReadCount(c) \/ CloseWriteCount(c)
  <2>1. CASE \E c \in Clients : \/ Connect(c) \/ Leave(c) \/ BadHeader(c) \/ FailedWrite(c)
                               \/ CloseThrow(c)
    BY <1>0, <1>6, <2>1
  <2>2. CASE \E c \in Clients : CloseReadCount(c)
    BY <1>0, <1>7, <2>2
  <2>3. CASE \E c \in Clients : CloseWriteCount(c)
    BY <1>0, <1>8, <2>3
  <2>. QED  BY <1>11, <2>1, <2>2, <2>3
<1>12. ASSUME ~UNCHANGED <<count, ltmp, conn, ctmp>>
       PROVE  \/ \E sv \in Servers : \/ StartProcess(sv) \/ StartInVain(sv) \/ DeleteCount(sv)
                                     \/ CheckToken(sv) \/ SearchUser(sv) \/ ReadCount(sv) \/ WriteCount(sv)
                                     \/ Crash(sv)
              \/ \E c \in Clients : \/ Connect(c) \/ Leave(c) \/ BadHeader(c) \/ FailedWrite(c)
                                    \/ CloseThrow(c) \/ CloseReadCount(c) \/ CloseWriteCount(c)
  BY <1>12 DEF Next, System, CallStep, LockServers, HGetCount, HGetThrow, UnlockServers, SetToken,
       CloseStep, MainStep, CloseRedis, LogicStep, StatusSignal, StatusExit, StatusCrash,
       StatusStart, GetChatServer, Post, AnswerWritten, ClientLost, WriteAborted, Signal, vars, statusVars, processVars, clientVars
<1>. QED  BY <1>1, <1>9, <1>10, <1>11, <1>12

LEMMA WithinStep ==
    ASSUME IsFiniteSet(Messages), Inv, Inv', QueueOnce, CountWithinMessages, ReadsWithin,
           [Next]_vars
    PROVE  CountWithinMessages' /\ ReadsWithin'
<1>1. \A sv \in Servers : /\ Handlings(sv) \in Nat /\ Handlings(sv)' \in Nat
                          /\ Handlings(sv) <= Handlings(sv)'
                          /\ WriteCount(sv) => Handlings(sv) + 1 <= Handlings(sv)'
  BY HandlingsGrow
<1>2. \A sv \in Servers : count'[sv] \in Int /\ ltmp'[sv] \in Nat
  BY DEF Inv, TypeOK, RedisTypes, ProcessTypes, Absent
<1>3. ASSUME NEW sv \in Servers
      PROVE  count'[sv] <= Handlings(sv)' /\ ltmp'[sv] <= Handlings(sv)'
  <2>1. /\ count'[sv] <= Handlings(sv) \/ (WriteCount(sv) /\ count'[sv] <= Handlings(sv) + 1)
        /\ ltmp'[sv] <= Handlings(sv)
    BY CountMoves
  <2>. QED  BY <1>1, <1>2, <2>1
<1>4. ASSUME NEW c \in Clients, conn'[c] = "hset"
      PROVE  ctmp'[c] <= Handlings(server[c])'
  <2>1. conn[c] # "none" /\ ctmp'[c] <= Handlings(server[c])
    BY <1>4, CountMoves
  <2>2. call[c] = "done" /\ server[c] \in Servers /\ server'[c] = server[c]
    BY <2>1, QueueMoves DEF Inv, SessionInv
  <2>3. PICK sv \in Servers : sv = server[c]
    BY <2>2
  <2>4. ctmp'[c] \in Nat /\ ctmp'[c] <= Handlings(sv)'
    BY <1>1, <2>1, <2>3 DEF Inv, TypeOK, ClientTypes
  <2>. QED  BY <2>2, <2>3, <2>4 DEF Handlings, Handled
<1>. QED  BY <1>3, <1>4 DEF CountWithinMessages, ReadsWithin

LEMMA WithinInit == IsFiniteSet(Messages) /\ Init => QueueOnce /\ CountWithinMessages /\ ReadsWithin
<1>. SUFFICES ASSUME IsFiniteSet(Messages), Init
              PROVE  QueueOnce /\ CountWithinMessages /\ ReadsWithin
  OBVIOUS
<1>1. \A sv \in Servers : Handlings(sv) \in Nat
  BY HandledFinite, InitInv
<1>. QED  BY <1>1 DEF Init, QueueOnce, CountWithinMessages, ReadsWithin, Absent

LEMMA WithinHolds ==
    ASSUME IsFiniteSet(Messages)
    PROVE  Spec => []CountWithinMessages
<1>1. Init => QueueOnce /\ CountWithinMessages /\ ReadsWithin
  BY WithinInit
<1>2. Inv /\ Inv' /\ (QueueOnce /\ CountWithinMessages /\ ReadsWithin) /\ [Next]_vars
      => (QueueOnce /\ CountWithinMessages /\ ReadsWithin)'
  BY OnceStep, WithinStep
<1>. QED  BY <1>1, <1>2, Invariance, PTL DEF Spec

\* A count is not above the logins and searches of its server, however badly its updates meet: the
\* drift that run chat_online finds is bounded from above.
THEOREM CountBoundedByMessages ==
    ASSUME IsFiniteSet(Messages) PROVE Spec => []CountWithinMessages
BY WithinHolds

-----------------------------------------------------------------------------
(* Who is chosen *)

\* INT_MAX, which getChatServer takes for an absent count, is told apart from a real one.
SeenWithin ==
    \A sv \in Servers : \A n \in seen[sv] : n = INT_MAX \/ n <= Cardinality(Messages)

\* Where the counts that a scan may have seen come from.
LEMMA SeenMoves ==
    ASSUME Inv, [Next]_vars, NEW sv \in Servers, NEW n \in seen'[sv]
    PROVE  \/ n \in seen[sv] \/ n = INT_MAX
           \/ n = con_count(count[sv]) \/ n = con_count(count'[sv])
<1>. USE DEF Inv, TypeOK, RedisTypes, HistoryTypes
<1>1. ASSUME NEW t \in Servers, NEW v, PutCount(t, v)
      PROVE  n \in seen[sv] \/ n = con_count(count'[sv])
  BY <1>1 DEF PutCount
<1>2. ASSUME NEW t \in Servers, NEW v, HSet(t, v)
      PROVE  n \in seen[sv] \/ n = con_count(count'[sv])
  BY <1>1, <1>2 DEF HSet, KeepCount
<1>3. CASE UNCHANGED seen
  BY <1>3
<1>4. CASE \E c \in Clients : LockServers(c)
  BY <1>4 DEF LockServers
<1>5. CASE \E c \in Clients : HGetCount(c)
  <2>1. PICK c \in Clients : HGetCount(c)
    BY <1>5
  <2>2. _servers[at + 1] \in Servers
    BY <2>1, Assumptions DEF HGetCount, CallTypes
  <2>3. PICK k \in {con_count(count[_servers[at + 1]]), INT_MAX} :
          seen' = [seen EXCEPT ![_servers[at + 1]] = @ \cup {k}]
    BY <2>1 DEF HGetCount
  <2>. QED  BY <2>2, <2>3
<1>6. CASE StatusCrash \/ \E c \in Clients : UnlockServers(c) \/ HGetThrow(c)
  BY <1>6 DEF StatusCrash, UnlockServers, HGetThrow, EndScan
<1>7. CASE \E t \in Servers : StartProcess(t) \/ StartInVain(t) \/ DeleteCount(t) \/ WriteCount(t)
  <2>1. PICK t \in Servers :
          StartProcess(t) \/ StartInVain(t) \/ DeleteCount(t) \/ WriteCount(t)
    BY <1>7
  <2>2. \E v : HSet(t, v) \/ PutCount(t, v) \/ KeepCount
    BY <2>1 DEF StartProcess, StartInVain, DeleteCount, WriteCount
  <2>. QED  BY <1>1, <1>2, <2>2 DEF KeepCount
<1>8. CASE \E c \in Clients : CloseWriteCount(c)
  <2>1. PICK c \in Clients : CloseWriteCount(c)
    BY <1>8
  <2>2. server[c] \in Servers /\ \E v : HSet(server[c], v)
    BY <2>1 DEF CloseWriteCount, SessionInv
  <2>. QED  BY <1>2, <2>2
<1>9. ASSUME ~UNCHANGED seen
      PROVE  \/ StatusCrash
             \/ \E c \in Clients : \/ LockServers(c) \/ HGetCount(c) \/ HGetThrow(c)
                                   \/ UnlockServers(c) \/ CloseWriteCount(c)
             \/ \E t \in Servers : \/ StartProcess(t) \/ StartInVain(t) \/ DeleteCount(t)
                                   \/ WriteCount(t)
  BY <1>9 DEF Next, System, CallStep, SetToken, CloseStep, CloseReadCount, CloseThrow, MainStep,
       CloseRedis, LogicStep, CheckToken, SearchUser, ReadCount, StatusSignal, StatusExit,
       StatusStart, GetChatServer, Connect, Post, Leave, BadHeader, AnswerWritten, ClientLost,
       WriteAborted, FailedWrite, Signal, Crash, vars, historyVars
<1>. QED  BY <1>3, <1>4, <1>5, <1>6, <1>7, <1>8, <1>9

\* Each message is handled once.
LEMMA CountWithinAll ==
    ASSUME IsFiniteSet(Messages), Inv, CountWithinMessages, NEW sv \in Servers
    PROVE  con_count(count[sv]) = INT_MAX \/ con_count(count[sv]) <= Cardinality(Messages)
<1>1. Handled(sv) \in SUBSET Messages
  BY DEF Inv, TypeOK, ClientTypes, Handled
<1>2. /\ Handlings(sv) \in Nat /\ Cardinality(Messages) \in Nat
      /\ Handlings(sv) <= Cardinality(Messages)
  BY <1>1, HandledFinite, FS_Subset, FS_CardinalityType DEF Handlings
<1>3. count[sv] \in Int /\ count[sv] <= Handlings(sv)
  BY DEF Inv, TypeOK, RedisTypes, CountWithinMessages, Absent
<1>. QED  BY <1>2, <1>3 DEF con_count

LEMMA SeenHolds ==
    ASSUME IsFiniteSet(Messages)
    PROVE  Spec => []SeenWithin
<1>1. Init => SeenWithin
  BY DEF Init, SeenWithin
<1>2. /\ Inv /\ Inv' /\ CountWithinMessages /\ CountWithinMessages'
      /\ SeenWithin /\ [Next]_vars
      => SeenWithin'
  <2>. SUFFICES ASSUME Inv, Inv', CountWithinMessages, CountWithinMessages', SeenWithin,
                       [Next]_vars, NEW sv \in Servers, NEW n \in seen'[sv]
                PROVE  n = INT_MAX \/ n <= Cardinality(Messages)
    BY DEF SeenWithin
  <2>1. con_count(count[sv]) = INT_MAX \/ con_count(count[sv]) <= Cardinality(Messages)
    BY CountWithinAll
  <2>2. con_count(count'[sv]) = INT_MAX \/ con_count(count'[sv]) <= Cardinality(Messages)
    <3>1. Handled(sv)' \in SUBSET Messages
      BY DEF Inv, TypeOK, ClientTypes, Handled
    <3>2. /\ Handlings(sv)' \in Nat /\ Cardinality(Messages) \in Nat
          /\ Handlings(sv)' <= Cardinality(Messages)
      BY <3>1, FS_Subset, FS_CardinalityType DEF Handlings
    <3>3. count'[sv] \in Int /\ count'[sv] <= Handlings(sv)'
      BY DEF Inv, TypeOK, RedisTypes, CountWithinMessages, Absent
    <3>. QED  BY <3>2, <3>3 DEF con_count
  <2>. QED  BY <2>1, <2>2, SeenMoves DEF SeenWithin
<1>. QED  BY <1>1, <1>2, WithinHolds, Invariance, PTL DEF Spec

\* StatusServiceImpl.cpp:97: a server without a count counts as the busiest.  If some
\* server had a count throughout the scan and could be read, one that had a count during
\* it is chosen, not one that is down.
ChosenHasCount ==
    [][\A c \in Clients, sv \in Servers :
         (call[c] = "scan" /\ call'[c] = "token" /\ INT_MAX \notin seen[sv])
         => \E m \in seen[server'[c]] : m < INT_MAX]_vars

\* A client is not sent to a server without a count while another has one: as long as
\* there are fewer logins and searches than INT_MAX.
THEOREM CountedChosen ==
    ASSUME IsFiniteSet(Messages), Cardinality(Messages) < INT_MAX
    PROVE  Spec => ChosenHasCount
<1>1. ASSUME Inv, SeenWithin, [Next]_vars
      PROVE  \A c \in Clients, sv \in Servers :
               (call[c] = "scan" /\ call'[c] = "token" /\ INT_MAX \notin seen[sv])
               => \E m \in seen[server'[c]] : m < INT_MAX
  <2>. SUFFICES ASSUME NEW c \in Clients, NEW sv \in Servers, call[c] = "scan",
                       call'[c] = "token", INT_MAX \notin seen[sv]
                PROVE  \E m \in seen[server'[c]] : m < INT_MAX
    OBVIOUS
  <2>1. PICK m \in seen[server'[c]], n \in seen[sv] : m <= n
    BY <1>1, LeastOfScan
  <2>2. n <= Cardinality(Messages) /\ n \in Nat /\ Cardinality(Messages) \in Nat
    BY <1>1, FS_CardinalityType DEF SeenWithin, Inv, TypeOK, HistoryTypes
  <2>3. server'[c] \in Servers /\ seen[server'[c]] \subseteq Nat
    <3>1. Inv'
      BY <1>1, TypesStep, SessionStep, QueueStep, TicketStep, CountStep, ScanStep DEF Inv
    <3>2. server'[c] \in Servers
      BY <3>1 DEF Inv, SessionInv
    <3>. QED  BY <1>1, <3>2 DEF Inv, TypeOK, HistoryTypes
  <2>. QED  BY <2>1, <2>2, <2>3, Assumptions
<1>. QED  BY <1>1, SeenHolds, Invariance, PTL DEF Spec, ChosenHasCount
==============================================================================

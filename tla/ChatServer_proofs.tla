-------------------------- MODULE ChatServer_proofs --------------------------
(***************************************************************************)
(* Theorems about ChatServer, for every number of sessions, io threads,    *)
(* users, posted messages and Redis failures.                              *)
(***************************************************************************)
EXTENDS ChatServer, FiniteSetTheorems, TLAPS

\* The logic thread is inside a handler only while the message it handles is
\* still at the head of the queue, and only logins get past the count.
HandlerInv ==
    /\ wpc \notin {"wait", "dead"} => msg_que # <<>> /\ Request.kind # "junk"
    /\ wpc \in {"setuid", "bind"} => Request.kind = "login"

\* A write is outstanding, or has failed, exactly while something is queued.
WriteInv == \A s \in Sessions : wr[s] = "idle" <=> send_que[s] = <<>>

TypeInv == TypeOK /\ HandlerInv /\ WriteInv

LEMMA RequestTyped ==
    ASSUME LogicTypes, msg_que # <<>>
    PROVE  /\ Request \in Messages
           /\ Request.sess \in Sessions
           /\ Request.uid \in Uids \cup {NoUid}
           /\ Request.kind \in {"login", "search", "junk"}
           /\ Request.kind = "login" => Request.uid \in Uids
           /\ Tail(msg_que) \in Seq(Messages)
  <1>1. Request \in Messages /\ Tail(msg_que) \in Seq(Messages)
    BY DEF LogicTypes, Request
  <1>2. PICK s \in Sessions : Request \in Requests(s)
    BY <1>1 DEF Messages
  <1>3. QED
    BY <1>1, <1>2 DEF Requests

LEMMA UidsAreNat == \A u \in Uids \cup {NoUid} : u \in Nat
  BY ChatServerAssumption DEF ChatServerAssumption, NoUid

LEMMA TypeInit == Init => TypeInv
  <1> SUFFICES ASSUME Init PROVE TypeInv
    OBVIOUS
  <1> USE DEF Init
  <1>1. ConnTypes
    BY DEF ConnTypes
  <1>2. SendTypes
    BY DEF SendTypes
  <1>3. CloseTypes
    BY DEF CloseTypes
  <1>4. LogicTypes
    BY DEF LogicTypes, Errors
  <1>5. CountTypes
    BY DEF CountTypes
  <1>6. UserTypes
    BY DEF UserTypes
  <1>7. RedisTypes
    BY ChatServerAssumption DEF RedisTypes
  <1>8. BudgetTypes
    BY ChatServerAssumption DEF BudgetTypes
  <1>9. QED
    BY <1>1, <1>2, <1>3, <1>4, <1>5, <1>6, <1>7, <1>8
       DEF TypeInv, TypeOK, HandlerInv, WriteInv

\* A variable group that a step leaves alone keeps its types.
LEMMA TypesUnchanged ==
    ASSUME TypeInv
    PROVE  /\ UNCHANGED connVars => ConnTypes'
           /\ UNCHANGED sendVars => SendTypes' /\ WriteInv'
           /\ UNCHANGED closeVars => CloseTypes'
           /\ UNCHANGED logicVars => LogicTypes' /\ HandlerInv'
           /\ UNCHANGED countVars => CountTypes'
           /\ UNCHANGED userVars => UserTypes'
           /\ UNCHANGED redisVars => RedisTypes'
           /\ UNCHANGED <<posts, faults>> => BudgetTypes'
  <1> USE DEF TypeInv, TypeOK
  <1>1. UNCHANGED connVars => ConnTypes'
    BY DEF connVars, ConnTypes
  <1>2. UNCHANGED sendVars => SendTypes' /\ WriteInv'
    BY DEF sendVars, SendTypes, WriteInv
  <1>3. UNCHANGED closeVars => CloseTypes'
    BY DEF closeVars, CloseTypes
  <1>4. UNCHANGED logicVars => LogicTypes' /\ HandlerInv'
    BY DEF logicVars, LogicTypes, HandlerInv, Request
  <1>5. UNCHANGED countVars => CountTypes'
    BY DEF countVars, driftVars, CountTypes
  <1>6. UNCHANGED userVars => UserTypes'
    BY DEF userVars, UserTypes
  <1>7. UNCHANGED redisVars => RedisTypes'
    BY DEF redisVars, RedisTypes
  <1>8. UNCHANGED <<posts, faults>> => BudgetTypes'
    BY DEF BudgetTypes
  <1>9. QED
    BY <1>1, <1>2, <1>3, <1>4, <1>5, <1>6, <1>7, <1>8

\* Redis answers and refusals are typed, and the budget of failures holds.
LEMMA RedisTyped ==
    ASSUME TypeInv, UNCHANGED posts
    PROVE  /\ Fault \/ NoFault => BudgetTypes'
           /\ \A v : HGet(v) => v \in Nat /\ BudgetTypes'
           /\ \A v \in Nat : HSet(v) => login_count' \in Nat /\ BudgetTypes'
  BY ChatServerAssumption
     DEF TypeInv, TypeOK, Fault, NoFault, HGet, HSet, BudgetTypes, CountTypes

LEMMA TypeConn ==
    ASSUME TypeInv, NEW s \in Sessions
    PROVE  /\ Disconnect(s) \/ StartSession(s) \/ BadHeader(s) => TypeInv'
           /\ InsertSession => TypeInv'
           /\ Receive(s) => TypeInv'
  <1> USE DEF TypeInv, TypeOK
  <1>1. ASSUME Disconnect(s) \/ StartSession(s) \/ BadHeader(s) \/ InsertSession
        PROVE  TypeInv'
    <2>1. ConnTypes'
      BY <1>1 DEF Disconnect, StartSession, BadHeader, InsertSession, ConnTypes
    <2>2. QED
      BY <1>1, <2>1, TypesUnchanged
         DEF Disconnect, StartSession, BadHeader, InsertSession
  <1>2. ASSUME Receive(s) PROVE TypeInv'
    <2>1. PICK m \in Requests(s) : PostMsgToQue(s, m)
      BY <1>2 DEF Receive
    <2>2. m \in Messages
      BY DEF Messages
    <2>3. ConnTypes'
      BY <2>1 DEF PostMsgToQue, Started, ConnTypes
    <2>4. LogicTypes'
      BY <2>1, <2>2 DEF PostMsgToQue, LogicTypes
    <2>5. HandlerInv'
      BY <2>1 DEF PostMsgToQue, HandlerInv
    <2>6. BudgetTypes'
      BY <2>1, ChatServerAssumption DEF PostMsgToQue, BudgetTypes
    <2>7. QED
      BY <2>1, <2>3, <2>4, <2>5, <2>6, TypesUnchanged DEF PostMsgToQue
  <1>3. QED
    BY <1>1, <1>2

LEMMA TypeErrors ==
    ASSUME TypeInv, NEW s \in Sessions
    PROVE  ReadError(s) \/ WriteOk(s) \/ WriteError(s) => TypeInv'
  <1> USE DEF TypeInv, TypeOK
  <1>1. ASSUME ReadError(s) PROVE TypeInv'
    <2>1. ConnTypes'
      BY <1>1 DEF ReadError, ConnTypes
    <2>2. CloseTypes'
      BY <1>1 DEF ReadError, Close, CloseTypes
    <2>3. QED
      BY <1>1, <2>1, <2>2, TypesUnchanged DEF ReadError
  <1>2. ASSUME WriteOk(s) PROVE TypeInv'
    <2> DEFINE q == send_que[s]
    <2>1. q \in Seq(Replies) /\ q # <<>>
      BY <1>2 DEF WriteOk, SendTypes, WriteInv
    <2>2. Tail(q) \in Seq(Replies) /\ (Tail(q) = <<>> <=> ~(Len(q) > 1))
      BY <2>1
    <2>3. /\ send_que' = [send_que EXCEPT ![s] = Tail(q)]
          /\ wr' = [wr EXCEPT ![s] = IF Len(q) > 1 THEN Started(s, "out") ELSE "idle"]
      BY <1>2 DEF WriteOk, q
    <2>4. Started(s, "out") \in {"out", "failing"}
      BY DEF Started
    <2> HIDE DEF q
    <2>5. SendTypes' /\ WriteInv'
      BY <2>2, <2>3, <2>4 DEF SendTypes, WriteInv
    <2>6. QED
      BY <1>2, <2>5, TypesUnchanged DEF WriteOk
  <1>3. ASSUME WriteError(s) PROVE TypeInv'
    <2>1. SendTypes' /\ WriteInv'
      BY <1>3 DEF WriteError, SendTypes, WriteInv
    <2>2. CloseTypes'
      BY <1>3 DEF WriteError, Close, CloseTypes
    <2>3. QED
      BY <1>3, <2>1, <2>2, TypesUnchanged DEF WriteError
  <1>4. QED
    BY <1>1, <1>2, <1>3

LEMMA TypeClose ==
    ASSUME TypeInv, NEW s \in Sessions, CloseStep(s)
    PROVE  TypeInv'
  <1> USE DEF TypeInv, TypeOK
  <1>1. CASE CloseFind(s)
    <2>1. user_uid[s] \in Nat
      BY UidsAreNat DEF UserTypes
    <2>2. CloseTypes'
      BY <1>1, <2>1 DEF CloseFind, CloseTypes
    <2>3. QED
      BY <1>1, <2>2, TypesUnchanged DEF CloseFind
  <1>2. CASE CloseRemove(s)
    <2>1. CloseTypes'
      BY <1>2 DEF CloseRemove, CloseTypes
    <2>2. UserTypes'
      BY <1>2 DEF CloseRemove, removeUserSession, UserTypes
    <2>3. QED
      BY <1>2, <2>1, <2>2, TypesUnchanged DEF CloseRemove
  <1>3. CASE CloseErase(s)
    <2>1. ConnTypes' /\ CloseTypes'
      BY <1>3 DEF CloseErase, eraseSession, ConnTypes, CloseTypes
    <2>2. QED
      BY <1>3, <2>1, TypesUnchanged DEF CloseErase
  <1>4. CASE CloseReadCount(s)
    <2>1. PICK v \in {0, login_count} : HGet(v) /\ ctmp' = [ctmp EXCEPT ![s] = v]
      BY <1>4 DEF CloseReadCount
    <2>2. v \in Nat /\ BudgetTypes'
      BY <1>4, <2>1, RedisTyped DEF CloseReadCount
    <2>3. CloseTypes'
      BY <1>4, <2>1, <2>2 DEF CloseReadCount, CloseTypes
    <2>4. CountTypes'
      BY <1>4 DEF CloseReadCount, BeginUpdate, CountTypes, driftVars
    <2>5. QED
      BY <1>4, <2>2, <2>3, <2>4, TypesUnchanged DEF CloseReadCount
  <1>5. CASE CloseWriteCount(s)
    <2>1. Decrement(ctmp[s]) \in Nat
      BY DEF CloseTypes, Decrement
    <2>2. login_count' \in Nat /\ BudgetTypes'
      BY <1>5, <2>1, RedisTyped DEF CloseWriteCount
    <2>3. CountTypes' /\ CloseTypes'
      BY <1>5, <2>2 DEF CloseWriteCount, CountTypes, CloseTypes
    <2>4. QED
      BY <1>5, <2>2, <2>3, TypesUnchanged DEF CloseWriteCount
  <1>6. CASE CloseSocket(s)
    <2>1. ConnTypes' /\ CloseTypes'
      BY <1>6 DEF CloseSocket, ConnTypes, CloseTypes
    <2>2. QED
      BY <1>6, <2>1, TypesUnchanged DEF CloseSocket
  <1>7. CASE CloseThrow(s)
    <2>1. CloseTypes' /\ BudgetTypes'
      BY <1>7, RedisTyped DEF CloseThrow, CloseTypes
    <2>2. QED
      BY <1>7, <2>1, TypesUnchanged DEF CloseThrow
  <1>8. QED
    BY <1>1, <1>2, <1>3, <1>4, <1>5, <1>6, <1>7 DEF CloseStep

LEMMA TypeHandlers ==
    ASSUME TypeInv
    PROVE  DropMsg \/ LoginHandler \/ SearchInfo \/ Crash => TypeInv'
  <1> USE DEF TypeInv, TypeOK
  <1>1. ASSUME DropMsg PROVE TypeInv'
    <2>1. Tail(msg_que) \in Seq(Messages)
      BY <1>1, RequestTyped DEF DropMsg, DealMsg
    <2>2. LogicTypes' /\ HandlerInv'
      BY <1>1, <2>1 DEF DropMsg, DealMsg, LogicTypes, HandlerInv
    <2>3. QED
      BY <1>1, <2>2, TypesUnchanged DEF DropMsg
  <1>2. ASSUME LoginHandler PROVE TypeInv'
    <2>1. Request.sess \in Sessions /\ Request.uid \in Uids
      BY <1>2, RequestTyped DEF LoginHandler, DealMsg
    <2>2. CheckToken(Request.uid, Request.token) \in Errors
      BY DEF CheckToken, Errors
    <2>3. LogicTypes' /\ HandlerInv'
      BY <1>2, <2>2 DEF LoginHandler, DealMsg, LogicTypes, HandlerInv, Errors, Request
    <2>4. authed' \subseteq Sessions \X Uids
      BY <1>2, <2>1 DEF LoginHandler, UserTypes
    <2>5. UserTypes'
      BY <1>2, <2>4 DEF LoginHandler, UserTypes
    <2>6. BudgetTypes'
      BY <1>2, RedisTyped DEF LoginHandler
    <2>7. QED
      BY <1>2, <2>3, <2>5, <2>6, TypesUnchanged DEF LoginHandler
  <1>3. ASSUME SearchInfo PROVE TypeInv'
    <2>1. LogicTypes' /\ HandlerInv'
      BY <1>3 DEF SearchInfo, DealMsg, LogicTypes, HandlerInv, Errors, Request
    <2>2. RedisTypes'
      <3>1. Request.uid \in Uids \cup {NoUid}
        BY <1>3, RequestTyped DEF SearchInfo, DealMsg
      <3>2. QED
        BY <1>3, <3>1 DEF SearchInfo, RedisTypes
    <2>3. Fault \/ NoFault
      BY <1>3 DEF SearchInfo
    <2>4. BudgetTypes'
      BY <1>3, <2>3, RedisTyped DEF SearchInfo
    <2>5. QED
      BY <1>3, <2>1, <2>2, <2>4, TypesUnchanged DEF SearchInfo
  <1>4. ASSUME Crash PROVE TypeInv'
    <2>1. LogicTypes' /\ HandlerInv'
      BY <1>4 DEF Crash, LogicTypes, HandlerInv, Request
    <2>2. (Fault \/ NoFault) /\ UNCHANGED posts
      BY <1>4 DEF Crash, HandlerCrash, FindCrash
    <2>3. QED
      BY <1>4, <2>1, <2>2, RedisTyped, TypesUnchanged DEF Crash
  <1>5. QED
    BY <1>1, <1>2, <1>3, <1>4

LEMMA TypeCountSteps ==
    ASSUME TypeInv
    PROVE  ReadCount \/ WriteCount => TypeInv'
  <1> USE DEF TypeInv, TypeOK
  <1>1. ASSUME ReadCount PROVE TypeInv'
    <2>1. PICK v \in {0, login_count} : HGet(v) /\ wtmp' = v
      BY <1>1 DEF ReadCount
    <2>2. v \in Nat /\ BudgetTypes'
      BY <1>1, <2>1, RedisTyped DEF ReadCount
    <2>3. LogicTypes' /\ HandlerInv'
      BY <1>1, <2>1, <2>2 DEF ReadCount, LogicTypes, HandlerInv, Request
    <2>4. CountTypes'
      BY <1>1 DEF ReadCount, BeginUpdate, CountTypes, driftVars
    <2>5. QED
      BY <1>1, <2>2, <2>3, <2>4, TypesUnchanged DEF ReadCount
  <1>2. ASSUME WriteCount PROVE TypeInv'
    <2>1. Increment(wtmp) \in Nat
      BY DEF LogicTypes, Increment
    <2>2. login_count' \in Nat /\ BudgetTypes'
      BY <1>2, <2>1, RedisTyped DEF WriteCount
    <2>3. LogicTypes' /\ HandlerInv'
      BY <1>2 DEF WriteCount, LogicTypes, HandlerInv, Request
    <2>4. CountTypes'
      BY <1>2, <2>2 DEF WriteCount, CountTypes
    <2>5. QED
      BY <1>2, <2>2, <2>3, <2>4, TypesUnchanged DEF WriteCount
  <1>3. QED
    BY <1>1, <1>2

LEMMA TypeBinding ==
    ASSUME TypeInv
    PROVE  SetUserId \/ setUserSession => TypeInv'
  <1> USE DEF TypeInv, TypeOK
  <1>1. ASSUME SetUserId PROVE TypeInv'
    <2>1. Request.sess \in Sessions /\ Request.uid \in Uids
      BY <1>1, RequestTyped DEF SetUserId, HandlerInv
    <2>2. LogicTypes' /\ HandlerInv'
      BY <1>1 DEF SetUserId, LogicTypes, HandlerInv, Request
    <2>3. UserTypes'
      BY <1>1, <2>1 DEF SetUserId, NoteLate, UserTypes
    <2>4. RedisTypes'
      BY <1>1, <2>1 DEF SetUserId, RedisTypes
    <2>5. BudgetTypes'
      BY <1>1, RedisTyped DEF SetUserId
    <2>6. QED
      BY <1>1, <2>2, <2>3, <2>4, <2>5, TypesUnchanged DEF SetUserId
  <1>2. ASSUME setUserSession PROVE TypeInv'
    <2>1. Request.sess \in Sessions
      BY <1>2, RequestTyped DEF setUserSession, HandlerInv
    <2>2. LogicTypes' /\ HandlerInv'
      BY <1>2 DEF setUserSession, LogicTypes, HandlerInv, Request
    <2>3. UserTypes'
      BY <1>2, <2>1 DEF setUserSession, NoteLate, UserTypes
    <2>4. QED
      BY <1>2, <2>2, <2>3, TypesUnchanged DEF setUserSession
  <1>3. QED
    BY <1>1, <1>2

LEMMA TypeReply ==
    ASSUME TypeInv, Reply
    PROVE  TypeInv'
  <1> USE DEF TypeInv, TypeOK
  <1> DEFINE s == Request.sess
             r == [rsp |-> Request.kind, error |-> rt_error,
                   uid |-> IF rt_error = "Success" THEN Request.uid ELSE NoUid]
  <1>1. msg_que # <<>>
    BY DEF Reply, HandlerInv
  <1>2. /\ s \in Sessions /\ Request.uid \in Uids \cup {NoUid}
        /\ Tail(msg_que) \in Seq(Messages)
    BY <1>1, RequestTyped
  <1>3. r \in Replies
    BY <1>1, <1>2, RequestTyped DEF Reply, HandlerInv, LogicTypes, Replies
  <1>4. Started(s, "out") \in {"out", "failing"}
    BY DEF Started
  <1>5. Send(s, r)
    BY DEF Reply
  <1> HIDE DEF s, r
  <1>6. Append(send_que[s], r) \in Seq(Replies) /\ Append(send_que[s], r) # <<>>
    <2>1. send_que[s] \in Seq(Replies)
      BY <1>2 DEF SendTypes
    <2>2. QED
      BY <1>3, <2>1
  <1>7. SendTypes' /\ WriteInv'
    BY <1>2, <1>4, <1>5, <1>6 DEF Send, sendVars, SendTypes, WriteInv
  <1>8. LogicTypes' /\ HandlerInv'
    BY <1>2 DEF Reply, LogicTypes, HandlerInv, Errors
  <1>9. told' = told \/ (Request.kind = "login" /\ told' = told \cup {<<s, Request.uid>>})
    BY DEF Reply, s
  <1>10. UserTypes'
    <2>1. Request.kind = "login" => Request.uid \in Uids
      BY <1>1, RequestTyped
    <2>2. told' \subseteq Sessions \X Uids
      BY <1>2, <1>9, <2>1 DEF UserTypes
    <2>3. QED
      BY <2>2 DEF Reply, UserTypes
  <1>11. QED
    BY <1>7, <1>8, <1>10, TypesUnchanged DEF Reply

LEMMA TypeNext == TypeInv /\ [Next]_vars => TypeInv'
  <1> SUFFICES ASSUME TypeInv, [Next]_vars PROVE TypeInv'
    OBVIOUS
  <1>1. ASSUME NEW u \in Users, IssueToken(u) PROVE TypeInv'
    <2>1. RedisTypes'
      BY <1>1, ChatServerAssumption DEF IssueToken, RedisTypes, TypeInv, TypeOK
    <2>2. QED
      BY <1>1, <2>1, TypesUnchanged DEF IssueToken, TypeInv, TypeOK
  <1>2. CASE UNCHANGED vars
    BY <1>2, TypesUnchanged DEF vars, TypeInv, TypeOK
  <1>3. CASE Worker \/ Crash
    BY <1>3, TypeHandlers, TypeCountSteps, TypeBinding, TypeReply DEF Worker
  <1>4. ASSUME NEW s \in Sessions,
               \/ Disconnect(s) \/ StartSession(s) \/ Receive(s) \/ BadHeader(s)
               \/ ReadError(s) \/ WriteOk(s) \/ WriteError(s) \/ CloseStep(s)
        PROVE  TypeInv'
    BY <1>4, TypeConn, TypeErrors, TypeClose
  <1>5. CASE InsertSession
    <2>1. 1 \in Sessions
      BY ChatServerAssumption DEF ChatServerAssumption, Sessions
    <2>2. QED
      BY <1>5, <2>1, TypeConn
  <1>6. QED
    BY <1>1, <1>2, <1>3, <1>4, <1>5 DEF Next, Step, Idle

\* Every variable keeps its type, and the handler its message: for every
\* behaviour of the server.
THEOREM TypeCorrect == Spec => []TypeOK
  <1>1. TypeInv => TypeOK
    BY DEF TypeInv
  <1>2. QED
    BY <1>1, TypeInit, TypeNext, PTL DEF Spec

-----------------------------------------------------------------------------
(* Who is registered for a uid *)

\* LoginHandler compared tokens with success for the message it handles.
LoginAccepted == wpc \notin {"wait", "dead"} /\ Request.kind = "login" /\ rt_error = "Success"

\* Every trace a login leaves, in the session, in m_uids, in the local of a
\* Close and in the handler itself, stems from a comparison that succeeded.
AuthInv ==
    /\ BoundOnlyIfAuthenticated
    /\ told \subseteq authed
    /\ \A s \in Sessions, u \in Uids :
         /\ user_uid[s] = u => <<s, u>> \in authed
         /\ (cpc[s] = "remove" /\ ctmp[s] = u) => <<s, u>> \in authed
    /\ \A s \in Sessions : cpc[s] # "run" => closes[s] > 0
    /\ LoginAccepted => <<Request.sess, Request.uid>> \in authed
    /\ (wpc \in {"hget", "hset", "setuid", "bind"} /\ Request.kind = "login")
         => rt_error = "Success"

\* s is where m_uids leads for u, unless it began to Close or shares u.
Reachable(s, u) ==
    (closes[s] = 0 /\ \A t \in Sessions \ {s} : <<t, u>> \notin authed)
    => m_uids[u] = s

ReachInv ==
    /\ \A s \in Sessions, u \in Uids : <<s, u>> \in told => Reachable(s, u)
    /\ (LoginAccepted /\ wpc = "reply") => Reachable(Request.sess, Request.uid)

LEMMA AuthInit == Init => AuthInv /\ ReachInv
  <1> SUFFICES ASSUME Init PROVE AuthInv /\ ReachInv
    OBVIOUS
  <1> USE DEF Init
  <1>1. AuthInv
    <2>1. BoundOnlyIfAuthenticated
      BY DEF BoundOnlyIfAuthenticated
    <2>2. \A u \in Uids : u # NoUid
      BY ChatServerAssumption DEF ChatServerAssumption, NoUid
    <2>3. QED
      BY <2>1, <2>2 DEF AuthInv, LoginAccepted
  <1>2. ReachInv
    BY DEF ReachInv, LoginAccepted
  <1>3. QED
    BY <1>1, <1>2

LEMMA AuthConn ==
    ASSUME TypeInv, AuthInv, ReachInv, NEW s \in Sessions,
           \/ Disconnect(s) \/ StartSession(s) \/ BadHeader(s) \/ Receive(s)
           \/ ReadError(s) \/ WriteError(s) \/ WriteOk(s)
    PROVE  AuthInv' /\ ReachInv'
  <1> USE DEF userVars
  <1>1. UNCHANGED <<user_uid, m_uids, authed, told>>
    BY DEF Disconnect, StartSession, BadHeader, Receive, PostMsgToQue, ReadError,
           WriteError, WriteOk
  <1>2. \/ UNCHANGED <<cpc, ctmp, closes>>
        \/ /\ cpc' = [cpc EXCEPT ![s] = "find"] /\ ctmp' = ctmp
           /\ closes' = [closes EXCEPT ![s] = @ + 1]
    BY DEF Disconnect, StartSession, BadHeader, Receive, PostMsgToQue, ReadError,
           WriteError, WriteOk, Close, closeVars
  <1>3. \/ UNCHANGED <<msg_que, wpc, rt_error>>
        \/ wpc = "wait" /\ wpc' = "wait"
    BY DEF Disconnect, StartSession, BadHeader, Receive, PostMsgToQue, ReadError,
           WriteError, WriteOk, logicVars
  <1>4. AuthInv'
    BY <1>1, <1>2, <1>3
       DEF TypeInv, TypeOK, CloseTypes, AuthInv, BoundOnlyIfAuthenticated, LoginAccepted, Request
  <1>5. \A t \in Sessions : closes'[t] = 0 => closes[t] = 0
    BY <1>2 DEF TypeInv, TypeOK, CloseTypes
  <1>6. \A t \in Sessions, u \in Uids : Reachable(t, u) => Reachable(t, u)'
    BY <1>1, <1>5 DEF Reachable
  <1>7. (LoginAccepted /\ wpc = "reply")' => /\ LoginAccepted /\ wpc = "reply"
                                             /\ UNCHANGED Request
                                             /\ Request.sess \in Sessions
                                             /\ Request.uid \in Uids
    BY <1>3, RequestTyped DEF LoginAccepted, Request, TypeInv, TypeOK, HandlerInv
  <1>8. ReachInv'
    BY <1>1, <1>6, <1>7 DEF ReachInv, Reachable
  <1>9. QED
    BY <1>4, <1>8

LEMMA AuthClose ==
    ASSUME TypeInv, AuthInv, ReachInv, NEW s \in Sessions, CloseStep(s)
    PROVE  AuthInv' /\ ReachInv'
  <1>1. /\ UNCHANGED <<user_uid, authed, told, closes, msg_que, wpc, rt_error>>
        /\ closes[s] > 0
    BY DEF CloseStep, CloseFind, CloseRemove, CloseErase, CloseReadCount, CloseThrow,
           CloseWriteCount, CloseSocket, userVars, logicVars, AuthInv
  <1>2. CASE CloseRemove(s)
    <2>1. /\ cpc[s] = "remove" /\ cpc' = [cpc EXCEPT ![s] = "erase"]
          /\ \A u \in Uids : m_uids'[u] = IF u = ctmp[s] THEN NoSession ELSE m_uids[u]
      BY <1>2 DEF CloseRemove, removeUserSession
    <2>2. ctmp' = [ctmp EXCEPT ![s] = 0]
      BY <1>2 DEF CloseRemove
    <2>3. AuthInv'
      BY <1>1, <2>1, <2>2
         DEF TypeInv, TypeOK, CloseTypes, AuthInv, BoundOnlyIfAuthenticated,
             LoginAccepted, Request
    <2>4. ASSUME NEW t \in Sessions, NEW u \in Uids, Reachable(t, u), <<t, u>> \in authed
          PROVE  Reachable(t, u)'
      <3>1. CASE u = ctmp[s]
        <4>1. <<s, u>> \in authed
          BY <3>1, <2>1 DEF AuthInv
        <4>2. s # t => ~(\A r \in Sessions \ {t} : <<r, u>> \notin authed)
          BY <4>1
        <4>3. s = t => closes'[t] # 0
          BY <1>1 DEF TypeInv, TypeOK, CloseTypes
        <4>4. QED
          BY <1>1, <4>2, <4>3 DEF Reachable
      <3>2. CASE u # ctmp[s]
        BY <1>1, <2>1, <2>4, <3>2 DEF Reachable
      <3>3. QED
        BY <3>1, <3>2
    <2>5. (LoginAccepted /\ wpc = "reply") => /\ Request.sess \in Sessions
                                              /\ Request.uid \in Uids
      BY RequestTyped DEF LoginAccepted, TypeInv, TypeOK, HandlerInv
    <2>6. ReachInv'
      BY <1>1, <2>4, <2>5 DEF ReachInv, AuthInv, LoginAccepted, Request, Reachable
    <2>7. QED
      BY <2>3, <2>6
  <1>3. CASE ~CloseRemove(s)
    <2>1. UNCHANGED m_uids
      BY <1>3 DEF CloseStep, CloseFind, CloseErase, CloseReadCount, CloseThrow,
                  CloseWriteCount, CloseSocket, userVars
    <2>2. /\ \A t \in Sessions \ {s} : cpc'[t] = cpc[t] /\ ctmp'[t] = ctmp[t]
          /\ cpc'[s] = "remove" => ctmp'[s] = user_uid[s]
          /\ cpc[s] # "run"
      BY <1>3 DEF CloseStep, CloseFind, CloseErase, CloseReadCount, CloseThrow,
                  CloseWriteCount, CloseSocket, TypeInv, TypeOK, CloseTypes
    <2>3. AuthInv'
      BY <1>1, <2>1, <2>2 DEF AuthInv, BoundOnlyIfAuthenticated, LoginAccepted, Request
    <2>4. ReachInv'
      BY <1>1, <2>1 DEF ReachInv, Reachable, LoginAccepted, Request
    <2>5. QED
      BY <2>3, <2>4
  <1>4. QED
    BY <1>2, <1>3

LEMMA AuthHandlers ==
    ASSUME TypeInv, AuthInv, ReachInv, DropMsg \/ LoginHandler \/ SearchInfo \/ Crash
    PROVE  AuthInv' /\ ReachInv'
  <1>1. UNCHANGED <<user_uid, m_uids, told, closes, cpc, ctmp>> /\ authed \subseteq authed'
    BY DEF DropMsg, LoginHandler, SearchInfo, Crash, userVars, closeVars
  <1>2. \A t \in Sessions, u \in Uids : Reachable(t, u) => Reachable(t, u)'
    BY <1>1 DEF Reachable
  <1>3. ~(LoginAccepted /\ wpc = "reply")'
    BY DEF DropMsg, LoginHandler, SearchInfo, Crash, DealMsg, LoginAccepted, Request
  <1>4. ReachInv'
    BY <1>1, <1>2, <1>3 DEF ReachInv
  <1>5. (wpc' \notin {"wait", "dead"} /\ Request'.kind = "login") =>
           /\ LoginHandler /\ UNCHANGED Request
           /\ rt_error' = "Success" => <<Request.sess, Request.uid>> \in authed'
           /\ wpc' # "reply" => rt_error' = "Success"
    <2>1. ASSUME LoginHandler, rt_error' = "Success"
          PROVE  <<Request.sess, Request.uid>> \in authed'
      <3>1. utoken[Request.uid] \notin {0} /\ utoken[Request.uid] = Request.token
        BY <2>1 DEF LoginHandler, CheckToken
      <3>2. QED
        BY <2>1, <3>1 DEF LoginHandler
    <2>2. QED
      BY <2>1 DEF DropMsg, LoginHandler, SearchInfo, Crash, DealMsg, Request
  <1>6. AuthInv'
    BY <1>1, <1>5 DEF AuthInv, BoundOnlyIfAuthenticated, LoginAccepted, Request
  <1>7. QED
    BY <1>4, <1>6

LEMMA AuthCounting ==
    ASSUME TypeInv, AuthInv, ReachInv, ReadCount \/ WriteCount
    PROVE  AuthInv' /\ ReachInv'
  <1>1. /\ UNCHANGED <<user_uid, m_uids, authed, told, closes, cpc, ctmp, msg_que, rt_error>>
        /\ wpc \in {"hget", "hset"}
        /\ wpc' = "reply" => Request.kind # "login"
    BY DEF ReadCount, WriteCount, userVars, closeVars
  <1>2. AuthInv'
    BY <1>1 DEF ReadCount, WriteCount, AuthInv, BoundOnlyIfAuthenticated, LoginAccepted, Request
  <1>3. ReachInv'
    BY <1>1 DEF ReachInv, Reachable, LoginAccepted, Request
  <1>4. QED
    BY <1>2, <1>3

LEMMA AuthBinding ==
    ASSUME TypeInv, AuthInv, ReachInv, SetUserId \/ setUserSession
    PROVE  AuthInv' /\ ReachInv'
  <1> DEFINE rs == Request.sess
             ru == Request.uid
  <1>1. /\ rs \in Sessions /\ ru \in Uids /\ Request.kind = "login"
        /\ LoginAccepted /\ <<rs, ru>> \in authed
    BY RequestTyped DEF SetUserId, setUserSession, TypeInv, TypeOK, HandlerInv,
                        AuthInv, LoginAccepted
  <1>2. UNCHANGED <<authed, told, closes, cpc, ctmp, msg_que, rt_error, Request>>
    BY DEF SetUserId, setUserSession, closeVars, Request
  <1>3. CASE SetUserId
    <2>1. /\ user_uid' = [user_uid EXCEPT ![rs] = ru] /\ UNCHANGED m_uids
          /\ wpc = "setuid" /\ wpc' = "bind"
      BY <1>3 DEF SetUserId
    <2> HIDE DEF rs, ru
    <2>2. \A t \in Sessions, u \in Uids : user_uid'[t] = u => <<t, u>> \in authed
      BY <1>1, <2>1 DEF AuthInv, TypeInv, TypeOK, UserTypes
    <2>3. AuthInv'
      BY <1>1, <1>2, <2>1, <2>2 DEF AuthInv, BoundOnlyIfAuthenticated, LoginAccepted
    <2>4. ReachInv'
      BY <1>2, <2>1 DEF ReachInv, Reachable, LoginAccepted
    <2>5. QED
      BY <2>3, <2>4
  <1>4. CASE setUserSession
    <2>1. /\ m_uids' = [m_uids EXCEPT ![ru] = rs] /\ UNCHANGED user_uid
          /\ wpc = "bind" /\ wpc' = "reply"
      BY <1>4 DEF setUserSession
    <2>2. rs = Request.sess /\ ru = Request.uid
      OBVIOUS
    <2> HIDE DEF rs, ru
    <2>3. /\ m_uids'[ru] = rs
          /\ \A u \in Uids : u # ru => m_uids'[u] = m_uids[u]
      BY <1>1, <2>1 DEF TypeInv, TypeOK, UserTypes
    <2>4. AuthInv'
      BY <1>1, <1>2, <2>1, <2>3 DEF AuthInv, BoundOnlyIfAuthenticated, LoginAccepted
    <2>5. ASSUME NEW t \in Sessions, NEW u \in Uids, Reachable(t, u)
          PROVE  Reachable(t, u)'
      BY <1>1, <1>2, <2>3, <2>5 DEF Reachable
    <2>6. ReachInv'
      BY <1>2, <2>2, <2>3, <2>5 DEF ReachInv, Reachable, LoginAccepted
    <2>7. QED
      BY <2>4, <2>6
  <1>5. QED
    BY <1>3, <1>4

LEMMA AuthReply ==
    ASSUME TypeInv, AuthInv, ReachInv, Reply
    PROVE  AuthInv' /\ ReachInv'
  <1>1. /\ UNCHANGED <<user_uid, m_uids, authed, closes, cpc, ctmp>>
        /\ wpc = "reply" /\ wpc' = "wait"
    BY DEF Reply, closeVars
  <1>2. \/ told' = told
        \/ told' = told \cup {<<Request.sess, Request.uid>>} /\ LoginAccepted
    BY <1>1 DEF Reply, LoginAccepted
  <1>3. AuthInv'
    BY <1>1, <1>2 DEF AuthInv, BoundOnlyIfAuthenticated, LoginAccepted
  <1>4. ReachInv'
    BY <1>1, <1>2 DEF ReachInv, Reachable, LoginAccepted
  <1>5. QED
    BY <1>3, <1>4

LEMMA AuthNext == TypeInv /\ AuthInv /\ ReachInv /\ [Next]_vars => AuthInv' /\ ReachInv'
  <1> SUFFICES ASSUME TypeInv, AuthInv, ReachInv, [Next]_vars PROVE AuthInv' /\ ReachInv'
    OBVIOUS
  <1>1. ASSUME \/ \E u \in Users : IssueToken(u)
               \/ InsertSession
               \/ UNCHANGED vars
        PROVE  AuthInv' /\ ReachInv'
    <2>1. UNCHANGED <<user_uid, m_uids, authed, told, closes, cpc, ctmp, msg_que, wpc, rt_error>>
      BY <1>1 DEF IssueToken, InsertSession, vars, userVars, closeVars, logicVars
    <2>2. AuthInv'
      BY <2>1 DEF AuthInv, BoundOnlyIfAuthenticated, LoginAccepted, Request
    <2>3. ReachInv'
      BY <2>1 DEF ReachInv, Reachable, LoginAccepted, Request
    <2>4. QED
      BY <2>2, <2>3
  <1>2. CASE Worker \/ Crash
    BY <1>2, AuthHandlers, AuthCounting, AuthBinding, AuthReply DEF Worker
  <1>3. ASSUME NEW s \in Sessions,
               \/ Disconnect(s) \/ StartSession(s) \/ Receive(s) \/ BadHeader(s)
               \/ ReadError(s) \/ WriteOk(s) \/ WriteError(s) \/ CloseStep(s)
        PROVE  AuthInv' /\ ReachInv'
    BY <1>3, AuthConn, AuthClose
  <1>4. QED
    BY <1>1, <1>2, <1>3 DEF Next, Step, Idle

LEMMA AuthAlways == Spec => [](AuthInv /\ ReachInv)
  <1>1. QED
    BY TypeInit, TypeNext, AuthInit, AuthNext, PTL DEF Spec

\* m_uids gives for a uid only a session on which that uid's token was presented.
THEOREM Authenticated == Spec => []BoundOnlyIfAuthenticated
  <1>1. AuthInv => BoundOnlyIfAuthenticated
    BY DEF AuthInv
  <1>2. QED
    BY <1>1, AuthAlways, PTL

\* Whoever was told Success and shares the uid with nobody is found by m_uids
\* until its own session begins to Close, whatever other sessions do.
THEOREM ReachableAfterLogin == Spec => []LoggedInIsReachable
  <1>1. ReachInv => LoggedInIsReachable
    BY DEF ReachInv, Reachable, LoggedInIsReachable
  <1>2. QED
    BY <1>1, AuthAlways, PTL

-----------------------------------------------------------------------------
(* login_count without overlapping updates *)

\* While no update overlapped another and Redis answered every call, at most
\* one thread is between HGet and HSet, and it holds the current count.
CountInv ==
    (~raced /\ faults = 0) =>
        /\ login_count = tally
        /\ \A s \in Sessions : cpc[s] = "hset" =>
             /\ ctmp[s] = login_count
             /\ wpc # "hset"
             /\ \A t \in Sessions \ {s} : cpc[t] # "hset"
        /\ wpc = "hset" => wtmp = login_count

LEMMA CountInit == Init => CountInv
  BY DEF Init, CountInv

\* Steps that neither read nor write the count.
LEMMA CountElsewhere ==
    ASSUME TypeInv, CountInv, UNCHANGED countVars,
           wpc' = "hset" => wpc = "hset", wtmp' = wtmp, faults = 0 \/ faults' # 0,
           \A s \in Sessions : cpc'[s] = "hset" => cpc[s] = "hset" /\ ctmp'[s] = ctmp[s]
    PROVE  CountInv'
  BY DEF CountInv, countVars

LEMMA CountClose ==
    ASSUME TypeInv, CountInv, NEW s \in Sessions, CloseStep(s)
    PROVE  CountInv'
  <1> USE DEF TypeInv, TypeOK
  <1>1. CASE CloseReadCount(s)
    <2>1. PICK v \in {0, login_count} : HGet(v) /\ ctmp' = [ctmp EXCEPT ![s] = v]
      BY <1>1 DEF CloseReadCount
    <2>2. /\ cpc[s] = "hget" /\ cpc' = [cpc EXCEPT ![s] = "hset"]
          /\ UNCHANGED <<login_count, tally, wpc, wtmp>> /\ BeginUpdate
      BY <1>1 DEF CloseReadCount, logicVars
    <2>3. SUFFICES ASSUME ~raced', faults' = 0 PROVE CountInv'
      BY DEF CountInv
    <2>4. /\ ~raced /\ wpc # "hset" /\ \A t \in Sessions : cpc[t] # "hset"
      BY <2>2, <2>3 DEF BeginUpdate, Updating
    <2>5. faults = 0 /\ v = login_count
      BY <2>1, <2>3 DEF HGet, Fault, NoFault, BudgetTypes
    <2>6. QED
      BY <2>1, <2>2, <2>4, <2>5 DEF CountInv, CloseTypes
  <1>2. CASE CloseWriteCount(s)
    <2>1. /\ cpc[s] = "hset" /\ cpc' = [cpc EXCEPT ![s] = "shut"]
          /\ ctmp' = [ctmp EXCEPT ![s] = 0]
          /\ UNCHANGED <<raced, wpc, wtmp>>
          /\ tally' = IF tally = 0 THEN 0 ELSE tally - 1
          /\ HSet(Decrement(ctmp[s]))
      BY <1>2 DEF CloseWriteCount, logicVars
    <2>2. SUFFICES ASSUME ~raced, faults' = 0 PROVE CountInv'
      BY <2>1 DEF CountInv
    <2>3. faults = 0 /\ login_count' = Decrement(ctmp[s])
      BY <2>1, <2>2 DEF HSet, Fault, NoFault, BudgetTypes
    <2>4. ctmp[s] = tally /\ wpc # "hset" /\ \A t \in Sessions \ {s} : cpc[t] # "hset"
      BY <2>1, <2>2, <2>3 DEF CountInv
    <2>5. login_count' = tally'
      BY <2>1, <2>3, <2>4 DEF Decrement, CountTypes
    <2>6. QED
      BY <2>1, <2>4, <2>5 DEF CountInv, CloseTypes
  <1>3. CASE CloseFind(s) \/ CloseRemove(s) \/ CloseErase(s) \/ CloseSocket(s)
             \/ CloseThrow(s)
    <2>1. faults = 0 \/ faults' # 0
      BY <1>3 DEF CloseFind, CloseRemove, CloseErase, CloseSocket, CloseThrow, Fault,
                  BudgetTypes
    <2>2. QED
      BY <1>3, <2>1, CountElsewhere
         DEF CloseFind, CloseRemove, CloseErase, CloseSocket, CloseThrow, logicVars,
             CloseTypes
  <1>4. QED
    BY <1>1, <1>2, <1>3 DEF CloseStep

LEMMA CountWorker ==
    ASSUME TypeInv, CountInv, Worker \/ Crash
    PROVE  CountInv'
  <1> USE DEF TypeInv, TypeOK
  <1>1. CASE ReadCount
    <2>1. PICK v \in {0, login_count} : HGet(v) /\ wtmp' = v
      BY <1>1 DEF ReadCount
    <2>2. /\ wpc = "hget" /\ wpc' = "hset" /\ BeginUpdate
          /\ UNCHANGED <<login_count, tally, cpc, ctmp>>
      BY <1>1 DEF ReadCount, closeVars
    <2>3. SUFFICES ASSUME ~raced', faults' = 0 PROVE CountInv'
      BY DEF CountInv
    <2>4. ~raced /\ \A t \in Sessions : cpc[t] # "hset"
      BY <2>2, <2>3 DEF BeginUpdate, Updating
    <2>5. faults = 0 /\ v = login_count
      BY <2>1, <2>3 DEF HGet, Fault, NoFault, BudgetTypes
    <2>6. QED
      BY <2>1, <2>2, <2>4, <2>5 DEF CountInv
  <1>2. CASE WriteCount
    <2>1. /\ wpc = "hset" /\ wpc' # "hset"
          /\ UNCHANGED <<raced, cpc, ctmp>>
          /\ tally' = tally + 1 /\ HSet(Increment(wtmp))
      BY <1>2 DEF WriteCount, closeVars
    <2>2. SUFFICES ASSUME ~raced, faults' = 0 PROVE CountInv'
      BY <2>1 DEF CountInv
    <2>3. faults = 0 /\ login_count' = wtmp + 1
      BY <2>1, <2>2 DEF HSet, Increment, Fault, NoFault, BudgetTypes
    <2>4. wtmp = tally /\ \A t \in Sessions : cpc[t] # "hset"
      BY <2>1, <2>2, <2>3 DEF CountInv
    <2>5. QED
      BY <2>1, <2>3, <2>4 DEF CountInv
  <1>3. CASE \/ DropMsg \/ LoginHandler \/ SearchInfo \/ SetUserId
             \/ setUserSession \/ Reply \/ Crash
    <2>1. UNCHANGED <<countVars, cpc, ctmp, wtmp>> /\ wpc' # "hset"
      BY <1>3 DEF DropMsg, DealMsg, LoginHandler, SearchInfo, SetUserId,
                  setUserSession, Reply, Crash, closeVars
    <2>2. faults = 0 \/ faults' # 0
      BY <1>3 DEF DropMsg, LoginHandler, SearchInfo, SetUserId, setUserSession,
                  Reply, Crash, HandlerCrash, FindCrash, Fault, NoFault, BudgetTypes
    <2>3. QED
      BY <2>1, <2>2, CountElsewhere
  <1>4. QED
    BY <1>1, <1>2, <1>3 DEF Worker

LEMMA CountNext == TypeInv /\ CountInv /\ [Next]_vars => CountInv'
  <1> SUFFICES ASSUME TypeInv, CountInv, [Next]_vars PROVE CountInv'
    OBVIOUS
  <1>1. ASSUME \/ \E u \in Users : IssueToken(u)
               \/ InsertSession
               \/ UNCHANGED vars
               \/ \E s \in Sessions : \/ Disconnect(s) \/ StartSession(s) \/ Receive(s)
                                      \/ BadHeader(s) \/ WriteOk(s)
                                      \/ ReadError(s) \/ WriteError(s)
        PROVE  CountInv'
    <2>1. UNCHANGED <<countVars, wpc, wtmp, faults, ctmp>>
      BY <1>1 DEF IssueToken, InsertSession, vars, Disconnect, StartSession, Receive,
                  PostMsgToQue, BadHeader, WriteOk, ReadError, WriteError,
                  closeVars, logicVars
    <2>2. \A s \in Sessions : cpc'[s] = "hset" => cpc[s] = "hset"
      BY <1>1 DEF IssueToken, InsertSession, vars, Disconnect, StartSession, Receive,
                  PostMsgToQue, BadHeader, WriteOk, ReadError, WriteError, Close,
                  closeVars, TypeInv, TypeOK, CloseTypes
    <2>3. QED
      BY <2>1, <2>2, CountElsewhere
  <1>2. QED
    BY <1>1, CountClose, CountWorker DEF Next, Step, Idle

\* Without overlap and without failures, login_count is what atomic updates
\* give, for any number of sessions and any order of logins, searches and
\* disconnects.
THEOREM CountExact == Spec => []CountExactWithoutOverlap
  <1>1. CountInv => CountExactWithoutOverlap
    BY DEF CountInv, CountExactWithoutOverlap
  <1>2. QED
    BY <1>1, TypeInit, TypeNext, CountInit, CountNext, PTL DEF Spec

-----------------------------------------------------------------------------
(* login_count when Redis fails *)

\* What a thread holds between HGet and HSet is no more than what the count may be,
\* and while no update overlapped another only one thread holds anything.
FailInv ==
    ~raced =>
        /\ login_count <= tally + faults
        /\ \A s \in Sessions : cpc[s] = "hset" =>
             /\ ctmp[s] <= tally + faults
             /\ wpc # "hset"
             /\ \A t \in Sessions \ {s} : cpc[t] # "hset"
        /\ wpc = "hset" => wtmp <= tally + faults

LEMMA FailInit == Init => FailInv
  BY DEF Init, FailInv

\* Steps that neither read nor write the count.
LEMMA FailElsewhere ==
    ASSUME TypeInv, FailInv, UNCHANGED countVars, faults' \in Nat, faults <= faults',
           wpc' = "hset" => wpc = "hset", wtmp' = wtmp,
           \A s \in Sessions : cpc'[s] = "hset" => cpc[s] = "hset" /\ ctmp'[s] = ctmp[s]
    PROVE  FailInv'
  BY DEF FailInv, countVars, TypeInv, TypeOK, CountTypes, BudgetTypes, CloseTypes,
         LogicTypes

\* A step costs a failure or none.
LEMMA FaultsGrow ==
    ASSUME TypeInv, Fault \/ NoFault
    PROVE  faults' \in Nat /\ faults <= faults'
  BY DEF Fault, NoFault, TypeInv, TypeOK, BudgetTypes

LEMMA Chain ==
    ASSUME NEW v \in Nat, NEW n \in Nat, NEW t \in Nat, NEW f \in Nat, NEW g \in Nat,
           v <= n, n <= t + f, f <= g
    PROVE  v <= t + g /\ n <= t + g
  OBVIOUS

LEMMA FailClose ==
    ASSUME TypeInv, FailInv, NEW s \in Sessions, CloseStep(s)
    PROVE  FailInv'
  <1> USE DEF TypeInv, TypeOK
  <1>1. CASE CloseReadCount(s)
    <2>1. PICK v \in {0, login_count} : HGet(v) /\ ctmp' = [ctmp EXCEPT ![s] = v]
      BY <1>1 DEF CloseReadCount
    <2>2. /\ cpc[s] = "hget" /\ cpc' = [cpc EXCEPT ![s] = "hset"]
          /\ UNCHANGED <<login_count, tally, wpc, wtmp>> /\ BeginUpdate
      BY <1>1 DEF CloseReadCount, logicVars
    <2>3. SUFFICES ASSUME ~raced' PROVE FailInv'
      BY DEF FailInv
    <2>4. /\ ~raced /\ wpc # "hset" /\ \A t \in Sessions : cpc[t] # "hset"
      BY <2>2, <2>3 DEF BeginUpdate, Updating
    <2>5. faults' \in Nat /\ faults <= faults' /\ faults \in Nat
      BY <2>1, FaultsGrow DEF HGet, BudgetTypes
    <2>6. v \in Nat /\ v <= login_count /\ login_count <= tally + faults
      BY <2>1, <2>4 DEF FailInv, CountTypes
    <2>7. tally \in Nat /\ login_count \in Nat
      BY DEF CountTypes
    <2>8. v <= tally + faults' /\ login_count <= tally + faults'
      BY ONLY <2>5, <2>6, <2>7, Chain
    <2>9. ctmp'[s] = v /\ \A t \in Sessions \ {s} : cpc'[t] # "hset"
      BY <2>1, <2>2, <2>4 DEF CloseTypes
    <2>10. QED
      BY <2>2, <2>4, <2>8, <2>9 DEF FailInv
  <1>2. CASE CloseWriteCount(s)
    <2>1. /\ cpc[s] = "hset" /\ cpc' = [cpc EXCEPT ![s] = "shut"]
          /\ ctmp' = [ctmp EXCEPT ![s] = 0]
          /\ UNCHANGED <<raced, wpc, wtmp>>
          /\ tally' = IF tally = 0 THEN 0 ELSE tally - 1
          /\ HSet(Decrement(ctmp[s]))
      BY <1>2 DEF CloseWriteCount, logicVars
    <2>2. SUFFICES ASSUME ~raced PROVE FailInv'
      BY <2>1 DEF FailInv
    <2>3. /\ ctmp[s] <= tally + faults /\ login_count <= tally + faults
          /\ wpc # "hset" /\ \A t \in Sessions \ {s} : cpc[t] # "hset"
      BY <2>1, <2>2 DEF FailInv
    <2>4. ctmp[s] \in Nat /\ tally \in Nat /\ login_count \in Nat /\ faults \in Nat
      BY DEF CloseTypes, CountTypes, BudgetTypes
    <2>5. \/ login_count' = Decrement(ctmp[s]) /\ faults' = faults
          \/ login_count' = login_count /\ faults' = faults + 1
      BY <2>1 DEF HSet, Fault, NoFault
    <2>6. login_count' <= tally' + faults'
      BY <2>1, <2>3, <2>4, <2>5 DEF Decrement
    <2>7. \A t \in Sessions : cpc'[t] # "hset"
      BY <2>1, <2>3 DEF CloseTypes
    <2>8. QED
      BY <2>1, <2>3, <2>6, <2>7 DEF FailInv
  <1>3. CASE CloseFind(s) \/ CloseRemove(s) \/ CloseErase(s) \/ CloseSocket(s)
             \/ CloseThrow(s)
    <2>1. /\ UNCHANGED <<countVars, wpc, wtmp>>
          /\ \A t \in Sessions : cpc'[t] = "hset" => cpc[t] = "hset" /\ ctmp'[t] = ctmp[t]
      BY <1>3 DEF CloseFind, CloseRemove, CloseErase, CloseSocket, CloseThrow, logicVars,
                  CloseTypes
    <2>2. faults' \in Nat /\ faults <= faults'
      BY <1>3 DEF CloseFind, CloseRemove, CloseErase, CloseSocket, CloseThrow, Fault,
                  BudgetTypes
    <2>3. QED
      BY <2>1, <2>2, FailElsewhere
  <1>4. QED
    BY <1>1, <1>2, <1>3 DEF CloseStep

LEMMA FailWorker ==
    ASSUME TypeInv, FailInv, Worker \/ Crash
    PROVE  FailInv'
  <1> USE DEF TypeInv, TypeOK
  <1>0. tally \in Nat /\ login_count \in Nat /\ faults \in Nat /\ wtmp \in Nat
    BY DEF CountTypes, BudgetTypes, LogicTypes
  <1>1. CASE ReadCount
    <2>1. PICK v \in {0, login_count} : HGet(v) /\ wtmp' = v
      BY <1>1 DEF ReadCount
    <2>2. /\ wpc = "hget" /\ wpc' = "hset" /\ BeginUpdate
          /\ UNCHANGED <<login_count, tally, cpc, ctmp>>
      BY <1>1 DEF ReadCount, closeVars
    <2>3. SUFFICES ASSUME ~raced' PROVE FailInv'
      BY DEF FailInv
    <2>4. ~raced /\ \A t \in Sessions : cpc[t] # "hset"
      BY <2>2, <2>3 DEF BeginUpdate, Updating
    <2>5. faults' \in Nat /\ faults <= faults'
      BY <2>1, FaultsGrow DEF HGet
    <2>6. wtmp' \in Nat /\ wtmp' <= login_count /\ login_count <= tally + faults
      BY <1>0, <2>1, <2>4 DEF FailInv
    <2>7. wtmp' <= tally + faults' /\ login_count <= tally + faults'
      BY ONLY <1>0, <2>5, <2>6, Chain
    <2>8. QED
      BY <2>2, <2>4, <2>7 DEF FailInv
  <1>2. CASE WriteCount
    <2>1. /\ wpc = "hset" /\ wpc' # "hset"
          /\ UNCHANGED <<raced, cpc, ctmp>>
          /\ tally' = tally + 1 /\ HSet(Increment(wtmp))
      BY <1>2 DEF WriteCount, closeVars
    <2>2. SUFFICES ASSUME ~raced PROVE FailInv'
      BY <2>1 DEF FailInv
    <2>3. /\ wtmp <= tally + faults /\ login_count <= tally + faults
          /\ \A t \in Sessions : cpc[t] # "hset"
      BY <2>1, <2>2 DEF FailInv
    <2>4. \/ login_count' = wtmp + 1 /\ faults' = faults
          \/ login_count' = login_count /\ faults' = faults + 1
      BY <2>1 DEF HSet, Increment, Fault, NoFault
    <2>5. login_count' <= tally' + faults'
      BY <1>0, <2>1, <2>3, <2>4
    <2>6. QED
      BY <2>1, <2>3, <2>5 DEF FailInv
  <1>3. CASE \/ DropMsg \/ LoginHandler \/ SearchInfo \/ SetUserId
             \/ setUserSession \/ Reply \/ Crash
    <2>1. UNCHANGED <<countVars, cpc, ctmp, wtmp>> /\ wpc' # "hset"
      BY <1>3 DEF DropMsg, DealMsg, LoginHandler, SearchInfo, SetUserId,
                  setUserSession, Reply, Crash, closeVars
    <2>2. faults' \in Nat /\ faults <= faults'
      BY <1>0, <1>3, FaultsGrow
         DEF DropMsg, LoginHandler, SearchInfo, SetUserId, setUserSession, Reply, Crash,
             HandlerCrash, FindCrash
    <2>3. QED
      BY <2>1, <2>2, FailElsewhere
  <1>4. QED
    BY <1>1, <1>2, <1>3 DEF Worker

LEMMA FailNext == TypeInv /\ FailInv /\ [Next]_vars => FailInv'
  <1> SUFFICES ASSUME TypeInv, FailInv, [Next]_vars PROVE FailInv'
    OBVIOUS
  <1>1. ASSUME \/ \E u \in Users : IssueToken(u)
               \/ InsertSession
               \/ UNCHANGED vars
               \/ \E s \in Sessions : \/ Disconnect(s) \/ StartSession(s) \/ Receive(s)
                                      \/ BadHeader(s) \/ WriteOk(s)
                                      \/ ReadError(s) \/ WriteError(s)
        PROVE  FailInv'
    <2>1. UNCHANGED <<countVars, wpc, wtmp, faults, ctmp>>
      BY <1>1 DEF IssueToken, InsertSession, vars, Disconnect, StartSession, Receive,
                  PostMsgToQue, BadHeader, WriteOk, ReadError, WriteError,
                  closeVars, logicVars
    <2>2. \A s \in Sessions : cpc'[s] = "hset" => cpc[s] = "hset"
      BY <1>1 DEF IssueToken, InsertSession, vars, Disconnect, StartSession, Receive,
                  PostMsgToQue, BadHeader, WriteOk, ReadError, WriteError, Close,
                  closeVars, TypeInv, TypeOK, CloseTypes
    <2>3. QED
      BY <2>1, <2>2, FailElsewhere DEF TypeInv, TypeOK, BudgetTypes
  <1>2. QED
    BY <1>1, FailClose, FailWorker DEF Next, Step, Idle

\* Each failure of Redis makes login_count too large by one at most, for any number
\* of sessions and failures.
THEOREM CountBounded == Spec => []CountNotInflated
  <1>1. FailInv => CountNotInflated
    BY DEF FailInv, CountNotInflated
  <1>2. QED
    BY <1>1, TypeInit, TypeNext, FailInit, FailNext, PTL DEF Spec

-----------------------------------------------------------------------------
(* What Close leaves behind in m_uids *)

Excused(s, u) == s \in late \/ s \in missed \/ user_uid[s] # u

\* The first Close of s is past removeUserSession.
PastRemove(s) == closes[s] > 1 \/ (closes[s] = 1 /\ cpc[s] \notin {"find", "remove"})

\* Between the read of user_uid and the erase, the entry under the uid that was
\* read is still to go; every other entry of s is excused already.
UnboundInv ==
    \A s \in Sessions, u \in Uids : m_uids[u] = s =>
        /\ PastRemove(s) => Excused(s, u)
        /\ (cpc[s] = "remove" /\ ctmp[s] # u) => Excused(s, u)

LEMMA UnboundInit == Init => UnboundInv
  BY DEF Init, UnboundInv, Sessions, NoSession

\* Excuses and bindings are kept by steps that neither bind nor close.
LEMMA UnboundElsewhere ==
    ASSUME TypeInv, UnboundInv, UNCHANGED <<userVars, cpc, ctmp, closes, missed>>
    PROVE  UnboundInv'
  BY DEF UnboundInv, PastRemove, Excused, userVars

LEMMA UnboundBegin ==
    ASSUME TypeInv, UnboundInv, NEW s \in Sessions, Close(s), IoIdle(s),
           UNCHANGED <<userVars, ctmp, missed>>
    PROVE  UnboundInv'
  <1>1. cpc[s] = "run" /\ cpc' = [cpc EXCEPT ![s] = "find"]
    BY DEF IoIdle, Close
  <1>2. closes[s] \in Nat /\ closes' = [closes EXCEPT ![s] = closes[s] + 1]
    BY DEF TypeInv, TypeOK, CloseTypes, Close
  <1>3. PastRemove(s)' => PastRemove(s)
    BY <1>1, <1>2 DEF PastRemove, TypeInv, TypeOK, CloseTypes
  <1>4. \A t \in Sessions \ {s} : (PastRemove(t)' <=> PastRemove(t)) /\ cpc'[t] = cpc[t]
    BY <1>1, <1>2 DEF PastRemove, TypeInv, TypeOK, CloseTypes
  <1>5. cpc'[s] # "remove"
    BY <1>1 DEF TypeInv, TypeOK, CloseTypes
  <1>6. QED
    BY <1>3, <1>4, <1>5 DEF UnboundInv, Excused, userVars

LEMMA UnboundClose ==
    ASSUME TypeInv, AuthInv, UnboundInv, NEW s \in Sessions, CloseStep(s)
    PROVE  UnboundInv'
  <1> USE DEF TypeInv, TypeOK
  <1>1. /\ UNCHANGED <<user_uid, late, closes>> /\ missed \subseteq missed'
        /\ closes[s] \in Nat /\ closes[s] > 0 /\ cpc[s] # "run"
        /\ \A t \in Sessions \ {s} : cpc'[t] = cpc[t] /\ ctmp'[t] = ctmp[t]
        /\ \A u \in Uids : m_uids'[u] = m_uids[u] \/ m_uids'[u] = NoSession
    BY DEF CloseStep, CloseFind, CloseRemove, CloseErase, CloseReadCount, CloseThrow,
           CloseWriteCount, CloseSocket, removeUserSession, userVars, CloseTypes, AuthInv
  <1>2. \A t \in Sessions \ {s}, u \in Uids : m_uids'[u] = t =>
            /\ PastRemove(t)' => Excused(t, u)'
            /\ (cpc[t] = "remove" /\ ctmp[t] # u)' => Excused(t, u)'
    BY <1>1 DEF UnboundInv, PastRemove, Excused, Sessions, NoSession
  <1>3. SUFFICES ASSUME NEW u \in Uids, m_uids'[u] = s
                 PROVE  /\ PastRemove(s)' => Excused(s, u)'
                        /\ (cpc[s] = "remove" /\ ctmp[s] # u)' => Excused(s, u)'
    BY <1>2 DEF UnboundInv
  <1>4. m_uids[u] = s
    BY <1>1, <1>3 DEF Sessions, NoSession
  <1>5. CASE CloseFind(s)
    <2>1. \/ cpc'[s] = "remove" /\ ctmp'[s] = user_uid[s]
          \/ cpc'[s] = "erase" /\ (closes[s] = 1 => s \in missed')
      BY <1>5 DEF CloseFind, CloseTypes
    <2>2. closes[s] > 1 => Excused(s, u)
      BY <1>4 DEF UnboundInv, PastRemove
    <2>3. QED
      BY <1>1, <2>1, <2>2 DEF PastRemove, Excused
  <1>6. CASE CloseRemove(s)
    <2>1. cpc[s] = "remove" /\ cpc'[s] = "erase" /\ ctmp[s] # u
      BY <1>3, <1>6 DEF CloseRemove, removeUserSession, CloseTypes, Sessions, NoSession
    <2>2. Excused(s, u)
      BY <1>4, <2>1 DEF UnboundInv
    <2>3. QED
      BY <1>1, <2>1, <2>2 DEF Excused
  <1>7. CASE CloseErase(s) \/ CloseReadCount(s) \/ CloseThrow(s) \/ CloseWriteCount(s)
             \/ CloseSocket(s)
    <2>1. cpc[s] \notin {"find", "remove"} /\ cpc'[s] \notin {"find", "remove"}
      BY <1>7 DEF CloseErase, CloseReadCount, CloseThrow, CloseWriteCount, CloseSocket,
                  CloseTypes
    <2>2. PastRemove(s)
      BY <1>1, <2>1 DEF PastRemove
    <2>3. QED
      BY <1>1, <1>4, <2>1, <2>2 DEF UnboundInv, Excused
  <1>8. QED
    BY <1>5, <1>6, <1>7 DEF CloseStep

LEMMA UnboundBinding ==
    ASSUME TypeInv, AuthInv, UnboundInv, SetUserId \/ setUserSession
    PROVE  UnboundInv'
  <1>1. PICK rs \in Sessions, ru \in Uids : rs = Request.sess /\ ru = Request.uid
    BY RequestTyped DEF SetUserId, setUserSession, TypeInv, TypeOK, HandlerInv
  <1>2. /\ UNCHANGED <<cpc, ctmp, closes, missed>>
        /\ late' = IF closes[rs] > 0 THEN late \cup {rs} ELSE late
        /\ \/ user_uid' = [user_uid EXCEPT ![rs] = ru] /\ UNCHANGED m_uids
           \/ m_uids' = [m_uids EXCEPT ![ru] = rs] /\ UNCHANGED user_uid
    BY <1>1 DEF SetUserId, setUserSession, NoteLate, closeVars
  <1>3. \A t \in Sessions \ {rs}, u \in Uids :
            /\ m_uids'[u] = t => m_uids[u] = t
            /\ Excused(t, u) => Excused(t, u)'
    BY <1>1, <1>2 DEF Excused, TypeInv, TypeOK, UserTypes
  <1>4. closes[rs] > 0 => rs \in late'
    BY <1>2
  <1>5. closes[rs] \in Nat /\ (PastRemove(rs) \/ cpc[rs] = "remove" => closes[rs] > 0)
    BY <1>1 DEF PastRemove, AuthInv, TypeInv, TypeOK, CloseTypes
  <1>6. \A u \in Uids : PastRemove(rs) \/ cpc[rs] = "remove" => Excused(rs, u)'
    BY <1>4, <1>5 DEF Excused
  <1>7. \A t \in Sessions : PastRemove(t)' <=> PastRemove(t)
    BY <1>2 DEF PastRemove
  <1>8. QED
    BY <1>2, <1>3, <1>6, <1>7 DEF UnboundInv

LEMMA UnboundNext ==
    TypeInv /\ AuthInv /\ UnboundInv /\ [Next]_vars => UnboundInv'
  <1> SUFFICES ASSUME TypeInv, AuthInv, UnboundInv, [Next]_vars PROVE UnboundInv'
    OBVIOUS
  <1>1. ASSUME \/ \E u \in Users : IssueToken(u)
               \/ InsertSession
               \/ UNCHANGED vars
               \/ DropMsg \/ SearchInfo \/ ReadCount \/ WriteCount \/ Crash
               \/ \E s \in Sessions : \/ Disconnect(s) \/ StartSession(s) \/ Receive(s)
                                      \/ BadHeader(s) \/ WriteOk(s)
        PROVE  UnboundInv'
    <2>1. UNCHANGED <<userVars, closeVars>>
      BY <1>1 DEF IssueToken, InsertSession, vars, DropMsg, SearchInfo, ReadCount,
                  WriteCount, Disconnect, StartSession, Receive, PostMsgToQue,
                  BadHeader, WriteOk, Crash
    <2>2. QED
      BY <2>1, UnboundElsewhere DEF closeVars
  <1>2. ASSUME LoginHandler \/ Reply PROVE UnboundInv'
    BY <1>2 DEF LoginHandler, Reply, UnboundInv, PastRemove, Excused, closeVars
  <1>3. ASSUME NEW s \in Sessions, ReadError(s) \/ WriteError(s) PROVE UnboundInv'
    BY <1>3, UnboundBegin DEF ReadError, WriteError
  <1>4. QED
    BY <1>1, <1>2, <1>3, UnboundClose, UnboundBinding DEF Next, Step, Idle, Worker

\* m_uids leads to a session that has been closed only when a login reached it
\* too late, Close missed it in m_sessions, or it changed its user.
THEOREM UnboundWhenClosed == Spec => []UnboundAfterClose
  <1>1. TypeInv /\ UnboundInv => UnboundAfterClose
    <2>1. ASSUME NEW n \in Nat, n > 0 PROVE n > 1 \/ n = 1
      BY <2>1
    <2>2. QED
      BY <2>1 DEF UnboundInv, PastRemove, Excused, UnboundAfterClose,
                  TypeInv, TypeOK, CloseTypes
  <1>2. QED
    BY <1>1, TypeInit, TypeNext, AuthInit, AuthNext, UnboundInit, UnboundNext, PTL DEF Spec

-----------------------------------------------------------------------------
(* What Close leaves behind in m_sessions, and how often it runs *)

\* A session that was not accepted has done nothing: every read, write and posted
\* message belongs to one that was.
StartedInv ==
    /\ \A s \in Sessions :
          sock[s] = "idle" => /\ closes[s] = 0 /\ rd[s] = "none" /\ wr[s] = "idle"
                              /\ s \notin m_sessions /\ accepting # s
    /\ \A i \in 1..Len(msg_que) : sock[msg_que[i].sess] # "idle"

\* While the insertion is still to come, the session is not in the table, and a first
\* Close that has searched for it has missed it.
EraseInv ==
    /\ \A s \in Sessions : accepting = s =>
          /\ s \notin m_sessions
          /\ \/ closes[s] = 0
             \/ closes[s] = 1 /\ cpc[s] = "find"
             \/ s \in missed
    /\ ClosedSessionErased

\* A Close that has begun used up the read or the write of the session.
BudgetInv ==
    \A s \in Sessions :
        closes[s] <= (IF rd[s] = "none" /\ sock[s] # "idle" THEN 1 ELSE 0)
                     + (IF wr[s] = "dead" THEN 1 ELSE 0)

CloseInv == StartedInv /\ EraseInv /\ BudgetInv

LEMMA CloseInit == Init => CloseInv
  BY DEF Init, CloseInv, StartedInv, EraseInv, BudgetInv, ClosedSessionErased, Sessions,
         NoSession

\* The session of the message that is handled was accepted.
LEMMA RequestStarted ==
    ASSUME TypeInv, StartedInv, msg_que # <<>>
    PROVE  Request.sess \in Sessions /\ sock[Request.sess] # "idle"
  <1>1. Len(msg_que) \in Nat /\ 1 \in 1..Len(msg_que) /\ Request = msg_que[1]
    BY DEF TypeInv, TypeOK, LogicTypes, Request
  <1>2. QED
    BY <1>1, RequestTyped DEF StartedInv, TypeInv, TypeOK

\* What is queued stays queued, or is one message more of s.
LEMMA QueuedStarted ==
    ASSUME TypeInv, StartedInv,
           \A s \in Sessions : sock[s] # "idle" => sock'[s] # "idle",
           \/ msg_que' = msg_que
           \/ msg_que # <<>> /\ msg_que' = Tail(msg_que)
           \/ \E s \in Sessions : \E m \in Requests(s) :
                 sock[s] # "idle" /\ msg_que' = Append(msg_que, m)
    PROVE  \A i \in 1..Len(msg_que') : sock'[msg_que'[i].sess] # "idle"
  <1> USE DEF TypeInv, TypeOK, LogicTypes
  <1>0. \A i \in 1..Len(msg_que) :
          msg_que[i].sess \in Sessions /\ sock'[msg_que[i].sess] # "idle"
    BY DEF StartedInv, Messages, Requests
  <1>1. CASE msg_que' = msg_que
    BY <1>0, <1>1
  <1>2. CASE msg_que # <<>> /\ msg_que' = Tail(msg_que)
    <2>1. Len(msg_que') = Len(msg_que) - 1 /\ Len(msg_que) \in Nat
          /\ \A i \in 1..Len(msg_que') : msg_que'[i] = msg_que[i + 1]
      BY <1>2
    <2>2. QED
      BY <1>0, <2>1
  <1>3. ASSUME NEW s \in Sessions, NEW m \in Requests(s),
               sock[s] # "idle", msg_que' = Append(msg_que, m)
        PROVE  \A i \in 1..Len(msg_que') : sock'[msg_que'[i].sess] # "idle"
    <2>1. m.sess = s
      BY DEF Requests
    <2>2. Len(msg_que') = Len(msg_que) + 1 /\ Len(msg_que) \in Nat
          /\ \A i \in 1..Len(msg_que') :
                (i \in 1..Len(msg_que) /\ msg_que'[i] = msg_que[i]) \/ msg_que'[i] = m
      BY <1>3
    <2>3. QED
      BY <1>0, <1>3, <2>1, <2>2
  <1>4. QED
    BY <1>1, <1>2, <1>3

\* The accept loop, the peer, and what touches neither table nor Close.
LEMMA CloseConn ==
    ASSUME TypeInv, CloseInv,
           \/ \E s \in Sessions : \/ Disconnect(s) \/ StartSession(s) \/ Receive(s)
                                  \/ BadHeader(s) \/ WriteOk(s)
           \/ InsertSession
    PROVE  CloseInv'
  <1> USE DEF TypeInv, TypeOK, ConnTypes, SendTypes, CloseTypes, CloseInv
  <1>0. NoSession \notin Sessions
    BY DEF Sessions, NoSession
  <1>1. ASSUME NEW s \in Sessions, Disconnect(s) PROVE CloseInv'
    BY <1>1 DEF Disconnect, StartedInv, EraseInv, BudgetInv, ClosedSessionErased,
                sendVars, closeVars, logicVars
  <1>2. ASSUME NEW s \in Sessions, StartSession(s) PROVE CloseInv'
    <2>1. /\ sock[s] = "idle" /\ sock' = [sock EXCEPT ![s] = "open"]
          /\ rd' = [rd EXCEPT ![s] = "armed"] /\ accepting' = s
          /\ UNCHANGED <<m_sessions, send_que, wr, cpc, closes, missed, msg_que>>
      BY <1>2 DEF StartSession, sendVars, closeVars, logicVars
    <2>2. StartedInv'
      <3>1. \A i \in 1..Len(msg_que') : sock'[msg_que'[i].sess] # "idle"
        BY <2>1, QueuedStarted
      <3>2. QED
        BY <2>1, <3>1, <1>2 DEF StartedInv, StartSession
    <2>3. EraseInv'
      BY <2>1 DEF StartedInv, EraseInv, ClosedSessionErased
    <2>4. BudgetInv'
      BY <2>1 DEF StartedInv, BudgetInv
    <2>5. QED
      BY <2>2, <2>3, <2>4
  <1>3. ASSUME NEW s \in Sessions, Receive(s) PROVE CloseInv'
    <2>1. PICK m \in Requests(s) : PostMsgToQue(s, m)
      BY <1>3 DEF Receive
    <2>2. /\ rd[s] = "armed" /\ rd'[s] # "none" /\ msg_que' = Append(msg_que, m)
          /\ \A t \in Sessions \ {s} : rd'[t] = rd[t]
          /\ UNCHANGED <<sock, accepting, m_sessions, wr, cpc, closes, missed>>
      BY <2>1 DEF PostMsgToQue, Started, sendVars, closeVars
    <2>3. sock[s] # "idle"
      BY <2>2 DEF StartedInv
    <2>4. StartedInv'
      <3>1. \A i \in 1..Len(msg_que') : sock'[msg_que'[i].sess] # "idle"
        BY <2>2, <2>3, QueuedStarted
      <3>2. QED
        BY <2>2, <2>3, <3>1 DEF StartedInv
    <2>5. EraseInv'
      BY <2>2 DEF EraseInv, ClosedSessionErased
    <2>6. BudgetInv'
      BY <2>2 DEF BudgetInv
    <2>7. QED
      BY <2>4, <2>5, <2>6
  <1>4. ASSUME NEW s \in Sessions, BadHeader(s) PROVE CloseInv'
    <2>1. /\ rd[s] = "armed" /\ rd' = [rd EXCEPT ![s] = "none"]
          /\ UNCHANGED <<sock, accepting, m_sessions, wr, cpc, closes, missed, msg_que>>
      BY <1>4 DEF BadHeader, sendVars, closeVars, logicVars
    <2>2. sock[s] # "idle"
      BY <2>1 DEF StartedInv
    <2>3. QED
      BY <2>1, <2>2 DEF StartedInv, EraseInv, BudgetInv, ClosedSessionErased
  <1>5. ASSUME NEW s \in Sessions, WriteOk(s) PROVE CloseInv'
    <2>1. /\ wr[s] = "out" /\ wr'[s] # "dead" /\ \A t \in Sessions \ {s} : wr'[t] = wr[t]
          /\ UNCHANGED <<sock, rd, accepting, m_sessions, cpc, closes, missed, msg_que>>
      BY <1>5 DEF WriteOk, Started, connVars, closeVars, logicVars
    <2>2. sock[s] # "idle"
      BY <2>1 DEF StartedInv
    <2>3. QED
      BY <2>1, <2>2 DEF StartedInv, EraseInv, BudgetInv, ClosedSessionErased
  <1>6. CASE InsertSession
    <2>1. /\ accepting \in Sessions /\ m_sessions' = m_sessions \cup {accepting}
          /\ accepting' = NoSession
          /\ UNCHANGED <<sock, rd, wr, cpc, closes, missed, msg_que>>
      BY <1>6 DEF InsertSession, sendVars, closeVars, logicVars
    <2>2. StartedInv' /\ BudgetInv'
      BY <1>0, <2>1 DEF StartedInv, BudgetInv
    <2>3. EraseInv'
      BY <1>0, <2>1 DEF EraseInv, ClosedSessionErased
    <2>4. QED
      BY <2>2, <2>3
  <1>7. QED
    BY <1>1, <1>2, <1>3, <1>4, <1>5, <1>6

\* A Close begins: the session was accepted, and its read or its write is used up.
LEMMA CloseBegin ==
    ASSUME TypeInv, CloseInv, NEW s \in Sessions, ReadError(s) \/ WriteError(s)
    PROVE  CloseInv'
  <1> USE DEF TypeInv, TypeOK, ConnTypes, SendTypes, CloseTypes, CloseInv
  <1>1. /\ cpc[s] = "run" /\ cpc' = [cpc EXCEPT ![s] = "find"]
        /\ closes' = [closes EXCEPT ![s] = closes[s] + 1]
        /\ UNCHANGED <<sock, accepting, m_sessions, missed, msg_que>>
    BY DEF ReadError, WriteError, IoIdle, Close, connVars, logicVars
  <1>2. \/ rd[s] # "none" /\ rd' = [rd EXCEPT ![s] = "none"] /\ UNCHANGED wr
        \/ wr[s] \notin {"idle", "dead"} /\ wr' = [wr EXCEPT ![s] = "dead"] /\ UNCHANGED rd
    BY DEF ReadError, WriteError, sendVars, connVars
  <1>3. sock[s] # "idle"
    BY <1>2 DEF StartedInv
  <1>4. StartedInv'
    BY <1>1, <1>2, <1>3 DEF StartedInv
  <1>5. EraseInv'
    <2>1. accepting = s => closes[s] = 0 \/ s \in missed
      BY <1>1 DEF EraseInv
    <2>2. QED
      BY <1>1, <2>1 DEF EraseInv, ClosedSessionErased
  <1>6. BudgetInv'
    BY <1>1, <1>2, <1>3 DEF BudgetInv
  <1>7. QED
    BY <1>4, <1>5, <1>6

\* A step of Close.
LEMMA CloseSteps ==
    ASSUME TypeInv, AuthInv, CloseInv, NEW s \in Sessions, CloseStep(s)
    PROVE  CloseInv'
  <1> USE DEF TypeInv, TypeOK, ConnTypes, SendTypes, CloseTypes, CloseInv
  <1>1. /\ UNCHANGED <<rd, wr, accepting, closes, msg_que>> /\ missed \subseteq missed'
        /\ sock' \in {sock, [sock EXCEPT ![s] = "closed"]}
        /\ \A t \in Sessions \ {s} : cpc'[t] = cpc[t]
        /\ m_sessions' \in {m_sessions, m_sessions \ {s}}
        /\ closes[s] > 0
    BY DEF CloseStep, CloseFind, CloseRemove, CloseErase, CloseReadCount, CloseThrow,
           CloseWriteCount, CloseSocket, eraseSession, connVars, sendVars, logicVars, AuthInv
  <1>2. sock[s] # "idle"
    BY <1>1 DEF StartedInv
  <1>3. StartedInv'
    <2>1. \A t \in Sessions : sock[t] # "idle" => sock'[t] # "idle"
      BY <1>1
    <2>2. \A i \in 1..Len(msg_que') : sock'[msg_que'[i].sess] # "idle"
      BY <1>1, <2>1, QueuedStarted
    <2>3. \A t \in Sessions : sock'[t] = "idle" => sock[t] = "idle"
      BY <1>1
    <2>4. QED
      BY <1>1, <2>2, <2>3 DEF StartedInv
  <1>4. BudgetInv'
    BY <1>1, <1>2 DEF BudgetInv
  <1>5. EraseInv'
    <2>1. CASE CloseFind(s)
      <3>1. /\ cpc[s] = "find" /\ cpc'[s] \in {"remove", "erase"}
            /\ UNCHANGED m_sessions
            /\ s \notin m_sessions /\ closes[s] = 1 => s \in missed'
        BY <2>1 DEF CloseFind, FindOutcomes, connVars
      <3>2. accepting = s => s \in missed'
        BY <1>1, <3>1 DEF EraseInv
      <3>3. QED
        BY <1>1, <3>1, <3>2 DEF EraseInv, ClosedSessionErased
    <2>2. CASE CloseRemove(s)
      <3>1. cpc[s] = "remove" /\ cpc'[s] = "erase" /\ UNCHANGED <<m_sessions, missed>>
        BY <2>2 DEF CloseRemove, connVars
      <3>2. QED
        BY <1>1, <3>1 DEF EraseInv, ClosedSessionErased
    <2>3. CASE CloseErase(s)
      <3>1. cpc[s] = "erase" /\ cpc'[s] = "hget" /\ m_sessions' = m_sessions \ {s}
            /\ UNCHANGED missed
        BY <2>3 DEF CloseErase, eraseSession
      <3>2. QED
        BY <1>1, <3>1 DEF EraseInv, ClosedSessionErased
    <2>4. CASE CloseReadCount(s) \/ CloseThrow(s) \/ CloseWriteCount(s) \/ CloseSocket(s)
      <3>1. cpc[s] \in {"hget", "hset", "shut"} /\ cpc'[s] \in {"hset", "shut", "run"}
            /\ UNCHANGED <<m_sessions, missed>>
        BY <2>4 DEF CloseReadCount, CloseThrow, CloseWriteCount, CloseSocket, connVars
      <3>2. QED
        BY <1>1, <3>1 DEF EraseInv, ClosedSessionErased
    <2>5. QED
      BY <2>1, <2>2, <2>3, <2>4 DEF CloseStep
  <1>6. QED
    BY <1>3, <1>4, <1>5

\* The logic thread writes to sessions that were accepted, and never revives a write
\* that has failed.
LEMMA CloseWorker ==
    ASSUME TypeInv, CloseInv, Worker \/ Crash
    PROVE  CloseInv'
  <1> USE DEF TypeInv, TypeOK, ConnTypes, SendTypes, CloseTypes, CloseInv
  <1>1. UNCHANGED <<connVars, cpc, closes, missed>>
    BY DEF Worker, DropMsg, LoginHandler, SearchInfo, ReadCount, WriteCount, SetUserId,
           setUserSession, Reply, Crash, closeVars
  <1>2. /\ msg_que' = msg_que \/ (msg_que # <<>> /\ msg_que' = Tail(msg_que))
    BY DEF Worker, DropMsg, LoginHandler, SearchInfo, ReadCount, WriteCount, SetUserId,
           setUserSession, Reply, Crash, DealMsg, HandlerInv
  <1>3. /\ \A t \in Sessions : wr[t] # "idle" => wr'[t] = wr[t]
        /\ \A t \in Sessions : wr'[t] = wr[t] \/ (sock[t] # "idle" /\ wr'[t] # "dead")
    <2>1. CASE Reply
      <3>1. msg_que # <<>>
        BY <2>1 DEF Reply, HandlerInv
      <3>2. DEFINE t == Request.sess
      <3>3. t \in Sessions /\ sock[t] # "idle"
        BY <3>1, RequestStarted
      <3>4. \/ wr' = wr
            \/ send_que[t] = <<>> /\ wr' = [wr EXCEPT ![t] = Started(t, "out")]
        BY <2>1 DEF Reply, Send, sendVars
      <3>5. send_que[t] = <<>> => wr[t] = "idle"
        BY <3>3 DEF WriteInv
      <3> HIDE DEF t
      <3>6. QED
        BY <3>3, <3>4, <3>5 DEF Started
    <2>2. CASE ~Reply
      BY <2>2 DEF Worker, DropMsg, LoginHandler, SearchInfo, ReadCount, WriteCount,
                  SetUserId, setUserSession, Crash, sendVars
    <2>3. QED
      BY <2>1, <2>2
  <1>4. StartedInv'
    <2>1. \A i \in 1..Len(msg_que') : sock'[msg_que'[i].sess] # "idle"
      BY <1>1, <1>2, QueuedStarted DEF connVars
    <2>2. QED
      BY <1>1, <1>3, <2>1 DEF StartedInv, connVars
  <1>5. EraseInv'
    BY <1>1 DEF EraseInv, ClosedSessionErased, connVars
  <1>6. BudgetInv'
    BY <1>1, <1>3 DEF BudgetInv, connVars
  <1>7. QED
    BY <1>4, <1>5, <1>6

LEMMA CloseNext == TypeInv /\ AuthInv /\ CloseInv /\ [Next]_vars => CloseInv'
  <1> SUFFICES ASSUME TypeInv, AuthInv, CloseInv, [Next]_vars PROVE CloseInv'
    OBVIOUS
  <1>1. ASSUME UNCHANGED vars \/ \E u \in Users : IssueToken(u) PROVE CloseInv'
    BY <1>1 DEF IssueToken, vars, connVars, sendVars, closeVars, logicVars, CloseInv,
                StartedInv, EraseInv, BudgetInv, ClosedSessionErased
  <1>2. QED
    BY <1>1, CloseConn, CloseBegin, CloseSteps, CloseWorker DEF Next, Step, Idle

LEMMA CloseAlways == Spec => []CloseInv
  BY TypeInit, TypeNext, AuthInit, AuthNext, CloseInit, CloseNext, PTL DEF Spec

\* What has been closed is gone from m_sessions, unless its Close overtook the
\* insertion or missed it in a table in motion.
THEOREM ErasedWhenClosed == Spec => []ClosedSessionErased
  <1>1. CloseInv => ClosedSessionErased
    BY DEF CloseInv, EraseInv
  <1>2. QED
    BY <1>1, CloseAlways, PTL

\* No session is closed a third time, whatever the order of its errors.
THEOREM ClosedTwice == Spec => []ClosedAtMostTwice
  <1>1. TypeInv /\ CloseInv => ClosedAtMostTwice
    BY DEF CloseInv, BudgetInv, ClosedAtMostTwice, TypeInv, TypeOK, CloseTypes
  <1>2. QED
    BY <1>1, TypeInit, TypeNext, CloseAlways, PTL DEF Spec
-----------------------------------------------------------------------------
(* Whom login_count counts *)

\* Close runs only where it was called, and when it has, the socket is closed,
\* unless it threw; only a session that was accepted has a user.
PhaseInv ==
    \A s \in Sessions :
        /\ cpc[s] # "run" => closes[s] > 0
        /\ (closes[s] > 0 /\ cpc[s] = "run") => sock[s] = "closed" \/ faults > 0
        /\ sock[s] = "closed" => closes[s] > 0
        /\ user_uid[s] # NoUid => sock[s] # "idle"

LEMMA FaultsKept ==
    ASSUME TypeInv, [Next]_vars
    PROVE  faults \in Nat /\ faults' \in Nat /\ faults <= faults'
  <1>1. Fault \/ NoFault
    BY DEF Next, Step, Idle, IssueToken, InsertSession, vars, Disconnect, StartSession,
           Receive, PostMsgToQue, BadHeader, ReadError, WriteOk, WriteError, CloseStep,
           CloseFind, CloseRemove, CloseErase, CloseReadCount, CloseThrow, CloseWriteCount,
           CloseSocket, Worker, DropMsg, LoginHandler, SearchInfo, ReadCount, WriteCount,
           SetUserId, setUserSession, Reply, Crash, HandlerCrash, FindCrash, HGet, HSet,
           NoFault
  <1>2. faults \in Nat
    BY DEF TypeInv, TypeOK, BudgetTypes
  <1> QED
    BY <1>1, <1>2, FaultsGrow

LEMMA PhaseInit == Init => PhaseInv
  BY DEF Init, PhaseInv

LEMMA PhaseNext == TypeInv /\ StartedInv /\ PhaseInv /\ [Next]_vars => PhaseInv'
  <1> SUFFICES ASSUME TypeInv, StartedInv, PhaseInv, [Next]_vars PROVE PhaseInv'
    OBVIOUS
  <1>0. faults > 0 => faults' > 0
    BY FaultsKept
  <1> USE <1>0 DEF TypeInv, TypeOK, ConnTypes, CloseTypes, PhaseInv
  <1>1. CASE UNCHANGED <<sock, cpc, closes, user_uid>>
    BY <1>1
  <1>2. ASSUME NEW s \in Sessions, StartSession(s) PROVE PhaseInv'
    <2>1. closes[s] = 0 /\ sock[s] = "idle"
      BY <1>2 DEF StartSession, StartedInv
    <2> QED
      BY <1>2, <2>1 DEF StartSession, closeVars, userVars
  <1>3. ASSUME NEW s \in Sessions, Close(s), IoIdle(s), UNCHANGED <<sock, user_uid>>
        PROVE  PhaseInv'
    <2>1. closes'[s] = closes[s] + 1 /\ cpc'[s] = "find" /\ cpc[s] = "run"
      BY <1>3 DEF Close, IoIdle
    <2>2. \A t \in Sessions \ {s} : closes'[t] = closes[t] /\ cpc'[t] = cpc[t]
      BY <1>3 DEF Close
    <2> QED
      BY <1>3, <2>1, <2>2
  <1>4. ASSUME NEW s \in Sessions, ReadError(s) \/ WriteError(s) PROVE PhaseInv'
    BY <1>3, <1>4 DEF ReadError, WriteError, connVars, userVars
  <1>5. ASSUME NEW s \in Sessions, CloseStep(s) PROVE PhaseInv'
    <2>1. CASE CloseSocket(s)
      BY <2>1 DEF CloseSocket, userVars
    <2>2. CASE CloseErase(s)
      BY <2>2 DEF CloseErase, userVars
    <2>3. CASE CloseFind(s) \/ CloseRemove(s) \/ CloseReadCount(s) \/ CloseWriteCount(s)
      BY <2>3 DEF CloseFind, CloseRemove, CloseReadCount, CloseWriteCount, connVars, userVars
    <2>4. CASE CloseThrow(s)
      <3>1. faults' > 0
        BY <2>4 DEF CloseThrow, Fault, BudgetTypes
      <3> QED
        BY <2>4, <3>1 DEF CloseThrow, connVars, userVars
    <2> QED
      BY <1>5, <2>1, <2>2, <2>3, <2>4 DEF CloseStep
  <1>6. CASE SetUserId
    <2>1. sock[Request.sess] # "idle"
      BY <1>6, RequestStarted DEF SetUserId, HandlerInv
    <2> QED
      BY <1>6, <2>1 DEF SetUserId, connVars, closeVars, UserTypes
  <1>7. CASE (Worker \/ Crash) /\ ~SetUserId
    BY <1>1, <1>7 DEF Worker, DropMsg, LoginHandler, SearchInfo, ReadCount, WriteCount,
                      setUserSession, Reply, Crash, connVars, closeVars, userVars
  <1>8. ASSUME \/ \E u \in Users : IssueToken(u)
               \/ InsertSession \/ UNCHANGED vars
               \/ \E s \in Sessions : \/ Disconnect(s) \/ Receive(s) \/ BadHeader(s)
                                      \/ WriteOk(s)
        PROVE  PhaseInv'
    BY <1>1, <1>8 DEF IssueToken, InsertSession, vars, Disconnect, Receive, PostMsgToQue,
                      BadHeader, WriteOk, connVars, closeVars, userVars
  <1> QED
    BY <1>2, <1>4, <1>5, <1>6, <1>7, <1>8 DEF Next, Step, Idle

\* Who is online changes only with the two updates of the count, as long as Redis
\* answers and the process lives.
LEMMA OnlineKept ==
    ASSUME TypeInv, PhaseInv, [Next]_vars, faults' = 0, Alive',
           ~WriteCount, \A s \in Sessions : ~CloseWriteCount(s)
    PROVE  Online' = Online
  <1> DEFINE same(s) == (Left(s)' <=> Left(s)) /\ (LoggedIn(s)' <=> LoggedIn(s))
  <1> SUFFICES ASSUME NEW s \in Sessions PROVE same(s)
    BY DEF Online
  <1> USE DEF TypeInv, TypeOK, CloseTypes, LogicTypes, Left, LoggedIn, Request
  <1>1. CASE UNCHANGED <<cpc, closes, wpc, msg_que, user_uid>>
    BY <1>1
  <1>2. ASSUME NEW t \in Sessions, Receive(t) PROVE same(s)
    BY <1>2 DEF Receive, PostMsgToQue, closeVars, userVars
  <1>3. ASSUME NEW t \in Sessions, ReadError(t) \/ WriteError(t) PROVE same(s)
    <2>1. /\ cpc[t] = "run" /\ cpc' = [cpc EXCEPT ![t] = "find"]
          /\ closes' = [closes EXCEPT ![t] = @ + 1]
          /\ UNCHANGED <<wpc, msg_que, user_uid>>
      BY <1>3 DEF ReadError, WriteError, Close, IoIdle, logicVars, userVars
    <2> QED
      BY <2>1
  <1>4. ASSUME NEW t \in Sessions, CloseStep(t) PROVE same(s)
    <2>0. ~CloseThrow(t)
      BY FaultsKept DEF CloseThrow, Fault
    <2>1. UNCHANGED <<closes, wpc, msg_que, user_uid>>
      BY <1>4, <2>0 DEF CloseStep, CloseFind, CloseRemove, CloseErase, CloseReadCount,
                        CloseSocket, logicVars, userVars
    <2>2. \E from, to : /\ cpc[t] = from /\ cpc' = [cpc EXCEPT ![t] = to]
                        /\ from \in {"shut", "run"} <=> to \in {"shut", "run"}
      BY <1>4, <2>0 DEF CloseStep, CloseFind, CloseRemove, CloseErase, CloseReadCount,
                        CloseSocket
    <2> QED
      BY <2>1, <2>2
  <1>5. CASE SetUserId
    <2>1. Request.uid # NoUid
      <3>1. Request.uid \in Uids
        BY <1>5, RequestTyped DEF SetUserId, HandlerInv
      <3> QED
        BY <3>1, ChatServerAssumption DEF ChatServerAssumption, NoUid
    <2>2. Request.sess \in Sessions
      BY <1>5, RequestTyped DEF SetUserId, HandlerInv
    <2>3. /\ wpc = "setuid" /\ wpc' = "bind"
          /\ user_uid' = [user_uid EXCEPT ![Request.sess] = Request.uid]
          /\ UNCHANGED <<cpc, closes, msg_que>>
      BY <1>5 DEF SetUserId, closeVars
    <2> QED
      BY <2>1, <2>2, <2>3 DEF Request, UserTypes
  <1>6. CASE Worker /\ ~SetUserId
    <2>1. wpc # "setuid" /\ wpc' # "setuid"
      BY <1>6 DEF Worker, DropMsg, DealMsg, LoginHandler, SearchInfo, ReadCount,
                  setUserSession, Reply, SetUserId
    <2>2. UNCHANGED <<cpc, closes, user_uid>>
      BY <1>6 DEF Worker, DropMsg, LoginHandler, SearchInfo, ReadCount, setUserSession,
                  Reply, closeVars, userVars
    <2> QED
      BY <2>1, <2>2
  <1>7. ASSUME \/ \E u \in Users : IssueToken(u)
               \/ InsertSession \/ UNCHANGED vars
               \/ \E t \in Sessions : \/ Disconnect(t) \/ StartSession(t) \/ BadHeader(t)
                                      \/ WriteOk(t)
        PROVE  same(s)
    BY <1>1, <1>7 DEF IssueToken, InsertSession, vars, Disconnect, StartSession,
                      BadHeader, WriteOk, logicVars, closeVars, userVars
  <1> QED
    BY <1>2, <1>3, <1>4, <1>5, <1>6, <1>7 DEF Next, Step, Idle, Crash, Alive

\* A Close takes its session off, unless nobody was logged in on it or a Close did
\* so before.
LEMMA OnlineAfterClose ==
    ASSUME TypeInv, PhaseInv, NEW s \in Sessions, CloseWriteCount(s)
    PROVE  IF Goes(s) THEN s \in Online /\ Online' = Online \ {s} ELSE Online' = Online
  <1> USE DEF TypeInv, TypeOK, CloseTypes, Left, LoggedIn, Request
  <1>1. /\ cpc[s] = "hset" /\ cpc' = [cpc EXCEPT ![s] = "shut"]
        /\ UNCHANGED <<closes, wpc, msg_que, user_uid>>
    BY DEF CloseWriteCount, logicVars, userVars
  <1>2. closes[s] \in Nat /\ closes[s] > 0
    BY <1>1 DEF PhaseInv
  <1>3. Goes(s) <=> s \in Online
    BY <1>1, <1>2 DEF Goes, Online
  <1>4. s \notin Online' /\ \A t \in Sessions \ {s} : t \in Online' <=> t \in Online
    BY <1>1, <1>2 DEF Online
  <1> QED
    BY <1>3, <1>4 DEF Online

\* A login brings its session online, unless somebody was logged in on it or a
\* Close has taken one off for it.
LEMMA OnlineAfterLogin ==
    ASSUME TypeInv, WriteCount
    PROVE  IF Comes THEN Request.sess \notin Online /\ Online' = Online \cup {Request.sess}
                    ELSE Online' = Online
  <1> USE DEF TypeInv, TypeOK, CloseTypes, Left, LoggedIn, Request
  <1>1. /\ wpc = "hset" /\ wpc' = IF Request.kind = "login" THEN "setuid" ELSE "reply"
        /\ UNCHANGED <<cpc, closes, msg_que, user_uid>>
    BY DEF WriteCount, closeVars, userVars
  <1>2. Request.sess \in Sessions
    BY <1>1, RequestTyped DEF HandlerInv
  <1>3. \A t \in Sessions \ {Request.sess} : t \in Online' <=> t \in Online
    BY <1>1 DEF Online
  <1>4. CASE Comes
    <2>1. Request.sess \notin Online /\ Request.sess \in Online'
      BY <1>1, <1>2, <1>4 DEF Comes, BySearch, ByLoginAgain, ByLateLogin, Online
    <2> QED
      BY <1>2, <1>3, <1>4, <2>1 DEF Online
  <1>5. CASE ~Comes
    <2>1. Request.sess \in Online' <=> Request.sess \in Online
      BY <1>1, <1>2, <1>5 DEF Comes, BySearch, ByLoginAgain, ByLateLogin, Online
    <2> QED
      BY <1>3, <1>5, <2>1 DEF Online
  <1> QED
    BY <1>4, <1>5

LEMMA OnlineFinite == IsFiniteSet(Online) /\ Cardinality(Online) \in Nat
  <1>1. IsFiniteSet(Sessions)
    BY FS_Interval, ChatServerAssumption DEF Sessions, ChatServerAssumption
  <1> QED
    BY <1>1, FS_Subset, FS_CardinalityType DEF Online

\* An update without overlap moves the count and the number of those online by
\* one each, or the count alone, and then the drift.
LEMMA NearNext ==
    TypeInv /\ CountInv /\ PhaseInv /\ CountNearOnline /\ [Next]_vars => CountNearOnline'
  <1> SUFFICES ASSUME TypeInv, CountInv, PhaseInv, CountNearOnline, [Next]_vars,
                      ~raced', faults' = 0, Alive'
               PROVE  /\ login_count' <= Cardinality(Online') + extra'
                      /\ Cardinality(Online') <= login_count' + short'
    BY DEF CountNearOnline
  <1>1. IsFiniteSet(Online) /\ Cardinality(Online) \in Nat
    BY OnlineFinite
  <1>2. login_count \in Nat /\ extra \in Nat /\ short \in Nat /\ faults \in Nat
    BY DEF TypeInv, TypeOK, CountTypes, BudgetTypes
  <1>0. Alive
    BY DEF Next, Idle, vars, logicVars, Alive
  <1>3. ASSUME NEW s \in Sessions, CloseWriteCount(s)
        PROVE  /\ login_count' <= Cardinality(Online') + extra'
               /\ Cardinality(Online') <= login_count' + short'
    <2>1. /\ ~raced /\ HSet(Decrement(ctmp[s])) /\ cpc[s] = "hset" /\ extra' = extra
          /\ short' = IF Goes(s) THEN short ELSE short + 1
      BY <1>3 DEF CloseWriteCount
    <2>2. faults = 0 /\ login_count' = Decrement(ctmp[s])
      BY <1>2, <2>1 DEF HSet, Fault, NoFault
    <2>3. ctmp[s] = login_count /\ ~raced
      BY <2>1, <2>2 DEF CountInv
    <2>4. login_count' = IF login_count <= 1 THEN 0 ELSE login_count - 1
      BY <2>2, <2>3 DEF Decrement
    <2>5. /\ login_count <= Cardinality(Online) + extra
          /\ Cardinality(Online) <= login_count + short
      BY <1>0, <2>2, <2>3 DEF CountNearOnline
    <2>6. CASE Goes(s)
      <3>1. s \in Online /\ Online' = Online \ {s}
        BY <1>3, <2>6, OnlineAfterClose
      <3>2. Cardinality(Online') = Cardinality(Online) - 1
        BY <1>1, <3>1, FS_RemoveElement
      <3>3. Cardinality(Online') \in Nat
        BY <1>1, <3>1, FS_Subset, FS_CardinalityType
      <3> QED
        BY <1>1, <1>2, <2>1, <2>4, <2>5, <2>6, <3>2, <3>3
    <2>7. CASE ~Goes(s)
      <3>1. Cardinality(Online') = Cardinality(Online)
        BY <1>3, <2>7, OnlineAfterClose
      <3> QED
        BY <1>1, <1>2, <2>1, <2>4, <2>5, <2>7, <3>1
    <2> QED
      BY <2>6, <2>7
  <1>4. CASE WriteCount
    <2>1. /\ ~raced /\ HSet(Increment(wtmp)) /\ wpc = "hset" /\ short' = short
          /\ extra' = IF Comes THEN extra ELSE extra + 1
      BY <1>4 DEF WriteCount
    <2>2. faults = 0 /\ login_count' = Increment(wtmp)
      BY <1>2, <2>1 DEF HSet, Fault, NoFault
    <2>3. login_count' = login_count + 1
      BY <2>1, <2>2 DEF CountInv, Increment
    <2>4. /\ login_count <= Cardinality(Online) + extra
          /\ Cardinality(Online) <= login_count + short
      BY <1>0, <2>1, <2>2 DEF CountNearOnline
    <2>5. CASE Comes
      <3>1. Cardinality(Online') = Cardinality(Online) + 1
        BY <1>1, <1>4, <2>5, OnlineAfterLogin, FS_AddElement
      <3> QED
        BY <1>1, <1>2, <2>1, <2>3, <2>4, <2>5, <3>1
    <2>6. CASE ~Comes
      <3>1. Cardinality(Online') = Cardinality(Online)
        BY <1>4, <2>6, OnlineAfterLogin
      <3> QED
        BY <1>1, <1>2, <2>1, <2>3, <2>4, <2>6, <3>1
    <2> QED
      BY <2>5, <2>6
  <1>5. CASE ~WriteCount /\ \A s \in Sessions : ~CloseWriteCount(s)
    <2>1. Online' = Online
      BY <1>5, OnlineKept
    <2>2. UNCHANGED <<login_count, extra, short>>
      <3>1. ASSUME NEW s \in Sessions, \/ Disconnect(s) \/ StartSession(s) \/ Receive(s)
                                       \/ BadHeader(s) \/ ReadError(s) \/ WriteOk(s)
                                       \/ WriteError(s)
            PROVE  UNCHANGED countVars
        BY <3>1 DEF Disconnect, StartSession, Receive, PostMsgToQue, BadHeader, ReadError,
                    WriteOk, WriteError
      <3>2. ASSUME NEW s \in Sessions, CloseStep(s)
            PROVE  UNCHANGED <<login_count, driftVars>>
        BY <1>5, <3>2 DEF CloseStep, CloseFind, CloseRemove, CloseErase, CloseReadCount,
                          CloseThrow, CloseSocket, countVars
      <3>3. CASE Worker
        BY <1>5, <3>3 DEF Worker, DropMsg, LoginHandler, SearchInfo, ReadCount, SetUserId,
                          setUserSession, Reply, countVars, driftVars
      <3>4. CASE (\E u \in Users : IssueToken(u)) \/ InsertSession \/ UNCHANGED vars
        BY <3>4 DEF IssueToken, InsertSession, vars, countVars, driftVars
      <3> QED
        BY <3>1, <3>2, <3>3, <3>4 DEF Next, Step, Idle, Crash, Alive, countVars, driftVars
    <2>3. ~raced /\ faults = 0
      <3>1. raced => raced'
        BY DEF Next, Step, Idle, IssueToken, InsertSession, vars, Disconnect, StartSession,
               Receive, PostMsgToQue, BadHeader, ReadError, WriteOk, WriteError, CloseStep,
               CloseFind, CloseRemove, CloseErase, CloseReadCount, CloseThrow,
               CloseWriteCount, CloseSocket, Worker, DropMsg, LoginHandler, SearchInfo, ReadCount, WriteCount,
               SetUserId, setUserSession, Reply, Crash, BeginUpdate, countVars
      <3> QED
        BY <3>1, FaultsKept
    <2> QED
      BY <1>0, <2>1, <2>2, <2>3 DEF CountNearOnline
  <1> QED
    BY <1>3, <1>4, <1>5

\* login_count is the number of people online, up to one for each search, second login
\* and login counted after a Close of its session that raised it, and one for each Close
\* of a session nobody was logged in on, or closed before, that lowered it.
THEOREM CountNear == Spec => []CountNearOnline
  <1>1. Init => CountNearOnline
    <2> SUFFICES ASSUME Init PROVE login_count = 0 /\ extra = 0 /\ Cardinality(Online) = 0
                                   /\ short = 0
      BY DEF CountNearOnline
    <2>1. Online = {}
      BY DEF Init, Online, LoggedIn
    <2> QED
      BY <2>1, FS_EmptySet DEF Init
  <1>2. CloseInv => StartedInv
    BY DEF CloseInv
  <1> QED
    BY <1>1, <1>2, TypeInit, TypeNext, CountInit, CountNext, CloseAlways, PhaseInit,
       PhaseNext, NearNext, PTL DEF Spec

\* When no handler and no Close runs, those online are the open sessions that
\* somebody is logged in on.
LEMMA OnlineWhenSettled ==
    ASSUME TypeInv, PhaseInv, faults = 0, wpc = "wait", \A s \in Sessions : cpc[s] = "run"
    PROVE  Online = {s \in Sessions : sock[s] = "open" /\ user_uid[s] # NoUid}
  BY DEF Online, LoggedIn, Left, PhaseInv, TypeInv, TypeOK, ConnTypes, CloseTypes

\* LogicSystem.cpp:115 "raise the server's number of people online" comes true where
\* nothing made the count drift: the causes that CountIsOnline, which the code breaks,
\* does not have.
CountIsOnlineWithoutDrift ==
    ( /\ wpc = "wait" /\ \A s \in Sessions : cpc[s] = "run"
      /\ ~raced /\ faults = 0 /\ extra = 0 /\ short = 0 )
    => login_count = Cardinality({s \in Sessions : /\ sock[s] = "open"
                                                   /\ user_uid[s] # NoUid})

\* At rest login_count is the number of sessions somebody is logged in on, unless two
\* updates overlapped, Redis failed, or an addition or a subtraction of the kinds
\* CountNearOnline names was made.
THEOREM CountTrueWithoutDrift == Spec => []CountIsOnlineWithoutDrift
  <1>1. TypeInv /\ PhaseInv /\ CountNearOnline => CountIsOnlineWithoutDrift
    <2> SUFFICES ASSUME TypeInv, PhaseInv, CountNearOnline, wpc = "wait",
                        \A s \in Sessions : cpc[s] = "run",
                        ~raced, faults = 0, extra = 0, short = 0
                 PROVE  login_count = Cardinality(Online)
      BY OnlineWhenSettled DEF CountIsOnlineWithoutDrift
    <2> QED
      BY OnlineFinite DEF CountNearOnline, Alive, TypeInv, TypeOK, CountTypes
  <1>2. CloseInv => StartedInv
    BY DEF CloseInv
  <1> QED
    BY <1>1, <1>2, CountNear, TypeInit, TypeNext, CloseAlways, PhaseInit, PhaseNext,
       PTL DEF Spec

-----------------------------------------------------------------------------
(* Whom the Close of another session takes out *)

\* CServer.cpp:35 removes by uid, so a Close may take another session out of m_uids
\* (CloseKeepsOthers is violated).  It takes out none but one that presented the token
\* of the very uid that the closing session did: sharing an account is what it takes.
OnlySharersEvicted ==
    [][\A s, t \in Sessions, u \in Uids :
          (t # s /\ cpc[s] = "remove" /\ cpc'[s] # "remove" /\ m_uids[u] = t /\ m_uids'[u] # t)
          => {<<s, u>>, <<t, u>>} \subseteq authed]_vars

\* removeUserSession in the Close of s takes out only a session that shares a uid with s.
THEOREM EvictedBySharer == Spec => OnlySharersEvicted
  <1>1. TypeInv /\ AuthInv /\ [Next]_vars =>
          [\A s, t \in Sessions, u \in Uids :
             (t # s /\ cpc[s] = "remove" /\ cpc'[s] # "remove" /\ m_uids[u] = t /\ m_uids'[u] # t)
             => {<<s, u>>, <<t, u>>} \subseteq authed]_vars
    <2> SUFFICES ASSUME TypeInv, AuthInv, Next, NEW s \in Sessions, NEW t \in Sessions,
                        NEW u \in Uids, t # s, cpc[s] = "remove", cpc'[s] # "remove",
                        m_uids[u] = t, m_uids'[u] # t
                 PROVE  <<s, u>> \in authed /\ <<t, u>> \in authed
      OBVIOUS
    <2>1. CloseRemove(s)
      <3> USE DEF TypeInv, TypeOK, CloseTypes
      <3>1. ASSUME NEW r \in Sessions, ReadError(r) \/ WriteError(r) PROVE FALSE
        <4>1. r # s
          BY <3>1 DEF ReadError, WriteError, IoIdle
        <4> QED
          BY <3>1, <4>1 DEF ReadError, WriteError, Close
      <3>2. ASSUME NEW r \in Sessions, CloseStep(r), ~CloseRemove(s) PROVE FALSE
        <4>1. r # s
          BY <3>2 DEF CloseStep, CloseFind, CloseErase, CloseReadCount, CloseThrow,
                      CloseWriteCount, CloseSocket
        <4> QED
          BY <3>2, <4>1 DEF CloseStep, CloseFind, CloseRemove, CloseErase, CloseReadCount,
                            CloseThrow, CloseWriteCount, CloseSocket
      <3>3. ASSUME NEW r \in Sessions, \/ Disconnect(r) \/ StartSession(r) \/ Receive(r)
                                       \/ BadHeader(r) \/ WriteOk(r)
            PROVE  UNCHANGED cpc
        BY <3>3 DEF Disconnect, StartSession, Receive, PostMsgToQue, BadHeader, WriteOk,
                    closeVars
      <3>4. CASE (\E v \in Users : IssueToken(v)) \/ InsertSession \/ Worker \/ Crash
                \/ UNCHANGED vars
        BY <3>4 DEF IssueToken, InsertSession, Worker, DropMsg, LoginHandler, SearchInfo,
                    ReadCount, WriteCount, SetUserId, setUserSession, Reply, Crash,
                    vars, closeVars
      <3> QED
        BY <3>1, <3>2, <3>3, <3>4 DEF Next, Step, Idle
    <2>2. u = ctmp[s]
      BY <2>1 DEF CloseRemove, removeUserSession, TypeInv, TypeOK, UserTypes
    <2>3. m_uids[u] # NoSession
      BY DEF Sessions, NoSession
    <2> QED
      BY <2>2, <2>3 DEF AuthInv, BoundOnlyIfAuthenticated
  <1> QED
    BY <1>1, AuthAlways, TypeInit, TypeNext, PTL DEF Spec, OnlySharersEvicted

-----------------------------------------------------------------------------
(* The directory *)

\* UserMgr, LoginHandler and Close together implement the abstract directory, with
\* the Close of a session as the only thing that takes an entry away.
THEOREM DirectoryImplemented == Spec => DirectoryKept
  <1> DEFINE closing == {s \in Sessions : closes[s] > 0}
  <1>1. Init => D!Init
    BY DEF Init, D!Init
  <1>2. TypeInv /\ AuthInv /\ ReachInv /\ [Next]_vars => [D!Next]_(D!vars)
    <2> SUFFICES ASSUME TypeInv, AuthInv, ReachInv, [Next]_vars
                 PROVE  D!Next \/ UNCHANGED D!vars
      OBVIOUS
    <2>1. ASSUME UNCHANGED <<m_uids, authed, told, closes>>
          PROVE  UNCHANGED D!vars
      BY <2>1 DEF D!vars
    <2>2. ASSUME NEW s \in Sessions, ReadError(s) \/ WriteError(s)
          PROVE  D!BeginClose(s)
      <3>1. closes' = [closes EXCEPT ![s] = @ + 1] /\ UNCHANGED <<m_uids, authed, told>>
        BY <2>2 DEF ReadError, WriteError, Close, userVars
      <3>2. {t \in Sessions : closes'[t] > 0} = closing \cup {s}
        BY <3>1 DEF TypeInv, TypeOK, CloseTypes
      <3> QED
        BY <3>1, <3>2 DEF D!BeginClose
    <2>3. ASSUME NEW s \in Sessions, CloseRemove(s)
          PROVE  (\E u \in Uids : D!Remove(s, u)) \/ UNCHANGED D!vars
      <3>1. /\ UNCHANGED <<authed, told, closes>> /\ cpc[s] = "remove"
            /\ m_uids' = [u \in Uids |-> IF u = ctmp[s] THEN NoSession ELSE m_uids[u]]
        BY <2>3 DEF CloseRemove, removeUserSession
      <3>2. m_uids \in [Uids -> Sessions \cup {NoSession}]
        BY DEF TypeInv, TypeOK, UserTypes
      <3>3. CASE ctmp[s] \in Uids
        <4>1. <<s, ctmp[s]>> \in authed /\ s \in closing
          BY <3>1, <3>3 DEF AuthInv
        <4>2. m_uids' = [m_uids EXCEPT ![ctmp[s]] = NoSession]
          BY <3>1, <3>2, <3>3
        <4> QED
          BY <3>1, <3>3, <4>1, <4>2 DEF D!Remove
      <3>4. CASE ctmp[s] \notin Uids
        <4>1. m_uids' = m_uids
          BY <3>1, <3>2, <3>4
        <4> QED
          BY <3>1, <4>1, <2>1
      <3> QED
        BY <3>3, <3>4
    <2>4. CASE LoginHandler
      <3>1. Request.sess \in Sessions /\ Request.uid \in Uids
        BY <2>4, RequestTyped DEF LoginHandler, DealMsg, TypeInv, TypeOK
      <3>2. /\ UNCHANGED <<m_uids, told, closes>>
            /\ authed' = authed \/ authed' = authed \cup {<<Request.sess, Request.uid>>}
        BY <2>4 DEF LoginHandler, closeVars
      <3> QED
        BY <2>1, <3>1, <3>2 DEF D!Next, D!Show
    <2>5. CASE setUserSession
      <3>1. /\ Request.sess \in Sessions /\ Request.uid \in Uids
            /\ <<Request.sess, Request.uid>> \in authed
        BY <2>5, RequestTyped DEF setUserSession, TypeInv, TypeOK, HandlerInv, AuthInv,
                                  LoginAccepted
      <3>2. /\ UNCHANGED <<authed, told, closes>>
            /\ m_uids' = [m_uids EXCEPT ![Request.uid] = Request.sess]
        BY <2>5 DEF setUserSession, closeVars
      <3> QED
        BY <3>1, <3>2 DEF D!Next, D!Enter
    <2>6. CASE Reply
      <3>1. UNCHANGED <<m_uids, authed, closes>>
        BY <2>6 DEF Reply, closeVars
      <3>2. CASE told' = told
        BY <2>1, <3>1, <3>2
      <3>3. CASE told' # told
        <4>1. /\ told' = told \cup {<<Request.sess, Request.uid>>}
              /\ LoginAccepted /\ wpc = "reply" /\ Request.kind = "login"
          BY <2>6, <3>3 DEF Reply, LoginAccepted
        <4>2. /\ Request.sess \in Sessions /\ Request.uid \in Uids
              /\ <<Request.sess, Request.uid>> \in authed
          BY <4>1, RequestTyped DEF TypeInv, TypeOK, HandlerInv, AuthInv
        <4>3. Reachable(Request.sess, Request.uid)
          BY <4>1 DEF ReachInv
        <4>4. \/ m_uids[Request.uid] = Request.sess
              \/ Request.sess \in closing
              \/ D!Shared(Request.sess, Request.uid)
          <5>1. CASE closes[Request.sess] = 0
                     /\ \A t \in Sessions \ {Request.sess} : <<t, Request.uid>> \notin authed
            BY <4>3, <5>1 DEF Reachable
          <5>2. CASE closes[Request.sess] # 0
            BY <4>2, <5>2 DEF TypeInv, TypeOK, CloseTypes
          <5>3. CASE \E t \in Sessions \ {Request.sess} : <<t, Request.uid>> \in authed
            BY <5>3 DEF D!Shared
          <5> QED
            BY <5>1, <5>2, <5>3
        <4> QED
          BY <3>1, <4>1, <4>2, <4>4 DEF D!Next, D!Tell
      <3> QED
        BY <3>2, <3>3
    <2>7. CASE UNCHANGED vars
      BY <2>1, <2>7 DEF vars, userVars, closeVars
    <2>8. ASSUME NEW s \in Sessions,
                 \/ Disconnect(s) \/ StartSession(s) \/ Receive(s) \/ BadHeader(s) \/ WriteOk(s)
                 \/ CloseFind(s) \/ CloseErase(s) \/ CloseReadCount(s) \/ CloseThrow(s)
                 \/ CloseWriteCount(s) \/ CloseSocket(s)
          PROVE  UNCHANGED <<m_uids, authed, told, closes>>
      BY <2>8 DEF Disconnect, StartSession, Receive, PostMsgToQue, BadHeader, WriteOk,
         CloseFind, CloseErase, CloseReadCount, CloseThrow, CloseWriteCount, CloseSocket,
         userVars, closeVars
    <2>9. ASSUME \/ (\E u \in Users : IssueToken(u)) \/ InsertSession \/ DropMsg
                 \/ SearchInfo \/ ReadCount \/ WriteCount \/ SetUserId \/ Crash
          PROVE  UNCHANGED <<m_uids, authed, told, closes>>
      BY <2>9 DEF IssueToken, InsertSession, DropMsg, SearchInfo, ReadCount, WriteCount,
         SetUserId, Crash, userVars, closeVars
    <2>10. ASSUME NEW s \in Sessions,
                  \/ Disconnect(s) \/ StartSession(s) \/ Receive(s) \/ BadHeader(s)
                  \/ ReadError(s) \/ WriteOk(s) \/ WriteError(s) \/ CloseStep(s)
           PROVE  D!Next \/ UNCHANGED D!vars
      BY <2>1, <2>2, <2>3, <2>8, <2>10 DEF CloseStep, D!Next
    <2>11. CASE Worker
      BY <2>1, <2>4, <2>5, <2>6, <2>9, <2>11 DEF Worker
    <2> QED
      BY <2>1, <2>7, <2>9, <2>10, <2>11 DEF Next, Step, Idle
  <1>3. QED
    BY <1>1, <1>2, TypeInit, TypeNext, AuthAlways, PTL DEF Spec, DirectoryKept, D!Spec
===============================================================================

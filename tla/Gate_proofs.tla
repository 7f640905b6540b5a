----------------------------- MODULE Gate_proofs -----------------------------
(***************************************************************************)
(* Theorems about Gate: it uses the verification service as that service   *)
(* allows, so what is proved of the service holds behind the gate; and a   *)
(* request gets past the code, and changes an account, only as it should.  *)
(***************************************************************************)
EXTENDS Gate, VerifyService_proofs, FiniteSetTheorems

USE GateAssumption

\* The process goes down.
Stops(r) == UrlDecodeAborts(r) \/ Crash(r)

\* A connection goes away unanswered.
Drops(r) == ReadFails(r) \/ HandlerThrows(r)

\* A step of a handler is one call of the service at most.
LEMMA HttpStepOfVerify ==
  ASSUME NEW r \in Calls, HttpStep(r) \/ Stops(r), req \in Workloads
  PROVE  UNCHANGED vvars \/ \E e \in Emails : GetVarifyCode(r, e)
  <1>1. CASE HandleReq(r) \/ Drops(r) \/ Written(r) \/ CheckDeadLine(r) \/ Stops(r)
    BY <1>1 DEF HandleReq, readEnds, Drops, ReadFails, HandlerThrows, Written,
       CheckDeadLine, Stops, UrlDecodeAborts, Crash
  <1>2. CASE \/ UrlNotFound(r) \/ get_test(r) \/ BadJson(r) \/ VerifyAnswered(r)
             \/ user_register(r) \/ reset_pwd(r) \/ user_login(r)
    BY <1>2 DEF UrlNotFound, get_test, BadJson, VerifyAnswered, user_register, reset_pwd,
       user_login
  <1>3. CASE get_verifycode(r)
    BY <1>3 DEF get_verifycode, RequestType
  <1>4. CASE RedisCommand(r) \/ RedisReply(r)
    BY <1>4 DEF RedisCommand, RedisReply
  <1>5. CASE \/ RegUser(r) \/ checkEmail(r) \/ updatePasswd(r) \/ checkPwd(r)
             \/ GetChatServer(r)
    BY <1>5 DEF RegUser, checkEmail, updatePasswd, checkPwd, GetChatServer
  <1> QED
    BY <1>1, <1>2, <1>3, <1>4, <1>5 DEF HttpStep, HandlerStep, Drops

\* What the connections sent does not change.
LEMMA ReqKept == Next => UNCHANGED <<req, io>>
  <1> SUFFICES ASSUME Next PROVE UNCHANGED <<req, io>>
    OBVIOUS
  <1>1. CASE VerifyStep /\ UNCHANGED gvars
    BY <1>1 DEF gvars
  <1>2. ASSUME NEW r \in Calls, HttpStep(r) \/ Stops(r) PROVE UNCHANGED <<req, io>>
    BY <1>2 DEF HttpStep, HandlerStep, HandleReq, readEnds, Drops, ReadFails,
       HandlerThrows, Written, CheckDeadLine, Stops,
       UrlDecodeAborts, Crash, UrlNotFound, get_test, BadJson, VerifyAnswered,
       user_register, reset_pwd, user_login, get_verifycode, RedisCommand, RedisReply,
       RegUser, checkEmail, updatePasswd, checkPwd,
       GetChatServer
  <1> QED
    BY <1>1, <1>2 DEF Next, Stops

LEMMA ReqHolds == Spec => [](req \in Workloads)
  <1>1. Init => req \in Workloads
    BY DEF Init, GateInit
  <1>2. req \in Workloads /\ [Next]_vars => (req \in Workloads)'
    BY ReqKept DEF vars, gvars
  <1> QED
    BY <1>1, <1>2, PTL DEF Spec

\* The handlers use VerifyService as its specification allows: the gate
\* implements it, steps of other handlers being stuttering steps.
THEOREM GateUsesVerify == Spec => VerifySpec
  <1>1. Init => VerifyInit
    BY DEF Init
  <1>2. req \in Workloads /\ [Next]_vars => [VerifyNext]_vvars
    <2> SUFFICES ASSUME req \in Workloads, [Next]_vars PROVE [VerifyNext]_vvars
      OBVIOUS
    <2>1. CASE VerifyStep
      BY <2>1 DEF VerifyNext
    <2>2. ASSUME NEW r \in Calls, HttpStep(r) \/ Stops(r) PROVE [VerifyNext]_vvars
      BY <2>2, HttpStepOfVerify DEF VerifyNext
    <2>3. CASE UNCHANGED vars
      BY <2>3 DEF vars
    <2> QED
      BY <2>1, <2>2, <2>3 DEF Next, Stops
  <1> QED
    BY <1>1, <1>2, ReqHolds, PTL DEF Spec, VerifySpec

\* varifyServer behind the gate: while nothing has failed, the code that Redis
\* is left with was sent to its mailbox or is about to be.
THEOREM GateCodesMailed == Spec => []StoredCodeMailed
  BY GateUsesVerify, StoredIsMailed

\* varifyServer behind the gate: a code without expiry is about to get one.
THEOREM GateCodesExpire == Spec => []CodeWillExpire
  BY GateUsesVerify, CodesExpire

-----------------------------------------------------------------------------
(* What a request can count on. *)

Places == Handling \cup {"reading", "write", "ignored", "sent", "closed", "dropped"}

\* The types of the gate's own variables.
GateOwnType ==
    /\ req \in Workloads /\ io \in IoMaps
    /\ hpc \in [Calls -> Places]
    /\ body \in [Calls -> Seq(Codes_)]
    /\ accounts \in [Names -> Accounts \cup {NoAccount}]
    /\ redisCons \in 0..RedisConns /\ mysqlCons \in 0..MysqlConns
    /\ reply \in [of : Calls \cup {0}, val : Codes \cup {NoCode}, freed : BOOLEAN]
    /\ up \in BOOLEAN /\ faults \in 0..MaxFaults
    /\ did \subseteq Calls /\ raced \subseteq Calls /\ rowless \subseteq Calls
    /\ truth \in [Calls -> Codes \cup {NoCode}]

\* As long as _reply is a request's own, it is what Redis said to it.
ReplyIsOwn == \A r \in Calls : (hpc[r] = "read" /\ reply.of = r) => reply.val = truth[r]

\* updatePasswd is reached through a row with the request's address, or
\* through the end of checkEmail.
RowFound ==
    \A r \in Calls :
        hpc[r] = "update" =>
            \/ r \in rowless
            \/ /\ accounts[req[r].name] # NoAccount
               /\ accounts[req[r].name].email = req[r].email

GateInv == GateOwnType /\ ReplyIsOwn /\ CodeChecked /\ RowFound

\* The initial states satisfy the invariant: no request has begun.
LEMMA GateInitHolds == Init => GateInv
  BY VerifyAssumption DEF Init, GateInit, GateInv, GateOwnType, ReplyIsOwn, CodeChecked,
     RowFound, Places, Handling

\* A document in a body.
LEMMA OneDocument == ASSUME NEW c \in Codes_ PROVE <<c>> \in Seq(Codes_)
  OBVIOUS

\* What finish makes of the body and of hpc.
LEMMA FinishType ==
  ASSUME NEW r \in Calls, NEW more \in Seq(Codes_), GateOwnType, finish(r, more)
  PROVE  /\ body' \in [Calls -> Seq(Codes_)]
         /\ hpc' = [hpc EXCEPT ![r] = "write"]
         /\ hpc' \in [Calls -> Places]
  <1>1. body[r] \o more \in Seq(Codes_)
    BY DEF GateOwnType
  <1> QED
    BY <1>1 DEF finish, GateOwnType, Places

\* A handler that finishes and leaves the rest alone.
LEMMA FinishKeeps ==
  ASSUME GateInv, NEW r \in Calls, NEW more \in Seq(Codes_), finish(r, more),
         UNCHANGED <<req, io, accounts, pools, reply, up, faults, history>>
  PROVE  GateInv'
  <1>1. GateOwnType
    BY DEF GateInv
  <1>2. GateOwnType'
    BY <1>1, FinishType DEF GateOwnType, pools, history
  <1>3. hpc' = [hpc EXCEPT ![r] = "write"] /\ hpc \in [Calls -> Places]
    BY <1>1, FinishType DEF GateOwnType
  <1>4. ReplyIsOwn'
    BY <1>3 DEF GateInv, ReplyIsOwn, history
  <1>5. CodeChecked'
    BY <1>3 DEF GateInv, CodeChecked, history
  <1>6. RowFound'
    BY <1>3 DEF GateInv, RowFound, history
  <1> QED
    BY <1>2, <1>4, <1>5, <1>6 DEF GateInv

\* Steps of the verification service do not touch the gate.
LEMMA GateInvStutter == GateInv /\ UNCHANGED gvars => GateInv'
  BY DEF gvars, pools, history, GateInv, GateOwnType, ReplyIsOwn, CodeChecked, RowFound

\* The steps of HttpConnection.
LEMMA HttpInv ==
  ASSUME GateInv, NEW r \in Calls,
         HandleReq(r) \/ Drops(r) \/ Written(r) \/ CheckDeadLine(r) \/ Stops(r)
  PROVE  GateInv'
  <1>1. CASE Stops(r)
    <2>1. /\ up' = FALSE
          /\ UNCHANGED <<req, io, hpc, body, accounts, redisCons, mysqlCons, reply, faults>>
          /\ UNCHANGED <<did, truth, raced, rowless>>
      BY <1>1 DEF Stops, UrlDecodeAborts, Crash, pools, history
    <2>2. GateOwnType' /\ ReplyIsOwn' /\ CodeChecked' /\ RowFound'
      BY <2>1 DEF GateInv, GateOwnType, ReplyIsOwn, CodeChecked, RowFound
    <2> QED
      BY <2>2 DEF GateInv
  <1>2. CASE HandleReq(r) \/ Drops(r) \/ Written(r) \/ CheckDeadLine(r)
    <2>1. /\ UNCHANGED <<req, io, body, accounts, redisCons, mysqlCons, reply, up, faults>>
          /\ UNCHANGED <<did, truth, raced, rowless>>
          /\ \E p \in {"ignored", "begin", "sent", "closed", "dropped"} :
                hpc' = [hpc EXCEPT ![r] = p]
      BY <1>2 DEF HandleReq, readEnds, Drops, ReadFails, HandlerThrows, Written,
         CheckDeadLine, pools, history
    <2>2. PICK p \in {"ignored", "begin", "sent", "closed", "dropped"} :
               hpc' = [hpc EXCEPT ![r] = p]
      BY <2>1
    <2>3. GateOwnType'
      BY <2>1, <2>2 DEF GateInv, GateOwnType, Places, Handling
    <2>4. ReplyIsOwn' /\ CodeChecked' /\ RowFound'
      BY <2>1, <2>2 DEF GateInv, GateOwnType, ReplyIsOwn, CodeChecked, RowFound
    <2> QED
      BY <2>3, <2>4 DEF GateInv
  <1> QED
    BY <1>1, <1>2

\* The handlers before they ask Redis or MySQL.
LEMMA BeginInv ==
  ASSUME GateInv, VerifyTypeOK, NEW r \in Calls,
         \/ UrlNotFound(r) \/ get_test(r) \/ BadJson(r)
         \/ get_verifycode(r) \/ VerifyAnswered(r)
         \/ user_register(r) \/ reset_pwd(r) \/ user_login(r)
  PROVE  GateInv'
  <1> USE DEF GateInv, pools, history
  <1>1. CASE BadJson(r)
    <2> DEFINE more == IF req[r].kind = "login" THEN <<>> ELSE <<"Json">>
    <2>1. more \in Seq(Codes_)
      <3>1. "Json" \in Codes_
        BY DEF Codes_
      <3> QED  BY <3>1, OneDocument
    <2>2. finish(r, more)
      BY <1>1 DEF BadJson
    <2> HIDE DEF more
    <2> QED
      BY <1>1, <2>1, <2>2, FinishKeeps DEF BadJson
  <1>2. CASE get_verifycode(r)
    BY <1>2
    DEF get_verifycode, GateOwnType, ReplyIsOwn, CodeChecked, RowFound, Places, Handling
  <1>3. CASE VerifyAnswered(r)
    <2>1. <<vans[r]>> \in Seq(Codes_)
      <3>1. vans[r] \in Codes_
        BY <1>3 DEF VerifyAnswered, VerifyTypeOK, Codes_
      <3> QED  BY <3>1, OneDocument
    <2>2. finish(r, <<vans[r]>>)
      BY <1>3 DEF VerifyAnswered
    <2> QED
      BY <1>3, <2>1, <2>2, FinishKeeps DEF VerifyAnswered
  <1>4. CASE user_register(r)
    <2>1. body' \in [Calls -> Seq(Codes_)]
      BY <1>4 DEF user_register, GateOwnType, Codes_
    <2> QED
      BY <1>4, <2>1
      DEF user_register, GateOwnType, ReplyIsOwn, CodeChecked, RowFound, Places, Handling
  <1>5. CASE reset_pwd(r)
    BY <1>5 DEF reset_pwd, GateOwnType, ReplyIsOwn, CodeChecked, RowFound, Places, Handling
  <1>6. CASE user_login(r)
    BY <1>6 DEF user_login, GateOwnType, ReplyIsOwn, CodeChecked, RowFound, Places, Handling
  <1>7. <<"NotFound">> \in Seq(Codes_) /\ <<"Echo">> \in Seq(Codes_)
    <2>1. "NotFound" \in Codes_ /\ "Echo" \in Codes_
      BY DEF Codes_
    <2> QED  BY <2>1, OneDocument
  <1>8. CASE UrlNotFound(r)
    BY <1>7, <1>8, FinishKeeps DEF UrlNotFound
  <1>9. CASE get_test(r)
    BY <1>7, <1>9, FinishKeeps DEF get_test
  <1> QED
    BY <1>1, <1>2, <1>3, <1>4, <1>5, <1>6, <1>8, <1>9

\* RedisMgr::Get: the reply is the request's own until another Get overwrites
\* it, and then the request counts as raced.
LEMMA RedisInv ==
  ASSUME GateInv, VerifyTypeOK, NEW r \in Calls, RedisCommand(r) \/ RedisReply(r)
  PROVE  GateInv'
  <1> USE DEF GateInv, pools
  <1>1. CASE RedisCommand(r)
    <2>1. req[r].email \in Emails
      BY DEF GateOwnType, RequestType
    <2>2. code[req[r].email] \in Codes \cup {NoCode}
      BY <2>1 DEF VerifyTypeOK
    <2>3. PICK val \in {code[req[r].email], NoCode} :
            /\ IF val = code[req[r].email] THEN UNCHANGED faults ELSE fault
            /\ reply' = [of |-> r, val |-> val, freed |-> FALSE]
            /\ truth' = [truth EXCEPT ![r] = val]
      BY <1>1 DEF RedisCommand
    <2>4. val \in Codes \cup {NoCode} /\ faults' \in 0..MaxFaults
      BY <2>2, <2>3, VerifyAssumption DEF fault, GateOwnType, VerifyTypeOK
    <2>5. GateOwnType'
      BY <1>1, <2>3, <2>4 DEF RedisCommand, GateOwnType, Places, Handling
    <2>6. ReplyIsOwn' /\ CodeChecked' /\ RowFound'
      BY <1>1, <2>3 DEF RedisCommand, GateOwnType, ReplyIsOwn, CodeChecked, RowFound
    <2> QED  BY <2>5, <2>6
  <1>2. CASE RedisReply(r)
    <2>1. PICK val \in IF reply.freed THEN Codes \cup {NoCode} ELSE {reply.val} :
            IF CheckCode(r, val) = "ok"
            THEN hpc' = [hpc EXCEPT ![r] = "mysql"] /\ UNCHANGED body
            ELSE finish(r, <<CheckCode(r, val)>>)
      BY <1>2 DEF RedisReply
    <2>2. reply' \in [of : Calls \cup {0}, val : Codes \cup {NoCode}, freed : BOOLEAN]
      BY <1>2 DEF RedisReply, GateOwnType
    <2>3. raced' \subseteq Calls /\ raced \subseteq raced'
      BY <1>2 DEF RedisReply, GateOwnType
    <2>4. CASE CheckCode(r, val) = "ok"
      <3>1. val = req[r].code
        BY <2>4 DEF CheckCode
      <3>2. r \notin raced' => truth[r] = req[r].code
        <4> SUFFICES ASSUME ~reply.freed, reply.of = r PROVE truth[r] = req[r].code
          BY <1>2 DEF RedisReply
        <4> QED  BY <1>2, <2>1, <3>1 DEF RedisReply, ReplyIsOwn
      <3>3. hpc' = [hpc EXCEPT ![r] = "mysql"] /\ UNCHANGED body
        BY <2>1, <2>4
      <3>4. GateOwnType'
        BY <1>2, <2>2, <2>3, <3>3 DEF RedisReply, GateOwnType, Places, Handling
      <3>5. ReplyIsOwn' /\ CodeChecked' /\ RowFound'
        BY <1>2, <2>3, <3>2, <3>3
        DEF RedisReply, GateOwnType, ReplyIsOwn, CodeChecked, RowFound
      <3> QED  BY <3>4, <3>5
    <2>5. CASE CheckCode(r, val) # "ok"
      <3>1. CheckCode(r, val) \in Codes_
        BY <2>5 DEF CheckCode, Codes_
      <3>2. finish(r, <<CheckCode(r, val)>>) /\ <<CheckCode(r, val)>> \in Seq(Codes_)
        BY <2>1, <2>5, <3>1, OneDocument
      <3>3. hpc' = [hpc EXCEPT ![r] = "write"] /\ hpc' \in [Calls -> Places]
            /\ body' \in [Calls -> Seq(Codes_)]
        BY <3>2, FinishType
      <3>4. GateOwnType'
        BY <1>2, <2>2, <2>3, <3>3 DEF RedisReply, GateOwnType
      <3>5. ReplyIsOwn' /\ CodeChecked' /\ RowFound'
        BY <1>2, <2>3, <3>3
        DEF RedisReply, GateOwnType, ReplyIsOwn, CodeChecked, RowFound
      <3> QED  BY <3>4, <3>5
    <2> QED  BY <2>4, <2>5
  <1> QED
    BY <1>1, <1>2

\* What a failure leaves of the count of failures.
LEMMA FaultType == VerifyTypeOK /\ GateOwnType /\ fault => faults' \in 0..MaxFaults
  BY VerifyAssumption DEF VerifyTypeOK, GateOwnType, fault

\* A document that ends a handler is one of the error codes.
LEMMA Documents ==
  /\ <<"Success">> \in Seq(Codes_) /\ <<"EmailNotMatch">> \in Seq(Codes_)
  /\ <<"PasswdUpFailed">> \in Seq(Codes_) /\ <<"Passwd">> \in Seq(Codes_)
  /\ <<"RPCFailed">> \in Seq(Codes_) /\ <<"UserExist", "Success">> \in Seq(Codes_)
  <1>1. {"Success", "EmailNotMatch", "PasswdUpFailed", "Passwd", "RPCFailed", "UserExist"}
        \subseteq Codes_
    BY DEF Codes_
  <1>2. \A c, d \in Codes_ : <<c, d>> \in Seq(Codes_)
    OBVIOUS
  <1> QED
    BY <1>1, <1>2, OneDocument

\* What the two statements that change accounts do: the table keeps its type,
\* and no row changes its address or disappears.
LEMMA AccountsKept ==
  ASSUME GateOwnType, NEW r \in Calls,
         insertUser(r) \/ setPasswd(r) \/ UNCHANGED <<accounts, did>>
  PROVE  /\ accounts' \in [Names -> Accounts \cup {NoAccount}] /\ did' \subseteq Calls
         /\ \A n \in Names : accounts[n] # NoAccount =>
               accounts'[n] # NoAccount /\ accounts'[n].email = accounts[n].email
  <1>1. req[r].name \in Names /\ req[r].email \in Emails /\ req[r].pwd \in Pwds
    BY DEF GateOwnType, RequestType
  <1>2. CASE insertUser(r)
    BY <1>1, <1>2 DEF insertUser, Exists, GateOwnType, Accounts
  <1>3. CASE setPasswd(r) /\ accounts[req[r].name] # NoAccount
    <2> DEFINE a == accounts[req[r].name]
    <2>1. a \in Accounts
      BY <1>1, <1>3 DEF GateOwnType
    <2>2. [a EXCEPT !.pwd = req[r].pwd] \in Accounts
          /\ [a EXCEPT !.pwd = req[r].pwd].email = a.email
      BY <1>1, <2>1 DEF Accounts
    <2>3. accounts' = [accounts EXCEPT ![req[r].name] = [a EXCEPT !.pwd = req[r].pwd]]
      BY <1>3 DEF setPasswd
    <2> QED
      BY <1>1, <1>3, <2>2, <2>3 DEF setPasswd, GateOwnType
  <1>4. CASE UNCHANGED <<accounts, did>>
    BY <1>4 DEF GateOwnType
  <1> QED
    BY <1>2, <1>3, <1>4 DEF setPasswd

\* A handler that finishes after it may have changed an account.
LEMMA FinishChanged ==
  ASSUME GateInv, VerifyTypeOK, NEW r \in Calls, NEW more \in Seq(Codes_), finish(r, more),
         insertUser(r) \/ setPasswd(r) \/ UNCHANGED <<accounts, did>>,
         fault \/ UNCHANGED faults,
         UNCHANGED <<req, io, pools, reply, up, truth, raced, rowless>>
  PROVE  GateInv'
  <1>1. GateOwnType
    BY DEF GateInv
  <1>2. GateOwnType'
    BY <1>1, FinishType, AccountsKept, FaultType DEF GateOwnType, pools
  <1>3. ReplyIsOwn' /\ CodeChecked'
    BY <1>1, FinishType DEF GateInv, GateOwnType, ReplyIsOwn, CodeChecked
  <1>4. RowFound'
    <2> SUFFICES ASSUME NEW q \in Calls, hpc'[q] = "update"
                 PROVE  \/ q \in rowless
                        \/ /\ accounts'[req[q].name] # NoAccount
                           /\ accounts'[req[q].name].email = req[q].email
      BY DEF RowFound
    <2>1. req[q].name \in Names
      BY <1>1 DEF GateOwnType, RequestType
    <2>2. hpc[q] = "update"
      BY <1>1, FinishType DEF GateOwnType
    <2>3. accounts[req[q].name] # NoAccount =>
            /\ accounts'[req[q].name] # NoAccount
            /\ accounts'[req[q].name].email = accounts[req[q].name].email
      BY <1>1, <2>1, AccountsKept
    <2> QED
      BY <2>2, <2>3 DEF GateInv, RowFound
  <1> QED
    BY <1>2, <1>3, <1>4 DEF GateInv

\* MysqlDao: the statements that change accounts or only end a handler.
LEMMA MysqlInv ==
  ASSUME GateInv, VerifyTypeOK, NEW r \in Calls,
         RegUser(r) \/ updatePasswd(r) \/ checkPwd(r) \/ GetChatServer(r)
  PROVE  GateInv'
  <1>1. CASE RegUser(r)
    BY <1>1, Documents, FinishChanged DEF RegUser
  <1>2. CASE updatePasswd(r)
    BY <1>2, Documents, FinishChanged DEF updatePasswd
  <1>3. CASE checkPwd(r)
    <2>1. CASE /\ PwdMatches(r) /\ hpc' = [hpc EXCEPT ![r] = "status"]
               /\ UNCHANGED <<body, faults>>
      BY <1>3, <2>1 DEF checkPwd, GateInv, GateOwnType, ReplyIsOwn, CodeChecked, RowFound,
         Places, Handling, pools, history
    <2>2. CASE finish(r, <<"Passwd">>) /\ (fault \/ UNCHANGED faults)
      BY <1>3, <2>2, Documents, FinishChanged DEF checkPwd, history
    <2> QED
      BY <1>3, <2>1, <2>2 DEF checkPwd
  <1>4. CASE GetChatServer(r)
    BY <1>4, Documents, FinishChanged DEF GetChatServer, history
  <1> QED
    BY <1>1, <1>2, <1>3, <1>4

\* MysqlDao::checkEmail: whoever goes on to the update has found the row with
\* its address, or is one of the rowless.
LEMMA CheckEmailInv ==
  ASSUME GateInv, VerifyTypeOK, NEW r \in Calls, checkEmail(r)
  PROVE  GateInv'
  <1>1. GateOwnType
    BY DEF GateInv
  <1>2. /\ mysqlCons' \in 0..MysqlConns /\ faults' \in 0..MaxFaults
        /\ rowless' \subseteq Calls /\ rowless \subseteq rowless'
    BY <1>1, FaultType DEF checkEmail, GateOwnType
  <1>3. CASE finish(r, <<"EmailNotMatch">>)
    <2>1. /\ hpc' = [hpc EXCEPT ![r] = "write"] /\ hpc' \in [Calls -> Places]
          /\ body' \in [Calls -> Seq(Codes_)]
      BY <1>1, <1>3, Documents, FinishType
    <2>2. GateOwnType'
      BY <1>1, <1>2, <2>1 DEF checkEmail, GateOwnType
    <2>3. ReplyIsOwn' /\ CodeChecked' /\ RowFound'
      BY <1>1, <1>2, <2>1
      DEF checkEmail, GateInv, GateOwnType, ReplyIsOwn, CodeChecked, RowFound
    <2> QED  BY <2>2, <2>3 DEF GateInv
  <1>4. CASE hpc' = [hpc EXCEPT ![r] = "update"] /\ UNCHANGED body
    <2>1. hpc'[r] # "write"
      BY <1>1, <1>4 DEF GateOwnType
    <2>2. ~finish(r, <<"EmailNotMatch">>)
      BY <1>1, <2>1 DEF finish, GateOwnType
    <2>3. \/ r \in rowless'
          \/ /\ accounts[req[r].name] # NoAccount
             /\ accounts[req[r].name].email = req[r].email
      BY <2>2 DEF checkEmail, EmailMatches
    <2>4. GateOwnType'
      BY <1>1, <1>2, <1>4 DEF checkEmail, GateOwnType, Places, Handling
    <2>5. ReplyIsOwn' /\ CodeChecked'
      BY <1>1, <1>4 DEF checkEmail, GateInv, GateOwnType, ReplyIsOwn, CodeChecked
    <2>6. RowFound'
      BY <1>1, <1>2, <1>4, <2>3 DEF checkEmail, GateInv, GateOwnType, RowFound
    <2> QED  BY <2>4, <2>5, <2>6 DEF GateInv
  <1> QED
    BY <1>3, <1>4 DEF checkEmail

\* Every step keeps the invariant.
LEMMA GateInvStep == GateInv /\ VerifyTypeOK /\ [Next]_vars => GateInv'
  <1> SUFFICES ASSUME GateInv, VerifyTypeOK, [Next]_vars PROVE GateInv'
    OBVIOUS
  <1>1. CASE UNCHANGED gvars
    BY <1>1, GateInvStutter
  <1>2. ASSUME NEW r \in Calls, HttpStep(r) \/ Stops(r) PROVE GateInv'
    BY <1>2, HttpInv, BeginInv, RedisInv, MysqlInv, CheckEmailInv
    DEF HttpStep, HandlerStep, Drops
  <1> QED
    BY <1>1, <1>2 DEF Next, Stops, vars

\* The invariant holds in every state of every behaviour.
LEMMA GateInvHolds == Spec => [](GateInv /\ VerifyTypeOK)
  <1>1. Spec => []VerifyTypeOK
    BY GateUsesVerify, VerifyTypeCorrect, PTL
  <1> QED
    BY <1>1, GateInitHolds, GateInvStep, PTL DEF Spec

\* All variables of the gate and of the service keep their types.
THEOREM GateTypeCorrect == Spec => []GateTypeOK
  <1>1. GateInv /\ VerifyTypeOK => GateTypeOK
    BY DEF GateInv, GateOwnType, GateTypeOK, Places
  <1> QED
    BY <1>1, GateInvHolds, PTL

\* user_register and reset_pwd: no request whose Get overlapped with no other
\* gets past the code without the code Redis had for its mailbox.
THEOREM CodesChecked == Spec => []CodeChecked
  <1>1. GateInv => CodeChecked
    BY DEF GateInv
  <1> QED
    BY <1>1, GateInvHolds, PTL

\* checkEmail and updatePasswd, two statements: an account changes only through
\* a request for its address, or one that ran off the end of checkEmail.
THEOREM AccountsChangedByOwner == Spec => ChangedByOwner
  <1>1. GateInv /\ [Next]_vars =>
          [\A n \in Names :
             (accounts[n] # NoAccount /\ accounts'[n] # accounts[n]) =>
                \E r \in Calls : /\ req[r].name = n /\ hpc[r] = "update"
                                 /\ req[r].email = accounts[n].email \/ r \in rowless]_vars
    <2> SUFFICES ASSUME GateInv, Next, NEW n \in Names,
                        accounts[n] # NoAccount, accounts'[n] # accounts[n]
                 PROVE  \E r \in Calls :
                           /\ req[r].name = n /\ hpc[r] = "update"
                           /\ req[r].email = accounts[n].email \/ r \in rowless
      OBVIOUS
    <2>1. GateOwnType /\ RowFound
      BY DEF GateInv
    <2>2. PICK r \in Calls : HttpStep(r) \/ Stops(r)
      BY DEF Next, Stops, gvars
    <2>3. RegUser(r) \/ updatePasswd(r)
      BY <2>2 DEF HttpStep, HandlerStep, HandleReq, readEnds, Drops, ReadFails,
         HandlerThrows, Written, CheckDeadLine, Stops,
         UrlDecodeAborts, Crash, UrlNotFound, get_test, BadJson, VerifyAnswered,
         user_register, reset_pwd, user_login, get_verifycode,
         RedisCommand, RedisReply, checkEmail, checkPwd, GetChatServer
    <2>4. req[r].name \in Names
      BY <2>1 DEF GateOwnType, RequestType
    <2>5. ~insertUser(r)
      BY <2>1, <2>4 DEF insertUser, Exists, GateOwnType
    <2>6. updatePasswd(r)
      BY <2>3, <2>5 DEF RegUser
    <2>7. req[r].name = n
      BY <2>1, <2>4, <2>6 DEF updatePasswd, setPasswd, GateOwnType
    <2> QED
      BY <2>1, <2>6, <2>7 DEF updatePasswd, RowFound
  <1> QED
    BY <1>1, GateInvHolds, PTL DEF Spec, ChangedByOwner
-----------------------------------------------------------------------------
(* From the mailbox to the account. *)

\* The service's invariant, behind the gate.
LEMMA ServiceInvHolds == Spec => []VerifyInv
  BY GateUsesVerify, VerifyInvHolds, PTL

\* A step of the gate or of the service is one of the service or leaves it alone.
LEMMA StepOfVerify == GateInv /\ [Next]_vars => [VerifyNext]_vvars
  <1> SUFFICES ASSUME GateInv, [Next]_vars PROVE [VerifyNext]_vvars
    OBVIOUS
  <1>1. CASE VerifyStep
    BY <1>1 DEF VerifyNext
  <1>2. ASSUME NEW r \in Calls, HttpStep(r) \/ Stops(r) PROVE [VerifyNext]_vvars
    BY <1>2, HttpStepOfVerify DEF VerifyNext, GateInv, GateOwnType
  <1>3. CASE UNCHANGED vars
    BY <1>3 DEF vars
  <1> QED
    BY <1>1, <1>2, <1>3 DEF Next, Stops

\* What a mailbox was sent, or is about to be, stays so: a call that has stored
\* a code mails it, unless something fails.
LEMMA MailedStays ==
  ASSUME VerifyInv, [VerifyNext]_vvars, NEW e \in Emails, NEW c, MailedTo(e, c)
  PROVE  MailedTo(e, c)'
  <1> USE DEF VerifyInv, VerifyTypeOK, ClosedByError
  <1>1. errors' \in Nat /\ errors \in Nat
    BY VerifyTypeStep
  <1>2. errors > 0 => errors' > 0
    BY <1>1 DEF VerifyNext, VerifyStep, CallStep, GetVarifyCode, GetRedis, SetCode,
       SetCodeLost,
       Expire, SetRedisFails, rejected, SendMail, SendMailRejected, RedisError, Restart,
       Tick, vvars
  <1>3. mailed[e] \subseteq mailed'[e]
    BY DEF VerifyNext, VerifyStep, CallStep, GetVarifyCode, GetRedis, SetCode, SetCodeLost,
       Expire, SetRedisFails, rejected, SendMail, SendMailRejected, RedisError, Restart,
       Tick, vvars
  <1>4. ASSUME NEW q \in Calls, vemail[q] = e, vcode[q] = c, vpc[q] \in {"expire", "mail"}
        PROVE  MailedTo(e, c)'
    <2> DEFINE same == vemail'[q] = e /\ vcode'[q] = c
    <2>1. CASE same /\ vpc'[q] \in {"expire", "mail"}
      BY <2>1 DEF MailedTo
    <2>2. CASE c \in mailed'[e] \/ errors' > 0
      BY <2>2 DEF MailedTo
    <2>3. CASE SetRedisFails(q) \/ SendMailRejected(q) \/ Restart
      BY <2>2, <2>3, <1>1 DEF SetRedisFails, rejected, SendMailRejected, Restart
    <2>4. CASE SendMail(q)
      BY <2>2, <2>4, <1>4 DEF SendMail
    <2>5. CASE Expire(q)
      BY <2>1, <2>5, <1>4 DEF Expire
    <2>6. ASSUME NEW p \in Calls \ {q}, CallStep(p) PROVE same /\ vpc'[q] = vpc[q]
      BY <2>6, <1>4 DEF CallStep, GetRedis, SetCode, SetCodeLost, Expire, SetRedisFails,
         SendMail, SendMailRejected, callback
    <2>7. ASSUME NEW p \in Calls, NEW m \in Emails, GetVarifyCode(p, m)
          PROVE  same /\ vpc'[q] = vpc[q]
      BY <2>7, <1>4 DEF GetVarifyCode
    <2>8. CASE RedisError \/ (\E m \in Emails : Tick(m)) \/ UNCHANGED vvars
      BY <2>1, <2>8, <1>4 DEF RedisError, Tick, vvars
    <2>9. CASE CallStep(q)
      BY <2>3, <2>4, <2>5, <2>9, <1>4 DEF CallStep, GetRedis, SetCode, SetCodeLost
    <2> QED
      BY <2>1, <2>3, <2>6, <2>7, <2>8, <2>9, <1>4 DEF VerifyNext, VerifyStep
  <1> QED
    BY <1>2, <1>3, <1>4 DEF MailedTo

\* The code a request compares with was sent to the mailbox the request gives,
\* or is about to be: it was when Redis was asked, and that cannot be undone.
TruthMailed == \A r \in Calls : truth[r] # NoCode => MailedTo(req[r].email, truth[r])

LEMMA TruthStep ==
  GateInv /\ VerifyInv /\ TruthMailed /\ [Next]_vars => TruthMailed'
  <1> SUFFICES ASSUME GateInv, VerifyInv, TruthMailed, [Next]_vars
               PROVE  TruthMailed'
    OBVIOUS
  <1>0. req' = req
    BY ReqKept DEF vars, gvars
  <1> SUFFICES ASSUME NEW r \in Calls, NEW e, NEW c,
                      req[r].email = e, truth'[r] = c, c # NoCode
               PROVE  MailedTo(e, c)'
    BY <1>0 DEF TruthMailed
  <1>1. e \in Emails
    BY DEF GateInv, GateOwnType, RequestType
  <1>2. MailedTo(e, c)
    <2>1. CASE truth[r] = c
      BY <2>1 DEF TruthMailed
    <2>2. CASE truth[r] # c
      <3>1. PICK q \in Calls : RedisCommand(q)
        BY <2>2 DEF Next, Stops, gvars, vars, history, HttpStep, HandlerStep, HandleReq,
           readEnds, Drops, ReadFails, HandlerThrows,
           Written, CheckDeadLine, UrlDecodeAborts, Crash, UrlNotFound, get_test, BadJson,
           VerifyAnswered, user_register, reset_pwd, user_login, get_verifycode,
           RedisReply, RegUser, checkEmail, updatePasswd, checkPwd, GetChatServer
      <3>2. PICK val \in {code[req[q].email], NoCode} : truth' = [truth EXCEPT ![q] = val]
        BY <3>1 DEF RedisCommand
      <3>3. q = r /\ c = code[e]
        BY <2>2, <3>2 DEF GateInv, GateOwnType
      <3> QED
        BY <1>1, <3>3 DEF VerifyInv, StoredCodeMailed, MailedTo
    <2> QED
      BY <2>1, <2>2
  <1> QED
    BY <1>1, <1>2, StepOfVerify, MailedStays

LEMMA TruthHolds == Spec => [](GateInv /\ VerifyInv /\ TruthMailed)
  <1>1. Init => TruthMailed
    BY DEF Init, GateInit, TruthMailed
  <1> QED
    BY <1>1, TruthStep, GateInvHolds, ServiceInvHolds, PTL DEF Spec

\* Each place of a handler belongs to the routes that go there.
PlaceOfRoute(kind, place) ==
    /\ place = "verify" => kind = "verifycode"
    /\ place \in {"redis", "read"} => kind \in {"register", "reset"}
    /\ place = "update" => kind = "reset"
    /\ place = "status" => kind = "login"

RoutesKept == \A r \in Calls : PlaceOfRoute(req[r].kind, hpc[r])

LEMMA RoutesHold == Spec => []RoutesKept
  <1>1. Init => RoutesKept
    BY DEF Init, GateInit, RoutesKept, PlaceOfRoute
  <1>2. GateInv /\ RoutesKept /\ [Next]_vars => RoutesKept'
    <2> SUFFICES ASSUME GateInv, RoutesKept, [Next]_vars PROVE RoutesKept'
      OBVIOUS
    <2>0. req' = req
      BY ReqKept DEF vars, gvars
    <2>1. CASE UNCHANGED hpc
      BY <2>0, <2>1 DEF RoutesKept
    <2>2. ASSUME NEW r \in Calls, NEW to, PlaceOfRoute(req[r].kind, to),
                 hpc' = [hpc EXCEPT ![r] = to]
          PROVE  RoutesKept'
      BY <2>0, <2>2 DEF GateInv, GateOwnType, RoutesKept
    <2>3. ASSUME NEW r \in Calls, hpc' = [hpc EXCEPT ![r] = "write"]
          PROVE  RoutesKept'
      <3>1. PlaceOfRoute(req[r].kind, "write")
        BY DEF PlaceOfRoute
      <3> QED  BY <2>2, <2>3, <3>1
    <2>4. ASSUME NEW r \in Calls,
                 HandleReq(r) \/ Drops(r) \/ Written(r) \/ CheckDeadLine(r) \/ Stops(r)
          PROVE  RoutesKept'
      <3>1. \A to \in {"ignored", "begin", "sent", "closed", "dropped"} :
               PlaceOfRoute(req[r].kind, to)
        BY DEF PlaceOfRoute
      <3> QED
        BY <2>1, <2>2, <2>4, <3>1 DEF HandleReq, readEnds, Drops, ReadFails,
           HandlerThrows, Written, CheckDeadLine, Stops,
           UrlDecodeAborts, Crash
    <2>5. ASSUME NEW r \in Calls, \/ UrlNotFound(r) \/ get_test(r) \/ BadJson(r)
                                  \/ VerifyAnswered(r) \/ RegUser(r) \/ updatePasswd(r)
                                  \/ GetChatServer(r)
          PROVE  RoutesKept'
      BY <2>3, <2>5 DEF UrlNotFound, get_test, BadJson, VerifyAnswered, RegUser,
         updatePasswd, GetChatServer, finish
    <2>6. ASSUME NEW r \in Calls, get_verifycode(r) \/ user_register(r) \/ reset_pwd(r)
                                  \/ user_login(r)
          PROVE  RoutesKept'
      <3>1. PICK to \in {"verify", "redis", "mysql"} :
               hpc' = [hpc EXCEPT ![r] = to] /\ PlaceOfRoute(req[r].kind, to)
        BY <2>6 DEF get_verifycode, user_register, reset_pwd, user_login, PlaceOfRoute
      <3> QED  BY <2>2, <3>1
    <2>7. ASSUME NEW r \in Calls, RedisCommand(r) \/ RedisReply(r) PROVE RoutesKept'
      <3>1. \/ hpc' = [hpc EXCEPT ![r] = "write"]
            \/ \E to \in {"read", "mysql"} :
                  hpc' = [hpc EXCEPT ![r] = to] /\ PlaceOfRoute(req[r].kind, to)
        BY <2>7 DEF RedisCommand, RedisReply, finish, RoutesKept, PlaceOfRoute
      <3> QED  BY <2>2, <2>3, <3>1
    <2>8. ASSUME NEW r \in Calls, checkEmail(r) \/ checkPwd(r) PROVE RoutesKept'
      <3>1. \/ hpc' = [hpc EXCEPT ![r] = "write"]
            \/ \E to \in {"update", "status"} :
                  hpc' = [hpc EXCEPT ![r] = to] /\ PlaceOfRoute(req[r].kind, to)
        BY <2>8 DEF checkEmail, checkPwd, finish, PlaceOfRoute
      <3> QED  BY <2>2, <2>3, <3>1
    <2> QED
      BY <2>1, <2>4, <2>5, <2>6, <2>7, <2>8
      DEF Next, HttpStep, HandlerStep, Drops, Stops, gvars, vars
  <1> QED
    BY <1>1, <1>2, GateInvHolds, PTL DEF Spec

\* user_register, reset_pwd and varifyServer together: an account is made or
\* changed only with a code that the mailbox of the account was sent.
THEOREM AccountsMadeByMailbox == Spec => AccountByMailbox
  <1>1. GateInv /\ TruthMailed /\ RoutesKept /\ [Next]_vars =>
          [\A n \in Names :
             accounts'[n] # accounts[n] =>
               \E r \in Calls :
                  /\ hpc[r] # hpc'[r] /\ req[r].name = n
                  /\ req[r].email = accounts'[n].email \/ r \in rowless
                  /\ MailedTo(req[r].email, req[r].code) \/ r \in raced]_vars
    <2> SUFFICES ASSUME GateInv, TruthMailed, RoutesKept, Next, NEW n \in Names,
                        accounts'[n] # accounts[n]
                 PROVE  \E r \in Calls :
                           /\ hpc[r] # hpc'[r] /\ req[r].name = n
                           /\ req[r].email = accounts'[n].email \/ r \in rowless
                           /\ MailedTo(req[r].email, req[r].code) \/ r \in raced
      OBVIOUS
    <2>1. GateOwnType /\ RowFound /\ CodeChecked
      BY DEF GateInv
    <2>2. PICK r \in Calls : RegUser(r) \/ updatePasswd(r)
      BY DEF Next, Stops, gvars, HttpStep, HandlerStep, HandleReq, readEnds, Drops,
         ReadFails, HandlerThrows, Written, CheckDeadLine,
         UrlDecodeAborts, Crash, UrlNotFound, get_test, BadJson, VerifyAnswered,
         user_register, reset_pwd, user_login, get_verifycode,
         RedisCommand, RedisReply, checkEmail, checkPwd, GetChatServer
    <2>3. req[r].name \in Names /\ req[r].code \in Codes
      BY <2>1 DEF GateOwnType, RequestType
    <2>4. \/ insertUser(r) /\ hpc[r] = "mysql" /\ req[r].kind = "register"
          \/ setPasswd(r) /\ hpc[r] = "update"
      BY <2>2 DEF RegUser, updatePasswd
    <2>5. req[r].name = n
      BY <2>1, <2>3, <2>4 DEF insertUser, setPasswd, GateOwnType
    <2>6. hpc'[r] = "write"
      BY <2>1, <2>2 DEF RegUser, updatePasswd, finish, GateOwnType
    <2>7. req[r].email = accounts'[n].email \/ r \in rowless
      <3>1. CASE insertUser(r)
        BY <2>1, <2>5, <3>1 DEF insertUser, GateOwnType
      <3>2. CASE setPasswd(r) /\ hpc[r] = "update"
        BY <2>1, <2>5, <3>2, AccountsKept DEF RowFound
      <3> QED
        BY <2>4, <3>1, <3>2
    <2>8. req[r].kind # "login"
      BY <2>4 DEF RoutesKept, PlaceOfRoute
    <2>9. r \in raced \/ truth[r] = req[r].code
      BY <2>1, <2>4, <2>8 DEF CodeChecked
    <2> QED
      BY <2>3, <2>4, <2>5, <2>6, <2>7, <2>9, VerifyAssumption DEF TruthMailed
  <1> QED
    BY <1>1, TruthHolds, RoutesHold, PTL DEF Spec, AccountByMailbox
-----------------------------------------------------------------------------
(* What the answer of a registration is worth. *)

HasDocument(doc, d) == \E i \in DOMAIN doc : doc[i] = d

\* A registration that is answered with Success alone made the account, and one
\* that made it is answered with Success: the client that ignores Success after
\* UserExist is misled only when the procedure failed after it had run.
RegisterAnswered ==
    \A r \in Calls : req[r].kind = "register" =>
        /\ (HasDocument(body[r], "Success") /\ r \notin did)
           => HasDocument(body[r], "UserExist")
        /\ r \in did => HasDocument(body[r], "Success")

\* Before it is answered nothing is claimed, and nothing is made.
Answered(place) == place \in {"write", "ignored", "sent", "closed", "dropped"}

NothingClaimed ==
    \A r \in Calls : (req[r].kind = "register" /\ ~Answered(hpc[r])) =>
        ~HasDocument(body[r], "Success") /\ r \notin did

\* The documents of two bodies in a row.
LEMMA DocumentsOf ==
  ASSUME NEW s \in Seq(Codes_), NEW t \in Seq(Codes_), NEW d
  PROVE  HasDocument(s \o t, d) <=> HasDocument(s, d) \/ HasDocument(t, d)
  <1>1. ASSUME NEW i \in DOMAIN s PROVE i \in DOMAIN (s \o t) /\ (s \o t)[i] = s[i]
    BY <1>1
  <1>2. ASSUME NEW i \in DOMAIN t
        PROVE  Len(s) + i \in DOMAIN (s \o t) /\ (s \o t)[Len(s) + i] = t[i]
    BY <1>2
  <1>3. ASSUME NEW i \in DOMAIN (s \o t)
        PROVE  \/ i \in DOMAIN s /\ (s \o t)[i] = s[i]
               \/ i - Len(s) \in DOMAIN t /\ (s \o t)[i] = t[i - Len(s)]
    BY <1>3
  <1> QED
    BY <1>1, <1>2, <1>3 DEF HasDocument

\* What a step does to a registration: nothing that shows, a document that
\* claims nothing, or the end of RegUser.
Shows(r, more) ==
    ~Answered(hpc[r]) /\ more \in Seq(Codes_) /\ body'[r] = body[r] \o more

LEMMA RegisterStep ==
  ASSUME GateInv, VerifyTypeOK, RoutesKept, [Next]_vars,
         NEW r \in Calls, req[r].kind = "register"
  PROVE  \/ /\ body'[r] = body[r] /\ (r \in did' <=> r \in did)
            /\ Answered(hpc[r]) => Answered(hpc'[r])
         \/ /\ \E more : Shows(r, more) /\ ~HasDocument(more, "Success")
            /\ r \in did' <=> r \in did
         \/ Answered(hpc'[r]) /\ Shows(r, <<"Success">>) /\ r \in did'
         \/ Answered(hpc'[r]) /\ Shows(r, <<"UserExist", "Success">>)
  <1> DEFINE quiet == /\ body'[r] = body[r] /\ (r \in did' <=> r \in did)
                      /\ Answered(hpc[r]) => Answered(hpc'[r])
             says == /\ \E more : Shows(r, more) /\ ~HasDocument(more, "Success")
                     /\ r \in did' <=> r \in did
  <1> USE DEF GateInv, GateOwnType
  <1>1. CASE UNCHANGED gvars
    BY <1>1 DEF gvars, history
  <1>2. ASSUME NEW q \in Calls \ {r}, HttpStep(q) PROVE quiet
    <2>1. CASE HandleReq(q) \/ Drops(q) \/ Written(q) \/ CheckDeadLine(q) \/ RedisCommand(q)
      BY <1>2, <2>1 DEF HandleReq, Drops, ReadFails, HandlerThrows, Written, CheckDeadLine,
         RedisCommand, history
    <2>2. CASE \/ UrlNotFound(q) \/ get_test(q) \/ BadJson(q) \/ get_verifycode(q)
               \/ VerifyAnswered(q) \/ user_register(q) \/ reset_pwd(q) \/ user_login(q)
      BY <1>2, <2>2 DEF UrlNotFound, get_test, BadJson, get_verifycode, VerifyAnswered,
         user_register, reset_pwd, user_login, finish, history
    <2>3. CASE RedisReply(q) \/ checkEmail(q) \/ checkPwd(q) \/ GetChatServer(q)
      BY <1>2, <2>3 DEF RedisReply, checkEmail, checkPwd, GetChatServer, finish, history
    <2>4. CASE RegUser(q) \/ updatePasswd(q)
      <3>1. /\ body'[r] = body[r] /\ hpc'[r] = hpc[r]
            /\ did' = did \/ did' = did \cup {q}
        BY <1>2, <2>4 DEF RegUser, updatePasswd, finish, insertUser, setPasswd, history
      <3> QED
        BY <1>2, <3>1
    <2> QED
      BY <1>2, <2>1, <2>2, <2>3, <2>4 DEF HttpStep, HandlerStep, Drops
  <1>3. ASSUME NEW q \in Calls, Stops(q) PROVE quiet
    BY <1>3 DEF Stops, UrlDecodeAborts, Crash, history
  <1>4. CASE HandleReq(r) \/ Drops(r) \/ Written(r) \/ CheckDeadLine(r) \/ RedisCommand(r)
    BY <1>4 DEF HandleReq, readEnds, Drops, ReadFails, HandlerThrows, Written,
       CheckDeadLine, RedisCommand, Answered, history
  <1>5. ASSUME NEW d \in Codes_ \ {"Success"}, ~Answered(hpc[r]), did' = did,
               body' = [body EXCEPT ![r] = @ \o <<d>>]
        PROVE  says
    <2>1. <<d>> \in Seq(Codes_) /\ \A i \in DOMAIN <<d>> : <<d>>[i] = d
      BY OneDocument
    <2>2. Shows(r, <<d>>)
      BY <1>5, <2>1 DEF Shows
    <2>3. ~HasDocument(<<d>>, "Success")
      BY <1>5, <2>1 DEF HasDocument
    <2> QED
      BY <1>5, <2>2, <2>3
  <1>6. CASE BadJson(r) \/ user_register(r) \/ RedisReply(r)
    <2>1. {"Json", "Passwd", "VerifyExpired", "VerifyCode"} \subseteq Codes_ \ {"Success"}
          /\ ~Answered(hpc[r])
      BY <1>6 DEF BadJson, user_register, RedisReply, Codes_, Answered
    <2>2. CASE BadJson(r)
      BY <2>1, <2>2, <1>5 DEF BadJson, finish, history
    <2>3. CASE user_register(r)
      <3>1. Append(body[r], "Passwd") = body[r] \o <<"Passwd">>
        OBVIOUS
      <3> QED
        BY <2>1, <2>3, <3>1, <1>5 DEF user_register, history
    <2>4. CASE RedisReply(r)
      BY <2>1, <2>4, <1>5 DEF RedisReply, CheckCode, finish
    <2> QED
      BY <1>6, <2>2, <2>3, <2>4
  <1>7. CASE RegUser(r)
    <2>1. ~Answered(hpc[r])
      BY <1>7 DEF RegUser, Answered
    <2>2. \/ finish(r, <<"Success">>) /\ r \in did'
          \/ finish(r, <<"UserExist", "Success">>)
      BY <1>7 DEF RegUser, insertUser
    <2>3. hpc'[r] = "write" /\ Answered(hpc'[r])
      BY <2>2 DEF finish, Answered
    <2> QED
      BY <2>1, <2>2, <2>3, Documents DEF finish, Shows
  <1>8. ~(\/ UrlNotFound(r) \/ get_test(r) \/ get_verifycode(r) \/ VerifyAnswered(r)
          \/ reset_pwd(r) \/ user_login(r) \/ checkEmail(r) \/ updatePasswd(r)
          \/ checkPwd(r) \/ GetChatServer(r))
    BY DEF UrlNotFound, get_test, get_verifycode, VerifyAnswered, reset_pwd, user_login,
       checkEmail, updatePasswd, checkPwd, GetChatServer, RoutesKept, PlaceOfRoute
  <1> QED
    BY <1>1, <1>2, <1>3, <1>4, <1>6, <1>7, <1>8
    DEF Next, HttpStep, HandlerStep, Drops, Stops, gvars, vars

\* user_register: the answer tells whether the account was made, up to the
\* failure that RegUser reports as a user that exists.
THEOREM RegistrationsAnswered == Spec => []RegisterAnswered
  <1> DEFINE R == RegisterAnswered /\ NothingClaimed
  <1>1. Init => R
    BY DEF Init, GateInit, RegisterAnswered, NothingClaimed, HasDocument
  <1>2. GateInv /\ VerifyTypeOK /\ RoutesKept /\ R /\ [Next]_vars => R'
    <2> SUFFICES ASSUME GateInv, VerifyTypeOK, RoutesKept, R, [Next]_vars PROVE R'
      OBVIOUS
    <2>1. req' = req
      BY ReqKept DEF vars, gvars
    <2> SUFFICES ASSUME NEW r \in Calls, req[r].kind = "register"
        PROVE /\ (HasDocument(body'[r], "Success") /\ r \notin did')
                 => HasDocument(body'[r], "UserExist")
              /\ r \in did' => HasDocument(body'[r], "Success")
              /\ ~Answered(hpc'[r]) => ~HasDocument(body'[r], "Success") /\ r \notin did'
      BY <2>1 DEF RegisterAnswered, NothingClaimed
    <2>2. /\ (HasDocument(body[r], "Success") /\ r \notin did)
             => HasDocument(body[r], "UserExist")
          /\ r \in did => HasDocument(body[r], "Success")
          /\ ~Answered(hpc[r]) => ~HasDocument(body[r], "Success") /\ r \notin did
      BY DEF RegisterAnswered, NothingClaimed
    <2>3. \A more, d : Shows(r, more) =>
             (HasDocument(body'[r], d) <=> HasDocument(body[r], d) \/ HasDocument(more, d))
      <3>1. body[r] \in Seq(Codes_)
        BY DEF GateInv, GateOwnType
      <3> QED
        BY <3>1, DocumentsOf DEF Shows
    <2>4. /\ HasDocument(<<"Success">>, "Success")
          /\ HasDocument(<<"UserExist", "Success">>, "Success")
          /\ HasDocument(<<"UserExist", "Success">>, "UserExist")
      <3>1. \A a, b : <<a>>[1] = a /\ 1 \in DOMAIN <<a>>
                      /\ <<a, b>>[1] = a /\ <<a, b>>[2] = b /\ {1, 2} \subseteq DOMAIN <<a, b>>
        OBVIOUS
      <3> QED
        BY <3>1 DEF HasDocument
    <2>5. \A more : Shows(r, more) => ~Answered(hpc[r])
      BY DEF Shows
    <2> HIDE DEF R
    <2> QED
      BY <2>2, <2>3, <2>4, <2>5, RegisterStep
  <1>3. R => RegisterAnswered
    OBVIOUS
  <1> QED
    BY <1>1, <1>2, <1>3, GateInvHolds, RoutesHold, PTL DEF Spec
-----------------------------------------------------------------------------
(* Where the connections of the pools go. *)

\* Requests that have had RedisMgr::Get.
Asked ==
    {r \in Calls : /\ req[r].json = "object" /\ req[r].kind \in {"register", "reset"}
                   /\ hpc[r] \notin {"reading", "begin", "redis", "dropped"}}

\* Every registration and every reset that parses costs a Redis connection for
\* good, and nothing else does; every reset of a name without a row costs a
\* MySQL connection, and nothing else does.  So neither pool is empty before that
\* many of these requests (RedisMgr.cpp 29-51, MysqlDao.cpp 61-92).
ConnectionsCounted ==
    /\ IsFiniteSet(Asked) /\ redisCons + Cardinality(Asked) = RedisConns
    /\ IsFiniteSet(rowless) /\ mysqlCons + Cardinality(rowless) = MysqlConns

\* Only a body that parses gets as far as Redis, and who is rowless is past
\* checkEmail.
PlacesOfCounted ==
    /\ \A r \in Calls : hpc[r] = "redis" => req[r].json = "object"
    /\ \A r \in rowless : hpc[r] \in {"update", "write", "sent", "closed"}

\* A step that asks Redis, one that finds no row, and all others.
LEMMA CountedStep ==
  ASSUME GateInv, RoutesKept, PlacesOfCounted, [Next]_vars
  PROVE  /\ \/ redisCons' = redisCons /\ Asked' = Asked
            \/ \E r \in Calls \ Asked : redisCons' = redisCons - 1 /\ Asked' = Asked \cup {r}
         /\ \/ mysqlCons' = mysqlCons /\ rowless' = rowless
            \/ \E r \in Calls \ rowless :
                  mysqlCons' = mysqlCons - 1 /\ rowless' = rowless \cup {r}
         /\ PlacesOfCounted'
  <1> USE DEF GateInv, GateOwnType, Asked, PlacesOfCounted, pools, history
  <1>0. req' = req
    BY ReqKept DEF vars, gvars
  <1>1. CASE UNCHANGED gvars
    BY <1>1 DEF gvars
  <1>2. ASSUME NEW r \in Calls, Stops(r) PROVE UNCHANGED <<hpc, redisCons, mysqlCons, rowless>>
    BY <1>2 DEF Stops, UrlDecodeAborts, Crash
  <1>3. ASSUME NEW r \in Calls,
               \/ HandleReq(r) \/ Drops(r) \/ UrlNotFound(r) \/ get_test(r) \/ BadJson(r)
               \/ get_verifycode(r) \/ user_register(r) \/ reset_pwd(r) \/ user_login(r)
        PROVE  /\ UNCHANGED <<redisCons, mysqlCons, rowless>> /\ Asked' = Asked
               /\ PlacesOfCounted'
    <2>1. PICK to \in Places : /\ hpc' = [hpc EXCEPT ![r] = to]
                               /\ hpc[r] \in {"reading", "begin"}
                               /\ to = "redis" => req[r].json = "object"
                               /\ \/ to \in {"begin", "redis", "dropped"}
                                  \/ req[r].json # "object"
                                  \/ req[r].kind \notin {"register", "reset"}
      BY <1>3 DEF HandleReq, readEnds, Drops, ReadFails, HandlerThrows, UrlNotFound,
         get_test, BadJson, get_verifycode, user_register,
         reset_pwd, user_login, finish, Places, Handling
    <2>2. UNCHANGED <<redisCons, mysqlCons, rowless>>
      BY <1>3 DEF HandleReq, readEnds, Drops, ReadFails, HandlerThrows, UrlNotFound,
         get_test, BadJson, get_verifycode, user_register,
         reset_pwd, user_login
    <2> QED
      BY <1>0, <2>1, <2>2
  <1>4. ASSUME NEW r \in Calls,
               \/ Written(r) \/ CheckDeadLine(r) \/ VerifyAnswered(r) \/ RedisReply(r)
               \/ RegUser(r) \/ updatePasswd(r) \/ checkPwd(r) \/ GetChatServer(r)
        PROVE  /\ UNCHANGED <<redisCons, mysqlCons, rowless>> /\ Asked' = Asked
               /\ PlacesOfCounted'
    <2>1. PICK to \in Places : /\ hpc' = [hpc EXCEPT ![r] = to]
                               /\ hpc[r] \notin {"reading", "begin", "redis", "dropped"}
                               /\ to \notin {"reading", "begin", "redis", "dropped"}
                               /\ to \in {"update", "write", "sent", "closed"}
                                  \/ hpc[r] \in {"read", "mysql"}
      BY <1>4 DEF Written, CheckDeadLine, VerifyAnswered, RedisReply, RegUser, updatePasswd,
         checkPwd, GetChatServer, finish, Places, Handling
    <2>2. UNCHANGED <<redisCons, mysqlCons, rowless>>
      BY <1>4 DEF Written, CheckDeadLine, VerifyAnswered, RedisReply, RegUser, updatePasswd,
         checkPwd, GetChatServer
    <2> QED
      BY <1>0, <2>1, <2>2
  <1>5. ASSUME NEW r \in Calls, RedisCommand(r)
        PROVE  /\ UNCHANGED <<mysqlCons, rowless>> /\ PlacesOfCounted'
               /\ r \notin Asked /\ redisCons' = redisCons - 1 /\ Asked' = Asked \cup {r}
    <2>1. req[r].json = "object" /\ req[r].kind \in {"register", "reset"}
      BY <1>5 DEF RedisCommand, RoutesKept, PlaceOfRoute
    <2> QED
      BY <1>0, <1>5, <2>1 DEF RedisCommand
  <1>6. ASSUME NEW r \in Calls, checkEmail(r)
        PROVE  /\ redisCons' = redisCons /\ Asked' = Asked /\ PlacesOfCounted'
               /\ \/ mysqlCons' = mysqlCons /\ rowless' = rowless
                  \/ /\ r \notin rowless /\ mysqlCons' = mysqlCons - 1
                     /\ rowless' = rowless \cup {r}
    <2>1. /\ hpc[r] = "mysql" /\ redisCons' = redisCons
          /\ hpc' = [hpc EXCEPT ![r] = "update"] \/ hpc' = [hpc EXCEPT ![r] = "write"]
      BY <1>6 DEF checkEmail, finish
    <2>2. \/ mysqlCons' = mysqlCons /\ rowless' = rowless
          \/ mysqlCons' = mysqlCons - 1 /\ rowless' = rowless \cup {r}
      BY <1>6 DEF checkEmail
    <2>3. r \notin rowless
      BY <2>1
    <2>4. PICK to \in {"update", "write"} : hpc' = [hpc EXCEPT ![r] = to]
      BY <2>1
    <2>5. Asked' = Asked
      BY <1>0, <2>1, <2>4
    <2>6. PlacesOfCounted'
      <3>1. \A q \in Calls : hpc'[q] = IF q = r THEN to ELSE hpc[q]
        BY <2>4
      <3> QED
        BY <1>0, <2>2, <2>4, <3>1
    <2> QED
      BY <2>1, <2>2, <2>3, <2>5, <2>6
  <1>7. ASSUME NEW r \in Calls, Stops(r) PROVE PlacesOfCounted' /\ Asked' = Asked
    BY <1>0, <1>2, <1>7
  <1>8. ASSUME NEW r \in Calls, HttpStep(r) \/ Stops(r)
        PROVE  \/ Stops(r) \/ RedisCommand(r) \/ checkEmail(r)
               \/ HandleReq(r) \/ Drops(r) \/ UrlNotFound(r) \/ get_test(r) \/ BadJson(r)
               \/ get_verifycode(r) \/ user_register(r) \/ reset_pwd(r) \/ user_login(r)
               \/ Written(r) \/ CheckDeadLine(r) \/ VerifyAnswered(r) \/ RedisReply(r)
               \/ RegUser(r) \/ updatePasswd(r) \/ checkPwd(r) \/ GetChatServer(r)
    BY <1>8 DEF HttpStep, HandlerStep, Drops
  <1>9. UNCHANGED gvars \/ \E r \in Calls : HttpStep(r) \/ Stops(r)
    BY DEF Next, Stops, vars
  <1> HIDE DEF GateInv, GateOwnType, Asked, PlacesOfCounted
  <1>10. CASE \E r \in Calls : HttpStep(r) \/ Stops(r)
    <2>1. PICK r \in Calls : HttpStep(r) \/ Stops(r)
      BY <1>10
    <2>2. CASE Stops(r)
      BY <1>2, <1>7, <2>2
    <2>3. CASE RedisCommand(r)
      BY <1>5, <2>3
    <2>4. CASE checkEmail(r)
      BY <1>6, <2>4
    <2> QED
      BY <1>3, <1>4, <1>8, <2>1, <2>2, <2>3, <2>4
  <1> QED
    BY <1>0, <1>1, <1>9, <1>10 DEF gvars, PlacesOfCounted, Asked, pools, history

\* RedisMgr and MysqlDao: a pool of the gate shrinks by what is asked of it, and
\* runs out after that many requests, not sooner.
THEOREM PoolsRunOutByLeaks == Spec => []ConnectionsCounted
  <1>1. Init => ConnectionsCounted /\ PlacesOfCounted
    <2> SUFFICES ASSUME Init PROVE ConnectionsCounted /\ PlacesOfCounted
      OBVIOUS
    <2>1. Asked = {} /\ rowless = {} /\ PlacesOfCounted
      BY DEF Init, GateInit, Asked, PlacesOfCounted
    <2> QED
      BY <2>1, FS_EmptySet DEF Init, GateInit, ConnectionsCounted
  <1>2. GateInv /\ RoutesKept /\ (ConnectionsCounted /\ PlacesOfCounted) /\ [Next]_vars
        => (ConnectionsCounted /\ PlacesOfCounted)'
    <2> SUFFICES ASSUME GateInv, RoutesKept, ConnectionsCounted, PlacesOfCounted, [Next]_vars
                 PROVE  ConnectionsCounted' /\ PlacesOfCounted'
      OBVIOUS
    <2>1. /\ IsFiniteSet(Asked)' /\ (redisCons + Cardinality(Asked) = RedisConns)'
      <3>1. /\ IsFiniteSet(Asked) /\ redisCons + Cardinality(Asked) = RedisConns
            /\ redisCons \in Nat /\ Cardinality(Asked) \in Nat
        BY FS_CardinalityType DEF ConnectionsCounted, GateInv, GateOwnType
      <3>2. CASE redisCons' = redisCons /\ Asked' = Asked
        BY <3>1, <3>2
      <3>3. ASSUME NEW r \in Calls \ Asked, redisCons' = redisCons - 1, Asked' = Asked \cup {r}
            PROVE  /\ IsFiniteSet(Asked)' /\ (redisCons + Cardinality(Asked) = RedisConns)'
        <4>1. IsFiniteSet(Asked \cup {r}) /\ Cardinality(Asked \cup {r}) = Cardinality(Asked) + 1
          BY <3>1, FS_AddElement
        <4> QED
          BY <3>1, <3>3, <4>1
      <3> QED
        BY <3>2, <3>3, CountedStep
    <2>2. /\ IsFiniteSet(rowless)' /\ (mysqlCons + Cardinality(rowless) = MysqlConns)'
      <3>1. /\ IsFiniteSet(rowless) /\ mysqlCons + Cardinality(rowless) = MysqlConns
            /\ mysqlCons \in Nat /\ Cardinality(rowless) \in Nat
        BY FS_CardinalityType DEF ConnectionsCounted, GateInv, GateOwnType
      <3>2. CASE mysqlCons' = mysqlCons /\ rowless' = rowless
        BY <3>1, <3>2
      <3>3. ASSUME NEW r \in Calls \ rowless, mysqlCons' = mysqlCons - 1,
                   rowless' = rowless \cup {r}
            PROVE  /\ IsFiniteSet(rowless)'
                   /\ (mysqlCons + Cardinality(rowless) = MysqlConns)'
        <4>1. /\ IsFiniteSet(rowless \cup {r})
              /\ Cardinality(rowless \cup {r}) = Cardinality(rowless) + 1
          BY <3>1, FS_AddElement
        <4> QED
          BY <3>1, <3>3, <4>1
      <3> QED
        BY <3>2, <3>3, CountedStep
    <2> QED
      BY <2>1, <2>2, CountedStep DEF ConnectionsCounted
  <1> QED
    BY <1>1, <1>2, GateInvHolds, RoutesHold, PTL DEF Spec
===============================================================================

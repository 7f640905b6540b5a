------------------------ MODULE VerifyService_proofs ------------------------
(***************************************************************************)
(* Proofs about VerifyService: whatever calls overlap, the code in Redis   *)
(* is one its mailbox was sent, and it expires.                            *)
(***************************************************************************)
EXTENDS VerifyService, TLAPS

USE VerifyAssumption

\* redis.js closes its client only when something failed.
ClosedByError == redisCli = "closed" => errors > 0

\* A call that goes on to Redis or the mailbox has made up, or found, a code.
HasCode == \A r \in Calls : vpc[r] \in {"set", "expire", "mail"} => vcode[r] \in Codes

VerifyInv == VerifyTypeOK /\ HasCode /\ ClosedByError /\ StoredCodeMailed /\ CodeWillExpire

\* The initial states satisfy the invariant: what Redis has was mailed, and is
\* alive.
LEMMA VerifyInitHolds == VerifyInit => VerifyInv
  BY DEF VerifyInit, VerifyInv, VerifyTypeOK, HasCode, ClosedByError,
         StoredCodeMailed, CodeWillExpire

\* No step of a call, of the node process, of Redis or of time breaks the
\* types.
LEMMA VerifyTypeStep == VerifyInv /\ [VerifyNext]_vvars => VerifyTypeOK'
  <1> SUFFICES ASSUME VerifyInv, [VerifyNext]_vvars PROVE VerifyTypeOK'
    OBVIOUS
  <1> USE DEF VerifyInv, VerifyTypeOK
  <1>1. ASSUME NEW r \in Calls, NEW e \in Emails, GetVarifyCode(r, e)
        PROVE  VerifyTypeOK'
    BY <1>1 DEF GetVarifyCode
  <1>2. ASSUME NEW r \in Calls, GetRedis(r) PROVE VerifyTypeOK'
    BY <1>2 DEF GetRedis, rejected
  <1>3. ASSUME NEW r \in Calls, SetCode(r) PROVE VerifyTypeOK'
    <2>1. stored(r) \in Codes \cup {NoCode} /\ goOn(r) = "expire"
      BY DEF stored, goOn
    <2> QED  BY <1>3, <2>1 DEF SetCode, SetKey
  <1>4. ASSUME NEW r \in Calls, SetCodeLost(r) PROVE VerifyTypeOK'
    <2>1. stored(r) \in Codes \cup {NoCode}
      BY DEF stored
    <2> QED  BY <1>4, <2>1 DEF SetCodeLost, SetKey, callback
  <1>5. ASSUME NEW r \in Calls, Expire(r) PROVE VerifyTypeOK'
    BY <1>5 DEF Expire
  <1>6. ASSUME NEW r \in Calls, SetRedisFails(r) PROVE VerifyTypeOK'
    BY <1>6 DEF SetRedisFails, rejected, callback
  <1>7. ASSUME NEW r \in Calls, SendMail(r) PROVE VerifyTypeOK'
    BY <1>7 DEF SendMail, callback, HasCode
  <1>8. ASSUME NEW r \in Calls, SendMailRejected(r) PROVE VerifyTypeOK'
    BY <1>8 DEF SendMailRejected, callback
  <1>9. CASE RedisError
    BY <1>9 DEF RedisError
  <1>10. CASE Restart
    BY <1>10 DEF Restart
  <1>11. ASSUME NEW e \in Emails, Tick(e) PROVE VerifyTypeOK'
    BY <1>11 DEF Tick
  <1>12. CASE UNCHANGED vvars
    BY <1>12 DEF vvars
  <1> QED
    BY <1>1, <1>2, <1>3, <1>4, <1>5, <1>6, <1>7, <1>8, <1>9, <1>10, <1>11, <1>12
    DEF VerifyNext, VerifyStep, CallStep

\* The steps of VerifyNext, each with what it does to codes, lifetimes and
\* calls, keep the other parts.
LEMMA VerifyRestStep ==
  VerifyInv /\ [VerifyNext]_vvars
  => HasCode' /\ ClosedByError' /\ StoredCodeMailed' /\ CodeWillExpire'
  <1> DEFINE Rest == HasCode' /\ ClosedByError' /\ StoredCodeMailed' /\ CodeWillExpire'
  <1> SUFFICES ASSUME VerifyInv, [VerifyNext]_vvars PROVE Rest
    OBVIOUS
  <1> USE DEF VerifyInv, VerifyTypeOK, HasCode, ClosedByError, StoredCodeMailed,
              CodeWillExpire
  <1>1. ASSUME NEW r \in Calls, NEW e \in Emails, GetVarifyCode(r, e) PROVE Rest
    BY <1>1 DEF GetVarifyCode
  <1>2. ASSUME NEW r \in Calls, GetRedis(r) PROVE Rest
    BY <1>2 DEF GetRedis, rejected
  <1>3. ASSUME NEW r \in Calls, SetCode(r) PROVE Rest
    BY <1>3 DEF SetCode, SetKey, stored, goOn
  <1>4. ASSUME NEW r \in Calls, SetCodeLost(r) PROVE Rest
    BY <1>4 DEF SetCodeLost, SetKey, stored, callback
  <1>5. ASSUME NEW r \in Calls, Expire(r) PROVE Rest
    BY <1>5 DEF Expire
  <1>6. ASSUME NEW r \in Calls, SetRedisFails(r) PROVE Rest
    BY <1>6 DEF SetRedisFails, rejected, callback
  <1>7. ASSUME NEW r \in Calls, SendMail(r) PROVE Rest
    BY <1>7 DEF SendMail, callback
  <1>8. ASSUME NEW r \in Calls, SendMailRejected(r) PROVE Rest
    BY <1>8 DEF SendMailRejected, callback
  <1>9. CASE RedisError
    BY <1>9 DEF RedisError
  <1>10. CASE Restart
    BY <1>10 DEF Restart
  <1>11. ASSUME NEW e \in Emails, Tick(e) PROVE Rest
    BY <1>11 DEF Tick
  <1>12. CASE UNCHANGED vvars
    BY <1>12 DEF vvars
  <1> QED
    BY <1>1, <1>2, <1>3, <1>4, <1>5, <1>6, <1>7, <1>8, <1>9, <1>10, <1>11, <1>12
    DEF VerifyNext, VerifyStep, CallStep

\* The invariant holds in every state of every behaviour.
LEMMA VerifyInvHolds == VerifySpec => []VerifyInv
  <1>1. VerifyInv /\ [VerifyNext]_vvars => VerifyInv'
    BY VerifyTypeStep, VerifyRestStep DEF VerifyInv
  <1> QED
    BY VerifyInitHolds, <1>1, PTL DEF VerifySpec

\* GetVarifyCode: every variable keeps its type, for any number of calls,
\* mailboxes and codes.
THEOREM VerifyTypeCorrect == VerifySpec => []VerifyTypeOK
  <1>1. VerifyInv => VerifyTypeOK
    BY DEF VerifyInv
  <1> QED
    BY <1>1, VerifyInvHolds, PTL

\* SetRedisExpire and SendMail: while nothing has failed, the code that Redis
\* is left with for a mailbox was sent to it or is about to be.
THEOREM StoredIsMailed == VerifySpec => []StoredCodeMailed
  <1>1. VerifyInv => StoredCodeMailed
    BY DEF VerifyInv
  <1> QED
    BY <1>1, VerifyInvHolds, PTL

\* SetRedisExpire: while nothing has failed, a code without expiry has a call
\* that is about to give it one.
THEOREM CodesExpire == VerifySpec => []CodeWillExpire
  <1>1. VerifyInv => CodeWillExpire
    BY DEF VerifyInv
  <1> QED
    BY <1>1, VerifyInvHolds, PTL
===============================================================================

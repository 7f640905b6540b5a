---------------------------- MODULE VerifyService ----------------------------
(***************************************************************************)
(* The verification service (varifyServer, a node process): GetVarifyCode  *)
(* gives the caller's mailbox a code that lives in Redis for ten minutes.  *)
(* Node runs one callback at a time, so a call can be overtaken only where *)
(* it awaits: one action per await.                                        *)
(*                                                                         *)
(* redis.js closes its client on the first connection error ("error" leads *)
(* to quit()), and from then on every command is rejected, as one may be   *)
(* while it is open: GetRedis turns that into null, as if there were no    *)
(* code, SetRedisExpire into false.                                        *)
(***************************************************************************)
EXTENDS Naturals

CONSTANTS
    Calls,      \* RPCs, one per identifier
    Emails, Codes, NoCode,
    InitialCode,    \* codes Redis already has
    TTL,        \* lifetime of a code (600 s), in ticks
    MaxErrors   \* failures in one behaviour (bound)

ASSUME VerifyAssumption ==
    /\ NoCode \notin Codes /\ Codes # {} /\ Emails # {}
    /\ InitialCode \in [Emails -> Codes \cup {NoCode}]
    /\ TTL \in Nat \ {0} /\ MaxErrors \in Nat

VARIABLES
    code,       \* [Emails -> Codes \cup {NoCode}] Redis: the code_ key
    ttl,        \* [Emails -> 0..TTL] ticks it has left, 0 for no expiry
    mailed,     \* [Emails -> SUBSET Codes] what the mailbox was sent
    redisCli,   \* the ioredis client: "ready", "closed"
    vpc,        \* [Calls -> where the call awaits]
    vemail,     \* [Calls -> Emails]
    vcode,      \* [Calls -> Codes \cup {NoCode}] uniqueId
    vans,       \* [Calls -> the error code given to callback, or "none"]
    errors      \* failures so far

vvars == <<code, ttl, mailed, redisCli, vpc, vemail, vcode, vans, errors>>

\* The codes that Redis already has are alive and were mailed.
VerifyInit ==
    /\ code = InitialCode
    /\ ttl = [e \in Emails |-> IF code[e] = NoCode THEN 0 ELSE TTL]
    /\ mailed = [e \in Emails |-> {code[e]} \ {NoCode}]
    /\ redisCli = "ready"
    /\ vpc = [r \in Calls |-> "idle"]
    /\ vemail = [r \in Calls |-> CHOOSE e \in Emails : TRUE]
    /\ vcode = [r \in Calls |-> NoCode]
    /\ vans = [r \in Calls |-> "none"]
    /\ errors = 0

-----------------------------------------------------------------------------
(* One call *)

GetVarifyCode(r, e) ==
    /\ vpc[r] = "idle" /\ vans[r] = "none"
    /\ vpc' = [vpc EXCEPT ![r] = "get"]
    /\ vemail' = [vemail EXCEPT ![r] = e]
    /\ UNCHANGED <<code, ttl, mailed, redisCli, vcode, vans, errors>>

\* callback(null, ...) with an error code ends the call.
callback(r, error) ==
    /\ vpc' = [vpc EXCEPT ![r] = "idle"]
    /\ vans' = [vans EXCEPT ![r] = error]

\* Redis rejects a command: all of them once the client is closed.
rejected ==
    \/ redisCli = "closed" /\ UNCHANGED errors
    \/ redisCli = "ready" /\ errors < MaxErrors /\ errors' = errors + 1

\* A code that is there is sent again; without one, or without an answer, a new
\* one is made up.
GetRedis(r) ==
    /\ vpc[r] = "get"
    /\ \/ /\ redisCli = "ready" /\ code[vemail[r]] # NoCode
          /\ vcode' = [vcode EXCEPT ![r] = code[vemail[r]]]
          /\ vpc' = [vpc EXCEPT ![r] = "mail"]
          /\ UNCHANGED errors
       \/ /\ (code[vemail[r]] = NoCode /\ UNCHANGED errors) \/ rejected
          /\ \E c \in Codes : vcode' = [vcode EXCEPT ![r] = c]
          /\ vpc' = [vpc EXCEPT ![r] = "set"]
    /\ UNCHANGED <<code, ttl, mailed, redisCli, vemail, vans>>

\* Mutants: the value is stored before it is cut to four digits; no expire.
storedUncut(r) == CHOOSE c \in Codes : c # vcode[r]
goOnWithoutExpire(r) == "mail"

stored(r) == vcode[r]
goOn(r) == "expire"

\* SET drops the expiry of the old value.
SetKey(r) ==
    /\ code' = [code EXCEPT ![vemail[r]] = stored(r)]
    /\ ttl' = [ttl EXCEPT ![vemail[r]] = 0]

SetCode(r) ==
    /\ vpc[r] = "set" /\ redisCli = "ready"
    /\ SetKey(r)
    /\ vpc' = [vpc EXCEPT ![r] = goOn(r)]
    /\ UNCHANGED <<mailed, redisCli, vemail, vcode, vans, errors>>

\* The connection breaks after Redis took the value and before it said so.
SetCodeLost(r) ==
    /\ vpc[r] = "set" /\ redisCli = "ready" /\ errors < MaxErrors
    /\ SetKey(r)
    /\ callback(r, "RedisErr")
    /\ redisCli' = "closed" /\ errors' = errors + 1
    /\ UNCHANGED <<mailed, vemail, vcode>>

Expire(r) ==
    /\ vpc[r] = "expire" /\ redisCli = "ready"
    /\ ttl' = [ttl EXCEPT ![vemail[r]] = IF code[vemail[r]] = NoCode THEN 0 ELSE TTL]
    /\ vpc' = [vpc EXCEPT ![r] = "mail"]
    /\ UNCHANGED <<code, mailed, redisCli, vemail, vcode, vans, errors>>

SetRedisFails(r) ==
    /\ vpc[r] \in {"set", "expire"} /\ rejected
    /\ callback(r, "RedisErr")
    /\ UNCHANGED <<code, ttl, mailed, redisCli, vemail, vcode>>

SendMail(r) ==
    /\ vpc[r] = "mail"
    /\ mailed' = [mailed EXCEPT ![vemail[r]] = @ \cup {vcode[r]}]
    /\ callback(r, "Success")
    /\ UNCHANGED <<code, ttl, redisCli, vemail, vcode, errors>>

\* Mutant: the rejection is logged and the callback forgotten.
SendMailRejectedSilently(r) ==
    /\ vpc[r] = "mail" /\ errors < MaxErrors
    /\ vpc' = [vpc EXCEPT ![r] = "idle"]
    /\ errors' = errors + 1
    /\ UNCHANGED <<code, ttl, mailed, redisCli, vemail, vcode, vans>>

SendMailRejected(r) ==
    /\ vpc[r] = "mail" /\ errors < MaxErrors
    /\ callback(r, "Exception")
    /\ errors' = errors + 1
    /\ UNCHANGED <<code, ttl, mailed, redisCli, vemail, vcode>>

-----------------------------------------------------------------------------
(* Around the calls *)

RedisError ==
    /\ redisCli = "ready" /\ errors < MaxErrors
    /\ redisCli' = "closed" /\ errors' = errors + 1
    /\ UNCHANGED <<code, ttl, mailed, vpc, vemail, vcode, vans>>

\* The node process dies and is started again; gRPC reports the calls failed.
Restart ==
    /\ errors < MaxErrors
    /\ vans' = [r \in Calls |-> IF vpc[r] = "idle" THEN vans[r] ELSE "RPCFailed"]
    /\ vpc' = [r \in Calls |-> "idle"]
    /\ redisCli' = "ready" /\ errors' = errors + 1
    /\ UNCHANGED <<code, ttl, mailed, vemail, vcode>>

\* Time passes for one key.
Tick(e) ==
    /\ ttl[e] > 0
    /\ ttl' = [ttl EXCEPT ![e] = @ - 1]
    /\ code' = [code EXCEPT ![e] = IF ttl[e] = 1 THEN NoCode ELSE @]
    /\ UNCHANGED <<mailed, redisCli, vpc, vemail, vcode, vans, errors>>

CallStep(r) ==
    \/ GetRedis(r) \/ SetCode(r) \/ SetCodeLost(r) \/ Expire(r)
    \/ SetRedisFails(r) \/ SendMail(r) \/ SendMailRejected(r)

VerifyStep ==
    \/ \E r \in Calls : CallStep(r)
    \/ RedisError \/ Restart \/ \E e \in Emails : Tick(e)

VerifyNext == VerifyStep \/ \E r \in Calls, e \in Emails : GetVarifyCode(r, e)

VerifySpec == VerifyInit /\ [][VerifyNext]_vvars

-----------------------------------------------------------------------------
(* Properties *)

VerifyTypeOK ==
    /\ code \in [Emails -> Codes \cup {NoCode}]
    /\ ttl \in [Emails -> 0..TTL]
    /\ mailed \in [Emails -> SUBSET Codes]
    /\ redisCli \in {"ready", "closed"}
    /\ vpc \in [Calls -> {"idle", "get", "set", "expire", "mail"}]
    /\ vemail \in [Calls -> Emails]
    /\ vcode \in [Calls -> Codes \cup {NoCode}]
    /\ vans \in [Calls -> {"none", "Success", "RedisErr", "Exception", "RPCFailed"}]
    /\ errors \in 0..MaxErrors

\* However the calls for a mailbox overlap and overwrite each other's code, the
\* one that Redis is left with was sent to the mailbox once nobody is about to
\* send it, unless something failed.
StoredCodeMailed ==
    \A e \in Emails :
        code[e] # NoCode =>
            \/ code[e] \in mailed[e]
            \/ \E r \in Calls : /\ vemail[r] = e /\ vcode[r] = code[e]
                                /\ vpc[r] \in {"expire", "mail"}
            \/ errors > 0

\* SET and EXPIRE are two commands and SET drops the expiry another call has
\* just given the key; still a code without expiry has a call about to give it
\* one, unless something failed in between.
CodeWillExpire ==
    \A e \in Emails :
        (code[e] # NoCode /\ ttl[e] = 0) =>
            \/ \E r \in Calls : vemail[r] = e /\ vpc[r] = "expire"
            \/ errors > 0
===============================================================================

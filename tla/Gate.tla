-------------------------------- MODULE Gate --------------------------------
(***************************************************************************)
(* The gate (ChatProjectNetWork): HttpConnection reads one request, runs   *)
(* its handler on the io thread of the connection, and writes the body     *)
(* the handler filled.  Handlers ask VerifyService for codes, Redis for    *)
(* the code they compare, MySQL for accounts, and the status server for a  *)
(* token.  They block their thread, and whoever else is served by it.      *)
(*                                                                         *)
(* Two things of the gate's RedisMgr matter here: Get takes one of five    *)
(* connections and never returns it, and it keeps the reply in a member    *)
(* shared by all threads, so overlapping Gets read, and free, each other's *)
(* replies: undefined behaviour, modelled by its outcomes.                 *)
(***************************************************************************)
EXTENDS VerifyService, Sequences

CONSTANTS
    IoThreads,
    IoMaps,     \* io threads the connections may be given
    MaxFaults,  \* failing queries and RPCs in one behaviour (bound)
    Names, Pwds, NoAccount,
    Workloads,  \* requests clients send, one per connection
    RedisConns, MysqlConns

Accounts == [email : Emails, pwd : Pwds]

\* kind: the route (get is /get_test, missing any other, put any other verb);
\* json: what the body parses to, or whether the query of a GET does; confirm: what
\* register repeats as password.
RequestType ==
    [kind : {"verifycode", "register", "reset", "login", "get", "missing", "put"},
     json : {"object", "other", "broken"},
     name : Names, email : Emails, pwd : Pwds, confirm : Pwds, code : Codes]

ASSUME GateAssumption ==
    /\ IoMaps \subseteq [Calls -> IoThreads] /\ MaxFaults \in Nat
    /\ 0 \notin Calls /\ RedisConns \in Nat /\ MysqlConns \in Nat
    /\ NoAccount \notin Accounts
    /\ Workloads \subseteq [Calls -> RequestType]

VARIABLES
    req,        \* [Calls -> RequestType] what the connection sent
    io,         \* [Calls -> IoThreads] io thread the connection was given
    hpc,        \* [Calls -> where the connection is]
    body,       \* [Calls -> Seq(error codes)] documents in the response body
    accounts,   \* [Names -> Accounts \cup {NoAccount}] MySQL
    redisCons, mysqlCons,   \* connections left in the two pools
    reply,      \* RedisMgr::_reply: whose it is, its value, whether freed
    up,         \* the gate process lives
    faults,     \* failed queries and RPCs so far
    did,        \* history: requests that created or changed an account
    truth,      \* history: the code Redis had for the request's mailbox
    raced,      \* history: requests that read a reply of another Get or a freed one
    rowless     \* history: requests whose checkEmail found no row

pools == <<redisCons, mysqlCons>>
history == <<did, truth, raced, rowless>>
gvars == <<req, io, hpc, body, accounts, pools, reply, up, faults, history>>
vars == <<vvars, gvars>>

Handling == {"begin", "verify", "redis", "read", "mysql", "update", "status"}

GateInit ==
    /\ req \in Workloads
    /\ io \in IoMaps
    /\ hpc = [r \in Calls |-> "reading"]
    /\ body = [r \in Calls |-> <<>>]
    /\ accounts = [n \in Names |-> NoAccount]
    /\ redisCons = RedisConns /\ mysqlCons = MysqlConns
    /\ reply = [of |-> 0, val |-> NoCode, freed |-> TRUE]
    /\ up = TRUE /\ faults = 0
    /\ did = {} /\ raced = {} /\ rowless = {}
    /\ truth = [r \in Calls |-> NoCode]

Init == VerifyInit /\ GateInit

-----------------------------------------------------------------------------
(* HttpConnection *)

\* A query or an RPC fails, if nothing has failed elsewhere (MaxFaults).
fault == errors + faults < MaxFaults /\ faults' = faults + 1

\* async_read ended and the io thread is free to run its callback.
readEnds(r) ==
    /\ hpc[r] = "reading"
    /\ \A q \in Calls : io[q] = io[r] => hpc[q] \notin Handling

\* With an error: the connection goes away, unanswered.
ReadFails(r) ==
    /\ readEnds(r)
    /\ hpc' = [hpc EXCEPT ![r] = "dropped"]
    /\ UNCHANGED <<vvars, req, io, body, accounts, pools, reply, up, faults, history>>

HandleReq(r) ==
    /\ readEnds(r)
    /\ hpc' = [hpc EXCEPT ![r] = IF req[r].kind = "put" THEN "ignored" ELSE "begin"]
    /\ UNCHANGED <<vvars, req, io, body, accounts, pools, reply, up, faults, history>>

\* A handler ends with WriteResponse; more says what it adds to the body.
finish(r, more) ==
    /\ body' = [body EXCEPT ![r] = @ \o more]
    /\ hpc' = [hpc EXCEPT ![r] = "write"]

\* No handler has the path.
UrlNotFound(r) ==
    /\ hpc[r] = "begin" /\ req[r].kind = "missing"
    /\ finish(r, <<"NotFound">>)
    /\ UNCHANGED <<vvars, req, io, accounts, pools, reply, up, faults, history>>

\* /get_test echoes its parameters, whatever UrlDecode made of them.
get_test(r) ==
    /\ hpc[r] = "begin" /\ req[r].kind = "get"
    /\ finish(r, <<"Echo">>)
    /\ UNCHANGED <<vvars, req, io, accounts, pools, reply, up, faults, history>>

\* UrlDecode asserts two hexadecimal digits after a percent sign.  A build
\* without asserts reads past the end, or a digit nobody set, and goes on.
UrlDecodeAborts(r) ==
    /\ hpc[r] = "begin" /\ req[r].kind \in {"get", "missing"} /\ req[r].json = "broken"
    /\ up' = FALSE
    /\ UNCHANGED <<vvars, req, io, hpc, body, accounts, pools, reply, faults, history>>

Written(r) ==
    /\ hpc[r] = "write"
    /\ hpc' = [hpc EXCEPT ![r] = "sent"]
    /\ UNCHANGED <<vvars, req, io, body, accounts, pools, reply, up, faults, history>>

\* Sixty seconds after the connection object was made, answered or not.
CheckDeadLine(r) ==
    /\ hpc[r] \in {"write", "ignored"}
    /\ hpc' = [hpc EXCEPT ![r] = "closed"]
    /\ UNCHANGED <<vvars, req, io, body, accounts, pools, reply, up, faults, history>>

-----------------------------------------------------------------------------
(* Handlers *)

\* A body that is no JSON; user_login puts its answer into the request.
BadJson(r) ==
    /\ hpc[r] = "begin" /\ req[r].json = "broken" /\ req[r].kind \notin {"get", "missing"}
    /\ finish(r, IF req[r].kind = "login" THEN <<>> ELSE <<"Json">>)
    /\ UNCHANGED <<vvars, req, io, accounts, pools, reply, up, faults, history>>

\* A body that is JSON and no object makes the handler throw; the callback of the
\* read catches that, and the connection goes away without a deadline.
HandlerThrows(r) ==
    /\ hpc[r] = "begin" /\ req[r].json = "other" /\ req[r].kind \notin {"get", "missing"}
    /\ hpc' = [hpc EXCEPT ![r] = "dropped"]
    /\ UNCHANGED <<vvars, req, io, body, accounts, pools, reply, up, faults, history>>

get_verifycode(r) ==
    /\ hpc[r] = "begin" /\ req[r].json = "object" /\ req[r].kind = "verifycode"
    /\ GetVarifyCode(r, req[r].email)
    /\ hpc' = [hpc EXCEPT ![r] = "verify"]
    /\ UNCHANGED <<req, io, body, accounts, pools, reply, up, faults, history>>

\* Mutant: the answer of the RPC is used before it is there.
VerifyNotAwaited(r) ==
    /\ hpc[r] = "verify"
    /\ finish(r, <<vans[r]>>)
    /\ UNCHANGED <<vvars, req, io, accounts, pools, reply, up, faults, history>>

VerifyAnswered(r) ==
    /\ hpc[r] = "verify" /\ vans[r] # "none"
    /\ finish(r, <<vans[r]>>)
    /\ UNCHANGED <<vvars, req, io, accounts, pools, reply, up, faults, history>>

\* user_register reports two different passwords and goes on.
user_register(r) ==
    /\ hpc[r] = "begin" /\ req[r].json = "object" /\ req[r].kind = "register"
    /\ body' = [body EXCEPT ![r] = IF req[r].pwd # req[r].confirm
                                   THEN Append(@, "Passwd") ELSE @]
    /\ hpc' = [hpc EXCEPT ![r] = "redis"]
    /\ UNCHANGED <<vvars, req, io, accounts, pools, reply, up, faults, history>>

reset_pwd(r) ==
    /\ hpc[r] = "begin" /\ req[r].json = "object" /\ req[r].kind = "reset"
    /\ hpc' = [hpc EXCEPT ![r] = "redis"]
    /\ UNCHANGED <<vvars, req, io, body, accounts, pools, reply, up, faults, history>>

user_login(r) ==
    /\ hpc[r] = "begin" /\ req[r].json = "object" /\ req[r].kind = "login"
    /\ hpc' = [hpc EXCEPT ![r] = "mysql"]
    /\ UNCHANGED <<vvars, req, io, body, accounts, pools, reply, up, faults, history>>

-----------------------------------------------------------------------------
(* RedisMgr::Get *)

\* getConnection, and the answer of GET into _reply.  Nobody returns the
\* connection; without one the thread blocks here.
RedisCommand(r) ==
    /\ hpc[r] = "redis" /\ redisCons > 0
    /\ redisCons' = redisCons - 1
    /\ \E val \in {code[req[r].email], NoCode} :
          /\ IF val = code[req[r].email] THEN UNCHANGED faults ELSE fault
          /\ reply' = [of |-> r, val |-> val, freed |-> FALSE]
          /\ truth' = [truth EXCEPT ![r] = val]
    /\ hpc' = [hpc EXCEPT ![r] = "read"]
    /\ UNCHANGED <<vvars, req, io, body, accounts, mysqlCons, up, did, raced, rowless>>

\* Mutant: the code is only looked for, not compared.
AcceptAnyCode(r, val) == IF val = NoCode THEN "VerifyExpired" ELSE "ok"

CheckCode(r, val) ==
    IF val = NoCode THEN "VerifyExpired"
    ELSE IF val # req[r].code THEN "VerifyCode" ELSE "ok"

\* The value is read, the reply freed and the code compared.  What is read of a
\* reply that another Get has freed is anything.
RedisReply(r) ==
    /\ hpc[r] = "read"
    /\ reply' = [reply EXCEPT !.freed = TRUE]
    /\ raced' = IF reply.freed \/ reply.of # r THEN raced \cup {r} ELSE raced
    /\ \E val \in IF reply.freed THEN Codes \cup {NoCode} ELSE {reply.val} :
          LET checked == CheckCode(r, val) IN
          IF checked = "ok"
          THEN hpc' = [hpc EXCEPT ![r] = "mysql"] /\ UNCHANGED body
          ELSE finish(r, << checked >>)
    /\ UNCHANGED <<vvars, req, io, accounts, pools, up, faults, did, truth, rowless>>

\* A second free, or a reply that changes between the check of its type and the
\* use of its string, may also bring the process down.
Crash(r) ==
    /\ hpc[r] = "read" /\ (reply.freed \/ reply.of # r)
    /\ up' = FALSE
    /\ UNCHANGED <<vvars, req, io, hpc, body, accounts, pools, reply, faults, history>>

-----------------------------------------------------------------------------
(* MysqlDao.  Every operation needs a connection for its duration. *)

Exists(n, e) ==
    \/ accounts[n] # NoAccount
    \/ \E m \in Names : accounts[m] # NoAccount /\ accounts[m].email = e

\* The procedure reg_user inserts the row.
insertUser(r) ==
    /\ ~Exists(req[r].name, req[r].email)
    /\ accounts' = [accounts EXCEPT ![req[r].name] =
                       [email |-> req[r].email, pwd |-> req[r].pwd]]
    /\ did' = did \cup {r}

\* It refuses a name or an address that is taken (0).  A failure (-1), before it
\* ran or between it and the SELECT of its result, is reported as a user that
\* exists; the handler then reports success all the same.
RegUser(r) ==
    /\ hpc[r] = "mysql" /\ req[r].kind = "register" /\ mysqlCons > 0
    /\ \/ /\ insertUser(r)
          /\ finish(r, <<"Success">>)
          /\ UNCHANGED faults
       \/ /\ Exists(req[r].name, req[r].email)
          /\ finish(r, <<"UserExist", "Success">>)
          /\ UNCHANGED <<accounts, did, faults>>
       \/ /\ fault
          /\ finish(r, <<"UserExist", "Success">>)
          /\ insertUser(r) \/ UNCHANGED <<accounts, did>>
    /\ UNCHANGED <<vvars, req, io, pools, reply, up, truth, raced, rowless>>

\* Mutant: checkEmail only looks for the row.
AnyEmail(r) == TRUE

EmailMatches(r) == accounts[req[r].name].email = req[r].email

\* For a name without a row, checkEmail runs off its end: any result, and the
\* connection is gone.
checkEmail(r) ==
    LET n == req[r].name IN
    /\ hpc[r] = "mysql" /\ req[r].kind = "reset" /\ mysqlCons > 0
    /\ \/ /\ accounts[n] # NoAccount /\ EmailMatches(r)
          /\ hpc' = [hpc EXCEPT ![r] = "update"]
          /\ UNCHANGED <<body, mysqlCons, rowless, faults>>
       \/ /\ accounts[n] # NoAccount /\ ~EmailMatches(r)
          /\ finish(r, <<"EmailNotMatch">>)
          /\ UNCHANGED <<mysqlCons, rowless, faults>>
       \/ /\ accounts[n] = NoAccount
          /\ mysqlCons' = mysqlCons - 1 /\ rowless' = rowless \cup {r}
          /\ \/ hpc' = [hpc EXCEPT ![r] = "update"] /\ UNCHANGED body
             \/ finish(r, <<"EmailNotMatch">>)
          /\ UNCHANGED faults
       \/ /\ fault
          /\ finish(r, <<"EmailNotMatch">>)
          /\ UNCHANGED <<mysqlCons, rowless>>
    /\ UNCHANGED <<vvars, req, io, accounts, redisCons, reply, up, did, truth, raced>>

\* An update of no row succeeds as well.
setPasswd(r) ==
    LET n == req[r].name IN
    IF accounts[n] = NoAccount
    THEN UNCHANGED <<accounts, did>>
    ELSE /\ accounts' = [accounts EXCEPT ![n].pwd = req[r].pwd]
         /\ did' = did \cup {r}

updatePasswd(r) ==
    /\ hpc[r] = "update" /\ mysqlCons > 0
    /\ \/ /\ setPasswd(r)
          /\ finish(r, <<"Success">>)
          /\ UNCHANGED faults
       \/ /\ fault
          /\ finish(r, <<"PasswdUpFailed">>)
          /\ setPasswd(r) \/ UNCHANGED <<accounts, did>>
    /\ UNCHANGED <<vvars, req, io, pools, reply, up, truth, raced, rowless>>

PwdMatches(r) ==
    \E n \in Names : accounts[n] = [email |-> req[r].email, pwd |-> req[r].pwd]

checkPwd(r) ==
    /\ hpc[r] = "mysql" /\ req[r].kind = "login" /\ mysqlCons > 0
    /\ \/ /\ PwdMatches(r)
          /\ hpc' = [hpc EXCEPT ![r] = "status"]
          /\ UNCHANGED <<body, faults>>
       \/ /\ ~PwdMatches(r) /\ finish(r, <<"Passwd">>)
          /\ UNCHANGED faults
       \/ /\ fault
          /\ finish(r, <<"Passwd">>)
    /\ UNCHANGED <<vvars, req, io, accounts, pools, reply, up, history>>

\* The status server answers with a token and a chat server, or the RPC fails.
GetChatServer(r) ==
    /\ hpc[r] = "status"
    /\ \/ finish(r, <<"Success">>) /\ UNCHANGED faults
       \/ fault /\ finish(r, <<"RPCFailed">>)
    /\ UNCHANGED <<vvars, req, io, accounts, pools, reply, up, history>>

-----------------------------------------------------------------------------
HandlerStep(r) ==
    \/ UrlNotFound(r) \/ get_test(r) \/ BadJson(r) \/ HandlerThrows(r)
    \/ get_verifycode(r) \/ VerifyAnswered(r) \/ user_register(r) \/ reset_pwd(r) \/ user_login(r)
    \/ RedisCommand(r) \/ RedisReply(r)
    \/ RegUser(r) \/ checkEmail(r) \/ updatePasswd(r) \/ checkPwd(r) \/ GetChatServer(r)

HttpStep(r) ==
    ReadFails(r) \/ HandleReq(r) \/ Written(r) \/ CheckDeadLine(r) \/ HandlerStep(r)

Next ==
    \/ up /\ \E r \in Calls : HttpStep(r) \/ UrlDecodeAborts(r) \/ Crash(r)
    \/ VerifyStep /\ UNCHANGED gvars

Spec == Init /\ [][Next]_vars

\* Io threads run, RPCs and queries end, and so does the work of the node
\* process.  A deadline need not beat an answer.
Fairness ==
    \A r \in Calls :
        /\ WF_vars(up /\ HttpStep(r))
        /\ WF_vars(CallStep(r) /\ UNCHANGED gvars)

LiveSpec == Spec /\ Fairness

-----------------------------------------------------------------------------
(* Properties *)

Codes_ == {"Json", "Passwd", "VerifyExpired", "VerifyCode", "UserExist", "Success",
           "EmailNotMatch", "PasswdUpFailed", "RPCFailed", "RedisErr", "Exception",
           "NotFound", "Echo"}

GateTypeOK ==
    /\ VerifyTypeOK
    /\ req \in Workloads /\ io \in IoMaps
    /\ hpc \in [Calls -> Handling \cup 
                          {"reading", "write", "ignored", "sent", "closed", "dropped"}]
    /\ body \in [Calls -> Seq(Codes_)]
    /\ accounts \in [Names -> Accounts \cup {NoAccount}]
    /\ redisCons \in 0..RedisConns /\ mysqlCons \in 0..MysqlConns
    /\ reply \in [of : Calls \cup {0}, val : Codes \cup {NoCode}, freed : BOOLEAN]
    /\ up \in BOOLEAN /\ faults \in 0..MaxFaults
    /\ did \subseteq Calls /\ raced \subseteq Calls /\ rowless \subseteq Calls
    /\ truth \in [Calls -> Codes \cup {NoCode}]

\* A request gets past the code only with the code Redis had for its mailbox,
\* although it reads the reply from a member that all threads share: unless its
\* Get overlapped with another.
CodeChecked ==
    \A r \in Calls :
        (hpc[r] \in {"mysql", "update"} /\ req[r].kind # "login" /\ r \notin raced)
        => truth[r] = req[r].code

\* An account changes only through a request for its address that got past the
\* code, although checkEmail and updatePasswd are two statements: unless
\* checkEmail found no row and ran off its end.
ChangedByOwner ==
    [][\A n \in Names :
          (accounts[n] # NoAccount /\ accounts'[n] # accounts[n]) =>
             \E r \in Calls : /\ req[r].name = n /\ hpc[r] = "update"
                              /\ req[r].email = accounts[n].email \/ r \in rowless]_vars

\* The mailbox was sent the code, or is about to be, or something failed there.
MailedTo(e, c) ==
    \/ c \in mailed[e]
    \/ \E q \in Calls : vemail[q] = e /\ vcode[q] = c /\ vpc[q] \in {"expire", "mail"}
    \/ errors > 0

\* From the mailbox to the account, through four processes: an account is made
\* or changed only through a request with a code that the mailbox it gives was
\* sent, however codes expire and are replaced in between, and that mailbox is
\* the account's: unless Gets overlapped, or checkEmail ran off its end.
AccountByMailbox ==
    [][\A n \in Names :
          accounts'[n] # accounts[n] =>
             \E r \in Calls :
                /\ hpc[r] # hpc'[r] /\ req[r].name = n
                /\ req[r].email = accounts'[n].email \/ r \in rowless
                /\ MailedTo(req[r].email, req[r].code) \/ r \in raced]_vars

\* Nobody else can keep a connection from its end, which is its answer, the
\* deadline, a failed read or a handler that throws: unless the gate is gone, or a
\* pool has run out for good.
EveryRequestAnswered ==
    \A r \in Calls :
        hpc[r] = "reading" ~> \/ hpc[r] \in {"sent", "closed", "dropped"}
                              \/ ~up \/ redisCons = 0 \/ mysqlCons = 0
===============================================================================

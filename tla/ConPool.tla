------------------------------- MODULE ConPool -------------------------------
(***************************************************************************)
(* The connection pool of RedisMgr.h: a queue of connections behind a      *)
(* mutex, a condition variable for callers that find it empty, a thread    *)
(* that pings the pooled connections, and Close, which sets b_stop_ and    *)
(* notifies without taking the mutex.  MySqlPool, StatusConPool,           *)
(* ChatConPool and the pools of the gate have the same getConnection and   *)
(* returnConnection.                                                       *)
(*                                                                         *)
(* The callers are the methods of RedisMgr and MysqlDao.  Those in Leaky   *)
(* are the ones that forget the connection: every method of the gate's     *)
(* RedisMgr, and CheckEmail for a name without a row.                      *)
(*                                                                         *)
(* mutex_ is explicit only where it is held across a step: by a caller     *)
(* that has found the queue empty and not yet blocked, and by the ping.    *)
(* The other critical sections are single actions that need it free.       *)
(***************************************************************************)
EXTENDS Naturals, FiniteSets

CONSTANTS
    Threads,    \* callers
    Conns,      \* connections the constructor opened
    NoCon,
    Checker,    \* check_thread_, as the owner of mutex_
    Leaky,      \* callers that do not return their connection
    PingThrows, \* whether a ping may throw: hiredis does not, the code caters for it
    MayClose    \* whether Close is called

ASSUME ConPoolAssumption ==
    /\ IsFiniteSet(Threads) /\ IsFiniteSet(Conns)
    /\ NoCon \notin Conns \cup Threads /\ Checker \notin Threads \cup {NoCon}
    /\ Leaky \subseteq Threads /\ MayClose \in BOOLEAN /\ PingThrows \in BOOLEAN

NoOwner == NoCon

VARIABLES
    free,       \* connections_, as a set: the order of the queue is immaterial
    con,        \* [Threads -> Conns \cup {NoCon}] connection a caller has
    pc,         \* [Threads -> where the caller is]
    owner,      \* holder of mutex_
    stop,       \* b_stop_
    closer,     \* Close: "idle", "notify", "join", "done"
    checker,    \* check_thread_: "loop", "ping", "exit"
    lost        \* history: connections that callers in Leaky, or a ping, dropped

vars == <<free, con, pc, owner, stop, closer, checker, lost>>

Waiting == {t \in Threads : pc[t] = "waiting"}
AtLock == {t \in Threads : pc[t] = "lock"}

Init ==
    /\ free = Conns /\ con = [t \in Threads |-> NoCon]
    /\ pc = [t \in Threads |-> "idle"]
    /\ owner = NoOwner /\ stop = FALSE
    /\ closer = "idle" /\ checker = "loop"
    /\ lost = {}

-----------------------------------------------------------------------------
(* getConnection *)

Call(t) ==
    /\ pc[t] = "idle"
    /\ pc' = [pc EXCEPT ![t] = "lock"]
    /\ UNCHANGED <<free, con, owner, stop, closer, checker, lost>>

\* Mutant: the connection is read and not popped (line 90 is gone).
KeepInQueue(c) == free

popped(c) == free \ {c}

\* The predicate of the wait holds: a connection, or nullptr once stopped.
Take(t) ==
    /\ pc[t] = "lock" /\ owner = NoOwner
    /\ ~stop
    /\ \E c \in free : con' = [con EXCEPT ![t] = c] /\ free' = popped(c)
    /\ pc' = [pc EXCEPT ![t] = "use"]
    /\ UNCHANGED <<owner, stop, closer, checker, lost>>

TakeNull(t) ==
    /\ pc[t] = "lock" /\ owner = NoOwner
    /\ stop
    /\ pc' = [pc EXCEPT ![t] = "idle"]
    /\ UNCHANGED <<free, con, owner, stop, closer, checker, lost>>

\* It does not hold: the caller still has the mutex when it decides to block.
FindEmpty(t) ==
    /\ pc[t] = "lock" /\ owner = NoOwner
    /\ ~stop /\ free = {}
    /\ pc' = [pc EXCEPT ![t] = "blocking"]
    /\ owner' = t
    /\ UNCHANGED <<free, con, stop, closer, checker, lost>>

Block(t) ==
    /\ pc[t] = "blocking"
    /\ pc' = [pc EXCEPT ![t] = "waiting"]
    /\ owner' = NoOwner
    /\ UNCHANGED <<free, con, stop, closer, checker, lost>>

\* The standard lets a wait return without a notification.
SpuriousWakeup(t) ==
    /\ pc[t] = "waiting"
    /\ pc' = [pc EXCEPT ![t] = "lock"]
    /\ UNCHANGED <<free, con, owner, stop, closer, checker, lost>>

-----------------------------------------------------------------------------
(* returnConnection, and what callers do with the connection *)

Finish(t) ==
    /\ pc[t] = "use" /\ t \notin Leaky
    /\ pc' = [pc EXCEPT ![t] = "return"]
    /\ UNCHANGED <<free, con, owner, stop, closer, checker, lost>>

\* The method returns to its caller and the connection is in nobody's hands.
Forget(t) ==
    /\ pc[t] = "use" /\ t \in Leaky
    /\ con' = [con EXCEPT ![t] = NoCon]
    /\ lost' = lost \cup {con[t]}
    /\ pc' = [pc EXCEPT ![t] = "idle"]
    /\ UNCHANGED <<free, owner, stop, closer, checker>>

\* Mutants: notify only when the queue was empty before the push; never.
notify_if_empty(t) ==
    IF Waiting = {} \/ free # {} THEN {[pc EXCEPT ![t] = "idle"]}
    ELSE {[pc EXCEPT ![t] = "idle", ![w] = "lock"] : w \in Waiting}
notify_nobody(t) == {[pc EXCEPT ![t] = "idle"]}

\* pc after t is back from returnConnection and notify_one woke one waiter.
notify_one(t) ==
    IF Waiting = {} THEN {[pc EXCEPT ![t] = "idle"]}
    ELSE {[pc EXCEPT ![t] = "idle", ![w] = "lock"] : w \in Waiting}

\* Mutants: the push is forgotten; a pointer moved from before is pushed.
push_nothing(t) == free
push_moved(t) == free \cup {NoCon}

pushed(t) == free \cup {con[t]}

Return(t) ==
    /\ pc[t] = "return" /\ owner = NoOwner
    /\ con' = [con EXCEPT ![t] = NoCon]
    /\ IF stop
       THEN pc' = [pc EXCEPT ![t] = "idle"] /\ UNCHANGED free
       ELSE free' = pushed(t) /\ pc' \in notify_one(t)
    /\ UNCHANGED <<owner, stop, closer, checker, lost>>

-----------------------------------------------------------------------------
(* check_thread_ and Close *)

PingBegin ==
    /\ checker = "loop" /\ ~stop /\ owner = NoOwner
    /\ checker' = "ping" /\ owner' = Checker
    /\ UNCHANGED <<free, con, pc, stop, closer, lost>>

\* Every connection was popped, pinged and pushed back; one whose ping threw, and
\* for which no new one could be opened, was not.
PingEnd ==
    /\ checker = "ping"
    /\ checker' = "loop" /\ owner' = NoOwner
    /\ \E dropped \in SUBSET free :
         /\ dropped # {} => PingThrows
         /\ free' = free \ dropped /\ lost' = lost \cup dropped
    /\ UNCHANGED <<con, pc, stop, closer>>

CheckerExit ==
    /\ checker = "loop" /\ stop
    /\ checker' = "exit"
    /\ UNCHANGED <<free, con, pc, owner, stop, closer, lost>>

CloseStop ==
    /\ MayClose /\ closer = "idle"
    /\ stop' = TRUE /\ closer' = "notify"
    /\ UNCHANGED <<free, con, pc, owner, checker, lost>>

CloseNotify ==
    /\ closer = "notify"
    /\ pc' = [t \in Threads |-> IF pc[t] = "waiting" THEN "lock" ELSE pc[t]]
    /\ closer' = "join"
    /\ UNCHANGED <<free, con, owner, stop, checker, lost>>

CloseJoin ==
    /\ closer = "join" /\ checker = "exit"
    /\ closer' = "done"
    /\ UNCHANGED <<free, con, pc, owner, stop, checker, lost>>

-----------------------------------------------------------------------------
GetStep(t) == Take(t) \/ TakeNull(t) \/ FindEmpty(t) \/ Block(t)
UseStep(t) == Finish(t) \/ Forget(t) \/ Return(t)

Next ==
    \/ \E t \in Threads : Call(t) \/ GetStep(t) \/ UseStep(t) \/ SpuriousWakeup(t)
    \/ PingBegin \/ PingEnd \/ CheckerExit
    \/ CloseStop \/ CloseNotify \/ CloseJoin

Spec == Init /\ [][Next]_vars

\* Threads are scheduled and every Redis or MySQL call ends.  A thread that keeps
\* trying gets the mutex in the end (SF: others, and the ping once a minute, have it
\* in between), which is not to say that it finds a connection then.  Callers need
\* not call, and Close is called by main after a signal, or never.
Fairness ==
    /\ \A t \in Threads : SF_vars(GetStep(t) \/ UseStep(t))
    /\ WF_vars(PingEnd) /\ WF_vars(CheckerExit)
    /\ WF_vars(CloseNotify) /\ WF_vars(CloseJoin)

LiveSpec == Spec /\ Fairness

-----------------------------------------------------------------------------
(* Properties *)

TypeOK ==
    /\ free \subseteq Conns
    /\ con \in [Threads -> Conns \cup {NoCon}]
    /\ pc \in [Threads -> {"idle", "lock", "blocking", "waiting", "use", "return"}]
    /\ owner \in Threads \cup {Checker, NoOwner}
    /\ stop \in BOOLEAN
    /\ closer \in {"idle", "notify", "join", "done"}
    /\ checker \in {"loop", "ping", "exit"}
    /\ lost \subseteq Conns

\* No two callers have the same connection, one in use is not in the queue, and
\* a dropped one does not come back: redisContext and SqlConnection are not
\* thread safe.
Exclusive ==
    /\ free \cap lost = {}
    /\ \A t \in Threads : con[t] \notin free \cup lost
    /\ \A t, u \in Threads : t # u /\ con[t] # NoCon => con[t] # con[u]

\* No wakeup is lost while the pool runs: with callers asleep, as many callers
\* are on their way to the queue as it has connections, although notify_one
\* wakes one waiter that others may overtake.
NoLostWakeup ==
    (~stop /\ Waiting # {}) => Cardinality(free) <= Cardinality(AtLock)

\* While the pool runs, a connection is in the queue, with a caller, or was
\* dropped by a caller that does not return connections or by a ping that threw.
NothingLost ==
    ~stop => Conns = free \cup lost \cup ({con[t] : t \in Threads} \ {NoCon})

\* While the pool runs and not all its connections were dropped, whoever sleeps
\* in getConnection waits for another caller, who has a connection or is on its
\* way to the queue: nobody sleeps beside a connection, or for nobody.
SleepersHaveCause ==
    (~stop /\ lost # Conns) =>
        \A t \in Waiting : \E u \in Threads \ {t} : con[u] # NoCon \/ u \in AtLock

\* ConPool implements Pool.
P == INSTANCE Pool WITH free <- free, con <- con, stop <- stop
Implements == P!Spec

\* Callers call without limit, and the wakeup of one may be overtaken by others.
\* That is all that can keep a call from its connection: whoever stays in
\* getConnection for ever sees others take connections for ever, unless the pool
\* is stopped or its last connection was dropped.  Callers never starve together,
\* and nobody starves beside a connection that nobody else takes.
InGet(t) == pc[t] \in {"lock", "blocking", "waiting"}
Overtaken(t) == \E u \in Threads \ {t} : Take(u)
StarvedOnlyByTakers ==
    \A t \in Threads :
        \/ []<>(~InGet(t) \/ stop \/ lost = Conns)
        \/ []<><<Overtaken(t)>>_vars
===============================================================================

--------------------------- MODULE ConPool_proofs ---------------------------
(***************************************************************************)
(* Theorems about ConPool, for any finite number of callers and            *)
(* connections.  PoolInv is what has to be added to TypeOK and Exclusive   *)
(* to make them inductive, and what NoLostWakeup and Implements rest on.   *)
(***************************************************************************)
EXTENDS ConPool, FiniteSetTheorems, TLAPS

\* Who has a connection, who has the mutex, and when the flag is set.
PoolInv ==
    /\ \A t \in Threads : pc[t] \in {"use", "return"} <=> con[t] # NoCon
    /\ \A t \in Threads : pc[t] = "blocking" => owner = t /\ free = {}
    /\ checker = "ping" => owner = Checker
    /\ closer # "idle" => stop

Inv == TypeOK /\ PoolInv /\ Exclusive

\* The initial states satisfy the inductive invariant: nobody has a connection
\* when the pool is built.
LEMMA InvInit == Init => Inv
  <1> SUFFICES ASSUME Init PROVE Inv
    OBVIOUS
  <1> USE DEF Init
  <1>1. TypeOK
    <2> USE ConPoolAssumption DEF ConPoolAssumption, NoOwner
    <2>1. con \in [Threads -> Conns \cup {NoCon}]
      OBVIOUS
    <2>2. pc \in [Threads -> {"idle", "lock", "blocking", "waiting", "use", "return"}]
      OBVIOUS
    <2>3. QED
      BY <2>1, <2>2 DEF TypeOK
  <1>2. PoolInv
    BY DEF PoolInv
  <1>3. Exclusive
    BY ConPoolAssumption DEF ConPoolAssumption, Exclusive
  <1>4. QED
    BY <1>1, <1>2, <1>3 DEF Inv

\* Types are kept by every step.
LEMMA TypeNext == Inv /\ [Next]_vars => TypeOK'
  <1> SUFFICES ASSUME Inv, [Next]_vars PROVE TypeOK'
    OBVIOUS
  <1> USE ConPoolAssumption DEF ConPoolAssumption, Inv, TypeOK, NoOwner
  <1>1. ASSUME NEW t \in Threads, Call(t) \/ SpuriousWakeup(t) PROVE TypeOK'
    BY <1>1 DEF Call, SpuriousWakeup
  <1>2. ASSUME NEW t \in Threads, Take(t) PROVE TypeOK'
    BY <1>2 DEF Take, popped
  <1>3. ASSUME NEW t \in Threads, TakeNull(t) \/ FindEmpty(t) \/ Block(t)
        PROVE  TypeOK'
    BY <1>3 DEF TakeNull, FindEmpty, Block
  <1>4. ASSUME NEW t \in Threads, Finish(t) \/ Forget(t) PROVE TypeOK'
    BY <1>4 DEF Finish, Forget, PoolInv
  <1>5. ASSUME NEW t \in Threads, Return(t) PROVE TypeOK'
    <2>1. con[t] \in Conns
      BY <1>5 DEF Return, PoolInv
    <2>2. pc' \in [Threads -> {"idle", "lock", "blocking", "waiting", "use", "return"}]
      BY <1>5 DEF Return, notify_one, Waiting
    <2>3. QED
      BY <1>5, <2>1, <2>2 DEF Return, pushed
  <1>6. CASE PingBegin \/ PingEnd \/ CheckerExit
    BY <1>6 DEF PingBegin, PingEnd, CheckerExit
  <1>7. CASE CloseStop \/ CloseNotify \/ CloseJoin
    BY <1>7 DEF CloseStop, CloseNotify, CloseJoin
  <1>8. CASE UNCHANGED vars
    BY <1>8 DEF vars
  <1>9. QED
    BY <1>1, <1>2, <1>3, <1>4, <1>5, <1>6, <1>7, <1>8
       DEF Next, GetStep, UseStep

\* A woken waiter is on its way to the queue; nobody else is touched.
LEMMA NotifyOne ==
  ASSUME TypeOK, NEW t \in Threads, pc[t] = "return", pc' \in notify_one(t)
  PROVE  /\ pc'[t] = "idle"
         /\ \A u \in Threads \ {t} :
               pc'[u] = pc[u] \/ (pc[u] = "waiting" /\ pc'[u] = "lock")
         /\ Waiting # {} => \E w \in Waiting : pc'[w] = "lock"
  BY DEF TypeOK, notify_one, Waiting

\* PoolInv is kept by every step.
LEMMA PoolNext == Inv /\ [Next]_vars => PoolInv'
  <1> SUFFICES ASSUME Inv, [Next]_vars PROVE PoolInv'
    OBVIOUS
  <1> USE ConPoolAssumption DEF ConPoolAssumption, Inv, TypeOK, PoolInv, NoOwner
  <1>1. ASSUME NEW t \in Threads, Call(t) \/ SpuriousWakeup(t) PROVE PoolInv'
    BY <1>1 DEF Call, SpuriousWakeup
  <1>2. ASSUME NEW t \in Threads, Take(t) PROVE PoolInv'
    BY <1>2 DEF Take, popped
  <1>3. ASSUME NEW t \in Threads, TakeNull(t) \/ FindEmpty(t) \/ Block(t)
        PROVE  PoolInv'
    BY <1>3 DEF TakeNull, FindEmpty, Block
  <1>4. ASSUME NEW t \in Threads, Finish(t) \/ Forget(t) PROVE PoolInv'
    BY <1>4 DEF Finish, Forget
  <1>5. ASSUME NEW t \in Threads, Return(t) PROVE PoolInv'
    <2>1. /\ pc'[t] = "idle"
          /\ \A u \in Threads \ {t} :
                pc'[u] = pc[u] \/ (pc[u] = "waiting" /\ pc'[u] = "lock")
      BY <1>5, NotifyOne DEF Return
    <2>2. con' = [con EXCEPT ![t] = NoCon]
      BY <1>5 DEF Return
    <2>3. \A u \in Threads : pc[u] # "blocking"
      BY <1>5 DEF Return
    <2>4. UNCHANGED <<closer, stop, checker, owner>>
      BY <1>5 DEF Return
    <2>5. QED
      BY <2>1, <2>2, <2>3, <2>4
  <1>6. CASE PingBegin \/ PingEnd \/ CheckerExit
    BY <1>6 DEF PingBegin, PingEnd, CheckerExit
  <1>7. CASE CloseStop \/ CloseJoin
    BY <1>7 DEF CloseStop, CloseJoin
  <1>8. CASE CloseNotify
    <2>1. \A t \in Threads :
             pc'[t] = pc[t] \/ (pc[t] = "waiting" /\ pc'[t] = "lock")
      BY <1>8 DEF CloseNotify
    <2>2. stop /\ UNCHANGED <<free, con, owner, stop, checker>>
      BY <1>8 DEF CloseNotify
    <2>3. QED
      BY <2>1, <2>2
  <1>9. CASE UNCHANGED vars
    BY <1>9 DEF vars
  <1>10. QED
    BY <1>1, <1>2, <1>3, <1>4, <1>5, <1>6, <1>7, <1>8, <1>9
       DEF Next, GetStep, UseStep

\* Exclusive is kept by every step: only Take hands out a connection, and it
\* takes it out of the queue; only Return puts one back, and gives it up; what a
\* ping drops leaves the queue.
LEMMA ExclusiveNext == Inv /\ [Next]_vars => Exclusive'
  <1> SUFFICES ASSUME Inv, [Next]_vars PROVE Exclusive'
    OBVIOUS
  <1> USE ConPoolAssumption DEF ConPoolAssumption, Inv, TypeOK, Exclusive
  <1>1. ASSUME NEW t \in Threads, Take(t) PROVE Exclusive'
    BY <1>1 DEF Take, popped
  <1>2. ASSUME NEW t \in Threads, Forget(t) PROVE Exclusive'
    BY <1>2 DEF Forget, PoolInv
  <1>3. ASSUME NEW t \in Threads, Return(t) PROVE Exclusive'
    <2>1. con[t] # NoCon /\ con' = [con EXCEPT ![t] = NoCon]
      BY <1>3 DEF Return, PoolInv
    <2>2. free' \in {free, free \cup {con[t]}} /\ lost' = lost
      BY <1>3 DEF Return, pushed
    <2>3. QED
      BY <2>1, <2>2
  <1>4. CASE PingEnd
    BY <1>4 DEF PingEnd
  <1>5. CASE UNCHANGED <<free, con, lost>>
    BY <1>5
  <1>6. QED
    BY <1>1, <1>2, <1>3, <1>4, <1>5
       DEF Next, GetStep, UseStep, Call, SpuriousWakeup, TakeNull,
           FindEmpty, Block, Finish, PingBegin, CheckerExit,
           CloseStop, CloseNotify, CloseJoin, vars

\* The conjunction is inductive.
LEMMA InvNext == Inv /\ [Next]_vars => Inv'
  BY TypeNext, PoolNext, ExclusiveNext DEF Inv

THEOREM InvHolds == Spec => []Inv
  BY InvInit, InvNext, PTL DEF Spec

\* No two callers share a connection, whatever their number.
THEOREM ConnectionsExclusive == Spec => []Exclusive
  BY InvHolds, PTL DEF Inv

THEOREM TypeCorrect == Spec => []TypeOK
  BY InvHolds, PTL DEF Inv

-----------------------------------------------------------------------------
(* No wakeup is lost *)

\* The counted sets are finite.
LEMMA Finite == TypeOK => IsFiniteSet(free) /\ IsFiniteSet(AtLock)
  BY ConPoolAssumption, FS_Subset DEF ConPoolAssumption, TypeOK, AtLock

\* Three facts about numbers of connections and callers.
LEMMA Fewer ==
  ASSUME NEW F, NEW A, NEW A2, NEW F2 \in SUBSET F, A \in SUBSET A2,
         IsFiniteSet(F), IsFiniteSet(A2), Cardinality(F) <= Cardinality(A)
  PROVE  Cardinality(F2) <= Cardinality(A2)
  <1>1. /\ Cardinality(F2) <= Cardinality(F)
        /\ Cardinality(A) <= Cardinality(A2)
        /\ IsFiniteSet(F2) /\ IsFiniteSet(A)
    BY FS_Subset
  <1>2. /\ Cardinality(F) \in Nat /\ Cardinality(F2) \in Nat
        /\ Cardinality(A) \in Nat /\ Cardinality(A2) \in Nat
    BY <1>1, FS_CardinalityType
  <1>3. QED
    BY <1>1, <1>2

LEMMA OneLess ==
  ASSUME NEW F, NEW A, NEW c \in F, NEW a \in A,
         IsFiniteSet(F), IsFiniteSet(A), Cardinality(F) <= Cardinality(A)
  PROVE  Cardinality(F \ {c}) <= Cardinality(A \ {a})
  <1>1. /\ Cardinality(F \ {c}) = Cardinality(F) - 1
        /\ Cardinality(A \ {a}) = Cardinality(A) - 1
    BY FS_RemoveElement
  <1>2. Cardinality(F) \in Nat /\ Cardinality(A) \in Nat
    BY FS_CardinalityType
  <1>3. QED
    BY <1>1, <1>2

LEMMA OneMore ==
  ASSUME NEW F, NEW A, NEW c, NEW a, a \notin A,
         IsFiniteSet(F), IsFiniteSet(A), Cardinality(F) <= Cardinality(A)
  PROVE  Cardinality(F \cup {c}) <= Cardinality(A \cup {a})
  <1>1. /\ Cardinality(F \cup {c}) \in {Cardinality(F), Cardinality(F) + 1}
        /\ Cardinality(A \cup {a}) = Cardinality(A) + 1
    BY FS_AddElement
  <1>2. Cardinality(F) \in Nat /\ Cardinality(A) \in Nat
    BY FS_CardinalityType
  <1>3. QED
    BY <1>1, <1>2

\* While somebody sleeps, a step takes from the queue only what it takes from
\* the callers at the lock, and adds to the queue only where it wakes a caller.
LEMMA NoLostWakeupNext ==
  Inv /\ NoLostWakeup /\ [Next]_vars => NoLostWakeup'
  <1> SUFFICES ASSUME Inv, NoLostWakeup, [Next]_vars, ~stop', Waiting' # {}
               PROVE  Cardinality(free') <= Cardinality(AtLock')
    BY DEF NoLostWakeup
  <1>0. ~stop
    BY DEF Next, GetStep, UseStep, Call, SpuriousWakeup, Take, TakeNull,
           FindEmpty, Block, Finish, Forget, Return, PingBegin, PingEnd,
           CheckerExit, CloseStop, CloseNotify, CloseJoin, vars
  <1>f. IsFiniteSet(free) /\ IsFiniteSet(AtLock) /\ IsFiniteSet(AtLock')
    <2>1. AtLock' \subseteq Threads
      BY DEF AtLock
    <2>2. QED
      BY <2>1, Finite, ConPoolAssumption, FS_Subset DEF ConPoolAssumption, Inv
  <1>e. ASSUME free' = {} PROVE Cardinality(free') <= Cardinality(AtLock')
    <2>1. Cardinality(free') = 0 /\ Cardinality(AtLock') \in Nat
      BY <1>e, <1>f, FS_EmptySet, FS_CardinalityType
    <2>2. QED
      BY <2>1
  <1>k. ASSUME Waiting # {}, free' \in SUBSET free, AtLock \subseteq AtLock'
        PROVE  Cardinality(free') <= Cardinality(AtLock')
    BY <1>0, <1>f, <1>k, Fewer DEF NoLostWakeup
  <1> USE DEF Inv, TypeOK
  <1>1. ASSUME NEW t \in Threads, Call(t) \/ SpuriousWakeup(t)
        PROVE  Cardinality(free') <= Cardinality(AtLock')
    BY <1>1, <1>k DEF Call, SpuriousWakeup, AtLock, Waiting
  <1>2. ASSUME NEW t \in Threads, Take(t)
        PROVE  Cardinality(free') <= Cardinality(AtLock')
    <2>1. PICK c \in free : free' = free \ {c}
      BY <1>2 DEF Take, popped
    <2>2. t \in AtLock /\ AtLock' = AtLock \ {t} /\ Waiting # {}
      BY <1>2 DEF Take, AtLock, Waiting
    <2>3. QED
      BY <1>0, <1>f, <2>1, <2>2, OneLess DEF NoLostWakeup
  <1>3. ASSUME NEW t \in Threads, TakeNull(t)
        PROVE  Cardinality(free') <= Cardinality(AtLock')
    BY <1>0, <1>3 DEF TakeNull
  <1>4. ASSUME NEW t \in Threads, FindEmpty(t) \/ Block(t)
        PROVE  Cardinality(free') <= Cardinality(AtLock')
    BY <1>4, <1>e DEF FindEmpty, Block, PoolInv
  <1>5. ASSUME NEW t \in Threads, Finish(t) \/ Forget(t)
        PROVE  Cardinality(free') <= Cardinality(AtLock')
    BY <1>5, <1>k DEF Finish, Forget, AtLock, Waiting
  <1>6. ASSUME NEW t \in Threads, Return(t)
        PROVE  Cardinality(free') <= Cardinality(AtLock')
    <2>1. free' = free \cup {con[t]} /\ pc' \in notify_one(t)
      BY <1>0, <1>6 DEF Return, pushed
    <2>2. PICK w \in Waiting : pc' = [pc EXCEPT ![t] = "idle", ![w] = "lock"]
      BY <2>1 DEF notify_one, Waiting
    <2>3. w \notin AtLock /\ AtLock' = AtLock \cup {w}
      BY <1>6, <2>2 DEF Return, AtLock, Waiting
    <2>4. QED
      BY <1>0, <1>f, <2>1, <2>2, <2>3, OneMore DEF NoLostWakeup
  <1>7. CASE PingBegin \/ PingEnd \/ CheckerExit \/ UNCHANGED vars
    BY <1>7, <1>k DEF PingBegin, PingEnd, CheckerExit, AtLock, Waiting, vars
  <1>8. CASE CloseStop \/ CloseNotify \/ CloseJoin
    BY <1>0, <1>8 DEF CloseStop, CloseNotify, CloseJoin, PoolInv
  <1>9. QED
    BY <1>1, <1>2, <1>3, <1>4, <1>5, <1>6, <1>7, <1>8
       DEF Next, GetStep, UseStep

\* No wakeup is lost, however many callers and connections there are.
THEOREM WakeupsNotLost == Spec => []NoLostWakeup
  <1>1. Init => NoLostWakeup
    BY DEF Init, NoLostWakeup, Waiting
  <1>2. QED
    BY <1>1, InvHolds, NoLostWakeupNext, PTL DEF Spec

-----------------------------------------------------------------------------
(* What the pool promises *)

\* No connection leaves a running pool but through callers that forget it, and
\* pings that throw.
THEOREM ConnectionsNotLost == Spec => []NothingLost
  <1>1. Init => NothingLost
    BY DEF Init, NothingLost
  <1>2. Inv /\ NothingLost /\ [Next]_vars => NothingLost'
    <2> SUFFICES ASSUME Inv, NothingLost, [Next]_vars, ~stop'
                 PROVE  Conns = free' \cup lost' \cup ({con'[t] : t \in Threads} \ {NoCon})
      BY DEF NothingLost
    <2>0. ~stop
      BY DEF Next, GetStep, UseStep, Call, SpuriousWakeup, Take, TakeNull,
             FindEmpty, Block, Finish, Forget, Return, PingBegin, PingEnd,
             CheckerExit, CloseStop, CloseNotify, CloseJoin, vars
    <2>h. \A c \in Conns : c \in free \cup lost \/ \E t \in Threads : con[t] = c
      BY <2>0 DEF NothingLost
    <2>s. SUFFICES ASSUME NEW c \in Conns, c \notin free' \cup lost'
                   PROVE  \E t \in Threads : con'[t] = c
      <3>1. TypeOK'
        BY TypeNext
      <3>2. QED
        BY <3>1, ConPoolAssumption DEF TypeOK, ConPoolAssumption
    <2> USE ConPoolAssumption DEF ConPoolAssumption, Inv, TypeOK
    <2>1. ASSUME NEW t \in Threads, Take(t) PROVE \E u \in Threads : con'[u] = c
      <3>1. con[t] = NoCon
        BY <2>1 DEF Take, PoolInv
      <3>2. PICK d \in free : con' = [con EXCEPT ![t] = d] /\ free' = free \ {d}
                             /\ lost' = lost
        BY <2>1 DEF Take, popped
      <3>3. QED
        BY <2>h, <2>s, <3>1, <3>2
    <2>2. ASSUME NEW t \in Threads, Return(t) PROVE \E u \in Threads : con'[u] = c
      <3>1. con' = [con EXCEPT ![t] = NoCon] /\ free' = free \cup {con[t]}
            /\ lost' = lost
        BY <2>0, <2>2 DEF Return, pushed
      <3>2. QED
        BY <2>h, <2>s, <3>1
    <2>3. ASSUME NEW t \in Threads, Forget(t) PROVE \E u \in Threads : con'[u] = c
      BY <2>h, <2>s, <2>3 DEF Forget
    <2>4. CASE PingEnd
      BY <2>h, <2>s, <2>4 DEF PingEnd
    <2>5. CASE UNCHANGED <<free, con, lost>>
      BY <2>h, <2>s, <2>5
    <2>6. QED
      BY <2>1, <2>2, <2>3, <2>4, <2>5
         DEF Next, GetStep, UseStep, Call, SpuriousWakeup, TakeNull,
             FindEmpty, Block, Finish, PingBegin, CheckerExit,
             CloseStop, CloseNotify, CloseJoin, vars
  <1>3. QED
    BY <1>1, <1>2, InvHolds, PTL DEF Spec

\* Whoever sleeps waits for somebody: had nobody else a connection and were
\* nobody at the lock, the queue would be empty, since no wakeup is lost, and
\* every connection dropped, since none is lost otherwise.
THEOREM SleepersWaitForSomebody == Spec => []SleepersHaveCause
  <1>1. Inv /\ NoLostWakeup /\ NothingLost => SleepersHaveCause
    <2> SUFFICES ASSUME Inv, NoLostWakeup, NothingLost, ~stop, NEW t \in Waiting,
                        AtLock = {}, \A u \in Threads \ {t} : con[u] = NoCon
                 PROVE  lost = Conns
      BY DEF SleepersHaveCause, AtLock, Waiting
    <2>1. con[t] = NoCon
      BY DEF Inv, PoolInv, Waiting
    <2>2. free = {}
      <3>1. IsFiniteSet(free) /\ Cardinality(free) <= Cardinality(AtLock)
        BY Finite DEF Inv, NoLostWakeup
      <3>2. Cardinality(AtLock) = 0
        BY FS_EmptySet
      <3>3. Cardinality(free) = 0
        BY <3>1, <3>2, FS_CardinalityType
      <3>4. QED
        BY <3>1, <3>3, FS_EmptySet
    <2>3. \A u \in Threads : con[u] = NoCon
      BY <2>1
    <2>4. Conns = free \cup lost
      BY <2>3 DEF NothingLost
    <2>5. QED
      BY <2>2, <2>4
  <1>2. QED
    BY <1>1, InvHolds, WakeupsNotLost, ConnectionsNotLost, PTL

\* Where no caller forgets its connection and no ping throws, none is dropped.
LEMMA NoneDropped ==
  ASSUME Leaky = {}, ~PingThrows PROVE Spec => [](lost = {})
  <1>1. Init => lost = {}
    BY DEF Init
  <1>2. lost = {} /\ [Next]_vars => (lost = {})'
    BY DEF Next, GetStep, UseStep, Call, SpuriousWakeup, Take, TakeNull,
           FindEmpty, Block, Finish, Forget, Return, PingBegin, PingEnd,
           CheckerExit, CloseStop, CloseNotify, CloseJoin, vars
  <1>3. QED
    BY <1>1, <1>2, PTL DEF Spec

\* The callers that forget their connections are the only reason why a caller
\* of a running pool can sleep for nobody, as pings do not throw: without them,
\* as in the chat servers, whoever sleeps waits for another caller.
SleepsForSomebody ==
    ~stop => \A t \in Waiting :
                \E u \in Threads \ {t} : con[u] # NoCon \/ u \in AtLock

THEOREM OnlyLeaksStarve ==
  ASSUME Leaky = {}, ~PingThrows, Conns # {} PROVE Spec => []SleepsForSomebody
  <1>1. lost = {} /\ SleepersHaveCause => SleepsForSomebody
    BY DEF SleepersHaveCause, SleepsForSomebody
  <1>2. QED
    BY <1>1, NoneDropped, SleepersWaitForSomebody, PTL

\* Close notifies without the mutex, and may miss a caller that has seen the
\* flag unset and not yet blocked (StoppedCallReturns is violated).  It misses
\* one caller at most: that one has the mutex, and nobody blocks after it.
OneMissedAtMost ==
    closer \in {"join", "done"} =>
        \A t, u \in Threads :
            {pc[t], pc[u]} \subseteq {"blocking", "waiting"} => t = u

THEOREM CloseMissesOne == Spec => []OneMissedAtMost
  <1>1. Init => OneMissedAtMost
    BY DEF Init, OneMissedAtMost
  <1>2. Inv /\ OneMissedAtMost /\ [Next]_vars => OneMissedAtMost'
    <2> SUFFICES ASSUME Inv, OneMissedAtMost, [Next]_vars PROVE OneMissedAtMost'
      OBVIOUS
    <2> USE DEF Inv, TypeOK, PoolInv, OneMissedAtMost
    <2>1. ASSUME NEW t \in Threads, Call(t) \/ SpuriousWakeup(t) PROVE OneMissedAtMost'
      BY <2>1 DEF Call, SpuriousWakeup
    <2>2. ASSUME NEW t \in Threads, GetStep(t) PROVE OneMissedAtMost'
      BY <2>2 DEF GetStep, Take, TakeNull, FindEmpty, Block
    <2>3. ASSUME NEW t \in Threads, Finish(t) \/ Forget(t) PROVE OneMissedAtMost'
      BY <2>3 DEF Finish, Forget
    <2>4. ASSUME NEW t \in Threads, Return(t) PROVE OneMissedAtMost'
      <3>1. \A u \in Threads : pc'[u] \in {"blocking", "waiting"} => pc'[u] = pc[u]
        BY <2>4, NotifyOne DEF Return
      <3>2. QED
        BY <2>4, <3>1 DEF Return
    <2>5. CASE CloseNotify
      BY <2>5, ConPoolAssumption DEF CloseNotify, ConPoolAssumption
    <2>6. CASE CloseStop \/ CloseJoin \/ PingBegin \/ PingEnd \/ CheckerExit
               \/ UNCHANGED vars
      BY <2>6 DEF CloseStop, CloseJoin, PingBegin, PingEnd, CheckerExit, vars
    <2>7. QED
      BY <2>1, <2>2, <2>3, <2>4, <2>5, <2>6 DEF Next, UseStep
  <1>3. QED
    BY <1>1, <1>2, InvHolds, PTL DEF Spec

\* The pool of locks and condition variables implements the abstract one.
THEOREM PoolImplemented == Spec => Implements
  <1>1. Init => P!Init
    BY DEF Init, P!Init
  <1>2. Inv /\ [Next]_vars => [P!Next]_<<free, con, stop>>
    <2> SUFFICES ASSUME Inv, [Next]_vars
                 PROVE  P!Next \/ UNCHANGED <<free, con, stop>>
      OBVIOUS
    <2> USE DEF Inv, PoolInv
    <2>1. ASSUME NEW t \in Threads, Take(t) PROVE P!Take(t)
      BY <2>1 DEF Take, popped, P!Take
    <2>2. ASSUME NEW t \in Threads, Return(t) PROVE P!Give(t) \/ P!Lose(t)
      BY <2>2 DEF Return, pushed, P!Give, P!Lose
    <2>3. ASSUME NEW t \in Threads, Forget(t) PROVE P!Lose(t)
      BY <2>3 DEF Forget, P!Lose
    <2>4. CASE CloseStop
      BY <2>4 DEF CloseStop, P!Next, P!Stop
    <2>5. CASE PingEnd
      BY <2>5 DEF PingEnd, P!Drop, P!Next
    <2>6. QED
      BY <2>1, <2>2, <2>3, <2>4, <2>5
         DEF Next, GetStep, UseStep, Call, SpuriousWakeup, TakeNull,
             FindEmpty, Block, Finish, PingBegin, CheckerExit,
             CloseNotify, CloseJoin, vars, P!Next
  <1>3. QED
    BY <1>1, <1>2, InvHolds, PTL DEF Spec, Implements, P!Spec
=============================================================================

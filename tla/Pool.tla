-------------------------------- MODULE Pool --------------------------------
(***************************************************************************)
(* What a connection pool promises its callers: a connection is in the     *)
(* pool or with one caller, a caller has at most one, and connections are  *)
(* lost only by the callers in Leaky, by others once the pool was stopped, *)
(* and by pings where they throw.  Locks, condition variables and waiting  *)
(* are the business of ConPool, which implements this.                     *)
(***************************************************************************)
CONSTANTS Threads, Conns, NoCon, Leaky, PingThrows

VARIABLES free, con, stop

Init == free = Conns /\ con = [t \in Threads |-> NoCon] /\ stop = FALSE

Take(t) ==
    /\ ~stop /\ con[t] = NoCon
    /\ \E c \in free : /\ con' = [con EXCEPT ![t] = c]
                       /\ free' = free \ {c}
    /\ UNCHANGED stop

Give(t) ==
    /\ ~stop /\ con[t] # NoCon
    /\ free' = free \cup {con[t]}
    /\ con' = [con EXCEPT ![t] = NoCon]
    /\ UNCHANGED stop

Lose(t) ==
    /\ stop \/ t \in Leaky
    /\ con[t] # NoCon
    /\ con' = [con EXCEPT ![t] = NoCon]
    /\ UNCHANGED <<free, stop>>

Drop ==
    /\ PingThrows
    /\ free' \in SUBSET free
    /\ UNCHANGED <<con, stop>>

Stop == stop' = TRUE /\ UNCHANGED <<free, con>>

Next == Stop \/ Drop \/ \E t \in Threads : Take(t) \/ Give(t) \/ Lose(t)

Spec == Init /\ [][Next]_<<free, con, stop>>
===============================================================================

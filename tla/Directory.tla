------------------------------ MODULE Directory ------------------------------
(***************************************************************************)
(* What a chat server promises about who is found under a uid: a session   *)
(* is entered for a uid only after the uid's token was presented on it, it *)
(* is told so only while it can be found, and an entry goes only through   *)
(* the Close of a session that presented the same token.  Queues, threads, *)
(* m_sessions and Redis are the business of ChatServer, which implements   *)
(* this.                                                                   *)
(***************************************************************************)
CONSTANTS Sessions, Uids, None

VARIABLES
    entry,      \* [Uids -> Sessions \cup {None}]: who is found
    shown,      \* <<s, u>>: the current token of u was presented on s
    told,       \* <<s, u>>: s was told that it is in as u
    closing     \* sessions whose Close has begun

vars == <<entry, shown, told, closing>>

Init ==
    /\ entry = [u \in Uids |-> None]
    /\ shown = {} /\ told = {} /\ closing = {}

\* Others presented the token of u.
Shared(s, u) == \E t \in Sessions \ {s} : <<t, u>> \in shown

Show(s, u) ==
    /\ shown' = shown \cup {<<s, u>>}
    /\ UNCHANGED <<entry, told, closing>>

Enter(s, u) ==
    /\ <<s, u>> \in shown
    /\ entry' = [entry EXCEPT ![u] = s]
    /\ UNCHANGED <<shown, told, closing>>

\* What was entered for s is still there, unless s closes or shares u.
Tell(s, u) ==
    /\ <<s, u>> \in shown
    /\ entry[u] = s \/ s \in closing \/ Shared(s, u)
    /\ told' = told \cup {<<s, u>>}
    /\ UNCHANGED <<entry, shown, closing>>

BeginClose(s) ==
    /\ closing' = closing \cup {s}
    /\ UNCHANGED <<entry, shown, told>>

\* Whoever is entered for u goes, s or not.
Remove(s, u) ==
    /\ s \in closing /\ <<s, u>> \in shown
    /\ entry' = [entry EXCEPT ![u] = None]
    /\ UNCHANGED <<shown, told, closing>>

Next ==
    \E s \in Sessions :
       \/ BeginClose(s)
       \/ \E u \in Uids : Show(s, u) \/ Enter(s, u) \/ Tell(s, u) \/ Remove(s, u)

Spec == Init /\ [][Next]_vars
==============================================================================

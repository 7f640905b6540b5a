--------------------------- MODULE Directory_proofs ---------------------------
(***************************************************************************)
(* What everything that implements Directory has for that: who was told    *)
(* that it is in is found, and nobody is found who showed no token.        *)
(***************************************************************************)
EXTENDS Directory, TLAPS

TypeOK ==
    /\ entry \in [Uids -> Sessions \cup {None}]
    /\ shown \subseteq Sessions \X Uids
    /\ told \subseteq shown
    /\ closing \subseteq Sessions

\* UserMgr::getSession finds no session but one that presented the uid's token.
FoundHasShown == \A u \in Uids : entry[u] # None => <<entry[u], u>> \in shown

\* A session that was told it is in is found until it closes, unless somebody else
\* presented the token of the same uid.
ToldIsFound ==
    \A s \in Sessions, u \in Uids :
       <<s, u>> \in told => entry[u] = s \/ s \in closing \/ Shared(s, u)

Inv == TypeOK /\ FoundHasShown /\ ToldIsFound

LEMMA InvInit == Init => Inv
  BY DEF Init, Inv, TypeOK, FoundHasShown, ToldIsFound

\* What excuses a session stays, and Remove and Enter are by whoever showed the token.
LEMMA InvNext == Inv /\ [Next]_vars => Inv'
  <1> SUFFICES ASSUME Inv, [Next]_vars PROVE Inv'
    OBVIOUS
  <1> USE DEF Inv, TypeOK
  <1>1. ASSUME NEW s \in Sessions, NEW u \in Uids, Show(s, u) PROVE Inv'
    BY <1>1 DEF Show, FoundHasShown, ToldIsFound, Shared
  <1>2. ASSUME NEW s \in Sessions, NEW u \in Uids, Enter(s, u) PROVE Inv'
    <2>1. FoundHasShown' /\ TypeOK'
      BY <1>2 DEF Enter, FoundHasShown
    <2>2. ToldIsFound'
      <3> SUFFICES ASSUME NEW t \in Sessions, NEW v \in Uids, <<t, v>> \in told,
                          t # s, v = u
                   PROVE  Shared(t, v)'
        BY <1>2 DEF Enter, ToldIsFound, Shared
      <3> QED
        BY <1>2 DEF Enter, Shared
    <2> QED
      BY <2>1, <2>2
  <1>3. ASSUME NEW s \in Sessions, NEW u \in Uids, Tell(s, u) PROVE Inv'
    BY <1>3 DEF Tell, FoundHasShown, ToldIsFound, Shared
  <1>4. ASSUME NEW s \in Sessions, BeginClose(s) PROVE Inv'
    BY <1>4 DEF BeginClose, FoundHasShown, ToldIsFound, Shared
  <1>5. ASSUME NEW s \in Sessions, NEW u \in Uids, Remove(s, u) PROVE Inv'
    <2>1. FoundHasShown' /\ TypeOK'
      BY <1>5 DEF Remove, FoundHasShown
    <2>2. ToldIsFound'
      <3> SUFFICES ASSUME NEW t \in Sessions, NEW v \in Uids, <<t, v>> \in told, v = u
                   PROVE  (t \in closing \/ Shared(t, v))'
        BY <1>5 DEF Remove, ToldIsFound, Shared
      <3> QED
        BY <1>5 DEF Remove, Shared
    <2> QED
      BY <2>1, <2>2
  <1>6. CASE UNCHANGED vars
    BY <1>6 DEF vars, FoundHasShown, ToldIsFound, Shared
  <1> QED
    BY <1>1, <1>2, <1>3, <1>4, <1>5, <1>6 DEF Next

\* The lookup of the directory is right in both directions: whoever is found showed the
\* token, and whoever was told that it is in is found or excused.
THEOREM LookupCorrect == Spec => [](FoundHasShown /\ ToldIsFound)
  <1>1. Inv => FoundHasShown /\ ToldIsFound
    BY DEF Inv
  <1> QED
    BY <1>1, InvInit, InvNext, PTL DEF Spec
===============================================================================

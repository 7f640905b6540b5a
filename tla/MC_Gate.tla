------------------------------- MODULE MC_Gate -------------------------------
(***************************************************************************)
(* Gate for TLC, with what a comment of the code says of it.               *)
(***************************************************************************)
EXTENDS Gate, TLC

request(kind, email, pwd, confirm, c) ==
    [kind |-> kind, json |-> "object", name |-> "n1", email |-> email, pwd |-> pwd,
     confirm |-> confirm, code |-> c]

\* One request of each sort; e2 is the address of somebody else, and the
\* eleventh has a code that its mailbox gets only if the first one is expired.
SomeRequests ==
    << request("verifycode", "e1", 1, 1, "c1"),
       request("register", "e1", 1, 1, "c1"), request("register", "e2", 2, 1, "c2"),
       request("reset", "e1", 2, 2, "c1"), request("reset", "e2", 2, 2, "c2"),
       request("login", "e1", 1, 1, "c1"), request("put", "e1", 1, 1, "c1"),
       [request("login", "e1", 1, 1, "c1") EXCEPT !.json = "broken"],
       request("missing", "e1", 1, 1, "c1"),
       [request("get", "e1", 1, 1, "c1") EXCEPT !.json = "broken"],
       request("register", "e1", 2, 2, "c2"),
       [request("reset", "e1", 1, 1, "c1") EXCEPT !.json = "other"] >>

\* Every two of them, in one order: the connections are alike.  What is for e2, or has
\* the second code, meets what is for e1.  Those that wait for nobody (7 to 10 and 12)
\* meet a registration and each other.
Pairs ==
    { <<SomeRequests[p[1]], SomeRequests[p[2]]>> :
          p \in { q \in (1..12) \X (1..12) :
                    /\ q[1] <= q[2]
                    /\ q[2] \in 7..10 \cup {12} => q[1] = 2 \/ q[1] >= 7
                    /\ q[1] \notin {3, 5, 11}
                    /\ q[2] = 11 => q[1] \in {1, 2} } }

\* Two connections share an io thread or have one each.
SameOrOther == {<<1, 1>>, <<1, 2>>}

BothHaveCodes == "e1" :> "c1" @@ "e2" :> "c2"

\* LogicSystem.cpp:108 "look in the database whether the user exists": a
\* registration that is answered with Success created the account.
SuccessMeansRegistered ==
    \A r \in Calls :
        (req[r].kind = "register" /\ \E i \in DOMAIN body[r] : body[r][i] = "Success")
        => r \in did
===============================================================================

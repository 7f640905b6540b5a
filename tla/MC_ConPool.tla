----------------------------- MODULE MC_ConPool -----------------------------
(***************************************************************************)
(* ConPool for TLC, with what a comment and a test say of it.              *)
(***************************************************************************)
EXTENDS ConPool

\* RedisMgr.h:84 "if stopped, return a null pointer at once": once Close has
\* run, nobody stays in getConnection.
StoppedCallReturns ==
    \A t \in Threads : (stop /\ pc[t] = "waiting") ~> pc[t] # "waiting"

\* The gate's TestRedisMgr (RedisMgr.h:34-55) makes sixteen calls one after the
\* other and expects an answer from each: a caller is never stuck waiting for a
\* connection when no other caller has one.
NobodyWaitsForNobody ==
    ~stop => \A t \in Threads : pc[t] = "waiting" =>
                \E u \in Threads : con[u] # NoCon
===============================================================================

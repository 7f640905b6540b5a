---------------------------- MODULE MC_ChatServer ----------------------------
(***************************************************************************)
(* ChatServer for TLC, with what the comments of the code say of it.  Each *)
(* of these two claims is checked on its own, and TLC refutes it.          *)
(***************************************************************************)
EXTENDS ChatServer

\* CServer.cpp:34 "remove the session associated with the user": Close removes
\* the association of the session that is closing, and of no other.
CloseKeepsOthers ==
    [][\A s \in Sessions : cpc[s] = "remove" /\ cpc'[s] # "remove" =>
          \A u \in Uids : m_uids[u] \notin {s, NoSession} => m_uids'[u] = m_uids[u]]_vars

\* No handler and no Close is running and nothing waits to be handled.
Settled == wpc = "wait" /\ msg_que = <<>> /\ \A s \in Sessions : cpc[s] = "run"

\* LogicSystem.cpp:115 "raise the server's number of people online": when
\* nothing is going on, login_count is the number of open sessions that
\* somebody is logged in on.
CountIsOnline ==
    Settled => login_count = Cardinality({s \in Sessions : /\ sock[s] = "open"
                                                           /\ user_uid[s] # NoUid})
===============================================================================

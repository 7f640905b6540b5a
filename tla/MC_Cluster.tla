------------------------------ MODULE MC_Cluster ------------------------------
EXTENDS Cluster

\* For tickets: two chat servers, and two attempts of one user to get in.
MCServers == {"s1", "s2"}
MCOrder == <<"s1", "s2">>
MCClients == {"c1", "c2"}
MCUserOf == [c \in MCClients |-> "u1"]
MCNoFrom == <<>>

\* For stops: one chat server, and one client that logs in and searches twice.
MCServer == {"s1"}
MCOnly == <<"s1">>
MCClient == {"c1"}
MCUser == [c \in MCClient |-> "u1"]
MCSearches == {"q1", "q2"}
MCFrom == [q \in MCSearches |-> "c1"]
==============================================================================

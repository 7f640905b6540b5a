\* One chat server, one status server, one client with its login and two searches.
CONSTANTS
    Servers <- MCServer
    _servers <- MCOnly
    Clients <- MCClient
    Users = {"u1"}
    UserOf <- MCUser
    Searches <- MCSearches
    From <- MCFrom
    INT_MAX = 9
    MaxStops = 2
    MaxFaults = 2
SPECIFICATION FairSpec
INVARIANT CountOfTheServing
PROPERTY StopWaitsForClients
CHECK_DEADLOCK FALSE

\* Two chat servers, one status server, two attempts of one user to get in.
CONSTANTS
    Servers <- MCServers
    _servers <- MCOrder
    Clients <- MCClients
    Users = {"u1"}
    UserOf <- MCUserOf
    Searches = {}
    From <- MCNoFrom
    INT_MAX = 9
    MaxStops = 1
    MaxFaults = 1
SPECIFICATION Spec
INVARIANTS TypeOK CountOfTheServing TicketAdmits
PROPERTIES ChosenWasLeast
CHECK_DEADLOCK FALSE

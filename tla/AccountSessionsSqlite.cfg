SPECIFICATION Spec
CONSTANTS
    k1 = k1
    k2 = k2
    e1 = e1
    e2 = e2
    r1 = r1
    r2 = r2
    v1 = v1
    None = None
    Absent = Absent
    Anonymous = Anonymous
    RowLocks = FALSE
    Clients <- MCClients
    Emails <- MCEmails
    Chats <- MCChats
    Requests <- TwoRequests
PROPERTIES
    OnlyAnonymousDataMoves
CHECK_DEADLOCK FALSE

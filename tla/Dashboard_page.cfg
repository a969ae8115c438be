SPECIFICATION FairSpec

CONSTANTS
    Handlers = {h1, h2}
    h1 = h1
    h2 = h2
    Operations <- Buttons
    Admin = Admin
    Visitor = Visitor
    Nobody = Nobody
    MaxEvents = 1
    MaxFailures = 1
    HistoryRoom = 1

INVARIANTS
    TypeOK
    ButtonsTellWhatRuns
    PresentWalletWasShown
    OrdersAreShown

PROPERTIES
    HandlersEnd

SPECIFICATION FairSpec
CONSTANTS
    Client = client
    Nothing = Nothing
    Records = {1, 2, 3}
    First = {1, 2}
    Crashes = 2
INVARIANTS
    OneOfferPerCancellation
    EventsAreTrue
PROPERTIES
    SettledForGood
    DueEventsSettle

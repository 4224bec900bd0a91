SPECIFICATION Spec
SYMMETRY Colleagues
CONSTANTS
    a1 = a1
    a2 = a2
    Admins <- MCAdmins
    Last = 2
    Crashes = 1
INVARIANTS
    RequestsAgree
    AlertsAreAboutComments
    OneReplyPerRating
PROPERTIES
    RatingsAreFinal

\* Three changes of the spelling and a redirect.
CONSTANTS
    Clients <- MCClients
    Meanings <- MCMeanings
    Redirects <- MCRedirects
    MaxSpellings = 3
    MaxHops = 1
SPECIFICATION Spec
CHECK_DEADLOCK FALSE
INVARIANTS
    CandidatesNameOneResource
    SpellingsAreOneRoute

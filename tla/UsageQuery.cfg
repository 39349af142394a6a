SPECIFICATION FairSpec
CONSTANTS
  Keys = {key1, key2}
  Slots = 1
  Orgs = {org}
  Periods = {period}
  None = none
INVARIANTS AnswersAreWhole
PROPERTIES QueriesEnd

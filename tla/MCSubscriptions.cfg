SPECIFICATION FairSubSpec
CONSTANTS
  Listeners = {1, 2}
  Owners = {o1, o2}
  Nobody = Nobody
INVARIANTS
  SubTypeOK
  RacesAreForeign
  SubscriptionsExclude
PROPERTIES
  DestructorReturns

\* Does pref_release return when every reference is given back?
SPECIFICATION FairSpec
CONSTANTS
  Users = {u1}
  NoUser = NoUser
PROPERTY ReleaseReturns
CHECK_DEADLOCK FALSE

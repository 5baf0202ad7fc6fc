\* Three members and two requests, or two users, three requests and an invite.
SPECIFICATION MCFairSpec
CONSTANTS
  Users <- ThreeUsers
  Calls = {c1, c2, c3}
  Invites = {i1}
  Rosters <- Small
  Sent <- OneSent
  Leavers = {1}
  Nobody = Nobody
CHECK_DEADLOCK FALSE
INVARIANTS TeamSound
PROPERTIES ChangesAtOnce OwnersMadeByOwners CallsEnd

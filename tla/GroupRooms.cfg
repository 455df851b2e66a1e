SPECIFICATION Spec
CONSTANTS
  NumMembers = 2
  Hidden = {1}
  UserMessages <- Said
  MaxRounds = 2
  MaxPosts = 2
  MaxSends = 2
  MaxReplies = 2
  MaxActs = 2
INVARIANTS
  TypeOK
  RepliesPostOnce
  WorkHasALoop
CHECK_DEADLOCK FALSE

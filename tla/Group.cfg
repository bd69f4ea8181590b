\* A group with room for two of three people, where joining needs approval, and
\* two handlers at a time.
SPECIFICATION Spec
CONSTANTS
  g1 = g1  c1 = c1  c2 = c2
  User = {1, 2, 3}
  GroupID = {g1}
  Call = {c1, c2}
  Founder = {1}
  Limit = 2
  Verify <- MCVerify
  MaxVersion = 6
SYMMETRY Handlers
INVARIANTS TypeOK OneOwner WithinLimit MemberLogTells
PROPERTIES DismissedIsFinal FirstAnswerStands JoinedSets
CHECK_DEADLOCK FALSE

SPECIFICATION LiveService
CONSTANTS
  root = root
  branch = branch
  admin = admin
  user = user
  p1 = p1
  p2 = p2
  Users = {admin, user}
  Orgs = {root, branch}
  Org <- Homes
  Parent <- Tree
  FirstRole <- Seeded
  FirstOwner <- Owners
  FirstMembers <- Members
  Projects = {p1, p2}
  MaxTokens = 3
  Clients = {c1, c2}
  Scenes <- Traffic
  Wishes <- Rows
  None = None
  MaxJobs = 2
  Keys = {k1}
  Prints = {x1, x2}
  Askers = {a1, a2}
  Writers = {w1, w2}
  Sockets = {s1}
  Overlaps = FALSE
  MaxSeq = 4
INVARIANTS OneLiveHeir MembersBelong AnswersStand
PROPERTIES ChangedInScope ChangedKnowingly SocketsFollowRights FeedCatchesUp
CHECK_DEADLOCK FALSE

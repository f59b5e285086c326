SPECIFICATION Spec
CONSTANTS
  a1 = a1
  a2 = a2
  b1 = b1
  b2 = b2
  c1 = c1
  c2 = c2
  p1 = p1
  p2 = p2
  e1 = e1
  k1 = k1
  k2 = k2
  k3 = k3
  v1 = v1
  v2 = v2
  NoConnection = NoConnection
  NoVersion = NoVersion
  Styles = {1, 2, 3}
  MaxCount = 2
  MaxTemplates = 2
  Batches = {b1, b2}
  Admins = {a1, a2}
  Connections = {c1, c2}
  MaxVersion = 2
  MaxNumber = 3
  Editors = {a1, a2}
  People = {p1, p2}
  Events = {e1}
  Threads = {"t1", "t2", "t3"}
  NoThread = "none"
  MaxMishaps = 2
  Keys = {k1, k2, k3}
  Versions = {v1, v2}
  Senders = {1, 2}
  MaxKills = 2
SYMMETRY Symmetry
CONSTRAINT Straight
INVARIANTS TemplatesTakeTurns AllocationFair RunsAsPublished EnabledRuleHasTarget AnswerStands UpgradeLosesNothing
PROPERTIES PolicyMovesForward PreviewStaysWhole
CHECK_DEADLOCK FALSE

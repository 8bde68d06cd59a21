CONSTANTS
  p1 = p1
  p2 = p2
  s1 = s1
  s2 = s2
  r1 = r1
  r2 = r2
  c1 = c1
  c2 = c2
  Store = Store
  None = None
  Link = Link
  Foreign = Foreign
  Torn = Torn
  Hollow = Hollow
  Procs = {p1, p2}
  Skills = {s1}
  Roots = {r1, r2}
  Contents = {c1, c2}
  Requests <- OneSkill
  MaxTx = 2
  MaxFaults = 2
  MaxEdits = 1
  JournalTears = TRUE
  EditsWhilePending = FALSE
SPECIFICATION Spec
SYMMETRY Symmetry
INVARIANTS TypeOK NoResidue DecidesOnRecoveredStore
PROPERTIES HonestResults UserTargetsKept

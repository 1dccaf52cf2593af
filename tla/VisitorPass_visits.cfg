SPECIFICATION Spec
CONSTANTS
  Visitor = {v1, v2}
  NoVisitor = none
  Handler = {h1, h2}
  MaxSlots = 1
  MaxVisits = 2
SYMMETRY Symmetry
CHECK_DEADLOCK FALSE
INVARIANTS SlotsKept VisitsAddUp
PROPERTIES DeadPassesStayDead

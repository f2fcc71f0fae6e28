SPECIFICATION Spec
CONSTANTS
  Projects = {p1, p2, p3}
  Windows = {w1, w2}
  Free = Free
  MaxInvoices = 2
  Crashes = TRUE
SYMMETRY Symmetry
INVARIANTS BilledOnce BillsMatch NumbersRunOn
CHECK_DEADLOCK FALSE

SPECIFICATION Spec
CONSTANTS
  Accounts = {ana, budi}
  Members = {budi}
  MaxOrders = 2
  Totals = {t1}
  Threads = {c1, c2}
  Loop = loop
  None = none
  OrderLife = 1
  VoucherUses = 1
  AutoConfirm = TRUE
  TrialApproval = FALSE
  ByHand = FALSE
  LateTransfers = FALSE
  Deliveries = 1
  MaxFaults = 1
SYMMETRY Symmetry
INVARIANTS TypeOK VoucherWithinLimit PaidAccountStays EachPaysItsOwn
PROPERTIES KeepsThePromise
CHECK_DEADLOCK FALSE

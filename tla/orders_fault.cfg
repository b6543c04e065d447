SPECIFICATION FairSpec
CONSTANTS
  Accounts = {ana, budi}
  Members = {budi}
  MaxOrders = 1
  Totals = {t1}
  Threads = {c1}
  Loop = loop
  None = none
  OrderLife = 1
  VoucherUses = 0
  AutoConfirm = TRUE
  TrialApproval = FALSE
  ByHand = FALSE
  LateTransfers = FALSE
  Deliveries = 1
  MaxFaults = 1
PROPERTIES PaidIsSwitchedOn
CHECK_DEADLOCK FALSE

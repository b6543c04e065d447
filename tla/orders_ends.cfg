SPECIFICATION FairSpec
CONSTANTS
  Accounts = {ana}
  Members = {}
  MaxOrders = 2
  Totals = {t1}
  Threads = {c1, c2}
  Loop = loop
  None = none
  OrderLife = 1
  VoucherUses = 0
  AutoConfirm = FALSE
  TrialApproval = FALSE
  ByHand = TRUE
  LateTransfers = TRUE
  Deliveries = 2
  MaxFaults = 0
INVARIANTS PaidAccountStays
PROPERTIES KeepsThePromise EveryOrderCloses UnpaidAccountsGo PaidIsSwitchedOn
CHECK_DEADLOCK FALSE

SPECIFICATION Spec
CONSTANTS
  p1 = p1
  p2 = p2
  n1 = n1
  n2 = n2
  n3 = n3
  s1 = s1
  a1 = a1
  Payments <- MCPayments
  PayNotices <- MCPayNotices
  SubNotices <- MCSubNotices
  PaymentOf <- MCPaymentOf
  Patches <- MCPatches
  PatchEnds <- MCPatchEnds
  PatchStatuses <- MCPatchStatuses
  PatchPolicies <- MCPatchPolicies
  FirstTier = "demo"
  FirstEnd = 1
  Month = 1
  GraceDays = 1
  PurgeGrace = 0
  LastDay = 2
SYMMETRY MCSymmetry
INVARIANTS
  OneMonthPerPayment
  PaidNotBlocked
  PurgeSparesPaid
CHECK_DEADLOCK FALSE

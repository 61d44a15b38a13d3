SPECIFICATION Spec
CONSTANTS
  Purchases <- TwoPurchases
  Contents <- TwoContents
  Charges <- OnceCharged
  NoCharge = none
  PurchaseOf <- ChargePurchase
  ContentOf <- PurchaseContent
  MaxRetries = 2
  AttemptCap = 2
  FaultPoints <- AllPoints
  MaxFaults = 1
  Workers = {w1}
  BatchLimit = 1
  BotEnabled = TRUE
  film = film
  book = book
INVARIANTS
  AckedIsDeliveredOrQueued
  IInv
PROPERTIES
  KeepsPromise

SPECIFICATION Spec
CONSTANTS
  Purchases <- OnePurchase
  Contents <- OneContent
  Charges <- TwiceCharged
  NoCharge = none
  PurchaseOf <- ChargePurchase
  ContentOf <- PurchaseContent
  MaxRetries = 2
  AttemptCap = 0
  FaultPoints = {}
  MaxFaults = 0
  Workers = {w1, w2}
  BatchLimit = 2
  BotEnabled = TRUE
  film = film
  book = book
INVARIANTS
  NoDoubleCharge

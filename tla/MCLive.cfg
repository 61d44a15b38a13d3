SPECIFICATION LiveSpec
CONSTANTS
  Purchases <- OnePurchase
  Contents <- OneContent
  Charges <- OnceCharged
  NoCharge = none
  PurchaseOf <- ChargePurchase
  ContentOf <- PurchaseContent
  MaxRetries = 2
  AttemptCap = 1
  FaultPoints <- RepeatablePoints
  MaxFaults = 1
  Workers = {w1, w2}
  BatchLimit = 2
  BotEnabled = TRUE
  film = film
  book = book
PROPERTIES
  DeliveredIfSellable

SPECIFICATION LiveSpec
CONSTANTS
  Purchases <- OnePurchase
  Contents <- OneContent
  Charges <- OnceCharged
  NoCharge = none
  PurchaseOf <- ChargePurchase
  ContentOf <- PurchaseContent
  MaxRetries = 2
  AttemptCap = 0
  FaultPoints = {"publish"}
  MaxFaults = 1
  Workers = {w1}
  BatchLimit = 2
  BotEnabled = TRUE
  film = film
  book = book
PROPERTIES
  DeliveredIfSellable

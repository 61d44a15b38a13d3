SPECIFICATION LiveSpec
CONSTANTS
  Purchases <- TwoPurchases
  Contents <- TwoContents
  Charges <- OnceCharged
  NoCharge = none
  PurchaseOf <- ChargePurchase
  ContentOf <- PurchaseContent
  MaxRetries = 2
  AttemptCap = 0
  FaultPoints = {}
  MaxFaults = 0
  Workers = {w1}
  BatchLimit = 1
  BotEnabled = TRUE
  film = film
  book = book
PROPERTIES
  DeliveredWhateverOthers

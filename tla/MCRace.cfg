SPECIFICATION Spec
CONSTANTS
  Purchases <- OnePurchase
  Contents <- OneContent
  Charges <- TwiceCharged
  NoCharge = none
  PurchaseOf <- ChargePurchase
  ContentOf <- PurchaseContent
  MaxRetries = 2
  AttemptCap = 2
  FaultPoints <- AllPoints
  MaxFaults = 2
  Workers = {w1, w2}
  BatchLimit = 2
  BotEnabled = TRUE
  film = film
  book = book
SYMMETRY Symmetry
INVARIANTS
  TypeOK
  NoAccessWithoutPayment
  AckedIsDeliveredOrQueued
  IssuedHasGrant
  OneLinkPerPurchase
  PublishedMeansSent
  ErrorMeansExhausted
  IInv
PROPERTIES
  PaymentIsSticky
  StaleWritesReopen
  KeepsPromise

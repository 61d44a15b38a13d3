SPECIFICATION FairPolling
CONSTANTS
  Purchases <- OnePurchase
  Contents <- OneContent
  Charges <- OnceCharged
  NoCharge = none
  PurchaseOf <- ChargePurchase
  ContentOf <- PurchaseContent
  MaxRetries = 2
  AttemptCap = 0
  FaultPoints <- HandlerPoints
  MaxFaults = 1
  bot = bot
  Workers = {bot}
  Messages <- AllMessages
  Ratings <- OtherRatings
  Buffer = 1
  Backlog = 1
  BatchLimit = 1
  BotEnabled = TRUE
  film = film
INVARIANTS
  PollingTypeOK
  NoticeTracked
  OnePurchasePerOrder
  AdminAsAsked
  FreeMeansAdmin
PROPERTIES
  BotFulfils
  ServedByPolling
  MovesForward
  FirstReviewStays

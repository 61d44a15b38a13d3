----------------------------- MODULE MCPolling -----------------------------
(***************************************************************************)
(* A small instance of Polling: one content, one purchase id and one       *)
(* charge, which the buyer and the operator's /forcebuy compete for.       *)
(***************************************************************************)
EXTENDS Polling

CONSTANT film

OneContent == {film}
OnePurchase == {<<film, 1>>}
OnceCharged == Purchases \X {1}
ChargePurchase == [c \in Charges |-> c[1]]
PurchaseContent == [p \in Purchases |-> p[1]]

Toggle(i) == [kind |-> "adminmode", n |-> i]
Order(k) == [kind |-> k, content |-> film, n |-> 1]
Review(p, stars) == [kind |-> "review", purchase |-> p, stars |-> stars, n |-> 1]

\* Each kind of message is said once.
AllMessages ==
  {Toggle(1), Order("buy"), Order("forcebuy"), Review(<<film, 1>>, 5)}

\* Ratings over HTTP: another than the message's, and one that is refused.
OtherRatings == {1, 6}

\* Crashes and failed statements hit the payment handler; the processor's are
\* the subject of Fulfilment's runs.
HandlerPoints == ConfirmPoint \ {"idle"}
=============================================================================

---------------------------- MODULE MCFulfilment ----------------------------
(***************************************************************************)
(* Small instances of Fulfilment.  A charge is <<purchase, n>>, the n-th   *)
(* payment of that purchase's invoice; a purchase is <<content, n>>.       *)
(***************************************************************************)
EXTENDS Fulfilment, TLC

CONSTANTS film, book

OnePurchase == {<<film, 1>>}
TwoPurchases == {<<film, 1>>, <<book, 1>>}
OneContent == {film}
TwoContents == {film, book}
OnceCharged == Purchases \X {1}
TwiceCharged == Purchases \X {1, 2}

ChargePurchase == [c \in Charges |-> c[1]]
PurchaseContent == [p \in Purchases |-> p[1]]

\* Program points whose failure the handlers survive: nothing was written
\* that a repetition of the handler cannot get past.
RepeatablePoints ==
  {"check", "lookup", "update", "mark", "reply",
   "content", "provider", "create", "settle"}

AllPoints == (ConfirmPoint \cup IssuePoint) \ {"idle", "next"}

\* Workers are interchangeable: nothing orders or names them.
Symmetry == Permutations(Workers)
=============================================================================

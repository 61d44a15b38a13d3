---------------------------- MODULE MCUseAccess ----------------------------
(***************************************************************************)
(* Small instances of UseAccess: a request is <<token, n>>, the n-th that  *)
(* presents the token.                                                     *)
(***************************************************************************)
EXTENDS UseAccess

CONSTANTS t1, t2

OneToken == {t1}
TwoTokens == {t1, t2}
TwiceEach == Tokens \X {1, 2}
ThriceEach == Tokens \X {1, 2, 3}
TokenPresented == [r \in Requests |-> r[1]]
=============================================================================

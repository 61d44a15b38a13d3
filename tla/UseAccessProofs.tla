-------------------------- MODULE UseAccessProofs --------------------------
(***************************************************************************)
(* Theorems of UseAccess for any tokens, any number of overlapping         *)
(* requests and any bound of the clock.                                    *)
(***************************************************************************)
EXTENDS UseAccess, TLAPS

USE DEF history

IInv == TypeOK /\ ValidMeansUsed /\ FreshCopyInv

\* Initially no grant exists and no request has begun.
LEMMA InitInv == Init => IInv
<1> SUFFICES ASSUME Init PROVE IInv
  OBVIOUS
<1>1. TypeOK
  BY DEF Init, TypeOK, Time, Null, NoGrant, Grant, RequestPoint
<1>2. ValidMeansUsed /\ FreshCopyInv
  BY DEF Init, ValidMeansUsed, FreshCopyInv, At, NoGrant, Null
<1> QED
  BY <1>1, <1>2 DEF IInv

\* A conditional update of used_at sets it, once, and touches nothing else.
LEMMA SettingUsed ==
  ASSUME TypeOK, NEW t \in Tokens
  PROVE  /\ SetUsed(t) \in [Tokens -> Grant]
         /\ SetUsed(t)[t].usedAt # Null
         /\ \A u \in Tokens : /\ SetUsed(t)[u].issued = grants[u].issued
                              /\ grants[u].usedAt # Null
                                   => SetUsed(t)[u].usedAt = grants[u].usedAt
<1>1. grants[t] \in Grant /\ now \in Nat /\ now # Null
  BY DEF TypeOK, Time
<1>2. CASE grants[t].usedAt = Null
  <2>1. SetUsed(t) = [grants EXCEPT ![t].usedAt = now]
    BY <1>2 DEF SetUsed
  <2> QED
    BY <1>1, <1>2, <2>1 DEF TypeOK, Grant
<1>3. CASE grants[t].usedAt # Null
  BY <1>3 DEF SetUsed, TypeOK
<1> QED
  BY <1>2, <1>3

\* No step clears or moves used_at, or takes a grant away.
LEMMA UsedStays ==
  ASSUME IInv, [Next]_vars
  PROVE  \A t \in Tokens :
           /\ grants[t].issued => grants'[t].issued
           /\ grants[t].usedAt # Null => grants'[t].usedAt = grants[t].usedAt
<1>0. TypeOK /\ FreshCopyInv
  BY DEF IInv
<1>1. CASE grants' = grants
  BY <1>1
<1>2. ASSUME NEW t \in Tokens, Issue(t)
      PROVE  \A u \in Tokens :
               /\ grants[u].issued => grants'[u].issued
               /\ grants[u].usedAt # Null => grants'[u].usedAt = grants[u].usedAt
  <2>1. grants[t].usedAt = Null
    BY <1>0, <1>2 DEF FreshCopyInv, Issue
  <2> QED
    BY <1>0, <1>2, <2>1 DEF Issue, TypeOK
<1>3. CASE \E t \in Tokens : grants' = SetUsed(t)
  BY <1>0, <1>3, SettingUsed
<1> QED
  BY <1>1, <1>2, <1>3, TokenOfAssumption
     DEF Next, Tick, Load, Check, MarkUsed, Fail, vars

\* Every step keeps the types.
LEMMA NextType == TypeOK /\ [Next]_vars => TypeOK'
<1> SUFFICES ASSUME TypeOK, [Next]_vars PROVE TypeOK'
  OBVIOUS
<1> USE DEF TypeOK
<1>1. CASE Tick
  BY <1>1 DEF Tick, Time, Null
<1>2. ASSUME NEW t \in Tokens, Issue(t) PROVE TypeOK'
  BY <1>2, TimeAssumption DEF Issue, Grant, Null
<1>3. ASSUME NEW r \in Requests, Load(r) PROVE TypeOK'
  <2>1. grants[TokenOf[r]] \in Grant
    BY TokenOfAssumption
  <2>2. AnsweredValid \in SUBSET Requests
    BY DEF AnsweredValid
  <2> QED
    BY <1>3, <2>1, <2>2 DEF Load, RequestPoint, Outcome, Time
<1>4. ASSUME NEW r \in Requests, Check(r) PROVE TypeOK'
  <2>1. \A q \in Requests \ {r} : requests'[q] = requests[q]
    BY <1>4 DEF Check, Goto
  <2>2. /\ requests' \in [Requests -> [pc : RequestPoint, grant : Grant]]
        /\ requests'[r].grant = requests[r].grant
    BY <1>4 DEF Check, Goto, RequestPoint, Outcome
  <2>3. requests[r].grant.issued
    BY <1>4 DEF Check, At
  <2> QED
    BY <1>4, <2>1, <2>2, <2>3 DEF Check
<1>5. ASSUME NEW r \in Requests, MarkUsed(r) \/ Fail(r) PROVE TypeOK'
  <2>1. SetUsed(TokenOf[r]) \in [Tokens -> Grant]
    BY TokenOfAssumption, SettingUsed
  <2>2. grants' \in [Tokens -> Grant]
    BY <1>5, <2>1 DEF MarkUsed, Fail
  <2>3. /\ requests' \in [Requests -> [pc : RequestPoint, grant : Grant]]
        /\ \A q \in Requests : /\ requests'[q].grant = requests[q].grant
                              /\ requests'[q].pc \in {requests[q].pc, "valid", "failed"}
    BY <1>5 DEF MarkUsed, Fail, Goto, RequestPoint, Outcome
  <2> QED
    BY <1>5, <2>2, <2>3 DEF MarkUsed, Fail
<1>6. CASE UNCHANGED vars
  BY <1>6 DEF vars
<1> QED
  BY <1>1, <1>2, <1>3, <1>4, <1>5, <1>6 DEF Next

\* A request nobody moved, and whose token's grant went forward, is as it was.
LEMMA RequestUnmoved ==
  ASSUME IInv, [Next]_vars, NEW r \in Requests,
         requests'[r] = requests[r], earlier'[r] = earlier[r]
  PROVE  /\ At(r, "valid")' => grants'[TokenOf[r]].usedAt # Null
         /\ requests'[r].pc \in {"mark", "valid"} => requests'[r].grant.usedAt = Null
         /\ requests'[r].pc \in {"check", "mark"} => grants'[TokenOf[r]].issued
         /\ /\ requests'[r].pc \in {"check", "mark", "valid"}
            /\ requests'[r].grant.usedAt = Null
            => \A s \in earlier'[r] : TokenOf[s] # TokenOf[r]
BY UsedStays, TokenOfAssumption DEF IInv, ValidMeansUsed, FreshCopyInv, At

\* Every step keeps the invariant.
LEMMA NextInv == IInv /\ [Next]_vars => IInv'
<1> SUFFICES ASSUME IInv, [Next]_vars PROVE IInv'
  OBVIOUS
<1>0. TypeOK /\ TypeOK' /\ ValidMeansUsed /\ FreshCopyInv
  BY NextType DEF IInv
<1>1. \A t \in Tokens : grants'[t].usedAt # Null => grants'[t].issued
  <2>1. CASE grants' = grants
    BY <1>0, <2>1 DEF FreshCopyInv
  <2>2. ASSUME NEW t \in Tokens, Issue(t)
        PROVE  \A u \in Tokens : grants'[u].usedAt # Null => grants'[u].issued
    BY <1>0, <2>2 DEF Issue, TypeOK, FreshCopyInv
  <2>3. ASSUME NEW r \in Requests, At(r, "mark"), grants' = SetUsed(TokenOf[r])
        PROVE  \A u \in Tokens : grants'[u].usedAt # Null => grants'[u].issued
    <3>1. grants[TokenOf[r]].issued
      BY <1>0, <2>3 DEF FreshCopyInv, At
    <3>2. \A u \in Tokens : u # TokenOf[r] => grants'[u] = grants[u]
      BY <1>0, <2>3 DEF SetUsed, TypeOK
    <3> QED
      BY <1>0, <2>3, <3>1, <3>2, SettingUsed, TokenOfAssumption DEF FreshCopyInv
  <2> QED
    BY <2>1, <2>2, <2>3 DEF Next, Tick, Load, Check, MarkUsed, Fail, vars
<1>2. SUFFICES ASSUME NEW r \in Requests
               PROVE  /\ At(r, "valid")' => grants'[TokenOf[r]].usedAt # Null
                      /\ requests'[r].pc \in {"mark", "valid"}
                           => requests'[r].grant.usedAt = Null
                      /\ requests'[r].pc \in {"check", "mark"}
                           => grants'[TokenOf[r]].issued
                      /\ /\ requests'[r].pc \in {"check", "mark", "valid"}
                         /\ requests'[r].grant.usedAt = Null
                         => \A s \in earlier'[r] : TokenOf[s] # TokenOf[r]
  BY <1>0, <1>1 DEF IInv, ValidMeansUsed, FreshCopyInv
<1>3. CASE requests'[r] = requests[r] /\ earlier'[r] = earlier[r]
  BY <1>3, RequestUnmoved
<1>4. CASE Load(r)
  <2>1. /\ requests'[r].grant = grants[TokenOf[r]]
        /\ requests'[r].pc = IF grants[TokenOf[r]].issued THEN "check" ELSE "invalid"
        /\ earlier'[r] = AnsweredValid
        /\ grants' = grants
    BY <1>0, <1>4 DEF Load, TypeOK
  <2>2. grants[TokenOf[r]].usedAt = Null
          => \A s \in AnsweredValid : TokenOf[s] # TokenOf[r]
    BY <1>0 DEF ValidMeansUsed, AnsweredValid
  <2> QED
    BY <2>1, <2>2 DEF At
<1>5. CASE Check(r)
  <2>1. /\ requests'[r].grant = requests[r].grant
        /\ requests'[r].pc \in {"used", "expired", "mark"}
        /\ requests'[r].pc = "mark" => requests[r].grant.usedAt = Null
        /\ UNCHANGED <<grants, earlier>>
        /\ requests[r].pc = "check"
    BY <1>0, <1>5 DEF Check, Goto, At, TypeOK
  <2> QED
    BY <1>0, <2>1 DEF FreshCopyInv, At
<1>6. CASE MarkUsed(r)
  <2>1. /\ requests'[r].grant = requests[r].grant
        /\ requests'[r].pc = "valid"
        /\ requests[r].pc = "mark"
        /\ grants' = SetUsed(TokenOf[r])
        /\ earlier' = earlier
    BY <1>0, <1>6 DEF MarkUsed, Goto, At, TypeOK
  <2>2. grants'[TokenOf[r]].usedAt # Null
    BY <1>0, <2>1, SettingUsed, TokenOfAssumption
  <2> QED
    BY <1>0, <2>1, <2>2 DEF FreshCopyInv
<1>7. CASE Fail(r)
  BY <1>0, <1>7 DEF Fail, Goto, TypeOK, At
<1> QED
  <2>1. \A q \in Requests : Load(q) \/ Check(q) \/ MarkUsed(q) \/ Fail(q)
          => q = r \/ (requests'[r] = requests[r] /\ earlier'[r] = earlier[r])
    BY <1>0 DEF Load, Check, MarkUsed, Fail, Goto, TypeOK
  <2> QED
    BY <1>3, <1>4, <1>5, <1>6, <1>7, <2>1 DEF Next, Tick, Issue, vars

\* The invariant holds always.
THEOREM Invariant == Spec => []IInv
BY InitInv, NextInv, PTL DEF Spec

\* The table, the clock and the copies that requests hold have their types.
THEOREM TypeCorrect == Spec => []TypeOK
<1>1. IInv => TypeOK
  BY DEF IInv
<1> QED
  BY <1>1, Invariant, PTL

\* A copy that use_access holds and that says unused was read before anybody
\* was let in with its token: what makes check and update, two statements,
\* good enough.
THEOREM CopiesAreFresh == Spec => []FreshCopyInv
<1>1. IInv => FreshCopyInv
  BY DEF IInv
<1> QED
  BY <1>1, Invariant, PTL

\* Whoever use_access lets in leaves the token used.
THEOREM LettingInUses == Spec => []ValidMeansUsed
<1>1. IInv => ValidMeansUsed
  BY DEF IInv
<1> QED
  BY <1>1, Invariant, PTL

\* A token that let somebody in lets in nobody who asks afterwards, however
\* requests overlap and fail.
THEOREM OneTime == Spec => []NoLateUse
<1>1. FreshCopyInv => NoLateUse
  BY DEF FreshCopyInv, NoLateUse, At
<1> QED
  BY <1>1, CopiesAreFresh, PTL

\* No step moves the expiry of a grant that is there.
LEMMA ExpiryStays ==
  ASSUME TypeOK, [Next]_vars
  PROVE  \A t \in Tokens :
           grants[t].issued => /\ grants'[t].issued
                               /\ grants'[t].expiresAt = grants[t].expiresAt
<1>1. ASSUME NEW t \in Tokens, Issue(t)
      PROVE  \A u \in Tokens : grants[u].issued => grants'[u] = grants[u]
  BY <1>1 DEF Issue, TypeOK
<1>2. ASSUME NEW t \in Tokens, grants' = SetUsed(t)
      PROVE  \A u \in Tokens : /\ grants'[u].issued = grants[u].issued
                               /\ grants'[u].expiresAt = grants[u].expiresAt
  BY <1>2 DEF SetUsed, TypeOK
<1> QED
  BY <1>1, <1>2, TokenOfAssumption DEF Next, Tick, Load, Check, MarkUsed, Fail, vars

LEMMA InitExpiry == Init => ExpiryInv
BY DEF Init, ExpiryInv, Null

\* Every step keeps what a request knows of its token's expiry.
LEMMA NextExpiry == TypeOK /\ ExpiryInv /\ [Next]_vars => ExpiryInv'
<1> SUFFICES ASSUME TypeOK, ExpiryInv, [Next]_vars, NEW r \in Requests
             PROVE  /\ began'[r] <= now'
                    /\ requests'[r].pc \in {"check", "mark", "valid"} =>
                         /\ grants'[TokenOf[r]].issued
                         /\ requests'[r].grant.expiresAt = grants'[TokenOf[r]].expiresAt
                    /\ requests'[r].pc \in {"mark", "valid"} =>
                         began'[r] <= requests'[r].grant.expiresAt
  BY DEF ExpiryInv
<1>0. /\ now \in Nat /\ now' \in Nat /\ now <= now'
      /\ TokenOf[r] \in Tokens
      /\ began[r] \in Nat
      /\ requests[r].grant \in Grant /\ grants[TokenOf[r]] \in Grant
      /\ requests[r].pc \in {"check", "mark"} => requests[r].grant.issued
  BY TokenOfAssumption
     DEF TypeOK, Time, Next, Tick, Issue, Load, Check, MarkUsed, Fail, vars
<1>1. CASE requests'[r] = requests[r] /\ began'[r] = began[r]
  BY <1>0, <1>1, ExpiryStays DEF ExpiryInv
<1>2. CASE Load(r)
  BY <1>0, <1>2 DEF Load, TypeOK
<1>3. CASE Check(r)
  <2>1. /\ requests'[r].grant = requests[r].grant
        /\ requests'[r].pc = "mark" => now <= requests[r].grant.expiresAt
        /\ requests'[r].pc \in {"used", "expired", "mark"}
        /\ requests[r].pc = "check"
        /\ began' = began /\ grants' = grants
    BY <1>0, <1>3 DEF Check, Goto, At, TypeOK, Grant
  <2> QED
    BY <1>0, <2>1 DEF ExpiryInv, Grant
<1>4. CASE MarkUsed(r) \/ Fail(r)
  <2>1. /\ requests'[r].grant = requests[r].grant
        /\ requests'[r].pc = "failed" \/ (requests'[r].pc = "valid" /\ requests[r].pc = "mark")
        /\ began' = began
    BY <1>0, <1>4 DEF MarkUsed, Fail, Goto, At, TypeOK
  <2> QED
    BY <1>0, <2>1, ExpiryStays DEF ExpiryInv
<1> QED
  <2>1. \A q \in Requests : Load(q) \/ Check(q) \/ MarkUsed(q) \/ Fail(q)
          => q = r \/ (requests'[r] = requests[r] /\ began'[r] = began[r])
    BY DEF Load, Check, MarkUsed, Fail, Goto, TypeOK
  <2> QED
    BY <1>1, <1>2, <1>3, <1>4, <2>1 DEF Next, Tick, Issue, vars

\* Nobody who asks after the expiry is let in, however slow the requests that
\* were checked before it are.
THEOREM ExpiryIsKept == Spec => []LateIsRefused
<1>1. TypeOK /\ ExpiryInv => LateIsRefused
  BY DEF ExpiryInv, LateIsRefused, At
<1>2. IInv => TypeOK
  BY DEF IInv
<1> QED
  BY <1>1, <1>2, InitExpiry, NextExpiry, Invariant, PTL DEF Spec

\* The time of the first redemption is never changed.
THEOREM FirstUseIsFinal == Spec => UsedForEver
<1>1. IInv /\ [Next]_vars
        => [\A t \in Tokens : grants[t].usedAt # Null
                                => grants'[t].usedAt = grants[t].usedAt]_vars
  BY UsedStays
<1> QED
  BY <1>1, Invariant, PTL DEF Spec, UsedForEver
=============================================================================

----------------------------- MODULE UseAccess -----------------------------
(***************************************************************************)
(* use_access.Handler, run concurrently by HTTP requests that present      *)
(* access tokens, over the access_grants table and a clock.                *)
(*                                                                         *)
(* The redis cache is left out: the result of Cache.Get is thrown away and *)
(* the error of Cache.Delete too, so no answer depends on it.              *)
(***************************************************************************)
EXTENDS Integers

CONSTANTS
  Tokens,     \* raw tokens; each is the token of at most one grant
  Requests,   \* calls of the handler, retries by the client included
  TokenOf,    \* the token a request presents
  MaxTime     \* bound: the clock stops there

ASSUME TokenOfAssumption == TokenOf \in [Requests -> Tokens]
ASSUME TimeAssumption == MaxTime \in Nat

VARIABLES
  now,       \* the clock of the handler and of the database
  grants,    \* table access_grants, by the token whose hash it holds
  requests,  \* per request: program point and its copy of the grant
  earlier,   \* history: the requests answered Valid before a request began
  began      \* history: the time at which a request began

history == <<earlier, began>>
vars == <<now, grants, requests, history>>

Null == 0
Time == Nat \ {Null}

\* issued says whether the row exists.
Grant == [issued : BOOLEAN, expiresAt : Nat, usedAt : Nat]
NoGrant == [issued |-> FALSE, expiresAt |-> Null, usedAt |-> Null]

Outcome == {"invalid", "used", "expired", "failed", "valid"}
RequestPoint == {"load", "check", "mark"} \cup Outcome

TypeOK ==
  /\ now \in Time
  /\ grants \in [Tokens -> Grant]
  /\ requests \in [Requests -> [pc : RequestPoint, grant : Grant]]
  /\ \A r \in Requests :
       requests[r].pc \in {"check", "mark"} => requests[r].grant.issued
  /\ earlier \in [Requests -> SUBSET Requests]
  /\ began \in [Requests -> Nat]

Init ==
  /\ now = 1
  /\ grants = [t \in Tokens |-> NoGrant]
  /\ requests = [r \in Requests |-> [pc |-> "load", grant |-> NoGrant]]
  /\ earlier = [r \in Requests |-> {}]
  /\ began = [r \in Requests |-> Null]

Tick ==
  /\ now < MaxTime
  /\ now' = now + 1
  /\ UNCHANGED <<grants, requests, history>>

\* issue_access creates the grant; its expiry is whatever the provider says.
Issue(t) ==
  /\ ~ grants[t].issued
  /\ \E e \in 1 .. MaxTime :
       grants' = [grants EXCEPT ![t] =
                   [issued |-> TRUE, expiresAt |-> e, usedAt |-> Null]]
  /\ UNCHANGED <<now, requests, history>>

At(r, pc) == requests[r].pc = pc
Goto(r, pc) == requests' = [requests EXCEPT ![r] = [pc |-> pc, grant |-> @.grant]]
AnsweredValid == {r \in Requests : At(r, "valid")}

\* Mutant: that no grant was found is not noticed.
LoadUnguarded(r) ==
  LET grant == grants[TokenOf[r]] IN
  /\ At(r, "load")
  /\ requests' = [requests EXCEPT ![r] =
                   [pc |-> "check", grant |-> grant]]
  /\ earlier' = [earlier EXCEPT ![r] = AnsweredValid]
  /\ began' = [began EXCEPT ![r] = now]
  /\ UNCHANGED <<now, grants>>

\* Grants.GetByTokenHash.
Load(r) ==
  LET grant == grants[TokenOf[r]] IN
  /\ At(r, "load")
  /\ requests' = [requests EXCEPT ![r] =
                   [pc |-> IF grant.issued THEN "check" ELSE "invalid",
                    grant |-> grant]]
  /\ earlier' = [earlier EXCEPT ![r] = AnsweredValid]
  /\ began' = [began EXCEPT ![r] = now]
  /\ UNCHANGED <<now, grants>>

\* Mutant: the copy's used_at is not looked at.
CheckExpiryOnly(r) ==
  /\ At(r, "check")
  /\ Goto(r, IF now > requests[r].grant.expiresAt THEN "expired" ELSE "mark")
  /\ UNCHANGED <<now, grants, history>>

\* Mutant: the copy's expiry is not looked at.
CheckUseOnly(r) ==
  /\ At(r, "check")
  /\ Goto(r, IF requests[r].grant.usedAt # Null THEN "used" ELSE "mark")
  /\ UNCHANGED <<now, grants, history>>

\* The copy must be unused and its expiry not in the past.
Check(r) ==
  /\ At(r, "check")
  /\ Goto(r, IF requests[r].grant.usedAt # Null THEN "used"
             ELSE IF now > requests[r].grant.expiresAt THEN "expired"
             ELSE "mark")
  /\ UNCHANGED <<now, grants, history>>

\* Mutants: used_at is overwritten, or never written.
SetUsedAgain(t) == [grants EXCEPT ![t].usedAt = now]
SetUsedNever(t) == grants

\* UPDATE access_grants SET used_at = NOW() WHERE id = $1 AND used_at IS NULL.
SetUsed(t) ==
  IF grants[t].usedAt = Null THEN [grants EXCEPT ![t].usedAt = now] ELSE grants

\* Grants.MarkUsed, which does not tell whether it changed the row, and the
\* answer Valid.
MarkUsed(r) ==
  /\ At(r, "mark")
  /\ grants' = SetUsed(TokenOf[r])
  /\ Goto(r, "valid")
  /\ UNCHANGED <<now, history>>

\* A statement fails, before or (MarkUsed) after it took effect, or the
\* process dies: the client gets no Valid answer.
Fail(r) ==
  /\ requests[r].pc \notin Outcome
  /\ \/ UNCHANGED grants
     \/ At(r, "mark") /\ grants' = SetUsed(TokenOf[r])
  /\ Goto(r, "failed")
  /\ UNCHANGED <<now, history>>

Next ==
  \/ Tick
  \/ \E t \in Tokens : Issue(t)
  \/ \E r \in Requests : Load(r) \/ Check(r) \/ MarkUsed(r) \/ Fail(r)

Spec == Init /\ [][Next]_vars

-----------------------------------------------------------------------------

\* The first redemption is final: a second request that passed the check on
\* the same unused copy does not move used_at.
UsedForEver ==
  [][\A t \in Tokens : grants[t].usedAt # Null
                         => grants'[t].usedAt = grants[t].usedAt]_vars

\* Whoever is let in leaves the token used, so that it can be seen by others.
ValidMeansUsed ==
  \A r \in Requests : At(r, "valid") => grants[TokenOf[r]].usedAt # Null

\* A token that somebody was let in with lets in nobody who asks afterwards.
NoLateUse ==
  \A r, s \in Requests :
    At(r, "valid") /\ s \in earlier[r] => TokenOf[s] # TokenOf[r]

\* Nobody who asks after a token's expiry is let in, although the expiry is
\* checked on a copy and used_at may be written after it: what a slow request
\* gains is only the time between its own check and its own update.
LateIsRefused ==
  \A r \in Requests :
    At(r, "valid") => began[r] <= grants[TokenOf[r]].expiresAt

\* A token lets in one request, however many present it at the same time.
AtMostOneValid ==
  \A r, s \in AnsweredValid : TokenOf[r] = TokenOf[s] => r = s

\* What makes these inductive: a copy that was unused when it was read was
\* read before anybody was let in with the token, and only a grant that is
\* there is marked.
FreshCopyInv ==
  /\ \A t \in Tokens : grants[t].usedAt # Null => grants[t].issued
  /\ \A r \in Requests :
       /\ requests[r].pc \in {"mark", "valid"} => requests[r].grant.usedAt = Null
       /\ requests[r].pc \in {"check", "mark"} => grants[TokenOf[r]].issued
       /\ /\ requests[r].pc \in {"check", "mark", "valid"}
          /\ requests[r].grant.usedAt = Null
          => \A s \in earlier[r] : TokenOf[s] # TokenOf[r]

\* The same for the expiry: the copy's is the row's, and a copy that passed
\* the check belongs to a request that began in time.
ExpiryInv ==
  \A r \in Requests :
    /\ began[r] <= now
    /\ requests[r].pc \in {"check", "mark", "valid"} =>
         /\ grants[TokenOf[r]].issued
         /\ requests[r].grant.expiresAt = grants[TokenOf[r]].expiresAt
    /\ requests[r].pc \in {"mark", "valid"} =>
         began[r] <= requests[r].grant.expiresAt
=============================================================================

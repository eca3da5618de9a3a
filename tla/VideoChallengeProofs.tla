------------------------ MODULE VideoChallengeProofs ------------------------
(***************************************************************************)
(* Proofs about VideoChallenge, for any number of challenges and requests, *)
(* any TTL and any bound.                                                  *)
(***************************************************************************)
EXTENDS VideoChallenge, TLAPS

\* The facts that make the safety properties inductive.  A challenge some request
\* consumed is no longer pending.
ConsumedNotPending ==
    \A r \in Request : consumed[r] =>
        id[r] \in issued /\ status[id[r]] # "pending"

\* A request consumes only by its claim, and has an answer only at its end.
ClaimFirst ==
    \A r \in Request :
        /\ pc[r] \in {"idle", "claiming", "missed"} => ~consumed[r]
        /\ pc[r] \in {"claimed", "reading"} => consumed[r] /\ at[r] <= now
        /\ pc[r] = "reading" => at[r] <= expires[id[r]]
        /\ pc[r] # "done" => answer[r] = "none"
        /\ id[r] \in issued \cup {Unknown}

\* Only an issued challenge has a document; one that is issued and has none has
\* outlived its time; a used one was consumed.
Documents ==
    \A c \in Challenge :
        /\ status[c] # "none" => c \in issued
        /\ c \in issued /\ status[c] = "none" => now >= expires[c]
        /\ status[c] = "used" => \E s \in Request : consumed[s] /\ id[s] = c

\* A claim that matched nothing never finds its challenge pending later.
MissedNotPending ==
    \A r \in Request :
        pc[r] = "missed" /\ id[r] # Unknown => status[id[r]] # "pending"

IInv == /\ TypeOK
        /\ ConsumedNotPending
        /\ ClaimFirst
        /\ Documents
        /\ MissedNotPending
        /\ SingleUse
        /\ JudgedInTime
        /\ UsedMeansConsumed
        /\ NotFoundMeansGone

-----------------------------------------------------------------------------
\* Type correctness is inductive on its own.
LEMMA InitTypeOK == Init => TypeOK
  BY ChallengeAssumption DEF Init, TypeOK, Id, Time, Answer

LEMMA NextTypeOK == TypeOK /\ [Next]_vars => TypeOK'
<1> SUFFICES ASSUME TypeOK, [Next]_vars PROVE TypeOK'
  OBVIOUS
<1> USE ChallengeAssumption DEF TypeOK, Id, Time, Answer
<1>1. CASE Tick
  BY <1>1 DEF Tick, storeVars
<1>2. ASSUME NEW c \in Challenge, Create(c) PROVE TypeOK'
  BY <1>2 DEF Create
<1>3. ASSUME NEW c \in Challenge, Reap(c) PROVE TypeOK'
  BY <1>3 DEF Reap
<1>4. ASSUME NEW r \in Request, NEW c \in Id, Submit(r, c) PROVE TypeOK'
  BY <1>4 DEF Submit, storeVars
<1>5. ASSUME NEW r \in Request, Claim(r) PROVE TypeOK'
  BY <1>5 DEF Claim, Claimable, StatusAfterClaim
<1>6. ASSUME NEW r \in Request, ClaimMisses(r) PROVE TypeOK'
  BY <1>6 DEF ClaimMisses, storeVars
<1>7. ASSUME NEW r \in Request, LookUp(r) PROVE TypeOK'
  BY <1>7 DEF LookUp, Finish, storeVars
<1>8. ASSUME NEW r \in Request, CheckExpiry(r) PROVE TypeOK'
  BY <1>8 DEF CheckExpiry, Finish, storeVars
<1>9. ASSUME NEW r \in Request, Analyse(r) PROVE TypeOK'
  BY <1>9 DEF Analyse, Finish, BadVideo, storeVars
<1>10. ASSUME NEW r \in Request, DatabaseRaises(r) PROVE TypeOK'
  BY <1>10 DEF DatabaseRaises, Finish, storeVars
<1>11. CASE UNCHANGED vars
  BY <1>11 DEF vars, storeVars
<1> QED
  BY <1>1, <1>2, <1>3, <1>4, <1>5, <1>6, <1>7, <1>8, <1>9, <1>10, <1>11
  DEF Next, RequestStep

\* The state of VideoChallenge always has its types, whatever the constants.
THEOREM TypeCorrect == Spec => []TypeOK
<1>1. Init => TypeOK
  BY InitTypeOK
<1>2. TypeOK /\ [Next]_vars => TypeOK'
  BY NextTypeOK
<1> QED
  BY <1>1, <1>2, PTL DEF Spec

-----------------------------------------------------------------------------
LEMMA InitIInv == Init => IInv
  BY InitTypeOK
  DEF Init, IInv, Answer, ConsumedNotPending, ClaimFirst, Documents, MissedNotPending,
      SingleUse, JudgedInTime, UsedMeansConsumed, NotFoundMeansGone

LEMMA NextIInv == IInv /\ [Next]_vars => IInv'
<1> SUFFICES ASSUME IInv, [Next]_vars PROVE IInv'
  OBVIOUS
<1> USE ChallengeAssumption
    DEF IInv, TypeOK, ConsumedNotPending, ClaimFirst, Documents, MissedNotPending,
      SingleUse, JudgedInTime, UsedMeansConsumed, NotFoundMeansGone
<1>t. TypeOK'
  BY NextTypeOK
<1>1. CASE Tick
  BY <1>t, <1>1 DEF Tick, Time, storeVars
<1>2. ASSUME NEW c \in Challenge, Create(c) PROVE IInv'
  BY <1>t, <1>2 DEF Create
<1>3. ASSUME NEW c \in Challenge, Reap(c) PROVE IInv'
  BY <1>t, <1>3 DEF Reap
<1>4. ASSUME NEW r \in Request, NEW c \in Id, Submit(r, c) PROVE IInv'
  BY <1>t, <1>4 DEF Submit, storeVars
<1>5. ASSUME NEW r \in Request, Claim(r) PROVE IInv'
  BY <1>t, <1>5 DEF Claim, Claimable, StatusAfterClaim, Time
<1>6. ASSUME NEW r \in Request, ClaimMisses(r) PROVE IInv'
  BY <1>t, <1>6 DEF ClaimMisses, Claimable, Id, storeVars
<1>7. ASSUME NEW r \in Request, LookUp(r) PROVE IInv'
  BY <1>t, <1>7 DEF LookUp, Finish, Exists, storeVars
<1>8. ASSUME NEW r \in Request, CheckExpiry(r) PROVE IInv'
  BY <1>t, <1>8 DEF CheckExpiry, Expired, Id, Time, Finish, storeVars
<1>9. ASSUME NEW r \in Request, Analyse(r) PROVE IInv'
  BY <1>t, <1>9 DEF Analyse, BadVideo, Finish, storeVars
<1>10. ASSUME NEW r \in Request, DatabaseRaises(r) PROVE IInv'
  BY <1>t, <1>10 DEF DatabaseRaises, Finish, storeVars
<1>11. CASE UNCHANGED vars
  BY <1>t, <1>11 DEF vars, storeVars
<1> QED
  BY <1>1, <1>2, <1>3, <1>4, <1>5, <1>6, <1>7, <1>8, <1>9, <1>10, <1>11
  DEF Next, RequestStep

\* A challenge is consumed at most once, however many submissions race.
THEOREM ChallengeConsumedOnce == Spec => []SingleUse
<1>1. Init => IInv
  BY InitIInv
<1>2. IInv /\ [Next]_vars => IInv'
  BY NextIInv
<1>3. IInv => SingleUse
  BY DEF IInv
<1> QED
  BY <1>1, <1>2, <1>3, PTL DEF Spec

\* A verdict is given only for a challenge consumed before it expired.
THEOREM VerdictsInTime == Spec => []JudgedInTime
<1>1. Init => IInv
  BY InitIInv
<1>2. IInv /\ [Next]_vars => IInv'
  BY NextIInv
<1>3. IInv => JudgedInTime
  BY DEF IInv
<1> QED
  BY <1>1, <1>2, <1>3, PTL DEF Spec

\* challenge_used and challenge_not_found are said only when they are so.
THEOREM RefusalsAreTrue == Spec => []TrueRefusals
<1>1. Init => IInv
  BY InitIInv
<1>2. IInv /\ [Next]_vars => IInv'
  BY NextIInv
<1>3. IInv => TrueRefusals
  BY DEF IInv, TrueRefusals
<1> QED
  BY <1>1, <1>2, <1>3, PTL DEF Spec
=============================================================================

------------------------- MODULE AccessTokenProofs --------------------------
(***************************************************************************)
(* Proofs about AccessToken, for any senders, messages and crashes.  The   *)
(* theorems that need the lock to outlive the refresh it protects assume   *)
(* ~Slow.                                                                  *)
(***************************************************************************)
EXTENDS AccessToken, TLAPS

-----------------------------------------------------------------------------
(* Types *)

\* Every variable keeps its type; no sender stores or posts a token it does not have.
THEOREM TypeCorrect == Spec => []TypeOK
<1>1. Init => TypeOK
  <2> SUFFICES ASSUME Init PROVE TypeOK
    OBVIOUS
  <2>1. cache \in Tokens /\ issued \in Tokens /\ live \in 1..(MaxTokens + 1)
        /\ crashes \in 0..MaxCrashes
    BY TokenAssumption DEF Init, Tokens
  <2>2. fresh \in BOOLEAN /\ lock \in Senders \cup {None}
        /\ forced \in [Senders -> BOOLEAN]
    BY DEF Init
  <2>3. /\ pc \in [Senders -> Pcs] /\ tok \in [Senders -> Tokens]
        /\ refused \in [Senders -> Tokens] /\ sends \in [Senders -> 0..MaxSends]
        /\ \A s \in Senders : pc[s] = "idle"
    BY TokenAssumption DEF Init, Tokens, Pcs
  <2>4. QED  BY <2>1, <2>2, <2>3 DEF TypeOK
<1>2. TypeOK /\ [Next]_vars => TypeOK'
  <2> SUFFICES ASSUME TypeOK, [Next]_vars PROVE TypeOK'
    OBVIOUS
  <2> USE TokenAssumption DEF TypeOK, Tokens, Pcs, At, To, wechat
  <2>1. ASSUME NEW s \in Senders, Send(s) PROVE TypeOK'
    BY <2>1 DEF Send
  <2>2. ASSUME NEW s \in Senders, GetAccessToken(s) PROVE TypeOK'
    BY <2>2, ZenonT(30) DEF GetAccessToken, Return
  <2>3. ASSUME NEW s \in Senders, Acquire(s) PROVE TypeOK'
    BY <2>3 DEF Acquire
  <2>4. ASSUME NEW s \in Senders, Wait(s) PROVE TypeOK'
    BY <2>4 DEF Wait, LeaveLock
  <2>5. ASSUME NEW s \in Senders, Fetch(s) PROVE TypeOK'
    <3>1. CASE FailFetch(s) /\ UNCHANGED wechat
      BY <2>5, <3>1 DEF Fetch, FailFetch
    <3>2. CASE ~(FailFetch(s) /\ UNCHANGED wechat)
      BY <2>5, <3>2 DEF Fetch
    <3>3. QED  BY <3>1, <3>2
  <2>6. ASSUME NEW s \in Senders, Store(s) PROVE TypeOK'
    BY <2>6 DEF Store
  <2>7. ASSUME NEW s \in Senders, Release(s) PROVE TypeOK'
    BY <2>7 DEF Release, Return
  <2>8. ASSUME NEW s \in Senders, Post(s) PROVE TypeOK'
    BY <2>8 DEF Post
  <2>9. ASSUME NEW s \in Senders, DeleteToken(s) PROVE TypeOK'
    <3>1. cache' \in Tokens /\ pc' \in [Senders -> Pcs]
      BY <2>9 DEF DeleteToken, DropCached
    <3>2. fresh' \in BOOLEAN
      BY <2>9 DEF DeleteToken, DropCached
    <3>3. forced' \in [Senders -> BOOLEAN]
      BY <2>9 DEF DeleteToken
    <3>4. \A t \in Senders : pc'[t] \in {"store", "post"} => tok'[t] # 0
      BY <2>9 DEF DeleteToken
    <3>5. UNCHANGED <<lock, wechat, tok, refused, sends, crashes>>
      BY <2>9 DEF DeleteToken
    <3>6. QED  BY <3>1, <3>2, <3>3, <3>4, <3>5
  <2>10. ASSUME NEW s \in Senders, Crash(s) PROVE TypeOK'
    BY <2>10 DEF Crash
  <2>11. CASE Environment
    <3>1. CASE LockExpires
      BY <3>1 DEF LockExpires
    <3>2. CASE Age
      BY <3>2 DEF Age
    <3>3. CASE TokenExpires
      BY <3>3 DEF TokenExpires
    <3>4. CASE Revoke
      BY <3>4 DEF Revoke
    <3>5. QED  BY <2>11, <3>1, <3>2, <3>3, <3>4 DEF Environment
  <2>12. CASE UNCHANGED vars
    BY <2>12 DEF vars
  <2>13. QED
    BY <2>1, <2>2, <2>3, <2>4, <2>5, <2>6, <2>7, <2>8, <2>9, <2>10, <2>11, <2>12
       DEF Next, Step
<1>3. QED  BY <1>1, <1>2, PTL DEF Spec

-----------------------------------------------------------------------------
(* The lock *)

\* The sender that believes it has the lock has it.
OwnsLock == \A s \in Senders : Refreshing(s) => lock = s

LEMMA OwnsLockInit == Init => OwnsLock
  BY DEF Init, OwnsLock, Refreshing

LEMMA OwnsLockNext ==
    ASSUME ~Slow, TypeOK, OwnsLock, [Next]_vars
    PROVE  OwnsLock'
<1> USE TokenAssumption DEF TypeOK, OwnsLock, Refreshing, At, To, Pcs
<1>1. ASSUME NEW s \in Senders, Send(s) PROVE OwnsLock'
  BY <1>1 DEF Send
<1>2. ASSUME NEW s \in Senders, GetAccessToken(s) PROVE OwnsLock'
  BY <1>2 DEF GetAccessToken, Return
<1>3. ASSUME NEW s \in Senders, Acquire(s) PROVE OwnsLock'
  BY <1>3 DEF Acquire
<1>4. ASSUME NEW s \in Senders, Wait(s) PROVE OwnsLock'
  BY <1>4 DEF Wait, LeaveLock
<1>5. ASSUME NEW s \in Senders, Fetch(s) PROVE OwnsLock'
  BY <1>5 DEF Fetch, FailFetch
<1>6. ASSUME NEW s \in Senders, Store(s) PROVE OwnsLock'
  BY <1>6 DEF Store
<1>7. ASSUME NEW s \in Senders, Release(s) PROVE OwnsLock'
  BY <1>7 DEF Release, Return
<1>8. ASSUME NEW s \in Senders, Post(s) PROVE OwnsLock'
  BY <1>8 DEF Post
<1>9. ASSUME NEW s \in Senders, DeleteToken(s) PROVE OwnsLock'
  BY <1>9 DEF DeleteToken, DropCached
<1>10. ASSUME NEW s \in Senders, Crash(s) PROVE OwnsLock'
  BY <1>10 DEF Crash
<1>11. CASE LockExpires
  BY <1>11 DEF LockExpires
<1>12. CASE Age \/ TokenExpires \/ Revoke
  BY <1>12 DEF Age, TokenExpires, Revoke
<1>13. CASE UNCHANGED vars
  BY <1>13 DEF vars
<1>14. QED
  BY <1>1, <1>2, <1>3, <1>4, <1>5, <1>6, <1>7, <1>8, <1>9, <1>10, <1>11, <1>12, <1>13
     DEF Next, Step, Environment

\* No two senders refresh at once, for any number of them and of crashes, when the 30 s of
\* the lock are more than WeChat takes to answer.
THEOREM OneRefresherCorrect ==
    ASSUME ~Slow
    PROVE  Spec => []OneRefresher
<1>1. TypeOK /\ OwnsLock /\ [Next]_vars => OwnsLock'
  BY OwnsLockNext
<1>2. Spec => []OwnsLock
  BY <1>1, OwnsLockInit, TypeCorrect, PTL DEF Spec
<1>3. OwnsLock => OneRefresher
  BY DEF OwnsLock, OneRefresher
<1>4. QED  BY <1>2, <1>3, PTL

\* A lock is held by a sender that refreshes, or a process died.  This needs no bound on
\* WeChat's answers: a sender takes the lock when it starts to refresh, so that a DEL of
\* another sender can only clear the lock, and its own DEL ends its refresh.
LEMMA LockIsReleasedNext ==
    ASSUME TypeOK, LockIsReleased, [Next]_vars
    PROVE  LockIsReleased'
<1> USE TokenAssumption DEF TypeOK, LockIsReleased, Refreshing, At, To, Pcs
<1>1. ASSUME NEW s \in Senders, Send(s) PROVE LockIsReleased'
  BY <1>1 DEF Send
<1>2. ASSUME NEW s \in Senders, GetAccessToken(s) PROVE LockIsReleased'
  BY <1>2 DEF GetAccessToken, Return
<1>3. ASSUME NEW s \in Senders, Acquire(s) PROVE LockIsReleased'
  BY <1>3 DEF Acquire
<1>4. ASSUME NEW s \in Senders, Wait(s) PROVE LockIsReleased'
  BY <1>4 DEF Wait, LeaveLock
<1>5. ASSUME NEW s \in Senders, Fetch(s) PROVE LockIsReleased'
  BY <1>5 DEF Fetch, FailFetch
<1>6. ASSUME NEW s \in Senders, Store(s) PROVE LockIsReleased'
  BY <1>6 DEF Store
<1>7. ASSUME NEW s \in Senders, Release(s) PROVE LockIsReleased'
  BY <1>7 DEF Release
<1>8. ASSUME NEW s \in Senders, Post(s) PROVE LockIsReleased'
  BY <1>8 DEF Post
<1>9. ASSUME NEW s \in Senders, DeleteToken(s) PROVE LockIsReleased'
  BY <1>9 DEF DeleteToken
<1>10. ASSUME NEW s \in Senders, Crash(s) PROVE LockIsReleased'
  BY <1>10 DEF Crash
<1>11. CASE LockExpires
  BY <1>11 DEF LockExpires
<1>12. CASE Age \/ TokenExpires \/ Revoke
  BY <1>12 DEF Age, TokenExpires, Revoke
<1>13. CASE UNCHANGED vars
  BY <1>13 DEF vars
<1>14. QED
  BY <1>1, <1>2, <1>3, <1>4, <1>5, <1>6, <1>7, <1>8, <1>9, <1>10, <1>11, <1>12, <1>13
     DEF Next, Step, Environment

\* No lock is left behind by a process that lives, however slowly WeChat answers.
THEOREM LockIsReleasedCorrect == Spec => []LockIsReleased
<1>1. Init => LockIsReleased
  BY DEF Init, LockIsReleased
<1>2. TypeOK /\ LockIsReleased /\ [Next]_vars => LockIsReleased'
  BY LockIsReleasedNext
<1>3. QED  BY <1>1, <1>2, TypeCorrect, PTL DEF Spec

-----------------------------------------------------------------------------
(* The retry *)

\* What makes RetryIsNewer inductive: a token about to be cached is newer than every one
\* that anybody has had or was refused, so what is cached once a token was refused and
\* dropped is newer than that token.
Newest == \A s \in Senders : At(s, "store") =>
    /\ cache < tok[s]
    /\ \A t \in Senders : refused[t] < tok[s] /\ (t # s => tok[t] < tok[s])

Issued == cache <= issued /\ \A s \in Senders : tok[s] <= issued /\ refused[s] <= issued

CacheIsNewer == \A s \in Senders :
    refused[s] # 0 /\ pc[s] \notin {"idle", "del"} => cache = 0 \/ cache > refused[s]

HandIsNewer == \A s \in Senders :
    refused[s] # 0 /\ pc[s] \in {"release", "post"} /\ tok[s] # 0 => tok[s] > refused[s]

RetryInv == Newest /\ Issued /\ CacheIsNewer /\ HandIsNewer

LEMMA RetryInit == Init => RetryInv
  BY DEF Init, RetryInv, Newest, Issued, CacheIsNewer, HandIsNewer, At

LEMMA RetryNext == TypeOK /\ OwnsLock /\ RetryInv /\ [Next]_vars => RetryInv'
<1> SUFFICES ASSUME TypeOK, OwnsLock, RetryInv, [Next]_vars PROVE RetryInv'
  OBVIOUS
<1>1. /\ cache \in Nat /\ issued \in Nat
      /\ pc \in [Senders -> Pcs] /\ tok \in [Senders -> Nat] /\ refused \in [Senders -> Nat]
      /\ \A s \in Senders : pc[s] \in {"store", "post"} => tok[s] # 0
  BY TokenAssumption DEF TypeOK, Tokens
<1> USE <1>1 DEF RetryInv, Newest, Issued, CacheIsNewer, HandIsNewer, At, To, Pcs, wechat
<1>2. ASSUME NEW s \in Senders, Send(s) PROVE RetryInv'
  BY <1>2 DEF Send
<1>3. ASSUME NEW s \in Senders, GetAccessToken(s) PROVE RetryInv'
  BY <1>3 DEF GetAccessToken, Return
<1>4. ASSUME NEW s \in Senders, Acquire(s) PROVE RetryInv'
  BY <1>4 DEF Acquire
<1>5. ASSUME NEW s \in Senders, Wait(s) PROVE RetryInv'
  BY <1>5 DEF Wait
<1>6. ASSUME NEW s \in Senders, Fetch(s) PROVE RetryInv'
  <2>1. \A t \in Senders : t # s => pc[t] # "store"
    BY <1>6 DEF Fetch, OwnsLock, Refreshing
  <2>2. CASE FailFetch(s) /\ UNCHANGED wechat
    BY <1>6, <2>2 DEF Fetch, FailFetch
  <2>3. CASE issued' = issued + 1 /\ tok' = [tok EXCEPT ![s] = issued + 1] /\ To(s, "store")
    BY <1>6, <2>1, <2>3 DEF Fetch
  <2>4. QED  BY <1>6, <2>2, <2>3 DEF Fetch
<1>7. ASSUME NEW s \in Senders, Store(s) PROVE RetryInv'
  <2>1. \A t \in Senders : t # s => pc[t] # "store"
    BY <1>7 DEF Store, OwnsLock, Refreshing
  <2>2. QED  BY <1>7, <2>1 DEF Store
<1>8. ASSUME NEW s \in Senders, Release(s) PROVE RetryInv'
  BY <1>8 DEF Release, Return
<1>9. ASSUME NEW s \in Senders, Post(s) PROVE RetryInv'
  BY <1>9 DEF Post
<1>10. ASSUME NEW s \in Senders, DeleteToken(s) PROVE RetryInv'
  BY <1>10 DEF DeleteToken, DropCached
<1>11. ASSUME NEW s \in Senders, Crash(s) PROVE RetryInv'
  BY <1>11 DEF Crash
<1>12. CASE LockExpires
  BY <1>12 DEF LockExpires
<1>13. CASE Age
  BY <1>13 DEF Age
<1>14. CASE TokenExpires
  BY <1>14 DEF TokenExpires
<1>15. CASE Revoke
  BY <1>15 DEF Revoke
<1>16. CASE UNCHANGED vars
  BY <1>16 DEF vars
<1>17. QED
  BY <1>2, <1>3, <1>4, <1>5, <1>6, <1>7, <1>8, <1>9, <1>10, <1>11, <1>12, <1>13, <1>14,
     <1>15, <1>16 DEF Next, Step, Environment

\* A retry never uses the refused token nor an older one, whoever refreshed it.
THEOREM RetryIsNewerCorrect ==
    ASSUME ~Slow
    PROVE  Spec => []RetryIsNewer
<1>1. TypeOK /\ OwnsLock /\ [Next]_vars => OwnsLock'
  BY OwnsLockNext
<1>2. Spec => [](TypeOK /\ OwnsLock)
  BY <1>1, OwnsLockInit, TypeCorrect, PTL DEF Spec
<1>3. Spec => []RetryInv
  BY <1>2, RetryInit, RetryNext, PTL DEF Spec
<1>4. TypeOK /\ RetryInv => RetryIsNewer
  BY DEF TypeOK, RetryInv, HandIsNewer, RetryIsNewer, At
<1>5. QED  BY <1>2, <1>3, <1>4, PTL
=============================================================================

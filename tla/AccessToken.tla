---------------------------- MODULE AccessToken -----------------------------
(***************************************************************************)
(* The WeChat access token that all handlers of all bridge processes share *)
(* through Redis (services/wechat-token.ts), and the one retry a message   *)
(* gets when WeChat refuses its token (sendCustomerServiceMessage,         *)
(* services/wechat-message.ts).  A sender is one call of that function;    *)
(* each await is a step.  Tokens are numbered in the order in which WeChat *)
(* issues them, and those below `live` are refused.                        *)
(***************************************************************************)
EXTENDS Naturals

CONSTANTS
    Senders,
    None,
    Slow,         \* may the answer to a refresh take longer than the lock lives?
    MaxSends,     \* bound: messages per sender
    MaxTokens,    \* bound: tokens WeChat issues, as its daily quota does
    MaxCrashes    \* bound: bridge processes that die

ASSUME TokenAssumption ==
    /\ None \notin Senders
    /\ Slow \in BOOLEAN
    /\ MaxSends \in Nat /\ MaxTokens \in Nat /\ MaxCrashes \in Nat

VARIABLES
    cache, fresh,    \* wechat:access_token, 0 when absent; is it far from its expiry?
    lock,            \* wechat:access_token:lock, as the sender that set it
    issued, live,    \* WeChat: the last token, the oldest it accepts
    pc,
    tok,             \* the token a sender has in hand
    refused,         \* the token its first attempt was refused with, or 0
    forced,          \* is it inside forceRefreshToken?
    sends, crashes

wechat == <<issued, live>>
vars == <<cache, fresh, lock, wechat, pc, tok, refused, forced, sends, crashes>>

Tokens == 0..MaxTokens
Pcs == {"idle", "get", "lock", "wait", "fetch", "store", "release", "post", "del"}

\* Where a sender believes it is the only one to refresh.
Refreshing(s) == pc[s] \in {"fetch", "store", "release"}

Init ==
    /\ cache = 0 /\ fresh = FALSE /\ lock = None
    /\ issued = 0 /\ live = 1
    /\ pc = [s \in Senders |-> "idle"]
    /\ tok = [s \in Senders |-> 0]
    /\ refused = [s \in Senders |-> 0]
    /\ forced = [s \in Senders |-> FALSE]
    /\ sends = [s \in Senders |-> 0]
    /\ crashes = 0

At(s, place) == pc[s] = place
To(s, place) == pc' = [pc EXCEPT ![s] = place]

-----------------------------------------------------------------------------
Send(s) ==
    /\ At(s, "idle") /\ To(s, "get")
    /\ sends[s] < MaxSends /\ sends' = [sends EXCEPT ![s] = @ + 1]
    /\ refused' = [refused EXCEPT ![s] = 0] /\ forced' = [forced EXCEPT ![s] = FALSE]
    /\ UNCHANGED <<cache, fresh, lock, wechat, tok, crashes>>

\* getAccessToken returns: to the send, or to forceRefreshToken, after which the send
\* calls it again.
Return(s) ==
    /\ To(s, IF forced[s] THEN "get" ELSE "post")
    /\ forced' = [forced EXCEPT ![s] = FALSE]

\* A cached token is used until ten minutes before its expiry.
GetAccessToken(s) ==
    /\ At(s, "get")
    /\ \/ /\ cache # 0 /\ fresh
          /\ tok' = [tok EXCEPT ![s] = cache] /\ Return(s)
       \/ ~(cache # 0 /\ fresh) /\ To(s, "lock") /\ UNCHANGED <<tok, forced>>
    /\ UNCHANGED <<cache, fresh, lock, wechat, refused, sends, crashes>>

\* SET NX EX 30
Acquire(s) ==
    /\ At(s, "lock")
    /\ \/ lock = None /\ lock' = s /\ To(s, "fetch")
       \/ lock # None /\ To(s, "wait") /\ UNCHANGED lock
    /\ UNCHANGED <<cache, fresh, wechat, tok, refused, forced, sends, crashes>>

\* Mutant: the finally block covers the early return too.
ReleaseByWaiter == lock' = None

LeaveLock == UNCHANGED lock

\* One second later it starts again with the cache.
Wait(s) ==
    /\ At(s, "wait") /\ To(s, "get") /\ LeaveLock
    /\ UNCHANGED <<cache, fresh, wechat, tok, refused, forced, sends, crashes>>

\* Mutant: the errcode of the answer is not looked at.
FailUnchecked(s) == To(s, "store") /\ tok' = [tok EXCEPT ![s] = 0]

FailFetch(s) == To(s, "release") /\ tok' = [tok EXCEPT ![s] = 0]

\* A new token may make WeChat refuse those before it.
Fetch(s) ==
    /\ At(s, "fetch")
    /\ \/ /\ issued < MaxTokens
          /\ issued' = issued + 1 /\ live' \in {live, issued + 1}
          /\ tok' = [tok EXCEPT ![s] = issued + 1] /\ To(s, "store")
       \/ FailFetch(s) /\ UNCHANGED wechat
    /\ UNCHANGED <<cache, fresh, lock, refused, forced, sends, crashes>>

Store(s) ==
    /\ At(s, "store") /\ To(s, "release")
    /\ cache' = tok[s] /\ fresh' = TRUE
    /\ UNCHANGED <<lock, wechat, tok, refused, forced, sends, crashes>>

\* Mutant: the DEL follows the SET of the token, and no finally block.
ReleaseIfFetched(s) ==
    /\ At(s, "release")
    /\ \/ tok[s] = 0 /\ To(s, "idle") /\ UNCHANGED <<lock, forced>>
       \/ tok[s] # 0 /\ lock' = None /\ Return(s)
    /\ UNCHANGED <<cache, fresh, wechat, tok, refused, sends, crashes>>

\* The finally block deletes the key, whoever set it; a failed refresh ends the send.
Release(s) ==
    /\ At(s, "release") /\ lock' = None
    /\ \/ tok[s] = 0 /\ To(s, "idle") /\ UNCHANGED forced
       \/ tok[s] # 0 /\ Return(s)
    /\ UNCHANGED <<cache, fresh, wechat, tok, refused, sends, crashes>>

\* The answer 40001 is retried once.
Post(s) ==
    /\ At(s, "post")
    /\ \/ tok[s] >= live /\ To(s, "idle") /\ UNCHANGED refused
       \/ /\ tok[s] < live /\ refused[s] = 0
          /\ refused' = [refused EXCEPT ![s] = tok[s]] /\ To(s, "del")
       \/ tok[s] < live /\ refused[s] # 0 /\ To(s, "idle") /\ UNCHANGED refused
    /\ UNCHANGED <<cache, fresh, lock, wechat, tok, forced, sends, crashes>>

\* Mutant: forceRefreshToken leaves the cached token for the others.
KeepCached == UNCHANGED <<cache, fresh>>

DropCached == cache' = 0 /\ fresh' = FALSE

\* forceRefreshToken
DeleteToken(s) ==
    /\ At(s, "del") /\ To(s, "lock") /\ DropCached
    /\ forced' = [forced EXCEPT ![s] = TRUE]
    /\ UNCHANGED <<lock, wechat, tok, refused, sends, crashes>>

Step(s) ==
    \/ GetAccessToken(s) \/ Acquire(s) \/ Wait(s) \/ Fetch(s) \/ Store(s) \/ Release(s)
    \/ Post(s) \/ DeleteToken(s)

-----------------------------------------------------------------------------
\* The bridge process of a sender dies; its lock stays.
Crash(s) ==
    /\ ~At(s, "idle") /\ To(s, "idle")
    /\ crashes < MaxCrashes /\ crashes' = crashes + 1
    /\ UNCHANGED <<cache, fresh, lock, wechat, tok, refused, forced, sends>>

\* Mutant: the lock is set without EX.
LockExpiresNever == FALSE /\ UNCHANGED vars

\* Redis drops the lock after 30 s: after its owner is done with it, or dead, unless an
\* answer of WeChat can take that long.
LockExpires ==
    /\ lock # None /\ lock' = None
    /\ Slow \/ ~Refreshing(lock)
    /\ UNCHANGED <<cache, fresh, wechat, pc, tok, refused, forced, sends, crashes>>

\* Time passes: the token comes near its expiry, and is dropped then.
Age ==
    /\ fresh /\ fresh' = FALSE
    /\ UNCHANGED <<cache, lock, wechat, pc, tok, refused, forced, sends, crashes>>

TokenExpires ==
    /\ cache # 0 /\ ~fresh /\ cache' = 0
    /\ UNCHANGED <<fresh, lock, wechat, pc, tok, refused, forced, sends, crashes>>

\* Somebody else asks WeChat for a token of this account.
Revoke ==
    /\ live <= issued /\ live' = issued + 1
    /\ UNCHANGED <<cache, fresh, lock, issued, pc, tok, refused, forced, sends, crashes>>

Environment == LockExpires \/ Age \/ TokenExpires \/ Revoke

Next ==
    \/ \E s \in Senders : Send(s) \/ Step(s) \/ Crash(s)
    \/ Environment

Spec == Init /\ [][Next]_vars

\* Node runs what is ready, requests are answered, timers fire and Redis expires keys.
FairSpec == Spec /\ (\A s \in Senders : WF_vars(Step(s))) /\ WF_vars(LockExpires)

-----------------------------------------------------------------------------
(* Properties *)

TypeOK ==
    /\ cache \in Tokens /\ fresh \in BOOLEAN
    /\ lock \in Senders \cup {None}
    /\ issued \in Tokens /\ live \in 1..(MaxTokens + 1)
    /\ pc \in [Senders -> Pcs]
    /\ tok \in [Senders -> Tokens] /\ refused \in [Senders -> Tokens]
    /\ forced \in [Senders -> BOOLEAN]
    /\ \A s \in Senders : pc[s] \in {"store", "post"} => tok[s] # 0
    /\ sends \in [Senders -> 0..MaxSends] /\ crashes \in 0..MaxCrashes

\* The lock does what it is there for ("Try to acquire lock to prevent multiple
\* refreshes"): no two senders are between their SET NX and their DEL.
OneRefresher ==
    \A s, t \in Senders : Refreshing(s) /\ Refreshing(t) => s = t

\* Nobody waits for a lock under which nobody refreshes, unless a process died with it:
\* whatever WeChat answers, and though a late owner may delete another's lock, the finally
\* block leaves none behind.  EverySendEnds rests on it.
LockIsReleased ==
    lock # None => Refreshing(lock) \/ crashes > 0

\* A message is not sent again with the token it was refused with, nor an older one,
\* though the retry may wait for another sender's refresh and take what that one cached.
RetryIsNewer ==
    \A s \in Senders : At(s, "post") /\ refused[s] # 0 => tok[s] > refused[s]

\* Every send ends, though the sender it waits for may die with the lock.
EverySendEnds ==
    \A s \in Senders : ~At(s, "idle") ~> At(s, "idle")
=============================================================================

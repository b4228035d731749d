----------------------------- MODULE LockService -----------------------------
(***************************************************************************)
(* The lock service: the caching lock server with its caching clients.     *)
(* The steps of all threads interleave freely; the RPC server of each      *)
(* process runs its handlers on a pool of threads, which is taken to be    *)
(* large enough.                                                           *)
(***************************************************************************)
EXTENDS LockServerCache, LockClientCache, Naturals, FiniteSets

\* acquire, up to its return, and release.
StartAcquire(t) == AcquireNone(t) \/ AcquireCached(t) \/ AcquireBusy(t)

Release(t) == ReleaseToServer(t) \/ ReleaseToCache(t)

\* Steps of a chain of calls under way, all of which the program takes by itself:
\* those of the lock service, and the lock user's dorelease.
CallStep(t) ==
    \/ ServerAcquire(t)
    \/ ServerRelease(t)
    \/ RevokeHandler(t)
    \/ RetryHandler(t)
    \/ AcquireReturn(t)
    \/ RetryWoken(t)
    \/ ReleaseReturn(t)

Handle(t) == CallStep(t) \/ DoRelease(t)

Step(t) == StartAcquire(t) \/ Release(t) \/ Handle(t) \/ SpuriousWakeup(t)

Next == \E t \in Thread : Step(t)

Spec == Init /\ [][Next]_vars

\* A thread that has the lock releases it, a signalled thread runs again, and a
\* call under way goes on.  Nobody has to call acquire or wakes up unsignalled.
FairSpec ==
    /\ Spec
    /\ \A t \in Thread : /\ WF_vars(pc[t] # "idle" /\ StartAcquire(t))
                         /\ WF_vars(Release(t))
                         /\ WF_vars(Handle(t))

-----------------------------------------------------------------------------
\* At most one thread of all clients is between acquire and release.
MutualExclusion ==
    \A t, u \in Thread : pc[t] = "critical" /\ pc[u] = "critical" => t = u

\* Whoever acts as a holder is the one the server has on record: a thread that
\* came out of acquire, a client that caches the lock, one whose grant is still
\* on its way, and one that has yet to hand in its release.
HoldersAreOnRecord ==
    /\ \A t \in Thread :
          /\ pc[t] = "critical" => clientId = ClientOf[t]
          /\ reply[t] = "OK" => clientId = ClientOf[t]
          /\ pc[t] \in {"dorelease", "release_rpc"} => clientId = releaser[t]
    /\ \A c \in Client : cacheStatus[c] = "FREE" => clientId = c

\* The server's wait queue and its set of waiters agree, nobody waits twice or
\* for a lock it holds, and every waiter has a thread that is still asking.
WaitersAreConsistent ==
    /\ clientS = {clientQ[i] : i \in DOMAIN clientQ}
    /\ Cardinality(clientS) = Len(clientQ)
    /\ status = "WAITING" <=> clientS # {}
    /\ status = "FREE" => clientId = NoClient
    /\ clientId \notin clientS
    /\ \A c \in clientS :
          /\ cacheStatus[c] = "ACQUIRING"
          /\ \E t \in Thread : ClientOf[t] = c /\ pc[t] \notin
                                {"idle", "cond_wait", "cond_woken", "critical"}

\* A revoke is sent once for each grant and finds its addressee holding the lock,
\* or about to be told so, with no release of it under way.
RevokeFindsHolder ==
    \A t \in Thread : pc[t] = "revoke_rpc" =>
        /\ callee[t] = clientId
        /\ cacheStatus[clientId] \in {"ACQUIRING", "LOCKED", "FREE"}
        /\ ~revoke[clientId]
        /\ \A u \in Thread \ {t} : pc[u] # "revoke_rpc"
        /\ \A u \in Thread : releaser[u] # clientId

\* A client that waits has made sure that the lock comes back: the holder is
\* being told, has been told, or is returning it.
HolderIsAskedBack ==
    status = "WAITING" /\ clientId # NoClient =>
        \/ \E t \in Thread : pc[t] = "revoke_rpc" /\ callee[t] = clientId
        \/ revoke[clientId]
        \/ cacheStatus[clientId] = "RELEASING"
        \/ \E t \in Thread : pc[t] \in Releasing /\ releaser[t] = clientId

\* The calls to retry on their way, the retry flags set, and the clients that
\* are asking again because of one: together exactly one while the returned lock
\* waits for the front of the queue, addressed to it, and none otherwise.
OneRetryPerHandOver ==
    LET sent    == {t \in Thread : pc[t] = "retry_rpc"}
        flagged == {c \in Client : retry[c]}
        asking  == {t \in Thread : pc[t] = "acquire_rpc" /\ ClientOf[t] \in clientS}
        told    == {callee[t] : t \in sent} \cup flagged \cup {ClientOf[t] : t \in asking}
    IN  IF status = "WAITING" /\ clientId = NoClient
          THEN /\ told = {Head(clientQ)}
               /\ Cardinality(sent) + Cardinality(flagged) + Cardinality(asking) = 1
          ELSE told = {}

\* The lock goes back to the server only when another client waits for it: the
\* server's entry is never free again after the first grant.
ReturnedOnlyOnDemand == [][status' = "FREE" => status = "FREE"]_vars

\* The service implements the lock it promises.
Promised == INSTANCE DistributedLock
              WITH owner <- clientId, inside <- {t \in Thread : pc[t] = "critical"}
ImplementsDistributedLock == Promised!Spec

\* A client with a thread in acquire gets the lock for one of its threads.
InAcquire(t) == pc[t] \in {"cond_wait", "cond_woken", "acquire_rpc", "revoke_rpc",
                           "acquire_ret", "retry_wait", "retry_woken"}
                \/ reply[t] # NoReply
ClientIsServed ==
    \A c \in Client :
        (\E t \in Thread : ClientOf[t] = c /\ InAcquire(t))
            ~> (\E t \in Thread : ClientOf[t] = c /\ pc[t] = "critical")

\* A client whose lock is revoked gives it back, whatever its threads do.
RevokedLockComesBack ==
    \A c \in Client : (\E t \in Thread : pc[t] = "revoke_rpc" /\ callee[t] = c)
                          ~> clientId # c

=============================================================================

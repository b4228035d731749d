--------------------------- MODULE LockClientCache ---------------------------
(***************************************************************************)
(* lock_client_cache: acquire and release as called by a user thread t,    *)
(* and the handlers of the server's revoke and retry RPCs.  Each action is *)
(* one critical section of the client's mutex: from where the code takes   *)
(* it (or comes out of a condition wait or a call) to where it drops it.   *)
(***************************************************************************)
EXTENDS LockProtocol

\* The chain of t goes on at l, and one thread of client c waiting at "at" is
\* signalled, whichever the system picks.  A signal without a waiter is lost.
SignalAndGoto(c, at, woken, t, l) ==
    LET Waiters == {u \in Thread \ {t} : ClientOf[u] = c /\ pc[u] = at}
    IN  IF Waiters = {}
          THEN Goto(t, l)
          ELSE \E u \in Waiters : pc' = [pc EXCEPT ![t] = l, ![u] = woken]

-----------------------------------------------------------------------------
\* acquire, from its entry or from "recheck:".

\* case NONE.  The request loop is skipped when retry is already set: acquire
\* then returns OK though the server was never asked.
AcquireNone(t) ==
    LET c == ClientOf[t]
    IN  /\ pc[t] \in {"idle", "cond_woken"}
        /\ cacheStatus[c] = "NONE"
        /\ cacheStatus' = [cacheStatus EXCEPT ![c] = "ACQUIRING"]
        /\ Goto(t, IF retry[c] THEN "critical" ELSE "acquire_rpc")
        /\ UNCHANGED <<serverVars, revoke, retry, reply, releaser, callee>>

\* case FREE: the cached lock is taken without a word to the server.
AcquireCached(t) ==
    LET c == ClientOf[t]
    IN  /\ pc[t] \in {"idle", "cond_woken"}
        /\ cacheStatus[c] = "FREE"
        /\ cacheStatus' = [cacheStatus EXCEPT ![c] = "LOCKED"]
        /\ Goto(t, "critical")
        /\ UNCHANGED <<serverVars, revoke, retry, reply, releaser, callee>>

\* case LOCKED, ACQUIRING, RELEASING: wait for cond.
AcquireBusy(t) ==
    /\ pc[t] \in {"idle", "cond_woken"}
    /\ cacheStatus[ClientOf[t]] \in {"LOCKED", "ACQUIRING", "RELEASING"}
    /\ Goto(t, "cond_wait")
    /\ UNCHANGED <<serverVars, cacheVars, reply, releaser, callee>>

\* Mutant: the flag of a retry RPC that came early is not cleared.
AwaitRetryKeepsFlag(t) ==
    /\ UNCHANGED retry
    /\ Goto(t, IF retry[ClientOf[t]] THEN "acquire_rpc" ELSE "retry_wait")

\* The request loop waits for a retry RPC, which may have come already, clears
\* it and asks again.
AwaitRetry(t) ==
    LET c == ClientOf[t]
    IN  /\ retry' = [retry EXCEPT ![c] = FALSE]
        /\ Goto(t, IF retry[c] THEN "acquire_rpc" ELSE "retry_wait")

\* The acquire RPC has returned.
AcquireReturn(t) ==
    LET c == ClientOf[t]
    IN  /\ pc[t] = "acquire_ret"
        /\ \/ /\ reply[t] = "RETRY"
              /\ AwaitRetry(t)
              /\ UNCHANGED cacheStatus
           \/ /\ reply[t] = "OK"
              /\ cacheStatus' = [cacheStatus EXCEPT ![c] = "LOCKED"]
              /\ Goto(t, "critical")
              /\ UNCHANGED retry
        /\ reply' = [reply EXCEPT ![t] = NoReply]
        /\ UNCHANGED <<serverVars, revoke, releaser, callee>>

\* pthread_cond_wait on condForRetry has returned.
RetryWoken(t) ==
    /\ pc[t] = "retry_woken"
    /\ AwaitRetry(t)
    /\ UNCHANGED <<serverVars, cacheStatus, revoke, reply, releaser, callee>>

\* pthread_cond_wait may return without a signal, or wake more than one thread.
SpuriousWakeup(t) ==
    /\ \/ pc[t] = "cond_wait"  /\ Goto(t, "cond_woken")
       \/ pc[t] = "retry_wait" /\ Goto(t, "retry_woken")
    /\ UNCHANGED <<serverVars, cacheVars, reply, releaser, callee>>

-----------------------------------------------------------------------------
\* release.

\* Mutant: the flag set by an early revoke is not reset.
ReleaseToServerKeepsFlag(t) ==
    LET c == ClientOf[t]
    IN  /\ pc[t] = "critical"
        /\ revoke[c] \/ cacheStatus[c] = "RELEASING"
        /\ releaser' = [releaser EXCEPT ![t] = c]
        /\ Goto(t, "dorelease")
        /\ UNCHANGED <<serverVars, cacheVars, reply, callee>>

\* The lock was asked back, before or after it was granted: it goes to the
\* server.  The status is not changed before the server has answered.
ReleaseToServer(t) ==
    LET c == ClientOf[t]
    IN  /\ pc[t] = "critical"
        /\ revoke[c] \/ cacheStatus[c] = "RELEASING"
        /\ revoke' = [revoke EXCEPT ![c] = FALSE]
        /\ releaser' = [releaser EXCEPT ![t] = c]
        /\ Goto(t, "dorelease")
        /\ UNCHANGED <<serverVars, cacheStatus, retry, reply, callee>>

\* Mutant: only the revoke flag is looked at.
ReleaseToCacheAnyway(t) ==
    LET c == ClientOf[t]
    IN  /\ pc[t] = "critical"
        /\ ~revoke[c]
        /\ IF cacheStatus[c] = "LOCKED"
             THEN /\ cacheStatus' = [cacheStatus EXCEPT ![c] = "FREE"]
                  /\ SignalAndGoto(c, "cond_wait", "cond_woken", t, "idle")
             ELSE Goto(t, "idle") /\ UNCHANGED cacheStatus
        /\ UNCHANGED <<serverVars, revoke, retry, reply, releaser, callee>>

\* Otherwise the client keeps the lock and lets its next thread have it.  A lock
\* that is not LOCKED is left as it is.
ReleaseToCache(t) ==
    LET c == ClientOf[t]
    IN  /\ pc[t] = "critical"
        /\ ~revoke[c] /\ cacheStatus[c] # "RELEASING"
        /\ IF cacheStatus[c] = "LOCKED"
             THEN /\ cacheStatus' = [cacheStatus EXCEPT ![c] = "FREE"]
                  /\ SignalAndGoto(c, "cond_wait", "cond_woken", t, "idle")
             ELSE Goto(t, "idle") /\ UNCHANGED cacheStatus
        /\ UNCHANGED <<serverVars, revoke, retry, reply, releaser, callee>>

\* lu->dorelease(lid): outside the mutex, before the release RPC is sent.
DoRelease(t) ==
    /\ pc[t] = "dorelease"
    /\ Goto(t, "release_rpc")
    /\ UNCHANGED <<serverVars, cacheVars, reply, releaser, callee>>

\* The release RPC has returned, to release() or to revoke_handler, which then
\* returns to the server's acquire handler.
ReleaseReturn(t) ==
    LET c == releaser[t]
    IN  /\ pc[t] = "release_ret"
        /\ cacheStatus' = [cacheStatus EXCEPT ![c] = "NONE"]
        /\ SignalAndGoto(c, "cond_wait", "cond_woken", t,
                         IF reply[t] = NoReply THEN "idle" ELSE "acquire_ret")
        /\ releaser' = [releaser EXCEPT ![t] = NoClient]
        /\ UNCHANGED <<serverVars, revoke, retry, reply, callee>>

-----------------------------------------------------------------------------
\* The server's callbacks.

RevokeHandler(t) ==
    LET c == callee[t]
    IN  /\ pc[t] = "revoke_rpc"
        /\ \/ /\ cacheStatus[c] \in {"NONE", "RELEASING", "ACQUIRING"}
              /\ revoke' = [revoke EXCEPT ![c] = TRUE]
              /\ Goto(t, "acquire_ret")
              /\ UNCHANGED <<cacheStatus, releaser>>
           \/ /\ cacheStatus[c] = "LOCKED"
              /\ cacheStatus' = [cacheStatus EXCEPT ![c] = "RELEASING"]
              /\ Goto(t, "acquire_ret")
              /\ UNCHANGED <<revoke, releaser>>
           \/ /\ cacheStatus[c] = "FREE"
              /\ cacheStatus' = [cacheStatus EXCEPT ![c] = "RELEASING"]
              /\ releaser' = [releaser EXCEPT ![t] = c]
              /\ Goto(t, "dorelease")
              /\ UNCHANGED revoke
        /\ callee' = [callee EXCEPT ![t] = NoClient]
        /\ UNCHANGED <<serverVars, retry, reply>>

RetryHandler(t) ==
    LET c == callee[t]
    IN  /\ pc[t] = "retry_rpc"
        /\ retry' = [retry EXCEPT ![c] = TRUE]
        /\ SignalAndGoto(c, "retry_wait", "retry_woken", t, "release_ret")
        /\ callee' = [callee EXCEPT ![t] = NoClient]
        /\ UNCHANGED <<serverVars, cacheStatus, revoke, reply, releaser>>

=============================================================================

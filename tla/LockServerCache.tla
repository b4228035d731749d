--------------------------- MODULE LockServerCache ---------------------------
(***************************************************************************)
(* lock_server_cache: the handlers of the acquire and release RPCs.  Each  *)
(* action is one critical section of the server's mutex.  A handler drops  *)
(* the mutex only to make its callback, and does nothing but return ret    *)
(* once the callback has returned.  Binding to the client (safebind)       *)
(* succeeds.                                                               *)
(***************************************************************************)
EXTENDS LockProtocol

\* Mutant: the handler returns the state of its entry, both being plain integers.
ReturnStatus(t, r) ==
    /\ reply' = [reply EXCEPT ![t] = status']
    /\ Goto(t, "acquire_ret")
    /\ UNCHANGED callee

Return(t, r) ==
    /\ reply' = [reply EXCEPT ![t] = r]
    /\ Goto(t, "acquire_ret")
    /\ UNCHANGED callee

\* Mutant: needRevoke is never set.
ReturnWithoutRevoke(t, r) == Return(t, r)

\* needRevoke: the revoke RPC goes to the clientId of the updated entry, and the
\* acquire RPC returns r after it.
RevokeThenReturn(t, r) ==
    /\ callee' = [callee EXCEPT ![t] = clientId']
    /\ reply' = [reply EXCEPT ![t] = r]
    /\ Goto(t, "revoke_rpc")

\* case FREE, or no entry: grant.
AcquireFree(t) ==
    /\ pc[t] = "acquire_rpc"
    /\ status = "FREE"
    /\ status' = "LOCKED"
    /\ clientId' = ClientOf[t]
    /\ Return(t, "OK")
    /\ UNCHANGED <<clientQ, clientS, cacheVars, releaser>>

\* Mutant: the caller is queued but not recorded in the set of waiters.
AcquireLockedUnrecorded(t) ==
    /\ pc[t] = "acquire_rpc"
    /\ status = "LOCKED"
    /\ status' = "WAITING"
    /\ clientQ' = Append(clientQ, ClientOf[t])
    /\ UNCHANGED <<clientId, clientS>>
    /\ RevokeThenReturn(t, "RETRY")
    /\ UNCHANGED <<cacheVars, releaser>>

\* case LOCKED: the first to wait has the holder's lock revoked.
AcquireLocked(t) ==
    /\ pc[t] = "acquire_rpc"
    /\ status = "LOCKED"
    /\ status' = "WAITING"
    /\ clientQ' = Append(clientQ, ClientOf[t])
    /\ clientS' = clientS \cup {ClientOf[t]}
    /\ UNCHANGED clientId
    /\ RevokeThenReturn(t, "RETRY")
    /\ UNCHANGED <<cacheVars, releaser>>

\* case WAITING, the caller is at the front: grant, whoever clientId is.  When
\* others still wait the new holder is told at once to give the lock back.
AcquireFront(t) ==
    /\ pc[t] = "acquire_rpc"
    /\ status = "WAITING"
    /\ Head(clientQ) = ClientOf[t]
    /\ clientId' = ClientOf[t]
    /\ clientQ' = Tail(clientQ)
    /\ clientS' = clientS \ {ClientOf[t]}
    /\ IF clientQ' = <<>>
         THEN status' = "LOCKED" /\ Return(t, "OK")
         ELSE UNCHANGED status /\ RevokeThenReturn(t, "OK")
    /\ UNCHANGED <<cacheVars, releaser>>

\* case WAITING, the caller is not at the front: it waits too, once.
AcquireWaiting(t) ==
    /\ pc[t] = "acquire_rpc"
    /\ status = "WAITING"
    /\ Head(clientQ) # ClientOf[t]
    /\ clientQ' = IF ClientOf[t] \in clientS THEN clientQ
                                             ELSE Append(clientQ, ClientOf[t])
    /\ clientS' = clientS \cup {ClientOf[t]}
    /\ Return(t, "RETRY")
    /\ UNCHANGED <<status, clientId, cacheVars, releaser>>

ServerAcquire(t) ==
    AcquireFree(t) \/ AcquireLocked(t) \/ AcquireFront(t) \/ AcquireWaiting(t)

\* release of the client releaser[t].  Nothing happens unless that client holds
\* the lock; with clients waiting, the one at the front is told to retry.
ServerRelease(t) ==
    LET held == clientId = releaser[t] /\ status # "FREE"
    IN  /\ pc[t] = "release_rpc"
        /\ status' = IF held /\ status = "LOCKED" THEN "FREE" ELSE status
        /\ clientId' = IF held THEN NoClient ELSE clientId
        /\ IF held /\ status = "WAITING"
             THEN callee' = [callee EXCEPT ![t] = Head(clientQ)] /\ Goto(t, "retry_rpc")
             ELSE UNCHANGED callee /\ Goto(t, "release_ret")
        /\ UNCHANGED <<clientQ, clientS, cacheVars, reply, releaser>>

=============================================================================

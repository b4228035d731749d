---------------------------- MODULE LockInvariant ----------------------------
(***************************************************************************)
(* The inductive invariant behind mutual exclusion.  A thread occupies its *)
(* client from where acquire starts to ask for the lock, or takes it, to   *)
(* where release has put it back; the argument is that a client is         *)
(* occupied once (OneOccupant), that whoever acts as the holder is the     *)
(* holder on record (OnRecord), and that the front of the queue asks again *)
(* only after the holder has handed in its release (OneToken).             *)
(***************************************************************************)
EXTENDS LockService

Occupies(t) == pc[t] \notin {"idle", "cond_wait", "cond_woken"}

\* t is inside the acquire RPC loop: the call, what is nested in it, the wait.
Fetching(t) ==
    \/ pc[t] \in {"acquire_rpc", "revoke_rpc", "acquire_ret", "retry_wait", "retry_woken"}
    \/ pc[t] \in Releasing /\ reply[t] # NoReply

\* t has the lock, or is in release.
Using(t) ==
    \/ pc[t] = "critical"
    \/ pc[t] \in Releasing /\ reply[t] = NoReply

CallsAreWellFormed ==
    \A t \in Thread :
        /\ reply[t] # NoReply => pc[t] \in {"revoke_rpc", "acquire_ret"} \cup Releasing
        /\ pc[t] \in {"revoke_rpc", "acquire_ret"} => reply[t] # NoReply
        /\ pc[t] \in Releasing <=> releaser[t] # NoClient
        /\ pc[t] \in {"revoke_rpc", "retry_rpc"} => callee[t] # NoClient
        /\ pc[t] \in Releasing /\ reply[t] = NoReply => releaser[t] = ClientOf[t]

OneOccupant ==
    /\ \A t, u \in Thread :
          Occupies(t) /\ Occupies(u) /\ ClientOf[t] = ClientOf[u] => t = u
    /\ \A t \in Thread :
          /\ Fetching(t) => cacheStatus[ClientOf[t]] = "ACQUIRING"
          /\ Using(t) => cacheStatus[ClientOf[t]] \in {"LOCKED", "RELEASING"}

\* A release made by a revoke handler, in the chain of another client's thread.
OneReleaser ==
    /\ \A t, u \in Thread :
          pc[t] \in Releasing /\ releaser[t] = releaser[u] => t = u
    /\ \A t \in Thread : pc[t] \in Releasing /\ reply[t] # NoReply =>
          /\ cacheStatus[releaser[t]] = "RELEASING"
          /\ \A u \in Thread : ClientOf[u] = releaser[t] => ~Occupies(u)

\* Whoever asks for the lock, or has given it up, is not the holder on record.
OffRecord ==
    /\ \A t \in Thread :
          /\ pc[t] \in {"acquire_rpc", "retry_wait", "retry_woken"} => clientId # ClientOf[t]
          /\ reply[t] = "RETRY" => clientId # ClientOf[t]
          /\ pc[t] \in {"retry_rpc", "release_ret"} => clientId # releaser[t]
    /\ \A c \in Client : cacheStatus[c] = "NONE" => clientId # c

Queue ==
    /\ \A c \in Client : c \in clientS <=> \E i \in 1 .. Len(clientQ) : clientQ[i] = c
    /\ \A i, j \in 1 .. Len(clientQ) : clientQ[i] = clientQ[j] => i = j
    /\ status = "WAITING" <=> clientQ # <<>>
    /\ status = "FREE" <=> clientId = NoClient /\ clientQ = <<>>
    /\ clientId \notin clientS
    /\ \A c \in clientS : \E t \in Thread :
          ClientOf[t] = c /\ Fetching(t) /\ reply[t] # "OK"

\* The lock has been returned for the sake of c, the first to wait.
ReturnedFor(c) == status = "WAITING" /\ clientId = NoClient /\ Head(clientQ) = c

AsksAgain(t) == pc[t] = "acquire_rpc" /\ ClientOf[t] \in clientS

OneToken ==
    /\ \A t \in Thread : pc[t] = "retry_rpc" =>
          /\ ReturnedFor(callee[t])
          /\ \A u \in Thread : pc[u] = "retry_rpc" => u = t
          /\ \A u \in Thread : ~AsksAgain(u)
          /\ \A c \in Client : ~retry[c]
    /\ \A c \in Client : retry[c] =>
          /\ ReturnedFor(c)
          /\ \A u \in Thread : ~AsksAgain(u)
    /\ \A t \in Thread : AsksAgain(t) => ReturnedFor(ClientOf[t])

IInv ==
    /\ TypeOK
    /\ CallsAreWellFormed
    /\ OneOccupant
    /\ OneReleaser
    /\ HoldersAreOnRecord
    /\ OffRecord
    /\ Queue
    /\ OneToken

=============================================================================

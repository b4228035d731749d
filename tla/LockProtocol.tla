---------------------------- MODULE LockProtocol ----------------------------
(***************************************************************************)
(* State shared by the lock server (LockServerCache) and the caching lock  *)
(* clients (LockClientCache), for one lock.  Table entries of different    *)
(* locks never touch each other, so one lock stands for all of them.       *)
(*                                                                         *)
(* Every RPC of the protocol is synchronous: the thread that called        *)
(* acquire or release does not move before the call returns, and a handler *)
(* that makes a call of its own (the server's revoke and retry, the        *)
(* client's release from its revoke handler) does not return before that   *)
(* one has.  So each RPC in progress belongs to exactly one user thread,   *)
(* the one at the root of its chain of calls, and pc[t] says where that    *)
(* chain has got to.  The RPC library delivers each call once.             *)
(***************************************************************************)
EXTENDS Sequences

CONSTANTS
    Client,     \* lock_client_cache instances, known to the server by their id
    Thread,     \* user threads that call acquire and release
    ClientOf,   \* the lock_client_cache a thread calls into
    NoClient    \* the empty clientId ""

ASSUME ClientOfType == ClientOf \in [Thread -> Client]
ASSUME NoClientIsNone == NoClient \notin Client

VARIABLES
    \* lock_server_cache::lock_cache_status_table[lid]
    status,     \* FREE, LOCKED or WAITING
    clientId,   \* the holder, or NoClient
    clientQ,    \* clients waiting for the lock, in order of arrival
    clientS,    \* the same clients as a set
    \* lock_client_cache::lock_cache_status_table[lid] of each client
    cacheStatus,
    revoke,
    retry,
    \* the chain of calls of each user thread
    pc,
    reply,      \* what the acquire RPC being served for t will return
    releaser,   \* the client whose release RPC the chain of t is making
    callee      \* the client that the server calls back in the chain of t

serverVars == <<status, clientId, clientQ, clientS>>
cacheVars  == <<cacheStatus, revoke, retry>>
callVars   == <<pc, reply, releaser, callee>>
vars       == <<serverVars, cacheVars, callVars>>

\* lock_server_cache_status.  An absent table entry acts as a FREE one: acquire
\* treats the two alike, and release ignores both.
ServerStatus == {"FREE", "LOCKED", "WAITING"}

\* lock_client_cache_status.  An absent table entry is created as NONE.
CacheStatus == {"NONE", "FREE", "LOCKED", "ACQUIRING", "RELEASING"}

\* lock_protocol::xxstatus as far as acquire returns it; NoReply outside its RPC.
Replies == {"OK", "RETRY"}
NoReply == "none"

\* Where a chain of calls is.  "x_rpc" is a call of x on its way, "x_ret" the
\* return of x on its way.
Releasing == {"dorelease", "release_rpc", "retry_rpc", "release_ret"}
PC == {"idle",                    \* outside acquire and release, without the lock
       "cond_wait", "cond_woken", \* in acquire, waiting on cond / signalled
       "acquire_rpc", "revoke_rpc", "acquire_ret",
       "retry_wait", "retry_woken", \* waiting on condForRetry / signalled
       "critical"}                \* acquire has returned, release not yet called
      \cup Releasing

TypeOK ==
    /\ status \in ServerStatus
    /\ clientId \in Client \cup {NoClient}
    /\ clientQ \in Seq(Client)
    /\ clientS \subseteq Client
    /\ cacheStatus \in [Client -> CacheStatus]
    /\ revoke \in [Client -> BOOLEAN]
    /\ retry \in [Client -> BOOLEAN]
    /\ pc \in [Thread -> PC]
    /\ reply \in [Thread -> Replies \cup {NoReply}]
    /\ releaser \in [Thread -> Client \cup {NoClient}]
    /\ callee \in [Thread -> Client \cup {NoClient}]

Init ==
    /\ status = "FREE"
    /\ clientId = NoClient
    /\ clientQ = <<>>
    /\ clientS = {}
    /\ cacheStatus = [c \in Client |-> "NONE"]
    /\ revoke = [c \in Client |-> FALSE]
    /\ retry = [c \in Client |-> FALSE]
    /\ pc = [t \in Thread |-> "idle"]
    /\ reply = [t \in Thread |-> NoReply]
    /\ releaser = [t \in Thread |-> NoClient]
    /\ callee = [t \in Thread |-> NoClient]

\* The chain of t goes on at l.
Goto(t, l) == pc' = [pc EXCEPT ![t] = l]

=============================================================================

-------------------------- MODULE LockServiceProofs --------------------------
(***************************************************************************)
(* The lock service, for any number of clients and threads: mutual         *)
(* exclusion, and that revokes and retries are due.  The holder is asked   *)
(* for the lock when somebody waits, once and never too late, it returns   *)
(* the lock for no other reason, and a returned lock is announced to the   *)
(* first who waits, once.                                                  *)
(***************************************************************************)
EXTENDS LockInvariant, SequenceTheorems, FiniteSetTheorems, TLAPS

-----------------------------------------------------------------------------
\* What a step does to pc.

\* Signalling moves t to l and lets at most one waiter go on; nobody else moves.
LEMMA SignalMoves ==
  ASSUME NEW c, NEW at \in PC, NEW woken \in PC, NEW t \in Thread, NEW l \in PC,
         pc \in [Thread -> PC], pc[t] # at, SignalAndGoto(c, at, woken, t, l)
  PROVE  /\ pc' \in [Thread -> PC]
         /\ pc'[t] = l
         /\ \A u \in Thread \ {t} : \/ pc'[u] = pc[u]
                                    \/ pc[u] = at /\ pc'[u] = woken
BY DEF SignalAndGoto, Goto

\* The queue keeps the type of its elements.
LEMMA QueueTypes ==
  ASSUME NEW q \in Seq(Client)
  PROVE  /\ \A c \in Client : Append(q, c) \in Seq(Client)
         /\ q # <<>> => Head(q) \in Client /\ Tail(q) \in Seq(Client)
BY HeadTailProperties, AppendProperties

\* Every step of the service keeps the state well typed: the callbacks go to
\* clients and the flags and counters of both tables stay in their ranges.
LEMMA TypeOKKept ==
  ASSUME TypeOK, Queue, NEW t \in Thread, Step(t)
  PROVE  TypeOK'
<1> USE ClientOfType DEF TypeOK, Goto, serverVars, cacheVars
<1>pc. \A l \in PC : Goto(t, l) => pc' \in [Thread -> PC]
  OBVIOUS
<1>l. /\ Releasing \subseteq PC
      /\ {"idle", "cond_wait", "cond_woken", "acquire_rpc", "revoke_rpc", "acquire_ret",
          "retry_wait", "retry_woken", "critical"} \subseteq PC
      /\ {"dorelease", "release_rpc", "retry_rpc", "release_ret"} \subseteq PC
  BY DEF PC, Releasing
<1>1. CASE StartAcquire(t)
  BY <1>1, <1>l DEF StartAcquire, AcquireNone, AcquireCached, AcquireBusy, CacheStatus
<1>2. CASE ReleaseToServer(t)
  BY <1>2, <1>l DEF ReleaseToServer
<1>3. CASE ReleaseToCache(t)
  BY <1>3, <1>l, SignalMoves DEF ReleaseToCache, CacheStatus
<1>4. CASE ServerAcquire(t)
  <2>1. CASE AcquireFree(t)
    BY <2>1, <1>l DEF AcquireFree, Return, ServerStatus, Replies
  <2>2. CASE AcquireLocked(t)
    <3>1. clientQ' \in Seq(Client)
      BY <2>2, QueueTypes DEF AcquireLocked
    <3> QED
      BY <2>2, <3>1, <1>l DEF AcquireLocked, RevokeThenReturn, ServerStatus, Replies
  <2>3. CASE AcquireFront(t)
    <3>1. clientQ' \in Seq(Client)
      BY <2>3, QueueTypes DEF AcquireFront, Queue
    <3>2. clientQ' = <<>> => TypeOK'
      BY <2>3, <3>1, <1>l DEF AcquireFront, Return, ServerStatus, Replies
    <3>3. clientQ' # <<>> => TypeOK'
      BY <2>3, <3>1, <1>l DEF AcquireFront, RevokeThenReturn, ServerStatus, Replies
    <3> QED
      BY <3>2, <3>3
  <2>4. CASE AcquireWaiting(t)
    <3>1. clientQ' \in Seq(Client)
      BY <2>4, QueueTypes DEF AcquireWaiting
    <3> QED
      BY <2>4, <3>1, <1>l DEF AcquireWaiting, Return, Replies
  <2> QED
    BY <1>4, <2>1, <2>2, <2>3, <2>4 DEF ServerAcquire
<1>5. CASE ServerRelease(t)
  <2>1. status = "WAITING" => Head(clientQ) \in Client
    BY QueueTypes DEF Queue
  <2>2. pc' \in [Thread -> PC] /\ callee' \in [Thread -> Client \cup {NoClient}]
    BY <1>5, <2>1, <1>l DEF ServerRelease
  <2> QED
    BY <1>5, <2>2 DEF ServerRelease, ServerStatus
<1>6. CASE RevokeHandler(t)
  <2>1. pc' \in [Thread -> PC]
    BY <1>6, <1>l DEF RevokeHandler
  <2>2. cacheStatus' \in [Client -> CacheStatus] /\ revoke' \in [Client -> BOOLEAN]
    BY <1>6 DEF RevokeHandler, CacheStatus
  <2>3. /\ releaser' \in [Thread -> Client \cup {NoClient}]
        /\ callee' \in [Thread -> Client \cup {NoClient}]
    BY <1>6 DEF RevokeHandler
  <2> QED
    BY <1>6, <2>1, <2>2, <2>3 DEF RevokeHandler
<1>7. CASE RetryHandler(t)
  BY <1>7, <1>l, SignalMoves DEF RetryHandler
<1>8. CASE AcquireReturn(t) \/ RetryWoken(t)
  <2>1. AwaitRetry(t) => pc' \in [Thread -> PC] /\ retry' \in [Client -> BOOLEAN]
    BY <1>l DEF AwaitRetry
  <2>2. CASE AcquireReturn(t)
    <3>1. pc' \in [Thread -> PC] /\ retry' \in [Client -> BOOLEAN]
      BY <2>1, <2>2, <1>l DEF AcquireReturn
    <3>2. cacheStatus' \in [Client -> CacheStatus]
      BY <2>2 DEF AcquireReturn, CacheStatus
    <3>3. reply' \in [Thread -> Replies \cup {NoReply}]
      BY <2>2 DEF AcquireReturn
    <3> QED
      BY <2>2, <3>1, <3>2, <3>3 DEF AcquireReturn
  <2>3. CASE RetryWoken(t)
    BY <2>1, <2>3 DEF RetryWoken
  <2> QED
    BY <1>8, <2>2, <2>3
<1>9. CASE DoRelease(t) \/ SpuriousWakeup(t)
  BY <1>9, <1>l DEF DoRelease, SpuriousWakeup
<1>10. CASE ReleaseReturn(t)
  BY <1>10, <1>l, SignalMoves DEF ReleaseReturn, CacheStatus
<1> QED
  BY <1>1, <1>2, <1>3, <1>4, <1>5, <1>6, <1>7, <1>8, <1>9, <1>10
     DEF Step, Release, Handle, CallStep

-----------------------------------------------------------------------------
\* Facts about a single state.

\* A client that does not have the lock in use and is not asking for it has no
\* thread in its way.
LEMMA QuietClient ==
  ASSUME IInv, NEW c \in Client, cacheStatus[c] \in {"NONE", "FREE"}
  PROVE  \A u \in Thread : ClientOf[u] = c => ~Occupies(u)
BY DEF IInv, TypeOK, OneOccupant, Occupies, Fetching, Using, PC

\* The thread whose release is under way stands alone: the client that is
\* releasing is not asking for the lock, caching it, or using it elsewhere.
LEMMA ReleaserAlone ==
  ASSUME IInv, NEW t \in Thread, pc[t] \in Releasing
  PROVE  /\ releaser[t] \in Client
         /\ cacheStatus[releaser[t]] \in {"LOCKED", "RELEASING"}
         /\ \A u \in Thread : Occupies(u) /\ ClientOf[u] = releaser[t] => u = t
         /\ \A u \in Thread : releaser[u] = releaser[t] => u = t
<1> USE ClientOfType, NoClientIsNone DEF IInv, TypeOK, CallsAreWellFormed
<1>1. releaser[t] \in Client /\ Occupies(t)
  BY DEF Occupies, Releasing
<1>2. CASE reply[t] = NoReply
  BY <1>1, <1>2 DEF OneOccupant, OneReleaser, Using
<1>3. CASE reply[t] # NoReply
  BY <1>1, <1>3 DEF OneReleaser
<1> QED
  BY <1>2, <1>3

\* Taking the first element off a queue without repetitions removes just that one.
LEMMA Dequeue ==
  ASSUME NEW q \in Seq(Client), q # <<>>,
         \A i, j \in 1 .. Len(q) : q[i] = q[j] => i = j
  PROVE  /\ Head(q) = q[1]
         /\ \A i, j \in 1 .. Len(Tail(q)) : Tail(q)[i] = Tail(q)[j] => i = j
         /\ \A c : (\E i \in 1 .. Len(Tail(q)) : Tail(q)[i] = c)
                    <=> c # Head(q) /\ \E i \in 1 .. Len(q) : q[i] = c
<1>1. /\ Len(q) \in Nat \ {0}
      /\ Len(Tail(q)) = Len(q) - 1
      /\ \A i \in 1 .. Len(Tail(q)) : Tail(q)[i] = q[i + 1]
      /\ Head(q) = q[1]
  BY HeadTailProperties, EmptySeq, LenProperties
<1>2. \A i \in 1 .. Len(q) : i = 1 \/ (i - 1 \in 1 .. Len(Tail(q)) /\ q[i] = Tail(q)[i - 1])
  BY <1>1
<1>3. \A i \in 1 .. Len(Tail(q)) : i + 1 \in 1 .. Len(q) /\ i + 1 # 1 /\ 1 \in 1 .. Len(q)
  BY <1>1
<1>4. \A i, j \in 1 .. Len(Tail(q)) : Tail(q)[i] = Tail(q)[j] => i = j
  BY <1>1, <1>3
<1>5. ASSUME NEW c
      PROVE  (\E i \in 1 .. Len(Tail(q)) : Tail(q)[i] = c)
                <=> c # Head(q) /\ \E i \in 1 .. Len(q) : q[i] = c
  <2>1. ASSUME NEW i \in 1 .. Len(Tail(q)), Tail(q)[i] = c
        PROVE  c # Head(q) /\ q[i + 1] = c
    BY <2>1, <1>1, <1>3
  <2>2. ASSUME NEW i \in 1 .. Len(q), q[i] = c, c # Head(q)
        PROVE  i - 1 \in 1 .. Len(Tail(q)) /\ Tail(q)[i - 1] = c
    BY <2>2, <1>1, <1>2
  <2> QED
    BY <2>1, <2>2, <1>3
<1> QED
  BY <1>1, <1>4, <1>5

-----------------------------------------------------------------------------
\* Each action keeps the invariant.  TypeOK' is TypeOKKept throughout.

\* acquire finds no entry or NONE: the client starts to ask.  It cannot be on the
\* queue, so no retry is left over for it and the request is really sent.
LEMMA AcquireNoneKeeps ==
  ASSUME IInv, NEW t \in Thread, AcquireNone(t), TypeOK'
  PROVE  IInv'
<1> DEFINE c == ClientOf[t]
<1> USE ClientOfType, NoClientIsNone DEF IInv, TypeOK, serverVars, Releasing, NoReply
<1>1. c \in Client /\ \A u \in Thread : ClientOf[u] = c => ~Occupies(u)
  BY QuietClient DEF AcquireNone
<1>2. c \notin clientS
  <2>1. \A u \in Thread : Fetching(u) => Occupies(u)
    BY DEF Fetching, Occupies
  <2> QED
    BY <1>1, <2>1 DEF Queue
<1>3. clientQ # <<>> => Head(clientQ) \in clientS
  BY QueueTypes, EmptySeq, LenProperties, HeadTailProperties DEF Queue
<1>4. ~retry[c]
  BY <1>1, <1>2, <1>3 DEF OneToken, ReturnedFor, Queue
<1>5. pc' = [pc EXCEPT ![t] = "acquire_rpc"]
  BY <1>4 DEF AcquireNone, Goto
<1> USE <1>1, <1>5 DEF AcquireNone
<1>6. CallsAreWellFormed'
  BY DEF CallsAreWellFormed, Occupies
<1>7. OneOccupant'
  BY DEF OneOccupant, Occupies, Fetching, Using
<1>8. OneReleaser'
  BY DEF OneReleaser, Occupies
<1>9. HoldersAreOnRecord' /\ OffRecord'
  BY DEF HoldersAreOnRecord, OffRecord
<1>10. Queue'
  BY DEF Queue, Fetching, Occupies
<1>11. OneToken'
  BY <1>2 DEF OneToken, AsksAgain, ReturnedFor
<1> QED
  BY <1>6, <1>7, <1>8, <1>9, <1>10, <1>11

\* acquire finds the lock cached and free.
LEMMA AcquireCachedKeeps ==
  ASSUME IInv, NEW t \in Thread, AcquireCached(t), TypeOK'
  PROVE  IInv'
<1> DEFINE c == ClientOf[t]
<1> USE ClientOfType DEF IInv, TypeOK, serverVars, Releasing, NoReply, AcquireCached, Goto
<1>1. c \in Client /\ \A u \in Thread : ClientOf[u] = c => ~Occupies(u)
  BY QuietClient
<1>2. CallsAreWellFormed'
  BY <1>1 DEF CallsAreWellFormed, Occupies
<1>3. OneOccupant'
  BY <1>1 DEF OneOccupant, Occupies, Fetching, Using, CallsAreWellFormed
<1>4. OneReleaser'
  BY <1>1 DEF OneReleaser, Occupies
<1>5. HoldersAreOnRecord' /\ OffRecord'
  BY DEF HoldersAreOnRecord, OffRecord
<1>6. Queue'
  BY DEF Queue, Fetching
<1>7. OneToken'
  BY DEF OneToken, AsksAgain, ReturnedFor
<1> QED
  BY <1>2, <1>3, <1>4, <1>5, <1>6, <1>7

\* Waiting on a condition variable, and running again, with or without a signal,
\* changes nothing but pc, and pc only between places that the invariant treats
\* alike.
LEMMA WaitingKeeps ==
  ASSUME IInv, NEW t \in Thread, AcquireBusy(t) \/ SpuriousWakeup(t), TypeOK'
  PROVE  IInv'
<1> USE ClientOfType DEF IInv, TypeOK, serverVars, cacheVars, Releasing, NoReply,
                         AcquireBusy, SpuriousWakeup, Goto
<1>1. CallsAreWellFormed'
  BY DEF CallsAreWellFormed
<1>2. OneOccupant'
  BY DEF OneOccupant, Occupies, Fetching, Using
<1>3. OneReleaser'
  BY DEF OneReleaser, Occupies
<1>4. HoldersAreOnRecord' /\ OffRecord'
  BY DEF HoldersAreOnRecord, OffRecord
<1>5. Queue'
  BY DEF Queue, Fetching
<1>6. OneToken'
  BY DEF OneToken, AsksAgain, ReturnedFor
<1> QED
  BY <1>1, <1>2, <1>3, <1>4, <1>5, <1>6

\* The client asked to retry goes on waiting, or hands the retry over to its next
\* request.
LEMMA AwaitRetryKeeps ==
  ASSUME IInv, NEW t \in Thread, AwaitRetry(t), TypeOK',
         (pc[t] = "acquire_ret" /\ reply[t] = "RETRY") \/ pc[t] = "retry_woken",
         reply' = [reply EXCEPT ![t] = NoReply],
         UNCHANGED <<serverVars, cacheStatus, revoke, releaser, callee>>
  PROVE  IInv'
<1> DEFINE c == ClientOf[t]
<1> USE ClientOfType DEF IInv, TypeOK, serverVars, Releasing, NoReply, AwaitRetry, Goto
<1>1. CallsAreWellFormed'
  BY DEF CallsAreWellFormed
<1>2. OneOccupant'
  BY DEF OneOccupant, Occupies, Fetching, Using
<1>3. OneReleaser'
  BY DEF OneReleaser, Occupies
<1>4. HoldersAreOnRecord' /\ OffRecord'
  BY DEF HoldersAreOnRecord, OffRecord
<1>5. Queue'
  BY DEF Queue, Fetching
<1>6. OneToken'
  BY DEF OneToken, AsksAgain, ReturnedFor
<1> QED
  BY <1>1, <1>2, <1>3, <1>4, <1>5, <1>6

\* The reply OK makes the client the owner that the server already has on record.
LEMMA AcquireReturnKeeps ==
  ASSUME IInv, NEW t \in Thread, AcquireReturn(t), TypeOK'
  PROVE  IInv'
<1> USE ClientOfType DEF IInv, TypeOK, serverVars, Releasing, NoReply, AcquireReturn
<1>1. CASE reply[t] = "RETRY"
  BY <1>1, AwaitRetryKeeps
<1>2. CASE reply[t] = "OK"
  <2> USE <1>2 DEF Goto
  <2>1. CallsAreWellFormed'
    BY DEF CallsAreWellFormed
  <2>2. OneOccupant'
    BY DEF OneOccupant, Occupies, Fetching, Using
  <2>3. OneReleaser'
    <3>1. Occupies(t) /\ cacheStatus[ClientOf[t]] = "ACQUIRING"
      BY DEF OneOccupant, Occupies, Fetching
    <3>2. \A u \in Thread : /\ pc'[u] \in Releasing <=> pc[u] \in Releasing
                           /\ pc'[u] \in Releasing => reply'[u] = reply[u]
                           /\ Occupies(u)' <=> Occupies(u)
      BY DEF Occupies
    <3>3. \A x \in Client : cacheStatus[x] = "RELEASING" => cacheStatus'[x] = "RELEASING"
      BY <3>1
    <3> QED
      BY <3>2, <3>3 DEF OneReleaser, CallsAreWellFormed, Occupies
  <2>4. HoldersAreOnRecord' /\ OffRecord'
    BY DEF HoldersAreOnRecord, OffRecord, OneOccupant, Fetching
  <2>5. Queue'
    BY DEF Queue, HoldersAreOnRecord, Fetching
  <2>6. OneToken'
    BY DEF OneToken, AsksAgain, ReturnedFor
  <2> QED
    BY <2>1, <2>2, <2>3, <2>4, <2>5, <2>6
<1> QED
  BY <1>1, <1>2

LEMMA RetryWokenKeeps ==
  ASSUME IInv, NEW t \in Thread, RetryWoken(t), TypeOK'
  PROVE  IInv'
<1>1. reply' = [reply EXCEPT ![t] = NoReply]
  BY DEF IInv, CallsAreWellFormed, RetryWoken, TypeOK, Releasing
<1> QED
  BY <1>1, AwaitRetryKeeps DEF RetryWoken

-----------------------------------------------------------------------------

\* While the server handles acquire its caller stays where it is: asking.
LEMMA ServerAcquireKeepsPlaces ==
  ASSUME CallsAreWellFormed, OneOccupant, OneReleaser, NEW t \in Thread,
         pc[t] = "acquire_rpc", pc'[t] \in {"acquire_ret", "revoke_rpc"},
         \A u \in Thread \ {t} : pc'[u] = pc[u] /\ reply'[u] = reply[u],
         UNCHANGED <<cacheStatus, releaser>>
  PROVE  OneOccupant' /\ OneReleaser'
<1>1. OneOccupant'
  BY DEF OneOccupant, Occupies, Fetching, Using, Releasing
<1>2. OneReleaser'
  BY DEF OneReleaser, Occupies, Releasing
<1> QED
  BY <1>1, <1>2

LEMMA AcquireFreeKeeps ==
  ASSUME IInv, NEW t \in Thread, AcquireFree(t), TypeOK'
  PROVE  IInv'
<1> USE ClientOfType, NoClientIsNone
    DEF IInv, TypeOK, cacheVars, Releasing, NoReply, AcquireFree, Return, Goto
<1>1. CallsAreWellFormed'
  BY DEF CallsAreWellFormed
<1>2. OneOccupant' /\ OneReleaser'
  BY ServerAcquireKeepsPlaces
<1>4. HoldersAreOnRecord'
  BY DEF HoldersAreOnRecord, CallsAreWellFormed, Queue
<1>5. OffRecord'
  <2>1. \A u \in Thread : Occupies(u) /\ ClientOf[u] = ClientOf[t] => u = t
    BY DEF OneOccupant, Occupies
  <2>2. \A u \in Thread : pc[u] \in Releasing => releaser[u] # ClientOf[t]
    BY ReleaserAlone DEF Occupies
  <2>3. cacheStatus[ClientOf[t]] # "NONE"
    BY DEF OneOccupant, Fetching
  <2> QED
    BY <2>1, <2>2, <2>3 DEF OffRecord, Occupies, CallsAreWellFormed
<1>6. Queue'
  BY DEF Queue, Fetching
<1>7. OneToken'
  BY DEF OneToken, AsksAgain, ReturnedFor
<1> QED
  BY <1>1, <1>2, <1>4, <1>5, <1>6, <1>7

\* The first waiter is not the holder, since a client that asks is off record.
LEMMA AcquireLockedKeeps ==
  ASSUME IInv, NEW t \in Thread, AcquireLocked(t), TypeOK'
  PROVE  IInv'
<1> USE ClientOfType, NoClientIsNone
    DEF IInv, TypeOK, cacheVars, Releasing, NoReply, AcquireLocked, RevokeThenReturn, Goto
<1>1. CallsAreWellFormed'
  BY DEF CallsAreWellFormed, Queue
<1>2. OneOccupant' /\ OneReleaser'
  BY ServerAcquireKeepsPlaces
<1>4. HoldersAreOnRecord' /\ OffRecord'
  BY DEF HoldersAreOnRecord, OffRecord
<1>5. Queue'
  <2>1. clientS = {} /\ clientQ = <<>> /\ clientId # NoClient /\ clientId # ClientOf[t]
    BY DEF Queue, OffRecord
  <2>2. clientQ' = <<ClientOf[t]>> /\ clientS' = {ClientOf[t]}
    BY <2>1
  <2>3. Fetching(t)' /\ reply'[t] = "RETRY"
    BY DEF Fetching
  <2> QED
    BY <2>1, <2>2, <2>3 DEF Queue, Fetching
<1>6. OneToken'
  <2>1. /\ \A u \in Thread : pc[u] # "retry_rpc" /\ ~AsksAgain(u)
        /\ \A x \in Client : ~retry[x]
    BY DEF OneToken, ReturnedFor
  <2>2. \A u \in Thread : pc'[u] # "retry_rpc" /\ ~AsksAgain(u)'
    BY <2>1 DEF AsksAgain, OneOccupant, Occupies
  <2> QED
    BY <2>1, <2>2 DEF OneToken
<1> QED
  BY <1>1, <1>2, <1>4, <1>5, <1>6

\* The front of the queue asks again only when the lock has been returned for it,
\* so the grant that does not look at clientId overwrites nobody.
LEMMA AcquireFrontKeeps ==
  ASSUME IInv, NEW t \in Thread, AcquireFront(t), TypeOK'
  PROVE  IInv'
<1> DEFINE c == ClientOf[t]
<1> USE ClientOfType, NoClientIsNone DEF IInv, TypeOK, cacheVars, Releasing, NoReply
<1>1. c \in Client /\ clientQ # <<>> /\ Head(clientQ) = c /\ pc[t] = "acquire_rpc"
  BY DEF AcquireFront, Queue
<1>2. c \in clientS
  BY <1>1, Dequeue, LenProperties, EmptySeq DEF Queue
<1>3. clientId = NoClient
  BY <1>1, <1>2 DEF OneToken, AsksAgain, ReturnedFor
<1>4. /\ clientId' = c
      /\ clientQ' = Tail(clientQ)
      /\ clientS' = clientS \ {c}
      /\ status' = IF clientQ' = <<>> THEN "LOCKED" ELSE "WAITING"
      /\ reply' = [reply EXCEPT ![t] = "OK"]
      /\ UNCHANGED <<cacheStatus, revoke, retry, releaser>>
      /\ \/ pc' = [pc EXCEPT ![t] = "acquire_ret"] /\ UNCHANGED callee
         \/ /\ pc' = [pc EXCEPT ![t] = "revoke_rpc"]
            /\ callee' = [callee EXCEPT ![t] = c]
  BY DEF AcquireFront, Return, RevokeThenReturn, Goto
<1>p. /\ pc[t] = "acquire_rpc" /\ pc'[t] \in {"acquire_ret", "revoke_rpc"}
      /\ \A u \in Thread \ {t} : pc'[u] = pc[u] /\ reply'[u] = reply[u]
      /\ UNCHANGED <<cacheStatus, releaser>>
  BY <1>1, <1>4
<1>5. CallsAreWellFormed'
  BY <1>1, <1>4 DEF CallsAreWellFormed
<1>6. OneOccupant' /\ OneReleaser'
  BY <1>p, ServerAcquireKeepsPlaces
<1>8. HoldersAreOnRecord'
  BY <1>1, <1>3, <1>4 DEF HoldersAreOnRecord, CallsAreWellFormed
<1>9. OffRecord'
  <2>1. \A u \in Thread : Occupies(u) /\ ClientOf[u] = c => u = t
    BY <1>1 DEF OneOccupant, Occupies
  <2>2. \A u \in Thread : pc[u] \in Releasing => releaser[u] # c
    BY <1>1, ReleaserAlone DEF Occupies
  <2>3. cacheStatus[c] # "NONE"
    BY <1>1 DEF OneOccupant, Fetching
  <2>4. \A u \in Thread \ {t} :
          /\ pc[u] \in {"acquire_rpc", "retry_wait", "retry_woken"} => ClientOf[u] # c
          /\ reply[u] = "RETRY" => ClientOf[u] # c
    BY <2>1 DEF Occupies, CallsAreWellFormed
  <2>5. pc'[t] \in {"acquire_ret", "revoke_rpc"} /\ reply'[t] = "OK"
    BY <1>4
  <2> QED
    BY <1>4, <1>p, <2>2, <2>3, <2>4, <2>5 DEF OffRecord
<1>10. Queue'
  <2>1. /\ \A x \in Client : x \in clientS' <=> \E i \in 1 .. Len(clientQ') : clientQ'[i] = x
        /\ \A i, j \in 1 .. Len(clientQ') : clientQ'[i] = clientQ'[j] => i = j
    <3>1. \A i, j \in 1 .. Len(clientQ) : clientQ[i] = clientQ[j] => i = j
      BY DEF Queue
    <3>2. /\ \A i, j \in 1 .. Len(clientQ') : clientQ'[i] = clientQ'[j] => i = j
          /\ \A x : (\E i \in 1 .. Len(clientQ') : clientQ'[i] = x)
                     <=> x # c /\ \E i \in 1 .. Len(clientQ) : clientQ[i] = x
      <4>1. clientQ \in Seq(Client)
        OBVIOUS
      <4>2. /\ \A i, j \in 1 .. Len(Tail(clientQ)) :
                   Tail(clientQ)[i] = Tail(clientQ)[j] => i = j
            /\ \A x : (\E i \in 1 .. Len(Tail(clientQ)) : Tail(clientQ)[i] = x)
                       <=> x # Head(clientQ) /\ \E i \in 1 .. Len(clientQ) : clientQ[i] = x
        BY <1>1, <3>1, <4>1, Dequeue
      <4> QED
        BY <1>1, <1>4, <4>2
    <3> QED
      BY <1>4, <3>2 DEF Queue
  <2>2. /\ status' = "WAITING" <=> clientQ' # <<>>
        /\ status' = "FREE" <=> clientId' = NoClient /\ clientQ' = <<>>
        /\ clientId' \notin clientS'
    BY <1>1, <1>4
  <2>3. \A x \in clientS' : \E u \in Thread :
           ClientOf[u] = x /\ Fetching(u)' /\ reply'[u] # "OK"
    BY <1>4, <1>p DEF Queue, Fetching
  <2> QED
    BY <2>1, <2>2, <2>3 DEF Queue, Fetching
<1>11. OneToken'
  <2>1. /\ \A u \in Thread : pc[u] # "retry_rpc"
        /\ \A x \in Client : ~retry[x]
    BY <1>1, <1>2 DEF OneToken, AsksAgain
  <2>2. ASSUME NEW u \in Thread, AsksAgain(u)
        PROVE  u = t
    <3>1. ClientOf[u] = c /\ Occupies(u) /\ Occupies(t)
      BY <1>1, <2>2 DEF OneToken, AsksAgain, ReturnedFor, Occupies
    <3> QED
      BY <3>1 DEF OneOccupant
  <2>3. \A u \in Thread : ~AsksAgain(u)'
    BY <1>4, <2>2 DEF AsksAgain
  <2> QED
    BY <1>4, <2>1, <2>3 DEF OneToken
<1> QED
  BY <1>5, <1>6, <1>8, <1>9, <1>10, <1>11

\* A client that asks while others wait queues behind them.
LEMMA AcquireWaitingKeeps ==
  ASSUME IInv, NEW t \in Thread, AcquireWaiting(t), TypeOK'
  PROVE  IInv'
<1> DEFINE c == ClientOf[t]
<1> USE ClientOfType, NoClientIsNone
    DEF IInv, TypeOK, cacheVars, Releasing, NoReply, AcquireWaiting, Return, Goto
<1>1. c \notin clientS
  BY DEF OneToken, AsksAgain, ReturnedFor
<1>2. /\ clientQ' = Append(clientQ, c)
      /\ clientQ # <<>>
      /\ Head(clientQ') = Head(clientQ)
  BY <1>1, HeadTailAppend DEF Queue
<1>3. CallsAreWellFormed'
  BY DEF CallsAreWellFormed
<1>4. OneOccupant' /\ OneReleaser'
  BY ServerAcquireKeepsPlaces
<1>6. HoldersAreOnRecord' /\ OffRecord'
  BY DEF HoldersAreOnRecord, OffRecord
<1>7. Queue'
  BY <1>1, <1>2 DEF Queue, OffRecord, Fetching
<1>8. OneToken'
  <2>1. \A u \in Thread : AsksAgain(u)' => AsksAgain(u)
    BY DEF AsksAgain, OneOccupant, Occupies
  <2>2. \A x \in Client : ReturnedFor(x)' <=> ReturnedFor(x)
    BY <1>2 DEF ReturnedFor
  <2>3. \A u \in Thread : pc'[u] = "retry_rpc" <=> pc[u] = "retry_rpc"
    OBVIOUS
  <2> QED
    BY <2>1, <2>2, <2>3, QueueTypes DEF OneToken, ReturnedFor
<1> QED
  BY <1>3, <1>4, <1>6, <1>7, <1>8

-----------------------------------------------------------------------------

\* release, or the revoke handler on its behalf, sets out to hand the lock back.
LEMMA ReleaseToServerKeeps ==
  ASSUME IInv, NEW t \in Thread, ReleaseToServer(t), TypeOK'
  PROVE  IInv'
<1> DEFINE c == ClientOf[t]
<1> USE ClientOfType, NoClientIsNone
    DEF IInv, TypeOK, serverVars, Releasing, NoReply, ReleaseToServer, Goto
<1>1. /\ c \in Client /\ reply[t] = NoReply
      /\ cacheStatus[c] \in {"LOCKED", "RELEASING"}
      /\ \A u \in Thread : Occupies(u) /\ ClientOf[u] = c => u = t
  BY DEF CallsAreWellFormed, OneOccupant, Occupies, Using
<1>2. CallsAreWellFormed'
  BY <1>1 DEF CallsAreWellFormed
<1>3. OneOccupant'
  BY <1>1 DEF OneOccupant, Occupies, Fetching, Using
<1>4. OneReleaser'
  <2>1. \A u \in Thread : pc[u] \in Releasing => releaser[u] # c
    BY <1>1, ReleaserAlone DEF Occupies
  <2> QED
    BY <1>1, <2>1 DEF OneReleaser, Occupies, CallsAreWellFormed
<1>5. HoldersAreOnRecord' /\ OffRecord'
  BY DEF HoldersAreOnRecord, OffRecord
<1>6. Queue'
  BY DEF Queue, Fetching
<1>7. OneToken'
  BY DEF OneToken, AsksAgain, ReturnedFor
<1> QED
  BY <1>2, <1>3, <1>4, <1>5, <1>6, <1>7

LEMMA DoReleaseKeeps ==
  ASSUME IInv, NEW t \in Thread, DoRelease(t), TypeOK'
  PROVE  IInv'
<1> USE ClientOfType DEF IInv, TypeOK, serverVars, cacheVars, Releasing, NoReply,
                         DoRelease, Goto
<1>1. CallsAreWellFormed'
  BY DEF CallsAreWellFormed
<1>2. OneOccupant'
  BY DEF OneOccupant, Occupies, Fetching, Using
<1>3. OneReleaser'
  BY DEF OneReleaser, Occupies
<1>4. HoldersAreOnRecord' /\ OffRecord'
  BY DEF HoldersAreOnRecord, OffRecord
<1>5. Queue'
  BY DEF Queue, Fetching
<1>6. OneToken'
  BY DEF OneToken, AsksAgain, ReturnedFor
<1> QED
  BY <1>1, <1>2, <1>3, <1>4, <1>5, <1>6

\* The server takes the lock back from the holder on record, and nobody else acts
\* as a holder: the releasing client stands alone.
LEMMA ServerReleaseKeeps ==
  ASSUME IInv, NEW t \in Thread, ServerRelease(t), TypeOK'
  PROVE  IInv'
<1> DEFINE c == releaser[t]
<1> USE ClientOfType, NoClientIsNone DEF IInv, TypeOK, cacheVars, Releasing, NoReply
<1>1. /\ pc[t] = "release_rpc"
      /\ c \in Client
      /\ cacheStatus[c] \in {"LOCKED", "RELEASING"}
      /\ \A u \in Thread : Occupies(u) /\ ClientOf[u] = c => u = t
      /\ \A u \in Thread : releaser[u] = c => u = t
  BY ReleaserAlone DEF ServerRelease
<1>2. clientId = c /\ status # "FREE"
  BY <1>1 DEF HoldersAreOnRecord, Queue
<1>3. /\ clientId' = NoClient
      /\ status' = IF status = "LOCKED" THEN "FREE" ELSE "WAITING"
      /\ UNCHANGED <<clientQ, clientS, cacheStatus, revoke, retry, reply, releaser>>
      /\ \A u \in Thread \ {t} : pc'[u] = pc[u] /\ callee'[u] = callee[u]
      /\ \/ status = "LOCKED" /\ pc'[t] = "release_ret"
         \/ status = "WAITING" /\ pc'[t] = "retry_rpc" /\ callee'[t] = Head(clientQ)
  BY <1>1, <1>2 DEF ServerRelease, Goto, ServerStatus
<1>4. status = "WAITING" => clientQ # <<>> /\ Head(clientQ) \in Client
  BY QueueTypes DEF Queue
<1>5. CallsAreWellFormed'
  BY <1>1, <1>3, <1>4 DEF CallsAreWellFormed
<1>6. OneOccupant'
  BY <1>1, <1>3 DEF OneOccupant, Occupies, Fetching, Using
<1>7. OneReleaser'
  BY <1>1, <1>3 DEF OneReleaser, Occupies
<1>8. HoldersAreOnRecord'
  <2>1. \A u \in Thread : pc[u] # "critical" /\ reply[u] # "OK"
    <3>1. \A u \in Thread : pc[u] # "critical"
      BY <1>1, <1>2 DEF HoldersAreOnRecord, Occupies
    <3>2. \A u \in Thread : reply[u] = "OK" => Fetching(u)
      BY DEF CallsAreWellFormed, Fetching
    <3> QED
      BY <1>1, <1>2, <3>1, <3>2 DEF HoldersAreOnRecord, OneOccupant
  <2>2. \A u \in Thread \ {t} : pc[u] \notin {"dorelease", "release_rpc"}
    BY <1>1, <1>2 DEF HoldersAreOnRecord
  <2>3. \A x \in Client : cacheStatus[x] # "FREE"
    BY <1>1, <1>2 DEF HoldersAreOnRecord
  <2> QED
    BY <1>3, <2>1, <2>2, <2>3 DEF HoldersAreOnRecord
<1>9. OffRecord'
  BY <1>1, <1>3 DEF OffRecord, CallsAreWellFormed
<1>10. Queue'
  <2>1. \A x \in clientS : \E u \in Thread :
           ClientOf[u] = x /\ Fetching(u)' /\ reply'[u] # "OK"
    BY <1>1, <1>3 DEF Queue, Fetching
  <2>2. status' = "FREE" <=> clientId' = NoClient /\ clientQ' = <<>>
    BY <1>3, <1>4 DEF Queue
  <2> QED
    BY <1>2, <1>3, <2>1, <2>2 DEF Queue, Fetching
<1>11. OneToken'
  <2>1. /\ \A u \in Thread : pc[u] # "retry_rpc" /\ ~AsksAgain(u)
        /\ \A x \in Client : ~retry[x]
    BY <1>1, <1>2 DEF OneToken, ReturnedFor
  <2>2. \A u \in Thread : ~AsksAgain(u)'
    BY <1>1, <1>3, <2>1 DEF AsksAgain
  <2>3. \A u \in Thread : pc'[u] = "retry_rpc" => u = t /\ ReturnedFor(callee[t])'
    BY <1>3, <2>1 DEF ReturnedFor
  <2> QED
    BY <1>3, <2>1, <2>2, <2>3 DEF OneToken, ReturnedFor, AsksAgain
<1> QED
  BY <1>5, <1>6, <1>7, <1>8, <1>9, <1>10, <1>11

-----------------------------------------------------------------------------

\* What a signal on cond changes of the rest: nothing the invariant looks at.
LEMMA SignalKeepsPlaces ==
  ASSUME TypeOK, NEW c, NEW t \in Thread, NEW l \in PC, Occupies(t),
         SignalAndGoto(c, "cond_wait", "cond_woken", t, l)
  PROVE  /\ pc'[t] = l
         /\ \A u \in Thread \ {t} :
               \/ pc'[u] = pc[u]
               \/ pc[u] = "cond_wait" /\ pc'[u] = "cond_woken"
<1>1. /\ pc \in [Thread -> PC] /\ pc[t] # "cond_wait"
      /\ "cond_wait" \in PC /\ "cond_woken" \in PC
  BY DEF TypeOK, Occupies, PC
<1> QED
  BY <1>1, SignalMoves

\* The same for the signal on condForRetry.
LEMMA RetrySignalKeepsPlaces ==
  ASSUME TypeOK, NEW c, NEW t \in Thread, pc[t] = "retry_rpc",
         SignalAndGoto(c, "retry_wait", "retry_woken", t, "release_ret")
  PROVE  /\ pc'[t] = "release_ret"
         /\ \A u \in Thread \ {t} :
               \/ pc'[u] = pc[u]
               \/ pc[u] = "retry_wait" /\ pc'[u] = "retry_woken"
BY DEF TypeOK, SignalAndGoto, Goto

\* release keeps the lock in the client's cache.
LEMMA ReleaseToCacheKeeps ==
  ASSUME IInv, NEW t \in Thread, ReleaseToCache(t), TypeOK'
  PROVE  IInv'
<1> DEFINE c == ClientOf[t]
<1> USE ClientOfType DEF IInv, TypeOK, serverVars, Releasing, NoReply
<1>1. /\ c \in Client /\ pc[t] = "critical" /\ reply[t] = NoReply
      /\ cacheStatus[c] = "LOCKED"
      /\ clientId = c
      /\ \A u \in Thread : Occupies(u) /\ ClientOf[u] = c => u = t
  BY DEF ReleaseToCache, OneOccupant, Occupies, Using, CallsAreWellFormed, HoldersAreOnRecord
<1>2. /\ cacheStatus' = [cacheStatus EXCEPT ![c] = "FREE"]
      /\ UNCHANGED <<serverVars, revoke, retry, reply, releaser, callee>>
      /\ pc'[t] = "idle"
      /\ \A u \in Thread \ {t} : \/ pc'[u] = pc[u]
                                 \/ pc[u] = "cond_wait" /\ pc'[u] = "cond_woken"
  BY <1>1, SignalKeepsPlaces DEF ReleaseToCache, Occupies, PC
<1>3. CallsAreWellFormed'
  BY <1>1, <1>2 DEF CallsAreWellFormed
<1>4. OneOccupant'
  BY <1>1, <1>2 DEF OneOccupant, Occupies, Fetching, Using
<1>5. OneReleaser'
  BY <1>1, <1>2 DEF OneReleaser, Occupies, CallsAreWellFormed
<1>6. HoldersAreOnRecord' /\ OffRecord'
  BY <1>1, <1>2 DEF HoldersAreOnRecord, OffRecord
<1>7. Queue'
  BY <1>1, <1>2 DEF Queue, Fetching
<1>8. OneToken'
  <2>1. /\ \A u \in Thread : pc'[u] = "retry_rpc" <=> pc[u] = "retry_rpc"
        /\ \A u \in Thread : AsksAgain(u)' <=> AsksAgain(u)
        /\ \A x : ReturnedFor(x)' <=> ReturnedFor(x)
    BY <1>1, <1>2 DEF AsksAgain, ReturnedFor
  <2> QED
    BY <1>2, <2>1 DEF OneToken
<1> QED
  BY <1>3, <1>4, <1>5, <1>6, <1>7, <1>8

\* The lock is back at the server: the client that returned it starts afresh.
LEMMA ReleaseReturnKeeps ==
  ASSUME IInv, NEW t \in Thread, ReleaseReturn(t), TypeOK'
  PROVE  IInv'
<1> DEFINE c == releaser[t]
<1> USE ClientOfType, NoClientIsNone DEF IInv, TypeOK, serverVars, Releasing, NoReply
<1>1. /\ pc[t] = "release_ret"
      /\ c \in Client
      /\ cacheStatus[c] \in {"LOCKED", "RELEASING"}
      /\ \A u \in Thread : Occupies(u) /\ ClientOf[u] = c => u = t
      /\ \A u \in Thread : releaser[u] = c => u = t
  BY ReleaserAlone DEF ReleaseReturn
<1>2. /\ cacheStatus' = [cacheStatus EXCEPT ![c] = "NONE"]
      /\ releaser' = [releaser EXCEPT ![t] = NoClient]
      /\ UNCHANGED <<serverVars, revoke, retry, reply, callee>>
      /\ pc'[t] = IF reply[t] = NoReply THEN "idle" ELSE "acquire_ret"
      /\ \A u \in Thread \ {t} : \/ pc'[u] = pc[u]
                                 \/ pc[u] = "cond_wait" /\ pc'[u] = "cond_woken"
  BY <1>1, SignalKeepsPlaces DEF ReleaseReturn, Occupies, PC
<1>3. IF reply[t] = NoReply
        THEN Using(t) /\ ClientOf[t] = c
        ELSE Fetching(t) /\ \A u \in Thread : ClientOf[u] = c => ~Occupies(u)
  BY <1>1 DEF CallsAreWellFormed, OneReleaser, Using, Fetching
<1>4. CallsAreWellFormed'
  BY <1>1, <1>2 DEF CallsAreWellFormed
<1>5. OneOccupant'
  BY <1>1, <1>2, <1>3 DEF OneOccupant, Occupies, Fetching, Using
<1>6. OneReleaser'
  BY <1>1, <1>2 DEF OneReleaser, Occupies, CallsAreWellFormed
<1>7. HoldersAreOnRecord' /\ OffRecord'
  BY <1>1, <1>2 DEF HoldersAreOnRecord, OffRecord, CallsAreWellFormed
<1>8. Queue'
  <2>1. \A x \in clientS : \E u \in Thread :
           ClientOf[u] = x /\ Fetching(u)' /\ reply'[u] # "OK"
    <3>1. \A u \in Thread : Fetching(u) => Fetching(u)'
      BY <1>1, <1>2 DEF Fetching
    <3> QED
      BY <1>2, <3>1 DEF Queue, Fetching
  <2>2. UNCHANGED <<status, clientId, clientQ, clientS>>
    BY <1>2
  <2> HIDE DEF TypeOK
  <2> QED
    BY <2>1, <2>2 DEF Queue, Fetching
<1>9. OneToken'
  BY <1>1, <1>2 DEF OneToken, AsksAgain, ReturnedFor
<1> QED
  BY <1>4, <1>5, <1>6, <1>7, <1>8, <1>9

\* A revoke changes what becomes of the lock, not whose it is; a lock that is only
\* cached goes back at once, through a client that has no thread in the way.
LEMMA RevokeHandlerKeeps ==
  ASSUME IInv, NEW t \in Thread, RevokeHandler(t), TypeOK'
  PROVE  IInv'
<1> DEFINE c == callee[t]
<1> USE ClientOfType, NoClientIsNone
    DEF IInv, TypeOK, serverVars, Releasing, NoReply, RevokeHandler, Goto
<1>1. c \in Client /\ reply[t] # NoReply /\ Fetching(t) /\ Occupies(t)
  BY DEF CallsAreWellFormed, Fetching, Occupies
<1>2. CallsAreWellFormed'
  BY <1>1 DEF CallsAreWellFormed
<1>3. CASE cacheStatus[c] \notin {"LOCKED", "FREE"}
  <2> USE <1>1, <1>3
  <2>1. OneOccupant'
    BY DEF OneOccupant, Occupies, Fetching, Using
  <2>2. OneReleaser'
    BY DEF OneReleaser, Occupies
  <2>3. HoldersAreOnRecord' /\ OffRecord'
    BY DEF HoldersAreOnRecord, OffRecord
  <2>4. Queue'
    BY DEF Queue, Fetching
  <2>5. OneToken'
    BY DEF OneToken, AsksAgain, ReturnedFor
  <2> QED
    BY <1>2, <2>1, <2>2, <2>3, <2>4, <2>5
<1>4. CASE cacheStatus[c] = "LOCKED"
  <2> USE <1>1, <1>4
  <2>1. OneOccupant'
    BY DEF OneOccupant, Occupies, Fetching, Using
  <2>2. OneReleaser'
    <3>1. pc' = [pc EXCEPT ![t] = "acquire_ret"] /\ UNCHANGED <<reply, releaser>>
      OBVIOUS
    <3>2. \A x \in Client : cacheStatus[x] = "RELEASING" => cacheStatus'[x] = "RELEASING"
      OBVIOUS
    <3> QED
      BY <3>1, <3>2 DEF OneReleaser, Occupies, CallsAreWellFormed
  <2>3. HoldersAreOnRecord' /\ OffRecord'
    BY DEF HoldersAreOnRecord, OffRecord
  <2>4. Queue'
    <3>1. \A u \in Thread : Fetching(u)' <=> Fetching(u)
      BY DEF Fetching
    <3> QED
      BY <3>1 DEF Queue
  <2>5. OneToken'
    BY DEF OneToken, AsksAgain, ReturnedFor
  <2> QED
    BY <1>2, <2>1, <2>2, <2>3, <2>4, <2>5
<1>5. CASE cacheStatus[c] = "FREE"
  <2> USE <1>1, <1>5
  <2>0. /\ \A u \in Thread : ClientOf[u] = c => ~Occupies(u)
        /\ \A u \in Thread : releaser[u] # c
    BY QuietClient, ReleaserAlone DEF CallsAreWellFormed
  <2>1. OneOccupant'
    BY <2>0 DEF OneOccupant, Occupies, Fetching, Using
  <2>2. OneReleaser'
    <3>1. /\ pc' = [pc EXCEPT ![t] = "dorelease"]
          /\ releaser' = [releaser EXCEPT ![t] = c]
          /\ cacheStatus' = [cacheStatus EXCEPT ![c] = "RELEASING"]
          /\ UNCHANGED reply
      OBVIOUS
    <3>2. ClientOf[t] # c /\ pc[t] \notin Releasing
      BY <2>0
    <3> HIDE DEF RevokeHandler
    <3>3. \A u, v \in Thread :
             pc'[u] \in Releasing /\ releaser'[u] = releaser'[v] => u = v
      BY <2>0, <3>1, <3>2 DEF OneReleaser, CallsAreWellFormed
    <3>4. \A u \in Thread : pc'[u] \in Releasing /\ reply'[u] # NoReply =>
             /\ cacheStatus'[releaser'[u]] = "RELEASING"
             /\ \A v \in Thread : ClientOf[v] = releaser'[u] => ~Occupies(v)'
      BY <2>0, <3>1, <3>2 DEF OneReleaser, CallsAreWellFormed, Occupies
    <3> QED
      BY <3>3, <3>4 DEF OneReleaser, Occupies
  <2>3. HoldersAreOnRecord' /\ OffRecord'
    BY DEF HoldersAreOnRecord, OffRecord
  <2>4. Queue'
    BY DEF Queue, Fetching
  <2>5. OneToken'
    BY DEF OneToken, AsksAgain, ReturnedFor
  <2> QED
    BY <1>2, <2>1, <2>2, <2>3, <2>4, <2>5
<1> QED
  BY <1>3, <1>4, <1>5

\* The retry RPC turns into the retry flag of the same client.
LEMMA RetryHandlerKeeps ==
  ASSUME IInv, NEW t \in Thread, RetryHandler(t), TypeOK'
  PROVE  IInv'
<1> DEFINE c == callee[t]
<1> USE ClientOfType, NoClientIsNone DEF IInv, TypeOK, serverVars, Releasing, NoReply
<1>1. c \in Client /\ pc[t] = "retry_rpc"
  BY DEF CallsAreWellFormed, RetryHandler
<1>2. /\ retry' = [retry EXCEPT ![c] = TRUE]
      /\ UNCHANGED <<serverVars, cacheStatus, revoke, reply, releaser>>
      /\ pc'[t] = "release_ret"
      /\ \A u \in Thread \ {t} : /\ callee'[u] = callee[u]
                                 /\ \/ pc'[u] = pc[u]
                                    \/ pc[u] = "retry_wait" /\ pc'[u] = "retry_woken"
  BY <1>1, RetrySignalKeepsPlaces DEF RetryHandler
<1>3. CallsAreWellFormed'
  BY <1>1, <1>2 DEF CallsAreWellFormed
<1>4. OneOccupant'
  BY <1>1, <1>2 DEF OneOccupant, Occupies, Fetching, Using
<1>5. OneReleaser'
  BY <1>1, <1>2 DEF OneReleaser, Occupies
<1>6. HoldersAreOnRecord' /\ OffRecord'
  BY <1>1, <1>2 DEF HoldersAreOnRecord, OffRecord
<1>7. Queue'
  BY <1>1, <1>2 DEF Queue, Fetching
<1>8. OneToken'
  BY <1>1, <1>2 DEF OneToken, AsksAgain, ReturnedFor
<1> QED
  BY <1>3, <1>4, <1>5, <1>6, <1>7, <1>8

-----------------------------------------------------------------------------
\* The invariant.

LEMMA InitEstablishes == Init => IInv
BY ClientOfType, NoClientIsNone
   DEF Init, IInv, TypeOK, CallsAreWellFormed, OneOccupant, OneReleaser,
       HoldersAreOnRecord, OffRecord, Queue, OneToken, Occupies, Fetching, Using,
       AsksAgain, PC, Releasing, NoReply, CacheStatus, ServerStatus

LEMMA NextKeeps == IInv /\ [Next]_vars => IInv'
<1> SUFFICES ASSUME IInv, [Next]_vars PROVE IInv'
  OBVIOUS
<1>1. CASE UNCHANGED vars
  BY <1>1 DEF vars, serverVars, cacheVars, callVars, IInv, TypeOK, CallsAreWellFormed,
              OneOccupant, OneReleaser, HoldersAreOnRecord, OffRecord, Queue, OneToken,
              Occupies, Fetching, Using, AsksAgain, ReturnedFor
<1>2. ASSUME NEW t \in Thread, Step(t) PROVE IInv'
  <2>1. TypeOK'
    BY <1>2, TypeOKKept DEF IInv
  <2>2. CASE StartAcquire(t)
    BY <2>1, <2>2, AcquireNoneKeeps, AcquireCachedKeeps, WaitingKeeps DEF StartAcquire
  <2>3. CASE Release(t)
    BY <2>1, <2>3, ReleaseToServerKeeps, ReleaseToCacheKeeps DEF Release
  <2>4. CASE ServerAcquire(t)
    BY <2>1, <2>4, AcquireFreeKeeps, AcquireLockedKeeps, AcquireFrontKeeps,
       AcquireWaitingKeeps DEF ServerAcquire
  <2>5. CASE Handle(t) /\ ~ServerAcquire(t)
    BY <2>1, <2>5, ServerReleaseKeeps, RevokeHandlerKeeps, RetryHandlerKeeps,
       AcquireReturnKeeps, RetryWokenKeeps, DoReleaseKeeps, ReleaseReturnKeeps DEF Handle, CallStep
  <2>6. CASE SpuriousWakeup(t)
    BY <2>1, <2>6, WaitingKeeps
  <2> QED
    BY <1>2, <2>2, <2>3, <2>4, <2>5, <2>6 DEF Step
<1> QED
  BY <1>1, <1>2 DEF Next

\* The inductive invariant holds in every reachable state of the service.
THEOREM Invariance == Spec => []IInv
BY InitEstablishes, NextKeeps, PTL DEF Spec

\* Every variable of the service stays in its type: the lock tables of server and
\* clients, and the chains of calls in progress.
THEOREM TypeCorrect == Spec => []TypeOK
BY Invariance, PTL DEF IInv

\* A thread that came out of acquire, a client that caches the lock, a grant or a
\* release on its way: the server has the same holder on record.
THEOREM OnRecord == Spec => []HoldersAreOnRecord
BY Invariance, PTL DEF IInv

\* Never are two threads, of one client or of two, between acquire and release.
THEOREM Exclusion == Spec => []MutualExclusion
<1>1. IInv => MutualExclusion
  BY ClientOfType DEF IInv, TypeOK, HoldersAreOnRecord, OneOccupant, Occupies, MutualExclusion
<1> QED
  BY <1>1, Invariance, PTL

-----------------------------------------------------------------------------
(***************************************************************************)
(* The lock service implements the lock it promises.  The owner of the     *)
(* promised lock is the holder the server has on record; the invariant     *)
(* says that this holder is never replaced, and that a thread enters only  *)
(* on its behalf.                                                          *)
(***************************************************************************)
inside == {t \in Thread : pc[t] = "critical"}

\* A step that neither changes the holder nor lets a thread in or out stutters.
LEMMA StutterMaps ==
  ASSUME UNCHANGED clientId,
         \A u \in Thread : pc'[u] = "critical" <=> pc[u] = "critical"
  PROVE  UNCHANGED <<clientId, inside>>
BY DEF inside

\* A thread that comes out of acquire finds its client on record and nobody inside.
LEMMA EnterMaps ==
  ASSUME IInv, NEW t \in Thread, clientId = ClientOf[t], UNCHANGED clientId,
         pc[t] # "critical", pc'[t] = "critical",
         \A u \in Thread \ {t} : pc'[u] = pc[u],
         \A u \in Thread : Occupies(u) /\ ClientOf[u] = ClientOf[t] => u = t
  PROVE  Promised!Enter(t)
<1>1. \A u \in Thread : pc[u] # "critical"
  BY DEF IInv, HoldersAreOnRecord, Occupies
<1> QED
  BY <1>1 DEF Promised!Enter, inside

\* A thread that calls release was the only one inside.
LEMMA LeaveMaps ==
  ASSUME IInv, NEW t \in Thread, UNCHANGED clientId,
         pc[t] = "critical", pc'[t] # "critical",
         \A u \in Thread \ {t} : pc'[u] = "critical" <=> pc[u] = "critical"
  PROVE  Promised!Leave(t)
<1>1. \A u \in Thread : pc[u] = "critical" => u = t
  BY ClientOfType DEF IInv, TypeOK, HoldersAreOnRecord, OneOccupant, Occupies
<1> QED
  BY <1>1 DEF Promised!Leave

-----------------------------------------------------------------------------

LEMMA AcquireMaps ==
  ASSUME IInv, NEW t \in Thread, StartAcquire(t)
  PROVE  Promised!Enter(t) \/ UNCHANGED <<clientId, inside>>
<1> DEFINE c == ClientOf[t]
<1> USE ClientOfType DEF IInv, TypeOK, serverVars, Goto
<1>1. CASE AcquireNone(t)
  <2>1. ~retry[c]
    <3>1. c \notin clientS
      BY <1>1, QuietClient DEF AcquireNone, Queue, Fetching, Occupies, Releasing
    <3>2. clientQ # <<>> => Head(clientQ) \in clientS
      BY QueueTypes, EmptySeq, LenProperties, HeadTailProperties DEF Queue
    <3> QED
      BY <3>1, <3>2 DEF OneToken, ReturnedFor, Queue
  <2> QED
    BY <1>1, <2>1, StutterMaps DEF AcquireNone
<1>2. CASE AcquireCached(t)
  <2>1. clientId = c /\ \A u \in Thread : ClientOf[u] = c => ~Occupies(u)
    BY <1>2, QuietClient DEF AcquireCached, HoldersAreOnRecord
  <2> QED
    BY <1>2, <2>1, EnterMaps DEF AcquireCached
<1>3. CASE AcquireBusy(t)
  BY <1>3, StutterMaps DEF AcquireBusy
<1> QED
  BY <1>1, <1>2, <1>3 DEF StartAcquire

LEMMA AcquireReturnMaps ==
  ASSUME IInv, NEW t \in Thread, AcquireReturn(t)
  PROVE  Promised!Enter(t) \/ UNCHANGED <<clientId, inside>>
<1> USE ClientOfType DEF IInv, TypeOK, serverVars, Goto, AcquireReturn
<1>1. CASE reply[t] = "RETRY"
  BY <1>1, StutterMaps DEF AwaitRetry
<1>2. CASE reply[t] = "OK"
  <2>1. \A u \in Thread : Occupies(u) /\ ClientOf[u] = ClientOf[t] => u = t
    BY DEF OneOccupant, Occupies
  <2> QED
    BY <1>2, <2>1, EnterMaps DEF HoldersAreOnRecord
<1> QED
  BY <1>1, <1>2

LEMMA ReleaseMaps ==
  ASSUME IInv, NEW t \in Thread, Release(t)
  PROVE  Promised!Leave(t)
<1> USE ClientOfType DEF IInv, TypeOK, serverVars, Goto
<1>1. CASE ReleaseToServer(t)
  BY <1>1, LeaveMaps DEF ReleaseToServer
<1>2. CASE ReleaseToCache(t)
  <2>1. /\ pc[t] = "critical" /\ cacheStatus[ClientOf[t]] = "LOCKED" /\ Occupies(t)
        /\ UNCHANGED clientId
    BY <1>2 DEF ReleaseToCache, OneOccupant, Using, Occupies
  <2>2. /\ pc'[t] = "idle"
        /\ \A u \in Thread \ {t} : \/ pc'[u] = pc[u]
                                   \/ pc[u] = "cond_wait" /\ pc'[u] = "cond_woken"
    BY <1>2, <2>1, SignalKeepsPlaces DEF ReleaseToCache, PC
  <2> QED
    BY <2>1, <2>2, LeaveMaps
<1> QED
  BY <1>1, <1>2 DEF Release

\* The grant to the front of the queue does not look at clientId; the invariant
\* says that nobody is on record then.
LEMMA ServerAcquireMaps ==
  ASSUME IInv, NEW t \in Thread, ServerAcquire(t)
  PROVE  Promised!Grant(ClientOf[t]) \/ UNCHANGED <<clientId, inside>>
<1> USE ClientOfType DEF IInv, TypeOK, Goto, Return, RevokeThenReturn
<1>1. /\ \A u \in Thread : pc'[u] = "critical" <=> pc[u] = "critical"
      /\ UNCHANGED inside
  BY DEF ServerAcquire, AcquireFree, AcquireLocked, AcquireFront, AcquireWaiting, inside
<1>2. CASE AcquireFree(t)
  BY <1>1, <1>2 DEF AcquireFree, Queue, Promised!Grant, inside
<1>3. CASE AcquireFront(t)
  <2>1. ClientOf[t] \in clientS
    BY <1>3, Dequeue, LenProperties, EmptySeq DEF AcquireFront, Queue
  <2>2. clientId = NoClient
    BY <1>3, <2>1 DEF AcquireFront, OneToken, AsksAgain, ReturnedFor
  <2> QED
    BY <1>1, <1>3, <2>2 DEF AcquireFront, Promised!Grant, inside
<1>4. CASE AcquireLocked(t) \/ AcquireWaiting(t)
  BY <1>1, <1>4 DEF AcquireLocked, AcquireWaiting
<1> QED
  BY <1>2, <1>3, <1>4 DEF ServerAcquire

\* The holder that hands the lock in has no thread inside.
LEMMA ServerReleaseMaps ==
  ASSUME IInv, NEW t \in Thread, ServerRelease(t)
  PROVE  Promised!GiveUp
<1> USE ClientOfType, NoClientIsNone DEF IInv, TypeOK
<1>1. /\ pc[t] = "release_rpc"
      /\ releaser[t] \in Client
      /\ \A u \in Thread : Occupies(u) /\ ClientOf[u] = releaser[t] => u = t
  BY ReleaserAlone DEF ServerRelease, Releasing
<1>2. clientId = releaser[t] /\ status # "FREE"
  BY <1>1 DEF HoldersAreOnRecord, Queue
<1>3. clientId' = NoClient
  BY <1>2 DEF ServerRelease
<1>4. \A u \in Thread : pc[u] = "critical" => ClientOf[u] # clientId
  BY <1>1, <1>2 DEF Occupies
<1>5. \A u \in Thread : pc'[u] = "critical" <=> pc[u] = "critical"
  BY <1>1 DEF ServerRelease, Goto
<1>6. UNCHANGED inside
  BY <1>5 DEF inside
<1> QED
  BY <1>1, <1>2, <1>3, <1>4, <1>6 DEF Promised!GiveUp, inside

\* The other steps of a chain of calls touch neither the record nor who is inside.
LEMMA CallMaps ==
  ASSUME IInv, NEW t \in Thread,
         \/ RevokeHandler(t) \/ RetryHandler(t) \/ RetryWoken(t)
         \/ DoRelease(t) \/ ReleaseReturn(t) \/ SpuriousWakeup(t)
  PROVE  UNCHANGED <<clientId, inside>>
<1> USE DEF IInv, TypeOK, serverVars, Goto
<1>1. CASE RevokeHandler(t) \/ RetryWoken(t) \/ DoRelease(t) \/ SpuriousWakeup(t)
  BY <1>1, StutterMaps DEF RevokeHandler, RetryWoken, AwaitRetry, DoRelease, SpuriousWakeup
<1>2. CASE RetryHandler(t)
  <2>1. /\ pc[t] = "retry_rpc" /\ pc'[t] = "release_ret"
        /\ \A u \in Thread \ {t} : \/ pc'[u] = pc[u]
                                   \/ pc[u] = "retry_wait" /\ pc'[u] = "retry_woken"
    BY <1>2, RetrySignalKeepsPlaces DEF RetryHandler
  <2> QED
    BY <1>2, <2>1, StutterMaps DEF RetryHandler
<1>3. CASE ReleaseReturn(t)
  <2>1. {"cond_wait", "cond_woken", "idle", "acquire_ret"} \subseteq PC
    BY DEF PC
  <2>2. /\ pc[t] = "release_ret" /\ pc'[t] \in {"idle", "acquire_ret"}
        /\ \A u \in Thread \ {t} : \/ pc'[u] = pc[u]
                                   \/ pc[u] = "cond_wait" /\ pc'[u] = "cond_woken"
    <3> DEFINE l == IF reply[t] = NoReply THEN "idle" ELSE "acquire_ret"
    <3>1. pc[t] = "release_ret" /\ Occupies(t)
      BY <1>3 DEF ReleaseReturn, Occupies
    <3>2. l \in {"idle", "acquire_ret"} /\ l \in PC
      BY <2>1
    <3>3. SignalAndGoto(releaser[t], "cond_wait", "cond_woken", t, l)
      BY <1>3 DEF ReleaseReturn
    <3>4. TypeOK
      OBVIOUS
    <3> HIDE DEF l, TypeOK
    <3> QED
      BY <3>1, <3>2, <3>3, <3>4, SignalKeepsPlaces
  <2> QED
    BY <1>3, <2>2, StutterMaps DEF ReleaseReturn
<1> QED
  BY <1>1, <1>2, <1>3

-----------------------------------------------------------------------------

LEMMA InitMaps == Init => Promised!Init
BY DEF Init, Promised!Init

LEMMA NextMaps == IInv /\ [Next]_vars => [Promised!Next]_<<clientId, inside>>
<1> SUFFICES ASSUME IInv, [Next]_vars
             PROVE  Promised!Next \/ UNCHANGED <<clientId, inside>>
  OBVIOUS
<1>1. CASE UNCHANGED vars
  BY <1>1, StutterMaps DEF vars, serverVars, callVars
<1>2. ASSUME NEW t \in Thread, Step(t)
      PROVE  Promised!Next \/ UNCHANGED <<clientId, inside>>
  <2>1. ClientOf[t] \in Client
    BY ClientOfType
  <2>2. CASE StartAcquire(t) \/ AcquireReturn(t)
    BY <2>2, AcquireMaps, AcquireReturnMaps DEF Promised!Next
  <2>3. CASE Release(t)
    BY <2>3, ReleaseMaps DEF Promised!Next
  <2>4. CASE ServerAcquire(t)
    BY <2>1, <2>4, ServerAcquireMaps DEF Promised!Next
  <2>5. CASE ServerRelease(t)
    BY <2>5, ServerReleaseMaps DEF Promised!Next
  <2>6. CASE \/ RevokeHandler(t) \/ RetryHandler(t) \/ RetryWoken(t)
             \/ DoRelease(t) \/ ReleaseReturn(t) \/ SpuriousWakeup(t)
    BY <2>6, CallMaps
  <2> QED
    BY <1>2, <2>2, <2>3, <2>4, <2>5, <2>6 DEF Step, Handle, CallStep
<1> QED
  BY <1>1, <1>2 DEF Next

\* The lock service is an implementation of the promised lock: one owner at a time,
\* threads of the owner inside one by one, and no change of owner under a thread.
THEOREM Refinement == Spec => ImplementsDistributedLock
<1>1. Promised!Spec <=> Promised!Init /\ [][Promised!Next]_<<clientId, inside>>
  BY DEF Promised!Spec, inside
<1> QED
  BY <1>1, InitMaps, NextMaps, Invariance, PTL DEF Spec, ImplementsDistributedLock

-----------------------------------------------------------------------------
\* Revokes and retries.

\* A revoke on its way goes to a holder that has not been told yet.
RevokesAreDue ==
    \A t \in Thread : pc[t] = "revoke_rpc" =>
        /\ callee[t] = clientId
        /\ status = "WAITING"
        /\ ~revoke[clientId]
        /\ cacheStatus[clientId] \in {"ACQUIRING", "LOCKED", "FREE"}
        /\ \A u \in Thread : releaser[u] # clientId
        /\ \A u \in Thread : pc[u] = "revoke_rpc" => u = t

\* The flag of a revoke is up at a holder whose release has not begun.
FlagsAreDue ==
    \A c \in Client : revoke[c] =>
        /\ clientId = c
        /\ status = "WAITING"
        /\ cacheStatus[c] \in {"ACQUIRING", "LOCKED"}
        /\ \A u \in Thread : releaser[u] # c

\* A lock is on its way back when somebody waits for it.
ReturnsAreDue ==
    /\ \A t \in Thread : pc[t] \in {"dorelease", "release_rpc"} => status = "WAITING"
    /\ \A c \in Client : cacheStatus[c] = "RELEASING" /\ clientId = c => status = "WAITING"

\* A returned lock is announced, or being fetched.
HandOverGoesOn ==
    status = "WAITING" /\ clientId = NoClient =>
        \/ \E t \in Thread : pc[t] = "retry_rpc"
        \/ \E c \in Client : retry[c]
        \/ \E t \in Thread : AsksAgain(t)

RInv ==
    /\ RevokesAreDue
    /\ FlagsAreDue
    /\ ReturnsAreDue
    /\ HolderIsAskedBack
    /\ HandOverGoesOn

-----------------------------------------------------------------------------
\* Who is first in the queue is in the set of waiters.
LEMMA HeadIsWaiting ==
  ASSUME IInv, status = "WAITING"
  PROVE  /\ clientQ # <<>>
         /\ Head(clientQ) \in clientS
<1>1. clientQ \in Seq(Client) /\ clientQ # <<>>
  BY DEF IInv, TypeOK, Queue
<1>2. 1 \in 1 .. Len(clientQ) /\ Head(clientQ) = clientQ[1] /\ Head(clientQ) \in Client
  BY <1>1, Dequeue, HeadTailProperties, LenProperties, EmptySeq DEF IInv, Queue
<1> QED
  BY <1>1, <1>2 DEF IInv, Queue

\* In client code.
LEMMA StartAcquireKeepsRevokes ==
  ASSUME IInv, RInv, NEW t \in Thread, StartAcquire(t)
  PROVE  RInv'
<1> USE ClientOfType, NoClientIsNone DEF IInv, TypeOK, RInv
<1>0. /\ pc[t] \in {"idle", "cond_woken"} /\ releaser[t] = NoClient
      /\ UNCHANGED <<serverVars, revoke, retry, reply, releaser, callee>>
      /\ \A u \in Thread \ {t} : pc'[u] = pc[u]
      /\ pc'[t] \in {"critical", "acquire_rpc", "cond_wait"}
      /\ \A c \in Client : \/ cacheStatus'[c] = cacheStatus[c]
                           \/ cacheStatus[c] = "NONE" /\ cacheStatus'[c] = "ACQUIRING"
                           \/ cacheStatus[c] = "FREE" /\ cacheStatus'[c] = "LOCKED"
  BY DEF StartAcquire, AcquireNone, AcquireCached, AcquireBusy, Goto, CallsAreWellFormed,
         Releasing, cacheVars
<1>1. RevokesAreDue'
  BY <1>0 DEF RevokesAreDue, serverVars, CallsAreWellFormed
<1>2. FlagsAreDue'
  BY <1>0 DEF FlagsAreDue, serverVars
<1>3. ReturnsAreDue'
  BY <1>0 DEF ReturnsAreDue, serverVars
<1>4. HolderIsAskedBack'
  BY <1>0 DEF HolderIsAskedBack, Releasing, serverVars
<1>5. HandOverGoesOn'
  BY <1>0 DEF HandOverGoesOn, AsksAgain, serverVars
<1> QED
  BY <1>1, <1>2, <1>3, <1>4, <1>5

LEMMA ReturnKeepsRevokes ==
  ASSUME IInv, RInv, NEW t \in Thread, AcquireReturn(t) \/ RetryWoken(t) \/ SpuriousWakeup(t)
  PROVE  RInv'
<1> USE ClientOfType, NoClientIsNone DEF IInv, TypeOK, RInv
<1>0. /\ pc[t] \in {"acquire_ret", "retry_woken", "cond_wait", "retry_wait"}
      /\ UNCHANGED <<serverVars, revoke, releaser, callee>>
      /\ \A u \in Thread \ {t} : pc'[u] = pc[u]
      /\ pc'[t] \in {"critical", "acquire_rpc", "retry_wait", "cond_woken", "retry_woken"}
      /\ \A c \in Client : \/ cacheStatus'[c] = cacheStatus[c]
                           \/ cacheStatus[c] = "ACQUIRING" /\ cacheStatus'[c] = "LOCKED"
  <2>1. CASE RetryWoken(t)
    BY <2>1 DEF RetryWoken, AwaitRetry, Goto
  <2>2. CASE SpuriousWakeup(t)
    BY <2>2 DEF SpuriousWakeup, Goto, cacheVars
  <2>3. CASE AcquireReturn(t) /\ reply[t] = "RETRY"
    BY <2>3 DEF AcquireReturn, AwaitRetry, Goto
  <2>4. CASE AcquireReturn(t) /\ reply[t] = "OK"
    <3>1. cacheStatus[ClientOf[t]] = "ACQUIRING"
      BY <2>4 DEF AcquireReturn, OneOccupant, Fetching
    <3> QED
      BY <2>4, <3>1 DEF AcquireReturn, Goto
  <2> QED
    BY <2>1, <2>2, <2>3, <2>4 DEF AcquireReturn
<1>a. ASSUME NEW c \in Client, retry[c]
      PROVE  retry'[c] \/ (c = ClientOf[t] /\ pc'[t] = "acquire_rpc")
  <2>1. CASE AwaitRetry(t)
    <3>1. CASE c = ClientOf[t]
      BY <1>a, <2>1, <3>1 DEF AwaitRetry, Goto
    <3>2. CASE c # ClientOf[t]
      BY <1>a, <2>1, <3>2 DEF AwaitRetry
    <3> QED
      BY <3>1, <3>2
  <2>2. CASE retry' = retry
    BY <1>a, <2>2
  <2> QED
    BY <2>1, <2>2 DEF AcquireReturn, RetryWoken, SpuriousWakeup, cacheVars
<1>1. RevokesAreDue'
  BY <1>0 DEF RevokesAreDue, serverVars, CallsAreWellFormed
<1>2. FlagsAreDue'
  BY <1>0 DEF FlagsAreDue, serverVars
<1>3. ReturnsAreDue'
  BY <1>0 DEF ReturnsAreDue, serverVars
<1>4. HolderIsAskedBack'
  BY <1>0 DEF HolderIsAskedBack, Releasing, serverVars
<1>5. HandOverGoesOn'
  <2>1. SUFFICES ASSUME status = "WAITING", clientId = NoClient
                 PROVE  HandOverGoesOn'
    BY <1>0 DEF HandOverGoesOn, serverVars
  <2>2. \A c \in Client : retry[c] => c \in clientS
    BY HeadIsWaiting DEF OneToken, ReturnedFor
  <2> QED
    BY <1>0, <1>a, <2>1, <2>2 DEF HandOverGoesOn, AsksAgain, serverVars
<1> QED
  BY <1>1, <1>2, <1>3, <1>4, <1>5

LEMMA ReleaseKeepsRevokes ==
  ASSUME IInv, RInv, NEW t \in Thread, Release(t)
  PROVE  RInv'
<1> DEFINE c == ClientOf[t]
<1> USE ClientOfType, NoClientIsNone DEF IInv, TypeOK, RInv
<1>0. /\ c \in Client /\ pc[t] = "critical" /\ clientId = c
      /\ \A u \in Thread : releaser[u] # c
      /\ UNCHANGED <<serverVars, retry, callee>>
  <2>1. /\ c \in Client /\ pc[t] = "critical" /\ clientId = c
        /\ UNCHANGED <<serverVars, retry, callee>>
    BY DEF Release, ReleaseToServer, ReleaseToCache, HoldersAreOnRecord
  <2>2. ASSUME NEW u \in Thread, releaser[u] = c PROVE FALSE
    <3>1. pc[u] \in Releasing
      BY <2>1, <2>2 DEF CallsAreWellFormed
    <3>2. Occupies(t)
      BY <2>1 DEF Occupies
    <3> QED
      BY <2>1, <2>2, <3>1, <3>2, ReleaserAlone DEF Releasing
  <2> QED
    BY <2>1, <2>2
<1>1. CASE ReleaseToServer(t)
  <2>0. /\ revoke[c] \/ cacheStatus[c] = "RELEASING"
        /\ revoke' = [revoke EXCEPT ![c] = FALSE]
        /\ releaser' = [releaser EXCEPT ![t] = c]
        /\ pc' = [pc EXCEPT ![t] = "dorelease"]
        /\ UNCHANGED <<cacheStatus, reply>>
    BY <1>1 DEF ReleaseToServer, Goto
  <2>1. status = "WAITING"
    BY <1>0, <2>0 DEF FlagsAreDue, ReturnsAreDue
  <2>2. \A u \in Thread : pc[u] # "revoke_rpc"
    BY <1>0, <2>0 DEF RevokesAreDue
  <2>3. RevokesAreDue'
    BY <2>0, <2>2 DEF RevokesAreDue
  <2>4. FlagsAreDue'
    BY <1>0, <2>0 DEF FlagsAreDue, serverVars
  <2>5. ReturnsAreDue'
    BY <1>0, <2>0, <2>1 DEF ReturnsAreDue, serverVars
  <2>6. HolderIsAskedBack'
    BY <1>0, <2>0 DEF HolderIsAskedBack, Releasing, serverVars
  <2>7. HandOverGoesOn'
    BY <1>0, <2>0 DEF HandOverGoesOn, serverVars
  <2> QED
    BY <2>3, <2>4, <2>5, <2>6, <2>7
<1>2. CASE ReleaseToCache(t)
  <2>0. /\ ~revoke[c] /\ cacheStatus[c] # "RELEASING"
        /\ UNCHANGED <<revoke, reply, releaser>>
        /\ cacheStatus[c] = "LOCKED"
        /\ cacheStatus' = [cacheStatus EXCEPT ![c] = "FREE"]
        /\ SignalAndGoto(c, "cond_wait", "cond_woken", t, "idle")
    BY <1>2, <1>0 DEF ReleaseToCache, OneOccupant, Using
  <2>1. /\ pc'[t] = "idle"
        /\ \A u \in Thread \ {t} : \/ pc'[u] = pc[u]
                                   \/ pc[u] = "cond_wait" /\ pc'[u] = "cond_woken"
    BY <2>0, <1>0, SignalKeepsPlaces DEF Occupies, PC
  <2>2. RevokesAreDue'
    BY <1>0, <2>0, <2>1 DEF RevokesAreDue, serverVars
  <2>3. FlagsAreDue'
    BY <1>0, <2>0 DEF FlagsAreDue, serverVars
  <2>4. ReturnsAreDue'
    BY <1>0, <2>0, <2>1 DEF ReturnsAreDue, serverVars
  <2>5. HolderIsAskedBack'
    BY <1>0, <2>0, <2>1 DEF HolderIsAskedBack, Releasing, serverVars
  <2>6. HandOverGoesOn'
    BY <1>0, <2>0, <2>1 DEF HandOverGoesOn, AsksAgain, serverVars
  <2> QED
    BY <2>2, <2>3, <2>4, <2>5, <2>6
<1> QED
  BY <1>1, <1>2 DEF Release

\* Before and after the release RPC.
LEMMA ReturnLockKeepsRevokes ==
  ASSUME IInv, RInv, NEW t \in Thread, DoRelease(t) \/ ReleaseReturn(t)
  PROVE  RInv'
<1> USE ClientOfType, NoClientIsNone DEF IInv, TypeOK, RInv
<1>1. CASE DoRelease(t)
  <2>0. /\ pc[t] = "dorelease"
        /\ pc' = [pc EXCEPT ![t] = "release_rpc"]
        /\ UNCHANGED <<serverVars, cacheVars, reply, releaser, callee>>
    BY <1>1 DEF DoRelease, Goto
  <2>1. RevokesAreDue' /\ FlagsAreDue' /\ ReturnsAreDue'
    BY <2>0 DEF RevokesAreDue, FlagsAreDue, ReturnsAreDue, serverVars, cacheVars
  <2>2. HolderIsAskedBack' /\ HandOverGoesOn'
    BY <2>0 DEF HolderIsAskedBack, HandOverGoesOn, AsksAgain, Releasing, serverVars, cacheVars
  <2> QED
    BY <2>1, <2>2
<1>2. CASE ReleaseReturn(t)
  <2> DEFINE c == releaser[t]
  <2>0. /\ pc[t] = "release_ret" /\ c \in Client /\ clientId # c
        /\ cacheStatus' = [cacheStatus EXCEPT ![c] = "NONE"]
        /\ releaser' = [releaser EXCEPT ![t] = NoClient]
        /\ UNCHANGED <<serverVars, revoke, retry, reply, callee>>
    BY <1>2 DEF ReleaseReturn, CallsAreWellFormed, OffRecord, Releasing
  <2>1. /\ pc'[t] \in {"idle", "acquire_ret"}
        /\ \A u \in Thread \ {t} : \/ pc'[u] = pc[u]
                                   \/ pc[u] = "cond_wait" /\ pc'[u] = "cond_woken"
    <3> DEFINE l == IF reply[t] = NoReply THEN "idle" ELSE "acquire_ret"
    <3>1. l \in PC /\ l \in {"idle", "acquire_ret"} /\ Occupies(t)
      BY <2>0 DEF Occupies, PC
    <3>2. SignalAndGoto(c, "cond_wait", "cond_woken", t, l)
      BY <1>2 DEF ReleaseReturn
    <3> HIDE DEF l
    <3> QED
      BY <3>1, <3>2, SignalKeepsPlaces
  <2>2. RevokesAreDue'
    <3>1. SUFFICES ASSUME NEW u \in Thread, pc'[u] = "revoke_rpc"
                   PROVE  /\ callee[u] = clientId
                          /\ status = "WAITING"
                          /\ ~revoke[clientId]
                          /\ cacheStatus'[clientId] \in {"ACQUIRING", "LOCKED", "FREE"}
                          /\ \A w \in Thread : releaser'[w] # clientId
                          /\ \A w \in Thread : pc'[w] = "revoke_rpc" => w = u
      BY <2>0 DEF RevokesAreDue, serverVars
    <3>2. pc[u] = "revoke_rpc" /\ clientId \in Client
      BY <2>1, <3>1 DEF RevokesAreDue, CallsAreWellFormed
    <3> QED
      BY <2>0, <2>1, <3>1, <3>2 DEF RevokesAreDue
  <2>3. FlagsAreDue' /\ ReturnsAreDue'
    BY <2>0, <2>1 DEF FlagsAreDue, ReturnsAreDue, serverVars
  <2>4. HolderIsAskedBack'
    BY <2>0, <2>1 DEF HolderIsAskedBack, Releasing, serverVars
  <2>5. HandOverGoesOn'
    BY <2>0, <2>1 DEF HandOverGoesOn, AsksAgain, serverVars
  <2> QED
    BY <2>2, <2>3, <2>4, <2>5
<1> QED
  BY <1>1, <1>2

-----------------------------------------------------------------------------
\* In the server.
LEMMA ServerAcquireKeepsRevokes ==
  ASSUME IInv, RInv, NEW t \in Thread, ServerAcquire(t)
  PROVE  RInv'
<1> DEFINE c == ClientOf[t]
<1> USE ClientOfType, NoClientIsNone DEF IInv, TypeOK, RInv
<1>0. /\ pc[t] = "acquire_rpc" /\ c \in Client
      /\ cacheStatus[c] = "ACQUIRING"
      /\ \A u \in Thread : releaser[u] # c
      /\ UNCHANGED <<cacheVars, releaser>>
  <2>1. pc[t] = "acquire_rpc" /\ c \in Client /\ UNCHANGED <<cacheVars, releaser>>
    BY DEF ServerAcquire, AcquireFree, AcquireLocked, AcquireFront, AcquireWaiting
  <2>2. cacheStatus[c] = "ACQUIRING" /\ Occupies(t)
    BY <2>1 DEF OneOccupant, Fetching, Occupies
  <2>3. ASSUME NEW u \in Thread, releaser[u] = c PROVE FALSE
    <3>1. pc[u] \in Releasing
      BY <2>1, <2>3 DEF CallsAreWellFormed
    <3> QED
      BY <2>1, <2>2, <2>3, <3>1, ReleaserAlone DEF Releasing
  <2> QED
    BY <2>1, <2>2, <2>3
<1>1. CASE AcquireFree(t)
  <2>0. /\ status = "FREE" /\ status' = "LOCKED" /\ clientId' = c
        /\ pc' = [pc EXCEPT ![t] = "acquire_ret"]
        /\ UNCHANGED callee
    BY <1>1 DEF AcquireFree, Return, Goto
  <2>1. RevokesAreDue' /\ FlagsAreDue'
    BY <1>0, <2>0 DEF RevokesAreDue, FlagsAreDue, cacheVars
  <2>2. ReturnsAreDue'
    BY <1>0, <2>0 DEF ReturnsAreDue, cacheVars
  <2>3. HolderIsAskedBack' /\ HandOverGoesOn'
    BY <2>0 DEF HolderIsAskedBack, HandOverGoesOn
  <2> QED
    BY <2>1, <2>2, <2>3
<1>2. CASE AcquireLocked(t)
  <2>0. /\ status = "LOCKED" /\ status' = "WAITING" /\ clientId' = clientId
        /\ pc' = [pc EXCEPT ![t] = "revoke_rpc"]
        /\ callee' = [callee EXCEPT ![t] = clientId]
    BY <1>2 DEF AcquireLocked, RevokeThenReturn, Goto
  <2>1. clientId \in Client
    BY <2>0 DEF Queue
  <2>2. /\ ~revoke[clientId]
        /\ cacheStatus[clientId] \in {"ACQUIRING", "LOCKED", "FREE"}
    BY <2>0, <2>1 DEF FlagsAreDue, ReturnsAreDue, OffRecord, CacheStatus
  <2>3. \A u \in Thread : releaser[u] # clientId
    BY <2>0, <2>1 DEF ReturnsAreDue, OffRecord, CallsAreWellFormed, Releasing
  <2>4. \A u \in Thread : pc[u] # "revoke_rpc"
    BY <2>0 DEF RevokesAreDue
  <2>5. RevokesAreDue'
    BY <1>0, <2>0, <2>2, <2>3, <2>4 DEF RevokesAreDue, cacheVars
  <2>6. FlagsAreDue' /\ ReturnsAreDue'
    BY <1>0, <2>0 DEF FlagsAreDue, ReturnsAreDue, cacheVars
  <2>7. HolderIsAskedBack' /\ HandOverGoesOn'
    BY <2>0, <2>1 DEF HolderIsAskedBack, HandOverGoesOn
  <2> QED
    BY <2>5, <2>6, <2>7
<1>3. CASE AcquireFront(t)
  <2>0. /\ status = "WAITING" /\ clientId' = c /\ Head(clientQ) = c
        /\ \/ /\ status' = "LOCKED"
              /\ pc' = [pc EXCEPT ![t] = "acquire_ret"] /\ UNCHANGED callee
           \/ /\ status' = "WAITING"
              /\ pc' = [pc EXCEPT ![t] = "revoke_rpc"]
              /\ callee' = [callee EXCEPT ![t] = c]
    BY <1>3 DEF AcquireFront, Return, RevokeThenReturn, Goto
  <2>1. clientId = NoClient
    BY <1>0, <2>0, HeadIsWaiting DEF OneToken, AsksAgain, ReturnedFor
  <2>2. /\ \A d \in Client : ~revoke[d]
        /\ \A u \in Thread : pc[u] \notin {"revoke_rpc", "dorelease", "release_rpc"}
    BY <2>1 DEF FlagsAreDue, RevokesAreDue, CallsAreWellFormed, HoldersAreOnRecord, Releasing
  <2>3. RevokesAreDue'
    BY <1>0, <2>0, <2>2 DEF RevokesAreDue, cacheVars
  <2>4. FlagsAreDue' /\ ReturnsAreDue'
    BY <1>0, <2>0, <2>2 DEF FlagsAreDue, ReturnsAreDue, cacheVars
  <2>5. HolderIsAskedBack' /\ HandOverGoesOn'
    BY <1>0, <2>0 DEF HolderIsAskedBack, HandOverGoesOn
  <2> QED
    BY <2>3, <2>4, <2>5
<1>4. CASE AcquireWaiting(t)
  <2>0. /\ status = "WAITING" /\ Head(clientQ) # c
        /\ pc' = [pc EXCEPT ![t] = "acquire_ret"]
        /\ clientS \subseteq clientS'
        /\ UNCHANGED <<status, clientId, callee>>
    BY <1>4 DEF AcquireWaiting, Return, Goto
  <2>1. ~AsksAgain(t)
    BY <2>0 DEF OneToken, ReturnedFor
  <2>2. RevokesAreDue' /\ FlagsAreDue' /\ ReturnsAreDue'
    BY <1>0, <2>0 DEF RevokesAreDue, FlagsAreDue, ReturnsAreDue, cacheVars
  <2>3. HolderIsAskedBack'
    BY <1>0, <2>0 DEF HolderIsAskedBack, Releasing, cacheVars
  <2>4. HandOverGoesOn'
    BY <1>0, <2>0, <2>1 DEF HandOverGoesOn, AsksAgain, cacheVars
  <2> QED
    BY <2>2, <2>3, <2>4
<1> QED
  BY <1>1, <1>2, <1>3, <1>4 DEF ServerAcquire

\* The lock comes back only when somebody waits, who is told.
LEMMA ServerReleaseKeepsRevokes ==
  ASSUME IInv, RInv, NEW t \in Thread, ServerRelease(t)
  PROVE  RInv' /\ status' # "FREE"
<1> DEFINE c == releaser[t]
<1> USE ClientOfType, NoClientIsNone DEF IInv, TypeOK, RInv
<1>0. /\ pc[t] = "release_rpc" /\ c \in Client /\ clientId = c /\ status = "WAITING"
      /\ \A u \in Thread \ {t} : releaser[u] # c
  <2>1. pc[t] = "release_rpc"
    BY DEF ServerRelease
  <2>2. pc[t] \in Releasing
    BY <2>1 DEF Releasing
  <2> QED
    BY <2>1, <2>2, ReleaserAlone DEF HoldersAreOnRecord, ReturnsAreDue
<1>1. /\ status' = status /\ clientId' = NoClient
      /\ callee' = [callee EXCEPT ![t] = Head(clientQ)]
      /\ pc' = [pc EXCEPT ![t] = "retry_rpc"]
      /\ UNCHANGED <<clientQ, clientS, cacheVars, reply, releaser>>
  BY <1>0 DEF ServerRelease, Goto
<1>2. /\ \A d \in Client : ~revoke[d]
      /\ \A u \in Thread : pc[u] # "revoke_rpc"
  BY <1>0 DEF FlagsAreDue, RevokesAreDue
<1>3. RevokesAreDue' /\ FlagsAreDue'
  BY <1>1, <1>2 DEF RevokesAreDue, FlagsAreDue, cacheVars
<1>4. ReturnsAreDue'
  BY <1>0, <1>1 DEF ReturnsAreDue, cacheVars
<1>5. HolderIsAskedBack' /\ HandOverGoesOn'
  BY <1>1 DEF HolderIsAskedBack, HandOverGoesOn
<1> QED
  BY <1>0, <1>1, <1>3, <1>4, <1>5

-----------------------------------------------------------------------------
\* In the handlers of the callbacks.
LEMMA RevokeHandlerKeepsRevokes ==
  ASSUME IInv, RInv, NEW t \in Thread, RevokeHandler(t)
  PROVE  RInv'
<1> DEFINE c == callee[t]
<1> USE ClientOfType, NoClientIsNone DEF IInv, TypeOK, RInv
<1>0. /\ pc[t] = "revoke_rpc" /\ c = clientId /\ c \in Client
      /\ status = "WAITING" /\ ~revoke[c]
      /\ \A u \in Thread : releaser[u] # c
      /\ \A u \in Thread : pc[u] = "revoke_rpc" => u = t
      /\ \A d \in Client : ~revoke[d]
      /\ UNCHANGED <<serverVars, retry, reply>>
  BY DEF RevokeHandler, RevokesAreDue, CallsAreWellFormed, FlagsAreDue
<1>1. \/ /\ cacheStatus[c] = "ACQUIRING"
         /\ revoke' = [revoke EXCEPT ![c] = TRUE]
         /\ pc' = [pc EXCEPT ![t] = "acquire_ret"]
         /\ UNCHANGED <<cacheStatus, releaser>>
      \/ /\ cacheStatus[c] = "LOCKED"
         /\ cacheStatus' = [cacheStatus EXCEPT ![c] = "RELEASING"]
         /\ pc' = [pc EXCEPT ![t] = "acquire_ret"]
         /\ UNCHANGED <<revoke, releaser>>
      \/ /\ cacheStatus[c] = "FREE"
         /\ cacheStatus' = [cacheStatus EXCEPT ![c] = "RELEASING"]
         /\ releaser' = [releaser EXCEPT ![t] = c]
         /\ pc' = [pc EXCEPT ![t] = "dorelease"]
         /\ UNCHANGED revoke
  BY <1>0 DEF RevokeHandler, RevokesAreDue, Goto
<1>2. RevokesAreDue'
  BY <1>0, <1>1 DEF RevokesAreDue
<1>3. FlagsAreDue' /\ ReturnsAreDue'
  BY <1>0, <1>1 DEF FlagsAreDue, ReturnsAreDue, serverVars
<1>4. HolderIsAskedBack'
  BY <1>0, <1>1 DEF HolderIsAskedBack, Releasing, serverVars
<1>5. HandOverGoesOn'
  BY <1>0 DEF HandOverGoesOn, serverVars
<1> QED
  BY <1>2, <1>3, <1>4, <1>5

LEMMA RetryHandlerKeepsRevokes ==
  ASSUME IInv, RInv, NEW t \in Thread, RetryHandler(t)
  PROVE  RInv'
<1> USE ClientOfType, NoClientIsNone DEF IInv, TypeOK, RInv
<1>0. /\ pc[t] = "retry_rpc" /\ callee[t] \in Client
      /\ retry' = [retry EXCEPT ![callee[t]] = TRUE]
      /\ UNCHANGED <<serverVars, cacheStatus, revoke, reply, releaser>>
      /\ callee' = [callee EXCEPT ![t] = NoClient]
  BY DEF RetryHandler, CallsAreWellFormed
<1>1. /\ pc'[t] = "release_ret"
      /\ \A u \in Thread \ {t} : \/ pc'[u] = pc[u]
                                 \/ pc[u] = "retry_wait" /\ pc'[u] = "retry_woken"
  BY <1>0, RetrySignalKeepsPlaces DEF RetryHandler
<1>2. RevokesAreDue'
  BY <1>0, <1>1 DEF RevokesAreDue, serverVars
<1>3. FlagsAreDue' /\ ReturnsAreDue'
  BY <1>0, <1>1 DEF FlagsAreDue, ReturnsAreDue, serverVars
<1>4. HolderIsAskedBack'
  BY <1>0, <1>1 DEF HolderIsAskedBack, Releasing, serverVars
<1>5. HandOverGoesOn'
  BY <1>0 DEF HandOverGoesOn, serverVars
<1> QED
  BY <1>2, <1>3, <1>4, <1>5

-----------------------------------------------------------------------------
\* The invariants of the service that speak of revokes and retries.
LEMMA InitEstablishesRevokes == Init => RInv
BY DEF Init, RInv, RevokesAreDue, FlagsAreDue, ReturnsAreDue, HolderIsAskedBack, HandOverGoesOn

LEMMA StepKeepsRevokes ==
  ASSUME IInv, RInv, NEW t \in Thread, Step(t)
  PROVE  RInv' /\ (status' = "FREE" => status = "FREE")
<1>1. CASE StartAcquire(t) \/ Release(t) \/ SpuriousWakeup(t)
  <2>1. status' = status
    BY <1>1 DEF StartAcquire, AcquireNone, AcquireCached, AcquireBusy, Release, ReleaseToServer,
                ReleaseToCache, SpuriousWakeup, serverVars
  <2> QED
    BY <1>1, <2>1, StartAcquireKeepsRevokes, ReleaseKeepsRevokes, ReturnKeepsRevokes
<1>2. CASE ServerAcquire(t)
  <2>1. status' = "FREE" => status = "FREE"
    BY <1>2 DEF ServerAcquire, AcquireFree, AcquireLocked, AcquireFront, AcquireWaiting
  <2> QED
    BY <1>2, <2>1, ServerAcquireKeepsRevokes
<1>3. CASE ServerRelease(t)
  BY <1>3, ServerReleaseKeepsRevokes
<1>4. CASE RevokeHandler(t) \/ RetryHandler(t)
  <2>1. status' = status
    BY <1>4 DEF RevokeHandler, RetryHandler, serverVars
  <2> QED
    BY <1>4, <2>1, RevokeHandlerKeepsRevokes, RetryHandlerKeepsRevokes
<1>5. CASE AcquireReturn(t) \/ RetryWoken(t) \/ ReleaseReturn(t) \/ DoRelease(t)
  <2>1. status' = status
    BY <1>5 DEF AcquireReturn, RetryWoken, ReleaseReturn, DoRelease, serverVars
  <2> QED
    BY <1>5, <2>1, ReturnKeepsRevokes, ReturnLockKeepsRevokes
<1> QED
  BY <1>1, <1>2, <1>3, <1>4, <1>5 DEF Step, Handle, CallStep

LEMMA NextKeepsRevokes ==
  IInv /\ RInv /\ [Next]_vars => RInv' /\ (status' = "FREE" => status = "FREE")
<1> SUFFICES ASSUME IInv, RInv, [Next]_vars
             PROVE  RInv' /\ (status' = "FREE" => status = "FREE")
  OBVIOUS
<1>1. CASE UNCHANGED vars
  <2> USE <1>1 DEF vars, serverVars, cacheVars, callVars, RInv
  <2>1. RevokesAreDue' /\ FlagsAreDue' /\ ReturnsAreDue'
    BY DEF RevokesAreDue, FlagsAreDue, ReturnsAreDue
  <2>2. HolderIsAskedBack' /\ HandOverGoesOn'
    BY DEF HolderIsAskedBack, HandOverGoesOn, AsksAgain
  <2> QED
    BY <2>1, <2>2
<1> QED
  BY <1>1, StepKeepsRevokes DEF Next

\* Revokes and retries are as RInv says in every reachable state.
THEOREM RevokeInvariance == Spec => [](IInv /\ RInv)
BY InitEstablishes, NextKeeps, InitEstablishesRevokes, NextKeepsRevokes, PTL DEF Spec

\* No revoke comes to a client that does not have the lock, or that has been told.
THEOREM RevokesFindHolders == Spec => []RevokeFindsHolder
<1>1. RInv => RevokeFindsHolder
  BY DEF RInv, RevokesAreDue, RevokeFindsHolder
<1> QED
  BY <1>1, RevokeInvariance, PTL

\* No client waits for a lock that nobody has asked its holder for.
THEOREM HoldersAreAsked == Spec => []HolderIsAskedBack
<1>1. RInv => HolderIsAskedBack
  BY DEF RInv
<1> QED
  BY <1>1, RevokeInvariance, PTL

\* A client gives the lock up only when another one waits for it.
THEOREM ReturnsAreOnDemand == Spec => ReturnedOnlyOnDemand
<1>1. IInv /\ RInv /\ [Next]_vars => [status' = "FREE" => status = "FREE"]_vars
  BY NextKeepsRevokes
<1> QED
  BY <1>1, RevokeInvariance, PTL DEF Spec, ReturnedOnlyOnDemand

\* Queue and set of waiters agree, and whoever is in them has a thread that asks.
THEOREM QueueIsConsistent == Spec => []WaitersAreConsistent
<1>1. ASSUME IInv PROVE WaitersAreConsistent
  <2> USE <1>1 DEF IInv, TypeOK
  <2>1. /\ clientQ \in Seq(Client) /\ Len(clientQ) \in Nat
        /\ DOMAIN clientQ = 1 .. Len(clientQ)
        /\ \A i \in 1 .. Len(clientQ) : clientQ[i] \in Client
    BY LenProperties, ElementOfSeq
  <2>2. clientS = {clientQ[i] : i \in DOMAIN clientQ}
    BY <2>1 DEF Queue
  <2>3. Cardinality(clientS) = Len(clientQ)
    <3>1. clientQ \in Bijection(1 .. Len(clientQ), clientS)
      <4>1. clientQ \in [1 .. Len(clientQ) -> clientS]
        BY <2>1, <2>2
      <4> QED
        BY <4>1, <2>1, <2>2 DEF Queue, Bijection, Injection, Surjection, IsInjective
    <3>2. IsFiniteSet(1 .. Len(clientQ)) /\ Cardinality(1 .. Len(clientQ)) = Len(clientQ)
      BY <2>1, FS_Interval
    <3> HIDE <1>1 DEF IInv, TypeOK
    <3> QED
      BY <3>1, <3>2, FS_Bijection DEF ExistsBijection
  <2>4. status = "WAITING" <=> clientS # {}
    <3>1. clientQ # <<>> <=> 1 .. Len(clientQ) # {}
      <4>1. CASE clientQ = <<>>
        BY <4>1, <2>1, EmptySeq
      <4>2. CASE clientQ # <<>>
        <5>1. Len(clientQ) \in Nat \ {0}
          BY <4>2, <2>1, EmptySeq
        <5>2. 1 \in 1 .. Len(clientQ)
          BY <5>1
        <5> QED
          BY <4>2, <5>2
      <4> QED
        BY <4>1, <4>2
    <3> QED
      BY <2>1, <2>2, <3>1 DEF Queue
  <2>5. ASSUME NEW c \in clientS
        PROVE  /\ cacheStatus[c] = "ACQUIRING"
               /\ \E t \in Thread : ClientOf[t] = c /\ pc[t] \notin
                                     {"idle", "cond_wait", "cond_woken", "critical"}
    BY DEF Queue, OneOccupant, Fetching, Releasing
  <2> QED
    BY <2>2, <2>3, <2>4, <2>5 DEF WaitersAreConsistent, Queue
<1> QED
  BY <1>1, Invariance, PTL

\* A returned lock is announced to the first who waits: by one call, one flag or one
\* request that goes out again, and never when there is nothing to announce.
THEOREM RetriesAreSingle == Spec => []OneRetryPerHandOver
<1> DEFINE sent    == {t \in Thread : pc[t] = "retry_rpc"}
           flagged == {c \in Client : retry[c]}
           asking  == {t \in Thread : pc[t] = "acquire_rpc" /\ ClientOf[t] \in clientS}
           told    == {callee[t] : t \in sent} \cup flagged \cup {ClientOf[t] : t \in asking}
           front   == Head(clientQ)
<1>1. ASSUME IInv, RInv PROVE OneRetryPerHandOver
  <2> USE ClientOfType, <1>1 DEF IInv
  <2>1. /\ \A t \in sent : ReturnedFor(callee[t]) /\ flagged = {} /\ asking = {} /\ sent = {t}
        /\ \A c \in flagged : ReturnedFor(c) /\ asking = {}
        /\ \A t \in asking : ReturnedFor(ClientOf[t])
    BY DEF OneToken, AsksAgain, TypeOK
  <2>2. CASE status = "WAITING" /\ clientId = NoClient
    <3>1. sent # {} \/ flagged # {} \/ asking # {}
      BY <2>2 DEF RInv, HandOverGoesOn, AsksAgain
    <3>2. CASE sent # {}
      <4>1. PICK t \in sent : sent = {t} /\ callee[t] = front /\ flagged = {} /\ asking = {}
        BY <2>1, <3>2 DEF ReturnedFor
      <4>2. Cardinality(sent) = 1 /\ Cardinality(flagged) = 0 /\ Cardinality(asking) = 0
        BY <4>1, FS_Singleton, FS_EmptySet
      <4>3. told = {front}
        BY <4>1
      <4> QED
        BY <2>2, <4>2, <4>3 DEF OneRetryPerHandOver
    <3>3. CASE sent = {} /\ flagged # {}
      <4>1. flagged = {front} /\ asking = {}
        BY <2>1, <3>3 DEF ReturnedFor
      <4>2. Cardinality(sent) = 0 /\ Cardinality(flagged) = 1 /\ Cardinality(asking) = 0
        BY <4>1, <3>3, FS_Singleton, FS_EmptySet
      <4>3. told = {front}
        BY <4>1, <3>3
      <4> QED
        BY <2>2, <4>2, <4>3 DEF OneRetryPerHandOver
    <3>4. CASE sent = {} /\ flagged = {}
      <4>1. PICK t \in asking : ClientOf[t] = front
        BY <2>1, <3>1, <3>4 DEF ReturnedFor
      <4>2. \A u \in asking : ClientOf[u] = front /\ Occupies(u)
        BY <2>1 DEF ReturnedFor, Occupies
      <4>3. asking = {t}
        BY <4>1, <4>2 DEF OneOccupant
      <4>4. Cardinality(sent) = 0 /\ Cardinality(flagged) = 0 /\ Cardinality(asking) = 1
        BY <3>4, <4>3, FS_Singleton, FS_EmptySet
      <4>5. told = {front}
        BY <3>4, <4>1, <4>3
      <4> QED
        BY <2>2, <4>4, <4>5 DEF OneRetryPerHandOver
    <3> QED
      BY <3>1, <3>2, <3>3, <3>4
  <2>3. CASE ~(status = "WAITING" /\ clientId = NoClient)
    <3>1. sent = {} /\ flagged = {} /\ asking = {}
      BY <2>1, <2>3 DEF ReturnedFor
    <3>2. told = {}
      BY <3>1
    <3> QED
      BY <2>3, <3>2 DEF OneRetryPerHandOver
  <2> QED
    BY <2>2, <2>3
<1> QED
  BY <1>1, RevokeInvariance, PTL

=============================================================================

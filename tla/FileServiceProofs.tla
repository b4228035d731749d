-------------------------- MODULE FileServiceProofs --------------------------
(***************************************************************************)
(* Coherence of the extent caches, for any number of clients and threads,  *)
(* any requests and any data: what requests work on is what the file holds.*)
(***************************************************************************)
EXTENDS FileInvariant, LockServiceProofs

\* Every step of a file is a step of its lock, or leaves the lock alone.
LEMMA FileStepIsLockStep ==
  ASSUME NEW t \in Thread, FileStep(t)
  PROVE  Step(t) \/ UNCHANGED vars
BY DEF FileStep, Start, Acquire, Serve, IsFile, GetattrStep, GetStep, PutStep, FlushStep,
       Unlock, ReturnLock, LockStep, Step, Handle

\* The lock service is used as it is specified.
THEOREM UsesLockService == FileSpec => Spec
<1>1. FileInit => Init
  BY DEF FileInit
<1>2. [FileNext]_<<vars, fileVars>> => [Next]_vars
  BY FileStepIsLockStep DEF FileNext, Next
<1> QED
  BY <1>1, <1>2, PTL DEF FileSpec, Spec

-----------------------------------------------------------------------------
\* What the steps of the lock service leave alone.

\* A thread that is not waiting is not moved by the signal of another.
LEMMA SignalsReachWaiters ==
  ASSUME IInv, NEW t \in Thread, ReleaseReturn(t) \/ RetryHandler(t),
         NEW u \in Thread \ {t}, pc[u] \notin {"cond_wait", "retry_wait"}
  PROVE  pc'[u] = pc[u]
<1>1. TypeOK
  BY DEF IInv
<1>2. CASE ReleaseReturn(t)
  BY <1>1, <1>2, SignalKeepsPlaces DEF ReleaseReturn, Occupies, PC
<1>3. CASE RetryHandler(t)
  BY <1>1, <1>3, RetrySignalKeepsPlaces DEF RetryHandler
<1> QED
  BY <1>2, <1>3

\* A thread between acquire and release stays there until it calls release.
LEMMA CriticalStays ==
  ASSUME IInv, NEW t \in Thread, StartAcquire(t) \/ CallStep(t) \/ SpuriousWakeup(t),
         NEW u \in Thread, pc[u] = "critical"
  PROVE  pc'[u] = "critical"
<1> USE DEF IInv, TypeOK, Goto
<1>1. CASE StartAcquire(t)
  BY <1>1 DEF StartAcquire, AcquireNone, AcquireCached, AcquireBusy
<1>2. CASE ServerAcquire(t)
  BY <1>2 DEF ServerAcquire, AcquireFree, AcquireLocked, AcquireFront, AcquireWaiting,
              Return, RevokeThenReturn
<1>3. CASE ServerRelease(t)
  BY <1>3 DEF ServerRelease
<1>4. CASE RevokeHandler(t)
  BY <1>4 DEF RevokeHandler
<1>5. CASE AcquireReturn(t) \/ RetryWoken(t) \/ SpuriousWakeup(t)
  BY <1>5 DEF AcquireReturn, RetryWoken, AwaitRetry, SpuriousWakeup
<1>6. CASE RetryHandler(t) \/ ReleaseReturn(t)
  BY <1>6, SignalsReachWaiters DEF RetryHandler, ReleaseReturn
<1> QED
  BY <1>1, <1>2, <1>3, <1>4, <1>5, <1>6 DEF CallStep

\* The other threads are not touched by a release either.
LEMMA OthersStay ==
  ASSUME IInv, NEW t \in Thread, Release(t), NEW u \in Thread \ {t}, pc[u] = "critical"
  PROVE  pc'[u] = "critical"
<1> USE DEF IInv, TypeOK, Goto
<1>1. CASE ReleaseToServer(t)
  BY <1>1 DEF ReleaseToServer
<1>2. CASE ReleaseToCache(t)
  BY <1>2, SignalMoves DEF ReleaseToCache, PC
<1> QED
  BY <1>1, <1>2 DEF Release

\* A covered client stays covered but for its dorelease: the lock is taken off the
\* record of a client only by its own release RPC.
LEMMA CoverStays ==
  ASSUME IInv, NEW t \in Thread,
         StartAcquire(t) \/ Release(t) \/ CallStep(t) \/ SpuriousWakeup(t),
         NEW c \in Client, Covered(c)
  PROVE  Covered(c)'
<1> USE ClientOfType, NoClientIsNone DEF IInv, TypeOK, Goto, Covered
<1>1. CASE StartAcquire(t)
  BY <1>1 DEF StartAcquire, AcquireNone, AcquireCached, AcquireBusy, serverVars,
              CallsAreWellFormed, Releasing
<1>2. CASE ReleaseToServer(t)
  BY <1>2 DEF ReleaseToServer, serverVars
<1>3. CASE ReleaseToCache(t)
  <2>1. \A u \in Thread : pc[u] = "dorelease" => pc'[u] = "dorelease"
    BY <1>3, SignalMoves DEF ReleaseToCache, PC
  <2> QED
    BY <1>3, <2>1 DEF ReleaseToCache, serverVars
<1>4. CASE AcquireFree(t)
  BY <1>4 DEF AcquireFree, Queue
<1>5. CASE AcquireFront(t)
  <2>1. clientQ # <<>> /\ ClientOf[t] \in clientS
    <3>1. clientQ # <<>>
      BY <1>5 DEF AcquireFront, Queue
    <3>2. Head(clientQ) = clientQ[1] /\ 1 \in 1 .. Len(clientQ)
      BY <3>1
    <3> QED
      BY <1>5, <3>1, <3>2 DEF AcquireFront, Queue
  <2>2. ReturnedFor(ClientOf[t])
    BY <1>5, <2>1 DEF AcquireFront, OneToken, AsksAgain
  <2> QED
    BY <2>2 DEF ReturnedFor
<1>6. CASE AcquireLocked(t) \/ AcquireWaiting(t)
  BY <1>6 DEF AcquireLocked, AcquireWaiting, Return, RevokeThenReturn
<1>7. CASE ServerRelease(t)
  <2>1. releaser[t] # c
    BY <1>7 DEF ServerRelease
  <2> QED
    BY <1>7, <2>1 DEF ServerRelease
<1>8. CASE RevokeHandler(t)
  <2>1. ~(pc[t] \in Releasing)
    BY <1>8 DEF RevokeHandler, Releasing
  <2>2. releaser[t] = NoClient
    BY <2>1 DEF CallsAreWellFormed
  <2> QED
    BY <1>8, <2>2 DEF RevokeHandler, serverVars
<1>9. CASE RetryHandler(t)
  <2>1. \A u \in Thread : pc[u] = "dorelease" => pc'[u] = "dorelease"
    BY <1>9, SignalsReachWaiters DEF RetryHandler
  <2> QED
    BY <1>9, <2>1 DEF RetryHandler, serverVars
<1>10. CASE AcquireReturn(t) \/ RetryWoken(t) \/ SpuriousWakeup(t)
  BY <1>10 DEF AcquireReturn, RetryWoken, AwaitRetry, SpuriousWakeup, serverVars
<1>11. CASE ReleaseReturn(t)
  <2>1. \A u \in Thread : pc[u] = "dorelease" => pc'[u] = "dorelease"
    BY <1>11, SignalsReachWaiters DEF ReleaseReturn
  <2> QED
    BY <1>11, <2>1 DEF ReleaseReturn, serverVars
<1> QED
  BY <1>1, <1>2, <1>3, <1>4, <1>5, <1>6, <1>7, <1>8, <1>9, <1>10, <1>11
     DEF Release, CallStep, ServerAcquire

\* While a thread has the lock its client covers what it caches, and no other
\* thread has it.
LEMMA CriticalIsCovered ==
  ASSUME IInv, NEW t \in Thread, pc[t] = "critical"
  PROVE  /\ Covered(ClientOf[t])
         /\ \A u \in Thread : releaser[u] # ClientOf[t]
         /\ \A u \in Thread : pc[u] = "critical" => u = t
<1> USE ClientOfType, NoClientIsNone DEF IInv, TypeOK
<1>1. clientId = ClientOf[t] /\ Occupies(t)
  BY DEF HoldersAreOnRecord, Occupies
<1>2. \A u \in Thread : pc[u] = "critical" => u = t
  BY <1>1 DEF HoldersAreOnRecord, OneOccupant, Occupies
<1>3. ASSUME NEW u \in Thread, releaser[u] = ClientOf[t]
      PROVE  FALSE
  <2>1. pc[u] \in Releasing
    BY <1>3 DEF CallsAreWellFormed
  <2>2. CASE reply[u] = NoReply
    <3>1. ClientOf[u] = ClientOf[t] /\ Occupies(u)
      BY <1>3, <2>1, <2>2 DEF CallsAreWellFormed, Occupies, Releasing
    <3>2. u = t
      BY <1>1, <3>1 DEF OneOccupant
    <3> QED
      BY <2>1, <3>2 DEF Releasing
  <2>3. CASE reply[u] # NoReply
    BY <1>1, <1>3, <2>1, <2>3 DEF OneReleaser
  <2> QED
    BY <2>2, <2>3
<1> QED
  BY <1>1, <1>2, <1>3 DEF Covered

-----------------------------------------------------------------------------
\* What the file holds.

\* Only one client, the one on record, can have data that the server has not.
LEMMA ContentsIsView ==
  ASSUME FileInv
  PROVE  /\ \A c \in Client : Dirty(c) => Contents = cache[c].data
         /\ (\A c \in Client : ~Dirty(c)) => Contents = extent
<1>1. \A c, d \in Client : Dirty(c) /\ Dirty(d) => c = d
  BY DEF FileInv, HasData, Covered, Dirty
<1> QED
  BY <1>1 DEF Contents

\* The thread that has the lock finds it in its own cache or at the server.
LEMMA HolderSeesContents ==
  ASSUME IInv, FileInv, NEW t \in Thread, pc[t] = "critical"
  PROVE  Contents = IF Dirty(ClientOf[t]) THEN cache[ClientOf[t]].data ELSE extent
<1>1. clientId = ClientOf[t] /\ ClientOf[t] \in Client
  BY CriticalIsCovered, ClientOfType DEF Covered
<1>2. \A c \in Client : Dirty(c) => c = ClientOf[t]
  BY <1>1 DEF FileInv, HasData, Covered, Dirty
<1> QED
  BY <1>1, <1>2, ContentsIsView

\* The same in the state after a step.
LEMMA ContentsIsViewNext ==
  ASSUME \A c, d \in Client : Dirty(c)' /\ Dirty(d)' => c = d
  PROVE  /\ \A c \in Client : Dirty(c)' => Contents' = cache'[c].data
         /\ (\A c \in Client : ~Dirty(c)') => Contents' = extent'
BY DEF Contents, Dirty

\* A step that leaves the caches, the data and the requests alone.
LEMMA LockStepKeepsFile ==
  ASSUME IInv, FileInv, NEW t \in Thread,
         StartAcquire(t) \/ CallStep(t) \/ SpuriousWakeup(t), UNCHANGED fileVars
  PROVE  FileInv' /\ Contents' = Contents
<1>1. UNCHANGED <<extent, cache, buf, fetching, stage, req>>
  BY DEF fileVars, extentVars, requestVars
<1>2. Contents' = Contents
  BY <1>1 DEF Contents, Dirty
<1>3. \A c \in Client : HasData(c)' => Covered(c)'
  BY <1>1, CoverStays DEF FileInv, HasData
<1>4. \A u \in Thread : pc[u] = "critical" => pc'[u] = "critical"
  BY CriticalStays
<1>5. FileShape'
  BY <1>1 DEF FileInv, FileShape
<1> QED
  BY <1>1, <1>2, <1>3, <1>4, <1>5 DEF FileInv, HasContents

\* A step that looks up attributes, or none, and takes its request further.
LEMMA AttrStepKeepsFile ==
  ASSUME IInv, FileInv, NEW t \in Thread, UNCHANGED <<vars, extent, buf, fetching>>,
         Getattr(ClientOf[t]) \/ UNCHANGED cache,
         NEW s, stage' = [stage EXCEPT ![t] = s], s \notin {"put", "flush"},
         s = "release" => req[t].op = "stat" /\ pc[t] = "critical",
         ~fetching[t],
         \/ UNCHANGED req
         \/ s # "release" /\ \E r : req' = [req EXCEPT ![t] = r]
  PROVE  FileInv' /\ Contents' = Contents
<1> DEFINE e == ClientOf[t]
<1> USE ClientOfType DEF FileInv
<1>1. UNCHANGED <<pc, clientId, releaser>>
  BY DEF vars, serverVars, callVars
<1>2. \A c \in Client : \/ cache'[c] = cache[c]
                         \/ /\ c = e /\ cache[c] = Absent /\ MutexIsFree(e)
                            /\ cache'[c] = AttrOnly(Len(extent))
  BY DEF FileShape, Getattr, Store
<1>3. FileShape'
  BY DEF FileShape, Getattr, Store
<1>4. \A c \in Client : /\ HasData(c)' <=> HasData(c)
                        /\ Dirty(c)' <=> Dirty(c)
                        /\ HasData(c) => cache'[c] = cache[c]
  BY <1>2 DEF HasData, Dirty, Absent, AttrOnly
<1>5. \A c \in Client : HasData(c)' => Covered(c)'
  BY <1>1, <1>4 DEF Covered
<1>6. \A c \in Client : cache'[c].m_state = "UPDATE" => cache'[c].data = extent'
  BY <1>4 DEF HasData
<1>7. Contents' = Contents
  <2>1. \A c, d \in Client : Dirty(c)' /\ Dirty(d)' => c = d
    BY <1>1, <1>4 DEF HasData, Dirty, Covered
  <2>2. \A c \in Client : Dirty(c) => HasData(c)
    BY DEF HasData, Dirty
  <2> QED
    BY <1>4, <2>1, <2>2, ContentsIsView, ContentsIsViewNext
<1>8. \A u \in Thread : stage'[u] = IF u = t THEN s ELSE stage[u]
  BY DEF FileShape
<1>9. ASSUME NEW u \in Thread, fetching'[u]
      PROVE  /\ pc'[u] = "critical" /\ stage'[u] = "get"
             /\ cache'[ClientOf[u]] = Absent /\ buf'[u] = extent'
  <2>1. u # t /\ fetching[u] /\ ClientOf[u] \in Client
    BY <1>9
  <2>2. cache'[ClientOf[u]] = cache[ClientOf[u]]
    BY <1>2, <2>1 DEF MutexIsFree
  <2> QED
    BY <1>1, <1>8, <2>1, <2>2
<1>10. \A u \in Thread : u # t => req'[u] = req[u]
  BY DEF FileShape
<1>11. \A u \in Thread : HasContents(u)' => HasContents(u)
  <2>1. ~HasContents(t)'
    BY <1>8 DEF HasContents
  <2> QED
    BY <2>1, <1>8, <1>10 DEF HasContents
<1>12. \A u \in Thread : stage'[u] \in {"put", "flush", "release"} => pc'[u] = "critical"
  BY <1>1, <1>8
<1> QED
  BY <1>3, <1>5, <1>6, <1>7, <1>9, <1>11, <1>12

LEMMA StartKeepsFile ==
  ASSUME IInv, FileInv, NEW t \in Thread, Start(t)
  PROVE  FileInv' /\ Contents' = Contents
<1>1. PICK r \in Request :
         /\ req' = [req EXCEPT ![t] = r]
         /\ Proceed(t, CASE r.op = "stat" -> "isfile"
                         [] r.op = "setattr" -> "getattr"
                         [] OTHER -> "get")
  BY DEF Start
<1> DEFINE s == CASE r.op = "stat" -> "isfile"
                  [] r.op = "setattr" -> "getattr"
                  [] OTHER -> "get"
<1>2. s \in {"isfile", "getattr", "get"}
  OBVIOUS
<1>3. stage' = [stage EXCEPT ![t] = s]
  BY <1>1 DEF Proceed
<1> HIDE DEF s
<1>4. ~fetching[t] /\ UNCHANGED <<vars, extent, buf, fetching, cache>>
  BY DEF Start, FileInv, extentVars
<1> QED
  BY <1>1, <1>2, <1>3, <1>4, AttrStepKeepsFile

LEMMA GetattrKeepsFile ==
  ASSUME IInv, FileInv, NEW t \in Thread, IsFile(t) \/ GetattrStep(t)
  PROVE  FileInv' /\ Contents' = Contents
<1>1. ~fetching[t] /\ UNCHANGED <<vars, extent, buf, fetching, req>> /\ Getattr(ClientOf[t])
  BY DEF IsFile, GetattrStep, Getattr, FileInv
<1>2. CASE IsFile(t)
  <2>1. stage' = [stage EXCEPT ![t] = "getattr"]
    BY <1>2 DEF IsFile, Proceed
  <2> QED
    BY <1>1, <2>1, AttrStepKeepsFile
<1>3. CASE GetattrStep(t)
  <2>1. /\ pc[t] = "critical"
        /\ \/ stage' = [stage EXCEPT ![t] = "release"] /\ req[t].op = "stat"
           \/ stage' = [stage EXCEPT ![t] = "get"]
    BY <1>3 DEF GetattrStep, Proceed
  <2> QED
    BY <1>1, <2>1, AttrStepKeepsFile
<1> QED
  BY <1>2, <1>3

\* The holder of the lock changes the entry of its own cache, and no more.
LEMMA HolderStepKeepsFile ==
  ASSUME IInv, FileInv, NEW t \in Thread, pc[t] = "critical",
         NEW e, NEW d, UNCHANGED <<vars, req>>,
         \/ cache' = [cache EXCEPT ![ClientOf[t]] = e]
         \/ UNCHANGED cache /\ e = cache[ClientOf[t]],
         e.m_state \in {"NONE", "UPDATE", "MODIFIED", "ABSENT"},
         e.m_state = "MODIFIED" => e.data = d,
         e.m_state = "UPDATE" => e.data = extent' /\ d = extent',
         e.m_state \in {"NONE", "ABSENT"} => d = extent',
         buf' = [buf EXCEPT ![t] = d],
         NEW f \in BOOLEAN, fetching' = [fetching EXCEPT ![t] = f],
         f => e = Absent /\ d = extent',
         NEW s, stage' = [stage EXCEPT ![t] = s], f => s = "get"
  PROVE  FileInv' /\ Contents' = d
<1> DEFINE c == ClientOf[t]
<1> USE ClientOfType DEF FileInv
<1>1. UNCHANGED <<pc, clientId, releaser>>
  BY DEF vars, serverVars, callVars
<1>2. /\ c \in Client /\ Covered(c)
      /\ \A u \in Thread : pc[u] = "critical" => u = t
  BY CriticalIsCovered
<1>3. \A b \in Client \ {c} : cache'[b] = cache[b] /\ ~HasData(b) /\ ~HasData(b)'
  BY <1>2 DEF Covered, FileShape, HasData
<1>4. cache'[c] = e
  BY <1>2 DEF FileShape
<1>5. FileShape'
  BY DEF FileShape
<1>6. \A b \in Client : HasData(b)' => Covered(b)'
  BY <1>1, <1>2, <1>3 DEF Covered
<1>7. \A b \in Client : cache'[b].m_state = "UPDATE" => cache'[b].data = extent'
  BY <1>3, <1>4 DEF HasData
<1>8. Contents' = d
  <2>1. \A b \in Client : Dirty(b)' => b = c
    BY <1>3 DEF HasData, Dirty
  <2>2. Dirty(c)' => d = cache'[c].data
    BY <1>4 DEF Dirty
  <2>3. ~Dirty(c)' => d = extent'
    BY <1>4 DEF Dirty
  <2> QED
    BY <1>2, <2>1, <2>2, <2>3, ContentsIsViewNext
<1>9. /\ stage'[t] = s /\ fetching'[t] = f /\ buf'[t] = d
      /\ \A u \in Thread \ {t} :
            stage'[u] = stage[u] /\ fetching'[u] = fetching[u] /\ buf'[u] = buf[u]
  BY DEF FileShape
<1>10. \A u \in Thread \ {t} : ~fetching[u] /\ stage[u] \notin {"put", "flush", "release"}
  BY <1>2
<1>11. \A u \in Thread : fetching'[u] =>
          /\ pc'[u] = "critical" /\ stage'[u] = "get"
          /\ cache'[ClientOf[u]] = Absent /\ buf'[u] = extent'
  BY <1>1, <1>4, <1>9, <1>10
<1>12. \A u \in Thread : stage'[u] \in {"put", "flush", "release"} => pc'[u] = "critical"
  BY <1>1, <1>9, <1>10
<1>13. \A u \in Thread : HasContents(u)' => buf'[u] = Contents'
  BY <1>8, <1>9, <1>10 DEF HasContents
<1> QED
  BY <1>5, <1>6, <1>7, <1>8, <1>11, <1>12, <1>13

LEMMA GetKeepsFile ==
  ASSUME IInv, FileInv, NEW t \in Thread, GetStep(t)
  PROVE  FileInv' /\ Contents' = Contents
<1> DEFINE c == ClientOf[t]
<1>1. /\ pc[t] = "critical" /\ UNCHANGED <<vars, req, size>>
      /\ c \in Client
      /\ Contents = IF Dirty(c) THEN cache[c].data ELSE extent
      /\ UNCHANGED extent
      /\ fetching \in [Thread -> BOOLEAN] /\ stage = [u \in Thread |-> stage[u]]
  BY HolderSeesContents, ClientOfType
     DEF GetStep, GetCached, GetData, GetDataFirst, GetAttrNext, FileInv, FileShape
<1>2. CASE GetCached(t) /\ \E s : Proceed(t, s)
  <2>1. PICK s : stage' = [stage EXCEPT ![t] = s]
    BY <1>2 DEF Proceed
  <2>2. fetching' = [fetching EXCEPT ![t] = FALSE] /\ UNCHANGED cache
    BY <1>1, <1>2 DEF GetCached, MutexIsFree
  <2>3. buf' = [buf EXCEPT ![t] = cache[c].data] /\ cache[c].m_state \in {"UPDATE", "MODIFIED"}
    BY <1>2 DEF GetCached
  <2>4. cache[c].data = Contents /\ (cache[c].m_state = "UPDATE" => cache[c].data = extent)
    BY <1>1, <2>3 DEF FileInv, Dirty
  <2> QED
    BY <1>1, <2>1, <2>2, <2>3, <2>4, HolderStepKeepsFile
<1>3. CASE GetData(t) /\ \E s : Proceed(t, s)
  <2>1. PICK s : stage' = [stage EXCEPT ![t] = s]
    BY <1>3 DEF Proceed
  <2>2. fetching' = [fetching EXCEPT ![t] = FALSE] /\ Contents = extent
    BY <1>1, <1>3 DEF GetData, MutexIsFree, Dirty
  <2>3. /\ buf' = [buf EXCEPT ![t] = extent]
        /\ cache' = [cache EXCEPT ![c] = Updated(extent, Len(extent))]
    BY <1>3 DEF GetData, Store
  <2>4. /\ Updated(extent, Len(extent)).m_state = "UPDATE"
        /\ Updated(extent, Len(extent)).data = extent
    BY DEF Updated
  <2> QED
    BY <1>1, <2>1, <2>2, <2>3, <2>4, HolderStepKeepsFile
<1>4. CASE GetAttrNext(t) /\ \E s : Proceed(t, s)
  <2>1. PICK s : stage' = [stage EXCEPT ![t] = s]
    BY <1>4 DEF Proceed
  <2>2. /\ fetching' = [fetching EXCEPT ![t] = FALSE]
        /\ cache[c] = Absent /\ buf[t] = extent /\ buf = [u \in Thread |-> buf[u]]
    BY <1>4 DEF GetAttrNext, FileInv, FileShape
  <2>3. Contents = extent
    BY <1>1, <2>2 DEF Dirty, Absent
  <2>4. /\ buf' = [buf EXCEPT ![t] = extent]
        /\ cache' = [cache EXCEPT ![c] = Updated(extent, Len(extent))]
    BY <1>4, <2>2 DEF GetAttrNext, Store
  <2>5. /\ Updated(extent, Len(extent)).m_state = "UPDATE"
        /\ Updated(extent, Len(extent)).data = extent
    BY DEF Updated
  <2>6. fetching' = [fetching EXCEPT ![t] = FALSE]
    BY <2>2
  <2> QED
    BY <1>1, <2>1, <2>3, <2>4, <2>5, <2>6, HolderStepKeepsFile
<1>5. CASE GetDataFirst(t) /\ UNCHANGED stage
  <2>1. stage' = [stage EXCEPT ![t] = "get"]
    BY <1>1, <1>5 DEF GetStep
  <2>2. /\ fetching' = [fetching EXCEPT ![t] = TRUE] /\ UNCHANGED cache
        /\ buf' = [buf EXCEPT ![t] = extent] /\ cache[c] = Absent
    BY <1>5 DEF GetDataFirst
  <2>3. Contents = extent /\ Absent.m_state = "ABSENT"
    BY <1>1, <2>2 DEF Dirty, Absent
  <2> QED
    BY <1>1, <2>1, <2>2, <2>3, HolderStepKeepsFile
<1> QED
  BY <1>2, <1>3, <1>4, <1>5 DEF GetStep

LEMMA PutKeepsFile ==
  ASSUME IInv, FileInv, NEW t \in Thread, PutStep(t)
  PROVE  FileInv' /\ Contents' = NewData(t)
<1> DEFINE d == NewData(t)
<1>1. PICK s : stage' = [stage EXCEPT ![t] = s]
  BY DEF PutStep, Proceed
<1>2. /\ pc[t] = "critical" /\ UNCHANGED <<vars, req, extent>>
      /\ cache' = [cache EXCEPT ![ClientOf[t]] = Modified(d)]
      /\ buf' = [buf EXCEPT ![t] = d]
  BY DEF PutStep, Put, Store
<1>3. fetching' = [fetching EXCEPT ![t] = FALSE]
  BY DEF PutStep, Put, MutexIsFree, FileInv, FileShape
<1>4. Modified(d).m_state = "MODIFIED" /\ Modified(d).data = d
  BY DEF Modified
<1> HIDE DEF d
<1> QED
  BY <1>1, <1>2, <1>3, <1>4, HolderStepKeepsFile DEF d

\* What a flush writes back is what the file held.
LEMMA FlushKeepsContents ==
  ASSUME FileInv, NEW c \in Client, Flush(c)
  PROVE  /\ Contents' = Contents
         /\ cache' = [cache EXCEPT ![c] = Absent]
         /\ cache'[c] = Absent
         /\ \A b \in Client \ {c} : cache'[b] = cache[b]
         /\ Dirty(c) => extent' = Contents
         /\ ~Dirty(c) => extent' = extent
         /\ \A t \in Thread : ClientOf[t] = c => ~fetching[t]
         /\ UNCHANGED <<buf, fetching>>
<1> USE DEF FileInv, Absent
<1>1. /\ cache' = [cache EXCEPT ![c] = Absent] /\ cache'[c] = Absent
      /\ \A b \in Client \ {c} : cache'[b] = cache[b]
      /\ extent' = IF Dirty(c) THEN cache[c].data ELSE extent
      /\ \A t \in Thread : ClientOf[t] = c => ~fetching[t]
      /\ UNCHANGED <<buf, fetching>>
  BY DEF Flush, Store, FileShape, Dirty, MutexIsFree
<1>2. \A a, b \in Client : Dirty(a) /\ Dirty(b) => a = b
  BY DEF HasData, Covered, Dirty
<1>3. ~Dirty(c)' /\ \A b \in Client \ {c} : Dirty(b)' <=> Dirty(b)
  BY <1>1 DEF Dirty
<1>4. CASE Dirty(c)
  <2>1. \A b \in Client : ~Dirty(b)'
    BY <1>2, <1>3, <1>4
  <2> QED
    BY <1>1, <1>4, <2>1, ContentsIsView, ContentsIsViewNext
<1>5. CASE ~Dirty(c)
  <2>1. \A a, b \in Client : Dirty(a)' /\ Dirty(b)' => a = b
    BY <1>2, <1>3
  <2> QED
    BY <1>1, <1>3, <1>5, <2>1, ContentsIsView, ContentsIsViewNext
<1> QED
  BY <1>4, <1>5

LEMMA FlushStepKeepsFile ==
  ASSUME IInv, FileInv, NEW t \in Thread, FlushStep(t)
  PROVE  FileInv' /\ Contents' = Contents
<1> DEFINE c == ClientOf[t]
<1>1. /\ c \in Client /\ pc[t] = "critical" /\ stage[t] = "flush"
      /\ Flush(c) /\ UNCHANGED <<vars, req>>
      /\ stage' = [stage EXCEPT ![t] = "release"]
  BY ClientOfType DEF FlushStep, Proceed
<1>2. buf[t] = Contents /\ buf = [u \in Thread |-> buf[u]]
  BY <1>1 DEF FileInv, FileShape, HasContents
<1>3. /\ cache' = [cache EXCEPT ![c] = Absent]
      /\ Dirty(c) => extent' = Contents
      /\ ~Dirty(c) => extent' = extent
      /\ ~fetching[t] /\ UNCHANGED <<buf, fetching>>
  BY <1>1, FlushKeepsContents
<1>4. extent' = Contents
  BY <1>1, <1>3, HolderSeesContents
<1>5. fetching' = [fetching EXCEPT ![t] = FALSE]
  BY <1>3 DEF FileInv, FileShape
<1>6. buf' = [buf EXCEPT ![t] = extent']
  BY <1>2, <1>3, <1>4
<1>7. Absent.m_state = "ABSENT"
  BY DEF Absent
<1>8. cache' = [cache EXCEPT ![ClientOf[t]] = Absent] /\ UNCHANGED <<vars, req>> /\ pc[t] = "critical"
  BY <1>1, <1>3
<1>9. stage' = [stage EXCEPT ![t] = "release"]
  BY <1>1
<1>10. FileInv' /\ Contents' = extent'
  BY <1>5, <1>6, <1>7, <1>8, <1>9, HolderStepKeepsFile
<1> QED
  BY <1>4, <1>10

\* The request is over when its thread lets go of the lock; the data stay with
\* the client, or are about to be flushed.
LEMMA UnlockKeepsFile ==
  ASSUME IInv, FileInv, NEW t \in Thread, Unlock(t)
  PROVE  FileInv' /\ Contents' = Contents
<1>1. /\ Release(t) /\ stage[t] = "release" /\ UNCHANGED <<extent, cache, fetching>>
      /\ stage' = [stage EXCEPT ![t] = "isfile"] \/ stage' = [stage EXCEPT ![t] = "none"]
      /\ buf' = [buf EXCEPT ![t] = <<>>]
      /\ \E r : req' = [req EXCEPT ![t] = r]
  BY DEF Unlock, Proceed
<1>2. pc[t] = "critical"
  BY <1>1 DEF FileInv
<1>3. \A u \in Thread : pc[u] = "critical" => u = t
  BY <1>2, CriticalIsCovered
<1>4. FileShape'
  BY <1>1 DEF FileInv, FileShape
<1>5. \A c \in Client : HasData(c)' => Covered(c)'
  BY <1>1, CoverStays DEF FileInv, HasData
<1>6. Contents' = Contents
  BY <1>1 DEF Contents, Dirty
<1>7. /\ stage'[t] \in {"none", "isfile"}
      /\ \A u \in Thread \ {t} : stage'[u] = stage[u]
  <2>1. stage = [u \in Thread |-> stage[u]]
    BY DEF FileInv, FileShape
  <2>2. CASE stage' = [stage EXCEPT ![t] = "isfile"]
    BY <2>1, <2>2
  <2>3. CASE stage' = [stage EXCEPT ![t] = "none"]
    BY <2>1, <2>3
  <2> QED
    BY <1>1, <2>2, <2>3
<1>8. \A u \in Thread : stage'[u] \notin {"put", "flush", "release"}
  BY <1>3, <1>7 DEF FileInv
<1>9. \A u \in Thread : ~fetching'[u]
  BY <1>1, <1>3 DEF FileInv
<1> QED
  BY <1>1, <1>4, <1>5, <1>6, <1>8, <1>9 DEF FileInv, HasContents

\* Before its release RPC a client has nothing left to flush, and nobody works on
\* the file.
LEMMA ReturnLockKeepsFile ==
  ASSUME IInv, FileInv, NEW t \in Thread, ReturnLock(t)
  PROVE  FileInv' /\ Contents' = Contents
<1> DEFINE c == releaser[t]
<1>1. /\ pc[t] = "dorelease" /\ pc' = [pc EXCEPT ![t] = "release_rpc"]
      /\ Flush(c) /\ UNCHANGED <<stage, req>>
  BY DEF ReturnLock, DoRelease, Goto, requestVars
<1>2. c \in Client /\ clientId = c /\ pc = [u \in Thread |-> pc[u]]
  BY <1>1 DEF IInv, TypeOK, CallsAreWellFormed, HoldersAreOnRecord, Releasing
<1>3. \A u \in Thread : pc[u] # "critical"
  BY <1>2, CriticalIsCovered DEF Covered
<1>4. \A b \in Client : b # c => ~HasData(b)
  BY <1>2 DEF FileInv, Covered
<1>5. /\ Contents' = Contents
      /\ cache' = [cache EXCEPT ![c] = Absent]
      /\ cache'[c] = Absent
      /\ \A b \in Client \ {c} : cache'[b] = cache[b]
      /\ UNCHANGED <<buf, fetching>>
  BY <1>1, <1>2, FlushKeepsContents
<1>6. Absent.m_state = "ABSENT"
  BY DEF Absent
<1>7. FileShape'
  BY <1>1, <1>5 DEF FileInv, FileShape
<1>8. \A b \in Client : ~HasData(b)' /\ cache'[b].m_state # "UPDATE"
  BY <1>4, <1>5, <1>6 DEF HasData
<1>9. \A u \in Thread : stage[u] \notin {"put", "flush", "release"} /\ ~fetching[u]
  BY <1>3 DEF FileInv
<1>10. \A u \in Thread : ~HasContents(u)'
  BY <1>1, <1>9 DEF HasContents
<1> QED
  BY <1>1, <1>5, <1>7, <1>8, <1>9, <1>10 DEF FileInv

-----------------------------------------------------------------------------
\* A step changes what the file holds by a put, or not at all.
LEMMA StepKeepsFile ==
  ASSUME IInv, FileInv, [FileNext]_<<vars, fileVars>>
  PROVE  /\ FileInv'
         /\ \/ Contents' = Contents
            \/ \E t \in Thread : PutStep(t) /\ Contents' = NewData(t)
<1>1. CASE UNCHANGED <<vars, fileVars>>
  <2>1. UNCHANGED <<clientId, pc, releaser, extent, cache, buf, fetching, stage, req>>
    BY <1>1 DEF vars, serverVars, callVars, fileVars, extentVars, requestVars
  <2>2. Contents' = Contents
    BY <2>1 DEF Contents, Dirty
  <2>3. FileShape'
    BY <2>1 DEF FileInv, FileShape
  <2>4. /\ \A c \in Client : HasData(c)' = HasData(c) /\ Covered(c)' = Covered(c)
        /\ \A t \in Thread : HasContents(t)' = HasContents(t)
    BY <2>1 DEF HasData, Covered, HasContents
  <2> QED
    BY <2>1, <2>2, <2>3, <2>4 DEF FileInv
<1>2. ASSUME NEW t \in Thread, FileStep(t)
      PROVE  /\ FileInv'
             /\ \/ Contents' = Contents
                \/ PutStep(t) /\ Contents' = NewData(t)
  <2>1. CASE Start(t)
    BY <2>1, StartKeepsFile
  <2>2. CASE Acquire(t)
    BY <2>2, LockStepKeepsFile DEF Acquire
  <2>3. CASE IsFile(t) \/ GetattrStep(t)
    BY <2>3, GetattrKeepsFile
  <2>4. CASE GetStep(t)
    BY <2>4, GetKeepsFile
  <2>5. CASE PutStep(t)
    BY <2>5, PutKeepsFile
  <2>6. CASE FlushStep(t)
    BY <2>6, FlushStepKeepsFile
  <2>7. CASE Unlock(t)
    BY <2>7, UnlockKeepsFile
  <2>8. CASE ReturnLock(t)
    BY <2>8, ReturnLockKeepsFile
  <2>9. CASE LockStep(t)
    BY <2>9, LockStepKeepsFile DEF LockStep
  <2> QED
    BY <1>2, <2>1, <2>2, <2>3, <2>4, <2>5, <2>6, <2>7, <2>8, <2>9 DEF FileStep, Serve
<1> QED
  BY <1>1, <1>2 DEF FileNext

LEMMA InitHasFile == FileInit => FileInv
<1> SUFFICES ASSUME FileInit PROVE FileInv
  OBVIOUS
<1>1. PICK k \in Client :
         cache = [c \in Client |-> IF c = k THEN AttrOnly(0) ELSE Absent]
  BY DEF FileInit
<1>2. \A c \in Client : cache[c].m_state \in {"NONE", "ABSENT"}
  BY <1>1 DEF AttrOnly, Absent
<1> QED
  BY <1>1, <1>2 DEF FileInit, FileInv, FileShape, HasData, HasContents

\* The invariant behind the caches, next to that behind the lock.
THEOREM FileInvariance == FileSpec => [](IInv /\ FileInv)
<1>1. FileSpec => []IInv
  BY UsesLockService, Invariance
<1>2. FileInit => FileInv
  BY InitHasFile
<1>3. IInv /\ FileInv /\ [FileNext]_<<vars, fileVars>> => FileInv'
  BY StepKeepsFile
<1> QED
  BY <1>1, <1>2, <1>3, PTL DEF FileSpec

-----------------------------------------------------------------------------
\* Only the client on record for the lock caches data, and data that it has not
\* modified are those of the server (extent_client_cache::flush, called by
\* lock_user::dorelease before the release RPC).
THEOREM CachesAreCovered == FileSpec => []CachedDataAreCovered
<1>1. FileInv => CachedDataAreCovered
  BY DEF FileInv, HasData, Covered, CachedDataAreCovered
<1> QED
  BY <1>1, FileInvariance, PTL

\* A request works on what the file holds, whoever wrote it last (yfs_client's
\* read, write and setattr under their LockGuard).
THEOREM HoldersAreCurrent == FileSpec => []DataInHandAreCurrent
<1>1. IInv /\ FileInv => DataInHandAreCurrent
  <2> SUFFICES ASSUME IInv, FileInv, NEW t \in Thread
               PROVE  HasContents(t) \/ fetching[t] => pc[t] = "critical" /\ buf[t] = Contents
    BY DEF DataInHandAreCurrent, HasContents
  <2>1. CASE HasContents(t)
    BY <2>1 DEF FileInv, HasContents
  <2>2. CASE fetching[t]
    <3>1. pc[t] = "critical" /\ cache[ClientOf[t]] = Absent /\ buf[t] = extent
      BY <2>2 DEF FileInv
    <3>2. ~Dirty(ClientOf[t])
      BY <3>1 DEF Dirty, Absent
    <3> QED
      BY <3>1, <3>2, HolderSeesContents
  <2> QED
    BY <2>1, <2>2
<1> QED
  BY <1>1, FileInvariance, PTL

\* No flush, no fetch and no hand-over of the lock loses or brings back data.
THEOREM PutsChangeContents == FileSpec => OnlyPutsChangeContents
<1>1. IInv /\ FileInv /\ [FileNext]_<<vars, fileVars>> =>
         [Contents' # Contents =>
            \E t \in Thread : PutStep(t) /\ Contents' = NewData(t)]_<<vars, fileVars>>
  BY StepKeepsFile
<1> QED
  BY <1>1, FileInvariance, PTL DEF FileSpec, OnlyPutsChangeContents

-----------------------------------------------------------------------------
\* What the variables hold: extents are sequences of bytes, sizes are numbers, and a
\* request comes by the stages of its operation.
Entry == [m_state : {"ABSENT", "NONE", "UPDATE", "MODIFIED"}, data : Seq(Bytes), size : Nat]

ExtentValues ==
    /\ extent \in Seq(Bytes)
    /\ cache \in [Client -> Entry]
    /\ buf \in [Thread -> Seq(Bytes)]
    /\ size \in [Thread -> Nat]

StageFits(t) ==
    /\ stage[t] = "isfile" => req[t].op = "stat"
    /\ stage[t] = "getattr" => req[t].op \in {"stat", "setattr"}
    /\ stage[t] = "get" => req[t].op \in {"read", "write", "setattr"}
    /\ stage[t] = "put" => req[t].op \in {"write", "setattr"}

RequestValues ==
    /\ DOMAIN stage = Thread
    /\ req \in [Thread -> Request \cup {StatRequest, NoRequest}]
    /\ \A t \in Thread : StageFits(t)

Values == ExtentValues /\ RequestValues

LEMMA ExtendGivesBytes ==
  ASSUME NEW s \in Seq(Bytes), NEW n \in Nat
  PROVE  Extend(s, n) \in Seq(Bytes) /\ Len(Extend(s, n)) >= n
<1>1. NUL \in Bytes
  BY DEF Bytes
<1>2. CASE n > Len(s)
  <2>1. n - Len(s) \in Nat
    BY <1>2
  <2>2. Zeros(n - Len(s)) \in Seq(Bytes) /\ Len(Zeros(n - Len(s))) = n - Len(s)
    BY <1>1, <2>1 DEF Zeros
  <2> QED
    BY <1>2, <2>2 DEF Extend
<1>3. CASE ~(n > Len(s))
  BY <1>3 DEF Extend
<1> QED
  BY <1>2, <1>3

LEMMA OverwriteGivesBytes ==
  ASSUME NEW s \in Seq(Bytes), NEW off \in Nat, NEW data \in Seq(Bytes)
  PROVE  Overwrite(s, off, data) \in Seq(Bytes)
<1> DEFINE grown == Extend(s, off + Len(data))
<1>1. grown \in Seq(Bytes) /\ Len(grown) >= off + Len(data)
  BY ExtendGivesBytes
<1> HIDE DEF grown
<1>2. SubSeq(grown, 1, off) \in Seq(Bytes)
  BY <1>1
<1>3. SubSeq(grown, off + Len(data) + 1, Len(grown)) \in Seq(Bytes)
  BY <1>1
<1>4. Overwrite(s, off, data)
        = SubSeq(grown, 1, off) \o data \o SubSeq(grown, off + Len(data) + 1, Len(grown))
  BY DEF Overwrite, grown
<1> QED
  BY <1>2, <1>3, <1>4

LEMMA SetSizeGivesBytes ==
  ASSUME NEW s \in Seq(Bytes), NEW a \in Nat, NEW n \in Nat
  PROVE  SetSize(s, a, n) \in Seq(Bytes)
<1>1. CASE a < n
  <2>1. NUL \in Bytes /\ n - a \in Nat
    BY <1>1 DEF Bytes
  <2>2. Zeros(n - a) \in Seq(Bytes)
    BY <2>1 DEF Zeros
  <2> QED
    BY <1>1, <2>2 DEF SetSize
<1>2. CASE a > n
  BY <1>2 DEF SetSize
<1>3. CASE a = n
  BY <1>3 DEF SetSize
<1> QED
  BY <1>1, <1>2, <1>3

\* A request about to put names what it puts.
LEMMA PutsAreRequested ==
  ASSUME Values, NEW t \in Thread, stage[t] = "put"
  PROVE  /\ req[t] \in Request
         /\ \/ req[t].op = "write" /\ req[t].off \in Nat /\ req[t].data \in Seq(Bytes)
            \/ req[t].op = "setattr" /\ req[t].size \in Nat
<1>1. req[t].op \in {"write", "setattr"}
  BY DEF Values, RequestValues, StageFits
<1>2. req[t] \in Request
  BY <1>1 DEF Values, RequestValues, StatRequest, NoRequest
<1> QED
  BY <1>1, <1>2, RequestsAreWellFormed

LEMMA NewDataAreBytes ==
  ASSUME Values, NEW t \in Thread, stage[t] = "put"
  PROVE  NewData(t) \in Seq(Bytes)
<1>1. buf[t] \in Seq(Bytes) /\ size[t] \in Nat
  BY DEF Values, ExtentValues
<1>2. CASE req[t].op = "write"
  <2>1. req[t].off \in Nat /\ req[t].data \in Seq(Bytes)
    BY <1>2, PutsAreRequested
  <2> QED
    BY <1>1, <1>2, <2>1, OverwriteGivesBytes DEF NewData
<1>3. CASE req[t].op = "setattr"
  <2>1. req[t].size \in Nat
    BY <1>3, PutsAreRequested
  <2> QED
    BY <1>1, <1>3, <2>1, SetSizeGivesBytes DEF NewData
<1> QED
  BY <1>2, <1>3, PutsAreRequested

\* The entries that the operations of the cache make.
LEMMA EntriesMade ==
  ASSUME NEW d \in Seq(Bytes), NEW n \in Nat
  PROVE  Absent \in Entry /\ AttrOnly(n) \in Entry /\ Updated(d, n) \in Entry
           /\ Modified(d) \in Entry
BY DEF Entry, Absent, AttrOnly, Updated, Modified

LEMMA NoBytes == <<>> \in Seq(Bytes)
OBVIOUS

LEMMA StoreKeepsEntries ==
  ASSUME cache \in [Client -> Entry], NEW c, NEW e \in Entry, Store(c, e)
  PROVE  cache' \in [Client -> Entry]
BY DEF Store

LEMMA GetattrKeepsEntries ==
  ASSUME ExtentValues, NEW c \in Client, Getattr(c)
  PROVE  /\ cache' \in [Client -> Entry]
         /\ AttrSize(c) \in Nat
         /\ UNCHANGED <<extent, buf>>
<1>1. Len(extent) \in Nat
  BY DEF ExtentValues
<1>2. AttrOnly(Len(extent)) \in Entry
  BY <1>1, NoBytes, EntriesMade
<1>3. cache[c].size \in Nat
  BY DEF ExtentValues, Entry
<1>4. cache' \in [Client -> Entry]
  BY <1>2, StoreKeepsEntries DEF Getattr, ExtentValues
<1> QED
  BY <1>1, <1>3, <1>4 DEF Getattr, AttrSize

LEMMA FlushKeepsEntries ==
  ASSUME ExtentValues, NEW c \in Client, Flush(c)
  PROVE  /\ cache' \in [Client -> Entry]
         /\ extent' \in Seq(Bytes)
         /\ UNCHANGED buf
<1>1. Absent \in Entry
  BY NoBytes, EntriesMade
<1>2. cache[c].data \in Seq(Bytes)
  BY DEF ExtentValues, Entry
<1>3. cache' \in [Client -> Entry]
  BY <1>1, StoreKeepsEntries DEF Flush, ExtentValues
<1> QED
  BY <1>2, <1>3 DEF Flush, ExtentValues

LEMMA GetKeepsEntries ==
  ASSUME ExtentValues, NEW t \in Thread,
         GetCached(t) \/ GetData(t) \/ GetDataFirst(t) \/ GetAttrNext(t)
  PROVE  /\ cache' \in [Client -> Entry]
         /\ buf' \in [Thread -> Seq(Bytes)]
         /\ UNCHANGED extent
<1>1. /\ ClientOf[t] \in Client
      /\ extent \in Seq(Bytes)
      /\ Len(extent) \in Nat
      /\ buf \in [Thread -> Seq(Bytes)]
      /\ cache \in [Client -> Entry]
  BY ClientOfType DEF ExtentValues
<1>2. CASE GetCached(t)
  <2>1. cache[ClientOf[t]].data \in Seq(Bytes)
    BY <1>1 DEF Entry
  <2> QED
    BY <1>1, <1>2, <2>1 DEF GetCached
<1>3. CASE GetData(t)
  <2>1. Updated(extent, Len(extent)) \in Entry
    BY <1>1, EntriesMade
  <2>2. cache' \in [Client -> Entry]
    BY <1>1, <1>3, <2>1, StoreKeepsEntries DEF GetData
  <2> QED
    BY <1>1, <1>3, <2>2 DEF GetData
<1>4. CASE GetDataFirst(t)
  BY <1>1, <1>4 DEF GetDataFirst
<1>5. CASE GetAttrNext(t)
  <2>1. Updated(buf[t], Len(extent)) \in Entry
    BY <1>1, EntriesMade
  <2>2. cache' \in [Client -> Entry]
    BY <1>1, <1>5, <2>1, StoreKeepsEntries DEF GetAttrNext
  <2> QED
    BY <1>1, <1>5, <2>2 DEF GetAttrNext
<1> QED
  BY <1>2, <1>3, <1>4, <1>5

LEMMA PutKeepsEntries ==
  ASSUME ExtentValues, NEW t \in Thread, NEW d \in Seq(Bytes), Put(t, d)
  PROVE  /\ cache' \in [Client -> Entry]
         /\ buf' \in [Thread -> Seq(Bytes)]
         /\ UNCHANGED extent
<1>1. Modified(d) \in Entry
  <2>1. 0 \in Nat
    OBVIOUS
  <2> QED
    BY <2>1, EntriesMade
<1>2. cache' \in [Client -> Entry]
  BY <1>1, StoreKeepsEntries DEF Put, ExtentValues
<1> QED
  BY <1>2 DEF Put, ExtentValues

\* The stage of one request goes on.
LEMMA ProceedKeepsRequests ==
  ASSUME RequestValues, NEW t \in Thread, NEW s, Proceed(t, s),
         NEW r, r \in Request \/ r = StatRequest \/ r = NoRequest,
         req' = [req EXCEPT ![t] = r],
         s = "isfile" => r.op = "stat",
         s = "getattr" => r.op \in {"stat", "setattr"},
         s = "get" => r.op \in {"read", "write", "setattr"},
         s = "put" => r.op \in {"write", "setattr"}
  PROVE  RequestValues'
<1>1. /\ stage'[t] = s
      /\ \A u \in Thread \ {t} : stage'[u] = stage[u]
      /\ DOMAIN stage' = Thread
  BY DEF RequestValues, Proceed
<1>2. /\ req'[t] = r
      /\ \A u \in Thread \ {t} : req'[u] = req[u]
      /\ req' \in [Thread -> Request \cup {StatRequest, NoRequest}]
  BY DEF RequestValues
<1>3. StageFits(t)'
  BY <1>1, <1>2 DEF StageFits
<1>4. \A u \in Thread \ {t} : StageFits(u)'
  BY <1>1, <1>2 DEF StageFits, RequestValues
<1> QED
  BY <1>1, <1>2, <1>3, <1>4 DEF RequestValues

\* ... the request being the same.
LEMMA GoingOnKeepsRequests ==
  ASSUME RequestValues, NEW t \in Thread, NEW s, Proceed(t, s), UNCHANGED req,
         s # "isfile",
         s = "getattr" => req[t].op \in {"stat", "setattr"},
         s = "get" => req[t].op \in {"read", "write", "setattr"},
         s = "put" => req[t].op \in {"write", "setattr"}
  PROVE  RequestValues'
<1>1. /\ req[t] \in Request \/ req[t] = StatRequest \/ req[t] = NoRequest
      /\ req' = [req EXCEPT ![t] = req[t]]
  BY DEF RequestValues
<1> QED
  BY <1>1, ProceedKeepsRequests

LEMMA StepKeepsExtents ==
  ASSUME IInv, Values, NEW t \in Thread, FileStep(t)
  PROVE  ExtentValues'
<1>1. ExtentValues /\ ClientOf[t] \in Client
  BY ClientOfType DEF Values
<1>2. CASE Start(t) \/ Acquire(t) \/ LockStep(t)
  BY <1>1, <1>2 DEF Start, Acquire, LockStep, fileVars, extentVars, requestVars, ExtentValues
<1>3. CASE IsFile(t)
  BY <1>1, <1>3, GetattrKeepsEntries DEF IsFile, ExtentValues
<1>4. CASE GetattrStep(t)
  BY <1>1, <1>4, GetattrKeepsEntries DEF GetattrStep, ExtentValues
<1>5. CASE GetStep(t)
  BY <1>1, <1>5, GetKeepsEntries DEF GetStep, ExtentValues
<1>6. CASE PutStep(t)
  <2>1. NewData(t) \in Seq(Bytes)
    BY <1>6, NewDataAreBytes DEF PutStep
  <2> QED
    BY <1>1, <1>6, <2>1, PutKeepsEntries DEF PutStep, ExtentValues
<1>7. CASE FlushStep(t)
  BY <1>1, <1>7, FlushKeepsEntries DEF FlushStep, ExtentValues
<1>8. CASE Unlock(t)
  BY <1>1, <1>8 DEF Unlock, ExtentValues
<1>9. CASE ReturnLock(t)
  <2>1. releaser[t] \in Client
    BY <1>9, NoClientIsNone DEF ReturnLock, DoRelease, IInv, TypeOK, CallsAreWellFormed, Releasing
  <2> QED
    BY <1>1, <1>9, <2>1, FlushKeepsEntries DEF ReturnLock, requestVars, ExtentValues
<1> QED
  BY <1>2, <1>3, <1>4, <1>5, <1>6, <1>7, <1>8, <1>9 DEF FileStep, Serve

LEMMA StepKeepsRequests ==
  ASSUME Values, NEW t \in Thread, FileStep(t)
  PROVE  RequestValues'
<1>1. /\ RequestValues
      /\ StageFits(t)
      /\ req[t] \in Request \cup {StatRequest, NoRequest}
  BY DEF Values, RequestValues
<1>2. CASE Start(t)
  <2>1. PICK r \in Request :
          /\ req' = [req EXCEPT ![t] = r]
          /\ Proceed(t, CASE r.op = "stat" -> "isfile"
                          [] r.op = "setattr" -> "getattr"
                          [] OTHER -> "get")
    BY <1>2 DEF Start
  <2>2. r.op \in {"stat", "read", "write", "setattr"}
    BY RequestsAreWellFormed
  <2>3. PICK s : /\ Proceed(t, s)
                 /\ \/ s = "isfile" /\ r.op = "stat"
                    \/ s = "getattr" /\ r.op = "setattr"
                    \/ s = "get" /\ r.op \in {"read", "write"}
    BY <2>1, <2>2
  <2>4. /\ r \in Request \/ r = StatRequest \/ r = NoRequest
        /\ req' = [req EXCEPT ![t] = r]
    BY <2>1
  <2>5. /\ s = "isfile" => r.op = "stat"
        /\ s = "getattr" => r.op \in {"stat", "setattr"}
        /\ s = "get" => r.op \in {"read", "write", "setattr"}
        /\ s = "put" => r.op \in {"write", "setattr"}
    BY <2>3
  <2> QED
    BY <1>1, <2>3, <2>4, <2>5, ProceedKeepsRequests
<1>3. CASE Acquire(t) \/ LockStep(t) \/ ReturnLock(t)
  BY <1>1, <1>3 DEF Acquire, LockStep, ReturnLock, fileVars, requestVars, RequestValues, StageFits
<1>4. CASE IsFile(t)
  <2>1. req[t].op = "stat" /\ Proceed(t, "getattr") /\ UNCHANGED req
    BY <1>1, <1>4 DEF IsFile, StageFits
  <2> QED
    BY <1>1, <2>1, GoingOnKeepsRequests
<1>5. CASE GetattrStep(t)
  <2>1. /\ req[t].op \in {"stat", "setattr"}
        /\ UNCHANGED req
        /\ Proceed(t, IF req[t].op = "stat" THEN "release" ELSE "get")
    BY <1>1, <1>5 DEF GetattrStep, StageFits
  <2> QED
    BY <1>1, <2>1, GoingOnKeepsRequests
<1>6. CASE GetStep(t)
  <2>1. req[t].op \in {"read", "write", "setattr"} /\ UNCHANGED req
    BY <1>1, <1>6 DEF GetStep, StageFits
  <2>2. CASE UNCHANGED stage
    BY <1>1, <2>1, <2>2 DEF RequestValues, StageFits
  <2>3. CASE Proceed(t, IF req[t].op = "read" THEN "release" ELSE "put")
    BY <1>1, <2>1, <2>3, GoingOnKeepsRequests
  <2> QED
    BY <1>6, <2>2, <2>3 DEF GetStep
<1>7. CASE PutStep(t)
  <2>1. UNCHANGED req /\ Proceed(t, IF req[t].op = "write" THEN "flush" ELSE "release")
    BY <1>7 DEF PutStep
  <2> QED
    BY <1>1, <2>1, GoingOnKeepsRequests
<1>8. CASE FlushStep(t)
  <2>1. UNCHANGED req /\ Proceed(t, "release")
    BY <1>8 DEF FlushStep
  <2> QED
    BY <1>1, <2>1, GoingOnKeepsRequests
<1>9. CASE Unlock(t)
  <2>1. \/ Proceed(t, "isfile") /\ req' = [req EXCEPT ![t] = StatRequest]
        \/ Proceed(t, "none") /\ req' = [req EXCEPT ![t] = NoRequest]
    BY <1>9 DEF Unlock
  <2>2. StatRequest.op = "stat"
    BY DEF StatRequest
  <2> QED
    BY <1>1, <2>1, <2>2, ProceedKeepsRequests
<1> QED
  BY <1>2, <1>3, <1>4, <1>5, <1>6, <1>7, <1>8, <1>9 DEF FileStep, Serve

LEMMA StepKeepsValues ==
  ASSUME IInv, Values, [FileNext]_<<vars, fileVars>>
  PROVE  Values'
<1>1. CASE UNCHANGED <<vars, fileVars>>
  BY <1>1 DEF Values, ExtentValues, RequestValues, StageFits, fileVars, extentVars, requestVars
<1>2. CASE FileNext
  BY <1>2, StepKeepsExtents, StepKeepsRequests DEF FileNext, Values
<1> QED
  BY <1>1, <1>2

LEMMA InitHasValues == FileInit => Values
<1> SUFFICES ASSUME FileInit PROVE Values
  OBVIOUS
<1>1. AttrOnly(0) \in Entry /\ Absent \in Entry
  BY NoBytes, EntriesMade
<1>2. PICK k \in Client : cache = [c \in Client |-> IF c = k THEN AttrOnly(0) ELSE Absent]
  BY DEF FileInit
<1>3. ExtentValues
  BY <1>1, <1>2, NoBytes DEF FileInit, ExtentValues
<1>4. RequestValues
  BY DEF FileInit, RequestValues, StageFits
<1> QED
  BY <1>3, <1>4 DEF Values

-----------------------------------------------------------------------------
\* A setattr from whatever size is one from a size up to one more than is asked for.
LEMMA TruncatesFromNearSize ==
  ASSUME NEW s, NEW a \in Nat, NEW n \in Nat
  PROVE  \E b \in 0 .. n + 1 : SetSize(s, a, n) = SetSize(s, b, n)
<1>1. CASE a <= n
  BY <1>1
<1>2. CASE a > n
  <2>1. SetSize(s, a, n) = SetSize(s, n + 1, n)
    BY <1>2 DEF SetSize
  <2> QED
    BY <2>1
<1> QED
  BY <1>1, <1>2

\* Through caches, flushes and hand-overs of the lock the clients have one file, on which
\* each write and setattr acts as a whole.
THEOREM FilesAreAtomic == FileSpec => ImplementsAtomicFile
<1>1. ASSUME FileInit PROVE Contents = <<>>
  <2>1. PICK k \in Client : cache = [c \in Client |-> IF c = k THEN AttrOnly(0) ELSE Absent]
    BY <1>1 DEF FileInit
  <2>2. \A c \in Client : ~Dirty(c)
    BY <2>1 DEF Dirty, AttrOnly, Absent
  <2> QED
    BY <1>1, <2>2 DEF FileInit, Contents
<1>2. ASSUME IInv, FileInv, Values, [FileNext]_<<vars, fileVars>>
      PROVE  [OneFile!Next]_Contents
  <2>1. CASE Contents' = Contents
    BY <2>1
  <2>2. ASSUME NEW t \in Thread, PutStep(t), Contents' = NewData(t)
        PROVE  OneFile!Next
    <3>1. /\ stage[t] = "put"
          /\ req[t] \in Request
          /\ \/ req[t].op = "write"
             \/ req[t].op = "setattr" /\ req[t].size \in Nat
      BY <1>2, <2>2, PutsAreRequested DEF PutStep
    <3>2. buf[t] = Contents
      BY <1>2, <3>1 DEF FileInv, HasContents
    <3>3. CASE req[t].op = "write"
      <4>1. Contents' = Overwrite(Contents, req[t].off, req[t].data)
        BY <2>2, <3>2, <3>3 DEF NewData
      <4>2. OneFile!Write(req[t].off, req[t].data)
        BY <4>1 DEF OneFile!Write, OneFile!Overwrite, OneFile!Extend, OneFile!Zeros,
                    Overwrite, Extend, Zeros
      <4> QED
        BY <3>1, <3>3, <4>2 DEF OneFile!Next
    <3>4. CASE req[t].op = "setattr"
      <4>1. size[t] \in Nat /\ req[t].size \in Nat
        BY <1>2, <3>1, <3>4 DEF Values, ExtentValues
      <4>2. Contents' = SetSize(Contents, size[t], req[t].size)
        BY <2>2, <3>2, <3>4 DEF NewData
      <4>3. PICK b \in 0 .. req[t].size + 1 : Contents' = SetSize(Contents, b, req[t].size)
        BY <4>1, <4>2, TruncatesFromNearSize
      <4>4. OneFile!Truncate(req[t].size)
        BY <4>3 DEF OneFile!Truncate, OneFile!SetSize, OneFile!Zeros, SetSize, Zeros
      <4> QED
        BY <3>1, <3>4, <4>4 DEF OneFile!Next
    <3> QED
      BY <3>1, <3>3, <3>4
  <2> QED
    BY <1>2, <2>1, <2>2, StepKeepsFile
<1>3. FileSpec => []Values
  BY InitHasValues, StepKeepsValues, FileInvariance, PTL DEF FileSpec
<1>4. FileInit => OneFile!Init
  BY <1>1 DEF OneFile!Init
<1> QED
  BY <1>2, <1>3, <1>4, FileInvariance, PTL DEF FileSpec, ImplementsAtomicFile, OneFile!Spec

-----------------------------------------------------------------------------
LEMMA StagesAreKept ==
  ASSUME NEW t \in Thread, FileStep(t)
  PROVE  UNCHANGED stage \/ \E s \in Stages : Proceed(t, s)
<1>1. CASE Start(t)
  <2>1. PICK r \in Request : Proceed(t, CASE r.op = "stat" -> "isfile"
                                          [] r.op = "setattr" -> "getattr"
                                          [] OTHER -> "get")
    BY <1>1 DEF Start
  <2>2. PICK s \in {"isfile", "getattr", "get"} : Proceed(t, s)
    BY <2>1, Zenon
  <2> QED
    BY <2>2 DEF Stages
<1>2. CASE Acquire(t) \/ LockStep(t) \/ ReturnLock(t)
  BY <1>2 DEF Acquire, LockStep, ReturnLock, fileVars, requestVars
<1>3. CASE Serve(t)
  BY <1>3 DEF Serve, IsFile, GetattrStep, GetStep, PutStep, FlushStep, Unlock, Stages
<1> QED
  BY <1>1, <1>2, <1>3 DEF FileStep

\* Caches, buffers and requests keep their types, with files of any length: no write,
\* gap or setattr makes anything but a sequence of bytes.
THEOREM FileTypeCorrect == ASSUME Data = Seq(Bytes) PROVE FileSpec => []FileTypeOK
<1> DEFINE StagesOK == stage \in [Thread -> Stages]
<1>1. FileInit => StagesOK
  BY DEF FileInit, Stages
<1>2. StagesOK /\ [FileNext]_<<vars, fileVars>> => StagesOK'
  <2> SUFFICES ASSUME StagesOK, [FileNext]_<<vars, fileVars>> PROVE StagesOK'
    OBVIOUS
  <2>1. CASE UNCHANGED <<vars, fileVars>>
    BY <2>1 DEF fileVars, requestVars
  <2>2. ASSUME NEW t \in Thread, FileStep(t)
        PROVE  StagesOK'
    BY <2>2, StagesAreKept DEF Proceed
  <2> QED
    BY <2>1, <2>2 DEF FileNext
<1>3. IInv /\ FileInv /\ Values /\ StagesOK => FileTypeOK
  <2>1. Entries = Entry
    BY DEF Entries, Entry
  <2> SUFFICES ASSUME IInv, FileInv, Values, StagesOK PROVE FileTypeOK
    OBVIOUS
  <2>2. TypeOK /\ fetching \in [Thread -> BOOLEAN]
    BY DEF IInv, FileInv, FileShape
  <2>3. /\ extent \in Data /\ cache \in [Client -> Entries] /\ buf \in [Thread -> Data]
        /\ size \in [Thread -> Nat]
        /\ req \in [Thread -> Request \cup {StatRequest, NoRequest}]
    BY <2>1 DEF Values, ExtentValues, RequestValues
  <2> QED
    BY <2>2, <2>3, Zenon DEF FileTypeOK
<1> HIDE DEF StagesOK
<1>4. IInv /\ Values /\ [FileNext]_<<vars, fileVars>> => Values'
  BY StepKeepsValues
<1> QED
  BY <1>1, <1>2, <1>3, <1>4, InitHasValues, FileInvariance, PTL DEF FileSpec

=============================================================================

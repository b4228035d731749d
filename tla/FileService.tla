----------------------------- MODULE FileService -----------------------------
(***************************************************************************)
(* One file of the file system as several yfs clients use it: the requests *)
(* of fuse.cc and yfs_client that read and change its contents and size,   *)
(* on top of the extent cache of each client, with the lock service in     *)
(* full.  The lock user's dorelease, a plain step in LockService, is the   *)
(* flush of the file's extent here.                                        *)
(*                                                                         *)
(* A thread serves one request at a time; stage[t] names the next thing it *)
(* does for the request req[t].  The extent cache is called with the lock  *)
(* held except in isfile, which fuse's getattr begins with.                *)
(***************************************************************************)
EXTENDS LockService, ExtentClientCache, FileData

CONSTANTS
    Request,    \* the requests that are made
    MaxLength   \* bound: no setattr is requested for a file longer than this

StatRequest == [op |-> "stat"]
ReadRequest == [op |-> "read"]
WriteRequest(off, data) == [op |-> "write", off |-> off, data |-> data]
SetattrRequest(n) == [op |-> "setattr", size |-> n]
NoRequest == [op |-> "none"]

\* The bytes there can be, and what the kernel puts into a request.
Bytes == {NUL} \cup UNION {{r.data[i] : i \in DOMAIN r.data} : r \in {q \in Request : q.op = "write"}}

ASSUME RequestsAreWellFormed ==
    \A r \in Request :
        \/ r.op \in {"stat", "read"}
        \/ r.op = "write" /\ r.off \in Nat /\ r.data \in Seq(Bytes)
        \/ r.op = "setattr" /\ r.size \in Nat

Stages == {"none", "isfile", "getattr", "get", "put", "flush", "release"}

VARIABLES
    stage,
    req,
    size    \* attr.size as getattr returned it, a local variable of the request

requestVars == <<stage, req, size>>
fileVars == <<extentVars, requestVars>>

FileTypeOK ==
    /\ TypeOK
    /\ extent \in Data
    /\ cache \in [Client -> Entries]
    /\ buf \in [Thread -> Data]
    /\ fetching \in [Thread -> BOOLEAN]
    /\ stage \in [Thread -> Stages]
    /\ req \in [Thread -> Request \cup {StatRequest, NoRequest}]
    /\ size \in [Thread -> Nat]

\* The file has just been made, through one of the clients: that one keeps the
\* attributes, and nobody has held the file's lock yet.
FileInit ==
    /\ Init
    /\ extent = <<>>
    /\ \E creator \in Client :
          cache = [c \in Client |-> IF c = creator THEN AttrOnly(0) ELSE Absent]
    /\ buf = [t \in Thread |-> <<>>]
    /\ fetching = [t \in Thread |-> FALSE]
    /\ stage = [t \in Thread |-> "none"]
    /\ req = [t \in Thread |-> NoRequest]
    /\ size = [t \in Thread |-> 0]

\* What the file holds: the data written last, which its writer may have kept.
Dirty(c) == cache[c].m_state = "MODIFIED"
Contents == IF \E c \in Client : Dirty(c)
              THEN cache[CHOOSE c \in Client : Dirty(c)].data
              ELSE extent

-----------------------------------------------------------------------------
Proceed(t, s) == stage' = [stage EXCEPT ![t] = s]

\* The kernel hands the client a request.
Start(t) ==
    /\ stage[t] = "none"
    /\ pc[t] = "idle"
    /\ \E r \in Request :
          /\ r.op = "setattr" => Len(Contents) <= MaxLength
          /\ req' = [req EXCEPT ![t] = r]
          /\ Proceed(t, CASE r.op = "stat" -> "isfile"
                          [] r.op = "setattr" -> "getattr"
                          [] OTHER -> "get")
    /\ UNCHANGED <<vars, extentVars, size>>

\* fuse's getattr: isfile, without the lock, and then getfile.  The second isfile
\* of the source finds what the first one has left, or does the same again.
IsFile(t) ==
    /\ stage[t] = "isfile"
    /\ pc[t] = "idle"
    /\ Getattr(ClientOf[t])
    /\ Proceed(t, "getattr")
    /\ UNCHANGED <<vars, req, size>>

\* The LockGuard of getfile, read, write and setattr.
Acquire(t) ==
    /\ stage[t] \in {"getattr", "get"}
    /\ StartAcquire(t)
    /\ UNCHANGED fileVars

GetattrStep(t) ==
    /\ stage[t] = "getattr"
    /\ pc[t] = "critical"
    /\ size' = [size EXCEPT ![t] = AttrSize(ClientOf[t])]
    /\ Getattr(ClientOf[t])
    /\ Proceed(t, IF req[t].op = "stat" THEN "release" ELSE "get")
    /\ UNCHANGED <<vars, req>>

GetStep(t) ==
    /\ stage[t] = "get"
    /\ pc[t] = "critical"
    /\ \/ /\ GetCached(t) \/ GetData(t) \/ GetAttrNext(t)
          /\ Proceed(t, IF req[t].op = "read" THEN "release" ELSE "put")
       \/ GetDataFirst(t) /\ UNCHANGED stage
    /\ UNCHANGED <<vars, req, size>>

\* write and setattr put back what they have made of the data.
NewData(t) ==
    IF req[t].op = "write" THEN Overwrite(buf[t], req[t].off, req[t].data)
                           ELSE SetSize(buf[t], size[t], req[t].size)

PutStep(t) ==
    /\ stage[t] = "put"
    /\ pc[t] = "critical"
    /\ Put(t, NewData(t))
    /\ Proceed(t, IF req[t].op = "write" THEN "flush" ELSE "release")
    /\ UNCHANGED <<vars, req, size>>

\* write does not leave its data in the cache.
FlushStep(t) ==
    /\ stage[t] = "flush"
    /\ pc[t] = "critical"
    /\ Flush(ClientOf[t])
    /\ Proceed(t, "release")
    /\ UNCHANGED <<vars, req, size>>

\* The LockGuard goes out of scope.  The answer is sent, except that fuse's
\* setattr answers with what getattr says next.
Unlock(t) ==
    /\ stage[t] = "release"
    /\ Release(t)
    /\ IF req[t].op = "setattr"
         THEN Proceed(t, "isfile") /\ req' = [req EXCEPT ![t] = StatRequest]
         ELSE Proceed(t, "none") /\ req' = [req EXCEPT ![t] = NoRequest]
    /\ buf' = [buf EXCEPT ![t] = <<>>]
    /\ size' = [size EXCEPT ![t] = 0]
    /\ UNCHANGED <<extent, cache, fetching>>

\* Mutant: lock_user::dorelease does nothing.
ReturnLockOnly(t) == DoRelease(t) /\ UNCHANGED fileVars

\* lock_user::dorelease, from release or from the revoke handler.
ReturnLock(t) ==
    /\ DoRelease(t)
    /\ Flush(releaser[t])
    /\ UNCHANGED requestVars

\* What the lock service does by itself.
LockStep(t) ==
    /\ CallStep(t) \/ SpuriousWakeup(t)
    /\ UNCHANGED fileVars

Serve(t) ==
    \/ IsFile(t)
    \/ GetattrStep(t)
    \/ GetStep(t)
    \/ PutStep(t)
    \/ FlushStep(t)
    \/ Unlock(t)

FileStep(t) == Start(t) \/ Acquire(t) \/ Serve(t) \/ ReturnLock(t) \/ LockStep(t)

FileNext == \E t \in Thread : FileStep(t)

FileSpec == FileInit /\ [][FileNext]_<<vars, fileVars>>

\* A request that has been taken up is worked on; the kernel need not make one.
FairFileSpec ==
    /\ FileSpec
    /\ \A t \in Thread :
          /\ WF_<<vars, fileVars>>(Acquire(t))
          /\ WF_<<vars, fileVars>>(Serve(t))
          /\ WF_<<vars, fileVars>>(ReturnLock(t))
          /\ WF_<<vars, fileVars>>(CallStep(t) /\ UNCHANGED fileVars)

-----------------------------------------------------------------------------
\* Data are cached only by the client that the server has on record for the
\* lock, and what is cached unmodified is what the server has.  So nobody else
\* caches data, and once the lock has been returned the server has them all.
CachedDataAreCovered ==
    \A c \in Client :
        /\ cache[c].m_state \in {"UPDATE", "MODIFIED"} => clientId = c
        /\ cache[c].m_state = "UPDATE" => cache[c].data = extent

\* A request that has got the data and still has the lock works on what the file
\* holds, whoever wrote that last and however the lock has travelled since.
DataInHandAreCurrent ==
    \A t \in Thread :
        \/ stage[t] \in {"put", "flush"}
        \/ stage[t] = "release" /\ req[t].op # "stat"
        \/ fetching[t]
        => pc[t] = "critical" /\ buf[t] = Contents

\* What the file holds changes by the put of a request, to the data of that
\* request, and by nothing else: no flush, fetch or hand-over loses an update.
OnlyPutsChangeContents ==
    [][Contents' # Contents =>
          \E t \in Thread : PutStep(t) /\ Contents' = NewData(t)]_<<vars, fileVars>>

\* Reads and writes of all clients together act on one file.
OneFile == INSTANCE AtomicFile WITH contents <- Contents
ImplementsAtomicFile == OneFile!Spec

\* Every request taken up is answered.
RequestsAreAnswered == \A t \in Thread : stage[t] # "none" ~> stage[t] = "none"

\* "the size of the file should be changed.  The new size is in attr->st_size."
SetattrSetsSize ==
    \A t \in Thread :
        stage[t] = "release" /\ req[t].op = "setattr" => Len(Contents) = req[t].size

=============================================================================

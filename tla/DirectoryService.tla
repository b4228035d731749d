-------------------------- MODULE DirectoryService --------------------------
(***************************************************************************)
(* The requests of fuse.cc on directories, files and links, as yfs_client  *)
(* serves them with the locks of all inodes and the extent table of each   *)
(* client.  A client serves one request at a time (fuse_session_loop);     *)
(* stage[c] names the next call it makes.  It is inside the lock of        *)
(* ino[c] in the stages named Locked, and in no other lock.                *)
(*                                                                         *)
(* A lock is what DistributedLock promises, which LockService implements:  *)
(* an owner that lets its own threads in, and that gives the lock back     *)
(* when another client waits for it, after lock_user::dorelease has        *)
(* flushed the extent.                                                     *)
(***************************************************************************)
EXTENDS ExtentTable, DirectoryData, FileData

CONSTANT NoClient

ASSUME NoClientIsNone == NoClient \notin Client

VARIABLES
    owner,      \* the client that has the lock of each inode
    returning,  \* whether it has flushed the extent and the release RPC is on its way
    mounted,    \* clients whose constructor has returned
    stage,
    req,        \* the request that a client serves
    ino,        \* the inode it works on, e.ino of the reply
    made,       \* the inode that addfile has made
    buf,        \* the data it has got
    attr        \* the attributes that its last getattr returned

lockVars == <<owner, returning>>
requestVars == <<stage, req, ino, made, buf, attr>>
directoryVars == <<extentTableVars, lockVars, mounted, requestVars>>

\* Each request names the inode that its handler is called with.
MountRequest == [op |-> "mount", ino |-> Root]
GetattrRequest(i) == [op |-> "getattr", ino |-> i]
LookupRequest(i, name) == [op |-> "lookup", ino |-> i, name |-> name]
CreateRequest(i, name) == [op |-> "create", ino |-> i, name |-> name, type |-> T_FILE]
MkdirRequest(i, name) == [op |-> "create", ino |-> i, name |-> name, type |-> T_DIR]
SymlinkRequest(i, name, link) ==
    [op |-> "symlink", ino |-> i, name |-> name, type |-> T_SYMLK, link |-> link]
UnlinkRequest(i, name) == [op |-> "unlink", ino |-> i, name |-> name]
ReaddirRequest(i) == [op |-> "readdir", ino |-> i]
ReadlinkRequest(i) == [op |-> "readlink", ino |-> i]
ReadRequest(i, off, n) == [op |-> "read", ino |-> i, off |-> off, size |-> n]
WriteRequest(i, off, data) == [op |-> "write", ino |-> i, off |-> off, data |-> data]
SetattrRequest(i, n) == [op |-> "setattr", ino |-> i, size |-> n]
NoRequest == [op |-> "none"]

Waiting == {"lock", "lock_link", "lock_stat"}
Locked == {"getattr", "create", "get", "remove", "put", "flush", "unlock",
           "put_link", "flush_link", "unlock_link", "stat", "unlock_stat"}
Unlocked == {"idle", "isdir", "typed", "done"}

\* struct stat, and one that has been zeroed.
AttrOf(e) == [type |-> e.type, size |-> e.size]
NoAttr == [type |-> "none", size |-> 0]

DirectoryInit ==
    /\ server = [i \in Inum |-> IF i = Root THEN [type |-> T_DIR, data |-> <<>>]
                                            ELSE FreeInode]
    /\ table = [c \in Client |-> [i \in Inum |-> Absent]]
    /\ owner = [i \in Inum |-> NoClient]
    /\ returning = [i \in Inum |-> FALSE]
    /\ mounted = {}
    /\ stage = [c \in Client |-> "idle"]
    /\ req = [c \in Client |-> NoRequest]
    /\ ino = [c \in Client |-> Root]
    /\ made = [c \in Client |-> Root]
    /\ buf = [c \in Client |-> <<>>]
    /\ attr = [c \in Client |-> NoAttr]

-----------------------------------------------------------------------------
\* Locks.
Inside(c, i) == stage[c] \in Locked /\ ino[c] = i
Wants(c, i) == stage[c] \in Waiting /\ ino[c] = i

\* What an operation begins with when it has the lock.
Enter(c) ==
    /\ stage' = [stage EXCEPT ![c] =
         CASE @ = "lock_link" -> "put_link"
           [] @ = "lock_stat" -> "stat"
           [] OTHER ->
                CASE req[c].op \in {"lookup", "readdir", "setattr"} -> "getattr"
                  [] req[c].op \in {"create", "symlink"} -> "create"
                  [] req[c].op = "mount" -> "put"
                  [] OTHER -> "get"]
    /\ UNCHANGED <<extentTableVars, returning, mounted, req, ino, made, buf, attr>>

\* The server grants the lock: the thread that has asked for it is in.
Grant(i) ==
    /\ owner[i] = NoClient
    /\ \E c \in Client : Wants(c, i) /\ owner' = [owner EXCEPT ![i] = c] /\ Enter(c)

\* The client has kept the lock.
EnterAgain(c) ==
    /\ Wants(c, ino[c])
    /\ owner[ino[c]] = c
    /\ ~returning[ino[c]]
    /\ Enter(c)
    /\ UNCHANGED owner

\* Mutant: the lock is given back, and what is cached stays.
ReturnWithoutFlush(i) ==
    /\ owner[i] \in Client
    /\ ~returning[i]
    /\ ~Inside(owner[i], i)
    /\ \E c \in Client \ {owner[i]} : Wants(c, i)
    /\ returning' = [returning EXCEPT ![i] = TRUE]
    /\ UNCHANGED <<extentTableVars, owner, mounted, requestVars>>

\* dorelease of a lock that another client wants.
FlushForRelease(i) ==
    /\ owner[i] \in Client
    /\ ~returning[i]
    /\ ~Inside(owner[i], i)
    /\ \E c \in Client \ {owner[i]} : Wants(c, i)
    /\ Flush(owner[i], i)
    /\ returning' = [returning EXCEPT ![i] = TRUE]
    /\ UNCHANGED <<owner, mounted, requestVars>>

\* Mutant: the client has given the lock back and the server does not know.
ReleaseUnnoticed(i) ==
    /\ returning[i]
    /\ returning' = [returning EXCEPT ![i] = FALSE]
    /\ UNCHANGED <<extentTableVars, owner, mounted, requestVars>>

Release(i) ==
    /\ returning[i]
    /\ owner' = [owner EXCEPT ![i] = NoClient]
    /\ returning' = [returning EXCEPT ![i] = FALSE]
    /\ UNCHANGED <<extentTableVars, mounted, requestVars>>

LockStep(i) == Grant(i) \/ FlushForRelease(i) \/ Release(i)

-----------------------------------------------------------------------------
\* Requests.
Proceed(c, s) == stage' = [stage EXCEPT ![c] = s]

\* fuse_session_loop hands over the next request.
Take(c, r) ==
    /\ stage[c] = "idle"
    /\ req' = [req EXCEPT ![c] = r]
    /\ ino' = [ino EXCEPT ![c] = r.ino]
    /\ Proceed(c, CASE r.op = "readdir" -> "isdir"
                    [] r.op = "getattr" -> "typed"
                    [] OTHER -> "lock")
    /\ UNCHANGED <<extentTableVars, lockVars, mounted, made, buf, attr>>

\* fuseserver_readdir looks at the type before it has the lock.
IsDir(c) ==
    /\ stage[c] = "isdir"
    /\ Getattr(c, ino[c])
    /\ Proceed(c, IF ~Removed(c, ino[c]) /\ Attr(c, ino[c]).type = T_DIR THEN "lock" ELSE "done")
    /\ UNCHANGED <<lockVars, mounted, req, ino, made, buf, attr>>

\* find and readdir go on only with a directory, setattr with what is not removed.
GetattrStep(c) ==
    LET i == ino[c]
        found == ~Removed(c, i) /\ (req[c].op = "setattr" \/ Attr(c, i).type = T_DIR)
    IN  /\ stage[c] = "getattr"
        /\ Getattr(c, i)
        /\ attr' = [attr EXCEPT ![c] = AttrOf(Attr(c, i))]
        /\ Proceed(c, IF found THEN "get" ELSE "unlock")
        /\ UNCHANGED <<lockVars, mounted, req, ino, made, buf>>

\* addfile makes the inode first, without its lock.
CreateStep(c) ==
    /\ stage[c] = "create"
    /\ Create(c, req[c].type)
    /\ made' = [made EXCEPT ![c] = FreshInum]
    /\ Proceed(c, "get")
    /\ UNCHANGED <<lockVars, mounted, req, ino, buf, attr>>

DataOf(c) == IF Removed(c, ino[c]) THEN <<>> ELSE Entry(c, ino[c]).data

GetStep(c) ==
    /\ stage[c] = "get"
    /\ Get(c, ino[c])
    /\ buf' = [buf EXCEPT ![c] = DataOf(c)]
    /\ Proceed(c, CASE req[c].op \in {"lookup", "readdir", "read", "readlink"} -> "unlock"
                    [] req[c].op = "unlink" ->
                         IF IsFound(DataOf(c), req[c].name) THEN "remove" ELSE "unlock"
                    [] OTHER -> "put")
    /\ UNCHANGED <<lockVars, mounted, req, ino, made, attr>>

\* unlink marks the files that it finds, whose locks it does not have.
RemoveStep(c) ==
    /\ stage[c] = "remove"
    /\ Remove(c, MatchingInums(buf[c], req[c].name))
    /\ Proceed(c, "put")
    /\ UNCHANGED <<lockVars, mounted, req, ino, made, buf, attr>>

\* What each operation puts back.
NewData(c) ==
    LET r == req[c]
    IN  CASE r.op = "mount" -> <<>>
          [] r.op \in {"create", "symlink"} -> AddEntry(buf[c], r.name, made[c])
          [] r.op = "unlink" -> WithoutName(buf[c], r.name)
          [] r.op = "write" -> Overwrite(buf[c], r.off, r.data)
          [] r.op = "setattr" -> SetSize(buf[c], attr[c].size, r.size)

PutStep(c) ==
    /\ stage[c] = "put"
    /\ Put(c, ino[c], NewData(c))
    /\ Proceed(c, IF req[c].op = "write" THEN "flush" ELSE "unlock")
    /\ UNCHANGED <<lockVars, mounted, req, ino, made, buf, attr>>

\* write and symlink leave no data in the table.
FlushStep(c) ==
    /\ stage[c] \in {"flush", "flush_link"}
    /\ Flush(c, ino[c])
    /\ Proceed(c, IF stage[c] = "flush" THEN "unlock" ELSE "unlock_link")
    /\ UNCHANGED <<lockVars, mounted, req, ino, made, buf, attr>>

\* The inode that a request goes on with: the one found, or the one made.
LookedUp(c) == attr[c].type = T_DIR /\ IsFound(buf[c], req[c].name)

Unlock(c) ==
    /\ stage[c] = "unlock"
    /\ \/ /\ req[c].op = "lookup" /\ LookedUp(c)
          /\ ino' = [ino EXCEPT ![c] = FoundInum(buf[c], req[c].name)]
          /\ Proceed(c, "typed")
       \/ /\ req[c].op \in {"create", "symlink"}
          /\ ino' = [ino EXCEPT ![c] = made[c]]
          /\ Proceed(c, IF req[c].op = "create" THEN "typed" ELSE "lock_link")
       \/ /\ req[c].op = "setattr"
          /\ Proceed(c, "typed")
          /\ UNCHANGED ino
       \/ /\ \/ req[c].op \in {"mount", "unlink", "readdir", "readlink", "read", "write"}
             \/ req[c].op = "lookup" /\ ~LookedUp(c)
          /\ Proceed(c, "done")
          /\ UNCHANGED ino
    /\ made' = [made EXCEPT ![c] = Root]
    /\ UNCHANGED <<extentTableVars, lockVars, mounted, req, buf, attr>>

\* symlink: the link is written under the lock of the new inode, which has been in
\* the directory since addfile.
PutLink(c) ==
    /\ stage[c] = "put_link"
    /\ Put(c, ino[c], <<req[c].link>>)
    /\ Proceed(c, "flush_link")
    /\ UNCHANGED <<lockVars, mounted, req, ino, made, buf, attr>>

UnlockLink(c) ==
    /\ stage[c] = "unlock_link"
    /\ Proceed(c, "typed")
    /\ UNCHANGED <<extentTableVars, lockVars, mounted, req, ino, made, buf, attr>>

\* fuse's getattr: isfile, issymlink and isdir without the lock, then getfile,
\* getsymlink or getdir.  An inode of no type ("wrong type") is answered as it is.
\* They are up to three calls, of which one decides: this step is that call, as a type
\* does not change.
Typed(c) ==
    /\ stage[c] = "typed"
    /\ Getattr(c, ino[c])
    /\ Proceed(c, IF ~Removed(c, ino[c]) /\ Attr(c, ino[c]).type \in Types THEN "lock_stat"
                                                                           ELSE "done")
    /\ attr' = [attr EXCEPT ![c] = NoAttr]
    /\ UNCHANGED <<lockVars, mounted, req, ino, made, buf>>

Stat(c) ==
    /\ stage[c] = "stat"
    /\ Getattr(c, ino[c])
    /\ attr' = [attr EXCEPT ![c] = AttrOf(Attr(c, ino[c]))]
    /\ Proceed(c, "unlock_stat")
    /\ UNCHANGED <<lockVars, mounted, req, ino, made, buf>>

UnlockStat(c) ==
    /\ stage[c] = "unlock_stat"
    /\ Proceed(c, "done")
    /\ UNCHANGED <<extentTableVars, lockVars, mounted, req, ino, made, buf, attr>>

Serve(c) ==
    \/ IsDir(c) \/ EnterAgain(c) \/ GetattrStep(c) \/ CreateStep(c) \/ GetStep(c)
    \/ RemoveStep(c) \/ PutStep(c) \/ FlushStep(c) \/ Unlock(c)
    \/ PutLink(c) \/ UnlockLink(c) \/ Typed(c) \/ Stat(c) \/ UnlockStat(c)

\* The reply is sent.
Reply(c) ==
    /\ stage[c] = "done"
    /\ mounted' = IF req[c].op = "mount" THEN mounted \cup {c} ELSE mounted
    /\ Proceed(c, "idle")
    /\ req' = [req EXCEPT ![c] = NoRequest]
    /\ ino' = [ino EXCEPT ![c] = Root]
    /\ buf' = [buf EXCEPT ![c] = <<>>]
    /\ attr' = [attr EXCEPT ![c] = NoAttr]
    /\ UNCHANGED <<extentTableVars, lockVars, made>>

DirectoryStep == (\E c \in Client : Serve(c)) \/ (\E i \in Inum : LockStep(i))

\* Any requests on inodes, in any order.
DirectoryNext ==
    \/ DirectoryStep
    \/ \E c \in Client : Reply(c) \/ \E r : r.ino \in Inum /\ Take(c, r)

DirectorySpec == DirectoryInit /\ [][DirectoryNext]_directoryVars

-----------------------------------------------------------------------------
\* What a directory lists, for whoever asks.
Directories == {i \in Inum : server[i].type = T_DIR}
Listing(d) == IF d \in Directories THEN Contents(d) ELSE <<>>
Listed(d) == {Listing(d)[k].inum : k \in DOMAIN Listing(d)}

\* The variables have values of their types, and a directory lists inodes.
DirTypeOK ==
    /\ \A i \in Inum : server[i].type \in Types \cup {"free"}
    /\ \A d \in Directories : Listed(d) \subseteq Inum
    /\ \A c \in Client, i \in Inum :
          /\ table[c][i].m_state \in {"ABSENT", "NONE", "UPDATE", "MODIFIED", "REMOVED"}
          /\ \/ table[c][i].type \in Types \cup {StaleType}
             \/ table[c][i].type = "none" /\ table[c][i].m_state \in {"ABSENT", "REMOVED"}
          /\ table[c][i].size \in Nat
    /\ owner \in [Inum -> Client \cup {NoClient}]
    /\ returning \in [Inum -> BOOLEAN]
    /\ mounted \subseteq Client
    /\ stage \in [Client -> Waiting \cup Locked \cup Unlocked]
    /\ ino \in [Client -> Inum]
    /\ made \in [Client -> Inum]

\* Data are cached only by the client that has the lock of their inode, and what it has
\* not changed is what the server has: nothing is fetched or kept outside of the lock,
\* though create and getattr make entries without it.
DataAreOwned ==
    \A c \in Client, i \in Inum :
        HasData(c, i) =>
            /\ owner[i] = c
            /\ ~returning[i]
            /\ ~Dirty(c, i) => table[c][i].data = server[i].data

\* What an operation has got, and goes on with when it puts, is what the inode holds
\* until it lets the lock go.
GotData(c) ==
    \/ stage[c] = "remove"
    \/ stage[c] = "put" /\ req[c].op # "mount"
    \/ stage[c] = "unlock" /\ req[c].op \in {"read", "readlink"}

DataInHandAreContents ==
    \A c \in Client : GotData(c) /\ ~Removed(c, ino[c]) => buf[c] = Contents(ino[c])

\* An extent that some client has removed is in no directory, except in the one that
\* the client is taking it out of: no lookup leads to it.
RemovedIsUnlisted ==
    \A d \in Directories : \A i \in Listed(d) : \A c \in Client :
        Removed(c, i) => stage[c] = "put" /\ req[c].op = "unlink" /\ ino[c] = d

=============================================================================

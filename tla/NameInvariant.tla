--------------------------- MODULE NameInvariant ---------------------------
(***************************************************************************)
(* Why directories stay one name space: the inductive invariant, on top of *)
(* DInv (DirectoryServiceProofs).  TypeInv says what inodes, tables and    *)
(* requests hold, NameInv what has a name, is about to get one, or is      *)
(* about to lose it.                                                       *)
(***************************************************************************)
EXTENDS KernelRequests

\* No inode becomes free again.
Exists(i) == server[i].type # "free"

Entries == [name : Name, inum : Inum]

\* What an inode of each type holds.
DataFit(type, d) ==
    /\ type = T_DIR => d \in Seq(Entries) /\ \A k \in DOMAIN d : Exists(d[k].inum)
    /\ type = T_FILE => d \in Seq(Byte)
    /\ type = T_SYMLK => Len(d) \in Nat
    /\ type = "free" => d = <<>>

InodesFit ==
    /\ server[Root].type = T_DIR
    /\ \A i \in Inum : /\ server[i].type \in Types \cup {"free"}
                       /\ DataFit(server[i].type, server[i].data)

\* Entries are those of inodes that exist, and only one that has been marked as removed
\* without having been looked at is without a type.
EntryFits(i, e) ==
    /\ e.m_state = "ABSENT" => e = Absent
    /\ e.m_state # "ABSENT" => Exists(i)
    /\ \/ e.type \in Types \cup {StaleType}
       \/ e.type = "none" /\ e.m_state \in {"ABSENT", "REMOVED"}
    /\ e.size \in Nat
    /\ e.m_state \in {"UPDATE", "MODIFIED"} => DataFit(server[i].type, e.data)

\* The calls of each operation.
StatCalls == {"typed", "lock_stat", "stat", "unlock_stat", "done"}
LinkCalls == {"lock_link", "put_link", "flush_link", "unlock_link"}
CallFits(op, s) ==
    /\ op = "none" => s = "idle"
    /\ op = "mount" => s \in {"lock", "put", "unlock", "done"}
    /\ op = "getattr" => s \in StatCalls
    /\ op = "lookup" => s \in {"lock", "getattr", "get", "unlock"} \cup StatCalls
    /\ op = "readdir" => s \in {"isdir", "lock", "getattr", "get", "unlock", "done"}
    /\ op \in {"read", "readlink"} => s \in {"lock", "get", "unlock", "done"}
    /\ op = "write" => s \in {"lock", "get", "put", "flush", "unlock", "done"}
    /\ op = "setattr" => s \in {"lock", "getattr", "get", "put", "unlock"} \cup StatCalls
    /\ op = "unlink" => s \in {"lock", "get", "remove", "put", "unlock", "done"}
    /\ op = "create" => s \in {"lock", "create", "get", "put", "unlock"} \cup StatCalls
    /\ op = "symlink" =>
         s \in {"lock", "create", "get", "put", "unlock"} \cup LinkCalls \cup StatCalls

NamedCalls == {"isdir", "lock", "getattr", "create", "get", "remove", "put", "flush", "unlock"}

\* A request is one that the kernel makes and works on the inode that it names, then on
\* the one it has found or made.
RequestFits(c) ==
    LET r == req[c]
    IN  /\ r \in {NoRequest, MountRequest} \/ (FitsInode(r) /\ HasArguments(r))
        /\ CallFits(r.op, stage[c])
        /\ stage[c] \in NamedCalls => ino[c] = r.ino
        /\ Exists(ino[c])
        /\ stage[c] \in LinkCalls => server[ino[c]].type = T_SYMLK
        /\ r.op \in Making /\ stage[c] \in {"get", "put", "unlock"} => server[made[c]].type = r.type
        /\ r = NoRequest => buf[c] = <<>>
        /\ r.op \in {"lookup", "unlink"} => DataFit(T_DIR, buf[c])
        /\ attr[c].size \in Nat

TypeInv ==
    /\ InodesFit
    /\ \A c \in Client : RequestFits(c) /\ \A i \in Inum : EntryFits(i, table[c][i])
    /\ mounted \subseteq Client
    /\ ino \in [Client -> Inum]
    /\ made \in [Client -> Inum]
    /\ DOMAIN attr = Client

-----------------------------------------------------------------------------
\* An inode has one name in one directory.
NamedOnce ==
    \A d, e \in Directories : \A k \in DOMAIN Listing(d), l \in DOMAIN Listing(e) :
        Listing(d)[k].inum = Listing(e)[l].inum => d = e /\ k = l

\* Only what may be unlinked has been removed, and while it is listed its unlink is on
\* the way.
RemovedIsLeaving ==
    \A c \in Client, i \in Inum : Removed(c, i) =>
        /\ server[i].type # T_DIR
        /\ \A d \in Directories : i \in Listed(d) =>
              /\ stage[c] = "put" /\ req[c].op = "unlink" /\ ino[c] = d
              /\ i \in MatchingInums(buf[c], req[c].name)

\* What is about to get a name has none, and is nobody else's.
NamelessIsNew(c) ==
    Linking(c) =>
        /\ \A d \in Directories : made[c] \notin Listed(d)
        /\ \A e \in Client : ~Removed(e, made[c])
        /\ \A e \in Client \ {c} : Linking(e) => made[e] # made[c]

\* What was so when a request on a name was taken up stays so until it is carried out.
NameStays(c) ==
    LET r == req[c]
    IN  /\ r.op \in Making /\ stage[c] \in {"lock", "create", "get", "put"} => NameIsNew(r)
        /\ r.op = "unlink" /\ stage[c] \in {"lock", "get", "remove"} => UnlinksFiles(r)
        /\ r.op = "unlink" /\ stage[c] \in {"remove", "put"} => IsFound(buf[c], r.name)
        /\ \A e \in Client \ {c} : ~Clash(r, req[e])

\* The root is put while there is nothing in it.
MountsComeFirst ==
    /\ \A c \in Client : req[c] = MountRequest => c \notin mounted
    /\ mounted # Client =>
         /\ \A c \in Client : req[c] \in {NoRequest, MountRequest}
         /\ \A d \in Directories : Listing(d) = <<>>

NameInv ==
    /\ NamedOnce
    /\ RemovedIsLeaving
    /\ MountsComeFirst
    /\ \A c \in Client : NamelessIsNew(c) /\ NameStays(c)
=============================================================================

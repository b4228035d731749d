--------------------------- MODULE KernelRequests ---------------------------
(***************************************************************************)
(* The requests that a kernel makes of fuse.cc, any of them in any order.  *)
(* The handlers do not ask whether an inode is a directory or a name taken *)
(* (fuse.cc:445, yfs_client.cc:222): that is for the kernel to know, which *)
(* has looked names up before.                                             *)
(***************************************************************************)
EXTENDS DirectoryService

CONSTANTS Name, Byte

ASSUME NulIsByte == NUL \in Byte

OnDirectory == {"lookup", "readdir", "create", "symlink", "unlink"}
OnFile == {"read", "write", "setattr"}
Making == {"create", "symlink"}

\* A request is for an inode of the right type.
FitsInode(r) ==
    /\ r.op \in OnDirectory \cup OnFile \cup {"readlink", "getattr"}
    /\ r.ino \in Inum
    /\ server[r.ino].type \in Types
    /\ r.op \in OnDirectory => server[r.ino].type = T_DIR
    /\ r.op \in OnFile => server[r.ino].type = T_FILE
    /\ r.op = "readlink" => server[r.ino].type = T_SYMLK

HasArguments(r) ==
    /\ r.op \in {"lookup", "create", "symlink", "unlink"} => r.name \in Name
    /\ r.op = "create" => r.type \in {T_FILE, T_DIR}
    /\ r.op = "symlink" => r.type = T_SYMLK
    /\ r.op = "write" => r.off \in Nat /\ r.data \in Seq(Byte)
    /\ r.op = "setattr" => r.size \in Nat

SameName(r, s) == r.ino = s.ino /\ r.name = s.name

\* Two mounts do not make one name at the same time, nor does one make a directory of the
\* name that the other unlinks.
Clash(r, s) ==
    \/ r.op \in Making /\ s.op \in Making /\ SameName(r, s)
    \/ r.op = "create" /\ s.op = "unlink" /\ r.type = T_DIR /\ SameName(r, s)

\* A name is made where it is not, and what is unlinked is not a directory.
NameIsNew(r) == ~IsFound(Listing(r.ino), r.name)
UnlinksFiles(r) == \A i \in MatchingInums(Listing(r.ino), r.name) : server[i].type # T_DIR

Asks(c, r) ==
    \/ r = MountRequest /\ c \notin mounted
    \/ /\ mounted = Client
       /\ FitsInode(r)
       /\ HasArguments(r)
       /\ r.op \in Making => NameIsNew(r)
       /\ r.op = "unlink" => UnlinksFiles(r)
       /\ \A d \in Client \ {c} : ~Clash(r, req[d]) /\ ~Clash(req[d], r)

KernelNext ==
    \/ DirectoryStep
    \/ \E c \in Client : Reply(c) \/ \E r : Asks(c, r) /\ Take(c, r)

KernelSpec == DirectoryInit /\ [][KernelNext]_directoryVars

-----------------------------------------------------------------------------
\* Through locks, caches and flushes the directories are one name space, where making,
\* linking and unlinking are single steps and no name is given twice.
Linking(c) == req[c].op \in Making /\ stage[c] \in {"get", "put"}

OneNameSpace ==
    INSTANCE NameSpace WITH
        listing <- [d \in Inum |-> Listing(d)],
        made <- {i \in Inum : server[i] # FreeInode},
        nameless <- {made[c] : c \in {c \in Client : Linking(c)}}

ImplementsNameSpace == OneNameSpace!Spec

\* Whatever is taken up fits its inode, and no name is made twice.
RequestsFit ==
    [][\A c \in Client : req'[c] \notin {req[c], NoRequest} => Asks(c, req'[c])]_directoryVars
=============================================================================

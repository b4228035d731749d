----------------------------- MODULE ExtentTable -----------------------------
(***************************************************************************)
(* extent_client_cache, the whole table of every client, in front of the   *)
(* extents of the server: creation, types and removal, which the one       *)
(* extent of ExtentClientCache leaves out.  Data are read and written      *)
(* under the lock of their inode; what an operation does is then one step  *)
(* (ExtentClientCache looks inside), and the RPCs succeed but for one.     *)
(***************************************************************************)
EXTENDS Naturals, Sequences

CONSTANTS
    Client,
    MaxInum,    \* bound: inodes there are
    StaleType   \* what an attr.type that nobody has set holds, in memory

ASSUME MaxInumIsPositive == MaxInum \in Nat \ {0}

VARIABLES
    server,     \* the inodes of the extent server, with their data
    table       \* extent_cache_table of each client

extentTableVars == <<server, table>>

Inum == 1 .. MaxInum
Root == 1
T_DIR == "dir"
T_FILE == "file"
T_SYMLK == "symlink"
Types == {T_DIR, T_FILE, T_SYMLK}
FreeInode == [type |-> "free", data |-> <<>>]

Absent == [m_state |-> "ABSENT", type |-> "none", size |-> 0, data |-> <<>>]
Fetched(i) == [m_state |-> "UPDATE", type |-> server[i].type,
               size |-> Len(server[i].data), data |-> server[i].data]
AttrOnly(i) == [m_state |-> "NONE", type |-> server[i].type,
                size |-> Len(server[i].data), data |-> <<>>]

Removed(c, i) == table[c][i].m_state = "REMOVED"
HasData(c, i) == table[c][i].m_state \in {"UPDATE", "MODIFIED"}

Store(c, i, e) == table' = [table EXCEPT ![c][i] = e]

\* What an inode holds: the data written last, which their writer may have kept.
Dirty(c, i) == table[c][i].m_state = "MODIFIED"
Contents(i) == IF \E c \in Client : Dirty(c, i)
                 THEN table[CHOOSE c \in Client : Dirty(c, i)][i].data
                 ELSE server[i].data

-----------------------------------------------------------------------------
\* create: the server takes the next inode, none ever becomes free again, and the
\* client keeps its attributes.
FreshInum == CHOOSE i \in Inum : /\ server[i] = FreeInode
                                 /\ \A j \in 1 .. i - 1 : server[j] # FreeInode

\* Mutant: the inode stays free on the server.
CreateInTable(c, type) ==
    /\ \E i \in Inum : server[i] = FreeInode
    /\ Store(c, FreshInum, [m_state |-> "NONE", type |-> type, size |-> 0, data |-> <<>>])
    /\ UNCHANGED server

Create(c, type) ==
    /\ \E i \in Inum : server[i] = FreeInode
    /\ server' = [server EXCEPT ![FreshInum].type = type]
    /\ Store(c, FreshInum, [m_state |-> "NONE", type |-> type, size |-> 0, data |-> <<>>])

\* getattr: the attributes that it returns, NOENT for a removed extent.
Attr(c, i) == IF table[c][i] = Absent THEN AttrOnly(i) ELSE table[c][i]

Getattr(c, i) == Store(c, i, Attr(c, i)) /\ UNCHANGED server

\* get: the data that it returns, none of a removed extent.
Entry(c, i) ==
    CASE table[c][i].m_state = "ABSENT" -> Fetched(i)
      [] table[c][i].m_state = "NONE" -> [Fetched(i) EXCEPT !.type = table[c][i].type]
      [] OTHER -> table[c][i]

Get(c, i) == Store(c, i, Entry(c, i)) /\ UNCHANGED server

\* put, which does nothing to a removed extent.  An entry that it makes has whatever
\* type the memory holds.
Put(c, i, d) ==
    /\ IF Removed(c, i)
         THEN UNCHANGED table
         ELSE Store(c, i, [m_state |-> "MODIFIED", size |-> Len(d), data |-> d,
                           type |-> IF table[c][i] = Absent THEN StaleType
                                                            ELSE table[c][i].type])
    /\ UNCHANGED server

\* remove, of several extents one after the other: the entries stay to be flushed.
Remove(c, is) ==
    /\ table' = [table EXCEPT ![c] =
                   [i \in Inum |-> IF i \in is THEN [table[c][i] EXCEPT !.m_state = "REMOVED"]
                                               ELSE table[c][i]]]
    /\ UNCHANGED server

\* Mutant: the entry outlives the lock.
FlushKeepsEntry(c, i) ==
    /\ server' = IF Dirty(c, i) THEN [server EXCEPT ![i].data = table[c][i].data] ELSE server
    /\ UNCHANGED table

\* flush.  The remove RPC of a removed extent is called without its argument (the
\* eid is taken for the place of the reply), so that the server frees nothing.
Flush(c, i) ==
    /\ server' = IF Dirty(c, i) THEN [server EXCEPT ![i].data = table[c][i].data] ELSE server
    /\ Store(c, i, Absent)

=============================================================================

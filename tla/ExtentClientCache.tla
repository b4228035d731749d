-------------------------- MODULE ExtentClientCache --------------------------
(***************************************************************************)
(* extent_client_cache, the write-back cache that each client keeps in     *)
(* front of the extent server, for one extent: table entries of different  *)
(* extents never touch each other.  The extent has been created and is not *)
(* removed.  An operation holds the mutex of the client's cache through    *)
(* its RPC, so it is one action, except a get that finds no entry, which   *)
(* makes two.  The RPCs succeed; access times are left out.                *)
(***************************************************************************)
EXTENDS LockProtocol, Naturals

CONSTANT Data      \* what an extent can hold, a set of sequences of bytes

VARIABLES
    extent,     \* the data the extent server has; its attr.size is their length
    cache,      \* extent_cache_table[eid] of each client
    buf,        \* the data a thread has got, a local variable of its operation
    fetching    \* the thread is in get, between its two RPCs, with the mutex

extentVars == <<extent, cache, buf, fetching>>

\* enum state, and ABSENT for an eid that the table does not contain.
Absent == [m_state |-> "ABSENT", data |-> <<>>, size |-> 0]
\* Mutant: the size leaves out the last byte.
AttrOnlyShort(n) == [m_state |-> "NONE", data |-> <<>>, size |-> n - 1]
AttrOnly(n) == [m_state |-> "NONE", data |-> <<>>, size |-> n]
Updated(d, n) == [m_state |-> "UPDATE", data |-> d, size |-> n]
Modified(d) == [m_state |-> "MODIFIED", data |-> d, size |-> Len(d)]

Entries == [m_state : {"ABSENT", "NONE", "UPDATE", "MODIFIED"}, data : Data, size : Nat]

MutexIsFree(c) == \A u \in Thread : ClientOf[u] = c => ~fetching[u]

Store(c, e) == cache' = [cache EXCEPT ![c] = e]

-----------------------------------------------------------------------------
\* getattr returns AttrSize(c), and keeps what it had to ask the server for.
AttrSize(c) == IF cache[c] = Absent THEN Len(extent) ELSE cache[c].size

Getattr(c) ==
    /\ MutexIsFree(c)
    /\ IF cache[c] = Absent THEN Store(c, AttrOnly(Len(extent))) ELSE UNCHANGED cache
    /\ UNCHANGED <<extent, buf, fetching>>

\* get of data that are there.
GetCached(t) ==
    LET c == ClientOf[t]
    IN  /\ MutexIsFree(c)
        /\ cache[c].m_state \in {"UPDATE", "MODIFIED"}
        /\ buf' = [buf EXCEPT ![t] = cache[c].data]
        /\ UNCHANGED <<extent, cache, fetching>>

\* get when only the attributes are there: they stay, but for the size.
GetData(t) ==
    LET c == ClientOf[t]
    IN  /\ MutexIsFree(c)
        /\ cache[c].m_state = "NONE"
        /\ buf' = [buf EXCEPT ![t] = extent]
        /\ Store(c, Updated(extent, Len(extent)))
        /\ UNCHANGED <<extent, fetching>>

\* get without an entry: the data, then the attributes.
GetDataFirst(t) ==
    LET c == ClientOf[t]
    IN  /\ MutexIsFree(c)
        /\ cache[c] = Absent
        /\ buf' = [buf EXCEPT ![t] = extent]
        /\ fetching' = [fetching EXCEPT ![t] = TRUE]
        /\ UNCHANGED <<extent, cache>>

GetAttrNext(t) ==
    /\ fetching[t]
    /\ Store(ClientOf[t], Updated(buf[t], Len(extent)))
    /\ fetching' = [fetching EXCEPT ![t] = FALSE]
    /\ UNCHANGED <<extent, buf>>

\* Mutant: an entry that holds data already keeps its state.
PutKeepsState(t, d) ==
    LET c == ClientOf[t]
    IN  /\ MutexIsFree(c)
        /\ Store(c, IF cache[c].m_state = "UPDATE" THEN Updated(d, Len(d)) ELSE Modified(d))
        /\ buf' = [buf EXCEPT ![t] = d]
        /\ UNCHANGED <<extent, fetching>>

\* put changes the cache only, whatever is in it.
Put(t, d) ==
    LET c == ClientOf[t]
    IN  /\ MutexIsFree(c)
        /\ Store(c, Modified(d))
        /\ buf' = [buf EXCEPT ![t] = d]
        /\ UNCHANGED <<extent, fetching>>

\* Mutant: data written back stay in the cache.
FlushKeepsEntry(c) ==
    /\ MutexIsFree(c)
    /\ extent' = IF cache[c].m_state = "MODIFIED" THEN cache[c].data ELSE extent
    /\ Store(c, IF cache[c].m_state = "MODIFIED"
                  THEN Updated(cache[c].data, cache[c].size) ELSE Absent)
    /\ UNCHANGED <<buf, fetching>>

\* flush writes modified data back to the server and forgets the entry.
Flush(c) ==
    /\ MutexIsFree(c)
    /\ extent' = IF cache[c].m_state = "MODIFIED" THEN cache[c].data ELSE extent
    /\ Store(c, Absent)
    /\ UNCHANGED <<buf, fetching>>

=============================================================================

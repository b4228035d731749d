------------------------ MODULE DirectoryServiceProofs ------------------------
(***************************************************************************)
(* Directories and their extents, in two parts.  Under any requests on any *)
(* inodes: data stay with the lock, and an operation puts back what it has *)
(* got (DInv).  Under the requests of a kernel: everything keeps to its    *)
(* type (TypeInv), an inode has one name and, once it is removed, none     *)
(* (NameInv), and directories are one name space.                          *)
(***************************************************************************)
EXTENDS NameInvariant, WellFoundedInduction, SequenceTheorems, TLAPS

\* The extents and the tables are functions, whose entries have the fields that the code
\* reads.
States == {"ABSENT", "NONE", "UPDATE", "MODIFIED", "REMOVED"}

Shapes ==
    /\ DOMAIN server = Inum
    /\ \A i \in Inum : DOMAIN server[i] = {"type", "data"}
    /\ DOMAIN table = Client
    /\ \A c \in Client :
          /\ DOMAIN table[c] = Inum
          /\ \A i \in Inum :
                /\ DOMAIN table[c][i] = {"m_state", "type", "size", "data"}
                /\ table[c][i].m_state \in States

\* So are the other variables.
RequestShapes ==
    /\ owner \in [Inum -> Client \cup {NoClient}]
    /\ returning \in [Inum -> BOOLEAN]
    /\ stage \in [Client -> Waiting \cup Locked \cup Unlocked]
    /\ DOMAIN req = Client
    /\ DOMAIN ino = Client
    /\ DOMAIN buf = Client

\* Until it answers with another inode, a request works on the one that it names.
Early == {"idle", "isdir", "lock", "getattr", "create", "get", "remove", "put", "flush", "unlock"}

WorksOnInode(c) == stage[c] \in Early => ino[c] \in Inum

\* Who is in a lock has it, and has not begun to give it back.
InsideIsOwner(c) == \A i \in Inum : Inside(c, i) => owner[i] = c /\ ~returning[i]

\* Only an owner gives a lock back.
ReturningIsOwned == \A i \in Inum : returning[i] => owner[i] \in Client

\* Which operations come by which calls.
StagesFit(c) ==
    /\ stage[c] = "getattr" => req[c].op \in {"lookup", "readdir", "setattr"}
    /\ stage[c] = "create" => req[c].op \in {"create", "symlink"}
    /\ stage[c] = "remove" => req[c].op = "unlink"
    /\ stage[c] = "put" => req[c].op \notin {"read", "readlink"}
    /\ stage[c] = "flush" => req[c].op = "write"

\* What has been got is still in the table.
InHandIsCached(c) ==
    GotData(c) /\ ~Removed(c, ino[c]) => HasData(c, ino[c]) /\ buf[c] = table[c][ino[c]].data

\* DataAreOwned, of one client.
DataOfOwner(c) ==
    \A i \in Inum :
        HasData(c, i) => /\ owner[i] = c
                         /\ ~returning[i]
                         /\ ~Dirty(c, i) => table[c][i].data = server[i].data

DInv ==
    /\ Shapes
    /\ RequestShapes
    /\ ReturningIsOwned
    /\ \A c \in Client :
          /\ WorksOnInode(c)
          /\ InsideIsOwner(c)
          /\ StagesFit(c)
          /\ DataOfOwner(c)
          /\ InHandIsCached(c)

-----------------------------------------------------------------------------
\* The operations of a client's table.  OthersKeep: those of other clients stay.
OthersKeep(c) == \A d \in Client \ {c} : table'[d] = table[d]
EntriesBut(c, i) == \A j \in Inum \ {i} : table'[c][j] = table[c][j]
DataStay == \A j \in Inum : server'[j].data = server[j].data

\* No entry comes to have other data.
NoNewData(c) == \A j \in Inum : HasData(c, j)' => table'[c][j] = table[c][j]

LEMMA StoreSetsEntry ==
    ASSUME Shapes, NEW c \in Client, NEW i, NEW e, Store(c, i, e),
           i \in Inum => DOMAIN e = {"m_state", "type", "size", "data"} /\ e.m_state \in States,
           UNCHANGED server
    PROVE  /\ Shapes'
           /\ OthersKeep(c)
           /\ EntriesBut(c, i)
           /\ i \in Inum => table'[c][i] = e
<1>1. /\ DOMAIN table' = Client
      /\ DOMAIN table'[c] = Inum
  BY DEF Store, Shapes
<1>2. OthersKeep(c) /\ EntriesBut(c, i)
  BY DEF Store, Shapes, OthersKeep, EntriesBut
<1>3. i \in Inum => table'[c][i] = e
  BY DEF Store, Shapes
<1>4. Shapes'
  BY <1>1, <1>2, <1>3 DEF Shapes, OthersKeep, EntriesBut
<1> QED
  BY <1>2, <1>3, <1>4

LEMMA FetchedShape ==
    ASSUME NEW i
    PROVE  /\ DOMAIN Fetched(i) = {"m_state", "type", "size", "data"}
           /\ Fetched(i).m_state = "UPDATE"
           /\ Fetched(i).data = server[i].data
           /\ DOMAIN AttrOnly(i) = {"m_state", "type", "size", "data"}
           /\ AttrOnly(i).m_state = "NONE"
BY DEF Fetched, AttrOnly

LEMMA GetattrKeeps ==
    ASSUME Shapes, NEW c \in Client, NEW i, Getattr(c, i)
    PROVE  Shapes' /\ OthersKeep(c) /\ DataStay /\ NoNewData(c)
<1>1. i \in Inum => /\ DOMAIN Attr(c, i) = {"m_state", "type", "size", "data"}
                    /\ Attr(c, i).m_state \in States
  BY FetchedShape DEF Attr, Shapes, States
<1>2. Store(c, i, Attr(c, i)) /\ UNCHANGED server
  BY DEF Getattr
<1>3. /\ Shapes' /\ OthersKeep(c) /\ EntriesBut(c, i)
      /\ i \in Inum => table'[c][i] = Attr(c, i)
  <2> HIDE DEF Attr
  <2> QED BY <1>1, <1>2, StoreSetsEntry
<1>4. i \in Inum /\ HasData(c, i)' => table'[c][i] = table[c][i]
  BY <1>3, FetchedShape DEF Attr, HasData
<1> QED
  BY <1>2, <1>3, <1>4 DEF EntriesBut, NoNewData, DataStay

LEMMA EntryOfTable ==
    ASSUME Shapes, NEW c \in Client, NEW i \in Inum
    PROVE  /\ DOMAIN Entry(c, i) = {"m_state", "type", "size", "data"}
           /\ Entry(c, i).m_state \in States
           /\ ~Removed(c, i) => Entry(c, i).m_state \in {"UPDATE", "MODIFIED"}
           /\ Removed(c, i) => Entry(c, i) = table[c][i]
           /\ HasData(c, i) => Entry(c, i) = table[c][i]
           /\ ~Removed(c, i) /\ ~HasData(c, i) =>
                Entry(c, i).m_state = "UPDATE" /\ Entry(c, i).data = server[i].data
<1>1. table[c][i].m_state \in States
  BY DEF Shapes
<1>2. CASE table[c][i].m_state = "ABSENT"
  <2>1. Entry(c, i) = Fetched(i)
    BY <1>2 DEF Entry
  <2> QED
    BY <1>2, <2>1, FetchedShape DEF Removed, HasData, States
<1>3. CASE table[c][i].m_state = "NONE"
  <2>1. Entry(c, i) = [Fetched(i) EXCEPT !.type = table[c][i].type]
    BY <1>3 DEF Entry
  <2>2. /\ DOMAIN Entry(c, i) = {"m_state", "type", "size", "data"}
        /\ Entry(c, i).m_state = "UPDATE"
        /\ Entry(c, i).data = server[i].data
    BY <2>1 DEF Fetched
  <2> QED
    BY <1>3, <2>2 DEF Removed, HasData, States
<1>4. CASE table[c][i].m_state \in {"UPDATE", "MODIFIED", "REMOVED"}
  <2>1. Entry(c, i) = table[c][i]
    BY <1>4 DEF Entry
  <2> QED
    BY <1>4, <2>1 DEF Removed, HasData, States, Shapes
<1> QED
  BY <1>1, <1>2, <1>3, <1>4 DEF States

LEMMA GetFetches ==
    ASSUME Shapes, NEW c \in Client, NEW i \in Inum, Get(c, i)
    PROVE  /\ Shapes' /\ OthersKeep(c) /\ EntriesBut(c, i)
           /\ UNCHANGED server
           /\ table'[c][i] = Entry(c, i)
<1>1. Store(c, i, Entry(c, i)) /\ UNCHANGED server
  BY DEF Get
<1> QED
  BY <1>1, EntryOfTable, StoreSetsEntry

LEMMA PutStores ==
    ASSUME Shapes, NEW c \in Client, NEW i, NEW d, Put(c, i, d)
    PROVE  /\ Shapes' /\ OthersKeep(c) /\ EntriesBut(c, i)
           /\ UNCHANGED server
           /\ i \in Inum => \/ Removed(c, i) /\ table'[c][i] = table[c][i]
                            \/ table'[c][i].m_state = "MODIFIED"
<1>1. CASE Removed(c, i)
  BY <1>1 DEF Put, Shapes, OthersKeep, EntriesBut
<1>2. CASE ~Removed(c, i)
  <2> DEFINE e == [m_state |-> "MODIFIED", size |-> Len(d), data |-> d,
                   type |-> IF table[c][i] = Absent THEN StaleType ELSE table[c][i].type]
  <2>1. Store(c, i, e) /\ UNCHANGED server
    BY <1>2 DEF Put
  <2>2. DOMAIN e = {"m_state", "type", "size", "data"} /\ e.m_state = "MODIFIED"
    OBVIOUS
  <2> HIDE DEF e
  <2> QED
    BY <2>1, <2>2, StoreSetsEntry DEF States
<1> QED
  BY <1>1, <1>2

LEMMA RemoveMarks ==
    ASSUME Shapes, NEW c \in Client, NEW is, Remove(c, is)
    PROVE  /\ Shapes' /\ OthersKeep(c)
           /\ UNCHANGED server
           /\ \A j \in Inum : Removed(c, j)' \/ table'[c][j] = table[c][j]
<1>1. /\ DOMAIN table' = Client
      /\ OthersKeep(c)
      /\ table'[c] = [i \in Inum |-> IF i \in is THEN [table[c][i] EXCEPT !.m_state = "REMOVED"]
                                                 ELSE table[c][i]]
      /\ UNCHANGED server
  BY DEF Remove, Shapes, OthersKeep
<1>2. ASSUME NEW j \in Inum
      PROVE  /\ DOMAIN table'[c][j] = {"m_state", "type", "size", "data"}
             /\ table'[c][j].m_state \in States
             /\ Removed(c, j)' \/ table'[c][j] = table[c][j]
  <2>1. CASE j \in is
    <3>1. table'[c][j] = [table[c][j] EXCEPT !.m_state = "REMOVED"]
      BY <1>1, <2>1
    <3>2. DOMAIN table[c][j] = {"m_state", "type", "size", "data"}
      BY DEF Shapes
    <3>3. DOMAIN table'[c][j] = DOMAIN table[c][j] /\ table'[c][j].m_state = "REMOVED"
      BY <3>1, <3>2
    <3> QED
      BY <3>2, <3>3 DEF Removed, States
  <2>2. CASE j \notin is
    BY <1>1, <2>2 DEF Shapes
  <2> QED
    BY <2>1, <2>2
<1> QED
  BY <1>1, <1>2 DEF Shapes, OthersKeep

LEMMA CreateMakesEntry ==
    ASSUME Shapes, NEW c \in Client, NEW type, Create(c, type)
    PROVE  Shapes' /\ OthersKeep(c) /\ DataStay /\ NoNewData(c)
<1> DEFINE e == [m_state |-> "NONE", type |-> type, size |-> 0, data |-> <<>>]
<1>1. Store(c, FreshInum, e) /\ server' = [server EXCEPT ![FreshInum].type = type]
  BY DEF Create
<1>2. DOMAIN e = {"m_state", "type", "size", "data"} /\ e.m_state = "NONE"
  OBVIOUS
<1> HIDE DEF e, FreshInum
<1>3. /\ DOMAIN server' = Inum
      /\ DataStay
      /\ \A i \in Inum : DOMAIN server'[i] = {"type", "data"}
  BY <1>1 DEF Shapes, DataStay
<1>4. /\ DOMAIN table' = Client
      /\ DOMAIN table'[c] = Inum
      /\ OthersKeep(c)
      /\ \A j \in Inum : table'[c][j] = e \/ table'[c][j] = table[c][j]
  BY <1>1 DEF Store, Shapes, OthersKeep
<1>5. Shapes'
  BY <1>2, <1>3, <1>4 DEF Shapes, States, OthersKeep
<1>6. NoNewData(c)
  BY <1>2, <1>4 DEF NoNewData, HasData
<1> QED
  BY <1>3, <1>4, <1>5, <1>6

LEMMA FlushWritesBack ==
    ASSUME Shapes, NEW c \in Client, NEW i, Flush(c, i)
    PROVE  /\ Shapes' /\ OthersKeep(c) /\ EntriesBut(c, i)
           /\ i \in Inum => ~HasData(c, i)' /\ ~Removed(c, i)'
           /\ \A j \in Inum : j # i \/ ~Dirty(c, i) => server'[j] = server[j]
<1>1. /\ server' = IF Dirty(c, i) THEN [server EXCEPT ![i].data = table[c][i].data] ELSE server
      /\ Store(c, i, Absent)
  BY DEF Flush
<1>2. /\ DOMAIN server' = Inum
      /\ \A j \in Inum : DOMAIN server'[j] = {"type", "data"}
      /\ \A j \in Inum : j # i \/ ~Dirty(c, i) => server'[j] = server[j]
  BY <1>1 DEF Shapes
<1>3. DOMAIN Absent = {"m_state", "type", "size", "data"} /\ Absent.m_state = "ABSENT"
  BY DEF Absent
<1>4. /\ DOMAIN table' = Client
      /\ DOMAIN table'[c] = Inum
      /\ OthersKeep(c)
      /\ EntriesBut(c, i)
      /\ i \in Inum => table'[c][i] = Absent
  BY <1>1 DEF Store, Shapes, OthersKeep, EntriesBut
<1>5. Shapes'
  BY <1>2, <1>3, <1>4 DEF Shapes, States, OthersKeep, EntriesBut
<1> QED
  BY <1>2, <1>3, <1>4, <1>5 DEF HasData, Removed

-----------------------------------------------------------------------------
\* A step of client c that leaves the locks alone.
Stays(c) ==
    /\ UNCHANGED lockVars
    /\ OthersKeep(c)
    /\ DOMAIN req' = Client /\ DOMAIN ino' = Client /\ DOMAIN buf' = Client
    /\ \A d \in Client \ {c} : req'[d] = req[d] /\ ino'[d] = ino[d] /\ buf'[d] = buf[d]
    /\ \A d \in Client \ {c} : \A i \in Inum : HasData(d, i) => server'[i].data = server[i].data

LEMMA ActorStep ==
    ASSUME DInv, NEW c \in Client, Shapes', Stays(c),
           NEW s \in Waiting \cup Locked \cup Unlocked, Proceed(c, s),
           s \in Locked => stage[c] \in Locked /\ ino'[c] = ino[c],
           WorksOnInode(c)', StagesFit(c)', DataOfOwner(c)', InHandIsCached(c)'
    PROVE  DInv'
<1>1. stage' \in [Client -> Waiting \cup Locked \cup Unlocked]
  BY DEF DInv, RequestShapes, Proceed
<1>2. stage'[c] = s /\ \A d \in Client \ {c} : stage'[d] = stage[d]
  BY DEF DInv, RequestShapes, Proceed
<1>3. RequestShapes' /\ ReturningIsOwned'
  BY <1>1 DEF DInv, RequestShapes, ReturningIsOwned, Stays, lockVars
<1>4. InsideIsOwner(c)'
  BY <1>2 DEF DInv, InsideIsOwner, Inside, Stays, lockVars
<1>5. ASSUME NEW d \in Client \ {c}
      PROVE  (WorksOnInode(d) /\ InsideIsOwner(d) /\ StagesFit(d) /\ DataOfOwner(d) /\ InHandIsCached(d))'
  <2>1. /\ stage'[d] = stage[d] /\ ino'[d] = ino[d] /\ req'[d] = req[d] /\ buf'[d] = buf[d]
        /\ table'[d] = table[d] /\ owner' = owner /\ returning' = returning
    BY <1>2 DEF Stays, OthersKeep, lockVars
  <2>2. WorksOnInode(d)' /\ InsideIsOwner(d)' /\ StagesFit(d)'
    BY <2>1 DEF DInv, WorksOnInode, InsideIsOwner, Inside, StagesFit
  <2>3. DataOfOwner(d)'
    BY <2>1 DEF DInv, DataOfOwner, Stays, HasData, Dirty
  <2>4. InHandIsCached(d)'
    BY <2>1 DEF DInv, InHandIsCached, GotData, Removed, HasData
  <2> QED
    BY <2>2, <2>3, <2>4
<1> QED
  BY <1>3, <1>4, <1>5 DEF DInv

\* Steps of a client that do not touch extents and tables.
LEMMA QuietStep ==
    ASSUME DInv, NEW c \in Client, UNCHANGED <<extentTableVars, lockVars>>,
           DOMAIN req' = Client, DOMAIN ino' = Client, DOMAIN buf' = Client,
           \A d \in Client \ {c} : req'[d] = req[d] /\ ino'[d] = ino[d] /\ buf'[d] = buf[d],
           NEW s \in Waiting \cup Unlocked, Proceed(c, s),
           s \in Early => ino'[c] \in Inum
    PROVE  DInv'
<1>1. Shapes' /\ Stays(c)
  BY DEF DInv, Shapes, Stays, OthersKeep, extentTableVars, HasData
<1>2. stage'[c] = s
  BY DEF DInv, RequestShapes, Proceed
<1>3. s \notin Locked /\ s \notin {"getattr", "create", "remove", "put", "flush", "unlock"}
  BY DEF Waiting, Unlocked, Locked
<1>4. WorksOnInode(c)' /\ StagesFit(c)' /\ InHandIsCached(c)'
  BY <1>2, <1>3 DEF WorksOnInode, StagesFit, InHandIsCached, GotData
<1>5. DataOfOwner(c)'
  BY DEF DInv, DataOfOwner, HasData, Dirty, extentTableVars, lockVars
<1> QED
  BY <1>1, <1>3, <1>4, <1>5, ActorStep

LEMMA TakeKeeps ==
    ASSUME DInv, NEW c \in Client, NEW r, r.ino \in Inum, Take(c, r)
    PROVE  DInv'
<1> DEFINE s == CASE r.op = "readdir" -> "isdir"
                  [] r.op = "getattr" -> "typed"
                  [] OTHER -> "lock"
<1>1. /\ Proceed(c, s)
      /\ req' = [req EXCEPT ![c] = r]
      /\ ino' = [ino EXCEPT ![c] = r.ino]
      /\ buf' = buf
      /\ UNCHANGED <<extentTableVars, lockVars>>
  BY DEF Take
<1>2. s \in Waiting \cup Unlocked
  BY DEF Waiting, Unlocked
<1> HIDE DEF s
<1>3. /\ DOMAIN req' = Client /\ DOMAIN ino' = Client /\ DOMAIN buf' = Client
      /\ ino'[c] = r.ino
      /\ \A d \in Client \ {c} : req'[d] = req[d] /\ ino'[d] = ino[d] /\ buf'[d] = buf[d]
  BY <1>1 DEF DInv, RequestShapes
<1> QED
  BY <1>1, <1>2, <1>3, QuietStep

LEMMA UnlockKeeps ==
    ASSUME DInv, NEW c \in Client, Unlock(c)
    PROVE  DInv'
<1>1. PICK s \in {"typed", "lock_link", "done"} : Proceed(c, s)
  BY DEF Unlock
<1>2. /\ DOMAIN req' = Client /\ DOMAIN ino' = Client /\ DOMAIN buf' = Client
      /\ \A d \in Client \ {c} : req'[d] = req[d] /\ ino'[d] = ino[d] /\ buf'[d] = buf[d]
      /\ UNCHANGED <<extentTableVars, lockVars>>
  BY DEF Unlock, DInv, RequestShapes
<1>3. s \in Waiting \cup Unlocked /\ s \notin Early
  BY DEF Waiting, Unlocked, Early
<1> QED
  BY <1>1, <1>2, <1>3, QuietStep

LEMMA AnswerKeeps ==
    ASSUME DInv, NEW c \in Client, UnlockLink(c) \/ UnlockStat(c) \/ Reply(c)
    PROVE  DInv'
<1>1. CASE UnlockLink(c) \/ UnlockStat(c)
  <2>1. PICK s \in {"typed", "done"} : Proceed(c, s)
    BY <1>1 DEF UnlockLink, UnlockStat
  <2>2. /\ DOMAIN req' = Client /\ DOMAIN ino' = Client /\ DOMAIN buf' = Client
        /\ \A d \in Client \ {c} : req'[d] = req[d] /\ ino'[d] = ino[d] /\ buf'[d] = buf[d]
        /\ UNCHANGED <<extentTableVars, lockVars>>
    BY <1>1 DEF UnlockLink, UnlockStat, DInv, RequestShapes
  <2>3. s \in Waiting \cup Unlocked /\ s \notin Early
    BY DEF Waiting, Unlocked, Early
  <2> QED
    BY <2>1, <2>2, <2>3, QuietStep
<1>2. CASE Reply(c)
  <2>1. /\ DOMAIN req' = Client /\ DOMAIN ino' = Client /\ DOMAIN buf' = Client
        /\ \A d \in Client \ {c} : req'[d] = req[d] /\ ino'[d] = ino[d] /\ buf'[d] = buf[d]
        /\ ino'[c] = Root
        /\ UNCHANGED <<extentTableVars, lockVars>>
    BY <1>2 DEF Reply, DInv, RequestShapes
  <2>2. Proceed(c, "idle") /\ "idle" \in Waiting \cup Unlocked
    BY <1>2 DEF Reply, Unlocked
  <2>3. Root \in Inum
    BY MaxInumIsPositive DEF Root, Inum
  <2> QED
    BY <2>1, <2>2, <2>3, QuietStep
<1> QED
  BY <1>1, <1>2

\* Getattr, under the lock or without it.
LEMMA GetattrStepsKeep ==
    ASSUME DInv, NEW c \in Client, IsDir(c) \/ GetattrStep(c) \/ Typed(c) \/ Stat(c)
    PROVE  DInv'
<1>1. Getattr(c, ino[c]) /\ UNCHANGED <<lockVars, req, ino, buf>>
  BY DEF IsDir, GetattrStep, Typed, Stat
<1>2. /\ Shapes' /\ OthersKeep(c) /\ DataStay /\ NoNewData(c)
  BY <1>1, GetattrKeeps DEF DInv
<1>3. Stays(c)
  BY <1>1, <1>2 DEF Stays, DInv, RequestShapes, DataStay
<1>4. DataOfOwner(c)'
  BY <1>1, <1>2 DEF DInv, DataOfOwner, HasData, Dirty, NoNewData, DataStay, lockVars
<1>5. PICK s \in {"lock", "done", "get", "unlock", "lock_stat", "unlock_stat"} :
          /\ Proceed(c, s)
          /\ s \in {"get", "unlock", "unlock_stat"} => stage[c] \in {"getattr", "stat"}
          /\ s \in {"get", "lock", "unlock"} => stage[c] \in {"isdir", "getattr"}
          /\ s = "unlock" => stage[c] = "getattr"
  BY DEF IsDir, GetattrStep, Typed, Stat
<1>6. stage'[c] = s
  BY <1>5 DEF DInv, RequestShapes, Proceed
<1>7. WorksOnInode(c)' /\ StagesFit(c)' /\ InHandIsCached(c)'
  BY <1>1, <1>5, <1>6 DEF DInv, WorksOnInode, StagesFit, InHandIsCached, GotData, Early
<1>8. /\ s \in Waiting \cup Locked \cup Unlocked
      /\ s \in Locked => stage[c] \in Locked /\ ino'[c] = ino[c]
  BY <1>1, <1>5 DEF Waiting, Locked, Unlocked
<1> QED
  BY <1>2, <1>3, <1>4, <1>5, <1>7, <1>8, ActorStep

LEMMA CreateKeeps ==
    ASSUME DInv, NEW c \in Client, CreateStep(c)
    PROVE  DInv'
<1>1. /\ Create(c, req[c].type) /\ Proceed(c, "get")
      /\ stage[c] = "create"
      /\ UNCHANGED <<lockVars, req, ino, buf>>
  BY DEF CreateStep
<1>2. Shapes' /\ OthersKeep(c) /\ DataStay /\ NoNewData(c)
  BY <1>1, CreateMakesEntry DEF DInv
<1>3. Stays(c)
  BY <1>1, <1>2 DEF Stays, DInv, RequestShapes, DataStay
<1>4. DataOfOwner(c)'
  BY <1>1, <1>2 DEF DInv, DataOfOwner, HasData, Dirty, NoNewData, DataStay, lockVars
<1>5. stage'[c] = "get"
  BY <1>1 DEF DInv, RequestShapes, Proceed
<1>6. WorksOnInode(c)' /\ StagesFit(c)' /\ InHandIsCached(c)'
  BY <1>1, <1>5 DEF DInv, WorksOnInode, StagesFit, InHandIsCached, GotData, Early
<1>7. "get" \in Waiting \cup Locked \cup Unlocked /\ stage[c] \in Locked
  BY <1>1 DEF Locked
<1> QED
  BY <1>1, <1>2, <1>3, <1>4, <1>6, <1>7, ActorStep

LEMMA GetKeeps ==
    ASSUME DInv, NEW c \in Client, GetStep(c)
    PROVE  DInv'
<1> DEFINE i == ino[c]
<1>1. /\ stage[c] = "get"
      /\ Get(c, i)
      /\ buf' = [buf EXCEPT ![c] = DataOf(c)]
      /\ UNCHANGED <<lockVars, req, ino>>
  BY DEF GetStep
<1>2. i \in Inum /\ owner[i] = c /\ ~returning[i]
  BY <1>1 DEF DInv, WorksOnInode, InsideIsOwner, Inside, Early, Locked
<1>3. /\ Shapes' /\ OthersKeep(c) /\ EntriesBut(c, i)
      /\ UNCHANGED server
      /\ table'[c][i] = Entry(c, i)
  BY <1>1, <1>2, GetFetches DEF DInv
<1>4. PICK s \in {"unlock", "remove", "put"} :
          /\ Proceed(c, s)
          /\ s = "remove" => req[c].op = "unlink"
          /\ s = "put" => req[c].op \notin {"read", "readlink"}
  BY DEF GetStep
<1>5. /\ stage'[c] = s
      /\ buf'[c] = DataOf(c)
      /\ \A d \in Client \ {c} : buf'[d] = buf[d]
      /\ DOMAIN buf' = Client
  BY <1>1, <1>4 DEF DInv, RequestShapes, Proceed
<1>6. Stays(c)
  BY <1>1, <1>3, <1>5 DEF Stays, DInv, RequestShapes
<1>7. Shapes
  BY DEF DInv
<1>8. DataOfOwner(c)'
  <2>1. SUFFICES ASSUME NEW j \in Inum, HasData(c, j)'
                 PROVE  /\ owner[j] = c
                        /\ ~returning[j]
                        /\ ~Dirty(c, j)' => table'[c][j].data = server[j].data
    BY <1>1, <1>3 DEF DataOfOwner, lockVars
  <2>2. CASE j # i
    BY <1>3, <2>1, <2>2 DEF EntriesBut, DInv, DataOfOwner, HasData, Dirty
  <2>3. CASE j = i /\ HasData(c, i)
    BY <1>2, <1>3, <1>7, <2>1, <2>3, EntryOfTable DEF DInv, DataOfOwner, Dirty
  <2>4. CASE j = i /\ ~HasData(c, i)
    BY <1>2, <1>3, <1>7, <2>1, <2>4, EntryOfTable DEF HasData, Removed
  <2> QED
    BY <2>2, <2>3, <2>4
<1>9. InHandIsCached(c)'
  <2>1. SUFFICES ASSUME ~Removed(c, i)'
                 PROVE  HasData(c, i)' /\ buf'[c] = table'[c][i].data
    BY <1>1 DEF InHandIsCached
  <2>2. ~Removed(c, i)
    BY <1>1, <1>2, <1>3, <1>7, <2>1, EntryOfTable DEF Removed
  <2> QED
    BY <1>1, <1>2, <1>3, <1>5, <1>7, <2>2, EntryOfTable DEF HasData, DataOf
<1>10. WorksOnInode(c)' /\ StagesFit(c)'
  BY <1>1, <1>2, <1>4, <1>5 DEF WorksOnInode, StagesFit
<1>11. s \in Waiting \cup Locked \cup Unlocked /\ stage[c] \in Locked
  BY <1>1 DEF Locked
<1> QED
  BY <1>1, <1>3, <1>4, <1>6, <1>8, <1>9, <1>10, <1>11, ActorStep

LEMMA RemoveKeeps ==
    ASSUME DInv, NEW c \in Client, RemoveStep(c)
    PROVE  DInv'
<1>1. /\ stage[c] = "remove"
      /\ Remove(c, MatchingInums(buf[c], req[c].name))
      /\ Proceed(c, "put")
      /\ UNCHANGED <<lockVars, req, ino, buf>>
  BY DEF RemoveStep
<1>2. /\ Shapes' /\ OthersKeep(c)
      /\ UNCHANGED server
      /\ \A j \in Inum : Removed(c, j)' \/ table'[c][j] = table[c][j]
  BY <1>1, RemoveMarks DEF DInv
<1>3. Stays(c)
  BY <1>1, <1>2 DEF Stays, DInv, RequestShapes
<1>4. DataOfOwner(c)'
  BY <1>1, <1>2 DEF DInv, DataOfOwner, HasData, Removed, Dirty, lockVars
<1>5. stage'[c] = "put"
  BY <1>1 DEF DInv, RequestShapes, Proceed
<1>6. ino[c] \in Inum /\ req[c].op = "unlink"
  BY <1>1 DEF DInv, WorksOnInode, StagesFit, Early
<1>7. WorksOnInode(c)' /\ StagesFit(c)'
  BY <1>1, <1>5, <1>6 DEF WorksOnInode, StagesFit
<1>8. InHandIsCached(c)'
  BY <1>1, <1>2, <1>6 DEF DInv, InHandIsCached, GotData, Removed, HasData
<1>9. "put" \in Waiting \cup Locked \cup Unlocked /\ stage[c] \in Locked
  BY <1>1 DEF Locked
<1> QED
  BY <1>1, <1>2, <1>3, <1>4, <1>7, <1>8, <1>9, ActorStep

LEMMA PutKeeps ==
    ASSUME DInv, NEW c \in Client, PutStep(c) \/ PutLink(c)
    PROVE  DInv'
<1> DEFINE i == ino[c]
<1>1. /\ stage[c] \in {"put", "put_link"}
      /\ UNCHANGED <<lockVars, req, ino, buf>>
  BY DEF PutStep, PutLink
<1>2. PICK d : Put(c, i, d)
  BY DEF PutStep, PutLink
<1>3. /\ Shapes' /\ OthersKeep(c) /\ EntriesBut(c, i)
      /\ UNCHANGED server
      /\ i \in Inum => \/ Removed(c, i) /\ table'[c][i] = table[c][i]
                       \/ table'[c][i].m_state = "MODIFIED"
  BY <1>2, PutStores DEF DInv
<1>4. Stays(c)
  BY <1>1, <1>3 DEF Stays, DInv, RequestShapes
<1>5. i \in Inum => owner[i] = c /\ ~returning[i]
  BY <1>1 DEF DInv, InsideIsOwner, Inside, Locked
<1>6. DataOfOwner(c)'
  BY <1>1, <1>3, <1>5 DEF DInv, DataOfOwner, HasData, Removed, Dirty, EntriesBut, lockVars
<1>7. PICK s \in {"flush", "unlock", "flush_link"} :
          /\ Proceed(c, s)
          /\ s = "flush" => req[c].op = "write"
          /\ s \in {"flush", "unlock"} => stage[c] = "put"
  BY DEF PutStep, PutLink
<1>8. stage'[c] = s
  BY <1>7 DEF DInv, RequestShapes, Proceed
<1>9. WorksOnInode(c)' /\ StagesFit(c)' /\ InHandIsCached(c)'
  BY <1>1, <1>7, <1>8 DEF DInv, WorksOnInode, StagesFit, InHandIsCached, GotData, Early
<1>10. s \in Waiting \cup Locked \cup Unlocked /\ stage[c] \in Locked
  BY <1>1 DEF Locked
<1> QED
  BY <1>1, <1>3, <1>4, <1>6, <1>7, <1>9, <1>10, ActorStep

LEMMA FlushKeeps ==
    ASSUME DInv, NEW c \in Client, FlushStep(c)
    PROVE  DInv'
<1> DEFINE i == ino[c]
<1>1. /\ stage[c] \in {"flush", "flush_link"}
      /\ Flush(c, i)
      /\ UNCHANGED <<lockVars, req, ino, buf>>
  BY DEF FlushStep
<1>2. /\ Shapes' /\ OthersKeep(c) /\ EntriesBut(c, i)
      /\ i \in Inum => ~HasData(c, i)' /\ ~Removed(c, i)'
      /\ \A j \in Inum : j # i \/ ~Dirty(c, i) => server'[j] = server[j]
  BY <1>1, FlushWritesBack DEF DInv
<1>3. i \in Inum => owner[i] = c
  BY <1>1 DEF DInv, InsideIsOwner, Inside, Locked
<1>4. \A d \in Client \ {c} : HasData(d, i) /\ i \in Inum => FALSE
  BY <1>3 DEF DInv, DataOfOwner
<1>5. Stays(c)
  BY <1>1, <1>2, <1>4 DEF Stays, DInv, RequestShapes
<1>6. DataOfOwner(c)'
  BY <1>1, <1>2 DEF DInv, DataOfOwner, HasData, Dirty, EntriesBut, lockVars
<1>7. PICK s \in {"unlock", "unlock_link"} :
          Proceed(c, s) /\ (s = "unlock" => stage[c] = "flush")
  BY DEF FlushStep
<1>8. stage'[c] = s
  BY <1>7 DEF DInv, RequestShapes, Proceed
<1>9. WorksOnInode(c)' /\ StagesFit(c)' /\ InHandIsCached(c)'
  BY <1>1, <1>7, <1>8 DEF DInv, WorksOnInode, StagesFit, InHandIsCached, GotData, Early
<1>10. s \in Waiting \cup Locked \cup Unlocked /\ stage[c] \in Locked
  BY <1>1 DEF Locked
<1> QED
  BY <1>1, <1>2, <1>5, <1>6, <1>7, <1>9, <1>10, ActorStep

-----------------------------------------------------------------------------
\* The first call of an operation under its lock.
LEMMA EnterBegins ==
    ASSUME DInv, NEW c \in Client, stage[c] \in Waiting, Enter(c)
    PROVE  /\ UNCHANGED <<extentTableVars, returning, req, ino, buf>>
           /\ DOMAIN stage' = Client
           /\ stage'[c] \in {"put_link", "stat", "getattr", "create", "put", "get"}
           /\ \A d \in Client \ {c} : stage'[d] = stage[d]
           /\ WorksOnInode(c)' /\ StagesFit(c)'
           /\ ~GotData(c)'
<1> DEFINE first == CASE stage[c] = "lock_link" -> "put_link"
                      [] stage[c] = "lock_stat" -> "stat"
                      [] OTHER ->
                           CASE req[c].op \in {"lookup", "readdir", "setattr"} -> "getattr"
                             [] req[c].op \in {"create", "symlink"} -> "create"
                             [] req[c].op = "mount" -> "put"
                             [] OTHER -> "get"
<1>1. stage' = [stage EXCEPT ![c] = first] /\ UNCHANGED <<extentTableVars, returning, req, ino, buf>>
  BY DEF Enter
<1>2. /\ first \in {"put_link", "stat", "getattr", "create", "put", "get"}
      /\ first = "getattr" => req[c].op \in {"lookup", "readdir", "setattr"}
      /\ first = "create" => req[c].op \in {"create", "symlink"}
      /\ first = "put" => req[c].op = "mount"
      /\ first \in {"getattr", "create", "put", "get"} => stage[c] \notin {"lock_link", "lock_stat"}
  OBVIOUS
<1> HIDE DEF first
<1>3. stage'[c] = first /\ DOMAIN stage' = Client /\ \A d \in Client \ {c} : stage'[d] = stage[d]
  BY <1>1 DEF DInv, RequestShapes
<1>4. first \in Early => stage[c] = "lock"
  BY <1>2 DEF Early, Waiting
<1>5. WorksOnInode(c)'
  BY <1>1, <1>3, <1>4 DEF DInv, WorksOnInode, Early
<1>6. StagesFit(c)' /\ ~GotData(c)'
  BY <1>1, <1>2, <1>3 DEF StagesFit, GotData
<1> QED
  BY <1>1, <1>2, <1>3, <1>5, <1>6

\* A client gets into a lock that it has, or that nobody had.
LEMMA EnterKeeps ==
    ASSUME DInv, NEW c \in Client, NEW i, ino[c] = i, stage[c] \in Waiting, Enter(c),
           i \in Inum => ~returning[i],
           owner' \in [Inum -> Client \cup {NoClient}],
           i \in Inum => owner'[i] = c,
           i \in Inum => owner[i] \in {NoClient, c},
           \A j \in Inum \ {i} : owner'[j] = owner[j]
    PROVE  DInv'
<1>1. /\ UNCHANGED <<extentTableVars, returning, req, ino, buf>>
      /\ DOMAIN stage' = Client
      /\ stage'[c] \in {"put_link", "stat", "getattr", "create", "put", "get"}
      /\ \A d \in Client \ {c} : stage'[d] = stage[d]
      /\ WorksOnInode(c)' /\ StagesFit(c)'
      /\ ~GotData(c)'
  BY EnterBegins
<1>2. stage' \in [Client -> Waiting \cup Locked \cup Unlocked]
  <2>1. stage'[c] \in Locked
    BY <1>1 DEF Locked
  <2>2. stage' = [stage EXCEPT ![c] = stage'[c]]
    BY <2>1 DEF Enter, DInv, RequestShapes
  <2> QED
    BY <2>1, <2>2 DEF DInv, RequestShapes
<1>3. Shapes' /\ RequestShapes' /\ ReturningIsOwned'
  BY <1>1, <1>2 DEF DInv, Shapes, RequestShapes, ReturningIsOwned, extentTableVars
<1>4. ASSUME NEW d \in Client, NEW j \in Inum, HasData(d, j)
      PROVE  owner'[j] = owner[j]
  BY <1>4, NoClientIsNone DEF DInv, DataOfOwner
<1>5. ASSUME NEW d \in Client
      PROVE  DataOfOwner(d)'
  <2>1. \A j \in Inum : HasData(d, j)' => HasData(d, j)
    BY <1>1 DEF HasData, extentTableVars
  <2> QED
    BY <1>1, <1>4, <2>1 DEF DInv, DataOfOwner, Dirty, extentTableVars
<1>6. InsideIsOwner(c)'
  BY <1>1 DEF InsideIsOwner, Inside
<1>7. ASSUME NEW d \in Client \ {c}
      PROVE  (WorksOnInode(d) /\ InsideIsOwner(d) /\ StagesFit(d) /\ InHandIsCached(d))'
  <2>1. stage'[d] = stage[d] /\ ino' = ino /\ req' = req /\ buf' = buf /\ table' = table
    BY <1>1 DEF extentTableVars
  <2>2. WorksOnInode(d)' /\ StagesFit(d)' /\ InHandIsCached(d)'
    BY <2>1 DEF DInv, WorksOnInode, StagesFit, InHandIsCached, GotData, Removed, HasData
  <2>3. InsideIsOwner(d)'
    BY <1>1, <2>1, NoClientIsNone DEF DInv, InsideIsOwner, Inside
  <2> QED
    BY <2>2, <2>3
<1>8. InHandIsCached(c)'
  BY <1>1 DEF InHandIsCached
<1> QED
  BY <1>1, <1>3, <1>5, <1>6, <1>7, <1>8 DEF DInv

LEMMA GrantKeeps ==
    ASSUME DInv, NEW i \in Inum, Grant(i)
    PROVE  DInv'
<1>1. PICK c \in Client : Wants(c, i) /\ owner' = [owner EXCEPT ![i] = c] /\ Enter(c)
  BY DEF Grant
<1>2. owner[i] = NoClient
  BY DEF Grant
<1>3. ~returning[i]
  BY <1>2, NoClientIsNone DEF DInv, ReturningIsOwned
<1>4. /\ owner' \in [Inum -> Client \cup {NoClient}]
      /\ owner'[i] = c
      /\ \A j \in Inum \ {i} : owner'[j] = owner[j]
  BY <1>1 DEF DInv, RequestShapes
<1> QED
  BY <1>1, <1>2, <1>3, <1>4, EnterKeeps DEF Wants

LEMMA EnterAgainKeeps ==
    ASSUME DInv, NEW c \in Client, EnterAgain(c)
    PROVE  DInv'
<1>1. /\ stage[c] \in Waiting /\ Enter(c)
      /\ owner[ino[c]] = c /\ ~returning[ino[c]]
      /\ owner' = owner
  BY DEF EnterAgain, Wants
<1>2. owner' \in [Inum -> Client \cup {NoClient}]
  BY <1>1 DEF DInv, RequestShapes
<1> QED
  BY <1>1, <1>2, EnterKeeps

\* A lock goes back when its client is not in it.
LEMMA NotInHandOutside ==
    ASSUME NEW c \in Client, NEW i, ~Inside(c, i), GotData(c)
    PROVE  ino[c] # i
BY DEF GotData, Inside, Locked

LEMMA FlushForReleaseKeeps ==
    ASSUME DInv, NEW i \in Inum, FlushForRelease(i)
    PROVE  DInv'
<1> DEFINE c == owner[i]
<1>1. /\ c \in Client /\ ~Inside(c, i)
      /\ Flush(c, i)
      /\ returning' = [returning EXCEPT ![i] = TRUE]
      /\ UNCHANGED <<owner, stage, req, ino, buf>>
  BY DEF FlushForRelease, requestVars
<1>2. /\ Shapes' /\ OthersKeep(c) /\ EntriesBut(c, i)
      /\ ~HasData(c, i)' /\ ~Removed(c, i)'
      /\ \A j \in Inum : j # i \/ ~Dirty(c, i) => server'[j] = server[j]
  BY <1>1, FlushWritesBack DEF DInv
<1>3. RequestShapes' /\ ReturningIsOwned'
  BY <1>1 DEF DInv, RequestShapes, ReturningIsOwned
<1>4. \A j \in Inum : j # i => returning'[j] = returning[j]
  BY <1>1
<1>5. ASSUME NEW d \in Client
      PROVE  ~HasData(d, i)'
  <2>1. CASE d = c
    BY <1>1, <1>2, <2>1 DEF HasData
  <2>2. CASE d # c
    BY <1>1, <1>2, <2>2 DEF DInv, DataOfOwner, HasData, OthersKeep
  <2> QED
    BY <2>1, <2>2
<1>6. ASSUME NEW d \in Client, NEW j \in Inum, j # i
      PROVE  table'[d][j] = table[d][j] /\ server'[j] = server[j]
  BY <1>2, <1>6 DEF OthersKeep, EntriesBut
<1>7. ASSUME NEW d \in Client
      PROVE  DataOfOwner(d)'
  <2>1. SUFFICES ASSUME NEW j \in Inum, HasData(d, j)'
                 PROVE  /\ owner[j] = d
                        /\ ~returning'[j]
                        /\ ~Dirty(d, j)' => table'[d][j].data = server'[j].data
    BY <1>1 DEF DataOfOwner
  <2>2. j # i
    BY <1>5, <2>1
  <2> QED
    BY <1>4, <1>6, <2>1, <2>2 DEF DInv, DataOfOwner, HasData, Dirty
<1>8. ASSUME NEW d \in Client
      PROVE  WorksOnInode(d)' /\ StagesFit(d)'
  BY <1>1 DEF DInv, WorksOnInode, StagesFit
<1>9. ASSUME NEW d \in Client
      PROVE  InsideIsOwner(d)'
  BY <1>1, <1>4 DEF DInv, InsideIsOwner, Inside
<1>10. ASSUME NEW d \in Client
       PROVE  InHandIsCached(d)'
  <2>1. CASE ~GotData(d)
    BY <1>1, <2>1 DEF InHandIsCached, GotData
  <2>2. CASE GotData(d) /\ d = c
    <3>1. ino[d] # i
      BY <1>1, <2>2, NotInHandOutside
    <3>2. ino[d] \in Inum
      BY <2>2 DEF DInv, WorksOnInode, GotData, Early
    <3>3. table'[d][ino[d]] = table[d][ino[d]]
      BY <1>6, <3>1, <3>2
    <3> QED
      BY <1>1, <3>3 DEF DInv, InHandIsCached, GotData, Removed, HasData
  <2>3. CASE GotData(d) /\ d # c
    BY <1>1, <1>2, <2>3 DEF DInv, InHandIsCached, GotData, Removed, HasData, OthersKeep
  <2> QED
    BY <2>1, <2>2, <2>3
<1> QED
  BY <1>2, <1>3, <1>7, <1>8, <1>9, <1>10 DEF DInv

LEMMA ReleaseKeeps ==
    ASSUME DInv, NEW i \in Inum, Release(i)
    PROVE  DInv'
<1>1. /\ returning[i]
      /\ owner' = [owner EXCEPT ![i] = NoClient]
      /\ returning' = [returning EXCEPT ![i] = FALSE]
      /\ UNCHANGED <<server, table, stage, req, ino, buf>>
  BY DEF Release, extentTableVars, requestVars
<1>2. /\ ~returning'[i]
      /\ \A j \in Inum \ {i} : owner'[j] = owner[j] /\ returning'[j] = returning[j]
  BY <1>1 DEF DInv, RequestShapes
<1>3. Shapes' /\ RequestShapes' /\ ReturningIsOwned'
  BY <1>1, <1>2 DEF DInv, Shapes, RequestShapes, ReturningIsOwned
<1>4. ASSUME NEW c \in Client
      PROVE  WorksOnInode(c)' /\ StagesFit(c)' /\ InHandIsCached(c)'
  BY <1>1 DEF DInv, WorksOnInode, StagesFit, InHandIsCached, GotData, Removed, HasData
<1>5. ASSUME NEW c \in Client
      PROVE  InsideIsOwner(c)' /\ DataOfOwner(c)'
  BY <1>1, <1>2 DEF DInv, InsideIsOwner, Inside, DataOfOwner, HasData, Dirty
<1> QED
  BY <1>3, <1>4, <1>5 DEF DInv

-----------------------------------------------------------------------------
LEMMA DInvHoldsInitially == DirectoryInit => DInv
<1> SUFFICES ASSUME DirectoryInit PROVE DInv
  OBVIOUS
<1>1. Shapes
  BY DEF DirectoryInit, Shapes, States, Absent, FreeInode
<1>2. RequestShapes /\ ReturningIsOwned
  BY DEF DirectoryInit, RequestShapes, ReturningIsOwned, Unlocked
<1>3. Root \in Inum
  BY MaxInumIsPositive DEF Root, Inum
<1>4. ASSUME NEW c \in Client
      PROVE  WorksOnInode(c) /\ InsideIsOwner(c) /\ StagesFit(c) /\ InHandIsCached(c)
  BY <1>3 DEF DirectoryInit, WorksOnInode, InsideIsOwner, Inside, Locked, StagesFit,
              InHandIsCached, GotData
<1>5. ASSUME NEW c \in Client
      PROVE  DataOfOwner(c)
  BY DEF DirectoryInit, DataOfOwner, HasData, Absent
<1> QED
  BY <1>1, <1>2, <1>4, <1>5 DEF DInv

LEMMA StutterKeeps ==
    ASSUME DInv, UNCHANGED directoryVars
    PROVE  DInv'
<1>1. UNCHANGED <<server, table, owner, returning, stage, req, ino, buf>>
  BY DEF directoryVars, extentTableVars, lockVars, requestVars
<1>2. Shapes' /\ RequestShapes' /\ ReturningIsOwned'
  BY <1>1 DEF DInv, Shapes, RequestShapes, ReturningIsOwned
<1>3. ASSUME NEW c \in Client
      PROVE  WorksOnInode(c)' /\ InsideIsOwner(c)' /\ StagesFit(c)'
  BY <1>1 DEF DInv, WorksOnInode, InsideIsOwner, Inside, StagesFit
<1>4. ASSUME NEW c \in Client
      PROVE  DataOfOwner(c)' /\ InHandIsCached(c)'
  BY <1>1 DEF DInv, DataOfOwner, InHandIsCached, GotData, HasData, Dirty, Removed
<1> QED
  BY <1>2, <1>3, <1>4 DEF DInv

LEMMA DInvIsInductive == DInv /\ [DirectoryNext]_directoryVars => DInv'
<1> SUFFICES ASSUME DInv, [DirectoryNext]_directoryVars PROVE DInv'
  OBVIOUS
<1>1. ASSUME NEW c \in Client, Serve(c) PROVE DInv'
  BY <1>1, GetattrStepsKeep, EnterAgainKeeps, CreateKeeps, GetKeeps, RemoveKeeps, PutKeeps,
     FlushKeeps, UnlockKeeps, AnswerKeeps DEF Serve
<1>2. ASSUME NEW i \in Inum, LockStep(i) PROVE DInv'
  BY <1>2, GrantKeeps, FlushForReleaseKeeps, ReleaseKeeps DEF LockStep
<1>3. ASSUME NEW c \in Client, Reply(c) PROVE DInv'
  BY <1>3, AnswerKeeps
<1>4. ASSUME NEW c \in Client, NEW r, r.ino \in Inum, Take(c, r) PROVE DInv'
  BY <1>4, TakeKeeps
<1>5. CASE UNCHANGED directoryVars
  BY <1>5, StutterKeeps
<1> QED
  BY <1>1, <1>2, <1>3, <1>4, <1>5 DEF DirectoryNext, DirectoryStep

\* Whatever is requested, locks, tables and operations stay in step: who works on an inode
\* has its lock, and what has been got from it is still in the table.
THEOREM DirectoryInvariance == DirectorySpec => []DInv
BY DInvHoldsInitially, DInvIsInductive, PTL DEF DirectorySpec

\* Whatever is requested of whatever inode, data are cached only by the client that has
\* the lock, and what it has not changed is what the server has.
THEOREM CachesFollowLocks == DirectorySpec => []DataAreOwned
<1>1. DInv => DataAreOwned
  BY DEF DInv, DataOfOwner, DataAreOwned
<1> QED
  BY <1>1, DirectoryInvariance, PTL

\* The data that an operation has got and goes on with are still what the inode holds,
\* unless the client itself has removed it.
THEOREM OperationsAreCurrent == DirectorySpec => []DataInHandAreContents
<1>1. ASSUME DInv PROVE DataInHandAreContents
  <2>1. SUFFICES ASSUME NEW c \in Client, GotData(c), ~Removed(c, ino[c])
                 PROVE  buf[c] = Contents(ino[c])
    BY DEF DataInHandAreContents
  <2> DEFINE i == ino[c]
  <2>2. i \in Inum
    BY <1>1, <2>1 DEF DInv, WorksOnInode, GotData, Early
  <2>3. HasData(c, i) /\ buf[c] = table[c][i].data
    BY <1>1, <2>1 DEF DInv, InHandIsCached
  <2>4. owner[i] = c /\ (~Dirty(c, i) => table[c][i].data = server[i].data)
    BY <1>1, <2>2, <2>3 DEF DInv, DataOfOwner
  <2>5. \A d \in Client : Dirty(d, i) => d = c
    BY <1>1, <2>2, <2>4 DEF DInv, DataOfOwner, HasData, Dirty
  <2>6. CASE Dirty(c, i)
    <3>1. (CHOOSE d \in Client : Dirty(d, i)) = c
      BY <2>5, <2>6
    <3> QED
      BY <2>3, <2>6, <3>1 DEF Contents
  <2>7. CASE ~Dirty(c, i)
    BY <2>3, <2>4, <2>5, <2>7 DEF Contents
  <2> QED
    BY <2>6, <2>7
<1> QED
  BY <1>1, DirectoryInvariance, PTL

-----------------------------------------------------------------------------
\* The kernel's requests are requests: all that holds under any holds under them.
LEMMA KernelSteps == [KernelNext]_directoryVars => [DirectoryNext]_directoryVars
<1>1. Root \in Inum
  BY MaxInumIsPositive DEF Root, Inum
<1>2. ASSUME NEW c \in Client, NEW r, Asks(c, r)
      PROVE  r.ino \in Inum
  BY <1>1, <1>2 DEF Asks, MountRequest, FitsInode
<1> QED
  BY <1>2 DEF KernelNext, DirectoryNext

LEMMA KernelUsesDirectories == KernelSpec => DirectorySpec
BY KernelSteps, PTL DEF KernelSpec, DirectorySpec

LEMMA EntriesOfDirectory ==
    ASSUME NEW d \in Seq(Entries)
    PROVE  /\ Len(d) \in Nat /\ DOMAIN d = 1 .. Len(d)
           /\ \A k \in DOMAIN d : d[k] \in Entries /\ d[k].name \in Name /\ d[k].inum \in Inum
<1>1. Len(d) \in Nat /\ DOMAIN d = 1 .. Len(d) /\ \A k \in DOMAIN d : d[k] \in Entries
  OBVIOUS
<1>2. \A e \in Entries : e.name \in Name /\ e.inum \in Inum
  BY DEF Entries
<1> QED
  BY <1>1, <1>2

\* A set of numbers has a least element.
LEMMA LeastNumber ==
    ASSUME NEW T, T \subseteq Nat, T # {}
    PROVE  \E n \in T : \A m \in T : ~(m < n)
<1>1. PICK n \in T : \A m \in T : <<m, n>> \notin OpToRel(<, Nat)
  BY NatLessThanWellFounded, WFMin
<1> QED
  BY <1>1 DEF OpToRel

\* The loop of unlink, one round and all of them.
Round(d, n, f, k) == IF k = 0 THEN <<>>
                     ELSE IF d[k].name = n THEN f[k - 1]
                     ELSE Append(f[k - 1], d[k])
Rounds(d, n, m, f) == f = [k \in 0 .. m |-> Round(d, n, f, k)]

LEMMA LoopEnds ==
    ASSUME NEW d, NEW n, NEW m \in Nat
    PROVE  \E f : Rounds(d, n, m, f)
<1> DEFINE T == {j \in Nat : ~\E f : Rounds(d, n, j, f)}
<1> SUFFICES ASSUME T # {} PROVE FALSE
  OBVIOUS
<1>1. PICK j \in T : \A i \in T : ~(i < j)
  <2>1. T \subseteq Nat
    OBVIOUS
  <2> HIDE DEF T
  <2> QED
    BY <2>1, LeastNumber
<1>2. j \in Nat /\ \A f : ~Rounds(d, n, j, f)
  OBVIOUS
<1>3. CASE j = 0
  <2> DEFINE f == [k \in 0 .. 0 |-> <<>>]
  <2>1. f = [k \in 0 .. 0 |-> Round(d, n, f, k)]
    BY DEF Round
  <2> QED
    BY <1>2, <1>3, <2>1 DEF Rounds
<1>4. CASE j # 0
  <2>1. j - 1 \in Nat /\ j - 1 < j
    BY <1>2, <1>4
  <2>2. PICK g : Rounds(d, n, j - 1, g)
    BY <1>1, <2>1
  <2> DEFINE f == [k \in 0 .. j |-> IF k = j THEN Round(d, n, g, j) ELSE g[k]]
  <2>3. \A k \in 0 .. j - 1 : f[k] = g[k] /\ g[k] = Round(d, n, g, k)
    BY <1>2, <2>1, <2>2 DEF Rounds
  <2>4. ASSUME NEW k \in 0 .. j
        PROVE  f[k] = Round(d, n, f, k)
    <3>1. k # 0 => k - 1 \in 0 .. j - 1
      BY <1>2
    <3>2. Round(d, n, f, k) = Round(d, n, g, k)
      BY <2>3, <3>1 DEF Round
    <3>3. k # j => k \in 0 .. j - 1
      BY <1>2
    <3> HIDE DEF f
    <3>4. k = j => f[k] = Round(d, n, g, k)
      BY <1>2 DEF f
    <3> QED
      BY <2>3, <3>2, <3>3, <3>4
  <2>5. f = [k \in 0 .. j |-> f[k]]
    OBVIOUS
  <2> HIDE DEF f
  <2>6. f = [k \in 0 .. j |-> Round(d, n, f, k)]
    BY <2>4, <2>5
  <2> QED
    BY <1>2, <2>6 DEF Rounds
<1> QED
  BY <1>3, <1>4

LEMMA LoopOfUnlink ==
    ASSUME NEW d \in Seq(Entries), NEW n
    PROVE  \E f : Rounds(d, n, Len(d), f) /\ WithoutName(d, n) = f[Len(d)]
<1> DEFINE result[k \in 0 .. Len(d)] ==
              IF k = 0 THEN <<>>
              ELSE IF d[k].name = n THEN result[k - 1]
              ELSE Append(result[k - 1], d[k])
<1>1. \E f : f = [k \in 0 .. Len(d) |-> IF k = 0 THEN <<>>
                                        ELSE IF d[k].name = n THEN f[k - 1]
                                        ELSE Append(f[k - 1], d[k])]
  <2>1. Len(d) \in Nat
    OBVIOUS
  <2>2. PICK f : Rounds(d, n, Len(d), f)
    BY <2>1, LoopEnds
  <2> QED
    BY <2>2 DEF Rounds, Round
<1>2. result = [k \in 0 .. Len(d) |-> IF k = 0 THEN <<>>
                                      ELSE IF d[k].name = n THEN result[k - 1]
                                      ELSE Append(result[k - 1], d[k])]
  BY <1>1
<1>3. WithoutName(d, n) = result[Len(d)]
  BY DEF WithoutName
<1> HIDE DEF result
<1> QED
  BY <1>2, <1>3 DEF Rounds, Round

\* What unlink keeps are entries of other names, each of them once.
LEMMA KeptEntries ==
    ASSUME NEW d \in Seq(Entries), NEW n
    PROVE  LET w == WithoutName(d, n)
           IN  /\ w \in Seq(Entries)
               /\ \A k \in DOMAIN w : \E m \in DOMAIN d : w[k] = d[m] /\ d[m].name # n
               /\ (\A k, l \in DOMAIN d : d[k].inum = d[l].inum => k = l)
                    => \A k, l \in DOMAIN w : w[k].inum = w[l].inum => k = l
<1>1. PICK f : Rounds(d, n, Len(d), f) /\ WithoutName(d, n) = f[Len(d)]
  BY LoopOfUnlink
<1> DEFINE Once == \A k, l \in DOMAIN d : d[k].inum = d[l].inum => k = l
           Kept(k, w) ==
              /\ w \in Seq(Entries)
              /\ \A j \in DOMAIN w : \E m \in 1 .. k : w[j] = d[m] /\ d[m].name # n
              /\ Once => \A j, l \in DOMAIN w : w[j].inum = w[l].inum => j = l
           T == {k \in 0 .. Len(d) : ~Kept(k, f[k])}
<1>2. /\ Len(d) \in Nat /\ DOMAIN d = 1 .. Len(d)
      /\ \A k \in 1 .. Len(d) : d[k] \in Entries
  BY EntriesOfDirectory
<1>3. \A k \in 0 .. Len(d) : f[k] = Round(d, n, f, k)
  BY <1>1, <1>2 DEF Rounds
<1>4. T = {}
  <2> SUFFICES ASSUME T # {} PROVE FALSE
    OBVIOUS
  <2>1. T \subseteq Nat
    BY <1>2
  <2>2. PICK k \in T : \A j \in T : ~(j < k)
    <3> HIDE DEF T
    <3> QED
      BY <2>1, LeastNumber
  <2>3. k \in 0 .. Len(d) /\ ~Kept(k, f[k])
    OBVIOUS
  <2>4. CASE k = 0
    <3>1. f[k] = <<>>
      BY <1>3, <2>3, <2>4 DEF Round
    <3>2. <<>> \in Seq(Entries) /\ DOMAIN <<>> = {}
      OBVIOUS
    <3>3. Kept(k, <<>>)
      BY <3>2
    <3> HIDE DEF Kept
    <3> QED
      BY <2>3, <3>1, <3>3
  <2>5. CASE k # 0
    <3>1. k - 1 \in 0 .. Len(d) /\ k - 1 < k /\ k \in 1 .. Len(d)
      BY <1>2, <2>3, <2>5
    <3>2. Kept(k - 1, f[k - 1])
      <4>1. k - 1 \notin T
        BY <2>2, <3>1
      <4> HIDE DEF Kept
      <4> QED
        BY <3>1, <4>1
    <3>3. PICK w : w = f[k - 1]
      OBVIOUS
    <3>4. Kept(k - 1, w)
      BY <3>2, <3>3
    <3>5. \A j \in DOMAIN w : \E m \in 1 .. k - 1 : w[j] = d[m] /\ d[m].name # n
      BY <3>4
    <3>6. CASE d[k].name = n
      <4>1. f[k] = w
        BY <1>3, <2>5, <3>1, <3>3, <3>6 DEF Round
      <4>2. \A m \in 1 .. k - 1 : m \in 1 .. k
        BY <3>1
      <4>3. Kept(k, w)
        BY <3>4, <4>2
      <4> HIDE DEF Kept
      <4> QED
        BY <2>3, <4>1, <4>3
    <3>7. CASE d[k].name # n
      <4> DEFINE v == Append(w, d[k])
      <4>1. f[k] = v
        BY <1>3, <2>5, <3>1, <3>3, <3>7 DEF Round
      <4>2. /\ v \in Seq(Entries) /\ w \in Seq(Entries) /\ Len(w) \in Nat
            /\ DOMAIN w = 1 .. Len(w) /\ DOMAIN v = 1 .. Len(w) + 1
            /\ v[Len(w) + 1] = d[k]
            /\ \A j \in 1 .. Len(w) : v[j] = w[j]
        BY <1>2, <3>1, <3>4
      <4> HIDE DEF v
      <4>3. \A j \in DOMAIN v : \E m \in 1 .. k : v[j] = d[m] /\ d[m].name # n
        <5> SUFFICES ASSUME NEW j \in DOMAIN v
                     PROVE  \E m \in 1 .. k : v[j] = d[m] /\ d[m].name # n
          OBVIOUS
        <5>1. CASE j = Len(w) + 1
          BY <3>1, <3>7, <4>2, <5>1
        <5>2. CASE j # Len(w) + 1
          <6>1. j \in DOMAIN w /\ v[j] = w[j]
            BY <4>2, <5>2
          <6>2. PICK m \in 1 .. k - 1 : w[j] = d[m] /\ d[m].name # n
            BY <3>5, <6>1
          <6>3. m \in 1 .. k
            BY <3>1
          <6> QED
            BY <6>1, <6>2, <6>3
        <5> QED
          BY <5>1, <5>2
      <4>4. ASSUME Once, NEW j \in DOMAIN v, NEW l \in DOMAIN v, v[j].inum = v[l].inum
            PROVE  j = l
        <5>1. \A i, h \in DOMAIN w : w[i].inum = w[h].inum => i = h
          BY <3>4, <4>4
        <5>2. ASSUME NEW i \in DOMAIN w
              PROVE  w[i].inum # d[k].inum
          <6>1. PICK m \in 1 .. k - 1 : w[i] = d[m]
            BY <3>5
          <6>2. m \in DOMAIN d /\ k \in DOMAIN d /\ m # k
            BY <1>2, <3>1
          <6> QED
            BY <4>4, <6>1, <6>2
        <5> QED
          BY <4>2, <4>4, <5>1, <5>2
      <4>5. Kept(k, v)
        BY <4>2, <4>3, <4>4
      <4> HIDE DEF Kept
      <4> QED
        BY <2>3, <4>1, <4>5
    <3> QED
      BY <3>6, <3>7
  <2> QED
    BY <2>4, <2>5
<1>5. Kept(Len(d), f[Len(d)])
  <2>1. Len(d) \in 0 .. Len(d)
    BY <1>2
  <2> HIDE DEF Kept
  <2> QED
    BY <1>4, <2>1
<1> QED
  BY <1>1, <1>2, <1>5

-----------------------------------------------------------------------------
\* Types.

\* The inode that create takes.
LEMMA FreshIsFree ==
    ASSUME \E i \in Inum : server[i] = FreeInode
    PROVE  FreshInum \in Inum /\ server[FreshInum] = FreeInode
<1> DEFINE T == {i \in Inum : server[i] = FreeInode}
<1>1. T \subseteq Nat /\ T # {}
  BY MaxInumIsPositive DEF Inum
<1>2. PICK i \in T : \A j \in T : <<j, i>> \notin OpToRel(<, Nat)
  <2> HIDE DEF T
  <2> QED
    BY <1>1, NatLessThanWellFounded, WFMin
<1>3. i \in Nat /\ \A j \in T : ~(j < i)
  BY <1>1, <1>2 DEF OpToRel
<1>4. i \in Inum /\ server[i] = FreeInode
  BY <1>2
<1>5. ASSUME NEW j \in 1 .. i - 1
      PROVE  server[j] # FreeInode
  <2>1. j \in Inum /\ j < i
    BY <1>3, <1>4, MaxInumIsPositive DEF Inum
  <2> QED
    BY <1>3, <2>1
<1> QED
  BY <1>4, <1>5 DEF FreshInum

\* Inodes keep their types, once they have one.
TypesStay == \A i \in Inum : Exists(i) => server'[i].type = server[i].type

LEMMA FitStays ==
    ASSUME TypesStay, NEW type, NEW d, DataFit(type, d)
    PROVE  DataFit(type, d)'
<1>1. CASE type = T_DIR
  <2>1. \A i \in Inum : Exists(i) => Exists(i)'
    BY DEF TypesStay, Exists
  <2>2. \A k \in DOMAIN d : d[k].inum \in Inum
    BY <1>1, EntriesOfDirectory DEF DataFit
  <2> QED
    BY <1>1, <2>1, <2>2 DEF DataFit, Exists, T_DIR, T_FILE, T_SYMLK
<1>2. CASE type # T_DIR
  BY <1>2 DEF DataFit
<1> QED
  BY <1>1, <1>2

LEMMA EntryStays ==
    ASSUME TypesStay, NEW i \in Inum, NEW e, EntryFits(i, e)
    PROVE  EntryFits(i, e)'
<1>1. Exists(i) => Exists(i)' /\ server'[i].type = server[i].type
  BY DEF TypesStay, Exists
<1>2. \A type : DataFit(type, e.data) => DataFit(type, e.data)'
  BY FitStays
<1> QED
  BY <1>1, <1>2 DEF EntryFits

LEMMA RequestStays ==
    ASSUME TypesStay, TypeInv, NEW c \in Client,
           stage'[c] = stage[c], req'[c] = req[c], ino'[c] = ino[c], made'[c] = made[c],
           buf'[c] = buf[c], attr'[c] = attr[c]
    PROVE  RequestFits(c)'
<1>1. RequestFits(c) /\ ino[c] \in Inum /\ made[c] \in Inum
  BY DEF TypeInv
<1>2. PICK r : r = req[c]
  OBVIOUS
<1>3. FitsInode(r) => FitsInode(r)'
  BY DEF FitsInode, TypesStay, Exists, Types, T_DIR, T_FILE, T_SYMLK
<1>4. DataFit(T_DIR, buf[c]) => DataFit(T_DIR, buf[c])'
  <2>1. PICK b : b = buf[c]
    OBVIOUS
  <2>2. DataFit(T_DIR, b) => DataFit(T_DIR, b)'
    BY FitStays
  <2> QED
    BY <2>1, <2>2 DEF DataFit
<1>5. Exists(ino[c]) /\ Exists(ino[c])' /\ server'[ino[c]].type = server[ino[c]].type
  BY <1>1 DEF RequestFits, TypesStay, Exists
<1>6. r.op \in Making /\ stage[c] \in {"get", "put", "unlock"} => server'[made[c]].type = r.type
  <2>1. SUFFICES ASSUME r.op \in Making, stage[c] \in {"get", "put", "unlock"}
                 PROVE  server'[made[c]].type = r.type
    OBVIOUS
  <2>2. server[made[c]].type = r.type /\ HasArguments(r)
    BY <1>1, <1>2, <2>1 DEF RequestFits, Making, NoRequest, MountRequest
  <2>3. Exists(made[c])
    BY <2>1, <2>2 DEF HasArguments, Making, Exists, T_DIR, T_FILE, T_SYMLK
  <2> QED
    BY <1>1, <2>2, <2>3 DEF TypesStay
<1> QED
  BY <1>1, <1>2, <1>3, <1>4, <1>5, <1>6 DEF RequestFits, HasArguments

\* A step of one client, as far as types go.
LEMMA OneClientStep ==
    ASSUME DInv, DInv', TypeInv, TypesStay, InodesFit', NEW c \in Client,
           OthersKeep(c),
           \A d \in Client \ {c} :
              /\ stage'[d] = stage[d] /\ req'[d] = req[d] /\ ino'[d] = ino[d]
              /\ made'[d] = made[d] /\ buf'[d] = buf[d] /\ attr'[d] = attr[d],
           mounted' \subseteq Client, ino' \in [Client -> Inum], made' \in [Client -> Inum],
           DOMAIN attr' = Client,
           RequestFits(c)',
           \A i \in Inum : EntryFits(i, table[c][i])'
    PROVE  TypeInv'
<1>1. ASSUME NEW d \in Client
      PROVE  RequestFits(d)'
  BY RequestStays
<1>2. ASSUME NEW d \in Client, NEW i \in Inum
      PROVE  EntryFits(i, table[d][i])'
  <2>1. CASE d = c
    BY <2>1
  <2>2. CASE d # c
    <3>1. PICK e : e = table[d][i]
      OBVIOUS
    <3>2. EntryFits(i, e)'
      BY <3>1, EntryStays DEF TypeInv
    <3> QED
      BY <2>2, <3>1, <3>2 DEF OthersKeep, EntryFits, DataFit
  <2> QED
    BY <2>1, <2>2
<1> QED
  BY <1>1, <1>2 DEF TypeInv

\* What the operations of a client's table come to.
ExtentsFit(c) == TypesStay /\ InodesFit' /\ \A j \in Inum : EntryFits(j, table[c][j])'

LEMMA LengthOfData ==
    ASSUME NEW type \in Types \cup {"free"}, NEW d, DataFit(type, d)
    PROVE  Len(d) \in Nat
<1>1. CASE type = T_DIR
  BY <1>1, EntriesOfDirectory DEF DataFit
<1>2. CASE type = T_FILE
  BY <1>2 DEF DataFit
<1>3. CASE type \in {T_SYMLK, "free"}
  BY <1>3 DEF DataFit
<1> QED
  BY <1>1, <1>2, <1>3 DEF Types

LEMMA LengthOfInode ==
    ASSUME TypeInv, NEW i \in Inum
    PROVE  Len(server[i].data) \in Nat /\ (Exists(i) => server[i].type \in Types)
<1>1. server[i].type \in Types \cup {"free"} /\ DataFit(server[i].type, server[i].data)
  BY DEF TypeInv, InodesFit
<1> QED
  BY <1>1, LengthOfData DEF Exists

LEMMA StoreFits ==
    ASSUME DInv, TypeInv, UNCHANGED server, NEW c \in Client, NEW i \in Inum, NEW e,
           Store(c, i, e), EntryFits(i, e)
    PROVE  ExtentsFit(c)
<1>1. table'[c][i] = e /\ \A j \in Inum \ {i} : table'[c][j] = table[c][j]
  BY DEF Store, DInv, Shapes
<1>2. TypesStay /\ InodesFit'
  BY DEF TypesStay, TypeInv, InodesFit, DataFit, Exists
<1>3. ASSUME NEW j \in Inum
      PROVE  EntryFits(j, table[c][j])'
  <2>1. PICK f : f = table'[c][j]
    OBVIOUS
  <2>2. EntryFits(j, f)
    BY <1>1, <2>1 DEF TypeInv
  <2>3. EntryFits(j, f)'
    BY <1>2, <2>2, EntryStays
  <2> QED
    BY <2>1, <2>3 DEF EntryFits, DataFit
<1> QED
  BY <1>2, <1>3 DEF ExtentsFit

LEMMA GetattrFits ==
    ASSUME DInv, TypeInv, NEW c \in Client, NEW i \in Inum, Exists(i), Getattr(c, i)
    PROVE  ExtentsFit(c) /\ Attr(c, i).size \in Nat
<1>1. EntryFits(i, Attr(c, i))
  <2>1. CASE table[c][i] = Absent
    <3>1. Attr(c, i) = AttrOnly(i)
      BY <2>1 DEF Attr
    <3> QED
      BY <3>1, LengthOfInode DEF AttrOnly, EntryFits
  <2>2. CASE table[c][i] # Absent
    BY <2>2 DEF Attr, TypeInv
  <2> QED
    BY <2>1, <2>2
<1>2. Store(c, i, Attr(c, i)) /\ UNCHANGED server
  BY DEF Getattr
<1>3. Attr(c, i).size \in Nat
  BY <1>1 DEF EntryFits
<1> HIDE DEF Attr
<1> QED
  BY <1>1, <1>2, <1>3, StoreFits

LEMMA QuietFits ==
    ASSUME DInv, TypeInv, UNCHANGED extentTableVars, NEW c \in Client
    PROVE  ExtentsFit(c)
<1>1. UNCHANGED <<server, table>>
  BY DEF extentTableVars
<1>2. \A i \in Inum : EntryFits(i, table[c][i])
  BY DEF TypeInv
<1>3. InodesFit' /\ (\A i \in Inum : EntryFits(i, table[c][i]))'
  <2>1. (\A i \in Inum : EntryFits(i, table[c][i]))'
    BY <1>1, <1>2 DEF EntryFits, DataFit, Exists
  <2>2. InodesFit'
    BY <1>1 DEF TypeInv, InodesFit, DataFit, Exists
  <2> QED
    BY <2>1, <2>2
<1> QED
  BY <1>1, <1>3 DEF ExtentsFit, TypesStay

LEMMA GetFits ==
    ASSUME DInv, TypeInv, NEW c \in Client, NEW i \in Inum, Exists(i), Get(c, i)
    PROVE  ExtentsFit(c) /\ (Removed(c, i) \/ DataFit(server[i].type, Entry(c, i).data))
<1> DEFINE e == table[c][i]
<1>1. EntryFits(i, e) /\ e.m_state \in States
  BY DEF TypeInv, DInv, Shapes
<1>2. DataFit(server[i].type, server[i].data) /\ Len(server[i].data) \in Nat /\ server[i].type \in Types
  BY LengthOfInode DEF TypeInv, InodesFit
<1>3. CASE e.m_state = "ABSENT"
  <2>1. Entry(c, i) = Fetched(i)
    BY <1>3 DEF Entry
  <2>2. EntryFits(i, Fetched(i)) /\ Fetched(i).data = server[i].data
    BY <1>2 DEF EntryFits, Fetched
  <2> QED
    BY <1>2, <2>1, <2>2, StoreFits DEF Get
<1>4. CASE e.m_state = "NONE"
  <2> DEFINE f == [Fetched(i) EXCEPT !.type = e.type]
  <2>1. Entry(c, i) = f
    BY <1>4 DEF Entry
  <2>2. /\ f.m_state = "UPDATE" /\ f.type = e.type
        /\ f.size = Len(server[i].data) /\ f.data = server[i].data
    BY DEF Fetched
  <2>3. e.type \in Types \cup {StaleType}
    BY <1>1, <1>4 DEF EntryFits
  <2> HIDE DEF f, e
  <2>4. EntryFits(i, f)
    BY <1>2, <2>2, <2>3 DEF EntryFits
  <2> QED
    BY <1>2, <2>1, <2>2, <2>4, StoreFits DEF Get
<1>5. CASE e.m_state \in {"UPDATE", "MODIFIED", "REMOVED"}
  <2>1. Entry(c, i) = e
    BY <1>5 DEF Entry
  <2>2. Removed(c, i) \/ DataFit(server[i].type, e.data)
    BY <1>1, <1>5 DEF EntryFits, Removed
  <2>3. Store(c, i, e) /\ UNCHANGED server
    BY <2>1 DEF Get
  <2> HIDE DEF e
  <2> QED
    BY <1>1, <2>1, <2>2, <2>3, StoreFits
<1> QED
  BY <1>1, <1>3, <1>4, <1>5 DEF States

LEMMA PutFits ==
    ASSUME DInv, TypeInv, NEW c \in Client, NEW i \in Inum, Exists(i), NEW d,
           Put(c, i, d), Removed(c, i) \/ DataFit(server[i].type, d)
    PROVE  ExtentsFit(c)
<1>1. CASE Removed(c, i)
  BY <1>1, QuietFits DEF Put, extentTableVars
<1>2. CASE ~Removed(c, i)
  <2> DEFINE e == [m_state |-> "MODIFIED", size |-> Len(d), data |-> d,
                   type |-> IF table[c][i] = Absent THEN StaleType ELSE table[c][i].type]
  <2>1. Store(c, i, e) /\ UNCHANGED server
    BY <1>2 DEF Put
  <2>2. DataFit(server[i].type, d) /\ Len(d) \in Nat
    BY <1>2, LengthOfInode, LengthOfData
  <2>3. table[c][i] # Absent => table[c][i].type \in Types \cup {StaleType}
    BY <1>2 DEF TypeInv, EntryFits, Removed
  <2>4. EntryFits(i, e)
    BY <2>2, <2>3 DEF EntryFits
  <2> HIDE DEF e
  <2> QED
    BY <2>1, <2>4, StoreFits
<1> QED
  BY <1>1, <1>2

LEMMA RemoveFits ==
    ASSUME DInv, TypeInv, NEW c \in Client, NEW is, \A i \in is : Exists(i), Remove(c, is)
    PROVE  ExtentsFit(c)
<1>1. /\ UNCHANGED server
      /\ table'[c] = [i \in Inum |-> IF i \in is THEN [table[c][i] EXCEPT !.m_state = "REMOVED"]
                                                 ELSE table[c][i]]
  BY DEF Remove, DInv, Shapes
<1>2. TypesStay /\ InodesFit'
  BY <1>1 DEF TypesStay, TypeInv, InodesFit, DataFit, Exists
<1>3. ASSUME NEW j \in Inum
      PROVE  EntryFits(j, table[c][j])'
  <2>1. PICK e : e = table[c][j]
    OBVIOUS
  <2>2. EntryFits(j, e) /\ DOMAIN e = {"m_state", "type", "size", "data"}
    BY <2>1 DEF TypeInv, DInv, Shapes
  <2>3. PICK f : f = table'[c][j]
    OBVIOUS
  <2>4. CASE j \in is
    <3>1. f = [e EXCEPT !.m_state = "REMOVED"]
      BY <1>1, <2>1, <2>3, <2>4
    <3>2. f.m_state = "REMOVED" /\ f.type = e.type /\ f.size = e.size
      BY <2>2, <3>1
    <3>3. EntryFits(j, f)
      BY <2>2, <2>4, <3>2 DEF EntryFits, Absent
    <3> QED
      BY <1>2, <2>3, <3>3, EntryStays DEF EntryFits, DataFit
  <2>5. CASE j \notin is
    <3>1. f = e
      BY <1>1, <2>1, <2>3, <2>5
    <3> QED
      BY <1>2, <2>2, <2>3, <3>1, EntryStays DEF EntryFits, DataFit
  <2> QED
    BY <2>4, <2>5
<1> QED
  BY <1>2, <1>3 DEF ExtentsFit

LEMMA CreateFits ==
    ASSUME DInv, TypeInv, NEW c \in Client, NEW type \in Types, Create(c, type)
    PROVE  /\ ExtentsFit(c)
           /\ FreshInum \in Inum /\ server[FreshInum] = FreeInode
           /\ server'[FreshInum].type = type
           /\ \A j \in Inum \ {FreshInum} : server'[j] = server[j]
           /\ server'[FreshInum].data = <<>>
<1> DEFINE i == FreshInum
           e == [m_state |-> "NONE", type |-> type, size |-> 0, data |-> <<>>]
<1>1. i \in Inum /\ server[i] = FreeInode
  BY FreshIsFree DEF Create
<1>2. /\ server' = [server EXCEPT ![i].type = type]
      /\ Store(c, i, e)
  BY DEF Create
<1>3. e.m_state = "NONE" /\ e.type = type /\ e.size = 0
  OBVIOUS
<1> HIDE DEF i, e
<1>4. /\ server'[i].type = type /\ server'[i].data = <<>>
      /\ \A j \in Inum \ {i} : server'[j] = server[j]
  BY <1>1, <1>2 DEF DInv, Shapes, FreeInode
<1>5. TypesStay
  BY <1>1, <1>4 DEF TypesStay, Exists, FreeInode
<1>6. InodesFit'
  <2>1. i # Root
    BY <1>1 DEF TypeInv, InodesFit, FreeInode, T_DIR
  <2>2. server'[Root].type = T_DIR
    BY <1>4, <2>1, MaxInumIsPositive DEF TypeInv, InodesFit, Root, Inum
  <2>3. ASSUME NEW j \in Inum
        PROVE  server'[j].type \in Types \cup {"free"} /\ DataFit(server[j].type, server[j].data)'
    <3>1. CASE j = i
      <4>1. <<>> \in Seq(Entries) /\ <<>> \in Seq(Byte) /\ Len(<<>>) \in Nat /\ DOMAIN <<>> = {}
        OBVIOUS
      <4> QED
        BY <1>4, <3>1, <4>1 DEF DataFit
    <3>2. CASE j # i
      <4>1. PICK t, d : t = server[j].type /\ d = server[j].data
        OBVIOUS
      <4>2. t \in Types \cup {"free"} /\ DataFit(t, d)'
        BY <1>5, <4>1, FitStays DEF TypeInv, InodesFit
      <4> QED
        BY <1>4, <3>2, <4>1, <4>2 DEF DataFit
    <3> QED
      BY <3>1, <3>2
  <2> QED
    BY <2>2, <2>3 DEF InodesFit
<1>7. ASSUME NEW j \in Inum
      PROVE  EntryFits(j, table[c][j])'
  <2>1. PICK f : f = table'[c][j]
    OBVIOUS
  <2>2. CASE j = i
    <3>1. f = e
      BY <1>2, <2>1, <2>2 DEF Store, DInv, Shapes
    <3>2. Exists(j)'
      BY <1>4, <2>2 DEF Exists, Types, T_DIR, T_FILE, T_SYMLK
    <3> QED
      BY <1>3, <2>1, <3>1, <3>2 DEF EntryFits
  <2>3. CASE j # i
    <3>1. f = table[c][j]
      BY <1>2, <2>1, <2>3 DEF Store, DInv, Shapes
    <3>2. EntryFits(j, f)'
      BY <1>5, <3>1, EntryStays DEF TypeInv
    <3> QED
      BY <2>1, <3>2 DEF EntryFits, DataFit
  <2> QED
    BY <2>2, <2>3
<1> QED
  BY <1>1, <1>4, <1>5, <1>6, <1>7 DEF ExtentsFit, i

LEMMA FlushFits ==
    ASSUME DInv, TypeInv, NEW c \in Client, NEW i \in Inum, Flush(c, i)
    PROVE  ExtentsFit(c)
<1>1. /\ server' = IF Dirty(c, i) THEN [server EXCEPT ![i].data = table[c][i].data] ELSE server
      /\ Store(c, i, Absent)
  BY DEF Flush
<1>2. /\ table'[c][i] = Absent
      /\ \A j \in Inum \ {i} : table'[c][j] = table[c][j]
      /\ \A j \in Inum : server'[j].type = server[j].type
      /\ \A j \in Inum : \/ server'[j].data = server[j].data
                         \/ j = i /\ Dirty(c, i) /\ server'[j].data = table[c][i].data
  BY <1>1 DEF Store, DInv, Shapes
<1>3. TypesStay
  BY <1>2 DEF TypesStay
<1>4. Dirty(c, i) => DataFit(server[i].type, table[c][i].data)
  BY DEF TypeInv, EntryFits, Dirty
<1>5. InodesFit'
  <2>1. server'[Root].type = T_DIR
    BY <1>2, MaxInumIsPositive DEF TypeInv, InodesFit, Root, Inum
  <2>2. ASSUME NEW j \in Inum
        PROVE  server'[j].type \in Types \cup {"free"} /\ DataFit(server[j].type, server[j].data)'
    <3>1. PICK t, d : t = server[j].type /\ d = server'[j].data
      OBVIOUS
    <3>2. t \in Types \cup {"free"} /\ DataFit(t, d)
      BY <1>2, <1>4, <3>1 DEF TypeInv, InodesFit
    <3>3. DataFit(t, d)'
      BY <1>3, <3>2, FitStays
    <3> QED
      BY <1>2, <3>1, <3>2, <3>3 DEF DataFit
  <2> QED
    BY <2>1, <2>2 DEF InodesFit
<1>6. ASSUME NEW j \in Inum
      PROVE  EntryFits(j, table[c][j])'
  <2>1. PICK f : f = table'[c][j]
    OBVIOUS
  <2>2. CASE j = i
    BY <1>2, <2>1, <2>2 DEF EntryFits, Absent
  <2>3. CASE j # i
    <3>1. EntryFits(j, f)'
      BY <1>2, <1>3, <2>1, <2>3, EntryStays DEF TypeInv
    <3> QED
      BY <2>1, <3>1 DEF EntryFits, DataFit
  <2> QED
    BY <2>2, <2>3
<1> QED
  BY <1>3, <1>5, <1>6 DEF ExtentsFit

-----------------------------------------------------------------------------
\* The steps, as far as types go.

\* How a request goes on.
LEMMA RequestGoesOn ==
    ASSUME TypeInv, TypesStay, NEW c \in Client, req[c] # NoRequest, req'[c] = req[c],
           NEW s, stage'[c] = s, CallFits(req[c].op, s),
           NEW i \in Inum, ino'[c] = i, Exists(i),
           s \in NamedCalls => i = req[c].ino,
           s \in LinkCalls => server[i].type = T_SYMLK,
           NEW m \in Inum, made'[c] = m,
           req[c].op \in Making /\ s \in {"get", "put", "unlock"} => server'[m].type = req[c].type,
           NEW b, buf'[c] = b, req[c].op \in {"lookup", "unlink"} => DataFit(T_DIR, b),
           attr'[c].size \in Nat
    PROVE  RequestFits(c)'
<1>1. PICK r : r = req[c]
  OBVIOUS
<1>2. r = MountRequest \/ (FitsInode(r) /\ HasArguments(r))
  BY <1>1 DEF TypeInv, RequestFits
<1>3. FitsInode(r) => FitsInode(r)'
  BY DEF FitsInode, TypesStay, Exists, Types, T_DIR, T_FILE, T_SYMLK
<1>4. DataFit(T_DIR, b) => DataFit(T_DIR, buf[c])'
  BY FitStays DEF DataFit
<1>5. Exists(ino[c])' /\ server'[i].type = server[i].type
  BY DEF TypesStay, Exists
<1> QED
  BY <1>1, <1>2, <1>3, <1>4, <1>5 DEF RequestFits, HasArguments, CallFits

\* What all steps of a request leave alone.
LEMMA OthersOf ==
    ASSUME DInv, TypeInv, NEW c \in Client, NEW s, Proceed(c, s)
    PROVE  stage'[c] = s /\ \A d \in Client \ {c} : stage'[d] = stage[d]
BY DEF DInv, RequestShapes, Proceed

\* In mid-request there is a request, for an inode that exists.
LEMMA RequestUnderWay ==
    ASSUME DInv, TypeInv, NEW c \in Client, stage[c] # "idle"
    PROVE  /\ req[c] # NoRequest
           /\ ino[c] \in Inum /\ Exists(ino[c]) /\ made[c] \in Inum
           /\ stage[c] \in NamedCalls => ino[c] = req[c].ino
           /\ attr[c].size \in Nat
           /\ RequestFits(c)
BY DEF TypeInv, RequestFits, CallFits, NoRequest

LEMMA TakeFits ==
    ASSUME DInv, DInv', TypeInv, NEW c \in Client, NEW r, Asks(c, r), Take(c, r)
    PROVE  TypeInv'
<1> DEFINE s == CASE r.op = "readdir" -> "isdir"
                  [] r.op = "getattr" -> "typed"
                  [] OTHER -> "lock"
<1>1. /\ stage[c] = "idle" /\ Proceed(c, s)
      /\ req' = [req EXCEPT ![c] = r] /\ ino' = [ino EXCEPT ![c] = r.ino]
      /\ UNCHANGED <<extentTableVars, mounted, made, buf, attr>>
  BY DEF Take
<1>2. /\ r.op = "readdir" => s = "isdir"
      /\ r.op = "getattr" => s = "typed"
      /\ r.op \notin {"readdir", "getattr"} => s = "lock"
  OBVIOUS
<1> HIDE DEF s
<1>3. ExtentsFit(c) /\ UNCHANGED <<server, table>>
  BY <1>1, QuietFits DEF extentTableVars
<1>4. /\ stage'[c] = s /\ req'[c] = r /\ ino'[c] = r.ino
      /\ \A d \in Client \ {c} : stage'[d] = stage[d] /\ req'[d] = req[d] /\ ino'[d] = ino[d]
  BY <1>1, OthersOf DEF DInv, RequestShapes
<1>5. r = MountRequest \/ (FitsInode(r) /\ HasArguments(r))
  BY DEF Asks
<1>6. /\ r.ino \in Inum /\ Exists(r.ino)
      /\ ino' \in [Client -> Inum]
  <2>1. Root \in Inum /\ Exists(Root)
    BY MaxInumIsPositive DEF Root, Inum, TypeInv, InodesFit, Exists, T_DIR
  <2>2. r.ino \in Inum /\ Exists(r.ino)
    BY <1>5, <2>1 DEF MountRequest, FitsInode, Exists, Types, T_DIR, T_FILE, T_SYMLK
  <2> QED
    BY <1>1, <2>2 DEF TypeInv
<1>7. CallFits(r.op, s) /\ s \notin LinkCalls /\ s \notin {"get", "put", "unlock"} /\ r # NoRequest
  BY <1>2, <1>5 DEF CallFits, StatCalls, LinkCalls, MountRequest, NoRequest, FitsInode,
                    OnDirectory, OnFile
<1>8. buf[c] = <<>> /\ attr[c].size \in Nat
  BY <1>1 DEF TypeInv, RequestFits, CallFits, MountRequest, FitsInode, OnDirectory, OnFile,
              StatCalls, LinkCalls
<1>9. DataFit(T_DIR, <<>>)
  BY DEF DataFit, T_DIR, T_FILE, T_SYMLK
<1>10. RequestFits(c)'
  <2>1. FitsInode(r) => FitsInode(r)'
    BY <1>3 DEF FitsInode
  <2>2. DataFit(T_DIR, buf[c])'
    BY <1>1, <1>3, <1>8, <1>9 DEF DataFit, Exists
  <2> QED
    BY <1>1, <1>3, <1>4, <1>5, <1>6, <1>7, <1>8, <2>1, <2>2
    DEF RequestFits, HasArguments, Exists, CallFits
<1> QED
  BY <1>1, <1>3, <1>4, <1>6, <1>10, OneClientStep DEF ExtentsFit, TypeInv, OthersKeep

LEMMA GetattrStepsFit ==
    ASSUME DInv, DInv', TypeInv, NEW c \in Client,
           IsDir(c) \/ GetattrStep(c) \/ Typed(c) \/ Stat(c)
    PROVE  TypeInv'
<1>1. /\ stage[c] \in {"isdir", "getattr", "typed", "stat"}
      /\ Getattr(c, ino[c])
      /\ UNCHANGED <<req, ino, made, buf, mounted>>
  BY DEF IsDir, GetattrStep, Typed, Stat
<1>2. PICK s : /\ Proceed(c, s)
               /\ stage[c] = "isdir" => s \in {"lock", "done"}
               /\ stage[c] = "getattr" => s \in {"get", "unlock"}
               /\ stage[c] = "typed" => s \in {"lock_stat", "done"}
               /\ stage[c] = "stat" => s = "unlock_stat"
  BY DEF IsDir, GetattrStep, Typed, Stat
<1>3. PICK i : i = ino[c]
  OBVIOUS
<1>4. /\ req[c] # NoRequest /\ RequestFits(c)
      /\ i \in Inum /\ Exists(i) /\ made[c] \in Inum /\ attr[c].size \in Nat
      /\ stage[c] \in NamedCalls => i = req[c].ino
  BY <1>1, <1>3, RequestUnderWay
<1>5. ExtentsFit(c) /\ Attr(c, i).size \in Nat
  BY <1>1, <1>3, <1>4, GetattrFits
<1>6. /\ DOMAIN attr' = Client
      /\ \A d \in Client \ {c} : attr'[d] = attr[d]
      /\ attr'[c] = attr[c] \/ attr'[c] = AttrOf(Attr(c, i)) \/ attr'[c] = NoAttr
  BY <1>3 DEF IsDir, GetattrStep, Typed, Stat, TypeInv
<1>7. attr'[c].size \in Nat
  BY <1>4, <1>5, <1>6 DEF AttrOf, NoAttr
<1>8. /\ CallFits(req[c].op, s)
      /\ s \notin LinkCalls
      /\ s \in NamedCalls => stage[c] \in NamedCalls
      /\ req[c].op \in Making => s \notin {"get", "put", "unlock"}
  BY <1>1, <1>2, <1>4 DEF RequestFits, CallFits, StatCalls, LinkCalls, NamedCalls, Making
<1>9. OthersKeep(c)
  BY <1>1, <1>3, GetattrKeeps DEF DInv
<1>10. stage'[c] = s /\ \A d \in Client \ {c} : stage'[d] = stage[d]
  BY <1>2, OthersOf
<1>11. PICK b : b = buf[c] /\ (req[c].op \in {"lookup", "unlink"} => DataFit(T_DIR, b))
  BY <1>4 DEF RequestFits
<1>12. RequestFits(c)'
  BY <1>1, <1>3, <1>4, <1>5, <1>7, <1>8, <1>10, <1>11, RequestGoesOn DEF ExtentsFit
<1> QED
  BY <1>1, <1>5, <1>6, <1>9, <1>10, <1>12, OneClientStep DEF ExtentsFit, TypeInv

LEMMA CreateStepFits ==
    ASSUME DInv, DInv', TypeInv, NEW c \in Client, CreateStep(c)
    PROVE  TypeInv'
<1>1. /\ stage[c] = "create" /\ Proceed(c, "get")
      /\ Create(c, req[c].type)
      /\ made' = [made EXCEPT ![c] = FreshInum]
      /\ UNCHANGED <<req, ino, buf, attr, mounted>>
  BY DEF CreateStep
<1>2. PICK i, m : i = ino[c] /\ m = FreshInum
  OBVIOUS
<1>3. /\ req[c] # NoRequest /\ RequestFits(c)
      /\ i \in Inum /\ Exists(i) /\ attr[c].size \in Nat
      /\ i = req[c].ino
  BY <1>1, <1>2, RequestUnderWay DEF NamedCalls
<1>4. req[c].op \in Making /\ HasArguments(req[c])
  BY <1>1, <1>3 DEF RequestFits, CallFits, Making, MountRequest, FitsInode, OnDirectory, OnFile,
                    StatCalls, LinkCalls
<1>5. req[c].type \in Types
  BY <1>4 DEF HasArguments, Making, Types
<1>6. ExtentsFit(c) /\ m \in Inum /\ server'[m].type = req[c].type
  BY <1>1, <1>2, <1>5, CreateFits
<1>7. made'[c] = m /\ made' \in [Client -> Inum] /\ \A d \in Client \ {c} : made'[d] = made[d]
  BY <1>1, <1>2, <1>6 DEF TypeInv
<1>8. CallFits(req[c].op, "get") /\ "get" \notin LinkCalls
  BY <1>4 DEF CallFits, Making, LinkCalls
<1>9. OthersKeep(c)
  BY <1>1, CreateMakesEntry DEF DInv
<1>10. stage'[c] = "get" /\ \A d \in Client \ {c} : stage'[d] = stage[d]
  BY <1>1, OthersOf
<1>11. PICK b : b = buf[c] /\ (req[c].op \in {"lookup", "unlink"} => DataFit(T_DIR, b))
  BY <1>3 DEF RequestFits
<1>12. RequestFits(c)'
  BY <1>1, <1>2, <1>3, <1>6, <1>7, <1>8, <1>10, <1>11, RequestGoesOn DEF ExtentsFit
<1> QED
  BY <1>1, <1>6, <1>7, <1>9, <1>10, <1>12, OneClientStep DEF ExtentsFit, TypeInv

LEMMA GetStepFits ==
    ASSUME DInv, DInv', TypeInv, NEW c \in Client, GetStep(c)
    PROVE  TypeInv'
<1>1. /\ stage[c] = "get" /\ Get(c, ino[c])
      /\ buf' = [buf EXCEPT ![c] = DataOf(c)]
      /\ UNCHANGED <<req, ino, made, attr, mounted>>
  BY DEF GetStep
<1>2. PICK s \in {"unlock", "remove", "put"} :
          /\ Proceed(c, s)
          /\ req[c].op \in {"lookup", "readdir", "read", "readlink"} => s = "unlock"
          /\ req[c].op = "unlink" => s \in {"remove", "unlock"}
          /\ req[c].op \notin {"lookup", "readdir", "read", "readlink", "unlink"} => s = "put"
  BY DEF GetStep
<1>3. PICK i, m, b : i = ino[c] /\ m = made[c] /\ b = DataOf(c)
  OBVIOUS
<1>4. /\ req[c] # NoRequest /\ RequestFits(c)
      /\ i \in Inum /\ Exists(i) /\ m \in Inum /\ attr[c].size \in Nat
      /\ i = req[c].ino
  BY <1>1, <1>3, RequestUnderWay DEF NamedCalls
<1>5. ExtentsFit(c) /\ (Removed(c, i) \/ DataFit(server[i].type, Entry(c, i).data))
  BY <1>1, <1>3, <1>4, GetFits
<1>6. req[c].op \in {"lookup", "unlink"} => DataFit(T_DIR, b)
  <2>1. SUFFICES ASSUME req[c].op \in {"lookup", "unlink"}
                 PROVE  DataFit(T_DIR, b)
    OBVIOUS
  <2>2. server[i].type = T_DIR
    BY <1>4, <2>1 DEF RequestFits, FitsInode, OnDirectory, MountRequest
  <2>3. DataFit(T_DIR, <<>>)
    BY DEF DataFit, T_DIR, T_FILE, T_SYMLK
  <2> QED
    BY <1>3, <1>5, <2>2, <2>3 DEF DataOf
<1>7. CallFits(req[c].op, s) /\ s \notin LinkCalls
  BY <1>1, <1>2, <1>4 DEF RequestFits, CallFits, StatCalls, LinkCalls, MountRequest, FitsInode,
                          OnDirectory, OnFile
<1>8. req[c].op \in Making => server'[m].type = req[c].type
  <2>1. SUFFICES ASSUME req[c].op \in Making PROVE server'[m].type = req[c].type
    OBVIOUS
  <2>2. server[m].type = req[c].type
    BY <1>1, <1>3, <1>4, <2>1 DEF RequestFits
  <2> QED
    BY <1>1, <2>2 DEF Get
<1>9. OthersKeep(c)
  BY <1>1, <1>3, <1>4, GetFetches DEF DInv
<1>10. stage'[c] = s /\ \A d \in Client \ {c} : stage'[d] = stage[d]
  BY <1>2, OthersOf
<1>11. buf'[c] = b /\ \A d \in Client \ {c} : buf'[d] = buf[d]
  BY <1>1, <1>3 DEF DInv, RequestShapes
<1>12. RequestFits(c)'
  BY <1>1, <1>3, <1>4, <1>5, <1>6, <1>7, <1>8, <1>10, <1>11, RequestGoesOn DEF ExtentsFit
<1> QED
  BY <1>1, <1>5, <1>9, <1>10, <1>11, <1>12, OneClientStep DEF ExtentsFit, TypeInv

LEMMA RemoveStepFits ==
    ASSUME DInv, DInv', TypeInv, NEW c \in Client, RemoveStep(c)
    PROVE  TypeInv'
<1>1. /\ stage[c] = "remove" /\ Proceed(c, "put")
      /\ Remove(c, MatchingInums(buf[c], req[c].name))
      /\ UNCHANGED <<req, ino, made, buf, attr, mounted>>
  BY DEF RemoveStep
<1>2. PICK i, m, b : i = ino[c] /\ m = made[c] /\ b = buf[c]
  OBVIOUS
<1>3. /\ req[c] # NoRequest /\ RequestFits(c)
      /\ i \in Inum /\ Exists(i) /\ m \in Inum /\ attr[c].size \in Nat
      /\ i = req[c].ino
  BY <1>1, <1>2, RequestUnderWay DEF NamedCalls
<1>4. req[c].op = "unlink"
  BY <1>1, <1>3 DEF RequestFits, CallFits, MountRequest, FitsInode, OnDirectory, OnFile,
                    StatCalls, LinkCalls
<1>5. DataFit(T_DIR, b)
  BY <1>2, <1>3, <1>4 DEF RequestFits
<1>6. \A j \in MatchingInums(b, req[c].name) : Exists(j)
  BY <1>5 DEF DataFit, MatchingInums, Matches
<1>7. ExtentsFit(c)
  BY <1>1, <1>2, <1>6, RemoveFits
<1>8. CallFits(req[c].op, "put") /\ "put" \notin LinkCalls /\ req[c].op \notin Making
  BY <1>4 DEF CallFits, Making, LinkCalls
<1>9. OthersKeep(c)
  BY <1>1, RemoveMarks DEF DInv
<1>10. stage'[c] = "put" /\ \A d \in Client \ {c} : stage'[d] = stage[d]
  BY <1>1, OthersOf
<1>11. RequestFits(c)'
  BY <1>1, <1>2, <1>3, <1>5, <1>7, <1>8, <1>10, RequestGoesOn DEF ExtentsFit
<1> QED
  BY <1>1, <1>7, <1>9, <1>10, <1>11, OneClientStep DEF ExtentsFit, TypeInv

\* What write and setattr make of bytes are bytes.
LEMMA ExtendFits ==
    ASSUME NEW s \in Seq(Byte), NEW n \in Nat
    PROVE  Extend(s, n) \in Seq(Byte) /\ Len(Extend(s, n)) >= n
<1>1. CASE n > Len(s)
  <2>1. Zeros(n - Len(s)) \in Seq(Byte) /\ Len(Zeros(n - Len(s))) = n - Len(s)
    BY <1>1, NulIsByte DEF Zeros
  <2> QED
    BY <1>1, <2>1 DEF Extend
<1>2. CASE ~(n > Len(s))
  BY <1>2 DEF Extend
<1> QED
  BY <1>1, <1>2

LEMMA OverwriteFits ==
    ASSUME NEW s \in Seq(Byte), NEW off \in Nat, NEW data \in Seq(Byte)
    PROVE  Overwrite(s, off, data) \in Seq(Byte)
<1> DEFINE grown == Extend(s, off + Len(data))
<1>1. grown \in Seq(Byte) /\ Len(grown) >= off + Len(data)
  BY ExtendFits
<1> HIDE DEF grown
<1>2. SubSeq(grown, 1, off) \in Seq(Byte)
  BY <1>1
<1>3. SubSeq(grown, off + Len(data) + 1, Len(grown)) \in Seq(Byte)
  BY <1>1
<1>4. Overwrite(s, off, data)
        = SubSeq(grown, 1, off) \o data \o SubSeq(grown, off + Len(data) + 1, Len(grown))
  BY DEF Overwrite, grown
<1> QED
  BY <1>2, <1>3, <1>4

LEMMA SetSizeFits ==
    ASSUME NEW s \in Seq(Byte), NEW a \in Nat, NEW n \in Nat
    PROVE  SetSize(s, a, n) \in Seq(Byte)
<1>1. CASE a < n
  <2>1. Zeros(n - a) \in Seq(Byte)
    BY <1>1, NulIsByte DEF Zeros
  <2> QED
    BY <1>1, <2>1 DEF SetSize
<1>2. CASE a > n
  BY <1>2 DEF SetSize
<1>3. CASE a = n
  BY <1>3 DEF SetSize
<1> QED
  BY <1>1, <1>2, <1>3

LEMMA AddEntryFits ==
    ASSUME NEW d, DataFit(T_DIR, d), NEW n \in Name, NEW i \in Inum, Exists(i)
    PROVE  DataFit(T_DIR, AddEntry(d, n, i))
<1> DEFINE e == [name |-> n, inum |-> i]
           w == Append(d, e)
<1>1. e \in Entries /\ e.inum = i
  BY DEF Entries
<1>2. d \in Seq(Entries) /\ \A k \in DOMAIN d : Exists(d[k].inum)
  BY DEF DataFit
<1> HIDE DEF e
<1>3. /\ w \in Seq(Entries) /\ Len(d) \in Nat /\ DOMAIN d = 1 .. Len(d)
      /\ DOMAIN w = 1 .. Len(d) + 1 /\ w[Len(d) + 1] = e
      /\ \A k \in 1 .. Len(d) : w[k] = d[k]
  BY <1>1, <1>2
<1> HIDE DEF w
<1>4. \A k \in DOMAIN w : Exists(w[k].inum)
  BY <1>1, <1>2, <1>3
<1>5. DataFit(T_DIR, w)
  BY <1>3, <1>4 DEF DataFit, T_DIR, T_FILE, T_SYMLK
<1> QED
  BY <1>5 DEF AddEntry, w, e

LEMMA WithoutNameFits ==
    ASSUME NEW d, DataFit(T_DIR, d), NEW n
    PROVE  DataFit(T_DIR, WithoutName(d, n))
<1>1. d \in Seq(Entries) /\ \A k \in DOMAIN d : Exists(d[k].inum)
  BY DEF DataFit
<1>2. PICK w : w = WithoutName(d, n)
  OBVIOUS
<1>3. /\ w \in Seq(Entries)
      /\ \A k \in DOMAIN w : \E m \in DOMAIN d : w[k] = d[m]
  BY <1>1, <1>2, KeptEntries
<1>4. \A k \in DOMAIN w : Exists(w[k].inum)
  BY <1>1, <1>3
<1> QED
  BY <1>2, <1>3, <1>4 DEF DataFit, T_DIR, T_FILE, T_SYMLK

\* What an operation has got is of the type of its inode.
LEMMA BufferFits ==
    ASSUME DInv, TypeInv, NEW c \in Client, stage[c] = "put", req[c].op # "mount",
           ~Removed(c, ino[c])
    PROVE  DataFit(server[ino[c]].type, buf[c])
<1>1. HasData(c, ino[c]) /\ buf[c] = table[c][ino[c]].data /\ ino[c] \in Inum
  BY DEF DInv, InHandIsCached, GotData, TypeInv
<1> QED
  BY <1>1 DEF TypeInv, EntryFits, HasData

LEMMA NewDataFit ==
    ASSUME DInv, TypeInv, NEW c \in Client, stage[c] = "put", ~Removed(c, ino[c])
    PROVE  DataFit(server[ino[c]].type, NewData(c))
<1> DEFINE r == req[c]
<1>1. RequestFits(c) /\ r # NoRequest /\ made[c] \in Inum /\ attr[c].size \in Nat /\ ino[c] = r.ino
  BY RequestUnderWay DEF NamedCalls
<1>2. r = MountRequest \/ (FitsInode(r) /\ HasArguments(r))
  BY <1>1 DEF RequestFits
<1>3. CASE r.op = "mount"
  <2>1. r = MountRequest
    BY <1>2, <1>3 DEF FitsInode, OnDirectory, OnFile
  <2>2. server[ino[c]].type = T_DIR
    BY <1>1, <2>1 DEF MountRequest, TypeInv, InodesFit
  <2>3. NewData(c) = <<>>
    BY <1>3 DEF NewData
  <2> QED
    BY <2>2, <2>3 DEF DataFit, T_DIR, T_FILE, T_SYMLK
<1>4. CASE r.op # "mount"
  <2>1. /\ DataFit(server[ino[c]].type, buf[c])
        /\ FitsInode(r) /\ HasArguments(r)
    BY <1>2, <1>4, BufferFits DEF MountRequest
  <2>2. CASE r.op \in Making
    <3>1. server[ino[c]].type = T_DIR /\ r.name \in Name
      BY <1>1, <2>1, <2>2 DEF FitsInode, HasArguments, OnDirectory, Making
    <3>2. Exists(made[c])
      BY <1>1, <2>1, <2>2 DEF RequestFits, HasArguments, Making, Exists, T_DIR, T_FILE, T_SYMLK
    <3>3. NewData(c) = AddEntry(buf[c], r.name, made[c])
      BY <2>2 DEF NewData, Making
    <3> QED
      BY <1>1, <2>1, <3>1, <3>2, <3>3, AddEntryFits
  <2>3. CASE r.op = "unlink"
    <3>1. server[ino[c]].type = T_DIR
      BY <1>1, <2>1, <2>3 DEF FitsInode, OnDirectory
    <3>2. NewData(c) = WithoutName(buf[c], r.name)
      BY <2>3 DEF NewData
    <3> QED
      BY <2>1, <3>1, <3>2, WithoutNameFits
  <2>4. CASE r.op \in {"write", "setattr"}
    <3>1. server[ino[c]].type = T_FILE
      BY <1>1, <2>1, <2>4 DEF FitsInode, OnFile
    <3>2. buf[c] \in Seq(Byte)
      BY <2>1, <3>1 DEF DataFit
    <3>3. NewData(c) \in Seq(Byte)
      <4>1. CASE r.op = "write"
        <5>1. r.off \in Nat /\ r.data \in Seq(Byte)
          BY <2>1, <4>1 DEF HasArguments
        <5>2. NewData(c) = Overwrite(buf[c], r.off, r.data)
          BY <4>1 DEF NewData
        <5> QED
          BY <3>2, <5>1, <5>2, OverwriteFits
      <4>2. CASE r.op = "setattr"
        <5>1. r.size \in Nat
          BY <2>1, <4>2 DEF HasArguments
        <5>2. NewData(c) = SetSize(buf[c], attr[c].size, r.size)
          BY <4>2 DEF NewData
        <5> QED
          BY <1>1, <3>2, <5>1, <5>2, SetSizeFits
      <4> QED
        BY <2>4, <4>1, <4>2
    <3> QED
      BY <3>1, <3>3 DEF DataFit, T_DIR, T_FILE, T_SYMLK
  <2>5. r.op \in Making \cup {"unlink", "write", "setattr"}
    BY <1>1, <1>4, <2>1 DEF RequestFits, CallFits, FitsInode, OnDirectory, OnFile, Making,
                            StatCalls, LinkCalls
  <2> QED
    BY <2>2, <2>3, <2>4, <2>5
<1> QED
  BY <1>3, <1>4

\* A call that leaves the request as it is.
LEMMA CallIsMade ==
    ASSUME DInv, DInv', TypeInv, NEW c \in Client, stage[c] # "idle",
           ExtentsFit(c), OthersKeep(c), UNCHANGED <<req, ino, made, buf, attr, mounted>>,
           NEW s, Proceed(c, s), CallFits(req[c].op, s),
           s \in NamedCalls => stage[c] \in NamedCalls,
           s \in LinkCalls => stage[c] \in LinkCalls,
           req[c].op \in Making /\ s \in {"get", "put", "unlock"}
              => stage[c] \in {"get", "put", "unlock"}
    PROVE  TypeInv'
<1>1. PICK i, m, b : i = ino[c] /\ m = made[c] /\ b = buf[c]
  OBVIOUS
<1>2. /\ req[c] # NoRequest /\ RequestFits(c)
      /\ i \in Inum /\ Exists(i) /\ m \in Inum /\ attr[c].size \in Nat
      /\ stage[c] \in NamedCalls => i = req[c].ino
  BY <1>1, RequestUnderWay
<1>3. stage'[c] = s /\ \A d \in Client \ {c} : stage'[d] = stage[d]
  BY OthersOf
<1>4. req[c].op \in Making /\ s \in {"get", "put", "unlock"} => server'[m].type = req[c].type
  <2>1. SUFFICES ASSUME req[c].op \in Making, s \in {"get", "put", "unlock"}
                 PROVE  server'[m].type = req[c].type
    OBVIOUS
  <2>2. server[m].type = req[c].type /\ HasArguments(req[c])
    BY <1>1, <1>2, <2>1 DEF RequestFits, Making, MountRequest
  <2>3. Exists(m)
    BY <2>1, <2>2 DEF HasArguments, Making, Exists, T_DIR, T_FILE, T_SYMLK
  <2> QED
    BY <1>2, <2>2, <2>3 DEF ExtentsFit, TypesStay
<1>5. /\ s \in LinkCalls => server[i].type = T_SYMLK
      /\ req[c].op \in {"lookup", "unlink"} => DataFit(T_DIR, b)
  BY <1>1, <1>2 DEF RequestFits
<1>6. TypesStay /\ req'[c] = req[c] /\ ino'[c] = i /\ made'[c] = m /\ buf'[c] = b
      /\ attr'[c].size \in Nat
  BY <1>1, <1>2 DEF ExtentsFit
<1>7. s \in NamedCalls => i = req[c].ino
  BY <1>2
<1>8. RequestFits(c)'
  BY <1>2, <1>3, <1>4, <1>5, <1>6, <1>7, RequestGoesOn
<1> QED
  BY <1>3, <1>8, OneClientStep DEF ExtentsFit, TypeInv

LEMMA PutStepFits ==
    ASSUME DInv, DInv', TypeInv, NEW c \in Client, PutStep(c)
    PROVE  TypeInv'
<1>1. /\ stage[c] = "put" /\ Put(c, ino[c], NewData(c))
      /\ UNCHANGED <<req, ino, made, buf, attr, mounted>>
  BY DEF PutStep
<1>2. PICK s \in {"flush", "unlock"} : Proceed(c, s) /\ (s = "flush" <=> req[c].op = "write")
  BY DEF PutStep
<1>3. PICK i, d : i = ino[c] /\ d = NewData(c)
  OBVIOUS
<1>4. RequestFits(c) /\ i \in Inum /\ Exists(i)
  BY <1>1, <1>3, RequestUnderWay
<1>5. Removed(c, i) \/ DataFit(server[i].type, d)
  BY <1>1, <1>3, NewDataFit
<1>6. ExtentsFit(c)
  BY <1>1, <1>3, <1>4, <1>5, PutFits
<1>7. OthersKeep(c)
  BY <1>1, <1>3, PutStores DEF DInv
<1>8. CallFits(req[c].op, s) /\ s \notin LinkCalls /\ "put" \in NamedCalls
  BY <1>1, <1>2, <1>4 DEF RequestFits, CallFits, StatCalls, LinkCalls, NamedCalls
<1> QED
  BY <1>1, <1>2, <1>6, <1>7, <1>8, CallIsMade

LEMMA PutLinkFits ==
    ASSUME DInv, DInv', TypeInv, NEW c \in Client, PutLink(c)
    PROVE  TypeInv'
<1>1. /\ stage[c] = "put_link" /\ Put(c, ino[c], <<req[c].link>>)
      /\ Proceed(c, "flush_link")
      /\ UNCHANGED <<req, ino, made, buf, attr, mounted>>
  BY DEF PutLink
<1>2. PICK i, d : i = ino[c] /\ d = <<req[c].link>>
  OBVIOUS
<1>3. RequestFits(c) /\ i \in Inum /\ Exists(i)
  BY <1>1, <1>2, RequestUnderWay
<1>4. server[i].type = T_SYMLK
  BY <1>1, <1>2, <1>3 DEF RequestFits, LinkCalls
<1>5. Len(d) \in Nat
  BY <1>2
<1>6. DataFit(server[i].type, d)
  BY <1>4, <1>5 DEF DataFit, T_DIR, T_FILE, T_SYMLK
<1>7. ExtentsFit(c)
  BY <1>1, <1>2, <1>3, <1>6, PutFits
<1>8. OthersKeep(c)
  BY <1>1, <1>2, PutStores DEF DInv
<1>9. /\ CallFits(req[c].op, "flush_link")
      /\ "flush_link" \notin NamedCalls /\ "flush_link" \notin {"get", "put", "unlock"}
      /\ "put_link" \in LinkCalls
  BY <1>1, <1>3 DEF RequestFits, CallFits, StatCalls, LinkCalls, NamedCalls
<1> QED
  BY <1>1, <1>7, <1>8, <1>9, CallIsMade

LEMMA FlushStepFits ==
    ASSUME DInv, DInv', TypeInv, NEW c \in Client, FlushStep(c)
    PROVE  TypeInv'
<1>1. /\ stage[c] \in {"flush", "flush_link"} /\ Flush(c, ino[c])
      /\ UNCHANGED <<req, ino, made, buf, attr, mounted>>
  BY DEF FlushStep
<1>2. PICK s \in {"unlock", "unlock_link"} : Proceed(c, s) /\ (s = "unlock" <=> stage[c] = "flush")
  BY DEF FlushStep
<1>3. PICK i : i = ino[c]
  OBVIOUS
<1>4. RequestFits(c) /\ i \in Inum /\ Exists(i)
  BY <1>1, <1>3, RequestUnderWay
<1>5. ExtentsFit(c)
  BY <1>1, <1>3, <1>4, FlushFits
<1>6. OthersKeep(c)
  BY <1>1, <1>3, FlushWritesBack DEF DInv
<1>7. /\ CallFits(req[c].op, s)
      /\ s \in NamedCalls => stage[c] \in NamedCalls
      /\ s \in LinkCalls => stage[c] \in LinkCalls
  BY <1>1, <1>2, <1>4 DEF RequestFits, CallFits, StatCalls, LinkCalls, NamedCalls
<1>8. req[c].op \in Making => s \notin {"get", "put", "unlock"}
  BY <1>1, <1>2, <1>4 DEF RequestFits, CallFits, StatCalls, LinkCalls, Making
<1> QED
  BY <1>1, <1>2, <1>5, <1>6, <1>7, <1>8, CallIsMade

\* What lookup finds is an entry of that name.
LEMMA FoundIsListed ==
    ASSUME NEW d \in Seq(Entries), NEW n, IsFound(d, n)
    PROVE  \E k \in DOMAIN d : d[k].name = n /\ FoundInum(d, n) = d[k].inum
<1> DEFINE T == Matches(d, n)
<1>1. T \subseteq Nat /\ T # {}
  BY EntriesOfDirectory DEF IsFound, Matches
<1>2. \E k \in T : \A l \in T : ~(l < k)
  <2> HIDE DEF T
  <2> QED
    BY <1>1, LeastNumber
<1>3. \E k \in T : \A l \in T : k <= l
  BY <1>1, <1>2
<1>4. PICK k \in T : FoundInum(d, n) = d[k].inum
  <2> HIDE DEF T
  <2> QED
    BY <1>3 DEF FoundInum, T
<1> QED
  BY <1>4 DEF Matches

LEMMA UnlockFits ==
    ASSUME DInv, DInv', TypeInv, NEW c \in Client, Unlock(c)
    PROVE  TypeInv'
<1>1. /\ stage[c] = "unlock" /\ UNCHANGED <<extentTableVars, mounted, req, buf, attr>>
      /\ made' = [made EXCEPT ![c] = Root]
  BY DEF Unlock
<1>2. PICK b : b = buf[c]
  OBVIOUS
<1>3. /\ req[c] # NoRequest /\ RequestFits(c) /\ ino[c] \in Inum /\ Exists(ino[c])
      /\ attr[c].size \in Nat /\ made[c] \in Inum
  BY <1>1, RequestUnderWay
<1>4. ExtentsFit(c) /\ OthersKeep(c)
  BY <1>1, QuietFits DEF extentTableVars, OthersKeep
<1>5. Root \in Inum
  BY MaxInumIsPositive DEF Root, Inum
<1>6. /\ made'[c] = Root /\ made' \in [Client -> Inum]
      /\ \A d \in Client \ {c} : made'[d] = made[d]
  BY <1>1, <1>5 DEF TypeInv
<1>7. PICK s \in {"typed", "lock_link", "done"}, i \in Inum :
         /\ Proceed(c, s)
         /\ ino' = [ino EXCEPT ![c] = i]
         /\ Exists(i)
         /\ CallFits(req[c].op, s)
         /\ s = "lock_link" => server[i].type = T_SYMLK
  <2>1. CASE req[c].op = "lookup" /\ LookedUp(c)
    <3>1. b \in Seq(Entries) /\ \A k \in DOMAIN b : Exists(b[k].inum)
      BY <1>2, <1>3, <2>1 DEF RequestFits, DataFit
    <3>2. PICK i : i = FoundInum(b, req[c].name)
      OBVIOUS
    <3>3. i \in Inum /\ Exists(i)
      BY <1>2, <2>1, <3>1, <3>2, FoundIsListed, EntriesOfDirectory DEF LookedUp
    <3>4. Proceed(c, "typed") /\ ino' = [ino EXCEPT ![c] = i]
      BY <1>2, <2>1, <3>2 DEF Unlock
    <3>5. CallFits(req[c].op, "typed")
      BY <2>1 DEF CallFits, StatCalls
    <3> QED
      BY <3>3, <3>4, <3>5
  <2>2. CASE req[c].op \in {"create", "symlink"}
    <3>1. server[made[c]].type = req[c].type /\ HasArguments(req[c])
      BY <1>1, <1>3, <2>2 DEF RequestFits, Making, MountRequest
    <3>2. /\ Exists(made[c])
          /\ req[c].op = "symlink" => server[made[c]].type = T_SYMLK
      BY <2>2, <3>1 DEF HasArguments, Exists, T_DIR, T_FILE, T_SYMLK
    <3>3. /\ ino' = [ino EXCEPT ![c] = made[c]]
          /\ \/ req[c].op = "create" /\ Proceed(c, "typed")
             \/ req[c].op = "symlink" /\ Proceed(c, "lock_link")
      BY <2>2 DEF Unlock
    <3>4. /\ req[c].op = "create" => CallFits(req[c].op, "typed")
          /\ req[c].op = "symlink" => CallFits(req[c].op, "lock_link")
      BY DEF CallFits, StatCalls, LinkCalls
    <3> QED
      BY <1>3, <3>2, <3>3, <3>4
  <2>3. CASE ~(req[c].op = "lookup" /\ LookedUp(c)) /\ req[c].op \notin {"create", "symlink"}
    <3>1. ino' = [ino EXCEPT ![c] = ino[c]]
      BY <2>3 DEF Unlock, TypeInv
    <3>2. \/ req[c].op = "setattr" /\ Proceed(c, "typed")
          \/ /\ req[c].op \in {"mount", "unlink", "readdir", "readlink", "read", "write", "lookup"}
             /\ Proceed(c, "done")
      BY <2>3 DEF Unlock
    <3>3. \/ Proceed(c, "typed") /\ CallFits(req[c].op, "typed")
          \/ Proceed(c, "done") /\ CallFits(req[c].op, "done")
      BY <3>2 DEF CallFits, StatCalls, LinkCalls
    <3> QED
      BY <1>3, <3>1, <3>3
  <2> QED
    BY <2>1, <2>2, <2>3
<1>8. /\ ino'[c] = i /\ ino' \in [Client -> Inum]
      /\ \A d \in Client \ {c} : ino'[d] = ino[d]
  BY <1>7 DEF TypeInv
<1>9. stage'[c] = s /\ \A d \in Client \ {c} : stage'[d] = stage[d]
  BY <1>7, OthersOf
<1>10. /\ s \notin NamedCalls /\ s \notin {"get", "put", "unlock"}
       /\ s \in LinkCalls => server[i].type = T_SYMLK
       /\ req[c].op \in {"lookup", "unlink"} => DataFit(T_DIR, b)
  BY <1>2, <1>3, <1>7 DEF NamedCalls, LinkCalls, RequestFits
<1>11. RequestFits(c)'
  BY <1>1, <1>2, <1>3, <1>4, <1>5, <1>6, <1>7, <1>8, <1>9, <1>10, RequestGoesOn DEF ExtentsFit
<1> QED
  BY <1>1, <1>4, <1>6, <1>8, <1>9, <1>11, OneClientStep DEF ExtentsFit, TypeInv

LEMMA EnterFits ==
    ASSUME DInv, DInv', TypeInv, NEW c \in Client, stage[c] \in Waiting, Enter(c)
    PROVE  TypeInv'
<1>1. /\ stage[c] \in {"lock", "lock_link", "lock_stat"}
      /\ UNCHANGED <<extentTableVars, mounted, req, ino, made, buf, attr>>
  BY DEF Enter, Waiting
<1>2. RequestFits(c)
  BY <1>1, RequestUnderWay
<1>3. PICK s : /\ Proceed(c, s)
               /\ stage[c] = "lock_link" => s = "put_link"
               /\ stage[c] = "lock_stat" => s = "stat"
               /\ stage[c] = "lock" =>
                    s = CASE req[c].op \in {"lookup", "readdir", "setattr"} -> "getattr"
                          [] req[c].op \in {"create", "symlink"} -> "create"
                          [] req[c].op = "mount" -> "put"
                          [] OTHER -> "get"
  BY <1>1 DEF Enter, Proceed, DInv, RequestShapes
<1>4. /\ stage[c] = "lock" =>
           \/ req[c].op \in {"lookup", "readdir", "setattr"} /\ s = "getattr"
           \/ req[c].op \in Making /\ s = "create"
           \/ req[c].op = "mount" /\ s = "put"
           \/ /\ req[c].op \notin {"lookup", "readdir", "setattr", "mount"} \cup Making
              /\ s = "get"
  BY <1>3 DEF Making
<1>5. ExtentsFit(c) /\ OthersKeep(c)
  BY <1>1, QuietFits DEF extentTableVars, OthersKeep
<1>6. /\ CallFits(req[c].op, s)
      /\ s \in NamedCalls => stage[c] \in NamedCalls
      /\ s \in LinkCalls => stage[c] \in LinkCalls
      /\ req[c].op \in Making => s \notin {"get", "put", "unlock"}
  BY <1>1, <1>2, <1>3, <1>4 DEF RequestFits, CallFits, StatCalls, LinkCalls, NamedCalls, Making
<1> QED
  BY <1>1, <1>3, <1>5, <1>6, CallIsMade

\* The end of a request.
LEMMA AnswerFits ==
    ASSUME DInv, DInv', TypeInv, NEW c \in Client, UnlockLink(c) \/ UnlockStat(c) \/ Reply(c)
    PROVE  TypeInv'
<1>1. ExtentsFit(c) /\ OthersKeep(c)
  BY QuietFits DEF UnlockLink, UnlockStat, Reply, extentTableVars, OthersKeep
<1>2. CASE UnlockLink(c) \/ UnlockStat(c)
  <2>1. /\ UNCHANGED <<req, ino, made, buf, attr, mounted>>
        /\ stage[c] \in {"unlock_link", "unlock_stat"}
    BY <1>2 DEF UnlockLink, UnlockStat
  <2>2. RequestFits(c)
    BY <2>1, RequestUnderWay
  <2>3. \/ stage[c] = "unlock_link" /\ Proceed(c, "typed")
        \/ stage[c] = "unlock_stat" /\ Proceed(c, "done")
    BY <1>2 DEF UnlockLink, UnlockStat
  <2>4. PICK s \in {"typed", "done"} :
           /\ Proceed(c, s)
           /\ \/ stage[c] = "unlock_link" /\ s = "typed"
              \/ stage[c] = "unlock_stat" /\ s = "done"
    BY <2>3
  <2>5. CallFits(req[c].op, s) /\ s \notin NamedCalls \cup LinkCalls \cup {"get", "put", "unlock"}
    BY <2>2, <2>4 DEF RequestFits, CallFits, StatCalls, LinkCalls, NamedCalls
  <2> QED
    BY <1>1, <2>1, <2>4, <2>5, CallIsMade
<1>3. CASE Reply(c)
  <2>1. Root \in Inum /\ Exists(Root) /\ UNCHANGED <<server, made>>
    BY <1>3, MaxInumIsPositive
    DEF Reply, extentTableVars, Root, Inum, TypeInv, InodesFit, Exists, T_DIR
  <2>2. /\ stage'[c] = "idle" /\ req'[c] = NoRequest /\ ino'[c] = Root
        /\ buf'[c] = <<>> /\ attr'[c] = NoAttr
        /\ \A d \in Client \ {c} : /\ stage'[d] = stage[d] /\ req'[d] = req[d] /\ ino'[d] = ino[d]
                                   /\ buf'[d] = buf[d] /\ attr'[d] = attr[d]
        /\ ino' \in [Client -> Inum] /\ DOMAIN attr' = Client
    BY <1>3, <2>1, OthersOf DEF Reply, DInv, RequestShapes, TypeInv
  <2>3. mounted' \subseteq Client
    BY <1>3 DEF Reply, TypeInv
  <2>4. RequestFits(c)'
    BY <2>1, <2>2 DEF RequestFits, CallFits, NoRequest, NoAttr, NamedCalls, LinkCalls, Making, Exists
  <2> QED
    BY <1>1, <2>1, <2>2, <2>3, <2>4, OneClientStep DEF ExtentsFit, TypeInv
<1> QED
  BY <1>2, <1>3

LEMMA FlushForReleaseFits ==
    ASSUME DInv, DInv', TypeInv, NEW i \in Inum, FlushForRelease(i)
    PROVE  TypeInv'
<1>1. PICK c \in Client : Flush(c, i) /\ UNCHANGED <<mounted, stage, req, ino, made, buf, attr>>
  BY DEF FlushForRelease, requestVars
<1>2. ExtentsFit(c) /\ OthersKeep(c)
  BY <1>1, FlushFits, FlushWritesBack DEF DInv
<1>3. RequestFits(c)'
  BY <1>1, <1>2, RequestStays DEF ExtentsFit
<1> QED
  BY <1>1, <1>2, <1>3, OneClientStep DEF ExtentsFit, TypeInv

\* Steps of the locks alone.
LEMMA LocksFit ==
    ASSUME TypeInv, UNCHANGED <<extentTableVars, mounted, requestVars>>
    PROVE  TypeInv'
<1>1. UNCHANGED <<server, table, mounted, stage, req, ino, made, buf, attr>>
  BY DEF extentTableVars, requestVars
<1>2. InodesFit' /\ TypesStay
  BY <1>1 DEF TypeInv, InodesFit, DataFit, Exists, TypesStay
<1>3. ASSUME NEW c \in Client
      PROVE  RequestFits(c)' /\ \A i \in Inum : EntryFits(i, table[c][i])'
  <2>1. RequestFits(c)'
    BY <1>1, <1>2, RequestStays
  <2>2. \A i \in Inum : EntryFits(i, table[c][i])'
    BY <1>1 DEF TypeInv, EntryFits, DataFit, Exists
  <2> QED
    BY <2>1, <2>2
<1> QED
  BY <1>1, <1>2, <1>3 DEF TypeInv

LEMMA TypeInvHoldsInitially == DirectoryInit => TypeInv
<1> SUFFICES ASSUME DirectoryInit PROVE TypeInv
  OBVIOUS
<1>1. Root \in Inum
  BY MaxInumIsPositive DEF Root, Inum
<1>2. <<>> \in Seq(Entries) /\ <<>> \in Seq(Byte) /\ Len(<<>>) \in Nat /\ DOMAIN <<>> = {}
  OBVIOUS
<1>3. InodesFit
  BY <1>1, <1>2 DEF DirectoryInit, InodesFit, DataFit, FreeInode, Types, T_DIR
<1>4. Exists(Root)
  BY <1>1 DEF DirectoryInit, Exists, T_DIR
<1>5. ASSUME NEW c \in Client
      PROVE  RequestFits(c)
  BY <1>4 DEF DirectoryInit, RequestFits, CallFits, NoRequest, NoAttr, NamedCalls, LinkCalls, Making
<1>6. ASSUME NEW c \in Client, NEW i \in Inum
      PROVE  EntryFits(i, table[c][i])
  <2>1. table[c][i] = Absent
    BY DEF DirectoryInit
  <2> QED
    BY <2>1 DEF EntryFits, Absent
<1> QED
  BY <1>1, <1>3, <1>5, <1>6 DEF DirectoryInit, TypeInv

LEMMA TypeInvIsInductive == DInv /\ DInv' /\ TypeInv /\ [KernelNext]_directoryVars => TypeInv'
<1> SUFFICES ASSUME DInv, DInv', TypeInv, [KernelNext]_directoryVars PROVE TypeInv'
  OBVIOUS
<1>1. ASSUME NEW c \in Client, Serve(c) PROVE TypeInv'
  <2>1. ASSUME EnterAgain(c) PROVE TypeInv'
    BY <2>1, EnterFits DEF EnterAgain, Wants
  <2> QED
    BY <1>1, <2>1, GetattrStepsFit, CreateStepFits, GetStepFits, RemoveStepFits, PutStepFits,
       FlushStepFits, UnlockFits, PutLinkFits, AnswerFits DEF Serve
<1>2. ASSUME NEW i \in Inum, LockStep(i) PROVE TypeInv'
  <2>1. ASSUME Grant(i) PROVE TypeInv'
    BY <2>1, EnterFits DEF Grant, Wants
  <2>2. ASSUME Release(i) PROVE TypeInv'
    BY <2>2, LocksFit DEF Release
  <2> QED
    BY <1>2, <2>1, <2>2, FlushForReleaseFits DEF LockStep
<1>3. ASSUME NEW c \in Client, Reply(c) PROVE TypeInv'
  BY <1>3, AnswerFits
<1>4. ASSUME NEW c \in Client, NEW r, Asks(c, r), Take(c, r) PROVE TypeInv'
  BY <1>4, TakeFits
<1>5. CASE UNCHANGED directoryVars
  BY <1>5, LocksFit DEF directoryVars
<1> QED
  BY <1>1, <1>2, <1>3, <1>4, <1>5 DEF KernelNext, DirectoryStep

\* Under the requests of a kernel every inode, entry and request keeps to its type: what
\* is taken for a directory is a list of entries of inodes that exist, what is taken for a
\* file is bytes.
THEOREM KernelTypes == KernelSpec => [](DInv /\ TypeInv)
<1>1. KernelSpec => []DInv
  BY KernelUsesDirectories, DirectoryInvariance, PTL
<1>2. KernelSpec /\ []DInv => []TypeInv
  BY TypeInvHoldsInitially, TypeInvIsInductive, PTL DEF KernelSpec
<1> QED
  BY <1>1, <1>2, PTL

\* What a directory holds, its entries cached or not.
LEMMA ContentsFit ==
    ASSUME DInv, TypeInv, NEW i \in Inum
    PROVE  DataFit(server[i].type, Contents(i))
<1>1. CASE \E c \in Client : Dirty(c, i)
  <2>1. PICK c \in Client : c = (CHOOSE d \in Client : Dirty(d, i)) /\ Dirty(c, i)
    BY <1>1
  <2>2. DataFit(server[i].type, table[c][i].data)
    BY <2>1 DEF TypeInv, EntryFits, Dirty
  <2>3. Contents(i) = table[c][i].data
    BY <1>1, <2>1 DEF Contents
  <2> QED
    BY <2>2, <2>3
<1>2. CASE ~\E c \in Client : Dirty(c, i)
  BY <1>2 DEF Contents, TypeInv, InodesFit
<1> QED
  BY <1>1, <1>2

\* The tables hold what their types say, and directories list inodes, under any requests
\* that a kernel makes.
THEOREM DirectoriesAreTyped == KernelSpec => []DirTypeOK
<1>1. ASSUME DInv, TypeInv PROVE DirTypeOK
  <2>1. ASSUME NEW d \in Directories
        PROVE  Listed(d) \subseteq Inum
    <3>1. d \in Inum /\ server[d].type = T_DIR
      BY DEF Directories
    <3>2. Contents(d) \in Seq(Entries)
      BY <1>1, <3>1, ContentsFit DEF DataFit
    <3> QED
      BY <3>1, <3>2, EntriesOfDirectory DEF Listed, Listing, Directories
  <2>2. ASSUME NEW c \in Client, NEW i \in Inum
        PROVE  /\ table[c][i].m_state \in {"ABSENT", "NONE", "UPDATE", "MODIFIED", "REMOVED"}
               /\ \/ table[c][i].type \in Types \cup {StaleType}
                  \/ table[c][i].type = "none" /\ table[c][i].m_state \in {"ABSENT", "REMOVED"}
               /\ table[c][i].size \in Nat
    BY <1>1 DEF DInv, Shapes, States, TypeInv, EntryFits
  <2> QED
    BY <1>1, <2>1, <2>2 DEF DirTypeOK, TypeInv, InodesFit, DInv, RequestShapes
<1> QED
  BY <1>1, KernelTypes, PTL

-----------------------------------------------------------------------------
\* Names.

\* A directory, or a file, is what the client that has its data says, or else what the
\* server has.
HeldAs(i, d) ==
    /\ \A c \in Client : HasData(c, i) => table[c][i].data = d
    /\ (\A c \in Client : ~HasData(c, i)) => server[i].data = d

HeldAsContents == \A i \in Inum : HeldAs(i, Contents(i))

LEMMA HeldOnce == DInv => HeldAsContents
<1> SUFFICES ASSUME DInv, NEW i \in Inum PROVE HeldAs(i, Contents(i))
  BY DEF HeldAsContents
<1>1. \A c, e \in Client : HasData(c, i) /\ HasData(e, i) => c = e
  BY DEF DInv, DataOfOwner
<1>2. CASE \E c \in Client : Dirty(c, i)
  <2>1. PICK c \in Client : c = (CHOOSE e \in Client : Dirty(e, i)) /\ Dirty(c, i)
    BY <1>2
  <2>2. Contents(i) = table[c][i].data
    BY <1>2, <2>1 DEF Contents
  <2> QED
    BY <1>1, <2>1, <2>2 DEF HeldAs, HasData, Dirty
<1>3. CASE ~\E c \in Client : Dirty(c, i)
  <2>1. Contents(i) = server[i].data
    BY <1>3 DEF Contents
  <2> QED
    BY <1>3, <2>1 DEF HeldAs, DInv, DataOfOwner
<1> QED
  BY <1>2, <1>3

LEMMA HeldOnceAfter == DInv' => HeldAsContents'
BY HeldOnce, PTL

\* What is held as the same is the same.
LEMMA ContentsAre ==
    ASSUME DInv', NEW i \in Inum, NEW d, HeldAs(i, d)'
    PROVE  Contents(i)' = d
<1>1. HeldAs(i, Contents(i))'
  BY HeldOnceAfter DEF HeldAsContents
<1> QED
  BY <1>1 DEF HeldAs

\* The names stay: tables and server may change, but not in what directories list.
SameNames ==
    /\ \A d \in Inum : Listing(d)' = Listing(d)
    /\ \A i \in Inum : /\ server'[i].type = server[i].type
                       /\ server'[i] = FreeInode <=> server[i] = FreeInode
    /\ \A c \in Client, i \in Inum : Removed(c, i)' => Removed(c, i)

LEMMA GetattrNames ==
    ASSUME DInv, DInv', NEW c \in Client, NEW i \in Inum, Getattr(c, i)
    PROVE  SameNames
<1>1. /\ UNCHANGED server
      /\ \A e \in Client, j \in Inum : \/ table'[e][j] = table[e][j]
                                       \/ table[e][j] = Absent /\ table'[e][j].m_state = "NONE"
  BY DEF Getattr, Attr, Store, AttrOnly, DInv, Shapes
<1>2. ASSUME NEW j \in Inum
      PROVE  Contents(j)' = Contents(j)
  <2>1. PICK d : d = Contents(j)
    OBVIOUS
  <2>2. HeldAs(j, d)
    BY <2>1, HeldOnce DEF HeldAsContents
  <2>3. HeldAs(j, d)'
    BY <1>1, <2>2 DEF HeldAs, HasData, Absent
  <2> QED
    BY <2>1, <2>3, ContentsAre
<1>3. \A e \in Client, j \in Inum : Removed(e, j)' => Removed(e, j)
  BY <1>1 DEF Removed
<1> QED
  BY <1>1, <1>2, <1>3 DEF SameNames, Listing, Directories

LEMMA GetNames ==
    ASSUME DInv, DInv', NEW c \in Client, NEW i \in Inum, Get(c, i)
    PROVE  SameNames /\ Contents(i)' = Contents(i)
<1>1. /\ UNCHANGED server
      /\ OthersKeep(c) /\ EntriesBut(c, i) /\ table'[c][i] = Entry(c, i)
  BY GetFetches DEF DInv
<1>2. /\ Removed(c, i) => table'[c][i] = table[c][i]
      /\ HasData(c, i) => table'[c][i] = table[c][i]
      /\ ~Removed(c, i) /\ ~HasData(c, i) => /\ HasData(c, i)' /\ ~Removed(c, i)'
                                             /\ table'[c][i].data = server[i].data
  BY <1>1, EntryOfTable DEF DInv, HasData, Removed
<1>3. ASSUME NEW j \in Inum
      PROVE  Contents(j)' = Contents(j)
  <2>1. PICK d : d = Contents(j)
    OBVIOUS
  <2>2. HeldAs(j, d)
    BY <2>1, HeldOnce DEF HeldAsContents
  <2>3. CASE j # i \/ Removed(c, i) \/ HasData(c, i)
    <3>1. \A e \in Client : table'[e][j] = table[e][j]
      BY <1>1, <1>2, <2>3 DEF OthersKeep, EntriesBut
    <3>2. HeldAs(j, d)'
      BY <1>1, <2>2, <3>1 DEF HeldAs, HasData
    <3> QED
      BY <2>1, <3>2, ContentsAre
  <2>4. CASE j = i /\ ~Removed(c, i) /\ ~HasData(c, i)
    <3>1. \A e \in Client : HasData(e, i)' => e = c
      BY <1>2, <2>4 DEF DInv, DataOfOwner
    <3>2. \A e \in Client : ~HasData(e, i)
      BY <1>1, <2>4, <3>1 DEF OthersKeep, HasData
    <3>3. server[i].data = d
      BY <2>2, <2>4, <3>2 DEF HeldAs
    <3>4. HeldAs(j, d)'
      BY <1>2, <2>4, <3>1, <3>3 DEF HeldAs
    <3> QED
      BY <2>1, <3>4, ContentsAre
  <2> QED
    BY <2>3, <2>4
<1>4. \A e \in Client, j \in Inum : Removed(e, j)' => Removed(e, j)
  BY <1>1, <1>2 DEF Removed, HasData, OthersKeep, EntriesBut
<1> QED
  BY <1>1, <1>3, <1>4 DEF SameNames, Listing, Directories

LEMMA FlushNames ==
    ASSUME DInv, DInv', TypeInv, NEW c \in Client, NEW i \in Inum, Flush(c, i)
    PROVE  SameNames
<1>1. /\ OthersKeep(c) /\ EntriesBut(c, i) /\ ~HasData(c, i)' /\ ~Removed(c, i)'
      /\ \A j \in Inum : j # i \/ ~Dirty(c, i) => server'[j] = server[j]
  BY FlushWritesBack DEF DInv
<1>2. /\ Dirty(c, i) => server'[i].data = table[c][i].data
      /\ \A j \in Inum : server'[j].type = server[j].type
  BY DEF Flush, DInv, Shapes
<1>3. ASSUME NEW j \in Inum
      PROVE  Contents(j)' = Contents(j)
  <2>1. PICK d : d = Contents(j)
    OBVIOUS
  <2>2. HeldAs(j, d)
    BY <2>1, HeldOnce DEF HeldAsContents
  <2>3. CASE j # i \/ ~HasData(c, i)
    <3>1. server'[j] = server[j]
      BY <1>1, <2>3 DEF HasData, Dirty
    <3>2. \A e \in Client : HasData(e, j)' <=> HasData(e, j)
      BY <1>1, <2>3 DEF OthersKeep, EntriesBut, HasData
    <3>3. \A e \in Client : HasData(e, j) => table'[e][j] = table[e][j]
      BY <1>1, <2>3 DEF OthersKeep, EntriesBut, HasData
    <3>4. HeldAs(j, d)'
      BY <2>2, <3>1, <3>2, <3>3 DEF HeldAs
    <3> QED
      BY <2>1, <3>4, ContentsAre
  <2>4. CASE j = i /\ HasData(c, i)
    <3>1. \A e \in Client : HasData(e, i) => e = c
      BY <2>4 DEF DInv, DataOfOwner
    <3>2. \A e \in Client : ~HasData(e, i)'
      BY <1>1, <3>1 DEF OthersKeep, HasData
    <3>3. table[c][i].data = d /\ (~Dirty(c, i) => server[i].data = d)
      BY <2>2, <2>4 DEF HeldAs, DInv, DataOfOwner
    <3>4. server'[i].data = d
      BY <1>1, <1>2, <3>3
    <3>5. HeldAs(j, d)'
      BY <2>4, <3>2, <3>4 DEF HeldAs
    <3> QED
      BY <2>1, <3>5, ContentsAre
  <2> QED
    BY <2>3, <2>4
<1>4. \A e \in Client, j \in Inum : Removed(e, j)' => Removed(e, j)
  BY <1>1 DEF Removed, OthersKeep, EntriesBut
<1>5. ASSUME NEW j \in Inum
      PROVE  server'[j] = FreeInode <=> server[j] = FreeInode
  <2>1. CASE j # i \/ ~Dirty(c, i)
    BY <1>1, <2>1
  <2>2. CASE j = i /\ Dirty(c, i)
    <3>1. Exists(i)
      BY <2>2 DEF TypeInv, EntryFits, Dirty
    <3> QED
      BY <1>2, <2>2, <3>1 DEF Exists, FreeInode
  <2> QED
    BY <2>1, <2>2
<1> QED
  BY <1>2, <1>3, <1>4, <1>5 DEF SameNames, Listing, Directories

\* A put leaves all other inodes alone.
LEMMA PutHolds ==
    ASSUME DInv, DInv', NEW c \in Client, NEW i \in Inum, NEW d, Put(c, i, d)
    PROVE  /\ UNCHANGED server
           /\ Removed(c, i) => Contents(i)' = Contents(i)
           /\ ~Removed(c, i) => Contents(i)' = d
           /\ \A j \in Inum \ {i} : Contents(j)' = Contents(j)
           /\ \A e \in Client, j \in Inum : Removed(e, j)' => Removed(e, j)
<1>1. CASE Removed(c, i)
  BY <1>1 DEF Put, Contents, Dirty, Removed
<1>2. CASE ~Removed(c, i)
  <2>1. /\ UNCHANGED server
        /\ table'[c][i].m_state = "MODIFIED" /\ table'[c][i].data = d
        /\ \A e \in Client, j \in Inum : e # c \/ j # i => table'[e][j] = table[e][j]
    BY <1>2 DEF Put, Store, DInv, Shapes
  <2>2. Contents(i)' = d
    <3>1. HasData(c, i)' /\ table'[c][i].data = d
      BY <2>1 DEF HasData
    <3>2. HeldAs(i, Contents(i))'
      BY HeldOnceAfter DEF HeldAsContents
    <3> QED
      BY <3>1, <3>2 DEF HeldAs
  <2>3. ASSUME NEW j \in Inum \ {i}
        PROVE  Contents(j)' = Contents(j)
    <3>1. PICK b : b = Contents(j)
      OBVIOUS
    <3>2. HeldAs(j, b)
      BY <3>1, HeldOnce DEF HeldAsContents
    <3>3. HeldAs(j, b)'
      BY <2>1, <3>2 DEF HeldAs, HasData
    <3> QED
      BY <3>1, <3>3, ContentsAre
  <2>4. \A e \in Client, j \in Inum : Removed(e, j)' => Removed(e, j)
    BY <2>1 DEF Removed
  <2> QED
    BY <1>2, <2>1, <2>2, <2>3, <2>4
<1> QED
  BY <1>1, <1>2

\* Requests go on as far as names are concerned: none is given, taken or asked for.
StagesStay(c) ==
    LET r == req[c]
    IN  /\ req'[c] = r
        /\ Linking(c)' <=> Linking(c)
        /\ Linking(c) => made'[c] = made[c]
        /\ r.op \in Making /\ stage'[c] \in {"lock", "create", "get", "put"}
             => stage[c] \in {"lock", "create", "get", "put"}
        /\ r.op = "unlink" =>
             /\ stage'[c] \in {"lock", "get", "remove"} => stage[c] \in {"lock", "get", "remove"}
             /\ stage'[c] \in {"remove", "put"} => IsFound(buf'[c], r.name)
             /\ stage[c] = "put" => stage'[c] = "put" /\ ino'[c] = ino[c] /\ buf'[c] = buf[c]

NamesStay == SameNames /\ UNCHANGED mounted /\ \A c \in Client : StagesStay(c)

\* Nobody else's request goes on.
Alone(c) == \A d \in Client \ {c} : /\ stage'[d] = stage[d] /\ req'[d] = req[d] /\ ino'[d] = ino[d]
                                    /\ made'[d] = made[d] /\ buf'[d] = buf[d]

LEMMA BystanderStays ==
    ASSUME NameInv, NEW c \in Client,
           stage'[c] = stage[c], req'[c] = req[c], ino'[c] = ino[c], made'[c] = made[c],
           buf'[c] = buf[c]
    PROVE  StagesStay(c)
<1>1. NameStays(c)
  BY DEF NameInv
<1>2. Linking(c)' <=> Linking(c)
  BY DEF Linking
<1> QED
  BY <1>1, <1>2 DEF StagesStay, NameStays

LEMMA OneClientNames ==
    ASSUME NameInv, SameNames, UNCHANGED mounted, NEW c \in Client, Alone(c), StagesStay(c)
    PROVE  NamesStay
<1>1. ASSUME NEW d \in Client \ {c} PROVE StagesStay(d)
  BY BystanderStays DEF Alone
<1> QED
  BY <1>1 DEF NamesStay

LEMMA ListingFits ==
    ASSUME DInv, TypeInv, NEW d \in Inum
    PROVE  /\ Listing(d) \in Seq(Entries)
           /\ d \in Directories <=> server[d].type = T_DIR
           /\ d \in Directories => Listing(d) = Contents(d)
           /\ d \notin Directories => Listing(d) = <<>>
           /\ \A i \in Listed(d) : i \in Inum /\ Exists(i)
           /\ \A n : MatchingInums(Listing(d), n) \subseteq Listed(d)
<1>1. /\ d \in Directories <=> server[d].type = T_DIR
      /\ d \in Directories => Listing(d) = Contents(d)
      /\ d \notin Directories => Listing(d) = <<>>
  BY DEF Directories, Listing
<1>2. DataFit(T_DIR, Listing(d))
  <2>1. DataFit(T_DIR, <<>>)
    BY DEF DataFit, T_DIR, T_FILE, T_SYMLK
  <2> QED
    BY <1>1, <2>1, ContentsFit
<1>3. Listing(d) \in Seq(Entries) /\ \A k \in DOMAIN Listing(d) : Exists(Listing(d)[k].inum)
  BY <1>2 DEF DataFit
<1>4. PICK l : l = Listing(d)
  OBVIOUS
<1>5. \A k \in DOMAIN l : l[k].inum \in Inum /\ Exists(l[k].inum)
  BY <1>3, <1>4, EntriesOfDirectory
<1> QED
  BY <1>1, <1>3, <1>4, <1>5 DEF Listed, MatchingInums, Matches

LEMMA NameInvStays ==
    ASSUME DInv, TypeInv, NameInv, NamesStay
    PROVE  NameInv'
<1>1. /\ Directories' = Directories
      /\ \A d \in Inum : Listing(d)' = Listing(d)
      /\ \A d \in Inum : Listed(d)' = Listed(d)
      /\ \A i \in Inum : server'[i].type = server[i].type
      /\ \A c \in Client, i \in Inum : Removed(c, i)' => Removed(c, i)
      /\ \A c \in Client : req'[c] = req[c] /\ StagesStay(c)
      /\ mounted' = mounted
  BY DEF NamesStay, SameNames, Directories, Listed, StagesStay
<1>2. Directories \subseteq Inum
  BY DEF Directories
<1>3. NamedOnce'
  BY <1>1, <1>2 DEF NameInv, NamedOnce
<1>4. RemovedIsLeaving'
  <2>1. SUFFICES ASSUME NEW c \in Client, NEW i \in Inum, Removed(c, i)'
                 PROVE  /\ server'[i].type # T_DIR
                        /\ \A d \in Directories : i \in Listed(d) =>
                              /\ stage'[c] = "put" /\ req'[c].op = "unlink" /\ ino'[c] = d
                              /\ i \in MatchingInums(buf'[c], req'[c].name)
    BY <1>1, <1>2 DEF RemovedIsLeaving
  <2>2. Removed(c, i)
    BY <1>1, <2>1
  <2> QED
    BY <1>1, <2>2 DEF NameInv, RemovedIsLeaving, StagesStay
<1>5. MountsComeFirst'
  BY <1>1, <1>2 DEF NameInv, MountsComeFirst
<1>6. ASSUME NEW c \in Client
      PROVE  NamelessIsNew(c)'
  <2>1. SUFFICES ASSUME Linking(c)'
                 PROVE  /\ \A d \in Directories : made'[c] \notin Listed(d)
                        /\ \A e \in Client : ~Removed(e, made[c])'
                        /\ \A e \in Client \ {c} : Linking(e)' => made'[e] # made'[c]
    BY <1>1, <1>2 DEF NamelessIsNew
  <2>2. Linking(c) /\ made'[c] = made[c] /\ made[c] \in Inum
    BY <1>1, <2>1 DEF StagesStay, TypeInv
  <2>3. \A e \in Client : ~Removed(e, made[c])'
    BY <1>1, <2>2 DEF NameInv, NamelessIsNew, Removed
  <2>4. \A e \in Client : Linking(e)' => Linking(e) /\ made'[e] = made[e]
    BY <1>1 DEF StagesStay
  <2> QED
    BY <2>2, <2>3, <2>4 DEF NameInv, NamelessIsNew
<1>7. ASSUME NEW c \in Client
      PROVE  NameStays(c)'
  <2> DEFINE r == req[c]
  <2>1. NameStays(c) /\ r = req'[c] /\ StagesStay(c)
    BY <1>1 DEF NameInv
  <2>2. r.op \in Making /\ stage'[c] \in {"lock", "create", "get", "put"} => NameIsNew(r)'
    <3>1. SUFFICES ASSUME r.op \in Making, stage'[c] \in {"lock", "create", "get", "put"}
                   PROVE  ~IsFound(Listing(r.ino)', r.name)
      BY <2>1 DEF NameIsNew
    <3>2. r.ino \in Inum
      BY <3>1 DEF TypeInv, RequestFits, FitsInode, Making, NoRequest, MountRequest
    <3>3. NameIsNew(r)
      BY <2>1, <3>1 DEF StagesStay, NameStays
    <3> QED
      BY <1>1, <3>2, <3>3 DEF NameIsNew
  <2>3. r.op = "unlink" /\ stage'[c] \in {"lock", "get", "remove"} => UnlinksFiles(r)'
    <3>1. SUFFICES ASSUME r.op = "unlink", stage'[c] \in {"lock", "get", "remove"}
                   PROVE  UnlinksFiles(r)'
      OBVIOUS
    <3>2. r.ino \in Inum
      BY <3>1 DEF TypeInv, RequestFits, FitsInode, NoRequest, MountRequest
    <3>3. UnlinksFiles(r)
      BY <2>1, <3>1 DEF StagesStay, NameStays
    <3>4. \A i \in MatchingInums(Listing(r.ino), r.name) : i \in Inum
      BY <3>2, ListingFits
    <3> QED
      BY <1>1, <2>1, <3>2, <3>3, <3>4 DEF UnlinksFiles
  <2>4. r.op = "unlink" /\ stage'[c] \in {"remove", "put"} => IsFound(buf'[c], r.name)
    BY <2>1 DEF StagesStay
  <2>5. \A e \in Client \ {c} : ~Clash(r, req'[e])
    BY <1>1, <2>1 DEF NameStays
  <2> QED
    BY <2>1, <2>2, <2>3, <2>4, <2>5 DEF NameStays, NameIsNew, UnlinksFiles
<1> QED
  BY <1>3, <1>4, <1>5, <1>6, <1>7 DEF NameInv

\* How an operation goes on when it is not one on names, or between its calls on them.
LEMMA GoesOn ==
    ASSUME DInv, NameInv, SameNames, NEW c \in Client, NEW s, Proceed(c, s),
           UNCHANGED <<req, mounted>>,
           \A d \in Client \ {c} : ino'[d] = ino[d] /\ made'[d] = made[d] /\ buf'[d] = buf[d],
           req[c].op \in Making =>
              /\ s \in {"get", "put"} <=> stage[c] \in {"get", "put"}
              /\ s \in {"lock", "create", "get", "put"}
                   => stage[c] \in {"lock", "create", "get", "put"}
              /\ stage[c] \in {"get", "put"} => made'[c] = made[c],
           req[c].op = "unlink" =>
              /\ stage[c] # "put" /\ s # "put"
              /\ s \in {"lock", "get", "remove"} => stage[c] \in {"lock", "get", "remove"}
              /\ s = "remove" => IsFound(buf'[c], req[c].name)
    PROVE  NamesStay
<1>1. stage'[c] = s /\ \A d \in Client \ {c} : stage'[d] = stage[d]
  BY DEF DInv, RequestShapes, Proceed
<1>2. Alone(c)
  BY <1>1 DEF Alone
<1>3. StagesStay(c)
  BY <1>1 DEF StagesStay, Linking
<1> QED
  BY <1>2, <1>3, OneClientNames

LEMMA QuietNames ==
    ASSUME UNCHANGED extentTableVars
    PROVE  SameNames
<1>1. UNCHANGED <<server, table>>
  BY DEF extentTableVars
<1>2. \A i \in Inum : Contents(i)' = Contents(i)
  BY <1>1 DEF Contents, Dirty
<1> QED
  BY <1>1, <1>2 DEF SameNames, Listing, Directories, Removed

LEMMA GetattrStepsName ==
    ASSUME DInv, DInv', TypeInv, NameInv, NEW c \in Client,
           IsDir(c) \/ GetattrStep(c) \/ Typed(c) \/ Stat(c)
    PROVE  NamesStay
<1>1. /\ stage[c] \in {"isdir", "getattr", "typed", "stat"}
      /\ Getattr(c, ino[c])
      /\ UNCHANGED <<req, ino, made, buf, mounted>>
  BY DEF IsDir, GetattrStep, Typed, Stat
<1>2. PICK s : /\ Proceed(c, s)
               /\ stage[c] = "isdir" => s \in {"lock", "done"}
               /\ stage[c] = "getattr" => s \in {"get", "unlock"}
               /\ stage[c] = "typed" => s \in {"lock_stat", "done"}
               /\ stage[c] = "stat" => s = "unlock_stat"
  BY DEF IsDir, GetattrStep, Typed, Stat
<1>3. ino[c] \in Inum /\ RequestFits(c)
  BY <1>1, RequestUnderWay
<1>4. SameNames
  BY <1>1, <1>3, GetattrNames
<1>5. stage[c] \in {"isdir", "getattr"} => req[c].op \notin Making \cup {"unlink"}
  BY <1>3 DEF RequestFits, CallFits, StatCalls, LinkCalls, Making
<1> QED
  BY <1>1, <1>2, <1>4, <1>5, GoesOn

LEMMA EnterNames ==
    ASSUME DInv, NameInv, NEW c \in Client, stage[c] \in Waiting, Enter(c)
    PROVE  NamesStay
<1>1. /\ stage[c] \in {"lock", "lock_link", "lock_stat"}
      /\ UNCHANGED <<extentTableVars, mounted, req, ino, made, buf>>
  BY DEF Enter, Waiting
<1>2. PICK s : /\ Proceed(c, s)
               /\ stage[c] = "lock_link" => s = "put_link"
               /\ stage[c] = "lock_stat" => s = "stat"
               /\ stage[c] = "lock" =>
                    s = CASE req[c].op \in {"lookup", "readdir", "setattr"} -> "getattr"
                          [] req[c].op \in {"create", "symlink"} -> "create"
                          [] req[c].op = "mount" -> "put"
                          [] OTHER -> "get"
  BY <1>1 DEF Enter, Proceed, DInv, RequestShapes
<1>3. /\ stage[c] = "lock" /\ req[c].op \in Making => s = "create"
      /\ stage[c] = "lock" /\ req[c].op = "unlink" => s = "get"
  BY <1>2 DEF Making
<1>4. SameNames
  BY <1>1, QuietNames
<1> QED
  BY <1>1, <1>2, <1>3, <1>4, GoesOn

LEMMA GetStepNames ==
    ASSUME DInv, DInv', TypeInv, NameInv, NEW c \in Client, GetStep(c)
    PROVE  NamesStay
<1>1. /\ stage[c] = "get" /\ Get(c, ino[c])
      /\ buf' = [buf EXCEPT ![c] = DataOf(c)]
      /\ UNCHANGED <<req, ino, made, mounted>>
  BY DEF GetStep
<1>2. PICK s : /\ Proceed(c, s)
               /\ req[c].op \in Making => s = "put"
               /\ req[c].op = "unlink" => \/ s = "remove" /\ IsFound(DataOf(c), req[c].name)
                                          \/ s = "unlock"
  <2>1. CASE req[c].op \in {"lookup", "readdir", "read", "readlink"}
    BY <2>1 DEF GetStep, Making
  <2>2. CASE req[c].op = "unlink"
    BY <2>2 DEF GetStep, Making
  <2>3. CASE req[c].op \notin {"lookup", "readdir", "read", "readlink", "unlink"}
    BY <2>3 DEF GetStep, Making
  <2> QED
    BY <2>1, <2>2, <2>3
<1>3. ino[c] \in Inum
  BY <1>1, RequestUnderWay
<1>4. SameNames
  BY <1>1, <1>3, GetNames
<1>5. buf'[c] = DataOf(c) /\ \A d \in Client \ {c} : buf'[d] = buf[d]
  BY <1>1 DEF DInv, RequestShapes
<1> QED
  BY <1>1, <1>2, <1>4, <1>5, GoesOn DEF Making

LEMMA FlushStepNames ==
    ASSUME DInv, DInv', TypeInv, NameInv, NEW c \in Client, FlushStep(c)
    PROVE  NamesStay
<1>1. /\ stage[c] \in {"flush", "flush_link"} /\ Flush(c, ino[c])
      /\ UNCHANGED <<req, ino, made, buf, mounted>>
  BY DEF FlushStep
<1>2. PICK s \in {"unlock", "unlock_link"} : Proceed(c, s)
  BY DEF FlushStep
<1>3. ino[c] \in Inum
  BY <1>1, RequestUnderWay
<1>4. SameNames
  BY <1>1, <1>3, FlushNames
<1> QED
  BY <1>1, <1>2, <1>4, GoesOn

LEMMA UnlockNames ==
    ASSUME DInv, TypeInv, NameInv, NEW c \in Client, Unlock(c)
    PROVE  NamesStay
<1>1. /\ stage[c] = "unlock" /\ UNCHANGED <<extentTableVars, mounted, req, buf>>
      /\ \A d \in Client \ {c} : ino'[d] = ino[d] /\ made'[d] = made[d]
  BY DEF Unlock, TypeInv
<1>2. PICK s \in {"typed", "lock_link", "done"} : Proceed(c, s)
  BY DEF Unlock
<1>3. SameNames
  BY <1>1, QuietNames
<1> QED
  BY <1>1, <1>2, <1>3, GoesOn

LEMMA AnswersName ==
    ASSUME DInv, NameInv, NEW c \in Client, UnlockLink(c) \/ UnlockStat(c)
    PROVE  NamesStay
<1>1. /\ stage[c] \in {"unlock_link", "unlock_stat"}
      /\ UNCHANGED <<extentTableVars, mounted, req, ino, made, buf>>
  BY DEF UnlockLink, UnlockStat
<1>2. PICK s \in {"typed", "done"} : Proceed(c, s)
  BY DEF UnlockLink, UnlockStat
<1>3. SameNames
  BY <1>1, QuietNames
<1> QED
  BY <1>1, <1>2, <1>3, GoesOn

\* What is put into a file or a link is in no listing.
LEMMA PutAside ==
    ASSUME DInv, DInv', TypeInv, NEW c \in Client, NEW i \in Inum, NEW d, Put(c, i, d),
           server[i].type # T_DIR \/ Listing(i) = d
    PROVE  SameNames
<1>1. /\ UNCHANGED server
      /\ Removed(c, i) => Contents(i)' = Contents(i)
      /\ ~Removed(c, i) => Contents(i)' = d
      /\ \A j \in Inum \ {i} : Contents(j)' = Contents(j)
      /\ \A e \in Client, j \in Inum : Removed(e, j)' => Removed(e, j)
  BY PutHolds
<1>2. ASSUME NEW j \in Inum
      PROVE  Listing(j)' = Listing(j)
  <2>1. Directories' = Directories
    BY <1>1 DEF Directories
  <2>2. CASE j = i /\ j \in Directories
    BY <1>1, <2>1, <2>2 DEF Listing, Directories
  <2>3. CASE j # i \/ j \notin Directories
    BY <1>1, <2>1, <2>3 DEF Listing
  <2> QED
    BY <2>2, <2>3
<1> QED
  BY <1>1, <1>2 DEF SameNames

LEMMA PutLinkNames ==
    ASSUME DInv, DInv', TypeInv, NameInv, NEW c \in Client, PutLink(c)
    PROVE  NamesStay
<1>1. /\ stage[c] = "put_link" /\ Put(c, ino[c], <<req[c].link>>)
      /\ Proceed(c, "flush_link")
      /\ UNCHANGED <<req, ino, made, buf, mounted>>
  BY DEF PutLink
<1>2. ino[c] \in Inum /\ server[ino[c]].type = T_SYMLK
  BY <1>1, RequestUnderWay DEF RequestFits, LinkCalls
<1>3. SameNames
  BY <1>1, <1>2, PutAside DEF T_SYMLK, T_DIR
<1> QED
  BY <1>1, <1>3, GoesOn

\* Mounts come while there are no names.
LEMMA PutStepAside ==
    ASSUME DInv, DInv', TypeInv, NameInv, NEW c \in Client, PutStep(c),
           req[c].op \notin Making \cup {"unlink"}
    PROVE  NamesStay
<1>1. /\ stage[c] = "put" /\ Put(c, ino[c], NewData(c))
      /\ UNCHANGED <<req, ino, made, buf, mounted>>
  BY DEF PutStep
<1>2. PICK s \in {"flush", "unlock"} : Proceed(c, s)
  BY DEF PutStep
<1>3. /\ ino[c] \in Inum /\ RequestFits(c) /\ ino[c] = req[c].ino /\ req[c] # NoRequest
  BY <1>1, RequestUnderWay DEF NamedCalls
<1>4. server[ino[c]].type # T_DIR \/ Listing(ino[c]) = NewData(c)
  <2>1. CASE req[c].op = "mount"
    <3>1. req[c] = MountRequest
      BY <1>3, <2>1 DEF RequestFits, FitsInode, OnDirectory, OnFile
    <3>2. \A d \in Directories : Listing(d) = <<>>
      BY <3>1 DEF NameInv, MountsComeFirst
    <3>3. NewData(c) = <<>>
      BY <2>1 DEF NewData
    <3> QED
      BY <1>3, <3>2, <3>3, ListingFits
  <2>2. CASE req[c].op \in {"write", "setattr"}
    BY <1>3, <2>2 DEF RequestFits, FitsInode, OnFile, MountRequest, T_DIR, T_FILE
  <2>3. req[c].op \in {"mount", "write", "setattr"}
    BY <1>1, <1>3 DEF RequestFits, CallFits, FitsInode, OnDirectory, OnFile, MountRequest, Making,
                      StatCalls, LinkCalls
  <2> QED
    BY <2>1, <2>2, <2>3
<1>5. SameNames
  <2>1. PICK i, d : i = ino[c] /\ d = NewData(c)
    OBVIOUS
  <2> QED
    BY <1>1, <1>3, <1>4, <2>1, PutAside
<1> QED
  BY <1>1, <1>2, <1>5, GoesOn

LEMMA LockStepNames ==
    ASSUME DInv, DInv', TypeInv, NameInv, NEW i \in Inum, LockStep(i)
    PROVE  NamesStay
<1>1. ASSUME Grant(i) PROVE NamesStay
  BY <1>1, EnterNames DEF Grant, Wants
<1>2. ASSUME FlushForRelease(i) PROVE NamesStay
  <2>1. SameNames
    BY <1>2, FlushNames DEF FlushForRelease
  <2> QED
    BY <1>2, <2>1, BystanderStays DEF FlushForRelease, requestVars, NamesStay
<1>3. ASSUME Release(i) PROVE NamesStay
  <2>1. SameNames
    BY <1>3, QuietNames DEF Release
  <2> QED
    BY <1>3, <2>1, BystanderStays DEF Release, requestVars, NamesStay
<1> QED
  BY <1>1, <1>2, <1>3 DEF LockStep

LEMMA StutterNames ==
    ASSUME NameInv, UNCHANGED directoryVars
    PROVE  NamesStay
<1>1. UNCHANGED <<extentTableVars, mounted, stage, req, ino, made, buf>>
  BY DEF directoryVars, requestVars
<1> QED
  BY <1>1, QuietNames, BystanderStays DEF NamesStay

\* addfile's new inode: it is nowhere yet.
LEMMA MakesInode ==
    ASSUME DInv, DInv', TypeInv, NEW c \in Client, CreateStep(c)
    PROVE  \E m \in Inum :
             /\ server[m] = FreeInode /\ server'[m].type = req[c].type /\ req[c].type \in Types
             /\ \A j \in Inum \ {m} : server'[j] = server[j]
             /\ \A d \in Inum : Listing(d)' = Listing(d)
             /\ \A e \in Client : ~Removed(e, m)'
             /\ \A e \in Client, j \in Inum : Removed(e, j)' => Removed(e, j)
             /\ req[c].op \in Making
             /\ made'[c] = m /\ \A d \in Client \ {c} : made'[d] = made[d]
<1>1. /\ stage[c] = "create" /\ Create(c, req[c].type)
      /\ made' = [made EXCEPT ![c] = FreshInum]
  BY DEF CreateStep
<1>2. RequestFits(c)
  BY <1>1, RequestUnderWay
<1>3. req[c].op \in Making /\ req[c].type \in Types
  <2>1. req[c].op \in Making
    BY <1>1 DEF DInv, StagesFit, Making
  <2>2. HasArguments(req[c])
    BY <1>2, <2>1 DEF RequestFits, Making, NoRequest, MountRequest
  <2> QED
    BY <2>1, <2>2 DEF HasArguments, Making, Types
<1>4. PICK m : m = FreshInum
  OBVIOUS
<1>5. /\ m \in Inum /\ server[m] = FreeInode
      /\ server'[m].type = req[c].type /\ server'[m].data = <<>>
      /\ \A j \in Inum \ {m} : server'[j] = server[j]
  BY <1>1, <1>3, <1>4, CreateFits
<1>6. made'[c] = m /\ \A d \in Client \ {c} : made'[d] = made[d]
  BY <1>1, <1>4 DEF TypeInv
<1>7. /\ table'[c][m].m_state = "NONE"
      /\ \A e \in Client, j \in Inum : e # c \/ j # m => table'[e][j] = table[e][j]
  BY <1>1, <1>4, <1>5 DEF Create, Store, DInv, Shapes
<1>8. \A e \in Client \ {c} : table'[e][m].m_state = "ABSENT"
  BY <1>5, <1>7 DEF TypeInv, EntryFits, Exists, FreeInode
<1>9. Contents(m)' = <<>>
  <2>1. HeldAs(m, <<>>)'
    BY <1>5, <1>7, <1>8 DEF HeldAs, HasData
  <2> QED
    BY <1>5, <2>1, ContentsAre
<1>10. ASSUME NEW j \in Inum \ {m}
       PROVE  Contents(j)' = Contents(j)
  <2>1. PICK d : d = Contents(j)
    OBVIOUS
  <2>2. HeldAs(j, d)
    BY <2>1, HeldOnce DEF HeldAsContents
  <2>3. HeldAs(j, d)'
    BY <1>5, <1>7, <2>2 DEF HeldAs, HasData
  <2> QED
    BY <2>1, <2>3, ContentsAre
<1>11. ASSUME NEW d \in Inum
       PROVE  Listing(d)' = Listing(d)
  <2>1. CASE d = m
    BY <1>5, <1>9, <2>1 DEF Listing, Directories, FreeInode, T_DIR
  <2>2. CASE d # m
    BY <1>5, <1>10, <2>2 DEF Listing, Directories
  <2> QED
    BY <2>1, <2>2
<1>12. /\ \A e \in Client : ~Removed(e, m)'
       /\ \A e \in Client, j \in Inum : Removed(e, j)' => Removed(e, j)
  BY <1>7, <1>8 DEF Removed
<1> QED
  BY <1>3, <1>5, <1>6, <1>11, <1>12

LEMMA CreateStepNames ==
    ASSUME DInv, DInv', TypeInv, NameInv, NEW c \in Client, CreateStep(c)
    PROVE  NameInv'
<1>1. PICK m \in Inum :
        /\ server[m] = FreeInode /\ server'[m].type = req[c].type /\ req[c].type \in Types
        /\ \A j \in Inum \ {m} : server'[j] = server[j]
        /\ \A d \in Inum : Listing(d)' = Listing(d)
        /\ \A e \in Client : ~Removed(e, m)'
        /\ \A e \in Client, j \in Inum : Removed(e, j)' => Removed(e, j)
        /\ req[c].op \in Making
        /\ made'[c] = m /\ \A d \in Client \ {c} : made'[d] = made[d]
  BY MakesInode
<1>2. /\ stage[c] = "create" /\ stage'[c] = "get"
      /\ \A d \in Client \ {c} : stage'[d] = stage[d]
      /\ UNCHANGED <<req, ino, buf, mounted>>
  BY DEF CreateStep, Proceed, DInv, RequestShapes
<1>3. ~Exists(m)
  BY <1>1 DEF Exists, FreeInode
<1>4. /\ \A d \in Directories : d \in Inum
      /\ \A d \in Directories' : d \in Inum /\ (d \in Directories \/ Listed(d)' = {})
      /\ \A d \in Inum : Listed(d)' = Listed(d)
      /\ \A d \in Inum : \A i \in Listed(d) : i \in Inum \ {m} /\ server'[i].type = server[i].type
      /\ \A d \in Directories' : d \in Directories \/ Listing(d)' = <<>>
  <2>1. \A d \in Directories' : d \in Inum /\ (d \in Directories \/ d = m)
    BY <1>1 DEF Directories
  <2>2. Listing(m)' = <<>> /\ m \notin Directories
    BY <1>1, <1>3 DEF Listing, Directories, FreeInode, T_DIR
  <2>3. \A d \in Inum : Listed(d)' = Listed(d)
    BY <1>1 DEF Listed
  <2>4. Listed(m)' = {}
    BY <2>2 DEF Listed
  <2>5. \A d \in Inum : \A i \in Listed(d) : i \in Inum \ {m} /\ server'[i].type = server[i].type
    BY <1>1, <1>3, ListingFits
  <2> QED
    BY <2>1, <2>2, <2>3, <2>4, <2>5 DEF Directories
<1>5. NamedOnce'
  <2>1. SUFFICES ASSUME NEW d \in Directories', NEW e \in Directories',
                        NEW k \in DOMAIN Listing(d)', NEW l \in DOMAIN Listing(e)',
                        Listing(d)'[k].inum = Listing(e)'[l].inum
                 PROVE  d = e /\ k = l
    BY DEF NamedOnce
  <2>2. d \in Directories /\ e \in Directories
    BY <1>4
  <2> QED
    BY <1>1, <1>4, <2>1, <2>2 DEF NameInv, NamedOnce
<1>6. RemovedIsLeaving'
  <2>1. SUFFICES ASSUME NEW e \in Client, NEW i \in Inum, Removed(e, i)'
                 PROVE  /\ server'[i].type # T_DIR
                        /\ \A d \in Directories' : i \in Listed(d)' =>
                              /\ stage'[e] = "put" /\ req[e].op = "unlink" /\ ino[e] = d
                              /\ i \in MatchingInums(buf[e], req[e].name)
    BY <1>2 DEF RemovedIsLeaving
  <2>2. Removed(e, i) /\ i # m
    BY <1>1, <2>1
  <2>3. server'[i].type # T_DIR
    BY <1>1, <2>2 DEF NameInv, RemovedIsLeaving
  <2>4. ASSUME NEW d \in Directories', i \in Listed(d)'
        PROVE  /\ stage'[e] = "put" /\ req[e].op = "unlink" /\ ino[e] = d
               /\ i \in MatchingInums(buf[e], req[e].name)
    <3>1. d \in Directories /\ i \in Listed(d)
      BY <1>4, <2>4
    <3>2. /\ stage[e] = "put" /\ req[e].op = "unlink" /\ ino[e] = d
          /\ i \in MatchingInums(buf[e], req[e].name)
      BY <2>2, <3>1 DEF NameInv, RemovedIsLeaving
    <3> QED
      BY <1>2, <3>2
  <2> QED
    BY <2>3, <2>4
<1>7. MountsComeFirst'
  BY <1>1, <1>2, <1>4 DEF NameInv, MountsComeFirst
<1>8. \A e \in Client : Linking(e) => made[e] \in Inum \ {m}
  <2>1. SUFFICES ASSUME NEW e \in Client, Linking(e) PROVE made[e] \in Inum \ {m}
    OBVIOUS
  <2>2. server[made[e]].type = req[e].type /\ HasArguments(req[e]) /\ req[e].op \in Making
    BY <2>1 DEF Linking, TypeInv, RequestFits, Making, NoRequest, MountRequest
  <2>3. Exists(made[e]) /\ made[e] \in Inum
    BY <2>2 DEF HasArguments, Making, Exists, T_DIR, T_FILE, T_SYMLK, TypeInv
  <2> QED
    BY <1>3, <2>3
<1>9. ASSUME NEW e \in Client
      PROVE  NamelessIsNew(e)'
  <2>1. SUFFICES ASSUME Linking(e)'
                 PROVE  /\ \A d \in Directories' : made'[e] \notin Listed(d)'
                        /\ \A f \in Client : ~Removed(f, made[e])'
                        /\ \A f \in Client \ {e} : Linking(f)' => made'[f] # made'[e]
    BY DEF NamelessIsNew
  <2>2. \A f \in Client \ {c} : Linking(f)' => Linking(f) /\ made'[f] = made[f]
    BY <1>1, <1>2 DEF Linking
  <2>3. CASE e = c
    <3>1. \A d \in Directories' : made'[e] \notin Listed(d)'
      BY <1>1, <1>4, <2>3
    <3>2. \A f \in Client : ~Removed(f, made[e])'
      BY <1>1, <2>3 DEF Removed
    <3> QED
      BY <1>1, <1>8, <2>2, <2>3, <3>1, <3>2
  <2>4. CASE e # c
    <3>1. Linking(e) /\ made'[e] = made[e] /\ NamelessIsNew(e)
      BY <2>1, <2>2, <2>4 DEF NameInv
    <3>2. \A d \in Directories' : made'[e] \notin Listed(d)'
      BY <1>4, <3>1 DEF NamelessIsNew
    <3>3. \A f \in Client : ~Removed(f, made[e])'
      <4>1. PICK j \in Inum : j = made[e]
        BY <1>8, <3>1
      <4>2. \A f \in Client : ~Removed(f, j)'
        BY <1>1, <3>1, <4>1 DEF NamelessIsNew
      <4> QED
        BY <3>1, <4>1, <4>2 DEF Removed
    <3>4. \A f \in Client \ {e} : Linking(f)' => made'[f] # made'[e]
      BY <1>1, <1>8, <2>2, <2>4, <3>1 DEF NamelessIsNew
    <3> QED
      BY <3>2, <3>3, <3>4
  <2> QED
    BY <2>3, <2>4
<1>10. ASSUME NEW e \in Client
       PROVE  NameStays(e)'
  <2>1. PICK r : r = req[e] /\ r = req'[e]
    BY <1>2
  <2>2. NameStays(e)
    BY DEF NameInv
  <2>3. r \notin {NoRequest, MountRequest} => r.ino \in Inum
    BY <2>1 DEF TypeInv, RequestFits, FitsInode
  <2>4. r.op \in Making /\ stage'[e] \in {"lock", "create", "get", "put"} => NameIsNew(r)'
    <3>1. SUFFICES ASSUME r.op \in Making, stage'[e] \in {"lock", "create", "get", "put"}
                   PROVE  ~IsFound(Listing(r.ino)', r.name)
      BY DEF NameIsNew
    <3>2. NameIsNew(r)
      BY <1>2, <2>1, <2>2, <3>1 DEF NameStays
    <3> QED
      BY <1>1, <2>3, <3>1, <3>2 DEF NameIsNew, Making, NoRequest, MountRequest
  <2>5. r.op = "unlink" /\ stage'[e] \in {"lock", "get", "remove"} => UnlinksFiles(r)'
    <3>1. SUFFICES ASSUME r.op = "unlink", stage'[e] \in {"lock", "get", "remove"}
                   PROVE  UnlinksFiles(r)'
      OBVIOUS
    <3>2. UnlinksFiles(r) /\ r.ino \in Inum
      BY <1>1, <1>2, <2>1, <2>2, <2>3, <3>1 DEF NameStays, Making, NoRequest, MountRequest
    <3>3. Listing(r.ino)' = Listing(r.ino)
      BY <1>1, <3>2
    <3>4. \A i \in MatchingInums(Listing(r.ino), r.name) : server'[i].type = server[i].type
      BY <1>4, <3>2, ListingFits
    <3> QED
      BY <3>2, <3>3, <3>4 DEF UnlinksFiles
  <2>6. r.op = "unlink" /\ stage'[e] \in {"remove", "put"} => IsFound(buf'[e], r.name)
    BY <1>1, <1>2, <2>1, <2>2 DEF NameStays, Making
  <2>7. \A f \in Client \ {e} : ~Clash(r, req'[f])
    BY <1>2, <2>1, <2>2 DEF NameStays
  <2> QED
    BY <2>1, <2>4, <2>5, <2>6, <2>7 DEF NameStays, NameIsNew, UnlinksFiles
<1> QED
  BY <1>5, <1>6, <1>7, <1>9, <1>10 DEF NameInv

\* What an operation on names has got is the listing.
LEMMA BufferIsListing ==
    ASSUME DInv, TypeInv, NameInv, NEW c \in Client, stage[c] \in {"remove", "put"},
           req[c].op \in Making \cup {"unlink"}
    PROVE  /\ ino[c] \in Directories /\ ino[c] \in Inum /\ ino[c] = req[c].ino
           /\ ~Removed(c, ino[c])
           /\ buf[c] = Listing(ino[c])
           /\ req[c].name \in Name
           /\ mounted = Client
<1>1. RequestFits(c) /\ ino[c] \in Inum /\ ino[c] = req[c].ino
  BY RequestUnderWay DEF NamedCalls
<1>2. req[c] \notin {NoRequest, MountRequest} /\ FitsInode(req[c]) /\ HasArguments(req[c])
  BY <1>1 DEF RequestFits, Making, NoRequest, MountRequest
<1>3. server[ino[c]].type = T_DIR /\ req[c].name \in Name
  BY <1>1, <1>2 DEF FitsInode, OnDirectory, HasArguments, Making
<1>4. ~Removed(c, ino[c])
  BY <1>1, <1>3 DEF NameInv, RemovedIsLeaving
<1>5. HasData(c, ino[c]) /\ buf[c] = table[c][ino[c]].data
  BY <1>4 DEF DInv, InHandIsCached, GotData, Making
<1>6. PICK i : i = ino[c]
  OBVIOUS
<1>7. HeldAs(i, Contents(i))
  BY <1>1, <1>6, HeldOnce DEF HeldAsContents
<1>8. buf[c] = Contents(i)
  BY <1>5, <1>6, <1>7 DEF HeldAs
<1>9. mounted = Client
  BY <1>2 DEF NameInv, MountsComeFirst
<1> QED
  BY <1>1, <1>3, <1>4, <1>6, <1>8, <1>9 DEF Directories, Listing

\* unlink marks files that it is about to take out of the directory, and no listing loses
\* anything by it.
LEMMA RemovesFiles ==
    ASSUME DInv, DInv', TypeInv, NameInv, NEW c \in Client, RemoveStep(c)
    PROVE  /\ req[c].op = "unlink" /\ stage'[c] = "put"
           /\ UNCHANGED server
           /\ \A d \in Inum : Listing(d)' = Listing(d)
           /\ \A j \in MatchingInums(buf[c], req[c].name) :
                j \in Listed(ino[c]) /\ server[j].type # T_DIR
           /\ \A e \in Client, j \in Inum :
                Removed(e, j)' => \/ Removed(e, j)
                                  \/ e = c /\ j \in MatchingInums(buf[c], req[c].name)
<1> DEFINE is == MatchingInums(buf[c], req[c].name)
<1>1. stage[c] = "remove" /\ stage'[c] = "put" /\ Remove(c, is)
  BY DEF RemoveStep, Proceed, DInv, RequestShapes
<1>2. req[c].op = "unlink"
  BY <1>1 DEF DInv, StagesFit
<1>3. /\ ino[c] \in Inum /\ ino[c] = req[c].ino
      /\ buf[c] = Listing(ino[c])
  BY <1>1, <1>2, BufferIsListing
<1>4. is \subseteq Listed(ino[c])
  BY <1>3, ListingFits
<1>5. \A j \in is : server[j].type # T_DIR
  BY <1>1, <1>2, <1>3 DEF NameInv, NameStays, UnlinksFiles
<1> HIDE DEF is
<1>6. /\ UNCHANGED server
      /\ \A e \in Client, j \in Inum : e # c \/ j \notin is => table'[e][j] = table[e][j]
  BY <1>1 DEF Remove, DInv, Shapes
<1>7. ASSUME NEW d \in Inum
      PROVE  Listing(d)' = Listing(d)
  <2>1. Directories' = Directories
    BY <1>6 DEF Directories
  <2>2. CASE d \in Directories
    <3>1. d \notin is
      BY <1>5, <2>2 DEF Directories
    <3>2. PICK b : b = Contents(d)
      OBVIOUS
    <3>3. HeldAs(d, b)
      BY <3>2, HeldOnce DEF HeldAsContents
    <3>4. HeldAs(d, b)'
      BY <1>6, <3>1, <3>3 DEF HeldAs, HasData
    <3>5. Contents(d)' = Contents(d)
      BY <3>2, <3>4, ContentsAre
    <3> QED
      BY <2>1, <3>5 DEF Listing
  <2>3. CASE d \notin Directories
    BY <2>1, <2>3 DEF Listing
  <2> QED
    BY <2>2, <2>3
<1>8. \A e \in Client, j \in Inum : Removed(e, j)' => Removed(e, j) \/ (e = c /\ j \in is)
  BY <1>6 DEF Removed
<1> QED
  BY <1>1, <1>2, <1>4, <1>5, <1>6, <1>7, <1>8 DEF is

LEMMA RemoveStepNames ==
    ASSUME DInv, DInv', TypeInv, NameInv, NEW c \in Client, RemoveStep(c)
    PROVE  NameInv'
<1> DEFINE is == MatchingInums(buf[c], req[c].name)
<1>1. /\ stage[c] = "remove" /\ stage'[c] = "put"
      /\ \A d \in Client \ {c} : stage'[d] = stage[d]
      /\ UNCHANGED <<req, ino, made, buf, mounted>>
  BY DEF RemoveStep, Proceed, DInv, RequestShapes
<1>2. /\ req[c].op = "unlink"
      /\ UNCHANGED server
      /\ \A d \in Inum : Listing(d)' = Listing(d)
      /\ \A j \in is : j \in Listed(ino[c]) /\ server[j].type # T_DIR
      /\ \A e \in Client, j \in Inum :
           Removed(e, j)' => Removed(e, j) \/ (e = c /\ j \in is)
  BY RemovesFiles
<1>3. ino[c] \in Directories /\ ino[c] \in Inum
  BY <1>1, <1>2, BufferIsListing
<1> HIDE DEF is
<1>4. /\ Directories' = Directories
      /\ Directories \subseteq Inum
      /\ \A d \in Inum : Listed(d)' = Listed(d)
  BY <1>2 DEF Directories, Listed
<1>5. NamedOnce'
  BY <1>2, <1>4 DEF NameInv, NamedOnce
<1>6. RemovedIsLeaving'
  <2>1. SUFFICES ASSUME NEW e \in Client, NEW i \in Inum, Removed(e, i)'
                 PROVE  /\ server[i].type # T_DIR
                        /\ \A d \in Directories : i \in Listed(d) =>
                              /\ stage'[e] = "put" /\ req[e].op = "unlink" /\ ino[e] = d
                              /\ i \in MatchingInums(buf[e], req[e].name)
    BY <1>1, <1>2, <1>4 DEF RemovedIsLeaving
  <2>2. CASE Removed(e, i)
    BY <1>1, <2>2 DEF NameInv, RemovedIsLeaving
  <2>3. CASE e = c /\ i \in is
    <3>1. i \in Listed(ino[c]) /\ server[i].type # T_DIR
      BY <1>2, <2>3
    <3>2. \A d \in Directories : i \in Listed(d) => d = ino[c]
      BY <1>3, <3>1 DEF NameInv, NamedOnce, Listed
    <3> QED
      BY <1>1, <1>2, <2>3, <3>1, <3>2 DEF is
  <2> QED
    BY <1>2, <2>1, <2>2, <2>3
<1>7. MountsComeFirst'
  BY <1>1, <1>2, <1>4 DEF NameInv, MountsComeFirst
<1>8. \A e \in Client : Linking(e)' <=> Linking(e)
  BY <1>1, <1>2 DEF Linking, Making
<1>9. ASSUME NEW e \in Client
      PROVE  NamelessIsNew(e)'
  <2>1. SUFFICES ASSUME Linking(e)'
                 PROVE  /\ \A d \in Directories' : made'[e] \notin Listed(d)'
                        /\ \A f \in Client : ~Removed(f, made[e])'
                        /\ \A f \in Client \ {e} : Linking(f)' => made'[f] # made'[e]
    BY DEF NamelessIsNew
  <2>2. Linking(e) /\ NamelessIsNew(e)
    BY <1>8, <2>1 DEF NameInv
  <2>3. \A d \in Directories' : made'[e] \notin Listed(d)'
    BY <1>1, <1>4, <2>2 DEF NamelessIsNew
  <2>4. PICK j \in Inum : j = made[e] /\ j = made'[e]
    BY <1>1 DEF TypeInv
  <2>5. j \notin is
    BY <1>2, <1>3, <2>2, <2>4 DEF NamelessIsNew
  <2>6. \A f \in Client : ~Removed(f, made[e])'
    BY <1>2, <2>2, <2>4, <2>5 DEF NamelessIsNew, Removed
  <2>7. \A f \in Client \ {e} : Linking(f)' => made'[f] # made'[e]
    BY <1>1, <1>8, <2>2 DEF NamelessIsNew
  <2> QED
    BY <2>3, <2>6, <2>7
<1>10. ASSUME NEW e \in Client
       PROVE  NameStays(e)'
  <2>1. PICK r : r = req[e] /\ r = req'[e]
    BY <1>1
  <2>2. NameStays(e)
    BY DEF NameInv
  <2>3. r \notin {NoRequest, MountRequest} => r.ino \in Inum
    BY <2>1 DEF TypeInv, RequestFits, FitsInode
  <2>4. r.op \in Making /\ stage'[e] \in {"lock", "create", "get", "put"} => NameIsNew(r)'
    <3>1. SUFFICES ASSUME r.op \in Making, stage'[e] \in {"lock", "create", "get", "put"}
                   PROVE  ~IsFound(Listing(r.ino)', r.name)
      BY DEF NameIsNew
    <3>2. NameIsNew(r)
      BY <1>1, <1>2, <2>1, <2>2, <3>1 DEF NameStays, Making
    <3> QED
      BY <1>2, <2>3, <3>1, <3>2 DEF NameIsNew, Making, NoRequest, MountRequest
  <2>5. r.op = "unlink" /\ stage'[e] \in {"lock", "get", "remove"} => UnlinksFiles(r)'
    <3>1. SUFFICES ASSUME r.op = "unlink", stage'[e] \in {"lock", "get", "remove"}
                   PROVE  UnlinksFiles(r)'
      OBVIOUS
    <3>2. UnlinksFiles(r) /\ r.ino \in Inum
      BY <1>1, <2>1, <2>2, <2>3, <3>1 DEF NameStays, NoRequest, MountRequest
    <3> QED
      BY <1>2, <3>2 DEF UnlinksFiles
  <2>6. r.op = "unlink" /\ stage'[e] \in {"remove", "put"} => IsFound(buf'[e], r.name)
    BY <1>1, <2>1, <2>2 DEF NameStays
  <2>7. \A f \in Client \ {e} : ~Clash(r, req'[f])
    BY <1>1, <2>1, <2>2 DEF NameStays
  <2> QED
    BY <2>1, <2>4, <2>5, <2>6, <2>7 DEF NameStays, NameIsNew, UnlinksFiles
<1> QED
  BY <1>5, <1>6, <1>7, <1>9, <1>10 DEF NameInv

\* w is d with one more entry.
OneMore(w, d, last, n, i) ==
    /\ last \notin DOMAIN d /\ DOMAIN w = DOMAIN d \cup {last}
    /\ w[last].name = n /\ w[last].inum = i
    /\ \A k \in DOMAIN d : w[k] = d[k]

LEMMA AddedEntry ==
    ASSUME NEW d \in Seq(Entries), NEW n \in Name, NEW i \in Inum
    PROVE  OneMore(AddEntry(d, n, i), d, Len(d) + 1, n, i)
<1> DEFINE e == [name |-> n, inum |-> i]
           w == Append(d, e)
<1>1. e \in Entries /\ e.name = n /\ e.inum = i
  BY DEF Entries
<1> HIDE DEF e
<1>2. /\ Len(d) \in Nat /\ DOMAIN d = 1 .. Len(d)
      /\ DOMAIN w = 1 .. Len(d) + 1 /\ w[Len(d) + 1] = e
      /\ \A k \in 1 .. Len(d) : w[k] = d[k]
  BY <1>1
<1> HIDE DEF w
<1>3. OneMore(w, d, Len(d) + 1, n, i)
  BY <1>1, <1>2 DEF OneMore
<1> QED
  BY <1>3 DEF AddEntry, w, e

\* An operation on names puts a listing, and does nothing else.
LEMMA PutsListing ==
    ASSUME DInv, DInv', TypeInv, NameInv, NEW c \in Client, PutStep(c),
           req[c].op \in Making \cup {"unlink"}
    PROVE  /\ stage[c] = "put" /\ stage'[c] = "unlock"
           /\ \A d \in Client \ {c} : stage'[d] = stage[d]
           /\ UNCHANGED <<server, req, ino, made, buf, mounted>>
           /\ Directories' = Directories
           /\ Listing(ino[c])' = NewData(c)
           /\ \A d \in Inum \ {ino[c]} : Listing(d)' = Listing(d)
           /\ \A e \in Client, j \in Inum : Removed(e, j)' => Removed(e, j)
<1>1. /\ stage[c] = "put" /\ Put(c, ino[c], NewData(c)) /\ Proceed(c, "unlock")
      /\ UNCHANGED <<req, ino, made, buf, mounted>>
  BY DEF PutStep, Making
<1>2. /\ ino[c] \in Inum /\ ino[c] \in Directories
      /\ ~Removed(c, ino[c])
  BY <1>1, BufferIsListing
<1>3. PICK i, w : i = ino[c] /\ w = NewData(c)
  OBVIOUS
<1>4. /\ UNCHANGED server
      /\ Contents(i)' = w
      /\ \A j \in Inum \ {i} : Contents(j)' = Contents(j)
      /\ \A e \in Client, j \in Inum : Removed(e, j)' => Removed(e, j)
  BY <1>1, <1>2, <1>3, PutHolds
<1>5. Directories' = Directories
  BY <1>4 DEF Directories
<1>6. Listing(i)' = w /\ \A d \in Inum \ {i} : Listing(d)' = Listing(d)
  BY <1>2, <1>3, <1>4, <1>5 DEF Listing
<1>7. stage'[c] = "unlock" /\ \A d \in Client \ {c} : stage'[d] = stage[d]
  BY <1>1 DEF Proceed, DInv, RequestShapes
<1>8. Listing(ino[c])' = Listing(i)'
  BY <1>1, <1>3
<1> QED
  BY <1>1, <1>3, <1>4, <1>5, <1>6, <1>7, <1>8

\* create and symlink: the name goes to the inode that has none.
LEMMA LinkStepNames ==
    ASSUME DInv, DInv', TypeInv, NameInv, NEW c \in Client, PutStep(c), req[c].op \in Making
    PROVE  NameInv'
<1>1. /\ stage[c] = "put" /\ stage'[c] = "unlock"
      /\ \A d \in Client \ {c} : stage'[d] = stage[d]
      /\ UNCHANGED <<server, req, ino, made, buf, mounted>>
      /\ Directories' = Directories
      /\ Listing(ino[c])' = NewData(c)
      /\ \A d \in Inum \ {ino[c]} : Listing(d)' = Listing(d)
      /\ \A e \in Client, j \in Inum : Removed(e, j)' => Removed(e, j)
  BY PutsListing
<1>2. PICK i, m, n, l : i = ino[c] /\ m = made[c] /\ n = req[c].name /\ l = Listing(i)
  OBVIOUS
<1>3. /\ i \in Directories /\ i \in Inum /\ i = req[c].ino
      /\ buf[c] = l /\ n \in Name /\ mounted = Client
  BY <1>1, <1>2, BufferIsListing
<1>4. m \in Inum /\ l \in Seq(Entries)
  BY <1>2, <1>3, ListingFits DEF TypeInv
<1>5. PICK w, last :
        /\ Listing(i)' = w
        /\ last \notin DOMAIN l /\ DOMAIN w = DOMAIN l \cup {last}
        /\ w[last].name = n /\ w[last].inum = m
        /\ \A k \in DOMAIN l : w[k] = l[k]
  <2>1. NewData(c) = AddEntry(l, n, m)
    BY <1>2, <1>3 DEF NewData, Making
  <2>2. PICK w : w = AddEntry(l, n, m)
    OBVIOUS
  <2>3. Listing(i)' = w
    BY <1>1, <1>2, <2>1, <2>2
  <2>4. OneMore(w, l, Len(l) + 1, n, m)
    BY <1>3, <1>4, <2>2, AddedEntry
  <2> QED
    BY <2>3, <2>4 DEF OneMore
<1>6. Linking(c) /\ NamelessIsNew(c)
  BY <1>1 DEF NameInv, Linking
<1>7. /\ \A d \in Inum : d # i => Listing(d)' = Listing(d) /\ Listed(d)' = Listed(d)
      /\ Listed(i)' = Listed(i) \cup {m}
      /\ Directories \subseteq Inum
  <2>1. Listed(i)' = Listed(i) \cup {m}
    BY <1>2, <1>5 DEF Listed
  <2> QED
    BY <1>1, <1>2, <2>1 DEF Listed, Directories
<1>8. NamedOnce'
  <2>1. SUFFICES ASSUME NEW d \in Directories, NEW e \in Directories,
                        NEW k \in DOMAIN Listing(d)', NEW h \in DOMAIN Listing(e)',
                        Listing(d)'[k].inum = Listing(e)'[h].inum
                 PROVE  d = e /\ k = h
    BY <1>1 DEF NamedOnce
  <2> DEFINE Old(x, y) == y \in DOMAIN Listing(x) /\ Listing(x)'[y] = Listing(x)[y]
             New(x, y) == x = i /\ y = last /\ Listing(x)'[y].inum = m
  <2>2. Old(d, k) \/ New(d, k)
    BY <1>2, <1>5, <1>7
  <2>3. Old(e, h) \/ New(e, h)
    BY <1>2, <1>5, <1>7
  <2>4. \A x \in Directories : \A y : Old(x, y) => Listing(x)'[y].inum # m
    BY <1>2, <1>6 DEF NamelessIsNew, Listed
  <2>5. CASE Old(d, k) /\ Old(e, h)
    BY <2>1, <2>5 DEF NameInv, NamedOnce
  <2>6. CASE New(d, k) /\ New(e, h)
    BY <2>6
  <2> QED
    BY <2>1, <2>2, <2>3, <2>4, <2>5, <2>6
<1>9. RemovedIsLeaving'
  <2>1. SUFFICES ASSUME NEW e \in Client, NEW j \in Inum, Removed(e, j)'
                 PROVE  /\ server[j].type # T_DIR
                        /\ \A d \in Directories : j \in Listed(d)' =>
                              /\ stage'[e] = "put" /\ req[e].op = "unlink" /\ ino[e] = d
                              /\ j \in MatchingInums(buf[e], req[e].name)
    BY <1>1 DEF RemovedIsLeaving
  <2>2. Removed(e, j)
    BY <1>1, <2>1
  <2>3. j # m
    BY <1>2, <1>6, <2>2 DEF NamelessIsNew
  <2>4. ASSUME NEW d \in Directories, j \in Listed(d)'
        PROVE  /\ stage'[e] = "put" /\ req[e].op = "unlink" /\ ino[e] = d
               /\ j \in MatchingInums(buf[e], req[e].name)
    <3>1. j \in Listed(d)
      BY <1>7, <2>3, <2>4
    <3>2. /\ stage[e] = "put" /\ req[e].op = "unlink" /\ ino[e] = d
          /\ j \in MatchingInums(buf[e], req[e].name)
      BY <2>2, <3>1 DEF NameInv, RemovedIsLeaving
    <3> QED
      BY <1>1, <3>2 DEF Making
  <2>5. server[j].type # T_DIR
    BY <2>2 DEF NameInv, RemovedIsLeaving
  <2> QED
    BY <2>4, <2>5
<1>10. MountsComeFirst'
  BY <1>1, <1>3 DEF NameInv, MountsComeFirst
<1>11. ASSUME NEW e \in Client
       PROVE  NamelessIsNew(e)'
  <2>1. SUFFICES ASSUME Linking(e)'
                 PROVE  /\ \A d \in Directories' : made'[e] \notin Listed(d)'
                        /\ \A f \in Client : ~Removed(f, made[e])'
                        /\ \A f \in Client \ {e} : Linking(f)' => made'[f] # made'[e]
    BY DEF NamelessIsNew
  <2>2. \A f \in Client : Linking(f)' => f # c /\ Linking(f)
    BY <1>1 DEF Linking
  <2>3. PICK j \in Inum : j = made[e] /\ j = made'[e]
    BY <1>1 DEF TypeInv
  <2>4. NamelessIsNew(e) /\ Linking(e) /\ j # m
    BY <1>2, <1>6, <2>1, <2>2, <2>3 DEF NameInv, NamelessIsNew
  <2>5. \A d \in Directories' : made'[e] \notin Listed(d)'
    BY <1>1, <1>7, <2>3, <2>4 DEF NamelessIsNew
  <2>6. \A f \in Client : ~Removed(f, made[e])'
    BY <1>1, <2>3, <2>4 DEF NamelessIsNew, Removed
  <2>7. \A f \in Client \ {e} : Linking(f)' => made'[f] # made'[e]
    BY <1>1, <2>2, <2>4 DEF NamelessIsNew
  <2> QED
    BY <2>5, <2>6, <2>7
<1>12. ASSUME NEW e \in Client
       PROVE  NameStays(e)'
  <2>1. PICK r : r = req[e] /\ r = req'[e]
    BY <1>1
  <2>2. NameStays(e)
    BY DEF NameInv
  <2>3. r \notin {NoRequest, MountRequest} => r.ino \in Inum
    BY <2>1 DEF TypeInv, RequestFits, FitsInode
  <2>4. r.op \in Making /\ stage'[e] \in {"lock", "create", "get", "put"} => NameIsNew(r)'
    <3>1. SUFFICES ASSUME r.op \in Making, stage'[e] \in {"lock", "create", "get", "put"}
                   PROVE  ~IsFound(Listing(r.ino)', r.name)
      BY DEF NameIsNew
    <3>2. e # c /\ NameIsNew(r) /\ r.ino \in Inum
      BY <1>1, <2>1, <2>2, <2>3, <3>1 DEF NameStays, Making, NoRequest, MountRequest
    <3>3. ~(r.ino = i /\ r.name = n)
      <4>1. ~Clash(req[c], r)
        BY <2>1, <3>2 DEF NameInv, NameStays
      <4> QED
        BY <1>2, <1>3, <3>1, <4>1 DEF Clash, SameName
    <3>4. CASE r.ino # i
      BY <1>7, <3>2, <3>4 DEF NameIsNew
    <3>5. CASE r.ino = i
      <4>1. \A k \in DOMAIN w : w[k].name # r.name
        BY <1>2, <1>5, <3>2, <3>3, <3>5 DEF NameIsNew, IsFound, Matches
      <4> QED
        BY <1>5, <3>5, <4>1 DEF IsFound, Matches
    <3> QED
      BY <3>4, <3>5
  <2>5. r.op = "unlink" /\ stage'[e] \in {"lock", "get", "remove"} => UnlinksFiles(r)'
    <3>1. SUFFICES ASSUME r.op = "unlink", stage'[e] \in {"lock", "get", "remove"}
                   PROVE  \A j \in MatchingInums(Listing(r.ino)', r.name) : server[j].type # T_DIR
      BY <1>1 DEF UnlinksFiles
    <3>2. e # c /\ UnlinksFiles(r) /\ r.ino \in Inum
      BY <1>1, <2>1, <2>2, <2>3, <3>1 DEF NameStays, NoRequest, MountRequest
    <3>3. CASE r.ino # i
      BY <1>7, <3>2, <3>3 DEF UnlinksFiles
    <3>4. CASE r.ino = i
      <4>1. SUFFICES ASSUME NEW k \in DOMAIN w, w[k].name = r.name
                     PROVE  server[w[k].inum].type # T_DIR
        BY <1>5, <3>4 DEF MatchingInums, Matches
      <4>2. CASE k \in DOMAIN l
        BY <1>2, <1>5, <3>2, <3>4, <4>1, <4>2 DEF UnlinksFiles, MatchingInums, Matches
      <4>3. CASE k = last
        <5>1. n = r.name
          BY <1>5, <4>1, <4>3
        <5>2. ~Clash(req[c], r)
          BY <2>1, <3>2 DEF NameInv, NameStays
        <5>3. req[c].type # T_DIR \/ req[c].op = "symlink"
          BY <1>2, <1>3, <3>1, <3>4, <5>1, <5>2 DEF Clash, SameName, Making
        <5>4. RequestFits(c) /\ server[m].type = req[c].type
          BY <1>1, <1>2 DEF TypeInv, RequestFits
        <5>5. req[c].op = "symlink" => req[c].type = T_SYMLK
          BY <5>4 DEF RequestFits, HasArguments, NoRequest, MountRequest
        <5> QED
          BY <1>5, <4>3, <5>3, <5>4, <5>5 DEF T_SYMLK, T_DIR
      <4> QED
        BY <1>5, <4>1, <4>2, <4>3
    <3> QED
      BY <3>3, <3>4
  <2>6. r.op = "unlink" /\ stage'[e] \in {"remove", "put"} => IsFound(buf'[e], r.name)
    BY <1>1, <2>1, <2>2 DEF NameStays
  <2>7. \A f \in Client \ {e} : ~Clash(r, req'[f])
    BY <1>1, <2>1, <2>2 DEF NameStays
  <2> QED
    BY <2>1, <2>4, <2>5, <2>6, <2>7 DEF NameStays, NameIsNew, UnlinksFiles
<1> QED
  BY <1>8, <1>9, <1>10, <1>11, <1>12 DEF NameInv

\* unlink: the name is taken from the listing, and what has been removed with it.
LEMMA UnlinkStepNames ==
    ASSUME DInv, DInv', TypeInv, NameInv, NEW c \in Client, PutStep(c), req[c].op = "unlink"
    PROVE  NameInv'
<1>1. /\ stage[c] = "put" /\ stage'[c] = "unlock"
      /\ \A d \in Client \ {c} : stage'[d] = stage[d]
      /\ UNCHANGED <<server, req, ino, made, buf, mounted>>
      /\ Directories' = Directories
      /\ Listing(ino[c])' = NewData(c)
      /\ \A d \in Inum \ {ino[c]} : Listing(d)' = Listing(d)
      /\ \A e \in Client, j \in Inum : Removed(e, j)' => Removed(e, j)
  BY PutsListing
<1>2. PICK i, n, l : i = ino[c] /\ n = req[c].name /\ l = Listing(i)
  OBVIOUS
<1>3. /\ i \in Directories /\ i \in Inum /\ i = req[c].ino
      /\ buf[c] = l /\ mounted = Client
  BY <1>1, <1>2, BufferIsListing
<1>4. l \in Seq(Entries)
  BY <1>2, <1>3, ListingFits
<1>5. \A k, h \in DOMAIN l : l[k].inum = l[h].inum => k = h
  BY <1>2, <1>3 DEF NameInv, NamedOnce
<1>6. PICK w : /\ Listing(i)' = w
               /\ \A k \in DOMAIN w : \E h \in DOMAIN l : w[k] = l[h] /\ l[h].name # n
               /\ \A k, h \in DOMAIN w : w[k].inum = w[h].inum => k = h
  <2>1. PICK w : w = WithoutName(l, n)
    OBVIOUS
  <2>2. NewData(c) = w
    BY <1>2, <1>3, <2>1 DEF NewData
  <2>3. Listing(i)' = w
    BY <1>1, <1>2, <2>2
  <2>4. /\ \A k \in DOMAIN w : \E h \in DOMAIN l : w[k] = l[h] /\ l[h].name # n
        /\ \A k, h \in DOMAIN w : w[k].inum = w[h].inum => k = h
    BY <1>4, <1>5, <2>1, KeptEntries
  <2> QED
    BY <2>3, <2>4
<1>7. /\ Directories \subseteq Inum
      /\ \A d \in Inum : \A k \in DOMAIN Listing(d)' :
           \E h \in DOMAIN Listing(d) : Listing(d)'[k] = Listing(d)[h]
  <2>1. ASSUME NEW d \in Inum, NEW k \in DOMAIN Listing(d)'
        PROVE  \E h \in DOMAIN Listing(d) : Listing(d)'[k] = Listing(d)[h]
    <3>1. CASE d = i
      BY <1>2, <1>6, <2>1, <3>1
    <3>2. CASE d # i
      BY <1>1, <1>2, <2>1, <3>2
    <3> QED
      BY <3>1, <3>2
  <2> QED
    BY <2>1 DEF Directories
<1>8. /\ \A d \in Inum : Listed(d)' \subseteq Listed(d)
      /\ \A d \in Inum : \A r : r.ino = d => MatchingInums(Listing(d)', r.name)
                                               \subseteq MatchingInums(Listing(d), r.name)
      /\ \A d \in Inum : \A r : IsFound(Listing(d)', r.name) => IsFound(Listing(d), r.name)
  BY <1>7 DEF Listed, MatchingInums, Matches, IsFound
<1>9. NamedOnce'
  <2>1. SUFFICES ASSUME NEW d \in Directories, NEW e \in Directories,
                        NEW k \in DOMAIN Listing(d)', NEW h \in DOMAIN Listing(e)',
                        Listing(d)'[k].inum = Listing(e)'[h].inum
                 PROVE  d = e /\ k = h
    BY <1>1 DEF NamedOnce
  <2>2. PICK x \in DOMAIN Listing(d) : Listing(d)'[k] = Listing(d)[x]
    BY <1>7
  <2>3. PICK y \in DOMAIN Listing(e) : Listing(e)'[h] = Listing(e)[y]
    BY <1>7
  <2>4. d = e
    BY <2>1, <2>2, <2>3 DEF NameInv, NamedOnce
  <2>5. CASE d = i
    BY <1>6, <2>1, <2>4, <2>5
  <2>6. CASE d # i
    BY <1>1, <1>2, <1>7, <2>1, <2>4, <2>6 DEF NameInv, NamedOnce
  <2> QED
    BY <2>4, <2>5, <2>6
<1>10. RemovedIsLeaving'
  <2>1. SUFFICES ASSUME NEW e \in Client, NEW j \in Inum, Removed(e, j)'
                 PROVE  /\ server[j].type # T_DIR
                        /\ \A d \in Directories : j \in Listed(d)' =>
                              /\ stage'[e] = "put" /\ req[e].op = "unlink" /\ ino[e] = d
                              /\ j \in MatchingInums(buf[e], req[e].name)
    BY <1>1 DEF RemovedIsLeaving
  <2>2. Removed(e, j)
    BY <1>1, <2>1
  <2>3. server[j].type # T_DIR
    BY <2>2 DEF NameInv, RemovedIsLeaving
  <2>4. ASSUME NEW d \in Directories, j \in Listed(d)'
        PROVE  /\ stage'[e] = "put" /\ req[e].op = "unlink" /\ ino[e] = d
               /\ j \in MatchingInums(buf[e], req[e].name)
    <3>1. j \in Listed(d)
      BY <1>7, <1>8, <2>4
    <3>2. /\ stage[e] = "put" /\ req[e].op = "unlink" /\ ino[e] = d
          /\ j \in MatchingInums(buf[e], req[e].name)
      BY <2>2, <3>1 DEF NameInv, RemovedIsLeaving
    <3>3. e # c
      <4>1. SUFFICES ASSUME e = c PROVE FALSE
        OBVIOUS
      <4>2. d = i /\ j \in MatchingInums(l, n)
        BY <1>2, <1>3, <3>2, <4>1
      <4>3. PICK k \in DOMAIN l : l[k].name = n /\ l[k].inum = j
        BY <4>2 DEF MatchingInums, Matches
      <4>4. PICK k2 \in DOMAIN w : w[k2].inum = j
        BY <1>6, <2>4, <4>2 DEF Listed
      <4>5. PICK h \in DOMAIN l : w[k2] = l[h] /\ l[h].name # n
        BY <1>6
      <4> QED
        BY <1>5, <4>3, <4>4, <4>5
    <3> QED
      BY <1>1, <3>2, <3>3
  <2> QED
    BY <2>3, <2>4
<1>11. MountsComeFirst'
  BY <1>1, <1>3 DEF NameInv, MountsComeFirst
<1>12. \A e \in Client : Linking(e)' <=> Linking(e)
  BY <1>1 DEF Linking, Making
<1>13. ASSUME NEW e \in Client
       PROVE  NamelessIsNew(e)'
  <2>1. SUFFICES ASSUME Linking(e)'
                 PROVE  /\ \A d \in Directories' : made'[e] \notin Listed(d)'
                        /\ \A f \in Client : ~Removed(f, made[e])'
                        /\ \A f \in Client \ {e} : Linking(f)' => made'[f] # made'[e]
    BY DEF NamelessIsNew
  <2>2. Linking(e) /\ NamelessIsNew(e)
    BY <1>12, <2>1 DEF NameInv
  <2>3. PICK j \in Inum : j = made[e] /\ j = made'[e]
    BY <1>1 DEF TypeInv
  <2>4. \A d \in Directories' : made'[e] \notin Listed(d)'
    BY <1>1, <1>7, <1>8, <2>2 DEF NamelessIsNew
  <2>5. \A f \in Client : ~Removed(f, made[e])'
    BY <1>1, <2>2, <2>3 DEF NamelessIsNew, Removed
  <2>6. \A f \in Client \ {e} : Linking(f)' => made'[f] # made'[e]
    BY <1>1, <1>12, <2>2 DEF NamelessIsNew
  <2> QED
    BY <2>4, <2>5, <2>6
<1>14. ASSUME NEW e \in Client
       PROVE  NameStays(e)'
  <2>1. PICK r : r = req[e] /\ r = req'[e]
    BY <1>1
  <2>2. NameStays(e)
    BY DEF NameInv
  <2>3. r \notin {NoRequest, MountRequest} => r.ino \in Inum
    BY <2>1 DEF TypeInv, RequestFits, FitsInode
  <2>4. r.op \in Making /\ stage'[e] \in {"lock", "create", "get", "put"} => NameIsNew(r)'
    <3>1. SUFFICES ASSUME r.op \in Making, stage'[e] \in {"lock", "create", "get", "put"}
                   PROVE  ~IsFound(Listing(r.ino)', r.name)
      BY DEF NameIsNew
    <3>2. NameIsNew(r) /\ r.ino \in Inum
      BY <1>1, <2>1, <2>2, <2>3, <3>1 DEF NameStays, Making, NoRequest, MountRequest
    <3> QED
      BY <1>8, <3>2 DEF NameIsNew
  <2>5. r.op = "unlink" /\ stage'[e] \in {"lock", "get", "remove"} => UnlinksFiles(r)'
    <3>1. SUFFICES ASSUME r.op = "unlink", stage'[e] \in {"lock", "get", "remove"}
                   PROVE  \A j \in MatchingInums(Listing(r.ino)', r.name) : server[j].type # T_DIR
      BY <1>1 DEF UnlinksFiles
    <3>2. UnlinksFiles(r) /\ r.ino \in Inum
      BY <1>1, <2>1, <2>2, <2>3, <3>1 DEF NameStays, NoRequest, MountRequest
    <3> QED
      BY <1>8, <3>2 DEF UnlinksFiles
  <2>6. r.op = "unlink" /\ stage'[e] \in {"remove", "put"} => IsFound(buf'[e], r.name)
    BY <1>1, <2>1, <2>2 DEF NameStays
  <2>7. \A f \in Client \ {e} : ~Clash(r, req'[f])
    BY <1>1, <2>1, <2>2 DEF NameStays
  <2> QED
    BY <2>1, <2>4, <2>5, <2>6, <2>7 DEF NameStays, NameIsNew, UnlinksFiles
<1> QED
  BY <1>9, <1>10, <1>11, <1>13, <1>14 DEF NameInv

\* Requests begin and end.
LEMMA TakeNames ==
    ASSUME DInv, TypeInv, NameInv, NEW c \in Client, NEW r, Asks(c, r), Take(c, r)
    PROVE  NameInv' /\ SameNames
<1>1. /\ stage[c] = "idle" /\ req'[c] = r
      /\ \A d \in Client \ {c} : stage'[d] = stage[d] /\ req'[d] = req[d] /\ ino'[d] = ino[d]
      /\ UNCHANGED <<extentTableVars, mounted, made, buf>>
  BY DEF Take, Proceed, DInv, RequestShapes
<1>2. /\ stage'[c] \notin {"get", "put", "remove", "create"}
      /\ r.op \in Making \cup {"unlink"} => stage'[c] = "lock"
  BY DEF Take, Proceed, DInv, RequestShapes, Making
<1>3. SameNames
  BY <1>1, QuietNames
<1>4. /\ Directories' = Directories
      /\ Directories \subseteq Inum
      /\ \A d \in Inum : Listing(d)' = Listing(d)
      /\ \A d \in Inum : Listed(d)' = Listed(d)
      /\ UNCHANGED <<server, table>>
  BY <1>1, <1>3 DEF SameNames, Directories, Listed, extentTableVars
<1>5. NamedOnce'
  BY <1>4 DEF NameInv, NamedOnce
<1>6. RemovedIsLeaving'
  <2>1. SUFFICES ASSUME NEW e \in Client, NEW i \in Inum, Removed(e, i)
                 PROVE  /\ server[i].type # T_DIR
                        /\ \A d \in Directories : i \in Listed(d) =>
                              /\ stage'[e] = "put" /\ req'[e].op = "unlink" /\ ino'[e] = d
                              /\ i \in MatchingInums(buf[e], req'[e].name)
    BY <1>1, <1>4 DEF RemovedIsLeaving, Removed
  <2>2. \A d \in Directories : i \in Listed(d) => e # c
    BY <1>1, <2>1 DEF NameInv, RemovedIsLeaving
  <2> QED
    BY <1>1, <2>1, <2>2 DEF NameInv, RemovedIsLeaving
<1>7. \/ r = MountRequest /\ c \notin mounted
      \/ /\ mounted = Client
         /\ FitsInode(r)
         /\ r.op \in Making => NameIsNew(r)
         /\ r.op = "unlink" => UnlinksFiles(r)
         /\ \A d \in Client \ {c} : ~Clash(r, req[d]) /\ ~Clash(req[d], r)
  BY DEF Asks
<1>8. MountsComeFirst'
  <2>1. ASSUME NEW e \in Client, req'[e] = MountRequest PROVE e \notin mounted
    BY <1>1, <1>7, <2>1 DEF NameInv, MountsComeFirst, FitsInode, MountRequest, OnDirectory, OnFile
  <2>2. mounted # Client => /\ \A e \in Client : req'[e] \in {NoRequest, MountRequest}
                            /\ \A d \in Directories : Listing(d) = <<>>
    BY <1>1, <1>7 DEF NameInv, MountsComeFirst
  <2> QED
    BY <1>1, <1>4, <2>1, <2>2 DEF MountsComeFirst
<1>9. ASSUME NEW e \in Client
      PROVE  NamelessIsNew(e)'
  <2>1. \A f \in Client : Linking(f)' => f # c /\ Linking(f)
    BY <1>1, <1>2 DEF Linking
  <2> QED
    BY <1>1, <1>4, <2>1 DEF NameInv, NamelessIsNew, Removed
<1>10. \A d \in Client \ {c} : ~Clash(r, req[d]) /\ ~Clash(req[d], r)
  <2>1. CASE r.op = "mount"
    BY <2>1 DEF Clash, Making
  <2>2. CASE r.op # "mount"
    <3>1. r # MountRequest
      BY <2>2 DEF MountRequest
    <3> QED
      BY <1>7, <3>1
  <2> QED
    BY <2>1, <2>2
<1>11. ASSUME NEW e \in Client
       PROVE  NameStays(e)'
  <2>1. PICK q : q = req'[e]
    OBVIOUS
  <2>2. q.op \in Making \cup {"unlink"} => q.ino \in Inum
    <3>1. CASE e = c
      BY <1>1, <1>7, <2>1, <3>1 DEF FitsInode, MountRequest, Making
    <3>2. CASE e # c
      BY <1>1, <2>1, <3>2 DEF TypeInv, RequestFits, FitsInode, MountRequest, NoRequest, Making
    <3> QED
      BY <3>1, <3>2
  <2>3. /\ q.op \in Making /\ stage'[e] \in {"lock", "create", "get", "put"} => NameIsNew(q)
        /\ q.op = "unlink" /\ stage'[e] \in {"lock", "get", "remove"} => UnlinksFiles(q)
        /\ q.op = "unlink" /\ stage'[e] \in {"remove", "put"} => IsFound(buf'[e], q.name)
        /\ \A f \in Client \ {e} : ~Clash(q, req'[f])
    <3>1. CASE e = c
      BY <1>1, <1>2, <1>7, <1>10, <2>1, <3>1 DEF MountRequest, Making
    <3>2. CASE e # c
      BY <1>1, <1>10, <2>1, <3>2 DEF NameInv, NameStays
    <3> QED
      BY <3>1, <3>2
  <2>4. q.op \in Making => (NameIsNew(q)' <=> NameIsNew(q))
    BY <1>4, <2>2 DEF NameIsNew
  <2>5. q.op = "unlink" => (UnlinksFiles(q)' <=> UnlinksFiles(q))
    BY <1>4, <2>2 DEF UnlinksFiles
  <2> QED
    BY <2>1, <2>3, <2>4, <2>5 DEF NameStays, NameIsNew, UnlinksFiles
<1> QED
  BY <1>3, <1>5, <1>6, <1>8, <1>9, <1>11 DEF NameInv

LEMMA ReplyNames ==
    ASSUME DInv, TypeInv, NameInv, NEW c \in Client, Reply(c)
    PROVE  NameInv' /\ SameNames
<1>1. /\ stage[c] = "done" /\ stage'[c] = "idle" /\ req'[c] = NoRequest
      /\ \A d \in Client \ {c} : /\ stage'[d] = stage[d] /\ req'[d] = req[d]
                                 /\ ino'[d] = ino[d] /\ buf'[d] = buf[d]
      /\ mounted' = IF req[c].op = "mount" THEN mounted \cup {c} ELSE mounted
      /\ UNCHANGED <<extentTableVars, made>>
  BY DEF Reply, Proceed, DInv, RequestShapes
<1>2. SameNames
  BY <1>1, QuietNames
<1>3. /\ Directories' = Directories
      /\ Directories \subseteq Inum
      /\ \A d \in Inum : Listing(d)' = Listing(d)
      /\ \A d \in Inum : Listed(d)' = Listed(d)
      /\ UNCHANGED <<server, table>>
  BY <1>1, <1>2 DEF SameNames, Directories, Listed, extentTableVars
<1>4. NamedOnce'
  BY <1>3 DEF NameInv, NamedOnce
<1>5. RemovedIsLeaving'
  <2>1. SUFFICES ASSUME NEW e \in Client, NEW i \in Inum, Removed(e, i)
                 PROVE  /\ server[i].type # T_DIR
                        /\ \A d \in Directories : i \in Listed(d) =>
                              /\ stage'[e] = "put" /\ req'[e].op = "unlink" /\ ino'[e] = d
                              /\ i \in MatchingInums(buf'[e], req'[e].name)
    BY <1>1, <1>3 DEF RemovedIsLeaving, Removed
  <2>2. \A d \in Directories : i \in Listed(d) => e # c
    BY <1>1, <2>1 DEF NameInv, RemovedIsLeaving
  <2> QED
    BY <1>1, <2>1, <2>2 DEF NameInv, RemovedIsLeaving
<1>6. MountsComeFirst'
  <2>1. ASSUME NEW e \in Client, req'[e] = MountRequest PROVE e \notin mounted'
    <3>1. e # c
      BY <1>1, <2>1 DEF NoRequest, MountRequest
    <3>2. e \notin mounted
      BY <1>1, <2>1, <3>1 DEF NameInv, MountsComeFirst
    <3> QED
      BY <1>1, <3>1, <3>2
  <2>2. mounted' # Client => mounted # Client
    BY <1>1 DEF TypeInv
  <2> QED
    BY <1>1, <1>3, <2>1, <2>2 DEF NameInv, MountsComeFirst
<1>7. ASSUME NEW e \in Client
      PROVE  NamelessIsNew(e)'
  <2>1. \A f \in Client : Linking(f)' => f # c /\ Linking(f)
    BY <1>1 DEF Linking
  <2> QED
    BY <1>1, <1>3, <2>1 DEF NameInv, NamelessIsNew, Removed
<1>8. ASSUME NEW e \in Client
      PROVE  NameStays(e)'
  <2>1. PICK q : q = req'[e]
    OBVIOUS
  <2>2. \A r : ~Clash(r, NoRequest) /\ ~Clash(NoRequest, r)
    BY DEF Clash, NoRequest, Making
  <2>3. CASE e = c
    BY <1>1, <2>2, <2>3 DEF NameStays, NoRequest, Making
  <2>4. CASE e # c
    <3>1. q = req[e] /\ NameStays(e) /\ stage'[e] = stage[e] /\ buf'[e] = buf[e]
      BY <1>1, <2>1, <2>4 DEF NameInv
    <3>2. q.op \in Making \cup {"unlink"} => q.ino \in Inum
      BY <3>1 DEF TypeInv, RequestFits, FitsInode, MountRequest, NoRequest, Making
    <3>3. q.op \in Making => (NameIsNew(q)' <=> NameIsNew(q))
      BY <1>3, <3>2 DEF NameIsNew
    <3>4. q.op = "unlink" => (UnlinksFiles(q)' <=> UnlinksFiles(q))
      BY <1>3, <3>2 DEF UnlinksFiles
    <3>5. \A f \in Client \ {e} : ~Clash(q, req'[f])
      BY <1>1, <2>2, <3>1 DEF NameStays
    <3> QED
      BY <2>1, <3>1, <3>3, <3>4, <3>5 DEF NameStays, NameIsNew, UnlinksFiles
  <2> QED
    BY <2>3, <2>4
<1> QED
  BY <1>2, <1>4, <1>5, <1>6, <1>7, <1>8 DEF NameInv

LEMMA NameInvHoldsInitially == DirectoryInit => NameInv
<1> SUFFICES ASSUME DirectoryInit PROVE NameInv
  OBVIOUS
<1>1. /\ \A c \in Client, i \in Inum : table[c][i].m_state = "ABSENT"
      /\ \A c \in Client : stage[c] = "idle" /\ req[c] = NoRequest
      /\ \A i \in Inum : server[i].data = <<>>
  BY DEF DirectoryInit, Absent, FreeInode
<1>2. \A d \in Inum : Listing(d) = <<>>
  BY <1>1 DEF Listing, Contents, Dirty
<1>3. Directories \subseteq Inum
  BY DEF Directories
<1>4. NamedOnce /\ RemovedIsLeaving
  BY <1>1, <1>2, <1>3 DEF NamedOnce, RemovedIsLeaving, Removed
<1>5. MountsComeFirst
  BY <1>1, <1>2, <1>3 DEF MountsComeFirst, NoRequest, MountRequest
<1>6. ASSUME NEW c \in Client
      PROVE  NamelessIsNew(c) /\ NameStays(c)
  BY <1>1 DEF NamelessIsNew, Linking, NameStays, Clash, NoRequest, Making
<1> QED
  BY <1>4, <1>5, <1>6 DEF NameInv

\* What a step does to names: nothing, or it is one of those on names.
LEMMA StepsOnNames ==
    ASSUME DInv, DInv', TypeInv, NameInv, [KernelNext]_directoryVars
    PROVE  \/ NamesStay
           \/ \E c \in Client : \/ CreateStep(c)
                                \/ RemoveStep(c)
                                \/ PutStep(c) /\ req[c].op \in Making \cup {"unlink"}
                                \/ Reply(c)
                                \/ \E r : Asks(c, r) /\ Take(c, r)
<1>1. ASSUME NEW c \in Client, Serve(c)
      PROVE  \/ NamesStay
             \/ CreateStep(c) \/ RemoveStep(c)
             \/ PutStep(c) /\ req[c].op \in Making \cup {"unlink"}
  <2>1. ASSUME EnterAgain(c) PROVE NamesStay
    BY <2>1, EnterNames DEF EnterAgain, Wants
  <2> QED
    BY <1>1, <2>1, GetattrStepsName, GetStepNames, PutStepAside, FlushStepNames, UnlockNames,
       PutLinkNames, AnswersName DEF Serve
<1>2. ASSUME NEW i \in Inum, LockStep(i) PROVE NamesStay
  BY <1>2, LockStepNames
<1>3. CASE UNCHANGED directoryVars
  BY <1>3, StutterNames
<1> QED
  BY <1>1, <1>2, <1>3 DEF KernelNext, DirectoryStep

LEMMA NameInvIsInductive ==
    DInv /\ DInv' /\ TypeInv /\ NameInv /\ [KernelNext]_directoryVars => NameInv'
<1> SUFFICES ASSUME DInv, DInv', TypeInv, NameInv, [KernelNext]_directoryVars PROVE NameInv'
  OBVIOUS
<1>1. ASSUME NEW c \in Client, PutStep(c), req[c].op \in Making \cup {"unlink"} PROVE NameInv'
  BY <1>1, LinkStepNames, UnlinkStepNames
<1> QED
  BY <1>1, StepsOnNames, NameInvStays, CreateStepNames, RemoveStepNames, ReplyNames, TakeNames

\* Under the requests of a kernel every inode has at most one name, and what has been
\* removed, or has just been made, has none that anybody else could find.
THEOREM NamesInvariance == KernelSpec => [](DInv /\ TypeInv /\ NameInv)
<1>1. KernelSpec => [](DInv /\ TypeInv)
  BY KernelTypes
<1>2. KernelSpec /\ [](DInv /\ TypeInv) => []NameInv
  BY NameInvHoldsInitially, NameInvIsInductive, PTL DEF KernelSpec
<1> QED
  BY <1>1, <1>2, PTL

\* An extent that some client has removed is in no directory but the one that this client
\* is taking it out of: no lookup leads to it.
THEOREM RemovedAreUnlisted == KernelSpec => []RemovedIsUnlisted
<1>1. ASSUME DInv, TypeInv, NameInv PROVE RemovedIsUnlisted
  <2>1. SUFFICES ASSUME NEW d \in Directories, NEW i \in Listed(d), NEW c \in Client, Removed(c, i)
                 PROVE  stage[c] = "put" /\ req[c].op = "unlink" /\ ino[c] = d
    BY DEF RemovedIsUnlisted
  <2>2. i \in Inum
    BY <1>1, ListingFits DEF Directories
  <2> QED
    BY <1>1, <2>1, <2>2 DEF NameInv, RemovedIsLeaving
<1> QED
  BY <1>1, NamesInvariance, PTL

-----------------------------------------------------------------------------
\* One name space.
Listings == [d \in Inum |-> Listing(d)]
Inodes == {i \in Inum : server[i] # FreeInode}
Nameless == {made[c] : c \in {c \in Client : Linking(c)}}

LEMMA SameOperators ==
    ASSUME NEW d, NEW n, NEW i
    PROVE  /\ OneNameSpace!AddEntry(d, n, i) = AddEntry(d, n, i)
           /\ OneNameSpace!IsFound(d, n) <=> IsFound(d, n)
           /\ OneNameSpace!WithoutName(d, n) = WithoutName(d, n)
<1>1. OneNameSpace!AddEntry(d, n, i) = AddEntry(d, n, i)
  BY DEF OneNameSpace!AddEntry, AddEntry
<1>2. OneNameSpace!IsFound(d, n) <=> IsFound(d, n)
  BY DEF OneNameSpace!IsFound, IsFound, OneNameSpace!Matches, Matches
<1>3. OneNameSpace!WithoutName(d, n) = WithoutName(d, n)
  BY DEF OneNameSpace!WithoutName, WithoutName
<1> QED
  BY <1>1, <1>2, <1>3

\* The three state functions stay.
NameSpaceStays == Listings' = Listings /\ Inodes' = Inodes /\ Nameless' = Nameless

LEMMA StutterOfNames ==
    ASSUME NameSpaceStays
    PROVE  UNCHANGED OneNameSpace!nameVars
BY DEF NameSpaceStays, Listings, Inodes, Nameless, OneNameSpace!nameVars

LEMMA SameNamesStay ==
    ASSUME SameNames, \A c \in Client : Linking(c)' <=> Linking(c),
           \A c \in Client : Linking(c) => made'[c] = made[c]
    PROVE  NameSpaceStays
<1>1. Listings' = Listings
  BY DEF SameNames, Listings
<1>2. Inodes' = Inodes
  BY DEF SameNames, Inodes
<1>3. Nameless' = Nameless
  BY DEF Nameless
<1> QED
  BY <1>1, <1>2, <1>3 DEF NameSpaceStays

\* The steps of the one name space.
LEMMA MakeIsStep ==
    ASSUME NEW i \in Inum \ Inodes, Inodes' = Inodes \cup {i}, Nameless' = Nameless \cup {i},
           Listings' = Listings
    PROVE  OneNameSpace!Next
<1>1. OneNameSpace!Make(i)
  BY DEF OneNameSpace!Make, Inodes, Nameless, Listings
<1> QED
  BY <1>1 DEF OneNameSpace!Next, Inodes

LEMMA LinkIsStep ==
    ASSUME NEW i \in Nameless, NEW d \in Inum, NEW n \in Name,
           ~IsFound(Listings[d], n),
           Listings' = [Listings EXCEPT ![d] = AddEntry(Listings[d], n, i)],
           Inodes' = Inodes, Nameless' = Nameless \ {i}
    PROVE  OneNameSpace!Next
<1>1. PICK l : l = Listings[d]
  OBVIOUS
<1>2. ~OneNameSpace!IsFound(l, n) /\ OneNameSpace!AddEntry(l, n, i) = AddEntry(l, n, i)
  BY <1>1, SameOperators
<1>3. /\ ~OneNameSpace!IsFound(Listings[d], n)
      /\ Listings' = [Listings EXCEPT ![d] = OneNameSpace!AddEntry(Listings[d], n, i)]
  BY <1>1, <1>2
<1>4. OneNameSpace!Link(i, d, n)
  BY <1>3 DEF OneNameSpace!Link, Inodes, Listings
<1> QED
  BY <1>4 DEF OneNameSpace!Next, Nameless

LEMMA UnlinkIsStep ==
    ASSUME NEW d \in Inum, NEW n, IsFound(Listings[d], n),
           Listings' = [Listings EXCEPT ![d] = WithoutName(Listings[d], n)],
           Inodes' = Inodes, Nameless' = Nameless
    PROVE  OneNameSpace!Next
<1>1. OneNameSpace!Unlink(d, n)
  <2>1. PICK l : l = Listings[d]
    OBVIOUS
  <2>2. OneNameSpace!WithoutName(l, n) = WithoutName(l, n)
    BY SameOperators
  <2>3. Listings' = [Listings EXCEPT ![d] = OneNameSpace!WithoutName(Listings[d], n)]
    BY <2>1, <2>2
  <2> QED
    BY <2>3 DEF OneNameSpace!Unlink, Inodes, Nameless, Listings
<1>2. n \in OneNameSpace!NamesIn(d)
  BY DEF OneNameSpace!NamesIn, IsFound, Matches, Listings
<1> QED
  BY <1>1, <1>2 DEF OneNameSpace!Next

LEMMA CreateIsMake ==
    ASSUME DInv, DInv', TypeInv, NameInv, NEW c \in Client, CreateStep(c)
    PROVE  OneNameSpace!Next
<1>1. PICK m \in Inum :
        /\ server[m] = FreeInode /\ server'[m].type = req[c].type /\ req[c].type \in Types
        /\ \A j \in Inum \ {m} : server'[j] = server[j]
        /\ \A d \in Inum : Listing(d)' = Listing(d)
        /\ req[c].op \in Making
        /\ made'[c] = m /\ \A d \in Client \ {c} : made'[d] = made[d]
  BY MakesInode
<1>2. /\ stage[c] = "create" /\ stage'[c] = "get"
      /\ \A d \in Client \ {c} : stage'[d] = stage[d]
      /\ UNCHANGED req
  BY DEF CreateStep, Proceed, DInv, RequestShapes
<1>3. /\ ~Linking(c) /\ Linking(c)'
      /\ \A d \in Client \ {c} : Linking(d)' <=> Linking(d)
  BY <1>1, <1>2 DEF Linking
<1>4. Nameless' = Nameless \cup {m}
  BY <1>1, <1>3 DEF Nameless
<1>5. Inodes' = Inodes \cup {m} /\ m \notin Inodes
  <2>1. server'[m] # FreeInode
    BY <1>1 DEF FreeInode, Types, T_DIR, T_FILE, T_SYMLK
  <2> QED
    BY <1>1, <2>1 DEF Inodes
<1>6. Listings' = Listings
  BY <1>1 DEF Listings
<1> QED
  BY <1>4, <1>5, <1>6, MakeIsStep

LEMMA PutIsLinkOrUnlink ==
    ASSUME DInv, DInv', TypeInv, NameInv, NEW c \in Client, PutStep(c),
           req[c].op \in Making \cup {"unlink"}
    PROVE  OneNameSpace!Next
<1>1. /\ stage[c] = "put" /\ stage'[c] = "unlock"
      /\ \A d \in Client \ {c} : stage'[d] = stage[d]
      /\ UNCHANGED <<server, req, ino, made, buf, mounted>>
      /\ Listing(ino[c])' = NewData(c)
      /\ \A d \in Inum \ {ino[c]} : Listing(d)' = Listing(d)
  BY PutsListing
<1>2. PICK i, m, n : i = ino[c] /\ m = made[c] /\ n = req[c].name
  OBVIOUS
<1>3. /\ i \in Inum /\ i = req[c].ino /\ n \in Name
      /\ buf[c] = Listings[i]
  BY <1>1, <1>2, BufferIsListing DEF Listings
<1>4. PICK w : w = NewData(c) /\ Listings' = [Listings EXCEPT ![i] = w]
  <2>1. PICK w : w = NewData(c) /\ w = Listing(i)'
    BY <1>1, <1>2
  <2>2. Listings' = [Listings EXCEPT ![i] = w]
    BY <1>1, <1>2, <1>3, <2>1 DEF Listings
  <2> QED
    BY <2>1, <2>2
<1>5. Inodes' = Inodes
  BY <1>1 DEF Inodes
<1>6. NameStays(c) /\ NamelessIsNew(c)
  BY DEF NameInv
<1>7. CASE req[c].op \in Making
  <2>1. /\ Linking(c) /\ ~Linking(c)'
        /\ \A d \in Client \ {c} : Linking(d)' <=> Linking(d)
    BY <1>1, <1>7 DEF Linking
  <2>2. m \in Nameless
    BY <1>2, <2>1 DEF Nameless
  <2>3. \A d \in Client \ {c} : Linking(d) => made[d] # m
    BY <1>2, <1>6, <2>1 DEF NamelessIsNew
  <2>4. Nameless' = Nameless \ {m}
    BY <1>1, <1>2, <2>1, <2>3 DEF Nameless
  <2>5. ~IsFound(Listings[i], n)
    BY <1>1, <1>2, <1>3, <1>6, <1>7 DEF NameStays, NameIsNew, Listings
  <2>6. w = AddEntry(Listings[i], n, m)
    BY <1>2, <1>3, <1>4, <1>7 DEF NewData, Making
  <2> QED
    BY <1>3, <1>4, <1>5, <2>2, <2>4, <2>5, <2>6, LinkIsStep
<1>8. CASE req[c].op = "unlink"
  <2>1. \A d \in Client : Linking(d)' <=> Linking(d)
    BY <1>1, <1>8 DEF Linking, Making
  <2>2. Nameless' = Nameless
    BY <1>1, <2>1 DEF Nameless
  <2>3. IsFound(Listings[i], n)
    BY <1>1, <1>2, <1>3, <1>6, <1>8 DEF NameStays
  <2>4. w = WithoutName(Listings[i], n)
    BY <1>2, <1>3, <1>4, <1>8 DEF NewData
  <2> QED
    BY <1>3, <1>4, <1>5, <2>2, <2>3, <2>4, UnlinkIsStep
<1> QED
  BY <1>7, <1>8

LEMMA RequestsLeaveNames ==
    ASSUME DInv, DInv', TypeInv, NameInv, NEW c \in Client,
           RemoveStep(c) \/ Reply(c) \/ \E r : Asks(c, r) /\ Take(c, r)
    PROVE  NameSpaceStays
<1>1. CASE RemoveStep(c)
  <2>1. /\ UNCHANGED server
        /\ \A d \in Inum : Listing(d)' = Listing(d)
        /\ req[c].op = "unlink"
    BY <1>1, RemovesFiles
  <2>2. UNCHANGED <<req, made>> /\ \A d \in Client \ {c} : stage'[d] = stage[d]
    BY <1>1 DEF RemoveStep, Proceed, DInv, RequestShapes
  <2>3. \A d \in Client : Linking(d)' <=> Linking(d)
    BY <2>1, <2>2 DEF Linking, Making
  <2> QED
    BY <2>1, <2>2, <2>3 DEF NameSpaceStays, Listings, Inodes, Nameless
<1>2. CASE Reply(c)
  <2>1. /\ stage[c] = "done" /\ stage'[c] = "idle" /\ UNCHANGED made
        /\ \A d \in Client \ {c} : stage'[d] = stage[d] /\ req'[d] = req[d]
    BY <1>2 DEF Reply, Proceed, DInv, RequestShapes
  <2>2. \A d \in Client : Linking(d)' <=> Linking(d)
    BY <2>1 DEF Linking
  <2> QED
    BY <1>2, <2>1, <2>2, ReplyNames, SameNamesStay
<1>3. ASSUME NEW r, Asks(c, r), Take(c, r) PROVE NameSpaceStays
  <2>1. /\ stage[c] = "idle" /\ stage'[c] \in {"isdir", "typed", "lock"} /\ UNCHANGED made
        /\ \A d \in Client \ {c} : stage'[d] = stage[d] /\ req'[d] = req[d]
    BY <1>3 DEF Take, Proceed, DInv, RequestShapes
  <2>2. \A d \in Client : Linking(d)' <=> Linking(d)
    BY <2>1 DEF Linking
  <2> QED
    BY <1>3, <2>1, <2>2, TakeNames, SameNamesStay
<1> QED
  BY <1>1, <1>2, <1>3

LEMMA OneNameSpaceInit == DirectoryInit => OneNameSpace!Init
<1> SUFFICES ASSUME DirectoryInit PROVE OneNameSpace!Init
  OBVIOUS
<1>1. Root \in Inum
  BY MaxInumIsPositive DEF Root, Inum
<1>2. \A d \in Inum : Listing(d) = <<>>
  <2>1. /\ \A c \in Client, i \in Inum : table[c][i].m_state = "ABSENT"
        /\ \A i \in Inum : server[i].data = <<>>
    BY DEF DirectoryInit, Absent, FreeInode
  <2> QED
    BY <2>1 DEF Listing, Contents, Dirty
<1>3. Inodes = {Root}
  BY <1>1 DEF DirectoryInit, Inodes, FreeInode, T_DIR
<1>4. Nameless = {}
  BY DEF DirectoryInit, Nameless, Linking
<1> QED
  BY <1>2, <1>3, <1>4 DEF OneNameSpace!Init, Inodes, Nameless

\* Whatever a kernel requests, in whatever order the clients serve it, through locks,
\* caches and flushes: the directories behave as one name space, where making, linking and
\* unlinking are single steps and no name is given twice.
THEOREM DirectoriesAreOneNameSpace == KernelSpec => ImplementsNameSpace
<1>1. ASSUME DInv, DInv', TypeInv, NameInv, [KernelNext]_directoryVars
      PROVE  OneNameSpace!Next \/ UNCHANGED OneNameSpace!nameVars
  <2>1. ASSUME NamesStay PROVE NameSpaceStays
    BY <2>1, SameNamesStay DEF NamesStay, StagesStay
  <2> QED
    BY <1>1, <2>1, StepsOnNames, CreateIsMake, PutIsLinkOrUnlink, RequestsLeaveNames,
       StutterOfNames
<1> QED
  BY <1>1, OneNameSpaceInit, NamesInvariance, PTL
  DEF KernelSpec, ImplementsNameSpace, OneNameSpace!Spec

=============================================================================

--------------------------- MODULE ClassTestsProofs ---------------------------
(***************************************************************************)
(* Any programs of two processes, on any mount points: as long as mounts   *)
(* do not contend for a name, the requests that the kernel makes for them  *)
(* are those of KernelRequests, so that all that holds under these holds   *)
(* under the programs.                                                     *)
(***************************************************************************)
EXTENDS ProgramInvariant, DirectoryServiceProofs

-----------------------------------------------------------------------------
\* The answers.
AnswersOf(c) == TypesAgree(c) /\ Answers(c) /\ HasMade(c) /\ ReadsBytes(c)

\* Inodes keep their types, whatever a kernel requests.
LEMMA KernelKeepsTypes ==
    ASSUME DInv, DInv', TypeInv, NameInv, [KernelNext]_directoryVars
    PROVE  TypesStay
<1>1. ASSUME NEW c \in Client, CreateStep(c) PROVE TypesStay
  <2>1. PICK m \in Inum : server[m] = FreeInode /\ \A j \in Inum \ {m} : server'[j] = server[j]
    BY <1>1, MakesInode
  <2> QED
    BY <2>1 DEF TypesStay, Exists, FreeInode
<1>2. ASSUME NEW c \in Client, RemoveStep(c) PROVE TypesStay
  BY <1>2, RemovesFiles DEF TypesStay
<1>3. ASSUME NEW c \in Client, PutStep(c), req[c].op \in Making \cup {"unlink"} PROVE TypesStay
  BY <1>3, PutsListing DEF TypesStay
<1>4. ASSUME NEW c \in Client, Reply(c) \/ \E r : Take(c, r) PROVE TypesStay
  BY <1>4 DEF Reply, Take, extentTableVars, TypesStay
<1>5. ASSUME NamesStay PROVE TypesStay
  BY <1>5 DEF NamesStay, SameNames, TypesStay
<1> QED
  BY <1>1, <1>2, <1>3, <1>4, <1>5, StepsOnNames

\* Entries keep their types, or take over those of the server.
TypesKept(c) ==
    \A j \in Inum :
        \/ table'[c][j].type = server'[j].type
        \/ /\ table'[c][j].type = table[c][j].type
           /\ table[c][j].m_state \in {"ABSENT", "REMOVED"}
                => table'[c][j].m_state \in {"ABSENT", "REMOVED"}
        \/ table'[c][j] = Absent
        \/ j = Root

LEMMA AgreementStays ==
    ASSUME TypeInv, TypesStay, NEW c \in Client, TypesAgree(c), TypesKept(c),
           stage[c] = "flush_link" => \/ stage'[c] = "flush_link" /\ ino'[c] = ino[c]
                                      \/ table'[c][ino[c]] = Absent
    PROVE  TypesAgree(c)'
<1> SUFFICES ASSUME NEW i \in Inum
             PROVE  \/ table'[c][i].type = server'[i].type
                    \/ table'[c][i].type = "none" /\ table'[c][i].m_state \in {"ABSENT", "REMOVED"}
                    \/ i = Root
                    \/ stage'[c] = "flush_link" /\ ino'[c] = i
  BY DEF TypesAgree
<1>1. EntryFits(i, table[c][i])
  BY DEF TypeInv
<1>2. CASE table[c][i].m_state = "ABSENT"
  BY <1>1, <1>2 DEF TypesKept, EntryFits, Absent, TypesAgree
<1>3. CASE table[c][i].m_state # "ABSENT"
  <2>1. server'[i].type = server[i].type
    BY <1>1, <1>3 DEF EntryFits, TypesStay
  <2> QED
    BY <1>1, <2>1 DEF TypesKept, Absent, TypesAgree
<1> QED
  BY <1>2, <1>3

\* The operations of a table.
LEMMA GetattrTypes ==
    ASSUME DInv, TypeInv, NEW c \in Client, NEW i \in Inum, Getattr(c, i)
    PROVE  TypesKept(c) /\ UNCHANGED server
<1>1. Store(c, i, Attr(c, i)) /\ UNCHANGED server
  BY DEF Getattr
<1>2. table'[c][i] = Attr(c, i) /\ \A j \in Inum \ {i} : table'[c][j] = table[c][j]
  BY <1>1 DEF Store, DInv, Shapes
<1>3. Attr(c, i) = table[c][i] \/ Attr(c, i).type = server[i].type
  BY DEF Attr, AttrOnly
<1> QED
  BY <1>1, <1>2, <1>3 DEF TypesKept

LEMMA GetTypes ==
    ASSUME DInv, TypeInv, NEW c \in Client, NEW i \in Inum, Get(c, i)
    PROVE  TypesKept(c) /\ UNCHANGED server
<1>1. /\ UNCHANGED server /\ EntriesBut(c, i)
      /\ table'[c][i] = Entry(c, i)
  BY GetFetches DEF DInv
<1>2. \/ Entry(c, i) = table[c][i]
      \/ Entry(c, i).type = server[i].type
      \/ Entry(c, i).type = table[c][i].type /\ table[c][i].m_state = "NONE"
  <2>1. CASE table[c][i].m_state = "ABSENT"
    BY <2>1 DEF Entry, Fetched
  <2>2. CASE table[c][i].m_state = "NONE"
    BY <2>2 DEF Entry, Fetched
  <2>3. CASE table[c][i].m_state \notin {"ABSENT", "NONE"}
    BY <2>3 DEF Entry
  <2> QED
    BY <2>1, <2>2, <2>3
<1> QED
  BY <1>1, <1>2 DEF TypesKept, EntriesBut

LEMMA PutTypes ==
    ASSUME DInv, TypeInv, NEW c \in Client, NEW i \in Inum, NEW d, Put(c, i, d),
           i = Root \/ HasData(c, i) \/ Removed(c, i)
    PROVE  TypesKept(c) /\ UNCHANGED server
<1>1. CASE Removed(c, i)
  BY <1>1 DEF Put, TypesKept
<1>2. CASE ~Removed(c, i)
  <2>1. /\ UNCHANGED server
        /\ \A j \in Inum \ {i} : table'[c][j] = table[c][j]
        /\ table'[c][i].type = IF table[c][i] = Absent THEN StaleType ELSE table[c][i].type
    BY <1>2 DEF Put, Store, DInv, Shapes
  <2>2. i # Root => /\ table'[c][i].type = table[c][i].type
                    /\ table[c][i].m_state \notin {"ABSENT", "REMOVED"}
    BY <1>2, <2>1 DEF HasData, Absent
  <2> QED
    BY <2>1, <2>2 DEF TypesKept
<1> QED
  BY <1>1, <1>2

LEMMA RemoveTypes ==
    ASSUME DInv, TypeInv, NEW c \in Client, NEW is, Remove(c, is)
    PROVE  TypesKept(c)
<1>1. /\ DOMAIN table' = Client
      /\ table'[c] = [i \in Inum |-> IF i \in is THEN [table[c][i] EXCEPT !.m_state = "REMOVED"]
                                                 ELSE table[c][i]]
  BY DEF Remove, DInv, Shapes
<1>2. ASSUME NEW j \in Inum
      PROVE  /\ table'[c][j].type = table[c][j].type
             /\ table'[c][j].m_state \in {table[c][j].m_state, "REMOVED"}
  <2>1. CASE j \in is
    <3>1. table'[c][j] = [table[c][j] EXCEPT !.m_state = "REMOVED"]
      BY <1>1, <2>1
    <3>2. DOMAIN table[c][j] = {"m_state", "type", "size", "data"}
      BY DEF DInv, Shapes
    <3> QED
      BY <3>1, <3>2
  <2>2. CASE j \notin is
    BY <1>1, <2>2
  <2> QED
    BY <2>1, <2>2
<1> QED
  BY <1>2 DEF TypesKept

LEMMA CreateTypes ==
    ASSUME DInv, TypeInv, NEW c \in Client, NEW type \in Types, Create(c, type)
    PROVE  TypesKept(c)
<1>1. PICK m : m = FreshInum
  OBVIOUS
<1>2. m \in Inum /\ server'[m].type = type
  BY <1>1, CreateFits
<1>3. /\ table'[c][m].type = type
      /\ \A j \in Inum \ {m} : table'[c][j] = table[c][j]
  BY <1>1, <1>2 DEF Create, Store, DInv, Shapes
<1> QED
  BY <1>2, <1>3 DEF TypesKept

LEMMA FlushTypes ==
    ASSUME DInv, TypeInv, NEW c \in Client, NEW i \in Inum, Flush(c, i)
    PROVE  TypesKept(c) /\ table'[c][i] = Absent
<1>1. table'[c][i] = Absent /\ \A j \in Inum \ {i} : table'[c][j] = table[c][j]
  BY DEF Flush, Store, DInv, Shapes
<1> QED
  BY <1>1 DEF TypesKept

-----------------------------------------------------------------------------
\* The steps, as far as answers go.
RequestStaysOf(d) == /\ stage'[d] = stage[d] /\ req'[d] = req[d] /\ ino'[d] = ino[d]
                     /\ buf'[d] = buf[d] /\ attr'[d] = attr[d]

LEMMA BystanderAnswers ==
    ASSUME TypeInv, TypesStay, NEW d \in Client, AnswersOf(d),
           RequestStaysOf(d), table'[d] = table[d]
    PROVE  AnswersOf(d)'
<1>1. TypesAgree(d)'
  BY AgreementStays DEF AnswersOf, RequestStaysOf, TypesKept
<1>2. server'[ino[d]].type = server[ino[d]].type
  BY DEF TypeInv, RequestFits, TypesStay
<1>3. Answers(d)' /\ HasMade(d)' /\ ReadsBytes(d)'
  BY <1>2 DEF AnswersOf, Answers, HasMade, ReadsBytes, RequestStaysOf
<1> QED
  BY <1>1, <1>3 DEF AnswersOf

LEMMA ActorAnswers ==
    ASSUME TypeInv, TypesStay, \A d \in Client : AnswersOf(d), NEW c \in Client,
           OthersKeep(c), \A d \in Client \ {c} : RequestStaysOf(d), AnswersOf(c)'
    PROVE  \A d \in Client : AnswersOf(d)'
BY BystanderAnswers DEF OthersKeep

\* How a request goes on.
LEMMA AnswersGoOn ==
    ASSUME TypeInv, TypesStay, NEW c \in Client, AnswersOf(c),
           req'[c] = req[c], ino'[c] = ino[c], buf'[c] = buf[c],
           req[c].op = "create" /\ stage'[c] \in StatCalls => stage[c] \in StatCalls,
           req[c].op = "lookup" =>
              /\ stage'[c] \in {"get", "unlock"} => attr'[c].type = T_DIR
              /\ stage'[c] \in StatCalls => stage[c] \in StatCalls
              /\ stage'[c] \in {"unlock_stat", "done"} /\ attr'[c].type \in Types
                   => attr'[c].type = server[ino[c]].type
    PROVE  Answers(c)' /\ HasMade(c)' /\ ReadsBytes(c)'
<1>1. server'[ino[c]].type = server[ino[c]].type
  BY DEF TypeInv, RequestFits, TypesStay
<1> QED
  BY <1>1 DEF AnswersOf, Answers, HasMade, ReadsBytes

LEMMA NoLookup ==
    ASSUME TypeInv, NEW c \in Client,
           stage[c] \in {"isdir", "create", "remove", "put", "flush"} \cup LinkCalls
    PROVE  req[c].op # "lookup"
BY DEF TypeInv, RequestFits, CallFits, StatCalls, LinkCalls

\* Calls of getattr.
LEMMA TypeOfAttr ==
    ASSUME DInv, TypeInv, NEW c \in Client, TypesAgree(c), NEW i \in Inum,
           stage[c] # "flush_link",
           i = Root => table[c][Root].m_state = "ABSENT" \/ table[c][Root].type = T_DIR
    PROVE  \/ Attr(c, i).type = server[i].type
           \/ Attr(c, i).type = "none" /\ Removed(c, i)
<1>1. CASE table[c][i] = Absent
  BY <1>1 DEF Attr, AttrOnly
<1>2. CASE table[c][i] # Absent
  <2>1. Attr(c, i) = table[c][i] /\ table[c][i].m_state # "ABSENT"
    BY <1>2 DEF Attr, TypeInv, EntryFits
  <2>2. i = Root => table[c][i].type = server[i].type
    BY <2>1 DEF TypeInv, InodesFit
  <2> QED
    BY <2>1, <2>2 DEF TypesAgree, Removed
<1> QED
  BY <1>1, <1>2

LEMMA GetattrStepsAnswer ==
    ASSUME DInv, TypeInv, NameInv, RootIsTyped, TypesStay, \A d \in Client : AnswersOf(d),
           NEW c \in Client, IsDir(c) \/ GetattrStep(c) \/ Typed(c) \/ Stat(c)
    PROVE  \A d \in Client : AnswersOf(d)'
<1>1. /\ stage[c] \in {"isdir", "getattr", "typed", "stat"}
      /\ Getattr(c, ino[c])
      /\ UNCHANGED <<req, ino, buf>>
      /\ \A d \in Client \ {c} : attr'[d] = attr[d]
  BY DEF IsDir, GetattrStep, Typed, Stat, TypeInv
<1>2. PICK s : Proceed(c, s)
  BY DEF IsDir, GetattrStep, Typed, Stat
<1>3. PICK i : i = ino[c]
  OBVIOUS
<1>4. /\ i \in Inum /\ Exists(i) /\ RequestFits(c)
      /\ stage[c] \in NamedCalls => i = req[c].ino
  BY <1>1, <1>3, RequestUnderWay
<1>5. stage'[c] = s /\ \A d \in Client \ {c} : stage'[d] = stage[d]
  BY <1>2, OthersOf
<1>6. OthersKeep(c) /\ TypesKept(c)
  BY <1>1, <1>3, <1>4, GetattrKeeps, GetattrTypes DEF DInv
<1>7. TypesAgree(c)'
  BY <1>1, <1>6, AgreementStays DEF AnswersOf
<1>8. req[c].op = "lookup" =>
        \/ Attr(c, i).type = server[i].type
        \/ Attr(c, i).type = "none" /\ Removed(c, i)
  BY <1>1, <1>4, TypeOfAttr DEF RootIsTyped, AnswersOf
<1>9. req[c].op = "lookup" =>
        /\ stage'[c] \in {"get", "unlock"} => attr'[c].type = T_DIR
        /\ stage'[c] \in StatCalls => stage[c] \in StatCalls
        /\ stage'[c] \in {"unlock_stat", "done"} /\ attr'[c].type \in Types
             => attr'[c].type = server[ino[c]].type
  <2> SUFFICES ASSUME req[c].op = "lookup"
               PROVE  /\ stage'[c] \in {"get", "unlock"} => attr'[c].type = T_DIR
                      /\ stage'[c] \in StatCalls => stage[c] \in StatCalls
                      /\ stage'[c] \in {"unlock_stat", "done"} /\ attr'[c].type \in Types
                           => attr'[c].type = server[i].type
    BY <1>3
  <2>1. CASE IsDir(c)
    BY <2>1, NoLookup DEF IsDir
  <2>2. CASE GetattrStep(c)
    <3>1. server[i].type = T_DIR
      BY <1>4, <2>2 DEF GetattrStep, NamedCalls, RequestFits, FitsInode, OnDirectory, NoRequest,
                        MountRequest
    <3>2. ~Removed(c, i)
      BY <1>4, <3>1 DEF NameInv, RemovedIsLeaving
    <3>3. Attr(c, i).type = T_DIR
      BY <1>8, <3>1, <3>2
    <3>4. attr'[c].type = T_DIR
      BY <1>3, <2>2, <3>3 DEF GetattrStep, AttrOf, TypeInv
    <3>5. s = "get"
      BY <1>3, <1>5, <2>2, <3>2, <3>3 DEF GetattrStep, Proceed, DInv, RequestShapes
    <3> QED
      BY <1>5, <3>4, <3>5 DEF StatCalls
  <2>3. CASE Typed(c)
    <3>1. stage[c] = "typed" /\ attr'[c].type = "none" /\ stage'[c] \in {"lock_stat", "done"}
      BY <2>3 DEF Typed, NoAttr, TypeInv, Proceed, DInv, RequestShapes
    <3> QED
      BY <3>1 DEF StatCalls, Types, T_DIR, T_FILE, T_SYMLK
  <2>4. CASE Stat(c)
    <3>1. stage[c] = "stat" /\ attr'[c].type = Attr(c, i).type /\ stage'[c] = "unlock_stat"
      BY <1>3, <2>4 DEF Stat, AttrOf, TypeInv, Proceed, DInv, RequestShapes
    <3> QED
      BY <1>8, <3>1 DEF StatCalls, Types, T_DIR, T_FILE, T_SYMLK
  <2> QED
    BY <2>1, <2>2, <2>3, <2>4
<1>10. Answers(c)' /\ HasMade(c)' /\ ReadsBytes(c)'
  <2>1. req[c].op = "create" /\ stage'[c] \in StatCalls => stage[c] \in StatCalls
    BY <1>1, <1>4 DEF RequestFits, CallFits, StatCalls
  <2> QED
    BY <1>1, <1>9, <2>1, AnswersGoOn
<1>11. AnswersOf(c)'
  BY <1>7, <1>10 DEF AnswersOf
<1> QED
  BY <1>1, <1>5, <1>6, <1>11, ActorAnswers DEF RequestStaysOf

\* Calls that no lookup makes.
LEMMA OtherCallsAnswer ==
    ASSUME DInv, TypeInv, TypesStay, \A d \in Client : AnswersOf(d), NEW c \in Client,
           OthersKeep(c), TypesAgree(c)', UNCHANGED <<req, ino, buf, attr>>,
           NEW s, Proceed(c, s), s \notin StatCalls, req[c].op # "lookup"
    PROVE  \A d \in Client : AnswersOf(d)'
<1>1. stage'[c] = s /\ \A d \in Client \ {c} : stage'[d] = stage[d]
  BY OthersOf
<1>2. Answers(c)' /\ HasMade(c)' /\ ReadsBytes(c)'
  BY <1>1, AnswersGoOn
<1>3. AnswersOf(c)'
  BY <1>2 DEF AnswersOf
<1> QED
  BY <1>1, <1>3, ActorAnswers DEF RequestStaysOf

LEMMA CreateStepAnswers ==
    ASSUME DInv, DInv', TypeInv, TypesStay, \A d \in Client : AnswersOf(d), NEW c \in Client,
           CreateStep(c)
    PROVE  \A d \in Client : AnswersOf(d)'
<1>1. /\ stage[c] = "create" /\ Create(c, req[c].type) /\ Proceed(c, "get")
      /\ UNCHANGED <<req, ino, buf, attr>>
  BY DEF CreateStep
<1>2. req[c].type \in Types
  BY MakesInode
<1>3. TypesKept(c) /\ OthersKeep(c)
  BY <1>1, <1>2, CreateTypes, CreateMakesEntry DEF DInv
<1>4. TypesAgree(c)'
  BY <1>1, <1>3, AgreementStays DEF AnswersOf
<1> QED
  BY <1>1, <1>3, <1>4, NoLookup, OtherCallsAnswer DEF StatCalls

LEMMA RemoveStepAnswers ==
    ASSUME DInv, TypeInv, TypesStay, \A d \in Client : AnswersOf(d), NEW c \in Client,
           RemoveStep(c)
    PROVE  \A d \in Client : AnswersOf(d)'
<1>1. /\ stage[c] = "remove" /\ Remove(c, MatchingInums(buf[c], req[c].name)) /\ Proceed(c, "put")
      /\ UNCHANGED <<req, ino, buf, attr>>
  BY DEF RemoveStep
<1>2. TypesKept(c) /\ OthersKeep(c)
  BY <1>1, RemoveTypes, RemoveMarks DEF DInv
<1>3. TypesAgree(c)'
  BY <1>1, <1>2, AgreementStays DEF AnswersOf
<1> QED
  BY <1>1, <1>2, <1>3, NoLookup, OtherCallsAnswer DEF StatCalls

LEMMA PutStepAnswers ==
    ASSUME DInv, TypeInv, TypesStay, \A d \in Client : AnswersOf(d), NEW c \in Client, PutStep(c)
    PROVE  \A d \in Client : AnswersOf(d)'
<1>1. /\ stage[c] = "put" /\ Put(c, ino[c], NewData(c))
      /\ UNCHANGED <<req, ino, buf, attr>>
  BY DEF PutStep
<1>2. PICK s \in {"flush", "unlock"} : Proceed(c, s)
  BY DEF PutStep
<1>3. PICK i, d : i = ino[c] /\ d = NewData(c)
  OBVIOUS
<1>4. i \in Inum /\ RequestFits(c) /\ i = req[c].ino
  BY <1>1, <1>3, RequestUnderWay DEF NamedCalls
<1>5. i = Root \/ HasData(c, i) \/ Removed(c, i)
  <2>1. CASE req[c].op = "mount"
    BY <1>4, <2>1 DEF RequestFits, NoRequest, MountRequest, FitsInode, OnDirectory, OnFile
  <2>2. CASE req[c].op # "mount"
    BY <1>1, <1>3, <2>2 DEF DInv, InHandIsCached, GotData
  <2> QED
    BY <2>1, <2>2
<1>6. TypesKept(c) /\ OthersKeep(c)
  BY <1>1, <1>3, <1>4, <1>5, PutTypes, PutStores DEF DInv
<1>7. TypesAgree(c)'
  BY <1>1, <1>6, AgreementStays DEF AnswersOf
<1> QED
  BY <1>1, <1>2, <1>6, <1>7, NoLookup, OtherCallsAnswer DEF StatCalls

LEMMA PutLinkAnswers ==
    ASSUME DInv, TypeInv, TypesStay, \A d \in Client : AnswersOf(d), NEW c \in Client, PutLink(c)
    PROVE  \A d \in Client : AnswersOf(d)'
<1>1. /\ stage[c] = "put_link" /\ Put(c, ino[c], <<req[c].link>>) /\ Proceed(c, "flush_link")
      /\ UNCHANGED <<req, ino, buf, attr>>
  BY DEF PutLink
<1>2. PICK i, d : i = ino[c] /\ d = <<req[c].link>>
  OBVIOUS
<1>3. i \in Inum
  BY <1>2 DEF TypeInv
<1>4. OthersKeep(c) /\ EntriesBut(c, i) /\ UNCHANGED server
  BY <1>1, <1>2, <1>3, PutStores DEF DInv
<1>5. stage'[c] = "flush_link"
  BY <1>1, OthersOf
<1>6. TypesAgree(c)'
  <2> SUFFICES ASSUME NEW j \in Inum \ {i}
               PROVE  \/ table'[c][j].type = server'[j].type
                      \/ table'[c][j].type = "none" /\ table'[c][j].m_state \in {"ABSENT", "REMOVED"}
                      \/ j = Root
    BY <1>1, <1>2, <1>5 DEF TypesAgree
  <2> QED
    BY <1>1, <1>4 DEF TypesAgree, AnswersOf, EntriesBut
<1> QED
  BY <1>1, <1>4, <1>6, NoLookup, OtherCallsAnswer DEF LinkCalls, StatCalls

LEMMA FlushStepAnswers ==
    ASSUME DInv, TypeInv, TypesStay, \A d \in Client : AnswersOf(d), NEW c \in Client, FlushStep(c)
    PROVE  \A d \in Client : AnswersOf(d)'
<1>1. /\ stage[c] \in {"flush", "flush_link"} /\ Flush(c, ino[c])
      /\ UNCHANGED <<req, ino, buf, attr>>
  BY DEF FlushStep
<1>2. PICK s \in {"unlock", "unlock_link"} : Proceed(c, s)
  BY DEF FlushStep
<1>3. PICK i : i = ino[c]
  OBVIOUS
<1>4. i \in Inum
  BY <1>3 DEF TypeInv
<1>5. OthersKeep(c) /\ TypesKept(c) /\ table'[c][i] = Absent
  BY <1>1, <1>3, <1>4, FlushTypes, FlushWritesBack DEF DInv
<1>6. TypesAgree(c)'
  BY <1>1, <1>3, <1>5, AgreementStays DEF AnswersOf
<1> QED
  BY <1>1, <1>2, <1>5, <1>6, NoLookup, OtherCallsAnswer DEF LinkCalls, StatCalls

LEMMA GetStepAnswers ==
    ASSUME DInv, TypeInv, TypesStay, \A d \in Client : AnswersOf(d), NEW c \in Client, GetStep(c)
    PROVE  \A d \in Client : AnswersOf(d)'
<1>1. /\ stage[c] = "get" /\ Get(c, ino[c])
      /\ UNCHANGED <<req, ino, attr>>
      /\ buf'[c] = DataOf(c) /\ \A d \in Client \ {c} : buf'[d] = buf[d]
  BY DEF GetStep, DInv, RequestShapes
<1>2. PICK s \in {"unlock", "remove", "put"} : Proceed(c, s)
  BY DEF GetStep
<1>3. PICK i : i = ino[c]
  OBVIOUS
<1>4. i \in Inum /\ Exists(i) /\ RequestFits(c) /\ i = req[c].ino
  BY <1>1, <1>3, RequestUnderWay DEF NamedCalls
<1>5. stage'[c] = s /\ \A d \in Client \ {c} : stage'[d] = stage[d]
  BY <1>2, OthersOf
<1>6. OthersKeep(c) /\ TypesKept(c)
  BY <1>1, <1>3, <1>4, GetFetches, GetTypes DEF DInv
<1>7. TypesAgree(c)'
  BY <1>1, <1>6, AgreementStays DEF AnswersOf
<1>8. Answers(c)'
  <2>1. s \notin StatCalls
    BY <1>2 DEF StatCalls
  <2>2. req[c].op = "lookup" => attr[c].type = T_DIR
    BY <1>1 DEF AnswersOf, Answers
  <2> QED
    BY <1>1, <1>5, <2>1, <2>2 DEF Answers, StatCalls
<1>9. ReadsBytes(c)'
  <2> SUFFICES ASSUME req[c].op = "read" PROVE DataOf(c) \in Seq(Byte)
    BY <1>1 DEF ReadsBytes
  <2>1. server[i].type = T_FILE
    BY <1>4 DEF RequestFits, FitsInode, OnFile, NoRequest, MountRequest
  <2>2. Removed(c, i) \/ DataFit(T_FILE, Entry(c, i).data)
    BY <1>1, <1>3, <1>4, <2>1, GetFits
  <2> QED
    BY <1>3, <2>2 DEF DataOf, DataFit, T_DIR, T_FILE, T_SYMLK
<1>10. HasMade(c)'
  BY <1>2, <1>5 DEF HasMade, StatCalls
<1>11. AnswersOf(c)'
  BY <1>7, <1>8, <1>9, <1>10 DEF AnswersOf
<1> QED
  BY <1>1, <1>5, <1>6, <1>11, ActorAnswers DEF RequestStaysOf

LEMMA UnlockAnswers ==
    ASSUME DInv, TypeInv, TypesStay, \A d \in Client : AnswersOf(d), NEW c \in Client, Unlock(c)
    PROVE  \A d \in Client : AnswersOf(d)'
<1>1. /\ stage[c] = "unlock" /\ UNCHANGED <<extentTableVars, req, buf, attr>>
      /\ \A d \in Client \ {c} : ino'[d] = ino[d]
  BY DEF Unlock, TypeInv
<1>2. PICK s \in {"typed", "lock_link", "done"} : Proceed(c, s)
  BY DEF Unlock
<1>3. stage'[c] = s /\ \A d \in Client \ {c} : stage'[d] = stage[d]
  BY <1>2, OthersOf
<1>4. UNCHANGED <<server, table>>
  BY <1>1 DEF extentTableVars
<1>5. TypesAgree(c)'
  BY <1>1, <1>4, AgreementStays DEF AnswersOf, TypesKept
<1>6. ReadsBytes(c)'
  BY <1>1 DEF AnswersOf, ReadsBytes
<1>7. Answers(c)'
  <2> SUFFICES ASSUME req[c].op = "lookup" PROVE Answers(c)'
    BY <1>1 DEF Answers
  <2>1. attr[c].type = T_DIR
    BY <1>1 DEF AnswersOf, Answers
  <2>2. /\ RequestFits(c) /\ ino[c] = req[c].ino /\ server[ino[c]].type = T_DIR
    <3>1. RequestFits(c) /\ ino[c] = req[c].ino
      BY <1>1, RequestUnderWay DEF NamedCalls
    <3> QED
      BY <3>1 DEF RequestFits, FitsInode, OnDirectory, NoRequest, MountRequest
  <2>3. CASE LookedUp(c)
    <3>1. stage'[c] = "typed" /\ ino'[c] = FoundInum(buf[c], req[c].name)
      BY <1>3, <2>3 DEF Unlock, Proceed, DInv, RequestShapes
    <3> QED
      BY <1>1, <3>1 DEF Answers
  <2>4. CASE ~LookedUp(c)
    <3>1. stage'[c] = "done" /\ ino'[c] = ino[c]
      BY <1>3, <2>4 DEF Unlock, Proceed, DInv, RequestShapes
    <3>2. ~IsFound(buf[c], req[c].name)
      BY <2>1, <2>4 DEF LookedUp
    <3> QED
      BY <1>1, <1>4, <2>1, <2>2, <3>1, <3>2 DEF Answers
  <2> QED
    BY <2>3, <2>4
<1>8. HasMade(c)'
  <2> SUFFICES ASSUME req[c].op = "create" PROVE server'[ino'[c]].type = req[c].type
    BY <1>1 DEF HasMade
  <2>1. ino'[c] = made[c]
    BY <1>1 DEF Unlock, TypeInv
  <2>2. server[made[c]].type = req[c].type
    BY <1>1 DEF TypeInv, RequestFits, Making
  <2> QED
    BY <1>4, <2>1, <2>2
<1>9. AnswersOf(c)'
  BY <1>5, <1>6, <1>7, <1>8 DEF AnswersOf
<1> QED
  BY <1>1, <1>3, <1>4, <1>9, ActorAnswers DEF RequestStaysOf, OthersKeep

\* Steps into and out of locks.
LEMMA LocksAnswer ==
    ASSUME DInv, TypeInv, TypesStay, \A d \in Client : AnswersOf(d), NEW c \in Client,
           stage[c] # "flush_link",
           UNCHANGED <<extentTableVars, req, ino, buf, attr>>, NEW s, Proceed(c, s),
           req[c].op = "create" /\ s \in StatCalls => stage[c] \in StatCalls,
           req[c].op = "lookup" =>
              /\ s \notin {"get", "unlock"}
              /\ s \in StatCalls => stage[c] \in StatCalls
              /\ s \in {"unlock_stat", "done"} => stage[c] = "unlock_stat"
    PROVE  \A d \in Client : AnswersOf(d)'
<1>1. stage'[c] = s /\ \A d \in Client \ {c} : stage'[d] = stage[d]
  BY OthersOf
<1>2. UNCHANGED <<server, table>>
  BY DEF extentTableVars
<1>3. TypesAgree(c)'
  BY <1>2, AgreementStays DEF AnswersOf, TypesKept
<1>4. Answers(c)' /\ HasMade(c)' /\ ReadsBytes(c)'
  BY <1>1, AnswersGoOn DEF AnswersOf, Answers
<1>5. AnswersOf(c)'
  BY <1>3, <1>4 DEF AnswersOf
<1> QED
  BY <1>1, <1>2, <1>5, ActorAnswers DEF RequestStaysOf, OthersKeep

LEMMA EnterAnswers ==
    ASSUME DInv, TypeInv, TypesStay, \A d \in Client : AnswersOf(d), NEW c \in Client,
           stage[c] \in Waiting, Enter(c)
    PROVE  \A d \in Client : AnswersOf(d)'
<1>1. /\ stage[c] \in {"lock", "lock_link", "lock_stat"}
      /\ UNCHANGED <<extentTableVars, req, ino, buf, attr>>
  BY DEF Enter, Waiting
<1>2. PICK s : /\ Proceed(c, s)
               /\ stage[c] = "lock_link" => s = "put_link"
               /\ stage[c] = "lock_stat" => s = "stat"
               /\ stage[c] = "lock" /\ req[c].op = "lookup" => s = "getattr"
               /\ stage[c] = "lock" /\ req[c].op = "create" => s = "create"
  BY <1>1 DEF Enter, Proceed, DInv, RequestShapes
<1>3. stage[c] = "lock_link" => req[c].op # "lookup"
  BY NoLookup DEF LinkCalls
<1> QED
  BY <1>1, <1>2, <1>3, LocksAnswer DEF StatCalls

LEMMA LockStepAnswers ==
    ASSUME DInv, TypeInv, TypesStay, \A d \in Client : AnswersOf(d), NEW i \in Inum, LockStep(i)
    PROVE  \A d \in Client : AnswersOf(d)'
<1>1. CASE Grant(i)
  BY <1>1, EnterAnswers DEF Grant, Wants
<1>2. CASE FlushForRelease(i)
  <2>1. PICK c \in Client : Flush(c, i)
    BY <1>2 DEF FlushForRelease
  <2>2. \A d \in Client : RequestStaysOf(d)
    BY <1>2 DEF FlushForRelease, requestVars, RequestStaysOf
  <2>3. OthersKeep(c) /\ TypesKept(c)
    BY <2>1, FlushTypes, FlushWritesBack DEF DInv
  <2>4. TypesAgree(c)'
    BY <2>2, <2>3, AgreementStays DEF AnswersOf, RequestStaysOf
  <2>5. Answers(c)' /\ HasMade(c)' /\ ReadsBytes(c)'
    <3>1. server'[ino[c]].type = server[ino[c]].type
      BY DEF TypeInv, RequestFits, TypesStay
    <3> QED
      BY <2>2, <3>1 DEF AnswersOf, Answers, HasMade, ReadsBytes, RequestStaysOf
  <2>6. AnswersOf(c)'
    BY <2>4, <2>5 DEF AnswersOf
  <2> QED
    BY <2>2, <2>3, <2>6, ActorAnswers
<1>3. CASE Release(i)
  BY <1>3, BystanderAnswers DEF Release, requestVars, extentTableVars, RequestStaysOf
<1> QED
  BY <1>1, <1>2, <1>3 DEF LockStep

\* Requests begin and end without an answer.
LEMMA TakeAnswers ==
    ASSUME DInv, TypeInv, TypesStay, \A d \in Client : AnswersOf(d), NEW c \in Client,
           NEW r, Take(c, r)
    PROVE  \A d \in Client : AnswersOf(d)'
<1>1. /\ stage[c] = "idle" /\ req'[c] = r
      /\ \A d \in Client \ {c} : stage'[d] = stage[d] /\ req'[d] = req[d] /\ ino'[d] = ino[d]
      /\ UNCHANGED <<extentTableVars, buf, attr>>
      /\ r.op \in {"lookup", "create"} => stage'[c] = "lock"
  BY DEF Take, Proceed, DInv, RequestShapes, TypeInv
<1>2. UNCHANGED <<server, table>>
  BY <1>1 DEF extentTableVars
<1>3. TypesAgree(c)'
  BY <1>1, <1>2, AgreementStays DEF AnswersOf, TypesKept
<1>4. Answers(c)' /\ HasMade(c)'
  BY <1>1 DEF Answers, HasMade, StatCalls
<1>5. ReadsBytes(c)'
  <2>1. buf[c] = <<>>
    BY <1>1 DEF TypeInv, RequestFits, CallFits, MountRequest, FitsInode, OnDirectory, OnFile,
                StatCalls, LinkCalls
  <2> QED
    BY <1>1, <2>1 DEF ReadsBytes
<1>6. AnswersOf(c)'
  BY <1>3, <1>4, <1>5 DEF AnswersOf
<1> QED
  BY <1>1, <1>2, <1>6, ActorAnswers DEF RequestStaysOf, OthersKeep

LEMMA ReplyAnswers ==
    ASSUME DInv, TypeInv, TypesStay, \A d \in Client : AnswersOf(d), NEW c \in Client, Reply(c)
    PROVE  \A d \in Client : AnswersOf(d)'
<1>1. /\ stage[c] = "done" /\ req'[c] = NoRequest
      /\ \A d \in Client \ {c} : RequestStaysOf(d)
      /\ UNCHANGED <<server, table>>
  BY DEF Reply, Proceed, DInv, RequestShapes, TypeInv, RequestStaysOf, extentTableVars
<1>2. TypesAgree(c)'
  BY <1>1, AgreementStays DEF AnswersOf, TypesKept
<1>3. Answers(c)' /\ HasMade(c)' /\ ReadsBytes(c)'
  BY <1>1 DEF Answers, HasMade, ReadsBytes, NoRequest
<1>4. AnswersOf(c)'
  BY <1>2, <1>3 DEF AnswersOf
<1> QED
  BY <1>1, <1>4, ActorAnswers DEF OthersKeep

LEMMA StepsAnswer ==
    ASSUME DInv, DInv', TypeInv, NameInv, RootIsTyped, \A d \in Client : AnswersOf(d),
           [KernelNext]_directoryVars
    PROVE  \A d \in Client : AnswersOf(d)'
<1>1. TypesStay
  BY KernelKeepsTypes
<1>2. ASSUME NEW c \in Client, Serve(c) PROVE \A d \in Client : AnswersOf(d)'
  <2>1. CASE EnterAgain(c)
    BY <1>1, <2>1, EnterAnswers DEF EnterAgain, Wants
  <2>2. CASE UnlockLink(c)
    <3>1. /\ stage[c] = "unlock_link" /\ Proceed(c, "typed")
          /\ UNCHANGED <<extentTableVars, req, ino, buf, attr>>
      BY <2>2 DEF UnlockLink
    <3>2. req[c].op \notin {"lookup", "create"}
      BY <3>1 DEF TypeInv, RequestFits, CallFits, LinkCalls, StatCalls
    <3> QED
      BY <1>1, <3>1, <3>2, LocksAnswer
  <2>3. CASE UnlockStat(c)
    <3>1. /\ stage[c] = "unlock_stat" /\ Proceed(c, "done")
          /\ UNCHANGED <<extentTableVars, req, ino, buf, attr>>
      BY <2>3 DEF UnlockStat
    <3> QED
      BY <1>1, <3>1, LocksAnswer DEF StatCalls
  <2> QED
    BY <1>1, <1>2, <2>1, <2>2, <2>3, GetattrStepsAnswer, CreateStepAnswers, GetStepAnswers,
       RemoveStepAnswers, PutStepAnswers, FlushStepAnswers, UnlockAnswers, PutLinkAnswers DEF Serve
<1>3. CASE UNCHANGED directoryVars
  <2>1. \A d \in Client : RequestStaysOf(d) /\ table'[d] = table[d]
    BY <1>3 DEF directoryVars, requestVars, extentTableVars, RequestStaysOf
  <2> QED
    BY <1>1, <2>1, BystanderAnswers
<1> QED
  BY <1>1, <1>2, <1>3, LockStepAnswers, TakeAnswers, ReplyAnswers DEF KernelNext, DirectoryStep

-----------------------------------------------------------------------------
\* No name is twice in a directory.
LEMMA UniqueEverywhere ==
    NamesAreUnique <=> \A d \in Inum : NoDuplicates(Listing(d))
BY DEF NamesAreUnique, Directories, Listing, NoDuplicates

LEMMA UniqueEverywhereAfter ==
    (\A d \in Inum : NoDuplicates(Listing(d)))' => NamesAreUnique'
BY UniqueEverywhere, PTL

LEMMA AddedNameIsUnique ==
    ASSUME NEW d, NEW w, NEW last, NEW n, NEW i, OneMore(w, d, last, n, i),
           NoDuplicates(d), ~IsFound(d, n)
    PROVE  NoDuplicates(w)
BY DEF OneMore, NoDuplicates, IsFound, Matches

LEMMA KeptNamesAreUnique ==
    ASSUME NEW d \in Seq(Entries), NEW n, NoDuplicates(d),
           \A k, l \in DOMAIN d : d[k].inum = d[l].inum => k = l
    PROVE  NoDuplicates(WithoutName(d, n))
<1>1. PICK w : w = WithoutName(d, n)
  OBVIOUS
<1>2. /\ \A k \in DOMAIN w : \E m \in DOMAIN d : w[k] = d[m]
      /\ \A k, l \in DOMAIN w : w[k].inum = w[l].inum => k = l
  BY <1>1, KeptEntries
<1>3. ASSUME NEW k \in DOMAIN w, NEW l \in DOMAIN w, w[k].name = w[l].name
      PROVE  k = l
  <2>1. PICK j \in DOMAIN d, m \in DOMAIN d : w[k] = d[j] /\ w[l] = d[m]
    BY <1>2
  <2>2. w[k] = w[l]
    BY <1>3, <2>1 DEF NoDuplicates
  <2> QED
    BY <1>2, <2>2
<1> QED
  BY <1>1, <1>3 DEF NoDuplicates

\* Listings change when an operation on names puts one.
LEMMA ListingsChange ==
    ASSUME DInv, DInv', TypeInv, NameInv, [KernelNext]_directoryVars
    PROVE  \/ \A d \in Inum : Listing(d)' = Listing(d)
           \/ \E c \in Client : PutStep(c) /\ req[c].op \in Making \cup {"unlink"}
<1>1. ASSUME NEW c \in Client, RemoveStep(c) PROVE \A d \in Inum : Listing(d)' = Listing(d)
  BY <1>1, RemovesFiles
<1>2. ASSUME NEW c \in Client, CreateStep(c) PROVE \A d \in Inum : Listing(d)' = Listing(d)
  <2>1. PICK m \in Inum : \A d \in Inum : Listing(d)' = Listing(d)
    BY <1>2, MakesInode
  <2> QED
    BY <2>1
<1>3. ASSUME NEW c \in Client, Reply(c) \/ \E r : Take(c, r)
      PROVE  \A d \in Inum : Listing(d)' = Listing(d)
  BY <1>3, QuietNames DEF Reply, Take, SameNames
<1>4. ASSUME NamesStay PROVE \A d \in Inum : Listing(d)' = Listing(d)
  BY <1>4 DEF NamesStay, SameNames
<1> QED
  BY <1>1, <1>2, <1>3, <1>4, StepsOnNames

LEMMA NamesStayUnique ==
    ASSUME DInv, DInv', TypeInv, NameInv, NamesAreUnique, [KernelNext]_directoryVars
    PROVE  NamesAreUnique'
<1>1. \A d \in Inum : NoDuplicates(Listing(d))
  BY UniqueEverywhere
<1>2. ASSUME \A d \in Inum : Listing(d)' = Listing(d) PROVE NamesAreUnique'
  <2>1. (\A d \in Inum : NoDuplicates(Listing(d)))'
    BY <1>1, <1>2 DEF NoDuplicates
  <2> QED
    BY <2>1, UniqueEverywhereAfter
<1>3. ASSUME NEW c \in Client, PutStep(c), req[c].op \in Making \cup {"unlink"}
      PROVE  NamesAreUnique'
  <2>1. /\ stage[c] = "put"
        /\ Listing(ino[c])' = NewData(c)
        /\ UNCHANGED ino
        /\ \A d \in Inum \ {ino[c]} : Listing(d)' = Listing(d)
    BY <1>3, PutsListing
  <2>2. PICK i, m, n, l, w : /\ i = ino[c] /\ m = made[c] /\ n = req[c].name
                             /\ l = Listing(i) /\ w = NewData(c)
    OBVIOUS
  <2>3. /\ i \in Inum /\ i \in Directories /\ i = req[c].ino
        /\ buf[c] = l /\ n \in Name
    BY <1>3, <2>1, <2>2, BufferIsListing
  <2>4. m \in Inum /\ l \in Seq(Entries) /\ NoDuplicates(l)
    BY <1>1, <2>2, <2>3, ListingFits DEF TypeInv
  <2>5. NoDuplicates(w)
    <3>1. CASE req[c].op \in Making
      <4>1. w = AddEntry(l, n, m)
        BY <2>2, <2>3, <3>1 DEF NewData, Making
      <4>2. ~IsFound(l, n)
        BY <2>1, <2>2, <2>3, <3>1 DEF NameInv, NameStays, NameIsNew
      <4>3. OneMore(w, l, Len(l) + 1, n, m)
        BY <2>3, <2>4, <4>1, AddedEntry
      <4> QED
        BY <2>4, <4>2, <4>3, AddedNameIsUnique
    <3>2. CASE req[c].op = "unlink"
      <4>1. w = WithoutName(l, n)
        BY <2>2, <2>3, <3>2 DEF NewData
      <4>2. \A k, h \in DOMAIN l : l[k].inum = l[h].inum => k = h
        BY <2>2, <2>3 DEF NameInv, NamedOnce
      <4> QED
        BY <2>4, <4>1, <4>2, KeptNamesAreUnique
    <3> QED
      BY <1>3, <3>1, <3>2
  <2>6. ASSUME NEW d \in Inum PROVE NoDuplicates(Listing(d))'
    <3>1. PICK b : b = Listing(d)'
      OBVIOUS
    <3>2. NoDuplicates(b)
      BY <1>1, <2>1, <2>2, <2>5, <3>1
    <3> QED
      BY <3>1, <3>2 DEF NoDuplicates
  <2> QED
    BY <2>6, UniqueEverywhereAfter
<1> QED
  BY <1>2, <1>3, ListingsChange

LEMMA AnswerInvIsInductive ==
    DInv /\ DInv' /\ TypeInv /\ NameInv /\ RootIsTyped /\ AnswerInv /\ [KernelNext]_directoryVars
      => AnswerInv'
<1> SUFFICES ASSUME DInv, DInv', TypeInv, NameInv, RootIsTyped, AnswerInv,
                    [KernelNext]_directoryVars
             PROVE  AnswerInv'
  OBVIOUS
<1>1. \A d \in Client : AnswersOf(d)'
  BY StepsAnswer DEF AnswerInv, AnswersOf
<1>2. NamesAreUnique'
  BY NamesStayUnique DEF AnswerInv
<1> QED
  BY <1>1, <1>2 DEF AnswerInv, AnswersOf

LEMMA AnswerInvHoldsInitially == DirectoryInit => AnswerInv
<1> SUFFICES ASSUME DirectoryInit PROVE AnswerInv
  OBVIOUS
<1>1. /\ \A c \in Client, i \in Inum : table[c][i] = Absent
      /\ \A c \in Client : req[c] = NoRequest
      /\ \A i \in Inum : server[i].data = <<>>
  BY DEF DirectoryInit, FreeInode
<1>2. \A d \in Inum : Listing(d) = <<>>
  BY <1>1 DEF Listing, Contents, Dirty, Absent
<1> QED
  BY <1>1, <1>2 DEF AnswerInv, NamesAreUnique, NoDuplicates, Directories, TypesAgree, Answers,
                    HasMade, ReadsBytes, NoRequest, Absent

-----------------------------------------------------------------------------
\* The programs.
LEMMA ProgramsAre ==
    ASSUME ProcessInv, NEW p \in Process
    PROVE  IsProgram(Program(p)) /\ proc[p] \in ProcessState
BY ScenariosArePrograms DEF ProcessInv, Process, Program

\* The call that a process makes has the arguments that it needs.
LEMMA CallIs ==
    ASSUME ProcessInv, NEW p \in Process, proc[p].status = "running"
    PROVE  LET call == CallOf(p)
           IN  /\ call.op \in OnDirectoryName \cup OnDescriptor \cup Local
               /\ call.op \in OnDirectoryName => call.d.mount \in Client /\ call.d.dir \in Name
               /\ call.op \in OnName => call.name \in Name
               /\ call.op = "lseek" => call.pos \in Nat
               /\ call.op = "read" => call.size \in Nat
               /\ call.op = "write" => call.data \in Seq(Byte)
               /\ call.op \in OnDescriptor => HasOpened(p)
<1>1. PICK calls, k : calls = Program(p) /\ k = proc[p].next
  OBVIOUS
<1>2. IsProgram(calls) /\ k \in DOMAIN calls
  BY <1>1, ProgramsAre DEF ProcessInv, IsAt
<1>3. CallOf(p) = calls[k]
  BY <1>1 DEF CallOf
<1>4. HasOpened(p) <=> \E j \in 1 .. k - 1 : calls[j].op \in Opens /\ calls[j].want # "error"
  BY <1>1 DEF HasOpened
<1> QED
  BY <1>2, <1>3, <1>4 DEF IsProgram

\* Who has sent a request is in a part of a call that makes one.
LEMMA WhoHasSent ==
    ASSUME ProcessInv, NEW p \in Process, proc[p].sent
    PROVE  /\ proc[p].status = "running" /\ proc[p].part # "begin" /\ PartOf(p) = proc[p].part
           /\ CallOf(p).op \notin Local
           /\ stage[MountOf(p)] # "idle" /\ req[MountOf(p)] = RequestOf(p)
           /\ \A q \in Process \ {p} : proc[q].sent => MountOf(q) # MountOf(p)
<1>1. IsAt(p) /\ Waits(p)
  BY DEF ProcessInv
<1>2. proc[p].status = "running" /\ proc[p].part # "begin"
  BY <1>1 DEF IsAt
<1>3. PartOf(p) = proc[p].part
  BY <1>2 DEF PartOf
<1>4. PartFits(CallOf(p).op, proc[p].part) /\ proc[p].part \in Parts
  BY <1>1, <1>2, ProgramsAre DEF IsAt, ProcessState
<1>5. CallOf(p).op \notin Local
  BY <1>2, <1>4 DEF PartFits, Parts, Local, OnDirectoryName, OnName, OnDescriptor, Changes, Makes,
                    Opens
<1> QED
  BY <1>1, <1>2, <1>3, <1>5 DEF Waits

\* The part that a call is in.
LEMMA PartIs ==
    ASSUME ProcessInv, NEW p \in Process, proc[p].status = "running", CallOf(p).op \notin Local
    PROVE  /\ PartOf(p) \in Parts \ {"begin"}
           /\ PartFits(CallOf(p).op, PartOf(p))
           /\ PartOf(p) = "make" => proc[p].part = "make"
           /\ PartOf(p) = "act" => proc[p].part = "act" \/ CallOf(p).op \in OnDescriptor
<1>1. /\ CallOf(p).op \in OnDirectoryName \cup OnDescriptor \cup Local
      /\ PartFits(CallOf(p).op, proc[p].part) /\ proc[p].part \in Parts
  BY CallIs, ProgramsAre DEF ProcessInv, IsAt, ProcessState
<1> QED
  BY <1>1 DEF PartOf, PartFits, Parts, OnDirectoryName, OnName, OnDescriptor, Changes, Makes, Local

LEMMA TypesDiffer == T_DIR # T_FILE /\ T_DIR # T_SYMLK /\ T_FILE # T_SYMLK
BY DEF T_DIR, T_FILE, T_SYMLK

\* What the request of a part is, and on what inode.
RequestSuits(r, p) ==
    LET op == CallOf(p).op
        dir == proc[p].dir
    IN  /\ PartOf(p) = "walk" => r = LookupRequest(Root, CallOf(p).d.dir)
        /\ PartOf(p) = "entry" => r = LookupRequest(dir, CallOf(p).name)
        /\ PartOf(p) = "make" =>
             /\ r.ino = dir /\ r.name = CallOf(p).name /\ op \in Changes
             /\ op \in Makes => r.op \in Making /\ r.type = IF op = "mkdir" THEN T_DIR
                                                            ELSE IF op = "symlink" THEN T_SYMLK
                                                            ELSE T_FILE
             /\ r.op = "create" => op \in {"mkdir", "creat", "opencreate"}
             /\ op = "unlink" => r.op = "unlink"
        /\ PartOf(p) = "act" => r.op \in {"setattr", "readdir", "readlink", "read", "write"}

LEMMA RequestIs ==
    ASSUME ProcessInv, InodesFit, NEW p \in Process, proc[p].status = "running",
           CallOf(p).op \notin Local
    PROVE  /\ RequestSuits(RequestOf(p), p)
           /\ FitsInode(RequestOf(p)) /\ HasArguments(RequestOf(p))
<1>1. PICK r, op, s : r = RequestOf(p) /\ op = CallOf(p).op /\ s = proc[p]
  OBVIOUS
<1>2. PartOf(p) \in Parts \ {"begin"} /\ PartFits(op, PartOf(p))
  BY <1>1, PartIs
<1>3. s \in ProcessState /\ server[s.dir].type = T_DIR
  BY <1>1, ProgramsAre DEF ProcessInv, IsAt
<1>4. /\ op \in OnDirectoryName => CallOf(p).d.mount \in Client /\ CallOf(p).d.dir \in Name
      /\ op \in OnName => CallOf(p).name \in Name
      /\ op = "read" => CallOf(p).size \in Nat
      /\ op = "write" => CallOf(p).data \in Seq(Byte)
      /\ op \in OnDescriptor => HasOpened(p)
  BY <1>1, CallIs
<1>5. Root \in Inum /\ server[Root].type = T_DIR
  BY MaxInumIsPositive DEF InodesFit, Root, Inum
<1>6. CASE PartOf(p) = "walk"
  <2>1. r = LookupRequest(Root, CallOf(p).d.dir)
    BY <1>1, <1>6 DEF RequestOf
  <2>2. CallOf(p).d.dir \in Name
    BY <1>2, <1>4, <1>6 DEF PartFits
  <2> QED
    BY <1>1, <1>5, <1>6, <2>1, <2>2
       DEF RequestSuits, FitsInode, HasArguments, LookupRequest, OnDirectory, OnFile, Types
<1>7. CASE PartOf(p) = "entry"
  <2>1. r = LookupRequest(s.dir, CallOf(p).name)
    BY <1>1, <1>7 DEF RequestOf
  <2>2. CallOf(p).name \in Name
    BY <1>2, <1>4, <1>7 DEF PartFits
  <2> QED
    BY <1>1, <1>3, <1>7, <2>1, <2>2
       DEF RequestSuits, FitsInode, HasArguments, LookupRequest, OnDirectory, OnFile, Types,
           ProcessState
<1>8. CASE PartOf(p) = "make"
  <2>1. r = CASE op = "mkdir" -> MkdirRequest(s.dir, CallOf(p).name)
              [] op = "symlink" -> SymlinkRequest(s.dir, CallOf(p).name, CallOf(p).link)
              [] op = "unlink" -> UnlinkRequest(s.dir, CallOf(p).name)
              [] OTHER -> CreateRequest(s.dir, CallOf(p).name)
    BY <1>1, <1>8 DEF RequestOf
  <2>2. op \in {"mkdir", "creat", "opencreate", "symlink", "unlink"} /\ CallOf(p).name \in Name
    BY <1>2, <1>4, <1>8 DEF PartFits, Changes, Makes, OnName
  <2>3. /\ r.ino = s.dir /\ r.name = CallOf(p).name
        /\ op = "mkdir" => r.op = "create" /\ r.type = T_DIR
        /\ op = "symlink" => r.op = "symlink" /\ r.type = T_SYMLK
        /\ op = "unlink" => r.op = "unlink"
        /\ op \in {"creat", "opencreate"} => r.op = "create" /\ r.type = T_FILE
    BY <2>1, <2>2 DEF MkdirRequest, SymlinkRequest, UnlinkRequest, CreateRequest
  <2> QED
    BY <1>1, <1>3, <1>8, <2>2, <2>3
       DEF RequestSuits, FitsInode, HasArguments, OnDirectory, OnFile, Types, ProcessState,
           Making, Makes, Changes
<1>9. CASE PartOf(p) = "act"
  <2>1. r = CASE op = "creat" -> SetattrRequest(s.file, 0)
              [] op = "readdir" -> ReaddirRequest(s.dir)
              [] op = "readlink" -> ReadlinkRequest(s.file)
              [] op = "read" -> ReadRequest(s.fd.ino, s.fd.pos, CallOf(p).size)
              [] op = "write" -> WriteRequest(s.fd.ino, s.fd.pos, CallOf(p).data)
    BY <1>1, <1>9 DEF RequestOf
  <2>2. op \in {"creat", "readdir", "readlink", "read", "write"}
    BY <1>2, <1>9 DEF PartFits, OnDescriptor
  <2>3. s.file \in Inum /\ s.dir \in Inum /\ s.fd.ino \in Inum /\ s.fd.pos \in Nat
    BY <1>3 DEF ProcessState, Files
  <2>4. /\ op = "creat" => server[s.file].type = T_FILE
        /\ op = "readlink" => server[s.file].type = T_SYMLK
        /\ op \in OnDescriptor => server[s.fd.ino].type = T_FILE
    <3>1. op \in {"creat", "readlink"} => s.part = "act"
      BY <1>1, <1>9, PartIs DEF OnDescriptor
    <3> QED
      BY <1>1, <1>4, <3>1 DEF ProcessInv, IsAt
  <2>5. /\ op = "creat" => r.op = "setattr" /\ r.ino = s.file /\ r.size = 0
        /\ op = "readdir" => r.op = "readdir" /\ r.ino = s.dir
        /\ op = "readlink" => r.op = "readlink" /\ r.ino = s.file
        /\ op = "read" => r.op = "read" /\ r.ino = s.fd.ino
        /\ op = "write" => r.op = "write" /\ r.ino = s.fd.ino /\ r.off = s.fd.pos
                           /\ r.data = CallOf(p).data
    BY <2>1, <2>2 DEF SetattrRequest, ReaddirRequest, ReadlinkRequest, ReadRequest, WriteRequest
  <2> QED
    BY <1>1, <1>3, <1>4, <1>9, <2>2, <2>3, <2>4, <2>5
       DEF RequestSuits, FitsInode, HasArguments, OnDirectory, OnFile, Types, OnDescriptor
<1> QED
  BY <1>1, <1>2, <1>6, <1>7, <1>8, <1>9 DEF Parts

-----------------------------------------------------------------------------
\* The requests of processes are those of a kernel.
LEMMA MountIsClient ==
    ASSUME ProcessInv, NEW p \in Process, proc[p].status = "running", CallOf(p).op \notin Local
    PROVE  MountOf(p) \in Client
<1>1. proc[p].fd.mount \in Client
  BY ProgramsAre DEF ProcessState, Files
<1> QED
  BY <1>1, CallIs DEF MountOf

\* Who is about to change a name has it locked, and knows what there is under it.
LEMMA WhoChangesNames ==
    ASSUME ProcessInv, InodesFit, NEW p \in Process, proc[p].status = "running",
           CallOf(p).op \notin Local, RequestOf(p).op \in Making \cup {"unlink"}
    PROVE  /\ PartOf(p) = "make" /\ proc[p].part = "make" /\ LockedDirectory(p)
           /\ RequestOf(p).ino = proc[p].dir /\ RequestOf(p).name = CallOf(p).name
           /\ RequestOf(p).op \in Making <=> CallOf(p).op \in Makes
           /\ RequestOf(p).op = "unlink" <=> CallOf(p).op = "unlink"
           /\ RequestOf(p).op = "create" /\ RequestOf(p).type = T_DIR => CallOf(p).op = "mkdir"
<1>1. PICK r, op : r = RequestOf(p) /\ op = CallOf(p).op
  OBVIOUS
<1>2. RequestSuits(r, p) /\ r.op \in Making \cup {"unlink"}
  BY <1>1, RequestIs
<1>3. PartOf(p) \in Parts \ {"begin"} /\ (PartOf(p) = "make" => proc[p].part = "make")
  BY PartIs
<1>4. PartOf(p) = "make" /\ proc[p].part = "make"
  BY <1>2, <1>3 DEF RequestSuits, Parts, LookupRequest, Making
<1>5. /\ r.ino = proc[p].dir /\ r.name = CallOf(p).name /\ op \in Changes
      /\ op \in Makes => r.op \in Making /\ r.type = IF op = "mkdir" THEN T_DIR
                                                     ELSE IF op = "symlink" THEN T_SYMLK
                                                     ELSE T_FILE
      /\ op = "unlink" => r.op = "unlink"
  BY <1>1, <1>2, <1>4 DEF RequestSuits
<1>6. LockedDirectory(p)
  BY <1>1, <1>4, <1>5 DEF LockedDirectory
<1>7. r.op \in Making <=> op \in Makes
  BY <1>5 DEF Making, Makes, Changes
<1>8. r.op = "unlink" <=> op = "unlink"
  BY <1>5 DEF Making, Makes, Changes
<1>9. r.op = "create" /\ r.type = T_DIR => op = "mkdir"
  BY <1>5, <1>7, TypesDiffer DEF Making
<1> QED
  BY <1>1, <1>4, <1>5, <1>6, <1>7, <1>8, <1>9

\* Who is served with a request on a name is a process in the middle of it.
LEMMA WhoIsServed ==
    ASSUME ProcessInv, NEW c \in Client, req[c].op \notin {"none", "mount"}
    PROVE  \E q \in Process :
             /\ proc[q].sent /\ MountOf(q) = c /\ req[c] = RequestOf(q)
             /\ proc[q].status = "running" /\ CallOf(q).op \notin Local
<1>1. PICK q \in Process : proc[q].sent /\ MountOf(q) = c
  BY DEF ProcessInv, IsServed
<1> QED
  BY <1>1, WhoHasSent

LEMMA ClashesContend ==
    ASSUME ProcessInv, InodesFit, NEW p \in Process, NEW q \in Process,
           proc[p].status = "running", CallOf(p).op \notin Local,
           proc[q].status = "running", CallOf(q).op \notin Local,
           MountOf(p) # MountOf(q), Clash(RequestOf(p), RequestOf(q))
    PROVE  Contend(p, q) \/ Contend(q, p)
<1>1. /\ RequestOf(p).op \in Making \cup {"unlink"} /\ RequestOf(q).op \in Making \cup {"unlink"}
      /\ RequestOf(p).ino = RequestOf(q).ino /\ RequestOf(p).name = RequestOf(q).name
      /\ RequestOf(p).op \in Making
      /\ RequestOf(q).op = "unlink" => RequestOf(p).op = "create" /\ RequestOf(p).type = T_DIR
  BY DEF Clash, SameName, Making
<1>2. /\ LockedDirectory(p) /\ LockedDirectory(q) /\ PartOf(p) = "make" /\ PartOf(q) = "make"
      /\ proc[p].dir = proc[q].dir /\ CallOf(p).name = CallOf(q).name /\ CallOf(p).op \in Makes
      /\ RequestOf(q).op \in Making <=> CallOf(q).op \in Makes
      /\ RequestOf(p).op = "create" /\ RequestOf(p).type = T_DIR => CallOf(p).op = "mkdir"
  BY <1>1, WhoChangesNames
<1>3. "unlink" \notin Makes
  BY DEF Makes
<1>4. CASE RequestOf(q).op \in Making
  BY <1>2, <1>3, <1>4 DEF Contend
<1>5. CASE RequestOf(q).op = "unlink"
  BY <1>1, <1>2, <1>5 DEF Contend
<1> QED
  BY <1>1, <1>4, <1>5

LEMMA SendAsks ==
    ASSUME TypeInv, ProcessInv, IsOrderly, NEW p \in Process, Send(p)
    PROVE  /\ MountOf(p) \in Client
           /\ Asks(MountOf(p), RequestOf(p)) /\ Take(MountOf(p), RequestOf(p))
<1>1. /\ mounted = Client /\ proc[p].status = "running" /\ CallOf(p).op \notin Local
      /\ ~proc[p].sent /\ Take(MountOf(p), RequestOf(p))
  BY DEF Send
<1>2. PICK c, r : c = MountOf(p) /\ r = RequestOf(p)
  OBVIOUS
<1>3. c \in Client /\ FitsInode(r) /\ HasArguments(r) /\ InodesFit
  BY <1>1, <1>2, MountIsClient, RequestIs DEF TypeInv
<1>4. /\ r.op \in Making => NameIsNew(r)
      /\ r.op = "unlink" => UnlinksFiles(r)
  <2> SUFFICES ASSUME r.op \in Making \cup {"unlink"}
               PROVE  /\ r.op \in Making => NameIsNew(r)
                      /\ r.op = "unlink" => UnlinksFiles(r)
    OBVIOUS
  <2>1. /\ LockedDirectory(p) /\ IsAboutToMake(p)
        /\ r.ino = proc[p].dir /\ r.name = CallOf(p).name
        /\ r.op \in Making <=> CallOf(p).op \in Makes
        /\ r.op = "unlink" <=> CallOf(p).op = "unlink"
    BY <1>1, <1>2, <1>3, WhoChangesNames DEF IsAboutToMake
  <2>2. KnowsNew(p) /\ KnowsFile(p)
    BY DEF ProcessInv
  <2>3. EntryOf(p).ino = r.ino /\ EntryOf(p).name = r.name
    BY <2>1 DEF EntryOf
  <2> QED
    BY <2>1, <2>2, <2>3 DEF KnowsNew, KnowsFile, NameIsNew, UnlinksFiles
<1>5. ASSUME NEW d \in Client \ {c}, Clash(r, req[d]) \/ Clash(req[d], r) PROVE FALSE
  <2>1. req[d].op \notin {"none", "mount"}
    BY <1>5 DEF Clash, Making
  <2>2. PICK q \in Process : /\ proc[q].sent /\ MountOf(q) = d /\ req[d] = RequestOf(q)
                             /\ proc[q].status = "running" /\ CallOf(q).op \notin Local
    BY <2>1, WhoIsServed
  <2>3. p # q /\ MountOf(p) # MountOf(q)
    BY <1>1, <1>2, <2>2
  <2>4. Contend(p, q) \/ Contend(q, p)
    BY <1>1, <1>2, <1>3, <1>5, <2>2, <2>3, ClashesContend
  <2> QED
    BY <2>3, <2>4 DEF IsOrderly
<1> QED
  BY <1>1, <1>2, <1>3, <1>4, <1>5 DEF Asks

\* Each step of the programs is one of their kernels and clients.
LEMMA ProgramsStep ==
    ASSUME TypeInv, ProcessInv, IsOrderly, [ClassNext]_<<directoryVars, testVars>>
    PROVE  [KernelNext]_directoryVars
<1>1. ASSUME NEW c \in Client, Mount(c) PROVE KernelNext
  <2>1. PICK k \in DOMAIN MountOrder :
          MountOrder[k] = c /\ mounted = {MountOrder[l] : l \in 1 .. k - 1}
    BY <1>1 DEF Mount
  <2>2. DOMAIN MountOrder = 1 .. Len(MountOrder) /\ Len(MountOrder) \in Nat
    BY EachStartsOnce
  <2>3. c \notin mounted
    <3>1. ASSUME NEW l \in 1 .. k - 1, MountOrder[l] = c PROVE FALSE
      <4>1. l \in DOMAIN MountOrder /\ l # k
        BY <2>2
      <4> QED
        BY <2>1, <3>1, <4>1, EachStartsOnce
    <3> QED
      BY <2>1, <3>1
  <2>4. Asks(c, MountRequest) /\ Take(c, MountRequest)
    BY <1>1, <2>3 DEF Asks, Mount
  <2> QED
    BY <2>4 DEF KernelNext
<1>2. ASSUME NEW c \in Client, Mounted(c) PROVE KernelNext
  BY <1>2 DEF Mounted, KernelNext
<1>3. ASSUME NEW p \in Process, Send(p) PROVE KernelNext
  BY <1>3, SendAsks DEF KernelNext
<1>4. ASSUME NEW p \in Process, NEW part, Replied(p, part) PROVE KernelNext
  <2>1. MountOf(p) \in Client
    BY <1>4, WhoHasSent, MountIsClient DEF Replied
  <2> QED
    BY <1>4, <2>1 DEF Replied, KernelNext
<1>5. ASSUME NEW p \in Process, LocalCall(p) PROVE UNCHANGED directoryVars
  BY <1>5 DEF LocalCall
<1>6. ASSUME NEW p \in Process, ProcessStep(p) PROVE [KernelNext]_directoryVars
  BY <1>3, <1>4, <1>5, <1>6
     DEF ProcessStep, WalkDone, EntryFound, EntryMissing, MakeDone, ActDone
<1>7. CASE Serving
  BY <1>7 DEF Serving, KernelNext
<1>8. CASE AllDone
  BY <1>8 DEF AllDone
<1> QED
  BY <1>1, <1>2, <1>6, <1>7, <1>8 DEF ClassNext

-----------------------------------------------------------------------------
\* What serving does to the requests that are under way.
LookedUpCalls == {"unlock"} \cup StatCalls

LEMMA EnteringGoesOn ==
    ASSUME DInv, TypeInv, NEW c \in Client, stage[c] \in Waiting, Enter(c)
    PROVE  /\ stage'[c] # "idle" /\ UNCHANGED <<req, buf>>
           /\ \A d \in Client \ {c} : stage'[d] = stage[d]
           /\ req[c].op = "lookup" /\ stage'[c] \in LookedUpCalls => stage[c] \in LookedUpCalls
<1>1. PICK s : Proceed(c, s) /\ s \in {"put_link", "stat", "getattr", "create", "put", "get"}
                /\ (s = "stat" => stage[c] = "lock_stat")
  <2>1. PICK s : s = CASE stage[c] = "lock_link" -> "put_link"
                       [] stage[c] = "lock_stat" -> "stat"
                       [] OTHER ->
                            CASE req[c].op \in {"lookup", "readdir", "setattr"} -> "getattr"
                              [] req[c].op \in {"create", "symlink"} -> "create"
                              [] req[c].op = "mount" -> "put"
                              [] OTHER -> "get"
    OBVIOUS
  <2>2. Proceed(c, s)
    BY <2>1 DEF Enter, Proceed, DInv, RequestShapes
  <2> QED
    BY <2>1, <2>2
<1>2. stage'[c] = s /\ \A d \in Client \ {c} : stage'[d] = stage[d]
  BY <1>1, OthersOf
<1> QED
  BY <1>1, <1>2 DEF Enter, LookedUpCalls, StatCalls

\* A step of a request takes it to another call, and no request ends or begins with it.
CallGoesOn(c, s) ==
    /\ stage[c] # "idle" /\ s # "idle" /\ Proceed(c, s)
    /\ UNCHANGED req
    /\ req[c].op = "lookup" /\ s \in LookedUpCalls =>
         \/ stage[c] \in LookedUpCalls /\ UNCHANGED buf
         \/ GetStep(c)
         \/ GetattrStep(c)
    /\ \A d \in Client \ {c} : buf'[d] = buf[d]

LEMMA ServeGoesOn ==
    ASSUME DInv, TypeInv, NEW c \in Client, Serve(c), ~EnterAgain(c)
    PROVE  \E s : CallGoesOn(c, s)
<1>1. CASE IsDir(c)
  <2>1. req[c].op # "lookup"
    BY <1>1 DEF IsDir, TypeInv, RequestFits, CallFits, StatCalls
  <2> QED
    BY <1>1, <2>1 DEF IsDir, CallGoesOn
<1>2. CASE GetattrStep(c)
  BY <1>2 DEF GetattrStep, CallGoesOn
<1>3. CASE CreateStep(c)
  BY <1>3 DEF CreateStep, CallGoesOn, LookedUpCalls, StatCalls
<1>4. CASE GetStep(c)
  BY <1>4 DEF GetStep, CallGoesOn, DInv, RequestShapes
<1>5. CASE RemoveStep(c)
  BY <1>5 DEF RemoveStep, CallGoesOn, LookedUpCalls, StatCalls
<1>6. CASE PutStep(c)
  <2>1. req[c].op # "lookup"
    BY <1>6 DEF PutStep, TypeInv, RequestFits, CallFits, StatCalls
  <2> QED
    BY <1>6, <2>1 DEF PutStep, CallGoesOn
<1>7. CASE FlushStep(c)
  <2>1. req[c].op # "lookup"
    BY <1>7 DEF FlushStep, TypeInv, RequestFits, CallFits, StatCalls
  <2> QED
    BY <1>7, <2>1 DEF FlushStep, CallGoesOn
<1>8. CASE Unlock(c)
  BY <1>8 DEF Unlock, CallGoesOn, LookedUpCalls
<1>9. CASE PutLink(c)
  BY <1>9 DEF PutLink, CallGoesOn, LookedUpCalls, StatCalls
<1>10. CASE UnlockLink(c)
  <2>1. req[c].op # "lookup"
    BY <1>10 DEF UnlockLink, TypeInv, RequestFits, CallFits, StatCalls
  <2> QED
    BY <1>10, <2>1 DEF UnlockLink, CallGoesOn
<1>11. CASE Typed(c)
  BY <1>11 DEF Typed, CallGoesOn, LookedUpCalls, StatCalls
<1>12. CASE Stat(c)
  BY <1>12 DEF Stat, CallGoesOn, LookedUpCalls, StatCalls
<1>13. CASE UnlockStat(c)
  BY <1>13 DEF UnlockStat, CallGoesOn, LookedUpCalls, StatCalls
<1> QED
  BY <1>1, <1>2, <1>3, <1>4, <1>5, <1>6, <1>7, <1>8, <1>9, <1>10, <1>11, <1>12, <1>13 DEF Serve

\* The clients serve whom they have served, with the same requests, and a lookup has
\* looked the name up when it has got the directory.
LEMMA ServingGoesOn ==
    ASSUME DInv, TypeInv, DirectoryStep
    PROVE  /\ UNCHANGED req
           /\ \A d \in Client : stage[d] # "idle" => stage'[d] # "idle"
           /\ \A d \in Client : req[d].op = "lookup" /\ stage'[d] \in LookedUpCalls =>
                \/ stage[d] \in LookedUpCalls /\ buf'[d] = buf[d]
                \/ GetStep(d)
                \/ GetattrStep(d)
<1> DEFINE Goal == /\ UNCHANGED req
                   /\ \A d \in Client : stage[d] # "idle" => stage'[d] # "idle"
                   /\ \A d \in Client : req[d].op = "lookup" /\ stage'[d] \in LookedUpCalls =>
                        \/ stage[d] \in LookedUpCalls /\ buf'[d] = buf[d]
                        \/ GetStep(d)
                        \/ GetattrStep(d)
<1>1. ASSUME NEW c \in Client, Wants(c, ino[c]) \/ stage[c] \in Waiting, Enter(c) PROVE Goal
  BY <1>1, EnteringGoesOn DEF Wants
<1>2. ASSUME NEW c \in Client, Serve(c), ~EnterAgain(c) PROVE Goal
  <2>1. PICK s : CallGoesOn(c, s)
    BY <1>2, ServeGoesOn
  <2>2. stage'[c] = s /\ \A d \in Client \ {c} : stage'[d] = stage[d]
    BY <2>1, OthersOf DEF CallGoesOn
  <2> QED
    BY <2>1, <2>2 DEF CallGoesOn
<1>3. ASSUME NEW i \in Inum, LockStep(i) PROVE Goal
  BY <1>1, <1>3 DEF LockStep, Grant, Wants, FlushForRelease, Release, requestVars
<1> QED
  BY <1>1, <1>2, <1>3 DEF DirectoryStep, EnterAgain

\* What a lookup gets is what the directory lists.
LEMMA LookupGets ==
    ASSUME DInv, DInv', TypeInv, NameInv, NEW c \in Client, GetStep(c), req[c].op = "lookup"
    PROVE  /\ req[c].ino \in Directories /\ req[c].ino \in Inum
           /\ buf'[c] = Listing(req[c].ino)
           /\ UNCHANGED server
           /\ \A d \in Inum : Listing(d)' = Listing(d)
<1>1. stage[c] = "get" /\ Get(c, ino[c]) /\ buf'[c] = DataOf(c)
  BY DEF GetStep, DInv, RequestShapes
<1>2. PICK i : i = ino[c]
  OBVIOUS
<1>3. i \in Inum /\ i = req[c].ino /\ RequestFits(c)
  BY <1>1, <1>2, RequestUnderWay DEF NamedCalls
<1>4. server[i].type = T_DIR
  BY <1>3 DEF RequestFits, FitsInode, NoRequest, MountRequest, OnDirectory
<1>5. i \in Directories /\ ~Removed(c, i)
  BY <1>3, <1>4 DEF Directories, NameInv, RemovedIsLeaving
<1>6. UNCHANGED server /\ table'[c][i] = Entry(c, i)
  BY <1>1, <1>2, <1>3, GetFetches DEF DInv
<1>7. SameNames
  BY <1>1, <1>2, <1>3, GetNames
<1>8. PICK l : l = Contents(i)'
  OBVIOUS
<1>9. HeldAs(i, Contents(i))'
  BY <1>3, HeldOnceAfter DEF HeldAsContents
<1>10. (HasData(c, i) => table[c][i].data = Contents(i))'
  BY <1>9 DEF HeldAs
<1>11. HasData(c, i)'
  <2>1. table[c][i].m_state \in States
    BY <1>3 DEF DInv, Shapes
  <2>2. Entry(c, i).m_state \in {"UPDATE", "MODIFIED"}
    BY <1>5, <2>1 DEF Entry, Fetched, Removed, States
  <2> QED
    BY <1>6, <2>2 DEF HasData
<1>12. buf'[c] = l
  <2>1. table'[c][i].data = l
    BY <1>8, <1>10, <1>11
  <2> QED
    BY <1>1, <1>2, <1>5, <1>6, <2>1 DEF DataOf
<1>13. Listing(i)' = Listing(i)
  BY <1>3, <1>7 DEF SameNames
<1>14. Listing(i)' = l
  <2>1. (i \in Directories)'
    BY <1>3, <1>4, <1>6 DEF Directories
  <2> QED
    BY <1>8, <2>1 DEF Listing
<1> QED
  BY <1>3, <1>5, <1>6, <1>7, <1>12, <1>13, <1>14 DEF SameNames

\* A lookup in a directory goes on from the attributes to the data.
LEMMA LookupGoesOn ==
    ASSUME DInv, TypeInv, NameInv, AnswerInv', NEW c \in Client, GetattrStep(c),
           req[c].op = "lookup"
    PROVE  stage'[c] \notin LookedUpCalls
<1>1. PICK i, a, s : /\ i = ino[c] /\ a = Attr(c, i)
                     /\ s = IF ~Removed(c, i) /\ (req[c].op = "setattr" \/ a.type = T_DIR)
                              THEN "get" ELSE "unlock"
  OBVIOUS
<1>2. /\ stage[c] = "getattr" /\ Proceed(c, s) /\ attr' = [attr EXCEPT ![c] = AttrOf(a)]
      /\ UNCHANGED req
  BY <1>1 DEF GetattrStep
<1>3. i \in Inum /\ i = req[c].ino /\ RequestFits(c)
  BY <1>1, <1>2, RequestUnderWay DEF NamedCalls
<1>4. server[i].type = T_DIR
  BY <1>3 DEF RequestFits, FitsInode, NoRequest, MountRequest, OnDirectory
<1>5. ~Removed(c, i)
  BY <1>3, <1>4 DEF NameInv, RemovedIsLeaving
<1>6. stage'[c] = s /\ attr'[c].type = a.type
  BY <1>2, OthersOf DEF TypeInv, AttrOf
<1>7. stage'[c] \in {"get", "unlock"} /\ req'[c].op = "lookup" => attr'[c].type = T_DIR
  BY DEF AnswerInv, Answers
<1> QED
  BY <1>1, <1>2, <1>5, <1>6, <1>7 DEF LookedUpCalls, StatCalls

-----------------------------------------------------------------------------
\* What a process is at follows it from step to step.
SameProcess(q) == proc'[q] = proc[q] /\ scenario' = scenario

LEMMA ProcessFrame ==
    ASSUME NEW q \in Process, SameProcess(q)
    PROVE  /\ CallOf(q)' = CallOf(q) /\ PartOf(q)' = PartOf(q) /\ MountOf(q)' = MountOf(q)
           /\ RequestOf(q)' = RequestOf(q) /\ EntryOf(q)' = EntryOf(q)
           /\ LockedDirectory(q)' <=> LockedDirectory(q)
           /\ IsAboutToMake(q)' <=> IsAboutToMake(q)
           /\ HasOpened(q)' <=> HasOpened(q)
           /\ Program(q)' = Program(q)
<1>1. CallOf(q)' = CallOf(q) /\ Program(q)' = Program(q)
  BY DEF SameProcess, CallOf, Program
<1>2. PartOf(q)' = PartOf(q) /\ MountOf(q)' = MountOf(q)
  BY <1>1 DEF SameProcess, PartOf, MountOf
<1>3. RequestOf(q)' = RequestOf(q)
  BY <1>1, <1>2 DEF SameProcess, RequestOf
<1>4. EntryOf(q)' = EntryOf(q)
  BY <1>1 DEF SameProcess, EntryOf
<1>5. LockedDirectory(q)' <=> LockedDirectory(q)
  BY <1>1, <1>2 DEF SameProcess, LockedDirectory
<1>6. (IsAboutToMake(q)' <=> IsAboutToMake(q)) /\ (HasOpened(q)' <=> HasOpened(q))
  BY <1>1 DEF SameProcess, IsAboutToMake, HasOpened
<1> QED
  BY <1>1, <1>2, <1>3, <1>4, <1>5, <1>6

LEMMA PlaceStays ==
    ASSUME TypesStay, ProcessInv, NEW q \in Process, SameProcess(q)
    PROVE  IsAt(q)'
<1>1. IsAt(q) /\ proc[q] \in ProcessState
  BY ProgramsAre DEF ProcessInv
<1>2. /\ CallOf(q)' = CallOf(q) /\ Program(q)' = Program(q)
      /\ HasOpened(q)' <=> HasOpened(q)
      /\ proc'[q] = proc[q]
  BY ProcessFrame DEF SameProcess
<1>3. ASSUME NEW i \in Inum, server[i].type \in {T_DIR, T_FILE, T_SYMLK}
      PROVE  server'[i].type = server[i].type
  BY <1>3 DEF TypesStay, Exists, T_DIR, T_FILE, T_SYMLK
<1>4. /\ server[proc[q].dir].type = T_DIR => server'[proc[q].dir].type = T_DIR
      /\ server[proc[q].file].type = T_FILE => server'[proc[q].file].type = T_FILE
      /\ server[proc[q].file].type = T_SYMLK => server'[proc[q].file].type = T_SYMLK
      /\ server[proc[q].fd.ino].type = T_FILE => server'[proc[q].fd.ino].type = T_FILE
  BY <1>1, <1>3 DEF ProcessState, Files
<1> QED
  BY <1>1, <1>2, <1>4 DEF IsAt

\* A step that changes neither names nor what the process waits for.
LEMMA KnowledgeStays ==
    ASSUME TypeInv, ProcessInv, NEW q \in Process, SameProcess(q),
           UNCHANGED server, \A d \in Inum : Listing(d)' = Listing(d),
           proc[q].sent => /\ stage'[MountOf(q)] = stage[MountOf(q)]
                           /\ req'[MountOf(q)] = req[MountOf(q)]
                           /\ buf'[MountOf(q)] = buf[MountOf(q)]
    PROVE  KnowsNew(q)' /\ KnowsFile(q)'
<1>1. PICK m, e, call : m = MountOf(q) /\ e = EntryOf(q) /\ call = CallOf(q)
  OBVIOUS
<1>2. /\ MountOf(q)' = m /\ EntryOf(q)' = e /\ CallOf(q)' = call
      /\ LockedDirectory(q)' <=> LockedDirectory(q)
      /\ IsAboutToMake(q)' <=> IsAboutToMake(q)
      /\ proc'[q] = proc[q]
  BY <1>1, ProcessFrame DEF SameProcess
<1>3. /\ HasLookedUp(q)' <=> HasLookedUp(q)
      /\ HasLookedUp(q) => /\ NameFound(q)' <=> NameFound(q)
                           /\ FoundFile(q)' <=> FoundFile(q)
  BY <1>1, <1>2 DEF HasLookedUp, NameFound, FoundFile
<1>4. FoundFile(q)' <=> FoundFile(q)
  BY <1>3 DEF FoundFile
<1>5. e.ino \in Inum
  BY <1>1, ProgramsAre DEF EntryOf, ProcessState
<1>6. PICK l : l = Listing(e.ino)
  OBVIOUS
<1>7. Listing(e.ino)' = l
  BY <1>5, <1>6
<1>8. (NameIsNew(e)' <=> NameIsNew(e)) /\ (UnlinksFiles(e)' <=> UnlinksFiles(e))
  BY <1>6, <1>7 DEF NameIsNew, UnlinksFiles
<1>9. (NameIsNew(EntryOf(q))' <=> NameIsNew(e)') /\ (UnlinksFiles(EntryOf(q))' <=> UnlinksFiles(e)')
  BY <1>2 DEF NameIsNew, UnlinksFiles
<1>10. KnowsNew(q) /\ KnowsFile(q)
  BY DEF ProcessInv
<1>11. KnowsNew(q)'
  BY <1>1, <1>2, <1>3, <1>8, <1>9, <1>10 DEF KnowsNew
<1>12. KnowsFile(q)'
  BY <1>1, <1>2, <1>4, <1>8, <1>9, <1>10 DEF KnowsFile
<1> QED
  BY <1>11, <1>12

-----------------------------------------------------------------------------
\* What a process knows of its name, while clients serve.
LEMMA NewEntries ==
    ASSUME DInv, DInv', TypeInv, NameInv, NEW c \in Client, PutStep(c),
           req[c].op \in Making \cup {"unlink"}, NEW d \in Inum
    PROVE  \A k \in DOMAIN Listing(d)' :
              \/ \E m \in DOMAIN Listing(d) : Listing(d)'[k] = Listing(d)[m]
              \/ /\ d = req[c].ino /\ req[c].op \in Making
                 /\ Listing(d)'[k].name = req[c].name /\ Listing(d)'[k].inum = made[c]
<1>1. /\ stage[c] = "put"
      /\ Listing(ino[c])' = NewData(c)
      /\ UNCHANGED ino
      /\ \A j \in Inum \ {ino[c]} : Listing(j)' = Listing(j)
  BY PutsListing
<1>2. PICK m, n, l, w : m = made[c] /\ n = req[c].name /\ l = Listing(d) /\ w = Listing(d)'
  OBVIOUS
<1>3. CASE d # ino[c]
  BY <1>1, <1>3
<1>4. CASE d = ino[c]
  <2>1. d \in Directories /\ d = req[c].ino /\ buf[c] = l /\ n \in Name
    BY <1>1, <1>2, <1>4, BufferIsListing
  <2>2. m \in Inum /\ l \in Seq(Entries) /\ w = NewData(c)
    BY <1>1, <1>2, <1>4, <2>1, ListingFits DEF TypeInv
  <2>3. CASE req[c].op \in Making
    <3>1. w = AddEntry(l, n, m)
      BY <1>2, <2>1, <2>2, <2>3 DEF NewData, Making
    <3>2. OneMore(w, l, Len(l) + 1, n, m)
      BY <2>1, <2>2, <3>1, AddedEntry
    <3> QED
      BY <1>2, <2>1, <2>3, <3>2 DEF OneMore
  <2>4. CASE req[c].op = "unlink"
    <3>1. w = WithoutName(l, n)
      BY <1>2, <2>1, <2>2, <2>4 DEF NewData
    <3> QED
      BY <1>2, <2>2, <3>1, KeptEntries
  <2> QED
    BY <2>3, <2>4
<1> QED
  BY <1>3, <1>4

\* Nobody makes the name that a process has looked up to make, nor a directory of the one
\* that it has looked up to unlink.
LEMMA NobodyInterferes ==
    ASSUME TypeInv, ProcessInv, IsOrderly, NEW q \in Process,
           LockedDirectory(q), CallOf(q).op \notin Local, IsAboutToMake(q) \/ HasLookedUp(q),
           NEW c \in Client, req[c].op \in Making,
           req[c].ino = proc[q].dir, req[c].name = CallOf(q).name
    PROVE  CallOf(q).op = "unlink" /\ ~(req[c].op = "create" /\ req[c].type = T_DIR)
<1>1. req[c].op \notin {"none", "mount"}
  BY DEF Making
<1>2. PICK e \in Process : /\ proc[e].sent /\ MountOf(e) = c /\ req[c] = RequestOf(e)
                           /\ proc[e].status = "running" /\ CallOf(e).op \notin Local
  BY <1>1, WhoIsServed
<1>3. /\ PartOf(e) = "make" /\ proc[e].part = "make" /\ LockedDirectory(e)
      /\ proc[e].dir = proc[q].dir /\ CallOf(e).name = CallOf(q).name
      /\ CallOf(e).op \in Makes
      /\ RequestOf(e).op = "create" /\ RequestOf(e).type = T_DIR => CallOf(e).op = "mkdir"
  BY <1>2, WhoChangesNames DEF TypeInv
<1>4. e # q
  BY <1>2, <1>3 DEF IsAboutToMake, HasLookedUp
<1>5. MountOf(e) # MountOf(q)
  BY <1>3, <1>4 DEF ProcessInv, LockedOnce
<1>6. ~Contend(q, e)
  BY <1>4 DEF IsOrderly
<1>7. CallOf(q).op = "unlink" /\ CallOf(e).op # "mkdir"
  BY <1>3, <1>5, <1>6 DEF Contend
<1> QED
  BY <1>2, <1>3, <1>7

\* A process that waits for a lookup of its name.
LEMMA LooksUp ==
    ASSUME TypeInv, ProcessInv, NEW q \in Process, proc[q].sent, proc[q].part = "entry"
    PROVE  /\ MountOf(q) \in Client /\ req[MountOf(q)].op = "lookup"
           /\ req[MountOf(q)].ino = EntryOf(q).ino /\ req[MountOf(q)].name = EntryOf(q).name
           /\ DataFit(T_DIR, buf[MountOf(q)])
<1>1. /\ proc[q].status = "running" /\ PartOf(q) = "entry" /\ CallOf(q).op \notin Local
      /\ req[MountOf(q)] = RequestOf(q)
  BY WhoHasSent
<1>2. MountOf(q) \in Client
  BY <1>1, MountIsClient
<1>3. RequestOf(q) = LookupRequest(proc[q].dir, CallOf(q).name)
  BY <1>1, RequestIs DEF RequestSuits, TypeInv
<1> QED
  BY <1>1, <1>2, <1>3 DEF LookupRequest, EntryOf, TypeInv, RequestFits

\* The lookup was over before, or it has just got what the directory lists.
LEMMA LookupIsOver ==
    ASSUME DInv, DInv', TypeInv, NameInv, AnswerInv', ProcessInv, DirectoryStep,
           NEW q \in Process, SameProcess(q), HasLookedUp(q)'
    PROVE  /\ proc[q].part = "entry" /\ proc[q].sent /\ UNCHANGED req
           /\ \/ HasLookedUp(q) /\ buf'[MountOf(q)] = buf[MountOf(q)]
              \/ /\ buf'[MountOf(q)] = Listing(EntryOf(q).ino)
                 /\ UNCHANGED server
                 /\ \A d \in Inum : Listing(d)' = Listing(d)
<1>1. PICK m : m = MountOf(q)
  OBVIOUS
<1>2. MountOf(q)' = m /\ proc'[q] = proc[q]
  BY <1>1, ProcessFrame DEF SameProcess
<1>3. proc[q].part = "entry" /\ proc[q].sent /\ stage'[m] \in LookedUpCalls
  BY <1>2 DEF HasLookedUp, LookedUpCalls
<1>4. m \in Client /\ req[m].op = "lookup" /\ req[m].ino = EntryOf(q).ino
  BY <1>1, <1>3, LooksUp
<1>5. UNCHANGED req
  BY ServingGoesOn
<1>6. \/ stage[m] \in LookedUpCalls /\ buf'[m] = buf[m]
      \/ GetStep(m)
      \/ GetattrStep(m)
  BY <1>3, <1>4, ServingGoesOn
<1>7. ~GetattrStep(m)
  BY <1>3, <1>4, LookupGoesOn
<1>8. CASE GetStep(m)
  BY <1>1, <1>3, <1>4, <1>5, <1>8, LookupGets
<1>9. CASE stage[m] \in LookedUpCalls /\ buf'[m] = buf[m]
  BY <1>1, <1>3, <1>5, <1>9 DEF HasLookedUp, LookedUpCalls
<1> QED
  BY <1>6, <1>7, <1>8, <1>9

LEMMA NewStaysNew ==
    ASSUME DInv, DInv', TypeInv, NameInv, ProcessInv, IsOrderly, [KernelNext]_directoryVars,
           NEW q \in Process, SameProcess(q), LockedDirectory(q), CallOf(q).op \in Makes,
           IsAboutToMake(q) \/ HasLookedUp(q), NameIsNew(EntryOf(q))
    PROVE  NameIsNew(EntryOf(q))'
<1>1. PICK i, n, l, w : /\ i = EntryOf(q).ino /\ n = EntryOf(q).name
                        /\ l = Listing(i) /\ w = Listing(i)'
  OBVIOUS
<1>2. i \in Inum /\ i = proc[q].dir /\ n = CallOf(q).name
  BY <1>1, ProgramsAre DEF EntryOf, ProcessState
<1>3. \A k \in DOMAIN l : l[k].name # n
  BY <1>1 DEF NameIsNew, IsFound, Matches
<1>4. \A k \in DOMAIN w : w[k].name # n
  <2>1. CASE w = l
    BY <1>3, <2>1
  <2>2. ASSUME NEW c \in Client, PutStep(c), req[c].op \in Making \cup {"unlink"}
        PROVE  \A k \in DOMAIN w : w[k].name # n
    <3>1. \A k \in DOMAIN w :
             \/ \E m \in DOMAIN l : w[k] = l[m]
             \/ i = req[c].ino /\ req[c].op \in Making /\ w[k].name = req[c].name
      BY <1>1, <1>2, <2>2, NewEntries
    <3>2. CallOf(q).op \notin Local /\ CallOf(q).op # "unlink"
      BY DEF Makes, Local
    <3>3. ~(req[c].op \in Making /\ req[c].ino = i /\ req[c].name = n)
      BY <1>2, <3>2, NobodyInterferes
    <3> QED
      BY <1>3, <3>1, <3>3
  <2> QED
    BY <1>1, <1>2, <2>1, <2>2, ListingsChange
<1>5. EntryOf(q)' = EntryOf(q)
  BY ProcessFrame
<1>6. PICK e : e = EntryOf(q)
  OBVIOUS
<1>7. EntryOf(q)' = e /\ e.name = n /\ Listing(e.ino)' = w
  BY <1>1, <1>5, <1>6
<1> QED
  BY <1>4, <1>7 DEF NameIsNew, IsFound, Matches

LEMMA FilesStayFiles ==
    ASSUME DInv, DInv', TypeInv, NameInv, ProcessInv, IsOrderly, TypesStay,
           [KernelNext]_directoryVars, NEW q \in Process, SameProcess(q), LockedDirectory(q),
           CallOf(q).op = "unlink", IsAboutToMake(q) \/ HasLookedUp(q), UnlinksFiles(EntryOf(q))
    PROVE  UnlinksFiles(EntryOf(q))'
<1>1. PICK i, n, l, w : /\ i = EntryOf(q).ino /\ n = EntryOf(q).name
                        /\ l = Listing(i) /\ w = Listing(i)'
  OBVIOUS
<1>2. i \in Inum /\ i = proc[q].dir /\ n = CallOf(q).name
  BY <1>1, ProgramsAre DEF EntryOf, ProcessState
<1>3. ASSUME NEW k \in DOMAIN l, l[k].name = n PROVE server'[l[k].inum].type # T_DIR
  <2>1. l[k].inum \in Listed(i) /\ l[k].inum \in MatchingInums(l, n)
    BY <1>1, <1>3 DEF Listed, MatchingInums, Matches
  <2>2. l[k].inum \in Inum /\ Exists(l[k].inum)
    BY <1>2, <2>1, ListingFits
  <2>3. server[l[k].inum].type # T_DIR
    BY <1>1, <2>1 DEF UnlinksFiles
  <2> QED
    BY <2>2, <2>3 DEF TypesStay
<1>4. ASSUME NEW k \in DOMAIN w, w[k].name = n PROVE server'[w[k].inum].type # T_DIR
  <2>1. CASE w = l
    BY <1>3, <1>4, <2>1
  <2>2. ASSUME NEW c \in Client, PutStep(c), req[c].op \in Making \cup {"unlink"}
        PROVE  server'[w[k].inum].type # T_DIR
    <3>1. \/ \E m \in DOMAIN l : w[k] = l[m]
          \/ /\ i = req[c].ino /\ req[c].op \in Making
             /\ w[k].name = req[c].name /\ w[k].inum = made[c]
      BY <1>1, <1>2, <2>2, NewEntries
    <3>2. CASE \E m \in DOMAIN l : w[k] = l[m]
      BY <1>3, <1>4, <3>2
    <3>3. CASE /\ i = req[c].ino /\ req[c].op \in Making
               /\ w[k].name = req[c].name /\ w[k].inum = made[c]
      <4>1. CallOf(q).op \notin Local
        BY DEF Local
      <4>2. ~(req[c].op = "create" /\ req[c].type = T_DIR)
        BY <1>2, <1>4, <3>3, <4>1, NobodyInterferes
      <4>3. RequestFits(c) /\ stage[c] = "put"
        BY <2>2 DEF TypeInv, PutStep
      <4>4. server[made[c]].type = req[c].type /\ req[c].type \in Types /\ req[c].type # T_DIR
        BY <3>3, <4>2, <4>3, TypesDiffer
           DEF RequestFits, HasArguments, Making, Types, NoRequest, MountRequest
      <4>5. made[c] \in Inum /\ Exists(made[c])
        BY <4>4 DEF TypeInv, Exists, Types, T_DIR, T_FILE, T_SYMLK
      <4> QED
        BY <3>3, <4>4, <4>5 DEF TypesStay
    <3> QED
      BY <3>1, <3>2, <3>3
  <2> QED
    BY <1>1, <1>2, <2>1, <2>2, ListingsChange
<1>5. EntryOf(q)' = EntryOf(q)
  BY ProcessFrame
<1>6. PICK e : e = EntryOf(q)
  OBVIOUS
<1>7. EntryOf(q)' = e /\ e.name = n /\ Listing(e.ino)' = w
  BY <1>1, <1>5, <1>6
<1> QED
  BY <1>4, <1>7 DEF UnlinksFiles, MatchingInums, Matches

LEMMA ServingKnowsNew ==
    ASSUME DInv, DInv', TypeInv, NameInv, AnswerInv', ProcessInv, IsOrderly, DirectoryStep,
           NEW q \in Process, SameProcess(q)
    PROVE  KnowsNew(q)'
<1>1. PICK m, call : m = MountOf(q) /\ call = CallOf(q)
  OBVIOUS
<1>2. /\ MountOf(q)' = m /\ CallOf(q)' = call /\ EntryOf(q)' = EntryOf(q)
      /\ LockedDirectory(q)' <=> LockedDirectory(q)
      /\ IsAboutToMake(q)' <=> IsAboutToMake(q)
  BY <1>1, ProcessFrame
<1> SUFFICES ASSUME LockedDirectory(q), call.op \in Makes,
                    IsAboutToMake(q) \/ (HasLookedUp(q)' /\ ~NameFound(q)')
             PROVE  NameIsNew(EntryOf(q))'
  BY <1>2 DEF KnowsNew
<1>3. KnowsNew(q)
  BY DEF ProcessInv
<1>4. ASSUME NameIsNew(EntryOf(q)), IsAboutToMake(q) \/ HasLookedUp(q)
      PROVE  NameIsNew(EntryOf(q))'
  BY <1>1, <1>4, NewStaysNew DEF KernelNext
<1>5. CASE IsAboutToMake(q)
  BY <1>1, <1>3, <1>4, <1>5 DEF KnowsNew
<1>6. CASE HasLookedUp(q)' /\ ~NameFound(q)'
  <2>1. /\ proc[q].part = "entry" /\ proc[q].sent /\ UNCHANGED req
        /\ \/ HasLookedUp(q) /\ buf'[m] = buf[m]
           \/ /\ buf'[m] = Listing(EntryOf(q).ino)
              /\ \A d \in Inum : Listing(d)' = Listing(d)
    BY <1>1, <1>6, LookupIsOver
  <2>2. req[m].name = EntryOf(q).name
    BY <1>1, <2>1, LooksUp
  <2>3. ~IsFound(buf'[m], EntryOf(q).name)
    <3>1. ~IsFound(buf[m], req[m].name)'
      BY <1>2, <1>6 DEF NameFound, IsFound, Matches
    <3> QED
      BY <2>1, <2>2, <3>1 DEF IsFound, Matches
  <2>4. CASE HasLookedUp(q) /\ buf'[m] = buf[m]
    <3>1. ~NameFound(q)
      BY <1>1, <2>2, <2>3, <2>4 DEF NameFound
    <3> QED
      BY <1>1, <1>3, <1>4, <2>4, <3>1 DEF KnowsNew
  <2>5. CASE buf'[m] = Listing(EntryOf(q).ino) /\ \A d \in Inum : Listing(d)' = Listing(d)
    <3>1. PICK e : e = EntryOf(q)
      OBVIOUS
    <3>2. EntryOf(q)' = e /\ e.ino \in Inum
      BY <1>2, <3>1, ProgramsAre DEF EntryOf, ProcessState
    <3>3. Listing(e.ino)' = buf'[m]
      BY <2>5, <3>1, <3>2
    <3> QED
      BY <2>3, <3>1, <3>2, <3>3 DEF NameIsNew, IsFound, Matches
  <2> QED
    BY <2>1, <2>4, <2>5
<1> QED
  BY <1>5, <1>6

\* In a directory where no name is twice, the inode of a name is the one that lookup finds.
LEMMA FoundIsTheOne ==
    ASSUME NEW d \in Seq(Entries), NoDuplicates(d), NEW n, NEW k \in DOMAIN d, d[k].name = n
    PROVE  d[k].inum = FoundInum(d, n)
<1>1. IsFound(d, n)
  BY DEF IsFound, Matches
<1>2. PICK j \in DOMAIN d : d[j].name = n /\ FoundInum(d, n) = d[j].inum
  BY <1>1, FoundIsListed
<1> QED
  BY <1>2 DEF NoDuplicates

LEMMA ServingKnowsFile ==
    ASSUME DInv, DInv', TypeInv, NameInv, AnswerInv, AnswerInv', ProcessInv, IsOrderly, TypesStay,
           DirectoryStep, NEW q \in Process, SameProcess(q)
    PROVE  KnowsFile(q)'
<1>1. PICK m, call : m = MountOf(q) /\ call = CallOf(q)
  OBVIOUS
<1>2. /\ MountOf(q)' = m /\ CallOf(q)' = call /\ EntryOf(q)' = EntryOf(q)
      /\ LockedDirectory(q)' <=> LockedDirectory(q)
      /\ IsAboutToMake(q)' <=> IsAboutToMake(q)
  BY <1>1, ProcessFrame
<1> SUFFICES ASSUME LockedDirectory(q), call.op = "unlink", IsAboutToMake(q) \/ FoundFile(q)'
             PROVE  UnlinksFiles(EntryOf(q))'
  BY <1>2 DEF KnowsFile
<1>3. KnowsFile(q)
  BY DEF ProcessInv
<1>4. ASSUME UnlinksFiles(EntryOf(q)), IsAboutToMake(q) \/ HasLookedUp(q)
      PROVE  UnlinksFiles(EntryOf(q))'
  BY <1>1, <1>4, FilesStayFiles DEF KernelNext
<1>5. CASE IsAboutToMake(q)
  BY <1>1, <1>3, <1>4, <1>5 DEF KnowsFile
<1>6. CASE FoundFile(q)'
  <2>1. PICK b, n, i : b = buf'[m] /\ n = EntryOf(q).name /\ i = EntryOf(q).ino
    OBVIOUS
  <2>2. /\ proc[q].part = "entry" /\ proc[q].sent /\ UNCHANGED req
        /\ \/ HasLookedUp(q) /\ b = buf[m]
           \/ /\ b = Listing(i)
              /\ UNCHANGED server
              /\ \A d \in Inum : Listing(d)' = Listing(d)
    BY <1>1, <1>6, <2>1, LookupIsOver DEF FoundFile
  <2>3. m \in Client /\ req[m].name = n /\ DataFit(T_DIR, buf[m])
    BY <1>1, <2>1, <2>2, LooksUp
  <2>4. call.name = n
    BY <1>1, <2>1 DEF EntryOf
  <2>5. IsFound(b, n) /\ server'[FoundInum(b, n)].type # T_DIR
    <3>1. NameFound(q)' /\ server'[FoundInum(buf'[m], call.name)].type # T_DIR
      BY <1>2, <1>6 DEF FoundFile
    <3>2. IsFound(buf[m], req[m].name)'
      BY <1>2, <3>1 DEF NameFound, IsFound, Matches
    <3> QED
      BY <2>1, <2>2, <2>3, <2>4, <3>1, <3>2 DEF IsFound, Matches
  <2>6. CASE HasLookedUp(q) /\ b = buf[m]
    <3>1. b \in Seq(Entries) /\ \A k \in DOMAIN b : Exists(b[k].inum)
      BY <2>3, <2>6 DEF DataFit
    <3>2. PICK k \in DOMAIN b : FoundInum(b, n) = b[k].inum
      BY <2>5, <3>1, FoundIsListed
    <3>3. b[k].inum \in Inum /\ Exists(b[k].inum)
      BY <3>1, EntriesOfDirectory
    <3>4. server[FoundInum(b, n)].type # T_DIR
      BY <2>5, <3>2, <3>3 DEF TypesStay
    <3>5. FoundFile(q)
      BY <1>1, <2>3, <2>4, <2>5, <2>6, <3>4 DEF FoundFile, NameFound
    <3> QED
      BY <1>1, <1>3, <1>4, <2>6, <3>5 DEF KnowsFile
  <2>7. CASE b = Listing(i) /\ UNCHANGED server /\ \A d \in Inum : Listing(d)' = Listing(d)
    <3>1. i \in Inum
      BY <2>1, ProgramsAre DEF EntryOf, ProcessState
    <3>2. b \in Seq(Entries) /\ NoDuplicates(b)
      BY <2>7, <3>1, ListingFits, UniqueEverywhere DEF AnswerInv
    <3>3. ASSUME NEW k \in DOMAIN b, b[k].name = n PROVE server'[b[k].inum].type # T_DIR
      BY <2>5, <3>2, <3>3, FoundIsTheOne
    <3>4. PICK e : e = EntryOf(q)
      OBVIOUS
    <3>5. EntryOf(q)' = e /\ e.name = n /\ Listing(e.ino)' = b
      BY <1>2, <2>1, <2>7, <3>1, <3>4
    <3> QED
      BY <3>3, <3>5 DEF UnlinksFiles, MatchingInums, Matches
  <2> QED
    BY <2>2, <2>6, <2>7
<1> QED
  BY <1>5, <1>6

-----------------------------------------------------------------------------
\* Where processes are, after a step.
StaysLocked(q) ==
    LockedDirectory(q)' => /\ LockedDirectory(q)
                           /\ MountOf(q)' = MountOf(q) /\ proc'[q].dir = proc[q].dir

LEMMA LocksStayApart ==
    ASSUME ProcessInv, \A q \in Process : StaysLocked(q)
    PROVE  \A q \in Process : LockedOnce(q)'
BY DEF ProcessInv, StaysLocked, LockedOnce

LEMMA FrameLocks ==
    ASSUME NEW q \in Process, SameProcess(q)
    PROVE  StaysLocked(q)
BY ProcessFrame DEF SameProcess, StaysLocked

LEMMA ServingInv ==
    ASSUME DInv, DInv', TypeInv, NameInv, AnswerInv, AnswerInv', ProcessInv, IsOrderly,
           DirectoryStep, UNCHANGED testVars
    PROVE  ProcessInv'
<1>1. scenario' = scenario /\ proc' = proc /\ UNCHANGED req
  BY ServingGoesOn DEF testVars
<1>2. \A q \in Process : SameProcess(q)
  BY <1>1 DEF SameProcess
<1>3. TypesStay
  BY KernelKeepsTypes DEF KernelNext
<1>4. ASSUME NEW q \in Process
      PROVE  IsAt(q)' /\ Waits(q)' /\ KnowsNew(q)' /\ KnowsFile(q)'
  <2>1. IsAt(q)' /\ KnowsNew(q)' /\ KnowsFile(q)'
    BY <1>2, <1>3, PlaceStays, ServingKnowsNew, ServingKnowsFile
  <2>2. ASSUME proc[q].sent
        PROVE  /\ stage'[MountOf(q)] # "idle" /\ req'[MountOf(q)] = RequestOf(q)
               /\ \A p \in Process \ {q} : proc[p].sent => MountOf(p) # MountOf(q)
    BY <1>1, <2>2, WhoHasSent, MountIsClient, ServingGoesOn
  <2>3. Waits(q)'
    BY <1>1, <1>2, <2>2, ProcessFrame DEF Waits
  <2> QED
    BY <2>1, <2>3
<1>5. \A q \in Process : LockedOnce(q)'
  BY <1>2, FrameLocks, LocksStayApart
<1>6. ASSUME NEW c \in Client PROVE IsServed(c)'
  <2>1. IsServed(c) /\ \A q \in Process : MountOf(q)' = MountOf(q)
    BY <1>2, ProcessFrame DEF ProcessInv
  <2> QED
    BY <1>1, <2>1 DEF IsServed
<1>7. scenario' \in Scenarios /\ proc' \in [Process -> ProcessState]
  BY <1>1 DEF ProcessInv
<1> QED
  BY <1>4, <1>5, <1>6, <1>7 DEF ProcessInv

\* A process that has come to another part of its program, without a request.
Settled(q) ==
    /\ ~proc'[q].sent
    /\ IsAt(q)' /\ KnowsNew(q)' /\ KnowsFile(q)'
    /\ StaysLocked(q)

\* Processes that wait are not disturbed, the others have settled.
LEMMA ProcessesGoOn ==
    ASSUME DInv, TypeInv, ProcessInv, scenario' = scenario, proc' \in [Process -> ProcessState],
           UNCHANGED server, \A d \in Inum : Listing(d)' = Listing(d),
           \A q \in Process : SameProcess(q) \/ Settled(q),
           \A q \in Process : proc'[q].sent => /\ stage'[MountOf(q)] = stage[MountOf(q)]
                                               /\ req'[MountOf(q)] = req[MountOf(q)]
                                               /\ buf'[MountOf(q)] = buf[MountOf(q)],
           \A c \in Client : req'[c].op \notin {"none", "mount"} =>
              \E q \in Process : proc[q].sent /\ SameProcess(q) /\ MountOf(q) = c
    PROVE  ProcessInv'
<1>1. TypesStay
  BY DEF TypesStay
<1>2. ASSUME NEW q \in Process, proc'[q].sent
      PROVE  SameProcess(q) /\ proc[q].sent /\ MountOf(q)' = MountOf(q)
  <2>1. SameProcess(q)
    BY <1>2 DEF Settled
  <2> QED
    BY <1>2, <2>1, ProcessFrame DEF SameProcess
<1>3. ASSUME NEW q \in Process PROVE IsAt(q)' /\ KnowsNew(q)' /\ KnowsFile(q)' /\ StaysLocked(q)
  <2>1. CASE Settled(q)
    BY <2>1 DEF Settled
  <2>2. CASE SameProcess(q)
    <3>1. proc'[q] = proc[q]
      BY <2>2 DEF SameProcess
    <3> QED
      BY <1>1, <2>2, <3>1, PlaceStays, KnowledgeStays, FrameLocks
  <2> QED
    BY <2>1, <2>2
<1>4. ASSUME NEW q \in Process PROVE Waits(q)'
  <2>1. ASSUME proc'[q].sent
        PROVE  /\ stage'[MountOf(q)'] # "idle"
               /\ req'[MountOf(q)'] = RequestOf(q)'
               /\ \A p \in Process \ {q} : proc'[p].sent => MountOf(p)' # MountOf(q)'
    <3>1. SameProcess(q) /\ proc[q].sent /\ MountOf(q)' = MountOf(q)
      BY <1>2, <2>1
    <3>2. /\ stage[MountOf(q)] # "idle" /\ req[MountOf(q)] = RequestOf(q)
          /\ \A p \in Process \ {q} : proc[p].sent => MountOf(p) # MountOf(q)
      BY <3>1, WhoHasSent
    <3>3. RequestOf(q)' = RequestOf(q)
      BY <3>1, ProcessFrame
    <3> QED
      BY <1>2, <2>1, <3>1, <3>2, <3>3
  <2> QED
    BY <2>1 DEF Waits
<1>5. \A q \in Process : LockedOnce(q)'
  BY <1>3, LocksStayApart
<1>6. ASSUME NEW c \in Client PROVE IsServed(c)'
  BY ProcessFrame DEF IsServed, SameProcess
<1>7. scenario' \in Scenarios
  BY DEF ProcessInv
<1> QED
  BY <1>3, <1>4, <1>5, <1>6, <1>7 DEF ProcessInv

LEMMA TakesUp ==
    ASSUME DInv, TypeInv, NEW c \in Client, NEW r, Take(c, r)
    PROVE  /\ stage[c] = "idle" /\ req'[c] = r /\ stage'[c] \in {"isdir", "typed", "lock"}
           /\ r.op = "lookup" => stage'[c] = "lock"
           /\ \A d \in Client \ {c} : stage'[d] = stage[d] /\ req'[d] = req[d]
           /\ UNCHANGED <<buf, server>>
           /\ \A d \in Inum : Listing(d)' = Listing(d)
<1>1. /\ stage[c] = "idle" /\ req' = [req EXCEPT ![c] = r]
      /\ UNCHANGED <<extentTableVars, buf>>
  BY DEF Take
<1>2. PICK s \in {"isdir", "typed", "lock"} : Proceed(c, s) /\ (r.op = "lookup" => s = "lock")
  BY DEF Take
<1>3. stage'[c] = s /\ \A d \in Client \ {c} : stage'[d] = stage[d]
  BY <1>2, OthersOf
<1>4. \A d \in Inum : Listing(d)' = Listing(d)
  BY <1>1, QuietNames DEF SameNames
<1> QED
  BY <1>1, <1>2, <1>3, <1>4 DEF extentTableVars, DInv, RequestShapes

LEMMA Replies ==
    ASSUME DInv, TypeInv, NEW c \in Client, Reply(c)
    PROVE  /\ stage[c] = "done" /\ req'[c] = NoRequest
           /\ \A d \in Client \ {c} : stage'[d] = stage[d] /\ req'[d] = req[d] /\ buf'[d] = buf[d]
           /\ UNCHANGED server
           /\ \A d \in Inum : Listing(d)' = Listing(d)
<1>1. /\ stage[c] = "done" /\ req' = [req EXCEPT ![c] = NoRequest]
      /\ buf' = [buf EXCEPT ![c] = <<>>] /\ Proceed(c, "idle") /\ UNCHANGED extentTableVars
  BY DEF Reply
<1>2. \A d \in Client \ {c} : stage'[d] = stage[d]
  BY <1>1, OthersOf
<1>3. \A d \in Inum : Listing(d)' = Listing(d)
  BY <1>1, QuietNames DEF SameNames
<1> QED
  BY <1>1, <1>2, <1>3 DEF extentTableVars, DInv, RequestShapes

LEMMA MountInv ==
    ASSUME DInv, TypeInv, ProcessInv, NEW c \in Client, Mount(c) \/ Mounted(c)
    PROVE  ProcessInv'
<1>1. scenario' = scenario /\ proc' = proc
  BY DEF Mount, Mounted, testVars
<1>2. \A q \in Process : SameProcess(q)
  BY <1>1 DEF SameProcess
<1>3. /\ req'[c] \in {MountRequest, NoRequest}
      /\ stage[c] = "idle" \/ req[c].op = "mount"
      /\ \A d \in Client \ {c} : stage'[d] = stage[d] /\ req'[d] = req[d] /\ buf'[d] = buf[d]
      /\ UNCHANGED server
      /\ \A d \in Inum : Listing(d)' = Listing(d)
  <2>1. CASE Mount(c)
    BY <2>1, TakesUp DEF Mount
  <2>2. CASE Mounted(c)
    BY <2>2, Replies DEF Mounted
  <2> QED
    BY <2>1, <2>2
<1>4. ASSUME NEW q \in Process, proc[q].sent PROVE MountOf(q) \in Client \ {c}
  <2>1. /\ stage[MountOf(q)] # "idle" /\ req[MountOf(q)] = RequestOf(q)
        /\ proc[q].status = "running" /\ CallOf(q).op \notin Local
    BY <1>4, WhoHasSent
  <2>2. MountOf(q) \in Client /\ FitsInode(RequestOf(q))
    BY <2>1, MountIsClient, RequestIs DEF TypeInv
  <2> QED
    BY <1>3, <2>1, <2>2 DEF FitsInode, OnDirectory, OnFile
<1>5. ASSUME NEW d \in Client, req'[d].op \notin {"none", "mount"}
      PROVE  \E q \in Process : proc[q].sent /\ SameProcess(q) /\ MountOf(q) = d
  <2>1. d # c
    BY <1>3, <1>5 DEF MountRequest, NoRequest
  <2> QED
    BY <1>2, <1>3, <1>5, <2>1 DEF ProcessInv, IsServed
<1>6. proc' \in [Process -> ProcessState]
  BY <1>1 DEF ProcessInv
<1> QED
  BY <1>1, <1>2, <1>3, <1>4, <1>5, <1>6, ProcessesGoOn

\* A process that sends the request of a part is in that part.
LEMMA SendInv ==
    ASSUME DInv, TypeInv, NameInv, ProcessInv, NEW p \in Process, Send(p)
    PROVE  ProcessInv'
<1>1. /\ proc[p].status = "running" /\ CallOf(p).op \notin Local /\ ~proc[p].sent
      /\ PartOf(p) = "entry" /\ CallOf(p).op \in Changes => MayLock(p)
      /\ Take(MountOf(p), RequestOf(p))
      /\ proc' = [proc EXCEPT ![p].sent = TRUE, ![p].part = PartOf(p)]
      /\ scenario' = scenario
  BY DEF Send
<1>2. PICK m, r, s, part : /\ m = MountOf(p) /\ r = RequestOf(p) /\ s = proc[p]
                           /\ part = PartOf(p)
  OBVIOUS
<1>3. m \in Client /\ RequestSuits(r, p) /\ FitsInode(r)
  BY <1>1, <1>2, MountIsClient, RequestIs DEF TypeInv
<1>4. s \in ProcessState /\ part \in Parts \ {"begin"} /\ PartFits(CallOf(p).op, part)
  BY <1>1, <1>2, ProgramsAre, PartIs
<1>5. proc \in [Process -> ProcessState] /\ IsAt(p)
  BY DEF ProcessInv
<1>6. proc'[p] = [s EXCEPT !.sent = TRUE, !.part = part]
  BY <1>1, <1>2, <1>5
<1>7. /\ proc'[p].status = s.status /\ proc'[p].next = s.next
      /\ proc'[p].dir = s.dir /\ proc'[p].file = s.file /\ proc'[p].fd = s.fd
      /\ proc'[p].sent /\ proc'[p].part = part /\ proc'[p] \in ProcessState
  BY <1>4, <1>6 DEF ProcessState
<1>8. proc' \in [Process -> ProcessState]
  BY <1>1, <1>5, <1>7
<1>9. \A q \in Process \ {p} : SameProcess(q)
  BY <1>1, <1>5 DEF SameProcess
<1>10. /\ CallOf(p)' = CallOf(p) /\ Program(p)' = Program(p)
       /\ HasOpened(p)' <=> HasOpened(p)
  BY <1>1, <1>2, <1>7 DEF CallOf, Program, HasOpened
<1>11. PartOf(p)' = part /\ MountOf(p)' = m
  BY <1>2, <1>4, <1>7, <1>10 DEF PartOf, MountOf
<1>12. RequestOf(p)' = r
  BY <1>2, <1>7, <1>10, <1>11 DEF RequestOf
<1>13. /\ stage[m] = "idle" /\ req'[m] = r /\ stage'[m] \in {"isdir", "typed", "lock"}
       /\ r.op = "lookup" => stage'[m] = "lock"
       /\ \A d \in Client \ {m} : stage'[d] = stage[d] /\ req'[d] = req[d]
       /\ UNCHANGED <<buf, server>>
       /\ \A d \in Inum : Listing(d)' = Listing(d)
  BY <1>1, <1>2, <1>3, TakesUp
<1>14. TypesStay
  BY <1>13 DEF TypesStay
<1>15. ASSUME NEW q \in Process \ {p}, proc[q].sent
       PROVE  /\ MountOf(q) \in Client \ {m} /\ stage[MountOf(q)] # "idle"
              /\ req[MountOf(q)] = RequestOf(q)
  BY <1>13, <1>15, WhoHasSent, MountIsClient
<1>16. IsAt(p)'
  <2>1. part = "act" /\ CallOf(p).op \in {"creat", "readlink"} => s.part = "act"
    BY <1>1, <1>2, PartIs DEF OnDescriptor
  <2> QED
    BY <1>1, <1>2, <1>4, <1>5, <1>7, <1>10, <1>13, <2>1 DEF IsAt
<1>17. ~HasLookedUp(p)' /\ ~IsAboutToMake(p)'
  <2>1. part = "entry" => r.op = "lookup"
    BY <1>2, <1>3 DEF RequestSuits, LookupRequest
  <2> QED
    BY <1>7, <1>11, <1>13, <2>1 DEF HasLookedUp, IsAboutToMake, StatCalls
<1>18. KnowsNew(p)' /\ KnowsFile(p)'
  BY <1>17 DEF KnowsNew, KnowsFile, FoundFile
<1>19. ASSUME NEW q \in Process \ {p} PROVE IsAt(q)' /\ KnowsNew(q)' /\ KnowsFile(q)'
  BY <1>9, <1>13, <1>14, <1>15, PlaceStays, KnowledgeStays
<1>20. \A q \in Process : Waits(q)'
  <2>1. Waits(p)'
    <3>1. \A q \in Process \ {p} : proc'[q].sent => MountOf(q)' # m
      BY <1>9, <1>15, ProcessFrame DEF SameProcess
    <3> QED
      BY <1>11, <1>12, <1>13, <3>1 DEF Waits
  <2>2. ASSUME NEW q \in Process \ {p} PROVE Waits(q)'
    <3>1. CASE ~proc[q].sent
      BY <1>9, <3>1 DEF Waits, SameProcess
    <3>2. CASE proc[q].sent
      <4>1. /\ MountOf(q)' = MountOf(q) /\ RequestOf(q)' = RequestOf(q)
            /\ proc'[q] = proc[q]
        BY <1>9, ProcessFrame DEF SameProcess
      <4>2. \A e \in Process \ {q} : proc'[e].sent => MountOf(e)' # MountOf(q)
        <5>1. ASSUME NEW e \in Process \ {p, q}, proc'[e].sent PROVE MountOf(e)' # MountOf(q)
          BY <1>9, <3>2, <5>1, ProcessFrame, WhoHasSent DEF SameProcess
        <5> QED
          BY <1>11, <1>15, <3>2, <5>1
      <4> QED
        BY <1>13, <1>15, <3>2, <4>1, <4>2 DEF Waits
    <3> QED
      BY <3>1, <3>2
  <2> QED
    BY <2>1, <2>2
<1>21. \A q \in Process : LockedOnce(q)'
  <2>1. \A q \in Process \ {p} :
          /\ LockedDirectory(q)' <=> LockedDirectory(q)
          /\ MountOf(q)' = MountOf(q) /\ proc'[q].dir = proc[q].dir
    BY <1>9, ProcessFrame DEF SameProcess
  <2>2. MountOf(p)' = MountOf(p) /\ proc'[p].dir = proc[p].dir
    BY <1>2, <1>7, <1>11
  <2>3. LockedDirectory(p)' => LockedDirectory(p) \/ MayLock(p)
    BY <1>1, <1>2, <1>7, <1>10, <1>11 DEF LockedDirectory
  <2>4. \A q \in Process : LockedOnce(q)
    BY DEF ProcessInv
  <2> QED
    BY <2>1, <2>2, <2>3, <2>4 DEF LockedOnce, MayLock
<1>22. ASSUME NEW c \in Client PROVE IsServed(c)'
  <2>1. CASE c = m
    BY <1>7, <1>11, <2>1 DEF IsServed
  <2>2. CASE c # m
    <3>1. IsServed(c) /\ req'[c] = req[c]
      BY <1>13, <2>2 DEF ProcessInv
    <3>2. ASSUME NEW q \in Process, proc[q].sent, MountOf(q) = c
          PROVE  proc'[q].sent /\ MountOf(q)' = c
      BY <1>1, <1>9, <3>2, ProcessFrame DEF SameProcess
    <3> QED
      BY <3>1, <3>2 DEF IsServed
  <2> QED
    BY <2>1, <2>2
<1>23. scenario' \in Scenarios
  BY <1>1 DEF ProcessInv
<1>24. IsAt(p)' /\ KnowsNew(p)' /\ KnowsFile(p)'
  BY <1>16, <1>18
<1> QED
  BY <1>8, <1>19, <1>20, <1>21, <1>22, <1>23, <1>24 DEF ProcessInv

-----------------------------------------------------------------------------
\* The end of a call.
HasOpenedBefore(p, n) ==
    \E j \in 1 .. n - 1 : Program(p)[j].op \in Opens /\ Program(p)[j].want # "error"

IsOver(p, s) ==
    /\ s \in ProcessState
    /\ s.part = "begin" /\ ~s.sent /\ s.dir = Root
    /\ s.status = "running" => /\ s.next \in DOMAIN Program(p)
                               /\ HasOpenedBefore(p, s.next) => server[s.fd.ino].type = T_FILE

LEMMA RootIsInum == Root \in Inum
BY MaxInumIsPositive DEF Root, Inum

\* The state of a process in fields.
LEMMA EndedState ==
    ASSUME ProcessInv, NEW p \in Process, proc[p].status = "running", NEW outcome
    PROVE  LET s == Ended(p, outcome)
           IN  /\ s \in ProcessState
               /\ s.part = "begin" /\ ~s.sent /\ s.dir = Root /\ s.fd = proc[p].fd
               /\ s.status = "running" =>
                    /\ s.next \in DOMAIN Program(p) /\ s.next = proc[p].next + 1
                    /\ CallOf(p).want \in {outcome, "any"}
                    /\ ~(CallOf(p).want = "any" /\ outcome = "error")
<1>1. PICK last, want, t, k, s : /\ last = (proc[p].next = Len(Program(p)))
                                 /\ want = CallOf(p).want /\ t = proc[p] /\ k = proc[p].next
                                 /\ s = Ended(p, outcome)
  OBVIOUS
<1>2. PICK status, next : /\ status = IF want \notin {outcome, "any"} THEN "failed"
                                      ELSE IF last \/ (want = "any" /\ outcome = "error")
                                        THEN "exited" ELSE "running"
                          /\ next = IF last THEN k ELSE k + 1
  OBVIOUS
<1>3. s = [t EXCEPT !.status = status, !.next = next,
                    !.part = "begin", !.sent = FALSE, !.dir = Root, !.file = Root]
  BY <1>1, <1>2 DEF Ended
<1>4. t \in ProcessState /\ IsProgram(Program(p)) /\ k \in DOMAIN Program(p)
  BY <1>1, ProgramsAre DEF ProcessInv, IsAt
<1>5. next \in Nat \ {0} /\ status \in {"unborn", "running", "exited", "failed"}
  BY <1>1, <1>2, <1>4 DEF ProcessState
<1>6. /\ s \in ProcessState
      /\ s.part = "begin" /\ ~s.sent /\ s.dir = Root /\ s.fd = t.fd
      /\ s.status = status /\ s.next = next
  BY <1>3, <1>4, <1>5, RootIsInum DEF ProcessState, Parts
<1>7. ASSUME status = "running"
      PROVE  /\ next \in DOMAIN Program(p) /\ next = k + 1
             /\ want \in {outcome, "any"} /\ ~(want = "any" /\ outcome = "error")
  <2>1. ~last /\ want \in {outcome, "any"} /\ ~(want = "any" /\ outcome = "error")
    BY <1>2, <1>7
  <2>2. k # Len(Program(p)) /\ next = k + 1
    BY <1>1, <1>2, <2>1
  <2>3. DOMAIN Program(p) = 1 .. Len(Program(p)) /\ Len(Program(p)) \in Nat
    BY <1>4 DEF IsProgram
  <2> QED
    BY <1>4, <2>1, <2>2, <2>3
<1> QED
  BY <1>1, <1>6, <1>7

\* A call that opens nothing leaves open what is open.
LEMMA OpenStays ==
    ASSUME ProcessInv, NEW p \in Process, proc[p].status = "running",
           HasOpenedBefore(p, proc[p].next + 1),
           ~(CallOf(p).op \in Opens /\ CallOf(p).want # "error")
    PROVE  server[proc[p].fd.ino].type = T_FILE
<1>1. PICK k : k = proc[p].next
  OBVIOUS
<1>2. k \in Nat \ {0} /\ CallOf(p) = Program(p)[k]
  BY <1>1, ProgramsAre DEF ProcessState, CallOf
<1>3. PICK j \in 1 .. k : Program(p)[j].op \in Opens /\ Program(p)[j].want # "error"
  <2>1. PICK n : n = proc[p].next + 1
    OBVIOUS
  <2>2. PICK j \in 1 .. n - 1 : Program(p)[j].op \in Opens /\ Program(p)[j].want # "error"
    BY <2>1 DEF HasOpenedBefore
  <2> QED
    BY <1>1, <1>2, <2>1, <2>2
<1>4. j \in 1 .. k - 1
  BY <1>2, <1>3
<1>5. HasOpened(p)
  BY <1>1, <1>3, <1>4 DEF HasOpened
<1> QED
  BY <1>5 DEF ProcessInv, IsAt

LEMMA EndIsOver ==
    ASSUME ProcessInv, NEW p \in Process, proc[p].status = "running",
           NEW outcome \in {"ok", "error"}, outcome = "ok" => CallOf(p).op \notin Opens
    PROVE  IsOver(p, Ended(p, outcome))
<1>1. PICK s : s = Ended(p, outcome)
  OBVIOUS
<1>2. /\ s \in ProcessState
      /\ s.part = "begin" /\ ~s.sent /\ s.dir = Root /\ s.fd = proc[p].fd
      /\ s.status = "running" =>
           /\ s.next \in DOMAIN Program(p) /\ s.next = proc[p].next + 1
           /\ CallOf(p).want \in {outcome, "any"}
           /\ ~(CallOf(p).want = "any" /\ outcome = "error")
  BY <1>1, EndedState
<1>3. ASSUME s.status = "running", HasOpenedBefore(p, s.next)
      PROVE  server[s.fd.ino].type = T_FILE
  <2>1. ~(CallOf(p).op \in Opens /\ CallOf(p).want # "error")
    BY <1>2, <1>3
  <2> QED
    BY <1>2, <1>3, <2>1, OpenStays
<1> QED
  BY <1>1, <1>2, <1>3 DEF IsOver

LEMMA OpenedIsOver ==
    ASSUME ProcessInv, NEW p \in Process, proc[p].status = "running", MountOf(p) \in Client,
           NEW i \in Inum, server[i].type = T_FILE, NEW pos \in Nat
    PROVE  IsOver(p, Opened(p, i, pos))
<1>1. PICK s, t, fd : /\ s = Ended(p, "ok") /\ t = Opened(p, i, pos)
                      /\ fd = [mount |-> MountOf(p), ino |-> i, pos |-> pos]
  OBVIOUS
<1>2. /\ s \in ProcessState
      /\ s.part = "begin" /\ ~s.sent /\ s.dir = Root
      /\ s.status = "running" => s.next \in DOMAIN Program(p)
  BY <1>1, EndedState
<1>3. t = [s EXCEPT !.fd = fd]
  BY <1>1 DEF Opened
<1>4. fd \in Files /\ fd.ino = i
  BY <1>1 DEF Files
<1>5. /\ t \in ProcessState /\ t.fd = fd /\ t.part = s.part /\ t.sent = s.sent /\ t.dir = s.dir
      /\ t.status = s.status /\ t.next = s.next
  BY <1>2, <1>3, <1>4 DEF ProcessState
<1> QED
  BY <1>1, <1>2, <1>4, <1>5 DEF IsOver

\* The position in a file does not matter.
LEMMA MovedIsOver ==
    ASSUME NEW p \in Process, NEW s, IsOver(p, s), NEW pos \in Nat
    PROVE  IsOver(p, [s EXCEPT !.fd.pos = pos])
<1>1. PICK t : t = [s EXCEPT !.fd.pos = pos]
  OBVIOUS
<1>2. s \in ProcessState /\ s.fd \in Files
  BY DEF IsOver, ProcessState
<1>3. t.fd \in Files /\ t.fd.ino = s.fd.ino
  BY <1>1, <1>2 DEF ProcessState, Files
<1>4. /\ t \in ProcessState /\ t.part = s.part /\ t.sent = s.sent /\ t.dir = s.dir
      /\ t.status = s.status /\ t.next = s.next
  BY <1>1, <1>2, <1>3 DEF ProcessState
<1> QED
  BY <1>1, <1>3, <1>4 DEF IsOver

\* Between two calls a process has locked nothing and knows nothing.
LEMMA OverSettles ==
    ASSUME TypeInv, ProcessInv, NEW p \in Process, NEW s, IsOver(p, s),
           proc'[p] = s, scenario' = scenario, UNCHANGED server
    PROVE  Settled(p)
<1>1. Program(p)' = Program(p)
  BY DEF Program
<1>2. HasOpened(p)' <=> HasOpenedBefore(p, s.next)
  BY <1>1 DEF HasOpened, HasOpenedBefore
<1>3. server'[Root].type = T_DIR
  BY DEF TypeInv, InodesFit
<1>4. IsAt(p)'
  BY <1>1, <1>2, <1>3 DEF IsAt, IsOver, PartFits
<1>5. PartOf(p)' # "make" /\ ~proc'[p].sent /\ proc'[p].part = "begin"
  BY DEF IsOver, PartOf
<1>6. ~LockedDirectory(p)' /\ ~IsAboutToMake(p)' /\ ~HasLookedUp(p)'
  BY <1>5 DEF LockedDirectory, IsAboutToMake, HasLookedUp
<1> QED
  BY <1>4, <1>5, <1>6 DEF Settled, StaysLocked, KnowsNew, KnowsFile

\* The next part of a call, with what has been looked up.
MovesOn(p, s) ==
    LET op == CallOf(p).op
    IN  /\ s \in ProcessState
        /\ s.status = "running" /\ ~s.sent /\ s.part # "begin" /\ PartFits(op, s.part)
        /\ s.next = proc[p].next /\ s.fd = proc[p].fd
        /\ server[s.dir].type = T_DIR
        /\ s.part = "act" /\ op = "creat" => server[s.file].type = T_FILE
        /\ s.part = "act" /\ op = "readlink" => server[s.file].type = T_SYMLK
        /\ s.part = "make" =>
             /\ s.dir = proc[p].dir /\ LockedDirectory(p)
             /\ op \in Makes => NameIsNew(EntryOf(p))
             /\ op = "unlink" => UnlinksFiles(EntryOf(p))

LEMMA MovingSettles ==
    ASSUME ProcessInv, NEW p \in Process, proc[p].status = "running", NEW s, MovesOn(p, s),
           proc'[p] = s, scenario' = scenario, UNCHANGED server,
           \A d \in Inum : Listing(d)' = Listing(d)
    PROVE  Settled(p)
<1>1. PICK call, m, e : call = CallOf(p) /\ m = MountOf(p) /\ e = EntryOf(p)
  OBVIOUS
<1>2. /\ CallOf(p)' = call /\ Program(p)' = Program(p)
      /\ HasOpened(p)' <=> HasOpened(p)
  BY <1>1 DEF MovesOn, CallOf, Program, HasOpened
<1>3. MountOf(p)' = m /\ PartOf(p)' = s.part
  BY <1>1, <1>2 DEF MovesOn, MountOf, PartOf
<1>4. IsAt(p)'
  BY <1>1, <1>2 DEF ProcessInv, IsAt, MovesOn
<1>5. ~proc'[p].sent /\ ~HasLookedUp(p)'
  BY DEF MovesOn, HasLookedUp
<1>6. LockedDirectory(p)' => s.part = "make"
  BY <1>3, <1>5 DEF LockedDirectory
<1>7. StaysLocked(p)
  BY <1>1, <1>3, <1>6 DEF StaysLocked, MovesOn
<1>8. ASSUME s.part = "make"
      PROVE  /\ NameIsNew(e) => NameIsNew(EntryOf(p))'
             /\ UnlinksFiles(e) => UnlinksFiles(EntryOf(p))'
  <2>1. EntryOf(p)' = e /\ e.ino \in Inum
    BY <1>1, <1>2, <1>8, ProgramsAre DEF EntryOf, MovesOn, ProcessState
  <2>2. PICK l : l = Listing(e.ino)
    OBVIOUS
  <2>3. Listing(e.ino)' = l
    BY <2>1, <2>2
  <2> QED
    BY <2>1, <2>2, <2>3 DEF NameIsNew, UnlinksFiles
<1>9. KnowsNew(p)'
  BY <1>1, <1>2, <1>5, <1>6, <1>8 DEF KnowsNew, MovesOn
<1>10. KnowsFile(p)'
  BY <1>1, <1>2, <1>5, <1>6, <1>8 DEF KnowsFile, FoundFile, MovesOn
<1> QED
  BY <1>4, <1>5, <1>7, <1>9, <1>10 DEF Settled

\* Who has its reply settles; the others have not had anything to do with it.
LEMMA RepliedInv ==
    ASSUME DInv, TypeInv, ProcessInv, NEW p \in Process, NEW part, Replied(p, part),
           NEW s, Go(p, s), IsOver(p, s) \/ MovesOn(p, s)
    PROVE  ProcessInv'
<1>1. /\ proc[p].sent /\ Reply(MountOf(p)) /\ scenario' = scenario
      /\ proc' = [proc EXCEPT ![p] = s]
  BY DEF Replied, Go
<1>2. PICK m : m = MountOf(p)
  OBVIOUS
<1>3. /\ m \in Client /\ proc[p].status = "running"
      /\ \A q \in Process \ {p} : proc[q].sent => MountOf(q) \in Client \ {m}
  BY <1>1, <1>2, WhoHasSent, MountIsClient
<1>4. /\ req'[m] = NoRequest
      /\ \A d \in Client \ {m} : stage'[d] = stage[d] /\ req'[d] = req[d] /\ buf'[d] = buf[d]
      /\ UNCHANGED server
      /\ \A d \in Inum : Listing(d)' = Listing(d)
  BY <1>1, <1>2, <1>3, Replies
<1>5. proc \in [Process -> ProcessState] /\ s \in ProcessState /\ ~s.sent
  BY DEF ProcessInv, IsOver, MovesOn
<1>6. /\ proc' \in [Process -> ProcessState] /\ proc'[p] = s
      /\ \A q \in Process \ {p} : SameProcess(q)
  BY <1>1, <1>5 DEF SameProcess
<1>7. Settled(p)
  BY <1>1, <1>3, <1>4, <1>6, OverSettles, MovingSettles
<1>8. \A q \in Process : proc'[q].sent => MountOf(q) \in Client \ {m}
  BY <1>3, <1>5, <1>6 DEF SameProcess
<1>9. ASSUME NEW c \in Client, req'[c].op \notin {"none", "mount"}
      PROVE  \E q \in Process : proc[q].sent /\ SameProcess(q) /\ MountOf(q) = c
  <2>1. c # m
    BY <1>4, <1>9 DEF NoRequest
  <2>2. PICK q \in Process : proc[q].sent /\ MountOf(q) = c
    BY <1>4, <1>9, <2>1 DEF ProcessInv, IsServed
  <2> QED
    BY <1>2, <1>6, <2>1, <2>2
<1> QED
  BY <1>1, <1>4, <1>6, <1>7, <1>8, <1>9, ProcessesGoOn

-----------------------------------------------------------------------------
\* The replies to the parts of a call.
LEMMA ReplyTo ==
    ASSUME DInv, TypeInv, AnswerInv, ProcessInv, NEW p \in Process, NEW part, Replied(p, part)
    PROVE  /\ proc[p].status = "running" /\ CallOf(p).op \notin Local /\ PartOf(p) = part
           /\ PartFits(CallOf(p).op, part) /\ proc[p] \in ProcessState /\ IsAt(p)
           /\ proc[p].sent /\ proc[p].part = part
           /\ MountOf(p) \in Client /\ stage[MountOf(p)] = "done"
           /\ req[MountOf(p)] = RequestOf(p)
           /\ RequestSuits(RequestOf(p), p) /\ HasArguments(RequestOf(p))
           /\ InoOf(p) \in Inum /\ attr[MountOf(p)].size \in Nat
           /\ AnswersOf(MountOf(p))
<1>1. /\ proc[p].status = "running" /\ CallOf(p).op \notin Local /\ PartOf(p) = part
      /\ req[MountOf(p)] = RequestOf(p) /\ stage[MountOf(p)] = "done"
      /\ proc[p].sent /\ proc[p].part = part
  BY WhoHasSent DEF Replied
<1>2. MountOf(p) \in Client
  BY <1>1, MountIsClient
<1>3. /\ PartFits(CallOf(p).op, part) /\ proc[p] \in ProcessState /\ IsAt(p)
      /\ RequestSuits(RequestOf(p), p) /\ HasArguments(RequestOf(p))
  BY <1>1, PartIs, ProgramsAre, RequestIs DEF TypeInv, ProcessInv
<1>4. InoOf(p) \in Inum /\ attr[MountOf(p)].size \in Nat /\ AnswersOf(MountOf(p))
  BY <1>2 DEF InoOf, TypeInv, RequestFits, AnswerInv, AnswersOf
<1> QED
  BY <1>1, <1>2, <1>3, <1>4

\* What a lookup answers with is an inode of the type that it names.
LEMMA LookupAnswers ==
    ASSUME DInv, TypeInv, AnswerInv, ProcessInv, NEW p \in Process,
           NEW part \in {"walk", "entry"}, Replied(p, part)
    PROVE  /\ TypeOf(p) \in Types => TypeOf(p) = server[InoOf(p)].type
           /\ NameFound(p) => InoOf(p) = FoundInum(buf[MountOf(p)], req[MountOf(p)].name)
<1>1. PICK m : m = MountOf(p)
  OBVIOUS
<1>2. stage[m] = "done" /\ req[m].op = "lookup" /\ Answers(m)
  <2>1. stage[m] = "done" /\ AnswersOf(m) /\ req[m] = RequestOf(p) /\ PartOf(p) = part
        /\ RequestSuits(RequestOf(p), p)
    BY <1>1, ReplyTo
  <2> QED
    BY <2>1 DEF RequestSuits, LookupRequest, AnswersOf
<1> QED
  BY <1>1, <1>2 DEF Answers, StatCalls, TypeOf, InoOf, NameFound

\* The fields of a continued call.
LEMMA ContinuedState ==
    ASSUME NEW p \in Process, proc[p] \in ProcessState, NEW part \in Parts,
           NEW dir \in Inum, NEW file \in Inum, NEW s,
           s = [Continue(p, part) EXCEPT !.dir = dir, !.file = file]
    PROVE  /\ s \in ProcessState
           /\ s.status = proc[p].status /\ s.next = proc[p].next /\ s.fd = proc[p].fd
           /\ s.part = part /\ ~s.sent /\ s.dir = dir /\ s.file = file
BY DEF Continue, ProcessState

LEMMA WalkDoneInv ==
    ASSUME DInv, TypeInv, AnswerInv, ProcessInv, NEW p \in Process, WalkDone(p)
    PROVE  ProcessInv'
<1>1. Replied(p, "walk")
  BY DEF WalkDone
<1>2. PICK t, op, i : t = proc[p] /\ op = CallOf(p).op /\ i = InoOf(p)
  OBVIOUS
<1>3. /\ t.status = "running" /\ PartFits(op, "walk") /\ t \in ProcessState /\ IsAt(p)
      /\ i \in Inum
  BY <1>1, <1>2, ReplyTo
<1>4. TypeOf(p) \in Types => TypeOf(p) = server[i].type
  BY <1>1, <1>2, LookupAnswers
<1>5. PICK part : part = IF op = "readdir" THEN "act" ELSE "entry"
  OBVIOUS
<1>6. PICK s : s = [Continue(p, part) EXCEPT !.dir = i]
  OBVIOUS
<1>7. CASE Go(p, Ended(p, "ok")) /\ op = "access"
  <2>1. IsOver(p, Ended(p, "ok"))
    BY <1>2, <1>3, <1>7, EndIsOver DEF Opens
  <2> QED
    BY <1>1, <1>7, <2>1, RepliedInv
<1>8. CASE Go(p, Ended(p, "error"))
  <2>1. IsOver(p, Ended(p, "error"))
    BY <1>2, <1>3, EndIsOver
  <2> QED
    BY <1>1, <1>8, <2>1, RepliedInv
<1>9. CASE Go(p, s) /\ TypeOf(p) = T_DIR /\ op # "access"
  <2>1. /\ part \in {"act", "entry"} /\ PartFits(op, part)
        /\ part = "act" => op \notin {"creat", "readlink"}
    BY <1>3, <1>5, <1>9 DEF PartFits, Parts, OnDirectoryName, OnName, Changes, Makes, Opens
  <2>2. /\ s \in ProcessState
        /\ s.status = t.status /\ s.next = t.next /\ s.fd = t.fd
        /\ s.part = part /\ ~s.sent /\ s.dir = i
    BY <1>2, <1>3, <1>5, <1>6 DEF Continue, ProcessState, Parts
  <2>3. server[i].type = T_DIR
    BY <1>4, <1>9 DEF Types
  <2>4. MovesOn(p, s)
    BY <1>2, <1>3, <2>1, <2>2, <2>3 DEF MovesOn
  <2> QED
    BY <1>1, <1>9, <2>4, RepliedInv
<1> QED
  BY <1>2, <1>5, <1>6, <1>7, <1>8, <1>9 DEF WalkDone

LEMMA EntryFoundInv ==
    ASSUME DInv, TypeInv, AnswerInv, ProcessInv, NEW p \in Process, EntryFound(p)
    PROVE  ProcessInv'
<1>1. Replied(p, "entry") /\ LookupFound(p)
  BY DEF EntryFound
<1>2. PICK t, op, i, m : t = proc[p] /\ op = CallOf(p).op /\ i = InoOf(p) /\ m = MountOf(p)
  OBVIOUS
<1>3. /\ t.status = "running" /\ PartFits(op, "entry") /\ t \in ProcessState /\ IsAt(p)
      /\ i \in Inum /\ m \in Client /\ attr[m].size \in Nat
      /\ t.sent /\ t.part = "entry" /\ PartOf(p) = "entry" /\ stage[m] = "done"
  BY <1>1, <1>2, ReplyTo
<1>4. TypeOf(p) = server[i].type /\ NameFound(p) /\ i = FoundInum(buf[m], req[m].name)
  BY <1>1, <1>2, LookupAnswers DEF LookupFound
<1>5. server[t.dir].type = T_DIR
  BY <1>2, <1>3 DEF IsAt
<1>6. CASE Go(p, Ended(p, "error"))
  <2>1. IsOver(p, Ended(p, "error"))
    BY <1>2, <1>3, EndIsOver
  <2> QED
    BY <1>1, <1>6, <2>1, RepliedInv
<1>7. ASSUME NEW pos \in Nat, Go(p, Opened(p, i, pos)), op \in Opens, IsFor(op, TypeOf(p))
      PROVE  ProcessInv'
  <2>1. server[i].type = T_FILE
    BY <1>4, <1>7 DEF IsFor
  <2>2. IsOver(p, Opened(p, i, pos))
    BY <1>2, <1>3, <2>1, OpenedIsOver
  <2> QED
    BY <1>1, <1>7, <2>2, RepliedInv
<1>8. ASSUME Go(p, [Continue(p, "act") EXCEPT !.file = i]), op \in {"creat", "readlink"},
             IsFor(op, TypeOf(p))
      PROVE  ProcessInv'
  <2>1. PICK s : s = [Continue(p, "act") EXCEPT !.file = i]
    OBVIOUS
  <2>2. /\ s \in ProcessState
        /\ s.status = t.status /\ s.next = t.next /\ s.fd = t.fd
        /\ s.part = "act" /\ ~s.sent /\ s.dir = t.dir /\ s.file = i
    BY <1>2, <1>3, <2>1 DEF Continue, ProcessState, Parts
  <2>3. /\ op = "creat" => server[i].type = T_FILE
        /\ op = "readlink" => server[i].type = T_SYMLK
    BY <1>4, <1>8 DEF IsFor, Opens
  <2>4. PartFits(op, "act")
    BY <1>8 DEF PartFits
  <2>5. MovesOn(p, s)
    BY <1>2, <1>3, <1>5, <2>2, <2>3, <2>4 DEF MovesOn
  <2> QED
    BY <1>1, <1>8, <2>1, <2>5, RepliedInv
<1>9. ASSUME Go(p, Continue(p, "make")), op = "unlink", IsFor(op, TypeOf(p))
      PROVE  ProcessInv'
  <2>1. PICK s : s = Continue(p, "make")
    OBVIOUS
  <2>2. /\ s \in ProcessState
        /\ s.status = t.status /\ s.next = t.next /\ s.fd = t.fd
        /\ s.part = "make" /\ ~s.sent /\ s.dir = t.dir
    BY <1>2, <1>3, <2>1 DEF Continue, ProcessState, Parts
  <2>3. LockedDirectory(p) /\ PartFits(op, "make")
    BY <1>2, <1>3, <1>9 DEF LockedDirectory, Changes, PartFits
  <2>4. HasLookedUp(p)
    BY <1>2, <1>3 DEF HasLookedUp, StatCalls
  <2>5. req[m].name = CallOf(p).name
    BY <1>2, <1>3, LooksUp DEF EntryOf
  <2>6. FoundFile(p)
    BY <1>2, <1>4, <1>9, <2>4, <2>5 DEF FoundFile, IsFor
  <2>7. UnlinksFiles(EntryOf(p))
    BY <1>2, <1>9, <2>3, <2>6 DEF ProcessInv, KnowsFile
  <2>8. op \notin Makes /\ op \notin {"creat", "readlink"}
    BY <1>9 DEF Makes
  <2>9. MovesOn(p, s)
    BY <1>2, <1>3, <1>5, <2>2, <2>3, <2>7, <2>8 DEF MovesOn
  <2> QED
    BY <1>1, <1>9, <2>1, <2>9, RepliedInv
<1>10. IsFor(op, TypeOf(p)) =>
          op \in {"open", "append", "creat", "opencreate", "readlink", "unlink"}
  BY <1>3 DEF IsFor, PartFits, OnName, Opens, Changes, Makes
<1>11. Go(p, IF ~IsFor(op, TypeOf(p)) THEN Ended(p, "error")
             ELSE CASE op = "append" -> Opened(p, i, attr[m].size)
                    [] op \in {"creat", "readlink"} -> [Continue(p, "act") EXCEPT !.file = i]
                    [] op = "unlink" -> Continue(p, "make")
                    [] OTHER -> Opened(p, i, 0))
  BY <1>2 DEF EntryFound
<1>12. CASE ~IsFor(op, TypeOf(p))
  BY <1>6, <1>11, <1>12
<1>13. CASE IsFor(op, TypeOf(p)) /\ op = "append"
  BY <1>3, <1>7, <1>11, <1>13 DEF Opens
<1>14. CASE IsFor(op, TypeOf(p)) /\ op \in {"creat", "readlink"}
  BY <1>8, <1>11, <1>14
<1>15. CASE IsFor(op, TypeOf(p)) /\ op = "unlink"
  BY <1>9, <1>11, <1>15
<1>16. CASE IsFor(op, TypeOf(p)) /\ op \in {"open", "opencreate"}
  BY <1>7, <1>11, <1>16 DEF Opens
<1> QED
  BY <1>10, <1>12, <1>13, <1>14, <1>15, <1>16

LEMMA EntryMissingInv ==
    ASSUME DInv, TypeInv, AnswerInv, ProcessInv, NEW p \in Process, EntryMissing(p)
    PROVE  ProcessInv'
<1>1. Replied(p, "entry")
  BY DEF EntryMissing
<1>2. PICK t, op : t = proc[p] /\ op = CallOf(p).op
  OBVIOUS
<1>3. /\ t.status = "running" /\ t \in ProcessState /\ IsAt(p)
      /\ t.sent /\ t.part = "entry" /\ PartOf(p) = "entry" /\ stage[MountOf(p)] = "done"
  BY <1>1, <1>2, ReplyTo
<1>4. CASE Go(p, Ended(p, "error"))
  <2>1. IsOver(p, Ended(p, "error"))
    BY <1>2, <1>3, EndIsOver
  <2> QED
    BY <1>1, <1>4, <2>1, RepliedInv
<1>5. CASE Go(p, Continue(p, "make")) /\ op \in Makes /\ ~NameFound(p)
  <2>1. PICK s : s = Continue(p, "make")
    OBVIOUS
  <2>2. /\ s \in ProcessState
        /\ s.status = t.status /\ s.next = t.next /\ s.fd = t.fd
        /\ s.part = "make" /\ ~s.sent /\ s.dir = t.dir
    BY <1>2, <1>3, <2>1 DEF Continue, ProcessState, Parts
  <2>3. LockedDirectory(p) /\ PartFits(op, "make") /\ op # "unlink"
    BY <1>2, <1>3, <1>5 DEF LockedDirectory, Changes, Makes, PartFits
  <2>4. HasLookedUp(p)
    BY <1>2, <1>3 DEF HasLookedUp, StatCalls
  <2>5. NameIsNew(EntryOf(p))
    BY <1>2, <1>5, <2>3, <2>4 DEF ProcessInv, KnowsNew
  <2>6. server[t.dir].type = T_DIR
    BY <1>2, <1>3 DEF IsAt
  <2>7. MovesOn(p, s)
    BY <1>2, <1>3, <2>2, <2>3, <2>5, <2>6 DEF MovesOn
  <2> QED
    BY <1>1, <1>5, <2>1, <2>7, RepliedInv
<1> QED
  BY <1>2, <1>4, <1>5 DEF EntryMissing

LEMMA MakeDoneInv ==
    ASSUME DInv, TypeInv, AnswerInv, ProcessInv, NEW p \in Process, MakeDone(p)
    PROVE  ProcessInv'
<1>1. Replied(p, "make")
  BY DEF MakeDone
<1>2. PICK op, i, m : op = CallOf(p).op /\ i = InoOf(p) /\ m = MountOf(p)
  OBVIOUS
<1>3. /\ proc[p].status = "running" /\ PartFits(op, "make") /\ PartOf(p) = "make"
      /\ i \in Inum /\ m \in Client /\ stage[m] = "done" /\ AnswersOf(m)
      /\ RequestSuits(req[m], p) /\ HasArguments(req[m])
  BY <1>1, <1>2, ReplyTo
<1>4. ASSUME NEW outcome \in {"ok", "error"}, Go(p, Ended(p, outcome)), op \notin Opens
      PROVE  ProcessInv'
  <2>1. IsOver(p, Ended(p, outcome))
    BY <1>2, <1>3, <1>4, EndIsOver
  <2> QED
    BY <1>1, <1>4, <2>1, RepliedInv
<1>5. CASE Go(p, Opened(p, i, 0)) /\ op \in {"creat", "opencreate"}
  <2>1. req[m].op \in Making /\ req[m].type = T_FILE
    BY <1>2, <1>3, <1>5 DEF RequestSuits, Makes
  <2>2. req[m].op = "create"
    BY <1>3, <2>1, TypesDiffer DEF Making, HasArguments
  <2>3. server[i].type = T_FILE
    BY <1>2, <1>3, <2>1, <2>2 DEF AnswersOf, HasMade, StatCalls, InoOf
  <2>4. IsOver(p, Opened(p, i, 0))
    BY <1>2, <1>3, <2>3, OpenedIsOver
  <2> QED
    BY <1>1, <1>5, <2>4, RepliedInv
<1>6. op \in {"mkdir", "creat", "opencreate", "symlink", "unlink"}
  BY <1>3 DEF PartFits, Changes, Makes
<1>7. Go(p, CASE op \in {"creat", "opencreate"} -> Opened(p, i, 0)
              [] op \in {"mkdir", "symlink"} -> Ended(p, "ok")
              [] op = "unlink" -> Ended(p, IF IsFound(buf[m], CallOf(p).name) THEN "ok" ELSE "error"))
  BY <1>2 DEF MakeDone
<1>8. CASE op \in {"creat", "opencreate"}
  BY <1>5, <1>7, <1>8
<1>9. CASE op \in {"mkdir", "symlink"}
  BY <1>4, <1>7, <1>9 DEF Opens
<1>10. CASE op = "unlink"
  BY <1>4, <1>7, <1>10 DEF Opens
<1> QED
  BY <1>6, <1>8, <1>9, <1>10

LEMMA SliceHasLength ==
    ASSUME NEW b \in Seq(Byte), NEW off \in Nat, NEW n \in Nat
    PROVE  Len(Slice(b, off, n)) \in Nat
BY DEF Slice

LEMMA ActDoneInv ==
    ASSUME DInv, TypeInv, AnswerInv, ProcessInv, NEW p \in Process, ActDone(p)
    PROVE  ProcessInv'
<1>1. Replied(p, "act")
  BY DEF ActDone
<1>2. PICK t, call, m, bytes : /\ t = proc[p] /\ call = CallOf(p) /\ m = MountOf(p)
                               /\ bytes = Slice(buf[m], req[m].off, req[m].size)
  OBVIOUS
<1>3. /\ t.status = "running" /\ PartFits(call.op, "act") /\ PartOf(p) = "act"
      /\ t \in ProcessState /\ IsAt(p) /\ t.part = "act"
      /\ m \in Client /\ req[m] = RequestOf(p) /\ AnswersOf(m)
  BY <1>1, <1>2, ReplyTo
<1>4. t.fd \in Files /\ t.fd.pos \in Nat /\ t.file \in Inum
  BY <1>3 DEF ProcessState, Files
<1>5. ASSUME NEW outcome \in {"ok", "error"}, call.op \notin Opens
      PROVE  IsOver(p, Ended(p, outcome)) /\ Ended(p, outcome).fd = t.fd
  BY <1>2, <1>3, <1>5, EndIsOver, EndedState
<1>6. ASSUME NEW outcome \in {"ok", "error"}, Go(p, Ended(p, outcome)), call.op \notin Opens
      PROVE  ProcessInv'
  BY <1>1, <1>5, <1>6, RepliedInv
<1>7. ASSUME NEW outcome \in {"ok", "error"}, NEW n \in Nat, call.op \notin Opens,
             Go(p, [Ended(p, outcome) EXCEPT !.fd.pos = @ + n])
      PROVE  ProcessInv'
  <2>1. PICK s, pos : s = Ended(p, outcome) /\ pos = s.fd.pos + n
    OBVIOUS
  <2>2. IsOver(p, s) /\ pos \in Nat
    BY <1>4, <1>5, <1>7, <2>1
  <2>3. IsOver(p, [s EXCEPT !.fd.pos = pos])
    BY <2>2, MovedIsOver
  <2>4. Go(p, [s EXCEPT !.fd.pos = pos])
    BY <1>7, <2>1
  <2> QED
    BY <1>1, <2>3, <2>4, RepliedInv
<1>8. call.op \in {"creat", "readdir", "readlink", "read", "write"}
  BY <1>3 DEF PartFits, OnDescriptor
<1>9. Go(p, CASE call.op = "creat" -> Opened(p, t.file, 0)
              [] call.op = "readdir" ->
                   Ended(p, IF Len(buf[m]) = call.entries /\ NoDuplicates(buf[m])
                              THEN "ok" ELSE "error")
              [] call.op = "readlink" -> Ended(p, IF buf[m] = call.expect THEN "ok" ELSE "error")
              [] call.op = "read" ->
                   [Ended(p, IF bytes = call.expect THEN "ok" ELSE "error")
                      EXCEPT !.fd.pos = @ + Len(bytes)]
              [] call.op = "write" ->
                   [Ended(p, "ok") EXCEPT !.fd.pos = @ + Len(call.data)])
  BY <1>2 DEF ActDone
<1>10. CASE call.op = "creat"
  <2>1. server[t.file].type = T_FILE
    BY <1>2, <1>3, <1>10 DEF IsAt
  <2>2. IsOver(p, Opened(p, t.file, 0))
    BY <1>2, <1>3, <1>4, <2>1, OpenedIsOver
  <2>3. Go(p, Opened(p, t.file, 0))
    BY <1>9, <1>10
  <2> QED
    BY <1>1, <2>2, <2>3, RepliedInv
<1>11. CASE call.op = "readdir"
  <2>1. PICK outcome : outcome = IF Len(buf[m]) = call.entries /\ NoDuplicates(buf[m])
                                   THEN "ok" ELSE "error"
    OBVIOUS
  <2>2. Go(p, Ended(p, outcome))
    BY <1>9, <1>11, <2>1
  <2> QED
    BY <1>6, <1>11, <2>1, <2>2 DEF Opens
<1>12. CASE call.op = "readlink"
  <2>1. PICK outcome : outcome = IF buf[m] = call.expect THEN "ok" ELSE "error"
    OBVIOUS
  <2>2. Go(p, Ended(p, outcome))
    BY <1>9, <1>12, <2>1
  <2> QED
    BY <1>6, <1>12, <2>1, <2>2 DEF Opens
<1>13. CASE call.op = "read"
  <2>1. PICK outcome : outcome = IF bytes = call.expect THEN "ok" ELSE "error"
    OBVIOUS
  <2>2. Go(p, [Ended(p, outcome) EXCEPT !.fd.pos = @ + Len(bytes)])
    BY <1>9, <1>13, <2>1
  <2>3. req[m] = ReadRequest(t.fd.ino, t.fd.pos, call.size)
    BY <1>2, <1>3, <1>13 DEF RequestOf
  <2>4. call.size \in Nat
    BY <1>2, <1>3, <1>13, CallIs
  <2>5. buf[m] \in Seq(Byte)
    BY <1>3, <2>3 DEF AnswersOf, ReadsBytes, ReadRequest
  <2>6. Len(bytes) \in Nat
    BY <1>2, <1>4, <2>3, <2>4, <2>5, SliceHasLength DEF ReadRequest
  <2> QED
    BY <1>7, <1>13, <2>1, <2>2, <2>6 DEF Opens
<1>14. CASE call.op = "write"
  <2>1. PICK n : n = Len(call.data)
    OBVIOUS
  <2>2. n \in Nat
    BY <1>2, <1>3, <1>14, <2>1, CallIs
  <2>3. Go(p, [Ended(p, "ok") EXCEPT !.fd.pos = @ + n])
    BY <1>9, <1>14, <2>1
  <2> QED
    BY <1>7, <1>14, <2>2, <2>3 DEF Opens
<1> QED
  BY <1>8, <1>10, <1>11, <1>12, <1>13, <1>14

-----------------------------------------------------------------------------
\* Calls without a request.
LEMMA StartedIsState == Started \in ProcessState /\ Unborn \in ProcessState
<1>1. MountOrder \in Seq(Client) /\ Len(MountOrder) > 0
  BY EachStartsOnce
<1>2. yfs1 \in Client
  BY <1>1 DEF yfs1
<1>3. Started \in ProcessState
  BY <1>2, RootIsInum DEF Started, NoFile, ProcessState, Files, Parts
<1>4. Unborn = [Started EXCEPT !.status = "unborn"]
  BY DEF Unborn
<1>5. Unborn \in ProcessState
  BY <1>3, <1>4 DEF ProcessState
<1> QED
  BY <1>3, <1>5

LEMMA StartedIsOver ==
    ASSUME ProcessInv, NEW p \in Process, Len(Program(p)) > 0
    PROVE  IsOver(p, Started)
<1>1. Started \in ProcessState
  BY StartedIsState
<1>2. /\ Started.part = "begin" /\ ~Started.sent /\ Started.dir = Root
      /\ Started.next = 1
  BY DEF Started
<1>3. IsProgram(Program(p))
  BY ProgramsAre
<1>4. 1 \in DOMAIN Program(p)
  BY <1>3 DEF IsProgram
<1>5. ~HasOpenedBefore(p, 1)
  BY DEF HasOpenedBefore
<1> QED
  BY <1>1, <1>2, <1>4, <1>5 DEF IsOver

LEMMA LocalCallInv ==
    ASSUME DInv, TypeInv, ProcessInv, NEW p \in Process, LocalCall(p)
    PROVE  ProcessInv'
<1>1. proc[p].status = "running" /\ UNCHANGED directoryVars /\ scenario' = scenario
  BY DEF LocalCall
<1>2. CallOf(p).op \in {"lseek", "fork", "reap"} /\ CallOf(p).op \notin Opens
  BY DEF LocalCall, Opens
<1>3. ~proc[p].sent
  BY <1>2, WhoHasSent DEF Local
<1>4. proc \in [Process -> ProcessState]
  BY DEF ProcessInv
<1>5. UNCHANGED <<server, stage, req, buf>> /\ \A d \in Inum : Listing(d)' = Listing(d)
  <2>1. UNCHANGED extentTableVars
    BY <1>1 DEF directoryVars
  <2> QED
    BY <1>1, <2>1, QuietNames DEF directoryVars, requestVars, extentTableVars, SameNames
<1>6. ASSUME proc' \in [Process -> ProcessState],
             \A q \in Process : SameProcess(q) \/ (~proc[q].sent /\ IsOver(q, proc'[q]))
      PROVE  ProcessInv'
  <2>1. \A q \in Process : SameProcess(q) \/ Settled(q)
    BY <1>1, <1>5, <1>6, OverSettles
  <2>2. ASSUME NEW c \in Client, req'[c].op \notin {"none", "mount"}
        PROVE  \E q \in Process : proc[q].sent /\ SameProcess(q) /\ MountOf(q) = c
    BY <1>5, <1>6, <2>2 DEF ProcessInv, IsServed
  <2> QED
    BY <1>1, <1>5, <1>6, <2>1, <2>2, ProcessesGoOn
<1>7. ASSUME NEW s, Go(p, s), IsOver(p, s) PROVE ProcessInv'
  <2>1. proc' = [proc EXCEPT ![p] = s] /\ s \in ProcessState
    BY <1>7 DEF Go, IsOver
  <2> QED
    BY <1>1, <1>3, <1>4, <1>6, <1>7, <2>1 DEF SameProcess
<1>8. \A outcome \in {"ok", "error"} : IsOver(p, Ended(p, outcome))
  BY <1>1, <1>2, EndIsOver
<1>9. CASE CallOf(p).op = "lseek" /\ Go(p, [Ended(p, "ok") EXCEPT !.fd.pos = CallOf(p).pos])
  <2>1. CallOf(p).pos \in Nat
    BY <1>1, <1>9, CallIs
  <2> QED
    BY <1>7, <1>8, <1>9, <2>1, MovedIsOver
<1>10. CASE /\ CallOf(p).op = "fork" /\ proc["child"].status = "unborn"
            /\ proc' = [proc EXCEPT ![p] = Ended(p, "ok"), !["child"] = Started]
  <2>1. p = "main" /\ "child" \in Process /\ p # "child"
    BY <1>1, <1>10 DEF Process
  <2>2. PICK s : s = Ended(p, "ok") /\ IsOver(p, s)
    BY <1>8
  <2>3. Len(Program("child")) > 0
    <3>1. CallOf(p) = Program(p)[proc[p].next] /\ proc[p].next \in DOMAIN Program(p)
      BY <1>1 DEF CallOf, ProcessInv, IsAt
    <3> QED
      BY <1>10, <2>1, <3>1, ScenariosArePrograms DEF ProcessInv, Program
  <2>4. IsOver("child", Started)
    BY <2>1, <2>3, StartedIsOver
  <2>5. s \in ProcessState /\ Started \in ProcessState
    BY <2>2, <2>4 DEF IsOver
  <2>6. /\ proc' \in [Process -> ProcessState]
        /\ proc'[p] = s /\ proc'["child"] = Started
        /\ \A q \in Process \ {p, "child"} : proc'[q] = proc[q]
    BY <1>4, <1>10, <2>1, <2>2, <2>5
  <2>7. ~proc["child"].sent
    BY <1>10, <2>1 DEF ProcessInv, IsAt
  <2> QED
    BY <1>1, <1>3, <1>6, <2>2, <2>4, <2>6, <2>7 DEF SameProcess
<1>11. CASE Go(p, Ended(p, IF proc["child"].status = "exited" THEN "ok" ELSE "error"))
  BY <1>7, <1>8, <1>11
<1> QED
  BY <1>9, <1>10, <1>11 DEF LocalCall

-----------------------------------------------------------------------------
\* All that is invariant under programs.
ClassInv == DInv /\ TypeInv /\ NameInv /\ AnswerInv /\ ProcessInv

LEMMA ProcessStepInv ==
    ASSUME ClassInv, NEW p \in Process, ProcessStep(p)
    PROVE  ProcessInv'
BY SendInv, WalkDoneInv, EntryFoundInv, EntryMissingInv, MakeDoneInv, ActDoneInv, LocalCallInv
   DEF ClassInv, ProcessStep

LEMMA StutterInv ==
    ASSUME DInv, TypeInv, ProcessInv, UNCHANGED <<directoryVars, testVars>>
    PROVE  ProcessInv'
<1>1. scenario' = scenario /\ proc' = proc /\ UNCHANGED <<extentTableVars, stage, req, buf>>
  BY DEF directoryVars, testVars, requestVars
<1>2. UNCHANGED server /\ \A d \in Inum : Listing(d)' = Listing(d)
  BY <1>1, QuietNames DEF extentTableVars, SameNames
<1>3. \A q \in Process : SameProcess(q)
  BY <1>1 DEF SameProcess
<1>4. proc' \in [Process -> ProcessState]
  BY <1>1 DEF ProcessInv
<1>5. ASSUME NEW c \in Client, req'[c].op \notin {"none", "mount"}
      PROVE  \E q \in Process : proc[q].sent /\ SameProcess(q) /\ MountOf(q) = c
  BY <1>1, <1>3, <1>5 DEF ProcessInv, IsServed
<1> QED
  BY <1>1, <1>2, <1>3, <1>4, <1>5, ProcessesGoOn

LEMMA ClassInvIsInductive ==
    ClassInv /\ IsOrderly /\ [ClassNext]_<<directoryVars, testVars>> => ClassInv'
<1> SUFFICES ASSUME ClassInv, IsOrderly, [ClassNext]_<<directoryVars, testVars>>
             PROVE  ClassInv'
  OBVIOUS
<1>1. [KernelNext]_directoryVars
  BY ProgramsStep DEF ClassInv
<1>2. DInv'
  BY <1>1, KernelSteps, DInvIsInductive DEF ClassInv
<1>3. TypeInv'
  BY <1>1, <1>2, TypeInvIsInductive DEF ClassInv
<1>4. NameInv'
  BY <1>1, <1>2, NameInvIsInductive DEF ClassInv
<1>5. AnswerInv'
  BY <1>1, <1>2, AnswerInvIsInductive DEF ClassInv, IsOrderly
<1>6. ProcessInv'
  <2>1. CASE Serving
    BY <1>2, <1>5, <2>1, ServingInv DEF ClassInv, Serving
  <2>2. CASE AllDone \/ UNCHANGED <<directoryVars, testVars>>
    BY <2>2, StutterInv DEF ClassInv, AllDone
  <2> QED
    BY <2>1, <2>2, MountInv, ProcessStepInv DEF ClassInv, ClassNext
<1> QED
  BY <1>2, <1>3, <1>4, <1>5, <1>6 DEF ClassInv

LEMMA ClassInvHoldsInitially == ClassInit => ClassInv
<1> SUFFICES ASSUME ClassInit PROVE ClassInv
  OBVIOUS
<1>1. DirectoryInit /\ scenario \in Scenarios
      /\ proc = [p \in Process |-> IF p = "main" THEN Started ELSE Unborn]
  BY DEF ClassInit
<1>2. DInv /\ TypeInv /\ NameInv /\ AnswerInv
  BY <1>1, DInvHoldsInitially, TypeInvHoldsInitially, NameInvHoldsInitially,
     AnswerInvHoldsInitially
<1>3. Started \in ProcessState /\ Unborn \in ProcessState
  BY StartedIsState
<1>4. /\ proc["main"] = Started /\ proc["child"] = Unborn
      /\ proc \in [Process -> ProcessState]
  BY <1>1, <1>3 DEF Process
<1>5. ASSUME NEW p \in Process
      PROVE  /\ proc[p].part = "begin" /\ ~proc[p].sent /\ proc[p].dir = Root /\ proc[p].next = 1
             /\ proc[p].status = "running" => p = "main"
  BY <1>4 DEF Process, Started, Unborn
<1>6. Len(Program("main")) \in Nat \ {0} /\ DOMAIN Program("main") = 1 .. Len(Program("main"))
  BY <1>1, ScenariosArePrograms DEF Program, IsProgram
<1>7. server[Root].type = T_DIR
  BY <1>2 DEF TypeInv, InodesFit
<1>8. ASSUME NEW p \in Process PROVE IsAt(p)
  BY <1>5, <1>6, <1>7 DEF IsAt, PartFits, HasOpened
<1>9. ASSUME NEW p \in Process PROVE ~LockedDirectory(p)
  BY <1>5 DEF LockedDirectory, PartOf
<1>10. ASSUME NEW p \in Process PROVE Waits(p) /\ LockedOnce(p) /\ KnowsNew(p) /\ KnowsFile(p)
  BY <1>5, <1>9 DEF Waits, LockedOnce, KnowsNew, KnowsFile
<1>11. \A c \in Client : IsServed(c)
  BY <1>1 DEF DirectoryInit, NoRequest, IsServed
<1>12. ProcessInv
  BY <1>1, <1>4, <1>8, <1>10, <1>11 DEF ProcessInv
<1> QED
  BY <1>2, <1>12 DEF ClassInv

\* Whatever two processes do on however many mount points, as long as mounts do not contend
\* for a name: each process is served with the request of its own call, by a client that
\* serves nobody else, its inodes have the types it takes them for, and what it has looked
\* up under a name to make or to unlink it stays so until that is done.
THEOREM ProgramsInvariance == ClassSpec /\ []IsOrderly => []ClassInv
BY ClassInvHoldsInitially, ClassInvIsInductive, PTL DEF ClassSpec

\* The requests that kernels make for programs are those of KernelRequests, so that all
\* that holds under any such requests holds under programs.
THEOREM ProgramsMakeKernelRequests == ClassSpec /\ []IsOrderly => KernelSpec
<1>1. ClassInit => DirectoryInit
  BY DEF ClassInit
<1>2. ClassInv /\ IsOrderly /\ [ClassNext]_<<directoryVars, testVars>> => [KernelNext]_directoryVars
  BY ProgramsStep DEF ClassInv
<1> QED
  BY <1>1, <1>2, ProgramsInvariance, PTL DEF ClassSpec, KernelSpec

\* What a client takes up for a program fits its inode, has its arguments, makes no name
\* that is taken, unlinks no directory, and clashes with no request of another mount: what
\* the handlers of fuse.cc do not ask, the kernel has made sure of.
THEOREM ProgramsRequestsFit == ClassSpec /\ []IsOrderly => RequestsFit
<1>1. ASSUME DInv, [KernelNext]_directoryVars
      PROVE  [\A c \in Client : req'[c] \notin {req[c], NoRequest} => Asks(c, req'[c])]_directoryVars
  <2>1. ASSUME NEW c \in Client, NEW r, Asks(c, r), Take(c, r)
        PROVE  \A d \in Client : req'[d] \notin {req[d], NoRequest} => Asks(d, req'[d])
    BY <1>1, <2>1 DEF Take, DInv, RequestShapes
  <2>2. ASSUME NEW c \in Client, Reply(c)
        PROVE  \A d \in Client : req'[d] \in {req[d], NoRequest}
    BY <1>1, <2>2 DEF Reply, DInv, RequestShapes
  <2>3. ASSUME NEW c \in Client, Serve(c) PROVE UNCHANGED req
    BY <2>3 DEF Serve, IsDir, EnterAgain, Enter, GetattrStep, CreateStep, GetStep, RemoveStep,
                PutStep, FlushStep, Unlock, PutLink, UnlockLink, Typed, Stat, UnlockStat
  <2>4. ASSUME NEW i \in Inum, LockStep(i) PROVE UNCHANGED req
    BY <2>4 DEF LockStep, Grant, Enter, FlushForRelease, Release, requestVars
  <2> QED
    BY <1>1, <2>1, <2>2, <2>3, <2>4 DEF KernelNext, DirectoryStep
<1> QED
  BY <1>1, ProgramsInvariance, ProgramsMakeKernelRequests, PTL
  DEF KernelSpec, RequestsFit, ClassInv

\* Under programs the clients' directories are one name space, and what they cache and go on
\* with is current.
THEOREM ProgramsShareOneNameSpace ==
    ClassSpec /\ []IsOrderly =>
        /\ ImplementsNameSpace
        /\ [](DirTypeOK /\ DataAreOwned /\ DataInHandAreContents /\ RemovedIsUnlisted)
<1>1. KernelSpec => DirectorySpec
  BY KernelUsesDirectories
<1> QED
  BY <1>1, ProgramsMakeKernelRequests, DirectoriesAreOneNameSpace, DirectoriesAreTyped,
     RemovedAreUnlisted, CachesFollowLocks, OperationsAreCurrent, PTL

-----------------------------------------------------------------------------
\* Processes that change names of their own do not contend.
LEMMA ApartIsOrderly ==
    ASSUME NamesApart, ProcessInv, RootIsTyped
    PROVE  IsOrderly
<1> SUFFICES ASSUME NEW p \in Process, NEW q \in Process, p # q, Contend(p, q)
             PROVE  FALSE
  BY DEF IsOrderly
<1>1. /\ proc[p].status = "running" /\ proc[q].status = "running"
      /\ CallOf(p).op \in Changes /\ CallOf(q).op \in Changes
      /\ CallOf(p).name = CallOf(q).name /\ MountOf(p) # MountOf(q)
  BY DEF Contend, LockedDirectory
<1>2. CallOf(p).d.mount # CallOf(q).d.mount
  BY <1>1 DEF MountOf, OnDescriptor, Changes, Makes
<1>3. /\ scenario \in Scenarios
      /\ proc[p].next \in DOMAIN scenario[p] /\ CallOf(p) = scenario[p][proc[p].next]
      /\ proc[q].next \in DOMAIN scenario[q] /\ CallOf(q) = scenario[q][proc[q].next]
  BY <1>1 DEF ProcessInv, IsAt, CallOf, Program
<1>4. CASE p = "main" /\ q = "child"
  BY <1>1, <1>2, <1>3, <1>4 DEF NamesApart
<1>5. CASE p = "child" /\ q = "main"
  BY <1>1, <1>2, <1>3, <1>5 DEF NamesApart
<1> QED
  BY <1>4, <1>5 DEF Process

\* For programs whose processes change names of their own, or on one mount, the order of
\* their calls does not matter: if only no client looks a name up in a root whose type
\* nobody has set, all their requests fit, and directories are one name space.
THEOREM ProgramsApartRequestsFit ==
    ASSUME NamesApart
    PROVE  ClassSpec /\ []RootIsTyped => RequestsFit /\ ImplementsNameSpace
<1>1. ClassInv /\ RootIsTyped => IsOrderly
  BY ApartIsOrderly DEF ClassInv
<1>2. ClassSpec /\ []RootIsTyped => []ClassInv
  BY <1>1, ClassInvHoldsInitially, ClassInvIsInductive, PTL DEF ClassSpec
<1>3. ClassSpec /\ []RootIsTyped => []IsOrderly
  BY <1>1, <1>2, PTL
<1> QED
  BY <1>3, ProgramsRequestsFit, ProgramsShareOneNameSpace, PTL

=============================================================================

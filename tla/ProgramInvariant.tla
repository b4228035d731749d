-------------------------- MODULE ProgramInvariant --------------------------
(***************************************************************************)
(* Why the requests of any programs are those of KernelRequests: the       *)
(* inductive invariant, on top of NameInv.  AnswerInv says what the answer *)
(* to a lookup is worth, ProcessInv where each process is in its program   *)
(* and what it knows of the name that it works on.                         *)
(***************************************************************************)
EXTENDS ClassTests, NameInvariant

\* Cached types are those of the server, but where nobody has set them: in a root that
\* has only been put, and between the put and the flush of a link.
TypesAgree(c) ==
    \A i \in Inum :
        \/ table[c][i].type = server[i].type
        \/ table[c][i].type = "none" /\ table[c][i].m_state \in {"ABSENT", "REMOVED"}
        \/ i = Root
        \/ stage[c] = "flush_link" /\ ino[c] = i

\* What a lookup has got, and then answers with.
Answers(c) ==
    LET found == IsFound(buf[c], req[c].name)
    IN  req[c].op = "lookup" =>
          /\ stage[c] \in {"get", "unlock"} => attr[c].type = T_DIR
          /\ stage[c] \in StatCalls /\ found => ino[c] = FoundInum(buf[c], req[c].name)
          /\ stage[c] \in {"unlock_stat", "done"} /\ attr[c].type \in Types
               => attr[c].type = server[ino[c]].type

\* What a create has made, when it answers.
HasMade(c) ==
    req[c].op = "create" /\ stage[c] \in StatCalls => server[ino[c]].type = req[c].type

ReadsBytes(c) == req[c].op = "read" => buf[c] \in Seq(Byte)

NamesAreUnique == \A d \in Directories : NoDuplicates(Listing(d))

AnswerInv ==
    /\ NamesAreUnique
    /\ \A c \in Client : TypesAgree(c) /\ Answers(c) /\ HasMade(c) /\ ReadsBytes(c)

-----------------------------------------------------------------------------
Parts == {"begin", "walk", "entry", "make", "act"}
Files == [mount : Client, ino : Inum, pos : Nat]
ProcessState ==
    [status : {"unborn", "running", "exited", "failed"}, next : Nat \ {0}, part : Parts,
     sent : BOOLEAN, dir : Inum, file : Inum, fd : Files]

\* The parts of each call.
PartFits(op, part) ==
    /\ part = "walk" => op \in OnDirectoryName \ {"mkdir"}
    /\ part = "entry" => op \in OnName
    /\ part = "make" => op \in Changes
    /\ part = "act" => op \in {"creat", "readdir", "readlink"} \cup OnDescriptor

HasOpened(p) ==
    \E j \in 1 .. proc[p].next - 1 : Program(p)[j].op \in Opens /\ Program(p)[j].want # "error"

\* Where a process is in its program, and that its inodes are of the types it takes them for.
IsAt(p) ==
    LET s == proc[p]
    IN  /\ s.status = "running" =>
             /\ s.next \in DOMAIN Program(p)
             /\ PartFits(CallOf(p).op, s.part)
             /\ s.part = "act" /\ CallOf(p).op = "creat" => server[s.file].type = T_FILE
             /\ s.part = "act" /\ CallOf(p).op = "readlink" => server[s.file].type = T_SYMLK
             /\ HasOpened(p) => server[s.fd.ino].type = T_FILE
        /\ s.status # "running" => s.part = "begin" /\ ~s.sent
        /\ s.sent => s.part # "begin"
        /\ server[s.dir].type = T_DIR

\* A call that waits has its request served, by a client that serves nobody else.
Waits(p) ==
    proc[p].sent =>
        /\ stage[MountOf(p)] # "idle"
        /\ req[MountOf(p)] = RequestOf(p)
        /\ \A q \in Process \ {p} : proc[q].sent => MountOf(q) # MountOf(p)

IsServed(c) ==
    req[c].op \notin {"none", "mount"} => \E p \in Process : proc[p].sent /\ MountOf(p) = c

\* A kernel locks a directory for one call at a time.
LockedOnce(p) ==
    LockedDirectory(p) =>
        \A q \in Process \ {p} :
            LockedDirectory(q) => MountOf(q) # MountOf(p) \/ proc[q].dir # proc[p].dir

\* The name has been looked up in the directory that is locked.
HasLookedUp(p) ==
    /\ proc[p].part = "entry" /\ proc[p].sent
    /\ stage[MountOf(p)] \in {"unlock"} \cup StatCalls
IsAboutToMake(p) == proc[p].part = "make" /\ ~proc[p].sent

EntryOf(p) == [ino |-> proc[p].dir, name |-> CallOf(p).name]

\* What was not there stays away, and what was no directory does not become one, while the
\* call that has looked it up has the directory locked.
KnowsNew(p) ==
    LockedDirectory(p) /\ CallOf(p).op \in Makes
    /\ (IsAboutToMake(p) \/ (HasLookedUp(p) /\ ~NameFound(p)))
        => NameIsNew(EntryOf(p))

FoundFile(p) ==
    HasLookedUp(p) /\ NameFound(p)
    /\ server[FoundInum(buf[MountOf(p)], CallOf(p).name)].type # T_DIR

KnowsFile(p) ==
    LockedDirectory(p) /\ CallOf(p).op = "unlink" /\ (IsAboutToMake(p) \/ FoundFile(p))
        => UnlinksFiles(EntryOf(p))

ProcessInv ==
    /\ scenario \in Scenarios
    /\ proc \in [Process -> ProcessState]
    /\ \A p \in Process :
          IsAt(p) /\ Waits(p) /\ LockedOnce(p) /\ KnowsNew(p) /\ KnowsFile(p)
    /\ \A c \in Client : IsServed(c)

-----------------------------------------------------------------------------
\* Programs whose processes change names of their own, or on one mount: these do not
\* contend, whatever the order of their calls.
NamesApart ==
    \A s \in Scenarios : \A j \in DOMAIN s["main"], k \in DOMAIN s["child"] :
        LET call == s["main"][j]
            other == s["child"][k]
        IN  call.op \in Changes /\ other.op \in Changes /\ call.name = other.name
              => call.d.mount = other.d.mount
=============================================================================

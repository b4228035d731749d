----------------------------- MODULE ClassTests -----------------------------
(***************************************************************************)
(* The test programs on the mounted file system: one or two processes,     *)
(* whose system calls the kernel turns into requests to the client of the  *)
(* mount point.  The kernel looks up each component of a path anew (all    *)
(* timeouts are 0) and keeps a directory locked from the lookup of a name  *)
(* to the request that makes or removes it, but only on its own mount.     *)
(***************************************************************************)
EXTENDS KernelRequests, TestPrograms

CONSTANT Scenarios    \* programs: a main process and the child that it may fork

OnDescriptor == {"read", "write"}
Opens == {"open", "append", "creat", "opencreate"}
Makes == {"mkdir", "creat", "opencreate", "symlink"}
Changes == Makes \cup {"unlink"}
OnName == Opens \cup Changes \cup {"readlink"}
OnDirectoryName == OnName \cup {"access", "readdir"}
Local == {"fork", "reap", "lseek"}

\* A sequence of calls with the arguments that they need, in which a file is opened
\* before it is read or written.
IsProgram(calls) ==
    /\ Len(calls) \in Nat
    /\ DOMAIN calls = 1 .. Len(calls)
    /\ \A k \in DOMAIN calls :
          LET call == calls[k]
          IN  /\ call.op \in OnDirectoryName \cup OnDescriptor \cup Local
              /\ call.op \in OnDirectoryName => call.d.mount \in Client /\ call.d.dir \in Name
              /\ call.op \in OnName => call.name \in Name
              /\ call.op = "lseek" => call.pos \in Nat
              /\ call.op = "read" => call.size \in Nat
              /\ call.op = "write" => call.data \in Seq(Byte)
              /\ call.op \in OnDescriptor =>
                    \E j \in 1 .. k - 1 : calls[j].op \in Opens /\ calls[j].want # "error"

ASSUME ScenariosArePrograms ==
    \A s \in Scenarios :
        /\ IsProgram(s["main"]) /\ Len(s["main"]) > 0
        /\ IsProgram(s["child"])
        /\ (\E k \in DOMAIN s["main"] : s["main"][k].op = "fork") => Len(s["child"]) > 0

ASSUME EachStartsOnce ==
    /\ MountOrder \in Seq(Client) /\ Len(MountOrder) > 0
    /\ \A k, l \in DOMAIN MountOrder : MountOrder[k] = MountOrder[l] => k = l

VARIABLES
    scenario,
    proc    \* state of each process

testVars == <<scenario, proc>>

Process == {"main", "child"}

\* A process makes call number next; part is the part of it that is under way, sent
\* says that the client has its request.
NoFile == [mount |-> yfs1, ino |-> Root, pos |-> 0]
Started == [status |-> "running", next |-> 1, part |-> "begin", sent |-> FALSE,
            dir |-> Root, file |-> Root, fd |-> NoFile]
Unborn == [Started EXCEPT !.status = "unborn"]

ClassInit ==
    /\ DirectoryInit
    /\ scenario \in Scenarios
    /\ proc = [p \in Process |-> IF p = "main" THEN Started ELSE Unborn]

Program(p) == scenario[p]
CallOf(p) == Program(p)[proc[p].next]

MountOf(p) == IF CallOf(p).op \in OnDescriptor THEN proc[p].fd.mount ELSE CallOf(p).d.mount

PartOf(p) ==
    IF proc[p].part # "begin" THEN proc[p].part
    ELSE CASE CallOf(p).op = "mkdir" -> "entry"
           [] CallOf(p).op \in OnDescriptor -> "act"
           [] OTHER -> "walk"

\* The request of each part of a call.
RequestOf(p) ==
    LET call == CallOf(p)
        dir == proc[p].dir
        fd == proc[p].fd
    IN  CASE PartOf(p) = "walk" -> LookupRequest(Root, call.d.dir)
          [] PartOf(p) = "entry" -> LookupRequest(dir, call.name)
          [] PartOf(p) = "make" ->
               CASE call.op = "mkdir" -> MkdirRequest(dir, call.name)
                 [] call.op = "symlink" -> SymlinkRequest(dir, call.name, call.link)
                 [] call.op = "unlink" -> UnlinkRequest(dir, call.name)
                 [] OTHER -> CreateRequest(dir, call.name)
          [] PartOf(p) = "act" ->
               CASE call.op = "creat" -> SetattrRequest(proc[p].file, 0)
                 [] call.op = "readdir" -> ReaddirRequest(dir)
                 [] call.op = "readlink" -> ReadlinkRequest(proc[p].file)
                 [] call.op = "read" -> ReadRequest(fd.ino, fd.pos, call.size)
                 [] call.op = "write" -> WriteRequest(fd.ino, fd.pos, call.data)

-----------------------------------------------------------------------------
\* The kernel has the directory locked for a call that may change it.
LockedDirectory(p) ==
    /\ proc[p].status = "running"
    /\ CallOf(p).op \in Changes
    /\ PartOf(p) = "make" \/ (PartOf(p) = "entry" /\ proc[p].sent)

MayLock(p) ==
    \A q \in Process \ {p} :
        LockedDirectory(q) => MountOf(q) # MountOf(p) \/ proc[q].dir # proc[p].dir

\* start.sh starts the clients one after the other and the tests when all of them run.
Mount(c) ==
    /\ \E k \in DOMAIN MountOrder : MountOrder[k] = c /\ mounted = {MountOrder[l] : l \in 1 .. k - 1}
    /\ Take(c, MountRequest)
    /\ UNCHANGED testVars

Mounted(c) ==
    /\ req[c].op = "mount"
    /\ Reply(c)
    /\ UNCHANGED testVars

Send(p) ==
    /\ mounted = Client
    /\ proc[p].status = "running"
    /\ CallOf(p).op \notin Local
    /\ ~proc[p].sent
    /\ PartOf(p) = "entry" /\ CallOf(p).op \in Changes => MayLock(p)
    /\ Take(MountOf(p), RequestOf(p))
    /\ proc' = [proc EXCEPT ![p].sent = TRUE, ![p].part = PartOf(p)]
    /\ UNCHANGED scenario

\* The end of a call.  A process that expects another outcome exits with 1; one without
\* an expectation gives up at an error.
Ended(p, outcome) ==
    LET last == proc[p].next = Len(Program(p))
        givenUp == CallOf(p).want = "any" /\ outcome = "error"
    IN  [proc[p] EXCEPT !.status = IF CallOf(p).want \notin {outcome, "any"} THEN "failed"
                                   ELSE IF last \/ givenUp THEN "exited" ELSE "running",
                        !.next = IF last THEN @ ELSE @ + 1,
                        !.part = "begin", !.sent = FALSE, !.dir = Root, !.file = Root]

Go(p, state) == proc' = [proc EXCEPT ![p] = state]
Continue(p, part) == [proc[p] EXCEPT !.part = part, !.sent = FALSE]

Replied(p, part) ==
    /\ proc[p].sent
    /\ proc[p].part = part
    /\ stage[MountOf(p)] = "done"
    /\ Reply(MountOf(p))
    /\ UNCHANGED scenario

\* The kernel takes an inode without a type for an error.
NameFound(p) == LET m == MountOf(p) IN IsFound(buf[m], req[m].name)
TypeOf(p) == attr[MountOf(p)].type
LookupFound(p) == NameFound(p) /\ TypeOf(p) \in Types
InoOf(p) == ino[MountOf(p)]

\* What each call may be made of.  A link is not followed: no program opens one.
IsFor(op, type) ==
    /\ op \in Opens => type = T_FILE
    /\ op = "readlink" => type = T_SYMLK
    /\ op = "unlink" => type # T_DIR
    /\ op \notin {"mkdir", "symlink"}

\* The file is open, at a position.
Opened(p, i, pos) ==
    [Ended(p, "ok") EXCEPT !.fd = [mount |-> MountOf(p), ino |-> i, pos |-> pos]]

WalkDone(p) ==
    /\ Replied(p, "walk")
    /\ Go(p, IF LookupFound(p) /\ CallOf(p).op = "access" THEN Ended(p, "ok")
             ELSE IF LookupFound(p) /\ TypeOf(p) = T_DIR
               THEN [Continue(p, IF CallOf(p).op = "readdir" THEN "act" ELSE "entry")
                       EXCEPT !.dir = InoOf(p)]
             ELSE Ended(p, "error"))

EntryFound(p) ==
    /\ Replied(p, "entry")
    /\ LookupFound(p)
    /\ Go(p, IF ~IsFor(CallOf(p).op, TypeOf(p)) THEN Ended(p, "error")
             ELSE CASE CallOf(p).op = "append" -> Opened(p, InoOf(p), attr[MountOf(p)].size)
                    [] CallOf(p).op \in {"creat", "readlink"} ->
                         [Continue(p, "act") EXCEPT !.file = InoOf(p)]
                    [] CallOf(p).op = "unlink" -> Continue(p, "make")
                    [] OTHER -> Opened(p, InoOf(p), 0))

EntryMissing(p) ==
    /\ Replied(p, "entry")
    /\ ~LookupFound(p)
    /\ Go(p, IF CallOf(p).op \in Makes /\ ~NameFound(p) THEN Continue(p, "make")
                                                       ELSE Ended(p, "error"))

MakeDone(p) ==
    /\ Replied(p, "make")
    /\ Go(p, CASE CallOf(p).op \in {"creat", "opencreate"} -> Opened(p, InoOf(p), 0)
               [] CallOf(p).op \in {"mkdir", "symlink"} -> Ended(p, "ok")
               [] CallOf(p).op = "unlink" ->
                    Ended(p, IF IsFound(buf[MountOf(p)], CallOf(p).name) THEN "ok" ELSE "error"))

\* What the tests look at: the number of entries and that no name is there twice, the
\* bytes read.
NoDuplicates(dir) == \A k, l \in DOMAIN dir : dir[k].name = dir[l].name => k = l

ActDone(p) ==
    LET m == MountOf(p)
        call == CallOf(p)
        bytes == Slice(buf[m], req[m].off, req[m].size)
    IN  /\ Replied(p, "act")
        /\ Go(p, CASE call.op = "creat" -> Opened(p, proc[p].file, 0)
                   [] call.op = "readdir" ->
                        Ended(p, IF Len(buf[m]) = call.entries /\ NoDuplicates(buf[m])
                                   THEN "ok" ELSE "error")
                   [] call.op = "readlink" -> Ended(p, IF buf[m] = call.expect THEN "ok" ELSE "error")
                   [] call.op = "read" ->
                        [Ended(p, IF bytes = call.expect THEN "ok" ELSE "error")
                           EXCEPT !.fd.pos = @ + Len(bytes)]
                   [] call.op = "write" ->
                        [Ended(p, "ok") EXCEPT !.fd.pos = @ + Len(call.data)])

\* Calls without a request.
LocalCall(p) ==
    /\ proc[p].status = "running"
    /\ \/ /\ CallOf(p).op = "lseek"
          /\ Go(p, [Ended(p, "ok") EXCEPT !.fd.pos = CallOf(p).pos])
       \/ /\ CallOf(p).op = "fork"
          /\ proc["child"].status = "unborn"
          /\ proc' = [proc EXCEPT ![p] = Ended(p, "ok"), !["child"] = Started]
       \/ /\ CallOf(p).op = "reap"
          /\ proc["child"].status \in {"exited", "failed"}
          /\ Go(p, Ended(p, IF proc["child"].status = "exited" THEN "ok" ELSE "error"))
    /\ UNCHANGED <<directoryVars, scenario>>

ProcessStep(p) ==
    \/ Send(p) \/ WalkDone(p) \/ EntryFound(p) \/ EntryMissing(p) \/ MakeDone(p) \/ ActDone(p)
    \/ LocalCall(p)

Serving == DirectoryStep /\ UNCHANGED testVars

AllDone == proc["main"].status \in {"exited", "failed"} /\ UNCHANGED <<directoryVars, testVars>>

ClassNext ==
    \/ \E c \in Client : Mount(c) \/ Mounted(c)
    \/ \E p \in Process : ProcessStep(p)
    \/ Serving
    \/ AllDone

ClassSpec == ClassInit /\ [][ClassNext]_<<directoryVars, testVars>>

\* Somebody goes on as long as anybody can.
FairClassSpec == ClassSpec /\ WF_<<directoryVars, testVars>>(ClassNext)

-----------------------------------------------------------------------------
\* The tests pass: every call ends as the program expects, whichever client serves it
\* and whoever else makes calls, and no process exits with 1.
ChecksSucceed == \A p \in Process : proc[p].status # "failed"

\* The tests end: no request waits for ever for a lock, for its client or for another
\* process.
TestsEnd == <>(proc["main"].status \in {"exited", "failed"})

\* What the kernels of two mounts, and the programs, have to see to.  While a call on one
\* mount makes a name, no call on the other has looked it up to make it, or to unlink it
\* where it becomes a directory; and no name is looked up in the root by a client that has
\* only put it, whose entry has a type that nobody has set.
Contend(p, q) ==
    /\ LockedDirectory(p)
    /\ LockedDirectory(q) /\ PartOf(q) = "make" /\ CallOf(q).op \in Makes
    /\ MountOf(p) # MountOf(q)
    /\ proc[p].dir = proc[q].dir /\ CallOf(p).name = CallOf(q).name
    /\ CallOf(p).op = "unlink" => CallOf(q).op = "mkdir"

RootIsTyped ==
    \A c \in Client : req[c].op = "lookup" =>
        table[c][Root].m_state = "ABSENT" \/ table[c][Root].type = T_DIR

IsOrderly ==
    /\ RootIsTyped
    /\ \A p, q \in Process : p # q => ~Contend(p, q)

\* "Free the file's extent": the server keeps an inode only while the inode has a name, or
\* is getting one, or some client is still to remove it.  (Not so.)
UnlinkedIsFreed ==
    \A i \in Inum \ {Root} :
        \/ server[i] = FreeInode
        \/ \E d \in Directories : i \in Listed(d)
        \/ \E c \in Client : Removed(c, i) \/ (Linking(c) /\ made[c] = i)
=============================================================================

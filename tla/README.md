# A TLA+ model of the naive file system

The program is a distributed file system in the style of the YFS labs. Each
machine runs a FUSE process (`yfs_client` behind `fuse.cc`) that keeps data and
locks in caches; a lock server hands out one lock for each inode; an extent
server holds inodes and data blocks in an array in memory. The three kinds of
processes talk by synchronous RPCs, and the lock server calls its clients back.

## Parts of the system

| part | code | state | operations | model |
|---|---|---|---|---|
| lock server | `lock_server_cache` | per lock: status, holder, queue and set of waiters | `acquire`, `release`; calls `revoke`, `retry` | `LockServerCache` |
| lock client | `lock_client_cache` | per lock: status, `revoke` and `retry` flags, two condition variables | `acquire`, `release`; handlers of `revoke`, `retry` | `LockClientCache` |
| handle manager | `handle.cc` | connections of the lock server to its clients, with counts | `get_handle`, `safebind`, `done_handle`, `delete_handle` | `HandleManager` |
| extent cache | `extent_client_cache` | per extent: state, data, attributes; a mutex | `get`, `getattr`, `put`, `create`, `remove`, `flush` | `ExtentClientCache` (one extent, each RPC), `ExtentTable` (all extents, each operation) |
| files | `yfs_client` | none of its own | `read`, `write`, `setattr`, `getfile`, `isfile` | `FileData`, `FileService`, `DirectoryService` |
| directories, links | `yfs_client` | the entries, as text in the directory's extent | `addfile`, `find`, `lookup`, `readdir`, `unlink`, `symlink`, `readlink` | `DirectoryData`, `DirectoryService`, `NameCodec` |
| FUSE | `fuse.cc` | none; one request at a time (`fuse_session_loop`, line 628) | one handler for each kind of request | the requests of `DirectoryService`, `FileService` and `KernelRequests` |
| extent server | `extent_server` | none of its own | `create`, `put`, `get`, `getattr`, `remove` | `ExtentServer` |
| inode layer | `inode_manager` | inode table on the disk, `next_inum` | `alloc_inode`, `free_inode`, `read_file`, `write_file`, `remove_file` | `InodeManager` |
| block layer, disk | `block_manager`, `disk` | blocks, `using_blocks`, `next_block` | `alloc_block`, `free_block`, block reads and writes | `BlockManager` |
| test programs | `test-lab-3-a.c`, `test-lab-3-b.c`, `test-lab2-*` | one or two processes with open files | system calls on two mounts | `TestPrograms`, `ClassTests`, `ProgramInvariant` |
| plain lock server, client, extent client | `lock_server.cc`, `lock_client.cc`, `extent_client.cc` | a table of locks; none | base classes, superseded by the caching ones | not modelled |
| lock tester, demos, helpers | `lock_tester.cc`, `demo_*`, ... | | drivers, clock, logging | not modelled |
| RPC library | not in the repository | | `call`, `reg`, `rpcs` | external assumptions below |

How they interact. A FUSE request takes the lock of its inode (`LockGuard`),
works on the extent through the cache, and lets the lock go. The lock client
keeps a lock after `release` until the server revokes it. Before a lock goes
back, `dorelease` (`lock_release_user`) flushes the extent, so the lock protocol
carries the coherence of the write-back caches: when it breaks, data are lost.

What is hard. Revoke and retry calls overtake the replies they refer to; the
client drops its mutex around every call; the server calls a client from inside
another client's call; one `pthread_cond_signal` picks any waiter, or nobody.
Caches are right only while the lock is held, but some lookups happen without,
an inode is made before anybody has its lock, and `unlink` marks a file with the
lock of the directory only. A path is looked up by one request and acted on by the next.
The extent server runs its handlers on several threads without a mutex.
`PROJECT.json` lists each such hazard at its line.

What makes each part correct:

- locks: exclusion, over clients and over the threads of one client; hand-overs
  addressed to the right client, once; no lost wake-up; service of whoever asks;
- connections: a handle never outlives its connection, an answer is final;
- caches: data cached only under the lock, fetched and flushed without losing an
  update, so that all clients see one file; sizes that are those of the file;
- file operations: gaps filled with `'\0'`, everything else kept;
- directories: one listing for all clients, no lost entry, no name twice, no
  name of a removed extent; the test programs pass on two mounts and end;
- extent server: no block with two owners, none lost, data behind the inode
  table, contents of each extent those of its last put.

## Modules

### Locks

`LockProtocol` declares the state, for one lock: entries of different locks
never touch each other. Every RPC is synchronous, so a chain of nested calls
(acquire, the revoke made in it, the release made in that, the retry made in
*that*) has one thread at its root. `pc[t]` says where the chain of thread `t`
is, `reply`, `releaser` and `callee` hold the arguments and results on their
way. `LockServerCache` and `LockClientCache` have one action for each critical
section of the code; what happens after a mutex is dropped is another step.

| action | code |
|---|---|
| `ServerAcquire` = `AcquireFree` / `AcquireLocked` / `AcquireFront` / `AcquireWaiting` | the cases of `lock_server_cache::acquire` |
| `ServerRelease` | `lock_server_cache::release` up to the retry call |
| `AcquireNone`, `AcquireCached`, `AcquireBusy` | the switch of `lock_client_cache::acquire`, also after `recheck` |
| `AcquireReturn`, `AwaitRetry`, `RetryWoken` | its request loop |
| `ReleaseToServer`, `ReleaseToCache`, `DoRelease`, `ReleaseReturn` | `lock_client_cache::release` |
| `RevokeHandler`, then `DoRelease`, `ReleaseReturn` | `revoke_handler` |
| `RetryHandler` | `retry_handler` |
| `SpuriousWakeup`, `SignalAndGoto` | what POSIX lets a condition variable do |

`LockService` composes the two and states the properties. `DistributedLock` is
what users are promised: an owner among the clients, and a thread inside. In the
refinement the owner is the server's record `clientId` and the insiders are the
threads between acquire and release. `LockInvariant` holds the inductive
invariant.

`HandleManager` is the table through which the server reaches its clients.
`GetHandle` and `DoneHandle` are the constructor and destructor of a handle, under
the mutex of the table; `SafebindBinds`, then `Bound` or `BindFailed`, are a
`safebind` that holds the mutex of one connection while it binds, so that the
table may change meanwhile; `SafebindReturns` is one that finds an answer there.
`Forgotten` are addresses for which a program calls `delete_handle` (this one
never does). A place in `Info` is used again after its deletion, so a handle that
outlives it would be seen to point to another connection.

### Files

`FileData` has what `write` and `setattr` make of a sequence of bytes.
`FileRequests` compares it, and `read`, with what the comments of `fuse.cc` ask
for, byte by byte. `ExtentClientCache` is the cache of one extent in every
client; its operations hold the cache's mutex through their RPC, so each is one
action, except the `get` of an extent that is not there, which makes two RPCs
(`GetDataFirst`, `GetAttrNext`). `FileService` puts requests on top of the cache
and the whole lock service: `stage[t]` names the next step of the request
`req[t]`.

| action | code |
|---|---|
| `Start`, `IsFile` | the handlers of `fuse.cc`; `isfile` looks up attributes without the lock |
| `Acquire`, `Unlock` | `LockGuard` |
| `GetattrStep`, `GetStep`, `PutStep`, `FlushStep` | the calls that `getfile`, `read`, `write` and `setattr` make |
| `ReturnLock` | `lock_release_user::dorelease`, at the place of `DoRelease` |
| `LockStep` | everything that the lock service does by itself |

`Contents`, the data that a client has modified or else those of the server, is
what the file holds; `AtomicFile` is a file with atomic writes, implemented with
`contents <- Contents`. Its `Truncate` may start from an old size, which is what
setattr does (see Findings). `FileInvariant` is the inductive invariant.

### Directories

`ExtentTable` is the extent cache again, for all extents, with types, creation
and removal, and one step for each operation: what happens inside an operation
is in `ExtentClientCache`. `DirectoryData` has what `addfile`, `find` and `unlink`
make of the entries of a directory. `DirectoryService` has the requests of
`fuse.cc`, on all inodes, with a lock for each as `DistributedLock` promises it:
the owner lets its own request in, and gives the lock back, after the flush
(`FlushForRelease`, `Release`), when another client waits. That composition
is what the refinement of `LockService` is for: the protocol is not explored again.

| action | code |
|---|---|
| `Take` | the request loop; one request at a time in each client |
| `Grant`, `EnterAgain` (with `Enter`), `Unlock`, `UnlockLink`, `UnlockStat` | `LockGuard` |
| `IsDir`, `Typed` | the type looked up without the lock: `readdir`, `getattr` of `fuse.cc` |
| `GetattrStep`, `GetStep` | what `find`, `readdir`, `read`, `setattr`, ... begin with |
| `CreateStep`, `GetStep`, `PutStep` | `addfile`; the new inode is made under the directory's lock and without its own |
| `GetStep`, `RemoveStep`, `PutStep` | `unlink`; the extents found are marked before the directory is put |
| `PutLink`, `FlushStep` | the second half of `symlink` |
| `Stat` | `getfile`, `getsymlink`, `getdir` |
| `MountRequest` | the constructor of `yfs_client`, which puts an empty root |

`NameSpace` is what a user is promised: listings in which a name is given and
taken back in one step, to an inode that had none. It holds of what a kernel may ask
for and not of any requests, since the handlers look neither at the type of an
inode (`fuse.cc:445`) nor at whether a name is taken (`yfs_client.cc:222`).
`KernelRequests` says what that is (`Asks`): requests that fit the type of their inode
(`FitsInode`), names to make that are not there (`NameIsNew`), no unlink of a directory
(`UnlinksFiles`), all of which the kernel has looked up; and no two mounts that at one
time make one name, or make a directory of the name that the other unlinks (`Clash`).
That last part no kernel sees to: whoever uses two mounts must, and `class_same_file`
shows what happens otherwise. `NameInvariant` holds the inductive invariants.

`ClassTests` puts the repository's test programs (`TestPrograms`) on top, as processes
whose system calls a kernel turns into requests, such as these (`RequestsFit`): `WalkDone`, `EntryFound`, `EntryMissing`,
`MakeDone`, `ActDone` are what it does with the reply to each part of a call. The
kernel caches nothing (all timeouts are 0) and keeps a directory locked from the
lookup of a name to the request that makes or removes it, on its own mount. It goes on only
with what a call may be made of (`IsFor`: a file to open, a link to read, no directory to
unlink). Each call
says how it has to end; one that ends otherwise is the `exit(1)` of the test.
Besides the tests there are `Pairs`: all pairs of six things that two processes
may do to one directory and one file in it, on one mount or on two, with no
outcome prescribed.
The programs are a constant (`Scenarios`), of which `ScenariosArePrograms` asks that calls have
their arguments, that a file is opened before it is read or written, and that a process which
is forked has something to do. What two mounts have to see to between themselves is
`IsOrderly`: they do not `Contend`, each with the directory locked on its own side, for one name
to make (or to unlink, where the other makes it a directory), and nobody looks a name up in a
root whose type nobody has set (`RootIsTyped`). `ProgramInvariant` holds the inductive
invariant, and a condition on the programs alone under which no mounts contend (`NamesApart`).

`NameCodec` is the encoding of names in the text of a directory, two letters for
each signed char. It has theorems and no run.

### Extent server

`BlockManager` and `InodeManager` are the two lower layers as operators on the
disk; `ExtentServer` has the handlers. `alloc_inode` and `alloc_block` look for
something free in one step and take it in another (`FindInode`/`TakeInode`,
`FindBlock`/`TakeBlock`), which is where threads get in each other's way;
everything else of a handler is one step. A block of data is one value, a size
counts blocks, and a block remembers what was last written to it, so that an
inode or an address table that is overwritten with data reads as garbage. Where
memory is not initialized (`sb.nblocks` in the constructor, an address read
through a block off the disk), the constants `StaleNblocks` and `StaleBlock` give
its contents, and so does a block read for an inode whose size is beyond `MAXFILE`.

What keeps requests apart is the lock of an extent, which is not here: while a put
into extent `i` is under way no other put, get or remove of `i` is served (`Serves`). A create has
no lock. It may be about to take the very inode that another create has taken and a put
has filled. `exit(0)` stops all handlers, and `status` says why: `"full"` when
`alloc_block` or `alloc_inode` finds nothing, `"refused"` when `free_inode` is asked for
an inode that is free or `read_file` finds a size that no file has.

`ExtentStore` is what the server promises: a map from extents to the data of their
last put. A put counts from its start, since nobody else may get the extent
until it is answered. The code keeps the promise only without three faults, which it does
nothing to prevent and which `NoFault` names: allocations that overlap
(`AllocationsAreApart`), a search for blocks that does not start in the data
(`StartsInDataArea`), and files with an indirect block (`FilesAreDirect`).
`FaultlessSpec` has the behaviours without them. `ExtentInvariant` holds the inductive invariant.

## Runs

| run | instance | what it shows |
|---|---|---|
| `lock_service` | 3 clients, 5 threads, two clients with two threads; fairness | exclusion, one retry per hand-over, revokes that find their holder, the refinement of `DistributedLock`, service of whoever asks, return of what is revoked |
| `file_service` | 2 clients, one thread each, 2 byte values, all requests; fairness | caches covered by locks, requests that work on current data, no lost update, the refinement of `AtomicFile`, an answer to every request |
| `file_setattr` | as `file_service` | **violated**: a `setattr` may leave another size than the one asked for |
| `file_requests` | all files up to 4 of 3 byte values, all offsets and sizes | `write`, `read`, `setattr` against the comments |
| `extent_apart` | 11 blocks, 3 inodes, 2 handlers, files of 1 and 2 blocks; `FaultlessSpec` | requests that interleave, but for their allocations, implement `ExtentStore`, give no block twice, lose none, and exit only when full |
| `extent_concurrent` | the same disk, two handlers | **violated**: two files get the same block |
| `extent_indirect` | 16 blocks, files of up to 4 blocks, one handler | **violated**: files with indirect blocks share them |
| `extent_layout` | `StaleNblocks` is 0 | **violated**: data are written over the inode table |
| `class_tests` | 2 mounts, 15 inodes, the test programs and 72 pairs; fairness | the tests pass and end, data stay with their lock, removed extents are in no directory, the refinement of `NameSpace`; mounts do not contend (`IsOrderly`), and the requests are those that the theorems speak of |
| `class_same_file` | the test "Concurrent creates of the same file" | **violated**: two entries of one name |
| `unlink_leak` | the pairs | **violated**: an unlinked extent is never freed |
| `handles` | 3 threads, 2 addresses, 3 places; fairness | handles are live and counted, safebind keeps its answer, a failed connection is forgotten |

Bounds, and why they are enough. Three clients are what a hand-over needs: one
that holds the lock, one that waits, one that arrives meanwhile. Two threads of a
client are what its mutex, its flags and its signals need, and two such clients
let one be revoked by the other while both have threads waiting. The theorems
below hold for any number. In the file runs a writer and a reader on different
clients tell lost updates from kept ones; two offsets and two sizes make writes
that overlap, extend and leave gaps, and setattrs that cut and pad. `MaxLength`
bounds the file: `Start` takes up a setattr only for a file not longer than that. The
small disk has two blocks of data behind the inode table for three files of up
to two blocks each: they take blocks from one another as they shrink and go, the
search for a free block wraps round, and it runs into `exit`. Two handlers let a put meet
another put, a create, a remove and an exit at each of its steps. With
`NDIRECT = NINDIRECT = 2` a file of three blocks needs its indirect block; that
run has a larger disk, with seven blocks of data. The test programs are run as
they are, with two files for ten and a few units of data for thousands of bytes:
what the second file, a block more or another program adds is in the theorems
about any requests and any programs. `MaxInum` is more than any program makes; inodes are never
free again. Two processes are what the programs have, and each pair of their calls
meets in every order. Three handles let one thread bind while one comes and one goes.
Deadlock is checked in all runs but those of the extent server, which stops for
good when it exits; in `ClassTests` only the end of the main process may stop (`AllDone`).

Fairness. A thread that has been signalled or whose call has returned runs again
(POSIX threads), calls are delivered and handlers run (RPC), a user that has the
lock releases it (every `yfs_client` operation holds it in a scope). Nobody has
to make a request, and nobody has to wake up unsignalled. Nothing is assumed of
the order in which the threads of one client get its mutex or are signalled: so
`ClientIsServed` speaks of a client and not of each of its threads, which may
starve. In `FileService` each client has one thread because `fuse_session_loop`
serves one request at a time; there the request of every thread is answered.
`FairClassSpec` only says that somebody takes a step as long as anybody can: the
programs are finite and nothing in them repeats, so that alone must bring them to an end.
`FairHandleSpec` says that a bind ends (it has a timeout) and that a handle, an automatic variable,
is destroyed.

## Findings

- **Old sizes, wrong truncation** (`file_setattr`). A cache comes by attributes without
  the lock: `create` leaves an entry of size 0 that no lock covers
  (`extent_client_cache.cc:19-22`), and `isfile` (`yfs_client.cc:45`) has the answer to its
  `getattr` kept. Taking the lock does not drop
  it, so the `getattr` under the lock returns a size from before another
  client's write, where `fuse.cc:36-38` promises correct sizes. `setattr`
  (`yfs_client.cc:205`) compares the size asked for with such an old size and not
  with the length of the data: it cuts or pads from the wrong length.
- **Blocks given twice** (`extent_concurrent`). `find_fit_block`
  (`inode_manager.cc:40`) looks and marks without a mutex while the RPC server
  has several threads. `alloc_inode` has the same gap.
- **Shared indirect block** (`extent_indirect`). Nothing allocates the block that
  `ino->blocks[NDIRECT]` names (`inode_manager.cc:302`): it is block 0 for every
  inode but the root's, which is not initialized, so the second file that needs
  one overwrites the addresses of the first.
- **Data in the inode table** (`extent_layout`). The constructor uses
  `sb.nblocks` before it is set (`inode_manager.cc:75`).
- **Names given twice** (`class_same_file`). `addfile` (`yfs_client.cc:222`) appends
  without looking, against `fuse.cc:233`. The kernel has looked, so one mount is
  safe; two mounts may both look before either creates. The test then stops where it counts
  the entries (`test-lab-3-a.c:346-348`).
- **Extents never freed** (`unlink_leak`). `flush` of a removed extent
  (`extent_client_cache.cc:187`) calls the remove RPC without its argument, and
  comes only when another client asks for that lock.

These shape the other runs: `AtomicFile` cuts from any size, `extent_apart` rules out the
three faults of the extent server, and `class_tests` leaves out
the test of `class_same_file` and gives the two processes of a pair different names to create.

## Proofs

All for any clients and threads, under `ClientOfType` (each thread belongs to a
client) and `NoClientIsNone` (the empty id is no client's).

`LockServiceProofs`. Mutual exclusion is not inductive: in WAITING the server
grants to the front of its queue without looking at the holder, so what must be
known is that the front asks again only after the holder's release has arrived.
`IInv` adds: calls are well formed (`CallsAreWellFormed`), a client has one
thread in the protocol or in the lock (`OneOccupant`), one release of a client is
under way (`OneReleaser`), whoever acts as the holder is on record
(`HoldersAreOnRecord`) and whoever asks is not (`OffRecord`), queue and set agree
(`Queue`), and one token, a retry call, a retry flag or a repeated request,
exists only for the front of the queue of a returned lock (`OneToken`).
Each action preserves it in a lemma of its own. `TypeCorrect`, `OnRecord` and
`Exclusion` follow.

`RInv`, on top of `IInv` and in the same module, is about the way back: a revoke call or flag is
there only while clients wait and finds its client able to return the lock
(`RevokesAreDue`, `FlagsAreDue`), a lock is on its way back only because of one
(`ReturnsAreDue`), while clients wait their holder has been asked or is being asked
(`HolderIsAskedBack`), and after its return the hand-over goes on (`HandOverGoesOn`). It gives
`RevokesFindHolders`, `HoldersAreAsked`, `ReturnsAreOnDemand`, `QueueIsConsistent`
and `RetriesAreSingle`: every safety property of the lock run is a theorem.

With `IInv`, each step is a step of `DistributedLock` or changes neither the record nor who
is inside (`Refinement`).

`FileDataProofs`. The three properties of `FileRequests`, together and each by itself, for
every bound on the length (assumption `BytesAndChunks`: `NUL` is a byte, chunks are
sequences of bytes).

`FileServiceProofs`. A behaviour of `FileService` is one of `LockService`
(`UsesLockService`), so `IInv` holds there. `FileInv` says what the caches add: a
client with data is on record and has not flushed for a release under way,
unmodified data are the server's, a request past its `get` works on `Contents`,
and a `get` between its two RPCs has the lock and an empty entry. It gives
`CachesAreCovered`, `HoldersAreCurrent` and `PutsChangeContents`; with `Values`, that extents
stay sequences of bytes and requests come by their own stages (assumption
`RequestsAreWellFormed`: the kernel sends numbers for offsets and sizes), it gives the
refinement of `AtomicFile` (`FilesAreAtomic`) and, where `Data` is every sequence of bytes,
`FileTypeOK`: the code bounds no file, the runs do.

`DirectoryServiceProofs`. Three invariants, each on top of the one before.

- `DInv`, for any inodes, clients and requests: whoever is inside a lock owns it and is not
  giving it back (`InsideIsOwner`), data are with the owner (`DataOfOwner`), what an operation
  has got is still in its table (`InHandIsCached`), and a request stays on its inode until it
  has the answer (`WorksOnInode`). It gives `CachesFollowLocks` and `OperationsAreCurrent`: no
  change of a directory is lost (assumption `MaxInumIsPositive`: there is a root).
- `TypeInv`, for the requests of a kernel (`KernelSpec`; assumption `NulIsByte`: what pads a
  file is a byte): inodes hold what their types say (`InodesFit`), so do the entries that
  clients keep of them (`EntryFits`), and a request makes only the calls of its operation, on
  the inode that it names and then on the one that it has found or made (`RequestFits`).
  It gives `DirTypeOK`.
- `NameInv`, for the same requests: an inode has one name in one directory (`NamedOnce`); what
  has been removed is on no list but the one that the client which has removed it is about to
  put without it (`RemovedIsLeaving`); what is about to get a name has none and is nobody
  else's (`NamelessIsNew`); what the kernel knew of a name when it asked is still so when the
  name is made or taken back (`NameStays`); and directories are empty until all clients have
  mounted (`MountsComeFirst`). It gives `RemovedIsUnlisted`, and with it each step leaves all
  listings as they are, or is a `CreateStep`, which makes a nameless inode, or a `PutStep`,
  which links it or takes a name back: the refinement of `NameSpace`
  (`DirectoriesAreOneNameSpace`). Here exclusion, the flush before each release, the order of
  `remove` and `put` in `unlink`, and of `create` and `put` in `addfile`, all come together.

`ClassTestsProofs`. `KernelSpec` says what a kernel asks for; these theorems say that it does, for
any programs of two processes, any clients and mount points (assumptions `ScenariosArePrograms`
and `EachStartsOnce`: `start.sh` starts each client once). The hypothesis is `[]IsOrderly`, which
`class_tests` checks of its programs and `class_same_file` shows to be needed. `ClassInv` is
`DInv`, `TypeInv` and `NameInv` with two invariants more.

- `AnswerInv`: an answer to a lookup is right about the type of the inode (`Answers`), because
  cached types are those of the server (`TypesAgree`, but for the root and between the put and
  the flush of a link), inodes keep their types (`KernelKeepsTypes`), and the inode that a create
  answers with is a file (`HasMade`).
- `ProcessInv`: the client of a process that waits works on the request of its call and on
  nobody else's (`Waits`, `IsServed`); a process has the inodes that its call needs (`IsAt`); a
  mount has a directory locked for one call at a time (`LockedOnce`); and what a call has looked
  up stays so until it has made or removed the name: a name that was not there is not given
  (`KnowsNew`), and one that is unlinked is no directory's (`KnowsFile`). The last two are where
  the kernel's lookup and the request that follows it are two requests with other processes in
  between: on the same mount the directory is locked, on another one `Contend` is excluded.

`ProgramsMakeKernelRequests` is the refinement of `KernelSpec`; with it `RequestsFit`
(`ProgramsRequestsFit`), `ImplementsNameSpace` and the invariants of `DirectoryService`
(`ProgramsShareOneNameSpace`) hold under any orderly programs. For programs whose processes change
names of their own, or on one mount (`NamesApart`: 64 of the 79 of the run), the order of calls
does not matter, and only `RootIsTyped` is left of the hypothesis (`ProgramsApartRequestsFit`).
The proof found two `CASE` expressions of `ClassTests` whose arms overlapped: TLC takes the first
arm that fits, the logic leaves open which; they are now `IF`.

What the loop of `unlink` keeps, and in which order, would be an induction on the length of the
directory; it is proved from the least place at which a property of what is kept would fail.

`HandleManagerProofs`. `HInv`: of the threads of one hinfo at most one binds, and only where no
connection is (`BindersAreAlone`), and what safebind has answered can be read off the
hinfo (`ResultsAreKept`). It gives `HandlesStayLive`, `HandlesStayCounted` and
`SafebindAnswersOnce` for any number of threads (`ThreadsAreFinite`, since handles are counted) and any
addresses that are not the null pointer (`NULLIsNone`).

`NameCodec`. Encoded names have no white space (`NamesAreWords`) and decode to what
they were (`NamesAreKept`), for names of any bytes.

`ExtentServerProofs`. For any disk, any number of inodes and any data that `DataFit` allows,
in three layers (`ExtentInvariant`), each on top of the one before.

- `ServerInv`, for any number of handlers that overlap as they like: the disk holds
  well-formed blocks, a handler has an inode in hand that is not free, the root is never free,
  and an exit for want of space had that reason. It gives `ServerTypeOK` and `ExitsOnlyWhenFull`: the two scans of
  `alloc_block` and of `alloc_inode` leave nothing out. The run checks the two without the three
  faults, the theorems with them: only these speak of a disk whose inodes have been overwritten with
  data, and so of the exit of `read_file`, which needs one.
- `AreaInv`, for any number of handlers, if the first search starts in the data
  (`StartsInDataArea`): it gives `DataFollowInodeTable`. `extent_layout` shows that the
  hypothesis is needed: all depends on what `sb.nblocks` holds before it is set.
- `FilesInv`, for any number of handlers as long as `NoFault` holds: the theorems are
  `ServerSpec /\ []NoFault => ...`. One put into an extent is under way at a time (`OnePutEach`,
  from `Serves`). Each used block is held by one place of one file and each held block is
  used (`OwnersAreUnique`, `HeldIsUsed`, `UsedIsHeld`), where a file that a put is at work on
  holds what the put has in hand; that copy agrees with the inode on the disk as far as it goes
  (`PutsAreOnTheirWay`); and a block or an inode that has been found is still free when it is
  taken (`FindsAreFree`), which other handlers see to only because no two allocations overlap.
  A step changes who holds what in one of three ways: not at all, one extent gives up its
  last blocks, or one gets a free block (`OwnersStay`, `OwnersShrink`, `OwnersGrow`); and all
  other handlers keep what they have (`KeptByStep`). It gives `BlocksHaveOneOwner`,
  `NoBlockIsLost` and the refinement of `ExtentStore`: only taking an inode, starting a put and
  removing a file change what is read, each for one extent. Each of the three conditions is needed:
  without it `extent_concurrent` and `extent_indirect` find two owners of a block, the latter
  with a single handler, and `extent_layout` finds data among the inodes. So the theorems do not
  say that this code is free of these faults; they say that what the model has of it goes wrong in no other way.

That data which go to one block twice leave the last of them (`LastExists`) would be an induction
on their number; it is proved from the well-foundedness of the subsets of a finite set.

Model-checked only: the liveness properties and `FailedIsForgotten` (TLAPS has no rules for
fairness that reach them); `ChecksSucceed`, which is about what these programs expect; and
`IsOrderly`, which is about the order of their calls, and in which `RootIsTyped` depends on
which client looks at the root first after the start. `class_tests`, whose programs are orderly,
whose requests fit and which does everything that the theorems about names speak of, shows that their
hypotheses are met. `IInv`, `RInv`, `FileInv` and the other inductive invariants are proved and in no run:
the properties that they give are.

## What is left out

- RPCs are delivered once and return; no time-outs, no failing calls, no crash of
  a process. The servers' thread pools are large enough: their size, and how calls queue
  for them, is the RPC library's, which is not in the repository. In the lock service
  `safebind` succeeds; `HandleManager` has the other case.
- Access and modification times, printing, the statistics of the lock server, the length
  of a `readdir` reply, `statfs`.
- On the extent server, bytes within a block: a size counts blocks. Data longer than
  `MAXFILE` overrun a buffer there; requests are within it (`DataFit`). Puts into an extent that has been
  removed are left out: the `remove` RPC of the clients never arrives, as its argument is
  missing (`unlink_leak`). What two threads inside one call of `std::map` do to
  `using_blocks` is undefined, and not modelled: a look or a change is one step.
- In `FileService` the extent server is one value with atomic operations: its
  handlers for one extent do not overlap while the lock is held, and a lookup
  without the lock is one read. `ExtentServer` treats the overlap of requests for different
  extents. The file exists from the start and is not removed; creation and removal
  are in `DirectoryService`.
- A client that starts while another is in use: its constructor empties the root. In the
  runs all clients have started before the programs begin, as in `start.sh`.
- The type that `put` leaves uninitialized in a new entry is a value that is no type (`StaleType`).
- The plain lock server, lock client and extent client are base classes that no program
  registers or calls any more: `lock_smain.cc` and `yfs_client.cc` use the caching ones.
- `lock_tester` and the demos drive the RPC library; what the tester asserts is
  `MutualExclusion`.

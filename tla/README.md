# Verification of the CBE

The Consistent Block Encrypter (CBE) is a library that turns a block device
into an encrypted, integrity-protected virtual block device with snapshots. It
is written in Ada/SPARK (`src/lib/cbe`, `src/lib/cbe_common`), and embedded in
Genode components written in C++ (`src/lib/vfs/cbe`, `src/app`). This directory
holds TLA+ models of it, TLC configurations that check them on small instances,
and proofs for all instances that TLAPS checks. Paths of the program are given
without the leading `src/` of the repository's copy.

Contents: 1 the system, 2 the modules, 3 the runs, 4 the proofs, 5 findings,
6 what is not modelled, 7 the plan.

## 1. The system

### How it runs

There are no threads. The front end calls `CBE.Library.Execute` again and again
(`_execute_cbe` in `vfs.cc`, the main loop of `cbe_tester`), and one call lets
each module make some progress. A module keeps *jobs*: it accepts a primitive
(`Submit_Primitive`), works on it in `Execute`, shows the primitives it needs
from other modules (`Peek_Generated_Primitive`, `Drop_Generated_Primitive`),
takes their answers (`Mark_Generated_Primitive_Complete`), and shows its own
answer (`Peek_Completed_Primitive`, `Drop_Completed_Primitive`). The library
carries primitives from one module to another. What makes it hard is what
happens *between* two steps of a job: other jobs of the same module, writes of
clients, a sync, an eviction, or the end of the component. Whatever a module
finds that it does not expect makes it `raise Program_Error`, which stops the
component.

    clients
      |  Submit_Client_Request / Peek_Completed_Client_Request
    Request_Pool --------- Superblock_Control --- Trust_Anchor
      |                        |        |    \--- Crypto (keys)
    Virtual_Block_Device   VBD_Rekeying  FT_Resizing, MT_Resizing
      | (Translation)          |        |
    Write_Back --- New_Free_Tree --- Meta_Tree
      |                 |               |
      +------- Cache ---+---------------+        (blocks of the trees)
      |          |
      +------ Block_IO ------ I/O job of the VFS plugin ------ device

### Components

| Component | State it keeps | Operations | What is hard | What makes it correct |
|---|---|---|---|---|
| `Cache` | jobs (read, write, sync) with their data, slots with a block each | submit, execute, drop, mark; generates reads and writes of blocks, and a sync | two jobs for one block; a slot under way to the device that is written again; a sync among writes; running out of slots | a block is in one slot only; a clean slot is what the device holds; a sync means that all is on the device; reads return the last write |
| `Request_Pool` with `Generic_Index_Queue` | jobs with a request each, a queue of job indices | submit, execute, drop; generates the blocks of a read or write and the steps of a rekeying | requests that overtake a rekeying between two of its steps; limits of the pool; resuming after a restart | one request at a time; answers in order; nothing lost or starved |
| `Block_IO` with the I/O job of the VFS plugin | entries for requests to the device; the job that is carried out | submit, drop; in progress, completed | partial transfers, failure half-way | success only for whole blocks, each request taken and completed once |
| `Superblock_Control` | the superblock, its slot, the current generation, a job | sync, create and discard a snapshot, rekeying, extension steps, start, end | the order in which superblock, blocks and hash become durable; a stop at any point; snapshots that are kept, secured, current or disposable | at any time the newest superblock on the device is complete and readable; kept snapshots do not change |
| `Virtual_Block_Device`, `Translation` | one walk from the root of a snapshot to a leaf | submit, resume, suspend | the tree changes while it is walked; the key of an address during a rekeying | each node is compared with the hash in its parent; the leaf of the right snapshot is found |
| `Write_Back` | one branch whose nodes are being updated | submit, execute | the new root must not be seen before its branch | root and branch fit together |
| `New_Free_Tree` | a walk through the free tree, with the blocks to exchange | submit, execute, retry after a sync | whether a freed block is still needed by a snapshot or by the superblock on the device; both trees change at once | no block in use is handed out |
| `Meta_Tree` | a walk through the meta tree | submit, execute | the tree that serves the free tree's own blocks | no block handed out twice in a generation |
| `VBD_Rekeying` | the snapshots, the branch that is rekeyed | rekey an address, extend the tree | nodes shared between snapshots; a new snapshot between two steps | each block is rekeyed once, for all snapshots that share it |
| `FT_Resizing`, `MT_Resizing` | the branch that is added | extend the tree | a new root; a stop between two steps | all added blocks are reachable |
| `Crypto`, `External.Crypto` | jobs, keys | encrypt, decrypt, add and remove keys | keys and jobs that outlive each other | a block is decrypted with the key it was encrypted with |
| `Trust_Anchor` | jobs, the private key, the secured hash | create, encrypt, decrypt a key, secure a superblock | what is secured must be on the device | see `Superblock_Control` |
| `Library` | all of these, the superblock, buffers | `Execute`, requests of clients, I/O requests | the order of the modules in a pass; buffers shared between them | no answer reaches the wrong job |
| VFS plugin | the front-end request, two helper requests, the enqueued handle, the I/O job, states for the control files | calls for the data file and the control files, signals of the device | requests that are not aligned and are turned into helper requests; one queue of answers for all; who is woken by which signal | the data file is a file of bytes; the control files tell the truth; nobody waits for a signal that is used up |
| VFS replay (`vfs_replay`) | the request of its list that it carries out | call, go on when told of progress | calls that are queued, answered in part; a signal that the plugin sees first | each request is finished and stored |
| Tester (`cbe_tester`) | the list of tests, flags, the library at work, one packet | pass through all handlers, change of library | one device for four libraries; whose request is complete; tests that end at once | the list comes to its end, failures are reported, one library at a time on the device |
| Initializers (`cbe_init`) | the trees under construction | one sequential pass | none but the arithmetic of trees | the checker finds no fault |
| Stand-alone tools (`cbe_init`, `cbe_check`, `cbe_dump`) | one request, one I/O buffer | one pass | none beyond the tester's | as in the tester |
| Checker, dumper (libraries) | position of a tree walk | one sequential pass | none | finds each wrong hash |

`PROJECT.json` lists them with their source files, with what is modelled of
each, and the hazards of the code, each with the properties that cover it.

## 2. The modules

| Module | Models | Interface |
|---|---|---|
| `BlockStore` | what the cache promises: the last completed write is read, a sync means stable | abstract |
| `Cache` | `cbe-cache.adb`, `Execute_Cache` and the part of `Execute_IO` and `Block_IO` that serves it, the back end | refines `BlockStore` |
| `CacheProofs` | theorems about `Cache` | |
| `RequestQueue` | what the request pool promises: answers in order, but for requests that may overtake a rekeying | abstract |
| `RequestPool` | `cbe-request_pool.adb`, `cbe-generic_index_queue.adb`, `Execute_Request_Pool`, the clients | refines `RequestQueue` |
| `RequestPoolProofs` | the inductive invariant of `RequestPool`, and that it implements `RequestQueue` | |
| `BlockIO` | `cbe-block_io.adb` and the state machine of `io_job.h` | |
| `BlockIOProofs` | theorems about `BlockIO` | |
| `SuperblockControl` | `cbe-superblock_control.adb`, `Execute_SB_Ctrl`, the end of `Execute_Writeback`, and the effects of the modules it uses | |
| `SuperblockProofs` | what the trust anchor secures, and the keys at the crypto module: theorems about `SuperblockControl` | |
| `SnapshotsProofs` | types, the snapshots in memory and on the device, Program_Error: theorems about `SuperblockControl` | extends `SuperblockProofs` |
| `MetaTree` | `cbe-meta_tree.adb`: a request for a block, and the nodes of trees | operators |
| `FreeTree` | `cbe-new_free_tree.adb`: a request for the blocks of a branch | operators, extends `MetaTree` |
| `SnapshotStore` | what the virtual block device promises: the data written last, and snapshots that do not change | abstract |
| `WritePath` | `Execute_SCD`, `Execute_Free_Tree`, `Execute_Writeback`, `cbe-write_back.adb`, `cbe-translation.adb`, `cbe-vbd_rekeying.adb`, and what the superblock control changes | extends `FreeTree`, refines `SnapshotStore` |
| `WritePathProofs` | the inductive invariant of `WritePath`: no block is lost or used twice, the free tree of the secured superblock stays readable, no allocation meets a block with another hash | |
| `ByteFile` | what the data file of the VFS plugin promises: a file of bytes | abstract |
| `Vfs` | `vfs.cc`: `Wrapper`, the data file, the control files, the signals | refines `ByteFile` |
| `Replay` | `vfs_replay/component.cc` | extends `Vfs`: both run in one thread |
| `VfsProofs` | the inductive invariants of `Vfs`, that it implements `ByteFile`, and what `Replay` has stored | extends `Replay` |
| `Tester` | `cbe_tester/main.cc` | |
| `TesterProofs` | theorems about `Tester` | |

Each module `MC...` extends one of them with values for its constants.
Definitions named
`X_Something` above a definition `X`, with a comment that begins with "Mutant",
are variants of `X` with a plausible bug; no specification uses them. They
serve to show that each property depends on the code it is about.

### Cache

State: `jobs` and `slots` are the arrays of the package, `at` is where the
loops of one pass of `Execute` are (the cache's own loop over jobs, then the
library's loops), `io` the entries of `Block_IO`, `disk` the device, `error`
whether the cache has raised Program_Error or I/O failed. Every loop body over
an index is one action, so that passes are modelled job by job. The data of a
job and of a slot, which the code keeps in separate arrays of the library,
are fields of it. The users keep to `Submit_Primitive_Assertions` of
`cbe-cache.adb`, which the code evaluates itself.

### RequestPool

State: `jobs`, the array of the package, and `queue`, the indices in the order
of `Generic_Index_Queue`, and `raised`. A request has the operation, the key by
which clients recognise it, a number of blocks and how many of them exist.
`Execute` is the step of the head of the queue; the three operations that take
long share `Execute_Next_Step` and `Execute_Prepone_Requests`, as their code is
the same three times over. What the superblock control answers (finished or
not, success) is chosen freely within what it can answer. Clients do not
submit a request that is equal to one in the pool (the code finds answers by
comparing requests), and take all answers before they submit, as `vfs.cc` and
`cbe_tester` do. With clients that do not, `Request_Acceptable` may be true
while no job is free, since a completed request is no longer in the queue but
still has its job; `Submit_Request` then raises Program_Error.

### BlockIO

State: `entries`, the `job` of the plugin, `done`, how much of each request has
been transferred, and `raised`. A block has `Block_Size` parts, so that every
way to split a transfer is covered, the empty transfer at the end of a file
included.

### SuperblockControl

State: `sb`, `sb_idx`, `curr_gen` are `Superblock`, `Cur_SB` and `Cur_Gen` of
the library, `job` the job of the superblock control, `keys` what the crypto
module has, `secured` what the trust anchor has secured; `cached` are the tree
blocks as the users of the cache see them, and `device` what the device holds:
the superblocks, the trees, and which of them were written since the last sync.

One action submits an operation, `Execute` makes one step of the job, and the
answer of each other module is an action of its own. The operations share the
steps from `Encrypt_Current_Key` to `Secure_SB`, which the code repeats for
each of them; the model has them once (`Execute_Prepare`,
`Execute_Sync_Blk_IO_Completed`, `Execute_Secure_SB_Completed`).

A tree is one block here, named by the generation of its snapshot and the
generation it was allocated in, that holds the client's data and, for each
address, the key it is encrypted with. So the model tells whether a superblock
refers to blocks that are there, are the right ones, and can be decrypted. That
blocks in use are not allocated again is the free tree's task and is assumed.
A hash is the content it is the hash of.

`Restart` may happen in every state: the component is gone, the device stays.
The device keeps every write it has acknowledged; one that loses or reorders
writes which are not synced yet is not modelled.

Four constants restrict the clients, since the code fails without them; the
runs that lift them show how (section 5):
`Max_Kept` bounds the kept snapshots (the code has 48 slots and no check, so the
clients must leave three free: for the current, the secured, and the one in
between after the first step of a rekeying or an extension);
`Discard_Current` allows to discard a snapshot that is still the current state;
`Extend_Full` allows to extend the free tree without a free snapshot for each of
its steps; `Write_Ahead` allows to write an address that is yet to be rekeyed.
`Restarted_Ops` are the operations after a restart; none in the runs here, as a
start takes over the wrong superblock and all that follows is about that.

### Vfs

State: `frontend`, `helper_read`, `helper_write`, `enqueued`, `io_pending`,
`rekey`, `extend`, `snapshot_requests` are the members of `Wrapper`; `pc`,
`caller` and `progress` are where `handle_frontend_request` is, for whom it runs
and its local variable; `users` and `buffer` are what the user of each handle
waits for and has got; `bytes` and `max_vba` the virtual block device. The loop
of `handle_frontend_request` is cut into one action per section of it (submit,
execute, completed requests, data of clients, back end and crypto), and the
device may answer between the runs and at the back end.

The library is seen through its interface: it works on the head of its pool,
may need the back end before it goes on, asks for the data of a block to be
written, offers those of a block read, and lets requests pass between two steps
of a rekeying or an extension, as in `RequestPool`. A block of `BLOCK_SIZE`
bytes lies in `bytes`. I/O does not fail (failures are the subject of
`BlockIO`), and the crypto functions are the identity on data.

`Beyond_End` are the operations for which users make unaligned requests past
the end. The code fails for them (section 5), so it is empty in the run `vfs`.

### Replay

State: `request` is `_current_request`, `step` where `_process_replay` is,
`local` its variable `progress`, `finished`, and `reactivate` the pending signal
of `_reactivate_handler`. The plugin's actions are those of `Vfs`: a call runs
`handle_frontend_request` to its end, an I/O signal goes to the plugin first
and to `handle_io_progress` afterwards. Nobody else has access to the file
system of this component, so the control files are not used, and an operation
is under way only if it was at the start.

### Tester

State: the members of `Main` and of `Block_session_component`; `libs` the jobs of
the four libraries with the state of their `Block_IO`; `pc` the handler to which
a pass of `_execute` has come; `packet` the packet of the block connection. A
packet is only `queued` until the end of `_execute`, where the driver is woken,
but the driver may find it earlier. A library takes some steps for a request,
before each of which it may ask for I/O, for data or for encryption; the CBE
library begins with its own initialization; requests for blocks, extensions and
the discarding of a snapshot may fail. `created` is the bag of the IDs in
`_created_snapshots` (a tree that may have an ID several times), and `failures`
counts the failed tests independently of the code. Which snapshots the device
has, and whether one is still found under the generation that its creation
answered, is the subject of `SuperblockControl` (section 5).

### MetaTree, FreeTree, WritePath

`MetaTree` and `FreeTree` have no state of their own: a request to the modules of
the same name is one operator on the blocks and the roots, `Meta_Tree_Alloc` and
`Free_Tree_Alloc`, as the library lets nothing else happen while one is worked
on. They follow the order in which the code visits the nodes (the free tree from
the last child to the first, a stack; the meta tree from the first on) and in
which the leaves found serve those that wait, since it decides what is taken
first: `Level_0_Turns` and `Type_2_Leaf_Turns` are the pairs of an entry that gives its
block and of who takes it, the first to give with the first to take. Both trees have one inner level above that of their type-2 nodes. The
scan of the free tree and its update, which the code does one after the other,
visit the same nodes, so that a failed scan is the update that is thrown away.

`WritePath` has `sb`, `cur_gen` (`Superblock`, `Cur_Gen` of the library), `blocks`,
what the users of the cache see, `rkg`, the job of `VBD_Rekeying`, and `job`, the
phase of the write or rekeying under way. `secured` is the superblock that was
secured last. A write goes through `Execute_SCD` (which nodes of the branch must
not be changed in place), `Execute_Free_Tree` (new blocks for those) and
`Execute_Writeback` (the branch from the leaf to the root, and the snapshot). A
rekeying of an address is `Submit_Rekey_VBA`, a `Rekey_Snapshot` for each
snapshot from the newest to the oldest, and `Execute_Rekey_VBA_Completed`.
Operations on the superblock are one step each: how that is secured is the
subject of `SuperblockControl`, which in turn assumes what `WritePath` shows,
that no block is changed which a snapshot or the secured superblock needs.

A hash is the content it is the hash of, so a node holds the whole tree below it
as it was when the node was written, and "the hash matches" means that nothing
below was changed. The data of a leaf are the number of the write and the key.
Running out of blocks ends a behaviour with `error` set (the code raises
Program_Error) and is no failure here: how many blocks are enough depends on what
clients keep, and the code leaves that to them. As in `SuperblockControl` clients
do not write ahead of the rekeying (`Write_Ahead`) and do not discard the snapshot
that is the current state.

## 3. The runs

| Run | Question | Result |
|---|---|---|
| `cache` | coherence, and refinement of `BlockStore` | holds |
| `cache_live` | is every sync answered? | holds, under fairness |
| `request_pool` | order, one request at a time, refinement of `RequestQueue`, and is every request answered, also with a rekeying and clients that go on? | holds, the last under fairness |
| `request_pool_resume` | does a start in the middle of a rekeying keep the queue intact? | violated |
| `block_io` | is success reported for whole blocks only, and the protocol kept but for one case? | holds |
| `superblock` | durability, snapshots, keys, with all operations, writes and stops | holds |
| `superblock_restart` | does a start take over the newest superblock? | violated |
| `superblock_ahead` | readability if clients write ahead of a rekeying | violated |
| `vfs` | is the data file a file of bytes, whatever goes on in the background? | holds |
| `replay` | is each request of the list finished, and stored? | holds, under fairness |
| `tester` | does each list of tests end, with a true result and one user of the device? | holds, under fairness |
| `write_path` | are blocks allocated, exchanged and rekeyed so that none is lost or changed too early, and does each snapshot keep its data? | holds |

Seven more configurations are kept as reproductions of further divergences
(section 5): `MCVfsEnd` (`ImplementsByteFile` with unaligned requests past the
end), `MCWritePathMeta` (`SecuredMetaIntact`), `MCBlockIOPartial` (`NoProgramError` with partial transfers),
`MCSuperblockDiscard` (`NewestComplete` if the current snapshot may be
discarded), `MCSuperblockExtend` (`NoProgramError` if the free tree is extended
without free snapshots), `MCTesterSwitch` (`NoProgramError` for all lists of
tests), `MCTesterOverride` (`FullOverridePasses`, for the list of
`run/cbe_tester-full_override.run`). Each of them ends with a counterexample.

The type invariants `TypeOK` of `Cache`, `Vfs` and `Tester` are no property of their
runs, which have deeper ones to check; they are proved.

### Bounds

- `cache`: three blocks, two slots, two jobs, one I/O entry, two values. With
  three blocks and two slots there is eviction, with two jobs all pairs of
  operations meet; two values tell a stale block from a fresh one. More slots
  than blocks would never evict. The proofs lift all of these.
- `cache_live`: the same with one value, as only states matter.
- `request_pool`: three jobs, so a rekeying, a request that overtakes it and
  one that may not; a limit of two preponed requests, so that the limit is
  reached both before and at the end of the queue; two blocks per request, so
  that one of them may exist and the other not.
- `block_io`: two entries, three parts per block, so that a transfer is split
  into one, two or three.
- `superblock`: two slots for superblocks, so that they wrap around and the
  older is overwritten; two addresses, so that a rekeying has an address behind
  and one ahead; four snapshots, of which one is kept, just as many as are
  needed; generations 0 to 4: a rekeying takes three of them, an
  extension by two blocks in two steps takes three, so that a write, a sync or
  a snapshot fits before, between or after; one restart. For `NoProgramError`
  four snapshots are enough only because four generations are: with nine, TLC fills
  them and finds Program_Error. How many are enough for any number of generations is
  the assumption `Roomy` of its proof (section 4); the run has fewer, so that a step too
  many fills them.

- `vfs`: blocks of two bytes, so that a request can have a part of a block in
  front, whole blocks, and a part behind; one block or two, so that the file
  grows while a request waits; requests of up to four bytes; one handle (the
  code has room for one); one operation in the background at a time, in two
  steps, so that requests pass between them; a pool of five, which is never
  full: the plugin has at most one request of the data file, and each control
  file one, in the library.
- `replay`: the same with all offsets of requests that span two blocks, and a
  rekeying that is under way at the start.
- `tester`: all lists of up to three tests out of eleven (two snapshots), in an
  order in which the run scripts have them: the first may be the initialization
  of the device, and tests that end at once come behind one that makes
  progress. Two steps for each request, so that I/O, data and encryption may
  follow each other. A third test is what it takes to have one before and one
  behind a change of library.

- `write_path`: a tree with two levels above three leaves, of which the last node
  is half empty; two addresses, on different sides of the root, are written, the
  third never is, so that it keeps its block of generation 0. Sixteen free leaves
  in four nodes, so that a search goes through several of them and generations
  mix in one; twelve leaves of the meta tree. Five snapshots, of which two are kept: one is current,
  one secured, one between. Three writes, four superblocks on behalf of clients,
  one rekeying of all three addresses, which secures a superblock for each; so a
  block may be given up, become free again and be taken. Both shared leaves and shared
  inner nodes between snapshots occur, blocks that only a kept snapshot or only the key
  keeps from being taken, and, with twelve free leaves instead of sixteen or eight of
  the meta tree instead of twelve, running out of either. With four writes it holds
  as well (537 000 states).

Deadlock is checked in `request_pool` and `vfs`: the pool and the plugin
never stop. It is not in the others, whose systems may: `cache` after failed
I/O, `block_io`, `write_path` and `request_pool_resume` after a raised Program_Error,
`superblock` at the last generation and after `Deinitialize`, `replay` and
`tester` when their lists are worked off.

### Properties worth a word

- `CleanIsStable`: a slot that may be evicted without a write-back is equal to
  the block on the device, though the slot can be written between the request
  for its write-back and the answer.
- `ReadPinned` (proved): a slot that waits for data has a job that waits for it.
  It is what bounds the number of slots that cannot be evicted.
- `IoConsistent`: an answer of the back end names a slot by its index; that
  slot still holds the block and waits for just this answer.
- `OneAtATime`, `QueueHoldsActive`: what the moves of the rekeying in the queue
  must not disturb.
- `NewestComplete` (proved): in every state, so wherever the component stops, the newest
  superblock on the device has a valid current snapshot, every snapshot's tree
  is on the device, unchanged, and readable with the keys whose values the
  superblock holds. It relates the order of the steps, the discarding of
  snapshots by generation, and the blocks of later generations.
- `SecuredIsStable` (proved): what the trust anchor secures is on the device, synced,
  and has not changed since it was copied; nor has the cache changed its trees.
- `SnapshotsReadable` (proved): between two requests, half-way in a rekeying too, each
  address of each snapshot is encrypted with the key a read would use.
- `KeptSnapshotsUnchanged` (proved): only a request to discard it ends a kept snapshot;
  its data survive rekeyings, extensions and writes.
- `KeysAtCrypto` (proved): each operation begins with exactly the keys at the crypto
  module that reads and writes may use (two while a rekeying is under way, else
  one), and ends so, but for `Deinitialize`, which ends with none. In between an
  operation adds and removes keys before the superblock is secured.

- `SecuredIntact`: in every state, half-way in a write or rekeying too, nothing is
  changed of the trees that the secured superblock refers to. It rests on the
  generations and keys in the leaves of the free tree, all of them compared
  in `Check_Type_2_Leaf_Usable`. Roots and nodes of the free tree of generation 0, as the
  initializers made them, are excepted (section 5), and so is the meta tree.
- `EachBlockOnce` (proved): every block of the device is exactly one node of the current
  tree, of the free tree or of the meta tree, or one leaf of the latter two, after any
  exchange between them.
- `ImplementsSnapshotStore`: through the trees, with the keys a read would use, the
  current state gives the data written last and each kept snapshot those of its
  creation, though shared nodes are rekeyed once for all snapshots.
- `ImplementsByteFile` (proved, section 4 says for whom): a request affects the bytes that were accepted, and no
  others, though parts of blocks are read, changed in a helper block and written
  back; it is answered when all of them are read or written.
- `RequestIsWorkedOn`, `NoThrow` (proved): all requests share one queue of answers and
  one place for a block; that no answer is taken for another's rests on there
  being one request of the data file at a time.
- `NoLostWakeup` (proved for one handle): a user who was told to wait has been woken since, or something
  that wakes him is on its way: signals are handled when no handle is enqueued,
  and handles enqueued after signals.
- `ControlFilesTruthful` (proved): states that the plugin keeps for operations agree with
  the library, though an operation may be under way at the start, or over before
  the write that started it returns.
- `RequestFinishes`, `BackgroundFinishes`: no call waits for a signal that another
  handler has used up. `ReplayedIsStored` (proved): a request that took several calls is
  stored as a whole.
- `ExclusiveDevice`: the answer of the device reaches the library that asked, and
  the CBE library, with the superblock it has read, does not outlive a tool.
- `ExitTruthful` (proved): the exit value is -1 exactly if a test has failed, in the
  library or in the tester, and is not told before the last test is over. A run
  script expects otherwise of a snapshot that was never created (finding 10).
- `TestsEnd`: for lists ordered as in the run scripts only; another order stops the
  tester (section 5).

### Fairness

`cache_live`: the front end calls `Execute` for ever, which is one loop of the
library (`WF` on its steps), and the back end works on each request some time
(`SF`, since the steps of the library in between disable and enable it);
nothing is asked of the users. `SyncTerminates` holds because no write is
accepted during a sync.
`request_pool`: `Execute` is called, the other modules answer, the client
takes its answers (all `WF`), and a long operation takes finitely many steps
(`SF` on its last one). Clients need not submit. `replay`: the one thread of the
component runs (`WF` on its steps, the plugin's included), and the device
answers. `tester`: the entry point runs, and the driver answers a packet for
which it has been woken; not one that is only queued, so that a forgotten wakeup
shows. No fairness is assumed of `superblock`, `write_path`, `vfs` and `block_io`, whose
properties are about safety.

## 4. The proofs

`CacheProofs` proves about `Cache`, for all constants that satisfy
`CacheAssumption` (at least as many slots as jobs; the code has 32 and 4):

- `Invariance`: `Spec => []IInv`, where `IInv` is the conjunction of `TypeOK` and the five
  invariants of run `cache`. None of them is inductive alone: that a slot may
  be evicted without harm (`CleanIsStable`) needs that the answer to its
  write-back is not about an older block (`IoConsistent`); that there is a
  slot left (`NoProgramError`) needs a count of the slots that wait for data,
  at most one for each job (`ReadPinned`, `SlotsDistinct`), which is where
  `Cardinality` and the assumption come in (`SomeSlotDirty`).
- `TypeCorrect`, `NeverCachedTwice`, `NeverOutOfSlots`, `WaitingSlotsAwaited`,
  `AnswersMeetSlots`, `Coherence`: the parts, by name.
- `Refinement`: `Spec => ImplementsBlockStore`. The store is the slot of a block
  if there is one that is not waiting for data, else the device (`StoreOf`);
  `StoreIs` and `StoreOfIs` say so without `CHOOSE`. Each action is one step or
  a stutter of `BlockStore`.

There is one lemma per action; `NextIInv` and `NextRefines` combine them.

`RequestPoolProofs` proves about `RequestPool`, for any number of jobs, any limit
of preponed requests and all clients, under `FreshStart`: the superblock is
found in its normal state. Without it the theorems are false, as the run
`request_pool_resume` shows.

- `Invariance`: `IInv` is the conjunction of the invariants of the run
  `request_pool` and of three facts that make it inductive: what the state of a
  job says of its request (`JobsConsistent`), that no two requests in the pool
  are equal (`RequestsDistinct`, by which an answer is found again), and that
  there are only requests that may overtake in front of a job that waits between
  two of its steps (`OnlyPreponed`).
- That there is a free job for a request that is acceptable (`FreeJob`) is a
  pigeonhole argument on the positions in the queue. How many requests are moved,
  which the model states by `CHOOSE`, exists by the well-ordering of the numbers
  (`NrToPrepone`). The steps are reduced to four kinds: the head goes on, moves,
  leaves, or a job enters.
- `TypeCorrect`, `NothingLost`, `WorkedOnOneByOne`, `NeverRaises`: the parts.

The second part, `Refinement`, is `Spec => ImplementsRequestQueue` under the same
assumption. The requests that wait are those of the queue with the started job,
if there is one, moved to the front; `WaitingIs` says this position by position,
`StartedIs` that the items in front of it may overtake. Each kind of step is then
a step of `RequestQueue` or none: that a move in the queue does not change the
order of submission is `HeadMovesMaps`, that the head is the first request or the
second behind the one it may overtake is `HeadLeavesMaps`. `AnswersRight` is what
the invariant needs in addition: a job has succeeded so far exactly if all blocks
so far exist.

`BlockIOProofs` proves about `BlockIO`, for any size of a block: `Invariance` of
the three invariants of the run with what the job says of the entry it carries
out, `SuccessMeansWholeBlock`, `OnlyRetriesRaise`, and `WholeTransfersNeverRaise`:
with a file that never transfers less than a block there is no Program_Error.

`SuperblockProofs` proves about `SuperblockControl`, for any number of snapshots,
superblocks, generations, restarts and addresses and whatever clients request:

- `Invariance` of what is known of the superblock step by step: from the copy on,
  the superblock in memory is the copy (`CopyIsSuperblock`); from the sync of the
  cache on, no block is dirty (`NothingDirty`); from `Write_SB` on, the slot
  `sb_idx` holds it (`SuperblockWritten`); from the sync of the device on, nothing is
  unsynced (`HashIsOnDevice`). None of these is said by `SecuredIsStable`, which is about
  one step only. Writes of clients keep them because there are none while there is
  a job; the cache may write back at any time, and then has nothing to write.
- `SecuredStable`: `Spec => SecuredIsStable`. A count of the restarts serves to tell
  a restart, which forgets the hash, from other steps (`RestartsCounted`).

It also proves `RightKeys`: `Spec => []KeysAtCrypto`, which needs an invariant of its own (`KInv`, theorem `KeysInvariance`, proved under `IInv`):

- which step belongs to which operation (`StepOfOperation`), in which state of the
  superblock an operation is at work (`StateOfOperation`), and which keys the
  crypto module has at each step (`KeysWhileStarting`, `KeysWhileWorking`);
- since a start takes its keys from the device: that every superblock there holds the
  values of all keys needed to read by it (`DeviceUsable`), so that the copy gets
  them before it is written (`CopyHasKeys`), although the end of a rekeying leaves
  out one of the two, and that the start has found one of them
  (`StartConsistent`);
- that a rekeying is from one key to another (`Keyed`), without which removing the
  previous key would remove the current one.

`SnapshotsProofs` proves the rest of the safety of `SuperblockControl`. Its first part is `TypeCorrect`: `Spec => []TypeOK`. Types are not
inductive by themselves: that a generation, and with it the blocks and keys of
that generation, is one there is needs to know that no operation begins in the last one
(`GenerationFits`), that each key takes a generation (`KeyFits`), and that no snapshot
is of a generation to come (`SnapshotsPast`). It assumes `Restarted_Ops = {}`:
these bounds are those of one run, and a start from the oldest superblock
(finding 1) counts the generations again from there. With operations after a restart
TLC finds no violation of `TypeOK` on a small instance, but it is not proved.

The second part rests on `SnapshotsInvariance`, of `IInv`, `KInv`, `TInv` and `SInv`
together. `SInv` was checked by TLC as an invariant of the constants of
`superblock` (775,827 states) before it was proved:

- `SnapshotsGood`: the snapshots in memory, or those in the job that are about to be taken over,
  have their trees in the cache, with the keys by which a read would decrypt them.
  Generations and roots tell them apart, which is what makes a block
  of the current generation nobody else's (`Good`, `GoodWithNew`, `GoodStays`). Half-way in
  a rekeying the job is one address ahead of the superblock; after the last
  address all have the new key, though the superblock still says Rekeying (`Snap_Keys`).
- `DeviceGood`: the same of each superblock on the device, in the cache and on the device, so
  that neither a write-back nor a crash takes a tree from it. It is kept because
  they are all of earlier generations but the one just written (`DeviceOld`), and
  because a copy has no block that is dirty (from `IInv`) when it is written.
- `Generations`: how the generation of the current snapshot, of what is kept, of
  the newest block and the last secured one relate to the current generation, before the
  copy of the superblock, between copy and end, and in the step that secures it,
  where they differ by one.
- `TakenOver`: the job has all kept snapshots with the same data.
  `NotTheCurrent`: what is to be discarded is not the current snapshot. `StartKnows`: a
  start knows the generation of its choice. `SomeSuperblock`, `CachedAfterRestart`.

From it follow `NewestAlwaysComplete`, `SnapshotsAlwaysReadable` and, step by
step, `KeptStayUnchanged`. They assume `OneRun`: `Restarted_Ops = {}`, without which an old
generation is written again over the trees of the newer superblock (finding 1);
no write ahead of a rekeying, which makes an address unreadable (finding 2);
and no discarding of the snapshot just made, which discards the current state
(finding 6). Each of the three makes one of the properties false, so none can be left out.
Starts and crashes at any point, in any number, are part of it; the start
may come upon any superblocks the run before has written.

The third part is `NeverRaises`: `Spec => []NoProgramError` under `OneRun` and
`Roomy`: clients extend the free tree only with a free snapshot for each step
(`Extend_Full` is false; finding 7 otherwise), and `Max_Kept` + `Max_Nr_Of_Blks` + 3 is
at most `Snapshots_Last`, 47 in the code. The three are the snapshots of the
current generation, of the last secured one, and the one that a step of a rekeying or an
extension makes. That something
of this kind has to be assumed TLC shows: with `Snapshots_Last` = 4, `Max_Kept` = 1,
`Max_Nr_Of_Blks` = 2 and nine generations it finds Program_Error. That this is the least
that suffices is not claimed. The invariant `NInv`
(checked by TLC under `Roomy`, with 673,724 states, before it was proved):

- `Room` counts: the snapshots there are when the next write is done (`Used`) and
  those that may be added before any is discarded (`Reserve`: one for each
  step of an extension of the free tree that is left, and its end) are no more than
  there is space for. When snapshots are discarded, what stays is kept or of one of two
  generations, at most one of each since generations tell snapshots apart (`SInv`,
  `FewLeft`).
- `KeptFew` bounds what clients keep, `RequestFits` says which operations may be
  requested in which state of the superblock, `StepAdds` that a step of an extension leaves
  less to add than there was, `DeviceDistinct` that no two superblocks on the device are of the
  same generation, and `Scanned` that a start has found one of those it has read, so that
  it never ends without.
- `NoRaise`: each condition under which an operation raises Program_Error
  (`Execute_Raises` and those of the other modules) contradicts one of these.

`VfsProofs` proves about `Vfs`, for any set of handles, any size of the device and
of a block, any requests and any number of operations of the control files:

- `Invariance`: `IInv` is `NoThrow` with the facts that make it inductive, from which the
  other properties follow. `DistinctOps`: the library has one request of
  the data file at most, and one of each control operation. `RequestsConsistent`: what the phase of
  a request says of its operation and its blocks. `OnlyHeadWorkedOn`: the library works on the
  first request that is not complete, and waits for the device exactly if that one
  does. `OneHolder`: a request in progress is in one place, at the library or in one
  of the two helper requests. `Matching`: the one at the library is that of
  the helper, or else the user's. `Pending`: where in a call requests may wait for submission,
  and that there is room for them then. `Quiet`: a pass without progress leaves
  nothing to do but for the device. `ControlFiles`: the state of an operation
  against what is in the pool.
- `TypeCorrect`, `NeverThrows`, `AlwaysWorkedOn`, `AlwaysTruthful`: the properties
  of the run, by name.
- `WakeupsKept`: `Spec => []NoLostWakeup` for one handle and a pool of five or more
  requests (the code has 16). Both are needed: a second handle takes the wakeup of
  the first (section 5), and with a full pool a user waits
  without anything of his at the library. That the pool is never full is a pigeonhole
  argument: one request of the data file and one of each control operation
  (`FewRequests`).

Its second part proves `Refinement`: `Spec => ImplementsByteFile` under `OneUser`: one
handle, a pool of five or more, no request past the end that is not aligned (`Beyond_End`),
and offsets and counts up to the size of the largest device, which is how far `ByteFile` has
bytes. With a second handle, or with requests beyond the end that are not aligned, the property
is false (section 5). The invariant `DInv` follows the bytes through the places
they are in: the request the wrapper holds is that of the user (`UsersRequest`); the helper
request that reads a block, or has it with the changed part to be written back, is for the
block of that request (`ReadsBlock`, `WritesBlock`); the one at the library is for
blocks that exist, and what has been read or written of it so far is right
(`AtLibrary`); a complete one is carried out as a whole (`CarriedOut`); only the plugin
fills the buffer of the user (`Buffers`). The steps: handing
a request to the library is `Accept`, refusing it is `Accept` of no bytes, a block on the device is
`Write`, an extension is `Grow`, data copied to the user are `Read`, the return is
`Answer`; every other step stutters (`StepImplements`). That a file of bytes cannot
tell a step that leaves the bytes and the user's request alone is `Stutters`.

Its third part is about `Replay`, the user of that one handle. `AlwaysStored`:
`ReplaySpec => []ReplayedIsStored` under `OneUser` and `SameByte`, that all bytes of the
payload are equal, as they are in vfs_replay, which fills its buffer with one value; the rest of a
request could not be written by another call otherwise. Bytes are written by the
plugin in the middle of a call, reported by the state of a request three steps later, and counted
by the replay after that, when it looks at the answer. The invariant `RInv` says what holds
in between: the plugin has been asked for what is left of the request, and once it has
answered, at most that has been done (`AskedFor`); what is left is the end of the request
and exists (`Remains`); all before it is stored, with what has been answered and
not been counted (`StoredSoFar`). That an answered write is in the file is `CarriedOut` of
the second part; that it stays there is `BytesKept`. `OneUser` excludes reads that begin past the
end, which the run of `Replay` has: for these the property is model-checked only.

`TesterProofs` proves about `Tester`, in its first part for all lists of tests, of any
length:

- `TesterInvariance`: `Spec => []IInv`, by which each handler meets only what it has asked
  for. `ToolsJobs`, `StateOfTool`: the tool of the test in progress, and only that one, has
  a job, and the state of the entry point is its. `LibraryJobs`, `FlagsOfTest`: the
  CBE library has its own initialization and behind it the test in progress; the flag
  that is set is that of the test. `IoOfJob`, `LibraryGone`, `Handlers`: where there
  may be I/O, and which handlers run in which state. `Counted`: the
  failures that the tester has not seen yet are those of a completed job. `DiscardKnown`:
  a snapshot whose discarding is under way is in the list of those created, so that the
  answer finds it there. `Known_Job`, in the types of the jobs: a job that is complete has
  succeeded if it is of a kind that does not fail (`May_Fail`).
- `TypeCorrect`, `AlwaysToldTruth`: what follows from it.

Its second part assumes `After_Requests`: a test that may end in the handler that starts
it (a list of snapshots; to discard a snapshot that no earlier test has created, or that
an earlier one has discarded) is neither the first one nor directly behind the test of a tool.
`AsInTheRunScripts` of `MCTester` implies it. Behind such a test the CBE library
exists already, and its initialization may be under way when a tool takes over; without
the assumption both properties are false (finding 8).

- `ListInvariance`: `ListInv` relates a state to its list. `Placed`: the tests begun
  are the first ones of a list, the snapshots that they have created and not asked to discard are known
  (which is why their discarding does not end at once), and a library that is not
  there, or has an initialization left and no test, is at the beginning of the list or behind the
  test of a tool. `Looked`: on its way to the switch, the pass has seen
  that no tool is next. `NoToolNext`, `OneUser`: no tool is next while the
  library initializes itself, and none at work while it has anything to do.
  `DeviceInv`: the packet is that of the one request in progress (`Packets`).
- `NeverThrows`, `AlwaysOneUser`: `NoProgramError` and `ExclusiveDevice`.

`WritePathProofs` proves about `WritePath`, for every size of the three trees, any number of
snapshots, writes, operations and keys: `NoBlockLost`, `Spec => []EachBlockOnce`. A *place* is where
a block can be used: a node of the current tree, by its level and index, or the root, a child
of the root or a leaf of the free tree or of the meta tree. What is used is a function from places to
blocks (`Used`), with 0 where there is none.

- `Exchange`: if the blocks of pairs of places are exchanged, what is used stays the same,
  and is used once if it was. All changes of the trees are of this kind.
- `MetaTreeAlloc`: a request to the meta tree exchanges the blocks of a level-1 node, of its root
  and of the caller with those of leaves. The caller is a place, too: the node of the free tree that
  is written. By the turns each leaf serves one of them at most (`Matching`).
- `FreeTreeAlloc`: a request to the free tree exchanges the blocks of the nodes on the way
  to an address with those of leaves, and in between those of its own nodes with the meta tree;
  its own nodes and those of the meta tree are the only blocks it writes. The loops over the
  children of a root are recursive functions; `SetInduction`, from the well-founded order of the numbers,
  carries the facts from one turn to the next.
- `InitialUse`: the initializers use each block once, from the arithmetic of the
  trees (`NumberRecursion`, `NodesHavePlaces`, `FirstPBA`).
- `IInv`: form and order of the snapshots (`SB_OK`: the current one is the newest, so that a
  rekeying begins with it), form of the current tree (`VBD_OK`), the write and the
  rekeying under way (`Write_OK`, `Rekeying_OK`), and `Once`: the use of all blocks is injective, and of all blocks.
  `EachBlockOnce` alone is not inductive: it says nothing while a write has its new blocks
  and has not written them. There `Used_VBD` counts the new blocks for the nodes on the way,
  and `Write_OK` has that those nodes still are as they were read, so that `Execute_Writeback` makes
  them the tree (`WritebackKeepsInv`). In a rekeying only the first snapshot, the current one, gives its blocks
  back; for the others a leaf keeps the block it gives (`RekeySnapshotKeepsInv`).
- `OnceIsEachBlockOnce`: the places with a block are as many as the nodes that
  `EachBlockOnce` counts (`Cardinality`).

Its last part is about what the blocks of the two trees of the allocation hold, again for
all constants: `SecuredFreeTreeIntact`, the second conjunct of `SecuredIntact`, and
`AllocationFindsNoHash`, that the checks of a hash in `New_Free_Tree` and `Meta_Tree` never
fail. Both follow from `Trees_Inv` (`AllocationTreesInvariance`), which says of the state (`Trees_OK`):

- each node of the two trees matches its block (`Meta_Match`, `Free_Match`);
- an old node of the secured free tree either is still the node at its place in the current one,
  or its block is `Spare`: that of a leaf of the meta tree which was given back in this generation, so
  that it is not handed out before the next one (`Secured_Node_OK`).

Why it is inductive: the first request of a generation that changes a node of the free tree takes a new
block for it, and the old one goes to the leaf of the meta tree with the generation of now; the
second one finds a node of this generation and changes it in place, which the secured
tree does not know. The blocks that are written for the VBD are never those of a node
of the two trees, by `Once`. Securing makes the current free tree the secured one and counts the generation, so
that all its nodes are old. For the meta tree the same does not hold (finding 9): its
nodes are covered only as the current ones.

Model-checked only: liveness (out of the prover's reach), and of `WritePath` `ImplementsSnapshotStore`,
of `SecuredIntact` the first conjunct (the trees of the secured snapshots), and of `NoProgramError`
the hashes of the nodes of the VBD and the place for a snapshot.

## 5. Findings

What the code does against what its comments, assertions and other parts say.
The first three have a run that ends with a counterexample, and are in
`PROJECT.json` with their lines; the next seven have a configuration that
reproduces them.

1. A start takes over the *oldest* valid superblock (`superblock_restart`).
2. A write ahead of a rekeying is encrypted with the new key and read with the
   old one (`superblock_ahead`).
3. Resuming a rekeying at the start enqueues its job twice
   (`request_pool_resume`).
4. A request to the data file that is not aligned and lies past the end is
   answered as if it had been carried out (`MCVfsEnd`).
5. After a partial transfer the plugin reports the request as taken once more
   (`MCBlockIOPartial`; `RaisedOnlyOnRetry` states that nothing else raises).
6. Discarding a snapshot right after it was created discards the current state
   (`MCSuperblockDiscard`).
7. Extending the free tree discards no snapshots, so that writes in between use
   them up (`MCSuperblockExtend`).
8. The tester changes to a tool while a packet of the CBE library is with the
   device, if its list begins with a test that ends at once, like
   `list-snapshots`, followed by `check` (`MCTesterSwitch`).
9. `Node_Volatile` of `Meta_Tree` (`cbe-meta_tree.ads:121`) is true for the nodes of
   *other* generations, that of `New_Free_Tree` (`cbe-new_free_tree.ads:170`) for
   those of the same. So the first request of a generation changes the root and
   a level-1 node of the meta tree in place, which belong to the secured superblock, and every
   further one takes three blocks instead of one. A start from that superblock
   finds a hash that does not match as soon as the free tree needs a block
   (`MCWritePathMeta`; the free tree's own nodes, of which the comment at
   `cbe-new_free_tree.adb:13` says "vital to implement the CoW semantics", are safe).

10. `run/cbe_tester-full_override.run` discards a snapshot that no test creates (ID 3,
   line 140; the tests create 1 and 2) and expects the exit value 0 (line 190).
   `with_discard_snapshot` (`main.cc:640`) counts that as a failed test (line 683), so
   the tester exits with -1, if it comes to its end
   (`MCTesterOverride`: the list of the script, which ends with one failure).

Seen while modelling, and kept out of the runs by what users do there:

- Nodes of generation 0 are changed in place, though a superblock on the device
  refers to them: the root of the virtual block device before the first superblock is
  secured, and each node of the free tree when it is used for the first time,
  however late that is. A start after a stop in between may find
  a hash that does not match. (Nodes inside the virtual block device are
  exchanged; a leaf of generation 0 has no data yet.)
- A snapshot shares no root with another one, as each write makes its own: the
  branch of `VBD_Rekeying` for a snapshot whose root is shared is never taken.
- A test that ends at once counts as no progress (`main.cc:686`): behind a
  rekeying or an extension no signal comes, and the tests behind it never start.
- With two handles of the data file, the one enqueued last is the only one that is
  woken, and a call may be answered with the request of the other; the comment
  at `vfs.cc:311` names it. `Vfs` has a set of handles; with two of them
  `NoLostWakeup` and `ImplementsByteFile` fail.
- `vfs_replay` calls for ever for an aligned request past the end, which is
  answered with success and no bytes.
- `discard_snapshot` of the plugin submits the snapshot with ID 0 whatever it was
  asked for, and its write returns an error on success; a failed rekeying could
  not be told from a successful one, but none fails.
- The ID of a snapshot is its generation, and that of the current snapshot changes
  with each superblock that is secured (`cbe-superblock_control.adb:1887` for a sync,
  likewise 1582, 1740, 2062, 2251 and 2292, and the extensions), also if it is the one to be
  kept. The tester remembers the generation that the creation answered: a snapshot
  that is followed by an `extend-ft`, as in `run/cbe_tester.run:116`, is not found
  by it any more, and its discarding fails. No run script discards one. In `Tester`
  any discarding may fail; `SuperblockControl` has the generations.
- The tester lists nothing before the library is initialized, and keeps its list
  of created snapshots when the device is initialized again (the reason why the
  runs have the initialization first).

## 6. What is not modelled

- Ciphers, hash functions, encodings: data. A hash stands for what was hashed.
- The checker and the dumper: sequential passes that change nothing but their own
  position. The jobs of the initializers, which construct trees that nobody else
  sees yet; the trees they leave are the initial state of `WritePath`. The tools
  around them (`cbe_init`, `cbe_check`, `cbe_dump`) carry out one request with the
  back end that `Tester` models for the same libraries.
- The C++ bindings: conversions of types without state.
- The directories of the plugin that show snapshots, and the parsing of
  configurations and of what is written to control files.
- A device that loses or reorders acknowledged writes.
- The nodes that an extension adds (`FT_Resizing`, `MT_Resizing`, and the extension
  step of `VBD_Rekeying`): `SuperblockControl` has what the steps do to superblock
  and snapshots, `WritePath` has trees of a fixed size.
- The steps of a request inside `New_Free_Tree`, `Meta_Tree`, `Write_Back`, and the
  suspension of a walk of `Translation`: one request is worked on at a time, so
  that no other step can come between.
- The jobs of the crypto module and of the trust anchor: a key and a block stay
  together from submission to completion.

## 7. The plan

In the order of what matters most:

1. The extension of the trees: nodes added by `VBD_Rekeying`, `FT_Resizing` and
   `MT_Resizing`, in `WritePath`, so that `EachBlockOnce` covers the blocks a new root
   and new branches take.
2. `WritePath` with the start from the secured superblock in every state, once the
   choice of the superblock and the meta tree are corrected.
3. `Crypto`: jobs and keys.
4. A device that loses or reorders writes that were not synced.
5. Proofs: the first conjunct of `SecuredIntact`, the trees of the snapshots. It needs that a block which a
   secured snapshot still uses is reserved in its leaf of the free tree, and which snapshots
   share a node; with it, that no walk meets another hash; `ReplayedIsStored` with
   reads past the end, for which `DInv` would have to say what a failed read leaves.

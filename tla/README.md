# TLA+ models of libavstor

libavstor is an embedded hierarchical key/value store in one C file
(`src/unnamed/part_005`, avstor.c). It has a public header (`part_000`), a small
C11-style threads library (`part_001`, `src/threads/`), tests and benchmarks
(`part_002`–`part_004`, `src/tests/`, `src/threads/test.c`), and makefiles
(`part_006`, `part_007`). This directory holds TLA+ models of the library's
concurrency control and data structures. It also holds the TLC configurations
that check them. `PROJECT.json` gives the machine-readable inventory: the
components, the runs, the mutants, the map from each definition to its source
lines, the findings and the hazards.

## The system

The database is one file of 4 KiB pages. Page 0 holds the header. The header
has the root of the key tree, the root of the link index, and the page pools.

- **Node data model.** Every key, value and link is a node: a name, a type and
  data. It has `left`/`right` references and a 2-bit balance factor. The
  children of a key form an AVL tree hanging from the key's `subkey_root`. Its
  values form one hanging from `value_root`. Links to a node are indexed in a
  separate tree under `root_links` (`create_backlink`, `delete_backlink`).
- **AVL tree.** `find_node_with_backtrace` descends from a root reference and
  records the path on an explicit stack of at most `AVSTOR_AVL_HEIGHT` (64)
  entries. `insert_node` and `balance_down` link a new node and rotate at most
  once. `remove_node` and `balance_up` unlink a node, splice in the in-order
  successor when it has two children, and rotate up the path.
- **Slotted page allocator.** Nodes live in slotted pages (`alloc_node`,
  `resize_node`, `free_node`). A node handle is an offset that encodes page and
  slot. `create_node` picks a page pool by tree level.
- **Page cache.** The cache is a hash of rows. Each row has its own `rwl_t`
  and an array of items `{page, offset, load_time}`. `cache_lookup` scans a row
  under the shared row lock and pins the page on a hit. On a miss it upgrades
  the row lock, then either takes an empty slot or evicts (`cache_evict`). With
  `AVSTOR_OPEN_AUTOSAVE` the eviction writes dirty pages; without it the lookup
  fails with ABORT. Frames come from a buffer pool that never shrinks.
- **Commit and rollback.** `avstor_commit` writes every dirty page in row
  order, then the header, and optionally fsyncs. `rollback` runs in the CATCH
  block of every write path. It invalidates dirty cache items, clears all pins,
  and restores the header from `old_header`.
- **Global lock.** `rwl_t global_rwl` is an upgradable read/write lock built
  from a mutex and two condition variables. Readers (`avstor_find`,
  `avstor_get_*`, the in-order cursor) take it shared. Writers
  (`avstor_create_*`, `avstor_update_*`, `avstor_commit`) take it exclusive.
  `avstor_delete` searches under the shared lock and then upgrades.
- **Atomics.** `src/threads/stdatomic.h` gives `atomic_int` its operations.
  From the 486 on they are single locked instructions. Below the 486,
  `src/threads/atomics.c` implements them with plain loads and stores inside
  a global spinlock. The mutex and condition variable of `sync.c` are built
  on them.
- **Threads.** `part_001` gives C11 `thrd_create`, `thrd_join`,
  `thrd_detach` and `thrd_exit`. Its OS/2 build keeps a table `ThrdData` of
  per-thread data (`struct _tld`), which lives on the thread's own stack.
  `ThrdSem` serialises creation and clean-up. Joined threads are cleaned up by
  the joiner, detached ones by a detach thread started on first use.
- **In-order cursor.** `avstor_inorder_first` and `avstor_inorder_next` keep a
  stack of node offsets between calls and hold no lock between them.

How the parts interact: every API call takes the global lock, and every node
access goes through the page cache and pins a page. Tree operations change node
fields in cached pages and mark them dirty. Commit and rollback move state
between the cache and the file. Any exception inside a write path rolls back
everything not yet committed.

## Modules

| Module | Models | Source |
|---|---|---|
| `RWLock` | `rwl_t` and the caller protocols of readers, writers, and `avstor_delete` (upgrade, retry, rollback fallback) | part_005 857–958, 2578–2582, 2631–2695, 3410–3459, 3581–3659 |
| `AvlTree` | one AVL tree: find with back-trace, insert with `balance_down`, remove with `balance_up`, the rotations | part_005 1286–1292, 1711–1734, 1898–2227, 2375–2379, 2443–2461, and the tree effect of `avstor_create_key` and `avstor_delete` |
| `AvlCursor` | a tree and one `avstor_inorder` cursor on it: `find_node_for_inorder`, `inorder_next`, `avstor_inorder_first`, `avstor_inorder_next`, interleaved with creates and deletes | part_005 3667–3849 |
| `KeySet` | abstract specification: the set of names one tree stores, and a cursor that moves through it in order | what `AvlCursor` promises |
| `PageCache` | one cache row: `cache_lookup_scan_line`, `cache_lookup` with every miss path, `cache_evict`, `cache_line_realloc`, `bpool_alloc_page`, pins; `create_page`; `avstor_commit`, `rollback`, and a crash and reopen | part_005 1095–1119, 1304–1345, 1418–1472, 1484–1703, 1823–1852, 2229–2249, 2483–2526, 2578–2603, 2684–2695, 3351–3396 |
| `SlottedPage` | one data page: `alloc_node`, `resize_node`, `free_node`, `get_node`, `get_page_free_space`, and `create_page`'s set-up of the page | part_005 301, 1776–1821, 2240–2244, 2251–2373 |
| `Store` | the node store: `avstor_create_key`, `create_var_value` and the fixed-size creates, `avstor_create_link` with `create_backlink`, `avstor_delete` with its children and link checks and `delete_backlink`, the `update_*` calls, `avstor_commit`, and the `rollback` of every failing create and delete | part_005 2381–2407, 2443–2526, 2547–2603, 2631–2983, 3176–3291, 3323–3349, 3527–3659 |
| `Sync` | the threads library in its Win32 and OS/2 builds: the mutex (`mtx_init`, `mtx_lock`, `mtx_unlock` and the user-space semaphore `_usem` they sleep on), the condition variable (`cnd_init`, `cnd_wait`, `cnd_signal`, `cnd_broadcast`), and the atomic operations of atomics.c | sync.c 86–467, 471–526; atomics.c 331–431; threads.h 81–134 (the structs, as `mtxvars` and `cndvars`) |
| `AbstractLock` | abstract specification: one owner at a time | what the mutex of `Sync` promises |
| `AtomicInt` | abstract specification: the locked instructions of stdatomic.h (`xchg`, `mov`, `lock add`/`inc`/`dec`, `lock bts`/`btr`, `lock xadd`, `lock cmpxchg`), one step each | stdatomic.h 54–56, 77–162, 294–381, 443–467 |
| `Atomics` | the spinlock implementations of atomics.c for CPUs below the 486: both spinlocks and every `__atomic_*_impl` function, instruction by instruction | atomics.c 38–326; stdatomic.h 389–441 |
| `Thrd` | the OS/2 thread lifecycle: `_thrd_create_ex` and `threadproc`, `thrd_exit`, `thrd_join`, `thrd_detach`, `detach_thrdproc`, `wait_for_thread_to_die` | part_001 58–81, 292–293, 309–482, 485–531, 541–622, 636–655; sync.c 339–363, 413–452, 495–520 (the OS/2 condition variable and the mutex, as steps of a thread) |
| `Tss` | the OS/2 thread-specific storage: `tss_create`, `tss_delete`, `tss_set`, and `thrd_exit`'s destructor loop under `mtx_tls` | part_001 278, 298–300, 541–563, 683–726 |
| `MC_RWLock`, `MC_AvlCursor`, `MC_PageCache`, `MC_SlottedPage`, `MC_Store`, `MC_Sync`, `MC_Atomics`, `MC_Thrd`, `MC_Tss` | model values and bounds for TLC | — |

### RWLock

- **State.**
  - `lock` is `rwl_t.lock`: twice the number of readers, plus bit 0 while an
    upgrade waits, or -2 while the lock is held exclusive.
  - `cv` and `cvUpgr` are the sets of threads blocked in `avcnd_wait` on the
    two condition variables.
  - `pc` is each thread's program point.
- **Actions.** Every stretch of code between `avmtx_lock` and `avmtx_unlock`
  or `avcnd_wait` is one action:
  - `LockShared` is `rwl_lock_shared`.
  - `LockExclusive` is `rwl_lock_exclusive`.
  - `Upgrade` and `UpgradeResume` are `rwl_upgrade`, before and after a
    wake-up.
  - `Release` is `rwl_release`.
  - `rwl_release` broadcasts after unlocking the mutex, so its broadcast is
    the separate step `Broadcast`.
  - Signal removes one thread from a wait set; broadcast empties it.
- **Callers.**
  - Readers are `ReaderAcquire` and `ReaderRelease`.
  - Writers are `WriterAcquire` and `WriterRelease`. A writer's own rollback
    upgrades a lock it already holds exclusive and changes nothing.
  - Deleters follow `avstor_delete`. They lock shared, then validate. Then
    either the node is not found and they release, or they upgrade. A refused
    upgrade releases and retries the loop. A throw calls `rollback`, which is
    `rwl_upgrade_or_lock_exclusive` and then the final release.
- **Fairness.** Weak fairness applies to each thread's steps inside a call
  (`Work(t)`): the OS keeps scheduling a thread that can run. Starting another
  call (`Start`) and stopping (`Stop`) have no fairness, because whether
  another call is made is up to the application. Spurious wake-ups are not
  modelled: they would only add behaviours in which a waiter re-tests its
  condition, and no property here depends on their absence.

### AvlTree

- **State.**
  - `tree` holds `root`, and `left`, `right` and `bf` for every name, plus
    `fault`, which records the INTERNAL exception of `backtrace_set_ref`.
  - `alloc` is the set of nodes allocated and not freed.
- **Node identity.** A node is identified by its name. Names are unique in a
  tree, and the comparer orders them, so one integer stands for both offset
  and key. Offset 0 is the null reference.
- **Operators.** Each C function is an operator of the same name:
  - `rotate_*`, `backtrace_set_ref`, `balance_down`, `balance_up`,
    `find_node_with_backtrace`, `insert_node` and `remove_node`.
  - `Descend` and `SuccessorPath` are the two descent loops.
  - `Unlink` is the three cases of `remove_node` before `balance_up`.
  - The stack is a sequence whose last element is the top.
- **Actions.**
  - `CreateNode` and `CreateExists` are the two outcomes of
    `avstor_create_key`'s search.
  - `DeleteNode` and `DeleteFails` are the two outcomes of `avstor_delete`'s
    search once the lock is held exclusive.
  - Each is one atomic step, because the global lock is exclusive while the
    tree changes; `RWLock` checks that it is.
  - A back-trace overflow throws before anything is changed.
  - The rollback that every failing call runs is part of the planned
    commit/rollback model; here a failing call leaves the tree unchanged.

### AvlCursor

- **Composition.** `AvlCursor` instantiates `AvlTree` for the tree and adds
  the caller's `avstor_inorder`: `cst`, the stack of node offsets (top
  last), and `cdesc`, the DESCENDING flag. A ghost `cvalid` records that no
  write and no failed call has happened since the last `inorder_first`.
- **Operators.** `find_node_for_inorder` and `inorder_next` are the C
  functions of the same name; `CanPush` is `inorder_state_push`'s capacity
  test, so both throw CORRUPT on a full stack and leave what they pushed.
- **Actions.**
  - `InorderFirstKey(d, k)` and `InorderFirstAll(d)` are
    `avstor_inorder_first` with and without a key.
  - `InorderNext` pops the top and walks its right (descending: left)
    subtree. A popped node that a delete has freed is modelled as
    `get_node`'s CORRUPT (the case where its slot holds a free-list link is
    `SlottedPage`'s finding).
  - `Write(k)` and `FailedWrite(k)` are `AvlTree`'s create and delete
    outcomes. Each cursor call holds the global lock shared and each write
    holds it exclusively, so calls are atomic, but a write may fall between
    two cursor calls.
- **Refinement.** `KeySet` maps `keys` to the nodes reachable from the root
  and the cursor's position to the top of the stack. It promises the exact
  next name only on an undisturbed cursor; after a write or a failed call
  any position is allowed, since the code promises nothing there (see the
  hazards).

### PageCache

- **State.**
  - `items` is one row's array of items `[page, offset, lt]`, where `lt` is
    `load_time`. `page` is a frame number, or 0 for NULL. `offset` is the page
    number, or 0 for "available". The capacity is `Len(items)`.
  - `frame` gives each frame's `page_offset`, dirty bit, `lock_count` (the
    pin) and contents. Contents are a version number; `ver` hands out fresh
    ones.
  - `nframes` is the number of frames the pool has handed out.
  - `held` is the set of `<<frame, page>>` pins of the call in progress.
  - `op` is the call in progress, and `cpos` is commit's position in the row.
  - `hdr` and `oldHdr` are the page counts of `header` and `old_header`.
  - `disk` and `diskHdr` are the file.
  - Ghosts: `logical` is what the calls have written, and `committed` is the
    state as of the last successful commit.
- **Actions.**
  - `GetPage` is `get_page`, i.e. `cache_lookup(o, 1)`.
  - `create_page` is the whole of `create_page`, including its INVOPER check.
  - Each is one step covering the whole lookup. A hit pins. A miss does one of
    three things: it takes the empty item the scan found, with a new frame; it
    stores NULL there when `bpool_alloc_page` fails and evicts; or it grows the
    row. Every failure (ABORT, IOERR, NOMEM, read failure) is `Throw`, which
    runs the caller's CATCH: a write path unpins and calls `rollback`; a
    reader only unpins.
  - `ModifyPage` is a write path changing a node of a page it pins and marking
    it dirty.
  - `EndCall` unpins.
  - `FailCall` is a write path throwing for its own reasons, such as EXISTS.
  - `CommitBegin`, `CommitPage` and `CommitHeader` are `avstor_commit`: one
    `write_page` per step, stopping at the first NULL page, then the header
    and `old_header`.
  - `Crash` is the process dying at any point, followed by `avstor_open` of
    the file.
- **Calls are serialised.** This is what the exclusive global lock gives
  writers. Readers running concurrently would only share pins, and the row
  lock's upgrade protocol is the one `RWLock` checks.
- **Constants.** These select the environment:
  - `AUTOSAVE` is the open flag.
  - `IoMayFail` says whether `io_read`, `io_write` and `io_commit` may fail.
  - `MayCrash` says whether the process may crash.
  - `MallocMayFail` says whether `bpool_alloc_page` may fail.

### SlottedPage

- **State.** The page header fields `top`, `index_freelist` and
  `index_count`, and `slot`, the slot array keyed by each slot's byte offset
  (`INDEX_OFS + 2k`). A slot holds a node's byte offset, or for a free slot
  the byte offset of the next free slot, 0 (`INVALID_INDEX`) ending the list.
  `heap` is the packed node area from `top` to the end of the page, in address
  order, each node `[index, size, id]`: its back-pointer to its slot, its size,
  and a ghost identity standing for its contents. `handle` is the ghost
  reference (slot offset) last handed out for each identity, and `corrupted`
  records a `MSG_PAGE_CORRUPTED` throw.
- **Actions.** `Init` is `create_page` on a zeroed frame. `AllocNode(size)` is
  `alloc_node` once a page with room is chosen: pop the free list or append a
  slot, lower `top`, write the slot, then the overwrite check, whose throw
  rolls the page back. `resize_node(id, size)` and `free_node(id)` are the
  whole of `resize_node`: the growth check, the pop-last-or-push of a freed
  slot, the move of the nodes below, and the fix-up loop over the moved area
  `[dest, next)`, which is translated as "every node whose new address is
  below `next`". A growth that does not fit throws and changes nothing, so it
  is a stutter step.
- **Byte arithmetic is kept**: alignment to 4, 2 bytes per slot, and the slot
  array at an offset that is 2 modulo 4, as `offsetof(AvPage, index)` is in
  both file-offset builds.

### Store

`Store` models the public create, update and delete calls and what they do
to the set of nodes, with the transaction that `avstor_commit` ends and
`rollback` undoes. It leaves out the trees' shape (the subject of `AvlTree`),
pages (`PageCache`, `SlottedPage`) and the lock (`RWLock`): every public call
holds the global lock, so each call is one step.

- **State.** `nodes` maps each offset in `Ids` to a record: kind (`KEY`,
  `INT32`, `STRING`, `LINK`, or `FREE`), parent (an offset, or `Root` for the
  header's root tree), which of the parent's trees it is in (`sub` or `val`),
  name, value and link target. A value is its length: `update_var_value`
  looks only at whether the length changes. `blkeys` and `blinks` are the
  back-link tree under `root_links`: a key node per link target, and under it
  a `LINK` value per link to it. `committed` is the store at the last commit.
- **Steps.** `CreateKey`, `CreateValue`, `CreateLink`, `Delete` and `Update`
  each take every path of their call: `lock_keyref`'s PARAM and MISMATCH, an
  existing name (EXISTS), a key with children or a node a link points at
  (INVOPER), NOTFOUND, and success. A create or delete that throws runs
  `rollback` (`Throw`), which restores the committed store. An update that
  throws does not: its CATCH_ANY has no rollback. `NewId` is `alloc_node`'s
  choice of the lowest free offset, so freed offsets are reused.
- **Properties.** `BacklinksMirrorLinks`: the back-link tree has exactly a key
  per live link target and a value per live link. `NoDanglingLink`: no link
  points at a freed node. `NoOrphans`: every node hangs from the root or a
  live key, and names are unique within a tree.
- **Not modelled.** The read-only calls (`avstor_find`, `avstor_get_*`,
  `avstor_get_name`, `avstor_get_type`) change nothing. Handles the caller
  kept across a delete are `SlottedPage`'s subject. Long strings, the level
  of a node, and page pools are not modelled.

### Sync

`src/threads/sync.c` supplies C11 `mtx_*` and `cnd_*` where the platform has
none. avstor uses it when built thread-safe on OS/2, on Windows before Vista,
or with `AVSTOR_CONFIG_FORCE_C11_THREADS`. Newer Windows uses SRW locks and
Unix uses the system's `<threads.h>`. `RWLock` takes the mutex and condition
variables as given; `Sync` checks them.

- **State.** `lock` and `count` are `_lock` and `_count`. `sema`, `waiters`
  and `event` are `_wait_sem`'s `_sema_count`, `_waiters` and whether its
  auto-reset event is set. `cv` is the condition variable's packed word
  `{sema, max_waiters}` and `ksem` the count of its kernel semaphore. Per
  thread: `pc`, `cur` (`mtx_unlock`'s local), `cw` (in `cnd_wait`, and its
  `should_wait`), `relc` (the count about to go to `ReleaseSemaphore`) and
  `rounds`.
- **Atomics.** `atomic_exchange`, `atomic_fetch_add`, `atomic_load` and
  `atomic_compare_exchange` translate the i386 implementations of atomics.c.
  Each runs between `ACQUIRE_SPINLOCK` and `RELEASE_SPINLOCK`, so each is one
  step; the `atomics_spinlock` run checks that this is sound.
- **Mutex steps.** Each atomic operation of `mtx_lock` and `mtx_unlock` is
  one step (`LockXchg`, `LockDec`, `UnlockXchg`, `UnlockLoad`, `UnlockCas`; a
  failed CAS reloads `cur`). Each critical-section body of `_usem_acquire` and
  `_usem_release` is one step (`UsemEnter`, `UsemReenter`, `UsemRelease`).
  That is sound because `_sema_count` and `_waiters` are only touched inside
  the critical section. The wait on the event lies outside it: `UsemWait`
  either consumes a set event or blocks, and `UsemRelease`'s `SetEvent`
  either releases one blocked thread or sets the event. A set event stays
  set, so a second `SetEvent` is lost, which is how Windows auto-reset events
  behave. `mtx_trylock` is one exchange, the same step as `LockXchg` from a
  free lock. Nothing in the repository calls it, so it is not a separate
  action.
- **Condition variable steps.** The compare-exchange loops of
  `_cnd_acquire_sema`, `_cnd_release_sema` and `cnd_broadcast` are one step
  each, taken at the successful exchange. They are the operators
  `cnd_acquire_sema` and `cnd_release_sema` and the action `CndBroadcast`.
  `cnd_wait` is three steps:
  - `CndAcquire` takes a place in `_state` while the mutex is held;
  - the unlock runs the mutex steps;
  - `CndWait` skips the wait, takes a kernel unit, or blocks.

  It then re-locks through the mutex steps. `CndSignal` and `CndBroadcast`
  update `_state`. `KernelRelease` is their `ReleaseSemaphore`, which
  satisfies up to its count of blocked waiters at once and leaves the rest
  in the count.
- **OS/2 build.** The constant `Builds` and the variable `build`, chosen
  in `Init`, let one run explore both builds side by side. The mutex's
  atomic steps are shared. `Os2UsemEnter`, `Os2UsemWait`, `Os2UsemReenter`
  and `Os2UsemRelease` are `_usem_acquire` and `_usem_release` over DosSem
  RAM semaphores: each `_mtx_sem` section is one step, and `event` is TRUE
  when `_event_sem` is clear. Unlike the Win32 event, a clear semaphore
  releases every blocked waiter and is not consumed by a wait; a waiter that
  enters the loop sets it again. `_DosSemWait` and `_DosSemRequest` retry
  `ERROR_INTERRUPT`, so interrupts there are invisible. The condition
  variable keeps `cq`, the FIFO of wait items as thread ids, and `iset`,
  whether each thread's item semaphore is set. Each `cond->_mtx` section is
  one step: `Os2CndEnqueue` (`_cnd_try_enqueue_wait_item`), `Os2CndSignal`
  (`_sema_count++` and, at `<= 0`, `_cnd_dequeue_wait_item`),
  `Os2CndBroadcast` and `Os2CndRemove`. `Os2CndWait` and `Os2CndWake` are
  cnd_wait's `DosSemWait` on the item. `Os2CndInterrupt` is that wait
  returning `ERROR_INTERRUPT` (not retried there), at most `MaxInterrupts`
  times; the thread then removes its item and does not give back the
  `_sema_count` it took.
- **Program.** One producer and consumers share the mutex and condition
  variable. A consumer takes `Rounds` items, each in
  `while (items == 0) cnd_wait`. The producer adds `Rounds` items per
  consumer and signals or broadcasts after each, holding the mutex.
  Consumers loop, so the spurious returns the design allows are harmless to
  them.
- **Refinement.** `Owner`, the thread between acquiring and releasing the
  mutex, maps the mutex to `AbstractLock`. `ImplementsLock` checks
  `AbstractLock!Spec`.
- **Fairness.** Weak fairness for each thread: the scheduler eventually runs
  every thread that is not blocked in a wait. `Os2CndInterrupt` is outside
  the fair step: an interrupt may come, never must. The programs end, so the runs
  say `CHECK_DEADLOCK FALSE`. `AllComplete` says that every thread does reach
  its end.
- **Not modelled.** The alertable wait's `WAIT_IO_COMPLETION` return needs
  an APC queued to the waiter, and nothing in the library queues one.
  `ERROR_SEM_TIMEOUT` cannot happen, since every wait is infinite (-1).
  `cnd_destroy` and `_usem_destroy` only clear memory.

### AtomicInt and Atomics

`AtomicInt` is what an `atomic_int` promises. Each call is `Invoke` followed
by one indivisible `Execute`, which applies `Locked`. `Locked` is the
instruction's effect on the `Width`-bit value: exchange, store and load; add,
inc and dec (`LockedAdd`, returning the sign of the true sum from the flags,
as `setg`/`setl` do); bit test-and-set and test-and-clear (`LockedBit`,
returning the old bit); fetch-add and compare-exchange, which on failure
returns the value found.

`Atomics` is the pre-486 build. The variable `kind`, chosen in `Init`,
selects the spinlock, and one run explores both:
- `"xchg"` (`_M_IX86 < 300`): a byte starting at 0.
  - `XchgAcquire` exchanges 1 into it. The thread has the lock if the old
    value was 0, and spins otherwise.
  - `XchgSpin` goes back to the exchange once it reads 0.
- `"dec"` (386): a word starting at 1.
  - `DecAcquire` decrements it and has the lock if the result is 0.
  - `DecSpin` goes back to the decrement once it reads a value above 0.

Spin iterations that see the lock taken change nothing. They are stuttering,
so they are not actions. Inside the lock, every function body:
- loads `*obj` into a register (`Read`; a load call returns that value here);
- stores the new value (`Write`, computed by `SpinBody`);
- releases the lock with a plain store (`Release`).

`SpinBody` is `Locked`, except that `__atomic_add_impl`, `_inc` and `_dec`
return the new value itself.

The refinement `Abs` maps a call to `AtomicInt` as follows:
- it is pending from its invocation until its `Read` (a load) or its
  `Write` (the other calls);
- the release is a stutter step;
- an add, inc or dec result is mapped to its sign.

`ImplementsAtomicInt` therefore says that no interleaving of the threads'
spinlock, load and store steps is distinguishable from the locked
instructions. `SpinWordBound` says the 386 lock word never goes below
1 − |Threads|. That bound is the comment's condition that fewer than 2^15
threads spin: below it the word could wrap round to 0. `AllCallsReturn` says
every thread finishes its calls.

Fairness is weak fairness on each thread's steps: the scheduler keeps running
every thread, and a spinning thread is always runnable. The programs end,
hence `CHECK_DEADLOCK FALSE`.

`Sync` uses the i386 functions as single steps, which this refinement
justifies; they are the same steps at `Width` 32.

### Thrd

`Thrd` models the `__OS2__` half of `part_001`. There are three kinds of
process:
- `Main` creates the threads of `Order` one after another. It joins or
  detaches each one it created, chosen nondeterministically.
- A worker runs `threadproc`, then its thread function, then `thrd_exit`.
  The function may first call `thrd_detach` on its own thread (`Run`).
- `Det` is the detach thread, looping in `detach_thrdproc`.

`Init` is the state after `init_stdthread`, with `Det` already started.

`_thrd_create_ex` has three actions:
- `CreateSem` requests `ThrdSem`.
- `CreateBegin` mallocs the stack, sets `ThrdInitSem` and calls
  `_beginthread`. Either failure releases `ThrdSem` and returns an error.
- `CreateWait` waits for `threadproc` to clear `ThrdInitSem` and reads
  `Thrd._thr_id`.

`ThreadProc` publishes the `_tld` in `ThrdData` (`slot`), or, when its
`calloc` fails, sets the id to −1 and ends the thread.

`thrd_exit` is the chain below:
- `ExitSignal` sets `exited` and signals `cnd_exited` under `mtx_exit`.
- The two `while (...) cnd_wait(&cnd_joined, &mtx_joined)` loops, waiting for
  `joined|detached` and then for `die`, are `ExitLockJoined`, `ExitCheck` and
  `ExitWake`.
- `ExitQueue` pushes a detached `_tld` on `thread_data_list`.
- `ExitEnd` is `_endthread`, which clears `alive`.

`thrd_join` and `thrd_detach` are steps of any process, on the thread
`tgt[p]`:
- `ClaimSem` takes `ThrdSem` and tests `is_thrd_valid` (`Valid`).
- `JoinLock` and `DetachLock` test and set `joining` or `detached` under
  `mtx_exit`.
- `JoinCheck`, `JoinWake` and `JoinRelock` are the wait for `exited`.
- `LockJoined` sets `joined` and `die` under `mtx_joined`. The detach thread
  reaches it from `DetCheck`, which pops the list.
- `DieSignal`, `DieCleanup` and `DieClear` are `wait_for_thread_to_die`.
  `DieCleanup`, guarded by `~Valid`, is the exit from the `is_thrd_valid`
  spin, the destroys and `free(tdata->dyn_stack)`. `DieClear` is what follows
  through `tdata`, which lies in the freed stack: `tdata->dyn_stack = NULL`,
  clearing `ThrdData[tdata->thr._thr_id]`, and releasing `ThrdSem`.

The mutexes are one-step locks (`Take`, `Drop`), which the refinement of
`Sync` to `AbstractLock` justifies. Each condition variable has at most one
waiter:
- `cnd_joined`: the thread itself;
- `cnd_exited`: its one successful joiner;
- `cnd_detach`: the detach thread.

So a condition variable is its `_sema_count` and a flag for the queued item.
`Signal` and `Enqueue` are the OS/2 `cnd_signal` and
`_cnd_try_enqueue_wait_item`. A signal with no waiter is stored, up to
`_max_waiters` = 1. `cnd_wait`'s enqueue and its unlock of the caller's mutex
are one step: moving an unlock earlier only removes behaviours in which the
mutex is held longer.

The properties:
- `FreeWhenUnused`: a thread's stack is freed by a clean-up at most once.
  When it is, its OS thread has ended, no mutex of its `_tld` is held,
  nobody waits on its condition variables, it is not on `thread_data_list`,
  and no process uses the `_tld` except the cleaner in `DieClear`.
- `NoUseAfterFree`: no process uses the `_tld` after the free, the cleaner
  included. Only the extra configuration `MC_Thrd_uaf.cfg` checks it, and
  TLC finds it violated.
- `AllReclaimed`: `Main` finishes, every thread ends, and every created
  thread's stack and slot are reclaimed.
- `TypeOK`: this includes `_sema_count` staying in −1..1.
- `NoStackLeak`: no malloc'd stack stays allocated, whether creation
  succeeded or not. Only the extra configuration `MC_Thrd_tls.cfg` checks it.

Fairness is weak fairness on each process's steps. OS/2 runs every ready
thread. A blocked step becomes enabled when its mutex or semaphore is free,
and stays enabled until it runs, because only finite programs compete for
those locks. The detach thread ends waiting on `cnd_detach` for ever, which
is why the run uses `CHECK_DEADLOCK FALSE`.

### Tss

`Tss` models the OS/2 thread-specific storage of `part_001`. The global
tables `TLSIndexMap` and `TLSDestructors` (`indexMap`, `dtors`) are guarded
by `mtx_tls` (`tlsMtx`, a one-step lock as in `Thrd`). Each thread's
`tls_data` array (`tls[t]`) is its own and is written without a lock.
`handles` is the set of keys the program holds, so `tss_delete` and
`tss_set` are only called with a created key. Each thread makes up to
`MaxOps` calls and then returns from its thread function into `thrd_exit`:
- `TssCreate` takes the first slot with `TLSIndexMap[i] == 0`, sets it to −1
  and stores the destructor, possibly NULL. With no free slot it returns
  `thrd_error` and changes nothing. It does not touch any thread's
  `tls_data`.
- `TssDelete` sets the slot to 0 and its destructor to NULL.
- `TssSet` writes the calling thread's `tls_data[key]`.
- `Exit`, `ExitLock`, `ExitTest` and `ExitCall` are `thrd_exit`'s loop. It
  locks `mtx_tls`, tests `TLSIndexMap[i] && TLSDestructors[i]`, unlocks and
  calls `TLSDestructors[i]` (loaded again at the call), then relocks for the
  next `i`. After the last slot it frees `tls_data` and unlocks. A call
  through NULL stops the thread in `null_call`.

`setSince` is a history variable: whether the thread called `tss_set` on a
key since the key was created. `tss_get` only reads and is left out.

The properties:
- `NoNullDestructorCall`: `thrd_exit` never calls a destructor through NULL.
  The run `tss_delete_race` finds it violated.
- `FreshKeyNull`: a key fresh from `tss_create` reads NULL in every thread
  until that thread sets it. `MC_Tss_fresh.cfg` finds it violated.

Bounds: 2 threads, 2 slots, 1 destructor, 1 value, 3 calls per thread. A
delete racing an exit needs one thread to create and exit while the other
deletes. A reused slot needs create, set, delete and create. Both fit in 3
calls per thread. Weak fairness on each thread's steps is in `Spec`, but no
liveness property is checked: a thread stopped in `null_call` has crashed.

## Runs

| Run | cfg | Checks | Shows |
|---|---|---|---|
| `rwlock_safety` | `MC_RWLock.cfg` | `TypeOK`, `Exclusion`, `LockAccounting`, `UpgradeCompletes` | With 1 reader, 1 writer and 2 deleters, an exclusive holder is alone and the lock word always equals its holders' count. A deleter waiting to upgrade eventually gets the lock. |
| `rwlock_lost_wakeup` | `MC_RWLock_lostwakeup.cfg` | `WriterProgress` (expected violated) | A writer that blocks behind a reader is never woken when the reader releases. |
| `avl_cursor` | `MC_AvlCursor.cfg` | `TypeOK`, `SearchTree`, `Balanced`, `StackFits`, `ImplementsKeySet` | Creates, deletes and cursor calls in any interleaving over 5 names keep the tree ordered, with exactly the allocated nodes and exact balance factors; a stack as deep as the tree never overflows; and tree and cursor refine `KeySet`. |
| `pagecache_safety` | `MC_PageCache.cfg` | `TypeOK`, `NoDuplicate`, `PinnedReached` | With autosave, I/O failures and crashes, but no malloc failure: a row never maps a page twice, and a pinned page stays in its frame and stays findable. |
| `pagecache_rollback_commit` | `MC_PageCache_rollback.cfg` | `FileIsCommitted` (expected violated) | A failed write call followed by a commit makes the aborted change durable. |
| `slotted_page_safety` | `MC_SlottedPage.cfg` | `TypeOK`, `HandlesResolve`, `IndexPartition`, `NodesPacked` | Every sequence of allocations, resizes and frees on a 36-byte page keeps each live reference resolving to its node, the slot array split into live slots and a finite free list, and the nodes clear of the slot array, so the overwrite check never fires. |
| `store_safety` | `MC_Store.cfg` | `TypeOK`, `BacklinksMirrorLinks`, `NoDanglingLink`, `NoOrphans` | Every sequence of creates, links, updates, deletes, failures with rollback, and commits keeps the back-link tree an exact mirror of the links, leaves no link dangling, and keeps the store a tree with unique names. |
| `sync_producer_consumer` | `MC_Sync.cfg` | `TypeOK`, `KernelTokens`, `QueueOwed`, `ImplementsLock`, `AllComplete` | In both builds, a producer and a consumer pass two items through the mutex and condition variable, with one interrupted OS/2 wait. In Win32 every sleeper in `cnd_wait` is matched by exactly one kernel unit; in OS/2 the wait queue holds exactly the unsatisfied sleepers, each once, never more than the negative `_sema_count` owes. The mutex refines `AbstractLock`, and both threads finish. |
| `sync_lost_wakeup` | `MC_Sync_lost.cfg` | `AllComplete` (expected violated) | With three threads, one is left asleep on the mutex's `_wait_sem` while the mutex is free. |
| `thrd_lifecycle` | `MC_Thrd.cfg` | `TypeOK`, `FreeWhenUnused`, `AllReclaimed` | `Main` creates two threads, with malloc, `_beginthread` and TLS failures, and joins or detaches each, while each thread may detach itself. A thread's stack, holding its `_tld`, is freed once, only after its OS thread has ended and when no process but the cleaner uses the `_tld`. Every created thread ends and is reclaimed by its joiner or by the detach thread. |
| `atomics_spinlock` | `MC_Atomics.cfg` | `TypeOK`, `SpinWordBound`, `ImplementsAtomicInt`, `AllCallsReturn` | With both pre-486 spinlocks, two threads each make two calls chosen from all ten functions. Every interleaving of their spinlock, load and store steps behaves like the locked instructions, the 386 lock word stays in its bound, and every call returns. |
| `tss_delete_race` | `MC_Tss.cfg` | `NoNullDestructorCall` (expected violated) | A `tss_delete` by one thread between the test and the call of another thread's `thrd_exit` makes it call the destructor through NULL. |

**Bounds.**
- **RWLock.** Two deleters are the least that make an upgrade refusal
  possible. One reader and one writer make both wait queues non-trivial. The
  state space is complete, with 3,760 states.
- **AvlCursor.** Five names with a stack of 2 entries. Trees of height 2
  fill the stack exactly, so an off-by-one in an overflow test shows in
  `StackFits`. Inserting at depth 3 still succeeds and makes trees of height
  3, on which descents, successor paths and cursor walks overflow: every
  branch of every operator is taken, including a `balance_up` that rotates
  and continues. The run has 44,928 states and takes about 30 s; six names
  take four minutes and add no branch.

- **PageCache.** The bounds are:
  - a file of up to 4 pages (3 data pages, and any page count at open);
  - a row of 2 items that grows by 1 up to 3;
  - 3 frames;
  - one contents version;
  - 4 loads.

  Three data pages in a two-item row force eviction. Pinning both items
  forces `cache_line_realloc`. The pass run has 6.3 million states and takes
  about 2 minutes. Running out of the model's 3 frames is not treated as a
  malloc failure: a lookup that would need a fourth frame is not explored.
  Without that rule, every run would hit the NULL-item problem below.
  `CacheView` leaves the ghost variables out of the state fingerprint; no
  step reads them.
- **SlottedPage.** A 36-byte page with the slot array at byte 6 and nodes of
  4 and 8 bytes holds up to five nodes. That is enough for
  free lists of several slots, for a pop of the last slot that leaves a free
  slot last, for grows that exactly fill the page, and for the case where
  the alignment and the 2-byte reserve decide whether a node fits. Five ghost
  identities, reused after a free, cover every node the page can hold. The
  run has about 110,000 states and takes under a minute.
- **Store.** Three offsets, two names and two value lengths, with the
  names and the lengths as symmetric model values. Three offsets allow a key
  with a child and a link to it, a link to a link, and a freed offset that is
  reused. Two names make EXISTS and unique names matter, and two lengths make
  an update resize. The run has 521,101 states and takes about 1.5 minutes;
  four offsets do not finish in 5 minutes.
- **Sync.** A producer and one consumer with 2 items: the consumer sleeps in
  `cnd_wait` and on `_wait_sem`, the producer signals and broadcasts both to
  a sleeper and to nobody (a stored signal), and re-takes the mutex ahead of
  a woken thread (barging); in OS/2 one wait is interrupted, before or after
  a signal has dequeued its item. That run has 20,013 states (both builds). A second consumer would
  give `max_waiters` above 1, but then the mutex's lost wakeup makes
  `AllComplete` fail. The lost-wakeup run needs three threads, since two
  sleepers must be between `LeaveCriticalSection` and the wait at once; with
  one item per consumer it has about 506,000 states. The same three-thread
  program in the OS/2 build alone (`MC_Sync_os2.cfg`, 1,086,691 states, about
  one minute) satisfies `TypeOK`, `QueueOwed`, `AllComplete` and
  `ImplementsLock`: the manual `_event_sem` releases every blocked
  waiter, so the Win32 lost wakeup does not occur there. That configuration
  is kept beside the runs for anyone who wants to repeat it.

- **Atomics.** Two threads, two calls each, chosen from one call of each of
  the ten functions, in both spinlocks, at `Width` 16. The operands take
  compare-exchange both ways, find bit 1 both set and clear, and take
  inc/dec across 0. Two threads are enough: one holds the lock while the
  other decrements or exchanges and spins, and a release lets the spinner
  compete with the holder's next call. The run has 183,336 states and takes
  about 10 s.

- **Thrd.** Two workers, created one after the other. The clean-up of the
  first (by `Main` or the detach thread) then competes for `ThrdSem` with the
  creation of the second. Every combination occurs: join against self-detach,
  detach against self-detach, a stored signal on `cnd_joined`, a detached
  thread queued while the detach thread is busy with the other, and each
  creation failure. The run has 34,456 states and takes about 5 s.

**Findings.**
- `rwlock_lost_wakeup`. `rwl_release` (part_005:941) broadcasts `cv` only
  when an exclusive hold ends. When the last reader leaves, going from 2 to 0,
  nothing is signalled. A writer, `avstor_commit`, or rollback's
  `rwl_lock_exclusive` fallback already blocked on `cv` then sleeps on a free
  lock until some other exclusive release happens. If no exclusive release
  ever comes, it sleeps forever.

- `pagecache_rollback_commit`. `rollback` (part_005:2591) marks a dirty item
  available but keeps its frame dirty; the reset of `page_offset` is commented
  out. `avstor_commit` writes every frame in the row up to the first NULL
  item, whatever its item maps. So the change of a call that failed, for
  example one that ended in ABORT, reaches the file at the next commit.
- `tss_delete_race`. `thrd_exit` (part_001:550) tests
  `TLSIndexMap[i] && TLSDestructors[i]` under `mtx_tls`, unlocks, and then
  calls `TLSDestructors[i](tdata->tls_data[i])`, which loads the pointer
  again. In the trace, t1 creates a key with a destructor and returns; its
  `thrd_exit` finds the key in use and unlocks; t2 calls `tss_delete` on the
  key, which sets `TLSDestructors[key]` to NULL; t1 then calls through NULL.
  C11 leaves the number of destructor calls unspecified when `tss_delete`
  races them, but not a call through a null pointer.
- Torn commits: pages are written in place before the header, so a failed
  write or a crash in between leaves new pages under the old header.
  `FileIsCommitted` catches this (hazards at part_005:2503 and 2509). A
  shorter trace through the rollback finding comes first, so it has no run
  of its own.
- `sync_lost_wakeup`. `_usem_release` (sync.c:139) wakes sleepers through
  an auto-reset event, which remembers one wakeup. In the trace, the
  producer t1 takes the mutex, adds an item and broadcasts to nobody. While
  it holds the mutex, the consumers t2 and t3 both fail the exchange. t2
  decrements `_count` to -1 and enters `_usem_acquire`'s critical section;
  t1's unlock raises `_count` to 0; t3 decrements it to -1 and enters as
  well. t1 releases (`_sema_count` 1, event set), re-locks at once, adds the
  second item, signals, and unlocks again (`_count` 0, `_sema_count` 2,
  `SetEvent` on a set event). t2 consumes the event and gets the mutex; t3
  waits on the reset event and blocks. t2 takes an item and unlocks, which
  raises `_count` to 1 and releases nothing. t3 sleeps with `_sema_count` = 1
  on a free mutex, until some later contender releases, and in the run no
  thread ever does.
**Extra configurations.** These are kept beside the runs but are not runs:
- `MC_PageCache_malloc.cfg` checks `CommitWritesAllDirty` with malloc
  failures, and TLC finds it violated. A failed `bpool_alloc_page` for the
  first empty item leaves NULL in it. Eviction stops there and fails, and
  `cache_line_realloc` puts the page behind the NULL. Commit stops at the
  NULL, so the page is never written, while the header that counts it is.
  Without malloc failure no item is ever NULL, and the property only
  restates that commit walks every item, so no passing run checks it; the
  hazard at part_005:1655 points here.
- `MC_Thrd_uaf.cfg` checks `NoUseAfterFree`, and TLC finds it violated on
  the first clean-up. `wait_for_thread_to_die` frees `tdata->dyn_stack`
  (part_001:343), then writes `tdata->dyn_stack` and reads
  `tdata->thr._thr_id` (344, 348). `tdata` is `threadproc`'s local (452), so
  it lies in the block just freed. The comment at 334 says the stack stays
  valid because `ThrdSem` keeps new threads from taking it, but `free` hands
  the block to the allocator, which may write into it or return it to any
  thread's `malloc`. The index read can then clear another `ThrdData` slot or
  write outside the array. Every join or detach clean-up does this.
- `MC_Tss_fresh.cfg` checks `FreshKeyNull`, and TLC finds it violated.
  `tss_create` (part_001:690) reuses a deleted slot without clearing the
  threads' `tls_data[key]`, so after create, `tss_set`, delete and create, the
  new key reads the old value in that thread, and its `thrd_exit` passes it
  to the new key's destructor. C11 says a new key's value is NULL in every
  thread. The value is the caller's old pointer, so this is recorded as a
  hazard rather than a run.
- `MC_SlottedPage_stale.cfg` checks `StaleHandleDetected`, and TLC finds it
  violated. `get_node` (part_005:1780) reports "Node has been deleted." only
  when the slot holds 0. A freed slot holds 0 only if it was the last slot of
  the array or the free list was empty. If a second node is freed, its slot
  holds the offset of the first free slot, so `get_node` returns a pointer
  into the slot array as a node. Using a freed node's reference is the
  caller's error, so this is not a run.
- `MC_PageCache_leak.cfg` checks `NoFrameLeak`, and TLC finds it violated.
  A miss that finds an available item gives it a new frame (part_005:1655)
  instead of reusing its own, which is what spec §4.5 step 6 says. The old
  frame is never freed. The hazard at part_005:1655 records it.
- `MC_Thrd_tls.cfg` enables only the TLS failure and checks `NoStackLeak`,
  and TLC finds it violated. When `threadproc`'s `calloc` of the TLS array
  fails (part_001:457), the thread ends with `Thrd._thr_id` = −1.
  `_thrd_create_ex` frees `ThrdStack` only when `_beginthread` fails, so the
  failed thread's stack is never freed.
- `MC_Atomics_overflow.cfg` uses bit 15 instead of bit 1 and checks
  `ImplementsAtomicInt`, and TLC finds it violated:
  - a `bit_test_and_set` makes `*obj` −32768;
  - `_atomic_add(obj, -1)` then returns 32767 from `__atomic_add_impl`
    (atomics.c:213), where the 486 instruction returns −1.

  A caller testing the result's sign would behave differently by CPU.
  Nothing in the repository calls `_atomic_add`, `_atomic_inc` or
  `_atomic_dec`.
- `MC_Sync_os2.cfg`: see the Sync bounds above.

Every property of a passing run has a mutant in `PROJECT.json`: a plausible bug
in a mapped definition, written as an operator just before it, that TLC catches.

## Not modelled, and the plan

In order of importance:

1. **Store over the page cache.** `Store` takes a failed call's rollback as
   a return to the committed store. Composing it with `PageCache` would show
   the rollback finding as nodes that come back after a commit. Composing it
   with `SlottedPage` would show `update_var_value` moving the nodes a caller
   points at.
2. **Thread start-up.** `call_once` (part_001:748) returns at once
   to a second caller while the first is still in `init_stdthread`, so two
   threads calling `thrd_create` first at the same time can use `ThrdData`
   before it exists; `Thrd` and `Tss` start after `init_stdthread`. `Tss`
   leaves out `tss_get`, which only reads, and the range checks on a key,
   which return `thrd_error` without a state change. The Win32 half of
   `part_001` maps directly onto Windows threads.
3. **PageCache, more rows and concurrency.** Several rows sharing the pool,
   and readers looking up pages in one row at the same time under the row
   lock (`rwl_upgrade_or_release`, part_005:960).
4. **The exception frames.** `throw_ex` pops FINALLY frames, aborts on a
   throw from a CATCH, and `END_TRY` rethrows; the models encode each THROW
   as an early exit of its action.

Out of reach or not worth a model:
- `load_count` wrapping after 2^32 loads, and `cache_line_realloc` raising
  `capacity` before `realloc` can fail (undefined reads past the array). The
  second is listed as a hazard.
- File I/O, open and close are system calls; their failures enter the models as
  nondeterministic results.
- The tests and makefiles are not part of the library.
- The unmapped lines of the threads files are the licence headers, the
  prototypes and `#define`s of `threads.h`, and in `stdatomic.h` the MSVC
  inline-assembly copies (lines 164–288) of the Watcom
  instructions already modelled.

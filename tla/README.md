# A TLA+ model of the event system calls

The repository is a Linux 2.6.32.63 tree to which its authors added a small
subsystem of their own: *events* that processes open, wait on, signal and
close with eight new system calls. This directory models that subsystem, and
of the kernel around it what the subsystem's correctness depends on: wait
queues and wake-ups down to the stores of their lists, the reader-writer and
ticket spinlocks down to their instructions, the reuse of freed memory.

`E` below is `src/linux-2.6.32.63/csc456/eventsyscalls.c`.

## The system

| component | state | operations |
|---|---|---|
| event system calls (`E`, `include/linux/event.h`) | the list `allevents`, the reader-writer lock `lock`, each `struct event` (id, uid, gid, two flags, `condition`, wait queue) | `doevent_init`, `doeventopen` (181), `doeventclose` (182), `doeventwait` (183), `doeventsig` (184), `doeventinfo` (185), `doeventchown` (205), `doeventchmod` (211), `doeventstat` (214) |
| wait queues (`include/linux/wait.h`, `kernel/wait.c`, `kernel/sched.c`) | per queue a spinlock and a list of entries that live on the waiters' stacks; per task its state and whether it is on a run queue | `prepare_to_wait`, `finish_wait`, `wait_event_interruptible`, `wake_up_all`, `schedule`, `signal_wake_up` |
| lists (`include/linux/list.h`, `lib/list_debug.c`) | circular lists of `next` and `prev` pointers | `list_add(_tail)`, `list_del_init`, `list_empty(_careful)`, `list_for_each`, `list_for_each_entry_safe` |
| locks (`arch/x86/include/asm/spinlock.h`, `arch/x86/lib/rwlock_64.S`) | a counter that readers decrement and writers lower by a bias; a head and a tail ticket in one word | read and write lock, trylock and unlock with their slow paths; ticket lock, trylock and unlock |
| slab allocator (`mm/slub.c`) | free objects, chained through their first word | `kmalloc`, `kfree` |
| user memory, credentials, call tables, boot | | `copy_from_user`, `copy_to_user`, `current_euid_egid`; `init/main.c:687` calls `doevent_init` |

Not part of it: the test programs in `src/test` (interactive drivers), the two
editor copies of `E` that `csc456/Makefile` does not build, the QEMU
installation in `src/install`, and the rest of Linux. The root `README`
describes a `prinfo` call that is not in the tree.

**How they interact.** Every call but `doeventopen` and `doeventinfo` looks
its event up by id under `read_lock_irqsave`, checks permission, *drops the
lock* and goes on with a bare pointer. `doeventsig` and `doeventclose` then
look at the wait queue with no lock, take the write lock, count the queue's
entries without the queue's own lock, set `condition` and call `wake_up_all`
(`doeventsig` after the unlock, `doeventclose` before); `doeventclose` unlinks
the event and calls `kfree` after the unlock. `doeventwait` sets
`condition = 0` under no lock and sleeps in `wait_event_interruptible`.

**What is hard.** The kernel is SMP (`csc256.config`: x86_64, 8 CPUs,
voluntary preemption): calls interleave at every access outside a lock. A
signal races with falling asleep; waiters of one event share one `condition`;
pointers outlive the lock they were found under and the object they point to;
the counting loop walks a list that others change; a Unix signal may end a
wait at any point. `PROJECT.json` lists these hazards at their lines.

**What makes it correct.** No wake-up is missed; a wait entry is never linked
after its process has left; a wait that reports success was signalled; ids
name one event each; sections under the lock exclude each other and nobody
leaves with a lock; readers see one state of the list and of an event's
fields; an event that fires reaches its waiters. Below it: the locks exclude
and, for a queue's, serve in order; a list operation is seen whole or not at
all; nobody writes to the stack frame of a wait that is over.

## The modules

| module | what it is |
|---|---|
| `WaitQueue` | wait queues and the half of the scheduler that sleeps and wakes; one action per critical section of a queue's lock |
| `Events` | the eight system calls, composed with `WaitQueue`; specification and properties |
| `EventTable` | the abstract specification: a table of events whose operations are atomic |
| `EventsImpl` | the refinement mapping from `Events` to `EventTable` |
| `MCEvents` | instances for TLC: casts of processes, users, arguments |
| `Locks` | the abstract specification of the two kinds of lock, as `Events` uses them |
| `Spinlock` | their x86 implementation: one action per instruction that another CPU can see |
| `CallLocks` | the event system calls reduced to their lock operations, composed with `Spinlock`; the refinement mapping to `Locks` |
| `MCLocks` | the instance of `CallLocks` for TLC |
| `AtomicList` | the abstract specification of a wait queue's list: a sequence that changes at once |
| `WaitList` | one wait queue with its pointers, a store at a time, and the refinement mapping to `AtomicList` |
| `EventsTypes`, `EventsLocks`, `EventsTable`, `EventsInfo`, `EventsQueues`, `EventsRefines` | proofs about `Events` and `EventsImpl` |
| `LocksRefines` | proofs about `CallLocks` |
| `WaitListProofs` | proofs about `WaitList` |

The levels fit together as follows. `Events` takes a lock as a variable and a
queue as a sequence. `CallLocks` shows that the instructions of the x86 locks
implement such variables (`ImplementsLocks`), and that a queue's lock serves
everybody (`QueueServed`), which is the strong fairness that `Events` and
`WaitList` assume of it. `WaitList` shows that the pointers implement such a
sequence (`ImplementsList`). `EventsImpl` shows what the whole is good for:
the list of events is an atomic table (`ImplementsTable`).

### `Events` and the code

State: `evlist` is the list as a sequence of slots, `ev[s]` the fields of the
event in slot `s`, `slab[s]` whether the slot is allocated, `readers` and
`writer` the lock. Per process: `pc`, `call`, `arg`, and the C locals: `ptr` is
`newevent` or `waitEvent`, `process` is `process` (in `doeventinfo`, `check`),
`cursor` is `j`, `buf` is `eventsarray` (in `doeventstat`, the `this*`
locals), `retVal`. Two variables are history: `opens` counts the events ever
listed; `heard[p]` says whether `condition` was set, in the slot `p` points to,
since `p` reset it, and whether `p` was in the queue then.

A step is a critical section, or one access outside one:

| call | steps |
|---|---|
| open | `doeventopen_kmalloc`, `doeventopen_add` (the section), `doeventopen_return` |
| sig, close | `*_lookup`, `check_active`, `take_write_lock`, `count_waiter` (a turn of the loop), `set_condition`, `wake_begin`/`wake_one`/`wake_end`, for close `doeventclose_del`, `doeventclose_free` |
| wait | `doeventwait_lookup`, `_reset`, `_first`, `_prepare`, `_check`, `_schedule`, `_resume`, `_finish`, `_del` |
| chown, chmod | `*_lookup`, `set_first` and `set_second` (one store each, under the write lock) |
| info | `doeventinfo_args`, `_lock`, `_walk` (a turn), `_copy` |
| stat | `doeventstat_lookup` (probes and section), `_copy` |

A section that touches only what `lock` protects is one step, guarded by the
lock being free for it. The sections of the counting loop, of chown and chmod,
and of `doeventinfo` hold the lock over several steps, because they touch what
the lock does not protect or because their being torn is the question.

Undefined behaviour and freed memory:

* A pointer to a freed event stays usable as long as nothing else gets the
  slot; `kfree` leaves the free-list pointer in `id` and `uid` (`FreePtr`).
  Another event may get the slot (`doeventopen_kmalloc`); any other user of
  the slab may too (`slab_reused`), after which nothing is said.
* An entry the counting loop stands on may be on a stack that was reused
  since (`stack_reused`).
* A double free, `init_waitqueue_head` on a queue in use, a store to a freed
  event's `uid`, and a wild pointer set `corrupt`. The specification then
  stutters: properties speak of runs up to that point, and the runs that show
  how it is reached are the violations listed below.
* The uninitialised `waitEvent` is null, what an earlier call left in the
  same stack slot (`ptr` outlives the call for this), or anything.
* After `condition = 0`, `wait_event_interruptible`'s first look may use the
  stored 0 instead of a load: both outcomes are allowed.

Data abstractions: user pointers are null, writable, read-only or unmapped;
`doeventstat`'s four pointers are one, the least usable of them; ints wrap at
`IntMax`; effective ids are constants.

### `EventTable`

Opening appends an event with the id after the last one's; closing removes
one; chown and chmod replace an owner or a pair of flags as a whole; stat and
info report one state. The mapping takes the two stores of a chown or chmod
together, at the first: until the second the process holds the write lock. A
query is mapped to the moment it drops the lock; what it has read must then be
what the table holds. Permissions are no part of the promise, because the code
does not keep them (`stale_owner`), and neither are the calls that fail, nor
an id that is reused after its event was closed. A `doeventstat` on an empty
list may go on with an unassigned pointer and return 0; it reads no event and
copies back what it fetched from the user, so it is no report here, and
`no_event` shows it.

### `Spinlock`, `CallLocks` and the code

`rw` is the rwlock's int, `head` and `tail` are the bytes of the ticket word,
`ticket` and `old` the registers. A locked instruction is one step; `incb` in
the unlock has no lock prefix and is two, so that other CPUs' `xaddw` and
`cmpxchgw` come between its load and its store. `cmpxchgw` fails if the word
is no longer what was loaded. An attempt on the rwlock that fails leaves its
subtraction in the counter until the next step takes it back, and the slow
paths spin on loads and try again. Numbers wrap as the machine's do.

`CallLocks` runs scripts: the lock operations of each event system call in
their order (`doeventclose` wakes with the write lock held, `doeventsig` after
it; `doeventwait` takes the queue's lock once per turn of its loop, at most
`MaxTurns`, and once more in `finish_wait`), and the trylocks, which no event
call uses but which share the word. The build is `csc256.config`: SMP, 8 CPUs, so byte tickets; no lock debugging, no
paravirtual locks.

### `WaitList` and the code

`next` and `prev` are the pointers of the head and of every process's entry. A
list operation loads what it needs and is then a sequence of stores
(`stores`), each a step; the build has `CONFIG_DEBUG_LIST`, whose `__list_add`
makes the same stores after two checks that `DirectionsAgree` shows never
warn. `__wake_up` walks with `curr` and `n` as `list_for_each_entry_safe`
does. `finish_wait` makes `list_empty_careful`'s two loads without the lock. A
frame that is gone holds `NONE`. A woken process prepares again, as
`wait_event_interruptible` does, or finishes at once, as other users of the
queue such as `congestion_wait` do. The latter are why the check matters: an
event's waiter is always queued when it calls `finish_wait` (the third part of
`QueueDiscipline`), so it always takes the lock. Deletion is atomic to who
follows pointers from the head; a walker that stands on an entry when it is
removed goes on from it as from a list of its own, which `Events` models in
`NextNode` and `counting_loop` shows.

The refinement mapping `listMap` is the sequence of entries that the `next`
pointers lead through from the head back to it (`Forward`); were there none,
it would be `<<HEAD>>`, which is no state of `AtomicList`.

## Runs

Passing:

| run | instance | shows |
|---|---|---|
| `signals` | 2 waiters, a signaller, an opener and closer, 1 slot used twice; symmetric in the waiters | `TypeOK`, `NoMissedWakeup`, `QueueDiscipline`, `NoSpuriousReturn`, `NoLockCarried` |
| `table` | one process opens and closes, one chowns and chmods, one lists and stats; 2 slots, two users | `IdsIncreasing`, `InfoSnapshot`, `SectionsExclude`, `ImplementsTable` |
| `reaches` | 1 waiter, 1 signaller, an opener and closer, 1 slot used twice, Unix signals, fairness | `NoMissedWakeup`, `QueueDiscipline` with a waiter that leaves by itself, `SignalReaches`, `UnixSignalEndsWait` |
| `locks` | 3 processes that make every call's lock operations and the trylocks; `BIAS` 3, ints of -6 .. 5, 4 tickets, up to 2 turns; fairness | `TypeOK`, `CounterExact`, `ImplementsLocks`, `QueueServed`, `StarvedOnlyByOthers` |
| `lists` | 3 processes that wait and wake on one queue; fairness | `TypeOK`, `DirectionsAgree`, `StackSafe`, `ImplementsList`, `CallsEnd` |

Violations, each of what a comment of `E` says:

| run | property | what happens |
|---|---|---|
| `lost_signal` | `NoSignalLost` | a second waiter's `condition = 0` takes the first one's signal |
| `orphaned_waiter` | `NoOrphanedWaiter` | close saw an empty queue; a late waiter sleeps on freed memory |
| `double_free` | `NoDoubleFree` | two closes of one id |
| `counting_loop` | `CountingEnds` | the entry under the cursor is taken off by its own `finish_wait` and points to itself: the loop spins with the write lock held |
| `no_event` | `NoEventFails` | empty list: `doeventstat` goes on with an unassigned pointer and returns 0 |
| `stale_owner` | `OnlyOwnerSets` | the owner changes between check and store |
| `open_race` | `OpenReturnsUsableId` | the id is read from a freed event |

What some of the properties leave open, because the code does:

* `SignalReaches` promises a return only if `condition` stays 1 until the
  waiter has looked. It is taken back in two ways: another `doeventwait` resets
  it (`lost_signal`), or the event is closed and a `doeventopen` gets its slot;
  the waiter, woken by the close, then finds 0, queues on the new event and
  sleeps until that one fires. The run has the second way. With a second waiter
  as well (`p3 :> {"wait", "sig"}`) it passes too, in four minutes.
* `NoSpuriousReturn` speaks of the pointer the waiter holds: in the case just
  described the new event's signal ends a wait for the old one. It leaves out
  the processes that Unix signals interrupt: to them `doeventwait` returns 1
  too, because `E:143` drops `wait_event_interruptible`'s value.
* `IdsIncreasing` stops at `IntMax`: `doeventopen` then lists an event whose
  negative id the other calls refuse (`OpenReturnsUsableId`, with `IntMax = 1`
  and three opens). In `table` two opens do not come so far.

**Bounds.** `MaxOpens` caps `doeventopen`; two or three are enough for a slot
and an id to be used again while somebody holds the old pointer. `IntMax` is
small so that the count and the ids reach it, and so that the endless counting
loop has few states; no property depends on the count's value. Two waiters are the fewest that
share a `condition` and make a queue with a middle; two wakers the fewest
that race for it. There is no bound on how often a process calls, nor on the
length of a run. In `locks` the constants are the smallest that
`CpusAssumption` allows for three processes, so that the counter reaches the
end of its ints (-6, when three writers have all subtracted the bias) and the
tickets wrap with every CPU queued. Three processes are the fewest
with two waiters and a waker in `lists`: the walk then removes an entry that
has a neighbour, while either waiter's `list_empty_careful` reads its own.

**Fairness** (`reaches`, `counting_loop`, `locks`, `lists`). A process inside a
call keeps running: weak fairness of its steps, which is what the scheduler
and spinning give. In `locks` that is all: a CPU executes instructions.
`QueueServed` follows from it, and justifies the strong fairness that `Events`
and `WaitList` give to the steps that take a queue's lock. Nothing forces a
process to make a call, a Unix signal to be sent, or memory to be reused. The
rwlock is not fair: a stream of readers keeps a writer out for ever, and
repeated trylocks of a writer can keep two spinning readers out.
`StarvedOnlyByOthers` says that it takes such a stream; the slow paths, whose
failed attempts disturb each other, do not starve by themselves. Accordingly
nothing stronger than weak fairness is assumed of the rwlock. Deadlock is
checked in every run: a process in user mode can always call, so what it would
find is everybody stuck inside the kernel.

## Proofs

All theorems are for every set of processes and slots, every assignment of
calls and users, every argument set and every bound, under the named
assumptions of `WaitQueue` (`NodesAssumption`) and `Events`
(`ConstantsAssumption`), of `Spinlock` (`CpusAssumption`) and `CallLocks`
(`ScriptsAssumption`), or of `WaitList` (`ProcsAssumption`: the processes are
finitely many and none of them is the head or `NONE`). Every safety property
and every refinement of the passing runs is proved.

* `EventsTypes`: `Spec => []TypeOK`. Inductive with `PtrOK`: at the control
  points that use `ptr`, it is not null. One lemma per action.
* `EventsLocks`: `LockInv` says that the readers are the processes in
  `doeventinfo`'s walk, the writer the process in a write section, a queue's
  lock is held by the process that wakes it, and a writer excludes readers.
  Most steps touch no lock (`CalmSteps`); the others have a lemma each. From
  it `Spec => []SectionsExclude` and `Spec => []NoLockCarried`. Exclusion
  alone is not inductive: it needs to know who the writer is.
* `EventsTable`: `Spec => []IdsIncreasing`. The next id is the last one's plus
  one, so the invariant must bound ids by the number of opens (`IdInv`), and
  must know that no slot is listed twice, nor listed and owned by another
  `doeventopen` (`SlotInv`): stale closes unlink and free slots that have been
  reused, and a `kfree` of a listed slot would overwrite its id.
* `EventsInfo`: `Spec => []InfoSnapshot`. `WalkInv` relates what the walk has
  stored to the list as it is; that others cannot change the list meanwhile
  comes from `LockInv`, and that `kfree` changes no listed id from its
  argument being off the list.

* `EventsQueues`: `Spec => []QueueDiscipline` and `Spec => []NoMissedWakeup`,
  from `QueueInv`. `NoMissedWakeup` speaks of processes that sleep, which is
  not inductive: the signal may come when a waiter has looked at the condition
  and not yet called `schedule`. `WakeInv` says the same of every process that
  will sleep on its next step, and `SleepInv` that a sleeper can be woken;
  that the waker's walk will meet the waiter comes from `QueueDiscipline`.
  Most steps are `Apart` from the queues and `Mild`, and share one lemma.
  `Spec => []NoSpuriousReturn`, from `HeardInv`: past its reset a process sees
  `condition = 1` only if it has heard a signal, although other waiters reset
  the same `condition`.
* `EventsRefines`: `Spec => ImplementsTable`. Each step is mapped to a step of
  the table or to none. It needs `LockInv` (nobody reads between the two
  stores), `SlotInv` (a slot is listed once, so a store changes one row, and
  `kfree` none), `WalkInv` (what `doeventinfo` has stored are the list's ids)
  and `QueryInv` (a query that has found an event keeps what it read).
* `LocksRefines`, first half: `Spec => []CounterExact` and that a writer is alone
  (`WriterAlone`), together inductive as `RwInv`. Counting who has subtracted
  what gives the exact value; the bound on the CPUs then makes the sign and
  the zero mean what the code takes them to mean. Cardinalities of the two
  sets change by one with each instruction.
* `LocksRefines`, second half: `Spec => ImplementsLocks` and `Spec => []TypeOK`,
  whose range for the counter is not the int's but what the processes can
  take from it: it says that no subtraction overflows, and follows from
  `CounterExact`.
  `TicketInv` says that the tickets in use are distinct, lie between head and
  tail and are as many as the processes that queue; with fewer processes than
  tickets, head = tail then means that nobody does, and the line is well
  defined modulo the number of tickets.
* `WaitListProofs`: `Spec => []TypeOK`, `Spec => []DirectionsAgree`,
  `Spec => []StackSafe` and `Spec => ImplementsList`. The pointers are wrong
  in the middle of every operation, so that none of these is inductive.
  `QueueInv` says that there are pointers `nx` and `pv` which are in order,
  and that the actual ones are either these or short of them by the stores
  still in `stores` (`Phase`: `Still`, or which of the four stores of an
  addition or a removal are left, and what they are to overwrite). In order
  means that each direction is the other's inverse on the live entries and
  that nothing points to a frame that is gone (`Shape`), and that some ranks
  fall along `nx` (`Ranked`). The ranks exclude a ring that does not pass
  through the head: without them, a removal could be from such a ring.
  `Places` says that a walk stands on, and goes to, entries of the list, and
  `Sections` that only the holder of the lock has stores to make, and that
  `next[p]` stays `p` between the two loads of `list_empty_careful`. Every
  action has a lemma; an addition and a removal have one per store.
  `DirectionsAgree` is `Shape` when nobody holds the lock; `StackSafe` follows
  because what is touched or pointed to is live. The last load of
  `list_empty_careful` is the argument that matters: it sees `prev[p] = p`
  only when the last store of the removal is done, so that no store to `p` is
  left.
  For `ImplementsList` (`ListInv`: the next pointers lead through a list of
  distinct entries back to the head), the list is unique: of two, take the
  least index at which they differ. Then a store changes it by nothing, by an
  entry in front, or by one entry less, according to whether it is the last
  of an addition, the second of a removal, or another.

Only model-checked: the liveness properties `SignalReaches`,
`UnixSignalEndsWait`, `QueueServed`, `StarvedOnlyByOthers` and `CallsEnd` (the
prover does not handle fairness), and the violations.

## Not modelled

The kernel stack's size, which `int eventsarray[num]` may exceed; memory
ordering weaker than x86's (stores of one CPU are seen in order, and the
queue's and run queue's locks order the rest); interrupts (the irq-saving
locks exclude them, and no handler touches events); user memory's contents,
and with them which of `doeventstat`'s four stores a failure leaves done;
changes of a process's credentials during a call. The slab allocator's pages
and per-CPU lists: an event can tell of them only that a freed slot comes back
or does not, which `Events` models. Exclusive waiters and `wait_bit`, which no
event call uses. The rest of Linux is unmodified and has no part in events;
the test programs are interactive drivers with no state of their own.

## What could be added

* `doeventstat`'s four user pointers one by one, with a partly failed copy.
* The word ticket lock of kernels with 256 CPUs or more (the same algorithm,
  with an unlock of 16 bits).
* A composition of `WaitQueue` and `WaitList` in one specification; today
  `WaitQueue` assumes a queue as a sequence and `WaitList` implements one.

# A verification project for psxhlebios

psxhlebios re-implements the PlayStation BIOS in C++ inside an emulator: the
guest program's calls to the A0/B0/C0 vectors, its `syscall`s and the CPU's
exceptions are served by C++ functions that read and write the guest's
registers and RAM. This directory holds TLA+ models of that kernel, TLC
configurations that check them, and theorems proved with TLAPS.

Line references are to `src/src/`. The configuration modelled is the one the
sources ship with: `HLE_DUCKSTATION_IFC=1`, `HLE_ENABLE_YIELD=0`,
`ASYNC_EVENT=1`.

## 1. Inventory

The kernel is one sequential C++ program, called by the emulator's CPU loop. Its
difficulty is that it does not run alone: guest code runs *inside* its
functions (`softCall` executes guest instructions until the handler returns),
guest code is interrupted between instructions, and the guest program owns
every table (they live in guest RAM).

| component | state | operations | hard behaviour |
|---|---|---|---|
| Events (`psxbios_event.cpp`) | EVCB table in RAM, its size | Open/Close/Enable/Disable/Test/Wait/Deliver/UnDeliverEvent | handlers run in the middle of a table walk and may change the table or deliver again |
| Asynchronous events (same file) | `async_events[128]`, `async_event_nb`, `busy_card_info` in the savestate | PostAsyncEvent, DeliverAsyncEvent | bounded queue, delivery at the next interrupt, posts during delivery |
| Memory card commands (`psxbios.cpp` 1454-1608, 2330-2577) | busy bits | `_card_info`, `_card_load`, `_card_read/_write`, `_bu_init`, `firstfile`, `delete` | each answers by one or two events, some synchronous, some queued |
| Threads and exceptions (1721-1888, 1953-1984, 3726-3885) | TCB table, current PCB, CP0 status/cause/EPC, `jmp_int` | OpenTh/CloseTh/ChangeTh, exception entry and exit, syscalls | contexts saved and restored around interrupts; a switch inside an exception |
| Interrupts (3638-3717, 2695-2756) | I_STAT/I_MASK, the four handler chains, pad buffers, root counters | biosInterrupt, SysEnqIntRP/SysDeqIntRP | chains edited by the guest while the kernel walks them |
| User heap (810-1011) | blocks threaded through RAM | InitHeap, malloc, free, calloc, realloc | lazy coalescing, headers in guest memory |
| Kernel tables (1507-1552, 1618-1635, 2758-2950) | kernel bump allocator, table of tables | SysMalloc, SetConf, boot | tables rebuilt under the feet of their users |
| Memory card files (1986-2545) | a file descriptor to a card, the search, the card's directory and blocks | open/read/write/close/lseek, firstfile/nextfile, rename, delete | directory entries chained by block, asynchronous transfers |
| Program loading (1207-1327, 3416-3607) | registers, the saved EXEC record, the current directory | Load, Exec, LoadExec, boot from disc, cd, setjmp/longjmp | return context kept in guest RAM |
| qsort (713-808) | `qscmpfunc`, `qswidth`, the word at `KERNEL_CP0_STATUS` | qsort | guest comparison callbacks inside it, a critical section with one save word |
| C library (141-711) | none (`rand` seed, `strtok` pointer) | strings, memory, numbers | overlapping blocks, 0 pointers |
| stdout, printf (1012-1206) | `stdoutbuf` | putchar, puts, write, printf | lines put together from several calls |
| GPU helpers (1337-1446) | none; the GPU's and the DMA controller's | GPU_dw, mem2vram, GPU_SendPackets, ... | transfers that go on after the call has returned |
| Fonts (`sjisfont.h`, 2590-2694) | none | Krom2RawAdd | a table of runs, gaps between them |
| Disc file system (`psxhle-filesystem.cpp`) | cached path and file tables | cache, lookup | entries in any order, a disc that is swapped |
| Savestates (3986-4151) | all of it but the tables' numbers of entries | HleHookAfterLoadState | states written by another BIOS or an older version |
| Emulator interface, debug output, yield calls | none of the kernel's own | | I/O only |

How they interact. Card commands and files post to the event queue; the
exception handler (`psxBiosException80`) saves the current thread's context,
calls `biosInterrupt`, which delivers the queue first and the timers' events
after it, and then runs the guest's handler chains; handlers are guest code and
may call anything. `SetConf` rebuilds the thread, event and process tables. The
heap, the library and the loader touch only guest RAM and registers. What the
program has put in place of the kernel's (functions in the table of calls, code at
the exception vector, a hook) is looked up at each call or exception, and has to be
found again in a savestate.

What makes them correct:

* events: a delivery is neither invented nor lost, callbacks run and are never
  left pending, a waiter wakes;
* queue: bounded, first-in first-out, exactly the events present when the
  interrupt begins are delivered by it, each the right number of times;
* card commands: a port is busy exactly while an answer is on its way;
* interrupts: one at a time, they return, they restore what they interrupted;
* threads: a thread that runs again finds its context as it left it, whatever
  exceptions and switches happened meanwhile;
* handler chains: they end, and a walk serves once what stays in its chain;
* card files: what is written is what is read, the directory tells the truth of
  each file, a search misses none;
* kernel tables: they lie apart from one another and from what the allocator gives
  away, and the globals agree with them;
* heap: blocks are large enough, disjoint, within the heap; memory that is free
  is found again;
* interrupts: what is due is served once, in order, and nothing else is
  acknowledged; pads are written where the program asked for it;
* programs: the file that was asked for is the one that runs, and a program that
  returns finds its caller as it left it;
* disc: every file is found under its path, in whatever order entries come;
* qsort: the array is sorted, loses nothing whatever the comparison function
  answers, and interrupts are as they were;
* library, output, fonts, GPU: each call does what its definition says on every
  small input, and the order of what comes out is that of the calls;
* savestates: what was put in place before is in place after.

The hazards of this code, each at its line with the properties that cover it, are
listed in `PROJECT.json`.

## 2. Events

`Events.tla` models `psxbios_event.cpp` completely and what the memory card
commands do to events.

| variable | code |
|---|---|
| `evcb`, `evcbMax` | the EVCB table, `EVCB_MAX` (`G_EVENTS_SIZE / SIZEOF_EVCB`) |
| `queue` | `g_hle->async_events[0 .. async_event_nb - 1]` |
| `busy` | the bits of `g_hle->busy_card_info` |
| `stack` | the activations of `DeliverEvent` on the C++ stack: what is delivered, the loop index, the handler being run (or none), who called, what the caller posts when the walk ends |
| `irq` | the depth of `stack` at which `biosInterrupt` was entered, or none |
| `batch`, `timers` | `events[]` of `DeliverAsyncEvent`; the timer and vsync events `biosInterrupt` still has to deliver |
| `waiting` | the slot on which the main program re-executes `WaitEvent` |
| `lost` | history: busy ports whose answer was lost |

A step is what runs between two points where guest code can run: a whole BIOS
call, or a stretch of the table walk up to the next callback (`WalkToCallback`)
or to its end (`WalkEnds`). `CanCall` says who may call: the main program when
no walk is in progress, a handler when it is the innermost activation. During
an exception IRQs are masked, so `Interrupt` needs `irq = NoIrq`; it may come
in while a handler of a *synchronous* delivery runs.

Simplifications, each kept visible in the module: event classes and handlers are
model values, an event's parameters come from `OpenArgs`; `MainCalls` and
`HandlerCalls` say which calls a run lets the program and its handlers make;
`WaitEvent` is made by the main program only (in a handler it would spin with the
exception open and nothing would be delivered); nested walks are bounded by
`MaxDepth` (the code has no bound: the C++ stack overflows). The I_MASK and CP0
bits of the guest are left out: `Interrupt` is enabled whenever it might be.

`AsyncChannel.tla` is the abstract specification of the queue: the occurrences owed,
oldest first, those of one kind that were posted together kept as a kind and a number,
and how many of these entries the running interrupt has taken on. Occurrences are handed
over one at a time. `EventsRefinement.tla` states that Events implements it
(`ChannelSpec`), and, with fairness, that every occurrence is handed over or forgotten by
SetConf (`ChannelFairness`). An event of repeat count r stands for max(r, 1) occurrences.
`MCEvents.tla` holds the constants of the runs.

### Runs

| run | instance | shows |
|---|---|---|
| `events_sync` | 2 slots, walks nested three deep, queue of 2, a vsync, repeat counts 0 and 2; all table calls from the program; OpenEvent, CloseEvent, DisableEvent, DeliverEvent and firstfile from handlers | `HandlersNest`, `PassLeavesNoneBehind` |
| `events_async` | queue of 3; a waiter and a callback that posts again; card commands from the program and from handlers; ports, one that overflows its field; SetConf | `TypeOK`, `BusyPorts`, `ChannelSpec`, `ChannelFairness`, `InterruptsReturn`, `BusyClears`, `WaiterWakes` |

`HandlersNest` is `CallbackNeverDelivered`, `ReentryOnlySynchronous` and
`OneInterrupt`; `BusyPorts` is `BusyIsPending` and `OneInfoPerPort`. The conjuncts
are about one walk or one bit seen from two sides, and are proved apart (below).

Why the bounds are enough: the walk treats each slot on its own and never looks
back, so what matters is a slot with the callback and one before or behind it; a queue of three lets a pair
of posts fit, half fit and not fit; depth two is a handler that delivers
again, depth three an interrupt inside it. `PassLeavesNoneBehind` is about
handlers that do not re-arm events: in `events_sync` they may open, close, disable
and deliver, but not enable; one that does may of course leave a slot ENABLED
behind the walk.

Fairness (`Fairness`): the emulator's own code runs without stopping (weak
fairness of the walk and of the exception handler); vsync interrupts keep coming
and the guest does not mask them for ever, and they are enabled again and again
rather than continuously, since they are masked during an exception (strong
fairness of `Interrupt`); `WaitEvent`'s jump to itself is re-executed whenever the
main program runs; a handler, once entered, returns (per nesting level).

### Remarks

* `PostAsyncEvent` says a full queue "Probably shouldn't happen" and asserts it
  does not; a program that issues 64 `_card_load` with interrupts masked gets
  there. What is dropped is silent in a release build, and if it is the answer
  of a `_card_info` the port stays busy (`BusyIsPending` and `BusyClears` have
  to except it, through `lost`).
* `busy_card_info` is commented as having "1 bit
  per port (so 2 bits)", and a `_card_info` of an unknown port sets a further bit.
  The bit of a port that does not fit the event's 4-bit field is never cleared;
  `BusyIsPending` excepts it too.

### Proofs

`EventsProofs.tla`, for every value of the constants allowed by
`SizesAssumption` and `ArgsAssumption`:

* `TypeCorrect`: `Spec => []TypeOK`. `TypeOK` is inductive. One lemma per group of
  actions, on top of lemmas for each helper (`EnqueueType`, `DeliveredOnceType`,
  `PushType`, `PopType`, ...).
* `CallbacksNeverDelivered`: inductive together with `TypeOK`. The walk marks only
  slots before the first callback ahead, none of which is a matching callback
  (`CallbackWalk`).
* `InterruptsDoNotNest` and `AsyncHandlersNotReentered`: `OneInterrupt` is not
  inductive by itself, because a walk that ends could pop the frame the
  interrupt sits on. The added conjunct `InterruptedInHandler` says that frame is
  inside a handler, so its walk stands still until the exception returns.
  Re-entrance follows: two activations neither of which is synchronous would both
  sit right above the interrupted code.
* `BusyPortsArePending` and `OneInfoQueuedPerPort`: the two conjuncts are proved
  together, with `AfterIsPlain`: what `firstfile` posts after its walk answers no
  `_card_info`. Every other post only makes the queue longer by such events
  (`GrownPlain`), an accepted `_card_info` finds no earlier answer because its port
  was not busy, and an interrupt clears the bits of everything it takes on.
* `HandlersNestProperly` and `BusyPortsAgree` put these together to the two
  properties the runs check.

* `PassesLeaveNoneBehind`: a walk leaves no matching event ENABLED behind it but
  callbacks. It assumes `HandlersRearmNone`: the constant `HandlerCalls` names none of
  EnableEvent, TestEvent and UnDeliverEvent, the three calls that make an event ENABLED
  again. With one of them the statement is false, and so it is of the code: a
  handler may well re-arm an event the walk has passed. Given that, slots are only ever
  taken out of ENABLED while a walk is on the stack (`NoneRearmed`), and walks only move
  forward (`WalksStand`); whatever a handler opens is in state WAIT.
* `EventsAreChannel` (`Spec => ChannelSpec`), for queues, tables, repeat counts and nesting
  of any size. What is owed is the batch and the queue (`Owed`). Delivering the head of
  the batch either counts its number down or drops it (`OwedOnce`); whatever a card
  command, a handler or a walk that ends posts goes behind all there is, also where it
  does not fit in whole (`CardCallsGrow`, `WalkEndGrows`, `OwedAdded`); an interrupt takes
  on all of it; SetConf keeps what the interrupt has taken on (`OwedTaken`). Everything
  else is a stutter.

Only model-checked: the liveness properties, `ChannelFairness` among them.

## 3. Threads and exceptions

`Threads.tla` models the TCB table and the ways a context is saved and restored.
A context is two marks of progress, each `[of, at]`: the thread it belongs to and
how far that thread has come, one for the registers and one for the program
counter. Marks are what the property needs: a context mixed from two threads, or
from two moments of one thread, shows as marks that do not fit. They are counted
modulo `Period`.

| variable | code |
|---|---|
| `tcb`, `tcbMax` | TCB table (status, registers, pc, status register), `TCB_MAX` |
| `cur` | the thread `PCB[0]` points to |
| `cpu` | registers, program counter, CP0 status (the enable bits of the three modes and the mask bit 0x400), EPC, Cause.BD |
| `mode` | whose guest code runs: a thread's, a handler's that `psxBiosException80` called (for an interrupt, for a syscall), the entry hook's |
| `jmpInt` | `g_hle->jmp_int` is set |

| action | code |
|---|---|
| `Work` | an instruction of the running thread |
| `OpenTh`, `CloseTh`, `ChangeTh`, `HookEntryInt`, `SetConf` | the BIOS calls; OpenTh and CloseTh by handlers too |
| `Interrupt(at)` | `psxBiosException80` up to the first handler; `at` tells an interrupt on a COP2 instruction (resumed behind it) and one in a delay slot |
| `InterruptToHook`, `ReturnFromException` | the two halves of the ordinary way out |
| `SwitchThread` | a handler writes the process control block |
| `CriticalSection`, `Syscall`, `SyscallReturns`, `Breakpoint` | the other exceptions |

`Coroutines.tla` is what this promises: one thread runs, only it moves, and it
moves from where it was; exceptions do not exist. `ThreadsRefinement.tla` maps
Threads to it: the context of the running thread is the CPU's, that of any other,
or of the current one during an exception, its TCB's. The mapping needs rules
about the guest, and they are stated as the assumption `ProgramRules`: a hook is
installed before interrupts come in, a thread that closed itself opens no thread
before it hands over, and the callbacks of a syscall do not switch threads. Each
is a real restriction: with any of them dropped TLC finds a thread that resumes
with another's context, and each is listed as a hazard.

| run | instance | shows |
|---|---|---|
| `threads_switch` | tables of one and two threads, marks modulo 2, switches by ChangeTh and by handlers | `ExceptionMasked`, `CoroutineSpec` |

Two threads suffice because every save and load names one thread, or two, the one
left and the one entered; two marks tell the latest save from the one before.
The way out of an exception with no hook installed is in Interrupts (section 8).

A remark: with no entry hook `psxBiosException80` returns to EPC and never restores
the context it saved; the handlers' `s0`, `s1` and `sp` go to the thread. This is
why `ProgramRules` asks for the hook.

`ThreadsProofs.tla` proves, for any number of threads, `TypeCorrect`,
`ExceptionsMasked` and `ThreadsAreCoroutines` (`Spec => CoroutineSpec`). The
invariant adds to types and masking: a thread's code runs on registers of a thread
(`ThreadCode`), every saved context is a thread's (`SavedRegs`), handlers run only
with a hook installed (`Hooked`), and during a syscall EPC is the program counter
of the current TCB (`SyscallSaved`): the return takes one from EPC and the rest
from the TCB, so the refinement stands on the two agreeing.

## 4. The user heap

`Heap.tla` models `malloc`, `free`, `calloc`, `realloc` and `InitHeap`. `chunks`
maps the place of each header a walk could still find to the words it owns and its
lowest bit; `held` records the blocks the program was given and the bytes it asked
for. malloc's first loop is the operator `Collected`: it says which headers remain
in play and what they hold (runs of free chunks merged, a run that a 0 header cuts
short dropped, everything behind a 0 free). The scan stops at the first 0
(`Reached`). Its second loop is `FirstFit`, then `Taken` splits or takes whole.
Addresses are words from the heap's start; sizes that wrap are computed modulo
`Wrap`, a small stand-in for 2^32.

Programs free and reallocate what they hold, once. The three 2 MB mirrors and the
hole above them are one space of 8 MB: two blocks that lie 2 MB apart alias on the
machine and not here (the code's own comment says so of Super Marvel).

`Allocator.tla` is the promise: blocks are disjoint with a word of header in front
of each, lie in the heap, are put at the lowest place with room, and are refused
only when no place has room. `HeapRefinement.tla` states it of Heap for sizes that
do not wrap around (`SizesDoNotWrap`). It is stronger than it looks: memory is
freed without merging, so "no place has room" depends on the next malloc merging
every run there is.

| run | instance | shows |
|---|---|---|
| `heap_blocks` | heaps of 5 and 8 words, one of them clamped; blocks of 0 to 3 words and of 6 by calloc | `BlocksInHeap` (types, `BigEnough`; `BlocksWithin`: a block ends before its heap does; `HeapInRam`), `AllocatorSpec` |
| `heap_calloc` | calloc with little memory | violated: `LowMemoryKept` |
| `heap_realloc` | realloc with no block | violated: `ReallocNoneAllocates` |

Eight words hold up to four chunks: two free neighbours between blocks, exact fits,
splits that leave a chunk of no words, and a heap too full.

Findings: calloc clears low RAM when malloc failed (it tests a host pointer that is
never null); realloc of no block asks malloc for 0 bytes (its size is never moved
to `a0`) and so always fails. Two remarks at the limit of 32 bits, excepted by
`SizesDoNotWrap`: a request within 3 bytes of 2^32 gets a block of no words, whose
header 0 hands everything behind it out again; InitHeap's clamp adds before it
compares.

`HeapProofs.tla` proves `TypeCorrect`, `BlocksBigEnough`, `BlocksStayWithin` (the chunks
tile the heap, and a chunk that is held has its last word before the end),
`HeapStaysInRam`, their conjunction `BlocksStayInHeap`, and
`HeapIsAllocator` (`Spec => AllocatorSpec`) for heaps and requests of any size. The
invariant: either the heap is fresh, a single 0 header and no blocks, or the
chunks tile it (`Tiled`: each header is followed by the next, or by the end) and
those that are not free are exactly the blocks held, each of its rounded size
(`Holds`). The argument for first fit: after `Collected` no two free chunks are
neighbours (`CollectedTiled`), so wherever the blocks leave room the chunk at or
below that place is free and reaches beyond it (`Room`), and conversely every free
chunk that fits is a place with room (`FitIsPlace`). Chunks before or behind a
place are found with the least and the greatest element of a set of numbers
(`Least`, from the library's theorem that inclusion of finite sets is
well-founded): induction that takes an operator as a parameter is out of reach of
the provers.

## 5. The interrupt handler chains

`IntChains.tla` models `SysEnqIntRP`, `SysDeqIntRP` and the loop of
`psxBiosException80` over the chains. An element is three words of the program's
memory, so the links are data the guest keeps.

| variable | code |
|---|---|
| `heads` | the first word of each entry of the table at `G_HANDLERS` |
| `next` | the first word of each element |
| `runs` | who runs: the program, the kernel's loop, a verifier or a handler called by `softCall` |
| `chain`, `head` | `i` and `head` of the loop |
| `owed`, `visited` | history: what the chain held when its turn began and still holds, less what was visited; what was visited |

| action | code |
|---|---|
| `SysEnqIntRP`, `SysDeqIntRP` | the calls, by the program, a verifier or a handler |
| `SetConf` | a new table of empty chains |
| `WalkStarts`, `NextChain` | the loop comes to a chain and reads its head |
| `Visit` | takes the link of an element, then calls its verifier if there is one |
| `VerifierReturns`, `HandlerReturns` | the verifier answers (0 or not), the handler returns |
| `Returns` | the end of the loop; the way out of the exception is in Threads |

Guest code is entered between `Visit` and the next one with the link already
taken. `Path(next, h)` is the set of elements one comes to from a link, the least
set closed under links.

The rule about the guest is `MayEnqueue`: no program enqueues an element that is
in a chain, or that the walk has still to come to. The first half is the library's
own contract: without it two links close a cycle, and the walk and the search of
`SysDeqIntRP` never end. The second excludes a handler that dequeues the element
ahead and enqueues it at once. Both are listed as hazards.

`HandlerLists.tla` is the promise: lists, newest first, and an interrupt that
serves in turn what each list holds when its turn comes; what was enqueued
meanwhile waits for the next interrupt, what was dequeued may or may not be served
once more (it is when the walk stands on it). `IntChainsRefinement.tla` maps the
linked elements to it (`InOrder`).

| run | instance | shows |
|---|---|---|
| `chains_walk` | three elements, one with no verifier, two chains | `ChainsEnd`, `OncePerTurn`, `HandlerListsSpec`, `WalkEnds` |

Three elements give a head, one in the middle and a last one, so that each kind of
dequeue happens before, at and behind the walk; the code treats the four chains
alike, and two are one that is walked and another. Fairness: the loop runs on, and
guest code called by `softCall` returns (it runs with interrupts masked, and an
exception whose handler does not return is lost whatever the kernel does).

`ExceptionProofs.tla`, which also has the theorems about Interrupts (section 8), proves
`ChainsTypeCorrect`, `ChainsAlwaysEnd`, `ServedOncePerTurn` and `ChainsAreLists`
(`ChainsSpec => HandlerListsSpec`) for any number of elements and chains. The invariant
`ChainsInv` adds `Walk`: what is owed lies ahead of the walk and in its chain, what was
visited does not lie ahead. `ChainsEnd` says an element does not lead back to itself, for
all that lies in a chain *or ahead of the walk*: the second part is needed because
a dequeued element keeps its link. The lemmas say how paths change: linking an
element on no path changes none (`PathLink`), and leading links past an element
takes at most that element from each path (`PathBypass`). Since paths are least
closed sets these follow from closure alone, with no induction along a list.

The refinement needs the order of a path as well. `Spells(s, nx, h)` says that a sequence
is the elements of the path from h in the order of their links; at most one sequence
spells a path (`SpelledOnce`: the places where two of them agree are closed under links),
so `InOrder`, which chooses one, is that one. `Listing`, that every chain and what the
walk has ahead is spelled by its `InOrder`, is inductive: a chain with a new head, without
its first element, or led past a later one is spelled by the new list (`SpelledMore`,
`SpelledTail`, `SpelledWithout`), and a path that keeps its links keeps its spelling
(`SpelledSame`). Dequeuing an element while the walk stands on it is where the abstract
list may serve it once more: the walk's path keeps it exactly if the element whose link is
led past lies behind the walk. `WalkEnds` is model-checked only.

## 6. Memory card files

`CardFiles.tla` models the files of a card. Block k of a file is found as block
(first block + k) of the card; the links between directory entries are written for
other programs and never followed here.

| variable | code |
|---|---|
| `dir` | the directory entries: state (0x51, 0x52, 0x53, 0xA0), size in blocks, link, name, whether the checksum is right |
| `data` | the units of the card |
| `fdesc` | `g_hle->FDesc[1 + mcd]`: first block, offset, asynchronous or not |
| `search` | `g_hle->ffile`, `nfile` |
| `got` | what `read` copied last |
| `open`, `owed` | history: the file the descriptor was opened on exists; what the search has still to find |

| action | code |
|---|---|
| `Open`, `Create` | `open` that finds its file or does not, `open` with FCREAT that creates one |
| `Read`, `Write`, `Lseek` | one unit of a `read` or `write`; what `getc` and `putc` make of it, and of two cards' descriptors, is in Descriptors (section 10) |
| `Rename`, `Delete` | the calls |
| `Firstfile` | `firstfile` up to its event |
| `Nextfile` | `bufile`: the rest of `firstfile`, and `nextfile` |

`firstfile` sets the search up and then delivers an event, whose callbacks may make
any other call: these are the steps between `Firstfile` and `Nextfile`. A callback
is taken to leave the registers as they are (`delete` and `firstfile` read `a0` and
`a1` again after the event: a hazard, not checked here), and to start no search of
its own.

Rules of the guest, each of them something the code does not look at and listed as
a hazard: a file is created only where the blocks behind the first free entry belong
to no other file, and with fewer than 8 blocks, the size the entry's byte can
hold (`MayCreate`); a program reads, writes and moves within the file it opened, while
it exists (`MayMove`).

`FileStore.tla` is the promise: files with a name and contents, one cursor to a card.
`CardFilesRefinement.tla` maps the blocks from a file's first on to its contents.
`FileStoreSpec` says that no operation on one file shows in another, through
create, delete and rename in any order.

| run | instance | shows |
|---|---|---|
| `cards_files` | one card of three blocks, files of one to three, two names, a pattern that fits one of them | `FilesWhole`, `SearchComplete`, `FileStoreSpec` |

Three blocks hold a first, a middle and a last one, and two files with a gap left by
a third. Cards do not share anything but the search, which names one. A block is one
unit: what matters is which block is accessed. At most one unit at a time is
marked (`OneMark`): no step depends on what a unit holds, so a single mark shows
whatever is read or written in the wrong place.

Remarks, none of them contradicted by a text of the repository: `delete` frees the
first block alone and leaves the others in use; `open` of a missing file rewinds the
descriptor that is open; an asynchronous read does not move the offset and an
asynchronous write does; the code's own comments at 2083 and 2094 know that nothing
looks for room behind the first block.

`CardFilesProofs.tla` proves `TypeCorrect`, `FilesStayWhole`, `SearchFindsAll` and
`FilesAreSeparate` (`Spec => FileStoreSpec`) for any number of cards, blocks, names and patterns. The invariant adds three facts. Only
first blocks have a name (`LinksNameless`), so what a name finds is a file. An open
descriptor is on one (`OpenOnFile`); with `FilesWhole`, which bounds the file by the
card, every place accessed is on the card (`PlaceOnCard`). What the search
owes is ahead of it and still fits (`OwedAhead`), so `bufile`, which takes the first
that fits, passes none by. `FilesWhole` carries `delete` by
itself: no block of a file is another's first (`FilesApart`), so the entry that is freed
is in no other file. Whether a file is whole depends on its own entries only
(`Whole`), and `create` writes none of another's. For the refinement, `PlacesApart`
says that a place lies in one file: of two files the later one starts behind the
other's last block, again by `FilesApart`. The card that `create` leaves is described
once (`Laid`), for the invariant and the refinement alike.

## 7. The kernel's tables

`KernelTables.tla` models where the tables of the kernel lie and who keeps track of
it: boot, `SetConf`, the kernel's bump allocator, and savestates. What the tables
hold is the business of the other modules.

| variable | code |
|---|---|
| `ram` | what a savestate covers: the pointers and sizes at `G_HANDLERS` .. `G_EVENTS_SIZE`, `g_hle->kheap_addr` and `kheap_size`, the thread `PCB[0]` points to, whether "HLE" stands at `KERNEL_HLE_MAGIC` and the trampoline at the exception vector; and, as history, the blocks `SysMalloc` gave away |
| `max` | the C++ globals `HANDLER_MAX`, `PCB_MAX`, `TCB_MAX`, `EVCB_MAX`, which no savestate covers |
| `synced` | history: the tables whose size did not change in RAM since `max` was set from it |
| `saved`, `phase` | the savestate; `psxBiosInit` was called or a program runs |

| action | code |
|---|---|
| `Reset`, `Restart` | `psxBiosInit`; the emulator started again |
| `psxBiosLoadExecCdrom` | boot from a disc, whose SYSTEM.CNF may give the number of threads and events; one thread more for some games |
| `SetConf`, `SysMalloc`, `SysInitMemory` | the calls |
| `Open` | `OpenTh`, `OpenEvent`: the number of entries is first read again from RAM |
| `ChangeTh` | the call, and the handlers that write `PCB[0]` |
| `MoveTable`, `ReplaceVector` | the program writes a table's pointer and size; its own code to the exception vector |
| `SaveState`, `LoadState`, `LoadForeign` | `HleHookAfterLoadState` on a state of this BIOS, and on one that another saved, which it converts |

`Rest` is one allocation, with its subtraction modulo `Wrap` (2^32); `Laid` is where
`psxBiosInitKernelDataStructure` puts the four tables, in the order of its calls.
A `rel_check` that fails ends the emulator, also in a release build: it leads to
`Restart`.

The rules of the guest are the assumptions on the constants and two guards. Numbers
of threads and events are not 0 and their tables' sizes do not wrap; memory that the
program gives to `SysInitMemory`, in whole words, or moves tables to, is its own.
`MayConvert` says which states convert well, and `ReplaceVector` is taken not to
happen once a conversion has overwritten the magic bytes: both are listed as
hazards with the lines that make them necessary.

| run | instance | shows |
|---|---|---|
| `kernel_tables` | a heap with room for two threads, two events and a block of 5 bytes; an arena; a place to move each table to; a foreign state that lies over the magic bytes | `MemoryApart` (types, `TablesApart`, `BlocksApart`), `GlobalsAgree` (`CurrentInTable`, `WalksInTable`), `OwnStatesLoad` |

Counts of one and two make a table grow, shrink and stay; five bytes is a size that
is rounded up; the events' table moves to ten bytes, no multiple of its entries. The
heap is small enough that the rel_check fails, by a block or by a configuration.

Remarks. A conversion copies the pointers and sizes up to, and not including,
`G_EVENTS_SIZE` (line 4049), so the events' table gets the size it has here. The
numbers of entries survive a reset: a disc whose SYSTEM.CNF says nothing inherits the last
one's, and the thread added per game is added again each time. After a load the
loops run over the old number of entries until `OpenTh` or `OpenEvent` is
called (`WalksInTable` excepts what is not `synced`). `SetConf` hands out again the
blocks `SysMalloc` gave away from the kernel's own heap; `given` drops them.

`KernelTablesProofs.tla` proves all of them for a kernel of any layout
(`TypeCorrect`, `TablesStayApart`, `BlocksStayApart`, `CurrentStaysInTable`,
`WalksStayInTable`, `SavedStatesLoad`) and the two conjunctions (`MemoryStaysApart`,
`GlobalsStayInTables`). A savestate is a RAM that may come back at
any time, so the invariant is a predicate on RAM, `Sound`, of which `IInv` says that
it holds of `ram` and of `saved`; each operation takes a sound RAM to a sound RAM.
`Sound` strengthens the properties in three ways: a block lies wholly in a region
that `SysMalloc` has worked in and away from what it has left (else the next block
could overlap it), a table lies in the kernel or in a place of its own (else an
arena could overlap it), and what is left is a number of whole words below `Wrap`
(else `kheap_size` could go below 0 by an allocation that passes the check).
`LaidOut` describes the tables of a boot once, for boot, `SetConf` and conversion.

## 8. Interrupts and pads

`Interrupts.tla` models what `psxBiosException80` does about an interrupt besides
contexts (Threads), the queue (Events) and the chains (IntChains): the bits of I_STAT
and I_MASK, the root counters' events, the pads, the hook and the way back without one.

| variable | code |
|---|---|
| `istat`, `imask` | the bits of the registers |
| `autoAck` | `TIMER_IRQ_AUTO_ACK`, written by `ChangeClearRCnt` and `InitRCnt` |
| `pads` | `pad_started`, `pad_buf`, `pad_buf1`, `pad_buf2` |
| `jmpInt`, `sr`, `tcbSr` | `g_hle->jmp_int`, CP0 status, the status saved in the TCB |
| `stage`, `at`, `due` | whose guest code runs, which root counter is served, the `istat` of `biosInterrupt` |
| `served`, `tick`, `asked` | history: the events this interrupt delivered; what became of each source's last interrupt; the buffers the last initialisation named |

The kernel runs in one step between two pieces of guest code, and guest code of any
stage may make any of the calls and write I_STAT and I_MASK, while bits rise at any
moment. `StartPAD`, `PAD_init` and the critical section's syscalls write the status the
program runs with, so they are the program's own.

| run | instance | shows |
|---|---|---|
| `interrupts` | the vertical blank, root counter 1 and one other device; two port buffers, one word buffer | `EventsAsDue`, `TickPending`, `PadsWrittenAsAsked`, `InterruptsStayEnabled`, `PendingIsServed` |

`EventsAsDue` is what makes a snapshot of I_STAT safe: what was due when the interrupt
began is served once and in the order 3, 0, 1, 2, whatever callbacks acknowledge or mask
in between. `TickPending` says who may take a pending bit away: guest code,
auto-acknowledge after the callbacks of the counter, and, with no hook, the
`Write_ISTAT(0)` on the way back, which takes all of them, also those that rose in the
handlers. `Acknowledge` is what a device's driver does. Two root counters stand for four: one with auto-acknowledge and the vertical blank,
which never has it; `Order` has all four.

Fairness: the CPU takes an interrupt that is enabled again and again (`SF` of
`Interrupt`), guest code that serves an exception returns (`WF` of the other kernel
steps). `PendingIsServed` is conditional on a program that enables interrupts time and
again.

`ServedInOrder` is stated by places in the code's `Order`: `ServedUpTo(n, due, served)`
says that `served` has those of the first n counters that were due, and these only, each
behind those that come before it.

`ExceptionProofs.tla` proves `EventsServedAsDue`, `TicksStayPending`,
`PadsWrittenWhereAsked` and `InterruptsLeaveEnabled` for any program, callbacks and hook:
whichever of the calls guest code makes in any stage, and whenever bits rise. The invariant
`IInv` has two conjuncts more than the properties. `PadsNamed` says the buffers the pads
are polled to are those the history holds, in every state rather than at a poll.
`EnabledBelow` says that while an exception is served the previous-mode enable and the
mask bit are set, in the CPU's status and in the one saved in the TCB: both ways back take
the program's status from one of these. That guest code leaves them so is why the program's
own calls, which write the status, are not made in an exception (`StartPAD` and the like,
see above). `PendingIsServed` is model-checked only.

## 9. Programs and the disc

`Disc.tla` holds the file system as operators: `psxFs_CacheFilesystem` applies `AddFile`
to the entries in the order the parser reports them (`MayReport`: directories before
what is in them, sectors not shared, no name twice in one directory),
`recurse_parent_walk` builds a directory's path, `buildFilesByDirLUT` the table by path.
`TruePath` is what they are compared with: the names from the root down, read off the
entries as a set. `Programs.tla` puts the operations on it.

| variable | code |
|---|---|
| `disc`, `fs` | the disc in the drive; the one the tables were built of, and `m_filesByFullpath` |
| `hle` | `g_hle->version`, `pwd` |
| `header` | the EXEC records: the program at their pc, the context `Exec` saved in them |
| `regs`, `jmpbuf` | the CPU's context, the contexts of `setjmp` |
| `calls`, `owner`, `frames`, `asked` | history: who waits for a return, the activation a record belongs to, how many were used, which program was asked for |

| action | code |
|---|---|
| `psxBiosLoadExecCdrom` | reset and boot |
| `cd`, `Load`, `Exec`, `LoadExec` | the calls; Load looks the sector up first and brings the tables up to date when it reads |
| `ExecRet` | the return of a program, which finds its caller's context through `s0` |
| `setjmp`, `longjmp` | the calls |
| `Swap`, `Work` | the disc is swapped; an instruction of the program |

`CallStack.tla` is the promise: activations form a stack, a return resumes the caller
where it called, a jump unwinds to its mark. `ProgramsRefinement.tla` maps the contexts
left in records, buffers and registers to it (`CallStackSpec`).

The rules of the guest: `MayAsk` (paths that start with a slash, or name a card, are not
used after a `cd`, and the disc was not swapped since the tables were built: the look-up
does not notice it), `MayReturn` (a program returns while the record it was started
from is its own), and a jump goes to an activation that has not ended. Where `MayAsk`
does not hold the model still does what the code does, but `asked` claims nothing.

| run | instance | shows |
|---|---|---|
| `programs` | two discs of five entries with the same name in each directory and the same sectors in other roles, reported in four orders; states of versions 1 and 2; one record besides LoadExec's, one buffer | `FilesFound`, `RunsAsAsked`, `CallStackSpec` |

Bounds: three activations (`MaxFrames`) give a caller, a called one and one above or
after it; places are counted modulo 2 (`Period`); the disc is swapped before the second
activation starts (`SwapFrames`), and what follows then is every call with stale tables. The program
stops when the activations are used up: CHECK_DEADLOCK FALSE.

`ProgramsProofs.tla` proves, for any discs, paths, records and bounds: `TypeCorrect`,
`ProgramsAreCalls` (`Spec => CallStackSpec`), `FilesAreFound` (`Spec => []FilesFound`) and
`RunsWhatIsAsked` (`Spec => []RunsAsAsked`). For the first two the invariant says that the
activations on the stack are in the order of their numbers (`Ordered`), that a record
which still belongs to an activation holds the context of the one below it
(`OwnersSaved`), and that a buffer set by a live activation has its record and its
program (`MarksSaved`).

`FilesAreFound` rests on `OrderDoesNotMatter`: whatever order the parser reports a disc's
entries in, the tables are `ByTruePath`. The argument: after `k` entries the tables have a
closed form (`TablesAfter`: each sector its entry, each directory its true path), which
`AddFile` takes from `k - 1` to `k` because the directory an entry is in was reported before
it (`AddsFile`); the walk from a sector ends at the root since each directory on
the way has a smaller rank (`Walks`); two entries have different paths (`DistinctPaths`, by
the rank again), so that `buildFilesByDirLUT` puts each under its own. What the disc must be
like is the assumption `DiscsAssumption`, which is `MayReport` for every listing. The lemmas
`Induction` (over a set of numbers) and `Recursion` (that a function defined by
recursion along a rank exists) stand for the library's, which take a predicate and which
the provers cannot instantiate.

## 10. The library run

These parts share no state. `MCLibrary.tla` has them in one run, one family of calls to
a behaviour (`family`), each in its own module and with its own property. `Services.tla`
puts them side by side, with the assumptions on their constants.

| module | code | property |
|---|---|---|
| `Qsort` | `qsort_main`, its exchanges, the critical section around it | `SortsInPlace`, `DepthBounded`, `SortEnds` |
| `Library` | strings, memory blocks, characters, `atoi`, `todigit`, `abs` | `MemoryAsDefined` |
| `Console` | `raw_putc`, `raw_puts`, `write` and `putc` to stdout, `printf` | `LinesInOrder` |
| `Fonts` | `Krom2RawAdd` and its two tables | `GlyphsInOrder` |
| `Gpu` | `GPU_dw`, `GPU_cw`, `GPU_cwb`, `mem2vram`, `SendGPU`, `GPU_SendPackets`, `sys_a0_4c` | `WordsAsMeant` |
| `Descriptors` | the descriptors of two cards, `getc` and `putc` | `AnswersDue` |
| `Dispatch` | the table of calls, the exception vector, what a conversion keeps | `KeptAsAsked` |

Bounds (`library.cfg`): arrays of four elements with keys 0, 1, 2 (every case of the
partition, a shift by three included, and two levels of recursion), comparison functions that
are honest, that give any answer, or that sort themselves; memories of four bytes and
their ends, of all values that some call tells apart (0, space, plus, minus, a digit, one
above 127), and every range on them, overlapping ones included; lines of up to two
characters printed by any calls, formats of three characters with conversions
and four without numbers; every code of the font (these do not depend on a bound);
images of one to 93 pixels, of which one size fills whole blocks; files of two
bytes, one of them negative as a character; two games of five known ones. A
behaviour that has printed `MaxText` characters, or asked for a glyph, stops: CHECK_DEADLOCK FALSE.

Rules of the guest: `MayCopy` (Library), `MayPrint` (no `%%`, no format that breaks off),
`MayWrite` and `MayTransfer` (nothing written to the GPU before a transfer has ended,
whole blocks of 16 words), `MayUse` (within the open file), `MayConvert` (which states of
OpenBIOS convert well). Each names something the code does not look at. `VectorTells` is
its own check: with a program's code at the vector `rel_check` (4104) gives the load up.

A conversion knows OpenBIOS's heap and hook by searching its code. `Dispatch` has the
searches: the first two stores among the 16 instructions of InitHeap (`FoundHeap`,
4078-4094), the first addition to `a0` among the 25 that follow the first 100 of the
handler (`FoundHook`, 4108-4117), and what the globals hold that these instructions name.
What OpenBIOS's code looks like is external; `PlacedAssumption` says it of `Codes` and
`Handlers`: the first two stores of an InitHeap are those of the start and of the end, in
this order, and the first such addition in the handler's window is that of the hook. The
run has two of each, with instructions that mislead right outside the windows and right
behind the place: before 101 and behind 125 of the handler, and at 17 of InitHeap.

Fairness: a comparison function returns (`WF` of `Sort`).

A call that writes words to the GPU puts them into `writing` and `Write` hands them over one
by one, as `GPU_writeData` does; the DMA controller hands over those of its `channel` while
the program runs on, from the call that sets its start bit (`busy`, bit 24 of the control
word) to the last word, which clears it. Each call writes its own control word
(`ImageControl`, `ListControl`, `StopControl`): only that of `mem2vram` has the bit.
`WordsAsMeant` says that no word was taken for something else than the call meant it as,
that a transfer that was started can go on and is one of pixels, that pixels still awaited
when a call has returned are those the channel has under way, and that where nothing is
under way the GPU awaits a command. The list of `GPU_SendPackets` stays where it is (see
the remarks).

`ServicesProofs.tla` proves:

* about Qsort, for arrays of any length and any keys: `SortTypeCorrect` (the
  pointers of a partition stay in its range, in order, for any answers), `NothingLost`,
  `SortsArray`, `CriticalSectionKept` and, together, `SortedInPlace`. The argument for
  `SortsArray`: two elements that do not lie in one range still open are in order
  already (`InOrder`), the open ranges are disjoint (`Apart`), and in the range at work
  what lies left of `i`, between `lp` and `hp`, and right of `j` is below, equal to and
  above the pivot (`SidesPlaced`). An exchange keeps the set of elements of each range
  (`Moved`), so the order between ranges survives what happens inside one, and a
  partition that is complete may be divided.
* `DepthIsLogarithmic`: 2 to the depth of the recursion is at most N + 1. The invariant
  `Shallow` says it of every range on the stack, each at least twice as large, by one, as
  the one above it, because `qsort_main` recurses on the smaller part and loops on the
  other; it needs no honest comparison function.
* `AnswersAreDue`, for files and cards of any content: `FilesInv` says that what a program
  may see of a file (`view`) and what the descriptor and the card hold agree.
* `PlacedIsKept`, for any hooks, pads and codes: `PlacedInv` says of each thing a program
  can put in place that the kernel's table, vector, heap, hook and pads hold what
  was asked for, and that functions of the program's own are there only in the game whose
  functions a conversion keeps (`asked.own # {} => game = "legend"`). That a conversion
  finds the heap and the hook is `HeapIsFound` and `HookIsFound`, for any code that
  `PlacedAssumption` allows.
* `WordsTakenAsMeant`, for images and packets of any size: `GpuInv` says that what is still
  to be written, by the call or by a controller that was started (`UnderWay`), is what the
  GPU awaits, in the order it awaits it (`CommandsOnly`, where the channel is not
  started, or `ImageOnly` with as many words of pixels as the image has left), and that a
  started channel is enabled, directed to the GPU and has pixels (`ChannelGoesOn`).

* `LinesAreInOrder`, for strings, formats and arguments of any length: what is shown and
  gathered follows the lines the program has printed (`Follows`: the buffer is the open
  line, the lines shown are those before it but for blank ones). Each loop of the code is a
  function defined by recursion, and so is what the program means (`Lines`, `Meant`); both
  are unfolded side by side. For `printf` the loop is at a place between two conversions
  after every turn, and has printed what the format means up to there (`LoopInv`); it skips
  from a `%` to its letter at once, while `Meant` goes character by character
  (`NothingInside`).

* `CallsAreAsDefined` (`Memory!Spec => []MemoryAsDefined`), for a memory of any size and
  any bytes in it (`MemoryAssumption`: bytes are of 0 .. 255, zero among them, since the
  string calls write it). Its invariant is only `TypeOK`: what the property says it
  says of every memory, so the work is in the calls. A call that looks for something is
  the first place of a set (`Searched`: a loop answers what belongs to the first place it
  meets), from which follow where strings end, where two of them differ (`ComparedIs`,
  `Agree`) and what each search answers. A call that writes keeps an invariant per
  step (`Copied` and `CopiedBack` for the block calls, with `Source` for a copy that reads
  what it has written; `Filling` for `strncpy`), and what the string calls leave is read back
  as a string (`Written`, `AppendedIs`). `atoi` has the digits of what it read by
  division with rest (`NumberIs`). `NumbersRead` is about numbers of up to nine digits, those
  that no word overflows with.

Model-checked only: `SortEnds` (liveness) and `GlyphsInOrder`, which is about two constant
tables: the run asks for every character there is, so that nothing is left to prove.

Remarks of these parts, none contradicted by a text of the repository:

* `bcmp` compares the bytes behind the first ones that differ, and `memmove` copies one
  byte more when it copies backwards, as their comments say;
* `printf` takes the character behind `%%` for the start of a conversion;
* `getc` tests `v0` (2116) also where nothing was read, for want of a card or of a
  descriptor it knows, and `v0` is then what the program left in it; `putc` to stdout
  prints `a2` characters, as `write` does (2142-2147);
* `GPU_dw` of an empty image finds no end; `mem2vram` leaves an odd or partial block;
* `GPU_SendPackets` writes `0x010000401` (1428), nine digits and so `0x10000401`: the start
  bit, which `mem2vram` sets (1395), is not among its bits, and the list is not
  transferred;
* the version of an upgraded state is not raised (4016): saved again and loaded, it is
  upgraded again, and pads stopped since are started;
* a converted OpenBIOS heap keeps OpenBIOS's headers, which malloc here reads as its own.

## 11. What is left to do

Every component that has logic of its own is modelled, in whole or in part. What a later
extension would add, the most valuable first:

1. a composition of Events and Threads: the `softCall` activations on the C++ stack while
   threads switch, and what callbacks do to the registers of the call they interrupt
   (the hazards without a property in `PROJECT.json` are all of this kind);
2. `format` and raw sectors under the files of CardFiles;
3. the modes and counts of the root counters, with a model of the emulator's timers.

## 12. What is not modelled

* `SetRCnt`, `GetRCnt`, `ResetRCnt`, `GetGPUStatus`, `SetMem`: reads and writes of the
  emulator's registers; `GetConf`, which only reads; `psxBiosException180`, which aborts.
* `StartCARD`, `StopCARD`, whose state nothing reads; device calls that do nothing;
  `format`; `_card_write` of sectors under the files.
* `rand`, `srand` (one multiplication), `strtol` and the formatting of one conversion of
  printf, which are the host's.
* The parser of the disc's directory sectors and the naming of a game by its executable
  (`exe_to_game_code`): the first is not part of the repository, the second a table.
* The yield calls, which the configuration modelled does not compile; the emulator
  interface; names and logging for debugging.

Liveness under fairness stays with TLC: the provers have no rule for ENABLED
(`ChannelFairness`, `InterruptsReturn`, `BusyClears`, `WaiterWakes`, `WalkEnds`,
`PendingIsServed`, `SortEnds`). So does the property about constant tables
(`GlyphsInOrder`). Every other property of a passing run is stated by a theorem.

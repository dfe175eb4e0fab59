# matanos: a TLA+ model of the kernel

matanos is a 32-bit x86 teaching kernel: a boot loader, interrupt handling,
paging with one page directory per process, a kernel heap, round-robin
processes with `fork()` and `sleep()`, and a shell driven from the keyboard
interrupt. This directory models its core in TLA+, checks it with TLC and proves
the main invariants of the scheduler, of paging, of the heap, of the keyboard's
initialisation and of the screen with TLAPS. `PROJECT.json` maps every
definition to the lines it models and lists the runs, mutants, findings, hazards
and theorems.

## The system

| Part | State | Operations | Interaction |
|---|---|---|---|
| Scheduler (`cpu/task.c`) | `current_task`, `ready_queue`, `next_pid`, saved `esp/ebp/eip` per task | `initialise_tasking`, `fork`, `switch_task`, `switch_to_user_mode` | called by tasks and from the timer interrupt; clones directories |
| Timer (`cpu/timer.c`) | `tick`, `sleep_queue`, `end_of_sleep` | `timer_callback`, `sleep` | moves tasks between the lists of `task.c`, then calls `switch_task` |
| Boot program (`kernel/kernel.c`) | statement of each task | `main`, `do_tasking_test` | the only user of fork and sleep besides the shell |
| Paging (`cpu/paging.c`) | frame bitmap, page tables, directories, `current_directory` | `alloc_frame`, `free_frame`, `initialise_paging`, `clone_directory`, `switch_page_directory` | takes tables from the heap, gives the heap its pages |
| Heap (`cpu/kheap.c`, `cpu/ordered_array.c`) | headers and footers in memory, index of holes, `end_address`; before that `placement_address` | `alloc`, `free`, `expand`, `contract` | grows and shrinks through paging |
| Interrupts (`cpu/isr.c`, `cpu/interrupt.asm`, `cpu/syscall.c`) | handler table, interrupt controllers, interrupt flag | `isr_install`, stubs, `irq_handler`, `isr_handler` | handlers run masked, end of interrupt is sent first, the stub leaves through `sti; iret` |
| Keyboard driver (`drivers/keyboard.c`) | PS/2 controller, second channel flags | `init_A20`, `init_keyboard`, `keyboard_callback` | called by `main`, before and after interrupts are let in |
| Console and shell (`drivers/keyboard.c`, `kernel/shell.c`, `kernel/symbols.c`, `kernel/util.c`) | `key_buffer`, shift, caps lock | `keyboard_callback`, `user_input`, `find_symbol_and_run` | a typed line is executed inside the keyboard interrupt, and may sleep or fork there |
| Screen (`drivers/screen.c`) | video memory, the hardware cursor | `kprint`, `kprint_at`, `kprint_backspace`, `clear_screen` | tasks and the keyboard handler share the cursor without a lock |
| printf (`kernel/printf.c`) | - | `vsprintf` | formats into a buffer for `kprint` |
| Boot loader, ports | - | - | - |

What is hard here: nothing protects `sleep()` and `switch_task()` from the timer
interrupt; two lists share one `next` field; the interrupt flag is not part of a
saved context; a tick wakes one task only; page tables are shared between
directories by pointer; the heap keeps its structure in the memory it hands
out; the keyboard is initialised with interrupts on; the cursor is two bytes
behind an index register that everybody uses; and the line buffer is parsed
without regard to its terminator. None of this is reached by the kernel's one test, which boots and prints.

## Modules

| Module | Models | Checked by |
|---|---|---|
| `Scheduler` | the two queues as sequences, one action per kernel operation | `MCScheduler` |
| `SchedulerProofs` | theorems about `Scheduler` | tlapm |
| `SleepSteps` | `sleep` and `switch_task` statement by statement on `next` links; refines `Scheduler` | `MCSleepSteps` |
| `SleepProofs` | theorems about `SleepSteps`, its refinement of `Scheduler` among them | tlapm |
| `TaskingTest` | `do_tasking_test` on top of `Scheduler` | `MCTaskingTest` |
| `TaskingProofs` | theorems about `TaskingTest` | tlapm |
| `Paging` | frames, tables, directories, boot mapping, clones, stacks, pages of the heap | `MCPaging` |
| `PagingProofs` | theorems about `Paging` | tlapm |
| `KHeap` | `alloc` and `free` on a memory of words, with the ordered array | `MCKHeap` |
| `KHeapProofs` | theorems about `KHeap` | tlapm |
| `Interrupts` | interrupt controllers, interrupt flag, stubs, handler table, system call trap | through `Keyboard` |
| `Keyboard` | `main` up to `init_keyboard`, on `Interrupts`, with the PS/2 controller | `MCKeyboard` |
| `KeyboardProofs` | theorems about `Keyboard` and `Interrupts` | tlapm |
| `Parser` | string helpers and the command parser, as operators on a buffer | through `Shell`, `Conversions` |
| `Shell` | keys, line buffer, built-in commands, calls, commands that sleep or fork | `MCShell` |
| `ShellProofs` | theorems about `Shell` and the parser | tlapm |
| `Screen` | video memory and cursor, one port access at a time | `MCScreen` |
| `ScreenProofs` | theorems about `Screen` | tlapm |
| `Printf` | `vsprintf`, `int_to_ascii`, `hex_to_ascii`, as operators | through `Conversions` |
| `Conversions` | the operators of `Printf` and `Parser` run on given inputs, against references | `MCConversions` |

**Scheduler.** `ready` and `sleepq` are the linked lists, `left[t]` is
`end_of_sleep - tick`, which is all `timer_callback` compares. A saved context is
reduced to where it resumes: in an interrupt handler (`irq`), in `sleep()`
called by the task (`call`), or in the child branch of `fork` (`child`). Only the
first and the last set the interrupt flag again. `TimerCallback` is one step, as
the handler runs masked. `ShellSleep` is `sleep(n)` typed at the shell.

**SleepSteps.** One action per statement of `sleep()` and of the `switch_task()` it
calls. `run` is the stack the processor is on, which differs from `current_task`
just before the jump. A jump to a context nobody is suspended in, a walk that
reads NULL and a walk round a cycle set `fault`. Ticks come between any two
statements; `hit` remembers the first that comes inside `sleep()`. Deadlines wrap
at `TickMod`, and `wrapped` remembers whether one has, and whether to 0. The
refinement mapping shows the queues as they were on entry while a call is under
way.

**TaskingTest.** The statements of the three processes of `do_tasking_test`, with
the real periods of 50 and 10 ticks. A `sleep()` is one step here, though the code
can be preempted in it when interrupts are on: always in the first `sleep()` of each
loop, and later on only in one that follows a tick. A tick that falls inside is the
step `CutSleep`, which sets `cut`, and with which the module stops following the
program: what becomes of the lists is in `SleepSteps`, and `sleep_loses_task` shows
that the loop may then never print again. Both liveness properties are stated for
behaviours without such a tick. The comment at `kernel/kernel.c:57` says that "in user
mode irq's not working"; `switch_to_user_mode` sets the interrupt flag in the
flags it returns with (`cpu/task.c:290-296`), and the model follows that code. Were
the comment right, the first child would spin masked for ever: this is the mutant
`UserModeMasked`, under which neither loop goes on printing.

**Paging.** A page table entry is a slot `<<table, entry>>`, so sharing a table is
sharing slots. The loops of `initialise_paging`, `expand`, `contract`, `clone_table`
and `move_stack` are steps of the operation in `op`; all of it runs masked or
before tasking, so operations do not interleave. What the code does wrong is kept:
the masks in `expand` and `contract`, the argument of `clear_frame`, the missing
return of `first_frame` (any frame number), the NULL entry past the heap's table.
The word at address 0, which then passes for an entry, holds any of `Garbage`; its
frame field may name a frame or exceed all of them, and `free_frame` then clears a
bit that has nothing to do with it. `freed` remembers which bits were cleared.
Memory starts zeroed.

**KHeap.** Headers and footers are words of `mem`, so stale ones stay behind as in
the kernel. `slip` names, as history, the first of seven cases the code does not
handle: no room for a hole in front of an aligned block, a hole too small once
aligned, no room for a hole behind, an endmost hole that is not at the end of a
growing heap, a stale footer followed by `free`, a read behind the last block, and
a heap contracted too far. It keeps the first case met, and the properties claim
nothing from there on. Sizes are 32-bit: differences and the place of a footer wrap
at the end of the address space, and the search for an aligned block compares as
signed. `free` stops where its assertions fail, that the hole to the right is in the
index among them. That pages are mapped is Paging's concern.

**Interrupts and Keyboard.** The controllers' request and in-service sets, the
interrupt flag and the vector whose stub runs. A handler is one step; it ends, or
switches tasks, possibly to one that was suspended in `sleep()` and goes on masked
until it sleeps again. On top of this `Keyboard` has the statements of `main` from
`init_A20` to the end of `init_keyboard`, split at every access to the PS/2
controller that something else can come between. The controller is external: one
output buffer, which keeps a byte until it is read, and a configuration. A reply
that is asked for while a byte is in the buffer comes after that byte, so the code
reads the wrong one; `corrupt` and `timedOut` remember that this happened to the
configuration and that a `send_port` gave up. What the test commands reply, and
whether the input buffer is busy when looked at, is open.

**Parser and Shell.** Characters are strings of length one and the buffer has
`Cap` of them. A stage of the parser skips blanks, copies up to a stop character
whatever lies in between, the terminator included, and steps over it. Enter clears
the first byte of the buffer only, so old lines remain. A write behind the buffer
or a scan that leaves it makes the system `astray`, and nothing is claimed from
there on. A command that sleeps keeps its handler suspended; keys go on being
taken by other handlers on the same buffer, and `mixed` marks the lines this cuts
into. A typed `fork()` copies the stack with the handler on it and turns interrupts
on, so parent and child both return into the handler at some later time and each
clears the line; it counts as two suspended handlers.

**Screen.** `kprint` by a task is one step per port access or stored character, so
ticks and the keyboard handler come in between; what the handler prints is one
step. Offsets count cells; attributes are left out. `orderly` remembers whether
prints have cut into each other.

**Printf and Conversions.** `vsprintf` follows the code: flags, width, precision,
qualifier, then `number()` with its three padding loops on one counter. Integers
have `W` bits and wrap. `Conversions` picks an input, runs one conversion and
compares with a definition written from the meaning of the directive, not from
the code. The precision of `%s` has no effect because `strnlen` ignores its bound
(`kernel/util.c:69` says so; `kernel/printf.c:131` describes it as the maximum
number of characters), so it is not part of the inputs.

## Runs

Each run takes about a minute or less on two workers.

| Run | Shows |
|---|---|
| `scheduler` | `QueuesPartition`, `Resumable`, `WokenBeforeSuspended`, `NoMaskedDeadEnd`, `Punctual`, and `EveryTaskRuns` under fairness |
| `sleep_steps` | the statements on linked lists implement `Scheduler`, and lose no task, until the first tick inside `sleep()`; a deadline that wraps to exactly 0 is the only other cause of harm |
| `sleep_loses_task` | violated: a tick between `end_of_sleep = ...` and joining the sleep queue loses the process |
| `tasking_test` | the boot program keeps the scheduler's contract; as long as no tick falls inside an unmasked `sleep()`, both loops go on printing |
| `paging` | present entries have different frames until frames run out or one is freed, and from the first free on all but frame 0; identity map, shared kernel tables, private copied stacks that no step of another task changes, a heap mapped up to its last page |
| `frame_leak` | violated: freed frames stay marked as used |
| `kheap` | blocks and coalesced holes tile the heap until one of the seven cases |
| `kheap_overlap` | violated: with aligned requests only, the second block is placed over the first |
| `keyboard` | the boot ends, nothing stays in service across a task switch, a keyboard initialised without a timeout or a wrong configuration is on and not blocked by a byte of its own or a reply of the controller (a byte of a second port, which has no handler, does block it); without a second port its bytes are read |
| `shell` | the buffer holds the typed line and the call that was typed is the call that runs, whatever older lines left behind |
| `screen` | no store outside of video memory in any interleaving; the screen shows what was printed if prints do not overlap |
| `conversions` | `vsprintf`, the number conversions and the parser against their references |

Many properties of passing runs hold up to a point: a tick inside `sleep()` (`hit`,
`cut`), frames run out or freed (`exhausted`, `freed`), one of the heap's seven cases
(`slip`), a line cut into (`mixed`), a wild access (`astray`), prints that overlap
(`orderly`), a failed initialisation (`timedOut`, `corrupt`). They say that nothing else
goes wrong, not that this does not; the hazards of `PROJECT.json` note where that is so.
What follows such a point was looked at with the properties that exempt nothing. If
the ticks inside `sleep()` are confined to a single statement, `NoTaskLost` is violated
for each statement from the one behind the guard to the clearing of the link
(`cpu/task.c:166`); behind it, up to the jump, no list is at stake but `SoundJumps` is
violated. If the heap is followed past a single one of its cases, `BlocksDisjoint` is
violated for the two of alignment, for no room behind, for the endmost hole, for stale
footers and for contractions.

Four more disagreements with comments of the code are visible in the models but
have no run. `first_frame` ends without a value when no frame is free, so
`PANIC("No free frames\n")` (`cpu/paging.c:88`) is not reached: `exhausted` in
`Paging`. `expand` does not reach "the nearest following page boundary"
(`cpu/kheap.c:79`): the heap's last page may lack a frame, and `HeapBacked` claims
the others only. The end of `switch_task` has no `sti`, against its comment
(`cpu/task.c:188`): a task resumed in `sleep()` by a tick runs masked, which
`NoMaskedDeadEnd` shows to be harmless for liveness. And interrupts do reach user
mode, against `kernel/kernel.c:57`, as said of `TaskingTest`.

Bounds. `scheduler`: four processes, so that two can sleep, one be woken and one
be suspended at once; sleep arguments 1 and 3 (and 2 from the shell) let tasks
expire in both orders and together. `sleep_*`: three processes, which give every
shape of list surgery (first, middle, last, empty), and a tick bound of 6 or 7,
after which the system stops, so deadlock is not checked there; deadlines are
computed modulo 8 and an argument of 7 makes them wrap. After the first harm
`sleep_steps` is explored up to tick 3 only. `paging`: pages of
four bytes and tables of six pages, so that low memory needs a second table while
it is being mapped, the heap can outgrow its table, and the stack straddles two
tables as at 0xE0000000; 21 frames let both forks succeed or run out; three
directories allow a clone of a clone. Requests of 4, 6 and 9 bytes end the heap on
and inside a page; the small ones are explored before the stack is moved only. `ClearFrame` keeps the real divisor, because frame
numbers stay below it in the kernel too. `kheap`: pages of twelve words with
headers of three and footers of two, a heap of three pages that may shrink to two
and grow, two sizes; each of the seven cases, a growth with and without holes and a
harmless contraction are all reached. `paging` stops after an exhausted allocation
and `kheap` after one of the seven cases (a constraint): nothing is claimed beyond.
`keyboard`: two keys, one for the worst moment of the boot and one after it, and
two retries; the machine may hang in `wait_keyboard` or be reset, so deadlock is
not checked. `shell`: a buffer of five characters, which holds calls of no and of
one argument with old bytes behind them, and overflows; it may stop or go astray.
Three handlers may be under way, a fork and a sleeping command.
`screen`: two tasks, two rows of three cells, cursor bytes of four values, so that
scrolling, wrapping and a torn cursor behind the screen all occur within five
calls, or three once prints have overlapped. `conversions`: `W` is 12, so that a
first, an inner and a last hexadecimal digit differ; every combination of flags
with literal, argument and negative widths and precisions.

Fairness. The timer is periodic, so an unmasked tick is delivered
(`WF(TimerCallback)`). In `Scheduler` a masked task is assumed to sleep again,
since otherwise it keeps the processor; `TaskingTest` shows that the boot program
satisfies this (`KeepsSchedulerContract` is `FairSpec` itself). There each task has
strong fairness: it is dispatched again and again, and a time slice suffices for a
statement. In `Keyboard` the interrupted program goes on between interrupts (strong
fairness of `BootStep`), handlers end, a masked task sleeps again, devices deliver
when the buffer is free, and the processor keeps up with the timer: again and again
it is unmasked with no tick waiting. Handlers take microseconds, ticks are 20 ms
apart. Without the last assumption ticks could keep the lower priority keyboard
line out for ever. No fairness is assumed of keys, system calls or task switches.

Each property of a passing run has a mutant: an operator, defined in the same
module, that changes one mapped definition as a plausible bug would, and under
which the property is violated.

## Proofs

Every theorem holds for all values of the constants that the named assumptions
allow. The assumptions are evaluated by TLC on every run.

**SchedulerProofs** (`MaxTasks` a positive natural, arguments positive naturals).

- `TypeCorrect`, `NobodyLost`: `QueueInv == TypeOK /\ QueuesPartition` is
  inductive. The lemmas `UnlinkFacts`, `AppendFacts` and `MoveFacts` say what
  removing, appending and moving do to the sets of tasks on two injective queues;
  `SwitchFacts` what a switch does.
- `DeadlinesKept`: `Punctual` is inductive relative to `QueueInv`. Waking the first
  expired sleeper shifts those behind it forward by one while the tick moves their
  deadline by one; those in front of it are not due.
- `MaskedTaskCanSleep`, `WokenRunsFirst`: `NoMaskedDeadEnd` is not inductive by
  itself. The strengthening is `WokenBeforeSuspended`: going round the ready queue,
  a task waiting to resume in `sleep()` comes before some task suspended by a tick.
  `SwitchMaskInv` and `SuspendMaskInv` carry it through the two ways of switching.
- `SwitchesToSavedContext`: `Resumable`, from `QueueInv`; a switch saves the context
  of the task it leaves before that task can be chosen again.

**SleepProofs** (`MaxTasks` positive, positive arguments, a tick counter that stays
below `TickMod`, as the counter of the code stays below 2^32 for 994 days).

- `SleepKeepsTasks`, `SleepImplementsScheduler`: both from `SleepInv`, which holds
  until `hit` or a wrap to zero and is `Good` before that. What the two properties
  say of list walks is not inductive; `Good` names the sequences instead and says what
  the links have to do with them. `Seg(next, h, q, e)`: following the links from `h`
  one meets the tasks of `q` and then `e`. Between calls of `sleep()` the two lists
  spell two sequences that partition the processes (`AtRest`, `Partition`). Inside,
  `SleepAt` says for each statement how far the lists are from those in `snap`: once
  the caller is linked behind the sleepers, the sleep list runs on into the ready
  list through the caller (`Seg(next, sleepQ, z, run)`), until its link is cleared.
  `Suspended`: every other process is suspended on its own stack, and one suspended
  by a tick was not inside `sleep()`. `Unstamped`: ready tasks have no deadline.
- `SegChain` leads from `Seg` to `Chain`, that is from the invariant to what the code
  meets on a walk of any length. The walk is a recursive function; that it exists and
  what it returns is shown with a least counterexample (`LeastFacts`), since the
  library's induction rules cannot be used. `SegFrame`, `SegExtend`, `SegRetarget`,
  `SegBehead` and `SegSkip` say what one assignment to a link does to a list.
- Each statement of `sleep()` has a lemma: it keeps `Good` and `Scheduler` does not
  see it. The jump is the step that implements `Sleep`, a tick the one that implements
  `TimerCallback` (`AbsSleep`, `AbsTickWake`, `AbsTickNoWake`).

**TaskingProofs** (three tasks or more, both periods among the sleep arguments).

- `TestImplementsScheduler`: the program's steps are steps of `Scheduler`. Entering
  user mode sets the interrupt flag, which is no step of the scheduler, so one has
  to know that the flag is set already (`CutSleep` leaves the scheduler alone):
  `SpinnerInv` says that the first child never
  sleeps and hence is always resumed in `fork()` or in an interrupt.
- `LoopsAlwaysSleep`: `NeverRefused`. `ProgramInv` ties the statement of each
  process to the number of processes made; with the spinning child on the ready
  queue a loop that sleeps is never alone there.

**PagingProofs.** `PagingAssumption` types the
constants. `LayoutAssumption` is the order of the kernel's memory: what `kmalloc`
places before the heap ends below `KHEAP_START` and within memory; the heap, of
whatever size, ends below the stack; the stack has a table that the boot does not
make; and the heap is created no smaller than what `contract` may leave. In the
kernel `KHEAP_START` is 0xC0000000, its initial size 0x100000 with an index of
0x80000, `HEAP_MIN_SIZE` 0x70000, the maximum address 0xCFFFF000, the stack at
0xE0000000, and there are 16 MB of frames, of which the boot's 769 tables, at two
pages each, and what else is placed take less than 7 MB plus the kernel image.

- `TypeCorrect`: `TypeInv` adds the shape of `op` per kind of operation and the
  phase: the boot is over before a directory is cloned, and the running operation
  works on directories that exist.
- `FramesStayExclusive`: until a frame is freed, no two present entries have the same
  frame (`PresentInv`). Afterwards the bit of frame 0 is clear and `expand` may map
  frame 0 a second time; for the other frames `FrameInv` adds that a mapped frame is
  marked as used, which is why `first_frame` cannot give it out again. Both end when
  frames run out, and the second when `free_frame` clears another bit.
- `KernelInEveryDirectory`: `SharedInv` says it of tables rather than pages.
- `LowMemoryIdentityMapped`: frames are given out in order, so that page and frame
  number agree as long as nothing else is mapped (`LowInv`); `PlaceInv` bounds the
  placement address by counting the tables made, so that the loop, which moves the
  address it is running towards, ends below the heap; `DistinctInv` (a table is in
  one place, the kernel's excepted), `HeapInv` (the sizes the heap can have) and
  `TodoInv` (what a clone still copies is not the kernel's) keep later operations
  off the entries.
- `HeapStaysBacked`: `BackedInv` follows the loop of `expand`: the full pages up to
  its loop variable are mapped although neither it nor the heap's end is aligned.
  `contract` may come out with a size larger than the heap it started from; that
  this stays within the first extent uses the last line of `LayoutAssumption`.
- `ForkCopiesStack`, `StacksStayIsolated`: `StacksInv`. Entries of tables yet to be
  made are zero (`FreshInv`), so a clone allocates; present entries have different
  frames, frame 0 included (`PresentInv`); `StackInv`, `MoveInv` and `CloneInv` say
  which pages of a stack are in place while it is moved or copied. `StacksIsolated` is
  about every step, those inside a fork included: the one stack that may change is the
  running task's, or that of the directory `clone_directory` is filling (`Changing`).
  `FrameElsewhere` is the argument for a write: it goes to a frame that no other
  stack has.

**KHeapProofs.** `KHeapAssumption`: a header and a footer fit a page, `HEAP_MIN_SIZE`
is a whole number of pages, at least the two that `contract`'s mask can leave
(0x70000 bytes in the kernel), the heap is created no smaller, it lies between
0xC0080000 and the end of the address space, and requests are below 2 GB, so that the
signed comparison is the unsigned one.

- `TypeCorrect`, `HeapStaysTiled`, `HolesMerged`, `BlocksApart` all follow from
  `HeapInv`, whose core is `HeapOK` on any memory, index, length and set of blocks.
  `Tiled` alone is not inductive, for three reasons. It says where parts end, not that
  they lie in order: `Tiling` orders them by address. It says nothing of where a hole's
  footer leads, which the next `free` follows: `HoleOK` says that it leads to the hole
  or to the header, still marked as a hole, of one that was merged into it. And
  `free` looks for the end of a hole in the two words in front of the heap as well:
  `Layout` keeps the magic number out of them.
- `SplitTiling`, `MergeTiling`, `ResizeTiling` and `AppendTiling` are what the
  operations do to a tiling; `RemoveAtFacts`, `RemoveItemFacts`, `InsertFacts` and
  `FindFacts` what they do to the index. `PartFrame` says that a part nobody writes to
  stays as it is.
- `AllocStep` is `PlacedOK` (a hole becomes hole, block and hole, or less), after
  `GrownOK` when the heap has to grow. `FreeStep` follows the code: `UnifiedLeftOK`,
  where `LeftFacts` shows that the footer in front leads to the hole in front or to
  none of the index; `UnifiedRightOK`; and `TrimmedOK`, where `ContractedFacts` shows
  that a contraction which does not cut the hole off leaves exactly `HEAP_MIN_SIZE`,
  and `UnmappedFacts` that no page in front of that is unmapped.

**KeyboardProofs** (`MaxKeys` a natural, `Retries` a positive one).

- `TypeCorrect` needs how many bytes the devices may have under way at each stage of
  `init_keyboard`.
- `LinesReleased`: `ServiceInv`: in service is exactly the line whose stub runs, up
  to its end of interrupt, which every handler sends before it can switch tasks.
- `KeyboardStaysAlive`: `AliveInv` says what `init_keyboard` has achieved by the
  stage it is at, and that a byte in the buffer has its interrupt requested, is
  being handled, or will be polled. The exception, a byte of the second port, needs a
  second port (`AuxInv`).

**ShellProofs** (a buffer of two bytes or more; no key is the terminator in either
table, as in `sc_ascii` and `sc_ascii_shift`; `CallsAssumption`, which says what a
call is: a name in the symbol table without a parenthesis, one to three arguments
without commas and closing parentheses, strings closed, and the values `check_param`
gives those arguments).

- `TypeCorrect`, `BufferHoldsLine`: together inductive. `StrlenFacts` and `StrlenIs`
  tie `strlen` to the first terminator, from which `AppendLine`, `ShortenLine` and
  `ClearedLine` say what `append`, `backspace` and Enter do to the line, whatever
  earlier lines have left behind it.
- `RunsTheCallTyped`: `RunsWhatWasTyped` for lines of any length. The invariant is
  the one above with `Terminated`, a terminator within the buffer. `StageReads` is the
  argument for one stage of the parser: at a position where a word and one of its
  stop characters are in the buffer, it returns the word without its leading spaces
  and steps over the stop, and never looks further. `CallSpelled`, `TwoSpelled` and
  `ThreeSpelled` find those positions in a line that spells a call, `CommandReads` and
  `ParamsOne` to `ParamsThree` run the stages from one to the next and end them at the
  terminator, and `EnterRuns` shows that only Enter empties such a line. No induction
  is needed: a scan is the minimum of a set, and there are four stages.

**ScreenProofs** (at least one row, column and cursor value; a screen whose offsets
fit two bytes; messages not empty, as `kprint` takes no step for an empty one;
positions given to `kprint_at` not negative, as the function ignores others).

- `TypeCorrect`, `PrintStaysOnScreen`: `ScreenInv` adds to the types that a task half
  way through `get_cursor_offset` holds a high byte alone, and one about to print has
  a character left. `PrintCharFacts` is the argument for one call: any offset that is
  not negative is either refused or on the screen, and so is what is returned.
- `ScreenShowsText`: `RendersShown` for a screen of any size. `RendersShown` speaks of
  moments when nobody prints; `RenderInv` says what holds between them: while no print
  has been cut in two, at most one task prints, the screen shows `shown` (lines that
  fit, the last with room for a character), and `InStep` says at each port access
  what the printer has read of the cursor or has still to write, the offset it holds
  being the one behind the last character. `PrintShows` and `EraseShows` are the
  arguments for one `print_char` and one `kprint_backspace`: rows and columns give
  every cell once (`CellUnique`), a character continues the line or starts one
  (`TypedText`), scrolling drops the first line (`ScrolledShows`), and two bytes hold
  any offset (`BytesOfOffset`).

Only model-checked:

- liveness (`EveryTaskRuns`, `BothLoopsPrint`, `BootEnds`, `BytesRead`, the fairness
  part of `KeepsSchedulerContract`), which is out of the prover's reach;
- `TypeOK` of `SleepSteps` after a tick inside `sleep()`: that `current_task` is not
  NULL rests on which lists a preempted `sleep()` can leave behind, for which there is
  no invariant but the reachable states (before that it is `Typed` in `SleepProofs`);
- `Conversions`: what the recursive operators of `Printf` compute. Its module cannot
  hold a theorem; the parser it also runs is the subject of `RunsTheCallTyped`;
- `FramesAccounted`, `BlocksDisjoint` and `NoTaskLost`, which the code violates.

## Not modelled

Register contents, segment and permission bits, TLB flushes, descriptor tables, the
fault printers and the timer chip are abstracted away. `IRQ_set_mask` and
`IRQ_clear_mask` are not called by the kernel. The boot loader is straight-line
code before any of this state exists, and the port functions are single
instructions. `%s` with a precision and the 1024 bytes of `printf`'s buffer are left
out. `PROJECT.json` notes the hazards no property covers.

## Plan

1. Heap and paging composed: tables taken from heap memory that is not zeroed, the
   physical contiguity of a cloned directory, the overrun of `clone_table`'s memset,
   and `kmalloc` as the boot program uses it. The order of the index of holes.
2. Proofs: what is left of the lists after a tick inside `sleep()`, as far as it has
   an invariant.

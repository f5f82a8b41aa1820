# A verification of digital_systems_design

The repository holds the FPGA projects of a digital design course: five labs, a
final project and some assignments for a DE1-SoC board. What the projects have
of their own falls into two kinds. In SystemVerilog they are small state
machines that run on one clock and hand work to each other through start,
complete, ready and acknowledge lines. In Lab5 they are C on a Nios processor: two
tasks under the real-time kernel uC/OS-II, which the project carries and builds
from source, a graphics library, and an interrupt from the hardware. The rest is
course-supplied hardware, vendor IP, pictures and tool output. This directory
specifies the two kinds in TLA+, checks them with TLC and proves the most important
results with TLAPS.

## 1. Inventory

| Component | State | Operations | Interaction | What is hard | What makes it correct |
|---|---|---|---|---|---|
| **Lab4 decryption engine** (`decrypt.sv`, `init.sv`, `shuffle.sv`, `compute.sv`, `s_memory.v`, `r_memory.v`, `d_memory.v`) | a state register per machine, indices i, j, k, held words q_si, q_sj, f; three memories with registered outputs | one step per state of each machine; read and write of a memory | `decrypt.sv` starts the workers in turn with a level and waits for a one-cycle pulse; the workers share the port of the S memory through a multiplexer; reset from outside at any time | memory words arrive a cycle late; an exchange takes two writes; reset parks a worker in `finish` and clears it a cycle later | computes RC4; the S box stays a permutation; no write is lost; a worker runs once per phase |
| **Lab4 key search** (`brute_force.sv`, `ksa.sv`) | search state, 24-bit key, display register | start, verify a byte, give up, next key, stop | drives the engine, watches the bytes that it writes | it aborts the engine in the middle of a message; verification runs beside the next byte; no timeout | every key is tried in order, none is given up or accepted wrongly; the search ends |
| **Final phoneme playback** (`flash_address_control.sv`, `Avalaon_Read_Flash.sv`, `narrator_ctrl.v`, `picoblaze_interface.v`, `Keyboard_Control.sv`, `speech.psm`) | two state machines, address and byte registers, port registers of the processor, table registers, keyboard state | read a word, play its four bytes, next word, ask for the next phoneme; say a phoneme, acknowledge, poll | four-phase handshake between hardware and program; Avalon reads of the flash; sample clock from another domain | program and flash take any time; data-valid is not waited for; pause at any clock | the phonemes of the program are heard in order and complete; neither side waits for ever |
| **Final volume meter** (`Light_Control.sv`) | state, 9-bit count, 16-bit sum, magnitude, LEDs | count, take the magnitude, add, display, reset | samples the audio, held by the keyboard's `read_sig` | off-by-one of the count, overflow of the sum, a count that runs on in a pause | shows the average of 256 samples |
| **Assignment 3 arbiter** (`shared_access_to_one_state_machine.sv`) | state, two result registers | poll a client, start the target, wait, register, finish | two clients, one target | requests at any time, in any order; an answer that stays up | each client gets its own result; nobody is passed over for ever |
| Final sample clock (`Speed_Control.sv`, `Divided_Clk.sv`, `synchronizer.sv`) | divisor, counter, four flip-flops | faster, slower, default; one pulse per edge | feeds the playback | a divisor without a limit; an edge that comes while the trap is cleared | one pulse per edge |
| Final 8b/10b link (`encoder_8b10b.v`, `decoder_8b10b.v`) | running disparity | code a byte, decode it | audio passes through it | audio that looks like the silence code | decode undoes encode |
| Lab2 music player (`flash_address_control.sv`, `Keyboard_Control.sv`, ...) | as in Final, with direction and restart | play both ways, pause, restart | keyboard machine and address machine watch each other | restart races the end of a word | every restart is taken, every word is in the song |
| Lab3 volume meter (`pracPICO.psm`, ...) | registers of the program | interrupt routine | interrupt per sample | interrupt against main loop | average of 256 samples |
| **Lab5 uC/OS-II** (`os_core.c`, `os_task.c`, `os_time.c`, `os_sem.c`, `os_mutex.c`, `os_mbox.c`, `os_q.c`, `os_flag.c`) | TCBs, table of priorities, ready list, wait lists, event control blocks, message rings, flag groups with nodes, nesting counters | every call that changes it, from tasks and from interrupt handlers; the tick | tasks and handlers share the tables through critical sections; a call that blocks is two sections with other tasks between | a post, a timeout, an abort, a deletion, a suspension and a new priority race for one waiting task; calls that open a window in the middle | the tables agree; the highest ready task runs; nothing that is given is lost; a mutex has one owner, who is not kept waiting by a task between; messages in order |
| **Lab5 locks of newlib** (`alt_env_lock.c`, `alt_malloc_lock.c`) | semaphore, identifier of the owner, count | lock and unlock, nested | tasks on the kernel, whose priorities (the identifiers) change | looks at the semaphore, decides and takes it in three steps | one task inside; the count is right |
| **Lab5 desktop** (`hello_ucosii.c`) | mode flags, song counter, buttons, audio FIFO | play a buffer; look at mouse and key, draw and select | two tasks, three shared flags, no lock | task1 preempts task2 between two assignments; a busy wait at the highest priority | the song in order; what is shown is what is done |
| **Lab5 graphics** (`vip_fr.c`, `simple_graphics.c`, `draw_gimps.c`, `simple_text.c`) | frame memory, which frame is shown | pixels, lines, blocks, images, shapes, text | routines compute addresses on their own, by depth and frame | bytes beside the pixel; half pixels in integers; packed channels | the pixels that are asked for and no others |
| **Lab5 LFSR interrupt** (`lfsr.sv`, the edge port, `student_code.c`) | shift register, edge register, mask, DDS increment | tick, detect, handle | hardware interrupts program | the handler reads the bit before it clears the edge; a tick in between | the frequency follows the bits for ever |
| Lab5 clock crossing and DDS (`fast_to_slow_sync.sv`, ...) | capture registers | clock crossing | hardware | capture of a changing word | no torn word |
| Assignments 1, 2 and `trap_edge.sv`; Lab1; drivers; generated code | - | - | - | - | not modelled, see section 8 |

`PROJECT.json` lists every component with its status, and every hazard at its
line.

## 2. Modules

**Hardware.** All machines of a design run on one clock, so a step of its
specification is **one rising clock edge**. A machine is a module with its state register as a
variable, one operator per state (or per group of states that do the same), its
output wires as state functions, and `Clock(inputs)` as their disjunction.
A composition instantiates the machines and conjoins their clocks; an input
that is another machine's output is its value *before* the edge, which is what
the non-blocking assignments mean. Concurrency lies in what the environment
may do at each edge, and in the machines that are at different states at the
same edge.

**Software.** A step is **one critical section** of the kernel, one run of an
interrupt handler, or a statement (or several that nobody else can see apart) of
a task. Tasks interleave between the steps as the scheduler of the program lets
them: under the kernel only the task that `OSTCBCur` names makes steps, and what
interleaves it are interrupts and the switches that the kernel makes itself.

### Lab4: the RC4 cracker

| Module | Models |
|---|---|
| `RC4` | reference: key schedule, generator and plaintext as functions of the key, independent of the hardware |
| `SyncRam` | the Altera RAM and ROM: address registered, word one cycle later |
| `InitSBox`, `Shuffle`, `Compute` | the workers `init.sv`, `shuffle.sv`, `compute.sv` |
| `Decrypt` | the controller and the multiplexer |
| `DecryptCore` | the engine as `ksa.sv` wires it, with start, reset and key **arbitrary in every cycle**; invariants |
| `BruteForce` | the key search machine |
| `Ksa` | the whole cracker; `KsaInv` |
| `KeySearch` | abstract specification: examine the keys in order, stop at the first that works |
| `KsaProofs` | proofs: the engine, the cracker |

`Ksa` has no input at all; all of its nondeterminism is the ciphertext in the
ROM. `DecryptCore` is the opposite: it accepts every sequence of starts and
resets, so what is proved of it holds for any driver, `brute_force.sv` being one.

### Final: the speech synthesizer

| Module | Models |
|---|---|
| `FlashRead` | `Avalaon_Read_Flash.sv` (the same file is in Lab2) |
| `FlashAddress` | `flash_address_control.sv`; the eight wait/out states are two states and a lane |
| `KeyboardControl` | `Keyboard_Control.sv` |
| `Pico` | the handshake routine `say_phoneme` of `speech.psm` and the ports of `picoblaze_interface.v`; an INPUT takes two clocks, every other instruction is a stall, and `in_port` is arbitrary while another port is selected |
| `Flash` | the flash controller, which the repository holds only compiled: an Avalon slave that accepts when it likes and answers in order |
| `Talk` | abstract specification: samples of the script in order |
| `Speech`, `SpeechProofs` | all of it as `speech_synthesizer_solution.v` wires it, and proofs |
| `LightControl`, `LightControlProofs` | the volume meter at every width, and proofs |

A byte of audio is named by its word and lane, a word by its address: this
tells apart exactly what "the right byte" depends on.

### Assignment 3: the arbiter

`SharedAccess` has the ten states as a phase and an owner. Clients and target
come with the module because the repository does not have them: a client holds
its request until its reset pulse and its arguments until finish, and may
request again in the very cycle of finish; the target answers after any time
and may keep its finished line up until the next start.
`SharedAccessProofs` has the proofs.

### Lab5: the kernel and what runs on it

| Module | Models |
|---|---|
| `OSCore` | TCBs, ready list, wait lists, `OS_Sched`, `OSIntExit`, the tick, the scheduler lock, and the four functions by which events make tasks wait and ready |
| `OSTask` | delays, suspend, resume, create, delete, change of priority; create and delete in the sections between which they let interrupts in |
| `OSSem`, `OSMutex`, `OSMsg`, `OSFlag` | semaphores; mutexes with the PIP that their owner is raised to; mailboxes, queues and the pend on several events; flag groups |
| `OSKernel` | the kernel with an application: tasks that make any call of the application at any time, handlers that post, the tick; the properties |
| `OSKernelProofs` | proofs about every application of semaphores, mailboxes, queues, mutexes, flags and locks of the scheduler |
| `Channel` | abstract specification: a bounded channel between tasks, which mailboxes and queues implement |
| `MCOSKernel` | ten applications |
| `RecursiveLock`, `RecursiveLockProofs` | the locks of newlib in both variants, and proofs |
| `Desktop`, `DesktopProofs` | `task1` and `task2` of `hello_ucosii.c` with the mouse, the space key and the FIFO of the codec; proofs |
| `FrameBuffer` | frames as bytes in memory and every routine that reads or writes them by address, on displays and with lines of every depth; `KeepsPromise` names the calls that do not what `Canvas` says |
| `Canvas` | abstract specification: two pages of pixels and what each routine is said to paint on them by its name, parameters and comment, not by its code |
| `Shapes` | lines, boxes, circles, round boxes, triangles, filled or not, as the sets of pixels that the routines visit |
| `AlphaText` | the layout of a string and the mixing of ink and paper, channel by channel |
| `Graphics` | the three parts of the library on displays of every depth |
| `LfsrInterrupt` | the shift register, the edge register of the port, the initialization and the handler; the proof |

In the kernel a bit table is the set of its bits, a TCB a record of the fields that
calls look at, an event control block what its type, wait list and payload are.
`pc` tells where a task is inside a call: a pend is `block` until `OS_Sched` has
switched away from it and `wake` until it runs its second section, in which it
finds out from its TCB whether it was posted to, timed out or aborted; a
creation is `create`, `link` or `undo`. `account`, `inside`, `orphans` and `epoch`
are history: what callers have been told.

An *application* (a record in `MCOSKernel`) says which calls its tasks make, from
which priorities they start, and which **rules of use** it keeps. The kernel does
not enforce the rules. Each was found by leaving it out; without it TLC finds the
property beside it violated:

| Rule | Otherwise |
|---|---|
| a task that a post has chosen and that has not run since keeps its priority | `WaitConsistent`: `OSTCBEventPtr` still points to the event, and `OSTaskChangePrio` puts the task back into its wait list |
| a task is not deleted inside its `OSTaskCreate` | `TablesConsistent`: the priority stays reserved for ever |
| a task that owns a mutex does not pend, on any kind of event, or take another mutex (Note 1 of `OSMutexPend`) | `NoInversion` |
| a mutex is deleted with `OS_DEL_ALWAYS` while its owner is ready (Note 4 of `OSMutexDel`) | `ReadyConsistent` |
| a mutex is deleted with `OS_DEL_NO_PEND` while its owner has its own priority | `TablesConsistent`: the owner stays at a PIP that is free again |
| a task inside `OSMutexPend` is not suspended | `WaitConsistent` |
| a raised task does not suspend itself by its old priority | `RunsHighest`: `OSTaskSuspend` does not see that it is the caller, and does not schedule |
| with mutexes, a task that has locked the scheduler neither delays nor suspends itself | `ReadyConsistent`: it goes on in spite of the delay, and its post of a mutex for which it was raised makes it ready |
| no event is deleted with `OS_DEL_ALWAYS` while a task that pends on several waits for it | `ReadyConsistent` |
| a task that pends on several events is not suspended | `ReadyConsistent`, and the finding of section 7 |

Two more rules say for which applications a property is meant: where posts have
`OS_POST_OPT_NO_SCHED`, `RunsHighest` cannot hold (queues and mailboxes are checked
with that option, the others without), and where a flag group is deleted while
tasks wait for it, a pend may return `OS_ERR_NONE` without its flags.

## 3. Runs

| Run | Instance | Shows |
|---|---|---|
| `decrypt_core` | N = 3, L = 2, two keys, one ciphertext; start, reset and key free in every cycle | controller and workers in step; no lost write; fresh reads; permutation; workers started once |
| `ksa` | N = 4 (2-bit bytes, real xor), L = 3, all 64 keys, all 64 ciphertexts, one readable byte of four | handshakes; engine = RC4; cracker implements `KeySearch` including its liveness; ends on the display |
| `speech` | three phonemes of 1, 2 and 1 words, one silent, up to two outstanding reads | right addresses and the word on the bus; full handshake; implements `Talk`; keeps talking |
| `shared_access` | two arguments beside the power-up value | own result; undisturbed target; round robin; results kept; every request answered |
| `meter` | Half = 2: 2-bit samples, windows of 4, 3-bit counter, 4-bit sum; every sample, pause at any clock | exact average of a window; keeps metering |
| `meter_paused` | the same | *violation*: see section 7 |
| `kernel` | two or three tasks and the idle task, two events, rings of 2, counts up to 1, two messages, one group of two flags, delays and timeouts of at most one tick, one level of scheduler lock; ten applications | the tables, the ready list and the wait lists agree; the highest task runs; nothing is missed or lost; mutual exclusion without inversion; mailboxes and queues implement `Channel` |
| `multi_suspended` | tasks that are suspended while they pend on two events | *violation*: see section 7 |
| `graphics` | frames of 3 x 2 pixels of 2, 3 and 4 bytes, at one address and at two, two calls each; lines of up to three pixels of 16, 24 and 32 bits in memory; lines and boxes within 0..6 and 11, triangles within 0..3, circles of radius 0..40, round corners 0..4; text of three characters on 6 x 4 pixels | bytes implement `Canvas` in every call but those named; shapes are the right pixels but those named; text mixes channel by channel |
| `desktop` | a song of 6 samples in buffers of 3, a FIFO of 2, every button | the song in order; the screen shows what is done; a held key is handled |
| `lfsr` | the 5-bit register, at most one tick while the handler works | the frequency follows the bits, and hops for ever |
| `lock` | three tasks, nesting of three, `alt_env_lock.c`, priorities that are raised | one task inside; the count is right |

Why these bounds are enough to be interesting:

- *N, L.* N = 3 and 4 give exchanges of equal and different cells, wrap-around
  of i, j and of the key index, and resets in every state of every worker. With
  64 keys and one readable byte out of four, L = 3 gives ciphertexts whose key
  is first, late, last or absent, and failures at byte 0, 1 and 2. The sum of
  two bytes stands for the exclusive or in the first run, whose properties do not
  depend on it; the second uses the real one. The proofs cover every N and L.
- *Speech.* One-word and two-word phonemes reach both outcomes of the end
  test; a silent one that shares its word with its successor tells silence and
  word apart; two outstanding reads is what a `read` that is held over two
  clocks can cause.
- *Arbiter.* Results are named by their arguments, so two values show a mix-up.
- *Kernel.* A post has to choose between tasks, and a task of middle priority
  has to be able to come between two others: three tasks. A ring of two is
  empty, partly filled and full at every position of its pointers. A timeout of
  one tick races every section of a call, 0 (in the application with semaphores)
  waits for ever. Two events are what a
  pend on several, and two mutexes with different PIPs, need. Each application
  combines the calls that share tables (semaphores with creation and deletion,
  flags with deletion, a pend on several with both kinds of events; mutexes with
  semaphores, so that a block is one at one time and the other at another, and with
  locks of the scheduler). All ten together have 659,136 states. The kernel has no property
  that depends on how many priorities are unused.
- *Graphics.* Two calls show that one routine's bytes do not disturb another's
  pixels, or the other frame. A frame is not square and its row is not a power
  of two, so that a swapped coordinate or width shows. Circles have
  every radius up to 40; the lines have every slope within 6 pixels, and some
  longer ones (11).
  Shapes are the same on every display and are checked on one; text of 24 bits
  is that of 32. Every other routine is called at every depth: blocks move in all
  directions, by -2 to 1, a line in memory has 16, 24 or 32 bits and up to three pixels
  (the loop that reduces 24 to 16 bits converts two of three), and images are drawn
  on displays that have not the 32 bits that their code takes for granted. One
  colour of four different bytes shows bytes that are swapped; a grey is the colour
  with which an erased screen can be right. What `malloc` leaves in a byte
  that is copied uninitialised is 0 or 255. From 16 to 24 bits the routine also writes
  beyond the line that it allocated; what that does to the heap is not modelled.
- *Desktop.* The song ends inside a buffer and the FIFO is shorter than a buffer,
  so that `task1` waits in the middle of it. The mouse is at each button or at none.
- *LFSR.* The register shifts once a second and the handler takes
  microseconds: more than one tick during a handler does not occur.
- *Meter.* The widths are all derived from `Half`, so the small instance has the
  same boundaries (window full, counter wrapped, sum at its capacity) as the
  real one with `Half = 128`.

Every property has a mutant of the code (an operator marked "Mutant" beside the
one that it would replace) that violates it: a skipped wait, a pulse too long, a
comparison one off, a reset forgotten.

Deadlock is checked except in `graphics`, where a program stops after its calls,
and in `lock`: there a task may really wait for itself. `alt_env_lock.c` takes
the semaphore for free as long as nobody waits for it, so a nested call of its owner
pends on it; in both variants an owner that is raised between two nested calls
does not recognize its own lock. What holds even so is that no second task gets in.

The main properties:

- `ReadsAreFresh`, `WritesLand`, `InStep`, `StartsOnce`: the timing assumptions
  that the three workers silently make about the memory, the multiplexer and
  the controller, at every reset.
- `SBoxIsPermutation`: with `Settled`, the S box as it will be after the second
  write of the exchange under way.
- `DecryptsRC4`, `ImplementsKeySearch`: the byte-level and the system-level
  promise.
- `ImplementsTalk`: the system-level promise of the synthesizer. The variable
  `sample` is the sample on the output when the sample clock moves on.
- `OwnResult`, `TargetUndisturbed`, `BoundedBypass`, `EveryRequestAnswered`.
- `AveragesWindow`. (`LastLedDark`, which is proved, is a small surprise: 256
  magnitudes of at most 128 average to at most 128, and the eighth LED asks for
  more than 128, so a player that is never paused never lights it.)
- `TablesConsistent`, `ReadyConsistent`, `WaitConsistent`: what every call of the
  kernel assumes at the beginning of each of its sections. No priority is lost and
  no TCB used twice, although creation takes them in two sections; a task is
  ready exactly when nothing holds it; a task is in a wait list exactly while
  its pend is unanswered, in all lists of a pend on several or in none.
- `RunsHighest`: from tasks, from handlers, under the lock and after it.
- `NothingMissed`, `GrantsKept`: no task waits for what is there; a unit, and the
  flags, that a post gave are with the task that it chose, whatever happens
  until that task runs.
- `MutualExclusion`, `NoInversion`: what callers have been *told* about a mutex
  agrees with what the mutex says; its owner is above all who wait, and
  has its own priority back whichever way they have gone.
- `ImplementsChannel`: the rings do what the abstract specification says.
- `ImplementsCanvas`: so do the bytes of the frames, for each call that `KeepsPromise`
  admits. The others are the deviations of section 7, and each of its exceptions is
  needed: without it the run fails. Of a call that deviates the property still says that
  it changes only the pixels that it names (`Confined`), and of all but images on
  a display without 32 bits that nothing is written beside the frames (`OutsideKept`).
- `DrawsShapes`: nearest pixels of lines, borders, eightfold symmetry, a radius
  kept to a pixel, closed round boxes, triangles that keep to their edges, and what
  the outlines enclose for the filled shapes. What the code leaves out is part of the
  property, pixel by pixel: the right end of a horizontal line and
  of each row that is filled with one, and two rows of small round boxes.
- `SongInOrder`, `ShownIsDone`: what `task2` shows is what `task1` does, although they
  share three flags and a counter without a lock.
- `FollowsLfsr`: with a tick in the middle of the handler its edge can be
  lost; the frequency is then one bit behind, and never more.

## 4. Assumptions about the environment

- *Power-up.* Registers start with their initial value, memories with 0 (the
  result of Quartus for registers and RAM without one). `audio_abs` starts
  with any value.
- *Flash.* In-order answers, the bus keeps the last word, two answers are never
  in adjacent clocks (a word takes more than one clock on the serial bus).
- *Kernel.* Interrupt handlers run with interrupts disabled, as the HAL runs them,
  so a handler is one step. Tasks do anything that the rules of use of section 2
  allow. Delays and timeouts are counted in ticks and a tick may come at any
  time, whatever the tasks do.
- *Desktop.* The codec empties the FIFO as it likes. Both tasks delay themselves,
  by 100 and by 10 milliseconds, so `task1` runs between two looks of `task2`.
- *Locks.* Calls are paired: a task unlocks what it has locked. A task gives back
  the mutex for which it was raised outside the lock. Nobody calls the lock while the
  scheduler is locked: `OSSemPend` would then return `OS_ERR_PEND_LOCKED` without the
  unit, and both variants ignore `err` and go on as the owner.
- *LFSR.* As above; the port sees the edge some clocks after the shift.
- *`SlowClock`.* The sample clock rises only when no read is outstanding and the
  program waits for the machine to be ready. A sample lasts about 6944
  clocks of 20 ns; a read takes tens of clocks, the straight-line code between
  two waits of the program a few dozen. The assumption is needed: if the program
  could stall for more than a sample between the machine leaving
  `phoneme_ready` and its second acknowledgement, the machine would come back
  to `phoneme_ready`, take the old acknowledgement for a new one and play the
  phoneme twice, since it never checks that the line was low before.
- *`SlowKey`.* No key arrives before the program has said its first phoneme (a
  key takes milliseconds, the program microseconds). Without it the machine
  plays the power-up phoneme 0 in the place of the first.

## 5. Fairness

- `Ksa`, `LightControl`: `WF(Clk)`: the oscillator does not stop. Nothing else is
  needed.
- `Speech`: the processor does not stall for ever, the flash eventually accepts
  a read that is held and answers an accepted one, the sample clock keeps
  rising and falling. Keys are never assumed to come: `KeepsTalking` is
  conditional on a keyboard that stays in `play`.
- `SharedAccess`: the clock runs *without* any client beginning a request (so
  that fairness never forces one), and a running target answers.
- `Desktop` (`LiveSpec`): `task1` wakes, sends and ends its buffer, and the codec
  drains the FIFO (weak fairness); `task2` gets its turn when it can run again and again
  (strong fairness: `task1`, which has the higher priority, disables it each time it
  wakes, but delays itself after every buffer). The key is never assumed to be pressed:
  `HeldIsHandled` is conditional on one that stays down.
- `LfsrInterrupt`: the processor, the port and the slow clock go on (weak fairness).
- `DecryptCore`, `OSKernel`, `Graphics` and `RecursiveLock` have only safety properties
  and no fairness. What a task of the kernel waits for is another task's doing, so
  no liveness holds of arbitrary applications; that nothing which *is* there is waited
  for is the invariant `NothingMissed`.

## 6. Proofs

TLAPS checks every theorem for every value of the constants. The assumptions are
those of the modules, and TLC evaluates each of them on its instances:

- sizes are positive, samples and bytes are in their ranges (`NAssumption`,
  `LAssumption`, `SizeAssumption`, `HalfAssumption`, `LevelsAssumption`,
  `PlainAssumption`, `ArgumentAssumption`, `QAssumption`, `SemAssumption`,
  `AudioAssumption`), and `XorAssumption`: some binary operation on bytes (nothing
  about exclusive or is needed);
- `ScriptAssumption`, `NarrationAssumption`: the script is not empty, and the table of
  phonemes gives words of the flash, the first one not behind the last;
- `CoreAssumption`, `SeveralAssumption`, `RequestAssumption`, `MutexAssumption`, `AppsAssumption`: the null
  pointer and the reserved mark are none of the tasks, events and messages; the mark of a
  mutex that is available is not a priority; an event is
  neither a set of events nor a request for flags; an application starts its tasks
  at different priorities above the idle task's;
- `LockAssumption`: tasks are their priorities, the PIP is above them all;
- `SongAssumption`: the song is made of whole buffers. The song is not in the
  repository; with another size `task1` reads past its array;
- `TicksAssumption`: at most one tick of the one-second clock in a run of the handler.

**Engine** (`KsaProofs`). The inductive invariant is `CoreInv`:
types, `InStep`, `ReadsAreFresh`, `HeldWords`, `Filled`, `SBoxIsPermutation`.
`ReadsAreFresh` alone is not inductive: that `q_si` is still `S[i]` when it is
written back needs `HeldWords`, which needs that nobody else writes, which is
`InStep`; that `init.sv` leaves the identity needs `Filled`. The proof goes worker by
worker, each under the reset that the controller routes to it.

**Reference cipher** (`KsaProofs`). Schedule and generator are recursive functions.
The prover cannot instantiate the library's induction theorems, so the module first
proves, from the well-foundedness of the naturals alone, that the set of numbers
for which an iteration exists is all of them (`LeastNatural`, `SetInduction`,
`IterationExists`), and derives two lemmas (`ScheduleRecurrence`,
`GeneratorRecurrence`): what step n + 1 is, given step n. They only unfold the
definitions and say nothing about the hardware; the invariant of the cracker, which
relates one exchange to the next, rests on them.

**Cracker** (`KsaProofs`). `KsaInv` adds `Handshake` (where each machine is while
`brute_force.sv` is in each of its states), `FollowsSchedule` and
`FollowsGenerator` (the registers are those of the reference, one exchange
behind between two writes) and `FollowsSearch` (bytes below k are verified; a
key is given up only if the message is not readable). From it follow `TypeCorrect`,
`StartNeverMissed`, `WriteNeverMissed`, `EngineDecryptsRC4`, and `SearchSafety`: the
initial states of the cracker are initial states of `KeySearch`, and
every clock edge is a step of it or a stutter.

**Arbiter** (`SharedAccessProofs`). `SharedInv`: phase, owner, client and target
go through a call together (`Together`), and a client that was passed over is
the next to be asked (`Turns`). `OwnResult` needs `Together` because the result
register is written one state before finish, and from a bus that shows the last
answer; the bound on bypassing needs `Turns` since the count alone says nothing
of who is asked next.

**Meter** (`LightControlProofs`). `MeterInv`: unless the machine was held since
its last reset, the counter is the number of samples plus at most one, and the sum
is exact and at most Half per sample, hence below the capacity of its
register, so that no remainder is ever taken. From it follow `ExactAverage`
and, with a counting argument over the levels, `DarkLED`.

**Locks** (`RecursiveLockProofs`). `LockInv`: the unit of the semaphore is in the
count, or exactly one task holds it, from the return of its `OSSemPend`, or
the post that chose it, to its `OSSemPost` (`OneHolder`); the identifier of the
lock is a name of the task inside (`Names`), and a name is that of one task only, also while
priorities are raised (`NameOfOne`). That is why a task that looks at a lock
before another one takes it never mistakes it for its own: what it compares is
its own name. From it follow `LockTypeOK`, `LockExcludes` and `LockCounts`, for every set of tasks and both
variants, also the one that the run does not use.

**Synthesizer** (`SpeechProofs`). `TalkInv` follows a phoneme through the four
parts. `Handshake`: program and machine agree on which of the four phases of the
acknowledgement they are in; `in_port` is part of it, because the program tests what
it read a clock before. `Loading`: the registers of the narrator are those of the
phoneme said last, except in the one clock in which nobody looks at them. `Bus`:
all reads that are not answered are for the word at `addr`, and none is left when
the machine moves on, so that a late answer is never taken for the next word. `Heard`:
what the last sample was, for each state of the machine. From it follow
`SpeechInv` (the addresses are those of the phoneme, the word on the bus is the one at
`addr`), `SaysWhenReady` and `ScriptIsHeard`: every clock is a step of `Talk` or a
stutter. `SlowClock` and `SlowKey` are guards of the clock, as in the run.

**Desktop** (`DesktopProofs`). `DesktopInv`: `task1` sends only while the song plays
(`PlaysWhileSending`), so the reset of the counter by *stop* never falls into a buffer;
the counter is a multiple of the buffer and never beyond the song (`InSong`); of the
three flags, those that `task2` has assigned are right and the others are still the
old ones (`Assigned`), and the picture is that of the button, at every moment (`Drawn`). From it
follow `ShownIsDone` and `SongInOrder`; that the quotient of the divider stays between
its limits while `freq_reader` moves needs that a larger divisor gives a smaller
quotient (`DivAntitone`).

**LFSR interrupt** (`LfsrInterrupt`). `LfsrInv`: what the handler has read is the
register, or the register one tick ago (`Near`), from the read to the clearing of the edge.

**Kernel** (`OSKernelProofs`). The theorems hold for every application that is
`Disciplined`: a fixed set of tasks that uses semaphores, mailboxes, queues, mutexes,
flag groups, delays, suspension and the lock of the scheduler **in any mixture**, with handlers
that post and the tick, for any number of tasks, priorities, events, messages and
delays; and one that has mutexes keeps the six rules of use for them (`MutexRules`). Each of
these rules is needed: section 2 says what TLC finds without it. Six of the ten
applications of the run are of this kind, each with only some of the services: the theorems
also cover the mixtures.

- `KernelInv` is the inductive invariant of the tables. `Settings`: the tasks, and under
  which priorities they are found. `Lists`: the bits are those of tasks. `TaskInv`:
  a task is ready exactly when nothing holds it, and a task inside a pend waits in
  one list, or has timed out and *is still in that list*, or has been chosen and is
  in none (`OnEvent`, `OnFlags`). `WaitConsistent` says who is in which list;
  the induction needs more: what the status, the delay and the event pointer are in each of the
  three cases, since between the tick and the second section of its pend a task may be
  chosen, suspended or resumed. `Processor`: an unlocked task runs only while it is
  ready, and as the highest one, or has given back a mutex for which nobody waits and
  goes on at its old priority (`GoesOnRaised`). One lemma treats each function of `OSCore` that the calls
  share (`EventStep`, `FlagStep`, `TimeStep`, `SchedStep`), and a call is an instance of one
  of them. From it follow `ReadyConsistent`, `WaitConsistent`, `RunsHighest`, and with
  the other invariants `TablesConsistent`.
- `MutexInv` is its part about mutexes. `Owners`: an owned mutex has its owner's own
  priority in its block, a task owns at most one, whoever has been told that it owns one is
  its owner, and the owner is above all who wait. `Priorities`: a task has the priority that it
  started with, or the PIP of the mutex that it owns; it is always found under the first; a PIP
  is that of one mutex, above all tasks, and is reserved or the raised owner's.
  `Pending`: a task that owns a mutex is inside a pend only between the post that handed
  it the mutex and its own second section. That is the heart of the argument. An owner that
  is not ready is delayed or suspended, so when `OSMutexPend` raises one, `OSTCBEventPtr` is null
  and no bit of a wait list moves (one that a post has just chosen still points to its
  event, but is ready); and the post and the
  deletion, which make a raised owner ready without a look at what holds it, find it ready
  already: the caller of a post is ready (also under the scheduler lock, by the rule about
  delays), the owner of a mutex that is deleted by "owner ready". Creation, acquisition, pend and
  handing over (a post, or a deletion, with any number of waiters) each have lemmas for
  `Owners`, `Priorities`, `Pending`, `TaskInv` and `Processor`, because they change priorities,
  ready list and wait lists in one step; all other calls leave owners and
  priorities alone (`PlainStep`). To the invariants below all calls of a mutex look alike:
  waiters of one event are answered and nothing else happens (`MutexStep`). From `MutexInv`
  follow `MutualExclusion` and `NoInversion`, for any number of mutexes and waiters and
  any sequence of raises, posts, timeouts and deletions.
- `HeldInv`: a semaphore with units, a mailbox with a message and a queue with entries
  have no waiters, and the pointers of a ring are as far apart as its entries. `FlagInv`: the
  same for groups, and a task that a post chose has enough flags (`Served`). From them
  follows `NothingMissed`. Its theorem has one more hypothesis, `OneSense`: no request
  of the application consumes, or all of them wait for flags to be set, or all for flags
  to be clear. Otherwise the property is not true of the kernel: `OSFlagPend` and
  `OSFlagAccept` with `OS_FLAG_CONSUME` clear (or set) the flags that they get and look at
  no waiter, so one that waits for just these to be clear (or set) is not woken.
- `AccountInv`: the units given to a semaphore less those taken are its count and
  one for each task that was chosen and has not run (`Holders`, with cardinalities of finite
  sets). From it follows `GrantsKept`.
- `MsgInv`: only a task that a post chose has a message in its TCB. With `RingInv` it gives
  `ChannelsAreImplemented`: every step is a step of `Channel` or a stutter. The ring read
  from `qOut` is a sequence (`Queued`), and the three things that the code does to it
  are what they should be on that sequence: a post appends (`QueuedAtEnd`), a post to the
  front prepends (`QueuedAtFront`), a pend takes the head (`QueuedTaken`), across the
  wrap-around of both pointers and for every size.

`CoreInv`, `KsaInv`, `SharedInv`, `MeterInv`, `LockInv`, `TalkInv`, `DesktopInv`, `LfsrInv`,
`KernelInv` with `MutexInv`, `HeldInv`, `FlagInv`, `AccountInv`, `EpochInv` and `MsgInv` are proved and are not
among the invariants of the runs.

**Only model-checked.**

- All liveness (`EndsOnDisplay`, the fairness part of `ImplementsKeySearch`,
  `KeepsTalking`, `EveryRequestAnswered`, `KeepsMetering`, `HeldIsHandled`,
  `KeepsHopping`), since the prover has no rules for ENABLED.
- The properties of the kernel for applications that create or delete tasks, move them to
  other priorities, or pend on several events: the set of the tasks and its table of
  priorities then change, and a task is in several lists.
- `ImplementsCanvas`, `DrawsShapes`, `TextBlends`: `Shapes` traces an arc with a
  recursive operator, which the prover cannot use, and the modules that use it share this.

## 7. Findings

- `meter_paused`: `Light_Control_annotations.txt` says that the meter "sums 256
  audio inputs periodically". In a pause the counter runs on while no sample is
  added, so the window that a pause falls into holds fewer samples, or more once
  the counter has wrapped, and is still divided by 256. (The meter samples
  the audio every four clocks of 50 MHz, so the display soon recovers.)

- `multi_suspended`: `OSTaskResume` is "called to resume a previously suspended
  task". When the task was suspended while it pends on several events and a post
  chooses it then, `OS_EventTaskRdy` leaves `OS_STAT_MULTI` in its status;
  `OSTaskResume` clears the suspension, compares the status with `OS_STAT_RDY`,
  and does not make the task ready. No event is left that it waits for.

- `graphics`. The library's comments promise more than its code does. Both properties
  hold with these exceptions stated in them; all lines are those of `simple_graphics.c`.
  - A horizontal line lacks its right end (435), although `vid_draw_line` "draws a line between
    two end points" (29); a sloped one has both. `LineIsNearest` says so.
  - A filled circle is filled with such lines, so each of its rows lacks the
    right end (830), although it "draws symetric circles only" (662): `FillsCircle`.
  - A filled round box with a radius of 1 or 2 has nothing between the end points of its first
    and last row (793), although "1 = fill" (695): `FillsRoundBox`.
  - `vid_get_pixel` "reads the color of the pixel at the given coordinates" (330), but
    takes two bytes for a pixel at every depth (338); the display of `main` has 32 bits.
  - `vid_move_block` "moves a block around the screen" (171), but does nothing to the
    right or down (181), and reads with `vid_get_pixel`.
  - `vid_copy_line_to_frame_buffer` "converts color depth if necessary" (526), but of three or more
    pixels it converts from 24 to 16 bits only some, and copies uninitialised bytes for the
    others (550); from 16 to 24 bits it takes each byte for a pixel and leaves gaps (571);
    and on a display of 32 bits it copies nothing.

Observations without a run, where the repository documents no promise or the
part is not modelled:

- the LEDs of the cracker are the same in `failure` as while it runs;
- in Lab2 `restart_forward` carries direction 0, so a restart goes to the last
  word and not to the first;
- a nested `__env_lock` waits for itself as long as no other task waits
  (section 3);
- `task1` plays the first buffer of the song twice: the counter reaches
  `size_song`, whose index is 0, before it is set back;
- what the kernel does without the rules of use of section 2;
- in `draw_gimps.c`, whose routines have no comment on it: `DispIMAGE` ignores its position,
  the fitting routine draws one column and one row more than it is given, and all
  images are written as words of 32 bits whatever the display is; in `vip_fr.c`,
  `DRAW_EraseScreen` fills with the low byte of its colour (the exceptions of `KeepsPromise`
  for *blit*, *fit*, *erase* and `FitsDisplay`).

## 8. Not modelled

- *Pictures and fonts* of Lab5 (`imagenes`, `fonts`, the 8 x 11 font): tables of
  numbers without behaviour. They are more than half of the C lines of the program, and
  with the headers and the driver code of the vendor they are the reason why the
  modelled share of the lines stays small: of the kernel's own sources, what
  is left out is named below. `gimp_bmp.c` converts a picture once.
- *`vid_print_string` and the scrolling string*: the first copies bits of the font
  table, the second asks the clock when to call it.
- *Kernel*: memory partitions (a free list, one critical section for each call; no
  program here has one), timers (compiled to nothing), `OSTaskDelReq`,
  `OSTimeDlyHMSM` (repeats `OSTimeDly`), `OSTimeSet`, names, queries, stack checking,
  the statistics task. A queue in a pend on several events does what a mailbox
  does there and is left out of it.
- *HAL and drivers*: file descriptors, alarms, the JTAG console, start-up code:
  vendored, and beside the program's own path.
- *Loops of `drivers.c`* that make waveforms and notes: nothing calls them.
- *Clock crossing and DDS of Lab5*: the DDS is generated; `fast_to_slow_sync.sv`
  captures a word that changes with every fast clock, and no relation between the
  clocks is documented that a property could rest on.
- *Sample clock of Final*: `Speech` takes a sample clock that is slow enough. *8b/10b
  link*: a vendored table.
- *Lab2 and Lab3*: the player of Lab2 is the first version of the one of Final, which
  is modelled; Lab3's `flash_address_control.sv` does not compile as committed, and its
  program is the meter that Final has in hardware.
- *Course-supplied drivers* (keyboard, LCD, scope, VGA, PS/2), Lab1, generated code:
  device I/O without promises of this repository.
- *`SevenSegmentDisplayDecoder.v`* and other tables: no state.
- *The menu of `speech.psm`* and its LCD output: `Speech` takes the phonemes it
  says as a script.
- *`trap_edge.sv`*: its first flip-flop is never cleared, so after the first edge
  it is a constant; nothing uses it. Assignments 1 and 2 are exercises.
- *Metastability*: a synchronizer is taken to deliver a level of its input.

## 9. Plan

Done: the Lab4 cracker, the arbiter, the meter, the synthesizer, the desktop, the LFSR
interrupt, the locks of newlib and the kernel with fixed tasks, its events and its
mutexes, with proofs; the rest of the kernel and the graphics library, model-checked. What would
come next:

1. Proofs about creation, deletion and moves of tasks, under the rules of use of
   section 2: `Settings` with a set of tasks that changes.
2. The pend on several events: `TaskInv` with a set of lists.
3. The player of Lab2 with `FlashRead` and `Flash` reused, its abstract specification a
   tape with a position; which restarts are taken.
4. The sample clock of Final, with clock edges of two domains.

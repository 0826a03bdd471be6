# LanternOS in TLA+

This directory is a verification development of LanternOS, a 32-bit x86 kernel
with a text console, a PS/2 keyboard, an ATA disk that holds a ustar archive, a
shell, and user programs that call the kernel through `int 0x80`. It holds TLA+
modules translated from the sources, TLC configurations that model-check them on
small instances, and theorems proved with TLAPS for every value of the
constants. Paths such as `io.c:197` are short for `src/src/io.c:197` (all sources
named here are in `src/src/`, headers in `src/include/`).

1. [The system](#1-the-system)
2. [The plan](#2-the-plan)
3. [The modules and the code](#3-the-modules-and-the-code)
4. [The runs: what is checked and what it shows](#4-the-runs)
5. [Fairness](#5-fairness)
6. [The proofs](#6-the-proofs)
7. [Disagreements between code and comments](#7-disagreements)
8. [What is not modelled](#8-what-is-not-modelled)

## 1. The system

There is one processor and no scheduler. The shell runs in the kernel and never
returns; a command may run one user program, which runs until it exits. The
kernel is compiled without optimisation (`settings.mk`), so every access to a
global is an access to memory at that point of the program.

Concurrency comes from interrupts alone. All IDT entries are interrupt gates
(`idt.c`), which clear IF: a handler, and a system call (`idt.c:102`), runs with
interrupts off and is never interrupted. The kernel's main thread runs with
interrupts on and is interrupted between any two instructions. Hence the grain of
the models: the main thread takes one step per access to a shared location, a
handler one step as a whole (`Interrupts`, whose subject is the handlers
themselves, splits them).

| Component | State | Operations | Talks to | Hard | What makes it correct |
|---|---|---|---|---|---|
| VGA console (`io.c`) | `cursorX`, `cursorY`, frame buffer, CRTC registers | `writeChar`, `scroll`, `clearScreen`, `moveCursor` | called by everything that prints; `clearScreen` also by the keyboard interrupt | Ctrl+L between any two accesses of a call in progress; unsigned wrap of the cursor | a call nobody disturbs does what a tape would; a disturbed one ends with the cursor on the screen |
| Keyboard (`io.c`) | ring `keyBuffer`/`head`/`tail`, modifier flags, `eofTrigger`, arrow | `keyboardHandler`, `getInput` | interrupt writes, main thread reads, no lock | single producer and single consumer, full ring, modifiers pressed together | a bounded first-in first-out queue; no modifier sticks |
| Standard input (`syscalls.c`) | `stdinBuf` and its indices | `readStdinLine`, `kread_impl(0)`, `__stdin_get` | polls the keyboard, echoes on the console | typing ahead, short reads, editing across rows | a line discipline: lines in order, none lost, none empty; the echo shows the line |
| ustar file system (`ustar.c`) | `tarBuf`, the archive in memory | find, list, size, touch, rm, edit | edited by shell and descriptors | blocks move in place; sizes round up to blocks | behaves as a list of named files |
| Disk (`ata.c`) | the drive's status, registers, buffer, medium | `ataIdentify`, `ataRead`, `ataWrite`, port access by port access | a drive that answers in time, late, with an error or never | every wait gives up, and the drive may be ready after that | sectors are whole; a call that finds the drive at rest is exact |
| Persistence (`ustar.c`, `sh.c`) | `tarBuf` and the sectors | `tarLoad`, `tarFlush`, the shell's file commands | shell, `close`, boot | power loss between sectors; time-outs nobody reports | buffer and disk agree at the prompt; a cut flush damages only what lies behind the file |
| File descriptors (`fd.c`) | `fdTable`: raw pointers into `tarBuf` | `open`, `read`, `write`, `close` | over the archive and the disk | pointers to blocks that move; leaks over exit; a table nobody initialises; clipping | files as strings of bytes, descriptors as positions in them |
| Interrupts and boot (`idt.c`, `interrupts.asm`, `kernel.c`, `boot.asm`) | gates, PICs, `sysTicks` | `initIdt`, `interruptDispatcher`, timer, keyboard, default and fault handlers, `panic`, `reboot` | everything | two ends of interrupt for the slave; spurious and software interrupts; masked time; interrupts before the drivers are ready | nothing stays in service; ticks are accounted for; the keyboard is served |
| System calls and user mode (`int80.asm`, `ring3.asm`, `syscalls.c`) | the interrupt frame, eax, IF | `int 0x80`, the dispatcher, `enterUsermode`, `sys_exit` | programs, terminal, descriptors | flags and registers across the two frames; a blocking call with interrupts off | a call returns its result, to ring 3, with the flags it came with |
| Shell (`sh.c`) | `input`, `tokens`, `tokenCount`, what `stdin` still holds | read a line, cut it in place, run a command, reset | all of the above | pointers into a line that is reused; words left on `stdin`; a loop left before its end | a command sees the words of its own line |
| Program loader and heap (`binary.c`, `mem.c`) | memory, `heap_brk` | `loadBinary`, `kbrk`, over loads, exits and restarts | archive, user mode | programs are linked inside `tarBuf`; a signed increment of an unsigned break | programs start as linked; files survive loads; no address is granted twice |
| Numbers and dates (`io.c`, `ustar.c`, `sys.c`) | - | `intToStr`, `hexToStr`, `atoi`, `parseOctal`, `fmtWrite`'s padding, the date of a header, `getTotalMem` | callers | numeric edges | what is printed reads back; dates are the calendar's |
| Segments (`gdt.c`), real-mode loader (`bootloader.asm`), applications | tables | run once, or stubs | - | - | not modelled, see section 8 |

`PROJECT.json` lists every component with its status, and under `hazards` each
place in the code where something can go wrong that a test would hardly reach,
with the properties that watch it or the reason none does.

## 2. The plan

Each component has a module with its state and one action per operation, written
with its parameters as CONSTANTS under a named ASSUME; a `...History` module that
adds the environment and the history variables the properties need, the
specification and its properties; an abstract module of what it promises, where
there is one to state; an `MC...` module with its configuration; and, in
time, a `...Proofs` module. What is done is marked.

| # | Modules | Composes | Abstract specification | Theorems | |
|---|---|---|---|---|---|
| 1 | `Console`, `ConsoleHistory`, `ConsoleProofs` | - | the tape (operators) | type, cursor heals, stores, hardware cursor, cleared screen, tape steps, calls run down | done |
| 2 | `Keyboard`, `KeyboardHistory`, `KeyboardProofs` | `Console` (Ctrl+L) | `KeyFifo` | type, modifiers, ring, refinement | done |
| 3 | `Terminal`, `TerminalHistory` (proofs in `KeyboardProofs`) | `Keyboard`, `Console` | `LineDiscipline` | the line's invariant, refinement, the echo, reads run down | done |
| 4 | `Ustar` (proofs in `StorageProofs`) | - | `FileList` | the archive's invariant, what is behind its end, refinement | done |
| 5 | `Storage`, `StorageHistory`, `StorageProofs` | `Ustar` | - | buffer and disk in step, what a cut flush leaves, listings | done |
| 6 | `Descriptors`, `DescriptorsProofs` | `Storage` | `FileStore` | pointers, dirty flags, refinement | done |
| 7 | `Interrupts`, `InterruptsHistory`, `InterruptsProofs` | - | - | type, end of interrupt, ticks, flags, empty reads | done |
| 8 | `Ata`, `AtaHistory`, `AtaProofs` | - | - | whole sectors, exact calls, the stuck drive, calls run down | done |
| 9 | `Shell`, `ShellHistory`, `ShellProofs` | - | the words of a line (operators) | tokens, leftover text | done |
| 10 | `Loader`, `LoaderHistory` (proofs in `LibraryProofs`) | - | - | programs as linked, files, grants | done |
| 11 | `Conversions` (proofs in `LibraryProofs`) | - | the calendar, decimal and octal notation | numbers, dates | done |

Nothing of the plan is left to prove but what section 6 says is out of reach.

## 3. The modules and the code

**Console.** `wpc` is the program counter of the main thread inside `writeChar`
or `clearScreen`; each label is one access in `io.c:184-230` or in what it calls.
`cursorX++` is a load (`LoadX`, into `reg`) and a store (`StoreX`, modulo the
word). The glyph's address is computed from `cursorY`, then `cursorX`
(`OffsetY`, `OffsetX`), then used (`Put`). `scroll` copies cell by cell with an
index, blanks the last row and pins `cursorY`. `moveCursor` selects and writes
two CRTC registers through an index port and a data port: `WriteRegister` hits
whichever register is selected *then*. Blanking a row or the whole screen by the
main thread is one step: an interrupt in its middle blanks the same cells.
`ClearScreen` is the same function as the interrupt runs it, in one step.
A store at an offset past the screen changes no cell. `ConsoleHistory` adds Ctrl+L
at any time and the *tape* - the screen as one row of cells with one position -
that says what a call should do.

**Keyboard.** A scan code is the key it stands for. `KeyReleased`, `ModePressed`,
`ControlPressed` and `TextPressed` are the branches of `keyboardHandler`;
`GetTest`, `GetLoad`, `GetAdvance` are the accesses of `getInput`. `keymap` and
`keymapShifted` are parameters. Not modelled: the E0-prefixed fake shifts some
keyboards send. `Queue` reads the ring off as a sequence; `KeyFifo` is the queue
it stands for, with `lost` saying that a character was dropped.

**Terminal.** `Read`, `PollKey`, `AcceptNewline`, `AcceptBackspace`,
`AcceptGlyph`, `Echoed`, `FinishLine`, `CopyOut` follow `readStdinLine` and
`kread_impl`. What the interrupt shares (ring, screen) is accessed in the steps of
`Keyboard` and `Console`, which the module extends; `stdinBuf` belongs to the main
thread and its accesses are grouped. `LineDiscipline` is the promise: edit as you
take, hand lines out in pieces, each with its newline. The refinement holds *with*
Ctrl+L and typing at every step. `TerminalHistory` adds the typist and a program
that prints between its reads; `found` remembers the screen a line began on, the
prompt in front of the cursor included, as long as it has not scrolled off.

**Ustar.** A pointer is a block index. `tarNext`, `tarFind`, `tarGetEnd`, `tarList`
walk by recursive functions; `Removed`, `Touched`, `Written`, `Edited` are the
buffers that `tarRm`, `tarTouch` and the halves of `tarEdit` leave, and `Touch`,
`Rm`, `Edit`, `Look` the operations with their results. Initial archives are all
the ones `tar` lays out from regular files (the Makefile archives two). `FilesOf`
maps the buffer to `FileList`, whose `Edit` leaves an *empty* file at the end,
because `tarEdit` returns on the result of a `tarTouch` that worked. A header
keeps its name and size; its octal fields and dates are in `Conversions`.

**Ata.** `pc` is the place in `ataIdentify`, `ataRead` or `ataWrite`, one step per
port access whose value varies (HEAD, ERR and LBA_H are written the same in every
call, the archive's sectors having addresses of two bytes, and make no step);
`polls` is the index of the wait it is in, `Poll` one look at the status: go on
when it is as wanted, give up after `TIMEOUT`. Where a function goes on after a
wait that gave up and where it returns is in the arguments of each `Poll`. The
drive is external: it becomes ready, fails or stays silent whenever it likes
(`Fetch`, `Ask`, `Store`, `Flushed`, `Fail`), ignores registers and commands while
it shows BSY or DRQ, and keeps a word only while it asks for one - as the one of
`make run` does. The address goes out a byte at a time (`SetLow`, `SetMiddle`), so
a drive that comes to rest in between may be left with half of it. `ataIdentify`'s
last wait is for data nobody has asked for, so it runs out and the code behind it
("prime") is never reached.

**Storage.** The shell's file commands are phases (`todo`): `touch` edits and
flushes, `rm` edits, flushes, reloads and lists, `echo >` and `cat >` load, edit
and flush, `ls` and `cat` load. A load or flush moves one sector per step.
`WriteTimedOut` is `ataWrite` returning early; `ReadTimedOut` is `ataRead`
storing what the data register holds. (A drive that answers after the time-out is
`Ata`'s subject; here one that failed stays silent.) `Restart` is `kmain`'s load after `reboot`
or after a power loss at any step. `StorageHistory` remembers the last command
that changed the archive and what it found on disk and in memory (`txn`).

**Descriptors.** `fdTable` with the pointer `data` as a block index; `Open`,
`Read`, `Write`, `Close` are `fd.c`'s, flags but `O_CREAT` and `O_TRUNC` having no effect
in the code. `Run` and `Exit` hand over between shell and program and close
nothing, as `sys_exit` does. The shell's commands, the drive and reboot come from
`Storage`. `FileStore` is the promise: a file is a string of bytes of fixed
length. `fdInit` is never called, and nothing clears bss when the machine restarts:
a restart finds either zeros or the table as it was, with the descriptors still
open over an archive loaded anew (`Restarted`).

**Interrupts.** Gates and software gates (`Gate`, `SoftGate`), the two PICs as
sets of lines in service, `Taken` for the priorities, `Eoi` for a non-specific end
of interrupt. `interruptDispatcher` is `SlaveEoi`, `MasterEoi`, `Tick`, `KeyCode`,
`Return`; the default gate's sentinel number 0xFF makes it end both controllers.
`Int80` and `SysReturn` are `int80.asm`'s two halves, with the two pushes of eax;
`RunProgram` is `enterUsermode`, which pushes the shell's own EFLAGS; `ExitCall`
is `sys_exit`, which calls the shell from inside the system call. Lines stand for
characters: `typed` are those in the ring, `lineReady` is `stdinLineReady`, a line
taken from the ring and not read out. `ReadStdin` is `kread_impl(0)`: it ends at
once if a line is ready and else waits for one; `ReadFile` is a read of any other
descriptor, which waits for nothing. The shell reads whole lines for its commands
(`CommandLine`) and one word for the text of `echo >` and `cat >` (`TextLine`),
which may leave a rest that the next command line is. A boot is `InitIdt`, which
remaps the controllers and sets IF at its end, and `Booted`, the rest of `kmain`,
which runs with interrupts on; `Reboot` is the shell's command, after which
`sysTicks` is zero or what it was. The controllers and the processor are modelled
from how `remapPic` sets them up and from what the assembly relies on.

**Shell.** `input` and `tokens` are `sh`'s two local arrays, a token an offset into
`input`; `stdin` is what `scanf` has not taken. `ReadCommand` is the loop's first
half: `scanf`, which stores nothing when the line is empty, `fflush`, and
`tokenize`, which writes ends of string over the blanks. `Clear` leaves the loop
body before the slots are reset, `Redirected` and `ReadData` are `echo >` and `cat
>`, which read one word of text, `RunProgram` is a program that exits and so calls `sh` anew
on a stack of unknown contents. What the commands then do to files and to the
machine is in `Storage` and `Interrupts`.

**Loader.** Memory is a row of cells, each holding a cell of a file, a zero or
what a program wrote. `LoadBinary` tests what `loadBinary` tests, `LoadSegment`
is one turn of its loop: it reads the program header from the archive's buffer *as
the segments loaded before have left it*, copies and zeroes. `app.ld` links programs at
0x180000; the kernel's image begins at 0x10000 with `heap_memory`, 1 MiB, before
`tarBuf` in it, which puts the programs in `tarBuf`'s last part.
`kbrk` is called by programs through `sbrk`; the break outlives them.

**Conversions.** `intToStr`, `hexToStr`, the padding of `fmtWrite`, `atoi`,
`oct2bin`, the octal fields that `tarTouch` writes, `unix2date` and
`getTotalMem`, as recursive functions on words of `DIGITS` hexadecimal digits. An
action is one call with its result; the calls share no state.

Operators whose comment begins with `Variant:` do not exist as code: they are
slips the code might have had, kept to show that each property notices one. No
specification uses them.

## 4. The runs

| Run | Instance | States | Shows |
|---|---|---|---|
| `console` | 3x2 screen, 2 glyphs, word 32, CRTC radix 3 | 135,672 | with Ctrl+L between any two accesses: `CursorHealed`, `UndisturbedWrite`, `HwCursorFollows`, `OneGlyphSurvivesClear`, `PutOnScreen`, `CallReturns` |
| `keyboard` | ring of 3, 3 text keys, 2 arrows, both Shifts, both Ctrls, Caps | 543,456 | `ImplementsFifo`, `EveryKeyDelivered`, `SlotBeingReadIsStable`, `NoStuckModifier` |
| `terminal` | 2x2 screen, ring of 2, lines of 2 behind a prompt of 1, reads of 2 bytes | 1,392,998 | `ImplementsLineDiscipline`, `EchoIsLine`, `EnterCompletesRead` |
| `archive` | all archives of 3 names and sizes 0-3 in 6 blocks of 2 bytes | 5,658 | `ImplementsFileList`, `NothingBehindTheEnd` |
| `storage` | all archives of 2 names in 4 sectors, up to 2 faults | 5,345,668 | `InStep`, `FrontFilesSurvive`, `TouchIsAtomic`, `ListingIsOfTheDisk` |
| `descriptors` | 2 descriptors, 2 files, counts 2 and 7, `size_t` of 8 values | 507,768 | `ImplementsFileStore`, `FdPointsAtItsFile`, `DirtyTracksDifferences`, while nothing moves under an open descriptor |
| `interrupts` | lines 0, 1, 14; vectors 0, 32, 33, 40; calls 2, 7, 9, 99 | 534,684 | `NothingLeftInService`, `TicksAccounted`, `ProgramsAreInterruptible`, `EmptyReadIsTheEnd`, `KeyboardIsServed` |
| `ata` | 3 sectors of 2 words, addresses of 2 bits, waits of 2 looks, a count of 0 for 2 sectors | 1,090,708 | `SectorsWhole`, `ExactCalls`, `StuckDrive`, `CallEnds` |
| `shell` | `input` of 8 characters, 3 tokens, all lines of up to 5 characters made of 6 words | 26,899 | `TokensAreTheLine`, `OnlyTextIsLeftOver` |
| `library` | words of 3 hexadecimal digits, all 49,711 days; 5 files, a heap of 3, addresses of 64 values | 159,429 | `NumbersSurvive`, `DatesAreCalendar`, `LoadedAsLinked`, `FilesOutliveLoads`, `GrantsApart` |
| `stale`, `result` | those of `descriptors`, with `MoveWhileOpen`, and of `interrupts` | | violations: section 7 |

`console` and `keyboard` also check their type invariants; those of `Interrupts`,
`Ata` and `Loader` are stated with their theorems (section 6). For `Terminal`,
`Ustar`, `Storage`, `Descriptors` and `Shell` the other properties say more than a
type would: a pointer, index or block out of its range breaks a refinement there.

What some of these say. `UndisturbedWrite` compares a call of up to two dozen
steps, scrolling included, with one step of the tape, from *any* state a race
left behind. `OneGlyphSurvivesClear` bounds the damage of the race between
`scroll` and Ctrl+L. `ImplementsFifo` says the lock-free ring is a
queue although `head` and `tail` are read and written at different moments.
`EchoIsLine` is about the whole screen: the
prompt as it was found, the line, and blanks where backspace has erased.
`EmptyReadIsTheEnd` is about a read of stdin that finds no line typed and no rest of
an earlier one; every other read returns. `FrontFilesSurvive` is about all interleavings of cuts and lost sectors with a
flush; `TouchIsAtomic` says that `touch` is the one command that is all-or-nothing
on disk. `DirtyTracksDifferences` says that the dirty flags account for every
difference between memory and disk that a program can cause. `ExactCalls` and
`StuckDrive` divide what a late drive can do: a call that finds it at rest is as
good as its waits, and one that finds it at an earlier command may lose everything
with every wait succeeding. `TokensAreTheLine` says which stale pointers a
command can meet, and that they stay strings within `input`. `LoadedAsLinked` has
programs start as they were linked however often they ran, unless another one's bss
lies over the file.

**Bounds, and why they are enough.** A 3x2 screen makes every wrap and scroll one
or two calls away, and with three columns the first, an inner and the last one
differ; the word of 32 keeps the positions a backspace can wrap to apart from the
cells; the CRTC radix of 3 makes a position need both registers. A ring of 3 is
full after two characters and wraps at the third; in `terminal` a ring of 2 makes
typing ahead overflow at once. The program prints at most `MaxPrompt` columns in
front of the line, enough for a backspace too many to erase. `MaxLine` is a bound on the *typist*:
`readStdinLine` does not compare `pos` with its buffer (listed as a hazard), and
what a longer line overwrites is outside the model. Blocks of two bytes with sizes
0 to 3 take each case of `ceilDiv`: none, partial, full, two blocks. `RoomToTouch`
keeps `touch` off a full archive, because `tarTouch` does not ask and writes past
`tarBuf` (a hazard). `tarEdit` asks neither, and needs no bound on a sound archive, full ones
included: what it removes in front makes room for what it writes. On an archive a cut `rm` has left with a
name twice it may write a header that claims more blocks than are left; `FrontFilesSurvive` leaves the
commands that start from such an archive out (`FilesFit`, section 7). `MaxFaults` is 2 so that a
second fault can hit what the first left. `NoWrap` keeps `rwPos + count` below
`size_t`'s wrap, past which the code leaves the archive; 7 of 8 stands for
`(size_t)-1`. With `MoveWhileOpen = FALSE`, the guards `MayMove` and `MayReload` keep files where they are
while a descriptor is open; the run `stale` lifts them. `MaxTicks` and `MaxLines`
of 2 allow an edge that is lost on one still raised and a full ring. Line 14
stands for the slave's lines, 32 and 33 for a software call of each
handler, 40 for the default gate, 0 for a fault; vector 128 is excluded by an
assumption (a system call from the shell).

In `ata` three sectors differ in one byte of their address or in both, two words are a first and a last
one, two looks one that goes on waiting and one that gives up, and a command of two
sectors is one with a sector to come; nothing bounds the calls. In `shell` one line has more words than
there are slots, and the lines hold each command first, second and third, with and
without a blank in front. A word of three hexadecimal digits has every length of decimal and
octal text up to four characters; `DatesAreCalendar` needs no small instance. The archive of `library`
has a file in front of the programs, one under a program's bss and one past them,
and increments that fit, do not fit, sink the break and wrap. The conversions are made before
anything is loaded, since the two share no state.

Deadlock is checked except in `interrupts`, where the machine really stops: a
fault halts it, and a read with interrupts off waits for ever.

## 5. Fairness

- `console`, `terminal`: weak fairness of the main thread's steps. The kernel
  never blocks inside `writeChar`, and the processor returns to the main thread
  after each interrupt. Nothing is assumed of the typist or of new calls, and no
  bound on the number of interrupts: `CallReturns` says that even endless Ctrl+L
  cannot keep `scroll` from ending.
- `keyboard`: weak fairness of the caller's polling, the loop at `syscalls.c:87`.
- `interrupts`: weak fairness of handler steps, of the shell and of system calls;
  strong fairness of taking a raised line, because the processor looks for
  interrupts before each instruction while IF is set; and a user who keeps typing
  and ends lines, without whom reads need not return. The timer's edges are
  bounded (`MaxTicks`), which stands for handlers being long done before the next
  edge at 100 Hz. `InitIdt` is fair; the rest of boot, which waits for the
  drive, is not assumed to end, and the property does not need it to.
- `ata`: weak fairness of the driver's own loops. Nothing at all is assumed of the
  drive, so `CallEnds` says that no wait is without a limit.
- `archive`, `storage`, `descriptors`, `shell`, `library` state safety only.

## 6. The proofs

TLAPS proves the following for all values of the constants that satisfy the named
assumptions (`ConsoleAssumption`, `KeyboardAssumption`, `TerminalAssumption`,
`TypistAssumption`, `UstarAssumption`, `StorageAssumption`,
`DescriptorsAssumption`, `InterruptsAssumption`, `MaxTicksAssumption`,
`AtaAssumption`, `ShellAssumption`, `LoaderAssumption`, `ConversionsAssumption`). The
code's values satisfy each, and TLC evaluates each on the instances. The theorems about descriptors
have one hypothesis more, `~MoveWhileOpen`: no file moves while it is open. The
run `stale` shows that they are false without it. Every inductive invariant was
model-checked before it was proved.

- **KeyboardProofs**, the keyboard. `KeyboardTypeCorrect`; `ModifiersNeverStick`;
  `RingInvariant`: the slots from `tail` to `head` hold characters, never 0, and
  `getInput`'s copy is the slot's. The type invariant alone says nothing of
  *which* slots, so this is what makes `ReadSlotIsStable` inductive.
  `KeyboardImplementsFifo`: the ring refines `KeyFifo`. The argument is in lemmas
  about the ring read as a sequence: a store at `head` appends (`StoreAppends`),
  advancing `tail` drops the head (`AdvanceDropsHead`), and the ring refuses a
  character exactly when the queue is at capacity (`FullRing`); every step of the
  keyboard is then a `Press`, a `Take`, a `Hand` or a stutter.
- **KeyboardProofs**, the terminal. `LineInvariant`: which variables are set at which point of a
  read (`Places`), and that every character typed ahead will find room in the
  line it ends up in (`Bounded`). The second part is what keeps `stdinBuf[pos]`
  inside the buffer: the typist is bounded when a key is struck, `pos` grows only
  when the ring is drained, any number of steps later. With the ring's
  invariant, kept inside the terminal because every step of the terminal is a
  step of the keyboard or leaves it alone, it gives `TerminalIsLineDiscipline`: a
  key that stores is an `Arrive`, `tail++` a `Take`, the cases of `readStdinLine`'s
  loop an `Edit`, the copy a `Deliver`, and every step of echoing and of the
  screen a stutter, Ctrl+L in the interrupt included. It holds for a typist
  whose line, with what is typed ahead of it, fits `stdinBuf` (`Fits`); a longer
  one is section 8's. `ScreenShowsLine` (`EchoInv`): when the driver polls, the
  screen shows what stood in front of the line, the line, and blanks behind it
  (`Shown`); while it echoes, the console is under way, at whatever access, to an
  outcome that shows it. Each echo is a step of
  the tape (below), begun on a screen that shows the line before. A glyph lengthens
  the line, even if it makes the screen wrap and scroll (`GlyphShown`); a backspace
  shortens it, even back over the end of a row (`BackspaceShown`), and leaves a blank;
  neither touches another cell (`GlyphFramed`, `BackspaceFramed`), and `found`
  forgets just what scrolls off (`Forgets`).
  `ReadsRunDown`: with a newline in the ring, each step of the main thread either
  brings it up by a character or lowers `StepsLeft`, a natural number (the steps of the
  round of `readStdinLine`'s loop, and the accesses `writeChar` still makes);
  keys struck meanwhile and Ctrl+L change neither.
- **ConsoleProofs.** `ConsoleInvariant`: from the wrap test on the column is on
  the screen, from scroll's pin on the row is, and scroll's index stays below the
  last row. `CursorHealed` is not inductive: in the middle of a call the cursor
  may be anywhere in the word. `ConsoleTypeCorrect` shows that no arithmetic
  leaves the word and `scroll` touches only cells; `CursorAlwaysHeals` is the
  property. Its second part proves the console's other four properties, one invariant each
  over `ConsoleInv`. `StoresStayOnScreen` (`StoreInv`): the cursor is
  *aimed* at a cell whenever no Ctrl+L came in, and the places where one can
  come between a test and a decrement are exactly those where a backspace's
  offset may be under the screen. `CursorIsShown` (`HwInv`): which register is
  selected, and what the other one holds, at each of the four port accesses.
  `ClearKeepsOneGlyph` (`SurvivorInv`): after the clear the screen holds at most
  one glyph, and while it holds one, `cursorY` is too small for a second call of
  `scroll` to spread it. `WritesAreTapeSteps` (`Steady`
  and `Tape(e)`): at each point of a call, how the outcome `e` follows from what the
  call has done so far - for scroll, from the rows copied and the rows to come. The
  outcome is a fixed value there and not a history variable, so that the terminal can
  use the same lemmas. `CallsRunDown`: each access of a call lowers `AccessesLeft`,
  Ctrl+L leaves it, and a call starts with at most 23 and two for each cell that
  scroll copies.
- **StorageProofs**, the walk. `tarNext`, `tarFind`, `tarGetEnd` and `tarList` are
  recursive functions over the blocks. That each has a value and satisfies its
  equation is proved for walks in general (`RecursionDown`, `WalkRecursion`), by
  induction in the form of a least counterexample (`LeastNatural`, `Induction`).
  From then on a walk is a *set* of blocks (`IsWalk`): it starts at 0, is closed under
  `tarNext`, and ends where nothing valid follows. `Archive` says that the
  walk meets exactly the headers, that no name occurs twice and that zeros follow
  the end. `TouchKeepsArchive`,
  `RemoveKeepsArchive` and `EditKeepsArchive` show the operations to keep it,
  `LayoutIsLaidWell` that what `tar` lays out has it. `BufferIsArchive` is the
  invariant, `NothingIsBehindTheEnd` a consequence and `ArchiveIsFileList` the
  refinement of `FileList`: `tarTouch` appends a file (`TouchAppendsFile`), and
  `tarRm`'s moving of blocks drops one from the list and leaves the order of the
  others (`RemoveDropsFile`).
- **StorageProofs**, the disk. `LoopInvariant`: a load or flush that has lost nothing has
  made buffer and disk equal *below its index*, and between loops they are equal;
  the phases left (`Todos`) always end with a flush if an edit is among them.
  `PromptInStep` follows: at the prompt, memory is what is on disk, for every
  archive size and any number of power losses. After a fault the buffer need
  be no `Archive` at all, so `HistoryInvariant` is about any blocks: those in front of
  the file a command is about are the same on disk as before the command, at
  every step of its flush (`FrontKept`, from `EditsKeepFront`), and a `touch` writes
  one header, so that the disk is the old buffer or the new one (`TouchKept`).
  `FrontSurvives` and `TouchAllOrNothing` follow because a walk sees a file in
  front by the blocks in front of it alone (`WalksAgree`, `FrontFound`).
  `ListingFromDisk` says that what `rm` lists is what the disk holds.
- **DescriptorsProofs.** `DInv`, under `~MoveWhileOpen`: buffer and disk, but for the one being
  copied into, are archives of headers and blocks of bytes (`Whole`), every open descriptor's `data` is behind the header of its name and its
  position within the file (`FdsPoint`), disk and buffer have the same headers
  when nothing is unsaved (`Saved`), a loop has done the sectors below its index
  (`Copies`), and edits are made while nothing is open (`Turns`). `FdPointsRight` and `DirtyIsEnough` are its parts. The heart is
  `StoreWritesBytes`: bytes written at a position are those bytes of the file and no
  byte of another, although the code writes into blocks through a pointer; it rests on
  quotients and remainders of positions by the sector (`DivModUnique`,
  `StoredBlocks`). `DescriptorsAreFileStore`: the descriptors refine `FileStore`, whose
  files are sequences of bytes; `open`, `read`, `write` and `close` map to its
  operations with the clipping of counts (`ClippedFits`), what happens between programs
  to its `Outside`, and a flush under a running program to a stutter.
- **InterruptsProofs.** `MachineInvariant` has four parts: which program point
  each handler can be at, which lines are in service at each point, which flags
  each context will return with, and the timer's account. From it
  `InterruptsTypeCorrect`, `EveryLineIsEnded`, `UptimeIsAccounted`,
  `ProgramsHearTheMachine` and `EmptyReadsNeverEnd`: a read of stdin that finds no line
  typed and none left to read out stays where it is, since IF is clear, nothing is
  in service and only the keyboard's handler could type a line.
- **AtaProofs.** The invariant is `Types` (which calls each point of the driver
  belongs to), `Status` (BSY, DRQ and the command behind them), `Filled` (the
  drive's buffer, from its first word to its index, holds the words of the call
  that is sending them), `Exact` (a call that found the drive at rest owns its
  registers - the two bytes of the address make up its sector, `Bytes` -, buffer and command up to whatever trouble it has) and `Stuck` (one
  that found it asking leaves it asking). From it `SectorsStayWhole`,
  `QuietCallsAreExact` and `LateDriveStaysStuck`, for every size of sector, limit
  and way of being late. `CallsRunDown`: each step of the driver lowers `WorkLeft` (the looks
  left to the present wait, the words left of the sector, and what the points behind
  take at most), the drive's steps leave it, and a call starts with at most
  `WORDS + 4 * TIMEOUT + 5`.
- **LibraryProofs**, programs. `Laid` is the heart: every cell of a segment already loaded
  holds what the *last of the loaded segments with that cell* says - the loop itself
  gives the witness, so no induction over the segments is needed. With `Granting`
  (grants lie below the break) and `FilesOutliveLoads`, itself inductive, it gives
  `ProgramsStartAsLinked`, `FilesStay` and `GrantsStayApart`.
- **LibraryProofs**, numbers. A row of digits `Reads` a number if there is a second row, what
  the digits up to each of them denote (`Row`). What `intToStr` and `hexToStr`
  write reads the number (`NumeralReads`, `ReadsPadded`) and takes no more digits
  than a word has (`NumeralShort`); `atoi` and the hexadecimal's meaning go along
  that row (`atoiReads`, `DenotedReads`). `bin2oct_padded` and `oct2bin` drop what
  does not fit at different ends: what is cut at each digit is cut in the end
  (`SignedDigit`), so `FieldReads` has the same remainder on both sides.
  `getTotalMem` wraps nothing while the sum fits a word (`TotalReads`). That powers,
  numerals, what is left of a field's number and the sum have a value and satisfy
  their equations is one lemma (`Recursion`: the arguments go down); for the
  functions that read, the second row is that value (`SameRow`).
  `NumbersAreRight` states it for every number, width and size of word.
- **LibraryProofs**, dates. `unix2date` is two loops over stretches of days, years
  and months. For stretches in general (`Stretches`), such a loop ends
  (`SteppingEnds`) in the one that holds the day, having lost and gained none
  (`SteppingReaches`). The lengths the code takes for years and months are those
  of the calendar's count (`LeapCounted`, `MonthsStretch`), and `DatesAreRight` follows for every
  number of days.
- **ShellProofs.** `Ranks` counts: the members of a finite set of numbers, each taken to
  how many are below it, are numbered 0, 1, ... without gaps. With it, `tokenize`'s
  starts and the words of the line are the same in number and order
  (`RunsAreCounted`, `TokenizeFindsWords`), although tokenizing has by then replaced the
  blanks it looks for. The invariant (`SInv`): `input` always holds an end of string, a
  slot below `tokenCount` is a word of the line (`Found`), one above is zero or
  points to a string within `input` (`Stale`), and what is left on
  `stdin` is nothing while a command runs and otherwise the rest of a text.
  `CommandsSeeTheirLine` and `OnlyTextIsRun` follow.

Only model-checked: the five liveness properties, `CallReturns`, `EveryKeyDelivered`,
`EnterCompletesRead`, `KeyboardIsServed` and `CallEnds`, because fairness and ENABLED
are out of this prover's reach. Nothing is assumed in their place. For `CallReturns`,
`EnterCompletesRead` and `CallEnds` the half that is about every size is proved: what
is counted down, and that nobody else's step counts it up (`CallsRunDown` of the
console and of the driver, `ReadsRunDown`). What TLC alone shows is that the thread
always *has* a step to take before the end, and fairness then takes it. Every safety property that a run checks is proved, for
every value of the constants.

## 7. Disagreements

Two runs check one sentence of a comment each and find that the code does not do
it.

- **stale** - `fd.c:42` exposes the file's data; the pointer is raw, and a file
  moved or removed while it is open leaves it on something else.
- **result** - `int80.asm:37` says eax holds the return value. The pops reload it
  from the slot it was pushed to on entry: the program gets the call's number.

Other behaviour that may surprise is *stated* by properties that hold:

- A backspace that tests `cursorX > 0`, is interrupted by Ctrl+L and then
  decrements stores its blank off the screen (`PutOnScreen`, `io.c:203`).
- `echo >` and `cat >` leave an empty file: `tarEdit` returns when `tarTouch` says
  that it made one (`ImplementsFileList` with `FileList!Edit`, `ustar.c:261`).
- A program's read of stdin polls with interrupts off and never ends unless a line was
  typed before the call or is left from an earlier read (`EmptyReadIsTheEnd`,
  `idt.c:102`, `syscalls.c:87`); after an exit the shell is in the same state
  (`ProgramsAreInterruptible`).
- `stdinBufLen` "excludes null term and newline", says `syscalls.c:106`. It counts the
  newline, and reads hand it out as the last character of each line
  (`ImplementsLineDiscipline` with `LineDiscipline!Edit`). The other code relies on it:
  `scanf` sees where a line ends, and an empty line is still something to read.
- FLUSH is sent to a drive that may still be busy, which ignores it, or that has
  failed, whose error it clears (`ExactCalls`, `ata.c:121`). A drive that answers
  after a wait gave up makes later calls fail silently (`StuckDrive`).
- An empty line runs the first word of the line before; words behind the first of
  a text for `echo >` run as a command; a command behind `clear` may see an
  argument of an earlier line (`TokensAreTheLine`, `OnlyTextIsLeftOver`).
- After a power loss inside `rm`'s flush a name may be there twice; an `echo >` to
  it removes one and, because `tarEdit` does not ask whether there is room
  (`ustar.c:262`), writes into the header of the other a size that may reach past `tarBuf`. The next `rm`
  of it clears blocks in front of it (`ustar.c:228`). `FrontFilesSurvive` therefore
  says what it says of commands that start from files that fit.
- The least int is printed as a lone sign (`NumbersSurvive`, `io.c:272`).
- A program whose bss reaches over the archive's last files destroys them, on disk
  too at the next flush (`FilesOutliveLoads`, `app.ld:4`); the heap's break is not
  reset between programs and may sink below the heap (`GrantsApart`, `mem.c:14`).

## 8. What is not modelled

- **Segments and task state (`gdt.c`), PIT divisor, IDT bytes, the real-mode
  loader**: tables written once before anything can interleave; nothing changes
  them later. Ticks that come before the divisor is set count like others.
- **`ataGetSectorCount`, `advanceCursor`, `bin2oct`, the `fmtGet` family**: called by
  nothing in the kernel or its programs. **`enableCursor`, `disableCursor`,
  `getUsedMem`, `supports64bit`**: change no state the models have.
- **Directories**: compiled out (`NO_DIR`).
- **What lies behind a buffer**: overruns of `stdinBuf` and of the shell's `input`
  by a long line, of `tarBuf` by `touch`, and of a file by a wrapped count are
  bounded away and listed as hazards or in section 4, since their effect is the linker's choice.
- **A drive that answers late under a whole load or flush**: `Storage`'s drive
  fails or stays silent; late ones are `Ata`'s, one sector at a time.
- **The direction in which `tarRm` copies** (`ustar.c:225`): the move is one step of all
  blocks (`Removed`); that a loop running upwards does the same in place is read off
  the code.
- **Negative descriptors** given to `read` or `write`, which take them for slots in front
  of the table (`fd.c:61`), and **`O_TRUNC` on a full table**, which empties the file
  and fails: files are emptied in `descriptors` only while nothing is open.
- **A sum of memory past 32 bits**: `getTotalMem` cuts it off (`sys.c:45`), and
  `NumbersSurvive` speaks only of sums that fit.
- **`fflush(stdin)`** is the library's: that it drops the newline `scanf` has put back,
  although stdin has no flush of its own (`syscalls.c:158`), is taken from the comment
  at `sh.c:48`. `TokensAreTheLine` and `OnlyTextIsLeftOver` rest on it.
- **What commands print**, but for the numbers and dates.
- **Applications**: stubs around `int 0x80`; programs are the environment.
- **`*.old` sources and unused headers**: not compiled.

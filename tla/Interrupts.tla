------------------------------- MODULE Interrupts -------------------------------
(***************************************************************************)
(* How control moves between the shell, user programs, interrupt handlers  *)
(* and system calls: src/src/idt.c, interrupts.asm, int80.asm, ring3.asm   *)
(* and the dispatcher of syscalls.c, over the two interrupt controllers.   *)
(*                                                                         *)
(* The controllers are modelled from how remapPic sets them up: fixed      *)
(* priorities, nothing masked, an end of interrupt (EOI) that clears the   *)
(* highest line in service.  Every gate clears IF, so handlers do not nest.*)
(***************************************************************************)
EXTENDS Integers

CONSTANTS
  Lines,     \* the interrupt lines devices raise
  SoftInts,  \* the vectors panic is given
  Calls,     \* the numbers programs pass to int 0x80
  MaxLines   \* bound on the lines typed ahead of a reader

TIMER == 0
KEYBOARD == 1
CASCADE == 2

\* syscall_nums.h, and picolibc's ENOSYS
SYS_read   == 2
SYS_lseek  == 4
SYS_fstat  == 5
SYS_isatty == 6
SYS_getpid == 7
SYS_kill   == 8
SYS_exit   == 9
SYS_sbrk   == 10
SYSCALL_COUNT == 18
ENOSYS == 88

\* The vectors initIdt points at a fault's stub
FaultVectors == {0, 1} \cup (4 .. 8) \cup (10 .. 14) \cup {16, 17, 19, 21, 34}

ASSUME InterruptsAssumption ==
  /\ {TIMER, KEYBOARD} \subseteq Lines /\ Lines \subseteq (0 .. 15) \ {CASCADE}
  /\ SoftInts \subseteq (0 .. 255) \ {128}
  /\ Calls \subseteq Nat /\ MaxLines \in Nat \ {0}

VARIABLES
  mode,        \* who has the CPU below any handler
  intr,        \* the interrupt flag, IF
  handler,     \* the handler running, or "none"
  hpc,         \* where it is
  savedIF,     \* IF in the EFLAGS the handler will return to
  master, slave,  \* the lines in service at each controller
  irr,         \* the lines raised and not yet taken
  sysTicks,
  typed,       \* lines in the keyboard ring
  lineReady,   \* stdinLineReady: a line was taken from the ring and not read out
  eax,         \* the accumulator
  frame        \* int80Handler's frame: the eax slot, whether ebx is 0, EFLAGS' IF

cpuVars     == <<mode, intr, eax, frame>>
handlerVars == <<handler, hpc, savedIF>>
picVars     == <<master, slave, irr>>
lineVars    == <<typed, lineReady>>
machineVars == <<cpuVars, handlerVars, picVars, sysTicks, lineVars>>

Least(S) == CHOOSE n \in S : \A m \in S : n <= m

InterruptsInit ==
  /\ mode = "boot" /\ intr = FALSE /\ eax = 0
  /\ frame = [eax |-> 0, stdin |-> FALSE, intr |-> TRUE]
  /\ handler = "none" /\ hpc = "done" /\ savedIF = TRUE
  /\ master = {} /\ slave = {} /\ irr = {}
  /\ sysTicks = 0 /\ typed = 0 /\ lineReady = FALSE

-----------------------------------------------------------------------------
(* The controllers *)

OnMaster(n) == IF n < 8 THEN n ELSE CASCADE

\* Lines 8 to 15 come in on line 2 of the master.
Before(m, n) == OnMaster(m) < OnMaster(n) \/ (OnMaster(m) = OnMaster(n) /\ m < n)

Taken(n) ==
  /\ n \in irr
  /\ \A m \in irr \ {n} : Before(n, m)
  /\ \A s \in master : OnMaster(n) < s
  /\ n >= 8 => \A s \in slave : n < s

\* An EOI clears the highest-priority line in service, if any.
Eoi(S) == IF S = {} THEN {} ELSE S \ {Least(S)}

\* Variant: the timer keeps isrDefault.
GateForgotten(n) == IF n = KEYBOARD THEN "keyboard" ELSE "default"

\* initIdt's gates: irq0, irq1, and isrDefault for every other line
Gate(n) == CASE n = TIMER    -> "timer"
             [] n = KEYBOARD -> "keyboard"
             [] OTHER        -> "default"

Enter(h) ==
  /\ handler' = h /\ hpc' = "entered"
  /\ savedIF' = intr /\ intr' = FALSE
  /\ UNCHANGED <<mode, eax, frame, sysTicks, lineVars>>

CanInterrupt == handler = "none" /\ intr

\* The CPU takes the highest line raised.
Interrupt(n) ==
  /\ CanInterrupt /\ Taken(n)
  /\ irr' = irr \ {n}
  /\ master' = master \cup {OnMaster(n)}
  /\ slave' = IF n >= 8 THEN slave \cup {n} ELSE slave
  /\ Enter(Gate(n))

\* A line dropped before it was taken: the controller answers with its last
\* vector, and puts nothing in service but the cascade.
Spurious ==
  /\ CanInterrupt /\ irr = {} /\ master = {}
  /\ master' \in {{}, {CASCADE}}
  /\ UNCHANGED <<slave, irr>>
  /\ Enter("default")

-----------------------------------------------------------------------------
(* The handlers: interruptDispatcher and what it calls *)

InHandler(h, pc) == handler = h /\ hpc = pc

picRest == <<cpuVars, handler, savedIF>>

\* Variant: only int_no's own controller is told, and the sentinel is none.
SlaveEoiSkipped ==
  /\ InHandler("default", "entered")
  /\ slave' = slave /\ hpc' = "eoi"
  /\ UNCHANGED <<picRest, master, irr, sysTicks, lineVars>>

\* The sentinel 0xFF is above 40: the slave is always told, then the master.
SlaveEoi ==
  /\ InHandler("default", "entered")
  /\ slave' = Eoi(slave) /\ hpc' = "eoi"
  /\ UNCHANGED <<picRest, master, irr, sysTicks, lineVars>>

\* Variant: Ctrl's branch returns before end and its EOI.
KeyCodeUnended(ends) ==
  /\ InHandler("keyboard", "entered") /\ (ends => typed < MaxLines)
  /\ typed' = IF ends THEN typed + 1 ELSE typed
  /\ hpc' = IF ends THEN "eoi" ELSE "return"
  /\ UNCHANGED <<picRest, picVars, sysTicks, lineReady>>

\* keyboardHandler: the scan code ends a line, if there is room, or does not.
KeyCode(ends) ==
  /\ InHandler("keyboard", "entered") /\ (ends => typed < MaxLines)
  /\ typed' = IF ends THEN typed + 1 ELSE typed
  /\ hpc' = "eoi"
  /\ UNCHANGED <<picRest, picVars, sysTicks, lineReady>>

MasterEoi ==
  /\ hpc = "eoi" \/ InHandler("timer", "entered")
  /\ master' = Eoi(master)
  /\ hpc' = IF handler = "timer" THEN "tick" ELSE "return"
  /\ UNCHANGED <<picRest, slave, irr, sysTicks, lineVars>>

Tick ==
  /\ InHandler("timer", "tick")
  /\ sysTicks' = sysTicks + 1
  /\ hpc' = "return"
  /\ UNCHANGED <<picRest, picVars, lineVars>>

\* iretd
Return ==
  /\ hpc = "return"
  /\ handler' = "none" /\ hpc' = "done" /\ intr' = savedIF
  /\ UNCHANGED <<mode, eax, frame, savedIF, picVars, sysTicks, lineVars>>

\* fault: the machine stops with interrupts off.
Fault ==
  /\ handler = "fault"
  /\ mode' = "halted" /\ handler' = "none" /\ hpc' = "done"
  /\ UNCHANGED <<intr, eax, frame, savedIF, picVars, sysTicks, lineVars>>

HandlerStep == SlaveEoi \/ (\E e \in BOOLEAN : KeyCode(e)) \/ MasterEoi \/ Tick \/ Return \/ Fault

-----------------------------------------------------------------------------
(* Boot, and the shell *)

Runs(m) == handler = "none" /\ mode = m

\* initIdt, up to loadIdt's sti.  remapPic's first byte makes both controllers
\* start anew: what was in service or raised is forgotten.
InitIdt ==
  /\ Runs("boot")
  /\ mode' = "booting" /\ intr' = TRUE
  /\ master' = {} /\ slave' = {} /\ irr' = {}
  /\ UNCHANGED <<eax, frame, handlerVars, sysTicks, lineVars>>

\* The rest of kmain, which reads the disk with interrupts on
Booted ==
  /\ Runs("booting")
  /\ mode' = "shell"
  /\ UNCHANGED <<intr, eax, frame, handlerVars, picVars, sysTicks, lineVars>>

\* readStdinLine takes a line from the ring, once there is one.
NextLine == ~lineReady /\ typed > 0 /\ typed' = typed - 1

\* scanf reads a command line to its end: what a read before it left of its
\* line, else the next one.
CommandLine ==
  /\ (lineReady /\ typed' = typed) \/ NextLine
  /\ lineReady' = FALSE

\* Every other command comes back to the prompt.
ShellCommand ==
  /\ Runs("shell") /\ CommandLine
  /\ UNCHANGED <<cpuVars, handlerVars, picVars, sysTicks>>

\* cat > and echo > take one word of a line of their own and leave the rest, be
\* it only the end of the line, which scanf puts back.  Blank lines before it are
\* taken and leave nothing, as a command line does.
TextLine ==
  /\ Runs("shell") /\ NextLine /\ lineReady' \in BOOLEAN
  /\ UNCHANGED <<cpuVars, handlerVars, picVars, sysTicks>>

\* enterUsermode pushes EFLAGS as they are: the program has the shell's IF.
RunProgram ==
  /\ Runs("shell") /\ CommandLine
  /\ mode' = "user"
  /\ UNCHANGED <<intr, eax, frame, handlerVars, picVars, sysTicks>>

\* The gates as int n finds them
SoftGate(n) == CASE n = 32 -> "timer"
                 [] n = 33 -> "keyboard"
                 [] n \in FaultVectors -> "fault"
                 [] OTHER -> "default"

\* panic: int n from the kernel, with no line in service; without a number,
\* userPanic's int 34
Panic(n) ==
  /\ Runs("shell") /\ CommandLine
  /\ handler' = SoftGate(n) /\ hpc' = "entered"
  /\ savedIF' = intr /\ intr' = FALSE
  /\ UNCHANGED <<mode, eax, frame, picVars, sysTicks>>

\* reboot pulses the processor's reset: the kernel is loaded anew and starts
\* with interrupts off.  Nothing clears bss: sysTicks and the ring, whose
\* initial values are zeros, may be found as they were.
Reboot(kept) ==
  /\ Runs("shell") /\ (typed > 0 \/ lineReady)
  /\ mode' = "boot" /\ intr' = FALSE
  /\ sysTicks' = IF kept THEN sysTicks ELSE 0
  /\ typed' = CASE ~kept -> 0 [] lineReady -> typed [] OTHER -> typed - 1
  /\ lineReady' = FALSE
  /\ master' = {} /\ slave' = {} /\ irr' = {}
  /\ UNCHANGED <<eax, frame, handlerVars>>

-----------------------------------------------------------------------------
(* Programs and their system calls *)

\* Variant: a trap gate, which leaves IF.
Int80Trap(nr, stdin) ==
  /\ Runs("user")
  /\ mode' = "syscall" /\ eax' = nr
  /\ frame' = [eax |-> nr, stdin |-> stdin, intr |-> intr]
  /\ UNCHANGED <<intr, handlerVars, picVars, sysTicks, lineVars>>

\* int 0x80 through an interrupt gate: eax is pushed twice.  ebx, a read's
\* descriptor, is that of stdin or another.
Int80(nr, stdin) ==
  /\ Runs("user")
  /\ mode' = "syscall" /\ eax' = nr
  /\ frame' = [eax |-> nr, stdin |-> stdin, intr |-> intr] /\ intr' = FALSE
  /\ UNCHANGED <<handlerVars, picVars, sysTicks, lineVars>>

\* A program's own fault: an exception's gate
ProgramFaults ==
  /\ Runs("user")
  /\ handler' = "fault" /\ hpc' = "entered"
  /\ savedIF' = intr /\ intr' = FALSE
  /\ UNCHANGED <<mode, eax, frame, picVars, sysTicks, lineVars>>

\* What the calls that only return give back; open, close, write and sbrk
\* stand for failure, nothing and something.
Results(nr) == CASE nr >= SYSCALL_COUNT -> {-ENOSYS}
                 [] nr \in {SYS_lseek, SYS_kill} \/ nr > SYS_sbrk -> {-1}
                 [] nr = SYS_fstat  -> {0}
                 [] nr = SYS_isatty -> {0, 1}
                 [] nr = SYS_getpid -> {1}
                 [] OTHER           -> {-1, 0, 1}

\* kread_impl.  A read of stdin ends at once while a line is not read out; else
\* readStdinLine polls the ring, and there is no step until a line is in it.
\* count decides whether some of the line is left; a count of 0 takes nothing.
ReadStdin ==
  /\ Runs("syscall") /\ frame.eax = SYS_read /\ frame.stdin
  /\ (lineReady /\ typed' = typed) \/ NextLine
  /\ lineReady' \in BOOLEAN
  /\ eax' \in {0, 1} /\ (eax' = 0 => lineReady') /\ mode' = "sysret"
  /\ UNCHANGED <<intr, frame, handlerVars, picVars, sysTicks>>

\* Any other descriptor goes to fd.c's read, which waits for nothing.
ReadFile ==
  /\ Runs("syscall") /\ frame.eax = SYS_read /\ ~frame.stdin
  /\ eax' \in {-1, 0, 1} /\ mode' = "sysret"
  /\ UNCHANGED <<intr, frame, handlerVars, picVars, sysTicks, lineVars>>

\* sys_exit calls the shell, which does not return.
ExitCall ==
  /\ Runs("syscall") /\ frame.eax = SYS_exit
  /\ mode' = "shell"
  /\ UNCHANGED <<intr, eax, frame, handlerVars, picVars, sysTicks, lineVars>>

OtherCall ==
  /\ Runs("syscall") /\ frame.eax \notin {SYS_read, SYS_exit}
  /\ eax' \in Results(frame.eax) /\ mode' = "sysret"
  /\ UNCHANGED <<intr, frame, handlerVars, picVars, sysTicks, lineVars>>

\* Variant: EFLAGS are not taken back from the frame.
SysReturnMasked ==
  /\ Runs("sysret")
  /\ eax' = frame.eax /\ mode' = "user"
  /\ UNCHANGED <<intr, frame, handlerVars, picVars, sysTicks, lineVars>>

\* The pops load eax from its slot; iret restores EFLAGS.
SysReturn ==
  /\ Runs("sysret")
  /\ eax' = frame.eax /\ intr' = frame.intr /\ mode' = "user"
  /\ UNCHANGED <<frame, handlerVars, picVars, sysTicks, lineVars>>

KernelStep == ReadStdin \/ ReadFile \/ ExitCall \/ OtherCall \/ SysReturn

-----------------------------------------------------------------------------
(* The devices *)

\* An edge; one that finds its line still raised is lost.
Raise(n) ==
  /\ irr' = irr \cup {n}
  /\ UNCHANGED <<cpuVars, handlerVars, master, slave, sysTicks, lineVars>>

=============================================================================

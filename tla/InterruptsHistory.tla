--------------------------- MODULE InterruptsHistory ---------------------------
(***************************************************************************)
(* The machine of Interrupts, with what has happened to it: the timer's    *)
(* edges, the ticks a panic command made, whether a program has exited,    *)
(* and what the last system call computed.                                 *)
(***************************************************************************)
EXTENDS Interrupts

CONSTANTS MaxTicks  \* bound on the timer's edges, and on the shell's own

ASSUME MaxTicksAssumption == MaxTicks \in Nat

VARIABLES
  edges,   \* the timer's edges
  lost,    \* those that came while one was already raised
  soft,    \* the panic 32 commands
  exited,  \* a program has called exit
  result   \* what the last call to return computed

ghosts == <<edges, lost, soft, exited, result>>
vars == <<machineVars, ghosts>>

Init ==
  /\ InterruptsInit
  /\ edges = 0 /\ lost = 0 /\ soft = 0 /\ exited = FALSE /\ result = 0

(* The devices *)

TimerEdge ==
  /\ edges < MaxTicks /\ edges' = edges + 1
  /\ lost' = IF TIMER \in irr THEN lost + 1 ELSE lost
  /\ Raise(TIMER)
  /\ UNCHANGED <<soft, exited, result>>

Edge(n) == n # TIMER /\ n \notin irr /\ Raise(n) /\ UNCHANGED ghosts

(* Boot and reboot *)

\* Raised lines are dropped, the timer's too.
StartInterrupts ==
  /\ InitIdt
  /\ lost' = IF TIMER \in irr THEN lost + 1 ELSE lost
  /\ UNCHANGED <<edges, soft, exited, result>>

\* The account starts anew, or goes on with the memory it is of.
StartAnew(kept) ==
  /\ Reboot(kept)
  /\ edges' = IF kept THEN edges ELSE 0
  /\ soft' = IF kept THEN soft ELSE 0
  /\ lost' = IF ~kept THEN 0 ELSE IF TIMER \in irr THEN lost + 1 ELSE lost
  /\ exited' = FALSE
  /\ UNCHANGED result

(* The processor *)

PanicCommand(n) ==
  /\ n = 32 => soft < MaxTicks
  /\ soft' = IF n = 32 THEN soft + 1 ELSE soft
  /\ Panic(n)
  /\ UNCHANGED <<edges, lost, exited, result>>

KernelAction ==
  /\ KernelStep
  /\ exited' = (exited \/ mode' = "shell")
  /\ result' = IF mode' = "sysret" THEN eax' ELSE result
  /\ UNCHANGED <<edges, lost, soft>>

Take(n) == Interrupt(n) /\ UNCHANGED ghosts
KeyEndsLine == KeyCode(TRUE) /\ UNCHANGED ghosts

Plain ==
  /\ HandlerStep \/ Spurious \/ Booted \/ ShellCommand \/ TextLine \/ RunProgram
     \/ ProgramFaults \/ \E nr \in Calls, stdin \in BOOLEAN : Int80(nr, stdin)
  /\ UNCHANGED ghosts

Next ==
  \/ TimerEdge \/ \E n \in Lines : Edge(n) \/ Take(n)
  \/ StartInterrupts \/ (\E kept \in BOOLEAN : StartAnew(kept))
  \/ Plain \/ KernelAction \/ \E n \in SoftInts : PanicCommand(n)

\* The processor runs what is in front of it and takes a raised line before
\* its next instruction; the user types, and ends lines.  Nothing says that
\* the rest of boot ends: it waits for the drive.
Fairness ==
  /\ WF_vars(StartInterrupts)
  /\ WF_vars((HandlerStep \/ ShellCommand) /\ UNCHANGED ghosts)
  /\ WF_vars(KernelAction)
  /\ SF_vars(\E n \in Lines : Take(n))
  /\ SF_vars(KeyEndsLine) /\ WF_vars(Edge(KEYBOARD))

Spec == Init /\ [][Next]_vars /\ Fairness

-----------------------------------------------------------------------------
Handlers == {"timer", "keyboard", "default", "fault"}

\* The registers hold what the code can put in them.
InterruptsTypeOK ==
  /\ mode \in {"boot", "booting", "shell", "user", "syscall", "sysret", "halted"}
  /\ intr \in BOOLEAN /\ savedIF \in BOOLEAN
  /\ handler \in Handlers \cup {"none"}
  /\ hpc \in {"entered", "eoi", "tick", "return", "done"}
  /\ handler = "none" <=> hpc = "done"
  /\ master \subseteq 0 .. 7 /\ slave \subseteq 8 .. 15 /\ irr \subseteq Lines
  /\ sysTicks \in Nat /\ typed \in 0 .. MaxLines /\ lineReady \in BOOLEAN
  /\ eax \in Int /\ frame \in [eax : Calls \cup {0}, stdin : BOOLEAN, intr : BOOLEAN]

\* Every handler tells each controller what it took from it: when the machine
\* is out of its handlers no line is in service at either, whichever came
\* before and whatever int n the shell gave itself.  A line left in service
\* would shut out every line below it for good.
NothingLeftInService == handler = "none" => master = {} /\ slave = {}

\* sysTicks accounts for every edge of the timer but those lost on a line
\* still raised, and for nothing else but panic 32.
InTimer == handler = "timer" /\ hpc # "return"
One(b) == IF b THEN 1 ELSE 0

TicksAccounted ==
  sysTicks + One(TIMER \in irr) + One(InTimer) + lost = edges + soft

\* Until a program has exited, programs run with interrupts on, so that the
\* timer counts and the keyboard is read under them.
ProgramsAreInterruptible == mode = "user" /\ handler = "none" /\ ~exited => intr

\* A read of stdin with no line typed ahead and nothing left of an earlier one
StarvedRead ==
  mode = "syscall" /\ frame.eax = SYS_read /\ frame.stdin /\ ~lineReady /\ typed = 0

\* A scan code is taken off the keyboard, unless the machine has halted, an
\* exit has left the shell with interrupts off or a read is waiting so.
KeyboardIsServed ==
  KEYBOARD \in irr ~> KEYBOARD \notin irr \/ mode = "halted" \/ exited \/ StarvedRead

\* int80Handler (int80.asm:37): eax holds the return value when the call is
\* back in the program.
ReturnValue == [][mode = "sysret" /\ mode' = "user" => eax' = result]_vars

\* A starved read waits for ever: int 0x80 clears IF, readStdinLine polls, and
\* nothing that could type a line or end the wait runs any more (idt.c:102,
\* syscalls.c:87).
EmptyReadIsTheEnd == [][StarvedRead => StarvedRead' /\ handler' = "none"]_vars
=============================================================================

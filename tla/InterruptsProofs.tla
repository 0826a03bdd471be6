--------------------------- MODULE InterruptsProofs ---------------------------
(***************************************************************************)
(* For every set of lines, calls, software interrupts and bounds: no line  *)
(* is left in service, the ticks are accounted for, and programs run with  *)
(* interrupts on until one exits.                                          *)
(***************************************************************************)
EXTENDS InterruptsHistory, TLAPS

\* Where each handler can be
Path ==
  /\ hpc = "eoi" => handler \in {"default", "keyboard"}
  /\ hpc = "tick" => handler = "timer"
  /\ handler = "fault" => hpc = "entered"

\* What each controller has in service as a handler runs: one line at most,
\* and none once it was told.
InService ==
  /\ \E m \in 0 .. 15 : master \subseteq {m}
  /\ \E s \in 0 .. 15 : slave \subseteq {s}
  /\ hpc \in {"tick", "return", "done"} \/ handler = "fault" => master = {}
  /\ slave # {} => handler = "default" /\ hpc = "entered"

\* Interrupts are off in handlers and calls, and each returns to what it found.
Masking ==
  /\ handler # "none" => ~intr /\ mode \in {"booting", "shell", "user"}
  /\ mode \in {"boot", "syscall", "sysret", "halted"} => ~intr
  /\ mode \in {"syscall", "sysret"} /\ ~exited => frame.intr
  /\ mode \in {"booting", "shell", "user"} /\ ~exited =>
       IF handler = "none" THEN intr ELSE savedIF

Counters == edges \in Nat /\ lost \in Nat /\ soft \in Nat /\ exited \in BOOLEAN

IInv ==
  /\ InterruptsTypeOK /\ Counters
  /\ Path /\ InService /\ Masking /\ TicksAccounted

-----------------------------------------------------------------------------
\* A line has a number, and comes in on one of the master's.
LEMMA LineNumbers ==
  ASSUME NEW n \in Lines
  PROVE  n \in 0 .. 15 /\ OnMaster(n) \in 0 .. 7 /\ (n >= 8 => n \in 8 .. 15)
BY InterruptsAssumption DEF OnMaster, CASCADE

\* An EOI puts nothing in service.
LEMMA EoiSubset == \A S : Eoi(S) \subseteq S
BY DEF Eoi

LEMMA EoiBounded == \A S, T : S \subseteq T => Eoi(S) \subseteq T
BY EoiSubset

\* What a call computes fits a register.
LEMMA ResultsAreNumbers ==
  ASSUME NEW nr \in Nat
  PROVE  Results(nr) \subseteq Int
<1>1. CASE nr >= SYSCALL_COUNT
  BY <1>1 DEF Results, SYSCALL_COUNT, ENOSYS, SYS_lseek, SYS_kill, SYS_sbrk,
             SYS_fstat, SYS_isatty, SYS_getpid
<1>2. CASE nr < SYSCALL_COUNT
  BY <1>2 DEF Results, SYSCALL_COUNT, ENOSYS, SYS_lseek, SYS_kill, SYS_sbrk,
             SYS_fstat, SYS_isatty, SYS_getpid
<1> QED
  BY <1>1, <1>2 DEF SYSCALL_COUNT

\* An EOI leaves nothing in service where one line at most was.
LEMMA EoiOfOne ==
  ASSUME NEW S, \E m \in Int : S \subseteq {m}
  PROVE  Eoi(S) = {}
<1> PICK m \in Int : S \subseteq {m}
  OBVIOUS
<1>1. CASE S = {}
  BY <1>1 DEF Eoi
<1>2. CASE S = {m}
  <2>1. m \in {m} /\ \A k \in {m} : m <= k
    OBVIOUS
  <2>2. Least({m}) = m
    BY <2>1 DEF Least
  <2> QED
    BY <1>2, <2>2 DEF Eoi
<1> QED
  BY <1>1, <1>2

\* A command line takes one line from the ring at most.
LEMMA CommandLineTypes ==
  ASSUME typed \in 0 .. MaxLines, CommandLine
  PROVE  typed' \in 0 .. MaxLines /\ lineReady' \in BOOLEAN
<1>1. typed' = typed \/ (typed > 0 /\ typed' = typed - 1)
  BY DEF CommandLine, NextLine
<1>2. typed' \in 0 .. MaxLines
  BY <1>1, InterruptsAssumption
<1>3. lineReady' \in BOOLEAN
  BY Zenon DEF CommandLine
<1> QED
  BY <1>2, <1>3

\* Every step keeps the types.
LEMMA TypeStep ==
  ASSUME IInv, [Next]_vars
  PROVE  InterruptsTypeOK' /\ Counters'
<1> USE DEF IInv, InterruptsTypeOK, Counters, Handlers,
        ghosts, cpuVars, handlerVars, picVars, lineVars
<1>1. CASE TimerEdge
  BY <1>1, InterruptsAssumption, MaxTicksAssumption DEF TimerEdge, Raise, TIMER
<1>2. ASSUME NEW n \in Lines, Edge(n) PROVE InterruptsTypeOK' /\ Counters'
  BY <1>2 DEF Edge, Raise
<1>3. ASSUME NEW n \in Lines, Take(n) PROVE InterruptsTypeOK' /\ Counters'
  <2>1. master' \subseteq 0 .. 7 /\ slave' \subseteq 8 .. 15 /\ irr' \subseteq Lines
    BY <1>3, LineNumbers DEF Take, Interrupt
  <2>2. handler' \in {"timer", "keyboard", "default"} /\ hpc' = "entered"
        /\ savedIF' = intr /\ intr' = FALSE
    BY <1>3 DEF Take, Interrupt, Enter, Gate
  <2>3. UNCHANGED <<mode, eax, frame, sysTicks, lineVars, ghosts>>
    BY <1>3 DEF Take, Interrupt, Enter
  <2> QED
    BY <2>1, <2>2, <2>3
<1>4. CASE SlaveEoi /\ UNCHANGED ghosts
  BY <1>4, EoiSubset DEF SlaveEoi, InHandler, picRest
<1>5. ASSUME NEW e \in BOOLEAN, KeyCode(e) /\ UNCHANGED ghosts PROVE InterruptsTypeOK' /\ Counters'
  BY <1>5, InterruptsAssumption DEF KeyCode, InHandler, picRest
<1>6. CASE MasterEoi /\ UNCHANGED ghosts
  <2>1. master' \subseteq 0 .. 7
    <3>1. master' = Eoi(master)
      BY <1>6 DEF MasterEoi
    <3>2. master \subseteq 0 .. 7
      OBVIOUS
    <3>3. Eoi(master) \subseteq 0 .. 7
      BY <3>2, EoiBounded, Zenon
    <3> QED BY <3>1, <3>3, Zenon
  <2>2. hpc' \in {"tick", "return"} /\ handler # "none"
        /\ UNCHANGED <<cpuVars, handler, savedIF, slave, irr, sysTicks, lineVars, ghosts>>
    BY <1>6 DEF MasterEoi, InHandler, picRest
  <2> QED
    BY <2>1, <2>2
<1>7. CASE Tick /\ UNCHANGED ghosts
  BY <1>7 DEF Tick, InHandler, picRest
<1>8. CASE Return /\ UNCHANGED ghosts
  BY <1>8 DEF Return
<1>9. CASE Fault /\ UNCHANGED ghosts
  BY <1>9 DEF Fault
<1>10. CASE Spurious /\ UNCHANGED ghosts
  <2>1. master' \subseteq 0 .. 7 /\ UNCHANGED <<slave, irr>>
    BY <1>10 DEF Spurious, CASCADE
  <2>2. handler' = "default" /\ hpc' = "entered" /\ savedIF' = intr /\ intr' = FALSE
        /\ UNCHANGED <<mode, eax, frame, sysTicks, lineVars, ghosts>>
    BY <1>10 DEF Spurious, Enter
  <2> QED
    BY <2>1, <2>2
<1>11. CASE ShellCommand /\ UNCHANGED ghosts
  <2>1. typed' \in 0 .. MaxLines /\ lineReady' \in BOOLEAN
    BY <1>11, CommandLineTypes DEF ShellCommand
  <2> QED
    BY <1>11, <2>1 DEF ShellCommand, Runs
<1>25. CASE TextLine /\ UNCHANGED ghosts
  BY <1>25, InterruptsAssumption DEF TextLine, Runs, NextLine
<1>12. CASE RunProgram /\ UNCHANGED ghosts
  <2>1. typed' \in 0 .. MaxLines /\ lineReady' \in BOOLEAN
    BY <1>12, CommandLineTypes DEF RunProgram
  <2> QED
    BY <1>12, <2>1 DEF RunProgram, Runs
<1>13. CASE ProgramFaults /\ UNCHANGED ghosts
  BY <1>13 DEF ProgramFaults, Runs
<1>14. ASSUME NEW nr \in Calls, NEW stdin \in BOOLEAN, Int80(nr, stdin) /\ UNCHANGED ghosts
      PROVE  InterruptsTypeOK' /\ Counters'
  <2>1. frame' \in [eax : Calls \cup {0}, stdin : BOOLEAN, intr : BOOLEAN]
    BY <1>14, Zenon DEF Int80
  <2>2. eax' \in Int
    BY <1>14, InterruptsAssumption DEF Int80
  <2> QED
    BY <1>14, <2>1, <2>2 DEF Int80, Runs
<1>15. ASSUME KernelAction, ReadStdin PROVE InterruptsTypeOK' /\ Counters'
  BY <1>15, InterruptsAssumption DEF KernelAction, ReadStdin, Runs, NextLine
<1>24. ASSUME KernelAction, ReadFile PROVE InterruptsTypeOK' /\ Counters'
  BY <1>24 DEF KernelAction, ReadFile, Runs
<1>16. ASSUME KernelAction, OtherCall PROVE InterruptsTypeOK' /\ Counters'
  <2>0. frame \in [eax : Calls \cup {0}, stdin : BOOLEAN, intr : BOOLEAN]
    OBVIOUS
  <2>1. frame.eax \in Nat
    <3>1. \A c \in Calls \cup {0} : c \in Nat
      BY InterruptsAssumption
    <3>2. frame.eax \in Calls \cup {0}
      BY <2>0
    <3> QED
      BY <3>1, <3>2, Zenon
  <2>2. eax' \in Int
    BY <1>16, <2>1, ResultsAreNumbers DEF OtherCall
  <2> QED
    BY <1>16, <2>2 DEF KernelAction, OtherCall, Runs
<1>17. ASSUME KernelAction, ExitCall PROVE InterruptsTypeOK' /\ Counters'
  BY <1>17 DEF KernelAction, ExitCall, Runs
<1>18. ASSUME KernelAction, SysReturn PROVE InterruptsTypeOK' /\ Counters'
  <2>1. frame \in [eax : Calls \cup {0}, stdin : BOOLEAN, intr : BOOLEAN]
    OBVIOUS
  <2>2. eax' \in Int /\ intr' \in BOOLEAN
    BY <1>18, <2>1, InterruptsAssumption DEF SysReturn
  <2> QED
    BY <1>18, <2>2 DEF KernelAction, SysReturn, Runs
<1>19. ASSUME NEW n \in SoftInts, PanicCommand(n) PROVE InterruptsTypeOK' /\ Counters'
  <2>1. soft' \in Nat /\ typed' \in 0 .. MaxLines /\ lineReady' \in BOOLEAN
    BY <1>19, CommandLineTypes DEF PanicCommand, Panic
  <2>2. handler' \in Handlers /\ hpc' = "entered" /\ savedIF' = intr /\ intr' = FALSE
    BY <1>19 DEF PanicCommand, Panic, SoftGate, FaultVectors
  <2> QED
    BY <1>19, <2>1, <2>2 DEF PanicCommand, Panic
<1>20. CASE StartInterrupts
  BY <1>20 DEF StartInterrupts, InitIdt, Runs
<1>21. CASE Booted /\ UNCHANGED ghosts
  BY <1>21 DEF Booted, Runs
<1>22. ASSUME NEW kept \in BOOLEAN, StartAnew(kept) PROVE InterruptsTypeOK' /\ Counters'
  <2>0. typed' \in {0, typed, typed - 1} /\ (typed' = typed - 1 => typed > 0 \/ typed' = 0)
    <3>1. typed' = CASE ~kept -> 0 [] lineReady -> typed [] OTHER -> typed - 1
      BY <1>22 DEF StartAnew, Reboot
    <3>2. ~lineReady => typed > 0
      BY <1>22 DEF StartAnew, Reboot
    <3>3. CASE ~kept
      BY <3>1, <3>3
    <3>4. CASE kept /\ lineReady
      BY <3>1, <3>4
    <3>5. CASE kept /\ ~lineReady
      BY <3>1, <3>2, <3>5
    <3> QED
      BY <3>3, <3>4, <3>5
  <2>1. typed' \in 0 .. MaxLines /\ lineReady' \in BOOLEAN /\ sysTicks' \in Nat
    <3>1. typed' \in 0 .. MaxLines
      BY <2>0, InterruptsAssumption
    <3>2. lineReady' \in BOOLEAN /\ sysTicks' \in Nat
      BY <1>22 DEF StartAnew, Reboot
    <3> QED
      BY <3>1, <3>2
  <2>2. edges' \in Nat /\ soft' \in Nat /\ lost' \in Nat /\ exited' = FALSE
    BY <1>22 DEF StartAnew
  <2>3. /\ mode' = "boot" /\ intr' = FALSE
        /\ master' = {} /\ slave' = {} /\ irr' = {}
        /\ UNCHANGED <<eax, frame, handlerVars>>
    BY <1>22 DEF StartAnew, Reboot
  <2> QED
    BY <2>1, <2>2, <2>3
<1>23. CASE UNCHANGED vars
  BY <1>23 DEF vars, machineVars
<1> QED
  BY <1>1, <1>2, <1>3, <1>4, <1>5, <1>6, <1>7, <1>8, <1>9, <1>10,
     <1>11, <1>12, <1>13, <1>14, <1>15, <1>16, <1>17, <1>18, <1>19, <1>20,
     <1>21, <1>22, <1>23, <1>24, <1>25
  DEF Next, Plain, HandlerStep, KernelAction, KernelStep

\* Every step keeps handlers on their paths.
LEMMA PathStep ==
  ASSUME IInv, [Next]_vars
  PROVE  Path'
<1> USE DEF IInv, InterruptsTypeOK, Handlers, Path,
        ghosts, cpuVars, handlerVars, picVars, lineVars
<1>1. CASE TimerEdge
  BY <1>1 DEF TimerEdge, Raise
<1>2. ASSUME NEW n \in Lines, Edge(n) PROVE Path'
  BY <1>2 DEF Edge, Raise
<1>3. ASSUME NEW n \in Lines, Take(n) PROVE Path'
  BY <1>3 DEF Take, Interrupt, CanInterrupt, Enter, Gate
<1>4. CASE SlaveEoi /\ UNCHANGED ghosts
  BY <1>4 DEF SlaveEoi, InHandler, picRest
<1>5. ASSUME NEW e \in BOOLEAN, KeyCode(e) /\ UNCHANGED ghosts PROVE Path'
  BY <1>5 DEF KeyCode, InHandler, picRest
<1>6. CASE MasterEoi /\ UNCHANGED ghosts
  BY <1>6 DEF MasterEoi, InHandler, picRest
<1>7. CASE Tick /\ UNCHANGED ghosts
  BY <1>7 DEF Tick, InHandler, picRest
<1>8. CASE Return /\ UNCHANGED ghosts
  BY <1>8 DEF Return
<1>9. CASE Fault /\ UNCHANGED ghosts
  BY <1>9 DEF Fault
<1>10. CASE Spurious /\ UNCHANGED ghosts
  BY <1>10 DEF Spurious, CanInterrupt, Enter
<1>11. CASE ShellCommand /\ UNCHANGED ghosts
  BY <1>11 DEF ShellCommand, Runs, CommandLine, NextLine
<1>25. CASE TextLine /\ UNCHANGED ghosts
  BY <1>25 DEF TextLine, Runs, NextLine
<1>12. CASE RunProgram /\ UNCHANGED ghosts
  BY <1>12 DEF RunProgram, Runs, CommandLine, NextLine
<1>13. CASE ProgramFaults /\ UNCHANGED ghosts
  BY <1>13 DEF ProgramFaults, Runs
<1>14. ASSUME NEW nr \in Calls, NEW stdin \in BOOLEAN, Int80(nr, stdin) /\ UNCHANGED ghosts
      PROVE  Path'
  BY <1>14 DEF Int80, Runs
<1>15. ASSUME KernelAction, ReadStdin PROVE Path'
  BY <1>15 DEF KernelAction, ReadStdin, Runs, NextLine
<1>24. ASSUME KernelAction, ReadFile PROVE Path'
  BY <1>24 DEF KernelAction, ReadFile, Runs
<1>16. ASSUME KernelAction, OtherCall PROVE Path'
  BY <1>16 DEF KernelAction, OtherCall, Runs
<1>17. ASSUME KernelAction, ExitCall PROVE Path'
  BY <1>17 DEF KernelAction, ExitCall, Runs
<1>18. ASSUME KernelAction, SysReturn PROVE Path'
  BY <1>18 DEF KernelAction, SysReturn, Runs
<1>19. ASSUME NEW n \in SoftInts, PanicCommand(n) PROVE Path'
  BY <1>19 DEF PanicCommand, Panic, SoftGate, Runs, CommandLine, NextLine
<1>20. CASE StartInterrupts
  BY <1>20 DEF StartInterrupts, InitIdt, Runs
<1>21. CASE Booted /\ UNCHANGED ghosts
  BY <1>21 DEF Booted, Runs
<1>22. ASSUME NEW kept \in BOOLEAN, StartAnew(kept) PROVE Path'
  BY <1>22, InterruptsAssumption DEF StartAnew, Reboot, Runs
<1>23. CASE UNCHANGED vars
  BY <1>23 DEF vars, machineVars
<1> QED
  BY <1>1, <1>2, <1>3, <1>4, <1>5, <1>6, <1>7, <1>8, <1>9, <1>10,
     <1>11, <1>12, <1>13, <1>14, <1>15, <1>16, <1>17, <1>18, <1>19, <1>20,
     <1>21, <1>22, <1>23, <1>24, <1>25
  DEF Next, Plain, HandlerStep, KernelAction, KernelStep

\* A line is put in service with nothing else there, and its handler ends it.
LEMMA ServiceStep ==
  ASSUME IInv, [Next]_vars
  PROVE  InService'
<1> USE DEF IInv, InterruptsTypeOK, Handlers, Path, InService,
        ghosts, cpuVars, handlerVars, picVars, lineVars
<1>1. CASE TimerEdge
  BY <1>1 DEF TimerEdge, Raise
<1>2. ASSUME NEW n \in Lines, Edge(n) PROVE InService'
  BY <1>2 DEF Edge, Raise
<1>3. ASSUME NEW n \in Lines, Take(n) PROVE InService'
  <2>1. master = {} /\ slave = {}
    BY <1>3 DEF Take, Interrupt, CanInterrupt
  <2>2. master' = {OnMaster(n)} /\ slave' = (IF n >= 8 THEN {n} ELSE {})
    BY <1>3, <2>1 DEF Take, Interrupt
  <2>3. OnMaster(n) \in 0 .. 15 /\ n \in 0 .. 15
    BY LineNumbers
  <2>4. n >= 8 => handler' = "default"
    BY <1>3, <2>3 DEF Take, Interrupt, Enter, Gate, TIMER, KEYBOARD
  <2>5. hpc' = "entered" /\ handler' # "fault"
    BY <1>3 DEF Take, Interrupt, Enter, Gate
  <2>6. slave' \subseteq {n}
    BY <2>2
  <2> QED
    BY <2>2, <2>3, <2>4, <2>5, <2>6
<1>4. CASE SlaveEoi /\ UNCHANGED ghosts
  <2>1. \E m \in Int : slave \subseteq {m}
    OBVIOUS
  <2>2. slave' = {}
    BY <1>4, <2>1, EoiOfOne DEF SlaveEoi
  <2> QED
    BY <1>4, <2>2 DEF SlaveEoi, InHandler, picRest
<1>5. ASSUME NEW e \in BOOLEAN, KeyCode(e) /\ UNCHANGED ghosts PROVE InService'
  BY <1>5 DEF KeyCode, InHandler, picRest
<1>6. CASE MasterEoi /\ UNCHANGED ghosts
  <2>0. \E m \in Int : master \subseteq {m}
    OBVIOUS
  <2>1. master' = {}
    BY <1>6, <2>0, EoiOfOne DEF MasterEoi
  <2>2. UNCHANGED <<slave, handler>> /\ slave = {}
    BY <1>6 DEF MasterEoi, InHandler, picRest
  <2> QED
    BY <2>1, <2>2
<1>7. CASE Tick /\ UNCHANGED ghosts
  BY <1>7 DEF Tick, InHandler, picRest
<1>8. CASE Return /\ UNCHANGED ghosts
  BY <1>8 DEF Return
<1>9. CASE Fault /\ UNCHANGED ghosts
  BY <1>9 DEF Fault
<1>10. CASE Spurious /\ UNCHANGED ghosts
  BY <1>10 DEF Spurious, CanInterrupt, Enter, CASCADE
<1>11. CASE ShellCommand /\ UNCHANGED ghosts
  BY <1>11 DEF ShellCommand, Runs, CommandLine, NextLine
<1>25. CASE TextLine /\ UNCHANGED ghosts
  BY <1>25 DEF TextLine, Runs, NextLine
<1>12. CASE RunProgram /\ UNCHANGED ghosts
  BY <1>12 DEF RunProgram, Runs, CommandLine, NextLine
<1>13. CASE ProgramFaults /\ UNCHANGED ghosts
  BY <1>13 DEF ProgramFaults, Runs
<1>14. ASSUME NEW nr \in Calls, NEW stdin \in BOOLEAN, Int80(nr, stdin) /\ UNCHANGED ghosts
      PROVE  InService'
  BY <1>14 DEF Int80, Runs
<1>15. ASSUME KernelAction, ReadStdin PROVE InService'
  BY <1>15 DEF KernelAction, ReadStdin, Runs, NextLine
<1>24. ASSUME KernelAction, ReadFile PROVE InService'
  BY <1>24 DEF KernelAction, ReadFile, Runs
<1>16. ASSUME KernelAction, OtherCall PROVE InService'
  BY <1>16 DEF KernelAction, OtherCall, Runs
<1>17. ASSUME KernelAction, ExitCall PROVE InService'
  BY <1>17 DEF KernelAction, ExitCall, Runs
<1>18. ASSUME KernelAction, SysReturn PROVE InService'
  BY <1>18 DEF KernelAction, SysReturn, Runs
<1>19. ASSUME NEW n \in SoftInts, PanicCommand(n) PROVE InService'
  BY <1>19 DEF PanicCommand, Panic, SoftGate, Runs, CommandLine, NextLine
<1>20. CASE StartInterrupts
  BY <1>20 DEF StartInterrupts, InitIdt, Runs
<1>21. CASE Booted /\ UNCHANGED ghosts
  BY <1>21 DEF Booted, Runs
<1>22. ASSUME NEW kept \in BOOLEAN, StartAnew(kept) PROVE InService'
  BY <1>22, InterruptsAssumption DEF StartAnew, Reboot, Runs
<1>23. CASE UNCHANGED vars
  BY <1>23 DEF vars, machineVars
<1> QED
  BY <1>1, <1>2, <1>3, <1>4, <1>5, <1>6, <1>7, <1>8, <1>9, <1>10,
     <1>11, <1>12, <1>13, <1>14, <1>15, <1>16, <1>17, <1>18, <1>19, <1>20,
     <1>21, <1>22, <1>23, <1>24, <1>25
  DEF Next, Plain, HandlerStep, KernelAction, KernelStep

\* Every step keeps the flags each context returns to.
LEMMA MaskingStep ==
  ASSUME IInv, [Next]_vars
  PROVE  Masking'
<1> USE DEF IInv, InterruptsTypeOK, Handlers, Counters, Path, Masking,
        ghosts, cpuVars, handlerVars, picVars, lineVars
<1>1. CASE TimerEdge
  BY <1>1 DEF TimerEdge, Raise
<1>2. ASSUME NEW n \in Lines, Edge(n) PROVE Masking'
  BY <1>2 DEF Edge, Raise
<1>3. ASSUME NEW n \in Lines, Take(n) PROVE Masking'
  BY <1>3 DEF Take, Interrupt, CanInterrupt, Enter, Gate
<1>4. CASE SlaveEoi /\ UNCHANGED ghosts
  BY <1>4 DEF SlaveEoi, InHandler, picRest
<1>5. ASSUME NEW e \in BOOLEAN, KeyCode(e) /\ UNCHANGED ghosts PROVE Masking'
  BY <1>5 DEF KeyCode, InHandler, picRest
<1>6. CASE MasterEoi /\ UNCHANGED ghosts
  BY <1>6 DEF MasterEoi, InHandler, picRest
<1>7. CASE Tick /\ UNCHANGED ghosts
  BY <1>7 DEF Tick, InHandler, picRest
<1>8. CASE Return /\ UNCHANGED ghosts
  BY <1>8 DEF Return
<1>9. CASE Fault /\ UNCHANGED ghosts
  BY <1>9 DEF Fault
<1>10. CASE Spurious /\ UNCHANGED ghosts
  BY <1>10 DEF Spurious, CanInterrupt, Enter
<1>11. CASE ShellCommand /\ UNCHANGED ghosts
  BY <1>11 DEF ShellCommand, Runs, CommandLine, NextLine
<1>25. CASE TextLine /\ UNCHANGED ghosts
  BY <1>25 DEF TextLine, Runs, NextLine
<1>12. CASE RunProgram /\ UNCHANGED ghosts
  BY <1>12 DEF RunProgram, Runs, CommandLine, NextLine
<1>13. CASE ProgramFaults /\ UNCHANGED ghosts
  BY <1>13 DEF ProgramFaults, Runs
<1>14. ASSUME NEW nr \in Calls, NEW stdin \in BOOLEAN, Int80(nr, stdin) /\ UNCHANGED ghosts
      PROVE  Masking'
  BY <1>14 DEF Int80, Runs
<1>15. ASSUME KernelAction, ReadStdin PROVE Masking'
  BY <1>15 DEF KernelAction, ReadStdin, Runs, NextLine
<1>24. ASSUME KernelAction, ReadFile PROVE Masking'
  BY <1>24 DEF KernelAction, ReadFile, Runs
<1>16. ASSUME KernelAction, OtherCall PROVE Masking'
  BY <1>16 DEF KernelAction, OtherCall, Runs
<1>17. ASSUME KernelAction, ExitCall PROVE Masking'
  BY <1>17 DEF KernelAction, ExitCall, Runs
<1>18. ASSUME KernelAction, SysReturn PROVE Masking'
  BY <1>18 DEF KernelAction, SysReturn, Runs
<1>19. ASSUME NEW n \in SoftInts, PanicCommand(n) PROVE Masking'
  BY <1>19 DEF PanicCommand, Panic, SoftGate, Runs, CommandLine, NextLine
<1>20. CASE StartInterrupts
  BY <1>20 DEF StartInterrupts, InitIdt, Runs
<1>21. CASE Booted /\ UNCHANGED ghosts
  BY <1>21 DEF Booted, Runs
<1>22. ASSUME NEW kept \in BOOLEAN, StartAnew(kept) PROVE Masking'
  BY <1>22, InterruptsAssumption DEF StartAnew, Reboot, Runs
<1>23. CASE UNCHANGED vars
  BY <1>23 DEF vars, machineVars
<1> QED
  BY <1>1, <1>2, <1>3, <1>4, <1>5, <1>6, <1>7, <1>8, <1>9, <1>10,
     <1>11, <1>12, <1>13, <1>14, <1>15, <1>16, <1>17, <1>18, <1>19, <1>20,
     <1>21, <1>22, <1>23, <1>24, <1>25
  DEF Next, Plain, HandlerStep, KernelAction, KernelStep

\* Every step keeps the account of the ticks.
LEMMA TicksStep ==
  ASSUME IInv, [Next]_vars
  PROVE  TicksAccounted'
<1> USE DEF IInv, InterruptsTypeOK, Handlers, Counters, Path, TicksAccounted, InTimer,
        One, TIMER, KEYBOARD,
        ghosts, cpuVars, handlerVars, picVars, lineVars
<1>1. CASE TimerEdge
  BY <1>1 DEF TimerEdge, Raise
<1>2. ASSUME NEW n \in Lines, Edge(n) PROVE TicksAccounted'
  BY <1>2 DEF Edge, Raise
<1>3. ASSUME NEW n \in Lines, Take(n) PROVE TicksAccounted'
  <2>1. handler = "none" /\ n \in irr /\ irr' = irr \ {n}
        /\ UNCHANGED <<sysTicks, edges, lost, soft>>
    BY <1>3 DEF Take, Interrupt, Taken, CanInterrupt, Enter
  <2>2. hpc' = "entered" /\ (handler' = "timer" <=> n = TIMER)
    BY <1>3 DEF Take, Interrupt, Enter, Gate
  <2>3. CASE n = TIMER
    BY <2>1, <2>2, <2>3
  <2>4. CASE n # TIMER
    BY <2>1, <2>2, <2>4
  <2> QED
    BY <2>3, <2>4
<1>4. CASE SlaveEoi /\ UNCHANGED ghosts
  BY <1>4 DEF SlaveEoi, InHandler, picRest
<1>5. ASSUME NEW e \in BOOLEAN, KeyCode(e) /\ UNCHANGED ghosts PROVE TicksAccounted'
  BY <1>5 DEF KeyCode, InHandler, picRest
<1>6. CASE MasterEoi /\ UNCHANGED ghosts
  BY <1>6 DEF MasterEoi, InHandler, picRest
<1>7. CASE Tick /\ UNCHANGED ghosts
  BY <1>7 DEF Tick, InHandler, picRest
<1>8. CASE Return /\ UNCHANGED ghosts
  BY <1>8 DEF Return
<1>9. CASE Fault /\ UNCHANGED ghosts
  BY <1>9 DEF Fault
<1>10. CASE Spurious /\ UNCHANGED ghosts
  BY <1>10 DEF Spurious, CanInterrupt, Enter
<1>11. CASE ShellCommand /\ UNCHANGED ghosts
  BY <1>11 DEF ShellCommand, Runs, CommandLine, NextLine
<1>25. CASE TextLine /\ UNCHANGED ghosts
  BY <1>25 DEF TextLine, Runs, NextLine
<1>12. CASE RunProgram /\ UNCHANGED ghosts
  BY <1>12 DEF RunProgram, Runs, CommandLine, NextLine
<1>13. CASE ProgramFaults /\ UNCHANGED ghosts
  BY <1>13 DEF ProgramFaults, Runs
<1>14. ASSUME NEW nr \in Calls, NEW stdin \in BOOLEAN, Int80(nr, stdin) /\ UNCHANGED ghosts
      PROVE  TicksAccounted'
  BY <1>14 DEF Int80, Runs
<1>15. ASSUME KernelAction, ReadStdin PROVE TicksAccounted'
  BY <1>15 DEF KernelAction, ReadStdin, Runs, NextLine
<1>24. ASSUME KernelAction, ReadFile PROVE TicksAccounted'
  BY <1>24 DEF KernelAction, ReadFile, Runs
<1>16. ASSUME KernelAction, OtherCall PROVE TicksAccounted'
  BY <1>16 DEF KernelAction, OtherCall, Runs
<1>17. ASSUME KernelAction, ExitCall PROVE TicksAccounted'
  BY <1>17 DEF KernelAction, ExitCall, Runs
<1>18. ASSUME KernelAction, SysReturn PROVE TicksAccounted'
  BY <1>18 DEF KernelAction, SysReturn, Runs
<1>19. ASSUME NEW n \in SoftInts, PanicCommand(n) PROVE TicksAccounted'
  BY <1>19 DEF PanicCommand, Panic, SoftGate, Runs, CommandLine, NextLine, FaultVectors
<1>20. CASE StartInterrupts
  BY <1>20 DEF StartInterrupts, InitIdt, Runs
<1>21. CASE Booted /\ UNCHANGED ghosts
  BY <1>21 DEF Booted, Runs
<1>22. ASSUME NEW kept \in BOOLEAN, StartAnew(kept) PROVE TicksAccounted'
  BY <1>22, InterruptsAssumption DEF StartAnew, Reboot, Runs
<1>23. CASE UNCHANGED vars
  BY <1>23 DEF vars, machineVars
<1> QED
  BY <1>1, <1>2, <1>3, <1>4, <1>5, <1>6, <1>7, <1>8, <1>9, <1>10,
     <1>11, <1>12, <1>13, <1>14, <1>15, <1>16, <1>17, <1>18, <1>19, <1>20,
     <1>21, <1>22, <1>23, <1>24, <1>25
  DEF Next, Plain, HandlerStep, KernelAction, KernelStep

-----------------------------------------------------------------------------
\* The invariant is inductive.
THEOREM MachineInvariant == Spec => []IInv
<1>1. Init => IInv
  <2> SUFFICES ASSUME Init PROVE IInv
    OBVIOUS
  <2>1. frame \in [eax : Calls \cup {0}, stdin : BOOLEAN, intr : BOOLEAN]
    BY DEF Init, InterruptsInit
  <2>2. InterruptsTypeOK /\ Counters
    <3>1. typed \in 0 .. MaxLines
      BY InterruptsAssumption DEF Init, InterruptsInit
    <3>2. /\ mode = "boot" /\ handler = "none" /\ hpc = "done"
          /\ intr \in BOOLEAN /\ savedIF \in BOOLEAN
          /\ master = {} /\ slave = {} /\ irr = {} /\ sysTicks = 0 /\ eax = 0
          /\ lineReady \in BOOLEAN
          /\ edges = 0 /\ lost = 0 /\ soft = 0 /\ exited \in BOOLEAN
      BY DEF Init, InterruptsInit
    <3> QED
      BY <2>1, <3>1, <3>2 DEF InterruptsTypeOK, Handlers, Counters
  <2>3. Path /\ Masking /\ TicksAccounted
    BY DEF Init, InterruptsInit, Path, Masking, TicksAccounted, InTimer, One
  <2>4. InService
    <3>1. /\ master \subseteq {0} /\ slave \subseteq {0} /\ 0 \in 0 .. 15
          /\ master = {} /\ slave = {}
      BY DEF Init, InterruptsInit
    <3> QED
      BY <3>1 DEF InService
  <2> QED
    BY <2>2, <2>3, <2>4 DEF IInv
<1>2. IInv /\ [Next]_vars => IInv'
  BY TypeStep, PathStep, ServiceStep, MaskingStep, TicksStep DEF IInv
<1> QED
  BY <1>1, <1>2, PTL DEF Spec

\* The machine's registers are well typed for every set of lines and calls
\* (idt.c, int80.asm).
THEOREM InterruptsTypeCorrect == Spec => []InterruptsTypeOK
<1>1. IInv => InterruptsTypeOK
  BY DEF IInv
<1> QED
  BY <1>1, MachineInvariant, PTL

\* No line is left in service outside a handler: irqHandler, keyboardHandler
\* and the default gate end what they were entered for (idt.c:107, io.c:147).
THEOREM EveryLineIsEnded == Spec => []NothingLeftInService
<1>1. IInv => NothingLeftInService
  BY DEF IInv, InterruptsTypeOK, Handlers, InService, NothingLeftInService
<1> QED
  BY <1>1, MachineInvariant, PTL

\* sysTicks counts every edge not lost and every panic 32 (idt.c:113).
THEOREM UptimeIsAccounted == Spec => []TicksAccounted
<1>1. IInv => TicksAccounted
  BY DEF IInv
<1> QED
  BY <1>1, MachineInvariant, PTL

\* Programs run with interrupts on until one exits (ring3.asm:21, int80.asm:39).
THEOREM ProgramsHearTheMachine == Spec => []ProgramsAreInterruptible
<1>1. IInv => ProgramsAreInterruptible
  BY DEF IInv, Masking, ProgramsAreInterruptible
<1> QED
  BY <1>1, MachineInvariant, PTL

\* A read of stdin that polls with no line typed ahead and none left to read out
\* goes on polling: no step leads out of its wait, since only a device can still
\* do something, and nobody will hear of it (idt.c:102, syscalls.c:87).
THEOREM EmptyReadsNeverEnd == Spec => EmptyReadIsTheEnd
<1> DEFINE Stays == StarvedRead' /\ handler' = "none"
<1>1. ASSUME IInv, [Next]_vars, StarvedRead PROVE Stays
  <2> USE DEF StarvedRead, ghosts, cpuVars, handlerVars, picVars, lineVars
  <2>1. handler = "none" /\ hpc = "done" /\ ~intr
    BY <1>1 DEF IInv, InterruptsTypeOK, Masking
  <2>2. CASE UNCHANGED vars
    BY <1>1, <2>1, <2>2 DEF vars, machineVars
  <2>3. CASE TimerEdge \/ \E n \in Lines : Edge(n)
    BY <1>1, <2>1, <2>3 DEF TimerEdge, Edge, Raise
  <2>4. ASSUME NEW n \in Lines, Take(n) PROVE FALSE
    BY <2>1, <2>4 DEF Take, Interrupt, CanInterrupt
  <2>5. ~HandlerStep
    BY <2>1 DEF HandlerStep, SlaveEoi, KeyCode, MasterEoi, Tick, Return, Fault, InHandler
  <2>6. ~Plain
    BY <1>1, <2>1, <2>5
    DEF Plain, Spurious, CanInterrupt, Booted, ShellCommand, TextLine, RunProgram,
        ProgramFaults, Int80, Runs
  <2>7. ~StartInterrupts /\ (\A kept \in BOOLEAN : ~StartAnew(kept))
        /\ (\A n \in SoftInts : ~PanicCommand(n))
    BY <1>1 DEF StartInterrupts, InitIdt, StartAnew, Reboot, PanicCommand, Panic, Runs
  <2>8. ~KernelAction
    BY <1>1
    DEF KernelAction, KernelStep, ReadStdin, ReadFile, OtherCall, ExitCall, SysReturn,
        Runs, NextLine, SYS_read, SYS_exit
  <2> QED
    BY <1>1, <2>2, <2>3, <2>4, <2>6, <2>7, <2>8 DEF Next
<1>2. IInv /\ [Next]_vars => [StarvedRead => Stays]_vars
  BY <1>1
<1> QED
  BY <1>2, MachineInvariant, PTL DEF Spec, EmptyReadIsTheEnd
=============================================================================

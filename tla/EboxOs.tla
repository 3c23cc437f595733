------------------------------- MODULE EboxOs -------------------------------
(***************************************************************************)
(* The preemptive kernel of os/ebox_os (os.c, cpu.c, os_cpu_a.asm) from    *)
(* OSStart on.  One processor runs the context held in its registers; the  *)
(* SysTick interrupt may arrive between any two steps of a task; PendSV    *)
(* swaps contexts.                                                         *)
(*                                                                         *)
(* A kernel call is several steps of the calling task: its critical        *)
(* section is one step, and what follows OS_EXIT_CRITICAL (the comparison  *)
(* with OSPrioCur, the search of the ready table, the two assignments,     *)
(* OSCtxSw) is one step each, because the tick may fall between them.      *)
(***************************************************************************)
EXTENDS Integers

CONSTANTS
  OS_TASKS,     (* number of user tasks; priority OS_TASKS is the idle task *)
  MaxDelay,     (* bound on the ticks a task asks os_time_delay for         *)
  DlyMod,       (* OSTCBDly counts modulo DlyMod (2^32 in the build)        *)
  CalcTicks     (* CPU_USAGE_CALC_TICK (1000 in the build)                  *)

ASSUME OsTasksAssumption  == OS_TASKS \in Nat \ {0}
ASSUME DelayAssumption    == MaxDelay \in Nat \ {0}
ASSUME DlyModAssumption   == DlyMod \in Nat /\ DlyMod > MaxDelay
ASSUME CalcAssumption     == CalcTicks \in Nat \ {0}

VARIABLES
  OSRdyTbl,   (* set of the priorities whose bit is set                     *)
  OSPrioCur,  (* priority the kernel believes is running                    *)
  Dly,        (* TCB[t].OSTCBDly                                            *)
  State,      (* TCB[t].State                                               *)
  StkAddr,    (* TCB[t].StkAddr: the context saved on the task's stack      *)
  curP,       (* OS_Tcb_CurP                                                *)
  highP,      (* OS_Tcb_HighRdyP                                            *)
  pendSV,     (* PENDSVSET in NVIC_INT_CTRL                                 *)
  TIME_SW,    (* the tick may reschedule                                    *)
  elapsed,    (* OSTick - tick in os_idle_hook, stopped at CalcTicks        *)
  regs,       (* the context in the processor's registers                   *)
  torn        (* history: a scheduling tick has fallen inside a window      *)

vars == <<OSRdyTbl, OSPrioCur, Dly, State, StkAddr, curP, highP, pendSV,
          TIME_SW, elapsed, regs, torn>>

-----------------------------------------------------------------------------
Idle     == OS_TASKS
Task     == 0 .. OS_TASKS
UserTask == 0 .. OS_TASKS - 1
NULL     == OS_TASKS + 1        (* OS_Tcb_CurP before the first switch *)

TaskState == {"READY", "DELAY", "SUSPEND"}

(* Where a task stands.  "run": in its own code; "test" .. "sw": inside a   *)
(* kernel call, after its critical section.  The idle task is in            *)
(* os_idle_hook instead.  "main" is the code that called OSStart.           *)
UserPc  == {"run", "test", "scan", "prio", "ptr", "sw"}
IdlePc  == {"first", "calibrate", "measure"}
Context == [task : Task, pc : UserPc \cup IdlePc, arg : Task, i : Task]
Main    == [task |-> NULL, pc |-> "main", arg |-> 0, i |-> 0]

(* The highest priority that is ready, or Idle: what the search loop        *)
(* finds when nothing changes under it.                                     *)
IsHighest(i, rdy) == /\ i \in Task
                     /\ i # Idle => i \in rdy
                     /\ \A j \in Task : j < i => j \notin rdy

(* CPU_task_create: the context a new task starts from. *)
Entry(t) == [task |-> t, pc |-> IF t = Idle THEN "first" ELSE "run",
             arg |-> 0, i |-> 0]

(* The steps after a critical section that a tick can tear.                 *)
InWindow == \/ regs.pc \in {"scan", "prio", "ptr"}
            \/ regs.pc = "test" /\ regs.arg = OSPrioCur

-----------------------------------------------------------------------------
(* OSStart has just been called: every task is created and ready, os_start  *)
(* chose the highest, the scheduler is enabled, PSP = 0 and PendSV pends.   *)
Init == /\ OSRdyTbl = Task
        /\ OSPrioCur = 0
        /\ Dly = [t \in Task |-> 0]
        /\ State = [t \in Task |-> "READY"]
        /\ StkAddr = [t \in Task |-> Entry(t)]
        /\ curP = NULL
        /\ highP = 0
        /\ pendSV = TRUE
        /\ TIME_SW = 1
        /\ elapsed = 0
        /\ regs = Main
        /\ torn = FALSE

-----------------------------------------------------------------------------
(* Steps of the running task.  An exception that pends is taken before the  *)
(* next instruction that matters, so a task steps only when none pends.     *)
Running(pc) == ~pendSV /\ regs.pc = pc
Goto(pc)    == regs' = [regs EXCEPT !.pc = pc]

(* os_time_delay(ticks), its critical section.  The code acts on OSPrioCur, *)
(* not on the caller.                                                       *)
DelayCurrent(ticks) ==
  /\ Running("run")
  /\ OSRdyTbl' = OSRdyTbl \ {OSPrioCur}
  /\ Dly' = [Dly EXCEPT ![OSPrioCur] = ticks]
  /\ State' = [State EXCEPT ![OSPrioCur] = "DELAY"]
  /\ regs' = [regs EXCEPT !.pc = "scan", !.i = 0]
  /\ UNCHANGED <<OSPrioCur, StkAddr, curP, highP, pendSV, TIME_SW, elapsed,
                 torn>>

(* Mutant: without if(ticks). *)
DelayCritical_untested(ticks) == DelayCurrent(ticks)

DelayCritical(ticks) == ticks # 0 /\ DelayCurrent(ticks)

(* os_task_suspend(p), its critical section. *)
SuspendCritical(p) ==
  /\ Running("run")
  /\ Dly' = [Dly EXCEPT ![p] = 0]
  /\ State' = [State EXCEPT ![p] = "SUSPEND"]
  /\ OSRdyTbl' = OSRdyTbl \ {p}
  /\ regs' = [regs EXCEPT !.pc = "test", !.arg = p]
  /\ UNCHANGED <<OSPrioCur, StkAddr, curP, highP, pendSV, TIME_SW, elapsed,
                 torn>>

(* Mutant: the ready bit is not set. *)
ResumeCritical_noBit(p) ==
  /\ Running("run")
  /\ Dly' = [Dly EXCEPT ![p] = 0]
  /\ State' = [State EXCEPT ![p] = "READY"]
  /\ regs' = [regs EXCEPT !.pc = "test", !.arg = p]
  /\ UNCHANGED <<OSRdyTbl, OSPrioCur, StkAddr, curP, highP, pendSV, TIME_SW,
                 elapsed, torn>>

(* os_task_resume(p), its critical section. *)
ResumeCritical(p) ==
  /\ Running("run")
  /\ OSRdyTbl' = OSRdyTbl \cup {p}
  /\ Dly' = [Dly EXCEPT ![p] = 0]
  /\ State' = [State EXCEPT ![p] = "READY"]
  /\ regs' = [regs EXCEPT !.pc = "test", !.arg = p]
  /\ UNCHANGED <<OSPrioCur, StkAddr, curP, highP, pendSV, TIME_SW, elapsed,
                 torn>>

(* Mutant: the call returns without searching. *)
Compare_returns ==
  /\ Running("test")
  /\ Goto("run")
  /\ UNCHANGED <<OSRdyTbl, OSPrioCur, Dly, State, StkAddr, curP, highP,
                 pendSV, TIME_SW, elapsed, torn>>

(* if(OSPrioCur == Prio) in suspend and resume: search, or return. *)
Compare ==
  /\ Running("test")
  /\ regs' = IF OSPrioCur = regs.arg
               THEN [regs EXCEPT !.pc = "scan", !.i = 0]
               ELSE [regs EXCEPT !.pc = "run"]
  /\ UNCHANGED <<OSRdyTbl, OSPrioCur, Dly, State, StkAddr, curP, highP,
                 pendSV, TIME_SW, elapsed, torn>>

(* One turn of  for(i = 0; i < OS_TASKS && !(OSRdyTbl & 1 << i); i++)  with *)
(* interrupts enabled, and its mutant that ends one turn early.             *)
SearchOn_short == regs.i < OS_TASKS - 1 /\ regs.i \notin OSRdyTbl

SearchOn == regs.i < OS_TASKS /\ regs.i \notin OSRdyTbl

Scan ==
  /\ Running("scan")
  /\ regs' = IF SearchOn THEN [regs EXCEPT !.i = @ + 1]
                         ELSE [regs EXCEPT !.pc = "prio"]
  /\ UNCHANGED <<OSRdyTbl, OSPrioCur, Dly, State, StkAddr, curP, highP,
                 pendSV, TIME_SW, elapsed, torn>>

(* OSPrioHighRdy = i; OSPrioCur = i;  (OSPrioHighRdy is not read again). *)
SetPrio ==
  /\ Running("prio")
  /\ OSPrioCur' = regs.i
  /\ Goto("ptr")
  /\ UNCHANGED <<OSRdyTbl, Dly, State, StkAddr, curP, highP, pendSV,
                 TIME_SW, elapsed, torn>>

(* OS_Tcb_HighRdyP = &TCB[i]; *)
SetHighRdy ==
  /\ Running("ptr")
  /\ highP' = regs.i
  /\ Goto("sw")
  /\ UNCHANGED <<OSRdyTbl, OSPrioCur, Dly, State, StkAddr, curP, pendSV,
                 TIME_SW, elapsed, torn>>

(* OSCtxSw() pends PendSV; the call returns once the task runs again. *)
OSCtxSw ==
  /\ Running("sw")
  /\ pendSV' = TRUE
  /\ Goto("run")
  /\ UNCHANGED <<OSRdyTbl, OSPrioCur, Dly, State, StkAddr, curP, highP,
                 TIME_SW, elapsed, torn>>

-----------------------------------------------------------------------------
(* os_idle_hook: the first time, count with the scheduler stopped for       *)
(* CalcTicks ticks, then measure for ever.                                  *)
IdleFirst ==
  /\ Running("first")
  /\ TIME_SW' = 0
  /\ elapsed' = 0
  /\ Goto("calibrate")
  /\ UNCHANGED <<OSRdyTbl, OSPrioCur, Dly, State, StkAddr, curP, highP,
                 pendSV, torn>>

IdleCalibrated ==
  /\ Running("calibrate")
  /\ elapsed = CalcTicks
  /\ TIME_SW' = 1
  /\ elapsed' = 0
  /\ Goto("measure")
  /\ UNCHANGED <<OSRdyTbl, OSPrioCur, Dly, State, StkAddr, curP, highP,
                 pendSV, torn>>

(* A later round of the hook: the count starts again. *)
IdleMeasured ==
  /\ Running("measure")
  /\ elapsed = CalcTicks
  /\ elapsed' = 0
  /\ UNCHANGED <<OSRdyTbl, OSPrioCur, Dly, State, StkAddr, curP, highP,
                 pendSV, TIME_SW, regs, torn>>

-----------------------------------------------------------------------------
(* os_time_tick, called by SysTick_Handler with interrupts masked.          *)
(* OSTCBDly is unsigned: 0 - 1 wraps.  Mutant: a signed counter.            *)
Decremented_signed(t) == IF t # Idle /\ State[t] = "DELAY"
                           THEN Dly[t] - 1 ELSE Dly[t]

Decremented(t) == IF t # Idle /\ State[t] = "DELAY"
                    THEN (Dly[t] - 1) % DlyMod ELSE Dly[t]

Expired == {t \in UserTask : State[t] = "DELAY" /\ Decremented(t) = 0}

(* State = READY is written to TCB[OSPrioCur] whichever task expires; when  *)
(* the loop has still to reach TCB[OSPrioCur], that hides its DELAY.        *)
Hidden(t) == t = OSPrioCur /\ \E u \in Expired : u < t

TickDown ==
  /\ Dly' = [t \in Task |-> IF Hidden(t) THEN Dly[t] ELSE Decremented(t)]
  /\ OSRdyTbl' = OSRdyTbl \cup {t \in Expired : ~Hidden(t)}
  /\ State' = IF Expired = {} THEN State
              ELSE [State EXCEPT ![OSPrioCur] = "READY"]

(* The search and the assignments of os_time_sw, and two mutants that drop  *)
(* one of the assignments.                                                  *)
Elect_keepsPrioCur == /\ \E i \in Task : IsHighest(i, OSRdyTbl') /\ highP' = i
                      /\ UNCHANGED OSPrioCur

Elect_keepsHighRdy ==
  /\ \E i \in Task : IsHighest(i, OSRdyTbl') /\ OSPrioCur' = i
  /\ UNCHANGED highP

Elect == \E i \in Task : /\ IsHighest(i, OSRdyTbl')
                         /\ OSPrioCur' = i
                         /\ highP' = i

(* os_time_sw when TIME_SW == 1. *)
Reschedule == /\ TickDown
              /\ Elect
              /\ pendSV' = TRUE
              /\ torn' = (torn \/ (~pendSV /\ InWindow))

(* Mutant: the tick reschedules whatever TIME_SW says. *)
Scheduling_always == Reschedule

Scheduling ==
  \/ TIME_SW = 1 /\ Reschedule
  \/ TIME_SW = 0 /\ UNCHANGED <<OSRdyTbl, OSPrioCur, Dly, State, highP, pendSV,
                               torn>>

Tick == /\ elapsed' = IF elapsed < CalcTicks THEN elapsed + 1 ELSE elapsed
        /\ Scheduling
        /\ UNCHANGED <<StkAddr, curP, TIME_SW, regs>>

(* PendSV_Handler: save the registers to *OS_Tcb_CurP unless PSP is 0 (only *)
(* before the first switch), then run *OS_Tcb_HighRdyP.  Mutant: OS_Tcb_CurP *)
(* is moved on before the save.                                             *)
Save_late == StkAddr' = [StkAddr EXCEPT ![highP] = regs]

Save == StkAddr' = IF curP = NULL THEN StkAddr ELSE [StkAddr EXCEPT ![curP] = regs]

PendSV_Handler ==
  /\ pendSV
  /\ Save
  /\ pendSV' = FALSE
  /\ curP' = highP
  /\ regs' = StkAddr'[highP]
  /\ UNCHANGED <<OSRdyTbl, OSPrioCur, Dly, State, highP, TIME_SW, elapsed,
                 torn>>

-----------------------------------------------------------------------------
KernelCall == \/ \E ticks \in 0 .. MaxDelay : DelayCritical(ticks)
              \/ \E p \in UserTask : SuspendCritical(p) \/ ResumeCritical(p)

KernelStep == Compare \/ Scan \/ SetPrio \/ SetHighRdy \/ OSCtxSw

IdleStep == IdleFirst \/ IdleCalibrated \/ IdleMeasured

Next == KernelCall \/ KernelStep \/ IdleStep \/ Tick \/ PendSV_Handler

(* SysTick keeps firing, a pending PendSV is taken, and the processor runs  *)
(* the code in front of it.  A task is free never to call the kernel.       *)
Fairness == /\ WF_vars(Tick)
            /\ WF_vars(PendSV_Handler)
            /\ WF_vars(KernelStep)
            /\ WF_vars(IdleStep)

Spec     == Init /\ [][Next]_vars
FairSpec == Spec /\ Fairness
-----------------------------------------------------------------------------
(* Type invariant: priorities, counters and contexts stay in range; the     *)
(* registers hold main's context only before the first switch.              *)
TypeOK ==
  /\ OSRdyTbl \subseteq Task
  /\ OSPrioCur \in Task
  /\ Dly \in [Task -> 0 .. DlyMod - 1]
  /\ State \in [Task -> TaskState]
  /\ StkAddr \in [Task -> Context]
  /\ curP \in Task \cup {NULL}
  /\ highP \in Task
  /\ pendSV \in BOOLEAN
  /\ TIME_SW \in {0, 1}
  /\ elapsed \in 0 .. CalcTicks
  /\ curP = NULL => regs = Main
  /\ curP # NULL => regs \in Context
  /\ torn \in BOOLEAN

(* The idle task is always on the ready table (os.c:255), although a        *)
(* delaying task clears the bit of whatever OSPrioCur says and OSPrioCur is *)
(* written outside the critical sections.                                   *)
IdleAlwaysReady == Idle \in OSRdyTbl

(* PendSV saves the registers into the TCB of the task they belong to and   *)
(* every stack holds its own task's context, whatever order ticks and       *)
(* OSCtxSw pend it in: os_cpu_a.asm never mixes two tasks' stacks.          *)
ContextIntact ==
  /\ curP # NULL => regs.task = curP
  /\ \A t \in Task : StkAddr[t].task = t

(* The scheduler is stopped only while the idle task calibrates, and then   *)
(* no switch is pending: no user task ever runs with the tick disarmed.     *)
LockedOnlyByIdle ==
  TIME_SW = 0 => /\ regs.task = Idle
                 /\ regs.pc = "calibrate"
                 /\ ~pendSV

(* A task waiting in DELAY off the ready table has ticks left: the          *)
(* unsigned decrement of os_time_sw never wraps the count of a sleeper,     *)
(* which would sleep for 2^32 ticks more.                                   *)
WaitingTaskCounts ==
  \A t \in UserTask : State[t] = "DELAY" /\ t \notin OSRdyTbl => Dly[t] > 0

(* A task off the ready table is waiting or suspended, so something still   *)
(* brings it back: the tick, or os_task_resume.                             *)
NoTaskLost ==
  \A t \in UserTask : t \notin OSRdyTbl => State[t] \in {"DELAY", "SUSPEND"}

(* As long as no scheduling tick has fallen inside a window of a kernel     *)
(* call, no task is lost: the windows are the only cause of a lost wakeup.  *)
UntornLosesNobody == ~torn => NoTaskLost

(* As long as no tick has torn a call, the task that runs is the one        *)
(* OSPrioCur names, and in its own code it is ready: a delayed or suspended *)
(* task does not run on.                                                    *)
UntornRunsReady ==
  ~torn /\ ~pendSV /\ regs.pc \in {"run", "test", "scan", "prio"}
    => /\ OSPrioCur = regs.task
       /\ regs.pc = "run" => regs.task \in OSRdyTbl

(* What os.c:178 says of the assignment in os_time_delay (and the same      *)
(* lines of suspend and resume): the task handed to PendSV is the highest   *)
(* ready one.                                                               *)
DispatchesHighest == [][SetHighRdy => IsHighest(highP', OSRdyTbl)]_vars

(* The same, while no tick has torn a call. *)
UntornDispatchesHighest ==
  [][SetHighRdy /\ ~torn => IsHighest(highP', OSRdyTbl)]_vars

(* Whatever a stale choice has dispatched, the processor comes back to the  *)
(* highest ready task again and again: the tick repairs the choice.         *)
SchedulerRealigns == []<>(~pendSV /\ IsHighest(curP, OSRdyTbl))
=============================================================================

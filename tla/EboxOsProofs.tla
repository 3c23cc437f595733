---------------------------- MODULE EboxOsProofs ----------------------------
(***************************************************************************)
(* What the kernel of os/ebox_os guarantees for every number of tasks and   *)
(* every delay, with ticks and context switches anywhere.                   *)
(***************************************************************************)
EXTENDS EboxOs, TLAPS

USE DEF Idle, Task, UserTask, NULL

-----------------------------------------------------------------------------
(* The inductive invariant. *)

(* Only the idle task is ever inside os_idle_hook. *)
CodeOfTask ==
  /\ \A t \in Task : StkAddr[t].pc \in IdlePc <=> t = Idle
  /\ curP # NULL => (regs.pc \in IdlePc <=> curP = Idle)
  /\ curP = NULL => pendSV

(* OSPrioCur names the idle task only when idle runs or is about to: a user *)
(* task that reaches the critical section of os_time_delay never finds it   *)
(* there.                                                                   *)
IdleNamed ==
  OSPrioCur = Idle =>
    \/ pendSV /\ highP = Idle
    \/ /\ ~pendSV
       /\ \/ curP = Idle
          \/ regs.pc = "ptr" /\ regs.i = Idle
          \/ regs.pc = "sw" /\ highP = Idle

Base == /\ TypeOK /\ ContextIntact /\ CodeOfTask /\ IdleNamed
        /\ IdleAlwaysReady /\ LockedOnlyByIdle /\ WaitingTaskCounts

(* While no tick has torn a call: *)

(* a task that is switched out stands where a call cannot be torn, *)
Safe(c) == /\ c.pc \notin {"scan", "prio", "ptr"}
           /\ c.pc = "test" => c.arg # c.task

(* the running task agrees with the kernel's idea of it, *)
RunnerKnown ==
  /\ regs.pc \in {"run", "test", "scan", "prio"} \cup IdlePc => OSPrioCur = curP
  /\ regs.pc = "run" => curP \in OSRdyTbl
  /\ regs.pc = "test" /\ regs.arg # curP => curP \in OSRdyTbl
  /\ regs.pc = "scan" => \A j \in Task : j < regs.i => j \notin OSRdyTbl
  /\ regs.pc = "prio" => IsHighest(regs.i, OSRdyTbl)
  /\ regs.pc = "ptr" => IsHighest(regs.i, OSRdyTbl) /\ OSPrioCur = regs.i
  /\ regs.pc = "sw" => IsHighest(highP, OSRdyTbl) /\ OSPrioCur = highP

(* and a pending switch leads to the highest ready task. *)
SwitchKnown ==
  /\ OSPrioCur = highP
  /\ IsHighest(highP, OSRdyTbl)
  /\ Safe(regs)

Untorn ==
  ~torn => /\ NoTaskLost
           /\ \A t \in Task : t # curP => Safe(StkAddr[t])
           /\ ~pendSV => RunnerKnown
           /\ pendSV => SwitchKnown

IInv == Base /\ Untorn

-----------------------------------------------------------------------------
(* Lemmas. *)

(* A remainder is below its divisor. *)
LEMMA ModRange == ASSUME NEW m \in Int, NEW n \in Nat \ {0}
                  PROVE  m % n \in 0 .. n - 1
BY SMT

(* The tick's decrement stays in the range of OSTCBDly. *)
LEMMA DecrementedRange ==
  ASSUME TypeOK, NEW t \in Task
  PROVE  Decremented(t) \in 0 .. DlyMod - 1
<1>1. Dly[t] \in Int /\ Dly[t] \in 0 .. DlyMod - 1
  BY DlyModAssumption DEF TypeOK
<1>2. DlyMod \in Nat \ {0}
  BY DlyModAssumption, DelayAssumption
<1>3. (Dly[t] - 1) % DlyMod \in 0 .. DlyMod - 1
  <2> DEFINE m == Dly[t] - 1
  <2>1. m \in Int
    BY <1>1
  <2> HIDE DEF m
  <2>2. m % DlyMod \in 0 .. DlyMod - 1
    BY <1>2, <2>1, ModRange, Zenon
  <2> QED
    BY <2>2 DEF m
<1> QED
  BY <1>1, <1>3 DEF Decremented

(* What one scheduling tick does to the tables. *)
LEMMA TickDownTypes ==
  ASSUME TypeOK, TickDown
  PROVE  /\ OSRdyTbl' \subseteq Task
         /\ OSRdyTbl \subseteq OSRdyTbl'
         /\ Dly' \in [Task -> 0 .. DlyMod - 1]
         /\ State' \in [Task -> TaskState]
<1>1. OSRdyTbl' \subseteq Task /\ OSRdyTbl \subseteq OSRdyTbl'
  <2>1. OSRdyTbl' = OSRdyTbl \cup {t \in Expired : ~Hidden(t)}
    BY DEF TickDown
  <2>2. Expired \subseteq Task /\ OSRdyTbl \subseteq Task
    BY OsTasksAssumption DEF Expired, TypeOK
  <2> QED
    BY <2>1, <2>2
<1>2. \A t \in Task : Dly[t] \in 0 .. DlyMod - 1
  BY DEF TypeOK
<1>3. Dly' \in [Task -> 0 .. DlyMod - 1]
  BY <1>2, DecrementedRange DEF TickDown
<1>4. State' \in [Task -> TaskState]
  BY DEF TypeOK, TickDown, TaskState
<1> QED
  BY <1>1, <1>3, <1>4

-----------------------------------------------------------------------------
(* The initial state. *)
LEMMA InitIInv == Init => IInv
<1> SUFFICES ASSUME Init PROVE IInv
  OBVIOUS
<1> USE OsTasksAssumption, DelayAssumption, DlyModAssumption, CalcAssumption
        DEF Init
<1>1. \A t \in Task : Entry(t) \in Context /\ Entry(t).task = t
                      /\ (Entry(t).pc \in IdlePc <=> t = Idle) /\ Safe(Entry(t))
  BY DEF Entry, Context, UserPc, IdlePc, Safe
<1>2. TypeOK
  <2>1. StkAddr \in [Task -> Context]
    BY <1>1
  <2>2. Dly \in [Task -> 0 .. DlyMod - 1] /\ State \in [Task -> TaskState]
    BY DEF TaskState
  <2>3. OSRdyTbl \subseteq Task /\ OSPrioCur \in Task /\ highP \in Task
    OBVIOUS
  <2>4. elapsed \in 0 .. CalcTicks
    OBVIOUS
  <2>5. curP = NULL /\ regs = Main /\ TIME_SW \in {0, 1}
    BY Zenon
  <2>6. pendSV \in BOOLEAN /\ torn \in BOOLEAN
    BY Zenon
  <2> QED
    BY <2>1, <2>2, <2>3, <2>4, <2>5, <2>6, Zenon DEF TypeOK
<1>3. ContextIntact /\ CodeOfTask
  BY <1>1 DEF ContextIntact, CodeOfTask
<1>4. IdleNamed /\ IdleAlwaysReady /\ LockedOnlyByIdle /\ WaitingTaskCounts
  BY DEF IdleNamed, IdleAlwaysReady, LockedOnlyByIdle, WaitingTaskCounts
<1>5. NoTaskLost /\ SwitchKnown
  BY DEF NoTaskLost, SwitchKnown, IsHighest, Safe, Main
<1> QED
  BY <1>1, <1>2, <1>3, <1>4, <1>5 DEF IInv, Base, Untorn

-----------------------------------------------------------------------------
(* Every step preserves Base. *)

(* The updates a step makes to a context keep it a context.                 *)
LEMMA ContextUpdate ==
  ASSUME NEW c \in Context, NEW pc \in UserPc \cup IdlePc,
         NEW arg \in Task, NEW i \in Task
  PROVE  /\ [c EXCEPT !.pc = pc] \in Context
         /\ [c EXCEPT !.i = i] \in Context
         /\ [c EXCEPT !.pc = pc, !.i = i] \in Context
         /\ [c EXCEPT !.pc = pc, !.arg = arg] \in Context
BY DEF Context

(* Between switches the registers hold the context of *OS_Tcb_CurP.         *)
LEMMA RunnerContext ==
  ASSUME Base, ~pendSV
  PROVE  /\ curP \in Task /\ curP # NULL
         /\ regs \in Context /\ regs.task = curP
         /\ regs.pc \in IdlePc <=> curP = Idle
BY OsTasksAssumption DEF Base, TypeOK, ContextIntact, CodeOfTask

LEMMA DelayCriticalBase ==
  ASSUME Base, NEW ticks \in 0 .. MaxDelay, DelayCritical(ticks)
  PROVE  Base'
<1> USE OsTasksAssumption, DlyModAssumption, DelayAssumption DEF Running, DelayCritical, DelayCurrent
<1>1. /\ curP \in Task /\ curP # NULL
      /\ regs \in Context /\ regs.task = curP
      /\ regs.pc \in IdlePc <=> curP = Idle
  BY RunnerContext
<1>2. TypeOK'
  <2>1. regs' \in Context
    <3>1. "scan" \in UserPc /\ 0 \in Task
      BY DEF UserPc
    <3> QED
      BY <1>1, <3>1, ContextUpdate
  <2>2. /\ OSRdyTbl' \subseteq Task
        /\ Dly' \in [Task -> 0 .. DlyMod - 1] /\ State' \in [Task -> TaskState]
    BY DEF Base, TypeOK, TaskState
  <2>3. OSPrioCur' \in Task /\ highP' \in Task /\ elapsed' \in 0 .. CalcTicks
    BY <1>1, CalcAssumption DEF Base, TypeOK, Context
  <2>4. TIME_SW' \in {0, 1} /\ pendSV' \in BOOLEAN
    BY Zenon DEF Base, TypeOK
  <2> QED
    BY <1>1, <2>1, <2>2, <2>3, <2>4 DEF Base, TypeOK
<1>3. ContextIntact' /\ CodeOfTask'
  BY <1>1 DEF Base, ContextIntact, CodeOfTask, Context, UserPc, IdlePc
<1>4. IdleNamed'
  BY <1>1 DEF Base, TypeOK, IdleNamed, Context, UserPc, IdlePc
<1>5. IdleAlwaysReady' /\ LockedOnlyByIdle'
  BY <1>1 DEF Base, TypeOK, IdleNamed, IdleAlwaysReady, LockedOnlyByIdle, Context, IdlePc
<1>6. WaitingTaskCounts'
  BY <1>1 DEF Base, TypeOK, WaitingTaskCounts, TaskState
<1> QED
  BY <1>2, <1>3, <1>4, <1>5, <1>6 DEF Base

LEMMA SuspendCriticalBase ==
  ASSUME Base, NEW p \in UserTask, SuspendCritical(p)
  PROVE  Base'
<1> USE OsTasksAssumption, DlyModAssumption, DelayAssumption DEF Running, SuspendCritical
<1>1. /\ curP \in Task /\ curP # NULL
      /\ regs \in Context /\ regs.task = curP
      /\ regs.pc \in IdlePc <=> curP = Idle
  BY RunnerContext
<1>2. TypeOK'
  <2>1. regs' \in Context
    <3>1. "test" \in UserPc /\ p \in Task
      BY DEF UserPc
    <3> QED
      BY <1>1, <3>1, ContextUpdate
  <2>2. /\ OSRdyTbl' \subseteq Task
        /\ Dly' \in [Task -> 0 .. DlyMod - 1] /\ State' \in [Task -> TaskState]
    BY DEF Base, TypeOK, TaskState
  <2>3. OSPrioCur' \in Task /\ highP' \in Task /\ elapsed' \in 0 .. CalcTicks
    BY <1>1, CalcAssumption DEF Base, TypeOK, Context
  <2>4. TIME_SW' \in {0, 1} /\ pendSV' \in BOOLEAN
    BY Zenon DEF Base, TypeOK
  <2> QED
    BY <1>1, <2>1, <2>2, <2>3, <2>4 DEF Base, TypeOK
<1>3. ContextIntact' /\ CodeOfTask'
  BY <1>1 DEF Base, ContextIntact, CodeOfTask, Context, UserPc, IdlePc
<1>4. IdleNamed'
  BY <1>1 DEF Base, TypeOK, IdleNamed, Context, UserPc, IdlePc
<1>5. IdleAlwaysReady' /\ LockedOnlyByIdle'
  BY <1>1 DEF Base, TypeOK, IdleNamed, IdleAlwaysReady, LockedOnlyByIdle, Context, IdlePc
<1>6. WaitingTaskCounts'
  BY <1>1 DEF Base, TypeOK, WaitingTaskCounts, TaskState
<1> QED
  BY <1>2, <1>3, <1>4, <1>5, <1>6 DEF Base

LEMMA ResumeCriticalBase ==
  ASSUME Base, NEW p \in UserTask, ResumeCritical(p)
  PROVE  Base'
<1> USE OsTasksAssumption, DlyModAssumption, DelayAssumption DEF Running, ResumeCritical
<1>1. /\ curP \in Task /\ curP # NULL
      /\ regs \in Context /\ regs.task = curP
      /\ regs.pc \in IdlePc <=> curP = Idle
  BY RunnerContext
<1>2. TypeOK'
  <2>1. regs' \in Context
    <3>1. "test" \in UserPc /\ p \in Task
      BY DEF UserPc
    <3> QED
      BY <1>1, <3>1, ContextUpdate
  <2>2. /\ OSRdyTbl' \subseteq Task
        /\ Dly' \in [Task -> 0 .. DlyMod - 1] /\ State' \in [Task -> TaskState]
    BY DEF Base, TypeOK, TaskState
  <2>3. OSPrioCur' \in Task /\ highP' \in Task /\ elapsed' \in 0 .. CalcTicks
    BY <1>1, CalcAssumption DEF Base, TypeOK, Context
  <2>4. TIME_SW' \in {0, 1} /\ pendSV' \in BOOLEAN
    BY Zenon DEF Base, TypeOK
  <2> QED
    BY <1>1, <2>1, <2>2, <2>3, <2>4 DEF Base, TypeOK
<1>3. ContextIntact' /\ CodeOfTask'
  BY <1>1 DEF Base, ContextIntact, CodeOfTask, Context, UserPc, IdlePc
<1>4. IdleNamed'
  BY <1>1 DEF Base, TypeOK, IdleNamed, Context, UserPc, IdlePc
<1>5. IdleAlwaysReady' /\ LockedOnlyByIdle'
  BY <1>1 DEF Base, TypeOK, IdleNamed, IdleAlwaysReady, LockedOnlyByIdle, Context, IdlePc
<1>6. WaitingTaskCounts'
  BY <1>1 DEF Base, TypeOK, WaitingTaskCounts, TaskState
<1> QED
  BY <1>2, <1>3, <1>4, <1>5, <1>6 DEF Base

LEMMA CompareBase ==
  ASSUME Base, Compare
  PROVE  Base'
<1> USE OsTasksAssumption, DlyModAssumption, DelayAssumption DEF Running, Compare
<1>1. /\ curP \in Task /\ curP # NULL
      /\ regs \in Context /\ regs.task = curP
      /\ regs.pc \in IdlePc <=> curP = Idle
  BY RunnerContext
<1>2. TypeOK'
  <2>1. regs' \in Context
    <3>1. "scan" \in UserPc /\ "run" \in UserPc /\ 0 \in Task
      BY DEF UserPc
    <3> QED
      BY <1>1, <3>1, ContextUpdate
  <2>2. /\ OSRdyTbl' \subseteq Task
        /\ Dly' \in [Task -> 0 .. DlyMod - 1] /\ State' \in [Task -> TaskState]
    BY DEF Base, TypeOK, TaskState
  <2>3. OSPrioCur' \in Task /\ highP' \in Task /\ elapsed' \in 0 .. CalcTicks
    BY <1>1, CalcAssumption DEF Base, TypeOK, Context
  <2>4. TIME_SW' \in {0, 1} /\ pendSV' \in BOOLEAN
    BY Zenon DEF Base, TypeOK
  <2> QED
    BY <1>1, <2>1, <2>2, <2>3, <2>4 DEF Base, TypeOK
<1>3. ContextIntact' /\ CodeOfTask'
  BY <1>1 DEF Base, ContextIntact, CodeOfTask, Context, UserPc, IdlePc
<1>4. IdleNamed'
  BY <1>1 DEF Base, TypeOK, IdleNamed, Context, UserPc, IdlePc
<1>5. IdleAlwaysReady' /\ LockedOnlyByIdle'
  BY <1>1 DEF Base, TypeOK, IdleNamed, IdleAlwaysReady, LockedOnlyByIdle, Context, IdlePc
<1>6. WaitingTaskCounts'
  BY <1>1 DEF Base, TypeOK, WaitingTaskCounts, TaskState
<1> QED
  BY <1>2, <1>3, <1>4, <1>5, <1>6 DEF Base

LEMMA ScanBase ==
  ASSUME Base, Scan
  PROVE  Base'
<1> USE OsTasksAssumption, DlyModAssumption, DelayAssumption DEF Running, Scan, SearchOn
<1>1. /\ curP \in Task /\ curP # NULL
      /\ regs \in Context /\ regs.task = curP
      /\ regs.pc \in IdlePc <=> curP = Idle
  BY RunnerContext
<1>2. TypeOK'
  <2>1. regs' \in Context
    <3>1. "prio" \in UserPc /\ (SearchOn => regs.i + 1 \in Task)
      BY <1>1 DEF UserPc, Context
    <3> QED
      BY <1>1, <3>1, ContextUpdate
  <2>2. /\ OSRdyTbl' \subseteq Task
        /\ Dly' \in [Task -> 0 .. DlyMod - 1] /\ State' \in [Task -> TaskState]
    BY DEF Base, TypeOK, TaskState
  <2>3. OSPrioCur' \in Task /\ highP' \in Task /\ elapsed' \in 0 .. CalcTicks
    BY <1>1, CalcAssumption DEF Base, TypeOK, Context
  <2>4. TIME_SW' \in {0, 1} /\ pendSV' \in BOOLEAN
    BY Zenon DEF Base, TypeOK
  <2> QED
    BY <1>1, <2>1, <2>2, <2>3, <2>4 DEF Base, TypeOK
<1>3. ContextIntact' /\ CodeOfTask'
  BY <1>1 DEF Base, ContextIntact, CodeOfTask, Context, UserPc, IdlePc
<1>4. IdleNamed'
  BY <1>1 DEF Base, TypeOK, IdleNamed, Context, UserPc, IdlePc
<1>5. IdleAlwaysReady' /\ LockedOnlyByIdle'
  BY <1>1 DEF Base, TypeOK, IdleNamed, IdleAlwaysReady, LockedOnlyByIdle, Context, IdlePc
<1>6. WaitingTaskCounts'
  BY <1>1 DEF Base, TypeOK, WaitingTaskCounts, TaskState
<1> QED
  BY <1>2, <1>3, <1>4, <1>5, <1>6 DEF Base

LEMMA SetPrioBase ==
  ASSUME Base, SetPrio
  PROVE  Base'
<1> USE OsTasksAssumption, DlyModAssumption, DelayAssumption DEF Running, SetPrio, Goto
<1>1. /\ curP \in Task /\ curP # NULL
      /\ regs \in Context /\ regs.task = curP
      /\ regs.pc \in IdlePc <=> curP = Idle
  BY RunnerContext
<1>2. TypeOK'
  <2>1. regs' \in Context
    BY <1>1 DEF Base, TypeOK, Context, UserPc, IdlePc
  <2>2. /\ OSRdyTbl' \subseteq Task
        /\ Dly' \in [Task -> 0 .. DlyMod - 1] /\ State' \in [Task -> TaskState]
    BY DEF Base, TypeOK, TaskState
  <2>3. OSPrioCur' \in Task /\ highP' \in Task /\ elapsed' \in 0 .. CalcTicks
    BY <1>1, CalcAssumption DEF Base, TypeOK, Context
  <2>4. TIME_SW' \in {0, 1} /\ pendSV' \in BOOLEAN
    BY Zenon DEF Base, TypeOK
  <2> QED
    BY <1>1, <2>1, <2>2, <2>3, <2>4 DEF Base, TypeOK
<1>3. ContextIntact' /\ CodeOfTask'
  BY <1>1 DEF Base, ContextIntact, CodeOfTask, Context, UserPc, IdlePc
<1>4. IdleNamed'
  BY <1>1 DEF Base, TypeOK, IdleNamed, Context, UserPc, IdlePc
<1>5. IdleAlwaysReady' /\ LockedOnlyByIdle'
  BY <1>1 DEF Base, TypeOK, IdleNamed, IdleAlwaysReady, LockedOnlyByIdle, Context, IdlePc
<1>6. WaitingTaskCounts'
  BY <1>1 DEF Base, TypeOK, WaitingTaskCounts, TaskState
<1> QED
  BY <1>2, <1>3, <1>4, <1>5, <1>6 DEF Base

LEMMA SetHighRdyBase ==
  ASSUME Base, SetHighRdy
  PROVE  Base'
<1> USE OsTasksAssumption, DlyModAssumption, DelayAssumption DEF Running, SetHighRdy, Goto
<1>1. /\ curP \in Task /\ curP # NULL
      /\ regs \in Context /\ regs.task = curP
      /\ regs.pc \in IdlePc <=> curP = Idle
  BY RunnerContext
<1>2. TypeOK'
  <2>1. regs' \in Context
    BY <1>1 DEF Base, TypeOK, Context, UserPc, IdlePc
  <2>2. /\ OSRdyTbl' \subseteq Task
        /\ Dly' \in [Task -> 0 .. DlyMod - 1] /\ State' \in [Task -> TaskState]
    BY DEF Base, TypeOK, TaskState
  <2>3. OSPrioCur' \in Task /\ highP' \in Task /\ elapsed' \in 0 .. CalcTicks
    BY <1>1, CalcAssumption DEF Base, TypeOK, Context
  <2>4. TIME_SW' \in {0, 1} /\ pendSV' \in BOOLEAN
    BY Zenon DEF Base, TypeOK
  <2> QED
    BY <1>1, <2>1, <2>2, <2>3, <2>4 DEF Base, TypeOK
<1>3. ContextIntact' /\ CodeOfTask'
  BY <1>1 DEF Base, ContextIntact, CodeOfTask, Context, UserPc, IdlePc
<1>4. IdleNamed'
  BY <1>1 DEF Base, TypeOK, IdleNamed, Context, UserPc, IdlePc
<1>5. IdleAlwaysReady' /\ LockedOnlyByIdle'
  BY <1>1 DEF Base, TypeOK, IdleNamed, IdleAlwaysReady, LockedOnlyByIdle, Context, IdlePc
<1>6. WaitingTaskCounts'
  BY <1>1 DEF Base, TypeOK, WaitingTaskCounts, TaskState
<1> QED
  BY <1>2, <1>3, <1>4, <1>5, <1>6 DEF Base

LEMMA OSCtxSwBase ==
  ASSUME Base, OSCtxSw
  PROVE  Base'
<1> USE OsTasksAssumption, DlyModAssumption, DelayAssumption DEF Running, OSCtxSw, Goto
<1>1. /\ curP \in Task /\ curP # NULL
      /\ regs \in Context /\ regs.task = curP
      /\ regs.pc \in IdlePc <=> curP = Idle
  BY RunnerContext
<1>2. TypeOK'
  <2>1. regs' \in Context
    BY <1>1 DEF Base, TypeOK, Context, UserPc, IdlePc
  <2>2. /\ OSRdyTbl' \subseteq Task
        /\ Dly' \in [Task -> 0 .. DlyMod - 1] /\ State' \in [Task -> TaskState]
    BY DEF Base, TypeOK, TaskState
  <2>3. OSPrioCur' \in Task /\ highP' \in Task /\ elapsed' \in 0 .. CalcTicks
    BY <1>1, CalcAssumption DEF Base, TypeOK, Context
  <2>4. TIME_SW' \in {0, 1} /\ pendSV' \in BOOLEAN
    BY Zenon DEF Base, TypeOK
  <2> QED
    BY <1>1, <2>1, <2>2, <2>3, <2>4 DEF Base, TypeOK
<1>3. ContextIntact' /\ CodeOfTask'
  BY <1>1 DEF Base, ContextIntact, CodeOfTask, Context, UserPc, IdlePc
<1>4. IdleNamed'
  BY <1>1 DEF Base, TypeOK, IdleNamed, Context, UserPc, IdlePc
<1>5. IdleAlwaysReady' /\ LockedOnlyByIdle'
  BY <1>1 DEF Base, TypeOK, IdleNamed, IdleAlwaysReady, LockedOnlyByIdle, Context, IdlePc
<1>6. WaitingTaskCounts'
  BY <1>1 DEF Base, TypeOK, WaitingTaskCounts, TaskState
<1> QED
  BY <1>2, <1>3, <1>4, <1>5, <1>6 DEF Base

LEMMA IdleFirstBase ==
  ASSUME Base, IdleFirst
  PROVE  Base'
<1> USE OsTasksAssumption, DlyModAssumption, DelayAssumption DEF Running, IdleFirst, Goto
<1>1. /\ curP \in Task /\ curP # NULL
      /\ regs \in Context /\ regs.task = curP
      /\ regs.pc \in IdlePc <=> curP = Idle
  BY RunnerContext
<1>2. TypeOK'
  <2>1. regs' \in Context
    BY <1>1 DEF Base, TypeOK, Context, UserPc, IdlePc
  <2>2. /\ OSRdyTbl' \subseteq Task
        /\ Dly' \in [Task -> 0 .. DlyMod - 1] /\ State' \in [Task -> TaskState]
    BY DEF Base, TypeOK, TaskState
  <2>3. OSPrioCur' \in Task /\ highP' \in Task /\ elapsed' \in 0 .. CalcTicks
    BY <1>1, CalcAssumption DEF Base, TypeOK, Context
  <2>4. TIME_SW' \in {0, 1} /\ pendSV' \in BOOLEAN
    BY Zenon DEF Base, TypeOK
  <2> QED
    BY <1>1, <2>1, <2>2, <2>3, <2>4 DEF Base, TypeOK
<1>3. ContextIntact' /\ CodeOfTask'
  BY <1>1 DEF Base, ContextIntact, CodeOfTask, Context, UserPc, IdlePc
<1>4. IdleNamed'
  BY <1>1 DEF Base, TypeOK, IdleNamed, Context, UserPc, IdlePc
<1>5. IdleAlwaysReady' /\ LockedOnlyByIdle'
  BY <1>1 DEF Base, TypeOK, IdleNamed, IdleAlwaysReady, LockedOnlyByIdle, Context, IdlePc
<1>6. WaitingTaskCounts'
  BY <1>1 DEF Base, TypeOK, WaitingTaskCounts, TaskState
<1> QED
  BY <1>2, <1>3, <1>4, <1>5, <1>6 DEF Base

LEMMA IdleCalibratedBase ==
  ASSUME Base, IdleCalibrated
  PROVE  Base'
<1> USE OsTasksAssumption, DlyModAssumption, DelayAssumption DEF Running, IdleCalibrated, Goto
<1>1. /\ curP \in Task /\ curP # NULL
      /\ regs \in Context /\ regs.task = curP
      /\ regs.pc \in IdlePc <=> curP = Idle
  BY RunnerContext
<1>2. TypeOK'
  <2>1. regs' \in Context
    BY <1>1 DEF Base, TypeOK, Context, UserPc, IdlePc
  <2>2. /\ OSRdyTbl' \subseteq Task
        /\ Dly' \in [Task -> 0 .. DlyMod - 1] /\ State' \in [Task -> TaskState]
    BY DEF Base, TypeOK, TaskState
  <2>3. OSPrioCur' \in Task /\ highP' \in Task /\ elapsed' \in 0 .. CalcTicks
    BY <1>1, CalcAssumption DEF Base, TypeOK, Context
  <2>4. TIME_SW' \in {0, 1} /\ pendSV' \in BOOLEAN
    BY Zenon DEF Base, TypeOK
  <2> QED
    BY <1>1, <2>1, <2>2, <2>3, <2>4 DEF Base, TypeOK
<1>3. ContextIntact' /\ CodeOfTask'
  BY <1>1 DEF Base, ContextIntact, CodeOfTask, Context, UserPc, IdlePc
<1>4. IdleNamed'
  BY <1>1 DEF Base, TypeOK, IdleNamed, Context, UserPc, IdlePc
<1>5. IdleAlwaysReady' /\ LockedOnlyByIdle'
  BY <1>1 DEF Base, TypeOK, IdleNamed, IdleAlwaysReady, LockedOnlyByIdle, Context, IdlePc
<1>6. WaitingTaskCounts'
  BY <1>1 DEF Base, TypeOK, WaitingTaskCounts, TaskState
<1> QED
  BY <1>2, <1>3, <1>4, <1>5, <1>6 DEF Base

LEMMA IdleMeasuredBase ==
  ASSUME Base, IdleMeasured
  PROVE  Base'
<1> USE OsTasksAssumption, DlyModAssumption, DelayAssumption DEF Running, IdleMeasured
<1>1. /\ curP \in Task /\ curP # NULL
      /\ regs \in Context /\ regs.task = curP
      /\ regs.pc \in IdlePc <=> curP = Idle
  BY RunnerContext
<1>2. TypeOK'
  <2>1. regs' \in Context
    BY <1>1 DEF Base, TypeOK, Context, UserPc, IdlePc
  <2>2. /\ OSRdyTbl' \subseteq Task
        /\ Dly' \in [Task -> 0 .. DlyMod - 1] /\ State' \in [Task -> TaskState]
    BY DEF Base, TypeOK, TaskState
  <2>3. OSPrioCur' \in Task /\ highP' \in Task /\ elapsed' \in 0 .. CalcTicks
    BY <1>1, CalcAssumption DEF Base, TypeOK, Context
  <2>4. TIME_SW' \in {0, 1} /\ pendSV' \in BOOLEAN
    BY Zenon DEF Base, TypeOK
  <2> QED
    BY <1>1, <2>1, <2>2, <2>3, <2>4 DEF Base, TypeOK
<1>3. ContextIntact' /\ CodeOfTask'
  BY <1>1 DEF Base, ContextIntact, CodeOfTask, Context, UserPc, IdlePc
<1>4. IdleNamed'
  BY <1>1 DEF Base, TypeOK, IdleNamed, Context, UserPc, IdlePc
<1>5. IdleAlwaysReady' /\ LockedOnlyByIdle'
  BY <1>1 DEF Base, TypeOK, IdleNamed, IdleAlwaysReady, LockedOnlyByIdle, Context, IdlePc
<1>6. WaitingTaskCounts'
  BY <1>1 DEF Base, TypeOK, WaitingTaskCounts, TaskState
<1> QED
  BY <1>2, <1>3, <1>4, <1>5, <1>6 DEF Base

(* A sleeper that a scheduling tick leaves asleep has ticks left.           *)
LEMMA TickDownCounts ==
  ASSUME TypeOK, TickDown, NEW t \in UserTask,
         State'[t] = "DELAY", t \notin OSRdyTbl'
  PROVE  Dly'[t] > 0
<1>1. t \in Task /\ t # Idle
  BY OsTasksAssumption
<1>2. ~Hidden(t) /\ State[t] = "DELAY"
  <2>1. CASE Expired = {}
    BY <2>1, <1>1 DEF TickDown, Hidden
  <2>2. CASE Expired # {}
    <3>1. State' = [State EXCEPT ![OSPrioCur] = "READY"]
      BY <2>2 DEF TickDown
    <3>2. t # OSPrioCur
      BY <3>1, <1>1 DEF TypeOK
    <3> QED
      BY <3>1, <3>2, <1>1 DEF TypeOK, Hidden
  <2> QED
    BY <2>1, <2>2
<1>3. t \notin Expired
  BY <1>2 DEF TickDown
<1>4. Decremented(t) # 0
  BY <1>2, <1>3 DEF Expired
<1>5. Decremented(t) \in 0 .. DlyMod - 1
  BY <1>1, DecrementedRange
<1>6. Dly'[t] = Decremented(t)
  BY <1>1, <1>2 DEF TickDown
<1> QED
  BY <1>4, <1>5, <1>6, DlyModAssumption

LEMMA TickBase ==
  ASSUME Base, Tick
  PROVE  Base'
<1>1. CASE TIME_SW = 1 /\ Reschedule
  <2>1. /\ OSRdyTbl' \subseteq Task /\ OSRdyTbl \subseteq OSRdyTbl'
        /\ Dly' \in [Task -> 0 .. DlyMod - 1]
        /\ State' \in [Task -> TaskState]
    BY <1>1, TickDownTypes DEF Base, Reschedule
  <2>2. OSPrioCur' \in Task /\ highP' = OSPrioCur'
    BY <1>1 DEF Reschedule, Elect, IsHighest
  <2>3. UNCHANGED <<StkAddr, curP, TIME_SW, regs>> /\ pendSV'
    BY <1>1, Zenon DEF Tick, Reschedule
  <2>4. elapsed' \in 0 .. CalcTicks
    BY CalcAssumption DEF Tick, Base, TypeOK
  <2>5. pendSV' \in BOOLEAN /\ torn' \in BOOLEAN
    BY <1>1, Zenon DEF Reschedule
  <2>6. TypeOK'
    BY <2>1, <2>2, <2>3, <2>4, <2>5 DEF Base, TypeOK
  <2>7. ContextIntact' /\ CodeOfTask'
    BY <2>3 DEF Base, ContextIntact, CodeOfTask
  <2>8. IdleNamed' /\ IdleAlwaysReady'
    BY <2>1, <2>2, <2>3 DEF Base, IdleNamed, IdleAlwaysReady
  <2>9. LockedOnlyByIdle'
    BY <1>1, <2>3 DEF LockedOnlyByIdle
  <2>10. WaitingTaskCounts'
    <3> SUFFICES ASSUME NEW t \in UserTask, State'[t] = "DELAY", t \notin OSRdyTbl'
                 PROVE  Dly'[t] > 0
      BY DEF WaitingTaskCounts
    <3> QED
      BY <1>1, TickDownCounts DEF Base, Reschedule
  <2> QED
    BY <2>6, <2>7, <2>8, <2>9, <2>10 DEF Base
<1>2. CASE TIME_SW = 0 /\ UNCHANGED <<OSRdyTbl, OSPrioCur, Dly, State, highP,
                                     pendSV, torn>>
  <2>1. UNCHANGED <<StkAddr, curP, TIME_SW, regs>>
    BY DEF Tick
  <2>2. elapsed' \in 0 .. CalcTicks
    BY CalcAssumption DEF Tick, Base, TypeOK
  <2>3. TypeOK'
    BY <1>2, <2>1, <2>2 DEF Base, TypeOK
  <2> QED
    BY <1>2, <2>1, <2>3 DEF Base, ContextIntact, CodeOfTask, IdleNamed,
       IdleAlwaysReady, LockedOnlyByIdle, WaitingTaskCounts
<1> QED
  BY <1>1, <1>2 DEF Tick, Scheduling

LEMMA PendSVBase ==
  ASSUME Base, PendSV_Handler
  PROVE  Base'
<1>1. /\ pendSV /\ ~pendSV' /\ Save /\ curP' = highP /\ regs' = StkAddr'[highP]
      /\ UNCHANGED <<OSRdyTbl, OSPrioCur, Dly, State, highP, TIME_SW, elapsed, torn>>
  BY DEF PendSV_Handler
<1>2. curP' \in Task /\ curP' # NULL
  BY <1>1, OsTasksAssumption DEF Base, TypeOK
<1>3. /\ StkAddr' \in [Task -> Context]
      /\ \A t \in Task : StkAddr'[t].task = t /\ (StkAddr'[t].pc \in IdlePc <=> t = Idle)
  <2>1. CASE curP = NULL
    BY <1>1, <2>1 DEF Base, TypeOK, ContextIntact, CodeOfTask, Save
  <2>2. CASE curP # NULL
    <3>1. curP \in Task /\ regs \in Context /\ regs.task = curP
          /\ (regs.pc \in IdlePc <=> curP = Idle)
      BY <2>2 DEF Base, TypeOK, ContextIntact, CodeOfTask
    <3>2. StkAddr' = [StkAddr EXCEPT ![curP] = regs]
      BY <1>1, <2>2 DEF Save
    <3> QED
      BY <3>1, <3>2 DEF Base, TypeOK, ContextIntact, CodeOfTask
  <2> QED
    BY <2>1, <2>2
<1>4. regs' \in Context /\ regs'.task = curP' /\ (regs'.pc \in IdlePc <=> curP' = Idle)
  BY <1>1, <1>2, <1>3
<1>5. pendSV' \in BOOLEAN
  BY <1>1, Zenon DEF PendSV_Handler
<1>6. TypeOK'
  BY <1>1, <1>2, <1>3, <1>4, <1>5 DEF Base, TypeOK
<1>7. ContextIntact' /\ CodeOfTask'
  BY <1>2, <1>3, <1>4 DEF ContextIntact, CodeOfTask
<1>8. IdleNamed' /\ IdleAlwaysReady' /\ LockedOnlyByIdle' /\ WaitingTaskCounts'
  BY <1>1 DEF Base, TypeOK, IdleNamed, IdleAlwaysReady, LockedOnlyByIdle,
              WaitingTaskCounts
<1> QED
  BY <1>6, <1>7, <1>8 DEF Base

LEMMA StutterBase == Base /\ UNCHANGED vars => Base'
BY DEF vars, Base, TypeOK, ContextIntact, CodeOfTask, IdleNamed,
       IdleAlwaysReady, LockedOnlyByIdle, WaitingTaskCounts

(* Base is inductive on its own. *)
LEMMA BaseStep == Base /\ [Next]_vars => Base'
<1> SUFFICES ASSUME Base, [Next]_vars PROVE Base'
  OBVIOUS
<1>1. CASE KernelCall
  BY <1>1, DelayCriticalBase, SuspendCriticalBase, ResumeCriticalBase DEF KernelCall
<1>2. CASE KernelStep
  BY <1>2, CompareBase, ScanBase, SetPrioBase, SetHighRdyBase, OSCtxSwBase
     DEF KernelStep
<1>3. CASE IdleStep
  BY <1>3, IdleFirstBase, IdleCalibratedBase, IdleMeasuredBase DEF IdleStep
<1>4. CASE Tick
  BY <1>4, TickBase
<1>5. CASE PendSV_Handler
  BY <1>5, PendSVBase
<1>6. CASE UNCHANGED vars
  BY <1>6, StutterBase
<1> QED
  BY <1>1, <1>2, <1>3, <1>4, <1>5, <1>6 DEF Next

-----------------------------------------------------------------------------
(* What holds whatever the ticks tear. *)

THEOREM BaseInvariant == Spec => []Base
<1>1. Init => Base
  BY InitIInv DEF IInv
<1> QED
  BY <1>1, BaseStep, PTL DEF Spec

(* TypeOK for every number of tasks. *)
THEOREM TypeCorrect == Spec => []TypeOK
BY BaseInvariant, PTL DEF Base

(* The idle task never leaves the ready table (os.c:255).                   *)
THEOREM IdleStaysReady == Spec => []IdleAlwaysReady
BY BaseInvariant, PTL DEF Base

(* PendSV never mixes the contexts of two tasks.                            *)
THEOREM ContextsStayApart == Spec => []ContextIntact
BY BaseInvariant, PTL DEF Base

(* Only the calibrating idle task stops the scheduler.                      *)
THEOREM LockIsIdles == Spec => []LockedOnlyByIdle
BY BaseInvariant, PTL DEF Base

(* No sleeper's count wraps.                                                *)
THEOREM SleepersCount == Spec => []WaitingTaskCounts
BY BaseInvariant, PTL DEF Base

-----------------------------------------------------------------------------
(* What holds until a tick tears a call. *)

LEMMA KernelCallUntorn ==
  ASSUME IInv, KernelCall
  PROVE  Untorn'
<1>1. /\ curP \in Task /\ curP # NULL /\ ~pendSV /\ ~pendSV'
      /\ regs \in Context /\ regs.task = curP /\ regs.pc = "run"
      /\ curP # Idle
      /\ UNCHANGED <<OSPrioCur, StkAddr, curP, highP, torn>>
  <2>1. /\ ~pendSV /\ regs.pc = "run"
        /\ UNCHANGED <<OSPrioCur, StkAddr, curP, highP, torn, pendSV>>
    BY DEF KernelCall, DelayCritical, DelayCurrent, SuspendCritical,
           ResumeCritical, Running
  <2> QED
    BY <2>1, RunnerContext DEF IInv, IdlePc
<1> SUFFICES ASSUME ~torn
             PROVE  NoTaskLost' /\ RunnerKnown'
  BY <1>1 DEF IInv, Untorn, Safe
<1>2. OSPrioCur = curP /\ curP \in OSRdyTbl /\ NoTaskLost
  BY <1>1 DEF IInv, Untorn, RunnerKnown
<1> USE OsTasksAssumption
<1>3. ASSUME NEW ticks \in 0 .. MaxDelay, DelayCritical(ticks)
      PROVE  NoTaskLost' /\ RunnerKnown'
  <2> USE <1>3 DEF DelayCritical, DelayCurrent
  <2>1. NoTaskLost'
    BY <1>2 DEF NoTaskLost, IInv, Base, TypeOK
  <2>2. regs'.pc = "scan" /\ regs'.i = 0
    BY <1>1 DEF Context
  <2> QED
    BY <1>1, <1>2, <2>1, <2>2 DEF RunnerKnown
<1>4. ASSUME NEW p \in UserTask, SuspendCritical(p)
      PROVE  NoTaskLost' /\ RunnerKnown'
  <2> USE <1>4 DEF SuspendCritical
  <2>1. NoTaskLost'
    BY <1>2 DEF NoTaskLost, IInv, Base, TypeOK
  <2>2. regs'.pc = "test" /\ regs'.arg = p
    BY <1>1 DEF Context
  <2> QED
    BY <1>1, <1>2, <2>1, <2>2 DEF RunnerKnown
<1>5. ASSUME NEW p \in UserTask, ResumeCritical(p)
      PROVE  NoTaskLost' /\ RunnerKnown'
  <2> USE <1>5 DEF ResumeCritical
  <2>1. NoTaskLost'
    BY <1>2 DEF NoTaskLost, IInv, Base, TypeOK
  <2>2. regs'.pc = "test" /\ regs'.arg = p
    BY <1>1 DEF Context
  <2> QED
    BY <1>1, <1>2, <2>1, <2>2 DEF RunnerKnown
<1> QED
  BY <1>3, <1>4, <1>5 DEF KernelCall

LEMMA KernelStepUntorn ==
  ASSUME IInv, KernelStep
  PROVE  Untorn'
<1>1. /\ curP \in Task /\ curP # NULL /\ ~pendSV
      /\ regs \in Context /\ regs.task = curP /\ regs.pc \in UserPc
      /\ UNCHANGED <<StkAddr, curP, torn, OSRdyTbl, State>>
  BY RunnerContext, Zenon DEF IInv, KernelStep, Compare, Scan, SetPrio,
     SetHighRdy, OSCtxSw, Running, UserPc
<1> SUFFICES ASSUME ~torn
             PROVE  (~pendSV' => RunnerKnown') /\ (pendSV' => SwitchKnown')
  BY <1>1 DEF IInv, Untorn, Safe, NoTaskLost
<1>2. RunnerKnown
  BY <1>1 DEF IInv, Untorn
<1> USE OsTasksAssumption
<1>3. CASE Compare
  <2>1. UNCHANGED <<OSPrioCur, highP, pendSV>> /\ regs.pc = "test"
    BY <1>3 DEF Compare, Running
  <2>2. \/ OSPrioCur = regs.arg /\ regs'.pc = "scan" /\ regs'.i = 0
        \/ OSPrioCur # regs.arg /\ regs'.pc = "run"
    BY <1>1, <1>3 DEF Compare, Context
  <2> QED
    BY <1>1, <1>2, <2>1, <2>2 DEF RunnerKnown, IdlePc
<1>4. CASE Scan
  <2>1. UNCHANGED <<OSPrioCur, highP, pendSV>> /\ regs.pc = "scan"
    BY <1>4 DEF Scan, Running
  <2>2. CASE SearchOn
    <3>1. regs'.pc = "scan" /\ regs'.i = regs.i + 1 /\ regs.i \notin OSRdyTbl
      BY <1>1, <1>4, <2>1, <2>2 DEF Scan, SearchOn, Context
    <3> QED
      BY <1>1, <1>2, <2>1, <3>1 DEF RunnerKnown, Context
  <2>3. CASE ~SearchOn
    <3>1. regs'.pc = "prio" /\ regs'.i = regs.i
      BY <1>1, <1>4, <2>3 DEF Scan, Context
    <3>2. IsHighest(regs.i, OSRdyTbl)
      BY <1>1, <1>2, <2>1, <2>3 DEF RunnerKnown, IsHighest, SearchOn, Context
    <3> QED
      BY <1>1, <1>2, <2>1, <3>1, <3>2 DEF RunnerKnown
  <2> QED
    BY <2>2, <2>3
<1>5. CASE SetPrio
  <2>1. /\ UNCHANGED <<highP, pendSV>> /\ regs.pc = "prio" /\ OSPrioCur' = regs.i
        /\ regs'.pc = "ptr" /\ regs'.i = regs.i
    BY <1>1, <1>5 DEF SetPrio, Running, Goto, Context
  <2> QED
    BY <1>1, <1>2, <2>1 DEF RunnerKnown, IdlePc
<1>6. CASE SetHighRdy
  <2>1. /\ UNCHANGED <<OSPrioCur, pendSV>> /\ regs.pc = "ptr" /\ highP' = regs.i
        /\ regs'.pc = "sw"
    BY <1>1, <1>6 DEF SetHighRdy, Running, Goto, Context
  <2> QED
    BY <1>1, <1>2, <2>1 DEF RunnerKnown, IdlePc
<1>7. CASE OSCtxSw
  <2>1. /\ UNCHANGED <<OSPrioCur, highP>> /\ regs.pc = "sw" /\ pendSV'
        /\ regs'.pc = "run"
    BY <1>1, <1>7 DEF OSCtxSw, Running, Goto, Context
  <2> QED
    BY <1>1, <1>2, <2>1 DEF RunnerKnown, SwitchKnown, Safe
<1> QED
  BY <1>3, <1>4, <1>5, <1>6, <1>7 DEF KernelStep

LEMMA IdleStepUntorn ==
  ASSUME IInv, IdleStep
  PROVE  Untorn'
<1>1. /\ curP \in Task /\ curP # NULL /\ ~pendSV /\ ~pendSV'
      /\ regs \in Context /\ regs.task = curP /\ regs.pc \in IdlePc
      /\ UNCHANGED <<StkAddr, curP, torn, OSRdyTbl, State, OSPrioCur, highP>>
  <2>1. /\ ~pendSV /\ regs.pc \in IdlePc
        /\ UNCHANGED <<StkAddr, curP, torn, OSRdyTbl, State, OSPrioCur, highP, pendSV>>
    BY DEF IdleStep, IdleFirst, IdleCalibrated, IdleMeasured, Running, IdlePc
  <2> QED
    BY <2>1, RunnerContext DEF IInv
<1>2. regs'.pc \in IdlePc
  BY <1>1 DEF IdleStep, IdleFirst, IdleCalibrated, IdleMeasured, Goto, IdlePc,
     Context
<1> QED
  BY <1>1, <1>2 DEF IInv, Untorn, RunnerKnown, Safe, NoTaskLost, IdlePc

(* Where no tick tears, the task OSPrioCur names is ready.                  *)
LEMMA PrioCurReady ==
  ASSUME IInv, ~torn, pendSV \/ ~InWindow
  PROVE  OSPrioCur \in OSRdyTbl
<1>1. CASE pendSV
  BY <1>1 DEF IInv, Untorn, SwitchKnown, IsHighest, Base, IdleAlwaysReady
<1>2. CASE ~pendSV /\ ~InWindow
  <2>1. regs \in Context /\ (regs.pc \in IdlePc <=> curP = Idle) /\ RunnerKnown
    BY <1>2, RunnerContext DEF IInv, Untorn
  <2> QED
    BY <1>2, <2>1 DEF RunnerKnown, InWindow, IInv, Base, IdleAlwaysReady,
       IsHighest, Context, UserPc
<1> QED
  BY <1>1, <1>2

LEMMA TickUntorn ==
  ASSUME IInv, Tick
  PROVE  Untorn'
<1>1. UNCHANGED <<StkAddr, curP, regs>>
  BY DEF Tick
<1>2. CASE TIME_SW = 1 /\ Reschedule
  <2>1. pendSV' /\ TickDown /\ Elect
    BY <1>2 DEF Reschedule
  <2> SUFFICES ASSUME ~torn'
               PROVE  NoTaskLost' /\ SwitchKnown'
    <3>1. torn' \/ ~torn
      BY <1>2, Zenon DEF Reschedule
    <3> QED
      BY <1>1, <2>1, <3>1 DEF IInv, Untorn, Safe
  <2>2. ~torn /\ (pendSV \/ ~InWindow)
    BY <1>2, Zenon DEF Reschedule
  <2>3. Safe(regs)
    <3>1. CASE pendSV
      BY <2>2, <3>1 DEF IInv, Untorn, SwitchKnown
    <3>2. CASE ~pendSV
      BY <2>2, <3>2, RunnerContext DEF IInv, Untorn, RunnerKnown, InWindow, Safe
    <3> QED
      BY <3>1, <3>2
  <2>4. SwitchKnown'
    BY <1>1, <2>1, <2>3 DEF SwitchKnown, Elect, Safe
  <2>5. NoTaskLost'
    <3> SUFFICES ASSUME NEW t \in UserTask, t \notin OSRdyTbl'
                 PROVE  State'[t] \in {"DELAY", "SUSPEND"}
      BY DEF NoTaskLost
    <3>1. TypeOK /\ t \in Task
      BY OsTasksAssumption DEF IInv, Base
    <3>2. OSRdyTbl \subseteq OSRdyTbl'
      BY <2>1, <3>1, TickDownTypes
    <3>3. t # OSPrioCur
      BY <2>2, <3>2, PrioCurReady
    <3>4. State[t] \in {"DELAY", "SUSPEND"}
      BY <2>2, <3>2 DEF IInv, Untorn, NoTaskLost
    <3> QED
      BY <2>1, <3>1, <3>3, <3>4 DEF TickDown, TypeOK
  <2> QED
    BY <2>4, <2>5
<1>3. CASE TIME_SW = 0 /\ UNCHANGED <<OSRdyTbl, OSPrioCur, Dly, State, highP,
                                     pendSV, torn>>
  BY <1>1, <1>3 DEF IInv, Untorn, NoTaskLost, Safe, RunnerKnown, SwitchKnown
<1> QED
  BY <1>2, <1>3 DEF Tick, Scheduling

LEMMA PendSVUntorn ==
  ASSUME IInv, PendSV_Handler
  PROVE  Untorn'
<1>1. /\ pendSV /\ ~pendSV' /\ Save /\ curP' = highP /\ regs' = StkAddr'[highP]
      /\ UNCHANGED <<OSRdyTbl, OSPrioCur, State, highP, torn>>
  BY DEF PendSV_Handler
<1> SUFFICES ASSUME ~torn
             PROVE  (\A t \in Task : Safe(StkAddr'[t])) /\ RunnerKnown'
  BY <1>1 DEF IInv, Untorn, NoTaskLost, Safe
<1>2. SwitchKnown /\ \A t \in Task : t # curP => Safe(StkAddr[t])
  BY <1>1 DEF IInv, Untorn
<1>3. \A t \in Task : Safe(StkAddr'[t])
  <2>1. StkAddr \in [Task -> Context] /\ (curP # NULL => curP \in Task)
    BY DEF IInv, Base, TypeOK
  <2>2. CASE curP = NULL
    BY <1>1, <1>2, <2>2, OsTasksAssumption DEF Save
  <2>3. CASE curP # NULL
    <3>1. StkAddr' = [StkAddr EXCEPT ![curP] = regs]
      BY <1>1, <2>3 DEF Save
    <3>2. \A t \in Task : StkAddr'[t] = IF t = curP THEN regs ELSE StkAddr[t]
      BY <2>1, <3>1
    <3>3. Safe(regs)
      BY <1>2 DEF SwitchKnown
    <3> QED
      BY <1>2, <3>2, <3>3
  <2> QED
    BY <2>2, <2>3
<1>4. Base'
  BY PendSVBase DEF IInv
<1>5. /\ curP' \in Task /\ curP' # NULL /\ regs' \in Context /\ regs'.task = curP'
      /\ (regs'.pc \in IdlePc <=> curP' = Idle)
  BY <1>1, <1>4, OsTasksAssumption DEF Base, TypeOK, ContextIntact, CodeOfTask
<1>6. Safe(regs') /\ IsHighest(curP', OSRdyTbl') /\ OSPrioCur' = curP'
  BY <1>1, <1>2, <1>3, <1>5 DEF SwitchKnown
<1>7. curP' \in OSRdyTbl'
  BY <1>1, <1>6 DEF IsHighest, IInv, Base, IdleAlwaysReady
<1>8. RunnerKnown'
  BY <1>1, <1>5, <1>6, <1>7 DEF RunnerKnown, Safe
<1> QED
  BY <1>3, <1>8

LEMMA IInvStep == IInv /\ [Next]_vars => IInv'
<1> SUFFICES ASSUME IInv, [Next]_vars PROVE IInv'
  OBVIOUS
<1>1. Base'
  BY BaseStep DEF IInv
<1>2. CASE UNCHANGED vars
  <2>1. Untorn'
    BY <1>2 DEF vars, IInv, Untorn, NoTaskLost, Safe, RunnerKnown, SwitchKnown
  <2> QED
    BY <1>1, <2>1 DEF IInv
<1>3. CASE Next
  <2>1. Untorn'
    BY <1>3, KernelCallUntorn, KernelStepUntorn, IdleStepUntorn, TickUntorn,
       PendSVUntorn DEF Next
  <2> QED
    BY <1>1, <2>1 DEF IInv
<1> QED
  BY <1>2, <1>3

THEOREM Inductive == Spec => []IInv
BY InitIInv, IInvStep, PTL DEF Spec

(* Until a tick tears a call, no task is lost.                              *)
THEOREM NobodyLost == Spec => []UntornLosesNobody
<1>1. IInv => UntornLosesNobody
  BY DEF IInv, Untorn, UntornLosesNobody
<1> QED
  BY <1>1, Inductive, PTL

(* Until a tick tears a call, the running task is the one the kernel        *)
(* believes in, and it is ready.                                            *)
THEOREM RunnerReady == Spec => []UntornRunsReady
<1>1. IInv => UntornRunsReady
  <2> SUFFICES ASSUME IInv, ~torn, ~pendSV,
                      regs.pc \in {"run", "test", "scan", "prio"}
               PROVE  /\ OSPrioCur = regs.task
                      /\ regs.pc = "run" => regs.task \in OSRdyTbl
    BY Zenon DEF UntornRunsReady
  <2> QED
    BY RunnerContext DEF IInv, Untorn, RunnerKnown
<1> QED
  BY <1>1, Inductive, PTL

(* Until a tick tears a call, the task handed to PendSV is the highest      *)
(* ready one.                                                               *)
THEOREM HighestDispatched == Spec => UntornDispatchesHighest
<1>1. IInv /\ [Next]_vars => [SetHighRdy /\ ~torn => IsHighest(highP', OSRdyTbl)]_vars
  <2> SUFFICES ASSUME IInv, SetHighRdy, ~torn
               PROVE  IsHighest(highP', OSRdyTbl)
    OBVIOUS
  <2> QED
    BY DEF IInv, Untorn, RunnerKnown, SetHighRdy, Running
<1> QED
  BY <1>1, Inductive, PTL DEF Spec, UntornDispatchesHighest
=============================================================================

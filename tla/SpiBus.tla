------------------------------- MODULE SpiBus -------------------------------
(***************************************************************************)
(* One SPI bus shared by the drivers of several tasks: take and release of  *)
(* mcuSpi (ebox_mcu_spi.cpp), with the time that take waits on (mcu.cpp).   *)
(*                                                                         *)
(* Time is counted in units, PerMs to a millisecond.  milli_seconds and     *)
(* micros wrap at widths of their own: micros 1000 times as often.  A task  *)
(* that polls runs again within MaxLag units; elsewhere a task may be       *)
(* preempted for any time.                                                  *)
(***************************************************************************)
EXTENDS Integers, Functions

CONSTANTS
  Task,
  Device,  (* the number of a task's device (Config_t.dev_num)              *)
  PerMs,   (* units of micros in a millisecond: 1000                        *)
  MsMod,   (* milli_seconds wraps: 2^32                                    *)
  UsMod,   (* micros wraps: 2^32                                           *)
  Timeout, (* the milliseconds that take waits: 200                         *)
  MaxLag   (* bound on the units between two polls of a waiting task        *)

ASSUME DeviceAssumption == DOMAIN Device = Task
ASSUME TimeAssumption ==
  /\ PerMs \in Nat \ {0} /\ Timeout \in Nat /\ MaxLag \in Nat
  /\ MsMod \in Nat /\ MsMod > Timeout
  /\ UsMod \in Nat /\ UsMod > PerMs /\ (PerMs * MsMod) % UsMod = 0

VARIABLES
  now,       (* the time, round both wraps                                  *)
  busy,      (* _busy                                                      *)
  current,   (* current_dev_num                                            *)
  registers, (* the device whose mode the SPI registers hold                *)
  pc,        (* where a task stands                                        *)
  end,       (* the local end of take                                      *)
  wake,      (* the local end of delay_ms                                  *)
  lag,       (* units since a waiting task has polled                      *)
  waited,    (* history: units since take was called, as far as MaxWait + 1  *)
  missed,    (* history: micros wrapped before the task's delay_ms saw end  *)
  overtaken  (* history: a task found the bus free while another was        *)
             (* between that and _busy = 1, or went on after EWAIT          *)

bus   == <<busy, current, registers>>
local == <<end, wake, lag, waited, missed>>  (* of a call of take            *)
vars  == <<now, bus, pc, local, overtaken>>

Ms     == now \div PerMs
Micros == now % UsMod

(* Every driver has called begin, which configures the bus for it.          *)
Init ==
  /\ now = 0
  /\ busy = 0
  /\ \E t \in Task : current = Device[t] /\ registers = Device[t]
  /\ pc = [t \in Task |-> "idle"]
  /\ end = [t \in Task |-> 0] /\ wake = [t \in Task |-> 0]
  /\ lag = [t \in Task |-> 0] /\ waited = [t \in Task |-> 0]
  /\ missed = [t \in Task |-> FALSE] /\ overtaken = FALSE

Waits(t)  == pc[t] \in {"test", "delay", "check"}
Enters(t) == pc[t] \in {"compare", "number", "configure", "claim"}
Uses(t)   == pc[t] \in {"transfer", "release"}

(* How long a take may wait, in units: the timeout with the millisecond that *)
(* had begun, one delay_ms more, and the lags of its three polls.           *)
MaxWait == (Timeout + 2) * PerMs + 3 * MaxLag

(* No poll comes so late that a clock has gone round since: micros in a      *)
(* delay_ms, milli_seconds in a take.                                       *)
ASSUME LagAssumption ==
  /\ MaxLag <= UsMod - PerMs
  /\ MaxWait + PerMs < PerMs * MsMod

Goes(t, p)  == pc' = [pc EXCEPT ![t] = p]
Set(f, t, v) == [f EXCEPT ![t] = v]
Polled(t)   == lag' = Set(lag, t, 0)

(* The loop of take is left: what it kept is gone. *)
LoopEnds(t) ==
  /\ end' = Set(end, t, 0) /\ wake' = Set(wake, t, 0)
  /\ lag' = Set(lag, t, 0) /\ waited' = Set(waited, t, 0)
  /\ missed' = Set(missed, t, FALSE)

-----------------------------------------------------------------------------
(* SysTick and its counter. *)
Tick ==
  /\ \A t \in Task : Waits(t) => lag[t] < MaxLag
  /\ now' = (now + 1) % (PerMs * MsMod)
  /\ lag' = [t \in Task |-> IF Waits(t) THEN lag[t] + 1 ELSE 0]
  /\ waited' = [t \in Task |-> IF Waits(t) /\ waited[t] <= MaxWait
                                 THEN waited[t] + 1 ELSE waited[t]]
  /\ missed' = [t \in Task |-> \/ missed[t]
                               \/ pc[t] = "delay" /\ wake[t] >= PerMs
                                  /\ Micros = UsMod - 1]
  /\ UNCHANGED <<bus, pc, end, wake, overtaken>>

-----------------------------------------------------------------------------
(* take: GetEndTime(200). *)
Take(t) ==
  /\ pc[t] = "idle"
  /\ end' = Set(end, t, (Ms + Timeout) % MsMod)
  /\ Goes(t, "test")
  /\ UNCHANGED <<now, bus, wake, lag, waited, missed, overtaken>>

(* while (_busy == 1), and the first line of delay_ms(1).  Mutant: the end   *)
(* is computed in a wider type.                                             *)
End_wide == Micros + PerMs
End      == (Micros + PerMs) % UsMod

TestBusy(t) ==
  /\ pc[t] = "test" /\ busy = 1
  /\ wake' = Set(wake, t, End)
  /\ Polled(t) /\ Goes(t, "delay")
  /\ UNCHANGED <<now, bus, end, waited, missed, overtaken>>

TestFree(t) ==
  /\ pc[t] = "test" /\ busy = 0
  /\ overtaken' = (overtaken \/ \E u \in Task \ {t} : Enters(u))
  /\ LoopEnds(t) /\ Goes(t, "compare")
  /\ UNCHANGED <<now, bus>>

(* while (micros() < end) *)
Delay(t) ==
  /\ pc[t] = "delay" /\ Polled(t)
  /\ IF Micros < wake[t]
       THEN UNCHANGED <<pc, wake>>
       ELSE Goes(t, "check") /\ wake' = Set(wake, t, 0)
  /\ UNCHANGED <<now, bus, end, waited, missed, overtaken>>

(* IsTimeOut(end, 200).  The drivers do not look at EWAIT and go on.         *)
(* Mutants: the 200th millisecond ends it; the wrap is not undone.          *)
IsTimeOut_early(t) == (end[t] - Ms) % MsMod >= Timeout
IsTimeOut_plain(t) == Ms > end[t]
IsTimeOut(t)       == (end[t] - Ms) % MsMod > Timeout

TimesOut(t) ==
  /\ pc[t] = "check" /\ IsTimeOut(t)
  /\ overtaken' = TRUE
  /\ LoopEnds(t) /\ Goes(t, "transfer")
  /\ UNCHANGED <<now, bus>>

TriesAgain(t) ==
  /\ pc[t] = "check" /\ ~IsTimeOut(t)
  /\ Polled(t) /\ Goes(t, "test")
  /\ UNCHANGED <<now, bus, end, wake, waited, missed, overtaken>>

(* newConfig->dev_num != read_config(): config, which stores the number      *)
(* before it writes the registers.  Mutant: a bus that was set up once is    *)
(* taken for its own.                                                       *)
Differs_once(t) == FALSE
Differs(t)      == Device[t] # current

Compare(t) ==
  /\ pc[t] = "compare"
  /\ Goes(t, IF Differs(t) THEN "number" ELSE "claim")
  /\ UNCHANGED <<now, bus, local, overtaken>>

SetNumber(t) ==
  /\ pc[t] = "number"
  /\ current' = Device[t]
  /\ Goes(t, "configure")
  /\ UNCHANGED <<now, busy, registers, local, overtaken>>

Configure(t) ==
  /\ pc[t] = "configure"
  /\ registers' = Device[t]
  /\ Goes(t, "claim")
  /\ UNCHANGED <<now, busy, current, local, overtaken>>

Claim(t) ==
  /\ pc[t] = "claim"
  /\ busy' = 1
  /\ Goes(t, "transfer")
  /\ UNCHANGED <<now, current, registers, local, overtaken>>

(* The driver's transfer, and release.  Mutant: it clears _busy for its own  *)
(* device alone.                                                            *)
Freed_own(t) == IF current = Device[t] THEN 0 ELSE busy
Freed(t)     == 0

Transfer(t) ==
  /\ pc[t] = "transfer"
  /\ Goes(t, "release")
  /\ UNCHANGED <<now, bus, local, overtaken>>

Release(t) ==
  /\ pc[t] = "release"
  /\ busy' = Freed(t)
  /\ Goes(t, "idle")
  /\ UNCHANGED <<now, current, registers, local, overtaken>>

take(t) == \/ Take(t) \/ TestBusy(t) \/ TestFree(t) \/ Delay(t)
           \/ TimesOut(t) \/ TriesAgain(t)
           \/ Compare(t) \/ SetNumber(t) \/ Configure(t) \/ Claim(t)

Next == Tick \/ \E t \in Task : take(t) \/ Transfer(t) \/ Release(t)
Spec == Init /\ [][Next]_vars

-----------------------------------------------------------------------------
(* Type invariant. *)
TypeOK ==
  /\ now \in 0 .. PerMs * MsMod - 1
  /\ busy \in {0, 1}
  /\ current \in Range(Device)
  /\ registers \in Range(Device)
  /\ pc \in [Task -> {"idle", "test", "delay", "check", "compare", "number",
                      "configure", "claim", "transfer", "release"}]
  /\ end \in [Task -> 0 .. MsMod - 1]
  /\ wake \in [Task -> 0 .. UsMod - 1]
  /\ lag \in [Task -> 0 .. MaxLag]
  /\ waited \in [Task -> 0 .. MaxWait + 1]
  /\ missed \in [Task -> BOOLEAN] /\ overtaken \in BOOLEAN

(* Control is needed to read and write (ebox_mcu_spi.h:35).  Only two things *)
(* let a second task on the bus: the window of take between its test and its *)
(* store, and a driver that goes on after EWAIT.  Until one of them happens, *)
(* one task at a time uses the bus or is about to, and what it transfers     *)
(* with are the settings of its own device (ebox_mcu_spi.cpp:493-504).       *)
On(t)   == Enters(t) \/ Uses(t)
OneUser ==
  ~overtaken => \A t \in Task : /\ Uses(t) => registers = Device[t]
                                /\ \A u \in Task : On(t) /\ On(u) => t = u

(* Whatever overtakes what, the bus does not stay taken when the drivers have *)
(* gone: _busy is 1 only while some task is between take and release        *)
(* (ebox_mcu_spi.cpp:512-516).                                              *)
NobodyLeavesItBusy == busy = 1 => \E t \in Task : Uses(t)

(* take gives up only when the bus was waited for through Timeout whole      *)
(* milliseconds, wherever milli_seconds wraps in between (mcu.h:63-65).      *)
WaitsFullTimeout ==
  \A t \in Task : pc[t] = "check" /\ IsTimeOut(t)
                    => waited[t] > Timeout * PerMs

(* The timeout of 200 ms is kept, unless micros wraps after the end of a      *)
(* delay_ms and before the task polls it again: then delay_ms goes on for a  *)
(* whole round of micros, 71 minutes (mcu.cpp:105-110).  This is the promise *)
(* of the code (ebox_mcu_spi.cpp:491-500).  The header promises another: a   *)
(* task that cannot get control waits for ever (ebox_mcu_spi.h:35-37).       *)
TakeInTime ==
  \A t \in Task : Waits(t) /\ ~missed[t] => waited[t] <= MaxWait
=============================================================================

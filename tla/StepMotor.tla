----------------------------- MODULE StepMotor -----------------------------
(***************************************************************************)
(* The step motors of ebox_step_motor.cpp: move() plans a ramp, and the     *)
(* compare interrupt of the motor's timer channel walks it, two interrupts  *)
(* to a step, while the channel toggles the pin by itself.  The function    *)
(* statics of callback() are one set for all motors.  The handlers share a  *)
(* priority and do not nest; each clears a compare flag after callback() has *)
(* returned, and the one of TIM3, channel 1, the flag of TIM2, channel 1.    *)
(*                                                                         *)
(* The steps do not depend on the delays: whether a move is slow enough to  *)
(* begin in RUN, and when ACCEL reaches full speed, are free choices; the   *)
(* direction is stored and never read, and is left out.                     *)
(***************************************************************************)
EXTENDS Integers

CONSTANTS
  Motor,
  Tim2Ch1, Tim3Ch1, (* the motors on these channels (PA0, PA6), or None     *)
  Step,     (* the numbers of steps a program asks for, without their sign   *)
  Rate,     (* accel and decel                                              *)
  Limit,    (* max_s_lim, as the speed gives it                             *)
  Delay,    (* step_delay, as the 16 bits of set_ccr take it                *)
  Period,   (* the counter runs from 0 to Period - 1: 65535                 *)
  MaxCount, (* bound: a moving motor is not asked again from there on       *)
  None

ASSUME MoveAssumption ==
  Step \subseteq Nat \ {0} /\ Rate \subseteq Nat \ {0} /\ Limit \subseteq Nat
ASSUME TimerAssumption == Period \in Nat \ {0} /\ Delay \subseteq 0..Period
ASSUME CountAssumption == MaxCount \in Nat
ASSUME NoneAssumption  == None \notin Motor
ASSUME ChannelAssumption ==
  Tim2Ch1 \in Motor \cup {None} /\ Tim3Ch1 \in (Motor \ {Tim2Ch1}) \cup {None}

VARIABLES
  run_state, accel_count, decel_val, decel_start, (* srd                     *)
  status,     (* status                                                    *)
  ie,         (* the channel's interrupt is enabled                         *)
  toggle,     (* the channel toggles the pin at a match                     *)
  ccr,        (* its compare register; Period matches no value of CNT       *)
  armed,      (* CNT has not met it since it was written                    *)
  flag,       (* its compare flag                                          *)
  serving,    (* the motor whose callback is running                        *)
  counter,    (* the statics of callback: interrupts since the last step,   *)
  step_count, (* and steps                                                 *)
  alone,      (* history: the motor whose move began with all at rest and   *)
              (* has met neither another motor's callback nor a second move *)
  asked, done, (* history: the steps of that move                           *)
  toggles,    (* history: its toggles,                                     *)
  lost        (* and those whose flag is raised while its callback runs     *)

srd     == <<run_state, accel_count, decel_val, decel_start>>
channel == <<ie, toggle, ccr, armed, flag, serving>>
statics == <<counter, step_count>>
history == <<alone, asked, done, toggles, lost>>
vars    == <<srd, status, channel, statics, history>>

(* begin() has been called for every motor. *)
Init ==
  /\ run_state = [m \in Motor |-> "STOP"]
  /\ accel_count = [m \in Motor |-> 0] /\ decel_val = [m \in Motor |-> 0]
  /\ decel_start = [m \in Motor |-> 0]
  /\ status = [m \in Motor |-> FALSE]
  /\ ie = [m \in Motor |-> FALSE] /\ toggle = [m \in Motor |-> FALSE]
  /\ ccr = [m \in Motor |-> 0] /\ armed = [m \in Motor |-> FALSE]
  /\ flag = [m \in Motor |-> FALSE] /\ serving = None
  /\ counter = 0 /\ step_count = 0
  /\ alone = None /\ asked = 0 /\ done = 0 /\ toggles = 0 /\ lost = 0

(* The history is dropped. *)
Forget == alone' = None /\ asked' = 0 /\ done' = 0 /\ toggles' = 0 /\ lost' = 0

Disturbs(m) == IF alone = m THEN Forget ELSE UNCHANGED history

Moving(m) == ie[m]
AtRest    == \A m \in Motor : ~Moving(m)

-----------------------------------------------------------------------------
(* The timer.  ccr = Period, which set_ccr should wrap to 0 and does not, is *)
(* past the last value of CNT.                                              *)
Ccr_plain(diff, cnt) == diff + cnt  (* no wrap *)
Ccr(diff, cnt) ==
  IF diff + cnt > Period THEN diff + cnt - Period ELSE diff + cnt

SetCcr(m) ==
  /\ \E c \in {Ccr(diff, cnt) : diff \in Delay, cnt \in 0..Period - 1} :
       ccr' = [ccr EXCEPT ![m] = c]
  /\ armed' = [armed EXCEPT ![m] = TRUE]

(* CNT meets the register after it was written, and again a round later; a   *)
(* flag that stays up for a round is not followed.  The flag rises with the  *)
(* interrupt disabled too, and nothing clears it before move() enables it.  *)
Match(m) ==
  /\ ccr[m] < Period
  /\ armed[m] \/ ~flag[m]
  /\ armed' = [armed EXCEPT ![m] = FALSE]
  /\ flag' = [flag EXCEPT ![m] = TRUE]
  /\ IF toggle[m] /\ alone = m
     THEN /\ toggles' = toggles + 1
          /\ lost' = IF serving = m THEN lost + 1 ELSE lost
     ELSE UNCHANGED <<toggles, lost>>
  /\ UNCHANGED <<srd, status, ie, toggle, ccr, serving, statics, alone, asked,
                 done>>

-----------------------------------------------------------------------------
(* move() *)
AtLeastOne(n) == IF n = 0 THEN 1 ELSE n

(* The step after which n steps at these rates must decelerate. *)
AccelLim(n, accel, decel) == AtLeastOne((n * decel) \div (accel + decel))

(* No steps of deceleration stay none. *)
DecelVal_none(n, accel, decel, limit) ==
  IF AccelLim(n, accel, decel) <= AtLeastOne(limit)
  THEN AccelLim(n, accel, decel) - n
  ELSE -((AtLeastOne(limit) * accel) \div decel)

(* Minus the steps of the deceleration, which must be one at least. *)
DecelVal(n, accel, decel, limit) ==
  IF AccelLim(n, accel, decel) <= AtLeastOne(limit)
  THEN -AtLeastOne(n - AccelLim(n, accel, decel))
  ELSE -AtLeastOne((AtLeastOne(limit) * accel) \div decel)

DecelVals(n) == {DecelVal(n, accel, decel, limit) :
                   accel \in Rate, decel \in Rate, limit \in Limit}

(* The history of a move that is asked now: the first of all, or one that    *)
(* disturbs the motor's own, or one beside another motor's.                 *)
Begins(m, n) ==
  IF AtRest THEN /\ alone' = m /\ asked' = n /\ done' = 0
                 /\ toggles' = 0 /\ lost' = 0
            ELSE Disturbs(m)

(* One step: the interrupt is not enabled, so that nothing moves a motor at  *)
(* rest, whose status stays true.                                           *)
MoveOne(m) ==
  /\ run_state' = [run_state EXCEPT ![m] = "DECEL"]
  /\ accel_count' = [accel_count EXCEPT ![m] = -1]
  /\ status' = [status EXCEPT ![m] = TRUE]
  /\ SetCcr(m)
  /\ Disturbs(m)
  /\ UNCHANGED <<decel_val, decel_start, ie, toggle, flag, serving, statics>>

MoveMore(m, n) ==
  /\ n >= 2
  /\ \E v \in DecelVals(n) : /\ decel_val' = [decel_val EXCEPT ![m] = v]
                             /\ decel_start' = [decel_start EXCEPT ![m] = n + v]
  /\ \E first \in {"ACCEL", "RUN"} : run_state' = [run_state EXCEPT ![m] = first]
  /\ accel_count' = [accel_count EXCEPT ![m] = 0]
  /\ status' = [status EXCEPT ![m] = TRUE]
  /\ toggle' = [toggle EXCEPT ![m] = TRUE]
  /\ SetCcr(m)
  /\ ie' = [ie EXCEPT ![m] = TRUE]
  /\ Begins(m, n)
  /\ UNCHANGED <<flag, serving, statics>>

Move(m) ==
  /\ serving = None
  /\ Moving(m) => step_count < MaxCount
  /\ \/ 1 \in Step /\ MoveOne(m)
     \/ \E n \in Step : MoveMore(m, n)

-----------------------------------------------------------------------------
(* TIMx_IRQHandler calls callback(), which writes the compare register ...   *)
Serve(m) ==
  /\ serving = None /\ ie[m] /\ flag[m]
  /\ serving' = m
  /\ SetCcr(m)
  /\ UNCHANGED <<srd, status, ie, toggle, flag, statics, history>>

(* ... does the rest, and the handler clears a flag: its own, but for TIM3,  *)
(* channel 1.  A match in between has raised it for nothing.                *)
Clears(m) == IF m = Tim3Ch1 THEN Tim2Ch1 ELSE m

Returns(m) ==
  /\ serving = m
  /\ serving' = None
  /\ flag' = [k \in Motor |-> flag[k] /\ k # Clears(m)]

(* Another motor's callback ends what the history keeps. *)
Counts(m, steps) ==
  IF alone = m
  THEN alone' = m /\ done' = done + steps /\ UNCHANGED <<asked, toggles, lost>>
  ELSE Forget

FirstOfTwo(m) ==
  /\ counter = 0
  /\ counter' = 1
  /\ Counts(m, 0)
  /\ UNCHANGED <<srd, status, ie, toggle, ccr, armed, step_count>>

SecondOfTwo(m) == counter = 1 /\ counter' = 0

Stop(m) ==
  /\ run_state[m] = "STOP"
  /\ step_count' = 0
  /\ ie' = [ie EXCEPT ![m] = FALSE]
  /\ toggle' = [toggle EXCEPT ![m] = FALSE]
  /\ ccr' = [ccr EXCEPT ![m] = 0] /\ armed' = [armed EXCEPT ![m] = TRUE]
  /\ status' = [status EXCEPT ![m] = FALSE]
  /\ Forget
  /\ UNCHANGED srd

Steps(m) ==
  /\ step_count' = step_count + 1
  /\ Counts(m, 1)
  /\ UNCHANGED <<decel_val, decel_start, status, ie, toggle, ccr, armed>>

MustDecelerate(m) == step_count + 1 >= decel_start[m]

Decelerates(m) ==
  /\ accel_count' = [accel_count EXCEPT ![m] = decel_val[m]]
  /\ run_state' = [run_state EXCEPT ![m] = "DECEL"]

(* ACCEL and RUN.  In ACCEL accel_count is an operand of the delays only. *)
UpOrLevel(m) ==
  /\ run_state[m] \in {"ACCEL", "RUN"}
  /\ Steps(m)
  /\ IF MustDecelerate(m)
     THEN Decelerates(m)
     ELSE /\ \/ UNCHANGED run_state
             \/ run_state' = [run_state EXCEPT ![m] = "RUN"]
          /\ UNCHANGED accel_count

LastStep(count) == count >= 0

Down(m) ==
  /\ run_state[m] = "DECEL"
  /\ Steps(m)
  /\ accel_count' = [accel_count EXCEPT ![m] = @ + 1]
  /\ run_state' = IF LastStep(accel_count[m] + 1)
                  THEN [run_state EXCEPT ![m] = "STOP"] ELSE run_state

callback(m) ==
  /\ Returns(m)
  /\ \/ FirstOfTwo(m)
     \/ SecondOfTwo(m) /\ (Stop(m) \/ UpOrLevel(m) \/ Down(m))

Next == \E m \in Motor : Match(m) \/ Move(m) \/ Serve(m) \/ callback(m)

(* A compare register in range is met by a running counter, and a pending    *)
(* enabled interrupt of priority 0 is served.                               *)
Fairness == \A m \in Motor :
  WF_vars(Match(m)) /\ WF_vars(Serve(m)) /\ WF_vars(callback(m))

Spec == Init /\ [][Next]_vars /\ Fairness

-----------------------------------------------------------------------------
(* The ranges of the variables; a motor that moves toggles its pin; with all *)
(* motors at rest the shared statics are clean, whatever moves overlapped.   *)
(* The compare register never holds a value past Period.                    *)
TypeOK ==
  /\ run_state \in [Motor -> {"STOP", "ACCEL", "RUN", "DECEL"}]
  /\ accel_count \in [Motor -> Int] /\ decel_val \in [Motor -> Int]
  /\ decel_start \in [Motor -> Nat]
  /\ status \in [Motor -> BOOLEAN]
  /\ ie \in [Motor -> BOOLEAN] /\ toggle \in [Motor -> BOOLEAN]
  /\ ccr \in [Motor -> 0..Period] /\ armed \in [Motor -> BOOLEAN]
  /\ flag \in [Motor -> BOOLEAN] /\ serving \in Motor \cup {None}
  /\ counter \in {0, 1} /\ step_count \in Nat
  /\ alone \in Motor \cup {None}
  /\ asked \in Nat /\ done \in Nat /\ toggles \in Nat /\ lost \in Nat
  /\ \A m \in Motor : ie[m] = toggle[m]
  /\ AtRest => counter = 0 /\ step_count = 0

(* Where a motor stops after a move of two or more steps that nothing        *)
(* disturbed, the code has counted the steps asked for, for every ramp.  On  *)
(* TIM3, channel 1, that is all: its flag stays up, callback runs again at   *)
(* once, and the pin hardly moves (ebox_it.cpp:140).  On every other channel *)
(* the pin has been toggled twice a step and once or twice more (the two     *)
(* interrupts that end in STOP toggle it too, an extra pulse; a stale flag   *)
(* makes the first interrupt of a move one without a toggle), and once more  *)
(* for every match that came before the handler of the one before had        *)
(* cleared its flag (ebox_it.cpp:102-205).                                   *)
Stops(m) == ie[m] /\ ~ie'[m]
StepsAsAsked ==
  [][\A m \in Motor : Stops(m) /\ alone = m =>
       /\ done = asked
       /\ m # Tim3Ch1 => toggles - lost \in {2 * asked + 1, 2 * asked + 2}]_vars

(* A move of two or more steps ends, unless another motor or a second move   *)
(* disturbs it, or set_ccr computes 0xffff, which CNT never is: then the     *)
(* motor stands still for ever, its status true.                            *)
MoveEnds ==
  \A m \in Motor :
    alone = m ~> ~Moving(m) \/ alone # m \/ ccr[m] = Period
=============================================================================

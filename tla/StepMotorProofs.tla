-------------------------- MODULE StepMotorProofs ---------------------------
(***************************************************************************)
(* StepMotor's type invariant and StepsAsAsked, for every set of motors,    *)
(* rate, limit, delay and number of steps.  The argument: a move begins     *)
(* with clean statics when all motors are at rest; its ramp decelerates for *)
(* at least one step and at most all but one, so that decel_start and the   *)
(* deceleration add up to the steps asked for; and interrupts and toggles,   *)
(* but for the toggles inside a callback, stay in step from the first match *)
(* on, where the handler clears the motor's own flag.                       *)
(***************************************************************************)
EXTENDS StepMotor, TLAPS

(* The state of the move that the history follows. *)
Ramp(m) ==
  /\ run_state[m] \in {"ACCEL", "RUN"} =>
       /\ done < decel_start[m] /\ decel_start[m] = asked + decel_val[m]
       /\ decel_val[m] <= -1
  /\ run_state[m] = "DECEL" => accel_count[m] <= -1 /\ done = asked + accel_count[m]
  /\ run_state[m] = "STOP" => done = asked

Pending(m) == IF flag[m] THEN 1 ELSE 0

(* The toggles that raised a flag which callback sees, and its interrupts. *)
Seen    == toggles - lost
Counted == 2 * done + counter

InStep(m) ==
  /\ Counted + Pending(m) <= Seen + 1
  /\ Seen <= Counted + Pending(m)
  /\ armed[m] /\ flag[m] /\ serving # m => Seen = Counted

Followed == \A m \in Motor :
  alone = m => /\ ie[m] /\ step_count = done /\ Ramp(m)
               /\ m # Tim3Ch1 => InStep(m)

(* A motor whose callback is running keeps its interrupt and its flag. *)
Served == serving # None => ie[serving] /\ flag[serving]

IInv == TypeOK /\ Served /\ Followed

-----------------------------------------------------------------------------
(* A compare value never passes Period. *)
LEMMA CcrRange ==
  ASSUME NEW diff \in Delay, NEW cnt \in 0..Period - 1
  PROVE  Ccr(diff, cnt) \in 0..Period
  BY TimerAssumption DEF Ccr

(* The quotient of AccelLim is below n: q >= n would make q * (accel + decel) *)
(* more than n * decel.                                                     *)
LEMMA QuotientBelow ==
  ASSUME NEW n \in Nat \ {0}, NEW a \in Nat \ {0}, NEW d \in Nat \ {0}
  PROVE  (n * d) \div (a + d) \in 0..n - 1
<1> DEFINE q == (n * d) \div (a + d)
<1>1. n * d \in Nat /\ a + d \in Nat \ {0} /\ n * a \in Nat \ {0}
  BY Z3
<1>2. q \in Nat /\ q * (a + d) <= n * d
  BY <1>1, Z3
<1>3. ASSUME q >= n PROVE FALSE
  <2>1. q * (a + d) >= n * (a + d)
    BY <1>1, <1>2, <1>3, Z3
  <2>2. n * (a + d) = n * a + n * d
    BY Z3
  <2> QED BY <1>1, <1>2, <2>1, <2>2, Z3
<1> QED BY <1>2, <1>3

(* Every ramp decelerates for at least one step and at most all but one. *)
LEMMA DecelRange ==
  ASSUME NEW n \in Nat, n >= 2,
         NEW a \in Nat \ {0}, NEW d \in Nat \ {0}, NEW limit \in Nat
  PROVE  DecelVal(n, a, d, limit) \in 1 - n .. -1
<1> DEFINE q == (n * d) \div (a + d)
           L == AtLeastOne(q)
           M == AtLeastOne(limit)
           r == (M * a) \div d
<1>1. q \in 0..n - 1
  BY QuotientBelow, n \in Nat \ {0}
<1>2. L \in 1..n - 1 /\ M \in Nat \ {0} /\ (L > M => L = q)
  BY <1>1 DEF AtLeastOne
<1>3. L = AccelLim(n, a, d)
  BY DEF AccelLim
<1> HIDE DEF L
<1>4. CASE L <= M
  <2>1. AtLeastOne(n - L) \in 1..n - 1
    BY <1>2 DEF AtLeastOne
  <2> QED
    BY <2>1, <1>3, <1>4 DEF DecelVal
<1>5. CASE ~(L <= M)
  <2>1. L = q /\ M < q /\ M \in Nat
    BY <1>2, <1>5
  <2>2. r \in Nat /\ r * d <= M * a /\ M * a \in Nat
    <3> HIDE DEF M
    <3> QED BY <1>2, Z3
  <2>3. q * (a + d) <= n * d
    <3>1. n * d \in Nat /\ a + d \in Nat \ {0}
      BY Z3
    <3> QED BY <3>1, Z3
  <2>4. r <= n - 1
    <3> HIDE DEF q, M, r
    <3>1. M * (a + d) <= q * (a + d)
      BY <1>1, <2>1, Z3
    <3>2. M * (a + d) = M * a + M * d /\ M * d >= d /\ M * d \in Nat /\ n * d \in Nat
      BY <1>2, <2>1, Z3
    <3>3. r * d < n * d
      BY <2>2, <2>3, <3>1, <3>2, <2>1, <1>1, Z3
    <3>4. ASSUME r >= n PROVE FALSE
      <4>1. r * d >= n * d
        BY <2>2, <3>4, Z3
      <4> QED BY <4>1, <3>3, <2>2, <3>2
    <3> QED BY <2>2, <3>4
  <2>5. AtLeastOne(r) \in 1..n - 1
    BY <2>2, <2>4 DEF AtLeastOne
  <2>6. DecelVal(n, a, d, limit) = -AtLeastOne(r)
    BY <1>3, <1>5 DEF DecelVal
  <2> QED BY <2>5, <2>6
<1> QED BY <1>4, <1>5

-----------------------------------------------------------------------------
LEMMA InitHolds == Init => IInv
  BY TimerAssumption, NoneAssumption
     DEF Init, IInv, TypeOK, Served, Followed, AtRest, Moving

LEMMA MatchStep ==
  ASSUME IInv, NEW m \in Motor, Match(m) PROVE IInv'
<1>1. /\ armed[m] \/ ~flag[m]
      /\ armed' = [armed EXCEPT ![m] = FALSE] /\ flag' = [flag EXCEPT ![m] = TRUE]
      /\ IF toggle[m] /\ alone = m
         THEN /\ toggles' = toggles + 1
              /\ lost' = IF serving = m THEN lost + 1 ELSE lost
         ELSE toggles' = toggles /\ lost' = lost
      /\ UNCHANGED <<srd, status, ie, toggle, ccr, serving, statics, alone,
                     asked, done>>
  BY Zenon DEF Match
<1>2. TypeOK'
  BY <1>1 DEF IInv, TypeOK, AtRest, Moving, srd, statics
<1>3. Served'
  BY <1>1 DEF IInv, TypeOK, Served
<1>4. Followed'
  <2> SUFFICES ASSUME NEW k \in Motor, alone' = k
               PROVE  /\ ie'[k] /\ step_count' = done' /\ Ramp(k)'
                      /\ k # Tim3Ch1 => InStep(k)'
    BY DEF Followed
  <2>1. /\ alone = k /\ ie[k] /\ step_count = done /\ Ramp(k)
        /\ k # Tim3Ch1 => InStep(k)
    BY <1>1 DEF IInv, Followed
  <2>2. ie'[k] /\ step_count' = done' /\ Ramp(k)'
    BY <1>1, <2>1 DEF Ramp, srd, statics
  <2>3. Counted' = Counted /\ Counted \in Nat /\ Seen \in Int
    BY <1>1 DEF Counted, Seen, statics, IInv, TypeOK
  <2>4. ASSUME k # Tim3Ch1, k # m PROVE InStep(k)'
    <3>1. flag'[k] = flag[k] /\ armed'[k] = armed[k] /\ Seen' = Seen
      BY <1>1, <2>1, <2>4 DEF IInv, TypeOK, Seen
    <3> QED BY <1>1, <2>1, <2>3, <2>4, <3>1 DEF InStep, Pending
  <2>5. ASSUME k # Tim3Ch1, k = m PROVE InStep(k)'
    <3>1. toggle[m] /\ ~armed'[m] /\ flag'[m] /\ InStep(m)
      BY <1>1, <2>1, <2>5 DEF IInv, TypeOK
    <3>2. CASE serving = m
      <4>1. flag[m] /\ Seen' = Seen
        BY <1>1, <2>1, <2>5, <3>1, <3>2, NoneAssumption
           DEF IInv, Served, Seen, TypeOK
      <4> QED BY <2>3, <2>5, <3>1, <4>1 DEF InStep, Pending
    <3>3. CASE serving # m
      <4>1. Seen' = Seen + 1
        BY <1>1, <2>1, <2>5, <3>1, <3>3 DEF Seen, IInv, TypeOK
      <4>2. flag[m] => Seen = Counted
        BY <1>1, <3>1, <3>3 DEF InStep
      <4>3. Counted <= Seen + 1 /\ Seen <= Counted
        BY <2>3, <3>1, <4>2 DEF InStep, Pending
      <4>4. Counted' + Pending(m)' <= Seen' + 1 /\ Seen' <= Counted' + Pending(m)'
        BY <2>3, <3>1, <4>1, <4>3 DEF Pending
      <4> QED BY <2>5, <3>1, <4>4 DEF InStep
    <3> QED BY <3>2, <3>3
  <2> QED BY <2>2, <2>4, <2>5
<1> QED BY <1>2, <1>3, <1>4 DEF IInv

(* set_ccr leaves a value in range in one register. *)
LEMMA SetCcrType ==
  ASSUME IInv, NEW m \in Motor, SetCcr(m)
  PROVE  ccr' \in [Motor -> 0..Period] /\ armed' \in [Motor -> BOOLEAN]
  BY CcrRange DEF IInv, TypeOK, SetCcr

(* With nothing to follow, the types are all. *)
LEMMA Forgotten ==
  ASSUME TypeOK', Served', alone' = None PROVE IInv'
  BY NoneAssumption DEF IInv, Followed

(* A step of m that leaves the history, the statics and the other motors     *)
(* alone, when it is not m that the history follows.                        *)
LEMMA Apart ==
  ASSUME IInv, TypeOK', NEW m \in Motor, alone # m,
         Served', UNCHANGED <<statics, history>>,
         \A k \in Motor \ {m} :
           /\ ie'[k] = ie[k] /\ flag'[k] = flag[k] /\ run_state'[k] = run_state[k]
           /\ armed'[k] = armed[k] /\ (serving' = k <=> serving = k)
           /\ accel_count'[k] = accel_count[k]
           /\ decel_val'[k] = decel_val[k] /\ decel_start'[k] = decel_start[k]
  PROVE  IInv'
<1> SUFFICES ASSUME NEW k \in Motor, alone' = k
             PROVE  /\ ie'[k] /\ step_count' = done' /\ Ramp(k)'
                    /\ k # Tim3Ch1 => InStep(k)'
  BY DEF IInv, Followed
<1>1. /\ k # m /\ ie[k] /\ step_count = done /\ Ramp(k)
      /\ k # Tim3Ch1 => InStep(k)
  BY DEF IInv, Followed, history
<1>2. ie'[k] /\ step_count' = done' /\ Ramp(k)'
  BY <1>1 DEF Ramp, statics, history
<1>3. k # Tim3Ch1 => InStep(k)'
  BY <1>1 DEF InStep, Pending, Seen, Counted, statics, history
<1> QED BY <1>2, <1>3

LEMMA MoveOneStep ==
  ASSUME IInv, NEW m \in Motor, serving = None, MoveOne(m) PROVE IInv'
<1>1. TypeOK'
  BY SetCcrType DEF MoveOne, IInv, Disturbs, Forget, statics, history, TypeOK,
                    AtRest, Moving
<1>2. serving' = None
  BY DEF MoveOne
<1>3. CASE alone = m
  BY <1>1, <1>2, <1>3, Forgotten DEF MoveOne, Disturbs, Forget, Served
<1>4. CASE alone # m
  <2>1. UNCHANGED <<statics, history, ie, flag, decel_val, decel_start>>
    BY <1>4 DEF MoveOne, Disturbs
  <2>2. \A k \in Motor \ {m} :
          /\ run_state'[k] = run_state[k] /\ accel_count'[k] = accel_count[k]
          /\ armed'[k] = armed[k]
    BY DEF MoveOne, SetCcr, IInv, TypeOK
  <2> QED BY <1>1, <1>2, <1>4, <2>1, <2>2, Apart DEF Served
<1> QED BY <1>3, <1>4

LEMMA MoveMoreStep ==
  ASSUME IInv, NEW m \in Motor, NEW n \in Step, serving = None, MoveMore(m, n)
  PROVE  IInv'
<1>1. n \in Nat /\ n >= 2
  BY MoveAssumption DEF MoveMore
<1>2. PICK v \in 1 - n .. -1 :
        /\ decel_val' = [decel_val EXCEPT ![m] = v]
        /\ decel_start' = [decel_start EXCEPT ![m] = n + v]
  <2>1. \A v \in DecelVals(n) : v \in 1 - n .. -1
    BY <1>1, DecelRange, MoveAssumption DEF DecelVals
  <2> QED BY <2>1, Zenon DEF MoveMore
<1>3. PICK first \in {"ACCEL", "RUN"} :
        run_state' = [run_state EXCEPT ![m] = first]
  BY Zenon DEF MoveMore
<1>4. /\ accel_count' = [accel_count EXCEPT ![m] = 0]
      /\ status' = [status EXCEPT ![m] = TRUE]
      /\ toggle' = [toggle EXCEPT ![m] = TRUE]
      /\ ie' = [ie EXCEPT ![m] = TRUE]
      /\ SetCcr(m) /\ Begins(m, n)
      /\ serving' = None
      /\ UNCHANGED <<flag, counter, step_count>>
  BY Zenon DEF MoveMore, statics
<1>5. TypeOK'
  <2>1. /\ run_state' \in [Motor -> {"STOP", "ACCEL", "RUN", "DECEL"}]
        /\ accel_count' \in [Motor -> Int] /\ decel_val' \in [Motor -> Int]
    BY <1>2, <1>3, <1>4 DEF IInv, TypeOK
  <2>2. decel_start' \in [Motor -> Nat]
    BY <1>1, <1>2 DEF IInv, TypeOK
  <2>3. /\ status' \in [Motor -> BOOLEAN] /\ ie' \in [Motor -> BOOLEAN]
        /\ toggle' \in [Motor -> BOOLEAN] /\ flag' \in [Motor -> BOOLEAN]
        /\ counter' \in {0, 1} /\ step_count' \in Nat
    BY <1>4 DEF IInv, TypeOK
  <2>4. /\ alone' \in Motor \cup {None}
        /\ asked' \in Nat /\ done' \in Nat /\ toggles' \in Nat /\ lost' \in Nat
    BY <1>1, <1>4 DEF Begins, Disturbs, Forget, history, IInv, TypeOK
  <2>5. /\ \A k \in Motor : ie'[k] = toggle'[k]
        /\ ie'[m]
    BY <1>4 DEF IInv, TypeOK
  <2>6. ~AtRest'
    BY <2>5 DEF AtRest, Moving
  <2> QED
    BY <1>4, <2>1, <2>2, <2>3, <2>4, <2>5, <2>6, SetCcrType DEF TypeOK
<1>6. CASE AtRest
  <2>1. alone' = m /\ asked' = n /\ done' = 0 /\ toggles' = 0 /\ lost' = 0
    BY <1>4, <1>6 DEF Begins
  <2>2. counter = 0 /\ step_count = 0 /\ flag[m] \in BOOLEAN
    BY <1>6 DEF IInv, TypeOK
  <2>3. run_state'[m] \in {"ACCEL", "RUN"} /\ ie'[m]
    BY <1>3, <1>4 DEF IInv, TypeOK
  <2>4. decel_val'[m] \in 1 - n .. -1 /\ decel_start'[m] = n + decel_val'[m]
    BY <1>2 DEF IInv, TypeOK
  <2>5. Ramp(m)' /\ step_count' = done'
    BY <1>1, <1>4, <2>1, <2>2, <2>3, <2>4 DEF Ramp
  <2>6. InStep(m)'
    BY <1>4, <2>1, <2>2 DEF InStep, Pending, Seen, Counted
  <2> QED BY <1>4, <1>5, <2>1, <2>3, <2>5, <2>6 DEF IInv, Served, Followed
<1>7. CASE ~AtRest
  <2>1. CASE alone = m
    BY <1>4, <1>5, <1>7, <2>1, Forgotten DEF Begins, Disturbs, Forget, Served
  <2>2. CASE alone # m
    <3>1. UNCHANGED <<statics, history, flag>>
      BY <1>4, <1>7, <2>2 DEF Begins, Disturbs, statics
    <3>2. \A k \in Motor \ {m} :
            /\ ie'[k] = ie[k] /\ run_state'[k] = run_state[k]
            /\ accel_count'[k] = accel_count[k]
            /\ decel_val'[k] = decel_val[k] /\ decel_start'[k] = decel_start[k]
            /\ armed'[k] = armed[k]
      BY <1>2, <1>3, <1>4 DEF SetCcr, IInv, TypeOK
    <3> QED BY <1>4, <1>5, <2>2, <3>1, <3>2, Apart DEF Served
  <2> QED BY <2>1, <2>2
<1> QED BY <1>6, <1>7

LEMMA ServeStep ==
  ASSUME IInv, NEW m \in Motor, Serve(m) PROVE IInv'
<1>1. /\ serving = None /\ ie[m] /\ flag[m] /\ serving' = m /\ SetCcr(m)
      /\ UNCHANGED <<run_state, accel_count, decel_val, decel_start, status, ie,
                     toggle, flag, counter, step_count, alone, asked, done,
                     toggles, lost>>
  BY Zenon DEF Serve, srd, statics, history
<1>2. TypeOK'
  BY <1>1, SetCcrType DEF IInv, TypeOK, AtRest, Moving
<1>3. Served'
  BY <1>1 DEF Served
<1>4. Followed'
  <2> SUFFICES ASSUME NEW k \in Motor, alone = k
               PROVE  /\ ie'[k] /\ step_count' = done' /\ Ramp(k)'
                      /\ k # Tim3Ch1 => InStep(k)'
    BY <1>1 DEF Followed
  <2>1. /\ ie[k] /\ step_count = done /\ Ramp(k)
        /\ k # Tim3Ch1 => InStep(k)
    BY DEF IInv, Followed
  <2>2. serving # k /\ (k # m => armed'[k] = armed[k])
    BY <1>1, NoneAssumption DEF SetCcr, IInv, TypeOK
  <2>3. ie'[k] /\ step_count' = done' /\ Ramp(k)'
    BY <1>1, <2>1 DEF Ramp
  <2>4. k # Tim3Ch1 => InStep(k)'
    BY <1>1, <2>1, <2>2 DEF InStep, Pending, Seen, Counted
  <2> QED BY <2>3, <2>4
<1> QED BY <1>2, <1>3, <1>4 DEF IInv

(* The end of a handler: its motor's interrupt was enabled, its flag up. *)
LEMMA ReturnsFlag ==
  ASSUME IInv, NEW m \in Motor, Returns(m)
  PROVE  /\ ie[m] /\ flag[m] /\ serving = m /\ serving' = None /\ Served'
         /\ flag' \in [Motor -> BOOLEAN]
         /\ m # Tim3Ch1 => ~flag'[m]
<1>1. serving = m /\ serving' = None
      /\ flag' = [k \in Motor |-> flag[k] /\ k # Clears(m)]
  BY DEF Returns
<1>2. ie[m] /\ flag[m] /\ Served'
  BY <1>1, NoneAssumption DEF IInv, Served
<1>3. flag' \in [Motor -> BOOLEAN] /\ (m # Tim3Ch1 => ~flag'[m])
  BY <1>1 DEF Clears, IInv, TypeOK
<1> QED BY <1>1, <1>2, <1>3

(* An interrupt more has been counted, and its flag cleared. *)
LEMMA CountedOne ==
  ASSUME IInv, NEW m \in Motor, Returns(m), InStep(m), m # Tim3Ch1,
         Counted' = Counted + 1, UNCHANGED <<toggles, lost>>
  PROVE  InStep(m)'
<1>1. flag[m] /\ ~flag'[m]
  BY ReturnsFlag
<1>2. Seen' = Seen /\ Seen \in Int /\ Counted \in Nat
  BY DEF Seen, Counted, IInv, TypeOK
<1> QED BY <1>1, <1>2 DEF InStep, Pending

LEMMA FirstStep ==
  ASSUME IInv, NEW m \in Motor, Returns(m), FirstOfTwo(m) PROVE IInv'
<1>1. TypeOK'
  <2>1. /\ ie[m] /\ serving' = None /\ flag' \in [Motor -> BOOLEAN]
    BY ReturnsFlag
  <2> QED BY <2>1 DEF FirstOfTwo, IInv, Counts, Forget, srd, TypeOK, AtRest, Moving
<1>2. Served'
  BY ReturnsFlag
<1>3. CASE alone # m
  BY <1>1, <1>2, <1>3, Forgotten DEF FirstOfTwo, Counts, Forget
<1>4. CASE alone = m
  <2>1. /\ alone' = m /\ done' = done + 0 /\ counter = 0 /\ counter' = 1
        /\ UNCHANGED <<asked, toggles, lost, ie, step_count, run_state,
                       accel_count, decel_val, decel_start>>
    BY <1>4, Zenon DEF FirstOfTwo, Counts, srd
  <2>2. /\ ie[m] /\ step_count = done /\ Ramp(m)
        /\ m # Tim3Ch1 => InStep(m)
    BY <1>4 DEF IInv, Followed
  <2>3. done' = done
    BY <2>1 DEF IInv, TypeOK
  <2>4. Ramp(m)'
    BY <2>1, <2>2, <2>3 DEF Ramp
  <2>5. Counted' = Counted + 1
    BY <2>1, <2>3 DEF Counted, IInv, TypeOK
  <2>6. m # Tim3Ch1 => InStep(m)'
    BY <2>1, <2>2, <2>5, CountedOne
  <2> QED
    BY <1>1, <1>2, <2>1, <2>2, <2>3, <2>4, <2>6 DEF IInv, Followed
<1> QED BY <1>3, <1>4

LEMMA StopStep ==
  ASSUME IInv, NEW m \in Motor, Returns(m), SecondOfTwo(m), Stop(m) PROVE IInv'
<1>1. /\ ie' = [ie EXCEPT ![m] = FALSE] /\ toggle' = [toggle EXCEPT ![m] = FALSE]
      /\ status' = [status EXCEPT ![m] = FALSE] /\ ccr' = [ccr EXCEPT ![m] = 0]
      /\ armed' = [armed EXCEPT ![m] = TRUE]
      /\ step_count' = 0 /\ counter' = 0
      /\ alone' = None /\ asked' = 0 /\ done' = 0 /\ toggles' = 0 /\ lost' = 0
      /\ UNCHANGED <<run_state, accel_count, decel_val, decel_start>>
  BY Zenon DEF SecondOfTwo, Stop, Forget, srd
<1>2. \A k \in Motor : ie'[k] = toggle'[k]
  BY <1>1 DEF IInv, TypeOK
<1>3. TypeOK'
  <2>1. ccr' \in [Motor -> 0..Period]
    BY <1>1, TimerAssumption DEF IInv, TypeOK
  <2>2. /\ ie' \in [Motor -> BOOLEAN] /\ toggle' \in [Motor -> BOOLEAN]
        /\ armed' \in [Motor -> BOOLEAN] /\ status' \in [Motor -> BOOLEAN]
    BY <1>1 DEF IInv, TypeOK
  <2>3. flag' \in [Motor -> BOOLEAN] /\ serving' \in Motor \cup {None}
    BY ReturnsFlag
  <2> QED BY <1>1, <1>2, <2>1, <2>2, <2>3 DEF IInv, TypeOK
<1>4. Served'
  BY ReturnsFlag
<1> QED BY <1>1, <1>3, <1>4, Forgotten

(* What the steps of the three moving states share. *)
LEMMA StepsType ==
  ASSUME IInv, NEW m \in Motor, Returns(m), SecondOfTwo(m), Steps(m),
         run_state' \in [Motor -> {"STOP", "ACCEL", "RUN", "DECEL"}],
         accel_count' \in [Motor -> Int]
  PROVE  TypeOK' /\ Served'
<1>1. /\ counter' = 0 /\ step_count' = step_count + 1 /\ Counts(m, 1)
      /\ UNCHANGED <<decel_val, decel_start, status, ie, toggle, ccr, armed>>
  BY Zenon DEF SecondOfTwo, Steps
<1>2. /\ alone' \in Motor \cup {None}
      /\ asked' \in Nat /\ done' \in Nat /\ toggles' \in Nat /\ lost' \in Nat
  BY <1>1 DEF Counts, Forget, IInv, TypeOK
<1>3. /\ ie[m] /\ flag' \in [Motor -> BOOLEAN] /\ serving' = None /\ Served'
  BY ReturnsFlag
<1>4. ~AtRest' /\ step_count' \in Nat
  BY <1>1, <1>3 DEF AtRest, Moving, IInv, TypeOK
<1> QED BY <1>1, <1>2, <1>3, <1>4 DEF IInv, TypeOK

(* A step of the followed motor keeps interrupts and toggles in step. *)
LEMMA StepsFollowed ==
  ASSUME IInv, NEW m \in Motor, Returns(m), SecondOfTwo(m), Steps(m), alone = m
  PROVE  /\ alone' = m /\ ie'[m] /\ step_count' = done' /\ done' = done + 1
         /\ m # Tim3Ch1 => InStep(m)'
         /\ UNCHANGED <<asked, decel_val, decel_start>>
<1>1. /\ counter = 1 /\ counter' = 0 /\ step_count' = step_count + 1
      /\ alone' = m /\ done' = done + 1 /\ UNCHANGED <<asked, toggles, lost>>
      /\ UNCHANGED <<decel_val, decel_start, ie>>
  BY Zenon DEF SecondOfTwo, Steps, Counts
<1>2. /\ ie[m] /\ step_count = done
      /\ m # Tim3Ch1 => InStep(m)
  BY DEF IInv, Followed
<1>3. Counted' = Counted + 1
  BY <1>1 DEF Counted, IInv, TypeOK
<1>4. m # Tim3Ch1 => InStep(m)'
  BY <1>1, <1>2, <1>3, CountedOne
<1> QED BY <1>1, <1>2, <1>4

LEMMA UpOrLevelStep ==
  ASSUME IInv, NEW m \in Motor, Returns(m), SecondOfTwo(m), UpOrLevel(m)
  PROVE  IInv'
<1>1. /\ run_state' \in [Motor -> {"STOP", "ACCEL", "RUN", "DECEL"}]
      /\ accel_count' \in [Motor -> Int]
  BY DEF UpOrLevel, Decelerates, IInv, TypeOK
<1>2. TypeOK' /\ Served' /\ Steps(m)
  BY <1>1, StepsType DEF UpOrLevel
<1>3. CASE alone # m
  BY <1>2, <1>3, Forgotten DEF Steps, Counts, Forget
<1>4. CASE alone = m
  <2>1. /\ alone' = m /\ ie'[m] /\ step_count' = done' /\ done' = done + 1
        /\ m # Tim3Ch1 => InStep(m)'
        /\ UNCHANGED <<asked, decel_val, decel_start>>
    BY <1>2, <1>4, StepsFollowed
  <2>2. /\ run_state[m] \in {"ACCEL", "RUN"} /\ step_count = done
        /\ done < decel_start[m] /\ decel_start[m] = asked + decel_val[m]
        /\ decel_val[m] <= -1
        /\ done \in Nat /\ asked \in Nat /\ decel_val[m] \in Int
    BY <1>4 DEF UpOrLevel, IInv, Followed, Ramp, TypeOK
  <2>3. CASE MustDecelerate(m)
    <3>1. run_state'[m] = "DECEL" /\ accel_count'[m] = decel_val[m]
      BY <2>3 DEF UpOrLevel, Decelerates, IInv, TypeOK
    <3>2. Ramp(m)'
      BY <2>1, <2>2, <2>3, <3>1 DEF MustDecelerate, Ramp
    <3> QED BY <1>2, <2>1, <3>2 DEF IInv, Followed
  <2>4. CASE ~MustDecelerate(m)
    <3>1. run_state'[m] \in {"ACCEL", "RUN"}
      BY <2>2, <2>4 DEF UpOrLevel, IInv, TypeOK
    <3>2. Ramp(m)'
      BY <2>1, <2>2, <2>4, <3>1 DEF MustDecelerate, Ramp, IInv, TypeOK
    <3> QED BY <1>2, <2>1, <3>2 DEF IInv, Followed
  <2> QED BY <2>3, <2>4
<1> QED BY <1>3, <1>4

LEMMA DownStep ==
  ASSUME IInv, NEW m \in Motor, Returns(m), SecondOfTwo(m), Down(m)
  PROVE  IInv'
<1>1. /\ run_state' \in [Motor -> {"STOP", "ACCEL", "RUN", "DECEL"}]
      /\ accel_count' \in [Motor -> Int]
  BY DEF Down, IInv, TypeOK
<1>2. TypeOK' /\ Served' /\ Steps(m)
  BY <1>1, StepsType DEF Down
<1>3. CASE alone # m
  BY <1>2, <1>3, Forgotten DEF Steps, Counts, Forget
<1>4. CASE alone = m
  <2>1. /\ alone' = m /\ ie'[m] /\ step_count' = done' /\ done' = done + 1
        /\ m # Tim3Ch1 => InStep(m)'
        /\ UNCHANGED <<asked, decel_val, decel_start>>
    BY <1>2, <1>4, StepsFollowed
  <2>2. /\ run_state[m] = "DECEL" /\ accel_count[m] <= -1
        /\ done = asked + accel_count[m]
        /\ done \in Nat /\ asked \in Nat /\ accel_count[m] \in Int
    BY <1>4 DEF Down, IInv, Followed, Ramp, TypeOK
  <2>3. /\ accel_count'[m] = accel_count[m] + 1
        /\ run_state'[m] = IF LastStep(accel_count[m] + 1) THEN "STOP" ELSE "DECEL"
    BY <2>2 DEF Down, IInv, TypeOK
  <2>4. Ramp(m)'
    BY <2>1, <2>2, <2>3 DEF Ramp, LastStep
  <2> QED BY <1>2, <2>1, <2>4 DEF IInv, Followed
<1> QED BY <1>3, <1>4

LEMMA NextStep == IInv /\ [Next]_vars => IInv'
<1> SUFFICES ASSUME IInv, [Next]_vars PROVE IInv'
  OBVIOUS
<1>1. CASE UNCHANGED vars
  BY <1>1 DEF vars, srd, channel, statics, history, IInv, TypeOK, Served,
              Followed, AtRest, Moving, Ramp, InStep, Pending, Seen, Counted
<1>2. ASSUME NEW m \in Motor, Match(m) PROVE IInv'
  BY <1>2, MatchStep
<1>3. ASSUME NEW m \in Motor, Move(m) PROVE IInv'
  BY <1>3, MoveOneStep, MoveMoreStep DEF Move
<1>4. ASSUME NEW m \in Motor, Serve(m) PROVE IInv'
  BY <1>4, ServeStep
<1>5. ASSUME NEW m \in Motor, callback(m) PROVE IInv'
  BY <1>5, FirstStep, StopStep, UpOrLevelStep, DownStep DEF callback
<1> QED BY <1>1, <1>2, <1>3, <1>4, <1>5 DEF Next

LEMMA Invariance == Spec => []IInv
  BY InitHolds, NextStep, PTL DEF Spec

(* Every variable keeps to its range; the statics that all motors share are  *)
(* clean whenever all motors are at rest, whatever moves overlapped.         *)
THEOREM TypeCorrect == Spec => []TypeOK
<1>1. IInv => TypeOK
  BY DEF IInv
<1> QED BY <1>1, Invariance, PTL

(* Only the callback in STOP ends a move. *)
LEMMA StopsInStop ==
  ASSUME IInv, Next, NEW m \in Motor, Stops(m)
  PROVE  Returns(m) /\ SecondOfTwo(m) /\ Stop(m)
<1>1. \A k \in Motor : ~Match(k) /\ ~Serve(k)
  BY DEF Stops, Match, Serve
<1>2. \A k \in Motor : ~Move(k)
  BY DEF Stops, Move, MoveOne, MoveMore, IInv, TypeOK
<1>3. PICK k \in Motor : callback(k)
  BY <1>1, <1>2 DEF Next
<1>4. SecondOfTwo(k) /\ Stop(k)
  BY <1>3 DEF callback, FirstOfTwo, UpOrLevel, Down, Steps, Stops
<1>5. k = m
  BY <1>4 DEF Stop, Stops, IInv, TypeOK
<1> QED BY <1>3, <1>4, <1>5 DEF callback

(* A move that nothing disturbed ends when the steps it was asked for have   *)
(* been counted, for every ramp; and except on TIM3, channel 1, the pin has  *)
(* been toggled twice for each of them, once or twice more at the end, and   *)
(* once more for every match inside a callback.                             *)
THEOREM StepsCounted == Spec => StepsAsAsked
<1> DEFINE Right == \A m \in Motor : Stops(m) /\ alone = m =>
             /\ done = asked
             /\ m # Tim3Ch1 => toggles - lost \in {2 * asked + 1, 2 * asked + 2}
<1>1. IInv /\ [Next]_vars => [Right]_vars
  <2> SUFFICES ASSUME IInv, Next, NEW m \in Motor, Stops(m), alone = m
               PROVE  /\ done = asked
                      /\ m # Tim3Ch1 =>
                           toggles - lost \in {2 * asked + 1, 2 * asked + 2}
    OBVIOUS
  <2>1. run_state[m] = "STOP" /\ counter = 1 /\ Returns(m)
    BY StopsInStop DEF SecondOfTwo, Stop
  <2>2. flag[m] /\ done = asked /\ (m # Tim3Ch1 => InStep(m))
    BY <2>1, ReturnsFlag DEF IInv, Followed, Ramp
  <2> QED
    BY <2>1, <2>2 DEF InStep, Pending, Seen, Counted, IInv, TypeOK
<1> QED
  BY <1>1, Invariance, PTL DEF Spec, StepsAsAsked
=============================================================================

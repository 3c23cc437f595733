---------------------------- MODULE SpiBusProofs ----------------------------
(***************************************************************************)
(* Proofs about SpiBus for every set of tasks, devices, timeout and width.  *)
(***************************************************************************)
EXTENDS SpiBus, TLAPS

Stage == {"idle", "test", "delay", "check", "compare", "number",
          "configure", "claim", "transfer", "release"}

(* The bus part of the type invariant, which the other invariants rest on. *)
BusType == /\ busy \in {0, 1}
           /\ pc \in [Task -> Stage]
           /\ overtaken \in BOOLEAN

(* Until a task is overtaken: one task at most is on the bus, it has made    *)
(* the bus its own as far as its stage says, and the number in current is   *)
(* that of the registers except while config stands between the two.        *)
Unshared == \A t, u \in Task : On(t) /\ On(u) => t = u
Settings == /\ \A t \in Task : pc[t] \in {"claim", "transfer", "release"}
                                 => registers = Device[t]
            /\ \A t \in Task : pc[t] = "configure" => current = Device[t]
            /\ (\A t \in Task : pc[t] # "configure") => registers = current
Claimed  == \A t \in Task : Uses(t) => busy = 1
Orderly  == ~overtaken => Unshared /\ Settings /\ Claimed

IInv == BusType /\ NobodyLeavesItBusy /\ Orderly

LEMMA InitHolds == Init => IInv
<1> SUFFICES ASSUME Init PROVE IInv
  OBVIOUS
<1>1. BusType /\ busy = 0 /\ registers = current
  BY DEF Init, BusType, Stage
<1>2. \A t \in Task : pc[t] = "idle"
  BY DEF Init
<1> QED
  BY <1>1, <1>2 DEF IInv, NobodyLeavesItBusy, Orderly, Unshared, Settings,
                    Claimed, On, Enters, Uses

(* The steps of a waiting task: pc moves among stages off the bus. *)
Off == {"idle", "test", "delay", "check"}

LEMMA OffBus ==
  ASSUME IInv, NEW t \in Task, UNCHANGED <<bus, overtaken>>,
         \/ UNCHANGED pc
         \/ /\ pc[t] \in Off
            /\ \E p \in Off : Goes(t, p)
  PROVE  IInv'
  BY DEF IInv, BusType, Stage, NobodyLeavesItBusy, Orderly, Unshared,
         Settings, Claimed, On, Enters, Uses, bus, Goes, Off


LEMMA TestFreeStep ==
  ASSUME IInv, NEW t \in Task, TestFree(t) PROVE IInv'
<1>1. /\ busy = 0 /\ UNCHANGED <<busy, current, registers>>
      /\ pc' = [pc EXCEPT ![t] = "compare"]
      /\ overtaken' = (overtaken \/ \E u \in Task \ {t} : Enters(u))
      /\ pc[t] = "test"
  BY DEF TestFree, Goes, bus
<1>2. BusType' /\ NobodyLeavesItBusy'
  BY <1>1 DEF IInv, BusType, Stage, NobodyLeavesItBusy
<1>3. ASSUME ~overtaken' PROVE (Unshared /\ Settings /\ Claimed)'
  <2>1. ~overtaken /\ \A u \in Task \ {t} : ~Enters(u)
    BY <1>1, <1>3, Zenon
  <2>2. Settings /\ Claimed
    BY <2>1 DEF IInv, Orderly
  <2>3. \A u \in Task : ~On(u)
    BY <1>1, <2>1, <2>2 DEF Claimed, On, Enters, Uses
  <2>4. /\ \A u \in Task : u # t => pc'[u] = pc[u]
        /\ pc'[t] = "compare"
    BY <1>1 DEF IInv, BusType
  <2> QED
    BY <1>1, <2>2, <2>3, <2>4
       DEF Unshared, Settings, Claimed, On, Enters, Uses
<1> QED
  BY <1>2, <1>3 DEF IInv, Orderly

LEMMA TimesOutStep ==
  ASSUME IInv, NEW t \in Task, TimesOut(t) PROVE IInv'
  BY DEF IInv, BusType, Stage, NobodyLeavesItBusy, Orderly,
         Uses, bus, Goes, TimesOut

LEMMA CompareStep ==
  ASSUME IInv, NEW t \in Task, Compare(t) PROVE IInv'
  BY DEF IInv, BusType, Stage, NobodyLeavesItBusy, Orderly, Unshared,
         Settings, Claimed, On, Enters, Uses, bus, Goes, Compare, Differs

LEMMA SetNumberStep ==
  ASSUME IInv, NEW t \in Task, SetNumber(t) PROVE IInv'
  BY DEF IInv, BusType, Stage, NobodyLeavesItBusy, Orderly, Unshared,
         Settings, Claimed, On, Enters, Uses, Goes, SetNumber

LEMMA ConfigureStep ==
  ASSUME IInv, NEW t \in Task, Configure(t) PROVE IInv'
  BY DEF IInv, BusType, Stage, NobodyLeavesItBusy, Orderly, Unshared,
         Settings, Claimed, On, Enters, Uses, Goes, Configure

LEMMA ClaimStep ==
  ASSUME IInv, NEW t \in Task, Claim(t) PROVE IInv'
  BY DEF IInv, BusType, Stage, NobodyLeavesItBusy, Orderly, Unshared,
         Settings, Claimed, On, Enters, Uses, Goes, Claim

LEMMA TransferStep ==
  ASSUME IInv, NEW t \in Task, Transfer(t) PROVE IInv'
  BY DEF IInv, BusType, Stage, NobodyLeavesItBusy, Orderly, Unshared,
         Settings, Claimed, On, Enters, Uses, bus, Goes, Transfer

LEMMA ReleaseStep ==
  ASSUME IInv, NEW t \in Task, Release(t) PROVE IInv'
  BY DEF IInv, BusType, Stage, NobodyLeavesItBusy, Orderly, Unshared,
         Settings, Claimed, On, Enters, Uses, Goes, Release, Freed

LEMMA IInvStep == IInv /\ [Next]_vars => IInv'
<1> SUFFICES ASSUME IInv, [Next]_vars PROVE IInv'
  OBVIOUS
<1>1. CASE UNCHANGED vars
  BY <1>1 DEF vars, bus, local, IInv, BusType, NobodyLeavesItBusy, Orderly,
              Unshared, Settings, Claimed, On, Enters, Uses
<1>2. CASE Tick
  BY <1>2 DEF Tick, bus, IInv, BusType, NobodyLeavesItBusy, Orderly,
              Unshared, Settings, Claimed, On, Enters, Uses
<1>3. ASSUME NEW t \in Task, take(t) PROVE IInv'
  <2>1. CASE Take(t)       BY <2>1, OffBus DEF Take, Off, bus
  <2>2. CASE TestBusy(t)   BY <2>2, OffBus DEF TestBusy, Off, bus
  <2>3. CASE TestFree(t)   BY <2>3, TestFreeStep
  <2>4. CASE Delay(t)      BY <2>4, OffBus DEF Delay, Off, bus
  <2>5. CASE TimesOut(t)   BY <2>5, TimesOutStep
  <2>6. CASE TriesAgain(t) BY <2>6, OffBus DEF TriesAgain, Off, bus
  <2>7. CASE Compare(t)    BY <2>7, CompareStep
  <2>8. CASE SetNumber(t)  BY <2>8, SetNumberStep
  <2>9. CASE Configure(t)  BY <2>9, ConfigureStep
  <2>10. CASE Claim(t)     BY <2>10, ClaimStep
  <2> QED
    BY <1>3, <2>1, <2>2, <2>3, <2>4, <2>5, <2>6, <2>7, <2>8, <2>9, <2>10
       DEF take
<1>4. ASSUME NEW t \in Task, Transfer(t) PROVE IInv'
  BY <1>4, TransferStep
<1>5. ASSUME NEW t \in Task, Release(t) PROVE IInv'
  BY <1>5, ReleaseStep
<1> QED
  BY <1>1, <1>2, <1>3, <1>4, <1>5 DEF Next

LEMMA Invariance == Spec => []IInv
  BY InitHolds, IInvStep, PTL DEF Spec

(* One task at a time, with its own settings, until one is overtaken between *)
(* its test and its store, or goes on after EWAIT.                          *)
THEOREM OneUserAtATime == Spec => []OneUser
<1>1. IInv => OneUser
  BY DEF IInv, Orderly, Unshared, Settings, OneUser, On, Uses
<1> QED
  BY <1>1, Invariance, PTL

(* _busy is 1 only while a task is between take and release. *)
THEOREM BusIsGivenBack == Spec => []NobodyLeavesItBusy
<1>1. IInv => NobodyLeavesItBusy
  BY DEF IInv
<1> QED
  BY <1>1, Invariance, PTL

-----------------------------------------------------------------------------
(* Types.  A remainder is below its divisor. *)
LEMMA ModRange == ASSUME NEW m \in Int, NEW n \in Nat \ {0}
                  PROVE  m % n \in 0 .. n - 1
  BY SMT

LEMMA Widths ==
  /\ MsMod \in Nat \ {0} /\ UsMod \in Nat \ {0} /\ PerMs \in Nat \ {0}
  /\ PerMs * MsMod \in Nat \ {0}
  /\ Timeout \in Nat /\ MaxLag \in Nat /\ MaxWait \in Nat
<1>1. MsMod \in Nat \ {0} /\ PerMs \in Nat \ {0}
  BY TimeAssumption
<1>2. PerMs * MsMod \in Nat \ {0}
  BY <1>1, SMT
<1>3. (Timeout + 2) * PerMs \in Nat
  BY <1>1, TimeAssumption, SMT
<1> QED
  BY <1>1, <1>2, <1>3, TimeAssumption DEF MaxWait

LEMMA TypeInit == Init => TypeOK
<1> SUFFICES ASSUME Init PROVE TypeOK
  OBVIOUS
<1>1. PerMs * MsMod - 1 \in Nat /\ MsMod - 1 \in Nat /\ UsMod - 1 \in Nat
  BY Widths
<1>2. now \in 0 .. PerMs * MsMod - 1
  BY <1>1 DEF Init
<1>3. end \in [Task -> 0 .. MsMod - 1] /\ wake \in [Task -> 0 .. UsMod - 1]
  BY <1>1 DEF Init
<1>4. lag \in [Task -> 0 .. MaxLag] /\ waited \in [Task -> 0 .. MaxWait + 1]
  BY Widths DEF Init
<1>5. current \in Range(Device) /\ registers \in Range(Device)
  BY DeviceAssumption DEF Init, Range
<1> QED
  BY <1>2, <1>3, <1>4, <1>5 DEF Init, TypeOK

LEMMA TypeTick == TypeOK /\ Tick => TypeOK'
<1> SUFFICES ASSUME TypeOK, Tick PROVE TypeOK'
  OBVIOUS
<1>1. now' \in 0 .. PerMs * MsMod - 1
  <2>1. now + 1 \in Int
    BY Widths DEF TypeOK
  <2> QED
    BY <2>1, Widths, ModRange DEF Tick
<1>2. lag' \in [Task -> 0 .. MaxLag]
  BY Widths DEF Tick, TypeOK, Waits
<1>3. waited' \in [Task -> 0 .. MaxWait + 1]
  BY Widths DEF Tick, TypeOK
<1>4. missed' \in [Task -> BOOLEAN]
  BY DEF Tick, TypeOK
<1> QED
  BY <1>1, <1>2, <1>3, <1>4 DEF Tick, TypeOK, bus

LEMMA TypeStep ==
  ASSUME TypeOK, NEW t \in Task, take(t) \/ Transfer(t) \/ Release(t)
  PROVE  TypeOK'
<1>1. CASE Take(t)
  <2>1. Ms + Timeout \in Int
    BY Widths DEF TypeOK, Ms
  <2>2. (Ms + Timeout) % MsMod \in 0 .. MsMod - 1
    BY <2>1, Widths, ModRange
  <2> QED
    BY <1>1, <2>2 DEF Take, TypeOK, Goes, Set, bus
<1>2. CASE TestBusy(t)
  <2>1. Micros + PerMs \in Int
    BY Widths DEF TypeOK, Micros
  <2>2. End \in 0 .. UsMod - 1
    BY <2>1, Widths, ModRange DEF End
  <2> QED
    BY <1>2, <2>2, Widths DEF TestBusy, TypeOK, Goes, Set, Polled, bus
<1>3. CASE TestFree(t)
  BY <1>3, Widths DEF TestFree, LoopEnds, TypeOK, Goes, Set, bus
<1>4. CASE Delay(t)
  BY <1>4, Widths DEF Delay, Polled, TypeOK, Goes, Set, bus
<1>5. CASE TimesOut(t)
  BY <1>5, Widths DEF TimesOut, LoopEnds, TypeOK, Goes, Set, bus
<1>6. CASE TriesAgain(t)
  BY <1>6, Widths DEF TriesAgain, Polled, TypeOK, Goes, Set, bus
<1>7. CASE Compare(t)
  BY <1>7 DEF Compare, TypeOK, Goes, bus, local
<1>8. CASE SetNumber(t)
  BY <1>8, DeviceAssumption DEF SetNumber, TypeOK, Goes, local, Range
<1>9. CASE Configure(t)
  BY <1>9, DeviceAssumption DEF Configure, TypeOK, Goes, local, Range
<1>10. CASE Claim(t)
  BY <1>10 DEF Claim, TypeOK, Goes, local
<1>11. CASE Transfer(t)
  BY <1>11 DEF Transfer, TypeOK, Goes, bus, local
<1>12. CASE Release(t)
  BY <1>12 DEF Release, Freed, TypeOK, Goes, local
<1> QED
  BY <1>1, <1>2, <1>3, <1>4, <1>5, <1>6, <1>7, <1>8, <1>9, <1>10, <1>11,
     <1>12 DEF take

(* Every variable keeps to its range: the words to their widths, a call's   *)
(* wait to the bound at which it is no longer counted.                      *)
THEOREM TypeCorrect == Spec => []TypeOK
<1>1. TypeOK /\ UNCHANGED vars => TypeOK'
  BY DEF TypeOK, vars, bus, local
<1>2. TypeOK /\ [Next]_vars => TypeOK'
  BY <1>1, TypeTick, TypeStep DEF Next
<1> QED
  BY <1>2, TypeInit, PTL DEF Spec
-----------------------------------------------------------------------------
(* The clocks.  What a division leaves, whatever the quotient. *)
LEMMA Division ==
  ASSUME NEW x \in Int, NEW s \in Nat \ {0}, NEW q \in Int,
         NEW r \in 0..s - 1, x = q * s + r
  PROVE  x \div s = q /\ x % s = r
<1>1. x \div s \in Int /\ x % s \in 0..s - 1 /\ x = (x \div s) * s + (x % s)
  BY Z3
<1> DEFINE d == x \div s
           m == x % s
<1>2. d \in Int /\ m \in 0..s - 1 /\ d * s + m = q * s + r
  BY <1>1
<1> HIDE DEF d, m
<1>3. ASSUME d >= q + 1 PROVE FALSE
  <2>1. d * s >= q * s + s /\ d * s \in Int /\ q * s \in Int
    BY <1>2, <1>3, Z3
  <2> QED BY <2>1, <1>2
<1>4. ASSUME d <= q - 1 PROVE FALSE
  <2>1. d * s <= q * s - s /\ d * s \in Int /\ q * s \in Int
    BY <1>2, <1>4, Z3
  <2> QED BY <2>1, <1>2
<1>5. d = q
  BY <1>2, <1>3, <1>4
<1>6. m = r
  <2>1. q * s \in Int
    BY Z3
  <2> QED BY <2>1, <1>2, <1>5
<1> QED
  BY <1>5, <1>6 DEF d, m

(* A whole turn does not change a remainder. *)
LEMMA Turn ==
  ASSUME NEW x \in Int, NEW s \in Nat \ {0}
  PROVE  (x + s) % s = x % s
<1>1. x \div s \in Int /\ x % s \in 0..s - 1 /\ x = (x \div s) * s + (x % s)
  BY Z3
<1>2. x + s = ((x \div s) + 1) * s + (x % s) /\ (x \div s) + 1 \in Int
  BY <1>1, Z3
<1>3. (x + s) % s = x % s
  <2> DEFINE q == (x \div s) + 1
             r == x % s
  <2>1. q \in Int /\ r \in 0..s - 1 /\ x + s \in Int /\ x + s = q * s + r
    BY <1>1, <1>2
  <2> HIDE DEF q
  <2>2. (x + s) % s = r
    BY <2>1, Division
  <2> QED BY <2>2
<1> QED
  BY <1>3

Part == now % PerMs  (* the units since milli_seconds was counted *)

LEMMA Reading ==
  ASSUME TypeOK
  PROVE  /\ now \in Nat /\ now < PerMs * MsMod
         /\ Ms \in 0..MsMod - 1 /\ Part \in 0..PerMs - 1
         /\ now = Ms * PerMs + Part
         /\ Micros \in 0..UsMod - 1
<1>1. now \in Nat /\ now < PerMs * MsMod
  BY Widths DEF TypeOK
<1>2. Ms \in Int /\ Part \in 0..PerMs - 1 /\ now = Ms * PerMs + Part
  BY <1>1, Widths, Z3 DEF Ms, Part
<1>3. Ms >= 0
  <2>1. ASSUME Ms <= -1 PROVE FALSE
    <3>1. Ms * PerMs <= -PerMs /\ Ms * PerMs \in Int
      BY <1>2, <2>1, Widths, Z3
    <3> QED BY <3>1, <1>1, <1>2, Widths
  <2> QED BY <2>1, <1>2
<1>4. Ms < MsMod
  <2>1. ASSUME Ms >= MsMod PROVE FALSE
    <3>1. Ms * PerMs >= PerMs * MsMod /\ Ms * PerMs \in Int
      BY <1>2, <2>1, Widths, Z3
    <3> QED BY <3>1, <1>1, <1>2, Widths
  <2> QED BY <2>1, <1>2, Widths
<1>5. Micros \in 0..UsMod - 1
  BY <1>1, Widths, ModRange DEF Micros
<1> QED
  BY <1>1, <1>2, <1>3, <1>4, <1>5, Widths

(* A tick of milli_seconds, and one inside the millisecond. *)
LEMMA MsTick ==
  ASSUME TypeOK, Tick
  PROVE  \/ Part < PerMs - 1 /\ Part' = Part + 1 /\ Ms' = Ms
         \/ /\ Part = PerMs - 1 /\ Part' = 0
            /\ \/ Ms < MsMod - 1 /\ Ms' = Ms + 1
               \/ Ms = MsMod - 1 /\ Ms' = 0
<1> DEFINE turn == PerMs * MsMod
<1>1. turn \in Nat \ {0} /\ now' = (now + 1) % turn
  BY Widths DEF Tick
<1>2. /\ now \in Nat /\ now < turn
      /\ Ms \in 0..MsMod - 1 /\ Part \in 0..PerMs - 1
      /\ now = Ms * PerMs + Part
  BY Reading
<1>3. ASSUME NEW q \in Int, NEW r \in 0..PerMs - 1, now' = q * PerMs + r
      PROVE  Ms' = q /\ Part' = r
  <2>1. now' \in Int
    BY <1>1, <1>2, ModRange
  <2> QED BY <2>1, <1>3, Division, Widths DEF Ms, Part
<1>4. CASE now + 1 < turn
  <2>1. now + 1 = 0 * turn + (now + 1) /\ now + 1 \in 0..turn - 1
    BY <1>1, <1>2, <1>4
  <2>2. now' = now + 1
    <3> HIDE DEF turn
    <3> QED BY <2>1, <1>1, <1>2, Division
  <2>3. CASE Part < PerMs - 1
    <3>1. now' = Ms * PerMs + (Part + 1) /\ Part + 1 \in 0..PerMs - 1
      <4>1. Ms * PerMs \in Int
        BY <1>2, Widths, Z3
      <4> QED BY <4>1, <2>2, <2>3, <1>2, Widths
    <3> QED BY <3>1, <2>3, <1>2, <1>3
  <2>4. CASE Part = PerMs - 1
    <3>1. now' = (Ms + 1) * PerMs + 0
      BY <2>2, <2>4, <1>2, Widths, Z3
    <3>2. Ms' = Ms + 1 /\ Part' = 0
      BY <3>1, <1>2, <1>3, Widths
    <3>3. Ms < MsMod - 1
      <4>1. ASSUME Ms = MsMod - 1 PROVE FALSE
        <5>1. (Ms + 1) * PerMs + 0 = turn
          BY <4>1, Widths, Z3
        <5> QED BY <5>1, <3>1, <2>2, <1>4, <1>2, <1>1
      <4> QED BY <4>1, <1>2, Widths
    <3> QED BY <3>2, <3>3, <2>4
  <2> QED BY <2>3, <2>4, <1>2, Widths
<1>5. CASE now + 1 = turn
  <2>1. now' = 0
    <3>1. now + 1 = 1 * turn + 0 /\ 0 \in 0..turn - 1 /\ now + 1 \in Int
      BY <1>1, <1>2, <1>5
    <3> HIDE DEF turn
    <3> QED BY <3>1, <1>1, Division
  <2>2. Ms' = 0 /\ Part' = 0
    <3>1. now' = 0 * PerMs + 0 /\ 0 \in 0..PerMs - 1
      BY <2>1, Widths
    <3> QED BY <3>1, <1>3
  <2>3. Ms = MsMod - 1 /\ Part = PerMs - 1
    <3>1. now = (MsMod - 1) * PerMs + (PerMs - 1) /\ now \in Int
      BY <1>5, <1>2, Widths, Z3
    <3>2. MsMod - 1 \in Int /\ PerMs - 1 \in 0..PerMs - 1
      BY Widths
    <3> QED BY <3>1, <3>2, Widths, Division DEF Ms, Part
  <2> QED BY <2>2, <2>3
<1> QED
  BY <1>1, <1>2, <1>4, <1>5

LEMMA UsTick ==
  ASSUME TypeOK, Tick
  PROVE  Micros' = IF Micros = UsMod - 1 THEN 0 ELSE Micros + 1
<1> DEFINE turn == PerMs * MsMod
           a == now \div UsMod
           k == turn \div UsMod
<1>1. turn \in Nat \ {0} /\ now' = (now + 1) % turn
  BY Widths DEF Tick
<1>2. now \in Nat /\ now < turn /\ Micros \in 0..UsMod - 1
  BY Reading
<1>3. a \in Int /\ now = a * UsMod + Micros
  BY <1>2, Widths, Z3 DEF Micros
<1>4. k \in Int /\ turn = k * UsMod
  <2>1. turn % UsMod = 0
    BY TimeAssumption
  <2>2. k \in Int /\ turn = k * UsMod + (turn % UsMod)
      /\ k * UsMod \in Int
    <3> HIDE DEF turn
    <3> QED BY <1>1, Widths, Z3
  <2> HIDE DEF turn, k
  <2> QED BY <2>1, <2>2
<1>5. ASSUME NEW q \in Int, NEW r \in 0..UsMod - 1, now' = q * UsMod + r
      PROVE  Micros' = r
  <2>1. now' \in Int
    BY <1>1, <1>2, ModRange
  <2> QED BY <2>1, <1>5, Division, Widths DEF Micros
<1> HIDE DEF a, k, turn
<1>6. CASE now + 1 < turn
  <2>1. now' = now + 1
    <3>1. now + 1 = 0 * turn + (now + 1) /\ now + 1 \in 0..turn - 1
      BY <1>1, <1>2, <1>6
    <3> QED BY <3>1, <1>1, <1>2, Division
  <2>2. CASE Micros = UsMod - 1
    <3>1. now' = (a + 1) * UsMod + 0 /\ 0 \in 0..UsMod - 1
      BY <2>1, <2>2, <1>3, Widths, Z3
    <3>2. Micros' = 0
      BY <3>1, <1>3, <1>5
    <3> QED BY <3>2, <2>2
  <2>3. CASE Micros # UsMod - 1
    <3>1. now' = a * UsMod + (Micros + 1) /\ Micros + 1 \in 0..UsMod - 1
      <4>1. a * UsMod \in Int
        BY <1>3, Widths, Z3
      <4> QED BY <4>1, <2>1, <2>3, <1>2, <1>3, Widths
    <3>2. Micros' = Micros + 1
      BY <3>1, <1>3, <1>5
    <3> QED BY <3>2, <2>3
  <2> QED BY <2>2, <2>3
<1>7. CASE now + 1 = turn
  <2>1. now' = 0
    <3>1. now + 1 = 1 * turn + 0 /\ 0 \in 0..turn - 1 /\ now + 1 \in Int
      BY <1>1, <1>2, <1>7
    <3> QED BY <3>1, <1>1, Division
  <2>2. Micros' = 0
    <3>1. now' = 0 * UsMod + 0 /\ 0 \in 0..UsMod - 1
      BY <2>1, Widths
    <3> QED BY <3>1, <1>5
  <2>3. Micros = UsMod - 1
    <3>1. now = (k - 1) * UsMod + (UsMod - 1) /\ now \in Int /\ k - 1 \in Int
          /\ UsMod - 1 \in 0..UsMod - 1
      BY <1>7, <1>4, <1>2, Widths, Z3
    <3> QED BY <3>1, Widths, Division DEF Micros
  <2> QED BY <2>2, <2>3
<1> QED
  BY <1>1, <1>2, <1>6, <1>7
-----------------------------------------------------------------------------
(* What take waits.  The end it computed lies delta milliseconds of          *)
(* milli_seconds back, and the wait is that long, give or take the           *)
(* millisecond that had begun.                                              *)
Counted(t, delta) ==
  /\ end[t] = (Ms + Timeout - delta) % MsMod
  /\ waited[t] >= delta * PerMs + Part - PerMs + 1
  /\ waited[t] <= delta * PerMs + Part
Elapsed == \A t \in Task : Waits(t) /\ waited[t] <= MaxWait
                             => \E delta \in Nat : Counted(t, delta)
Fresh   == \A t \in Task : ~Waits(t) => waited[t] = 0

TimeInv == TypeOK /\ Elapsed /\ Fresh

LEMMA Ends ==
  ASSUME TypeOK, NEW t \in Task, NEW delta \in Nat, Counted(t, delta),
         delta < MsMod
  PROVE  IsTimeOut(t) <=> delta > Timeout
<1>1. Ms \in Int /\ MsMod \in Nat \ {0} /\ Timeout \in Nat /\ Timeout < MsMod
  BY Reading, Widths, TimeAssumption
<1> DEFINE x == Ms + Timeout - delta
           q == x \div MsMod
           r == x % MsMod
<1>2. x \in Int /\ q \in Int /\ r \in 0..MsMod - 1 /\ x = q * MsMod + r
  <2>1. x \in Int
    BY <1>1
  <2> HIDE DEF x
  <2> QED BY <1>1, <2>1, Z3
<1>3. end[t] = r
  BY DEF Counted
<1>4. q * MsMod \in Int
  BY <1>1, <1>2, Z3
<1>5. CASE delta <= Timeout
  <2>1. r - Ms = (-q) * MsMod + (Timeout - delta)
    BY <1>1, <1>2, <1>5, Z3
  <2>2. (r - Ms) % MsMod = Timeout - delta
    <3>1. /\ r - Ms \in Int /\ -q \in Int
          /\ Timeout - delta \in 0..MsMod - 1
      BY <1>1, <1>2, <1>5
    <3> HIDE DEF r, q
    <3> QED BY <3>1, <2>1, <1>1, Division
  <2> HIDE DEF r, q
  <2> QED BY <2>2, <1>3, <1>1, <1>5 DEF IsTimeOut
<1>6. CASE delta > Timeout
  <2>1. r - Ms = (-q - 1) * MsMod + (MsMod + Timeout - delta)
    BY <1>1, <1>2, <1>6, Z3
  <2>2. (r - Ms) % MsMod = MsMod + Timeout - delta
    <3>1. /\ r - Ms \in Int /\ -q - 1 \in Int
          /\ MsMod + Timeout - delta \in 0..MsMod - 1
      BY <1>1, <1>2, <1>6
    <3> HIDE DEF r, q
    <3> QED BY <3>1, <2>1, <1>1, Division
  <2> HIDE DEF r, q
  <2> QED BY <2>2, <1>3, <1>1, <1>6 DEF IsTimeOut
<1> QED
  BY <1>1, <1>5, <1>6

(* Products with the length of a millisecond. *)
LEMMA Products ==
  ASSUME NEW delta \in Nat
  PROVE  /\ delta * PerMs \in Nat
         /\ (delta + 1) * PerMs = delta * PerMs + PerMs
         /\ \A m \in Nat : m <= delta => m * PerMs <= delta * PerMs
         /\ Timeout * PerMs \in Nat
         /\ MaxWait = Timeout * PerMs + 2 * PerMs + 3 * MaxLag
<1>1. PerMs \in Nat \ {0} /\ Timeout \in Nat /\ MaxLag \in Nat
  BY Widths
<1>2. \A m \in Nat : m <= delta => m * PerMs <= delta * PerMs
  <2> SUFFICES ASSUME NEW m \in Nat, m <= delta
               PROVE  m * PerMs <= delta * PerMs
    OBVIOUS
  <2>1. delta * PerMs = m * PerMs + (delta - m) * PerMs
    BY <1>1, Z3
  <2>2. (delta - m) * PerMs \in Nat /\ m * PerMs \in Nat
    BY <1>1, Z3
  <2> QED BY <2>1, <2>2
<1>3. MaxWait = Timeout * PerMs + 2 * PerMs + 3 * MaxLag
  BY <1>1, Z3 DEF MaxWait
<1> QED
  BY <1>1, <1>2, <1>3, Z3

LEMMA ElapsedTick == TimeInv /\ Tick => Elapsed'
<1> SUFFICES ASSUME TimeInv, Tick, NEW t \in Task, Waits(t)',
                    (waited[t] <= MaxWait)'
             PROVE  (\E delta \in Nat : Counted(t, delta))'
  BY DEF Elapsed
<1>1. TypeOK /\ MaxWait \in Nat
  BY Widths DEF TimeInv
<1>2. waited[t] \in Nat /\ Waits(t) /\ end'[t] = end[t]
  BY <1>1 DEF TypeOK, Tick, Waits
<1>3. waited[t] <= MaxWait /\ waited'[t] = waited[t] + 1
  BY <1>1, <1>2 DEF TypeOK, Tick
<1>4. PICK delta \in Nat : Counted(t, delta)
  BY <1>2, <1>3 DEF TimeInv, Elapsed
<1>5. /\ delta * PerMs \in Nat
      /\ (delta + 1) * PerMs = delta * PerMs + PerMs
  BY Products
<1>6. Ms \in 0..MsMod - 1 /\ Part \in 0..PerMs - 1
  BY <1>1, Reading
<1>7. CASE Part < PerMs - 1 /\ Part' = Part + 1 /\ Ms' = Ms
  <2>1. Counted(t, delta)'
    BY <1>2, <1>3, <1>4, <1>5, <1>6, <1>7, Widths DEF Counted
  <2> QED BY <2>1
<1>8. CASE Part = PerMs - 1 /\ Part' = 0
  <2>1. end[t] = (Ms' + Timeout - (delta + 1)) % MsMod
    <3>1. \/ Ms' = Ms + 1
          \/ Ms = MsMod - 1 /\ Ms' = 0
      BY <1>1, <1>8, MsTick, Widths
    <3>2. CASE Ms' = Ms + 1
      <4>1. Ms' + Timeout - (delta + 1) = Ms + Timeout - delta
        BY <3>2, <1>6, Widths
      <4> QED BY <4>1, <1>4 DEF Counted
    <3>3. CASE Ms = MsMod - 1 /\ Ms' = 0
      <4>1. /\ Ms' + Timeout - (delta + 1) \in Int
            /\ Ms + Timeout - delta = (Ms' + Timeout - (delta + 1)) + MsMod
        BY <3>3, <1>6, Widths
      <4> QED BY <4>1, <1>4, Turn, Widths DEF Counted
    <3> QED BY <3>1, <3>2, <3>3
  <2>2. Counted(t, delta + 1)'
    BY <2>1, <1>2, <1>3, <1>4, <1>5, <1>6, <1>8, Widths DEF Counted
  <2> QED BY <2>2
<1> QED
  BY <1>1, <1>7, <1>8, MsTick

(* The clock stands: a step of a task other than Take. *)
LEMMA ElapsedKept ==
  ASSUME TimeInv, now' = now, NEW t \in Task,
         Waits(t)' => Waits(t), end'[t] = end[t], waited'[t] = waited[t],
         Waits(t)', (waited[t] <= MaxWait)'
  PROVE  (\E delta \in Nat : Counted(t, delta))'
  BY DEF TimeInv, Elapsed, Counted, Ms, Part

LEMMA TimeStep == TimeInv /\ [Next]_vars => TimeInv'
<1> SUFFICES ASSUME TimeInv, [Next]_vars PROVE TimeInv'
  OBVIOUS
<1>1. TypeOK /\ TypeOK'
  <2>1. TypeOK /\ UNCHANGED vars => TypeOK'
    BY DEF TypeOK, vars, bus, local
  <2> QED
    BY <2>1, TypeTick, TypeStep DEF Next, TimeInv
<1>2. CASE UNCHANGED vars
  BY <1>1, <1>2 DEF vars, local, TimeInv, Elapsed, Fresh, Waits, Counted, Ms, Part
<1>3. CASE Tick
  <2>1. Fresh'
    BY <1>1, <1>3 DEF Tick, TimeInv, Fresh, TypeOK, Waits
  <2> QED BY <1>1, <1>3, <2>1, ElapsedTick DEF TimeInv
<1>4. ASSUME NEW t \in Task, Take(t) PROVE TimeInv'
  <2>1. Fresh'
    BY <1>1, <1>4 DEF Take, TimeInv, Fresh, TypeOK, Waits, Goes, Set
  <2>2. ASSUME NEW u \in Task, Waits(u)', (waited[u] <= MaxWait)'
        PROVE  (\E delta \in Nat : Counted(u, delta))'
    <3>1. CASE u = t
      <4>1. Part \in 0..PerMs - 1 /\ Ms \in Int
        BY <1>1, Reading
      <4>2. end'[t] = (Ms + Timeout) % MsMod /\ waited'[t] = 0
        BY <1>1, <1>4 DEF Take, TimeInv, Fresh, TypeOK, Waits, Set
      <4>3. Ms + Timeout = Ms + Timeout - 0
        BY <4>1, Widths
      <4>4. 0 * PerMs = 0
        BY Widths
      <4>5. Ms' = Ms /\ Part' = Part
        BY <1>4 DEF Take, Ms, Part
      <4>6. Counted(t, 0)'
        BY <4>1, <4>2, <4>3, <4>4, <4>5, Widths DEF Counted
      <4> QED BY <3>1, <4>6
    <3>2. CASE u # t
      BY <1>1, <1>4, <2>2, <3>2, ElapsedKept
         DEF Take, TypeOK, Waits, Goes, Set
    <3> QED BY <3>1, <3>2
  <2> QED BY <1>1, <2>1, <2>2 DEF TimeInv, Elapsed
<1>5. ASSUME NEW t \in Task,
             \/ TestBusy(t) \/ TestFree(t) \/ Delay(t)
             \/ TimesOut(t) \/ TriesAgain(t)
             \/ Compare(t) \/ SetNumber(t) \/ Configure(t) \/ Claim(t)
             \/ Transfer(t) \/ Release(t)
      PROVE  TimeInv'
  <2>1. now' = now
    BY <1>5 DEF TestBusy, TestFree, Delay, TimesOut, TriesAgain, Compare,
                SetNumber, Configure, Claim, Transfer, Release
  <2>2. ASSUME NEW u \in Task
        PROVE  \/ /\ end'[u] = end[u] /\ waited'[u] = waited[u]
                  /\ Waits(u)' <=> Waits(u)
               \/ ~Waits(u)' /\ waited'[u] = 0
    <3>1. CASE TestBusy(t) \/ Delay(t) \/ TriesAgain(t)
      BY <1>1, <3>1 DEF TypeOK, TestBusy, Delay, TriesAgain, Waits, Goes
    <3>2. CASE TestFree(t) \/ TimesOut(t)
      BY <1>1, <3>2 DEF TypeOK, TestFree, TimesOut, LoopEnds, Waits, Goes, Set
    <3>3. CASE \/ Compare(t) \/ SetNumber(t) \/ Configure(t) \/ Claim(t)
               \/ Transfer(t) \/ Release(t)
      BY <1>1, <3>3 DEF TypeOK, Compare, SetNumber, Configure, Claim,
                        Transfer, Release, Waits, Goes, local
    <3> QED BY <1>5, <3>1, <3>2, <3>3
  <2>3. Fresh'
    BY <2>2 DEF TimeInv, Fresh
  <2>4. Elapsed'
    BY <2>1, <2>2, ElapsedKept DEF Elapsed
  <2> QED BY <1>1, <2>3, <2>4 DEF TimeInv
<1> QED
  BY <1>2, <1>3, <1>4, <1>5 DEF Next, take

LEMMA TimeInit == Init => TimeInv
  BY TypeInit DEF Init, TimeInv, Elapsed, Fresh, Waits

LEMMA TimeInvariance == Spec => []TimeInv
  BY TimeInit, TimeStep, PTL DEF Spec

(* take gives up only after the whole timeout, at every wrap of              *)
(* milli_seconds.                                                           *)
THEOREM FullTimeout == Spec => []WaitsFullTimeout
<1>1. TimeInv => WaitsFullTimeout
  <2> SUFFICES ASSUME TimeInv, NEW t \in Task, pc[t] = "check",
                      IsTimeOut(t), ~(waited[t] > Timeout * PerMs)
               PROVE  FALSE
    BY DEF WaitsFullTimeout
  <2>1. TypeOK /\ waited[t] \in Nat /\ Timeout \in Nat
    BY Widths DEF TimeInv, TypeOK
  <2>2. Timeout * PerMs \in Nat /\ waited[t] <= MaxWait
    BY <2>1, Products, Widths
  <2>3. PICK delta \in Nat : Counted(t, delta)
    BY <2>2 DEF TimeInv, Elapsed, Waits
  <2>4. Part \in 0..PerMs - 1
    BY <2>1, Reading
  <2>5. delta <= Timeout
    <3>1. ASSUME delta >= Timeout + 1 PROVE FALSE
      <4>1. /\ (Timeout + 1) * PerMs = Timeout * PerMs + PerMs
            /\ (Timeout + 1) * PerMs <= delta * PerMs
            /\ delta * PerMs \in Nat
        BY <2>1, <3>1, Products
      <4> QED BY <4>1, <2>1, <2>2, <2>3, <2>4, Widths DEF Counted
    <3> QED BY <3>1, <2>1
  <2> QED BY <2>1, <2>3, <2>5, Ends, TimeAssumption
<1> QED
  BY <1>1, TimeInvariance, PTL
-----------------------------------------------------------------------------
(* How long a take has waited at each stage of its loop, as long as micros   *)
(* has not wrapped past the end of a delay_ms.  In a delay_ms, d units have  *)
(* passed since it read micros; unless its end lies behind the wrap, micros  *)
(* has not wrapped since.                                                   *)
Whole == Timeout * PerMs + PerMs

Reached(w, d) ==
  Micros = IF w >= PerMs \/ d >= PerMs - w
             THEN w - PerMs + d ELSE w - PerMs + UsMod + d

Delayed(t, d) ==
  /\ d <= PerMs - 1 + lag[t]
  /\ waited[t] <= Whole - 1 + MaxLag + d
  /\ Reached(wake[t], d)

Tested(t)  == waited[t] <= Whole - 1 + lag[t]
Checked(t) == waited[t] <= Whole + PerMs - 2 + 2 * MaxLag + lag[t]

Stages(t) ==
  /\ pc[t] = "test"  => Tested(t)
  /\ pc[t] = "delay" => \E d \in Nat : Delayed(t, d)
  /\ pc[t] = "check" => Checked(t)

Prompt == \A t \in Task : ~missed[t] => Stages(t)

LEMMA Bounds ==
  /\ Whole \in Nat /\ Whole >= PerMs /\ PerMs \in Nat \ {0}
  /\ MaxLag \in Nat /\ UsMod \in Nat /\ UsMod > PerMs
  /\ MaxLag + PerMs <= UsMod
  /\ MaxWait = Whole + PerMs + 3 * MaxLag /\ MaxWait \in Nat
<1>1. Timeout * PerMs \in Nat
      /\ MaxWait = Timeout * PerMs + 2 * PerMs + 3 * MaxLag
  BY Products
<1> QED
  BY <1>1, Widths, TimeAssumption, LagAssumption DEF Whole

LEMMA InTime ==
  ASSUME TypeOK, NEW t \in Task, Stages(t), Waits(t)
  PROVE  waited[t] <= MaxWait
<1>1. waited[t] \in Nat /\ lag[t] \in 0..MaxLag
  BY Bounds DEF TypeOK
<1> QED
  BY <1>1, Bounds DEF Stages, Waits, Tested, Delayed, Checked

LEMMA PromptTick ==
  ASSUME TimeInv, Prompt, Tick, NEW t \in Task, ~missed'[t]
  PROVE  Stages(t)'
<1>1. TypeOK /\ TypeOK'
  BY TypeTick DEF TimeInv
<1>2. /\ waited[t] \in Nat /\ lag[t] \in 0..MaxLag /\ wake[t] \in 0..UsMod - 1
      /\ Micros \in 0..UsMod - 1
      /\ ~missed[t] /\ pc'[t] = pc[t] /\ wake'[t] = wake[t]
      /\ pc[t] = "delay" /\ wake[t] >= PerMs => Micros # UsMod - 1
  BY <1>1, Bounds, Reading DEF Tick, TypeOK
<1>3. Stages(t)
  BY <1>2 DEF Prompt
<1>4. ASSUME Waits(t)
      PROVE  /\ lag[t] < MaxLag /\ lag'[t] = lag[t] + 1
             /\ waited'[t] = waited[t] + 1
  <2>1. waited[t] <= MaxWait
    BY <1>1, <1>3, <1>4, InTime
  <2> QED BY <1>1, <1>4, <2>1 DEF Tick, TypeOK
<1>5. ASSUME pc[t] = "delay" PROVE (\E d \in Nat : Delayed(t, d))'
  <2>1. PICK d \in Nat : Delayed(t, d)
    BY <1>3, <1>5 DEF Stages
  <2>2. /\ lag[t] < MaxLag /\ lag'[t] = lag[t] + 1
        /\ waited'[t] = waited[t] + 1
    BY <1>4, <1>5 DEF Waits
  <2>3. Micros' = IF Micros = UsMod - 1 THEN 0 ELSE Micros + 1
    BY <1>1, UsTick
  <2>4. Reached(wake[t], d) /\ d + 1 <= PerMs - 1 + lag'[t]
        /\ waited'[t] <= Whole - 1 + MaxLag + (d + 1)
    BY <1>2, <2>1, <2>2, Bounds DEF Delayed
  <2>5. Reached(wake[t], d + 1)'
    BY <1>2, <1>5, <2>2, <2>3, <2>4, Bounds DEF Reached
  <2>6. Delayed(t, d + 1)'
    BY <1>2, <2>4, <2>5 DEF Delayed, Reached
  <2> QED BY <2>6
<1>6. ASSUME pc[t] = "test" PROVE Tested(t)'
  BY <1>2, <1>3, <1>4, <1>6, Bounds DEF Stages, Tested, Waits
<1>7. ASSUME pc[t] = "check" PROVE Checked(t)'
  BY <1>2, <1>3, <1>4, <1>7, Bounds DEF Stages, Checked, Waits
<1> QED
  BY <1>2, <1>5, <1>6, <1>7 DEF Stages

LEMMA PromptTestBusy ==
  ASSUME TypeOK, NEW t \in Task, Stages(t), TestBusy(t)
  PROVE  Stages(t)'
<1>1. /\ waited[t] \in Nat /\ lag[t] \in 0..MaxLag /\ Micros \in 0..UsMod - 1
      /\ waited[t] <= Whole - 1 + lag[t]
  BY Bounds, Reading DEF TypeOK, TestBusy, Stages, Tested
<1>2. /\ pc'[t] = "delay" /\ wake'[t] = End /\ lag'[t] = 0
      /\ waited'[t] = waited[t] /\ Micros' = Micros
  BY DEF TestBusy, TypeOK, Goes, Set, Polled, Micros
<1>3. End = IF Micros + PerMs < UsMod THEN Micros + PerMs
                                      ELSE Micros + PerMs - UsMod
  <2>1. CASE Micros + PerMs < UsMod
    <3>1. Micros + PerMs = 0 * UsMod + (Micros + PerMs)
          /\ Micros + PerMs \in 0..UsMod - 1
      BY <1>1, <2>1, Bounds
    <3> QED BY <3>1, <2>1, Division, Widths DEF End
  <2>2. CASE Micros + PerMs >= UsMod
    <3>1. Micros + PerMs = 1 * UsMod + (Micros + PerMs - UsMod)
          /\ Micros + PerMs - UsMod \in 0..UsMod - 1
          /\ Micros + PerMs \in Int /\ 1 \in Int
      BY <1>1, <2>2, Bounds
    <3>2. (Micros + PerMs) % UsMod = Micros + PerMs - UsMod
      BY <3>1, Division, Widths
    <3> QED BY <3>2, <2>2, <1>1, Bounds DEF End
  <2> QED BY <2>1, <2>2, <1>1, Bounds
<1>4. Reached(End, 0)
  BY <1>1, <1>3, Bounds DEF Reached
<1>5. Delayed(t, 0)'
  BY <1>1, <1>2, <1>4, Bounds DEF Delayed, Reached
<1> QED
  BY <1>2, <1>5 DEF Stages

LEMMA PromptDelay ==
  ASSUME TypeOK, NEW t \in Task, Stages(t), Delay(t)
  PROVE  Stages(t)'
<1>1. /\ waited[t] \in Nat /\ lag[t] \in 0..MaxLag /\ wake[t] \in 0..UsMod - 1
      /\ Micros \in 0..UsMod - 1
  BY Bounds, Reading DEF TypeOK
<1>2. lag'[t] = 0 /\ waited'[t] = waited[t] /\ Micros' = Micros
      /\ pc[t] = "delay"
  BY DEF Delay, TypeOK, Polled, Set, Micros
<1>3. PICK d \in Nat : Delayed(t, d)
  BY <1>2 DEF Stages
<1>4. CASE Micros < wake[t]
  <2>1. pc'[t] = "delay" /\ wake'[t] = wake[t]
    BY <1>2, <1>4 DEF Delay
  <2>2. d <= PerMs - 1
    BY <1>1, <1>3, <1>4, Bounds DEF Delayed, Reached
  <2>3. Delayed(t, d)'
    BY <1>1, <1>2, <1>3, <2>1, <2>2, Bounds DEF Delayed, Reached
  <2> QED BY <2>1, <2>3 DEF Stages
<1>5. CASE ~(Micros < wake[t])
  <2>1. pc'[t] = "check"
    BY <1>5 DEF Delay, TypeOK, Goes
  <2>2. Checked(t)'
    BY <1>1, <1>2, <1>3, Bounds DEF Delayed, Checked
  <2> QED BY <2>1, <2>2 DEF Stages
<1> QED
  BY <1>4, <1>5

(* A task that tries again has counted Timeout milliseconds at most. *)
LEMMA PromptTriesAgain ==
  ASSUME TimeInv, NEW t \in Task, Stages(t), TriesAgain(t)
  PROVE  Stages(t)'
<1>1. TypeOK /\ waited[t] \in Nat /\ Timeout \in Nat
  BY Widths DEF TimeInv, TypeOK
<1>2. waited'[t] = waited[t] /\ lag'[t] = 0 /\ pc'[t] = "test"
  BY <1>1 DEF TriesAgain, TypeOK, Goes, Polled, Set
<1>3. Waits(t) /\ ~IsTimeOut(t)
  BY DEF TriesAgain, Waits
<1>4. waited[t] <= MaxWait
  BY <1>1, <1>3, InTime
<1>5. PICK delta \in Nat : Counted(t, delta)
  BY <1>3, <1>4 DEF TimeInv, Elapsed
<1>6. Part \in 0..PerMs - 1 /\ delta * PerMs \in Nat
  BY <1>1, Reading, Products
<1>7. delta < MsMod
  <2>1. ASSUME MsMod <= delta PROVE FALSE
    <3>1. MsMod * PerMs <= delta * PerMs /\ MsMod * PerMs = PerMs * MsMod
      BY <2>1, Products, Widths
    <3>2. delta * PerMs <= MaxWait + PerMs - 1
      BY <1>1, <1>4, <1>5, <1>6, Bounds DEF Counted
    <3> QED BY <3>1, <3>2, <1>6, LagAssumption, Bounds, Widths
  <2> QED BY <2>1, Widths
<1>8. delta <= Timeout
  BY <1>1, <1>3, <1>5, <1>7, Ends
<1>9. delta * PerMs <= Timeout * PerMs
  BY <1>1, <1>8, Products
<1>10. waited[t] <= Whole - 1
  BY <1>1, <1>5, <1>6, <1>9, Products, Bounds DEF Counted, Whole
<1>11. Tested(t)'
  BY <1>1, <1>2, <1>10, Bounds DEF Tested, Whole
<1> QED
  BY <1>2, <1>11 DEF Stages

LEMMA PromptTake ==
  ASSUME TimeInv, NEW t \in Task, Take(t)
  PROVE  Stages(t)'
<1>1. TypeOK /\ lag[t] \in Nat
  BY Bounds DEF TimeInv, TypeOK
<1>2. waited'[t] = 0 /\ lag'[t] = lag[t] /\ pc'[t] = "test"
  BY <1>1 DEF Take, TimeInv, TypeOK, Fresh, Waits, Goes
<1>3. Tested(t)'
  BY <1>1, <1>2, Bounds DEF Tested, Whole
<1> QED
  BY <1>2, <1>3 DEF Stages

LEMMA PromptStep == TimeInv /\ Prompt /\ [Next]_vars => Prompt'
<1> SUFFICES ASSUME TimeInv, Prompt, [Next]_vars, NEW u \in Task, ~missed'[u]
             PROVE  Stages(u)'
  BY DEF Prompt
<1>1. TypeOK
  BY DEF TimeInv
<1>2. ASSUME now' = now, pc'[u] = pc[u], wake'[u] = wake[u], lag'[u] = lag[u],
             waited'[u] = waited[u], missed'[u] = missed[u]
      PROVE  Stages(u)'
  <2>1. Stages(u)
    BY <1>2 DEF Prompt
  <2> QED
    BY <1>2, <2>1 DEF Stages, Tested, Checked, Delayed, Reached, Micros
<1>3. CASE UNCHANGED vars
  BY <1>2, <1>3 DEF vars, local
<1>4. CASE Tick
  BY <1>4, PromptTick
<1>5. ASSUME NEW t \in Task, take(t) \/ Transfer(t) \/ Release(t)
      PROVE  Stages(u)'
  <2>1. CASE u # t
    <3>1. now' = now
      BY <1>5 DEF take, Take, TestBusy, TestFree, Delay, TimesOut, TriesAgain,
                  Compare, SetNumber, Configure, Claim, Transfer, Release
    <3>2. /\ pc'[u] = pc[u] /\ wake'[u] = wake[u] /\ lag'[u] = lag[u]
          /\ waited'[u] = waited[u] /\ missed'[u] = missed[u]
      <4>1. CASE Take(t) \/ TestBusy(t) \/ Delay(t) \/ TriesAgain(t)
        BY <1>1, <2>1, <4>1 DEF TypeOK, Take, TestBusy, Delay, TriesAgain,
                                Goes, Set, Polled
      <4>2. CASE TestFree(t) \/ TimesOut(t)
        BY <1>1, <2>1, <4>2 DEF TypeOK, TestFree, TimesOut, LoopEnds, Goes, Set
      <4>3. CASE \/ Compare(t) \/ SetNumber(t) \/ Configure(t) \/ Claim(t)
                 \/ Transfer(t) \/ Release(t)
        BY <1>1, <2>1, <4>3 DEF TypeOK, Compare, SetNumber, Configure, Claim,
                                Transfer, Release, Goes, local
      <4> QED BY <1>5, <4>1, <4>2, <4>3 DEF take
    <3> QED BY <1>2, <3>1, <3>2
  <2>2. CASE u = t
    <3>1. CASE TestBusy(t) \/ Delay(t) \/ TriesAgain(t)
      <4>1. ~missed[t]
        BY <2>2, <3>1 DEF TestBusy, Delay, TriesAgain
      <4>2. Stages(t)
        BY <4>1 DEF Prompt
      <4> QED
        BY <1>1, <2>2, <3>1, <4>2, PromptTestBusy, PromptDelay,
           PromptTriesAgain
    <3>2. CASE Take(t)
      BY <2>2, <3>2, PromptTake
    <3>3. CASE TestFree(t) \/ TimesOut(t)
      BY <1>1, <2>2, <3>3 DEF TypeOK, TestFree, TimesOut, Goes, Stages
    <3>4. CASE \/ Compare(t) \/ SetNumber(t) \/ Configure(t) \/ Claim(t)
               \/ Transfer(t) \/ Release(t)
      BY <1>1, <2>2, <3>4 DEF TypeOK, Compare, SetNumber, Configure, Claim,
                              Transfer, Release, Goes, Stages
    <3> QED BY <1>5, <3>1, <3>2, <3>3, <3>4 DEF take
  <2> QED BY <2>1, <2>2
<1> QED
  BY <1>3, <1>4, <1>5 DEF Next

(* take answers in time, unless micros wraps past the end of a delay_ms.     *)
THEOREM AnswersInTime == Spec => []TakeInTime
<1>1. Init => Prompt
  BY DEF Init, Prompt, Stages
<1>2. Spec => []Prompt
  BY <1>1, TimeInvariance, PromptStep, PTL DEF Spec
<1>3. TimeInv /\ Prompt => TakeInTime
  BY InTime DEF TakeInTime, TimeInv, Prompt
<1> QED
  BY <1>2, <1>3, TimeInvariance, PTL
=============================================================================

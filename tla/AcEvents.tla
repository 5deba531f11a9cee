-------------------------------- MODULE AcEvents --------------------------------
(***************************************************************************)
(* The event detection of the AC sampling chip (ATT7022E.c; switched off   *)
(* by an #if 0 at this commit).  ATT7022E_ACSample_Event runs in the main  *)
(* task over the values measured last and sets and clears event bits; each *)
(* bit changes only after its condition has lasted TIME seconds, counted   *)
(* by ATT7022E_ACSample_Event_Timer_1000ms, an interrupt.  One chip.       *)
(*                                                                         *)
(* A detector is <<phase, kind>>.  Its step is in two: what it does up to  *)
(* the store of its flag, and the comparison of its counter; the interrupt *)
(* may come between any two steps.                                         *)
(***************************************************************************)
EXTENDS Integers, Sequences

CONSTANTS
  Measured,  \* the readings: volts U, tenths of amperes I, the angles Y of the
             \* voltages and PhSregpq between a voltage and its current
  Watched,   \* sequences of detectors, each in the order of the code
  TIME,      \* kind -> TIME_EVENT_*, which the sources here do not give
  BYTE,      \* values of a uint8_t: 256 in the code
  NO_VOLTAGE_U, NO_VOLTAGE_I, LOW_VOLTAGE_U, LOW_VOLTAGE_I, OVER_VOLTAGE_U,
  NO_PHSREGPQ_U, NO_PHSREGPQ_I, START_U, START_I, RATED_I,  \* the thresholds
  PHSREGPQ_ERR,                  \* degrees off before a voltage is reversed
  CURRENT_PCT, VOLTAGE_PCT       \* unbalance in percent of the average

VARIABLES
  watched,   \* the sequence of detectors of this behaviour
  now,       \* the reading the check works on
  at,        \* position in watched and step there; <<0, "idle">> between checks
  ev,        \* the event bits: LTU_Data.Event.EVA, EVB, EVC and EV
  flag,      \* Flag_*: 0 not counting, 1 counting to set, 2 counting to clear
  count,     \* Count_*: uint8_t seconds
  held,      \* history: seconds for which every check has seen the condition of
             \* the detector contradict its bit; -1 when the last one did not
  stale      \* history: a check has skipped the detector while it was counting

vars == <<watched, now, at, ev, flag, count, held, stale>>

Phase == {"A", "B", "C"}
Detectors == {watched[i] : i \in 1 .. Len(watched)}

Init ==
  /\ watched \in Watched
  /\ now = CHOOSE m \in Measured : TRUE  \* Measure comes before any check
  /\ at = <<0, "idle">>
  /\ ev = [d \in Detectors |-> FALSE]
  /\ flag = [d \in Detectors |-> 0]
  /\ count = [d \in Detectors |-> 0]
  /\ held = [d \in Detectors |-> -1]
  /\ stale = [d \in Detectors |-> FALSE]

Largest(f) == CHOOSE x \in {f[p] : p \in Phase} : \A p \in Phase : f[p] <= x
Smallest(f) == CHOOSE x \in {f[p] : p \in Phase} : \A p \in Phase : x <= f[p]
Total(f) == f["A"] + f["B"] + f["C"]
Spread(f, pct) == 300 * (Largest(f) - Smallest(f)) > pct * Total(f)

Off(a, b) == IF a >= b THEN a - b ELSE b - a
Disordered(y) == y["A"] > y["B"] \/ y["A"] > y["C"] \/ y["B"] > y["C"]
Loaded(p) == 20 * now.I[p] > RATED_I
Started == \A p \in Phase : now.U[p] > START_U

(* At least one phase is there: otherwise the two checks of the order of   *)
(* phases are skipped.  An event nobody watches has not happened.          *)
Has(d) == d \in Detectors /\ ev[d]
SomePhase == \E p \in Phase : ~Has(<<p, "NO_PHSREGPQ">>)

IsAt(d, step) ==
  /\ at[1] \in 1 .. Len(watched)
  /\ watched[at[1]] = d
  /\ at[2] = step

GoOn == at' = IF at[1] = Len(watched) THEN <<0, "idle">> ELSE <<at[1] + 1, "look">>

Restart_flag_only(d) == flag' = [flag EXCEPT ![d] = 0] /\ UNCHANGED <<count, stale>>
Restart(d) ==
  /\ flag' = [flag EXCEPT ![d] = 0]
  /\ count' = [count EXCEPT ![d] = 0]
  /\ stale' = [stale EXCEPT ![d] = FALSE]

(* The branches on the condition: |sets| is the one asked while the bit is *)
(* clear, |keeps| the one asked while it is set.                           *)
Look(d, sets, keeps) ==
  /\ IsAt(d, "look")
  /\ \/ /\ IF ev[d] THEN keeps ELSE ~sets
        /\ Restart(d)
        /\ GoOn
     \/ /\ IF ev[d] THEN ~keeps ELSE sets
        /\ flag' = [flag EXCEPT ![d] = IF ev[d] THEN 2 ELSE 1]
        /\ at' = <<at[1], "compare">>
        /\ UNCHANGED <<count, stale>>
  /\ held' = [held EXCEPT ![d] =
                IF sets = ev[d] THEN -1 ELSE IF @ = -1 THEN 0 ELSE @]
  /\ UNCHANGED <<watched, now, ev>>

Decide(d) ==
  /\ IsAt(d, "compare")
  /\ \/ /\ count[d] >= TIME[d[2]]
        /\ Restart(d)
        /\ ev' = [ev EXCEPT ![d] = ~@]
        /\ held' = [held EXCEPT ![d] = -1]
     \/ /\ count[d] < TIME[d[2]]
        /\ UNCHANGED <<ev, flag, count, held, stale>>
  /\ GoOn
  /\ UNCHANGED <<watched, now>>

Detect(d, sets, keeps) == Look(d, sets, keeps) \/ Decide(d)

(* A check that skips the detector looks at nothing: flag and count stay   *)
(* as they are, and the interrupt goes on counting.                        *)
Skip(d) ==
  /\ IsAt(d, "look")
  /\ held' = [held EXCEPT ![d] = -1]
  /\ stale' = [stale EXCEPT ![d] = flag[d] # 0]
  /\ GoOn
  /\ UNCHANGED <<watched, now, ev, flag, count>>

NoVoltage(p) ==
  LET cond == now.U[p] < NO_VOLTAGE_U /\ now.I[p] > NO_VOLTAGE_I
  IN  Detect(<<p, "NO_VOLTAGE">>, cond, cond)

LowVoltage(p) ==
  LET cond == /\ now.U[p] < LOW_VOLTAGE_U
              /\ now.U[p] > NO_VOLTAGE_U
              /\ now.I[p] > LOW_VOLTAGE_I
  IN  Detect(<<p, "LOW_VOLTAGE">>, cond, cond)

OverVoltage(p) ==
  LET cond == now.U[p] > OVER_VOLTAGE_U
  IN  Detect(<<p, "OVER_VOLTAGE">>, cond, cond)

(* To clear the bit of phase C the code looks at phase B.                  *)
NoPhSregpq(p) ==
  LET cond(q) == now.U[q] < NO_PHSREGPQ_U /\ now.I[q] < NO_PHSREGPQ_I
  IN  Detect(<<p, "NO_PHSREGPQ">>, cond(p), cond(IF p = "C" THEN "B" ELSE p))

NoCurrent(p) ==
  LET cond == Started /\ now.I[p] < START_I /\ \E q \in Phase \ {p} : Loaded(q)
  IN  Detect(<<p, "NO_CURRENT">>, cond, cond)

OverCurrent(p) ==
  LET cond == Started /\ now.I[p] > RATED_I
  IN  Detect(<<p, "OVER_CURRENT">>, cond, cond)

AllNoVoltage ==
  LET cond == \A p \in Phase : now.U[p] < START_U /\ Loaded(p)
  IN  Detect(<<"ABC", "ALL_NO_VOLTAGE">>, cond, cond)

(* Set when a voltage is off its angle, cleared when the three are in order. *)
VoltagePhSregpqErr ==
  LET d == <<"ABC", "VOLTAGE_PHSREGPQ_ERR">>
      off == \/ Off(now.Y["A"], 0) > PHSREGPQ_ERR
             \/ Off(now.Y["B"], 120) > PHSREGPQ_ERR
             \/ Off(now.Y["C"], 240) > PHSREGPQ_ERR
  IN  \/ SomePhase /\ Look(d, off, Disordered(now.Y))
      \/ Decide(d)
      \/ ~SomePhase /\ Skip(d)

CurrentPhSregpqErr ==
  LET d == <<"ABC", "CURRENT_PHSREGPQ_ERR">>
      yi == [p \in Phase |-> now.Y[p] + now.PhSregpq[p]]
  IN  \/ SomePhase /\ Look(d, Disordered(yi), Disordered(yi))
      \/ Decide(d)
      \/ ~SomePhase /\ Skip(d)

CurrentUnBalance ==
  LET cond == (\E p \in Phase : Loaded(p)) /\ Spread(now.I, CURRENT_PCT)
  IN  Detect(<<"ABC", "CURRENT_UNBALANCE">>, cond, cond)

VoltageUnBalance ==
  LET cond == (\E p \in Phase : now.U[p] > START_U) /\ Spread(now.U, VOLTAGE_PCT)
  IN  Detect(<<"ABC", "VOLTAGE_UNBALANCE">>, cond, cond)

(* The main task measures and checks.  A failed transfer is reported only  *)
(* by ATT7022E_Get_PhSregpq, which then leaves the old angles: voltages and *)
(* currents are stored whatever they are.                                  *)
Measure ==
  /\ at = <<0, "idle">>
  /\ \E m \in Measured : \E angle \in {m.PhSregpq, now.PhSregpq} :
       now' = [m EXCEPT !.PhSregpq = angle]
  /\ at' = <<1, "look">>
  /\ UNCHANGED <<watched, ev, flag, count, held, stale>>

(* The interrupt.                                                          *)
Timer1000ms ==
  /\ count' = [d \in Detectors |->
                IF flag[d] # 0 THEN (count[d] + 1) % BYTE ELSE count[d]]
  /\ held' = [d \in Detectors |->
                IF held[d] \in 0 .. TIME[d[2]] - 1 THEN held[d] + 1 ELSE held[d]]
  /\ UNCHANGED <<watched, now, at, ev, flag, stale>>

Next ==
  \/ Measure \/ Timer1000ms
  \/ \E p \in Phase : \/ NoVoltage(p) \/ LowVoltage(p) \/ OverVoltage(p)
                      \/ NoPhSregpq(p) \/ NoCurrent(p) \/ OverCurrent(p)
  \/ AllNoVoltage \/ VoltagePhSregpqErr \/ CurrentPhSregpqErr
  \/ CurrentUnBalance \/ VoltageUnBalance

Spec == Init /\ [][Next]_vars
--------------------------------------------------------------------------------
TypeOK ==
  /\ watched \in Watched
  /\ \E m, n \in Measured : now = [m EXCEPT !.PhSregpq = n.PhSregpq]
  /\ at \in (0 .. Len(watched)) \X {"idle", "look", "compare"}
  /\ ev \in [Detectors -> BOOLEAN]
  /\ flag \in [Detectors -> 0 .. 2]
  /\ count \in [Detectors -> 0 .. BYTE - 1]
  /\ \A d \in Detectors : held[d] \in -1 .. TIME[d[2]]
  /\ stale \in [Detectors -> BOOLEAN]

(* Two detectors clear their bit on another condition than the one that    *)
(* sets it.                                                                *)
OtherWayBack == {<<"C", "NO_PHSREGPQ">>, <<"ABC", "VOLTAGE_PHSREGPQ_ERR">>}

(* Whenever the interrupt comes, an event appears only after TIME seconds  *)
(* in each of whose checks its condition was met, and disappears only after *)
(* TIME seconds in each of whose checks it was not: a disturbance shorter  *)
(* than that changes no bit.  The code keeps this except where it asks for *)
(* another condition to clear the bit, and where a count went on while     *)
(* checks skipped the detector.                                            *)
ChangedAfterTime ==
  [][\A d \in Detectors :
       ev'[d] # ev[d] => \/ held[d] = TIME[d[2]]
                         \/ stale[d]
                         \/ ev[d] /\ d \in OtherWayBack]_vars
================================================================================

------------------------------- MODULE EcMock -------------------------------
(***************************************************************************)
(* The mock EC source: a battery that charges and discharges, a skin       *)
(* temperature that ramps between random loads and idle, and a fan that    *)
(* follows the temperature or an override.  Temperatures in degrees, time  *)
(* in seconds; a ramp interpolates in whole degrees.                       *)
(***************************************************************************)
EXTENDS Integers

CONSTANTS LoadTargets,   \* peak temperatures a load event can pick
          IdleTargets,   \* temperatures idle plus jitter can be
          MAX_CAPACITY,  \* 10000 in the code
          RATE           \* 1000: capacity moved by one reading

ASSUME MockAssumption ==
  /\ LoadTargets \cup IdleTargets \subseteq Int
  /\ LoadTargets \cup IdleTargets # {}
  /\ MAX_CAPACITY \in Nat /\ RATE \in Nat

VARIABLES bst_state,      \* [charging, capacity]
          temp_ramp,      \* the Ramp of TempState
          fan_ramp,       \* the Ramp of the fan
          current_temp_c, \* the temperature published for get_rpm
          set_rpm         \* the override, or NoRpm

mockVars == <<bst_state, temp_ramp, fan_ramp, current_temp_c, set_rpm>>

IDLE_TEMP == 25
TEMP_RAMP_SECS == 5
MaxRpm == 6000
NoRpm == -1

\* elapsed is start_time.elapsed(), of which only min(elapsed, duration) counts.
Ramp(initial) == [current |-> initial, target |-> initial, start_value |-> initial,
                  elapsed |-> 0, duration |-> 0]

set_target(r, target, duration) ==
  IF r.target = target THEN r
  ELSE [r EXCEPT !.start_value = r.current, !.target = target,
                 !.elapsed = 0, !.duration = duration]

\* value: the ramp with its current value refreshed.
value(r) ==
  [r EXCEPT !.current =
     IF r.duration <= 0 THEN r.target
     ELSE r.start_value + ((r.target - r.start_value) * r.elapsed) \div r.duration]

settled(r) == r.duration <= 0 \/ r.elapsed >= r.duration

\* poll: a settled ramp gets a random target, a load (rng below 40) or idle.
poll(r, r2) ==
  IF settled(r)
  THEN \E target \in LoadTargets \cup IdleTargets :
         r2 = value(set_target(r, target, TEMP_RAMP_SECS))
  ELSE r2 = value(r)

\* Seconds pass for both ramps.
age(r, secs) ==
  [r EXCEPT !.elapsed = IF @ + secs < r.duration THEN @ + secs ELSE r.duration]

PassTime(secs) ==
  /\ temp_ramp' = age(temp_ramp, secs)
  /\ fan_ramp' = age(fan_ramp, secs)
  /\ UNCHANGED <<bst_state, current_temp_c, set_rpm>>

-----------------------------------------------------------------------------

MockInit ==
  /\ bst_state = [charging |-> TRUE, capacity |-> 0]
  /\ temp_ramp = Ramp(IDLE_TEMP)
  /\ fan_ramp = Ramp(0)
  /\ current_temp_c = IDLE_TEMP
  /\ set_rpm = NoRpm

\* get_bst: one step of the charge cycle, then the reading.
next_bst(b) ==
  IF b.charging
  THEN IF b.capacity + RATE > MAX_CAPACITY
       THEN [charging |-> FALSE, capacity |-> MAX_CAPACITY]
       ELSE [b EXCEPT !.capacity = @ + RATE]
  ELSE LET left == IF b.capacity > RATE THEN b.capacity - RATE ELSE 0
       IN  [charging |-> left < RATE, capacity |-> left]

get_bst == bst_state' = next_bst(bst_state)

get_bix == [design |-> 10000, last_full |-> 9890]

\* get_temperature: polls the ramp and publishes the value for get_rpm.
get_temperature ==
  /\ poll(temp_ramp, temp_ramp')
  /\ current_temp_c' = temp_ramp'.current

\* MUTANT: the fan starts two degrees later than the threshold reported
fan_target_Late(temp_c) ==
  IF temp_c >= 44 THEN <<MaxRpm, 5>> ELSE IF temp_c >= 40 THEN <<3500, 5>>
  ELSE IF temp_c >= 30 THEN <<1500, 2>> ELSE <<0, 2>>

\* The fan's target and ramp time for a temperature.
fan_target(temp_c) ==
  IF temp_c >= 44 THEN <<MaxRpm, 5>> ELSE IF temp_c >= 40 THEN <<3500, 5>>
  ELSE IF temp_c >= 28 THEN <<1500, 2>> ELSE <<0, 2>>

\* get_rpm, called after get_temperature has published: the override if there
\* is one, else the fan's ramp towards the target of the temperature.
get_rpm ==
  fan_ramp' = IF set_rpm # NoRpm THEN fan_ramp
              ELSE LET t == fan_target(current_temp_c')
                   IN  value(set_target(fan_ramp, t[1], t[2]))

rpm_reading == IF set_rpm # NoRpm THEN set_rpm ELSE fan_ramp'.current

get_threshold == [on |-> 28, ramping |-> 40, max |-> 44]

\* set_rpm: the override stays until the process ends.
SetRpm(rpm) == /\ set_rpm' = rpm
               /\ UNCHANGED <<bst_state, temp_ramp, fan_ramp, current_temp_c>>

\* get_snapshot: the mock has connector 1 only.
get_snapshot(connector) == connector = 1

=============================================================================

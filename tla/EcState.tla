------------------------------ MODULE EcState ------------------------------
(***************************************************************************)
(* The data behind the EC test TUI: the sample buffers, the five states an *)
(* updater fills from the results of its EC calls, and what the panels     *)
(* show of them.  Pure operators; EcPanels polls them from a source, EcTui *)
(* shares them between threads.                                            *)
(***************************************************************************)
EXTENDS Integers, Sequences

CONSTANTS MaxSamples,  \* capacity of a sample buffer (60 in the code)
          CountCap,    \* tick and sample counters saturate here
          U32          \* 2^32 in the code: capacities are computed modulo it

ASSUME StateAssumption == /\ MaxSamples \in Nat \ {0}
                          /\ CountCap \in Nat \ {0}
                          /\ U32 \in Nat \ {0}

\* The result of an EC call.  A Fetched cell also has a value "not yet".
Ok(v) == [ok |-> TRUE, v |-> v]
Err == [ok |-> FALSE, v |-> 0]
NotFetched == [ok |-> FALSE, v |-> 1]

Count(n) == IF n < CountCap THEN n + 1 ELSE n

-----------------------------------------------------------------------------
(***************************************************************************)
(* SampleBuf: the window of the chart and the statistics of the session.   *)
(***************************************************************************)

SessionStats == [min |-> 0, max |-> 0, sum |-> 0, count |-> 0, prev |-> 0, delta |-> 0]

has_data(st) == st.count > 0

avg(st) == IF st.count = 0 THEN 0 ELSE st.sum \div st.count

\* MUTANT: the first sample does not initialise the extremes
record_NoFirst(st, v) ==
  [min |-> IF v < st.min THEN v ELSE st.min,
   max |-> IF v > st.max THEN v ELSE st.max,
   delta |-> IF st.count = 0 THEN st.delta ELSE v - st.prev,
   sum |-> st.sum + v, prev |-> v, count |-> Count(st.count)]

record(st, v) ==
  [min |-> IF st.count = 0 \/ v < st.min THEN v ELSE st.min,
   max |-> IF st.count = 0 \/ v > st.max THEN v ELSE st.max,
   delta |-> IF st.count = 0 THEN st.delta ELSE v - st.prev,
   sum |-> st.sum + v, prev |-> v, count |-> Count(st.count)]

SampleBuf == [samples |-> <<>>, stats |-> SessionStats]

\* insert: push_back, then pop_front when more than MaxSamples are held.
insert(buf, v) ==
  LET pushed == Append(buf.samples, v)
  IN  [samples |-> IF Len(pushed) > MaxSamples THEN Tail(pushed) ELSE pushed,
       stats |-> record(buf.stats, v)]

-----------------------------------------------------------------------------
(***************************************************************************)
(* The five states, their defaults and their updates.                      *)
(***************************************************************************)

\* A reading of the battery: charging or discharging, and what remains.  The
\* static information is its capacity when new and when last full.
NoBst == [charging |-> FALSE, remaining |-> 0, rate |-> 0]
NoBix == [design |-> 0, last_full |-> 0]

BatteryState ==
  [bst |-> NoBst, bst_success |-> FALSE, bix |-> NoBix, bix_success |-> FALSE,
   samples |-> SampleBuf, t_min |-> 0, btp |-> 0, btp_success |-> TRUE]

poll_bst(s, r) ==
  IF r.ok THEN [s EXCEPT !.bst = r.v, !.bst_success = TRUE]
          ELSE [s EXCEPT !.bst_success = FALSE]

poll_bix(s, r) ==
  IF r.ok THEN [s EXCEPT !.bix = r.v, !.bix_success = TRUE]
          ELSE [s EXCEPT !.bix_success = FALSE]

\* The sample recorded at the end of a battery update.
record_bst(s) ==
  IF s.bst_success
  THEN [s EXCEPT !.samples = insert(@, s.bst.remaining), !.t_min = Count(@)]
  ELSE s

ThermalState ==
  [skin_temp |-> 0, temp_success |-> FALSE, temps |-> SampleBuf,
   rpm |-> 0, rpm_success |-> FALSE, rpms |-> SampleBuf,
   bounds |-> [min |-> 0, max |-> 0], bounds_success |-> FALSE,
   levels |-> [on |-> 0, ramping |-> 0, max |-> 0], levels_success |-> FALSE,
   thresholds_success |-> FALSE, t |-> 0, rpm_limit |-> 0, rpm_set_success |-> FALSE]

\* r as u32: the fan's sample buffer holds unsigned numbers.
as_u32(rpm) == IF rpm < 0 THEN 0 ELSE rpm

\* MUTANT: each threshold is stored by itself, as the other readings are
thermal_update_OneByOne(s, r) ==
  [s EXCEPT
    !.skin_temp = IF r.temp.ok THEN r.temp.v ELSE @,
    !.temps = IF r.temp.ok THEN insert(@, r.temp.v) ELSE @,
    !.temp_success = r.temp.ok,
    !.thresholds_success = TRUE,
    !.rpm = IF r.rpm.ok THEN r.rpm.v ELSE @,
    !.rpms = IF r.rpm.ok THEN insert(@, as_u32(r.rpm.v)) ELSE @,
    !.rpm_success = r.rpm.ok,
    !.bounds = IF r.min_rpm.ok /\ r.max_rpm.ok
               THEN [min |-> r.min_rpm.v, max |-> r.max_rpm.v] ELSE @,
    !.bounds_success = r.min_rpm.ok /\ r.max_rpm.ok,
    !.levels = [on |-> IF r.on.ok THEN r.on.v ELSE @.on,
                ramping |-> IF r.ramping.ok THEN r.ramping.v ELSE @.ramping,
                max |-> IF r.max.ok THEN r.max.v ELSE @.max],
    !.levels_success = r.on.ok /\ r.ramping.ok /\ r.max.ok,
    !.t = Count(@)]

\* The results r of the seven thermal calls, stored under one write lock.
thermal_update(s, r) ==
  [s EXCEPT
    !.skin_temp = IF r.temp.ok THEN r.temp.v ELSE @,
    !.temps = IF r.temp.ok THEN insert(@, r.temp.v) ELSE @,
    !.temp_success = r.temp.ok,
    !.thresholds_success = TRUE,
    !.rpm = IF r.rpm.ok THEN r.rpm.v ELSE @,
    !.rpms = IF r.rpm.ok THEN insert(@, as_u32(r.rpm.v)) ELSE @,
    !.rpm_success = r.rpm.ok,
    !.bounds = IF r.min_rpm.ok /\ r.max_rpm.ok
               THEN [min |-> r.min_rpm.v, max |-> r.max_rpm.v] ELSE @,
    !.bounds_success = r.min_rpm.ok /\ r.max_rpm.ok,
    !.levels = IF r.on.ok /\ r.ramping.ok /\ r.max.ok
               THEN [on |-> r.on.v, ramping |-> r.ramping.v, max |-> r.max.v] ELSE @,
    !.levels_success = r.on.ok /\ r.ramping.ok /\ r.max.ok,
    !.t = Count(@)]

TimerData == [value |-> NotFetched, wake_policy |-> NotFetched, timer_status |-> NotFetched]

RtcState == [capabilities |-> NotFetched, timestamp |-> NotFetched,
             ac |-> TimerData, dc |-> TimerData]

\* r.caps is fetched only while the capabilities are not cached.
rtc_update(s, caps_cached, r) ==
  [capabilities |-> IF caps_cached THEN s.capabilities ELSE r.caps,
   timestamp |-> r.timestamp, ac |-> r.ac, dc |-> r.dc]

SystemState == [usage |-> 0, cpu |-> SampleBuf, used |-> 0, total |-> 0,
                memory |-> SampleBuf, success |-> FALSE, t |-> 0]

\* sysinfo reads cannot fail, so the three success flags are one.  Memory is
\* sampled as a percentage of the total; the network rates are left out.
system_update(s, usage, used, total) ==
  [usage |-> usage, cpu |-> insert(s.cpu, usage), used |-> used, total |-> total,
   memory |-> insert(s.memory, IF total > 0 THEN (used * 100) \div total ELSE 0),
   success |-> TRUE, t |-> Count(s.t)]

UcsiState == [snapshot |-> NotFetched]

ucsi_update(s, r) == [snapshot |-> r]

-----------------------------------------------------------------------------
(***************************************************************************)
(* What the panels show: the colour of the status dot and the figures that *)
(* are computed from the state.  Layout, units and colours are left out.   *)
(***************************************************************************)

percent(part, whole) ==
  LET p == ((part * 100) % U32) \div whole IN IF p > 100 THEN 100 ELSE p

bat_percent(remaining, design) ==
  IF design = 0 THEN 0 ELSE percent(remaining, design)

bat_health(last_full, design) ==
  IF design = 0 THEN 0 ELSE percent(last_full, design)

\* The capacity still to be moved; no estimate is shown at rate zero.
estimate_time(remaining, design, last_full, rate, is_charging) ==
  LET target == IF last_full > design THEN last_full ELSE design
      delta == IF ~is_charging THEN remaining
               ELSE IF target > remaining THEN target - remaining ELSE 0
  IN  IF rate = 0 THEN Err ELSE Ok((delta * 60) \div rate)

battery_card(s) ==
  [green |-> s.bst_success, charging |-> s.bst.charging, value |-> s.bst.remaining,
   design |-> s.bix.design, pct |-> bat_percent(s.bst.remaining, s.bix.design),
   health |-> bat_health(s.bix.last_full, s.bix.design),
   hint |-> estimate_time(s.bst.remaining, s.bix.design, s.bix.last_full,
                          s.bst.rate, s.bst.charging)]

\* The Power tab: the strip, which has no status dot, the chart and the table.
render_status_strip(s) ==
  [charging |-> s.bst.charging, value |-> s.bst.remaining,
   pct |-> bat_percent(s.bst.remaining, s.bix.design)]

render_bst_chart(s) == [chart |-> s.samples.samples, y_bound |-> s.bix.design]

render_bix(s) == [green |-> s.bix_success, bix |-> s.bix,
                  trip_point |-> s.btp, trip_green |-> s.btp_success]

thermal_zone(temp) ==
  IF temp >= 45 THEN "Critical" ELSE IF temp >= 40 THEN "Prochot"
  ELSE IF temp >= 35 THEN "Warning" ELSE "Normal"

fan_zone(temp, levels) ==
  IF temp >= levels.max THEN "Max" ELSE IF temp >= levels.ramping THEN "Ramping"
  ELSE IF temp >= levels.on THEN "On" ELSE "Off"

\* The thermal card of the dashboard.
thermal_card(s) ==
  [green |-> s.temp_success /\ s.rpm_success, temp |-> s.skin_temp,
   zone |-> thermal_zone(s.skin_temp), delta |-> s.temps.stats.delta,
   rpm |-> s.rpm, fan |-> fan_zone(s.rpm, s.levels),
   gauge |-> s.bounds.max, levels |-> s.levels]

\* The two blocks of the thermal tab, with the session's statistics once there
\* are any.
session_row(st) == IF has_data(st) THEN <<st.min, st.max, avg(st)>> ELSE <<>>

render_sensor_compact(s) ==
  [green |-> s.temp_success, temp |-> s.skin_temp,
   zone |-> thermal_zone(s.skin_temp), delta |-> s.temps.stats.delta,
   session |-> session_row(s.temps.stats), chart |-> s.temps.samples]

render_fan_compact(s) ==
  [green |-> s.rpm_success /\ s.bounds_success, rpm |-> s.rpm,
   fan |-> fan_zone(s.skin_temp, s.levels), bounds |-> s.bounds, levels |-> s.levels,
   override |-> s.rpm_limit > 0, override_ok |-> s.rpm_set_success,
   session |-> session_row(s.rpms.stats), chart |-> s.rpms.samples]

\* A timer panel is healthy when all three of its values are.
render_panel(t) == t.value.ok /\ t.wake_policy.ok /\ t.timer_status.ok

rtc_card(s) == [green |-> s.timestamp.ok, value |-> s.timestamp]

\* The RTC tab: the clock, which is green only when the capabilities are known
\* too, the capabilities and the two timers.
render_time_display(s, is_healthy) == [green |-> is_healthy, value |-> s.timestamp]

render_capabilities(s) == [green |-> s.capabilities.ok, value |-> s.capabilities]

rtc_render(s) == [time |-> render_time_display(s, s.capabilities.ok /\ s.timestamp.ok),
                  caps |-> render_capabilities(s),
                  ac |-> render_panel(s.ac), dc |-> render_panel(s.dc)]

system_card(s) == [green |-> s.success, usage |-> s.usage, used |-> s.used]

\* The CPU block of the System tab shows the skin temperature of ThermalState.
render_cpu(s, th) == [green |-> s.success, usage |-> s.usage, chart |-> s.cpu.samples,
                      temp |-> th.skin_temp, temp_live |-> th.temp_success]

render_memory(s) == [green |-> s.success, used |-> s.used,
                     avail |-> IF s.total > s.used THEN s.total - s.used ELSE 0,
                     chart |-> s.memory.samples]

ucsi_rows(s) ==
  CASE s.snapshot.ok -> "rows"
    [] s.snapshot = NotFetched -> "pending"
    [] OTHER -> "error"

ucsi_render(s) == [green |-> s.snapshot.ok, rows |-> ucsi_rows(s)]

-----------------------------------------------------------------------------
(***************************************************************************)
(* The log: a circular buffer and the panel over it.                       *)
(***************************************************************************)
CONSTANT LOG_CAPACITY  \* 500 in the code

ASSUME LogAssumption == LOG_CAPACITY \in Nat \ {0}

\* MUTANT: the panel counts its scroll from the oldest entry
render_log_panel_Oldest(entries, log_scroll, rows) ==
  LET max_scroll == IF Len(entries) > rows THEN Len(entries) - rows ELSE 0
      skip == IF log_scroll < max_scroll THEN log_scroll ELSE max_scroll
      last == IF skip + rows < Len(entries) THEN skip + rows ELSE Len(entries)
  IN  SubSeq(entries, skip + 1, last)

log_push(q, entry) == Append(IF Len(q) >= LOG_CAPACITY THEN Tail(q) ELSE q, entry)

render_log_panel(entries, log_scroll, rows) ==
  LET max_scroll == IF Len(entries) > rows THEN Len(entries) - rows ELSE 0
      scroll == IF log_scroll < max_scroll THEN log_scroll ELSE max_scroll
      skip == max_scroll - scroll
      last == IF skip + rows < Len(entries) THEN skip + rows ELSE Len(entries)
  IN  SubSeq(entries, skip + 1, last)

=============================================================================

----------------------------- MODULE EcPanels -----------------------------
(***************************************************************************)
(* The TUI's data path without its threads: the source picked on the       *)
(* command line is polled, the updaters store the results, the panels show *)
(* the states.  Each poll is the body of one updater's update(); the locks *)
(* around it are the subject of EcTui.                                     *)
(***************************************************************************)
EXTENDS EcState, EcMock, EcUcsi

CONSTANTS EcBst,         \* BST readings of a real EC
          EcTemps,       \* its temperatures
          EcRpms,        \* its fan speeds
          EcFans,        \* its fan's bounds and thresholds
          UserRpms,      \* what the user types into the RPM popup
          Seconds,       \* time between two polls
          LogRows,       \* rows of the log panel
          MaxSteps       \* bound on polls, commands and pauses, per source

ASSUME PanelsAssumption ==
  /\ EcBst \subseteq [charging : BOOLEAN, remaining : Nat, rate : Nat]
  /\ EcTemps \cup EcRpms \subseteq Int
  /\ EcFans \subseteq [min_rpm : Int, max_rpm : Int, on : Int, ramping : Int, max : Int]
  \* NoRpm stands for None, which no command sets
  /\ UserRpms \subseteq Int \ {NoRpm}
  /\ Seconds \subseteq Nat
  /\ LogRows \in Nat \ {0}

VARIABLES source,          \* "mock" or "ec": SourceKind
          bat, thm, rtc, sys, ucsi,
          bix_cached, rtc_caps_cached,
          mailbox,         \* the command the EC's UCSI mailbox last answered
          log,             \* the LogBuffer: the call each warning is about
          steps,
          last,            \* results of the last call of each kind
          hist,            \* every sample each buffer was given
          known            \* the last good answers, bounds and levels as a whole

panelVars == <<source, bat, thm, rtc, sys, ucsi, bix_cached, rtc_caps_cached,
               mailbox, log, steps, last, hist, known>>
vars == <<panelVars, mockVars>>

Calls == {"bst", "bix", "temp", "rpm", "min_rpm", "max_rpm", "on", "ramping", "max",
          "caps", "timestamp", "ac", "dc", "ucsi"}

\* The calls of one poll that fail: none at the mock; at an EC any one of
\* them, or all (a closed port).
Failing(calls) ==
  IF source = "mock" THEN {{}} ELSE {{c} : c \in calls} \cup {{}, calls}

Answer(call, failing, v) == IF call \in failing THEN Err ELSE Ok(v)

\* warn! entries of a poll, in order.
Warn(names) ==
  LET push(q, n) == log_push(q, n)
      w[i \in 0..Len(names)] == IF i = 0 THEN log ELSE push(w[i - 1], names[i])
  IN  log' = w[Len(names)]

Warned(call, failing) == IF call \in failing THEN <<call>> ELSE <<>>

Step == steps < MaxSteps[source] /\ steps' = steps + 1 /\ UNCHANGED source

-----------------------------------------------------------------------------

\* build: the source is fixed for the life of the program.
Init ==
  /\ source \in {"mock", "ec"}
  /\ MockInit
  /\ bat = BatteryState /\ thm = ThermalState /\ rtc = RtcState
  /\ sys = SystemState /\ ucsi = UcsiState
  /\ bix_cached = FALSE /\ rtc_caps_cached = FALSE
  /\ mailbox = "none" /\ log = <<>> /\ steps = 0
  /\ last = [c \in Calls |-> Err]
  /\ hist = [bat |-> <<>>, temp |-> <<>>, rpm |-> <<>>]
  /\ known = [bst |-> NoBst, bix |-> NoBix, temp |-> 0, rpm |-> 0,
              bounds |-> [min |-> 0, max |-> 0],
              levels |-> [on |-> 0, ramping |-> 0, max |-> 0]]

\* The body of BatteryUpdater::update after its commands.
battery_update(s, cached, bix, bst) ==
  record_bst(poll_bst(IF cached THEN s ELSE poll_bix(s, bix), bst))

\* What a poll stores: the calls that fail, and the reading of an EC.
battery_polled(failing, ecbst) ==
  LET reading == IF source = "mock"
                 THEN [charging |-> bst_state'.charging, rate |-> 3839,
                       remaining |-> bst_state'.capacity]
                 ELSE ecbst
      bst == Answer("bst", failing, reading)
      bix == Answer("bix", failing, get_bix)
  IN  /\ bat' = battery_update(bat, bix_cached, bix, bst)
      /\ bix_cached' = (bix_cached \/ bix.ok)
      /\ last' = [last EXCEPT !["bst"] = bst, !["bix"] = IF bix_cached THEN @ ELSE bix]
      /\ hist' = [hist EXCEPT !.bat = IF bst.ok THEN Append(@, bst.v.remaining) ELSE @]
      /\ known' = [known EXCEPT !.bst = IF bst.ok THEN bst.v ELSE @,
                                !.bix = IF ~bix_cached /\ bix.ok THEN bix.v ELSE @]
      /\ Warn((IF bix_cached THEN <<>> ELSE Warned("bix", failing)) \o Warned("bst", failing))

PollBattery ==
  /\ Step
  /\ IF source = "mock" THEN get_bst ELSE UNCHANGED bst_state
  /\ \E failing \in Failing({"bst", "bix"}), ecbst \in EcBst : battery_polled(failing, ecbst)
  /\ UNCHANGED <<mailbox, thm, rtc, sys, ucsi, rtc_caps_cached,
                 temp_ramp, fan_ramp, current_temp_c, set_rpm>>

\* get_min_rpm, get_max_rpm and get_threshold of the mock.
MockFan == [min_rpm |-> 0, max_rpm |-> MaxRpm, on |-> get_threshold.on,
            ramping |-> get_threshold.ramping, max |-> get_threshold.max]

ThermalCalls == {"temp", "rpm", "min_rpm", "max_rpm", "on", "ramping", "max"}

\* ThermalUpdater::update after its commands: seven calls, then the store.
PollThermal ==
  /\ Step
  /\ IF source = "mock" THEN get_temperature /\ get_rpm
                        ELSE UNCHANGED <<temp_ramp, current_temp_c, fan_ramp>>
  /\ \E failing \in Failing(ThermalCalls), ectemp \in EcTemps, ecrpm \in EcRpms, ecfan \in EcFans :
       LET fan == IF source = "mock" THEN MockFan ELSE ecfan
           v == [temp |-> IF source = "mock" THEN current_temp_c' ELSE ectemp,
                 rpm |-> IF source = "mock" THEN rpm_reading ELSE ecrpm,
                 min_rpm |-> fan.min_rpm, max_rpm |-> fan.max_rpm,
                 on |-> fan.on, ramping |-> fan.ramping, max |-> fan.max]
           r == [c \in ThermalCalls |-> Answer(c, failing, v[c])]
           bounds == IF {"min_rpm", "max_rpm"} \cap failing = {} THEN <<>> ELSE <<"bounds">>
           levels == IF {"on", "ramping", "max"} \cap failing = {} THEN <<>> ELSE <<"levels">>
       IN  /\ thm' = thermal_update(thm, r)
           /\ last' = [c \in Calls |-> IF c \in ThermalCalls THEN r[c] ELSE last[c]]
           /\ hist' = [hist EXCEPT !.temp = IF r["temp"].ok THEN Append(@, v.temp) ELSE @,
                                   !.rpm = IF r["rpm"].ok THEN Append(@, as_u32(v.rpm)) ELSE @]
           /\ known' = [known EXCEPT
                          !.temp = IF "temp" \in failing THEN @ ELSE v.temp,
                          !.rpm = IF "rpm" \in failing THEN @ ELSE v.rpm,
                          !.bounds = IF bounds # <<>> THEN @
                                     ELSE [min |-> fan.min_rpm, max |-> fan.max_rpm],
                          !.levels = IF levels # <<>> THEN @
                                     ELSE [on |-> fan.on, ramping |-> fan.ramping, max |-> fan.max]]
           /\ Warn(Warned("temp", failing) \o Warned("rpm", failing) \o bounds \o levels)
  /\ UNCHANGED <<mailbox, bat, rtc, sys, ucsi, bix_cached, rtc_caps_cached, bst_state, set_rpm>>

\* RtcUpdater::update: the capabilities until they are cached, the time, and
\* three values of each of the two timers.
PollRtc ==
  /\ Step
  /\ \E failing \in Failing({"caps", "timestamp", "ac", "dc"}),
        part \in {"value", "wake_policy", "timer_status"} :
       LET timer(c) == [f \in {"value", "wake_policy", "timer_status"} |->
                          IF f = part THEN Answer(c, failing, 0) ELSE Ok(0)]
           r == [caps |-> Answer("caps", failing, 0),
                 timestamp |-> Answer("timestamp", failing, steps),
                 ac |-> timer("ac"), dc |-> timer("dc")]
       IN  /\ rtc' = rtc_update(rtc, rtc_caps_cached, r)
           /\ rtc_caps_cached' = (rtc_caps_cached \/ r.caps.ok)
           /\ last' = [last EXCEPT !["timestamp"] = r.timestamp,
                                   !["ac"] = Answer("ac", failing, 0),
                                   !["dc"] = Answer("dc", failing, 0),
                                   !["caps"] = IF rtc_caps_cached THEN @ ELSE r.caps]
           /\ Warn((IF rtc_caps_cached THEN <<>> ELSE Warned("caps", failing))
                    \o Warned("timestamp", failing)
                    \o (IF part = "value" THEN Warned("ac", failing) \o Warned("dc", failing)
                                          ELSE <<>>))
  /\ UNCHANGED <<mailbox, bat, thm, sys, ucsi, bix_cached, hist, known, mockVars>>

\* SystemUpdater::update reads the operating system, not the EC.
PollSystem ==
  /\ Step
  /\ \E usage \in {90}, mem \in {<<0, 0>>, <<1, 2>>} :
       sys' = system_update(sys, usage, mem[1], mem[2])
  /\ UNCHANGED <<mailbox, bat, thm, rtc, ucsi, bix_cached, rtc_caps_cached, log, last, hist, known,
                 mockVars>>

\* UcsiUpdater::update: one snapshot of connector 1; a failure is not logged.
PollUcsi ==
  /\ Step
  /\ \E answers \in IF source = "ec" THEN Answers(mailbox) ELSE {<<>>} :
       LET parts == IF source = "ec" THEN get_snapshot_ucsi(answers)
                    ELSE IF get_snapshot(1) THEN Value(Commands) ELSE MailboxError("Unsupported")
           r == IF parts.ok THEN Ok([at |-> steps, parts |-> parts.v]) ELSE Err
       IN  /\ ucsi' = ucsi_update(ucsi, r)
           /\ last' = [last EXCEPT !["ucsi"] = r]
           /\ mailbox' = IF source = "ec" THEN Left(answers, mailbox) ELSE mailbox
  /\ UNCHANGED <<bat, thm, rtc, sys, bix_cached, rtc_caps_cached, log, hist, known, mockVars>>

\* A SetRpm command, processed by the updater.
CommandRpm(rpm) ==
  /\ Step
  /\ \E failing \in Failing({"set_rpm"}) :
       /\ IF source = "mock" THEN SetRpm(rpm) ELSE UNCHANGED mockVars
       /\ thm' = [thm EXCEPT !.rpm_limit = rpm, !.rpm_set_success = failing = {}]
       /\ Warn(Warned("set_rpm", failing))
  /\ UNCHANGED <<mailbox, bat, rtc, sys, ucsi, bix_cached, rtc_caps_cached, last, hist, known>>

Pause(secs) ==
  /\ Step
  /\ source = "mock"
  /\ PassTime(secs)
  /\ UNCHANGED <<mailbox, bat, thm, rtc, sys, ucsi, bix_cached, rtc_caps_cached, log, last, hist,
                 known>>

Next ==
  \/ PollBattery \/ PollThermal \/ PollRtc \/ PollSystem \/ PollUcsi
  \/ \E rpm \in UserRpms : CommandRpm(rpm)
  \/ \E secs \in Seconds : Pause(secs)

Spec == Init /\ [][Next]_vars

-----------------------------------------------------------------------------

(***************************************************************************)
(* The figures the panels show of the battery, the sensor and the fan.     *)
(***************************************************************************)
Figures == [bst |-> bat.bst, bix |-> render_bix(bat).bix, temp |-> thermal_card(thm).temp,
            rpm |-> thermal_card(thm).rpm, bounds |-> render_fan_compact(thm).bounds,
            levels |-> render_fan_compact(thm).levels]

\* The last call was answered, with v.
Answered(call, v) == last[call].ok /\ last[call].v = v

(***************************************************************************)
(* Whatever calls fail, a panel shows the newest good answer: a failed     *)
(* call leaves the figure, and the bounds and the levels always come from  *)
(* one poll that read all of them, never a mix.  Beside the figures, a dot *)
(* is green exactly when the calls it stands for were answered last time,  *)
(* with the figures shown.  It vouches for no others: the card of the      *)
(* battery may be green over older BIX figures, the thermal card over      *)
(* older bounds and levels, the Fan block over older levels and an older   *)
(* temperature, the ones its zone is named from (poll_bst, poll_bix, the   *)
(* Err arms of ThermalUpdater, the status_title of each panel).  The cells *)
(* of the RTC and USB-C panels hold the last answer itself, and a green    *)
(* USB-C panel shows, as each part, the answer to the command of that      *)
(* part, even when the EC leaves an earlier answer in the mailbox          *)
(* (message_in compares the data length).                                  *)
(***************************************************************************)
ShownIsLatest ==
  /\ Figures = known
  /\ battery_card(bat).green <=> Answered("bst", known.bst)
  /\ render_bix(bat).green <=> Answered("bix", known.bix)
  /\ thermal_card(thm).green <=> (Answered("temp", known.temp) /\ Answered("rpm", known.rpm))
  /\ render_sensor_compact(thm).green <=> Answered("temp", known.temp)
  /\ render_fan_compact(thm).green <=>
       (/\ Answered("rpm", known.rpm)
        /\ Answered("min_rpm", known.bounds.min) /\ Answered("max_rpm", known.bounds.max))
  /\ render_cpu(sys, thm).temp_live <=> Answered("temp", known.temp)
  /\ rtc_card(rtc).green => last["timestamp"] = rtc_card(rtc).value
  /\ rtc_render(rtc).time.green => last["timestamp"] = rtc_render(rtc).time.value
  /\ rtc_render(rtc).caps.green => last["caps"] = rtc_render(rtc).caps.value
  /\ rtc_render(rtc).ac => last["ac"].ok
  /\ rtc_render(rtc).dc => last["dc"].ok
  /\ ucsi_render(ucsi).green =>
       /\ last["ucsi"].ok /\ last["ucsi"].v = ucsi.snapshot.v
       /\ ucsi.snapshot.v.parts = Commands

IsTail(win, h) == \E k \in 0..Len(h) :
                    /\ win = SubSeq(h, k + 1, Len(h))
                    /\ Len(win) = IF Len(h) < MaxSamples THEN Len(h) ELSE MaxSamples

\* The statistics of a session agree with every sample h it was given.
StatsOf(st, h) ==
  /\ st.count = (IF Len(h) < CountCap THEN Len(h) ELSE CountCap)
  /\ h # <<>> =>
       /\ \A i \in 1..Len(h) : st.min <= h[i] /\ h[i] <= st.max
       /\ \E i, j \in 1..Len(h) : st.min = h[i] /\ st.max = h[j]
  /\ st.delta = IF Len(h) > 1 THEN h[Len(h)] - h[Len(h) - 1] ELSE 0

\* The average shown is that of every sample, as long as the counter is exact.
Total(h) == LET t[i \in 0..Len(h)] == IF i = 0 THEN 0 ELSE t[i - 1] + h[i] IN t[Len(h)]
AverageOf(st, h) == (h # <<>> /\ Len(h) <= CountCap) => avg(st) = Total(h) \div Len(h)

(***************************************************************************)
(* A chart shows the last MaxSamples successful readings in order, failed  *)
(* polls leave no gap or duplicate, and the session statistics under it    *)
(* are those of every reading since the start, the evicted ones included,  *)
(* the average too (SampleBuf::insert, SessionStats::record and avg).      *)
(***************************************************************************)
WindowIsTail ==
  /\ IsTail(render_bst_chart(bat).chart, hist.bat) /\ StatsOf(bat.samples.stats, hist.bat)
  /\ IsTail(render_sensor_compact(thm).chart, hist.temp) /\ StatsOf(thm.temps.stats, hist.temp)
  /\ IsTail(render_fan_compact(thm).chart, hist.rpm) /\ StatsOf(thm.rpms.stats, hist.rpm)
  /\ AverageOf(bat.samples.stats, hist.bat)
  /\ AverageOf(thm.temps.stats, hist.temp) /\ AverageOf(thm.rpms.stats, hist.rpm)
  /\ bat.t_min = bat.samples.stats.count

(***************************************************************************)
(* The log panel, whatever the scroll position left over from before,      *)
(* shows as many entries as fit, and unscrolled it ends with the newest    *)
(* (LogBuffer::push and the clamping in render_log_panel).                 *)
(***************************************************************************)
LogShowsNewest ==
  \A scroll \in 0..(LOG_CAPACITY + 1) :
    LET panel == render_log_panel(log, scroll, LogRows)
    IN  /\ Len(panel) = IF Len(log) < LogRows THEN Len(log) ELSE LogRows
        /\ (scroll = 0 /\ log # <<>>) => panel[Len(panel)] = log[Len(log)]

(***************************************************************************)
(* With the mock and no override, the zone the Thermal tab names is the    *)
(* one its fan is heading for: the thresholds reported by get_threshold    *)
(* are the temperatures get_rpm switches at.                               *)
(***************************************************************************)
ZoneRpm(zone) == CASE zone = "Max" -> MaxRpm [] zone = "Ramping" -> 3500
                   [] zone = "On" -> 1500   [] OTHER -> 0
ZoneMatchesFan ==
  (source = "mock" /\ set_rpm = NoRpm /\ thm.levels_success) =>
    ZoneRpm(render_fan_compact(thm).fan) = fan_ramp.target

=============================================================================

------------------------------- MODULE EcTui -------------------------------
(***************************************************************************)
(* The threads of the EC test TUI: the UI thread draws and handles keys,   *)
(* one updater per domain polls the EC and writes the state the UI reads.  *)
(* Each state is behind an RwLock; user commands reach the battery and the *)
(* thermal updater through unbounded channels.  The module keeps the data  *)
(* that threads can tear apart: the battery's reading with its newest      *)
(* sample, and the values a user set with their success flags.  What the   *)
(* polls store beyond that, and what the panels make of it, is EcPanels.   *)
(***************************************************************************)
EXTENDS Integers, Sequences

CONSTANTS Plain,       \* the domains without commands, in dashboard order:
                       \* <<"rtc", "sys", "ucsi">> in the code
          CmdValues,   \* numbers a user can type, zero and negative ones included
          Remaining,   \* battery capacities the EC can report
          MaxCmds      \* bound on the commands sent

VARIABLES run_state, selected_tab, \* App
          ui, held,                \* its loop: "draw" or "event", and how many
                                   \* of its locks the draw has taken
          popup, popup_input,      \* of the Battery and Thermal modules
          lock,                    \* who holds each state's RwLock
          pc, cur,                 \* updaters: control, command in hand
          bix_cached,
          battery, fan,            \* the parts of the states described above
          chan,                    \* the command channels
          accepted, made, ec       \* history: the values Enter accepted, the values
                                   \* passed to the EC's set call, its last outcome

uiVars == <<run_state, selected_tab, ui, held, popup, popup_input>>
vars == <<uiVars, lock, pc, cur, bix_cached, battery, fan, chan, accepted, made, ec>>

Settable == {"bat", "thm"}
PlainDomains == {Plain[i] : i \in 1..Len(Plain)}
Domains == Settable \cup PlainDomains

Bad == -1   \* text that does not parse, the empty text included
NoCall == [ok |-> FALSE, v |-> Bad]

ASSUME TuiAssumption ==
  /\ MaxCmds \in Nat /\ CmdValues \subseteq Int \ {Bad} /\ Remaining \subseteq Nat
  /\ Plain \in Seq({"rtc", "sys", "ucsi"})

SelectedTab == <<"Dashboard", "bat", "thm">> \o Plain
Tabs == 1..Len(SelectedTab)

\* The module a tab routes its events to; the dashboard has none.
module_index(tab) == IF SelectedTab[tab] = "Dashboard" THEN "none" ELSE SelectedTab[tab]

\* The read locks a draw takes, in order, all held until it ends.
render_locks(tab) ==
  CASE SelectedTab[tab] = "Dashboard" -> <<"bat", "thm">> \o Plain
    [] SelectedTab[tab] = "sys" -> <<"sys", "thm">>
    [] OTHER -> <<SelectedTab[tab]>>

\* A trip point is read as a u32, a fan limit as an f64.
parse(m, text) == IF m = "bat" /\ text < 0 THEN Bad ELSE text

\* What the panels show of the set values: the trip point with the colour of
\* its row, and the fan override, which reads "--" unless it is positive.
trip_row == [ok |-> battery.btp_success, v |-> battery.btp]
NoOverride == [ok |-> FALSE, v |-> 0]
override(limit, success) == IF limit > 0 THEN [ok |-> success, v |-> limit] ELSE NoOverride

Running == run_state = "Running"

-----------------------------------------------------------------------------

Init ==
  /\ run_state = "Running" /\ selected_tab = 1 /\ ui = "draw" /\ held = 0
  /\ popup = {} /\ popup_input = [m \in Settable |-> Bad]
  /\ lock = [d \in Domains |-> "free"]
  /\ pc = [d \in Domains |-> "sleep"]
  /\ cur = [m \in Settable |-> NoCall]
  /\ bix_cached = FALSE
  /\ battery = [bst_success |-> FALSE, remaining |-> 0, newest |-> 0,
                btp |-> 0, btp_success |-> TRUE]
  /\ fan = [rpm_limit |-> 0, rpm_set_success |-> FALSE]
  /\ chan = [m \in Settable |-> <<>>]
  /\ accepted = [m \in Settable |-> <<>>] /\ made = [m \in Settable |-> <<>>]
  /\ ec = [m \in Settable |-> NoCall]

-----------------------------------------------------------------------------
(***************************************************************************)
(* The UI thread: App::run draws, waits for an event or a tick, and loops  *)
(* while run_state is Running.                                             *)
(***************************************************************************)

\* RwLock::read: waits while the updater holds the lock.
draw_lock ==
  /\ Running /\ ui = "draw" /\ held < Len(render_locks(selected_tab))
  /\ LET d == render_locks(selected_tab)[held + 1]
     IN  lock[d] = "free" /\ lock' = [lock EXCEPT ![d] = "ui"]
  /\ held' = held + 1
  /\ UNCHANGED <<run_state, selected_tab, ui, popup, popup_input,
                 pc, cur, bix_cached, battery, fan, chan, accepted, made, ec>>

\* The panels are rendered and every guard is dropped.
draw_end ==
  /\ Running /\ ui = "draw" /\ held = Len(render_locks(selected_tab))
  /\ lock' = [d \in Domains |-> IF lock[d] = "ui" THEN "free" ELSE lock[d]]
  /\ held' = 0 /\ ui' = "event"
  /\ UNCHANGED <<run_state, selected_tab, popup, popup_input,
                 pc, cur, bix_cached, battery, fan, chan, accepted, made, ec>>

\* One turn of the loop after the draw: an event, or none within the tick.
event ==
  /\ Running /\ ui = "event" /\ ui' = "draw"
  /\ UNCHANGED <<held, lock, pc, cur, bix_cached, battery, fan, made, ec>>

\* No event, one nobody handles, or a key of the log panel (see EcPanels).
tick ==
  /\ event
  /\ UNCHANGED <<run_state, selected_tab, popup, popup_input, chan, accepted>>

is_popup_open == module_index(selected_tab) \in popup

\* With a popup open every event goes to its module: Esc, Enter or editing.
popup_esc ==
  /\ event /\ is_popup_open
  /\ popup' = popup \ {module_index(selected_tab)}
  /\ popup_input' = [popup_input EXCEPT ![module_index(selected_tab)] = Bad]
  /\ UNCHANGED <<run_state, selected_tab, chan, accepted>>

popup_enter ==
  /\ event /\ is_popup_open
  /\ LET m == module_index(selected_tab)
     IN  /\ popup' = popup \ {m}
         /\ popup_input' = [popup_input EXCEPT ![m] = Bad]
         /\ \/ parse(m, popup_input[m]) = Bad /\ UNCHANGED <<chan, accepted>>
            \/ /\ parse(m, popup_input[m]) # Bad
               /\ Len(accepted["bat"]) + Len(accepted["thm"]) < MaxCmds
               /\ chan' = [chan EXCEPT ![m] = Append(@, popup_input[m])]
               /\ accepted' = [accepted EXCEPT ![m] = Append(@, popup_input[m])]
  /\ UNCHANGED <<run_state, selected_tab>>

popup_edit(text) ==
  /\ event /\ is_popup_open
  /\ popup_input' = [popup_input EXCEPT ![module_index(selected_tab)] = text]
  /\ UNCHANGED <<run_state, selected_tab, popup, chan, accepted>>

\* MUTANT: the tab keys work with a popup open too
select_tab_Always(tab) ==
  /\ event
  /\ selected_tab' = tab
  /\ UNCHANGED <<run_state, popup, popup_input, chan, accepted>>

\* 1-6, and with them Left and Right, which stop at the ends.
select_tab(tab) ==
  /\ event /\ ~is_popup_open
  /\ selected_tab' = tab
  /\ UNCHANGED <<run_state, popup, popup_input, chan, accepted>>

\* s or / opens the popup of the Power and the Thermal module.
open_popup ==
  /\ event /\ ~is_popup_open
  /\ module_index(selected_tab) \in Settable
  /\ popup' = popup \cup {module_index(selected_tab)}
  /\ UNCHANGED <<run_state, selected_tab, popup_input, chan, accepted>>

\* q or Esc ends the loop, and with it the process and its updaters.
quit ==
  /\ event /\ ~is_popup_open
  /\ run_state' = "Quitting"
  /\ UNCHANGED <<selected_tab, popup, popup_input, chan, accepted>>

UI == \/ draw_lock \/ draw_end \/ tick
      \/ popup_esc \/ popup_enter \/ \E text \in CmdValues : popup_edit(text)
      \/ \E tab \in Tabs : select_tab(tab)
      \/ open_popup \/ quit

-----------------------------------------------------------------------------
(***************************************************************************)
(* The updaters.  An update starts at once and then after every interval;  *)
(* it ends back in "sleep".                                                *)
(***************************************************************************)

Updater(d, from, to) ==
  /\ Running /\ pc[d] = from /\ pc' = [pc EXCEPT ![d] = to]
  /\ UNCHANGED <<uiVars, accepted>>

\* source.set_btp(v) or source.set_rpm(v), and its outcome.
set_call(m, ok, v) ==
  /\ cur' = [cur EXCEPT ![m] = [ok |-> ok, v |-> v]]
  /\ ec' = [ec EXCEPT ![m] = [ok |-> ok, v |-> v]]
  /\ made' = [made EXCEPT ![m] = Append(@, v)]

\* MUTANT: a command that failed goes back into the channel
take_command_Retry(m) ==
  /\ chan[m] # <<>>
  /\ Updater(m, "sleep", "apply")
  /\ \E ok \in BOOLEAN :
       /\ chan' = [chan EXCEPT ![m] = IF ok THEN Tail(@) ELSE Append(Tail(@), Head(@))]
       /\ set_call(m, ok, Head(chan[m]))
  /\ UNCHANGED <<lock, bix_cached, battery, fan>>

\* MUTANT: of the commands in the channel only the newest is carried out
take_command_Newest(m) ==
  /\ chan[m] # <<>>
  /\ Updater(m, "sleep", "apply")
  /\ chan' = [chan EXCEPT ![m] = <<>>]
  /\ \E ok \in BOOLEAN : set_call(m, ok, chan[m][Len(chan[m])])
  /\ UNCHANGED <<lock, bix_cached, battery, fan>>

\* An update begins with the commands: try_recv, then the set call on the EC.
take_command(m) ==
  /\ chan[m] # <<>>
  /\ Updater(m, "sleep", "apply")
  /\ chan' = [chan EXCEPT ![m] = Tail(@)]
  /\ \E ok \in BOOLEAN : set_call(m, ok, Head(chan[m]))
  /\ UNCHANGED <<lock, bix_cached, battery, fan>>

\* MUTANT: the value is recorded only when the call succeeded
apply_command_OnSuccess(m) ==
  /\ Updater(m, "apply", "sleep")
  /\ lock[m] = "free"
  /\ IF m = "bat"
     THEN /\ battery' = [battery EXCEPT !.btp_success = cur[m].ok,
                                        !.btp = IF cur[m].ok THEN cur[m].v ELSE @]
          /\ UNCHANGED fan
     ELSE /\ fan' = [rpm_limit |-> cur[m].v, rpm_set_success |-> cur[m].ok]
          /\ UNCHANGED battery
  /\ cur' = [cur EXCEPT ![m] = NoCall]
  /\ UNCHANGED <<bix_cached, lock, chan, made, ec>>

\* The value and its success are stored under one write lock; back to try_recv.
apply_command(m) ==
  /\ Updater(m, "apply", "sleep")
  /\ lock[m] = "free"
  /\ IF m = "bat"
     THEN /\ battery' = [battery EXCEPT !.btp = cur[m].v, !.btp_success = cur[m].ok]
          /\ UNCHANGED fan
     ELSE /\ fan' = [rpm_limit |-> cur[m].v, rpm_set_success |-> cur[m].ok]
          /\ UNCHANGED battery
  /\ cur' = [cur EXCEPT ![m] = NoCall]
  /\ UNCHANGED <<bix_cached, lock, chan, made, ec>>

\* No command is left.  ThermalUpdater makes its seven EC calls here, before
\* it asks for the lock; BatteryUpdater asks at once.
drained(m) ==
  /\ chan[m] = <<>>
  /\ Updater(m, "sleep", "lock")
  /\ UNCHANGED <<lock, cur, bix_cached, battery, fan, chan, made, ec>>

\* RwLock::write.
write_lock(d, from, to) ==
  /\ Updater(d, from, to)
  /\ lock[d] = "free" /\ lock' = [lock EXCEPT ![d] = "upd"]
  /\ UNCHANGED <<cur, bix_cached, battery, fan, chan, made, ec>>

\* BatteryUpdater keeps the write lock across its calls to the EC.
battery_lock == write_lock("bat", "lock", IF bix_cached THEN "bst" ELSE "bix")

battery_bix ==
  /\ Updater("bat", "bix", "bst")
  /\ bix_cached' \in BOOLEAN
  /\ UNCHANGED <<lock, cur, battery, fan, chan, made, ec>>

\* MUTANT: a failed reading is retried with the lock held
battery_bst_Retry ==
  \/ /\ Updater("bat", "bst", "bix")
     /\ UNCHANGED <<lock, cur, bix_cached, battery, fan, chan, made, ec>>
  \/ /\ Updater("bat", "bst", "record")
     /\ \E v \in Remaining : battery' = [battery EXCEPT !.bst_success = TRUE, !.remaining = v]
     /\ UNCHANGED <<lock, cur, bix_cached, fan, chan, made, ec>>

\* MUTANT: the guard is dropped after the reading and taken again for the sample
battery_bst_Released ==
  /\ Updater("bat", "bst", "record")
  /\ \/ battery' = [battery EXCEPT !.bst_success = FALSE]
     \/ \E v \in Remaining : battery' = [battery EXCEPT !.bst_success = TRUE, !.remaining = v]
  /\ lock' = [lock EXCEPT !["bat"] = "free"]
  /\ UNCHANGED <<cur, bix_cached, fan, chan, made, ec>>

\* poll_bst: a failed reading leaves the old value and clears the flag.
battery_bst ==
  /\ Updater("bat", "bst", "record")
  /\ \/ battery' = [battery EXCEPT !.bst_success = FALSE]
     \/ \E v \in Remaining : battery' = [battery EXCEPT !.bst_success = TRUE, !.remaining = v]
  /\ UNCHANGED <<lock, cur, bix_cached, fan, chan, made, ec>>

\* The sample of a successful reading, and the guard is dropped.
battery_record ==
  /\ Updater("bat", "record", "sleep")
  /\ battery' = [battery EXCEPT !.newest = IF battery.bst_success THEN battery.remaining ELSE @]
  /\ lock' = [lock EXCEPT !["bat"] = "free"]
  /\ UNCHANGED <<cur, bix_cached, fan, chan, made, ec>>

\* The other updaters call the EC without the lock and then store the results
\* under it.
store_lock(d) == write_lock(d, IF d = "thm" THEN "lock" ELSE "sleep", "store")

store(d) ==
  /\ Updater(d, "store", "sleep")
  /\ lock' = [lock EXCEPT ![d] = "free"]
  /\ UNCHANGED <<cur, bix_cached, battery, fan, chan, made, ec>>

Update(d) ==
  \/ d \in Settable /\ (take_command(d) \/ apply_command(d) \/ drained(d))
  \/ d = "bat" /\ (battery_lock \/ battery_bix \/ battery_bst \/ battery_record)
  \/ d # "bat" /\ (store_lock(d) \/ store(d))

\* The process has exited.
Exited == ~Running /\ UNCHANGED vars

Next == UI \/ (\E d \in Domains : Update(d)) \/ Exited

(***************************************************************************)
(* The UI thread and the updaters keep running: every call to the EC       *)
(* returns.  Waiting for an RwLock is strongly fair: its holders release   *)
(* it after every draw or update and then wait for an event or sleep, and  *)
(* the release wakes the waiter.                                           *)
(***************************************************************************)
Fairness ==
  /\ WF_vars(draw_end) /\ WF_vars(tick) /\ SF_vars(draw_lock)
  /\ \A d \in Domains : SF_vars(Update(d))

Spec == Init /\ [][Next]_vars /\ Fairness

-----------------------------------------------------------------------------

\* The values of every variable; a lock is held by whoever is in its section.
TypeOK ==
  /\ run_state \in {"Running", "Quitting"} /\ selected_tab \in Tabs
  /\ ui \in {"draw", "event"} /\ held \in 0..Len(render_locks(selected_tab))
  /\ popup \subseteq Settable /\ popup_input \in [Settable -> CmdValues \cup {Bad}]
  /\ pc \in [Domains -> {"sleep", "apply", "lock", "bix", "bst", "record", "store"}]
  /\ lock \in [Domains -> {"free", "ui", "upd"}]
  /\ \A d \in Domains :
       /\ (lock[d] = "upd") <=> (pc[d] \in {"bix", "bst", "record", "store"})
       /\ (lock[d] = "ui") <=> \E i \in 1..held : render_locks(selected_tab)[i] = d
  /\ bix_cached \in BOOLEAN
  /\ battery \in [bst_success : BOOLEAN, remaining : Remaining \cup {0},
                  newest : Remaining \cup {0}, btp : CmdValues \cup {0}, btp_success : BOOLEAN]
  /\ fan \in [rpm_limit : CmdValues \cup {0}, rpm_set_success : BOOLEAN]
  /\ cur \in [Settable -> [ok : BOOLEAN, v : CmdValues \cup {Bad}]]
  /\ ec \in [Settable -> [ok : BOOLEAN, v : CmdValues \cup {Bad}]]
  /\ chan \in [Settable -> Seq(CmdValues)]
  /\ accepted \in [Settable -> Seq(CmdValues)]
  /\ made \in [Settable -> Seq(CmdValues)]

(***************************************************************************)
(* A popup is open only on the selected tab, so there is never one that    *)
(* gets no key, hides behind another tab, or two at once: handle_events    *)
(* routes every event to the module while its popup is open.               *)
(***************************************************************************)
PopupOnSelectedTab == \A m \in popup : module_index(selected_tab) = m

(***************************************************************************)
(* What the UI reads of the battery is one poll, never a half: whenever it *)
(* holds the read lock, a reading marked good is also the newest sample of *)
(* the chart.  BatteryUpdater::update stores the reading in poll_bst and   *)
(* the sample afterwards, both under the one write guard.                  *)
(***************************************************************************)
NoTornBattery ==
  (lock["bat"] = "ui" /\ battery.bst_success) => battery.newest = battery.remaining

(***************************************************************************)
(* The trip point and the fan override the panels show are those of the    *)
(* last set call the EC got, unless the updater is between that call and   *)
(* its store: a failed set shows its value as failed, not the older value, *)
(* and a limit of zero or less shows as no override whether its call failed*)
(* or not (process_commands of both updaters, render_bix,                  *)
(* render_fan_compact).                                                    *)
(***************************************************************************)
DisplayMatchesEc ==
  /\ (pc["bat"] # "apply" /\ ec["bat"] # NoCall) => trip_row = ec["bat"]
  /\ (pc["thm"] # "apply" /\ ec["thm"] # NoCall) =>
       override(fan.rpm_limit, fan.rpm_set_success) = override(ec["thm"].v, ec["thm"].ok)

(***************************************************************************)
(* No confirmed value is lost, repeated or overtaken by a later one, when  *)
(* its call fails too: the values the EC was given, followed by the ones   *)
(* still queued, are those the user confirmed (Enter in handle_event,      *)
(* try_recv and set_btp or set_rpm in process_commands).                   *)
(***************************************************************************)
CommandsInOrder == \A m \in Settable : accepted[m] = made[m] \o chan[m]

(***************************************************************************)
(* Every draw ends: the read locks of the dashboard, taken one by one      *)
(* while updaters write and the battery updater calls the EC under its     *)
(* lock, are all got (render_dashboard against the updaters' write guards).*)
(***************************************************************************)
DrawEnds == (ui = "draw") ~> (ui = "event" \/ ~Running)

(***************************************************************************)
(* Every value the user confirmed reaches the EC, each in a call of its    *)
(* own and in the order they were confirmed, also when several are queued  *)
(* and some calls fail: in the end, unless the user quits, the calls made  *)
(* are the values confirmed (popup Enter, then process_commands).          *)
(***************************************************************************)
CommandsReachEc == <>[](Running => made = accepted)

=============================================================================

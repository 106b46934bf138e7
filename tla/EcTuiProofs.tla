---------------------------- MODULE EcTuiProofs -----------------------------
(***************************************************************************)
(* What the UI thread can see of the EC's state while the updaters run,    *)
(* for every order of the dashboard's panels, every set of values a user   *)
(* can type and the EC can report, and any number of commands.             *)
(***************************************************************************)
EXTENDS EcTui, TLAPS

\* The values of the variables, without who holds which lock.
Typed ==
  /\ run_state \in {"Running", "Quitting"} /\ selected_tab \in Tabs
  /\ ui \in {"draw", "event"} /\ held \in 0..Len(render_locks(selected_tab))
  /\ popup \subseteq Settable /\ popup_input \in [Settable -> CmdValues \cup {Bad}]
  /\ pc \in [Domains -> {"sleep", "apply", "lock", "bix", "bst", "record", "store"}]
  /\ lock \in [Domains -> {"free", "ui", "upd"}]
  /\ bix_cached \in BOOLEAN
  /\ battery \in [bst_success : BOOLEAN, remaining : Remaining \cup {0},
                  newest : Remaining \cup {0}, btp : CmdValues \cup {0}, btp_success : BOOLEAN]
  /\ fan \in [rpm_limit : CmdValues \cup {0}, rpm_set_success : BOOLEAN]
  /\ cur \in [Settable -> [ok : BOOLEAN, v : CmdValues \cup {Bad}]]
  /\ ec \in [Settable -> [ok : BOOLEAN, v : CmdValues \cup {Bad}]]
  /\ chan \in [Settable -> Seq(CmdValues)]
  /\ accepted \in [Settable -> Seq(CmdValues)]
  /\ made \in [Settable -> Seq(CmdValues)]

\* Where an updater is when it holds its write lock.
Writing == {"bix", "bst", "record", "store"}

\* A lock is held by whoever is in its section, and by nobody else.
LockInv ==
  \A d \in Domains :
    /\ (lock[d] = "upd") <=> (pc[d] \in Writing)
    /\ (lock[d] = "ui") <=> \E i \in 1..held : render_locks(selected_tab)[i] = d

\* Outside the draw the UI holds no lock.
HeldInv == ui = "event" => held = 0

(* Only between poll_bst and the sample is a good reading ahead of the     *)
(* chart, and only between the set call and its store is the EC ahead of   *)
(* the state; the updater then has the call in hand.                       *)
SampleInv ==
  (pc["bat"] # "record" /\ battery.bst_success) => battery.newest = battery.remaining
InHandInv ==
  \A m \in Settable : pc[m] = "apply" => cur[m] = ec[m] /\ cur[m].v \in CmdValues
StoredInv ==
  /\ (pc["bat"] # "apply" /\ ec["bat"] # NoCall) =>
       ec["bat"] = [ok |-> battery.btp_success, v |-> battery.btp]
  /\ (pc["thm"] # "apply" /\ ec["thm"] # NoCall) =>
       ec["thm"] = [ok |-> fan.rpm_set_success, v |-> fan.rpm_limit]

TuiInv == /\ Typed /\ LockInv /\ HeldInv /\ PopupOnSelectedTab
          /\ SampleInv /\ InHandInv /\ StoredInv /\ CommandsInOrder

-----------------------------------------------------------------------------

\* The tabs are the dashboard and one per domain, and a draw of any of them
\* only asks for locks that exist.
LEMMA RenderLocksExist ==
  ASSUME NEW tab \in Tabs
  PROVE  /\ Len(render_locks(tab)) \in Nat
         /\ \A i \in 1..Len(render_locks(tab)) : render_locks(tab)[i] \in Domains
         /\ module_index(tab) \in Domains \cup {"none"}
<1> DEFINE S == {"rtc", "sys", "ucsi"}
           P == Len(Plain)
<1>1. Plain \in Seq(S) /\ P \in Nat /\ \A i \in 1..P : Plain[i] \in PlainDomains
  BY TuiAssumption DEF PlainDomains
<1>2. /\ Len(SelectedTab) = 3 + P
      /\ \A i \in 1..3 + P : SelectedTab[i] = IF i <= 3 THEN <<"Dashboard", "bat", "thm">>[i]
                                                       ELSE Plain[i - 3]
  BY <1>1 DEF SelectedTab
<1>3. SelectedTab[tab] \in Domains \cup {"Dashboard"}
  BY <1>1, <1>2 DEF Tabs, Domains, Settable
<1>4. /\ Len(<<"bat", "thm">> \o Plain) = 2 + P
      /\ \A i \in 1..2 + P : (<<"bat", "thm">> \o Plain)[i] \in Domains
  BY <1>1 DEF Domains, Settable
<1>5. CASE SelectedTab[tab] = "Dashboard"
  BY <1>4, <1>5, <1>1 DEF render_locks, module_index
<1>6. CASE SelectedTab[tab] = "sys"
  BY <1>3, <1>6 DEF render_locks, module_index, Domains, Settable
<1>7. CASE SelectedTab[tab] \notin {"Dashboard", "sys"}
  BY <1>3, <1>7 DEF render_locks, module_index
<1> QED
  BY <1>5, <1>6, <1>7

\* The command domains have an updater and a lock like the others.
LEMMA SettableDomains == Settable \subseteq Domains /\ "bat" \in Settable /\ "thm" \in Settable
BY DEF Domains, Settable

(* A value confirmed joins the end of what was made and what is queued; a  *)
(* value taken moves from the queue to the calls and leaves the whole.     *)
LEMMA ConfirmedAtEnd ==
  ASSUME NEW S, NEW done \in Seq(S), NEW queue \in Seq(S), NEW all, NEW v \in S
  PROVE  all = done \o queue => Append(all, v) = done \o Append(queue, v)
<1> DEFINE a == Append(done \o queue, v)
           b == done \o Append(queue, v)
<1>1. a \in Seq(S) /\ b \in Seq(S) /\ Len(a) = Len(b)
  OBVIOUS
<1>2. \A i \in 1..Len(a) : a[i] = b[i]
  OBVIOUS
<1>3. a = b
  BY <1>1, <1>2
<1> QED
  BY <1>3, Zenon

LEMMA TakenInOrder ==
  ASSUME NEW S, NEW done \in Seq(S), NEW queue \in Seq(S), queue # <<>>
  PROVE  Append(done, Head(queue)) \o Tail(queue) = done \o queue
<1> DEFINE a == Append(done, Head(queue)) \o Tail(queue)
           b == done \o queue
<1>1. Head(queue) \in S /\ Tail(queue) \in Seq(S) /\ Len(queue) \in Nat \ {0}
  OBVIOUS
<1>2. a \in Seq(S) /\ b \in Seq(S) /\ Len(a) = Len(b)
  BY <1>1
<1>3. \A i \in 1..Len(a) : a[i] = b[i]
  BY <1>1
<1> QED
  BY <1>2, <1>3

\* Nobody holds a lock, no popup is open and the EC got no call.
LEMMA InitTuiInv == Init => TuiInv
<1> SUFFICES ASSUME Init PROVE TuiInv
  OBVIOUS
<1>1. 1 \in Tabs
  BY TuiAssumption DEF Tabs, SelectedTab
<1>2. Typed
  <2>1. selected_tab \in Tabs /\ held \in 0..Len(render_locks(selected_tab))
    BY <1>1, RenderLocksExist DEF Init
  <2>2. /\ battery \in [bst_success : BOOLEAN, remaining : Remaining \cup {0},
                       newest : Remaining \cup {0}, btp : CmdValues \cup {0},
                       btp_success : BOOLEAN]
        /\ fan \in [rpm_limit : CmdValues \cup {0}, rpm_set_success : BOOLEAN]
    BY DEF Init
  <2>3. NoCall \in [ok : BOOLEAN, v : CmdValues \cup {Bad}]
    BY DEF NoCall
  <2>4. accepted \in [Settable -> Seq(CmdValues)] /\ made \in [Settable -> Seq(CmdValues)]
    BY DEF Init
  <2>5. /\ cur \in [Settable -> [ok : BOOLEAN, v : CmdValues \cup {Bad}]]
        /\ ec \in [Settable -> [ok : BOOLEAN, v : CmdValues \cup {Bad}]]
    BY <2>3 DEF Init
  <2>6. chan \in [Settable -> Seq(CmdValues)]
    BY DEF Init
  <2>7. /\ popup \subseteq Settable /\ popup_input \in [Settable -> CmdValues \cup {Bad}]
        /\ lock \in [Domains -> {"free", "ui", "upd"}]
        /\ pc \in [Domains -> {"sleep", "apply", "lock", "bix", "bst", "record", "store"}]
    BY DEF Init
  <2> QED
    BY <2>1, <2>2, <2>4, <2>5, <2>6, <2>7 DEF Init, Typed
<1>3. LockInv
  BY DEF Init, LockInv, Writing
<1>4. HeldInv /\ PopupOnSelectedTab /\ SampleInv /\ InHandInv /\ StoredInv
  BY SettableDomains DEF Init, HeldInv, PopupOnSelectedTab, SampleInv, InHandInv,
     StoredInv, NoCall
<1>5. CommandsInOrder
  <2>1. <<>> = <<>> \o <<>>
    OBVIOUS
  <2> QED
    BY <2>1 DEF Init, CommandsInOrder
<1> QED
  BY <1>2, <1>3, <1>4, <1>5 DEF TuiInv

-----------------------------------------------------------------------------

(* Taking a read lock waits for it to be free, so no updater is inside;    *)
(* the end of a draw releases exactly the locks the draw took.             *)
LEMMA DrawKeepsTuiInv ==
  ASSUME TuiInv, draw_lock \/ draw_end
  PROVE  TuiInv'
<1> USE DEF TuiInv
<1>1. /\ selected_tab \in Tabs /\ selected_tab' = selected_tab
      /\ Len(render_locks(selected_tab)) \in Nat
      /\ \A i \in 1..Len(render_locks(selected_tab)) :
           render_locks(selected_tab)[i] \in Domains
  BY RenderLocksExist DEF Typed, draw_lock, draw_end
<1>2. UNCHANGED <<run_state, selected_tab, popup, popup_input,
                  pc, cur, bix_cached, battery, fan, chan, accepted, made, ec>>
  BY DEF draw_lock, draw_end
<1>3. PopupOnSelectedTab' /\ SampleInv' /\ InHandInv' /\ StoredInv' /\ CommandsInOrder'
  BY <1>2 DEF PopupOnSelectedTab, module_index, SampleInv, InHandInv, StoredInv,
     CommandsInOrder
<1>4. CASE draw_lock
  <2> DEFINE d == render_locks(selected_tab)[held + 1]
  <2>1. /\ held \in Nat /\ held < Len(render_locks(selected_tab)) /\ held' = held + 1
        /\ ui = "draw" /\ ui' = ui /\ lock[d] = "free" /\ lock' = [lock EXCEPT ![d] = "ui"]
        /\ d \in Domains
    BY <1>1, <1>4 DEF draw_lock, Typed
  <2>2. Typed'
    BY <1>1, <1>2, <2>1 DEF Typed
  <2>3. \A i \in 1..held + 1 : i \in 1..held \/ i = held + 1
    BY <2>1
  <2>4. LockInv'
    BY <1>1, <1>2, <2>1, <2>3 DEF LockInv, Typed, Writing
  <2> QED
    BY <1>3, <2>1, <2>2, <2>4 DEF HeldInv
<1>5. CASE draw_end
  <2>1. /\ lock' = [d \in Domains |-> IF lock[d] = "ui" THEN "free" ELSE lock[d]]
        /\ held' = 0 /\ ui' = "event"
    BY <1>5 DEF draw_end
  <2>2. Typed'
    BY <1>1, <1>2, <2>1 DEF Typed
  <2>3. LockInv'
    BY <1>2, <2>1 DEF LockInv, Typed, Writing
  <2> QED
    BY <1>3, <2>1, <2>2, <2>3 DEF HeldInv
<1> QED
  BY <1>4, <1>5

EventStep ==
  \/ tick \/ popup_esc \/ popup_enter \/ (\E text \in CmdValues : popup_edit(text))
  \/ (\E tab \in Tabs : select_tab(tab)) \/ open_popup \/ quit

(* Keys are handled with no lock held.  They move the selection only when  *)
(* no popup is open and open a popup only on the selected tab.             *)
LEMMA EventKeepsTuiInv ==
  ASSUME TuiInv, EventStep
  PROVE  TuiInv'
<1> USE DEF TuiInv
<1>1. /\ UNCHANGED <<held, lock, pc, cur, bix_cached, battery, fan, made, ec>>
      /\ ui' = "draw" /\ held = 0
  BY DEF EventStep, tick, popup_esc, popup_enter, popup_edit, select_tab, open_popup,
     quit, event, HeldInv
<1>2. SampleInv' /\ InHandInv' /\ StoredInv' /\ HeldInv' /\ LockInv'
  BY <1>1 DEF SampleInv, InHandInv, StoredInv, HeldInv, LockInv
<1>3. SUFFICES
        /\ run_state' \in {"Running", "Quitting"} /\ selected_tab' \in Tabs
        /\ popup' \subseteq Settable
        /\ popup_input' \in [Settable -> CmdValues \cup {Bad}]
        /\ chan' \in [Settable -> Seq(CmdValues)]
        /\ accepted' \in [Settable -> Seq(CmdValues)]
        /\ PopupOnSelectedTab' /\ CommandsInOrder'
  BY <1>1, <1>2, RenderLocksExist DEF Typed
<1> USE DEF Typed, PopupOnSelectedTab
<1>11. (UNCHANGED <<chan, accepted>>) => CommandsInOrder'
  BY <1>1 DEF CommandsInOrder
<1>4. CASE tick
  BY <1>4, <1>11 DEF tick, module_index
<1>5. CASE popup_esc
  BY <1>5, <1>11 DEF popup_esc, is_popup_open, module_index
<1>6. CASE popup_enter
  <2> DEFINE m == module_index(selected_tab)
  <2>1. m \in Settable /\ selected_tab' = selected_tab /\ module_index(selected_tab') = m
    BY <1>6 DEF popup_enter, is_popup_open
  <2>2. CASE parse(m, popup_input[m]) = Bad /\ UNCHANGED <<chan, accepted>>
    BY <1>6, <1>11, <2>1, <2>2 DEF popup_enter
  <2>3. CASE /\ parse(m, popup_input[m]) # Bad
             /\ chan' = [chan EXCEPT ![m] = Append(@, popup_input[m])]
             /\ accepted' = [accepted EXCEPT ![m] = Append(@, popup_input[m])]
    <3>1. popup_input[m] \in CmdValues
      BY <2>1, <2>3 DEF parse
    <3>2. chan' \in [Settable -> Seq(CmdValues)]
      BY <2>1, <2>3, <3>1
    <3>3. accepted' \in [Settable -> Seq(CmdValues)]
      BY <2>1, <2>3, <3>1
    <3>4. Append(accepted[m], popup_input[m]) = made[m] \o Append(chan[m], popup_input[m])
      <4>1. /\ made[m] \in Seq(CmdValues) /\ chan[m] \in Seq(CmdValues)
            /\ accepted[m] = made[m] \o chan[m]
        BY <2>1 DEF CommandsInOrder
      <4> HIDE DEF m, Typed, TuiInv, PopupOnSelectedTab
      <4> QED
        BY <3>1, <4>1, ConfirmedAtEnd, ZenonT(40)
    <3>5. \A n \in Settable : accepted'[n] = made[n] \o chan'[n]
      BY <2>1, <2>3, <3>4 DEF CommandsInOrder
    <3>6. CommandsInOrder'
      BY <1>1, <3>5 DEF CommandsInOrder
    <3> QED
      BY <1>6, <2>1, <3>2, <3>3, <3>6 DEF popup_enter
  <2> QED
    BY <1>6, <2>2, <2>3 DEF popup_enter
<1>7. CASE \E text \in CmdValues : popup_edit(text)
  BY <1>7, <1>11 DEF popup_edit, is_popup_open, module_index
<1>8. CASE \E tab \in Tabs : select_tab(tab)
  BY <1>8, <1>11 DEF select_tab, is_popup_open
<1>9. CASE open_popup
  BY <1>9, <1>11 DEF open_popup, is_popup_open, module_index
<1>10. CASE quit
  BY <1>10, <1>11 DEF quit, module_index
<1> QED
  BY <1>4, <1>5, <1>6, <1>7, <1>8, <1>9, <1>10 DEF EventStep

-----------------------------------------------------------------------------

CommandStep(m) == take_command(m) \/ apply_command(m) \/ drained(m)

(* Between the set call and its store the updater has the call in hand;    *)
(* the store makes the state what the EC got.                              *)
LEMMA CommandKeepsTuiInv ==
  ASSUME TuiInv, NEW m \in Settable, CommandStep(m)
  PROVE  TuiInv'
<1> USE DEF TuiInv
<1>1. /\ UNCHANGED <<uiVars, accepted, lock, bix_cached>>
      /\ m \in Domains /\ "bat" \in Domains /\ "thm" \in Domains
      /\ m = "bat" \/ m = "thm"
  BY SettableDomains DEF CommandStep, take_command, apply_command, drained, Updater,
     Settable
<1>2. PopupOnSelectedTab' /\ HeldInv'
  BY <1>1 DEF uiVars, PopupOnSelectedTab, HeldInv
<1>3. \E to \in {"sleep", "apply", "lock"} :
        pc[m] \in {"sleep", "apply"} /\ pc' = [pc EXCEPT ![m] = to]
  BY DEF CommandStep, take_command, apply_command, drained, Updater
<1>4. LockInv'
  BY <1>1, <1>3 DEF LockInv, uiVars, Typed, Writing
<1>5. pc' \in [Domains -> {"sleep", "apply", "lock", "bix", "bst", "record", "store"}]
  BY <1>1, <1>3 DEF Typed
<1>6. SUFFICES
        /\ battery' \in [bst_success : BOOLEAN, remaining : Remaining \cup {0},
                         newest : Remaining \cup {0}, btp : CmdValues \cup {0},
                         btp_success : BOOLEAN]
        /\ fan' \in [rpm_limit : CmdValues \cup {0}, rpm_set_success : BOOLEAN]
        /\ cur' \in [Settable -> [ok : BOOLEAN, v : CmdValues \cup {Bad}]]
        /\ ec' \in [Settable -> [ok : BOOLEAN, v : CmdValues \cup {Bad}]]
        /\ chan' \in [Settable -> Seq(CmdValues)] /\ made' \in [Settable -> Seq(CmdValues)]
        /\ SampleInv' /\ InHandInv' /\ StoredInv' /\ CommandsInOrder'
  BY <1>1, <1>2, <1>4, <1>5 DEF Typed, uiVars
<1>7. CASE take_command(m)
  <2>1. PICK ok \in BOOLEAN :
          /\ cur' = [cur EXCEPT ![m] = [ok |-> ok, v |-> Head(chan[m])]]
          /\ ec' = [ec EXCEPT ![m] = [ok |-> ok, v |-> Head(chan[m])]]
          /\ made' = [made EXCEPT ![m] = Append(@, Head(chan[m]))]
    BY <1>7 DEF take_command, set_call
  <2>2. /\ chan[m] # <<>> /\ chan' = [chan EXCEPT ![m] = Tail(@)]
        /\ pc[m] = "sleep" /\ pc' = [pc EXCEPT ![m] = "apply"]
        /\ UNCHANGED <<battery, fan>>
    BY <1>7 DEF take_command, Updater
  <2>3. chan[m] \in Seq(CmdValues)
    BY DEF Typed
  <2>4. Head(chan[m]) \in CmdValues /\ Tail(chan[m]) \in Seq(CmdValues)
    BY <2>2, <2>3
  <2>5. chan' \in [Settable -> Seq(CmdValues)]
    BY <2>2, <2>4 DEF Typed
  <2>6. [ok |-> ok, v |-> Head(chan[m])] \in [ok : BOOLEAN, v : CmdValues \cup {Bad}]
    BY <2>4
  <2>7. /\ cur' \in [Settable -> [ok : BOOLEAN, v : CmdValues \cup {Bad}]]
        /\ ec' \in [Settable -> [ok : BOOLEAN, v : CmdValues \cup {Bad}]]
    BY <2>1, <2>6 DEF Typed
  <2>8. InHandInv'
    BY <1>1, <2>1, <2>2, <2>4, SettableDomains DEF InHandInv, Typed
  <2>9. SampleInv'
    BY <1>1, <2>2 DEF SampleInv, Typed
  <2>10. StoredInv'
    BY <1>1, <2>1, <2>2, SettableDomains DEF StoredInv, Typed
  <2>11. made' \in [Settable -> Seq(CmdValues)]
    BY <2>1, <2>4 DEF Typed
  <2>12. Append(made[m], Head(chan[m])) \o Tail(chan[m]) = made[m] \o chan[m]
    <3>1. made[m] \in Seq(CmdValues)
      BY DEF Typed
    <3> QED
      BY <2>2, <2>3, <3>1, TakenInOrder, Zenon
  <2>13. \A n \in Settable : accepted[n] = made'[n] \o chan'[n]
    BY <2>1, <2>2, <2>12 DEF CommandsInOrder, Typed
  <2>14. CommandsInOrder'
    BY <1>1, <2>13 DEF CommandsInOrder
  <2> QED
    BY <2>2, <2>5, <2>7, <2>8, <2>9, <2>10, <2>11, <2>14 DEF Typed
<1>8. CASE apply_command(m)
  <2>1. /\ pc[m] = "apply" /\ pc' = [pc EXCEPT ![m] = "sleep"]
        /\ UNCHANGED <<chan, made, ec>> /\ cur' = [cur EXCEPT ![m] = NoCall]
        /\ cur[m] = ec[m] /\ cur[m].v \in CmdValues
    BY <1>8 DEF apply_command, Updater, InHandInv
  <2>2. cur[m] \in [ok : BOOLEAN, v : CmdValues \cup {Bad}]
    BY DEF Typed
  <2>3. NoCall \in [ok : BOOLEAN, v : CmdValues \cup {Bad}]
    BY DEF NoCall
  <2>4. /\ cur' \in [Settable -> [ok : BOOLEAN, v : CmdValues \cup {Bad}]]
        /\ ec' \in [Settable -> [ok : BOOLEAN, v : CmdValues \cup {Bad}]]
        /\ chan' \in [Settable -> Seq(CmdValues)] /\ made' \in [Settable -> Seq(CmdValues)]
        /\ CommandsInOrder'
    BY <1>1, <2>1, <2>3 DEF Typed, CommandsInOrder
  <2>5. InHandInv'
    BY <1>1, <2>1, SettableDomains DEF InHandInv, Typed
  <2>6. CASE m = "bat"
    <3>1. /\ battery' = [battery EXCEPT !.btp = cur[m].v, !.btp_success = cur[m].ok]
          /\ fan' = fan
      BY <1>8, <2>6 DEF apply_command
    <3>2. battery' \in [bst_success : BOOLEAN, remaining : Remaining \cup {0},
                        newest : Remaining \cup {0}, btp : CmdValues \cup {0},
                        btp_success : BOOLEAN]
      BY <2>1, <2>2, <3>1 DEF Typed
    <3>3. /\ battery'.btp = cur[m].v /\ battery'.btp_success = cur[m].ok
          /\ battery'.bst_success = battery.bst_success
          /\ battery'.newest = battery.newest /\ battery'.remaining = battery.remaining
      BY <3>1 DEF Typed
    <3>4. SampleInv'
      BY <1>1, <2>1, <2>6, <3>3 DEF SampleInv, Typed
    <3>5. ec[m] = [ok |-> battery'.btp_success, v |-> battery'.btp]
      BY <2>1, <2>2, <3>3
    <3>6. StoredInv'
      BY <1>1, <2>1, <2>6, <3>1, <3>5 DEF StoredInv, Typed
    <3> QED
      BY <2>4, <2>5, <3>1, <3>2, <3>4, <3>6 DEF Typed
  <2>7. CASE m = "thm"
    <3>1. /\ fan' = [rpm_limit |-> cur[m].v, rpm_set_success |-> cur[m].ok]
          /\ battery' = battery
      BY <1>8, <2>7 DEF apply_command
    <3>2. fan' \in [rpm_limit : CmdValues \cup {0}, rpm_set_success : BOOLEAN]
      BY <2>1, <2>2, <3>1
    <3>3. SampleInv'
      BY <1>1, <2>1, <2>7, <3>1 DEF SampleInv, Typed
    <3>4. ec[m] = [ok |-> fan'.rpm_set_success, v |-> fan'.rpm_limit]
      BY <2>1, <2>2, <3>1
    <3>5. StoredInv'
      BY <1>1, <2>1, <2>7, <3>1, <3>4 DEF StoredInv, Typed
    <3> QED
      BY <2>4, <2>5, <3>1, <3>2, <3>3, <3>5 DEF Typed
  <2> QED
    BY <1>1, <2>6, <2>7
<1>9. CASE drained(m)
  <2>1. /\ pc[m] = "sleep" /\ pc' = [pc EXCEPT ![m] = "lock"]
        /\ UNCHANGED <<cur, battery, fan, chan, made, ec>>
    BY <1>9 DEF drained, Updater
  <2>2. SampleInv' /\ InHandInv'
    BY <1>1, <2>1, SettableDomains DEF SampleInv, InHandInv, Typed
  <2>3. StoredInv'
    BY <1>1, <2>1 DEF StoredInv, Typed
  <2>4. CommandsInOrder'
    BY <1>1, <2>1 DEF CommandsInOrder
  <2> QED
    BY <2>1, <2>2, <2>3, <2>4 DEF Typed
<1> QED
  BY <1>7, <1>8, <1>9 DEF CommandStep

PollStep(d) ==
  \/ d = "bat" /\ (battery_lock \/ battery_bix \/ battery_bst \/ battery_record)
  \/ d # "bat" /\ (store_lock(d) \/ store(d))

(* A poll writes the state inside its write lock, which it got only while  *)
(* no draw held it, and drops the lock after the sample.                   *)
LEMMA PollKeepsTuiInv ==
  ASSUME TuiInv, NEW d \in Domains, PollStep(d)
  PROVE  TuiInv'
<1> USE DEF TuiInv
<1>1. /\ UNCHANGED <<uiVars, accepted, cur, fan, chan, made, ec>>
      /\ "bat" \in Domains /\ "thm" \in Domains
  BY SettableDomains DEF PollStep, battery_lock, battery_bix, battery_bst, battery_record,
     store_lock, store, write_lock, Updater
<1>2. PopupOnSelectedTab' /\ HeldInv' /\ CommandsInOrder'
  BY <1>1 DEF uiVars, PopupOnSelectedTab, HeldInv, CommandsInOrder
<1>3. PICK to \in {"sleep", "bix", "bst", "record", "store"} :
        pc[d] # "apply" /\ pc' = [pc EXCEPT ![d] = to]
  BY DEF PollStep, battery_lock, battery_bix, battery_bst, battery_record,
     store_lock, store, write_lock, Updater
<1>4. /\ pc' \in [Domains -> {"sleep", "apply", "lock", "bix", "bst", "record", "store"}]
      /\ \A m \in Settable : pc'[m] = "apply" <=> pc[m] = "apply"
  BY <1>3, SettableDomains DEF Typed
<1>5. InHandInv'
  BY <1>1, <1>4 DEF InHandInv
<1>6. SUFFICES
        /\ lock' \in [Domains -> {"free", "ui", "upd"}] /\ bix_cached' \in BOOLEAN
        /\ battery' \in [bst_success : BOOLEAN, remaining : Remaining \cup {0},
                         newest : Remaining \cup {0}, btp : CmdValues \cup {0},
                         btp_success : BOOLEAN]
        /\ battery'.btp = battery.btp /\ battery'.btp_success = battery.btp_success
        /\ LockInv' /\ SampleInv'
  <2>1. StoredInv'
    BY <1>1, <1>4, <1>6, SettableDomains DEF StoredInv
  <2> QED
    BY <1>1, <1>2, <1>4, <1>5, <1>6, <2>1 DEF Typed, uiVars
<1>7. ASSUME \/ /\ lock[d] = "free" /\ lock' = [lock EXCEPT ![d] = "upd"]
                /\ to \in Writing
             \/ /\ pc[d] \in Writing /\ lock' = [lock EXCEPT ![d] = "free"]
                /\ to = "sleep"
             \/ pc[d] \in Writing /\ lock' = lock /\ to \in Writing
      PROVE  lock' \in [Domains -> {"free", "ui", "upd"}] /\ LockInv'
  <2>1. lock' \in [Domains -> {"free", "ui", "upd"}]
    BY <1>7, ZenonT(60) DEF Typed
  <2>2. /\ lock'[d] = "upd" <=> to \in Writing
        /\ lock[d] # "ui" /\ lock'[d] # "ui" /\ pc'[d] = to
        /\ \A e \in Domains \ {d} : lock'[e] = lock[e] /\ pc'[e] = pc[e]
    BY <1>3, <1>7 DEF LockInv, Typed, Writing
  <2>3. \A e \in Domains : (lock'[e] = "upd") <=> (pc'[e] \in Writing)
    BY <2>2 DEF LockInv
  <2>4. \A e \in Domains : (lock'[e] = "ui") <=> (lock[e] = "ui")
    BY <2>2
  <2> QED
    BY <1>1, <2>1, <2>3, <2>4 DEF LockInv, uiVars
<1>8. CASE d = "bat" /\ (battery_lock \/ battery_bix)
  <2>1. UNCHANGED battery /\ to # "record" /\ pc["bat"] # "record"
    BY <1>3, <1>8 DEF battery_lock, battery_bix, write_lock, Updater, Typed
  <2>2. SampleInv'
    BY <1>1, <1>3, <1>8, <2>1 DEF SampleInv, Typed
  <2>3. bix_cached' \in BOOLEAN
    BY <1>8 DEF battery_lock, battery_bix, write_lock, Typed
  <2>4. lock' \in [Domains -> {"free", "ui", "upd"}] /\ LockInv'
    BY <1>3, <1>7, <1>8 DEF battery_lock, battery_bix, write_lock, Updater, Writing, Typed
  <2> QED
    BY <2>1, <2>2, <2>3, <2>4 DEF Typed
<1>9. CASE d = "bat" /\ battery_bst
  <2>1. /\ pc["bat"] = "bst" /\ pc' = [pc EXCEPT !["bat"] = "record"]
        /\ UNCHANGED <<lock, bix_cached>>
    BY <1>9 DEF battery_bst, Updater
  <2>2. lock' \in [Domains -> {"free", "ui", "upd"}] /\ LockInv'
    <3>1. to = "record"
      BY <1>1, <1>3, <1>9, <2>1 DEF Typed
    <3> QED
      BY <1>7, <1>9, <2>1, <3>1 DEF Writing
  <2>3. SampleInv'
    BY <1>1, <2>1 DEF SampleInv, Typed
  <2>4. CASE battery' = [battery EXCEPT !.bst_success = FALSE]
    BY <2>1, <2>2, <2>3, <2>4 DEF Typed
  <2>5. CASE \E v \in Remaining :
               battery' = [battery EXCEPT !.bst_success = TRUE, !.remaining = v]
    BY <2>1, <2>2, <2>3, <2>5 DEF Typed
  <2> QED
    BY <1>9, <2>4, <2>5 DEF battery_bst
<1>10. CASE d = "bat" /\ battery_record
  <2>1. /\ pc["bat"] = "record" /\ pc' = [pc EXCEPT !["bat"] = "sleep"]
        /\ lock' = [lock EXCEPT !["bat"] = "free"] /\ UNCHANGED bix_cached
        /\ battery' = [battery EXCEPT !.newest = IF battery.bst_success THEN battery.remaining
                                                                       ELSE @]
    BY <1>10 DEF battery_record, Updater
  <2>2. lock' \in [Domains -> {"free", "ui", "upd"}] /\ LockInv'
    <3>1. to = "sleep"
      BY <1>1, <1>3, <1>10, <2>1 DEF Typed
    <3> QED
      BY <1>7, <1>10, <2>1, <3>1 DEF Writing
  <2>3. battery' \in [bst_success : BOOLEAN, remaining : Remaining \cup {0},
                      newest : Remaining \cup {0}, btp : CmdValues \cup {0},
                      btp_success : BOOLEAN]
    BY <2>1 DEF Typed
  <2>4. SampleInv'
    BY <2>1 DEF SampleInv, Typed
  <2>5. battery'.btp = battery.btp /\ battery'.btp_success = battery.btp_success
    BY <2>1 DEF Typed
  <2> QED
    BY <2>1, <2>2, <2>3, <2>4, <2>5 DEF Typed
<1>11. CASE d # "bat" /\ (store_lock(d) \/ store(d))
  <2>1. UNCHANGED <<battery, bix_cached>>
    BY <1>11 DEF store_lock, store, write_lock
  <2>2. SampleInv'
    BY <1>1, <1>3, <1>11, <2>1 DEF SampleInv, Typed
  <2>3. lock' \in [Domains -> {"free", "ui", "upd"}] /\ LockInv'
    BY <1>3, <1>7, <1>11 DEF store_lock, store, write_lock, Updater, Writing, Typed
  <2> QED
    BY <2>1, <2>2, <2>3 DEF Typed
<1> QED
  BY <1>8, <1>9, <1>10, <1>11 DEF PollStep

-----------------------------------------------------------------------------

\* Every step of the UI thread and of the updaters keeps the invariant.
LEMMA NextKeepsTuiInv == TuiInv /\ [Next]_vars => TuiInv'
<1> SUFFICES ASSUME TuiInv, [Next]_vars PROVE TuiInv'
  OBVIOUS
<1>1. CASE UI
  BY <1>1, DrawKeepsTuiInv, EventKeepsTuiInv DEF UI, EventStep
<1>2. CASE \E d \in Domains : Update(d)
  <2>1. PICK d \in Domains : Update(d)
    BY <1>2
  <2>2. CASE d \in Settable /\ CommandStep(d)
    BY <2>2, CommandKeepsTuiInv
  <2>3. CASE PollStep(d)
    BY <2>3, PollKeepsTuiInv
  <2> QED
    BY <2>1, <2>2, <2>3 DEF Update, CommandStep, PollStep
<1>3. CASE Exited \/ UNCHANGED vars
  <2>1. UNCHANGED vars
    BY <1>3 DEF Exited
  <2> QED
    BY <2>1 DEF vars, uiVars, TuiInv, Typed, LockInv, HeldInv, PopupOnSelectedTab,
       SampleInv, InHandInv, StoredInv, CommandsInOrder, module_index
<1> QED
  BY <1>1, <1>2, <1>3 DEF Next

\* The invariant holds in every reachable state.
THEOREM TuiInvariance == Spec => []TuiInv
<1> QED
  BY InitTuiInv, NextKeepsTuiInv, PTL DEF Spec

(* Every variable keeps its type, and every RwLock is held by the thread   *)
(* that is inside its section and by no other: the UI from taking it until *)
(* the draw ends, an updater from its write until its store.               *)
THEOREM TypeCorrect == Spec => []TypeOK
<1>1. TuiInv => TypeOK
  BY DEF TuiInv, Typed, LockInv, Writing, TypeOK
<1> QED
  BY <1>1, TuiInvariance, PTL

(* handle_events routes every event to the module of an open popup, so a   *)
(* popup is only ever open on the tab that is shown.                       *)
THEOREM PopupStaysVisible == Spec => []PopupOnSelectedTab
<1>1. TuiInv => PopupOnSelectedTab
  BY DEF TuiInv
<1> QED
  BY <1>1, TuiInvariance, PTL

(* A draw never sees a battery reading without its sample: both are stored *)
(* under the write guard BatteryUpdater::update holds for the whole poll.  *)
THEOREM DrawSeesWholePoll == Spec => []NoTornBattery
<1>1. TuiInv => NoTornBattery
  BY SettableDomains DEF TuiInv, LockInv, SampleInv, NoTornBattery, Writing
<1> QED
  BY <1>1, TuiInvariance, PTL

(* The trip point and the fan override on display are those of the last    *)
(* set call the EC got, with its outcome, however many commands are queued *)
(* and for every value, zero and its "--" included.                        *)
THEOREM DisplayFollowsEc == Spec => []DisplayMatchesEc
<1>1. TuiInv => DisplayMatchesEc
  <2> SUFFICES ASSUME TuiInv PROVE DisplayMatchesEc
    OBVIOUS
  <2>1. (pc["bat"] # "apply" /\ ec["bat"] # NoCall) => trip_row = ec["bat"]
    BY DEF TuiInv, StoredInv, trip_row
  <2>2. ASSUME pc["thm"] # "apply", ec["thm"] # NoCall
        PROVE  ec["thm"].ok = fan.rpm_set_success /\ ec["thm"].v = fan.rpm_limit
    BY <2>2 DEF TuiInv, StoredInv
  <2> QED
    BY <2>1, <2>2 DEF DisplayMatchesEc
<1> QED
  BY <1>1, TuiInvariance, PTL

(* Whatever the order of keys and updates and whichever calls fail, the EC *)
(* is given the confirmed values once each and in order.                   *)
THEOREM NoCommandIsLost == Spec => []CommandsInOrder
<1>1. TuiInv => CommandsInOrder
  BY DEF TuiInv
<1> QED
  BY <1>1, TuiInvariance, PTL

=============================================================================

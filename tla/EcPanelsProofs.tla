-------------------------- MODULE EcPanelsProofs --------------------------
(***************************************************************************)
(* Proofs about the TUI's data path: for every source, chart size, log     *)
(* capacity and sequence of polls, the panels tell the truth about the     *)
(* calls (ShownIsLatest), the charts about the readings (WindowIsTail), the *)
(* log about the warnings (LogShowsNewest) and the fan zone about the fan  *)
(* of the mock (ZoneMatchesFan).                                           *)
(***************************************************************************)
EXTENDS EcPanels, SequenceTheorems, WellFoundedInduction, TLAPS

BstType == [charging : BOOLEAN, remaining : Int, rate : Int]
BixType == [design : Int, last_full : Int]
StatsType == [min : Int, max : Int, sum : Int, count : Nat, prev : Int, delta : Int]
BufType == [samples : Seq(Int), stats : StatsType]
RampType == [current : Int, target : Int, start_value : Int, elapsed : Nat, duration : Nat]
LevelsType == [on : Int, ramping : Int, max : Int]

BatType ==
  [bst : BstType, bst_success : BOOLEAN, bix : BixType, bix_success : BOOLEAN,
   samples : BufType, t_min : Nat, btp : Int, btp_success : BOOLEAN]

ThmType ==
  [skin_temp : Int, temp_success : BOOLEAN, temps : BufType,
   rpm : Int, rpm_success : BOOLEAN, rpms : BufType,
   bounds : [min : Int, max : Int], bounds_success : BOOLEAN,
   levels : LevelsType, levels_success : BOOLEAN,
   thresholds_success : BOOLEAN, t : Nat, rpm_limit : Int, rpm_set_success : BOOLEAN]

-----------------------------------------------------------------------------
(***************************************************************************)
(* The inductive invariant, one part per component.                        *)
(***************************************************************************)

\* s is the last of the partial sums of h.
SumOf(s, h) ==
  \E f \in [0..Len(h) -> Int] :
    f[0] = 0 /\ (\A i \in 1..Len(h) : f[i] = f[i - 1] + h[i]) /\ s = f[Len(h)]

\* A buffer that was given the samples h: it holds the end of h, its
\* statistics are those of h, and it remembers the last of h.
BufOf(buf, h) ==
  /\ h \in Seq(Int) /\ buf \in BufType
  /\ Len(buf.samples) = IF Len(h) < MaxSamples THEN Len(h) ELSE MaxSamples
  /\ \A i \in 1..Len(buf.samples) : buf.samples[i] = h[Len(h) - Len(buf.samples) + i]
  /\ StatsOf(buf.stats, h) /\ SumOf(buf.stats.sum, h)
  /\ h # <<>> => buf.stats.prev = h[Len(h)]

HistInv == hist = [bat |-> hist.bat, temp |-> hist.temp, rpm |-> hist.rpm]

FlagInv ==
  /\ source \in {"mock", "ec"}
  /\ bix_cached \in BOOLEAN /\ rtc_caps_cached \in BOOLEAN
  /\ last = [c \in Calls |-> last[c]]

\* What an entry is about.
Entry == Calls \cup {"bounds", "levels", "set_rpm"}

LogInv == log \in Seq(Entry) /\ Len(log) <= LOG_CAPACITY

\* The mock, and what its fan is heading for once the thresholds are known.
MockInv ==
  /\ bst_state \in [charging : BOOLEAN, capacity : Nat]
  /\ temp_ramp \in RampType /\ fan_ramp \in RampType
  /\ current_temp_c \in Int /\ set_rpm \in Int
  /\ (source = "mock" /\ thm.levels_success) =>
       /\ thm.levels = get_threshold
       /\ set_rpm = NoRpm => fan_ramp.target = fan_target(thm.skin_temp)[1]

BatInv ==
  /\ bat \in BatType
  /\ BufOf(bat.samples, hist.bat)
  /\ bat.t_min = bat.samples.stats.count
  /\ bat.bst_success = last["bst"].ok /\ (bat.bst_success => last["bst"] = Ok(bat.bst))
  /\ bat.bix_success = last["bix"].ok /\ (bat.bix_success => last["bix"] = Ok(bat.bix))

ThmInv ==
  /\ thm \in ThmType
  /\ BufOf(thm.temps, hist.temp) /\ BufOf(thm.rpms, hist.rpm)
  /\ thm.temp_success = last["temp"].ok
  /\ thm.temp_success => last["temp"] = Ok(thm.skin_temp)
  /\ thm.rpm_success = last["rpm"].ok
  /\ thm.rpm_success => last["rpm"] = Ok(thm.rpm)
  /\ thm.bounds_success = (last["min_rpm"].ok /\ last["max_rpm"].ok)
  /\ thm.bounds_success =>
       last["min_rpm"] = Ok(thm.bounds.min) /\ last["max_rpm"] = Ok(thm.bounds.max)

\* The figures are the last good answers.
KnownInv ==
  known = [bst |-> bat.bst, bix |-> bat.bix, temp |-> thm.skin_temp, rpm |-> thm.rpm,
           bounds |-> thm.bounds, levels |-> thm.levels]

RtcInv ==
  /\ rtc.timestamp.ok => last["timestamp"] = rtc.timestamp
  /\ rtc.capabilities.ok => last["caps"] = rtc.capabilities
  /\ render_panel(rtc.ac) => last["ac"].ok
  /\ render_panel(rtc.dc) => last["dc"].ok

UcsiInv ==
  /\ mailbox \in {"none"} \cup {Commands[i] : i \in 1..3}
  /\ ucsi.snapshot.ok =>
       last["ucsi"] = ucsi.snapshot /\ ucsi.snapshot.v.parts = Commands

PanelsInv == /\ HistInv /\ FlagInv /\ LogInv /\ MockInv
             /\ BatInv /\ ThmInv /\ RtcInv /\ UcsiInv /\ KnownInv

-----------------------------------------------------------------------------
(***************************************************************************)
(* The log.                                                                *)
(***************************************************************************)

(* Induction over the natural numbers for a set, from the well-foundedness *)
(* of their order.                                                         *)
LEMMA InductionOnNat ==
  ASSUME NEW S \in SUBSET Nat, 0 \in S, \A n \in S : n + 1 \in S
  PROVE  S = Nat
<1> SUFFICES ASSUME S # Nat
             PROVE  FALSE
  OBVIOUS
<1> DEFINE T == Nat \ S
<1>1. T \subseteq Nat /\ T # {}
  OBVIOUS
<1> HIDE DEF T
<1>2. \E x \in T : \A y \in T : <<y, x>> \notin OpToRel(<, Nat)
  BY <1>1, WFMin, NatLessThanWellFounded
<1>3. PICK x \in T : \A y \in T : ~(y < x)
  BY <1>1, <1>2 DEF OpToRel
<1>4. x # 0 /\ x \in Nat /\ x - 1 \in Nat
  BY <1>3 DEF T
<1>5. x - 1 \in S
  BY <1>3, <1>4 DEF T
<1>6. x - 1 + 1 \in S
  BY <1>5
<1> QED
  BY <1>3, <1>4, <1>6 DEF T

(* LogBuffer::push keeps at most LOG_CAPACITY entries.                      *)
LEMMA PushKeeps ==
  ASSUME NEW q \in Seq(Entry), Len(q) <= LOG_CAPACITY, NEW e \in Entry
  PROVE  log_push(q, e) \in Seq(Entry) /\ Len(log_push(q, e)) <= LOG_CAPACITY
<1>1. CASE Len(q) >= LOG_CAPACITY
  <2>1. q # <<>> /\ Len(q) \in Nat
    BY <1>1, LogAssumption, EmptySeq
  <2>2. Tail(q) \in Seq(Entry) /\ Len(Tail(q)) = Len(q) - 1
    BY <2>1, HeadTailProperties
  <2>3. Append(Tail(q), e) \in Seq(Entry) /\ Len(Append(Tail(q), e)) = Len(q)
    BY <2>1, <2>2, AppendProperties
  <2> QED
    BY <1>1, <2>3 DEF log_push
<1>2. CASE ~(Len(q) >= LOG_CAPACITY)
  <2>1. Append(q, e) \in Seq(Entry) /\ Len(Append(q, e)) = Len(q) + 1
    BY AppendProperties
  <2> QED
    BY <1>2, <2>1, LogAssumption DEF log_push
<1> QED
  BY <1>1, <1>2

(* The warnings of a poll leave a log within its capacity: by induction,    *)
(* first that the recursion over the entries has a solution, then that     *)
(* every value of it is such a log.                                        *)
LEMMA WarnKeeps ==
  ASSUME LogInv, NEW names \in Seq(Entry), Warn(names)
  PROVE  LogInv'
<1> DEFINE N == Len(names)
           L == {q \in Seq(Entry) : Len(q) <= LOG_CAPACITY}
           step(f, n) == IF n = 0 THEN log ELSE log_push(f[n - 1], names[n])
           part(n) == \E f \in [0..n -> L] : \A i \in 0..n : f[i] = step(f, i)
           good == {n \in Nat : n <= N => part(n)}
<1>0. N \in Nat /\ log \in L
  BY DEF LogInv
<1>b. \A q \in L, e \in Entry : log_push(q, e) \in L
  BY PushKeeps
<1> HIDE DEF L
<1>1. 0 \in good
  <2>1. [i \in 0..0 |-> log] \in [0..0 -> L]
    BY <1>0
  <2>2. \A i \in 0..0 : [j \in 0..0 |-> log][i] = step([j \in 0..0 |-> log], i)
    OBVIOUS
  <2> QED BY <2>1, <2>2
<1>2. \A n \in good : n + 1 \in good
  <2>a. SUFFICES ASSUME NEW n \in good, n + 1 <= N PROVE part(n + 1)
    <3> HIDE DEF part
    <3> QED BY <1>0
  <2>b. n \in Nat /\ part(n)
    <3> HIDE DEF part
    <3> QED BY <1>0, <2>a
  <2>c. PICK f \in [0..n -> L] : \A i \in 0..n : f[i] = step(f, i)
    BY <2>b DEF part
  <2> DEFINE g == [i \in 0..n+1 |-> IF i = n + 1 THEN step(f, n + 1) ELSE f[i]]
  <2>1. f[n] \in L /\ names[n + 1] \in Entry /\ n + 1 # 0 /\ n + 1 - 1 = n
    <3>1. n + 1 \in 1..N /\ n \in 0..n
      BY <1>0, <2>a, <2>b
    <3>2. f[n] \in L
      BY <3>1, <2>c
    <3>3. names[n + 1] \in Entry
      BY <3>1
    <3> QED BY <2>b, <3>2, <3>3
  <2>2. step(f, n + 1) \in L
    BY <2>1, <1>b
  <2>3. g \in [0..n+1 -> L]
    <3> HIDE DEF step
    <3> QED BY <2>b, <2>1, <2>2, <2>c
  <2>4. \A i \in 0..n+1 : g[i] = step(g, i)
    <3> SUFFICES ASSUME NEW i \in 0..n+1 PROVE g[i] = step(g, i)
      OBVIOUS
    <3>1. CASE i = n + 1
      <4>1. g[i] = step(f, n + 1) /\ g[n] = f[n]
        BY <2>b, <2>1, <3>1
      <4> QED BY <3>1, <4>1, <2>1
    <3>2. CASE i # n + 1
      <4>1. i \in 0..n /\ g[i] = f[i]
        BY <2>b, <2>1, <3>2
      <4>2. i # 0 => i - 1 \in 0..n /\ g[i - 1] = f[i - 1]
        BY <2>b, <2>1, <3>2
      <4> HIDE DEF g
      <4> QED BY <2>c, <4>1, <4>2
    <3> QED BY <3>1, <3>2
  <2> QED BY <2>3, <2>4
<1>3. good = Nat
  <2> HIDE DEF good
  <2>1. good \in SUBSET Nat BY DEF good
  <2> QED BY <1>1, <1>2, <2>1, InductionOnNat
<1>a. part(N)
  <2> HIDE DEF part
  <2> QED BY <1>0, <1>3
<1>4. PICK f \in [0..N -> L] : \A i \in 0..N : f[i] = step(f, i)
  BY <1>a
<1> DEFINE w == CHOOSE k : k = [i \in 0..N |-> step(k, i)]
<1>5. f = [i \in 0..N |-> step(f, i)]
  <2> HIDE DEF step
  <2> QED BY <1>4
<1>6. w = [i \in 0..N |-> step(w, i)]
  <2> HIDE DEF step
  <2> QED BY <1>5
<1>7. log' = w[N]
  BY DEF Warn
<1> HIDE DEF w
<1> DEFINE ok == {n \in Nat : n <= N => w[n] \in L}
<1>8. 0 \in ok
  BY <1>6, <1>0
<1>9. \A n \in ok : n + 1 \in ok
  <2> SUFFICES ASSUME NEW n \in Nat, n + 1 <= N, w[n] \in L PROVE w[n + 1] \in L
    BY <1>0
  <2>1. w[n + 1] = step(w, n + 1)
    <3>1. n + 1 \in 0..N
      BY <1>0
    <3> HIDE DEF step
    <3> QED BY <1>6, <3>1
  <2>2. names[n + 1] \in Entry /\ n + 1 # 0 /\ n + 1 - 1 = n
    BY <1>0
  <2> QED BY <2>1, <2>2, <1>b
<1>10. ok = Nat
  <2> HIDE DEF ok
  <2>1. ok \in SUBSET Nat BY DEF ok
  <2> QED BY <1>8, <1>9, <2>1, InductionOnNat
<1>11. log' \in L
  BY <1>7, <1>10, <1>0
<1> QED
  BY <1>11 DEF L, LogInv

(* The entries of a poll are names of calls.                               *)
LEMMA WarnedType ==
  ASSUME NEW call \in Entry, NEW failing
  PROVE  Warned(call, failing) \in Seq(Entry)
BY DEF Warned

(* Whatever the scroll position, the panel is full when it can be, and     *)
(* unscrolled it ends with the newest entry.                               *)
LEMMA LogPanel ==
  ASSUME LogInv
  PROVE  LogShowsNewest
<1> SUFFICES ASSUME NEW scroll \in 0..(LOG_CAPACITY + 1)
             PROVE  LET panel == render_log_panel(log, scroll, LogRows)
                    IN  /\ Len(panel) = IF Len(log) < LogRows THEN Len(log) ELSE LogRows
                        /\ (scroll = 0 /\ log # <<>>) => panel[Len(panel)] = log[Len(log)]
  BY DEF LogShowsNewest
<1> DEFINE n == Len(log)
           max_scroll == IF n > LogRows THEN n - LogRows ELSE 0
           s == IF scroll < max_scroll THEN scroll ELSE max_scroll
           skip == max_scroll - s
           end == IF skip + LogRows < n THEN skip + LogRows ELSE n
           panel == SubSeq(log, skip + 1, end)
<1>1. render_log_panel(log, scroll, LogRows) = panel
  BY DEF render_log_panel
<1>2. n \in Nat /\ LogRows \in Nat \ {0} /\ log \in Seq(Entry) /\ LOG_CAPACITY \in Nat
  BY PanelsAssumption, LogAssumption DEF LogInv
<1> HIDE DEF n
<1>3. skip \in Nat /\ end \in Nat /\ end <= n /\ skip <= end
      /\ end - skip = (IF n < LogRows THEN n ELSE LogRows)
      /\ (scroll = 0 => end = n)
  BY <1>2
<1>4. log # <<>> => n > 0
  BY <1>2, EmptySeq DEF n
<1> HIDE DEF skip, end
<1>5. /\ Len(panel) = end - skip
      /\ \A i \in 1..(end - skip) : panel[i] = log[skip + i]
  <2>1. /\ skip + 1 \in 1..n+1 /\ end \in skip..n
    BY <1>2, <1>3
  <2>2. /\ panel \in Seq(Entry)
        /\ Len(panel) = IF skip + 1 <= end THEN end - (skip + 1) + 1 ELSE 0
        /\ \A i \in 1 .. end - (skip + 1) + 1 : panel[i] = log[skip + 1 + i - 1]
    BY <1>2, <1>3, <2>1, SubSeqProperties DEF n
  <2>3. ASSUME NEW i \in 1..(end - skip)
        PROVE  i \in 1 .. end - (skip + 1) + 1 /\ skip + 1 + i - 1 = skip + i
    BY <1>3
  <2>4. Len(panel) = end - skip
    BY <1>3, <2>2
  <2> QED
    BY <2>2, <2>3, <2>4
<1>6. Len(panel) = IF n < LogRows THEN n ELSE LogRows
  BY <1>3, <1>5
<1>7. (scroll = 0 /\ log # <<>>) => panel[Len(panel)] = log[n]
  BY <1>2, <1>3, <1>4, <1>5
<1> QED
  BY <1>1, <1>6, <1>7 DEF n
-----------------------------------------------------------------------------
(***************************************************************************)
(* The sample buffers.                                                     *)
(***************************************************************************)

(* An empty buffer was given nothing.                                      *)
LEMMA EmptyBuf == BufOf(SampleBuf, <<>>)
<1>1. <<>> \in Seq(Int) /\ Len(<<>>) = 0
  OBVIOUS
<1>2. SampleBuf \in BufType
  BY DEF SampleBuf, SessionStats, BufType, StatsType
<1>3. SampleBuf.samples = <<>> /\ SampleBuf.stats = SessionStats
  BY DEF SampleBuf
<1>4. StatsOf(SessionStats, <<>>)
  BY <1>1, StateAssumption DEF StatsOf, SessionStats
<1>5. SumOf(SessionStats.sum, <<>>)
  <2> DEFINE f == [i \in 0..0 |-> 0]
  <2>1. f \in [0..0 -> Int] /\ f[0] = 0 /\ SessionStats.sum = 0
    BY DEF SessionStats
  <2>2. \A i \in 1..0 : FALSE
    OBVIOUS
  <2> HIDE DEF f
  <2> QED
    BY <1>1, <2>1, <2>2 DEF SumOf
<1> QED
  BY <1>1, <1>2, <1>3, <1>4, <1>5, StateAssumption DEF BufOf

(* The partial sums of h and v are those of h and one more.                *)
LEMMA SumGrows ==
  ASSUME NEW h \in Seq(Int), NEW s, SumOf(s, h), NEW v \in Int
  PROVE  s \in Int /\ SumOf(s + v, Append(h, v))
<1> DEFINE n == Len(h)
           g == Append(h, v)
<1>1. PICK f \in [0..n -> Int] :
        f[0] = 0 /\ (\A i \in 1..n : f[i] = f[i - 1] + h[i]) /\ s = f[n]
  BY DEF SumOf
<1>2. n \in Nat /\ s \in Int
  BY <1>1
<1>3. Len(g) = n + 1 /\ g[n + 1] = v /\ \A i \in 1..n : g[i] = h[i]
  BY AppendProperties
<1> HIDE DEF g, n
<1> DEFINE k == [i \in 0..(n + 1) |-> IF i = n + 1 THEN s + v ELSE f[i]]
<1>4. k \in [0..(n + 1) -> Int] /\ k[0] = 0 /\ k[n + 1] = s + v
  BY <1>1, <1>2
<1>5. \A i \in 1..(n + 1) : k[i] = k[i - 1] + g[i]
  <2> SUFFICES ASSUME NEW i \in 1..(n + 1)
               PROVE  k[i] = k[i - 1] + g[i]
    OBVIOUS
  <2>1. CASE i = n + 1
    <3>1. k[i] = s + v /\ k[i - 1] = f[n] /\ g[i] = v
      BY <1>2, <1>3, <2>1
    <3> QED
      BY <1>1, <3>1
  <2>2. CASE i # n + 1
    <3>1. i \in 1..n /\ k[i] = f[i] /\ k[i - 1] = f[i - 1] /\ g[i] = h[i]
      BY <1>2, <1>3, <2>2
    <3> QED
      BY <1>1, <3>1
  <2> QED
    BY <2>1, <2>2
<1> HIDE DEF k
<1>6. SumOf(s + v, g)
  BY <1>3, <1>4, <1>5 DEF SumOf
<1> QED
  BY <1>2, <1>6 DEF g

(* The partial sums are unique, so their last is the total.                *)
LEMMA TotalIsSum ==
  ASSUME NEW h \in Seq(Int), NEW s, SumOf(s, h)
  PROVE  Total(h) = s
<1> DEFINE n == Len(h)
           step(f, i) == IF i = 0 THEN 0 ELSE f[i - 1] + h[i]
           t == CHOOSE k : k = [i \in 0..n |-> step(k, i)]
<1>1. PICK f \in [0..n -> Int] :
        f[0] = 0 /\ (\A i \in 1..n : f[i] = f[i - 1] + h[i]) /\ s = f[n]
  BY DEF SumOf
<1>2. n \in Nat
  OBVIOUS
<1>3. f = [i \in 0..n |-> step(f, i)]
  <2>1. \A i \in 0..n : f[i] = step(f, i)
    BY <1>1, <1>2
  <2> HIDE DEF step
  <2> QED
    BY <2>1
<1>4. t = [i \in 0..n |-> step(t, i)]
  <2> HIDE DEF step
  <2> QED
    BY <1>3
<1>5. Total(h) = t[n]
  BY DEF Total
<1> HIDE DEF t
<1> DEFINE same == {i \in Nat : i <= n => t[i] = f[i]}
<1>6. 0 \in same
  <2>1. t[0] = step(t, 0)
    <3>1. 0 \in 0..n
      BY <1>2
    <3> HIDE DEF n, step
    <3> QED
      BY <3>1, <1>4, Zenon
  <2> QED
    BY <1>1, <2>1
<1>7. \A i \in same : i + 1 \in same
  <2> SUFFICES ASSUME NEW i \in Nat, i + 1 <= n, t[i] = f[i]
               PROVE  t[i + 1] = f[i + 1]
    BY <1>2
  <2>1. i + 1 \in 0..n /\ i + 1 \in 1..n /\ i + 1 # 0 /\ i + 1 - 1 = i
    BY <1>2
  <2>2. t[i + 1] = step(t, i + 1)
    <3> HIDE DEF n, step
    <3> QED
      BY <1>4, <2>1, Zenon
  <2> QED
    BY <1>1, <2>1, <2>2
<1>8. same = Nat
  <2> HIDE DEF same
  <2>1. same \in SUBSET Nat
    BY DEF same
  <2> QED
    BY <1>6, <1>7, <2>1, InductionOnNat
<1>9. n \in same
  BY <1>2, <1>8
<1> QED
  BY <1>1, <1>2, <1>5, <1>9

(* SessionStats::record: the statistics of h become those of h and v.      *)
LEMMA RecordKeeps ==
  ASSUME NEW st \in StatsType, NEW h \in Seq(Int), StatsOf(st, h),
         h # <<>> => st.prev = h[Len(h)],
         NEW v \in Int
  PROVE  /\ record(st, v) \in StatsType
         /\ StatsOf(record(st, v), Append(h, v))
         /\ record(st, v).prev = v
         /\ record(st, v).sum = st.sum + v
<1> DEFINE n == Len(h)
           g == Append(h, v)
           r == record(st, v)
<1>1. n \in Nat /\ (h # <<>> <=> n > 0)
  BY EmptySeq
<1>2. /\ g \in Seq(Int) /\ Len(g) = n + 1 /\ g # <<>>
      /\ g[n + 1] = v /\ \A i \in 1..n : g[i] = h[i]
  BY AppendProperties
<1>3. /\ st.min \in Int /\ st.max \in Int /\ st.sum \in Int /\ st.count \in Nat
      /\ st.prev \in Int /\ st.delta \in Int
  BY DEF StatsType
<1>4. Count(st.count) \in Nat
  BY <1>3, StateAssumption DEF Count
<1>5. r \in StatsType /\ r.prev = v /\ r.sum = st.sum + v
  BY <1>3, <1>4 DEF record, StatsType
<1>6. /\ r.min = (IF st.count = 0 \/ v < st.min THEN v ELSE st.min)
      /\ r.max = (IF st.count = 0 \/ v > st.max THEN v ELSE st.max)
      /\ r.delta = (IF st.count = 0 THEN st.delta ELSE v - st.prev)
      /\ r.count = Count(st.count)
  BY DEF record
<1>7. st.count = (IF n < CountCap THEN n ELSE CountCap)
  BY DEF StatsOf
<1>8. (st.count = 0 <=> n = 0) /\ CountCap \in Nat \ {0}
  BY <1>1, <1>7, StateAssumption
<1>9. r.count = (IF n + 1 < CountCap THEN n + 1 ELSE CountCap)
  BY <1>1, <1>6, <1>7, <1>8 DEF Count
<1>10. n > 0 => /\ \A i \in 1..n : st.min <= h[i] /\ h[i] <= st.max
                /\ \E i, j \in 1..n : st.min = h[i] /\ st.max = h[j]
  BY <1>1 DEF StatsOf
<1>11. \A i \in 1..n : h[i] \in Int
  BY ElementOfSeq
<1> HIDE DEF r, g, n
<1>12. \A i \in 1..(n + 1) : r.min <= g[i] /\ g[i] <= r.max
  <2> SUFFICES ASSUME NEW i \in 1..(n + 1)
               PROVE  r.min <= g[i] /\ g[i] <= r.max
    OBVIOUS
  <2>1. CASE i = n + 1
    BY <2>1, <1>2, <1>3, <1>6
  <2>2. CASE i # n + 1
    <3>1. i \in 1..n /\ n > 0
      BY <2>2, <1>1
    <3>2. g[i] = h[i] /\ h[i] \in Int /\ st.min <= h[i] /\ h[i] <= st.max
      BY <3>1, <1>2, <1>10, <1>11
    <3> QED
      BY <3>1, <3>2, <1>3, <1>6, <1>8
  <2> QED
    BY <2>1, <2>2
<1>13. \E i, j \in 1..(n + 1) : r.min = g[i] /\ r.max = g[j]
  <2>1. CASE n = 0
    <3>1. r.min = g[1] /\ r.max = g[1] /\ 1 \in 1..(n + 1)
      BY <2>1, <1>2, <1>6, <1>8
    <3> QED
      BY <3>1
  <2>2. CASE n # 0
    <3>1. PICK i \in 1..n, j \in 1..n : st.min = h[i] /\ st.max = h[j]
      BY <2>2, <1>1, <1>10
    <3>2. i \in 1..(n + 1) /\ j \in 1..(n + 1) /\ n + 1 \in 1..(n + 1)
      BY <1>1
    <3>3. g[i] = st.min /\ g[j] = st.max /\ g[n + 1] = v
      BY <3>1, <1>2
    <3>4. r.min \in {v, st.min} /\ r.max \in {v, st.max}
      BY <1>6
    <3> QED
      BY <3>2, <3>3, <3>4
  <2> QED
    BY <2>1, <2>2
<1>14. r.delta = IF n + 1 > 1 THEN g[n + 1] - g[n] ELSE 0
  <2>1. CASE n = 0
    <3>1. st.delta = 0
      BY <2>1 DEF StatsOf, n
    <3> QED
      BY <2>1, <3>1, <1>6, <1>8
  <2>2. CASE n # 0
    <3>1. n \in 1..n /\ st.prev = h[n]
      BY <2>2, <1>1 DEF n
    <3> QED
      BY <2>2, <3>1, <1>1, <1>2, <1>6, <1>8
  <2> QED
    BY <2>1, <2>2
<1>15. StatsOf(r, g)
  <2>1. Len(g) - 1 = n /\ Len(g) = n + 1
    BY <1>1, <1>2
  <2> QED
    BY <2>1, <1>9, <1>12, <1>13, <1>14 DEF StatsOf
<1> QED
  BY <1>5, <1>15 DEF r, g

(* SampleBuf::insert: a buffer of h becomes one of h and v.                 *)
LEMMA InsertKeeps ==
  ASSUME NEW buf, NEW h, BufOf(buf, h), NEW v \in Int
  PROVE  BufOf(insert(buf, v), Append(h, v))
<1> DEFINE n == Len(h)
           g == Append(h, v)
           s == buf.samples
           p == Append(s, v)
           k == Len(s)
           w == IF Len(p) > MaxSamples THEN Tail(p) ELSE p
<1>1. /\ h \in Seq(Int) /\ s \in Seq(Int) /\ buf.stats \in StatsType
      /\ n \in Nat /\ k \in Nat /\ MaxSamples \in Nat \ {0}
  BY StateAssumption DEF BufOf, BufType
<1>a. \A q \in Seq(Int) : LET a == Append(q, v)
                           IN  /\ a \in Seq(Int) /\ Len(a) = Len(q) + 1 /\ a # <<>>
                               /\ a[Len(q) + 1] = v /\ \A i \in 1..Len(q) : a[i] = q[i]
  BY AppendProperties
<1>2. /\ g \in Seq(Int) /\ Len(g) = n + 1 /\ g # <<>>
      /\ g[n + 1] = v /\ \A i \in 1..n : g[i] = h[i]
  BY <1>1, <1>a
<1>3. /\ p \in Seq(Int) /\ Len(p) = k + 1 /\ p # <<>>
      /\ p[k + 1] = v /\ \A i \in 1..k : p[i] = s[i]
  BY <1>1, <1>a
<1>4. /\ Tail(p) \in Seq(Int) /\ Len(Tail(p)) = k
      /\ \A i \in 1..k : Tail(p)[i] = p[i + 1]
  <2> HIDE DEF p
  <2>1. /\ Tail(p) \in Seq(Int) /\ Len(Tail(p)) = Len(p) - 1
        /\ \A i \in 1..Len(Tail(p)) : Tail(p)[i] = p[i + 1]
    BY <1>3, HeadTailProperties
  <2>2. Len(Tail(p)) = k
    BY <2>1, <1>1, <1>3
  <2> QED
    BY <2>1, <2>2
<1>5. /\ k = (IF n < MaxSamples THEN n ELSE MaxSamples)
      /\ \A i \in 1..k : s[i] = h[n - k + i]
  BY DEF BufOf
<1>6. insert(buf, v) = [samples |-> w, stats |-> record(buf.stats, v)]
  BY DEF insert
<1>7. /\ record(buf.stats, v) \in StatsType
      /\ StatsOf(record(buf.stats, v), g)
      /\ record(buf.stats, v).prev = v
      /\ record(buf.stats, v).sum = buf.stats.sum + v
  BY <1>1, RecordKeeps DEF BufOf
<1>b. SumOf(buf.stats.sum + v, g)
  BY <1>1, SumGrows DEF BufOf
<1> HIDE DEF n, g, s, p, k
<1>8. /\ w \in Seq(Int)
      /\ Len(w) = IF n + 1 < MaxSamples THEN n + 1 ELSE MaxSamples
  BY <1>1, <1>3, <1>4, <1>5
<1>9. \A i \in 1..k : n - k + i \in 1..n /\ s[i] = g[n - k + i]
  BY <1>1, <1>2, <1>5
<1>10. \A i \in 1..(k + 1) : p[i] = g[n - k + i]
  <2> SUFFICES ASSUME NEW i \in 1..(k + 1)
               PROVE  p[i] = g[n - k + i]
    OBVIOUS
  <2>1. CASE i = k + 1
    <3>1. n - k + i = n + 1
      BY <2>1, <1>1
    <3> QED
      BY <2>1, <3>1, <1>2, <1>3
  <2>2. CASE i # k + 1
    <3>1. i \in 1..k
      BY <2>2, <1>1
    <3> QED
      BY <3>1, <1>3, <1>9
  <2> QED
    BY <2>1, <2>2
<1>11. \A i \in 1..Len(w) : w[i] = g[n + 1 - Len(w) + i]
  <2>1. CASE k + 1 > MaxSamples
    <3>1. w = Tail(p) /\ Len(w) = k
      BY <2>1, <1>3, <1>4
    <3>2. ASSUME NEW i \in 1..k
          PROVE  w[i] = g[n + 1 - k + i]
      <4>1. i + 1 \in 1..(k + 1) /\ n - k + (i + 1) = n + 1 - k + i
        BY <1>1
      <4> QED
        BY <3>1, <4>1, <1>4, <1>10
    <3> HIDE DEF w
    <3> QED
      BY <3>1, <3>2
  <2>2. CASE ~(k + 1 > MaxSamples)
    <3>1. w = p /\ Len(w) = k + 1
      BY <2>2, <1>3
    <3>2. n + 1 - (k + 1) = n - k
      BY <1>1
    <3> HIDE DEF w
    <3> QED
      BY <3>1, <3>2, <1>10
  <2> QED
    BY <2>1, <2>2
<1> HIDE DEF w
<1>12. insert(buf, v) \in BufType
  BY <1>6, <1>7, <1>8 DEF BufType
<1>13. BufOf(insert(buf, v), g)
  <2>1. insert(buf, v).samples = w /\ insert(buf, v).stats = record(buf.stats, v)
    BY <1>6
  <2>2. Len(w) = IF Len(g) < MaxSamples THEN Len(g) ELSE MaxSamples
    BY <1>2, <1>8
  <2>3. \A i \in 1..Len(w) : w[i] = g[Len(g) - Len(w) + i]
    <3>1. Len(w) \in Nat
      BY <1>8
    <3>2. ASSUME NEW i \in 1..Len(w)
          PROVE  n + 1 - Len(w) + i = Len(g) - Len(w) + i
      BY <3>1, <1>1, <1>2
    <3> QED
      BY <3>2, <1>11
  <2>4. record(buf.stats, v).prev = g[Len(g)]
    BY <1>2, <1>7
  <2> QED
    BY <2>1, <2>2, <2>3, <2>4, <1>2, <1>7, <1>b, <1>12 DEF BufOf
<1> QED
  BY <1>13 DEF g

(* What a buffer of h shows is the end of h.                               *)
LEMMA BufIsTail ==
  ASSUME NEW buf, NEW h, BufOf(buf, h)
  PROVE  IsTail(buf.samples, h) /\ StatsOf(buf.stats, h) /\ AverageOf(buf.stats, h)
<1> DEFINE n == Len(h)
           s == buf.samples
           k == Len(s)
           m == n - k
           t == SubSeq(h, m + 1, n)
<1>1. /\ h \in Seq(Int) /\ s \in Seq(Int) /\ n \in Nat /\ k \in Nat
      /\ MaxSamples \in Nat \ {0}
  BY StateAssumption DEF BufOf, BufType
<1>2. /\ k = (IF n < MaxSamples THEN n ELSE MaxSamples)
      /\ \A i \in 1..k : s[i] = h[m + i]
  BY DEF BufOf
<1>3. m \in 0..n
  BY <1>1, <1>2
<1>a. \A i \in (m + 1)..n : h[i] \in Int
  BY <1>1, <1>3, ElementOfSeq
<1>4. /\ t \in Seq(Int)
      /\ Len(t) = IF m + 1 <= n THEN n - (m + 1) + 1 ELSE 0
      /\ \A i \in 1 .. n - (m + 1) + 1 : t[i] = h[m + 1 + i - 1]
  <2>1. m + 1 \in Int /\ n \in Int
    BY <1>1, <1>3
  <2> HIDE DEF n, m
  <2> QED
    BY <1>a, <2>1, SubSeqProperties
<1> HIDE DEF n, s, k, t
<1>5. Len(t) = k
  BY <1>1, <1>2, <1>4
<1>6. \A i \in 1..k : t[i] = s[i]
  <2> SUFFICES ASSUME NEW i \in 1..k
               PROVE  t[i] = s[i]
    OBVIOUS
  <2>1. i \in 1 .. n - (m + 1) + 1 /\ m + 1 + i - 1 = m + i
    BY <1>1
  <2> QED
    BY <2>1, <1>2, <1>4
<1>7. t = s
  <2>1. \A a, b \in Seq(Int) : (Len(a) = Len(b) /\ \A i \in 1..Len(a) : a[i] = b[i]) => a = b
    BY SeqEqual
  <2> QED
    BY <2>1, <1>1, <1>4, <1>5, <1>6 DEF k
<1>8. AverageOf(buf.stats, h)
  <2> SUFFICES ASSUME h # <<>>, Len(h) <= CountCap
               PROVE  avg(buf.stats) = Total(h) \div Len(h)
    BY DEF AverageOf
  <2>1. Total(h) = buf.stats.sum
    BY <1>1, TotalIsSum DEF BufOf
  <2>2. buf.stats.count = Len(h) /\ Len(h) # 0
    BY <1>1, StateAssumption, EmptySeq DEF BufOf, StatsOf, n
  <2> QED
    BY <2>1, <2>2 DEF avg
<1> QED
  BY <1>2, <1>3, <1>7, <1>8 DEF IsTail, BufOf, n, s, k, t
-----------------------------------------------------------------------------
(***************************************************************************)
(* The updates of the battery and of the thermal state.                    *)
(***************************************************************************)

(* BatteryUpdater::update: what each field becomes.                        *)
LEMMA BatteryUpdate ==
  ASSUME NEW s \in BatType, NEW h, BufOf(s.samples, h), NEW cached \in BOOLEAN,
         NEW bix, bix.ok \in BOOLEAN, bix.ok => bix.v \in BixType,
         NEW bst, bst.ok \in BOOLEAN, bst.ok => bst.v \in BstType
  PROVE  LET u == battery_update(s, cached, bix, bst)
         IN  /\ u \in BatType
             /\ u.bst_success = bst.ok
             /\ u.bst = IF bst.ok THEN bst.v ELSE s.bst
             /\ u.bix_success = IF cached THEN s.bix_success ELSE bix.ok
             /\ u.bix = IF ~cached /\ bix.ok THEN bix.v ELSE s.bix
             /\ u.samples = IF bst.ok THEN insert(s.samples, bst.v.remaining) ELSE s.samples
             /\ u.t_min = IF bst.ok THEN Count(s.t_min) ELSE s.t_min
<1> DEFINE p == IF cached THEN s ELSE poll_bix(s, bix)
           q == poll_bst(p, bst)
           u == record_bst(q)
<1>1. /\ p \in BatType
      /\ p.bix_success = IF cached THEN s.bix_success ELSE bix.ok
      /\ p.bix = IF ~cached /\ bix.ok THEN bix.v ELSE s.bix
      /\ p.samples = s.samples /\ p.t_min = s.t_min /\ p.bst = s.bst
  BY DEF poll_bix, BatType
<1> HIDE DEF p
<1>2. /\ q \in BatType /\ q.bst_success = bst.ok
      /\ q.bst = IF bst.ok THEN bst.v ELSE s.bst
      /\ q.bix_success = p.bix_success /\ q.bix = p.bix
      /\ q.samples = s.samples /\ q.t_min = s.t_min
  BY <1>1 DEF poll_bst, BatType
<1> HIDE DEF q
<1>3. CASE bst.ok
  <2>1. q.bst = bst.v /\ bst.v.remaining \in Int
    BY <1>2, <1>3 DEF BstType
  <2>2. insert(s.samples, bst.v.remaining) \in BufType
    BY <2>1, InsertKeeps DEF BufOf
  <2>3. Count(s.t_min) \in Nat
    BY StateAssumption DEF Count, BatType
  <2>4. u = [q EXCEPT !.samples = insert(s.samples, bst.v.remaining),
                      !.t_min = Count(s.t_min)]
    BY <1>2, <1>3, <2>1 DEF record_bst, BatType
  <2>5. u \in BatType
    BY <1>2, <2>2, <2>3, <2>4 DEF BatType
  <2>6. /\ u.bst_success = q.bst_success /\ u.bst = q.bst
        /\ u.bix_success = q.bix_success /\ u.bix = q.bix
        /\ u.samples = insert(s.samples, bst.v.remaining)
        /\ u.t_min = Count(s.t_min)
    BY <1>2, <2>4 DEF BatType
  <2> QED
    BY <1>1, <1>2, <1>3, <2>5, <2>6 DEF battery_update, p, q
<1>4. CASE ~bst.ok
  <2>1. u = q
    BY <1>2, <1>4 DEF record_bst
  <2> QED
    BY <1>1, <1>2, <1>4, <2>1 DEF battery_update, p, q
<1> QED
  BY <1>3, <1>4

(* ThermalUpdater::update: what each field becomes.                        *)
LEMMA ThermalUpdate ==
  ASSUME NEW s \in ThmType,
         NEW ht, BufOf(s.temps, ht), NEW hr, BufOf(s.rpms, hr),
         NEW r, \A c \in ThermalCalls : r[c].ok \in BOOLEAN /\ (r[c].ok => r[c].v \in Int)
  PROVE  LET u == thermal_update(s, r)
         IN  /\ u \in ThmType
             /\ u.skin_temp = IF r["temp"].ok THEN r["temp"].v ELSE s.skin_temp
             /\ u.temps = IF r["temp"].ok THEN insert(s.temps, r["temp"].v) ELSE s.temps
             /\ u.temp_success = r["temp"].ok
             /\ u.rpm = IF r["rpm"].ok THEN r["rpm"].v ELSE s.rpm
             /\ u.rpms = IF r["rpm"].ok THEN insert(s.rpms, as_u32(r["rpm"].v)) ELSE s.rpms
             /\ u.rpm_success = r["rpm"].ok
             /\ u.bounds = IF r["min_rpm"].ok /\ r["max_rpm"].ok
                           THEN [min |-> r["min_rpm"].v, max |-> r["max_rpm"].v]
                           ELSE s.bounds
             /\ u.bounds_success = (r["min_rpm"].ok /\ r["max_rpm"].ok)
             /\ u.levels = IF r["on"].ok /\ r["ramping"].ok /\ r["max"].ok
                           THEN [on |-> r["on"].v, ramping |-> r["ramping"].v,
                                 max |-> r["max"].v]
                           ELSE s.levels
             /\ u.levels_success = (r["on"].ok /\ r["ramping"].ok /\ r["max"].ok)
<1> DEFINE temps == IF r["temp"].ok THEN insert(s.temps, r["temp"].v) ELSE s.temps
           rpms == IF r["rpm"].ok THEN insert(s.rpms, as_u32(r["rpm"].v)) ELSE s.rpms
           bounds == IF r["min_rpm"].ok /\ r["max_rpm"].ok
                     THEN [min |-> r["min_rpm"].v, max |-> r["max_rpm"].v] ELSE s.bounds
           levels == IF r["on"].ok /\ r["ramping"].ok /\ r["max"].ok
                     THEN [on |-> r["on"].v, ramping |-> r["ramping"].v, max |-> r["max"].v]
                     ELSE s.levels
           temp == IF r["temp"].ok THEN r["temp"].v ELSE s.skin_temp
           rpm == IF r["rpm"].ok THEN r["rpm"].v ELSE s.rpm
           t == Count(s.t)
           bok == r["min_rpm"].ok /\ r["max_rpm"].ok
           lok == r["on"].ok /\ r["ramping"].ok /\ r["max"].ok
           u == thermal_update(s, r)
<1>1. \A c \in {"temp", "rpm", "min_rpm", "max_rpm", "on", "ramping", "max"} :
        r[c].ok \in BOOLEAN /\ (r[c].ok => r[c].v \in Int)
  BY DEF ThermalCalls
<1>2. temps \in BufType
  BY <1>1, InsertKeeps DEF BufOf
<1>3. rpms \in BufType
  <2>1. r["rpm"].ok => as_u32(r["rpm"].v) \in Int
    BY <1>1 DEF as_u32
  <2> QED
    BY <2>1, <1>1, InsertKeeps DEF BufOf
<1>4. bounds \in [min : Int, max : Int] /\ levels \in LevelsType
  BY <1>1 DEF ThmType, LevelsType
<1>5. temp \in Int /\ rpm \in Int /\ t \in Nat
  BY <1>1, StateAssumption DEF ThmType, Count
<1>6. bok \in BOOLEAN /\ lok \in BOOLEAN /\ r["temp"].ok \in BOOLEAN /\ r["rpm"].ok \in BOOLEAN
  BY <1>1
<1>7. u = [s EXCEPT !.skin_temp = temp, !.temps = temps, !.temp_success = r["temp"].ok,
                    !.thresholds_success = TRUE, !.rpm = rpm, !.rpms = rpms,
                    !.rpm_success = r["rpm"].ok, !.bounds = bounds, !.bounds_success = bok,
                    !.levels = levels, !.levels_success = lok, !.t = t]
  BY DEF thermal_update, ThmType
<1> HIDE DEF temps, rpms, bounds, levels, temp, rpm, t, u, bok, lok
<1>8. u \in ThmType
  BY <1>2, <1>3, <1>4, <1>5, <1>6, <1>7, ZenonT(60) DEF ThmType
<1>9. /\ u.skin_temp = temp /\ u.temps = temps /\ u.temp_success = r["temp"].ok
      /\ u.rpm = rpm /\ u.rpms = rpms /\ u.rpm_success = r["rpm"].ok
      /\ u.bounds = bounds /\ u.bounds_success = bok
      /\ u.levels = levels /\ u.levels_success = lok
  BY <1>7 DEF ThmType
<1> QED
  BY <1>8, <1>9 DEF temps, rpms, bounds, levels, temp, rpm, u, bok, lok

-----------------------------------------------------------------------------
(***************************************************************************)
(* The mock's ramps.                                                       *)
(***************************************************************************)

(* Reading a ramp keeps where it is heading.                               *)
LEMMA ValueType ==
  ASSUME NEW r \in RampType
  PROVE  value(r) \in RampType /\ value(r).target = r.target
<1>1. /\ r.target \in Int /\ r.start_value \in Int /\ r.elapsed \in Nat
      /\ r.duration \in Nat
  BY DEF RampType
<1>2. \A a \in Int, b \in Nat, d \in Nat \ {0} : (a * b) \div d \in Int
  OBVIOUS
<1>3. ~(r.duration <= 0) =>
        ((r.target - r.start_value) * r.elapsed) \div r.duration \in Int
  BY <1>1, <1>2
<1>4. (IF r.duration <= 0 THEN r.target
       ELSE r.start_value + ((r.target - r.start_value) * r.elapsed) \div r.duration) \in Int
  BY <1>1, <1>3
<1> QED
  BY <1>4 DEF value, RampType

(* A new target is taken over at once.                                     *)
LEMMA SetTargetType ==
  ASSUME NEW r \in RampType, NEW t \in Int, NEW d \in Nat
  PROVE  set_target(r, t, d) \in RampType /\ set_target(r, t, d).target = t
BY DEF set_target, RampType

(* Time does not change where a ramp is heading.                           *)
LEMMA AgeType ==
  ASSUME NEW r \in RampType, NEW secs \in Nat
  PROVE  age(r, secs) \in RampType /\ age(r, secs).target = r.target
BY DEF age, RampType

(* The temperature ramp stays a ramp when it is polled.                     *)
LEMMA PollType ==
  ASSUME NEW r \in RampType, NEW r2, poll(r, r2)
  PROVE  r2 \in RampType
<1>1. CASE settled(r)
  <2>1. PICK target \in LoadTargets \cup IdleTargets :
               r2 = value(set_target(r, target, TEMP_RAMP_SECS))
    BY <1>1 DEF poll
  <2>2. target \in Int /\ TEMP_RAMP_SECS \in Nat
    BY MockAssumption DEF TEMP_RAMP_SECS
  <2> QED
    BY <2>1, <2>2, SetTargetType, ValueType
<1>2. CASE ~settled(r)
  BY <1>2, ValueType DEF poll
<1> QED
  BY <1>1, <1>2

(* The fan's target is a speed and a time.                                 *)
LEMMA FanTargetType ==
  ASSUME NEW temp
  PROVE  fan_target(temp)[1] \in Int /\ fan_target(temp)[2] \in Nat
BY DEF fan_target, MaxRpm
-----------------------------------------------------------------------------
(***************************************************************************)
(* The UCSI snapshot.                                                      *)
(***************************************************************************)

Command == {"GetCapability", "GetConnectorCapability", "GetConnectorStatus"}

\* One part of a snapshot: the answer unwrapped, checked and decoded.
Part(a, c) == LET m == ucsi_command(a) IN IF m.ok THEN decode(m.v, c) ELSE m

(* A good answer is decoded to the command it answers.                     *)
LEMMA GoodPart ==
  ASSUME NEW c \in Command
  PROVE  Part(Good(c), c) = Value(c)
<1>1. ucsi_command(Good(c)) = Value(Completed(c))
  BY DEF Good, Delivered, ucsi_command, normalize_acpi_response, MAILBOX_LEN
<1>2. validate(Completed(c)) = Value(UCSI_VERSION_1_2)
  BY DEF Completed, validate
<1>3. message_in(Completed(c), RESPONSE_DATA_LEN(c)) = Value(c)
  BY <1>2 DEF Completed, message_in, Value
<1>4. decode(Completed(c), c) = Value(c)
  BY <1>3 DEF decode, Value, Command
<1> QED
  BY <1>1, <1>4 DEF Part, Value

(* Whatever the firmware answers, an answer left over included, a part     *)
(* that is accepted is the answer to the command it was decoded for: no    *)
(* two commands have responses of the same length.                         *)
LEMMA AcceptedPart ==
  ASSUME NEW c \in Command, NEW left \in {"none"} \cup Command,
         NEW a \in Faulty(c, left), Part(a, c).ok
  PROVE  Part(a, c).v = c
<1> DEFINE good == Good(c)
<1>1. /\ good = [single_buffer |-> TRUE, len |-> 48, ffa |-> 0, mailbox |-> Completed(c)]
      /\ Completed(c) = [version |-> 288, cci |-> {"cmd_complete"},
                         data_len |-> RESPONSE_DATA_LEN(c), payload |-> c]
  BY DEF Good, Delivered, Completed, MAILBOX_LEN, UCSI_VERSION_1_2
<1>2. ASSUME NEW m, m.version = 288, "cmd_complete" \in m.cci, "error" \notin m.cci,
             "not_supported" \notin m.cci
      PROVE  decode(m, c).ok => m.data_len = RESPONSE_DATA_LEN(c) /\ decode(m, c).v = m.payload
  BY <1>2 DEF decode, message_in, validate, Value, MailboxError, UCSI_VERSION_1_2
<1>3. CASE a = [good EXCEPT !.single_buffer = FALSE]
  <2>1. a.single_buffer = FALSE
    BY <1>1, <1>3
  <2> QED
    BY <2>1 DEF Part, ucsi_command, MailboxError
<1>4. CASE a = [good EXCEPT !.len = 8]
  <2>1. a.len = 8 /\ a.single_buffer = TRUE
    BY <1>1, <1>4
  <2> QED
    BY <2>1 DEF Part, ucsi_command, MailboxError, normalize_acpi_response,
                MAILBOX_LEN, FFA_ENVELOPE_LEN
<1>5. CASE a = [good EXCEPT !.len = FFA_ENVELOPE_LEN]
  <2>1. a.len = 144 /\ a.single_buffer = TRUE /\ a.ffa = 0 /\ a.mailbox = Completed(c)
    BY <1>1, <1>5 DEF FFA_ENVELOPE_LEN
  <2>2. ucsi_command(a) = Value(Completed(c))
    BY <2>1 DEF ucsi_command, normalize_acpi_response, MAILBOX_LEN, FFA_ENVELOPE_LEN
  <2>3. Part(a, c) = decode(Completed(c), c)
    BY <2>2 DEF Part, Value
  <2>4. decode(Completed(c), c).v = Completed(c).payload
    BY <2>3, <1>1, <1>2
  <2> QED
    BY <2>3, <2>4, <1>1
<1>6. CASE a = [good EXCEPT !.len = FFA_ENVELOPE_LEN, !.ffa = 1]
  <2>1. a.len = 144 /\ a.single_buffer = TRUE /\ a.ffa = 1
    BY <1>1, <1>6 DEF FFA_ENVELOPE_LEN
  <2> QED
    BY <2>1 DEF Part, ucsi_command, MailboxError, normalize_acpi_response,
                MAILBOX_LEN, FFA_ENVELOPE_LEN
<1>7. ASSUME NEW m, a = [good EXCEPT !.mailbox = m]
      PROVE  Part(a, c) = decode(m, c)
  <2>1. a.len = 48 /\ a.single_buffer = TRUE /\ a.mailbox = m
    BY <1>1, <1>7
  <2> QED
    BY <2>1 DEF Part, ucsi_command, Value, normalize_acpi_response, MAILBOX_LEN,
                FFA_ENVELOPE_LEN
<1>a. good.mailbox = Completed(c)
  BY <1>1
<1> HIDE DEF good
<1>8. ASSUME NEW bits \in {{"error"}, {"not_supported", "cmd_complete"}, {}},
             a = [good EXCEPT !.mailbox.cci = bits]
      PROVE  FALSE
  <2> DEFINE m == [Completed(c) EXCEPT !.cci = bits]
  <2>1. a = [good EXCEPT !.mailbox = m]
    BY <1>a, <1>8
  <2>2. m.cci = bits
    BY <1>1
  <2>3. ~validate(m).ok
    BY <2>2 DEF validate, MailboxError, Value
  <2> HIDE DEF m
  <2>4. ~decode(m, c).ok
    BY <2>3 DEF decode, message_in
  <2> QED
    BY <2>1, <2>4, <1>7
<1>9. CASE a = [good EXCEPT !.mailbox.version = 512]
  <2> DEFINE m == [Completed(c) EXCEPT !.version = 512]
  <2>1. a = [good EXCEPT !.mailbox = m]
    BY <1>a, <1>9
  <2>2. m.cci = {"cmd_complete"} /\ m.version = 512
    BY <1>1
  <2>3. validate(m) = Value(512)
    BY <2>2 DEF validate
  <2> HIDE DEF m
  <2>4. ~decode(m, c).ok
    BY <2>3 DEF decode, message_in, MailboxError, Value, UCSI_VERSION_1_2
  <2> QED
    BY <2>1, <2>4, <1>7
<1>10. CASE c # "GetConnectorCapability" /\ a = [good EXCEPT !.mailbox.payload = "Malformed"]
  <2> DEFINE m == [Completed(c) EXCEPT !.payload = "Malformed"]
  <2>1. a = [good EXCEPT !.mailbox = m]
    BY <1>a, <1>10
  <2>2. m.cci = {"cmd_complete"} /\ m.version = 288 /\ m.payload = "Malformed"
        /\ m.data_len = RESPONSE_DATA_LEN(c)
    BY <1>1
  <2>3. validate(m) = Value(288)
    BY <2>2 DEF validate
  <2>4. message_in(m, RESPONSE_DATA_LEN(c)) = Value("Malformed")
    BY <2>2, <2>3 DEF message_in, Value, UCSI_VERSION_1_2
  <2> HIDE DEF m
  <2>5. ~decode(m, c).ok
    BY <2>4, <1>10 DEF decode, MailboxError, Value
  <2> QED
    BY <2>1, <2>5, <1>7
<1>11. CASE left # "none" /\ a = Good(left)
  <2>1. left \in Command
    BY <1>11
  <2>2. /\ a = [single_buffer |-> TRUE, len |-> 48, ffa |-> 0, mailbox |-> Completed(left)]
        /\ Completed(left) = [version |-> 288, cci |-> {"cmd_complete"},
                              data_len |-> RESPONSE_DATA_LEN(left), payload |-> left]
    BY <1>11 DEF Good, Delivered, Completed, MAILBOX_LEN, UCSI_VERSION_1_2
  <2>3. Part(a, c) = decode(Completed(left), c)
    BY <2>2 DEF Part, ucsi_command, Value, normalize_acpi_response, MAILBOX_LEN
  <2>4. /\ Completed(left).data_len = RESPONSE_DATA_LEN(c)
        /\ decode(Completed(left), c).v = Completed(left).payload
    BY <2>2, <2>3, <1>2
  <2>5. RESPONSE_DATA_LEN(left) = RESPONSE_DATA_LEN(c)
    BY <2>2, <2>4
  <2>6. left = c
    BY <2>1, <2>5 DEF RESPONSE_DATA_LEN, Command
  <2> QED
    BY <2>2, <2>3, <2>4, <2>6
<1> QED
  BY <1>3, <1>4, <1>5, <1>6, <1>8, <1>9, <1>10, <1>11 DEF Faulty, good

(* An answer of a snapshot is good or one of the faults.                   *)
LEMMA AnswersType ==
  ASSUME NEW left \in {"none"} \cup Command, NEW answers \in Answers(left),
         NEW i \in 1..3
  PROVE  /\ Commands[i] \in Command
         /\ \/ answers[i] = Good(Commands[i])
            \/ \E l \in {"none"} \cup Command : answers[i] \in Faulty(Commands[i], l)
<1>1. \A k \in 1..3 : Commands[k] \in Command
  BY DEF Commands, Command
<1> DEFINE all == [j \in 1..3 |-> Good(Commands[j])]
<1>2. CASE answers = all
  BY <1>1, <1>2
<1>3. ASSUME NEW k \in 1..3, NEW l \in {"none"} \cup Command,
             NEW f \in Faulty(Commands[k], l), answers = [all EXCEPT ![k] = f]
      PROVE  \/ answers[i] = Good(Commands[i])
             \/ \E m \in {"none"} \cup Command : answers[i] \in Faulty(Commands[i], m)
  <2>1. i = k => answers[i] \in Faulty(Commands[i], l)
    BY <1>3
  <2>2. i # k => answers[i] = Good(Commands[i])
    BY <1>3
  <2> QED
    BY <2>1, <2>2
<1>4. \A k \in 1..3 : (IF k = 1 THEN left ELSE Commands[k - 1]) \in {"none"} \cup Command
  <2> SUFFICES ASSUME NEW k \in 1..3, k # 1
               PROVE  Commands[k - 1] \in Command
    OBVIOUS
  <2>1. k - 1 \in 1..3
    OBVIOUS
  <2> QED
    BY <2>1, <1>1
<1>5. \/ answers = all
      \/ \E k \in 1..3 : \E f \in Faulty(Commands[k], IF k = 1 THEN left ELSE Commands[k - 1]) :
           answers = [all EXCEPT ![k] = f]
  BY DEF Answers
<1> QED
  BY <1>1, <1>2, <1>3, <1>4, <1>5

(* A snapshot that succeeds consists of the answers to its three commands, *)
(* and one whose answers are all good succeeds.                            *)
LEMMA SnapshotParts ==
  ASSUME NEW left \in {"none"} \cup Command, NEW answers \in Answers(left)
  PROVE  LET r == get_snapshot_ucsi(answers)
         IN  /\ r.ok => r.v = Commands
             /\ (\A i \in 1..3 : answers[i] = Good(Commands[i])) => r.ok
<1> DEFINE part(i) == Part(answers[i], Commands[i])
           r == get_snapshot_ucsi(answers)
<1>1. r = IF \A i \in 1..3 : part(i).ok THEN Value([i \in 1..3 |-> part(i).v])
          ELSE part(CHOOSE i \in 1..3 : ~part(i).ok /\ \A j \in 1..(i - 1) : part(j).ok)
  BY DEF get_snapshot_ucsi, Part
<1>2. ASSUME NEW i \in 1..3, part(i).ok
      PROVE  part(i).v = Commands[i]
  <2>1. CASE answers[i] = Good(Commands[i])
    BY <2>1, AnswersType, GoodPart DEF Value
  <2>2. CASE \E l \in {"none"} \cup Command : answers[i] \in Faulty(Commands[i], l)
    BY <1>2, <2>2, AnswersType, AcceptedPart
  <2> QED
    BY <2>1, <2>2, AnswersType
<1>3. ASSUME \A i \in 1..3 : answers[i] = Good(Commands[i])
      PROVE  \A i \in 1..3 : part(i).ok
  BY <1>3, AnswersType, GoodPart DEF Value
<1> HIDE DEF part
<1>4. (\A i \in 1..3 : part(i).ok) => r = Value(Commands)
  <2> SUFFICES ASSUME \A i \in 1..3 : part(i).ok
               PROVE  r = Value(Commands)
    OBVIOUS
  <2>1. [i \in 1..3 |-> part(i).v] = [i \in 1..3 |-> Commands[i]]
    BY <1>2
  <2>2. [i \in 1..3 |-> Commands[i]] = Commands
    BY DEF Commands
  <2> QED
    BY <1>1, <2>1, <2>2
<1>5. (\E i \in 1..3 : ~part(i).ok) => ~r.ok
  <2> SUFFICES ASSUME \E i \in 1..3 : ~part(i).ok
               PROVE  ~r.ok
    OBVIOUS
  <2> DEFINE first(i) == ~part(i).ok /\ \A j \in 1..(i - 1) : part(j).ok
  <2>1. \E i \in 1..3 : first(i)
    <3>1. CASE ~part(1).ok
      <4>1. 1..(1 - 1) = {}
        OBVIOUS
      <4> QED
        BY <3>1, <4>1
    <3>2. CASE part(1).ok /\ ~part(2).ok
      <4>1. 1..(2 - 1) = {1}
        OBVIOUS
      <4> QED
        BY <3>2, <4>1
    <3>3. CASE part(1).ok /\ part(2).ok
      <4>1. ~part(3).ok
        <5>1. 1..3 = {1, 2, 3}
          OBVIOUS
        <5> QED
          BY <3>3, <5>1
      <4>2. 1..(3 - 1) = {1, 2}
        OBVIOUS
      <4> QED
        BY <3>3, <4>1, <4>2
    <3> QED
      BY <3>1, <3>2, <3>3
  <2>2. first(CHOOSE i \in 1..3 : first(i))
    BY <2>1
  <2>3. r = part(CHOOSE i \in 1..3 : first(i))
    BY <1>1
  <2> QED
    BY <2>2, <2>3
<1> QED
  BY <1>3, <1>4, <1>5 DEF Value

(* The mailbox keeps the answer to some command.                           *)
LEMMA LeftType ==
  ASSUME NEW left \in {"none"} \cup Command, NEW answers \in Answers(left)
  PROVE  Left(answers, left) \in {"none"} \cup Command
<1> DEFINE end == IF get_snapshot_ucsi(answers).ok THEN 3
                  ELSE CHOOSE k \in 1..3 : answers[k] # Good(Commands[k])
<1>1. end \in 1..3
  <2>1. ~get_snapshot_ucsi(answers).ok => \E k \in 1..3 : answers[k] # Good(Commands[k])
    BY SnapshotParts
  <2>2. (\E k \in 1..3 : answers[k] # Good(Commands[k])) =>
          (CHOOSE k \in 1..3 : answers[k] # Good(Commands[k])) \in 1..3
    OBVIOUS
  <2> QED
    BY <2>1, <2>2
<1>2. \A k \in 1..3 : Commands[k] \in Command
  BY DEF Commands, Command
<1>3. Left(answers, left) =
        IF end = 1 /\ left # "none" /\ answers[1] = Good(left) THEN left
        ELSE IF end > 1 /\ answers[end] = Good(Commands[end - 1]) THEN Commands[end - 1]
        ELSE Commands[end]
  BY DEF Left
<1> HIDE DEF end
<1>4. end > 1 => end - 1 \in 1..3
  BY <1>1
<1> QED
  BY <1>1, <1>2, <1>3, <1>4
-----------------------------------------------------------------------------
(***************************************************************************)
(* Every action keeps the invariant.  First what a part depends on.        *)
(***************************************************************************)

(* The battery part depends on the battery, its samples and two calls.     *)
LEMMA BatFrame ==
  ASSUME BatInv, bat' = bat, hist'.bat = hist.bat,
         last'["bst"] = last["bst"], last'["bix"] = last["bix"]
  PROVE  BatInv'
BY DEF BatInv

(* The thermal part depends on the thermal state, its samples and its calls. *)
LEMMA ThmFrame ==
  ASSUME ThmInv, thm' = thm, hist'.temp = hist.temp, hist'.rpm = hist.rpm,
         \A c \in ThermalCalls : last'[c] = last[c]
  PROVE  ThmInv'
BY DEF ThmInv, ThermalCalls

(* The figures depend on the battery's and the thermal state.              *)
LEMMA KnownFrame ==
  ASSUME KnownInv, UNCHANGED <<bat, thm, known>>
  PROVE  KnownInv'
BY DEF KnownInv

(* The clock part depends on the clock and its four calls.                 *)
LEMMA RtcFrame ==
  ASSUME RtcInv, rtc' = rtc,
         \A c \in {"timestamp", "caps", "ac", "dc"} : last'[c] = last[c]
  PROVE  RtcInv'
BY DEF RtcInv

(* The USB-C part depends on the snapshot, the mailbox and its call.       *)
LEMMA UcsiFrame ==
  ASSUME UcsiInv, ucsi' = ucsi, mailbox' = mailbox, last'["ucsi"] = last["ucsi"]
  PROVE  UcsiInv'
BY DEF UcsiInv

(* The mock part depends on the mock and on the thermal state.             *)
LEMMA MockFrame ==
  ASSUME MockInv, UNCHANGED <<thm, source, mockVars>>
  PROVE  MockInv'
BY DEF MockInv, mockVars

(* An answer is Ok of the value read, or the error.                        *)
LEMMA AnswerType ==
  ASSUME NEW call, NEW failing, NEW v
  PROVE  LET a == Answer(call, failing, v)
         IN  /\ a.ok = (call \notin failing) /\ a.ok \in BOOLEAN
             /\ a.ok => a = Ok(v) /\ a.v = v
BY DEF Answer, Ok, Err

(* The mock never fails.                                                   *)
LEMMA MockDoesNotFail ==
  ASSUME source = "mock", NEW calls, NEW failing \in Failing(calls)
  PROVE  failing = {}
BY DEF Failing

(* The invariant holds when the program starts.                            *)
LEMMA PanelsInit == Init => PanelsInv
<1> SUFFICES ASSUME Init
             PROVE  PanelsInv
  OBVIOUS
<1>1. HistInv
  BY DEF Init, HistInv
<1>2. FlagInv
  BY DEF Init, FlagInv
<1>3. LogInv
  BY LogAssumption DEF Init, LogInv
<1>4. MockInv
  <2>1. /\ Ramp(IDLE_TEMP) \in RampType /\ Ramp(0) \in RampType
        /\ [charging |-> TRUE, capacity |-> 0] \in [charging : BOOLEAN, capacity : Nat]
        /\ NoRpm \in Int /\ IDLE_TEMP \in Int
    BY DEF Ramp, RampType, IDLE_TEMP, NoRpm
  <2>2. thm.levels_success = FALSE
    BY DEF Init, ThermalState
  <2> QED
    BY <2>1, <2>2 DEF Init, MockInit, MockInv
<1>5. BatInv
  <2>1. SampleBuf \in BufType
    BY EmptyBuf DEF BufOf
  <2>2. BatteryState \in BatType
    BY <2>1 DEF BatteryState, BatType, BstType, BixType, NoBst, NoBix
  <2>3. /\ BatteryState.samples = SampleBuf /\ BatteryState.t_min = 0
        /\ BatteryState.bst_success = FALSE /\ BatteryState.bix_success = FALSE
        /\ SampleBuf.stats.count = 0
    BY DEF BatteryState, SampleBuf, SessionStats
  <2>4. bat = BatteryState /\ hist.bat = <<>> /\ last["bst"].ok = FALSE /\ last["bix"].ok = FALSE
    BY DEF Init, Calls, Err
  <2> QED
    BY <2>2, <2>3, <2>4, EmptyBuf DEF BatInv
<1>6. ThmInv
  <2>1. SampleBuf \in BufType
    BY EmptyBuf DEF BufOf
  <2>2. ThermalState \in ThmType
    BY <2>1 DEF ThermalState, ThmType, LevelsType
  <2>3. /\ ThermalState.temps = SampleBuf /\ ThermalState.rpms = SampleBuf
        /\ ThermalState.temp_success = FALSE /\ ThermalState.rpm_success = FALSE
        /\ ThermalState.bounds_success = FALSE
    BY DEF ThermalState
  <2>4. /\ thm = ThermalState /\ hist.temp = <<>> /\ hist.rpm = <<>>
        /\ last["temp"].ok = FALSE /\ last["rpm"].ok = FALSE /\ last["min_rpm"].ok = FALSE
    BY DEF Init, Calls, Err
  <2> QED
    BY <2>2, <2>3, <2>4, EmptyBuf DEF ThmInv
<1>7. RtcInv
  BY DEF Init, RtcInv, RtcState, TimerData, NotFetched, render_panel
<1>8. UcsiInv
  BY DEF Init, UcsiInv, UcsiState, NotFetched
<1>9. KnownInv
  BY DEF Init, KnownInv, BatteryState, ThermalState
<1> QED
  BY <1>1, <1>2, <1>3, <1>4, <1>5, <1>6, <1>7, <1>8, <1>9 DEF PanelsInv

(* BatteryUpdater::update keeps the invariant.                             *)
LEMMA BatteryStep == PanelsInv /\ PollBattery => PanelsInv'
<1> SUFFICES ASSUME PanelsInv, PollBattery
             PROVE  PanelsInv'
  OBVIOUS
<1> USE DEF PanelsInv
<1>1. source' = source /\ source \in {"mock", "ec"} /\ bix_cached \in BOOLEAN
  BY DEF PollBattery, Step, FlagInv
<1>2. bst_state' \in [charging : BOOLEAN, capacity : Nat]
  <2>1. bst_state \in [charging : BOOLEAN, capacity : Nat] /\ RATE \in Nat /\ MAX_CAPACITY \in Nat
    BY MockAssumption DEF MockInv
  <2>2. next_bst(bst_state) \in [charging : BOOLEAN, capacity : Nat]
    <3>1. CASE bst_state.charging
      BY <2>1, <3>1 DEF next_bst
    <3>2. CASE ~bst_state.charging
      <4> DEFINE left == IF bst_state.capacity > RATE THEN bst_state.capacity - RATE ELSE 0
      <4>1. left \in Nat /\ (left < RATE) \in BOOLEAN
        BY <2>1
      <4>2. next_bst(bst_state) = [charging |-> left < RATE, capacity |-> left]
        BY <3>2 DEF next_bst
      <4> HIDE DEF left
      <4> QED
        BY <4>1, <4>2
    <3> QED
      BY <3>1, <3>2
  <2> QED
    BY <2>1, <2>2 DEF PollBattery, get_bst
<1>3. PICK failing \in Failing({"bst", "bix"}), ecbst \in EcBst :
        battery_polled(failing, ecbst)
  BY DEF PollBattery
<1> DEFINE reading == IF source = "mock"
                      THEN [charging |-> bst_state'.charging, rate |-> 3839,
                            remaining |-> bst_state'.capacity]
                      ELSE ecbst
           bst == Answer("bst", failing, reading)
           bix == Answer("bix", failing, get_bix)
<1>4. reading \in BstType /\ get_bix \in BixType
  <2>1. EcBst \subseteq BstType
    BY PanelsAssumption DEF BstType
  <2>2. [charging |-> bst_state'.charging, rate |-> 3839,
         remaining |-> bst_state'.capacity] \in BstType
    BY <1>2 DEF BstType
  <2>3. get_bix \in BixType
    BY DEF get_bix, BixType
  <2> QED
    BY <2>1, <2>2, <2>3
<1> HIDE DEF reading
<1>5. /\ bst.ok \in BOOLEAN /\ (bst.ok => bst = Ok(bst.v) /\ bst.v \in BstType)
      /\ bix.ok \in BOOLEAN /\ (bix.ok => bix = Ok(bix.v) /\ bix.v \in BixType)
  BY <1>4, AnswerType
<1>6. /\ bat' = battery_update(bat, bix_cached, bix, bst)
      /\ bix_cached' = (bix_cached \/ bix.ok)
      /\ last' = [last EXCEPT !["bst"] = bst, !["bix"] = IF bix_cached THEN @ ELSE bix]
      /\ hist' = [hist EXCEPT !.bat = IF bst.ok THEN Append(@, bst.v.remaining) ELSE @]
      /\ known' = [known EXCEPT !.bst = IF bst.ok THEN bst.v ELSE @,
                                !.bix = IF ~bix_cached /\ bix.ok THEN bix.v ELSE @]
      /\ Warn((IF bix_cached THEN <<>> ELSE Warned("bix", failing)) \o Warned("bst", failing))
  BY <1>3 DEF battery_polled, reading
<1> HIDE DEF bst, bix
<1>7. HistInv' /\ hist'.temp = hist.temp /\ hist'.rpm = hist.rpm
      /\ hist'.bat = IF bst.ok THEN Append(hist.bat, bst.v.remaining) ELSE hist.bat
  BY <1>6 DEF HistInv
<1>8. /\ last' = [c \in Calls |-> last'[c]]
      /\ last'["bst"] = bst /\ last'["bix"] = IF bix_cached THEN last["bix"] ELSE bix
      /\ \A c \in Calls \ {"bst", "bix"} : last'[c] = last[c]
  <2>1. "bst" \in Calls /\ "bix" \in Calls
    BY DEF Calls
  <2>2. last = [c \in Calls |-> last[c]]
    BY DEF FlagInv
  <2> QED
    BY <1>6, <2>1, <2>2
<1>9. FlagInv'
  <2>1. bix_cached' \in BOOLEAN
    BY <1>1, <1>5, <1>6
  <2>2. rtc_caps_cached' = rtc_caps_cached /\ rtc_caps_cached \in BOOLEAN
    BY DEF PollBattery, FlagInv
  <2> QED
    BY <1>1, <1>8, <2>1, <2>2 DEF FlagInv
<1>10. LogInv'
  <2>1. Warned("bix", failing) \in Seq(Entry) /\ Warned("bst", failing) \in Seq(Entry)
    BY WarnedType DEF Entry, Calls
  <2>2. (IF bix_cached THEN <<>> ELSE Warned("bix", failing)) \o Warned("bst", failing)
          \in Seq(Entry)
    BY <2>1, ConcatProperties, EmptySeq
  <2> QED
    BY <1>6, <2>2, WarnKeeps
<1>11. MockInv'
  BY <1>1, <1>2 DEF PollBattery, MockInv
<1>12. BatInv' /\ KnownInv'
  <2>1. bat \in BatType /\ BufOf(bat.samples, hist.bat)
    BY DEF BatInv
  <2>2. /\ bat' \in BatType
        /\ bat'.bst_success = bst.ok
        /\ bat'.bst = IF bst.ok THEN bst.v ELSE bat.bst
        /\ bat'.bix_success = IF bix_cached THEN bat.bix_success ELSE bix.ok
        /\ bat'.bix = IF ~bix_cached /\ bix.ok THEN bix.v ELSE bat.bix
        /\ bat'.samples = IF bst.ok THEN insert(bat.samples, bst.v.remaining) ELSE bat.samples
        /\ bat'.t_min = IF bst.ok THEN Count(bat.t_min) ELSE bat.t_min
    <3>1. /\ bst.ok \in BOOLEAN /\ (bst.ok => bst.v \in BstType)
          /\ bix.ok \in BOOLEAN /\ (bix.ok => bix.v \in BixType)
      BY <1>5
    <3>2. bat' = battery_update(bat, bix_cached, bix, bst) /\ bix_cached \in BOOLEAN
      BY <1>1, <1>6
    <3> QED
      BY <2>1, <3>1, <3>2, BatteryUpdate
  <2>3. BufOf(bat'.samples, hist'.bat)
    <3>1. CASE bst.ok
      <4>1. bst.v.remaining \in Int
        BY <1>5, <3>1 DEF BstType
      <4> QED
        BY <1>7, <2>1, <2>2, <3>1, <4>1, InsertKeeps
    <3>2. CASE ~bst.ok
      BY <1>7, <2>1, <2>2, <3>2
    <3> QED
      BY <3>1, <3>2
  <2>4. bat'.t_min = bat'.samples.stats.count
    <3>1. \A b, v : insert(b, v).stats.count = Count(b.stats.count)
      BY DEF insert, record
    <3>2. bat.t_min = bat.samples.stats.count
      BY DEF BatInv
    <3> QED
      BY <2>2, <3>1, <3>2
  <2>5. bat'.bst_success = last'["bst"].ok /\ (bat'.bst_success => last'["bst"] = Ok(bat'.bst))
    BY <1>5, <1>8, <2>2
  <2>6. bat'.bix_success = last'["bix"].ok /\ (bat'.bix_success => last'["bix"] = Ok(bat'.bix))
    BY <1>1, <1>5, <1>8, <2>2 DEF BatInv
  <2>7. KnownInv'
    BY <1>6, <2>2 DEF KnownInv, PollBattery
  <2> QED
    BY <2>2, <2>3, <2>4, <2>5, <2>6, <2>7 DEF BatInv
<1>13. ThmInv'
  <2>1. \A c \in ThermalCalls : last'[c] = last[c]
    BY <1>8 DEF ThermalCalls, Calls
  <2>2. thm' = thm
    BY DEF PollBattery
  <2> QED
    BY <1>7, <2>1, <2>2, ThmFrame
<1>14. RtcInv'
  <2>1. \A c \in {"timestamp", "caps", "ac", "dc"} : last'[c] = last[c]
    BY <1>8 DEF Calls
  <2>2. rtc' = rtc
    BY DEF PollBattery
  <2> QED
    BY <2>1, <2>2, RtcFrame
<1>15. UcsiInv'
  <2>1. last'["ucsi"] = last["ucsi"]
    BY <1>8 DEF Calls
  <2>2. ucsi' = ucsi /\ mailbox' = mailbox
    BY DEF PollBattery
  <2> QED
    BY <2>1, <2>2, UcsiFrame
<1> QED
  BY <1>7, <1>9, <1>10, <1>11, <1>12, <1>13, <1>14, <1>15
(* ThermalUpdater::update keeps the invariant.                             *)
LEMMA ThermalStep == PanelsInv /\ PollThermal => PanelsInv'
<1> SUFFICES ASSUME PanelsInv, PollThermal
             PROVE  PanelsInv'
  OBVIOUS
<1> USE DEF PanelsInv
<1>1. source' = source /\ source \in {"mock", "ec"} /\ set_rpm' = set_rpm /\ set_rpm \in Int
  BY DEF PollThermal, Step, FlagInv, MockInv
<1>2. /\ temp_ramp' \in RampType /\ fan_ramp' \in RampType /\ current_temp_c' \in Int
      /\ (source = "mock" /\ set_rpm = NoRpm) =>
           fan_ramp'.target = fan_target(current_temp_c')[1]
  <2>1. CASE source = "mock"
    <3>1. get_temperature /\ get_rpm
      BY <2>1 DEF PollThermal
    <3>2. temp_ramp' \in RampType
      BY <3>1, PollType DEF get_temperature, MockInv
    <3>3. current_temp_c' \in Int
      BY <3>1, <3>2 DEF get_temperature, RampType
    <3> DEFINE t == fan_target(current_temp_c')
    <3>4. t[1] \in Int /\ t[2] \in Nat
      BY FanTargetType
    <3>5. fan_ramp \in RampType
      BY DEF MockInv
    <3>6. fan_ramp' = IF set_rpm # NoRpm THEN fan_ramp
                      ELSE value(set_target(fan_ramp, t[1], t[2]))
      BY <3>1 DEF get_rpm
    <3> HIDE DEF t
    <3>7. /\ value(set_target(fan_ramp, t[1], t[2])) \in RampType
          /\ value(set_target(fan_ramp, t[1], t[2])).target = t[1]
      BY <3>4, <3>5, SetTargetType, ValueType
    <3>8. fan_ramp' \in RampType /\ (set_rpm = NoRpm => fan_ramp'.target = t[1])
      BY <3>5, <3>6, <3>7
    <3> QED
      BY <3>2, <3>3, <3>8 DEF t
  <2>2. CASE source # "mock"
    BY <2>2 DEF PollThermal, MockInv
  <2> QED
    BY <2>1, <2>2
<1> DEFINE F(ef) == IF source = "mock" THEN MockFan ELSE ef
           V(et, er, ef) ==
             [temp |-> IF source = "mock" THEN current_temp_c' ELSE et,
              rpm |-> IF source = "mock" THEN rpm_reading ELSE er,
              min_rpm |-> F(ef).min_rpm, max_rpm |-> F(ef).max_rpm,
              on |-> F(ef).on, ramping |-> F(ef).ramping, max |-> F(ef).max]
           R(f, v) == [c \in ThermalCalls |-> Answer(c, f, v[c])]
           B(f) == IF {"min_rpm", "max_rpm"} \cap f = {} THEN <<>> ELSE <<"bounds">>
           L(f) == IF {"on", "ramping", "max"} \cap f = {} THEN <<>> ELSE <<"levels">>
<1>3. PICK failing \in Failing(ThermalCalls), et \in EcTemps, er \in EcRpms, ef \in EcFans :
        LET v == V(et, er, ef)
            r == R(failing, v)
        IN  /\ thm' = thermal_update(thm, r)
            /\ last' = [c \in Calls |-> IF c \in ThermalCalls THEN r[c] ELSE last[c]]
            /\ hist' = [hist EXCEPT !.temp = IF r["temp"].ok THEN Append(@, v.temp) ELSE @,
                                    !.rpm = IF r["rpm"].ok THEN Append(@, as_u32(v.rpm)) ELSE @]
            /\ known' = [known EXCEPT
                           !.temp = IF "temp" \in failing THEN @ ELSE v.temp,
                           !.rpm = IF "rpm" \in failing THEN @ ELSE v.rpm,
                           !.bounds = IF B(failing) # <<>> THEN @
                                      ELSE [min |-> F(ef).min_rpm, max |-> F(ef).max_rpm],
                           !.levels = IF L(failing) # <<>> THEN @
                                      ELSE [on |-> F(ef).on, ramping |-> F(ef).ramping,
                                            max |-> F(ef).max]]
            /\ Warn(Warned("temp", failing) \o Warned("rpm", failing) \o B(failing) \o L(failing))
  BY DEF PollThermal
<1> DEFINE fan == F(ef)
           v == V(et, er, ef)
           r == R(failing, v)
<1>a. /\ fan.min_rpm \in Int /\ fan.max_rpm \in Int
      /\ fan.on \in Int /\ fan.ramping \in Int /\ fan.max \in Int
  <2>1. CASE source = "mock"
    BY <2>1 DEF MockFan, MaxRpm, get_threshold
  <2>2. CASE source # "mock"
    BY <2>2, PanelsAssumption
  <2> QED
    BY <2>1, <2>2
<1>4. \A c \in ThermalCalls : v[c] \in Int
  <2>1. et \in Int /\ er \in Int
    BY PanelsAssumption
  <2>2. rpm_reading \in Int
    BY <1>1, <1>2 DEF rpm_reading, RampType
  <2>3. /\ v["temp"] \in Int /\ v["rpm"] \in Int /\ v["min_rpm"] \in Int /\ v["max_rpm"] \in Int
        /\ v["on"] \in Int /\ v["ramping"] \in Int /\ v["max"] \in Int
    <3> HIDE DEF F
    <3> QED
      BY <1>2, <1>a, <2>1, <2>2
  <2> HIDE DEF v
  <2> QED
    BY <2>3 DEF ThermalCalls
<1>5. \A c \in ThermalCalls : r[c] = Answer(c, failing, v[c])
  OBVIOUS
<1>6. /\ thm' = thermal_update(thm, r)
      /\ last' = [c \in Calls |-> IF c \in ThermalCalls THEN r[c] ELSE last[c]]
      /\ hist' = [hist EXCEPT !.temp = IF r["temp"].ok THEN Append(@, v.temp) ELSE @,
                              !.rpm = IF r["rpm"].ok THEN Append(@, as_u32(v.rpm)) ELSE @]
      /\ known' = [known EXCEPT
                     !.temp = IF "temp" \in failing THEN @ ELSE v.temp,
                     !.rpm = IF "rpm" \in failing THEN @ ELSE v.rpm,
                     !.bounds = IF B(failing) # <<>> THEN @
                                ELSE [min |-> fan.min_rpm, max |-> fan.max_rpm],
                     !.levels = IF L(failing) # <<>> THEN @
                                ELSE [on |-> fan.on, ramping |-> fan.ramping, max |-> fan.max]]
      /\ Warn(Warned("temp", failing) \o Warned("rpm", failing) \o B(failing) \o L(failing))
  BY <1>3
<1>7. source = "mock" => v["temp"] = current_temp_c'
  OBVIOUS
<1>8. /\ v["on"] = fan.on /\ v["ramping"] = fan.ramping /\ v["max"] = fan.max
      /\ v["min_rpm"] = fan.min_rpm /\ v["max_rpm"] = fan.max_rpm
  OBVIOUS
<1>b. source = "mock" =>
        [on |-> fan.on, ramping |-> fan.ramping, max |-> fan.max] = get_threshold
  BY DEF MockFan, get_threshold
<1> HIDE DEF r, v, fan, F
<1>9. \A c \in ThermalCalls : /\ r[c].ok = (c \notin failing) /\ r[c].ok \in BOOLEAN
                              /\ r[c].ok => r[c] = Ok(v[c]) /\ r[c].v = v[c] /\ r[c].v \in Int
  BY <1>4, <1>5, AnswerType
<1>10. /\ HistInv' /\ hist'.bat = hist.bat
       /\ hist'.temp = IF r["temp"].ok THEN Append(hist.temp, v["temp"]) ELSE hist.temp
       /\ hist'.rpm = IF r["rpm"].ok THEN Append(hist.rpm, as_u32(v["rpm"])) ELSE hist.rpm
  BY <1>6 DEF HistInv
<1>11. /\ last' = [c \in Calls |-> last'[c]]
       /\ \A c \in ThermalCalls : last'[c] = r[c]
       /\ \A c \in Calls \ ThermalCalls : last'[c] = last[c]
  <2>1. ThermalCalls \subseteq Calls
    BY DEF ThermalCalls, Calls
  <2> QED
    BY <1>6, <2>1
<1>12. FlagInv'
  BY <1>1, <1>11 DEF PollThermal, FlagInv
<1>13. LogInv'
  <2>1. /\ Warned("temp", failing) \in Seq(Entry) /\ Warned("rpm", failing) \in Seq(Entry)
    BY WarnedType DEF Entry, Calls
  <2>2. B(failing) \in Seq(Entry) /\ L(failing) \in Seq(Entry)
    <3>1. "bounds" \in Entry /\ "levels" \in Entry
      BY DEF Entry
    <3> QED
      BY <3>1
  <2> HIDE DEF B, L
  <2>3. \A a, b \in Seq(Entry) : a \o b \in Seq(Entry)
    BY ConcatProperties
  <2>4. Warned("temp", failing) \o Warned("rpm", failing) \o B(failing) \o L(failing)
          \in Seq(Entry)
    BY <2>1, <2>2, <2>3
  <2> QED
    BY <1>6, <2>4, WarnKeeps
<1>14. thm \in ThmType /\ BufOf(thm.temps, hist.temp) /\ BufOf(thm.rpms, hist.rpm)
  BY DEF ThmInv
<1>15. /\ thm' \in ThmType
       /\ thm'.skin_temp = IF r["temp"].ok THEN r["temp"].v ELSE thm.skin_temp
       /\ thm'.temps = IF r["temp"].ok THEN insert(thm.temps, r["temp"].v) ELSE thm.temps
       /\ thm'.temp_success = r["temp"].ok
       /\ thm'.rpm = IF r["rpm"].ok THEN r["rpm"].v ELSE thm.rpm
       /\ thm'.rpms = IF r["rpm"].ok THEN insert(thm.rpms, as_u32(r["rpm"].v)) ELSE thm.rpms
       /\ thm'.rpm_success = r["rpm"].ok
       /\ thm'.bounds = IF r["min_rpm"].ok /\ r["max_rpm"].ok
                        THEN [min |-> r["min_rpm"].v, max |-> r["max_rpm"].v]
                        ELSE thm.bounds
       /\ thm'.bounds_success = (r["min_rpm"].ok /\ r["max_rpm"].ok)
       /\ thm'.levels = IF r["on"].ok /\ r["ramping"].ok /\ r["max"].ok
                        THEN [on |-> r["on"].v, ramping |-> r["ramping"].v, max |-> r["max"].v]
                        ELSE thm.levels
       /\ thm'.levels_success = (r["on"].ok /\ r["ramping"].ok /\ r["max"].ok)
  BY <1>6, <1>9, <1>14, ThermalUpdate, ZenonT(60)
<1>16. \A c \in {"temp", "rpm", "min_rpm", "max_rpm", "on", "ramping", "max"} :
         /\ r[c].ok \in BOOLEAN /\ (r[c].ok => r[c] = Ok(v[c]) /\ r[c].v = v[c] /\ r[c].v \in Int)
         /\ last'[c] = r[c]
  BY <1>9, <1>11 DEF ThermalCalls
<1>17. ThmInv'
  <2>1. BufOf(thm'.temps, hist'.temp)
    BY <1>10, <1>14, <1>15, <1>16, InsertKeeps
  <2>2. BufOf(thm'.rpms, hist'.rpm)
    <3>1. r["rpm"].ok => as_u32(r["rpm"].v) \in Int
      BY <1>16 DEF as_u32
    <3> QED
      BY <3>1, <1>10, <1>14, <1>15, <1>16, InsertKeeps
  <2>3. /\ thm'.temp_success = last'["temp"].ok
        /\ thm'.temp_success => last'["temp"] = Ok(thm'.skin_temp)
    BY <1>15, <1>16
  <2>4. /\ thm'.rpm_success = last'["rpm"].ok
        /\ thm'.rpm_success => last'["rpm"] = Ok(thm'.rpm)
    BY <1>15, <1>16
  <2>6. thm'.bounds_success = (last'["min_rpm"].ok /\ last'["max_rpm"].ok)
    BY <1>15, <1>16
  <2>5. thm'.bounds_success =>
          last'["min_rpm"] = Ok(thm'.bounds.min) /\ last'["max_rpm"] = Ok(thm'.bounds.max)
    BY <1>15, <1>16
  <2> QED
    BY <1>15, <2>1, <2>2, <2>3, <2>4, <2>5, <2>6 DEF ThmInv
<1>18. MockInv'
  <2>1. ASSUME source = "mock"
        PROVE  /\ thm'.levels = get_threshold
               /\ thm'.skin_temp = current_temp_c'
    <3>1. \A c \in ThermalCalls : r[c].ok
      BY <2>1, <1>9, MockDoesNotFail
    <3>2. r["on"].ok /\ r["ramping"].ok /\ r["max"].ok /\ r["temp"].ok
      BY <3>1 DEF ThermalCalls
    <3>3. thm'.levels = [on |-> fan.on, ramping |-> fan.ramping, max |-> fan.max]
      BY <3>2, <1>8, <1>15, <1>16
    <3> QED
      BY <2>1, <3>2, <3>3, <1>7, <1>b, <1>15, <1>16
  <2>2. bst_state' = bst_state
    BY DEF PollThermal
  <2>3. (source = "mock" /\ set_rpm = NoRpm) =>
           fan_ramp'.target = fan_target(thm'.skin_temp)[1]
    BY <2>1, <1>2
  <2> QED
    BY <2>1, <2>2, <2>3, <1>1, <1>2 DEF MockInv
<1>22. KnownInv'
  <2>1. \A c \in {"temp", "rpm", "min_rpm", "max_rpm", "on", "ramping", "max"} :
          r[c].ok = (c \notin failing)
    BY <1>9 DEF ThermalCalls
  <2>2. /\ (B(failing) = <<>>) = (r["min_rpm"].ok /\ r["max_rpm"].ok)
        /\ (L(failing) = <<>>) = (r["on"].ok /\ r["ramping"].ok /\ r["max"].ok)
    <3>1. <<"bounds">> # <<>> /\ <<"levels">> # <<>>
      OBVIOUS
    <3>2. CASE "min_rpm" \in failing \/ "max_rpm" \in failing
      BY <2>1, <3>1, <3>2
    <3>3. CASE ~("min_rpm" \in failing \/ "max_rpm" \in failing)
      BY <2>1, <3>1, <3>3
    <3> QED
      BY <3>2, <3>3
  <2> HIDE DEF B, L
  <2>3. known' = [bst |-> bat.bst, bix |-> bat.bix, temp |-> thm'.skin_temp,
                  rpm |-> thm'.rpm, bounds |-> thm'.bounds, levels |-> thm'.levels]
    <3>1. thm'.skin_temp = IF "temp" \in failing THEN thm.skin_temp ELSE v["temp"]
      BY <1>15, <1>16, <2>1
    <3>2. thm'.rpm = IF "rpm" \in failing THEN thm.rpm ELSE v["rpm"]
      BY <1>15, <1>16, <2>1
    <3>3. thm'.bounds = IF B(failing) # <<>> THEN thm.bounds
                        ELSE [min |-> fan.min_rpm, max |-> fan.max_rpm]
      BY <1>8, <1>15, <1>16, <2>2
    <3>4. thm'.levels = IF L(failing) # <<>> THEN thm.levels
                        ELSE [on |-> fan.on, ramping |-> fan.ramping, max |-> fan.max]
      BY <1>8, <1>15, <1>16, <2>2
    <3> QED
      BY <1>6, <3>1, <3>2, <3>3, <3>4 DEF KnownInv
  <2>4. bat' = bat
    BY DEF PollThermal
  <2> QED
    BY <2>3, <2>4 DEF KnownInv
<1>19. BatInv'
  <2>1. last'["bst"] = last["bst"] /\ last'["bix"] = last["bix"]
    BY <1>11 DEF ThermalCalls, Calls
  <2>2. bat' = bat
    BY DEF PollThermal
  <2> QED
    BY <1>10, <2>1, <2>2, BatFrame
<1>20. RtcInv'
  <2>1. \A c \in {"timestamp", "caps", "ac", "dc"} : last'[c] = last[c]
    BY <1>11 DEF ThermalCalls, Calls
  <2>2. rtc' = rtc
    BY DEF PollThermal
  <2> QED
    BY <2>1, <2>2, RtcFrame
<1>21. UcsiInv'
  <2>1. last'["ucsi"] = last["ucsi"]
    BY <1>11 DEF ThermalCalls, Calls
  <2>2. ucsi' = ucsi /\ mailbox' = mailbox
    BY DEF PollThermal
  <2> QED
    BY <2>1, <2>2, UcsiFrame
<1> QED
  BY <1>10, <1>12, <1>13, <1>17, <1>18, <1>19, <1>20, <1>21, <1>22
(* RtcUpdater::update keeps the invariant.                                 *)
LEMMA RtcStep == PanelsInv /\ PollRtc => PanelsInv'
<1> SUFFICES ASSUME PanelsInv, PollRtc
             PROVE  PanelsInv'
  OBVIOUS
<1> USE DEF PanelsInv
<1>1. /\ source' = source /\ rtc_caps_cached \in BOOLEAN
      /\ UNCHANGED <<mailbox, bat, thm, sys, ucsi, bix_cached, hist, known, mockVars>>
  BY DEF PollRtc, Step, FlagInv
<1> DEFINE F == {"value", "wake_policy", "timer_status"}
           timer(c, failing, part) == [f \in F |->
                          IF f = part THEN Answer(c, failing, 0) ELSE Ok(0)]
           R(failing, part) ==
                [caps |-> Answer("caps", failing, 0),
                 timestamp |-> Answer("timestamp", failing, steps),
                 ac |-> timer("ac", failing, part), dc |-> timer("dc", failing, part)]
<1>2. PICK failing \in Failing({"caps", "timestamp", "ac", "dc"}), part \in F :
        LET r == R(failing, part)
        IN  /\ rtc' = rtc_update(rtc, rtc_caps_cached, r)
            /\ rtc_caps_cached' = (rtc_caps_cached \/ r.caps.ok)
            /\ last' = [last EXCEPT !["timestamp"] = r.timestamp,
                                    !["ac"] = Answer("ac", failing, 0),
                                    !["dc"] = Answer("dc", failing, 0),
                                    !["caps"] = IF rtc_caps_cached THEN @ ELSE r.caps]
            /\ Warn((IF rtc_caps_cached THEN <<>> ELSE Warned("caps", failing))
                     \o Warned("timestamp", failing)
                     \o (IF part = "value" THEN Warned("ac", failing) \o Warned("dc", failing)
                                           ELSE <<>>))
  BY DEF PollRtc
<1> DEFINE caps == Answer("caps", failing, 0)
           timestamp == Answer("timestamp", failing, steps)
           ac == Answer("ac", failing, 0)
           dc == Answer("dc", failing, 0)
<1>3. /\ rtc' = [capabilities |-> IF rtc_caps_cached THEN rtc.capabilities ELSE caps,
                 timestamp |-> timestamp,
                 ac |-> timer("ac", failing, part), dc |-> timer("dc", failing, part)]
      /\ rtc_caps_cached' = (rtc_caps_cached \/ caps.ok)
      /\ last' = [last EXCEPT !["timestamp"] = timestamp, !["ac"] = ac, !["dc"] = dc,
                              !["caps"] = IF rtc_caps_cached THEN @ ELSE caps]
  BY <1>2 DEF rtc_update
<1>4. caps.ok \in BOOLEAN
  BY AnswerType
<1>5. /\ render_panel(timer("ac", failing, part)) => ac.ok
      /\ render_panel(timer("dc", failing, part)) => dc.ok
  BY DEF render_panel
<1> HIDE DEF caps, timestamp, ac, dc, timer
<1>6. /\ last' = [c \in Calls |-> last'[c]]
      /\ last'["timestamp"] = timestamp /\ last'["ac"] = ac /\ last'["dc"] = dc
      /\ last'["caps"] = IF rtc_caps_cached THEN last["caps"] ELSE caps
      /\ \A c \in Calls \ {"timestamp", "ac", "dc", "caps"} : last'[c] = last[c]
  <2>1. {"timestamp", "ac", "dc", "caps"} \subseteq Calls
    BY DEF Calls
  <2>2. last = [c \in Calls |-> last[c]]
    BY DEF FlagInv
  <2> QED
    BY <1>3, <2>1, <2>2
<1>7. FlagInv'
  BY <1>1, <1>3, <1>4, <1>6 DEF FlagInv
<1>8. LogInv'
  <2>1. /\ Warned("caps", failing) \in Seq(Entry) /\ Warned("timestamp", failing) \in Seq(Entry)
        /\ Warned("ac", failing) \in Seq(Entry) /\ Warned("dc", failing) \in Seq(Entry)
    BY WarnedType DEF Entry, Calls
  <2>2. <<>> \in Seq(Entry) /\ \A a, b \in Seq(Entry) : a \o b \in Seq(Entry)
    BY ConcatProperties
  <2>3. (IF rtc_caps_cached THEN <<>> ELSE Warned("caps", failing))
          \o Warned("timestamp", failing)
          \o (IF part = "value" THEN Warned("ac", failing) \o Warned("dc", failing) ELSE <<>>)
          \in Seq(Entry)
    BY <2>1, <2>2
  <2> QED
    BY <1>2, <2>3, WarnKeeps
<1>9. RtcInv'
  <2>1. rtc'.timestamp = timestamp /\ rtc'.ac = timer("ac", failing, part)
        /\ rtc'.dc = timer("dc", failing, part)
        /\ rtc'.capabilities = IF rtc_caps_cached THEN rtc.capabilities ELSE caps
    BY <1>3
  <2>2. rtc'.capabilities.ok => last'["caps"] = rtc'.capabilities
    BY <1>6, <2>1 DEF RtcInv
  <2> QED
    BY <1>5, <1>6, <2>1, <2>2 DEF RtcInv
<1>10. HistInv' /\ MockInv'
  BY <1>1, MockFrame DEF HistInv
<1>11. BatInv' /\ ThmInv' /\ UcsiInv' /\ KnownInv'
  <2>1. \A c \in ThermalCalls \cup {"bst", "bix", "ucsi"} : last'[c] = last[c]
    BY <1>6 DEF ThermalCalls, Calls
  <2> QED
    BY <1>1, <2>1, BatFrame, ThmFrame, UcsiFrame, KnownFrame
<1> QED
  BY <1>7, <1>8, <1>9, <1>10, <1>11

(* UcsiUpdater::update keeps the invariant.                                *)
LEMMA UcsiStep == PanelsInv /\ PollUcsi => PanelsInv'
<1> SUFFICES ASSUME PanelsInv, PollUcsi
             PROVE  PanelsInv'
  OBVIOUS
<1> USE DEF PanelsInv
<1>1. /\ source' = source
      /\ UNCHANGED <<bat, thm, rtc, sys, bix_cached, rtc_caps_cached, log, hist, known,
                     mockVars>>
  BY DEF PollUcsi, Step
<1>2. mailbox \in {"none"} \cup Command /\ {Commands[i] : i \in 1..3} = Command
  BY DEF UcsiInv, Command, Commands
<1> DEFINE P(answers) == IF source = "ec" THEN get_snapshot_ucsi(answers)
                         ELSE IF get_snapshot(1) THEN Value(Commands)
                         ELSE MailboxError("Unsupported")
           R(answers) == IF P(answers).ok THEN Ok([at |-> steps, parts |-> P(answers).v]) ELSE Err
<1>3. PICK answers \in IF source = "ec" THEN Answers(mailbox) ELSE {<<>>} :
        /\ ucsi' = ucsi_update(ucsi, R(answers))
        /\ last' = [last EXCEPT !["ucsi"] = R(answers)]
        /\ mailbox' = IF source = "ec" THEN Left(answers, mailbox) ELSE mailbox
  BY DEF PollUcsi
<1> DEFINE r == R(answers)
<1>4. P(answers).ok => P(answers).v = Commands
  BY <1>2, <1>3, SnapshotParts DEF get_snapshot, Value
<1>5. r.ok => r.v.parts = Commands
  BY <1>4 DEF Ok, Err
<1>6. ucsi'.snapshot = r
  BY <1>3 DEF ucsi_update
<1> HIDE DEF r, R, P
<1>7. /\ last' = [c \in Calls |-> last'[c]] /\ last'["ucsi"] = r
      /\ \A c \in Calls \ {"ucsi"} : last'[c] = last[c]
  <2>1. "ucsi" \in Calls
    BY DEF Calls
  <2>2. last = [c \in Calls |-> last[c]]
    BY DEF FlagInv
  <2> QED
    BY <1>3, <2>1, <2>2 DEF r
<1>8. mailbox' \in {"none"} \cup Command
  BY <1>2, <1>3, LeftType
<1>9. UcsiInv'
  BY <1>2, <1>5, <1>6, <1>7, <1>8 DEF UcsiInv
<1>10. FlagInv' /\ HistInv' /\ LogInv'
  BY <1>1, <1>7 DEF FlagInv, HistInv, LogInv
<1>11. \A c \in ThermalCalls \cup {"bst", "bix", "timestamp", "caps", "ac", "dc"} :
         last'[c] = last[c]
  BY <1>7 DEF ThermalCalls, Calls
<1>12. BatInv' /\ ThmInv' /\ KnownInv'
  BY <1>1, <1>11, BatFrame, ThmFrame, KnownFrame
<1>13. RtcInv'
  BY <1>1, <1>11, RtcFrame
<1>14. MockInv'
  BY <1>1, MockFrame
<1> QED
  BY <1>9, <1>10, <1>12, <1>13, <1>14

(* A SetRpm command keeps the invariant.                                   *)
LEMMA CommandStep ==
  ASSUME PanelsInv, NEW rpm \in UserRpms, CommandRpm(rpm)
  PROVE  PanelsInv'
<1> USE DEF PanelsInv
<1>1. /\ source' = source
      /\ UNCHANGED <<mailbox, bat, rtc, sys, ucsi, bix_cached, rtc_caps_cached, last, hist,
                     known>>
  BY DEF CommandRpm, Step
<1>2. PICK failing \in Failing({"set_rpm"}) :
        /\ IF source = "mock" THEN SetRpm(rpm) ELSE UNCHANGED mockVars
        /\ thm' = [thm EXCEPT !.rpm_limit = rpm, !.rpm_set_success = failing = {}]
        /\ Warn(Warned("set_rpm", failing))
  BY DEF CommandRpm
<1>3. rpm \in Int /\ rpm # NoRpm
  BY PanelsAssumption
<1>4. /\ thm' \in ThmType
      /\ thm'.skin_temp = thm.skin_temp /\ thm'.temps = thm.temps
      /\ thm'.temp_success = thm.temp_success /\ thm'.rpm = thm.rpm
      /\ thm'.rpms = thm.rpms /\ thm'.rpm_success = thm.rpm_success
      /\ thm'.bounds = thm.bounds /\ thm'.bounds_success = thm.bounds_success
      /\ thm'.levels = thm.levels /\ thm'.levels_success = thm.levels_success
  <2>1. thm \in ThmType /\ (failing = {}) \in BOOLEAN
    BY DEF ThmInv
  <2> QED
    BY <1>2, <1>3, <2>1 DEF ThmType
<1>5. ThmInv'
  BY <1>1, <1>4 DEF ThmInv
<1>6. MockInv'
  BY <1>1, <1>2, <1>3, <1>4 DEF MockInv, SetRpm, mockVars
<1>7. LogInv'
  <2>1. Warned("set_rpm", failing) \in Seq(Entry)
    BY WarnedType DEF Entry
  <2> QED
    BY <1>2, <2>1, WarnKeeps
<1>8. HistInv' /\ FlagInv'
  BY <1>1 DEF HistInv, FlagInv
<1>9. BatInv' /\ RtcInv' /\ UcsiInv' /\ KnownInv'
  BY <1>1, <1>4, BatFrame, RtcFrame, UcsiFrame DEF KnownInv
<1> QED
  BY <1>5, <1>6, <1>7, <1>8, <1>9

(* The passing of time keeps the invariant.                                *)
LEMMA PauseStep ==
  ASSUME PanelsInv, NEW secs \in Seconds, Pause(secs)
  PROVE  PanelsInv'
<1> USE DEF PanelsInv
<1>1. /\ source' = source
      /\ UNCHANGED <<mailbox, bat, thm, rtc, sys, ucsi, bix_cached, rtc_caps_cached,
                     log, last, hist, known>>
  BY DEF Pause, Step
<1>2. secs \in Nat
  BY PanelsAssumption
<1>3. /\ temp_ramp' \in RampType /\ fan_ramp' \in RampType
      /\ fan_ramp'.target = fan_ramp.target
      /\ UNCHANGED <<bst_state, current_temp_c, set_rpm>>
  BY <1>2, AgeType DEF Pause, PassTime, MockInv
<1>4. MockInv'
  BY <1>1, <1>3 DEF MockInv
<1>5. HistInv' /\ FlagInv' /\ LogInv'
  BY <1>1 DEF HistInv, FlagInv, LogInv
<1>6. BatInv' /\ RtcInv' /\ UcsiInv' /\ ThmInv' /\ KnownInv'
  BY <1>1, BatFrame, RtcFrame, UcsiFrame, ThmFrame, KnownFrame
<1> QED
  BY <1>4, <1>5, <1>6

(* Every step keeps the invariant.                                         *)
LEMMA PanelsStep == PanelsInv /\ [Next]_vars => PanelsInv'
<1> SUFFICES ASSUME PanelsInv, [Next]_vars
             PROVE  PanelsInv'
  OBVIOUS
<1>1. ASSUME UNCHANGED <<source, bat, thm, rtc, ucsi, bix_cached, rtc_caps_cached,
                         mailbox, log, last, hist, known, mockVars>>
      PROVE  PanelsInv'
  <2>1. HistInv' /\ FlagInv' /\ LogInv'
    BY <1>1 DEF PanelsInv, HistInv, FlagInv, LogInv
  <2>2. BatInv' /\ RtcInv' /\ UcsiInv' /\ ThmInv' /\ MockInv' /\ KnownInv'
    BY <1>1, BatFrame, RtcFrame, UcsiFrame, ThmFrame, MockFrame, KnownFrame DEF PanelsInv
  <2> QED
    BY <2>1, <2>2 DEF PanelsInv
<1>2. CASE PollSystem
  BY <1>1, <1>2 DEF PollSystem, Step
<1>3. CASE UNCHANGED vars
  BY <1>1, <1>3 DEF vars, panelVars
<1> QED
  BY <1>2, <1>3, BatteryStep, ThermalStep, RtcStep, UcsiStep, CommandStep, PauseStep DEF Next

-----------------------------------------------------------------------------
(***************************************************************************)
(* The theorems.                                                           *)
(***************************************************************************)

(* The inductive invariant holds in every reachable state.                 *)
THEOREM PanelsInvariant == Spec => []PanelsInv
<1>1. Init => PanelsInv
  BY PanelsInit
<1>2. PanelsInv /\ [Next]_vars => PanelsInv'
  BY PanelsStep
<1> QED
  BY <1>1, <1>2, PTL DEF Spec

(* Whatever calls fail, every figure of the battery, the sensor and the    *)
(* fan is the newest good answer, bounds and levels each from one poll; a  *)
(* dot is green exactly when the calls it stands for were answered last    *)
(* time; and a green USB-C panel is a complete snapshot in the order of    *)
(* its commands.  Of the figures beside a dot that it does not stand for   *)
(* (BIX on the battery card, levels and the zone's temperature beside the  *)
(* Fan dot, bounds and levels on the thermal card) it says nothing more.   *)
THEOREM PanelsShowNewestAnswers == Spec => []ShownIsLatest
<1>1. PanelsInv => ShownIsLatest
  <2> SUFFICES ASSUME PanelsInv
               PROVE  ShownIsLatest
    OBVIOUS
  <2>1. Figures = known
    BY DEF PanelsInv, KnownInv, Figures, render_bix, thermal_card, render_fan_compact
  <2>2. /\ known.bst = bat.bst /\ known.bix = bat.bix /\ known.temp = thm.skin_temp
        /\ known.rpm = thm.rpm /\ known.bounds = thm.bounds
    BY DEF PanelsInv, KnownInv
  <2>3. /\ battery_card(bat).green <=> Answered("bst", known.bst)
        /\ render_bix(bat).green <=> Answered("bix", known.bix)
    BY <2>2 DEF PanelsInv, BatInv, battery_card, render_bix, Ok, Answered
  <2>4. /\ thm.temp_success <=> Answered("temp", known.temp)
        /\ thm.rpm_success <=> Answered("rpm", known.rpm)
        /\ thm.bounds_success <=>
             (Answered("min_rpm", known.bounds.min) /\ Answered("max_rpm", known.bounds.max))
    <3>1. /\ thm.temp_success = last["temp"].ok
          /\ thm.temp_success => last["temp"].ok /\ last["temp"].v = known.temp
      BY <2>2 DEF PanelsInv, ThmInv, Ok
    <3>2. /\ thm.rpm_success = last["rpm"].ok
          /\ thm.rpm_success => last["rpm"].ok /\ last["rpm"].v = known.rpm
      BY <2>2 DEF PanelsInv, ThmInv, Ok
    <3>3. /\ thm.bounds_success = (last["min_rpm"].ok /\ last["max_rpm"].ok)
          /\ thm.bounds_success =>
               /\ last["min_rpm"].ok /\ last["min_rpm"].v = known.bounds.min
               /\ last["max_rpm"].ok /\ last["max_rpm"].v = known.bounds.max
      BY <2>2 DEF PanelsInv, ThmInv, Ok
    <3> QED
      BY <3>1, <3>2, <3>3, Zenon DEF Answered
  <2>5. /\ thermal_card(thm).green <=>
             (Answered("temp", known.temp) /\ Answered("rpm", known.rpm))
        /\ render_sensor_compact(thm).green <=> Answered("temp", known.temp)
        /\ render_fan_compact(thm).green <=>
             (Answered("rpm", known.rpm)
              /\ Answered("min_rpm", known.bounds.min) /\ Answered("max_rpm", known.bounds.max))
        /\ render_cpu(sys, thm).temp_live <=> Answered("temp", known.temp)
    BY <2>4 DEF thermal_card, render_sensor_compact, render_fan_compact, render_cpu
  <2>6. /\ rtc_card(rtc).green => last["timestamp"] = rtc_card(rtc).value
        /\ rtc_render(rtc).time.green => last["timestamp"] = rtc_render(rtc).time.value
        /\ rtc_render(rtc).caps.green => last["caps"] = rtc_render(rtc).caps.value
        /\ rtc_render(rtc).ac => last["ac"].ok
        /\ rtc_render(rtc).dc => last["dc"].ok
    BY DEF PanelsInv, RtcInv, rtc_card, rtc_render, render_time_display, render_capabilities
  <2>7. ucsi_render(ucsi).green =>
          /\ last["ucsi"].ok /\ last["ucsi"].v = ucsi.snapshot.v
          /\ ucsi.snapshot.v.parts = Commands
    BY DEF PanelsInv, UcsiInv, ucsi_render
  <2> QED
    BY <2>1, <2>3, <2>5, <2>6, <2>7 DEF ShownIsLatest
<1> QED
  BY <1>1, PanelsInvariant, PTL

(* Every chart is the end of the readings given to it, whatever its size,  *)
(* and the session statistics are those of all readings.                   *)
THEOREM ChartsShowTheEnd == Spec => []WindowIsTail
<1>1. PanelsInv => WindowIsTail
  <2> SUFFICES ASSUME PanelsInv
               PROVE  WindowIsTail
    OBVIOUS
  <2>1. /\ render_bst_chart(bat).chart = bat.samples.samples
        /\ render_sensor_compact(thm).chart = thm.temps.samples
        /\ render_fan_compact(thm).chart = thm.rpms.samples
    BY DEF render_bst_chart, render_sensor_compact, render_fan_compact
  <2>2. BufOf(bat.samples, hist.bat) /\ bat.t_min = bat.samples.stats.count
    BY DEF PanelsInv, BatInv
  <2>3. BufOf(thm.temps, hist.temp) /\ BufOf(thm.rpms, hist.rpm)
    BY DEF PanelsInv, ThmInv
  <2> QED
    BY <2>1, <2>2, <2>3, BufIsTail DEF WindowIsTail
<1> QED
  BY <1>1, PanelsInvariant, PTL

(* The log panel is as full as it can be and, unscrolled, ends with the     *)
(* newest warning, for every capacity and every number of rows.            *)
THEOREM LogPanelIsCurrent == Spec => []LogShowsNewest
<1>1. PanelsInv => LogShowsNewest
  BY LogPanel DEF PanelsInv
<1> QED
  BY <1>1, PanelsInvariant, PTL

(* The zone named on the Thermal tab is the one the mock's fan is heading  *)
(* for, at every temperature.                                              *)
THEOREM ZoneNamesTheFan == Spec => []ZoneMatchesFan
<1>1. PanelsInv => ZoneMatchesFan
  <2> SUFFICES ASSUME PanelsInv, source = "mock", set_rpm = NoRpm, thm.levels_success
               PROVE  ZoneRpm(render_fan_compact(thm).fan) = fan_ramp.target
    BY DEF ZoneMatchesFan
  <2>1. thm.levels = get_threshold /\ fan_ramp.target = fan_target(thm.skin_temp)[1]
    BY DEF PanelsInv, MockInv
  <2>2. render_fan_compact(thm).fan = fan_zone(thm.skin_temp, get_threshold)
    BY <2>1 DEF render_fan_compact
  <2>3. thm.skin_temp \in Int
    BY DEF PanelsInv, ThmInv, ThmType
  <2>4. \A temp \in Int : ZoneRpm(fan_zone(temp, get_threshold)) = fan_target(temp)[1]
    BY DEF ZoneRpm, fan_zone, get_threshold, fan_target
  <2> QED
    BY <2>1, <2>2, <2>3, <2>4
<1> QED
  BY <1>1, PanelsInvariant, PTL
=============================================================================

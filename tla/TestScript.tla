----------------------------- MODULE TestScript -----------------------------
(***************************************************************************)
(* Running a directory of EC test scripts: each file is parsed and its     *)
(* statements executed in order against one source; rows are counted, the  *)
(* counts of the files add up to the exit status.  The source is the ACPI  *)
(* one, the Windows class driver (its thermal and battery methods go to a  *)
(* mock) or the mock.                                                      *)
(*                                                                         *)
(* The firmware behind the source is external: it keeps what was set and   *)
(* may answer any call with a fault, having carried the call out or not.   *)
(***************************************************************************)
EXTENDS ScriptLang

CONSTANTS Directory,  \* for each file, the contents it can have
          Texts,      \* statements a script can contain
          OnDk        \* the fan-on threshold at the start, in deciKelvin

\* run_path refuses a directory without a script; a file is lines of tokens.
ASSUME DirectoryAssumption ==
  /\ Len(Directory) \in Nat \ {0}
  /\ \A i \in 1..Len(Directory) : \A content \in Directory[i] : content \in Seq(Seq(Token))

ASSUME ScriptAssumption ==
  /\ OnDk \in 0..(U32 - 161)
  \* numbers, and the timestamp in a buffer, are numbers
  /\ \A t \in Texts :
       /\ Len(t.projection) \in Nat /\ Len(t.args) \in Nat
       /\ \A i \in 1..Len(t.args) : t.args[i].kind \in {"num", "buffer"} => t.args[i].v \in Int

VARIABLES source,     \* "acpi", "windows" or "mock"
          fw,         \* what the firmware, or the mock, has stored
          file, stage,
          lines,      \* of the statements left in the file; after a parse
                      \* error, the line it names
          env,        \* variables bound by let
          passed, failed, total_failed, failed_files,
          exit,
          row,        \* history: the last row and the call behind it
          starts,     \* history: where those statements really start
          bad_rows,   \* history: the files with a failed row
          captured    \* history: the stored threshold a variable was read from

history == <<row, starts, bad_rows, captured>>
vars == <<source, fw, file, stage, lines, env, passed, failed, total_failed, failed_files,
          exit, history>>

NoRpm == -1

\* The statements of scripts that parse; a sleep has no call.
Statements == {parse_stmt(t).v : t \in {u \in Texts : u.form # "sleep" /\ parse_stmt(u).ok}}

Unit == [kind |-> "unit"]
Num(n) == [kind |-> "number", n |-> n]
Bool(b) == [kind |-> "bool", b |-> b]
Struct(f) == [kind |-> "struct", f |-> f]

-----------------------------------------------------------------------------
(* Values: conversions, projections and verbs.                             *)

\* bst_to_value and its siblings; v is what the source returned.
to_value(method, v) ==
  LET n == Num(v)
      flag(i) == Bool((v \div 2^i) % 2 = 1)
      wrapped == Struct([k \in {"0", "value"} |-> Num(v * 100)])
  IN  CASE method \in {"get_temperature", "get_rpm", "get_min_rpm", "get_max_rpm",
                       "get_threshold"} -> n
        [] method \in {"get_bst", "get_bix"} -> Struct([k \in DOMAIN v |-> Num(v[k] * 100)])
        [] method = "get_capabilities" ->
             Struct([realtime_implemented |-> flag(2), get_wake_status_supported |-> flag(4)])
        [] method = "get_real_time" ->
             Struct([unix_timestamp |-> Num(v * 100),
                     datetime |-> Struct([unix_timestamp |-> Num(v * 100)])])
        [] method = "get_wake_status" ->
             Struct([timer_expired |-> flag(0), timer_triggered_wake |-> flag(1)])
        [] method \in {"get_expired_timer_wake_policy", "get_timer_value"} -> wrapped
        [] OTHER -> Unit

\* project: walk the path, one field at a time.
project(value, path) ==
  LET step(cur, seg) ==
        IF ~cur.ok THEN cur
        ELSE IF cur.v.kind # "struct" THEN Err("cannot project")
        ELSE IF seg \notin DOMAIN cur.v.f THEN Err("no field") ELSE Ok(cur.v.f[seg])
      walk[i \in 0..Len(path)] == IF i = 0 THEN Ok(value) ELSE step(walk[i - 1], path[i])
  IN  walk[Len(path)]

\* HashMap::insert: a let binds its name, over an earlier binding.
insert(vs, name, v) == [x \in DOMAIN vs \cup {name} |-> IF x = name THEN v ELSE vs[x]]

resolve(op, vs) ==
  CASE op.kind = "num" -> Ok(Num(op.v))
    [] op.kind = "bool" -> Ok(Bool(op.v))
    [] OTHER -> IF op.v \in DOMAIN vs THEN Ok(vs[op.v]) ELSE Err("undefined variable")

\* num_arg and u32_arg: the argument a setter is called with, in hundredths.
num_arg(op, vs) ==
  LET v == resolve(op, vs)
  IN  IF ~v.ok THEN v
      ELSE IF v.v.kind # "number" THEN Err("expected number") ELSE Ok(v.v.n)

u32_arg(op, vs) ==
  LET n == num_arg(op, vs)
  IN  IF n.ok /\ (n.v < 0 \/ n.v > (U32 - 1) * 100) THEN Err("out of u32 range")
      ELSE IF n.ok THEN Ok(n.v \div 100) ELSE n

Compare(verb, a, b) ==
  CASE verb = "eq" -> a = b [] verb = "ne" -> a # b [] verb = "gt" -> a > b
    [] verb = "ge" -> a >= b [] verb = "lt" -> a < b [] verb = "le" -> a <= b

apply_value_verb(v, value, vs) ==
  LET rhs == resolve(v.operand, vs)
  IN  IF v.verb = "in_range"
      THEN /\ value.kind = "number" /\ value.n >= v.operand.lo
           /\ IF v.operand.inclusive THEN value.n <= v.operand.hi ELSE value.n < v.operand.hi
      ELSE /\ rhs.ok
           /\ \/ /\ value.kind = "bool" /\ rhs.v.kind = "bool" /\ v.verb \in {"eq", "ne"}
                 /\ (value.b = rhs.v.b) = (v.verb = "eq")
              \/ /\ value.kind = "number" /\ rhs.v.kind = "number"
                 /\ Compare(v.verb, value.n, rhs.v.n)

\* apply_verb: does the row pass?
apply_verb(v, actual, vs) ==
  CASE v.verb = "is_ok" -> actual.ok
    [] v.verb = "is_err" -> ~actual.ok
    [] OTHER -> actual.ok /\ apply_value_verb(v, actual.v, vs)

-----------------------------------------------------------------------------
(* The firmware, external.                                                 *)

RtcMethods == DOMAIN Signature.rtc
Setters == {"set_rpm", "set_threshold", "set_btp", "set_real_time", "set_timer_value",
            "set_expired_timer_wake_policy", "clear_wake_status"}

\* What a call carries out stores, n its argument as it is sent.
Stored(method, n) ==
  CASE method.name = "set_threshold" -> [fw EXCEPT !.threshold[method.selector] = n]
    [] method.name = "set_rpm" -> [fw EXCEPT !.rpm = n]
    [] method.name = "set_timer_value" -> [fw EXCEPT !.timer[method.selector] = n]
    [] method.name = "set_expired_timer_wake_policy" ->
         [fw EXCEPT !.policy[method.selector] = n]
    [] method.name = "set_real_time" -> [fw EXCEPT !.time = n]
    [] method.name = "clear_wake_status" -> [fw EXCEPT !.wake[method.selector] = 0]
    [] OTHER -> fw

Bix == [i \in 1..21 |-> IF i \in BixStrings THEN Bytes(BixStringLen) ELSE Word(1)]

\* The right answer of the ACPI method behind a call.
Returned(method) ==
  CASE method.name = "get_temperature" -> <<Word(3000)>>
    [] method.name = "get_rpm" -> <<Word(0), Word(fw.rpm)>>
    [] method.name = "get_min_rpm" -> <<Word(0), Word(0)>>
    [] method.name = "get_max_rpm" -> <<Word(0), Word(6000)>>
    [] method.name = "get_threshold" -> <<Word(0), Word(fw.threshold[method.selector])>>
    [] method.name = "get_bst" -> <<Word(1), Word(0), Word(500), Word(120)>>
    [] method.name = "get_bix" -> Bix
    [] method.name = "get_capabilities" -> <<Word(20)>>
    [] method.name = "get_real_time" -> <<[Bytes(16) EXCEPT !.low = fw.time]>>
    [] method.name = "get_wake_status" -> <<Word(fw.wake[method.selector])>>
    [] method.name = "get_expired_timer_wake_policy" -> <<Word(fw.policy[method.selector])>>
    [] method.name = "get_timer_value" -> <<Word(fw.timer[method.selector])>>
    [] method.name = "set_btp" -> <<>>
    [] OTHER -> <<Word(0)>>

\* A buffer as it should be, a wide integer included, and the broken ones: a
\* wrong header, cut short, too long, a wrong count, and a first argument
\* that is a failure status, too wide, too narrow or not an integer.
Buffer(args) == [signature |-> TRUE, length |-> TRUE, count |-> Len(args), args |-> args,
                 extra |-> 0]
Right(args) ==
  {Ok(Buffer(args))} \cup
  (IF args # <<>> /\ args[1].type = AcpiInteger
   THEN {Ok(Buffer([args EXCEPT ![1].len = 8]))} ELSE {})
Wrong(args) ==
  LET buf == Buffer(args)
      first(a) == Ok(Buffer([args EXCEPT ![1] = a]))
  IN  {Err("Io"), Ok([buf EXCEPT !.signature = FALSE]), Ok([buf EXCEPT !.length = FALSE]),
       Ok([buf EXCEPT !.extra = -1]), Ok([buf EXCEPT !.extra = 4]),
       Ok([buf EXCEPT !.count = @ + 1])}
      \cup (IF args = <<>> THEN {}
            ELSE {first([args[1] EXCEPT !.type = AcpiInteger, !.len = 4, !.low = 7]),
                  first([args[1] EXCEPT !.len = 8, !.high = 1]),
                  first([args[1] EXCEPT !.len = 2]), first(Bytes(4))})

\* The Windows time and alarm driver: the bytes asked of it, and the value.
OutLen(method) ==
  CASE method.name = "get_real_time" -> 16
    [] method.name = "get_capabilities" -> 40
    [] method.name \in {"get_timer_value", "get_expired_timer_wake_policy"} -> 8
    [] OTHER -> 0
DriverValue(method) ==
  CASE method.name = "get_real_time" -> fw.time
    [] method.name = "get_timer_value" -> fw.timer[method.selector]
    [] method.name = "get_expired_timer_wake_policy" -> fw.policy[method.selector]
    [] method.name = "get_capabilities" -> 20
    [] OTHER -> 0

\* What the mock returns; its ramps and charge cycle (EcMock) are any value.
MockValues(method) ==
  CASE method.name = "get_temperature" -> {2500, 4200}
    [] method.name = "get_rpm" -> IF fw.rpm # NoRpm THEN {fw.rpm} ELSE {0, 150000}
    [] method.name = "get_max_rpm" -> {600000}
    [] method.name = "get_threshold" -> {fw.threshold[method.selector]}
    [] method.name = "get_bst" -> {[battery_state |-> 2, battery_present_rate |-> 3839,
                                    battery_remaining_capacity |-> c,
                                    battery_present_voltage |-> 12569] : c \in {1000, 2000}}
    [] method.name = "get_bix" -> {[design_capacity |-> 10000, cycle_count |-> 1337]}
    [] method.name = "get_capabilities" /\ source = "mock" -> {247}
    [] method.name = "get_wake_status" -> {fw.wake[method.selector]}
    [] OTHER -> {DriverValue(method)}

\* The answers to one call, and whether it was carried out.
Replies(method) ==
  LET args == Returned(method)
      good == [bytes_returned |-> OutLen(method), value |-> DriverValue(method)]
      short == [good EXCEPT !.bytes_returned = IF @ = 0 THEN 4 ELSE @ - 4]
      either == IF method.name \in Setters THEN BOOLEAN ELSE {TRUE}
  IN  CASE source = "acpi" ->
             {[answer |-> a, applied |-> TRUE] : a \in Right(args)} \cup
             {[answer |-> a, applied |-> b] : a \in Wrong(args), b \in either}
        [] source = "windows" /\ method.name \in {"get_wake_status", "clear_wake_status"} ->
             {[answer |-> Ok(0), applied |-> FALSE]}
        [] /\ source = "windows"
           /\ method.name \in RtcMethods \ {"get_wake_status", "clear_wake_status"} ->
             {[answer |-> Ok(good), applied |-> TRUE]} \cup
             {[answer |-> a, applied |-> b] : a \in {Err("Io"), Ok(short)}, b \in either}
        [] OTHER -> {[answer |-> Ok(v), applied |-> TRUE] : v \in MockValues(method)}

-----------------------------------------------------------------------------
(* invoke: the argument first, then the call on the source.                *)

scaled(r) == IF r.ok THEN Ok(r.v * 100) ELSE r

Acpi(method, out) ==
  CASE method.name = "get_temperature" -> get_temperature(out)
    [] method.name \in {"get_rpm", "get_min_rpm", "get_max_rpm"} -> scaled(acpi_get_var(out))
    [] method.name = "get_threshold" -> get_threshold(acpi_get_var(out))
    [] method.name \in {"set_rpm", "set_threshold"} -> acpi_set_var(out)
    [] method.name = "get_bst" -> get_bst(out)
    [] method.name = "get_bix" -> get_bix(out)
    [] method.name = "set_btp" -> set_btp(out)
    [] method.name = "get_real_time" -> get_real_time(out)
    [] method.name \in {"get_capabilities", "get_wake_status", "get_timer_value",
                        "get_expired_timer_wake_policy"} -> evaluate_u32(out)
    [] OTHER -> rtc_status(evaluate_u32(out))

\* No IOCTL for the wake status: reading it fails, clearing it does nothing.
Windows(method, answer) ==
  CASE method.name = "get_wake_status" -> Err("Unsupported")
    [] method.name = "clear_wake_status" -> Ok(0)
    [] method.name \in RtcMethods -> ioctl(answer, OutLen(method))
    [] OTHER -> answer

Call(method, answer) ==
  CASE source = "acpi" -> Acpi(method, evaluate(answer))
    [] source = "windows" -> Windows(method, answer)
    [] OTHER -> answer

\* The argument in the script's hundredths, and as the source sends it.
argument(method, vs) ==
  CASE method.name \in {"set_rpm", "set_threshold"} -> num_arg(method.operand, vs)
    [] method.name \in {"set_btp", "set_timer_value", "set_expired_timer_wake_policy"} ->
         u32_arg(method.operand, vs)
    [] method.name = "set_real_time" -> Ok(method.operand.v)
    [] OTHER -> Ok(0)

sent(method, n) ==
  CASE source = "acpi" /\ method.name = "set_threshold" -> c_to_dk(n)
    [] source = "acpi" /\ method.name = "set_rpm" -> as_u32(n)
    [] OTHER -> n

\* r is what the call returned, if the argument was such that it was made.
invoke(method, arg, r) ==
  IF ~arg.ok THEN arg ELSE IF r.ok THEN Ok(to_value(method.name, r.v)) ELSE r

eval_call(s, v) == IF v.ok THEN project(v.v, s.projection) ELSE v

-----------------------------------------------------------------------------
(* Where statements really start, read off the tokens of the whole file.   *)

Flat(content) ==
  LET flat[i \in 0..Len(content)] ==
        IF i = 0 THEN <<>>
        ELSE flat[i - 1] \o [k \in 1..Len(Uncommented(content[i])) |->
                               [tok |-> content[i][k], line |-> i]]
  IN  flat[Len(content)]

\* The tokens of f that begin a statement, and those of the one that i begins.
Begins(f) == {i \in 1..Len(f) : f[i].tok # "semi" /\ (i = 1 \/ f[i - 1].tok = "semi")}
Part(f, i) == {j \in i..Len(f) : \A k \in i..j : f[k].tok # "semi"}

\* The numbers in S up to n, in order.
InOrder(S, n) ==
  LET upto[k \in 0..n] == IF k = 0 THEN <<>>
                          ELSE IF k \in S THEN Append(upto[k - 1], k) ELSE upto[k - 1]
  IN  upto[n]

FirstTokens(content) ==
  LET f == Flat(content)
      open == {i \in Begins(f) : Len(f) \in Part(f, i)}
      bad == {i \in Begins(f) \ open : \E j \in Part(f, i) : f[j].tok = "x"}
      order == InOrder(Begins(f), Len(f))
  IN  IF bad \cup open # {} THEN <<f[Min(IF bad # {} THEN bad ELSE open)].line>>
      ELSE [k \in 1..Len(order) |-> f[order[k]].line]

-----------------------------------------------------------------------------
(* run_path and run_script.                                                *)

NoRow == [verb |-> "none", pass |-> TRUE]
Files == 1..Len(Directory)

Init ==
  /\ source \in {"acpi", "windows", "mock"}
  /\ fw = [threshold |-> IF source = "acpi"
                         THEN [on |-> OnDk, ramping |-> OnDk + 120, max |-> OnDk + 160]
                         ELSE [on |-> 2800, ramping |-> 4000, max |-> 4400],
           rpm |-> IF source = "acpi" THEN 1500 ELSE NoRpm,
           timer |-> [t \in Timers |-> 0], policy |-> [t \in Timers |-> 0], time |-> 1,
           wake |-> [t \in Timers |-> IF source = "mock" THEN 0 ELSE 1]]
  /\ file = 1 /\ stage = "open" /\ lines = <<>> /\ env = <<>>
  /\ passed = 0 /\ failed = 0 /\ total_failed = 0 /\ failed_files = {}
  /\ exit = "none" /\ row = NoRow /\ starts = <<>> /\ bad_rows = {} /\ captured = <<>>

Finish(status) == exit' = status /\ stage' = "done"

\* A file that cannot be read or parsed ends the whole run, whatever is left.
Unreadable ==
  /\ stage = "open" /\ Finish("err")
  /\ UNCHANGED <<source, fw, file, lines, env, passed, failed, total_failed, failed_files, history>>

Open ==
  /\ stage = "open"
  /\ \E content \in Directory[file] :
       LET r == parse(content)
       IN  /\ starts' = FirstTokens(content)
           /\ IF r.ok THEN lines' = r.v /\ stage' = "run" /\ exit' = exit
                      ELSE lines' = <<r.err>> /\ Finish("err")
  /\ env' = <<>> /\ captured' = <<>> /\ passed' = 0 /\ failed' = 0 /\ row' = NoRow
  /\ UNCHANGED <<source, fw, file, total_failed, failed_files, bad_rows>>

\* Runner::record
record(ok) ==
  /\ passed' = passed + (IF ok THEN 1 ELSE 0)
  /\ failed' = failed + (IF ok THEN 0 ELSE 1)
  /\ bad_rows' = IF ok THEN bad_rows ELSE bad_rows \cup {file}

\* execute, for a statement of the file: the call is made once.
Execute(s) ==
  /\ stage = "run" /\ lines # <<>>
  /\ lines' = Tail(lines) /\ starts' = Tail(starts)
  /\ UNCHANGED <<source, file, stage, total_failed, failed_files, exit>>
  /\ \E arg \in {argument(s.method, env)}, reply \in Replies(s.method) :
     \E r \in {Call(s.method, reply.answer)} :
     \E result \in {eval_call(s, invoke(s.method, arg, r))} :
     \E ok \in {IF s.form = "let" THEN result.ok ELSE apply_verb(s.verb, result, env)} :
       LET binds == s.form = "let" /\ result.ok
           origin == IF s.method.name = "get_threshold" THEN fw.threshold[s.method.selector]
                                                        ELSE NoRpm
       IN  /\ ~arg.ok => reply.applied
           /\ fw' = IF arg.ok /\ reply.applied THEN Stored(s.method, sent(s.method, arg.v)) ELSE fw
           /\ env' = IF binds THEN insert(env, s.name, result.v) ELSE env
           /\ captured' = IF binds THEN insert(captured, s.name, origin) ELSE captured
           /\ record(ok)
           /\ row' = [verb |-> IF s.form = "let" THEN "let" ELSE s.verb.verb, pass |-> ok,
                      made |-> arg.ok, returned |-> arg.ok /\ r.ok,
                      applied |-> arg.ok /\ reply.applied, method |-> s.method,
                      arg |-> IF arg.ok THEN arg.v ELSE 0]

Sleep ==
  /\ stage = "run" /\ lines # <<>>
  /\ \E t \in Texts : t.form = "sleep"
  /\ lines' = Tail(lines) /\ starts' = Tail(starts) /\ row' = NoRow
  /\ UNCHANGED <<source, fw, file, stage, env, passed, failed, total_failed, failed_files, exit,
                 bad_rows, captured>>

\* MUTANT: the failures of the last file replace the ones before
add_summary_Last(total, n) == n

add_summary(total, n) == total + n

\* The end of a file, and of the run after the last one.
Close ==
  /\ stage = "run" /\ lines = <<>>
  /\ total_failed' = add_summary(total_failed, failed)
  /\ failed_files' = IF failed = 0 THEN failed_files ELSE failed_files \cup {file}
  /\ row' = NoRow
  /\ IF file < Len(Directory)
     THEN file' = file + 1 /\ stage' = "open" /\ exit' = exit
     ELSE file' = file /\ Finish(IF total_failed' > 0 THEN "failed" ELSE "ok")
  /\ UNCHANGED <<source, fw, lines, env, passed, failed, starts, bad_rows, captured>>

Next == Open \/ Unreadable \/ (\E s \in Statements : Execute(s)) \/ Sleep \/ Close

Spec == Init /\ [][Next]_vars

-----------------------------------------------------------------------------

(***************************************************************************)
(* The line a row or a parse error names is the line on which the first    *)
(* token of its statement stands, however statements, comments and line    *)
(* ends are mixed (start_line in parse).                                   *)
(***************************************************************************)
LineIsStart == lines = starts

(***************************************************************************)
(* The exit status tells the truth about the whole directory: success only *)
(* when every file was run to its end and no row of any file failed, and   *)
(* the list of failing files is exactly the files with a failed row        *)
(* (run_path, Runner).                                                     *)
(***************************************************************************)
ExitMeansAllPassed ==
  /\ exit = "ok" => file = Len(Directory) /\ lines = <<>> /\ bad_rows = {}
  /\ exit = "failed" => bad_rows # {}
  /\ exit \in {"ok", "failed"} => failed_files = bad_rows

(***************************************************************************)
(* A clock setter that a row reports as is_ok was carried out by the       *)
(* firmware, whatever the driver returned: a malformed buffer, a wrong     *)
(* count, type or width, a failure status or a short read is never taken   *)
(* for success (evaluate_u32, AcpiEvalOutputBufferV1, WindowsDevice::ioctl)*)
(* Clearing the wake status on Windows is the exception: it does nothing.  *)
(***************************************************************************)
OkMeansApplied ==
  (row.verb = "is_ok" /\ row.pass /\ row.method.name \in RtcMethods \cap Setters) =>
    row.applied \/ (source = "windows" /\ row.method.name = "clear_wake_status")

(***************************************************************************)
(* A threshold that was set is the nearest one the EC can store, and one   *)
(* captured with let and set again restores exactly what the EC had, also  *)
(* after other rows and failed attempts in between (c_to_dk, dk_to_c, env).*)
(***************************************************************************)
Celsius(dk) == IF source = "acpi" THEN dk_to_c(dk) ELSE dk
ThresholdRoundTrip ==
  (row.verb = "is_ok" /\ row.applied /\ row.method.name = "set_threshold") =>
    LET now == fw.threshold[row.method.selector]
        op == row.method.operand
    IN  /\ row.arg \in dk_to_c(0)..dk_to_c(U32 - 1) => Celsius(now) - row.arg \in -5..5
        /\ (op.kind = "var" /\ captured[op.v] # NoRpm) => now = captured[op.v]

(***************************************************************************)
(* What the language's description promises of is_err: it looks at the     *)
(* call's own result, before any projection, so the row passes only when   *)
(* the call was made and failed.                                           *)
(***************************************************************************)
IsErrIsTheCall ==
  (row.verb = "is_err" /\ row.pass) => row.made /\ ~row.returned
=============================================================================

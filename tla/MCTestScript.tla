---------------------------- MODULE MCTestScript ----------------------------
(* TestScript over two files: the first any text of a line of three and one *)
(* of two tokens with at most two terminators, or three statements; the     *)
(* second one statement, or a malformed one.                                *)
EXTENDS TestScript

MCLines(k) == UNION {[1..n -> {"w", "x", "semi", "hash"}] : n \in 0..k}
MCTerminators(l) == Cardinality({i \in 1..Len(l) : l[i] = "semi"})
MCFirst == {<<a, b>> : a \in MCLines(3), b \in MCLines(2)}
MCDirectory == <<{<<<<"w", "semi", "w", "semi", "w", "semi">>>>} \cup {c \in MCFirst : MCTerminators(c[1]) + MCTerminators(c[2]) <= 2},
                 {<<<<"w", "semi">>>>, <<<<"x", "semi">>>>}>>

Word_(w) == [kind |-> "word", v |-> w]
N(n) == [kind |-> "num", v |-> n]
None == [kind |-> "junk", v |-> 0]
Text(form, name, target, method, args, projection, verb, tail) ==
  [form |-> form, name |-> Word_(name), target |-> target, method |-> method, args |-> args,
   projection |-> projection, verb |-> verb, tail |-> tail]
Check(target, method, args, projection, verb, tail) ==
  Text("check", "t", target, method, args, projection, verb, tail)

MCTexts ==
  {Text("sleep", "t", "rtc", "sleep", <<>>, <<>>, "none", None),
   Text("let", "t", "thermal", "get_threshold", <<Word_("on")>>, <<>>, "none", None),
   Text("let", "t", "battery", "get_bst", <<>>, <<"battery_remaining_capacity">>, "none", None),
   Check("thermal", "get_temperature", <<>>, <<>>, "in_range",
         [kind |-> "range", lo |-> 2000, hi |-> 4000, inclusive |-> TRUE]),
   Check("thermal", "get_max_rpm", <<>>, <<>>, "ok_eq", N(600000)),
   Check("thermal", "get_rpm", <<>>, <<>>, "lt", Word_("inf")),
   Check("thermal", "get_threshold", <<Word_("on")>>, <<>>, "eq", Word_("t")),
   Check("thermal", "set_threshold", <<Word_("on"), N(3004)>>, <<>>, "is_ok", None),
   Check("thermal", "set_threshold", <<Word_("on"), Word_("t")>>, <<>>, "is_ok", None),
   Check("thermal", "set_rpm", <<Word_("t")>>, <<>>, "is_err", None),
   Check("thermal", "set_rpm", <<N(-5)>>, <<>>, "is_ok", None),
   Check("battery", "get_bst", <<>>, <<"typo">>, "is_err", None),
   Check("battery", "get_bst", <<>>, <<>>, "gt", N(0)),
   Check("battery", "get_bix", <<>>, <<"cycle_count">>, "ge", Word_("t")),
   Check("battery", "set_btp", <<N(-100)>>, <<>>, "is_ok", None),
   Check("rtc", "get_capabilities", <<>>, <<"realtime_implemented">>, "eq",
         [kind |-> "bool", v |-> TRUE]),
   Check("rtc", "get_real_time", <<>>, <<"datetime", "unix_timestamp">>, "gt", N(0)),
   Check("rtc", "set_real_time", <<[kind |-> "buffer", v |-> 2]>>, <<>>, "is_ok", None),
   Check("rtc", "get_wake_status", <<Word_("ac")>>, <<"timer_expired">>, "ne",
         [kind |-> "bool", v |-> TRUE]),
   Check("rtc", "get_expired_timer_wake_policy", <<Word_("ac")>>, <<"0">>, "le", N(0)),
   Check("rtc", "get_timer_value", <<Word_("ac")>>, <<"value">>, "eq", N(30000)),
   Check("rtc", "set_timer_value", <<Word_("ac"), N(30000)>>, <<>>, "is_ok", None),
   Check("rtc", "set_expired_timer_wake_policy", <<Word_("ac"), N(500)>>, <<>>, "is_ok", None),
   Check("rtc", "clear_wake_status", <<Word_("ac")>>, <<>>, "is_ok", None),
   Check("rtc", "set_timer_value", <<Word_("on"), N(1)>>, <<>>, "is_ok", None),
   Check("thermal", "get_bst", <<>>, <<>>, "is_ok", None),
   Check("battery", "get_bst", <<N(1)>>, <<>>, "is_ok", None),
   Check("battery", "get_bix", <<>>, <<>>, "equals", N(1))}
=============================================================================

----------------------------- MODULE ScriptLang -----------------------------
(***************************************************************************)
(* The language of the EC test scripts: how a file is cut into statements, *)
(* which statements the parser accepts, and what a call, a projection and  *)
(* a verb evaluate to.  Numbers are hundredths.                            *)
(*                                                                         *)
(* A file is a sequence of lines of tokens: "w" a piece of a well-formed   *)
(* statement, "x" a piece of a malformed one, "semi" the ; that ends one,  *)
(* and "hash" the # that begins a comment.  The text of a statement is a   *)
(* record; an argument or operand is [kind, v] with kind "num", "bool",    *)
(* "word" (an identifier), "buffer" or "junk".                             *)
(***************************************************************************)
EXTENDS EcAcpi, SequencesExt

-----------------------------------------------------------------------------
(* parse: comments cut, lines joined, statements cut off at "semi".        *)

Token == {"w", "x", "semi", "hash"}

\* str::find: where tok first stands in s, 0 if it does not.
find(s, tok) ==
  IF \E i \in 1..Len(s) : s[i] = tok
  THEN CHOOSE i \in 1..Len(s) : s[i] = tok /\ \A j \in 1..(i - 1) : s[j] # tok
  ELSE 0

Uncommented(raw) ==
  IF find(raw, "hash") = 0 THEN raw ELSE SubSeq(raw, 1, find(raw, "hash") - 1)

\* One turn of the inner loop: buf is the text not yet cut, start_line the
\* line its first statement began on.
\* MUTANT: a statement that begins after a terminator keeps the old start
cut_KeepStart(st, lineno) ==
  LET semi == find(st.buf, "semi")
      stmt_src == SubSeq(st.buf, 1, semi - 1)
  IN  IF semi = 0 THEN st
      ELSE [buf |-> SubSeq(st.buf, semi + 1, Len(st.buf)), start_line |-> st.start_line,
            out |-> IF stmt_src = <<>> THEN st.out
                    ELSE Append(st.out, [line |-> st.start_line, text |-> stmt_src])]

cut(st, lineno) ==
  LET semi == find(st.buf, "semi")
      stmt_src == SubSeq(st.buf, 1, semi - 1)
  IN  IF semi = 0 THEN st
      ELSE [buf |-> SubSeq(st.buf, semi + 1, Len(st.buf)), start_line |-> lineno,
            out |-> IF stmt_src = <<>> THEN st.out
                    ELSE Append(st.out, [line |-> st.start_line, text |-> stmt_src])]

joined(st, lineno, line) ==
  [buf |-> st.buf \o line, start_line |-> IF st.buf = <<>> THEN lineno ELSE st.start_line,
   out |-> st.out]

\* One line; each turn of the inner loop takes at least the "semi" off buf.
parse_line(st, lineno, raw) ==
  LET line == Uncommented(raw)
      whole == joined(st, lineno, line)
      turn[k \in 0..Len(whole.buf)] == IF k = 0 THEN whole ELSE cut(turn[k - 1], lineno)
  IN  IF line = <<>> THEN st ELSE turn[Len(whole.buf)]

\* The statements' lines, or the line of the first one that is malformed or,
\* when all are well-formed, of the one without a terminator.
parse(file) ==
  LET after[i \in 0..Len(file)] ==
        IF i = 0 THEN [buf |-> <<>>, start_line |-> 0, out |-> <<>>]
        ELSE parse_line(after[i - 1], i, file[i])
      st == after[Len(file)]
      bad == {i \in 1..Len(st.out) : \E k \in 1..Len(st.out[i].text) : st.out[i].text[k] = "x"}
  IN  IF bad # {} THEN Err(st.out[Min(bad)].line)
      ELSE IF st.buf # <<>> THEN Err(st.start_line)
      ELSE Ok([i \in 1..Len(st.out) |-> st.out[i].line])

-----------------------------------------------------------------------------
(* parse_stmt: the forms, methods and verbs that exist.                    *)

Infinity == 2000000000
Thresholds == {"on", "ramping", "max"}
Timers == {"ac", "dc"}

is_ident(x) == x.kind = "word"

\* "inf" and the like parse as numbers before they can be identifiers.
parse_operand(x) ==
  CASE x.kind \in {"num", "bool"} -> Ok(x)
    [] x.kind = "word" -> IF x.v = "inf" THEN Ok([kind |-> "num", v |-> Infinity])
                          ELSE Ok([kind |-> "var", v |-> x.v])
    [] OTHER -> Err("expected number/true/false/identifier")

\* What the argument list of a method must be.
Signature ==
  [thermal |-> [get_temperature |-> "none", get_rpm |-> "none", get_min_rpm |-> "none",
                get_max_rpm |-> "none", get_threshold |-> "threshold",
                set_rpm |-> "operand", set_threshold |-> "threshold,operand"],
   battery |-> [get_bst |-> "none", get_bix |-> "none", set_btp |-> "operand"],
   rtc |-> [get_capabilities |-> "none", get_real_time |-> "none", set_real_time |-> "buffer",
            get_wake_status |-> "timer", get_expired_timer_wake_policy |-> "timer",
            get_timer_value |-> "timer", set_timer_value |-> "timer,operand",
            set_expired_timer_wake_policy |-> "timer,operand", clear_wake_status |-> "timer"]]

\* build_method: the method with its selector and its operand.
build_method(target, name, args) ==
  LET sig == Signature[target][name]
      selector(S) == IF Len(args) > 0 /\ args[1].kind = "word" /\ args[1].v \in S
                     THEN Ok(args[1].v) ELSE Err("unknown selector")
      operand(i) == IF Len(args) = i THEN parse_operand(args[i]) ELSE Err("requires an argument")
      method(sel, op) == IF ~sel.ok THEN sel ELSE IF ~op.ok THEN op
                         ELSE Ok([name |-> name, selector |-> sel.v, operand |-> op.v])
      nothing == Ok([kind |-> "none", v |-> 0])
      alone(n) == IF Len(args) = n THEN nothing ELSE Err("argument count")
  IN  IF target \notin DOMAIN Signature THEN Err("unknown target")
      ELSE IF name \notin DOMAIN Signature[target] THEN Err("unknown method")
      ELSE CASE sig = "none" -> method(Ok("none"), alone(0))
             [] sig = "threshold" -> method(selector(Thresholds), alone(1))
             [] sig = "timer" -> method(selector(Timers), alone(1))
             [] sig = "operand" -> method(Ok("none"), operand(1))
             [] sig = "threshold,operand" -> method(selector(Thresholds), operand(2))
             [] sig = "timer,operand" -> method(selector(Timers), operand(2))
             [] sig = "buffer" -> IF Len(args) = 1 /\ args[1].kind = "buffer"
                                  THEN method(Ok("none"), Ok(args[1]))
                                  ELSE Err("set_real_time requires Buffer(16)")

Comparisons == {"eq", "ne", "gt", "ge", "lt", "le"}

\* parse_verb: the ok_ spelling of a verb means the same as the bare one.
Bare == [ok_eq |-> "eq", ok_gt |-> "gt", ok_ge |-> "ge", ok_lt |-> "lt", ok_le |-> "le",
         ok_in_range |-> "in_range"]
parse_verb(head, tail) ==
  LET verb == IF head \in DOMAIN Bare THEN Bare[head] ELSE head
      op == parse_operand(tail)
  IN  CASE verb \in {"is_ok", "is_err"} -> Ok([verb |-> verb, operand |-> tail])
        [] verb \in Comparisons -> IF op.ok THEN Ok([verb |-> verb, operand |-> op.v]) ELSE op
        [] verb = "in_range" -> IF tail.kind = "range" THEN Ok([verb |-> verb, operand |-> tail])
                                                       ELSE Err("expected lo..hi")
        [] OTHER -> Err("unknown verb")

parse_stmt(t) ==
  LET method == build_method(t.target, t.method, t.args)
      verb == parse_verb(t.verb, t.tail)
      stmt(v) == [form |-> t.form, name |-> t.name.v, method |-> method.v,
                  projection |-> t.projection, verb |-> v]
  IN  CASE t.form = "sleep" -> Ok(t)
        [] t.form = "let" -> IF ~is_ident(t.name) THEN Err("name")
                             ELSE IF method.ok THEN Ok(stmt("none")) ELSE method
        [] t.form = "check" -> IF ~method.ok THEN method
                               ELSE IF verb.ok THEN Ok(stmt(verb.v)) ELSE verb
        [] OTHER -> Err("expected =>")
=============================================================================
